------------------------ MODULE MCPermessageDeflate ------------------------
(* PermessageDeflate on two connections of one process. *)
EXTENDS PermessageDeflate

(* A server and a client; the first instance decides the limit. *)
PairServer == [c \in {"a", "b"} |-> c = "a"]
PairLimit == [c \in {"a", "b"} |-> IF c = "a" THEN 1 ELSE 2]

(* One stream of each that is reset behind a message and one that is not. *)
PairNoTakeover == [c \in {"a", "b"} |-> IF c = "a" THEN {"server"} ELSE {"client"}]

(* What the server sends, and the client receives, may depend on an earlier frame. *)
PairFrames == [c \in {"a", "b"} |->
    IF c = "a" THEN [deflate |-> 2, inflate |-> 1] ELSE [deflate |-> 1, inflate |-> 2]]
=============================================================================
