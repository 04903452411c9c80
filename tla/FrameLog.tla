------------------------------ MODULE FrameLog ------------------------------
(***************************************************************************)
(* What a WebSocket sender promises, without saying how: the frames the    *)
(* program asks for reach the socket in the order of the calls, none twice *)
(* and none skipped, however long the library holds some of them back.     *)
(* Once the log is broken (the socket is gone) nothing more comes out.     *)
(***************************************************************************)
EXTENDS Naturals, Sequences

CONSTANT Frame           \* the frames a program may ask for

VARIABLES accepted,      \* frames the program asked for, in call order
          written,       \* frames handed to the socket
          broken         \* the socket accepts no more frames

vars == <<accepted, written, broken>>

Init == /\ accepted = <<>>
        /\ written = <<>>
        /\ broken = FALSE

(* A call is taken; its frame may come out later. *)
Accept == /\ \E f \in Frame : accepted' = Append(accepted, f)
          /\ UNCHANGED <<written, broken>>

(* The frames of the calls up to the n-th are out. *)
Deliver == /\ ~broken
           /\ \E n \in (Len(written) + 1) .. Len(accepted) :
                 written' = SubSeq(accepted, 1, n)
           /\ UNCHANGED <<accepted, broken>>

(* Nothing is held back: the frame of the call is out at once. *)
AcceptAndDeliver == /\ ~broken
                    /\ written = accepted
                    /\ \E f \in Frame : accepted' = Append(accepted, f)
                    /\ written' = accepted'
                    /\ UNCHANGED broken

(* The socket is ended or lost. *)
Break == /\ ~broken
         /\ broken' = TRUE
         /\ UNCHANGED <<accepted, written>>

Next == Accept \/ Deliver \/ AcceptAndDeliver \/ Break

Spec == Init /\ [][Next]_vars
=============================================================================
