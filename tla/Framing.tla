------------------------------ MODULE Framing ------------------------------
(***************************************************************************)
(* How a frame looks on the wire: the header Sender.frame() writes, the    *)
(* masking of lib/buffer-util.js and the checks of lib/validation.js.      *)
(* A byte is a number 0 .. 255.                                            *)
(*                                                                         *)
(* Octets also covers what another implementation may send: a payload      *)
(* length in more bits than it needs, reserved bits and opcodes, and a     *)
(* length that no JavaScript number holds exactly (`unsafe`).              *)
(***************************************************************************)
EXTENDS Integers, Sequences

Byte == 0 .. 255

(* Bitwise exclusive or of two bytes, bit by bit. *)
XorBit(a, b, w) == IF (a \div w) % 2 = (b \div w) % 2 THEN 0 ELSE w

Xor(a, b) == XorBit(a, b, 1) + XorBit(a, b, 2) + XorBit(a, b, 4) + XorBit(a, b, 8)
             + XorBit(a, b, 16) + XorBit(a, b, 32) + XorBit(a, b, 64) + XorBit(a, b, 128)

(* mask() and unmask(): the key is repeated over the bytes. *)
Masked(bytes, key) == [i \in 1 .. Len(bytes) |-> Xor(bytes[i], key[((i - 1) % 4) + 1])]

-----------------------------------------------------------------------------
(* Big-endian numbers: writeUInt16BE() and writeUIntBE(n, 4, 6) behind two  *)
(* zero bytes, and what readUInt16BE() and readUInt32BE() make of them.     *)
UInt16Bytes(n) == <<(n \div 256) % 256, n % 256>>

UInt64Bytes(n) ==
    LET n1 == n \div 256  n2 == n1 \div 256  n3 == n2 \div 256
        n4 == n3 \div 256 n5 == n4 \div 256
    IN <<0, 0, n5 % 256, n4 % 256, n3 % 256, n2 % 256, n1 % 256, n % 256>>

UInt16(b) == 256 * b[1] + b[2]

UInt64(b) ==
    256 * (256 * (256 * (256 * (256 * (256 * (256 * b[1] + b[2]) + b[3]) + b[4])
        + b[5]) + b[6]) + b[7]) + b[8]

(* Is the number of eight bytes above 2^53 - 1?  Its first four bytes are   *)
(* then at least 2^21 = 32 * 2^16.                                          *)
Unsafe(b) == b[1] > 0 \/ b[2] >= 32

-----------------------------------------------------------------------------
(* The form of the length that Sender.frame() chooses. *)
Form(n) == IF n >= 65536 THEN 127 ELSE IF n > 125 THEN 126 ELSE n

(* The second byte without its mask bit, for a length of n in a given form. *)
LengthBytes(n, form) ==
    IF form = 127 THEN UInt64Bytes(n) ELSE IF form = 126 THEN UInt16Bytes(n) ELSE <<>>

Bit(condition, weight) == IF condition THEN weight ELSE 0

(* A frame on the wire.  f.mask is <<>> or the four bytes of the key.       *)
Octets(f) ==
    <<Bit(f.fin, 128) + Bit(f.rsv1, 64) + Bit(f.rsv2, 32) + f.opcode,
      Bit(f.mask # <<>>, 128) + f.form>>
    \o (IF f.unsafe THEN <<0, 32, 0, 0, 0, 0, 0, 0>>
                    ELSE LengthBytes(Len(f.payload), f.form))
    \o f.mask
    \o (IF f.mask = <<>> THEN f.payload ELSE Masked(f.payload, f.mask))

(* The lengths that a form can write: those of UInt64Bytes have six bytes.  *)
Fits(n, form) ==
    IF form = 127 THEN (n \div 65536) \div 65536 < 65536
    ELSE IF form = 126 THEN n < 65536 ELSE n = form

(* The frames that Octets can write. *)
WireFrames ==
    {f \in [opcode : 0 .. 15, fin : BOOLEAN, rsv1 : BOOLEAN, rsv2 : BOOLEAN, unsafe : BOOLEAN,
            mask : {<<>>} \cup [1 .. 4 -> Byte], form : 0 .. 127, payload : Seq(Byte)] :
        IF f.unsafe THEN f.form = 127 ELSE Fits(Len(f.payload), f.form)}

(* What Sender.frame() is asked to send. *)
Frame(opcode, fin, rsv1, mask, payload) ==
    [opcode |-> opcode, fin |-> fin, rsv1 |-> rsv1, rsv2 |-> FALSE, mask |-> mask,
     form |-> Form(Len(payload)), unsafe |-> FALSE, payload |-> payload]

-----------------------------------------------------------------------------
IsValidStatusCode(code) ==
    \/ code \in (1000 .. 1014) \ {1004, 1005, 1006}
    \/ code \in 3000 .. 4999

(* The well-formed characters of UTF-8 that start at position i: no         *)
(* overlong form, no surrogate, nothing above U+10FFFF.                     *)
Continues(s, i, n) == i + n <= Len(s) /\ \A j \in i + 1 .. i + n : s[j] \in 128 .. 191

Width(s, i) ==
    CASE s[i] < 128                                     -> 1
      [] s[i] \in 194 .. 223 /\ Continues(s, i, 1)      -> 2
      [] /\ s[i] \in 224 .. 239 /\ Continues(s, i, 2)
         /\ s[i] = 224 => s[i + 1] >= 160
         /\ s[i] = 237 => s[i + 1] < 160                -> 3
      [] /\ s[i] \in 240 .. 244 /\ Continues(s, i, 3)
         /\ s[i] = 240 => s[i + 1] >= 144
         /\ s[i] = 244 => s[i + 1] < 144                -> 4
      [] OTHER                                          -> 0

(* Every byte starts a character or continues the one that covers it. *)
IsValidUTF8(s) ==
    \A i \in 1 .. Len(s) :
        \/ Width(s, i) > 0
        \/ \E j \in 1 .. i - 1 : j >= i - 3 /\ j + Width(s, j) > i
=============================================================================
