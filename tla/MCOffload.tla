----------------------------- MODULE MCOffload -----------------------------
(* Two programs on one device, with the comm area of the second inside its *)
(* data area, as .comm_area is in a linked binary.  Headers are two cells  *)
(* and arguments are aligned to two, so that one-cell values need padding. *)
(* The kernel of P takes an input A and an input and output B; the one of Q *)
(* takes B and an output C, which it may only write, as the samples' are.   *)
EXTENDS Offload, TLC

CONSTANTS P, Q, A, B, C

area(x, size, ro) == [paddr |-> x, size |-> size, readonly |-> ro]
MemArg(m) == [type |-> "MEM", size |-> 8, mem |-> m]
ValArg(n) == [type |-> "VAL", size |-> n, mem |-> NullMem]
Gap == [type |-> "NOTUSED", size |-> 0, mem |-> NullMem]

MCPrograms == {P, Q}
MCMems == {A, B, C}
MCMemSize == (A :> 2) @@ (B :> 1) @@ (C :> 2)
MCCanRead == {A, B}
MCCanWrite == {B, C}
MCAddr == 0 .. 37

\* The text of P and of Q, a data area each, and an empty entry (a program
\* header that is not PT_LOAD).
MCChunks == (P :> <<area(0, 2, TRUE), area(2, 1, FALSE), area(0, 0, FALSE)>>)
            @@ (Q :> <<area(18, 1, TRUE), area(19, 3, FALSE)>>)
\* The arguments of KIn are the most the comm area of P takes.
MCComm == (P :> [addr |-> 4, size |-> 14]) @@ (Q :> [addr |-> 20, size |-> 18])

KIn  == [prg |-> P, name |-> 1, args |-> <<MemArg(A), MemArg(B)>>]
KOut == [prg |-> Q, name |-> 2, args |-> <<MemArg(C), ValArg(1), MemArg(B)>>]
MCAlternate == {KIn, KOut}

\* Kernels of one buffer B: arguments one cell too long for the comm area, one
\* never set, one that is no buffer any more, a program that is none.
KTooBig  == [prg |-> P, name |-> 1, args |-> <<MemArg(B), ValArg(3)>>]
KInOut   == [prg |-> Q, name |-> 1, args |-> <<MemArg(B)>>]
KGap     == [prg |-> Q, name |-> 1, args |-> <<Gap, MemArg(B)>>]
KNullMem == [prg |-> P, name |-> 1, args |-> <<MemArg(NullMem)>>]
KBad     == [prg |-> NullPrg, name |-> 1, args |-> <<>>]
MCRefused == {KTooBig, KInOut, KGap, KNullMem, KBad}

MCOneMem == {B}
MCOneMemSize == B :> 1

ASSUME MCImages == RoomForHeader /\ DisjointImages /\ AlignedComm
ASSUME MCArgs   == EachBufferOnce
============================================================================
