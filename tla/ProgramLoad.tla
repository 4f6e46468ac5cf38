---------------------------- MODULE ProgramLoad ----------------------------
(***************************************************************************)
(* What loading a binary promises (the use src/cl_program.c makes of       *)
(* prg_elf_load): one answer, and with CL_SUCCESS the program's memory     *)
(* image and communication area; or, where MayDie, the end of the process. *)
(***************************************************************************)
CONSTANTS
  Binaries,    \* what the application may pass
  Good(_),     \* the binaries that must be accepted; all others are refused
  ImageOf(_),  \* what a good binary puts where, and what must be put again
  CommOf(_),   \* where its communication area is
  MayDie       \* whether running out of memory may end the process instead

VARIABLES bin, answer, image, comm

Nothing == {}

Init == bin \in Binaries /\ answer = "none" /\ image = Nothing /\ comm = Nothing

Accept ==
  /\ Good(bin) /\ answer' = "CL_SUCCESS"
  /\ image' = ImageOf(bin) /\ comm' = CommOf(bin)

Refuse == ~Good(bin) /\ answer' = "CL_INVALID_BINARY" /\ UNCHANGED <<image, comm>>

NoMemory == answer' = "CL_OUT_OF_HOST_MEMORY" /\ UNCHANGED <<image, comm>>

Die == MayDie /\ answer' = "crash" /\ UNCHANGED <<image, comm>>

Next == answer = "none" /\ UNCHANGED bin /\ (Accept \/ Refuse \/ NoMemory \/ Die)

Spec == Init /\ [][Next]_<<bin, answer, image, comm>> /\ WF_<<bin, answer, image, comm>>(Next)
=============================================================================
