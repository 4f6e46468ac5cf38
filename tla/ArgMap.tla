------------------------------- MODULE ArgMap -------------------------------
(***************************************************************************)
(* What clSetKernelArg promises its caller: a kernel has one value for     *)
(* every argument index, set by the last call that succeeded; a call that  *)
(* fails changes nothing.                                                  *)
(***************************************************************************)
CONSTANTS Indices, Values, NotUsed

VARIABLES value, ok

AInit == value = [i \in Indices |-> NotUsed] /\ ok = TRUE

ASet(i, v) == value' = [value EXCEPT ![i] = v] /\ ok' = TRUE

AFail == value' = value /\ ok' = FALSE

ANext == AFail \/ \E i \in Indices, v \in Values : ASet(i, v)

ASpec == AInit /\ [][ANext]_<<value, ok>>
=============================================================================
