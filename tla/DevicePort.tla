----------------------------- MODULE DevicePort -----------------------------
(***************************************************************************)
(* What a driver promises the callers of drivers/device.c: each call takes *)
(* effect at one moment, its return, as Device says; in between the device *)
(* runs and stops as it likes, and things may begin to go wrong.           *)
(***************************************************************************)
EXTENDS Device

CONSTANT Fresh   \* a buffer of the caller before anything is read into it

VARIABLES
  op,    \* the call in progress or last returned: [name, addr, size, bytes]
  busy,  \* TRUE while it is in progress
  ret,   \* what the last call returned
  buf    \* the caller's buffer

port == <<op, busy, ret, buf>>
portVars == <<dev, mem, faults, op, busy, ret, buf>>

\* What call o has done when it returns r, with old in the caller's buffer.
Effect(o, old, r) ==
  \/ o.name = "probe" /\ (r = "CL_SUCCESS" \/ Reported(r)) /\ UNCHANGED <<dev, mem, buf>>
  \/ o.name \in {"reset", "stop"} /\ Commands(r, "halted") /\ UNCHANGED <<mem, buf>>
  \/ o.name = "run" /\ Commands(r, "running") /\ UNCHANGED <<mem, buf>>
  \/ o.name = "write" /\ Writes(o.addr, o.bytes, o.size, r) /\ UNCHANGED <<dev, buf>>
  \/ o.name = "read" /\ buf' \in Reads(old, o.addr, o.size, r) /\ UNCHANGED <<dev, mem>>

Begins ==
  /\ ~busy /\ busy' /\ MayCall(op')
  /\ buf' = IF op'.name = "read" THEN Fresh ELSE buf
  /\ UNCHANGED <<dev, mem, faults, ret>>

Ends == busy /\ ~busy' /\ Effect(op, buf, ret') /\ UNCHANGED <<op, faults>>

EndsAtOnce ==
  /\ ~busy /\ ~busy' /\ MayCall(op')
  /\ Effect(op', IF op'.name = "read" THEN Fresh ELSE buf, ret') /\ UNCHANGED faults

Stores == dev = "running" /\ mem' = [x \in Addr |-> mem'[x]] /\ UNCHANGED <<dev, faults, port>>

Stops == Halts /\ UNCHANGED <<faults, port>>

\* More may go wrong from now on, and a command on its way may be lost.
Degrades ==
  /\ faults \subseteq faults' /\ faults' \subseteq {"report", "silent"} /\ dev' \in {dev, "halted"}
  /\ UNCHANGED <<mem, port>>

Init ==
  /\ op.name = "probe" /\ busy = TRUE
  /\ dev \in {"halted", "running"} /\ mem = [x \in Addr |-> mem[x]]
  /\ faults \subseteq {"report", "silent"}

Next == Begins \/ Ends \/ EndsAtOnce \/ Stores \/ Stops \/ Degrades

Spec == Init /\ [][Next]_portVars
=============================================================================
