------------------------------- MODULE Device -------------------------------
(***************************************************************************)
(* A device as the callers of drivers/device.c meet it: when they may call *)
(* an operation, and what it may have done to the device, to its memory    *)
(* and to the caller's buffer when it returns r.  Offload is built on      *)
(* these operations; DevicePort makes a specification of them, which a     *)
(* driver can be shown to implement.                                       *)
(***************************************************************************)
EXTENDS Integers

CONSTANTS
  Addr,    \* addresses of device memory
  Errors   \* what an operation returns when it reports a failure

VARIABLES
  dev,     \* "halted" or "running"
  mem,     \* device memory, a function from Addr to cells
  faults   \* what may go wrong: "report" an operation that says so,
           \*   "silent" a transfer that returns CL_SUCCESS all the same

Names == {"probe", "reset", "stop", "run", "read", "write"}

\* A caller may make call o: the device is halted for all but a reset and a stop.
MayCall(o) == /\ o.name \in Names /\ o.addr .. (o.addr + o.size - 1) \subseteq Addr
              /\ o.name \in {"run", "read", "write"} => dev = "halted"

Reported(r) == "report" \in faults /\ r \in Errors

\* dev_reset, dev_run and dev_stop, which leave the device in a state.
Commands(r, state) ==
  \/ r = "CL_SUCCESS" /\ dev' = state
  \/ Reported(r) /\ UNCHANGED dev

\* Which cells of a transfer of size cells have been moved when it returns r.
\* Drivers send in blocks and go on after a block that was refused, so that
\* a transfer that fails may have moved any of them.
Moved(cells, size, r) ==
  \/ r = "CL_SUCCESS" /\ cells = 0 .. size - 1
  \/ /\ cells \subseteq 0 .. size - 1 /\ size # 0
     /\ Reported(r) \/ ("silent" \in faults /\ r = "CL_SUCCESS")

\* Device memory, and a buffer, after cells of a transfer at a have been moved.
Stored(a, bytes, cells) == [x \in Addr |-> IF x - a \in cells THEN bytes[x - a] ELSE mem[x]]
Loaded(old, a, cells) == [o \in DOMAIN old |-> IF o \in cells THEN mem[a + o] ELSE old[o]]

\* dev_write_mem of bytes[0], bytes[1], ... to address a; and what dev_read_mem
\* may make of the content old of the caller's buffer.
Writes(a, bytes, size, r) ==
  \E cells \in SUBSET (0 .. size - 1) : Moved(cells, size, r) /\ mem' = Stored(a, bytes, cells)

Reads(old, a, size, r) ==
  {Loaded(old, a, cells) : cells \in {c \in SUBSET (0 .. size - 1) : Moved(c, size, r)}}

\* The device may stop by itself (external).
Halts == dev = "running" /\ dev' = "halted" /\ UNCHANGED mem
=============================================================================
