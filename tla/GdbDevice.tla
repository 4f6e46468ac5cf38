----------------------------- MODULE GdbDevice ------------------------------
(***************************************************************************)
(* The GDB driver and the server behind it as a device: GdbRemote          *)
(* implements DevicePort.  A call takes effect at its return, though its   *)
(* packets were served one by one before; what memory was when a write     *)
(* began is kept in a history variable.                                    *)
(***************************************************************************)
EXTENDS GdbRemote

VARIABLE before   \* target memory when the write in progress began

During(op) == pc # "idle" /\ cur.op = op

InitBefore == Init /\ before = dmem
Remembers == before' = IF During("write")' THEN before ELSE dmem'
NextBefore == Next /\ Remembers
SpecBefore == /\ InitBefore /\ [][NextBefore]_<<vars, before>>
              /\ WF_vars(Answers) /\ WF_vars(ServerTakes)

\* A run command has been sent and not been taken yet.
RunSent == \E i \in DOMAIN toServer : IsPacket(toServer[i]) /\ toServer[i].cmd = "run"

DevNow == IF target = "running" \/ RunSent THEN "running" ELSE "halted"
MemNow == IF During("write") THEN before ELSE dmem
FaultsNow == (IF link = "down" THEN {"report", "silent"} ELSE {})
             \cup (IF world.errors THEN {"silent"} ELSE {})
OpNow == [name |-> cur.op, addr |-> 1, size |-> cur.blks,
          bytes |-> [o \in 0 .. cur.blks - 1 |-> Written(cur.no)]]
FreshBuffer == [o \in 0 .. Blocks - 1 |-> Old]
BufNow == IF During("read") THEN FreshBuffer ELSE [o \in 0 .. Blocks - 1 |-> got[o + 1]]

Port == INSTANCE DevicePort
  WITH Addr <- 1 .. Blocks, Fresh <- FreshBuffer,
       Errors <- {"CL_INVALID_DEVICE", "CL_OUT_OF_RESOURCES", "CL_OUT_OF_HOST_MEMORY"},
       dev <- DevNow, mem <- MemNow, faults <- FaultsNow,
       op <- OpNow, busy <- pc # "idle", buf <- BufNow

\* The OpenOCD driver on a connection that spoils nothing but memory commands
\* is a device as the rest of the library takes it: reset, stop and run have
\* put the target into the state they name when they say so; transfers touch a
\* halted target, the blocks they name and nothing else; a transfer is in part
\* undone only where the server refuses commands or the link has broken.
ImplementsDevice ==
  /\ GoodAnswers => Port!Init
  /\ [][GoodAnswers => Port!Next]_Port!portVars
=============================================================================
