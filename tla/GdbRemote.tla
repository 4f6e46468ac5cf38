----------------------------- MODULE GdbRemote -----------------------------
(***************************************************************************)
(* One session of the GDB remote serial protocol: the driver functions of  *)
(* drivers/gdb/ that reset, run, stop, read and write the target, and the  *)
(* debug server (external) at the other end of the connection.             *)
(*                                                                         *)
(* Each direction of the connection is a queue of acks and packets.  The   *)
(* host cannot tell an old answer from the one it waits for; the number of *)
(* the request a packet answers (no) is seen by the properties only.       *)
(***************************************************************************)
EXTENDS Naturals, Sequences, SequencesExt

CONSTANTS
  Worlds,       \* the set-ups met, records of
                \*   driver: "openocd" or "qemu", whose reset function is used,
                \*   corruptible: what the connection may spoil, of "transfer" (read
                \*     and write commands), "control" (other commands), "answer",
                \*   errors: whether the server may answer a memory command with one,
                \*   calls: bound on the driver calls of a behaviour (TLC only)
  Blocks,       \* most blocks (of 0x7f0 bytes) of one memory transfer
  MaxConsole,   \* bound on the console packets of a behaviour (TLC only)
  MaxCorrupt,   \* bound on the packets the connection corrupts
  LinkMayFail   \* TRUE if the connection may break

ASSUME GdbAssumption ==
  /\ Worlds \subseteq [driver : {"openocd", "qemu"}, errors : BOOLEAN, calls : Nat,
                       corruptible : SUBSET {"transfer", "control", "answer"}]
  /\ Blocks \in Nat \ {0}
  /\ MaxConsole \in Nat /\ MaxCorrupt \in Nat
  /\ LinkMayFail \in BOOLEAN

VARIABLES
  world,     \* the set-up, one of Worlds: no step changes it
  pc,        \* "idle", or what the driver waits for: "ack", "reply", "stop", "empty"
  cur,       \* the call in progress or last returned: [op, no, blk, blks]
  ret,       \* what it returned
  view,      \* the target as the caller knows it: "halted", "running", "unknown"
  got,       \* got[b]: block b of the caller's read buffer
  toServer, toHost,    \* in flight, oldest first
  link,      \* "up" or "down"
  target,    \* "halted" or "running"
  contd,     \* number of the continue that has had no stop reply yet, or 0
  dmem,      \* dmem[b]: block b of target memory, the number of the call that wrote it
  lastReply, \* the packet the server sent last
  console, corrupted   \* counters of the bounds

host == <<pc, cur, ret, view, got>>
server == <<target, contd, dmem, lastReply, console>>
vars == <<world, host, toServer, toHost, link, server, corrupted>>

\* Contents of a block: what call n wrote, nothing, or bytes of a bad packet.
Written(n) == <<"call", n>>
Old == <<"old">>
Garbled == <<"garbled">>

Ack == [kind |-> "ack"]
Nack == [kind |-> "nack"]
Etx == [kind |-> "etx"]
IsPacket(x) == x.kind = "packet"

\* A host packet, and a server packet of which cut bytes were read as an ack.
Cmd(c, name) == [kind |-> "packet", cmd |-> name, no |-> c.no, blk |-> c.blk, ok |-> TRUE]
Ans(a, no, blk, val) ==
  [kind |-> "packet", ans |-> a, no |-> no, blk |-> blk, val |-> val, ok |-> TRUE, cut |-> 0]

--------------------------------------------------------------------------
(* gdb_remote_send and gdb_remote_recv.                                    *)

Return(r, seen) ==
  /\ pc' = "idle" /\ ret' = r
  /\ view' = IF r = "CL_SUCCESS" THEN seen ELSE "unknown"

\* Send command c after the bytes first, and wait for its ack.  A write does
\* not tell its caller that it could not be sent.
Transmit(first, c) ==
  /\ cur' = c
  /\ \/ /\ link = "up" /\ pc' = "ack" /\ UNCHANGED <<ret, view>>
        /\ toServer' = toServer \o first \o <<Cmd(c, c.op)>>
     \/ /\ link = "down" /\ UNCHANGED toServer
        /\ Return(IF c.op = "write" THEN "CL_SUCCESS" ELSE "CL_OUT_OF_RESOURCES", view)

\* Mutants: one block too many, the last block forgotten.
NextBlockOnceMore(first) ==
  \/ cur.blk <= cur.blks /\ Transmit(first, [cur EXCEPT !.blk = @ + 1])
  \/ /\ cur.blk > cur.blks /\ Return("CL_SUCCESS", view) /\ UNCHANGED cur
     /\ toServer' = toServer \o first

NextBlockButLast(first) ==
  \/ cur.blk + 1 < cur.blks /\ Transmit(first, [cur EXCEPT !.blk = @ + 1])
  \/ /\ cur.blk + 1 >= cur.blks /\ Return("CL_SUCCESS", view) /\ UNCHANGED cur
     /\ toServer' = toServer \o first

\* The loops of gdb_remote_read_mem and gdb_remote_write_mem.
NextBlock(first) ==
  \/ cur.blk < cur.blks /\ Transmit(first, [cur EXCEPT !.blk = @ + 1])
  \/ /\ cur.blk = cur.blks /\ Return("CL_SUCCESS", view) /\ UNCHANGED cur
     /\ toServer' = toServer \o first

\* gdb_remote_recv skips acks and reads up to the end of the next packet.  A
\* nack before it, or more than its '$' lost to an earlier read, spoils what is
\* read; what a packet with a bad checksum says is returned as it came.
Arrived == \E i \in DOMAIN toHost : IsPacket(toHost[i])
First == SelectInSeq(toHost, IsPacket)
Next1 == toHost[First]
Whole == Next1.cut <= 1 /\ \A i \in 1 .. First - 1 : toHost[i] = Ack
Clean == Whole /\ Next1.ok
Answer == IF Whole THEN Next1.ans ELSE "garbled"
AckChar == <<IF Clean THEN Ack ELSE Nack>>
Take == toHost' = SubSeq(toHost, First + 1, Len(toHost))

Keep == UNCHANGED <<world, link, server, corrupted>>

--------------------------------------------------------------------------
(* Calls, as cl_enqueue.c makes them: reset at any time, memory transfers  *)
(* and run on a target known to be halted, stop after run.                 *)

Opens(op, n) == [op |-> op, no |-> cur.no + 1, blk |-> 1, blks |-> n]
MayCall == pc = "idle" /\ cur.no < world.calls

CallReset == MayCall /\ Transmit(<<>>, Opens("reset", 1)) /\ UNCHANGED <<got, toHost>> /\ Keep

CallRead(n) ==
  /\ MayCall /\ view = "halted" /\ Transmit(<<>>, Opens("read", n))
  /\ got' = [b \in 1 .. Blocks |-> Old] /\ UNCHANGED toHost /\ Keep

CallWrite(n) ==
  /\ MayCall /\ view = "halted" /\ Transmit(<<>>, Opens("write", n))
  /\ UNCHANGED <<got, toHost>> /\ Keep

\* vCont;c is sent without waiting for its ack, which stays in the queue.
CallRun ==
  /\ MayCall /\ view = "halted" /\ cur' = Opens("run", 1)
  /\ \/ link = "up" /\ toServer' = Append(toServer, Cmd(cur', "run")) /\ Return("CL_SUCCESS", "running")
     \/ link = "down" /\ UNCHANGED toServer /\ Return("CL_OUT_OF_RESOURCES", view)
  /\ UNCHANGED <<got, toHost>> /\ Keep

CallStop ==
  /\ MayCall /\ view = "running" /\ cur' = Opens("stop", 1) /\ pc' = "stop"
  /\ toServer' = IF link = "up" THEN Append(toServer, Etx) ELSE toServer
  /\ UNCHANGED <<ret, view, got, toHost>> /\ Keep

--------------------------------------------------------------------------
(* Answers.                                                                *)

\* gdb_remote_send: without an ack reset and read give up, write pretends.
NoAck == \/ cur.op = "write" /\ NextBlock(<<>>)
         \/ cur.op # "write" /\ Return("CL_INVALID_DEVICE", view) /\ UNCHANGED <<cur, toServer>>

\* Mutant: after a nack the next ack is awaited, but nothing is sent again.
GetAckNoResend ==
  /\ pc = "ack" /\ toHost # <<>>
  /\ \/ /\ ~IsPacket(Head(toHost)) /\ toHost' = Tail(toHost)
        /\ pc' = IF Head(toHost) = Ack THEN "reply" ELSE pc
        /\ UNCHANGED <<cur, ret, view, toServer>>
     \/ /\ IsPacket(Head(toHost)) /\ toHost' = [toHost EXCEPT ![1].cut = @ + 1] /\ NoAck
  /\ UNCHANGED got /\ Keep

GetAck ==
  /\ pc = "ack" /\ toHost # <<>>
  /\ \/ /\ Head(toHost) = Ack /\ toHost' = Tail(toHost) /\ pc' = "reply"
        /\ UNCHANGED <<cur, ret, view, toServer>>
     \/ /\ Head(toHost) = Nack /\ toHost' = Tail(toHost)
        /\ toServer' = Append(toServer, Cmd(cur, cur.op)) /\ UNCHANGED <<pc, cur, ret, view>>
     \/ /\ IsPacket(Head(toHost)) /\ toHost' = [toHost EXCEPT ![1].cut = @ + 1] /\ NoAck
  /\ UNCHANGED got /\ Keep

\* Mutants: the reset gives up at an answer other than OK; any answer will do.
ResetReplyGivesUp ==
  /\ pc = "reply" /\ cur.op = "reset" /\ Arrived /\ Take
  /\ toServer' = toServer \o AckChar
  /\ Return(IF Answer = "OK" THEN "CL_SUCCESS" ELSE "CL_INVALID_DEVICE", "halted")
  /\ UNCHANGED <<cur, got>> /\ Keep

ResetReplyUnchecked ==
  /\ pc = "reply" /\ cur.op = "reset" /\ Arrived /\ Take
  /\ toServer' = toServer \o AckChar /\ Return("CL_SUCCESS", "halted")
  /\ UNCHANGED <<cur, got>> /\ Keep

ResetReply ==
  /\ pc = "reply" /\ cur.op = "reset" /\ Arrived /\ Take
  /\ toServer' = toServer \o AckChar
  /\ \/ Answer = "OK" /\ Return("CL_SUCCESS", "halted")
     \/ Answer # "OK" /\ world.driver = "openocd" /\ UNCHANGED <<pc, ret, view>>
     \/ Answer # "OK" /\ world.driver = "qemu" /\ Return("CL_INVALID_DEVICE", view)
  /\ UNCHANGED <<cur, got>> /\ Keep

\* Mutant: every block goes to the start of the buffer.
ReadReplyToStart ==
  /\ pc = "reply" /\ cur.op = "read" /\ Arrived /\ Take /\ NextBlock(AckChar)
  /\ got' = IF Answer = "data" THEN [got EXCEPT ![1] = Next1.val] ELSE got
  /\ Keep

\* Any answer, an error or a garbled one too, ends the block with CL_SUCCESS.
ReadReply ==
  /\ pc = "reply" /\ cur.op = "read" /\ Arrived /\ Take /\ NextBlock(AckChar)
  /\ got' = CASE Answer = "data" -> [got EXCEPT ![cur.blk] = Next1.val]
              [] Answer = "garbled" -> [got EXCEPT ![cur.blk] = Garbled]
              [] OTHER -> got
  /\ Keep

WriteReply ==
  /\ pc = "reply" /\ cur.op = "write" /\ Arrived /\ Take /\ NextBlock(AckChar)
  /\ UNCHANGED got /\ Keep

StopReply ==
  /\ pc = "stop" /\ Arrived /\ Take
  /\ \/ /\ Answer = "T" /\ pc' = "empty"
        /\ toServer' = toServer \o AckChar \o <<Cmd(cur, "empty")>>
     \/ Answer # "T" /\ toServer' = toServer \o AckChar /\ UNCHANGED pc
  /\ UNCHANGED <<cur, ret, view, got>> /\ Keep

\* Mutant: the first answer is taken for the empty one.
DiscardOne ==
  /\ pc = "empty" /\ Arrived /\ Take /\ toServer' = toServer \o AckChar
  /\ Return("CL_SUCCESS", IF cur.op = "stop" THEN "halted" ELSE "unknown")
  /\ UNCHANGED <<cur, got>> /\ Keep

\* gdb_remote_discard_all: old answers go until the empty one comes.
DiscardAll ==
  /\ pc = "empty" /\ Arrived /\ Take /\ toServer' = toServer \o AckChar
  /\ \/ Answer = "" /\ Return("CL_SUCCESS", IF cur.op = "stop" THEN "halted" ELSE "unknown")
     \/ Answer # "" /\ UNCHANGED <<pc, ret, view>>
  /\ UNCHANGED <<cur, got>> /\ Keep

\* recv() fails: after BUFLEN tries gdb_remote_recv gives up, but the loop of
\* gdb_remote_discard_all takes no notice and goes round again.
LinkDown ==
  /\ link = "down" /\ pc # "idle" /\ UNCHANGED <<got, toHost>> /\ Keep
  /\ \/ pc = "ack" /\ NoAck
     \/ pc = "reply" /\ cur.op \in {"read", "write"} /\ NextBlock(<<>>)
     \/ /\ pc = "stop" \/ (pc = "reply" /\ cur.op = "reset")
        /\ Return("CL_OUT_OF_HOST_MEMORY", view) /\ UNCHANGED <<cur, toServer>>
     \/ pc = "empty" /\ UNCHANGED <<pc, cur, ret, view, toServer>>

--------------------------------------------------------------------------
(* The debug server and the target (external).                             *)

Says(answers) ==
  /\ toHost' = toHost \o answers
  /\ lastReply' = IF answers # <<>> /\ IsPacket(Last(answers)) THEN Last(answers) ELSE lastReply

\* The stop reply that the pending continue is owed.
StopReplies == IF contd = 0 THEN <<>> ELSE <<Ans("T", contd, 0, Old)>>

Serve(p) ==
  LET ans(a, v) == Says(<<Ack, Ans(a, p.no, p.blk, v)>>)
      mayFail == world.errors \/ target = "running"
  IN \/ /\ p.cmd = "reset" /\ target' = "halted" /\ contd' = 0
        /\ Says(<<Ack>> \o StopReplies \o <<Ans("OK", p.no, p.blk, Old)>>)
        /\ UNCHANGED dmem
     \/ /\ p.cmd = "run" /\ target' = "running" /\ contd' = p.no
        /\ Says(<<Ack>>) /\ UNCHANGED dmem
     \/ p.cmd = "empty" /\ ans("", Old) /\ UNCHANGED <<target, contd, dmem>>
     \/ p.cmd = "read" /\ target = "halted" /\ ans("data", dmem[p.blk])
        /\ UNCHANGED <<target, contd, dmem>>
     \/ p.cmd = "write" /\ target = "halted" /\ ans("OK", Old)
        /\ dmem' = [dmem EXCEPT ![p.blk] = Written(p.no)] /\ UNCHANGED <<target, contd>>
     \/ p.cmd \in {"read", "write"} /\ mayFail /\ ans("E", Old)
        /\ UNCHANGED <<target, contd, dmem>>

ServerTakes ==
  /\ toServer # <<>> /\ toServer' = Tail(toServer)
  /\ LET x == Head(toServer)
     IN \/ x = Ack /\ UNCHANGED <<toHost, target, contd, dmem, lastReply>>
        \/ x = Nack /\ Says(<<lastReply>>) /\ UNCHANGED <<target, contd, dmem>>
        \/ x = Etx /\ target = "running" /\ Says(StopReplies)
           /\ target' = "halted" /\ contd' = 0 /\ UNCHANGED dmem
        \/ x = Etx /\ target = "halted" /\ UNCHANGED <<toHost, target, contd, dmem, lastReply>>
        \/ IsPacket(x) /\ ~x.ok /\ Says(<<Nack>>) /\ UNCHANGED <<target, contd, dmem>>
        \/ IsPacket(x) /\ x.ok /\ Serve(x)
  /\ UNCHANGED <<world, host, link, console, corrupted>>

\* The target prints on its console, stores, or stops by itself.
TargetPrints ==
  /\ target = "running" /\ contd # 0 /\ console < MaxConsole /\ link = "up"
  /\ console' = console + 1 /\ Says(<<Ans("O", contd, 0, Old)>>)
  /\ UNCHANGED <<world, host, toServer, link, target, contd, dmem, corrupted>>

TargetStores(b) ==
  /\ target = "running" /\ dmem' = [dmem EXCEPT ![b] = Written(0)]
  /\ UNCHANGED <<world, host, toServer, toHost, link, target, contd, lastReply, console, corrupted>>

TargetStops ==
  /\ target = "running" /\ contd # 0 /\ link = "up"
  /\ target' = "halted" /\ contd' = 0 /\ Says(StopReplies)
  /\ UNCHANGED <<world, host, toServer, link, dmem, console, corrupted>>

--------------------------------------------------------------------------
(* The connection (external).                                              *)

LinkFails ==
  /\ LinkMayFail /\ link = "up" /\ link' = "down" /\ toServer' = <<>> /\ toHost' = <<>>
  /\ UNCHANGED <<world, host, server, corrupted>>

Class(x) == IF "ans" \in DOMAIN x THEN "answer"
            ELSE IF x.cmd \in {"read", "write"} THEN "transfer" ELSE "control"
MaySpoil(x) == IsPacket(x) /\ x.ok /\ Class(x) \in world.corruptible

\* The bytes that change are of the checksum, or of what the packet says.
Spoiled(x) == {[x EXCEPT !.ok = FALSE], [x EXCEPT !.ok = FALSE, !.ans = "garbled", !.val = Garbled]}

Corrupt ==
  /\ corrupted < MaxCorrupt /\ corrupted' = corrupted + 1
  /\ \/ \E i \in DOMAIN toHost : /\ MaySpoil(toHost[i]) /\ UNCHANGED toServer
                                 /\ \E y \in Spoiled(toHost[i]) : toHost' = [toHost EXCEPT ![i] = y]
     \/ \E i \in DOMAIN toServer : /\ MaySpoil(toServer[i])
                                   /\ toServer' = [toServer EXCEPT ![i].ok = FALSE] /\ UNCHANGED toHost
  /\ UNCHANGED <<world, host, link, server>>

--------------------------------------------------------------------------

\* gdb_remote_probe: the connection is made and gdb_remote_discard_all begun,
\* whatever the target is doing.
Init ==
  /\ world \in Worlds
  /\ cur = [op |-> "probe", no |-> 0, blk |-> 1, blks |-> 1]
  /\ pc = "empty" /\ ret = "CL_SUCCESS" /\ view = "unknown"
  /\ got = [b \in 1 .. Blocks |-> Old]
  /\ toServer = <<Cmd(cur, "empty")>> /\ toHost = <<>> /\ link = "up"
  /\ target \in {"halted", "running"} /\ contd = 0
  /\ dmem = [b \in 1 .. Blocks |-> Written(0)]
  /\ lastReply = Ans("", 0, 1, Old) /\ console = 0 /\ corrupted = 0

Calls == CallReset \/ CallRun \/ CallStop
         \/ \E n \in 1 .. Blocks : CallRead(n) \/ CallWrite(n)

Answers == GetAck \/ ResetReply \/ ReadReply \/ WriteReply \/ StopReply \/ DiscardAll \/ LinkDown

Target == TargetPrints \/ TargetStops \/ \E b \in 1 .. Blocks : TargetStores(b)

\* The application makes no more calls.
Ends == pc = "idle" /\ cur.no = world.calls /\ UNCHANGED vars

Next == Calls \/ Ends \/ Answers \/ ServerTakes \/ Target \/ LinkFails \/ Corrupt

\* The host thread goes on when there is something to read, and a server
\* that is connected takes what it is sent.
Spec == Init /\ [][Next]_vars /\ WF_vars(Answers) /\ WF_vars(ServerTakes)

--------------------------------------------------------------------------
(* Properties.                                                             *)

\* Types of the host's, the server's and the connection's state.
TypeOK ==
  /\ world \in Worlds /\ pc \in {"idle", "ack", "reply", "stop", "empty"}
  /\ cur \in [op : {"probe", "reset", "run", "stop", "read", "write"}, no : Nat,
              blk : 1 .. Blocks, blks : 1 .. Blocks]
  /\ ret \in {"CL_SUCCESS", "CL_INVALID_DEVICE", "CL_OUT_OF_RESOURCES", "CL_OUT_OF_HOST_MEMORY"}
  /\ view \in {"halted", "running", "unknown"} /\ link \in {"up", "down"}
  /\ target \in {"halted", "running"} /\ contd \in 0 .. cur.no

\* With a connection that spoils nothing but memory commands, the OpenOCD driver
\* takes the answer to the very block it asked for, the OK that ends a reset is
\* the reset's, and a packet is never taken for an ack, though run and
\* discard_all leave acks unread in the connection.
GoodAnswers == world.driver = "openocd" /\ world.corruptible \subseteq {"transfer"}
AnswersAreForRequests ==
  GoodAnswers =>
    /\ pc = "ack" /\ toHost # <<>> => ~IsPacket(Head(toHost))
    /\ pc = "reply" /\ Arrived =>
         \/ Next1.no = cur.no /\ Next1.blk = cur.blk
         \/ cur.op = "reset" /\ Answer # "OK"

\* When its reset or stop has told its caller that the target is halted, it
\* is, and nothing is left in the connection that a later call could take
\* for its own answer.
HaltedAndDrained ==
  GoodAnswers /\ pc = "idle" /\ view = "halted" /\ link = "up" =>
    target = "halted" /\ ~Arrived

\* A stop that returns CL_SUCCESS has halted the target and emptied the
\* connection.  Where nothing has been spoiled this is so of the QEMU driver too,
\* however many calls before the stop took each other's answers.
StopResynchronizes ==
  /\ pc = "idle" /\ cur.op = "stop" /\ ret = "CL_SUCCESS" /\ link = "up"
  /\ GoodAnswers \/ corrupted = 0
  => target = "halted" /\ toHost = <<>>

\* CL_SUCCESS from a write means that every block is in target memory.
WriteMeansStored ==
  pc = "idle" /\ link = "up" /\ cur.op = "write" /\ ret = "CL_SUCCESS" =>
    \A b \in 1 .. cur.blks : dmem[b] = Written(cur.no)

\* CL_SUCCESS from a read means that the buffer has what target memory has.
ReadMeansLoaded ==
  pc = "idle" /\ link = "up" /\ cur.op = "read" /\ ret = "CL_SUCCESS" =>
    \A b \in 1 .. cur.blks : got[b] = dmem[b]

\* With a server that answers memory commands with no error either, a transfer
\* that succeeds is complete, block by block, through refused packets, resends
\* and what earlier calls left in the connection.
TransfersComplete == GoodAnswers /\ ~world.errors => WriteMeansStored /\ ReadMeansLoaded

\* While the connection holds every call returns, the stop of a target that
\* prints or that stopped by itself too.
CallsReturnWhileUp == pc # "idle" ~> pc = "idle" \/ link = "down"
============================================================================
