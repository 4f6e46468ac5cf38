--------------------------- MODULE GdbRemoteProofs --------------------------
(***************************************************************************)
(* Theorems about GdbRemote, for any numbers of blocks, calls, console     *)
(* packets and spoiled packets, and for links that may break:              *)
(*   - its type invariant;                                                 *)
(*   - a stop that succeeds has resynchronized the connection;             *)
(*   - the OpenOCD driver takes the answers to its own requests only,      *)
(*     leaves a halted target and an empty connection behind, and moves    *)
(*     every block of a transfer;                                          *)
(*   - with the server behind it, it is a device: GdbDevice's refinement.  *)
(* The inductive invariant IInv says what may be in the two queues:        *)
(* TInv, messages of the right types; CInv, from a stop to the empty       *)
(* answer, for either driver; AInv, in every other call of the OpenOCD     *)
(* driver.  CInv needs AInv: what a stop finds in the queues is what the   *)
(* run before it has left there.                                           *)
(***************************************************************************)
EXTENDS GdbDevice, SequenceTheorems, WellFoundedInduction, TLAPS

--------------------------------------------------------------------------
(* Types.                                                                  *)

Values == {Old, Garbled} \cup ({"call"} \X Nat)

Commands == [kind : {"packet"}, cmd : {"reset", "run", "empty", "read", "write"}, no : Nat,
             blk : 1 .. Blocks, ok : BOOLEAN]
Replies == [kind : {"packet"}, ans : {"OK", "data", "E", "", "T", "O", "garbled"}, no : Nat,
            blk : 0 .. Blocks, val : Values, ok : BOOLEAN, cut : Nat]


\* No command in the connection is of a call that has not been made.
ToServer(n) == {Ack, Nack, Etx} \cup {c \in Commands : c.no <= n}
ToHost == {Ack, Nack} \cup Replies
Intact(x) == x \in Replies /\ x.ok /\ x.cut = 0

Types ==
  /\ TypeOK /\ cur.blk <= cur.blks
  /\ toServer \in Seq(ToServer(cur.no)) /\ toHost \in Seq(ToHost) /\ lastReply \in Replies
  /\ got \in [1 .. Blocks -> Values] /\ dmem \in [1 .. Blocks -> Values]
  /\ console \in Nat /\ corrupted \in Nat

\* What each call waits for.
Waits ==
  /\ pc \in {"ack", "reply"} => cur.op \in {"reset", "read", "write"}
  /\ pc = "stop" => cur.op = "stop"
  /\ pc = "empty" => cur.op \in {"probe", "stop"}
  /\ cur.op = "probe" <=> cur.no = 0
  /\ contd # 0 => target = "running"
  /\ link = "down" => toServer = <<>> /\ toHost = <<>>

TInv == Types /\ Waits

--------------------------------------------------------------------------
(* The order of the messages in a queue.                                   *)

\* A message of Last1 behind some of Before, and some of After behind it.
InOrder(s, Before, Last1, After) == \E k \in 1 .. Len(s) :
  /\ s[k] \in Last1
  /\ \A i \in 1 .. k - 1 : s[i] \in Before
  /\ \A i \in k + 1 .. Len(s) : s[i] \in After

\* A target in state t is halted once the server has taken s[1] .. s[n].
Settles(s, t, n) ==
  \/ t = "halted" /\ \A i \in 1 .. n : s[i] \in {Ack, Nack}
  \/ \E k \in 1 .. n : s[k] = Etx /\ \A i \in k + 1 .. n : s[i] \in {Ack, Nack}

--------------------------------------------------------------------------
(* The connection from a stop to the empty answer.                         *)

Echoes == {x \in Replies : x.ans = ""}
Empties == {x \in Commands : x.cmd = "empty"}
InServer == Range(toServer)
InHost == Range(toHost)

\* Nothing in the connection has been spoiled, but memory commands at most.
Calm == link = "up" /\ (GoodAnswers \/ corrupted = 0)

\* No answer has been spoiled, but the one at the front may have lost bytes.
AnswersWhole ==
  /\ Intact(lastReply) /\ \A x \in InHost \cap Replies : x.ok
  /\ \A i \in 1 .. Len(toHost) : i > 1 /\ toHost[i] \in Replies => toHost[i].cut = 0
  /\ pc = "empty" => \A x \in InHost \cap Replies : x.cut = 0

NothingSpoiled == Nack \notin InHost /\ \A x \in InServer \cap Commands : x.ok

NoTransfer == \A x \in InServer \cap Commands : x.cmd \notin {"read", "write"}

\* The server would send an old empty answer again.
MayEcho == lastReply.ans = "" => Nack \notin InServer /\ InHost \cap Replies = {}

\* No empty answer is on its way, and the server will not be asked for one again.
NoEcho == InHost \cap Echoes = {} /\ MayEcho

\* The empty command is on its way, with nothing but acks behind it.
EmptySent == \E m \in 1 .. Len(toServer) :
  /\ toServer[m] \in Empties
  /\ \A i \in 1 .. m - 1 : toServer[i] \notin Empties
  /\ \A i \in m + 1 .. Len(toServer) : toServer[i] = Ack
  /\ cur.op = "stop" => Settles(toServer, target, m - 1)

\* Its answer is the last thing in the connection.
EmptyAnswered ==
  /\ toServer \in Seq({Ack}) /\ InOrder(toHost, ToHost \ Echoes, Echoes, {})
  /\ cur.op = "stop" => target = "halted"

CInv == Calm =>
  /\ AnswersWhole
  /\ corrupted = 0 \/ pc \in {"stop", "empty"} => NothingSpoiled
  /\ GoodAnswers /\ pc \in {"stop", "empty"} => NoTransfer
  /\ pc # "empty" => NoEcho /\ InServer \cap Empties = {}
  /\ pc = "stop" => Settles(toServer, target, Len(toServer))
  /\ pc = "empty" => (EmptySent /\ NoEcho) \/ EmptyAnswered
  /\ pc = "idle" /\ cur.op \in {"probe", "stop"} /\ ret = "CL_SUCCESS" =>
       toServer \in Seq({Ack}) /\ toHost = <<>> /\ (cur.op = "stop" => target = "halted")

--------------------------------------------------------------------------
(* The connection in the calls of the OpenOCD driver.                      *)

\* What the server sends of itself while the target runs.
Noise == {Ack} \cup {x \in Replies : Intact(x) /\ x.ans \in {"O", "T"}}
Runs == {x \in Commands : x.cmd = "run" /\ x.ok}

AnswersCur(answers) ==
  {x \in Replies : Intact(x) /\ x.ans \in answers /\ x.no = cur.no /\ x.blk = cur.blk}

Drained == toServer \in Seq({Ack}) /\ toHost = <<>> /\ contd = 0

\* An ack is read before any packet.
AckFirst == IF toHost = <<>> THEN contd = 0 ELSE toHost[1] = Ack

Running ==
  \/ InOrder(toServer, {Ack}, Runs, {}) /\ toHost = <<>> /\ contd = 0
  \/ toServer \in Seq({Ack}) /\ toHost \in Seq(Noise) /\ toHost # <<>> /\ toHost[1] = Ack

ResetSent(After) ==
  InOrder(toServer, {Ack} \cup Runs, {Cmd(cur, "reset")}, After) /\ toHost \in Seq(Noise)

ResetAnswered ==
  toServer \in Seq({Ack}) /\ target = "halted" /\ InOrder(toHost, Noise, AnswersCur({"OK"}), {})

TransferSent ==
  /\ InOrder(toServer, {Ack}, {Cmd(cur, cur.op), [Cmd(cur, cur.op) EXCEPT !.ok = FALSE]}, {})
  /\ toHost = <<>>

\* The answer of the server to the block asked for.
ServedBy(x) ==
  /\ x \in AnswersCur({IF cur.op = "read" THEN "data" ELSE "OK", "E"})
  /\ x.ans = "E" => world.errors
  /\ x.ans = "data" => x.val = dmem[cur.blk]
  /\ x.ans = "OK" => dmem[cur.blk] = Written(cur.no)

\* Blocks 1 .. n of the transfer are where they should be.
Transferred(n) == ~world.errors =>
  \A b \in 1 .. n : IF cur.op = "read" THEN got[b] = dmem[b] ELSE dmem[b] = Written(cur.no)

Transferring ==
  /\ view = "halted" /\ target = "halted" /\ Transferred(cur.blk - 1)
  /\ \/ pc = "ack" /\ TransferSent
     \/ pc = "ack" /\ toServer \in Seq({Ack}) /\ toHost = <<Nack>>
     \/ pc = "ack" /\ toServer \in Seq({Ack}) /\ Len(toHost) = 2 /\ toHost[1] = Ack /\ ServedBy(toHost[2])
     \/ pc = "reply" /\ toServer \in Seq({Ack}) /\ Len(toHost) = 1 /\ ServedBy(toHost[1])

AInv == GoodAnswers /\ link = "up" =>
  /\ pc = "idle" /\ view # "running" => Drained /\ (view = "halted" => target = "halted")
  /\ pc = "idle" /\ view = "running" => Running
  /\ pc = "idle" /\ cur.op \in {"read", "write"} => view = "halted" /\ Transferred(cur.blks)
  /\ pc = "ack" /\ cur.op = "reset" => AckFirst /\ (ResetSent({}) \/ ResetAnswered)
  /\ pc = "reply" /\ cur.op = "reset" => ResetSent({Ack}) \/ ResetAnswered
  /\ pc \in {"ack", "reply"} /\ cur.op \in {"read", "write"} => Transferring

IInv == TInv /\ CInv /\ AInv

--------------------------------------------------------------------------
(* Sequences.                                                              *)

\* Elements of a queue that gets one more; of a queue that loses its first.
LEMMA AppendElements ==
  ASSUME NEW X, NEW s \in Seq(X), NEW e \in X
  PROVE  /\ Append(s, e) \in Seq(X) /\ Len(Append(s, e)) = Len(s) + 1
         /\ \A i \in 1 .. Len(s) : Append(s, e)[i] = s[i]
         /\ Append(s, e)[Len(s) + 1] = e
  OBVIOUS

LEMMA TailElements ==
  ASSUME NEW X, NEW s \in Seq(X), s # <<>>
  PROVE  /\ Head(s) = s[1] /\ s[1] \in X /\ Len(s) \in Nat \ {0}
         /\ Tail(s) \in Seq(X) /\ Len(Tail(s)) = Len(s) - 1
         /\ \A i \in 1 .. Len(s) - 1 : Tail(s)[i] = s[i + 1]
  OBVIOUS

LEMMA Pair ==
  ASSUME NEW X, NEW a \in X, NEW b \in X
  PROVE  <<a, b>> \in Seq(X)
<1>1. <<a>> \in Seq(X) /\ <<a, b>> = Append(<<a>>, b)
  OBVIOUS
<1> QED BY <1>1

LEMMA OnlyTwo == \A i \in 2 .. 2 : i = 2
  OBVIOUS

\* What the driver and the server put at the end of a queue, one by one.
LEMMA ConcatOne ==
  ASSUME NEW X, NEW s \in Seq(X), NEW a \in X
  PROVE  s \o <<a>> = Append(s, a)
  OBVIOUS

LEMMA ConcatAppend ==
  ASSUME NEW X, NEW s \in Seq(X), NEW a \in X, NEW b \in X, NEW c \in X
  PROVE  /\ s \o <<>> = s /\ s \o <<a>> = Append(s, a)
         /\ s \o <<a, b>> = Append(Append(s, a), b)
         /\ s \o <<a, b, c>> = Append(Append(Append(s, a), b), c)
<1>1. s \o <<>> = s
  OBVIOUS
<1>2. s \o <<a>> = Append(s, a)
  OBVIOUS
<1>3. s \o <<a, b>> = Append(Append(s, a), b)
  OBVIOUS
<1>4. s \o <<a, b, c>> = Append(Append(Append(s, a), b), c)
  OBVIOUS
<1> QED BY <1>1, <1>2, <1>3, <1>4

LEMMA ConcatTuples ==
  ASSUME NEW X, NEW a \in X, NEW b \in X, NEW c \in X
  PROVE  /\ <<a>> \o <<>> \o <<c>> = <<a, c>>
         /\ <<a>> \o <<b>> \o <<c>> = <<a, b, c>>
<1>1. <<a>> \in Seq(X) /\ <<a, b>> \in Seq(X)
  BY Pair
<1>2. /\ <<a, b>> = Append(<<a>>, b) /\ <<a, c>> = Append(<<a>>, c)
      /\ <<a, b, c>> = Append(<<a, b>>, c)
  <2>1. <<a, b>> = Append(<<a>>, b)
    OBVIOUS
  <2>2. <<a, c>> = Append(<<a>>, c)
    OBVIOUS
  <2>3. <<a, b, c>> = Append(<<a, b>>, c)
    OBVIOUS
  <2> QED BY <2>1, <2>2, <2>3
<1>3. <<a>> \o <<>> = <<a>> /\ <<a>> \o <<b>> = Append(<<a>>, b) /\ <<a>> \o <<c>> = Append(<<a>>, c)
  <2>1. <<a>> \o <<>> = <<a>>
    BY <1>1
  <2>2. <<a>> \o <<b>> = Append(<<a>>, b)
    BY <1>1, ConcatOne
  <2>3. <<a>> \o <<c>> = Append(<<a>>, c)
    BY <1>1, ConcatOne
  <2> QED BY <2>1, <2>2, <2>3
<1>4. <<a, b>> \o <<c>> = Append(<<a, b>>, c)
  BY <1>1, ConcatOne
<1> QED BY <1>2, <1>3, <1>4, Zenon

\* A set of natural numbers that is not empty has a least element.
LEMMA NatMin ==
  ASSUME NEW S, S \subseteq Nat, S # {}
  PROVE  \E m \in S : \A y \in S : m <= y
<1> DEFINE R == {ss \in Nat \X Nat : ss[1] < ss[2]}
<1>1. IsWellFoundedOn(R, Nat)
  BY NatLessThanWellFounded DEF OpToRel
<1> HIDE DEF R
<1>2. PICK m \in S : \A y \in S : <<y, m>> \notin R
  BY <1>1, WFMin
<1>3. ASSUME NEW y \in S PROVE m <= y
  <2>1. y \in Nat /\ m \in Nat /\ <<y, m>> \notin R
    BY <1>2
  <2>2. ~(y < m)
    BY <2>1, Zenon DEF R
  <2> QED BY <2>1, <2>2
<1> QED BY <1>3

\* gdb_remote_recv finds the first packet, and what is behind it stays.
LEMMA FirstPacket ==
  ASSUME toHost \in Seq(ToHost), Arrived
  PROVE  /\ First \in 1 .. Len(toHost) /\ IsPacket(toHost[First])
         /\ \A i \in 1 .. First - 1 : ~IsPacket(toHost[i])
<1> DEFINE I == {i \in 1 .. Len(toHost) : IsPacket(toHost[i])}
<1>1. I \subseteq Nat /\ I # {}
  BY DEF Arrived
<1>2. First = Min(I)
  BY <1>1 DEF First, SelectInSeq
<1>3. PICK m \in I : \A y \in I : m <= y
  <2> HIDE DEF I
  <2> QED BY <1>1, NatMin
<1>4. First \in I /\ \A y \in I : First <= y
  <2> HIDE DEF I
  <2> QED BY <1>2, <1>3 DEF Min
<1>5. First \in 1 .. Len(toHost) /\ IsPacket(toHost[First])
  BY <1>4
<1>6. ASSUME NEW i \in 1 .. First - 1 PROVE ~IsPacket(toHost[i])
  <2>1. i \in 1 .. Len(toHost) /\ ~(First <= i)
    BY <1>5
  <2> QED BY <2>1, <1>4
<1> QED BY <1>5, <1>6

\* What is left in the queue when the host takes the first packet.
LEMMA TakeElements ==
  ASSUME toHost \in Seq(ToHost), Arrived, Take
  PROVE  /\ toHost' \in Seq(ToHost) /\ Len(toHost') = Len(toHost) - First
         /\ \A i \in 1 .. Len(toHost) - First : toHost'[i] = toHost[First + i]
<1>1. First \in 1 .. Len(toHost)
  BY FirstPacket
<1> QED BY <1>1 DEF Take

--------------------------------------------------------------------------
(* Messages.                                                               *)

\* What may be on the way to the server, and to the host.
LEMMA ServerMessages ==
  ASSUME NEW n \in Nat
  PROVE  /\ Ack \in ToServer(n) /\ Nack \in ToServer(n) /\ Etx \in ToServer(n)
         /\ \A x \in Commands : x.no <= n => x \in ToServer(n)
         /\ \A x \in ToServer(n) : IsPacket(x) <=> x \in Commands
         /\ \A m \in Nat : n <= m => ToServer(n) \subseteq ToServer(m)
<1>1. ~IsPacket(Ack) /\ ~IsPacket(Nack) /\ ~IsPacket(Etx)
  BY DEF Ack, Nack, Etx, IsPacket
<1>2. \A x \in Commands : IsPacket(x) /\ x.no \in Nat
  BY DEF Commands, IsPacket
<1> QED BY <1>1, <1>2 DEF ToServer

LEMMA CommandTypes ==
  /\ Ack # Nack /\ Ack # Etx /\ Nack # Etx
  /\ ~IsPacket(Ack) /\ ~IsPacket(Nack) /\ ~IsPacket(Etx)
  /\ \A x \in Commands : /\ IsPacket(x) /\ x # Ack /\ x # Nack /\ x # Etx
                         /\ x.ok \in BOOLEAN /\ x.no \in Nat /\ x.blk \in 1 .. Blocks
                         /\ x.cmd \in {"reset", "run", "empty", "read", "write"}
                         /\ "ans" \notin DOMAIN x
<1>1. Ack # Nack /\ Ack # Etx /\ Nack # Etx
  BY DEF Ack, Nack, Etx
<1>2. ~IsPacket(Ack) /\ ~IsPacket(Nack) /\ ~IsPacket(Etx)
  BY DEF Ack, Nack, Etx, IsPacket
<1>3. ASSUME NEW x \in Commands
      PROVE  /\ IsPacket(x) /\ x.ok \in BOOLEAN /\ "ans" \notin DOMAIN x
             /\ x.no \in Nat /\ x.blk \in 1 .. Blocks
             /\ x.cmd \in {"reset", "run", "empty", "read", "write"}
  BY DEF Commands, IsPacket
<1> QED BY <1>1, <1>2, <1>3

LEMMA HostMessages ==
  /\ Ack \in ToHost /\ Nack \in ToHost /\ Replies \subseteq ToHost
  /\ \A x \in Replies : /\ IsPacket(x) /\ x # Ack /\ x # Nack /\ x.ok \in BOOLEAN
                        /\ x.cut \in Nat /\ x.blk \in 0 .. Blocks /\ "ans" \in DOMAIN x
  /\ \A x \in ToHost : IsPacket(x) <=> x \in Replies
<1>1. ~IsPacket(Ack) /\ ~IsPacket(Nack)
  BY DEF Ack, Nack, IsPacket
<1>2. ASSUME NEW x \in Replies
      PROVE  /\ IsPacket(x) /\ x.ok \in BOOLEAN /\ x.cut \in Nat /\ x.blk \in 0 .. Blocks
             /\ "ans" \in DOMAIN x
  BY DEF Replies, IsPacket
<1> QED BY <1>1, <1>2 DEF ToHost

CurType == [op : {"probe", "reset", "run", "stop", "read", "write"}, no : Nat,
            blk : 1 .. Blocks, blks : 1 .. Blocks]

\* The packets of a call and the answers to it are packets.
LEMMA CmdType ==
  ASSUME NEW c \in CurType, NEW name \in {"reset", "run", "empty", "read", "write"}
  PROVE  /\ Cmd(c, name) \in Commands
         /\ Cmd(c, name).cmd = name /\ Cmd(c, name).no = c.no /\ Cmd(c, name).blk = c.blk
         /\ Cmd(c, name).ok
  BY DEF Cmd, Commands, CurType

LEMMA AnsType ==
  ASSUME NEW a \in {"OK", "data", "E", "", "T", "O"}, NEW no \in Nat, NEW blk \in 0 .. Blocks,
         NEW val \in Values
  PROVE  /\ Ans(a, no, blk, val) \in Replies
         /\ Ans(a, no, blk, val).ans = a /\ Ans(a, no, blk, val).no = no
         /\ Ans(a, no, blk, val).blk = blk /\ Ans(a, no, blk, val).val = val
         /\ Ans(a, no, blk, val).ok /\ Ans(a, no, blk, val).cut = 0
  BY DEF Ans, Replies

LEMMA AnsReplies ==
  ASSUME NEW a \in {"OK", "data", "E", "", "T", "O"}, NEW no \in Nat, NEW blk \in 0 .. Blocks,
         NEW val \in Values
  PROVE  Ans(a, no, blk, val) \in Replies
  BY DEF Ans, Replies

LEMMA AnsIntact ==
  ASSUME NEW a \in {"OK", "data", "E", "", "T", "O"}, NEW no \in Nat, NEW blk \in 0 .. Blocks,
         NEW val \in Values
  PROVE  Ans(a, no, blk, val) \in ToHost /\ Intact(Ans(a, no, blk, val))
<1>1. Ans(a, no, blk, val) \in Replies /\ Intact(Ans(a, no, blk, val))
  BY DEF Ans, Replies, Intact
<1> QED BY <1>1, HostMessages

LEMMA ValueTypes == Old \in Values /\ Garbled \in Values /\ \A n \in Nat : Written(n) \in Values
  BY DEF Values, Old, Garbled, Written

--------------------------------------------------------------------------
(* Types are kept by the steps the actions are made of.                    *)

HostTypes ==
  /\ pc \in {"idle", "ack", "reply", "stop", "empty"} /\ cur \in CurType /\ cur.blk <= cur.blks
  /\ ret \in {"CL_SUCCESS", "CL_INVALID_DEVICE", "CL_OUT_OF_RESOURCES", "CL_OUT_OF_HOST_MEMORY"}
  /\ view \in {"halted", "running", "unknown"} /\ got \in [1 .. Blocks -> Values]

ServerTypes ==
  /\ target \in {"halted", "running"} /\ contd \in 0 .. cur.no
  /\ dmem \in [1 .. Blocks -> Values] /\ lastReply \in Replies /\ console \in Nat

RestTypes == world \in Worlds /\ link \in {"up", "down"} /\ corrupted \in Nat

\* The parts of the type invariant, which the proofs below take one at a time.
LEMMA TypesParts ==
  Types <=> /\ HostTypes /\ ServerTypes /\ RestTypes
            /\ toServer \in Seq(ToServer(cur.no)) /\ toHost \in Seq(ToHost)
  BY DEF Types, TypeOK, HostTypes, ServerTypes, RestTypes, CurType

LEMMA TypesPartsNext ==
  Types' <=> /\ HostTypes' /\ ServerTypes' /\ RestTypes'
             /\ toServer' \in Seq(ToServer(cur.no)') /\ toHost' \in Seq(ToHost)
  BY DEF Types, TypeOK, HostTypes, ServerTypes, RestTypes, CurType

LEMMA TypeFacts ==
  ASSUME TInv
  PROVE  /\ HostTypes /\ ServerTypes /\ RestTypes
         /\ toServer \in Seq(ToServer(cur.no)) /\ toHost \in Seq(ToHost)
         /\ cur \in CurType /\ cur.no \in Nat /\ cur.blk \in 1 .. Blocks /\ cur.blks \in 1 .. Blocks
         /\ link \in {"up", "down"} /\ (link = "down" => toServer = <<>> /\ toHost = <<>>)
         /\ Blocks \in Nat \ {0}
  BY TypesParts, GdbAssumption DEF TInv, HostTypes, CurType, RestTypes, Waits

LEMMA Widen ==
  ASSUME NEW n \in Nat, NEW m \in Nat, n <= m, NEW s \in Seq(ToServer(n))
  PROVE  s \in Seq(ToServer(m))
<1>1. ToServer(n) \subseteq ToServer(m)
  BY ServerMessages
<1> HIDE DEF ToServer
<1> QED BY <1>1

LEMMA OneChar ==
  AckChar = <<Ack>> \/ AckChar = <<Nack>>
  BY DEF AckChar

\* An ack or nothing in front of a packet keeps the queue of its type.
LEMMA Chars ==
  ASSUME NEW n \in Nat, NEW s \in Seq(ToServer(n)), NEW first,
         first = <<>> \/ first = <<Ack>> \/ first = <<Nack>>
  PROVE  s \o first \in Seq(ToServer(n)) /\ (s = <<>> /\ first = <<>> => s \o first = <<>>)
<1>1. Ack \in ToServer(n) /\ Nack \in ToServer(n)
  BY ServerMessages
<1> DEFINE X == ToServer(n)
<1> HIDE DEF X
<1>2. s \o <<>> \in Seq(X) /\ s \o <<Ack>> \in Seq(X) /\ s \o <<Nack>> \in Seq(X)
  BY <1>1 DEF X
<1>3. <<>> \o <<>> = <<>>
  OBVIOUS
<1> QED BY <1>2, <1>3, Zenon DEF X

\* The wait for an ack, and the end of a call.
LEMMA TransmitTypes ==
  ASSUME TInv, NEW first, first = <<>> \/ first = <<Ack>> \/ first = <<Nack>>,
         NEW c \in CurType, c.op \in {"reset", "read", "write"}, c.no >= cur.no,
         Transmit(first, c)
  PROVE  /\ cur' = c /\ pc' \in {"idle", "ack"} /\ ret' \in {"CL_SUCCESS", "CL_OUT_OF_RESOURCES", ret}
         /\ view' \in {view, "unknown"}
         /\ toServer' \in Seq(ToServer(c.no)) /\ (link = "down" => toServer' = <<>>)
<1> USE DEF Transmit, Return
<1>1. c.no \in Nat /\ toServer \in Seq(ToServer(c.no))
  <2>1. c.no \in Nat
    BY DEF CurType
  <2> QED BY <2>1, TypeFacts, Widen
<1>2. CASE link = "up" /\ toServer' = toServer \o first \o <<Cmd(c, c.op)>>
  <2>1. Cmd(c, c.op) \in ToServer(c.no)
    <3>1. c.op \in {"reset", "run", "empty", "read", "write"}
      OBVIOUS
    <3>2. Cmd(c, c.op) \in Commands /\ Cmd(c, c.op).no = c.no
      BY <3>1, CmdType, Zenon
    <3> QED BY <3>2, <1>1, ServerMessages
  <2>2. toServer \o first \in Seq(ToServer(c.no))
    BY <1>1, Chars
  <2> DEFINE q == toServer \o first
             x == Cmd(c, c.op)
             X == ToServer(c.no)
  <2>3. q \o <<x>> \in Seq(X)
    <3> HIDE DEF q, x, X
    <3>1. q \in Seq(X) /\ x \in X
      BY <2>1, <2>2 DEF q, x, X
    <3> QED BY <3>1
  <2> QED BY <1>2, <2>3
<1>3. CASE link = "down" /\ toServer' = toServer
  BY <1>1, <1>3, TypeFacts
<1> QED BY <1>1, <1>2, <1>3, TypeFacts

--------------------------------------------------------------------------
(* Types are kept by each action.                                          *)

\* A call that begins has the number behind the last one.
LEMMA OpensType ==
  ASSUME TInv, NEW op \in {"reset", "run", "stop", "read", "write"}, NEW n \in 1 .. Blocks
  PROVE  /\ Opens(op, n) \in CurType /\ Opens(op, n).op = op /\ Opens(op, n).no = cur.no + 1
         /\ Opens(op, n).no >= cur.no /\ Opens(op, n).blk = 1 /\ Opens(op, n).blks = n
         /\ Opens(op, n).no # 0 /\ Opens(op, n).blk <= Opens(op, n).blks
  BY TypeFacts DEF Opens, CurType

\* A new call leaves what the server has seen as it was.
LEMMA ServerStays ==
  ASSUME TInv, UNCHANGED server, cur'.no \in Nat, cur'.no >= cur.no
  PROVE  ServerTypes' /\ (contd # 0 => target = "running")'
<1>1. ServerTypes /\ cur.no \in Nat /\ (contd # 0 => target = "running")
  BY TypeFacts DEF TInv, Waits
<1> QED BY <1>1 DEF ServerTypes, server

\* What a step of the driver has to leave behind.
LEMMA HostStepTypes ==
  ASSUME TInv, Keep, HostTypes', cur'.no >= cur.no,
         toServer' \in Seq(ToServer(cur'.no)), toHost' \in Seq(ToHost),
         link = "down" => toServer' = <<>> /\ toHost' = <<>>,
         pc' \in {"ack", "reply"} => cur'.op \in {"reset", "read", "write"},
         pc' = "stop" => cur'.op = "stop",
         pc' = "empty" => cur'.op \in {"probe", "stop"},
         cur'.op = "probe" <=> cur'.no = 0
  PROVE  TInv'
<1>1. RestTypes' /\ UNCHANGED server /\ link' = link
  BY TypeFacts DEF Keep, RestTypes, server
<1>2. ServerTypes' /\ (contd # 0 => target = "running")'
  <2>1. cur'.no \in Nat
    BY DEF HostTypes, CurType
  <2> QED BY <1>1, <2>1, ServerStays
<1>3. Types'
  BY <1>1, <1>2, TypesPartsNext
<1>4. Waits'
  BY <1>1, <1>2 DEF Waits
<1> QED BY <1>3, <1>4 DEF TInv

\* A packet that is sent, or that finds the link down, keeps the types.
LEMMA AfterTransmit ==
  ASSUME TInv, NEW first, first = <<>> \/ first = <<Ack>> \/ first = <<Nack>>,
         NEW c \in CurType, c.op \in {"reset", "read", "write"}, c.no >= cur.no, c.no # 0,
         c.blk <= c.blks, Transmit(first, c), Keep,
         got' \in [1 .. Blocks -> Values], toHost' \in Seq(ToHost),
         link = "down" => toHost' = <<>>
  PROVE  TInv'
<1>1. /\ cur' = c /\ pc' \in {"idle", "ack"} /\ ret' \in {"CL_SUCCESS", "CL_OUT_OF_RESOURCES", ret}
      /\ view' \in {view, "unknown"}
      /\ toServer' \in Seq(ToServer(c.no)) /\ (link = "down" => toServer' = <<>>)
  BY TransmitTypes
<1>2. HostTypes'
  BY <1>1, TypeFacts DEF HostTypes
<1> QED BY <1>1, <1>2, HostStepTypes

LEMMA CallTypes ==
  ASSUME TInv, CallReset \/ \E n \in 1 .. Blocks : CallRead(n) \/ CallWrite(n)
  PROVE  TInv'
<1>1. PICK op \in {"reset", "read", "write"}, n \in 1 .. Blocks :
        Transmit(<<>>, Opens(op, n)) /\ UNCHANGED toHost /\ Keep
        /\ got' \in {got, [b \in 1 .. Blocks |-> Old]}
  BY TypeFacts DEF CallReset, CallRead, CallWrite
<1>2. got' \in [1 .. Blocks -> Values]
  BY <1>1, TypeFacts, ValueTypes DEF HostTypes
<1> DEFINE c == Opens(op, n)
<1>3. c \in CurType /\ c.op = op /\ c.no >= cur.no /\ c.no # 0 /\ c.blk <= c.blks
  BY OpensType
<1> HIDE DEF c
<1> QED BY <1>1, <1>2, <1>3, TypeFacts, AfterTransmit DEF c

LEMMA CallRunTypes ==
  ASSUME TInv, CallRun \/ CallStop
  PROVE  TInv'
<1> DEFINE op == IF CallRun THEN "run" ELSE "stop"
           c == Opens(op, 1)
<1>1. c \in CurType /\ c.op = op /\ c.no >= cur.no /\ c.no # 0 /\ c.blk <= c.blks /\ c.no \in Nat
  BY OpensType, TypeFacts
<1>2. cur' = c /\ UNCHANGED <<got, toHost>> /\ Keep /\ (pc' = "idle" \/ (pc' = "stop" /\ op = "stop"))
      /\ ret' \in {ret, "CL_SUCCESS", "CL_OUT_OF_RESOURCES"} /\ view' \in {view, "running", "unknown"}
  BY DEF CallRun, CallStop, Return
<1>3. toServer' \in Seq(ToServer(c.no)) /\ (link = "down" => toServer' = <<>>)
  <2>1. toServer \in Seq(ToServer(c.no))
    BY <1>1, TypeFacts, Widen
  <2>2. CASE toServer' = toServer
    BY <2>1, <2>2, TypeFacts DEF CallRun, CallStop
  <2>3. CASE link = "up" /\ \E x \in ToServer(c.no) : toServer' = Append(toServer, x)
    BY <2>1, <2>3, AppendElements
  <2>4. Cmd(c, "run") \in ToServer(c.no) /\ Etx \in ToServer(c.no)
    <3>1. Cmd(c, "run") \in Commands /\ Cmd(c, "run").no = c.no
      BY <1>1, CmdType
    <3> QED BY <1>1, <3>1, ServerMessages
  <2>5. \/ toServer' = toServer
        \/ link = "up" /\ toServer' = Append(toServer, Cmd(c, "run"))
        \/ link = "up" /\ toServer' = Append(toServer, Etx)
    <3> HIDE DEF c
    <3> QED BY <1>2 DEF CallRun, CallStop
  <2> QED BY <2>2, <2>3, <2>4, <2>5
<1> HIDE DEF c
<1>4. HostTypes'
  BY <1>1, <1>2, TypeFacts DEF HostTypes
<1> QED BY <1>1, <1>2, <1>3, <1>4, TypeFacts, HostStepTypes

LEMMA NextBlockTypes ==
  ASSUME TInv, NEW first, first = <<>> \/ first = <<Ack>> \/ first = <<Nack>>,
         link = "down" => first = <<>> /\ toHost' = <<>>,
         cur.op \in {"read", "write"}, NextBlock(first), Keep,
         got' \in [1 .. Blocks -> Values], toHost' \in Seq(ToHost)
  PROVE  TInv'
<1>1. cur.no # 0
  BY DEF TInv, Waits
<1>2. CASE cur.blk < cur.blks /\ Transmit(first, [cur EXCEPT !.blk = @ + 1])
  <2> DEFINE c == [cur EXCEPT !.blk = @ + 1]
  <2>1. c \in CurType /\ c.op = cur.op /\ c.no = cur.no /\ c.blk <= c.blks
    <3>1. cur \in CurType /\ cur.blk + 1 \in 1 .. Blocks /\ cur.blk + 1 <= cur.blks
      BY <1>2, TypeFacts
    <3> QED BY <3>1 DEF CurType
  <2> HIDE DEF c
  <2>2. Transmit(first, c)
    BY <1>2 DEF c
  <2> QED BY <1>1, <2>1, <2>2, TypeFacts, AfterTransmit
<1>3. CASE Return("CL_SUCCESS", view) /\ UNCHANGED cur /\ toServer' = toServer \o first
  <2>1. toServer' \in Seq(ToServer(cur.no)) /\ (link = "down" => toServer' = <<>>)
    BY <1>3, TypeFacts, Chars
  <2>2. HostTypes'
    BY <1>3, TypeFacts DEF HostTypes, Return
  <2> QED BY <1>1, <1>3, <2>1, <2>2, TypeFacts, HostStepTypes DEF Return
<1> QED BY <1>2, <1>3 DEF NextBlock

\* A driver that waits for more, or returns, without sending anything.
LEMMA SameCallTypes ==
  ASSUME TInv, Keep, UNCHANGED <<cur, got>>,
         pc' = "idle" \/ pc' = pc \/ (pc' = "reply" /\ pc = "ack") \/ (pc' = "empty" /\ pc = "stop"),
         ret' \in {ret, "CL_SUCCESS", "CL_INVALID_DEVICE", "CL_OUT_OF_RESOURCES", "CL_OUT_OF_HOST_MEMORY"},
         view' \in {view, "unknown", "halted"},
         toServer' \in Seq(ToServer(cur.no)), toHost' \in Seq(ToHost),
         link = "down" => toServer' = <<>> /\ toHost' = <<>>
  PROVE  TInv'
<1>1. HostTypes'
  BY TypeFacts DEF HostTypes
<1> QED BY <1>1, TypeFacts, HostStepTypes DEF TInv, Waits

LEMMA GetAckTypes ==
  ASSUME TInv, GetAck
  PROVE  TInv'
<1>1. cur.op \in {"reset", "read", "write"} /\ cur.no # 0 /\ link = "up"
  BY TypeFacts DEF TInv, Waits, GetAck
<1>2. CASE Head(toHost) = Ack /\ toHost' = Tail(toHost) /\ pc' = "reply" /\ UNCHANGED <<cur, ret, view, toServer>>
  <2>1. toHost' \in Seq(ToHost)
    BY <1>2, TypeFacts, TailElements DEF GetAck
  <2> QED BY <1>1, <1>2, <2>1, TypeFacts, SameCallTypes DEF GetAck
<1>3. CASE /\ Head(toHost) = Nack /\ toHost' = Tail(toHost)
           /\ toServer' = Append(toServer, Cmd(cur, cur.op)) /\ UNCHANGED <<pc, cur, ret, view>>
  <2>1. toHost' \in Seq(ToHost)
    BY <1>3, TypeFacts, TailElements DEF GetAck
  <2>2. Cmd(cur, cur.op) \in ToServer(cur.no)
    <3>1. cur.op \in {"reset", "run", "empty", "read", "write"}
      BY <1>1
    <3>2. Cmd(cur, cur.op) \in Commands /\ Cmd(cur, cur.op).no = cur.no
      BY <3>1, TypeFacts, CmdType, Zenon
    <3> QED BY <3>2, TypeFacts, ServerMessages
  <2>3. toServer' \in Seq(ToServer(cur.no))
    BY <1>3, <2>2, TypeFacts, AppendElements
  <2> QED BY <1>1, <1>3, <2>1, <2>3, TypeFacts, SameCallTypes DEF GetAck
<1>4. CASE IsPacket(Head(toHost)) /\ toHost' = [toHost EXCEPT ![1].cut = @ + 1] /\ NoAck
  <2>1. toHost' \in Seq(ToHost)
    <3>1. toHost[1] \in Replies /\ Len(toHost) \in Nat \ {0}
      BY <1>4, TypeFacts, TailElements, HostMessages DEF GetAck
    <3>2. [toHost[1] EXCEPT !.cut = @ + 1] \in ToHost
      <4>1. [toHost[1] EXCEPT !.cut = @ + 1] \in Replies
        <5> DEFINE x == toHost[1]
        <5>1. x \in Replies /\ x.cut + 1 \in Nat
          BY <3>1, HostMessages
        <5> HIDE DEF x
        <5>2. [x EXCEPT !.cut = x.cut + 1] \in Replies
          BY <5>1 DEF Replies
        <5> QED BY <5>2 DEF x
      <4> QED BY <4>1, HostMessages
    <3>3. toHost' = [toHost EXCEPT ![1] = [toHost[1] EXCEPT !.cut = @ + 1]]
      BY <1>4
    <3> DEFINE y == [toHost[1] EXCEPT !.cut = @ + 1]
    <3> HIDE DEF y
    <3>4. y \in ToHost /\ toHost' = [toHost EXCEPT ![1] = y]
      BY <3>2, <3>3 DEF y
    <3> QED BY <3>1, <3>4, TypeFacts
  <2>2. got' \in [1 .. Blocks -> Values] /\ Keep
    BY TypeFacts DEF GetAck, HostTypes
  <2>3. CASE cur.op = "write" /\ NextBlock(<<>>)
    BY <1>1, <2>1, <2>2, <2>3, NextBlockTypes
  <2>4. CASE cur.op # "write" /\ Return("CL_INVALID_DEVICE", view) /\ UNCHANGED <<cur, toServer>>
    BY <1>1, <2>1, <2>4, TypeFacts, SameCallTypes DEF Return, GetAck
  <2> QED BY <1>4, <2>3, <2>4 DEF NoAck
<1> QED BY <1>2, <1>3, <1>4 DEF GetAck

\* What arrives leaves the connection, and an ack or a nack is sent.
LEMMA TakeTypes ==
  ASSUME TInv, Arrived, Take
  PROVE  /\ link = "up" /\ toHost' \in Seq(ToHost) /\ Next1 \in Replies
         /\ toServer \o AckChar \in Seq(ToServer(cur.no))
<1>1. Next1 \in Replies
  <2>1. First \in 1 .. Len(toHost) /\ IsPacket(toHost[First])
    BY TypeFacts, FirstPacket
  <2>2. toHost[First] \in ToHost
    BY <2>1, TypeFacts
  <2> QED BY <2>1, <2>2, HostMessages DEF Next1
<1>2. link = "up"
  BY TypeFacts DEF Arrived
<1> QED BY <1>1, <1>2, TypeFacts, TakeElements, OneChar, Chars

LEMMA TransferReplyTypes ==
  ASSUME TInv, ReadReply \/ WriteReply
  PROVE  TInv'
<1>1. cur.op \in {"read", "write"} /\ Arrived /\ Take /\ NextBlock(AckChar) /\ Keep
  BY DEF ReadReply, WriteReply
<1>2. got' \in [1 .. Blocks -> Values]
  <2>1. Next1.val \in Values /\ Garbled \in Values
    BY <1>1, TakeTypes, ValueTypes DEF Replies
  <2>2. got' = got \/ \E v \in Values : got' = [got EXCEPT ![cur.blk] = v]
    BY <2>1 DEF ReadReply, WriteReply
  <2> QED BY <2>2, TypeFacts DEF HostTypes
<1> QED BY <1>1, <1>2, TakeTypes, OneChar, NextBlockTypes

LEMMA ReplyTypes ==
  ASSUME TInv, ResetReply \/ StopReply \/ DiscardAll
  PROVE  TInv'
<1>1. Arrived /\ Take /\ UNCHANGED <<cur, got>> /\ Keep
  BY DEF ResetReply, StopReply, DiscardAll
<1>2. \/ pc' \in {pc, "idle"} /\ toServer' = toServer \o AckChar
      \/ pc = "stop" /\ pc' = "empty" /\ toServer' = toServer \o AckChar \o <<Cmd(cur, "empty")>>
  BY DEF ResetReply, StopReply, DiscardAll, Return
<1>3. ret' \in {ret, "CL_SUCCESS", "CL_INVALID_DEVICE"} /\ view' \in {view, "unknown", "halted"}
  BY DEF ResetReply, StopReply, DiscardAll, Return
<1>4. toServer' \in Seq(ToServer(cur.no))
  <2>1. toServer \o AckChar \in Seq(ToServer(cur.no))
    BY <1>1, TakeTypes
  <2>2. Cmd(cur, "empty") \in ToServer(cur.no)
    BY TypeFacts, CmdType, ServerMessages
  <2> DEFINE q == toServer \o AckChar
             x == Cmd(cur, "empty")
             X == ToServer(cur.no)
  <2>3. q \o <<x>> \in Seq(X)
    <3> HIDE DEF q, x, X
    <3>1. q \in Seq(X) /\ x \in X
      BY <2>1, <2>2 DEF q, x, X
    <3> QED BY <3>1
  <2> QED BY <1>2, <2>1, <2>3
<1> QED BY <1>1, <1>2, <1>3, <1>4, TakeTypes, SameCallTypes

LEMMA LinkDownTypes ==
  ASSUME TInv, LinkDown
  PROVE  TInv'
<1>1. link = "down" /\ toServer = <<>> /\ toHost = <<>> /\ UNCHANGED <<got, toHost>> /\ Keep
  BY TypeFacts DEF LinkDown
<1>2. CASE cur.op \in {"read", "write"} /\ NextBlock(<<>>)
  BY <1>1, <1>2, TypeFacts, NextBlockTypes DEF HostTypes
<1>3. CASE /\ UNCHANGED <<cur, toServer>> /\ pc' \in {pc, "idle"} /\ view' \in {view, "unknown"}
           /\ ret' \in {ret, "CL_INVALID_DEVICE", "CL_OUT_OF_HOST_MEMORY"}
  BY <1>1, <1>3, TypeFacts, SameCallTypes
<1> QED BY <1>2, <1>3 DEF LinkDown, NoAck, Return

LEMMA ServerStepTypes ==
  ASSUME TInv, UNCHANGED <<world, host>>, ServerTypes', contd' # 0 => target' = "running",
         toServer' \in Seq(ToServer(cur.no)), toHost' \in Seq(ToHost),
         link' \in {"up", "down"}, link' = "down" => toServer' = <<>> /\ toHost' = <<>>,
         corrupted' \in Nat
  PROVE  TInv'
<1>1. HostTypes' /\ RestTypes' /\ cur' = cur /\ pc' = pc
  BY TypeFacts DEF HostTypes, RestTypes, host
<1>2. Types'
  BY <1>1, TypesPartsNext
<1>3. Waits'
  BY <1>1 DEF TInv, Waits
<1> QED BY <1>2, <1>3 DEF TInv

LEMMA SaysTypes ==
  ASSUME TInv, NEW answers \in Seq(ToHost), Says(answers)
  PROVE  toHost' \in Seq(ToHost) /\ lastReply' \in Replies
<1>1. toHost' \in Seq(ToHost)
  BY TypeFacts DEF Says
<1>2. CASE answers # <<>> /\ IsPacket(Last(answers))
  <2>1. Last(answers) \in ToHost
    BY <1>2 DEF Last
  <2> QED BY <1>1, <1>2, <2>1, HostMessages DEF Says
<1>3. CASE ~(answers # <<>> /\ IsPacket(Last(answers)))
  BY <1>1, <1>3, TypeFacts DEF Says, ServerTypes
<1> QED BY <1>2, <1>3

LEMMA StopRepliesTypes ==
  ASSUME TInv
  PROVE  StopReplies \in Seq(ToHost)
<1>1. Ans("T", contd, 0, Old) \in ToHost
  <2>1. contd \in Nat /\ 0 \in 0 .. Blocks /\ Old \in Values
    BY TypeFacts, ValueTypes DEF ServerTypes
  <2> QED BY <2>1, AnsType, HostMessages
<1>2. <<>> \in Seq(ToHost) /\ <<Ans("T", contd, 0, Old)>> \in Seq(ToHost)
  BY <1>1
<1> QED BY <1>2 DEF StopReplies

LEMMA ServeTypes ==
  ASSUME TInv, NEW p \in Commands, p.no <= cur.no, Serve(p)
  PROVE  /\ toHost' \in Seq(ToHost) /\ lastReply' \in Replies
         /\ target' \in {"halted", "running"} /\ contd' \in 0 .. cur.no
         /\ (contd' # 0 => target' = "running") /\ dmem' \in [1 .. Blocks -> Values]
<1>1. p.no \in 0 .. cur.no /\ p.no \in Nat /\ p.blk \in 1 .. Blocks /\ p.blk \in 0 .. Blocks
  BY TypeFacts, CommandTypes
<1>2. /\ target \in {"halted", "running"} /\ contd \in 0 .. cur.no
      /\ (contd # 0 => target = "running") /\ dmem \in [1 .. Blocks -> Values]
  BY TypeFacts DEF TInv, Waits, ServerTypes
<1>3. \A a \in {"OK", "data", "E", ""}, v \in Values : <<Ack, Ans(a, p.no, p.blk, v)>> \in Seq(ToHost)
  <2> TAKE a \in {"OK", "data", "E", ""}, v \in Values
  <2> DEFINE x == Ans(a, p.no, p.blk, v)
  <2>0. a \in {"OK", "data", "E", "", "T", "O"}
    OBVIOUS
  <2>1. x \in Replies
    BY <1>1, <2>0, AnsReplies
  <2> HIDE DEF x
  <2>2. x \in ToHost /\ Ack \in ToHost
    BY <2>1, HostMessages
  <2>3. <<Ack, x>> \in Seq(ToHost)
    BY <2>2, Pair
  <2> QED BY <2>3 DEF x
<1>4. CASE /\ target' = "halted" /\ contd' = 0 /\ UNCHANGED dmem
           /\ Says(<<Ack>> \o StopReplies \o <<Ans("OK", p.no, p.blk, Old)>>)
  <2>1. Ans("OK", p.no, p.blk, Old) \in ToHost /\ Ack \in ToHost
    BY <1>1, AnsType, HostMessages, ValueTypes
  <2>2. <<Ack>> \o StopReplies \o <<Ans("OK", p.no, p.blk, Old)>> \in Seq(ToHost)
    BY <2>1, StopRepliesTypes
  <2> DEFINE answers == <<Ack>> \o StopReplies \o <<Ans("OK", p.no, p.blk, Old)>>
  <2>3. answers \in Seq(ToHost) /\ Says(answers)
    BY <1>4, <2>2
  <2> HIDE DEF answers
  <2>4. toHost' \in Seq(ToHost) /\ lastReply' \in Replies
    BY <2>3, SaysTypes
  <2>5. target' = "halted" /\ contd' = 0 /\ dmem' = dmem /\ 0 \in 0 .. cur.no
    BY <1>4, TypeFacts
  <2> QED BY <1>2, <2>4, <2>5
<1>5. CASE target' = "running" /\ contd' = p.no /\ Says(<<Ack>>) /\ UNCHANGED dmem
  <2>1. <<Ack>> \in Seq(ToHost)
    BY HostMessages
  <2> QED BY <1>1, <1>2, <1>5, <2>1, SaysTypes
<1>6. CASE /\ \E a \in {"OK", "data", "E", ""} : \E v \in Values : Says(<<Ack, Ans(a, p.no, p.blk, v)>>)
           /\ UNCHANGED <<target, contd>>
           /\ \E v \in Values : dmem' \in {dmem, [dmem EXCEPT ![p.blk] = v]}
  BY <1>1, <1>2, <1>3, <1>6, SaysTypes
<1>7. dmem[p.blk] \in Values /\ Written(p.no) \in Values /\ Old \in Values
  BY <1>1, <1>2, ValueTypes
<1> QED BY <1>4, <1>5, <1>6, <1>7 DEF Serve

LEMMA ServerTakesTypes ==
  ASSUME TInv, ServerTakes
  PROVE  TInv'
<1> DEFINE x == Head(toServer)
<1>1. /\ toServer' \in Seq(ToServer(cur.no)) /\ x \in ToServer(cur.no)
      /\ UNCHANGED <<world, host, link, console, corrupted>> /\ link = "up"
  BY TypeFacts, TailElements DEF ServerTakes
<1> HIDE DEF x
<1>2. /\ target \in {"halted", "running"} /\ contd \in 0 .. cur.no /\ lastReply \in Replies
      /\ (contd # 0 => target = "running") /\ dmem \in [1 .. Blocks -> Values] /\ console \in Nat
  BY TypeFacts DEF TInv, Waits, ServerTypes
<1>3. /\ toHost' \in Seq(ToHost) /\ lastReply' \in Replies
      /\ target' \in {"halted", "running"} /\ contd' \in 0 .. cur.no
      /\ (contd' # 0 => target' = "running") /\ dmem' \in [1 .. Blocks -> Values]
  <2>1. CASE UNCHANGED <<toHost, target, contd, dmem, lastReply>>
    BY <1>2, <2>1, TypeFacts
  <2>2. CASE (Says(<<lastReply>>) \/ Says(<<Nack>>)) /\ UNCHANGED <<target, contd, dmem>>
    <3>1. <<lastReply>> \in Seq(ToHost) /\ <<Nack>> \in Seq(ToHost)
      BY <1>2, HostMessages
    <3> QED BY <1>2, <2>2, <3>1, SaysTypes
  <2>3. CASE Says(StopReplies) /\ target' = "halted" /\ contd' = 0 /\ UNCHANGED dmem
    BY <1>2, <2>3, TypeFacts, StopRepliesTypes, SaysTypes
  <2>4. CASE IsPacket(x) /\ Serve(x)
    <3>1. x \in Commands /\ x.no <= cur.no
      <4>1. x \in Commands
        BY <1>1, <2>4, ServerMessages, TypeFacts
      <4> QED BY <4>1, <1>1, CommandTypes DEF ToServer
    <3> QED BY <2>4, <3>1, ServeTypes
  <2> QED BY <2>1, <2>2, <2>3, <2>4 DEF ServerTakes, x
<1>4. ServerTypes'
  BY <1>1, <1>2, <1>3 DEF ServerTypes, host
<1> QED BY <1>1, <1>3, <1>4, TypeFacts, ServerStepTypes DEF RestTypes

LEMMA TargetTypes ==
  ASSUME TInv, Target
  PROVE  TInv'
<1>1. /\ target \in {"halted", "running"} /\ contd \in 0 .. cur.no /\ lastReply \in Replies
      /\ (contd # 0 => target = "running") /\ dmem \in [1 .. Blocks -> Values] /\ console \in Nat
      /\ cur.no \in Nat
  BY TypeFacts DEF TInv, Waits, ServerTypes
<1>2. UNCHANGED <<world, host, toServer, link, corrupted>>
  BY DEF Target, TargetPrints, TargetStops, TargetStores
<1>3. CASE TargetPrints \/ TargetStops
  <2>1. <<Ans("O", contd, 0, Old)>> \in Seq(ToHost)
    <3>1. Ans("O", contd, 0, Old) \in ToHost
      <4>1. contd \in Nat /\ 0 \in 0 .. Blocks /\ Old \in Values
        BY <1>1, TypeFacts, ValueTypes
      <4> QED BY <4>1, AnsType, HostMessages
    <3> QED BY <3>1
  <2>2. toHost' \in Seq(ToHost) /\ lastReply' \in Replies /\ link = "up"
    BY <1>3, <2>1, SaysTypes, StopRepliesTypes DEF TargetPrints, TargetStops
  <2>3. ServerTypes' /\ (contd' # 0 => target' = "running")
    BY <1>1, <1>2, <1>3, <2>2 DEF ServerTypes, TargetPrints, TargetStops, host
  <2> QED BY <1>2, <2>2, <2>3, TypeFacts, ServerStepTypes DEF RestTypes
<1>4. CASE \E b \in 1 .. Blocks : TargetStores(b)
  <2>1. dmem' \in [1 .. Blocks -> Values] /\ UNCHANGED <<toHost, target, contd, lastReply, console>>
    <3>1. PICK b \in 1 .. Blocks : TargetStores(b)
      BY <1>4
    <3>2. dmem' = [dmem EXCEPT ![b] = Written(0)] /\ Written(0) \in Values
      BY <3>1, ValueTypes DEF TargetStores
    <3> QED BY <1>1, <3>1, <3>2 DEF TargetStores
  <2>2. ServerTypes'
    BY <1>1, <1>2, <2>1 DEF ServerTypes, host
  <2> QED BY <1>1, <1>2, <2>1, <2>2, TypeFacts, ServerStepTypes DEF RestTypes
<1> QED BY <1>3, <1>4 DEF Target

LEMMA ConnectionTypes ==
  ASSUME TInv, LinkFails \/ Corrupt
  PROVE  TInv'
<1>1. UNCHANGED <<world, host, server>>
  BY DEF LinkFails, Corrupt
<1>2. ServerTypes' /\ (contd' # 0 => target' = "running")
  BY <1>1, TypeFacts DEF TInv, Waits, ServerTypes, server, host
<1>3. CASE LinkFails
  <2>1. toServer' \in Seq(ToServer(cur.no)) /\ toHost' \in Seq(ToHost)
    BY <1>3 DEF LinkFails
  <2> QED BY <1>1, <1>2, <1>3, <2>1, TypeFacts, ServerStepTypes DEF LinkFails, RestTypes
<1>4. CASE Corrupt
  <2>1. corrupted' \in Nat /\ link' = link
    BY <1>4, TypeFacts DEF Corrupt, RestTypes
  <2>2. toHost' \in Seq(ToHost) /\ (toHost = <<>> => toHost' = <<>>)
    <3>1. CASE toHost' = toHost
      BY <3>1, TypeFacts
    <3>2. CASE \E i \in DOMAIN toHost :
                 MaySpoil(toHost[i]) /\ \E y \in Spoiled(toHost[i]) : toHost' = [toHost EXCEPT ![i] = y]
      <4>1. PICK i \in DOMAIN toHost :
              MaySpoil(toHost[i]) /\ \E y \in Spoiled(toHost[i]) : toHost' = [toHost EXCEPT ![i] = y]
        BY <3>2
      <4>3. PICK y \in Spoiled(toHost[i]) : toHost' = [toHost EXCEPT ![i] = y]
        BY <4>1
      <4>2. y \in ToHost
        <5>1. IsPacket(toHost[i])
          BY <4>1 DEF MaySpoil
        <5>2. toHost[i] \in Replies
          BY <5>1, TypeFacts, HostMessages
        <5>3. Garbled \in Values
          BY ValueTypes
        <5>4. y \in Replies
          BY <4>3, <5>2, <5>3 DEF Replies, Spoiled
        <5> QED BY <5>4, HostMessages
      <4> QED BY <4>2, <4>3, TypeFacts
    <3> QED BY <1>4, <3>1, <3>2 DEF Corrupt
  <2>3. toServer' \in Seq(ToServer(cur.no)) /\ (toServer = <<>> => toServer' = <<>>)
    <3>1. CASE toServer' = toServer
      BY <3>1, TypeFacts
    <3>2. CASE \E i \in DOMAIN toServer : /\ MaySpoil(toServer[i])
                                          /\ toServer' = [toServer EXCEPT ![i].ok = FALSE]
      <4>1. PICK i \in DOMAIN toServer : /\ MaySpoil(toServer[i])
                                         /\ toServer' = [toServer EXCEPT ![i].ok = FALSE]
        BY <3>2
      <4> DEFINE y == [toServer[i] EXCEPT !.ok = FALSE]
      <4>2. y \in ToServer(cur.no)
        <5>1. IsPacket(toServer[i])
          BY <4>1 DEF MaySpoil
        <5>2. toServer[i] \in ToServer(cur.no)
          BY TypeFacts
        <5>3. toServer[i] \in Commands /\ toServer[i].no <= cur.no
          BY <5>1, <5>2, CommandTypes DEF ToServer
        <5>4. y \in Commands /\ y.no = toServer[i].no
          BY <5>3 DEF Commands
        <5> QED BY <5>3, <5>4, TypeFacts, ServerMessages
      <4>3. toServer' = [toServer EXCEPT ![i] = y]
        BY <4>1
      <4> DEFINE X == ToServer(cur.no)
      <4> HIDE DEF y, X
      <4> QED BY <4>2, <4>3, TypeFacts DEF X
    <3> QED BY <1>4, <3>1, <3>2 DEF Corrupt
  <2> QED BY <1>1, <1>2, <2>1, <2>2, <2>3, TypeFacts, ServerStepTypes
<1> QED BY <1>3, <1>4

LEMMA InitTypes == Init => TInv
<1> SUFFICES ASSUME Init PROVE TInv
  OBVIOUS
<1>1. Blocks \in Nat \ {0} /\ 1 \in 1 .. Blocks
  BY GdbAssumption
<1>2. cur \in CurType /\ cur.no = 0 /\ cur.op = "probe" /\ cur.blk <= cur.blks
  <2>1. cur = [op |-> "probe", no |-> 0, blk |-> 1, blks |-> 1]
    BY DEF Init
  <2> QED BY <1>1, <2>1 DEF CurType
<1>3. Cmd(cur, "empty") \in ToServer(cur.no)
  BY <1>2, CmdType, ServerMessages
<1>4. toServer \in Seq(ToServer(cur.no)) /\ toHost \in Seq(ToHost)
  <2>1. toServer = <<Cmd(cur, "empty")>> /\ toHost = <<>>
    BY DEF Init
  <2> QED BY <1>3, <2>1
<1>5. HostTypes
  BY <1>2, ValueTypes DEF Init, HostTypes
<1>6. lastReply \in Replies
  <2>1. lastReply = Ans("", 0, 1, Old)
    BY Zenon DEF Init
  <2>2. 1 \in 0 .. Blocks /\ 0 \in Nat
    BY <1>1
  <2>3. "" \in {"OK", "data", "E", "", "T", "O"} /\ Old \in Values
    BY ValueTypes
  <2>4. Ans("", 0, 1, Old) \in Replies
    BY <2>2, <2>3, AnsReplies
  <2> QED BY <2>1, <2>4
<1>7. ServerTypes
  <2>1. dmem = [b \in 1 .. Blocks |-> Written(0)] /\ Written(0) \in Values
    BY ValueTypes DEF Init
  <2>2. target \in {"halted", "running"} /\ contd = 0 /\ console = 0
    BY DEF Init
  <2> QED BY <1>2, <1>6, <2>1, <2>2 DEF ServerTypes
<1>8. Types
  BY <1>4, <1>5, <1>7, TypesParts DEF Init, RestTypes
<1>9. Waits
  BY <1>2 DEF Init, Waits
<1> QED BY <1>8, <1>9 DEF TInv

LEMMA NextTypes == TInv /\ [Next]_vars => TInv'
<1> SUFFICES ASSUME TInv, [Next]_vars PROVE TInv'
  OBVIOUS
<1>1. CASE CallReset \/ \E n \in 1 .. Blocks : CallRead(n) \/ CallWrite(n)
  BY <1>1, CallTypes
<1>2. CASE CallRun \/ CallStop
  BY <1>2, CallRunTypes
<1>3. CASE GetAck
  BY <1>3, GetAckTypes
<1>4. CASE ReadReply \/ WriteReply
  BY <1>4, TransferReplyTypes
<1>5. CASE ResetReply \/ StopReply \/ DiscardAll
  BY <1>5, ReplyTypes
<1>6. CASE LinkDown
  BY <1>6, LinkDownTypes
<1>7. CASE ServerTakes
  BY <1>7, ServerTakesTypes
<1>8. CASE Target
  BY <1>8, TargetTypes
<1>9. CASE LinkFails \/ Corrupt
  BY <1>9, ConnectionTypes
<1>10. CASE UNCHANGED vars
  <2>1. Types' = Types /\ Waits' = Waits
    BY <1>10 DEF vars, host, server, Types, TypeOK, Waits, ToServer
  <2> QED BY <2>1 DEF TInv
<1> QED BY <1>1, <1>2, <1>3, <1>4, <1>5, <1>6, <1>7, <1>8, <1>9, <1>10 DEF Next, Calls, Ends, Answers

\* The invariant of the types holds for every connection, driver and number of calls.
THEOREM TInvHolds == Spec => []TInv
  BY InitTypes, NextTypes, PTL DEF Spec

\* The driver's, the server's and the connection's state has its types, and no
\* continue that the server owes a stop reply is of a later call.
THEOREM TypesHold == Spec => []TypeOK
<1>1. TInv => TypeOK
  BY DEF TInv, Types
<1> QED BY <1>1, TInvHolds, PTL

--------------------------------------------------------------------------
(* What a step adds to the queues.                                         *)

\* toHost has grown by the elements of answers.
HostGrows(answers) ==
  /\ Len(toHost') = Len(toHost) + Len(answers)
  /\ \A i \in 1 .. Len(toHost) : toHost'[i] = toHost[i]
  /\ \A i \in 1 .. Len(answers) : toHost'[Len(toHost) + i] = answers[i]

\* The server's answers go to the end of the queue, and the last packet is kept.
LEMMA SaysGrows ==
  ASSUME TInv, NEW answers \in Seq(ToHost), Says(answers)
  PROVE  /\ HostGrows(answers) /\ toHost' \in Seq(ToHost)
         /\ lastReply' = IF answers # <<>> /\ IsPacket(answers[Len(answers)])
                         THEN answers[Len(answers)] ELSE lastReply
<1>1. toHost \in Seq(ToHost)
  BY TypeFacts
<1>2. toHost' = toHost \o answers
  BY DEF Says
<1>3. HostGrows(answers) /\ toHost' \in Seq(ToHost)
  BY <1>1, <1>2, ConcatProperties DEF HostGrows
<1> QED BY <1>3 DEF Says, Last

\* How the server answers a command: an ack, and what the command asks for.
Served(p, answers) ==
  /\ answers[1] = Ack
  /\ \A i \in 2 .. Len(answers) : Intact(answers[i])
  /\ \/ /\ p.cmd = "reset" /\ Len(answers) \in 2 .. 3 /\ target' = "halted" /\ contd' = 0 /\ dmem' = dmem
        /\ answers[Len(answers)] = Ans("OK", p.no, p.blk, Old)
        /\ Len(answers) = 3 => answers[2].ans = "T"
     \/ p.cmd = "run" /\ Len(answers) = 1 /\ target' = "running" /\ contd' = p.no /\ dmem' = dmem
     \/ /\ p.cmd = "empty" /\ answers[2] = Ans("", p.no, p.blk, Old)
        /\ Len(answers) = 2 /\ UNCHANGED <<target, contd, dmem>>
     \/ /\ p.cmd = "read" /\ target = "halted" /\ answers[2] = Ans("data", p.no, p.blk, dmem[p.blk])
        /\ Len(answers) = 2 /\ UNCHANGED <<target, contd, dmem>>
     \/ /\ p.cmd = "write" /\ target = "halted" /\ answers[2] = Ans("OK", p.no, p.blk, Old)
        /\ Len(answers) = 2 /\ UNCHANGED <<target, contd>>
        /\ dmem' = [dmem EXCEPT ![p.blk] = Written(p.no)]
     \/ /\ p.cmd \in {"read", "write"} /\ (world.errors \/ target = "running")
        /\ answers[2] = Ans("E", p.no, p.blk, Old)
        /\ Len(answers) = 2 /\ UNCHANGED <<target, contd, dmem>>

\* What the server says to a command has the form Served gives it.
LEMMA ServeAnswers ==
  ASSUME TInv, NEW p \in Commands, p.no <= cur.no, Serve(p)
  PROVE  \E answers \in Seq(ToHost) : Says(answers) /\ Served(p, answers)
<1>1. p.no \in Nat /\ p.blk \in 0 .. Blocks /\ p.blk \in 1 .. Blocks
  BY TypeFacts, CommandTypes
<1>2. \A a \in {"OK", "data", "E", "", "T"}, v \in Values :
        Ans(a, p.no, p.blk, v) \in ToHost /\ Intact(Ans(a, p.no, p.blk, v))
  BY <1>1, AnsIntact
<1>3. Old \in Values /\ dmem[p.blk] \in Values /\ Ack \in ToHost
  BY <1>1, TypeFacts, ValueTypes, HostMessages DEF ServerTypes
<1>4. CASE /\ p.cmd = "reset" /\ target' = "halted" /\ contd' = 0 /\ dmem' = dmem
           /\ Says(<<Ack>> \o StopReplies \o <<Ans("OK", p.no, p.blk, Old)>>)
  <2> DEFINE z == Ans("OK", p.no, p.blk, Old)
             t == Ans("T", contd, 0, Old)
  <2>1. z \in ToHost /\ Intact(z)
    BY <1>2, <1>3
  <2>2. t \in ToHost /\ Intact(t) /\ t.ans = "T"
    <3>1. contd \in Nat /\ 0 \in 0 .. Blocks
      BY TypeFacts DEF ServerTypes
    <3>2. t \in ToHost /\ Intact(t)
      BY <3>1, <1>3, AnsIntact
    <3>3. t.ans = "T"
      BY DEF Ans
    <3> HIDE DEF t
    <3> QED BY <3>2, <3>3
  <2>3. Says(<<Ack>> \o StopReplies \o <<z>>)
    BY <1>4
  <2>4. StopReplies = IF contd = 0 THEN <<>> ELSE <<t>>
    BY DEF StopReplies
  <2> HIDE DEF z, t
  <2>5. CASE contd = 0
    <3>1. <<Ack>> \o StopReplies \o <<z>> = <<Ack, z>>
      BY <2>1, <2>4, <2>5, <1>3, ConcatTuples
    <3>2. <<Ack, z>> \in Seq(ToHost)
      BY <2>1, <1>3, Pair
    <3>3. Served(p, <<Ack, z>>)
      BY <1>4, <2>1 DEF Served, z
    <3>4. Says(<<Ack, z>>)
      BY <2>3, <3>1
    <3> QED BY <3>2, <3>3, <3>4
  <2>6. CASE contd # 0
    <3>1. <<Ack>> \o StopReplies \o <<z>> = <<Ack, t, z>>
      BY <2>1, <2>2, <2>4, <2>6, <1>3, ConcatTuples
    <3>2. <<Ack, t, z>> \in Seq(ToHost)
      <4>1. <<Ack, t>> \in Seq(ToHost) /\ <<Ack, t, z>> = Append(<<Ack, t>>, z)
        BY <2>2, <1>3, Pair
      <4> QED BY <4>1, <2>1
    <3>3. Served(p, <<Ack, t, z>>)
      BY <1>4, <2>1, <2>2 DEF Served, z
    <3>4. Says(<<Ack, t, z>>)
      BY <2>3, <3>1
    <3> QED BY <3>2, <3>3, <3>4
  <2> QED BY <2>5, <2>6
<1>5. CASE p.cmd = "run" /\ target' = "running" /\ contd' = p.no /\ Says(<<Ack>>) /\ UNCHANGED dmem
  <2>1. <<Ack>> \in Seq(ToHost) /\ Served(p, <<Ack>>)
    BY <1>3, <1>5 DEF Served
  <2> QED BY <1>5, <2>1
<1>6. CASE \E a \in {"OK", "data", "E", ""}, v \in Values :
             /\ Says(<<Ack, Ans(a, p.no, p.blk, v)>>) /\ UNCHANGED <<target, contd>>
             /\ \/ p.cmd = "empty" /\ a = "" /\ v = Old /\ dmem' = dmem
                \/ p.cmd = "read" /\ target = "halted" /\ a = "data" /\ v = dmem[p.blk] /\ dmem' = dmem
                \/ p.cmd = "write" /\ target = "halted" /\ a = "OK" /\ v = Old
                   /\ dmem' = [dmem EXCEPT ![p.blk] = Written(p.no)]
                \/ p.cmd \in {"read", "write"} /\ a = "E" /\ v = Old
                   /\ (world.errors \/ target = "running") /\ dmem' = dmem
  <2>1. PICK a \in {"OK", "data", "E", ""}, v \in Values :
             /\ Says(<<Ack, Ans(a, p.no, p.blk, v)>>) /\ UNCHANGED <<target, contd>>
             /\ \/ p.cmd = "empty" /\ a = "" /\ v = Old /\ dmem' = dmem
                \/ p.cmd = "read" /\ target = "halted" /\ a = "data" /\ v = dmem[p.blk] /\ dmem' = dmem
                \/ p.cmd = "write" /\ target = "halted" /\ a = "OK" /\ v = Old
                   /\ dmem' = [dmem EXCEPT ![p.blk] = Written(p.no)]
                \/ p.cmd \in {"read", "write"} /\ a = "E" /\ v = Old
                   /\ (world.errors \/ target = "running") /\ dmem' = dmem
    BY <1>6
  <2> DEFINE z == Ans(a, p.no, p.blk, v)
  <2>2. z \in ToHost /\ Intact(z) /\ Says(<<Ack, z>>)
    BY <1>2, <2>1
  <2>3. Served(p, <<Ack, z>>)
    <3>2. Len(<<Ack, z>>) = 2 /\ <<Ack, z>>[1] = Ack /\ <<Ack, z>>[2] = z
      OBVIOUS
    <3>3. z = Ans(a, p.no, p.blk, v)
      OBVIOUS
    <3> HIDE DEF z
    <3> DEFINE q == <<Ack, z>>
    <3>4. Len(q) = 2 /\ q[1] = Ack /\ q[2] = z
      BY <3>2
    <3> HIDE DEF q
    <3> SUFFICES Served(p, q)
      BY DEF q
    <3>5. \A i \in 2 .. Len(q) : Intact(q[i])
      <4>1. \A i \in 2 .. Len(q) : i = 2
        <5>1. \A i \in 2 .. 2 : i = 2
          BY OnlyTwo
        <5> QED BY <5>1, <3>4, Zenon
      <4>2. Intact(q[2])
        BY <2>2, <3>4, Zenon
      <4> QED BY <4>1, <4>2, Zenon
    <3>6. CASE p.cmd = "empty" /\ a = "" /\ v = Old /\ dmem' = dmem
      BY <2>1, <3>3, <3>4, <3>5, <3>6 DEF Served
    <3>7. CASE p.cmd = "read" /\ target = "halted" /\ a = "data" /\ v = dmem[p.blk] /\ dmem' = dmem
      BY <2>1, <3>3, <3>4, <3>5, <3>7 DEF Served
    <3>8. CASE /\ p.cmd = "write" /\ target = "halted" /\ a = "OK" /\ v = Old
               /\ dmem' = [dmem EXCEPT ![p.blk] = Written(p.no)]
      BY <2>1, <3>3, <3>4, <3>5, <3>8 DEF Served
    <3>9. CASE /\ p.cmd \in {"read", "write"} /\ a = "E" /\ v = Old
               /\ (world.errors \/ target = "running") /\ dmem' = dmem
      BY <2>1, <3>3, <3>4, <3>5, <3>9 DEF Served
    <3> QED BY <2>1, <3>6, <3>7, <3>8, <3>9
  <2> HIDE DEF z
  <2>4. <<Ack, z>> \in Seq(ToHost)
    BY <2>2, <1>3, Pair
  <2> QED BY <2>2, <2>3, <2>4
<1> QED BY <1>3, <1>4, <1>5, <1>6 DEF Serve

--------------------------------------------------------------------------
(* Messages in order.                                                      *)

\* The messages of a queue as a set: of a queue, with one more, without the first.
LEMMA RangeOf ==
  ASSUME NEW X, NEW s \in Seq(X)
  PROVE  /\ Range(s) \subseteq X
         /\ \A x : x \in Range(s) <=> \E i \in 1 .. Len(s) : x = s[i]
         /\ \A i \in 1 .. Len(s) : s[i] \in Range(s)
         /\ Range(s) = {} <=> s = <<>>
<1>1. DOMAIN s = 1 .. Len(s)
  OBVIOUS
<1>2. \A x : x \in Range(s) <=> \E i \in 1 .. Len(s) : x = s[i]
  BY <1>1 DEF Range
<1>3. \A i \in 1 .. Len(s) : s[i] \in X
  OBVIOUS
<1>4. s = <<>> <=> Len(s) = 0
  OBVIOUS
<1>5. Len(s) \in Nat
  OBVIOUS
<1>6. Range(s) = {} <=> s = <<>>
  <2>1. Len(s) # 0 => s[1] \in Range(s)
    BY <1>2, <1>5
  <2>2. Len(s) = 0 => Range(s) = {}
    BY <1>2
  <2> QED BY <1>4, <2>1, <2>2
<1> QED BY <1>2, <1>3, <1>6

LEMMA SeqOfElements ==
  ASSUME NEW X, NEW s \in Seq(X), NEW Y, \A i \in 1 .. Len(s) : s[i] \in Y
  PROVE  s \in Seq(Y)
  OBVIOUS

LEMMA RangeAppend ==
  ASSUME NEW X, NEW s \in Seq(X), NEW x \in X
  PROVE  Range(Append(s, x)) = Range(s) \cup {x}
<1> DEFINE t == Append(s, x)
<1>1. t \in Seq(X) /\ Len(t) = Len(s) + 1 /\ t[Len(s) + 1] = x /\ \A i \in 1 .. Len(s) : t[i] = s[i]
  BY AppendElements
<1>2. Len(s) \in Nat
  OBVIOUS
<1> HIDE DEF t
<1>3. ASSUME NEW y \in Range(t) PROVE y \in Range(s) \cup {x}
  <2>1. PICK i \in 1 .. Len(t) : y = t[i]
    BY <1>1, RangeOf
  <2>2. CASE i = Len(s) + 1
    BY <1>1, <2>1, <2>2
  <2>3. CASE i \in 1 .. Len(s)
    BY <1>1, <2>1, <2>3, RangeOf
  <2> QED BY <1>1, <1>2, <2>1, <2>2, <2>3
<1>4. ASSUME NEW y \in Range(s) PROVE y \in Range(t)
  <2>1. PICK i \in 1 .. Len(s) : y = s[i]
    BY RangeOf
  <2>2. i \in 1 .. Len(t) /\ y = t[i]
    BY <1>1, <1>2, <2>1
  <2> QED BY <1>1, <2>2, RangeOf
<1>5. x \in Range(t)
  <2>1. Len(s) + 1 \in 1 .. Len(t) /\ x = t[Len(s) + 1]
    BY <1>1, <1>2
  <2> QED BY <1>1, <2>1, RangeOf
<1> QED BY <1>3, <1>4, <1>5 DEF t

LEMMA RangeTail ==
  ASSUME NEW X, NEW s \in Seq(X), s # <<>>
  PROVE  Head(s) \in Range(s) /\ Range(Tail(s)) \subseteq Range(s)
<1> DEFINE t == Tail(s)
<1>1. /\ Head(s) = s[1] /\ Len(s) \in Nat \ {0} /\ t \in Seq(X) /\ Len(t) = Len(s) - 1
      /\ \A i \in 1 .. Len(s) - 1 : t[i] = s[i + 1]
  BY TailElements
<1> HIDE DEF t
<1>2. Head(s) \in Range(s)
  <2>1. 1 \in 1 .. Len(s)
    BY <1>1
  <2> QED BY <1>1, <2>1, RangeOf
<1>3. ASSUME NEW y \in Range(t) PROVE y \in Range(s)
  <2>1. PICK i \in 1 .. Len(t) : y = t[i]
    BY <1>1, RangeOf
  <2>2. i \in 1 .. Len(s) - 1 /\ i + 1 \in 1 .. Len(s) /\ y = s[i + 1]
    BY <1>1, <2>1
  <2> QED BY <2>2, RangeOf
<1> QED BY <1>2, <1>3 DEF t

\* A queue of noise that gets an answer at its end, and what follows the answer.
LEMMA InOrderAppendLast ==
  ASSUME NEW X, NEW s \in Seq(X), NEW x \in X, NEW Before, NEW Last1,
         \A i \in 1 .. Len(s) : s[i] \in Before, x \in Last1
  PROVE  InOrder(Append(s, x), Before, Last1, {})
<1> DEFINE t == Append(s, x)
           k == Len(s) + 1
<1>1. Len(t) = k /\ t[k] = x /\ \A i \in 1 .. Len(s) : t[i] = s[i]
  BY AppendElements
<1>2. k \in 1 .. Len(t) /\ k - 1 = Len(s) /\ \A i \in k + 1 .. Len(t) : FALSE
  <2>1. Len(s) \in Nat
    OBVIOUS
  <2> HIDE DEF t
  <2> QED BY <1>1, <2>1
<1> HIDE DEF t, k
<1>3. InOrder(t, Before, Last1, {})
  BY <1>1, <1>2 DEF InOrder
<1> QED BY <1>3 DEF t

LEMMA InOrderAppendAfter ==
  ASSUME NEW X, NEW s \in Seq(X), NEW x \in X, NEW Before, NEW Last1, NEW After, NEW After1,
         InOrder(s, Before, Last1, After), After \cup {x} \subseteq After1
  PROVE  InOrder(Append(s, x), Before, Last1, After1)
<1> DEFINE t == Append(s, x)
<1>1. Len(t) = Len(s) + 1 /\ t[Len(s) + 1] = x /\ Len(s) \in Nat /\ \A i \in 1 .. Len(s) : t[i] = s[i]
  BY AppendElements
<1> HIDE DEF t
<1>2. PICK k \in 1 .. Len(s) : /\ s[k] \in Last1
                               /\ \A i \in 1 .. k - 1 : s[i] \in Before
                               /\ \A i \in k + 1 .. Len(s) : s[i] \in After
  BY DEF InOrder
<1>3. k \in 1 .. Len(t) /\ t[k] \in Last1
  BY <1>1, <1>2
<1>4. \A i \in 1 .. k - 1 : t[i] \in Before
  BY <1>1, <1>2
<1>5. ASSUME NEW i \in k + 1 .. Len(t) PROVE t[i] \in After1
  <2>1. i = Len(s) + 1 \/ (i \in k + 1 .. Len(s) /\ i \in 1 .. Len(s))
    BY <1>1, <1>2
  <2> QED BY <1>1, <1>2, <2>1
<1>6. InOrder(t, Before, Last1, After1)
  BY <1>3, <1>4, <1>5 DEF InOrder
<1> QED BY <1>6 DEF t

LEMMA InOrderElements ==
  ASSUME NEW X, NEW s \in Seq(X), NEW Before, NEW Last1, NEW After, InOrder(s, Before, Last1, After)
  PROVE  s # <<>> /\ Range(s) \subseteq Before \cup Last1 \cup After
<1>1. PICK k \in 1 .. Len(s) : /\ s[k] \in Last1
                               /\ \A i \in 1 .. k - 1 : s[i] \in Before
                               /\ \A i \in k + 1 .. Len(s) : s[i] \in After
  BY DEF InOrder
<1>2. \A i \in 1 .. Len(s) : i = k \/ i \in 1 .. k - 1 \/ i \in k + 1 .. Len(s)
  OBVIOUS
<1>3. \A i \in 1 .. Len(s) : s[i] \in Before \cup Last1 \cup After
  BY <1>1, <1>2
<1>4. s # <<>>
  BY <1>1
<1> QED BY <1>3, <1>4, RangeOf

\* The first message has its place in the order, and the rest keep theirs.
LEMMA InOrderTail ==
  ASSUME NEW X, NEW s \in Seq(X), NEW Before, NEW Last1, NEW After, InOrder(s, Before, Last1, After)
  PROVE  \/ Head(s) \in Before /\ InOrder(Tail(s), Before, Last1, After)
         \/ Head(s) \in Last1 /\ Tail(s) \in Seq(After)
<1>1. PICK k \in 1 .. Len(s) : /\ s[k] \in Last1
                               /\ \A i \in 1 .. k - 1 : s[i] \in Before
                               /\ \A i \in k + 1 .. Len(s) : s[i] \in After
  BY DEF InOrder
<1> DEFINE t == Tail(s)
<1>2. /\ Head(s) = s[1] /\ Len(s) \in Nat \ {0} /\ t \in Seq(X) /\ Len(t) = Len(s) - 1
      /\ \A i \in 1 .. Len(s) - 1 : t[i] = s[i + 1]
  <2>1. s # <<>>
    BY <1>1
  <2> QED BY <2>1, TailElements
<1> HIDE DEF t
<1>3. CASE k = 1
  <2>1. \A i \in 1 .. Len(t) : t[i] \in After
    <3> TAKE i \in 1 .. Len(t)
    <3>1. i \in 1 .. Len(s) - 1 /\ i + 1 \in k + 1 .. Len(s)
      BY <1>2, <1>3
    <3> QED BY <1>1, <1>2, <3>1
  <2> QED BY <1>1, <1>2, <1>3, <2>1, SeqOfElements DEF t
<1>4. CASE k # 1
  <2>1. k - 1 \in 1 .. Len(t) /\ t[k - 1] \in Last1 /\ 1 \in 1 .. k - 1
    BY <1>1, <1>2, <1>4
  <2>2. \A i \in 1 .. (k - 1) - 1 : t[i] \in Before
    <3> TAKE i \in 1 .. (k - 1) - 1
    <3>1. i \in 1 .. Len(s) - 1 /\ i + 1 \in 1 .. k - 1
      BY <1>2, <1>4
    <3> QED BY <1>1, <1>2, <3>1
  <2>3. \A i \in (k - 1) + 1 .. Len(t) : t[i] \in After
    <3> TAKE i \in (k - 1) + 1 .. Len(t)
    <3>1. i \in 1 .. Len(s) - 1 /\ i + 1 \in k + 1 .. Len(s)
      BY <1>2, <1>4
    <3> QED BY <1>1, <1>2, <3>1
  <2>4. InOrder(t, Before, Last1, After)
    BY <2>1, <2>2, <2>3 DEF InOrder
  <2> QED BY <1>1, <1>2, <2>1, <2>4 DEF t
<1> QED BY <1>3, <1>4

\* More messages do not unsettle a queue that settles the target; Etx settles any.
LEMMA SettlesAppend ==
  ASSUME NEW X, NEW s \in Seq(X), NEW x \in X, NEW t, NEW n \in 0 .. Len(s), Settles(s, t, n)
  PROVE  /\ Settles(Append(s, x), t, n)
         /\ n = Len(s) /\ x \in {Ack, Nack} => Settles(Append(s, x), t, Len(s) + 1)
<1> DEFINE q == Append(s, x)
<1>1. q[Len(s) + 1] = x /\ Len(s) \in Nat /\ \A i \in 1 .. Len(s) : q[i] = s[i]
  BY AppendElements
<1> HIDE DEF q
<1>2. CASE t = "halted" /\ \A i \in 1 .. n : s[i] \in {Ack, Nack}
  <2>1. \A i \in 1 .. n : q[i] \in {Ack, Nack}
    BY <1>1, <1>2
  <2>2. n = Len(s) /\ x \in {Ack, Nack} => \A i \in 1 .. Len(s) + 1 : q[i] \in {Ack, Nack}
    BY <1>1, <2>1
  <2> QED BY <1>2, <2>1, <2>2 DEF Settles, q
<1>3. CASE \E k \in 1 .. n : s[k] = Etx /\ \A i \in k + 1 .. n : s[i] \in {Ack, Nack}
  <2>1. PICK k \in 1 .. n : s[k] = Etx /\ \A i \in k + 1 .. n : s[i] \in {Ack, Nack}
    BY <1>3
  <2>2. q[k] = Etx /\ \A i \in k + 1 .. n : q[i] \in {Ack, Nack}
    BY <1>1, <2>1
  <2>3. n = Len(s) /\ x \in {Ack, Nack} =>
          k \in 1 .. Len(s) + 1 /\ \A i \in k + 1 .. Len(s) + 1 : q[i] \in {Ack, Nack}
    BY <1>1, <2>1, <2>2
  <2> QED BY <2>1, <2>2, <2>3 DEF Settles, q
<1> QED BY <1>2, <1>3 DEF Settles

LEMMA SettlesEtx ==
  ASSUME NEW X, NEW s \in Seq(X), Etx \in X, NEW t
  PROVE  Settles(Append(s, Etx), t, Len(s) + 1)
<1> DEFINE q == Append(s, Etx)
           k == Len(s) + 1
<1>1. q[k] = Etx /\ Len(s) \in Nat
  BY AppendElements
<1>2. k \in 1 .. k /\ \A i \in k + 1 .. k : FALSE
  BY <1>1
<1> HIDE DEF q, k
<1>3. Settles(q, t, k)
  BY <1>1, <1>2 DEF Settles
<1> QED BY <1>3 DEF q, k

\* The server has taken the first message, which left the target in state u.
LEMMA SettlesTail ==
  ASSUME NEW X, NEW s \in Seq(X), NEW t, NEW u, NEW n \in 1 .. Len(s), Settles(s, t, n),
         Head(s) = Etx => u = "halted",
         Head(s) \in {Ack, Nack} => u = t
  PROVE  Settles(Tail(s), u, n - 1)
<1> DEFINE q == Tail(s)
<1>1. /\ Head(s) = s[1] /\ Len(s) \in Nat \ {0} /\ \A i \in 1 .. Len(s) - 1 : q[i] = s[i + 1]
  <2>1. s # <<>>
    OBVIOUS
  <2> QED BY <2>1, TailElements
<1> HIDE DEF q
<1>2. CASE t = "halted" /\ \A i \in 1 .. n : s[i] \in {Ack, Nack}
  <2>1. u = "halted"
    BY <1>1, <1>2
  <2>2. \A i \in 1 .. n - 1 : q[i] \in {Ack, Nack}
    <3> TAKE i \in 1 .. n - 1
    <3>1. i \in 1 .. Len(s) - 1 /\ i + 1 \in 1 .. n
      BY <1>1
    <3> QED BY <1>1, <1>2, <3>1
  <2> QED BY <2>1, <2>2 DEF Settles, q
<1>3. CASE \E k \in 1 .. n : s[k] = Etx /\ \A i \in k + 1 .. n : s[i] \in {Ack, Nack}
  <2>1. PICK k \in 1 .. n : s[k] = Etx /\ \A i \in k + 1 .. n : s[i] \in {Ack, Nack}
    BY <1>3
  <2>2. \A i \in k .. n - 1 : q[i] \in {Ack, Nack}
    <3> TAKE i \in k .. n - 1
    <3>1. i \in 1 .. Len(s) - 1 /\ i + 1 \in k + 1 .. n
      BY <1>1
    <3> QED BY <1>1, <2>1, <3>1
  <2>3. CASE k = 1
    BY <1>1, <2>1, <2>2, <2>3 DEF Settles, q
  <2>4. CASE k # 1
    <3>1. k - 1 \in 1 .. n - 1 /\ q[k - 1] = Etx
      BY <1>1, <2>1, <2>4
    <3>2. \A i \in (k - 1) + 1 .. n - 1 : q[i] \in {Ack, Nack}
      BY <2>2
    <3> QED BY <3>1, <3>2 DEF Settles, q
  <2> QED BY <2>3, <2>4
<1> QED BY <1>2, <1>3 DEF Settles

LEMMA TypeFactsNext ==
  ASSUME TInv'
  PROVE  /\ toServer' \in Seq(ToServer(cur'.no)) /\ toHost' \in Seq(ToHost)
         /\ lastReply' \in Replies /\ cur' \in CurType /\ cur'.no \in Nat
<1>1. /\ toServer' \in Seq(ToServer(cur'.no)) /\ toHost' \in Seq(ToHost) /\ lastReply' \in Replies
      /\ cur' \in CurType
  BY DEF TInv, Types, TypeOK, CurType
<1> QED BY <1>1 DEF CurType

LEMMA QueueElementsNext ==
  ASSUME TInv'
  PROVE  /\ InHost' \subseteq ToHost /\ InServer' \subseteq ToServer(cur'.no)
         /\ \A x : x \in InHost' <=> \E i \in 1 .. Len(toHost') : x = toHost'[i]
         /\ \A x : x \in InServer' <=> \E i \in 1 .. Len(toServer') : x = toServer'[i]
  BY TypeFactsNext, RangeOf DEF InHost, InServer
--------------------------------------------------------------------------
(* What the driver takes from the connection, and what it sends.           *)

LEMMA QueueElements ==
  ASSUME TInv
  PROVE  /\ InHost \subseteq ToHost /\ InServer \subseteq ToServer(cur.no)
         /\ \A x \in InHost : IsPacket(x) <=> x \in Replies
         /\ \A x \in InServer : IsPacket(x) <=> x \in Commands
         /\ Arrived <=> InHost \cap Replies # {}
<1>1. toHost \in Seq(ToHost) /\ toServer \in Seq(ToServer(cur.no)) /\ cur.no \in Nat
  BY TypeFacts
<1>2. InHost \subseteq ToHost /\ InServer \subseteq ToServer(cur.no)
  BY <1>1, RangeOf DEF InHost, InServer
<1>3. \A x \in InHost : IsPacket(x) <=> x \in Replies
  BY <1>2, HostMessages
<1>4. \A x \in InServer : IsPacket(x) <=> x \in Commands
  BY <1>1, <1>2, ServerMessages
<1>5. Arrived <=> \E x \in InHost : IsPacket(x)
  BY <1>1, RangeOf DEF Arrived, InHost
<1> QED BY <1>2, <1>3, <1>4, <1>5

\* The first packet is taken with what is before it.
LEMMA TakeFirst ==
  ASSUME TInv, Arrived
  PROVE  /\ Next1 \in InHost /\ Next1 \in Replies /\ First \in 1 .. Len(toHost)
         /\ Next1 = toHost[First] /\ \A i \in 1 .. First - 1 : toHost[i] \in {Ack, Nack}
         /\ Nack \notin InHost /\ Next1.ok /\ Next1.cut <= 1 => Clean
<1>1. toHost \in Seq(ToHost) /\ Len(toHost) \in Nat
  BY TypeFacts
<1>2. /\ First \in 1 .. Len(toHost) /\ IsPacket(toHost[First])
      /\ \A i \in 1 .. First - 1 : ~IsPacket(toHost[i])
  BY <1>1, FirstPacket
<1>3. Next1 = toHost[First] /\ Next1 \in InHost
  BY <1>1, <1>2, RangeOf DEF Next1, InHost
<1>4. Next1 \in Replies
  BY <1>2, <1>3, QueueElements
<1>5. ASSUME NEW i \in 1 .. First - 1 PROVE toHost[i] \in {Ack, Nack} /\ toHost[i] \in InHost
  <2>1. i \in 1 .. Len(toHost)
    BY <1>2
  <2>2. toHost[i] \in InHost /\ ~IsPacket(toHost[i])
    BY <1>1, <1>2, <2>1, RangeOf DEF InHost
  <2> QED BY <2>2, QueueElements DEF ToHost
<1>6. ASSUME Nack \notin InHost, Next1.ok, Next1.cut <= 1 PROVE Clean
  BY <1>5, <1>6 DEF Clean, Whole
<1> QED BY <1>2, <1>3, <1>4, <1>5, <1>6

\* What the host takes is noise, or it is the answer and nothing is behind it.
LEMMA TakeInOrder ==
  ASSUME TInv, Arrived, Take, NEW Before, NEW Last1, Last1 \subseteq Replies,
         InOrder(toHost, Before, Last1, {})
  PROVE  \/ Next1 \in Before /\ InOrder(toHost', Before, Last1, {})
         \/ Next1 \in Last1 /\ toHost' = <<>>
<1>1. PICK k \in 1 .. Len(toHost) : /\ toHost[k] \in Last1
                                    /\ \A i \in 1 .. k - 1 : toHost[i] \in Before
                                    /\ \A i \in k + 1 .. Len(toHost) : toHost[i] \in {}
  BY DEF InOrder
<1>2. toHost \in Seq(ToHost) /\ Len(toHost) \in Nat
  BY TypeFacts
<1>3. k = Len(toHost)
  <2>1. ~(k + 1 \in k + 1 .. Len(toHost))
    BY <1>1
  <2> QED BY <1>2, <2>1
<1>4. /\ First \in 1 .. Len(toHost) /\ Next1 = toHost[First]
      /\ \A i \in 1 .. First - 1 : toHost[i] \in {Ack, Nack}
  BY TakeFirst
<1>5. /\ toHost' \in Seq(ToHost) /\ Len(toHost') = Len(toHost) - First
      /\ \A i \in 1 .. Len(toHost) - First : toHost'[i] = toHost[First + i]
  BY <1>2, TakeElements
<1>6. CASE First = k
  <2>1. Len(toHost') = 0
    BY <1>3, <1>5, <1>6
  <2> QED BY <1>1, <1>4, <1>5, <1>6, <2>1
<1>7. CASE First # k
  <2>1. First \in 1 .. k - 1 /\ k - First \in 1 .. Len(toHost')
    BY <1>2, <1>3, <1>4, <1>5, <1>7
  <2>2. toHost'[k - First] \in Last1
    BY <1>1, <1>3, <1>4, <1>5, <2>1
  <2>3. \A i \in 1 .. (k - First) - 1 : toHost'[i] \in Before
    <3> TAKE i \in 1 .. (k - First) - 1
    <3>1. i \in 1 .. Len(toHost) - First /\ First + i \in 1 .. k - 1
      BY <1>3, <1>4
    <3> QED BY <1>1, <1>5, <3>1
  <2>4. \A i \in (k - First) + 1 .. Len(toHost') : FALSE
    BY <1>2, <1>3, <1>4, <1>5
  <2>5. InOrder(toHost', Before, Last1, {})
    BY <2>1, <2>2, <2>3, <2>4 DEF InOrder
  <2> QED BY <1>1, <1>4, <2>1, <2>5
<1> QED BY <1>6, <1>7

\* Messages leave the front of toHost, or a packet there loses bytes.
Shrinks == \A i \in 1 .. Len(toHost') : \E j \in i .. Len(toHost) :
  \/ toHost'[i] = toHost[j]
  \/ i = 1 /\ toHost[j] \in Replies /\ toHost'[i] = [toHost[j] EXCEPT !.cut = @ + 1]

\* The ways in which the host takes from its queue.
LEMMA ShrinksTail == TInv /\ toHost # <<>> /\ toHost' = Tail(toHost) => Shrinks
<1> SUFFICES ASSUME TInv, toHost # <<>>, toHost' = Tail(toHost) PROVE Shrinks
  OBVIOUS
<1>1. /\ Len(toHost) \in Nat \ {0} /\ Len(toHost') = Len(toHost) - 1
      /\ \A i \in 1 .. Len(toHost) - 1 : toHost'[i] = toHost[i + 1]
  BY TypeFacts, TailElements
<1>2. \A i \in 1 .. Len(toHost') : i + 1 \in i .. Len(toHost) /\ toHost'[i] = toHost[i + 1]
  BY <1>1
<1> QED BY <1>2 DEF Shrinks

LEMMA ShrinksTake == TInv /\ Arrived /\ Take => Shrinks
<1> SUFFICES ASSUME TInv, Arrived, Take PROVE Shrinks
  OBVIOUS
<1>1. First \in 1 .. Len(toHost) /\ Len(toHost) \in Nat
  BY TypeFacts, TakeFirst
<1>2. /\ Len(toHost') = Len(toHost) - First
      /\ \A i \in 1 .. Len(toHost) - First : toHost'[i] = toHost[First + i]
  BY TypeFacts, TakeElements
<1>3. \A i \in 1 .. Len(toHost') : First + i \in i .. Len(toHost) /\ toHost'[i] = toHost[First + i]
  BY <1>1, <1>2
<1> QED BY <1>3 DEF Shrinks

LEMMA ShrinksSame == TInv /\ toHost' = toHost => Shrinks
<1> SUFFICES ASSUME TInv, toHost' = toHost PROVE Shrinks
  OBVIOUS
<1>1. Len(toHost) \in Nat
  BY TypeFacts
<1>2. \A i \in 1 .. Len(toHost') : i \in i .. Len(toHost) /\ toHost'[i] = toHost[i]
  BY <1>1
<1> QED BY <1>2 DEF Shrinks

\* What is left was there before, though a char may be cut from a packet.
LEMMA ShrinksElements ==
  ASSUME TInv, TInv', Shrinks, NEW x \in InHost'
  PROVE  \E y \in InHost : \/ x = y
                           \/ y \in Replies /\ x \in Replies /\ x.ans = y.ans /\ x.ok = y.ok
<1>1. PICK i \in 1 .. Len(toHost') : x = toHost'[i]
  BY QueueElementsNext
<1>2. PICK j \in i .. Len(toHost) :
        \/ toHost'[i] = toHost[j]
        \/ i = 1 /\ toHost[j] \in Replies /\ toHost'[i] = [toHost[j] EXCEPT !.cut = @ + 1]
  BY DEF Shrinks
<1>3. toHost[j] \in InHost
  <2>1. j \in 1 .. Len(toHost)
    OBVIOUS
  <2> QED BY <2>1, TypeFacts, RangeOf DEF InHost
<1>4. CASE toHost[j] \in Replies /\ toHost'[i] = [toHost[j] EXCEPT !.cut = @ + 1]
  <2> DEFINE y == toHost[j]
  <2>1. y \in Replies /\ x = [y EXCEPT !.cut = y.cut + 1] /\ y.cut + 1 \in Nat
    BY <1>1, <1>4, HostMessages
  <2> HIDE DEF y
  <2>2. x \in Replies /\ x.ans = y.ans /\ x.ok = y.ok
    BY <2>1 DEF Replies
  <2> QED BY <1>3, <2>1, <2>2 DEF y
<1> QED BY <1>1, <1>2, <1>3, <1>4

LEMMA ShrinksKeeps ==
  ASSUME TInv, TInv', Shrinks, UNCHANGED lastReply
  PROVE  /\ InHost \cap Echoes = {} => (InHost \cap Echoes)' = {}
         /\ InHost \cap Replies = {} => (InHost \cap Replies)' = {}
         /\ Nack \notin InHost => (Nack \notin InHost)'
         /\ AnswersWhole /\ pc' # "empty" => AnswersWhole'
<1>1. \A x \in InHost' : \E y \in InHost :
        x = y \/ (y \in Replies /\ x \in Replies /\ x.ans = y.ans /\ x.ok = y.ok)
  BY ShrinksElements
<1>2. \A y \in Replies : y # Nack
  BY HostMessages
<1>3. InHost \cap Echoes = {} => (InHost \cap Echoes)' = {}
  BY <1>1 DEF Echoes
<1>4. InHost \cap Replies = {} => (InHost \cap Replies)' = {}
  BY <1>1
<1>5. Nack \notin InHost => (Nack \notin InHost)'
  BY <1>1, <1>2
<1>6. ASSUME AnswersWhole, pc' # "empty" PROVE AnswersWhole'
  <2>1. \A x \in InHost \cap Replies : x.ok
    BY <1>6 DEF AnswersWhole
  <2>2. (\A x \in InHost \cap Replies : x.ok)'
    BY <1>1, <2>1
  <2>3. ASSUME NEW i \in 1 .. Len(toHost'), i > 1, toHost'[i] \in Replies PROVE toHost'[i].cut = 0
    <3>1. PICK j \in i .. Len(toHost) :
            \/ toHost'[i] = toHost[j]
            \/ i = 1 /\ toHost[j] \in Replies /\ toHost'[i] = [toHost[j] EXCEPT !.cut = @ + 1]
      BY DEF Shrinks
    <3>2. j \in 1 .. Len(toHost) /\ j > 1 /\ toHost'[i] = toHost[j]
      BY <2>3, <3>1
    <3> QED BY <1>6, <2>3, <3>2 DEF AnswersWhole
  <2> QED BY <1>6, <2>2, <2>3 DEF AnswersWhole, Intact
<1> QED BY <1>3, <1>4, <1>5, <1>6

\* The driver sends acks and commands other than the empty one, and asks again
\* for an answer that has arrived.
Sends == \A x \in InServer' :
  \/ x \in InServer \/ x = Ack \/ (x = Nack /\ Arrived)
  \/ x \in Commands \ Empties /\ x.ok

LEMMA SendsKeeps ==
  ASSUME TInv, TInv', Sends, Shrinks, UNCHANGED lastReply
  PROVE  /\ InServer \cap Empties = {} => (InServer \cap Empties)' = {}
         /\ NothingSpoiled => NothingSpoiled'
         /\ NoEcho => NoEcho'
<1>1. \A x \in Commands : x # Ack /\ x # Nack
  BY CommandTypes
<1>2. InServer \cap Empties = {} => (InServer \cap Empties)' = {}
  BY <1>1 DEF Sends, Empties
<1>3. NothingSpoiled => NothingSpoiled'
  BY <1>1, ShrinksKeeps DEF Sends, NothingSpoiled
<1>4. ASSUME NoEcho PROVE NoEcho'
  <2>1. (InHost \cap Echoes)' = {}
    BY <1>4, ShrinksKeeps DEF NoEcho
  <2>2. ASSUME lastReply'.ans = "" PROVE (Nack \notin InServer /\ InHost \cap Replies = {})'
    <3>1. Nack \notin InServer /\ InHost \cap Replies = {} /\ ~Arrived
      BY <1>4, <2>2, QueueElements DEF NoEcho, MayEcho
    <3>2. Nack \notin InServer'
      BY <1>1, <3>1, CommandTypes DEF Sends
    <3> QED BY <3>1, <3>2, ShrinksKeeps
  <2> QED BY <2>1, <2>2 DEF NoEcho, MayEcho
<1> QED BY <1>2, <1>3, <1>4

\* A step that spoils nothing leaves a calm connection calm.
LEMMA CalmBefore ==
  ASSUME UNCHANGED <<world, link, corrupted>>
  PROVE  Calm' <=> Calm
  BY DEF Calm, GoodAnswers

\* A step of a call that is no stop and becomes none.
LEMMA QuietStep ==
  ASSUME TInv, TInv', CInv, pc \notin {"stop", "empty"}, pc' \notin {"stop", "empty"},
         cur'.op \notin {"probe", "stop"}, Keep, Shrinks, Sends
  PROVE  CInv'
<1> SUFFICES ASSUME Calm' PROVE CInv'
  BY DEF CInv
<1>1. UNCHANGED <<world, link, corrupted, lastReply>> /\ Calm
  BY CalmBefore DEF Keep, server
<1>2. AnswersWhole /\ (corrupted = 0 => NothingSpoiled) /\ NoEcho /\ InServer \cap Empties = {}
  BY <1>1 DEF CInv
<1>3. AnswersWhole' /\ (corrupted' = 0 => NothingSpoiled') /\ NoEcho' /\ (InServer \cap Empties)' = {}
  BY <1>1, <1>2, ShrinksKeeps, SendsKeeps
<1> QED BY <1>3 DEF CInv

LEMMA CharsAppended ==
  ASSUME NEW X, NEW s \in Seq(X), Ack \in X, Nack \in X,
         NEW first, first = <<>> \/ first = <<Ack>> \/ first = <<Nack>>
  PROVE  /\ s \o first \in Seq(X)
         /\ \A y \in Range(s \o first) :
              y \in Range(s) \/ (y = Ack /\ first = <<Ack>>) \/ (y = Nack /\ first = <<Nack>>)
<1>1. CASE first = <<>>
  <2>1. s \o first = s
    BY <1>1, ConcatAppend
  <2> QED BY <2>1
<1>2. ASSUME NEW c \in {Ack, Nack}, first = <<c>>
      PROVE  s \o first \in Seq(X) /\ \A y \in Range(s \o first) : y \in Range(s) \/ y = c
  <2>1. c \in X
    OBVIOUS
  <2>2. s \o first = Append(s, c)
    BY <1>2, <2>1, ConcatAppend
  <2>3. Append(s, c) \in Seq(X) /\ Range(Append(s, c)) = Range(s) \cup {c}
    BY <2>1, AppendElements, RangeAppend
  <2> QED BY <2>2, <2>3
<1> QED BY <1>1, <1>2

\* What the host sends: an ack, a command behind an ack, the first and the next block.
LEMMA CharsSent ==
  ASSUME TInv, NEW first, first = <<>> \/ first = <<Ack>> \/ (first = <<Nack>> /\ Arrived),
         toServer' = toServer \o first
  PROVE  Sends
<1>1. Ack \in ToServer(cur.no) /\ Nack \in ToServer(cur.no) /\ toServer \in Seq(ToServer(cur.no))
  BY TypeFacts, ServerMessages
<1> DEFINE X == ToServer(cur.no)
<1> HIDE DEF X
<1>2. \A y \in Range(toServer') :
        y \in Range(toServer) \/ (y = Ack /\ first = <<Ack>>) \/ (y = Nack /\ first = <<Nack>>)
  BY <1>1, CharsAppended DEF X
<1>3. first = <<Nack>> => Arrived
  <2>1. <<Nack>> # <<>> /\ <<Nack>> # <<Ack>>
    BY CommandTypes
  <2> QED BY <2>1
<1> QED BY <1>2, <1>3 DEF Sends, InServer

LEMMA CommandSent ==
  ASSUME TInv, NEW first, first = <<>> \/ first = <<Ack>> \/ (first = <<Nack>> /\ Arrived),
         NEW c \in CurType, c.op \in {"reset", "read", "write", "run"}, c.no >= cur.no,
         toServer' = toServer \o first \o <<Cmd(c, c.op)>>
  PROVE  Sends
<1> DEFINE X == ToServer(c.no)
           x == Cmd(c, c.op)
           q == toServer \o first
<1>1. c.no \in Nat /\ toServer \in Seq(X)
  <2>1. c.no \in Nat
    BY DEF CurType
  <2> QED BY <2>1, TypeFacts, Widen
<1>2. x \in Commands /\ x \notin Empties /\ x.ok /\ x.no = c.no
  BY CmdType DEF Empties
<1>3. x \in X /\ Ack \in X /\ Nack \in X
  BY <1>1, <1>2, ServerMessages
<1>4. toServer' = q \o <<x>>
  OBVIOUS
<1> HIDE DEF X, x
<1>5. /\ q \in Seq(X)
      /\ \A y \in Range(q) : y \in Range(toServer) \/ (y = Ack /\ first = <<Ack>>)
                             \/ (y = Nack /\ first = <<Nack>>)
  BY <1>1, <1>3, CharsAppended
<1>6. first = <<Nack>> => Arrived
  <2>1. <<Nack>> # <<>> /\ <<Nack>> # <<Ack>>
    BY CommandTypes
  <2> QED BY <2>1
<1> HIDE DEF q
<1>7. toServer' = Append(q, x)
  BY <1>3, <1>4, <1>5, ConcatAppend
<1>8. Range(Append(q, x)) = Range(q) \cup {x}
  BY <1>3, <1>5, RangeAppend
<1>9. \A y \in Range(toServer') : y \in Range(q) \/ y = x
  BY <1>7, <1>8
<1> QED BY <1>2, <1>5, <1>6, <1>9 DEF Sends, InServer

LEMMA TransmitSends ==
  ASSUME TInv, NEW first, first = <<>> \/ first = <<Ack>> \/ (first = <<Nack>> /\ Arrived),
         NEW c \in CurType, c.op \in {"reset", "read", "write"}, c.no >= cur.no, Transmit(first, c)
  PROVE  Sends /\ cur' = c /\ pc' \in {"idle", "ack"}
<1>1. CASE toServer' = toServer
  BY <1>1 DEF Sends, InServer, Transmit, Return
<1>2. CASE toServer' = toServer \o first \o <<Cmd(c, c.op)>>
  BY <1>2, CommandSent DEF Transmit, Return
<1> QED BY <1>1, <1>2 DEF Transmit

LEMMA NextBlockSends ==
  ASSUME TInv, NEW first, first = <<>> \/ first = <<Ack>> \/ (first = <<Nack>> /\ Arrived),
         cur.op \in {"read", "write"}, NextBlock(first)
  PROVE  Sends /\ cur'.op = cur.op /\ pc' \in {"idle", "ack"}
<1>1. CASE cur.blk < cur.blks /\ Transmit(first, [cur EXCEPT !.blk = @ + 1])
  <2> DEFINE c == [cur EXCEPT !.blk = @ + 1]
  <2>1. c \in CurType /\ c.op = cur.op /\ c.no = cur.no
    <3>1. cur \in CurType /\ cur.blk + 1 \in 1 .. Blocks
      BY <1>1, TypeFacts
    <3> QED BY <3>1 DEF CurType
  <2>2. Transmit(first, c)
    BY <1>1
  <2> HIDE DEF c
  <2>3. c.no >= cur.no
    BY <2>1, TypeFacts
  <2> QED BY <2>1, <2>2, <2>3, TransmitSends
<1>2. CASE Return("CL_SUCCESS", view) /\ UNCHANGED cur /\ toServer' = toServer \o first
  BY <1>2, CharsSent DEF Return
<1> QED BY <1>1, <1>2 DEF NextBlock

--------------------------------------------------------------------------
(* CInv is kept by each action.                                            *)

LEMMA CallCalm ==
  ASSUME TInv, TInv', CInv, CallReset \/ CallRun \/ \E n \in 1 .. Blocks : CallRead(n) \/ CallWrite(n)
  PROVE  CInv'
<1>1. CASE CallReset \/ \E n \in 1 .. Blocks : CallRead(n) \/ CallWrite(n)
  <2>1. PICK op \in {"reset", "read", "write"}, n \in 1 .. Blocks :
          Transmit(<<>>, Opens(op, n)) /\ UNCHANGED toHost /\ Keep /\ pc = "idle"
    BY <1>1, TypeFacts DEF CallReset, CallRead, CallWrite, MayCall
  <2>2. Opens(op, n) \in CurType /\ Opens(op, n).op = op /\ Opens(op, n).no >= cur.no
    BY OpensType
  <2> DEFINE c == Opens(op, n)
  <2>3. c \in CurType /\ c.op = op /\ c.no >= cur.no /\ Transmit(<<>>, c)
    BY <2>1, <2>2
  <2> HIDE DEF c
  <2>4. Sends /\ cur' = c /\ pc' \in {"idle", "ack"}
    BY <2>3, TransmitSends
  <2> QED BY <2>1, <2>3, <2>4, ShrinksSame, QuietStep
<1>2. CASE CallRun
  <2> DEFINE c == Opens("run", 1)
  <2>1. c \in CurType /\ c.op = "run" /\ c.no >= cur.no
    BY OpensType, TypeFacts
  <2>2. cur' = c /\ pc' = "idle" /\ pc = "idle" /\ UNCHANGED toHost /\ Keep
        /\ (toServer' = toServer \/ toServer' = Append(toServer, Cmd(c, "run")))
    BY <1>2 DEF CallRun, Return, MayCall
  <2> HIDE DEF c
  <2>3. Sends
    <3>1. CASE toServer' = toServer
      BY <3>1 DEF Sends, InServer
    <3>2. CASE toServer' = Append(toServer, Cmd(c, "run"))
      <4> DEFINE X == ToServer(c.no)
                 x == Cmd(c, c.op)
      <4>1. c.no \in Nat /\ toServer \in Seq(X)
        <5>1. c.no \in Nat
          BY <2>1 DEF CurType
        <5> QED BY <2>1, <5>1, TypeFacts, Widen
      <4>2. x \in X
        <5>1. x \in Commands /\ x.no = c.no
          BY <2>1, CmdType
        <5> QED BY <4>1, <5>1, ServerMessages
      <4>3. toServer' = Append(toServer, x)
        BY <2>1, <3>2
      <4> HIDE DEF X, x
      <4>4. toServer \o <<>> \o <<x>> = Append(toServer, x)
        BY <4>1, <4>2, ConcatAppend
      <4>5. toServer' = toServer \o <<>> \o <<x>>
        BY <4>3, <4>4
      <4> QED BY <2>1, <4>5, CommandSent DEF x
    <3> QED BY <2>2, <3>1, <3>2
  <2> QED BY <2>1, <2>2, <2>3, ShrinksSame, QuietStep
<1> QED BY <1>1, <1>2

LEMMA GetAckCalm ==
  ASSUME TInv, TInv', CInv, GetAck
  PROVE  CInv'
<1>1. cur.op \in {"reset", "read", "write"} /\ pc = "ack" /\ toHost # <<>> /\ Keep
  BY DEF TInv, Waits, GetAck
<1>2. CASE Head(toHost) = Ack /\ toHost' = Tail(toHost) /\ pc' = "reply" /\ UNCHANGED <<cur, ret, view, toServer>>
  <2>1. Sends
    BY <1>2 DEF Sends, InServer
  <2> QED BY <1>1, <1>2, <2>1, ShrinksTail, QuietStep
<1>3. CASE /\ Head(toHost) = Nack /\ toHost' = Tail(toHost)
           /\ toServer' = Append(toServer, Cmd(cur, cur.op)) /\ UNCHANGED <<pc, cur, ret, view>>
  <2> DEFINE X == ToServer(cur.no)
             x == Cmd(cur, cur.op)
  <2>1. toServer \in Seq(X) /\ x \in X /\ toServer' = Append(toServer, x)
    <3>1. x \in Commands /\ x.no = cur.no
      BY <1>1, TypeFacts, CmdType
    <3> QED BY <1>3, <3>1, TypeFacts, ServerMessages
  <2> HIDE DEF X, x
  <2>2. toServer' = toServer \o <<>> \o <<x>>
    BY <2>1, ConcatAppend
  <2>3. Sends
    <3>1. cur \in CurType /\ cur.no >= cur.no /\ cur.op \in {"reset", "read", "write", "run"}
      BY <1>1, TypeFacts
    <3>2. toServer' = toServer \o <<>> \o <<Cmd(cur, cur.op)>>
      BY <2>2 DEF x
    <3> QED BY <3>1, <3>2, CommandSent
  <2> QED BY <1>1, <1>3, <2>3, ShrinksTail, QuietStep
<1>4. CASE IsPacket(Head(toHost)) /\ toHost' = [toHost EXCEPT ![1].cut = @ + 1] /\ NoAck
  <2>1. Len(toHost) \in Nat \ {0} /\ toHost[1] \in Replies
    BY <1>1, <1>4, TypeFacts, TailElements, HostMessages
  <2>2. Shrinks
    <3>1. Len(toHost') = Len(toHost)
      BY <1>4, TypeFacts
    <3>2. toHost'[1] = [toHost[1] EXCEPT !.cut = @ + 1]
      BY <1>4, <2>1, TypeFacts
    <3>3. \A i \in 1 .. Len(toHost) : i # 1 => toHost'[i] = toHost[i]
      BY <1>4, <2>1, TypeFacts
    <3>4. \A i \in 1 .. Len(toHost) : i \in i .. Len(toHost)
      BY <2>1
    <3> QED BY <2>1, <3>1, <3>2, <3>3, <3>4 DEF Shrinks
  <2>3. Sends /\ cur'.op = cur.op /\ pc' \in {"idle", "ack"}
    <3>1. CASE cur.op = "write" /\ NextBlock(<<>>)
      BY <3>1, NextBlockSends
    <3>2. CASE Return("CL_INVALID_DEVICE", view) /\ UNCHANGED <<cur, toServer>>
      BY <3>2 DEF Return, Sends, InServer
    <3> QED BY <1>4, <3>1, <3>2 DEF NoAck
  <2> QED BY <1>1, <2>2, <2>3, QuietStep
<1> QED BY <1>2, <1>3, <1>4 DEF GetAck

LEMMA CallReplyCalm ==
  ASSUME TInv, TInv', CInv, ResetReply \/ ReadReply \/ WriteReply
  PROVE  CInv'
<1>1. pc = "reply" /\ cur.op \in {"reset", "read", "write"} /\ Arrived /\ Take /\ Keep
  BY DEF ResetReply, ReadReply, WriteReply
<1>2. AckChar = <<>> \/ AckChar = <<Ack>> \/ (AckChar = <<Nack>> /\ Arrived)
  BY <1>1, OneChar
<1>3. CASE ResetReply
  <2>1. Sends /\ cur' = cur /\ pc' \in {"reply", "idle"}
    BY <1>1, <1>2, <1>3, CharsSent DEF ResetReply, Return
  <2> QED BY <1>1, <1>3, <2>1, ShrinksTake, QuietStep DEF ResetReply
<1>4. CASE cur.op \in {"read", "write"} /\ NextBlock(AckChar)
  <2>1. Sends /\ cur'.op = cur.op /\ pc' \in {"idle", "ack"}
    BY <1>2, <1>4, NextBlockSends
  <2> QED BY <1>1, <1>4, <2>1, ShrinksTake, QuietStep
<1> QED BY <1>3, <1>4 DEF ReadReply, WriteReply

LEMMA AllAcks ==
  ASSUME NEW s \in Seq({Ack})
  PROVE  Range(s) \subseteq {Ack} /\ Append(s, Ack) \in Seq({Ack})
<1>1. Append(s, Ack) \in Seq({Ack})
  BY AppendElements
<1> QED BY <1>1, RangeOf

\* While the target runs, nothing has been sent that the connection could spoil.
LEMMA RunningUnspoiled ==
  ASSUME TInv, Running
  PROVE  NothingSpoiled /\ NoTransfer
<1>1. \A x \in Noise : x # Nack
  BY HostMessages, CommandTypes DEF Noise
<1>2. CASE InOrder(toServer, {Ack}, Runs, {}) /\ toHost = <<>>
  <2>1. InServer \subseteq {Ack} \cup Runs
    BY <1>2, TypeFacts, InOrderElements DEF InServer
  <2>2. InHost = {}
    BY <1>2, RangeOf, TypeFacts DEF InHost
  <2> QED BY <2>1, <2>2, CommandTypes DEF NothingSpoiled, NoTransfer, Runs
<1>3. CASE toServer \in Seq({Ack}) /\ toHost \in Seq(Noise)
  <2>1. InServer \subseteq {Ack} /\ InHost \subseteq Noise
    BY <1>3, AllAcks, RangeOf DEF InServer, InHost
  <2> QED BY <1>1, <2>1, CommandTypes DEF NothingSpoiled, NoTransfer
<1> QED BY <1>2, <1>3 DEF Running

LEMMA CallStopCalm ==
  ASSUME TInv, TInv', CInv, AInv, CallStop
  PROVE  CInv'
<1> SUFFICES ASSUME Calm' PROVE CInv'
  BY DEF CInv
<1>1. /\ UNCHANGED <<world, link, corrupted, lastReply, target, toHost>> /\ Calm /\ link = "up"
      /\ pc = "idle" /\ view = "running" /\ pc' = "stop"
  BY CalmBefore DEF Keep, server, CallStop, MayCall, Calm
<1>2. toServer' = Append(toServer, Etx)
  BY <1>1 DEF CallStop
<1> DEFINE X == ToServer(cur.no)
<1>3. toServer \in Seq(X) /\ Etx \in X
  BY TypeFacts, ServerMessages
<1> HIDE DEF X
<1>4. InServer' = InServer \cup {Etx}
  BY <1>2, <1>3, RangeAppend DEF InServer
<1>5. InHost' = InHost
  BY <1>1 DEF InHost
<1>6. AnswersWhole /\ (corrupted = 0 => NothingSpoiled) /\ NoEcho /\ InServer \cap Empties = {}
  BY <1>1 DEF CInv
<1>7. GoodAnswers => NothingSpoiled /\ NoTransfer
  BY <1>1, RunningUnspoiled DEF AInv
<1>8. NothingSpoiled' /\ (GoodAnswers' => NoTransfer')
  <2>1. NothingSpoiled /\ (GoodAnswers' => NoTransfer)
    BY <1>1, <1>6, <1>7 DEF Calm, GoodAnswers
  <2> QED BY <1>4, <1>5, <2>1, CommandTypes DEF NothingSpoiled, NoTransfer
<1>9. AnswersWhole'
  BY <1>1, <1>6, ShrinksSame, ShrinksKeeps
<1>10. NoEcho' /\ (InServer \cap Empties)' = {}
  <2>1. Etx # Nack /\ Etx \notin Empties
    BY CommandTypes DEF Empties
  <2> QED BY <1>1, <1>4, <1>5, <1>6, <2>1 DEF NoEcho, MayEcho
<1>11. Settles(toServer, target, Len(toServer))'
  <2>1. Settles(Append(toServer, Etx), target, Len(toServer) + 1)
    BY <1>3, SettlesEtx
  <2>2. Len(toServer') = Len(toServer) + 1
    BY <1>2, <1>3, AppendElements
  <2> QED BY <1>1, <1>2, <2>1, <2>2
<1> QED BY <1>1, <1>8, <1>9, <1>10, <1>11 DEF CInv

\* Whole answers stay whole when one is taken.
LEMMA TakeWhole ==
  ASSUME TInv, TInv', AnswersWhole, Arrived, Take, UNCHANGED lastReply
  PROVE  AnswersWhole'
<1>1. \A x \in InHost' : \E i \in 2 .. Len(toHost) : x = toHost[i] /\ toHost[i] \in InHost
  <2>1. ASSUME NEW x \in InHost' PROVE \E i \in 2 .. Len(toHost) : x = toHost[i] /\ toHost[i] \in InHost
    <3>1. PICK i \in 1 .. Len(toHost') : x = toHost'[i]
      BY QueueElementsNext
    <3>2. First \in 1 .. Len(toHost) /\ Len(toHost') = Len(toHost) - First /\ Len(toHost) \in Nat
          /\ \A k \in 1 .. Len(toHost) - First : toHost'[k] = toHost[First + k]
      BY TypeFacts, TakeFirst, TakeElements
    <3>3. First + i \in 2 .. Len(toHost) /\ First + i \in 1 .. Len(toHost) /\ x = toHost[First + i]
      BY <3>1, <3>2
    <3>4. toHost[First + i] \in InHost
      BY <3>3, TypeFacts, RangeOf DEF InHost
    <3> QED BY <3>3, <3>4
  <2> QED BY <2>1
<1>2. \A i \in 2 .. Len(toHost) : i \in 1 .. Len(toHost) /\ i > 1
  OBVIOUS
<1>3. ASSUME NEW x \in InHost', x \in Replies PROVE x.ok /\ x.cut = 0
  BY <1>1, <1>2, <1>3 DEF AnswersWhole
<1>4. \A i \in 1 .. Len(toHost') : toHost'[i] \in InHost'
  BY QueueElementsNext
<1> QED BY <1>3, <1>4 DEF AnswersWhole, Intact

\* What answers the packet taken.
LEMMA CharOf ==
  ASSUME TInv
  PROVE  \E c \in {Ack, Nack} :
           /\ c \in ToServer(cur.no) /\ AckChar = <<c>> /\ (Clean <=> c = Ack)
           /\ toServer \o AckChar = Append(toServer, c) /\ toServer \in Seq(ToServer(cur.no))
<1> DEFINE c == IF Clean THEN Ack ELSE Nack
           X == ToServer(cur.no)
<1>1. Ack # Nack /\ Ack \in X /\ Nack \in X /\ toServer \in Seq(X)
  BY TypeFacts, ServerMessages, CommandTypes
<1> HIDE DEF X
<1>2. toServer \o <<c>> = Append(toServer, c)
  BY <1>1, ConcatAppend
<1> QED BY <1>1, <1>2 DEF AckChar, X

LEMMA StopReplyCalm ==
  ASSUME TInv, TInv', CInv, StopReply
  PROVE  CInv'
<1> SUFFICES ASSUME Calm' PROVE CInv'
  BY DEF CInv
<1>1. /\ UNCHANGED <<world, link, corrupted, lastReply, target, cur>> /\ Calm
      /\ pc = "stop" /\ cur.op = "stop" /\ Arrived /\ Take
  BY CalmBefore DEF Keep, server, StopReply, TInv, Waits
<1>2. /\ AnswersWhole /\ NothingSpoiled /\ (GoodAnswers => NoTransfer) /\ NoEcho
      /\ InServer \cap Empties = {} /\ Settles(toServer, target, Len(toServer))
  BY <1>1 DEF CInv
<1>3. AnswersWhole' /\ Shrinks
  BY <1>1, <1>2, TakeWhole, ShrinksTake
<1>4. lastReply.ans # ""
  BY <1>1, <1>2, QueueElements DEF NoEcho, MayEcho
<1>5. NoEcho' /\ (Nack \notin InHost)'
  BY <1>1, <1>2, <1>3, <1>4, ShrinksKeeps DEF NoEcho, MayEcho, NothingSpoiled
<1>6. PICK c \in {Ack, Nack} :
        /\ c \in ToServer(cur.no) /\ AckChar = <<c>> /\ (Clean <=> c = Ack)
        /\ toServer \o AckChar = Append(toServer, c) /\ toServer \in Seq(ToServer(cur.no))
  BY CharOf
<1> DEFINE X == ToServer(cur.no)
           q == Append(toServer, c)
<1>7. c \in X /\ toServer \in Seq(X) /\ q = toServer \o AckChar
  BY <1>6
<1>8. \A x \in Commands : x # c
  BY CommandTypes
<1> HIDE DEF X
<1>9. q \in Seq(X) /\ Len(q) = Len(toServer) + 1 /\ Range(q) = InServer \cup {c} /\ Len(toServer) \in Nat
      /\ Settles(q, target, Len(q))
  <2>1. q \in Seq(X) /\ Len(q) = Len(toServer) + 1 /\ Range(q) = InServer \cup {c}
    <3>1. q \in Seq(X) /\ Len(q) = Len(toServer) + 1
      BY <1>7, AppendElements
    <3>2. Range(q) = Range(toServer) \cup {c}
      <4>1. toServer \in Seq(X) /\ c \in X
        BY <1>7
      <4> QED BY <4>1, RangeAppend
    <3> QED BY <3>1, <3>2 DEF InServer
  <2>2. Len(toServer) \in Nat /\ Len(toServer) \in 0 .. Len(toServer)
    BY <1>7
  <2>3. Settles(q, target, Len(toServer) + 1)
    BY <1>2, <1>7, <2>2, SettlesAppend
  <2> QED BY <2>1, <2>2, <2>3
<1> HIDE DEF q
<1>10. CASE toServer' = toServer \o AckChar /\ UNCHANGED pc
  <2>1. toServer' = q /\ InServer' = InServer \cup {c}
    BY <1>7, <1>9, <1>10 DEF InServer
  <2>2. NothingSpoiled' /\ (GoodAnswers' => NoTransfer') /\ (InServer \cap Empties)' = {}
    BY <1>1, <1>2, <1>5, <1>8, <2>1 DEF NothingSpoiled, NoTransfer, Empties, GoodAnswers
  <2> QED BY <1>1, <1>3, <1>5, <1>9, <1>10, <2>1, <2>2 DEF CInv
<1>11. CASE Answer = "T" /\ pc' = "empty" /\ toServer' = toServer \o AckChar \o <<Cmd(cur, "empty")>>
  <2> DEFINE x == Cmd(cur, "empty")
             m == Len(q) + 1
  <2>1. x \in X /\ x \in Empties /\ x.ok /\ x.cmd = "empty"
    BY TypeFacts, CmdType, ServerMessages DEF X, Empties
  <2>2. toServer' = q \o <<x>>
    BY <1>7, <1>11
  <2> HIDE DEF x
  <2>3. toServer' = Append(q, x)
    BY <1>9, <2>1, <2>2, ConcatAppend
  <2>4. InServer' = InServer \cup {c} \cup {x}
    BY <1>9, <2>1, <2>3, RangeAppend DEF InServer
  <2>5. NothingSpoiled' /\ (GoodAnswers' => NoTransfer')
    BY <1>1, <1>2, <1>5, <1>8, <2>1, <2>4 DEF NothingSpoiled, NoTransfer, GoodAnswers
  <2>6. Len(toServer') = m /\ toServer'[m] = x /\ \A i \in 1 .. Len(q) : toServer'[i] = q[i]
    BY <1>9, <2>1, <2>3, AppendElements
  <2>7. Settles(toServer', target, Len(q))
    <3>1. Len(q) \in 0 .. Len(q)
      BY <1>9
    <3> QED BY <1>9, <2>1, <2>3, <3>1, SettlesAppend
  <2>8. \A i \in 1 .. Len(q) : q[i] \notin Empties
    BY <1>2, <1>8, <1>9, RangeOf DEF Empties
  <2>9. m \in 1 .. Len(toServer') /\ m - 1 = Len(q) /\ \A i \in m + 1 .. Len(toServer') : FALSE
    BY <1>9, <2>6
  <2> HIDE DEF m
  <2>10. EmptySent'
    BY <1>1, <2>1, <2>6, <2>7, <2>8, <2>9 DEF EmptySent
  <2> QED BY <1>1, <1>3, <1>5, <1>11, <2>5, <2>10 DEF CInv
<1> QED BY <1>10, <1>11 DEF StopReply

LEMMA DiscardAllCalm ==
  ASSUME TInv, TInv', CInv, DiscardAll
  PROVE  CInv'
<1> SUFFICES ASSUME Calm' PROVE CInv'
  BY DEF CInv
<1>1. /\ UNCHANGED <<world, link, corrupted, lastReply, target, cur>> /\ Calm
      /\ pc = "empty" /\ Arrived /\ Take /\ toServer' = toServer \o AckChar
  BY CalmBefore DEF Keep, server, DiscardAll
<1>2. /\ AnswersWhole /\ NothingSpoiled /\ (GoodAnswers => NoTransfer)
      /\ (EmptySent /\ NoEcho) \/ EmptyAnswered
  BY <1>1 DEF CInv
<1>3. AnswersWhole' /\ Shrinks
  BY <1>1, <1>2, TakeWhole, ShrinksTake
<1>4. Clean /\ Next1 \in InHost /\ Next1 \in Replies
  <2>1. Next1 \in InHost /\ Next1 \in Replies
    BY <1>1, TakeFirst
  <2>2. Next1.ok /\ Next1.cut = 0
    BY <1>1, <1>2, <2>1 DEF AnswersWhole
  <2> QED BY <1>1, <1>2, <2>1, <2>2, TakeFirst DEF NothingSpoiled
<1>5. Answer = Next1.ans
  BY <1>4 DEF Answer, Clean
<1> DEFINE X == ToServer(cur.no)
<1>6. toServer' = Append(toServer, Ack) /\ toServer \in Seq(X) /\ Ack \in X /\ AckChar = <<Ack>>
  BY <1>1, <1>4, CharOf
<1>7. Sends
  BY <1>1, <1>6, CharsSent
<1> HIDE DEF X
<1>8. InServer' = InServer \cup {Ack}
  BY <1>6, RangeAppend DEF InServer
<1>9. NothingSpoiled' /\ (GoodAnswers' => NoTransfer')
  <2>1. NoTransfer => NoTransfer'
    BY <1>8, CommandTypes DEF NoTransfer
  <2> QED BY <1>1, <1>2, <1>3, <1>7, <2>1, SendsKeeps DEF GoodAnswers
<1>10. CASE EmptySent /\ NoEcho
  <2>1. pc' = pc
    BY <1>4, <1>5, <1>10 DEF DiscardAll, NoEcho, Echoes
  <2>2. NoEcho'
    BY <1>1, <1>3, <1>7, <1>10, SendsKeeps
  <2>3. PICK m \in 1 .. Len(toServer) :
          /\ toServer[m] \in Empties
          /\ \A i \in 1 .. m - 1 : toServer[i] \notin Empties
          /\ \A i \in m + 1 .. Len(toServer) : toServer[i] = Ack
          /\ cur.op = "stop" => Settles(toServer, target, m - 1)
    BY <1>10 DEF EmptySent
  <2>4. /\ Len(toServer') = Len(toServer) + 1 /\ toServer'[Len(toServer) + 1] = Ack /\ Len(toServer) \in Nat
        /\ \A i \in 1 .. Len(toServer) : toServer'[i] = toServer[i]
    BY <1>6, AppendElements
  <2>5. m \in 1 .. Len(toServer') /\ toServer'[m] \in Empties
    BY <2>3, <2>4
  <2>6. \A i \in 1 .. m - 1 : toServer'[i] \notin Empties
    BY <2>3, <2>4
  <2>7. \A i \in m + 1 .. Len(toServer') : toServer'[i] = Ack
    <3> TAKE i \in m + 1 .. Len(toServer')
    <3>1. i = Len(toServer) + 1 \/ (i \in m + 1 .. Len(toServer) /\ i \in 1 .. Len(toServer))
      BY <2>4
    <3> QED BY <2>3, <2>4, <3>1
  <2>8. cur'.op = "stop" => Settles(toServer', target', m - 1)
    <3>1. m - 1 \in 0 .. Len(toServer)
      BY <2>4
    <3> QED BY <1>1, <1>6, <2>3, <3>1, SettlesAppend
  <2>9. EmptySent'
    BY <2>5, <2>6, <2>7, <2>8 DEF EmptySent
  <2> QED BY <1>1, <1>3, <1>9, <2>1, <2>2, <2>9 DEF CInv
<1>11. CASE EmptyAnswered
  <2>1. toServer' \in Seq({Ack}) /\ InServer' \subseteq {Ack}
    BY <1>6, <1>8, <1>11, AllAcks DEF EmptyAnswered, InServer
  <2>2. \/ Next1 \notin Echoes /\ InOrder(toHost', ToHost \ Echoes, Echoes, {})
        \/ Next1 \in Echoes /\ toHost' = <<>>
    <3>1. Echoes \subseteq Replies
      BY DEF Echoes
    <3> QED BY <1>1, <1>11, <3>1, TakeInOrder DEF EmptyAnswered
  <2>3. CASE Next1 \notin Echoes /\ InOrder(toHost', ToHost \ Echoes, Echoes, {})
    <3>1. pc' = pc
      BY <1>4, <1>5, <2>3 DEF DiscardAll, Echoes
    <3>2. EmptyAnswered'
      BY <1>1, <1>11, <2>1, <2>3 DEF EmptyAnswered
    <3> QED BY <1>1, <1>3, <1>9, <3>1, <3>2 DEF CInv
  <2>4. CASE Next1 \in Echoes /\ toHost' = <<>>
    <3>1. pc' = "idle"
      BY <1>5, <2>4 DEF DiscardAll, Echoes, Return
    <3>2. InHost' = {}
      BY <2>4, QueueElementsNext
    <3>3. NoEcho' /\ (InServer \cap Empties)' = {}
      BY <2>1, <3>2, CommandTypes DEF NoEcho, MayEcho, Empties
    <3>4. cur'.op = "stop" => target' = "halted"
      BY <1>1, <1>11 DEF EmptyAnswered
    <3> QED BY <1>1, <1>3, <1>9, <2>1, <2>4, <3>1, <3>3, <3>4 DEF CInv
  <2> QED BY <2>2, <2>3, <2>4
<1> QED BY <1>2, <1>10, <1>11

\* What the server does with the message x, and what it says to it.
Given(x, answers) ==
  \/ x = Ack /\ answers = <<>> /\ UNCHANGED <<target, contd, dmem>>
  \/ x = Nack /\ answers = <<lastReply>> /\ UNCHANGED <<target, contd, dmem>>
  \/ /\ x = Etx /\ target' = "halted" /\ contd' = 0 /\ dmem' = dmem
     /\ answers = <<>> \/ answers = <<Ans("T", contd, 0, Old)>>
  \/ x \in Commands /\ ~x.ok /\ answers = <<Nack>> /\ UNCHANGED <<target, contd, dmem>>
  \/ x \in Commands /\ x.ok /\ Served(x, answers)

LEMMA StopAnswer ==
  ASSUME TInv, NEW a \in {"T", "O"}
  PROVE  /\ Ans(a, contd, 0, Old) \in ToHost /\ Intact(Ans(a, contd, 0, Old))
         /\ Ans(a, contd, 0, Old).ans = a
<1>1. contd \in Nat /\ 0 \in 0 .. Blocks /\ Old \in Values
  BY TypeFacts, ValueTypes DEF ServerTypes
<1>2. Ans(a, contd, 0, Old) \in ToHost /\ Intact(Ans(a, contd, 0, Old))
  BY <1>1, AnsIntact
<1>3. Ans(a, contd, 0, Old).ans = a
  BY DEF Ans
<1> QED BY <1>2, <1>3

\* Every message the server takes has the answers Given names.
LEMMA ServerAnswers ==
  ASSUME TInv, ServerTakes
  PROVE  \E answers \in Seq(ToHost) : Says(answers) /\ Given(Head(toServer), answers)
<1> DEFINE x == Head(toServer)
<1>1. toServer # <<>> /\ x \in ToServer(cur.no)
  BY TypeFacts, TailElements DEF ServerTakes
<1>2. toHost \in Seq(ToHost) /\ lastReply \in ToHost /\ Nack \in ToHost
  BY TypeFacts, HostMessages DEF ServerTypes
<1>3. <<>> \in Seq(ToHost) /\ (toHost' = toHost /\ lastReply' = lastReply => Says(<<>>))
  <2>1. toHost \o <<>> = toHost
    BY <1>2, HostMessages, ConcatAppend
  <2> QED BY <2>1 DEF Says
<1> HIDE DEF x
<1>4. CASE x = Ack /\ UNCHANGED <<toHost, target, contd, dmem, lastReply>>
  <2>1. Says(<<>>) /\ Given(x, <<>>)
    BY <1>3, <1>4 DEF Given
  <2> QED BY <1>3, <2>1 DEF x
<1>5. CASE x = Nack /\ Says(<<lastReply>>) /\ UNCHANGED <<target, contd, dmem>>
  <2>1. <<lastReply>> \in Seq(ToHost) /\ Given(x, <<lastReply>>)
    BY <1>2, <1>5 DEF Given
  <2> QED BY <1>5, <2>1 DEF x
<1>6. CASE x = Etx /\ Says(StopReplies) /\ target' = "halted" /\ contd' = 0 /\ UNCHANGED dmem
  <2>1. StopReplies \in Seq(ToHost)
    BY StopRepliesTypes
  <2>2. Given(x, StopReplies)
    BY <1>6 DEF Given, StopReplies
  <2> QED BY <1>6, <2>1, <2>2 DEF x
<1>7. CASE x = Etx /\ target = "halted" /\ UNCHANGED <<toHost, target, contd, dmem, lastReply>>
  <2>1. contd = 0
    BY <1>7 DEF TInv, Waits
  <2>2. Says(<<>>) /\ Given(x, <<>>)
    BY <1>3, <1>7, <2>1 DEF Given
  <2> QED BY <1>3, <2>2 DEF x
<1>8. CASE IsPacket(x) /\ ~x.ok /\ Says(<<Nack>>) /\ UNCHANGED <<target, contd, dmem>>
  <2>1. x \in Commands
    BY <1>1, <1>8, TypeFacts, ServerMessages
  <2>2. <<Nack>> \in Seq(ToHost) /\ Given(x, <<Nack>>)
    BY <1>2, <1>8, <2>1 DEF Given
  <2> QED BY <1>8, <2>2 DEF x
<1>9. CASE IsPacket(x) /\ x.ok /\ Serve(x)
  <2>1. x \in Commands
    BY <1>1, <1>9, TypeFacts, ServerMessages
  <2>2. x.no <= cur.no
    BY <1>1, <2>1, CommandTypes DEF ToServer
  <2>3. PICK answers \in Seq(ToHost) : Says(answers) /\ Served(x, answers)
    BY <1>9, <2>1, <2>2, ServeAnswers
  <2>4. Given(x, answers)
    BY <1>9, <2>1, <2>3 DEF Given
  <2> QED BY <2>3, <2>4 DEF x
<1> QED BY <1>4, <1>5, <1>6, <1>7, <1>8, <1>9 DEF ServerTakes, x

\* A tuple of one message.
LEMMA OneOf == \A x : Len(<<x>>) = 1 /\ <<x>>[1] = x /\ <<x>> # <<>> /\ \A i \in 1 .. Len(<<x>>) : i = 1
  OBVIOUS

LEMMA TwoOrThree == \A n \in 2 .. 3 :
  n \in 2 .. n /\ n # 0 /\ \A i \in 2 .. n : i = n \/ (i = 2 /\ n = 3)
  OBVIOUS

LEMMA AnsField ==
  ASSUME NEW z, NEW a, NEW no, NEW blk, NEW val, z = Ans(a, no, blk, val)
  PROVE  z.ans = a
  BY DEF Ans

\* How many answers a command has, and what the last one says.
LEMMA ServedShape ==
  ASSUME NEW x, NEW answers, Served(x, answers)
  PROVE  \/ x.cmd = "run" /\ Len(answers) = 1
         \/ x.cmd = "empty" /\ Len(answers) = 2 /\ answers[2].ans = ""
         \/ /\ x.cmd = "reset" /\ Len(answers) \in 2 .. 3 /\ answers[Len(answers)].ans = "OK"
            /\ Len(answers) = 3 => answers[2].ans = "T"
         \/ x.cmd \in {"read", "write"} /\ Len(answers) = 2 /\ answers[2].ans \in {"OK", "E", "data"}
<1>2. CASE x.cmd = "reset" /\ answers[Len(answers)] = Ans("OK", x.no, x.blk, Old)
           /\ Len(answers) \in 2 .. 3 /\ (Len(answers) = 3 => answers[2].ans = "T")
  BY <1>2 DEF Ans
<1>3. CASE x.cmd = "empty" /\ Len(answers) = 2 /\ answers[2] = Ans("", x.no, x.blk, Old)
  <2>1. answers[2].ans = ""
    BY <1>3, AnsField
  <2> QED BY <1>3, <2>1, Zenon
<1>4. CASE x.cmd = "read" /\ Len(answers) = 2 /\ answers[2] = Ans("data", x.no, x.blk, dmem[x.blk])
  <2>1. answers[2].ans = "data"
    BY <1>4 DEF Ans
  <2> QED BY <1>4, <2>1
<1>5. CASE x.cmd = "write" /\ Len(answers) = 2 /\ answers[2] = Ans("OK", x.no, x.blk, Old)
  BY <1>5 DEF Ans
<1>6. CASE x.cmd \in {"read", "write"} /\ Len(answers) = 2 /\ answers[2] = Ans("E", x.no, x.blk, Old)
  <2>1. answers[2].ans = "E"
    BY <1>6 DEF Ans
  <2> QED BY <1>6, <2>1
<1>7. CASE x.cmd = "run" /\ Len(answers) = 1
  BY <1>7
<1> QED BY <1>2, <1>3, <1>4, <1>5, <1>6, <1>7 DEF Served

\* A packet is the last thing said, if one is said at all.
EndsSaying(answers) ==
  Range(answers) \cap Replies = {} \/ (answers # <<>> /\ answers[Len(answers)] \in Replies)

\* What the rest of the proof needs to know of the answers to a message.
LEMMA GivenFacts ==
  ASSUME TInv, NEW x, NEW answers \in Seq(ToHost), Given(x, answers), Intact(lastReply)
  PROVE  /\ \A y \in Range(answers) \cap Replies : Intact(y)
         /\ EndsSaying(answers)
         /\ Nack \in Range(answers) => x \in Commands /\ ~x.ok
         /\ \A y \in Range(answers) \cap Echoes : x \in Empties \/ (x = Nack /\ lastReply.ans = "")
         /\ x = Etx => target' = "halted"
         /\ x \in {Ack, Nack} => target' = target
<1> USE DEF EndsSaying
<1>1. \A y : y \in Range(answers) <=> \E i \in 1 .. Len(answers) : y = answers[i]
  BY RangeOf
<1>2. /\ \A y \in Replies : y # Ack /\ y # Nack
      /\ \A y \in Commands : y # Ack /\ y # Nack /\ y # Etx
      /\ Ack # Nack /\ Ack # Etx /\ Nack # Etx
  BY HostMessages, CommandTypes
<1>3. CASE x = Ack /\ answers = <<>> /\ UNCHANGED <<target, contd, dmem>>
  <2>1. Range(answers) = {}
    BY <1>3, RangeOf
  <2> QED BY <1>2, <1>3, <2>1
<1>4. CASE x = Nack /\ answers = <<lastReply>> /\ UNCHANGED <<target, contd, dmem>>
  <2>1. lastReply \in Replies /\ \A y \in Range(answers) : y = lastReply
    BY <1>1, <1>4, OneOf DEF Intact
  <2>2. answers # <<>> /\ answers[Len(answers)] = lastReply
    BY <1>4, OneOf
  <2> QED BY <1>2, <1>4, <2>1, <2>2 DEF Echoes
<1>5. CASE /\ x = Etx /\ target' = "halted"
           /\ answers = <<>> \/ answers = <<Ans("T", contd, 0, Old)>>
  <2> DEFINE t == Ans("T", contd, 0, Old)
  <2>1. t \in ToHost /\ Intact(t) /\ t.ans = "T"
    BY StopAnswer
  <2> HIDE DEF t
  <2>2. CASE answers = <<>>
    <3>1. Range(answers) = {}
      BY <2>2, RangeOf
    <3> QED BY <1>2, <1>5, <3>1
  <2>3. CASE answers = <<t>>
    <3>1. \A y \in Range(answers) : y = t
      BY <1>1, <2>3, OneOf
    <3>2. answers # <<>> /\ answers[Len(answers)] = t /\ t \in Replies /\ t \notin Echoes
      BY <2>1, <2>3, OneOf DEF Intact, Echoes
    <3> QED BY <1>2, <1>5, <2>1, <3>1, <3>2
  <2> QED BY <1>5, <2>2, <2>3 DEF t
<1>6. CASE x \in Commands /\ ~x.ok /\ answers = <<Nack>> /\ UNCHANGED <<target, contd, dmem>>
  <2>1. \A y \in Range(answers) : y = Nack
    BY <1>1, <1>6, OneOf
  <2> QED BY <1>2, <1>6, <2>1 DEF Echoes
<1>7. CASE x \in Commands /\ x.ok /\ Served(x, answers)
  <2>1. answers[1] = Ack /\ \A i \in 2 .. Len(answers) : Intact(answers[i])
    BY <1>7 DEF Served
  <2>2. \A y \in Range(answers) : y = Ack \/ Intact(y)
    <3>1. \A i \in 1 .. Len(answers) : i = 1 \/ i \in 2 .. Len(answers)
      BY TypeFacts
    <3> QED BY <1>1, <2>1, <3>1
  <2>3. Nack \notin Range(answers)
    BY <1>2, <2>2 DEF Intact
  <2>4. EndsSaying(answers)
    <3>1. CASE Len(answers) = 1
      <4>1. \A i \in 1 .. Len(answers) : i = 1
        BY <3>1
      <4>2. \A y \in Range(answers) : y = Ack
        BY <1>1, <2>1, <4>1
      <4> QED BY <1>2, <4>2
    <3>2. CASE Len(answers) \in 2 .. 3
      <4>1. Len(answers) \in 2 .. Len(answers) /\ Len(answers) # 0
        BY <3>2, TwoOrThree
      <4>2. answers # <<>>
        BY <4>1
      <4>3. answers[Len(answers)] \in Replies
        BY <2>1, <4>1 DEF Intact
      <4> QED BY <4>2, <4>3
    <3>3. Len(answers) = 1 \/ Len(answers) = 2 \/ Len(answers) \in 2 .. 3
      BY <1>7, ServedShape
    <3>4. 2 \in 2 .. 3
      OBVIOUS
    <3> QED BY <3>1, <3>2, <3>3, <3>4
  <2>5. ASSUME NEW y \in Range(answers), y \in Echoes PROVE x \in Empties
    <3>1. PICK i \in 2 .. Len(answers) : y = answers[i]
      <4>1. PICK i \in 1 .. Len(answers) : y = answers[i]
        BY <1>1
      <4>2. i # 1
        BY <1>2, <2>1, <2>5, <4>1 DEF Echoes
      <4>3. i \in 2 .. Len(answers)
        BY <4>2
      <4> QED BY <4>1, <4>3
    <3>2. y.ans = ""
      BY <2>5 DEF Echoes
    <3>3. CASE x.cmd = "empty"
      BY <1>7, <3>3 DEF Empties
    <3>4. CASE x.cmd # "empty"
      <4>1. CASE Len(answers) = 1
        BY <4>1
      <4>2. CASE Len(answers) = 2 /\ answers[2].ans \in {"OK", "E", "data"}
        <5>1. i = 2
          BY <4>2, TwoOrThree
        <5> QED BY <3>1, <3>2, <4>2, <5>1
      <4>3. CASE /\ Len(answers) \in 2 .. 3 /\ answers[Len(answers)].ans = "OK"
                 /\ Len(answers) = 3 => answers[2].ans = "T"
        <5>1. i = Len(answers) \/ (i = 2 /\ Len(answers) = 3)
          BY <4>3, TwoOrThree
        <5> QED BY <3>1, <3>2, <4>3, <5>1
      <4> QED BY <1>7, <3>4, <4>1, <4>2, <4>3, ServedShape
    <3> QED BY <3>3, <3>4
  <2> QED BY <1>2, <1>7, <2>2, <2>3, <2>4, <2>5
<1> QED BY <1>3, <1>4, <1>5, <1>6, <1>7 DEF Given

\* What is said goes to the end of toHost.
LEMMA SaysElements ==
  ASSUME TInv, TInv', NEW answers \in Seq(ToHost), Says(answers)
  PROVE  /\ InHost' = InHost \cup Range(answers)
         /\ \A i \in 1 .. Len(toHost') : \/ i \in 1 .. Len(toHost) /\ toHost'[i] = toHost[i]
                                         \/ toHost'[i] \in Range(answers)
         /\ lastReply' = IF answers # <<>> /\ answers[Len(answers)] \in Replies
                         THEN answers[Len(answers)] ELSE lastReply
<1>1. /\ Len(toHost') = Len(toHost) + Len(answers) /\ Len(toHost) \in Nat /\ Len(answers) \in Nat
      /\ \A i \in 1 .. Len(toHost) : toHost'[i] = toHost[i]
      /\ \A i \in 1 .. Len(answers) : toHost'[Len(toHost) + i] = answers[i]
  BY SaysGrows, TypeFacts DEF HostGrows
<1>2. /\ \A x : x \in InHost <=> \E i \in 1 .. Len(toHost) : x = toHost[i]
      /\ \A x : x \in InHost' <=> \E i \in 1 .. Len(toHost') : x = toHost'[i]
      /\ \A x : x \in Range(answers) <=> \E i \in 1 .. Len(answers) : x = answers[i]
  BY RangeOf, TypeFacts, QueueElementsNext DEF InHost
<1>3. \A i \in 1 .. Len(toHost') : \/ i \in 1 .. Len(toHost) /\ toHost'[i] = toHost[i]
                                   \/ toHost'[i] \in Range(answers)
  <2> TAKE i \in 1 .. Len(toHost')
  <2>1. CASE i \in 1 .. Len(toHost)
    BY <1>1, <2>1
  <2>2. CASE i \notin 1 .. Len(toHost)
    <3>1. i - Len(toHost) \in 1 .. Len(answers) /\ i = Len(toHost) + (i - Len(toHost))
      BY <1>1, <2>2
    <3> QED BY <1>1, <1>2, <3>1
  <2> QED BY <2>1, <2>2
<1>4. InHost' \subseteq InHost \cup Range(answers)
  BY <1>2, <1>3
<1>5. InHost \cup Range(answers) \subseteq InHost'
  <2>1. ASSUME NEW x \in InHost PROVE x \in InHost'
    <3>1. PICK i \in 1 .. Len(toHost) : x = toHost[i]
      BY <1>2
    <3>2. i \in 1 .. Len(toHost') /\ x = toHost'[i]
      BY <1>1, <3>1
    <3> QED BY <1>2, <3>2
  <2>2. ASSUME NEW x \in Range(answers) PROVE x \in InHost'
    <3>1. PICK i \in 1 .. Len(answers) : x = answers[i]
      BY <1>2
    <3>2. Len(toHost) + i \in 1 .. Len(toHost') /\ x = toHost'[Len(toHost) + i]
      BY <1>1, <3>1
    <3> QED BY <1>2, <3>2
  <2> QED BY <2>1, <2>2
<1>6. lastReply' = IF answers # <<>> /\ answers[Len(answers)] \in Replies
                   THEN answers[Len(answers)] ELSE lastReply
  <2>1. answers # <<>> => (IsPacket(answers[Len(answers)]) <=> answers[Len(answers)] \in Replies)
    <3>1. answers # <<>> => answers[Len(answers)] \in ToHost
      OBVIOUS
    <3> QED BY <3>1, HostMessages
  <2> QED BY <2>1, SaysGrows
<1> QED BY <1>3, <1>4, <1>5, <1>6

\* What the server says spoils nothing and echoes no empty answer.
LEMMA SaidCalm ==
  ASSUME TInv, TInv', NEW answers \in Seq(ToHost), Says(answers), EndsSaying(answers),
         \A y \in Range(answers) \cap Replies : Intact(y), UNCHANGED host, InServer' \subseteq InServer
  PROVE  /\ AnswersWhole => AnswersWhole'
         /\ NothingSpoiled /\ Nack \notin Range(answers) => NothingSpoiled'
         /\ NoTransfer => NoTransfer'
         /\ NoEcho /\ Range(answers) \cap Echoes = {} => NoEcho'
         /\ InServer \cap Empties = {} => (InServer \cap Empties)' = {}
<1>1. /\ InHost' = InHost \cup Range(answers)
      /\ \A i \in 1 .. Len(toHost') : \/ i \in 1 .. Len(toHost) /\ toHost'[i] = toHost[i]
                                      \/ toHost'[i] \in Range(answers)
      /\ lastReply' = IF answers # <<>> /\ answers[Len(answers)] \in Replies
                      THEN answers[Len(answers)] ELSE lastReply
  BY SaysElements
<1>2. answers # <<>> => answers[Len(answers)] \in Range(answers)
  <2>1. answers # <<>> => Len(answers) \in 1 .. Len(answers)
    OBVIOUS
  <2> QED BY <2>1, RangeOf
<1>3. pc' = pc
  BY DEF host
<1>4. ASSUME AnswersWhole PROVE AnswersWhole'
  <2>1. Intact(lastReply')
    BY <1>1, <1>2, <1>4 DEF AnswersWhole
  <2>2. \A x \in InHost' \cap Replies : x.ok
    BY <1>1, <1>4 DEF AnswersWhole, Intact
  <2>3. pc' = "empty" => \A x \in InHost' \cap Replies : x.cut = 0
    BY <1>1, <1>3, <1>4 DEF AnswersWhole, Intact
  <2>4. \A i \in 1 .. Len(toHost') : i > 1 /\ toHost'[i] \in Replies => toHost'[i].cut = 0
    BY <1>1, <1>4 DEF AnswersWhole, Intact
  <2> QED BY <2>1, <2>2, <2>3, <2>4 DEF AnswersWhole
<1>5. NothingSpoiled /\ Nack \notin Range(answers) => NothingSpoiled'
  BY <1>1 DEF NothingSpoiled
<1>6. NoTransfer => NoTransfer'
  BY DEF NoTransfer
<1>7. ASSUME NoEcho, Range(answers) \cap Echoes = {} PROVE NoEcho'
  <2>1. (InHost \cap Echoes)' = {}
    BY <1>1, <1>7 DEF NoEcho, Echoes
  <2>2. CASE answers # <<>> /\ answers[Len(answers)] \in Replies
    <3>1. lastReply' \in Replies \ Echoes
      BY <1>1, <1>2, <1>7, <2>2
    <3>2. lastReply'.ans # ""
      BY <3>1, Zenon DEF Echoes
    <3> QED BY <2>1, <3>2, Zenon DEF NoEcho, MayEcho
  <2>3. CASE ~(answers # <<>> /\ answers[Len(answers)] \in Replies)
    <3>1. lastReply' = lastReply /\ InHost' \cap Replies = InHost \cap Replies
      BY <1>1, <2>3 DEF EndsSaying
    <3>2. Nack \notin InServer => Nack \notin InServer'
      OBVIOUS
    <3> QED BY <1>7, <2>1, <3>1, <3>2, Zenon DEF NoEcho, MayEcho
  <2> QED BY <2>2, <2>3
<1>8. InServer \cap Empties = {} => (InServer \cap Empties)' = {}
  BY DEF Empties
<1> QED BY <1>4, <1>5, <1>6, <1>7, <1>8

\* The empty command is served, and its answer is the last.
LEMMA EmptyServed ==
  ASSUME TInv, TInv', NEW answers \in Seq(ToHost), Says(answers), InHost \cap Echoes = {},
         NEW x \in Empties, Served(x, answers)
  PROVE  InOrder(toHost', ToHost \ Echoes, Echoes, {}) /\ target' = target
<1>1. x.cmd = "empty"
  BY DEF Empties
<1>2. Len(answers) = 2 /\ answers[1] = Ack /\ answers[2].ans = "" /\ Intact(answers[2]) /\ target' = target
  <2>1. Len(answers) = 2 /\ answers[2].ans = ""
    BY <1>1, ServedShape
  <2>2. answers[1] = Ack /\ Intact(answers[2]) /\ target' = target
    <3>1. answers[1] = Ack /\ \A i \in 2 .. Len(answers) : Intact(answers[i])
      BY Zenon DEF Served
    <3>2. Len(answers) = 2
      BY <2>1, Zenon
    <3>3. 2 \in 2 .. Len(answers)
      BY <3>2
    <3>4. target' = target
      BY <1>1 DEF Served
    <3> QED BY <3>1, <3>3, <3>4, Zenon
  <2> QED BY <2>1, <2>2, Zenon
<1>3. answers[2] \in Echoes
  BY <1>2, Zenon DEF Echoes, Intact
<1>4. /\ Len(toHost') = Len(toHost) + 2 /\ Len(toHost) \in Nat
      /\ \A i \in 1 .. Len(toHost) : toHost'[i] = toHost[i]
      /\ toHost'[Len(toHost) + 1] = Ack /\ toHost'[Len(toHost) + 2] \in Echoes
  <2>1. /\ Len(toHost') = Len(toHost) + Len(answers) /\ Len(toHost) \in Nat
        /\ \A i \in 1 .. Len(toHost) : toHost'[i] = toHost[i]
        /\ \A i \in 1 .. Len(answers) : toHost'[Len(toHost) + i] = answers[i]
    BY SaysGrows, TypeFacts DEF HostGrows
  <2>2. Len(answers) = 2
    BY <1>2, Zenon
  <2>3. 1 \in 1 .. Len(answers) /\ 2 \in 1 .. Len(answers)
    BY <2>2
  <2>4. answers[1] = Ack
    BY <1>2, Zenon
  <2>5. toHost'[Len(toHost) + 1] = Ack
    BY <2>1, <2>3, <2>4
  <2>6. toHost'[Len(toHost) + 2] \in Echoes
    BY <1>3, <2>1, <2>3
  <2>7. Len(toHost') = Len(toHost) + 2
    BY <2>1, <2>2, Zenon
  <2> QED BY <2>1, <2>5, <2>6, <2>7, Zenon
<1>5. \A i \in 1 .. Len(toHost) + 1 : toHost'[i] \in ToHost \ Echoes
  <2>1. \A i \in 1 .. Len(toHost) : toHost[i] \in InHost
    BY TypeFacts, RangeOf DEF InHost
  <2>2. Ack \in ToHost \ Echoes
    BY HostMessages DEF Echoes
  <2>3. InHost \subseteq ToHost \ Echoes
    BY QueueElements
  <2> QED BY <1>4, <2>1, <2>2, <2>3
<1> DEFINE k == Len(toHost) + 2
<1>6. k \in 1 .. Len(toHost') /\ k - 1 = Len(toHost) + 1 /\ \A i \in k + 1 .. Len(toHost') : FALSE
  BY <1>4
<1>7. InOrder(toHost', ToHost \ Echoes, Echoes, {})
  BY <1>4, <1>5, <1>6 DEF InOrder
<1>8. target' = target
  BY <1>2, Zenon
<1> QED BY <1>7, <1>8

LEMMA ServerTakesCalm ==
  ASSUME TInv, TInv', CInv, ServerTakes
  PROVE  CInv'
<1> SUFFICES ASSUME Calm' PROVE CInv'
  BY DEF CInv
<1> DEFINE x == Head(toServer)
           X == ToServer(cur.no)
<1>1. UNCHANGED <<world, host, link, corrupted>> /\ Calm /\ toServer # <<>> /\ toServer' = Tail(toServer)
  BY CalmBefore DEF ServerTakes
<1>2. UNCHANGED <<pc, cur, ret, view, got>>
  BY <1>1 DEF host
<1>3. PICK answers \in Seq(ToHost) : Says(answers) /\ Given(x, answers)
  BY ServerAnswers
<1>4. toServer \in Seq(X) /\ x \in InServer /\ InServer' \subseteq InServer
  BY <1>1, TypeFacts, RangeTail DEF InServer
<1>5. /\ x = toServer[1] /\ Len(toServer) \in Nat \ {0} /\ Len(toServer') = Len(toServer) - 1
      /\ \A i \in 1 .. Len(toServer) - 1 : toServer'[i] = toServer[i + 1]
  BY <1>1, <1>4, TailElements
<1> HIDE DEF x, X
<1>6. /\ AnswersWhole /\ (corrupted = 0 \/ pc \in {"stop", "empty"} => NothingSpoiled)
      /\ (GoodAnswers /\ pc \in {"stop", "empty"} => NoTransfer)
  BY <1>1 DEF CInv
<1>7. Intact(lastReply)
  BY <1>6 DEF AnswersWhole
<1>8. /\ \A y \in Range(answers) \cap Replies : Intact(y)
      /\ EndsSaying(answers)
      /\ Nack \in Range(answers) => x \in Commands /\ ~x.ok
      /\ \A y \in Range(answers) \cap Echoes : x \in Empties \/ (x = Nack /\ lastReply.ans = "")
      /\ x = Etx => target' = "halted"
      /\ x \in {Ack, Nack} => target' = target
  BY <1>3, <1>7, GivenFacts
<1>9. /\ AnswersWhole => AnswersWhole'
      /\ NothingSpoiled /\ Nack \notin Range(answers) => NothingSpoiled'
      /\ NoTransfer => NoTransfer'
      /\ NoEcho /\ Range(answers) \cap Echoes = {} => NoEcho'
      /\ InServer \cap Empties = {} => (InServer \cap Empties)' = {}
  BY <1>1, <1>3, <1>4, <1>8, SaidCalm
<1>10. AnswersWhole' /\ (NothingSpoiled => NothingSpoiled')
  <2>1. NothingSpoiled => Nack \notin Range(answers)
    BY <1>4, <1>8 DEF NothingSpoiled
  <2> QED BY <1>6, <1>9, <2>1
<1>11. /\ corrupted' = 0 \/ pc' \in {"stop", "empty"} => NothingSpoiled'
       /\ GoodAnswers' /\ pc' \in {"stop", "empty"} => NoTransfer'
  BY <1>1, <1>2, <1>6, <1>9, <1>10 DEF GoodAnswers
<1>12. ASSUME NoEcho, x \notin Empties PROVE NoEcho'
  <2>1. ~(x = Nack /\ lastReply.ans = "")
    BY <1>4, <1>12, Zenon DEF NoEcho, MayEcho
  <2>2. Range(answers) \cap Echoes = {}
    BY <1>8, <1>12, <2>1, Zenon
  <2> QED BY <1>9, <1>12, <2>2
<1>13. ASSUME NEW n \in 1 .. Len(toServer), Settles(toServer, target, n)
       PROVE  Settles(toServer', target', n - 1)
  BY <1>1, <1>4, <1>8, <1>13, SettlesTail DEF x
<1>14. CASE pc # "empty"
  <2>1. NoEcho /\ InServer \cap Empties = {}
    BY <1>1, <1>14 DEF CInv
  <2>2. NoEcho' /\ (InServer \cap Empties)' = {}
    BY <1>4, <1>9, <1>12, <2>1
  <2>3. pc' = "stop" => Settles(toServer', target', Len(toServer'))
    <3> SUFFICES ASSUME pc' = "stop" PROVE Settles(toServer', target', Len(toServer'))
      OBVIOUS
    <3>1. Settles(toServer, target, Len(toServer)) /\ Len(toServer) \in 1 .. Len(toServer)
      BY <1>1, <1>2, <1>5 DEF CInv
    <3> QED BY <1>5, <1>13, <3>1
  <2>4. ASSUME pc' = "idle", cur'.op \in {"probe", "stop"}, ret' = "CL_SUCCESS"
        PROVE  toServer' \in Seq({Ack}) /\ toHost' = <<>> /\ (cur'.op = "stop" => target' = "halted")
    <3>1. toServer \in Seq({Ack}) /\ toHost = <<>> /\ (cur'.op = "stop" => target = "halted")
      BY <1>1, <1>2, <2>4 DEF CInv
    <3>2. x = Ack /\ toServer' \in Seq({Ack})
      BY <1>1, <3>1, TailElements DEF x
    <3>3. answers = <<>>
      BY <1>3, <3>2, CommandTypes DEF Given
    <3>4. toHost' = <<>>
      BY <1>3, <3>1, <3>3 DEF Says
    <3> QED BY <1>8, <3>1, <3>2, <3>4
  <2> QED BY <1>2, <1>10, <1>11, <1>14, <2>2, <2>3, <2>4 DEF CInv
<1>15. CASE pc = "empty" /\ EmptySent /\ NoEcho
  <2>1. PICK m \in 1 .. Len(toServer) :
          /\ toServer[m] \in Empties
          /\ \A i \in 1 .. m - 1 : toServer[i] \notin Empties
          /\ \A i \in m + 1 .. Len(toServer) : toServer[i] = Ack
          /\ cur.op = "stop" => Settles(toServer, target, m - 1)
    BY <1>15 DEF EmptySent
  <2>2. CASE m = 1
    <3>1. x \in Empties /\ x \in Commands
      BY <1>5, <2>1, <2>2 DEF Empties
    <3>2. x.ok
      BY <1>4, <1>6, <1>15, <3>1 DEF NothingSpoiled
    <3>3. Served(x, answers)
      BY <1>3, <3>1, <3>2, CommandTypes DEF Given
    <3>4. InOrder(toHost', ToHost \ Echoes, Echoes, {}) /\ target' = target
      BY <1>3, <1>15, <3>1, <3>3, EmptyServed DEF NoEcho
    <3>5. toServer' \in Seq({Ack})
      <4>1. \A i \in 1 .. Len(toServer') : toServer'[i] \in {Ack}
        <5> TAKE i \in 1 .. Len(toServer')
        <5>1. i \in 1 .. Len(toServer) - 1 /\ i + 1 \in m + 1 .. Len(toServer)
          BY <1>5, <2>2
        <5> QED BY <1>5, <2>1, <5>1
      <4> QED BY <4>1, TypeFactsNext, SeqOfElements
    <3>6. cur'.op = "stop" => target' = "halted"
      <4>1. \A k \in 1 .. m - 1 : FALSE
        BY <2>2
      <4> QED BY <1>2, <2>1, <3>4, <4>1 DEF Settles
    <3>7. EmptyAnswered'
      BY <3>4, <3>5, <3>6 DEF EmptyAnswered
    <3> QED BY <1>2, <1>10, <1>11, <1>15, <3>7 DEF CInv
  <2>3. CASE m # 1
    <3>1. x \notin Empties
      <4>1. 1 \in 1 .. m - 1
        BY <2>3
      <4> QED BY <1>5, <2>1, <4>1
    <3>2. NoEcho'
      BY <1>12, <1>15, <3>1
    <3>3. m - 1 \in 1 .. Len(toServer') /\ toServer'[m - 1] \in Empties
      <4>1. m - 1 \in 1 .. Len(toServer) - 1 /\ (m - 1) + 1 = m
        BY <1>5, <2>3
      <4> QED BY <1>5, <2>1, <4>1
    <3>4. \A i \in 1 .. (m - 1) - 1 : toServer'[i] \notin Empties
      <4> TAKE i \in 1 .. (m - 1) - 1
      <4>1. i \in 1 .. Len(toServer) - 1 /\ i + 1 \in 1 .. m - 1
        BY <1>5
      <4> QED BY <1>5, <2>1, <4>1
    <3>5. \A i \in (m - 1) + 1 .. Len(toServer') : toServer'[i] = Ack
      <4> TAKE i \in (m - 1) + 1 .. Len(toServer')
      <4>1. i \in 1 .. Len(toServer) - 1 /\ i + 1 \in m + 1 .. Len(toServer)
        BY <1>5, <2>3
      <4> QED BY <1>5, <2>1, <4>1
    <3>6. cur'.op = "stop" => Settles(toServer', target', (m - 1) - 1)
      <4>1. m - 1 \in 1 .. Len(toServer)
        BY <2>3
      <4> QED BY <1>2, <1>13, <2>1, <4>1
    <3>7. EmptySent'
      BY <3>3, <3>4, <3>5, <3>6 DEF EmptySent
    <3> QED BY <1>2, <1>10, <1>11, <1>15, <3>2, <3>7 DEF CInv
  <2> QED BY <2>2, <2>3
<1>16. CASE pc = "empty" /\ EmptyAnswered
  <2>1. toServer \in Seq({Ack})
    BY <1>16 DEF EmptyAnswered
  <2>2. x = Ack /\ toServer' \in Seq({Ack})
    BY <1>1, <2>1, TailElements DEF x
  <2>3. answers = <<>> /\ target' = target
    BY <1>3, <2>2, CommandTypes DEF Given
  <2>4. toHost' = toHost
    BY <1>3, <2>3, TypeFacts, HostMessages, ConcatAppend DEF Says
  <2>5. EmptyAnswered'
    BY <1>2, <1>16, <2>2, <2>3, <2>4 DEF EmptyAnswered
  <2> QED BY <1>2, <1>10, <1>11, <1>16, <2>5 DEF CInv
<1>17. pc = "empty" => (EmptySent /\ NoEcho) \/ EmptyAnswered
  BY <1>1 DEF CInv
<1> QED BY <1>14, <1>15, <1>16, <1>17

\* The target says something of itself, or stores.
LEMMA TargetSays ==
  ASSUME TInv, TargetPrints \/ TargetStops
  PROVE  /\ target = "running" /\ contd # 0 /\ UNCHANGED dmem
         /\ \E z \in Replies : Intact(z) /\ z.ans \in {"O", "T"} /\ Says(<<z>>) /\ z \in ToHost
         /\ target' = target \/ target' = "halted"
<1>1. CASE TargetPrints
  <2> DEFINE z == Ans("O", contd, 0, Old)
  <2>1. z \in ToHost /\ Intact(z) /\ z.ans = "O"
    BY StopAnswer
  <2>2. Says(<<z>>) /\ target = "running" /\ contd # 0 /\ UNCHANGED <<dmem, target>>
    BY <1>1 DEF TargetPrints
  <2> HIDE DEF z
  <2> QED BY <2>1, <2>2 DEF Intact
<1>2. CASE TargetStops
  <2> DEFINE z == Ans("T", contd, 0, Old)
  <2>1. z \in ToHost /\ Intact(z) /\ z.ans = "T"
    BY StopAnswer
  <2>2. Says(<<z>>) /\ target = "running" /\ contd # 0 /\ target' = "halted" /\ UNCHANGED dmem
    BY <1>2 DEF TargetStops, StopReplies
  <2> HIDE DEF z
  <2> QED BY <2>1, <2>2 DEF Intact
<1> QED BY <1>1, <1>2

\* A queue that halts the target has it halted when it already is.
LEMMA SettlesHalted ==
  ASSUME NEW s, NEW t, NEW n, Settles(s, t, n)
  PROVE  Settles(s, "halted", n)
  BY DEF Settles

LEMMA TargetCalm ==
  ASSUME TInv, TInv', CInv, Target
  PROVE  CInv'
<1> SUFFICES ASSUME Calm' PROVE CInv'
  BY DEF CInv
<1>1. UNCHANGED <<world, host, toServer, link, corrupted>> /\ Calm
  BY CalmBefore DEF Target, TargetPrints, TargetStops, TargetStores
<1>2. UNCHANGED <<pc, cur, ret, view, got>>
  BY <1>1 DEF host
<1>3. CASE TargetPrints \/ TargetStops
  <2>1. PICK z \in Replies : Intact(z) /\ z.ans \in {"O", "T"} /\ Says(<<z>>) /\ z \in ToHost
    BY <1>3, TargetSays
  <2>2. target = "running" /\ contd # 0 /\ (target' = target \/ target' = "halted")
    BY <1>3, TargetSays
  <2> DEFINE q == <<z>>
  <2>3. /\ q \in Seq(ToHost) /\ Says(q) /\ q # <<>> /\ q[Len(q)] = z /\ \A y \in Range(q) : y = z
        /\ z \notin Echoes /\ z # Nack
    <3>1. q \in Seq(ToHost)
      BY <2>1
    <3>2. Len(q) = 1 /\ q[1] = z /\ q # <<>> /\ \A i \in 1 .. Len(q) : i = 1
      BY OneOf
    <3> HIDE DEF q
    <3>3. \A y \in Range(q) : y = z
      BY <3>1, <3>2, RangeOf
    <3>4. z \notin Echoes /\ z # Nack
      BY <2>1, HostMessages DEF Echoes
    <3> QED BY <2>1, <3>1, <3>2, <3>3, <3>4 DEF q
  <2> HIDE DEF q
  <2>4. /\ AnswersWhole => AnswersWhole'
        /\ NothingSpoiled => NothingSpoiled'
        /\ NoTransfer => NoTransfer'
        /\ NoEcho => NoEcho'
        /\ InServer \cap Empties = {} => (InServer \cap Empties)' = {}
    <3>1. EndsSaying(q) /\ \A y \in Range(q) \cap Replies : Intact(y)
      BY <2>1, <2>3 DEF EndsSaying
    <3>2. Range(q) \cap Echoes = {} /\ Nack \notin Range(q) /\ InServer' \subseteq InServer
      BY <1>1, <2>3 DEF InServer
    <3> QED BY <1>1, <2>3, <3>1, <3>2, SaidCalm
  <2>5. \A n : Settles(toServer, target, n) => Settles(toServer', target', n)
    BY <1>1, <2>2, SettlesHalted
  <2>6. cur.op # "probe" /\ (~EmptyAnswered \/ pc # "empty")
    <3>1. cur.op # "probe"
      <4>1. contd \in 0 .. cur.no /\ (cur.op = "probe" => cur.no = 0)
        BY TypeFacts DEF TInv, Waits, ServerTypes
      <4> QED BY <2>2, <4>1
    <3>2. ~EmptyAnswered \/ pc # "empty"
      BY <2>2, <3>1 DEF EmptyAnswered, TInv, Waits
    <3> QED BY <3>1, <3>2
  <2>7. EmptySent => EmptySent'
    BY <1>1, <1>2, <2>5 DEF EmptySent
  <2> QED BY <1>1, <1>2, <2>2, <2>4, <2>5, <2>6, <2>7 DEF CInv, GoodAnswers
<1>4. CASE \E b \in 1 .. Blocks : TargetStores(b)
  <2>1. UNCHANGED <<toHost, target, lastReply>>
    BY <1>4 DEF TargetStores
  <2> QED BY <1>1, <1>2, <2>1 DEF CInv, GoodAnswers, AnswersWhole, NothingSpoiled, NoTransfer, NoEcho,
         MayEcho, EmptySent, EmptyAnswered, InServer, InHost
<1> QED BY <1>3, <1>4 DEF Target

\* Good answers: what the connection spoils is a memory command.
LEMMA CorruptGood ==
  ASSUME TInv, Corrupt, GoodAnswers
  PROVE  /\ UNCHANGED <<world, host, link, server, toHost>>
         /\ \E i \in 1 .. Len(toServer) :
              /\ toServer[i] \in Commands /\ toServer[i].ok /\ toServer[i].cmd \in {"read", "write"}
              /\ toServer' = [toServer EXCEPT ![i] = [toServer[i] EXCEPT !.ok = FALSE]]
<1>1. ASSUME NEW i \in DOMAIN toHost, MaySpoil(toHost[i]) PROVE FALSE
  <2>1. toHost[i] \in Replies
    <3>1. toHost[i] \in ToHost /\ IsPacket(toHost[i])
      BY <1>1, TypeFacts DEF MaySpoil
    <3> QED BY <3>1, HostMessages
  <2>2. Class(toHost[i]) = "answer"
    BY <2>1, HostMessages DEF Class
  <2> QED BY <1>1, <2>2 DEF MaySpoil, GoodAnswers
<1>2. ASSUME NEW i \in DOMAIN toServer, MaySpoil(toServer[i])
      PROVE  /\ i \in 1 .. Len(toServer) /\ toServer[i] \in Commands /\ toServer[i].ok
             /\ toServer[i].cmd \in {"read", "write"}
  <2>1. i \in 1 .. Len(toServer) /\ toServer[i] \in Commands
    <3>1. i \in 1 .. Len(toServer) /\ toServer[i] \in ToServer(cur.no)
      BY TypeFacts
    <3>2. IsPacket(toServer[i])
      BY <1>2 DEF MaySpoil
    <3> QED BY <3>1, <3>2, TypeFacts, ServerMessages
  <2>2. Class(toServer[i]) = "transfer" /\ toServer[i].ok
    <3>1. Class(toServer[i]) \in {"transfer"}
      BY <1>2 DEF MaySpoil, GoodAnswers
    <3> QED BY <1>2, <3>1 DEF MaySpoil
  <2>3. toServer[i].cmd \in {"read", "write"}
    BY <2>1, <2>2, CommandTypes DEF Class
  <2> QED BY <2>1, <2>2, <2>3
<1>3. UNCHANGED <<world, host, link, server>>
  BY DEF Corrupt
<1>4. PICK i \in DOMAIN toServer : /\ MaySpoil(toServer[i]) /\ UNCHANGED toHost
                                   /\ toServer' = [toServer EXCEPT ![i].ok = FALSE]
  BY <1>1 DEF Corrupt
<1>5. toServer' = [toServer EXCEPT ![i] = [toServer[i] EXCEPT !.ok = FALSE]]
  BY <1>4
<1> QED BY <1>2, <1>3, <1>4, <1>5

\* A packet that is spoiled stays a packet with its command.
LEMMA SpoiledElements ==
  ASSUME TInv, TInv', NEW i \in 1 .. Len(toServer), toServer[i] \in Commands,
         toServer' = [toServer EXCEPT ![i] = [toServer[i] EXCEPT !.ok = FALSE]]
  PROVE  \A x \in InServer' : x \in InServer \/ (x \in Commands /\ x.cmd = toServer[i].cmd)
<1> DEFINE y == [toServer[i] EXCEPT !.ok = FALSE]
<1>1. y \in Commands /\ y.cmd = toServer[i].cmd
  BY DEF Commands
<1> HIDE DEF y
<1>2. toServer' = [toServer EXCEPT ![i] = y]
  BY DEF y
<1>3. \A j \in 1 .. Len(toServer') : j \in 1 .. Len(toServer) /\ toServer'[j] \in {toServer[j], y}
  BY <1>2, TypeFacts
<1>4. \A j \in 1 .. Len(toServer) : toServer[j] \in InServer
  BY TypeFacts, RangeOf DEF InServer
<1>5. ASSUME NEW x \in InServer'
      PROVE  x \in InServer \/ (x \in Commands /\ x.cmd = toServer[i].cmd)
  <2>1. PICK j \in 1 .. Len(toServer') : x = toServer'[j]
    BY QueueElementsNext
  <2>2. x \in InServer \/ x = y
    BY <1>3, <1>4, <2>1
  <2> QED BY <1>1, <2>2
<1> QED BY <1>5

LEMMA CorruptCalm ==
  ASSUME TInv, TInv', CInv, Corrupt
  PROVE  CInv'
<1> SUFFICES ASSUME Calm' PROVE CInv'
  BY DEF CInv
<1>1. corrupted' # 0
  BY TypeFacts DEF Corrupt, RestTypes
<1>2. GoodAnswers /\ Calm
  BY <1>1 DEF Calm, GoodAnswers, Corrupt
<1>3. UNCHANGED <<world, host, link, server, toHost>>
  BY <1>2, CorruptGood
<1>4. UNCHANGED <<pc, cur, ret, lastReply>>
  BY <1>3 DEF host, server
<1>5. PICK i \in 1 .. Len(toServer) :
              /\ toServer[i] \in Commands /\ toServer[i].ok /\ toServer[i].cmd \in {"read", "write"}
              /\ toServer' = [toServer EXCEPT ![i] = [toServer[i] EXCEPT !.ok = FALSE]]
  BY <1>2, CorruptGood
<1>6. toServer[i] \in InServer
  BY TypeFacts, RangeOf DEF InServer
<1>7. pc \notin {"stop", "empty"}
  BY <1>2, <1>5, <1>6 DEF CInv, NoTransfer
<1>8. \A x \in InServer' : x \in InServer \/ (x \in Commands /\ x.cmd = toServer[i].cmd)
  BY <1>5, SpoiledElements
<1>9. AnswersWhole' /\ InHost' = InHost
  BY <1>2, <1>3, <1>4, <1>7, ShrinksSame, ShrinksKeeps DEF CInv, InHost
<1>10. (InServer \cap Empties)' = {}
  BY <1>2, <1>5, <1>7, <1>8 DEF CInv, Empties
<1>11. NoEcho'
  <2>1. NoEcho
    BY <1>2, <1>7 DEF CInv
  <2>2. Nack \notin InServer => Nack \notin InServer'
    BY <1>8, CommandTypes
  <2> QED BY <1>4, <1>9, <2>1, <2>2, Zenon DEF NoEcho, MayEcho
<1>12. ~(toServer \in Seq({Ack}))
  BY <1>5, CommandTypes
<1> QED BY <1>1, <1>2, <1>4, <1>7, <1>9, <1>10, <1>11, <1>12 DEF CInv

LEMMA LinkCalm ==
  ASSUME TInv, LinkDown \/ LinkFails
  PROVE  CInv'
<1>1. link' # "up"
  BY DEF LinkDown, LinkFails, Keep
<1> QED BY <1>1 DEF CInv, Calm

LEMMA InitCalm == Init => CInv
<1> SUFFICES ASSUME Init PROVE CInv
  OBVIOUS
<1> DEFINE x == Cmd(cur, "empty")
<1>1. TInv /\ cur \in CurType /\ cur.op = "probe"
  <2>1. TInv
    BY InitTypes
  <2> QED BY <2>1, TypeFacts DEF Init
<1>2. x \in Commands /\ x \in Empties /\ x.ok /\ x.cmd = "empty"
  BY <1>1, CmdType DEF Empties
<1>3. toServer = <<x>> /\ toHost = <<>> /\ pc = "empty"
  BY DEF Init
<1> HIDE DEF x
<1>4. InHost = {} /\ \A y \in InServer : y = x
  <2>1. \A y \in InServer : \E i \in 1 .. Len(toServer) : y = toServer[i]
    BY <1>1, TypeFacts, RangeOf DEF InServer
  <2>2. InHost = {}
    BY <1>1, <1>3, TypeFacts, RangeOf DEF InHost
  <2> QED BY <1>3, <2>1, <2>2, OneOf
<1>5. Intact(lastReply)
  <2>1. lastReply = Ans("", 0, 1, Old)
    BY Zenon DEF Init
  <2>2. 1 \in 0 .. Blocks /\ 0 \in Nat /\ Old \in Values
    BY <1>1, TypeFacts, ValueTypes
  <2> QED BY <2>1, <2>2, AnsIntact
<1>6. AnswersWhole
  <2>1. \A i \in 1 .. Len(toHost) : FALSE
    BY <1>3
  <2> QED BY <1>4, <1>5, <2>1 DEF AnswersWhole
<1>7. NothingSpoiled /\ NoTransfer
  BY <1>2, <1>4 DEF NothingSpoiled, NoTransfer
<1>8. NoEcho
  <2>1. Nack # x
    BY <1>2, CommandTypes
  <2> QED BY <1>4, <2>1, Zenon DEF NoEcho, MayEcho
<1>9. EmptySent
  <2>1. Len(toServer) = 1 /\ toServer[1] = x
    BY <1>3, OneOf
  <2>2. 1 \in 1 .. Len(toServer) /\ (\A i \in 1 .. 1 - 1 : FALSE) /\ \A i \in 1 + 1 .. Len(toServer) : FALSE
    BY <2>1
  <2> QED BY <1>1, <1>2, <2>1, <2>2 DEF EmptySent
<1> QED BY <1>3, <1>6, <1>7, <1>8, <1>9 DEF CInv

--------------------------------------------------------------------------
(* AInv is kept by each action.                                            *)

LEMMA InOrderWiden ==
  ASSUME NEW s, NEW Before, NEW Last1, NEW After, InOrder(s, Before, Last1, {})
  PROVE  InOrder(s, Before, Last1, After)
  BY DEF InOrder

\* Acks, console output and stop replies spoil no answer; a run is sent intact.
LEMMA NoiseFacts ==
  /\ Noise \subseteq ToHost /\ Ack \in Noise /\ Nack \notin Noise
  /\ \A x \in Noise \cap Replies : Intact(x) /\ x.ans \in {"O", "T"}
  /\ \A x \in Runs : x \in Commands /\ x.ok /\ x.cmd = "run"
<1>1. Noise \subseteq ToHost /\ Ack \in Noise
  BY HostMessages DEF Noise
<1>2. Nack \notin Noise
  BY HostMessages, CommandTypes DEF Noise
<1>3. \A x \in Noise \cap Replies : Intact(x) /\ x.ans \in {"O", "T"}
  BY HostMessages DEF Noise
<1>4. \A x \in Runs : x \in Commands /\ x.ok /\ x.cmd = "run"
  BY DEF Runs
<1> QED BY <1>1, <1>2, <1>3, <1>4

\* Nothing but acks and runs is before a command sent, whatever the state.
LEMMA IdleQueues ==
  ASSUME TInv, AInv, GoodAnswers, link = "up", pc = "idle"
  PROVE  /\ \A i \in 1 .. Len(toServer) : toServer[i] \in {Ack} \cup Runs
         /\ toHost \in Seq(Noise) /\ AckFirst
<1>1. CASE Drained
  <2>1. \A i \in 1 .. Len(toServer) : toServer[i] = Ack
    BY <1>1 DEF Drained
  <2> QED BY <1>1, <2>1 DEF Drained, AckFirst
<1>2. CASE InOrder(toServer, {Ack}, Runs, {}) /\ toHost = <<>> /\ contd = 0
  <2>1. InServer \subseteq {Ack} \cup Runs
    BY <1>2, TypeFacts, InOrderElements DEF InServer
  <2>2. \A i \in 1 .. Len(toServer) : toServer[i] \in InServer
    BY TypeFacts, RangeOf DEF InServer
  <2> QED BY <1>2, <2>1, <2>2 DEF AckFirst
<1>3. CASE toServer \in Seq({Ack}) /\ toHost \in Seq(Noise) /\ toHost # <<>> /\ toHost[1] = Ack
  <2>1. \A i \in 1 .. Len(toServer) : toServer[i] = Ack
    BY <1>3
  <2> QED BY <1>3, <2>1 DEF AckFirst
<1> QED BY <1>1, <1>2, <1>3 DEF AInv, Running

LEMMA CallResetAns ==
  ASSUME TInv, TInv', AInv, CallReset
  PROVE  AInv'
<1> SUFFICES ASSUME GoodAnswers', link' = "up" PROVE AInv'
  BY DEF AInv
<1>1. GoodAnswers /\ link = "up" /\ pc = "idle" /\ UNCHANGED <<toHost, contd>>
  BY DEF CallReset, MayCall, Keep, GoodAnswers, server
<1> DEFINE c == Opens("reset", 1)
           X == ToServer(c.no)
           x == Cmd(cur', "reset")
<1>2. c \in CurType /\ c.op = "reset" /\ c.no >= cur.no
  BY OpensType, TypeFacts
<1>3. cur' = c /\ pc' = "ack" /\ toServer' = toServer \o <<>> \o <<x>>
  BY <1>1, <1>2 DEF CallReset, Transmit
<1>4. c.no \in Nat /\ toServer \in Seq(X)
  <2>1. c.no \in Nat
    BY <1>2 DEF CurType
  <2> QED BY <1>2, <2>1, TypeFacts, Widen
<1>5. x \in X
  <2>1. x \in Commands /\ x.no = c.no
    BY <1>2, <1>3, CmdType
  <2> QED BY <1>4, <2>1, ServerMessages
<1> HIDE DEF c, X
<1>6. \A i \in 1 .. Len(toServer) : toServer[i] \in {Ack} \cup Runs
  BY <1>1, IdleQueues
<1>7. toHost' \in Seq(Noise) /\ AckFirst'
  BY <1>1, IdleQueues DEF AckFirst
<1>8. ResetSent({})'
  <2>1. toServer' = Append(toServer, x)
    <3> HIDE DEF x
    <3> QED BY <1>3, <1>4, <1>5, ConcatAppend
  <2>2. InOrder(toServer', {Ack} \cup Runs, {x}, {})
    <3> HIDE DEF x
    <3> QED BY <1>4, <1>5, <1>6, <2>1, InOrderAppendLast
  <2> QED BY <1>7, <2>2 DEF ResetSent, Runs, Noise
<1> QED BY <1>2, <1>3, <1>7, <1>8 DEF AInv

\* With one command on its way behind acks, the transfer is sent.
LEMMA TransferSentBy ==
  ASSUME NEW X, NEW s \in Seq(X), NEW c \in CurType, c.op \in {"read", "write"}, Cmd(c, c.op) \in X,
         \A i \in 1 .. Len(s) : s[i] = Ack, cur' = c, toServer' = Append(s, Cmd(c, c.op)), toHost' = <<>>
  PROVE  TransferSent'
<1> DEFINE x == Cmd(c, c.op)
           L == {x, [x EXCEPT !.ok = FALSE]}
<1>1. x \in L /\ x \in X /\ toServer' = Append(s, x)
  OBVIOUS
<1>2. \A i \in 1 .. Len(s) : s[i] \in {Ack}
  OBVIOUS
<1> HIDE DEF x, L
<1>3. InOrder(toServer', {Ack}, L, {})
  BY <1>1, <1>2, InOrderAppendLast
<1> QED BY <1>3 DEF TransferSent, x, L

LEMMA CallTransferAns ==
  ASSUME TInv, TInv', AInv, NEW n \in 1 .. Blocks, CallRead(n) \/ CallWrite(n)
  PROVE  AInv'
<1> SUFFICES ASSUME GoodAnswers', link' = "up" PROVE AInv'
  BY DEF AInv
<1>1. /\ GoodAnswers /\ link = "up" /\ pc = "idle" /\ view = "halted" /\ UNCHANGED <<toHost, target>>
  BY DEF CallRead, CallWrite, MayCall, Keep, GoodAnswers, server
<1>2. Drained /\ target = "halted"
  BY <1>1 DEF AInv
<1> DEFINE op == IF CallRead(n) THEN "read" ELSE "write"
           c == Opens(op, n)
           X == ToServer(c.no)
           x == Cmd(c, c.op)
<1>3. c \in CurType /\ c.op = op /\ c.no >= cur.no /\ c.blk = 1 /\ op \in {"read", "write"}
  BY OpensType
<1>4. cur' = c /\ pc' = "ack" /\ view' = view /\ toServer' = toServer \o <<>> \o <<x>>
  BY <1>1, <1>3 DEF CallRead, CallWrite, Transmit
<1> HIDE DEF op, c
<1>5. c.no \in Nat /\ toServer \in Seq(X)
  <2>1. c.no \in Nat
    BY <1>3 DEF CurType
  <2> QED BY <1>3, <2>1, TypeFacts, Widen
<1>6. x \in X
  <2>1. x \in Commands /\ x.no = c.no
    BY <1>3, CmdType
  <2> QED BY <1>5, <2>1, ServerMessages
<1> HIDE DEF X
<1>7. toServer' = Append(toServer, x)
  <2> HIDE DEF x
  <2> QED BY <1>4, <1>5, <1>6, ConcatAppend
<1>8. TransferSent'
  <2>1. \A i \in 1 .. Len(toServer) : toServer[i] = Ack
    BY <1>2 DEF Drained
  <2>2. toHost' = <<>>
    BY <1>1, <1>2 DEF Drained
  <2> QED BY <1>3, <1>4, <1>5, <1>6, <1>7, <2>1, <2>2, TransferSentBy
<1>9. Transferred(cur.blk - 1)'
  <2>1. \A b \in 1 .. cur'.blk - 1 : FALSE
    BY <1>3, <1>4
  <2> QED BY <2>1 DEF Transferred
<1>10. Transferring'
  BY <1>1, <1>2, <1>4, <1>8, <1>9 DEF Transferring
<1> QED BY <1>3, <1>4, <1>10 DEF AInv

LEMMA CallRunAns ==
  ASSUME TInv, TInv', AInv, CallRun
  PROVE  AInv'
<1> SUFFICES ASSUME GoodAnswers', link' = "up" PROVE AInv'
  BY DEF AInv
<1>1. GoodAnswers /\ link = "up" /\ pc = "idle" /\ view = "halted" /\ UNCHANGED <<toHost, contd>>
  BY DEF CallRun, MayCall, Keep, GoodAnswers, server
<1>2. Drained
  BY <1>1 DEF AInv
<1> DEFINE c == Opens("run", 1)
           X == ToServer(c.no)
           x == Cmd(c, "run")
<1>3. c \in CurType /\ c.op = "run" /\ c.no >= cur.no
  BY OpensType, TypeFacts
<1>4. cur' = c /\ pc' = "idle" /\ view' = "running" /\ toServer' = Append(toServer, x)
  BY <1>1 DEF CallRun, Return
<1> HIDE DEF c
<1>5. c.no \in Nat /\ toServer \in Seq(X)
  <2>1. c.no \in Nat
    BY <1>3 DEF CurType
  <2> QED BY <1>3, <2>1, TypeFacts, Widen
<1>6. x \in X /\ x \in Runs
  <2>1. x \in Commands /\ x.no = c.no /\ x.ok /\ x.cmd = "run"
    BY <1>3, CmdType
  <2> QED BY <1>5, <2>1, ServerMessages DEF Runs
<1> HIDE DEF X, x
<1>7. InOrder(toServer', {Ack}, Runs, {})
  <2>1. \A i \in 1 .. Len(toServer) : toServer[i] \in {Ack}
    BY <1>2 DEF Drained
  <2> QED BY <1>4, <1>5, <1>6, <2>1, InOrderAppendLast
<1>8. Running'
  BY <1>1, <1>2, <1>7 DEF Running, Drained, Runs
<1> QED BY <1>3, <1>4, <1>8 DEF AInv

\* A stop asks nothing of the connection that the calls of this part promise.
LEMMA StopAns ==
  ASSUME pc' \in {"stop", "empty"}
  PROVE  AInv'
  BY DEF AInv

LEMMA DiscardAllAns ==
  ASSUME TInv, TInv', CInv', DiscardAll
  PROVE  AInv'
<1>0. pc' = "empty" => AInv'
  BY StopAns
<1> SUFFICES ASSUME GoodAnswers', link' = "up", pc' = "idle" PROVE AInv'
  BY <1>0 DEF DiscardAll, Return, AInv
<1>1. /\ pc = "empty" /\ UNCHANGED <<cur, target, contd>> /\ ret' = "CL_SUCCESS" /\ view' # "running"
      /\ view' = "halted" => cur.op = "stop"
  BY DEF DiscardAll, Return, Keep, server
<1>2. cur'.op \in {"probe", "stop"} /\ (cur'.op = "probe" => cur'.no = 0)
  BY <1>1 DEF TInv, Waits
<1>3. toServer' \in Seq({Ack}) /\ toHost' = <<>> /\ (cur'.op = "stop" => target' = "halted")
  BY <1>1, <1>2 DEF CInv, Calm
<1>4. contd' = 0
  <2>1. contd \in 0 .. cur.no /\ (contd # 0 => target = "running")
    BY TypeFacts DEF ServerTypes, TInv, Waits
  <2>2. cur'.op = "probe" => contd' = 0
    BY <1>1, <1>2, <2>1
  <2> QED BY <1>1, <1>2, <1>3, <2>1, <2>2
<1>5. Drained' /\ (view' = "halted" => target' = "halted")
  BY <1>1, <1>3, <1>4 DEF Drained
<1> QED BY <1>1, <1>2, <1>5 DEF AInv

LEMMA GetAckAns ==
  ASSUME TInv, TInv', AInv, GetAck
  PROVE  AInv'
<1> SUFFICES ASSUME GoodAnswers', link' = "up" PROVE AInv'
  BY DEF AInv
<1>1. /\ GoodAnswers /\ link = "up" /\ pc = "ack" /\ toHost # <<>> /\ UNCHANGED <<world, got, target, contd, dmem>>
  BY DEF GetAck, Keep, GoodAnswers, server
<1>2. toHost \in Seq(ToHost) /\ toServer \in Seq(ToServer(cur.no)) /\ cur.op \in {"reset", "read", "write"}
  BY <1>1, TypeFacts DEF TInv, Waits
<1>3. /\ Head(toHost) = toHost[1] /\ Tail(toHost) \in Seq(ToHost) /\ Len(Tail(toHost)) = Len(toHost) - 1
      /\ \A i \in 1 .. Len(toHost) - 1 : Tail(toHost)[i] = toHost[i + 1]
  BY <1>1, <1>2, TailElements
<1>4. ~IsPacket(Ack) /\ ~IsPacket(Nack) /\ Ack # Nack
  BY CommandTypes
<1>5. ASSUME toHost[1] = Ack
      PROVE  toHost' = Tail(toHost) /\ pc' = "reply" /\ UNCHANGED <<cur, ret, view, toServer>>
  BY <1>3, <1>4, <1>5 DEF GetAck
<1>6. CASE cur.op = "reset"
  <2>1. toHost[1] = Ack /\ (ResetSent({}) \/ ResetAnswered)
    BY <1>1, <1>6 DEF AInv, AckFirst
  <2>2. CASE ResetSent({})
    <3>1. Tail(toHost) \in Seq(Noise)
      BY <1>1, <2>2, TailElements DEF ResetSent
    <3>2. ResetSent({Ack})'
      BY <1>5, <2>1, <2>2, <3>1, InOrderWiden DEF ResetSent, Runs, Noise
    <3> QED BY <1>5, <1>6, <2>1, <3>2 DEF AInv
  <2>3. CASE ResetAnswered
    <3>1. Ack \notin AnswersCur({"OK"})
      BY HostMessages DEF AnswersCur
    <3>2. InOrder(Tail(toHost), Noise, AnswersCur({"OK"}), {})
      BY <1>2, <1>3, <2>1, <2>3, <3>1, InOrderTail DEF ResetAnswered
    <3>3. ResetAnswered'
      BY <1>1, <1>5, <2>1, <2>3, <3>2 DEF ResetAnswered, AnswersCur, Noise
    <3> QED BY <1>5, <1>6, <2>1, <3>3 DEF AInv
  <2> QED BY <2>1, <2>2, <2>3
<1>7. CASE cur.op \in {"read", "write"}
  <2>1. Transferring /\ toServer \in Seq({Ack})
    BY <1>1, <1>7 DEF AInv, Transferring, TransferSent
  <2>2. view = "halted" /\ target = "halted" /\ Transferred(cur.blk - 1)
    BY <2>1 DEF Transferring
  <2>3. CASE toHost = <<Nack>>
    <3>1. toHost[1] = Nack /\ Tail(toHost) = <<>>
      BY <1>2, <2>3
    <3>2. toHost' = <<>> /\ toServer' = Append(toServer, Cmd(cur, cur.op)) /\ UNCHANGED <<pc, cur, view>>
      BY <1>3, <1>4, <3>1 DEF GetAck
    <3>3. cur \in CurType /\ Cmd(cur, cur.op) \in ToServer(cur.no)
      BY <1>7, TypeFacts, CmdType, ServerMessages
    <3>4. \A i \in 1 .. Len(toServer) : toServer[i] = Ack
      BY <2>1
    <3>5. TransferSent'
      BY <1>2, <1>7, <3>2, <3>3, <3>4, TransferSentBy
    <3>6. Transferring'
      BY <1>1, <2>2, <3>2, <3>5 DEF Transferring, Transferred
    <3> QED BY <1>1, <1>7, <3>2, <3>6 DEF AInv
  <2>4. CASE Len(toHost) = 2 /\ toHost[1] = Ack /\ ServedBy(toHost[2])
    <3>1. toHost' = Tail(toHost) /\ pc' = "reply" /\ UNCHANGED <<cur, ret, view, toServer>>
      BY <1>5, <2>4
    <3>2. Len(toHost') = 1 /\ toHost'[1] = toHost[2]
      <4>1. Len(Tail(toHost)) = 1
        BY <1>3, <2>4
      <4>2. 1 \in 1 .. Len(toHost) - 1 /\ 1 + 1 = 2
        BY <2>4
      <4>3. Tail(toHost)[1] = toHost[2]
        BY <1>3, <4>2
      <4> QED BY <3>1, <4>1, <4>3
    <3>3. ServedBy(toHost[1])'
      BY <1>1, <2>4, <3>1, <3>2 DEF ServedBy, AnswersCur
    <3>4. Transferring'
      BY <1>1, <2>1, <2>2, <3>1, <3>2, <3>3 DEF Transferring, Transferred
    <3> QED BY <1>7, <3>1, <3>4 DEF AInv
  <2> QED BY <1>1, <2>1, <2>3, <2>4 DEF Transferring, TransferSent
<1> QED BY <1>2, <1>6, <1>7

LEMMA ResetReplyAns ==
  ASSUME TInv, TInv', AInv, ResetReply
  PROVE  AInv'
<1> SUFFICES ASSUME GoodAnswers', link' = "up" PROVE AInv'
  BY DEF AInv
<1>1. /\ GoodAnswers /\ link = "up" /\ pc = "reply" /\ cur.op = "reset" /\ Arrived /\ Take
      /\ UNCHANGED <<world, cur, got, target, contd, dmem>> /\ world.driver = "openocd"
  BY DEF ResetReply, Keep, GoodAnswers, server
<1>2. /\ Next1 \in InHost /\ Next1 \in Replies
      /\ Nack \notin InHost /\ Next1.ok /\ Next1.cut <= 1 => Clean
  BY <1>1, TakeFirst
<1>3. ASSUME Nack \notin InHost, Intact(Next1)
      PROVE  Answer = Next1.ans /\ toServer' = Append(toServer, Ack)
  <2>1. Clean
    BY <1>2, <1>3 DEF Intact
  <2> QED BY <2>1, CharOf, CommandTypes DEF Answer, Clean, ResetReply
<1>4. toHost' \in Seq(ToHost) /\ \A i \in 1 .. Len(toHost') : toHost'[i] \in InHost
  <2>1. /\ First \in 1 .. Len(toHost) /\ Len(toHost') = Len(toHost) - First /\ toHost' \in Seq(ToHost)
        /\ \A k \in 1 .. Len(toHost) - First : toHost'[k] = toHost[First + k]
    BY <1>1, TypeFacts, TakeFirst, TakeElements
  <2>2. \A i \in 1 .. Len(toHost) : toHost[i] \in InHost
    BY TypeFacts, RangeOf DEF InHost
  <2> QED BY <2>1, <2>2, TypeFacts
<1>5. toServer \in Seq(ToServer(cur.no)) /\ Ack \in ToServer(cur.no)
  BY TypeFacts, ServerMessages
<1>6. CASE ResetSent({Ack})
  <2>1. toHost \in Seq(Noise) /\ InHost \subseteq Noise
    BY <1>6, RangeOf DEF ResetSent, InHost
  <2>2. Nack \notin InHost /\ Intact(Next1) /\ Next1.ans \in {"O", "T"}
    BY <1>2, <2>1, NoiseFacts
  <2>3. Answer \in {"O", "T"} /\ toServer' = Append(toServer, Ack)
    BY <1>3, <2>2
  <2>4. UNCHANGED <<pc, view>>
    BY <1>1, <2>3 DEF ResetReply
  <2>5. toHost' \in Seq(Noise)
    BY <1>4, <2>1, SeqOfElements
  <2>6. InOrder(toServer', {Ack} \cup Runs, {Cmd(cur, "reset")}, {Ack})
    <3> DEFINE X == ToServer(cur.no)
    <3>1. toServer \in Seq(X) /\ Ack \in X
      BY <1>5
    <3> HIDE DEF X
    <3>2. InOrder(toServer, {Ack} \cup Runs, {Cmd(cur, "reset")}, {Ack})
      BY <1>6 DEF ResetSent
    <3> QED BY <2>3, <3>1, <3>2, InOrderAppendAfter
  <2>7. ResetSent({Ack})'
    BY <1>1, <2>5, <2>6 DEF ResetSent, Runs, Noise
  <2> QED BY <1>1, <2>4, <2>7 DEF AInv
<1>7. CASE ResetAnswered
  <2> DEFINE L == AnswersCur({"OK"})
  <2>1. /\ L \subseteq Replies /\ \A x \in L : Intact(x) /\ x.ans = "OK"
        /\ toServer \in Seq({Ack}) /\ target = "halted" /\ InOrder(toHost, Noise, L, {})
    BY <1>7 DEF ResetAnswered, AnswersCur
  <2> HIDE DEF L
  <2>2. InHost \subseteq Noise \cup L
    BY <2>1, TypeFacts, InOrderElements DEF InHost
  <2>3. Nack \notin InHost
    BY <2>1, <2>2, HostMessages, NoiseFacts
  <2>4. Intact(Next1)
    BY <1>2, <2>1, <2>2, NoiseFacts
  <2>5. Answer = Next1.ans /\ toServer' \in Seq({Ack})
    BY <1>3, <2>1, <2>3, <2>4, AllAcks
  <2>6. CASE Next1 \in Noise /\ InOrder(toHost', Noise, L, {})
    <3>1. Answer \in {"O", "T"}
      BY <1>2, <2>5, <2>6, NoiseFacts
    <3>2. UNCHANGED <<pc, view>>
      BY <1>1, <3>1 DEF ResetReply
    <3>3. ResetAnswered'
      BY <1>1, <2>1, <2>5, <2>6 DEF ResetAnswered, AnswersCur, Noise, L
    <3> QED BY <1>1, <3>2, <3>3 DEF AInv
  <2>7. CASE Next1 \in L /\ toHost' = <<>>
    <3>1. Answer = "OK"
      BY <2>1, <2>5, <2>7
    <3>2. pc' = "idle" /\ view' = "halted"
      BY <3>1 DEF ResetReply, Return
    <3>3. contd' = 0
      BY <1>1, <2>1 DEF TInv, Waits
    <3>4. Drained' /\ target' = "halted"
      BY <1>1, <2>1, <2>5, <2>7, <3>3 DEF Drained
    <3> QED BY <1>1, <3>2, <3>4 DEF AInv
  <2> QED BY <1>1, <2>1, <2>6, <2>7, TakeInOrder
<1> QED BY <1>1, <1>6, <1>7 DEF AInv

\* The one packet in the connection is the answer, and it is taken.
LEMMA OnlyAnswer ==
  ASSUME TInv, Arrived, Take, Len(toHost) = 1, ServedBy(toHost[1])
  PROVE  /\ Next1 = toHost[1] /\ Clean /\ Answer = toHost[1].ans /\ toHost' = <<>>
         /\ AckChar = <<Ack>>
<1>1. First \in 1 .. Len(toHost) /\ Next1 = toHost[First] /\ Len(toHost') = Len(toHost) - First
      /\ toHost' \in Seq(ToHost)
  BY TypeFacts, TakeFirst, TakeElements
<1>2. First = 1
  BY <1>1
<1>3. Intact(toHost[1])
  BY DEF ServedBy, AnswersCur
<1>4. Clean
  BY <1>1, <1>2, <1>3 DEF Clean, Whole, Intact
<1> QED BY <1>1, <1>2, <1>4 DEF Answer, Clean, AckChar

LEMMA TransferReplyAns ==
  ASSUME TInv, TInv', AInv, ReadReply \/ WriteReply
  PROVE  AInv'
<1> SUFFICES ASSUME GoodAnswers', link' = "up" PROVE AInv'
  BY DEF AInv
<1>1. /\ GoodAnswers /\ link = "up" /\ pc = "reply" /\ Arrived /\ Take /\ NextBlock(AckChar)
      /\ UNCHANGED <<world, target, contd, dmem>>
  BY DEF ReadReply, WriteReply, Keep, GoodAnswers, server
<1>2. cur.op \in {"read", "write"} /\ (cur.op = "read" => ReadReply) /\ (cur.op = "write" => WriteReply)
  BY DEF ReadReply, WriteReply
<1>3. /\ toServer \in Seq({Ack}) /\ Len(toHost) = 1 /\ ServedBy(toHost[1])
      /\ view = "halted" /\ target = "halted" /\ Transferred(cur.blk - 1)
  BY <1>1, <1>2 DEF AInv, Transferring
<1>4. /\ Next1 = toHost[1] /\ Clean /\ Answer = toHost[1].ans /\ toHost' = <<>>
      /\ AckChar = <<Ack>>
  BY <1>1, <1>3, OnlyAnswer
<1>5. /\ cur.blk \in 1 .. cur.blks /\ cur.blks \in 1 .. Blocks /\ got \in [1 .. Blocks -> Values]
      /\ cur \in CurType /\ Blocks \in Nat /\ cur.no \in Nat
  BY TypeFacts DEF TInv, Types
<1>6. ~world.errors => toHost[1].ans \in {"data", "OK"}
  BY <1>3 DEF ServedBy, AnswersCur
<1>7. ~world.errors => \A b \in 1 .. cur.blk : IF cur.op = "read" THEN got'[b] = dmem[b]
                                                                  ELSE dmem[b] = Written(cur.no)
  <2> SUFFICES ASSUME ~world.errors, NEW b \in 1 .. cur.blk
               PROVE  IF cur.op = "read" THEN got'[b] = dmem[b] ELSE dmem[b] = Written(cur.no)
    OBVIOUS
  <2>1. b \in 1 .. cur.blk - 1 \/ b = cur.blk
    BY <1>5
  <2>2. b \in 1 .. cur.blk - 1 => IF cur.op = "read" THEN got[b] = dmem[b] ELSE dmem[b] = Written(cur.no)
    BY <1>3 DEF Transferred
  <2>3. CASE cur.op = "read"
    <3>1. toHost[1].ans = "data" /\ toHost[1].val = dmem[cur.blk]
      BY <1>3, <1>6, <2>3 DEF ServedBy, AnswersCur
    <3>2. got' = [got EXCEPT ![cur.blk] = dmem[cur.blk]]
      BY <1>2, <1>4, <2>3, <3>1 DEF ReadReply
    <3> QED BY <1>5, <2>1, <2>2, <2>3, <3>2
  <2>4. CASE cur.op = "write"
    <3>1. toHost[1].ans = "OK" /\ dmem[cur.blk] = Written(cur.no)
      BY <1>3, <1>6, <2>4 DEF ServedBy, AnswersCur
    <3> QED BY <2>1, <2>2, <2>4, <3>1
  <2> QED BY <1>2, <2>3, <2>4
<1>8. CASE cur.blk < cur.blks /\ Transmit(AckChar, [cur EXCEPT !.blk = @ + 1])
  <2> DEFINE c == [cur EXCEPT !.blk = @ + 1]
             X == ToServer(cur.no)
             x == Cmd(c, c.op)
             q == Append(toServer, Ack)
  <2>1. c \in CurType /\ c.no = cur.no /\ c.op = cur.op /\ c.blk = cur.blk + 1
    BY <1>5, <1>8 DEF CurType
  <2> HIDE DEF c
  <2>2. cur' = c /\ pc' = "ack" /\ view' = view /\ toServer' = toServer \o AckChar \o <<x>>
    BY <1>1, <1>8 DEF Transmit, c
  <2>3. x \in X /\ Ack \in X /\ toServer \in Seq(X)
    BY <1>2, <1>5, <2>1, CmdType, ServerMessages, TypeFacts
  <2> HIDE DEF X, x
  <2>4. q \in Seq({Ack}) /\ q \in Seq(X) /\ toServer \o AckChar = q
    <3>1. q \in Seq({Ack})
      BY <1>3, AllAcks
    <3>2. q \in Seq(X)
      BY <2>3, AppendElements
    <3>3. toServer \o AckChar = q
      BY <1>4, <2>3, ConcatAppend
    <3> QED BY <3>1, <3>2, <3>3
  <2>5. \A i \in 1 .. Len(q) : q[i] = Ack
    BY <2>4
  <2> HIDE DEF q
  <2>6. toServer' = Append(q, x)
    BY <2>2, <2>3, <2>4, ConcatAppend
  <2>7. TransferSent'
    BY <1>2, <1>4, <2>1, <2>2, <2>3, <2>4, <2>5, <2>6, TransferSentBy DEF x
  <2>8. Transferred(cur.blk - 1)'
    <3>1. cur'.blk - 1 = cur.blk /\ cur'.op = cur.op /\ cur'.no = cur.no
      BY <1>5, <2>1, <2>2
    <3> QED BY <1>1, <1>7, <3>1 DEF Transferred
  <2>9. Transferring'
    BY <1>1, <1>3, <2>2, <2>7, <2>8 DEF Transferring
  <2> QED BY <1>2, <2>1, <2>2, <2>9 DEF AInv
<1>9. CASE cur.blk = cur.blks /\ Return("CL_SUCCESS", view) /\ UNCHANGED cur /\ toServer' = toServer \o AckChar
  <2>1. toServer' \in Seq({Ack})
    BY <1>3, <1>4, <1>9, AllAcks, CharOf, CommandTypes
  <2>2. contd' = 0
    BY <1>1, <1>3 DEF TInv, Waits
  <2>3. pc' = "idle" /\ view' = "halted" /\ cur' = cur
    BY <1>3, <1>9 DEF Return
  <2>4. Transferred(cur.blks)'
    BY <1>1, <1>7, <1>9, <2>3 DEF Transferred
  <2>5. Drained'
    BY <1>4, <2>1, <2>2 DEF Drained
  <2> QED BY <1>1, <1>2, <1>3, <2>3, <2>4, <2>5 DEF AInv
<1> QED BY <1>1, <1>8, <1>9 DEF NextBlock

LEMMA TargetAns ==
  ASSUME TInv, TInv', AInv, Target
  PROVE  AInv'
<1> SUFFICES ASSUME GoodAnswers', link' = "up" PROVE AInv'
  BY DEF AInv
<1>1. GoodAnswers /\ link = "up" /\ UNCHANGED <<world, pc, cur, ret, view, got, toServer>>
  BY DEF Target, TargetPrints, TargetStops, TargetStores, GoodAnswers, host
<1>2. target = "running"
  BY TargetSays DEF Target, TargetStores
<1>3. ~(pc = "ack" /\ cur.op = "reset" /\ ResetAnswered) /\ ~(pc = "reply" /\ cur.op = "reset" /\ ResetAnswered)
      /\ ~Transferring
  BY <1>2 DEF ResetAnswered, Transferring
<1>4. ~(pc \in {"ack", "reply"} /\ cur.op \in {"read", "write"}) /\ ~(pc = "idle" /\ view = "halted")
  BY <1>1, <1>2, <1>3 DEF AInv
<1>5. ~(pc = "idle" /\ cur.op \in {"read", "write"})
  BY <1>1, <1>4 DEF AInv
<1>6. CASE TargetPrints \/ TargetStops
  <2>1. PICK z \in Replies : Intact(z) /\ z.ans \in {"O", "T"} /\ Says(<<z>>) /\ z \in ToHost
    BY <1>6, TargetSays
  <2>2. contd # 0
    BY <1>6, TargetSays
  <2>3. z \in Noise
    BY <2>1 DEF Noise
  <2>4. toHost' = Append(toHost, z)
    BY <2>1, TypeFacts, ConcatAppend DEF Says
  <2>5. ASSUME toHost \in Seq(Noise) PROVE toHost' \in Seq(Noise)
    BY <2>3, <2>4, <2>5, AppendElements
  <2>6. ASSUME toHost # <<>> PROVE toHost' # <<>> /\ toHost'[1] = toHost[1]
    <3>1. 1 \in 1 .. Len(toHost)
      BY <2>6, TypeFacts
    <3> QED BY <2>1, <2>4, <3>1, TypeFacts, AppendElements
  <2>7. ASSUME AckFirst PROVE AckFirst'
    BY <2>2, <2>6, <2>7 DEF AckFirst
  <2>8. ASSUME NEW After, ResetSent(After) PROVE ResetSent(After)'
    BY <1>1, <2>5, <2>8 DEF ResetSent, Runs, Noise
  <2>9. ASSUME Running PROVE Running'
    BY <1>1, <2>2, <2>5, <2>6, <2>9 DEF Running, Noise
  <2>10. ~(pc = "idle" /\ view # "running")
    BY <1>1, <2>2 DEF AInv, Drained
  <2> QED BY <1>1, <1>3, <1>4, <1>5, <2>7, <2>8, <2>9, <2>10 DEF AInv
<1>7. CASE \E b \in 1 .. Blocks : TargetStores(b)
  <2>1. UNCHANGED <<toHost, target, contd>>
    BY <1>7 DEF TargetStores
  <2> QED BY <1>1, <1>3, <1>4, <1>5, <2>1 DEF AInv, Drained, Running, AckFirst, ResetSent, Runs, Noise
<1> QED BY <1>6, <1>7 DEF Target

LEMMA CorruptAns ==
  ASSUME TInv, TInv', AInv, Corrupt
  PROVE  AInv'
<1> SUFFICES ASSUME GoodAnswers', link' = "up" PROVE AInv'
  BY DEF AInv
<1>1. GoodAnswers
  BY DEF GoodAnswers, Corrupt
<1>2. UNCHANGED <<world, host, link, server, toHost>>
  BY <1>1, CorruptGood
<1>3. UNCHANGED <<pc, cur, view, got, target, contd, dmem>>
  BY <1>2 DEF host, server
<1>4. PICK i \in 1 .. Len(toServer) :
              /\ toServer[i] \in Commands /\ toServer[i].ok /\ toServer[i].cmd \in {"read", "write"}
              /\ toServer' = [toServer EXCEPT ![i] = [toServer[i] EXCEPT !.ok = FALSE]]
  BY <1>1, CorruptGood
<1>5. toServer[i] \in InServer /\ toServer \in Seq(ToServer(cur.no))
  BY TypeFacts, RangeOf DEF InServer
<1>6. ~NoTransfer /\ ~(toServer \in Seq({Ack}))
  BY <1>4, <1>5, CommandTypes DEF NoTransfer
<1>7. \A After : After \subseteq {Ack} => ~ResetSent(After)
  <2> SUFFICES ASSUME NEW After, After \subseteq {Ack}, ResetSent(After) PROVE FALSE
    OBVIOUS
  <2>1. InServer \subseteq ({Ack} \cup Runs) \cup {Cmd(cur, "reset")} \cup After
    BY <1>5, InOrderElements DEF ResetSent, InServer
  <2>2. Cmd(cur, "reset").cmd = "reset"
    BY DEF Cmd
  <2> QED BY <1>4, <1>5, <2>1, <2>2, NoiseFacts, CommandTypes
<1>8. ~Running /\ ~Drained /\ ~ResetAnswered /\ ~ResetSent({}) /\ ~ResetSent({Ack})
  BY <1>6, <1>7, RunningUnspoiled DEF Drained, ResetAnswered
<1>9. pc \in {"ack", "reply"} /\ cur.op \in {"read", "write"} => Transferring'
  <2> SUFFICES ASSUME pc \in {"ack", "reply"}, cur.op \in {"read", "write"} PROVE Transferring'
    OBVIOUS
  <2>1. pc = "ack" /\ TransferSent /\ view = "halted" /\ target = "halted" /\ Transferred(cur.blk - 1)
    BY <1>1, <1>2, <1>6 DEF AInv, Transferring
  <2> DEFINE x == Cmd(cur, cur.op)
             y == [x EXCEPT !.ok = FALSE]
  <2>2. InOrder(toServer, {Ack}, {x, y}, {})
    BY <2>1 DEF TransferSent
  <2>3. x.ok /\ ~y.ok
    BY DEF Cmd
  <2> HIDE DEF x
  <2>4. PICK k \in 1 .. Len(toServer) :
          toServer[k] \in {x, y} /\ (\A j \in 1 .. k - 1 : toServer[j] = Ack)
          /\ \A j \in k + 1 .. Len(toServer) : FALSE
    BY <2>2 DEF InOrder
  <2>5. i = k
    <3>1. toServer[i] # Ack
      BY <1>4, CommandTypes
    <3> QED BY <2>4, <3>1
  <2>6. toServer[i] = x
    BY <1>4, <2>3, <2>4, <2>5
  <2>7. Len(toServer') = Len(toServer) /\ toServer'[k] = y /\ \A j \in 1 .. k - 1 : toServer'[j] = toServer[j]
    BY <1>4, <1>5, <2>5, <2>6
  <2> HIDE DEF y
  <2>8. InOrder(toServer', {Ack}, {x, y}, {})
    BY <2>4, <2>7 DEF InOrder
  <2>9. TransferSent'
    BY <1>2, <1>3, <2>1, <2>8 DEF TransferSent, x, y
  <2> QED BY <1>2, <1>3, <2>1, <2>9 DEF Transferring, Transferred
<1>10. pc = "idle" => FALSE
  BY <1>1, <1>2, <1>8 DEF AInv
<1>11. pc \in {"ack", "reply"} => cur.op # "reset"
  BY <1>1, <1>2, <1>8 DEF AInv
<1> QED BY <1>3, <1>9, <1>10, <1>11 DEF AInv

LEMMA LinkAns ==
  ASSUME LinkDown \/ LinkFails
  PROVE  AInv'
<1>1. link' # "up"
  BY DEF LinkDown, LinkFails, Keep
<1> QED BY <1>1 DEF AInv

LEMMA InitAns == Init => AInv
<1> SUFFICES ASSUME Init PROVE AInv
  OBVIOUS
<1>1. pc = "empty"
  BY DEF Init
<1> QED BY <1>1 DEF AInv

LEMMA AckTakenAns ==
  ASSUME TInv, TInv', AInv, ServerTakes, Head(toServer) = Ack
  PROVE  AInv'
<1> SUFFICES ASSUME GoodAnswers', link' = "up" PROVE AInv'
  BY DEF AInv
<1>1. /\ GoodAnswers /\ link = "up" /\ toServer # <<>> /\ toServer' = Tail(toServer)
      /\ UNCHANGED <<world, pc, cur, view, got>>
  BY DEF ServerTakes, GoodAnswers, host
<1>2. UNCHANGED <<toHost, target, contd, dmem>>
  <2>1. PICK answers \in Seq(ToHost) : Says(answers) /\ Given(Ack, answers)
    BY ServerAnswers
  <2>2. answers = <<>> /\ UNCHANGED <<target, contd, dmem>>
    BY <2>1, CommandTypes DEF Given
  <2>3. toHost' = toHost
    BY <2>1, <2>2, TypeFacts, HostMessages, ConcatAppend DEF Says
  <2> QED BY <2>2, <2>3
<1>3. toServer \in Seq({Ack}) => toServer' \in Seq({Ack})
  BY <1>1
<1>4. ASSUME NEW B, NEW L, NEW A, Ack \notin L, InOrder(toServer, B, L, A)
      PROVE  InOrder(toServer', B, L, A)
  BY <1>1, <1>4, TypeFacts, InOrderTail
<1>5. Ack \notin Runs /\ \A no : Ack # Cmd(cur, no) /\ Ack # [Cmd(cur, no) EXCEPT !.ok = FALSE]
  <2>1. Ack \notin Runs
    BY CommandTypes DEF Runs
  <2>2. \A no : Ack # Cmd(cur, no) /\ Ack # [Cmd(cur, no) EXCEPT !.ok = FALSE]
    BY DEF Ack, Cmd
  <2> QED BY <2>1, <2>2
<1>6. /\ Drained => Drained'
      /\ AckFirst => AckFirst'
      /\ ResetAnswered => ResetAnswered'
  BY <1>1, <1>2, <1>3 DEF Drained, AckFirst, ResetAnswered, AnswersCur, Noise
<1>7. Running => Running'
  BY <1>2, <1>3, <1>4, <1>5 DEF Running, Runs, Noise
<1>8. \A After : ResetSent(After) => ResetSent(After)'
  <2> SUFFICES ASSUME NEW After, ResetSent(After) PROVE ResetSent(After)'
    OBVIOUS
  <2>1. InOrder(toServer', {Ack} \cup Runs, {Cmd(cur, "reset")}, After)
    BY <1>4, <1>5 DEF ResetSent
  <2> QED BY <1>1, <1>2, <2>1 DEF ResetSent, Runs, Noise
<1>9. TransferSent => TransferSent'
  BY <1>1, <1>2, <1>4, <1>5 DEF TransferSent
<1>10. \A x : ServedBy(x) => ServedBy(x)'
  BY <1>1, <1>2 DEF ServedBy, AnswersCur
<1>11. Transferring => Transferring'
  BY <1>1, <1>2, <1>3, <1>9, <1>10 DEF Transferring, Transferred
<1>12. \A n : Transferred(n) => Transferred(n)'
  BY <1>1, <1>2 DEF Transferred
<1>13. ResetSent({}) => ResetSent({})'
  BY <1>8
<1>14. ResetSent({Ack}) => ResetSent({Ack})'
  <2> DEFINE A == {Ack}
  <2> HIDE DEF A
  <2>1. ResetSent(A) => ResetSent(A)'
    BY <1>8
  <2> QED BY <2>1 DEF A
<1>15. Transferred(cur.blks) => Transferred(cur.blks)'
  BY <1>1, <1>2 DEF Transferred
<1> QED BY <1>1, <1>2, <1>6, <1>7, <1>11, <1>13, <1>14, <1>15 DEF AInv

\* What the server sends for an intact command.
LEMMA RunServed ==
  ASSUME TInv, NEW answers \in Seq(ToHost), Says(answers), NEW x \in Runs, Given(x, answers)
  PROVE  toHost' = Append(toHost, Ack) /\ toHost \in Seq(ToHost) /\ Ack \in ToHost
<1>1. x \in Commands /\ x.ok /\ x.cmd = "run"
  BY DEF Runs
<1>2. Served(x, answers)
  BY <1>1, CommandTypes DEF Given
<1>3. Len(answers) = 1 /\ answers[1] = Ack
  BY <1>1, <1>2 DEF Served
<1>4. answers = <<Ack>>
  BY <1>3
<1> QED BY <1>4, TypeFacts, HostMessages, ConcatAppend DEF Says

LEMMA BeforeLast == \A a \in Nat, n \in 2 .. 3 : \A i \in 1 .. a + n - 1 :
  i \in 1 .. a \/ i = a + 1 \/ (i = a + 2 /\ n = 3)
  OBVIOUS

\* A server that takes the reset leaves its OK behind what was there before.
LEMMA ResetServed ==
  ASSUME TInv, TInv', NEW answers \in Seq(ToHost), Says(answers), Given(Cmd(cur, "reset"), answers),
         UNCHANGED cur, toHost \in Seq(Noise)
  PROVE  /\ target' = "halted" /\ InOrder(toHost', Noise, AnswersCur({"OK"})', {})
         /\ toHost' # <<>> /\ (toHost = <<>> => toHost'[1] = Ack)
         /\ (toHost # <<>> => toHost'[1] = toHost[1])
<1> DEFINE x == Cmd(cur, "reset")
           z == answers[Len(answers)]
<1>1. x \in Commands /\ x.ok /\ x.cmd = "reset" /\ x.no = cur.no /\ x.blk = cur.blk
  BY TypeFacts, CmdType
<1>2. Served(x, answers)
  BY <1>1, CommandTypes DEF Given
<1> HIDE DEF x
<1>3. /\ answers[1] = Ack /\ (\A i \in 2 .. Len(answers) : Intact(answers[i])) /\ target' = "halted"
      /\ Len(answers) \in 2 .. 3 /\ (Len(answers) = 3 => answers[2].ans = "T")
      /\ z = Ans("OK", x.no, x.blk, Old)
  BY <1>1, <1>2 DEF Served
<1>4. HostGrows(answers) /\ toHost' \in Seq(ToHost) /\ Len(toHost) \in Nat
  BY SaysGrows, TypeFacts
<1>5. z.ans = "OK" /\ z.no = cur.no /\ z.blk = cur.blk
  <2>1. z = Ans("OK", cur.no, cur.blk, Old)
    BY <1>1, <1>3
  <2> HIDE DEF z
  <2> QED BY <2>1 DEF Ans
<1> HIDE DEF z
<1>6. Intact(z)
  BY <1>3, TwoOrThree DEF z
<1>7. z \in AnswersCur({"OK"})'
  BY <1>5, <1>6 DEF AnswersCur, Intact
<1> DEFINE k == Len(toHost) + Len(answers)
<1>8. k \in 1 .. Len(toHost') /\ toHost'[k] = z /\ \A i \in k + 1 .. Len(toHost') : FALSE
  BY <1>3, <1>4 DEF HostGrows, z
<1>9. ASSUME NEW i \in 1 .. k - 1 PROVE toHost'[i] \in Noise
  <2>1. CASE i \in 1 .. Len(toHost)
    <3>1. toHost[i] \in Noise /\ toHost'[i] = toHost[i]
      BY <1>4, <2>1 DEF HostGrows
    <3> QED BY <3>1
  <2>2. CASE i = Len(toHost) + 1
    <3>1. 1 \in 1 .. Len(answers)
      BY <1>3
    <3>2. toHost'[i] = Ack
      BY <1>3, <1>4, <2>2, <3>1 DEF HostGrows
    <3> QED BY <3>2, NoiseFacts
  <2>3. CASE i = Len(toHost) + 2 /\ Len(answers) = 3
    <3>1. 2 \in 1 .. Len(answers) /\ 2 \in 2 .. Len(answers)
      BY <2>3
    <3>2. toHost'[i] = answers[2] /\ Intact(answers[2]) /\ answers[2].ans = "T"
      BY <1>3, <1>4, <2>3, <3>1 DEF HostGrows
    <3>3. toHost'[i] \in Noise
      BY <3>2 DEF Noise, Intact
    <3> QED BY <3>3
  <2>4. i \in 1 .. Len(toHost) \/ i = Len(toHost) + 1 \/ (i = Len(toHost) + 2 /\ Len(answers) = 3)
    <3>1. Len(answers) \in 2 .. 3 /\ Len(toHost) \in Nat
      BY <1>3, <1>4
    <3>2. i \in 1 .. Len(toHost) + Len(answers) - 1
      OBVIOUS
    <3> QED BY <3>1, <3>2, BeforeLast, Zenon
  <2> QED BY <2>1, <2>2, <2>3, <2>4
<1>10. InOrder(toHost', Noise, AnswersCur({"OK"})', {})
  <2> HIDE DEF k
  <2> QED BY <1>7, <1>8, <1>9 DEF InOrder
<1>11. toHost' # <<>> /\ (toHost = <<>> => toHost'[1] = Ack) /\ (toHost # <<>> => toHost'[1] = toHost[1])
  <2>1. 1 \in 1 .. Len(answers)
    BY <1>3
  <2>2. toHost = <<>> => toHost'[1] = Ack
    BY <1>3, <1>4, <2>1 DEF HostGrows
  <2>3. toHost # <<>> => 1 \in 1 .. Len(toHost)
    BY TypeFacts
  <2> QED BY <1>4, <1>8, <2>2, <2>3 DEF HostGrows
<1> QED BY <1>3, <1>10, <1>11

\* A server that takes a memory command nacks it, or leaves its ack and answer.
LEMMA TransferServed ==
  ASSUME TInv, TInv', NEW answers \in Seq(ToHost), Says(answers), toHost = <<>>,
         cur.op \in {"read", "write"}, target = "halted",
         NEW x, x = Cmd(cur, cur.op) \/ x = [Cmd(cur, cur.op) EXCEPT !.ok = FALSE], Given(x, answers),
         UNCHANGED <<world, cur, got>>, Transferred(cur.blk - 1)
  PROVE  /\ target' = "halted" /\ Transferred(cur.blk - 1)'
         /\ \/ toHost' = <<Nack>>
            \/ Len(toHost') = 2 /\ toHost'[1] = Ack /\ ServedBy(toHost[2])'
<1> DEFINE y == Cmd(cur, cur.op)
<1>1. y \in Commands /\ y.ok /\ y.cmd = cur.op /\ y.no = cur.no /\ y.blk = cur.blk
  BY TypeFacts, CmdType
<1>2. toHost' = answers
  <2>1. <<>> \o answers = answers
    OBVIOUS
  <2> QED BY <2>1 DEF Says
<1>3. CASE x = [y EXCEPT !.ok = FALSE]
  <2>1. x \in Commands /\ ~x.ok
    BY <1>1, <1>3 DEF Commands
  <2>2. answers = <<Nack>> /\ UNCHANGED <<target, contd, dmem>>
    BY <2>1, CommandTypes DEF Given
  <2> QED BY <1>2, <2>2 DEF Transferred
<1>4. CASE x = y
  <2> HIDE DEF y
  <2>1. Served(y, answers)
    BY <1>1, <1>4, CommandTypes DEF Given
  <2> DEFINE z == answers[2]
  <2>2. cur.blk \in 1 .. Blocks /\ dmem \in [1 .. Blocks -> Values] /\ dmem' \in [1 .. Blocks -> Values]
    BY TypeFacts DEF ServerTypes, TInv, Types
  <2>3. /\ Len(answers) = 2 /\ answers[1] = Ack /\ UNCHANGED target
        /\ \/ /\ cur.op = "read" /\ z = Ans("data", cur.no, cur.blk, dmem[cur.blk]) /\ dmem' = dmem
           \/ /\ cur.op = "write" /\ z = Ans("OK", cur.no, cur.blk, Old)
              /\ dmem' = [dmem EXCEPT ![cur.blk] = Written(cur.no)]
           \/ world.errors /\ z = Ans("E", cur.no, cur.blk, Old) /\ dmem' = dmem
    BY <1>1, <2>1 DEF Served
  <2>4. Intact(z) /\ z \in Replies
    <3>1. 2 \in 2 .. Len(answers)
      BY <2>3
    <3> QED BY <2>1, <3>1 DEF Served, Intact
  <2> HIDE DEF z
  <2>5. ServedBy(z)'
    <3>1. CASE cur.op = "read" /\ z = Ans("data", cur.no, cur.blk, dmem[cur.blk]) /\ dmem' = dmem
      <4>1. z.ans = "data" /\ z.no = cur.no /\ z.blk = cur.blk /\ z.val = dmem[cur.blk]
        BY <3>1 DEF Ans
      <4> QED BY <2>4, <3>1, <4>1 DEF ServedBy, AnswersCur
    <3>2. CASE /\ cur.op = "write" /\ z = Ans("OK", cur.no, cur.blk, Old)
               /\ dmem' = [dmem EXCEPT ![cur.blk] = Written(cur.no)]
      <4>1. z.ans = "OK" /\ z.no = cur.no /\ z.blk = cur.blk
        BY <3>2 DEF Ans
      <4>2. dmem'[cur.blk] = Written(cur.no)
        BY <2>2, <3>2
      <4> QED BY <2>4, <3>2, <4>1, <4>2 DEF ServedBy, AnswersCur
    <3>3. CASE world.errors /\ z = Ans("E", cur.no, cur.blk, Old)
      <4>1. z.ans = "E" /\ z.no = cur.no /\ z.blk = cur.blk
        BY <3>3 DEF Ans
      <4> QED BY <2>4, <3>3, <4>1, Zenon DEF ServedBy, AnswersCur
    <3> QED BY <2>3, <3>1, <3>2, <3>3
  <2>6. Transferred(cur.blk - 1)'
    <3> SUFFICES ASSUME ~world.errors, NEW b \in 1 .. cur.blk - 1
                 PROVE  IF cur.op = "read" THEN got'[b] = dmem'[b] ELSE dmem'[b] = Written(cur.no)
      BY DEF Transferred
    <3>1. IF cur.op = "read" THEN got[b] = dmem[b] ELSE dmem[b] = Written(cur.no)
      BY DEF Transferred
    <3>2. b # cur.blk
      BY <2>2
    <3>3. dmem' = dmem \/ dmem' = [dmem EXCEPT ![cur.blk] = Written(cur.no)]
      BY <2>3
    <3>4. dmem'[b] = dmem[b]
      <4>1. b \in 1 .. Blocks
        BY <2>2, TypeFacts
      <4> HIDE DEF Transferred
      <4> QED BY <2>2, <3>2, <3>3, <4>1
    <3> QED BY <3>1, <3>4
  <2> QED BY <1>2, <2>3, <2>5, <2>6 DEF z
<1> QED BY <1>3, <1>4

\* A command that has been sent is taken.
LEMMA CommandTakenAns ==
  ASSUME TInv, TInv', AInv, ServerTakes, Head(toServer) # Ack
  PROVE  AInv'
<1> SUFFICES ASSUME GoodAnswers', link' = "up" PROVE AInv'
  BY DEF AInv
<1>1. /\ GoodAnswers /\ link = "up" /\ toServer # <<>> /\ toServer' = Tail(toServer)
      /\ UNCHANGED <<world, pc, cur, view, got>>
  BY DEF ServerTakes, GoodAnswers, host
<1> DEFINE x == Head(toServer)
<1>2. PICK answers \in Seq(ToHost) : Says(answers) /\ Given(x, answers)
  BY ServerAnswers
<1>3. ~(toServer \in Seq({Ack})) /\ x # Ack
  BY <1>1
<1>4. toServer \in Seq(ToServer(cur.no)) /\ toHost \in Seq(ToHost)
  BY TypeFacts
<1>5. ASSUME NEW B, NEW L, NEW A, InOrder(toServer, B, L, A)
      PROVE  \/ x \in B /\ InOrder(toServer', B, L, A)
             \/ x \in L /\ toServer' \in Seq(A)
  BY <1>1, <1>4, <1>5, InOrderTail
<1> HIDE DEF x
<1>6. ~Drained /\ ~ResetAnswered
  BY <1>3 DEF Drained, ResetAnswered
<1>7. \A A : A \subseteq {Ack} => Seq(A) \subseteq Seq({Ack})
  OBVIOUS
<1>8. CASE pc = "idle"
  <2>1. view = "running" /\ ~(cur.op \in {"read", "write"})
    BY <1>1, <1>6, <1>8 DEF AInv
  <2>2. InOrder(toServer, {Ack}, Runs, {}) /\ toHost = <<>> /\ contd = 0
    BY <1>1, <1>3, <1>8, <2>1 DEF AInv, Running
  <2>3. x \in Runs /\ toServer' \in Seq({Ack})
    BY <1>3, <1>5, <1>7, <2>2
  <2>4. toHost' = Append(toHost, Ack)
    BY <1>2, <2>3, RunServed
  <2>5. toHost' = <<Ack>>
    BY <2>2, <2>4
  <2>6. Running'
    <3>1. toHost' \in Seq(Noise) /\ toHost' # <<>> /\ toHost'[1] = Ack
      BY <2>5, NoiseFacts
    <3> QED BY <2>3, <3>1 DEF Running, Noise
  <2> QED BY <1>1, <1>8, <2>1, <2>6 DEF AInv
<1>9. ASSUME NEW After, After \subseteq {Ack}, ResetSent(After)
      PROVE  /\ ResetSent(After)' \/ ResetAnswered'
             /\ AckFirst => AckFirst'
  <2>1. InOrder(toServer, {Ack} \cup Runs, {Cmd(cur, "reset")}, After) /\ toHost \in Seq(Noise)
    BY <1>9 DEF ResetSent
  <2>2. CASE x \in Runs /\ InOrder(toServer', {Ack} \cup Runs, {Cmd(cur, "reset")}, After)
    <3>1. toHost' = Append(toHost, Ack) /\ Ack \in ToHost
      BY <1>2, <2>2, RunServed
    <3>2. toHost' \in Seq(Noise)
      BY <2>1, <3>1, NoiseFacts, AppendElements
    <3>3. ResetSent(After)'
      BY <1>1, <2>2, <3>2 DEF ResetSent, Runs, Noise
    <3>4. toHost' # <<>> /\ (toHost # <<>> => toHost'[1] = toHost[1]) /\ (toHost = <<>> => toHost'[1] = Ack)
      BY <1>4, <3>1
    <3>5. AckFirst => AckFirst'
      BY <3>4 DEF AckFirst
    <3> QED BY <3>3, <3>5
  <2>3. CASE x = Cmd(cur, "reset") /\ toServer' \in Seq(After)
    <3>1. /\ target' = "halted" /\ InOrder(toHost', Noise, AnswersCur({"OK"})', {})
          /\ toHost' # <<>> /\ (toHost = <<>> => toHost'[1] = Ack)
          /\ (toHost # <<>> => toHost'[1] = toHost[1])
      BY <1>1, <1>2, <2>1, <2>3, ResetServed
    <3>2. toServer' \in Seq({Ack})
      BY <1>7, <1>9, <2>3
    <3>3. ResetAnswered'
      BY <3>1, <3>2 DEF ResetAnswered, Noise
    <3>4. AckFirst => AckFirst'
      BY <3>1 DEF AckFirst
    <3> QED BY <3>3, <3>4
  <2> QED BY <1>3, <1>5, <2>1, <2>2, <2>3
<1>10. CASE pc \in {"ack", "reply"} /\ cur.op = "reset"
  <2>1. pc = "ack" => AckFirst /\ ResetSent({})
    BY <1>1, <1>6, <1>10 DEF AInv
  <2>2. pc = "reply" => ResetSent({Ack})
    BY <1>1, <1>6, <1>10 DEF AInv
  <2>3. pc = "ack" => AckFirst' /\ (ResetSent({})' \/ ResetAnswered')
    BY <1>9, <2>1
  <2> DEFINE A == {Ack}
  <2> HIDE DEF A
  <2>4. A = {Ack} /\ (pc = "reply" => ResetSent(A))
    BY <2>2 DEF A
  <2>5. pc = "reply" => ResetSent(A)' \/ ResetAnswered'
    BY <1>9, <2>4
  <2>6. pc = "reply" => ResetSent({Ack})' \/ ResetAnswered'
    BY <2>5 DEF A
  <2> QED BY <1>1, <1>10, <2>3, <2>6 DEF AInv
<1>11. CASE pc \in {"ack", "reply"} /\ cur.op \in {"read", "write"}
  <2>1. pc = "ack" /\ TransferSent /\ view = "halted" /\ target = "halted" /\ Transferred(cur.blk - 1)
    BY <1>1, <1>3, <1>11 DEF AInv, Transferring
  <2>2. toHost = <<>> /\ x \in {Cmd(cur, cur.op), [Cmd(cur, cur.op) EXCEPT !.ok = FALSE]} /\ toServer' \in Seq({Ack})
    BY <1>3, <1>5, <1>7, <2>1 DEF TransferSent
  <2>3. /\ target' = "halted" /\ Transferred(cur.blk - 1)'
        /\ \/ toHost' = <<Nack>>
           \/ Len(toHost') = 2 /\ toHost'[1] = Ack /\ ServedBy(toHost[2])'
    BY <1>1, <1>2, <1>11, <2>1, <2>2, TransferServed
  <2>4. Transferring'
    BY <1>1, <2>1, <2>2, <2>3 DEF Transferring
  <2> QED BY <1>1, <1>11, <2>4 DEF AInv
<1>12. pc \in {"stop", "empty"} => AInv'
  BY <1>1 DEF AInv
<1>13. pc \in {"idle", "ack", "reply", "stop", "empty"} /\ (pc \in {"ack", "reply"} => cur.op \in {"reset", "read", "write"})
  BY DEF TInv, Types, TypeOK, Waits
<1> QED BY <1>8, <1>10, <1>11, <1>12, <1>13

--------------------------------------------------------------------------
(* The inductive invariant, and what follows from it.                      *)

LEMMA InitIInv == Init => IInv
  BY InitTypes, InitCalm, InitAns DEF IInv

\* Every step keeps the invariant of the types, of calm and of the answers.
LEMMA NextIInv == IInv /\ [Next]_vars => IInv'
<1> SUFFICES ASSUME IInv, [Next]_vars PROVE IInv'
  OBVIOUS
<1>1. TInv /\ CInv /\ AInv
  BY DEF IInv
<1>2. TInv'
  BY <1>1, NextTypes
<1>3. CASE CallReset \/ CallRun \/ \E n \in 1 .. Blocks : CallRead(n) \/ CallWrite(n)
  BY <1>1, <1>2, <1>3, CallCalm, CallResetAns, CallRunAns, CallTransferAns DEF IInv
<1>4. CASE CallStop
  <2>1. pc' = "stop"
    BY <1>4 DEF CallStop
  <2> QED BY <1>1, <1>2, <1>4, <2>1, CallStopCalm, StopAns DEF IInv
<1>5. CASE GetAck
  BY <1>1, <1>2, <1>5, GetAckCalm, GetAckAns DEF IInv
<1>6. CASE ResetReply \/ ReadReply \/ WriteReply
  BY <1>1, <1>2, <1>6, CallReplyCalm, ResetReplyAns, TransferReplyAns DEF IInv
<1>7. CASE StopReply
  <2>1. pc' \in {"stop", "empty"}
    BY <1>7 DEF StopReply
  <2> QED BY <1>1, <1>2, <1>7, <2>1, StopReplyCalm, StopAns DEF IInv
<1>8. CASE DiscardAll
  BY <1>1, <1>2, <1>8, DiscardAllCalm, DiscardAllAns DEF IInv
<1>9. CASE LinkDown \/ LinkFails
  BY <1>1, <1>2, <1>9, LinkCalm, LinkAns DEF IInv
<1>10. CASE ServerTakes
  BY <1>1, <1>2, <1>10, ServerTakesCalm, AckTakenAns, CommandTakenAns DEF IInv
<1>11. CASE Target
  BY <1>1, <1>2, <1>11, TargetCalm, TargetAns DEF IInv
<1>12. CASE Corrupt
  BY <1>1, <1>2, <1>12, CorruptCalm, CorruptAns DEF IInv
<1>13. CASE UNCHANGED vars
  <2>1. UNCHANGED <<world, pc, cur, ret, view, got, toServer, toHost, link, target, contd, dmem, lastReply, corrupted>>
    BY <1>13 DEF vars, host, server
  <2>2. CInv'
    BY <1>1, <2>1 DEF CInv, Calm, GoodAnswers, AnswersWhole, InHost, InServer, NothingSpoiled, NoTransfer,
       MayEcho, NoEcho, EmptySent, EmptyAnswered
  <2>3. /\ Drained => Drained'
        /\ Running => Running'
        /\ AckFirst => AckFirst'
        /\ ResetSent({}) => ResetSent({})'
        /\ ResetSent({Ack}) => ResetSent({Ack})'
        /\ ResetAnswered => ResetAnswered'
    BY <2>1 DEF Drained, Running, AckFirst, ResetSent, ResetAnswered, AnswersCur, Noise, Runs
  <2>4. Transferring => Transferring'
    BY <2>1 DEF Transferring, TransferSent, ServedBy, AnswersCur, Transferred
  <2>5. Transferred(cur.blks) => Transferred(cur.blks)'
    BY <2>1 DEF Transferred
  <2>6. AInv'
    BY <1>1, <2>1, <2>3, <2>4, <2>5 DEF AInv, GoodAnswers
  <2> QED BY <1>2, <2>2, <2>6 DEF IInv
<1> QED BY <1>3, <1>4, <1>5, <1>6, <1>7, <1>8, <1>9, <1>10, <1>11, <1>12, <1>13 DEF Next, Calls, Answers, Ends

\* The connection holds what the call in progress waits for, in order, and
\* what calls before it have left there is no answer that it could take.
THEOREM IInvHolds == Spec => []IInv
<1>1. Init => IInv
  BY InitIInv
<1>2. IInv /\ [Next]_vars => IInv'
  BY NextIInv
<1> QED BY <1>1, <1>2, PTL DEF Spec

\* Whatever the server does and the target prints, a call of the OpenOCD driver
\* takes the answer to the block it asked for and to no other, and an ack is
\* there when it reads one: gdb_remote_send and gdb_remote_recv in the calls
\* of gdb_remote.c.
LEMMA IInvAnswers == IInv => AnswersAreForRequests
<1> SUFFICES ASSUME IInv, GoodAnswers PROVE
      /\ pc = "ack" /\ toHost # <<>> => ~IsPacket(Head(toHost))
      /\ pc = "reply" /\ Arrived =>
           \/ Next1.no = cur.no /\ Next1.blk = cur.blk
           \/ cur.op = "reset" /\ Answer # "OK"
  BY DEF AnswersAreForRequests
<1>1. TInv /\ AInv
  BY DEF IInv
<1>2. ~IsPacket(Ack) /\ ~IsPacket(Nack)
  BY CommandTypes
<1>3. toHost # <<>> => Head(toHost) = toHost[1] /\ link = "up"
  BY <1>1, TypeFacts, TailElements
<1>4. Arrived => toHost # <<>> /\ link = "up"
  BY <1>1, TypeFacts DEF Arrived
<1>5. pc \in {"ack", "reply"} => cur.op \in {"reset", "read", "write"}
  BY <1>1 DEF TInv, Waits
<1>6. ASSUME pc = "ack", toHost # <<>> PROVE ~IsPacket(Head(toHost))
  <2>1. CASE cur.op = "reset"
    BY <1>1, <1>2, <1>3, <1>6, <2>1 DEF AInv, AckFirst
  <2>2. CASE cur.op \in {"read", "write"}
    <3>1. Transferring
      BY <1>1, <1>3, <1>6, <2>2 DEF AInv
    <3>2. toHost = <<Nack>> \/ toHost[1] = Ack
      BY <1>6, <3>1 DEF Transferring, TransferSent
    <3> QED BY <1>2, <1>3, <1>6, <3>2
  <2> QED BY <1>5, <1>6, <2>1, <2>2
<1>7. ASSUME pc = "reply", Arrived, cur.op = "reset"
      PROVE  (Next1.no = cur.no /\ Next1.blk = cur.blk) \/ Answer # "OK"
  <2>1. /\ Next1 \in InHost /\ Next1 \in Replies
    BY <1>1, <1>7, TakeFirst
  <2>2. CASE ResetSent({Ack})
    <3>1. InHost \subseteq Noise
      BY <2>2, RangeOf DEF ResetSent, InHost
    <3>2. Next1.ans \in {"O", "T"}
      BY <2>1, <3>1, NoiseFacts
    <3> QED BY <3>2 DEF Answer, Clean
  <2>3. CASE ResetAnswered
    <3>1. InHost \subseteq Noise \cup AnswersCur({"OK"}) \cup {}
      BY <1>1, <2>3, TypeFacts, InOrderElements DEF ResetAnswered, InHost
    <3>2. CASE Next1 \in Noise
      <4>1. Next1.ans \in {"O", "T"}
        BY <2>1, <3>2, NoiseFacts
      <4> QED BY <4>1 DEF Answer, Clean
    <3>3. CASE Next1 \in AnswersCur({"OK"})
      BY <3>3 DEF AnswersCur
    <3> QED BY <2>1, <3>1, <3>2, <3>3
  <2> QED BY <1>1, <1>4, <1>7, <2>2, <2>3 DEF AInv
<1>8. ASSUME pc = "reply", Arrived, cur.op \in {"read", "write"}
      PROVE  Next1.no = cur.no /\ Next1.blk = cur.blk
  <2>1. Len(toHost) = 1 /\ ServedBy(toHost[1])
    BY <1>1, <1>4, <1>8 DEF AInv, Transferring
  <2>2. First \in 1 .. Len(toHost) /\ Next1 = toHost[First]
    BY <1>1, <1>8, TakeFirst
  <2>3. Next1 = toHost[1]
    BY <2>1, <2>2
  <2> QED BY <2>1, <2>3 DEF ServedBy, AnswersCur
<1> QED BY <1>5, <1>6, <1>7, <1>8

\* The answer taken is that to the block asked for: AnswersAreForRequests.
THEOREM AnswersMatch == Spec => []AnswersAreForRequests
<1>1. IInv => AnswersAreForRequests
  BY IInvAnswers
<1> QED BY <1>1, IInvHolds, PTL

\* When gdb_remote_reset or gdb_remote_stop has told its caller that the target
\* is halted, it is, and no old answer is left for a later call.
THEOREM HaltedIsDrained == Spec => []HaltedAndDrained
<1>1. IInv => HaltedAndDrained
  <2> SUFFICES ASSUME IInv, GoodAnswers, pc = "idle", view = "halted", link = "up"
               PROVE  target = "halted" /\ ~Arrived
    BY DEF HaltedAndDrained
  <2>1. Drained /\ target = "halted"
    BY DEF IInv, AInv
  <2> QED BY <2>1 DEF Drained, Arrived
<1> QED BY <1>1, IInvHolds, PTL

\* A transfer that succeeds against a server that answers no error has moved
\* every block: gdb_remote_read_mem and gdb_remote_write_mem, however often the
\* server refused a command.
THEOREM TransfersAreComplete == Spec => []TransfersComplete
<1>1. IInv => TransfersComplete
  <2> SUFFICES ASSUME IInv, GoodAnswers, ~world.errors, pc = "idle", link = "up", cur.op \in {"read", "write"}
               PROVE  \A b \in 1 .. cur.blks :
                        IF cur.op = "read" THEN got[b] = dmem[b] ELSE dmem[b] = Written(cur.no)
    BY DEF TransfersComplete, WriteMeansStored, ReadMeansLoaded
  <2>1. Transferred(cur.blks)
    BY DEF IInv, AInv
  <2> QED BY <2>1 DEF Transferred
<1> QED BY <1>1, IInvHolds, PTL

\* A stop that returns CL_SUCCESS has halted the target and taken every answer
\* there was in the connection: gdb_remote_stop, gdb_remote_discard_all.
THEOREM StopsResynchronize == Spec => []StopResynchronizes
<1>1. IInv => StopResynchronizes
  BY DEF IInv, CInv, Calm, StopResynchronizes
<1> QED BY <1>1, IInvHolds, PTL


--------------------------------------------------------------------------
(* The driver as a device.  Beside IInv the proof needs to know that the   *)
(* target stays halted under a caller that believes it is, when the link   *)
(* has broken too, and which blocks a transfer may have moved by now.      *)

\* Read or write in progress, or a caller that may begin one.
AtRest == (pc = "idle" /\ view = "halted") \/ (pc # "idle" /\ cur.op \in {"read", "write"})

RestInv == link = "down" /\ AtRest => target = "halted"

\* Blocks of a write are the caller's or what they were; blocks in the buffer
\* g of a read are those of memory or were never filled.
Landed == \A b \in 1 .. Blocks :
  dmem[b] = before[b] \/ (b <= cur.blks /\ dmem[b] = Written(cur.no))
Loading(g) == \A b \in 1 .. Blocks : g[b] = Old \/ (b <= cur.blks /\ g[b] = dmem[b])

MemInv ==
  /\ before \in [1 .. Blocks -> Values]
  /\ ~During("write") => before = dmem
  /\ During("write") => Landed
  /\ During("read") => Loading(got)

DeviceInv == IInv /\ GoodAnswers /\ RestInv /\ MemInv

Errs == {"CL_INVALID_DEVICE", "CL_OUT_OF_RESOURCES", "CL_OUT_OF_HOST_MEMORY"}

\* A run command on its way, as an element of the queue.
LEMMA RunIsSent ==
  ASSUME TInv
  PROVE  RunSent <=> \E x \in InServer : x \in Commands /\ x.cmd = "run"
<1>1. toServer \in Seq(ToServer(cur.no)) /\ DOMAIN toServer = 1 .. Len(toServer)
  BY TypeFacts
<1>2. \A x : x \in InServer <=> \E i \in 1 .. Len(toServer) : x = toServer[i]
  BY <1>1, RangeOf DEF InServer
<1>3. \A x \in InServer : IsPacket(x) <=> x \in Commands
  BY QueueElements
<1> QED BY <1>1, <1>2, <1>3 DEF RunSent

LEMMA RunIsSentNext ==
  ASSUME TInv'
  PROVE  RunSent' <=> \E x \in InServer' : x \in Commands /\ x.cmd = "run"
<1>1. toServer' \in Seq(ToServer(cur'.no)) /\ DOMAIN toServer' = 1 .. Len(toServer') /\ cur'.no \in Nat
  BY TypeFactsNext
<1>2. /\ InServer' \subseteq ToServer(cur'.no)
      /\ \A x : x \in InServer' <=> \E i \in 1 .. Len(toServer') : x = toServer'[i]
  BY QueueElementsNext
<1>3. \A x \in InServer' : IsPacket(x) <=> x \in Commands
  BY <1>1, <1>2, ServerMessages
<1> QED BY <1>1, <1>2, <1>3 DEF RunSent

LEMMA CharsRange ==
  ASSUME NEW X, NEW s \in Seq(X), Ack \in X, Nack \in X,
         NEW first, first = <<>> \/ first = <<Ack>> \/ first = <<Nack>>
  PROVE  s \o first \in Seq(X) /\ \E C \in SUBSET {Ack, Nack} : Range(s \o first) = Range(s) \cup C
<1>1. CASE first = <<>>
  <2>1. s \o first = s /\ {} \in SUBSET {Ack, Nack} /\ Range(s) \cup {} = Range(s)
    BY <1>1, ConcatAppend
  <2> QED BY <2>1
<1>2. ASSUME NEW c \in {Ack, Nack}, first = <<c>>
      PROVE  s \o first \in Seq(X) /\ Range(s \o first) = Range(s) \cup {c}
  <2>1. c \in X
    OBVIOUS
  <2>2. s \o first = Append(s, c)
    BY <1>2, <2>1, ConcatAppend
  <2> QED BY <2>1, <2>2, AppendElements, RangeAppend
<1>3. {Ack} \in SUBSET {Ack, Nack} /\ {Nack} \in SUBSET {Ack, Nack}
  OBVIOUS
<1> QED BY <1>1, <1>2, <1>3

\* What the driver sends in answer to a packet, and a command that is no run.
LEMMA CharsStay ==
  ASSUME TInv, TInv', NEW first, first = <<>> \/ first = <<Ack>> \/ first = <<Nack>>,
         toServer' = toServer \o first
  PROVE  RunSent' <=> RunSent
<1> DEFINE X == ToServer(cur.no)
<1>1. Ack \in X /\ Nack \in X /\ toServer \in Seq(X) /\ Ack \notin Commands /\ Nack \notin Commands
  BY TypeFacts, ServerMessages, CommandTypes
<1> HIDE DEF X
<1>2. PICK C \in SUBSET {Ack, Nack} : InServer' = InServer \cup C
  BY <1>1, CharsRange DEF InServer
<1> QED BY <1>1, <1>2, RunIsSent, RunIsSentNext

LEMMA CommandStays ==
  ASSUME TInv, TInv', NEW first, first = <<>> \/ first = <<Ack>> \/ first = <<Nack>>,
         NEW c \in CurType, NEW name \in {"reset", "read", "write", "empty"},
         toServer' = toServer \o first \o <<Cmd(c, name)>>, c.no >= cur.no
  PROVE  RunSent' <=> RunSent
<1> DEFINE X == ToServer(c.no)
           x == Cmd(c, name)
           q == toServer \o first
<1>1. c.no \in Nat /\ cur.no \in Nat /\ toServer \in Seq(X)
  <2>1. c.no \in Nat
    BY DEF CurType
  <2> QED BY <2>1, TypeFacts, Widen
<1>2. x \in Commands /\ x.cmd = name /\ x.no = c.no
  BY CmdType
<1>3. Ack \in X /\ Nack \in X /\ x \in X /\ Ack \notin Commands /\ Nack \notin Commands
  BY <1>1, <1>2, ServerMessages, CommandTypes
<1>4. toServer' = q \o <<x>>
  OBVIOUS
<1> HIDE DEF X, x
<1>5. q \in Seq(X) /\ \E C \in SUBSET {Ack, Nack} : Range(q) = InServer \cup C
  BY <1>1, <1>3, CharsRange DEF InServer
<1> HIDE DEF q
<1>6. InServer' = Range(q) \cup {x}
  <2>1. toServer' = Append(q, x)
    BY <1>3, <1>4, <1>5, ConcatAppend
  <2>2. Range(Append(q, x)) = Range(q) \cup {x}
    BY <1>3, <1>5, RangeAppend
  <2> QED BY <2>1, <2>2 DEF InServer
<1> QED BY <1>2, <1>3, <1>5, <1>6, RunIsSent, RunIsSentNext

LEMMA OneCommandStays ==
  ASSUME TInv, TInv', NEW c \in CurType, NEW name \in {"reset", "read", "write", "empty"},
         toServer' = Append(toServer, Cmd(c, name)), c.no >= cur.no
  PROVE  RunSent' <=> RunSent
<1> DEFINE X == ToServer(c.no)
           x == Cmd(c, name)
<1>1. c.no \in Nat /\ cur.no \in Nat /\ toServer \in Seq(X)
  <2>1. c.no \in Nat
    BY DEF CurType
  <2> QED BY <2>1, TypeFacts, Widen
<1>2. x \in Commands /\ x.no = c.no
  BY CmdType
<1>3. x \in X
  BY <1>1, <1>2, ServerMessages
<1> HIDE DEF X, x
<1>4. toServer \o <<>> = toServer /\ toServer \o <<x>> = Append(toServer, x)
  BY <1>1, <1>3, ConcatAppend
<1>5. toServer' = toServer \o <<>> \o <<x>>
  BY <1>4 DEF x
<1> QED BY <1>5, CommandStays DEF x

\* No run command is on its way to a target at rest, and the target is halted.
LEMMA RestHalted ==
  ASSUME DeviceInv, AtRest
  PROVE  target = "halted" /\ ~RunSent
<1>1. TInv /\ AInv /\ GoodAnswers
  BY DEF DeviceInv, IInv
<1>2. toServer \in Seq({Ack}) => ~RunSent
  <2> SUFFICES ASSUME toServer \in Seq({Ack}) PROVE ~RunSent
    OBVIOUS
  <2>1. InServer \subseteq {Ack} /\ Ack \notin Commands
    BY RangeOf, CommandTypes DEF InServer
  <2> QED BY <1>1, <2>1, RunIsSent
<1>3. CASE link = "down"
  <2>1. toServer = <<>> /\ <<>> \in Seq({Ack})
    BY <1>1, <1>3, TypeFacts
  <2> QED BY <1>2, <1>3, <2>1 DEF DeviceInv, RestInv
<1>4. CASE link = "up" /\ pc = "idle"
  BY <1>1, <1>2, <1>4 DEF AInv, Drained, AtRest
<1>5. CASE link = "up" /\ pc # "idle"
  <2>1. cur.op \in {"read", "write"} /\ Transferring
    BY <1>1, <1>5, TypeFacts DEF AtRest, TInv, Waits, AInv, HostTypes
  <2>2. CASE TransferSent
    <3> DEFINE c == Cmd(cur, cur.op)
               d == [c EXCEPT !.ok = FALSE]
    <3>1. InServer \subseteq {Ack} \cup {c, d} \cup {}
      BY <1>1, <2>2, TypeFacts, InOrderElements DEF TransferSent, InServer
    <3>2. c.cmd = cur.op /\ d.cmd = cur.op /\ Ack \notin Commands
      BY CommandTypes DEF Cmd
    <3> QED BY <1>1, <2>1, <3>1, <3>2, RunIsSent DEF Transferring
  <2> QED BY <1>2, <2>1, <2>2 DEF Transferring
<1> QED BY <1>1, <1>3, <1>4, <1>5, TypeFacts

\* What every step of a call in progress does to the device's mapped state.
CallGoesOn ==
  /\ cur'.op = cur.op /\ cur'.no = cur.no /\ cur'.blks = cur.blks
  /\ RunSent' <=> RunSent
  /\ pc' # "idle" => ret' = ret

CallMoves ==
  /\ pc # "idle" /\ UNCHANGED <<world, link, target, dmem>> /\ CallGoesOn
  /\ IF cur.op = "read" THEN Loading(got)' ELSE got' = got
  /\ pc' = "idle" =>
       \/ ret' = "CL_SUCCESS" /\ (cur.op \in {"reset", "stop"} => link = "up" /\ view' = "halted")
       \/ ret' \in Errs /\ link = "down"
  /\ link = "down" /\ pc' = "idle" /\ view' = "halted" => cur.op \in {"read", "write"}

LEMMA TransmitGoesOn ==
  ASSUME TInv, TInv', NEW first, first = <<>> \/ first = <<Ack>> \/ first = <<Nack>>,
         NEW c \in CurType, c.op \in {"reset", "read", "write"}, c.no >= cur.no, Transmit(first, c)
  PROVE  /\ cur' = c /\ (RunSent' <=> RunSent)
         /\ pc' # "idle" => link = "up" /\ UNCHANGED <<ret, view>>
         /\ pc' = "idle" => /\ link = "down" /\ ret' \in {"CL_SUCCESS", "CL_OUT_OF_RESOURCES"}
                            /\ ret' = "CL_SUCCESS" <=> c.op = "write"
                            /\ view' = IF c.op = "write" THEN view ELSE "unknown"
<1>1. CASE link = "up" /\ pc' = "ack" /\ UNCHANGED <<ret, view>>
           /\ toServer' = toServer \o first \o <<Cmd(c, c.op)>>
  <2>1. RunSent' <=> RunSent
    BY <1>1, CommandStays
  <2> QED BY <1>1, <2>1 DEF Transmit
<1>2. CASE /\ link = "down" /\ UNCHANGED toServer
           /\ Return(IF c.op = "write" THEN "CL_SUCCESS" ELSE "CL_OUT_OF_RESOURCES", view)
  <2>1. RunSent' <=> RunSent
    BY <1>2 DEF RunSent
  <2> QED BY <1>2, <2>1 DEF Transmit, Return
<1> QED BY <1>1, <1>2 DEF Transmit

LEMMA NextBlockGoesOn ==
  ASSUME TInv, TInv', NEW first, first = <<>> \/ first = <<Ack>> \/ first = <<Nack>>,
         cur.op \in {"read", "write"}, NextBlock(first)
  PROVE  /\ CallGoesOn
         /\ pc' = "idle" => ret' = "CL_SUCCESS" \/ (ret' = "CL_OUT_OF_RESOURCES" /\ link = "down")
<1>1. CASE cur.blk < cur.blks /\ Transmit(first, [cur EXCEPT !.blk = @ + 1])
  <2> DEFINE c == [cur EXCEPT !.blk = @ + 1]
  <2>1. c \in CurType /\ c.op = cur.op /\ c.no = cur.no /\ c.blks = cur.blks
    <3>1. cur \in CurType /\ cur.blk + 1 \in 1 .. Blocks
      BY <1>1, TypeFacts
    <3> QED BY <3>1 DEF CurType
  <2>2. Transmit(first, c)
    BY <1>1
  <2> HIDE DEF c
  <2>3. c.no >= cur.no
    BY <2>1, TypeFacts
  <2> QED BY <2>1, <2>2, <2>3, TransmitGoesOn DEF CallGoesOn
<1>2. CASE Return("CL_SUCCESS", view) /\ UNCHANGED cur /\ toServer' = toServer \o first
  <2>1. RunSent' <=> RunSent
    BY <1>2, CharsStay
  <2> QED BY <1>2, <2>1 DEF Return, CallGoesOn
<1> QED BY <1>1, <1>2 DEF NextBlock

\* A packet is in the connection only while it holds.
LEMMA ArrivedUp == TInv /\ (Arrived \/ toHost # <<>>) => link = "up"
<1>1. ASSUME TInv, Arrived \/ toHost # <<>> PROVE link = "up"
  <2>1. toHost = <<>> => ~Arrived
    BY DEF Arrived
  <2> QED BY <1>1, <2>1, TypeFacts
<1> QED BY <1>1

LEMMA GetAckMoves ==
  ASSUME DeviceInv, TInv', GetAck
  PROVE  CallMoves
<1>1. /\ TInv /\ GoodAnswers /\ pc = "ack" /\ toHost # <<>> /\ got' = got
      /\ UNCHANGED <<world, link, target, dmem>> /\ link = "up"
  BY ArrivedUp DEF DeviceInv, IInv, GetAck, Keep, server
<1>2. Head(toHost) \in ToHost /\ ~IsPacket(Head(toHost))
  <2>1. ~IsPacket(Head(toHost))
    BY <1>1, IInvAnswers DEF DeviceInv, AnswersAreForRequests
  <2> QED BY <1>1, <2>1, TypeFacts, TailElements
<1>3. cur.op \in {"reset", "read", "write"} /\ (cur.op = "read" => Loading(got))
  BY <1>1 DEF TInv, Waits, DeviceInv, MemInv, During
<1>4. Loading(got)' <=> Loading(got)
  <2>1. cur' = cur
    BY <1>2, <1>1 DEF GetAck
  <2> QED BY <1>1, <2>1 DEF Loading
<1>5. CASE pc' = "reply" /\ UNCHANGED <<cur, ret, view, toServer>>
  <2>1. RunSent' <=> RunSent
    BY <1>5 DEF RunSent
  <2> QED BY <1>1, <1>3, <1>4, <1>5, <2>1 DEF CallMoves, CallGoesOn
<1>6. CASE toServer' = Append(toServer, Cmd(cur, cur.op)) /\ UNCHANGED <<pc, cur, ret, view>>
  <2>1. cur \in CurType /\ cur.no >= cur.no
    BY <1>1, TypeFacts
  <2>2. RunSent' <=> RunSent
    BY <1>1, <1>3, <1>6, <2>1, OneCommandStays
  <2> QED BY <1>1, <1>3, <1>4, <1>6, <2>2 DEF CallMoves, CallGoesOn
<1> QED BY <1>1, <1>2, <1>5, <1>6 DEF GetAck

LEMMA TransferReplyMoves ==
  ASSUME DeviceInv, TInv', ReadReply \/ WriteReply
  PROVE  CallMoves
<1>1. /\ TInv /\ AInv /\ GoodAnswers /\ pc = "reply" /\ Arrived /\ Take /\ NextBlock(AckChar)
      /\ UNCHANGED <<world, link, target, dmem>> /\ link = "up" /\ cur.op \in {"read", "write"}
      /\ (cur.op = "read" => ReadReply) /\ (cur.op = "write" => got' = got)
  BY ArrivedUp DEF DeviceInv, IInv, ReadReply, WriteReply, Keep, server
<1>2. /\ CallGoesOn
      /\ pc' = "idle" => ret' = "CL_SUCCESS" \/ (ret' = "CL_OUT_OF_RESOURCES" /\ link = "down")
  BY <1>1, OneChar, NextBlockGoesOn
<1>3. ASSUME cur.op = "read" PROVE Loading(got)'
  <2>1. Loading(got) /\ Len(toHost) = 1 /\ ServedBy(toHost[1])
    BY <1>1, <1>3 DEF AInv, Transferring, DeviceInv, MemInv, During
  <2>2. Next1 = toHost[1] /\ Answer = toHost[1].ans
    BY <1>1, <2>1, OnlyAnswer
  <2>3. got' = got \/ got' = [got EXCEPT ![cur.blk] = dmem[cur.blk]]
    BY <1>1, <1>3, <2>1, <2>2 DEF ReadReply, ServedBy, AnswersCur
  <2>4. cur.blk <= cur.blks /\ cur.blk \in 1 .. Blocks /\ got \in [1 .. Blocks -> Values]
    BY <1>1, TypeFacts DEF HostTypes
  <2> QED BY <1>1, <1>2, <2>1, <2>3, <2>4 DEF Loading, CallGoesOn
<1> QED BY <1>1, <1>2, <1>3 DEF CallMoves, Errs

LEMMA OtherReplyMoves ==
  ASSUME DeviceInv, TInv', ResetReply \/ StopReply \/ DiscardAll
  PROVE  CallMoves
<1>1. /\ TInv /\ GoodAnswers /\ pc # "idle" /\ Arrived /\ link = "up" /\ cur' = cur /\ got' = got
      /\ UNCHANGED <<world, link, target, dmem>> /\ cur.op # "read"
  <2>1. TInv /\ GoodAnswers
    BY DEF DeviceInv, IInv
  <2>2. /\ pc # "idle" /\ Arrived /\ cur' = cur /\ got' = got /\ UNCHANGED <<world, link, target, dmem>>
        /\ (pc = "reply" /\ cur.op = "reset") \/ pc = "stop" \/ pc = "empty"
    <3>1. CASE ResetReply \/ StopReply
      BY <3>1 DEF ResetReply, StopReply, Keep, server
    <3>2. CASE DiscardAll
      <4>1. pc = "empty" /\ Arrived /\ UNCHANGED <<cur, got>> /\ Keep
        BY <3>2, Zenon DEF DiscardAll
      <4> QED BY <4>1 DEF Keep, server
    <3> QED BY <3>1, <3>2
  <2>3. cur.op # "read"
    BY <2>1, <2>2 DEF TInv, Waits
  <2> QED BY <2>1, <2>2, <2>3, ArrivedUp
<1>2. cur \in CurType /\ cur.no >= cur.no
  BY <1>1, TypeFacts
<1>3. CASE toServer' = toServer \o AckChar
  <2>1. RunSent' <=> RunSent
    BY <1>1, <1>3, OneChar, CharsStay
  <2>2. CASE UNCHANGED <<pc, ret, view>>
    BY <1>1, <2>1, <2>2 DEF CallMoves, CallGoesOn
  <2>3. CASE ResetReply /\ Return("CL_SUCCESS", "halted")
    BY <1>1, <2>1, <2>3 DEF CallMoves, CallGoesOn, Return
  <2>4. CASE /\ pc = "empty" /\ Return("CL_SUCCESS", IF cur.op = "stop" THEN "halted" ELSE "unknown")
    <3>1. cur.op \in {"probe", "stop"}
      BY <1>1, <2>4 DEF TInv, Waits
    <3> QED BY <1>1, <2>1, <2>4, <3>1 DEF CallMoves, CallGoesOn, Return
  <2>5. CASE StopReply /\ UNCHANGED pc
    BY <1>1, <2>1, <2>2, <2>5 DEF StopReply
  <2>6. world.driver = "openocd"
    BY <1>1 DEF GoodAnswers
  <2>7. CASE ResetReply
    BY <2>2, <2>3, <2>6, <2>7 DEF ResetReply
  <2>8. CASE DiscardAll
    <3>1. \/ pc = "empty" /\ Return("CL_SUCCESS", IF cur.op = "stop" THEN "halted" ELSE "unknown")
          \/ UNCHANGED <<pc, ret, view>>
      BY <2>8, Zenon DEF DiscardAll
    <3> QED BY <2>2, <2>4, <3>1
  <2>9. CASE pc' = "empty" /\ UNCHANGED <<ret, view>>
    BY <1>1, <2>1, <2>9 DEF CallMoves, CallGoesOn
  <2> QED BY <2>5, <2>7, <2>8, <2>9 DEF StopReply
<1>4. CASE pc' = "empty" /\ toServer' = toServer \o AckChar \o <<Cmd(cur, "empty")>> /\ UNCHANGED <<ret, view>>
  <2>1. "empty" \in {"reset", "read", "write", "empty"} /\ (AckChar = <<>> \/ AckChar = <<Ack>> \/ AckChar = <<Nack>>)
    BY OneChar
  <2>2. RunSent' <=> RunSent
    BY <1>1, <1>2, <1>4, <2>1, CommandStays
  <2> QED BY <1>1, <1>4, <2>2 DEF CallMoves, CallGoesOn
<1>5. CASE DiscardAll
  <2>1. toServer' = toServer \o AckChar
    BY <1>5, Zenon DEF DiscardAll
  <2> QED BY <1>3, <2>1
<1> QED BY <1>3, <1>4, <1>5 DEF ResetReply, StopReply

LEMMA LinkDownMoves ==
  ASSUME DeviceInv, TInv', LinkDown
  PROVE  CallMoves
<1>1. /\ TInv /\ link = "down" /\ pc # "idle" /\ got' = got /\ UNCHANGED <<world, link, target, dmem>>
      /\ cur.op = "read" => Loading(got)
  BY DEF DeviceInv, IInv, LinkDown, Keep, server, MemInv, During
<1>2. /\ pc = "ack" => cur.op \in {"reset", "read", "write"}
      /\ pc = "stop" => cur.op = "stop"
      /\ pc = "empty" => cur.op \in {"probe", "stop"}
  BY <1>1 DEF TInv, Waits
<1>3. CallGoesOn /\ cur.op = "read" => Loading(got)'
  BY <1>1 DEF CallGoesOn, Loading
<1>4. CASE cur.op \in {"read", "write"} /\ NextBlock(<<>>)
  <2>1. /\ CallGoesOn
        /\ pc' = "idle" => ret' = "CL_SUCCESS" \/ (ret' = "CL_OUT_OF_RESOURCES" /\ link = "down")
    BY <1>1, <1>4, NextBlockGoesOn
  <2> QED BY <1>1, <1>3, <1>4, <2>1 DEF CallMoves, Errs
<1>5. CASE /\ Return("CL_INVALID_DEVICE", view) \/ Return("CL_OUT_OF_HOST_MEMORY", view)
           /\ UNCHANGED <<cur, toServer>>
  <2>1. CallGoesOn
    BY <1>5 DEF CallGoesOn, RunSent, Return
  <2> QED BY <1>1, <1>3, <1>5, <2>1 DEF CallMoves, Errs, Return
<1>6. CASE pc = "empty" /\ UNCHANGED <<pc, cur, ret, view, toServer>>
  <2>1. CallGoesOn
    BY <1>6 DEF CallGoesOn, RunSent
  <2> QED BY <1>1, <1>2, <1>3, <1>6, <2>1 DEF CallMoves
<1> QED BY <1>2, <1>4, <1>5, <1>6 DEF LinkDown, NoAck

LEMMA AnswersMove ==
  ASSUME DeviceInv, TInv', Answers
  PROVE  CallMoves
  BY GetAckMoves, TransferReplyMoves, OtherReplyMoves, LinkDownMoves DEF Answers

\* The mapped state of a device in steps of the driver.
LEMMA SameNow ==
  ASSUME UNCHANGED <<world, link, target>>, RunSent' <=> RunSent
  PROVE  FaultsNow' = FaultsNow /\ DevNow' = DevNow
  BY DEF FaultsNow, DevNow

LEMMA SameOp ==
  ASSUME cur'.op = cur.op, cur'.no = cur.no, cur'.blks = cur.blks
  PROVE  OpNow' = OpNow
  BY DEF OpNow, Written

LEMMA GoesOn ==
  ASSUME MemInv, CallMoves, pc' # "idle", Remembers
  PROVE  UNCHANGED Port!portVars
<1>1. FaultsNow' = FaultsNow /\ DevNow' = DevNow /\ OpNow' = OpNow /\ ret' = ret
  BY SameNow, SameOp DEF CallMoves, CallGoesOn
<1>2. MemNow' = MemNow /\ BufNow' = BufNow
  BY DEF CallMoves, CallGoesOn, MemNow, BufNow, During, FreshBuffer, Remembers
<1>3. (pc # "idle") = (pc # "idle")'
  BY DEF CallMoves
<1> QED BY <1>1, <1>2, <1>3 DEF Port!portVars

\* How far a transfer has come when it returns.
Complete == \A b \in 1 .. cur.blks :
  IF cur.op = "read" THEN got'[b] = dmem[b] ELSE dmem[b] = Written(cur.no)

LEMMA TransferDone ==
  ASSUME GoodAnswers', AInv', CallMoves, pc' = "idle", cur.op \in {"read", "write"},
         link = "up", ~world.errors
  PROVE  Complete
<1>1. cur'.op = cur.op /\ cur'.no = cur.no /\ cur'.blks = cur.blks /\ UNCHANGED <<world, link, dmem>>
  BY DEF CallMoves, CallGoesOn
<1>2. Transferred(cur.blks)'
  BY <1>1 DEF AInv
<1> QED BY <1>1, <1>2 DEF Transferred, Complete, Written

LEMMA TransferMoved ==
  ASSUME TInv, GoodAnswers', AInv', CallMoves, pc' = "idle", cur.op \in {"read", "write"},
         NEW cells, cells \subseteq 0 .. cur.blks - 1, Complete => cells = 0 .. cur.blks - 1
  PROVE  Port!Moved(cells, cur.blks, ret')
<1>1. cur.blks \in Nat \ {0} /\ link \in {"up", "down"}
  BY TypeFacts
<1>2. CASE link = "down"
  <2>1. "report" \in FaultsNow /\ "silent" \in FaultsNow
    BY <1>2 DEF FaultsNow
  <2> QED BY <1>1, <2>1 DEF Port!Moved, Port!Reported, CallMoves, Errs
<1>3. CASE link = "up"
  <2>1. ret' = "CL_SUCCESS"
    BY <1>3 DEF CallMoves
  <2>2. CASE world.errors
    <3>1. "silent" \in FaultsNow
      BY <2>2 DEF FaultsNow
    <3> QED BY <1>1, <2>1, <3>1 DEF Port!Moved
  <2>3. CASE ~world.errors
    BY <1>3, <2>1, <2>3, TransferDone DEF Port!Moved
  <2> QED BY <2>2, <2>3
<1> QED BY <1>1, <1>2, <1>3

LEMMA WriteEnds ==
  ASSUME TInv, MemInv, GoodAnswers', AInv', CallMoves, pc' = "idle", cur.op = "write"
  PROVE  Port!Effect(OpNow, BufNow, ret')
<1> DEFINE cells == {o \in 0 .. cur.blks - 1 : dmem[o + 1] = Written(cur.no)}
           bytes == [o \in 0 .. cur.blks - 1 |-> Written(cur.no)]
<1>1. /\ cur.blks \in 1 .. Blocks /\ Blocks \in Nat /\ dmem \in [1 .. Blocks -> Values]
      /\ dmem' = dmem /\ pc # "idle"
  BY TypeFacts DEF ServerTypes, CallMoves
<1>2. MemNow = before /\ MemNow' = dmem /\ before \in [1 .. Blocks -> Values] /\ Landed
  BY <1>1 DEF MemNow, During, MemInv
<1>3. Complete => cells = 0 .. cur.blks - 1
  <2>1. ASSUME Complete, NEW o \in 0 .. cur.blks - 1 PROVE o \in cells
    <3>1. o + 1 \in 1 .. cur.blks
      BY <1>1
    <3> QED BY <2>1, <3>1 DEF Complete
  <2> QED BY <2>1
<1>4. cells \subseteq 0 .. cur.blks - 1
  OBVIOUS
<1>5. Port!Moved(cells, cur.blks, ret')
  <2> HIDE DEF cells
  <2> QED BY <1>3, <1>4, TransferMoved
<1>6. ASSUME NEW x \in 1 .. Blocks
      PROVE  dmem[x] = IF x - 1 \in cells THEN bytes[x - 1] ELSE before[x]
  <2>1. CASE x - 1 \in cells
    <3>1. x - 1 \in 0 .. cur.blks - 1 /\ dmem[(x - 1) + 1] = Written(cur.no) /\ (x - 1) + 1 = x
      BY <1>1, <2>1
    <3>2. bytes[x - 1] = Written(cur.no)
      BY <3>1
    <3> QED BY <2>1, <3>1, <3>2
  <2>2. CASE x - 1 \notin cells
    <3>1. x <= cur.blks => dmem[x] # Written(cur.no)
      <4>1. ASSUME x <= cur.blks PROVE x - 1 \in 0 .. cur.blks - 1 /\ (x - 1) + 1 = x
        BY <1>1, <4>1
      <4> QED BY <2>2, <4>1
    <3> QED BY <1>2, <2>2, <3>1 DEF Landed
  <2> QED BY <2>1, <2>2
<1>7. dmem = [x \in 1 .. Blocks |-> IF x - 1 \in cells THEN bytes[x - 1] ELSE before[x]]
  <2> HIDE DEF cells, bytes
  <2> QED BY <1>1, <1>6
<1>8. OpNow.name = "write" /\ OpNow.addr = 1 /\ OpNow.size = cur.blks /\ OpNow.bytes = bytes
  BY DEF OpNow
<1>9. UNCHANGED <<DevNow, BufNow>>
  BY <1>1, SameNow DEF BufNow, During, CallMoves, CallGoesOn
<1>10. Port!Stored(1, bytes, cells) = dmem
  <2> HIDE DEF cells, bytes
  <2> QED BY <1>2, <1>7 DEF Port!Stored
<1>11. Port!Writes(1, bytes, cur.blks, ret')
  <2> HIDE DEF cells, bytes
  <2>1. cells \in SUBSET (0 .. cur.blks - 1)
    BY <1>4
  <2> QED BY <1>2, <1>5, <1>10, <2>1 DEF Port!Writes
<1> HIDE DEF bytes, cells
<1> QED BY <1>8, <1>9, <1>11 DEF Port!Effect

LEMMA ReadEnds ==
  ASSUME TInv, TInv', MemInv, GoodAnswers', AInv', CallMoves, pc' = "idle", cur.op = "read"
  PROVE  Port!Effect(OpNow, BufNow, ret')
<1> DEFINE cells == {o \in 0 .. cur.blks - 1 : got'[o + 1] = dmem[o + 1]}
<1>1. /\ cur.blks \in 1 .. Blocks /\ Blocks \in Nat /\ dmem' = dmem /\ pc # "idle"
      /\ cur'.blks = cur.blks
  BY TypeFacts DEF CallMoves, CallGoesOn
<1>2. /\ MemNow = dmem /\ MemNow' = dmem /\ BufNow = FreshBuffer
      /\ BufNow' = [o \in 0 .. Blocks - 1 |-> got'[o + 1]]
  BY <1>1 DEF MemNow, BufNow, During
<1>3. Complete => cells = 0 .. cur.blks - 1
  <2>1. ASSUME Complete, NEW o \in 0 .. cur.blks - 1 PROVE o \in cells
    <3>1. o + 1 \in 1 .. cur.blks
      BY <1>1
    <3> QED BY <2>1, <3>1 DEF Complete
  <2> QED BY <2>1
<1>4. cells \subseteq 0 .. cur.blks - 1
  OBVIOUS
<1>5. Port!Moved(cells, cur.blks, ret')
  <2> HIDE DEF cells
  <2> QED BY <1>3, <1>4, TransferMoved
<1>6. ASSUME NEW o \in 0 .. Blocks - 1
      PROVE  got'[o + 1] = IF o \in cells THEN dmem[1 + o] ELSE Old
  <2>1. o + 1 = 1 + o /\ o + 1 \in 1 .. Blocks
    BY <1>1
  <2>2. got'[o + 1] = Old \/ (o + 1 <= cur.blks /\ got'[o + 1] = dmem[o + 1])
    <3>1. Loading(got)'
      BY DEF CallMoves
    <3> QED BY <1>1, <2>1, <3>1 DEF Loading
  <2>3. o + 1 <= cur.blks => o \in 0 .. cur.blks - 1
    BY <1>1
  <2> QED BY <2>1, <2>2, <2>3
<1>7. Port!Loaded(FreshBuffer, 1, cells) = BufNow'
  <2> HIDE DEF cells
  <2>1. DOMAIN FreshBuffer = 0 .. Blocks - 1 /\ \A o \in 0 .. Blocks - 1 : FreshBuffer[o] = Old
    BY DEF FreshBuffer
  <2> QED BY <1>2, <1>6, <2>1 DEF Port!Loaded
<1>8. OpNow.name = "read" /\ OpNow.addr = 1 /\ OpNow.size = cur.blks
  BY DEF OpNow
<1>9. BufNow' \in Port!Reads(FreshBuffer, 1, cur.blks, ret')
  <2> HIDE DEF cells
  <2> QED BY <1>4, <1>5, <1>7 DEF Port!Reads
<1>10. UNCHANGED <<DevNow, MemNow>>
  BY <1>2, SameNow DEF CallMoves, CallGoesOn
<1> QED BY <1>2, <1>8, <1>9, <1>10 DEF Port!Effect

\* A reset or stop that has succeeded.
LEMMA HaltedNext ==
  ASSUME TInv', AInv', GoodAnswers', link' = "up", pc' = "idle", view' = "halted"
  PROVE  DevNow' = "halted"
<1>1. toServer' \in Seq({Ack}) /\ target' = "halted"
  BY DEF AInv, Drained
<1>2. InServer' \subseteq {Ack} /\ Ack \notin Commands
  BY <1>1, RangeOf, CommandTypes DEF InServer
<1>3. ~RunSent'
  BY <1>2, RunIsSentNext
<1> QED BY <1>1, <1>3 DEF DevNow

LEMMA CallEnds ==
  ASSUME TInv, TInv', MemInv, GoodAnswers', AInv', CallMoves, pc' = "idle"
  PROVE  Port!Ends
<1>1. /\ pc # "idle" /\ UNCHANGED <<world, link, target, dmem>> /\ ret' \in Errs \cup {"CL_SUCCESS"}
      /\ cur.op # "read" => got' = got
  BY DEF CallMoves, Errs
<1>2. cur.op \in {"probe", "reset", "stop", "read", "write"}
  BY <1>1, TypeFacts DEF TInv, Waits, HostTypes
<1>3. UNCHANGED <<DevNow, OpNow, FaultsNow>>
  BY SameNow, SameOp DEF CallMoves, CallGoesOn
<1>4. cur.op \notin {"read", "write"} => UNCHANGED <<MemNow, BufNow>>
  BY <1>1 DEF MemNow, BufNow, During, CallMoves, CallGoesOn
<1>5. OpNow.name = cur.op
  BY DEF OpNow
<1>6. ret' # "CL_SUCCESS" => Port!Reported(ret')
  <2> SUFFICES ASSUME ret' # "CL_SUCCESS" PROVE Port!Reported(ret')
    OBVIOUS
  <2>1. link = "down" /\ ret' \in Errs
    BY DEF CallMoves
  <2>2. "report" \in FaultsNow
    BY <2>1 DEF FaultsNow
  <2> QED BY <2>1, <2>2 DEF Port!Reported, Errs
<1>7. ASSUME cur.op = "probe" PROVE Port!Effect(OpNow, BufNow, ret')
  BY <1>3, <1>4, <1>5, <1>6, <1>7 DEF Port!Effect
<1>8. ASSUME cur.op \in {"reset", "stop"} PROVE Port!Effect(OpNow, BufNow, ret')
  <2>1. ret' = "CL_SUCCESS" => DevNow' = "halted"
    <3> SUFFICES ASSUME ret' = "CL_SUCCESS" PROVE DevNow' = "halted"
      OBVIOUS
    <3>1. ret' \notin Errs
      BY DEF Errs
    <3>2. link' = "up" /\ view' = "halted"
      BY <1>1, <1>8, <3>1 DEF CallMoves
    <3> QED BY <3>2, HaltedNext
  <2>2. Port!Commands(ret', "halted")
    BY <1>3, <1>6, <2>1 DEF Port!Commands
  <2> QED BY <1>4, <1>5, <1>8, <2>2 DEF Port!Effect
<1>9. Port!Effect(OpNow, BufNow, ret')
  BY <1>2, <1>7, <1>8, WriteEnds, ReadEnds
<1> QED BY <1>1, <1>3, <1>9 DEF Port!Ends

--------------------------------------------------------------------------
(* Calls.                                                                  *)

\* A call that goes on after its first step.
LEMMA CallBegins ==
  ASSUME TInv', pc = "idle", pc' # "idle", UNCHANGED <<world, link, target, dmem, ret>>,
         RunSent' <=> RunSent, before = dmem, Remembers,
         cur'.op \in {"reset", "stop", "read", "write"},
         cur'.op \in {"read", "write"} => target = "halted" /\ ~RunSent,
         cur'.op # "read" => got' = got
  PROVE  Port!Begins
<1>1. UNCHANGED <<DevNow, FaultsNow>>
  BY SameNow
<1>2. MemNow' = MemNow
  BY DEF MemNow, During, Remembers
<1>3. BufNow' = IF cur'.op = "read" THEN FreshBuffer ELSE BufNow
  BY DEF BufNow, During, FreshBuffer
<1>4. OpNow'.name = cur'.op /\ OpNow'.addr = 1 /\ OpNow'.size = cur'.blks
  BY DEF OpNow
<1>5. Port!MayCall(OpNow')
  <2>1. cur'.blks \in 1 .. Blocks /\ Blocks \in Nat
    BY GdbAssumption DEF TInv, Types, TypeOK
  <2>2. 1 .. (1 + cur'.blks - 1) \subseteq 1 .. Blocks
    BY <2>1
  <2>3. cur'.op \in {"run", "read", "write"} => DevNow = "halted"
    BY DEF DevNow
  <2> QED BY <1>4, <2>2, <2>3 DEF Port!MayCall, Port!Names
<1> QED BY <1>1, <1>2, <1>3, <1>4, <1>5 DEF Port!Begins

\* A call that returns in its first step: nothing has been moved by then.
FilledBefore == IF cur'.op = "read" THEN FreshBuffer ELSE BufNow

LEMMA CallReturns ==
  ASSUME TInv', pc = "idle", pc' = "idle", UNCHANGED <<world, link>>,
         cur'.op \in {"reset", "run", "read", "write"}, cur'.op # "reset" => DevNow = "halted",
         Port!Effect(OpNow', FilledBefore, ret')
  PROVE  Port!EndsAtOnce
<1>1. FaultsNow' = FaultsNow
  BY DEF FaultsNow
<1>2. OpNow'.name = cur'.op /\ OpNow'.addr = 1 /\ OpNow'.size = cur'.blks
  BY DEF OpNow
<1>3. Port!MayCall(OpNow')
  <2>1. cur'.blks \in 1 .. Blocks /\ Blocks \in Nat
    BY GdbAssumption DEF TInv, Types, TypeOK
  <2>2. 1 .. (1 + cur'.blks - 1) \subseteq 1 .. Blocks
    BY <2>1
  <2> QED BY <1>2, <2>2 DEF Port!MayCall, Port!Names
<1>4. FilledBefore = IF OpNow'.name = "read" THEN FreshBuffer ELSE BufNow
  BY <1>2 DEF FilledBefore
<1> QED BY <1>1, <1>3, <1>4 DEF Port!EndsAtOnce

LEMMA CallFails ==
  ASSUME TInv, TInv', pc = "idle", pc' = "idle", UNCHANGED <<world, link, target, dmem>>,
         RunSent' <=> RunSent, link = "down", before = dmem,
         cur'.op \in {"reset", "run", "read", "write"}, cur'.op # "reset" => DevNow = "halted",
         got' = IF cur'.op = "read" THEN [b \in 1 .. Blocks |-> Old] ELSE got,
         ret' = IF cur'.op = "write" THEN "CL_SUCCESS" ELSE "CL_OUT_OF_RESOURCES"
  PROVE  Port!EndsAtOnce
<1>1. UNCHANGED <<DevNow, MemNow>> /\ MemNow = dmem
  BY SameNow DEF MemNow, During
<1>2. BufNow' = FilledBefore
  <2>1. BufNow' = [o \in 0 .. Blocks - 1 |-> got'[o + 1]]
    BY DEF BufNow, During
  <2>2. CASE cur'.op # "read"
    BY <2>1, <2>2 DEF FilledBefore, BufNow, During
  <2>3. CASE cur'.op = "read"
    <3>1. \A o \in 0 .. Blocks - 1 : got'[o + 1] = Old
      <4> TAKE o \in 0 .. Blocks - 1
      <4>1. o + 1 \in 1 .. Blocks
        BY GdbAssumption
      <4> QED BY <2>3, <4>1
    <3> QED BY <2>1, <2>3, <3>1 DEF FilledBefore, FreshBuffer
  <2> QED BY <2>2, <2>3
<1>3. /\ cur'.blks \in Nat \ {0} /\ {} \subseteq 0 .. cur'.blks - 1
      /\ dmem \in [1 .. Blocks -> Values]
  BY TypeFacts DEF TInv, Types, TypeOK, ServerTypes
<1>4. "report" \in FaultsNow /\ "silent" \in FaultsNow
  BY DEF FaultsNow
<1>5. Port!Reported("CL_OUT_OF_RESOURCES") /\ Port!Moved({}, cur'.blks, ret')
  BY <1>3, <1>4 DEF Port!Reported, Port!Moved
<1>6. OpNow'.name = cur'.op /\ OpNow'.addr = 1 /\ OpNow'.size = cur'.blks
  BY DEF OpNow
<1>7. CASE cur'.op \in {"reset", "run"}
  <2>1. BufNow' = BufNow /\ ret' = "CL_OUT_OF_RESOURCES"
    BY <1>2, <1>7 DEF FilledBefore
  <2>2. Port!Effect(OpNow', FilledBefore, ret')
    BY <1>1, <1>5, <1>6, <1>7, <2>1 DEF Port!Effect, Port!Commands
  <2> QED BY <2>2, CallReturns
<1>8. CASE cur'.op = "write"
  <2>1. Port!Stored(1, OpNow'.bytes, {}) = dmem
    BY <1>1, <1>3 DEF Port!Stored
  <2>2. Port!Writes(1, OpNow'.bytes, cur'.blks, ret')
    BY <1>1, <1>3, <1>5, <2>1 DEF Port!Writes
  <2>3. BufNow' = BufNow
    BY <1>2, <1>8 DEF FilledBefore
  <2>4. Port!Effect(OpNow', FilledBefore, ret')
    BY <1>1, <1>6, <1>8, <2>2, <2>3 DEF Port!Effect
  <2> QED BY <2>4, CallReturns
<1>9. CASE cur'.op = "read"
  <2>1. FilledBefore = FreshBuffer /\ Port!Loaded(FreshBuffer, 1, {}) = FreshBuffer
    BY <1>9 DEF FilledBefore, Port!Loaded, FreshBuffer
  <2>2. BufNow' \in Port!Reads(FilledBefore, 1, cur'.blks, ret')
    BY <1>2, <1>3, <1>5, <2>1 DEF Port!Reads
  <2>3. Port!Effect(OpNow', FilledBefore, ret')
    BY <1>1, <1>6, <1>9, <2>2 DEF Port!Effect
  <2> QED BY <2>3, CallReturns
<1> QED BY <1>7, <1>8, <1>9

\* A reset or a transfer is asked for.
LEMMA TransmitCallMoves ==
  ASSUME DeviceInv, TInv', Remembers,
         NEW op \in {"reset", "read", "write"}, NEW n \in 1 .. Blocks, pc = "idle",
         op # "reset" => view = "halted", Transmit(<<>>, Opens(op, n)), Keep,
         got' = IF op = "read" THEN [b \in 1 .. Blocks |-> Old] ELSE got
  PROVE  Port!Begins \/ Port!EndsAtOnce
<1> DEFINE c == Opens(op, n)
<1>1. TInv /\ before = dmem /\ UNCHANGED <<world, link, target, dmem>>
  BY DEF DeviceInv, IInv, MemInv, Keep, server, During, Remembers
<1>2. c \in CurType /\ c.op = op /\ c.no >= cur.no
  BY <1>1, OpensType
<1>3. Transmit(<<>>, c)
  OBVIOUS
<1> HIDE DEF c
<1>4. /\ cur' = c /\ (RunSent' <=> RunSent)
      /\ pc' # "idle" => link = "up" /\ UNCHANGED <<ret, view>>
      /\ pc' = "idle" => /\ link = "down" /\ ret' \in {"CL_SUCCESS", "CL_OUT_OF_RESOURCES"}
                         /\ ret' = "CL_SUCCESS" <=> c.op = "write"
  BY <1>1, <1>2, <1>3, TransmitGoesOn
<1>5. op # "reset" => target = "halted" /\ ~RunSent
  BY RestHalted DEF AtRest
<1>6. CASE pc' # "idle"
  BY <1>1, <1>2, <1>4, <1>5, <1>6, CallBegins
<1>7. CASE pc' = "idle"
  <2>1. cur'.op = op /\ ret' = IF op = "write" THEN "CL_SUCCESS" ELSE "CL_OUT_OF_RESOURCES"
    BY <1>2, <1>4, <1>7
  <2>2. op # "reset" => DevNow = "halted"
    BY <1>5 DEF DevNow
  <2> QED BY <1>1, <1>4, <1>7, <2>1, <2>2, CallFails
<1> QED BY <1>6, <1>7

LEMMA CallRunMoves ==
  ASSUME DeviceInv, TInv', Remembers, CallRun
  PROVE  Port!EndsAtOnce
<1> DEFINE c == Opens("run", 1)
<1>1. TInv /\ before = dmem /\ UNCHANGED <<world, link, target, dmem, got>> /\ pc = "idle"
      /\ view = "halted" /\ cur' = c /\ pc' = "idle"
  BY DEF DeviceInv, IInv, MemInv, Keep, server, CallRun, MayCall, Return, During, Remembers
<1>2. c \in CurType /\ c.op = "run" /\ c.no >= cur.no /\ c.no \in Nat /\ cur.no \in Nat
  BY <1>1, GdbAssumption, OpensType, TypeFacts DEF CurType
<1>3. cur'.op = "run"
  BY <1>1, <1>2
<1> HIDE DEF c
<1>4. DevNow = "halted"
  BY <1>1, RestHalted DEF AtRest, DevNow
<1>5. CASE link = "up" /\ toServer' = Append(toServer, Cmd(cur', "run")) /\ ret' = "CL_SUCCESS"
  <2> DEFINE X == ToServer(c.no)
             x == Cmd(c, "run")
  <2>1. toServer \in Seq(X)
    BY <1>1, <1>2, TypeFacts, Widen
  <2>2. x \in Commands /\ x.cmd = "run" /\ x.no = c.no
    BY <1>2, CmdType
  <2>3. x \in X
    BY <1>2, <2>2, ServerMessages
  <2>4. toServer' = Append(toServer, x)
    BY <1>1, <1>5
  <2> HIDE DEF X, x
  <2>5. Range(Append(toServer, x)) = Range(toServer) \cup {x}
    BY <2>1, <2>3, RangeAppend
  <2>6. x \in InServer'
    BY <2>4, <2>5 DEF InServer
  <2>7. DevNow' = "running"
    BY <2>2, <2>6, RunIsSentNext DEF DevNow
  <2>8. OpNow'.name = "run"
    BY <1>3 DEF OpNow
  <2>9. UNCHANGED <<MemNow, BufNow>> /\ FilledBefore = BufNow
    BY <1>1, <1>3 DEF MemNow, BufNow, During, FilledBefore
  <2>10. Port!Effect(OpNow', FilledBefore, ret')
    BY <1>5, <2>7, <2>8, <2>9 DEF Port!Effect, Port!Commands
  <2> QED BY <1>1, <1>3, <1>4, <2>10, CallReturns
<1>6. CASE link = "down" /\ UNCHANGED toServer /\ ret' = "CL_OUT_OF_RESOURCES"
  <2>1. RunSent' <=> RunSent
    BY <1>6 DEF RunSent
  <2> QED BY <1>1, <1>3, <1>4, <1>6, <2>1, CallFails
<1> QED BY <1>5, <1>6 DEF CallRun, Return

LEMMA CallStopMoves ==
  ASSUME DeviceInv, TInv', Remembers, CallStop
  PROVE  Port!Begins
<1>1. TInv /\ before = dmem /\ UNCHANGED <<world, link, target, dmem, got, ret>> /\ pc = "idle"
      /\ cur'.op = "stop" /\ pc' # "idle"
  BY DEF DeviceInv, IInv, MemInv, Keep, server, CallStop, MayCall, Opens, During, Remembers
<1>2. CASE toServer' = toServer
  <2>1. RunSent' <=> RunSent
    BY <1>2 DEF RunSent
  <2> QED BY <1>1, <2>1, CallBegins
<1>3. CASE toServer' = Append(toServer, Etx)
  <2> DEFINE X == ToServer(cur.no)
  <2>1. toServer \in Seq(X) /\ Etx \in X /\ Etx \notin Commands
    BY <1>1, TypeFacts, ServerMessages, CommandTypes
  <2> HIDE DEF X
  <2>2. Range(Append(toServer, Etx)) = Range(toServer) \cup {Etx}
    BY <2>1, RangeAppend
  <2>3. InServer' = InServer \cup {Etx}
    BY <1>3, <2>2 DEF InServer
  <2>4. RunSent' <=> RunSent
    BY <1>1, <2>1, <2>3, RunIsSent, RunIsSentNext
  <2> QED BY <1>1, <2>4, CallBegins
<1> QED BY <1>2, <1>3 DEF CallStop

LEMMA CallsMove ==
  ASSUME DeviceInv, TInv', Remembers, Calls
  PROVE  Port!Begins \/ Port!EndsAtOnce
<1>1. CASE CallReset
  <2>1. /\ pc = "idle" /\ Transmit(<<>>, Opens("reset", 1)) /\ Keep /\ got' = got
        /\ 1 \in 1 .. Blocks
    BY <1>1, GdbAssumption DEF CallReset, MayCall
  <2> QED BY <2>1, TransmitCallMoves
<1>2. ASSUME NEW n \in 1 .. Blocks, CallRead(n) PROVE Port!Begins \/ Port!EndsAtOnce
  <2>1. /\ pc = "idle" /\ view = "halted" /\ Transmit(<<>>, Opens("read", n)) /\ Keep
        /\ got' = [b \in 1 .. Blocks |-> Old]
    BY <1>2 DEF CallRead, MayCall
  <2> QED BY <2>1, TransmitCallMoves
<1>3. ASSUME NEW n \in 1 .. Blocks, CallWrite(n) PROVE Port!Begins \/ Port!EndsAtOnce
  <2>1. pc = "idle" /\ view = "halted" /\ Transmit(<<>>, Opens("write", n)) /\ Keep /\ got' = got
    BY <1>3 DEF CallWrite, MayCall
  <2> QED BY <2>1, TransmitCallMoves
<1> QED BY <1>1, <1>2, <1>3, CallRunMoves, CallStopMoves DEF Calls

--------------------------------------------------------------------------
(* The server, the target and the connection.                              *)

\* The only write the server ever meets is for the block of the write in progress.
LEMMA WriteIsCurrent ==
  ASSUME TInv, CInv, AInv, GoodAnswers, NEW x \in InServer, x \in Commands, x.cmd = "write"
  PROVE  During("write") /\ x.blk = cur.blk /\ x.no = cur.no
<1>1. link = "up"
  BY TypeFacts, RangeOf DEF InServer
<1>2. Ack \notin Commands
  BY CommandTypes
<1>3. ~(toServer \in Seq({Ack}))
  <2> SUFFICES ASSUME toServer \in Seq({Ack}) PROVE FALSE
    OBVIOUS
  <2>1. InServer \subseteq {Ack}
    BY RangeOf DEF InServer
  <2> QED BY <1>2, <2>1
<1>4. CASE pc = "idle"
  <2>1. \A i \in 1 .. Len(toServer) : toServer[i] \in {Ack} \cup Runs
    BY <1>1, <1>4, IdleQueues
  <2>2. x \in {Ack} \cup Runs
    BY <2>1, TypeFacts, RangeOf DEF InServer
  <2> QED BY <1>2, <2>2 DEF Runs
<1>5. CASE pc \in {"stop", "empty"}
  BY <1>1, <1>5 DEF CInv, Calm, NoTransfer
<1>6. CASE pc \in {"ack", "reply"} /\ cur.op = "reset"
  <2> DEFINE r == Cmd(cur, "reset")
  <2>1. r.cmd = "reset"
    BY DEF Cmd
  <2> HIDE DEF r
  <2>2. PICK After \in {{}, {Ack}} : InOrder(toServer, {Ack} \cup Runs, {r}, After)
    BY <1>1, <1>3, <1>6 DEF AInv, ResetSent, ResetAnswered, r
  <2>3. InServer \subseteq ({Ack} \cup Runs) \cup {r} \cup After
    BY <2>2, TypeFacts, InOrderElements DEF InServer
  <2> QED BY <1>2, <2>1, <2>3 DEF Runs
<1>7. CASE pc \in {"ack", "reply"} /\ cur.op \in {"read", "write"}
  <2> DEFINE c == Cmd(cur, cur.op)
             d == [c EXCEPT !.ok = FALSE]
  <2>1. TransferSent
    BY <1>1, <1>3, <1>7 DEF AInv, Transferring
  <2>2. InServer \subseteq {Ack} \cup {c, d} \cup {}
    BY <2>1, TypeFacts, InOrderElements DEF TransferSent, InServer
  <2>3. /\ c.cmd = cur.op /\ c.blk = cur.blk /\ c.no = cur.no
        /\ d.cmd = cur.op /\ d.blk = cur.blk /\ d.no = cur.no
    BY DEF Cmd
  <2> HIDE DEF c, d
  <2> QED BY <1>2, <1>7, <2>2, <2>3 DEF During
<1> QED BY <1>4, <1>5, <1>6, <1>7, TypeFacts DEF HostTypes, TInv, Waits

\* A step that is not the driver's, but of a target that stores or a link that fails.
WorldMoves ==
  /\ UNCHANGED <<world, host, link>>
  /\ RunSent' => RunSent
  /\ target' = "running" => DevNow = "running"
  /\ dmem' = dmem \/ (During("write") /\ dmem' = [dmem EXCEPT ![cur.blk] = Written(cur.no)])

LEMMA ServerMoves ==
  ASSUME DeviceInv, TInv', ServerTakes
  PROVE  WorldMoves
<1>1. TInv /\ CInv /\ AInv /\ GoodAnswers
  BY DEF DeviceInv, IInv
<1> DEFINE x == Head(toServer)
<1>2. toServer # <<>> /\ toServer' = Tail(toServer) /\ UNCHANGED <<world, host, link>>
  BY DEF ServerTakes
<1>3. x \in InServer /\ InServer' \subseteq InServer
  <2>1. toServer \in Seq(ToServer(cur.no))
    BY <1>1, TypeFacts
  <2> DEFINE X == ToServer(cur.no)
  <2> HIDE DEF X
  <2>2. toServer \in Seq(X)
    BY <2>1 DEF X
  <2> QED BY <1>2, <2>2, RangeTail DEF InServer
<1>4. PICK answers \in Seq(ToHost) : Says(answers) /\ Given(x, answers)
  BY <1>1, ServerAnswers
<1> HIDE DEF x
<1>5. RunSent' => RunSent
  BY <1>1, <1>3, RunIsSent, RunIsSentNext
<1>6. CASE UNCHANGED <<target, dmem>>
  BY <1>2, <1>5, <1>6 DEF WorldMoves, DevNow
<1>7. CASE target' = "halted" /\ dmem' = dmem
  BY <1>2, <1>5, <1>7 DEF WorldMoves
<1>8. CASE x \in Commands /\ x.cmd = "run" /\ dmem' = dmem
  <2>1. RunSent
    BY <1>1, <1>3, <1>8, RunIsSent
  <2> QED BY <1>2, <1>5, <1>8, <2>1 DEF WorldMoves, DevNow
<1>9. CASE /\ x \in Commands /\ x.cmd = "write" /\ target' = target
           /\ dmem' = [dmem EXCEPT ![x.blk] = Written(x.no)]
  <2>1. During("write") /\ x.blk = cur.blk /\ x.no = cur.no
    BY <1>1, <1>3, <1>9, WriteIsCurrent
  <2> QED BY <1>2, <1>5, <1>9, <2>1 DEF WorldMoves, DevNow
<1>10. CASE x \in Commands /\ x.ok /\ Served(x, answers)
  <2>1. \/ UNCHANGED <<target, dmem>> \/ (target' = "halted" /\ dmem' = dmem)
        \/ x.cmd = "run" /\ dmem' = dmem
        \/ /\ x.cmd = "write" /\ target' = target
           /\ dmem' = [dmem EXCEPT ![x.blk] = Written(x.no)]
    BY <1>10, Zenon DEF Served
  <2> QED BY <1>6, <1>7, <1>8, <1>9, <1>10, <2>1
<1> QED BY <1>4, <1>6, <1>7, <1>10 DEF Given

LEMMA TargetMoves ==
  ASSUME DeviceInv, TInv', TargetPrints \/ TargetStops
  PROVE  WorldMoves
<1>1. /\ UNCHANGED <<world, host, link, toServer>> /\ target = "running" /\ dmem' = dmem
  BY DEF TargetPrints, TargetStops
<1>2. RunSent' <=> RunSent
  BY <1>1 DEF RunSent
<1> QED BY <1>1, <1>2 DEF WorldMoves, DevNow

LEMMA CorruptMoves ==
  ASSUME DeviceInv, TInv', Corrupt
  PROVE  WorldMoves
<1>1. TInv /\ GoodAnswers
  BY DEF DeviceInv, IInv
<1>2. UNCHANGED <<world, host, link, server>>
  BY <1>1, CorruptGood
<1>3. PICK i \in 1 .. Len(toServer) :
        /\ toServer[i] \in Commands /\ toServer[i].cmd \in {"read", "write"}
        /\ toServer' = [toServer EXCEPT ![i] = [toServer[i] EXCEPT !.ok = FALSE]]
  BY <1>1, CorruptGood
<1>4. \A x \in InServer' : x \in InServer \/ x.cmd \in {"read", "write"}
  BY <1>1, <1>3, SpoiledElements
<1>5. RunSent' => RunSent
  BY <1>1, <1>4, RunIsSent, RunIsSentNext
<1> QED BY <1>2, <1>5 DEF WorldMoves, server, DevNow

LEMMA WorldSteps ==
  ASSUME WorldMoves, Remembers, MemInv
  PROVE  Port!Stops \/ UNCHANGED Port!portVars
<1>1. UNCHANGED <<pc, cur, ret, view, got, world, link>>
  BY DEF WorldMoves, host
<1>2. UNCHANGED <<OpNow, FaultsNow, BufNow, ret, pc>> /\ (pc # "idle")' = (pc # "idle")
  BY <1>1 DEF OpNow, FaultsNow, BufNow, During, FreshBuffer, Written
<1>3. MemNow' = MemNow
  BY <1>1 DEF WorldMoves, MemNow, During, MemInv, Remembers
<1>4. DevNow' = DevNow \/ (DevNow = "running" /\ DevNow' = "halted")
  BY DEF WorldMoves, DevNow
<1> QED BY <1>2, <1>3, <1>4 DEF Port!Stops, Port!Halts, Port!port, Port!portVars

LEMMA StoresMove ==
  ASSUME DeviceInv, TInv', NEW b \in 1 .. Blocks, TargetStores(b),
         Remembers
  PROVE  Port!Stores
<1>1. /\ UNCHANGED <<pc, cur, ret, view, got, world, link, toServer, target>> /\ target = "running"
      /\ dmem' \in [1 .. Blocks -> Values]
  BY DEF TargetStores, host, TInv, Types
<1>2. ~AtRest
  BY <1>1, RestHalted
<1>3. MemNow' = dmem'
  BY <1>1, <1>2 DEF MemNow, During, AtRest
<1>4. UNCHANGED <<OpNow, FaultsNow, BufNow, ret, pc>> /\ (pc # "idle")' = (pc # "idle")
  BY <1>1 DEF OpNow, FaultsNow, BufNow, During, FreshBuffer, Written
<1>5. DevNow = "running" /\ DevNow' = "running"
  BY <1>1 DEF DevNow
<1>6. MemNow' = [x \in 1 .. Blocks |-> MemNow'[x]]
  BY <1>1, <1>3
<1> QED BY <1>4, <1>5, <1>6 DEF Port!Stores, Port!port

LEMMA LinkFailsMoves ==
  ASSUME DeviceInv, TInv', LinkFails, Remembers
  PROVE  Port!Degrades
<1>1. /\ UNCHANGED <<pc, cur, ret, view, got, world, target, dmem>> /\ toServer' = <<>>
      /\ link' = "down"
  BY DEF LinkFails, host, server
<1>2. UNCHANGED <<OpNow, BufNow, ret, pc>> /\ (pc # "idle")' = (pc # "idle")
  BY <1>1 DEF OpNow, BufNow, During, FreshBuffer, Written
<1>3. MemNow' = MemNow
  BY <1>1 DEF MemNow, During, DeviceInv, MemInv, Remembers
<1>4. FaultsNow \subseteq FaultsNow' /\ FaultsNow' \subseteq {"report", "silent"}
  BY <1>1 DEF FaultsNow
<1>5. ~RunSent'
  BY <1>1 DEF RunSent
<1>6. DevNow' \in {DevNow, "halted"}
  BY <1>1, <1>5 DEF DevNow
<1> QED BY <1>2, <1>3, <1>4, <1>6 DEF Port!Degrades, Port!port

--------------------------------------------------------------------------
(* What the driver as a device rests on is kept by every step.             *)

LEMMA AnswersKeep ==
  ASSUME DeviceInv, TInv, TInv', CallMoves, Remembers
  PROVE  GoodAnswers' /\ RestInv' /\ MemInv'
<1>1. /\ UNCHANGED <<world, link, target, dmem>> /\ pc # "idle"
      /\ cur'.op = cur.op /\ cur'.no = cur.no /\ cur'.blks = cur.blks
  BY DEF CallMoves, CallGoesOn
<1>2. GoodAnswers'
  BY <1>1 DEF DeviceInv, GoodAnswers
<1>3. RestInv'
  BY <1>1 DEF DeviceInv, RestInv, AtRest, CallMoves
<1>4. before' \in [1 .. Blocks -> Values]
  BY <1>1, TypeFacts DEF DeviceInv, MemInv, ServerTypes, During, Remembers
<1>5. During("write")' => Landed'
  BY <1>1 DEF DeviceInv, MemInv, During, Landed, Written, Remembers
<1>6. During("read")' => Loading(got)'
  BY <1>1 DEF During, CallMoves
<1> QED BY <1>1, <1>2, <1>3, <1>4, <1>5, <1>6 DEF MemInv, During, Remembers

LEMMA WorldKeeps ==
  ASSUME DeviceInv, TInv, TInv', WorldMoves, Remembers,
         link = "down" => dmem' = dmem /\ target' \in {target, "halted"}
  PROVE  GoodAnswers' /\ RestInv' /\ MemInv'
<1>1. UNCHANGED <<pc, cur, ret, view, got, world, link>>
  BY DEF WorldMoves, host
<1>2. GoodAnswers'
  BY <1>1 DEF DeviceInv, GoodAnswers
<1>3. RestInv'
  BY <1>1 DEF DeviceInv, RestInv, AtRest
<1>4. before' \in [1 .. Blocks -> Values] /\ (~During("write")' => before' = dmem')
  BY <1>1 DEF DeviceInv, MemInv, TInv, Types, During, Remembers
<1>5. During("write")' => Landed'
  <2> SUFFICES ASSUME During("write")', NEW b \in 1 .. Blocks
               PROVE  dmem'[b] = before'[b] \/ (b <= cur'.blks /\ dmem'[b] = Written(cur'.no))
    BY DEF Landed, Written
  <2>1. before' = before /\ During("write")
    BY <1>1 DEF During, Remembers
  <2>2. dmem[b] = before[b] \/ (b <= cur.blks /\ dmem[b] = Written(cur.no))
    BY <2>1 DEF DeviceInv, MemInv, Landed
  <2>3. cur.blk <= cur.blks /\ cur.blk \in 1 .. Blocks /\ dmem \in [1 .. Blocks -> Values]
    BY TypeFacts DEF HostTypes, ServerTypes
  <2>4. dmem'[b] = dmem[b] \/ (b = cur.blk /\ dmem'[b] = Written(cur.no))
    BY <2>3 DEF WorldMoves
  <2> QED BY <1>1, <2>1, <2>2, <2>3, <2>4
<1>6. During("read")' => Loading(got)'
  <2> SUFFICES ASSUME During("read")' PROVE Loading(got)'
    OBVIOUS
  <2>1. During("read") /\ dmem' = dmem
    BY <1>1 DEF During, WorldMoves
  <2> QED BY <1>1, <2>1 DEF DeviceInv, MemInv, Loading
<1> QED BY <1>2, <1>3, <1>4, <1>5, <1>6 DEF MemInv, During, Remembers

LEMMA CallsKeep ==
  ASSUME DeviceInv, TInv, TInv', Calls, Remembers
  PROVE  GoodAnswers' /\ RestInv' /\ MemInv'
<1>1. UNCHANGED <<world, link, target, dmem>> /\ pc = "idle" /\ before = dmem
  <2>1. Keep /\ pc = "idle"
    BY DEF Calls, CallReset, CallRun, CallStop, CallRead, CallWrite, MayCall
  <2> QED BY <2>1 DEF Keep, server, DeviceInv, MemInv, During, Remembers
<1>2. GoodAnswers'
  BY <1>1 DEF DeviceInv, GoodAnswers
<1>3. view = "halted" \/ ~(link = "down" /\ AtRest')
  <2>1. CASE CallReset
    <3>1. cur'.op = "reset" /\ (pc' = "idle" => view' = "unknown" \/ link = "up")
      BY <2>1 DEF CallReset, Transmit, Return, Opens
    <3> QED BY <1>1, <3>1, <2>1 DEF AtRest, CallReset, Transmit, Return
  <2>2. CASE CallStop
    BY <2>2 DEF CallStop, Opens, AtRest
  <2>3. CASE view = "halted"
    BY <2>3
  <2> QED BY <2>1, <2>2, <2>3 DEF Calls, CallRun, CallRead, CallWrite
<1>4. RestInv'
  BY <1>1, <1>3 DEF DeviceInv, RestInv, AtRest
<1>5. cur'.op = "read" => got' = [b \in 1 .. Blocks |-> Old]
  <2>1. CallReset \/ CallRun \/ CallStop => cur'.op # "read"
    BY DEF CallReset, CallRun, CallStop, Transmit, Opens
  <2>2. \A n \in 1 .. Blocks : CallWrite(n) => cur'.op # "read"
    BY DEF CallWrite, Transmit, Opens
  <2>3. \A n \in 1 .. Blocks : CallRead(n) => got' = [b \in 1 .. Blocks |-> Old]
    BY DEF CallRead
  <2> QED BY <2>1, <2>2, <2>3 DEF Calls
<1>6. before' = dmem' /\ before' \in [1 .. Blocks -> Values]
  BY <1>1 DEF DeviceInv, MemInv, During, Remembers
<1>7. During("write")' => Landed'
  BY <1>6 DEF Landed
<1>8. During("read")' => Loading(got)'
  BY <1>5 DEF During, Loading
<1> QED BY <1>2, <1>4, <1>6, <1>7, <1>8 DEF MemInv

LEMMA StoresKeep ==
  ASSUME DeviceInv, TInv, TInv', NEW b \in 1 .. Blocks, TargetStores(b),
         Remembers
  PROVE  GoodAnswers' /\ RestInv' /\ MemInv'
<1>1. /\ UNCHANGED <<pc, cur, ret, view, got, world, link, toServer, target>> /\ target = "running"
      /\ dmem' \in [1 .. Blocks -> Values]
  BY DEF TargetStores, host, TInv, Types
<1>2. ~AtRest /\ ~AtRest'
  BY <1>1, RestHalted DEF AtRest
<1>3. GoodAnswers' /\ RestInv'
  BY <1>1, <1>2 DEF DeviceInv, GoodAnswers, RestInv
<1>4. ~During("write")' /\ ~During("read")'
  BY <1>2 DEF AtRest, During
<1> QED BY <1>1, <1>3, <1>4 DEF MemInv, DeviceInv, During, Remembers

LEMMA LinkFailsKeeps ==
  ASSUME DeviceInv, TInv, TInv', LinkFails, Remembers
  PROVE  GoodAnswers' /\ RestInv' /\ MemInv'
<1>1. /\ UNCHANGED <<pc, cur, ret, view, got, world, target, dmem>>
      /\ before' = before
  BY DEF LinkFails, host, server, DeviceInv, MemInv, During, Remembers
<1>2. AtRest' => target' = "halted"
  BY <1>1, RestHalted DEF AtRest
<1> QED BY <1>1, <1>2 DEF DeviceInv, GoodAnswers, RestInv, MemInv, During, Landed, Loading, Written

LEMMA SameKeeps ==
  ASSUME DeviceInv, UNCHANGED <<vars, before>>
  PROVE  GoodAnswers' /\ RestInv' /\ MemInv' /\ UNCHANGED Port!portVars
<1>1. UNCHANGED <<pc, cur, ret, view, got, world, link, toServer, target, dmem, before>>
  BY DEF vars, host, server
<1>2. GoodAnswers' /\ RestInv' /\ MemInv'
  BY <1>1 DEF DeviceInv, GoodAnswers, RestInv, AtRest, MemInv, During, Landed, Loading, Written
<1>3. UNCHANGED <<DevNow, MemNow, FaultsNow, OpNow, ret, BufNow>> /\ (pc # "idle")' = (pc # "idle")
  BY <1>1 DEF DevNow, MemNow, FaultsNow, OpNow, BufNow, During, FreshBuffer, Written, RunSent
<1> QED BY <1>2, <1>3 DEF Port!portVars

\* Every step of the driver, the server and the connection is one of the device.
LEMMA DeviceStep == DeviceInv /\ [NextBefore]_<<vars, before>> => DeviceInv' /\ [Port!Next]_Port!portVars
<1> SUFFICES ASSUME DeviceInv, [NextBefore]_<<vars, before>>
             PROVE  DeviceInv' /\ [Port!Next]_Port!portVars
  OBVIOUS
<1>1. TInv /\ IInv /\ MemInv
  BY DEF DeviceInv, IInv
<1>2. IInv' /\ TInv' /\ AInv'
  <2>1. [Next]_vars
    BY DEF NextBefore
  <2> QED BY <1>1, <2>1, NextIInv DEF IInv
<1>3. SUFFICES GoodAnswers' /\ RestInv' /\ MemInv' /\ (Port!Next \/ UNCHANGED Port!portVars)
  BY <1>2 DEF DeviceInv
<1>4. CASE UNCHANGED <<vars, before>>
  BY <1>4, SameKeeps
<1> SUFFICES ASSUME Next, Remembers
             PROVE  GoodAnswers' /\ RestInv' /\ MemInv' /\ (Port!Next \/ UNCHANGED Port!portVars)
  BY <1>4 DEF NextBefore
<1>5. CASE Calls
  BY <1>1, <1>2, <1>5, CallsMove, CallsKeep DEF Port!Next
<1>6. CASE Answers
  <2>1. CallMoves
    BY <1>2, <1>6, AnswersMove
  <2>2. GoodAnswers' /\ RestInv' /\ MemInv'
    BY <1>1, <1>2, <2>1, AnswersKeep
  <2>3. CASE pc' # "idle"
    BY <1>1, <2>1, <2>2, <2>3, GoesOn
  <2>4. CASE pc' = "idle"
    BY <1>1, <1>2, <2>1, <2>2, <2>4, CallEnds DEF Port!Next
  <2> QED BY <2>2, <2>3, <2>4
<1>7. ASSUME WorldMoves, link = "down" => dmem' = dmem /\ target' \in {target, "halted"}
      PROVE  GoodAnswers' /\ RestInv' /\ MemInv' /\ (Port!Next \/ UNCHANGED Port!portVars)
  BY <1>1, <1>2, <1>7, WorldSteps, WorldKeeps DEF Port!Next
<1>8. CASE ServerTakes
  <2>1. link # "down"
    BY <1>1, <1>8, TypeFacts DEF ServerTakes
  <2> QED BY <1>2, <1>7, <1>8, <2>1, ServerMoves
<1>9. CASE TargetPrints \/ TargetStops
  <2>1. dmem' = dmem /\ target' \in {target, "halted"}
    BY <1>9 DEF TargetPrints, TargetStops
  <2> QED BY <1>2, <1>7, <1>9, <2>1, TargetMoves
<1>10. ASSUME NEW b \in 1 .. Blocks, TargetStores(b)
       PROVE  GoodAnswers' /\ RestInv' /\ MemInv' /\ (Port!Next \/ UNCHANGED Port!portVars)
  BY <1>1, <1>2, <1>10, StoresMove, StoresKeep DEF Port!Next
<1>11. CASE LinkFails
  BY <1>1, <1>2, <1>11, LinkFailsMoves, LinkFailsKeeps DEF Port!Next
<1>12. CASE Corrupt
  <2>1. dmem' = dmem /\ target' = target
    BY <1>12 DEF Corrupt, server
  <2> QED BY <1>2, <1>7, <1>12, <2>1, CorruptMoves
<1>13. CASE Ends
  <2>1. UNCHANGED <<vars, before>>
    <3>1. UNCHANGED vars /\ pc' = "idle" /\ dmem' = dmem /\ pc = "idle"
      BY <1>13 DEF Ends, vars, server, host
    <3> QED BY <1>1, <3>1 DEF MemInv, During, Remembers
  <2> QED BY <2>1, SameKeeps
<1> QED BY <1>5, <1>6, <1>8, <1>9, <1>10, <1>11, <1>12, <1>13 DEF Next, Target

LEMMA DeviceStarts == GoodAnswers /\ InitBefore => DeviceInv /\ Port!Init
<1> SUFFICES ASSUME GoodAnswers, InitBefore PROVE DeviceInv /\ Port!Init
  OBVIOUS
<1>1. Init /\ before = dmem
  BY DEF InitBefore
<1>2. IInv /\ TInv
  BY <1>1, InitIInv DEF IInv
<1>3. /\ pc = "empty" /\ cur.op = "probe" /\ link = "up" /\ view = "unknown" /\ world \in Worlds
      /\ dmem \in [1 .. Blocks -> Values] /\ target \in {"halted", "running"}
  <2>1. dmem \in [1 .. Blocks -> Values]
    BY <1>2, TypeFacts DEF ServerTypes
  <2>2. /\ pc = "empty" /\ link = "up" /\ view = "unknown" /\ world \in Worlds
        /\ target \in {"halted", "running"} /\ cur = [op |-> "probe", no |-> 0, blk |-> 1, blks |-> 1]
    BY <1>1, Zenon DEF Init
  <2> QED BY <2>1, <2>2
<1>5. RestInv /\ MemInv
  BY <1>1, <1>3 DEF RestInv, MemInv, During
<1>6. Port!Init
  <2>1. MemNow = dmem /\ OpNow.name = "probe" /\ DevNow \in {"halted", "running"}
    BY <1>3 DEF MemNow, During, OpNow, DevNow
  <2>2. FaultsNow \subseteq {"report", "silent"}
    BY DEF FaultsNow
  <2>3. MemNow = [x \in 1 .. Blocks |-> MemNow[x]]
    BY <1>3, <2>1
  <2> QED BY <1>3, <2>1, <2>2, <2>3 DEF Port!Init
<1> QED BY <1>2, <1>5, <1>6 DEF DeviceInv

\* The set-up of a session is chosen once.
LEMMA WorldStays == [Next]_vars => world' = world
<1> SUFFICES ASSUME [Next]_vars PROVE world' = world
  OBVIOUS
<1>1. Keep => world' = world
  BY DEF Keep
<1>2. Calls => Keep
  BY DEF Calls, CallReset, CallRun, CallStop, CallRead, CallWrite
<1>3. Answers => Keep
  BY Zenon DEF Answers, GetAck, ResetReply, ReadReply, WriteReply, StopReply, DiscardAll, LinkDown
<1>4. ServerTakes \/ LinkFails \/ Corrupt \/ Ends => world' = world
  BY DEF ServerTakes, LinkFails, Corrupt, Ends, vars
<1>5. Target => world' = world
  BY DEF Target, TargetPrints, TargetStops, TargetStores
<1>6. UNCHANGED vars => world' = world
  BY DEF vars
<1> QED BY <1>1, <1>2, <1>3, <1>4, <1>5, <1>6 DEF Next

\* The OpenOCD driver and the server behind it are a device as drivers/device.c
\* offers it, whatever the server refuses and wherever the link breaks: reset,
\* stop and run leave the state they name when they succeed, and a transfer of
\* gdb_remote_read_mem or gdb_remote_write_mem moves blocks it names and
\* nothing else, all of them when nothing has gone wrong.
THEOREM GdbIsADevice == SpecBefore => ImplementsDevice
<1> DEFINE Inv == IInv /\ (GoodAnswers => DeviceInv)
<1>1. InitBefore => Inv /\ (GoodAnswers => Port!Init)
  BY DeviceStarts, InitIInv DEF InitBefore
<1>2. Inv /\ [NextBefore]_<<vars, before>> => Inv' /\ [GoodAnswers => Port!Next]_Port!portVars
  <2> SUFFICES ASSUME Inv, [NextBefore]_<<vars, before>>
               PROVE  Inv' /\ [GoodAnswers => Port!Next]_Port!portVars
    OBVIOUS
  <2>1. [Next]_vars
    BY DEF NextBefore
  <2>2. IInv'
    BY <2>1, NextIInv
  <2>3. GoodAnswers' => GoodAnswers
    <3>1. world' = world
      BY <2>1, WorldStays
    <3> QED BY <3>1 DEF GoodAnswers
  <2> QED BY <2>2, <2>3, DeviceStep
<1> QED BY <1>1, <1>2, PTL DEF SpecBefore, ImplementsDevice

\* With such connections only, that is the whole of DevicePort's specification.
GoodWorlds == \A w \in Worlds : w.driver = "openocd" /\ w.corruptible \subseteq {"transfer"}
COROLLARY GdbImplementsPort == GoodWorlds => (SpecBefore => Port!Spec)
<1> SUFFICES ASSUME GoodWorlds PROVE SpecBefore => Port!Spec
  OBVIOUS
<1>1. InitBefore => IInv
  BY InitIInv DEF InitBefore
<1>2. IInv /\ [NextBefore]_<<vars, before>> => IInv'
  BY NextIInv DEF NextBefore
<1>3. IInv => GoodAnswers
  BY DEF IInv, TInv, Types, TypeOK, GoodWorlds, GoodAnswers
<1>4. GoodAnswers /\ [GoodAnswers => Port!Next]_Port!portVars => [Port!Next]_Port!portVars
  OBVIOUS
<1> QED BY <1>1, <1>2, <1>3, <1>4, GdbIsADevice, PTL DEF SpecBefore, ImplementsDevice, Port!Spec
=============================================================================
