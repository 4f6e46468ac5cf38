-------------------------- MODULE ClObjectsProofs --------------------------
(***************************************************************************)
(* Theorems about ClObjects, for any numbers of handles and blocks: the    *)
(* handles the application holds are objects, what objects own is sound,   *)
(* no call follows a pointer to a freed block, and nothing is lost that is *)
(* not known to be, whatever was created, used, refused and released       *)
(* before, in which order; but for the kernels that a refused              *)
(* clCreateKernel found in its stack slot.                                 *)
(***************************************************************************)
EXTENDS ClObjects, TLAPS

\* What is owned is no object, so a release frees nothing another one owns.
OwnedIsData == \A a \in Live : \A b \in heap[a].own : heap[b].kind \notin Handled

\* What a refused clCreateKernel may find in its stack slot.
SlotIsKernel == slot < next /\ (slot \in Live => heap[slot].kind = "kernel")

HostIsHost == HOST < next /\ (HOST \in Live => heap[HOST].kind = "host" /\ heap[HOST].own = {})

\* What a refused clCreateKernel was led to is freed.
LostIsGone == lost \cap Live = {} /\ \A h \in lost : h \in Nat /\ h < next

IInv == TypeOK /\ HandlesUsable /\ OwnershipSound /\ OwnedIsData /\ SlotIsKernel /\ HostIsHost /\ LostIsGone

--------------------------------------------------------------------------
(* What the ways to change the heap keep.                                  *)

\* The blocks lie below the next address.
LEMMA Addresses ==
  ASSUME TypeOK
  PROVE  next \in Nat /\ next >= 1 /\ \A a \in Live : a \in Nat /\ a >= 1 /\ a < next
  BY DEF TypeOK, Addr, HOST, NULL

\* Nothing of the heap changes.
LEMMA SameKeeps ==
  ASSUME IInv, UNCHANGED <<heap, next, slot, lost>>, held' \subseteq held, err' \in Codes
  PROVE  IInv'
  BY DEF IInv, TypeOK, HandlesUsable, OwnershipSound, OwnedIsData, SlotIsKernel, HostIsHost, LostIsGone, Live

\* Blocks go that nothing that stays owns, and whose handles go or are lost.
LEMMA RemoveKeeps ==
  ASSUME IInv, NEW S, heap' = Without(S), held' \subseteq held, (held' \ lost') \cap S = {},
         lost \subseteq lost', \A h \in lost' \ lost : h \in Nat /\ h < next /\ h \notin Live \ S,
         \A a \in Live \ S : heap[a].own \cap S = {},
         UNCHANGED <<next, slot>>, err' \in Codes
  PROVE  IInv'
  <1>1. Live' = Live \ S /\ \A a \in Live' : heap'[a] = heap[a]
    BY DEF Without, Live
  <1>2. TypeOK'
    <2>1. heap' \in [Live' -> Block]
      BY <1>1 DEF IInv, TypeOK, Live, Without
    <2> QED
      BY <1>1, <2>1 DEF IInv, TypeOK
  <1>3. HandlesUsable'
    BY <1>1 DEF IInv, HandlesUsable
  <1>4. OwnershipSound'
    <2> SUFFICES ASSUME NEW a \in Live'
                 PROVE  /\ heap'[a].own \subseteq Live' \ held'
                        /\ \A b \in Live' : a # b => heap'[a].own \cap heap'[b].own = {}
                        /\ \A b \in heap'[a].own : heap'[b].own = {}
      BY DEF OwnershipSound
    <2>1. heap'[a].own \subseteq Live' \ held'
      BY <1>1 DEF IInv, OwnershipSound
    <2> QED
      BY <1>1, <2>1 DEF IInv, OwnershipSound
  <1>5. OwnedIsData'
    BY <1>1, <1>4 DEF IInv, OwnedIsData, OwnershipSound
  <1>6. SlotIsKernel' /\ HostIsHost' /\ LostIsGone'
    BY <1>1 DEF IInv, SlotIsKernel, HostIsHost, LostIsGone
  <1> QED
    BY <1>2, <1>3, <1>4, <1>5, <1>6 DEF IInv

\* New blocks own only each other, or memory of the application that no other
\* block owns.
Orderly(bs) ==
  \A a \in DOMAIN bs :
    /\ \/ bs[a].own \subseteq DOMAIN bs \ held'
       \/ bs[a].own = {HOST} /\ HostFree
    /\ \A b \in DOMAIN bs : a # b => bs[a].own \cap bs[b].own = {}
    /\ \A b \in bs[a].own \cap DOMAIN bs : bs[b].own = {} /\ bs[b].kind \notin Handled

\* New blocks that own only one another keep the invariant.
LEMMA AddKeeps ==
  ASSUME IInv, NEW n \in Nat, NEW bs,
         bs \in [DOMAIN bs -> Block], DOMAIN bs \subseteq next .. next + n - 1, Orderly(bs),
         heap' = With(bs), next' = next + n, held \subseteq held', lost' = lost,
         \A h \in held' \ held : h \in DOMAIN bs /\ bs[h].kind \in Handled,
         slot' = slot \/ (slot' \in DOMAIN bs /\ bs[slot'].kind = "kernel"),
         err' \in Codes
  PROVE  IInv'
  <1> DEFINE D == DOMAIN bs
  <1>1. \A a \in D : a \in Nat /\ a >= next /\ a < next + n
    BY Addresses DEF IInv
  <1>2. D \cap Live = {}
    BY <1>1, Addresses DEF IInv
  <1>3. Live' = Live \cup D /\ \A a \in Live : heap'[a] = heap[a]
    BY <1>2 DEF With, Live
  <1>4. \A a \in D : heap'[a] = bs[a]
    BY DEF With
  <1>5. HOST \notin D /\ (HOST \in Live => HOST \notin held' /\ heap[HOST].own = {} /\ heap[HOST].kind = "host")
    <2>1. HOST < next /\ HOST \in Nat /\ next \in Nat
      BY Addresses DEF IInv, HostIsHost, HOST
    <2>2. HOST \notin D
      BY <1>1, <2>1
    <2>3. HOST \in Live => HOST \notin held
      BY DEF IInv, HandlesUsable, HostIsHost, Handled, LostIsGone
    <2> QED
      BY <2>2, <2>3 DEF IInv, HostIsHost
  <1> HIDE DEF D
  <1>6. TypeOK'
    <2>1. heap' \in [Live' -> Block]
      <3>1. DOMAIN heap' = Live' /\ heap' = [a \in Live' |-> heap'[a]]
        BY DEF With, Live
      <3>2. \A a \in Live' : heap'[a] \in Block
        BY <1>3, <1>4 DEF IInv, TypeOK, D
      <3> QED
        BY <3>1, <3>2
    <2>2. next' \in Addr /\ next' \in Nat
      BY Addresses DEF IInv, Addr, NULL
    <2>3. Live' \subseteq HOST .. next' - 1
      <3>1. \A a \in Live' : a \in Nat /\ a >= 1 /\ a < next + n
        BY <1>1, <1>3, Addresses DEF IInv
      <3> QED
        BY <2>2, <3>1 DEF HOST
    <2>4. held' \subseteq Addr
      <3>1. \A h \in D : h \in Addr
        BY <1>1, Addresses DEF IInv, Addr, NULL
      <3> QED
        BY <3>1 DEF IInv, TypeOK, D
    <2>5. slot' \in Nat
      BY <1>1 DEF IInv, TypeOK, D
    <2> QED
      BY <2>1, <2>2, <2>3, <2>4, <2>5 DEF TypeOK
  <1>7. HandlesUsable'
    BY <1>3, <1>4 DEF IInv, HandlesUsable, D
  <1>8. ASSUME NEW a \in Live' PROVE heap'[a].own \subseteq Live' \ held'
    <2>1. CASE a \in Live
      BY <1>2, <1>3, <2>1 DEF IInv, OwnershipSound, D
    <2>2. CASE a \in D
      BY <1>3, <1>4, <1>5, <2>2 DEF Orderly, D, HostFree
    <2> QED
      BY <1>3, <2>1, <2>2
  <1>9. ASSUME NEW a \in Live', NEW b \in Live', a # b
        PROVE  heap'[a].own \cap heap'[b].own = {}
    <2>1. CASE a \in Live /\ b \in Live
      BY <1>3, <1>9, <2>1 DEF IInv, OwnershipSound
    <2>2. CASE a \in D /\ b \in D
      BY <1>4, <1>9, <2>2 DEF Orderly, D
    <2>3. ASSUME NEW x \in Live, NEW y \in D
          PROVE  heap'[x].own \cap heap'[y].own = {}
      <3>1. heap'[x].own \subseteq Live /\ HostFree => HOST \notin heap'[x].own
        BY <1>3 DEF IInv, OwnershipSound, HostFree
      <3>2. heap'[x].own \subseteq Live
        BY <1>3 DEF IInv, OwnershipSound
      <3>3. \/ heap'[y].own \subseteq D
            \/ heap'[y].own = {HOST} /\ HostFree
        BY <1>4 DEF Orderly, D
      <3> QED
        BY <1>2, <3>1, <3>2, <3>3
    <2> QED
      BY <1>3, <2>1, <2>2, <2>3
  <1>10. ASSUME NEW a \in Live', NEW b \in heap'[a].own
         PROVE  heap'[b].own = {} /\ heap'[b].kind \notin Handled
    <2>1. CASE a \in Live
      BY <1>3, <2>1 DEF IInv, OwnershipSound, OwnedIsData
    <2>2. CASE a \in D
      <3>1. CASE bs[a].own \subseteq D
        BY <1>4, <2>2, <3>1 DEF Orderly, D
      <3>2. CASE bs[a].own = {HOST} /\ HostFree
        BY <1>3, <1>4, <1>5, <2>2, <3>2 DEF HostFree, Handled
      <3> QED
        BY <2>2, <3>1, <3>2 DEF Orderly, D
    <2> QED
      BY <1>3, <2>1, <2>2
  <1>11. OwnershipSound' /\ OwnedIsData'
    BY <1>8, <1>9, <1>10 DEF OwnershipSound, OwnedIsData
  <1>12. SlotIsKernel'
    <2>1. slot' = slot => slot \notin D
      BY <1>1, Addresses DEF IInv, SlotIsKernel, TypeOK
    <2>2. slot' < next'
      BY <1>1, Addresses DEF IInv, SlotIsKernel, TypeOK, D
    <2> QED
      BY <1>3, <1>4, <2>1, <2>2 DEF IInv, SlotIsKernel, D
  <1>13. HostIsHost'
    <2>1. HOST < next'
      BY Addresses DEF IInv, HostIsHost, HOST
    <2> QED
      BY <1>3, <1>5, <2>1 DEF IInv, HostIsHost
  <1>14. LostIsGone'
    <2>1. \A h \in lost : h \notin D /\ h < next'
      BY <1>1, Addresses DEF IInv, LostIsGone
    <2> QED
      BY <1>3, <2>1 DEF IInv, LostIsGone
  <1> QED
    BY <1>6, <1>7, <1>11, <1>12, <1>13, <1>14 DEF IInv

--------------------------------------------------------------------------
(* The create calls.                                                       *)

\* A handle of the application is an address.
LEMMA HandleTypes ==
  ASSUME IInv, NEW kind, NEW h \in Handles(kind)
  PROVE  h \in held /\ h \in Live /\ h \in Nat /\ h \in Addr /\ heap[h].kind = kind
  BY Addresses DEF Handles, IInv, TypeOK, Addr

\* An object with numbers and sets of addresses for fields is a block.
LEMMA Blocks ==
  ASSUME NEW kind \in Kinds, NEW up \in Nat, NEW own \in SUBSET Addr, NEW uses \in SUBSET Addr
  PROVE  /\ Obj(kind, up, own, uses) \in Block
         /\ Obj(kind, up, own, uses).kind = kind /\ Obj(kind, up, own, uses).own = own
  BY DEF Obj, Block

\* The next addresses are free, and held by nobody.
LEMMA AddressesAhead ==
  ASSUME IInv
  PROVE  /\ {} \in SUBSET Addr /\ {HOST} \in SUBSET Addr /\ NULL \in Nat /\ next \in Nat
         /\ next \in Addr /\ next + 1 \in Addr /\ next + 2 \in Addr
         /\ {next + 1} \in SUBSET Addr /\ {HOST, next + 2} \in SUBSET Addr
         /\ next > HOST /\ next \notin held /\ next + 1 \notin held /\ next + 2 \notin held
  <1>1. next \in Nat /\ next > 1
    BY Addresses DEF IInv, HostIsHost, HOST
  <1>2. \A h \in held : h < next /\ h \in Nat
    BY Addresses DEF IInv, HandlesUsable, LostIsGone
  <1>3. next \in Addr /\ next + 1 \in Addr /\ next + 2 \in Addr /\ HOST \in Addr
    BY <1>1 DEF Addr, NULL, HOST
  <1>4. next \notin held /\ next + 1 \notin held /\ next + 2 \notin held
    BY <1>1, <1>2
  <1> QED
    BY <1>1, <1>3, <1>4 DEF NULL, HOST

LEMMA KindsAre ==
  /\ \A k \in {"context", "queue", "mem", "program", "kernel", "host", "data", "elf", "chunks"} : k \in Kinds
  /\ \A k \in {"context", "queue", "mem", "program", "kernel"} : k \in Handled
  /\ \A k \in {"data", "elf", "chunks"} : k \notin Handled
  BY DEF Kinds, Handled

\* One block, without what it may own.
LEMMA AddOneKeeps ==
  ASSUME IInv, NEW o, o \in Block, o.kind \in Handled,
         \/ o.own = {}
         \/ o.own = {HOST} /\ HostFree,
         heap' = With([a \in {next} |-> o]), NEW n \in Nat \ {0}, next' = next + n, lost' = lost,
         held' = held \/ held' = held \cup {next},
         slot' = slot \/ (slot' = next /\ o.kind = "kernel"), err' \in Codes
  PROVE  IInv'
  <1> DEFINE bs == [a \in {next} |-> o]
  <1>1. DOMAIN bs = {next} /\ bs[next] = o /\ bs \in [DOMAIN bs -> Block]
    OBVIOUS
  <1>2. {next} \subseteq next .. next + n - 1
    BY AddressesAhead
  <1>3. heap' = With(bs)
    OBVIOUS
  <1> HIDE DEF bs
  <1>4. Orderly(bs)
    BY <1>1, AddressesAhead DEF Orderly
  <1> QED
    BY <1>1, <1>2, <1>3, <1>4, AddKeeps

\* One block, at the next address.
LEMMA AddNextKeeps ==
  ASSUME IInv, NEW o, o \in Block, o.kind \in Handled,
         \/ o.own = {}
         \/ o.own = {HOST} /\ HostFree,
         heap' = With([a \in {next} |-> o]), next' = next + 1, lost' = lost,
         held' = held \/ held' = held \cup {next}, slot' = slot, err' \in Codes
  PROVE  IInv'
  <1>1. 1 \in Nat \ {0}
    OBVIOUS
  <1> QED
    BY <1>1, AddOneKeeps

LEMMA CreateContextKeeps == IInv /\ CreateContext => IInv'
  <1> SUFFICES ASSUME IInv, CreateContext PROVE IInv'
    OBVIOUS
  <1>1. Obj("context", NULL, {}, {}) \in Block /\ Obj("context", NULL, {}, {}).kind \in Handled
        /\ Obj("context", NULL, {}, {}).own = {}
    BY AddressesAhead, Blocks, KindsAre
  <1>2. heap' = With([a \in {next} |-> Obj("context", NULL, {}, {})]) /\ next' = next + 1
        /\ held' = held \cup {next} /\ slot' = slot /\ lost' = lost /\ err' \in Codes
    BY DEF CreateContext, Gives, record, IInv, TypeOK
  <1> QED
    BY <1>1, <1>2, AddNextKeeps, Zenon

LEMMA CreateQueueKeeps ==
  ASSUME IInv, NEW c \in Handles("context"), CreateQueue(c) PROVE IInv'
  <1>1. c \in Nat
    BY HandleTypes
  <1>2. Obj("queue", c, {}, {}) \in Block /\ Obj("queue", c, {}, {}).kind \in Handled
        /\ Obj("queue", c, {}, {}).own = {}
    BY <1>1, AddressesAhead, Blocks, KindsAre
  <1>3. heap' = With([a \in {next} |-> Obj("queue", c, {}, {})]) /\ next' = next + 1
        /\ held' = held \cup {next} /\ slot' = slot /\ lost' = lost /\ err' \in Codes
    BY DEF CreateQueue, Gives, record, IInv, TypeOK
  <1> QED
    BY <1>2, <1>3, AddNextKeeps, Zenon

\* An object with one block of its own next to it.
LEMMA AddTwoKeeps ==
  ASSUME IInv, NEW kind \in Handled, NEW up \in Nat, NEW other \in {"data", "elf"},
         heap' = With([a \in {next, next + 1} |-> IF a = next THEN Obj(kind, up, {next + 1}, {})
                                                             ELSE Obj(other, NULL, {}, {})]),
         next' = next + 2, held' = held \cup {next}, lost' = lost,
         slot' = slot \/ (slot' = next /\ kind = "kernel"), err' \in Codes
  PROVE  IInv'
  <1> DEFINE bs == [a \in {next, next + 1} |-> IF a = next THEN Obj(kind, up, {next + 1}, {})
                                                          ELSE Obj(other, NULL, {}, {})]
             o == Obj(kind, up, {next + 1}, {})
             p == Obj(other, NULL, {}, {})
  <1>1. o \in Block /\ o.kind = kind /\ o.own = {next + 1}
    BY AddressesAhead, Blocks, KindsAre DEF Handled
  <1>2. p \in Block /\ p.kind \notin Handled /\ p.own = {}
    BY AddressesAhead, Blocks, KindsAre
  <1>3. next # next + 1 /\ {next, next + 1} \subseteq next .. next + 2 - 1
    BY AddressesAhead
  <1>4. heap' = With(bs)
    OBVIOUS
  <1>5. DOMAIN bs = {next, next + 1} /\ bs[next] = o /\ bs[next + 1] = p
    BY <1>3
  <1>6. bs \in [DOMAIN bs -> Block]
    <2>1. bs = [a \in DOMAIN bs |-> bs[a]]
      OBVIOUS
    <2> HIDE DEF bs, o, p
    <2> QED
      BY <1>1, <1>2, <1>5, <2>1
  <1> HIDE DEF bs, o, p
  <1>7. next + 1 \notin held'
    BY <1>3, AddressesAhead
  <1>8. Orderly(bs)
    BY <1>1, <1>2, <1>3, <1>5, <1>7 DEF Orderly
  <1> QED
    BY <1>1, <1>3, <1>4, <1>5, <1>6, <1>8, AddKeeps

LEMMA CreateBufferKeeps ==
  ASSUME IInv, NEW c \in Handles("context"), NEW f \in Flags, CreateBuffer(c, f) PROVE IInv'
  <1>1. c \in Nat
    BY HandleTypes
  <1>2. f \in {"own", "use"} /\ (f = "use" => HostFree) /\ slot' = slot /\ err' \in Codes
        /\ held' = held \cup {next} /\ lost' = lost
    BY ObjectsAssumption DEF CreateBuffer, Gives, record, IInv, TypeOK
  <1>3. CASE f = "own"
    <2>1. heap' = With([a \in {next, next + 1} |-> IF a = next THEN Obj("mem", c, {next + 1}, {})
                                                              ELSE Obj("data", NULL, {}, {})])
          /\ next' = next + 2
      BY <1>3 DEF CreateBuffer, Gives, BufferBlocks
    <2> QED
      BY <1>1, <1>2, <2>1, AddTwoKeeps, KindsAre
  <1>4. CASE f = "use"
    <2>1. heap' = With([a \in {next} |-> Obj("mem", c, {HOST}, {})]) /\ next' = next + 1
      BY <1>4 DEF CreateBuffer, Gives, BufferBlocks
    <2>2. Obj("mem", c, {HOST}, {}) \in Block /\ Obj("mem", c, {HOST}, {}).kind \in Handled
          /\ Obj("mem", c, {HOST}, {}).own = {HOST}
      <3>1. {HOST} \in SUBSET Addr /\ {} \in SUBSET Addr /\ "mem" \in Kinds /\ "mem" \in Handled
        BY AddressesAhead, KindsAre
      <3> QED
        BY <1>1, <3>1 DEF Obj, Block
    <2> QED
      BY <1>2, <1>4, <2>1, <2>2, AddNextKeeps, Zenon
  <1> QED
    BY <1>2, <1>3, <1>4

LEMMA BufferFailsKeeps ==
  ASSUME IInv, NEW c \in Handles("context"), NEW f \in Flags, BufferFails(c, f) PROVE IInv'
  <1>1. c \in Nat
    BY HandleTypes
  <1>2. Obj("mem", c, {}, {}) \in Block /\ Obj("mem", c, {}, {}).kind \in Handled
        /\ Obj("mem", c, {}, {}).own = {}
    BY <1>1, AddressesAhead, Blocks, KindsAre
  <1>3. heap' = With([a \in {next} |-> Obj("mem", c, {}, {})]) /\ next' = next + 1
        /\ held' = held /\ slot' = slot /\ lost' = lost /\ err' \in Codes
    BY DEF BufferFails, FailsWith, Fails, IInv, TypeOK, Codes
  <1> QED
    BY <1>2, <1>3, AddNextKeeps, Zenon

\* The three blocks of a program.
LEMMA ProgramTypes ==
  ASSUME IInv, NEW c \in Nat, NEW bs, bs = ProgramBlocks(c)
  PROVE  /\ DOMAIN bs = {next, next + 1, next + 2}
         /\ \A a \in DOMAIN bs : bs[a] \in Block
         /\ bs[next].kind = "program" /\ bs[next].own = {next + 1}
         /\ bs[next + 1].kind = "elf" /\ bs[next + 1].own = {}
         /\ bs[next + 2].kind = "chunks" /\ bs[next + 2].own = {}
         /\ next # next + 1 /\ next # next + 2 /\ next + 1 # next + 2
         /\ {next, next + 1, next + 2} \subseteq next .. next + 3 - 1
  <1>1. next # next + 1 /\ next # next + 2 /\ next + 1 # next + 2
        /\ {next, next + 1, next + 2} \subseteq next .. next + 3 - 1
    BY AddressesAhead
  <1>2. /\ DOMAIN bs = {next, next + 1, next + 2}
        /\ bs[next] = Obj("program", c, {next + 1}, {HOST, next + 2})
        /\ bs[next + 1] = Obj("elf", NULL, {}, {})
        /\ bs[next + 2] = Obj("chunks", NULL, {}, {})
    BY <1>1 DEF ProgramBlocks
  <1>3. Obj("program", c, {next + 1}, {HOST, next + 2}) \in Block
        /\ Obj("program", c, {next + 1}, {HOST, next + 2}).kind = "program"
        /\ Obj("program", c, {next + 1}, {HOST, next + 2}).own = {next + 1}
    BY AddressesAhead, Blocks, KindsAre
  <1>4. \A k \in {"elf", "chunks"} : Obj(k, NULL, {}, {}) \in Block
          /\ Obj(k, NULL, {}, {}).kind = k /\ Obj(k, NULL, {}, {}).own = {}
    BY AddressesAhead, Blocks, KindsAre
  <1> QED
    BY <1>1, <1>2, <1>3, <1>4

LEMMA CreateProgramKeeps ==
  ASSUME IInv, NEW c \in Handles("context"), CreateProgram(c) PROVE IInv'
  <1> DEFINE bs == ProgramBlocks(c)
  <1>1. c \in Nat
    BY HandleTypes
  <1>2. heap' = With(bs) /\ next' = next + 3 /\ held' = held \cup {next} /\ slot' = slot
        /\ lost' = lost /\ err' \in Codes
    BY DEF CreateProgram, Gives, record, IInv, TypeOK
  <1>3. bs = [a \in DOMAIN bs |-> bs[a]]
    BY DEF ProgramBlocks
  <1> HIDE DEF bs
  <1>4. /\ DOMAIN bs = {next, next + 1, next + 2}
        /\ \A a \in DOMAIN bs : bs[a] \in Block
        /\ bs[next].kind = "program" /\ bs[next].own = {next + 1}
        /\ bs[next + 1].kind = "elf" /\ bs[next + 1].own = {}
        /\ bs[next + 2].kind = "chunks" /\ bs[next + 2].own = {}
        /\ next # next + 1 /\ next # next + 2 /\ next + 1 # next + 2
        /\ {next, next + 1, next + 2} \subseteq next .. next + 3 - 1
    BY <1>1, ProgramTypes DEF bs
  <1>5. bs \in [DOMAIN bs -> Block]
    BY <1>3, <1>4
  <1>6. next + 1 \notin held'
    BY <1>2, <1>4, AddressesAhead
  <1>7. Orderly(bs)
    BY <1>4, <1>6, KindsAre DEF Orderly
  <1> QED
    BY <1>2, <1>4, <1>5, <1>7, AddKeeps, KindsAre

LEMMA ProgramFailsKeeps ==
  ASSUME IInv, NEW c \in Handles("context"), ProgramFails(c) PROVE IInv'
  <1>1. c \in Nat
    BY HandleTypes
  <1>2. next' = next + 3 /\ UNCHANGED <<held, slot, lost>> /\ err' \in Codes
    BY DEF ProgramFails, FailsWith, Fails, IInv, TypeOK, Codes
  <1>3. PICK left \in {{next + 1}, {next + 1, next + 2}} :
          heap' = With([a \in left |-> ProgramBlocks(c)[a]])
    BY DEF ProgramFails, FailsWith
  <1> DEFINE ps == ProgramBlocks(c)
             bs == [a \in left |-> ps[a]]
  <1>4. /\ DOMAIN ps = {next, next + 1, next + 2}
        /\ \A a \in DOMAIN ps : ps[a] \in Block
        /\ ps[next + 1].own = {} /\ ps[next + 2].own = {}
        /\ {next, next + 1, next + 2} \subseteq next .. next + 3 - 1
    BY <1>1, ProgramTypes
  <1>5. heap' = With(bs)
    BY <1>3
  <1> HIDE DEF ps
  <1>6. DOMAIN bs = left /\ bs \in [DOMAIN bs -> Block] /\ left \subseteq next .. next + 3 - 1
        /\ \A a \in left : bs[a].own = {}
    BY <1>3, <1>4
  <1> HIDE DEF bs
  <1>7. Orderly(bs)
    BY <1>6 DEF Orderly
  <1> QED
    BY <1>2, <1>5, <1>6, <1>7, AddKeeps

LEMMA CreateKernelKeeps ==
  ASSUME IInv, NEW p \in Handles("program"), CreateKernel(p) PROVE IInv'
  <1>1. p \in Nat
    BY HandleTypes
  <1>2. PICK name \in {{}, {next + 1}} : heap' = With(KernelBlocks(p, name))
    BY DEF CreateKernel, Gives
  <1>3. next' = next + 2 /\ held' = held \cup {next} /\ slot' = next /\ lost' = lost /\ err' \in Codes
    BY DEF CreateKernel, Gives, record, IInv, TypeOK
  <1>4. CASE name = {next + 1}
    <2>1. heap' = With([a \in {next, next + 1} |-> IF a = next THEN Obj("kernel", p, {next + 1}, {})
                                                              ELSE Obj("data", NULL, {}, {})])
      <3>1. {next} \cup name = {next, next + 1}
        BY <1>4
      <3> QED
        BY <1>2, <1>4, <3>1 DEF KernelBlocks
    <2> QED
      BY <1>1, <1>3, <2>1, AddTwoKeeps, KindsAre
  <1>5. CASE name = {}
    <2>1. heap' = With([a \in {next} |-> Obj("kernel", p, {}, {})])
      <3>1. KernelBlocks(p, {}) = [a \in {next} |-> Obj("kernel", p, {}, {})]
        BY DEF KernelBlocks
      <3> QED
        BY <1>2, <1>5, <3>1
    <2>2. /\ Obj("kernel", p, {}, {}) \in Block /\ Obj("kernel", p, {}, {}).kind = "kernel"
          /\ Obj("kernel", p, {}, {}).own = {} /\ "kernel" \in Handled
      BY <1>1, AddressesAhead, Blocks, KindsAre
    <2>3. 2 \in Nat \ {0}
      OBVIOUS
    <2> HIDE DEF Obj
    <2> QED
      BY <1>3, <2>1, <2>2, <2>3, AddOneKeeps
  <1> QED
    BY <1>4, <1>5

\* A call that is refused changes no object, but for a clCreateKernel that
\* frees what its stack slot says: an object and all it owns.
LEMMA WholeKeeps ==
  ASSUME IInv, NEW h \in Live, heap[h].kind \in Handled, heap' = Without(Whole(h)),
         \/ held' = held \ {h} /\ lost' = lost
         \/ held' = held /\ lost' = lost \cup {h},
         UNCHANGED <<next, slot>>, err' \in Codes
  PROVE  IInv'
  <1>1. heap[h].own \cap held = {}
    BY DEF IInv, OwnershipSound
  <1>2. ASSUME NEW a \in Live \ Whole(h)
        PROVE  heap[a].own \cap Whole(h) = {}
    <2>1. a # h /\ a \in Live
      BY DEF Whole
    <2>2. h \notin heap[a].own
      BY <2>1 DEF IInv, OwnedIsData
    <2>3. heap[a].own \cap heap[h].own = {}
      BY <2>1 DEF IInv, OwnershipSound
    <2> QED
      BY <2>2, <2>3 DEF Whole
  <1>3. held' \subseteq held /\ (held' \ lost') \cap Whole(h) = {}
    BY <1>1 DEF Whole
  <1>4. lost \subseteq lost' /\ \A g \in lost' \ lost : g \in Nat /\ g < next /\ g \notin Live \ Whole(h)
    BY Addresses DEF Whole, IInv
  <1> QED
    BY <1>2, <1>3, <1>4, RemoveKeeps

LEMMA RefusedKeeps ==
  IInv /\ (CreateRefused \/ CreateUnsupported \/ RefuseOther) => IInv'
  <1> SUFFICES ASSUME IInv, CreateRefused \/ CreateUnsupported \/ RefuseOther PROVE IInv'
    OBVIOUS
  <1>1. UNCHANGED <<heap, next, held, slot, lost>> /\ err' \in Codes
    BY DEF CreateRefused, Refuses, Fails, CreateUnsupported, vars, record, RefuseOther, IInv, TypeOK, Codes
  <1> QED
    BY <1>1, SameKeeps

LEMMA KernelRefusedKeeps == IInv /\ KernelRefused => IInv'
  <1> SUFFICES ASSUME IInv, KernelRefused PROVE IInv'
    OBVIOUS
  <1>1. UNCHANGED <<next, held, slot>> /\ err' \in Codes
    BY DEF KernelRefused, Fails, IInv, TypeOK, Codes
  <1>2. PICK garbage \in {NULL, slot} :
          /\ heap' = Without(IF garbage \in Live THEN Whole(garbage) ELSE {})
          /\ lost' = lost \cup ({garbage} \ {NULL})
    BY DEF KernelRefused
  <1>3. CASE garbage \in Live
    <2>1. heap' = Without(Whole(garbage))
      BY <1>2, <1>3
    <2>2. garbage = slot /\ garbage # NULL
      BY <1>2, <1>3, Addresses DEF IInv, NULL
    <2>3. heap[garbage].kind \in Handled
      BY <1>3, <2>2 DEF IInv, SlotIsKernel, Handled
    <2>4. lost' = lost \cup {garbage}
      BY <1>2, <2>2
    <2> QED
      BY <1>1, <1>3, <2>1, <2>3, <2>4, WholeKeeps
  <1>4. CASE garbage \notin Live
    <2>1. heap' = Without({})
      BY <1>2, <1>4
    <2>2. \A h \in lost' \ lost : h \in Nat /\ h < next /\ h \notin Live
      BY <1>2, <1>4 DEF IInv, TypeOK, SlotIsKernel
    <2> QED
      BY <1>1, <1>2, <2>1, <2>2, RemoveKeeps
  <1> QED
    BY <1>3, <1>4

--------------------------------------------------------------------------
(* Releases, uses and the application's own memory.                        *)

LEMMA ReleaseKeeps == ASSUME IInv, NEW h \in held, Release(h) PROVE IInv'
  <1>1. h \in Live /\ heap[h].kind \in Handled
    BY DEF Release, IInv, HandlesUsable, LostIsGone
  <1>2. heap' = Without(Whole(h)) /\ held' = held \ {h} /\ UNCHANGED <<next, slot, lost>> /\ err' \in Codes
    BY DEF Release, FreedBy, Codes
  <1> QED
    BY <1>1, <1>2, WholeKeeps

LEMMA UseLostKeeps == ASSUME IInv, NEW h \in held, UseLost(h) PROVE IInv'
  BY SameKeeps DEF UseLost

LEMMA AppFreeKeeps == IInv /\ AppFree => IInv'
  <1> SUFFICES ASSUME IInv, AppFree PROVE IInv'
    OBVIOUS
  <1>1. heap' = Without({HOST}) /\ UNCHANGED <<next, held, slot, err, lost>> /\ HostFree
    BY DEF AppFree, record
  <1>2. held' \subseteq held /\ (held' \ lost') \cap {HOST} = {}
    BY <1>1 DEF HostFree, IInv, HandlesUsable, HostIsHost, Handled
  <1>3. \A a \in Live \ {HOST} : heap[a].own \cap {HOST} = {}
    BY <1>1 DEF HostFree
  <1>4. err' \in Codes
    BY <1>1 DEF IInv, TypeOK
  <1> QED
    BY <1>1, <1>2, <1>3, <1>4, RemoveKeeps

\* Another value in the argument array.
LEMMA ResetKeeps ==
  ASSUME IInv, NEW k \in Handles("kernel"), NEW v \in Addr, Reset(k, v), UNCHANGED <<held, slot, lost>>,
         err' \in Codes
  PROVE  IInv'
  <1>1. PICK w \in heap[k].uses : heap' = [heap EXCEPT ![k].uses = (@ \ {w}) \cup {v}]
    BY DEF Reset
  <1>2. k \in Live /\ next' = next
    BY HandleTypes DEF Reset
  <1>3. \A a \in Live : heap[a] \in Block
    BY DEF IInv, TypeOK
  <1>4. Live' = Live /\ \A a \in Live : /\ heap'[a] \in Block
                                        /\ heap'[a].own = heap[a].own /\ heap'[a].kind = heap[a].kind
    <2>1. Live' = Live
      BY <1>1 DEF Live
    <2>2. \A a \in Live : a # k => heap'[a] = heap[a]
      BY <1>1 DEF Live
    <2>3. heap'[k] = [heap[k] EXCEPT !.uses = (@ \ {w}) \cup {v}]
      BY <1>1, <1>2 DEF Live
    <2>4. heap'[k] \in Block /\ heap'[k].own = heap[k].own /\ heap'[k].kind = heap[k].kind
      BY <1>2, <1>3, <2>3 DEF Block
    <2> QED
      BY <1>3, <2>1, <2>2, <2>4
  <1>5. heap' \in [Live' -> Block]
    BY <1>1, <1>4 DEF Live
  <1>6. TypeOK'
    BY <1>2, <1>4, <1>5 DEF IInv, TypeOK
  <1>7. HandlesUsable' /\ SlotIsKernel' /\ HostIsHost' /\ LostIsGone'
    BY <1>2, <1>4 DEF IInv, HandlesUsable, SlotIsKernel, HostIsHost, LostIsGone
  <1>8. OwnershipSound' /\ OwnedIsData'
    BY <1>4 DEF IInv, OwnershipSound, OwnedIsData
  <1> QED
    BY <1>6, <1>7, <1>8 DEF IInv

\* A longer array takes the place of the one there was.
LEMMA RegrownKeeps ==
  ASSUME IInv, NEW k \in Handles("kernel"), NEW v \in Addr, Regrown(k, v), UNCHANGED <<held, slot, lost>>,
         err' \in Codes
  PROVE  IInv'
  <1> DEFINE old == {a \in heap[k].own : a > k + 1}
             K == [heap[k] EXCEPT !.own = (@ \ old) \cup {next}, !.uses = @ \cup {v}]
             N == Obj("data", NULL, {}, {})
  <1>1. heap' = [a \in (Live \cup {next}) \ old |-> IF a = k THEN K ELSE IF a = next THEN N ELSE heap[a]]
        /\ next' = next + 1
    BY DEF Regrown
  <1>2. k \in Live /\ k \in held /\ heap[k].kind = "kernel" /\ k \in Nat
    BY HandleTypes
  <1>3. old \subseteq heap[k].own /\ old \subseteq Live /\ k \notin old /\ next \notin Live /\ next \notin old
        /\ old \cap held = {} /\ k # next /\ next \notin held
    <2>1. heap[k].own \subseteq Live \ held
      BY <1>2 DEF IInv, OwnershipSound
    <2>2. next \notin Live
      BY Addresses DEF IInv
    <2> QED
      BY <1>2, <2>1, <2>2, AddressesAhead
  <1>4. N \in Block /\ N.kind = "data" /\ N.own = {}
    BY AddressesAhead, Blocks, KindsAre
  <1>5. K \in Block /\ K.kind = "kernel" /\ K.own = (heap[k].own \ old) \cup {next}
    <2>1. heap[k] \in Block
      BY <1>2 DEF IInv, TypeOK
    <2> HIDE DEF old
    <2> QED
      BY <1>2, <2>1, AddressesAhead DEF Block
  <1> HIDE DEF old, K, N
  <1>6. /\ Live' = (Live \cup {next}) \ old
        /\ heap'[k] = K /\ heap'[next] = N
        /\ \A a \in Live' : a # k /\ a # next => a \in Live /\ heap'[a] = heap[a]
    BY <1>1, <1>2, <1>3 DEF Live
  <1>7. heap' \in [Live' -> Block]
    <2>1. \A a \in Live : heap[a] \in Block
      BY DEF IInv, TypeOK
    <2>2. \A a \in Live' : heap'[a] \in Block
      BY <1>4, <1>5, <1>6, <2>1
    <2>3. heap' = [a \in Live' |-> heap'[a]]
      BY <1>1, <1>6
    <2> QED
      BY <2>2, <2>3
  <1>8. TypeOK'
    <2>1. Live' \subseteq HOST .. next' - 1
      BY <1>1, <1>6, Addresses DEF IInv, HOST
    <2>2. next' \in Addr
      BY <1>1, AddressesAhead
    <2> QED
      BY <1>7, <2>1, <2>2 DEF IInv, TypeOK
  <1>9. HandlesUsable'
    <2> SUFFICES ASSUME NEW h \in held \ lost PROVE h \in Live' /\ heap'[h].kind \in Handled
      BY DEF HandlesUsable
    <2>1. h \in Live' /\ h # next
      BY <1>3, <1>6 DEF IInv, HandlesUsable
    <2> QED
      BY <1>2, <1>5, <1>6, <2>1, KindsAre DEF IInv, HandlesUsable
  <1>10. ASSUME NEW a \in Live'
         PROVE  /\ heap'[a].own \subseteq Live' \ held
                /\ a # k => a = next \/ (a \in Live /\ heap'[a].own = heap[a].own)
                /\ a # k => heap'[a].own \cap (heap[k].own \cup {next}) = {}
    <2>1. CASE a = k
      BY <1>2, <1>3, <1>5, <1>6, <2>1 DEF IInv, OwnershipSound
    <2>2. CASE a = next
      BY <1>4, <1>6, <2>2
    <2>3. CASE a # k /\ a # next
      <3>1. a \in Live /\ heap'[a] = heap[a]
        BY <1>6, <2>3
      <3>2. heap[a].own \cap heap[k].own = {} /\ heap[a].own \subseteq Live \ held
        BY <1>2, <2>3, <3>1 DEF IInv, OwnershipSound
      <3> QED
        BY <1>3, <1>6, <2>3, <3>1, <3>2
    <2> QED
      BY <2>1, <2>2, <2>3
  <1>11. ASSUME NEW a \in Live', NEW b \in Live', a # b
         PROVE  heap'[a].own \cap heap'[b].own = {}
    <2>1. CASE a = k
      BY <1>5, <1>6, <1>10, <1>11, <2>1
    <2>2. CASE b = k
      BY <1>5, <1>6, <1>10, <1>11, <2>2
    <2>3. CASE a # k /\ b # k
      <3>1. CASE a = next \/ b = next
        BY <1>4, <1>6, <3>1
      <3>2. CASE a # next /\ b # next
        BY <1>6, <1>11, <2>3, <3>2 DEF IInv, OwnershipSound
      <3> QED
        BY <3>1, <3>2
    <2> QED
      BY <2>1, <2>2, <2>3
  <1>12. ASSUME NEW a \in Live', NEW b \in heap'[a].own
         PROVE  heap'[b].own = {} /\ heap'[b].kind \notin Handled
    <2>1. CASE b = next
      BY <1>4, <1>6, <2>1, KindsAre
    <2>2. CASE b # next
      <3>1. b \in Live' /\ b # k
        BY <1>2, <1>10 
      <3>2. \E c \in Live : b \in heap[c].own
        BY <1>2, <1>4, <1>5, <1>6, <2>2
      <3>3. heap[b].own = {} /\ heap[b].kind \notin Handled
        BY <3>2 DEF IInv, OwnershipSound, OwnedIsData
      <3> QED
        BY <1>6, <2>2, <3>1, <3>3
    <2> QED
      BY <2>1, <2>2
  <1>13. OwnershipSound' /\ OwnedIsData'
    BY <1>10, <1>11, <1>12 DEF OwnershipSound, OwnedIsData
  <1>14. SlotIsKernel'
    <2>1. slot < next'
      BY <1>1, Addresses DEF IInv, SlotIsKernel, TypeOK
    <2>2. slot # next
      BY Addresses DEF IInv, SlotIsKernel, TypeOK
    <2> QED
      BY <1>5, <1>6, <2>1, <2>2 DEF IInv, SlotIsKernel
  <1>15. HostIsHost'
    <2>1. HOST < next' /\ HOST # next
      BY <1>1, AddressesAhead DEF HOST
    <2>2. HOST \in Live' => HOST # k
      BY <1>2 DEF IInv, HostIsHost
    <2> QED
      BY <1>6, <2>1, <2>2 DEF IInv, HostIsHost
  <1>16. LostIsGone'
    <2>1. \A h \in lost : h \in Nat /\ h # next /\ h < next' /\ h \notin Live
      BY <1>1, Addresses DEF IInv, LostIsGone
    <2> QED
      BY <1>6, <2>1 DEF LostIsGone
  <1> QED
    BY <1>8, <1>9, <1>13, <1>14, <1>15, <1>16 DEF IInv

LEMMA SetKernelArgKeeps ==
  ASSUME IInv, NEW k \in Handles("kernel"), NEW v \in Handles("mem") \cup {HOST}, SetKernelArg(k, v)
  PROVE  IInv'
  <1>1. v \in Addr
    BY HandleTypes DEF HOST, Addr, NULL
  <1>2. UNCHANGED <<held, slot, lost>> /\ err' \in Codes /\ (Regrown(k, v) \/ Reset(k, v))
    BY DEF SetKernelArg, record, Codes
  <1> QED
    BY <1>1, <1>2, RegrownKeeps, ResetKeeps

--------------------------------------------------------------------------

LEMMA InitEstablishes == Init => IInv
  <1> SUFFICES ASSUME Init PROVE IInv
    OBVIOUS
  <1>1. HOST \in Nat /\ HOST \in Addr /\ {} \in SUBSET Addr /\ NULL \in Nat /\ "host" \in Kinds
    BY KindsAre DEF HOST, Addr, NULL
  <1>2. heap = [a \in {HOST} |-> Obj("host", NULL, {}, {})] /\ next = HOST + 1 /\ held = {} /\ slot = NULL
        /\ err = "CL_SUCCESS" /\ lost = {}
    BY DEF Init
  <1>3. Obj("host", NULL, {}, {}) \in Block /\ Obj("host", NULL, {}, {}).own = {}
        /\ Obj("host", NULL, {}, {}).kind = "host"
    BY <1>1, Blocks
  <1>4. Live = {HOST} /\ heap[HOST].own = {} /\ heap[HOST].kind = "host" /\ heap \in [Live -> Block]
    BY <1>2, <1>3 DEF Live
  <1>5. TypeOK
    BY <1>1, <1>2, <1>4 DEF TypeOK, HOST, NULL, Addr, Codes
  <1>6. HandlesUsable /\ OwnershipSound /\ OwnedIsData /\ HostIsHost /\ SlotIsKernel /\ LostIsGone
    BY <1>2, <1>4 DEF HandlesUsable, OwnershipSound, OwnedIsData, HostIsHost, SlotIsKernel, LostIsGone, HOST, NULL
  <1> QED
    BY <1>5, <1>6 DEF IInv

LEMMA CreateKeeps == IInv /\ Create => IInv'
  BY CreateContextKeeps, CreateQueueKeeps, CreateBufferKeeps, BufferFailsKeeps, CreateProgramKeeps,
     ProgramFailsKeeps, CreateKernelKeeps, RefusedKeeps, KernelRefusedKeeps DEF Create

LEMMA UseKeeps == IInv /\ Use => IInv'
  <1>1. ASSUME IInv, NEW q, NEW k, EnqueueKernel(q, k) \/ EnqueueBuffer(q, k) PROVE IInv'
    BY <1>1, SameKeeps DEF EnqueueKernel, EnqueueBuffer
  <1> QED
    BY <1>1, SetKernelArgKeeps DEF Use

\* The inductive invariant: the calls of the API, in any order and with any
\* failures, keep every part of it.
THEOREM Inductive == Spec => []IInv
  <1>1. IInv /\ [Next]_vars => IInv'
    <2> SUFFICES ASSUME IInv, [Next]_vars PROVE IInv'
      OBVIOUS
    <2>1. CASE UNCHANGED vars
      BY <2>1, RefusedKeeps DEF CreateUnsupported
    <2>2. CASE Next
      BY <2>2, CreateKeeps, UseKeeps, RefusedKeeps, AppFreeKeeps, ReleaseKeeps, UseLostKeeps DEF Next
    <2> QED
      BY <2>1, <2>2
  <1> QED
    BY <1>1, InitEstablishes, PTL DEF Spec

\* The heap holds blocks of the declared shapes at the addresses given out so
\* far, whatever the create and release calls do.
THEOREM TypeCorrect == Spec => []TypeOK
  <1>1. IInv => TypeOK
    BY DEF IInv
  <1> QED
    BY <1>1, Inductive, PTL

\* No release or failed create call frees an object under a handle the
\* application still has, but for the kernels refused clCreateKernel calls
\* found in their slot.
THEOREM HandlesStayUsable == Spec => []HandlesUsable
  <1>1. IInv => HandlesUsable
    BY DEF IInv
  <1> QED
    BY <1>1, Inductive, PTL

\* No block has two owners or a handle beside its owner, so that no sequence
\* of release calls of objects that are there frees it twice.
THEOREM OwnershipStaysSound == Spec => []OwnershipSound
  <1>1. IInv => OwnershipSound
    BY DEF IInv
  <1> QED
    BY <1>1, Inductive, PTL

--------------------------------------------------------------------------
(* What the pointers of live objects lead to: TouchesLive.                 *)

\* An address that a refused clCreateKernel never found in its slot, and never
\* will: nobody's, or of a block that is no kernel.
NoKernel(x) ==
  /\ x \in Nat /\ x < next /\ x \notin lost /\ (x = slot => x = NULL)
  /\ x \in Live => heap[x].kind # "kernel"

\* A kernel's parent is a program or gone; a program uses its binary and its
\* chunk array, which is never freed, as nothing owns it.
PointersOf(a) ==
  /\ heap[a].kind = "kernel" => (heap[a].up \in Live => heap[heap[a].up].kind = "program")
  /\ heap[a].kind = "program" =>
       \A b \in heap[a].uses : b = HOST \/ (b \in Live /\ heap[b].kind = "chunks")
  /\ \A b \in heap[a].own : heap[b].kind # "chunks"
  /\ NoKernel(heap[a].up) /\ \A b \in heap[a].uses : NoKernel(b)
Pointers == NoKernel(NULL) /\ NoKernel(HOST) /\ \A a \in Live : PointersOf(a)

\* What a step does to the blocks that stay, to those that go and to new ones,
\* and to the slot.
Target(b) == b \in {NULL, HOST} \/ (b \in Live' /\ heap'[b].kind # "kernel")
Staying ==
  \A a \in Live \cap Live' :
    /\ heap'[a].kind = heap[a].kind /\ heap'[a].up = heap[a].up
    /\ heap[a].kind # "kernel" => heap'[a].uses = heap[a].uses
    /\ \A b \in heap'[a].uses : b \in heap[a].uses \/ Target(b)
    /\ \A b \in heap'[a].own : b \in heap[a].own \/ (b \in Live' \ Live /\ heap'[b].kind # "chunks")
Going == \A a \in Live \ Live' : heap[a].kind # "chunks"
Coming ==
  \A a \in Live' \ Live :
    /\ a >= next /\ a \in Nat
    /\ heap'[a].kind = "kernel" => heap'[a].up \in Live' /\ heap'[heap'[a].up].kind = "program"
    /\ heap'[a].kind = "program" =>
         \A b \in heap'[a].uses : b = HOST \/ (b \in Live' /\ heap'[b].kind = "chunks")
    /\ \A b \in heap'[a].own : heap'[b].kind # "chunks"
    /\ Target(heap'[a].up) /\ \A b \in heap'[a].uses : Target(b)
Marks == slot' \in {slot, next} /\ lost' \subseteq lost \cup ({slot} \ {NULL})

\* What was no kernel stays none, and an object that is no kernel is none.
LEMMA NoKernelKept ==
  ASSUME IInv, NEW x, NoKernel(x), next' \in Nat, next' >= next, Staying, Coming, Marks
  PROVE  NoKernel(x)'
  <1>1. next \in Nat /\ x \in Nat /\ x < next
    BY Addresses DEF IInv, NoKernel
  <1>2. x \in Live' => x \in Live
    BY <1>1 DEF Coming
  <1>3. x \notin lost' /\ (x = slot' => x = NULL)
    BY <1>1 DEF NoKernel, Marks
  <1>4. x < next'
    BY <1>1
  <1> QED
    BY <1>1, <1>2, <1>3, <1>4 DEF NoKernel, Staying

LEMMA LiveNoKernel ==
  ASSUME IInv, NEW x \in Live, heap[x].kind # "kernel"
  PROVE  NoKernel(x)
  BY Addresses DEF IInv, LostIsGone, SlotIsKernel, NoKernel

LEMMA TargetNoKernel ==
  ASSUME IInv', NoKernel(NULL)', NoKernel(HOST)', NEW b, Target(b) PROVE NoKernel(b)'
  <1>1. CASE b \in {NULL, HOST}
    BY <1>1 DEF NULL, HOST
  <1>2. CASE b \in Live' /\ heap'[b].kind # "kernel"
    <2>1. b \in Nat /\ b < next'
      <3>1. Live' \subseteq 1 .. next' - 1 /\ next' \in Nat
        BY DEF IInv, TypeOK, HOST, Addr
      <3>2. \A n \in Nat : \A u \in 1 .. n - 1 : u \in Nat /\ u < n
        OBVIOUS
      <3> QED
        BY <1>2, <3>1, <3>2, Zenon
    <2> QED
      BY <1>2, <2>1 DEF IInv, LostIsGone, SlotIsKernel, NoKernel
  <1> QED
    BY <1>1, <1>2 DEF Target

\* Pointers stay good if no block goes that a staying one points to.
LEMMA PointersKept ==
  ASSUME IInv, Pointers, IInv', next' \in Nat, next' >= next, Staying, Going, Coming, Marks
  PROVE  Pointers'
  <1>1. NoKernel(NULL)' /\ NoKernel(HOST)'
    <2>1. NoKernel(0)' /\ NoKernel(1)'
      BY NoKernelKept DEF Pointers, NULL, HOST
    <2> QED
      BY <2>1 DEF NULL, HOST
  <1>2. ASSUME NEW a \in Live', a \in Live
        PROVE  PointersOf(a)'
    <2>1. PointersOf(a) /\ heap'[a].kind = heap[a].kind /\ heap'[a].up = heap[a].up
          /\ (heap[a].kind # "kernel" => heap'[a].uses = heap[a].uses)
      BY <1>2 DEF Pointers, Staying
    <2>2. ASSUME heap[a].kind = "kernel", heap[a].up \in Live'
          PROVE  heap'[heap[a].up].kind = "program"
      <3>1. heap[a].up < next /\ heap[a].up \in Nat /\ next \in Nat
        BY <2>1, Addresses DEF PointersOf, NoKernel, IInv
      <3>2. heap[a].up \in Live
        BY <2>2, <3>1 DEF Coming
      <3> QED
        BY <2>1, <2>2, <3>2 DEF PointersOf, Staying
    <2>3. ASSUME heap[a].kind = "program", NEW b \in heap[a].uses
          PROVE  b = HOST \/ (b \in Live' /\ heap'[b].kind = "chunks")
      <3>1. b = HOST \/ (b \in Live /\ heap[b].kind = "chunks")
        BY <2>1, <2>3 DEF PointersOf
      <3> QED
        BY <3>1 DEF Going, Staying
    <2>4. ASSUME NEW b \in heap'[a].own
          PROVE  heap'[b].kind # "chunks"
      <3>1. CASE b \in heap[a].own
        <4>1. heap[b].kind # "chunks" /\ b \in Live
          BY <1>2, <2>1, <3>1 DEF PointersOf, IInv, OwnershipSound
        <4>2. b \in Live'
          BY <1>2, <2>4 DEF IInv, OwnershipSound
        <4> QED
          BY <4>1, <4>2 DEF Staying
      <3>2. CASE b \notin heap[a].own
        BY <1>2, <2>4, <3>2 DEF Staying
      <3> QED
        BY <3>1, <3>2
    <2>5. NoKernel(heap[a].up)'
      <3>1. ASSUME NEW x, NoKernel(x) PROVE NoKernel(x)'
        BY <3>1, NoKernelKept
      <3> QED
        BY <2>1, <3>1 DEF PointersOf, NoKernel
    <2>6. ASSUME NEW b \in heap'[a].uses PROVE NoKernel(b)'
      <3>1. b \in heap[a].uses \/ Target(b)
        BY <1>2 DEF Staying
      <3>2. CASE b \in heap[a].uses
        BY <2>1, <3>2, NoKernelKept DEF PointersOf
      <3> QED
        BY <1>1, <3>1, <3>2, TargetNoKernel
    <2> QED
      BY <2>1, <2>2, <2>3, <2>4, <2>5, <2>6 DEF PointersOf
  <1>3. ASSUME NEW a \in Live', a \notin Live
        PROVE  PointersOf(a)'
    <2>1. ASSUME NEW b, Target(b) PROVE NoKernel(b)'
      BY <1>1, <2>1, TargetNoKernel
    <2>2. NoKernel(heap[a].up)'
      BY <1>3, <2>1 DEF Coming, NoKernel
    <2> QED
      BY <1>3, <2>1, <2>2 DEF Coming, PointersOf
  <1> QED
    BY <1>1, <1>2, <1>3 DEF Pointers

LEMMA SamePointers ==
  ASSUME IInv, Pointers, UNCHANGED <<heap, next, slot, lost>> PROVE Pointers'
  BY DEF Pointers, PointersOf, NoKernel, Live

\* Pointers when blocks are freed, and when new ones are added.
LEMMA WithoutPointers ==
  ASSUME IInv, Pointers, IInv', NEW S, heap' = Without(S), UNCHANGED next, Marks,
         \A a \in S : a \in Live => heap[a].kind # "chunks"
  PROVE  Pointers'
  <1>1. Live' = Live \ S /\ \A a \in Live' : heap'[a] = heap[a]
    BY DEF Without, Live
  <1>2. Staying /\ Going /\ Coming
    BY <1>1 DEF Staying, Going, Coming
  <1> QED
    BY <1>1, <1>2, PointersKept, Addresses DEF IInv

\* The blocks of an object that is released.
LEMMA WholeNoChunks ==
  ASSUME IInv, Pointers, NEW h \in Live, heap[h].kind \in Handled
  PROVE  \A a \in Whole(h) : heap[a].kind # "chunks"
  BY KindsAre DEF Whole, Pointers, PointersOf

LEMMA WithFacts ==
  ASSUME IInv, NEW n \in Nat, NEW bs, DOMAIN bs \subseteq next .. next + n - 1, heap' = With(bs)
  PROVE  /\ Live' \ Live = DOMAIN bs /\ Live \subseteq Live'
         /\ \A a \in Live : heap'[a] = heap[a]
         /\ \A a \in DOMAIN bs : heap'[a] = bs[a] /\ a >= next /\ a \in Nat
  <1>1. \A a \in DOMAIN bs : a \in Nat /\ a >= next /\ a \notin Live
    BY Addresses DEF IInv
  <1> QED
    BY <1>1 DEF With, Live

PointWell(bs) ==
  \A a \in DOMAIN bs :
    /\ bs[a].up = NULL \/ (bs[a].up \in Live /\ heap[bs[a].up].kind # "kernel")
    /\ bs[a].kind = "kernel" => bs[a].up \in Live /\ heap[bs[a].up].kind = "program"
    /\ \A b \in bs[a].uses : b = HOST \/ (b \in DOMAIN bs /\ bs[b].kind = "chunks")
    /\ \A b \in bs[a].own :
         \/ b \in DOMAIN bs /\ bs[b].kind # "chunks"
         \/ b = HOST /\ HOST \in Live

LEMMA WithPointers ==
  ASSUME IInv, Pointers, IInv', NEW n \in Nat, NEW bs, DOMAIN bs \subseteq next .. next + n - 1,
         heap' = With(bs), next' = next + n, PointWell(bs), Marks
  PROVE  Pointers'
  <1>1. /\ Live' \ Live = DOMAIN bs /\ Live \subseteq Live'
        /\ \A a \in Live : heap'[a] = heap[a]
        /\ \A a \in DOMAIN bs : heap'[a] = bs[a] /\ a >= next /\ a \in Nat
    BY WithFacts
  <1>2. Staying /\ Going
    BY <1>1 DEF Staying, Going
  <1>3. HOST \in Live => heap'[HOST].kind # "chunks"
    BY <1>1 DEF IInv, HostIsHost
  <1>4. Coming
    <2>1. ASSUME NEW a \in DOMAIN bs, NEW b \in bs[a].own PROVE heap'[b].kind # "chunks"
      BY <1>1, <1>3, <2>1 DEF PointWell
    <2>2. ASSUME NEW a \in DOMAIN bs PROVE Target(bs[a].up) /\ \A b \in bs[a].uses : Target(b)
      BY <1>1, <2>2 DEF PointWell, Target
    <2>3. ASSUME NEW a \in DOMAIN bs, bs[a].kind = "kernel"
          PROVE  bs[a].up \in Live' /\ heap'[bs[a].up].kind = "program"
      BY <1>1, <2>3 DEF PointWell
    <2>4. ASSUME NEW a \in DOMAIN bs, NEW b \in bs[a].uses
          PROVE  b = HOST \/ (b \in Live' /\ heap'[b].kind = "chunks")
      BY <1>1, <2>4 DEF PointWell
    <2> QED
      BY <1>1, <2>1, <2>2, <2>3, <2>4 DEF Coming
  <1>5. next' \in Nat /\ next' >= next
    BY Addresses DEF IInv
  <1> QED
    BY <1>2, <1>4, <1>5, PointersKept

\* Every step keeps Pointers.
LEMMA CreatePointers ==
  ASSUME IInv, Pointers, IInv', Create, ~KernelRefused
  PROVE  Pointers' /\ held \subseteq held' /\ Live \subseteq Live' /\ \A a \in Live : heap'[a] = heap[a]
  <1>0. next \in Nat /\ next # next + 1 /\ next # next + 2 /\ next + 1 # next + 2
    BY Addresses DEF IInv
  <1>11. 1 \in Nat \ {0}
    OBVIOUS
  <1>1. CASE UNCHANGED <<heap, next, held, slot, lost>>
    <2>1. Live' = Live
      BY <1>1 DEF Live
    <2> QED
      BY <1>1, <2>1, SamePointers
  <1>2. ASSUME NEW bs, DOMAIN bs = {next}, NEW n \in Nat \ {0}, bs[next].uses = {},
               bs[next].up = NULL \/ (bs[next].up \in Live /\ heap[bs[next].up].kind # "kernel"),
               bs[next].kind = "kernel" => bs[next].up \in Live /\ heap[bs[next].up].kind = "program",
               bs[next].own = {} \/ (bs[next].own = {HOST} /\ HOST \in Live),
               heap' = With(bs), next' = next + n, held \subseteq held', Marks
        PROVE  Pointers' /\ held \subseteq held' /\ Live \subseteq Live' /\ \A a \in Live : heap'[a] = heap[a]
    <2>1. DOMAIN bs = {next} /\ heap' = With(bs)
      BY <1>2
    <2>2. DOMAIN bs \subseteq next .. next + n - 1
      BY <1>0, <1>2
    <2>3. Live \subseteq Live' /\ \A a \in Live : heap'[a] = heap[a]
      BY <2>1, <2>2, WithFacts
    <2>4. PointWell(bs)
      BY <1>2, <2>1 DEF PointWell
    <2>5. Pointers'
      BY <1>2, <2>1, <2>2, <2>4, WithPointers
    <2> QED
      BY <1>2, <2>3, <2>5
  <1>3. ASSUME NEW k, NEW u \in Live, heap[u].kind # "kernel", k = "kernel" => heap[u].kind = "program", Marks,
               heap' = With([a \in {next, next + 1} |-> IF a = next THEN Obj(k, u, {next + 1}, {})
                                                                   ELSE Obj("data", NULL, {}, {})]),
               next' = next + 2, held \subseteq held'
        PROVE  Pointers' /\ held \subseteq held' /\ Live \subseteq Live' /\ \A a \in Live : heap'[a] = heap[a]
    <2> DEFINE bs == [a \in {next, next + 1} |-> IF a = next THEN Obj(k, u, {next + 1}, {})
                                                            ELSE Obj("data", NULL, {}, {})]
    <2>1. /\ DOMAIN bs = {next, next + 1} /\ heap' = With(bs)
          /\ bs[next].kind = k /\ bs[next].up = u /\ bs[next].own = {next + 1} /\ bs[next].uses = {}
          /\ bs[next + 1].kind = "data" /\ bs[next + 1].own = {} /\ bs[next + 1].uses = {}
          /\ bs[next + 1].up = NULL
      BY <1>0, <1>3 DEF Obj
    <2>2. DOMAIN bs \subseteq next .. next + 2 - 1
      BY <1>0
    <2> HIDE DEF bs
    <2>3. Live \subseteq Live' /\ \A a \in Live : heap'[a] = heap[a]
      BY <2>1, <2>2, WithFacts
    <2>4. PointWell(bs)
      BY <1>3, <2>1 DEF PointWell
    <2>5. Pointers'
      BY <1>3, <2>1, <2>2, <2>4, WithPointers
    <2> QED
      BY <1>3, <2>3, <2>5
  <1>4. ASSUME NEW c \in Live, heap[c].kind # "kernel", Marks, NEW D \in {{next, next + 1, next + 2}, {next + 1}, {next + 1, next + 2}},
               heap' = With([a \in D |-> ProgramBlocks(c)[a]]), next' = next + 3, held \subseteq held'
        PROVE  Pointers' /\ held \subseteq held' /\ Live \subseteq Live' /\ \A a \in Live : heap'[a] = heap[a]
    <2> DEFINE ps == ProgramBlocks(c)
               bs == [a \in D |-> ps[a]]
    <2>1. /\ ps[next].kind = "program" /\ ps[next].own = {next + 1} /\ ps[next].uses = {HOST, next + 2}
          /\ ps[next].up = c /\ ps[next + 1].up = NULL /\ ps[next + 2].up = NULL
          /\ ps[next + 1].kind = "elf" /\ ps[next + 1].own = {} /\ ps[next + 1].uses = {}
          /\ ps[next + 2].kind = "chunks" /\ ps[next + 2].own = {} /\ ps[next + 2].uses = {}
      BY <1>0 DEF ProgramBlocks, Obj
    <2> HIDE DEF ps
    <2>2. DOMAIN bs = D /\ \A a \in D : bs[a] = ps[a]
      OBVIOUS
    <2>3. heap' = With(bs)
      BY <1>4 DEF ps
    <2>4. D \subseteq next .. next + 3 - 1
      BY <1>0
    <2> HIDE DEF bs
    <2>5. Live \subseteq Live' /\ \A a \in Live : heap'[a] = heap[a]
      BY <2>2, <2>3, <2>4, WithFacts
    <2>6. PointWell(bs)
      <3>1. \A a \in D : ps[a].up = NULL \/ (ps[a].up \in Live /\ heap[ps[a].up].kind # "kernel")
        BY <1>4, <2>1
      <3>2. \A a \in D : ps[a].kind # "kernel" /\ \A b \in ps[a].uses : b = HOST \/ (b = next + 2 /\ a = next)
        BY <2>1
      <3>3. next \in D => next + 2 \in D
        BY <1>0
      <3>4. \A a \in D : ps[a].own = {} \/ (ps[a].own = {next + 1} /\ next + 1 \in D)
        BY <1>0, <2>1
      <3> QED
        BY <2>1, <2>2, <3>1, <3>2, <3>3, <3>4 DEF PointWell
    <2>7. Pointers'
      BY <1>4, <2>2, <2>3, <2>4, <2>6, WithPointers
    <2> QED
      BY <1>4, <2>5, <2>7
  <1>5. CASE CreateRefused \/ CreateUnsupported
    BY <1>1, <1>5 DEF CreateRefused, Refuses, CreateUnsupported, vars, record
  <1>6. CASE CreateContext
    <2>1. heap' = With([a \in {next} |-> Obj("context", NULL, {}, {})]) /\ next' = next + 1 /\ held \subseteq held'
          /\ Marks
      BY <1>6 DEF CreateContext, Gives, record, Marks
    <2> DEFINE bs == [a \in {next} |-> Obj("context", NULL, {}, {})]
    <2>2. /\ DOMAIN bs = {next} /\ bs[next].kind = "context" /\ bs[next].own = {} /\ heap' = With(bs)
          /\ bs[next].up = NULL /\ bs[next].uses = {}
      BY <2>1 DEF Obj
    <2> HIDE DEF bs
    <2> QED
      BY <1>2, <1>11, <2>1, <2>2
  <1>7. ASSUME NEW c \in Handles("context"), CreateQueue(c)
        PROVE  Pointers' /\ held \subseteq held' /\ Live \subseteq Live' /\ \A a \in Live : heap'[a] = heap[a]
    <2>1. heap' = With([a \in {next} |-> Obj("queue", c, {}, {})]) /\ next' = next + 1 /\ held \subseteq held'
          /\ Marks /\ c \in Live /\ heap[c].kind = "context"
      BY <1>7, HandleTypes DEF CreateQueue, Gives, record, Marks
    <2> DEFINE bs == [a \in {next} |-> Obj("queue", c, {}, {})]
    <2>2. /\ DOMAIN bs = {next} /\ bs[next].kind = "queue" /\ bs[next].own = {} /\ heap' = With(bs)
          /\ bs[next].up = c /\ bs[next].uses = {}
      BY <2>1 DEF Obj
    <2> HIDE DEF bs
    <2> QED
      BY <1>2, <1>11, <2>1, <2>2
  <1>8. ASSUME NEW c \in Handles("context"), NEW f \in Flags, CreateBuffer(c, f) \/ BufferFails(c, f)
        PROVE  Pointers' /\ held \subseteq held' /\ Live \subseteq Live' /\ \A a \in Live : heap'[a] = heap[a]
    <2>0. c \in Live /\ heap[c].kind = "context" /\ Marks
      BY <1>8, HandleTypes DEF BufferFails, FailsWith, CreateBuffer, Gives, record, Marks
    <2>1. CASE BufferFails(c, f)
      <3>1. heap' = With([a \in {next} |-> Obj("mem", c, {}, {})]) /\ next' = next + 1 /\ held \subseteq held'
        BY <2>1 DEF BufferFails, FailsWith
      <3> DEFINE bs == [a \in {next} |-> Obj("mem", c, {}, {})]
      <3>2. /\ DOMAIN bs = {next} /\ bs[next].kind = "mem" /\ bs[next].own = {} /\ heap' = With(bs)
            /\ bs[next].up = c /\ bs[next].uses = {}
        BY <3>1 DEF Obj
      <3> HIDE DEF bs
      <3> QED
        BY <1>2, <1>11, <2>0, <3>1, <3>2
    <2>2. CASE CreateBuffer(c, f) /\ f = "own"
      <3>1. heap' = With([a \in {next, next + 1} |-> IF a = next THEN Obj("mem", c, {next + 1}, {})
                                                                ELSE Obj("data", NULL, {}, {})])
            /\ next' = next + 2 /\ held \subseteq held'
        BY <2>2 DEF CreateBuffer, Gives, BufferBlocks
      <3> QED
        BY <1>3, <2>0, <3>1
    <2>3. CASE CreateBuffer(c, f) /\ f = "use"
      <3>1. heap' = With([a \in {next} |-> Obj("mem", c, {HOST}, {})]) /\ next' = next + 1 /\ held \subseteq held'
            /\ HOST \in Live
        BY <2>3 DEF CreateBuffer, Gives, BufferBlocks, HostFree
      <3> DEFINE bs == [a \in {next} |-> Obj("mem", c, {HOST}, {})]
      <3>2. /\ DOMAIN bs = {next} /\ bs[next].kind = "mem" /\ bs[next].own = {HOST} /\ heap' = With(bs)
            /\ bs[next].up = c /\ bs[next].uses = {}
        BY <3>1 DEF Obj
      <3> HIDE DEF bs
      <3> QED
        BY <1>2, <1>11, <2>0, <3>1, <3>2
    <2> QED
      BY <1>8, <2>1, <2>2, <2>3, ObjectsAssumption DEF CreateBuffer
  <1>9. ASSUME NEW c \in Handles("context"), CreateProgram(c) \/ ProgramFails(c)
        PROVE  Pointers' /\ held \subseteq held' /\ Live \subseteq Live' /\ \A a \in Live : heap'[a] = heap[a]
    <2>1. c \in Live /\ heap[c].kind = "context" /\ Marks
      BY <1>9, HandleTypes DEF CreateProgram, ProgramFails, FailsWith, Gives, record, Marks
    <2>2. CASE CreateProgram(c)
      <3>1. heap' = With(ProgramBlocks(c)) /\ next' = next + 3 /\ held \subseteq held'
        BY <2>2 DEF CreateProgram, Gives
      <3>2. ProgramBlocks(c) = [a \in {next, next + 1, next + 2} |-> ProgramBlocks(c)[a]]
        BY DEF ProgramBlocks
      <3> QED
        BY <1>4, <2>1, <3>1, <3>2
    <2>3. CASE ProgramFails(c)
      <3>1. PICK left \in {{next + 1}, {next + 1, next + 2}} :
              heap' = With([a \in left |-> ProgramBlocks(c)[a]])
        BY <2>3 DEF ProgramFails, FailsWith
      <3>2. next' = next + 3 /\ held \subseteq held'
        BY <2>3 DEF ProgramFails, FailsWith
      <3> QED
        BY <1>4, <2>1, <3>1, <3>2
    <2> QED
      BY <1>9, <2>2, <2>3
  <1>10. ASSUME NEW p \in Handles("program"), CreateKernel(p)
         PROVE  Pointers' /\ held \subseteq held' /\ Live \subseteq Live' /\ \A a \in Live : heap'[a] = heap[a]
    <2>1. /\ p \in Live /\ heap[p].kind = "program"
          /\ next' = next + 2 /\ held \subseteq held' /\ Marks
      BY <1>10, HandleTypes DEF CreateKernel, Gives, record, Marks
    <2>2. PICK name \in {{}, {next + 1}} : heap' = With(KernelBlocks(p, name))
      BY <1>10 DEF CreateKernel, Gives
    <2>3. CASE name = {next + 1}
      <3>1. {next} \cup name = {next, next + 1}
        BY <2>3
      <3>2. heap' = With([a \in {next, next + 1} |-> IF a = next THEN Obj("kernel", p, {next + 1}, {})
                                                                ELSE Obj("data", NULL, {}, {})])
        BY <2>2, <2>3, <3>1 DEF KernelBlocks
      <3> QED
        BY <1>3, <2>1, <3>2
    <2>4. CASE name = {}
      <3> DEFINE bs == [a \in {next} |-> Obj("kernel", p, {}, {})]
      <3>1. KernelBlocks(p, {}) = bs
        BY DEF KernelBlocks
      <3>2. /\ DOMAIN bs = {next} /\ bs[next].kind = "kernel" /\ bs[next].own = {} /\ heap' = With(bs)
            /\ bs[next].up = p /\ bs[next].uses = {}
        BY <2>2, <2>4, <3>1 DEF Obj
      <3>3. 2 \in Nat \ {0}
        OBVIOUS
      <3> HIDE DEF bs
      <3> QED
        BY <1>2, <2>1, <3>2, <3>3
    <2> QED
      BY <2>3, <2>4
  <1> QED
    BY <1>5, <1>6, <1>7, <1>8, <1>9, <1>10 DEF Create

\* Setting an argument replaces the array and keeps the pointers good.
LEMMA SetKernelArgPointers ==
  ASSUME IInv, Pointers, IInv', NEW k \in Handles("kernel"), NEW v \in Handles("mem") \cup {HOST},
         SetKernelArg(k, v)
  PROVE  Pointers'
  <1>1. k \in Live /\ heap[k].kind = "kernel" /\ heap[k] \in Block /\ next \in Nat
    BY HandleTypes, Addresses DEF IInv, TypeOK
  <1>0. Marks
    BY DEF SetKernelArg, record, Marks
  <1>4. v = HOST \/ (v \in Live /\ v # k /\ heap[v].kind = "mem")
    BY <1>1, HandleTypes
  <1>2. CASE Reset(k, v)
    <2>1. PICK w \in heap[k].uses : heap' = [heap EXCEPT ![k].uses = (@ \ {w}) \cup {v}]
      BY <1>2 DEF Reset
    <2>2. Live' = Live /\ \A a \in Live : a # k => heap'[a] = heap[a]
      BY <2>1 DEF Live
    <2>3. heap'[k] = [heap[k] EXCEPT !.uses = (@ \ {w}) \cup {v}]
      BY <1>1, <2>1 DEF Live
    <2>4. heap'[k].kind = heap[k].kind /\ heap'[k].up = heap[k].up /\ heap'[k].own = heap[k].own
          /\ heap'[k].uses \subseteq heap[k].uses \cup {v}
      BY <1>1, <2>3 DEF Block
    <2>7. Target(v)
      BY <1>4, <2>2 DEF Target
    <2>5. Staying /\ Going /\ Coming
      BY <1>1, <2>2, <2>4, <2>7 DEF Staying, Going, Coming
    <2>6. next' = next
      BY <1>2 DEF Reset
    <2> QED
      BY <1>0, <1>1, <2>5, <2>6, PointersKept
  <1>3. CASE Regrown(k, v)
    <2> DEFINE old == {a \in heap[k].own : a > k + 1}
               K == [heap[k] EXCEPT !.own = (@ \ old) \cup {next}, !.uses = @ \cup {v}]
               N == Obj("data", NULL, {}, {})
    <2>1. heap' = [a \in (Live \cup {next}) \ old |-> IF a = k THEN K ELSE IF a = next THEN N ELSE heap[a]]
          /\ next' = next + 1
      BY <1>3 DEF Regrown
    <2>2. K.kind = heap[k].kind /\ K.up = heap[k].up /\ K.own = (heap[k].own \ old) \cup {next}
          /\ K.uses = heap[k].uses \cup {v}
      <3> HIDE DEF old
      <3> QED
        BY <1>1 DEF Block
    <2>3. N.kind = "data" /\ N.own = {} /\ N.up = NULL /\ N.uses = {}
      BY DEF Obj
    <2>4. old \subseteq heap[k].own /\ old \subseteq Live
      BY <1>1 DEF IInv, OwnershipSound
    <2>5. k \notin old
      BY <1>1, <2>4, KindsAre DEF IInv, OwnedIsData
    <2>6. next \notin Live
      BY Addresses DEF IInv
    <2> HIDE DEF old, K, N
    <2>7. /\ Live' = (Live \cup {next}) \ old /\ k # next /\ next \in Live' \ Live
          /\ heap'[k] = K /\ heap'[next] = N
          /\ \A a \in Live' : a # k /\ a # next => a \in Live /\ heap'[a] = heap[a]
      BY <1>1, <2>1, <2>4, <2>5, <2>6 DEF Live
    <2>12. Target(v)
      <3>1. v # HOST => v \notin old
        BY <1>1, <1>4, <2>4, KindsAre DEF IInv, OwnedIsData, HostIsHost
      <3>2. v = HOST \/ (v \in Live' /\ heap'[v] = heap[v])
        BY <1>4, <2>6, <2>7, <3>1
      <3> QED
        BY <1>4, <3>2 DEF Target
    <2>8. Staying
      BY <1>1, <2>2, <2>3, <2>7, <2>12 DEF Staying
    <2>9. Going
      BY <1>1, <2>4, <2>7 DEF Going, Pointers, PointersOf
    <2>10. Coming
      BY <1>1, <2>3, <2>7 DEF Coming, Target
    <2>11. next' \in Nat /\ next' >= next
      BY <1>1, <2>1
    <2> QED
      BY <1>0, <2>8, <2>9, <2>10, <2>11, PointersKept
  <1> QED
    BY <1>2, <1>3 DEF SetKernelArg

LEMMA NextPointers ==
  ASSUME IInv, Pointers, IInv', [Next]_vars
  PROVE  Pointers'
  <1>1. CASE UNCHANGED <<heap, next, slot, lost>>
    BY <1>1, SamePointers
  <1>2. CASE UNCHANGED vars \/ RefuseOther
    BY <1>1, <1>2 DEF vars, record, RefuseOther
  <1>3. CASE KernelRefused
    <2>1. PICK garbage \in {NULL, slot} :
            /\ heap' = Without(IF garbage \in Live THEN Whole(garbage) ELSE {})
            /\ lost' = lost \cup ({garbage} \ {NULL})
      BY <1>3 DEF KernelRefused
    <2>2. UNCHANGED next /\ Marks
      BY <1>3, <2>1 DEF KernelRefused, Marks
    <2>3. CASE garbage \in Live
      <3>1. garbage = slot
        BY <2>1, <2>3, Addresses DEF IInv, NULL
      <3>2. heap[garbage].kind \in Handled
        BY <2>3, <3>1 DEF IInv, SlotIsKernel, Handled
      <3>3. heap' = Without(Whole(garbage))
        BY <2>1, <2>3
      <3> QED
        BY <2>2, <2>3, <3>2, <3>3, WholeNoChunks, WithoutPointers
    <2>4. CASE garbage \notin Live
      <3>1. heap' = Without({})
        BY <2>1, <2>4
      <3> QED
        BY <2>2, <3>1, WithoutPointers
    <2> QED
      BY <2>3, <2>4
  <1>4. CASE Create /\ ~KernelRefused
    BY <1>4, CreatePointers
  <1>5. CASE Use
    BY <1>1, <1>5, SetKernelArgPointers DEF Use, EnqueueKernel, EnqueueBuffer
  <1>6. CASE AppFree
    <2>1. heap' = Without({HOST}) /\ UNCHANGED next /\ Marks
      BY <1>6 DEF AppFree, record, Marks
    <2>2. HOST \in Live => heap[HOST].kind # "chunks"
      BY DEF IInv, HostIsHost
    <2> QED
      BY <2>1, <2>2, WithoutPointers
  <1>7. ASSUME NEW h \in held, Release(h) PROVE Pointers'
    <2>1. h \in Live /\ heap[h].kind \in Handled
      BY <1>7 DEF Release, IInv, HandlesUsable, LostIsGone
    <2>2. heap' = Without(Whole(h)) /\ UNCHANGED next /\ Marks
      BY <1>7 DEF Release, FreedBy, Marks
    <2> QED
      BY <2>1, <2>2, WholeNoChunks, WithoutPointers
  <1>8. ASSUME NEW h, UseLost(h) PROVE Pointers'
    BY <1>1, <1>8 DEF UseLost
  <1> QED
    BY <1>2, <1>3, <1>4, <1>5, <1>6, <1>7, <1>8 DEF Next

LEMMA InitPointers == Init => Pointers
  <1> SUFFICES ASSUME Init PROVE Pointers
    OBVIOUS
  <1>1. /\ Live = {HOST} /\ heap[HOST].kind = "host" /\ heap[HOST].own = {}
        /\ heap[HOST].up = NULL /\ heap[HOST].uses = {}
    BY DEF Init, Live, Obj
  <1>2. NoKernel(NULL) /\ NoKernel(HOST)
    BY <1>1 DEF Init, NoKernel, NULL, HOST
  <1> QED
    BY <1>1, <1>2 DEF Pointers, PointersOf

\* A launch follows what is there, or NULL: the handles it needs are held, and
\* are of no kernel a refused clCreateKernel may have freed.
LEMMA ReachedIsLive ==
  ASSUME IInv, Pointers, NEW q \in Handles("queue"), NEW k \in Handles("kernel"), CanLaunch(q, k)
  PROVE  Reached(q, k) \ {NULL} \subseteq Live
  <1>1. q \in Live /\ k \in Live /\ heap[k].kind = "kernel" /\ PointersOf(q) /\ PointersOf(k)
    BY HandleTypes DEF Pointers
  <1>2. \A h \in held : h \notin lost => h \in Live
    BY DEF IInv, HandlesUsable
  <1>3. heap[q].up \in Live /\ heap[k].up \in Live /\ heap[k].uses \subseteq Live
    BY <1>1, <1>2 DEF CanLaunch, PointersOf, NoKernel
  <1>4. heap[heap[k].up].kind = "program"
    BY <1>1, <1>3 DEF PointersOf
  <1>5. heap[heap[k].up].uses \subseteq Live
    BY <1>3, <1>4 DEF Pointers, PointersOf, CanLaunch
  <1>6. \A a \in Live : Whole(a) \subseteq Live
    BY DEF Whole, IInv, OwnershipSound
  <1>7. Whole(k) \subseteq Live /\ \A a \in heap[k].uses : Whole(a) \subseteq Live
    BY <1>1, <1>3, <1>6
  <1>8. Name(k) \in Live \cup {NULL}
    BY <1>7 DEF Name, Whole
  <1> QED
    BY <1>1, <1>3, <1>5, <1>7, <1>8 DEF Reached

\* No release, launch or transfer follows a pointer to a block that was freed,
\* in any order of the calls before it: but for a kernel that a refused
\* clCreateKernel found in its slot, and the NULL where strdup failed.
THEOREM NoDanglingUse == Spec => []TouchesLive
  <1>1. Init /\ IInv => Pointers /\ TouchesLive
    BY InitPointers DEF Init, TouchesLive
  <1>2. IInv /\ Pointers /\ TouchesLive /\ IInv' /\ [Next]_vars => Pointers' /\ TouchesLive'
    <2> SUFFICES ASSUME IInv, Pointers, TouchesLive, IInv', [Next]_vars PROVE Pointers' /\ TouchesLive'
      OBVIOUS
    <2>1. Pointers'
      BY NextPointers
    <2> SUFFICES TouchesLive'
      BY <2>1
    <2>2. ASSUME NEW S, S \ {NULL} \subseteq Live \cup lost', Follows(S), lost \subseteq lost' PROVE TouchesLive'
      BY <2>2 DEF TouchesLive, Follows
    <2>3. CASE UNCHANGED <<lost, strayed>>
      BY <2>3 DEF TouchesLive
    <2>4. CASE UNCHANGED vars \/ RefuseOther \/ AppFree
      BY <2>3, <2>4 DEF vars, record, RefuseOther, AppFree
    <2>5. CASE Create
      <3>1. CASE KernelRefused
        <4>1. PICK garbage \in {NULL, slot} :
                lost' = lost \cup ({garbage} \ {NULL}) /\ Follows({garbage} \ {NULL})
          BY <3>1 DEF KernelRefused
        <4> DEFINE S == {garbage} \ {NULL}
        <4>2. S \subseteq lost' /\ lost \subseteq lost' /\ Follows(S)
          BY <4>1
        <4> HIDE DEF S
        <4> QED
          BY <4>2, <2>2
      <3>2. CASE ~KernelRefused
        <4>1. UNCHANGED <<lost, strayed>>
          BY <2>5, <3>2 DEF Create, CreateContext, CreateQueue, CreateBuffer, BufferFails, CreateProgram,
             ProgramFails, CreateKernel, CreateRefused, CreateUnsupported, Gives, FailsWith, Refuses,
             vars, record
        <4> QED
          BY <4>1 DEF TouchesLive
      <3> QED
        BY <3>1, <3>2
    <2>6. CASE Use
      <3>1. ASSUME NEW k, NEW v, SetKernelArg(k, v) PROVE TouchesLive'
        BY <2>3, <3>1 DEF SetKernelArg, record
      <3>2. ASSUME NEW q \in Handles("queue"), NEW k \in Handles("kernel"), EnqueueKernel(q, k)
            PROVE  TouchesLive'
        <4>1. Reached(q, k) \ {NULL} \subseteq Live /\ Follows(Reached(q, k)) /\ lost' = lost
          BY <3>2, ReachedIsLive DEF EnqueueKernel
        <4> QED
          BY <2>2, <4>1
      <3>3. ASSUME NEW q \in Handles("queue"), NEW m \in Handles("mem"), EnqueueBuffer(q, m)
            PROVE  TouchesLive'
        <4>1. {q} \cup Whole(m) \subseteq Live
          BY HandleTypes DEF Whole, IInv, OwnershipSound
        <4> QED
          BY <2>2, <3>3, <4>1 DEF EnqueueBuffer
      <3> QED
        BY <2>6, <3>1, <3>2, <3>3 DEF Use
    <2>7. ASSUME NEW h \in held, Release(h) PROVE TouchesLive'
      <3>1. TouchedBy(h) \subseteq Live /\ Follows(TouchedBy(h)) /\ lost' = lost
        BY <2>7 DEF Release, TouchedBy, Whole, IInv, OwnershipSound
      <3> QED
        BY <2>2, <3>1
    <2>8. ASSUME NEW h \in held, UseLost(h) PROVE TouchesLive'
      <3>1. h \in lost /\ Follows({h}) /\ lost' = lost
        BY <2>8 DEF UseLost, IInv, HandlesUsable
      <3> QED
        BY <2>2, <3>1
    <2> QED
      BY <2>1, <2>4, <2>5, <2>6, <2>7, <2>8 DEF Next
  <1> QED
    BY <1>1, <1>2, Inductive, PTL DEF Spec

\* A create call that fails, or succeeds, takes nothing away and changes
\* nothing there was, whatever that is; a refused clCreateKernel is left out.
THEOREM CreateLeavesOthers == Spec => CreateKeepsOthers
  <1>1. IInv /\ Pointers /\ IInv' /\ [Next]_vars =>
          [Create /\ ~KernelRefused =>
             held \subseteq held' /\ Live \subseteq Live' /\ \A a \in Live : heap'[a] = heap[a]]_vars
    BY CreatePointers
  <1>2. Init => Pointers
    BY InitPointers
  <1>3. IInv /\ Pointers /\ IInv' /\ [Next]_vars => Pointers'
    BY NextPointers
  <1> QED
    BY <1>1, <1>2, <1>3, Inductive, PTL DEF Spec, CreateKeepsOthers

--------------------------------------------------------------------------
(* What is lost: LeaksKnown, which needs nothing but IInv to be inductive. *)

\* A block no handle leads to any more, and that the code is known to forget:
\* b at address a, when the calls that made failed have failed.
Forgotten(a, b, failed) ==
  \/ b.kind = "chunks"
  \/ b.kind = "elf" /\ a - 1 \in failed
  \/ b.kind = "mem" /\ a \in failed

\* LeaksKnown, said of each block.
LEMMA LeaksAre == LeaksKnown <=> \A a \in Live : a \in Reachable \/ Forgotten(a, heap[a], partial)
  BY DEF LeaksKnown, Forgotten

\* Nothing changes that matters.
LEMMA SameLeaks ==
  ASSUME LeaksKnown, UNCHANGED <<heap, partial>>, held \cap Live \subseteq held' PROVE LeaksKnown'
  BY DEF LeaksKnown, Reachable, Live

\* An object goes with all it owns, and its handle with it or not.
LEMMA WholeGone ==
  ASSUME IInv, LeaksKnown, NEW h \in Live, heap[h].kind \in Handled,
         heap' = Without(Whole(h)), held \ {h} \subseteq held', partial' = partial
  PROVE  LeaksKnown'
  <1>1. Live' = Live \ Whole(h) /\ \A a \in Live' : heap'[a] = heap[a]
    BY DEF Without, Live
  <1>2. ASSUME NEW a \in Live' PROVE a \in Reachable' \/ Forgotten(a, heap'[a], partial')
    <2>1. a \in Live /\ a \notin Whole(h) /\ heap'[a] = heap[a] /\ a # h
      BY <1>1 DEF Whole
    <2>2. CASE Forgotten(a, heap[a], partial)
      BY <2>1, <2>2
    <2>3. CASE a = HOST \/ a \in held
      BY <2>1, <2>3 DEF Reachable
    <2>4. ASSUME NEW g \in held \cap Live, a \in heap[g].own PROVE a \in Reachable'
      <3>1. g \in Live /\ g # h
        BY <2>1, <2>4 DEF Whole
      <3>2. g \notin heap[h].own
        BY DEF IInv, OwnershipSound
      <3>3. g \in held' \cap Live' /\ heap'[g] = heap[g]
        BY <1>1, <3>1, <3>2 DEF Whole
      <3> QED BY <2>4, <3>3 DEF Reachable
    <2> QED BY <2>1, <2>2, <2>3, <2>4, LeaksAre DEF Reachable
  <1> QED BY <1>2 DEF LeaksKnown, Forgotten

\* New blocks come: an object the application has a handle of, what it owns,
\* and what is forgotten at once.
LEMMA AddedLeaks ==
  ASSUME IInv, LeaksKnown, NEW n \in Nat, NEW bs, DOMAIN bs \subseteq next .. next + n - 1,
         heap' = With(bs), held \subseteq held', partial \subseteq partial',
         \A a \in DOMAIN bs : \/ a \in held' \/ (next \in held' \cap DOMAIN bs /\ a \in bs[next].own)
                              \/ Forgotten(a, bs[a], partial')
  PROVE  LeaksKnown'
  <1>1. /\ Live' \ Live = DOMAIN bs /\ Live \subseteq Live'
        /\ \A a \in Live : heap'[a] = heap[a]
        /\ \A a \in DOMAIN bs : heap'[a] = bs[a] /\ a >= next /\ a \in Nat
    BY WithFacts
  <1>2. ASSUME NEW a \in Live' PROVE a \in Reachable' \/ Forgotten(a, heap'[a], partial')
    <2>1. CASE a \in Live
      <3>1. heap'[a] = heap[a] /\ \A g \in held \cap Live : heap'[g] = heap[g] /\ g \in held' \cap Live'
        BY <1>1, <2>1
      <3>2. a \in Reachable => a \in Reachable'
        BY <3>1 DEF Reachable
      <3>3. Forgotten(a, heap[a], partial) => Forgotten(a, heap'[a], partial')
        BY <3>1 DEF Forgotten
      <3> QED BY <2>1, <3>1, <3>2, <3>3, LeaksAre
    <2>2. CASE a \in DOMAIN bs
      <3>1. next \in DOMAIN bs => heap'[next] = bs[next]
        BY <1>1
      <3>2. next \in held' \cap DOMAIN bs /\ a \in bs[next].own => a \in Reachable'
        <4> SUFFICES ASSUME next \in held' \cap DOMAIN bs, a \in bs[next].own PROVE a \in Reachable'
          OBVIOUS
        <4>1. \E g \in held' \cap Live' : a \in heap'[g].own
          BY <1>1, <3>1
        <4> QED BY <4>1 DEF Reachable
      <3>3. a \in held' => a \in Reachable'
        BY DEF Reachable
      <3>4. heap'[a] = bs[a]
        BY <1>1, <2>2
      <3> QED BY <2>2, <3>2, <3>3, <3>4
    <2> QED BY <1>1, <2>1, <2>2
  <1> QED BY <1>2 DEF LeaksKnown, Forgotten

\* Leaks when a call adds one block, two, or those of a program.
LEMMA OneAdded ==
  ASSUME IInv, LeaksKnown, NEW o, heap' = With([a \in {next} |-> o]), held \subseteq held',
         partial \subseteq partial', next \in held' \/ Forgotten(next, o, partial')
  PROVE  LeaksKnown'
  <1> DEFINE bs == [a \in {next} |-> o]
  <1>1. DOMAIN bs = {next} /\ bs[next] = o /\ heap' = With(bs)
    OBVIOUS
  <1>2. {next} \subseteq next .. next + 1 - 1
    BY Addresses DEF IInv
  <1> HIDE DEF bs
  <1> QED BY <1>1, <1>2, AddedLeaks

LEMMA TwoAdded ==
  ASSUME IInv, LeaksKnown, NEW k, NEW u, NEW other,
         heap' = With([a \in {next, next + 1} |-> IF a = next THEN Obj(k, u, {next + 1}, {})
                                                             ELSE Obj(other, NULL, {}, {})]),
         held' = held \cup {next}, partial' = partial
  PROVE  LeaksKnown'
  <1> DEFINE bs == [a \in {next, next + 1} |-> IF a = next THEN Obj(k, u, {next + 1}, {})
                                                          ELSE Obj(other, NULL, {}, {})]
  <1>1. next \in Nat
    BY Addresses DEF IInv
  <1>2. DOMAIN bs = {next, next + 1} /\ bs[next].own = {next + 1} /\ heap' = With(bs)
    BY DEF Obj
  <1>3. {next, next + 1} \subseteq next .. next + 2 - 1
    BY <1>1
  <1> HIDE DEF bs
  <1> QED BY <1>2, <1>3, AddedLeaks

LEMMA ProgramAdded ==
  ASSUME IInv, LeaksKnown, NEW c, NEW D, heap' = With([a \in D |-> ProgramBlocks(c)[a]]),
         \/ D = {next, next + 1, next + 2} /\ held' = held \cup {next} /\ partial' = partial
         \/ D \in {{next + 1}, {next + 1, next + 2}} /\ held' = held /\ partial' = partial \cup {next}
  PROVE  LeaksKnown'
  <1> DEFINE ps == ProgramBlocks(c)
             bs == [a \in D |-> ps[a]]
  <1>1. next \in Nat /\ next # next + 1 /\ next # next + 2 /\ next + 1 # next + 2
        /\ next + 1 - 1 = next
    BY Addresses DEF IInv
  <1>2. ps[next + 1].kind = "elf" /\ ps[next + 2].kind = "chunks" /\ ps[next].own = {next + 1}
    BY <1>1 DEF ProgramBlocks, Obj
  <1> HIDE DEF ps
  <1>3. DOMAIN bs = D /\ \A a \in D : bs[a] = ps[a]
    OBVIOUS
  <1>4. heap' = With(bs)
    BY DEF ps
  <1>5. D \subseteq next .. next + 3 - 1
    <2>1. D \subseteq {next, next + 1, next + 2}
      OBVIOUS
    <2>2. {next, next + 1, next + 2} \subseteq next .. next + 3 - 1
      BY <1>1
    <2> QED BY <2>1, <2>2
  <1> HIDE DEF bs
  <1>6. \A a \in DOMAIN bs : \/ a \in held' \/ (next \in held' \cap DOMAIN bs /\ a \in bs[next].own)
                             \/ Forgotten(a, bs[a], partial')
    <2>1. CASE D = {next, next + 1, next + 2} /\ held' = held \cup {next}
      BY <1>2, <1>3, <2>1 DEF Forgotten
    <2>2. CASE D \in {{next + 1}, {next + 1, next + 2}} /\ partial' = partial \cup {next}
      BY <1>1, <1>2, <1>3, <2>2 DEF Forgotten
    <2> QED BY <2>1, <2>2
  <1>7. DOMAIN bs \subseteq next .. next + 3 - 1 /\ held \subseteq held' /\ partial \subseteq partial' /\ 3 \in Nat
    BY <1>3, <1>5
  <1> QED BY <1>4, <1>6, <1>7, AddedLeaks

LEMMA CreateLeaks == ASSUME IInv, LeaksKnown, Create, ~KernelRefused PROVE LeaksKnown'
  <1>1. CASE CreateRefused \/ CreateUnsupported
    BY <1>1, SameLeaks DEF CreateRefused, Refuses, CreateUnsupported, vars, record
  <1>2. CASE CreateContext
    BY <1>2, OneAdded DEF CreateContext, Gives, record
  <1>3. ASSUME NEW c, CreateQueue(c) PROVE LeaksKnown'
    BY <1>3, OneAdded DEF CreateQueue, Gives, record
  <1>4. ASSUME NEW c, NEW f \in Flags, CreateBuffer(c, f) PROVE LeaksKnown'
    <2>1. CASE f = "own"
      <3>1. heap' = With([a \in {next, next + 1} |-> IF a = next THEN Obj("mem", c, {next + 1}, {})
                                                                ELSE Obj("data", NULL, {}, {})])
            /\ held' = held \cup {next} /\ partial' = partial
        BY <1>4, <2>1 DEF CreateBuffer, Gives, BufferBlocks, record
      <3> QED BY <3>1, TwoAdded
    <2>2. CASE f = "use"
      <3>1. heap' = With([a \in {next} |-> Obj("mem", c, {HOST}, {})]) /\ held' = held \cup {next}
            /\ partial' = partial
        BY <1>4, <2>2 DEF CreateBuffer, Gives, BufferBlocks, record
      <3> QED BY <3>1, OneAdded
    <2> QED BY <1>4, <2>1, <2>2, ObjectsAssumption DEF CreateBuffer
  <1>5. ASSUME NEW c, NEW f, BufferFails(c, f) PROVE LeaksKnown'
    <2>1. heap' = With([a \in {next} |-> Obj("mem", c, {}, {})]) /\ held' = held
          /\ partial' = partial \cup {next}
      BY <1>5 DEF BufferFails, FailsWith
    <2>2. Forgotten(next, Obj("mem", c, {}, {}), partial')
      BY <2>1 DEF Forgotten, Obj
    <2> QED BY <2>1, <2>2, OneAdded
  <1>6. ASSUME NEW c, CreateProgram(c) PROVE LeaksKnown'
    <2>1. heap' = With(ProgramBlocks(c)) /\ held' = held \cup {next} /\ partial' = partial
      BY <1>6 DEF CreateProgram, Gives, record
    <2>2. ProgramBlocks(c) = [a \in {next, next + 1, next + 2} |-> ProgramBlocks(c)[a]]
      BY DEF ProgramBlocks
    <2>3. heap' = With([a \in {next, next + 1, next + 2} |-> ProgramBlocks(c)[a]])
      BY <2>1, <2>2
    <2> QED BY <2>1, <2>3, ProgramAdded
  <1>7. ASSUME NEW c, ProgramFails(c) PROVE LeaksKnown'
    <2>1. PICK left \in {{next + 1}, {next + 1, next + 2}} :
            heap' = With([a \in left |-> ProgramBlocks(c)[a]])
      BY <1>7 DEF ProgramFails, FailsWith
    <2>2. held' = held /\ partial' = partial \cup {next}
      BY <1>7 DEF ProgramFails, FailsWith
    <2> QED BY <2>1, <2>2, ProgramAdded
  <1>8. ASSUME NEW p, CreateKernel(p) PROVE LeaksKnown'
    <2>1. PICK name \in {{}, {next + 1}} : heap' = With(KernelBlocks(p, name))
      BY <1>8 DEF CreateKernel, Gives
    <2>2. held' = held \cup {next} /\ partial' = partial
      BY <1>8 DEF CreateKernel, Gives, record
    <2>3. CASE name = {next + 1}
      <3>1. {next} \cup name = {next, next + 1}
        BY <2>3
      <3>2. heap' = With([a \in {next, next + 1} |-> IF a = next THEN Obj("kernel", p, {next + 1}, {})
                                                                ELSE Obj("data", NULL, {}, {})])
        BY <2>1, <2>3, <3>1 DEF KernelBlocks
      <3> QED BY <2>2, <3>2, TwoAdded
    <2>4. CASE name = {}
      <3>1. KernelBlocks(p, {}) = [a \in {next} |-> Obj("kernel", p, {}, {})]
        BY DEF KernelBlocks
      <3>2. heap' = With([a \in {next} |-> Obj("kernel", p, {}, {})])
        BY <2>1, <2>4, <3>1
      <3> QED BY <2>2, <3>2, OneAdded
    <2> QED BY <2>3, <2>4
  <1> QED BY <1>1, <1>2, <1>3, <1>4, <1>5, <1>6, <1>7, <1>8 DEF Create

\* A kernel's old argument array goes, and a new one comes; or a value changes.
LEMMA SetKernelArgLeaks ==
  ASSUME IInv, LeaksKnown, NEW k \in Handles("kernel"), NEW v, SetKernelArg(k, v)
  PROVE  LeaksKnown'
  <1>1. k \in Live /\ k \in held /\ heap[k].kind = "kernel" /\ heap[k] \in Block
        /\ held' = held /\ partial' = partial
    BY HandleTypes DEF IInv, TypeOK, SetKernelArg, record
  <1>2. CASE Reset(k, v)
    <2>1. PICK w \in heap[k].uses : heap' = [heap EXCEPT ![k].uses = (@ \ {w}) \cup {v}]
      BY <1>2 DEF Reset
    <2>2. Live' = Live /\ \A a \in Live : a # k => heap'[a] = heap[a]
      BY <2>1 DEF Live
    <2>3. heap'[k] = [heap[k] EXCEPT !.uses = (@ \ {w}) \cup {v}]
      BY <1>1, <2>1 DEF Live
    <2>4. heap'[k].kind = heap[k].kind /\ heap'[k].own = heap[k].own
      BY <1>1, <2>3 DEF Block
    <2>5. \A a \in Live : heap'[a].kind = heap[a].kind /\ heap'[a].own = heap[a].own
      BY <2>2, <2>4
    <2>6. Reachable' = Reachable
      BY <1>1, <2>2, <2>5 DEF Reachable
    <2> QED BY <1>1, <2>2, <2>5, <2>6 DEF LeaksKnown
  <1>3. CASE Regrown(k, v)
    <2> DEFINE old == {a \in heap[k].own : a > k + 1}
               K == [heap[k] EXCEPT !.own = (@ \ old) \cup {next}, !.uses = @ \cup {v}]
               N == Obj("data", NULL, {}, {})
    <2>1. heap' = [a \in (Live \cup {next}) \ old |-> IF a = k THEN K ELSE IF a = next THEN N ELSE heap[a]]
      BY <1>3 DEF Regrown
    <2>2. K.own = (heap[k].own \ old) \cup {next}
      <3> HIDE DEF old
      <3> QED BY <1>1 DEF Block
    <2>3. old \subseteq heap[k].own /\ old \subseteq Live /\ old \cap held = {}
      BY <1>1 DEF IInv, OwnershipSound
    <2>4. next \notin Live
      BY Addresses DEF IInv
    <2> HIDE DEF old, K, N
    <2>5. /\ Live' = (Live \cup {next}) \ old /\ k # next /\ k \in Live' /\ heap'[k] = K
          /\ \A a \in Live' : a # k /\ a # next => a \in Live /\ heap'[a] = heap[a]
      BY <1>1, <2>1, <2>3, <2>4 DEF Live
    <2>6. ASSUME NEW a \in Live' PROVE a \in Reachable' \/ Forgotten(a, heap'[a], partial')
      <3>1. CASE a = k \/ a = HOST \/ a \in held
        BY <1>1, <3>1 DEF Reachable
      <3>2. CASE a = next \/ a \in heap[k].own
        <4>1. a \in heap'[k].own
          BY <2>2, <2>5, <2>6, <3>2
        <4> QED BY <1>1, <2>5, <4>1 DEF Reachable
      <3>3. ASSUME NEW g \in held \cap Live, g # k, a \in heap[g].own PROVE a \in Reachable'
        <4>1. g \in Live' /\ g # next
          BY <2>3, <2>4, <2>5
        <4>2. heap'[g] = heap[g]
          BY <2>5, <3>3, <4>1
        <4> QED BY <1>1, <3>3, <4>1, <4>2 DEF Reachable
      <3>4. CASE a # k /\ a # next
        <4>1. a \in Live /\ heap'[a] = heap[a]
          BY <2>5, <3>4
        <4> QED BY <1>1, <3>1, <3>2, <3>3, <4>1, LeaksAre DEF Reachable
      <3> QED BY <3>1, <3>2, <3>4
    <2> QED BY <2>6 DEF LeaksKnown, Forgotten
  <1> QED BY <1>2, <1>3 DEF SetKernelArg

\* No step loses a block but in the ways the property names.
LEMMA NextLeaks == ASSUME IInv, LeaksKnown, [Next]_vars PROVE LeaksKnown'
  <1>1. CASE UNCHANGED vars \/ RefuseOther
    BY <1>1, SameLeaks DEF vars, record, RefuseOther
  <1>2. CASE KernelRefused
    <2>1. PICK garbage \in {NULL, slot} :
            heap' = Without(IF garbage \in Live THEN Whole(garbage) ELSE {})
      BY <1>2 DEF KernelRefused
    <2>2. held' = held /\ partial' = partial
      BY <1>2 DEF KernelRefused
    <2>3. CASE garbage \in Live
      <3>1. garbage = slot
        BY <2>1, <2>3, Addresses DEF IInv, NULL
      <3>2. heap[garbage].kind \in Handled
        BY <2>3, <3>1 DEF IInv, SlotIsKernel, Handled
      <3>3. heap' = Without(Whole(garbage))
        BY <2>1, <2>3
      <3> QED BY <2>2, <2>3, <3>2, <3>3, WholeGone
    <2>4. CASE garbage \notin Live
      <3>1. heap' = Without({})
        BY <2>1, <2>4
      <3>2. heap = [a \in Live |-> heap[a]]
        BY DEF IInv, TypeOK
      <3>3. heap' = heap
        BY <3>1, <3>2 DEF Without
      <3> QED BY <2>2, <3>3, SameLeaks
    <2> QED BY <2>3, <2>4
  <1>3. CASE Create /\ ~KernelRefused
    BY <1>3, CreateLeaks
  <1>4. CASE Use
    BY <1>4, SameLeaks, SetKernelArgLeaks DEF Use, EnqueueKernel, EnqueueBuffer
  <1>5. CASE AppFree
    <2>1. heap' = Without({HOST}) /\ held' = held /\ partial' = partial
      BY <1>5 DEF AppFree, record
    <2>2. Live' = Live \ {HOST} /\ \A a \in Live' : heap'[a] = heap[a]
      BY <2>1 DEF Without, Live
    <2>3. \A g \in held \cap Live : g \in Live'
      BY <2>2 DEF IInv, HandlesUsable, HostIsHost, LostIsGone, Handled
    <2>4. \A a \in Live' : a \in Reachable => a \in Reachable'
      BY <2>1, <2>2, <2>3 DEF Reachable
    <2> QED BY <2>1, <2>2, <2>4 DEF LeaksKnown
  <1>6. ASSUME NEW h \in held, Release(h) PROVE LeaksKnown'
    <2>1. h \in Live /\ heap[h].kind \in Handled
      BY <1>6 DEF Release, IInv, HandlesUsable, LostIsGone
    <2>2. heap' = Without(Whole(h)) /\ held' = held \ {h} /\ partial' = partial
      BY <1>6 DEF Release, FreedBy
    <2> QED BY <2>1, <2>2, WholeGone
  <1>7. ASSUME NEW h, UseLost(h) PROVE LeaksKnown'
    BY <1>7, SameLeaks DEF UseLost
  <1> QED
    BY <1>1, <1>2, <1>3, <1>4, <1>5, <1>6, <1>7 DEF Next

\* A block the application can no longer release is the cl_mem of a
\* clCreateBuffer that failed, a chunk array or the elf_info of a program whose
\* creation failed: no other memory is lost, whatever was created, regrown,
\* refused and released before.
THEOREM OnlyKnownLeaks == Spec => []LeaksKnown
  <1>1. Init => LeaksKnown
    BY DEF Init, LeaksKnown, Reachable, Live
  <1>2. IInv /\ LeaksKnown /\ [Next]_vars => LeaksKnown'
    BY NextLeaks
  <1> QED
    BY <1>1, <1>2, Inductive, PTL DEF Spec
=============================================================================
