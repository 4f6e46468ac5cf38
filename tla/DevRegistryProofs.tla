------------------------- MODULE DevRegistryProofs -------------------------
(***************************************************************************)
(* Theorems about DevRegistry: its type invariant, that no target is       *)
(* listed twice, and that a call which succeeds offers the devices that    *)
(* were reached, for any driver groups and whichever calls fail.           *)
(***************************************************************************)
EXTENDS DevRegistry, TLAPS

\* While a group adds devices it is one of the groups, and not yet inited.
AddingGroup == pc = "add" => grp \in GroupIds \ inited

\* A listed device is of a group that is done, or an earlier one of the group
\* that is adding: this is why a new device is for a target of its own.
ListedEarlier ==
  \A i \in 1 .. Len(list) :
    \/ list[i].group \in inited
    \/ pc = "add" /\ list[i].group = grp /\ list[i].index < added

IInv == TypeOK /\ AddingGroup /\ ListedEarlier /\ TargetListedOnce

--------------------------------------------------------------------------
\* An element of a sequence.
LEMMA ElementOfSeq ==
  ASSUME NEW S, NEW s \in Seq(S), NEW i \in 1 .. Len(s)
  PROVE  s[i] \in S
  OBVIOUS

LEMMA InitEstablishes == Init => IInv
  <1> SUFFICES ASSUME Init PROVE IInv
    OBVIOUS
  <1> USE RegistryAssumption
  <1>1. ask \in Asks /\ NoReply \in [ret : {"none", "CL_SUCCESS", "CL_INVALID_VALUE",
                       "CL_OUT_OF_HOST_MEMORY", "CL_DEVICE_NOT_FOUND"}, devices : Seq(Nat)]
    BY DEF Init, Asks, Everything, NoReply, Answer
  <1>2. TypeOK
    <2>1. list \in Seq([group : GroupIds, index : Nat, enabled : BOOLEAN])
      BY DEF Init
    <2>2. num = Len(list) /\ pos \in 0 .. Len(list) /\ out \in Seq(Nat)
      BY DEF Init
    <2> QED
      BY <1>1, <2>1, <2>2 DEF Init, TypeOK
  <1>3. AddingGroup /\ ListedEarlier /\ TargetListedOnce
    BY DEF Init, AddingGroup, ListedEarlier, TargetListedOnce
  <1> QED
    BY <1>2, <1>3 DEF IInv

LEMMA AskKeepsType ==
  ASSUME IInv, NEW a \in Asks, GetDeviceIDs(a)
  PROVE  TypeOK'
  BY DEF IInv, GetDeviceIDs, TypeOK, call, registry, walk, NoReply, Answer

\* Steps that neither list a device nor end a group.
LEMMA RegistryKept ==
  ASSUME IInv, UNCHANGED <<inited, list>>, pc # "add",
         pc' = "add" => grp' \in GroupIds \ inited
  PROVE  (AddingGroup /\ ListedEarlier /\ TargetListedOnce)'
  BY DEF IInv, AddingGroup, ListedEarlier, TargetListedOnce, TargetOf

\* A step that ends a group, having begun it or not.
LEMMA GroupEnds ==
  ASSUME IInv, NEW r \in {"CL_SUCCESS", "CL_OUT_OF_HOST_MEMORY"}, GroupDone(r),
         grp \in GroupIds, UNCHANGED list
  PROVE  (AddingGroup /\ ListedEarlier /\ TargetListedOnce)'
  <1>1. AddingGroup' /\ TargetListedOnce'
    BY DEF IInv, GroupDone, AddingGroup, TargetListedOnce, TargetOf
  <1>2. ListedEarlier'
    BY DEF IInv, GroupDone, ListedEarlier
  <1> QED
    BY <1>1, <1>2

\* dev_add lists a device for a target that no listed device stands for.
LEMMA AddingListsOnce ==
  ASSUME IInv, NEW works \in BOOLEAN, AddDevice(works)
  PROVE  IInv'
  <1> DEFINE d == [group |-> grp, index |-> added, enabled |-> works]
  <1>1. /\ pc = "add" /\ pc' = "add" /\ grp' = grp /\ inited' = inited
        /\ added \in Nat /\ added' = added + 1 /\ grp \in GroupIds /\ grp \notin inited
        /\ list' = Append(list, d)
    BY DEF IInv, TypeOK, AddingGroup, AddDevice, Listed
  <1>2. d \in [group : GroupIds, index : Nat, enabled : BOOLEAN]
    BY <1>1
  <1>3. list \in Seq([group : GroupIds, index : Nat, enabled : BOOLEAN])
    BY DEF IInv, TypeOK
  <1>9. ASSUME NEW i \in 1 .. Len(list) PROVE list[i].index \in Nat
    <2>1. list[i] \in [group : GroupIds, index : Nat, enabled : BOOLEAN]
      BY <1>3, <1>9, ElementOfSeq
    <2> QED
      BY <2>1
  <1>4. /\ list' \in Seq([group : GroupIds, index : Nat, enabled : BOOLEAN])
        /\ Len(list') = Len(list) + 1 /\ Len(list) \in Nat
        /\ list'[Len(list) + 1] = d
        /\ \A i \in 1 .. Len(list) : list'[i] = list[i]
    BY <1>1, <1>2, <1>3
  <1>5. TypeOK'
    <2>1. num' = Len(list') /\ pos' \in 0 .. Len(list')
      BY <1>4 DEF IInv, TypeOK, AddDevice, Listed, walk
    <2>2. reached' \subseteq [group : GroupIds, index : Nat]
      BY <1>1 DEF IInv, TypeOK, AddDevice, Listed
    <2> QED
      BY <1>1, <1>4, <2>1, <2>2 DEF IInv, TypeOK, AddDevice, walk
  <1>6. AddingGroup'
    BY <1>1 DEF AddingGroup
  <1>7. ListedEarlier'
    <2> SUFFICES ASSUME NEW i \in 1 .. Len(list')
                 PROVE  list'[i].group \in inited \/ (list'[i].group = grp /\ list'[i].index < added + 1)
      BY <1>1 DEF ListedEarlier
    <2>1. CASE i = Len(list) + 1
      BY <2>1, <1>1, <1>4
    <2>2. CASE i \in 1 .. Len(list)
      <3>1. list[i].index \in Nat
        BY <1>9, <2>2
      <3> QED
        BY <3>1, <2>2, <1>1, <1>4 DEF IInv, ListedEarlier
    <2> QED
      BY <2>1, <2>2, <1>4
  <1>8. TargetListedOnce'
    <2>1. ASSUME NEW i \in 1 .. Len(list) PROVE TargetOf(list[i]) # TargetOf(d)
      <3>1. list[i].index \in Nat
        BY <1>9
      <3>2. list[i].group \in inited \/ list[i].index < added
        BY DEF IInv, ListedEarlier
      <3>3. list[i].group # grp \/ list[i].index # added
        BY <3>1, <3>2, <1>1
      <3> QED
        BY <3>3 DEF TargetOf
    <2> QED
      BY <2>1, <1>4 DEF IInv, TargetListedOnce
  <1> QED
    BY <1>5, <1>6, <1>7, <1>8 DEF IInv

\* The walk stays in the list, and returns positions of it.
LEMMA WalkKeepsType ==
  ASSUME IInv, Walk \/ EndWalk \/ StartWalk
  PROVE  TypeOK'
  <1>1. CASE Walk
    <2>1. pos' \in 0 .. Len(list)
      BY <1>1 DEF IInv, TypeOK, Walk
    <2>2. out' \in Seq(Nat)
      <3>1. out \in Seq(Nat) /\ pos + 1 \in Nat
        BY DEF IInv, TypeOK
      <3>2. Append(out, pos + 1) \in Seq(Nat)
        BY <3>1
      <3> QED
        BY <1>1, <3>1, <3>2 DEF Walk
    <2> QED
      BY <1>1, <2>1, <2>2 DEF IInv, TypeOK, Walk, call, registry
  <1>2. CASE EndWalk
    BY <1>2 DEF IInv, TypeOK, EndWalk, call, registry, walk, Answer
  <1>3. CASE StartWalk
    <2>1. pos' \in 0 .. Len(list')
      BY <1>3 DEF IInv, TypeOK, StartWalk, registry
    <2> QED
      BY <1>3, <2>1 DEF IInv, TypeOK, StartWalk, call, registry
  <1> QED
    BY <1>1, <1>2, <1>3

\* Every step keeps the invariant.
LEMMA NextPreserves == IInv /\ [Next]_vars => IInv'
  <1> SUFFICES ASSUME IInv, [Next]_vars PROVE IInv'
    OBVIOUS
  <1>1. ASSUME NEW a \in Asks, GetDeviceIDs(a) PROVE IInv'
    <2>1. TypeOK'
      BY <1>1, AskKeepsType
    <2> QED
      BY <1>1, <2>1, RegistryKept DEF IInv, GetDeviceIDs, registry
  <1>2. CASE RefuseCall
    <2>1. TypeOK'
      BY <1>2 DEF IInv, TypeOK, RefuseCall, call, registry, walk, Answer
    <2> QED
      BY <1>2, <2>1, RegistryKept DEF IInv, RefuseCall, registry
  <1>3. CASE SkipGroup
    <2>1. TypeOK'
      BY <1>3 DEF IInv, TypeOK, SkipGroup, registry, walk
    <2> QED
      BY <1>3, <2>1, RegistryKept DEF IInv, SkipGroup, registry
  <1>4. CASE StartGroup
    <2>1. found' \in Nat
      BY <1>4, RegistryAssumption DEF StartGroup, GroupIds
    <2>2. TypeOK'
      BY <1>4, <2>1 DEF IInv, TypeOK, StartGroup, registry, walk
    <2> QED
      BY <1>4, <2>2, RegistryKept DEF IInv, StartGroup, registry
  <1>5. CASE StartFails
    <2>1. TypeOK'
      BY <1>5 DEF IInv, TypeOK, StartFails, GroupDone, walk
    <2> QED
      BY <1>5, <2>1, GroupEnds DEF IInv, StartFails
  <1>6. CASE AddFails
    <2>1. grp \in GroupIds
      BY <1>6 DEF IInv, AddingGroup, AddFails
    <2>2. TypeOK'
      BY <1>6, <2>1 DEF IInv, TypeOK, AddFails, GroupDone, walk
    <2> QED
      BY <1>6, <2>1, <2>2, GroupEnds DEF IInv, AddFails
  <1>7. CASE EndGroup
    <2>1. grp \in GroupIds
      BY <1>7 DEF IInv, AddingGroup, EndGroup
    <2>2. TypeOK'
      BY <1>7, <2>1 DEF IInv, TypeOK, EndGroup, GroupDone, walk
    <2> QED
      BY <1>7, <2>1, <2>2, GroupEnds DEF IInv, EndGroup
  <1>8. CASE InitFailed
    <2>1. TypeOK'
      BY <1>8 DEF IInv, TypeOK, InitFailed, call, registry, walk, Answer
    <2> QED
      BY <1>8, <2>1, RegistryKept DEF IInv, InitFailed, registry
  <1>9. CASE Walk \/ EndWalk \/ StartWalk
    <2>1. pc # "add" /\ pc' # "add" /\ UNCHANGED <<inited, list>>
      BY <1>9 DEF Walk, EndWalk, StartWalk, registry
    <2> QED
      BY <1>9, <2>1, WalkKeepsType, RegistryKept DEF IInv
  <1>10. CASE UNCHANGED vars
    BY <1>10 DEF IInv, TypeOK, AddingGroup, ListedEarlier, TargetListedOnce, TargetOf,
                 vars, call, registry, walk
  <1> QED
    BY <1>1, <1>2, <1>3, <1>4, <1>5, <1>6, <1>7, <1>8, <1>9, <1>10, AddingListsOnce
    DEF Next, App, Host

LEMMA InvHolds == Spec => []IInv
  BY InitEstablishes, NextPreserves, PTL DEF Spec

--------------------------------------------------------------------------
\* The registry keeps its types: in_dev_num is the length of the list that
\* dev_add extends, and the walk of dev_get_devices stays inside it.
THEOREM RegistryTypeCorrect == Spec => []TypeOK
  <1>1. IInv => TypeOK
    BY DEF IInv
  <1> QED
    BY <1>1, InvHolds, PTL

\* No target is listed twice by dev_add, for any number of groups and targets
\* and whichever initialisations fail and are followed by further calls.
THEOREM TargetsListedOnce == Spec => []TargetListedOnce
  <1>1. IInv => TargetListedOnce
    BY DEF IInv
  <1> QED
    BY <1>1, InvHolds, PTL

--------------------------------------------------------------------------
(* What the walk offers.                                                   *)

\* A device is enabled if its target was reached, and what was reached is
\* listed: the one target a new device stands for is new to both.
EnabledIfReached ==
  /\ \A i \in 1 .. Len(list) : list[i].enabled <=> TargetOf(list[i]) \in reached
  /\ \A t \in reached : \E i \in 1 .. Len(list) : TargetOf(list[i]) = t

\* The walk has counted the devices it passed that count, in their order.
Walked ==
  pc = "scan" =>
    /\ Len(out) <= ask.room
    /\ \A i, j \in 1 .. Len(out) : i < j => out[i] < out[j]
    /\ {out[i] : i \in 1 .. Len(out)} = {i \in 1 .. pos : Counts(list[i])}

\* An answer is about the list as it is: a new call takes it back first.
AnswerStands == reply.ret = "CL_SUCCESS" => pc = "idle"

OfferInv == EnabledIfReached /\ Walked /\ AnswerStands /\ OffersReachedDevices

\* A device is added: its target is new.
LEMMA AddingEnables ==
  ASSUME IInv, IInv', EnabledIfReached, NEW works \in BOOLEAN, AddDevice(works)
  PROVE  EnabledIfReached'
  <1> DEFINE t == [group |-> grp, index |-> added]
             d == [group |-> grp, index |-> added, enabled |-> works]
             n == Len(list)
  <1>1. list' = Append(list, d) /\ reached' = IF works THEN reached \cup {t} ELSE reached
    BY DEF AddDevice, Listed
  <1>2. /\ n \in Nat /\ Len(list') = n + 1 /\ list'[n + 1] = d
        /\ \A i \in 1 .. n : list'[i] = list[i]
    BY <1>1 DEF IInv, TypeOK
  <1>3. TargetOf(d) = t /\ d.enabled = works
    BY DEF TargetOf
  <1> HIDE DEF t, d, n
  <1>4. n + 1 \in 1 .. n + 1 /\ \A i \in 1 .. n : i \in 1 .. n + 1 /\ i # n + 1
    BY <1>2
  <1>5. \A i \in 1 .. n : TargetOf(list[i]) # t
    BY <1>2, <1>3, <1>4 DEF IInv, TargetListedOnce
  <1>6. t \notin reached
    BY <1>5 DEF EnabledIfReached, n
  <1>7. \A i \in 1 .. n + 1 : i = n + 1 \/ i \in 1 .. n
    BY <1>2
  <1>8. ASSUME NEW i \in 1 .. n + 1
        PROVE  list'[i].enabled <=> TargetOf(list'[i]) \in reached'
    <2>1. CASE i = n + 1
      BY <1>1, <1>2, <1>3, <1>6, <2>1
    <2>2. CASE i \in 1 .. n
      BY <1>1, <1>2, <1>5, <2>2 DEF EnabledIfReached, n
    <2> QED BY <1>7, <2>1, <2>2
  <1>9. ASSUME NEW u \in reached' PROVE \E i \in 1 .. n + 1 : TargetOf(list'[i]) = u
    <2>1. CASE u = t
      BY <1>2, <1>3, <1>4, <2>1
    <2>2. CASE u \in reached
      BY <1>2, <1>4, <2>2 DEF EnabledIfReached, n
    <2> QED BY <1>1, <2>1, <2>2
  <1> QED BY <1>2, <1>8, <1>9 DEF EnabledIfReached

\* The walk takes in one device more, unless the caller's array is full.
LEMMA WalkGoesOn ==
  ASSUME IInv, Walked, Walk
  PROVE  Walked'
  <1> DEFINE n == Len(out)
  <1>1. /\ pc = "scan" /\ pos < Len(list) /\ n < ask.room /\ pos' = pos + 1 /\ ask' = ask /\ list' = list
        /\ pos \in Nat /\ n \in Nat /\ ask.room \in Nat /\ out \in Seq(Nat)
    BY RegistryAssumption DEF Walk, Full, registry, IInv, TypeOK, Asks, Everything
  <1>2. /\ \A i, j \in 1 .. n : i < j => out[i] < out[j]
        /\ {out[i] : i \in 1 .. n} = {i \in 1 .. pos : Counts(list[i])}
    BY <1>1 DEF Walked
  <1>3. \A i : Counts(list[i])' <=> Counts(list[i])
    BY <1>1 DEF Counts
  <1>4. {i \in 1 .. pos' : Counts(list[i])'} =
          IF Counts(list[pos + 1]) THEN {i \in 1 .. pos : Counts(list[i])} \cup {pos + 1}
                                   ELSE {i \in 1 .. pos : Counts(list[i])}
    <2>1. \A i : i \in 1 .. pos + 1 <=> i \in 1 .. pos \/ i = pos + 1
      BY <1>1
    <2>2. pos + 1 \notin 1 .. pos
      BY <1>1
    <2> QED BY <1>1, <1>3, <2>1, <2>2
  <1>5. CASE Counts(list[pos + 1])
    <2>1. out' = Append(out, pos + 1)
      BY <1>5 DEF Walk
    <2>2. Len(out') = n + 1 /\ out'[n + 1] = pos + 1 /\ \A i \in 1 .. n : out'[i] = out[i]
      BY <1>1, <2>1
    <2> HIDE DEF n
    <2>3. Len(out') <= ask'.room
      BY <1>1, <2>2
    <2>4. \A i \in 1 .. n + 1 : i = n + 1 \/ i \in 1 .. n
      BY <1>1
    <2>5. \A i \in 1 .. n : i \in 1 .. n + 1 /\ i < n + 1 /\ ~(n + 1 < i)
      BY <1>1
    <2>6. n + 1 \in 1 .. n + 1 /\ ~(n + 1 < n + 1)
      BY <1>1
    <2>7. \A i \in 1 .. n : out[i] \in 1 .. pos
      BY <1>2
    <2>8. \A x \in 1 .. pos : x < pos + 1
      BY <1>1
    <2>9. \A i, j \in 1 .. n + 1 : i < j => out'[i] < out'[j]
      <3> SUFFICES ASSUME NEW i \in 1 .. n + 1, NEW j \in 1 .. n + 1, i < j PROVE out'[i] < out'[j]
        OBVIOUS
      <3>1. i \in 1 .. n
        BY <2>4, <2>5, <2>6
      <3>2. CASE j = n + 1
        BY <2>2, <2>7, <2>8, <3>1, <3>2
      <3>3. CASE j \in 1 .. n
        BY <1>2, <2>2, <3>1, <3>3
      <3> QED BY <2>4, <3>2, <3>3
    <2>10. {out'[i] : i \in 1 .. n + 1} = {out[i] : i \in 1 .. n} \cup {pos + 1}
      BY <2>2, <2>4, <2>5, <2>6
    <2> QED BY <1>2, <1>4, <1>5, <2>2, <2>3, <2>9, <2>10 DEF Walked
  <1>6. CASE ~Counts(list[pos + 1])
    <2>1. out' = out
      BY <1>6 DEF Walk
    <2>2. Len(out') <= ask'.room
      BY <1>1, <2>1
    <2> QED BY <1>2, <1>4, <1>6, <2>1, <2>2 DEF Walked
  <1> QED BY <1>5, <1>6

\* Where the walk ends, what it has counted is what the call should offer.
LEMMA WalkOffers ==
  ASSUME IInv, EnabledIfReached, Walked, EndWalk
  PROVE  OffersReachedDevices'
  <1> SUFFICES ASSUME reply'.ret = "CL_SUCCESS" PROVE OffersReachedDevices'
    BY DEF OffersReachedDevices
  <1> DEFINE n == Len(out)
             working == {i \in 1 .. Len(list) : TargetOf(list[i]) \in reached}
  <1>1. /\ pc = "scan" /\ out # <<>> /\ reply' = Answer("CL_SUCCESS", out)
        /\ UNCHANGED <<list, reached, ask>> /\ (pos = Len(list) \/ n >= ask.room)
    BY DEF EndWalk, Answer, registry, Full
  <1>2. /\ out \in Seq(Nat) /\ n \in Nat \ {0} /\ ask.room \in Nat /\ Len(list) \in Nat /\ pos \in Nat
        /\ pos <= Len(list)
    <2>1. ask.room \in Nat
      BY RegistryAssumption DEF IInv, TypeOK, Asks, Everything
    <2>2. out \in Seq(Nat) /\ pos \in 0 .. Len(list) /\ Len(list) \in Nat
      BY DEF IInv, TypeOK
    <2>3. n # 0
      BY <1>1, <2>2
    <2> QED BY <2>1, <2>2, <2>3
  <1>3. /\ \A i, j \in 1 .. n : i < j => out[i] < out[j]
        /\ n <= ask.room
        /\ {out[i] : i \in 1 .. n} = {i \in 1 .. pos : Counts(list[i])}
    BY <1>1 DEF Walked
  <1> HIDE DEF n
  <1>4. n \in 1 .. n /\ 1 .. pos \subseteq 1 .. Len(list)
    BY <1>2
  <1>5. out[n] \in 1 .. pos /\ Counts(list[out[n]])
    BY <1>3, <1>4
  <1>6. \A i \in 1 .. Len(list) : Counts(list[i]) <=> TargetOf(list[i]) \in reached
    BY <1>5 DEF EnabledIfReached, Counts
  <1>7. {out[i] : i \in 1 .. n} = {i \in working : i <= pos}
    <2>1. \A i \in 1 .. Len(list) : i <= pos <=> i \in 1 .. pos
      BY <1>2
    <2> QED BY <1>3, <1>4, <1>6, <2>1
  <1>8. CASE n = ask.room
    <2>1. \A i \in 1 .. n : out[i] <= out[n] /\ out[i] \in Nat
      <3> TAKE i \in 1 .. n
      <3>1. out[i] \in 1 .. pos
        BY <1>3
      <3>2. i < n \/ i = n
        BY <1>2
      <3> QED BY <1>3, <1>4, <1>5, <3>1, <3>2
    <2>2. out[n] <= pos /\ out[n] \in Nat
      BY <1>2, <1>5
    <2>3. \A i \in working : i \in Nat /\ (i <= out[n] => i <= pos)
      BY <1>2, <2>2
    <2>4. {out[i] : i \in 1 .. n} = {i \in working : i <= out[n]}
      <3> HIDE DEF working
      <3> QED BY <1>7, <2>1, <2>3
    <2> QED BY <1>1, <1>3, <1>8, <2>4 DEF OffersReachedDevices, Answer, n
  <1>9. CASE n # ask.room
    <2>1. pos = Len(list)
      BY <1>1, <1>2, <1>3, <1>9 DEF n
    <2>2. {i \in working : i <= pos} = working
      BY <1>2, <2>1
    <2> QED BY <1>1, <1>3, <1>7, <1>9, <2>2 DEF OffersReachedDevices, Answer, n
  <1> QED BY <1>8, <1>9

LEMMA OfferStep ==
  ASSUME IInv, OfferInv, IInv', [Next]_vars
  PROVE  OfferInv'
  <1>1. CASE UNCHANGED vars
    BY <1>1 DEF vars, call, registry, walk, OfferInv, EnabledIfReached, Walked, AnswerStands,
       OffersReachedDevices, Counts
  <1>2. ASSUME UNCHANGED <<list, reached>>, pc' # "scan", reply'.ret # "CL_SUCCESS" PROVE OfferInv'
    BY <1>2 DEF OfferInv, EnabledIfReached, Walked, AnswerStands, OffersReachedDevices
  <1>3. CASE App
    <2>1. UNCHANGED <<list, reached>> /\ pc' # "scan" /\ reply'.ret # "CL_SUCCESS"
      BY <1>3 DEF App, RefuseCall, GetDeviceIDs, registry, NoReply, Answer
    <2> QED BY <1>2, <2>1
  <1>4. CASE SkipGroup \/ StartGroup \/ StartFails \/ AddFails \/ EndGroup \/ InitFailed
    <2>1. UNCHANGED <<list, reached>> /\ pc' # "scan" /\ pc # "idle"
      BY <1>4 DEF SkipGroup, StartGroup, StartFails, AddFails, EndGroup, InitFailed, GroupDone, registry
    <2>2. reply'.ret # "CL_SUCCESS"
      <3>1. reply.ret # "CL_SUCCESS"
        BY <2>1 DEF OfferInv, AnswerStands
      <3>2. \/ reply' = reply
            \/ reply' = Answer(res, <<>>) /\ res # "CL_SUCCESS"
        BY <1>4 DEF SkipGroup, StartGroup, StartFails, AddFails, EndGroup, InitFailed
      <3> QED BY <3>1, <3>2 DEF Answer
    <2> QED BY <1>2, <2>1, <2>2
  <1>5. ASSUME NEW works \in BOOLEAN, AddDevice(works) PROVE OfferInv'
    <2>1. EnabledIfReached'
      BY <1>5, AddingEnables DEF OfferInv
    <2>2. pc' = "add" /\ pc = "add" /\ reply' = reply
      BY <1>5 DEF AddDevice
    <2>3. reply'.ret # "CL_SUCCESS"
      BY <2>2 DEF OfferInv, AnswerStands
    <2> QED BY <2>1, <2>2, <2>3 DEF OfferInv, Walked, AnswerStands, OffersReachedDevices
  <1>6. CASE StartWalk
    <2>1. UNCHANGED <<list, reached, ask>> /\ pc = "init" /\ pos' = 0 /\ out' = <<>> /\ reply' = reply
      BY <1>6 DEF StartWalk, registry
    <2>2. reply'.ret # "CL_SUCCESS"
      BY <2>1 DEF OfferInv, AnswerStands
    <2>3. 0 <= ask.room
      BY RegistryAssumption DEF IInv, TypeOK, Asks, Everything
    <2>4. Walked'
      BY <2>1, <2>3 DEF Walked
    <2>5. EnabledIfReached'
      BY <2>1 DEF OfferInv, EnabledIfReached
    <2> QED BY <2>2, <2>4, <2>5 DEF OfferInv, AnswerStands, OffersReachedDevices
  <1>7. CASE Walk
    <2>1. UNCHANGED <<list, reached>> /\ pc = "scan" /\ reply' = reply
      BY <1>7 DEF Walk, registry
    <2>2. reply'.ret # "CL_SUCCESS"
      BY <2>1 DEF OfferInv, AnswerStands
    <2>3. Walked' /\ EnabledIfReached'
      BY <1>7, <2>1, WalkGoesOn DEF OfferInv, EnabledIfReached
    <2> QED BY <2>2, <2>3 DEF OfferInv, AnswerStands, OffersReachedDevices
  <1>8. CASE EndWalk
    <2>1. UNCHANGED <<list, reached>> /\ pc' = "idle"
      BY <1>8 DEF EndWalk, registry
    <2>2. OffersReachedDevices'
      BY <1>8, WalkOffers DEF OfferInv
    <2> QED BY <2>1, <2>2 DEF OfferInv, EnabledIfReached, Walked, AnswerStands
  <1> QED BY <1>1, <1>3, <1>4, <1>5, <1>6, <1>7, <1>8 DEF Next, Host

\* A clGetDeviceIDs that succeeds returns the devices whose probe succeeded and
\* no other, in list order, as many as the caller has room for, whichever
\* groups failed before, for any groups, targets and num_entries.
THEOREM ReachedAreOffered == Spec => []OffersReachedDevices
  <1>1. Init => OfferInv
    BY DEF Init, OfferInv, EnabledIfReached, Walked, AnswerStands, OffersReachedDevices, NoReply, Answer
  <1>2. IInv /\ OfferInv /\ IInv' /\ [Next]_vars => OfferInv'
    BY OfferStep
  <1>3. OfferInv => OffersReachedDevices
    BY DEF OfferInv
  <1> QED
    BY <1>1, <1>2, <1>3, InvHolds, PTL DEF Spec
=============================================================================
