--------------------------- MODULE PciGroupProofs ---------------------------
(***************************************************************************)
(* Theorems about PciGroup, for any number of lines, devices and failures: *)
(* the array of matches has room, the list of devices holds live devices,  *)
(* and a group that is down has left nothing it has not lost.              *)
(***************************************************************************)
EXTENDS PciGroup, SequenceTheorems, WellFoundedInduction, TLAPS

Injective(s) == \A k, m \in DOMAIN s : k # m => s[k] # s[m]

Types ==
  /\ pc \in {"down", "enum", "array", "devs", "up", "failed", "exit"}
  /\ n \in Nat /\ cap \in Nat /\ i \in Nat /\ ids \in Nat /\ lost \in Nat
  /\ list \in Seq(Nat) /\ array \in Seq(Nat)

\* What is listed has its private data, what has it is allocated, and what is
\* allocated was made in this round or an earlier one.
Nested == Range(list) \subseteq privs /\ privs \subseteq devs /\ devs \cup Range(array) \subseteq 1 .. ids

\* *devs is filled between the array's allocation and the end of the exit, and
\* the matches are kept between the enumeration and the end of the init.
Held ==
  /\ array # <<>> => pc \in {"devs", "up", "exit"}
  /\ pc = "exit" => i <= Len(array)

MatchesHeld == inf \in BOOLEAN /\ (inf => pc \in {"enum", "array", "devs"})

\* The devices pci_sysfs_exit has to take down, or has still to.
Due == {array[k] : k \in (IF pc = "exit" THEN i + 1 ELSE 1) .. Len(array)}

\* What is allocated is due, unless an array was lost.
NothingForgotten == lost = 0 => devs = Due

IInv ==
  /\ Types /\ EntryHasRoom /\ Injective(list) /\ Injective(array)
  /\ Nested /\ Held /\ MatchesHeld /\ NothingForgotten

--------------------------------------------------------------------------
(* Sequences.                                                              *)

\* A set of natural numbers that is not empty has a least element.
LEMMA NatMin ==
  ASSUME NEW S, S \subseteq Nat, S # {}
  PROVE  \E m \in S : \A y \in S : m <= y
<1> DEFINE R == {ss \in Nat \X Nat : ss[1] < ss[2]}
<1>1. IsWellFoundedOn(R, Nat)
  BY NatLessThanWellFounded DEF OpToRel
<1> HIDE DEF R
<1>2. PICK m \in S : \A y \in S : <<y, m>> \notin R
  BY <1>1, WFMin
<1>3. ASSUME NEW y \in S PROVE m <= y
  <2>1. y \in Nat /\ m \in Nat /\ <<y, m>> \notin R
    BY <1>2
  <2>2. ~(y < m)
    BY <2>1, Zenon DEF R
  <2> QED BY <2>1, <2>2
<1> QED BY <1>3

\* The first position of e, as dev_remove finds it.
LEMMA FirstOf ==
  ASSUME NEW s \in Seq(Nat), NEW e, \E k \in 1 .. Len(s) : s[k] = e
  PROVE  LET p == SelectInSeq(s, LAMBDA v : v = e)
         IN  p \in 1 .. Len(s) /\ s[p] = e
<1> DEFINE I == {k \in 1 .. Len(s) : s[k] = e}
<1>1. I \subseteq Nat /\ I # {}
  OBVIOUS
<1> HIDE DEF I
<1>2. \E m \in I : \A y \in I : m <= y
  BY <1>1, NatMin
<1>3. Min(I) \in I
  BY <1>2 DEF Min
<1> QED BY <1>1, <1>3 DEF SelectInSeq, I

\* RemoveFirst takes e out of a sequence that has it once.
LEMMA RemoveFirstRemoves ==
  ASSUME NEW s \in Seq(Nat), Injective(s), NEW e
  PROVE  LET r == RemoveFirst(s, e)
         IN  r \in Seq(Nat) /\ Injective(r) /\ Range(r) = Range(s) \ {e}
<1>1. CASE ~\E k \in 1 .. Len(s) : s[k] = e
  BY <1>1 DEF RemoveFirst, Range
<1>2. CASE \E k \in 1 .. Len(s) : s[k] = e
  <2> DEFINE p == SelectInSeq(s, LAMBDA v : v = e)
             r == RemoveAt(s, p)
  <2>1. p \in 1 .. Len(s) /\ s[p] = e
    BY <1>2, FirstOf
  <2>2. RemoveFirst(s, e) = r
    BY <1>2 DEF RemoveFirst
  <2> HIDE DEF p
  <2> DEFINE a == SubSeq(s, 1, p - 1)
             b == SubSeq(s, p + 1, Len(s))
  <2>3. a \in Seq(Nat) /\ Len(a) = p - 1 /\ \A k \in 1 .. p - 1 : a[k] = s[k]
    BY <2>1
  <2>4. b \in Seq(Nat) /\ Len(b) = Len(s) - p /\ \A k \in 1 .. Len(s) - p : b[k] = s[p + k]
    BY <2>1
  <2>5. r = a \o b
    BY DEF RemoveAt
  <2> HIDE DEF a, b, r
  <2>6. /\ r \in Seq(Nat) /\ Len(r) = Len(s) - 1
        /\ \A k \in 1 .. Len(s) - 1 : r[k] = IF k < p THEN a[k] ELSE b[k - (p - 1)]
    <3>1. a \in Seq(Nat) /\ b \in Seq(Nat)
      BY <2>3, <2>4
    <3>2. /\ r \in Seq(Nat) /\ Len(r) = Len(a) + Len(b)
          /\ \A k \in 1 .. Len(a) + Len(b) : r[k] = IF k <= Len(a) THEN a[k] ELSE b[k - Len(a)]
      BY <3>1, <2>5, ConcatProperties, Zenon
    <3>3. Len(a) = p - 1 /\ Len(b) = Len(s) - p
      BY <2>3, <2>4
    <3>4. Len(s) \in Nat /\ p \in 1 .. Len(s) /\ (p - 1) + (Len(s) - p) = Len(s) - 1
      BY <2>1
    <3>5. Len(r) = Len(s) - 1
      BY <3>2, <3>3, <3>4
    <3>6. ASSUME NEW k \in 1 .. Len(s) - 1 PROVE r[k] = IF k < p THEN a[k] ELSE b[k - (p - 1)]
      <4>1. r[k] = IF k <= Len(a) THEN a[k] ELSE b[k - Len(a)]
        BY <3>2, <3>3, <3>4
      <4>2. k <= p - 1 <=> k < p
        BY <3>4
      <4> QED BY <4>1, <4>2, <3>3
    <3> QED BY <3>2, <3>5, <3>6
  <2>7. ASSUME NEW k \in 1 .. Len(s), k < p PROVE k \in 1 .. Len(s) - 1 /\ r[k] = s[k]
    <3>1. k \in 1 .. Len(s) - 1 /\ k \in 1 .. p - 1
      BY <2>1, <2>7
    <3> QED BY <3>1, <2>3, <2>6, <2>7
  <2>8. ASSUME NEW k \in 1 .. Len(s), k > p
        PROVE  k - 1 \in 1 .. Len(s) - 1 /\ r[k - 1] = s[k]
    <3>1. k - p \in 1 .. Len(s) - p /\ p + (k - p) = k
      BY <2>1, <2>8
    <3>3. b[k - p] = s[k]
      BY <2>4, <3>1
    <3>2. k - 1 \in 1 .. Len(s) - 1 /\ ~(k - 1 < p) /\ (k - 1) - (p - 1) = k - p
      BY <2>1, <2>8
    <3>4. r[k - 1] = b[(k - 1) - (p - 1)]
      BY <2>6, <3>2
    <3> QED BY <3>2, <3>3, <3>4
  <2> DEFINE at(k) == IF k < p THEN k ELSE k + 1
  <2>9. ASSUME NEW k \in 1 .. Len(s) - 1
        PROVE  at(k) \in 1 .. Len(s) /\ at(k) # p /\ r[k] = s[at(k)]
    <3>1. CASE k < p
      BY <3>1, <2>1, <2>7
    <3>2. CASE k >= p
      <4>1. k + 1 \in 1 .. Len(s) /\ k + 1 > p /\ (k + 1) - 1 = k
        BY <3>2, <2>1
      <4>2. r[(k + 1) - 1] = s[k + 1]
        BY <4>1, <2>8
      <4> QED BY <3>2, <4>1, <4>2, <2>1
    <3> QED BY <3>1, <3>2, <2>1
  <2>10. DOMAIN r = 1 .. Len(s) - 1 /\ DOMAIN s = 1 .. Len(s)
    BY <2>6
  <2>11. Injective(r)
    <3> SUFFICES ASSUME NEW k \in 1 .. Len(s) - 1, NEW m \in 1 .. Len(s) - 1, k # m
                 PROVE  r[k] # r[m]
      BY <2>10 DEF Injective
    <3>1. at(k) # at(m)
      BY <2>1
    <3> HIDE DEF at
    <3>2. at(k) \in DOMAIN s /\ at(m) \in DOMAIN s /\ r[k] = s[at(k)] /\ r[m] = s[at(m)]
      BY <2>9, <2>10
    <3> QED BY <3>1, <3>2, Zenon DEF Injective
  <2>12. Range(r) \subseteq Range(s) \ {e}
    <3> SUFFICES ASSUME NEW k \in 1 .. Len(s) - 1 PROVE r[k] \in Range(s) /\ r[k] # e
      BY <2>10 DEF Range
    <3> HIDE DEF at
    <3>1. at(k) \in DOMAIN s /\ at(k) # p /\ r[k] = s[at(k)] /\ p \in DOMAIN s /\ s[p] = e
      BY <2>1, <2>9, <2>10
    <3>2. s[at(k)] # s[p]
      BY <3>1, Zenon DEF Injective
    <3> QED BY <3>1, <3>2 DEF Range
  <2>13. ASSUME NEW k \in 1 .. Len(s), s[k] # e PROVE s[k] \in Range(r)
    <3>1. k # p
      BY <2>1, <2>13
    <3>2. CASE k < p
      BY <3>2, <2>7, <2>10, Zenon DEF Range
    <3>3. CASE k > p
      BY <3>3, <2>8, <2>10, Zenon DEF Range
    <3> QED BY <3>1, <3>2, <3>3, <2>1
  <2>14. Range(s) \ {e} \subseteq Range(r)
    BY <2>10, <2>13, Zenon DEF Range
  <2> QED BY <2>2, <2>6, <2>11, <2>12, <2>14
<1> QED BY <1>1, <1>2

\* The same of the device that dev_add appends.
LEMMA AppendAdds ==
  ASSUME NEW s \in Seq(Nat), Injective(s), NEW e \in Nat, e \notin Range(s)
  PROVE  /\ Append(s, e) \in Seq(Nat) /\ Injective(Append(s, e))
         /\ Range(Append(s, e)) = Range(s) \cup {e}
<1> DEFINE r == Append(s, e)
<1>1. /\ r \in Seq(Nat) /\ Len(r) = Len(s) + 1 /\ r[Len(s) + 1] = e
      /\ \A k \in 1 .. Len(s) : r[k] = s[k]
  OBVIOUS
<1> HIDE DEF r
<1>2. DOMAIN r = (1 .. Len(s)) \cup {Len(s) + 1} /\ DOMAIN s = 1 .. Len(s)
  BY <1>1
<1>3. Range(r) = Range(s) \cup {e}
  BY <1>1, <1>2 DEF Range
<1>4. Injective(r)
  BY <1>1, <1>2 DEF Injective, Range
<1> QED BY <1>1, <1>3, <1>4 DEF r

--------------------------------------------------------------------------
(* The invariant.                                                          *)

\* The invariant holds at first.
LEMMA InitIInv == Init => IInv
<1> SUFFICES ASSUME Init PROVE IInv
  OBVIOUS
<1>1. DOMAIN list = {} /\ DOMAIN array = {} /\ Len(array) = 0 /\ list \in Seq(Nat) /\ array \in Seq(Nat)
  BY DEF Init
<1>2. Range(list) = {} /\ Range(array) = {} /\ Injective(list) /\ Injective(array)
  BY <1>1 DEF Range, Injective
<1>3. Types /\ EntryHasRoom /\ Held /\ MatchesHeld
  BY <1>1, <1>2 DEF Init, Types, EntryHasRoom, Held, MatchesHeld
<1>4. Nested
  BY <1>2 DEF Init, Nested
<1>5. NothingForgotten
  BY <1>1 DEF Init, NothingForgotten, Due
<1> QED BY <1>2, <1>3, <1>4, <1>5 DEF IInv

LEMMA EnumKeeps ==
  ASSUME IInv, SkipLine \/ MatchLine \/ BadLine \/ EnumDone
  PROVE  IInv'
<1>1. UNCHANGED <<ids, i, array, devs, privs, list>> /\ pc = "enum" /\ pc' # "exit"
  BY DEF SkipLine, MatchLine, BadLine, EnumDone, EnumFails
<1>2. Types'
  BY <1>1 DEF IInv, Types, SkipLine, MatchLine, BadLine, EnumDone, EnumFails
<1>3. EntryHasRoom'
  BY DEF IInv, Types, EntryHasRoom, SkipLine, MatchLine, BadLine, EnumDone, EnumFails, Grows
<1>4. Held'
  BY <1>1 DEF IInv, Held, SkipLine, MatchLine, BadLine, EnumDone, EnumFails
<1>5. Nested' /\ Injective(list)' /\ Injective(array)'
  BY <1>1 DEF IInv, Nested, Injective, Range
<1>6. lost' = lost \/ (lost' = lost + 1)
  BY DEF SkipLine, MatchLine, BadLine, EnumDone, EnumFails
<1>7. NothingForgotten'
  BY <1>1, <1>6 DEF IInv, Types, NothingForgotten, Due
<1>8. MatchesHeld'
  BY Zenon DEF IInv, MatchesHeld, SkipLine, MatchLine, BadLine, EnumDone, EnumFails
<1> QED BY <1>2, <1>3, <1>4, <1>5, <1>7, <1>8 DEF IInv

LEMMA OpenKeeps ==
  ASSUME IInv, OpenList
  PROVE  IInv'
<1>1. array = <<>> /\ array' = array /\ pc' # "exit" /\ pc # "exit"
      /\ UNCHANGED <<ids, lost, devs, privs, list, i>>
  BY DEF IInv, Held, OpenList
<1>2. Types' /\ EntryHasRoom' /\ Held'
  BY <1>1 DEF IInv, Types, EntryHasRoom, Held, OpenList
<1>3. Nested' /\ Injective(list)' /\ Injective(array)'
  BY <1>1 DEF IInv, Nested, Injective, Range
<1>4. NothingForgotten'
  BY <1>1 DEF IInv, NothingForgotten, Due
<1>5. MatchesHeld'
  <2>1. inf = FALSE
    BY SMT DEF IInv, MatchesHeld, OpenList
  <2>2. (pc' = "enum" /\ inf' = TRUE) \/ inf' = FALSE
    BY <2>1, Zenon DEF OpenList
  <2> QED BY <2>2, Zenon DEF MatchesHeld
<1> QED BY <1>2, <1>3, <1>4, <1>5 DEF IInv

LEMMA AllocArrayKeeps ==
  ASSUME IInv, AllocArray
  PROVE  IInv'
<1>1. array = <<>> /\ array' = array /\ pc = "array" /\ pc' \in {"devs", "failed"} /\ i' = 0
      /\ UNCHANGED <<ids, lost, devs, privs, list, n, cap>>
  BY DEF IInv, Held, AllocArray
<1>2. Types' /\ EntryHasRoom' /\ Held'
  BY <1>1 DEF IInv, Types, EntryHasRoom, Held, AllocArray
<1>3. Nested' /\ Injective(list)' /\ Injective(array)'
  BY <1>1 DEF IInv, Nested, Injective, Range
<1>4. NothingForgotten'
  BY <1>1 DEF IInv, NothingForgotten, Due
<1>5. MatchesHeld'
  BY Zenon DEF IInv, MatchesHeld, AllocArray
<1> QED BY <1>2, <1>3, <1>4, <1>5 DEF IInv

LEMMA AddDeviceKeeps ==
  ASSUME IInv, AddDevice
  PROVE  IInv'
<1> USE DEF AddDevice
<1>1. /\ ids \in Nat /\ ids' = ids + 1 /\ ids' \in Nat
      /\ ids' \notin Range(list) /\ ids' \notin Range(array)
      /\ list \in Seq(Nat) /\ array \in Seq(Nat) /\ Injective(list) /\ Injective(array)
  BY DEF IInv, Types, Nested
<1>2. list' \in Seq(Nat) /\ Injective(list)' /\ Range(list)' = Range(list) \cup {ids'}
  <2> DEFINE q == Append(list, ids')
  <2>1. q \in Seq(Nat) /\ Injective(q) /\ Range(q) = Range(list) \cup {ids'}
    BY <1>1, AppendAdds
  <2>2. list' = q
    OBVIOUS
  <2> HIDE DEF q, AddDevice
  <2> QED BY <2>1, <2>2, Zenon DEF Injective, Range
<1>3. array' \in Seq(Nat) /\ Injective(array)' /\ Range(array)' = Range(array) \cup {ids'}
  <2> DEFINE q == Append(array, ids')
  <2>1. q \in Seq(Nat) /\ Injective(q) /\ Range(q) = Range(array) \cup {ids'}
    BY <1>1, AppendAdds
  <2>2. array' = q
    OBVIOUS
  <2> HIDE DEF q, AddDevice
  <2> QED BY <2>1, <2>2, Zenon DEF Injective, Range
<1>4. Types' /\ EntryHasRoom' /\ Held'
  BY <1>1, <1>2, <1>3 DEF IInv, Types, EntryHasRoom, Held
<1>5. Nested'
  BY <1>1, <1>2, <1>3 DEF IInv, Nested
<1>6. NothingForgotten'
  <2>1. /\ DOMAIN array = 1 .. Len(array) /\ DOMAIN array' = 1 .. Len(array')
        /\ pc = "devs" /\ pc' = "devs"
    BY <1>1, <1>3
  <2>2. Due = Range(array)
    BY <2>1 DEF Due, Range
  <2>3. Due' = Range(array)'
    BY <2>1 DEF Due, Range
  <2> QED BY <2>2, <2>3, <1>3 DEF IInv, NothingForgotten
<1>7. MatchesHeld'
  BY Zenon DEF IInv, MatchesHeld
<1> QED BY <1>2, <1>3, <1>4, <1>5, <1>6, <1>7 DEF IInv

LEMMA AddFailsKeeps ==
  ASSUME IInv, AddFails
  PROVE  IInv'
<1> USE DEF AddFails, InitFails
<1>1. Types' /\ EntryHasRoom' /\ Held'
  BY DEF IInv, Types, EntryHasRoom, Held
<1>2. Nested' /\ Injective(list)' /\ Injective(array)'
  <2>1. Range(array') = {}
    BY DEF Range
  <2> QED BY <2>1 DEF IInv, Types, Nested, Injective, Range
<1>3. NothingForgotten'
  BY DEF IInv, Types, NothingForgotten
<1>4. MatchesHeld'
  BY Zenon DEF IInv, MatchesHeld
<1> QED BY <1>1, <1>2, <1>3, <1>4 DEF IInv

LEMMA InitDoneKeeps ==
  ASSUME IInv, InitDone \/ CallExit
  PROVE  IInv'
<1> USE DEF InitDone, CallExit
<1>1. UNCHANGED <<ids, lost, array, devs, privs, list>> /\ pc # "exit" /\ (pc' = "exit" => i' = 0)
  OBVIOUS
<1>2. Types' /\ EntryHasRoom' /\ Held'
  BY DEF IInv, Types, EntryHasRoom, Held
<1>3. Nested' /\ Injective(list)' /\ Injective(array)'
  BY <1>1 DEF IInv, Nested, Injective, Range
<1>4. NothingForgotten'
  BY <1>1 DEF IInv, NothingForgotten, Due
<1>5. MatchesHeld'
  <2>1. inf' = FALSE
    BY Zenon DEF IInv, MatchesHeld
  <2> QED BY <2>1, Zenon DEF MatchesHeld
<1> QED BY <1>2, <1>3, <1>4, <1>5 DEF IInv

LEMMA TakeDownKeeps ==
  ASSUME IInv, TakeDown
  PROVE  IInv'
<1> USE DEF TakeDown
<1> DEFINE d == array[i + 1]
<1>1. /\ i \in Nat /\ i' = i + 1 /\ i' \in 1 .. Len(array) /\ array[i'] = d
      /\ list \in Seq(Nat) /\ Injective(list) /\ array \in Seq(Nat) /\ Injective(array)
  BY DEF IInv, Types
<1>2. list' \in Seq(Nat) /\ Injective(list)' /\ Range(list)' = Range(list) \ {d}
  <2> DEFINE q == RemoveFirst(list, d)
  <2>1. q \in Seq(Nat) /\ Injective(q) /\ Range(q) = Range(list) \ {d}
    BY <1>1, RemoveFirstRemoves
  <2>2. list' = q
    BY <1>1
  <2> HIDE DEF q, d, TakeDown
  <2> QED BY <2>1, <2>2, Zenon DEF Injective, Range
<1>3. Types' /\ EntryHasRoom' /\ Held' /\ Injective(array)'
  BY <1>1, <1>2 DEF IInv, Types, EntryHasRoom, Held, Injective
<1>4. Nested'
  BY <1>1, <1>2 DEF IInv, Nested, Range
<1>5. NothingForgotten'
  <2>1. Due' = Due \ {d}
    BY <1>1 DEF Due, Injective
  <2> QED BY <1>1, <2>1 DEF IInv, NothingForgotten
<1>6. MatchesHeld'
  BY Zenon DEF IInv, MatchesHeld
<1> QED BY <1>2, <1>3, <1>4, <1>5, <1>6 DEF IInv

LEMMA ExitDoneKeeps ==
  ASSUME IInv, ExitDone
  PROVE  IInv'
<1> USE DEF ExitDone
<1>1. Types' /\ EntryHasRoom' /\ Held'
  BY DEF IInv, Types, EntryHasRoom, Held
<1>2. Nested' /\ Injective(list)' /\ Injective(array)'
  <2>1. Range(array') = {}
    BY DEF Range
  <2> QED BY <2>1 DEF IInv, Nested, Injective, Range
<1>3. NothingForgotten'
  BY DEF IInv, Types, NothingForgotten, Due
<1>4. MatchesHeld'
  BY Zenon DEF IInv, MatchesHeld
<1> QED BY <1>1, <1>2, <1>3, <1>4 DEF IInv

\* Every step keeps the invariant.
LEMMA NextIInv == IInv /\ [Next]_vars => IInv'
<1> SUFFICES ASSUME IInv, [Next]_vars PROVE IInv'
  OBVIOUS
<1>1. CASE SkipLine \/ MatchLine \/ BadLine \/ EnumDone
  BY <1>1, EnumKeeps
<1>2. CASE OpenList
  BY <1>2, OpenKeeps
<1>3. CASE AllocArray
  BY <1>3, AllocArrayKeeps
<1>4. CASE AddDevice
  BY <1>4, AddDeviceKeeps
<1>5. CASE AddFails
  BY <1>5, AddFailsKeeps
<1>6. CASE InitDone \/ CallExit
  BY <1>6, InitDoneKeeps
<1>7. CASE TakeDown
  BY <1>7, TakeDownKeeps
<1>8. CASE ExitDone
  BY <1>8, ExitDoneKeeps
<1>9. CASE UNCHANGED vars
  <2>1. Types' /\ Nested' /\ Held' /\ NothingForgotten' /\ EntryHasRoom' /\ Injective(list)' /\ Injective(array)' /\ MatchesHeld'
    BY <1>9 DEF vars, MatchesHeld, IInv, Types, Nested, Held, NothingForgotten, Due, EntryHasRoom, Injective, Range
  <2> QED BY <2>1 DEF IInv
<1> QED BY <1>1, <1>2, <1>3, <1>4, <1>5, <1>6, <1>7, <1>8, <1>9 DEF Next

\* The invariant holds whatever lines are read, allocations fail and rounds are made.
THEOREM IInvHolds == Spec => []IInv
  BY InitIInv, NextIInv, PTL DEF Spec

--------------------------------------------------------------------------
(* The theorems.                                                           *)

\* pci_sysfs_enum writes each match into room that the array has, however many
\* lines match.
THEOREM EntriesFit == Spec => []EntryHasRoom
<1>1. IInv => EntryHasRoom
  BY DEF IInv
<1> QED BY <1>1, IInvHolds, PTL

\* The list of dev_add holds no freed device, none without its private data
\* and none twice, over any number of rounds and failures.
THEOREM ListIsLive == Spec => []ListedAreLive
<1>1. IInv => ListedAreLive
  BY DEF IInv, Nested, ListedAreLive, Injective
<1> QED BY <1>1, IInvHolds, PTL

\* A group that is down has taken all its devices out of the list and freed
\* them, unless an error made it lose an array.
THEOREM DownLeavesNothing == Spec => []DownIsClean
<1>1. IInv => DownIsClean
  <2> SUFFICES ASSUME IInv, pc = "down", lost = 0 PROVE list = <<>> /\ devs = {} /\ privs = {} /\ ~inf
    BY DEF DownIsClean
  <2>1. array = <<>> /\ ~inf
    BY DEF IInv, Types, Held, MatchesHeld
  <2>2. devs = {}
    BY <2>1 DEF IInv, NothingForgotten, Due
  <2>3. privs = {} /\ Range(list) = {}
    BY <2>2 DEF IInv, Nested
  <2>4. list = <<>>
    <3>1. list \in Seq(Nat) /\ DOMAIN list = {}
      BY <2>3 DEF IInv, Types, Range
    <3> QED BY <3>1
  <2> QED BY <2>1, <2>2, <2>3, <2>4
<1> QED BY <1>1, IInvHolds, PTL
=============================================================================
