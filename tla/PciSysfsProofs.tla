--------------------------- MODULE PciSysfsProofs ---------------------------
(***************************************************************************)
(* Theorems about PciSysfs, for any devices, map table and transfers: the  *)
(* registers probe leaves, what remove leaves open, and what the memory    *)
(* operations write.                                                       *)
(***************************************************************************)
EXTENDS PciSysfs, TLAPS

\* The driver's record of descriptors and mappings is the system's.
Recorded ==
  /\ opened = fds /\ mapped = bufs
  /\ pc = "gone" => fds = {} /\ bufs = {}

\* The memory behind every BAR is as large as the BAR.
Memory ==
  /\ hw \in Devices /\ DOMAIN dmem = Bars
  /\ \A j \in Bars : DOMAIN dmem[j] = 0 .. hw.size[j] - 1

--------------------------------------------------------------------------

\* No step changes the device, and what failed is not forgotten.
LEMMA Constant == [Next]_vars => hw' = hw /\ failed \subseteq failed'
  BY DEF Next, Probe, Access, Remove, vars, Open, RestoreFails, Size32, Size64, SizePastTheEnd, SizeUnknown,
     SizedAll, SkipBar, MapBar, Mapped, RefuseTransfer, WriteMem, WritePastMapping, Failing

\* Whatever step of pci_sysfs_probe failed, and however often the device is
\* removed: pci_sysfs_remove closes and unmaps what is open, once, and leaves
\* no descriptor and no mapping.
THEOREM NothingStaysOpen == Spec => []NothingLeftOpen
  <1>1. Init => Recorded
    BY DEF Init, Recorded
  <1>2. Recorded /\ [Next]_vars => Recorded'
    <2> SUFFICES ASSUME Recorded, [Next]_vars PROVE Recorded'
      OBVIOUS
    <2>1. CASE Remove
      BY <2>1 DEF Remove, CloseAll, Recorded
    <2>2. CASE Open
      BY <2>2 DEF Open, Fail, Recorded
    <2>3. CASE MapBar
      BY <2>3 DEF MapBar, OpenBar, Fail, record, Recorded
    <2>4. CASE RestoreFails \/ SizeUnknown \/ SizePastTheEnd
      BY <2>4 DEF RestoreFails, SizeUnknown, SizePastTheEnd, Fail, record, Recorded
    <2>5. CASE Size32 \/ Size64 \/ SizedAll \/ SkipBar \/ Mapped
      BY <2>5 DEF Size32, Size64, SizedAll, SkipBar, Mapped, record, Recorded
    <2>6. CASE \E t \in Transfers : Access(t)
      BY <2>6 DEF Access, RefuseTransfer, WritePastMapping, WriteMem, record, Recorded
    <2>7. CASE UNCHANGED vars
      BY <2>7 DEF vars, record, Recorded
    <2> QED
      BY <2>1, <2>2, <2>3, <2>4, <2>5, <2>6, <2>7 DEF Next, Probe
  <1>3. Recorded => NothingLeftOpen
    BY DEF Recorded, NothingLeftOpen
  <1> QED
    BY <1>1, <1>2, <1>3, PTL DEF Spec

--------------------------------------------------------------------------
(* The registers.                                                          *)

\* A step that alters no register keeps the account of those altered.
LEMMA AccountKept ==
  ASSUME RegistersRestored, [Next]_vars, pc \in {"undo", "gone"} => pc' \in {"undo", "gone"},
         NEW j \in Bars, reg'[j] = reg[j] \/ reg'[j] = "addr", reg'[j] # "addr"
  PROVE  \/ <<j, "read">> \in failed'
         \/ <<j, "write">> \in failed' /\ pc' \in {"undo", "gone"}
         \/ \E k \in {j - 1, j} : <<k, "read64">> \in failed' \/ <<k, "write64">> \in failed'
  BY Constant DEF RegistersRestored

\* A register that probe leaves altered was not read, alone or in a pair, or
\* was not written back and, if it was a single one, failed the probe: for any
\* device, any calls failing, and as many of them as may.
THEOREM RegistersAreRestored == Spec => []RegistersRestored
  <1> DEFINE RegInv == DOMAIN reg = Bars /\ RegistersRestored
  <1>1. Init => RegInv
    BY DEF Init, RegistersRestored
  <1>2. RegInv /\ [Next]_vars => RegInv'
    <2> SUFFICES ASSUME DOMAIN reg = Bars, RegistersRestored, [Next]_vars PROVE RegInv'
      OBVIOUS
    <2> USE DEF RegistersRestored
    <2>1. CASE Remove
      BY <2>1 DEF Remove
    <2>2. CASE RestoreFails
      <3>1. PICK M : "write" \in M /\ Failing(M) /\ (reg' = reg \/ reg' = [reg EXCEPT ![i] = "ones"])
        BY <2>2 DEF RestoreFails
      <3>2. pc = "size" /\ pc' = "undo" /\ <<i, "write">> \in failed' /\ failed \subseteq failed'
        BY <2>2, <3>1 DEF RestoreFails, Fail, Failing
      <3>3. \A j \in Bars : j = i \/ reg'[j] = reg[j]
        BY <3>1
      <3> QED
        BY <3>1, <3>2, <3>3
    <2>3. CASE Size32 \/ SizeUnknown \/ SizePastTheEnd
      <3>1. PICK M : Failing(M) /\ reg' = [reg EXCEPT ![i] = BackTo(M)]
        BY <2>3 DEF Size32, SizeUnknown, SizePastTheEnd
      <3>2. pc = "size" /\ i \in Bars
        BY <2>3 DEF Size32, SizeUnknown, SizePastTheEnd
      <3>3. ASSUME NEW j \in Bars, reg'[j] # "addr", <<j, "read">> \notin failed'
            PROVE  reg'[j] = reg[j]
        BY <3>1, <3>3 DEF Failing, BackTo
      <3> HIDE DEF RegistersRestored
      <3>4. RegistersRestored'
        BY <3>2, <3>3, AccountKept DEF RegistersRestored
      <3> QED
        BY <3>1, <3>4
    <2>4. CASE Size64
      <3>1. PICK M, N :
              /\ Failing(M \cup N)
              /\ reg' = CASE "write64" \notin N /\ "read64" \notin N -> [reg EXCEPT ![i] = BackTo(M)]
                          [] "write64" \notin N /\ "read64" \in N -> [reg EXCEPT ![i] = "junk", ![i + 1] = "junk"]
                          [] "write64" \in N /\ "ones64" \in N -> [reg EXCEPT ![i] = BackTo(M)]
                          [] "write64" \in N /\ "ones64" \notin N -> [reg EXCEPT ![i] = "ones", ![i + 1] = "ones"]
        BY <2>4 DEF Size64
      <3>2. pc = "size" /\ i \in Bars /\ i + 1 \in Bars
        BY <2>4 DEF Size64
      <3>3. \/ reg' = [reg EXCEPT ![i] = BackTo(M)]
            \/ \E x \in {"junk", "ones"} :
                 /\ reg' = [reg EXCEPT ![i] = x, ![i + 1] = x]
                 /\ <<i, "read64">> \in failed' \/ <<i, "write64">> \in failed'
        BY <3>1 DEF Failing
      <3>4. DOMAIN reg' = Bars
        BY <3>3
      <3>5. ASSUME NEW j \in Bars, reg'[j] # "addr", <<j, "read">> \notin failed'
            PROVE  \/ reg'[j] = reg[j]
                   \/ \E k \in {j - 1, j} : <<k, "read64">> \in failed' \/ <<k, "write64">> \in failed'
        <4>1. CASE reg' = [reg EXCEPT ![i] = BackTo(M)]
          BY <3>1, <3>5, <4>1 DEF Failing, BackTo
        <4>2. CASE <<i, "read64">> \in failed' \/ <<i, "write64">> \in failed'
          <5>1. CASE j = i
            BY <4>2, <5>1
          <5>2. CASE j = i + 1
            <6>1. j - 1 = i
              BY <3>2, <5>2 DEF Bars
            <6> QED
              BY <4>2, <6>1
          <5>3. CASE j # i /\ j # i + 1
            BY <3>3, <3>5, <4>1, <5>3
          <5> QED
            BY <5>1, <5>2, <5>3
        <4> QED
          BY <3>3, <4>1, <4>2
      <3> HIDE DEF RegistersRestored
      <3>6. RegistersRestored'
        BY <3>2, <3>5, AccountKept DEF RegistersRestored
      <3> QED
        BY <3>4, <3>6
    <2>5. CASE Open \/ SizedAll \/ SkipBar \/ MapBar \/ Mapped
      BY <2>5 DEF Open, SizedAll, SkipBar, MapBar, Mapped, Fail
    <2>6. CASE \E t \in Transfers : Access(t)
      BY <2>6 DEF Access, RefuseTransfer, WritePastMapping, WriteMem
    <2>7. CASE UNCHANGED vars
      BY <2>7 DEF vars
    <2> QED
      BY <2>1, <2>2, <2>3, <2>4, <2>5, <2>6, <2>7 DEF Next, Probe
  <1> QED
    BY <1>1, <1>2, PTL DEF Spec

--------------------------------------------------------------------------
(* The copy.                                                               *)

\* Whole words of a transfer, and the bytes behind the last of them.
LEMMA Words ==
  ASSUME NEW n \in Nat
  PROVE  /\ 8 * (n \div 8) \in Nat /\ 8 * (n \div 8) <= n /\ n \div 8 \in Nat
         /\ \A y \in 0 .. 8 * (n \div 8) - 1 :
              y \div 8 \in 0 .. n \div 8 - 1 /\ 8 * (y \div 8) <= y /\ y <= 8 * (y \div 8) + 7
         /\ \A k \in 0 .. n \div 8 - 1 : 8 * k \in Nat /\ 8 * k + 7 <= n - 1
  OBVIOUS

\* Words and bytes together are the whole transfer and no more.
LEMMA CopyIsWhole ==
  ASSUME NEW dest, NEW src, NEW n \in Nat
  PROVE  CopiedTo(Accesses(dest, src, n)) = 0 .. n - 1
  <1>1. CASE dest % 8 # 0 \/ src % 8 # 0
    <2>1. Accesses(dest, src, n) = [at : 0 .. n - 1, size : {1}]
      BY <1>1 DEF Accesses
    <2>2. ASSUME NEW x \in [at : 0 .. n - 1, size : {1}]
          PROVE  x.at .. x.at + x.size - 1 = {x.at} /\ x.at \in 0 .. n - 1
      OBVIOUS
    <2>3. ASSUME NEW y \in 0 .. n - 1
          PROVE  \E x \in [at : 0 .. n - 1, size : {1}] : y \in x.at .. x.at + x.size - 1
      <3>1. [at |-> y, size |-> 1] \in [at : 0 .. n - 1, size : {1}]
        OBVIOUS
      <3>2. y \in y .. y + 1 - 1
        OBVIOUS
      <3> QED
        BY <3>1, <3>2
    <2> QED
      BY <2>1, <2>2, <2>3 DEF CopiedTo
  <1>2. CASE ~(dest % 8 # 0 \/ src % 8 # 0)
    <2> DEFINE q == n \div 8
               W == [at : {8 * k : k \in 0 .. q - 1}, size : {8}]
               B == [at : 8 * q .. n - 1, size : {1}]
    <2>0. 8 * q \in Nat /\ 8 * q <= n /\ q \in Nat
      BY Words
    <2>1. Accesses(dest, src, n) = W \cup B
      BY <1>2 DEF Accesses
    <2>2. ASSUME NEW x \in W, NEW y \in x.at .. x.at + x.size - 1 PROVE y \in 0 .. n - 1
      <3>1. PICK k \in 0 .. q - 1 : x.at = 8 * k
        OBVIOUS
      <3>2. x.size = 8 /\ 8 * k \in Nat /\ 8 * k + 7 <= n - 1
        BY Words
      <3> QED
        BY <3>1, <3>2
    <2>3. ASSUME NEW x \in B, NEW y \in x.at .. x.at + x.size - 1 PROVE y \in 0 .. n - 1
      <3>1. x.size = 1 /\ x.at \in 8 * q .. n - 1
        OBVIOUS
      <3> HIDE DEF q
      <3> QED
        BY <2>0, <3>1
    <2>4. ASSUME NEW y \in 0 .. n - 1
          PROVE  \E x \in W \cup B : y \in x.at .. x.at + x.size - 1
      <3>1. CASE y < 8 * q
        <4> DEFINE k == y \div 8
        <4>1. y \in 0 .. 8 * q - 1
          <5> HIDE DEF q
          <5> QED
            BY <2>0, <3>1
        <4>2. k \in 0 .. q - 1 /\ 8 * k <= y /\ y <= 8 * k + 7
          BY <4>1, Words
        <4> HIDE DEF k, q
        <4>3. [at |-> 8 * k, size |-> 8] \in W
          BY <4>2
        <4>4. y \in 8 * k .. 8 * k + 8 - 1
          BY <2>0, <4>2
        <4> QED
          BY <4>3, <4>4
      <3>2. CASE y >= 8 * q
        <4> HIDE DEF q
        <4>1. [at |-> y, size |-> 1] \in B
          BY <2>0, <3>2
        <4>2. y \in y .. y + 1 - 1
          OBVIOUS
        <4> QED
          BY <4>1, <4>2
      <3> QED
        BY <2>0, <3>1, <3>2
    <2> HIDE DEF W, B
    <2> QED
      BY <2>1, <2>2, <2>3, <2>4 DEF CopiedTo
  <1> QED
    BY <1>1, <1>2

--------------------------------------------------------------------------
(* The address space of the device.                                        *)

LEMMA TableTypes ==
  ASSUME NEW m \in MapTable
  PROVE  m.paddr \in Nat /\ m.size \in Nat /\ m.bar \in Bars /\ m.off \in Nat
  BY PciAssumption

\* A number below the width is its own remainder.
LEMMA SmallMod == ASSUME NEW w \in Nat \ {0}, NEW a \in Nat, a < w PROVE a % w = a
  OBVIOUS

\* What get_addr grants lies in the area of the table.
LEMMA CoveredInside ==
  ASSUME NEW m \in MapTable, NEW t \in Transfers, Covers(m, t)
  PROVE  /\ m.paddr <= t.paddr /\ t.paddr + t.len <= m.paddr + m.size
         /\ t.paddr \in Nat /\ t.len \in Nat /\ Offset(m, t) \in Nat
         /\ m.off <= Offset(m, t) /\ Offset(m, t) + t.len <= m.off + m.size
  <1>1. m.paddr \in Nat /\ m.size \in Nat /\ m.off \in Nat /\ t.paddr \in Nat /\ t.len \in Nat /\ Width \in Nat \ {0}
    BY PciAssumption
  <1>2. m.paddr + m.size < Width /\ t.paddr + t.len < Width
    BY TableFits, NoWrap
  <1> DEFINE e == t.paddr + t.len
             f == m.paddr + m.size
  <1>3. e \in Nat /\ f \in Nat /\ e < Width /\ f < Width
    BY <1>1, <1>2
  <1>4. m.paddr <= t.paddr /\ e % Width <= f % Width
    BY DEF Covers, Sum
  <1> HIDE DEF e, f
  <1>5. e <= f
    BY <1>1, <1>3, <1>4, SmallMod
  <1>6. t.paddr + t.len <= m.paddr + m.size
    BY <1>5 DEF e, f
  <1> QED
    BY <1>1, <1>4, <1>6 DEF Offset

\* An address has one place behind the BARs.
LEMMA OnePlace ==
  ASSUME NEW m \in MapTable, NEW a, m.paddr <= a, a < m.paddr + m.size, a \in Int
  PROVE  /\ Cell(a) = dmem[m.bar][m.off + a - m.paddr]
         /\ Cell(a)' = dmem'[m.bar][m.off + a - m.paddr]
         /\ Reached(a) <=> Decodes(m.bar)
  <1>1. ASSUME NEW k \in MapTable, k.paddr <= a, a < k.paddr + k.size
        PROVE  k = m
    <2>1. k # m => k.paddr + k.size <= m.paddr \/ m.paddr + m.size <= k.paddr
      BY TableFits
    <2> QED
      BY <1>1, <2>1, TableTypes
  <1>2. m = CHOOSE k \in MapTable : k.paddr <= a /\ a < k.paddr + k.size
    BY <1>1
  <1>3. Reached(a) <=> Decodes(m.bar)
    BY <1>1 DEF Reached
  <1> QED
    BY <1>2, <1>3 DEF Cell

\* One write: the copy lands in the area, at the addresses named, if the
\* device answers there.
LEMMA WriteIsExact ==
  ASSUME Memory, NEW t \in Transfers, NEW v, WriteMem(t, v), NEW a \in Mapping
  PROVE  Cell(a)' = IF a \in t.paddr .. t.paddr + t.len - 1 /\ Reached(a) THEN v ELSE Cell(a)
  <1>1. PICK m \in MapTable, src \in {0, 4} :
          /\ Covers(m, t)
          /\ LET o == Offset(m, t)
                 cells == {o + x : x \in CopiedTo(Accesses(o, src, t.len))}
             IN dmem' = [dmem EXCEPT ![m.bar] = [x \in DOMAIN dmem[m.bar] |->
                           IF Decodes(m.bar) /\ x \in cells THEN v ELSE dmem[m.bar][x]]]
    BY DEF WriteMem
  <1> DEFINE o == Offset(m, t)
  <1>2. /\ m.paddr <= t.paddr /\ t.paddr + t.len <= m.paddr + m.size
        /\ t.paddr \in Nat /\ t.len \in Nat /\ o \in Nat
        /\ m.off <= o /\ o + t.len <= m.off + m.size /\ o = m.off + t.paddr - m.paddr
    BY <1>1, CoveredInside DEF Offset
  <1> DEFINE cells == {o + x : x \in 0 .. t.len - 1}
             answers == Decodes(m.bar)
  <1>3. dmem' = [dmem EXCEPT ![m.bar] =
                   [x \in DOMAIN dmem[m.bar] |-> IF answers /\ x \in cells THEN v ELSE dmem[m.bar][x]]]
    <2>1. CopiedTo(Accesses(o, src, t.len)) = 0 .. t.len - 1
      BY <1>2, CopyIsWhole
    <2> QED
      BY <1>1, <2>1
  <1> HIDE DEF o
  <1>4. cells = o .. o + t.len - 1
    <2>1. ASSUME NEW y \in o .. o + t.len - 1 PROVE y - o \in 0 .. t.len - 1 /\ o + (y - o) = y
      BY <1>2
    <2>2. ASSUME NEW x \in 0 .. t.len - 1 PROVE o + x \in o .. o + t.len - 1
      BY <1>2
    <2> QED
      BY <2>1, <2>2, Zenon
  <1> HIDE DEF cells, answers
  <1>5. PICK k \in MapTable : a \in k.paddr .. k.paddr + k.size - 1
    BY DEF Mapping
  <1>6. /\ m.paddr \in Nat /\ m.size \in Nat /\ m.bar \in Bars /\ m.off \in Nat
        /\ k.paddr \in Nat /\ k.size \in Nat /\ k.bar \in Bars /\ k.off \in Nat
        /\ a \in Nat /\ k.paddr <= a /\ a < k.paddr + k.size
    BY <1>5, TableTypes
  <1> DEFINE x == k.off + a - k.paddr
  <1>7. Cell(a) = dmem[k.bar][x] /\ Cell(a)' = dmem'[k.bar][x] /\ (Reached(a) <=> Decodes(k.bar))
    <2>1. a \in Int
      BY <1>6
    <2> HIDE DEF x
    <2>2. /\ Cell(a) = dmem[k.bar][k.off + a - k.paddr]
          /\ Cell(a)' = dmem'[k.bar][k.off + a - k.paddr]
          /\ Reached(a) <=> Decodes(k.bar)
      BY <1>6, <2>1, OnePlace
    <2> QED
      BY <2>2 DEF x
  <1>8. x \in Nat /\ k.off <= x /\ x < k.off + k.size
    BY <1>6
  <1>9. x \in DOMAIN dmem[k.bar]
    <2>1. k.off + k.size <= hw.size[k.bar] /\ hw.size[k.bar] \in Nat
      BY <1>6, TableFits, PciAssumption DEF Memory
    <2>2. DOMAIN dmem[k.bar] = 0 .. hw.size[k.bar] - 1
      BY <1>6 DEF Memory
    <2> DEFINE z == hw.size[k.bar]
    <2>3. z \in Nat /\ k.off + k.size <= z
      BY <2>1
    <2> HIDE DEF x, z
    <2>4. x \in 0 .. z - 1
      BY <1>6, <1>8, <2>3
    <2> QED
      BY <2>2, <2>4 DEF z
  <1>10. m.bar \in DOMAIN dmem
    BY <1>6 DEF Memory
  <1>11. dmem'[k.bar][x] = IF k.bar = m.bar /\ answers /\ x \in cells THEN v ELSE dmem[k.bar][x]
    <2> HIDE DEF x
    <2>1. CASE k.bar = m.bar
      <3>1. dmem'[m.bar] = [y \in DOMAIN dmem[m.bar] |-> IF answers /\ y \in cells THEN v ELSE dmem[m.bar][y]]
        BY <1>3, <1>10
      <3> QED
        BY <1>9, <2>1, <3>1
    <2>2. CASE k.bar # m.bar
      BY <1>3, <1>6, <2>2 DEF Memory
    <2> QED
      BY <2>1, <2>2
  <1>12. (k.bar = m.bar /\ x \in cells) <=> a \in t.paddr .. t.paddr + t.len - 1
    <2>1. CASE k = m
      <3>1. x \in o .. o + t.len - 1 <=> a \in t.paddr .. t.paddr + t.len - 1
        BY <1>2, <1>6, <2>1
      <3> QED
        BY <1>4, <2>1, <3>1
    <2>2. CASE k # m
      <3>1. /\ k.paddr + k.size <= m.paddr \/ m.paddr + m.size <= k.paddr
            /\ k.bar # m.bar \/ k.off + k.size <= m.off \/ m.off + m.size <= k.off
        BY <2>2, TableFits
      <3>2. a \notin t.paddr .. t.paddr + t.len - 1
        BY <1>2, <1>6, <3>1
      <3>3. k.bar = m.bar => x \notin o .. o + t.len - 1
        BY <1>2, <1>6, <1>8, <3>1
      <3> QED
        BY <1>4, <3>2, <3>3
    <2> QED
      BY <2>1, <2>2
  <1>13. k.bar = m.bar => (Reached(a) <=> answers)
    BY <1>7 DEF answers
  <1> QED
    BY <1>7, <1>11, <1>12, <1>13

\* A write, by words or by bytes, changes the device addresses it names, all of
\* them that the device answers at and no other, for every table, transfer and
\* alignment and whatever probe left in the registers.
THEOREM WritesAreExact == Spec => WritesWhatItNames
  <1>1. Init => Memory
    BY DEF Init, Memory
  <1>2. Memory /\ [Next]_vars => Memory'
    <2> SUFFICES ASSUME Memory, [Next]_vars PROVE Memory'
      OBVIOUS
    <2>1. CASE UNCHANGED <<hw, dmem>>
      BY <2>1 DEF Memory
    <2>2. CASE Probe \/ Remove \/ UNCHANGED vars
      BY <2>1, <2>2 DEF Probe, Remove, vars, Open, RestoreFails, Size32, Size64, SizePastTheEnd, SizeUnknown,
         SizedAll, SkipBar, MapBar, Mapped
    <2>3. ASSUME NEW t \in Transfers, RefuseTransfer(t) \/ WritePastMapping(t) PROVE Memory'
      BY <2>1, <2>3 DEF RefuseTransfer, WritePastMapping
    <2>4. ASSUME NEW t \in Transfers, NEW v, WriteMem(t, v) PROVE Memory'
      <3>1. PICK b, S : dmem' = [dmem EXCEPT ![b] = [x \in DOMAIN dmem[b] |->
                                   IF Decodes(b) /\ x \in S THEN v ELSE dmem[b][x]]]
        BY <2>4 DEF WriteMem
      <3>2. hw' = hw
        BY <2>4 DEF WriteMem
      <3> QED
        BY <3>1, <3>2 DEF Memory
    <2> QED
      BY <2>2, <2>3, <2>4 DEF Next, Access
  <1>3. Memory /\ [Next]_vars =>
          [\A t \in Transfers, v \in Values : WriteMem(t, v) =>
             \A a \in Mapping :
               Cell(a)' = IF a \in t.paddr .. t.paddr + t.len - 1 /\ Reached(a) THEN v ELSE Cell(a)]_vars
    BY WriteIsExact
  <1> QED
    BY <1>1, <1>2, <1>3, PTL DEF Spec, WritesWhatItNames

\* pci_sysfs_memcpy makes no unaligned access of a word, at either end, for
\* every alignment of the device address and of the host's buffer.
THEOREM WordsAreAligned == Spec => []WordsAligned
  <1>1. WordsAligned
    <2> SUFFICES ASSUME NEW t \in Transfers, NEW m \in MapTable, NEW src \in 0 .. 8, Covers(m, t),
                        NEW x \in Accesses(Offset(m, t), src, t.len), x.size = 8
                 PROVE  (Offset(m, t) + x.at) % 8 = 0 /\ (src + x.at) % 8 = 0
      BY DEF WordsAligned
    <2> DEFINE o == Offset(m, t)
               n == t.len
    <2>1. o \in Nat /\ n \in Nat
      BY CoveredInside
    <2>2. x \in Accesses(o, src, n)
      OBVIOUS
    <2> HIDE DEF o, n
    <2>3. o % 8 = 0 /\ src % 8 = 0 /\ x \in [at : {8 * k : k \in 0 .. n \div 8 - 1}, size : {8}]
      BY <2>2 DEF Accesses
    <2>4. PICK k \in 0 .. n \div 8 - 1 : x.at = 8 * k
      BY <2>3
    <2>5. (o + x.at) % 8 = 0 /\ (src + x.at) % 8 = 0
      BY <2>1, <2>3, <2>4
    <2> QED
      BY <2>5 DEF o
  <1> QED
    BY <1>1, PTL

--------------------------------------------------------------------------
(* What probe finds.                                                       *)

\* A register is a second half if the one before it holds a 64-bit BAR and is
\* no second half itself.
LEMMA Halves ==
  ASSUME NEW d
  PROVE  /\ SecondHalves(d) \subseteq Bars /\ 0 \notin SecondHalves(d)
         /\ \A j \in 1 .. 5 : j \in SecondHalves(d) <=> d.bits[j - 1] = 2 /\ j - 1 \notin SecondHalves(d)
  <1> DEFINE Rule(h) == h = [j \in Bars |-> j # 0 /\ d.bits[j - 1] = 2 /\ ~h[j - 1]]
             h1 == d.bits[0] = 2
             h2 == d.bits[1] = 2 /\ ~h1
             h3 == d.bits[2] = 2 /\ ~h2
             h4 == d.bits[3] = 2 /\ ~h3
             h5 == d.bits[4] = 2 /\ ~h4
             w == [j \in Bars |-> \/ j = 1 /\ h1
                                  \/ j = 2 /\ h2
                                  \/ j = 3 /\ h3
                                  \/ j = 4 /\ h4
                                  \/ j = 5 /\ h5]
  <1>1. Rule(w)
    <2>1. ASSUME NEW j \in Bars PROVE w[j] <=> j # 0 /\ d.bits[j - 1] = 2 /\ ~w[j - 1]
      BY DEF Bars
    <2>2. w[0] = FALSE /\ \A j \in Bars : w[j] \in BOOLEAN
      BY DEF Bars
    <2>3. \A j \in Bars : w[j] = (j # 0 /\ d.bits[j - 1] = 2 /\ ~w[j - 1])
      BY <2>1, <2>2
    <2>4. w = [j \in Bars |-> w[j]]
      OBVIOUS
    <2> HIDE DEF w
    <2> QED BY <2>3, <2>4
  <1> DEFINE half == CHOOSE h : Rule(h)
  <1>2. Rule(half)
    <2> HIDE DEF Rule
    <2> QED BY <1>1, Zenon
  <1>3. SecondHalves(d) = {j \in Bars : half[j]}
    BY DEF SecondHalves
  <1> HIDE DEF half
  <1>4. \A j \in Bars : j \in SecondHalves(d) <=> half[j]
    BY <1>3
  <1>5. \A j \in Bars : half[j] <=> j # 0 /\ d.bits[j - 1] = 2 /\ ~half[j - 1]
    BY <1>2
  <1>6. SecondHalves(d) \subseteq Bars
    BY <1>3
  <1>7. 0 \in Bars /\ \A j \in 1 .. 5 : j \in Bars /\ j - 1 \in Bars /\ j # 0
    BY DEF Bars
  <1> QED BY <1>4, <1>5, <1>6, <1>7

\* Probe is right about register j.
SizedRight(j) ==
  IF j \in SecondHalves(hw) THEN ~res[j].valid
                            ELSE res[j].valid = (hw.size[j] # 0) /\ res[j].size = hw.size[j]

\* No register before i has hidden its kind.
KindsSeen == \A f \in failed : f[1] < i => f[2] # "read"

\* How far probe has come: it is right about those of the registers before i
\* that it knows, and the areas before i are mapped.  The index stops at a
\* second half only after a read has failed.
ProbeInv ==
  /\ hw \in Devices /\ i \in 0 .. 6 /\ DOMAIN res = Bars /\ \A f \in failed : f[1] \in Bars
  /\ pc = "new" => fds = {} /\ bufs = {} /\ opened = {} /\ mapped = {} /\ failed = {}
  /\ pc = "size" => /\ opened = {CONFIG} /\ bufs = {} /\ mapped = {}
                    /\ \A f \in failed : f[1] < i
                    /\ KindsSeen => i \notin SecondHalves(hw)
                    /\ \A j \in Bars : j < i /\ Known(j) => SizedRight(j)
  /\ pc \in {"map", "ready"} => \A j \in Bars : Known(j) => SizedRight(j)
  /\ pc = "map" => /\ mapped = {j \in Bars : res[j].valid /\ j < i}
                   /\ bufs = mapped /\ opened = mapped \cup {CONFIG}
  /\ pc = "ready" => /\ mapped = {j \in Bars : res[j].valid}
                     /\ bufs = mapped /\ opened = mapped \cup {CONFIG}
  /\ pc = "crash" => failed # {}

\* What the next register is, when all before it are known.
LEMMA HalfByHalf ==
  ASSUME NEW d, NEW j \in Bars, j + 1 \in Bars
  PROVE  j + 1 \in SecondHalves(d) <=> d.bits[j] = 2 /\ j \notin SecondHalves(d)
  <1>1. j + 1 \in 1 .. 5 /\ (j + 1) - 1 = j
    BY DEF Bars
  <1> QED
    BY <1>1, Halves

\* One register sized, as a BAR of 32 bits: the index moves on by one.
LEMMA SizedSingle == ProbeInv /\ [Next]_vars /\ Size32 => ProbeInv'
  <1> SUFFICES ASSUME ProbeInv, [Next]_vars, Size32 PROVE ProbeInv'
    OBVIOUS
  <1>1. hw' = hw /\ failed \subseteq failed' /\ hw \in Devices /\ i \in 0 .. 6 /\ DOMAIN res = Bars
    BY Constant DEF ProbeInv
  <1>2. pc = "size" /\ pc' = "size" /\ i \in Bars /\ i' = i + 1 /\ UNCHANGED <<bufs, opened, mapped>>
    BY DEF Size32, record
  <1>3. PICK M, size :
          /\ Failing(M) /\ \E b \in TypeSeen(M) : b \in {0, 1}
          /\ size \in IF M \cap {"ones", "size"} = {} THEN {Sized(i)} ELSE BadSizes
          /\ res' = [res EXCEPT ![i] = Area(FALSE, size)]
    BY DEF Size32
  <1>4. i < i' /\ i' \in 0 .. 6 /\ \A j \in Bars : j < i' => j = i \/ j < i
    BY <1>2 DEF Bars
  <1>5. \A c \in M : <<i, c>> \in failed'
    BY <1>3 DEF Failing
  <1>6. ASSUME \A f \in failed' : f[1] < i => f[2] # "read" PROVE i \notin SecondHalves(hw)
    BY <1>1, <1>2, <1>6 DEF ProbeInv, KindsSeen
  <1>7. ASSUME KindsSeen' PROVE i' \notin SecondHalves(hw)
    <2>1. ASSUME "read" \in M PROVE FALSE
      <3>1. <<i, "read">> \in failed'
        BY <1>5, <2>1
      <3> QED
        BY <1>4, <1>7, <3>1 DEF KindsSeen
    <2>2. hw.bits[i] # 2
      BY <1>3, <2>1 DEF TypeSeen
    <2>3. CASE i + 1 \in Bars
      BY <1>2, <2>2, <2>3, HalfByHalf
    <2>4. CASE i + 1 \notin Bars
      BY <1>2, <2>4, Halves
    <2> QED
      BY <2>3, <2>4
  <1>8. ASSUME NEW j \in Bars, j < i', Known(j)' PROVE SizedRight(j)'
    <2>1. CASE j = i
      <3>1. M = {}
        <4>1. ASSUME NEW c \in M PROVE FALSE
          BY <1>5, <1>8, <2>1 DEF Known
        <4> QED
          BY <4>1
      <3>2. i \notin SecondHalves(hw)
        BY <1>6, <1>8, <2>1 DEF Known
      <3>3. size = hw.size[i]
        BY <1>3, <3>1, <3>2 DEF Sized
      <3>4. res'[i].valid = (hw.size[i] # 0) /\ res'[i].size = hw.size[i]
        BY <1>1, <1>2, <1>3, <3>3 DEF Area
      <3> QED
        BY <1>1, <2>1, <3>2, <3>4 DEF SizedRight
    <2>2. CASE j < i
      <3>1. Known(j)
        BY <1>1, <1>8 DEF Known
      <3>2. SizedRight(j)
        BY <1>2, <2>2, <3>1 DEF ProbeInv
      <3>3. j # i
        BY <1>1, <2>2 DEF Bars
      <3>4. res'[j] = res[j]
        BY <1>1, <1>3, <3>3
      <3> QED
        BY <1>1, <3>2, <3>4 DEF SizedRight
    <2> QED
      BY <1>4, <1>8, <2>1, <2>2
  <1>9. DOMAIN res' = Bars
    BY <1>1, <1>3
  <1>10. ASSUME NEW f \in failed' PROVE f[1] \in Bars /\ f[1] < i'
    BY <1>2, <1>3 DEF Failing, ProbeInv, Bars
  <1> QED
    BY <1>1, <1>2, <1>4, <1>7, <1>8, <1>9, <1>10 DEF ProbeInv

\* Two registers sized, as a BAR of 64 bits: the index moves on by two.
LEMMA SizedPair == ProbeInv /\ [Next]_vars /\ Size64 => ProbeInv'
  <1> SUFFICES ASSUME ProbeInv, [Next]_vars, Size64 PROVE ProbeInv'
    OBVIOUS
  <1>1. hw' = hw /\ failed \subseteq failed' /\ hw \in Devices /\ i \in 0 .. 6 /\ DOMAIN res = Bars
    BY Constant DEF ProbeInv
  <1>2. /\ pc = "size" /\ pc' = "size" /\ i \in Bars /\ i + 1 \in Bars /\ i' = i + 2
        /\ UNCHANGED <<bufs, opened, mapped>>
    BY DEF Size64, record
  <1>3. PICK M, N, size :
          /\ Failing(M \cup N) /\ 2 \in TypeSeen(M)
          /\ size \in IF N \cap {"ones64", "size64"} = {} /\ i + 1 \in SecondHalves(hw)
                      THEN {hw.size[i]} ELSE BadSizes
          /\ res' = [res EXCEPT ![i] = Area(TRUE, size), ![i + 1] = NoRes]
    BY DEF Size64
  <1>4. i < i' /\ i' \in 0 .. 6 /\ i + 1 # i /\ \A j \in Bars : j < i' => j = i \/ j = i + 1 \/ j < i
    BY <1>2 DEF Bars
  <1>5. \A c \in M \cup N : <<i, c>> \in failed'
    BY <1>3 DEF Failing
  <1>6. ASSUME \A f \in failed' : f[1] < i' => f[2] # "read"
        PROVE  i \notin SecondHalves(hw) /\ i + 1 \in SecondHalves(hw)
    <2>1. ASSUME "read" \in M PROVE FALSE
      <3>1. <<i, "read">> \in failed'
        BY <1>5, <2>1
      <3> QED
        BY <1>4, <1>6, <3>1
    <2>2. hw.bits[i] = 2
      BY <1>3, <2>1 DEF TypeSeen
    <2>3. ASSUME NEW f \in failed, f[1] < i PROVE f[2] # "read"
      <3>1. f[1] < i'
        BY <1>2, <2>3 DEF ProbeInv, Bars
      <3> QED
        BY <1>1, <1>6, <3>1
    <2>4. i \notin SecondHalves(hw)
      BY <1>2, <2>3 DEF ProbeInv, KindsSeen
    <2> QED
      BY <1>2, <2>2, <2>4, HalfByHalf
  <1>7. ASSUME KindsSeen' PROVE i' \notin SecondHalves(hw)
    <2>1. i + 1 \in SecondHalves(hw)
      BY <1>6, <1>7 DEF KindsSeen
    <2>2. CASE i + 2 \in Bars
      <3>1. (i + 1) + 1 = i + 2
        BY <1>2 DEF Bars
      <3> QED
        BY <1>2, <2>1, <2>2, <3>1, HalfByHalf
    <2>3. CASE i + 2 \notin Bars
      BY <1>2, <2>3, Halves
    <2> QED
      BY <2>2, <2>3, <1>2
  <1>8. ASSUME NEW j \in Bars, j < i', Known(j)' PROVE SizedRight(j)'
    <2>1. CASE j = i
      <3>1. M = {} /\ N = {}
        <4>1. ASSUME NEW c \in M \cup N PROVE FALSE
          BY <1>5, <1>8, <2>1, <4>1 DEF Known
        <4> QED
          BY <4>1
      <3>2. \A f \in failed' : f[1] < i' => f[2] # "read"
        <4>1. ASSUME NEW f \in failed', f[1] < i' PROVE f[2] # "read"
          <5>1. f[1] \in Bars /\ f[1] # i
            BY <1>2, <1>3, <1>8, <2>1, <3>1 DEF Failing, ProbeInv, Known
          <5>2. failed' = failed
            BY <1>3, <3>1 DEF Failing
          <5>3. f[1] < i
            BY <1>2, <5>2 DEF ProbeInv
          <5> QED
            BY <1>8, <2>1, <5>3 DEF Known
        <4> QED
          BY <4>1
      <3>3. i \notin SecondHalves(hw) /\ i + 1 \in SecondHalves(hw)
        BY <1>6, <3>2
      <3>4. size = hw.size[i]
        BY <1>3, <3>1, <3>3
      <3>5. res'[i].valid = (hw.size[i] # 0) /\ res'[i].size = hw.size[i]
        BY <1>1, <1>2, <1>3, <1>4, <3>4 DEF Area
      <3> QED
        BY <1>1, <2>1, <3>3, <3>5 DEF SizedRight
    <2>2. CASE j = i + 1
      <3>1. ~res'[j].valid
        BY <1>1, <1>2, <1>3, <2>2 DEF NoRes
      <3>2. \A f \in failed' : f[1] < i' => f[2] # "read"
        <4>1. ASSUME NEW f \in failed', f[1] < i' PROVE f[2] # "read"
          <5>1. f[1] \in Bars
            BY <1>2, <1>3 DEF Failing, ProbeInv
          <5>2. f[1] # j
            BY <1>8 DEF Known
          <5>3. f[1] < j
            BY <1>2, <2>2, <4>1, <5>1, <5>2 DEF Bars
          <5> QED
            BY <1>8, <5>3 DEF Known
        <4> QED
          BY <4>1
      <3>3. j \in SecondHalves(hw)
        BY <1>6, <2>2, <3>2
      <3> QED
        BY <1>1, <3>1, <3>3 DEF SizedRight
    <2>3. CASE j < i
      <3>1. Known(j)
        BY <1>1, <1>8 DEF Known
      <3>2. SizedRight(j)
        BY <1>2, <2>3, <3>1 DEF ProbeInv
      <3>3. j # i /\ j # i + 1
        BY <1>1, <2>3 DEF Bars
      <3>4. res'[j] = res[j]
        BY <1>1, <1>3, <3>3
      <3> QED
        BY <1>1, <3>2, <3>4 DEF SizedRight
    <2> QED
      BY <1>4, <1>8, <2>1, <2>2, <2>3
  <1>9. DOMAIN res' = Bars
    BY <1>1, <1>3
  <1>10. ASSUME NEW f \in failed' PROVE f[1] \in Bars /\ f[1] < i'
    BY <1>2, <1>3 DEF Failing, ProbeInv, Bars
  <1> QED
    BY <1>1, <1>2, <1>4, <1>7, <1>8, <1>9, <1>10 DEF ProbeInv

LEMMA ProbeStep == ProbeInv /\ [Next]_vars => ProbeInv'
  <1> SUFFICES ASSUME ProbeInv, [Next]_vars PROVE ProbeInv'
    OBVIOUS
  <1>1. /\ hw' = hw /\ failed \subseteq failed' /\ hw \in Devices /\ i \in 0 .. 6 /\ DOMAIN res = Bars
        /\ \A f \in failed : f[1] \in Bars
    BY Constant DEF ProbeInv
  <1>2. \A j : Known(j)' => Known(j)
    BY <1>1 DEF Known
  <1>3. \A j : res'[j] = res[j] /\ SizedRight(j) => SizedRight(j)'
    BY <1>1 DEF SizedRight
  <1>4. CASE Open
    <2>1. \/ pc' = "size" /\ opened' = {CONFIG}
          \/ pc' = "undo"
      BY <1>4 DEF Open, Fail
    <2>2. i' = 0 /\ bufs' = {} /\ mapped' = {} /\ res' = res /\ failed' = {}
      BY <1>4 DEF Open, ProbeInv
    <2>3. 0 \notin SecondHalves(hw) /\ \A j \in Bars : ~(j < 0)
      BY Halves DEF Bars
    <2> QED
      BY <1>1, <2>1, <2>2, <2>3 DEF ProbeInv
  <1>5. CASE RestoreFails \/ SizeUnknown
    <2>1. pc' = "undo" /\ i \in Bars /\ UNCHANGED <<i, res>> /\ \E M : Failing(M)
      BY <1>5 DEF RestoreFails, SizeUnknown, Fail
    <2>2. \A f \in failed' : f[1] \in Bars
      BY <1>1, <2>1 DEF Failing
    <2> QED
      BY <1>1, <2>1, <2>2 DEF ProbeInv
  <1>6. CASE Remove
    <2>1. pc' = "gone" /\ UNCHANGED <<i, res, failed>>
      BY <1>6 DEF Remove
    <2> QED
      BY <1>1, <2>1 DEF ProbeInv
  <1>7. CASE SizePastTheEnd
    <2>1. pc = "size" /\ i \in Bars /\ i + 1 \notin Bars /\ pc' = "crash" /\ UNCHANGED <<i, res>>
      BY <1>7 DEF SizePastTheEnd
    <2>2. PICK M : Failing(M) /\ 2 \in TypeSeen(M)
      BY <1>7 DEF SizePastTheEnd
    <2>3. \A f \in failed' : f[1] \in Bars
      BY <1>1, <2>1, <2>2 DEF Failing
    <2>4. ASSUME failed' = {} PROVE FALSE
      <3>1. M = {} /\ failed = {}
        BY <2>2, <2>4 DEF Failing
      <3>2. i = 5 /\ 5 \notin SecondHalves(hw)
        BY <2>1, <3>1 DEF ProbeInv, KindsSeen, Bars
      <3> QED
        BY <1>1, <2>2, <3>1, <3>2, PciAssumption DEF TypeSeen
    <2> QED
      BY <1>1, <2>1, <2>3, <2>4 DEF ProbeInv
  <1>8. CASE SizedAll
    <2>1. pc = "size" /\ i \notin Bars /\ pc' = "map" /\ i' = 0 /\ UNCHANGED <<res, bufs, opened, mapped, failed>>
      BY <1>8 DEF SizedAll, record
    <2>2. \A j \in Bars : j < i /\ ~(j < 0)
      BY <1>1, <2>1 DEF Bars
    <2>3. \A j \in Bars : Known(j)' => SizedRight(j)'
      BY <1>2, <1>3, <2>1, <2>2 DEF ProbeInv
    <2>4. {j \in Bars : res'[j].valid /\ j < 0} = {}
      BY <2>2
    <2> QED
      BY <1>1, <2>1, <2>3, <2>4 DEF ProbeInv
  <1>9. CASE SkipBar \/ MapBar
    <2>1. pc = "map" /\ i \in Bars /\ res' = res /\ failed' = failed
      BY <1>9 DEF SkipBar, MapBar
    <2>2. /\ mapped = {j \in Bars : res[j].valid /\ j < i}
          /\ bufs = mapped /\ opened = mapped \cup {CONFIG}
      BY <2>1 DEF ProbeInv
    <2>3. i + 1 \in 0 .. 6 /\ \A j \in Bars : j < i + 1 <=> j < i \/ j = i
      BY <1>1, <2>1 DEF Bars
    <2>4. \A j \in Bars : Known(j)' => SizedRight(j)'
      BY <1>2, <1>3, <2>1 DEF ProbeInv
    <2>5. CASE SkipBar
      <3>1. ~res[i].valid /\ i' = i + 1 /\ UNCHANGED <<pc, bufs, opened, mapped>>
        BY <2>5 DEF SkipBar, record
      <3>2. {j \in Bars : res'[j].valid /\ j < i'} = {j \in Bars : res[j].valid /\ j < i}
        BY <2>1, <2>3, <3>1
      <3> QED
        BY <1>1, <2>1, <2>2, <2>3, <2>4, <3>1, <3>2 DEF ProbeInv
    <2>6. CASE MapBar
      <3>1. CASE pc' = "undo"
        <4>1. i' = i
          BY <2>1, <2>6, <3>1 DEF MapBar, Fail
        <4> QED
          BY <1>1, <2>1, <3>1, <4>1 DEF ProbeInv
      <3>2. CASE pc' # "undo"
        <4>1. /\ res[i].valid /\ i' = i + 1 /\ pc' = "map"
              /\ opened' = opened \cup {i} /\ bufs' = bufs \cup {i} /\ mapped' = mapped \cup {i}
          BY <2>1, <2>6, <3>2 DEF MapBar, OpenBar, Fail
        <4>2. {j \in Bars : res'[j].valid /\ j < i'} = {j \in Bars : res[j].valid /\ j < i} \cup {i}
          BY <2>1, <2>3, <4>1
        <4> QED
          BY <1>1, <2>1, <2>2, <2>3, <2>4, <4>1, <4>2 DEF ProbeInv
      <3> QED
        BY <3>1, <3>2
    <2> QED
      BY <1>9, <2>5, <2>6
  <1>10. CASE Mapped
    <2>1. pc = "map" /\ i \notin Bars /\ pc' = "ready" /\ UNCHANGED <<i, res, bufs, opened, mapped, failed>>
      BY <1>10 DEF Mapped, record
    <2>2. \A j \in Bars : j < i
      BY <1>1, <2>1 DEF Bars
    <2>3. {j \in Bars : res[j].valid /\ j < i} = {j \in Bars : res'[j].valid}
      BY <2>1, <2>2
    <2>4. \A j \in Bars : Known(j)' => SizedRight(j)'
      BY <1>2, <1>3, <2>1 DEF ProbeInv
    <2> QED
      BY <1>1, <2>1, <2>3, <2>4 DEF ProbeInv
  <1>11. ASSUME NEW t \in Transfers, WritePastMapping(t) PROVE ProbeInv'
    <2>1. pc = "ready" /\ pc' = "crash" /\ UNCHANGED <<i, res, failed>>
      BY <1>11 DEF WritePastMapping
    <2>2. PICK m \in MapTable : Covers(m, t) /\ ~InMapping(m, t)
      BY <1>11 DEF WritePastMapping
    <2>3. ASSUME failed = {} PROVE FALSE
      <3>1. m.bar \in Bars /\ m.size \in Nat /\ m.off \in Nat
        BY TableTypes
      <3>2. 0 < m.size /\ m.off + m.size <= hw.size[m.bar] /\ m.bar \notin SecondHalves(hw)
        BY <1>1, TableFits
      <3>3. res[m.bar].valid = (hw.size[m.bar] # 0) /\ res[m.bar].size = hw.size[m.bar]
        BY <2>1, <2>3, <3>1, <3>2 DEF ProbeInv, Known, SizedRight
      <3>4. hw.size[m.bar] \in Nat
        BY <1>1, <3>1, PciAssumption
      <3>5. m.bar \in bufs
        <4>1. hw.size[m.bar] # 0
          BY <3>1, <3>2, <3>4
        <4> QED
          BY <2>1, <3>1, <3>3, <4>1 DEF ProbeInv
      <3>6. Offset(m, t) \in Nat /\ t.len \in Nat /\ Offset(m, t) + t.len <= m.off + m.size
        BY <2>2, CoveredInside
      <3>7. Offset(m, t) + t.len <= hw.size[m.bar]
        BY <3>1, <3>2, <3>4, <3>6
      <3> QED
        BY <2>2, <3>3, <3>5, <3>7 DEF InMapping
    <2> QED
      BY <1>1, <2>1, <2>3 DEF ProbeInv
  <1>12. CASE UNCHANGED <<pc, i, res, fds, bufs, opened, mapped, failed>>
    <2>1. \A j : (Known(j)' <=> Known(j)) /\ (SizedRight(j)' <=> SizedRight(j))
      BY <1>1, <1>12 DEF Known, SizedRight
    <2>2. KindsSeen' <=> KindsSeen
      BY <1>12 DEF KindsSeen
    <2> QED
      BY <1>1, <1>12, <2>1, <2>2 DEF ProbeInv
  <1>13. CASE UNCHANGED vars
    BY <1>12, <1>13 DEF vars, record
  <1>14. ASSUME NEW t \in Transfers, RefuseTransfer(t) \/ \E v \in Values : WriteMem(t, v) PROVE ProbeInv'
    BY <1>12, <1>14 DEF RefuseTransfer, WriteMem, record
  <1> QED
    BY <1>4, <1>5, <1>6, <1>7, <1>8, <1>9, <1>10, <1>11, <1>13, <1>14, SizedSingle, SizedPair
       DEF Next, Probe, Access

\* A probe that succeeds has mapped what it took for areas, and about every
\* register it knows it is right, for every arrangement of 32- and 64-bit BARs
\* and whatever calls failed on the others; without such a failure the driver
\* stays inside its arrays and its mappings.
THEOREM ReadyIsMapped == Spec => []ReadyMeansMapped
  <1>1. Init => ProbeInv
    BY DEF Init, ProbeInv
  <1>2. ProbeInv => ReadyMeansMapped
    <2> SUFFICES ASSUME ProbeInv PROVE ReadyMeansMapped
      OBVIOUS
    <2>1. ASSUME pc = "ready", NEW j \in Bars, Known(j)
          PROVE  (j \in mapped <=> j \in Areas) /\ (j \in Areas => res[j].size = hw.size[j])
      BY <2>1 DEF ProbeInv, Areas, SizedRight
    <2> QED
      BY <2>1 DEF ProbeInv, ReadyMeansMapped
  <1> QED
    BY <1>1, <1>2, ProbeStep, PTL DEF Spec
=============================================================================
