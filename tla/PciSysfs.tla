------------------------------ MODULE PciSysfs ------------------------------
(***************************************************************************)
(* One PCI device behind sysfs (drivers/pci/pci_sysfs.c): probe sizes the  *)
(* base address registers by overwriting and restoring them, opens and     *)
(* maps the valid ones, and undoes all of it when a step fails; the memory *)
(* operations translate device addresses into the mapped BARs.             *)
(*                                                                         *)
(* Of the calls that size a register only the write that restores it is    *)
(* looked at, and that not for a pair.  Every one of them may fail here;   *)
(* "failed" remembers which did, so that the properties can say what hangs *)
(* on whom.                                                                *)
(***************************************************************************)
EXTENDS Integers, FiniteSets

CONSTANTS
  Devices,     \* the devices met: [bits, size], where bits[i] are bits 2..1 of BAR
               \*   register i (2 is a 64-bit BAR), size[i] is its area, 0 if none
  MapTable,    \* the map_table of the driver: a set of [paddr, size, bar, off]
  Transfers,   \* the accesses of the callers: a set of [paddr, len]
  Values,      \* what they write: the memory holds 0 at first
  Width,       \* 2^64: addresses are numbers modulo Width
  BadSizes,    \* what is taken for a size when the ones were not written or read
  Faults,      \* the calls that may fail: "open", "mmap", "id" (another device
               \*   answers), those of Calls and those of PairCalls
  MaxFailed    \* bound on the calls of sizing that fail

\* To size a register: its content is read, ones are written, the size is read,
\* the content is written back.  The same, in eight bytes, for a pair.
Calls == {"read", "ones", "size", "write"}
PairCalls == {"read64", "ones64", "size64", "write64"}

Bars == 0 .. 5     \* PCI_RES_MAX
CONFIG == 6        \* the descriptor of the configuration space

\* The registers of device d that are the second half of a 64-bit BAR.
SecondHalves(d) ==
  LET half[j \in Bars] == j # 0 /\ d.bits[j - 1] = 2 /\ ~half[j - 1] IN {j \in Bars : half[j]}

ASSUME PciAssumption ==
  /\ Devices \subseteq [bits : [Bars -> 0 .. 3], size : [Bars -> Nat]] /\ Width \in Nat \ {0}
  /\ MapTable \subseteq [paddr : Nat, size : Nat, bar : Bars, off : Nat]
  /\ Transfers \subseteq [paddr : Nat, len : Nat] /\ BadSizes \subseteq Nat /\ MaxFailed \in Nat
  /\ \A d \in Devices : 5 \in SecondHalves(d) \/ d.bits[5] # 2   \* no half past the array

\* The areas of the table are distinct, lie inside BARs that probe maps, and
\* end below Width: the table belongs to the device.
ASSUME TableFits ==
  /\ \A m \in MapTable : /\ 0 < m.size /\ m.paddr + m.size < Width
                         /\ \A d \in Devices : m.off + m.size <= d.size[m.bar]
                                               /\ m.bar \notin SecondHalves(d)
  /\ \A m, n \in MapTable : m # n =>
       /\ m.paddr + m.size <= n.paddr \/ n.paddr + n.size <= m.paddr
       /\ m.bar # n.bar \/ m.off + m.size <= n.off \/ n.off + n.size <= m.off
\* No transfer runs past the end of the address space.
ASSUME NoWrap == \A t \in Transfers : t.paddr + t.len < Width

VARIABLES
  hw,        \* the device, one of Devices: no step changes it
  pc,        \* "new", "size", "map", "ready", "undo" in a failed probe, "gone" at
             \*   last; "crash" after an access past an array or a mapping
  i,         \* the loop index
  reg,       \* what BAR register j holds: its "addr", all "ones", or "junk"
  res,       \* pci_res[j]: [is_64, size, valid]
  fds,       \* where the driver has a descriptor (fd is not -1): CONFIG and BARs
  bufs,      \* BARs where it has a mapping (buf is not NULL)
  opened,    \* the descriptors that are open
  mapped,    \* the BARs that are mapped
  ret,       \* what the last call returned
  dmem,      \* dmem[j][o]: the device memory behind BAR j
  failed     \* <<j, call>>: the calls of sizing register j that failed

record == <<fds, bufs, opened, mapped>>
vars == <<hw, pc, i, reg, res, record, ret, dmem, failed>>

NoRes == [is_64 |-> FALSE, size |-> 0, valid |-> FALSE]
Fail(r) == pc' = "undo" /\ ret' = r

--------------------------------------------------------------------------
(* pci_sysfs_config.                                                       *)

Open ==
  /\ pc = "new" /\ i' = 0
  /\ \/ pc' = "size" /\ fds' = {CONFIG} /\ opened' = {CONFIG} /\ UNCHANGED ret
     \/ "open" \in Faults /\ Fail("CL_OUT_OF_RESOURCES") /\ UNCHANGED <<fds, opened>>
     \/ "id" \in Faults /\ Fail("CL_INVALID_DEVICE") /\ fds' = {CONFIG} /\ opened' = {CONFIG}
  /\ UNCHANGED <<hw, reg, res, bufs, mapped, dmem, failed>>

\* The calls whose failure nothing shows.
Unnoticed == (Faults \cap Calls) \ {"write"}

\* The calls of M fail on register i.
Failing(M) == failed' = failed \cup {<<i, c>> : c \in M} /\ Cardinality(failed') <= MaxFailed

\* bar_low without its read is whatever the variable held: its type bits are
\* any, and as junk it is written back.
TypeSeen(M) == IF "read" \in M THEN 0 .. 3 ELSE {hw.bits[i]}
BackTo(M) == IF "read" \in M THEN "junk" ELSE reg[i]

\* What the size bits of register j say.  A second half read on its own is
\* address bits only: 16, the smallest area, whatever the pair has.
Sized(j) == IF j \in SecondHalves(hw) /\ hw.size[j - 1] # 0 THEN 16 ELSE hw.size[j]
Area(is64, size) == [is_64 |-> is64, size |-> size, valid |-> size # 0]

\* The write back to register i fails, the one result that is looked at: the
\* register keeps the ones, if they were written.
RestoreFails ==
  /\ pc = "size" /\ i \in Bars
  /\ \E M \in SUBSET (Faults \cap Calls) :
       /\ "write" \in M /\ Failing(M)
       /\ reg' = IF "ones" \in M THEN reg ELSE [reg EXCEPT ![i] = "ones"]
  /\ Fail("CL_INVALID_DEVICE") /\ UNCHANGED <<hw, i, res, record, dmem>>

\* Mutant: the address is written back only to a BAR that has an area.
Size32IfValid ==
  /\ pc = "size" /\ i \in Bars /\ hw.bits[i] \in {0, 1}
  /\ reg' = [reg EXCEPT ![i] = IF Sized(i) # 0 THEN @ ELSE "ones"]
  /\ res' = [res EXCEPT ![i] = Area(FALSE, Sized(i))]
  /\ i' = i + 1 /\ UNCHANGED <<hw, pc, record, ret, dmem, failed>>

Size32 ==
  /\ pc = "size" /\ i \in Bars
  /\ \E M \in SUBSET Unnoticed :
       /\ Failing(M) /\ \E b \in TypeSeen(M) : b \in {0, 1}
       /\ reg' = [reg EXCEPT ![i] = BackTo(M)]
       /\ \E size \in IF M \cap {"ones", "size"} = {} THEN {Sized(i)} ELSE BadSizes :
            res' = [res EXCEPT ![i] = Area(FALSE, size)]
  /\ i' = i + 1 /\ UNCHANGED <<hw, pc, record, ret, dmem>>

\* Mutant: the second half of a pair is sized like a BAR of its own.
Size64Single ==
  /\ pc = "size" /\ i \in Bars /\ hw.bits[i] = 2
  /\ res' = [res EXCEPT ![i] = Area(TRUE, Sized(i))]
  /\ i' = i + 1 /\ UNCHANGED <<hw, pc, reg, record, ret, dmem, failed>>

\* What is taken for a 64-bit BAR is sized once more, as a pair, by calls of
\* which none is looked at.  The size is right if it is such a BAR.
Size64 ==
  /\ pc = "size" /\ i \in Bars /\ i + 1 \in Bars
  /\ \E M \in SUBSET Unnoticed, N \in SUBSET (Faults \cap PairCalls) :
       /\ Failing(M \cup N) /\ 2 \in TypeSeen(M)
       /\ reg' = CASE "write64" \notin N /\ "read64" \notin N -> [reg EXCEPT ![i] = BackTo(M)]
                   [] "write64" \notin N /\ "read64" \in N -> [reg EXCEPT ![i] = "junk", ![i + 1] = "junk"]
                   [] "write64" \in N /\ "ones64" \in N -> [reg EXCEPT ![i] = BackTo(M)]
                   [] "write64" \in N /\ "ones64" \notin N -> [reg EXCEPT ![i] = "ones", ![i + 1] = "ones"]
       /\ \E size \in IF N \cap {"ones64", "size64"} = {} /\ i + 1 \in SecondHalves(hw)
                      THEN {hw.size[i]} ELSE BadSizes :
            res' = [res EXCEPT ![i] = Area(TRUE, size), ![i + 1] = NoRes]
  /\ i' = i + 2 /\ UNCHANGED <<hw, pc, record, ret, dmem>>

\* The last register, taken for the first of a pair: what is stored of the
\* second lies behind pci_res, the end of an allocated block.
SizePastTheEnd ==
  /\ pc = "size" /\ i \in Bars /\ i + 1 \notin Bars /\ pc' = "crash"
  /\ \E M \in SUBSET Unnoticed :
       /\ Failing(M) /\ 2 \in TypeSeen(M) /\ reg' = [reg EXCEPT ![i] = BackTo(M)]
  /\ UNCHANGED <<hw, i, res, record, ret, dmem>>

SizeUnknown ==
  /\ pc = "size" /\ i \in Bars
  /\ \E M \in SUBSET Unnoticed :
       /\ Failing(M) /\ 3 \in TypeSeen(M) /\ reg' = [reg EXCEPT ![i] = BackTo(M)]
  /\ Fail("CL_INVALID_DEVICE") /\ UNCHANGED <<hw, i, res, record, dmem>>

SizedAll ==
  /\ pc = "size" /\ i \notin Bars /\ pc' = "map" /\ i' = 0
  /\ UNCHANGED <<hw, reg, res, record, ret, dmem, failed>>

SkipBar ==
  /\ pc = "map" /\ i \in Bars /\ ~res[i].valid /\ i' = i + 1
  /\ UNCHANGED <<hw, pc, reg, res, record, ret, dmem, failed>>

OpenBar == fds' = fds \cup {i} /\ opened' = opened \cup {i}

MapBar ==
  /\ pc = "map" /\ i \in Bars /\ res[i].valid
  /\ \/ /\ OpenBar /\ bufs' = bufs \cup {i} /\ mapped' = mapped \cup {i}
        /\ i' = i + 1 /\ UNCHANGED <<pc, ret>>
     \/ "open" \in Faults /\ Fail("CL_INVALID_DEVICE") /\ UNCHANGED <<i, record>>
     \/ "mmap" \in Faults /\ Fail("CL_OUT_OF_RESOURCES") /\ OpenBar /\ UNCHANGED <<i, bufs, mapped>>
  /\ UNCHANGED <<hw, reg, res, dmem, failed>>

Mapped ==
  /\ pc = "map" /\ i \notin Bars /\ pc' = "ready" /\ ret' = "CL_SUCCESS"
  /\ UNCHANGED <<hw, i, reg, res, record, dmem, failed>>

--------------------------------------------------------------------------
(* pci_sysfs_remove: after a failed probe, by dev_remove, or by both.       *)

\* Mutants: an area that is not mapped keeps its descriptor; a descriptor that
\* is closed is not forgotten.
CloseMapped ==
  /\ opened' = opened \ (bufs \cup {CONFIG}) /\ mapped' = mapped \ bufs
  /\ fds' = {} /\ bufs' = {}
CloseAndKeep ==
  /\ opened' = opened \ fds /\ mapped' = mapped \ bufs /\ bufs' = {} /\ UNCHANGED fds

\* Every buf that is not NULL is unmapped, every fd that is not -1 closed.
CloseAll ==
  /\ opened' = opened \ fds /\ mapped' = mapped \ bufs
  /\ fds' = {} /\ bufs' = {}

Remove ==
  /\ pc \in {"undo", "ready", "gone"} /\ pc' = "gone" /\ CloseAll
  /\ ret' = IF pc = "undo" THEN ret ELSE "CL_SUCCESS"
  /\ UNCHANGED <<hw, i, reg, res, dmem, failed>>

--------------------------------------------------------------------------
(* pci_sysfs_get_addr and the memory operations.                           *)

Sum(a, b) == (a + b) % Width

\* Mutant: only the start of the area is compared.
CoversStart(m, t) == m.paddr <= t.paddr /\ t.paddr < Sum(m.paddr, m.size)
Covers(m, t) == m.paddr <= t.paddr /\ Sum(t.paddr, t.len) <= Sum(m.paddr, m.size)

\* Mutant: the area is taken to begin where the BAR does.
OffsetInBar(m, t) == t.paddr - m.paddr
Offset(m, t) == m.off + t.paddr - m.paddr

\* Mutant: words to the end.
AccessesWords(dest, src, n) ==
  [at : {8 * k : k \in 0 .. (n - 1) \div 8}, size : {8}]

\* The copy moves words where both ends are aligned, and bytes elsewhere: the
\* accesses of pci_sysfs_memcpy as [at, size].
Accesses(dest, src, n) ==
  IF dest % 8 # 0 \/ src % 8 # 0 THEN [at : 0 .. n - 1, size : {1}]
  ELSE [at : {8 * k : k \in 0 .. n \div 8 - 1}, size : {8}]
       \cup [at : 8 * (n \div 8) .. n - 1, size : {1}]

CopiedTo(acc) == UNION {x.at .. x.at + x.size - 1 : x \in acc}

\* The access stays in the mapping, which is as long as probe took the BAR for.
InMapping(m, t) == m.bar \in bufs /\ Offset(m, t) + t.len <= res[m.bar].size

\* A BAR answers at the address its registers hold.
Decodes(j) == reg[j] = "addr" /\ (hw.bits[j] = 2 => reg[j + 1] = "addr")

\* pci_sysfs_write_mem.  The host's buffer may start at any address; v stands
\* for its content.  Where the device does not answer the write is lost.
WriteMem(t, v) ==
  /\ pc = "ready"
  /\ \E m \in MapTable, src \in {0, 4} :
       /\ Covers(m, t) /\ InMapping(m, t)
       /\ LET o == Offset(m, t)
              cells == {o + x : x \in CopiedTo(Accesses(o, src, t.len))}
          IN dmem' = [dmem EXCEPT ![m.bar] = [x \in DOMAIN dmem[m.bar] |->
                        IF Decodes(m.bar) /\ x \in cells THEN v ELSE dmem[m.bar][x]]]
  /\ ret' = "CL_SUCCESS" /\ UNCHANGED <<hw, pc, i, reg, res, record, failed>>

WritePastMapping(t) ==
  /\ pc = "ready" /\ pc' = "crash"
  /\ \E m \in MapTable : Covers(m, t) /\ ~InMapping(m, t)
  /\ UNCHANGED <<hw, i, reg, res, record, ret, dmem, failed>>

RefuseTransfer(t) ==
  /\ pc = "ready" /\ ~\E m \in MapTable : Covers(m, t)
  /\ ret' = "CL_INVALID_VALUE" /\ UNCHANGED <<hw, pc, i, reg, res, record, dmem, failed>>

--------------------------------------------------------------------------

Init ==
  /\ hw \in Devices /\ pc = "new" /\ i = 0 /\ ret = "CL_SUCCESS" /\ failed = {}
  /\ fds = {} /\ bufs = {} /\ opened = {} /\ mapped = {}
  /\ reg = [j \in Bars |-> "addr"] /\ res = [j \in Bars |-> NoRes]
  /\ dmem = [j \in Bars |-> [o \in 0 .. hw.size[j] - 1 |-> 0]]

Probe == Open \/ RestoreFails \/ Size32 \/ Size64 \/ SizePastTheEnd \/ SizeUnknown \/ SizedAll
         \/ SkipBar \/ MapBar \/ Mapped

Access(t) == RefuseTransfer(t) \/ WritePastMapping(t) \/ \E v \in Values : WriteMem(t, v)

Next == Probe \/ Remove \/ \E t \in Transfers : Access(t)

Spec == Init /\ [][Next]_vars

--------------------------------------------------------------------------
(* Properties.                                                             *)

\* Whatever step of the probe failed, and however often the device is removed,
\* what the driver has on record is what is open: it closes no descriptor and
\* unmaps no area twice, when its number or address may be another's, and once
\* the device is removed nothing of it stays open.
NothingLeftOpen ==
  /\ fds \subseteq opened /\ bufs \subseteq mapped
  /\ pc = "gone" => opened = {} /\ mapped = {}

\* A register whose size probe knows: its own calls went well, and no register
\* below has hidden from probe whether it is the first of a pair.
Known(j) == \A f \in failed : f[1] # j /\ (f[1] < j => f[2] # "read")

\* A probe that succeeds has mapped what it took for areas; and it was right, at
\* the right size, for every register it knows, whichever calls on the others
\* failed unnoticed: a second half is no area, leftovers of its sizing do not
\* count.  The driver goes past an array or a mapping only after such a call.
Areas == {j \in Bars : hw.size[j] # 0 /\ j \notin SecondHalves(hw)}
ReadyMeansMapped ==
  /\ pc = "ready" =>
       /\ mapped = {j \in Bars : res[j].valid} /\ opened = mapped \cup {CONFIG}
       /\ \A j \in Bars : Known(j) =>
            (j \in mapped <=> j \in Areas) /\ (j \in Areas => res[j].size = hw.size[j])
  /\ pc = "crash" => failed # {}

\* Sizing overwrites the registers of a working device.  Whatever else fails, a
\* register is left altered only if it was not read, alone or in a pair, or was
\* not written back; and if that was the write of a single register the probe
\* fails.  That ones were not written or a size not read leaves no trace.
RegistersRestored ==
  \A j \in Bars : reg[j] # "addr" =>
    \/ <<j, "read">> \in failed
    \/ <<j, "write">> \in failed /\ pc \in {"undo", "gone"}
    \/ \E k \in {j - 1, j} : <<k, "read64">> \in failed \/ <<k, "write64">> \in failed

\* The device's own address space, as the map table lays it out over the BARs.
Cell(a) == LET m == CHOOSE m \in MapTable : m.paddr <= a /\ a < m.paddr + m.size
           IN dmem[m.bar][m.off + a - m.paddr]
Mapping == UNION {m.paddr .. m.paddr + m.size - 1 : m \in MapTable}

\* A write changes the device addresses it names, all of them and no other:
\* the table's areas do not run into each other, the copy does not overrun.  It
\* changes nothing where a register that was not restored keeps the BAR away.
Reached(a) == \E m \in MapTable : m.paddr <= a /\ a < m.paddr + m.size /\ Decodes(m.bar)
WritesWhatItNames ==
  [][\A t \in Transfers, v \in Values : WriteMem(t, v) =>
       \A a \in Mapping :
         Cell(a)' = IF a \in t.paddr .. t.paddr + t.len - 1 /\ Reached(a) THEN v ELSE Cell(a)]_vars

\* No access of eight bytes is unaligned at either end.
WordsAligned ==
  pc = "ready" => \A t \in Transfers, m \in MapTable, src \in 0 .. 8 : Covers(m, t) =>
    \A x \in Accesses(Offset(m, t), src, t.len) :
      x.size = 8 => (Offset(m, t) + x.at) % 8 = 0 /\ (src + x.at) % 8 = 0
=============================================================================
