--------------------------- MODULE ElfLoadProofs ---------------------------
(***************************************************************************)
(* Theorems about ElfLoad, for any binaries: its type invariant, that a    *)
(* binary that was cut short is never read past its end, and that loading  *)
(* implements ProgramLoad (but for its liveness).                          *)
(***************************************************************************)
EXTENDS ElfLoad, TLAPS

ChunkRecords == [paddr : Nat, off : Nat, size : Nat, readonly : BOOLEAN]
Work == {"phs", "chunks", "shs", "secs"}

\* What the checks let through.
Passed == /\ bin.class \in {32, 64} /\ bin.phent >= Phdr(bin.class) /\ bin.shent >= Shdr(bin.class)
          /\ ValidHeader
PassedHeader == bin.class \in {32, 64} /\ bin.phent >= Phdr(bin.class) /\ bin.shent >= Shdr(bin.class)

\* What was checked is known to the steps behind the check.
ChecksDone ==
  /\ pc = "header" => bin.class \in {32, 64}
  /\ pc = "check" => PassedHeader
  /\ pc \in Work \/ Succeeded => Passed
  /\ pc # "done" => ret = "none"
  /\ pc = "crash" => "elf" \in Faults

\* The chunks that were set, and those that are still as calloc gave them.
ChunkAt(n) == IF Loadable(bin.ph[n]) THEN Chunk(bin.ph[n]) ELSE NoChunk
ChunksSoFar ==
  /\ pc = "chunks" =>
       /\ i >= 1 /\ chunks \in Seq(ChunkRecords) /\ Len(chunks) = Len(bin.ph)
       /\ \A n \in DOMAIN bin.ph : chunks[n] = IF n < i THEN ChunkAt(n) ELSE NoChunk
  /\ pc \in {"shs", "secs"} \/ Succeeded =>
       chunks \in Seq(ChunkRecords) /\ Len(chunks) = Len(bin.ph) /\ \A n \in DOMAIN bin.ph : chunks[n] = ChunkAt(n)

\* What the sections searched so far had, and the last area among them.
LastBefore(n, to) ==
  /\ n \in DOMAIN bin.sh /\ n < to /\ bin.sh[n].name = ".comm_area"
  /\ \A m \in DOMAIN bin.sh : n < m /\ m < to => bin.sh[m].name # ".comm_area"
SectionsSoFar ==
  pc = "secs" =>
    /\ i >= 1 /\ i <= Len(bin.sh) + 1
    /\ ".comm" \in found <=> \E m \in DOMAIN bin.sh : m < i /\ bin.sh[m].name = ".comm" /\ bin.sh[m].magic
    /\ ".comm_area" \in found <=> \E m \in DOMAIN bin.sh : m < i /\ bin.sh[m].name = ".comm_area"
    /\ ".comm_area" \in found =>
         \E n \in DOMAIN bin.sh :
            LastBefore(n, i) /\ area = [addr |-> bin.sh[n].addr, size |-> bin.sh[n].len]

NothingFound == pc \in {"init", "ident", "header", "check", "phs", "chunks", "shs"} => found = {}

\* Nothing behind the end is read but the ELF header, and that before any chunk.
BeforeChunks == pc \in {"init", "ident", "header", "check", "phs"} => chunks = <<>>

IInv == TypeOK /\ ChecksDone /\ ReadsInsideFile /\ ChunksSoFar /\ SectionsSoFar /\ NothingFound /\ BeforeChunks

--------------------------------------------------------------------------

\* The tables and what they describe lie in what a checked file is long.
LEMMA TableProduct ==
  ASSUME NEW n \in Nat, NEW k \in Nat, n >= 1
  PROVE  n * k >= k
  <1>1. (n - 1) * k >= 0
    OBVIOUS
  <1>2. n * k = (n - 1) * k + k
    OBVIOUS
  <1> QED
    BY <1>1, <1>2

LEMMA BinaryTypes ==
  ASSUME NEW b \in Binaries
  PROVE  /\ b \in Binary
         /\ b.class \in {0, 32, 64} /\ b.exec \in BOOLEAN /\ b.entry \in Nat
         /\ b.phoff \in Nat /\ b.phent \in Nat /\ b.ph \in Seq(Segments)
         /\ b.shoff \in Nat /\ b.shent \in Nat /\ b.sh \in Seq(Sections) /\ b.shstrndx \in Nat
         /\ b.full \in Nat /\ b.size \in Nat /\ Len(b.ph) \in Nat /\ Len(b.sh) \in Nat
         /\ b.phoff + Len(b.ph) * b.phent \in Nat /\ b.shoff + Len(b.sh) * b.shent \in Nat
  <1>1. b \in Binary
    BY ElfAssumption
  <1>2. \A n, k \in Nat : n * k \in Nat
    OBVIOUS
  <1>3. /\ b.class \in {0, 32, 64} /\ b.exec \in BOOLEAN /\ b.entry \in Nat
        /\ b.phoff \in Nat /\ b.phent \in Nat /\ b.ph \in Seq(Segments)
        /\ b.shoff \in Nat /\ b.shent \in Nat /\ b.sh \in Seq(Sections) /\ b.shstrndx \in Nat
        /\ b.full \in Nat /\ b.size \in Nat
    BY <1>1 DEF Binary
  <1>4. Len(b.ph) \in Nat /\ Len(b.sh) \in Nat
    BY <1>3
  <1>5. Len(b.ph) * b.phent \in Nat /\ Len(b.sh) * b.shent \in Nat
    BY <1>2, <1>3, <1>4
  <1>6. b.phoff + Len(b.ph) * b.phent \in Nat /\ b.shoff + Len(b.sh) * b.shent \in Nat
    <2>1. \A n, k \in Nat : n + k \in Nat
      OBVIOUS
    <2> QED
      BY <2>1, <1>3, <1>5, Zenon
  <1> QED
    BY <1>1, <1>3, <1>4, <1>6, Zenon

LEMMA SegmentTypes ==
  ASSUME NEW b \in Binaries, NEW n \in DOMAIN b.ph
  PROVE  /\ b.ph[n].load \in BOOLEAN /\ b.ph[n].w \in BOOLEAN /\ b.ph[n].off \in Nat
         /\ b.ph[n].paddr \in Nat /\ b.ph[n].filesz \in Nat
  <1>1. b.ph[n] \in Segments
    BY BinaryTypes
  <1> QED
    BY <1>1 DEF Segments

LEMMA SectionTypes ==
  ASSUME NEW b \in Binaries, NEW n \in DOMAIN b.sh
  PROVE  /\ b.sh[n].name \in {".comm", ".comm_area", "other"} /\ b.sh[n].off \in Nat
         /\ b.sh[n].magic \in BOOLEAN /\ b.sh[n].addr \in Nat /\ b.sh[n].len \in Nat
  <1>1. b.sh[n] \in Sections
    BY BinaryTypes
  <1> QED
    BY <1>1 DEF Sections

LEMMA SectionTable ==
  ASSUME bin \in Binaries, Passed
  PROVE  /\ Len(bin.sh) * bin.shent \in Nat
         /\ Len(bin.sh) * bin.shent >= bin.shent
  <1>1. Len(bin.sh) \in Nat /\ bin.shent \in Nat
    BY BinaryTypes
  <1>2. Len(bin.sh) >= 1
    BY BinaryTypes DEF Passed, ValidHeader
  <1>3. \A n, k \in Nat : n * k \in Nat
    OBVIOUS
  <1>4. \A n, k \in Nat : n >= 1 => n * k >= k
    BY TableProduct
  <1> QED
    BY <1>1, <1>2, <1>3, <1>4, Zenon

\* A header that was cut short does not pass, whatever lies behind the cut: one
\* entry of the section headers does not fit into what is left, or e_shoff is.
LEMMA CutHeaderIsRefused ==
  ASSUME bin \in Binaries, Passed
  PROVE  ~HeaderCut(bin)
  <1> DEFINE p == Len(bin.sh) * bin.shent
  <1>1. p \in Nat /\ p >= bin.shent
    BY SectionTable
  <1>2. bin.shoff + p <= bin.size
    BY DEF Passed, ValidHeader
  <1>3. bin.class \in {32, 64} /\ bin.shent >= Shdr(bin.class)
    BY DEF Passed
  <1>4. HeaderCut(bin) => CutInHeader(bin)
    BY ElfAssumption
  <1> HIDE DEF p
  <1>5. CASE bin.class = 32
    <2>1. HeaderCut(bin) => (36 <= bin.size => bin.size < bin.shoff)
      BY <1>4, <1>5 DEF CutInHeader
    <2> QED
      BY <1>1, <1>2, <1>3, <1>5, <2>1, BinaryTypes DEF HeaderCut, Ehdr, Shdr
  <1>6. CASE bin.class = 64
    BY <1>1, <1>2, <1>3, <1>6, BinaryTypes DEF HeaderCut, Ehdr, Shdr
  <1> QED
    BY <1>3, <1>5, <1>6

\* A checked file is whole, and all that is looked at lies in it.
LEMMA InsideFile ==
  ASSUME bin \in Binaries, Passed
  PROVE  /\ Larger(bin.size, Ehdr(bin.class)) = bin.size
         /\ bin.phoff + Len(bin.ph) * bin.phent <= bin.size
         /\ bin.shoff + Len(bin.sh) * bin.shent <= bin.size
         /\ bin.size = bin.full
         /\ \A n \in DOMAIN bin.ph : bin.ph[n].off + bin.ph[n].filesz <= bin.size
         /\ \A n \in DOMAIN bin.sh : bin.sh[n].off + 4 <= bin.size
  <1>1. bin.shoff + Len(bin.sh) * bin.shent <= bin.size /\ bin.phoff + Len(bin.ph) * bin.phent <= bin.size
    BY DEF Passed, ValidHeader
  <1>2. Linked(bin)
    BY CutHeaderIsRefused, ElfAssumption
  <1>3. bin.size = bin.full
    BY <1>1, <1>2, BinaryTypes DEF Linked
  <1>4. Larger(bin.size, Ehdr(bin.class)) = bin.size
    BY CutHeaderIsRefused, BinaryTypes DEF HeaderCut, Larger, Ehdr
  <1>5. bin.shoff + 40 <= bin.size
    <2> DEFINE p == Len(bin.sh) * bin.shent
    <2>1. p \in Nat /\ p >= bin.shent
      BY SectionTable
    <2>2. bin.shoff + p <= bin.size
      BY <1>1
    <2>3. bin.shent >= 40
      BY BinaryTypes DEF Passed, Shdr
    <2> HIDE DEF p
    <2> QED
      BY <2>1, <2>2, <2>3, BinaryTypes
  <1>6. ASSUME NEW n \in DOMAIN bin.ph
        PROVE  bin.ph[n].off + bin.ph[n].filesz <= bin.size
    <2>1. bin.ph[n].off + bin.ph[n].filesz <= bin.shoff
      BY <1>2 DEF Linked
    <2> QED
      BY <1>5, <2>1, BinaryTypes, SegmentTypes
  <1>7. ASSUME NEW n \in DOMAIN bin.sh
        PROVE  bin.sh[n].off + 4 <= bin.size
    <2>1. bin.sh[n].off <= bin.shoff
      BY <1>2 DEF Linked
    <2> QED
      BY <1>5, <2>1, BinaryTypes, SectionTypes
  <1> QED
    BY <1>1, <1>3, <1>4, <1>6, <1>7

LEMMA ReadsFar ==
  ASSUME NEW to \in Nat, to <= bin.size, reach \in Nat, reach <= bin.size, Reads(to)
  PROVE  reach' \in Nat /\ reach' <= bin.size
  BY DEF Reads, Larger

\* Once the header has passed, nothing was read past the end.
LEMMA PassedReach ==
  ASSUME IInv, Passed
  PROVE  reach \in Nat /\ reach <= bin.size
  BY InsideFile DEF IInv, TypeOK, ReadsInsideFile

LEMMA ReachStaysInside ==
  ASSUME bin \in Binaries, bin' = bin, reach' \in Nat, reach' <= bin.size
  PROVE  ReadsInsideFile'
  BY BinaryTypes DEF ReadsInsideFile, Larger, Ehdr

\* Steps that read nothing and leave the loops alone.
LEMMA InitEstablishes == Init => IInv
  <1> SUFFICES ASSUME Init PROVE IInv
    OBVIOUS
  <1>1. bin.size \in Nat
    BY BinaryTypes DEF Init
  <1>2. TypeOK
    BY DEF Init, TypeOK, NoArea
  <1>3. ReadsInsideFile
    BY <1>1 DEF Init, ReadsInsideFile, Larger, Ehdr
  <1>4. ChecksDone /\ ChunksSoFar /\ SectionsSoFar /\ NothingFound /\ BeforeChunks
    BY <1>1 DEF Init, ChecksDone, ChunksSoFar, SectionsSoFar, NothingFound, BeforeChunks, Succeeded, Work
  <1> QED
    BY <1>2, <1>3, <1>4 DEF IInv

\* The steps up to the check of the header.
LEMMA LoadInitKeeps == IInv /\ LoadInit => IInv'
  <1> SUFFICES ASSUME IInv, LoadInit PROVE IInv'
    OBVIOUS
  <1>1. pc = "init" /\ pc' \in {"ident", "crash"} /\ (pc' = "crash" => "elf" \in Faults)
        /\ UNCHANGED <<bin, i, chunks, found, area, comm, ret, reach>> /\ elf' \in {elf, {"elf"}}
    BY DEF LoadInit, Goto
  <1>2. TypeOK'
    BY <1>1 DEF IInv, TypeOK
  <1>3. ReadsInsideFile' /\ ChunksSoFar' /\ SectionsSoFar' /\ NothingFound' /\ BeforeChunks'
    BY <1>1 DEF IInv, ReadsInsideFile, ChunksSoFar, SectionsSoFar, NothingFound, BeforeChunks, Succeeded
  <1>4. ChecksDone'
    BY <1>1 DEF IInv, ChecksDone, Succeeded, Work
  <1> QED
    BY <1>2, <1>3, <1>4 DEF IInv

\* The header is the only thing read without asking for the size.
LEMMA ReadsHeader ==
  ASSUME bin \in Binaries, NEW to \in Nat, to <= Ehdr(bin.class), reach \in Nat,
         reach <= Larger(bin.size, Ehdr(bin.class)), Reads(to)
  PROVE  reach' \in Nat /\ reach' <= Larger(bin.size, Ehdr(bin.class))
  BY BinaryTypes DEF Reads, Larger, Ehdr

LEMMA GetClassKeeps == IInv /\ GetClass => IInv'
  <1> SUFFICES ASSUME IInv, GetClass PROVE IInv'
    OBVIOUS
  <1>1. /\ pc = "ident" /\ pc' \in {"header", "done"} /\ (pc' = "header" => bin.class \in {32, 64})
        /\ ret' = (IF pc' = "done" THEN "CL_INVALID_BINARY" ELSE ret)
        /\ UNCHANGED <<bin, i, elf, chunks, found, area, comm>>
    BY DEF GetClass, Goto, Return
  <1>2. reach' \in Nat /\ reach' <= Larger(bin.size, Ehdr(bin.class))
    BY ReadsHeader DEF IInv, TypeOK, ReadsInsideFile, GetClass, Ehdr
  <1>3. chunks' = <<>> /\ ret' # "CL_SUCCESS"
    BY <1>1 DEF IInv, BeforeChunks, ChecksDone
  <1>4. TypeOK'
    BY <1>1, <1>2 DEF IInv, TypeOK
  <1>5. ReadsInsideFile'
    BY <1>1, <1>2, <1>3 DEF ReadsInsideFile
  <1> QED
    BY <1>1, <1>3, <1>4, <1>5 DEF IInv, ChecksDone, ChunksSoFar, SectionsSoFar, NothingFound, BeforeChunks, Succeeded, Work

LEMMA ReadElfKeeps == IInv /\ ReadElf => IInv'
  <1> SUFFICES ASSUME IInv, ReadElf PROVE IInv'
    OBVIOUS
  <1>1. /\ pc = "header" /\ pc' \in {"check", "done"}
        /\ ret' = (IF pc' = "done" THEN "CL_INVALID_BINARY" ELSE ret)
        /\ UNCHANGED <<bin, i, elf, chunks, found, area, comm>>
    BY DEF ReadElf, Goto, Return
  <1>2. bin.phent \in Nat /\ bin.shent \in Nat /\ Phdr(bin.class) \in Nat /\ Shdr(bin.class) \in Nat
    BY BinaryTypes DEF IInv, TypeOK, Phdr, Shdr
  <1>3. PassedHeader' <=> PassedHeader
    BY <1>1 DEF PassedHeader, Phdr, Shdr
  <1>4. pc' = "check" => PassedHeader
    BY <1>2 DEF IInv, ReadElf, ChecksDone, PassedHeader, Goto, Return
  <1>5. reach' \in Nat /\ reach' <= Larger(bin.size, Ehdr(bin.class))
    BY ReadsHeader DEF IInv, TypeOK, ReadsInsideFile, ReadElf, Ehdr
  <1>6. chunks' = <<>> /\ ret' # "CL_SUCCESS"
    BY <1>1 DEF IInv, BeforeChunks, ChecksDone
  <1>7. TypeOK'
    BY <1>1, <1>5 DEF IInv, TypeOK
  <1>8. ReadsInsideFile'
    BY <1>1, <1>5, <1>6 DEF ReadsInsideFile
  <1> QED
    BY <1>1, <1>3, <1>4, <1>6, <1>7, <1>8 DEF IInv, ChecksDone, ChunksSoFar, SectionsSoFar, NothingFound, BeforeChunks, Succeeded, Work

LEMMA CheckHeaderKeeps == IInv /\ CheckHeader => IInv'
  <1> SUFFICES ASSUME IInv, CheckHeader PROVE IInv'
    OBVIOUS
  <1>1. Passed' <=> Passed
    BY DEF CheckHeader, Passed, ValidHeader, Phdr, Shdr
  <1>2. pc' = "phs" => Passed
    BY DEF IInv, CheckHeader, ChecksDone, PassedHeader, Passed, Goto, Return
  <1>3. TypeOK' /\ ReadsInsideFile' /\ ChunksSoFar' /\ SectionsSoFar' /\ NothingFound' /\ BeforeChunks'
    BY DEF IInv, CheckHeader, Goto, Return, TypeOK, ReadsInsideFile, ChunksSoFar, SectionsSoFar, NothingFound, BeforeChunks, Succeeded
  <1>4. ChecksDone'
    BY <1>1, <1>2 DEF IInv, CheckHeader, Goto, Return, ChecksDone, Succeeded, Work
  <1> QED
    BY <1>3, <1>4 DEF IInv

LEMMA PassedStays == ASSUME UNCHANGED bin PROVE Passed' <=> Passed
  BY DEF Passed, ValidHeader, Phdr, Shdr

\* prg_elf_read_ph.
LEMMA ReadPhKeeps == IInv /\ ReadPh => IInv'
  <1> SUFFICES ASSUME IInv, ReadPh PROVE IInv'
    OBVIOUS
  <1>1. Passed /\ Passed' /\ bin \in Binaries /\ bin' = bin /\ pc = "phs"
    BY PassedStays DEF IInv, TypeOK, ChecksDone, ReadPh, Work
  <1>2. reach' \in Nat /\ reach' <= bin.size
    <2>1. bin.phoff + Len(bin.ph) * bin.phent \in Nat
          /\ bin.phoff + Len(bin.ph) * bin.phent <= bin.size
      BY <1>1, InsideFile, BinaryTypes
    <2>2. CASE UNCHANGED reach
      BY <1>1, <2>2, PassedReach
    <2>3. CASE Reads(bin.phoff + Len(bin.ph) * bin.phent)
      BY <1>1, <2>1, <2>3, PassedReach, ReadsFar
    <2> QED
      BY <2>2, <2>3 DEF ReadPh
  <1>3. \/ /\ elf' = elf \cup {"phs"} /\ chunks' = [n \in DOMAIN bin.ph |-> NoChunk]
           /\ i' = 1 /\ pc' = "chunks" /\ ret' = ret
        \/ /\ chunks' = chunks /\ i' = i /\ pc' = "done" /\ ret' = "CL_OUT_OF_HOST_MEMORY"
           /\ elf' \in {elf, elf \cup {"phs"}}
    BY DEF ReadPh, Goto, Return
  <1>4. UNCHANGED <<found, area, comm>>
    BY DEF ReadPh
  <1>5. CASE chunks' = [n \in DOMAIN bin.ph |-> NoChunk] /\ i' = 1 /\ pc' = "chunks" /\ ret' = ret
    <2>1. chunks' \in Seq(ChunkRecords) /\ Len(chunks') = Len(bin.ph)
          /\ \A n \in DOMAIN bin.ph : chunks'[n] = NoChunk
      <3>1. NoChunk \in ChunkRecords
        BY DEF NoChunk, ChunkRecords
      <3>2. DOMAIN bin.ph = 1 .. Len(bin.ph) /\ Len(bin.ph) \in Nat
        BY <1>1, BinaryTypes
      <3> QED
        BY <1>5, <3>1, <3>2
    <2>2. TypeOK'
      BY <1>1, <1>2, <1>3, <1>4, <1>5, <2>1 DEF IInv, TypeOK, ChunkRecords
    <2>3. ChunksSoFar'
      <3>1. \A n \in DOMAIN bin.ph : ~(n < 1)
        BY <1>1, BinaryTypes
      <3> QED
        BY <1>1, <1>5, <2>1, <3>1 DEF ChunksSoFar, Succeeded
    <2>4. ReadsInsideFile'
      BY <1>1, <1>2, ReachStaysInside
    <2> QED
      BY <1>1, <1>2, <1>4, <1>5, <2>2, <2>3, <2>4 DEF IInv, ChecksDone, SectionsSoFar, NothingFound, BeforeChunks, Succeeded, Work
  <1>6. CASE chunks' = chunks /\ i' = i /\ pc' = "done" /\ ret' = "CL_OUT_OF_HOST_MEMORY"
             /\ elf' \in {elf, elf \cup {"phs"}}
    <2>1. TypeOK'
      BY <1>1, <1>2, <1>4, <1>6 DEF IInv, TypeOK
    <2>2. ChecksDone'
      BY <1>6 DEF ChecksDone, Succeeded, Work
    <2>3. ReadsInsideFile'
      BY <1>1, <1>2, ReachStaysInside
    <2>4. ChunksSoFar' /\ SectionsSoFar' /\ NothingFound' /\ BeforeChunks'
      BY <1>1, <1>6 DEF ChunksSoFar, SectionsSoFar, NothingFound, BeforeChunks, Succeeded
    <2> QED
      BY <2>1, <2>2, <2>3, <2>4 DEF IInv
  <1> QED
    BY <1>3, <1>5, <1>6

LEMMA SetChunkKeeps == IInv /\ SetChunk => IInv'
  <1> SUFFICES ASSUME IInv, SetChunk PROVE IInv'
    OBVIOUS
  <1>1. Passed /\ Passed' /\ bin \in Binaries /\ bin' = bin /\ pc = "chunks" /\ pc' = pc
    BY PassedStays DEF IInv, TypeOK, ChecksDone, SetChunk, Work
  <1>2. i \in DOMAIN bin.ph /\ i \in Nat /\ i' = i + 1 /\ UNCHANGED <<elf, found, area, comm, ret>>
    BY DEF IInv, TypeOK, SetChunk
  <1>3. /\ chunks \in Seq(ChunkRecords) /\ Len(chunks) = Len(bin.ph)
        /\ \A n \in DOMAIN bin.ph : chunks[n] = IF n < i THEN ChunkAt(n) ELSE NoChunk
    BY <1>1 DEF IInv, ChunksSoFar
  <1>4. DOMAIN bin.ph = 1 .. Len(bin.ph) /\ Len(bin.ph) \in Nat
    BY <1>1, BinaryTypes
  <1>5. Chunk(bin.ph[i]) \in ChunkRecords
    BY <1>1, <1>2, SegmentTypes DEF Chunk, ChunkRecords
  <1>6. /\ chunks' \in Seq(ChunkRecords) /\ Len(chunks') = Len(bin.ph)
        /\ chunks'[i] = ChunkAt(i)
        /\ \A n \in DOMAIN bin.ph : n # i => chunks'[n] = chunks[n]
    <2>1. CASE Loadable(bin.ph[i])
      <3>1. chunks' = [chunks EXCEPT ![i] = Chunk(bin.ph[i])]
        BY <2>1 DEF SetChunk
      <3> QED
        BY <1>2, <1>3, <1>4, <1>5, <2>1, <3>1 DEF ChunkAt
    <2>2. CASE ~Loadable(bin.ph[i])
      <3>1. chunks' = chunks
        BY <2>2 DEF SetChunk
      <3>2. chunks[i] = NoChunk
        BY <1>2, <1>3
      <3> QED
        BY <1>3, <2>2, <3>1, <3>2 DEF ChunkAt
    <2> QED
      BY <2>1, <2>2
  <1>7. chunks'[i].off + chunks'[i].size \in Nat /\ chunks'[i].off + chunks'[i].size <= bin.size
    <2>1. CASE Loadable(bin.ph[i])
      <3>1. chunks'[i].off = bin.ph[i].off /\ chunks'[i].size = bin.ph[i].filesz
        BY <1>6, <2>1 DEF ChunkAt, Chunk
      <3> QED
        BY <1>1, <1>2, <3>1, InsideFile, SegmentTypes
    <2>2. CASE ~Loadable(bin.ph[i])
      <3>1. chunks'[i].off = 0 /\ chunks'[i].size = 0
        BY <1>6, <2>2 DEF ChunkAt, NoChunk
      <3> QED
        BY <1>1, <3>1, BinaryTypes
    <2> QED
      BY <2>1, <2>2
  <1>8. reach' \in Nat /\ reach' <= bin.size
    BY <1>1, <1>7, PassedReach, ReadsFar DEF SetChunk
  <1>9. TypeOK'
    <2>1. chunks' \in Seq([paddr : Nat, off : Nat, size : Nat, readonly : BOOLEAN])
          /\ Len(chunks') = Len(bin'.ph)
      BY <1>1, <1>6 DEF ChunkRecords
    <2>2. i' \in Nat /\ bin' \in Binaries
      BY <1>1, <1>2
    <2> QED
      BY <1>1, <1>2, <1>8, <2>1, <2>2, Zenon DEF IInv, TypeOK
  <1>10. ChunksSoFar'
    <2>1. \A n \in DOMAIN bin.ph : ChunkAt(n)' = ChunkAt(n)
      BY <1>1 DEF ChunkAt, Chunk, Loadable
    <2>2. \A n \in DOMAIN bin.ph : chunks'[n] = IF n < i + 1 THEN ChunkAt(n) ELSE NoChunk
      BY <1>2, <1>3, <1>4, <1>6
    <2> QED
      BY <1>1, <1>2, <1>6, <2>1, <2>2 DEF ChunksSoFar, Succeeded
  <1>11. ReadsInsideFile'
    BY <1>1, <1>8, ReachStaysInside
  <1> QED
    BY <1>1, <1>2, <1>9, <1>10, <1>11 DEF IInv, ChecksDone, SectionsSoFar, NothingFound, BeforeChunks, Succeeded, Work

LEMMA ChunksSetKeeps == IInv /\ ChunksSet => IInv'
  <1> SUFFICES ASSUME IInv, ChunksSet PROVE IInv'
    OBVIOUS
  <1>1. Passed /\ Passed' /\ bin \in Binaries /\ bin' = bin /\ pc = "chunks" /\ pc' = "shs"
        /\ UNCHANGED <<i, elf, chunks, found, area, comm, ret, reach>>
    BY PassedStays DEF IInv, TypeOK, ChecksDone, ChunksSet, Work, Goto
  <1>2. \A n \in DOMAIN bin.ph : n < i
    <2>1. i >= 1 /\ i \in Nat /\ i \notin DOMAIN bin.ph
      BY <1>1 DEF IInv, ChunksSoFar, TypeOK, ChunksSet
    <2>2. DOMAIN bin.ph = 1 .. Len(bin.ph) /\ Len(bin.ph) \in Nat
      BY <1>1, BinaryTypes
    <2> QED
      BY <2>1, <2>2
  <1>3. ChunksSoFar'
    <2>1. \A n \in DOMAIN bin.ph : ChunkAt(n)' = ChunkAt(n)
      BY <1>1 DEF ChunkAt, Chunk, Loadable
    <2> QED
      BY <1>1, <1>2, <2>1 DEF IInv, ChunksSoFar, Succeeded
  <1> QED
    BY <1>1, <1>3 DEF IInv, TypeOK, ChecksDone, ReadsInsideFile, SectionsSoFar, NothingFound, BeforeChunks, Succeeded, Work

\* prg_elf_read_shs.
LEMMA ReadShsKeeps == IInv /\ ReadShs => IInv'
  <1> SUFFICES ASSUME IInv, ReadShs PROVE IInv'
    OBVIOUS
  <1>1. Passed /\ Passed' /\ bin \in Binaries /\ bin' = bin /\ pc = "shs"
        /\ UNCHANGED <<chunks, found, area, comm>>
    BY PassedStays DEF IInv, TypeOK, ChecksDone, ReadShs, Work
  <1>2. reach' \in Nat /\ reach' <= bin.size
    <2>1. bin.shoff + Len(bin.sh) * bin.shent \in Nat
          /\ bin.shoff + Len(bin.sh) * bin.shent <= bin.size
      BY <1>1, InsideFile, BinaryTypes
    <2>2. CASE UNCHANGED reach
      BY <1>1, <2>2, PassedReach
    <2>3. CASE Reads(bin.shoff + Len(bin.sh) * bin.shent)
      BY <1>1, <2>1, <2>3, PassedReach, ReadsFar
    <2> QED
      BY <2>2, <2>3 DEF ReadShs
  <1>3. \/ elf' = elf \cup {"shs"} /\ i' = 1 /\ pc' = "secs" /\ ret' = ret
        \/ elf' = elf /\ i' = i /\ pc' = "done" /\ ret' = "CL_OUT_OF_HOST_MEMORY"
    BY DEF ReadShs, Goto, Return
  <1>4. TypeOK' /\ ChecksDone' /\ ReadsInsideFile'
    <2>1. TypeOK'
      <3>1. i' \in Nat /\ elf' \subseteq {"elf", "phs", "shs"}
        <4>1. i \in Nat /\ elf \subseteq {"elf", "phs", "shs"}
          BY DEF IInv, TypeOK
        <4>2. i' \in {i, 1} /\ elf' \in {elf, elf \cup {"shs"}}
          BY <1>3
        <4> QED
          BY <4>1, <4>2
      <3>2. pc' \in {"secs", "done"} /\ ret' \in {ret, "CL_OUT_OF_HOST_MEMORY"}
        BY <1>3
      <3> QED
        BY <1>1, <1>2, <3>1, <3>2 DEF IInv, TypeOK
    <2>2. ChecksDone'
      <3>1. ret = "none"
        BY <1>1 DEF IInv, ChecksDone
      <3>2. \/ pc' = "secs" /\ ret' = ret
            \/ pc' = "done" /\ ret' = "CL_OUT_OF_HOST_MEMORY"
        BY <1>3
      <3> QED
        BY <1>1, <3>1, <3>2 DEF ChecksDone, Succeeded, Work
    <2>3. ReadsInsideFile'
      BY <1>1, <1>2, ReachStaysInside
    <2> QED
      BY <2>1, <2>2, <2>3
  <1>5. ChunksSoFar'
    <2>1. \A n \in DOMAIN bin.ph : ChunkAt(n)' = ChunkAt(n)
      BY <1>1 DEF ChunkAt, Chunk, Loadable
    <2> QED
      BY <1>1, <1>3, <2>1 DEF IInv, ChunksSoFar, Succeeded
  <1>6. SectionsSoFar'
    <2>1. CASE pc' = "secs"
      <3>1. i' = 1 /\ found' = found
        BY <1>1, <1>3, <2>1
      <3>2. found = {}
        BY <1>1 DEF IInv, NothingFound
      <3>3. DOMAIN bin.sh = 1 .. Len(bin.sh) /\ Len(bin.sh) \in Nat
        BY <1>1, BinaryTypes
      <3> QED
        BY <1>1, <3>1, <3>2, <3>3 DEF SectionsSoFar
    <2> QED
      BY <2>1 DEF SectionsSoFar
  <1>7. NothingFound' /\ BeforeChunks'
    BY <1>3 DEF NothingFound, BeforeChunks
  <1> QED
    BY <1>4, <1>5, <1>6, <1>7 DEF IInv

LEMMA SearchSectionKeeps == IInv /\ SearchSection => IInv'
  <1> SUFFICES ASSUME IInv, SearchSection PROVE IInv'
    OBVIOUS
  <1> DEFINE s == bin.sh[i]
  <1>1. Passed /\ Passed' /\ bin \in Binaries /\ bin' = bin /\ pc = "secs" /\ pc' = pc
        /\ UNCHANGED <<elf, chunks, comm, ret>>
    BY PassedStays DEF IInv, TypeOK, ChecksDone, SearchSection, Work
  <1>2. i \in DOMAIN bin.sh /\ i \in Nat /\ i' = i + 1
    BY DEF IInv, TypeOK, SearchSection
  <1>3. /\ found' = IF Accepts(s) THEN found \cup {s.name} ELSE found
        /\ area' = IF s.name = ".comm_area" THEN [addr |-> s.addr, size |-> s.len] ELSE area
        /\ Reads(IF s.name = ".comm" THEN s.off + 4 ELSE 0)
    BY DEF SearchSection
  <1>4. s.name \in {".comm", ".comm_area", "other"} /\ s.off \in Nat /\ s.addr \in Nat /\ s.len \in Nat
    BY <1>1, <1>2, SectionTypes
  <1>5. reach' \in Nat /\ reach' <= bin.size
    <2>1. s.off + 4 \in Nat /\ s.off + 4 <= bin.size /\ 0 <= bin.size
      <3>1. bin.sh[i].off + 4 <= bin.size
        BY <1>1, <1>2, InsideFile
      <3>2. bin.size \in Nat
        BY <1>1, BinaryTypes
      <3>3. s.off + 4 <= bin.size
        BY <3>1
      <3> HIDE DEF s
      <3> QED
        BY <1>4, <3>2, <3>3
    <2>2. (IF s.name = ".comm" THEN s.off + 4 ELSE 0) \in Nat
          /\ (IF s.name = ".comm" THEN s.off + 4 ELSE 0) <= bin.size
      BY <2>1
    <2> HIDE DEF s
    <2> QED
      BY <1>1, <1>3, <2>2, PassedReach, ReadsFar
  <1>6. found' \subseteq {".comm", ".comm_area"} /\ area' \in [addr : Nat, size : Nat]
    <2> HIDE DEF s
    <2> QED
      BY <1>3, <1>4 DEF IInv, TypeOK, Accepts
  <1>9. ReadsInsideFile'
    BY <1>1, <1>5, ReachStaysInside
  <1>7. TypeOK' /\ ChecksDone' /\ ReadsInsideFile' /\ NothingFound' /\ BeforeChunks'
    BY <1>1, <1>2, <1>5, <1>6, <1>9
    DEF IInv, TypeOK, ChecksDone, NothingFound, BeforeChunks, Succeeded, Work
  <1>8. ChunksSoFar'
    <2>1. \A n \in DOMAIN bin.ph : ChunkAt(n)' = ChunkAt(n)
      BY <1>1 DEF ChunkAt, Chunk, Loadable
    <2> QED
      BY <1>1, <2>1 DEF IInv, ChunksSoFar, Succeeded
  <1>10. SectionsSoFar'
    <2>1. DOMAIN bin.sh = 1 .. Len(bin.sh) /\ Len(bin.sh) \in Nat
      BY <1>1, BinaryTypes
    <2>2. \A m \in DOMAIN bin.sh : m < i + 1 <=> m < i \/ m = i
      BY <1>2, <2>1
    <2>3. /\ i >= 1 /\ i <= Len(bin.sh) + 1
          /\ ".comm" \in found <=> \E m \in DOMAIN bin.sh : m < i /\ bin.sh[m].name = ".comm" /\ bin.sh[m].magic
          /\ ".comm_area" \in found <=> \E m \in DOMAIN bin.sh : m < i /\ bin.sh[m].name = ".comm_area"
          /\ ".comm_area" \in found =>
                \E n \in DOMAIN bin.sh :
                  LastBefore(n, i) /\ area = [addr |-> bin.sh[n].addr, size |-> bin.sh[n].len]
      BY <1>1 DEF IInv, SectionsSoFar
    <2>4. ".comm" \in found' <=> \E m \in DOMAIN bin.sh : m < i + 1 /\ bin.sh[m].name = ".comm" /\ bin.sh[m].magic
      BY <1>2, <1>3, <1>4, <2>2, <2>3 DEF Accepts
    <2>5. ".comm_area" \in found' <=> \E m \in DOMAIN bin.sh : m < i + 1 /\ bin.sh[m].name = ".comm_area"
      BY <1>2, <1>3, <1>4, <2>2, <2>3 DEF Accepts
    <2>6. ASSUME ".comm_area" \in found'
          PROVE  \E n \in DOMAIN bin.sh :
                   LastBefore(n, i + 1) /\ area' = [addr |-> bin.sh[n].addr, size |-> bin.sh[n].len]
      <3>1. CASE s.name = ".comm_area"
        <4>1. LastBefore(i, i + 1)
          BY <1>2, <2>1, <3>1 DEF LastBefore
        <4> QED
          BY <1>2, <1>3, <3>1, <4>1
      <3>2. CASE s.name # ".comm_area"
        <4>1. ".comm_area" \in found /\ area' = area
          BY <1>3, <1>4, <2>6, <3>2
        <4>2. PICK n \in DOMAIN bin.sh :
                LastBefore(n, i) /\ area = [addr |-> bin.sh[n].addr, size |-> bin.sh[n].len]
          BY <2>3, <4>1
        <4>3. LastBefore(n, i + 1)
          BY <1>2, <2>1, <2>2, <3>2, <4>2 DEF LastBefore
        <4> QED
          BY <4>1, <4>2, <4>3
      <3> QED
        BY <3>1, <3>2
    <2>7. i' >= 1 /\ i' <= Len(bin.sh) + 1
      BY <1>2, <2>1
    <2>8. \A n : LastBefore(n, i + 1) <=> LastBefore(n, i)'
      BY <1>1, <1>2 DEF LastBefore
    <2> QED
      BY <1>1, <1>2, <2>4, <2>5, <2>6, <2>7, <2>8 DEF SectionsSoFar
  <1> QED
    BY <1>7, <1>8, <1>10 DEF IInv

LEMMA SectionsSearchedKeeps == IInv /\ SectionsSearched => IInv'
  <1> SUFFICES ASSUME IInv, SectionsSearched PROVE IInv'
    OBVIOUS
  <1>1. Passed /\ Passed' /\ bin' = bin /\ pc = "secs" /\ pc' = "done" /\ comm' \in {comm, area}
        /\ ret' \in {"CL_SUCCESS", "CL_INVALID_BINARY"} /\ UNCHANGED <<i, elf, chunks, found, area, reach>>
    BY PassedStays DEF IInv, ChecksDone, SectionsSearched, Return, Work
  <1>2. ChunksSoFar'
    <2>1. \A n \in DOMAIN bin.ph : ChunkAt(n)' = ChunkAt(n)
      BY <1>1 DEF ChunkAt, Chunk, Loadable
    <2> QED
      BY <1>1, <2>1 DEF IInv, ChunksSoFar, Succeeded
  <1>3. ReadsInsideFile'
    BY <1>1, PassedReach, ReachStaysInside DEF IInv, TypeOK
  <1> QED
    BY <1>1, <1>2, <1>3 DEF IInv, TypeOK, ChecksDone, SectionsSoFar, NothingFound, BeforeChunks, Succeeded, Work

LEMMA UnloadKeeps == IInv /\ Unload => IInv'
  <1> SUFFICES ASSUME IInv, Unload PROVE IInv'
    OBVIOUS
  <1>1. pc = "done" /\ elf' = {} /\ UNCHANGED <<bin, pc, i, chunks, found, area, comm, ret, reach>>
    BY DEF Unload
  <1>2. Passed' <=> Passed
    BY <1>1, PassedStays
  <1>3. ChunksSoFar'
    <2>1. \A n \in DOMAIN bin.ph : ChunkAt(n)' = ChunkAt(n)
      BY <1>1 DEF ChunkAt, Chunk, Loadable
    <2> QED
      BY <1>1, <2>1 DEF IInv, ChunksSoFar, Succeeded
  <1> QED
    BY <1>1, <1>2, <1>3
    DEF IInv, TypeOK, ChecksDone, ReadsInsideFile, SectionsSoFar, NothingFound, BeforeChunks, Succeeded, Work
--------------------------------------------------------------------------

\* The type invariant, for any binaries and any allocations that may fail;
\* the invariant every step above keeps comes first.
THEOREM Inductive == Spec => []IInv
  <1>1. IInv /\ [Next]_vars => IInv'
    <2> SUFFICES ASSUME IInv, [Next]_vars PROVE IInv'
      OBVIOUS
    <2>1. CASE UNCHANGED vars
      <3>1. UNCHANGED <<bin, pc, i, elf, chunks, found, area, comm, ret, reach>>
        BY <2>1 DEF vars
      <3>2. Passed' <=> Passed
        BY <3>1, PassedStays
      <3>3. ChunksSoFar'
        <4>1. \A n \in DOMAIN bin.ph : ChunkAt(n)' = ChunkAt(n)
          BY <3>1 DEF ChunkAt, Chunk, Loadable
        <4> QED
          BY <3>1, <4>1 DEF IInv, ChunksSoFar, Succeeded
      <3>4. ChecksDone'
        <4>1. PassedHeader' <=> PassedHeader
          BY <3>1 DEF PassedHeader, Phdr, Shdr
        <4> QED
          BY <3>1, <3>2, <4>1 DEF IInv, ChecksDone, Succeeded, Work
      <3>5. SectionsSoFar'
        <4>1. \A n : LastBefore(n, i)' <=> LastBefore(n, i)
          BY <3>1 DEF LastBefore
        <4> QED
          BY <3>1, <4>1 DEF IInv, SectionsSoFar
      <3>6. TypeOK' /\ ReadsInsideFile' /\ NothingFound' /\ BeforeChunks'
        BY <3>1 DEF IInv, TypeOK, ReadsInsideFile, NothingFound, BeforeChunks
      <3> QED
        BY <3>3, <3>4, <3>5, <3>6 DEF IInv
    <2>2. CASE Next
      BY <2>2, LoadInitKeeps, GetClassKeeps, ReadElfKeeps, CheckHeaderKeeps, ReadPhKeeps,
         SetChunkKeeps, ChunksSetKeeps, ReadShsKeeps, SearchSectionKeeps, SectionsSearchedKeeps,
         UnloadKeeps DEF Next, Load
    <2> QED
      BY <2>1, <2>2
  <1> QED
    BY <1>1, InitEstablishes, PTL DEF Spec

\* prg_elf_load keeps its data of the shape the code declares, and has as
\* many chunks as the binary has program headers.
THEOREM TypeCorrect == Spec => []TypeOK
  <1>1. IInv => TypeOK
    BY DEF IInv
  <1> QED
    BY <1>1, Inductive, PTL

\* No file, whole or cut short at any byte, makes prg_elf_load read past its
\* end or give a chunk that reaches past it, but for the read of the ELF header,
\* whose size nobody asks for; and a file shorter than its header never loads,
\* whatever lies behind its end.
THEOREM NeverPastTheEnd == Spec => []ReadsInsideFile
  <1>1. IInv => ReadsInsideFile
    BY DEF IInv
  <1> QED
    BY <1>1, Inductive, PTL

--------------------------------------------------------------------------
(* ElfLoad implements ProgramLoad.                                         *)

Answer   == IF pc = "crash" THEN "crash" ELSE ret
Image    == IF Succeeded THEN ChunkImage(chunks) ELSE {}
CommSet  == IF Succeeded THEN {<<comm.addr, comm.size>>} ELSE {}
Promised == <<bin, Answer, Image, CommSet>>

\* The checks refuse no binary that is good.
LEMMA GoodPasses == ASSUME bin \in Binaries, Good(bin) PROVE Passed
  <1>4. Linked(bin)
    BY ElfAssumption, BinaryTypes DEF Good, CutInHeader
  <1>1. bin.shoff + Len(bin.sh) * bin.shent <= bin.size
    BY <1>4, BinaryTypes DEF Good, Linked
  <1>2. bin.phoff + Len(bin.ph) * bin.phent <= bin.size
    <2>1. bin.phoff + Len(bin.ph) * bin.phent <= bin.shoff
      BY <1>4 DEF Linked
    <2>2. Len(bin.sh) * bin.shent \in Nat
      <3>1. \A n, k \in Nat : n * k \in Nat
        OBVIOUS
      <3> QED
        BY <3>1, BinaryTypes
    <2> DEFINE p == Len(bin.ph) * bin.phent
               q == Len(bin.sh) * bin.shent
    <2>3. p + bin.phoff = bin.phoff + p /\ bin.phoff + p \in Nat /\ bin.shoff \in Nat
          /\ bin.size \in Nat /\ bin.phoff + p <= bin.shoff /\ bin.shoff + q <= bin.size /\ q \in Nat
      BY <1>1, <2>1, <2>2, BinaryTypes
    <2> HIDE DEF p, q
    <2>4. bin.phoff + p <= bin.size
      BY <2>3
    <2> QED
      BY <2>4 DEF p
  <1>3. bin.class \in {32, 64}
    BY BinaryTypes DEF Good
  <1> QED
    BY <1>1, <1>2, <1>3 DEF Good, Passed, ValidHeader

\* They and the search for the sections let no other pass.
LEMMA PassedIsGood ==
  ASSUME bin \in Binaries, Passed,
         \E m \in DOMAIN bin.sh : bin.sh[m].name = ".comm" /\ bin.sh[m].magic,
         \E m \in DOMAIN bin.sh : bin.sh[m].name = ".comm_area"
  PROVE  Good(bin)
  <1>1. bin.size = bin.full
    BY InsideFile
  <1> QED
    BY <1>1 DEF Good, Passed, ValidHeader

\* The chunks stand for the loaded segments, none of which hides another.
LEMMA SameImage ==
  ASSUME bin \in Binaries, chunks \in Seq(ChunkRecords), Len(chunks) = Len(bin.ph),
         \A n \in DOMAIN bin.ph : chunks[n] = ChunkAt(n)
  PROVE  ChunkImage(chunks) = ImageOf(bin)
  <1>1. DOMAIN chunks = 1 .. Len(bin.ph) /\ DOMAIN bin.ph = 1 .. Len(bin.ph) /\ Len(bin.ph) \in Nat
    BY BinaryTypes
  <1>2. ASSUME NEW n \in DOMAIN bin.ph
        PROVE  /\ ~bin.ph[n].load => Cells(chunks[n]) = {}
               /\ bin.ph[n].load =>
                    /\ Cells(chunks[n]) = bin.ph[n].paddr .. bin.ph[n].paddr + bin.ph[n].filesz - 1
                    /\ chunks[n].off = bin.ph[n].off /\ chunks[n].paddr = bin.ph[n].paddr
                    /\ (~chunks[n].readonly) = bin.ph[n].w
    <2>1. bin.ph[n].w \in BOOLEAN
      BY SegmentTypes
    <2>2. bin.ph[n].load => chunks[n] = Chunk(bin.ph[n])
      BY DEF ChunkAt, Loadable
    <2>3. ~bin.ph[n].load => chunks[n] = NoChunk
      BY DEF ChunkAt, Loadable
    <2>4. Cells(NoChunk) = {}
      BY DEF Cells, NoChunk
    <2>5. ASSUME bin.ph[n].load
          PROVE  /\ Cells(chunks[n]) = bin.ph[n].paddr .. bin.ph[n].paddr + bin.ph[n].filesz - 1
                 /\ chunks[n].off = bin.ph[n].off /\ chunks[n].paddr = bin.ph[n].paddr
      BY <2>2, <2>5 DEF Cells, Chunk
    <2>6. ASSUME bin.ph[n].load
          PROVE  (~chunks[n].readonly) = bin.ph[n].w
      <3>1. chunks[n].readonly = ~bin.ph[n].w
        BY <2>2, <2>6 DEF Chunk
      <3> QED
        BY <2>1, <3>1
    <2> QED
      BY <2>3, <2>4, <2>5, <2>6
  <1>3. ASSUME NEW n \in DOMAIN bin.ph
        PROVE  Cells(chunks[n]) \ UNION {Cells(chunks[m]) : m \in n + 1 .. Len(chunks)}
               = Cells(chunks[n])
    <2>1. ASSUME NEW m \in n + 1 .. Len(chunks), NEW a \in Cells(chunks[n])
          PROVE  a \notin Cells(chunks[m])
      <3>1. m \in DOMAIN bin.ph /\ m # n
        BY <1>1
      <3>2. CASE bin.ph[m].load /\ bin.ph[n].load
        <4>1. \/ bin.ph[m].paddr + bin.ph[m].filesz <= bin.ph[n].paddr
              \/ bin.ph[n].paddr + bin.ph[n].filesz <= bin.ph[m].paddr
          BY <3>1, <3>2, SegmentsApart
        <4>2. /\ Cells(chunks[n]) = bin.ph[n].paddr .. bin.ph[n].paddr + bin.ph[n].filesz - 1
              /\ Cells(chunks[m]) = bin.ph[m].paddr .. bin.ph[m].paddr + bin.ph[m].filesz - 1
          BY <1>2, <3>1, <3>2
        <4>3. /\ bin.ph[n].paddr \in Nat /\ bin.ph[n].filesz \in Nat
              /\ bin.ph[m].paddr \in Nat /\ bin.ph[m].filesz \in Nat
          BY <3>1, SegmentTypes
        <4> DEFINE pm == bin.ph[m].paddr  fm == bin.ph[m].filesz
                   pn == bin.ph[n].paddr  fn == bin.ph[n].filesz
        <4>4. /\ pm \in Nat /\ fm \in Nat /\ pn \in Nat /\ fn \in Nat /\ a \in pn .. pn + fn - 1
              /\ pm + fm <= pn \/ pn + fn <= pm
          BY <4>1, <4>2, <4>3
        <4>5. Cells(chunks[m]) = pm .. pm + fm - 1
          BY <4>2
        <4> HIDE DEF pm, fm, pn, fn
        <4> QED
          BY <4>4, <4>5
      <3>3. CASE ~(bin.ph[m].load /\ bin.ph[n].load)
        BY <1>2, <3>1, <3>3
      <3> QED
        BY <3>2, <3>3
    <2> QED
      BY <2>1
  <1> DEFINE C(n) == {<<a, chunks[n].off + a - chunks[n].paddr, ~chunks[n].readonly>> :
                        a \in Cells(chunks[n]) \ UNION {Cells(chunks[m]) : m \in n + 1 .. Len(chunks)}}
             P(n) == {<<bin.ph[n].paddr + x, bin.ph[n].off + x, bin.ph[n].w>> : x \in 0 .. bin.ph[n].filesz - 1}
  <1>4. ASSUME NEW n \in DOMAIN bin.ph, bin.ph[n].load
        PROVE  C(n) = P(n)
    <2> DEFINE s == bin.ph[n]
    <2>1. /\ s.paddr \in Nat /\ s.off \in Nat /\ s.filesz \in Nat
      BY SegmentTypes
    <2>2. C(n) = {<<a, s.off + a - s.paddr, s.w>> : a \in s.paddr .. s.paddr + s.filesz - 1}
      <3>1. Cells(chunks[n]) \ UNION {Cells(chunks[m]) : m \in n + 1 .. Len(chunks)}
            = s.paddr .. s.paddr + s.filesz - 1
        BY <1>2, <1>3, <1>4
      <3>2. chunks[n].off = s.off /\ chunks[n].paddr = s.paddr /\ (~chunks[n].readonly) = s.w
        BY <1>2, <1>4
      <3>3. \A a : <<a, chunks[n].off + a - chunks[n].paddr, ~chunks[n].readonly>> = <<a, s.off + a - s.paddr, s.w>>
        BY <3>2, Zenon
      <3> HIDE DEF s
      <3> QED
        BY <3>1, <3>3, Zenon
    <2> HIDE DEF s
    <2>3. ASSUME NEW a \in s.paddr .. s.paddr + s.filesz - 1
          PROVE  a - s.paddr \in 0 .. s.filesz - 1 /\ s.paddr + (a - s.paddr) = a
                 /\ s.off + a - s.paddr = s.off + (a - s.paddr)
      BY <2>1
    <2>4. ASSUME NEW x \in 0 .. s.filesz - 1
          PROVE  s.paddr + x \in s.paddr .. s.paddr + s.filesz - 1
                 /\ s.off + (s.paddr + x) - s.paddr = s.off + x
      BY <2>1
    <2>5. {<<a, s.off + a - s.paddr, s.w>> : a \in s.paddr .. s.paddr + s.filesz - 1}
          = {<<s.paddr + x, s.off + x, s.w>> : x \in 0 .. s.filesz - 1}
      <3> DEFINE A == {<<a, s.off + a - s.paddr, s.w>> : a \in s.paddr .. s.paddr + s.filesz - 1}
                 B == {<<s.paddr + x, s.off + x, s.w>> : x \in 0 .. s.filesz - 1}
      <3>1. ASSUME NEW a \in s.paddr .. s.paddr + s.filesz - 1
            PROVE  <<a, s.off + a - s.paddr, s.w>> \in B
        <4>1. <<s.paddr + (a - s.paddr), s.off + (a - s.paddr), s.w>> \in B
          BY <2>3, Zenon
        <4> QED
          BY <2>3, <4>1, Zenon
      <3>2. ASSUME NEW x \in 0 .. s.filesz - 1
            PROVE  <<s.paddr + x, s.off + x, s.w>> \in A
        <4>1. <<s.paddr + x, s.off + (s.paddr + x) - s.paddr, s.w>> \in A
          BY <2>4, Zenon
        <4> QED
          BY <2>4, <4>1, Zenon
      <3> QED
        BY <3>1, <3>2, Zenon
    <2> QED
      BY <2>2, <2>5 DEF s
  <1>5. ASSUME NEW n \in DOMAIN bin.ph, ~bin.ph[n].load
        PROVE  C(n) = {}
    BY <1>2, <1>3, <1>5
  <1>6. ChunkImage(chunks) = UNION {C(n) : n \in DOMAIN bin.ph}
    BY <1>1 DEF ChunkImage
  <1>7. ImageOf(bin) = UNION {P(n) : n \in {m \in DOMAIN bin.ph : bin.ph[m].load}}
    BY DEF ImageOf
  <1> HIDE DEF C, P
  <1>8. UNION {C(n) : n \in DOMAIN bin.ph} = UNION {P(n) : n \in {m \in DOMAIN bin.ph : bin.ph[m].load}}
    BY <1>4, <1>5
  <1> QED
    BY <1>6, <1>7, <1>8

\* The area that was found last is the one the binary means.
LEMMA SameComm ==
  ASSUME bin \in Binaries, NEW n \in DOMAIN bin.sh, LastBefore(n, Len(bin.sh) + 1)
  PROVE  CommOf(bin) = {<<bin.sh[n].addr, bin.sh[n].len>>}
  <1>1. DOMAIN bin.sh = 1 .. Len(bin.sh) /\ Len(bin.sh) \in Nat
    BY BinaryTypes
  <1> DEFINE Last(k) == /\ bin.sh[k].name = ".comm_area"
                        /\ \A m \in k + 1 .. Len(bin.sh) : bin.sh[m].name # ".comm_area"
  <1>2. Last(n)
    BY <1>1 DEF LastBefore
  <1>3. ASSUME NEW k \in DOMAIN bin.sh, Last(k) PROVE k = n
    BY <1>1, <1>2, <1>3
  <1>4. LastArea(bin) = n
    BY <1>2, <1>3 DEF LastArea
  <1> QED
    BY <1>4 DEF CommOf

\* A step that does not return is not seen.
LEMMA Quiet ==
  ASSUME pc \notin {"done", "crash"}, pc' \notin {"done", "crash"}, ret' = ret, bin' = bin
  PROVE  UNCHANGED Promised
  BY DEF Promised, Answer, Image, CommSet, Succeeded

\* One that returns an error is an answer without an image.
LEMMA Failing ==
  ASSUME pc \notin {"done", "crash"}, ret = "none", bin' = bin, pc' = "done",
         \/ ret' = "CL_OUT_OF_HOST_MEMORY"
         \/ ret' = "CL_INVALID_BINARY" /\ ~Good(bin)
  PROVE  Promise!Next
  BY DEF Promise!Next, Promise!Refuse, Promise!NoMemory, Succeeded

\* Every step is a step of ProgramLoad or changes nothing that it sees.
LEMMA StepImplements ==
  ASSUME IInv, [Next]_vars
  PROVE  Promise!Next \/ UNCHANGED Promised
  <1>1. bin \in Binaries /\ (pc # "done" => ret = "none")
    BY DEF IInv, TypeOK, ChecksDone
  <1>2. CASE UNCHANGED vars
    BY <1>2 DEF vars, Promised, Answer, Image, CommSet, Succeeded
  <1>3. CASE LoadInit
    <2>1. pc = "init" /\ bin' = bin /\ ret' = ret
      BY <1>3 DEF LoadInit, Goto
    <2>2. CASE pc' = "ident"
      BY <2>1, <2>2, Quiet
    <2>3. CASE pc' = "crash" /\ "elf" \in Faults
      <3>1. ~Succeeded /\ ~Succeeded'
        BY <2>1, <2>3 DEF Succeeded
      <3>2. Promise!Die
        BY <2>3, <3>1 DEF Promise!Die
      <3> QED
        BY <1>1, <2>1, <3>2 DEF Promise!Next
    <2> QED
      BY <1>3, <2>2, <2>3 DEF LoadInit, Goto
  <1>4. CASE GetClass
    <2>1. CASE bin.class \in {32, 64}
      BY <1>1, <1>4, <2>1, Quiet DEF GetClass, Goto
    <2>2. CASE bin.class \notin {32, 64}
      <3>1. ~Good(bin)
        BY <1>1, <2>2, BinaryTypes DEF Good
      <3> QED
        BY <1>1, <1>4, <2>2, <3>1, Failing DEF GetClass, Return
    <2> QED
      BY <2>1, <2>2
  <1>5. CASE ReadElf
    <2>1. CASE bin.phent < Phdr(bin.class) \/ bin.shent < Shdr(bin.class)
      <3>1. bin.phent \in Nat /\ bin.shent \in Nat /\ Phdr(bin.class) \in Nat /\ Shdr(bin.class) \in Nat
        BY <1>1, BinaryTypes DEF Phdr, Shdr
      <3>2. ~Good(bin)
        BY <2>1, <3>1 DEF Good
      <3> QED
        BY <1>1, <1>5, <2>1, <3>2, Failing DEF ReadElf, Return
    <2>2. CASE ~(bin.phent < Phdr(bin.class) \/ bin.shent < Shdr(bin.class))
      BY <1>1, <1>5, <2>2, Quiet DEF ReadElf, Goto
    <2> QED
      BY <2>1, <2>2
  <1>6. CASE CheckHeader
    <2>1. CASE ValidHeader
      BY <1>1, <1>6, <2>1, Quiet DEF CheckHeader, Goto
    <2>2. CASE ~ValidHeader
      <3>1. ~Good(bin)
        BY <1>1, <2>2, GoodPasses DEF Passed
      <3> QED
        BY <1>1, <1>6, <2>2, <3>1, Failing DEF CheckHeader, Return
    <2> QED
      BY <2>1, <2>2
  <1>7. CASE ReadPh
    <2>1. /\ pc = "phs" /\ bin' = bin
          /\ \/ pc' = "chunks" /\ ret' = ret
             \/ pc' = "done" /\ ret' = "CL_OUT_OF_HOST_MEMORY"
      BY <1>7 DEF ReadPh, Goto, Return
    <2>2. CASE pc' = "chunks" /\ ret' = ret
      BY <1>1, <2>1, <2>2, Quiet
    <2>3. CASE pc' = "done" /\ ret' = "CL_OUT_OF_HOST_MEMORY"
      BY <1>1, <2>1, <2>3, Failing
    <2> QED
      BY <2>1, <2>2, <2>3
  <1>8. CASE SetChunk
    BY <1>1, <1>8, Quiet DEF SetChunk
  <1>9. CASE ChunksSet
    BY <1>1, <1>9, Quiet DEF ChunksSet, Goto
  <1>10. CASE ReadShs
    <2>1. /\ pc = "shs" /\ bin' = bin
          /\ \/ pc' = "secs" /\ ret' = ret
             \/ pc' = "done" /\ ret' = "CL_OUT_OF_HOST_MEMORY"
      BY <1>10 DEF ReadShs, Goto, Return
    <2>2. CASE pc' = "secs" /\ ret' = ret
      BY <1>1, <2>1, <2>2, Quiet
    <2>3. CASE pc' = "done" /\ ret' = "CL_OUT_OF_HOST_MEMORY"
      BY <1>1, <2>1, <2>3, Failing
    <2> QED
      BY <2>1, <2>2, <2>3
  <1>11. CASE SearchSection
    BY <1>1, <1>11, Quiet DEF SearchSection
  <1>12. CASE SectionsSearched
    <2>1. /\ pc = "secs" /\ pc' = "done" /\ bin' = bin /\ chunks' = chunks
          /\ i \notin DOMAIN bin.sh /\ i \in Nat /\ found \subseteq {".comm", ".comm_area"}
          /\ Passed /\ ChunksSoFar /\ SectionsSoFar
      BY <1>12 DEF IInv, TypeOK, ChecksDone, Work, SectionsSearched, Return
    <2>2. i = Len(bin.sh) + 1 /\ \A m \in DOMAIN bin.sh : m < i
      <3>1. DOMAIN bin.sh = 1 .. Len(bin.sh) /\ Len(bin.sh) \in Nat
        BY <1>1, BinaryTypes
      <3>2. i >= 1 /\ i <= Len(bin.sh) + 1
        BY <2>1 DEF SectionsSoFar
      <3> QED
        BY <2>1, <3>1, <3>2
    <2>3. /\ ".comm" \in found <=> \E m \in DOMAIN bin.sh : bin.sh[m].name = ".comm" /\ bin.sh[m].magic
          /\ ".comm_area" \in found <=> \E m \in DOMAIN bin.sh : bin.sh[m].name = ".comm_area"
      BY <2>1, <2>2 DEF SectionsSoFar
    <2>4. CASE found = {".comm", ".comm_area"}
      <3>1. Good(bin)
        BY <1>1, <2>1, <2>3, <2>4, PassedIsGood
      <3>2. ChunkImage(chunks) = ImageOf(bin)
        BY <1>1, <2>1, SameImage DEF ChunksSoFar
      <3>3. PICK n \in DOMAIN bin.sh :
              LastBefore(n, i) /\ area = [addr |-> bin.sh[n].addr, size |-> bin.sh[n].len]
        BY <2>1, <2>4 DEF SectionsSoFar
      <3>4. CommOf(bin) = {<<bin.sh[n].addr, bin.sh[n].len>>}
        BY <1>1, <2>2, <3>3, SameComm
      <3>5. comm' = area /\ ret' = "CL_SUCCESS"
        BY <1>12, <2>4 DEF SectionsSearched, Return
      <3>6. Succeeded' /\ ~Succeeded
        BY <2>1, <3>5 DEF Succeeded
      <3>7. {<<comm'.addr, comm'.size>>} = CommOf(bin)
        BY <3>3, <3>4, <3>5
      <3>8. Promise!Accept
        BY <2>1, <3>1, <3>2, <3>5, <3>6, <3>7 DEF Promise!Accept
      <3> QED
        BY <1>1, <2>1, <3>8 DEF Promise!Next
    <2>5. CASE found # {".comm", ".comm_area"}
      <3>1. ~Good(bin)
        BY <2>1, <2>3, <2>5 DEF Good
      <3>2. ret' = "CL_INVALID_BINARY"
        BY <1>12, <2>5 DEF SectionsSearched, Return
      <3> QED
        BY <1>1, <2>1, <3>1, <3>2, Failing
    <2> QED
      BY <2>4, <2>5
  <1>13. CASE Unload
    BY <1>13 DEF Unload, Promised, Answer, Image, CommSet, Succeeded
  <1> QED
    BY <1>2, <1>3, <1>4, <1>5, <1>6, <1>7, <1>8, <1>9, <1>10, <1>11, <1>12, <1>13 DEF Next, Load

\* All of prg_elf_load, through its checks, loops and errors, gives every
\* binary one answer and the right one, and with CL_SUCCESS the image the
\* segments stand for and the last communication area; it kills the process
\* only where elf_info cannot be allocated.  That it ends is the other half of
\* KeepsPromise, which TLC checks.
THEOREM Implements == Spec => Promise!Init /\ [][Promise!Next]_Promised
  <1>1. Init => Promise!Init
    BY DEF Init, Promise!Init, Promise!Nothing, Succeeded
  <1>2. IInv /\ [Next]_vars => [Promise!Next]_Promised
    BY StepImplements
  <1> QED
    BY <1>1, <1>2, Inductive, PTL DEF Spec
=============================================================================
