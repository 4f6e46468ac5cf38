------------------------------ MODULE ElfLoad ------------------------------
(***************************************************************************)
(* Loading one ELF binary into a program (drivers/program_elf.c): the      *)
(* header is read and checked, the program headers become the chunks of    *)
(* struct program_chunk, the sections are searched for the communication   *)
(* area.  Numbers of the file are as the file says; a byte of the file is  *)
(* known by its offset.                                                    *)
(***************************************************************************)
EXTENDS Integers, Sequences, FiniteSets

CONSTANTS
  Binaries,   \* what clCreateProgramWithBinary may be given (set of Binary)
  Faults      \* the allocations that may fail: "elf", "phs", "chunks", "shs"

Ehdr(class) == IF class = 32 THEN 52 ELSE 64   \* sizeof(Elf32_Ehdr), sizeof(Elf64_Ehdr)
Phdr(class) == IF class = 32 THEN 32 ELSE 56   \* sizeof(Elf32_Phdr), sizeof(Elf64_Phdr)
Shdr(class) == IF class = 32 THEN 40 ELSE 64   \* sizeof(Elf32_Shdr), sizeof(Elf64_Shdr)

Segments == [load : BOOLEAN, w : BOOLEAN, off : Nat, paddr : Nat, filesz : Nat]
Sections == [name : {".comm", ".comm_area", "other"}, off : Nat, magic : BOOLEAN,
             addr : Nat, len : Nat]

\* class 0 is no ELF file; exec is an ET_EXEC of EM_RISCV; full is the length
\* the linker gave the file and size what is left of it.
Binary == [class : {0, 32, 64}, exec : BOOLEAN, entry : Nat,
           phoff : Nat, phent : Nat, ph : Seq(Segments),
           shoff : Nat, shent : Nat, sh : Seq(Sections), shstrndx : Nat,
           full : Nat, size : Nat]

\* A linker puts the section headers last, after everything they describe.
Linked(b) ==
  /\ b.size <= b.full /\ b.full = b.shoff + Len(b.sh) * b.shent
  /\ b.phoff + Len(b.ph) * b.phent <= b.shoff
  /\ \A n \in DOMAIN b.ph : b.ph[n].off + b.ph[n].filesz <= b.shoff
  /\ \A n \in DOMAIN b.sh : b.sh[n].off <= b.shoff

\* A binary that was cut short inside its ELF header: the numbers behind the cut
\* are what memory holds there, anything.  Before the cut may still be e_shoff,
\* which ends at byte 36 or 48.
HeaderCut(b) == b.size < Ehdr(b.class)
CutInHeader(b) ==
  /\ b.size < b.full
  /\ (IF b.class = 32 THEN 36 ELSE 48) <= b.size => b.size < b.shoff

ASSUME ElfAssumption ==
  \A b \in Binaries : b \in Binary /\ IF HeaderCut(b) THEN CutInHeader(b) ELSE Linked(b)

\* It gives no address to two segments that are loaded.
ASSUME SegmentsApart ==
  \A b \in Binaries : \A m, n \in DOMAIN b.ph :
    m # n /\ b.ph[m].load /\ b.ph[n].load =>
      \/ b.ph[m].paddr + b.ph[m].filesz <= b.ph[n].paddr
      \/ b.ph[n].paddr + b.ph[n].filesz <= b.ph[m].paddr

VARIABLES
  bin,      \* the binary: no step changes it
  pc,       \* "init", "ident", "header", "check", "phs", "chunks", "shs", "secs",
            \*   "done", "crash"
  i,        \* loop index
  elf,      \* what is allocated: "elf", "phs", "shs" (struct elf_info)
  chunks,   \* prg->chunks: [paddr, off, size, readonly], off instead of buf
  found,    \* found_comm and found_comm_area: ".comm", ".comm_area"
  area,     \* elf->comm: [addr, size]
  comm,     \* prg->comm
  ret,      \* the result of prg_elf_load
  reach     \* the end of what was read of the file, or given away in a chunk

vars == <<bin, pc, i, elf, chunks, found, area, comm, ret, reach>>

NoArea == [addr |-> 0, size |-> 0]
NoChunk == [paddr |-> 0, off |-> 0, size |-> 0, readonly |-> FALSE]   \* calloc

Larger(a, b) == IF a > b THEN a ELSE b
Reads(to) == reach' = Larger(reach, to)

Return(r) == pc' = "done" /\ ret' = r
Goto(p)   == pc' = p /\ UNCHANGED ret

--------------------------------------------------------------------------
(* prg_elf_init to prg_elf_is_valid_header.                                *)

\* The result of prg_elf_init is overwritten before anybody looks at it, and
\* prg_elf_is_valid lets a program without elf_info pass.
LoadInit ==
  /\ pc = "init"
  /\ \/ elf' = {"elf"} /\ Goto("ident")
     \/ "elf" \in Faults /\ UNCHANGED elf /\ Goto("crash")
  /\ UNCHANGED <<bin, i, chunks, found, area, comm, reach>>

GetClass ==
  /\ pc = "ident" /\ Reads(5)
  /\ IF bin.class \in {32, 64} THEN Goto("header") ELSE Return("CL_INVALID_BINARY")
  /\ UNCHANGED <<bin, i, elf, chunks, found, area, comm>>

\* The whole header is read, however long the file is.
ReadElf ==
  /\ pc = "header" /\ Reads(Ehdr(bin.class))
  /\ IF bin.phent < Phdr(bin.class) \/ bin.shent < Shdr(bin.class)
     THEN Return("CL_INVALID_BINARY") ELSE Goto("check")
  /\ UNCHANGED <<bin, i, elf, chunks, found, area, comm>>

\* Mutant: the section headers are not compared with the size.
ValidHeaderTables ==
  /\ bin.exec /\ bin.phoff # 0 /\ bin.ph # <<>> /\ bin.entry % 4 = 0
  /\ bin.phoff + Len(bin.ph) * bin.phent <= bin.size
  /\ bin.shstrndx < Len(bin.sh)

ValidHeader ==
  /\ bin.exec /\ bin.phoff # 0 /\ bin.ph # <<>> /\ bin.entry % 4 = 0
  /\ bin.phoff + Len(bin.ph) * bin.phent <= bin.size
  /\ bin.shoff + Len(bin.sh) * bin.shent <= bin.size
  /\ bin.shstrndx < Len(bin.sh)

CheckHeader ==
  /\ pc = "check"
  /\ IF ValidHeader THEN Goto("phs") ELSE Return("CL_INVALID_BINARY")
  /\ UNCHANGED <<bin, i, elf, chunks, found, area, comm, reach>>

--------------------------------------------------------------------------
(* prg_elf_read_ph.                                                        *)

\* phs, then prg_set_num_chunks: one chunk for every program header.
ReadPh ==
  /\ pc = "phs"
  /\ \/ /\ elf' = elf \cup {"phs"} /\ Reads(bin.phoff + Len(bin.ph) * bin.phent)
        /\ chunks' = [n \in DOMAIN bin.ph |-> NoChunk] /\ i' = 1 /\ Goto("chunks")
     \/ /\ "phs" \in Faults /\ Return("CL_OUT_OF_HOST_MEMORY")
        /\ UNCHANGED <<i, elf, chunks, reach>>
     \/ /\ "chunks" \in Faults /\ Return("CL_OUT_OF_HOST_MEMORY")
        /\ elf' = elf \cup {"phs"} /\ Reads(bin.phoff + Len(bin.ph) * bin.phent)
        /\ UNCHANGED <<i, chunks>>
  /\ UNCHANGED <<bin, found, area, comm>>

\* Mutant: the flag is read the other way round.
ChunkWritable(s) == [paddr |-> s.paddr, off |-> s.off, size |-> s.filesz, readonly |-> s.w]

Chunk(s) == [paddr |-> s.paddr, off |-> s.off, size |-> s.filesz, readonly |-> ~s.w]
Loadable(s) == s.load

SetChunk ==
  /\ pc = "chunks" /\ i \in DOMAIN bin.ph
  /\ chunks' = IF Loadable(bin.ph[i]) THEN [chunks EXCEPT ![i] = Chunk(bin.ph[i])] ELSE chunks
  /\ Reads(chunks'[i].off + chunks'[i].size)
  /\ i' = i + 1 /\ UNCHANGED <<bin, pc, elf, found, area, comm, ret>>

ChunksSet ==
  /\ pc = "chunks" /\ i \notin DOMAIN bin.ph /\ Goto("shs")
  /\ UNCHANGED <<bin, i, elf, chunks, found, area, comm, reach>>

--------------------------------------------------------------------------
(* prg_elf_read_shs.                                                       *)

ReadShs ==
  /\ pc = "shs"
  /\ \/ /\ elf' = elf \cup {"shs"} /\ Reads(bin.shoff + Len(bin.sh) * bin.shent)
        /\ i' = 1 /\ Goto("secs")
     \/ "shs" \in Faults /\ Return("CL_OUT_OF_HOST_MEMORY") /\ UNCHANGED <<i, elf, reach>>
  /\ UNCHANGED <<bin, chunks, found, area, comm>>

\* The sections that count: of .comm only those with the magic number.
Accepts(s) == s.name = ".comm_area" \/ (s.name = ".comm" /\ s.magic)

SearchSection ==
  /\ pc = "secs" /\ i \in DOMAIN bin.sh
  /\ LET s == bin.sh[i]
     IN /\ found' = IF Accepts(s) THEN found \cup {s.name} ELSE found
        /\ area' = IF s.name = ".comm_area" THEN [addr |-> s.addr, size |-> s.len] ELSE area
        /\ Reads(IF s.name = ".comm" THEN s.off + 4 ELSE 0)
  /\ i' = i + 1 /\ UNCHANGED <<bin, pc, elf, chunks, comm, ret>>

SectionsSearched ==
  /\ pc = "secs" /\ i \notin DOMAIN bin.sh
  /\ IF found = {".comm", ".comm_area"}
     THEN comm' = area /\ Return("CL_SUCCESS")
     ELSE UNCHANGED comm /\ Return("CL_INVALID_BINARY")
  /\ UNCHANGED <<bin, i, elf, chunks, found, area, reach>>

\* prg_elf_unload, from clReleaseProgram: the chunks stay.
Unload ==
  /\ pc = "done" /\ ret = "CL_SUCCESS" /\ elf' = {}
  /\ UNCHANGED <<bin, pc, i, chunks, found, area, comm, ret, reach>>

--------------------------------------------------------------------------

Init ==
  /\ bin \in Binaries /\ pc = "init" /\ i = 1 /\ elf = {} /\ chunks = <<>>
  /\ found = {} /\ area = NoArea /\ comm = NoArea /\ ret = "none" /\ reach = 0

Load == \/ LoadInit \/ GetClass \/ ReadElf \/ CheckHeader \/ ReadPh \/ SetChunk \/ ChunksSet
        \/ ReadShs \/ SearchSection \/ SectionsSearched
Next == Load \/ Unload

\* prg_elf_load runs to its end.
Spec == Init /\ [][Next]_vars /\ WF_vars(Load)

--------------------------------------------------------------------------
(* Properties.                                                             *)

TypeOK ==
  /\ bin \in Binaries /\ i \in Nat /\ reach \in Nat
  /\ pc \in {"init", "ident", "header", "check", "phs", "chunks", "shs", "secs", "done", "crash"}
  /\ elf \subseteq {"elf", "phs", "shs"} /\ found \subseteq {".comm", ".comm_area"}
  /\ chunks \in Seq([paddr : Nat, off : Nat, size : Nat, readonly : BOOLEAN])
  /\ chunks # <<>> => Len(chunks) = Len(bin.ph)
  /\ area \in [addr : Nat, size : Nat] /\ comm \in [addr : Nat, size : Nat]
  /\ ret \in {"none", "CL_SUCCESS", "CL_INVALID_BINARY", "CL_OUT_OF_HOST_MEMORY"}

\* Of a binary that was cut short nothing past its end is read, and no chunk
\* points there, except the ELF header: its 52 or 64 bytes are read without
\* asking for the size.  A binary shorter than that is read up to there and no
\* further, and gets no chunks: whatever its missing numbers are taken for, the
\* checks of the header tables refuse it, as the section headers are last.
ReadsInsideFile ==
  /\ reach <= Larger(bin.size, Ehdr(bin.class))
  /\ reach > bin.size => chunks = <<>> /\ ret # "CL_SUCCESS"

\* What the launches store of these chunks, in their order: the offset of the
\* byte of the file at every address, and whether it is stored every time.
Cells(c) == c.paddr .. c.paddr + c.size - 1
ChunkImage(cs) ==
  UNION {{<<a, cs[n].off + a - cs[n].paddr, ~cs[n].readonly>> :
            a \in Cells(cs[n]) \ UNION {Cells(cs[m]) : m \in n + 1 .. Len(cs)}} : n \in DOMAIN cs}

\* The image an ELF file stands for: the bytes of its PT_LOAD entries at their
\* physical addresses; those that can be written must be stored every time.
ImageOf(b) ==
  UNION {{<<b.ph[n].paddr + x, b.ph[n].off + x, b.ph[n].w>> : x \in 0 .. b.ph[n].filesz - 1}
         : n \in {m \in DOMAIN b.ph : b.ph[m].load}}

LastArea(b) == CHOOSE n \in DOMAIN b.sh :
                 /\ b.sh[n].name = ".comm_area"
                 /\ \A m \in n + 1 .. Len(b.sh) : b.sh[m].name # ".comm_area"
CommOf(b) == {<<b.sh[LastArea(b)].addr, b.sh[LastArea(b)].len>>}

\* Whole RISC-V executables with entries of both kinds of headers and an
\* aligned entry point, marked for this runtime and with room for arguments.
Good(b) ==
  /\ b.class # 0 /\ b.size = b.full /\ b.exec /\ b.entry % 4 = 0 /\ b.phoff # 0 /\ b.ph # <<>>
  /\ b.phent >= Phdr(b.class) /\ b.shent >= Shdr(b.class) /\ b.shstrndx < Len(b.sh)
  /\ \E m \in DOMAIN b.sh : b.sh[m].name = ".comm" /\ b.sh[m].magic
  /\ \E m \in DOMAIN b.sh : b.sh[m].name = ".comm_area"

Succeeded == pc = "done" /\ ret = "CL_SUCCESS"
Promise == INSTANCE ProgramLoad WITH
  MayDie <- "elf" \in Faults,
  answer <- IF pc = "crash" THEN "crash" ELSE ret,
  image  <- IF Succeeded THEN ChunkImage(chunks) ELSE {},
  comm   <- IF Succeeded THEN {<<comm.addr, comm.size>>} ELSE {}

\* Every binary gets its one answer, the right one, and with it its image and
\* its communication area, through all the steps, errors and early returns;
\* unless elf_info cannot be allocated, when the process dies.
KeepsPromise == Promise!Spec
=============================================================================
