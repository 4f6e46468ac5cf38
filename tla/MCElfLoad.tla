----------------------------- MODULE MCElfLoad -----------------------------
(***************************************************************************)
(* Binaries of both classes as a linker lays them out: headers, segments,  *)
(* section headers; whole and cut short at every length.  Inside the ELF   *)
(* header, what lies behind the cut is like what was cut off, or as lucky  *)
(* as can be.  Then the ways a binary can be wrong.                        *)
(***************************************************************************)
EXTENDS ElfLoad

Text == [load |-> TRUE, w |-> FALSE, off |-> 200, paddr |-> 100, filesz |-> 4]
Data == [load |-> TRUE, w |-> TRUE, off |-> 204, paddr |-> 108, filesz |-> 2]
Note == [load |-> FALSE, w |-> TRUE, off |-> 204, paddr |-> 104, filesz |-> 6]
Bss  == [load |-> TRUE, w |-> TRUE, off |-> 206, paddr |-> 110, filesz |-> 0]

Sec(name, addr) == [name |-> name, off |-> 204, magic |-> TRUE, addr |-> addr, len |-> 16]
Null == Sec("other", 0)
Comm == Sec(".comm", 108)
Area == Sec(".comm_area", 112)
NoMagic == [Comm EXCEPT !.magic = FALSE]

File(class, ph, sh) ==
  LET shoff == 250  full == shoff + Len(sh) * Shdr(class)
  IN [class |-> class, exec |-> TRUE, entry |-> 100,
      phoff |-> IF class = 32 THEN 52 ELSE 64, phent |-> Phdr(class), ph |-> ph,
      shoff |-> shoff, shent |-> Shdr(class), sh |-> sh, shstrndx |-> 0,
      full |-> full, size |-> full]

Plain32 == File(32, <<Note, Text, Data, Bss>>, <<Null, Comm, Area>>)
Plain64 == File(64, <<Text, Data>>, <<Area, NoMagic, Null, Comm, [Area EXCEPT !.addr = 128]>>)

Cut == UNION {{[b EXCEPT !.size = n] : n \in 0 .. b.full} : b \in {Plain32, Plain64}}

\* Tables as small and as near as the checks let them be.
Lucky(class, last) ==
  {[File(class, <<Text>>, <<Area>>) EXCEPT !.size = n, !.phoff = 1, !.shoff = 0] : n \in 0 .. last}
MCLucky == Lucky(32, 35) \cup Lucky(64, 47)

Wrong ==
  {[Plain32 EXCEPT !.class = 0], [Plain32 EXCEPT !.exec = FALSE], [Plain32 EXCEPT !.entry = 102],
   [Plain64 EXCEPT !.phent = 32], [Plain64 EXCEPT !.shent = 40], [Plain32 EXCEPT !.phoff = 0],
   [Plain32 EXCEPT !.shstrndx = 3],
   File(32, <<>>, <<Null, Comm, Area>>), File(32, <<Text, Data>>, <<Null, NoMagic, Area>>),
   File(64, <<Text>>, <<Null, Comm>>), File(64, <<Data, Note>>, <<Area>>)}

Fitted(b) == LET full == b.shoff + Len(b.sh) * b.shent IN [b EXCEPT !.full = full, !.size = full]

MCBinaries == Cut \cup MCLucky \cup {Fitted(b) : b \in Wrong}
=============================================================================
