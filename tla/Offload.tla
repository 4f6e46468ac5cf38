------------------------------ MODULE Offload ------------------------------
(***************************************************************************)
(* One kernel launch after another on one accelerator: the host thread in  *)
(* in_clEnqueueNDRangeKernel (src/cl_enqueue.c) beside the device that it  *)
(* resets, fills, runs, polls and reads back.                              *)
(*                                                                         *)
(* The host takes one step per device operation (dev_reset, dev_write_mem, *)
(* dev_run, dev_stop, dev_read_mem); the kernel takes its own steps        *)
(* whenever the device runs.  Device memory is one function from addresses *)
(* to cells; a cell names what was stored there and at which offset, so a  *)
(* wrong address, a stale byte and a foreign byte are told apart.          *)
(***************************************************************************)
EXTENDS Integers, Sequences, FiniteSets

CONSTANTS
  Programs,    \* cl_program objects, all loaded for the same device
  Chunks,      \* Chunks[p]: the PT_LOAD areas of p, a sequence of
               \*   [paddr, size, readonly] (struct program_chunk)
  Comm,        \* Comm[p]: [addr, size] of the .comm_area section of p
  Mems,        \* cl_mem buffers
  NullMem,     \* a cl_mem that mem_is_valid refuses
  MemSize,     \* MemSize[m]: size of buffer m
  CanRead,     \* buffers whose flags let the kernel read (mem_can_read)
  CanWrite,    \* buffers whose flags let the kernel write (mem_can_write)
  Kernels,     \* kernel objects with their arguments: [prg, name, args],
               \*   name is strlen(kernel->name) + 1
  NullPrg,     \* the program of a kernel that kern_is_valid refuses
  Addr,        \* addresses of device memory
  HEAD,        \* size of both comm headers (16 bytes in drivers/comm.h)
  ALIGN,       \* alignment of each argument (8)
  MaxPoll,     \* bound on the polls of one launch (10000)
  MaxLaunch,   \* bound on the launches of a behaviour (TLC only)
  Faults       \* how device operations may fail: "report" returns an error,
               \*   "silent" returns CL_SUCCESS without the whole effect

Span(a, size) == a .. (a + size - 1)
CommSpan(p) == Span(Comm[p].addr, Comm[p].size)
ChunkSpan(p, i) == Span(Chunks[p][i].paddr, Chunks[p][i].size)

Args == [type : {"NOTUSED", "VAL", "MEM"}, size : Nat, mem : Mems \cup {NullMem}]

ASSUME DeviceAssumption ==
  /\ Addr \subseteq Nat /\ HEAD \in Nat \ {0} /\ ALIGN \in Nat \ {0}
  /\ MaxPoll \in Nat \ {0} /\ MaxLaunch \in Nat /\ Faults \subseteq {"report", "silent"}

ASSUME ProgramAssumption ==
  /\ NullPrg \notin Programs
  /\ \A p \in Programs :
       /\ Chunks[p] \in Seq([paddr : Nat, size : Nat, readonly : BOOLEAN])
       /\ Comm[p] \in [addr : Nat, size : Nat]
       /\ CommSpan(p) \subseteq Addr
       /\ \A i \in DOMAIN Chunks[p] : ChunkSpan(p, i) \subseteq Addr

ASSUME KernelAssumption ==
  /\ NullMem \notin Mems /\ CanRead \subseteq Mems /\ CanWrite \subseteq Mems
  /\ MemSize \in [Mems -> Nat \ {0}]
  /\ Kernels # {}
  /\ \A k \in Kernels : /\ k.prg \in Programs \cup {NullPrg}
                        /\ k.name \in Nat \ {0} /\ k.args \in Seq(Args)

VARIABLES
  pc,        \* where the host thread is in in_clEnqueueNDRangeKernel
  ret,       \* what the last launch returned
  launch,    \* number of launches begun
  kern,      \* kernel object of the current launch
  idx,       \* loop index: of chunks, then of arguments (0 is the kernel name)
  paddr,     \* the local paddr
  polls,     \* the local j of the polling loop
  loaded,    \* <<p, i>> with chunk i of p marked loaded
  buf,       \* buf[m][o]: the host bytes of buffer m
  mem,       \* device memory
  dev,       \* "halted" or "running"
  task,      \* what the device executes: kernel object and launch number
  finished   \* number of the last launch whose kernel set done

hostVars == <<pc, ret, launch, kern, idx, paddr, polls, loaded>>
vars == <<pc, ret, launch, kern, idx, paddr, polls, loaded, buf, mem, dev, task, finished>>

--------------------------------------------------------------------------
(* Cells.  First component: who stored it.                                 *)

Junk == <<"junk">>
ChunkCell(p, i, o)  == <<"chunk", p, i, o>>
CommCell(n, done, o) == <<"comm", n, done, o>>
ArgHeadCell(j, type, size, o) == <<"arg", j, type, size, o>>
ValCell(no, j, o)   == <<"val", no, j, o>>
AppCell(no, m, o)   == <<"app", no, m, o>>
OutCell(no, j, o)   == <<"out", no, j, o>>

\* Device memory after the cells bytes[0], bytes[1], ... were stored at a.
StoreAll(a, bytes, size) == [x \in Addr |-> IF x \in Span(a, size) THEN bytes[x - a] ELSE mem[x]]

Load(m, a, size) == [o \in 0 .. size - 1 |-> m[a + o]]

AlignUp(x) == IF x % ALIGN = 0 THEN x ELSE (x \div ALIGN + 1) * ALIGN

--------------------------------------------------------------------------
(* Device operations: the host's steps below are made of them.  The launch  *)
(* treats every error of theirs alike.                                      *)

Port == INSTANCE Device WITH Errors <- {"CL_OUT_OF_RESOURCES"}, faults <- Faults

Rets == {"CL_SUCCESS", "CL_OUT_OF_RESOURCES", "CL_INVALID_DEVICE", "CL_INVALID_PROGRAM",
         "CL_INVALID_KERNEL", "CL_INVALID_MEM_OBJECT"}

Return(r) == pc' = "idle" /\ ret' = r

--------------------------------------------------------------------------
(* Arguments of the current launch.                                        *)

prg  == kern.prg
comm == Comm[prg]

NameArg(k) == [type |-> "VAL", size |-> k.name, mem |-> NullMem]
ArgOf(k, j) == IF j = 0 THEN NameArg(k) ELSE k.args[j]
NumArgs(k) == Len(k.args)

ArgSize(a) == IF a.type = "MEM" THEN MemSize[a.mem] ELSE a.size

ArgError(a) ==
  CASE a.type = "NOTUSED" -> "CL_INVALID_KERNEL"
    [] a.type = "MEM" /\ a.mem = NullMem -> "CL_INVALID_MEM_OBJECT"
    [] OTHER -> "CL_SUCCESS"

\* Mutant: room is made for the header of an argument only.
FitsHeaderOnly(a) == ~(comm.addr + comm.size <= paddr + HEAD)
Fits(a) == ~(comm.addr + comm.size <= paddr + HEAD + ArgSize(a))

ArgBytes(no, j, a) ==
  IF a.type = "MEM" THEN buf[a.mem]
                    ELSE [o \in 0 .. a.size - 1 |-> ValCell(no, j, o)]

\* Mutant: a buffer the kernel may write is not sent.
NeedWriteInputsOnly(a) == a.type = "VAL" \/ a.mem \notin CanWrite
NeedWrite(a) == a.type = "VAL" \/ a.mem \in CanRead
NeedRead(a)  == a.type = "MEM" /\ a.mem \in CanWrite

--------------------------------------------------------------------------
(* The application between launches.                                       *)

Launch(k) ==
  /\ pc = "idle" /\ launch < MaxLaunch
  /\ pc' = "reset" /\ launch' = launch + 1 /\ kern' = k
  /\ UNCHANGED <<ret, idx, paddr, polls, loaded, buf, mem, dev, task, finished>>

\* A NULL queue gives a NULL context and device: dev_reset refuses it.
LaunchBadQueue ==
  /\ pc = "idle" /\ launch < MaxLaunch
  /\ launch' = launch + 1 /\ Return("CL_INVALID_DEVICE")
  /\ UNCHANGED <<kern, idx, paddr, polls, loaded, buf, mem, dev, task, finished>>

\* clEnqueueWriteBuffer: only the host copy of the buffer changes.
AppWrite(m) ==
  /\ pc = "idle"
  /\ buf' = [buf EXCEPT ![m] = [o \in DOMAIN buf[m] |-> AppCell(launch, m, o)]]
  /\ UNCHANGED <<hostVars, mem, dev, task, finished>>

--------------------------------------------------------------------------
(* in_clEnqueueNDRangeKernel, one device operation a step.                 *)

Reset ==
  /\ pc = "reset"
  /\ \E r \in Rets :
       /\ Port!Commands(r, "halted")
       /\ \/ r = "CL_SUCCESS" /\ prg = NullPrg /\ Return("CL_INVALID_PROGRAM") /\ UNCHANGED idx
          \/ r = "CL_SUCCESS" /\ prg # NullPrg /\ pc' = "chunks" /\ idx' = 1 /\ UNCHANGED ret
          \/ r # "CL_SUCCESS" /\ Return(r) /\ UNCHANGED idx
  /\ UNCHANGED <<launch, kern, paddr, polls, loaded, buf, mem, task, finished>>

\* Mutant: data areas are skipped like read-only ones.
SkipAnyChunk ==
  /\ pc = "chunks" /\ idx \in DOMAIN Chunks[prg] /\ <<prg, idx>> \in loaded
  /\ idx' = idx + 1
  /\ UNCHANGED <<pc, ret, launch, kern, paddr, polls, loaded, buf, mem, dev, task, finished>>

SkipChunk ==
  /\ pc = "chunks" /\ idx \in DOMAIN Chunks[prg]
  /\ Chunks[prg][idx].readonly /\ <<prg, idx>> \in loaded
  /\ idx' = idx + 1
  /\ UNCHANGED <<pc, ret, launch, kern, paddr, polls, loaded, buf, mem, dev, task, finished>>

SendChunk ==
  /\ pc = "chunks" /\ idx \in DOMAIN Chunks[prg]
  /\ ~(Chunks[prg][idx].readonly /\ <<prg, idx>> \in loaded)
  /\ LET c == Chunks[prg][idx]
         bytes == [o \in 0 .. c.size - 1 |-> ChunkCell(prg, idx, o)]
     IN \E r \in Rets :
          /\ Port!Writes(c.paddr, bytes, c.size, r)
          /\ \/ /\ r = "CL_SUCCESS" /\ UNCHANGED <<pc, ret>>
                /\ loaded' = loaded \cup {<<prg, idx>>} /\ idx' = idx + 1
             \/ r # "CL_SUCCESS" /\ Return(r) /\ UNCHANGED <<loaded, idx>>
  /\ UNCHANGED <<launch, kern, paddr, polls, buf, dev, task, finished>>

\* Mutant: a header that is in device memory already is not sent again.
SendHeaderOnce ==
  /\ pc = "chunks" /\ idx > Len(Chunks[prg])
  /\ \/ mem[comm.addr][1] = "comm" /\ UNCHANGED mem
     \/ /\ mem[comm.addr][1] # "comm"
        /\ mem' = StoreAll(comm.addr,
                           [o \in 0 .. HEAD - 1 |-> CommCell(NumArgs(kern) + 1, 0, o)], HEAD)
  /\ pc' = "args" /\ idx' = 0 /\ paddr' = comm.addr + AlignUp(HEAD)
  /\ UNCHANGED <<ret, launch, kern, polls, loaded, buf, dev, task, finished>>

SendHeader ==
  /\ pc = "chunks" /\ idx > Len(Chunks[prg])
  /\ \E r \in Rets :
       /\ Port!Writes(comm.addr, [o \in 0 .. HEAD - 1 |-> CommCell(NumArgs(kern) + 1, 0, o)], HEAD, r)
       /\ \/ /\ r = "CL_SUCCESS" /\ UNCHANGED ret
             /\ pc' = "args" /\ idx' = 0 /\ paddr' = comm.addr + AlignUp(HEAD)
          \/ r # "CL_SUCCESS" /\ Return(r) /\ UNCHANGED <<idx, paddr>>
  /\ UNCHANGED <<launch, kern, polls, loaded, buf, dev, task, finished>>

RefuseArg ==
  /\ pc = "args" /\ idx <= NumArgs(kern)
  /\ LET a == ArgOf(kern, idx)
     IN \/ ArgError(a) # "CL_SUCCESS" /\ Return(ArgError(a))
        \/ ArgError(a) = "CL_SUCCESS" /\ ~Fits(a) /\ Return("CL_OUT_OF_RESOURCES")
  /\ UNCHANGED <<launch, kern, idx, paddr, polls, loaded, buf, mem, dev, task, finished>>

SendArgHead ==
  /\ pc = "args" /\ idx <= NumArgs(kern)
  /\ LET a == ArgOf(kern, idx)
         bytes == [o \in 0 .. HEAD - 1 |-> ArgHeadCell(idx, a.type, ArgSize(a), o)]
     IN /\ ArgError(a) = "CL_SUCCESS" /\ Fits(a)
        /\ \E r \in Rets :
             /\ Port!Writes(paddr, bytes, HEAD, r)
             /\ \/ r = "CL_SUCCESS" /\ pc' = "payload" /\ paddr' = paddr + HEAD /\ UNCHANGED ret
                \/ r # "CL_SUCCESS" /\ Return(r) /\ UNCHANGED paddr
  /\ UNCHANGED <<launch, kern, idx, polls, loaded, buf, dev, task, finished>>

\* Mutant: the next argument is not aligned.
SendPayloadPacked ==
  /\ pc = "payload"
  /\ LET a == ArgOf(kern, idx)
     IN /\ \/ NeedWrite(a) /\ Port!Writes(paddr, ArgBytes(launch, idx, a), ArgSize(a), "CL_SUCCESS")
           \/ ~NeedWrite(a) /\ UNCHANGED mem
        /\ pc' = "args" /\ idx' = idx + 1 /\ paddr' = paddr + ArgSize(a)
  /\ UNCHANGED <<ret, launch, kern, polls, loaded, buf, dev, task, finished>>

SendPayload ==
  /\ pc = "payload"
  /\ LET a == ArgOf(kern, idx)
     IN \E r \in Rets :
          /\ \/ NeedWrite(a) /\ Port!Writes(paddr, ArgBytes(launch, idx, a), ArgSize(a), r)
             \/ ~NeedWrite(a) /\ r = "CL_SUCCESS" /\ UNCHANGED mem
          /\ \/ /\ r = "CL_SUCCESS" /\ UNCHANGED ret
                /\ pc' = "args" /\ idx' = idx + 1 /\ paddr' = AlignUp(paddr + ArgSize(a))
             \/ r # "CL_SUCCESS" /\ Return(r) /\ UNCHANGED <<idx, paddr>>
  /\ UNCHANGED <<launch, kern, polls, loaded, buf, dev, task, finished>>

Run ==
  /\ pc = "args" /\ idx > NumArgs(kern)
  /\ \E r \in Rets :
       /\ Port!Commands(r, "running")
       /\ \/ /\ r = "CL_SUCCESS" /\ pc' = "poll" /\ polls' = 0
             /\ task' = [kern |-> kern, no |-> launch] /\ UNCHANGED ret
          \/ r # "CL_SUCCESS" /\ Return(r) /\ UNCHANGED <<polls, task>>
  /\ UNCHANGED <<launch, kern, idx, paddr, loaded, buf, mem, finished>>

\* Mutant: the result of dev_stop is not looked at.
StopUnchecked ==
  /\ pc = "poll" /\ pc' = "check" /\ dev' \in {"halted", "running"}
  /\ UNCHANGED <<ret, launch, kern, idx, paddr, polls, loaded, buf, mem, task, finished>>

\* A dev_stop that fails leaves the device running, unless it halts by itself.
Stop ==
  /\ pc = "poll"
  /\ \E r \in Rets :
       /\ Port!Commands(r, "halted")
       /\ \/ r = "CL_SUCCESS" /\ pc' = "check" /\ UNCHANGED ret
          \/ r # "CL_SUCCESS" /\ Return(r)
  /\ UNCHANGED <<launch, kern, idx, paddr, polls, loaded, buf, mem, task, finished>>

\* h_comm.magic is in the first cell of the header, h_comm.done in the last.
MagicSeen == mem[comm.addr][1] = "comm"
\* Mutant: the magic alone is taken for the end of the kernel.
DoneUnchecked == mem[comm.addr + HEAD - 1][1] = "comm"
DoneSeen == LET c == mem[comm.addr + HEAD - 1] IN c[1] = "comm" => c[3] # 0

\* What a transfer that fails silently leaves in h_comm: the magic, and not done.
Stale(v) == IF "silent" \in Faults THEN {v} ELSE {}

ReadHeader ==
  /\ pc = "check"
  /\ \/ \E magic \in {MagicSeen} \cup Stale(TRUE), done \in {DoneSeen} \cup Stale(FALSE) :
          \/ ~magic /\ Return("CL_INVALID_DEVICE") /\ UNCHANGED <<idx, paddr>>
          \/ /\ magic /\ done /\ UNCHANGED ret
             /\ pc' = "dequeue" /\ idx' = 0 /\ paddr' = comm.addr + HEAD
          \/ magic /\ ~done /\ pc' = "resume" /\ UNCHANGED <<ret, idx, paddr>>
     \/ \E r \in Rets : Port!Reported(r) /\ Return(r) /\ UNCHANGED <<idx, paddr>>
  /\ UNCHANGED <<launch, kern, polls, loaded, buf, mem, dev, task, finished>>

\* Mutants: one poll too many; the polls are not counted.
ResumeOnceMore ==
  /\ pc = "resume" /\ dev' = "running" /\ polls' = polls + 1
  /\ \/ polls <= MaxPoll /\ pc' = "poll" /\ UNCHANGED ret
     \/ polls > MaxPoll /\ Return("CL_INVALID_DEVICE")
  /\ UNCHANGED <<launch, kern, idx, paddr, loaded, buf, mem, task, finished>>

ResumeUncounted ==
  /\ pc = "resume" /\ dev' = "running" /\ pc' = "poll"
  /\ UNCHANGED <<ret, launch, kern, idx, paddr, polls, loaded, buf, mem, task, finished>>

\* The poll that was one too many leaves the device running.
Resume ==
  /\ pc = "resume"
  /\ \E r \in Rets :
       /\ Port!Commands(r, "running")
       /\ \/ /\ r = "CL_SUCCESS" /\ polls' = polls + 1
             /\ \/ polls' < MaxPoll /\ pc' = "poll" /\ UNCHANGED ret
                \/ polls' >= MaxPoll /\ Return("CL_INVALID_DEVICE")
          \/ r # "CL_SUCCESS" /\ Return(r) /\ UNCHANGED polls
  /\ UNCHANGED <<launch, kern, idx, paddr, loaded, buf, mem, task, finished>>

\* A buffer is read back from address a.
ReadInto(m, a, r) ==
  \E new \in Port!Reads(buf[m], a, MemSize[m], r) : buf' = [buf EXCEPT ![m] = new]

\* Mutant: the header of an argument is read back as its value.
DequeueHeader ==
  /\ pc = "dequeue" /\ idx <= NumArgs(kern)
  /\ LET a == ArgOf(kern, idx)
     IN /\ \/ NeedRead(a) /\ ReadInto(a.mem, paddr, "CL_SUCCESS")
           \/ ~NeedRead(a) /\ UNCHANGED buf
        /\ idx' = idx + 1 /\ paddr' = AlignUp(paddr + HEAD + ArgSize(a))
  /\ UNCHANGED <<pc, ret, launch, kern, polls, loaded, mem, dev, task, finished>>

\* enqueue_arg has already refused every argument that dequeue_arg refuses.
Dequeue ==
  /\ pc = "dequeue" /\ idx <= NumArgs(kern)
  /\ LET a == ArgOf(kern, idx)
     IN /\ ArgError(a) = "CL_SUCCESS" /\ Fits(a)
        /\ \E r \in Rets :
             /\ \/ NeedRead(a) /\ ReadInto(a.mem, paddr + HEAD, r)
                \/ ~NeedRead(a) /\ r = "CL_SUCCESS" /\ UNCHANGED buf
             /\ \/ /\ r = "CL_SUCCESS" /\ UNCHANGED <<pc, ret>>
                   /\ idx' = idx + 1 /\ paddr' = AlignUp(paddr + HEAD + ArgSize(a))
                \/ r # "CL_SUCCESS" /\ Return(r) /\ UNCHANGED <<idx, paddr>>
  /\ UNCHANGED <<launch, kern, polls, loaded, mem, dev, task, finished>>

Finish ==
  /\ pc = "dequeue" /\ idx > NumArgs(kern) /\ Return("CL_SUCCESS")
  /\ UNCHANGED <<launch, kern, idx, paddr, polls, loaded, buf, mem, dev, task, finished>>

--------------------------------------------------------------------------
(* The device (external: the runtime on the accelerator is not in src/).   *)
(* It walks the comm area by the sizes it finds in the argument headers,   *)
(* stores into the buffers it may write and into its own data, and sets    *)
(* done; a broken kernel may destroy the header, a stuck one does nothing. *)

SeenSize(x) == IF x \in Addr /\ mem[x][1] = "arg" THEN mem[x][4] ELSE 0

SeenAt(k) ==
  LET at[j \in 0 .. NumArgs(k)] ==
        IF j = 0 THEN Comm[k.prg].addr + HEAD
                 ELSE AlignUp(at[j - 1] + HEAD + SeenSize(at[j - 1]))
  IN at

Working == dev = "running" /\ finished # task.no

KernelStore(j) ==
  /\ Working /\ j \in DOMAIN task.kern.args
  /\ LET a == task.kern.args[j]
         x == SeenAt(task.kern)[j] + HEAD
     IN /\ NeedRead(a)
        /\ Span(x, MemSize[a.mem]) \subseteq CommSpan(task.kern.prg)
        /\ mem' = StoreAll(x, [o \in 0 .. MemSize[a.mem] - 1 |-> OutCell(task.no, j, o)],
                           MemSize[a.mem])
  /\ UNCHANGED <<hostVars, buf, dev, task, finished>>

KernelData(i) ==
  /\ Working /\ i \in DOMAIN Chunks[task.kern.prg] /\ ~Chunks[task.kern.prg][i].readonly
  /\ mem' = [x \in Addr |-> IF x \in ChunkSpan(task.kern.prg, i) \ CommSpan(task.kern.prg)
                            THEN Junk ELSE mem[x]]
  /\ UNCHANGED <<hostVars, buf, dev, task, finished>>

KernelHeader(bytes) == mem' = StoreAll(Comm[task.kern.prg].addr, bytes, HEAD)

KernelDone ==
  /\ Working /\ finished' = task.no
  /\ KernelHeader([o \in 0 .. HEAD - 1 |-> CommCell(NumArgs(task.kern) + 1, 1, o)])
  /\ UNCHANGED <<hostVars, buf, dev, task>>

KernelBreaks ==
  /\ Working
  /\ KernelHeader([o \in 0 .. HEAD - 1 |-> Junk])
  /\ UNCHANGED <<hostVars, buf, dev, task, finished>>

Halts == Port!Halts /\ UNCHANGED <<hostVars, buf, task, finished>>

--------------------------------------------------------------------------

Init ==
  /\ pc = "idle" /\ ret = "CL_SUCCESS" /\ launch = 0 /\ kern \in Kernels
  /\ idx = 0 /\ paddr = 0 /\ polls = 0 /\ loaded = {}
  /\ buf = [m \in Mems |-> [o \in 0 .. MemSize[m] - 1 |-> AppCell(0, m, o)]]
  /\ mem = [x \in Addr |-> Junk]
  /\ dev \in {"halted", "running"} /\ task = [kern |-> kern, no |-> 0] /\ finished = 0

App == (\E k \in Kernels : Launch(k)) \/ LaunchBadQueue \/ (\E m \in Mems : AppWrite(m))

Host == Reset \/ SkipChunk \/ SendChunk \/ SendHeader \/ RefuseArg \/ SendArgHead
        \/ SendPayload \/ Run \/ Stop \/ ReadHeader \/ Resume \/ Dequeue \/ Finish

Kernel == (\E j \in DOMAIN task.kern.args : KernelStore(j))
          \/ (task.kern.prg \in Programs /\ \E i \in DOMAIN Chunks[task.kern.prg] : KernelData(i))
          \/ KernelDone \/ KernelBreaks

Next == App \/ Host \/ Kernel \/ Halts

\* The host thread runs: clEnqueueNDRangeKernel has no wait other than its
\* bounded polling.  Nothing is assumed of the kernel.
Spec == Init /\ [][Next]_vars /\ WF_vars(Host)

--------------------------------------------------------------------------
(* Properties.                                                             *)

\* Types of the host thread's state, of the device and of the task.
TypeOK ==
  /\ pc \in {"idle", "reset", "chunks", "args", "payload", "poll", "check", "resume", "dequeue"}
  /\ ret \in Rets /\ launch \in Nat /\ kern \in Kernels
  /\ idx \in Nat /\ paddr \in Nat /\ polls \in 0 .. MaxPoll
  /\ loaded \subseteq Programs \X Nat
  /\ buf = [m \in Mems |-> [o \in 0 .. MemSize[m] - 1 |-> buf[m][o]]]
  /\ mem = [x \in Addr |-> mem[x]]
  /\ dev \in {"halted", "running"} /\ finished \in Nat
  /\ task \in [kern : Kernels, no : Nat]

\* The device operation of the host's next step, if it makes one.
NextCall ==
  LET Call(name, x, size) == [name |-> name, addr |-> x, size |-> size]
      a == ArgOf(kern, idx)
      c == Chunks[prg][idx]
  IN CASE pc = "reset" -> Call("reset", 0, 0)
       [] pc = "chunks" /\ idx \in DOMAIN Chunks[prg] /\ ~(c.readonly /\ <<prg, idx>> \in loaded) ->
            Call("write", c.paddr, c.size)
       [] pc = "chunks" /\ idx > Len(Chunks[prg]) -> Call("write", comm.addr, HEAD)
       [] pc = "args" /\ idx <= NumArgs(kern) /\ ArgError(a) = "CL_SUCCESS" /\ Fits(a) ->
            Call("write", paddr, HEAD)
       [] pc = "payload" /\ NeedWrite(a) -> Call("write", paddr, ArgSize(a))
       [] (pc = "args" /\ idx > NumArgs(kern)) \/ pc = "resume" -> Call("run", 0, 0)
       [] pc = "poll" -> Call("stop", 0, 0)
       [] pc = "check" -> Call("read", comm.addr, HEAD)
       [] pc = "dequeue" /\ idx <= NumArgs(kern) /\ NeedRead(a) ->
            Call("read", paddr + HEAD, ArgSize(a))
       [] OTHER -> Call("none", 0, 0)

\* The step changes nothing but what operation o may.
DoesOnly(o) ==
  /\ dev' # dev => o.name \in {"reset", "run", "stop"}
  /\ \A x \in Addr : mem'[x] # mem[x] => o.name = "write" /\ x \in Span(o.addr, o.size)
  /\ \A m \in Mems : \A i \in DOMAIN buf[m] : buf'[m][i] # buf[m][i] =>
       o.name = "read" /\ i < o.size /\ buf'[m][i] = mem[o.addr + i]

\* The host's half of the contract with the driver: each step of a launch is
\* one device operation that Device lets it ask for, or none, and nothing
\* else.  Whatever failed or timed out in this launch or an earlier one, it
\* moves memory and starts kernels only on a halted device; what it sends and
\* what it reads back, by the addresses it works out anew, is device memory.
CallsAreAllowed ==
  [][pc # "idle" => \/ UNCHANGED hostVars
                    \/ /\ NextCall.name # "none" => Port!MayCall(NextCall)
                       /\ DoesOnly(NextCall)]_vars

ReadyToRun == pc = "args" /\ idx > NumArgs(kern)

\* Chunk i of p is in device memory as the binary has it (outside the comm
\* area, which a data area may contain).
InPlace(p, i) ==
  \A x \in ChunkSpan(p, i) \ CommSpan(p) : mem[x] = ChunkCell(p, i, x - Chunks[p][i].paddr)

\* When a kernel is first started its whole image is in place, though
\* read-only areas are sent once and never again and the kernel before it
\* left its data behind.
ImageInPlace == ReadyToRun => \A i \in DOMAIN Chunks[prg] : InPlace(prg, i)

\* What the images must respect for that: a read-only chunk shares no address
\* with another chunk or a comm area, nor do two chunks of one program.
DisjointImages ==
  \A p, q \in Programs : \A i \in DOMAIN Chunks[p] :
    /\ Chunks[p][i].readonly => ChunkSpan(p, i) \cap CommSpan(q) = {}
    /\ \A j \in DOMAIN Chunks[q] :
         <<p, i>> # <<q, j>> /\ (Chunks[p][i].readonly \/ p = q) =>
           ChunkSpan(p, i) \cap ChunkSpan(q, j) = {}

\* The comm header is stored without a check of the size of the comm area.
RoomForHeader == \A p \in Programs : HEAD <= Comm[p].size

\* The comm header is a multiple of the alignment (16 and 8 in the code), so
\* that no gap follows it; that the comm area is aligned is up to the linker.
AlignedComm == HEAD % ALIGN = 0 /\ \A p \in Programs : Comm[p].addr % ALIGN = 0

\* No kernel takes one buffer twice.
EachBufferOnce ==
  \A k \in Kernels : \A i, j \in DOMAIN k.args :
    i # j /\ k.args[i].type = "MEM" /\ k.args[j].type = "MEM" => k.args[i].mem # k.args[j].mem

\* When a kernel is first started, the walk of the comm area by the sizes in
\* the headers finds every argument's header and, where the kernel may read
\* it, every argument's value: no argument overlaps another or the header.
DeviceSeesArguments ==
  ReadyToRun =>
    /\ Load(mem, comm.addr, HEAD) = [o \in 0 .. HEAD - 1 |-> CommCell(NumArgs(kern) + 1, 0, o)]
    /\ \A j \in 0 .. NumArgs(kern) :
         LET a == ArgOf(kern, j)
             x == SeenAt(kern)[j]
         IN /\ Load(mem, x, HEAD) = [o \in 0 .. HEAD - 1 |-> ArgHeadCell(j, a.type, ArgSize(a), o)]
            /\ NeedWrite(a) => Load(mem, x + HEAD, ArgSize(a)) = ArgBytes(launch, j, a)
            /\ x % ALIGN = comm.addr % ALIGN

\* The host stores only into the areas of the program it launches: its chunks
\* and its comm area.  Another program, resident or running, is not touched.
StoresOnlyIntoOwnAreas ==
  [][pc # "idle" /\ dev = "halted" /\ mem' # mem =>
       \A x \in Addr : mem'[x] # mem[x] =>
         x \in CommSpan(prg) \cup UNION {ChunkSpan(prg, i) : i \in DOMAIN Chunks[prg]}]_vars

\* A launch changes a host buffer, or returns CL_SUCCESS, only after the kernel
\* of this very launch has set done: a done left in memory by an earlier launch
\* is never taken for it.  It changes only buffers that are arguments which the
\* kernel may write.
ResultsOnlyWhenFinished ==
  [][pc # "idle" =>
       /\ buf' # buf \/ Finish => finished = launch
       /\ \A m \in Mems : buf'[m] # buf[m] =>
            \E j \in DOMAIN kern.args : NeedRead(kern.args[j]) /\ kern.args[j].mem = m]_vars

\* On CL_SUCCESS whatever the kernel stored through argument j is in the host
\* buffer of argument j, byte for byte.
OutputReachesBuffer ==
  [][Finish => \A j \in DOMAIN kern.args : NeedRead(kern.args[j]) =>
       LET m == kern.args[j].mem
           x == SeenAt(kern)[j] + HEAD
       IN mem[x] = OutCell(launch, j, 0) =>
            buf'[m] = [o \in 0 .. MemSize[m] - 1 |-> OutCell(launch, j, o)]]_vars

\* Reading back overwrites every buffer the kernel may write, stored into or
\* not.  A buffer that the kernel may also read comes back as the application
\* left it unless the kernel of this launch has stored into it, because it was
\* sent with this launch.  The one exception is a buffer that the kernel may
\* only write (CL_MEM_WRITE_ONLY): it is not sent, so one that the kernel left
\* alone comes back with whatever the comm area held.
UnwrittenBufferKept ==
  [][pc = "dequeue" =>
       \A m \in Mems : buf'[m] # buf[m] /\ m \in CanRead =>
         mem[SeenAt(kern)[idx] + HEAD] = OutCell(launch, idx, 0)]_vars

\* The most steps the host thread still makes in this launch.
StepsLeft ==
  LET args       == NumArgs(kern) + 1
      chunks     == IF prg = NullPrg THEN 0 ELSE Len(Chunks[prg])
      reading(i) == args + 1 - i
      polling(k) == 3 * (MaxPoll - k) + reading(0)
      sending(i) == 2 * (args - i) + 1 + polling(0)
  IN CASE pc = "idle"    -> 0
       [] pc = "reset"   -> chunks + 2 + sending(0)
       [] pc = "chunks"  -> chunks + 2 - idx + sending(0)
       [] pc = "args"    -> sending(idx)
       [] pc = "payload" -> sending(idx) - 1
       [] pc = "poll"    -> polling(polls)
       [] pc = "check"   -> polling(polls) - 1
       [] pc = "resume"  -> polling(polls) - 2
       [] pc = "dequeue" -> reading(idx)

\* A launch makes no more device operations than that, whatever fails and
\* whatever the kernel does: each step of the host thread leaves it fewer.
LaunchIsBounded ==
  [][pc # "idle" => UNCHANGED hostVars \/ (StepsLeft' < StepsLeft /\ StepsLeft' >= 0)]_vars

\* Every launch returns, even if the kernel never ends.
LaunchReturns == pc # "idle" ~> pc = "idle"
============================================================================
