--------------------------- MODULE OffloadProofs ---------------------------
(* Theorems about Offload for every device, every set of programs and      *)
(* every set of kernels.                                                   *)
EXTENDS Offload, WellFoundedInduction, TLAPS

\* Rounding up to the alignment never goes back.
LEMMA AlignUpGrows == \A x \in Nat : AlignUp(x) \in Nat /\ x <= AlignUp(x)
<1> SUFFICES ASSUME NEW x \in Nat PROVE AlignUp(x) \in Nat /\ x <= AlignUp(x)
  OBVIOUS
<1>1. ALIGN \in Nat \ {0}
  BY DeviceAssumption
<1>2. x \div ALIGN \in Nat /\ x % ALIGN \in 0 .. ALIGN - 1
  BY <1>1, SMT
<1>3. x = (ALIGN * (x \div ALIGN)) + (x % ALIGN)
  BY <1>1, SMT
<1>4. (x \div ALIGN + 1) * ALIGN = ALIGN * (x \div ALIGN) + ALIGN
  BY <1>1, <1>2, SMT
<1>5. (x \div ALIGN + 1) * ALIGN \in Nat
  BY <1>1, <1>2, SMT
<1> QED
  BY <1>1, <1>2, <1>3, <1>4, <1>5 DEF AlignUp

\* The arguments of a kernel object, its name first, are arguments.
LEMMA ArgsAreArgs == \A k \in Kernels : \A j \in 0 .. NumArgs(k) : ArgOf(k, j) \in Args
<1> SUFFICES ASSUME NEW k \in Kernels, NEW j \in 0 .. NumArgs(k) PROVE ArgOf(k, j) \in Args
  OBVIOUS
<1>1. k.args \in Seq(Args) /\ k.name \in Nat
  BY KernelAssumption
<1>2. CASE j = 0
  BY <1>1, <1>2 DEF ArgOf, NameArg, Args
<1>3. CASE j # 0
  BY <1>1, <1>3 DEF ArgOf, NumArgs
<1> QED
  BY <1>2, <1>3

\* An argument enqueue_arg does not refuse has a size.
LEMMA ArgSizeIsNat == \A a \in Args : ArgError(a) = "CL_SUCCESS" => ArgSize(a) \in Nat
<1> SUFFICES ASSUME NEW a \in Args, ArgError(a) = "CL_SUCCESS" PROVE ArgSize(a) \in Nat
  OBVIOUS
<1>1. CASE a.type = "MEM"
  <2>1. a.mem # NullMem
    BY <1>1 DEF ArgError
  <2>2. a.mem \in Mems
    BY <2>1 DEF Args
  <2> QED
    BY <1>1, <2>2, KernelAssumption DEF ArgSize
<1>2. CASE a.type # "MEM"
  BY <1>2 DEF ArgSize, Args
<1> QED
  BY <1>1, <1>2

\* What a dev_write_mem call leaves alone, and what it stores when the device
\* never fails silently.
LEMMA DevWriteEffect ==
  ASSUME NEW x \in Nat, NEW bytes, NEW size \in Nat, NEW r \in Rets, Port!Writes(x, bytes, size, r)
  PROVE  /\ mem' = [y \in Addr |-> mem'[y]]
         /\ \A y \in Addr \ Span(x, size) : mem'[y] = mem[y]
         /\ "silent" \notin Faults /\ r = "CL_SUCCESS" =>
              \A y \in Addr \cap Span(x, size) : mem'[y] = bytes[y - x]
<1>1. PICK cells \in SUBSET (0 .. size - 1) :
        Port!Moved(cells, size, r) /\ mem' = Port!Stored(x, bytes, cells)
  BY DEF Port!Writes
<1>2. \A y \in Addr : mem'[y] = IF y - x \in cells THEN bytes[y - x] ELSE mem[y]
  BY <1>1 DEF Port!Stored
<1>3. ASSUME NEW y \in Addr, y - x \in 0 .. size - 1 PROVE y \in Span(x, size)
  BY <1>3, DeviceAssumption DEF Span
<1>4. ASSUME NEW y \in Addr \cap Span(x, size) PROVE y - x \in 0 .. size - 1
  BY <1>4, DeviceAssumption DEF Span
<1>5. "silent" \notin Faults /\ r = "CL_SUCCESS" => cells = 0 .. size - 1
  BY <1>1 DEF Port!Moved, Port!Reported
<1>6. mem' = [y \in Addr |-> mem'[y]]
  BY <1>1 DEF Port!Stored
<1> QED
  BY <1>1, <1>2, <1>3, <1>4, <1>5, <1>6

--------------------------------------------------------------------------
(* The type invariant needs to know which program is launched, that the    *)
(* argument being sent was found to fit and that a poll is left; the rest  *)
(* of the inductive invariant is about the device being halted and, for    *)
(* the addresses read back, about where the second walk of the comm area   *)
(* is.                                                                     *)

Launched == {"chunks", "args", "payload", "poll", "check", "resume", "dequeue"}

\* The host moves device memory only while the device is halted.
TouchesHaltedDevice ==
  pc \in {"chunks", "args", "payload", "check", "resume", "dequeue"} => dev = "halted"

Placement ==
  /\ pc \in Launched => prg \in Programs
  /\ pc \in {"args", "payload", "dequeue"} => comm.addr <= paddr
  /\ pc = "payload" => LET a == ArgOf(kern, idx) IN
       /\ idx <= NumArgs(kern) /\ ArgError(a) = "CL_SUCCESS"
       /\ paddr + ArgSize(a) < comm.addr + comm.size
  /\ pc \in {"poll", "check", "resume"} => polls < MaxPoll
  /\ finished # task.no => task.kern.prg \in Programs

IInv == TypeOK /\ TouchesHaltedDevice /\ Placement

LEMMA InitIInv == Init => IInv
<1> SUFFICES ASSUME Init PROVE IInv
  OBVIOUS
<1>1. 0 \in 0 .. MaxPoll
  BY DeviceAssumption
<1>2. task \in [kern : Kernels, no : Nat]
  BY DEF Init
<1>3. buf = [m \in Mems |-> [o \in 0 .. MemSize[m] - 1 |-> buf[m][o]]]
  BY DEF Init
<1>4. TypeOK
  BY <1>1, <1>2, <1>3 DEF Init, TypeOK, Rets
<1> QED
  BY <1>4 DEF Init, IInv, TouchesHaltedDevice, Placement, Launched

\* What every proof about a program uses.
LEMMA ProgramFacts ==
  ASSUME NEW p \in Programs
  PROVE  /\ Comm[p].addr \in Nat /\ Comm[p].size \in Nat /\ Len(Chunks[p]) \in Nat
         /\ DOMAIN Chunks[p] = 1 .. Len(Chunks[p])
         /\ \A i \in DOMAIN Chunks[p] :
              Chunks[p][i].paddr \in Nat /\ Chunks[p][i].size \in Nat
<1>1. Chunks[p] \in Seq([paddr : Nat, size : Nat, readonly : BOOLEAN])
  BY ProgramAssumption
<1>2. Len(Chunks[p]) \in Nat /\ DOMAIN Chunks[p] = 1 .. Len(Chunks[p])
  BY <1>1
<1>3. \A i \in DOMAIN Chunks[p] : Chunks[p][i] \in [paddr : Nat, size : Nat, readonly : BOOLEAN]
  <2>1. \A S : \A s \in Seq(S) : \A i \in 1 .. Len(s) : s[i] \in S
    OBVIOUS
  <2> QED
    BY <1>1, <1>2, <2>1
<1>4. Comm[p] \in [addr : Nat, size : Nat]
  BY ProgramAssumption
<1> QED
  BY <1>2, <1>3, <1>4

\* A kernel object leads to a program or to none.
LEMMA KernelFacts ==
  ASSUME NEW k \in Kernels
  PROVE  k.prg \in Programs \cup {NullPrg} /\ NumArgs(k) \in Nat
BY KernelAssumption DEF NumArgs

LEMMA NextIInv == IInv /\ [Next]_vars => IInv'
<1> SUFFICES ASSUME IInv, [Next]_vars PROVE IInv'
  OBVIOUS
<1> USE DeviceAssumption
<1>0. /\ prg \in Programs \cup {NullPrg} /\ NumArgs(kern) \in Nat
      /\ idx \in Nat /\ paddr \in Nat /\ HEAD \in Nat
  BY KernelFacts DEF IInv, TypeOK, prg
<1>1. ASSUME NEW k \in Kernels, Launch(k) PROVE IInv'
  BY <1>1 DEF IInv, TypeOK, TouchesHaltedDevice, Placement, Launched, Launch
<1>2. CASE LaunchBadQueue
  BY <1>2 DEF IInv, TypeOK, TouchesHaltedDevice, Placement, Launched, LaunchBadQueue, Return, Rets
<1>3. ASSUME NEW m \in Mems, AppWrite(m) PROVE IInv'
  <2>1. buf' = [x \in Mems |-> [o \in 0 .. MemSize[x] - 1 |-> buf'[x][o]]]
    BY <1>3 DEF IInv, TypeOK, AppWrite
  <2> QED
    BY <1>3, <2>1 DEF IInv, TypeOK, TouchesHaltedDevice, Placement, Launched, AppWrite, hostVars,
       prg, comm
<1>4. CASE Reset
  <2>1. /\ pc = "reset" /\ dev' \in {"halted", dev} /\ pc' \in {"idle", "chunks"} /\ ret' \in Rets
        /\ pc' = "chunks" => dev' = "halted" /\ prg # NullPrg
        /\ idx' \in {idx, 1} /\ UNCHANGED <<launch, kern, paddr, polls, loaded, buf, mem, task, finished>>
    <3>1. PICK r \in Rets :
            /\ Port!Commands(r, "halted")
            /\ \/ r = "CL_SUCCESS" /\ prg = NullPrg /\ Return("CL_INVALID_PROGRAM") /\ UNCHANGED idx
               \/ r = "CL_SUCCESS" /\ prg # NullPrg /\ pc' = "chunks" /\ idx' = 1 /\ UNCHANGED ret
               \/ r # "CL_SUCCESS" /\ Return(r) /\ UNCHANGED idx
      BY <1>4 DEF Reset
    <3>2. dev' \in {"halted", dev} /\ (r = "CL_SUCCESS" => dev' = "halted")
      BY <3>1 DEF Port!Commands, Port!Reported
    <3>3. "CL_INVALID_PROGRAM" \in Rets /\ ret \in Rets
      BY DEF Rets, IInv, TypeOK
    <3> QED
      BY <1>4, <3>1, <3>2, <3>3 DEF Reset, Return
  <2> QED
    BY <1>0, <2>1 DEF IInv, TypeOK, TouchesHaltedDevice, Placement, Launched, prg
<1>5. CASE SkipChunk
  BY <1>0, <1>5 DEF IInv, TypeOK, TouchesHaltedDevice, Placement, Launched, SkipChunk, prg
<1>6. CASE SendChunk
  <2>1. prg \in Programs /\ pc = "chunks" /\ idx \in DOMAIN Chunks[prg]
    BY <1>6 DEF IInv, Placement, Launched, SendChunk
  <2>2. mem' = [x \in Addr |-> mem'[x]]
    BY <1>6, <2>1, ProgramFacts, DevWriteEffect DEF SendChunk
  <2>3. <<prg, idx>> \in Programs \X Nat
    BY <1>0, <2>1
  <2> QED
    BY <1>0, <1>6, <2>1, <2>2, <2>3
    DEF IInv, TypeOK, TouchesHaltedDevice, Placement, Launched, SendChunk, Return, Rets, prg
<1>7. CASE SendHeader
  <2>1. prg \in Programs /\ pc = "chunks"
    BY <1>7 DEF IInv, Placement, Launched, SendHeader
  <2>2. comm.addr \in Nat /\ AlignUp(HEAD) \in Nat
    BY <1>0, <2>1, ProgramFacts, AlignUpGrows DEF comm
  <2>3. mem' = [x \in Addr |-> mem'[x]]
    BY <1>0, <1>7, <2>2, DevWriteEffect DEF SendHeader
  <2>4. pc' \in {"args", "idle"} /\ kern' = kern /\ ret' \in Rets /\ idx' \in Nat
        /\ (pc' = "args" => paddr' = comm.addr + AlignUp(HEAD)) /\ paddr' \in Nat
    <3>1. comm.addr + AlignUp(HEAD) \in Nat /\ 0 \in Nat
      BY <2>2
    <3>2. PICK r \in Rets :
            \/ /\ r = "CL_SUCCESS" /\ UNCHANGED ret
               /\ pc' = "args" /\ idx' = 0 /\ paddr' = comm.addr + AlignUp(HEAD)
            \/ r # "CL_SUCCESS" /\ Return(r) /\ UNCHANGED <<idx, paddr>>
      BY <1>7 DEF SendHeader
    <3>3. ret \in Rets /\ kern' = kern
      BY <1>7 DEF IInv, TypeOK, SendHeader
    <3> QED
      BY <1>0, <3>1, <3>2, <3>3 DEF Return
  <2>5. comm.addr <= comm.addr + AlignUp(HEAD)
    BY <2>2
  <2>6. TypeOK'
    BY <1>7, <2>3, <2>4 DEF SendHeader, IInv, TypeOK
  <2>7. dev' = "halted" /\ UNCHANGED <<task, finished>>
    BY <1>7 DEF SendHeader, IInv, TouchesHaltedDevice
  <2> QED
    BY <2>1, <2>4, <2>5, <2>6, <2>7
    DEF IInv, TouchesHaltedDevice, Placement, Launched, prg, comm
<1>8. CASE RefuseArg
  <2>1. ret' \in Rets /\ pc' = "idle"
    BY <1>8 DEF RefuseArg, Return, Rets, ArgError
  <2> QED
    BY <1>8, <2>1 DEF IInv, TypeOK, TouchesHaltedDevice, Placement, Launched, RefuseArg
<1>9. CASE SendArgHead
  <2> DEFINE a == ArgOf(kern, idx)
  <2>1. prg \in Programs /\ pc = "args" /\ idx \in 0 .. NumArgs(kern) /\ ArgError(a) = "CL_SUCCESS"
    BY <1>0, <1>9 DEF IInv, Placement, Launched, SendArgHead
  <2>2. comm.addr \in Nat /\ comm.size \in Nat /\ ArgSize(a) \in Nat
    BY <2>1, ProgramFacts, ArgsAreArgs, ArgSizeIsNat DEF comm, IInv, TypeOK
  <2>3. mem' = [x \in Addr |-> mem'[x]]
    BY <1>0, <1>9, DevWriteEffect DEF SendArgHead
  <2>4. pc' = "payload" => paddr' + ArgSize(a) < comm.addr + comm.size /\ comm.addr <= paddr'
    <3>1. Fits(a) /\ comm.addr <= paddr
      BY <1>9, <2>1 DEF SendArgHead, IInv, Placement
    <3>2. ASSUME paddr' = paddr + HEAD
          PROVE  paddr' + ArgSize(a) < comm.addr + comm.size /\ comm.addr <= paddr'
      BY <1>0, <2>2, <3>1, <3>2 DEF Fits
    <3> QED
      BY <1>9, <3>2 DEF SendArgHead, Return
  <2>5. TypeOK'
    BY <1>0, <1>9, <2>3 DEF IInv, TypeOK, SendArgHead, Return, Rets
  <2>6. TouchesHaltedDevice'
    BY <1>9 DEF IInv, TouchesHaltedDevice, SendArgHead, Return
  <2>7. UNCHANGED <<kern, idx, task, finished>> /\ pc' \in {"payload", "idle"}
    BY <1>9 DEF SendArgHead, Return
  <2> QED
    BY <1>0, <2>1, <2>4, <2>5, <2>6, <2>7 DEF IInv, Placement, Launched, prg, comm, ArgOf, NumArgs, ArgSize, ArgError
<1>10. CASE SendPayload
  <2> DEFINE a == ArgOf(kern, idx)
  <2>1. prg \in Programs /\ pc = "payload" /\ idx \in 0 .. NumArgs(kern) /\ ArgError(a) = "CL_SUCCESS"
    BY <1>0, <1>10 DEF IInv, Placement, Launched, SendPayload
  <2>2. comm.addr \in Nat /\ comm.addr <= paddr /\ ArgSize(a) \in Nat
    BY <2>1, ProgramFacts, ArgsAreArgs, ArgSizeIsNat DEF comm, IInv, TypeOK, Placement
  <2>3. paddr + ArgSize(a) \in Nat /\ AlignUp(paddr + ArgSize(a)) \in Nat
        /\ comm.addr <= AlignUp(paddr + ArgSize(a))
    <3>1. paddr + ArgSize(a) \in Nat /\ comm.addr <= paddr + ArgSize(a)
      BY <1>0, <2>2, ProgramFacts, <2>1 DEF comm
    <3>2. comm.addr \in Nat
      BY <2>2
    <3> QED
      BY <3>1, <3>2, AlignUpGrows
  <2>4. mem' = [x \in Addr |-> mem'[x]]
    BY <1>0, <1>10, <2>2, DevWriteEffect DEF SendPayload, IInv, TypeOK
  <2>5. TypeOK'
    <3>1. PICK r \in Rets :
            \/ /\ r = "CL_SUCCESS" /\ UNCHANGED ret
               /\ pc' = "args" /\ idx' = idx + 1 /\ paddr' = AlignUp(paddr + ArgSize(a))
            \/ r # "CL_SUCCESS" /\ Return(r) /\ UNCHANGED <<idx, paddr>>
      BY <1>10 DEF SendPayload
    <3>2. pc' \in {"args", "idle"} /\ ret' \in Rets /\ idx' \in Nat /\ paddr' \in Nat
      BY <1>0, <2>3, <3>1 DEF Return, IInv, TypeOK
    <3>3. UNCHANGED <<launch, kern, polls, loaded, buf, dev, task, finished>>
      BY <1>10 DEF SendPayload
    <3> QED
      BY <2>4, <3>2, <3>3 DEF IInv, TypeOK
  <2>6. TouchesHaltedDevice'
    BY <1>10, <2>1 DEF IInv, TouchesHaltedDevice, SendPayload, Return
  <2>7. UNCHANGED <<kern, task, finished>> /\ pc' \in {"idle", "args"}
    BY <1>10 DEF SendPayload, Return
  <2>8. pc' = "args" => paddr' = AlignUp(paddr + ArgSize(a))
    BY <1>10 DEF SendPayload, Return
  <2> QED
    BY <2>1, <2>3, <2>5, <2>6, <2>7, <2>8 DEF IInv, Placement, Launched, prg, comm
<1>11. CASE Run
  <2>1. /\ pc = "args" /\ dev' \in {"running", dev} /\ pc' \in {"idle", "poll"} /\ ret' \in Rets
        /\ pc' = "poll" => polls' = 0 /\ task' = [kern |-> kern, no |-> launch]
        /\ pc' = "idle" => UNCHANGED <<polls, task>>
        /\ UNCHANGED <<launch, kern, idx, paddr, loaded, buf, mem, finished>>
    BY <1>11 DEF Run, Port!Commands, Return, Rets, IInv, TypeOK
  <2> QED
    BY <1>0, <2>1 DEF IInv, TypeOK, TouchesHaltedDevice, Placement, Launched, prg
<1>12. CASE Stop
  <2>1. /\ pc = "poll" /\ dev' \in {"halted", dev} /\ pc' \in {"idle", "check"} /\ ret' \in Rets
        /\ pc' = "check" => dev' = "halted"
        /\ UNCHANGED <<launch, kern, idx, paddr, polls, loaded, buf, mem, task, finished>>
    <3>1. PICK r \in Rets :
            /\ Port!Commands(r, "halted")
            /\ \/ r = "CL_SUCCESS" /\ pc' = "check" /\ UNCHANGED ret
               \/ r # "CL_SUCCESS" /\ Return(r)
      BY <1>12 DEF Stop
    <3>2. dev' \in {"halted", dev} /\ (r = "CL_SUCCESS" => dev' = "halted")
      BY <3>1 DEF Port!Commands, Port!Reported
    <3>3. ret \in Rets
      BY DEF IInv, TypeOK
    <3> QED
      BY <1>12, <3>1, <3>2, <3>3 DEF Stop, Return
  <2> QED
    BY <1>0, <2>1 DEF IInv, TypeOK, TouchesHaltedDevice, Placement, Launched, prg
<1>13. CASE ReadHeader
  <2>1. prg \in Programs /\ pc = "check"
    BY <1>13 DEF IInv, Placement, Launched, ReadHeader
  <2>2. comm.addr + HEAD \in Nat /\ comm.addr <= comm.addr + HEAD
    BY <1>0, <2>1, ProgramFacts DEF comm
  <2>3. /\ pc' \in {"idle", "dequeue", "resume"} /\ ret' \in Rets /\ idx' \in Nat /\ paddr' \in Nat
        /\ pc' = "dequeue" => paddr' = comm.addr + HEAD
        /\ UNCHANGED <<launch, kern, polls, loaded, buf, mem, dev, task, finished>>
    <3>1. "CL_INVALID_DEVICE" \in Rets /\ ret \in Rets
      BY DEF Rets, IInv, TypeOK
    <3>2. \/ \E r \in Rets : Return(r) /\ UNCHANGED <<idx, paddr>>
          \/ pc' = "dequeue" /\ idx' = 0 /\ paddr' = comm.addr + HEAD /\ UNCHANGED ret
          \/ pc' = "resume" /\ UNCHANGED <<ret, idx, paddr>>
      BY <1>13, <3>1 DEF ReadHeader
    <3>3. UNCHANGED <<launch, kern, polls, loaded, buf, mem, dev, task, finished>>
      BY <1>13 DEF ReadHeader
    <3> QED
      BY <1>0, <2>2, <3>1, <3>2, <3>3 DEF Return
  <2>4. TypeOK' /\ TouchesHaltedDevice'
    BY <2>1, <2>3 DEF IInv, TypeOK, TouchesHaltedDevice
  <2>5. comm' = comm /\ prg' = prg
    BY <2>3 DEF prg, comm
  <2> QED
    BY <2>1, <2>2, <2>3, <2>4, <2>5 DEF IInv, Placement, Launched
<1>14. CASE Resume
  <2>1. prg \in Programs /\ pc = "resume" /\ dev = "halted"
    BY <1>14 DEF IInv, Placement, Launched, TouchesHaltedDevice, Resume
  <2> QED
    BY <1>0, <1>14, <2>1
    DEF IInv, TypeOK, TouchesHaltedDevice, Placement, Launched, Resume, Port!Commands, Return, Rets, prg
<1>15. CASE Dequeue
  <2> DEFINE a == ArgOf(kern, idx)
  <2>1. prg \in Programs /\ pc = "dequeue" /\ idx \in 0 .. NumArgs(kern) /\ ArgError(a) = "CL_SUCCESS"
    BY <1>0, <1>15 DEF IInv, Placement, Launched, Dequeue
  <2>2. ArgSize(a) \in Nat
    BY <2>1, ArgsAreArgs, ArgSizeIsNat DEF IInv, TypeOK
  <2>3. AlignUp(paddr + HEAD + ArgSize(a)) \in Nat /\ comm.addr <= AlignUp(paddr + HEAD + ArgSize(a))
    <3>1. paddr + HEAD + ArgSize(a) \in Nat /\ comm.addr <= paddr /\ comm.addr \in Nat
      BY <1>0, <2>1, <2>2, ProgramFacts DEF comm, IInv, Placement
    <3>2. comm.addr <= paddr + HEAD + ArgSize(a)
      BY <1>0, <2>2, <3>1
    <3> QED
      BY <3>1, <3>2, AlignUpGrows
  <2>4. buf' = [x \in Mems |-> [o \in 0 .. MemSize[x] - 1 |-> buf'[x][o]]]
    <3>1. CASE UNCHANGED buf
      BY <3>1 DEF IInv, TypeOK
    <3>2. CASE \E r \in Rets : NeedRead(a) /\ ReadInto(a.mem, paddr + HEAD, r)
      <4>1. DOMAIN buf = Mems /\ \A x \in Mems : buf[x] = [o \in 0 .. MemSize[x] - 1 |-> buf[x][o]]
        BY DEF IInv, TypeOK
      <4>2. PICK cells : buf' = [buf EXCEPT ![a.mem] = Port!Loaded(buf[a.mem], paddr + HEAD, cells)]
        BY <3>2 DEF ReadInto, Port!Reads
      <4> QED
        BY <4>1, <4>2 DEF Port!Loaded
    <3> QED
      BY <1>15, <3>1, <3>2 DEF Dequeue
  <2>5. /\ pc' \in {"dequeue", "idle"} /\ ret' \in Rets /\ idx' \in Nat
        /\ paddr' \in {paddr, AlignUp(paddr + HEAD + ArgSize(a))}
        /\ UNCHANGED <<launch, kern, polls, loaded, mem, dev, task, finished>>
    BY <1>0, <1>15, <2>1 DEF IInv, TypeOK, Dequeue, Return
  <2>6. TypeOK' /\ TouchesHaltedDevice'
    BY <1>0, <2>1, <2>3, <2>4, <2>5 DEF IInv, TypeOK, TouchesHaltedDevice
  <2>7. comm' = comm /\ prg' = prg
    BY <2>5 DEF prg, comm
  <2> QED
    BY <2>1, <2>3, <2>5, <2>6, <2>7 DEF IInv, Placement, Launched
<1>16. CASE Finish
  BY <1>0, <1>16 DEF IInv, TypeOK, TouchesHaltedDevice, Placement, Launched, Finish, Return, Rets
<1>17. CASE Kernel
  <2>1. /\ UNCHANGED <<hostVars, buf, dev, task>> /\ finished' \in {finished, task.no}
        /\ mem' = [x \in Addr |-> mem'[x]]
    BY <1>17 DEF Kernel, KernelStore, KernelData, KernelDone, KernelBreaks, KernelHeader, StoreAll
  <2>2. finished' \in Nat
    BY <2>1 DEF IInv, TypeOK
  <2> QED
    BY <2>1, <2>2 DEF IInv, TypeOK, TouchesHaltedDevice, Placement, Launched, hostVars, prg, comm,
       ArgOf, NumArgs, ArgError, ArgSize
<1>18. CASE Halts \/ UNCHANGED vars
  <2>1. dev' \in {"halted", dev} /\ UNCHANGED <<hostVars, buf, mem, task, finished>>
    BY <1>18 DEF Halts, Port!Halts, vars, hostVars
  <2> QED
    BY <2>1 DEF IInv, TypeOK, TouchesHaltedDevice, Placement, Launched, hostVars, prg, comm, ArgOf, NumArgs,
       ArgError, ArgSize
<1> QED
  BY <1>1, <1>2, <1>3, <1>4, <1>5, <1>6, <1>7, <1>8, <1>9, <1>10, <1>11, <1>12, <1>13, <1>14, <1>15,
     <1>16, <1>17, <1>18 DEF Next, App, Host

\* Every state of Offload is well typed: paddr stays an address, polls within
\* the bound, however launches fail.
THEOREM TypeCorrect == Spec => []TypeOK
<1>1. Spec => []IInv
  BY InitIInv, NextIInv, PTL DEF Spec
<1>2. IInv => TypeOK
  BY DEF IInv
<1> QED
  BY <1>1, <1>2, PTL

\* The host moves device memory only while the device is halted, for every
\* program, kernel, poll bound and failure of a device operation.
THEOREM DeviceIsHalted == Spec => []TouchesHaltedDevice
<1>1. Spec => []IInv
  BY InitIInv, NextIInv, PTL DEF Spec
<1>2. IInv => TouchesHaltedDevice
  BY DEF IInv
<1> QED
  BY <1>1, <1>2, PTL

--------------------------------------------------------------------------
(* Where the host stores.                                                  *)

\* The header and the arguments go into the comm area.
LEMMA ArgumentsStayInComm ==
  ASSUME IInv, RoomForHeader, SendHeader \/ SendArgHead \/ SendPayload
  PROVE  prg \in Programs /\ \A y \in Addr \ CommSpan(prg) : mem'[y] = mem[y]
<1> USE DeviceAssumption
<1> DEFINE a == ArgOf(kern, idx)
<1>1. /\ prg \in Programs /\ NumArgs(kern) \in Nat /\ idx \in Nat /\ paddr \in Nat /\ HEAD \in Nat
      /\ comm.addr \in Nat /\ comm.size \in Nat
  <2>1. prg \in Programs
    BY DEF IInv, Placement, Launched, SendHeader, SendArgHead, SendPayload
  <2> QED
    BY <2>1, ProgramFacts, KernelFacts DEF IInv, TypeOK, comm
<1>2. ASSUME NEW x \in Nat, NEW size \in Nat, NEW bytes, NEW r \in Rets, Port!Writes(x, bytes, size, r),
             comm.addr <= x, x + size <= comm.addr + comm.size
      PROVE  \A y \in Addr \ CommSpan(prg) : mem'[y] = mem[y]
  <2>1. Span(x, size) \subseteq CommSpan(prg)
    BY <1>1, <1>2 DEF Span, CommSpan, comm
  <2>2. \A y \in Addr \ Span(x, size) : mem'[y] = mem[y]
    BY <1>2, DevWriteEffect
  <2> QED
    BY <2>1, <2>2
<1>3. CASE SendHeader
  <2>1. comm.addr + HEAD <= comm.addr + comm.size /\ comm.addr <= comm.addr
    BY <1>1 DEF RoomForHeader, comm
  <2>2. PICK r \in Rets :
          Port!Writes(comm.addr, [o \in 0 .. HEAD - 1 |-> CommCell(NumArgs(kern) + 1, 0, o)], HEAD, r)
    BY <1>3 DEF SendHeader
  <2> QED
    BY <1>1, <1>2, <2>1, <2>2
<1>4. CASE SendArgHead
  <2>1. ArgError(a) = "CL_SUCCESS" /\ Fits(a) /\ idx \in 0 .. NumArgs(kern) /\ comm.addr <= paddr
    BY <1>1, <1>4 DEF SendArgHead, IInv, Placement
  <2>2. ArgSize(a) \in Nat
    BY <2>1, ArgsAreArgs, ArgSizeIsNat DEF IInv, TypeOK
  <2>3. paddr + HEAD <= comm.addr + comm.size
    BY <1>1, <2>1, <2>2 DEF Fits
  <2>4. PICK r \in Rets : Port!Writes(paddr, [o \in 0 .. HEAD - 1 |->
                                     ArgHeadCell(idx, a.type, ArgSize(a), o)], HEAD, r)
    BY <1>4 DEF SendArgHead
  <2> QED
    BY <1>1, <1>2, <2>1, <2>3, <2>4
<1>5. CASE SendPayload
  <2>1. /\ ArgError(a) = "CL_SUCCESS" /\ idx \in 0 .. NumArgs(kern) /\ comm.addr <= paddr
        /\ paddr + ArgSize(a) < comm.addr + comm.size
    BY <1>1, <1>5 DEF SendPayload, IInv, Placement
  <2>2. ArgSize(a) \in Nat
    BY <2>1, ArgsAreArgs, ArgSizeIsNat DEF IInv, TypeOK
  <2>3. paddr + ArgSize(a) <= comm.addr + comm.size
    BY <1>1, <2>1, <2>2
  <2>4. \/ mem' = mem
        \/ \E r \in Rets : Port!Writes(paddr, ArgBytes(launch, idx, a), ArgSize(a), r)
    BY <1>5 DEF SendPayload
  <2> QED
    BY <1>1, <1>2, <2>1, <2>2, <2>3, <2>4
<1> QED
  BY <1>1, <1>3, <1>4, <1>5

\* A chunk that is sent goes to its own addresses.
LEMMA ChunkStaysInSpan ==
  ASSUME IInv, SendChunk
  PROVE  /\ prg \in Programs /\ idx \in DOMAIN Chunks[prg]
         /\ \A y \in Addr \ ChunkSpan(prg, idx) : mem'[y] = mem[y]
         /\ "silent" \notin Faults /\ pc' # "idle" =>
              \A p, i : p = prg /\ i = idx => InPlace(p, i)'
<1> DEFINE c == Chunks[prg][idx]
           bytes == [o \in 0 .. c.size - 1 |-> ChunkCell(prg, idx, o)]
<1>1. prg \in Programs /\ idx \in DOMAIN Chunks[prg]
  BY DEF IInv, Placement, Launched, SendChunk
<1>2. c.paddr \in Nat /\ c.size \in Nat
  BY <1>1, ProgramFacts
<1>3. PICK r \in Rets : Port!Writes(c.paddr, bytes, c.size, r) /\ (r # "CL_SUCCESS" => pc' = "idle")
  BY DEF SendChunk, Return
<1>4. \A y \in Addr \ ChunkSpan(prg, idx) : mem'[y] = mem[y]
  BY <1>2, <1>3, DevWriteEffect DEF ChunkSpan
<1>5. ASSUME "silent" \notin Faults, pc' # "idle", NEW p, NEW i, p = prg, i = idx
      PROVE  InPlace(p, i)'
  <2>1. \A y \in Addr \cap Span(c.paddr, c.size) : mem'[y] = bytes[y - c.paddr]
    BY <1>2, <1>3, <1>5, DevWriteEffect
  <2>2. \A y \in ChunkSpan(prg, idx) : y \in Addr /\ y - c.paddr \in 0 .. c.size - 1
    <3>1. ChunkSpan(prg, idx) \subseteq Addr
      BY <1>1, ProgramAssumption
    <3>2. \A y \in c.paddr .. c.paddr + c.size - 1 : y - c.paddr \in 0 .. c.size - 1
      BY <1>2
    <3> QED
      BY <1>2, <3>1, <3>2 DEF ChunkSpan, Span
  <2>3. \A y \in ChunkSpan(prg, idx) : mem'[y] = ChunkCell(prg, idx, y - c.paddr)
    BY <2>1, <2>2 DEF ChunkSpan
  <2> QED
    BY <1>5, <2>3 DEF InPlace
<1> QED
  BY <1>1, <1>4, <1>5

LEMMA OwnAreasStep ==
  ASSUME IInv, RoomForHeader, [Next]_vars, pc # "idle", dev = "halted", mem' # mem,
         NEW x \in Addr, mem'[x] # mem[x]
  PROVE  x \in CommSpan(prg) \cup UNION {ChunkSpan(prg, i) : i \in DOMAIN Chunks[prg]}
<1>1. CASE SendHeader \/ SendArgHead \/ SendPayload
  BY <1>1, ArgumentsStayInComm
<1>2. CASE SendChunk
  <2>1. x \in ChunkSpan(prg, idx) /\ idx \in DOMAIN Chunks[prg]
    BY <1>2, ChunkStaysInSpan
  <2> QED
    BY <2>1
<1>3. ~ Kernel
  BY DEF Kernel, KernelStore, KernelData, KernelDone, KernelBreaks, Working
<1>4. ~ App /\ ~ Halts
  BY DEF Halts, Port!Halts, App, Launch, LaunchBadQueue, AppWrite
<1> QED
  BY <1>1, <1>2, <1>3, <1>4 DEF Next, Host, Reset, SkipChunk, RefuseArg, Run, Stop, ReadHeader, Resume,
     Dequeue, Finish, vars

\* Whatever fails, the host stores only into the chunks and the comm area of
\* the program it launches, if the comm area has room for the comm header.
THEOREM OwnAreas == RoomForHeader => (Spec => StoresOnlyIntoOwnAreas)
<1> SUFFICES ASSUME RoomForHeader PROVE Spec => StoresOnlyIntoOwnAreas
  OBVIOUS
<1> DEFINE Own == pc # "idle" /\ dev = "halted" /\ mem' # mem =>
                    \A x \in Addr : mem'[x] # mem[x] =>
                      x \in CommSpan(prg) \cup UNION {ChunkSpan(prg, i) : i \in DOMAIN Chunks[prg]}
<1>1. IInv /\ [Next]_vars => Own
  BY OwnAreasStep
<1> QED
  BY <1>1, InitIInv, NextIInv, PTL DEF Spec, StoresOnlyIntoOwnAreas

--------------------------------------------------------------------------
(* What the host asks of the device: its half of the contract of Device.   *)

\* The call of NextCall, for each place in a launch.
Asks(name, x, size) == [name |-> name, addr |-> x, size |-> size]

LEMMA CallOfPlace ==
  ASSUME IInv
  PROVE  LET a == ArgOf(kern, idx) IN
    /\ pc = "reset"  => NextCall = Asks("reset", 0, 0)
    /\ SkipChunk     => NextCall = Asks("none", 0, 0)
    /\ SendChunk     => NextCall = Asks("write", Chunks[prg][idx].paddr, Chunks[prg][idx].size)
    /\ SendHeader    => NextCall = Asks("write", comm.addr, HEAD)
    /\ RefuseArg     => NextCall = Asks("none", 0, 0)
    /\ SendArgHead   => NextCall = Asks("write", paddr, HEAD)
    /\ pc = "payload" => NextCall = IF NeedWrite(a) THEN Asks("write", paddr, ArgSize(a))
                                                    ELSE Asks("none", 0, 0)
    /\ Run           => NextCall = Asks("run", 0, 0)
    /\ pc = "poll"   => NextCall = Asks("stop", 0, 0)
    /\ pc = "check"  => NextCall = Asks("read", comm.addr, HEAD)
    /\ pc = "resume" => NextCall = Asks("run", 0, 0)
    /\ Dequeue       => NextCall = IF NeedRead(a) THEN Asks("read", paddr + HEAD, ArgSize(a))
                                                  ELSE Asks("none", 0, 0)
    /\ Finish        => NextCall = Asks("none", 0, 0)
<1>1. idx \in Nat /\ NumArgs(kern) \in Nat
  BY KernelFacts DEF IInv, TypeOK
<1>2. pc = "chunks" => Len(Chunks[prg]) \in Nat /\ DOMAIN Chunks[prg] = 1 .. Len(Chunks[prg])
  BY ProgramFacts DEF IInv, Placement, Launched
<1>3. pc = "reset" => NextCall = Asks("reset", 0, 0)
  BY DEF NextCall, Asks
<1>4. SkipChunk => NextCall = Asks("none", 0, 0)
  BY <1>1, <1>2 DEF NextCall, Asks, SkipChunk
<1>5. SendChunk => NextCall = Asks("write", Chunks[prg][idx].paddr, Chunks[prg][idx].size)
  BY DEF NextCall, Asks, SendChunk
<1>6. SendHeader => NextCall = Asks("write", comm.addr, HEAD)
  BY <1>1, <1>2 DEF NextCall, Asks, SendHeader
<1>7. RefuseArg => NextCall = Asks("none", 0, 0)
  BY <1>1 DEF NextCall, Asks, RefuseArg
<1>8. SendArgHead => NextCall = Asks("write", paddr, HEAD)
  BY <1>1 DEF NextCall, Asks, SendArgHead
<1>9. pc = "payload" => NextCall = IF NeedWrite(ArgOf(kern, idx))
                                   THEN Asks("write", paddr, ArgSize(ArgOf(kern, idx)))
                                   ELSE Asks("none", 0, 0)
  BY DEF NextCall, Asks
<1>10. Run => NextCall = Asks("run", 0, 0)
  BY <1>1 DEF NextCall, Asks, Run
<1>11. pc = "poll" => NextCall = Asks("stop", 0, 0)
  BY DEF NextCall, Asks
<1>12. pc = "check" => NextCall = Asks("read", comm.addr, HEAD)
  BY DEF NextCall, Asks
<1>13. pc = "resume" => NextCall = Asks("run", 0, 0)
  BY DEF NextCall, Asks
<1>14. Dequeue => NextCall = IF NeedRead(ArgOf(kern, idx))
                             THEN Asks("read", paddr + HEAD, ArgSize(ArgOf(kern, idx)))
                             ELSE Asks("none", 0, 0)
  BY DEF NextCall, Asks, Dequeue
<1>15. Finish => NextCall = Asks("none", 0, 0)
  BY <1>1 DEF NextCall, Asks, Finish
<1> QED
  BY <1>3, <1>4, <1>5, <1>6, <1>7, <1>8, <1>9, <1>10, <1>11, <1>12, <1>13, <1>14, <1>15

\* A call without addresses may be made of a halted device, a reset and a stop
\* of any.
LEMMA CommandAllowed ==
  ASSUME NEW name \in {"reset", "stop", "run"}, name = "run" => dev = "halted"
  PROVE  Port!MayCall(Asks(name, 0, 0))
<1> DEFINE o == Asks(name, 0, 0)
<1>1. o.addr = 0 /\ o.size = 0 /\ o.name = name
  BY DEF Asks
<1>2. o.addr .. (o.addr + o.size - 1) = {}
  BY <1>1
<1>3. o.name \in Port!Names /\ (o.name \in {"run", "read", "write"} => dev = "halted")
  BY <1>1 DEF Port!Names
<1> HIDE DEF o
<1>4. Port!MayCall(o)
  BY <1>2, <1>3 DEF Port!MayCall
<1> QED
  BY <1>4 DEF o

\* A transfer may be made of a halted device, within device memory.
LEMMA TransferAllowed ==
  ASSUME NEW name \in {"read", "write"}, NEW x, NEW size, dev = "halted", Span(x, size) \subseteq Addr
  PROVE  Port!MayCall(Asks(name, x, size))
BY DEF Port!MayCall, Port!Names, Asks, Span

\* What lies between the ends of the comm area is device memory.
LEMMA InsideComm ==
  ASSUME NEW p \in Programs, NEW x \in Nat, NEW size \in Nat,
         Comm[p].addr <= x, x + size <= Comm[p].addr + Comm[p].size
  PROVE  Span(x, size) \subseteq Addr
<1>1. CommSpan(p) \subseteq Addr
  BY ProgramAssumption
<1>2. Span(x, size) \subseteq CommSpan(p)
  BY ProgramFacts DEF Span, CommSpan
<1> QED
  BY <1>1, <1>2

\* A write to x changes memory there and nothing else.
LEMMA WriteDoesOnly ==
  ASSUME NEW x \in Nat, NEW bytes, NEW size \in Nat, NEW r \in Rets, Port!Writes(x, bytes, size, r),
         UNCHANGED <<dev, buf>>
  PROVE  DoesOnly(Asks("write", x, size))
<1>1. \A y \in Addr : mem'[y] # mem[y] => y \in Span(x, size)
  BY DevWriteEffect
<1> QED
  BY <1>1 DEF DoesOnly, Asks

\* A read from x into buffer m leaves there what device memory holds at x.
LEMMA ReadDoesOnly ==
  ASSUME NEW m \in Mems, NEW x \in Nat, NEW r \in Rets, ReadInto(m, x, r), TypeOK, UNCHANGED <<dev, mem>>
  PROVE  DoesOnly(Asks("read", x, MemSize[m]))
<1>1. PICK cells \in SUBSET (0 .. MemSize[m] - 1) :
        buf' = [buf EXCEPT ![m] = Port!Loaded(buf[m], x, cells)]
  BY DEF ReadInto, Port!Reads
<1>2. DOMAIN buf = Mems /\ \A n \in Mems : buf[n] = [o \in 0 .. MemSize[n] - 1 |-> buf[n][o]]
  BY DEF TypeOK
<1>3. ASSUME NEW n \in Mems, NEW i \in DOMAIN buf[n], buf'[n][i] # buf[n][i]
      PROVE  i < MemSize[m] /\ buf'[n][i] = mem[x + i]
  <2>1. n = m
    BY <1>1, <1>2, <1>3
  <2>2. buf'[m] = Port!Loaded(buf[m], x, cells)
    BY <1>1, <1>2
  <2>3. i \in cells /\ buf'[m][i] = mem[x + i]
    BY <1>3, <2>1, <2>2 DEF Port!Loaded
  <2>4. i < MemSize[m]
    BY <1>1, <2>3, KernelAssumption
  <2> QED
    BY <2>1, <2>3, <2>4
<1> QED
  BY <1>3 DEF DoesOnly, Asks

\* A step that moves no memory makes a command or no call.
LEMMA CommandDoesOnly ==
  ASSUME NEW name, UNCHANGED <<mem, buf>>, dev' = dev \/ name \in {"reset", "run", "stop"}
  PROVE  DoesOnly(Asks(name, 0, 0))
BY DEF DoesOnly, Asks

Allowed == (NextCall.name # "none" => Port!MayCall(NextCall)) /\ DoesOnly(NextCall)

LEMMA NoneAllowed ==
  ASSUME NextCall = Asks("none", 0, 0), UNCHANGED <<dev, mem, buf>>
  PROVE  Allowed
<1>1. NextCall.name = "none"
  BY DEF Asks
<1> QED
  BY <1>1, CommandDoesOnly DEF Allowed

\* The calls of the host on its way to dev_run.
LEMMA SendingAllowed ==
  ASSUME IInv, RoomForHeader, SendChunk \/ SendHeader \/ SendArgHead \/ SendPayload
  PROVE  Allowed
<1> USE DeviceAssumption
<1> DEFINE a == ArgOf(kern, idx)
<1>1. dev = "halted" /\ UNCHANGED <<dev, buf>>
  BY DEF IInv, TouchesHaltedDevice, SendChunk, SendHeader, SendArgHead, SendPayload
<1>2. /\ prg \in Programs /\ NumArgs(kern) \in Nat /\ idx \in Nat /\ paddr \in Nat /\ HEAD \in Nat
      /\ comm.addr \in Nat /\ comm.size \in Nat
  <2>1. prg \in Programs
    BY DEF IInv, Placement, Launched, SendChunk, SendHeader, SendArgHead, SendPayload
  <2> QED
    BY <2>1, ProgramFacts, KernelFacts DEF IInv, TypeOK, comm
<1>3. ASSUME NEW x \in Nat, NEW size \in Nat, NEW bytes, NEW r \in Rets, Port!Writes(x, bytes, size, r),
             Span(x, size) \subseteq Addr, NextCall = Asks("write", x, size)
      PROVE  Allowed
  BY <1>1, <1>3, TransferAllowed, WriteDoesOnly DEF Allowed
<1>4. CASE SendChunk
  <2> DEFINE c == Chunks[prg][idx]
  <2>1. idx \in DOMAIN Chunks[prg]
    BY <1>4 DEF SendChunk
  <2>2. c.paddr \in Nat /\ c.size \in Nat /\ Span(c.paddr, c.size) \subseteq Addr
    BY <1>2, <2>1, ProgramFacts, ProgramAssumption DEF ChunkSpan
  <2>3. PICK r \in Rets : Port!Writes(c.paddr, [o \in 0 .. c.size - 1 |-> ChunkCell(prg, idx, o)], c.size, r)
    BY <1>4 DEF SendChunk
  <2>4. NextCall = Asks("write", c.paddr, c.size)
    BY <1>4, CallOfPlace
  <2> QED
    BY <1>3, <2>2, <2>3, <2>4
<1>5. CASE SendHeader
  <2>1. Span(comm.addr, HEAD) \subseteq Addr
    BY <1>2, InsideComm DEF RoomForHeader, comm
  <2>2. PICK r \in Rets :
          Port!Writes(comm.addr, [o \in 0 .. HEAD - 1 |-> CommCell(NumArgs(kern) + 1, 0, o)], HEAD, r)
    BY <1>5 DEF SendHeader
  <2>3. NextCall = Asks("write", comm.addr, HEAD)
    BY <1>5, CallOfPlace
  <2> QED
    BY <1>2, <1>3, <2>1, <2>2, <2>3
<1>6. CASE SendArgHead
  <2>1. ArgError(a) = "CL_SUCCESS" /\ Fits(a) /\ idx \in 0 .. NumArgs(kern) /\ comm.addr <= paddr
    BY <1>2, <1>6 DEF SendArgHead, IInv, Placement
  <2>2. ArgSize(a) \in Nat
    BY <2>1, ArgsAreArgs, ArgSizeIsNat DEF IInv, TypeOK
  <2>3. paddr + HEAD <= comm.addr + comm.size
    BY <1>2, <2>1, <2>2 DEF Fits
  <2>4. Span(paddr, HEAD) \subseteq Addr
    BY <1>2, <2>1, <2>3, InsideComm DEF comm
  <2>5. PICK r \in Rets : Port!Writes(paddr, [o \in 0 .. HEAD - 1 |->
                                     ArgHeadCell(idx, a.type, ArgSize(a), o)], HEAD, r)
    BY <1>6 DEF SendArgHead
  <2>6. NextCall = Asks("write", paddr, HEAD)
    BY <1>6, CallOfPlace
  <2> QED
    BY <1>2, <1>3, <2>4, <2>5, <2>6
<1>7. CASE SendPayload
  <2>1. /\ ArgError(a) = "CL_SUCCESS" /\ idx \in 0 .. NumArgs(kern) /\ comm.addr <= paddr
        /\ paddr + ArgSize(a) < comm.addr + comm.size /\ pc = "payload"
    BY <1>2, <1>7 DEF SendPayload, IInv, Placement
  <2>2. ArgSize(a) \in Nat
    BY <2>1, ArgsAreArgs, ArgSizeIsNat DEF IInv, TypeOK
  <2>3. paddr + ArgSize(a) <= comm.addr + comm.size
    BY <1>2, <2>1, <2>2
  <2>4. Span(paddr, ArgSize(a)) \subseteq Addr
    BY <1>2, <2>1, <2>2, <2>3, InsideComm DEF comm
  <2>5. CASE ~NeedWrite(a)
    <3>1. UNCHANGED mem
      BY <1>7, <2>5 DEF SendPayload
    <3>2. NextCall = Asks("none", 0, 0)
      BY <2>1, <2>5, CallOfPlace
    <3> QED
      BY <1>1, <3>1, <3>2, NoneAllowed
  <2>6. CASE NeedWrite(a)
    <3>1. PICK r \in Rets : Port!Writes(paddr, ArgBytes(launch, idx, a), ArgSize(a), r)
      BY <1>7, <2>6 DEF SendPayload
    <3>2. NextCall = Asks("write", paddr, ArgSize(a))
      BY <2>1, <2>6, CallOfPlace
    <3> QED
      BY <1>2, <1>3, <2>2, <2>4, <3>1, <3>2
  <2> QED
    BY <2>5, <2>6
<1> QED
  BY <1>4, <1>5, <1>6, <1>7

\* The calls of the host that read device memory.
LEMMA ReadingAllowed ==
  ASSUME IInv, RoomForHeader, ReadHeader \/ Dequeue
  PROVE  Allowed
<1> USE DeviceAssumption
<1> DEFINE a == ArgOf(kern, idx)
<1>1. dev = "halted" /\ UNCHANGED <<dev, mem>>
  BY DEF IInv, TouchesHaltedDevice, ReadHeader, Dequeue
<1>2. /\ prg \in Programs /\ NumArgs(kern) \in Nat /\ idx \in Nat /\ paddr \in Nat /\ HEAD \in Nat
      /\ comm.addr \in Nat /\ comm.size \in Nat
  <2>1. prg \in Programs
    BY DEF IInv, Placement, Launched, ReadHeader, Dequeue
  <2> QED
    BY <2>1, ProgramFacts, KernelFacts DEF IInv, TypeOK, comm
<1>3. CASE ReadHeader
  <2>1. Span(comm.addr, HEAD) \subseteq Addr
    BY <1>2, InsideComm DEF RoomForHeader, comm
  <2>2. NextCall = Asks("read", comm.addr, HEAD)
    BY <1>3, CallOfPlace DEF ReadHeader
  <2>3. UNCHANGED buf
    BY <1>3 DEF ReadHeader
  <2>4. DoesOnly(Asks("read", comm.addr, HEAD))
    BY <1>1, <2>3 DEF DoesOnly
  <2> QED
    BY <1>1, <2>1, <2>2, <2>4, TransferAllowed DEF Allowed
<1>4. CASE Dequeue
  <2>1. /\ ArgError(a) = "CL_SUCCESS" /\ Fits(a) /\ idx \in 0 .. NumArgs(kern) /\ comm.addr <= paddr
    BY <1>2, <1>4 DEF Dequeue, IInv, Placement
  <2>2. a \in Args /\ ArgSize(a) \in Nat
    BY <2>1, ArgsAreArgs, ArgSizeIsNat DEF IInv, TypeOK
  <2>3. Span(paddr + HEAD, ArgSize(a)) \subseteq Addr
    <3>1. /\ paddr + HEAD \in Nat /\ comm.addr <= paddr + HEAD
          /\ paddr + HEAD + ArgSize(a) <= comm.addr + comm.size
      BY <1>2, <2>1, <2>2 DEF Fits
    <3> QED
      BY <1>2, <2>2, <3>1, InsideComm DEF comm
  <2>4. CASE ~NeedRead(a)
    <3>1. NextCall = Asks("none", 0, 0)
      BY <1>4, <2>4, CallOfPlace
    <3>2. UNCHANGED buf
      BY <1>4, <2>4 DEF Dequeue
    <3> QED
      BY <1>1, <3>1, <3>2, NoneAllowed
  <2>5. CASE NeedRead(a)
    <3>1. PICK r \in Rets : ReadInto(a.mem, paddr + HEAD, r)
      BY <1>4, <2>5 DEF Dequeue
    <3>2. a.mem \in Mems /\ ArgSize(a) = MemSize[a.mem]
      BY <2>5, KernelAssumption DEF NeedRead, ArgSize
    <3>3. NextCall = Asks("read", paddr + HEAD, ArgSize(a))
      BY <1>4, <2>5, CallOfPlace
    <3>4. paddr + HEAD \in Nat /\ TypeOK
      BY <1>2 DEF IInv
    <3>5. DoesOnly(Asks("read", paddr + HEAD, ArgSize(a)))
      BY <1>1, <3>1, <3>2, <3>4, ReadDoesOnly
    <3> QED
      BY <1>1, <2>3, <3>3, <3>5, TransferAllowed DEF Allowed
  <2> QED
    BY <2>4, <2>5
<1> QED
  BY <1>3, <1>4

\* The calls that start and stop the device, and the steps without a call.
LEMMA CommandsAllowed ==
  ASSUME IInv, Reset \/ Run \/ Stop \/ Resume \/ SkipChunk \/ RefuseArg \/ Finish
  PROVE  Allowed
<1>1. CASE Reset
  <2>1. NextCall = Asks("reset", 0, 0) /\ UNCHANGED <<mem, buf>>
    BY <1>1, CallOfPlace DEF Reset
  <2> QED
    BY <2>1, CommandAllowed, CommandDoesOnly DEF Allowed
<1>2. CASE Run \/ Resume
  <2>1. NextCall = Asks("run", 0, 0) /\ UNCHANGED <<mem, buf>> /\ dev = "halted"
    BY <1>2, CallOfPlace DEF Run, Resume, IInv, TouchesHaltedDevice
  <2> QED
    BY <2>1, CommandAllowed, CommandDoesOnly DEF Allowed
<1>3. CASE Stop
  <2>1. NextCall = Asks("stop", 0, 0) /\ UNCHANGED <<mem, buf>>
    BY <1>3, CallOfPlace DEF Stop
  <2> QED
    BY <2>1, CommandAllowed, CommandDoesOnly DEF Allowed
<1>4. CASE SkipChunk \/ RefuseArg \/ Finish
  <2>1. NextCall = Asks("none", 0, 0)
    BY <1>4, CallOfPlace
  <2>2. UNCHANGED <<dev, mem, buf>>
    BY <1>4 DEF SkipChunk, RefuseArg, Finish
  <2> QED
    BY <2>1, <2>2, NoneAllowed
<1> QED
  BY <1>1, <1>2, <1>3, <1>4

\* Each step of a launch is one call that Device allows, or none, and does
\* nothing else, for every program, kernel, failure and number of polls, if the
\* comm area has room for the comm header.
THEOREM HostCallsAllowed == RoomForHeader => (Spec => CallsAreAllowed)
<1> SUFFICES ASSUME RoomForHeader PROVE Spec => CallsAreAllowed
  OBVIOUS
<1> DEFINE Keeps == pc # "idle" => UNCHANGED hostVars \/ Allowed
<1>1. ASSUME IInv, [Next]_vars PROVE Keeps
  <2>1. CASE Host
    BY <1>1, <2>1, SendingAllowed, ReadingAllowed, CommandsAllowed DEF Host
  <2>2. CASE App
    BY <2>2 DEF App, Launch, LaunchBadQueue, AppWrite
  <2>3. CASE Kernel \/ Halts \/ UNCHANGED vars
    BY <2>3 DEF Kernel, KernelStore, KernelData, KernelDone, KernelBreaks, Halts, vars, hostVars
  <2> QED
    BY <1>1, <2>1, <2>2, <2>3 DEF Next
<1>2. Keeps => (pc # "idle" => \/ UNCHANGED hostVars
                              \/ /\ NextCall.name # "none" => Port!MayCall(NextCall)
                                 /\ DoesOnly(NextCall))
  BY DEF Allowed
<1>3. IInv /\ [Next]_vars => (pc # "idle" => \/ UNCHANGED hostVars
                              \/ /\ NextCall.name # "none" => Port!MayCall(NextCall)
                                 /\ DoesOnly(NextCall))
  BY <1>1, <1>2
<1> HIDE DEF Keeps
<1> QED
  BY <1>3, InitIInv, NextIInv, PTL DEF Spec, CallsAreAllowed

--------------------------------------------------------------------------
(* What is in device memory.  loaded alone says nothing of it: that a      *)
(* read-only chunk marked loaded is still there needs the images apart.    *)

ImageInv ==
  /\ \A p \in Programs : \A i \in DOMAIN Chunks[p] :
       <<p, i>> \in loaded /\ Chunks[p][i].readonly => InPlace(p, i)
  /\ pc = "chunks" => \A i \in DOMAIN Chunks[prg] : i < idx => InPlace(prg, i)
  /\ pc \in {"args", "payload"} => \A i \in DOMAIN Chunks[prg] : InPlace(prg, i)

\* A chunk stays in place while its own cells, but for the comm area, are left alone.
LEMMA KeptInPlace ==
  ASSUME NEW p \in Programs, NEW i \in DOMAIN Chunks[p], InPlace(p, i),
         \A x \in ChunkSpan(p, i) \ CommSpan(p) : mem'[x] = mem[x]
  PROVE  InPlace(p, i)'
BY DEF InPlace

\* A step that leaves read-only chunks alone keeps the loaded ones in place.
LEMMA LoadedKept ==
  ASSUME ImageInv, UNCHANGED loaded,
         \A p \in Programs : \A i \in DOMAIN Chunks[p] : Chunks[p][i].readonly =>
           \A x \in ChunkSpan(p, i) : mem'[x] = mem[x]
  PROVE  \A p \in Programs : \A i \in DOMAIN Chunks[p] :
           <<p, i>> \in loaded' /\ Chunks[p][i].readonly => InPlace(p, i)'
<1> SUFFICES ASSUME NEW p \in Programs, NEW i \in DOMAIN Chunks[p], <<p, i>> \in loaded,
                    Chunks[p][i].readonly
             PROVE  InPlace(p, i)'
  OBVIOUS
<1>1. InPlace(p, i)
  BY DEF ImageInv
<1> QED
  BY <1>1, KeptInPlace

\* The kernel stores into the comm area and the data areas of its program.
LEMMA KernelSpares ==
  ASSUME IInv, RoomForHeader, DisjointImages, Kernel
  PROVE  \A p \in Programs : \A i \in DOMAIN Chunks[p] : Chunks[p][i].readonly =>
           \A x \in ChunkSpan(p, i) : mem'[x] = mem[x]
<1> DEFINE q == task.kern.prg
<1>0. HEAD \in Nat
  BY DeviceAssumption
<1>1. q \in Programs
  BY DEF Kernel, KernelStore, KernelData, KernelDone, KernelBreaks, Working, IInv, Placement
<1> SUFFICES ASSUME NEW p \in Programs, NEW i \in DOMAIN Chunks[p], Chunks[p][i].readonly,
                    NEW x \in ChunkSpan(p, i)
             PROVE  mem'[x] = mem[x]
  OBVIOUS
<1>2. x \notin CommSpan(q) /\ x \in Addr
  BY <1>1, ProgramAssumption DEF DisjointImages
<1>3. ASSUME NEW j \in DOMAIN task.kern.args, KernelStore(j) PROVE mem'[x] = mem[x]
  BY <1>2, <1>3 DEF KernelStore, StoreAll
<1>4. ASSUME NEW j \in DOMAIN Chunks[q], KernelData(j) PROVE mem'[x] = mem[x]
  <2>1. <<p, i>> # <<q, j>>
    BY <1>4 DEF KernelData
  <2>2. x \notin ChunkSpan(q, j)
    BY <1>1, <2>1 DEF DisjointImages
  <2> QED
    BY <1>2, <1>4, <2>2 DEF KernelData
<1>5. Span(Comm[q].addr, HEAD) \subseteq CommSpan(q)
  <2>1. HEAD <= Comm[q].size /\ Comm[q].addr \in Nat /\ Comm[q].size \in Nat
    BY <1>1, ProgramFacts DEF RoomForHeader
  <2> QED
    BY <1>0, <2>1 DEF Span, CommSpan
<1>6. CASE KernelDone \/ KernelBreaks
  BY <1>2, <1>5, <1>6 DEF KernelDone, KernelBreaks, KernelHeader, StoreAll
<1> QED
  BY <1>3, <1>4, <1>6 DEF Kernel

LEMMA ImageStep ==
  ASSUME IInv, ImageInv, [Next]_vars, RoomForHeader, DisjointImages, "silent" \notin Faults
  PROVE  ImageInv'
<1>0. idx \in Nat
  BY DEF IInv, TypeOK
<1>1. CASE SendHeader \/ SendArgHead \/ SendPayload
  <2>1. prg \in Programs /\ (\A y \in Addr \ CommSpan(prg) : mem'[y] = mem[y])
    BY <1>1, ArgumentsStayInComm
  <2>2. UNCHANGED <<loaded, kern>> /\ pc \in {"chunks", "args", "payload"} /\ pc' # "chunks"
    BY <1>1 DEF SendHeader, SendArgHead, SendPayload, Return
  <2>3. \A p \in Programs : \A i \in DOMAIN Chunks[p] : Chunks[p][i].readonly =>
          \A x \in ChunkSpan(p, i) : mem'[x] = mem[x]
    BY <2>1, ProgramAssumption DEF DisjointImages
  <2>4. \A i \in DOMAIN Chunks[prg] : InPlace(prg, i)
    <3>1. CASE pc # "chunks"
      BY <2>2, <3>1 DEF ImageInv
    <3>2. CASE pc = "chunks"
      <4>1. idx > Len(Chunks[prg])
        BY <1>1, <3>2 DEF SendHeader, SendArgHead, SendPayload
      <4>2. \A i \in DOMAIN Chunks[prg] : i < idx
        BY <1>0, <2>1, <4>1, ProgramFacts
      <4> QED
        BY <3>2, <4>2 DEF ImageInv
    <3> QED
      BY <3>1, <3>2
  <2>5. ASSUME NEW p \in Programs, p = prg, NEW i \in DOMAIN Chunks[p] PROVE InPlace(p, i)'
    <3>1. \A x \in ChunkSpan(p, i) \ CommSpan(p) : mem'[x] = mem[x]
      BY <2>1, <2>5, ProgramAssumption
    <3> QED
      BY <2>4, <2>5, <3>1, KeptInPlace
  <2>6. prg' = prg
    BY <2>2 DEF prg
  <2> QED
    BY <2>1, <2>2, <2>3, <2>5, <2>6, LoadedKept DEF ImageInv
<1>2. CASE SendChunk
  <2>1. /\ prg \in Programs /\ idx \in DOMAIN Chunks[prg]
        /\ \A y \in Addr \ ChunkSpan(prg, idx) : mem'[y] = mem[y]
    BY <1>2, ChunkStaysInSpan
  <2>2. \A p \in Programs : \A i \in DOMAIN Chunks[p] :
          p = prg /\ i = idx /\ pc' # "idle" => InPlace(p, i)'
    BY <1>2, ChunkStaysInSpan
  <2>3. ASSUME NEW p \in Programs, NEW i \in DOMAIN Chunks[p], <<p, i>> # <<prg, idx>>,
               Chunks[p][i].readonly \/ p = prg, InPlace(p, i)
        PROVE  InPlace(p, i)'
    <3>1. ChunkSpan(p, i) \cap ChunkSpan(prg, idx) = {}
      BY <2>1, <2>3 DEF DisjointImages
    <3>2. \A x \in ChunkSpan(p, i) \ CommSpan(p) : mem'[x] = mem[x]
      BY <2>1, <3>1, ProgramAssumption
    <3> QED
      BY <2>3, <3>2, KeptInPlace
  <2>4. /\ pc = "chunks" /\ UNCHANGED kern
        /\ ~(Chunks[prg][idx].readonly /\ <<prg, idx>> \in loaded)
        /\ \/ pc' = "chunks" /\ loaded' = loaded \cup {<<prg, idx>>} /\ idx' = idx + 1
           \/ pc' = "idle" /\ UNCHANGED loaded
    BY <1>2 DEF SendChunk, Return
  <2>5. prg' = prg
    BY <2>4 DEF prg
  <2>6. ASSUME NEW p \in Programs, NEW i \in DOMAIN Chunks[p], <<p, i>> \in loaded',
               Chunks[p][i].readonly
        PROVE  InPlace(p, i)'
    <3>1. CASE <<p, i>> \in loaded
      <4>1. <<p, i>> # <<prg, idx>> /\ InPlace(p, i)
        BY <2>4, <2>6, <3>1 DEF ImageInv
      <4> QED
        BY <2>3, <2>6, <4>1
    <3>2. CASE <<p, i>> \notin loaded
      BY <2>2, <2>4, <2>6, <3>2
    <3> QED
      BY <3>1, <3>2
  <2>7. ASSUME pc' = "chunks", NEW p \in Programs, p = prg, NEW i \in DOMAIN Chunks[p], i < idx + 1
        PROVE  InPlace(p, i)'
    <3>1. CASE i = idx
      BY <2>2, <2>7, <3>1
    <3>2. CASE i # idx
      <4>1. i < idx
        BY <1>0, <2>7, <3>2, ProgramFacts
      <4> QED
        BY <2>3, <2>4, <2>7, <3>2, <4>1 DEF ImageInv
    <3> QED
      BY <3>1, <3>2
  <2> QED
    BY <2>1, <2>4, <2>5, <2>6, <2>7 DEF ImageInv
<1>3. CASE Kernel
  <2>1. UNCHANGED hostVars /\ pc \notin {"chunks", "args", "payload"}
    BY <1>3 DEF Kernel, KernelStore, KernelData, KernelDone, KernelBreaks, Working, IInv,
       TouchesHaltedDevice
  <2> QED
    BY <1>3, <2>1, KernelSpares, LoadedKept DEF ImageInv, hostVars
<1>4. CASE SkipChunk
  <2>1. prg \in Programs /\ idx \in DOMAIN Chunks[prg] /\ InPlace(prg, idx) /\ pc = "chunks"
    BY <1>4 DEF SkipChunk, IInv, Placement, Launched, ImageInv
  <2>2. \A i \in DOMAIN Chunks[prg] : i < idx + 1 => i < idx \/ i = idx
    BY <1>0, <2>1, ProgramFacts
  <2>3. UNCHANGED <<pc, kern, mem, loaded>> /\ idx' = idx + 1
    BY <1>4 DEF SkipChunk
  <2> QED
    BY <2>1, <2>2, <2>3 DEF ImageInv, InPlace, prg
<1>5. CASE Reset
  <2>1. \A p \in Programs : \A i \in DOMAIN Chunks[p] : ~ (i < 1)
    BY ProgramFacts
  <2>2. UNCHANGED <<kern, mem, loaded>> /\ (pc' = "idle" \/ (pc' = "chunks" /\ idx' = 1 /\ prg \in Programs))
    <3>1. prg \in Programs \cup {NullPrg}
      BY KernelFacts DEF IInv, TypeOK, prg
    <3> QED
      BY <1>5, <3>1 DEF Reset, Return
  <2> QED
    BY <2>1, <2>2 DEF ImageInv, InPlace, prg
<1>6. CASE App \/ RefuseArg \/ Run \/ Stop \/ ReadHeader \/ Resume \/ Dequeue \/ Finish
  <2>1. UNCHANGED <<mem, loaded>> /\ pc' \notin {"chunks", "args", "payload"}
    BY <1>6 DEF App, Launch, LaunchBadQueue, AppWrite, RefuseArg, Run, Stop, ReadHeader, Resume,
       Dequeue, Finish, Return, hostVars
  <2> QED
    BY <2>1 DEF ImageInv, InPlace
<1>7. CASE UNCHANGED vars
  BY <1>7 DEF ImageInv, InPlace, vars, prg
<1>8. CASE Halts
  BY <1>8 DEF ImageInv, InPlace, Halts, Port!Halts, hostVars, prg
<1> QED
  BY <1>1, <1>2, <1>3, <1>4, <1>5, <1>6, <1>7, <1>8 DEF Next, Host

\* When a kernel is started its image is in device memory, however many
\* programs share the device and whatever failed before, if read-only areas
\* share no address with any other area and no device operation fails
\* without saying so.
THEOREM ImageIsInPlace ==
  RoomForHeader /\ DisjointImages /\ "silent" \notin Faults => (Spec => []ImageInPlace)
<1> SUFFICES ASSUME RoomForHeader, DisjointImages, "silent" \notin Faults
             PROVE  Spec => []ImageInPlace
  OBVIOUS
<1>1. Init => IInv /\ ImageInv
  BY InitIInv DEF Init, ImageInv
<1>2. IInv /\ ImageInv /\ [Next]_vars => (IInv /\ ImageInv)'
  BY NextIInv, ImageStep
<1>3. IInv /\ ImageInv => ImageInPlace
  BY DEF ImageInv, ImageInPlace, ReadyToRun
<1> QED
  BY <1>1, <1>2, <1>3, PTL DEF Spec

--------------------------------------------------------------------------
(* What the device sees of the arguments.  The walk of the comm area by    *)
(* the sizes found in it visits the very addresses at which the host has   *)
(* put the arguments: f[j] is that of argument j, f[idx] that of the next. *)

\* The header of argument j is in device memory at x, and its value behind it.
HeadAt(j, x) ==
  LET a == ArgOf(kern, j)
  IN /\ \A o \in 0 .. HEAD - 1 : mem[x + o] = ArgHeadCell(j, a.type, ArgSize(a), o)
     /\ ArgError(a) = "CL_SUCCESS" /\ j <= NumArgs(kern)
     /\ x + HEAD + ArgSize(a) < comm.addr + comm.size

ValueAt(j, x) ==
  LET a == ArgOf(kern, j)
  IN NeedWrite(a) => \A o \in 0 .. ArgSize(a) - 1 : mem[x + HEAD + o] = ArgBytes(launch, j, a)[o]

End(j, x) == x + HEAD + ArgSize(ArgOf(kern, j))

Places(n, f) ==
  /\ f \in [0 .. n -> Nat] /\ f[0] = comm.addr + HEAD
  /\ \A j \in 0 .. n - 1 :
       /\ HeadAt(j, f[j]) /\ f[j + 1] = AlignUp(End(j, f[j])) /\ comm.addr + HEAD <= f[j]
       /\ \A l \in j + 1 .. n : End(j, f[j]) <= f[l]

LaidOut(n, f) == Places(n, f) /\ \A j \in 0 .. n - 1 : ValueAt(j, f[j])

CommHeadAt ==
  \A o \in 0 .. HEAD - 1 : comm.addr + o \in Addr =>
    mem[comm.addr + o] = CommCell(NumArgs(kern) + 1, 0, o)

ArgInv ==
  pc \in {"args", "payload"} =>
    /\ CommHeadAt
    /\ \E f : /\ LaidOut(idx, f)
              /\ pc = "args" => paddr = f[idx]
              /\ pc = "payload" => paddr = f[idx] + HEAD /\ HeadAt(idx, f[idx])

--------------------------------------------------------------------------
(* Alignment.                                                              *)

\* Division by the alignment.
LEMMA ModFacts == \A x \in Nat : /\ x \div ALIGN \in Nat /\ x % ALIGN \in 0 .. ALIGN - 1
                                 /\ x = (ALIGN * (x \div ALIGN)) + (x % ALIGN)
<1> SUFFICES ASSUME NEW x \in Nat
             PROVE  /\ x \div ALIGN \in Nat /\ x % ALIGN \in 0 .. ALIGN - 1
                    /\ x = (ALIGN * (x \div ALIGN)) + (x % ALIGN)
  OBVIOUS
<1>1. ALIGN \in Nat \ {0}
  BY DeviceAssumption
<1>2. x \div ALIGN \in Nat /\ x % ALIGN \in 0 .. ALIGN - 1
  BY <1>1, SMT
<1>3. x = (ALIGN * (x \div ALIGN)) + (x % ALIGN)
  BY <1>1, SMT
<1> QED BY <1>2, <1>3

\* A multiple of the alignment leaves no remainder.
LEMMA MultipleAligned == \A q \in Nat : (ALIGN * q) % ALIGN = 0
<1> SUFFICES ASSUME NEW q \in Nat PROVE (ALIGN * q) % ALIGN = 0
  OBVIOUS
<1>1. ALIGN \in Nat \ {0}
  BY DeviceAssumption
<1> DEFINE x == ALIGN * q
<1>2. x \in Nat
  BY <1>1
<1> DEFINE d == x \div ALIGN
           r == x % ALIGN
<1>3. d \in Nat /\ r \in 0 .. ALIGN - 1 /\ x = (ALIGN * d) + r
  <2> HIDE DEF x
  <2> QED BY <1>2, ModFacts
<1> HIDE DEF d, r
<1>4. ALIGN * (q - d) = r
  BY <1>1, <1>3
<1>5. q - d = 0
  <2> DEFINE k == q - d
  <2>1. k \in Int /\ ALIGN * k = r
    BY <1>3, <1>4
  <2> HIDE DEF k
  <2>2. k < 1
    <3> SUFFICES ASSUME k >= 1 PROVE FALSE
      BY <2>1
    <3>1. ALIGN * k = (ALIGN * (k - 1)) + ALIGN /\ k - 1 \in Nat
      BY <1>1, <2>1
    <3>2. ALIGN * (k - 1) \in Nat
      BY <1>1, <3>1
    <3> QED BY <1>1, <1>3, <2>1, <3>1, <3>2
  <2>3. k > 0 - 1
    <3> SUFFICES ASSUME k <= 0 - 1 PROVE FALSE
      BY <2>1
    <3> DEFINE m == 0 - k
    <3>1. m \in Nat /\ m >= 1 /\ ALIGN * m = 0 - r
      BY <1>1, <2>1
    <3> HIDE DEF m
    <3>2. ALIGN * m = (ALIGN * (m - 1)) + ALIGN /\ m - 1 \in Nat
      BY <1>1, <3>1
    <3>3. ALIGN * (m - 1) \in Nat
      BY <1>1, <3>2
    <3> QED BY <1>1, <1>3, <3>1, <3>2, <3>3
  <2> QED BY <2>1, <2>2, <2>3 DEF k
<1>6. r = 0
  BY <1>1, <1>4, <1>5
<1> QED BY <1>6 DEF r

\* Sums of aligned addresses are aligned, and so is what was rounded up.
LEMMA SumAligned ==
  ASSUME NEW x \in Nat, NEW y \in Nat, x % ALIGN = 0, y % ALIGN = 0
  PROVE  (x + y) % ALIGN = 0
<1>1. ALIGN \in Nat \ {0}
  BY DeviceAssumption
<1> DEFINE a == x \div ALIGN
           b == y \div ALIGN
<1>2. a \in Nat /\ b \in Nat /\ x = ALIGN * a /\ y = ALIGN * b
  BY <1>1, ModFacts
<1> HIDE DEF a, b
<1>3. x + y = ALIGN * (a + b) /\ a + b \in Nat
  BY <1>1, <1>2
<1> QED BY <1>3, MultipleAligned

LEMMA AlignUpAligned == \A x \in Nat : AlignUp(x) % ALIGN = 0
<1> SUFFICES ASSUME NEW x \in Nat PROVE AlignUp(x) % ALIGN = 0
  OBVIOUS
<1>1. CASE x % ALIGN = 0
  BY <1>1 DEF AlignUp
<1>2. CASE x % ALIGN # 0
  <2> DEFINE q == x \div ALIGN + 1
  <2>1. q \in Nat
    BY ModFacts
  <2>2. AlignUp(x) = q * ALIGN
    BY <1>2 DEF AlignUp
  <2> HIDE DEF q
  <2>3. q * ALIGN = ALIGN * q
    BY <2>1, DeviceAssumption
  <2> QED BY <2>1, <2>2, <2>3, MultipleAligned
<1> QED BY <1>1, <1>2

\* A set of numbers that is not empty has a least one.
LEMMA NatMin ==
  ASSUME NEW S, S \subseteq Nat, S # {}
  PROVE  \E m \in S : \A y \in S : m <= y
<1> DEFINE R == {ss \in Nat \X Nat : ss[1] < ss[2]}
<1>1. IsWellFoundedOn(R, Nat)
  BY NatLessThanWellFounded DEF OpToRel
<1> HIDE DEF R
<1>2. PICK m \in S : \A y \in S : <<y, m>> \notin R
  BY <1>1, WFMin
<1>3. ASSUME NEW y \in S PROVE m <= y
  <2>1. y \in Nat /\ m \in Nat /\ <<y, m>> \notin R
    BY <1>2
  <2>2. ~(y < m)
    BY <2>1, Zenon DEF R
  <2> QED BY <2>1, <2>2
<1> QED BY <1>3

--------------------------------------------------------------------------
(* What a step of the host does to the arguments that are laid out.        *)

\* What a launch knows of its program, comm area and arguments.
LEMMA PlaceFacts ==
  ASSUME IInv, pc \in Launched
  PROVE  /\ kern \in Kernels /\ prg \in Programs /\ NumArgs(kern) \in Nat /\ HEAD \in Nat \ {0}
         /\ comm.addr \in Nat /\ comm.size \in Nat /\ idx \in Nat /\ paddr \in Nat
         /\ \A y \in Nat : comm.addr <= y /\ y < comm.addr + comm.size => y \in Addr
         /\ \A j \in 0 .. NumArgs(kern) :
              ArgError(ArgOf(kern, j)) = "CL_SUCCESS" => ArgSize(ArgOf(kern, j)) \in Nat
<1>1. /\ kern \in Kernels /\ prg \in Programs /\ NumArgs(kern) \in Nat /\ HEAD \in Nat \ {0}
      /\ idx \in Nat /\ paddr \in Nat
  BY KernelFacts, DeviceAssumption DEF IInv, TypeOK, Placement, Launched
<1>2. comm.addr \in Nat /\ comm.size \in Nat
  BY <1>1, ProgramFacts DEF comm
<1>3. \A y \in Nat : comm.addr <= y /\ y < comm.addr + comm.size => y \in Addr
  <2>1. Span(comm.addr, comm.size) \subseteq Addr
    BY <1>1, ProgramAssumption DEF CommSpan, comm
  <2> QED BY <1>2, <2>1 DEF Span
<1>4. \A j \in 0 .. NumArgs(kern) :
        ArgError(ArgOf(kern, j)) = "CL_SUCCESS" => ArgSize(ArgOf(kern, j)) \in Nat
  BY <1>1, ArgsAreArgs, ArgSizeIsNat
<1> QED BY <1>1, <1>2, <1>3, <1>4

\* An argument's place, and what is below it.
LEMMA LaidFacts ==
  ASSUME IInv, pc \in Launched, NEW n \in Nat, NEW f, Places(n, f)
  PROVE  /\ f[n] \in Nat /\ comm.addr + HEAD <= f[n]
         /\ \A j \in 0 .. n - 1 :
              /\ f[j] \in Nat /\ j \in 0 .. NumArgs(kern) /\ ArgError(ArgOf(kern, j)) = "CL_SUCCESS"
              /\ ArgSize(ArgOf(kern, j)) \in Nat /\ comm.addr <= f[j]
              /\ \A y \in f[j] .. f[j] + HEAD + ArgSize(ArgOf(kern, j)) - 1 : y \in Addr /\ y < f[n]
<1>1. /\ f \in [0 .. n -> Nat] /\ f[0] = comm.addr + HEAD
      /\ \A j \in 0 .. n - 1 :
           HeadAt(j, f[j]) /\ comm.addr + HEAD <= f[j] /\ End(j, f[j]) <= f[n]
  <2> SUFFICES ASSUME NEW j \in 0 .. n - 1 PROVE HeadAt(j, f[j]) /\ comm.addr + HEAD <= f[j] /\ End(j, f[j]) <= f[n]
    BY DEF Places
  <2>1. n \in j + 1 .. n
    OBVIOUS
  <2> QED BY <2>1 DEF Places
<1>2. n \in 0 .. n /\ 0 \in 0 .. n
  OBVIOUS
<1>3. f[n] \in Nat
  BY <1>1, <1>2
<1>4. ASSUME NEW j \in 0 .. n - 1
      PROVE  /\ f[j] \in Nat /\ j \in 0 .. NumArgs(kern) /\ ArgError(ArgOf(kern, j)) = "CL_SUCCESS"
             /\ ArgSize(ArgOf(kern, j)) \in Nat /\ comm.addr <= f[j] /\ comm.addr + HEAD <= f[n]
             /\ \A y \in f[j] .. f[j] + HEAD + ArgSize(ArgOf(kern, j)) - 1 : y \in Addr /\ y < f[n]
  <2> DEFINE s == ArgSize(ArgOf(kern, j))
  <2>1. j \in 0 .. n
    OBVIOUS
  <2>2. f[j] \in Nat
    BY <1>1, <2>1
  <2>3. j \in 0 .. NumArgs(kern) /\ ArgError(ArgOf(kern, j)) = "CL_SUCCESS" /\ f[j] + HEAD + s < comm.addr + comm.size
    BY <1>1, PlaceFacts DEF HeadAt
  <2>4. s \in Nat
    BY <2>3, PlaceFacts
  <2>5. f[j] + HEAD + s <= f[n] /\ comm.addr + HEAD <= f[j]
    BY <1>1 DEF End
  <2> HIDE DEF s
  <2>6. comm.addr <= f[j] /\ comm.addr + HEAD <= f[n]
    BY <1>3, <2>2, <2>4, <2>5, PlaceFacts
  <2>7. \A y \in f[j] .. f[j] + HEAD + s - 1 : y \in Addr /\ y < f[n]
    <3> TAKE y \in f[j] .. f[j] + HEAD + s - 1
    <3>1. y \in Nat /\ comm.addr <= y /\ y < comm.addr + comm.size /\ y < f[n]
      BY <1>3, <2>2, <2>3, <2>4, <2>5, <2>6, PlaceFacts
    <3> QED BY <3>1, PlaceFacts
  <2> QED BY <2>2, <2>3, <2>4, <2>6, <2>7 DEF s
<1>5. comm.addr + HEAD <= f[n]
  <2>1. CASE n = 0
    BY <1>1, <2>1, PlaceFacts
  <2>2. CASE n # 0
    <3>1. 0 \in 0 .. n - 1
      BY <2>2
    <3> QED BY <1>4, <3>1
  <2> QED BY <2>1, <2>2
<1> QED BY <1>3, <1>4, <1>5

\* What is stored at f[n] or above leaves the arguments before n alone.
LEMMA LaidKept ==
  ASSUME IInv, pc \in {"args", "payload"}, NEW n \in Nat, NEW f, LaidOut(n, f),
         UNCHANGED <<kern, launch, buf>>, \A y \in Addr : y < f[n] => mem'[y] = mem[y]
  PROVE  LaidOut(n, f)' /\ (CommHeadAt => CommHeadAt')
<1>1. comm' = comm /\ \A j : ArgOf(kern', j) = ArgOf(kern, j)
  BY DEF comm, prg
<1>2. CommHeadAt => CommHeadAt'
  <2> SUFFICES ASSUME CommHeadAt, NEW o \in 0 .. HEAD - 1, comm.addr + o \in Addr
               PROVE  mem'[comm.addr + o] = CommCell(NumArgs(kern') + 1, 0, o)
    BY <1>1 DEF CommHeadAt
  <2>1. comm.addr + o < f[n]
    <3>1. f[n] \in Nat /\ comm.addr + HEAD <= f[n] /\ comm.addr \in Nat /\ HEAD \in Nat
      BY LaidFacts, PlaceFacts DEF LaidOut, Launched
    <3> QED BY <3>1
  <2> QED BY <2>1 DEF CommHeadAt
<1>3. ASSUME NEW j \in 0 .. n - 1 PROVE HeadAt(j, f[j])' /\ ValueAt(j, f[j])' /\ End(j, f[j])' = End(j, f[j])
  <2> DEFINE a == ArgOf(kern, j)
             s == ArgSize(a)
  <2>1. /\ f[j] \in Nat /\ s \in Nat /\ HEAD \in Nat
        /\ \A y \in f[j] .. f[j] + HEAD + s - 1 : y \in Addr /\ y < f[n]
    BY LaidFacts, PlaceFacts DEF LaidOut, Launched
  <2>2. HeadAt(j, f[j]) /\ ValueAt(j, f[j])
    BY DEF LaidOut, Places
  <2>3. ArgOf(kern', j) = a /\ kern' = kern /\ launch' = launch /\ buf' = buf
    BY <1>1
  <2>4. \A o \in 0 .. HEAD - 1 : mem'[f[j] + o] = mem[f[j] + o]
    <3> HIDE DEF s
    <3> TAKE o \in 0 .. HEAD - 1
    <3>1. f[j] + o \in f[j] .. f[j] + HEAD + s - 1
      BY <2>1
    <3> QED BY <2>1, <3>1
  <2>5. \A o \in 0 .. s - 1 : mem'[f[j] + HEAD + o] = mem[f[j] + HEAD + o]
    <3> HIDE DEF s
    <3> TAKE o \in 0 .. s - 1
    <3>1. f[j] + HEAD + o \in f[j] .. f[j] + HEAD + s - 1
      BY <2>1
    <3> QED BY <2>1, <3>1
  <2>6. HeadAt(j, f[j])'
    BY <1>1, <2>2, <2>3, <2>4 DEF HeadAt
  <2>7. ValueAt(j, f[j])'
    BY <1>1, <2>2, <2>3, <2>5 DEF ValueAt, ArgBytes
  <2> QED BY <2>3, <2>6, <2>7 DEF End
<1> QED BY <1>1, <1>2, <1>3 DEF LaidOut, Places

\* One argument more.
LEMMA LaidMore ==
  ASSUME IInv, pc \in {"args", "payload"}, NEW n \in Nat, NEW f, UNCHANGED kern,
         LaidOut(n, f), HeadAt(n, f[n]), LaidOut(n, f)', HeadAt(n, f[n])', ValueAt(n, f[n])'
  PROVE  \E g : LaidOut(n + 1, g)' /\ g[n + 1] = AlignUp(End(n, f[n]))
<1> DEFINE e == End(n, f[n])
           s == ArgSize(ArgOf(kern, n))
<1>1. n \in 0 .. NumArgs(kern) /\ ArgError(ArgOf(kern, n)) = "CL_SUCCESS" /\ HEAD \in Nat
  BY PlaceFacts DEF HeadAt, Launched
<1>2. s \in Nat /\ f[n] \in Nat /\ comm.addr + HEAD <= f[n] /\ e = f[n] + HEAD + s
  BY <1>1, PlaceFacts, LaidFacts DEF End, LaidOut, Launched
<1>3. comm' = comm /\ \A j : End(j, f[j])' = End(j, f[j])
  BY DEF comm, prg, End
<1> HIDE DEF s
<1>4. e \in Nat /\ f[n] <= e
  BY <1>1, <1>2
<1>5. AlignUp(e) \in Nat /\ e <= AlignUp(e) /\ f[n] <= AlignUp(e)
  <2> HIDE DEF e
  <2>1. AlignUp(e) \in Nat /\ e <= AlignUp(e)
    BY <1>4, AlignUpGrows
  <2> QED BY <1>2, <1>4, <2>1
<1> HIDE DEF e
<1>6. f \in [0 .. n -> Nat] /\ f[0] = comm.addr + HEAD
  BY DEF LaidOut, Places
<1>7. PICK g : g \in [0 .. n + 1 -> Nat] /\ g[n + 1] = AlignUp(e) /\ \A j \in 0 .. n : g[j] = f[j]
  <2> DEFINE h == [j \in 0 .. n + 1 |-> IF j = n + 1 THEN AlignUp(e) ELSE f[j]]
  <2>1. h \in [0 .. n + 1 -> Nat] /\ h[n + 1] = AlignUp(e) /\ \A j \in 0 .. n : h[j] = f[j]
    BY <1>5, <1>6
  <2> HIDE DEF h
  <2> QED BY <2>1
<1>8. ASSUME NEW j \in 0 .. (n + 1) - 1
      PROVE  /\ HeadAt(j, g[j])' /\ ValueAt(j, g[j])' /\ g[j + 1] = AlignUp(End(j, g[j])')
             /\ comm.addr + HEAD <= g[j] /\ \A l \in j + 1 .. n + 1 : End(j, g[j])' <= g[l]
  <2>0. j \in 0 .. n /\ g[j] = f[j] /\ End(j, f[j])' = End(j, f[j])
    BY <1>7, <1>3
  <2>1. CASE j = n
    <3>1. \A l \in j + 1 .. n + 1 : l = n + 1
      BY <2>1
    <3> QED BY <1>2, <1>5, <1>7, <2>0, <2>1, <3>1 DEF e
  <2>2. CASE j # n
    <3>1. j \in 0 .. n - 1 /\ j + 1 \in 0 .. n
      BY <2>2
    <3>2. g[j + 1] = f[j + 1]
      BY <1>7, <3>1
    <3>3. /\ HeadAt(j, f[j])' /\ ValueAt(j, f[j])' /\ f[j + 1] = AlignUp(End(j, f[j]))
          /\ comm.addr + HEAD <= f[j] /\ \A l \in j + 1 .. n : End(j, f[j]) <= f[l]
      BY <3>1 DEF LaidOut, Places
    <3>4. End(j, f[j]) \in Nat
      BY <3>1, <1>1, LaidFacts DEF End, LaidOut, Launched
    <3>5. ASSUME NEW l \in j + 1 .. n + 1 PROVE End(j, f[j]) <= g[l]
      <4>1. n \in j + 1 .. n /\ End(j, f[j]) <= f[n]
        BY <3>1, <3>3
      <4>2. CASE l = n + 1
        BY <1>2, <1>5, <1>7, <3>4, <4>1, <4>2
      <4>3. CASE l # n + 1
        <5>1. l \in j + 1 .. n /\ l \in 0 .. n
          BY <3>1, <4>3
        <5> QED BY <1>7, <3>3, <5>1
      <4> QED BY <4>2, <4>3
    <3> QED BY <2>0, <3>2, <3>3, <3>5
  <2> QED BY <2>1, <2>2
<1>9. g[0] = comm.addr + HEAD
  <2>1. 0 \in 0 .. n
    OBVIOUS
  <2> QED BY <1>6, <1>7, <2>1
<1>10. LaidOut(n + 1, g)'
  BY <1>3, <1>7, <1>8, <1>9 DEF LaidOut, Places
<1> QED BY <1>7, <1>10 DEF e

\* What the host stores at x in the comm area is there afterwards.
LEMMA StoredThere ==
  ASSUME IInv, "silent" \notin Faults, NEW x \in Nat, NEW size \in Nat, NEW bytes,
         Port!Writes(x, bytes, size, "CL_SUCCESS"), \A y \in x .. x + size - 1 : y \in Addr
  PROVE  /\ \A o \in 0 .. size - 1 : mem'[x + o] = bytes[o]
         /\ \A y \in Addr : y < x => mem'[y] = mem[y]
<1>1. "CL_SUCCESS" \in Rets
  BY DEF Rets
<1>2. /\ \A y \in Addr \ Span(x, size) : mem'[y] = mem[y]
      /\ \A y \in Addr \cap Span(x, size) : mem'[y] = bytes[y - x]
  BY <1>1, DevWriteEffect
<1>3. ASSUME NEW o \in 0 .. size - 1 PROVE mem'[x + o] = bytes[o]
  <2>1. x + o \in x .. x + size - 1 /\ (x + o) - x = o
    OBVIOUS
  <2>2. x + o \in Addr \cap Span(x, size)
    BY <2>1 DEF Span
  <2> QED BY <1>2, <2>1, <2>2
<1>4. ASSUME NEW y \in Addr, y < x PROVE mem'[y] = mem[y]
  <2>1. y \in Nat
    BY DeviceAssumption
  <2>2. y \notin Span(x, size)
    BY <1>4, <2>1 DEF Span
  <2> QED BY <1>2, <2>2
<1> QED BY <1>3, <1>4

LEMMA HeaderStep ==
  ASSUME IInv, RoomForHeader, AlignedComm, "silent" \notin Faults, SendHeader
  PROVE  ArgInv'
<1> SUFFICES ASSUME pc' \in {"args", "payload"} PROVE ArgInv'
  BY DEF ArgInv
<1> DEFINE bytes == [o \in 0 .. HEAD - 1 |-> CommCell(NumArgs(kern) + 1, 0, o)]
<1>1. /\ prg \in Programs /\ comm.addr \in Nat /\ comm.size \in Nat /\ HEAD \in Nat \ {0}
      /\ HEAD <= comm.size /\ HEAD % ALIGN = 0
  <2>1. prg \in Programs
    BY DEF SendHeader, IInv, Placement, Launched
  <2> QED BY <2>1, ProgramFacts, DeviceAssumption DEF comm, RoomForHeader, AlignedComm
<1>2. /\ Port!Writes(comm.addr, bytes, HEAD, "CL_SUCCESS") /\ UNCHANGED <<kern, launch, buf>>
      /\ pc' = "args" /\ idx' = 0 /\ paddr' = comm.addr + AlignUp(HEAD)
  BY DEF SendHeader, Return
<1>3. \A y \in comm.addr .. comm.addr + HEAD - 1 : y \in Addr
  <2>1. comm.addr .. comm.addr + HEAD - 1 \subseteq Span(comm.addr, comm.size)
    BY <1>1 DEF Span
  <2>2. Span(comm.addr, comm.size) \subseteq Addr
    BY <1>1, ProgramAssumption DEF CommSpan, comm
  <2> QED BY <2>1, <2>2
<1>4. \A o \in 0 .. HEAD - 1 : mem'[comm.addr + o] = bytes[o]
  <2>1. comm.addr \in Nat /\ HEAD \in Nat /\ Port!Writes(comm.addr, bytes, HEAD, "CL_SUCCESS")
    BY <1>1, <1>2
  <2> HIDE DEF bytes
  <2> QED BY <2>1, <1>3, StoredThere, Zenon
<1>5. comm' = comm /\ NumArgs(kern') = NumArgs(kern)
  BY <1>2 DEF comm, prg
<1>6. CommHeadAt'
  BY <1>4, <1>5 DEF CommHeadAt
<1>7. paddr' = comm.addr + HEAD
  BY <1>1, <1>2 DEF AlignUp
<1>8. PICK f : f = [j \in 0 .. 0 |-> comm.addr + HEAD]
  OBVIOUS
<1>9. f \in [0 .. 0 -> Nat] /\ f[0] = comm.addr + HEAD
  <2>1. comm.addr + HEAD \in Nat
    BY <1>1
  <2> QED BY <1>8, <2>1
<1>10. LaidOut(0, f)'
  BY <1>5, <1>9 DEF LaidOut, Places
<1> QED BY <1>2, <1>6, <1>7, <1>9, <1>10 DEF ArgInv

LEMMA ArgHeadStep ==
  ASSUME IInv, ArgInv, "silent" \notin Faults, SendArgHead
  PROVE  ArgInv'
<1> SUFFICES ASSUME pc' \in {"args", "payload"} PROVE ArgInv'
  BY DEF ArgInv
<1> DEFINE a == ArgOf(kern, idx)
           bytes == [o \in 0 .. HEAD - 1 |-> ArgHeadCell(idx, a.type, ArgSize(a), o)]
<1>1. pc = "args"
  BY DEF SendArgHead
<1>2. PICK f : LaidOut(idx, f) /\ paddr = f[idx]
  BY <1>1 DEF ArgInv
<1>3. CommHeadAt
  BY <1>1 DEF ArgInv
<1>4. /\ idx \in Nat /\ paddr \in Nat /\ HEAD \in Nat \ {0} /\ comm.addr \in Nat /\ comm.size \in Nat
      /\ \A y \in Nat : comm.addr <= y /\ y < comm.addr + comm.size => y \in Addr
  BY <1>1, PlaceFacts DEF Launched
<1>5. idx <= NumArgs(kern) /\ ArgError(a) = "CL_SUCCESS" /\ Fits(a)
  BY DEF SendArgHead
<1>6. ArgSize(a) \in Nat
  <2>1. idx \in 0 .. NumArgs(kern)
    BY <1>1, <1>4, <1>5, PlaceFacts DEF Launched
  <2> QED BY <1>1, <1>5, <2>1, PlaceFacts DEF Launched
<1>7. /\ Port!Writes(paddr, bytes, HEAD, "CL_SUCCESS") /\ UNCHANGED <<kern, launch, buf, idx>>
      /\ pc' = "payload" /\ paddr' = paddr + HEAD
  BY DEF SendArgHead, Return
<1>8. paddr + HEAD + ArgSize(a) < comm.addr + comm.size /\ comm.addr <= paddr
  BY <1>1, <1>4, <1>5, <1>6 DEF Fits, IInv, Placement
<1>9. \A y \in paddr .. paddr + HEAD - 1 : y \in Addr
  BY <1>4, <1>6, <1>8
<1>10. /\ \A o \in 0 .. HEAD - 1 : mem'[paddr + o] = bytes[o]
       /\ \A y \in Addr : y < paddr => mem'[y] = mem[y]
  <2> HIDE DEF bytes
  <2> QED BY <1>4, <1>7, <1>9, StoredThere
<1>11. LaidOut(idx, f)' /\ CommHeadAt'
  <2>1. \A n \in Nat : n = idx => LaidOut(n, f)' /\ CommHeadAt'
    BY <1>1, <1>2, <1>3, <1>7, <1>10, LaidKept
  <2> QED BY <1>4, <1>7, <2>1
<1>12. HeadAt(idx, f[idx])'
  <2>1. comm' = comm /\ ArgOf(kern', idx') = a /\ NumArgs(kern') = NumArgs(kern) /\ idx' = idx
    BY <1>7 DEF comm, prg
  <2> QED BY <1>2, <1>5, <1>8, <1>10, <2>1 DEF HeadAt
<1> QED BY <1>2, <1>7, <1>11, <1>12 DEF ArgInv

LEMMA PayloadStep ==
  ASSUME IInv, ArgInv, "silent" \notin Faults, SendPayload
  PROVE  ArgInv'
<1> SUFFICES ASSUME pc' \in {"args", "payload"} PROVE ArgInv'
  BY DEF ArgInv
<1> DEFINE a == ArgOf(kern, idx)
           bytes == ArgBytes(launch, idx, a)
           s == ArgSize(a)
<1>1. pc = "payload"
  BY DEF SendPayload
<1>2. PICK f : LaidOut(idx, f) /\ paddr = f[idx] + HEAD /\ HeadAt(idx, f[idx])
  BY <1>1 DEF ArgInv
<1>3. CommHeadAt
  BY <1>1 DEF ArgInv
<1>4. /\ idx \in Nat /\ paddr \in Nat /\ HEAD \in Nat \ {0} /\ comm.addr \in Nat /\ comm.size \in Nat
      /\ \A y \in Nat : comm.addr <= y /\ y < comm.addr + comm.size => y \in Addr
  BY <1>1, PlaceFacts DEF Launched
<1>5. idx \in 0 .. NumArgs(kern) /\ ArgError(a) = "CL_SUCCESS"
  BY <1>1, <1>2, <1>4, PlaceFacts DEF HeadAt, Launched
<1>6. s \in Nat
  BY <1>1, <1>5, PlaceFacts DEF Launched
<1>7. /\ \/ NeedWrite(a) /\ Port!Writes(paddr, bytes, s, "CL_SUCCESS")
         \/ ~NeedWrite(a) /\ UNCHANGED mem
      /\ UNCHANGED <<kern, launch, buf>>
      /\ pc' = "args" /\ idx' = idx + 1 /\ paddr' = AlignUp(paddr + s)
  BY DEF SendPayload, Return
<1>8. paddr + s < comm.addr + comm.size /\ comm.addr <= paddr
  BY <1>1 DEF IInv, Placement
<1>9. \A y \in paddr .. paddr + s - 1 : y \in Addr
  <2> HIDE DEF s
  <2> QED BY <1>4, <1>6, <1>8
<1>10. /\ NeedWrite(a) => \A o \in 0 .. s - 1 : mem'[paddr + o] = bytes[o]
       /\ \A y \in Addr : y < paddr => mem'[y] = mem[y]
  <2> HIDE DEF bytes, s, a
  <2>1. CASE NeedWrite(a)
    BY <1>4, <1>6, <1>7, <1>9, <2>1, StoredThere
  <2>2. CASE ~NeedWrite(a)
    BY <1>7, <2>2
  <2> QED BY <2>1, <2>2
<1>11. f[idx] \in Nat /\ f[idx] < paddr /\ comm.addr + HEAD <= f[idx]
  <2>1. f[idx] \in Nat /\ comm.addr + HEAD <= f[idx]
    BY <1>1, <1>2, <1>4, LaidFacts DEF LaidOut, Launched
  <2> QED BY <1>2, <1>4, <2>1
<1>12. \A n \in Nat : n = idx =>
         /\ LaidOut(n, f)' /\ CommHeadAt' /\ HeadAt(n, f[n])' /\ ValueAt(n, f[n])'
  <2> SUFFICES ASSUME NEW n \in Nat, n = idx
               PROVE  LaidOut(n, f)' /\ CommHeadAt' /\ HeadAt(n, f[n])' /\ ValueAt(n, f[n])'
    OBVIOUS
  <2>1. \A y \in Addr : y < f[n] => mem'[y] = mem[y]
    <3> SUFFICES ASSUME NEW y \in Addr, y < f[n] PROVE mem'[y] = mem[y]
      OBVIOUS
    <3>1. y \in Nat
      BY DeviceAssumption
    <3>2. y < paddr
      BY <1>2, <1>4, <1>11, <3>1
    <3> QED BY <1>10, <3>2
  <2>2. LaidOut(n, f)' /\ CommHeadAt'
    BY <1>1, <1>2, <1>3, <1>7, <2>1, LaidKept
  <2>3. comm' = comm /\ ArgOf(kern', n) = a /\ NumArgs(kern') = NumArgs(kern)
    BY <1>7 DEF comm, prg
  <2>4. \A o \in 0 .. HEAD - 1 : mem'[f[n] + o] = mem[f[n] + o]
    <3> TAKE o \in 0 .. HEAD - 1
    <3>1. f[n] + o \in Nat /\ comm.addr <= f[n] + o /\ f[n] + o < paddr /\ f[n] + o < comm.addr + comm.size
      <4> HIDE DEF s
      <4> QED BY <1>2, <1>4, <1>6, <1>8, <1>11
    <3> QED BY <1>4, <1>10, <3>1
  <2>5. HeadAt(n, f[n])'
    BY <1>2, <2>3, <2>4 DEF HeadAt
  <2>6. ValueAt(n, f[n])'
    <3>1. bytes = ArgBytes(launch, n, a)
      OBVIOUS
    <3> QED BY <1>2, <1>7, <1>10, <2>3, <3>1 DEF ValueAt, ArgBytes
  <2> QED BY <2>2, <2>5, <2>6
<1>13. \A n \in Nat : n = idx =>
         \E g : LaidOut(n + 1, g)' /\ g[n + 1] = AlignUp(End(n, f[n]))
  BY <1>1, <1>2, <1>7, <1>12, LaidMore
<1>14. PICK m \in Nat : m = idx
  BY <1>4
<1>15. PICK g : LaidOut(m + 1, g)' /\ g[m + 1] = AlignUp(End(m, f[m]))
  BY <1>13, <1>14
<1>16. End(idx, f[idx]) = paddr + s
  BY <1>2, <1>4, <1>6, <1>11 DEF End
<1>17. idx' = m + 1 /\ LaidOut(m + 1, g)' /\ g[m + 1] = paddr'
  BY <1>7, <1>14, <1>16, <1>15
<1>18. CommHeadAt'
  BY <1>4, <1>12
<1> QED BY <1>7, <1>17, <1>18 DEF ArgInv

LEMMA ArgStep ==
  ASSUME IInv, RoomForHeader, AlignedComm, "silent" \notin Faults, ArgInv, [Next]_vars
  PROVE  ArgInv'
<1>1. CASE SendHeader
  BY <1>1, HeaderStep
<1>2. CASE SendArgHead
  BY <1>2, ArgHeadStep
<1>3. CASE SendPayload
  BY <1>3, PayloadStep
<1>4. CASE Halts \/ UNCHANGED vars
  <2>1. UNCHANGED <<hostVars, buf, mem>>
    BY <1>4 DEF Halts, Port!Halts, vars, hostVars
  <2> QED
    BY <2>1 DEF hostVars, ArgInv, CommHeadAt, LaidOut, HeadAt, ValueAt, ArgBytes, End, comm, prg, Places
<1>5. CASE Kernel
  <2>1. pc' = pc /\ dev = "running"
    BY <1>5 DEF Kernel, KernelStore, KernelData, KernelDone, KernelBreaks, Working, hostVars
  <2> QED BY <2>1 DEF ArgInv, IInv, TouchesHaltedDevice
<1>6. CASE App \/ Reset \/ SkipChunk \/ SendChunk \/ RefuseArg \/ Run \/ Stop \/ ReadHeader \/ Resume
           \/ Dequeue \/ Finish
  <2>1. pc' \notin {"args", "payload"}
    BY <1>6 DEF App, Launch, LaunchBadQueue, AppWrite, Reset, SkipChunk, SendChunk, RefuseArg, Run,
       Stop, ReadHeader, Resume, Dequeue, Finish, Return, hostVars
  <2> QED BY <2>1 DEF ArgInv
<1> QED BY <1>1, <1>2, <1>3, <1>4, <1>5, <1>6 DEF Next, Host

--------------------------------------------------------------------------
(* The device's walk of the comm area.                                     *)

\* The walk is the one sequence of addresses that starts behind the comm
\* header and goes on by the sizes found.
LEMMA WalkIsUnique ==
  ASSUME NEW k, NumArgs(k) \in Nat, NEW g, g = [j \in 0 .. NumArgs(k) |-> g[j]],
         g[0] = Comm[k.prg].addr + HEAD,
         \A j \in 0 .. NumArgs(k) - 1 : g[j + 1] = AlignUp(g[j] + HEAD + SeenSize(g[j]))
  PROVE  SeenAt(k) = g
<1> DEFINE N == NumArgs(k)
           Step(h, j) == AlignUp(h[j - 1] + HEAD + SeenSize(h[j - 1]))
           Walk(h) == h = [j \in 0 .. N |-> IF j = 0 THEN Comm[k.prg].addr + HEAD
                                            ELSE AlignUp(h[j - 1] + HEAD + SeenSize(h[j - 1]))]
<1>1. Walk(g)
  <2>1. ASSUME NEW j \in 0 .. N
        PROVE  g[j] = IF j = 0 THEN Comm[k.prg].addr + HEAD ELSE AlignUp(g[j - 1] + HEAD + SeenSize(g[j - 1]))
    <3>1. CASE j = 0
      BY <3>1
    <3>2. CASE j # 0
      <4>1. j - 1 \in 0 .. N - 1 /\ (j - 1) + 1 = j
        BY <3>2
      <4> QED BY <3>2, <4>1
    <3> QED BY <3>1, <3>2
  <2> QED BY <2>1
<1>2. Walk(SeenAt(k))
  <2>1. SeenAt(k) = CHOOSE h : Walk(h)
    BY DEF SeenAt
  <2> HIDE DEF Walk
  <2> QED BY <1>1, <2>1, Zenon
<1>3. ASSUME NEW h, Walk(h) PROVE h = g
  <2> DEFINE Wrong == {j \in 0 .. N : h[j] # g[j]}
  <2>1. ASSUME Wrong # {} PROVE FALSE
    <3>1. Wrong \subseteq Nat
      OBVIOUS
    <3>2. PICK m \in Wrong : \A y \in Wrong : m <= y
      <4> HIDE DEF Wrong
      <4> QED BY <2>1, <3>1, NatMin
    <3>3. m # 0
      BY <1>3
    <3>4. m - 1 \in 0 .. N /\ m - 1 \in 0 .. N - 1 /\ (m - 1) + 1 = m
      BY <3>3
    <3>5. m - 1 \notin Wrong
      BY <3>2, <3>4
    <3>6. h[m - 1] = g[m - 1]
      BY <3>4, <3>5
    <3>7. m \in 0 .. N /\ h[m] # g[m]
      OBVIOUS
    <3>8. h[m] = AlignUp(h[m - 1] + HEAD + SeenSize(h[m - 1]))
      BY <1>3, <3>3, <3>7
    <3>9. g[m] = AlignUp(g[m - 1] + HEAD + SeenSize(g[m - 1]))
      BY <3>4
    <3> QED BY <3>6, <3>7, <3>8, <3>9
  <2>2. \A j \in 0 .. N : h[j] = g[j]
    BY <2>1
  <2>3. h = [j \in 0 .. N |-> h[j]]
    BY <1>3
  <2> QED BY <2>2, <2>3
<1> HIDE DEF Walk
<1> QED BY <1>2, <1>3

\* The device's walk ends up at the places the host has laid out.
LEMMA WalkFindsArguments ==
  ASSUME IInv, pc \in Launched, NEW n \in Nat, NumArgs(kern) < n, NEW f, Places(n, f)
  PROVE  \A j \in 0 .. NumArgs(kern) : SeenAt(kern)[j] = f[j]
<1> DEFINE N == NumArgs(kern)
           g == [j \in 0 .. N |-> f[j]]
<1>1. n > N /\ N \in Nat /\ HEAD \in Nat \ {0} /\ comm.addr \in Nat
  BY PlaceFacts
<1>2. ASSUME NEW j \in 0 .. N - 1 PROVE f[j + 1] = AlignUp(f[j] + HEAD + SeenSize(f[j]))
  <2>1. j \in 0 .. n - 1
    BY <1>1
  <2>2. HeadAt(j, f[j]) /\ f[j + 1] = AlignUp(End(j, f[j]))
    BY <2>1 DEF Places
  <2>3. f[j] \in Nat /\ ArgSize(ArgOf(kern, j)) \in Nat
        /\ \A y \in f[j] .. f[j] + HEAD + ArgSize(ArgOf(kern, j)) - 1 : y \in Addr
    BY <1>1, <2>1, LaidFacts
  <2>4. f[j] \in Addr /\ 0 \in 0 .. HEAD - 1 /\ f[j] + 0 = f[j]
    BY <1>1, <2>3
  <2>5. mem[f[j]] = ArgHeadCell(j, ArgOf(kern, j).type, ArgSize(ArgOf(kern, j)), 0)
    BY <2>2, <2>4 DEF HeadAt
  <2>6. SeenSize(f[j]) = ArgSize(ArgOf(kern, j))
    BY <2>4, <2>5 DEF SeenSize, ArgHeadCell
  <2> QED BY <2>2, <2>6 DEF End
<1>3. g = [j \in 0 .. N |-> g[j]] /\ \A j \in 0 .. N : g[j] = f[j]
  OBVIOUS
<1>4. g[0] = Comm[kern.prg].addr + HEAD
  <2>1. 0 \in 0 .. N
    BY <1>1
  <2>2. f[0] = comm.addr + HEAD
    BY DEF Places
  <2> QED BY <1>3, <2>1, <2>2 DEF comm, prg
<1>5. \A j \in 0 .. N - 1 : g[j + 1] = AlignUp(g[j] + HEAD + SeenSize(g[j]))
  <2> TAKE j \in 0 .. N - 1
  <2>1. j \in 0 .. N /\ j + 1 \in 0 .. N
    BY <1>1
  <2>2. g[j] = f[j] /\ g[j + 1] = f[j + 1]
    BY <1>3, <2>1
  <2> QED BY <1>2, <2>2
<1>6. SeenAt(kern) = g
  <2>1. NumArgs(kern) \in Nat /\ g = [j \in 0 .. NumArgs(kern) |-> g[j]]
    BY <1>1, <1>3
  <2> HIDE DEF g
  <2> QED BY <2>1, <1>4, <1>5, WalkIsUnique, Zenon
<1> QED BY <1>3, <1>6

\* Every argument is aligned as the comm area is.
LEMMA PlacesAligned ==
  ASSUME IInv, AlignedComm, pc \in {"args", "payload"}, NEW n \in Nat, NEW f, LaidOut(n, f),
         NEW j \in 0 .. n
  PROVE  f[j] % ALIGN = 0 /\ comm.addr % ALIGN = 0
<1>1. prg \in Programs /\ comm.addr \in Nat /\ HEAD \in Nat
  BY PlaceFacts DEF Launched
<1>2. comm.addr % ALIGN = 0 /\ HEAD % ALIGN = 0
  BY <1>1 DEF AlignedComm, comm
<1>3. CASE j = 0
  <2>1. (comm.addr + HEAD) % ALIGN = 0
    BY <1>1, <1>2, SumAligned
  <2> QED BY <1>2, <1>3, <2>1 DEF LaidOut, Places
<1>4. CASE j # 0
  <2> DEFINE i == j - 1
  <2>1. i \in 0 .. n - 1 /\ j = i + 1
    BY <1>4
  <2> HIDE DEF i
  <2>2. f[j] = AlignUp(End(i, f[i]))
    BY <2>1 DEF LaidOut, Places
  <2>3. f[i] \in Nat /\ ArgSize(ArgOf(kern, i)) \in Nat
    BY <2>1, LaidFacts DEF LaidOut, Launched
  <2>4. End(i, f[i]) \in Nat
    BY <1>1, <2>3 DEF End
  <2> QED BY <1>2, <2>2, <2>4, AlignUpAligned
<1> QED BY <1>3, <1>4

\* A kernel that is started finds the arguments the invariant follows.
LEMMA ReadyArguments ==
  ASSUME IInv, RoomForHeader, AlignedComm, ArgInv
  PROVE  DeviceSeesArguments
<1> SUFFICES ASSUME ReadyToRun PROVE DeviceSeesArguments
  BY DEF DeviceSeesArguments
<1> DEFINE N == NumArgs(kern)
<1>1. pc = "args" /\ idx \in Nat /\ idx > N /\ N \in Nat /\ HEAD \in Nat \ {0}
      /\ prg \in Programs /\ comm.addr \in Nat /\ comm.size \in Nat
      /\ \A y \in Nat : comm.addr <= y /\ y < comm.addr + comm.size => y \in Addr
  BY PlaceFacts DEF ReadyToRun, Launched
<1>2. CommHeadAt
  BY <1>1 DEF ArgInv
<1>3. PICK f : LaidOut(idx, f)
  BY <1>1 DEF ArgInv
<1>4. \A j \in 0 .. N : SeenAt(kern)[j] = f[j]
  BY <1>1, <1>3, WalkFindsArguments DEF LaidOut, Launched
<1>5. Load(mem, comm.addr, HEAD) = [o \in 0 .. HEAD - 1 |-> CommCell(N + 1, 0, o)]
  <2>1. HEAD <= comm.size
    BY <1>1 DEF RoomForHeader, comm
  <2>2. \A o \in 0 .. HEAD - 1 : mem[comm.addr + o] = CommCell(N + 1, 0, o)
    <3> TAKE o \in 0 .. HEAD - 1
    <3>1. comm.addr + o \in Nat /\ comm.addr <= comm.addr + o /\ comm.addr + o < comm.addr + comm.size
      BY <1>1, <2>1
    <3>2. comm.addr + o \in Addr
      BY <1>1, <3>1
    <3> QED BY <1>2, <3>2 DEF CommHeadAt
  <2> QED BY <2>2 DEF Load
<1>6. ASSUME NEW j \in 0 .. N
      PROVE  LET a == ArgOf(kern, j)
                 x == SeenAt(kern)[j]
             IN /\ Load(mem, x, HEAD) = [o \in 0 .. HEAD - 1 |-> ArgHeadCell(j, a.type, ArgSize(a), o)]
                /\ NeedWrite(a) => Load(mem, x + HEAD, ArgSize(a)) = ArgBytes(launch, j, a)
                /\ x % ALIGN = comm.addr % ALIGN
  <2> DEFINE a == ArgOf(kern, j)
             x == SeenAt(kern)[j]
  <2>1. x = f[j] /\ j \in 0 .. idx - 1 /\ j \in 0 .. idx
    BY <1>1, <1>4
  <2>2. HeadAt(j, f[j]) /\ ValueAt(j, f[j])
    BY <2>1, <1>3 DEF LaidOut, Places
  <2>3. Load(mem, x, HEAD) = [o \in 0 .. HEAD - 1 |-> ArgHeadCell(j, a.type, ArgSize(a), o)]
    BY <2>1, <2>2 DEF HeadAt, Load
  <2>4. ASSUME NeedWrite(a) PROVE Load(mem, x + HEAD, ArgSize(a)) = ArgBytes(launch, j, a)
    <3>1. \A o \in 0 .. ArgSize(a) - 1 : mem[x + HEAD + o] = ArgBytes(launch, j, a)[o]
      BY <2>1, <2>2, <2>4 DEF ValueAt
    <3>2. ArgBytes(launch, j, a) = [o \in 0 .. ArgSize(a) - 1 |-> ArgBytes(launch, j, a)[o]]
      <4>1. CASE a.type = "MEM"
        <5>1. a \in Args /\ ArgError(a) = "CL_SUCCESS"
          BY <2>2, ArgsAreArgs DEF HeadAt, IInv, TypeOK
        <5>2. a.mem \in Mems
          BY <4>1, <5>1 DEF Args, ArgError
        <5>3. buf = [m \in Mems |-> [o \in 0 .. MemSize[m] - 1 |-> buf[m][o]]]
          BY DEF IInv, TypeOK
        <5>4. buf[a.mem] = [o \in 0 .. MemSize[a.mem] - 1 |-> buf[a.mem][o]]
          <6> HIDE DEF a
          <6> QED BY <5>2, <5>3
        <5> HIDE DEF a
        <5> QED BY <4>1, <5>4 DEF ArgBytes, ArgSize
      <4>2. CASE a.type # "MEM"
        <5> HIDE DEF a
        <5> QED BY <4>2 DEF ArgBytes, ArgSize
      <4> QED BY <4>1, <4>2
    <3> HIDE DEF a, x
    <3> QED BY <3>1, <3>2 DEF Load
  <2>5. x % ALIGN = comm.addr % ALIGN
    <3>1. f[j] % ALIGN = 0 /\ comm.addr % ALIGN = 0
      BY <1>1, <1>3, <2>1, PlacesAligned
    <3> QED BY <2>1, <3>1
  <2> QED BY <2>3, <2>4, <2>5
<1> QED BY <1>5, <1>6 DEF DeviceSeesArguments

\* When a kernel is started, its walk of the comm area by the sizes in the
\* headers finds the header and the value of every argument of this launch, in
\* enqueue_arg's places and aligned, whatever device operations failed before:
\* for every kernel, if no operation fails silently and the comm areas are
\* aligned and have room for the comm header.
THEOREM ArgumentsAreSeen ==
  RoomForHeader /\ AlignedComm /\ "silent" \notin Faults => (Spec => []DeviceSeesArguments)
<1> SUFFICES ASSUME RoomForHeader, AlignedComm, "silent" \notin Faults
             PROVE  Spec => []DeviceSeesArguments
  OBVIOUS
<1>1. Init => ArgInv
  BY DEF Init, ArgInv
<1>2. IInv /\ ArgInv /\ [Next]_vars => ArgInv'
  BY ArgStep
<1>3. IInv /\ ArgInv => DeviceSeesArguments
  BY ReadyArguments
<1> QED
  BY <1>1, <1>2, <1>3, InitIInv, NextIInv, PTL DEF Spec

--------------------------------------------------------------------------
(* What a launch gets back.  From dev_run on the arguments stay where they *)
(* are; an argument's value is what the kernel of this launch stored, or   *)
(* what was sent; and the header has done only if this kernel set it.      *)

Before    == {"reset", "chunks", "args", "payload"}
Answering == {"poll", "check", "resume", "dequeue"}

\* No cell was stored by the kernel of a later launch, nor by that of this launch
\* before it is started; a header tells a size.
Sound(c) ==
  /\ c[1] = "out" => c[2] \in 0 .. (IF pc \in Before THEN launch - 1 ELSE launch)
  /\ c[1] = "arg" => c[4] \in Nat

NumberInv ==
  /\ launch \in Nat /\ finished <= launch /\ task.no <= launch
  /\ pc \in Before => finished < launch /\ task.no < launch
  /\ \A x \in Addr : Sound(mem[x])
  /\ \A m \in Mems : \A o \in 0 .. MemSize[m] - 1 : Sound(buf[m][o])

\* The comm header while the kernel has not set done: the host's, or destroyed.
HeaderOpen ==
  \/ \A o \in 0 .. HEAD - 1 : mem[comm.addr + o] = CommCell(NumArgs(kern) + 1, 0, o)
  \/ \A o \in 0 .. HEAD - 1 : mem[comm.addr + o] = Junk

\* The value of argument j at x: stored by the kernel, left as it was sent, and
\* read back.
Stored(j, x) ==
  \A o \in 0 .. ArgSize(ArgOf(kern, j)) - 1 : mem[x + HEAD + o] = OutCell(launch, j, o)

Kept(j, x) ==
  LET a == ArgOf(kern, j)
  IN \A o \in 0 .. ArgSize(a) - 1 :
       /\ mem[x + HEAD + o][1] = "out" => mem[x + HEAD + o][2] # launch
       /\ NeedWrite(a) => mem[x + HEAD + o] = buf[a.mem][o]

ReadBack(j, x) ==
  LET a == ArgOf(kern, j)
  IN \A o \in 0 .. ArgSize(a) - 1 : buf[a.mem][o] = mem[x + HEAD + o]

Answers(f) ==
  /\ Places(NumArgs(kern) + 1, f)
  /\ pc = "dequeue" => idx <= NumArgs(kern) + 1 /\ paddr = f[idx]
  /\ EachBufferOnce =>
       \A j \in 0 .. NumArgs(kern) : NeedRead(ArgOf(kern, j)) =>
         /\ Stored(j, f[j]) \/ Kept(j, f[j])
         /\ pc = "dequeue" /\ j < idx => ReadBack(j, f[j])

RunInv ==
  pc \in Answering =>
    /\ task = [kern |-> kern, no |-> launch]
    /\ finished # launch => pc # "dequeue" /\ HeaderOpen
    /\ \E f : Answers(f)

\* The header and the value of argument j are in the comm area, behind the comm header.
LEMMA ArgumentSpan ==
  ASSUME IInv, pc \in Launched, NEW n \in Nat, NEW f, Places(n, f), NEW j \in 0 .. n - 1
  PROVE  /\ f[j] \in Nat /\ comm.addr + HEAD <= f[j] /\ j \in 0 .. NumArgs(kern)
         /\ ArgSize(ArgOf(kern, j)) \in Nat
         /\ f[j] + HEAD + ArgSize(ArgOf(kern, j)) < comm.addr + comm.size
         /\ \A l \in j + 1 .. n : f[j] + HEAD + ArgSize(ArgOf(kern, j)) <= f[l]
<1>1. f[j] \in Nat /\ j \in 0 .. NumArgs(kern) /\ ArgSize(ArgOf(kern, j)) \in Nat
  BY LaidFacts
<1>2. HeadAt(j, f[j]) /\ comm.addr + HEAD <= f[j] /\ \A l \in j + 1 .. n : End(j, f[j]) <= f[l]
  BY DEF Places
<1> QED BY <1>1, <1>2 DEF HeadAt, End

\* Two arguments share no address.
LEMMA ArgumentsApart ==
  ASSUME IInv, pc \in Launched, NEW n \in Nat, NEW f, Places(n, f),
         NEW i \in 0 .. n - 1, NEW j \in 0 .. n - 1, i # j,
         NEW y \in f[i] .. f[i] + HEAD + ArgSize(ArgOf(kern, i)) - 1
  PROVE  y \notin f[j] .. f[j] + HEAD + ArgSize(ArgOf(kern, j)) - 1
<1> DEFINE s == ArgSize(ArgOf(kern, i))
           t == ArgSize(ArgOf(kern, j))
<1>1. f[i] \in Nat /\ f[j] \in Nat /\ s \in Nat /\ t \in Nat /\ HEAD \in Nat
  BY ArgumentSpan, PlaceFacts
<1>2. CASE i < j
  <2>1. j \in i + 1 .. n
    BY <1>2
  <2>2. f[i] + HEAD + s <= f[j]
    BY <2>1, ArgumentSpan
  <2> HIDE DEF s, t
  <2> QED BY <1>1, <2>2 DEF s
<1>3. CASE j < i
  <2>1. i \in j + 1 .. n
    BY <1>3
  <2>2. f[j] + HEAD + t <= f[i]
    BY <2>1, ArgumentSpan
  <2> HIDE DEF s, t
  <2> QED BY <1>1, <2>2 DEF t
<1> QED BY <1>2, <1>3

\* Arguments whose headers stay keep their places.
LEMMA PlacesKept ==
  ASSUME IInv, pc \in Launched, NEW n \in Nat, NEW f, Places(n, f), UNCHANGED kern,
         \A j \in 0 .. n - 1 : \A o \in 0 .. HEAD - 1 : mem'[f[j] + o] = mem[f[j] + o]
  PROVE  Places(n, f)'
<1>1. comm' = comm /\ \A j : ArgOf(kern', j) = ArgOf(kern, j)
  BY DEF comm, prg
<1>2. ASSUME NEW j \in 0 .. n - 1 PROVE HeadAt(j, f[j])' /\ End(j, f[j])' = End(j, f[j])
  <2>1. HeadAt(j, f[j])
    BY DEF Places
  <2> QED BY <1>1, <2>1 DEF HeadAt, End
<1> QED BY <1>1, <1>2 DEF Places

\* What changes neither buffers nor the comm area behind the header leaves the
\* arguments and their values alone.
LEMMA AnswersKept ==
  ASSUME IInv, pc \in Answering, NEW f, Answers(f), UNCHANGED <<pc, idx, paddr, kern, launch, buf>>,
         \A y \in Addr : comm.addr + HEAD <= y /\ y < comm.addr + comm.size => mem'[y] = mem[y]
  PROVE  Answers(f)'
<1> DEFINE N == NumArgs(kern)
<1>1. pc \in Launched /\ N \in Nat /\ N + 1 \in Nat /\ HEAD \in Nat \ {0}
      /\ comm.addr \in Nat /\ comm.size \in Nat
      /\ \A y \in Nat : comm.addr <= y /\ y < comm.addr + comm.size => y \in Addr
  BY PlaceFacts DEF Launched, Answering
<1>2. Places(N + 1, f)
  BY DEF Answers
<1>3. ASSUME NEW j \in 0 .. N
      PROVE  /\ \A o \in 0 .. HEAD - 1 : mem'[f[j] + o] = mem[f[j] + o]
             /\ \A o \in 0 .. ArgSize(ArgOf(kern, j)) - 1 : mem'[f[j] + HEAD + o] = mem[f[j] + HEAD + o]
  <2> DEFINE s == ArgSize(ArgOf(kern, j))
  <2>1. j \in 0 .. (N + 1) - 1
    BY <1>1
  <2>2. f[j] \in Nat /\ comm.addr + HEAD <= f[j] /\ s \in Nat /\ f[j] + HEAD + s < comm.addr + comm.size
    BY <1>1, <1>2, <2>1, ArgumentSpan
  <2> HIDE DEF s
  <2>3. ASSUME NEW y \in f[j] .. f[j] + HEAD + s - 1 PROVE mem'[y] = mem[y]
    <3>1. y \in Nat /\ comm.addr <= y /\ comm.addr + HEAD <= y /\ y < comm.addr + comm.size
      BY <1>1, <2>2
    <3> QED BY <1>1, <3>1
  <2>4. ASSUME NEW o \in 0 .. HEAD - 1 PROVE mem'[f[j] + o] = mem[f[j] + o]
    <3>1. f[j] + o \in f[j] .. f[j] + HEAD + s - 1
      BY <1>1, <2>2
    <3> QED BY <2>3, <3>1
  <2>5. ASSUME NEW o \in 0 .. s - 1 PROVE mem'[f[j] + HEAD + o] = mem[f[j] + HEAD + o]
    <3>1. f[j] + HEAD + o \in f[j] .. f[j] + HEAD + s - 1
      BY <1>1, <2>2
    <3> QED BY <2>3, <3>1
  <2> QED BY <2>4, <2>5 DEF s
<1>4. Places(N + 1, f)'
  <2>1. \A j \in 0 .. (N + 1) - 1 : \A o \in 0 .. HEAD - 1 : mem'[f[j] + o] = mem[f[j] + o]
    BY <1>1, <1>3
  <2>2. N' = N
    OBVIOUS
  <2> HIDE DEF N
  <2>3. \A n \in Nat : n = N + 1 => Places(n, f)'
    BY <1>1, <1>2, <2>1, PlacesKept
  <2> QED BY <1>1, <2>2, <2>3
<1>5. ASSUME NEW j \in 0 .. N
      PROVE  /\ Stored(j, f[j]) => Stored(j, f[j])'
             /\ Kept(j, f[j]) => Kept(j, f[j])'
             /\ ReadBack(j, f[j]) => ReadBack(j, f[j])'
  <2>1. ArgOf(kern', j) = ArgOf(kern, j) /\ launch' = launch /\ buf' = buf
    OBVIOUS
  <2>2. \A o \in 0 .. ArgSize(ArgOf(kern, j)) - 1 : mem'[f[j] + HEAD + o] = mem[f[j] + HEAD + o]
    BY <1>3
  <2>3. Stored(j, f[j]) => Stored(j, f[j])'
    BY <2>1, <2>2 DEF Stored
  <2>4. Kept(j, f[j]) => Kept(j, f[j])'
    BY <2>1, <2>2 DEF Kept
  <2>5. ReadBack(j, f[j]) => ReadBack(j, f[j])'
    BY <2>1, <2>2 DEF ReadBack
  <2> QED BY <2>3, <2>4, <2>5
<1>6. NumArgs(kern') = N /\ \A j : ArgOf(kern', j) = ArgOf(kern, j)
  OBVIOUS
<1>7. Places(NumArgs(kern) + 1, f)'
  BY <1>4, <1>6
<1> QED BY <1>5, <1>6, <1>7 DEF Answers

\* What a transfer into memory leaves in a cell.
LEMMA StoredCells ==
  ASSUME NEW x \in Nat, NEW bytes, NEW size \in Nat, NEW r, Port!Writes(x, bytes, size, r)
  PROVE  \A y \in Addr : mem'[y] = mem[y] \/ \E o \in 0 .. size - 1 : mem'[y] = bytes[o]
<1>1. PICK cells \in SUBSET (0 .. size - 1) : mem' = Port!Stored(x, bytes, cells)
  BY DEF Port!Writes
<1>2. \A y \in Addr : mem'[y] = IF y - x \in cells THEN bytes[y - x] ELSE mem[y]
  BY <1>1 DEF Port!Stored
<1> QED BY <1>2

\* What a transfer into a buffer leaves in it, of this and of other buffers.
LEMMA ReadCells ==
  ASSUME IInv, NEW m \in Mems, NEW x \in Nat, NEW r, ReadInto(m, x, r)
  PROVE  /\ \A q \in Mems : q # m => buf'[q] = buf[q]
         /\ \A o \in 0 .. MemSize[m] - 1 : buf'[m][o] = buf[m][o] \/ buf'[m][o] = mem[x + o]
         /\ "silent" \notin Faults /\ r = "CL_SUCCESS" =>
              \A o \in 0 .. MemSize[m] - 1 : buf'[m][o] = mem[x + o]
<1> DEFINE s == MemSize[m]
<1>1. PICK new \in Port!Reads(buf[m], x, s, r) : buf' = [buf EXCEPT ![m] = new]
  BY DEF ReadInto
<1>2. PICK cells \in SUBSET (0 .. s - 1) : Port!Moved(cells, s, r) /\ new = Port!Loaded(buf[m], x, cells)
  BY <1>1 DEF Port!Reads
<1>3. DOMAIN buf = Mems /\ DOMAIN buf[m] = 0 .. s - 1
  <2>1. buf = [q \in Mems |-> [o \in 0 .. MemSize[q] - 1 |-> buf[q][o]]]
    BY DEF IInv, TypeOK
  <2> QED BY <2>1
<1>4. \A q \in Mems : q # m => buf'[q] = buf[q]
  BY <1>1, <1>3
<1>5. buf'[m] = Port!Loaded(buf[m], x, cells)
  BY <1>1, <1>2, <1>3
<1>6. \A o \in 0 .. s - 1 : buf'[m][o] = IF o \in cells THEN mem[x + o] ELSE buf[m][o]
  BY <1>3, <1>5 DEF Port!Loaded
<1>7. "silent" \notin Faults /\ r = "CL_SUCCESS" => cells = 0 .. s - 1
  BY <1>2 DEF Port!Moved, Port!Reported
<1> QED BY <1>4, <1>6, <1>7 DEF s

\* A step into memory that stores cells of no later launch.
LEMMA MemoryNumbers ==
  ASSUME NumberInv, IInv, UNCHANGED <<launch, buf, finished, task>>, pc' \in Before => pc \in Before,
         \A y \in Addr : mem'[y] = mem[y] \/ Sound(mem'[y])
  PROVE  NumberInv'
<1> DEFINE L == IF pc \in Before THEN launch - 1 ELSE launch
<1>1. 0 .. L \subseteq 0 .. L' /\ launch \in Nat
  BY DEF NumberInv
<1>2. \A c : Sound(c) => (c[1] = "out" => c[2] \in 0 .. L') /\ (c[1] = "arg" => c[4] \in Nat)
  BY <1>1 DEF Sound
<1>3. L' = IF pc' \in Before THEN launch' - 1 ELSE launch'
  OBVIOUS
<1> HIDE DEF L
<1>4. ASSUME NEW y \in Addr PROVE Sound(mem[y])'
  <2>1. Sound(mem'[y])
    BY DEF NumberInv
  <2> QED BY <1>2, <1>3, <2>1 DEF Sound
<1>5. ASSUME NEW m \in Mems, NEW o \in 0 .. MemSize[m] - 1 PROVE Sound(buf[m][o])'
  <2>1. Sound(buf[m][o])
    BY DEF NumberInv
  <2> QED BY <1>2, <1>3, <2>1 DEF Sound
<1> QED BY <1>1, <1>4, <1>5 DEF NumberInv

\* The recursion of SeenAt has a solution: the walk is what it says.
LEMMA WalkEquation ==
  ASSUME NEW k, NumArgs(k) \in Nat
  PROVE  \A j \in 0 .. NumArgs(k) :
           SeenAt(k)[j] = IF j = 0 THEN Comm[k.prg].addr + HEAD
                          ELSE AlignUp(SeenAt(k)[j - 1] + HEAD + SeenSize(SeenAt(k)[j - 1]))
<1> DEFINE N == NumArgs(k)
           Following(x) == AlignUp(x + HEAD + SeenSize(x))
           Walk(n, h) == h = [j \in 0 .. n |-> IF j = 0 THEN Comm[k.prg].addr + HEAD ELSE Following(h[j - 1])]
           Wrong == {n \in 0 .. N : \A h : ~Walk(n, h)}
<1>1. ASSUME Wrong # {} PROVE FALSE
  <2>1. Wrong \subseteq Nat
    OBVIOUS
  <2>2. PICK m \in Wrong : \A y \in Wrong : m <= y
    <3> HIDE DEF Wrong
    <3> QED BY <1>1, <2>1, NatMin
  <2>3. m \in 0 .. N /\ \A h : ~Walk(m, h)
    OBVIOUS
  <2> HIDE DEF Following
  <2>4. CASE m = 0
    <3> DEFINE h == [j \in 0 .. 0 |-> Comm[k.prg].addr + HEAD]
    <3>1. Walk(0, h)
      OBVIOUS
    <3> QED BY <2>3, <2>4, <3>1
  <2>5. CASE m # 0
    <3>1. m - 1 \in 0 .. N /\ m - 1 \notin Wrong
      BY <2>2, <2>3, <2>5
    <3>2. PICK h : Walk(m - 1, h)
      BY <3>1
    <3> DEFINE g == [j \in 0 .. m |-> IF j = m THEN Following(h[m - 1]) ELSE h[j]]
    <3>3. ASSUME NEW j \in 0 .. m
          PROVE  g[j] = IF j = 0 THEN Comm[k.prg].addr + HEAD ELSE Following(g[j - 1])
      <4>1. CASE j = m
        <5>1. m - 1 \in 0 .. m /\ m - 1 # m
          BY <2>3, <2>5
        <5> QED BY <2>5, <4>1, <5>1
      <4>2. CASE j # m
        <5>1. j \in 0 .. m - 1
          BY <2>3, <4>2
        <5>2. g[j] = h[j] /\ h[j] = IF j = 0 THEN Comm[k.prg].addr + HEAD ELSE Following(h[j - 1])
          BY <3>2, <4>2, <5>1
        <5>3. j # 0 => j - 1 \in 0 .. m /\ j - 1 # m
          BY <2>3, <5>1
        <5> QED BY <5>2, <5>3
      <4> QED BY <4>1, <4>2
    <3>4. Walk(m, g)
      BY <3>3
    <3> QED BY <2>3, <3>4
  <2> QED BY <2>4, <2>5
<1>2. PICK h : Walk(N, h)
  <2>1. N \in 0 .. N /\ N \notin Wrong
    BY <1>1
  <2> QED BY <2>1
<1>3. Walk(N, SeenAt(k))
  <2> DEFINE W(g) == g = [j \in 0 .. N |-> IF j = 0 THEN Comm[k.prg].addr + HEAD
                                           ELSE AlignUp(g[j - 1] + HEAD + SeenSize(g[j - 1]))]
  <2>1. SeenAt(k) = CHOOSE g : W(g)
    BY DEF SeenAt
  <2>2. W(h)
    BY <1>2
  <2>3. W(SeenAt(k))
    <3> HIDE DEF W
    <3> QED BY <2>1, <2>2, Zenon
  <2> QED BY <2>3
<1> QED BY <1>3

\* The walk stays behind the comm header, whatever the headers say.
LEMMA WalkStaysBehind ==
  ASSUME IInv, \A x \in Addr : Sound(mem[x]), NEW k \in Kernels, k.prg \in Programs
  PROVE  \A j \in 0 .. NumArgs(k) : SeenAt(k)[j] \in Nat /\ Comm[k.prg].addr + HEAD <= SeenAt(k)[j]
<1> DEFINE N == NumArgs(k)
           base == Comm[k.prg].addr + HEAD
           Wrong == {j \in 0 .. N : ~(SeenAt(k)[j] \in Nat /\ base <= SeenAt(k)[j])}
<1>1. N \in Nat /\ base \in Nat /\ HEAD \in Nat
  BY KernelFacts, ProgramFacts, DeviceAssumption
<1>2. SUFFICES ASSUME Wrong # {} PROVE FALSE
  OBVIOUS
<1>3. PICK m \in Wrong : \A y \in Wrong : m <= y
  <2>1. Wrong \subseteq Nat
    OBVIOUS
  <2> HIDE DEF Wrong
  <2> QED BY <1>2, <2>1, NatMin
<1>4. m \in 0 .. N /\ ~(SeenAt(k)[m] \in Nat /\ base <= SeenAt(k)[m])
  OBVIOUS
<1>5. m # 0
  BY <1>1, <1>4, WalkEquation
<1>6. m - 1 \in 0 .. N /\ m - 1 \notin Wrong
  <2>1. m \in Nat /\ m - 1 < m /\ m - 1 \in 0 .. N /\ m - 1 \in Int
    BY <1>1, <1>4, <1>5
  <2> HIDE DEF Wrong
  <2>2. ~(m <= m - 1)
    BY <2>1
  <2> QED BY <1>3, <2>1, <2>2
<1>7. PICK x \in Nat : x = SeenAt(k)[m - 1] /\ base <= x
  BY <1>6
<1>8. PICK s \in Nat : s = SeenSize(x)
  BY DEF SeenSize, Sound
<1>9. SeenAt(k)[m] = AlignUp(x + HEAD + s)
  BY <1>1, <1>4, <1>5, <1>7, <1>8, WalkEquation
<1> HIDE DEF Wrong, base
<1>10. x + HEAD + s \in Nat
  BY <1>1, <1>7, <1>8
<1>11. PICK z \in Nat : z = AlignUp(x + HEAD + s) /\ x + HEAD + s <= z
  BY <1>10, AlignUpGrows
<1>12. SeenAt(k)[m] = z /\ base <= z
  BY <1>1, <1>7, <1>8, <1>9, <1>11
<1> QED BY <1>4, <1>12 DEF base

\* What the host stores before the run carries the number of this launch or none.
LEMMA NumberHost ==
  ASSUME IInv, NumberInv, SendChunk \/ SendHeader \/ SendArgHead \/ SendPayload
  PROVE  NumberInv'
<1>1. \A i, o, p : Sound(ChunkCell(p, i, o))
  BY DEF Sound, ChunkCell
<1>2. \A n, d, o : Sound(CommCell(n, d, o))
  BY DEF Sound, CommCell
<1>3. \A j, t, o : \A s \in Nat : Sound(ArgHeadCell(j, t, s, o))
  BY DEF Sound, ArgHeadCell
<1>4. \A n, j, o : Sound(ValCell(n, j, o))
  BY DEF Sound, ValCell
<1>5. UNCHANGED <<launch, buf, finished, task>> /\ (pc' \in Before => pc \in Before)
  BY DEF SendChunk, SendHeader, SendArgHead, SendPayload, Return, Before
<1>6. ASSUME NEW y \in Addr PROVE mem'[y] = mem[y] \/ Sound(mem'[y])
  <2>0. pc \in Launched /\ prg \in Programs
    BY DEF SendChunk, SendHeader, SendArgHead, SendPayload, IInv, Placement, Launched
  <2>1. CASE SendChunk
    <3> DEFINE c == Chunks[prg][idx]
               bytes == [o \in 0 .. c.size - 1 |-> ChunkCell(prg, idx, o)]
    <3>1. PICK r \in Rets : Port!Writes(c.paddr, bytes, c.size, r)
      BY <2>1 DEF SendChunk
    <3>2. idx \in DOMAIN Chunks[prg]
      BY <2>1 DEF SendChunk
    <3>3. c.paddr \in Nat /\ c.size \in Nat
      BY <2>0, <3>2, ProgramFacts
    <3>4. \A o \in 0 .. c.size - 1 : Sound(bytes[o])
      BY <1>1
    <3> HIDE DEF bytes, c
    <3>5. mem'[y] = mem[y] \/ \E o \in 0 .. c.size - 1 : mem'[y] = bytes[o]
      BY <3>1, <3>3, StoredCells
    <3> QED BY <3>4, <3>5
  <2>2. CASE SendHeader
    <3> DEFINE bytes == [o \in 0 .. HEAD - 1 |-> CommCell(NumArgs(kern) + 1, 0, o)]
    <3>1. PICK r \in Rets : Port!Writes(comm.addr, bytes, HEAD, r)
      BY <2>2 DEF SendHeader
    <3>2. comm.addr \in Nat /\ HEAD \in Nat
      BY <2>0, PlaceFacts
    <3>3. \A o \in 0 .. HEAD - 1 : Sound(bytes[o])
      BY <1>2
    <3> HIDE DEF bytes
    <3>4. mem'[y] = mem[y] \/ \E o \in 0 .. HEAD - 1 : mem'[y] = bytes[o]
      BY <3>1, <3>2, StoredCells
    <3> QED BY <3>3, <3>4
  <2>3. CASE SendArgHead
    <3> DEFINE a == ArgOf(kern, idx)
               bytes == [o \in 0 .. HEAD - 1 |-> ArgHeadCell(idx, a.type, ArgSize(a), o)]
    <3>1. PICK r \in Rets : Port!Writes(paddr, bytes, HEAD, r)
      BY <2>3 DEF SendArgHead
    <3>2. paddr \in Nat /\ HEAD \in Nat /\ ArgSize(a) \in Nat
      <4>1. idx \in 0 .. NumArgs(kern) /\ ArgError(a) = "CL_SUCCESS"
        BY <2>0, <2>3, PlaceFacts DEF SendArgHead
      <4> QED BY <2>0, <4>1, PlaceFacts
    <3>3. \A o \in 0 .. HEAD - 1 : Sound(bytes[o])
      BY <1>3, <3>2
    <3> HIDE DEF bytes
    <3>4. mem'[y] = mem[y] \/ \E o \in 0 .. HEAD - 1 : mem'[y] = bytes[o]
      BY <3>1, <3>2, StoredCells
    <3> QED BY <3>3, <3>4
  <2>4. CASE SendPayload
    <3> DEFINE a == ArgOf(kern, idx)
               s == ArgSize(a)
               bytes == ArgBytes(launch, idx, a)
    <3>1. CASE UNCHANGED mem
      BY <3>1
    <3>2. CASE mem' # mem
      <4>1. PICK r \in Rets : Port!Writes(paddr, bytes, s, r)
        BY <2>4, <3>2 DEF SendPayload
      <4>2. idx \in 0 .. NumArgs(kern) /\ ArgError(a) = "CL_SUCCESS" /\ paddr \in Nat
        BY <2>0, <2>4, PlaceFacts DEF SendPayload, IInv, Placement
      <4>3. s \in Nat
        BY <2>0, <4>2, PlaceFacts
      <4>4. \A o \in 0 .. s - 1 : Sound(bytes[o])
        <5>1. CASE a.type = "MEM"
          <6>1. a \in Args
            BY <4>2, ArgsAreArgs DEF IInv, TypeOK
          <6>2. a.mem \in Mems
            BY <4>2, <5>1, <6>1 DEF Args, ArgError
          <6>3. bytes = buf[a.mem] /\ s = MemSize[a.mem]
            BY <5>1 DEF ArgBytes, ArgSize
          <6> HIDE DEF bytes, s, a
          <6> QED BY <6>2, <6>3 DEF NumberInv
        <5>2. CASE a.type # "MEM"
          <6>1. bytes = [o \in 0 .. a.size - 1 |-> ValCell(launch, idx, o)] /\ s = a.size
            BY <5>2 DEF ArgBytes, ArgSize
          <6> HIDE DEF bytes, s, a
          <6> QED BY <1>4, <6>1
        <5> QED BY <5>1, <5>2
      <4> HIDE DEF bytes, s, a
      <4>5. mem'[y] = mem[y] \/ \E o \in 0 .. s - 1 : mem'[y] = bytes[o]
        BY <4>1, <4>2, <4>3, StoredCells
      <4> QED BY <4>4, <4>5
    <3> QED BY <3>1, <3>2
  <2> QED BY <2>1, <2>2, <2>3, <2>4
<1> QED BY <1>5, <1>6, MemoryNumbers

\* What the kernel stores carries the number of its own launch.
LEMMA NumberKernel ==
  ASSUME IInv, NumberInv, Kernel
  PROVE  NumberInv'
<1>1. dev = "running" /\ UNCHANGED <<hostVars, buf, dev, task>> /\ (finished' = finished \/ finished' = task.no)
  BY DEF Kernel, KernelStore, KernelData, KernelDone, KernelBreaks, Working
<1>2. launch \in Nat /\ task.no \in Nat /\ finished \in Nat
  BY DEF IInv, TypeOK
<1>3. task.no \in 0 .. (IF pc \in Before THEN launch - 1 ELSE launch)
  BY <1>2 DEF NumberInv
<1>4. Sound(Junk) /\ (\A n, d, o : Sound(CommCell(n, d, o))) /\ \A j, o : Sound(OutCell(task.no, j, o))
  BY <1>3 DEF Sound, Junk, CommCell, OutCell
<1>5. task.kern \in Kernels
  BY DEF IInv, TypeOK
<1>6. ASSUME NEW y \in Addr PROVE mem'[y] = mem[y] \/ Sound(mem'[y])
  <2>1. ASSUME NEW j \in DOMAIN task.kern.args, KernelStore(j) PROVE mem'[y] = mem[y] \/ Sound(mem'[y])
    <3> DEFINE a == task.kern.args[j]
               x == SeenAt(task.kern)[j] + HEAD
               s == MemSize[a.mem]
               bytes == [o \in 0 .. s - 1 |-> OutCell(task.no, j, o)]
    <3>1. mem' = StoreAll(x, bytes, s) /\ NeedRead(a) /\ Working
      BY <2>1 DEF KernelStore
    <3>2. s \in Nat
      BY <3>1, KernelAssumption DEF NeedRead
    <3>3. x \in Nat
      <4>1. task.kern.prg \in Programs
        BY <3>1 DEF Working, IInv, Placement
      <4>2. j \in 0 .. NumArgs(task.kern)
        BY <1>5, <2>1, KernelAssumption DEF NumArgs
      <4>3. \A y2 \in Addr : Sound(mem[y2])
        BY DEF NumberInv
      <4>4. SeenAt(task.kern)[j] \in Nat
        BY <1>5, <4>1, <4>2, <4>3, WalkStaysBehind
      <4> QED BY <4>4, DeviceAssumption
    <3>4. \A o \in 0 .. s - 1 : Sound(bytes[o])
      BY <1>4
    <3> HIDE DEF x, s, bytes
    <3>5. CASE y \in Span(x, s)
      <4>1. mem'[y] = bytes[y - x] /\ y - x \in 0 .. s - 1
        BY <3>1, <3>2, <3>3, <3>5 DEF StoreAll, Span
      <4> QED BY <3>4, <4>1
    <3>6. CASE y \notin Span(x, s)
      BY <3>1, <3>6 DEF StoreAll
    <3> QED BY <3>5, <3>6
  <2>2. ASSUME NEW i, KernelData(i) PROVE mem'[y] = mem[y] \/ Sound(mem'[y])
    BY <1>4, <2>2 DEF KernelData
  <2>3. ASSUME NEW bytes, KernelHeader(bytes), \A o \in 0 .. HEAD - 1 : Sound(bytes[o]), Working
        PROVE  mem'[y] = mem[y] \/ Sound(mem'[y])
    <3> DEFINE x == Comm[task.kern.prg].addr
    <3>1. mem' = StoreAll(x, bytes, HEAD)
      BY <2>3 DEF KernelHeader
    <3>2. x \in Nat /\ HEAD \in Nat
      BY <2>3, ProgramFacts, DeviceAssumption DEF Working, IInv, Placement
    <3> HIDE DEF x
    <3>3. CASE y \in Span(x, HEAD)
      <4>1. mem'[y] = bytes[y - x] /\ y - x \in 0 .. HEAD - 1
        BY <3>1, <3>2, <3>3 DEF StoreAll, Span
      <4> QED BY <2>3, <4>1
    <3>4. CASE y \notin Span(x, HEAD)
      BY <3>1, <3>4 DEF StoreAll
    <3> QED BY <3>3, <3>4
  <2>4. CASE KernelDone
    <3> DEFINE b == [o \in 0 .. HEAD - 1 |-> CommCell(NumArgs(task.kern) + 1, 1, o)]
    <3>1. KernelHeader(b) /\ Working /\ \A o \in 0 .. HEAD - 1 : Sound(b[o])
      BY <1>4, <2>4 DEF KernelDone
    <3> HIDE DEF b
    <3> QED BY <2>3, <3>1
  <2>5. CASE KernelBreaks
    <3> DEFINE b == [o \in 0 .. HEAD - 1 |-> Junk]
    <3>1. KernelHeader(b) /\ Working /\ \A o \in 0 .. HEAD - 1 : Sound(b[o])
      BY <1>4, <2>5 DEF KernelBreaks
    <3> HIDE DEF b
    <3> QED BY <2>3, <3>1
  <2> QED BY <2>1, <2>2, <2>4, <2>5 DEF Kernel
<1>7. pc' = pc /\ launch' = launch /\ buf' = buf /\ task' = task
  BY <1>1 DEF hostVars
<1>9. finished' <= launch' /\ task'.no <= launch' /\ (pc' \in Before => finished' < launch' /\ task'.no < launch')
  BY <1>1, <1>7 DEF NumberInv
<1>10. \A y \in Addr : Sound(mem[y])'
  <2> TAKE y \in Addr
  <2>1. Sound(mem'[y])
    BY <1>6 DEF NumberInv
  <2> QED BY <1>7, <2>1 DEF Sound
<1>11. \A m \in Mems : \A o \in 0 .. MemSize[m] - 1 : Sound(buf[m][o])'
  BY <1>7 DEF NumberInv, Sound
<1> QED BY <1>2, <1>7, <1>9, <1>10, <1>11 DEF NumberInv

\* What is read back was stored by no later launch.
LEMMA NumberDequeue ==
  ASSUME IInv, NumberInv, RunInv, Dequeue
  PROVE  NumberInv'
<1> DEFINE a == ArgOf(kern, idx)
<1>1. pc = "dequeue" /\ idx \in 0 .. NumArgs(kern) /\ HEAD \in Nat /\ pc \in Launched
      /\ pc' \in {"dequeue", "idle"} /\ UNCHANGED <<kern, launch, mem, task, finished>>
  <2>1. pc = "dequeue" /\ idx <= NumArgs(kern)
    BY DEF Dequeue
  <2> QED BY <2>1, PlaceFacts DEF Dequeue, Return, Launched
<1>2. PICK f : Places(NumArgs(kern) + 1, f) /\ paddr = f[idx]
  BY <1>1 DEF RunInv, Answering, Answers
<1>3. /\ paddr \in Nat /\ comm.addr <= paddr
      /\ ArgSize(a) \in Nat /\ paddr + HEAD + ArgSize(a) < comm.addr + comm.size
  <2>1. NumArgs(kern) + 1 \in Nat /\ idx \in 0 .. (NumArgs(kern) + 1) - 1 /\ comm.addr \in Nat
    BY <1>1, PlaceFacts
  <2>2. f[idx] \in Nat /\ comm.addr + HEAD <= f[idx] /\ ArgSize(a) \in Nat
        /\ f[idx] + HEAD + ArgSize(a) < comm.addr + comm.size
    BY <1>1, <1>2, <2>1, ArgumentSpan
  <2> QED BY <1>1, <1>2, <2>1, <2>2
<1>4. ASSUME NEW m \in Mems, NEW o \in 0 .. MemSize[m] - 1
      PROVE  Sound(buf'[m][o])
  <2>1. Sound(buf[m][o])
    BY DEF NumberInv
  <2>2. CASE UNCHANGED buf
    BY <2>1, <2>2
  <2>3. CASE buf' # buf
    <3>1. PICK r \in Rets : ReadInto(a.mem, paddr + HEAD, r)
      BY <2>3 DEF Dequeue
    <3>2. a.type = "MEM" /\ a.mem \in Mems
      BY <2>3, KernelAssumption DEF Dequeue, NeedRead
    <3>3. ArgSize(a) = MemSize[a.mem]
      BY <3>2 DEF ArgSize
    <3> HIDE DEF a
    <3>4. paddr + HEAD \in Nat
      BY <1>1, <1>3
    <3>5. /\ \A q \in Mems : q # a.mem => buf'[q] = buf[q]
          /\ \A i \in 0 .. MemSize[a.mem] - 1 :
               buf'[a.mem][i] = buf[a.mem][i] \/ buf'[a.mem][i] = mem[paddr + HEAD + i]
      BY <3>1, <3>2, <3>4, ReadCells
    <3>6. CASE m # a.mem
      BY <2>1, <3>5, <3>6
    <3>7. CASE m = a.mem
      <4>1. paddr + HEAD + o \in Addr
        <5>1. comm.addr \in Nat /\ comm.size \in Nat
              /\ \A y \in Nat : comm.addr <= y /\ y < comm.addr + comm.size => y \in Addr
          BY <1>1, PlaceFacts
        <5>2. o \in 0 .. ArgSize(a) - 1
          BY <3>3, <3>7
        <5> QED BY <1>1, <1>3, <5>1, <5>2
      <4>2. Sound(mem[paddr + HEAD + o])
        BY <4>1 DEF NumberInv
      <4> QED BY <2>1, <3>5, <3>7, <4>2
    <3> QED BY <3>6, <3>7
  <2> QED BY <2>2, <2>3
<1>5. (IF pc \in Before THEN launch - 1 ELSE launch) = launch /\ pc' \notin Before
  BY <1>1 DEF Before
<1>6. \A m \in Mems : \A o \in 0 .. MemSize[m] - 1 : Sound(buf[m][o])'
  BY <1>1, <1>4, <1>5 DEF Sound
<1>7. \A y \in Addr : Sound(mem[y])'
  BY <1>1, <1>5 DEF NumberInv, Sound
<1> QED BY <1>1, <1>5, <1>6, <1>7 DEF NumberInv

LEMMA NumberStep ==
  ASSUME IInv, NumberInv, RunInv, [Next]_vars
  PROVE  NumberInv'
<1>1. CASE SendChunk \/ SendHeader \/ SendArgHead \/ SendPayload
  BY <1>1, NumberHost
<1>2. CASE Dequeue
  BY <1>2, NumberDequeue
<1>3. CASE Kernel
  BY <1>3, NumberKernel
<1>4. CASE Reset \/ SkipChunk \/ RefuseArg \/ Stop \/ ReadHeader \/ Resume \/ Finish \/ Halts
           \/ UNCHANGED vars
  <2>1. UNCHANGED <<launch, buf, finished, task, mem>> /\ (pc' \in Before => pc \in Before)
    BY <1>4 DEF Reset, SkipChunk, RefuseArg, Stop, ReadHeader, Resume, Finish, Halts, Port!Halts, hostVars,
       vars, Return, Before
  <2> QED BY <2>1, MemoryNumbers
<1>5. CASE Run
  <2>1. launch' = launch /\ buf' = buf /\ mem' = mem /\ finished' = finished /\ pc \in Before
        /\ pc' \notin Before /\ task'.no <= launch
    BY <1>5 DEF Run, Return, Before, NumberInv, IInv, TypeOK
  <2>2. launch \in Nat /\ launch - 1 <= launch
    BY DEF NumberInv
  <2>3. 0 .. launch - 1 \subseteq 0 .. launch
    BY <2>2
  <2>4. \A y \in Addr : Sound(mem[y])'
    BY <2>1, <2>3 DEF NumberInv, Sound
  <2>5. \A m \in Mems : \A o \in 0 .. MemSize[m] - 1 : Sound(buf[m][o])'
    BY <2>1, <2>3 DEF NumberInv, Sound
  <2> QED BY <2>1, <2>2, <2>4, <2>5 DEF NumberInv
<1>6. CASE \E k \in Kernels : Launch(k)
  <2>1. launch' = launch + 1 /\ UNCHANGED <<buf, mem, finished, task>> /\ pc = "idle" /\ pc' = "reset"
    BY <1>6 DEF Launch
  <2>2. launch \in Nat /\ launch' - 1 = launch
    BY <2>1 DEF NumberInv
  <2>3. \A y \in Addr : Sound(mem[y])'
    BY <2>1, <2>2 DEF NumberInv, Sound, Before
  <2>4. \A m \in Mems : \A o \in 0 .. MemSize[m] - 1 : Sound(buf[m][o])'
    BY <2>1, <2>2 DEF NumberInv, Sound, Before
  <2>5. finished \in Nat /\ task.no \in Nat /\ finished <= launch /\ task.no <= launch
    BY DEF IInv, TypeOK, NumberInv
  <2> QED BY <2>1, <2>2, <2>3, <2>4, <2>5 DEF NumberInv
<1>7. CASE LaunchBadQueue
  <2>1. launch' = launch + 1 /\ UNCHANGED <<buf, mem, finished, task>> /\ pc = "idle" /\ pc' = "idle"
    BY <1>7 DEF LaunchBadQueue, Return
  <2>2. launch \in Nat /\ 0 .. launch \subseteq 0 .. launch'
    BY <2>1 DEF NumberInv
  <2>3. \A y \in Addr : Sound(mem[y])'
    BY <2>1, <2>2 DEF NumberInv, Sound, Before
  <2>4. \A m \in Mems : \A o \in 0 .. MemSize[m] - 1 : Sound(buf[m][o])'
    BY <2>1, <2>2 DEF NumberInv, Sound, Before
  <2>5. finished \in Nat /\ task.no \in Nat /\ finished <= launch /\ task.no <= launch
    BY DEF IInv, TypeOK, NumberInv
  <2> QED BY <2>1, <2>2, <2>3, <2>4, <2>5 DEF NumberInv, Before
<1>8. CASE \E m \in Mems : AppWrite(m)
  <2>1. PICK m \in Mems : AppWrite(m)
    BY <1>8
  <2>2. UNCHANGED <<pc, launch, mem, finished, task>>
    BY <2>1 DEF AppWrite, hostVars
  <2>3. buf' = [buf EXCEPT ![m] = [o \in DOMAIN buf[m] |-> AppCell(launch, m, o)]]
    BY <2>1 DEF AppWrite
  <2>4. buf = [q \in Mems |-> [o \in 0 .. MemSize[q] - 1 |-> buf[q][o]]]
    BY DEF IInv, TypeOK
  <2>5. DOMAIN buf = Mems /\ DOMAIN buf[m] = 0 .. MemSize[m] - 1
    BY <2>4
  <2>6. ASSUME NEW q \in Mems, NEW o \in 0 .. MemSize[q] - 1 PROVE Sound(buf'[q][o])
    <3>1. CASE q # m
      <4>1. buf'[q] = buf[q]
        BY <2>3, <2>5, <3>1
      <4> QED BY <4>1 DEF NumberInv
    <3>2. CASE q = m
      <4>1. buf'[q][o] = AppCell(launch, m, o)
        BY <2>3, <2>5, <3>2
      <4> QED BY <4>1 DEF Sound, AppCell
    <3> QED BY <3>1, <3>2
  <2>7. \A q \in Mems : \A o \in 0 .. MemSize[q] - 1 : Sound(buf[q][o])'
    BY <2>2, <2>6 DEF Sound
  <2>8. \A y \in Addr : Sound(mem[y])'
    BY <2>2 DEF NumberInv, Sound
  <2> QED BY <2>2, <2>7, <2>8 DEF NumberInv
<1> QED BY <1>1, <1>2, <1>3, <1>4, <1>5, <1>6, <1>7, <1>8 DEF Next, Host, App

\* dev_run: what the host has laid out is what the kernel starts from.
LEMMA RunStarts ==
  ASSUME IInv, ArgInv, NumberInv, Run
  PROVE  RunInv'
<1> SUFFICES ASSUME pc' \in Answering PROVE RunInv'
  BY DEF RunInv
<1> DEFINE N == NumArgs(kern)
<1>1. /\ pc = "args" /\ idx > N /\ pc' = "poll" /\ task' = [kern |-> kern, no |-> launch]
      /\ UNCHANGED <<launch, kern, idx, paddr, mem, buf, finished>>
  BY DEF Run, Return, Answering
<1>2. /\ pc \in Launched /\ N \in Nat /\ idx \in Nat /\ HEAD \in Nat \ {0} /\ comm.addr \in Nat /\ comm.size \in Nat
      /\ \A y \in Nat : comm.addr <= y /\ y < comm.addr + comm.size => y \in Addr
  BY <1>1, PlaceFacts DEF Launched
<1>3. PICK f : LaidOut(idx, f)
  BY <1>1 DEF ArgInv
<1>4. idx = N + 1
  <2>1. idx - 1 \in 0 .. idx - 1 /\ idx - 1 \in Nat
    BY <1>1, <1>2
  <2>2. idx - 1 \in 0 .. N
    BY <1>2, <1>3, <2>1, ArgumentSpan DEF LaidOut
  <2> QED BY <1>1, <1>2, <2>2
<1>5. Places(N + 1, f) /\ \A j \in 0 .. N : ValueAt(j, f[j])
  BY <1>2, <1>3, <1>4 DEF LaidOut
<1>6. comm' = comm /\ \A j : ArgOf(kern', j) = ArgOf(kern, j)
  BY <1>1 DEF comm, prg
<1>7. Places(NumArgs(kern) + 1, f)'
  BY <1>1, <1>5, <1>6 DEF Places, HeadAt, End
<1>8. ASSUME NEW j \in 0 .. N, NeedRead(ArgOf(kern, j)) PROVE Kept(j, f[j])'
  <2> DEFINE a == ArgOf(kern, j)
             s == ArgSize(a)
  <2>1. j \in 0 .. (N + 1) - 1 /\ N + 1 \in Nat
    BY <1>2
  <2>2. f[j] \in Nat /\ comm.addr + HEAD <= f[j] /\ s \in Nat /\ f[j] + HEAD + s < comm.addr + comm.size
    BY <1>2, <1>5, <2>1, ArgumentSpan
  <2>3. NeedWrite(a) => \A o \in 0 .. s - 1 : mem[f[j] + HEAD + o] = buf[a.mem][o]
    <3>1. a.type = "MEM"
      BY <1>8 DEF NeedRead
    <3> QED BY <1>5, <3>1 DEF ValueAt, ArgBytes
  <2>4. ASSUME NEW o \in 0 .. s - 1, mem[f[j] + HEAD + o][1] = "out"
        PROVE  mem[f[j] + HEAD + o][2] # launch
    <3>1. f[j] + HEAD + o \in Addr
      <4>1. f[j] + HEAD + o \in Nat /\ comm.addr <= f[j] + HEAD + o /\ f[j] + HEAD + o < comm.addr + comm.size
        <5> HIDE DEF s
        <5> QED BY <1>2, <2>2
      <4> QED BY <1>2, <4>1
    <3>2. Sound(mem[f[j] + HEAD + o]) /\ launch \in Nat
      BY <3>1 DEF NumberInv
    <3>3. mem[f[j] + HEAD + o][2] \in 0 .. launch - 1
      BY <1>1, <2>4, <3>2 DEF Sound, Before
    <3> QED BY <3>2, <3>3
  <2> QED BY <1>1, <1>6, <2>3, <2>4 DEF Kept
<1>9. Answers(f)'
  BY <1>1, <1>6, <1>7, <1>8 DEF Answers
<1>10. HeaderOpen'
  <2>1. 0 \in 0 .. (N + 1) - 1 /\ N + 1 \in Nat
    BY <1>2
  <2>2. f[0] \in Nat /\ comm.addr + HEAD <= f[0] /\ ArgSize(ArgOf(kern, 0)) \in Nat
        /\ f[0] + HEAD + ArgSize(ArgOf(kern, 0)) < comm.addr + comm.size
    BY <1>2, <1>5, <2>1, ArgumentSpan
  <2>3. \A o \in 0 .. HEAD - 1 : comm.addr + o \in Addr
    <3> TAKE o \in 0 .. HEAD - 1
    <3>1. comm.addr + o \in Nat /\ comm.addr <= comm.addr + o /\ comm.addr + o < comm.addr + comm.size
      BY <1>2, <2>2
    <3> QED BY <1>2, <3>1
  <2>4. \A o \in 0 .. HEAD - 1 : mem[comm.addr + o] = CommCell(N + 1, 0, o)
    BY <1>1, <2>3 DEF ArgInv, CommHeadAt
  <2> QED BY <1>1, <1>6, <2>4 DEF HeaderOpen
<1> QED BY <1>1, <1>9, <1>10 DEF RunInv

\* The kernel stores its output over the value of one argument.
LEMMA KernelStores ==
  ASSUME IInv, RunInv, pc \in Answering, NEW j \in DOMAIN task.kern.args, KernelStore(j)
  PROVE  RunInv'
<1> DEFINE N == NumArgs(kern)
           a == ArgOf(kern, j)
           s == ArgSize(a)
<1>1. /\ task = [kern |-> kern, no |-> launch] /\ HeaderOpen /\ finished # launch
      /\ UNCHANGED <<pc, idx, paddr, kern, launch, buf, task, finished>> /\ pc # "dequeue"
  BY DEF RunInv, KernelStore, Working, hostVars
<1>2. PICK f : Answers(f)
  BY DEF RunInv
<1>3. /\ pc \in Launched /\ N \in Nat /\ N + 1 \in Nat /\ HEAD \in Nat \ {0} /\ comm.addr \in Nat
      /\ comm.size \in Nat /\ kern \in Kernels
      /\ \A y \in Nat : comm.addr <= y /\ y < comm.addr + comm.size => y \in Addr
  BY PlaceFacts DEF Launched, Answering
<1>4. j \in 1 .. N /\ a = kern.args[j] /\ j \in 0 .. N /\ j \in 0 .. (N + 1) - 1
  <2>1. kern.args \in Seq(Args) /\ j \in DOMAIN kern.args
    BY <1>1, <1>3, KernelAssumption
  <2>2. j \in 1 .. N
    BY <2>1 DEF NumArgs
  <2> QED BY <1>3, <2>2 DEF ArgOf
<1>5. Places(N + 1, f)
  BY <1>2 DEF Answers
<1>6. f[j] \in Nat /\ comm.addr + HEAD <= f[j] /\ s \in Nat /\ f[j] + HEAD + s < comm.addr + comm.size
  BY <1>3, <1>4, <1>5, ArgumentSpan
<1>7. SeenAt(kern)[j] = f[j]
  <2>1. N < N + 1
    BY <1>3
  <2> QED BY <1>3, <1>4, <1>5, <2>1, WalkFindsArguments
<1>8. a.type = "MEM" /\ s = MemSize[a.mem] /\ NeedRead(a)
  BY <1>1, <1>4 DEF KernelStore, NeedRead, ArgSize
<1> DEFINE x == f[j] + HEAD
           bytes == [o \in 0 .. s - 1 |-> OutCell(launch, j, o)]
<1>9. mem' = StoreAll(x, bytes, s)
  BY <1>1, <1>4, <1>7, <1>8 DEF KernelStore
<1>10. ASSUME NEW y \in Addr, y \notin f[j] + HEAD .. f[j] + HEAD + s - 1 PROVE mem'[y] = mem[y]
  BY <1>9, <1>10 DEF StoreAll, Span
<1>11. ASSUME NEW o \in 0 .. s - 1 PROVE mem'[f[j] + HEAD + o] = OutCell(launch, j, o)
  <2> HIDE DEF s
  <2>1. x + o \in Nat /\ comm.addr <= x + o /\ x + o < comm.addr + comm.size /\ x + o \in x .. x + s - 1
        /\ (x + o) - x = o
    BY <1>3, <1>6
  <2>2. x + o \in Addr
    BY <1>3, <2>1
  <2>3. mem'[x + o] = bytes[(x + o) - x]
    <3> HIDE DEF x, bytes
    <3> QED BY <1>9, <2>1, <2>2 DEF StoreAll, Span
  <2> QED BY <2>1, <2>3
<1> HIDE DEF x, bytes, s
<1>12. ASSUME NEW i \in 0 .. N
       PROVE  /\ \A o \in 0 .. HEAD - 1 : mem'[f[i] + o] = mem[f[i] + o]
              /\ i # j => \A o \in 0 .. ArgSize(ArgOf(kern, i)) - 1 :
                            mem'[f[i] + HEAD + o] = mem[f[i] + HEAD + o]
  <2>1. i \in 0 .. (N + 1) - 1
    BY <1>3
  <2>2. PICK t : t = ArgSize(ArgOf(kern, i))
    OBVIOUS
  <2>3. f[i] \in Nat /\ comm.addr + HEAD <= f[i] /\ t \in Nat /\ f[i] + HEAD + t < comm.addr + comm.size
    BY <1>3, <1>5, <2>1, <2>2, ArgumentSpan
  <2>4. ASSUME NEW y \in f[i] .. f[i] + HEAD + t - 1, i # j \/ y < f[i] + HEAD
        PROVE  mem'[y] = mem[y]
    <3>1. y \in Nat /\ comm.addr <= y /\ y < comm.addr + comm.size
      BY <1>3, <2>3
    <3>2. y \notin f[j] + HEAD .. f[j] + HEAD + s - 1
      <4>1. CASE i = j
        BY <2>3, <2>4, <1>6, <4>1, <1>3
      <4>2. CASE i # j
        <5>1. y \notin f[j] .. f[j] + HEAD + s - 1
          BY <1>3, <1>4, <1>5, <2>1, <2>2, <4>2, ArgumentsApart DEF s
        <5> QED BY <1>3, <1>6, <3>1, <5>1
      <4> QED BY <4>1, <4>2
    <3> QED BY <1>3, <1>10, <3>1, <3>2
  <2>5. ASSUME NEW o \in 0 .. HEAD - 1 PROVE mem'[f[i] + o] = mem[f[i] + o]
    <3>1. f[i] + o \in f[i] .. f[i] + HEAD + t - 1 /\ f[i] + o < f[i] + HEAD
      BY <1>3, <2>3
    <3> QED BY <2>4, <3>1
  <2>6. ASSUME i # j, NEW o \in 0 .. t - 1 PROVE mem'[f[i] + HEAD + o] = mem[f[i] + HEAD + o]
    <3>1. f[i] + HEAD + o \in f[i] .. f[i] + HEAD + t - 1
      BY <1>3, <2>3
    <3> QED BY <2>4, <2>6, <3>1
  <2> QED BY <2>2, <2>5, <2>6
<1>13. Places(NumArgs(kern) + 1, f)'
  <2>1. \A i \in 0 .. (N + 1) - 1 : \A o \in 0 .. HEAD - 1 : mem'[f[i] + o] = mem[f[i] + o]
    BY <1>3, <1>12
  <2>2. N' = N
    BY <1>1
  <2> HIDE DEF N
  <2>3. \A n \in Nat : n = N + 1 => Places(n, f)'
    BY <1>1, <1>3, <1>5, <2>1, PlacesKept
  <2> QED BY <1>3, <2>2, <2>3 DEF N
<1>14. ASSUME NEW i \in 0 .. N, EachBufferOnce, NeedRead(ArgOf(kern, i))
       PROVE  (Stored(i, f[i]) \/ Kept(i, f[i]))'
  <2>1. ArgOf(kern', i) = ArgOf(kern, i) /\ launch' = launch /\ buf' = buf
    BY <1>1
  <2>2. CASE i = j
    BY <1>11, <2>1, <2>2 DEF Stored, s
  <2>3. CASE i # j
    <3>1. \A o \in 0 .. ArgSize(ArgOf(kern, i)) - 1 : mem'[f[i] + HEAD + o] = mem[f[i] + HEAD + o]
      BY <1>12, <2>3
    <3>2. CASE Stored(i, f[i])
      BY <2>1, <3>1, <3>2 DEF Stored
    <3>3. CASE Kept(i, f[i])
      BY <2>1, <3>1, <3>3 DEF Kept
    <3> QED BY <1>2, <1>14, <3>2, <3>3 DEF Answers
  <2> QED BY <2>2, <2>3
<1>15. Answers(f)'
  BY <1>1, <1>13, <1>14 DEF Answers
<1>16. HeaderOpen'
  <2>1. \A o \in 0 .. HEAD - 1 : mem'[comm.addr + o] = mem[comm.addr + o]
    <3> TAKE o \in 0 .. HEAD - 1
    <3>1. comm.addr + o \in Nat /\ comm.addr <= comm.addr + o /\ comm.addr + o < comm.addr + comm.size
          /\ comm.addr + o \notin f[j] + HEAD .. f[j] + HEAD + s - 1
      BY <1>3, <1>6
    <3> QED BY <1>3, <1>10, <3>1
  <2>2. comm' = comm /\ NumArgs(kern') = N
    BY <1>1 DEF comm, prg
  <2> QED BY <1>1, <2>1, <2>2 DEF HeaderOpen
<1> QED BY <1>1, <1>15, <1>16 DEF RunInv

\* The kernel's other steps: its data is outside the comm area, and of that it
\* stores into the header only.
LEMMA KernelElsewhere ==
  ASSUME IInv, RunInv, RoomForHeader, pc \in Answering,
         (\E i \in DOMAIN Chunks[task.kern.prg] : KernelData(i)) \/ KernelDone \/ KernelBreaks
  PROVE  RunInv'
<1>1. /\ task = [kern |-> kern, no |-> launch] /\ HeaderOpen /\ finished # launch
      /\ UNCHANGED <<pc, idx, paddr, kern, launch, buf, task>> /\ pc # "dequeue"
  BY DEF RunInv, KernelData, KernelDone, KernelBreaks, Working, hostVars
<1>2. PICK f : Answers(f)
  BY DEF RunInv
<1>3. /\ pc \in Launched /\ HEAD \in Nat \ {0} /\ comm.addr \in Nat /\ comm.size \in Nat
      /\ \A y \in Nat : comm.addr <= y /\ y < comm.addr + comm.size => y \in Addr
      /\ prg \in Programs /\ HEAD <= comm.size
  <2>1. pc \in Launched /\ prg \in Programs
    BY DEF Launched, Answering, IInv, Placement
  <2> QED BY <2>1, PlaceFacts DEF RoomForHeader, comm
<1>4. comm' = comm /\ NumArgs(kern') = NumArgs(kern) /\ Comm[task.kern.prg] = comm
  BY <1>1 DEF comm, prg
<1>5. \A o \in 0 .. HEAD - 1 : comm.addr + o \in Addr /\ comm.addr + o \in Span(comm.addr, HEAD)
                               /\ comm.addr + o \in CommSpan(prg) /\ (comm.addr + o) - comm.addr = o
  <2> TAKE o \in 0 .. HEAD - 1
  <2>1. comm.addr + o \in Nat /\ comm.addr <= comm.addr + o /\ comm.addr + o < comm.addr + comm.size
        /\ comm.addr + o < comm.addr + HEAD /\ (comm.addr + o) - comm.addr = o
    BY <1>3
  <2> QED BY <1>3, <2>1 DEF Span, CommSpan, comm
<1>6. CASE \E i \in DOMAIN Chunks[task.kern.prg] : KernelData(i)
  <2>1. \A y \in Addr : y \in CommSpan(prg) => mem'[y] = mem[y]
    BY <1>1, <1>6 DEF KernelData, prg
  <2>2. \A y \in Addr : comm.addr + HEAD <= y /\ y < comm.addr + comm.size => mem'[y] = mem[y]
    <3> SUFFICES ASSUME NEW y \in Addr, comm.addr + HEAD <= y, y < comm.addr + comm.size PROVE mem'[y] = mem[y]
      OBVIOUS
    <3>1. y \in Nat
      BY DeviceAssumption
    <3>2. y \in CommSpan(prg)
      BY <1>3, <3>1 DEF CommSpan, Span, comm
    <3> QED BY <2>1, <3>2
  <2>3. Answers(f)'
    BY <1>1, <1>2, <2>2, AnswersKept
  <2>4. \A o \in 0 .. HEAD - 1 : mem'[comm.addr + o] = mem[comm.addr + o]
    BY <1>5, <2>1
  <2>5. HeaderOpen'
    BY <1>1, <1>4, <2>4 DEF HeaderOpen
  <2> QED BY <1>1, <2>3, <2>5 DEF RunInv
<1>7. ASSUME NEW bytes, KernelHeader(bytes)
      PROVE  /\ Answers(f)'
             /\ \A o \in 0 .. HEAD - 1 : mem'[comm.addr + o] = bytes[o]
  <2>1. mem' = StoreAll(comm.addr, bytes, HEAD)
    BY <1>4, <1>7 DEF KernelHeader
  <2>2. \A y \in Addr : comm.addr + HEAD <= y /\ y < comm.addr + comm.size => mem'[y] = mem[y]
    <3> SUFFICES ASSUME NEW y \in Addr, comm.addr + HEAD <= y PROVE mem'[y] = mem[y]
      OBVIOUS
    <3>1. y \in Nat
      BY DeviceAssumption
    <3>2. y \notin Span(comm.addr, HEAD)
      BY <1>3, <3>1 DEF Span
    <3> QED BY <2>1, <3>2 DEF StoreAll
  <2>3. Answers(f)'
    BY <1>1, <1>2, <2>2, AnswersKept
  <2>4. ASSUME NEW o \in 0 .. HEAD - 1 PROVE mem'[comm.addr + o] = bytes[o]
    <3>1. mem'[comm.addr + o] = bytes[(comm.addr + o) - comm.addr]
      BY <1>5, <2>1 DEF StoreAll
    <3> QED BY <1>5, <3>1
  <2> QED BY <2>3, <2>4
<1>8. CASE KernelDone
  <2>1. Answers(f)'
    BY <1>7, <1>8 DEF KernelDone
  <2>2. finished' = launch'
    BY <1>1, <1>8 DEF KernelDone
  <2> QED BY <1>1, <2>1, <2>2 DEF RunInv
<1>9. CASE KernelBreaks
  <2> DEFINE b == [o \in 0 .. HEAD - 1 |-> Junk]
  <2>1. KernelHeader(b)
    BY <1>9 DEF KernelBreaks
  <2>2. \A o \in 0 .. HEAD - 1 : b[o] = Junk
    OBVIOUS
  <2> HIDE DEF b
  <2>3. Answers(f)' /\ \A o \in 0 .. HEAD - 1 : mem'[comm.addr + o] = Junk
    BY <1>7, <2>1, <2>2
  <2>4. HeaderOpen'
    BY <1>4, <2>3 DEF HeaderOpen
  <2> QED BY <1>1, <2>3, <2>4 DEF RunInv
<1> QED BY <1>6, <1>8, <1>9

\* The header read by the host has done only if the kernel of this launch set it.
LEMMA HeaderRead ==
  ASSUME IInv, RunInv, "silent" \notin Faults, ReadHeader
  PROVE  RunInv'
<1> SUFFICES ASSUME pc' \in Answering PROVE RunInv'
  BY DEF RunInv
<1>1. /\ pc = "check" /\ pc' \in {"dequeue", "resume"} /\ UNCHANGED <<kern, launch, mem, buf, task, finished>>
      /\ pc' = "dequeue" => MagicSeen /\ DoneSeen /\ idx' = 0 /\ paddr' = comm.addr + HEAD
  BY DEF ReadHeader, Stale, Return, Answering
<1>2. PICK f : Answers(f)
  BY <1>1 DEF RunInv, Answering
<1>3. /\ HEAD \in Nat \ {0} /\ comm.addr \in Nat /\ NumArgs(kern) \in Nat
  BY <1>1, PlaceFacts DEF Launched
<1>4. comm' = comm /\ \A j : ArgOf(kern', j) = ArgOf(kern, j)
  BY <1>1 DEF comm, prg
<1>5. ASSUME pc' = "dequeue", HeaderOpen PROVE FALSE
  <2>1. 0 \in 0 .. HEAD - 1 /\ HEAD - 1 \in 0 .. HEAD - 1 /\ comm.addr + 0 = comm.addr
        /\ comm.addr + (HEAD - 1) = comm.addr + HEAD - 1
    BY <1>3
  <2>2. mem[comm.addr][1] = "comm"
    BY <1>1, <1>5 DEF MagicSeen
  <2>3. \A o \in 0 .. HEAD - 1 : mem[comm.addr + o] = CommCell(NumArgs(kern) + 1, 0, o)
    <3>1. mem[comm.addr] # Junk
      BY <2>2 DEF Junk
    <3> QED BY <1>5, <2>1, <3>1 DEF HeaderOpen
  <2>4. mem[comm.addr + HEAD - 1] = CommCell(NumArgs(kern) + 1, 0, HEAD - 1)
    BY <2>1, <2>3
  <2> QED BY <1>1, <1>5, <2>4 DEF DoneSeen, CommCell
<1>6. finished # launch => HeaderOpen
  BY <1>1 DEF RunInv, Answering
<1>7. HeaderOpen' <=> HeaderOpen
  BY <1>1, <1>4 DEF HeaderOpen
<1>8. Answers(f)'
  <2>1. Places(NumArgs(kern) + 1, f)'
    BY <1>1, <1>2, <1>4 DEF Answers, Places, HeadAt, End
  <2>2. pc' = "dequeue" => idx' <= NumArgs(kern') + 1 /\ paddr' = f[idx']
    <3>1. f[0] = comm.addr + HEAD
      BY <1>2 DEF Answers, Places
    <3> QED BY <1>1, <1>3, <3>1
  <2>3. ASSUME EachBufferOnce, NEW j \in 0 .. NumArgs(kern'), NeedRead(ArgOf(kern', j))
        PROVE  (Stored(j, f[j]) \/ Kept(j, f[j]))' /\ ~(pc' = "dequeue" /\ j < idx')
    <3>1. Stored(j, f[j]) \/ Kept(j, f[j])
      BY <1>1, <1>2, <2>3 DEF Answers
    <3>2. (Stored(j, f[j]) \/ Kept(j, f[j]))'
      BY <1>1, <1>4, <3>1 DEF Stored, Kept
    <3> QED BY <1>1, <1>3, <3>2
  <2> QED BY <2>1, <2>2, <2>3 DEF Answers
<1>9. task' = [kern |-> kern', no |-> launch']
  BY <1>1 DEF RunInv, Answering
<1> QED BY <1>1, <1>5, <1>6, <1>7, <1>8, <1>9 DEF RunInv

\* dequeue_arg reads the value of argument idx into its buffer and no other.
LEMMA DequeueEffect ==
  ASSUME IInv, "silent" \notin Faults, Dequeue, pc' = "dequeue", NEW f, Answers(f)
  PROVE  LET a == ArgOf(kern, idx)
         IN /\ NeedRead(a) =>
                 /\ \A q \in Mems : q # a.mem => buf'[q] = buf[q]
                 /\ \A o \in 0 .. ArgSize(a) - 1 : buf'[a.mem][o] = mem[f[idx] + HEAD + o]
            /\ ~NeedRead(a) => buf' = buf
            /\ idx' = idx + 1 /\ paddr' = AlignUp(End(idx, f[idx]))
<1> DEFINE a == ArgOf(kern, idx)
<1>1. pc = "dequeue" /\ paddr = f[idx] /\ idx' = idx + 1 /\ paddr' = AlignUp(End(idx, f[idx]))
  BY DEF Dequeue, Return, Answers, End
<1>2. ~NeedRead(a) => buf' = buf
  BY DEF Dequeue
<1>3. ASSUME NeedRead(a)
      PROVE  /\ \A q \in Mems : q # a.mem => buf'[q] = buf[q]
             /\ \A o \in 0 .. ArgSize(a) - 1 : buf'[a.mem][o] = mem[f[idx] + HEAD + o]
  <2>1. ReadInto(a.mem, paddr + HEAD, "CL_SUCCESS")
    BY <1>1, <1>3 DEF Dequeue, Return
  <2>2. a.mem \in Mems /\ ArgSize(a) = MemSize[a.mem] /\ paddr + HEAD \in Nat
    BY <1>3, KernelAssumption, DeviceAssumption DEF NeedRead, ArgSize, IInv, TypeOK
  <2> HIDE DEF a
  <2>3. /\ \A q \in Mems : q # a.mem => buf'[q] = buf[q]
        /\ \A o \in 0 .. MemSize[a.mem] - 1 : buf'[a.mem][o] = mem[paddr + HEAD + o]
    BY <2>1, <2>2, ReadCells
  <2> QED BY <1>1, <2>2, <2>3
<1> QED BY <1>1, <1>2, <1>3

\* A buffer that is read back leaves device memory and the header as they are.
LEMMA BufferRead ==
  ASSUME IInv, RunInv, "silent" \notin Faults, Dequeue
  PROVE  RunInv'
<1> SUFFICES ASSUME pc' \in Answering PROVE RunInv'
  BY DEF RunInv
<1> DEFINE N == NumArgs(kern)
           a == ArgOf(kern, idx)
<1>1. pc = "dequeue" /\ pc' = "dequeue" /\ idx <= N /\ UNCHANGED <<kern, launch, mem, task, finished>>
  BY DEF Dequeue, Return, Answering
<1>2. PICK f : Answers(f)
  BY <1>1 DEF RunInv, Answering
<1>3. N \in Nat /\ idx \in 0 .. N /\ kern \in Kernels
  BY <1>1, PlaceFacts DEF Launched
<1>4. comm' = comm /\ \A j : ArgOf(kern', j) = ArgOf(kern, j)
  BY <1>1 DEF comm, prg
<1>5. /\ NeedRead(a) => /\ \A q \in Mems : q # a.mem => buf'[q] = buf[q]
                        /\ \A o \in 0 .. ArgSize(a) - 1 : buf'[a.mem][o] = mem[f[idx] + HEAD + o]
      /\ ~NeedRead(a) => buf' = buf
      /\ idx' = idx + 1 /\ paddr' = AlignUp(End(idx, f[idx]))
  BY <1>1, <1>2, DequeueEffect
<1>6. Places(N + 1, f)'
  BY <1>1, <1>2, <1>4 DEF Answers, Places, HeadAt, End
<1>7. idx' <= N + 1 /\ paddr' = f[idx']
  <2>1. idx \in 0 .. (N + 1) - 1
    BY <1>3
  <2>2. f[idx + 1] = AlignUp(End(idx, f[idx]))
    BY <1>2, <2>1 DEF Answers, Places
  <2> QED BY <1>3, <1>5, <2>2
<1>8. ASSUME EachBufferOnce, NEW j \in 0 .. N, NeedRead(ArgOf(kern, j))
      PROVE  (Stored(j, f[j]) \/ Kept(j, f[j]))' /\ (j < idx' => ReadBack(j, f[j])')
  <2> DEFINE b == ArgOf(kern, j)
  <2>1. (Stored(j, f[j]) \/ Kept(j, f[j])) /\ (j < idx => ReadBack(j, f[j]))
    BY <1>1, <1>2, <1>8 DEF Answers
  <2>2. Stored(j, f[j]) => Stored(j, f[j])'
    BY <1>1, <1>4 DEF Stored
  <2>3. CASE j = idx
    <3>1. \A o \in 0 .. ArgSize(b) - 1 : buf'[b.mem][o] = mem[f[j] + HEAD + o]
      BY <1>5, <1>8, <2>3
    <3>2. ReadBack(j, f[j])'
      BY <1>1, <1>4, <3>1 DEF ReadBack
    <3>3. Kept(j, f[j]) => Kept(j, f[j])'
      BY <1>1, <1>4, <3>1 DEF Kept
    <3> QED BY <2>1, <2>2, <3>2, <3>3
  <2>4. CASE j # idx
    <3>1. buf'[b.mem] = buf[b.mem]
      <4>1. CASE ~NeedRead(a)
        BY <1>5, <4>1
      <4>2. CASE NeedRead(a)
        <5>1. a.type = "MEM" /\ b.type = "MEM" /\ b.mem \in Mems
          BY <1>8, <4>2, KernelAssumption DEF NeedRead
        <5>2. idx # 0 /\ j # 0
          BY <5>1 DEF ArgOf, NameArg
        <5>3. a = kern.args[idx] /\ b = kern.args[j] /\ idx \in DOMAIN kern.args /\ j \in DOMAIN kern.args
          <6>1. kern.args \in Seq(Args)
            BY <1>3, KernelAssumption
          <6> QED BY <1>3, <5>2, <6>1 DEF ArgOf, NumArgs
        <5>4. a.mem # b.mem
          BY <1>3, <1>8, <2>4, <5>1, <5>3 DEF EachBufferOnce
        <5> QED BY <1>5, <4>2, <5>1, <5>4
      <4> QED BY <4>1, <4>2
    <3>2. Kept(j, f[j]) => Kept(j, f[j])'
      BY <1>1, <1>4, <3>1 DEF Kept
    <3>3. ReadBack(j, f[j]) => ReadBack(j, f[j])'
      BY <1>1, <1>4, <3>1 DEF ReadBack
    <3>4. j < idx' => j < idx
      BY <1>3, <1>5, <2>4
    <3> QED BY <2>1, <2>2, <3>2, <3>3, <3>4
  <2> QED BY <2>3, <2>4
<1>9. Answers(f)'
  <2>1. NumArgs(kern') = N
    BY <1>1
  <2> QED BY <1>4, <1>6, <1>7, <1>8, <2>1 DEF Answers
<1>10. finished = launch /\ task = [kern |-> kern, no |-> launch]
  BY <1>1 DEF RunInv, Answering
<1> QED BY <1>1, <1>9, <1>10 DEF RunInv

LEMMA RunStep ==
  ASSUME IInv, ArgInv, NumberInv, RunInv, RoomForHeader, "silent" \notin Faults, [Next]_vars
  PROVE  RunInv'
<1>1. CASE Run
  BY <1>1, RunStarts
<1>2. CASE Kernel /\ pc \in Answering
  <2>1. CASE \E j \in DOMAIN task.kern.args : KernelStore(j)
    BY <1>2, <2>1, KernelStores
  <2>2. CASE (\E i \in DOMAIN Chunks[task.kern.prg] : KernelData(i)) \/ KernelDone \/ KernelBreaks
    BY <1>2, <2>2, KernelElsewhere
  <2> QED BY <1>2, <2>1, <2>2 DEF Kernel
<1>3. CASE Kernel /\ pc \notin Answering
  <2>1. pc' = pc
    BY <1>3 DEF Kernel, KernelStore, KernelData, KernelDone, KernelBreaks, hostVars
  <2> QED BY <1>3, <2>1 DEF RunInv
<1>4. CASE ReadHeader
  BY <1>4, HeaderRead
<1>5. CASE Dequeue
  BY <1>5, BufferRead
<1>6. CASE App \/ Reset \/ SkipChunk \/ SendChunk \/ SendHeader \/ RefuseArg \/ SendArgHead \/ SendPayload
           \/ Finish
  <2>1. pc' \notin Answering
    BY <1>6 DEF App, Launch, LaunchBadQueue, AppWrite, Reset, SkipChunk, SendChunk, SendHeader, RefuseArg,
       SendArgHead, SendPayload, Finish, Return, hostVars, Answering
  <2> QED BY <2>1 DEF RunInv
<1>7. CASE Stop \/ Resume \/ Halts \/ UNCHANGED vars
  <2> SUFFICES ASSUME pc' \in Answering PROVE RunInv'
    BY DEF RunInv
  <2>1. /\ pc \in Answering
        /\ pc' = "dequeue" => pc = "dequeue"
        /\ UNCHANGED <<idx, paddr, kern, launch, buf, mem, task, finished>>
    BY <1>7 DEF Stop, Resume, Halts, Port!Halts, hostVars, Return, Answering, vars
  <2>2. PICK f : Answers(f)
    BY <2>1 DEF RunInv
  <2>3. Answers(f)'
    BY <2>1, <2>2 DEF Answers, Places, HeadAt, End, Stored, Kept, ReadBack, comm, prg
  <2>4. HeaderOpen' <=> HeaderOpen
    BY <2>1 DEF HeaderOpen, comm, prg
  <2> QED BY <2>1, <2>3, <2>4 DEF RunInv
<1> QED BY <1>1, <1>2, <1>3, <1>4, <1>5, <1>6, <1>7 DEF Next, Host

RetInv == IInv /\ ArgInv /\ NumberInv /\ RunInv

\* The invariant of the results holds at first and in every step.
LEMMA InitRetInv == Init => RetInv
<1> SUFFICES ASSUME Init PROVE RetInv
  OBVIOUS
<1>1. pc = "idle" /\ launch = 0 /\ finished = 0 /\ task.no = 0
  BY DEF Init
<1>2. \A x \in Addr : Sound(mem[x])
  BY DEF Init, Sound, Junk
<1>3. \A m \in Mems : \A o \in 0 .. MemSize[m] - 1 : Sound(buf[m][o])
  BY DEF Init, Sound, AppCell
<1>4. NumberInv
  BY <1>1, <1>2, <1>3 DEF NumberInv, Before
<1> QED BY <1>1, <1>4, InitIInv DEF RetInv, ArgInv, RunInv, Answering

LEMMA NextRetInv ==
  ASSUME RoomForHeader, AlignedComm, "silent" \notin Faults, RetInv, [Next]_vars
  PROVE  RetInv'
BY NextIInv, ArgStep, NumberStep, RunStep DEF RetInv

\* The buffer that is read back is one of an argument the kernel may write.
LEMMA DequeuedArgument ==
  ASSUME IInv, Dequeue, buf' # buf
  PROVE  LET a == ArgOf(kern, idx)
         IN /\ idx \in DOMAIN kern.args /\ a = kern.args[idx] /\ NeedRead(a)
            /\ a.mem \in Mems /\ ArgSize(a) = MemSize[a.mem]
            /\ \A q \in Mems : q # a.mem => buf'[q] = buf[q]
            /\ \A o \in 0 .. ArgSize(a) - 1 :
                 buf'[a.mem][o] = buf[a.mem][o] \/ buf'[a.mem][o] = mem[paddr + HEAD + o]
<1> DEFINE a == ArgOf(kern, idx)
<1>1. NeedRead(a) /\ \E r \in Rets : ReadInto(a.mem, paddr + HEAD, r)
  BY DEF Dequeue
<1>2. a.type = "MEM" /\ a.mem \in Mems /\ ArgSize(a) = MemSize[a.mem] /\ paddr + HEAD \in Nat
  <2>1. a.type = "MEM" /\ a.mem \in CanWrite
    BY <1>1 DEF NeedRead
  <2>2. a.mem \in Mems
    BY <2>1, KernelAssumption
  <2>3. ArgSize(a) = MemSize[a.mem]
    BY <2>1 DEF ArgSize
  <2>4. paddr + HEAD \in Nat
    BY DeviceAssumption DEF IInv, TypeOK
  <2> QED BY <2>1, <2>2, <2>3, <2>4
<1>3. idx \in DOMAIN kern.args /\ a = kern.args[idx]
  <2>1. kern \in Kernels /\ idx \in Nat /\ idx <= NumArgs(kern)
    BY DEF IInv, TypeOK, Dequeue
  <2>2. kern.args \in Seq(Args)
    BY <2>1, KernelAssumption
  <2>3. idx # 0
    BY <1>2 DEF ArgOf, NameArg
  <2> QED BY <2>1, <2>2, <2>3 DEF ArgOf, NumArgs
<1> HIDE DEF a
<1>4. /\ \A q \in Mems : q # a.mem => buf'[q] = buf[q]
      /\ \A o \in 0 .. MemSize[a.mem] - 1 :
           buf'[a.mem][o] = buf[a.mem][o] \/ buf'[a.mem][o] = mem[paddr + HEAD + o]
  BY <1>1, <1>2, ReadCells
<1> QED BY <1>1, <1>2, <1>3, <1>4 DEF a

\* While a launch is under way only dequeue_arg changes a buffer.
LEMMA BuffersChange ==
  ASSUME [Next]_vars, pc # "idle", buf' # buf
  PROVE  Dequeue
BY DEF Next, App, Launch, LaunchBadQueue, AppWrite, Host, Reset, SkipChunk, SendChunk, SendHeader,
   RefuseArg, SendArgHead, SendPayload, Run, Stop, ReadHeader, Resume, Finish, Kernel, KernelStore,
   KernelData, KernelDone, KernelBreaks, Halts, Port!Halts, vars

LEMMA ResultsStep ==
  ASSUME IInv, RunInv, [Next]_vars, pc # "idle"
  PROVE  /\ buf' # buf \/ Finish => finished = launch
         /\ \A m \in Mems : buf'[m] # buf[m] =>
              \E j \in DOMAIN kern.args : NeedRead(kern.args[j]) /\ kern.args[j].mem = m
<1>1. pc = "dequeue" => finished = launch
  BY DEF RunInv, Answering
<1>2. buf' # buf => Dequeue
  BY BuffersChange
<1>3. (Dequeue => pc = "dequeue") /\ (Finish => pc = "dequeue")
  BY DEF Dequeue, Finish
<1>4. ASSUME NEW m \in Mems, buf'[m] # buf[m]
      PROVE  \E j \in DOMAIN kern.args : NeedRead(kern.args[j]) /\ kern.args[j].mem = m
  <2>1. Dequeue /\ buf' # buf
    BY <1>2, <1>4
  <2>2. idx \in DOMAIN kern.args /\ NeedRead(kern.args[idx]) /\ kern.args[idx].mem = m
    BY <1>4, <2>1, DequeuedArgument
  <2> QED BY <2>2
<1> QED BY <1>1, <1>2, <1>3, <1>4

\* A launch changes a host buffer or returns CL_SUCCESS only after its own kernel
\* has set done, and changes only buffers its kernel may write: for every
\* program, kernel and number of launches, with transfers that may fail but say
\* so.  A header store that fails unnoticed would leave an old done set.
THEOREM ResultsAreFinished ==
  RoomForHeader /\ AlignedComm /\ "silent" \notin Faults => (Spec => ResultsOnlyWhenFinished)
<1> SUFFICES ASSUME RoomForHeader, AlignedComm, "silent" \notin Faults
             PROVE  Spec => ResultsOnlyWhenFinished
  OBVIOUS
<1>1. Spec => []RetInv
  BY InitRetInv, NextRetInv, PTL DEF Spec
<1>2. RetInv /\ [Next]_vars =>
        [pc # "idle" =>
           /\ buf' # buf \/ Finish => finished = launch
           /\ \A m \in Mems : buf'[m] # buf[m] =>
                \E j \in DOMAIN kern.args : NeedRead(kern.args[j]) /\ kern.args[j].mem = m]_vars
  BY ResultsStep DEF RetInv
<1> QED
  BY <1>1, <1>2, PTL DEF Spec, ResultsOnlyWhenFinished

\* Where argument j is, as the kernel walks and as the host reads it back.
LEMMA AnswerPlaces ==
  ASSUME IInv, pc \in Launched, NEW f, Answers(f), NEW j \in DOMAIN kern.args
  PROVE  /\ j \in 0 .. NumArgs(kern) /\ ArgOf(kern, j) = kern.args[j]
         /\ SeenAt(kern)[j] = f[j] /\ f[j] + HEAD + 0 = f[j] + HEAD
<1>1. NumArgs(kern) \in Nat /\ NumArgs(kern) + 1 \in Nat /\ NumArgs(kern) < NumArgs(kern) + 1
      /\ kern \in Kernels /\ HEAD \in Nat
  BY PlaceFacts
<1>2. j \in 1 .. NumArgs(kern)
  <2>1. kern.args \in Seq(Args)
    BY <1>1, KernelAssumption
  <2> QED BY <2>1 DEF NumArgs
<1>3. j \in 0 .. NumArgs(kern) /\ ArgOf(kern, j) = kern.args[j]
  BY <1>1, <1>2 DEF ArgOf
<1>4. SeenAt(kern)[j] = f[j]
  BY <1>1, <1>3, WalkFindsArguments DEF Answers
<1>5. f[j] \in Nat
  <2>1. j \in 0 .. (NumArgs(kern) + 1) - 1
    BY <1>1, <1>3
  <2> QED BY <1>1, <2>1, ArgumentSpan DEF Answers
<1> QED BY <1>1, <1>3, <1>4, <1>5

LEMMA OutputStep ==
  ASSUME IInv, RunInv, EachBufferOnce, Finish, NEW j \in DOMAIN kern.args, NeedRead(kern.args[j]),
         mem[SeenAt(kern)[j] + HEAD] = OutCell(launch, j, 0)
  PROVE  buf'[kern.args[j].mem] = [o \in 0 .. MemSize[kern.args[j].mem] - 1 |-> OutCell(launch, j, o)]
<1> DEFINE a == kern.args[j]
           m == a.mem
<1>1. pc = "dequeue" /\ pc \in Launched /\ idx > NumArgs(kern) /\ buf' = buf
  BY DEF Finish, Launched
<1>2. PICK f : Answers(f)
  BY <1>1 DEF RunInv, Answering
<1>3. /\ j \in 0 .. NumArgs(kern) /\ ArgOf(kern, j) = a
      /\ SeenAt(kern)[j] = f[j] /\ f[j] + HEAD + 0 = f[j] + HEAD
  BY <1>1, <1>2, AnswerPlaces
<1>4. j < idx
  BY <1>1, <1>3, PlaceFacts
<1>5. (Stored(j, f[j]) \/ Kept(j, f[j])) /\ ReadBack(j, f[j])
  BY <1>1, <1>2, <1>3, <1>4 DEF Answers
<1>6. a.type = "MEM" /\ m \in Mems /\ ArgSize(a) = MemSize[m] /\ 0 \in 0 .. ArgSize(a) - 1
  BY KernelAssumption DEF NeedRead, ArgSize
<1>7. ~Kept(j, f[j])
  <2>1. mem[f[j] + HEAD + 0] = OutCell(launch, j, 0)
    BY <1>3
  <2> QED BY <1>3, <1>6, <2>1 DEF Kept, OutCell
<1>8. \A o \in 0 .. MemSize[m] - 1 : buf[m][o] = OutCell(launch, j, o)
  BY <1>3, <1>5, <1>6, <1>7 DEF Stored, ReadBack
<1>9. buf[m] = [o \in 0 .. MemSize[m] - 1 |-> buf[m][o]]
  <2>1. buf = [q \in Mems |-> [o \in 0 .. MemSize[q] - 1 |-> buf[q][o]]]
    BY DEF IInv, TypeOK
  <2> HIDE DEF m
  <2> QED BY <1>6, <2>1
<1> HIDE DEF m
<1>10. buf[m] = [o \in 0 .. MemSize[m] - 1 |-> OutCell(launch, j, o)]
  BY <1>8, <1>9
<1> QED BY <1>1, <1>10 DEF m

\* On CL_SUCCESS the host's buffers hold what the kernel has stored through their
\* arguments, byte for byte, for every kernel that takes no buffer twice (of two
\* copies the last one read back wins) and any number of arguments.
THEOREM OutputIsReturned ==
  RoomForHeader /\ AlignedComm /\ EachBufferOnce /\ "silent" \notin Faults =>
    (Spec => OutputReachesBuffer)
<1> SUFFICES ASSUME RoomForHeader, AlignedComm, EachBufferOnce, "silent" \notin Faults
             PROVE  Spec => OutputReachesBuffer
  OBVIOUS
<1>1. Spec => []RetInv
  BY InitRetInv, NextRetInv, PTL DEF Spec
<1>2. RetInv /\ [Next]_vars =>
        [Finish => \A j \in DOMAIN kern.args : NeedRead(kern.args[j]) =>
           LET m == kern.args[j].mem
               x == SeenAt(kern)[j] + HEAD
           IN mem[x] = OutCell(launch, j, 0) =>
                buf'[m] = [o \in 0 .. MemSize[m] - 1 |-> OutCell(launch, j, o)]]_vars
  BY OutputStep DEF RetInv
<1> QED
  BY <1>1, <1>2, PTL DEF Spec, OutputReachesBuffer

LEMMA KeptStep ==
  ASSUME IInv, IInv', RunInv, EachBufferOnce, [Next]_vars, pc = "dequeue",
         NEW b \in Mems, buf'[b] # buf[b], b \in CanRead
  PROVE  mem[SeenAt(kern)[idx] + HEAD] = OutCell(launch, idx, 0)
<1> DEFINE a == ArgOf(kern, idx)
           m == a.mem
<1>1. Dequeue
  BY BuffersChange
<1>2. /\ idx \in DOMAIN kern.args /\ a = kern.args[idx] /\ NeedRead(a)
      /\ m \in Mems /\ ArgSize(a) = MemSize[m]
      /\ \A q \in Mems : q # m => buf'[q] = buf[q]
      /\ \A o \in 0 .. ArgSize(a) - 1 :
           buf'[m][o] = buf[m][o] \/ buf'[m][o] = mem[paddr + HEAD + o]
  BY <1>1, DequeuedArgument
<1>3. PICK f : Answers(f)
  BY DEF RunInv, Answering
<1>4. /\ idx \in 0 .. NumArgs(kern) /\ SeenAt(kern)[idx] = f[idx] /\ f[idx] + HEAD + 0 = f[idx] + HEAD
      /\ paddr = f[idx]
  BY <1>2, <1>3, AnswerPlaces DEF Launched, Answers
<1>5. Stored(idx, f[idx]) \/ Kept(idx, f[idx])
  BY <1>2, <1>3, <1>4 DEF Answers
<1>6. b = m /\ NeedWrite(a)
  BY <1>2 DEF NeedWrite
<1>7. ~Kept(idx, f[idx])
  <2> SUFFICES ASSUME Kept(idx, f[idx]) PROVE FALSE
    OBVIOUS
  <2>1. \A o \in 0 .. MemSize[b] - 1 : buf'[b][o] = buf[b][o]
    BY <1>2, <1>4, <1>6 DEF Kept
  <2>2. \A q \in Mems : /\ buf[q] = [o \in 0 .. MemSize[q] - 1 |-> buf[q][o]]
                        /\ buf'[q] = [o \in 0 .. MemSize[q] - 1 |-> buf'[q][o]]
    <3>1. /\ buf = [q \in Mems |-> [o \in 0 .. MemSize[q] - 1 |-> buf[q][o]]]
          /\ buf' = [q \in Mems |-> [o \in 0 .. MemSize[q] - 1 |-> buf'[q][o]]]
      BY DEF IInv, TypeOK
    <3> QED BY <3>1
  <2>3. /\ buf[b] = [o \in 0 .. MemSize[b] - 1 |-> buf[b][o]]
        /\ buf'[b] = [o \in 0 .. MemSize[b] - 1 |-> buf'[b][o]]
    BY <2>2
  <2> QED BY <2>1, <2>3
<1>8. 0 \in 0 .. ArgSize(a) - 1
  BY <1>2, KernelAssumption
<1>9. mem[f[idx] + HEAD + 0] = OutCell(launch, idx, 0)
  BY <1>5, <1>7, <1>8 DEF Stored
<1> QED BY <1>4, <1>9

\* A buffer that the kernel may read comes back as it was unless this launch's
\* kernel has stored through its argument, for all kernels that take no buffer
\* twice.  Of a buffer that the kernel may only write, which is not sent, it says
\* nothing: such a buffer need not come back as it was.
THEOREM UnwrittenIsKept ==
  RoomForHeader /\ AlignedComm /\ EachBufferOnce /\ "silent" \notin Faults =>
    (Spec => UnwrittenBufferKept)
<1> SUFFICES ASSUME RoomForHeader, AlignedComm, EachBufferOnce, "silent" \notin Faults
             PROVE  Spec => UnwrittenBufferKept
  OBVIOUS
<1>1. Spec => []RetInv
  BY InitRetInv, NextRetInv, PTL DEF Spec
<1>2. RetInv /\ RetInv' /\ [Next]_vars =>
        [pc = "dequeue" =>
           \A m \in Mems : buf'[m] # buf[m] /\ m \in CanRead =>
             mem[SeenAt(kern)[idx] + HEAD] = OutCell(launch, idx, 0)]_vars
  BY KeptStep DEF RetInv
<1> QED
  BY <1>1, <1>2, PTL DEF Spec, UnwrittenBufferKept
--------------------------------------------------------------------------
(* How long a launch takes.  The loop index stays within its loop; the     *)
(* number of polls is in the inductive invariant already.                  *)

LoopInv ==
  /\ pc = "chunks" => idx \in 1 .. Len(Chunks[prg]) + 1
  /\ pc \in {"args", "dequeue"} => idx \in 0 .. NumArgs(kern) + 1

BoundInv == IInv /\ LoopInv

\* StepsLeft as a function of what a step of the host thread changes.
Steps(p, c, n, i, k) ==
  CASE p = "idle"    -> 0
    [] p = "reset"   -> c + 2 + 2 * n + 1 + 3 * MaxPoll + n + 1
    [] p = "chunks"  -> c + 2 - i + 2 * n + 1 + 3 * MaxPoll + n + 1
    [] p = "args"    -> 2 * (n - i) + 1 + 3 * MaxPoll + n + 1
    [] p = "payload" -> 2 * (n - i) + 3 * MaxPoll + n + 1
    [] p = "poll"    -> 3 * (MaxPoll - k) + n + 1
    [] p = "check"   -> 3 * (MaxPoll - k) + n
    [] p = "resume"  -> 3 * (MaxPoll - k) + n - 1
    [] p = "dequeue" -> n + 1 - i

NumChunks == IF prg = NullPrg THEN 0 ELSE Len(Chunks[prg])

LEMMA StepsOfLaunch ==
  ASSUME IInv
  PROVE  StepsLeft = Steps(pc, NumChunks, NumArgs(kern) + 1, idx, polls)
<1>1. NumArgs(kern) \in Nat /\ idx \in Nat /\ polls \in Nat /\ MaxPoll \in Nat
  BY KernelFacts, DeviceAssumption DEF IInv, TypeOK
<1>2. prg = NullPrg \/ prg \in Programs
  BY KernelFacts DEF IInv, TypeOK, prg
<1>3. NumChunks \in Nat
  BY <1>2, ProgramFacts DEF NumChunks
<1>4. pc \in {"idle", "reset", "chunks", "args", "payload", "poll", "check", "resume", "dequeue"}
  BY DEF IInv, TypeOK
<1> DEFINE args == NumArgs(kern) + 1
           chunks == IF prg = NullPrg THEN 0 ELSE Len(Chunks[prg])
<1>5. chunks = NumChunks
  BY DEF NumChunks
<1>6. CASE pc = "idle" BY <1>6 DEF StepsLeft, Steps
<1>7. CASE pc = "reset" BY <1>1, <1>3, <1>7 DEF StepsLeft, Steps, NumChunks
<1>8. CASE pc = "chunks" BY <1>1, <1>3, <1>8 DEF StepsLeft, Steps, NumChunks
<1>9. CASE pc = "args" BY <1>1, <1>9 DEF StepsLeft, Steps
<1>10. CASE pc = "payload" BY <1>1, <1>10 DEF StepsLeft, Steps
<1>11. CASE pc = "poll" BY <1>1, <1>11 DEF StepsLeft, Steps
<1>12. CASE pc = "check" BY <1>1, <1>12 DEF StepsLeft, Steps
<1>13. CASE pc = "resume" BY <1>1, <1>13 DEF StepsLeft, Steps
<1>14. CASE pc = "dequeue" BY <1>1, <1>14 DEF StepsLeft, Steps
<1> QED BY <1>4, <1>6, <1>7, <1>8, <1>9, <1>10, <1>11, <1>12, <1>13, <1>14

\* What a step of the host thread does to the position in its loops.
LEMMA HostMoves ==
  ASSUME BoundInv, Host
  PROVE  LET n == NumArgs(kern) + 1 IN
    /\ UNCHANGED <<launch, kern>>
    /\ \/ pc # "idle" /\ pc' = "idle"
       \/ pc = "reset" /\ pc' = "chunks" /\ idx' = 1 /\ prg # NullPrg
       \/ pc = "chunks" /\ pc' = "chunks" /\ idx' = idx + 1 /\ idx \in DOMAIN Chunks[prg]
       \/ pc = "chunks" /\ pc' = "args" /\ idx' = 0 /\ idx <= NumChunks + 1
       \/ pc = "args" /\ pc' = "payload" /\ idx' = idx /\ idx < n
       \/ pc = "args" /\ pc' = "poll" /\ polls' = 0 /\ idx <= n
       \/ pc = "payload" /\ pc' = "args" /\ idx' = idx + 1 /\ idx < n
       \/ pc = "poll" /\ pc' = "check" /\ UNCHANGED <<idx, polls>> /\ polls < MaxPoll
       \/ pc = "check" /\ pc' = "dequeue" /\ idx' = 0 /\ polls < MaxPoll
       \/ pc = "check" /\ pc' = "resume" /\ UNCHANGED <<idx, polls>> /\ polls < MaxPoll
       \/ pc = "resume" /\ pc' = "poll" /\ polls' = polls + 1 /\ polls' < MaxPoll
       \/ pc = "dequeue" /\ pc' = "dequeue" /\ idx' = idx + 1 /\ idx < n
<1> USE DEF BoundInv
<1>1. NumArgs(kern) \in Nat /\ idx \in Nat /\ polls \in Nat
  BY KernelFacts DEF IInv, TypeOK
<1>2. CASE Reset BY <1>2 DEF Reset, Return
<1>3. CASE SkipChunk BY <1>3 DEF SkipChunk
<1>4. CASE SendChunk BY <1>4 DEF SendChunk, Return
<1>5. CASE SendHeader
  <2>1. pc = "chunks" /\ prg # NullPrg
    BY <1>5, ProgramAssumption DEF SendHeader, IInv, Placement, Launched
  <2>2. idx <= NumChunks + 1
    BY <2>1 DEF LoopInv, NumChunks
  <2> QED BY <1>5, <2>1, <2>2 DEF SendHeader, Return
<1>6. CASE RefuseArg BY <1>6 DEF RefuseArg, Return
<1>7. CASE SendArgHead BY <1>1, <1>7 DEF SendArgHead, Return
<1>8. CASE SendPayload BY <1>1, <1>8 DEF SendPayload, Return, IInv, Placement
<1>9. CASE Run BY <1>1, <1>9 DEF Run, Return, LoopInv
<1>10. CASE Stop BY <1>10 DEF Stop, Return, IInv, Placement
<1>11. CASE ReadHeader BY <1>11 DEF ReadHeader, Return, IInv, Placement
<1>12. CASE Resume BY <1>1, <1>12, DeviceAssumption DEF Resume, Return
<1>13. CASE Dequeue BY <1>1, <1>13 DEF Dequeue, Return
<1>14. CASE Finish BY <1>14 DEF Finish, Return
<1> QED BY <1>2, <1>3, <1>4, <1>5, <1>6, <1>7, <1>8, <1>9, <1>10, <1>11, <1>12, <1>13, <1>14 DEF Host

LEMMA NextLoopInv == BoundInv /\ [Next]_vars => LoopInv'
<1> SUFFICES ASSUME BoundInv, [Next]_vars PROVE LoopInv'
  OBVIOUS
<1>1. NumArgs(kern) \in Nat /\ idx \in Nat
  BY KernelFacts DEF BoundInv, IInv, TypeOK
<1>2. CASE Host
  <2>1. prg' = prg /\ NumArgs(kern)' = NumArgs(kern)
    BY <1>2, HostMoves DEF prg, NumArgs
  <2>2. prg # NullPrg /\ pc' = "chunks" => prg \in Programs
    BY KernelFacts DEF BoundInv, IInv, TypeOK, prg
  <2>3. ASSUME pc' = "chunks" PROVE idx' \in 1 .. Len(Chunks[prg]) + 1
    <3>1. /\ prg \in Programs
          /\ idx' = 1 \/ (idx' = idx + 1 /\ idx \in DOMAIN Chunks[prg])
      BY <1>2, <2>2, <2>3, HostMoves DEF BoundInv, IInv, Placement, Launched
    <3>2. Len(Chunks[prg]) \in Nat /\ DOMAIN Chunks[prg] = 1 .. Len(Chunks[prg])
      BY <3>1, ProgramFacts
    <3> QED BY <3>1, <3>2
  <2>4. pc' \in {"args", "dequeue"} => idx' \in 0 .. NumArgs(kern) + 1
    BY <1>1, <1>2, HostMoves
  <2> QED BY <2>1, <2>3, <2>4 DEF LoopInv
<1>3. CASE App
  BY <1>3 DEF App, Launch, LaunchBadQueue, AppWrite, Return, hostVars, BoundInv, LoopInv, prg, NumArgs
<1>4. CASE Kernel \/ Halts \/ UNCHANGED vars
  <2>1. UNCHANGED hostVars
    BY <1>4 DEF Kernel, KernelStore, KernelData, KernelDone, KernelBreaks, Halts, vars, hostVars
  <2> QED BY <2>1 DEF hostVars, BoundInv, LoopInv, prg, NumArgs
<1> QED BY <1>2, <1>3, <1>4 DEF Next

LEMMA HostStepsFewer == BoundInv /\ BoundInv' /\ Host => StepsLeft' < StepsLeft /\ StepsLeft' >= 0
<1> SUFFICES ASSUME BoundInv, BoundInv', Host PROVE StepsLeft' < StepsLeft /\ StepsLeft' >= 0
  OBVIOUS
<1> DEFINE n == NumArgs(kern) + 1
           c == NumChunks
<1>1. NumArgs(kern) \in Nat /\ idx \in Nat /\ polls \in Nat /\ MaxPoll \in Nat
      /\ idx' \in Nat /\ polls' \in Nat /\ polls <= MaxPoll /\ polls' <= MaxPoll
  BY KernelFacts, DeviceAssumption DEF BoundInv, IInv, TypeOK
<1>2. c \in Nat
  BY KernelFacts, ProgramFacts DEF NumChunks, BoundInv, IInv, TypeOK, prg
<1>3. prg' = prg /\ NumArgs(kern)' = NumArgs(kern) /\ NumChunks' = NumChunks
  BY HostMoves DEF prg, NumArgs, NumChunks
<1>4. StepsLeft = Steps(pc, c, n, idx, polls)
  BY StepsOfLaunch DEF BoundInv
<1>5. StepsLeft' = Steps(pc', c, n, idx', polls')
  <2>1. kern' = kern
    BY HostMoves
  <2>2. pc' \in {"idle", "chunks", "args", "payload", "poll", "check", "resume", "dequeue"}
    BY HostMoves
  <2>3. CASE pc' = "idle" BY <1>1, <1>2, <2>1, <2>3 DEF StepsLeft, Steps, NumChunks, prg, NumArgs
  <2>4. CASE pc' = "chunks" BY <1>1, <1>2, <2>1, <2>4 DEF StepsLeft, Steps, NumChunks, prg, NumArgs
  <2>5. CASE pc' = "args" BY <1>1, <1>2, <2>1, <2>5 DEF StepsLeft, Steps, NumChunks, prg, NumArgs
  <2>6. CASE pc' = "payload" BY <1>1, <1>2, <2>1, <2>6 DEF StepsLeft, Steps, NumChunks, prg, NumArgs
  <2>7. CASE pc' = "poll" BY <1>1, <1>2, <2>1, <2>7 DEF StepsLeft, Steps, NumChunks, prg, NumArgs
  <2>8. CASE pc' = "check" BY <1>1, <1>2, <2>1, <2>8 DEF StepsLeft, Steps, NumChunks, prg, NumArgs
  <2>9. CASE pc' = "resume" BY <1>1, <1>2, <2>1, <2>9 DEF StepsLeft, Steps, NumChunks, prg, NumArgs
  <2>10. CASE pc' = "dequeue" BY <1>1, <1>2, <2>1, <2>10 DEF StepsLeft, Steps, NumChunks, prg, NumArgs
  <2> QED BY <2>2, <2>3, <2>4, <2>5, <2>6, <2>7, <2>8, <2>9, <2>10
<1>6. pc' = "chunks" => idx' \in 1 .. c + 1
  BY <1>3, ProgramAssumption DEF BoundInv, LoopInv, IInv, Placement, Launched, NumChunks
<1>7. pc = "chunks" => idx \in 1 .. c + 1
  BY ProgramAssumption DEF BoundInv, LoopInv, IInv, Placement, Launched, NumChunks
<1>8. pc \in {"args", "dequeue"} => idx \in 0 .. n
  BY DEF BoundInv, LoopInv
<1>9. pc = "payload" => idx < n
  BY <1>1 DEF BoundInv, IInv, Placement
<1>10. CASE pc # "idle" /\ pc' = "idle"
  <2>1. StepsLeft > 0
    <3>1. pc \in {"reset", "chunks", "args", "payload", "poll", "check", "resume", "dequeue"}
      BY <1>10 DEF BoundInv, IInv, TypeOK
    <3>2. pc = "resume" => polls < MaxPoll
      BY DEF BoundInv, IInv, Placement
    <3>3. CASE pc \in {"reset", "chunks", "args"}
      BY <1>1, <1>2, <1>4, <1>7, <1>8, <3>3 DEF Steps
    <3>4. CASE pc \in {"payload", "dequeue"}
      BY <1>1, <1>4, <1>8, <1>9, <3>4 DEF Steps
    <3>5. CASE pc \in {"poll", "check", "resume"}
      BY <1>1, <1>4, <3>2, <3>5 DEF Steps
    <3> QED BY <3>1, <3>3, <3>4, <3>5
  <2>2. StepsLeft' = 0
    BY <1>5, <1>10 DEF Steps
  <2> QED BY <2>1, <2>2
<1>11. CASE pc = "reset" /\ pc' = "chunks" /\ idx' = 1
  BY <1>1, <1>2, <1>4, <1>5, <1>6, <1>7, <1>8, <1>11 DEF Steps
<1>12. CASE pc = "chunks" /\ pc' = "chunks" /\ idx' = idx + 1
  BY <1>1, <1>2, <1>4, <1>5, <1>6, <1>7, <1>8, <1>12 DEF Steps
<1>13. CASE pc = "chunks" /\ pc' = "args" /\ idx' = 0
  BY <1>1, <1>2, <1>4, <1>5, <1>6, <1>7, <1>8, <1>13 DEF Steps
<1>14. CASE pc = "args" /\ pc' = "payload" /\ idx' = idx /\ idx < n
  BY <1>1, <1>2, <1>4, <1>5, <1>6, <1>7, <1>8, <1>14 DEF Steps
<1>15. CASE pc = "args" /\ pc' = "poll" /\ polls' = 0 /\ idx <= n
  BY <1>1, <1>2, <1>4, <1>5, <1>6, <1>7, <1>8, <1>15 DEF Steps
<1>16. CASE pc = "payload" /\ pc' = "args" /\ idx' = idx + 1 /\ idx < n
  BY <1>1, <1>2, <1>4, <1>5, <1>6, <1>7, <1>8, <1>16 DEF Steps
<1>17. CASE pc = "poll" /\ pc' = "check" /\ UNCHANGED <<idx, polls>> /\ polls < MaxPoll
  BY <1>1, <1>2, <1>4, <1>5, <1>6, <1>7, <1>8, <1>17 DEF Steps
<1>18. CASE pc = "check" /\ pc' = "dequeue" /\ idx' = 0 /\ polls < MaxPoll
  BY <1>1, <1>2, <1>4, <1>5, <1>6, <1>7, <1>8, <1>18 DEF Steps
<1>19. CASE pc = "check" /\ pc' = "resume" /\ UNCHANGED <<idx, polls>> /\ polls < MaxPoll
  BY <1>1, <1>2, <1>4, <1>5, <1>6, <1>7, <1>8, <1>19 DEF Steps
<1>20. CASE pc = "resume" /\ pc' = "poll" /\ polls' = polls + 1 /\ polls' < MaxPoll
  BY <1>1, <1>2, <1>4, <1>5, <1>6, <1>7, <1>8, <1>20 DEF Steps
<1>21. CASE pc = "dequeue" /\ pc' = "dequeue" /\ idx' = idx + 1 /\ idx < n
  BY <1>1, <1>2, <1>4, <1>5, <1>6, <1>7, <1>8, <1>21 DEF Steps
<1> QED
  BY HostMoves, <1>10, <1>11, <1>12, <1>13, <1>14, <1>15, <1>16, <1>17, <1>18, <1>19, <1>20, <1>21

LEMMA BoundedStep ==
  BoundInv /\ BoundInv' /\ [Next]_vars =>
    [pc # "idle" => UNCHANGED hostVars \/ (StepsLeft' < StepsLeft /\ StepsLeft' >= 0)]_vars
<1> SUFFICES ASSUME BoundInv, BoundInv', [Next]_vars, pc # "idle"
             PROVE  UNCHANGED hostVars \/ (StepsLeft' < StepsLeft /\ StepsLeft' >= 0)
  OBVIOUS
<1>1. CASE Host
  BY <1>1, HostStepsFewer
<1>2. CASE App
  BY <1>2 DEF App, Launch, LaunchBadQueue, AppWrite
<1>3. CASE Kernel \/ Halts \/ UNCHANGED vars
  BY <1>3 DEF Kernel, KernelStore, KernelData, KernelDone, KernelBreaks, Halts, vars, hostVars
<1> QED
  BY <1>1, <1>2, <1>3 DEF Next

\* A launch makes a bounded number of steps, for every program, kernel and poll
\* bound, whatever device operations fail and whatever the kernel does.
THEOREM LaunchesAreBounded == Spec => LaunchIsBounded
<1>1. Init => LoopInv
  BY DEF Init, LoopInv
<1>2. Spec => []BoundInv
  BY <1>1, InitIInv, NextIInv, NextLoopInv, PTL DEF Spec, BoundInv
<1> QED
  BY <1>2, BoundedStep, PTL DEF Spec, LaunchIsBounded
=========================
