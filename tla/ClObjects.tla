----------------------------- MODULE ClObjects -----------------------------
(***************************************************************************)
(* The objects behind the OpenCL handles: contexts, command queues,        *)
(* buffers, programs and kernels, as the create, release and enqueue calls *)
(* of src/cl_*.c allocate, point to and free them through drivers/*.c.     *)
(*                                                                         *)
(* The heap is a function from the addresses of allocated blocks to what   *)
(* the block points to.  Objects have no reference counts, so the order of *)
(* the application's calls decides what a pointer leads to.  An address is *)
(* used once: a pointer to a freed block is never taken for a new block.   *)
(* What a call that follows one does depends on what is left there; here   *)
(* it is on record, and the call returns with any code.  It may also free  *)
(* the block again, which ends the process.                                *)
(***************************************************************************)
EXTENDS Naturals, FiniteSets

CONSTANTS
  Flags,       \* what the application asks of clCreateBuffer: "own" (no host
               \*   flag, or CL_MEM_COPY_HOST_PTR), "use" (CL_MEM_USE_HOST_PTR),
               \*   "alloc" (CL_MEM_ALLOC_HOST_PTR)
  AppKinds,    \* kinds of objects the application creates
  Several,     \* kinds it may hold MaxHandles handles of, of the others one
  MaxHandles,
  MaxBlock     \* bound on the blocks of a behaviour

ASSUME ObjectsAssumption ==
  Flags \subseteq {"own", "use", "alloc"} /\ MaxHandles \in Nat /\ MaxBlock \in Nat

NULL == 0
HOST == 1      \* memory of the application: a binary, a host_ptr, the value of an argument

Handled == {"context", "queue", "mem", "program", "kernel"}
Kinds   == Handled \cup {"host", "data", "elf", "chunks"}
Addr    == Nat \ {NULL}

\* up: the parent object; own: blocks that go when this one goes; uses: other
\* blocks it points to (the caller's binary behind struct program_chunk, the
\* chunk array, which nothing frees, the values and buffers of kern_arg).
Block == [kind : Kinds, up : Nat, own : SUBSET Addr, uses : SUBSET Addr]

\* The error codes are not told apart.
Codes == {"CL_SUCCESS", "error"}

VARIABLES
  heap,      \* what is allocated
  next,      \* the next address
  held,      \* handles the application was given and has not released
  slot,      \* what in_clCreateKernel last left in the stack slot of its kern
  err,       \* the application's cl_int: the codes of the calls, and errcode_ret
  lost,      \* what its slot gave a refused clCreateKernel to free
  partial,   \* objects whose create call failed half way
  strayed    \* freed blocks that calls have followed; NULL for a name that is none

record == <<lost, partial, strayed>>
vars == <<heap, next, held, slot, err, record>>

Live == DOMAIN heap
Obj(kind, up, own, uses) == [kind |-> kind, up |-> up, own |-> own, uses |-> uses]
With(bs)   == [a \in Live \cup DOMAIN bs |-> IF a \in DOMAIN bs THEN bs[a] ELSE heap[a]]
Without(S) == [a \in Live \ S |-> heap[a]]
Whole(h)   == {h} \cup heap[h].own

\* Handles of a kind, and whether the application wants another one.
Handles(kind) == {h \in held \cap Live : heap[h].kind = kind}
Wanted(kind)  == kind \in AppKinds
                 /\ Cardinality(Handles(kind)) < IF kind \in Several THEN MaxHandles ELSE 1

\* A call reads or frees the blocks of S.
Follows(S) == strayed' = strayed \cup (S \ Live)

--------------------------------------------------------------------------
(* How create calls end.                                                   *)

\* n blocks of bs, whose first is the object: errcode_ret is left alone.
Gives(bs, n) ==
  heap' = With(bs) /\ next' = next + n /\ held' = held \cup {next} /\ UNCHANGED <<err, record>>

\* err_out: the code goes to errcode_ret, if there is one.
Fails == err' \in {err, "error"}

Refuses == Fails /\ UNCHANGED <<heap, next, held, slot, record>>

\* A call that fails half way leaves bs, of its n blocks, behind.
FailsWith(bs, n) ==
  /\ Fails /\ heap' = With(bs) /\ next' = next + n /\ partial' = partial \cup {next}
  /\ UNCHANGED <<held, slot, lost, strayed>>

--------------------------------------------------------------------------
(* Create calls.                                                           *)

CreateContext ==
  Gives([a \in {next} |-> Obj("context", NULL, {}, {})], 1) /\ UNCHANGED slot

CreateQueue(c) ==
  Gives([a \in {next} |-> Obj("queue", c, {}, {})], 1) /\ UNCHANGED slot

\* The block of the buffer itself: the caller's, or one of the runtime.
BufferBlocks(c, flag) ==
  CASE flag = "own" -> [a \in {next, next + 1} |->
                          IF a = next THEN Obj("mem", c, {next + 1}, {}) ELSE Obj("data", NULL, {}, {})]
    [] flag = "use" -> [a \in {next} |-> Obj("mem", c, {HOST}, {})]
    [] flag = "alloc" -> [a \in {next} |-> Obj("mem", c, {}, {})]

\* No memory is passed to two buffers.
HostFree == HOST \in Live /\ \A a \in Live : HOST \notin heap[a].own

CreateBuffer(c, flag) ==
  /\ flag # "alloc" /\ (flag = "use" => HostFree)
  /\ Gives(BufferBlocks(c, flag), IF flag = "own" THEN 2 ELSE 1) /\ UNCHANGED slot

\* Mutant: the buffer the caller passed goes with the failed call.
BufferFailsFreeing(c, flag) ==
  /\ flag # "use" /\ Fails /\ next' = next + 1 /\ partial' = partial \cup {next}
  /\ UNCHANGED <<held, slot, lost, strayed>>
  /\ heap' = [a \in (Live \cup {next}) \ {HOST} |->
                IF a = next THEN Obj("mem", c, {}, {}) ELSE heap[a]]

\* mem_alloc_buffer fails for CL_MEM_ALLOC_HOST_PTR, or without memory: the
\* cl_mem that mem_alloc gave stays allocated.
BufferFails(c, flag) ==
  flag # "use" /\ FailsWith([a \in {next} |-> Obj("mem", c, {}, {})], 1)

\* The object, its elf_info (with the two header tables) and the chunk array.
ProgramBlocks(c) ==
  [a \in {next, next + 1, next + 2} |->
     CASE a = next     -> Obj("program", c, {next + 1}, {HOST, next + 2})
       [] a = next + 1 -> Obj("elf", NULL, {}, {})
       [] a = next + 2 -> Obj("chunks", NULL, {}, {})]

CreateProgram(c) == HOST \in Live /\ Gives(ProgramBlocks(c), 3) /\ UNCHANGED slot

\* A binary that prg_elf_load refuses, before or after it made the chunks:
\* prg_free frees the cl_program alone.
ProgramFails(c) ==
  /\ HOST \in Live
  /\ \E left \in {{next + 1}, {next + 1, next + 2}} :
       FailsWith([a \in left |-> ProgramBlocks(c)[a]], 3)

\* kern_set_name does not look at what strdup returns: a kernel may have no
\* name.  The address next to it is the name's, or nobody's.
KernelBlocks(p, name) ==
  [a \in {next} \cup name |-> IF a = next THEN Obj("kernel", p, name, {}) ELSE Obj("data", NULL, {}, {})]

CreateKernel(p) ==
  /\ \E name \in {{}, {next + 1}} : Gives(KernelBlocks(p, name), 2)
  /\ slot' = next

\* A NULL handle, a bad argument, or no memory for the object: nothing was
\* allocated yet.
CreateRefused == Refuses

\* clCreateKernel alone does more when it is refused: err_out frees what the
\* local kern holds, which no statement has set.  The slot may hold something
\* kern_free refuses, as NULL, or still the kernel of an earlier call: its
\* handle, if the application has not released it, leads nowhere from now on;
\* if it has, the kernel is followed, and maybe freed, once more.
KernelRefused ==
  /\ Fails
  /\ \E garbage \in {NULL, slot} :
       /\ heap' = Without(IF garbage \in Live THEN Whole(garbage) ELSE {})
       /\ lost' = lost \cup ({garbage} \ {NULL}) /\ Follows({garbage} \ {NULL})
  /\ UNCHANGED <<next, held, slot, partial>>

\* clCreateProgramWithSource, clCreateContextFromType and clCloneKernel return
\* NULL and no code.
CreateUnsupported == UNCHANGED vars

--------------------------------------------------------------------------
(* Release calls: the object and what it owns, never its parent or what it *)
(* uses.                                                                   *)

\* Mutants: a kernel takes its program along; kern_free forgets the name and
\* the arguments; prg_free forgets elf_info.
FreedWithParent(h) == IF heap[h].kind = "kernel" THEN Whole(h) \cup {heap[h].up} ELSE Whole(h)
FreedAlone(h) == IF heap[h].kind = "kernel" THEN {h} ELSE Whole(h)
FreedWithoutElf(h) == IF heap[h].kind = "program" THEN {h} ELSE Whole(h)

FreedBy(h) == Whole(h)

\* Mutant: clReleaseCommandQueue checks the queue's context.
ReleaseChecksParent(h) == (Whole(h) \cup {heap[h].up}) \ {NULL}

\* The blocks a release reads or frees: *_is_valid looks at the object only.
TouchedBy(h) == Whole(h)

\* in_clReleaseCommandQueue returns CL_INVALID_COMMAND_QUEUE when it succeeds.
Release(h) ==
  /\ h \in Live /\ heap' = Without(FreedBy(h)) /\ held' = held \ {h} /\ Follows(TouchedBy(h))
  /\ err' = IF heap[h].kind = "queue" THEN "error" ELSE "CL_SUCCESS"
  /\ UNCHANGED <<next, slot, lost, partial>>

\* A handle whose object is gone: it is followed to be looked at.
UseLost(h) ==
  /\ h \notin Live /\ Follows({h}) /\ held' \in {held, held \ {h}} /\ err' \in Codes
  /\ UNCHANGED <<heap, next, slot, lost, partial>>

\* Any call of NULL, clRetain... and clGet...Info of anything.
RefuseOther == err' = "error" /\ UNCHANGED <<heap, next, held, slot, record>>

--------------------------------------------------------------------------
(* Calls that use objects.                                                 *)

\* Mutant: the freed array stays in kern->args.
RegrownStale(k, v) ==
  LET old == {a \in heap[k].own : a > k + 1}
  IN /\ heap' = [a \in (Live \cup {next}) \ old |->
                   IF a = k THEN [heap[k] EXCEPT !.own = @ \cup {next}, !.uses = @ \cup {v}]
                   ELSE IF a = next THEN Obj("data", NULL, {}, {}) ELSE heap[a]]
     /\ next' = next + 1

\* Mutant: the new array is written where the next block will be.
RegrownUnclaimed(k, v) ==
  /\ UNCHANGED next
  /\ heap' = With([a \in {k, next} |->
                     IF a = k THEN [heap[k] EXCEPT !.own = @ \cup {next}, !.uses = @ \cup {v}]
                              ELSE Obj("data", NULL, {}, {})])

\* kern_set_num_args: a longer array replaces the one there is.  The name is
\* the block next to the kernel.
Regrown(k, v) ==
  LET old == {a \in heap[k].own : a > k + 1}
  IN /\ heap' = [a \in (Live \cup {next}) \ old |->
                   IF a = k THEN [heap[k] EXCEPT !.own = (@ \ old) \cup {next}, !.uses = @ \cup {v}]
                   ELSE IF a = next THEN Obj("data", NULL, {}, {}) ELSE heap[a]]
     /\ next' = next + 1

\* Another value for an index that is there.
Reset(k, v) ==
  /\ heap[k].uses # {} /\ UNCHANGED next
  /\ \E w \in heap[k].uses :
       heap' = [heap EXCEPT ![k].uses = (@ \ {w}) \cup {v}]

\* The value is a pointer into the application or a buffer: neither is read.
SetKernelArg(k, v) ==
  (Regrown(k, v) \/ Reset(k, v)) /\ err' = "CL_SUCCESS" /\ UNCHANGED <<held, slot, record>>

\* What the enqueue calls follow: queue to context; kernel to its name, to its
\* program, to the chunks and to the binary they point into; arguments to
\* values and buffers.
Name(k) == IF k + 1 \in heap[k].own THEN k + 1 ELSE NULL
Reached(q, k) ==
  {q, heap[q].up, heap[k].up} \cup heap[heap[k].up].uses
  \cup Whole(k) \cup {Name(k)} \cup UNION {Whole(a) : a \in heap[k].uses}

\* What an application must keep until its last launch: the handles of the
\* parents and the buffers, and its own memory, for the binary and the values.
CanLaunch(q, k) ==
  /\ {heap[q].up, heap[k].up} \cup (heap[k].uses \ {HOST}) \subseteq held
  /\ HOST \in Live

\* clEnqueueNDRangeKernel, clEnqueueReadBuffer and clEnqueueWriteBuffer leave
\* the objects as they are; the last two look at the queue and the buffer.
EnqueueKernel(q, k) ==
  /\ CanLaunch(q, k) /\ Follows(Reached(q, k)) /\ err' \in Codes
  /\ UNCHANGED <<heap, next, held, slot, lost, partial>>
EnqueueBuffer(q, m) ==
  /\ Follows({q} \cup Whole(m)) /\ err' \in Codes
  /\ UNCHANGED <<heap, next, held, slot, lost, partial>>

\* The application frees its memory once no buffer was made of it.
AppFree == HostFree /\ heap' = Without({HOST}) /\ UNCHANGED <<next, held, slot, err, record>>

--------------------------------------------------------------------------

Init ==
  /\ heap = [a \in {HOST} |-> Obj("host", NULL, {}, {})] /\ next = HOST + 1
  /\ held = {} /\ slot = NULL /\ err = "CL_SUCCESS"
  /\ lost = {} /\ partial = {} /\ strayed = {}

Create ==
  \/ Wanted("context") /\ CreateContext
  \/ CreateRefused \/ KernelRefused \/ CreateUnsupported
  \/ \E c \in Handles("context") :
       \/ Wanted("queue") /\ CreateQueue(c)
       \/ Wanted("program") /\ (CreateProgram(c) \/ ProgramFails(c))
       \/ Wanted("mem") /\ \E f \in Flags : CreateBuffer(c, f) \/ BufferFails(c, f)
  \/ Wanted("kernel") /\ \E p \in Handles("program") : CreateKernel(p)

Use ==
  \/ \E k \in Handles("kernel"), v \in Handles("mem") \cup {HOST} : SetKernelArg(k, v)
  \/ \E k \in Handles("kernel"), q \in Handles("queue") : EnqueueKernel(q, k)
  \/ \E q \in Handles("queue"), m \in Handles("mem") : EnqueueBuffer(q, m)

Next == (Create \/ Use \/ RefuseOther \/ AppFree \/ \E h \in held : Release(h) \/ UseLost(h))
        /\ next' <= MaxBlock

Spec == Init /\ [][Next]_vars

--------------------------------------------------------------------------
(* Properties.                                                             *)

TypeOK ==
  /\ heap \in [Live -> Block] /\ Live \subseteq HOST .. next - 1
  /\ next \in Addr /\ held \subseteq Addr /\ slot \in Nat /\ err \in Codes

\* A handle the application was given and has not released is an object of the
\* runtime, whatever else was released, in whatever order, or failed: unless a
\* refused clCreateKernel has been, which may have freed a kernel.
HandlesUsable == \A h \in held \ lost : h \in Live /\ heap[h].kind \in Handled

\* What an object owns is there, is owned by no other object and is nobody's
\* handle: a release frees each block once, if no refused clCreateKernel has
\* freed it already.
OwnershipSound ==
  \A a \in Live :
    /\ heap[a].own \subseteq Live \ held
    /\ \A b \in Live : a # b => heap[a].own \cap heap[b].own = {}
    /\ \A b \in heap[a].own : heap[b].own = {}

\* The memory that is lost for good is the cl_mem of a failed clCreateBuffer,
\* the chunk array of every program that is gone, and what prg_elf_load had
\* made when it failed.  Every other block is the application's or can still
\* be released through a handle.
Reachable == {HOST} \cup held \cup UNION {heap[h].own : h \in held \cap Live}
LeaksKnown ==
  \A a \in Live \ Reachable : \/ heap[a].kind = "chunks"
                              \/ heap[a].kind = "elf" /\ a - 1 \in partial
                              \/ heap[a].kind = "mem" /\ a \in partial

\* A release needs its own object only, a launch what CanLaunch says of the
\* application's handles, the transfers their queue and buffer: no call follows
\* a pointer to a freed block, whatever was released before it and in whatever
\* order, but to a kernel that the slot of a refused clCreateKernel held: that
\* call itself, and then those with the kernel's handle.  A launch follows NULL
\* if strdup gave the kernel no name.
TouchesLive == strayed \ {NULL} \subseteq lost

\* A create call, failed or not, leaves every object there was as it was;
\* except a refused clCreateKernel.
CreateKeepsOthers ==
  [][Create /\ ~KernelRefused =>
       held \subseteq held' /\ Live \subseteq Live' /\ \A a \in Live : heap'[a] = heap[a]]_vars

\* Whenever a create call gives an object, the cl_int passed as errcode_ret
\* says CL_SUCCESS: the tests look at nothing else.
ErrcodeTellsResult == [][held' \ held # {} => err' = "CL_SUCCESS"]_vars
============================================================================
