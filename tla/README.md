# A verification of the baremetal CRT host

The repository is an OpenCL-like runtime that offloads kernels to a bare-metal
accelerator: an application creates contexts, buffers, programs and kernels,
and `clEnqueueNDRangeKernel` resets the device, sends the program image and the
arguments, runs it, polls a communication area in device memory and reads the
outputs back. The device is reached through a debug server (the GDB remote
protocol, OpenOCD or QEMU) or a PCI device.

## Inventory

| Component | State | Operations | Interacts with | Hard behaviours | Module |
|---|---|---|---|---|---|
| Kernel launch, `src/cl_enqueue.c`, `drivers/mem.c`, `drivers/program.c` | `loaded` flags of chunks, buffers, locals of the launch | `in_clEnqueueNDRangeKernel`, `enqueue_arg`, `dequeue_arg`, `in_clEnqueueWriteBuffer` | device operations; the kernel through device memory | kernel runs while the host polls; partial failures; timeout with the kernel left running; two walks of one layout | `Offload` |
| Device operations, `drivers/device.c` | none | `dev_reset/run/stop/read_mem/write_mem` | dispatch to a driver | failures, some of them silent | `Device`, `DevicePort` |
| GDB remote driver, `drivers/gdb/` | the connection | reset, run, stop, read, write, probe | debug server, over TCP | answers without request numbers, unsolicited stop replies and console output, acks never read, resends | `GdbRemote` |
| Kernel arguments, `drivers/kernel.c`, `src/cl_kernel.c` | growing array | `clSetKernelArg` | read by the launch | any order of indices, failing allocation, wrap | `KernelArgs`, `ArgMap` |
| Device registry, `drivers/device.c`, `src/cl_device.c`, driver init functions | device list, counter, `inited` flags | `clGetDeviceIDs`, `dev_init`, `dev_add`, `dev_get_devices` | driver groups and their probes | failure half way, the next call | `DevRegistry` |
| OpenCL object API, `src/cl_*.c`, `drivers/{context,command_queue,mem,program,kernel}.c` | heap blocks and the pointers between them | create, release, retain, info, `clSetKernelArg`, enqueue | all of the above | no reference counts, create calls that fail half way, error codes left alone | `ClObjects` |
| ELF loader, `drivers/program_elf.c` | `elf_info`, chunks and comm area of a program | `prg_elf_load/unload` | gives the launch its image | binaries cut short or wrong, sections in any order, failing allocations | `ElfLoad`, `ProgramLoad` |
| PCI driver, `drivers/pci/` | BARs, descriptors, mappings of a device; list of matches and devices of a group | enumeration, init, exit; probe, remove, read, write | sysfs, `/proc/bus/pci/devices`, device registry | sizing that overwrites live registers, 64-bit BARs, bounds of the memory map, failures half way | `PciSysfs`, `PciGroup` |
| Platform and ICD dispatch, `src/cl_platform.c`, `src/cl_icd.c`, `include/in_cl.h`, `include/CL/cl_icd.h` | dispatch pointers in every object | calls through the table | ICD loader, application | 148 functions by position, NULL slots | `IcdTable`, `Icd` |
| Logging, configuration, CL headers, sample programs | constants | | | | not modelled |

What makes each component correct: a launch that returns success ran the right
image on the right arguments and returned that kernel's output, and a launch
never disturbs memory that is not its own; the driver matches every answer to
its request and reports what happened to target memory; the argument array is
a map; the registry offers exactly the devices that were reached; no call frees
what another object or a handle still owns; a binary gets the one right answer
and a program the image the file stands for; a PCI access hits the addresses it
names, a probe closes what it opened and restores the registers it sizes, or it
is known which failure kept it from that; a call through the dispatch
table runs the function that was called.

`PROJECT.json` lists the hazards of this code, each at its line, with the
properties that cover it.

## Modules

**Offload** models one application thread that launches kernels one after
another. Host actions follow `in_clEnqueueNDRangeKernel` at the granularity of
device operations: `Launch`, `Reset`, `SkipChunk`/`SendChunk`, `SendHeader`,
`RefuseArg`/`SendArgHead`/`SendPayload` (`enqueue_arg`), `Run`, `Stop`,
`ReadHeader`, `Resume` (the polling loop), `Dequeue` (`dequeue_arg`),
`Finish`. `prg.chunk.loaded` is `loaded`; the local `paddr` is `paddr`; device
memory is a function from addresses to cells, where a cell names what was
stored and at which offset. The kernel's actions (`KernelStore`, `KernelData`,
`KernelDone`, `KernelBreaks`) are external: they interleave with the host
whenever the device runs, and nothing forces them. A device may also stop by
itself (`Halts`). Every device operation is one of `Device`'s, through the
instance `Port`; `Faults` says how they may fail. A read of the comm header that
fails silently leaves the local `h_comm`, or a part of it, as the host filled it
before: the magic number, and not done (`Stale`).

**Device** is what the callers of `drivers/device.c` can rely on: what `dev_reset`,
`dev_run` and `dev_stop` (`Commands`), `dev_write_mem` (`Writes`) and
`dev_read_mem` (`Reads`) may have done to the device, its memory and the caller's
buffer when they return, and when a caller may make a call (`MayCall`: all but
reset and stop need a halted device, and transfers addresses of device memory).
Operations may fail with an error ("report"), transfers
also without one ("silent"). The drivers send in blocks, go on behind a block
that was refused and swallow errors, so a transfer that failed may have moved
any subset of its cells (`Moved`). **DevicePort** makes a specification of these
operators: a call that is allowed begins and ends and takes effect when it ends; in
between the device runs, stores and stops as it likes.

**GdbRemote** models one connection: two queues of acks and packets, the
driver's functions as a call (`CallReset`, `CallRun`, ...) and the waits in
them (`GetAck`, `ResetReply`, `ReadReply`, `WriteReply`, `StopReply`,
`DiscardAll`), and the external debug server and target (`Serve`,
`ServerTakes`, `TargetPrints`, `TargetStores`, `TargetStops`). The connection
may corrupt a packet and may break. Packets carry the number of the call they
answer, which only the properties see: the host, like the code, cannot. A
memory transfer is a loop over blocks; a packet that is spoiled arrives with a
wrong checksum alone or with other content too (`Spoiled`), and the host takes
the content as it came (`Answer`); the hexadecimal and binary forms of a
write have one shape and are one action. **GdbDevice** maps such a session to
`DevicePort` (`ImplementsDevice`): the device runs if the target does or a run
command is on its way; memory is target memory, but during a write it is what it
was when the call began, since the blocks of a write are stored one by one and
the abstract call takes effect at its return. The history variable `before` keeps
that memory; no step of the session depends on it. The QEMU driver and
connections that spoil answers are left out of the property (`GoodAnswers`), as
they are of `AnswersAreForRequests`: a call of theirs may take another's answer.

**ArgMap** is what `clSetKernelArg` promises: a map from indices to values that
a failed call leaves alone. **KernelArgs** is the array: `kern_get_num_args`,
`kern_set_num_args` (a new zeroed block, the old entries copied) and
`kern_set_arg`, with `cl_uint` wrapping at `Width`. `ArgsAreMap` instantiates
`ArgMap` with the entries the launch would see.

**DevRegistry** follows one host thread through `in_clGetDeviceIDs`: the loop of
`dev_init` over the groups, each group's loop over what it enumerated
(`StartGroup`, `AddDevice`, `EndGroup`), every place where it can fail
(`StartFails`, `AddFails`, a probe without success), and the walk of
`dev_get_devices`, one step per device. `err_out` of the init functions zeroes
the group's array before calling the exit function, so nothing is removed:
`AddFails` leaves the list alone.

**ClObjects** is the heap behind the handles: a function from addresses to blocks,
each with its kind, its parent (`up`), the blocks that are freed with it
(`own`) and those it only points to (`uses`). One action per create call and
per way it fails (`CreateProgram`, `ProgramFails`, `BufferFails`, ...), one for
the release calls (`FreedBy` is the object and what it owns), `SetKernelArg`
with the array it replaces, and the enqueue calls as what they follow
(`Reached`). Objects have no reference counts, so nothing stops an application
from releasing what a launch needs; `CanLaunch` is the contract it has to keep.
`clCreateKernel` frees an uninitialised local when it is refused early
(`cl_kernel.c:43`): `slot` is what that stack slot may hold, NULL or the kernel
of an earlier call, released or not (`KernelRefused`). The application keeps the
handle it has, and may go on to use it (`UseLost`). A kernel may have no name,
since nobody looks at the result of `strdup` (`drivers/kernel.c:110`). An address
is used once, so that a dangling pointer is never mistaken for a new block.
Three history variables are what the properties look at: `lost`, the kernels a
refused `clCreateKernel` found in its slot; `partial`, the objects whose create
call failed half way; `strayed`, the freed blocks that calls have followed.

**ElfLoad** is `prg_elf_load`, one step per header, segment and section:
`LoadInit`, `GetClass`, `ReadElf`, `CheckHeader`, `ReadPh`, `SetChunk`,
`ReadShs`, `SearchSection`, `SectionsSearched`, and `Unload`. A file is a record
of the numbers in its headers with its length (`size`) beside the length the
linker gave it (`full`); `reach` is the end of what was read or given to a
launch. `ReadElf` reads the whole ELF header, as the code does, whatever the
length of the file; in a file that ends within it the numbers behind the end are
any (`CutInHeader`). **ProgramLoad** is what `clCreateProgramWithBinary` relies on: one
answer, and with success the image and the communication area. `KeepsPromise`
instantiates it with `Good`, `ImageOf` and `CommOf`, defined on the file alone.
It allows the process to end when `elf_info` cannot be allocated (`MayDie`),
because the result of `prg_elf_init` is overwritten before it is looked at.

**PciSysfs** is one device: `pci_sysfs_config` register by register (`Open`,
`Size32`, `Size64`, `RestoreFails`, `MapBar`, ...), `pci_sysfs_remove`, and the
memory operations, with the translation of `pci_sysfs_get_addr` (`Covers`,
`Offset`, additions modulo `Width`) and the words and bytes of
`pci_sysfs_memcpy` (`Accesses`). A read does not change the device and shares
its translation with the write, so it has no action but its refusal. Sizing a
register takes four calls, a pair four more (`Calls`, `PairCalls`), each of which
may fail; the code looks at the result of one, the write that restores a single
register (`RestoreFails`). After the other failures probe goes on: a register that was
not read has any type (`TypeSeen`) and is written back as junk (`BackTo`), a size
that was not read, or read where no ones are, is any of `BadSizes`, a last
register taken for the first of a pair has its second stored behind `pci_res`
(`SizePastTheEnd`), and an access may run past a mapping that is too short
(`WritePastMapping`). `failed` remembers which calls failed. The driver's record
(`fds`, `bufs`) and what is open (`opened`, `mapped`) are apart: `CloseAll` closes
by the record. A BAR whose registers were not restored does not answer
(`Decodes`).

**PciGroup** is the group around the devices: `pci_sysfs_enum` with its growing
array (`MatchLine`, `BadLine`), `pci_sysfs_init` (`AddDevice`, `AddFails`) and
`pci_sysfs_exit`, one device after another (`CallExit`, `TakeDown`,
`ExitDone`). `err_out` empties the array of devices before it calls the
exit function, which then takes nothing down (`InitFails`). Exit is only
reached through `dev_exit`, which has no caller in the program: the model calls
it as `device.h` offers it, between two rounds of `dev_init`.

**IcdTable** holds three lists read from the source: `Slots` is the order of the
members of `struct _cl_icd_dispatch`, `Table` the positional initialiser `disp`
(`""` is NULL), `Declared` the functions of `in_cl.h` with the kind of handle
each is called on. **Icd** is an application calling through a loader: handles
get their dispatch pointer from the handle they are made from. The loader is
external.

How they fit together: `IcdTable`/`Icd` lead calls to the functions that
`ClObjects` models as operations on objects; `ElfLoad` produces the chunks and
comm area that `Offload` takes as `Chunks` and `Comm`; `KernelArgs` the argument
list it takes as `Kernels`; `GdbRemote` and `PciSysfs` are the drivers under its
device operations; `DevRegistry` and `PciGroup` decide which devices exist. Each
composition is by such a contract, none is one large state space.

The contract between a launch and the driver under it is stated once, in `Device`,
and both sides are checked and proved against it. `Offload` is built on its
operators and keeps the caller's half: `NextCall` is the operation of the host's
next step, and `CallsAreAllowed` says that `MayCall` allows it (a halted device for
transfers and runs, addresses of device memory) and that the step does nothing
else. `GdbDevice` shows the driver's half. Its `FaultsNow` is what `Faults` stands
for: nothing while the link is up and the server refuses nothing, "silent" with a
server that refuses memory commands, both once the link has broken. The PCI driver has no run, stop or reset, so it is
no `DevicePort`; that its accesses change what they name and nothing else is
`WritesWhatItNames`.

`MCOffload`, `MCGdbRemote`, `MCDevRegistry`, `MCElfLoad` and `MCPciSysfs` define
the instances for TLC. The modules ending in `Proofs` hold the theorems.

Operators named in a comment as mutants are faulty variants of the definition
that follows them; no specification uses them. Substituted for that
definition, each makes one property fail, which shows that the property
depends on the code it is about.

## Runs

| Run | Result | What it asks |
|---|---|---|
| `Offload_twoprograms` | holds | launches of two programs in turn, one with a write-only output, transfers that fail with an error |
| `Offload_faults` | holds | refused launches, timeouts, operations that fail with an error, transfers that fail silently |
| `GdbRemote` | holds | four set-ups (`Worlds`): OpenOCD with an honest and with a refusing server, QEMU with spoiled answers, QEMU in a longer session; a corrupted packet, console output, a link that may break; and the OpenOCD driver as a device |
| `GdbRemote_swallow` | violated | a server that refuses a write |
| `KernelArgs` | holds | indices set in any order, memory running out |
| `DevRegistry` | holds | a GDB and a PCI group, all ways to fail, calls again |
| `ClObjects` | holds | creates, uses and releases in every order, creates failing at every step, a refused `clCreateKernel` |
| `ClObjects_errcode` | violated | a create that succeeds after one that failed |
| `PciSysfs` | holds | probes failing at every step, calls that fail unnoticed, 32-bit and 64-bit BARs, accesses at every boundary |
| `PciGroup` | holds | a group brought up and down, every allocation failing |
| `ElfLoad` | holds | binaries whole, cut at every length, wrong in one field |
| `Icd` | holds | every function of the table called on every handle |

What the passing runs show.

- *Offload.* `ImageInPlace`: the image is in place when a kernel starts although
  read-only chunks are sent once and kernels of two programs alternate.
  `DeviceSeesArguments`: the device's walk by header sizes finds what the host
  stored by its own arithmetic. `OutputReachesBuffer` and
  `UnwrittenBufferKept`: what is read back is the kernel's output, and a buffer
  that was sent and that the kernel left alone keeps its content (one that is
  `CL_MEM_WRITE_ONLY` is not sent, see below). `ResultsOnlyWhenFinished`: an old
  `done` is never taken for this launch's, and only outputs are changed.
  `CallsAreAllowed`: no transfer and no start while the kernel runs, also after
  a timeout or an error left it running; reads and writes stay in device memory;
  what reaches a host buffer was at the address asked for.
  `StoresOnlyIntoOwnAreas`: the bound check in `enqueue_arg` is enough. `LaunchIsBounded`: each step of the host
  thread leaves fewer to come (`StepsLeft`, from the sizes of the loops), whatever
  fails and whatever the kernel does. `LaunchReturns`: and it returns.
- *GdbRemote.* `AnswersAreForRequests`, `HaltedAndDrained`: the OpenOCD driver,
  on a connection that spoils memory commands only (`GoodAnswers`), never takes
  an answer for another call's. `StopResynchronizes`: where answers are shifted,
  as the QEMU driver's are, the next stop sets it right, as long as nothing was
  spoiled. `TransfersComplete`: with a server that refuses nothing, success
  means that the bytes moved. `CallsReturnWhileUp`: no call waits for something that will
  not come. `ImplementsDevice`: what the packets do, with refused and resent
  blocks, a server that refuses commands and a link that breaks between any two of
  them, adds up to calls of a device: a target that runs only after a run was
  sent, that stays halted under its caller's transfers, and memory in which a call
  has moved blocks it names and no other.
- *KernelArgs.* `ArgsAreMap`: refinement of `ArgMap`.
- *DevRegistry.* `TargetListedOnce`, `OffersReachedDevices`, and
  `ReachedIsOffered`: a group's failure is reported by one call and does not
  hide devices from the calls that follow.
- *ClObjects.* `HandlesUsable` and `OwnershipSound`: no order of calls takes an
  object from under a handle, but for the kernels in `lost`, and no block has two
  owners. `TouchesLive`: the freed blocks that calls follow are those kernels and
  no other, as long as a launch keeps `CanLaunch` (and NULL, for the name of a
  kernel that has none).
  `CreateKeepsOthers`: a failed create disturbs nothing. `LeaksKnown` lists what
  is lost for good: the chunk array of every program, the `cl_mem` of a failed
  `clCreateBuffer`, and the `elf_info` of a binary that was refused.
- *PciSysfs.* `ReadyMeansMapped`: a probe that succeeds is right about every
  register it can know (`Known`): its own calls went well, and those below told
  whether it is a second half; and only failed calls make the driver leave an
  array or a mapping. `RegistersRestored`: which failures leave a register
  altered, and that none but those do. `NothingLeftOpen`: what is on record is
  open at every point, so that nothing is closed twice, and a removed device,
  after whatever failure, has nothing open. `WritesWhatItNames`: a write changes
  the device addresses it names, and no other, through the table, the BARs and
  the aligned copy.
- *PciGroup.* `EntryHasRoom`, `ListedAreLive`, `DownIsClean`: the growing array
  is never overrun, and errors half way leave neither dangling list entries
  nor, unless an array was lost, blocks behind.
- *ElfLoad.* `ReadsInsideFile`: nothing past the end of a binary that was cut is
  read or put in a chunk, except that the ELF header is read in full; a file that
  ends within it is read no further and refused. `KeepsPromise`: refinement of `ProgramLoad`, liveness
  included: every binary is answered, rightly.
- *Icd.* `RunsWhatWasCalled`: all 148 positions agree. `SampleCallsRun`: no
  function the sample programs use is NULL, the releases included, and every
  handle leads to the table.

The two violations are disagreements of the code with what its comments and
sample programs say; `findings` in `PROJECT.json` quotes the lines.

Other behaviour that the models show, and that the properties above therefore
exclude by a named condition:

- two programs linked to one address, launched in turn, run with each other's
  text: the `loaded` flag of a read-only chunk is never cleared (excluded by
  `DisjointImages`);
- a `CL_MEM_WRITE_ONLY` buffer is not sent but read back whole: the bytes the
  kernel did not write are what the comm area held from before
  (`UnwrittenBufferKept` is about buffers the kernel may read);
- one buffer passed as two arguments is read back twice, the last copy wins (the
  kernels of the runs take each buffer once);
- the QEMU driver's reset takes whatever packet comes next, so that its calls can
  run ahead of their answers; with one spoiled memory command in such a session
  a stop may take an older empty answer for that of its marker and leave the
  rest (`StopResynchronizes` asks nothing of that driver once a packet was
  spoiled; it takes ten calls, more than the run makes);
- on a broken link `gdb_remote_discard_all` never returns (`CallsReturnWhileUp`
  asks nothing of a link that is down);
- of the calls that size a BAR all but one may fail unnoticed: a probe that
  succeeds may leave registers altered, map a wrong size or store behind
  `pci_res` (`RegistersRestored` and `ReadyMeansMapped` name the failures);
- the ELF header of a file that ends within it is read past the end of the file
  (`ReadsInsideFile` names the case);
- a load without memory for `elf_info` ends the process (`MayDie`);
- a refused `clCreateKernel` may free the kernel of an earlier call, whose handle
  the application still has: that handle is no object from then on, and using it
  follows freed memory (`HandlesUsable` and `TouchesLive` hold for all but
  `lost`, `CreateKeepsOthers` exempts the call);
- a kernel whose name could not be copied is launched with a NULL name
  (`TouchesLive` lets NULL pass);
- `clGetMemObjectInfo`, `clGetProgramBuildInfo` and `clWaitForEvents`, which the
  announced `FULL_PROFILE` has, are NULL in the table (`SampleCallsRun` is about
  the sample programs).

### Bounds

- `HEAD` and `ALIGN` are 2 cells instead of 16 and 8 bytes: odd sizes still need
  padding, and an argument still ends short of, at and past the end of the comm
  area (`MCComm` is the smallest area for the arguments of `KIn`, `KTooBig` is
  one cell longer). Buffers, headers and areas of two cells have every way to be
  moved in part. `Offload_faults` has one buffer argument: with every operation
  failing in every way, a second one adds states and no new case.
- `MaxPoll` 1 or 2 instead of 10000 distinguishes the first poll, a repeated one
  and giving up. `MaxLaunch` 2 gives a launch a predecessor of either program.
  With one launch, `Offload_faults` starts with the device halted or running,
  so that its launch follows an abandoned one.
- `Blocks` 2 gives a transfer a first and a last block; six calls, or the five
  of the QEMU driver with spoiled answers, are a run, a stop, and memory calls
  on either side of them, and in the eight of `Long` a
  stop of the QEMU driver may find an old stop reply with other answers behind
  it, which it has to discard; two console packets put a stray packet before and
  after an answer, and one corruption is a packet of any kind the set-up allows,
  refused at any point. Longer sessions and more corruption are the proofs'
  part.
- `Width` 8 in `KernelArgs`, `Indices` 0, 1, 2, 4: gaps, growth by more than one,
  and a block limit that only the largest index meets.
- Two groups, at most three targets, an array of one or two handles.
- `MaxBlock` 12 leaves ten blocks: a context and a queue with two programs and a
  kernel, or with a program, two kernels and a buffer, or with one of each and
  two arguments set. Only programs and kernels are held twice (`Several`,
  `MaxHandles` 2), since they own and point to more than the others.
- The devices of `MCPciSysfs` have a pair followed by a BAR, a pair whose second
  half looks like another pair, a pair in the last two registers, and an
  unknown register. Its table has areas that touch in the address space and
  areas that touch in a BAR, and transfers inside, up to, across and past their
  ends, aligned and not. `Width` 256 stands for 2^64.
  `MaxFailed` 2 lets two calls of sizing fail, on one register or on two, the
  noticed one among them: what a register and its neighbours suffer needs no
  more. `BadSizes` are 0, no area, and 16, an area that is too large for one
  BAR and too small for another.
- `MaxLines` 4 lets the array of matches grow three times, `MaxDevices` 6 lets a
  second round list devices after a first one; `MaxLeft` 3 bounds the streams
  and arrays a behaviour may leave behind.
- `MCElfLoad`: one binary of each class, cut at every length, with what lies
  behind a cut in the ELF header like what was there, or such that the tables pass
  as many checks as they can (`Lucky`); and eleven that are wrong in one way each.
- `Icd`: the table and the struct in full; one handle of each kind.

Deadlock is not checked where the system may stop: the loader when it has
answered (`ElfLoad`), a group when it may leave no more behind (`PciGroup`), an
application that jumped to NULL (`Icd`).

### Fairness

`Offload`: the host thread goes on (`WF(Host)`): between two device operations the
code does not wait, and its polling loop is bounded. Nothing is assumed of the
kernel. `GdbRemote`: the host reads what has arrived and a connected server
takes what it is sent; corruption is bounded, nothing is assumed of the target,
and a broken link owes nothing. `DevRegistry`: the host thread goes on;
`ReachedIsOffered` states in its premise that the application asks again.
`ElfLoad`: the loading thread goes on (`WF(Load)`); it waits for nothing.
The other modules state no fairness and have safety properties only.

## Proofs

TLAPS checks the following for all values of the constants that satisfy the
named assumptions.

- `OffloadProofs`, for any `Faults` and any part of a failing transfer that was
  moved. `TypeCorrect` (`TypeOK`) and `DeviceIsHalted`
  (`TouchesHaltedDevice`) from the inductive invariant `IInv`: the types say
  which program is launched, that the argument being sent was found to fit,
  that both walks of the comm area are past its start, and that a poll is left;
  the rest says that each transfer follows a reset or a stop that succeeded.
  `OwnAreas` (`StoresOnlyIntoOwnAreas`) and `HostCallsAllowed`
  (`CallsAreAllowed`) assume `RoomForHeader`, because the code never checks that
  the comm area holds the header.

  `HostCallsAllowed` is the caller's half of the contract whose other half is
  `GdbIsADevice`. `CallOfPlace` evaluates `NextCall` at each place of a launch;
  then the calls that store, that read back and that start or stop the device
  are shown to be allowed, each from the part of `IInv` that holds there.

  `LaunchesAreBounded` (`LaunchIsBounded`) adds `LoopInv`: a loop index is at most
  one past its last. Then every step of the host lowers `StepsLeft`, and none takes
  it below zero. This is the safety half of `LaunchReturns`, whatever the fairness:
  a launch makes at most three operations for each poll, two for each argument on
  the way in and one on the way out, one for each chunk, and a few more.

  The other theorems also assume that transfers report their failures
  (`"silent" \notin Faults`). `ImageIsInPlace` (`ImageInPlace`) assumes
  `DisjointImages` (without it a program's text is lost to another's, see
  above); its invariant `ImageInv` says that every chunk marked loaded, and
  every chunk the loop has passed, is in place, and that a kernel that runs
  stores only where no read-only chunk is.

  `ArgumentsAreSeen` (`DeviceSeesArguments`) relates the two walks of the comm
  area. The invariant `ArgInv` follows the host's: there are places for the
  arguments sent so far, one behind the other and aligned (`Places`), each holds
  its header and what was sent for it, and `paddr` is the next. That the
  device's walk, a recursive function, meets the same places is
  `WalkFindsArguments` (the places satisfy its equations, and `WalkIsUnique`, by
  the least argument at which two walks would part). It assumes
  `AlignedComm`: the host starts behind the header without rounding up. The
  header being a multiple of the alignment is the code's doing, an aligned comm
  area the linker's.

  `ResultsAreFinished` (`ResultsOnlyWhenFinished`), `OutputIsReturned`
  (`OutputReachesBuffer`) and `UnwrittenIsKept` (`UnwrittenBufferKept`) need
  what happens between the run and the read-back (`RetInv`). `NumberInv`: no
  cell, in device memory or a buffer, carries the number of a launch that is yet
  to come, so that what an old launch left is told from what this one stores.
  `RunInv`: while this launch polls, the places stay; every output is either
  what the kernel stored or what was sent; and the header is open, or broken,
  until this kernel has set done. The last two theorems assume `EachBufferOnce`
  (a buffer passed twice has two copies, and the last one read wins), and
  `UnwrittenIsKept` says nothing of a buffer that the kernel may not read, which
  is not sent: what comes back of it unwritten is whatever the comm area held.
- `KernelArgsProofs`. `ArrayHasItsLength` (`TypeOK`), and `ArgsImplementMap`
  (`ArgsAreMap`) under `NoWrap`: for index 2^32 - 1 the new length is 0 and the
  array is lost.
- `DevRegistryProofs`. `RegistryTypeCorrect` (`TypeOK`) and `TargetsListedOnce`
  (`TargetListedOnce`). The latter is not inductive: `ListedEarlier` adds that
  a listed device belongs to a group that is done, or to an earlier round of
  the group that is adding. `ReachedAreOffered` (`OffersReachedDevices`): its
  `OfferInv` says that a listed device is enabled exactly if its target was
  reached, that what was reached is listed (which rests on a target being
  listed once), and what the walk has passed so far.
- `ElfLoadProofs`. `TypeCorrect`, `NeverPastTheEnd` (`ReadsInsideFile`) and
  `Implements`, the safety part of `KeepsPromise`: the initial states of
  `ElfLoad` are initial states of `ProgramLoad`, and every step is a step of it
  or a stutter. The assumptions are about the files, of any length: a linker puts the section
  headers last (`ElfAssumption`, `Linked`), so that a file that passes the check of
  its header tables is whole; in one that ends within its ELF header the numbers
  behind the end are anything, but the offset of the section headers, if it is
  still in the file, is not in reach of it (`CutHeaderIsRefused`); and it gives no address twice (`SegmentsApart`), so that
  the order in which chunks are stored does not matter. The invariant follows
  the load: what was checked of the header (`ChecksDone`), that the chunks made
  so far are those of the program headers passed (`ChunksSoFar`), that `found`
  and the area are those of the sections passed (`SectionsSoFar`), and that
  nothing was found before (`NothingFound`).
- `ClObjectsProofs`. `TypeCorrect`, `HandlesStayUsable` (`HandlesUsable`) and
  `OwnershipStaysSound` (`OwnershipSound`) from one inductive invariant, which
  adds that what is owned is no object (`OwnedIsData`), that the slot holds a
  kernel if it leads anywhere (`SlotIsKernel`), that the application's memory
  owns nothing (`HostIsHost`), and that what is in `lost` is freed
  (`LostIsGone`). A release can then take nothing but the object and its own
  blocks. `NoDanglingUse` (`TouchesLive`) adds what pointers lead to (`Pointers`):
  a parent, a value or a chunk array is of its kind as long as it is there, and
  is never a kernel, so that the kernel a refused call freed is followed through
  its own handle and the slot only; what a launch follows is then there if its
  handles are (`ReachedIsLive`). `CreateLeavesOthers` is `CreateKeepsOthers`.
  `OnlyKnownLeaks` (`LeaksKnown`) is inductive beside that invariant: a block that
  a call leaves behind is one that a failed call or the chunk array forgets
  (`Forgotten`), and no other loses its owner.
- `PciSysfsProofs`. `NothingStaysOpen` (`NothingLeftOpen`) from `Recorded`: what
  is on record is what is open. `RegistersAreRestored` (`RegistersRestored`): the
  account is inductive, since `failed` only grows and a step that leaves a
  register altered has put the reason there (`AccountKept`).
  `WritesAreExact` (`WritesWhatItNames`) for every table that fits the device
  (`TableFits`), transfer (`NoWrap`) and alignment: `CopyIsWhole` shows
  that the words and bytes of the copy are each byte once, `OnePlace` that an
  address has one place. `WordsAreAligned`: no unaligned word at either end.
  `ReadyIsMapped` (`ReadyMeansMapped`): `ProbeInv` says that what was sized before
  the register the loop is at is right if it is `Known`, what of it is mapped, and
  that the loop stands at no second half as long as no type went unread
  (`KindsSeen`). `SizedSingle` and `SizedPair` are the two ways on; `Halves` unrolls
  `SecondHalves` over the six registers and `HalfByHalf` says what it means for two
  neighbours.
- `PciGroupProofs`. `EntriesFit` (`EntryHasRoom`), `ListIsLive` (`ListedAreLive`)
  and `DownLeavesNothing` (`DownIsClean`) from one invariant: what is listed has
  its private data, what has it is allocated, what is allocated was made in this
  round or an earlier one (`Nested`), and is in the array the exit takes down
  unless an array was lost (`NothingForgotten`).
- `GdbRemoteProofs`. One inductive invariant of three parts, for any number of
  blocks, calls, console packets and corruptions. `TInv` (`TypesHold` is
  `TypeOK`): what each wait is for, and that the server knows no later call than
  the host. `CInv`, for both drivers while nothing but memory commands was
  spoiled on the OpenOCD driver's connection, and nothing on the QEMU driver's:
  no empty answer is in the connection, nor would the server send one again,
  until a stop or a connect sends its marker, and then its answer is the last
  packet. That is what makes discarding up to the empty answer right
  (`StopsResynchronize`), and a spoiled packet is what breaks it: a nack has the
  server repeat an old empty answer. `AInv`, for the OpenOCD driver under
  `GoodAnswers`: the content of both queues in every state of every call, with
  the acks that `run` and `discard_all` leave unread in front
  (`AnswersMatch`, `HaltedIsDrained`), and the blocks moved so far
  (`TransfersAreComplete`).

  `GdbIsADevice` (`ImplementsDevice`) is the refinement: initial states are initial
  states of `DevicePort`, and every step is a step of it or a stutter.
  `GdbImplementsPort` restates it as `Port!Spec` for set-ups that all satisfy
  `GoodAnswers`. It needs two things that no property above says. `RestInv`: the
  target stays halted under a caller that was told so, also after the link has
  broken, where `AInv` says nothing (a broken link takes no run command to the
  target any more). `MemInv`: what a transfer in progress may have moved, each
  block being what the call moves there or what it was before, and `before` being
  target memory outside a write. With them, answers, acks and resends are
  stutters (`GoesOn`), the return of a call is its whole effect (`CallEnds`; a
  transfer on a broken link ends with any of its blocks moved), a call on a link
  that is down ends at once (`CallFails`), and the server, the target and the link
  do what a device may do by itself (`WorldSteps`, `StoresMove`, `LinkFailsMoves`).

Only model-checked: liveness (`LaunchReturns`, `CallsReturnWhileUp`,
`ReachedIsOffered`, and that of `KeepsPromise`), since fairness is beyond the
prover; and the two invariants of `Icd`, which has no constants: its states, over
the whole table, are finite, so that the run covers them all.

## Not modelled

- A second host thread: nothing in the code locks a device, the registry or an
  object.
- Byte-level syntax of packets, ELF headers and `/proc` lines; string tables, of
  which a section's name is the result; `p_memsz`, which the loader does not
  look at. The 32-bit truncation of `p_filesz` and sums past 2^64 in a file:
  files have the numbers of a linker (`ElfAssumption`).
- Transfers whose end passes 2^64 in `pci_sysfs_get_addr` (`NoWrap`): no caller
  makes one.
- `pci_sysfs_read32`/`write32`: no caller. The run, stop and reset functions of
  the PCI test device are not implemented.
- `clGetPlatformInfo` and `clGetDeviceInfo`, which copy constants out; the counter of
  object ids, which nothing reads.
- The contents and attributes of objects in `ClObjects`, the reuse of addresses
  by the allocator.
- The end of a connection as an uninitialised character (`gdb_remote_getchar`).
- Corruption of control packets, which can hang the session for good (listed as
  a hazard).
- Logging, build configuration, the OpenCL headers, and the sample programs,
  which only check the runtime from outside.

## Plan

Done: every component of the inventory that keeps state is modelled and checked;
the launch and the driver under it are built on one statement of a device; and
every invariant and action property of the runs is proved as listed above, but
for the table of `Icd`. What would come next:

1. The PCI driver as a `DevicePort`, once it has functions to reset, run and stop
   its device.
2. What remains of the launch's promises when transfers fail silently.
3. Two host threads, once the code has a lock to model.
