------------------------------ MODULE PciGroup -----------------------------
(***************************************************************************)
(* A PCI driver group from enumeration to removal: pci_sysfs_enum reads    *)
(* the kernel's list of devices into a growing array, pci_sysfs_init makes *)
(* and lists a device for each match, pci_sysfs_exit takes them down.  The *)
(* group is brought up, taken down and brought up again (dev_init,         *)
(* dev_exit); any allocation may fail.  Blocks are known by what they are. *)
(***************************************************************************)
EXTENDS Naturals, Sequences, SequencesExt

CONSTANTS
  MaxLines,    \* bound on the lines of /proc/bus/pci/devices (TLC only)
  MaxDevices,  \* bound on the devices of a behaviour (TLC only)
  MaxLeft      \* bound on the streams and arrays left behind (TLC only)

ASSUME GroupAssumption == {MaxLines, MaxDevices, MaxLeft} \subseteq Nat

VARIABLES
  pc,       \* "down", "enum", "array", "devs", "up", "failed", "exit"
  line,     \* lines read
  n, cap,   \* matches, and the room of the array (num_pci)
  i,        \* loop index of pci_sysfs_init and pci_sysfs_exit
  ids,      \* devices made so far, over all rounds
  files,    \* streams left open
  lost,     \* arrays of matches and of devices nothing points to any more
  inf,      \* pciinf, later the inf of pci_sysfs_init, is allocated
  array,    \* the devices in *devs
  devs,     \* allocated struct _cl_device_id
  privs,    \* those among them with their pci_sysfs_priv
  list      \* the list of dev_add

vars == <<pc, line, n, cap, i, ids, files, lost, inf, array, devs, privs, list>>

--------------------------------------------------------------------------
(* pci_sysfs_enum.                                                         *)

\* dev_init calls a group that is not inited; it is then, whatever comes back.
OpenList ==
  /\ pc = "down"
  /\ \/ /\ pc' = "enum" /\ line' = 0 /\ n' = 0 /\ cap' = 1 /\ inf' = TRUE /\ files' = files + 1
     \/ pc' = "failed" /\ UNCHANGED <<line, n, cap, inf, files>>
  /\ array' = <<>> /\ UNCHANGED <<i, ids, lost, devs, privs, list>>

SkipLine ==
  /\ pc = "enum" /\ line < MaxLines /\ line' = line + 1
  /\ UNCHANGED <<pc, n, cap, i, ids, files, lost, inf, array, devs, privs, list>>

\* Mutant: the array grows when it has overflown.
GrowsLate == n + 1 > cap

\* The entry is written before the array grows.
Grows == n + 1 = cap

\* err_out: of an array that realloc did not extend the old one is lost.
EnumFails(forgets) ==
  /\ pc' = "failed" /\ files' = files - 1 /\ inf' = FALSE
  /\ lost' = IF forgets THEN lost + 1 ELSE lost

MatchLine ==
  /\ pc = "enum" /\ line < MaxLines /\ line' = line + 1 /\ n' = n + 1
  /\ \/ /\ cap' = IF Grows THEN 2 * cap ELSE cap
        /\ UNCHANGED <<pc, files, inf, lost>>
     \/ Grows /\ EnumFails(TRUE) /\ cap' = 2 * cap
  /\ UNCHANGED <<i, ids, array, devs, privs, list>>

\* The line is not as expected.
BadLine ==
  /\ pc = "enum" /\ line < MaxLines /\ EnumFails(FALSE)
  /\ UNCHANGED <<line, n, cap, i, ids, array, devs, privs, list>>

\* The stream stays open.
EnumDone ==
  /\ pc = "enum" /\ pc' = "array"
  /\ UNCHANGED <<line, n, cap, i, ids, files, lost, inf, array, devs, privs, list>>

--------------------------------------------------------------------------
(* pci_sysfs_init.                                                         *)

AllocArray ==
  /\ pc = "array" /\ i' = 0
  /\ \/ pc' = "devs" /\ array' = <<>> /\ UNCHANGED inf
     \/ pc' = "failed" /\ array' = <<>> /\ inf' = FALSE
  /\ UNCHANGED <<line, n, cap, ids, files, lost, devs, privs, list>>

\* err_out empties *devs and *devs_num before pci_sysfs_exit reads them: the
\* array is lost, the devices stay listed.
InitFails ==
  pc' = "failed" /\ array' = <<>> /\ inf' = FALSE /\ lost' = lost + 1 /\ UNCHANGED privs

\* pci_sysfs_alloc_dev, then dev_add, whatever the probe says.
AddDevice ==
  /\ pc = "devs" /\ i < n /\ ids < MaxDevices
  /\ ids' = ids + 1 /\ i' = i + 1
  /\ devs' = devs \cup {ids'} /\ privs' = privs \cup {ids'} /\ list' = Append(list, ids')
  /\ array' = Append(array, ids')
  /\ UNCHANGED <<pc, line, n, cap, files, lost, inf>>

\* No memory for the device, or for its private data: dev_alloc's block is lost.
AddFails ==
  /\ pc = "devs" /\ i < n /\ ids < MaxDevices /\ InitFails
  /\ ids' = ids + 1 /\ devs' \in {devs, devs \cup {ids'}}
  /\ UNCHANGED <<line, n, cap, i, files, list>>

\* Mutant: the matches stay, as in gdb_remote_init.
InitDoneKeeping ==
  /\ pc = "devs" /\ i = n /\ pc' = "up"
  /\ UNCHANGED <<line, n, cap, i, ids, files, lost, inf, array, devs, privs, list>>

InitDone ==
  /\ pc = "devs" /\ i = n /\ pc' = "up" /\ inf' = FALSE
  /\ UNCHANGED <<line, n, cap, i, ids, files, lost, array, devs, privs, list>>

--------------------------------------------------------------------------
(* pci_sysfs_exit: dev_remove and pci_sysfs_free_dev of each, then the array. *)

CallExit ==
  /\ pc \in {"up", "failed"} /\ pc' = "exit" /\ i' = 0
  /\ UNCHANGED <<line, n, cap, ids, files, lost, inf, array, devs, privs, list>>

\* Mutant: dev_remove does not unlink the device.
TakeDownOnly ==
  /\ pc = "exit" /\ i < Len(array) /\ i' = i + 1
  /\ devs' = devs \ {array[i']} /\ privs' = privs \ {array[i']}
  /\ UNCHANGED <<pc, line, n, cap, ids, files, lost, inf, array, list>>

TakeDown ==
  /\ pc = "exit" /\ i < Len(array) /\ i' = i + 1
  /\ list' = RemoveFirst(list, array[i'])
  /\ devs' = devs \ {array[i']} /\ privs' = privs \ {array[i']}
  /\ UNCHANGED <<pc, line, n, cap, ids, files, lost, inf, array>>

\* Mutant: the loop ends one device early.
ExitDoneButOne ==
  /\ pc = "exit" /\ i + 1 >= Len(array) /\ pc' = "down" /\ array' = <<>>
  /\ UNCHANGED <<line, n, cap, i, ids, files, lost, inf, devs, privs, list>>

ExitDone ==
  /\ pc = "exit" /\ i = Len(array) /\ pc' = "down" /\ array' = <<>>
  /\ UNCHANGED <<line, n, cap, i, ids, files, lost, inf, devs, privs, list>>

--------------------------------------------------------------------------

Init ==
  /\ pc = "down" /\ line = 0 /\ n = 0 /\ cap = 1 /\ i = 0 /\ ids = 0 /\ files = 0 /\ lost = 0
  /\ inf = FALSE /\ array = <<>> /\ devs = {} /\ privs = {} /\ list = <<>>

Next ==
  /\ \/ OpenList \/ SkipLine \/ MatchLine \/ BadLine \/ EnumDone
     \/ AllocArray \/ AddDevice \/ AddFails \/ InitDone
     \/ CallExit \/ TakeDown \/ ExitDone
  /\ files' + lost' <= MaxLeft

Spec == Init /\ [][Next]_vars

--------------------------------------------------------------------------
(* Properties.                                                             *)

\* While the list is read the array has room for one more match: the entry is
\* filled before the array grows.
EntryHasRoom == pc = "enum" => n < cap

\* Whatever failed, and however often the group went up and down: a device in
\* the list is allocated and has its private data, and is there once.
ListedAreLive ==
  /\ Range(list) \subseteq devs \cap privs
  /\ \A k, m \in DOMAIN list : k # m => list[k] # list[m]

\* Once the group is down nothing of it is left but the open streams, unless
\* an error made it lose an array.
DownIsClean == pc = "down" /\ lost = 0 => list = <<>> /\ devs = {} /\ privs = {} /\ ~inf
=============================================================================
