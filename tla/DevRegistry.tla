---------------------------- MODULE DevRegistry ----------------------------
(***************************************************************************)
(* The list of devices (drivers/device.c) and the driver groups that fill  *)
(* it.  in_clGetDeviceIDs initialises every group that is not yet, which   *)
(* lists one device per target the group finds, and then walks the list.   *)
(* One host thread; enumeration, allocation and probing may fail.          *)
(***************************************************************************)
EXTENDS Naturals, Sequences

CONSTANTS
  Found,      \* Found[g]: how many targets group g may find ({1} for a GDB group)
  MaxDevices, \* devices for which memory lasts
  MaxEntries  \* largest num_entries the application passes

GroupIds == 1 .. Len(Found)

ASSUME RegistryAssumption ==
  /\ Found \in Seq(SUBSET Nat)
  /\ MaxDevices \in Nat /\ MaxEntries \in Nat

VARIABLES
  pc,       \* "idle", "init" (loop over the groups), "add" (loop of a group), "scan"
  grp,      \* the group the loop is at
  found,    \* targets the group has found
  added,    \* how many of them have their device
  res,      \* res of dev_init
  ask,      \* the call: [room, matches], the room for handles or Everything
            \*   if devices is NULL, and whether device_type matches
  inited,   \* groups whose inited is set
  list,     \* the linked list after in_head: [group, index, enabled]
  num,      \* in_dev_num
  reached,  \* the targets whose probe succeeded, as [group, index]
  pos,      \* devices the walk has passed
  out,      \* positions in the list of the devices it has counted
  reply     \* what the last call returned, and the devices it counted

call == <<grp, found, added, res>>
walk == <<pos, out>>
registry == <<inited, list, num, reached>>
vars == <<pc, call, ask, registry, walk, reply>>

Everything == MaxDevices + 1

\* Every driver makes CL_DEVICE_TYPE_ACCELERATOR devices: a type matches all or none.
Asks == [room : (1 .. MaxEntries) \cup {Everything}, matches : BOOLEAN]

Answer(r, o) == [ret |-> r, devices |-> o]
NoReply == Answer("none", <<>>)

TargetOf(d) == [group |-> d.group, index |-> d.index]

--------------------------------------------------------------------------
(* in_clGetDeviceIDs and the loop of dev_init.                             *)

GetDeviceIDs(a) ==
  /\ pc = "idle" /\ pc' = "init"
  /\ ask' = a /\ grp' = 1 /\ res' = "CL_SUCCESS" /\ reply' = NoReply
  /\ UNCHANGED <<found, added, registry, walk>>

\* A bad platform, room for no device, or nowhere to put the answer.
RefuseCall ==
  /\ pc = "idle" /\ reply' = Answer("CL_INVALID_VALUE", <<>>)
  /\ UNCHANGED <<pc, call, ask, registry, walk>>

SkipGroup ==
  /\ pc = "init" /\ grp \in inited /\ grp' = grp + 1
  /\ UNCHANGED <<pc, found, added, res, ask, registry, walk, reply>>

\* Mutant: a group that fails is left to the next call.
GroupDoneIfNoError(r) ==
  /\ pc' = "init" /\ grp' = grp + 1 /\ res' = r
  /\ inited' = IF r = "CL_SUCCESS" THEN inited \cup {grp} ELSE inited

\* grp->init has returned: inited is set whatever it returned.
GroupDone(r) ==
  /\ pc' = "init" /\ grp' = grp + 1 /\ inited' = inited \cup {grp}
  /\ res' = IF r = "CL_SUCCESS" THEN res ELSE r

\* The group's enumeration.
StartGroup ==
  /\ pc = "init" /\ grp \in GroupIds \ inited
  /\ pc' = "add" /\ found' \in Found[grp] /\ added' = 0
  /\ UNCHANGED <<grp, res, ask, registry, walk, reply>>

\* The group cannot enumerate, or has no memory for its array.
StartFails ==
  /\ pc = "init" /\ grp \in GroupIds \ inited /\ GroupDone("CL_OUT_OF_HOST_MEMORY")
  /\ UNCHANGED <<found, added, ask, list, num, reached, walk, reply>>

\* Mutant: a probe that fails leaves the device enabled.
ListedEnabled(works) ==
  /\ list' = Append(list, [group |-> grp, index |-> added, enabled |-> TRUE])
  /\ num' = num + 1
  /\ reached' = IF works THEN reached \cup {[group |-> grp, index |-> added]} ELSE reached

\* Mutant: a device whose probe fails is counted, not listed.
ListedIfWorks(works) ==
  /\ list' = IF works THEN Append(list, [group |-> grp, index |-> added, enabled |-> TRUE])
             ELSE list
  /\ num' = num + 1
  /\ reached' = IF works THEN reached \cup {[group |-> grp, index |-> added]} ELSE reached

\* dev_add: the device is listed, and enabled if its probe succeeds.
Listed(works) ==
  /\ list' = Append(list, [group |-> grp, index |-> added, enabled |-> works])
  /\ num' = num + 1
  /\ reached' = IF works THEN reached \cup {[group |-> grp, index |-> added]} ELSE reached

\* One round of the group's loop: allocate a device, and add it.
AddDevice(works) ==
  /\ pc = "add" /\ added < found /\ Len(list) < MaxDevices
  /\ Listed(works) /\ added' = added + 1
  /\ UNCHANGED <<pc, grp, found, res, ask, inited, walk, reply>>

\* The device cannot be allocated.  err_out empties the group's array before
\* the exit function reads it: the devices added so far stay listed.
AddFails ==
  /\ pc = "add" /\ added < found /\ GroupDone("CL_OUT_OF_HOST_MEMORY")
  /\ UNCHANGED <<found, added, ask, list, num, reached, walk, reply>>

EndGroup ==
  /\ pc = "add" /\ added = found /\ GroupDone("CL_SUCCESS")
  /\ UNCHANGED <<found, added, ask, list, num, reached, walk, reply>>

--------------------------------------------------------------------------
(* The end of dev_init, and the walk of dev_get_devices.                   *)

InitFailed ==
  /\ pc = "init" /\ grp \notin GroupIds /\ res # "CL_SUCCESS"
  /\ pc' = "idle" /\ reply' = Answer(res, <<>>)
  /\ UNCHANGED <<call, ask, registry, walk>>

StartWalk ==
  /\ pc = "init" /\ grp \notin GroupIds /\ res = "CL_SUCCESS"
  /\ pc' = "scan" /\ pos' = 0 /\ out' = <<>>
  /\ UNCHANGED <<call, ask, registry, reply>>

\* Mutant: the walk stops one device late.
FullLate == Len(out) > ask.room

\* The caller's array has no room left.
Full == Len(out) >= ask.room

\* The devices the walk counts: enabled, and of the type asked for.
Counts(d) == ask.matches /\ d.enabled

Walk ==
  /\ pc = "scan" /\ pos < Len(list) /\ ~Full
  /\ pos' = pos + 1
  /\ out' = IF Counts(list[pos + 1]) THEN Append(out, pos + 1) ELSE out
  /\ UNCHANGED <<pc, call, ask, registry, reply>>

EndWalk ==
  /\ pc = "scan" /\ (pos = Len(list) \/ Full) /\ pc' = "idle"
  /\ reply' = IF out = <<>> THEN Answer("CL_DEVICE_NOT_FOUND", <<>>)
              ELSE Answer("CL_SUCCESS", out)
  /\ UNCHANGED <<call, ask, registry, walk>>

--------------------------------------------------------------------------
Init ==
  /\ pc = "idle" /\ grp = 1 /\ found = 0 /\ added = 0 /\ res = "CL_SUCCESS"
  /\ ask = [room |-> Everything, matches |-> TRUE]
  /\ inited = {} /\ list = <<>> /\ num = 0 /\ reached = {}
  /\ pos = 0 /\ out = <<>> /\ reply = NoReply

App == RefuseCall \/ \E a \in Asks : GetDeviceIDs(a)

Host ==
  \/ SkipGroup \/ StartGroup \/ StartFails \/ AddFails \/ EndGroup
  \/ InitFailed \/ StartWalk \/ Walk \/ EndWalk
  \/ \E works \in BOOLEAN : AddDevice(works)

Next == App \/ Host

\* The host thread runs on; the application calls when it likes.
Spec == Init /\ [][Next]_vars /\ WF_vars(Host)

--------------------------------------------------------------------------
(* Properties.                                                             *)

\* in_dev_num counts the list, and the walk stays inside it.
TypeOK ==
  /\ pc \in {"idle", "init", "add", "scan"} /\ grp \in Nat
  /\ found \in Nat /\ added \in Nat
  /\ res \in {"CL_SUCCESS", "CL_OUT_OF_HOST_MEMORY"}
  /\ ask \in Asks /\ inited \subseteq GroupIds
  /\ list \in Seq([group : GroupIds, index : Nat, enabled : BOOLEAN])
  /\ num = Len(list)
  /\ reached \subseteq [group : GroupIds, index : Nat]
  /\ pos \in 0 .. Len(list) /\ out \in Seq(Nat)
  /\ reply \in [ret : {"none", "CL_SUCCESS", "CL_INVALID_VALUE",
                       "CL_OUT_OF_HOST_MEMORY", "CL_DEVICE_NOT_FOUND"},
                devices : Seq(Nat)]

\* A target is listed once, whichever calls failed half way and were made
\* again: dev_init sets inited for a failed group too, and err_out keeps its
\* devices listed.  (Two devices on one target would be two GDB sessions.)
TargetListedOnce ==
  \A i, j \in 1 .. Len(list) : TargetOf(list[i]) = TargetOf(list[j]) => i = j

\* A call that succeeds has counted devices whose probe succeeded, each once,
\* in list order, leaving out none unless the caller's array is full, and
\* never more than it holds.
OffersReachedDevices ==
  reply.ret = "CL_SUCCESS" =>
    LET o == reply.devices
        last == o[Len(o)]
        offered == {o[i] : i \in 1 .. Len(o)}
        working == {i \in 1 .. Len(list) : TargetOf(list[i]) \in reached}
    IN /\ \A i, j \in 1 .. Len(o) : i < j => o[i] < o[j]
       /\ Len(o) <= ask.room
       /\ offered = IF Len(o) = ask.room THEN {i \in working : i <= last} ELSE working

\* The application asks for all devices again and again.
AsksAgain == []<><<GetDeviceIDs([room |-> Everything, matches |-> TRUE])>>_vars

\* A device that was reached is offered in the end, though the group that
\* found it, or another, failed: the error of dev_init is returned once.
ReachedIsOffered ==
  AsksAgain =>
    \A g \in GroupIds, i \in 0 .. MaxDevices - 1 :
      [group |-> g, index |-> i] \in reached ~>
        /\ reply.ret = "CL_SUCCESS"
        /\ \E k \in 1 .. Len(reply.devices) :
             TargetOf(list[reply.devices[k]]) = [group |-> g, index |-> i]
=============================================================================
