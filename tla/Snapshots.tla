------------------------------ MODULE Snapshots ------------------------------
(***************************************************************************)
(* Snapshots of one machine: create (cold and warm), restore, remove, the  *)
(* restore marker, and the launch that consumes it.                        *)
(*                                                                         *)
(* A warm create runs beside the shim: it has the snapshot lock only, and  *)
(* talks to the VMM.  The VMM's reply to a call may be lost after the call *)
(* took effect; a process may be killed between two steps.  The content of *)
(* the disk is a version, and so is the memory image: the version of the   *)
(* disk its guest believes in.  Start, stop and recovery are as coarse as  *)
(* the lock allows here; module Lifecycle has their steps.                 *)
(***************************************************************************)
EXTENDS Naturals, FiniteSets

CONSTANTS
    Proc,       \* CLI processes and REST workers
    Name,       \* snapshot names
    Ops,        \* operations they run, any number of times
    Faults,     \* what may go wrong: "kill", "lost_reply", "shim_death"
    MaxClock,   \* bound on disk versions
    MaxSpec,    \* bound on edits of firestone.toml
    MaxGen,     \* bound on launches
    None        \* nothing, nobody

VARIABLES
    snaps,      \* published snapshots
    partial,    \* names with a .partial- directory
    tombs,      \* names with a .removing- directory
    marker,     \* the snapshot restore-request.json names
    disk,       \* version of disk.qcow2, 0 when there is none
    clock,      \* the newest version there ever was
    spec, conf, \* firestone.toml, and the spec vmconfig.json was rendered from
    status, by, degraded,   \* state.json: status, launch, paused marker
    slock, mlock,           \* who has snapshots/.lock and the machine lock
    shim, gen, plan,        \* the shim, its launch, the restore in its plan
    vm, mem, vmconf,        \* the VM: mode, memory image, configuration
    pc, op, arg,            \* each process
    cap,        \* what a create has captured so far
    seen,       \* the state a process read before it writes it
    cut         \* history: a restore took effect and its marker stayed

files == <<snaps, partial, tombs, marker>>
doc == <<spec, conf>>
state == <<status, by, degraded>>
locks == <<slock, mlock>>
guest == <<disk, clock, vm, mem, vmconf>>
super == <<shim, gen, plan>>
local == <<arg, cap, seen>>
vars == <<files, doc, state, locks, guest, super, pc, op, local, cut>>

NoSnap == [kind |-> "none", mem |-> 0, disk |-> 0, spec |-> 0, conf |-> 0, torn |-> FALSE]
NoState == [status |-> "none", by |-> 0, degraded |-> FALSE]
Shim == "shim"

Init ==
    /\ snaps = [n \in Name |-> NoSnap] /\ partial = {} /\ tombs = {} /\ marker = None
    /\ disk = 0 /\ clock = 0 /\ spec = 1 /\ conf = 0
    /\ status = "created" /\ by = 0 /\ degraded = FALSE
    /\ slock = None /\ mlock = None
    /\ shim = "none" /\ gen = 0 /\ plan = None
    /\ vm = "none" /\ mem = 0 /\ vmconf = 0
    /\ pc = [p \in Proc |-> "idle"] /\ op = [p \in Proc |-> "none"]
    /\ arg = [p \in Proc |-> None]
    /\ cap = [p \in Proc |-> NoSnap] /\ seen = [p \in Proc |-> NoState]
    /\ cut = FALSE

At(p, l) == pc[p] = l
Goto(p, l) == pc' = [pc EXCEPT ![p] = l]
Published(n) == snaps[n].kind # "none"
\* What every reader takes a machine with a live shim or VMM to be.
Active == shim # "none" \/ vm # "none"

\* The process is idle again and forgets what it read.
Forget(p) ==
    /\ pc' = [pc EXCEPT ![p] = "idle"] /\ op' = [op EXCEPT ![p] = "none"]
    /\ arg' = [arg EXCEPT ![p] = None] /\ cap' = [cap EXCEPT ![p] = NoSnap]
    /\ seen' = [seen EXCEPT ![p] = NoState]
Unlock(p) ==
    /\ slock' = IF slock = p THEN None ELSE slock
    /\ mlock' = IF mlock = p THEN None ELSE mlock

\* The operation ends, well or with an error: its locks drop.
Ends(p) == Forget(p) /\ Unlock(p)

Begin(p) ==
    /\ At(p, "idle")
    /\ \E o \in Ops, n \in Name :
        /\ op' = [op EXCEPT ![p] = o]
        /\ arg' = [arg EXCEPT ![p] = n]
        /\ Goto(p, IF o \in {"start", "stop"} THEN o ELSE "wait")
    /\ UNCHANGED <<files, doc, state, locks, guest, super, cap, seen, cut>>

\* MachineLock::acquire on snapshots/.lock, then the checks on the name.
LockSnapshots(p) ==
    /\ At(p, "wait") /\ slock = None
    /\ LET n == arg[p] IN
       IF Published(n) = (op[p] = "create")
       THEN Ends(p)
       ELSE /\ slock' = p /\ Goto(p, op[p])
            /\ UNCHANGED <<mlock, op, local>>
    /\ UNCHANGED <<files, doc, state, guest, super, cut>>

-----------------------------------------------------------------------------
(* snapshot create.                                                        *)

\* read_live_state, snapshot_kind_for: a running machine gives a warm
\* snapshot without the machine lock, a created or stopped one a cold one.
ChooseKind(p) ==
    /\ At(p, "create")
    /\ \/ /\ shim = "up" /\ status = "running"
          /\ Goto(p, "copy_spec")
          /\ cap' = [cap EXCEPT ![p].kind = "warm"]
          /\ UNCHANGED <<locks, op, arg, seen>>
       \/ /\ ~Active /\ status \in {"created", "stopped"}
          /\ Goto(p, "cold_lock")
          /\ cap' = [cap EXCEPT ![p].kind = "cold"]
          /\ UNCHANGED <<locks, op, arg, seen>>
       \/ /\ IF Active THEN ~(shim = "up" /\ status = "running")
                       ELSE status \notin {"created", "stopped"}
          /\ Ends(p)
    /\ UNCHANGED <<files, doc, state, guest, super, cut>>

\* The status is read again under the machine lock.
LockCold(p) ==
    /\ At(p, "cold_lock") /\ mlock = None
    /\ IF ~Active /\ status \in {"created", "stopped"}
       THEN mlock' = p /\ Goto(p, "copy_spec") /\ UNCHANGED <<slock, op, local>>
       ELSE Ends(p)
    /\ UNCHANGED <<files, doc, state, guest, super, cut>>

\* clear_snapshot_directory, then spec.toml and vmconfig.json, then the free
\* space check of a warm create, which may refuse.
CopySpec(p) ==
    /\ At(p, "copy_spec")
    /\ \/ /\ partial' = partial \cup {arg[p]}
          /\ cap' = [cap EXCEPT ![p].spec = spec, ![p].conf = conf]
          /\ Goto(p, IF cap[p].kind = "warm" THEN "pause" ELSE "cold_disk")
          /\ UNCHANGED <<locks, op, arg, seen>>
       \/ /\ partial' = partial \ {arg[p]}
          /\ cap[p].kind = "warm"
          /\ Ends(p)
    /\ UNCHANGED <<snaps, tombs, marker, doc, state, guest, super, cut>>

\* capture_cold_snapshot: the lock keeps every writer away from the disk.
CopyCold(p) ==
    /\ At(p, "cold_disk")
    /\ cap' = [cap EXCEPT ![p].disk = disk, ![p].mem = disk, ![p].torn = vm # "none"]
    /\ Goto(p, "publish")
    /\ UNCHANGED <<files, doc, state, locks, guest, super, op, arg, seen, cut>>

\* vm.pause.  Only a running VM can be paused.  When the call fails nothing
\* else is tried: if its reply was lost the VM stays paused.
Pause(p) ==
    /\ At(p, "pause")
    /\ \/ /\ vm = "running" /\ vm' = "paused"
          /\ Goto(p, "snapshot") /\ UNCHANGED <<partial, locks, op, local>>
       \/ /\ vm = "running" /\ vm' = "paused" /\ "lost_reply" \in Faults
          /\ partial' = partial \ {arg[p]} /\ Ends(p)
       \/ /\ vm # "running" /\ UNCHANGED vm
          /\ partial' = partial \ {arg[p]} /\ Ends(p)
    /\ UNCHANGED <<snaps, tombs, marker, doc, state, disk, clock, mem, vmconf, super, cut>>

\* vm.snapshot, which CH refuses unless the VM is paused.
CaptureMemory(p) ==
    /\ At(p, "snapshot")
    /\ \/ /\ vm = "paused"
          /\ cap' = [cap EXCEPT ![p].mem = mem]
          /\ Goto(p, "copy")
       \/ Goto(p, "resume_failed") /\ UNCHANGED cap
    /\ UNCHANGED <<files, doc, state, locks, guest, super, op, arg, seen, cut>>

\* sparse_copy_file reads block after block: the copy begins with one version
\* of the disk and is torn unless it ends with the same.
CopyBegins(p) ==
    /\ At(p, "copy")
    /\ cap' = [cap EXCEPT ![p].disk = disk]
    /\ Goto(p, "copying")
    /\ UNCHANGED <<files, doc, state, locks, guest, super, op, arg, seen, cut>>

CopyEnds(p) ==
    /\ At(p, "copying")
    /\ \/ /\ cap' = [cap EXCEPT ![p].torn = cap[p].disk # disk]
          /\ Goto(p, "resume")
       \/ Goto(p, "resume_failed") /\ UNCHANGED cap
    /\ UNCHANGED <<files, doc, state, locks, guest, super, op, arg, seen, cut>>

\* vm.resume, attempted after every failure since the pause.  When it fails
\* the machine is to be marked degraded, whatever was captured.
Resume(p) ==
    /\ pc[p] \in {"resume", "resume_failed"}
    /\ \/ /\ vm = "paused" /\ vm' = "running"
          /\ IF At(p, "resume")
             THEN Goto(p, "publish") /\ UNCHANGED <<partial, locks, op, local>>
             ELSE partial' = partial \ {arg[p]} /\ Ends(p)
       \/ /\ \/ vm # "paused" /\ UNCHANGED vm
             \/ vm = "paused" /\ "lost_reply" \in Faults /\ vm' \in {"paused", "running"}
          /\ Goto(p, "degrade") /\ UNCHANGED <<partial, locks, op, local>>
    /\ UNCHANGED <<snaps, tombs, marker, doc, state, disk, clock, mem, vmconf, super, cut>>

\* mark_resume_degraded: reads state.json, then writes it, without a lock.
ReadForMark(p) ==
    /\ At(p, "degrade")
    /\ seen' = [seen EXCEPT ![p] = [status |-> status, by |-> by, degraded |-> TRUE]]
    /\ Goto(p, "mark")
    /\ UNCHANGED <<files, doc, state, locks, guest, super, op, arg, cap, cut>>

Mark(p) ==
    /\ At(p, "mark")
    /\ status' = seen[p].status /\ by' = seen[p].by /\ degraded' = TRUE
    /\ partial' = partial \ {arg[p]}
    /\ Ends(p)
    /\ UNCHANGED <<snaps, tombs, marker, doc, guest, super, cut>>

\* metadata.json, then one rename.
Publish(p) ==
    /\ At(p, "publish")
    /\ snaps' = [snaps EXCEPT ![arg[p]] = cap[p]]
    /\ partial' = partial \ {arg[p]}
    /\ Ends(p)
    /\ UNCHANGED <<tombs, marker, doc, state, guest, super, cut>>

-----------------------------------------------------------------------------
(* snapshot restore and snapshot rm.                                       *)

\* An active machine is refused, or stopped first with --force.
RestoreChecks(p) ==
    /\ pc[p] \in {"restore", "force_restore"}
    /\ \/ ~Active /\ Goto(p, "restore_lock") /\ UNCHANGED <<locks, op, local>>
       \/ Active /\ At(p, "restore") /\ Ends(p)
       \/ /\ Active /\ At(p, "force_restore")
          /\ Goto(p, "force_stop") /\ UNCHANGED <<locks, op, local>>
    /\ UNCHANGED <<files, doc, state, guest, super, cut>>

\* Under the machine lock: still not active; an earlier marker goes first.
RestoreBegins(p) ==
    /\ At(p, "restore_lock") /\ mlock = None
    /\ \/ ~Active /\ mlock' = p /\ marker' = None /\ Goto(p, "put_disk")
          /\ UNCHANGED <<slock, op, local>>
       \/ Active /\ Ends(p) /\ UNCHANGED marker
    /\ UNCHANGED <<snaps, partial, tombs, doc, state, guest, super, cut>>

\* restore_machine_disk: the overlay by a rename, or removed.
PutDisk(p) ==
    /\ At(p, "put_disk")
    /\ disk' = snaps[arg[p]].disk
    /\ Goto(p, "put_spec")
    /\ UNCHANGED <<files, doc, state, locks, clock, vm, mem, vmconf, super, op, local, cut>>

PutSpec(p) ==
    /\ At(p, "put_spec")
    /\ spec' = snaps[arg[p]].spec
    /\ Goto(p, "put_conf")
    /\ UNCHANGED <<files, conf, state, locks, guest, super, op, local, cut>>

PutConf(p) ==
    /\ At(p, "put_conf")
    /\ conf' = snaps[arg[p]].conf
    /\ Goto(p, "put_state")
    /\ UNCHANGED <<files, spec, state, locks, guest, super, op, local, cut>>

\* state.json, then the marker of a warm snapshot; a warm restore starts.
PutState(p) ==
    /\ At(p, "put_state")
    /\ status' = IF status = "failed" THEN "stopped" ELSE status
    /\ degraded' = FALSE
    /\ IF snaps[arg[p]].kind = "warm"
       THEN Goto(p, "put_marker") /\ UNCHANGED <<locks, op, local>>
       ELSE Ends(p)
    /\ UNCHANGED <<files, doc, by, guest, super, cut>>

PutMarker(p) ==
    /\ At(p, "put_marker")
    /\ marker' = arg[p]
    /\ Unlock(p) /\ Goto(p, "start")
    /\ UNCHANGED <<snaps, partial, tombs, doc, state, guest, super, op, local, cut>>

\* Refused while the marker names it; one rename, then the delete.
Unpublish(p) ==
    /\ At(p, "remove")
    /\ \/ /\ marker # arg[p]
          /\ snaps' = [snaps EXCEPT ![arg[p]] = NoSnap]
          /\ tombs' = tombs \cup {arg[p]} /\ Goto(p, "clear")
          /\ UNCHANGED <<locks, op, local>>
       \/ marker = arg[p] /\ Ends(p) /\ UNCHANGED <<snaps, tombs>>
    /\ UNCHANGED <<partial, marker, doc, state, guest, super, cut>>

Clear(p) ==
    /\ At(p, "clear")
    /\ tombs' = tombs \ {arg[p]}
    /\ Ends(p)
    /\ UNCHANGED <<snaps, partial, marker, doc, state, guest, super, cut>>

-----------------------------------------------------------------------------
(* start, the launch with or without a pending restore, stop.              *)

\* prepare_start under the machine lock: the marker goes into the launch
\* plan; the shim takes the lock over.  The overlay is made on first use.
Start(p) ==
    /\ At(p, "start")
    /\ \/ /\ mlock = None /\ ~Active /\ gen < MaxGen
          /\ disk > 0 \/ clock < MaxClock
          /\ disk' = (IF disk = 0 THEN clock + 1 ELSE disk)
          /\ clock' = (IF disk = 0 THEN clock + 1 ELSE clock)
          /\ gen' = gen + 1 /\ shim' = "launch" /\ plan' = marker
          /\ status' = "starting" /\ by' = gen' /\ degraded' = FALSE
          /\ slock' = slock /\ mlock' = Shim
          /\ Forget(p)
          /\ UNCHANGED conf
       \/ /\ Ends(p)
          /\ UNCHANGED <<conf, state, disk, clock, super>>
    /\ UNCHANGED <<files, spec, vm, mem, vmconf, cut>>

\* A launch that fails kills its VMM and leaves the marker where it is, also
\* when the reply of vm.resume was lost and the guest already ran.
LaunchFails ==
    /\ \/ shim \in {"launch", "restored", "booted"}
       \/ shim = "resumed" /\ "lost_reply" \in Faults
    /\ shim' = "none" /\ plan' = None /\ mlock' = None
    /\ vm' = "none" /\ mem' = 0 /\ vmconf' = 0
    /\ status' = "failed" /\ by' = 0
    /\ cut' = (cut \/ shim = "resumed")
    /\ UNCHANGED <<files, doc, degraded, slock, disk, clock, gen, pc, op, local>>

\* publish_vmconfig, vm.create and vm.boot.
LaunchBoot ==
    /\ shim = "launch" /\ plan = None
    /\ conf' = spec
    /\ vm' = "running" /\ mem' = disk /\ vmconf' = spec
    /\ shim' = "booted"
    /\ UNCHANGED <<files, spec, state, locks, disk, clock, gen, plan, pc, op, local, cut>>

\* prepare_restore_launch: the VmConfig this launch publishes must be the one
\* the snapshot captured; vm.restore leaves the VM paused.  Two VmConfigs that
\* differ only by what a live resize writes (boot_vcpus, size, hotplug_size under
\* one ceiling) pass for equal there, and are one number here.
LaunchRestore ==
    /\ shim = "launch" /\ plan # None
    /\ conf' = spec
    /\ marker = plan /\ snaps[plan].conf = conf'
    /\ vm' = "paused" /\ mem' = snaps[plan].mem /\ vmconf' = snaps[plan].conf
    /\ shim' = "restored"
    /\ UNCHANGED <<files, spec, state, locks, disk, clock, gen, plan, pc, op, local, cut>>

\* vm.resume of the restored VM.
LaunchResume ==
    /\ shim = "restored" /\ vm = "paused"
    /\ vm' = "running" /\ shim' = "resumed"
    /\ UNCHANGED <<files, doc, state, locks, disk, clock, mem, vmconf, gen, plan,
                   pc, op, local, cut>>

\* Mutant: the marker of a restore that was carried out stays.
KeepMarker ==
    /\ shim = "resumed" /\ shim' = "booted"
    /\ UNCHANGED <<files, doc, state, locks, guest, gen, plan, pc, op, local, cut>>

\* remove_restore_marker.
DropMarker ==
    /\ shim = "resumed" /\ shim' = "booted"
    /\ marker' = None
    /\ UNCHANGED <<snaps, partial, tombs, doc, state, locks, guest, gen, plan,
                   pc, op, local, cut>>

\* The console is attached and `running` written.  While it is up the shim
\* writes its own state again whenever a sidecar or the VM changes.
ShimWrites ==
    /\ shim \in {"booted", "up"} /\ shim' = "up"
    /\ status' = "running" /\ by' = gen /\ degraded' = FALSE
    /\ UNCHANGED <<files, doc, locks, guest, gen, plan, pc, op, local, cut>>

\* stop of a supervised machine or of an orphan; a forced restore stops first.
Stop(p) ==
    /\ pc[p] \in {"stop", "force_stop"}
    /\ \/ /\ shim = "up" \/ (shim = "none" /\ vm # "none" /\ mlock = None)
          /\ shim' = "none" /\ plan' = None /\ mlock' = None
          /\ vm' = "none" /\ mem' = 0 /\ vmconf' = 0
          /\ status' = "stopped" /\ by' = 0 /\ degraded' = FALSE
          /\ IF At(p, "stop") THEN Forget(p) /\ UNCHANGED slock
                              ELSE Goto(p, "restore_lock") /\ UNCHANGED <<slock, op, local>>
       \/ /\ Ends(p)
          /\ UNCHANGED <<state, vm, mem, vmconf, shim, plan>>
    /\ UNCHANGED <<files, doc, disk, clock, gen, cut>>

-----------------------------------------------------------------------------
(* The guest, edits, and faults.                                           *)

\* A running guest writes its disk.
GuestWrites ==
    /\ vm = "running" /\ clock < MaxClock
    /\ clock' = clock + 1 /\ disk' = clock' /\ mem' = clock'
    /\ UNCHANGED <<files, doc, state, locks, vm, vmconf, super, pc, op, local, cut>>

\* edit, set and patch replace firestone.toml at any time (module SpecFile).
Edit ==
    /\ spec' \in (1..MaxSpec) \ {spec}
    /\ mlock \in {None, Shim}
    /\ UNCHANGED <<files, conf, state, locks, guest, super, pc, op, local, cut>>

\* The process is killed, or fails in a step that cleans nothing up.
Killed(p) ==
    /\ "kill" \in Faults
    /\ pc[p] \notin {"idle", "wait", "start", "stop"}
    /\ Ends(p)
    /\ UNCHANGED <<files, doc, state, guest, super, cut>>

\* The shim is killed.  The VMM goes on: its guest runs on the same disk.
ShimDies ==
    /\ "shim_death" \in Faults /\ shim # "none"
    /\ shim' = "none" /\ plan' = None /\ mlock' = None
    /\ cut' = (cut \/ shim = "resumed")
    /\ UNCHANGED <<files, doc, state, slock, guest, gen, pc, op, local>>

Create(p) ==
    \/ ChooseKind(p) \/ LockCold(p) \/ CopySpec(p) \/ CopyCold(p) \/ Pause(p)
    \/ CaptureMemory(p) \/ CopyBegins(p) \/ CopyEnds(p) \/ Resume(p) \/ ReadForMark(p)
    \/ Mark(p) \/ Publish(p)
Restore(p) ==
    \/ RestoreChecks(p) \/ RestoreBegins(p) \/ PutDisk(p) \/ PutSpec(p) \/ PutConf(p)
    \/ PutState(p) \/ PutMarker(p)
Launch ==
    \/ LaunchBoot \/ LaunchRestore \/ LaunchResume \/ DropMarker \/ ShimWrites \/ LaunchFails

Next ==
    \/ \E p \in Proc :
        \/ Begin(p) \/ LockSnapshots(p) \/ Create(p) \/ Restore(p)
        \/ Unpublish(p) \/ Clear(p) \/ Start(p) \/ Stop(p) \/ Killed(p)
    \/ Launch \/ GuestWrites \/ Edit \/ ShimDies

Spec == Init /\ [][Next]_vars

-----------------------------------------------------------------------------
(* Properties.                                                             *)

Snap == [kind: {"none", "cold", "warm"}, mem: Nat, disk: Nat, spec: Nat, conf: Nat, torn: BOOLEAN]
Status == {"created", "starting", "running", "stopped", "failed"}
Requests == {"create", "restore", "force_restore", "remove", "start", "stop"}
Creating == {"create", "cold_lock", "copy_spec", "cold_disk", "pause", "snapshot", "copy",
             "copying", "resume", "resume_failed", "degrade", "mark", "publish"}
Putting == {"put_disk", "put_spec", "put_conf", "put_state", "put_marker"}
Restoring == {"restore", "force_restore", "force_stop", "restore_lock"} \cup Putting
Removing == {"remove", "clear"}

Phase == {"idle", "wait", "start", "stop"} \cup Creating \cup Restoring \cup Removing
Reading == [status: Status \cup {"none"}, by: Nat, degraded: BOOLEAN]

FilesOK ==
    /\ snaps \in [Name -> Snap] /\ partial \subseteq Name /\ tombs \subseteq Name
    /\ marker \in Name \cup {None}
    /\ spec \in Nat /\ conf \in Nat /\ by \in Nat /\ status \in Status /\ degraded \in BOOLEAN
MachineOK ==
    /\ disk \in Nat /\ clock \in Nat /\ mem \in Nat /\ vmconf \in Nat /\ gen \in Nat
    /\ plan \in Name \cup {None} /\ cut \in BOOLEAN
    /\ shim \in {"none", "launch", "restored", "resumed", "booted", "up"}
    /\ vm \in {"none", "paused", "running"}
ProcessesOK ==
    /\ slock \in Proc \cup {None} /\ mlock \in Proc \cup {None, Shim}
    /\ pc \in [Proc -> Phase] /\ op \in [Proc -> Requests \cup {"none"}]
    /\ arg \in [Proc -> Name \cup {None}]
    /\ cap \in [Proc -> Snap] /\ seen \in [Proc -> Reading]

\* The types of all variables.
TypeOK == FilesOK /\ MachineOK /\ ProcessesOK

\* A published snapshot is one instant: its disk was copied whole, and a warm
\* one's memory belongs to that disk, although a warm create shares no lock
\* with stop and start.  (A VM that was resumed twice is captured as it is.)
SnapshotsCoherent ==
    \A n \in Name : Published(n) =>
        ~snaps[n].torn /\ (cut \/ snaps[n].mem = snaps[n].disk)

\* A pending restore names a warm snapshot that is still there.
MarkerHasSnapshot == marker # None => snaps[marker].kind = "warm"

\* The disk beside a pending restore is the one the snapshot captured,
\* wherever restore was interrupted, unless the restore already ran once.
MarkerFitsDisk ==
    marker # None /\ ~cut /\ shim # "resumed" => disk = snaps[marker].disk

\* The memory of the VM belongs to the disk it has open, and the VmConfig on
\* disk is the one the VM was made from.
MemoryFitsDisk ==
    vm # "none" => (cut \/ mem = disk) /\ vmconf = conf

\* As SPEC section 23 has it, a restored VM continues on the captured disk.
ResumesCaptured == vm # "none" => mem = disk
=============================================================================
