--------------------------- MODULE SnapshotsProofs ---------------------------
(***************************************************************************)
(* Proofs about Snapshots, for any number of processes and snapshots.      *)
(***************************************************************************)
EXTENDS Snapshots, TLAPS

\* What the proofs need of the constants: locks have no holder but a process,
\* the shim or nobody, and nothing but the six operations runs.
Parameters ==
    /\ None \notin Name /\ None \notin Proc /\ Shim \notin Proc /\ None # Shim
    /\ Ops \subseteq Requests

-----------------------------------------------------------------------------
(* The locks.                                                              *)

\* A create of a kind that needs the machine lock.
Cold(p) == pc[p] \in {"cold_disk"} \/ (pc[p] \in {"copy_spec", "publish"} /\ cap[p].kind = "cold")
\* A create that has asked, or is about to ask, the VMM to pause.
Warm(p) ==
    \/ pc[p] \in {"pause", "snapshot", "copy", "copying", "resume", "resume_failed", "degrade", "mark"}
    \/ pc[p] \in {"copy_spec", "publish"} /\ cap[p].kind = "warm"

\* snapshots/.lock is held throughout create, restore and rm; the machine lock
\* while a disk at rest is read or replaced, and by the shim from launch on.
LockInv ==
    /\ \A p \in Proc : pc[p] \in Creating \cup Restoring \cup Removing => slock = p
    /\ \A p \in Proc : Cold(p) \/ pc[p] \in Putting => mlock = p /\ ~Active
    /\ shim # "none" => mlock = Shim

\* The name a process works on.
NameInv ==
    \A p \in Proc :
        /\ pc[p] # "idle" => arg[p] \in Name
        /\ pc[p] = "wait" => op[p] \notin {"none", "start", "stop"}
        /\ pc[p] \in Creating => ~Published(arg[p])
        /\ pc[p] \in Restoring => Published(arg[p])
        /\ pc[p] \in {"copy_spec", "publish"} => cap[p].kind \in {"cold", "warm"}
        /\ pc[p] \in {"cold_lock", "cold_disk"} => cap[p].kind = "cold"
        /\ pc[p] \in {"pause", "snapshot", "copy", "copying", "resume"} => cap[p].kind = "warm"
        /\ pc[p] = "mark" => seen[p].status \in Status

-----------------------------------------------------------------------------
(* The marker and what a create has captured.                              *)

\* The marker is what a launch was planned with until it is consumed; a guest
\* runs beside it only between vm.resume and its removal.
MarkerInv ==
    /\ shim = "launch" => plan = marker
    /\ shim \in {"booted", "up"} => marker = None
    /\ \A p \in Proc : Warm(p) \/ pc[p] \in Putting => marker = None
    /\ vm = "running" /\ marker # None => shim = "resumed" \/ cut
    /\ \A p \in Proc : pc[p] = "put_marker" => snaps[arg[p]].kind = "warm"
    /\ \A p \in Proc : pc[p] \in Putting \ {"put_disk"} => disk = snaps[arg[p]].disk

\* A VM has a disk, and so has every warm snapshot.
DiskInv ==
    /\ Active => disk > 0
    /\ \A n \in Name : snaps[n].kind = "warm" => snaps[n].disk > 0

\* As long as the VM is still the one that was paused, what was captured is
\* its memory and its disk; what is about to be published is coherent.
CaptureInv ==
    \A p \in Proc :
        /\ pc[p] \in {"copy", "copying", "resume"} /\ vm = "paused" => cap[p].mem = mem
        /\ pc[p] \in {"copying", "resume"} /\ vm = "paused" => cap[p].disk = disk
        /\ pc[p] = "resume" /\ vm = "paused" => ~cap[p].torn
        /\ pc[p] = "publish" =>
            /\ ~cap[p].torn /\ (cut \/ cap[p].mem = cap[p].disk)
            /\ cap[p].kind = "warm" => cap[p].disk > 0

Coherent == SnapshotsCoherent /\ MarkerHasSnapshot /\ MarkerFitsDisk /\ MemoryFitsDisk

IInv == TypeOK /\ LockInv /\ NameInv /\ MarkerInv /\ DiskInv /\ CaptureInv /\ Coherent
-----------------------------------------------------------------------------
(* Types.                                                                  *)

\* A snapshot with a field replaced is a snapshot.
LEMMA SnapFields ==
  ASSUME NEW c \in Snap
  PROVE  /\ \A k \in {"none", "cold", "warm"} : [c EXCEPT !.kind = k] \in Snap
         /\ \A m \in Nat : [c EXCEPT !.mem = m] \in Snap /\ [c EXCEPT !.disk = m] \in Snap
         /\ \A t \in BOOLEAN : [c EXCEPT !.torn = t] \in Snap
         /\ \A m \in Nat, k \in Nat : [c EXCEPT !.spec = m, !.conf = k] \in Snap
         /\ \A m \in Nat, t \in BOOLEAN : [c EXCEPT !.disk = m, !.mem = m, !.torn = t] \in Snap
         /\ c.mem \in Nat /\ c.disk \in Nat /\ c.spec \in Nat /\ c.conf \in Nat
  BY DEF Snap

\* What a process starts with.
LEMMA Blanks == NoSnap \in Snap /\ NoState \in Reading
  BY DEF NoSnap, Snap, NoState, Reading

\* The files keep their types.
LEMMA FilesStep ==
  ASSUME Parameters, TypeOK, NameInv, [Next]_vars
  PROVE  FilesOK'
<1> USE DEF Parameters, TypeOK, FilesOK, files, doc, state
<1>1. ASSUME NEW p \in Proc, Begin(p) \/ LockSnapshots(p) \/ ChooseKind(p) \/
       LockCold(p) \/ CopyCold(p) \/ CaptureMemory(p) \/ CopyBegins(p) \/ CopyEnds(p) \/
       ReadForMark(p) \/ RestoreChecks(p) \/ PutDisk(p) \/ Killed(p)
     PROVE FilesOK'
  BY <1>1 DEF Begin, LockSnapshots, ChooseKind, LockCold, CopyCold, CaptureMemory,
              CopyBegins, CopyEnds, ReadForMark, RestoreChecks, PutDisk, Killed
<1>2. ASSUME NEW p \in Proc, CopySpec(p) \/ Pause(p) \/ Resume(p)
     PROVE FilesOK'
  BY <1>2 DEF CopySpec, Pause, Resume, NameInv, At
<1>3. ASSUME NEW p \in Proc, Mark(p) PROVE FilesOK'
  BY <1>3 DEF Mark, NameInv, At, ProcessesOK, Reading
<1>4. ASSUME NEW p \in Proc, Publish(p) PROVE FilesOK'
  BY <1>4 DEF Publish, NameInv, At, ProcessesOK
<1>5. ASSUME NEW p \in Proc, RestoreBegins(p) \/ Clear(p) PROVE FilesOK'
  BY <1>5 DEF RestoreBegins, Clear
<1>6. ASSUME NEW p \in Proc, PutSpec(p) \/ PutConf(p) \/ PutState(p) \/ PutMarker(p)
     PROVE FilesOK'
  BY <1>6, SnapFields DEF PutSpec, PutConf, PutState, PutMarker, NameInv, At, Status
<1>7. ASSUME NEW p \in Proc, Unpublish(p) PROVE FilesOK'
  BY <1>7, Blanks DEF Unpublish, NameInv, At
<1>8. ASSUME NEW p \in Proc, Start(p) PROVE FilesOK'
  <2>1. by' \in Nat
    BY <1>8 DEF Start, MachineOK
  <2>2. status' \in Status /\ degraded' \in BOOLEAN
    BY <1>8 DEF Start, Status
  <2> QED
    BY <1>8, <2>1, <2>2 DEF Start
<1>9. ASSUME NEW p \in Proc, Stop(p) PROVE FilesOK'
  <2>1. by' \in Nat
    BY <1>9 DEF Stop
  <2>2. status' \in Status /\ degraded' \in BOOLEAN
    BY <1>9 DEF Stop, Status
  <2> QED
    BY <1>9, <2>1, <2>2 DEF Stop
<1>10. CASE LaunchBoot \/ LaunchRestore \/ LaunchResume \/ DropMarker
  BY <1>10 DEF LaunchBoot, LaunchRestore, LaunchResume, DropMarker
<1>11. CASE ShimWrites
  <2>1. by' \in Nat /\ status' \in Status
    BY <1>11 DEF ShimWrites, MachineOK, Status
  <2> QED
    BY <1>11, <2>1 DEF ShimWrites
<1>12. CASE LaunchFails
  <2>1. by' \in Nat /\ status' \in Status
    BY <1>12 DEF LaunchFails, Status
  <2> QED
    BY <1>12, <2>1 DEF LaunchFails
<1>13. CASE GuestWrites \/ Edit \/ ShimDies
  BY <1>13 DEF GuestWrites, Edit, ShimDies
<1>14. CASE UNCHANGED vars
  BY <1>14 DEF vars
<1> QED
  BY <1>1, <1>2, <1>3, <1>4, <1>5, <1>6, <1>7, <1>8, <1>9, <1>10, <1>11, <1>12, <1>13,
     <1>14 DEF Next, Create, Restore, Launch

\* The disk, the shim and the VM keep theirs.
LEMMA MachineStep ==
  ASSUME Parameters, TypeOK, NameInv, [Next]_vars
  PROVE  MachineOK'
<1> USE DEF Parameters, TypeOK, MachineOK, guest, super
<1>1. ASSUME NEW p \in Proc, Begin(p) \/ LockSnapshots(p) \/ ChooseKind(p) \/
       LockCold(p) \/ CopySpec(p) \/ CopyCold(p) \/ CaptureMemory(p) \/ CopyBegins(p) \/
       CopyEnds(p) PROVE MachineOK'
  BY <1>1 DEF Begin, LockSnapshots, ChooseKind, LockCold, CopySpec, CopyCold,
              CaptureMemory, CopyBegins, CopyEnds
<1>2. ASSUME NEW p \in Proc, ReadForMark(p) \/ Mark(p) \/ Publish(p) \/ RestoreChecks(p) \/
       RestoreBegins(p) \/ PutSpec(p) \/ PutConf(p) \/ PutState(p) \/ PutMarker(p) \/
       Unpublish(p) \/ Clear(p) \/ Killed(p) PROVE MachineOK'
  BY <1>2 DEF ReadForMark, Mark, Publish, RestoreChecks, RestoreBegins, PutSpec, PutConf,
              PutState, PutMarker, Unpublish, Clear, Killed
<1>3. ASSUME NEW p \in Proc, Pause(p) \/ Resume(p) \/ Stop(p) PROVE MachineOK'
  BY <1>3 DEF Pause, Resume, Stop
<1>4. ASSUME NEW p \in Proc, PutDisk(p) PROVE MachineOK'
  BY <1>4, SnapFields DEF PutDisk, NameInv, At, FilesOK
<1>5. ASSUME NEW p \in Proc, Start(p) PROVE MachineOK'
  BY <1>5 DEF Start, FilesOK
<1>6. CASE LaunchBoot \/ LaunchRestore \/ LaunchResume
  BY <1>6, SnapFields DEF LaunchBoot, LaunchRestore, LaunchResume, FilesOK
<1>7. CASE DropMarker \/ ShimWrites \/ GuestWrites \/ Edit
  BY <1>7 DEF DropMarker, ShimWrites, GuestWrites, Edit
<1>8. CASE LaunchFails \/ ShimDies
  <2>1. cut' \in BOOLEAN
    BY <1>8 DEF LaunchFails, ShimDies
  <2> QED
    BY <1>8, <2>1 DEF LaunchFails, ShimDies
<1>9. CASE UNCHANGED vars
  BY <1>9 DEF vars
<1> QED
  BY <1>1, <1>2, <1>3, <1>4, <1>5, <1>6, <1>7, <1>8, <1>9 DEF Next, Create, Restore, Launch

\* So do the locks and the processes.
LEMMA ProcessesStep ==
  ASSUME Parameters, TypeOK, NameInv, [Next]_vars
  PROVE  ProcessesOK'
<1> USE DEF Parameters, TypeOK, ProcessesOK, Phase, Creating, Restoring, Putting, Removing,
            Requests, At, Goto, Ends, Forget, Unlock, locks, local
<1>1. ASSUME NEW p \in Proc, Begin(p) \/ LockSnapshots(p) PROVE ProcessesOK'
  BY <1>1, Blanks DEF Begin, LockSnapshots, NameInv
<1>2. ASSUME NEW p \in Proc, ChooseKind(p) PROVE ProcessesOK'
  <2>1. \A k \in {"cold", "warm"} : [cap[p] EXCEPT !.kind = k] \in Snap
    BY SnapFields
  <2>2. cap' \in [Proc -> Snap]
    BY <1>2, <2>1, Blanks DEF ChooseKind
  <2> QED
    BY <1>2, <2>2, Blanks DEF ChooseKind
<1>3. ASSUME NEW p \in Proc, LockCold(p) PROVE ProcessesOK'
  BY <1>3, Blanks DEF LockCold
<1>4. ASSUME NEW p \in Proc, CopySpec(p) PROVE ProcessesOK'
  <2>1. [cap[p] EXCEPT !.spec = spec, !.conf = conf] \in Snap
    BY SnapFields DEF FilesOK
  <2>2. cap' \in [Proc -> Snap]
    BY <1>4, <2>1, Blanks DEF CopySpec
  <2> QED
    BY <1>4, <2>2, Blanks DEF CopySpec
<1>5. ASSUME NEW p \in Proc, CopyCold(p) PROVE ProcessesOK'
  BY <1>5, SnapFields DEF CopyCold, MachineOK
<1>6. ASSUME NEW p \in Proc, CaptureMemory(p) PROVE ProcessesOK'
  <2>1. [cap[p] EXCEPT !.mem = mem] \in Snap
    BY SnapFields DEF MachineOK
  <2>2. cap' \in [Proc -> Snap]
    BY <1>6, <2>1, Blanks DEF CaptureMemory
  <2> QED
    BY <1>6, <2>2 DEF CaptureMemory
<1>7. ASSUME NEW p \in Proc, CopyBegins(p) PROVE ProcessesOK'
  BY <1>7, SnapFields DEF CopyBegins, MachineOK
<1>8. ASSUME NEW p \in Proc, CopyEnds(p) PROVE ProcessesOK'
  <2>1. [cap[p] EXCEPT !.torn = cap[p].disk # disk] \in Snap
    BY SnapFields
  <2>2. cap' \in [Proc -> Snap]
    BY <1>8, <2>1, Blanks DEF CopyEnds
  <2> QED
    BY <1>8, <2>2 DEF CopyEnds
<1>9. ASSUME NEW p \in Proc, Pause(p) PROVE ProcessesOK'
  BY <1>9, Blanks DEF Pause
<1>10. ASSUME NEW p \in Proc, Resume(p) PROVE ProcessesOK'
  BY <1>10, Blanks DEF Resume
<1>11. ASSUME NEW p \in Proc, ReadForMark(p) PROVE ProcessesOK'
  BY <1>11 DEF ReadForMark, FilesOK, Reading
<1>12. ASSUME NEW p \in Proc, Mark(p) PROVE ProcessesOK'
  BY <1>12, Blanks DEF Mark
<1>13. ASSUME NEW p \in Proc, Publish(p) PROVE ProcessesOK'
  BY <1>13, Blanks DEF Publish
<1>14. ASSUME NEW p \in Proc, RestoreChecks(p) PROVE ProcessesOK'
  BY <1>14, Blanks DEF RestoreChecks
<1>15. ASSUME NEW p \in Proc, RestoreBegins(p) PROVE ProcessesOK'
  BY <1>15, Blanks DEF RestoreBegins
<1>16. ASSUME NEW p \in Proc, PutDisk(p) \/ PutSpec(p) \/ PutConf(p)
     PROVE ProcessesOK'
  BY <1>16 DEF PutDisk, PutSpec, PutConf
<1>17. ASSUME NEW p \in Proc, PutState(p) \/ PutMarker(p) PROVE ProcessesOK'
  BY <1>17, Blanks DEF PutState, PutMarker
<1>18. ASSUME NEW p \in Proc, Unpublish(p) \/ Clear(p) PROVE ProcessesOK'
  BY <1>18, Blanks DEF Unpublish, Clear
<1>19. ASSUME NEW p \in Proc, Start(p) PROVE ProcessesOK'
  BY <1>19, Blanks DEF Start
<1>20. ASSUME NEW p \in Proc, Stop(p) PROVE ProcessesOK'
  BY <1>20, Blanks DEF Stop
<1>21. ASSUME NEW p \in Proc, Killed(p) PROVE ProcessesOK'
  BY <1>21, Blanks DEF Killed
<1>22. CASE LaunchBoot \/ LaunchRestore \/ LaunchResume \/ DropMarker \/ ShimWrites \/
       LaunchFails \/ GuestWrites \/ Edit \/ ShimDies
  BY <1>22 DEF LaunchBoot, LaunchRestore, LaunchResume, DropMarker, ShimWrites,
               LaunchFails, GuestWrites, Edit, ShimDies
<1>23. CASE UNCHANGED vars
  BY <1>23 DEF vars
<1> QED
  BY <1>1, <1>2, <1>3, <1>4, <1>5, <1>6, <1>7, <1>8, <1>9, <1>10, <1>11, <1>12, <1>13,
     <1>14, <1>15, <1>16, <1>17, <1>18, <1>19, <1>20, <1>21, <1>22,
     <1>23 DEF Next, Create, Restore, Launch

-----------------------------------------------------------------------------
(* What a create has captured, step by step.                               *)

\* What read_live_state and snapshot_kind_for decide.
LEMMA AfterChooseKind ==
  ASSUME TypeOK, NEW p \in Proc, ChooseKind(p)
  PROVE
    /\ \A q \in Proc \ {p} : cap'[q] = cap[q] /\ pc'[q] = pc[q]
    /\ pc'[p] \in {"copy_spec", "cold_lock", "idle"}
    /\ pc'[p] = "copy_spec" => cap'[p].kind = "warm"
    /\ pc'[p] = "cold_lock" => cap'[p].kind = "cold"
  BY DEF ChooseKind, TypeOK, ProcessesOK, Snap, Goto, Ends, Forget

\* The kind decides what follows the copy of the specification.
LEMMA AfterCopySpec ==
  ASSUME TypeOK, NEW p \in Proc, CopySpec(p)
  PROVE
    /\ \A q \in Proc \ {p} : cap'[q] = cap[q] /\ pc'[q] = pc[q]
    /\ pc'[p] = (IF cap[p].kind = "warm" THEN "pause" ELSE "cold_disk") \/ pc'[p] = "idle"
    /\ pc'[p] # "idle" => cap'[p].kind = cap[p].kind
  BY DEF CopySpec, TypeOK, ProcessesOK, Snap, Goto, Ends, Forget

\* A cold capture is the disk as it is.
LEMMA AfterCopyCold ==
  ASSUME TypeOK, NEW p \in Proc, CopyCold(p)
  PROVE
    /\ \A q \in Proc \ {p} : cap'[q] = cap[q] /\ pc'[q] = pc[q]
    /\ pc'[p] = "publish" /\ cap'[p].kind = cap[p].kind
    /\ cap'[p].disk = disk /\ cap'[p].mem = disk /\ (vm = "none" => ~cap'[p].torn)
  BY DEF CopyCold, TypeOK, ProcessesOK, Snap, Goto

\* vm.snapshot writes the memory of a paused VM.
LEMMA AfterCaptureMemory ==
  ASSUME TypeOK, NEW p \in Proc, CaptureMemory(p)
  PROVE
    /\ \A q \in Proc \ {p} : cap'[q] = cap[q] /\ pc'[q] = pc[q]
    /\ cap'[p].kind = cap[p].kind
    /\ pc'[p] = "resume_failed" \/ (pc'[p] = "copy" /\ vm = "paused" /\ cap'[p].mem = mem)
  BY DEF CaptureMemory, TypeOK, ProcessesOK, Snap, Goto

\* The copy of the disk begins with the disk as it is.
LEMMA AfterCopyBegins ==
  ASSUME TypeOK, NEW p \in Proc, CopyBegins(p)
  PROVE
    /\ \A q \in Proc \ {p} : cap'[q] = cap[q] /\ pc'[q] = pc[q]
    /\ pc'[p] = "copying" /\ cap'[p].kind = cap[p].kind
    /\ cap'[p].mem = cap[p].mem /\ cap'[p].disk = disk
  BY DEF CopyBegins, TypeOK, ProcessesOK, Snap, Goto

\* It is torn unless it ends with the same.
LEMMA AfterCopyEnds ==
  ASSUME TypeOK, NEW p \in Proc, CopyEnds(p)
  PROVE
    /\ \A q \in Proc \ {p} : cap'[q] = cap[q] /\ pc'[q] = pc[q]
    /\ cap'[p].kind = cap[p].kind /\ cap'[p].mem = cap[p].mem /\ cap'[p].disk = cap[p].disk
    /\ \/ pc'[p] = "resume_failed"
       \/ pc'[p] = "resume" /\ cap'[p].torn = (cap[p].disk # disk)
  BY DEF CopyEnds, TypeOK, ProcessesOK, Snap, Goto

-----------------------------------------------------------------------------
(* The invariant is preserved.                                             *)

\* The locks are held where the invariant says.
LEMMA LockStep ==
  ASSUME Parameters, TypeOK, NameInv, LockInv, [Next]_vars
  PROVE  LockInv'
<1> USE DEF Parameters, TypeOK, ProcessesOK, LockInv, Active, Cold, Requests, Creating,
            Restoring, Putting, Removing, At, Goto, Ends, Forget, Unlock, files, doc,
            state, locks, guest, super, local
<1>1. ASSUME NEW p \in Proc, Begin(p) PROVE LockInv'
  BY <1>1 DEF Begin
<1>2. ASSUME NEW p \in Proc, LockSnapshots(p) PROVE LockInv'
  BY <1>2 DEF LockSnapshots, NameInv
<1>3. ASSUME NEW p \in Proc, ChooseKind(p) PROVE LockInv'
  BY <1>3, AfterChooseKind DEF ChooseKind
<1>4. ASSUME NEW p \in Proc, LockCold(p) PROVE LockInv'
  BY <1>4 DEF LockCold
<1>5. ASSUME NEW p \in Proc, CopySpec(p) PROVE LockInv'
  BY <1>5, AfterCopySpec DEF CopySpec, NameInv
<1>6. ASSUME NEW p \in Proc, CopyCold(p) PROVE LockInv'
  <2>1. pc[p] = "cold_disk" /\ UNCHANGED <<files, locks, shim, vm, op, arg, seen>>
    BY <1>6 DEF CopyCold
  <2> QED
    BY <1>6, <2>1, AfterCopyCold DEF NameInv
<1>7. ASSUME NEW p \in Proc, Pause(p) PROVE LockInv'
  BY <1>7 DEF Pause
<1>8. ASSUME NEW p \in Proc, CaptureMemory(p) PROVE LockInv'
  BY <1>8, AfterCaptureMemory DEF CaptureMemory
<1>9. ASSUME NEW p \in Proc, CopyBegins(p) PROVE LockInv'
  BY <1>9, AfterCopyBegins DEF CopyBegins
<1>10. ASSUME NEW p \in Proc, CopyEnds(p) PROVE LockInv'
  BY <1>10, AfterCopyEnds DEF CopyEnds
<1>11. ASSUME NEW p \in Proc, Resume(p) PROVE LockInv'
  <2>1. CASE pc'[p] = "idle"
    BY <1>11, <2>1 DEF Resume
  <2>2. CASE pc'[p] # "idle"
    BY <1>11, <2>2 DEF Resume, NameInv
  <2> QED
    BY <2>1, <2>2
<1>12. ASSUME NEW p \in Proc, ReadForMark(p) PROVE LockInv'
  BY <1>12 DEF ReadForMark
<1>13. ASSUME NEW p \in Proc, Mark(p) PROVE LockInv'
  BY <1>13 DEF Mark
<1>14. ASSUME NEW p \in Proc, Publish(p) PROVE LockInv'
  BY <1>14 DEF Publish
<1>15. ASSUME NEW p \in Proc, RestoreChecks(p) PROVE LockInv'
  BY <1>15 DEF RestoreChecks
<1>16. ASSUME NEW p \in Proc, RestoreBegins(p) PROVE LockInv'
  BY <1>16 DEF RestoreBegins
<1>17. ASSUME NEW p \in Proc, PutDisk(p) PROVE LockInv'
  BY <1>17 DEF PutDisk
<1>18. ASSUME NEW p \in Proc, PutSpec(p) PROVE LockInv'
  BY <1>18 DEF PutSpec
<1>19. ASSUME NEW p \in Proc, PutConf(p) PROVE LockInv'
  BY <1>19 DEF PutConf
<1>20. ASSUME NEW p \in Proc, PutState(p) PROVE LockInv'
  BY <1>20 DEF PutState
<1>21. ASSUME NEW p \in Proc, PutMarker(p) PROVE LockInv'
  BY <1>21 DEF PutMarker
<1>22. ASSUME NEW p \in Proc, Unpublish(p) PROVE LockInv'
  BY <1>22 DEF Unpublish
<1>23. ASSUME NEW p \in Proc, Clear(p) PROVE LockInv'
  BY <1>23 DEF Clear
<1>24. ASSUME NEW p \in Proc, Start(p) PROVE LockInv'
  BY <1>24 DEF Start
<1>25. ASSUME NEW p \in Proc, Stop(p) PROVE LockInv'
  BY <1>25 DEF Stop
<1>26. ASSUME NEW p \in Proc, Killed(p) PROVE LockInv'
  BY <1>26 DEF Killed
<1>27. CASE LaunchBoot \/ LaunchRestore \/ LaunchResume \/ DropMarker \/ ShimWrites
  BY <1>27 DEF LaunchBoot, LaunchRestore, LaunchResume, DropMarker, ShimWrites
<1>28. CASE LaunchFails \/ ShimDies
  BY <1>28 DEF LaunchFails, ShimDies
<1>29. CASE GuestWrites \/ Edit
  BY <1>29 DEF GuestWrites, Edit
<1>30. CASE UNCHANGED vars
  BY <1>30 DEF vars
<1> QED
  BY <1>1, <1>2, <1>3, <1>4, <1>5, <1>6, <1>7, <1>8, <1>9, <1>10, <1>11, <1>12, <1>13,
     <1>14, <1>15, <1>16, <1>17, <1>18, <1>19, <1>20, <1>21, <1>22, <1>23, <1>24, <1>25,
     <1>26, <1>27, <1>28, <1>29, <1>30 DEF Next, Create, Restore, Launch

\* The names a create makes stay free, those a restore reads stay published.
LEMMA NameStep ==
  ASSUME Parameters, TypeOK, NameInv, LockInv, [Next]_vars
  PROVE  NameInv'
<1> USE DEF Parameters, TypeOK, ProcessesOK, NameInv, Published, Requests, Creating,
            Restoring, Putting, Removing, At, Goto, Ends, Forget, Unlock, files, doc,
            state, locks, guest, super, local
<1>1. ASSUME NEW p \in Proc, Begin(p) PROVE NameInv'
  BY <1>1 DEF Begin
<1>2. ASSUME NEW p \in Proc, LockSnapshots(p) PROVE NameInv'
  BY <1>2 DEF LockSnapshots
<1>3. ASSUME NEW p \in Proc, ChooseKind(p) PROVE NameInv'
  BY <1>3, AfterChooseKind DEF ChooseKind
<1>4. ASSUME NEW p \in Proc, LockCold(p) PROVE NameInv'
  BY <1>4 DEF LockCold
<1>5. ASSUME NEW p \in Proc, CopySpec(p) PROVE NameInv'
  BY <1>5, AfterCopySpec DEF CopySpec
<1>6. ASSUME NEW p \in Proc, CopyCold(p) PROVE NameInv'
  <2>1. pc[p] = "cold_disk" /\ UNCHANGED <<files, locks, shim, vm, op, arg, seen>>
    BY <1>6 DEF CopyCold
  <2> QED
    BY <1>6, <2>1, AfterCopyCold
<1>7. ASSUME NEW p \in Proc, Pause(p) PROVE NameInv'
  BY <1>7 DEF Pause
<1>8. ASSUME NEW p \in Proc, CaptureMemory(p) PROVE NameInv'
  BY <1>8, AfterCaptureMemory DEF CaptureMemory
<1>9. ASSUME NEW p \in Proc, CopyBegins(p) PROVE NameInv'
  BY <1>9, AfterCopyBegins DEF CopyBegins
<1>10. ASSUME NEW p \in Proc, CopyEnds(p) PROVE NameInv'
  BY <1>10, AfterCopyEnds DEF CopyEnds
<1>11. ASSUME NEW p \in Proc, Resume(p) PROVE NameInv'
  BY <1>11 DEF Resume
<1>12. ASSUME NEW p \in Proc, ReadForMark(p) PROVE NameInv'
  BY <1>12 DEF ReadForMark, FilesOK
<1>13. ASSUME NEW p \in Proc, Mark(p) PROVE NameInv'
  BY <1>13 DEF Mark
<1>14. ASSUME NEW p \in Proc, Publish(p) PROVE NameInv'
  BY <1>14 DEF Publish, FilesOK, LockInv
<1>15. ASSUME NEW p \in Proc, RestoreChecks(p) PROVE NameInv'
  BY <1>15 DEF RestoreChecks
<1>16. ASSUME NEW p \in Proc, RestoreBegins(p) PROVE NameInv'
  BY <1>16 DEF RestoreBegins
<1>17. ASSUME NEW p \in Proc, PutDisk(p) PROVE NameInv'
  BY <1>17 DEF PutDisk
<1>18. ASSUME NEW p \in Proc, PutSpec(p) PROVE NameInv'
  BY <1>18 DEF PutSpec
<1>19. ASSUME NEW p \in Proc, PutConf(p) PROVE NameInv'
  BY <1>19 DEF PutConf
<1>20. ASSUME NEW p \in Proc, PutState(p) PROVE NameInv'
  BY <1>20 DEF PutState
<1>21. ASSUME NEW p \in Proc, PutMarker(p) PROVE NameInv'
  BY <1>21 DEF PutMarker
<1>22. ASSUME NEW p \in Proc, Unpublish(p) PROVE NameInv'
  BY <1>22 DEF Unpublish, FilesOK, LockInv, NoSnap
<1>23. ASSUME NEW p \in Proc, Clear(p) PROVE NameInv'
  BY <1>23 DEF Clear
<1>24. ASSUME NEW p \in Proc, Start(p) PROVE NameInv'
  BY <1>24 DEF Start
<1>25. ASSUME NEW p \in Proc, Stop(p) PROVE NameInv'
  BY <1>25 DEF Stop
<1>26. ASSUME NEW p \in Proc, Killed(p) PROVE NameInv'
  BY <1>26 DEF Killed
<1>27. CASE LaunchBoot \/ LaunchRestore \/ LaunchResume \/ DropMarker \/ ShimWrites
  BY <1>27 DEF LaunchBoot, LaunchRestore, LaunchResume, DropMarker, ShimWrites
<1>28. CASE LaunchFails \/ ShimDies
  BY <1>28 DEF LaunchFails, ShimDies
<1>29. CASE GuestWrites \/ Edit
  BY <1>29 DEF GuestWrites, Edit
<1>30. CASE UNCHANGED vars
  BY <1>30 DEF vars
<1> QED
  BY <1>1, <1>2, <1>3, <1>4, <1>5, <1>6, <1>7, <1>8, <1>9, <1>10, <1>11, <1>12, <1>13,
     <1>14, <1>15, <1>16, <1>17, <1>18, <1>19, <1>20, <1>21, <1>22, <1>23, <1>24, <1>25,
     <1>26, <1>27, <1>28, <1>29, <1>30 DEF Next, Create, Restore, Launch

\* The marker stays with its launch and its disk.
LEMMA MarkerStep ==
  ASSUME Parameters, TypeOK, NameInv, LockInv, MarkerInv, [Next]_vars
  PROVE  MarkerInv'
<1> USE DEF Parameters, TypeOK, ProcessesOK, MarkerInv, Active, Warm, Creating, Restoring,
            Putting, Removing, At, Goto, Ends, Forget, Unlock, files, doc, state, locks,
            guest, super, local
<1>1. ASSUME NEW p \in Proc, Begin(p) PROVE MarkerInv'
  BY <1>1 DEF Begin
<1>2. ASSUME NEW p \in Proc, LockSnapshots(p) PROVE MarkerInv'
  BY <1>2 DEF LockSnapshots, NameInv, LockInv, Requests
<1>3. ASSUME NEW p \in Proc, ChooseKind(p) PROVE MarkerInv'
  BY <1>3, AfterChooseKind DEF ChooseKind
<1>4. ASSUME NEW p \in Proc, LockCold(p) PROVE MarkerInv'
  BY <1>4 DEF LockCold, NameInv
<1>5. ASSUME NEW p \in Proc, CopySpec(p) PROVE MarkerInv'
  BY <1>5, AfterCopySpec DEF CopySpec, NameInv
<1>6. ASSUME NEW p \in Proc, CopyCold(p) PROVE MarkerInv'
  <2>1. pc[p] = "cold_disk" /\ UNCHANGED <<files, guest, super, arg, cut>>
    BY <1>6 DEF CopyCold
  <2> QED
    BY <1>6, <2>1, AfterCopyCold DEF NameInv
<1>7. ASSUME NEW p \in Proc, Pause(p) PROVE MarkerInv'
  BY <1>7 DEF Pause
<1>8. ASSUME NEW p \in Proc, CaptureMemory(p) PROVE MarkerInv'
  BY <1>8, AfterCaptureMemory DEF CaptureMemory
<1>9. ASSUME NEW p \in Proc, CopyBegins(p) PROVE MarkerInv'
  BY <1>9, AfterCopyBegins DEF CopyBegins
<1>10. ASSUME NEW p \in Proc, CopyEnds(p) PROVE MarkerInv'
  BY <1>10, AfterCopyEnds DEF CopyEnds
<1>11. ASSUME NEW p \in Proc, Resume(p) PROVE MarkerInv'
  BY <1>11 DEF Resume, NameInv
<1>12. ASSUME NEW p \in Proc, ReadForMark(p) \/ Mark(p) PROVE MarkerInv'
  BY <1>12 DEF ReadForMark, Mark
<1>13. ASSUME NEW p \in Proc, Publish(p) PROVE MarkerInv'
  BY <1>13 DEF Publish, LockInv
<1>14. ASSUME NEW p \in Proc, RestoreChecks(p) PROVE MarkerInv'
  BY <1>14 DEF RestoreChecks
<1>15. ASSUME NEW p \in Proc, RestoreBegins(p) PROVE MarkerInv'
  BY <1>15 DEF RestoreBegins, LockInv
<1>16. ASSUME NEW p \in Proc, PutDisk(p) PROVE MarkerInv'
  BY <1>16 DEF PutDisk, LockInv
<1>17. ASSUME NEW p \in Proc, PutSpec(p) \/ PutConf(p) PROVE MarkerInv'
  BY <1>17 DEF PutSpec, PutConf
<1>18. ASSUME NEW p \in Proc, PutState(p) PROVE MarkerInv'
  BY <1>18 DEF PutState
<1>19. ASSUME NEW p \in Proc, PutMarker(p) PROVE MarkerInv'
  BY <1>19 DEF PutMarker, LockInv
<1>20. ASSUME NEW p \in Proc, Unpublish(p) PROVE MarkerInv'
  BY <1>20 DEF Unpublish, LockInv
<1>21. ASSUME NEW p \in Proc, Clear(p) PROVE MarkerInv'
  BY <1>21 DEF Clear
<1>22. ASSUME NEW p \in Proc, Start(p) PROVE MarkerInv'
  BY <1>22 DEF Start, LockInv
<1>23. ASSUME NEW p \in Proc, Stop(p) PROVE MarkerInv'
  BY <1>23 DEF Stop
<1>24. ASSUME NEW p \in Proc, Killed(p) PROVE MarkerInv'
  BY <1>24 DEF Killed
<1>25. CASE LaunchBoot \/ LaunchRestore \/ LaunchResume
  BY <1>25 DEF LaunchBoot, LaunchRestore, LaunchResume
<1>26. CASE DropMarker \/ ShimWrites
  BY <1>26 DEF DropMarker, ShimWrites
<1>27. CASE LaunchFails \/ ShimDies
  BY <1>27 DEF LaunchFails, ShimDies
<1>28. CASE GuestWrites
  BY <1>28 DEF GuestWrites, LockInv
<1>29. CASE Edit
  BY <1>29 DEF Edit
<1>30. CASE UNCHANGED vars
  BY <1>30 DEF vars
<1> QED
  BY <1>1, <1>2, <1>3, <1>4, <1>5, <1>6, <1>7, <1>8, <1>9, <1>10, <1>11, <1>12, <1>13,
     <1>14, <1>15, <1>16, <1>17, <1>18, <1>19, <1>20, <1>21, <1>22, <1>23, <1>24, <1>25,
     <1>26, <1>27, <1>28, <1>29, <1>30 DEF Next, Create, Restore, Launch

\* A VM never lacks a disk.
LEMMA DiskStep ==
  ASSUME Parameters, TypeOK, NameInv, LockInv, DiskInv, CaptureInv, [Next]_vars
  PROVE  DiskInv'
<1> USE DEF Parameters, TypeOK, MachineOK, DiskInv, Active, files, guest, super
<1>1. ASSUME NEW p \in Proc, Begin(p) \/ LockSnapshots(p) \/ ChooseKind(p) \/
       LockCold(p) \/ CopySpec(p) \/ CopyCold(p) \/ CaptureMemory(p) \/ CopyBegins(p) \/
       CopyEnds(p) PROVE DiskInv'
  BY <1>1 DEF Begin, LockSnapshots, ChooseKind, LockCold, CopySpec, CopyCold,
              CaptureMemory, CopyBegins, CopyEnds
<1>2. ASSUME NEW p \in Proc, Pause(p) \/ Resume(p) \/ Stop(p) PROVE DiskInv'
  BY <1>2 DEF Pause, Resume, Stop
<1>3. ASSUME NEW p \in Proc, ReadForMark(p) \/ Mark(p) \/ RestoreChecks(p) \/
       RestoreBegins(p) \/ PutSpec(p) \/ PutConf(p) \/ PutState(p) \/ PutMarker(p) \/
       Clear(p) \/ Killed(p) PROVE DiskInv'
  BY <1>3 DEF ReadForMark, Mark, RestoreChecks, RestoreBegins, PutSpec, PutConf, PutState,
              PutMarker, Clear, Killed
<1>4. ASSUME NEW p \in Proc, Publish(p) PROVE DiskInv'
  BY <1>4 DEF Publish, CaptureInv, At, NameInv, FilesOK
<1>5. ASSUME NEW p \in Proc, PutDisk(p) PROVE DiskInv'
  BY <1>5 DEF PutDisk, LockInv, At, Putting
<1>6. ASSUME NEW p \in Proc, Unpublish(p) PROVE DiskInv'
  BY <1>6 DEF Unpublish, FilesOK, NoSnap
<1>7. ASSUME NEW p \in Proc, Start(p) PROVE DiskInv'
  BY <1>7 DEF Start
<1>8. CASE LaunchBoot \/ LaunchRestore \/ LaunchResume \/ DropMarker \/ ShimWrites \/
       LaunchFails
  BY <1>8 DEF LaunchBoot, LaunchRestore, LaunchResume, DropMarker, ShimWrites, LaunchFails
<1>9. CASE GuestWrites \/ Edit \/ ShimDies
  BY <1>9 DEF GuestWrites, Edit, ShimDies
<1>10. CASE UNCHANGED vars
  BY <1>10 DEF vars
<1> QED
  BY <1>1, <1>2, <1>3, <1>4, <1>5, <1>6, <1>7, <1>8, <1>9,
     <1>10 DEF Next, Create, Restore, Launch

\* A create holds what belongs together, or fails at vm.resume.
LEMMA CaptureStep ==
  ASSUME Parameters, TypeOK, NameInv, LockInv, MarkerInv, DiskInv, CaptureInv, Coherent, [Next]_vars
  PROVE  CaptureInv'
<1> USE DEF Parameters, TypeOK, ProcessesOK, CaptureInv, At, Goto, Ends, Forget, Unlock,
            files, doc, state, locks, guest, super, local
<1>1. ASSUME NEW p \in Proc, Begin(p) PROVE CaptureInv'
  BY <1>1 DEF Begin
<1>2. ASSUME NEW p \in Proc, LockSnapshots(p) PROVE CaptureInv'
  BY <1>2 DEF LockSnapshots, NameInv, Requests
<1>3. ASSUME NEW p \in Proc, ChooseKind(p) PROVE CaptureInv'
  BY <1>3, AfterChooseKind DEF ChooseKind
<1>4. ASSUME NEW p \in Proc, LockCold(p) PROVE CaptureInv'
  BY <1>4 DEF LockCold
<1>5. ASSUME NEW p \in Proc, CopySpec(p) PROVE CaptureInv'
  BY <1>5, AfterCopySpec DEF CopySpec
<1>6. ASSUME NEW p \in Proc, CopyCold(p) PROVE CaptureInv'
  <2>1. pc[p] = "cold_disk" /\ UNCHANGED <<guest, cut>>
    BY <1>6 DEF CopyCold
  <2>2. vm = "none" /\ cap[p].kind = "cold"
    BY <2>1 DEF LockInv, NameInv, Cold, Active
  <2> QED
    BY <1>6, <2>1, <2>2, AfterCopyCold
<1>7. ASSUME NEW p \in Proc, Pause(p) PROVE CaptureInv'
  BY <1>7 DEF Pause, LockInv, Creating
<1>8. ASSUME NEW p \in Proc, CaptureMemory(p) PROVE CaptureInv'
  BY <1>8, AfterCaptureMemory DEF CaptureMemory
<1>9. ASSUME NEW p \in Proc, CopyBegins(p) PROVE CaptureInv'
  BY <1>9, AfterCopyBegins DEF CopyBegins
<1>10. ASSUME NEW p \in Proc, CopyEnds(p) PROVE CaptureInv'
  <2>1. pc[p] = "copying" /\ UNCHANGED <<guest, cut>>
    BY <1>10 DEF CopyEnds
  <2>2. /\ \A q \in Proc \ {p} : cap'[q] = cap[q] /\ pc'[q] = pc[q]
        /\ cap'[p].mem = cap[p].mem /\ cap'[p].disk = cap[p].disk
        /\ pc'[p] \in {"resume", "resume_failed"}
    BY <1>10, AfterCopyEnds
  <2>3. pc'[p] = "resume" /\ vm = "paused" => ~cap'[p].torn
    BY <1>10, <2>1, AfterCopyEnds
  <2> QED
    BY <1>10, <2>1, <2>2, <2>3
<1>11. ASSUME NEW p \in Proc, Resume(p) PROVE CaptureInv'
  <2>1. CASE pc'[p] = "publish"
    <3>1. pc[p] = "resume" /\ vm = "paused" /\ UNCHANGED <<cap, cut, mem, disk>>
      BY <1>11, <2>1 DEF Resume, NameInv
    <3>2. ~cap[p].torn /\ (cut \/ cap[p].mem = cap[p].disk) /\ cap[p].disk > 0
      BY <3>1 DEF Coherent, MemoryFitsDisk, DiskInv, Active
    <3>3. \A q \in Proc \ {p} : pc'[q] = pc[q] /\ pc'[q] \notin {"copy", "copying", "resume"}
      BY <1>11, <3>1 DEF Resume, LockInv, Creating
    <3> QED
      BY <2>1, <3>1, <3>2, <3>3
  <2>2. CASE pc'[p] # "publish"
    <3>1. \A q \in Proc \ {p} : pc'[q] = pc[q] /\ pc'[q] \notin {"copy", "copying", "resume"}
      BY <1>11 DEF Resume, LockInv, Creating
    <3>2. pc'[p] \in {"idle", "degrade"} /\ \A q \in Proc \ {p} : cap'[q] = cap[q]
      BY <1>11, <2>2 DEF Resume
    <3> QED
      BY <1>11, <3>1, <3>2 DEF Resume
  <2> QED
    BY <2>1, <2>2
<1>12. ASSUME NEW p \in Proc, ReadForMark(p) \/ Mark(p) PROVE CaptureInv'
  BY <1>12 DEF ReadForMark, Mark
<1>13. ASSUME NEW p \in Proc, Publish(p) PROVE CaptureInv'
  BY <1>13 DEF Publish
<1>14. ASSUME NEW p \in Proc, RestoreChecks(p) \/ RestoreBegins(p)
     PROVE CaptureInv'
  BY <1>14 DEF RestoreChecks, RestoreBegins
<1>15. ASSUME NEW p \in Proc, PutDisk(p) PROVE CaptureInv'
  BY <1>15 DEF PutDisk, LockInv, Active, Putting
<1>16. ASSUME NEW p \in Proc, PutSpec(p) \/ PutConf(p) PROVE CaptureInv'
  BY <1>16 DEF PutSpec, PutConf
<1>17. ASSUME NEW p \in Proc, PutState(p) \/ PutMarker(p) PROVE CaptureInv'
  BY <1>17 DEF PutState, PutMarker
<1>18. ASSUME NEW p \in Proc, Unpublish(p) \/ Clear(p) PROVE CaptureInv'
  BY <1>18 DEF Unpublish, Clear
<1>19. ASSUME NEW p \in Proc, Start(p) PROVE CaptureInv'
  BY <1>19 DEF Start, Active
<1>20. ASSUME NEW p \in Proc, Stop(p) PROVE CaptureInv'
  BY <1>20 DEF Stop
<1>21. ASSUME NEW p \in Proc, Killed(p) PROVE CaptureInv'
  BY <1>21 DEF Killed
<1>22. CASE LaunchBoot
  BY <1>22 DEF LaunchBoot
<1>23. CASE LaunchRestore
  BY <1>23 DEF LaunchRestore, MarkerInv, Warm
<1>24. CASE LaunchResume \/ DropMarker \/ ShimWrites
  BY <1>24 DEF LaunchResume, DropMarker, ShimWrites
<1>25. CASE LaunchFails \/ ShimDies
  BY <1>25 DEF LaunchFails, ShimDies
<1>26. CASE GuestWrites
  BY <1>26 DEF GuestWrites
<1>27. CASE Edit
  BY <1>27 DEF Edit
<1>28. CASE UNCHANGED vars
  BY <1>28 DEF vars
<1> QED
  BY <1>1, <1>2, <1>3, <1>4, <1>5, <1>6, <1>7, <1>8, <1>9, <1>10, <1>11, <1>12, <1>13,
     <1>14, <1>15, <1>16, <1>17, <1>18, <1>19, <1>20, <1>21, <1>22, <1>23, <1>24, <1>25,
     <1>26, <1>27, <1>28 DEF Next, Create, Restore, Launch

\* What is published, pending and running fits together.
LEMMA CoherentStep ==
  ASSUME Parameters, TypeOK, NameInv, LockInv, MarkerInv, DiskInv, CaptureInv, Coherent, [Next]_vars
  PROVE  Coherent'
<1> USE DEF Parameters, TypeOK, Coherent, SnapshotsCoherent, MarkerHasSnapshot,
            MarkerFitsDisk, MemoryFitsDisk, Published, At, files, doc, guest, super
<1>1. ASSUME NEW p \in Proc, Begin(p) \/ LockSnapshots(p) \/ ChooseKind(p) \/
       LockCold(p) \/ CopySpec(p) \/ CopyCold(p) \/ CaptureMemory(p) \/ CopyBegins(p) \/
       CopyEnds(p) PROVE Coherent'
  BY <1>1 DEF Begin, LockSnapshots, ChooseKind, LockCold, CopySpec, CopyCold,
              CaptureMemory, CopyBegins, CopyEnds
<1>2. ASSUME NEW p \in Proc, ReadForMark(p) \/ Mark(p) \/ RestoreChecks(p) \/
       PutState(p) \/ Clear(p) \/ Killed(p) PROVE Coherent'
  BY <1>2 DEF ReadForMark, Mark, RestoreChecks, PutState, Clear, Killed
<1>3. ASSUME NEW p \in Proc, Pause(p) \/ Resume(p) \/ Stop(p) PROVE Coherent'
  BY <1>3 DEF Pause, Resume, Stop, MarkerInv, LockInv
<1>4. ASSUME NEW p \in Proc, Publish(p) PROVE Coherent'
  BY <1>4 DEF Publish, CaptureInv, NameInv, FilesOK, Creating
<1>5. ASSUME NEW p \in Proc, RestoreBegins(p) PROVE Coherent'
  BY <1>5 DEF RestoreBegins
<1>6. ASSUME NEW p \in Proc, PutDisk(p) PROVE Coherent'
  BY <1>6 DEF PutDisk, LockInv, Putting, Active, MarkerInv
<1>7. ASSUME NEW p \in Proc, PutSpec(p) \/ PutConf(p) PROVE Coherent'
  BY <1>7 DEF PutSpec, PutConf, LockInv, Putting, Active
<1>8. ASSUME NEW p \in Proc, PutMarker(p) PROVE Coherent'
  BY <1>8 DEF PutMarker, LockInv, MarkerInv, NameInv, Putting, Active
<1>9. ASSUME NEW p \in Proc, Unpublish(p) PROVE Coherent'
  BY <1>9 DEF Unpublish, NameInv, FilesOK, NoSnap
<1>10. ASSUME NEW p \in Proc, Start(p) PROVE Coherent'
  BY <1>10 DEF Start, DiskInv, Active, FilesOK
<1>11. CASE LaunchBoot
  BY <1>11 DEF LaunchBoot, MarkerInv
<1>12. CASE LaunchRestore
  BY <1>12 DEF LaunchRestore, FilesOK
<1>13. CASE LaunchResume \/ DropMarker \/ ShimWrites
  BY <1>13 DEF LaunchResume, DropMarker, ShimWrites
<1>14. CASE LaunchFails \/ ShimDies
  BY <1>14 DEF LaunchFails, ShimDies
<1>15. CASE GuestWrites
  BY <1>15 DEF GuestWrites, MarkerInv
<1>16. CASE Edit
  BY <1>16 DEF Edit
<1>17. CASE UNCHANGED vars
  BY <1>17 DEF vars
<1> QED
  BY <1>1, <1>2, <1>3, <1>4, <1>5, <1>6, <1>7, <1>8, <1>9, <1>10, <1>11, <1>12, <1>13,
     <1>14, <1>15, <1>16, <1>17 DEF Next, Create, Restore, Launch

-----------------------------------------------------------------------------
(* The theorem.                                                            *)

\* Every initial state satisfies the inductive invariant.
LEMMA InitInv == Parameters /\ Init => IInv
<1> SUFFICES ASSUME Parameters, Init PROVE IInv
  OBVIOUS
<1> USE DEF Init
<1>1. TypeOK
  BY Blanks DEF TypeOK, FilesOK, MachineOK, ProcessesOK, Status, Phase
<1>2. LockInv /\ NameInv
  BY DEF LockInv, NameInv, Cold, Creating, Restoring, Putting, Removing
<1>3. MarkerInv /\ DiskInv /\ CaptureInv
  BY DEF MarkerInv, DiskInv, CaptureInv, Warm, Putting, Active, NoSnap
<1>4. Coherent
  BY DEF Coherent, SnapshotsCoherent, MarkerHasSnapshot, MarkerFitsDisk, MemoryFitsDisk,
         Published, NoSnap
<1> QED
  BY <1>1, <1>2, <1>3, <1>4 DEF IInv

\* Every variable keeps its type, and whatever create, restore, rm, start, stop and
\* the shim do at once and wherever they are interrupted: a published snapshot is one
\* instant, a pending restore names a warm one that is still there, beside the disk it
\* captured, and a VM has the memory of the disk it has open.
THEOREM SnapshotsAreSafe ==
  ASSUME Parameters
  PROVE  Spec => [](TypeOK /\ Coherent)
<1>1. Init => IInv
  BY InitInv
<1>2. IInv /\ [Next]_vars => IInv'
  <2> SUFFICES ASSUME IInv, [Next]_vars PROVE IInv'
    OBVIOUS
  <2>1. TypeOK'
    BY FilesStep, MachineStep, ProcessesStep DEF IInv, TypeOK
  <2>2. LockInv' /\ NameInv'
    BY LockStep, NameStep DEF IInv
  <2>3. MarkerInv' /\ DiskInv' /\ CaptureInv'
    BY MarkerStep, DiskStep, CaptureStep DEF IInv
  <2>4. Coherent'
    BY CoherentStep DEF IInv
  <2> QED
    BY <2>1, <2>2, <2>3, <2>4 DEF IInv
<1>3. IInv => TypeOK /\ Coherent
  BY DEF IInv
<1> QED
  BY <1>1, <1>2, <1>3, PTL DEF Spec
=============================================================================
