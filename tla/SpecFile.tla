------------------------------- MODULE SpecFile -------------------------------
(***************************************************************************)
(* The machine specification file firestone.toml and the processes that    *)
(* replace it: `edit`, spec PUT (set_spec), spec PATCH (patch_spec) and    *)
(* `resize`, each in its own CLI invocation or REST worker.                *)
(*                                                                         *)
(* A writer first looks at the machine (open_spec_write): when it runs, it *)
(* goes on without the machine lock, which the running machine's shim owns *)
(* for its whole lifetime; otherwise it takes the lock and looks again.    *)
(* The new document is then published by atomic::write_with_options: unlink*)
(* the sibling "<file>.tmp", create it exclusively, write, fsync, rename it*)
(* over the file by name, and fsync the directory.  Every one of those     *)
(* system calls is a step of its own; any process may be killed between    *)
(* two of them, any call may fail, and the host may lose power.            *)
(*                                                                         *)
(* A process creates one inode in its life, so the writer names it.  The   *)
(* document is the set of edits it holds: patching adds the writer's edit  *)
(* to the document it read, setting replaces the document.                 *)
(***************************************************************************)
EXTENDS FiniteSets, TLAPS

CONSTANTS
    Writer,     \* the processes that write the file, one write each
    Patchers,   \* those that read the document, change it and write it back
    Orig,       \* the inode of the document that create published
    None,       \* no inode; nobody
    Shim        \* the shim as an owner of the machine lock

ASSUME WriterAssumption ==
    /\ Patchers \subseteq Writer
    /\ Orig \notin Writer /\ None \notin Writer /\ Shim \notin Writer
    /\ Orig # None /\ Shim # None

VARIABLES
    running,    \* the reconciled status is `running`
    lock,       \* who holds the machine lock
    pc,         \* where each writer is
    doc,        \* the document a writer will publish
    edits,      \* the edits in the file each inode names
    whole,      \* the inodes whose file is completely written
    synced,     \* the inodes whose data reached the disk
    target,     \* the inode "firestone.toml" names
    temp,       \* the inode "firestone.toml.tmp" names, or None
    durable,    \* the inodes the name may have after a power loss
    skipped,    \* history: writers that took the path without the lock
    overlapped  \* history: two writers were at work at the same time

vars == <<running, lock, pc, doc, edits, whole, synced, target, temp, durable,
          skipped, overlapped>>
disk == <<edits, whole, synced, target, temp, durable>>
data == <<edits, whole, synced>>
history == <<skipped, overlapped>>

Inode == Writer \cup {Orig}
Edits == SUBSET Writer

\* Program counters between opening the machine and the end of the write.
Working == {"open", "read", "unlinked", "created", "partial", "written", "synced",
            "renamed"}
Ended == {"ok", "failed"}
PC == {"idle", "waiting"} \cup Working \cup Ended

Init ==
    /\ running = FALSE
    /\ lock = None
    /\ pc = [w \in Writer |-> "idle"]
    /\ doc = [w \in Writer |-> {}]
    /\ edits = [i \in Inode |-> {}]
    /\ whole = {Orig}
    /\ synced = {Orig}
    /\ target = Orig
    /\ temp = None
    /\ durable = {Orig}
    /\ skipped = {}
    /\ overlapped = FALSE

-----------------------------------------------------------------------------
(* The machine around the file.                                            *)

\* A start ends with the machine running and its shim owning the lock.
MachineStarts ==
    /\ ~running /\ lock = None
    /\ running' = TRUE /\ lock' = Shim
    /\ UNCHANGED <<pc, doc, disk, history>>

\* The shim writes its final state and exits.
MachineStops ==
    /\ running /\ lock = Shim
    /\ running' = FALSE /\ lock' = None
    /\ UNCHANGED <<pc, doc, disk, history>>

\* The shim is killed: its flock goes, the VMM still answers pings.
ShimDies ==
    /\ running /\ lock = Shim
    /\ lock' = None
    /\ UNCHANGED <<running, pc, doc, disk, history>>

\* The VMM a dead shim left behind goes away.
OrphanDies ==
    /\ running /\ lock # Shim
    /\ running' = FALSE
    /\ UNCHANGED <<lock, pc, doc, disk, history>>

-----------------------------------------------------------------------------
(* open_spec_write.                                                        *)

\* Writer w starts its work; the history notes who else is at work.
Begin(w) ==
    /\ pc' = [pc EXCEPT ![w] = "open"]
    /\ overlapped' = (overlapped \/ \E v \in Writer \ {w} : pc[v] \in Working)
    /\ UNCHANGED <<running, doc, disk>>

\* The preliminary read reports `running`: no lock is taken.
OpenRunning(w) ==
    /\ pc[w] = "idle" /\ running
    /\ Begin(w)
    /\ skipped' = skipped \cup {w}
    /\ UNCHANGED lock

\* The preliminary read reports any other status: wait for the lock.
OpenWait(w) ==
    /\ pc[w] = "idle" /\ ~running
    /\ pc' = [pc EXCEPT ![w] = "waiting"]
    /\ UNCHANGED <<running, lock, doc, disk, history>>

\* Mutant: the guard is dropped as soon as the lock was taken.
OpenLockedUnguarded(w) ==
    /\ pc[w] = "waiting" /\ lock = None /\ ~running
    /\ Begin(w)
    /\ UNCHANGED <<lock, skipped>>

\* The lock is taken and the second look agrees.
OpenLocked(w) ==
    /\ pc[w] = "waiting" /\ lock = None /\ ~running
    /\ Begin(w)
    /\ lock' = w
    /\ UNCHANGED skipped

\* The lock is taken but the machine runs by now: conflict.  Or the wait
\* for the lock lasts ten seconds: busy.
OpenRefused(w) ==
    /\ pc[w] = "waiting" /\ (running \/ lock # None)
    /\ pc' = [pc EXCEPT ![w] = "failed"]
    /\ UNCHANGED <<running, lock, doc, disk, history>>

-----------------------------------------------------------------------------
(* The end of a writer: the lock guard, if any, is dropped.                *)

Unlock(w) == lock' = IF lock = w THEN None ELSE lock

End(w, result) ==
    /\ pc' = [pc EXCEPT ![w] = result]
    /\ Unlock(w)
    /\ UNCHANGED <<running, doc, history>>

\* Validation, the disk-shrink guard or the live resize rejects the change,
\* or the directory cannot be opened, before anything is written.
Reject(w) ==
    /\ pc[w] \in {"open", "read"}
    /\ End(w, "failed")
    /\ UNCHANGED disk

\* The process is killed; the kernel drops its flock, the temp file stays.
Killed(w) ==
    /\ pc[w] \in Working
    /\ End(w, "failed")
    /\ UNCHANGED disk

-----------------------------------------------------------------------------
(* write_with_options, one system call at a time.                          *)

Step(w, from, to) ==
    /\ pc[w] = from
    /\ pc' = [pc EXCEPT ![w] = to]
    /\ UNCHANGED <<running, lock, history>>

\* patch_spec and resize read the document and change it, and refuse one
\* they cannot parse; set_spec renders a document of its own.
ReadSpec(w) ==
    /\ Step(w, "open", "read")
    /\ w \in Patchers => target \in whole
    /\ doc' = [doc EXCEPT ![w] =
                 IF w \in Patchers THEN edits[target] \cup {w} ELSE {w}]
    /\ UNCHANGED disk

\* A temp file an earlier write left behind is removed.
RemoveKnownTemp(w) ==
    /\ Step(w, "read", "unlinked")
    /\ temp' = None
    /\ UNCHANGED <<doc, data, target, durable>>

\* create_new: fails, and leaves the other file alone, when the name exists.
CreateTemp(w) ==
    /\ temp = None
    /\ Step(w, "unlinked", "created")
    /\ temp' = w
    /\ UNCHANGED <<doc, data, target, durable>>

CreateTempFails(w) ==
    /\ pc[w] = "unlinked" /\ temp # None
    /\ End(w, "failed")
    /\ UNCHANGED disk

\* write_all is several writes to the open descriptor, whatever its name is.
WriteSome(w) ==
    /\ Step(w, "created", "partial")
    /\ edits' = [edits EXCEPT ![w] = doc[w]]
    /\ UNCHANGED <<doc, whole, synced, target, temp, durable>>

WriteRest(w) ==
    /\ Step(w, "partial", "written")
    /\ whole' = whole \cup {w}
    /\ UNCHANGED <<doc, edits, synced, target, temp, durable>>

\* Mutant: the temp file is not synced before the rename.
SyncTempSkipped(w) ==
    /\ Step(w, "written", "synced")
    /\ UNCHANGED <<doc, disk>>

SyncTemp(w) ==
    /\ Step(w, "written", "synced")
    /\ synced' = synced \cup {w}
    /\ UNCHANGED <<doc, edits, whole, target, temp, durable>>

\* A write, an fsync or the rename fails (the rename must when the temp file
\* is gone): fail_before_rename unlinks whatever the temp name refers to.
FailBeforeRename(w) ==
    /\ pc[w] \in {"created", "partial", "written", "synced"}
    /\ End(w, "failed")
    /\ temp' = None
    /\ UNCHANGED <<data, target, durable>>

\* Mutant: a missing temp file is not noticed.
RenameUnchecked(w) ==
    /\ Step(w, "synced", "renamed")
    /\ target' = temp
    /\ temp' = None
    /\ durable' = durable \cup {temp}
    /\ UNCHANGED <<doc, data>>

\* rename publishes what the temp NAME refers to, not the writer's inode.
Rename(w) ==
    /\ temp # None
    /\ Step(w, "synced", "renamed")
    /\ target' = temp
    /\ temp' = None
    /\ durable' = durable \cup {temp}
    /\ UNCHANGED <<doc, data>>

\* Mutant: the directory is not synced after the rename.
SyncParentSkipped(w) ==
    /\ pc[w] = "renamed"
    /\ End(w, "ok")
    /\ UNCHANGED disk

SyncParent(w) ==
    /\ pc[w] = "renamed"
    /\ End(w, "ok")
    /\ durable' = {target}
    /\ UNCHANGED <<data, target, temp>>

\* fsync of the directory fails: an error, with the new document in place.
SyncParentFails(w) ==
    /\ pc[w] = "renamed"
    /\ End(w, "failed")
    /\ UNCHANGED disk

-----------------------------------------------------------------------------
(* Power loss: every process ends, the name is one of those that may have  *)
(* reached the disk, and data that was not synced may be cut short.        *)
PowerLoss ==
    /\ \E i \in durable : target' = i
    /\ \E lost \in SUBSET (whole \ synced) : whole' = whole \ lost
    /\ durable' = {target'}
    /\ temp' \in {None, temp}
    /\ running' = FALSE
    /\ lock' = None
    /\ pc' = [w \in Writer |->
                IF pc[w] \in Ended \cup {"idle"} THEN pc[w] ELSE "failed"]
    /\ UNCHANGED <<doc, edits, synced, history>>

WriterNext(w) ==
    \/ OpenRunning(w) \/ OpenWait(w) \/ OpenLocked(w) \/ OpenRefused(w)
    \/ Reject(w) \/ Killed(w)
    \/ ReadSpec(w) \/ RemoveKnownTemp(w) \/ CreateTemp(w) \/ CreateTempFails(w)
    \/ WriteSome(w) \/ WriteRest(w) \/ SyncTemp(w) \/ FailBeforeRename(w)
    \/ Rename(w) \/ SyncParent(w) \/ SyncParentFails(w)

Next ==
    \/ MachineStarts \/ MachineStops \/ ShimDies \/ OrphanDies
    \/ PowerLoss
    \/ \E w \in Writer : WriterNext(w)

Spec == Init /\ [][Next]_vars

-----------------------------------------------------------------------------
(* Properties.                                                             *)

\* The document, its temp file and the inodes behind them, the lock and the stage of every
\* writer (write_with_options).
TypeOK ==
    /\ running \in BOOLEAN
    /\ lock \in Writer \cup {Shim, None}
    /\ pc \in [Writer -> PC]
    /\ doc \in [Writer -> Edits]
    /\ edits \in [Inode -> Edits]
    /\ whole \subseteq Inode
    /\ synced \subseteq Inode
    /\ target \in Inode
    /\ temp \in Inode \cup {None}
    /\ durable \subseteq Inode
    /\ skipped \subseteq Writer
    /\ overlapped \in BOOLEAN

\* Whatever is killed, fails or loses power, and whenever, a reader of
\* firestone.toml finds a complete document, and would find one after a
\* power loss, as long as no two writers were ever at work at once.
NeverTornAlone ==
    ~overlapped => durable \cup {target} \subseteq whole \cap synced

\* A change that was reported as made is in the document, across kills,
\* failures and power losses, unless a later `set` replaced the document.
ReportedEditsSurvive ==
    ~overlapped =>
        \A w \in Writer : pc[w] = "ok" =>
            \A i \in durable \cup {target} :
                \/ w \in edits[i]
                \/ \E s \in Writer \ Patchers : s \in edits[i]

\* The machine lock serialises the writers that take it: writers can only
\* be at work at once when one of them went without.
LockSerialises == skipped = {} => ~overlapped

\* SPEC 4.3 calls the writes without the lock safe: the file readers see is
\* a complete document whoever else is writing.
NeverTorn == target \in whole

-----------------------------------------------------------------------------
(* Proofs for every set of writers: the lock serialises the writers that   *)
(* take it, and as long as no two writers are at work at once the          *)
(* published document is complete and holds every reported change, across  *)
(* kills, I/O failures and power loss.                                     *)

\* A writer holds the lock exactly while it works with it.
LockInv ==
    /\ \A w \in Writer : lock = w <=> (pc[w] \in Working /\ w \notin skipped)
    /\ \A w \in skipped : pc[w] \notin {"idle", "waiting"}
    /\ skipped = {} => ~overlapped

\* Program counters at which the temp file is the writer's own.
HasTemp == {"created", "partial", "written", "synced"}

\* What a writer that works alone knows about the files.
AloneInv ==
    /\ \A v, w \in Writer : pc[v] \in Working /\ pc[w] \in Working => v = w
    /\ \A w \in Writer :
         /\ pc[w] \in {"idle", "waiting", "open", "read", "unlinked"} \cup HasTemp
              => w \notin durable \cup {target}
         /\ pc[w] \in HasTemp => temp = w
         /\ pc[w] \in {"partial", "written", "synced"} => edits[w] = doc[w]
         /\ pc[w] \in {"written", "synced"} => w \in whole
         /\ pc[w] = "synced" => w \in synced
         /\ pc[w] \in {"read", "unlinked"} \cup HasTemp =>
              doc[w] = IF w \in Patchers THEN edits[target] \cup {w} ELSE {w}
         /\ pc[w] = "renamed" =>
              target = w /\ (w \in Patchers => w \in edits[w])
                         /\ (w \notin Patchers => edits[w] = {w})

\* Every variable keeps its type.
LEMMA TypeInv == Spec => []TypeOK
<1> USE WriterAssumption DEF TypeOK, Inode, Edits, PC, Working, Ended
<1>1. Init => TypeOK
  BY DEF Init
<1>2. TypeOK /\ [Next]_vars => TypeOK'
  <2> SUFFICES ASSUME TypeOK, [Next]_vars PROVE TypeOK'
    OBVIOUS
  <2> USE DEF disk, data, history
  <2>1. CASE MachineStarts \/ MachineStops \/ ShimDies \/ OrphanDies
    BY <2>1 DEF MachineStarts, MachineStops, ShimDies, OrphanDies
  <2>2. CASE PowerLoss
    BY <2>2 DEF PowerLoss
  <2>3. ASSUME NEW w \in Writer, WriterNext(w) PROVE TypeOK'
    <3>1. CASE OpenRunning(w) \/ OpenWait(w) \/ OpenLocked(w) \/ OpenRefused(w)
      BY <3>1 DEF OpenRunning, OpenWait, OpenLocked, OpenRefused, Begin
    <3>2. CASE Reject(w) \/ Killed(w) \/ CreateTempFails(w) \/ FailBeforeRename(w)
                 \/ SyncParent(w) \/ SyncParentFails(w)
      BY <3>2 DEF Reject, Killed, CreateTempFails, FailBeforeRename, SyncParent,
                  SyncParentFails, End, Unlock
    <3>3. CASE ReadSpec(w)
      BY <3>3 DEF ReadSpec, Step
    <3>4. CASE RemoveKnownTemp(w) \/ CreateTemp(w) \/ Rename(w)
      BY <3>4 DEF RemoveKnownTemp, CreateTemp, Rename, Step
    <3>5. CASE WriteSome(w) \/ WriteRest(w) \/ SyncTemp(w)
      BY <3>5 DEF WriteSome, WriteRest, SyncTemp, Step
    <3> QED
      BY <2>3, <3>1, <3>2, <3>3, <3>4, <3>5 DEF WriterNext
  <2>4. CASE UNCHANGED vars
    BY <2>4 DEF vars
  <2> QED
    BY <2>1, <2>2, <2>3, <2>4 DEF Next
<1> QED
  BY <1>1, <1>2, PTL DEF Spec

\* The lock part of the invariant: who takes the lock never works with
\* another one that did, so only a writer without it can overlap.
LEMMA LockStep == TypeOK /\ TypeOK' /\ LockInv /\ [Next]_vars => LockInv'
<1> SUFFICES ASSUME TypeOK, LockInv, [Next]_vars PROVE LockInv'
  OBVIOUS
<1> USE WriterAssumption DEF TypeOK, LockInv, PC, Working, Ended, history
<1>1. CASE MachineStarts \/ MachineStops \/ ShimDies \/ OrphanDies
  BY <1>1 DEF MachineStarts, MachineStops, ShimDies, OrphanDies
<1>2. CASE PowerLoss
  BY <1>2 DEF PowerLoss
<1>3. ASSUME NEW w \in Writer, WriterNext(w) PROVE LockInv'
  <2>1. CASE OpenRunning(w)
    BY <2>1 DEF OpenRunning, Begin
  <2>2. CASE OpenLocked(w)
    BY <2>2 DEF OpenLocked, Begin
  <2>3. CASE OpenWait(w) \/ OpenRefused(w)
    BY <2>3 DEF OpenWait, OpenRefused
  <2>4. CASE Reject(w) \/ Killed(w) \/ CreateTempFails(w) \/ FailBeforeRename(w)
               \/ SyncParent(w) \/ SyncParentFails(w)
    BY <2>4 DEF Reject, Killed, CreateTempFails, FailBeforeRename, SyncParent,
                SyncParentFails, End, Unlock
  <2>5. CASE ReadSpec(w) \/ RemoveKnownTemp(w) \/ CreateTemp(w) \/ Rename(w)
               \/ WriteSome(w) \/ WriteRest(w) \/ SyncTemp(w)
    BY <2>5 DEF ReadSpec, RemoveKnownTemp, CreateTemp, Rename, WriteSome,
                WriteRest, SyncTemp, Step
  <2> QED
    BY <1>3, <2>1, <2>2, <2>3, <2>4, <2>5 DEF WriterNext
<1>4. CASE UNCHANGED vars
  BY <1>4 DEF vars
<1> QED
  BY <1>1, <1>2, <1>3, <1>4 DEF Next

\* What holds of the files while the writers have worked one at a time.
FilesInv == ~overlapped => AloneInv /\ NeverTornAlone /\ ReportedEditsSurvive

\* The files part of the invariant.
LEMMA FilesStep == TypeOK /\ TypeOK' /\ LockInv /\ FilesInv /\ [Next]_vars => FilesInv'
<1> SUFFICES ASSUME TypeOK, TypeOK', LockInv, FilesInv, [Next]_vars, ~overlapped'
             PROVE (AloneInv /\ NeverTornAlone /\ ReportedEditsSurvive)'
  BY DEF FilesInv
<1>0. ~overlapped
  BY DEF TypeOK, Next, vars, MachineStarts, MachineStops, ShimDies, OrphanDies,
         PowerLoss, WriterNext, OpenRunning, OpenWait, OpenLocked, OpenRefused,
         Begin, Reject, Killed, CreateTempFails, FailBeforeRename, SyncParent,
         SyncParentFails, End, ReadSpec, RemoveKnownTemp, CreateTemp, Rename,
         WriteSome, WriteRest, SyncTemp, Step, history
<1>A. AloneInv /\ NeverTornAlone /\ ReportedEditsSurvive
  BY <1>0 DEF FilesInv
<1> USE WriterAssumption, <1>0, <1>A
    DEF TypeOK, Inode, Edits, PC, Working, Ended, HasTemp, AloneInv,
        NeverTornAlone, ReportedEditsSurvive, disk, data, history
<1>1. CASE MachineStarts \/ MachineStops \/ ShimDies \/ OrphanDies
  BY <1>1 DEF MachineStarts, MachineStops, ShimDies, OrphanDies
<1>2. CASE PowerLoss
  BY <1>2 DEF PowerLoss
<1>3. ASSUME NEW w \in Writer, WriterNext(w)
      PROVE (AloneInv /\ NeverTornAlone /\ ReportedEditsSurvive)'
  <2>0. ASSUME Begin(w), pc[w] \in {"idle", "waiting"}
        PROVE (AloneInv /\ NeverTornAlone /\ ReportedEditsSurvive)'
    <3>1. \A v \in Writer \ {w} : pc[v] \notin Working
      BY <2>0 DEF Begin
    <3> QED
      BY <2>0, <3>1 DEF Begin
  <2>1. CASE OpenRunning(w) \/ OpenLocked(w)
    BY <2>0, <2>1 DEF OpenRunning, OpenLocked
  <2>3. CASE OpenWait(w) \/ OpenRefused(w)
    BY <2>3 DEF OpenWait, OpenRefused
  <2>4. CASE Reject(w) \/ Killed(w) \/ CreateTempFails(w) \/ SyncParentFails(w)
    BY <2>4 DEF Reject, Killed, CreateTempFails, SyncParentFails, End, Unlock
  <2>5. CASE FailBeforeRename(w)
    BY <2>5 DEF FailBeforeRename, End, Unlock
  <2>6. CASE SyncParent(w)
    BY <2>6 DEF SyncParent, End, Unlock
  <2>7. CASE ReadSpec(w)
    <3>1. doc'[w] = IF w \in Patchers THEN edits[target] \cup {w} ELSE {w}
      BY <2>7 DEF ReadSpec
    <3>2. \A v \in Writer \ {w} : doc'[v] = doc[v] /\ pc'[v] = pc[v]
      BY <2>7 DEF ReadSpec, Step
    <3>3. pc'[w] = "read" /\ pc[w] = "open" /\ UNCHANGED disk
      BY <2>7 DEF ReadSpec, Step
    <3>4. AloneInv'
      BY <3>1, <3>2, <3>3
    <3> QED
      BY <3>2, <3>3, <3>4
  <2>8. CASE RemoveKnownTemp(w)
    BY <2>8 DEF RemoveKnownTemp, Step
  <2>9. CASE CreateTemp(w)
    BY <2>9 DEF CreateTemp, Step
  <2>10. CASE Rename(w)
    BY <2>10 DEF Rename, Step
  <2>11. CASE WriteSome(w)
    BY <2>11 DEF WriteSome, Step
  <2>12. CASE WriteRest(w)
    BY <2>12 DEF WriteRest, Step
  <2>13. CASE SyncTemp(w)
    BY <2>13 DEF SyncTemp, Step
  <2> QED
    BY <1>3, <2>1, <2>3, <2>4, <2>5, <2>6, <2>7, <2>8, <2>9, <2>10,
       <2>11, <2>12, <2>13 DEF WriterNext
<1>4. CASE UNCHANGED vars
  BY <1>4 DEF vars
<1> QED
  BY <1>1, <1>2, <1>3, <1>4 DEF Next

\* The inductive invariant holds in every state of every behaviour.
LEMMA InvStep == Spec => [](LockInv /\ FilesInv)
<1>1. Init => LockInv /\ FilesInv
  BY WriterAssumption
     DEF Init, LockInv, FilesInv, AloneInv, NeverTornAlone, ReportedEditsSurvive,
         Working, HasTemp, Inode
<1>2. TypeOK /\ TypeOK' /\ LockInv /\ FilesInv /\ [Next]_vars => (LockInv /\ FilesInv)'
  BY LockStep, FilesStep
<1> QED
  BY <1>1, <1>2, TypeInv, PTL DEF Spec

\* Every variable keeps its type, for every set of writers.
THEOREM TypeCorrect == Spec => []TypeOK
BY TypeInv

\* The machine lock serialises the writers that take it (lock.rs 48-125 as
\* open_spec_write uses it), for every number of writers.
THEOREM LockedWritersAreSerial == Spec => []LockSerialises
<1>1. LockInv => LockSerialises
  BY DEF LockInv, LockSerialises
<1> QED
  BY <1>1, InvStep, PTL

\* write_with_options publishes complete documents only, across kills,
\* failed calls and power loss, when its callers do not overlap.
THEOREM AtomicWhenAlone == Spec => []NeverTornAlone
<1>1. FilesInv => NeverTornAlone
  BY DEF FilesInv, NeverTornAlone
<1> QED
  BY <1>1, InvStep, PTL

\* A change reported as made stays in the document, across kills, failed
\* calls and power loss, when writers do not overlap.
THEOREM NoReportedEditIsLost == Spec => []ReportedEditsSurvive
<1>1. FilesInv => ReportedEditsSurvive
  BY DEF FilesInv, ReportedEditsSurvive
<1> QED
  BY <1>1, InvStep, PTL
=============================================================================
