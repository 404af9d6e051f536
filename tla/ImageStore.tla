------------------------------ MODULE ImageStore ------------------------------
(***************************************************************************)
(* The image store: base images (images/<id>.qcow2) with their sidecars    *)
(* (images/<id>.json) under one flock, and the references that machines    *)
(* and snapshots hold on them.  All images here have one source, whose     *)
(* content changes over time: an id is the digest of one content.          *)
(*                                                                         *)
(* A process is one CLI invocation or REST worker.  It runs one operation  *)
(* and may fail or be killed at any step.  Files change one at a time, so  *)
(* a killed process leaves any prefix of its work behind.                  *)
(***************************************************************************)
EXTENDS Naturals

CONSTANTS
    Proc,       \* processes, one operation each
    Id,         \* image ids
    Machine,    \* machine names
    Ops,        \* the operations a process may run
    MaxGen,     \* bound on sidecar generations
    None        \* nothing, nobody

AllOps == {"pull", "prepare", "inspect", "rm_image", "force_rm_image", "prune",
           "prune_unreferenced", "prune_partials", "clone", "snapshot", "rm_machine"}

VARIABLES
    base,       \* ids with a published base
    side,       \* ids with a published sidecar
    temp,       \* ids with a sidecar temp file
    gen,        \* generation in each sidecar
    baseTomb,   \* ids with a <id>.qcow2.removing
    sideTomb,   \* ids with a <id>.json.removing
    partial,    \* pull partials are there
    holder,     \* who has images/.lock
    mlock,      \* who has each machine's lock
    dir,        \* machine directories under their names
    stated,     \* of those, the ones with a state.json
    making,     \* and the ones with a .creating marker
    pin,        \* image.id in each state.json
    disk,       \* the base each machine's disk.qcow2 is backed by
    snaps,      \* the image ids of each machine's published snapshots
    pc, op,     \* where each process is, and its operation
    on,         \* the machine a process works on
    to,         \* the destination of a clone
    target,     \* the id a process works on
    at,         \* the machine whose references a process is reading
    todo,       \* machines whose references are still to be read
    found,      \* references read so far
    forced,     \* history: a referenced image was removed with --force
    broken      \* history: clones without a disk whose process died, and clones of them

store == <<base, side, temp, gen, baseTomb, sideTomb, partial>>
machines == <<dir, stated, making, pin, disk, snaps>>
history == <<forced, broken>>
local == <<on, to, target, at, todo, found>>
vars == <<store, holder, mlock, machines, pc, op, local, history>>

Pair == base \cap side
Half == ((base \cup side) \ Pair) \cup (temp \ (base \cup side))

\* What the machines ms and their snapshots reference at this moment.
References(ms) == ({pin[m] : m \in ms} \ {None}) \cup UNION {snaps[m] : m \in ms}

\* One machine, new or started before from an image that is in the store.
Init ==
    /\ dir \in {{m} : m \in Machine}
    /\ stated = dir /\ making = {}
    /\ base \in {{}} \cup {{i} : i \in Id}
    /\ side = base /\ temp = {} /\ baseTomb = {} /\ sideTomb = {} /\ partial = FALSE
    /\ gen = [i \in Id |-> IF i \in base THEN 1 ELSE 0]
    /\ pin = [m \in Machine |-> IF m \in dir /\ base # {} THEN CHOOSE i \in base : TRUE ELSE None]
    /\ disk = pin
    /\ snaps = [m \in Machine |-> {}]
    /\ holder = None
    /\ mlock = [m \in Machine |-> None]
    /\ pc = [p \in Proc |-> "idle"]
    /\ op = [p \in Proc |-> "none"]
    /\ on = [p \in Proc |-> None] /\ to = [p \in Proc |-> None]
    /\ target = [p \in Proc |-> None] /\ at = [p \in Proc |-> None]
    /\ todo = [p \in Proc |-> {}] /\ found = [p \in Proc |-> {}]
    /\ forced = FALSE /\ broken = {}

Goto(p, l) == pc' = [pc EXCEPT ![p] = l]
At(p, l) == pc[p] = l
Step(p, from, dest) == At(p, from) /\ Goto(p, dest)

-----------------------------------------------------------------------------
(* Locks.  A machine lock is taken before the store lock, never after.     *)

MachineOps == {"prepare", "clone", "snapshot", "rm_machine"}

Begin(p) ==
    /\ At(p, "idle")
    /\ \E o \in Ops : op' = [op EXCEPT ![p] = o]
    /\ Goto(p, IF op'[p] \in MachineOps THEN "mwait" ELSE "wait")
    /\ UNCHANGED <<store, holder, mlock, machines, local, history>>

\* MachineLock::acquire, then ensure_machine_exists.
LockMachine(p) ==
    /\ \E m \in stated \ making :
        /\ mlock[m] = None
        /\ mlock' = [mlock EXCEPT ![m] = p]
        /\ on' = [on EXCEPT ![p] = m]
    /\ Step(p, "mwait", CASE op[p] = "clone" -> "clone"
                          [] op[p] = "rm_machine" -> "unlink"
                          [] op[p] = "snapshot" -> "capture"
                          [] OTHER -> "wait")
    /\ UNCHANGED <<store, holder, machines, op, to, target, at, todo, found, history>>

\* ImageStoreLock::acquire; what follows depends on whether the operation
\* recovers the store first.
Lock(p) ==
    /\ holder = None
    /\ holder' = p
    /\ Step(p, "wait", CASE op[p] = "prune_unreferenced" -> "refs"
                         [] op[p] = "prune_partials" -> "partials"
                         [] op[p] \in {"clone", "snapshot"} /\ disk[on[p]] # None -> "copy"
                         [] OTHER -> "clean")
    /\ UNCHANGED <<store, mlock, machines, op, local, history>>

FreeLocks(p) ==
    /\ holder' = IF holder = p THEN None ELSE holder
    /\ mlock' = [m \in Machine |-> IF mlock[m] = p THEN None ELSE mlock[m]]

\* The operation returns: the locks drop with it.
Done(p) ==
    /\ At(p, "done")
    /\ Goto(p, "over")
    /\ FreeLocks(p)
    /\ UNCHANGED <<store, machines, op, local, history>>

\* A deadline or any other error ends the operation, or a SIGKILL does.  A
\* clone leaves its destination as it is, marker included.
Fails(p) ==
    /\ pc[p] \notin {"idle", "over", "done"}
    /\ Goto(p, "over")
    /\ FreeLocks(p)
    /\ broken' = broken \cup {m \in {to[p]} \cap making \cap stated : disk[m] = None /\ pin[m] # None}
    /\ UNCHANGED <<store, machines, op, local, forced>>

-----------------------------------------------------------------------------
(* cleanup_stale_partials: partials, then half-done removals, then         *)
(* half-done publications.                                                 *)

\* remove_stale_partial, is_known_partial_name.
Clean(p) ==
    /\ Step(p, "clean", "finish_removals")
    /\ partial' = FALSE
    /\ UNCHANGED <<base, side, temp, gen, baseTomb, sideTomb, holder, mlock, machines,
                   op, local, history>>

\* prune_partials takes the partials and nothing else.
PrunePartials(p) ==
    /\ Step(p, "partials", "done")
    /\ partial' = FALSE
    /\ UNCHANGED <<base, side, temp, gen, baseTomb, sideTomb, holder, mlock, machines,
                   op, local, history>>

Tombs == baseTomb \cup sideTomb

\* complete_stale_removal goes on from where an interrupted removal was.  The
\* sidecar is moved before the base, so what is left to move is the base.
MoveBase(p) ==
    /\ At(p, "finish_removals")
    /\ \E i \in base \cap Tombs :
        /\ i \notin side /\ i \notin baseTomb
        /\ base' = base \ {i} /\ baseTomb' = baseTomb \cup {i}
    /\ UNCHANGED <<side, temp, gen, sideTomb, partial, holder, mlock, machines,
                   pc, op, local, history>>

\* remove_tombstone of the sidecar, then of the base.
DropTomb(p) ==
    /\ At(p, "finish_removals")
    /\ \E i \in Tombs \ (base \cup side) :
        IF i \in sideTomb
            THEN sideTomb' = sideTomb \ {i} /\ UNCHANGED baseTomb
            ELSE baseTomb' = baseTomb \ {i} /\ UNCHANGED sideTomb
    /\ UNCHANGED <<base, side, temp, gen, partial, holder, mlock, machines,
                   pc, op, local, history>>

\* recover_incomplete_pairs reads the references only when it needs them.
Recover(p) ==
    /\ Tombs = {}
    /\ todo' = [todo EXCEPT ![p] = dir] /\ found' = [found EXCEPT ![p] = {}]
    /\ Step(p, "finish_removals", IF Half = {} THEN "recover" ELSE "scan_halves")
    /\ UNCHANGED <<store, holder, mlock, machines, op, on, to, target, at, history>>

\* A temp file is removed, then a sidecar without a base, then a base without
\* a sidecar.
DropHalf(p) ==
    /\ At(p, "recover")
    /\ Half \cap found[p] = {}
    /\ \/ temp # {} /\ temp' = {} /\ UNCHANGED <<base, side>>
       \/ /\ temp = {} /\ side' = side \cap base /\ UNCHANGED <<base, temp>>
          /\ side # side'
       \/ /\ temp = {} /\ side \subseteq base /\ base' = Pair /\ UNCHANGED <<side, temp>>
          /\ base # base'
    /\ UNCHANGED <<gen, baseTomb, sideTomb, partial, holder, mlock, machines, pc, op,
                   local, history>>

Recovered(p) ==
    /\ Half = {} /\ temp = {}
    /\ Step(p, "recover", CASE op[p] = "pull" -> "pull"
                            [] op[p] = "prepare" -> "prepare"
                            [] op[p] = "inspect" -> "done"
                            [] op[p] = "clone" -> "overlay"
                            [] OTHER -> "refs")
    /\ UNCHANGED <<store, holder, mlock, machines, op, local, history>>

-----------------------------------------------------------------------------
(* image_references: the machine directories are read one after another,   *)
(* without their locks, while the store lock is held.                      *)

ReadDirs(p) ==
    /\ Step(p, "refs", "scan")
    /\ todo' = [todo EXCEPT ![p] = dir] /\ found' = [found EXCEPT ![p] = {}]
    /\ UNCHANGED <<store, holder, mlock, machines, op, on, to, target, at, history>>

\* The directory must still be there; its snapshots come before its state.
\* snapshot_image_references.
ScanSnapshots(p) ==
    /\ pc[p] \in {"scan", "scan_halves"}
    /\ \E m \in todo[p] \cap dir :
        /\ at' = [at EXCEPT ![p] = m]
        /\ found' = [found EXCEPT ![p] = @ \cup snaps[m]]
    /\ Goto(p, IF At(p, "scan") THEN "scan_state" ELSE "scan_half_state")
    /\ UNCHANGED <<store, holder, mlock, machines, op, on, to, target, todo, history>>

\* A machine without state.json adds nothing.
ScanState(p) ==
    /\ pc[p] \in {"scan_state", "scan_half_state"}
    /\ found' = [found EXCEPT ![p] = @ \cup ({pin[m] : m \in stated \cap {at[p]}} \ {None})]
    /\ todo' = [todo EXCEPT ![p] = @ \ {at[p]}]
    /\ Goto(p, IF At(p, "scan_state") THEN "scan" ELSE "scan_halves")
    /\ UNCHANGED <<store, holder, mlock, machines, op, on, to, target, at, history>>

ScannedHalves(p) ==
    /\ todo[p] = {}
    /\ Step(p, "scan_halves", "recover")
    /\ UNCHANGED <<store, holder, mlock, machines, op, local, history>>

\* remove, prune and prune_unreferenced take the next image of a complete
\* pair that nobody referenced; --force takes any.
ChooseVictim(p) ==
    /\ At(p, "scan") /\ todo[p] = {}
    /\ \E i \in Pair :
        /\ op[p] # "force_rm_image" => i \notin found[p]
        /\ target' = [target EXCEPT ![p] = i]
        /\ forced' = (forced \/ (i \in References(stated) /\ op[p] = "force_rm_image"))
    /\ Goto(p, "unpublish")
    /\ UNCHANGED <<store, holder, mlock, machines, op, on, to, at, todo, found, broken>>

NoVictim(p) ==
    /\ todo[p] = {} /\ Pair \subseteq found[p]
    /\ Step(p, "scan", "done")
    /\ UNCHANGED <<store, holder, mlock, machines, op, local, history>>

\* remove_pair: the sidecar goes first, so that no listing finds a sidecar
\* whose base has gone.
Unpublish(p) ==
    /\ target[p] \in Pair /\ target[p] \notin Tombs
    /\ Step(p, "unpublish", "unpublish_base")
    /\ side' = side \ {target[p]} /\ sideTomb' = sideTomb \cup {target[p]}
    /\ UNCHANGED <<base, temp, gen, baseTomb, partial, holder, mlock, machines, op,
                   local, history>>

UnpublishBase(p) ==
    /\ target[p] \in base
    /\ Step(p, "unpublish_base", "drop_side_tomb")
    /\ base' = base \ {target[p]} /\ baseTomb' = baseTomb \cup {target[p]}
    /\ UNCHANGED <<side, temp, gen, sideTomb, partial, holder, mlock, machines, op,
                   local, history>>

\* The rename of the base fails: the sidecar is put back.
RestoreSidecar(p) ==
    /\ Step(p, "unpublish_base", "done")
    /\ side' = side \cup {target[p]} /\ sideTomb' = sideTomb \ {target[p]}
    /\ UNCHANGED <<base, temp, gen, baseTomb, partial, holder, mlock, machines, op,
                   local, history>>

DropSideTomb(p) ==
    /\ Step(p, "drop_side_tomb", "drop_base_tomb")
    /\ sideTomb' = sideTomb \ {target[p]}
    /\ UNCHANGED <<base, side, temp, gen, baseTomb, partial, holder, mlock, machines, op,
                   local, history>>

\* prune goes on to the next image with the references it read before.
DropBaseTomb(p) ==
    /\ Step(p, "drop_base_tomb", IF op[p] \in {"prune", "prune_unreferenced"} THEN "scan" ELSE "done")
    /\ baseTomb' = baseTomb \ {target[p]}
    /\ target' = [target EXCEPT ![p] = None]
    /\ UNCHANGED <<base, side, temp, gen, sideTomb, partial, holder, mlock, machines, op,
                   on, to, at, todo, found, history>>

-----------------------------------------------------------------------------
(* pull_locked and pull_oci_locked.                                        *)

MaxOf(S) == CHOOSE n \in S \cup {0} : \A k \in S : k <= n

\* next_generation: one more than every complete image of the source.
NextGeneration == MaxOf({gen[i] : i \in Pair}) + 1

\* The bytes are staged in a partial and their digest is the id.  A cached
\* identity ends the pull, after a rewrite of the sidecar when the pull has
\* stronger provenance (existing_identity).
Stage(p) ==
    /\ At(p, "pull")
    /\ \E i \in Id :
        /\ target' = [target EXCEPT ![p] = i]
        /\ \/ i \notin base \cup side /\ partial' = TRUE /\ Goto(p, "publish")
           \/ i \in Pair /\ partial' \in BOOLEAN /\ Goto(p, "pulled")
           \/ i \in Pair /\ partial' \in BOOLEAN /\ Goto(p, "restamp")
    /\ UNCHANGED <<base, side, temp, gen, baseTomb, sideTomb, holder, mlock, machines, op,
                   on, to, at, todo, found, history>>

\* ensure_pair_absent, publish_no_replace of the base.
PublishBase(p) ==
    /\ target[p] \notin base \cup side
    /\ Step(p, "publish", "sidecar")
    /\ base' = base \cup {target[p]}
    /\ UNCHANGED <<side, temp, gen, baseTomb, sideTomb, partial, holder, mlock, machines, op,
                   local, history>>

\* atomic::write_with_mode of the sidecar: temp file, then rename.
WriteSidecarTemp(p) ==
    /\ NextGeneration <= MaxGen
    /\ Step(p, "sidecar", "sidecar_temp") \/ Step(p, "restamp", "restamp_temp")
    /\ temp' = temp \cup {target[p]}
    /\ UNCHANGED <<base, side, gen, baseTomb, sideTomb, partial, holder, mlock, machines, op,
                   local, history>>

PublishSidecar(p) ==
    /\ Step(p, "sidecar_temp", "published") \/ Step(p, "restamp_temp", "pulled")
    /\ gen' = [gen EXCEPT ![target[p]] = NextGeneration]
    /\ temp' = temp \ {target[p]}
    /\ side' = side \cup {target[p]}
    /\ UNCHANGED <<base, baseTomb, sideTomb, partial, holder, mlock, machines, op, local,
                   history>>

\* The remaining partials go; a start goes on to pin the image.
Pulled(p) ==
    /\ pc[p] \in {"published", "pulled"}
    /\ Goto(p, IF op[p] = "prepare" THEN "pin" ELSE "done")
    /\ partial' = FALSE
    /\ UNCHANGED <<base, side, temp, gen, baseTomb, sideTomb, holder, mlock, machines, op,
                   local, history>>

\* An error of a pull runs the CleanupGuard, which removes what was tracked in
\* reverse: sidecar, base, partials.  A pull that only rewrites a sidecar
\* tracks neither file.
PullFails(p) ==
    /\ \/ pc[p] \in {"publish", "sidecar", "sidecar_temp", "published"} /\ Goto(p, "guard")
       \/ pc[p] \in {"restamp", "restamp_temp"} /\ Goto(p, "partials")
    /\ UNCHANGED <<store, holder, mlock, machines, op, local, history>>

Guard(p) ==
    /\ At(p, "guard")
    /\ \/ /\ target[p] \in side /\ side' = side \ {target[p]}
          /\ UNCHANGED <<base, partial, pc>>
       \/ /\ target[p] \notin side /\ target[p] \in base /\ base' = base \ {target[p]}
          /\ UNCHANGED <<side, partial, pc>>
       \/ /\ target[p] \notin side \cup base
          /\ partial' = FALSE /\ Goto(p, "done")
          /\ UNCHANGED <<base, side>>
    /\ UNCHANGED <<temp, gen, baseTomb, sideTomb, holder, mlock, machines, op, local, history>>

-----------------------------------------------------------------------------
(* prepare_machine_image: pin first, overlay second.                       *)

\* find_latest_for_source, find_latest_by_canonical_ref: the unique highest
\* generation of the source.
Latest == {i \in Pair : \A j \in Pair : gen[j] <= gen[i]}

\* A pinned image must be there and verified (load_verified_pair); an unpinned
\* machine takes the latest image or pulls one.
Prepare(p) ==
    LET m == on[p] IN
    /\ At(p, "prepare")
    /\ \/ /\ pin[m] # None /\ pin[m] \in Pair
          /\ target' = [target EXCEPT ![p] = pin[m]] /\ Goto(p, "overlay")
       \/ /\ pin[m] = None
          /\ \E i \in Latest : Latest = {i} /\ target' = [target EXCEPT ![p] = i]
          /\ Goto(p, "pin")
       \/ /\ pin[m] = None /\ Pair = {}
          /\ UNCHANGED target /\ Goto(p, "pull")
    /\ UNCHANGED <<store, holder, mlock, machines, op, on, to, at, todo, found, history>>

\* Mutant: the store lock is dropped before the machine is pinned.
PinUnlocked(p) ==
    /\ At(p, "pin")
    /\ \/ holder = p /\ holder' = None /\ UNCHANGED <<pin, pc>>
       \/ /\ holder # p /\ UNCHANGED holder
          /\ pin' = [pin EXCEPT ![on[p]] = target[p]] /\ Goto(p, "done")
    /\ UNCHANGED <<store, mlock, dir, stated, making, disk, snaps, op, local, history>>

\* state.json is written under both locks, before any overlay.
Pin(p) ==
    /\ Step(p, "pin", "overlay")
    /\ pin' = [pin EXCEPT ![on[p]] = target[p]]
    /\ UNCHANGED <<store, holder, mlock, dir, stated, making, disk, snaps, op, local, history>>

\* create_overlay_locked: an overlay that is there is checked and kept, else
\* one is made in a partial and published.
Overlay(p) ==
    LET m == IF op[p] = "clone" THEN to[p] ELSE on[p] IN
    /\ Step(p, "overlay", IF op[p] = "clone" THEN "unmark" ELSE "done")
    /\ pin[m] \in Pair
    /\ disk' = [disk EXCEPT ![m] = pin[m]]
    /\ broken' = broken \ {m}
    /\ UNCHANGED <<store, holder, mlock, dir, stated, making, pin, snaps, op, local, forced>>

-----------------------------------------------------------------------------
(* The other holders of references: clone, snapshot, rm of a machine.      *)

\* prepare_machine_creation of the destination: a new directory, or what an
\* interrupted clone left, cleared first.
CloneMarks(p) ==
    /\ \E m \in (Machine \ dir) \cup (making \ stated) :
        /\ mlock[m] = None
        /\ to' = [to EXCEPT ![p] = m]
        /\ mlock' = [mlock EXCEPT ![m] = p]
        /\ dir' = dir \cup {m} /\ making' = making \cup {m}
    /\ Step(p, "clone", "clone_state")
    /\ UNCHANGED <<store, holder, stated, pin, disk, snaps, op, on, target, at, todo, found,
                   history>>

\* machine_publication_complete takes two documents for a whole machine: the
\* marker goes and the clone is refused.
CloneFindsDocuments(p) ==
    /\ \E m \in making \cap stated :
        /\ mlock[m] = None
        /\ making' = making \ {m}
    /\ Step(p, "clone", "done")
    /\ UNCHANGED <<store, holder, mlock, dir, stated, pin, disk, snaps, op, local, history>>

\* clone_machine: the state with the source's pin, then clone_disk, which
\* takes the store lock when there is an image.
CloneWrites(p) ==
    /\ Step(p, "clone_state", IF pin[on[p]] = None THEN "unmark" ELSE "wait")
    /\ stated' = stated \cup {to[p]}
    /\ pin' = [pin EXCEPT ![to[p]] = pin[on[p]]]
    /\ broken' = broken \cup {m \in {to[p]} : on[p] \in broken}
    /\ UNCHANGED <<store, holder, mlock, dir, making, disk, snaps, op, local, forced>>

CloneUnmarks(p) ==
    /\ Step(p, "unmark", "done")
    /\ making' = making \ {to[p]}
    /\ UNCHANGED <<store, holder, mlock, dir, stated, pin, disk, snaps, op, local, history>>

\* copy_overlay: the backing base is validated under the store lock, without
\* a recovery of the store; the lock drops with its return.
Copy(p) ==
    /\ At(p, "copy")
    /\ holder' = None
    /\ pin[on[p]] \in base
    /\ IF op[p] = "clone"
        THEN disk' = [disk EXCEPT ![to[p]] = disk[on[p]]] /\ Goto(p, "unmark")
        ELSE UNCHANGED disk /\ Goto(p, "publish_snapshot")
    /\ UNCHANGED <<store, mlock, dir, stated, making, pin, snaps, op, local, history>>

\* capture_cold_snapshot: a machine that never had a disk has nothing to copy.
Capture(p) ==
    /\ Step(p, "capture", IF disk[on[p]] = None THEN "publish_snapshot" ELSE "wait")
    /\ UNCHANGED <<store, holder, mlock, machines, op, local, history>>

\* snapshot_create publishes with one rename, under the machine lock only.
PublishSnapshot(p) ==
    /\ Step(p, "publish_snapshot", "done")
    /\ snaps' = [snaps EXCEPT ![on[p]] = @ \cup ({pin[on[p]]} \ {None})]
    /\ UNCHANGED <<store, holder, mlock, dir, stated, making, pin, disk, op, local, history>>

\* remove_one: one rename takes the directory, its snapshots included.
UnlinkMachine(p) ==
    LET m == on[p] IN
    /\ Step(p, "unlink", "done")
    /\ dir' = dir \ {m} /\ stated' = stated \ {m}
    /\ pin' = [pin EXCEPT ![m] = None]
    /\ disk' = [disk EXCEPT ![m] = None]
    /\ snaps' = [snaps EXCEPT ![m] = {}]
    /\ broken' = broken \ {m}
    /\ UNCHANGED <<store, holder, mlock, making, op, local, forced>>

-----------------------------------------------------------------------------
Operation(p) ==
    \/ Begin(p) \/ LockMachine(p) \/ Lock(p) \/ Done(p) \/ Fails(p)
    \/ Clean(p) \/ PrunePartials(p) \/ MoveBase(p) \/ DropTomb(p) \/ Recover(p)
    \/ DropHalf(p) \/ Recovered(p)
    \/ ReadDirs(p) \/ ScanSnapshots(p) \/ ScanState(p) \/ ScannedHalves(p)
    \/ ChooseVictim(p) \/ NoVictim(p) \/ Unpublish(p) \/ UnpublishBase(p)
    \/ RestoreSidecar(p) \/ DropSideTomb(p) \/ DropBaseTomb(p)
    \/ Stage(p) \/ PublishBase(p) \/ WriteSidecarTemp(p) \/ PublishSidecar(p)
    \/ Pulled(p) \/ PullFails(p) \/ Guard(p)
    \/ Prepare(p) \/ Pin(p) \/ Overlay(p)
    \/ CloneMarks(p) \/ CloneFindsDocuments(p) \/ CloneWrites(p) \/ CloneUnmarks(p)
    \/ Copy(p) \/ Capture(p) \/ PublishSnapshot(p)
    \/ UnlinkMachine(p)

Next == \E p \in Proc : Operation(p)

Spec == Init /\ [][Next]_vars

-----------------------------------------------------------------------------
(* Properties.                                                             *)

StoreOK ==
    /\ base \subseteq Id /\ side \subseteq Id /\ temp \subseteq Id
    /\ baseTomb \subseteq Id /\ sideTomb \subseteq Id
    /\ gen \in [Id -> 0..MaxGen] /\ partial \in BOOLEAN /\ forced \in BOOLEAN
MachinesOK ==
    /\ holder \in Proc \cup {None} /\ mlock \in [Machine -> Proc \cup {None}]
    /\ dir \subseteq Machine /\ stated \subseteq dir /\ making \subseteq dir /\ broken \subseteq stated
    /\ pin \in [Machine -> Id \cup {None}] /\ disk \in [Machine -> Id \cup {None}]
    /\ snaps \in [Machine -> SUBSET Id]
ProcessesOK ==
    /\ op \in [Proc -> AllOps \cup {"none"}]
    /\ on \in [Proc -> Machine \cup {None}] /\ to \in [Proc -> Machine \cup {None}]
    /\ target \in [Proc -> Id \cup {None}] /\ at \in [Proc -> Machine \cup {None}]
    /\ todo \in [Proc -> SUBSET Machine] /\ found \in [Proc -> SUBSET Id]

\* Bases, sidecars and tombs of known images, machines in every stage of their creation,
\* and who holds the image lock and the machine locks (ImageStoreLock, recover_incomplete_pairs).
TypeOK == StoreOK /\ MachinesOK /\ ProcessesOK

\* SPEC 8.4, 23, 26: an image that a machine or a snapshot references is there,
\* base and sidecar, whatever pulls, removals, prunes, clones and removals of
\* machines ran in whatever order and wherever they were killed, unless
\* somebody forced it out or the reference is all that an interrupted clone left.
ReferencesAreBacked ==
    ~forced => References(stated \ broken) \subseteq Pair

\* A disk never loses the base under it: every published overlay is backed by
\* the base of the machine's own pin, which is there.
DisksAreBacked ==
    ~forced => \A m \in dir \ broken : disk[m] # None => disk[m] = pin[m] /\ disk[m] \in base

\* A published sidecar always has its base, so that a listing without prior
\* recovery (system prune) never fails on a half image, at any moment of a pull,
\* of its clean-up after an error, of a removal or of a recovery.
SidecarHasBase == side \subseteq base

\* SPEC 8.3: the unique highest generation of a source wins.  No two complete
\* images share a generation, so a start always finds one latest image.
GenerationsDistinct ==
    \A i, j \in Pair : gen[i] = gen[j] => i = j
=============================================================================
