--------------------------- MODULE ImageStoreProofs ---------------------------
(***************************************************************************)
(* Proofs about ImageStore, for any number of processes, images and        *)
(* machines.                                                               *)
(***************************************************************************)
EXTENDS ImageStore, TLAPS, NaturalsInduction, WellFoundedInduction

\* What the proofs need of the constants: nothing is not a process, an image
\* or a machine, only the operations above run and a first generation exists.
Parameters ==
    /\ None \notin Proc /\ None \notin Id /\ None \notin Machine
    /\ Ops \subseteq AllOps /\ MaxGen \in Nat \ {0}

-----------------------------------------------------------------------------
(* Phases and locks.                                                       *)

Recovering == {"clean", "finish_removals", "scan_halves", "scan_half_state", "recover"}
Scanning == {"scan", "scan_state", "unpublish", "unpublish_base", "drop_side_tomb", "drop_base_tomb"}
Stamping == {"restamp", "restamp_temp", "pulled"}
Publishing == {"publish", "sidecar", "sidecar_temp", "published"}
InStore == Recovering \cup Scanning \cup Stamping \cup Publishing
               \cup {"refs", "partials", "pull", "guard", "prepare", "pin", "overlay", "copy"}
Free == {"idle", "mwait", "done", "over"}
Phase == InStore \cup Free \cup {"wait", "clone", "clone_state", "unmark", "capture", "publish_snapshot", "unlink"}

\* The phases of an operation on a machine.
OpInv ==
    /\ pc \in [Proc -> Phase]
    /\ \A p \in Proc :
        /\ pc[p] = "mwait" => op[p] \in MachineOps
        /\ pc[p] \in {"clone", "clone_state", "unmark"} => op[p] = "clone"
        /\ pc[p] \in {"capture", "publish_snapshot"} => op[p] = "snapshot"
        /\ pc[p] = "unlink" => op[p] = "rm_machine"
        /\ pc[p] \in {"prepare", "pin"} => op[p] = "prepare"
        /\ pc[p] = "overlay" => op[p] \in {"clone", "prepare"}
        /\ pc[p] = "copy" => op[p] \in {"clone", "snapshot"} /\ disk[on[p]] # None
        /\ pc[p] \in {"wait"} \cup Recovering /\ op[p] = "snapshot" => pc[p] = "wait" /\ disk[on[p]] # None
        /\ pc[p] = "idle" => op[p] = "none"
        /\ op[p] # "clone" \/ pc[p] \in {"mwait", "clone"} => to[p] = None
        /\ pc[p] = "scan_state" => at[p] \in todo[p]

\* images/.lock is held in every phase of the store; the source of a machine
\* operation, and the destination of a clone, are locked until it ends.
LockInv ==
    \A p \in Proc :
        /\ pc[p] \in InStore => holder = p
        /\ op[p] \in MachineOps /\ pc[p] \notin Free =>
            on[p] \in stated \ making /\ mlock[on[p]] = p
        /\ op[p] = "clone" /\ pc[p] \notin Free \cup {"clone"} =>
            to[p] \in making /\ mlock[to[p]] = p

-----------------------------------------------------------------------------
(* The machines.                                                           *)

\* A clone between its state and its disk.
Cloning(p) == op[p] = "clone" /\ pc[p] \in Recovering \cup {"wait", "overlay", "copy"}

\* A disk and the snapshots are of the machine's own pin.
MachineInv ==
    /\ \A m \in Machine :
        /\ m \notin stated => pin[m] = None
        /\ disk[m] \in {None, pin[m]} /\ snaps[m] \subseteq {pin[m]}
        /\ m \in broken => disk[m] = None /\ pin[m] # None
    /\ \A p \in Proc :
        /\ pc[p] = "clone_state" => to[p] \notin stated
        /\ op[p] = "prepare" /\ pc[p] \in {"pull", "pin"} \cup Stamping \cup Publishing => pin[on[p]] = None
        /\ Cloning(p) =>
            /\ to[p] \in stated /\ pin[to[p]] = pin[on[p]] /\ pin[to[p]] # None
            /\ disk[to[p]] = None /\ (to[p] \in broken <=> on[p] \in broken)

\* What a scan has yet to find it finds: a reference that appears beside it is
\* a clone's, whose source stays as it is while the clone waits for the store.
ScanInv ==
    \A p \in Proc : pc[p] \in Scanning =>
        \A m \in stated \ broken : pin[m] # None =>
            \/ pin[m] \in found[p] \/ m \in todo[p]
            \/ \E q \in Proc : Cloning(q) /\ pc[q] = "wait" /\ to[q] = m /\ on[q] \in todo[p]

\* Once a victim is chosen all is read.
ChosenInv ==
    \A p \in Proc : pc[p] \in Scanning \ {"scan", "scan_state"} => todo[p] = {}

-----------------------------------------------------------------------------
(* The store.                                                              *)

\* The files of the image a process works on.
TargetInv ==
    \A p \in Proc :
        /\ pc[p] \in {"sidecar", "sidecar_temp", "published"} => target[p] \in base
        /\ pc[p] \in Stamping \cup {"pin", "published"} => target[p] \in Pair
        /\ pc[p] \in Publishing \cup {"unpublish", "guard"} => target[p] \in Id
        /\ pc[p] = "unpublish_base" =>
             target[p] \in base \ side /\ \A j \in Pair : gen[j] # gen[target[p]]
        /\ pc[p] \in {"sidecar_temp", "restamp_temp"} => NextGeneration <= MaxGen

\* No machine relies on an image that is being removed or published.
RelyInv ==
    \A p \in Proc : pc[p] \in {"unpublish", "unpublish_base", "guard"} \cup Publishing /\ ~forced =>
        \A m \in stated \ broken : pin[m] # target[p]

\* The images that machines rely on are complete; their snapshots add none.
Backed == ~forced => \A m \in stated \ broken : pin[m] # None => pin[m] \in Pair

StoreInv == Backed /\ SidecarHasBase /\ GenerationsDistinct

IInv == TypeOK /\ OpInv /\ LockInv /\ MachineInv /\ ScanInv /\ ChosenInv /\ TargetInv /\ RelyInv /\ StoreInv
-----------------------------------------------------------------------------
(* Operators.                                                              *)

\* A bounded set of numbers has the maximum that next_generation takes.
LEMMA Maximum ==
  ASSUME NEW n \in Nat, NEW S \in SUBSET (0..n)
  PROVE  MaxOf(S) \in S \cup {0} /\ MaxOf(S) \in 0..n /\ \A k \in S : k <= MaxOf(S)
<1> DEFINE U == {m \in Nat : \A k \in S : k <= m}
<1>1. n \in U
  OBVIOUS
<1>2. PICK u \in U : \A m \in U : ~(<<m, u>> \in OpToRel(<, Nat))
  BY <1>1, WFMin, NatLessThanWellFounded
<1>3. \A m \in U : u <= m
  <2> SUFFICES ASSUME NEW m \in U PROVE ~(m < u)
    OBVIOUS
  <2>1. m < u => <<m, u>> \in OpToRel(<, Nat)
    BY DEF OpToRel
  <2> QED
    BY <1>2, <2>1
<1>4. u \in S \cup {0}
  <2> SUFFICES ASSUME u \notin S, u # 0 PROVE FALSE
    OBVIOUS
  <2>1. u - 1 \in U
    OBVIOUS
  <2> QED
    BY <1>3, <2>1
<1>5. \E m \in S \cup {0} : \A k \in S : k <= m
  BY <1>4
<1>6. MaxOf(S) \in S \cup {0} /\ \A k \in S : k <= MaxOf(S)
  BY <1>5, Zenon DEF MaxOf
<1>7. S \cup {0} \subseteq 0..n
  OBVIOUS
<1> QED
  BY <1>6, <1>7

\* next_generation is above every complete image of the source.
LEMMA Generation ==
  ASSUME Parameters, TypeOK
  PROVE  NextGeneration \in Nat /\ \A i \in Pair : gen[i] < NextGeneration
<1>1. {gen[i] : i \in Pair} \in SUBSET (0..MaxGen)
  BY DEF TypeOK, StoreOK, Pair
<1>2. MaxGen \in Nat
  BY DEF Parameters
<1> QED
  BY <1>1, <1>2, Maximum DEF NextGeneration, TypeOK, StoreOK, Pair

\* What the pairs determine.
LEMMA SameStore ==
  ASSUME UNCHANGED <<base, side, gen>>
  PROVE  Pair' = Pair /\ NextGeneration' = NextGeneration
  BY DEF Pair, NextGeneration, MaxOf

-----------------------------------------------------------------------------
(* Types.                                                                  *)

\* The store keeps its types.
LEMMA StoreTypes ==
  ASSUME Parameters, TypeOK, TargetInv, [Next]_vars
  PROVE  StoreOK'
<1> USE DEF Parameters, TypeOK, StoreOK, store, history
<1>1. ASSUME NEW p \in Proc, Begin(p) \/ LockMachine(p) \/ Lock(p) \/ Done(p) \/
       Fails(p) \/ Recover(p) \/ Recovered(p) \/ ReadDirs(p) \/ ScanSnapshots(p) \/
       ScanState(p) \/ ScannedHalves(p) \/ NoVictim(p) \/ PullFails(p) \/ Prepare(p) \/
       Pin(p) \/ Overlay(p) \/ CloneMarks(p) \/ CloneFindsDocuments(p) \/
       CloneWrites(p) \/ CloneUnmarks(p) \/ Copy(p) \/ Capture(p) \/
       PublishSnapshot(p) \/ UnlinkMachine(p) PROVE StoreOK'
  BY <1>1 DEF Begin, LockMachine, Lock, Done, Fails, Recover, Recovered, ReadDirs,
              ScanSnapshots, ScanState, ScannedHalves, NoVictim, PullFails, Prepare, Pin,
              Overlay, CloneMarks, CloneFindsDocuments, CloneWrites, CloneUnmarks, Copy,
              Capture, PublishSnapshot, UnlinkMachine
<1>2. ASSUME NEW p \in Proc, Clean(p) \/ PrunePartials(p) \/ Pulled(p)
     PROVE StoreOK'
  BY <1>2 DEF Clean, PrunePartials, Pulled
<1>3. ASSUME NEW p \in Proc, MoveBase(p) \/ DropTomb(p) \/ DropHalf(p)
     PROVE StoreOK'
  BY <1>3 DEF MoveBase, DropTomb, DropHalf, Pair, Tombs
<1>4. ASSUME NEW p \in Proc, ChooseVictim(p) PROVE StoreOK'
  <2>1. forced' \in BOOLEAN
    BY <1>4 DEF ChooseVictim
  <2> QED
    BY <1>4, <2>1 DEF ChooseVictim
<1>5. ASSUME NEW p \in Proc, Unpublish(p) \/ UnpublishBase(p) PROVE StoreOK'
  BY <1>5 DEF Unpublish, UnpublishBase, Pair
<1>6. ASSUME NEW p \in Proc, RestoreSidecar(p) \/ DropSideTomb(p) \/ DropBaseTomb(p)
     PROVE StoreOK'
  BY <1>6 DEF RestoreSidecar, DropSideTomb, DropBaseTomb, Step, At, TargetInv
<1>7. ASSUME NEW p \in Proc, Stage(p) PROVE StoreOK'
  BY <1>7 DEF Stage
<1>8. ASSUME NEW p \in Proc, PublishBase(p) \/ WriteSidecarTemp(p) PROVE StoreOK'
  BY <1>8 DEF PublishBase, WriteSidecarTemp, Step, At, TargetInv, Publishing, Stamping, Pair
<1>9. ASSUME NEW p \in Proc, PublishSidecar(p) PROVE StoreOK'
  <2>1. target[p] \in Id /\ NextGeneration \in 0..MaxGen
    BY <1>9, Generation DEF PublishSidecar, Step, At, TargetInv, Publishing, Stamping, Pair
  <2> QED
    BY <1>9, <2>1 DEF PublishSidecar
<1>10. ASSUME NEW p \in Proc, Guard(p) PROVE StoreOK'
  BY <1>10 DEF Guard
<1>11. CASE UNCHANGED vars
  BY <1>11 DEF vars
<1> QED
  BY <1>1, <1>2, <1>3, <1>4, <1>5, <1>6, <1>7, <1>8, <1>9, <1>10, <1>11 DEF Next, Operation

\* The machines and the locks keep theirs.
LEMMA MachineTypes ==
  ASSUME Parameters, TypeOK, OpInv, LockInv, TargetInv, [Next]_vars
  PROVE  MachinesOK'
<1> USE DEF Parameters, TypeOK, MachinesOK, machines, history
<1>1. ASSUME NEW p \in Proc, Begin(p) \/ Clean(p) \/ PrunePartials(p) \/ MoveBase(p) \/
       DropTomb(p) \/ Recover(p) \/ DropHalf(p) \/ Recovered(p) \/ ReadDirs(p) \/
       ScanSnapshots(p) \/ ScanState(p) \/ ScannedHalves(p) \/ ChooseVictim(p) \/
       NoVictim(p) \/ Unpublish(p) \/ UnpublishBase(p) \/ RestoreSidecar(p) \/
       DropSideTomb(p) \/ DropBaseTomb(p) \/ Stage(p) \/ PublishBase(p) \/
       WriteSidecarTemp(p) \/ PublishSidecar(p) \/ Pulled(p) \/ PullFails(p) \/
       Guard(p) \/ Prepare(p) \/ Capture(p) PROVE MachinesOK'
  BY <1>1 DEF Begin, Clean, PrunePartials, MoveBase, DropTomb, Recover, DropHalf,
              Recovered, ReadDirs, ScanSnapshots, ScanState, ScannedHalves, ChooseVictim,
              NoVictim, Unpublish, UnpublishBase, RestoreSidecar, DropSideTomb,
              DropBaseTomb, Stage, PublishBase, WriteSidecarTemp, PublishSidecar, Pulled,
              PullFails, Guard, Prepare, Capture
<1>2. ASSUME NEW p \in Proc, LockMachine(p) \/ Lock(p) PROVE MachinesOK'
  BY <1>2 DEF LockMachine, Lock
<1>3. ASSUME NEW p \in Proc, Done(p) PROVE MachinesOK'
  BY <1>3 DEF Done, FreeLocks
<1>4. ASSUME NEW p \in Proc, Fails(p) PROVE MachinesOK'
  BY <1>4 DEF Fails, FreeLocks
<1>5. ASSUME NEW p \in Proc, Pin(p) PROVE MachinesOK'
  BY <1>5 DEF Pin, ProcessesOK, Step, At, TargetInv, StoreOK, Pair
<1>6. ASSUME NEW p \in Proc, Overlay(p) PROVE MachinesOK'
  BY <1>6 DEF Overlay, Pair, StoreOK
<1>7. ASSUME NEW p \in Proc, CloneMarks(p) PROVE MachinesOK'
  BY <1>7 DEF CloneMarks
<1>8. ASSUME NEW p \in Proc, CloneFindsDocuments(p) PROVE MachinesOK'
  BY <1>8 DEF CloneFindsDocuments
<1>9. ASSUME NEW p \in Proc, CloneWrites(p) PROVE MachinesOK'
  BY <1>9 DEF CloneWrites, Step, At, OpInv, LockInv, MachineOps, Free
<1>10. ASSUME NEW p \in Proc, CloneUnmarks(p) PROVE MachinesOK'
  BY <1>10 DEF CloneUnmarks
<1>11. ASSUME NEW p \in Proc, Copy(p) PROVE MachinesOK'
  BY <1>11 DEF Copy, At, OpInv, LockInv, MachineOps, Free
<1>12. ASSUME NEW p \in Proc, PublishSnapshot(p) PROVE MachinesOK'
  BY <1>12 DEF PublishSnapshot, Step, At, OpInv, LockInv, MachineOps, Free
<1>13. ASSUME NEW p \in Proc, UnlinkMachine(p) PROVE MachinesOK'
  BY <1>13 DEF UnlinkMachine, Step, At, OpInv, LockInv, MachineOps, Free
<1>14. CASE UNCHANGED vars
  BY <1>14 DEF vars
<1> QED
  BY <1>1, <1>2, <1>3, <1>4, <1>5, <1>6, <1>7, <1>8, <1>9, <1>10, <1>11, <1>12, <1>13,
     <1>14 DEF Next, Operation

\* So do the processes.
LEMMA ProcessTypes ==
  ASSUME Parameters, TypeOK, [Next]_vars
  PROVE  ProcessesOK'
<1> USE DEF Parameters, TypeOK, ProcessesOK, local
<1>1. ASSUME NEW p \in Proc, Lock(p) \/ Done(p) \/ Fails(p) \/ Clean(p) \/
       PrunePartials(p) \/ MoveBase(p) \/ DropTomb(p) \/ DropHalf(p) \/ Recovered(p) \/
       ScannedHalves(p) \/ NoVictim(p) \/ Unpublish(p) \/ UnpublishBase(p) \/
       RestoreSidecar(p) \/ DropSideTomb(p) \/ PublishBase(p) \/ WriteSidecarTemp(p) \/
       PublishSidecar(p) \/ Pulled(p) \/ PullFails(p) \/ Guard(p) \/ Pin(p) \/
       Overlay(p) \/ CloneFindsDocuments(p) \/ CloneWrites(p) \/ CloneUnmarks(p) \/
       Copy(p) \/ Capture(p) \/ PublishSnapshot(p) \/ UnlinkMachine(p)
     PROVE ProcessesOK'
  BY <1>1 DEF Lock, Done, Fails, Clean, PrunePartials, MoveBase, DropTomb, DropHalf,
              Recovered, ScannedHalves, NoVictim, Unpublish, UnpublishBase, RestoreSidecar,
              DropSideTomb, PublishBase, WriteSidecarTemp, PublishSidecar, Pulled,
              PullFails, Guard, Pin, Overlay, CloneFindsDocuments, CloneWrites,
              CloneUnmarks, Copy, Capture, PublishSnapshot, UnlinkMachine
<1>2. ASSUME NEW p \in Proc, Begin(p) PROVE ProcessesOK'
  BY <1>2 DEF Begin
<1>3. ASSUME NEW p \in Proc, LockMachine(p) PROVE ProcessesOK'
  BY <1>3 DEF LockMachine, MachinesOK
<1>4. ASSUME NEW p \in Proc, Recover(p) \/ ReadDirs(p) PROVE ProcessesOK'
  BY <1>4 DEF Recover, ReadDirs, MachinesOK
<1>5. ASSUME NEW p \in Proc, ScanSnapshots(p) PROVE ProcessesOK'
  BY <1>5 DEF ScanSnapshots, MachinesOK
<1>6. ASSUME NEW p \in Proc, ScanState(p) PROVE ProcessesOK'
  BY <1>6 DEF ScanState, MachinesOK
<1>7. ASSUME NEW p \in Proc, ChooseVictim(p) PROVE ProcessesOK'
  BY <1>7 DEF ChooseVictim, Pair, StoreOK
<1>8. ASSUME NEW p \in Proc, DropBaseTomb(p) \/ Stage(p) PROVE ProcessesOK'
  BY <1>8 DEF DropBaseTomb, Stage
<1>9. ASSUME NEW p \in Proc, Prepare(p) PROVE ProcessesOK'
  BY <1>9 DEF Prepare, Pair, Latest, StoreOK
<1>10. ASSUME NEW p \in Proc, CloneMarks(p) PROVE ProcessesOK'
  BY <1>10 DEF CloneMarks, MachinesOK
<1>11. CASE UNCHANGED vars
  BY <1>11 DEF vars
<1> QED
  BY <1>1, <1>2, <1>3, <1>4, <1>5, <1>6, <1>7, <1>8, <1>9, <1>10, <1>11 DEF Next, Operation

-----------------------------------------------------------------------------
(* The invariant is preserved.                                             *)

\* An operation stays in its phases.
LEMMA OpStep ==
  ASSUME Parameters, TypeOK, OpInv, LockInv, [Next]_vars
  PROVE  OpInv'
<1> USE DEF Parameters, TypeOK, OpInv, ProcessesOK, Phase, MachineOps, AllOps, InStore,
            Recovering, Scanning, Stamping, Publishing, Free, Goto, At, Step, local,
            machines
<1>1. ASSUME NEW p \in Proc, Begin(p) PROVE OpInv'
  BY <1>1 DEF Begin
<1>2. ASSUME NEW p \in Proc, LockMachine(p) PROVE OpInv'
  BY <1>2 DEF LockMachine
<1>3. ASSUME NEW p \in Proc, Lock(p) PROVE OpInv'
  BY <1>3 DEF Lock
<1>4. ASSUME NEW p \in Proc, Done(p) PROVE OpInv'
  BY <1>4 DEF Done
<1>5. ASSUME NEW p \in Proc, Fails(p) PROVE OpInv'
  BY <1>5 DEF Fails
<1>6. ASSUME NEW p \in Proc, Clean(p) \/ PrunePartials(p) \/ MoveBase(p) \/ DropTomb(p)
     PROVE OpInv'
  BY <1>6 DEF Clean, PrunePartials, MoveBase, DropTomb
<1>7. ASSUME NEW p \in Proc, Recover(p) PROVE OpInv'
  BY <1>7 DEF Recover
<1>8. ASSUME NEW p \in Proc, DropHalf(p) PROVE OpInv'
  BY <1>8 DEF DropHalf
<1>9. ASSUME NEW p \in Proc, Recovered(p) PROVE OpInv'
  BY <1>9 DEF Recovered
<1>10. ASSUME NEW p \in Proc, ReadDirs(p) PROVE OpInv'
  BY <1>10 DEF ReadDirs
<1>11. ASSUME NEW p \in Proc, ScanSnapshots(p) PROVE OpInv'
  BY <1>11 DEF ScanSnapshots
<1>12. ASSUME NEW p \in Proc, ScanState(p) PROVE OpInv'
  BY <1>12 DEF ScanState
<1>13. ASSUME NEW p \in Proc, ScannedHalves(p) \/ NoVictim(p) PROVE OpInv'
  BY <1>13 DEF ScannedHalves, NoVictim
<1>14. ASSUME NEW p \in Proc, ChooseVictim(p) PROVE OpInv'
  BY <1>14 DEF ChooseVictim
<1>15. ASSUME NEW p \in Proc, Unpublish(p) \/ UnpublishBase(p) \/ RestoreSidecar(p)
     PROVE OpInv'
  BY <1>15 DEF Unpublish, UnpublishBase, RestoreSidecar
<1>16. ASSUME NEW p \in Proc, DropSideTomb(p) \/ DropBaseTomb(p) PROVE OpInv'
  BY <1>16 DEF DropSideTomb, DropBaseTomb
<1>17. ASSUME NEW p \in Proc, Stage(p) PROVE OpInv'
  BY <1>17 DEF Stage
<1>18. ASSUME NEW p \in Proc, PublishBase(p) \/ WriteSidecarTemp(p) \/ PublishSidecar(p)
     PROVE OpInv'
  BY <1>18 DEF PublishBase, WriteSidecarTemp, PublishSidecar
<1>19. ASSUME NEW p \in Proc, Pulled(p) \/ PullFails(p) \/ Guard(p) PROVE OpInv'
  BY <1>19 DEF Pulled, PullFails, Guard
<1>20. ASSUME NEW p \in Proc, Prepare(p) \/ Pin(p) PROVE OpInv'
  BY <1>20 DEF Prepare, Pin
<1>21. ASSUME NEW p \in Proc, Overlay(p) PROVE OpInv'
  BY <1>21 DEF Overlay, LockInv, MachinesOK
<1>22. ASSUME NEW p \in Proc, CloneMarks(p) PROVE OpInv'
  BY <1>22 DEF CloneMarks
<1>23. ASSUME NEW p \in Proc, CloneFindsDocuments(p) PROVE OpInv'
  BY <1>23 DEF CloneFindsDocuments
<1>24. ASSUME NEW p \in Proc, CloneUnmarks(p) PROVE OpInv'
  BY <1>24 DEF CloneUnmarks
<1>25. ASSUME NEW p \in Proc, Capture(p) PROVE OpInv'
  BY <1>25 DEF Capture
<1>26. ASSUME NEW p \in Proc, PublishSnapshot(p) PROVE OpInv'
  BY <1>26 DEF PublishSnapshot
<1>27. ASSUME NEW p \in Proc, CloneWrites(p) PROVE OpInv'
  BY <1>27 DEF CloneWrites, LockInv, MachinesOK
<1>28. ASSUME NEW p \in Proc, Copy(p) PROVE OpInv'
  BY <1>28 DEF Copy, LockInv, MachinesOK
<1>29. ASSUME NEW p \in Proc, UnlinkMachine(p) PROVE OpInv'
  BY <1>29 DEF UnlinkMachine, LockInv, MachinesOK
<1>30. CASE UNCHANGED vars
  BY <1>30 DEF vars
<1> QED
  BY <1>1, <1>2, <1>3, <1>4, <1>5, <1>6, <1>7, <1>8, <1>9, <1>10, <1>11, <1>12, <1>13,
     <1>14, <1>15, <1>16, <1>17, <1>18, <1>19, <1>20, <1>21, <1>22, <1>23, <1>24, <1>25,
     <1>26, <1>27, <1>28, <1>29, <1>30 DEF Next, Operation

\* The locks are held where the invariant says.
LEMMA LockStep ==
  ASSUME Parameters, TypeOK, OpInv, LockInv, [Next]_vars
  PROVE  LockInv'
<1> USE DEF Parameters, TypeOK, LockInv, ProcessesOK, MachinesOK, OpInv, MachineOps,
            InStore, Recovering, Scanning, Stamping, Publishing, Free, Goto, At, Step,
            local, machines
<1>1. ASSUME NEW p \in Proc, Begin(p) PROVE LockInv'
  BY <1>1 DEF Begin
<1>2. ASSUME NEW p \in Proc, LockMachine(p) PROVE LockInv'
  BY <1>2 DEF LockMachine
<1>3. ASSUME NEW p \in Proc, Lock(p) PROVE LockInv'
  BY <1>3 DEF Lock
<1>4. ASSUME NEW p \in Proc, Done(p) PROVE LockInv'
  BY <1>4 DEF Done, FreeLocks
<1>5. ASSUME NEW p \in Proc, Fails(p) PROVE LockInv'
  BY <1>5 DEF Fails, FreeLocks
<1>6. ASSUME NEW p \in Proc, Clean(p) \/ PrunePartials(p) \/ MoveBase(p) \/ DropTomb(p)
     PROVE LockInv'
  BY <1>6 DEF Clean, PrunePartials, MoveBase, DropTomb
<1>7. ASSUME NEW p \in Proc, Recover(p) PROVE LockInv'
  BY <1>7 DEF Recover
<1>8. ASSUME NEW p \in Proc, DropHalf(p) PROVE LockInv'
  BY <1>8 DEF DropHalf
<1>9. ASSUME NEW p \in Proc, Recovered(p) PROVE LockInv'
  BY <1>9 DEF Recovered
<1>10. ASSUME NEW p \in Proc, ReadDirs(p) PROVE LockInv'
  BY <1>10 DEF ReadDirs
<1>11. ASSUME NEW p \in Proc, ScanSnapshots(p) PROVE LockInv'
  BY <1>11 DEF ScanSnapshots
<1>12. ASSUME NEW p \in Proc, ScanState(p) PROVE LockInv'
  BY <1>12 DEF ScanState
<1>13. ASSUME NEW p \in Proc, ScannedHalves(p) \/ NoVictim(p) PROVE LockInv'
  BY <1>13 DEF ScannedHalves, NoVictim
<1>14. ASSUME NEW p \in Proc, ChooseVictim(p) PROVE LockInv'
  BY <1>14 DEF ChooseVictim
<1>15. ASSUME NEW p \in Proc, Unpublish(p) \/ UnpublishBase(p) \/ RestoreSidecar(p)
     PROVE LockInv'
  BY <1>15 DEF Unpublish, UnpublishBase, RestoreSidecar
<1>16. ASSUME NEW p \in Proc, DropSideTomb(p) \/ DropBaseTomb(p) PROVE LockInv'
  BY <1>16 DEF DropSideTomb, DropBaseTomb
<1>17. ASSUME NEW p \in Proc, Stage(p) PROVE LockInv'
  BY <1>17 DEF Stage
<1>18. ASSUME NEW p \in Proc, PublishBase(p) \/ WriteSidecarTemp(p) \/ PublishSidecar(p)
     PROVE LockInv'
  BY <1>18 DEF PublishBase, WriteSidecarTemp, PublishSidecar
<1>19. ASSUME NEW p \in Proc, Pulled(p) \/ PullFails(p) \/ Guard(p) PROVE LockInv'
  BY <1>19 DEF Pulled, PullFails, Guard
<1>20. ASSUME NEW p \in Proc, Prepare(p) \/ Pin(p) PROVE LockInv'
  BY <1>20 DEF Prepare, Pin
<1>21. ASSUME NEW p \in Proc, Overlay(p) PROVE LockInv'
  BY <1>21 DEF Overlay
<1>22. ASSUME NEW p \in Proc, CloneMarks(p) PROVE LockInv'
  BY <1>22 DEF CloneMarks
<1>23. ASSUME NEW p \in Proc, CloneFindsDocuments(p) PROVE LockInv'
  BY <1>23 DEF CloneFindsDocuments
<1>24. ASSUME NEW p \in Proc, CloneUnmarks(p) PROVE LockInv'
  BY <1>24 DEF CloneUnmarks
<1>25. ASSUME NEW p \in Proc, CloneWrites(p) PROVE LockInv'
  BY <1>25 DEF CloneWrites
<1>26. ASSUME NEW p \in Proc, Copy(p) PROVE LockInv'
  BY <1>26 DEF Copy
<1>27. ASSUME NEW p \in Proc, Capture(p) PROVE LockInv'
  BY <1>27 DEF Capture
<1>28. ASSUME NEW p \in Proc, PublishSnapshot(p) PROVE LockInv'
  BY <1>28 DEF PublishSnapshot
<1>29. ASSUME NEW p \in Proc, UnlinkMachine(p) PROVE LockInv'
  BY <1>29 DEF UnlinkMachine
<1>30. CASE UNCHANGED vars
  BY <1>30 DEF vars
<1> QED
  BY <1>1, <1>2, <1>3, <1>4, <1>5, <1>6, <1>7, <1>8, <1>9, <1>10, <1>11, <1>12, <1>13,
     <1>14, <1>15, <1>16, <1>17, <1>18, <1>19, <1>20, <1>21, <1>22, <1>23, <1>24, <1>25,
     <1>26, <1>27, <1>28, <1>29, <1>30 DEF Next, Operation

\* A machine's disk and snapshots stay those of its pin.
LEMMA MachineStep ==
  ASSUME Parameters, TypeOK, OpInv, LockInv, MachineInv, TargetInv, [Next]_vars
  PROVE  MachineInv'
<1> USE DEF Parameters, TypeOK, LockInv, ProcessesOK, MachinesOK, OpInv, MachineInv,
            Cloning, MachineOps, history, InStore, Recovering, Scanning, Stamping,
            Publishing, Free, Goto, At, Step, local, machines
<1>1. ASSUME NEW p \in Proc, Begin(p) PROVE MachineInv'
  BY <1>1 DEF Begin
<1>2. ASSUME NEW p \in Proc, LockMachine(p) PROVE MachineInv'
  BY <1>2 DEF LockMachine
<1>3. ASSUME NEW p \in Proc, Lock(p) PROVE MachineInv'
  BY <1>3 DEF Lock
<1>4. ASSUME NEW p \in Proc, Done(p) PROVE MachineInv'
  BY <1>4 DEF Done
<1>5. ASSUME NEW p \in Proc, Fails(p) PROVE MachineInv'
  <2>1. \A q \in Proc \ {p} : pc'[q] = pc[q] /\ (Cloning(q) => to[q] # to[p] /\ on[q] # to[p])
    BY <1>5 DEF Fails
  <2>2. pc'[p] = "over" /\ \A m \in broken' \ broken : m = to[p] /\ disk[m] = None /\ pin[m] # None
    BY <1>5 DEF Fails
  <2>3. broken \subseteq broken' /\ UNCHANGED <<machines, op, on, to>>
    BY <1>5 DEF Fails
  <2> QED
    BY <1>5, <2>1, <2>2, <2>3
<1>6. ASSUME NEW p \in Proc, Clean(p) \/ PrunePartials(p) \/ MoveBase(p) \/ DropTomb(p)
     PROVE MachineInv'
  BY <1>6 DEF Clean, PrunePartials, MoveBase, DropTomb
<1>7. ASSUME NEW p \in Proc, Recover(p) PROVE MachineInv'
  BY <1>7 DEF Recover
<1>8. ASSUME NEW p \in Proc, DropHalf(p) PROVE MachineInv'
  BY <1>8 DEF DropHalf
<1>9. ASSUME NEW p \in Proc, Recovered(p) PROVE MachineInv'
  BY <1>9 DEF Recovered
<1>10. ASSUME NEW p \in Proc, ReadDirs(p) PROVE MachineInv'
  BY <1>10 DEF ReadDirs
<1>11. ASSUME NEW p \in Proc, ScanSnapshots(p) PROVE MachineInv'
  BY <1>11 DEF ScanSnapshots
<1>12. ASSUME NEW p \in Proc, ScanState(p) PROVE MachineInv'
  BY <1>12 DEF ScanState
<1>13. ASSUME NEW p \in Proc, ScannedHalves(p) \/ NoVictim(p) PROVE MachineInv'
  BY <1>13 DEF ScannedHalves, NoVictim
<1>14. ASSUME NEW p \in Proc, ChooseVictim(p) PROVE MachineInv'
  BY <1>14 DEF ChooseVictim
<1>15. ASSUME NEW p \in Proc, Unpublish(p) \/ UnpublishBase(p) \/ RestoreSidecar(p)
     PROVE MachineInv'
  BY <1>15 DEF Unpublish, UnpublishBase, RestoreSidecar
<1>16. ASSUME NEW p \in Proc, DropSideTomb(p) \/ DropBaseTomb(p) PROVE MachineInv'
  BY <1>16 DEF DropSideTomb, DropBaseTomb
<1>17. ASSUME NEW p \in Proc, Stage(p) PROVE MachineInv'
  BY <1>17 DEF Stage
<1>18. ASSUME NEW p \in Proc, PublishBase(p) \/ WriteSidecarTemp(p) \/ PublishSidecar(p)
     PROVE MachineInv'
  BY <1>18 DEF PublishBase, WriteSidecarTemp, PublishSidecar
<1>19. ASSUME NEW p \in Proc, Pulled(p) \/ PullFails(p) \/ Guard(p) PROVE MachineInv'
  BY <1>19 DEF Pulled, PullFails, Guard
<1>20. ASSUME NEW p \in Proc, Prepare(p) PROVE MachineInv'
  BY <1>20 DEF Prepare
<1>21. ASSUME NEW p \in Proc, Pin(p) PROVE MachineInv'
  BY <1>21 DEF Pin, TargetInv, Pair, StoreOK
<1>22. ASSUME NEW p \in Proc, Overlay(p) PROVE MachineInv'
  BY <1>22 DEF Overlay, Pair, StoreOK
<1>23. ASSUME NEW p \in Proc, CloneMarks(p) PROVE MachineInv'
  BY <1>23 DEF CloneMarks
<1>24. ASSUME NEW p \in Proc, CloneFindsDocuments(p) PROVE MachineInv'
  BY <1>24 DEF CloneFindsDocuments
<1>25. ASSUME NEW p \in Proc, CloneUnmarks(p) PROVE MachineInv'
  BY <1>25 DEF CloneUnmarks
<1>26. ASSUME NEW p \in Proc, CloneWrites(p) PROVE MachineInv'
  BY <1>26 DEF CloneWrites
<1>27. ASSUME NEW p \in Proc, Copy(p) PROVE MachineInv'
  BY <1>27 DEF Copy
<1>28. ASSUME NEW p \in Proc, Capture(p) PROVE MachineInv'
  BY <1>28 DEF Capture
<1>29. ASSUME NEW p \in Proc, PublishSnapshot(p) PROVE MachineInv'
  BY <1>29 DEF PublishSnapshot
<1>30. ASSUME NEW p \in Proc, UnlinkMachine(p) PROVE MachineInv'
  BY <1>30 DEF UnlinkMachine
<1>31. CASE UNCHANGED vars
  BY <1>31 DEF vars
<1> QED
  BY <1>1, <1>2, <1>3, <1>4, <1>5, <1>6, <1>7, <1>8, <1>9, <1>10, <1>11, <1>12, <1>13,
     <1>14, <1>15, <1>16, <1>17, <1>18, <1>19, <1>20, <1>21, <1>22, <1>23, <1>24, <1>25,
     <1>26, <1>27, <1>28, <1>29, <1>30, <1>31 DEF Next, Operation

\* No reference escapes a scan.
LEMMA ScanStep ==
  ASSUME Parameters, TypeOK, OpInv, LockInv, MachineInv, ScanInv, ChosenInv, [Next]_vars
  PROVE  ScanInv'
<1> USE DEF Parameters, TypeOK, LockInv, ProcessesOK, MachinesOK, OpInv, MachineInv,
            ScanInv, Cloning, MachineOps, history, InStore, Recovering, Scanning, Stamping,
            Publishing, Free, Goto, At, Step, local, machines
<1>1. ASSUME NEW p \in Proc, Begin(p) PROVE ScanInv'
  BY <1>1 DEF Begin
<1>2. ASSUME NEW p \in Proc, LockMachine(p) PROVE ScanInv'
  BY <1>2 DEF LockMachine
<1>3. ASSUME NEW p \in Proc, Lock(p) PROVE ScanInv'
  BY <1>3 DEF Lock
<1>4. ASSUME NEW p \in Proc, Done(p) PROVE ScanInv'
  BY <1>4 DEF Done, FreeLocks
<1>5. ASSUME NEW p \in Proc, Fails(p) PROVE ScanInv'
  BY <1>5 DEF Fails, FreeLocks
<1>6. ASSUME NEW p \in Proc, Clean(p) \/ PrunePartials(p) \/ MoveBase(p) \/ DropTomb(p)
     PROVE ScanInv'
  BY <1>6 DEF Clean, PrunePartials, MoveBase, DropTomb
<1>7. ASSUME NEW p \in Proc, Recover(p) PROVE ScanInv'
  BY <1>7 DEF Recover
<1>8. ASSUME NEW p \in Proc, DropHalf(p) PROVE ScanInv'
  BY <1>8 DEF DropHalf
<1>9. ASSUME NEW p \in Proc, Recovered(p) PROVE ScanInv'
  BY <1>9 DEF Recovered
<1>10. ASSUME NEW p \in Proc, ReadDirs(p) PROVE ScanInv'
  BY <1>10 DEF ReadDirs
<1>11. ASSUME NEW p \in Proc, ScanSnapshots(p) PROVE ScanInv'
  BY <1>11 DEF ScanSnapshots
<1>12. ASSUME NEW p \in Proc, ScanState(p) PROVE ScanInv'
  BY <1>12 DEF ScanState
<1>13. ASSUME NEW p \in Proc, ScannedHalves(p) \/ NoVictim(p) PROVE ScanInv'
  BY <1>13 DEF ScannedHalves, NoVictim
<1>14. ASSUME NEW p \in Proc, ChooseVictim(p) PROVE ScanInv'
  BY <1>14 DEF ChooseVictim
<1>15. ASSUME NEW p \in Proc, Unpublish(p) \/ UnpublishBase(p) \/ RestoreSidecar(p)
     PROVE ScanInv'
  BY <1>15 DEF Unpublish, UnpublishBase, RestoreSidecar
<1>16. ASSUME NEW p \in Proc, DropSideTomb(p) \/ DropBaseTomb(p) PROVE ScanInv'
  BY <1>16 DEF DropSideTomb, DropBaseTomb
<1>17. ASSUME NEW p \in Proc, Stage(p) PROVE ScanInv'
  BY <1>17 DEF Stage
<1>18. ASSUME NEW p \in Proc, PublishBase(p) \/ WriteSidecarTemp(p) \/ PublishSidecar(p)
     PROVE ScanInv'
  BY <1>18 DEF PublishBase, WriteSidecarTemp, PublishSidecar
<1>19. ASSUME NEW p \in Proc, Pulled(p) \/ PullFails(p) \/ Guard(p) PROVE ScanInv'
  BY <1>19 DEF Pulled, PullFails, Guard
<1>20. ASSUME NEW p \in Proc, Prepare(p) PROVE ScanInv'
  BY <1>20 DEF Prepare
<1>21. ASSUME NEW p \in Proc, Pin(p) PROVE ScanInv'
  BY <1>21 DEF Pin
<1>22. ASSUME NEW p \in Proc, Overlay(p) PROVE ScanInv'
  BY <1>22 DEF Overlay
<1>23. ASSUME NEW p \in Proc, CloneMarks(p) PROVE ScanInv'
  BY <1>23 DEF CloneMarks
<1>24. ASSUME NEW p \in Proc, CloneFindsDocuments(p) PROVE ScanInv'
  BY <1>24 DEF CloneFindsDocuments
<1>25. ASSUME NEW p \in Proc, CloneUnmarks(p) PROVE ScanInv'
  BY <1>25 DEF CloneUnmarks
<1>26. ASSUME NEW p \in Proc, CloneWrites(p) PROVE ScanInv'
  BY <1>26 DEF CloneWrites
<1>27. ASSUME NEW p \in Proc, Copy(p) PROVE ScanInv'
  BY <1>27 DEF Copy
<1>28. ASSUME NEW p \in Proc, Capture(p) PROVE ScanInv'
  BY <1>28 DEF Capture
<1>29. ASSUME NEW p \in Proc, PublishSnapshot(p) PROVE ScanInv'
  BY <1>29 DEF PublishSnapshot
<1>30. ASSUME NEW p \in Proc, UnlinkMachine(p) PROVE ScanInv'
  BY <1>30 DEF UnlinkMachine
<1>31. CASE UNCHANGED vars
  BY <1>31 DEF vars
<1> QED
  BY <1>1, <1>2, <1>3, <1>4, <1>5, <1>6, <1>7, <1>8, <1>9, <1>10, <1>11, <1>12, <1>13,
     <1>14, <1>15, <1>16, <1>17, <1>18, <1>19, <1>20, <1>21, <1>22, <1>23, <1>24, <1>25,
     <1>26, <1>27, <1>28, <1>29, <1>30, <1>31 DEF Next, Operation

\* All is read before a victim is chosen.
LEMMA ChosenStep ==
  ASSUME Parameters, TypeOK, OpInv, ChosenInv, [Next]_vars
  PROVE  ChosenInv'
<1> USE DEF Parameters, TypeOK, ProcessesOK, OpInv, ChosenInv, Scanning, Goto, At, Step,
            local, machines
<1>1. ASSUME NEW p \in Proc, Begin(p) PROVE ChosenInv'
  BY <1>1 DEF Begin
<1>2. ASSUME NEW p \in Proc, LockMachine(p) PROVE ChosenInv'
  BY <1>2 DEF LockMachine
<1>3. ASSUME NEW p \in Proc, Lock(p) PROVE ChosenInv'
  BY <1>3 DEF Lock
<1>4. ASSUME NEW p \in Proc, Done(p) PROVE ChosenInv'
  BY <1>4 DEF Done
<1>5. ASSUME NEW p \in Proc, Fails(p) PROVE ChosenInv'
  BY <1>5 DEF Fails
<1>6. ASSUME NEW p \in Proc, Clean(p) \/ PrunePartials(p) \/ MoveBase(p) \/ DropTomb(p)
     PROVE ChosenInv'
  BY <1>6 DEF Clean, PrunePartials, MoveBase, DropTomb
<1>7. ASSUME NEW p \in Proc, Recover(p) PROVE ChosenInv'
  BY <1>7 DEF Recover
<1>8. ASSUME NEW p \in Proc, DropHalf(p) PROVE ChosenInv'
  BY <1>8 DEF DropHalf
<1>9. ASSUME NEW p \in Proc, Recovered(p) PROVE ChosenInv'
  BY <1>9 DEF Recovered
<1>10. ASSUME NEW p \in Proc, ReadDirs(p) PROVE ChosenInv'
  BY <1>10 DEF ReadDirs
<1>11. ASSUME NEW p \in Proc, ScanSnapshots(p) PROVE ChosenInv'
  BY <1>11 DEF ScanSnapshots
<1>12. ASSUME NEW p \in Proc, ScanState(p) PROVE ChosenInv'
  BY <1>12 DEF ScanState
<1>13. ASSUME NEW p \in Proc, ScannedHalves(p) \/ NoVictim(p) PROVE ChosenInv'
  BY <1>13 DEF ScannedHalves, NoVictim
<1>14. ASSUME NEW p \in Proc, ChooseVictim(p) PROVE ChosenInv'
  BY <1>14 DEF ChooseVictim
<1>15. ASSUME NEW p \in Proc, Unpublish(p) \/ UnpublishBase(p) \/ RestoreSidecar(p)
     PROVE ChosenInv'
  BY <1>15 DEF Unpublish, UnpublishBase, RestoreSidecar
<1>16. ASSUME NEW p \in Proc, DropSideTomb(p) \/ DropBaseTomb(p) PROVE ChosenInv'
  BY <1>16 DEF DropSideTomb, DropBaseTomb
<1>17. ASSUME NEW p \in Proc, Stage(p) PROVE ChosenInv'
  BY <1>17 DEF Stage
<1>18. ASSUME NEW p \in Proc, PublishBase(p) \/ WriteSidecarTemp(p) \/ PublishSidecar(p)
     PROVE ChosenInv'
  BY <1>18 DEF PublishBase, WriteSidecarTemp, PublishSidecar
<1>19. ASSUME NEW p \in Proc, Pulled(p) \/ PullFails(p) \/ Guard(p) PROVE ChosenInv'
  BY <1>19 DEF Pulled, PullFails, Guard
<1>20. ASSUME NEW p \in Proc, Prepare(p) \/ Pin(p) \/ Overlay(p) PROVE ChosenInv'
  BY <1>20 DEF Prepare, Pin, Overlay
<1>21. ASSUME NEW p \in Proc, CloneMarks(p) \/ CloneFindsDocuments(p) \/
       CloneUnmarks(p) \/ CloneWrites(p) PROVE ChosenInv'
  BY <1>21 DEF CloneMarks, CloneFindsDocuments, CloneUnmarks, CloneWrites
<1>22. ASSUME NEW p \in Proc, Copy(p) \/ Capture(p) \/ PublishSnapshot(p) \/
       UnlinkMachine(p) PROVE ChosenInv'
  BY <1>22 DEF Copy, Capture, PublishSnapshot, UnlinkMachine
<1>23. CASE UNCHANGED vars
  BY <1>23 DEF vars
<1> QED
  BY <1>1, <1>2, <1>3, <1>4, <1>5, <1>6, <1>7, <1>8, <1>9, <1>10, <1>11, <1>12, <1>13,
     <1>14, <1>15, <1>16, <1>17, <1>18, <1>19, <1>20, <1>21, <1>22,
     <1>23 DEF Next, Operation

\* The files of an image follow the phases of whoever works on it.
LEMMA TargetStep ==
  ASSUME Parameters, TypeOK, OpInv, LockInv, TargetInv, StoreInv, [Next]_vars
  PROVE  TargetInv'
<1> USE DEF Parameters, TypeOK, ProcessesOK, OpInv, TargetInv, InStore, Recovering,
            Scanning, Stamping, Publishing, Free, Goto, At, Step, local, store
<1>1. ASSUME NEW p \in Proc, Begin(p) \/ LockMachine(p) PROVE TargetInv'
  <2>1. UNCHANGED <<base, side, gen>>
    BY <1>1 DEF Begin, LockMachine
  <2> QED
    BY <1>1, <2>1, SameStore DEF Begin, LockMachine
<1>2. ASSUME NEW p \in Proc, Lock(p) PROVE TargetInv'
  <2>1. UNCHANGED <<base, side, gen>>
    BY <1>2 DEF Lock
  <2> QED
    BY <1>2, <2>1, SameStore DEF Lock
<1>3. ASSUME NEW p \in Proc, Done(p) \/ Fails(p) PROVE TargetInv'
  <2>1. UNCHANGED <<base, side, gen>>
    BY <1>3 DEF Done, Fails
  <2> QED
    BY <1>3, <2>1, SameStore DEF Done, Fails
<1>4. ASSUME NEW p \in Proc, Clean(p) \/ PrunePartials(p) \/ DropTomb(p) \/ Recover(p)
     PROVE TargetInv'
  <2>1. UNCHANGED <<base, side, gen>>
    BY <1>4 DEF Clean, PrunePartials, DropTomb, Recover
  <2> QED
    BY <1>4, <2>1, SameStore DEF Clean, PrunePartials, DropTomb, Recover
<1>5. ASSUME NEW p \in Proc, Recovered(p) PROVE TargetInv'
  <2>1. UNCHANGED <<base, side, gen>>
    BY <1>5 DEF Recovered
  <2> QED
    BY <1>5, <2>1, SameStore DEF Recovered
<1>6. ASSUME NEW p \in Proc, ReadDirs(p) \/ ScanSnapshots(p) \/ ScanState(p)
     PROVE TargetInv'
  <2>1. UNCHANGED <<base, side, gen>>
    BY <1>6 DEF ReadDirs, ScanSnapshots, ScanState
  <2> QED
    BY <1>6, <2>1, SameStore DEF ReadDirs, ScanSnapshots, ScanState
<1>7. ASSUME NEW p \in Proc, ScannedHalves(p) \/ NoVictim(p) PROVE TargetInv'
  <2>1. UNCHANGED <<base, side, gen>>
    BY <1>7 DEF ScannedHalves, NoVictim
  <2> QED
    BY <1>7, <2>1, SameStore DEF ScannedHalves, NoVictim
<1>8. ASSUME NEW p \in Proc, DropSideTomb(p) \/ DropBaseTomb(p) PROVE TargetInv'
  <2>1. UNCHANGED <<base, side, gen>>
    BY <1>8 DEF DropSideTomb, DropBaseTomb
  <2> QED
    BY <1>8, <2>1, SameStore DEF DropSideTomb, DropBaseTomb
<1>9. ASSUME NEW p \in Proc, PullFails(p) \/ Pulled(p) PROVE TargetInv'
  <2>1. UNCHANGED <<base, side, gen>>
    BY <1>9 DEF PullFails, Pulled
  <2> QED
    BY <1>9, <2>1, SameStore DEF PullFails, Pulled
<1>10. ASSUME NEW p \in Proc, Capture(p) \/ PublishSnapshot(p) \/ UnlinkMachine(p)
     PROVE TargetInv'
  <2>1. UNCHANGED <<base, side, gen>>
    BY <1>10 DEF Capture, PublishSnapshot, UnlinkMachine
  <2> QED
    BY <1>10, <2>1, SameStore DEF Capture, PublishSnapshot, UnlinkMachine
<1>11. ASSUME NEW p \in Proc, CloneMarks(p) \/ CloneFindsDocuments(p) \/ CloneUnmarks(p)
     PROVE TargetInv'
  <2>1. UNCHANGED <<base, side, gen>>
    BY <1>11 DEF CloneMarks, CloneFindsDocuments, CloneUnmarks
  <2> QED
    BY <1>11, <2>1, SameStore DEF CloneMarks, CloneFindsDocuments, CloneUnmarks
<1>12. ASSUME NEW p \in Proc, CloneWrites(p) \/ Copy(p) PROVE TargetInv'
  <2>1. UNCHANGED <<base, side, gen>>
    BY <1>12 DEF CloneWrites, Copy
  <2> QED
    BY <1>12, <2>1, SameStore DEF CloneWrites, Copy
<1>13. ASSUME NEW p \in Proc, Overlay(p) \/ Pin(p) PROVE TargetInv'
  <2>1. UNCHANGED <<base, side, gen>>
    BY <1>13 DEF Overlay, Pin
  <2> QED
    BY <1>13, <2>1, SameStore DEF Overlay, Pin
<1>14. ASSUME NEW p \in Proc, MoveBase(p) \/ DropHalf(p) PROVE TargetInv'
  BY <1>14 DEF MoveBase, DropHalf, LockInv
<1>15. ASSUME NEW p \in Proc, ChooseVictim(p) PROVE TargetInv'
  <2>1. UNCHANGED <<base, side, gen>>
    BY <1>15 DEF ChooseVictim
  <2> QED
    BY <1>15, <2>1, SameStore DEF ChooseVictim, Pair, StoreOK
<1>16. ASSUME NEW p \in Proc, Unpublish(p) PROVE TargetInv'
  <2>1. \A q \in Proc \ {p} : pc'[q] = pc[q] /\ pc[q] \notin InStore
    BY <1>16 DEF Unpublish, LockInv
  <2>2. target[p] \in base \ side' /\ \A j \in Pair' : gen'[j] # gen'[target[p]]
    BY <1>16 DEF Unpublish, Pair, StoreInv, GenerationsDistinct
  <2> QED
    BY <1>16, <2>1, <2>2 DEF Unpublish
<1>17. ASSUME NEW p \in Proc, UnpublishBase(p) \/ RestoreSidecar(p) \/ Guard(p)
     PROVE TargetInv'
  BY <1>17 DEF UnpublishBase, RestoreSidecar, Guard, LockInv
<1>18. ASSUME NEW p \in Proc, Stage(p) PROVE TargetInv'
  <2>1. \A q \in Proc \ {p} : pc'[q] = pc[q] /\ pc[q] \notin InStore
    BY <1>18 DEF Stage, LockInv
  <2> QED
    BY <1>18, <2>1 DEF Stage, Pair
<1>19. ASSUME NEW p \in Proc, PublishBase(p) PROVE TargetInv'
  BY <1>19 DEF PublishBase, LockInv
<1>20. ASSUME NEW p \in Proc, WriteSidecarTemp(p) PROVE TargetInv'
  <2>1. UNCHANGED <<base, side, gen>>
    BY <1>20 DEF WriteSidecarTemp
  <2> QED
    BY <1>20, <2>1, SameStore DEF WriteSidecarTemp
<1>21. ASSUME NEW p \in Proc, PublishSidecar(p) PROVE TargetInv'
  <2>1. \A q \in Proc \ {p} : pc'[q] = pc[q] /\ pc[q] \notin InStore
    BY <1>21 DEF PublishSidecar, LockInv
  <2>2. pc'[p] \in {"published", "pulled"} /\ target'[p] \in base' /\ target'[p] \in Pair'
    BY <1>21 DEF PublishSidecar, Pair
  <2> QED
    BY <1>21, <2>1, <2>2 DEF PublishSidecar
<1>22. ASSUME NEW p \in Proc, Prepare(p) PROVE TargetInv'
  <2>1. UNCHANGED <<base, side, gen>>
    BY <1>22 DEF Prepare
  <2> QED
    BY <1>22, <2>1, SameStore DEF Prepare, Latest
<1>23. CASE UNCHANGED vars
  BY <1>23, SameStore DEF vars
<1> QED
  BY <1>1, <1>2, <1>3, <1>4, <1>5, <1>6, <1>7, <1>8, <1>9, <1>10, <1>11, <1>12, <1>13,
     <1>14, <1>15, <1>16, <1>17, <1>18, <1>19, <1>20, <1>21, <1>22,
     <1>23 DEF Next, Operation

\* Nobody comes to rely on an image that is going or not yet there.
LEMMA RelyStep ==
  ASSUME Parameters, TypeOK, OpInv, LockInv, MachineInv, ScanInv, ChosenInv, TargetInv, RelyInv, StoreInv, [Next]_vars
  PROVE  RelyInv'
<1> USE DEF Parameters, TypeOK, ProcessesOK, OpInv, RelyInv, history, machines, InStore,
            Recovering, Scanning, Stamping, Publishing, Free, Goto, At, Step, local
<1>1. ASSUME NEW p \in Proc, Begin(p) \/ LockMachine(p) PROVE RelyInv'
  BY <1>1 DEF Begin, LockMachine
<1>2. ASSUME NEW p \in Proc, Lock(p) PROVE RelyInv'
  BY <1>2 DEF Lock
<1>3. ASSUME NEW p \in Proc, Done(p) PROVE RelyInv'
  BY <1>3 DEF Done
<1>4. ASSUME NEW p \in Proc, Fails(p) PROVE RelyInv'
  BY <1>4 DEF Fails
<1>5. ASSUME NEW p \in Proc, Clean(p) \/ PrunePartials(p) \/ MoveBase(p) \/
       DropTomb(p) \/ Recover(p) \/ DropHalf(p) PROVE RelyInv'
  BY <1>5 DEF Clean, PrunePartials, MoveBase, DropTomb, Recover, DropHalf
<1>6. ASSUME NEW p \in Proc, Recovered(p) PROVE RelyInv'
  BY <1>6 DEF Recovered
<1>7. ASSUME NEW p \in Proc, ReadDirs(p) \/ ScanSnapshots(p) \/ ScanState(p)
     PROVE RelyInv'
  BY <1>7 DEF ReadDirs, ScanSnapshots, ScanState
<1>8. ASSUME NEW p \in Proc, ScannedHalves(p) \/ NoVictim(p) PROVE RelyInv'
  BY <1>8 DEF ScannedHalves, NoVictim
<1>9. ASSUME NEW p \in Proc, Unpublish(p) \/ UnpublishBase(p) \/ RestoreSidecar(p) \/
       DropSideTomb(p) \/ DropBaseTomb(p) PROVE RelyInv'
  BY <1>9 DEF Unpublish, UnpublishBase, RestoreSidecar, DropSideTomb, DropBaseTomb
<1>10. ASSUME NEW p \in Proc, WriteSidecarTemp(p) \/ PublishSidecar(p) \/ PublishBase(p)
     PROVE RelyInv'
  BY <1>10 DEF WriteSidecarTemp, PublishSidecar, PublishBase
<1>11. ASSUME NEW p \in Proc, PullFails(p) \/ Pulled(p) \/ Guard(p) PROVE RelyInv'
  BY <1>11 DEF PullFails, Pulled, Guard
<1>12. ASSUME NEW p \in Proc, Capture(p) \/ PublishSnapshot(p) PROVE RelyInv'
  BY <1>12 DEF Capture, PublishSnapshot
<1>13. ASSUME NEW p \in Proc, CloneMarks(p) \/ CloneFindsDocuments(p) \/ CloneUnmarks(p)
     PROVE RelyInv'
  BY <1>13 DEF CloneMarks, CloneFindsDocuments, CloneUnmarks
<1>14. ASSUME NEW p \in Proc, ChooseVictim(p) PROVE RelyInv'
  <2>1. \A q \in Proc \ {p} : pc'[q] = pc[q] /\ pc[q] \notin InStore
    BY <1>14 DEF ChooseVictim, LockInv
  <2>2. ASSUME ~forced', NEW m \in stated \ broken PROVE pin[m] # target'[p]
    <3>1. target'[p] \in Id /\ (op[p] = "force_rm_image" => target'[p] \notin References(stated))
      BY <1>14, <2>2 DEF ChooseVictim, Pair, StoreOK
    <3>2. op[p] # "force_rm_image" => target'[p] \notin found[p]
      BY <1>14 DEF ChooseVictim
    <3>3. pin[m] # None => pin[m] \in found[p]
      BY <1>14 DEF ChooseVictim, ScanInv
    <3>4. pin[m] # None => pin[m] \in References(stated)
      BY DEF References
    <3> QED
      BY <3>1, <3>2, <3>3, <3>4
  <2> QED
    BY <1>14, <2>1, <2>2 DEF ChooseVictim
<1>15. ASSUME NEW p \in Proc, Stage(p) PROVE RelyInv'
  <2>1. \A q \in Proc \ {p} : pc'[q] = pc[q] /\ pc[q] \notin InStore
    BY <1>15 DEF Stage, LockInv
  <2>2. pc'[p] = "publish" => target'[p] \in Id \ Pair
    BY <1>15 DEF Stage, Pair
  <2> QED
    BY <1>15, <2>1, <2>2 DEF Stage, StoreInv, Backed
<1>16. ASSUME NEW p \in Proc, Prepare(p) PROVE RelyInv'
  BY <1>16 DEF Prepare
<1>17. ASSUME NEW p \in Proc, Pin(p) \/ Overlay(p) PROVE RelyInv'
  BY <1>17 DEF Pin, Overlay, LockInv
<1>18. ASSUME NEW p \in Proc, CloneWrites(p) PROVE RelyInv'
  BY <1>18 DEF CloneWrites, LockInv, MachineInv, MachinesOK, MachineOps
<1>19. ASSUME NEW p \in Proc, Copy(p) PROVE RelyInv'
  BY <1>19 DEF Copy
<1>20. ASSUME NEW p \in Proc, UnlinkMachine(p) PROVE RelyInv'
  BY <1>20 DEF UnlinkMachine, MachinesOK, LockInv
<1>21. CASE UNCHANGED vars
  BY <1>21 DEF vars
<1> QED
  BY <1>1, <1>2, <1>3, <1>4, <1>5, <1>6, <1>7, <1>8, <1>9, <1>10, <1>11, <1>12, <1>13,
     <1>14, <1>15, <1>16, <1>17, <1>18, <1>19, <1>20, <1>21 DEF Next, Operation

\* What machines rely on stays complete.
LEMMA BackedStep ==
  ASSUME Parameters, TypeOK, OpInv, LockInv, MachineInv, TargetInv, RelyInv, StoreInv, [Next]_vars
  PROVE  Backed'
<1> USE DEF Parameters, StoreInv, Backed, Pair, store, history, machines, At, Step
<1>1. ASSUME NEW p \in Proc, Begin(p) \/ LockMachine(p) \/ Lock(p) \/ Done(p) \/
       Clean(p) \/ PrunePartials(p) \/ DropTomb(p) \/ Recover(p) \/ Recovered(p) \/
       ReadDirs(p) \/ ScanSnapshots(p) \/ ScanState(p) \/ ScannedHalves(p) \/ NoVictim(p)
     PROVE Backed'
  BY <1>1 DEF Begin, LockMachine, Lock, Done, Clean, PrunePartials, DropTomb, Recover,
              Recovered, ReadDirs, ScanSnapshots, ScanState, ScannedHalves, NoVictim
<1>2. ASSUME NEW p \in Proc, DropSideTomb(p) \/ DropBaseTomb(p) \/ PullFails(p) \/
       Pulled(p) \/ Capture(p) \/ PublishSnapshot(p) \/ CloneMarks(p) \/
       CloneFindsDocuments(p) \/ CloneUnmarks(p) \/ Copy(p) \/ Prepare(p) \/ Stage(p) \/
       WriteSidecarTemp(p) \/ ChooseVictim(p) PROVE Backed'
  BY <1>2 DEF DropSideTomb, DropBaseTomb, PullFails, Pulled, Capture, PublishSnapshot,
              CloneMarks, CloneFindsDocuments, CloneUnmarks, Copy, Prepare, Stage,
              WriteSidecarTemp, ChooseVictim
<1>3. ASSUME NEW p \in Proc, Fails(p) PROVE Backed'
  BY <1>3 DEF Fails
<1>4. ASSUME NEW p \in Proc, MoveBase(p) \/ DropHalf(p) PROVE Backed'
  BY <1>4 DEF MoveBase, DropHalf
<1>5. ASSUME NEW p \in Proc, Unpublish(p) \/ UnpublishBase(p) PROVE Backed'
  BY <1>5 DEF Unpublish, UnpublishBase, RelyInv, TargetInv
<1>6. ASSUME NEW p \in Proc, RestoreSidecar(p) PROVE Backed'
  BY <1>6 DEF RestoreSidecar
<1>7. ASSUME NEW p \in Proc, PublishBase(p) \/ PublishSidecar(p) PROVE Backed'
  BY <1>7 DEF PublishBase, PublishSidecar
<1>8. ASSUME NEW p \in Proc, Guard(p) PROVE Backed'
  BY <1>8 DEF Guard, RelyInv
<1>9. ASSUME NEW p \in Proc, Pin(p) PROVE Backed'
  BY <1>9 DEF Pin, TypeOK, MachinesOK, TargetInv
<1>10. ASSUME NEW p \in Proc, Overlay(p) PROVE Backed'
  BY <1>10 DEF Overlay
<1>11. ASSUME NEW p \in Proc, CloneWrites(p) PROVE Backed'
  BY <1>11 DEF CloneWrites, TypeOK, MachinesOK, OpInv, LockInv, MachineOps, Free
<1>12. ASSUME NEW p \in Proc, UnlinkMachine(p) PROVE Backed'
  BY <1>12 DEF UnlinkMachine, TypeOK, MachinesOK
<1>13. CASE UNCHANGED vars
  BY <1>13 DEF vars
<1> QED
  BY <1>1, <1>2, <1>3, <1>4, <1>5, <1>6, <1>7, <1>8, <1>9, <1>10, <1>11, <1>12,
     <1>13 DEF Next, Operation

\* Pairs stay pairs, and their generations distinct.
LEMMA PairStep ==
  ASSUME Parameters, TypeOK, OpInv, TargetInv, StoreInv, [Next]_vars
  PROVE  (SidecarHasBase /\ GenerationsDistinct)'
<1> USE DEF StoreInv, SidecarHasBase, GenerationsDistinct, Pair, store, At, Step
<1>1. ASSUME NEW p \in Proc, Begin(p) \/ LockMachine(p) \/ Lock(p) \/ Done(p) \/
       Fails(p) \/ Clean(p) \/ PrunePartials(p) \/ DropTomb(p) \/ Recover(p) \/
       Recovered(p) \/ ReadDirs(p) \/ ScanSnapshots(p) \/ ScanState(p) \/ ScannedHalves(p)
     PROVE (SidecarHasBase /\ GenerationsDistinct)'
  BY <1>1 DEF Begin, LockMachine, Lock, Done, Fails, Clean, PrunePartials, DropTomb,
              Recover, Recovered, ReadDirs, ScanSnapshots, ScanState, ScannedHalves
<1>2. ASSUME NEW p \in Proc, ChooseVictim(p) \/ NoVictim(p) \/ DropSideTomb(p) \/
       DropBaseTomb(p) \/ Stage(p) \/ WriteSidecarTemp(p) \/ Pulled(p) \/ PullFails(p) \/
       Prepare(p) \/ Pin(p) \/ Overlay(p) \/ CloneMarks(p) \/ CloneFindsDocuments(p) \/
       CloneWrites(p) \/ CloneUnmarks(p) \/ Copy(p) \/ Capture(p) \/
       PublishSnapshot(p) \/ UnlinkMachine(p) PROVE (SidecarHasBase /\ GenerationsDistinct)'
  BY <1>2 DEF ChooseVictim, NoVictim, DropSideTomb, DropBaseTomb, Stage, WriteSidecarTemp,
              Pulled, PullFails, Prepare, Pin, Overlay, CloneMarks, CloneFindsDocuments,
              CloneWrites, CloneUnmarks, Copy, Capture, PublishSnapshot, UnlinkMachine
<1>3. ASSUME NEW p \in Proc, Unpublish(p) \/ UnpublishBase(p) PROVE (SidecarHasBase /\ GenerationsDistinct)'
  BY <1>3 DEF Unpublish, UnpublishBase, TargetInv
<1>4. ASSUME NEW p \in Proc, RestoreSidecar(p) PROVE (SidecarHasBase /\ GenerationsDistinct)'
  BY <1>4 DEF RestoreSidecar, TargetInv
<1>5. ASSUME NEW p \in Proc, PublishBase(p) PROVE (SidecarHasBase /\ GenerationsDistinct)'
  BY <1>5 DEF PublishBase
<1>6. ASSUME NEW p \in Proc, PublishSidecar(p) PROVE (SidecarHasBase /\ GenerationsDistinct)'
  <2>1. target[p] \in base
    BY <1>6 DEF PublishSidecar, TargetInv, Stamping
  <2>2. gen'[target[p]] = NextGeneration /\ \A i \in Pair \ {target[p]} : gen'[i] = gen[i]
    BY <1>6, <2>1 DEF PublishSidecar, TypeOK, StoreOK
  <2>3. NextGeneration \in Nat /\ \A i \in Pair : gen[i] < NextGeneration /\ gen[i] \in Nat
    BY Generation DEF TypeOK, StoreOK
  <2>4. Pair' = Pair \cup {target[p]} /\ SidecarHasBase'
    BY <1>6, <2>1 DEF PublishSidecar
  <2> QED
    BY <2>2, <2>3, <2>4
<1>7. ASSUME NEW p \in Proc, Guard(p) PROVE (SidecarHasBase /\ GenerationsDistinct)'
  BY <1>7 DEF Guard
<1>8. ASSUME NEW p \in Proc, MoveBase(p) \/ DropHalf(p) PROVE (SidecarHasBase /\ GenerationsDistinct)'
  BY <1>8 DEF MoveBase, DropHalf
<1>9. CASE UNCHANGED vars
  BY <1>9 DEF vars
<1> QED
  BY <1>1, <1>2, <1>3, <1>4, <1>5, <1>6, <1>7, <1>8, <1>9 DEF Next, Operation

-----------------------------------------------------------------------------
(* The theorem.                                                            *)

\* Every initial state satisfies the inductive invariant.
LEMMA InitInv == Parameters /\ Init => IInv
<1> SUFFICES ASSUME Parameters, Init PROVE IInv
  OBVIOUS
<1> USE DEF Init, Parameters
<1>1. base # {} => (CHOOSE i \in base : TRUE) \in base
  OBVIOUS
<1>2. /\ pin \in [Machine -> Id \cup {None}]
      /\ \A m \in Machine : pin[m] # None => m \in dir /\ pin[m] \in base
  BY <1>1
<1>3. TypeOK
  <2>1. StoreOK
    <3>1. {0, 1} \subseteq 0..MaxGen
      OBVIOUS
    <3>2. gen \in [Id -> 0..MaxGen]
      BY <3>1
    <3> QED
      BY <3>2 DEF StoreOK
  <2>2. MachinesOK
    BY <1>2 DEF MachinesOK
  <2>3. ProcessesOK
    BY DEF ProcessesOK
  <2> QED
    BY <2>1, <2>2, <2>3 DEF TypeOK
<1>4. OpInv /\ LockInv
  BY DEF OpInv, LockInv, Phase, Free, InStore, Recovering, Scanning, Stamping, Publishing, MachineOps
<1>5. MachineInv
  BY <1>2 DEF MachineInv, Cloning, Recovering, Stamping, Publishing
<1>6. ScanInv /\ ChosenInv /\ TargetInv /\ RelyInv
  BY DEF ScanInv, ChosenInv, TargetInv, RelyInv, Scanning, Stamping, Publishing
<1>7. StoreInv
  BY <1>2 DEF StoreInv, Backed, SidecarHasBase, GenerationsDistinct, Pair
<1> QED
  BY <1>3, <1>4, <1>5, <1>6, <1>7 DEF IInv

Standing == ReferencesAreBacked /\ DisksAreBacked /\ SidecarHasBase /\ GenerationsDistinct

\* Every variable keeps its type, and whatever pulls, removals, prunes, clones, snapshots
\* and removals of machines overlap and wherever they are killed: an image that a machine
\* or a snapshot references is complete and a disk has its base, unless somebody forced
\* it out or an interrupted clone left the reference; no sidecar lacks its base, and no
\* two complete images of a source share a generation.
THEOREM ImagesStayBacked ==
  ASSUME Parameters
  PROVE  Spec => [](TypeOK /\ Standing)
<1>1. Init => IInv
  BY InitInv
<1>2. IInv /\ [Next]_vars => IInv'
  <2> SUFFICES ASSUME IInv, [Next]_vars PROVE IInv'
    OBVIOUS
  <2>1. TypeOK'
    BY StoreTypes, MachineTypes, ProcessTypes DEF IInv, TypeOK
  <2>2. OpInv' /\ LockInv' /\ MachineInv'
    BY OpStep, LockStep, MachineStep DEF IInv
  <2>3. ScanInv' /\ ChosenInv' /\ TargetInv' /\ RelyInv'
    BY ScanStep, ChosenStep, TargetStep, RelyStep DEF IInv
  <2>4. StoreInv'
    BY BackedStep, PairStep DEF IInv, StoreInv
  <2> QED
    BY <2>1, <2>2, <2>3, <2>4 DEF IInv
<1>3. IInv => ReferencesAreBacked /\ DisksAreBacked
  <2> SUFFICES ASSUME IInv, ~forced
      PROVE  /\ References(stated \ broken) \subseteq Pair
             /\ \A m \in dir \ broken : disk[m] # None => disk[m] = pin[m] /\ disk[m] \in base
    BY DEF ReferencesAreBacked, DisksAreBacked
  <2>1. \A m \in stated \ broken : pin[m] # None => pin[m] \in Pair
    BY DEF IInv, StoreInv, Backed
  <2>2. \A m \in Machine :
            /\ snaps[m] \subseteq {pin[m]} \ {None} /\ disk[m] \in {None, pin[m]}
            /\ m \notin stated => pin[m] = None
    BY DEF IInv, MachineInv, TypeOK, MachinesOK, Parameters
  <2>3. stated \subseteq Machine /\ dir \subseteq Machine
    BY DEF IInv, TypeOK, MachinesOK
  <2>4. ASSUME NEW i \in References(stated \ broken) PROVE i \in Pair
    <3>1. PICK m \in stated \ broken : (pin[m] = i /\ i # None) \/ i \in snaps[m]
      BY DEF References
    <3>2. pin[m] = i /\ i # None
      BY <2>2, <2>3, <3>1
    <3> QED
      BY <2>1, <3>2
  <2>5. ASSUME NEW m \in dir \ broken, disk[m] # None PROVE disk[m] = pin[m] /\ disk[m] \in Pair
    <3>1. disk[m] = pin[m] /\ m \in stated
      BY <2>2, <2>3, <2>5
    <3> QED
      BY <2>1, <2>5, <3>1
  <2> QED
    BY <2>4, <2>5 DEF Pair
<1>4. IInv => TypeOK /\ Standing
  BY <1>3 DEF IInv, StoreInv, Standing
<1> QED
  BY <1>1, <1>2, <1>4, PTL DEF Spec
=============================================================================
