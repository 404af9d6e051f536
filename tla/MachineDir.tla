------------------------------ MODULE MachineDir ------------------------------
(***************************************************************************)
(* The life of the directory machines/<name>: `create` and `clone` publish *)
(* a machine in it, `rm` renames it away, and every other mutating action  *)
(* works inside it under flock on its `lock` file.                         *)
(*                                                                         *)
(* All work is by path name; the flock is on the inode of the lock file    *)
(* that was opened.  Removing and re-creating a machine gives the name a   *)
(* new directory with a new lock file, so a directory and its lock share   *)
(* one identity here.  A process waits on the lock file it opened, and may *)
(* find another directory under the name when it gets it.                  *)
(*                                                                         *)
(* Every process is one CLI invocation or REST worker, runs once, and may  *)
(* fail or be killed at any step; the kernel then releases its flock.      *)
(***************************************************************************)
EXTENDS FiniteSets, TLAPS

CONSTANTS
    Creators,   \* processes running `create`
    Cloners,    \* processes running `clone` of a machine that has a disk
    Removers,   \* processes running `rm`
    Actors,     \* processes running any other action that takes the lock
    Dir,        \* directory identities; their number bounds re-creation
    None        \* no directory; nobody

Proc == Creators \cup Cloners \cup Removers \cup Actors
Makers == Creators \cup Cloners

ASSUME ProcAssumption ==
    /\ Makers \cap (Removers \cup Actors) = {}
    /\ Creators \cap Cloners = {} /\ Removers \cap Actors = {}
    /\ None \notin Proc /\ None \notin Dir

VARIABLES
    name,       \* the directory machines/<name> refers to, or None
    used,       \* directories that were made so far
    tomb,       \* the directory .removing-<name> refers to, or None
    holder,     \* who holds the flock on each directory's lock file
    marker,     \* directories with a `.creating` marker
    spec,       \* directories with a firestone.toml
    state,      \* directories with a state.json
    disk,       \* directories with a published disk.qcow2
    pc,         \* where each process is
    fd,         \* the directory whose lock file each process opened
    owner,      \* history: the process that last prepared each directory
    overtaken   \* history: an rm renamed a directory others waited for

files == <<marker, spec, state, disk>>
vars == <<name, used, tomb, holder, files, pc, fd, owner, overtaken>>

\* Program counters of a process that has the flock it waited for.
Holding == {"locked", "working", "spec", "state", "disk"}
\* Of those, the ones that found the machine fit and are changing it.
Changing == {"working", "spec", "state", "disk"}
PC == {"idle", "dir", "waiting", "deleting", "ok", "failed"} \cup Holding

Init ==
    /\ name = None
    /\ used = {}
    /\ tomb = None
    /\ holder = [d \in Dir |-> None]
    /\ marker = {} /\ spec = {} /\ state = {} /\ disk = {}
    /\ pc = [p \in Proc |-> "idle"]
    /\ fd = [p \in Proc |-> None]
    /\ owner = [d \in Dir |-> None]
    /\ overtaken = FALSE

-----------------------------------------------------------------------------
(* What the code asks of the path machines/<name>.                         *)

Entries == spec \cup state \cup disk

\* machine_publication_complete: both documents are there.
PublicationComplete == name \in spec \cap state

\* ensure_machine_exists, then the read of state.json.
MachineExists == name # None /\ name \notin marker /\ name \in state

\* What ls, show and start see.
Visible(d) == d \notin marker /\ d \in spec \cap state

\* remove_dir_all.
DropFiles(d) ==
    /\ marker' = marker \ {d} /\ spec' = spec \ {d}
    /\ state' = state \ {d} /\ disk' = disk \ {d}

-----------------------------------------------------------------------------
(* MachineLock::acquire.                                                   *)

Goto(p, l) == pc' = [pc EXCEPT ![p] = l]

\* open(lock, O_CREAT) in whatever directory has the name now.
OpenLock(p) ==
    /\ name # None
    /\ fd' = [fd EXCEPT ![p] = name]
    /\ Goto(p, "waiting")
    /\ UNCHANGED <<name, used, tomb, holder, files, owner, overtaken>>

\* Mutant: the lock is shared.
AcquireShared(p) ==
    /\ pc[p] = "waiting"
    /\ holder' = [holder EXCEPT ![fd[p]] = p]
    /\ Goto(p, "locked")
    /\ UNCHANGED <<name, used, tomb, files, fd, owner, overtaken>>

\* flock succeeds on the file that was opened; its name is not looked at.
Acquire(p) ==
    /\ pc[p] = "waiting" /\ holder[fd[p]] = None
    /\ holder' = [holder EXCEPT ![fd[p]] = p]
    /\ Goto(p, "locked")
    /\ UNCHANGED <<name, used, tomb, files, fd, owner, overtaken>>

Release(p) == holder' = [d \in Dir |-> IF holder[d] = p THEN None ELSE holder[d]]

\* Ten seconds pass, or opening the lock file fails.
Busy(p) ==
    /\ \/ pc[p] = "waiting" /\ holder[fd[p]] # None
       \/ pc[p] = "dir" /\ name = None
    /\ Goto(p, "failed")
    /\ UNCHANGED <<name, used, tomb, holder, files, fd, owner, overtaken>>

\* Any later failure or a SIGKILL ends the process and drops its flock.
Fail(p) ==
    /\ pc[p] \in Holding
    /\ Goto(p, "failed")
    /\ Release(p)
    /\ UNCHANGED <<name, used, tomb, files, fd, owner, overtaken>>

-----------------------------------------------------------------------------
(* create and clone: prepare_machine_creation, then the documents, then    *)
(* for a clone the disk, then the marker goes.                             *)

\* ensure_owned_data_directory makes the directory when there is none.
EnsureDir(p) ==
    /\ pc[p] = "idle"
    /\ Goto(p, "dir")
    /\ \/ name # None /\ UNCHANGED <<name, used>>
       \/ /\ name = None
          /\ \E d \in Dir \ used : name' = d /\ used' = used \cup {d}
    /\ UNCHANGED <<tomb, holder, files, fd, owner, overtaken>>

OpenCreationLock(p) == pc[p] = "dir" /\ OpenLock(p)

\* The machine is there: the marker of an interrupted creation is removed.
\* Or entries without a marker are in the way.  Both end as already_exists;
\* a directory that went away under the lock is an error too.
PrepareRefused(p) ==
    /\ pc[p] = "locked"
    /\ \/ /\ name # None /\ PublicationComplete
          /\ marker' = marker \ {name}
       \/ /\ name # None /\ ~PublicationComplete
          /\ name \notin marker /\ name \in Entries
          /\ UNCHANGED marker
       \/ name = None /\ UNCHANGED marker
    /\ Goto(p, "failed")
    /\ Release(p)
    /\ UNCHANGED <<name, used, tomb, spec, state, disk, fd, owner, overtaken>>

\* Mutant: whatever is in the directory counts as a stale creation.
PrepareOverAnything(p) ==
    /\ pc[p] = "locked" /\ name # None
    /\ marker' = marker \cup {name}
    /\ spec' = spec \ {name} /\ state' = state \ {name} /\ disk' = disk \ {name}
    /\ owner' = [owner EXCEPT ![name] = p]
    /\ Goto(p, "working")
    /\ UNCHANGED <<name, used, tomb, holder, fd, overtaken>>

\* Mutant: a fresh directory gets no marker.
PrepareUnmarked(p) ==
    /\ pc[p] = "locked"
    /\ name # None /\ ~PublicationComplete
    /\ name \in marker \/ name \notin Entries
    /\ spec' = spec \ {name} /\ state' = state \ {name} /\ disk' = disk \ {name}
    /\ owner' = [owner EXCEPT ![name] = p]
    /\ Goto(p, "working")
    /\ UNCHANGED <<name, used, tomb, holder, marker, fd, overtaken>>

\* A stale incomplete creation is cleared; a fresh directory is marked.
Prepare(p) ==
    /\ pc[p] = "locked"
    /\ name # None /\ ~PublicationComplete
    /\ name \in marker \/ name \notin Entries
    /\ marker' = marker \cup {name}
    /\ spec' = spec \ {name} /\ state' = state \ {name} /\ disk' = disk \ {name}
    /\ owner' = [owner EXCEPT ![name] = p]
    /\ Goto(p, "working")
    /\ UNCHANGED <<name, used, tomb, holder, fd, overtaken>>

\* Mutant: a directory that is gone is not noticed.
WriteSpecUnchecked(p) ==
    /\ pc[p] = "working"
    /\ spec' = spec \cup {name}
    /\ Goto(p, "spec")
    /\ UNCHANGED <<name, used, tomb, holder, marker, state, disk, fd, owner, overtaken>>

WriteSpec(p) ==
    /\ pc[p] = "working" /\ name # None
    /\ spec' = spec \cup {name}
    /\ Goto(p, "spec")
    /\ UNCHANGED <<name, used, tomb, holder, marker, state, disk, fd, owner, overtaken>>

WriteState(p) ==
    /\ pc[p] = "spec" /\ name # None
    /\ state' = state \cup {name}
    /\ Goto(p, "state")
    /\ UNCHANGED <<name, used, tomb, holder, marker, spec, disk, fd, owner, overtaken>>

\* clone_disk publishes the copied overlay with a single rename.
CloneDisk(p) ==
    /\ pc[p] = "state" /\ name # None
    /\ disk' = disk \cup {name}
    /\ Goto(p, "disk")
    /\ UNCHANGED <<name, used, tomb, holder, marker, spec, state, fd, owner, overtaken>>

\* Removing the marker publishes the machine; it must be there to remove.
Publish(p) ==
    /\ pc[p] = (IF p \in Cloners THEN "disk" ELSE "state")
    /\ name \in marker
    /\ marker' = marker \ {name}
    /\ Goto(p, "ok")
    /\ Release(p)
    /\ UNCHANGED <<name, used, tomb, spec, state, disk, fd, owner, overtaken>>

-----------------------------------------------------------------------------
(* rm and the other actions.                                               *)

\* Both look at the machine first and open the lock of what they saw.
Open(p) ==
    /\ pc[p] = "idle" /\ MachineExists
    /\ OpenLock(p)

\* Under the lock they look again.
Recheck(p) ==
    /\ pc[p] = "locked" /\ MachineExists
    /\ Goto(p, "working")
    /\ UNCHANGED <<name, used, tomb, holder, files, fd, owner, overtaken>>

RecheckRefused(p) ==
    /\ pc[p] = "locked" /\ ~MachineExists
    /\ Goto(p, "failed")
    /\ Release(p)
    /\ UNCHANGED <<name, used, tomb, files, fd, owner, overtaken>>

\* A tree deletion that did not finish is completed first.  The rename to
\* .removing-<name> then unpublishes the machine, and the guard goes.
Unpublish(p) ==
    /\ pc[p] = "working" /\ name # None
    /\ overtaken' = (overtaken \/ \E q \in Proc : pc[q] = "waiting" /\ fd[q] = name)
    /\ name' = None
    /\ tomb' = name
    /\ DropFiles(tomb)
    /\ Goto(p, "deleting")
    /\ Release(p)
    /\ UNCHANGED <<used, fd, owner>>

\* The renamed tree is deleted without the lock; it may be gone by then, and
\* the process may not live to do it.
DeleteTree(p) ==
    /\ pc[p] = "deleting"
    /\ \/ /\ tomb # None
          /\ tomb' = None
          /\ DropFiles(tomb)
          /\ Goto(p, "ok")
       \/ Goto(p, "failed") /\ UNCHANGED <<tomb, files>>
    /\ UNCHANGED <<name, used, holder, fd, owner, overtaken>>

\* Any other action changes the machine and drops the guard.
Finish(p) ==
    /\ pc[p] = "working"
    /\ Goto(p, "ok")
    /\ Release(p)
    /\ UNCHANGED <<name, used, tomb, files, fd, owner, overtaken>>

-----------------------------------------------------------------------------
Maker(p) ==
    \/ EnsureDir(p) \/ OpenCreationLock(p) \/ PrepareRefused(p) \/ Prepare(p)
    \/ WriteSpec(p) \/ WriteState(p)
    \/ p \in Cloners /\ CloneDisk(p)
    \/ Publish(p)

Other(p) == Open(p) \/ Recheck(p) \/ RecheckRefused(p)

Next ==
    \/ \E p \in Proc : Acquire(p) \/ Busy(p) \/ Fail(p)
    \/ \E p \in Makers : Maker(p)
    \/ \E p \in Removers \cup Actors : Other(p)
    \/ \E p \in Removers : Unpublish(p) \/ DeleteTree(p)
    \/ \E p \in Actors : Finish(p)

Spec == Init /\ [][Next]_vars

-----------------------------------------------------------------------------
(* Properties.                                                             *)

\* Which directory has the name and which the removal name, what is in each, who holds each
\* directory's lock and where every process is (create, clone, remove_one).
TypeOK ==
    /\ name \in Dir \cup {None}
    /\ used \subseteq Dir
    /\ tomb \in Dir \cup {None}
    /\ holder \in [Dir -> Proc \cup {None}]
    /\ marker \subseteq Dir /\ spec \subseteq Dir
    /\ state \subseteq Dir /\ disk \subseteq Dir
    /\ pc \in [Proc -> PC]
    /\ fd \in [Proc -> Dir \cup {None}]
    /\ owner \in [Dir -> Proc \cup {None}]
    /\ overtaken \in BOOLEAN

\* SPEC 4.1, 4.3: the machine lock serialises mutating actions.  Two
\* processes never change the machine under one name at the same time.
OneChanger ==
    \A p, q \in Proc : pc[p] \in Changing /\ pc[q] \in Changing => p = q

\* ... which holds until an rm takes a directory away from under a process
\* that waits for its lock.
OneChangerUnlessOvertaken == ~overtaken => OneChanger

\* A machine whose creation was reported is complete and stays so while it
\* has its name: neither another create, which clears what it takes for a
\* stale creation, nor an rm of an earlier machine, nor a kill of anyone
\* takes a file of it away.
CreatedStays ==
    ~overtaken =>
        \A p \in Makers : pc[p] = "ok" /\ fd[p] = name =>
            /\ Visible(name)
            /\ p \in Cloners => name \in disk
            /\ owner[name] = p

\* What is visible under the name is a machine with both its documents, and
\* nothing but a creation still under way (or interrupted) lacks them.
NothingHalfMade ==
    ~overtaken =>
        (name # None /\ name \notin marker /\ name \in Entries => name \in spec \cap state)

-----------------------------------------------------------------------------
(* Proofs for any number of processes and directories: until an rm         *)
(* overtakes a process that waits for the lock, one process at a time      *)
(* changes the machine, and what a create or a clone reported stays        *)
(* complete for as long as it has the name.                                *)

\* Every variable of the machine's directory and its processes keeps its type (store.rs's create,
\* clone, rm and the locks of lock.rs).
THEOREM TypeCorrect == Spec => []TypeOK
<1> USE ProcAssumption DEF TypeOK, PC, Holding, Makers, Proc
<1>1. Init => TypeOK
  BY DEF Init
<1>2. TypeOK /\ [Next]_vars => TypeOK'
  <2> SUFFICES ASSUME TypeOK, [Next]_vars PROVE TypeOK'
    OBVIOUS
  <2> USE DEF files, Goto, Release, DropFiles
  <2>1. ASSUME NEW p \in Proc, Acquire(p) \/ Busy(p) \/ Fail(p) PROVE TypeOK'
    BY <2>1 DEF Acquire, Busy, Fail
  <2>2. ASSUME NEW p \in Makers, Maker(p) PROVE TypeOK'
    <3>1. CASE EnsureDir(p) \/ OpenCreationLock(p) \/ PrepareRefused(p)
      BY <3>1 DEF EnsureDir, OpenCreationLock, OpenLock, PrepareRefused
    <3>2. CASE Prepare(p)
      BY <3>2 DEF Prepare
    <3>3. CASE WriteSpec(p) \/ WriteState(p) \/ CloneDisk(p) \/ Publish(p)
      BY <3>3 DEF WriteSpec, WriteState, CloneDisk, Publish
    <3> QED
      BY <2>2, <3>1, <3>2, <3>3 DEF Maker
  <2>3. ASSUME NEW p \in Removers \cup Actors, Other(p) PROVE TypeOK'
    BY <2>3 DEF Other, Open, OpenLock, Recheck, RecheckRefused
  <2>4. ASSUME NEW p \in Removers, Unpublish(p) \/ DeleteTree(p) PROVE TypeOK'
    BY <2>4 DEF Unpublish, DeleteTree
  <2>5. ASSUME NEW p \in Actors, Finish(p) PROVE TypeOK'
    BY <2>5 DEF Finish
  <2>6. CASE UNCHANGED vars
    BY <2>6 DEF vars
  <2> QED
    BY <2>1, <2>2, <2>3, <2>4, <2>5, <2>6 DEF Next
<1> QED
  BY <1>1, <1>2, PTL DEF Spec

-----------------------------------------------------------------------------
(* The lock.                                                               *)

\* The flock of a directory is held exactly by the process that waited for
\* it and has not finished.
HolderInv ==
    /\ \A p \in Proc, d \in Dir : holder[d] = p <=> (pc[p] \in Holding /\ fd[p] = d)
    /\ \A p \in Proc : pc[p] \in Holding \cup {"waiting"} => fd[p] \in Dir
    /\ \A p \in Makers : pc[p] = "ok" => fd[p] \in Dir

\* Until an rm overtakes a waiter, the lock a process waits for or holds is
\* that of the directory which has the name.
NameInv ==
    ~overtaken => \A p \in Proc : pc[p] \in Holding \cup {"waiting"} => fd[p] = name

LockInv == HolderInv /\ NameInv

\* The lock invariant is preserved by every step.
LEMMA LockStep == TypeOK /\ LockInv /\ [Next]_vars => LockInv'
<1> SUFFICES ASSUME TypeOK, LockInv, [Next]_vars PROVE LockInv'
  OBVIOUS
<1> USE ProcAssumption DEF TypeOK, PC, Holding, Makers, Proc, LockInv, HolderInv,
        NameInv, Goto, Release
<1>1. ASSUME NEW p \in Proc, Acquire(p) PROVE LockInv'
  BY <1>1 DEF Acquire
<1>2. ASSUME NEW p \in Proc, Busy(p) \/ Fail(p) PROVE LockInv'
  BY <1>2 DEF Busy, Fail
<1>3. ASSUME NEW p \in Makers, Maker(p) PROVE LockInv'
  <2>1. CASE EnsureDir(p)
    BY <2>1 DEF EnsureDir
  <2>2. CASE OpenCreationLock(p)
    BY <2>2 DEF OpenCreationLock, OpenLock
  <2>3. CASE PrepareRefused(p) \/ Publish(p)
    BY <2>3 DEF PrepareRefused, Publish
  <2>4. CASE Prepare(p) \/ WriteSpec(p) \/ WriteState(p) \/ CloneDisk(p)
    BY <2>4 DEF Prepare, WriteSpec, WriteState, CloneDisk
  <2> QED
    BY <1>3, <2>1, <2>2, <2>3, <2>4 DEF Maker
<1>4. ASSUME NEW p \in Removers \cup Actors, Other(p) PROVE LockInv'
  BY <1>4 DEF Other, Open, OpenLock, Recheck, RecheckRefused
<1>5. ASSUME NEW p \in Removers, Unpublish(p) PROVE LockInv'
  <2>1. HolderInv'
    BY <1>5 DEF Unpublish
  <2>2. ASSUME ~overtaken' PROVE \A q \in Proc : pc'[q] \notin Holding \cup {"waiting"}
    <3>1. ~overtaken /\ \A q \in Proc : ~(pc[q] = "waiting" /\ fd[q] = name)
      BY <1>5, <2>2 DEF Unpublish
    <3>2. \A q \in Proc : pc[q] \in Holding \cup {"waiting"} => fd[q] = name
      BY <3>1
    <3>3. \A q \in Proc : pc[q] \in Holding => q = p
      BY <1>5, <3>2 DEF Unpublish
    <3> QED
      BY <1>5, <3>1, <3>2, <3>3 DEF Unpublish
  <2> QED
    BY <2>1, <2>2
<1>6. ASSUME NEW p \in Removers, DeleteTree(p) PROVE LockInv'
  BY <1>6 DEF DeleteTree
<1>7. ASSUME NEW p \in Actors, Finish(p) PROVE LockInv'
  BY <1>7 DEF Finish
<1>8. CASE UNCHANGED vars
  BY <1>8 DEF vars
<1> QED
  BY <1>1, <1>2, <1>3, <1>4, <1>5, <1>6, <1>7, <1>8 DEF Next

\* Only one process is past its second look at the machine.
LEMMA OneHolds ==
  ASSUME TypeOK, LockInv, ~overtaken, NEW p \in Proc, NEW q \in Proc,
         pc[p] \in Holding, pc[q] \in Holding
  PROVE  p = q /\ fd[p] = name /\ name \in Dir
<1>1. fd[p] = name /\ fd[q] = name /\ name \in Dir
  BY DEF LockInv, NameInv, HolderInv
<1>2. holder[name] = p /\ holder[name] = q
  BY <1>1 DEF LockInv, HolderInv
<1> QED
  BY <1>1, <1>2

-----------------------------------------------------------------------------
(* The files.                                                              *)

\* What a maker that is at work has put into the directory.
MakerInv ==
    \A p \in Makers :
        /\ pc[p] \in Changing => name \in marker /\ owner[name] = p
        /\ pc[p] \in {"spec", "state", "disk"} => name \in spec
        /\ pc[p] \in {"state", "disk"} => name \in state
        /\ pc[p] = "disk" => name \in disk

\* Directories are used once, and the one being deleted lost its name.
FreshInv ==
    /\ marker \cup Entries \subseteq used
    /\ name # None => name \in used /\ tomb # name
    /\ tomb # None => tomb \in used
    /\ \A p \in Proc : fd[p] # None => fd[p] \in used

FilesInv ==
    /\ FreshInv
    /\ ~overtaken => MakerInv /\ CreatedStays /\ NothingHalfMade

\* The files invariant is preserved by every step.
LEMMA FilesStep ==
  TypeOK /\ TypeOK' /\ LockInv /\ LockInv' /\ FilesInv /\ [Next]_vars => FilesInv'
<1> SUFFICES ASSUME TypeOK, TypeOK', LockInv, LockInv', FilesInv, [Next]_vars
             PROVE FilesInv'
  OBVIOUS
<1> USE ProcAssumption
<1>1. FreshInv'
  BY DEF TypeOK, PC, Holding, Makers, Proc, LockInv, HolderInv, Goto, Release, FilesInv,
         FreshInv, Entries, files, DropFiles, Next, Acquire, Busy, Fail, Maker,
         EnsureDir, OpenCreationLock, OpenLock, PrepareRefused, Prepare, WriteSpec,
         WriteState, CloneDisk, Publish, Other, Open, Recheck, RecheckRefused,
         Unpublish, DeleteTree, Finish, vars
<1>2. ASSUME ~overtaken' PROVE ~overtaken
  BY <1>2 DEF TypeOK, Next, Acquire, Busy, Fail, Maker,
         EnsureDir, OpenCreationLock, OpenLock, PrepareRefused, Prepare, WriteSpec,
         WriteState, CloneDisk, Publish, Other, Open, Recheck, RecheckRefused,
         Unpublish, DeleteTree, Finish, vars
<1>3. ASSUME ~overtaken' PROVE (MakerInv /\ CreatedStays /\ NothingHalfMade)'
  <2>0. /\ ~overtaken /\ FreshInv /\ FreshInv'
        /\ MakerInv /\ CreatedStays /\ NothingHalfMade
    BY <1>1, <1>2, <1>3 DEF FilesInv
  <2>A. \A p, q \in Proc : pc[p] \in Holding /\ pc[q] \in Holding
                             => p = q /\ fd[p] = name /\ name \in Dir
    BY <2>0, OneHolds
  <2> USE <2>0, <2>A DEF TypeOK, PC, Holding, Changing, Makers, Proc, Goto, Release,
          FreshInv, MakerInv, CreatedStays, NothingHalfMade, Entries, Visible,
          files, DropFiles
  <2>1. ASSUME NEW p \in Proc, Acquire(p) \/ Busy(p) \/ Fail(p)
        PROVE (MakerInv /\ CreatedStays /\ NothingHalfMade)'
    BY <2>1 DEF Acquire, Busy, Fail
  <2>2. ASSUME NEW p \in Makers, Maker(p)
        PROVE (MakerInv /\ CreatedStays /\ NothingHalfMade)'
    <3>1. CASE EnsureDir(p)
      BY <3>1 DEF EnsureDir, LockInv, HolderInv, NameInv
    <3>2. CASE OpenCreationLock(p)
      BY <3>2 DEF OpenCreationLock, OpenLock
    <3>3. CASE PrepareRefused(p)
      BY <3>3 DEF PrepareRefused, PublicationComplete
    <3>4. CASE Prepare(p)
      BY <3>4 DEF Prepare, PublicationComplete
    <3>5. CASE WriteSpec(p)
      BY <3>5 DEF WriteSpec
    <3>6. CASE WriteState(p)
      BY <3>6 DEF WriteState
    <3>7. CASE p \in Cloners /\ CloneDisk(p)
      BY <3>7 DEF CloneDisk
    <3>8. CASE Publish(p)
      BY <3>8 DEF Publish
    <3> QED
      BY <2>2, <3>1, <3>2, <3>3, <3>4, <3>5, <3>6, <3>7, <3>8 DEF Maker
  <2>3. ASSUME NEW p \in Removers \cup Actors, Other(p)
        PROVE (MakerInv /\ CreatedStays /\ NothingHalfMade)'
    BY <2>3 DEF Other, Open, OpenLock, Recheck, RecheckRefused
  <2>4. ASSUME NEW p \in Removers, Unpublish(p)
        PROVE (MakerInv /\ CreatedStays /\ NothingHalfMade)'
    BY <2>4 DEF Unpublish, LockInv, HolderInv
  <2>5. ASSUME NEW p \in Removers, DeleteTree(p)
        PROVE (MakerInv /\ CreatedStays /\ NothingHalfMade)'
    BY <2>5 DEF DeleteTree
  <2>6. ASSUME NEW p \in Actors, Finish(p)
        PROVE (MakerInv /\ CreatedStays /\ NothingHalfMade)'
    BY <2>6 DEF Finish
  <2>7. CASE UNCHANGED vars
    BY <2>7 DEF vars
  <2> QED
    BY <2>1, <2>2, <2>3, <2>4, <2>5, <2>6, <2>7 DEF Next
<1> QED
  BY <1>1, <1>3 DEF FilesInv

\* Both parts hold in every reachable state.
LEMMA Inductive == Spec => [](LockInv /\ FilesInv)
<1>1. Init => LockInv /\ FilesInv
  BY ProcAssumption
     DEF Init, LockInv, HolderInv, NameInv, FilesInv, FreshInv, MakerInv, CreatedStays,
         NothingHalfMade, Entries, Makers, Proc, Holding, Changing
<1>2. TypeOK /\ TypeOK' /\ LockInv /\ FilesInv /\ [Next]_vars => (LockInv /\ FilesInv)'
  BY LockStep, FilesStep
<1> QED
  BY <1>1, <1>2, TypeCorrect, PTL DEF Spec

-----------------------------------------------------------------------------
\* The machine lock serialises mutating actions (SPEC 4.3) until an rm
\* renames the directory away from under a process that waits for its lock.
THEOREM Exclusion == Spec => []OneChangerUnlessOvertaken
<1>1. TypeOK /\ LockInv => OneChangerUnlessOvertaken
  BY OneHolds DEF OneChangerUnlessOvertaken, OneChanger, Changing, Holding
<1> QED
  BY <1>1, TypeCorrect, Inductive, PTL

\* Under the same condition a machine that create or clone reported keeps
\* its documents, its disk and its maker for as long as it has the name.
THEOREM ReportedMachinesStay == Spec => []CreatedStays
<1>1. FilesInv => CreatedStays
  BY DEF FilesInv, CreatedStays
<1> QED
  BY <1>1, Inductive, PTL

\* And nothing half made is ever visible under the name.
THEOREM OnlyWholeMachinesAreVisible == Spec => []NothingHalfMade
<1>1. FilesInv => NothingHalfMade
  BY DEF FilesInv, NothingHalfMade
<1> QED
  BY <1>1, Inductive, PTL
=============================================================================
