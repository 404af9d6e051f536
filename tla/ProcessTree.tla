----------------------------- MODULE ProcessTree ------------------------------
(***************************************************************************)
(* How the shim ends a VMM and everything the VMM started, without ever    *)
(* signalling anything else: OwnedVmm::terminate_and_reap_before, its      *)
(* snapshots of the process tree through /proc and pidfds, and the drain   *)
(* of the children the shim adopts as a subreaper.                         *)
(*                                                                         *)
(* A process is an incarnation; its pid is a number that is used again     *)
(* once the process is reaped.  Everything the shim reads from /proc may   *)
(* have changed by its next step.                                          *)
(***************************************************************************)
EXTENDS Naturals

CONSTANTS
    MaxProcs,   \* bound on the incarnations
    Pids        \* pid numbers, fewer than incarnations

Shim == 0       \* the shim: child subreaper of the tree
Outside == MaxProcs + 1   \* the parent of unrelated processes
Root == 1       \* the VMM, leader of its process group
Side == 2       \* a sidecar: a child of the shim that is preserved
Procs == 1..MaxProcs
Stages == {"unborn", "alive", "zombie", "gone"}

VARIABLES
    st,         \* unborn, alive, zombie or gone
    pid, parent, grp, kind,
    killed,     \* processes with SIGKILL pending
    pc,         \* the step of terminate_and_reap_before
    snap,       \* the step of the snapshot: off, parent, child or check
    pending, at, todo,  \* incarnations to expand, the one expanded, its child pids
    fd,         \* the incarnation the open pidfd pins
    found,      \* pid -> [start, fd]: the incarnation whose start time was read
    old,        \* what the first snapshot found
    signalled   \* history: incarnations any signal reached

tree == <<st, pid, parent, grp, kind, killed>>
snapshot == <<snap, pending, at, todo, fd>>
vars == <<tree, pc, snapshot, found, old, signalled>>

Present(i) == st[i] \in {"alive", "zombie"}
At(p) == {i \in Procs : Present(i) /\ pid[i] = p}
Free(p) == At(p) = {}
Vmm == {i \in Procs : kind[i] = "vmm"}

Init ==
    /\ st = [i \in Procs |-> IF i <= 2 THEN "alive" ELSE "unborn"]
    /\ pid = [i \in Procs |-> IF i <= 2 THEN i ELSE 0]
    /\ parent = [i \in Procs |-> Shim] /\ grp = pid
    /\ kind = [i \in Procs |-> IF i = Side THEN "side" ELSE "vmm"]
    /\ killed = {} /\ pc = "snapA" /\ snap = "off" /\ pending = {} /\ at = Shim /\ todo = {}
    /\ fd = 0 /\ found = <<>> /\ old = <<>> /\ signalled = {}

-----------------------------------------------------------------------------
(* The processes.                                                          *)

Born(i, p, par, g, k) ==
    /\ st[i] = "unborn" /\ \A j \in Procs : j < i => st[j] # "unborn"
    /\ Free(p)
    /\ st' = [st EXCEPT ![i] = "alive"] /\ pid' = [pid EXCEPT ![i] = p]
    /\ parent' = [parent EXCEPT ![i] = par] /\ grp' = [grp EXCEPT ![i] = g]
    /\ kind' = [kind EXCEPT ![i] = k]
    /\ UNCHANGED <<killed, pc, snapshot, found, old, signalled>>

\* A process of the VMM forks; the child may leave the process group.
Fork(p) ==
    /\ st[p] = "alive" /\ p \in Vmm /\ p \notin killed
    /\ \E i \in Procs, q \in Pids : \E g \in {grp[p], q} : Born(i, q, p, g, "vmm")

\* An unrelated process takes a free pid, leading a group of its own.
Stranger == \E i \in Procs, q \in Pids : Born(i, q, Outside, q, "other")

\* A process ends; the shim adopts its children.
Exit(p) ==
    /\ st[p] = "alive" /\ p # Side
    /\ st' = [st EXCEPT ![p] = "zombie"]
    /\ parent' = [i \in Procs |-> IF parent[i] = p /\ Present(i) THEN Shim ELSE parent[i]]
    /\ UNCHANGED <<pid, grp, kind, killed, pc, snapshot, found, old, signalled>>

\* Whoever is not the shim reaps its own children.
Reap(p) ==
    /\ st[p] = "zombie" /\ parent[p] # Shim
    /\ st' = [st EXCEPT ![p] = "gone"]
    /\ UNCHANGED <<pid, parent, grp, kind, killed, pc, snapshot, found, old, signalled>>

-----------------------------------------------------------------------------
(* snapshot_owned_descendants_preserving.                                  *)

\* Two snapshots in one: an entry of f wins over one of g (BTreeMap::extend).
Over(f, g) == [p \in DOMAIN f \cup DOMAIN g |-> IF p \in DOMAIN f THEN f[p] ELSE g[p]]

SnapRoot == IF pc = "drain" THEN {} ELSE {Root}

SnapStart ==
    /\ pc \in {"snapA", "snapB", "drain"} /\ snap = "off"
    /\ snap' = "parent" /\ pending' = {Shim} \cup {r \in SnapRoot : Present(r)}
    /\ found' = <<>> /\ old' = IF pc = "snapB" THEN found ELSE <<>>
    /\ UNCHANGED <<tree, pc, at, todo, fd, signalled>>

\* The start time still fits; linux_child_pids lists the children.
SnapParent ==
    /\ snap = "parent" /\ pending # {}
    /\ \E p \in pending :
          /\ pending' = pending \ {p}
          /\ IF p = Shim \/ Present(p)
             THEN /\ at' = p /\ snap' = "child"
                  /\ todo' = {pid[i] : i \in {j \in Procs : Present(j) /\ parent[j] = p}}
             ELSE UNCHANGED <<at, snap, todo>>
    /\ UNCHANGED <<tree, pc, fd, found, old, signalled>>

\* The root, and pids found already, are passed over; pidfd_open pins the rest.
SnapChild ==
    /\ snap = "child" /\ todo # {}
    /\ \E p \in todo :
          /\ todo' = todo \ {p}
          /\ \/ /\ Free(p) \/ p \in DOMAIN found \/ p \in {pid[r] : r \in SnapRoot}
                /\ UNCHANGED <<snap, fd>>
             \/ /\ p \notin DOMAIN found /\ p \notin {pid[r] : r \in SnapRoot}
                /\ \E i \in At(p) : fd' = i /\ snap' = "check"
    /\ UNCHANGED <<tree, pc, pending, at, found, old, signalled>>

SnapNext ==
    /\ snap = "child" /\ todo = {} /\ snap' = "parent"
    /\ UNCHANGED <<tree, pc, pending, at, todo, fd, found, old, signalled>>

\* What /proc says of the pid now: a sidecar of that start time is left alone,
\* a process of another parent is not ours.  (Nor is one that changed its uid, which is
\* passed over like one that is gone; the processes here keep the user's.)
Kept(i) == i = Side

SnapCheck ==
    /\ snap = "check" /\ snap' = "child"
    /\ LET p == pid[fd] IN
       IF \E i \in At(p) : ~Kept(i) /\ parent[i] \in {at, Shim}
       THEN \E i \in At(p) :
               /\ found' = Over([q \in {p} |-> [start |-> i, fd |-> fd]], found)
               /\ pending' = pending \cup {i}
       ELSE UNCHANGED <<found, pending>>
    /\ UNCHANGED <<tree, pc, at, todo, fd, old, signalled>>

\* A /proc file that cannot be read ends the snapshot: the cleanup goes on
\* with nothing, or with the first snapshot; the drain gives up.
SnapFails ==
    /\ snap \in {"parent", "check"} /\ snap' = (IF pc = "snapA" THEN "parent" ELSE "off")
    /\ found' = old /\ pending' = {}
    /\ pc' = IF pc = "snapB" THEN "group" ELSE IF pc = "drain" THEN "timeout" ELSE pc
    /\ UNCHANGED <<tree, at, todo, fd, old, signalled>>

-----------------------------------------------------------------------------
(* terminate_and_reap_before.                                              *)

\* The incarnations signal_descendants reaches: in pid order, until one pid
\* has become another process.
Changed(p) == At(p) # {} /\ At(p) # {found[p].start}
Reached == {found[p].fd : p \in {q \in DOMAIN found : \A r \in DOMAIN found : r <= q => ~Changed(r)}}
Group == {i \in Procs : st[i] = "alive" /\ grp[i] = pid[Root]}

SnapDone == snap = "parent" /\ pending = {}

\* SIGTERM to the group and to what was found: processes may end, or not.
Terminate ==
    /\ pc = "snapA" /\ SnapDone /\ snap' = "off" /\ pc' = "snapB"
    /\ \/ UNCHANGED signalled
       \/ /\ st[Root] = "alive"
          /\ signalled' = signalled \cup Group \cup {i \in Reached : Present(i)}
    /\ UNCHANGED <<tree, pending, at, todo, fd, found, old>>

Send(s) ==
    /\ signalled' = signalled \cup {i \in s : Present(i)}
    /\ killed' = killed \cup {i \in s : st[i] = "alive"}

\* Both snapshots together; the later one wins a pid.
Merge ==
    /\ pc = "snapB" /\ SnapDone /\ snap' = "off" /\ pc' = "group" /\ found' = Over(found, old)
    /\ UNCHANGED <<tree, pending, at, todo, fd, old, signalled>>

\* SIGKILL to the group that the unreaped leader pins, then to what was found.
KillGroup ==
    /\ pc = "group" /\ pc' = "killed" /\ Send(Group)
    /\ UNCHANGED <<st, pid, parent, grp, kind, snapshot, found, old>>

KillFound ==
    /\ pc = "killed" /\ pc' = "reap" /\ Send(Reached)
    /\ UNCHANGED <<st, pid, parent, grp, kind, snapshot, found, old>>

\* wait: the leader's pid and group number are free from here on.
ReapRoot ==
    /\ pc = "reap" /\ st[Root] = "zombie" /\ pc' = "drain"
    /\ st' = [st EXCEPT ![Root] = "gone"]
    /\ UNCHANGED <<pid, parent, grp, kind, killed, snapshot, found, old, signalled>>

\* drain_adopted_children_preserving: done when a snapshot finds nothing, or
\* SIGKILL and waitpid for what it found; the deadline ends it with an error.
Drain ==
    /\ pc = "drain" /\ SnapDone /\ snap' = "off"
    /\ IF DOMAIN found = {}
       THEN pc' = "done" /\ UNCHANGED <<st, killed, signalled>>
       ELSE /\ pc' \in {"drain", "timeout"} /\ Send(Reached)
            /\ st' = [i \in Procs |-> IF /\ st[i] = "zombie" /\ parent[i] = Shim
                                         /\ pid[i] \in DOMAIN found
                                      THEN "gone" ELSE st[i]]
    /\ UNCHANGED <<pid, parent, grp, kind, pending, at, todo, fd, found, old>>

Next ==
    \/ \E p \in Procs : Fork(p) \/ Exit(p) \/ Reap(p)
    \/ Stranger
    \/ SnapStart \/ SnapParent \/ SnapChild \/ SnapNext \/ SnapCheck \/ SnapFails
    \/ Terminate \/ Merge \/ KillGroup \/ KillFound \/ ReapRoot \/ Drain

Spec == Init /\ [][Next]_vars

-----------------------------------------------------------------------------
\* Two processes never have one pid at a time, and an entry of the snapshot names, by its
\* start time and by its pidfd, processes that had its pid (DescendantIdentity).
TypeOK ==
    /\ st \in [Procs -> Stages] /\ pid \in [Procs -> Pids \cup {0}]
    /\ pc \in {"snapA", "snapB", "group", "killed", "reap", "drain", "done", "timeout"}
    /\ snap \in {"off", "parent", "child", "check"} /\ DOMAIN found \subseteq Pids
    /\ \A p \in DOMAIN found : pid[found[p].start] = p /\ pid[found[p].fd] = p
    /\ snap # "off" => pc \in {"snapA", "snapB", "drain"}
    /\ \A i, j \in Procs : Present(i) /\ Present(j) /\ pid[i] = pid[j] => i = j

\* No signal ever reaches a process outside the VMM's tree: neither a process
\* that took over a pid or a group number, nor a preserved sidecar
\* (terminate_and_reap_before, signal_descendants).
StrangersSpared == signalled \subseteq Vmm

\* A cleanup that reports success leaves nothing of the VMM behind, whatever
\* forked, left the group or was orphaned meanwhile
\* (drain_adopted_children_preserving).
SuccessMeansGone == pc = "done" => \A i \in Vmm : ~Present(i)

-----------------------------------------------------------------------------
(* Why: what the tree, the snapshot and the drain keep at every step.      *)

Known(i) == st[i] # "unborn"

\* The tree: incarnations are born in order and pids are theirs alone; a stranger leads its own
\* group, and a process of the VMM is a child of the shim or of an older one that lives.
TreeInv ==
    /\ st \in [Procs -> Stages] /\ pid \in [Procs -> Nat] /\ parent \in [Procs -> Nat]
    /\ grp \in [Procs -> Nat] /\ kind \in [Procs -> {"vmm", "side", "other"}]
    /\ \A i, j \in Procs : i < j /\ Known(j) => Known(i)
    /\ \A i, j \in Procs : Present(i) /\ Present(j) /\ pid[i] = pid[j] => i = j
    /\ \A i \in Procs : kind[i] = "other" => Known(i) /\ parent[i] = Outside /\ grp[i] = pid[i]
    /\ \A i \in Vmm : Present(i) /\ parent[i] # Shim =>
          parent[i] \in Vmm /\ parent[i] < i /\ st[parent[i]] = "alive"
    /\ Known(Root) /\ pid[Root] = Root /\ parent[Root] = Shim /\ kind[Root] = "vmm"
    /\ \A i \in Procs : kind[i] = "side" <=> i = Side
    /\ Known(Side) /\ grp[Side] = Side
    /\ pc \notin {"drain", "done", "timeout"} => Present(Root)

\* An entry names two processes that had its pid, and its start time is of the VMM's tree.
Named(f) ==
    \A p \in DOMAIN f :
        /\ f[p].start \in Vmm /\ Known(f[p].start) /\ pid[f[p].start] = p
        /\ f[p].fd \in Procs /\ Known(f[p].fd) /\ pid[f[p].fd] = p

\* The snapshot expands the shim and processes of the tree only.
SnapInv ==
    /\ snap # "off" => pc \in {"snapA", "snapB", "drain"}
    /\ \A i \in pending \cup {at} : i = Shim \/ (i \in Vmm /\ Known(i))
    /\ snap = "check" => fd \in Procs /\ Known(fd)
    /\ Named(found) /\ Named(old)

\* Some child of the shim is still to be looked at.
Coming ==
    /\ at = Shim
    /\ \E i \in Vmm : /\ Present(i) /\ parent[i] = Shim
                      /\ \/ snap \in {"child", "check"} /\ pid[i] \in todo
                         \/ snap = "check" /\ fd = i

\* While the drain has listed the shim's children and found none of them, either nothing of
\* the VMM is left or one of them is still to come.
DrainInv ==
    pc = "drain" /\ snap # "off" /\ Shim \notin pending /\ DOMAIN found = {} =>
        Coming \/ \A i \in Vmm : ~Present(i)

SignalInv == \A i \in signalled : i \in Vmm /\ Known(i)

Inv == TreeInv /\ SnapInv /\ DrainInv /\ SignalInv /\ SuccessMeansGone

=============================================================================
