-------------------------------- MODULE Prune ---------------------------------
(***************************************************************************)
(* `firestone system prune` against the other commands of the host: a plan *)
(* is read without locks, then carried out item by item, then the image    *)
(* store and the machines follow.  An artifact is "live" while the command *)
(* that made it is still at work on it, "debris" when that command died.   *)
(***************************************************************************)
EXTENDS Naturals, FiniteSets, FiniteSetsExt, TLC

CONSTANTS
    Machine,    \* machine names
    MaxOps      \* bound on steps of other commands

Artifact == {"none", "live", "debris"}

VARIABLES
    status,     \* of each machine, "absent" when it has no directory
    rt,         \* runtime directories
    prev,       \* previous console logs
    part,       \* disk.qcow2.partial of each machine
    snap,       \* .partial-<snapshot> of each machine
    tomb,       \* .removing-<name>
    lock, slock,    \* machine locks and snapshot locks: who holds them
    image,      \* the base image is stored
    pc, opts,   \* the prune and its flags
    statuses, items, rows,  \* what it read, planned, and reported
    total, counted,         \* bytes of each machine, and those of its items
    harm,       \* history: live artifacts the prune removed
    quiet,      \* history: nobody else acted since it began
    used, expect,   \* history: bytes on disk, and the rows due, when it began
    ops

machines == <<status, rt, prev, part, snap, tomb, image>>
locks == <<lock, slock>>
prune == <<pc, opts, statuses, items, rows, total, counted, used, expect>>
vars == <<machines, locks, prune, harm, quiet, ops>>

Kinds == {"runtime", "log", "partial", "snapshot-partial", "tomb"}
Active == {"running"}
Published == {m \in Machine : status[m] # "absent"}

\* Bytes on disk: one for each artifact, four more for a machine's own files
\* and eight for the image.
One(b) == IF b THEN 1 ELSE 0
Inert(m) == One(m \in prev) + One(part[m] # "none") + One(snap[m] # "none")
Tree(m) == IF status[m] = "absent" THEN 0 ELSE 4 + Inert(m)
Used ==
    MapThenSumSet(LAMBDA m : Tree(m) + One(m \in rt) + One(tomb[m] # "none"), Machine)
        + (IF image THEN 8 ELSE 0)

Init ==
    /\ status \in [Machine -> {"absent", "stopped", "running"}]
    /\ rt \in SUBSET Machine /\ {m \in Machine : status[m] = "running"} \subseteq rt
    /\ prev \in SUBSET Published
    /\ part \in [Machine -> {"none", "debris"}] /\ snap \in [Machine -> {"none", "debris"}]
    /\ tomb \in [Machine -> {"none", "debris"}]
    /\ \A m \in Machine \ Published : part[m] = "none" /\ snap[m] = "none"
    /\ lock = [m \in Machine |-> "none"] /\ slock = [m \in Machine |-> "none"]
    /\ image = TRUE
    /\ pc = "idle" /\ opts \in [images : BOOLEAN, machines : BOOLEAN, dry : BOOLEAN]
    /\ statuses = status /\ items = {} /\ rows = {}
    /\ total = [m \in Machine |-> 0] /\ counted = [m \in Machine |-> 0]
    /\ harm = {} /\ quiet = TRUE /\ used = 0 /\ expect = {} /\ ops = 0

\* The rows due in this state: every inert artifact once, the image when no
\* machine refers to it, and each inactive machine with the rest of its bytes.
Due ==
    {<<"runtime", m, 1>> : m \in {n \in rt : status[n] \notin Active}}
    \cup {<<"log", m, 1>> : m \in Published \cap prev}
    \cup {<<"partial", m, 1>> : m \in {n \in Published : part[n] # "none"}}
    \cup {<<"snapshot-partial", m, 1>> : m \in {n \in Published : snap[n] # "none"}}
    \cup {<<"tomb", m, 1>> : m \in {n \in Machine : tomb[n] # "none"}}
    \cup {<<"image", "base", 8>> : x \in {y \in {1} : opts.images /\ image /\ Published = {}}}
    \cup {<<"machine", m, 4>> : m \in {n \in Published : opts.machines /\ status[n] \notin Active}}

-----------------------------------------------------------------------------
(* The plan.                                                               *)

\* prunable_machine_names and read_live_state.
ReadStatuses ==
    /\ pc = "idle" /\ pc' = "plan"
    /\ statuses' = status /\ used' = Used /\ expect' = Due /\ quiet' = TRUE
    /\ UNCHANGED <<machines, locks, opts, items, rows, total, counted, harm, ops>>

\* plan_stale_runtime_dirs.
StaleRuntimes ==
    {m \in rt : \/ statuses[m] # "absent" /\ statuses[m] \notin Active
                \/ statuses[m] = "absent" /\ status[m] = "absent"}

Counted == [m \in Machine |-> IF statuses[m] = "absent" THEN 0 ELSE Inert(m)]

Plan ==
    /\ pc = "plan" /\ pc' = "items"
    /\ LET named == {m \in Machine : statuses[m] # "absent"} IN
       /\ items' = {<<"runtime", m>> : m \in StaleRuntimes}
            \cup {<<"log", m>> : m \in named \cap prev}
            \cup {<<"partial", m>> : m \in {n \in named : part[n] # "none"}}
            \cup {<<"snapshot-partial", m>> : m \in {n \in named : snap[n] # "none"}}
            \cup {<<"tomb", m>> : m \in {n \in Machine : tomb[n] # "none"}}
       /\ total' = [m \in Machine |-> IF m \in named THEN Tree(m) ELSE 0]
    /\ counted' = Counted
    /\ UNCHANGED <<machines, locks, opts, statuses, rows, used, expect, harm, quiet, ops>>

-----------------------------------------------------------------------------
(* Carrying it out: execute_prune_plan and apply_prune_item.               *)

\* The plan is a list, in this order.
Rank == [runtime |-> 1, log |-> 2, partial |-> 3, tomb |-> 4] @@ ("snapshot-partial" :> 5)
First(k) == \A i \in items : Rank[k] <= Rank[i[1]]

Report(i) == rows' = rows \cup {<<i[1], i[2], 1>>}

DryItem ==
    /\ pc = "items" /\ opts.dry
    /\ \E i \in items : First(i[1]) /\ items' = items \ {i} /\ Report(i)
    /\ UNCHANGED <<machines, locks, pc, opts, statuses, total, counted, used, expect, harm, quiet, ops>>

\* Mutant: the status of the plan is trusted.
ApplyRuntimeStale(m) ==
    /\ <<"runtime", m>> \in items /\ First("runtime") /\ (statuses[m] # "absent" => lock[m] = "none")
    /\ items' = items \ {<<"runtime", m>>}
    /\ rt' = rt \ {m} /\ Report(<<"runtime", m>>)
    /\ harm' = IF m \in rt /\ status[m] \in Active
               THEN harm \cup {<<IF statuses[m] = "absent" THEN "unlisted" ELSE "runtime", m>>}
               ELSE harm
    /\ UNCHANGED <<status, prev, part, snap, tomb, image>>

\* A published machine's runtime directory under its lock, its status read
\* again; the directory of a name without a machine as it is.
ApplyRuntime(m) ==
    /\ <<"runtime", m>> \in items /\ First("runtime") /\ (statuses[m] # "absent" => lock[m] = "none")
    /\ items' = items \ {<<"runtime", m>>}
    /\ IF statuses[m] # "absent" /\ status[m] \in Active
       THEN UNCHANGED <<rt, rows, harm>>
       ELSE /\ rt' = rt \ {m} /\ Report(<<"runtime", m>>)
            /\ harm' = IF m \in rt /\ status[m] \in Active
                       THEN harm \cup {<<"unlisted", m>>} ELSE harm
    /\ UNCHANGED <<status, prev, part, snap, tomb, image>>

\* Files go as they are.
ApplyFile(m) ==
    /\ \/ /\ <<"log", m>> \in items /\ First("log") /\ items' = items \ {<<"log", m>>}
          /\ Report(<<"log", m>>) /\ prev' = prev \ {m} /\ UNCHANGED <<part, harm>>
       \/ /\ <<"partial", m>> \in items /\ First("partial") /\ items' = items \ {<<"partial", m>>}
          /\ Report(<<"partial", m>>) /\ part' = [part EXCEPT ![m] = "none"]
          /\ harm' = IF part[m] = "live" THEN harm \cup {<<"partial", m>>} ELSE harm
          /\ UNCHANGED prev
    /\ UNCHANGED <<status, rt, snap, tomb, image>>

ApplySnapshot(m) ==
    /\ <<"snapshot-partial", m>> \in items /\ First("snapshot-partial") /\ slock[m] = "none"
    /\ items' = items \ {<<"snapshot-partial", m>>} /\ Report(<<"snapshot-partial", m>>)
    /\ snap' = [snap EXCEPT ![m] = "none"]
    /\ harm' = IF snap[m] = "live" THEN harm \cup {<<"snapshot", m>>} ELSE harm
    /\ UNCHANGED <<status, rt, prev, part, tomb, image>>

ApplyTomb(m) ==
    /\ <<"tomb", m>> \in items /\ First("tomb") /\ (status[m] # "absent" => lock[m] = "none")
    /\ items' = items \ {<<"tomb", m>>} /\ Report(<<"tomb", m>>)
    /\ tomb' = [tomb EXCEPT ![m] = "none"]
    /\ UNCHANGED <<status, rt, prev, part, snap, image, harm>>

Apply ==
    /\ pc = "items" /\ ~opts.dry
    /\ \E m \in Machine : ApplyRuntime(m) \/ ApplyFile(m) \/ ApplySnapshot(m) \/ ApplyTomb(m)
    /\ UNCHANGED <<locks, pc, opts, statuses, total, counted, used, expect, quiet, ops>>

\* prune_unreferenced, behind the image store's lock.
Images ==
    /\ pc = "items" /\ items = {} /\ pc' = "machines"
    /\ IF opts.images /\ image /\ Published = {}
       THEN rows' = rows \cup {<<"image", "base", 8>>} /\ image' = (IF opts.dry THEN image ELSE FALSE)
       ELSE UNCHANGED <<rows, image>>
    /\ items' = IF opts.machines
                THEN {<<"machine", m>> : m \in {n \in Machine : statuses[n] = "stopped"}} ELSE {}
    /\ UNCHANGED <<status, rt, prev, part, snap, tomb, locks, opts, statuses, total, counted, used, expect,
                   harm, quiet, ops>>

\* remove_one, under the machine lock: a machine that became active, or that
\* another command removed, ends the prune.
RemoveMachine ==
    /\ pc = "machines"
    /\ \E i \in items :
        /\ items' = items \ {i}
        /\ IF opts.dry
           THEN /\ rows' = rows \cup {<<"machine", i[2], total[i[2]] - counted[i[2]]>>}
                /\ UNCHANGED <<status, rt, prev, part, snap, pc>>
           ELSE IF status[i[2]] = "stopped"
           THEN /\ lock[i[2]] = "none" /\ slock[i[2]] = "none"
                /\ status' = [status EXCEPT ![i[2]] = "absent"]
                /\ rt' = rt \ {i[2]} /\ prev' = prev \ {i[2]}
                /\ part' = [part EXCEPT ![i[2]] = "none"]
                /\ snap' = [snap EXCEPT ![i[2]] = "none"]
                /\ rows' = rows \cup {<<"machine", i[2], total[i[2]] - counted[i[2]]>>}
                /\ UNCHANGED pc
           ELSE pc' = "failed" /\ UNCHANGED <<status, rt, prev, part, snap, rows>>
    /\ UNCHANGED <<tomb, image, locks, opts, statuses, total, counted, used, expect, harm, quiet, ops>>

Done ==
    /\ pc = "machines" /\ items = {} /\ pc' = "done"
    /\ UNCHANGED <<machines, locks, opts, statuses, items, rows, total, counted, used, expect, harm, quiet, ops>>

-----------------------------------------------------------------------------
(* The other commands.                                                     *)

Step == ops < MaxOps /\ ops' = ops + 1 /\ quiet' = FALSE

Create(m) ==
    /\ status[m] = "absent" /\ tomb[m] = "none" /\ status' = [status EXCEPT ![m] = "stopped"]
    /\ UNCHANGED <<rt, prev, part, snap, tomb, image, locks>>

\* start takes the lock and stages the overlay; it ends with a running
\* machine, its history rotated, or dies and leaves the overlay behind.
StartBegins(m) ==
    /\ status[m] = "stopped" /\ lock[m] = "none"
    /\ lock' = [lock EXCEPT ![m] = "start"] /\ part' = [part EXCEPT ![m] = "live"]
    /\ UNCHANGED <<status, rt, prev, snap, tomb, image, slock>>
StartEnds(m) ==
    /\ lock[m] = "start" /\ lock' = [lock EXCEPT ![m] = "none"]
    /\ \/ /\ part[m] = "live" /\ part' = [part EXCEPT ![m] = "none"]
          /\ status' = [status EXCEPT ![m] = "running"] /\ rt' = rt \cup {m}
          /\ prev' = prev \cup {m}
       \/ /\ part' = [part EXCEPT ![m] = IF @ = "live" THEN "debris" ELSE @]
          /\ UNCHANGED <<status, rt, prev>>
    /\ UNCHANGED <<snap, tomb, image, slock>>

Stop(m) ==
    /\ status[m] = "running" /\ lock[m] = "none"
    /\ status' = [status EXCEPT ![m] = "stopped"] /\ rt' = rt \ {m} /\ prev' = prev \ {m}
    /\ UNCHANGED <<part, snap, tomb, image, locks>>

SnapshotBegins(m) ==
    /\ status[m] # "absent" /\ slock[m] = "none"
    /\ slock' = [slock EXCEPT ![m] = "snapshot"] /\ snap' = [snap EXCEPT ![m] = "live"]
    /\ UNCHANGED <<status, rt, prev, part, tomb, image, lock>>
SnapshotEnds(m) ==
    /\ slock[m] = "snapshot" /\ slock' = [slock EXCEPT ![m] = "none"]
    /\ snap' \in {[snap EXCEPT ![m] = "none"], [snap EXCEPT ![m] = IF @ = "live" THEN "debris" ELSE @]}
    /\ UNCHANGED <<status, rt, prev, part, tomb, image, lock>>

Others ==
    /\ Step /\ pc \notin {"done", "failed"}
    /\ \E m \in Machine :
        \/ Create(m) \/ StartBegins(m) \/ StartEnds(m) \/ Stop(m)
        \/ SnapshotBegins(m) \/ SnapshotEnds(m)
    /\ UNCHANGED <<prune, harm>>

Next ==
    ReadStatuses \/ Plan \/ DryItem \/ Apply \/ Images \/ RemoveMachine \/ Done \/ Others

Spec == Init /\ [][Next]_vars

-----------------------------------------------------------------------------
(* Properties.                                                             *)

\* The types of all variables.
TypeOK ==
    /\ status \in [Machine -> {"absent", "stopped", "running"}]
    /\ {rt, prev} \subseteq SUBSET Machine
    /\ {part, snap, tomb} \subseteq [Machine -> Artifact]
    /\ {lock, slock} \subseteq [Machine -> {"none", "start", "snapshot"}]
    /\ image \in BOOLEAN /\ quiet \in BOOLEAN
    /\ pc \in {"idle", "plan", "items", "machines", "done", "failed"}
    /\ items \subseteq (Kinds \cup {"machine"}) \X Machine
    /\ counted \in [Machine -> 0..3] /\ total \in [Machine -> 0..7]
    /\ ops \in 0..MaxOps

Reclaimed == MapThenSumSet(LAMBDA r : r[3], rows)

\* A real run that nobody disturbs frees exactly the bytes it reports, each
\* counted once; a dry run frees none.
BytesAreReal ==
    pc = "done" /\ quiet => Used = used - (IF opts.dry THEN 0 ELSE Reclaimed)

\* A run, dry or real, reports exactly the rows due in the state it started
\* from, so a dry run tells what a real one would do; a machine the run
\* removes does not release its image within the same run.
DryRunParity == pc = "done" /\ quiet => rows = expect

\* The runtime directory of a machine the prune listed is never removed once
\* that machine is active again.
ListedRuntimeKept == \A m \in Machine : <<"runtime", m>> \notin harm

\* A snapshot in the making is never disturbed.
SnapshotsUndisturbed == \A m \in Machine : <<"snapshot", m>> \notin harm

=============================================================================
