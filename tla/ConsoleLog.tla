------------------------------ MODULE ConsoleLog ------------------------------
(***************************************************************************)
(* The console history of a machine, console.log, across boots: the VMM    *)
(* truncates the file it writes the serial console to, so a launch moves   *)
(* the history to console.log.previous and the end of the run merges it    *)
(* back; PTY output is staged in the runtime directory and appended when   *)
(* the VMM is gone.  A log is a sequence of <<boot, source>> lines.        *)
(***************************************************************************)
EXTENDS Naturals, Sequences

CONSTANTS
    MaxBoot,    \* bound on launches
    MaxCrash,   \* bound on deaths of a shim
    MaxPrune    \* bound on prunes of a previous log

VARIABLES
    cur,        \* console.log
    prev,       \* console.log.previous, or Absent
    staging,    \* console.pty.log in the runtime directory, or Absent
    boot,       \* launches so far
    vmm,        \* the VMM is alive
    pc,         \* step of the shim, or of a stop without one
    after,      \* what follows a merge
    written,    \* history: lines the VMM wrote or the broker staged
    torn,       \* history: a death between the two steps of a merge
    crashes, prunes

files == <<cur, prev, staging>>
vars == <<files, boot, vmm, pc, after, written, torn, crashes, prunes>>

Absent == <<<<0, "absent">>>>
Lines(log) == IF log = Absent THEN <<>> ELSE log
Members(log) == {Lines(log)[k] : k \in DOMAIN Lines(log)}

Init ==
    /\ cur = <<>> /\ prev = Absent /\ staging = Absent
    /\ boot = 0 /\ vmm = FALSE /\ pc = "none" /\ after = "none"
    /\ written = {} /\ torn = FALSE /\ crashes = 0 /\ prunes = 0

-----------------------------------------------------------------------------
(* A launch.                                                               *)

\* Mutant: a previous log that is still there is rotated over.
StartRotates ==
    /\ pc = "none" /\ ~vmm /\ boot < MaxBoot
    /\ boot' = boot + 1 /\ staging' = Absent
    /\ pc' = "rotate" /\ after' = "rotate"
    /\ UNCHANGED <<cur, prev, vmm, written, torn, crashes, prunes>>

\* The runtime directory is made anew; recover_console_log comes first.
Start ==
    /\ pc = "none" /\ ~vmm /\ boot < MaxBoot
    /\ boot' = boot + 1 /\ staging' = Absent
    /\ pc' = "merge" /\ after' = "rotate"
    /\ UNCHANGED <<cur, prev, vmm, written, torn, crashes, prunes>>

\* rotate_console_log.
Rotate ==
    /\ pc = "rotate" /\ pc' = "create"
    /\ prev' = IF cur # <<>> THEN cur ELSE prev
    /\ cur' = <<>>
    /\ UNCHANGED <<staging, boot, vmm, after, written, torn, crashes, prunes>>

\* vm.create opens the serial file with truncation.
CreateVm ==
    /\ pc = "create" /\ pc' = "attach" /\ vmm' = TRUE /\ cur' = <<>>
    /\ UNCHANGED <<prev, staging, boot, after, written, torn, crashes, prunes>>

\* ConsoleBroker::start: a new staging file.
AttachBroker ==
    /\ pc = "attach" /\ vmm /\ pc' = "up" /\ staging' = <<>>
    /\ UNCHANGED <<cur, prev, boot, vmm, after, written, torn, crashes, prunes>>

Serial ==
    /\ vmm /\ <<boot, "serial">> \notin written
    /\ cur' = Append(cur, <<boot, "serial">>)
    /\ written' = written \cup {<<boot, "serial">>}
    /\ UNCHANGED <<prev, staging, boot, vmm, pc, after, torn, crashes, prunes>>

\* The broker logs before it serves a client.
Stage ==
    /\ vmm /\ pc = "up" /\ staging # Absent /\ <<boot, "pty">> \notin written
    /\ staging' = Append(staging, <<boot, "pty">>)
    /\ written' = written \cup {<<boot, "pty">>}
    /\ UNCHANGED <<cur, prev, boot, vmm, pc, after, torn, crashes, prunes>>

-----------------------------------------------------------------------------
(* The end of a run.                                                       *)

\* The VMM is reaped, after a stop, a failed launch or its own exit.
Reap ==
    /\ pc \in {"attach", "up"} /\ vmm' = FALSE
    /\ pc' = IF staging = Absent THEN "merge" ELSE "ptymerge"
    /\ after' = "final"
    /\ UNCHANGED <<files, boot, written, torn, crashes, prunes>>

\* merge_pty_log: the append, then the removal.
MergePty ==
    /\ pc = "ptymerge" /\ pc' = "ptyremove"
    /\ cur' = cur \o staging
    /\ UNCHANGED <<prev, staging, boot, vmm, after, written, torn, crashes, prunes>>
RemovePty ==
    /\ pc = "ptyremove" /\ pc' = "merge" /\ staging' = Absent
    /\ UNCHANGED <<cur, prev, boot, vmm, after, written, torn, crashes, prunes>>

\* merge_console_log: the atomic replacement of console.log, then the removal
\* of the previous log, which fails when it has been pruned meanwhile.
Merge ==
    /\ pc = "merge"
    /\ IF prev = Absent THEN pc' = after /\ UNCHANGED cur
       ELSE pc' = "remove" /\ cur' = prev \o cur
    /\ UNCHANGED <<prev, staging, boot, vmm, after, written, torn, crashes, prunes>>
RemovePrevious ==
    /\ pc = "remove" /\ prev' = Absent
    /\ pc' = IF prev = Absent THEN "final" ELSE after
    /\ UNCHANGED <<cur, staging, boot, vmm, after, written, torn, crashes, prunes>>

\* finalize_supervisor_result: the runtime directory goes.
Finish ==
    /\ pc = "final" /\ pc' = "none" /\ staging' = Absent
    /\ UNCHANGED <<cur, prev, boot, vmm, after, written, torn, crashes, prunes>>

\* A replacement shim or an unsupervised stop ends the VMM it finds; there is
\* no broker to shut down.
StopWithoutBroker ==
    /\ pc = "none" /\ vmm /\ vmm' = FALSE
    /\ pc' = "merge" /\ after' = "final"
    /\ UNCHANGED <<files, boot, written, torn, crashes, prunes>>

-----------------------------------------------------------------------------
(* Faults and others.                                                      *)

ShimDies ==
    /\ pc # "none" /\ crashes < MaxCrash /\ crashes' = crashes + 1
    /\ pc' = "none" /\ torn' = (torn \/ pc = "remove")
    /\ UNCHANGED <<files, boot, vmm, after, written, prunes>>

\* A VMM that nobody supervises exits.
VmmExits ==
    /\ vmm /\ pc = "none" /\ vmm' = FALSE
    /\ UNCHANGED <<files, boot, pc, after, written, torn, crashes, prunes>>

\* system prune removes a previous log, whatever the machine does.
PruneLog ==
    /\ prev # Absent /\ prunes < MaxPrune /\ prunes' = prunes + 1
    /\ prev' = Absent
    /\ UNCHANGED <<cur, staging, boot, vmm, pc, after, written, torn, crashes>>

Next ==
    \/ Start \/ Rotate \/ CreateVm \/ AttachBroker \/ Serial \/ Stage
    \/ Reap \/ MergePty \/ RemovePty \/ Merge \/ RemovePrevious \/ Finish
    \/ StopWithoutBroker \/ ShimDies \/ VmmExits \/ PruneLog

Spec == Init /\ [][Next]_vars

-----------------------------------------------------------------------------
(* Properties.                                                             *)

\* The history as a reader who also has the previous log would put it
\* together.
History == IF pc = "remove" THEN cur ELSE Lines(prev) \o cur

\* The types of all variables.
TypeOK ==
    /\ \A log \in {cur, Lines(prev), Lines(staging)} :
        log \in Seq((1..MaxBoot) \X {"serial", "pty"})
    /\ boot \in 0..MaxBoot /\ crashes \in 0..MaxCrash /\ prunes \in 0..MaxPrune
    /\ vmm \in BOOLEAN /\ torn \in BOOLEAN
    /\ pc \in {"none", "merge", "remove", "rotate", "create", "attach", "up",
               "ptymerge", "ptyremove", "final"}
    /\ after \in {"none", "rotate", "final"}
    /\ written \subseteq (1..MaxBoot) \X {"serial", "pty"}

\* Every line of the serial console survives: in console.log or in the
\* previous log, wherever a shim died, unless a prune removed that log.
SerialIsKept ==
    prunes = 0 =>
        \A l \in written : l[2] = "serial" => l \in Members(cur) \cup Members(prev)

\* The history is in boot order, serial before PTY output.  A shim that dies inside a
\* merge has the next one write the earlier boots twice, and only then; the last
\* occurrences of the lines are in order even so.
HistoryIsOrdered ==
    LET Last(i) == \A j \in DOMAIN History : j > i => History[j] # History[i]
    IN  \A i, j \in DOMAIN History : i < j /\ (torn => Last(i) /\ Last(j)) =>
            \/ History[i][1] < History[j][1]
            \/ History[i][1] = History[j][1] /\ History[i][2] = "serial" /\ History[j][2] = "pty"

=============================================================================
