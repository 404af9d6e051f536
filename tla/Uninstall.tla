----------------------------- MODULE Uninstall ------------------------------
(***************************************************************************)
(* `firestone uninstall [--purge]` beside the other commands of the host:  *)
(* a plan, the refusal while a machine runs, the questions, and the        *)
(* removal of the directories and then of the executable.  A removal may   *)
(* fail half way and the command may be killed; the user runs it again.    *)
(***************************************************************************)
EXTENDS Naturals, Sequences, FiniteSets, SequencesExt

CONSTANTS
    Machine,
    MaxFaults,      \* removals that fail or are cut off
    MaxOps          \* steps of other commands

Directory == {"data", "config", "runtime"}

VARIABLES
    dirs,       \* the directories that exist
    inside,     \* TRUE if the configuration directory lies inside the data directory
    status,     \* of each machine; "ruined" lost some of its files, not its process
    exe, place, \* the executable is there; where it is
    cmd,        \* [pc, purge, yes, asks, plan, kept, answers, result]
    removed,    \* history: what this run removed, in order
    since,      \* history: machines active since this run began
    harmed,     \* history: machines whose data this run took while they were active
    faults, ops

host == <<inside, place>>
vars == <<dirs, inside, status, exe, place, cmd, removed, since, harmed, faults, ops>>

Active == {"starting", "running"}       \* MachineStatus::is_active
Present == {m \in Machine : status[m] \notin {"absent", "ruined"}}
Idle == [pc |-> "idle", purge |-> FALSE, yes |-> FALSE, asks |-> FALSE, plan |-> <<>>,
         kept |-> {}, answers |-> 0, result |-> "none"]

Init ==
    /\ dirs \in {{}, {"data", "config"}, Directory}
    /\ status \in [Machine -> {"absent", "stopped", "running"}]
    /\ dirs = {} => \A m \in Machine : status[m] = "absent"
    /\ inside \in BOOLEAN /\ place \in {"user", "system", "unwritable"}
    /\ exe = TRUE /\ cmd = Idle /\ removed = <<>> /\ since = {} /\ harmed = {}
    /\ faults = 0 /\ ops = 0

-----------------------------------------------------------------------------
(* The rest of the host.                                                   *)

Other == ops < MaxOps /\ ops' = ops + 1

\* create makes the data directory it needs.
Create(m) ==
    /\ Other /\ exe /\ status[m] = "absent"
    /\ dirs' = dirs \cup {"data"} /\ status' = [status EXCEPT ![m] = "stopped"]
    /\ UNCHANGED <<host, exe, cmd, removed, since, harmed, faults>>

Start(m) ==
    /\ Other /\ exe
    /\ \/ status[m] = "stopped" /\ status' = [status EXCEPT ![m] = "starting"]
       \/ status[m] = "starting" /\ status' = [status EXCEPT ![m] = "running"]
    /\ dirs' = dirs \cup {"runtime"}
    /\ UNCHANGED <<host, exe, cmd, removed, since, harmed, faults>>

Stop(m) ==
    /\ exe /\ status[m] \in Active
    /\ status' = [status EXCEPT ![m] = "stopped"] /\ since' = since \ {m}
    /\ UNCHANGED <<host, dirs, exe, cmd, removed, harmed, faults, ops>>

-----------------------------------------------------------------------------
(* plan.                                                                   *)

\* firestone_directories: existing ones, no path twice.
Listed(d) == IF d \in dirs THEN <<d>> ELSE <<>>
FirestoneDirectories == Listed("data") \o Listed("config") \o Listed("runtime")

Refuse(kind) == cmd' = [cmd EXCEPT !.pc = "idle", !.result = kind]

Begin ==
    /\ exe /\ cmd.pc = "idle"
    /\ \E purge, yes, asks \in BOOLEAN :
          cmd' = [Idle EXCEPT !.pc = "plan", !.purge = purge, !.yes = yes, !.asks = asks]
    /\ removed' = <<>> /\ harmed' = {}
    /\ since' = {m \in Machine : status[m] \in Active}
    /\ UNCHANGED <<host, dirs, status, exe, faults, ops>>

\* plan: refuse_system_prefix and refuse_unwritable come first.
Plan ==
    /\ cmd.pc = "plan"
    /\ IF place # "user" THEN Refuse("usage")
       ELSE cmd' = [cmd EXCEPT !.pc = IF cmd.purge THEN "running" ELSE "confirm",
                               !.plan = IF cmd.purge THEN FirestoneDirectories ELSE <<>>,
                               !.kept = IF cmd.purge THEN {} ELSE ToSet(FirestoneDirectories)]
    /\ UNCHANGED <<host, dirs, status, exe, removed, since, harmed, faults, ops>>

\* running_machine_names: the machines whose files are ready and whose status is active.
RunningMachineNames == {m \in Present : status[m] \in Active}

CheckRunning ==
    /\ cmd.pc = "running"
    /\ IF RunningMachineNames # {} THEN Refuse("conflict") ELSE cmd' = [cmd EXCEPT !.pc = "confirm"]
    /\ UNCHANGED <<host, dirs, status, exe, removed, since, harmed, faults, ops>>

\* How many questions a run asks.
Questions == IF cmd.purge THEN 2 ELSE 1

\* confirm_uninstall, one question at a time.
Confirm ==
    /\ cmd.pc = "confirm"
    /\ \/ cmd.yes /\ cmd' = [cmd EXCEPT !.pc = "remove"]
       \/ ~cmd.yes /\ ~cmd.asks /\ Refuse("usage")
       \/ ~cmd.yes /\ cmd.asks /\ Refuse("cancelled")
       \/ /\ ~cmd.yes /\ cmd.asks
          /\ cmd' = [cmd EXCEPT !.answers = @ + 1,
                                !.pc = IF cmd.answers + 1 = Questions THEN "remove" ELSE "confirm"]
    /\ UNCHANGED <<host, dirs, status, exe, removed, since, harmed, faults, ops>>

-----------------------------------------------------------------------------
(* apply.                                                                  *)

\* What goes with a directory.
Within(d) == {d} \cup (IF d = "data" /\ inside THEN {"config"} ELSE {})

\* The machines' files that are gone, of all or of some.
Lose(gone, as) ==
    /\ status' = [m \in Machine |-> IF m \in gone THEN as ELSE status[m]]
    /\ harmed' = harmed \cup {m \in gone : status[m] \in Active}

\* remove_dir_all of the next directory of the plan.
RemoveDirectory ==
    /\ cmd.pc = "remove" /\ cmd.plan # <<>>
    /\ LET d == Head(cmd.plan) IN
          IF d \notin dirs THEN Refuse("error") /\ UNCHANGED <<dirs, status, harmed, removed>>
          ELSE /\ dirs' = dirs \ Within(d) /\ removed' = Append(removed, d)
               /\ cmd' = [cmd EXCEPT !.plan = Tail(@)]
               /\ IF d = "data" THEN Lose(Machine, "absent") ELSE UNCHANGED <<status, harmed>>
    /\ UNCHANGED <<host, exe, since, faults, ops>>

\* The removal fails, or the command is killed, with some of the files gone.
RemoveFails ==
    /\ cmd.pc = "remove" /\ cmd.plan # <<>> /\ faults < MaxFaults /\ faults' = faults + 1
    /\ Refuse("error")
    /\ \E gone \in SUBSET (IF Head(cmd.plan) = "data" THEN Present ELSE {}) : Lose(gone, "ruined")
    /\ UNCHANGED <<host, dirs, exe, removed, since, ops>>

\* remove_file of the executable.
RemoveExecutable ==
    /\ cmd.pc = "remove" /\ cmd.plan = <<>>
    /\ exe' = FALSE /\ removed' = Append(removed, "executable") /\ Refuse("removed")
    /\ UNCHANGED <<host, dirs, status, since, harmed, faults, ops>>

Command == Plan \/ CheckRunning \/ Confirm \/ RemoveDirectory \/ RemoveExecutable
Next ==
    \/ Begin \/ Command \/ RemoveFails
    \/ \E m \in Machine : Create(m) \/ Start(m) \/ Stop(m)

Spec == Init /\ [][Next]_vars

\* A user who wants to be rid of it: every run is a purge with --yes, and machines in
\* its way are stopped.
BeginPurge == Begin /\ cmd'.purge /\ cmd'.yes
PurgeNext ==
    \/ BeginPurge \/ Command \/ RemoveFails
    \/ \E m \in Machine : Create(m) \/ Start(m) \/ Stop(m)

-----------------------------------------------------------------------------
\* A plan names known directories, and no more questions are answered than are asked: two
\* for a purge, one otherwise (confirm).
TypeOK ==
    /\ dirs \subseteq Directory /\ exe \in BOOLEAN
    /\ status \in [Machine -> {"absent", "stopped", "starting", "running", "ruined"}]
    /\ cmd.pc \in {"idle", "plan", "running", "confirm", "remove"} /\ cmd.answers \in 0..(IF cmd.purge THEN 2 ELSE 1)
    /\ ToSet(cmd.plan) \subseteq Directory

\* While anything of the plan is left there is an executable to run again: the run that
\* removed it had removed every directory first.
RetryIsPossible ==
    ~exe => Last(removed) = "executable" /\ cmd.plan = <<>>

\* Nothing goes without the consent that covers it: a directory only by a purge, and a
\* run without --yes only where every question, two for a purge, was answered.
NothingWithoutConsent ==
    removed # <<>> =>
        /\ cmd.yes \/ cmd.answers = (IF cmd.purge THEN 2 ELSE 1)
        /\ ToSet(removed) \cap Directory # {} => cmd.purge

\* A purge spares the machines that were up, or coming up, when it was run and still are.
RunningIsSpared == harmed \cap since = {}

\* The executable is still there, and is the user's, so that a run may remove it.
Remaining == place = "user" /\ exe

-----------------------------------------------------------------------------
(* The inductive invariant behind the properties.                          *)

\* What a run may have in hand: only a purge has directories in its plan.
CmdInv ==
    /\ DOMAIN cmd = {"pc", "purge", "yes", "asks", "plan", "kept", "answers", "result"}
    /\ cmd.pc \in {"idle", "plan", "running", "confirm", "remove"}
    /\ cmd.plan \in Seq(Directory) /\ cmd.answers \in Nat
    /\ cmd.plan # <<>> => cmd.purge
    /\ exe = FALSE => cmd.pc = "idle"

\* Nothing is removed before the questions, and what follows them has the consent.
ConsentInv ==
    /\ removed \in Seq(Directory \cup {"executable"})
    /\ cmd.pc \in {"plan", "running", "confirm"} => removed = <<>>
    /\ cmd.pc = "remove" => cmd.yes \/ cmd.answers = Questions
    /\ NothingWithoutConsent

\* What was active when the run began and was not stopped since still is, until the
\* check of a purge found nothing active.
ActiveInv ==
    /\ status \in [Machine -> {"absent", "stopped", "starting", "running", "ruined"}]
    /\ cmd.pc \in {"plan", "running"} => \A m \in since : m \in Machine /\ status[m] \in Active
    /\ cmd.pc \in {"confirm", "remove"} /\ cmd.purge => since = {}
    /\ RunningIsSpared
    /\ cmd.pc \in {"plan", "running", "confirm"} => harmed = {}

Inv == CmdInv /\ ConsentInv /\ ActiveInv /\ RetryIsPossible

=============================================================================
