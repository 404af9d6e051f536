-------------------------------- MODULE Doctor --------------------------------
(***************************************************************************)
(* firestone doctor: the repairs of perform_fixes, in their order, then    *)
(* the reconciliation of stale machines, then the inspection whose report  *)
(* the user reads.  A run may be killed between any two steps and every    *)
(* command it calls may fail.  The checks kept here are those a run can    *)
(* change: the vendored files, virtiofsd, and whether passt may make a     *)
(* user namespace, which on a restricting host needs a copy of passt owned *)
(* by root, an AppArmor profile and that profile loaded.                   *)
(***************************************************************************)
EXTENDS Naturals, FiniteSets, Sequences

CONSTANTS
    Runs       \* bound on runs of doctor

VARIABLES
    host,      \* facts no run changes
    bin,       \* of each dependency its file: none, bad, good
    exe, prof, loaded,   \* the root copy, its profile, the profile in the kernel
    staged,    \* the profile in the user's staging directory
    stale,     \* a machine's state.json says running and nothing runs
    n, fix, confirmed,   \* the run: its number and its options
    pc, todo,  \* where it is, dependencies still to look at
    failures, repaired,  \* FixOutcome
    report,    \* of each check: none, ok, warn, fail, fixed
    before,    \* history: what the run found
    smooth     \* history: nothing in this run failed

hostVars == <<bin, exe, prof, loaded, staged, stale>>
run == <<n, fix, confirmed>>
outcome == <<failures, repaired>>
vars == <<host, hostVars, run, pc, todo, outcome, report, before, smooth>>

Vendored == {"vmm", "firmware"}
Dep == Vendored \cup {"virtiofsd", "passt"}
Check == {"vendored", "virtiofsd", "userns", "stale"}

-----------------------------------------------------------------------------
(* What doctor reads of the host.                                          *)

\* verify_root_owned_file and _parent: a regular file of root's that nobody else
\* may write, with the pinned bytes.
RootOwned(file) == file = "good"

\* resolve_verified_apparmor_passt_at: both files or neither, each as it must
\* be, and the profile loaded.
RootCopy ==
    CASE exe = "none" /\ prof = "none" -> "absent"
      [] RootOwned(exe) /\ RootOwned(prof) /\ loaded -> "verified"
      [] OTHER -> "error"

\* selected_passt: the root copy, the materialised file, a passt on PATH.
SelectedPasst ==
    CASE RootCopy = "error" -> "error"
      [] RootCopy = "verified" -> "root"
      [] RootCopy = "absent" /\ bin["passt"] = "good" -> "pinned"
      [] OTHER -> IF host.path THEN "other" ELSE "none"

\* What the kernel lets that program do.
Restricted == host.apparmor /\ SelectedPasst # "root"
MayIsolate == ~host.sysctl /\ ~host.boxed /\ ~Restricted

\* passt_userns_probe.
Probe ==
    CASE SelectedPasst \in {"error", "none"} -> "inconclusive"
      [] ~MayIsolate -> "denied"
      [] SelectedPasst = "other" -> "inconclusive"
      [] OTHER -> "available"

\* diagnose_user_namespaces: a sysctl of zero first, then the probe; a denial
\* is AppArmor's when an audit record says so or the restriction is on.
Diagnose ==
    CASE host.sysctl -> [status |-> "fail", remedy |-> FALSE]
      [] Probe = "available" -> [status |-> "ok", remedy |-> FALSE]
      [] Probe = "denied" -> [status |-> "fail", remedy |-> host.apparmor]
      [] OTHER -> [status |-> "warn", remedy |-> FALSE]

\* check_vendored, check_virtiofsd, check_user_namespaces, check_stale_state.
VendoredStatus == IF \A d \in Vendored : bin[d] = "good" THEN "ok" ELSE "fail"
VirtiofsdStatus == IF bin["virtiofsd"] = "good" THEN "ok" ELSE "fail"
UsernsStatus == Diagnose.status
StaleStatus == IF stale THEN "fail" ELSE "ok"

Status(c) ==
    CASE c = "vendored" -> VendoredStatus
      [] c = "virtiofsd" -> VirtiofsdStatus
      [] c = "userns" -> UsernsStatus
      [] OTHER -> StaleStatus

Found == [c \in Check |-> Status(c)]

-----------------------------------------------------------------------------

Init ==
    /\ host \in [sysctl : BOOLEAN, boxed : BOOLEAN, apparmor : BOOLEAN, path : BOOLEAN,
                 embedded : BOOLEAN, tools : BOOLEAN]
    /\ ~(host.sysctl /\ host.boxed)
    /\ bin \in [Dep -> {"none", "bad", "good"}]
    /\ bin["virtiofsd"] = bin["firmware"]
    /\ host.embedded \/ bin["passt"] = "none"
    /\ exe = "none" /\ prof = "none" /\ loaded = FALSE /\ staged = FALSE /\ stale \in BOOLEAN
    /\ n = 0 /\ fix = FALSE /\ confirmed = FALSE /\ pc = "idle" /\ todo = {}
    /\ failures = {} /\ repaired = {} /\ report = [c \in Check |-> "none"]
    /\ before = [c \in Check |-> "none"] /\ smooth = TRUE

\* Store::doctor; confirmed only after the prompt of an interactive --fix.
Start(f, c) ==
    /\ pc = "idle" /\ n < Runs /\ n' = n + 1 /\ fix' = f /\ confirmed' = (c /\ f)
    /\ pc' = IF f THEN "materialize" ELSE "reconcile"
    /\ failures' = {} /\ repaired' = {} /\ report' = [k \in Check |-> "none"]
    /\ before' = Found /\ smooth' = TRUE /\ todo' = {}
    /\ UNCHANGED <<host, hostVars>>

\* materialize_embedded_helper, of a build that carries the payloads; what it
\* brings is there before perform_fixes looks.
Materialize ==
    /\ pc = "materialize" /\ pc' = "fixes" /\ todo' = Vendored \cup {"virtiofsd"}
    /\ bin' = IF host.embedded THEN [bin EXCEPT !["vmm"] = "good", !["passt"] = "good"] ELSE bin
    /\ before' = [c \in Check |-> IF c = "vendored" /\ bin' # bin
                                  THEN IF \A d \in Vendored : bin'[d] = "good" THEN "ok" ELSE "fail"
                                  ELSE before[c]]
    /\ UNCHANGED <<host, exe, prof, loaded, staged, stale, run, outcome, report, smooth>>

\* record_fix_failure.
Fails(c) == failures' = failures \cup {c} /\ smooth' = FALSE /\ UNCHANGED repaired
CheckOf(d) == IF d = "virtiofsd" THEN "virtiofsd" ELSE "vendored"

\* record_directory_fix: without the directories nothing is repaired.
DirectoriesFail ==
    /\ pc = "fixes" /\ todo = Vendored \cup {"virtiofsd"} /\ Fails("vendored")
    /\ pc' = "userns" /\ todo' = {}
    /\ UNCHANGED <<host, hostVars, run, report, before>>

\* install_artifact: a temporary file, the bytes, the hash, the mode, the
\* rename, the directory, the readback.
Install(d) ==
    /\ pc = "fixes" /\ d \in todo /\ bin[d] # "good"
    /\ \/ /\ bin' = [bin EXCEPT ![d] = "good"] /\ repaired' = repaired \cup {CheckOf(d)}
          /\ UNCHANGED <<failures, smooth>>
       \/ Fails(CheckOf(d)) /\ UNCHANGED bin
       \/ bin' = [bin EXCEPT ![d] = "good"] /\ Fails(CheckOf(d))   \* sync_directory, the readback
    /\ todo' = todo \ {d}
    /\ UNCHANGED <<host, exe, prof, loaded, staged, stale, run, pc, report, before>>

\* fix_artifact of a file that is as it must be.
Present(d) ==
    /\ pc = "fixes" /\ d \in todo /\ bin[d] = "good" /\ todo' = todo \ {d}
    /\ UNCHANGED <<host, hostVars, run, pc, outcome, report, before, smooth>>

FixesDone ==
    /\ pc = "fixes" /\ todo = {} /\ pc' = "userns"
    /\ UNCHANGED <<host, hostVars, run, todo, outcome, report, before, smooth>>

\* perform_fixes goes on to fix_apparmor_passt only on a diagnosis that blames
\* AppArmor.
Remedied == pc = "userns" /\ Diagnose.remedy

SkipApparmor ==
    /\ pc = "userns" /\ ~Diagnose.remedy /\ pc' = "reconcile"
    /\ UNCHANGED <<host, hostVars, run, todo, outcome, report, before, smooth>>

\* Mutant: consent is not asked for.
AskedNobody == host.embedded /\ bin["passt"] = "good" /\ host.tools

\* fix_apparmor_passt up to the first command: embedded bytes that verify, the
\* staged profile, the confirmation, install, apparmor_parser and a way to
\* become root.
MayElevate == host.embedded /\ bin["passt"] = "good" /\ confirmed /\ host.tools

ApparmorRefused ==
    /\ Remedied /\ ~MayElevate /\ Fails("userns") /\ pc' = "reconcile"
    /\ staged' = (staged \/ (host.embedded /\ bin["passt"] = "good"))
    /\ UNCHANGED <<host, bin, exe, prof, loaded, stale, run, todo, report, before>>

StageProfile ==
    /\ Remedied /\ MayElevate /\ staged' = TRUE /\ pc' = "copy"
    /\ UNCHANGED <<host, bin, exe, prof, loaded, stale, run, todo, outcome, report, before, smooth>>

\* run_elevated, four times: install -d, install of the helper, install of the
\* profile, apparmor_parser -r.  A command that fails ends the repair; one that
\* was cut may have left part of its file.
Elevated(here, next) ==
    /\ pc = here
    /\ \/ /\ pc' = next /\ UNCHANGED <<outcome, smooth>>
          /\ exe' = IF here = "copy" THEN bin["passt"] ELSE exe
          /\ prof' = IF here = "profile" THEN "good" ELSE prof
          /\ loaded' = IF here = "parse" THEN TRUE ELSE loaded
       \/ /\ pc' = "reconcile" /\ Fails("userns")
          /\ exe' \in IF here = "copy" THEN {exe, "bad"} ELSE {exe}
          /\ prof' \in IF here = "profile" THEN {prof, "bad"} ELSE {prof}
          /\ UNCHANGED loaded
    /\ UNCHANGED <<host, bin, staged, stale, run, todo, report, before>>

CopyHelper == Elevated("copy", "profile")
CopyProfile == Elevated("profile", "parse")
LoadProfile == Elevated("parse", "verify")

\* resolve_verified_apparmor_passt_at once more.
Verify ==
    /\ pc = "verify" /\ pc' = "reconcile"
    /\ IF RootCopy = "verified"
       THEN repaired' = repaired \cup {"userns"} /\ UNCHANGED <<failures, smooth>>
       ELSE Fails("userns")
    /\ UNCHANGED <<host, hostVars, run, todo, report, before>>

\* reconcile_machine_states: whether or not repairs were asked for; a machine
\* that cannot be reconciled is reported.
Reconcile ==
    /\ pc = "reconcile" /\ pc' = "inspect"
    /\ \/ stale' = FALSE
       \/ stale /\ UNCHANGED stale
    /\ UNCHANGED <<host, bin, exe, prof, loaded, staged, run, todo, outcome, report, before, smooth>>

\* inspect: each check anew; a failed repair makes it fail, a repair shows as
\* fixed only when the check agrees.
Inspect ==
    /\ pc = "inspect" /\ pc' = "idle"
    /\ report' = [c \in Check |->
                    CASE c \in failures -> "fail"
                      [] c \notin failures /\ Status(c) = "ok" /\ c \in repaired -> "fixed"
                      [] OTHER -> Status(c)]
    /\ UNCHANGED <<host, hostVars, run, todo, outcome, before, smooth>>

\* Ctrl-C, kill -9.
Killed ==
    /\ pc # "idle" /\ pc' = "idle" /\ todo' = {} /\ failures' = {} /\ repaired' = {} /\ smooth' = FALSE
    /\ exe' \in IF pc = "copy" THEN {exe, "bad"} ELSE {exe}
    /\ prof' \in IF pc = "profile" THEN {prof, "bad"} ELSE {prof}
    /\ UNCHANGED <<host, bin, loaded, staged, stale, run, report, before>>

\* The host restarts without a unit that loads the profile.
Reboot ==
    /\ pc = "idle" /\ loaded /\ loaded' = FALSE
    /\ UNCHANGED <<host, bin, exe, prof, staged, stale, run, pc, todo, outcome, report, before, smooth>>

Next ==
    \/ \E f, c \in BOOLEAN : Start(f, c)
    \/ Materialize \/ DirectoriesFail \/ (\E d \in Dep : Install(d) \/ Present(d)) \/ FixesDone
    \/ SkipApparmor \/ ApparmorRefused \/ StageProfile \/ CopyHelper \/ CopyProfile \/ LoadProfile
    \/ Verify \/ Reconcile \/ Inspect \/ Killed \/ Reboot

Spec == Init /\ [][Next]_vars

-----------------------------------------------------------------------------

\* The checks, their verdicts and the stages of a repair; only a run with --fix has repairs
\* that failed (run_doctor).
TypeOK ==
    /\ bin \in [Dep -> {"none", "bad", "good"}] /\ {exe, prof} \subseteq {"none", "bad", "good"}
    /\ {loaded, staged, stale, fix, confirmed, smooth} \subseteq BOOLEAN /\ n \in 0..Runs
    /\ pc \in {"idle", "materialize", "fixes", "userns", "copy", "profile", "parse", "verify",
               "reconcile", "inspect"}
    /\ todo \subseteq Dep /\ failures \subseteq Check /\ repaired \subseteq {"vendored", "virtiofsd", "userns"}
    /\ report \in [Check -> {"none", "ok", "warn", "fail", "fixed"}]
    /\ failures # {} => fix

Reported == pc = "idle" /\ report["userns"] # "none"

\* What a finished run calls ok or fixed is so at that moment: the files are
\* the pinned ones and the passt that machines will use may isolate itself; and
\* it calls fixed only what it found broken (DoctorReport: "fixed" and "ok").
OkIsWell ==
    Reported =>
        /\ report["vendored"] \in {"ok", "fixed"} => \A d \in Vendored : bin[d] = "good"
        /\ report["virtiofsd"] \in {"ok", "fixed"} => bin["virtiofsd"] = "good"
        /\ \A c \in Check : report[c] = "fixed" => before[c] # "ok" /\ fix

\* A run that reports the namespaces usable tested the passt that is selected
\* (passt_userns_probe); after a restart of the host it may not be any more.
UsernsIsUsable ==
    pc = "inspect" /\ pc' = "idle" /\ report'["userns"] \in {"ok", "fixed"}
        => MayIsolate /\ SelectedPasst \in {"root", "pinned"}

\* The root copy, the profile and the kernel's list change only in a run whose
\* user confirmed it, on a host where AppArmor is what denies, and never in
\* one that only inspects; nothing else on the way changes them (SPEC 17.3).
RootNeedsConsent ==
    <<exe, prof, loaded>>' # <<exe, prof, loaded>> /\ pc # "idle"
        => fix /\ confirmed /\ host.apparmor /\ ~host.sysctl /\ bin["passt"] = "good"

\* However a run ends, it never leaves bytes under a dependency's name that
\* were not verified (install_artifact: hash before the rename).
NeverUnverified == \A d \in Dep : bin'[d] = "bad" => bin[d] = "bad"

==============================================================================
