------------------------------ MODULE Lifecycle ------------------------------
(***************************************************************************)
(* start, stop, restart and recovery of one machine: the CLI processes, the*)
(* shim each start spawns, the cloud-hypervisor process (VMM) each shim    *)
(* spawns, the machine lock, state.json and the runtime directory.         *)
(*                                                                         *)
(* A start prepares the runtime directory under the lock, writes `starting`*)
(* spawns the shim, records its pid and drops the lock; the shim takes the *)
(* lock and keeps it until it exits.  It spawns the VMM on request, records*)
(* it in state.json and in process-identity.json, asks it to create and    *)
(* boot the VM and writes `running`.  Any process may be killed between two*)
(* steps, a VMM may stop answering, and the host may reboot.               *)
(*                                                                         *)
(* A run is one CLI invocation or REST worker.  It spawns at most one shim *)
(* and that shim at most one VMM, so one name stands for all three, and a  *)
(* pid in a file is the run whose process it is.  Deadlines may pass at any*)
(* time.  A VMM that hangs answers nothing and may outlive a SIGKILL for   *)
(* longer than anyone waits.                                               *)
(***************************************************************************)
EXTENDS Naturals, FiniteSets

CONSTANTS
    Starters,   \* runs that start the machine
    Stoppers,   \* runs that stop it; a run in both sets is a `restart`
    Recoverers, \* runs that start a replacement shim
    None,       \* no process
    MaxFaults   \* bound on crashes, hangs and reboots in a behaviour

Run == Starters \cup Stoppers \cup Recoverers

ASSUME RunAssumption ==
    /\ None \notin Run
    /\ Recoverers \cap (Starters \cup Stoppers) = {}
    /\ MaxFaults \in Nat

VARIABLES
    status, shimPid, vmmPid,    \* state.json
    cliLock, shimLock,          \* the run, or the shim, that has the lock
    dir,        \* runtime directory: "none", "empty" or with a launch "plan"
    idShim, idVmm,              \* process-identity.json
    sock, api,  \* whose shim.sock and api.sock are in the directory
    pc,         \* where each run's own process is
    prev,       \* the status a failed start writes back
    shim,       \* where each run's shim is
    own,        \* the VMM a shim supervises
    pending,    \* shims that adopted a VMM whose API is not ready
    asked,      \* shims that were sent a launch request
    client,     \* the run whose stop request a shim is serving
    term,       \* shims that were sent SIGTERM
    vmm,        \* what each VMM process is doing
    hung,       \* VMMs that answer nothing
    faults,     \* crashes, hangs and reboots so far
    launch,     \* history: the start that last prepared the directory
    raced       \* history: a failed start cleaned up after a later start

state == <<status, shimPid, vmmPid>>
locks == <<cliLock, shimLock>>
sockets == <<sock, api>>
runtime == <<dir, idShim, idVmm, sock, api>>
cli == <<pc, prev>>
super == <<own, pending, asked, client, term>>
vms == <<vmm, hung>>
history == <<faults, launch, raced>>
vars == <<state, locks, runtime, cli, shim, super, vms, history>>

Active == {"starting", "running", "stopping"}
Startable == {"created", "stopped", "failed"}
Status == Active \cup Startable

\* Between the launch request and `running`, in order.
Launching == {"launch", "spawned", "recorded", "published", "pinged", "created", "booted"}
ShimUp == {"boot", "bind", "adopt", "serving", "supervising", "stopping", "final"}
            \cup Launching
VmmUp == {"up", "api", "open", "booted"}
Waiting == {"start", "stop", "recover"}
Ended == {"ok", "failed", "dead"}
PC == Waiting \cup Ended \cup
    {"startfix", "startlock", "checking", "clear", "prepared", "starting", "spawned",
     "waiting", "launching", "cancelling", "orphans", "cleanup", "abort",
     "stopfix", "asking", "served", "aborted", "replied", "stoplock", "unsup",
     "killing", "killed", "rwait"}

ShimAlive(s) == s # None /\ shim[s] \in ShimUp
VmmAlive(v) == v # None /\ vmm[v] \in VmmUp
\* The VM exists in the VMM, which has the machine's disk open.
DiskOpen(v) == vmm[v] \in {"open", "booted"}
Unlocked == cliLock = None /\ shimLock = None

Init ==
    /\ status = "created" /\ shimPid = None /\ vmmPid = None
    /\ cliLock = None /\ shimLock = None
    /\ dir = "none" /\ idShim = None /\ idVmm = None /\ sock = None /\ api = None
    /\ pc = [c \in Run |-> IF c \in Stoppers THEN "stop"
                           ELSE IF c \in Starters THEN "start" ELSE "recover"]
    /\ prev = [c \in Run |-> "created"]
    /\ shim = [s \in Run |-> "none"]
    /\ own = [s \in Run |-> None]
    /\ pending = {} /\ asked = {} /\ term = {}
    /\ client = [s \in Run |-> None]
    /\ vmm = [v \in Run |-> "none"]
    /\ hung = {}
    /\ faults = 0 /\ launch = None /\ raced = FALSE

-----------------------------------------------------------------------------
(* Small steps the handlers share.                                         *)

\* A run goes on, or ends and forgets.
Goto(c, l) ==
    /\ pc' = [pc EXCEPT ![c] = l]
    /\ prev' = IF l \in Ended THEN [prev EXCEPT ![c] = "created"] ELSE prev
ShimGoto(s, l) == shim' = [shim EXCEPT ![s] = l]

WriteState(x, s, v) == status' = x /\ shimPid' = s /\ vmmPid' = v

\* clear_machine_runtime_dir: every file goes, then the directory.
ClearRuntime ==
    /\ dir' = "none" /\ idShim' = None /\ idVmm' = None
    /\ sock' = None /\ api' = None

\* The end of a process drops the flock it has.
DropCli(c) == cliLock' = (IF cliLock = c THEN None ELSE cliLock) /\ UNCHANGED shimLock
ShimGone(s) ==
    /\ shim' = [shim EXCEPT ![s] = "dead"]
    /\ shimLock' = (IF shimLock = s THEN None ELSE shimLock) /\ UNCHANGED cliLock
    /\ own' = [own EXCEPT ![s] = None]
    /\ client' = [client EXCEPT ![s] = None]
    /\ pending' = pending \ {s} /\ asked' = asked \ {s} /\ term' = term \ {s}

\* SIGTERM, a grace period, SIGKILL: only a hung VMM may outlive it.
Kills(v) == vmm' = [vmm EXCEPT ![v] = "dead"] /\ hung' = hung \ {v}
Outlives(v) == v \in hung /\ vmm[v] \in VmmUp

-----------------------------------------------------------------------------
(* observe_liveness and reconcile.                                         *)

\* Mutant: a VMM that is silent counts as gone.
PingSilenceIsAbsence ==
    IF ~VmmAlive(api) \/ api \in hung THEN "no" ELSE "yes"

\* Only a missing or refusing socket proves absence; silence is ambiguous
\* and fails the caller.
Ping ==
    IF ~VmmAlive(api) THEN "no" ELSE IF api \in hung THEN "unknown" ELSE "yes"

Reported ==
    IF Ping = "yes" THEN "running"
    ELSE IF ShimAlive(shimPid)
      THEN IF status \in {"stopping", "failed"} THEN status ELSE "starting"
    ELSE IF status \in Active THEN "stopped" ELSE status

Supervised == Ping = "yes" /\ ShimAlive(shimPid)
\* Mutants: the rewrite goes by the VMM alone, or by the shim alone.
NeedsRewriteDespiteShim == Ping = "no" /\ status \in Active
NeedsRewrite == Ping = "no" /\ ~ShimAlive(shimPid) /\ status \in Active

\* Mutant: the answer of the ping is written in place of the status.
WriteReconciledPing ==
    IF NeedsRewrite THEN WriteState(Ping, None, None) ELSE UNCHANGED state

\* reconciled_state: the rewrite clears every pid.
WriteReconciled ==
    IF NeedsRewrite THEN WriteState("stopped", None, None) ELSE UNCHANGED state

\* What a run does with the status it read.
AfterRead(c, l) ==
    IF Ping = "unknown" THEN "failed"
    ELSE IF l \in {"start", "startfix"}
      THEN IF Reported \in Startable THEN "startlock" ELSE "failed"
    ELSE IF Reported \notin Active
      THEN IF c \in Starters THEN "start" ELSE "ok"
    ELSE IF Supervised THEN "asking" ELSE "stoplock"

\* The read before the lock.  A rewrite first waits for the lock.
ReadLive(c) ==
    /\ pc[c] \in {"start", "stop"}
    /\ IF NeedsRewrite THEN Goto(c, IF pc[c] = "start" THEN "startfix" ELSE "stopfix")
                       ELSE Goto(c, AfterRead(c, pc[c]))
    /\ UNCHANGED <<state, locks, runtime, shim, super, vms, history>>

\* Under the lock everything is read again, then written, and the lock goes.
Reconcile(c) ==
    /\ pc[c] \in {"startfix", "stopfix"} /\ Unlocked
    /\ WriteReconciled
    /\ Goto(c, AfterRead(c, pc[c]))
    /\ UNCHANGED <<locks, runtime, shim, super, vms, history>>

\* Mutant: the lock of a start has no deadline.
BusyNotForStart(c) ==
    /\ pc[c] \in {"startfix", "stopfix", "stoplock", "cleanup"} /\ ~Unlocked
    /\ Goto(c, "failed")
    /\ UNCHANGED <<state, locks, runtime, shim, super, vms, history>>

\* Ten seconds pass while someone else has the lock.
Busy(c) ==
    /\ pc[c] \in {"startfix", "stopfix", "startlock", "stoplock", "cleanup"} /\ ~Unlocked
    /\ Goto(c, "failed")
    /\ UNCHANGED <<state, locks, runtime, shim, super, vms, history>>

\* A run ends with an error and drops its guard.
Fails(c) ==
    /\ Goto(c, "failed")
    /\ DropCli(c)

-----------------------------------------------------------------------------
(* start, up to the hand-off to the shim.                                  *)

\* Under the lock the status is read again, and rewritten when stale.
StartLocked(c) ==
    /\ pc[c] = "startlock" /\ Unlocked
    /\ IF Ping = "unknown" \/ Reported \notin Startable
         THEN Goto(c, "failed") /\ UNCHANGED <<state, locks>>
         ELSE /\ Goto(c, "checking")
              /\ cliLock' = c /\ UNCHANGED shimLock
              /\ WriteReconciled
    /\ UNCHANGED <<runtime, shim, super, vms, history>>

\* ensure_no_live_runtime and ensure_recorded_vmm_absent.
NoLiveRuntime ==
    dir # "none" =>
        /\ ~ShimAlive(sock)
        /\ ~VmmAlive(idVmm)
        /\ vmmPid # None => vmmPid = idVmm
        /\ Ping = "no"

CheckRuntime(c) ==
    /\ pc[c] = "checking"
    /\ IF NoLiveRuntime THEN Goto(c, "clear") /\ UNCHANGED locks ELSE Fails(c)
    /\ UNCHANGED <<state, runtime, shim, super, vms, history>>

\* The rest of prepare_start: image, disk, helpers, then the directory is
\* emptied and the plan of this launch published.
Prepare(c) ==
    /\ pc[c] = "clear"
    /\ pc' = [pc EXCEPT ![c] = "prepared"]
    /\ prev' = [prev EXCEPT ![c] = status]
    /\ dir' = "plan" /\ idShim' = None /\ idVmm' = None /\ sock' = None /\ api' = None
    /\ launch' = c
    /\ UNCHANGED <<state, locks, shim, super, vms, faults, raced>>

\* It fails before the directory is touched, or after: then it is removed.
PrepareFails(c) ==
    /\ pc[c] = "clear"
    /\ Fails(c)
    /\ UNCHANGED runtime \/ ClearRuntime
    /\ UNCHANGED <<state, shim, super, vms, history>>

PublishStarting(c) ==
    /\ pc[c] = "prepared"
    /\ Goto(c, "starting")
    /\ WriteState("starting", None, None)
    /\ UNCHANGED <<locks, runtime, shim, super, vms, history>>

\* Errors that nothing rolls back: before the directory is touched again, or
\* with it removed and the write of `starting` lost or not.
LaunchAborts(c) ==
    /\ pc[c] = "prepared"
    /\ Fails(c)
    /\ \/ UNCHANGED <<state, runtime>>
       \/ ClearRuntime /\ (UNCHANGED state \/ WriteState("starting", None, None))
    /\ UNCHANGED <<shim, super, vms, history>>

SpawnShim(c) ==
    /\ pc[c] = "starting"
    /\ Goto(c, "spawned")
    /\ ShimGoto(c, "boot")
    /\ UNCHANGED <<state, locks, runtime, super, vms, history>>

\* cancel_prepared and rollback_before_shim; a shim already spawned is
\* killed and reaped first.
RollBack(c) ==
    /\ pc[c] \in {"prepared", "starting", "spawned"}
    /\ Fails(c)
    /\ WriteState(prev[c], None, None)
    /\ ClearRuntime
    /\ IF pc[c] = "spawned" THEN ShimGoto(c, "dead") ELSE UNCHANGED shim
    /\ UNCHANGED <<super, vms, history>>

HandOff(c) ==
    /\ pc[c] = "spawned"
    /\ Goto(c, "waiting")
    /\ shimPid' = c /\ UNCHANGED <<status, vmmPid>>
    /\ DropCli(c)
    /\ UNCHANGED <<runtime, shim, super, vms, history>>

-----------------------------------------------------------------------------
(* start, after the hand-off: no lock is held.                             *)

\* wait_for_shim_socket, then the launch request is sent.
ShimReady(c) ==
    /\ pc[c] = "waiting"
    /\ idShim = c /\ sock = c /\ ShimAlive(c)
    /\ Goto(c, "launching")
    /\ asked' = asked \cup {c}
    /\ UNCHANGED <<state, locks, runtime, shim, own, pending, client, term, vms, history>>

\* The shim exited, or its socket is late and it is killed.
Unready(c) ==
    /\ pc[c] = "waiting"
    /\ pc' = [pc EXCEPT ![c] = "orphans"]
    /\ prev' = [prev EXCEPT ![c] = "failed"]
    /\ ShimGone(c)
    /\ UNCHANGED <<state, runtime, vms, history>>

\* SIGINT: the shim gets SIGTERM.
Cancel(c) ==
    /\ pc[c] \in {"waiting", "launching"}
    /\ Goto(c, "cancelling")
    /\ term' = IF ShimAlive(c) THEN term \cup {c} ELSE term
    /\ UNCHANGED <<state, locks, runtime, shim, own, pending, asked, client, vms, history>>

\* It exits, or is killed when the grace period ends.
CancelledShimGone(c) ==
    /\ pc[c] = "cancelling"
    /\ Goto(c, "orphans")
    /\ ShimGone(c)
    /\ UNCHANGED <<state, runtime, vms, history>>

\* Mutant: a VMM that the identity file names is left alone.
KillOrphansSkipped(c) ==
    /\ pc[c] = "orphans"
    /\ Goto(c, "cleanup")
    /\ UNCHANGED <<state, locks, runtime, shim, super, vms, history>>

\* Whatever VMM the identity file names now is killed, without the lock.
KillOrphans(c) ==
    /\ pc[c] = "orphans"
    /\ \/ /\ VmmAlive(idVmm)
          /\ Kills(idVmm)
          /\ Goto(c, "cleanup")
          /\ raced' = (raced \/ launch # c)
       \/ /\ idVmm # None /\ Outlives(idVmm)
          /\ Goto(c, "failed")
          /\ UNCHANGED <<vms, raced>>
       \/ /\ ~VmmAlive(idVmm)
          /\ Goto(c, "cleanup")
          /\ UNCHANGED <<vms, raced>>
    /\ UNCHANGED <<state, locks, runtime, shim, super, faults, launch>>

\* The lock is taken, the outcome of this start written, the directory
\* removed; nothing is read again.
CleanUp(c) ==
    /\ pc[c] = "cleanup" /\ Unlocked
    /\ Goto(c, "failed")
    /\ WriteState(prev[c], None, None)
    /\ ClearRuntime
    /\ raced' = (raced \/ launch # c)
    /\ UNCHANGED <<locks, shim, super, vms, faults, launch>>

\* The shim answered the launch and then the status request.
Started(c) ==
    /\ pc[c] = "launching" /\ shim[c] = "supervising"
    /\ Goto(c, "ok")
    /\ UNCHANGED <<state, locks, runtime, shim, super, vms, history>>

\* An error reply, a lost connection or the deadline: the shim is left alone.
LaunchError(c) ==
    /\ pc[c] = "launching"
    /\ Goto(c, "failed")
    /\ UNCHANGED <<state, locks, runtime, shim, super, vms, history>>

\* SIGINT after `running`: a forced stop is sent to the shim.
CancelRunning(c) ==
    /\ pc[c] = "launching" /\ shim[c] = "supervising"
    /\ Goto(c, "abort")
    /\ UNCHANGED <<state, locks, runtime, shim, super, vms, history>>

-----------------------------------------------------------------------------
(* run_shim, up to its control loop.                                       *)

\* scan_linux_vmm_candidates finds every VMM process of this machine; a pid
\* in state.json narrows the choice.
Candidates == {v \in Run : VmmAlive(v) /\ (vmmPid # None => v = vmmPid)}

\* Mutants: any candidate will do, or the recorded shim may be alive.
RecoverableAny(s, v) ==
    /\ ~(shimPid # s /\ ShimAlive(shimPid))
    /\ VmmAlive(v)
\* recover_linux_vmm_record: exactly one candidate, and the VMM that answers
\* on api.sock is it.
Recoverable(s, v) ==
    /\ ~(shimPid # s /\ ShimAlive(shimPid))
    /\ Candidates = {v}
    /\ Ping = "yes" => api = v

NormalLaunch(s) == status = "starting" /\ shimPid = s

\* The shim takes the lock, for good, and finds out what it is for.
ShimBegin(s) ==
    /\ shim[s] = "boot" /\ Unlocked /\ dir = "plan" /\ NormalLaunch(s)
    /\ shimLock' = s /\ UNCHANGED cliLock
    /\ idShim' = s /\ idVmm' = None
    /\ ShimGoto(s, "bind")
    /\ UNCHANGED <<state, dir, sockets, cli, super, vms, history>>

\* It is not the shim of a launch: it adopts the VMM that is there.
ShimRecovers(s) ==
    /\ shim[s] = "boot" /\ Unlocked /\ dir = "plan" /\ ~NormalLaunch(s)
    /\ status \in {"starting", "running"}
    /\ \E v \in Run :
         /\ Recoverable(s, v)
         /\ idVmm' = v
         /\ own' = [own EXCEPT ![s] = v]
    /\ pending' = IF status = "starting" /\ Ping # "yes" THEN pending \cup {s} ELSE pending
    /\ idShim' = s
    /\ shimLock' = s /\ UNCHANGED cliLock
    /\ ShimGoto(s, "adopt")
    /\ UNCHANGED <<state, dir, sockets, cli, asked, client, term, vms, history>>

\* Neither: it exits, and the directory it made sure of stays.  Or another
\* process has the lock for ten seconds.
ShimRefused(s) ==
    /\ shim[s] = "boot"
    /\ \/ ~Unlocked /\ UNCHANGED dir
       \/ /\ Unlocked
          /\ \/ dir # "plan"
             \/ /\ ~NormalLaunch(s)
                /\ \/ status \notin {"starting", "running"}
                   \/ ~\E v \in Run : Recoverable(s, v)
          /\ dir' = IF dir = "none" THEN "empty" ELSE dir
    /\ ShimGoto(s, "dead")
    /\ UNCHANGED <<state, locks, idShim, idVmm, sockets, cli, super, vms, history>>

\* A recovering shim writes what it adopted, then binds its socket.
Adopt(s) ==
    /\ shim[s] = "adopt"
    /\ WriteState(IF s \in pending THEN "starting" ELSE "running", s, own[s])
    /\ sock' = s
    /\ ShimGoto(s, "supervising")
    /\ UNCHANGED <<locks, dir, idShim, idVmm, api, cli, super, vms, history>>

Bind(s) ==
    /\ shim[s] = "bind"
    /\ sock' = s
    /\ ShimGoto(s, "serving")
    /\ UNCHANGED <<state, locks, dir, idShim, idVmm, api, cli, super, vms, history>>

-----------------------------------------------------------------------------
(* The ends of a shim.                                                     *)

\* write_final_state; the directory is removed next.
Final(s, x) ==
    /\ WriteState(x, None, None)
    /\ ShimGoto(s, "final")
    /\ UNCHANGED <<locks, runtime, own, pending, asked, term>>

\* write_recoverable_failed_state: the evidence of a VMM that is still there
\* is kept and the shim exits.
FailKeeping(s, v) ==
    /\ WriteState("failed", None, v)
    /\ idVmm' = v
    /\ ShimGone(s)
    /\ UNCHANGED <<dir, idShim, sockets>>

\* The VMM is killed and x is written, or it outlives that and is kept.
EndVmm(s, x) ==
    \/ Kills(own[s]) /\ Final(s, x) /\ UNCHANGED client
    \/ Outlives(own[s]) /\ FailKeeping(s, own[s]) /\ UNCHANGED vms

\* The client a shim is serving gets its answer, if it is still there; an
\* interrupted start ends with an error either way.
Reply(s, l) ==
    LET c == client[s] IN
    IF c = None THEN UNCHANGED cli
    ELSE IF pc[c] = "served" THEN Goto(c, l)
    ELSE IF pc[c] = "aborted" THEN Goto(c, "failed")
    ELSE UNCHANGED cli

\* cleanup_after_shim, then the reply to the client, then the lock goes.
ClearAndExit(s) ==
    /\ shim[s] = "final"
    /\ ClearRuntime
    /\ ShimGone(s)
    /\ Reply(s, "replied")
    /\ UNCHANGED <<state, vms, history>>

-----------------------------------------------------------------------------
(* launch_vmm.                                                             *)

TakeLaunch(s) ==
    /\ shim[s] = "serving" /\ s \in asked
    /\ ShimGoto(s, "launch")
    /\ UNCHANGED <<state, locks, runtime, cli, super, vms, history>>

SpawnVmm(s) ==
    /\ shim[s] = "launch"
    /\ vmm' = [vmm EXCEPT ![s] = "up"]
    /\ own' = [own EXCEPT ![s] = s]
    /\ ShimGoto(s, "spawned")
    /\ UNCHANGED <<state, locks, runtime, cli, pending, asked, client, term, hung, history>>

RecordVmm(s) ==
    /\ shim[s] = "spawned"
    /\ vmmPid' = s
    /\ ShimGoto(s, "recorded")
    /\ UNCHANGED <<status, shimPid, locks, runtime, cli, super, vms, history>>

PublishVmm(s) ==
    /\ shim[s] = "recorded" /\ VmmAlive(s)
    /\ idVmm' = s
    /\ ShimGoto(s, "published")
    /\ UNCHANGED <<state, locks, dir, idShim, sockets, cli, super, vms, history>>

\* vmm.ping must come from the process that was spawned.
PingVmm(s) ==
    /\ shim[s] = "published" /\ Ping = "yes" /\ api = s
    /\ ShimGoto(s, "pinged")
    /\ UNCHANGED <<state, locks, runtime, cli, super, vms, history>>

\* vm.create and vm.boot go to whoever answers on api.sock.
VmCreate(s) ==
    /\ shim[s] = "pinged" /\ Ping = "yes"
    /\ vmm' = [vmm EXCEPT ![api] = "open"]
    /\ ShimGoto(s, "created")
    /\ UNCHANGED <<state, locks, runtime, cli, super, hung, history>>

VmBoot(s) ==
    /\ shim[s] = "created" /\ Ping = "yes"
    /\ vmm' = [vmm EXCEPT ![api] = "booted"]
    /\ ShimGoto(s, "booted")
    /\ UNCHANGED <<state, locks, runtime, cli, super, hung, history>>

\* The console broker is up and the deadline not over.
WriteRunning(s) ==
    /\ shim[s] = "booted"
    /\ status' = "running" /\ UNCHANGED <<shimPid, vmmPid>>
    /\ ShimGoto(s, "supervising")
    /\ UNCHANGED <<locks, runtime, cli, super, vms, history>>

\* An error, a deadline or SIGTERM: the VMM is killed and reaped.  Without
\* one of its own, the shim looks for a process it might have left.
LaunchFails(s) ==
    /\ shim[s] \in Launching
    /\ IF shim[s] # "launch" THEN EndVmm(s, "failed")
       ELSE \/ Candidates = {} /\ Final(s, "failed") /\ UNCHANGED <<client, vms>>
            \/ \E v \in Run : Candidates = {v} /\ FailKeeping(s, v) /\ UNCHANGED vms
            \/ /\ Cardinality(Candidates) > 1
               /\ WriteState("failed", None, vmmPid)
               /\ ShimGone(s)
               /\ UNCHANGED <<runtime, vms>>
    /\ UNCHANGED <<cli, history>>

-----------------------------------------------------------------------------
(* The control loop.                                                       *)

\* Mutant: a shim waits for its launch request without a deadline.
NeverLaunchedNoDeadline(s) ==
    /\ shim[s] = "serving" /\ s \in term
    /\ Final(s, "failed")
    /\ UNCHANGED <<cli, client, vms, history>>

\* No launch request came in time, or SIGTERM came first.
NeverLaunched(s) ==
    /\ shim[s] = "serving"
    /\ Final(s, "failed")
    /\ UNCHANGED <<cli, client, vms, history>>

VmmExitSeen(s) ==
    /\ shim[s] = "supervising" /\ ~VmmAlive(own[s])
    /\ Final(s, "failed")
    /\ UNCHANGED <<cli, client, vms, history>>

\* The API of an adopted VMM answers at last, or its deadline is over.
PendingReady(s) ==
    /\ shim[s] = "supervising" /\ s \in pending
    /\ Ping = "yes" /\ api = own[s]
    /\ status' = "running" /\ UNCHANGED <<shimPid, vmmPid>>
    /\ pending' = pending \ {s}
    /\ UNCHANGED <<locks, runtime, cli, shim, own, asked, client, term, vms, history>>

PendingTimeout(s) ==
    /\ shim[s] = "supervising" /\ s \in pending
    /\ EndVmm(s, "failed")
    /\ UNCHANGED <<cli, history>>

\* SIGTERM: a graceful stop, or a kill when that fails.
Terminated(s) ==
    /\ shim[s] = "supervising" /\ s \in term
    /\ EndVmm(s, "stopped") \/ EndVmm(s, "failed")
    /\ UNCHANGED <<cli, history>>

\* finalize_supervisor_result after any error in the loop.
SupervisorFails(s) ==
    /\ shim[s] = "supervising"
    /\ EndVmm(s, "failed")
    /\ UNCHANGED <<cli, history>>

\* A stop request.  stop_recovered_vmm writes `stopping`; stop_owned_vmm
\* sets it in memory only; before a launch there is nothing to stop.
TakeStop(s, c) ==
    /\ shim[s] \in {"serving", "supervising"} /\ sock = s
    /\ pc[c] \in {"asking", "abort"}
    /\ Goto(c, IF pc[c] = "asking" THEN "served" ELSE "aborted")
    /\ client' = [client EXCEPT ![s] = c]
    /\ IF shim[s] = "serving" THEN Final(s, "stopped")
       ELSE /\ ShimGoto(s, "stopping")
            /\ status' = IF own[s] # s THEN "stopping" ELSE status
            /\ UNCHANGED <<shimPid, vmmPid, locks, runtime, own, pending, asked, term>>
    /\ UNCHANGED <<vms, history>>

\* Mutant: the stop is final although the VMM outlives it.
StopVmmUnproved(s) ==
    /\ shim[s] = "stopping"
    /\ Kills(own[s]) \/ (Outlives(own[s]) /\ UNCHANGED vms)
    /\ Final(s, "stopped")
    /\ UNCHANGED <<cli, client, history>>

\* Power button, SIGTERM, SIGKILL; the VMM is gone in the end.
StopVmm(s) ==
    /\ shim[s] = "stopping"
    /\ Kills(own[s])
    /\ Final(s, "stopped")
    /\ UNCHANGED <<cli, client, history>>

\* The VMM outlives the stop: the status before it is written back, the
\* client gets the error, and the shim goes on.
StopFails(s) ==
    /\ shim[s] = "stopping" /\ Outlives(own[s])
    /\ status' = IF s \in pending THEN "starting" ELSE "running"
    /\ ShimGoto(s, "supervising")
    /\ Reply(s, "failed")
    /\ client' = [client EXCEPT ![s] = None]
    /\ UNCHANGED <<shimPid, vmmPid, locks, runtime, own, pending, asked, term, vms, history>>

-----------------------------------------------------------------------------
(* stop.                                                                   *)

\* The shim's socket refuses the connection: the stop goes on without a
\* shim.  A connection that closes, or the deadline, is an error.
ShimUnreachable(c) ==
    /\ \/ /\ pc[c] = "asking" /\ ~ShimAlive(sock)
          /\ Goto(c, "stoplock")
       \/ /\ pc[c] \in {"asking", "abort", "served", "aborted"}
          /\ Goto(c, "failed")
    /\ UNCHANGED <<state, locks, runtime, shim, super, vms, history>>

Stopped(c) == Goto(c, IF c \in Starters THEN "start" ELSE "ok")

\* After the shim's reply state.json is read once more.
ConfirmStop(c) ==
    /\ pc[c] = "replied"
    /\ IF status \in Active THEN Goto(c, "failed") ELSE Stopped(c)
    /\ UNCHANGED <<state, locks, runtime, shim, super, vms, history>>

StopLocked(c) ==
    /\ pc[c] = "stoplock" /\ Unlocked
    /\ WriteReconciled
    /\ IF Ping = "unknown" THEN Goto(c, "failed") /\ UNCHANGED locks
       ELSE IF Reported \notin Active THEN Stopped(c) /\ UNCHANGED locks
       ELSE Goto(c, "unsup") /\ cliLock' = c /\ UNCHANGED shimLock
    /\ UNCHANGED <<runtime, shim, super, vms, history>>

\* stop_unsupervised: without a plan, without an identity, with a live shim
\* or in doubt about the VMM it refuses.
StopRefused(c) ==
    /\ pc[c] = "unsup"
    /\ \/ dir # "plan" \/ idShim = None \/ ShimAlive(shimPid)
       \/ /\ ~(idVmm # None /\ ~VmmAlive(idVmm))
          /\ ~\E v \in Run : Recoverable(None, v)
    /\ Fails(c)
    /\ UNCHANGED <<state, runtime, shim, super, vms, history>>

\* The recorded VMM is gone: the machine is stopped.
StopGone(c) ==
    /\ pc[c] = "unsup" /\ dir = "plan" /\ idShim # None /\ ~ShimAlive(shimPid)
    /\ idVmm # None /\ ~VmmAlive(idVmm)
    /\ WriteState("stopped", None, None)
    /\ ClearRuntime
    /\ Stopped(c)
    /\ DropCli(c)
    /\ UNCHANGED <<shim, super, vms, history>>

StopOrphan(c) ==
    /\ pc[c] = "unsup" /\ dir = "plan" /\ idShim # None /\ ~ShimAlive(shimPid)
    /\ ~(idVmm # None /\ ~VmmAlive(idVmm))
    /\ \E v \in Run :
         /\ Recoverable(None, v)
         /\ WriteState("stopping", None, v)
    /\ Goto(c, "killing")
    /\ UNCHANGED <<locks, runtime, shim, super, vms, history>>

\* The VMM just recorded is killed; one that outlives it leaves `stopping`.
KillOrphan(c) ==
    /\ pc[c] = "killing"
    /\ \/ Kills(vmmPid) /\ Goto(c, "killed") /\ UNCHANGED locks
       \/ Outlives(vmmPid) /\ Fails(c) /\ UNCHANGED vms
    /\ UNCHANGED <<state, runtime, shim, super, history>>

OrphanStopped(c) ==
    /\ pc[c] = "killed"
    /\ WriteState("stopped", None, None)
    /\ ClearRuntime
    /\ Stopped(c)
    /\ DropCli(c)
    /\ UNCHANGED <<shim, super, vms, history>>

-----------------------------------------------------------------------------
(* recover_shim: the lock covers the check and the spawn.                  *)

SpawnRecovery(c) ==
    /\ pc[c] = "recover" /\ Unlocked
    /\ IF status \in {"starting", "running"} /\ dir = "plan"
         THEN Goto(c, "rwait") /\ ShimGoto(c, "boot")
         ELSE Goto(c, "failed") /\ UNCHANGED shim
    /\ UNCHANGED <<state, locks, runtime, super, vms, history>>

Recovered(c) ==
    /\ pc[c] = "rwait" /\ idShim = c /\ sock = c /\ ShimAlive(c)
    /\ Goto(c, "ok")
    /\ UNCHANGED <<state, locks, runtime, shim, super, vms, history>>

\* The replacement exited or is late: terminate_recovery_candidate.
RecoveryFails(c) ==
    /\ pc[c] = "rwait"
    /\ Goto(c, "failed")
    /\ ShimGone(c)
    /\ UNCHANGED <<state, runtime, vms, history>>

-----------------------------------------------------------------------------
(* The VMM processes, and what can go wrong around everyone.               *)

\* The VMM binds api.sock; a missing directory or a file in its place ends
\* it.
VmmListens(v) ==
    /\ vmm[v] = "up" /\ v \notin hung
    /\ IF dir # "none" /\ api = None
         THEN api' = v /\ vmm' = [vmm EXCEPT ![v] = "api"]
         ELSE vmm' = [vmm EXCEPT ![v] = "dead"] /\ UNCHANGED api
    /\ UNCHANGED <<state, locks, dir, idShim, idVmm, sock, cli, shim, super, hung, history>>

Fault == faults < MaxFaults /\ faults' = faults + 1 /\ UNCHANGED <<launch, raced>>

VmmHangs(v) ==
    /\ Fault /\ vmm[v] \in VmmUp /\ v \notin hung
    /\ hung' = hung \cup {v}
    /\ UNCHANGED <<state, locks, runtime, cli, shim, super, vmm>>

\* The guest powers off, or the VMM crashes or is killed.
VmmDies(v) ==
    /\ Fault /\ vmm[v] \in VmmUp
    /\ Kills(v)
    /\ UNCHANGED <<state, locks, runtime, cli, shim, super>>

\* SIGKILL: the flock goes; the VMM lives on.
ShimCrash(s) ==
    /\ Fault /\ shim[s] \in ShimUp
    /\ ShimGone(s)
    /\ UNCHANGED <<state, runtime, cli, vms>>

CliCrash(c) ==
    /\ Fault /\ pc[c] \notin Waiting \cup Ended
    /\ Goto(c, "dead")
    /\ DropCli(c)
    /\ UNCHANGED <<state, runtime, shim, super, vms>>

\* Every process ends; the runtime directory is on tmpfs.
HostReboot ==
    /\ Fault
    /\ ClearRuntime
    /\ cliLock' = None /\ shimLock' = None
    /\ shim' = [s \in Run |-> IF shim[s] \in ShimUp THEN "dead" ELSE shim[s]]
    /\ vmm' = [v \in Run |-> IF vmm[v] \in VmmUp THEN "dead" ELSE vmm[v]]
    /\ pc' = [c \in Run |-> IF pc[c] \in Waiting \cup Ended THEN pc[c] ELSE "dead"]
    /\ prev' = [c \in Run |-> "created"]
    /\ own' = [s \in Run |-> None] /\ client' = [s \in Run |-> None]
    /\ pending' = {} /\ asked' = {} /\ term' = {} /\ hung' = {}
    /\ UNCHANGED state

-----------------------------------------------------------------------------
StartStep(c) ==
    \/ StartLocked(c) \/ CheckRuntime(c) \/ Prepare(c) \/ PrepareFails(c)
    \/ PublishStarting(c) \/ LaunchAborts(c) \/ SpawnShim(c) \/ RollBack(c) \/ HandOff(c)
    \/ ShimReady(c) \/ Unready(c) \/ Cancel(c) \/ CancelledShimGone(c)
    \/ KillOrphans(c) \/ CleanUp(c) \/ Started(c) \/ LaunchError(c) \/ CancelRunning(c)

StopStep(c) ==
    \/ ShimUnreachable(c) \/ ConfirmStop(c) \/ StopLocked(c) \/ StopRefused(c)
    \/ StopGone(c) \/ StopOrphan(c) \/ KillOrphan(c) \/ OrphanStopped(c)

RecoverStep(c) == SpawnRecovery(c) \/ Recovered(c) \/ RecoveryFails(c)

CliStep(c) ==
    ReadLive(c) \/ Reconcile(c) \/ Busy(c) \/ StartStep(c) \/ StopStep(c) \/ RecoverStep(c)

ShimStep(s) ==
    \/ ShimBegin(s) \/ ShimRecovers(s) \/ ShimRefused(s) \/ Adopt(s) \/ Bind(s)
    \/ ClearAndExit(s)
    \/ TakeLaunch(s) \/ SpawnVmm(s) \/ RecordVmm(s) \/ PublishVmm(s) \/ PingVmm(s)
    \/ VmCreate(s) \/ VmBoot(s) \/ WriteRunning(s) \/ LaunchFails(s)
    \/ NeverLaunched(s) \/ VmmExitSeen(s) \/ PendingReady(s) \/ PendingTimeout(s)
    \/ Terminated(s) \/ SupervisorFails(s)
    \/ \E c \in Run : TakeStop(s, c)
    \/ StopVmm(s) \/ StopFails(s)

Faults ==
    \/ HostReboot
    \/ \E r \in Run : VmmHangs(r) \/ VmmDies(r) \/ ShimCrash(r) \/ CliCrash(r)

Next ==
    \/ \E r \in Run : CliStep(r) \/ ShimStep(r) \/ VmmListens(r)
    \/ Faults

Spec == Init /\ [][Next]_vars

\* Fairness.  Every wait of a run ends in a deadline, so a run that has begun
\* goes on.  A shim takes its next step too; it need not fail, and while it
\* supervises a live VMM it may wait for ever.
CliProgress(c) == pc[c] \notin Waiting /\ CliStep(c)

ShimProgress(s) ==
    \/ ShimBegin(s) \/ ShimRecovers(s) \/ ShimRefused(s) \/ Adopt(s) \/ Bind(s)
    \/ ClearAndExit(s)
    \/ TakeLaunch(s) \/ SpawnVmm(s) \/ RecordVmm(s) \/ PublishVmm(s) \/ PingVmm(s)
    \/ VmCreate(s) \/ VmBoot(s) \/ WriteRunning(s) \/ LaunchFails(s)
    \/ NeverLaunched(s) \/ VmmExitSeen(s) \/ PendingReady(s) \/ PendingTimeout(s)
    \/ Terminated(s) \/ StopVmm(s) \/ StopFails(s)

FairSpec == Spec /\ \A r \in Run : WF_vars(CliProgress(r)) /\ WF_vars(ShimProgress(r))

-----------------------------------------------------------------------------
(* Properties.                                                             *)

\* The values of state.json, of the runtime directory and its identity file, of both locks,
\* and the stage of every run, shim and VMM (MachineState, ProcessIdentity).
TypeOK ==
    /\ status \in Status
    /\ shimPid \in Run \cup {None} /\ vmmPid \in Run \cup {None}
    /\ cliLock \in Run \cup {None} /\ shimLock \in Run \cup {None}
    /\ dir \in {"none", "empty", "plan"}
    /\ idShim \in Run \cup {None} /\ idVmm \in Run \cup {None}
    /\ sock \in Run \cup {None} /\ api \in Run \cup {None}
    /\ pc \in [Run -> PC]
    /\ prev \in [Run -> Status]
    /\ shim \in [Run -> ShimUp \cup {"none", "dead"}]
    /\ own \in [Run -> Run \cup {None}]
    /\ pending \subseteq Run /\ asked \subseteq Run /\ term \subseteq Run
    /\ client \in [Run -> Run \cup {None}]
    /\ vmm \in [Run -> VmmUp \cup {"none", "dead"}]
    /\ hung \subseteq Run
    /\ faults \in 0..MaxFaults
    /\ launch \in Run \cup {None}
    /\ raced \in BOOLEAN

\* The machine's disk is open in at most one VMM, whoever is killed, hangs
\* or reboots and whichever runs overlap, unless a failed start cleaned up
\* after a later start had begun.
OneVm ==
    ~raced => \A v, w \in Run : DiskOpen(v) /\ DiskOpen(w) => v = w

\* SPEC 20, owner guard: evidence of a VMM is cleared after proof of its
\* exit only.  A VMM with the disk open is on record where start, stop and
\* recovery look for it, and its socket is there, whoever else is gone.
EvidenceKept ==
    \A v \in Run : DiskOpen(v) => dir = "plan" /\ idVmm = v /\ api = v

\* ... which holds unless a failed start cleans up after a later one (terminate_unready_shim).
EvidenceKeptUnlessRaced == ~raced => EvidenceKept

\* Clone, cold snapshot and rm go by the status: `created` and `stopped`
\* mean that no VMM has the disk open.
AtRest ==
    ~raced /\ status \in {"created", "stopped"} => \A v \in Run : ~DiskOpen(v)

\* ... which holds unless a failed start cleans up after a later one.
OneWriterUnlessRaced ==
    [][~raced' /\ state' # state /\ ShimAlive(shimPid) => shimLock = shimPid]_vars

\* A shim gives the machine lock back, or has a live VMM to show for it:
\* nothing keeps the other runs out of a machine that has no VMM.
LockComesFree ==
    \A s \in Run : shimLock = s ~> shimLock # s \/ VmmAlive(own[s])

\* Every run that has begun ends, even when the lock it waits for is held
\* for ever, and so does a start whose shim or VMM goes away under it.
RunsEnd ==
    \A c \in Run : pc[c] \notin Waiting \cup Ended ~> pc[c] \in Waiting \cup Ended

=============================================================================
