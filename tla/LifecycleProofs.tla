--------------------------- MODULE LifecycleProofs ---------------------------
(***************************************************************************)
(* Proofs about Lifecycle for any number of starts, stops and replacement  *)
(* shims and any number of crashes, hangs and reboots.                     *)
(*                                                                         *)
(* The argument has three layers.  LockInv says who has the machine lock;  *)
(* FileInv says what state.json and process-identity.json hold while each  *)
(* process has it, which nobody else can change then; DiskInv says, from   *)
(* these, that a VMM with the disk open is on record.                      *)
(***************************************************************************)
EXTENDS Lifecycle, TLAPS

-----------------------------------------------------------------------------
(* The inductive invariant.                                                *)

\* Where a run has the lock, and where its shim has.
Locking == {"checking", "clear", "prepared", "starting", "spawned",
            "unsup", "killing", "killed"}
Holding == ShimUp \ {"boot"}
\* Where a run has not spawned its shim yet.
Shimless == {"start", "stop", "recover", "startfix", "startlock", "checking", "clear",
             "prepared", "starting", "stopfix", "asking", "served", "replied",
             "stoplock", "unsup", "killing", "killed"}

\* One process has the lock, and it is one that took it and is alive.
LockInv ==
    /\ cliLock = None \/ shimLock = None
    /\ \A c \in Run :
         /\ pc[c] \in Locking <=> cliLock = c
         /\ shim[c] \in Holding <=> shimLock = c
         /\ pc[c] \in Shimless => shim[c] = "none"
         /\ pc[c] = "spawned" => shim[c] \in {"boot", "dead"}
         /\ pc[c] \in {"orphans", "cleanup"} => shim[c] = "dead"

\* What a run that has the lock has read or written.
RunInv ==
    \A c \in Run :
        /\ pc[c] \in {"checking", "clear", "prepared"} => status \in Startable
        /\ pc[c] = "clear" => dir = "none" \/ ~VmmAlive(idVmm)
        /\ pc[c] \in {"starting", "spawned"} => status = "starting"
        /\ pc[c] \in {"starting", "spawned", "killing", "killed"} => shimPid = None
        /\ pc[c] \in {"prepared", "starting", "spawned"} =>
             dir = "plan" /\ idVmm = None /\ launch = c
        /\ pc[c] = "killing" => vmmPid # None

\* The steps of a shim that launches, before and after it has recorded a VMM.
Unrecorded == {"bind", "serving", "launch", "spawned"}
Identified == {"published", "pinged", "created", "booted"}

\* What a shim has written, and whom state.json names.
ShimInv ==
    /\ status \in Startable => shimPid = None
    /\ \A s \in Run :
         /\ shim[s] \in Unrecorded \cup Launching =>
              /\ status = "starting" /\ shimPid = s
              /\ dir = "plan" /\ launch = s
         /\ shim[s] \in Unrecorded \cup {"recorded"} => idVmm = None
         /\ shim[s] \in Identified \cup {"recorded"} => vmmPid = s
         /\ shim[s] \in Identified => idVmm = s
         /\ shim[s] \in Identified \ {"published"} => api = s
         /\ shim[s] \in Identified \cup {"spawned", "recorded"} => own[s] = s
         /\ shim[s] \in {"adopt", "supervising", "stopping"} =>
              dir = "plan" /\ own[s] = idVmm
         /\ shim[s] \in {"supervising", "stopping"} => shimPid = s
         /\ shim[s] = "adopt" /\ ShimAlive(shimPid) => shimPid = s
         /\ shim[s] = "final" => shimPid = None
         /\ shim[s] = "none" => shimPid # s
         /\ shim[s] = "boot" /\ shimPid = s =>
              /\ status = "starting" /\ launch = s
              /\ dir = "plan" /\ idVmm = None

FileInv == RunInv /\ ShimInv

\* Until a failed start cleans up after a later one, a VMM with the disk
\* open is on record, and whoever is about to remove the record knows that
\* there is none.
DiskInv ==
    ~raced => \A v \in Run : DiskOpen(v) =>
        /\ dir = "plan" /\ idVmm = v /\ api = v
        /\ vmmPid # None => vmmPid = v
        /\ status \notin {"created", "stopped"}
        /\ \A c \in Run :
             /\ shim[c] # "final"
             /\ pc[c] # "killed"
             /\ pc[c] = "cleanup" => launch # c

Inv == TypeOK /\ LockInv /\ FileInv /\ DiskInv

-----------------------------------------------------------------------------
\* Every variable keeps its type.
LEMMA TypeStep ==
    TypeOK /\ [Next]_vars => TypeOK'
<1> SUFFICES ASSUME TypeOK, [Next]_vars PROVE TypeOK'
  OBVIOUS
<1> USE RunAssumption DEF TypeOK, PC, Active, Startable, Status, Launching,
        ShimUp, VmmUp, Waiting, Ended, state, locks, sockets, runtime, cli,
        super, vms, history, Goto, ShimGoto, WriteState, DropCli, ShimGone,
        Kills, Unlocked, ClearRuntime, Fails, Stopped, Final
<1>1. ASSUME NEW c \in Run, ReadLive(c) \/ Reconcile(c) \/ Busy(c) PROVE TypeOK'
  BY <1>1 DEF ReadLive, NeedsRewrite, Ping, VmmAlive, ShimAlive, AfterRead,
     Reported, Supervised, Reconcile, WriteReconciled, Busy
<1>2. ASSUME NEW c \in Run, StartStep(c) PROVE TypeOK'
  <2>1. CASE StartLocked(c)
    BY <2>1 DEF StartLocked, Ping, VmmAlive, Reported, ShimAlive,
       WriteReconciled, NeedsRewrite
  <2>2. CASE CheckRuntime(c)
    BY <2>2 DEF CheckRuntime, NoLiveRuntime, ShimAlive, VmmAlive, Ping
  <2>3. CASE Prepare(c) \/ PrepareFails(c)
    BY <2>3 DEF Prepare, PrepareFails
  <2>4. CASE PublishStarting(c) \/ LaunchAborts(c)
    BY <2>4 DEF PublishStarting, LaunchAborts
  <2>5. CASE SpawnShim(c)
    BY <2>5 DEF SpawnShim
  <2>6. CASE RollBack(c) \/ HandOff(c)
    BY <2>6 DEF RollBack, HandOff
  <2>7. CASE
ShimReady(c) \/ Cancel(c) \/ Started(c) \/ LaunchError(c) \/ CancelRunning(c)
    BY <2>7 DEF ShimReady, ShimAlive, Cancel, Started, LaunchError,
       CancelRunning
  <2>8. CASE Unready(c) \/ CancelledShimGone(c)
    BY <2>8 DEF Unready, CancelledShimGone
  <2>9. CASE KillOrphans(c)
    <3>1. vmm' \in [Run -> VmmUp \cup {"none", "dead"}] /\ hung' \subseteq Run
      BY <2>9 DEF KillOrphans, VmmAlive, Outlives
    <3>2. raced' \in BOOLEAN
      BY <2>9, Zenon DEF KillOrphans
    <3> QED
      BY <2>9, <3>1, <3>2 DEF KillOrphans
  <2>10. CASE CleanUp(c)
    BY <2>10 DEF CleanUp
  <2> QED
    BY <1>2, <2>1, <2>2, <2>3, <2>4, <2>5, <2>6, <2>7, <2>8, <2>9, <2>10 DEF StartStep
<1>3. ASSUME NEW c \in Run, StopStep(c) PROVE TypeOK'
  <2>1. CASE ShimUnreachable(c) \/ ConfirmStop(c)
    BY <2>1 DEF ShimUnreachable, ShimAlive, ConfirmStop
  <2>2. CASE StopLocked(c)
    BY <2>2 DEF StopLocked, WriteReconciled, NeedsRewrite, Ping, VmmAlive,
       ShimAlive, Reported
  <2>3. CASE StopRefused(c)
    BY <2>3 DEF StopRefused, ShimAlive, VmmAlive, Recoverable, Candidates, Ping
  <2>4. CASE StopGone(c)
    BY <2>4 DEF StopGone, ShimAlive, VmmAlive
  <2>5. CASE StopOrphan(c)
    BY <2>5 DEF StopOrphan, ShimAlive, VmmAlive, Recoverable, Candidates, Ping
  <2>6. CASE KillOrphan(c)
    BY <2>6 DEF KillOrphan, Outlives
  <2>7. CASE OrphanStopped(c)
    BY <2>7 DEF OrphanStopped
  <2> QED
    BY <1>3, <2>1, <2>2, <2>3, <2>4, <2>5, <2>6, <2>7 DEF StopStep
<1>4. ASSUME NEW c \in Run, RecoverStep(c) PROVE TypeOK'
  <2>1. CASE SpawnRecovery(c)
    BY <2>1 DEF SpawnRecovery
  <2>2. CASE Recovered(c) \/ RecoveryFails(c)
    BY <2>2 DEF Recovered, ShimAlive, RecoveryFails
  <2> QED
    BY <1>4, <2>1, <2>2 DEF RecoverStep
<1>5. ASSUME NEW s \in Run, ShimStep(s) PROVE TypeOK'
  <2>1. CASE ShimBegin(s)
    BY <2>1 DEF ShimBegin, NormalLaunch
  <2>2. CASE ShimRecovers(s)
    BY <2>2 DEF ShimRecovers, NormalLaunch, Recoverable, ShimAlive, Candidates,
       VmmAlive, Ping
  <2>3. CASE ShimRefused(s)
    BY <2>3 DEF ShimRefused, NormalLaunch, Recoverable, ShimAlive, Candidates,
       VmmAlive, Ping
  <2>4. CASE Adopt(s) \/ Bind(s)
    BY <2>4 DEF Adopt, Bind
  <2>5. CASE ClearAndExit(s)
    BY <2>5 DEF ClearAndExit, Reply
  <2>6. CASE TakeLaunch(s) \/ SpawnVmm(s) \/ RecordVmm(s) \/ PublishVmm(s)
    BY <2>6 DEF TakeLaunch, SpawnVmm, RecordVmm, PublishVmm, VmmAlive
  <2>7. CASE PingVmm(s) \/ VmCreate(s) \/ VmBoot(s) \/ WriteRunning(s)
    BY <2>7 DEF PingVmm, Ping, VmmAlive, VmCreate, VmBoot, WriteRunning
  <2>8. CASE LaunchFails(s)
    BY <2>8 DEF LaunchFails, EndVmm, Outlives, FailKeeping, Candidates, VmmAlive
  <2>9. CASE NeverLaunched(s) \/ VmmExitSeen(s) \/ PendingReady(s)
    BY <2>9 DEF NeverLaunched, VmmExitSeen, VmmAlive, PendingReady, Ping
  <2>10. CASE PendingTimeout(s) \/ Terminated(s) \/ SupervisorFails(s)
    BY <2>10 DEF PendingTimeout, EndVmm, Outlives, FailKeeping, Terminated,
       SupervisorFails
  <2>11. ASSUME NEW c \in Run, TakeStop(s, c) PROVE TypeOK'
    BY <2>11 DEF TakeStop
  <2>12. CASE StopVmm(s) \/ StopFails(s)
    BY <2>12 DEF StopVmm, StopFails, Outlives, Reply
  <2> QED
    BY <1>5, <2>1, <2>2, <2>3, <2>4, <2>5, <2>6, <2>7, <2>8, <2>9, <2>10, <2>11,
       <2>12 DEF ShimStep
<1>6. ASSUME NEW v \in Run, VmmListens(v) PROVE TypeOK'
  BY <1>6 DEF VmmListens
<1>7. CASE HostReboot
  BY <1>7 DEF HostReboot, Fault
<1>8. ASSUME NEW r \in Run, VmmHangs(r) \/ VmmDies(r) PROVE TypeOK'
  BY <1>8 DEF VmmHangs, Fault, VmmDies
<1>9. ASSUME NEW r \in Run, ShimCrash(r) \/ CliCrash(r) PROVE TypeOK'
  BY <1>9 DEF ShimCrash, Fault, CliCrash
<1>10. CASE UNCHANGED vars
  BY <1>10 DEF vars, VmmAlive, ShimAlive, DiskOpen
<1> QED
  BY <1>1, <1>2, <1>3, <1>4, <1>5, <1>6, <1>7, <1>8, <1>9, <1>10 DEF Next, CliStep, Faults

-----------------------------------------------------------------------------
\* The lock passes only from the process that has it.
LEMMA LockStep ==
    TypeOK /\ LockInv /\ [Next]_vars => LockInv'
<1> SUFFICES ASSUME TypeOK, LockInv, [Next]_vars PROVE LockInv'
  OBVIOUS
<1> USE RunAssumption DEF TypeOK, PC, LockInv, Locking, Holding, Shimless,
        Active, Startable, Status, Launching, ShimUp, VmmUp, Waiting, Ended,
        state, locks, sockets, runtime, cli, super, vms, history, Goto,
        ShimGoto, WriteState, DropCli, ShimGone, Kills, Unlocked, ClearRuntime,
        Fails, Stopped, Final
<1>1. ASSUME NEW c \in Run, ReadLive(c) \/ Reconcile(c) \/ Busy(c) PROVE LockInv'
  BY <1>1 DEF ReadLive, NeedsRewrite, Ping, VmmAlive, ShimAlive, AfterRead,
     Reported, Supervised, Reconcile, WriteReconciled, Busy
<1>2. ASSUME NEW c \in Run, StartStep(c) PROVE LockInv'
  <2>1. CASE StartLocked(c)
    BY <2>1 DEF StartLocked, Ping, VmmAlive, Reported, ShimAlive,
       WriteReconciled, NeedsRewrite
  <2>2. CASE CheckRuntime(c)
    BY <2>2 DEF CheckRuntime, NoLiveRuntime, ShimAlive, VmmAlive, Ping
  <2>3. CASE Prepare(c) \/ PrepareFails(c)
    BY <2>3 DEF Prepare, PrepareFails
  <2>4. CASE PublishStarting(c) \/ LaunchAborts(c)
    BY <2>4 DEF PublishStarting, LaunchAborts
  <2>5. CASE SpawnShim(c)
    BY <2>5 DEF SpawnShim
  <2>6. CASE RollBack(c) \/ HandOff(c)
    BY <2>6 DEF RollBack, HandOff
  <2>7. CASE
ShimReady(c) \/ Cancel(c) \/ Started(c) \/ LaunchError(c) \/ CancelRunning(c)
    BY <2>7 DEF ShimReady, ShimAlive, Cancel, Started, LaunchError,
       CancelRunning
  <2>8. CASE Unready(c) \/ CancelledShimGone(c)
    BY <2>8 DEF Unready, CancelledShimGone
  <2>9. CASE KillOrphans(c)
    BY <2>9 DEF KillOrphans, VmmAlive, Outlives
  <2>10. CASE CleanUp(c)
    BY <2>10 DEF CleanUp
  <2> QED
    BY <1>2, <2>1, <2>2, <2>3, <2>4, <2>5, <2>6, <2>7, <2>8, <2>9, <2>10 DEF StartStep
<1>3. ASSUME NEW c \in Run, StopStep(c) PROVE LockInv'
  <2>1. CASE ShimUnreachable(c) \/ ConfirmStop(c)
    BY <2>1 DEF ShimUnreachable, ShimAlive, ConfirmStop
  <2>2. CASE StopLocked(c)
    BY <2>2 DEF StopLocked, WriteReconciled, NeedsRewrite, Ping, VmmAlive,
       ShimAlive, Reported
  <2>3. CASE StopRefused(c)
    BY <2>3 DEF StopRefused, ShimAlive, VmmAlive, Recoverable, Candidates, Ping
  <2>4. CASE StopGone(c)
    BY <2>4 DEF StopGone, ShimAlive, VmmAlive
  <2>5. CASE StopOrphan(c)
    BY <2>5 DEF StopOrphan, ShimAlive, VmmAlive, Recoverable, Candidates, Ping
  <2>6. CASE KillOrphan(c)
    BY <2>6 DEF KillOrphan, Outlives
  <2>7. CASE OrphanStopped(c)
    BY <2>7 DEF OrphanStopped
  <2> QED
    BY <1>3, <2>1, <2>2, <2>3, <2>4, <2>5, <2>6, <2>7 DEF StopStep
<1>4. ASSUME NEW c \in Run, RecoverStep(c) PROVE LockInv'
  <2>1. CASE SpawnRecovery(c)
    BY <2>1 DEF SpawnRecovery
  <2>2. CASE Recovered(c) \/ RecoveryFails(c)
    BY <2>2 DEF Recovered, ShimAlive, RecoveryFails
  <2> QED
    BY <1>4, <2>1, <2>2 DEF RecoverStep
<1>5. ASSUME NEW s \in Run, ShimStep(s) PROVE LockInv'
  <2>1. CASE ShimBegin(s)
    BY <2>1 DEF ShimBegin, NormalLaunch
  <2>2. CASE ShimRecovers(s)
    BY <2>2 DEF ShimRecovers, NormalLaunch, Recoverable, ShimAlive, Candidates,
       VmmAlive, Ping
  <2>3. CASE ShimRefused(s)
    BY <2>3 DEF ShimRefused, NormalLaunch, Recoverable, ShimAlive, Candidates,
       VmmAlive, Ping
  <2>4. CASE Adopt(s) \/ Bind(s)
    BY <2>4 DEF Adopt, Bind
  <2>5. CASE ClearAndExit(s)
    BY <2>5 DEF ClearAndExit, Reply
  <2>6. CASE TakeLaunch(s) \/ SpawnVmm(s) \/ RecordVmm(s) \/ PublishVmm(s)
    BY <2>6 DEF TakeLaunch, SpawnVmm, RecordVmm, PublishVmm, VmmAlive
  <2>7. CASE PingVmm(s) \/ VmCreate(s) \/ VmBoot(s) \/ WriteRunning(s)
    BY <2>7 DEF PingVmm, Ping, VmmAlive, VmCreate, VmBoot, WriteRunning
  <2>8. CASE LaunchFails(s)
    BY <2>8 DEF LaunchFails, EndVmm, Outlives, FailKeeping, Candidates, VmmAlive
  <2>9. CASE NeverLaunched(s) \/ VmmExitSeen(s) \/ PendingReady(s)
    BY <2>9 DEF NeverLaunched, VmmExitSeen, VmmAlive, PendingReady, Ping
  <2>10. CASE PendingTimeout(s) \/ Terminated(s) \/ SupervisorFails(s)
    BY <2>10 DEF PendingTimeout, EndVmm, Outlives, FailKeeping, Terminated,
       SupervisorFails
  <2>11. ASSUME NEW c \in Run, TakeStop(s, c) PROVE LockInv'
    BY <2>11 DEF TakeStop
  <2>12. CASE StopVmm(s) \/ StopFails(s)
    BY <2>12 DEF StopVmm, StopFails, Outlives, Reply
  <2> QED
    BY <1>5, <2>1, <2>2, <2>3, <2>4, <2>5, <2>6, <2>7, <2>8, <2>9, <2>10, <2>11,
       <2>12 DEF ShimStep
<1>6. ASSUME NEW v \in Run, VmmListens(v) PROVE LockInv'
  BY <1>6 DEF VmmListens
<1>7. CASE HostReboot
  BY <1>7 DEF HostReboot, Fault
<1>8. ASSUME NEW r \in Run, VmmHangs(r) \/ VmmDies(r) PROVE LockInv'
  BY <1>8 DEF VmmHangs, Fault, VmmDies
<1>9. ASSUME NEW r \in Run, ShimCrash(r) \/ CliCrash(r) PROVE LockInv'
  BY <1>9 DEF ShimCrash, Fault, CliCrash
<1>10. CASE UNCHANGED vars
  BY <1>10 DEF vars, VmmAlive, ShimAlive, DiskOpen
<1> QED
  BY <1>1, <1>2, <1>3, <1>4, <1>5, <1>6, <1>7, <1>8, <1>9, <1>10 DEF Next, CliStep, Faults

-----------------------------------------------------------------------------
\* What a run read under the lock stays true until it acts on it.
LEMMA RunStep ==
    TypeOK /\ LockInv /\ FileInv /\ [Next]_vars => RunInv'
<1> SUFFICES ASSUME TypeOK, LockInv, FileInv, [Next]_vars PROVE RunInv'
  OBVIOUS
<1> USE RunAssumption DEF FileInv, TypeOK, PC, LockInv, Locking, Holding,
        Shimless, RunInv, ShimInv, Unrecorded, Identified, ShimAlive, VmmAlive,
        Active, Startable, Status, Launching, ShimUp, VmmUp, Waiting, Ended,
        state, locks, sockets, runtime, cli, super, vms, history, Goto,
        ShimGoto, WriteState, DropCli, ShimGone, Kills, Unlocked, ClearRuntime,
        Fails, Stopped, Final
<1>1. ASSUME NEW c \in Run, ReadLive(c) \/ Reconcile(c) \/ Busy(c) PROVE RunInv'
  BY <1>1 DEF ReadLive, NeedsRewrite, Ping, AfterRead, Reported, Supervised,
     Reconcile, WriteReconciled, Busy
<1>2. ASSUME NEW c \in Run, StartStep(c) PROVE RunInv'
  <2>1. CASE StartLocked(c)
    BY <2>1 DEF StartLocked, Ping, Reported, WriteReconciled, NeedsRewrite
  <2>2. CASE CheckRuntime(c)
    BY <2>2 DEF CheckRuntime, NoLiveRuntime, Ping
  <2>3. CASE Prepare(c) \/ PrepareFails(c)
    BY <2>3 DEF Prepare, PrepareFails
  <2>4. CASE PublishStarting(c) \/ LaunchAborts(c)
    BY <2>4 DEF PublishStarting, LaunchAborts
  <2>5. CASE SpawnShim(c)
    BY <2>5 DEF SpawnShim
  <2>6. CASE RollBack(c) \/ HandOff(c)
    BY <2>6 DEF RollBack, HandOff
  <2>7. CASE
ShimReady(c) \/ Cancel(c) \/ Started(c) \/ LaunchError(c) \/ CancelRunning(c)
    BY <2>7 DEF ShimReady, Cancel, Started, LaunchError, CancelRunning
  <2>8. CASE Unready(c) \/ CancelledShimGone(c)
    BY <2>8 DEF Unready, CancelledShimGone
  <2>9. CASE KillOrphans(c)
    BY <2>9 DEF KillOrphans, Outlives
  <2>10. CASE CleanUp(c)
    BY <2>10 DEF CleanUp
  <2> QED
    BY <1>2, <2>1, <2>2, <2>3, <2>4, <2>5, <2>6, <2>7, <2>8, <2>9, <2>10 DEF StartStep
<1>3. ASSUME NEW c \in Run, StopStep(c) PROVE RunInv'
  <2>1. CASE ShimUnreachable(c) \/ ConfirmStop(c)
    BY <2>1 DEF ShimUnreachable, ConfirmStop
  <2>2. CASE StopLocked(c)
    BY <2>2 DEF StopLocked, WriteReconciled, NeedsRewrite, Ping, Reported
  <2>3. CASE StopRefused(c)
    BY <2>3 DEF StopRefused, Recoverable, Candidates, Ping
  <2>4. CASE StopGone(c)
    BY <2>4 DEF StopGone
  <2>5. CASE StopOrphan(c)
    BY <2>5 DEF StopOrphan, Recoverable, Candidates, Ping
  <2>6. CASE KillOrphan(c)
    BY <2>6 DEF KillOrphan, Outlives
  <2>7. CASE OrphanStopped(c)
    BY <2>7 DEF OrphanStopped
  <2> QED
    BY <1>3, <2>1, <2>2, <2>3, <2>4, <2>5, <2>6, <2>7 DEF StopStep
<1>4. ASSUME NEW c \in Run, RecoverStep(c) PROVE RunInv'
  <2>1. CASE SpawnRecovery(c)
    BY <2>1 DEF SpawnRecovery
  <2>2. CASE Recovered(c) \/ RecoveryFails(c)
    BY <2>2 DEF Recovered, RecoveryFails
  <2> QED
    BY <1>4, <2>1, <2>2 DEF RecoverStep
<1>5. ASSUME NEW s \in Run, ShimStep(s) PROVE RunInv'
  <2>1. CASE ShimBegin(s)
    BY <2>1 DEF ShimBegin, NormalLaunch
  <2>2. CASE ShimRecovers(s)
    BY <2>2 DEF ShimRecovers, NormalLaunch, Recoverable, Candidates, Ping
  <2>3. CASE ShimRefused(s)
    BY <2>3 DEF ShimRefused, NormalLaunch, Recoverable, Candidates, Ping
  <2>4. CASE Adopt(s) \/ Bind(s)
    BY <2>4 DEF Adopt, Bind
  <2>5. CASE ClearAndExit(s)
    BY <2>5 DEF ClearAndExit, Reply
  <2>6. CASE TakeLaunch(s) \/ SpawnVmm(s) \/ RecordVmm(s) \/ PublishVmm(s)
    BY <2>6 DEF TakeLaunch, SpawnVmm, RecordVmm, PublishVmm
  <2>7. CASE PingVmm(s) \/ VmCreate(s) \/ VmBoot(s) \/ WriteRunning(s)
    BY <2>7 DEF PingVmm, Ping, VmCreate, VmBoot, WriteRunning
  <2>8. CASE LaunchFails(s)
    BY <2>8 DEF LaunchFails, EndVmm, Outlives, FailKeeping, Candidates
  <2>9. CASE NeverLaunched(s) \/ VmmExitSeen(s) \/ PendingReady(s)
    BY <2>9 DEF NeverLaunched, VmmExitSeen, PendingReady, Ping
  <2>10. CASE PendingTimeout(s) \/ Terminated(s) \/ SupervisorFails(s)
    BY <2>10 DEF PendingTimeout, EndVmm, Outlives, FailKeeping, Terminated,
       SupervisorFails
  <2>11. ASSUME NEW c \in Run, TakeStop(s, c) PROVE RunInv'
    BY <2>11 DEF TakeStop
  <2>12. CASE StopVmm(s) \/ StopFails(s)
    BY <2>12 DEF StopVmm, StopFails, Outlives, Reply
  <2> QED
    BY <1>5, <2>1, <2>2, <2>3, <2>4, <2>5, <2>6, <2>7, <2>8, <2>9, <2>10, <2>11,
       <2>12 DEF ShimStep
<1>6. ASSUME NEW v \in Run, VmmListens(v) PROVE RunInv'
  BY <1>6 DEF VmmListens
<1>7. CASE HostReboot
  BY <1>7 DEF HostReboot, Fault
<1>8. ASSUME NEW r \in Run, VmmHangs(r) \/ VmmDies(r) PROVE RunInv'
  BY <1>8 DEF VmmHangs, Fault, VmmDies
<1>9. ASSUME NEW r \in Run, ShimCrash(r) \/ CliCrash(r) PROVE RunInv'
  BY <1>9 DEF ShimCrash, Fault, CliCrash
<1>10. CASE UNCHANGED vars
  BY <1>10 DEF vars, VmmAlive, ShimAlive, DiskOpen
<1> QED
  BY <1>1, <1>2, <1>3, <1>4, <1>5, <1>6, <1>7, <1>8, <1>9, <1>10 DEF Next, CliStep, Faults

-----------------------------------------------------------------------------
\* What a shim wrote stays there while it has the lock.
LEMMA ShimFilesStep ==
    TypeOK /\ LockInv /\ FileInv /\ [Next]_vars => ShimInv'
<1> SUFFICES ASSUME TypeOK, LockInv, FileInv, [Next]_vars PROVE ShimInv'
  OBVIOUS
<1> USE RunAssumption DEF FileInv, TypeOK, PC, LockInv, Locking, Holding,
        Shimless, RunInv, ShimInv, Unrecorded, Identified, ShimAlive, VmmAlive,
        Active, Startable, Status, Launching, ShimUp, VmmUp, Waiting, Ended,
        state, locks, sockets, runtime, cli, super, vms, history, Goto,
        ShimGoto, WriteState, DropCli, ShimGone, Kills, Unlocked, ClearRuntime,
        Fails, Stopped, Final
<1>1. ASSUME NEW c \in Run, ReadLive(c) \/ Reconcile(c) \/ Busy(c) PROVE ShimInv'
  BY <1>1 DEF ReadLive, NeedsRewrite, Ping, AfterRead, Reported, Supervised,
     Reconcile, WriteReconciled, Busy
<1>2. ASSUME NEW c \in Run, StartStep(c) PROVE ShimInv'
  <2>1. CASE StartLocked(c)
    BY <2>1 DEF StartLocked, Ping, Reported, WriteReconciled, NeedsRewrite
  <2>2. CASE CheckRuntime(c)
    BY <2>2 DEF CheckRuntime, NoLiveRuntime, Ping
  <2>3. CASE Prepare(c) \/ PrepareFails(c)
    BY <2>3 DEF Prepare, PrepareFails
  <2>4. CASE PublishStarting(c) \/ LaunchAborts(c)
    BY <2>4 DEF PublishStarting, LaunchAborts
  <2>5. CASE SpawnShim(c)
    BY <2>5 DEF SpawnShim
  <2>6. CASE RollBack(c) \/ HandOff(c)
    BY <2>6 DEF RollBack, HandOff
  <2>7. CASE
ShimReady(c) \/ Cancel(c) \/ Started(c) \/ LaunchError(c) \/ CancelRunning(c)
    BY <2>7 DEF ShimReady, Cancel, Started, LaunchError, CancelRunning
  <2>8. CASE Unready(c) \/ CancelledShimGone(c)
    BY <2>8 DEF Unready, CancelledShimGone
  <2>9. CASE KillOrphans(c)
    BY <2>9 DEF KillOrphans, Outlives
  <2>10. CASE CleanUp(c)
    BY <2>10 DEF CleanUp
  <2> QED
    BY <1>2, <2>1, <2>2, <2>3, <2>4, <2>5, <2>6, <2>7, <2>8, <2>9, <2>10 DEF StartStep
<1>3. ASSUME NEW c \in Run, StopStep(c) PROVE ShimInv'
  <2>1. CASE ShimUnreachable(c) \/ ConfirmStop(c)
    BY <2>1 DEF ShimUnreachable, ConfirmStop
  <2>2. CASE StopLocked(c)
    BY <2>2 DEF StopLocked, WriteReconciled, NeedsRewrite, Ping, Reported
  <2>3. CASE StopRefused(c)
    BY <2>3 DEF StopRefused, Recoverable, Candidates, Ping
  <2>4. CASE StopGone(c)
    BY <2>4 DEF StopGone
  <2>5. CASE StopOrphan(c)
    BY <2>5 DEF StopOrphan, Recoverable, Candidates, Ping
  <2>6. CASE KillOrphan(c)
    BY <2>6 DEF KillOrphan, Outlives
  <2>7. CASE OrphanStopped(c)
    BY <2>7 DEF OrphanStopped
  <2> QED
    BY <1>3, <2>1, <2>2, <2>3, <2>4, <2>5, <2>6, <2>7 DEF StopStep
<1>4. ASSUME NEW c \in Run, RecoverStep(c) PROVE ShimInv'
  <2>1. CASE SpawnRecovery(c)
    BY <2>1 DEF SpawnRecovery
  <2>2. CASE Recovered(c) \/ RecoveryFails(c)
    BY <2>2 DEF Recovered, RecoveryFails
  <2> QED
    BY <1>4, <2>1, <2>2 DEF RecoverStep
<1>5. ASSUME NEW s \in Run, ShimStep(s) PROVE ShimInv'
  <2>1. CASE ShimBegin(s)
    BY <2>1 DEF ShimBegin, NormalLaunch
  <2>2. CASE ShimRecovers(s)
    BY <2>2 DEF ShimRecovers, NormalLaunch, Recoverable, Candidates, Ping
  <2>3. CASE ShimRefused(s)
    BY <2>3 DEF ShimRefused, NormalLaunch, Recoverable, Candidates, Ping
  <2>4. CASE Adopt(s) \/ Bind(s)
    BY <2>4 DEF Adopt, Bind
  <2>5. CASE ClearAndExit(s)
    BY <2>5 DEF ClearAndExit, Reply
  <2>6. CASE TakeLaunch(s) \/ SpawnVmm(s) \/ RecordVmm(s) \/ PublishVmm(s)
    BY <2>6 DEF TakeLaunch, SpawnVmm, RecordVmm, PublishVmm
  <2>7. CASE PingVmm(s) \/ VmCreate(s) \/ VmBoot(s) \/ WriteRunning(s)
    BY <2>7 DEF PingVmm, Ping, VmCreate, VmBoot, WriteRunning
  <2>8. CASE LaunchFails(s)
    BY <2>8 DEF LaunchFails, EndVmm, Outlives, FailKeeping, Candidates
  <2>9. CASE NeverLaunched(s) \/ VmmExitSeen(s) \/ PendingReady(s)
    BY <2>9 DEF NeverLaunched, VmmExitSeen, PendingReady, Ping
  <2>10. CASE PendingTimeout(s) \/ Terminated(s) \/ SupervisorFails(s)
    BY <2>10 DEF PendingTimeout, EndVmm, Outlives, FailKeeping, Terminated,
       SupervisorFails
  <2>11. ASSUME NEW c \in Run, TakeStop(s, c) PROVE ShimInv'
    BY <2>11 DEF TakeStop
  <2>12. CASE StopVmm(s) \/ StopFails(s)
    BY <2>12 DEF StopVmm, StopFails, Outlives, Reply
  <2> QED
    BY <1>5, <2>1, <2>2, <2>3, <2>4, <2>5, <2>6, <2>7, <2>8, <2>9, <2>10, <2>11,
       <2>12 DEF ShimStep
<1>6. ASSUME NEW v \in Run, VmmListens(v) PROVE ShimInv'
  BY <1>6 DEF VmmListens
<1>7. CASE HostReboot
  BY <1>7 DEF HostReboot, Fault
<1>8. ASSUME NEW r \in Run, VmmHangs(r) \/ VmmDies(r) PROVE ShimInv'
  BY <1>8 DEF VmmHangs, Fault, VmmDies
<1>9. ASSUME NEW r \in Run, ShimCrash(r) \/ CliCrash(r) PROVE ShimInv'
  BY <1>9 DEF ShimCrash, Fault, CliCrash
<1>10. CASE UNCHANGED vars
  BY <1>10 DEF vars, VmmAlive, ShimAlive, DiskOpen
<1> QED
  BY <1>1, <1>2, <1>3, <1>4, <1>5, <1>6, <1>7, <1>8, <1>9, <1>10 DEF Next, CliStep, Faults

-----------------------------------------------------------------------------
\* A VMM with the disk open stays on record.
LEMMA DiskStep ==
    Inv /\ [Next]_vars => DiskInv'
<1> SUFFICES ASSUME Inv, [Next]_vars PROVE DiskInv'
  OBVIOUS
<1> USE RunAssumption DEF Inv, FileInv, DiskInv, DiskOpen, TypeOK, PC, LockInv,
        Locking, Holding, Shimless, RunInv, ShimInv, Unrecorded, Identified,
        ShimAlive, VmmAlive, Active, Startable, Status, Launching, ShimUp,
        VmmUp, Waiting, Ended, state, locks, sockets, runtime, cli, super, vms,
        history, Goto, ShimGoto, WriteState, DropCli, ShimGone, Kills, Unlocked,
        ClearRuntime, Fails, Stopped, Final
<1>1. ASSUME NEW c \in Run, ReadLive(c) \/ Reconcile(c) \/ Busy(c) PROVE DiskInv'
  BY <1>1 DEF ReadLive, NeedsRewrite, Ping, AfterRead, Reported, Supervised,
     Reconcile, WriteReconciled, Busy
<1>2. ASSUME NEW c \in Run, StartStep(c) PROVE DiskInv'
  <2>1. CASE StartLocked(c)
    BY <2>1 DEF StartLocked, Ping, Reported, WriteReconciled, NeedsRewrite
  <2>2. CASE CheckRuntime(c)
    BY <2>2 DEF CheckRuntime, NoLiveRuntime, Ping
  <2>3. CASE Prepare(c) \/ PrepareFails(c)
    BY <2>3 DEF Prepare, PrepareFails
  <2>4. CASE PublishStarting(c) \/ LaunchAborts(c)
    BY <2>4 DEF PublishStarting, LaunchAborts
  <2>5. CASE SpawnShim(c)
    BY <2>5 DEF SpawnShim
  <2>6. CASE RollBack(c) \/ HandOff(c)
    BY <2>6 DEF RollBack, HandOff
  <2>7. CASE
ShimReady(c) \/ Cancel(c) \/ Started(c) \/ LaunchError(c) \/ CancelRunning(c)
    BY <2>7 DEF ShimReady, Cancel, Started, LaunchError, CancelRunning
  <2>8. CASE Unready(c) \/ CancelledShimGone(c)
    BY <2>8 DEF Unready, CancelledShimGone
  <2>9. CASE KillOrphans(c)
    BY <2>9 DEF KillOrphans, Outlives
  <2>10. CASE CleanUp(c)
    BY <2>10 DEF CleanUp
  <2> QED
    BY <1>2, <2>1, <2>2, <2>3, <2>4, <2>5, <2>6, <2>7, <2>8, <2>9, <2>10 DEF StartStep
<1>3. ASSUME NEW c \in Run, StopStep(c) PROVE DiskInv'
  <2>1. CASE ShimUnreachable(c) \/ ConfirmStop(c)
    BY <2>1 DEF ShimUnreachable, ConfirmStop
  <2>2. CASE StopLocked(c)
    BY <2>2 DEF StopLocked, WriteReconciled, NeedsRewrite, Ping, Reported
  <2>3. CASE StopRefused(c)
    BY <2>3 DEF StopRefused, Recoverable, Candidates, Ping
  <2>4. CASE StopGone(c)
    BY <2>4 DEF StopGone
  <2>5. CASE StopOrphan(c)
    BY <2>5 DEF StopOrphan, Recoverable, Candidates, Ping
  <2>6. CASE KillOrphan(c)
    BY <2>6 DEF KillOrphan, Outlives
  <2>7. CASE OrphanStopped(c)
    BY <2>7 DEF OrphanStopped
  <2> QED
    BY <1>3, <2>1, <2>2, <2>3, <2>4, <2>5, <2>6, <2>7 DEF StopStep
<1>4. ASSUME NEW c \in Run, RecoverStep(c) PROVE DiskInv'
  <2>1. CASE SpawnRecovery(c)
    BY <2>1 DEF SpawnRecovery
  <2>2. CASE Recovered(c) \/ RecoveryFails(c)
    BY <2>2 DEF Recovered, RecoveryFails
  <2> QED
    BY <1>4, <2>1, <2>2 DEF RecoverStep
<1>5. ASSUME NEW s \in Run, ShimStep(s) PROVE DiskInv'
  <2>1. CASE ShimBegin(s)
    BY <2>1 DEF ShimBegin, NormalLaunch
  <2>2. CASE ShimRecovers(s)
    BY <2>2 DEF ShimRecovers, NormalLaunch, Recoverable, Candidates, Ping
  <2>3. CASE ShimRefused(s)
    BY <2>3 DEF ShimRefused, NormalLaunch, Recoverable, Candidates, Ping
  <2>4. CASE Adopt(s) \/ Bind(s)
    BY <2>4 DEF Adopt, Bind
  <2>5. CASE ClearAndExit(s)
    BY <2>5 DEF ClearAndExit, Reply
  <2>6. CASE TakeLaunch(s) \/ SpawnVmm(s) \/ RecordVmm(s) \/ PublishVmm(s)
    BY <2>6 DEF TakeLaunch, SpawnVmm, RecordVmm, PublishVmm
  <2>7. CASE PingVmm(s) \/ VmCreate(s) \/ VmBoot(s) \/ WriteRunning(s)
    BY <2>7 DEF PingVmm, Ping, VmCreate, VmBoot, WriteRunning
  <2>8. CASE LaunchFails(s)
    BY <2>8 DEF LaunchFails, EndVmm, Outlives, FailKeeping, Candidates
  <2>9. CASE NeverLaunched(s) \/ VmmExitSeen(s) \/ PendingReady(s)
    BY <2>9 DEF NeverLaunched, VmmExitSeen, PendingReady, Ping
  <2>10. CASE PendingTimeout(s) \/ Terminated(s) \/ SupervisorFails(s)
    BY <2>10 DEF PendingTimeout, EndVmm, Outlives, FailKeeping, Terminated,
       SupervisorFails
  <2>11. ASSUME NEW c \in Run, TakeStop(s, c) PROVE DiskInv'
    BY <2>11 DEF TakeStop
  <2>12. CASE StopVmm(s) \/ StopFails(s)
    BY <2>12 DEF StopVmm, StopFails, Outlives, Reply
  <2> QED
    BY <1>5, <2>1, <2>2, <2>3, <2>4, <2>5, <2>6, <2>7, <2>8, <2>9, <2>10, <2>11,
       <2>12 DEF ShimStep
<1>6. ASSUME NEW v \in Run, VmmListens(v) PROVE DiskInv'
  BY <1>6 DEF VmmListens
<1>7. CASE HostReboot
  BY <1>7 DEF HostReboot, Fault
<1>8. ASSUME NEW r \in Run, VmmHangs(r) \/ VmmDies(r) PROVE DiskInv'
  BY <1>8 DEF VmmHangs, Fault, VmmDies
<1>9. ASSUME NEW r \in Run, ShimCrash(r) \/ CliCrash(r) PROVE DiskInv'
  BY <1>9 DEF ShimCrash, Fault, CliCrash
<1>10. CASE UNCHANGED vars
  BY <1>10 DEF vars, VmmAlive, ShimAlive, DiskOpen
<1> QED
  BY <1>1, <1>2, <1>3, <1>4, <1>5, <1>6, <1>7, <1>8, <1>9, <1>10 DEF Next, CliStep, Faults

-----------------------------------------------------------------------------
(* The theorems.                                                           *)

\* The initial state satisfies the invariant.
LEMMA InitInv == Init => Inv
<1> SUFFICES ASSUME Init PROVE Inv
  OBVIOUS
<1> USE RunAssumption DEF Init, Active, Startable, Status, Launching, ShimUp, VmmUp,
        Waiting, Ended
<1>1. TypeOK
  <2>1. pc \in [Run -> PC] /\ faults \in 0..MaxFaults
    BY DEF PC
  <2>2. raced \in BOOLEAN
    BY Zenon
  <2> QED
    BY <2>1, <2>2 DEF TypeOK
<1>2. LockInv
  BY DEF LockInv, Locking, Holding, Shimless
<1>3. FileInv
  BY DEF FileInv, RunInv, ShimInv, Unrecorded, Identified, ShimAlive, VmmAlive
<1>4. DiskInv
  BY DEF DiskInv, DiskOpen
<1> QED
  BY <1>1, <1>2, <1>3, <1>4 DEF Inv

\* The invariant holds for every number of runs and faults.
LEMMA Inductive == Spec => []Inv
<1>1. Inv /\ [Next]_vars => Inv'
  BY TypeStep, LockStep, RunStep, ShimFilesStep, DiskStep DEF Inv, FileInv
<1> QED
  BY InitInv, <1>1, PTL DEF Spec

\* Every variable keeps its type.
THEOREM TypeCorrect == Spec => []TypeOK
<1>1. Inv => TypeOK
  BY DEF Inv
<1> QED
  BY Inductive, <1>1, PTL

\* SPEC 20's owner guard, as far as the code keeps it: whoever crashes,
\* hangs or reboots, a VMM that has the disk open is named by
\* process-identity.json and answers on api.sock, unless the cleanup of a
\* failed start (terminate_unready_shim) met a later start.
THEOREM EvidenceSurvives == Spec => []EvidenceKeptUnlessRaced
<1>1. Inv => EvidenceKeptUnlessRaced
  BY DEF Inv, DiskInv, EvidenceKeptUnlessRaced, EvidenceKept
<1> QED
  BY Inductive, <1>1, PTL

\* The machine's disk is never open in two VMMs under the same condition.
THEOREM NoSecondVm == Spec => []OneVm
<1>1. Inv => OneVm
  BY DEF Inv, DiskInv, OneVm
<1> QED
  BY Inductive, <1>1, PTL

\* Clone, cold snapshot and rm may trust `created` and `stopped`.
THEOREM RestIsRest == Spec => []AtRest
<1>1. Inv => AtRest
  BY DEF Inv, DiskInv, AtRest
<1> QED
  BY Inductive, <1>1, PTL

\* What a step that changes state.json must satisfy.
ShimWrites ==
    ~raced' /\ state' # state /\ ShimAlive(shimPid) => shimLock = shimPid

\* Whoever writes state.json while the recorded shim is alive is that shim,
\* or a failed start that cleans up after a later one.
LEMMA WriterStep ==
    Inv /\ [Next]_vars => ShimWrites
<1> SUFFICES ASSUME Inv, [Next]_vars PROVE ShimWrites
  OBVIOUS
<1> USE RunAssumption DEF Inv, FileInv, ShimWrites, TypeOK, PC, LockInv,
        Locking, Holding, Shimless, RunInv, ShimInv, Unrecorded, Identified,
        ShimAlive, VmmAlive, Active, Startable, Status, Launching, ShimUp,
        VmmUp, Waiting, Ended, state, locks, sockets, runtime, cli, super, vms,
        history, Goto, ShimGoto, WriteState, DropCli, ShimGone, Kills, Unlocked,
        ClearRuntime, Fails, Stopped, Final
<1>1. ASSUME NEW c \in Run, ReadLive(c) \/ Reconcile(c) \/ Busy(c) PROVE ShimWrites
  BY <1>1 DEF ReadLive, NeedsRewrite, Ping, AfterRead, Reported, Supervised,
     Reconcile, WriteReconciled, Busy
<1>2. ASSUME NEW c \in Run, StartStep(c) PROVE ShimWrites
  <2>1. CASE StartLocked(c)
    BY <2>1 DEF StartLocked, Ping, Reported, WriteReconciled, NeedsRewrite
  <2>2. CASE CheckRuntime(c)
    BY <2>2 DEF CheckRuntime, NoLiveRuntime, Ping
  <2>3. CASE Prepare(c) \/ PrepareFails(c)
    BY <2>3 DEF Prepare, PrepareFails
  <2>4. CASE PublishStarting(c) \/ LaunchAborts(c)
    BY <2>4 DEF PublishStarting, LaunchAborts
  <2>5. CASE SpawnShim(c)
    BY <2>5 DEF SpawnShim
  <2>6. CASE RollBack(c) \/ HandOff(c)
    BY <2>6 DEF RollBack, HandOff
  <2>7. CASE
ShimReady(c) \/ Cancel(c) \/ Started(c) \/ LaunchError(c) \/ CancelRunning(c)
    BY <2>7 DEF ShimReady, Cancel, Started, LaunchError, CancelRunning
  <2>8. CASE Unready(c) \/ CancelledShimGone(c)
    BY <2>8 DEF Unready, CancelledShimGone
  <2>9. CASE KillOrphans(c)
    BY <2>9 DEF KillOrphans, Outlives
  <2>10. CASE CleanUp(c)
    <3> SUFFICES ASSUME ~raced', ShimAlive(shimPid) PROVE FALSE
      BY DEF ShimWrites
    <3>1. launch = c
      BY <2>10, Zenon DEF CleanUp
    <3>2. shim[c] = "dead" /\ shim[shimPid] = "boot"
      BY <2>10 DEF CleanUp
    <3> QED
      BY <3>1, <3>2
  <2> QED
    BY <1>2, <2>1, <2>2, <2>3, <2>4, <2>5, <2>6, <2>7, <2>8, <2>9, <2>10 DEF StartStep
<1>3. ASSUME NEW c \in Run, StopStep(c) PROVE ShimWrites
  <2>1. CASE ShimUnreachable(c) \/ ConfirmStop(c)
    BY <2>1 DEF ShimUnreachable, ConfirmStop
  <2>2. CASE StopLocked(c)
    BY <2>2 DEF StopLocked, WriteReconciled, NeedsRewrite, Ping, Reported
  <2>3. CASE StopRefused(c)
    BY <2>3 DEF StopRefused, Recoverable, Candidates, Ping
  <2>4. CASE StopGone(c)
    BY <2>4 DEF StopGone
  <2>5. CASE StopOrphan(c)
    BY <2>5 DEF StopOrphan, Recoverable, Candidates, Ping
  <2>6. CASE KillOrphan(c)
    BY <2>6 DEF KillOrphan, Outlives
  <2>7. CASE OrphanStopped(c)
    BY <2>7 DEF OrphanStopped
  <2> QED
    BY <1>3, <2>1, <2>2, <2>3, <2>4, <2>5, <2>6, <2>7 DEF StopStep
<1>4. ASSUME NEW c \in Run, RecoverStep(c) PROVE ShimWrites
  <2>1. CASE SpawnRecovery(c)
    BY <2>1 DEF SpawnRecovery
  <2>2. CASE Recovered(c) \/ RecoveryFails(c)
    BY <2>2 DEF Recovered, RecoveryFails
  <2> QED
    BY <1>4, <2>1, <2>2 DEF RecoverStep
<1>5. ASSUME NEW s \in Run, ShimStep(s) PROVE ShimWrites
  <2>1. CASE ShimBegin(s)
    BY <2>1 DEF ShimBegin, NormalLaunch
  <2>2. CASE ShimRecovers(s)
    BY <2>2 DEF ShimRecovers, NormalLaunch, Recoverable, Candidates, Ping
  <2>3. CASE ShimRefused(s)
    BY <2>3 DEF ShimRefused, NormalLaunch, Recoverable, Candidates, Ping
  <2>4. CASE Adopt(s) \/ Bind(s)
    BY <2>4 DEF Adopt, Bind
  <2>5. CASE ClearAndExit(s)
    BY <2>5 DEF ClearAndExit, Reply
  <2>6. CASE TakeLaunch(s) \/ SpawnVmm(s) \/ RecordVmm(s) \/ PublishVmm(s)
    BY <2>6 DEF TakeLaunch, SpawnVmm, RecordVmm, PublishVmm
  <2>7. CASE PingVmm(s) \/ VmCreate(s) \/ VmBoot(s) \/ WriteRunning(s)
    BY <2>7 DEF PingVmm, Ping, VmCreate, VmBoot, WriteRunning
  <2>8. CASE LaunchFails(s)
    BY <2>8 DEF LaunchFails, EndVmm, Outlives, FailKeeping, Candidates
  <2>9. CASE NeverLaunched(s) \/ VmmExitSeen(s) \/ PendingReady(s)
    BY <2>9 DEF NeverLaunched, VmmExitSeen, PendingReady, Ping
  <2>10. CASE PendingTimeout(s) \/ Terminated(s) \/ SupervisorFails(s)
    BY <2>10 DEF PendingTimeout, EndVmm, Outlives, FailKeeping, Terminated,
       SupervisorFails
  <2>11. ASSUME NEW c \in Run, TakeStop(s, c) PROVE ShimWrites
    BY <2>11 DEF TakeStop
  <2>12. CASE StopVmm(s) \/ StopFails(s)
    BY <2>12 DEF StopVmm, StopFails, Outlives, Reply
  <2> QED
    BY <1>5, <2>1, <2>2, <2>3, <2>4, <2>5, <2>6, <2>7, <2>8, <2>9, <2>10, <2>11,
       <2>12 DEF ShimStep
<1>6. ASSUME NEW v \in Run, VmmListens(v) PROVE ShimWrites
  BY <1>6 DEF VmmListens
<1>7. CASE HostReboot
  BY <1>7 DEF HostReboot, Fault
<1>8. ASSUME NEW r \in Run, VmmHangs(r) \/ VmmDies(r) PROVE ShimWrites
  BY <1>8 DEF VmmHangs, Fault, VmmDies
<1>9. ASSUME NEW r \in Run, ShimCrash(r) \/ CliCrash(r) PROVE ShimWrites
  BY <1>9 DEF ShimCrash, Fault, CliCrash
<1>10. CASE UNCHANGED vars
  BY <1>10 DEF vars, VmmAlive, ShimAlive, DiskOpen
<1> QED
  BY <1>1, <1>2, <1>3, <1>4, <1>5, <1>6, <1>7, <1>8, <1>9, <1>10 DEF Next, CliStep, Faults

\* SPEC 4.3: state.json has one writer while a shim is alive, unless a
\* failed start cleans up after a later one.
THEOREM ShimIsTheWriter == Spec => OneWriterUnlessRaced
<1>1. Inv /\ [Next]_vars =>
        [~raced' /\ state' # state /\ ShimAlive(shimPid) => shimLock = shimPid]_vars
  BY WriterStep DEF ShimWrites
<1> QED
  BY Inductive, <1>1, PTL DEF Spec, OneWriterUnlessRaced
=============================================================================
