------------------------------- MODULE Sidecars -------------------------------
(***************************************************************************)
(* passt and the virtiofsd processes of one machine: the shim spawns them  *)
(* in order before the VMM, watches them, stops them after the VMM, and a  *)
(* replacement shim, a stop or a later start finds them again from         *)
(* process-identity.json, state.json and a scan of /proc.                  *)
(*                                                                         *)
(* A sidecar process is a pair <<i, l>>: the i-th sidecar of launch l.  The*)
(* launch binding in its environment is made from the configuration alone, *)
(* so a scan finds every process of sidecar i, of whichever launch.  A     *)
(* process in `stuck` outlives SIGKILL for longer than anyone waits.       *)
(***************************************************************************)
EXTENDS Naturals

CONSTANTS
    N,          \* number of sidecars, in launch order
    MaxLaunch,  \* bound on launches
    MaxFaults   \* bound on shim deaths and stuck processes

Side == 1..N
Launch == 1..MaxLaunch

VARIABLES
    launch,     \* the newest launch
    alive,      \* live sidecar processes
    stuck,      \* those that outlive SIGKILL
    sock,       \* the launch whose socket of each sidecar is there, or 0
    state,      \* sidecar_pids in state.json
    ident,      \* sidecars in process-identity.json
    status, degraded,   \* more of state.json
    dir,        \* the runtime directory is there
    vmm,        \* the launch of the live VMM, or 0
    shim,       \* what the shim is doing
    idx,        \* the sidecar it works on
    own,        \* the process it holds for each sidecar
    lost,       \* history: processes that were never recorded, as their shim was
                \* killed while it spawned them or a survey found two of a kind
    faults

files == <<sock, state, ident, dir>>
procs == <<alive, stuck, vmm>>
vars == <<launch, files, procs, status, degraded, shim, idx, own, lost, faults>>

Nobody == [i \in Side |-> 0]
Active == {"starting", "running", "stopping"}
\* A launch that has not reached `running` yet.
Launching == {"spawn", "spawned", "recorded", "waiting", "vmm"}

Init ==
    /\ launch = 0 /\ alive = {} /\ stuck = {} /\ sock = Nobody
    /\ state = Nobody /\ ident = Nobody
    /\ status = "created" /\ degraded = {} /\ dir = FALSE /\ vmm = 0
    /\ shim = "none" /\ idx = 1 /\ own = Nobody /\ lost = {} /\ faults = 0

Held(f) == {<<i, f[i]>> : i \in {i \in Side : f[i] # 0}}
\* What SIGTERM and SIGKILL leave of the processes ps.
After(ps) == (alive \ ps) \cup (ps \cap alive \cap stuck)
Scan(i) == {l \in Launch : <<i, l>> \in alive}
\* There is no second one to take it for.
Single(found) == \A l, m \in found : l = m

-----------------------------------------------------------------------------
(* start, up to the shim.                                                  *)

\* ensure_no_live_runtime after reconciliation: the processes the identity
\* file names are terminated, and a pid of state.json must be one of them.
Recorded == IF status \in Active THEN Nobody ELSE state

Start ==
    /\ shim = "none" /\ vmm = 0 /\ launch < MaxLaunch
    /\ dir => /\ Held(ident) \cap stuck \cap alive = {}
              /\ \A i \in Side : Recorded[i] \in {0, ident[i]}
    /\ launch' = launch + 1
    /\ alive' = IF dir THEN alive \ Held(ident) ELSE alive
    /\ sock' = Nobody /\ state' = Nobody /\ ident' = Nobody /\ dir' = TRUE
    /\ status' = "starting" /\ degraded' = {}
    /\ shim' = "spawn" /\ idx' = 1 /\ own' = Nobody
    /\ UNCHANGED <<stuck, vmm, lost, faults>>

\* Every command that reads the state of a machine whose processes are gone
\* writes it back as stopped.
Reconcile ==
    /\ shim = "none" /\ vmm = 0 /\ status \in Active
    /\ status' = "stopped" /\ state' = Nobody /\ degraded' = {}
    /\ UNCHANGED <<launch, procs, sock, ident, dir, shim, idx, own, lost, faults>>

-----------------------------------------------------------------------------
(* launch_sidecars and launch_vmm.                                         *)

\* spawn_sidecar: the process, state.json, then the identity file.
Spawn ==
    /\ shim = "spawn" /\ idx <= N
    /\ alive' = alive \cup {<<idx, launch>>}
    /\ shim' = "spawned"
    /\ UNCHANGED <<launch, files, stuck, vmm, status, degraded, idx, own, lost, faults>>

RecordState ==
    /\ shim = "spawned" /\ shim' = "recorded"
    /\ state' = [state EXCEPT ![idx] = launch]
    /\ UNCHANGED <<launch, sock, ident, dir, procs, status, degraded, idx, own, lost, faults>>

\* Mutant: the identity is published only once the sidecar is ready.
RecordIdentityLate ==
    /\ shim = "recorded" /\ <<idx, launch>> \in alive /\ shim' = "waiting"
    /\ own' = [own EXCEPT ![idx] = launch]
    /\ UNCHANGED <<launch, files, procs, status, degraded, idx, lost, faults>>

RecordIdentity ==
    /\ shim = "recorded" /\ <<idx, launch>> \in alive /\ shim' = "waiting"
    /\ ident' = [ident EXCEPT ![idx] = launch]
    /\ own' = [own EXCEPT ![idx] = launch]
    /\ UNCHANGED <<launch, sock, state, dir, procs, status, degraded, idx, lost, faults>>

\* The sidecar creates its socket, in the directory that is there now.
Listen ==
    /\ \E p \in alive : dir /\ sock[p[1]] = 0 /\ sock' = [sock EXCEPT ![p[1]] = p[2]]
    /\ UNCHANGED <<launch, state, ident, dir, procs, status, degraded, shim, idx, own, lost, faults>>

\* wait_ready_while, of passt and of virtiofsd: the socket node is there,
\* whoever made it; virtiofsd writes its pid file along with it.
PasstReady == idx = 1 /\ sock[idx] # 0
VirtiofsReady == idx > 1 /\ sock[idx] # 0

Ready ==
    /\ shim = "waiting" /\ (PasstReady \/ VirtiofsReady) /\ <<idx, launch>> \in alive
    /\ shim' = "spawn" /\ idx' = idx + 1
    /\ UNCHANGED <<launch, files, procs, status, degraded, own, lost, faults>>

SpawnVmm ==
    /\ shim = "spawn" /\ idx > N
    /\ \A i \in Side : <<i, launch>> \in alive
    /\ vmm' = launch /\ shim' = "vmm"
    /\ UNCHANGED <<launch, files, alive, stuck, status, degraded, idx, own, lost, faults>>

LaunchDone ==
    /\ shim = "vmm" /\ vmm = launch
    /\ \A i \in Side : <<i, launch>> \in alive
    /\ shim' = "up" /\ status' = "running"
    /\ UNCHANGED <<launch, files, procs, degraded, idx, own, lost, faults>>

\* Any failure of the launch: the VMM goes first, then every sidecar that was
\* spawned, the one at hand included.
Rollback ==
    /\ shim \in Launching
    /\ shim' = "survey"
    /\ vmm' = 0
    /\ alive' = After(Held(own) \cup {<<idx, launch>>})
    /\ UNCHANGED <<launch, files, stuck, status, degraded, idx, own, lost, faults>>

\* The process of each kind a scan finds, the recorded one if it is among them.
Surveyed == [i \in Side |-> IF ident[i] \in Scan(i) THEN ident[i]
                            ELSE IF Scan(i) = {} THEN 0 ELSE CHOOSE l \in Scan(i) : TRUE]

\* find_launch_sidecar_survivors: with none left the directory goes; one of a
\* kind is recorded again; two of a kind are ambiguous and everything stays.
Survey ==
    /\ shim = "survey" /\ shim' = "none" /\ own' = Nobody
    /\ status' = "failed"
    /\ \/ /\ alive = {}
          /\ state' = Nobody /\ ident' = Nobody /\ sock' = Nobody /\ dir' = FALSE
          /\ degraded' = {} /\ UNCHANGED lost
       \/ /\ alive # {} /\ \A i \in Side : Single(Scan(i))
          /\ state' = Surveyed /\ ident' = Surveyed
          /\ UNCHANGED <<sock, dir, degraded, lost>>
       \/ /\ \E i \in Side : ~Single(Scan(i))
          /\ lost' = lost \cup (alive \ Held(ident))
          /\ UNCHANGED <<state, ident, sock, dir, degraded>>
    /\ UNCHANGED <<launch, procs, idx, faults>>

-----------------------------------------------------------------------------
(* Supervision and stop.                                                   *)

\* reconcile_owned_sidecar_exits: the identity file, then state.json with
\* the marker; the sidecar's artifacts go.
Notice ==
    /\ shim = "up" /\ vmm # 0
    /\ \E i \in Side :
        /\ own[i] # 0 /\ <<i, own[i]>> \notin alive
        /\ idx' = i
        /\ own' = [own EXCEPT ![i] = 0]
        /\ ident' = [ident EXCEPT ![i] = 0]
        /\ sock' = [sock EXCEPT ![i] = 0]
    /\ shim' = "notice"
    /\ UNCHANGED <<launch, state, dir, procs, status, degraded, lost, faults>>

Report ==
    /\ shim = "notice" /\ shim' = "up"
    /\ state' = [state EXCEPT ![idx] = 0]
    /\ degraded' = degraded \cup {idx}
    /\ UNCHANGED <<launch, sock, ident, dir, procs, status, idx, own, lost, faults>>

\* A stop request, a signal, or a VMM that exited: the VMM is gone first.
StopVmm ==
    /\ shim = "up"
    /\ shim' = "stopping" /\ vmm' = 0 /\ status' = "stopping"
    /\ UNCHANGED <<launch, files, alive, stuck, degraded, idx, own, lost, faults>>

StopSidecars ==
    /\ shim = "stopping" /\ shim' = "stopped"
    /\ alive' = After(Held(own))
    /\ UNCHANGED <<launch, files, stuck, vmm, status, degraded, idx, own, lost, faults>>

\* With every sidecar gone the final state is written and the directory
\* removed; otherwise the evidence stays and the machine is failed.
Finish ==
    /\ shim = "stopped" /\ shim' = "none" /\ own' = Nobody
    /\ \/ /\ Held(own) \cap alive = {}
          /\ status' = "stopped" /\ degraded' = {}
          /\ state' = Nobody /\ ident' = Nobody /\ sock' = Nobody /\ dir' = FALSE
       \/ /\ Held(own) \cap alive # {}
          /\ status' = "failed"
          /\ UNCHANGED <<state, ident, sock, dir, degraded>>
    /\ UNCHANGED <<launch, procs, idx, lost, faults>>

-----------------------------------------------------------------------------
(* recover_sidecar_processes, for a replacement shim or for a stop of an   *)
(* unsupervised VMM.                                                       *)

Candidates(i) == IF state[i] # 0 THEN Scan(i) \cap {state[i]} ELSE Scan(i)

Unambiguous == \A i \in Side : Single(Candidates(i))
Found == [i \in Side |-> IF Candidates(i) = {} THEN 0 ELSE CHOOSE l \in Candidates(i) : TRUE]

Missing == {i \in Side : Found[i] = 0 /\ (state[i] # 0 \/ ident[i] # 0)}

\* A replacement shim adopts what it finds; what is missing degrades a
\* running machine and ends an incomplete launch.
Recover ==
    /\ shim = "none" /\ vmm # 0 /\ status \in {"starting", "running"} /\ Unambiguous
    /\ own' = Found /\ state' = Found /\ ident' = Found
    /\ IF status = "starting" /\ Missing # {}
       THEN /\ shim' = "stopping" /\ vmm' = 0 /\ status' = "stopping" /\ UNCHANGED degraded
       ELSE /\ shim' = "up" /\ status' = "running" /\ degraded' = degraded \cup Missing
            /\ UNCHANGED vmm
    /\ UNCHANGED <<launch, sock, dir, alive, stuck, idx, lost, faults>>

\* stop_unsupervised, under the machine lock.
StopUnsupervised ==
    /\ shim = "none" /\ vmm # 0 /\ Unambiguous
    /\ vmm' = 0
    /\ alive' = After(Held(Found))
    /\ IF Held(Found) \cap stuck = {}
       THEN /\ status' = "stopped" /\ degraded' = {}
            /\ state' = Nobody /\ ident' = Nobody /\ sock' = Nobody /\ dir' = FALSE
       ELSE /\ status' = "stopping" /\ state' = Found
            /\ UNCHANGED <<degraded, ident, sock, dir>>
    /\ UNCHANGED <<launch, stuck, shim, idx, own, lost, faults>>

-----------------------------------------------------------------------------
(* Faults.                                                                 *)

\* A sidecar exits on its own; --one-off makes it do so once its VMM left.
Exit ==
    /\ \E p \in alive \ stuck : alive' = alive \ {p}
    /\ UNCHANGED <<launch, files, stuck, vmm, status, degraded, shim, idx, own, lost, faults>>

VmmExit ==
    /\ vmm # 0 /\ vmm' = 0
    /\ UNCHANGED <<launch, files, alive, stuck, status, degraded, shim, idx, own, lost, faults>>

Fault == faults < MaxFaults /\ faults' = faults + 1

Sticks ==
    /\ Fault /\ \E p \in alive \ stuck : stuck' = stuck \cup {p}
    /\ UNCHANGED <<launch, files, alive, vmm, status, degraded, shim, idx, own, lost>>
Unsticks ==
    /\ \E p \in stuck : stuck' = stuck \ {p}
    /\ UNCHANGED <<launch, files, alive, vmm, status, degraded, shim, idx, own, lost, faults>>

\* SIGKILL of the shim; its children live on.
ShimDies ==
    /\ Fault /\ shim # "none"
    /\ shim' = "none" /\ own' = Nobody
    /\ lost' = IF shim \in {"spawned", "recorded", "survey"}
               THEN lost \cup ({<<idx, launch>>} \cap alive) ELSE lost
    /\ UNCHANGED <<launch, files, procs, status, degraded, idx>>

Next ==
    \/ Start \/ Reconcile \/ Spawn \/ RecordState \/ RecordIdentity \/ Listen \/ Ready
    \/ SpawnVmm \/ LaunchDone \/ Rollback \/ Survey
    \/ Notice \/ Report \/ StopVmm \/ StopSidecars \/ Finish
    \/ Recover \/ StopUnsupervised
    \/ Exit \/ VmmExit \/ Sticks \/ Unsticks \/ ShimDies

Spec == Init /\ [][Next]_vars

-----------------------------------------------------------------------------
(* Properties.                                                             *)

\* The types of all variables.
TypeOK ==
    /\ launch \in 0..MaxLaunch /\ vmm \in 0..MaxLaunch /\ faults \in 0..MaxFaults
    /\ alive \subseteq Side \X Launch /\ stuck \subseteq Side \X Launch
    /\ lost \subseteq Side \X Launch
    /\ {sock, state, ident, own} \subseteq [Side -> 0..MaxLaunch]
    /\ status \in {"created", "starting", "running", "stopping", "stopped", "failed"}
    /\ degraded \subseteq Side /\ dir \in BOOLEAN /\ idx \in 1..(N + 1)
    /\ shim \in Launching \cup {"none", "survey", "up", "notice", "stopping", "stopped"}

\* A live sidecar is named by the identity file, whatever failed or died,
\* unless its shim was killed in the middle of spawning it or a survey could
\* not tell it from the process of an earlier launch.
AliveIsRecorded ==
    \A p \in alive :
        \/ ident[p[1]] = p[2] \/ p \in lost
        \/ shim \in {"spawned", "recorded", "survey"} /\ p = <<idx, launch>>

\* While a shim supervises a running machine every sidecar of the launch is
\* alive, about to be noticed, or reported in `degraded`: no device backend
\* fails silently, also across a replacement of the shim.
FailureIsReported ==
    shim = "up" /\ status = "running" =>
        \A i \in Side : <<i, launch>> \in alive \/ own[i] = launch \/ i \in degraded

\* A machine whose runtime directory is gone has no sidecar left.
GoneIsGone == ~dir => alive \subseteq lost

-----------------------------------------------------------------------------
(* The inductive invariant behind them.                                    *)

\* What the shim holds is what the identity file names; every process is of a
\* launch that was.
HeldInv ==
    /\ launch \in Nat /\ launch <= MaxLaunch /\ idx \in Nat /\ idx > 0
    /\ alive \subseteq Side \X (1..launch)
    /\ state \in [Side -> Nat] /\ ident \in [Side -> Nat] /\ own \in [Side -> Nat]
    /\ shim = "none" => own = Nobody
    /\ shim # "none" => own = ident
    /\ shim # "none" \/ vmm # 0 => dir /\ launch > 0
    /\ shim \in {"stopping", "stopped", "survey"} => vmm = 0
    /\ shim = "notice" => idx \in Side /\ own[idx] = 0

\* How far a launch has come.
LaunchInv ==
    shim \in Launching =>
        /\ launch > 0
        /\ \A p \in alive : p \in lost \/ p[2] = launch
        /\ \A i \in Side : state[i] \in {0, launch} /\ ident[i] \in {0, launch}
        /\ \A i \in Side : i < idx => own[i] = launch /\ state[i] = launch
        /\ shim \in {"spawned", "recorded", "waiting"} => idx \in Side
        /\ shim \in {"recorded", "waiting"} => state[idx] = launch
        /\ shim = "waiting" => own[idx] = launch
        /\ shim = "vmm" => idx > N

\* While there is a VMM, state.json names what the identity file does, and
\* whatever it does not name is reported.
RecordInv ==
    /\ vmm # 0 \/ shim \in Launching => \A i \in Side : ident[i] # 0 => state[i] = ident[i]
    /\ vmm # 0 /\ status \in {"starting", "running"} => \A i \in Side : state[i] = launch \/ i \in degraded
    /\ shim \in {"up", "notice"} /\ status = "running" =>
           \A i \in Side : own[i] = launch \/ i \in degraded \/ (shim = "notice" /\ i = idx)

Inv == HeldInv /\ LaunchInv /\ RecordInv /\ AliveIsRecorded /\ GoneIsGone

=============================================================================
