--------------------------------- MODULE Processes --------------------------
(***************************************************************************)
(* Firestone's processes and the ones it looks after: sidecars, trees of   *)
(* processes, commands, the shim's control socket and console, logs, the   *)
(* server, PID 1 of a guest, installation and removal.  The parts share no *)
(* variables; a behaviour is one of a single part, chosen in Init (compare *)
(* Artifacts).                                                             *)
(***************************************************************************)
EXTENDS Naturals, Sequences, FiniteSets, SequenceTheorems, FiniteSetTheorems, WellFoundedInduction, TLC, TLAPS

CONSTANTS
    Parts,          \* the parts to run
    Live,           \* whether this is the fair run
    Peer,           \* interchangeable clients and processes
    Orphan,         \* processes a guest's entrypoint leaves behind
    Old, New,       \* a process of an older and one of a newer build
    Nil, Empty,
    MaxLaunch,      \* launches of the sidecars
    MaxProcs,       \* incarnations of processes
    MaxOut,         \* bytes a guest or a command writes
    MaxTyped,       \* bytes a client types
    MaxBytes,       \* bytes of a log
    MaxLen,         \* bytes through the filter
    MaxEvents       \* events of an action

VARIABLE component                                  \* the part that runs
\* The variables of that part, in the order its module declares them; the rest are Off.
VARIABLES v1, v2, v3, v4, v5, v6, v7, v8, v9, v10, v11, v12, v13, v14, v15, v16, v17, v18, v19, v20, v21, v22

vars == <<component, v1, v2, v3, v4, v5, v6, v7, v8, v9, v10, v11, v12, v13, v14, v15, v16, v17, v18, v19, v20, v21, v22>>

Off == "off"
Blank19 == v20 = Off /\ v21 = Off /\ v22 = Off
Spare19 == <<v20, v21, v22>>
Blank18 == v19 = Off /\ Blank19
Spare18 == <<v19, Spare19>>
Blank15 == v16 = Off /\ v17 = Off /\ v18 = Off /\ Blank18
Spare15 == <<v16, v17, v18, Spare18>>
Blank14 == v15 = Off /\ Blank15
Spare14 == <<v15, Spare15>>
Blank13 == v14 = Off /\ Blank14
Spare13 == <<v14, Spare14>>
Blank11 == v12 = Off /\ v13 = Off /\ Blank13
Spare11 == <<v12, v13, Spare13>>
Blank9 == v10 = Off /\ v11 = Off /\ Blank11
Spare9 == <<v10, v11, Spare11>>
Blank8 == v9 = Off /\ Blank9
Spare8 == <<v9, Spare9>>
Blank7 == v8 = Off /\ Blank8
Spare7 == <<v8, Spare8>>

Symmetry == Permutations(Peer)

\* The fair run has smaller data, and none of what the parts' promises exclude.
Either(live, safe) == IF Live THEN live ELSE safe

\* passt and one virtiofsd.
Sides == INSTANCE Sidecars WITH
    N <- 2, MaxLaunch <- MaxLaunch, MaxFaults <- 3,
    launch <- v1, alive <- v2, stuck <- v3, sock <- v4, state <- v5, ident <- v6, status <- v7, degraded <- v8,
    dir <- v9, vmm <- v10, shim <- v11, idx <- v12, own <- v13, lost <- v14, faults <- v15

\* Launches are counted.
LaunchesAreCounted == MaxLaunch \in Nat

\* A sidecar that lives is of a launch there has been, and the scan of /proc sees it.
LEMMA SidecarsProcess ==
  ASSUME LaunchesAreCounted, Sides!HeldInv, NEW p \in v2
  PROVE  /\ p[1] \in Sides!Side /\ p[2] \in 1..v1 /\ p[2] # 0 /\ p[2] \in Nat /\ p = <<p[1], p[2]>>
         /\ p[2] \in Sides!Scan(p[1]) /\ \A i \in Sides!Side : Sides!Scan(i) \subseteq 1..v1
<1>1. p \in Sides!Side \X (1..v1) /\ v1 \in Nat /\ v1 <= MaxLaunch
  BY DEF Sides!HeldInv
<1>2. p[1] \in Sides!Side /\ p[2] \in 1..v1 /\ p[2] # 0 /\ p[2] \in Nat /\ p = <<p[1], p[2]>>
  BY <1>1
<1>3. p[2] \in Sides!Scan(p[1])
  BY <1>1, <1>2 DEF Sides!Scan, Sides!Launch, LaunchesAreCounted
<1>4. \A i \in Sides!Side : Sides!Scan(i) \subseteq 1..v1
  BY DEF Sides!Scan, Sides!HeldInv
<1> QED BY <1>2, <1>3, <1>4
\* A record holds a sidecar exactly when it names its launch.
LEMMA SidecarsHeld ==
  ASSUME NEW f, NEW i \in Sides!Side, NEW l, l # 0
  PROVE  <<i, l>> \in Sides!Held(f) <=> f[i] = l
BY DEF Sides!Held
\* The empty record names nobody.
LEMMA SidecarsNobody == Sides!Nobody \in [Sides!Side -> Nat] /\ \A i \in Sides!Side : Sides!Nobody[i] = 0
BY DEF Sides!Nobody
\* Stopping sidecars ends them all, but those that are stuck.
LEMMA SidecarsAfter ==
  ASSUME NEW ps
  PROVE  /\ Sides!After(ps) \subseteq v2 /\ v2 \ ps \subseteq Sides!After(ps)
         /\ ps \cap v3 = {} => Sides!After(ps) = v2 \ ps
BY DEF Sides!After
\* Evidence that is unambiguous names every sidecar that lives, and none but the recorded ones.
LEMMA SidecarsFound ==
  ASSUME LaunchesAreCounted, Sides!HeldInv, Sides!RecordInv, Sides!AliveIsRecorded, Sides!Unambiguous, v11 = "none", v10 # 0
  PROVE  /\ Sides!Found \in [Sides!Side -> Nat]
         /\ \A i \in Sides!Side : Sides!Found[i] # 0 /\ v5[i] # 0 => Sides!Found[i] = v5[i]
         /\ \A p \in v2 : p \in v14 \/ Sides!Found[p[1]] = p[2]
<1>1. /\ v5 \in [Sides!Side -> Nat] /\ v6 \in [Sides!Side -> Nat]
      /\ \A i \in Sides!Side : v6[i] # 0 => v5[i] = v6[i]
      /\ \A p \in v2 : p \in v14 \/ v6[p[1]] = p[2]
  BY DEF Sides!HeldInv, Sides!RecordInv, Sides!AliveIsRecorded
<1>2. \A i \in Sides!Side : Sides!Candidates(i) \subseteq 1..v1 /\ v1 \in Nat
  BY DEF Sides!Candidates, Sides!Scan, Sides!HeldInv
<1>3. ASSUME NEW i \in Sides!Side
      PROVE  /\ Sides!Found[i] \in Nat
             /\ Sides!Found[i] # 0 => Sides!Found[i] \in Sides!Candidates(i)
             /\ \A l \in Sides!Candidates(i) : Sides!Found[i] = l
  <2>1. CASE Sides!Candidates(i) = {}
    BY <2>1 DEF Sides!Found
  <2>2. CASE Sides!Candidates(i) # {}
    <3>1. Sides!Found[i] \in Sides!Candidates(i)
      BY <2>2 DEF Sides!Found
    <3>2. \A l \in Sides!Candidates(i) : Sides!Found[i] = l
      BY <3>1 DEF Sides!Unambiguous, Sides!Single
    <3> QED BY <1>2, <3>1, <3>2
  <2> QED BY <2>1, <2>2
<1>4. DOMAIN Sides!Found = Sides!Side /\ Sides!Found = [i \in Sides!Side |-> Sides!Found[i]]
  BY DEF Sides!Found
<1>5. \A i \in Sides!Side : Sides!Found[i] # 0 /\ v5[i] # 0 => Sides!Found[i] = v5[i]
  BY <1>3 DEF Sides!Candidates
<1>6. ASSUME NEW p \in v2, p \notin v14 PROVE Sides!Found[p[1]] = p[2]
  <2>1. p[1] \in Sides!Side /\ p[2] # 0 /\ p[2] \in Sides!Scan(p[1]) /\ v6[p[1]] = p[2]
    BY <1>1, <1>6, SidecarsProcess
  <2>2. v5[p[1]] = p[2]
    BY <1>1, <2>1
  <2>3. p[2] \in Sides!Candidates(p[1])
    BY <2>1, <2>2 DEF Sides!Candidates
  <2> QED BY <1>3, <2>1, <2>3
<1> QED BY <1>3, <1>4, <1>5, <1>6
\* When the identity file holds none of the living, all of the living have been reported.
LEMMA SidecarsGone ==
  ASSUME LaunchesAreCounted, Sides!HeldInv, Sides!AliveIsRecorded, Sides!Held(v6) \cap v2 = {},
         v11 \notin {"spawned", "recorded", "survey"}
  PROVE  v2 \subseteq v14
<1> SUFFICES ASSUME NEW p \in v2, p \notin v14 PROVE FALSE
  OBVIOUS
<1>1. v6[p[1]] = p[2] /\ p[1] \in Sides!Side /\ p[2] # 0 /\ p = <<p[1], p[2]>>
  BY SidecarsProcess DEF Sides!AliveIsRecorded
<1>2. p \in Sides!Held(v6)
  BY <1>1, SidecarsHeld
<1> QED BY <1>2
\* What still lives when a launch starts has been reported.
LEMMA SidecarsStart ==
  ASSUME LaunchesAreCounted, Sides!HeldInv, Sides!AliveIsRecorded, Sides!GoneIsGone, Sides!Start
  PROVE  v2' \subseteq v14
<1> SUFFICES ASSUME NEW p \in v2', p \notin v14 PROVE FALSE
  OBVIOUS
<1>1. v11 = "none" /\ v2' = IF v9 THEN v2 \ Sides!Held(v6) ELSE v2
  BY DEF Sides!Start
<1>2. p \in v2 /\ v9
  BY <1>1 DEF Sides!GoneIsGone
<1>3. v6[p[1]] = p[2] /\ p[1] \in Sides!Side /\ p[2] # 0 /\ p = <<p[1], p[2]>>
  BY <1>1, <1>2, SidecarsProcess DEF Sides!AliveIsRecorded
<1>4. p \in Sides!Held(v6)
  BY <1>3, SidecarsHeld
<1> QED BY <1>1, <1>2, <1>4
\* What an unsupervised stop leaves alive when it drops the record or the directory has been
\* reported.
LEMMA SidecarsStopped ==
  ASSUME LaunchesAreCounted, Sides!HeldInv, Sides!RecordInv, Sides!AliveIsRecorded, Sides!StopUnsupervised,
         v6' # v6 \/ v9' # v9
  PROVE  v2' \subseteq v14
<1> SUFFICES ASSUME NEW p \in v2', p \notin v14 PROVE FALSE
  OBVIOUS
<1>1. v11 = "none" /\ v10 # 0 /\ Sides!Unambiguous /\ v2' = Sides!After(Sides!Held(Sides!Found)) /\ Sides!Held(Sides!Found) \cap v3 = {}
  BY DEF Sides!StopUnsupervised
<1>2. p \in v2 /\ p \notin Sides!Held(Sides!Found)
  BY <1>1, SidecarsAfter
<1>3. Sides!Found[p[1]] = p[2] /\ p[1] \in Sides!Side /\ p[2] # 0 /\ p = <<p[1], p[2]>>
  BY <1>1, <1>2, SidecarsFound, SidecarsProcess
<1>4. p \in Sides!Held(Sides!Found)
  BY <1>3, SidecarsHeld
<1> QED BY <1>2, <1>4
\* A survey that finds at most one process for each sidecar names every one that lives.
LEMMA SidecarsSurveyed ==
  ASSUME LaunchesAreCounted, Sides!HeldInv
  PROVE  /\ Sides!Surveyed \in [Sides!Side -> Nat]
         /\ (\A i \in Sides!Side : Sides!Single(Sides!Scan(i))) => \A p \in v2 : Sides!Surveyed[p[1]] = p[2]
<1>1. v6 \in [Sides!Side -> Nat] /\ v1 \in Nat /\ \A i \in Sides!Side : Sides!Scan(i) \subseteq 1..v1
  BY DEF Sides!HeldInv, Sides!Scan
<1>2. ASSUME NEW i \in Sides!Side
      PROVE  Sides!Surveyed[i] \in Nat /\ (Sides!Scan(i) # {} => Sides!Surveyed[i] \in Sides!Scan(i))
  <2>1. CASE Sides!Scan(i) = {}
    BY <1>1, <2>1 DEF Sides!Surveyed
  <2>2. CASE Sides!Scan(i) # {}
    <3> DEFINE k == CHOOSE l \in Sides!Scan(i) : TRUE
    <3>1. k \in Sides!Scan(i)
      BY <2>2
    <3>2. Sides!Surveyed[i] = IF v6[i] \in Sides!Scan(i) THEN v6[i] ELSE k
      BY <2>2 DEF Sides!Surveyed
    <3> HIDE DEF k
    <3> QED BY <1>1, <3>1, <3>2
  <2> QED BY <2>1, <2>2
<1>3. Sides!Surveyed \in [Sides!Side -> Nat]
  BY <1>2 DEF Sides!Surveyed
<1>4. ASSUME \A i \in Sides!Side : Sides!Single(Sides!Scan(i)), NEW p \in v2 PROVE Sides!Surveyed[p[1]] = p[2]
  <2>1. p[1] \in Sides!Side /\ p[2] \in Sides!Scan(p[1]) /\ Sides!Scan(p[1]) \in SUBSET (1..v1)
    BY <1>1, SidecarsProcess
  <2>2. Sides!Surveyed[p[1]] \in Sides!Scan(p[1])
    BY <1>2, <2>1
  <2> QED BY <1>4, <2>1, <2>2 DEF Sides!Single
<1> QED BY <1>3, <1>4

\* The invariant of the sidecars holds at first.
LEMMA SidecarsBegin == LaunchesAreCounted /\ Sides!Init => Sides!Inv
BY SidecarsNobody DEF LaunchesAreCounted, Sides!Init, Sides!Inv, Sides!HeldInv, Sides!LaunchInv,
       Sides!RecordInv,
       Sides!AliveIsRecorded, Sides!GoneIsGone, Sides!Launching

\* Every step of the sidecars keeps it.
LEMMA SidecarsStepInv ==
  ASSUME LaunchesAreCounted, Sides!Inv, [Sides!Next]_(Sides!vars)
  PROVE  Sides!Inv'
<1> USE DEF Sides!files, Sides!procs, Sides!Nobody, Sides!Active, Sides!Launching
<1>1. CASE UNCHANGED Sides!vars
  BY <1>1 DEF Sides!vars, Sides!Inv, Sides!HeldInv, Sides!Side, Sides!Launch, Sides!LaunchInv,
         Sides!RecordInv, Sides!AliveIsRecorded, Sides!GoneIsGone
<1>2. CASE Sides!Reconcile
  <2>1. Sides!HeldInv'
    BY <1>2 DEF Sides!Reconcile, Sides!Inv, Sides!HeldInv, Sides!LaunchInv, Sides!RecordInv,
           Sides!AliveIsRecorded, Sides!GoneIsGone, Sides!Side, Sides!Launch
  <2>2. Sides!LaunchInv'
    BY <1>2 DEF Sides!Reconcile, Sides!Inv, Sides!HeldInv, Sides!LaunchInv, Sides!RecordInv,
           Sides!AliveIsRecorded, Sides!GoneIsGone, Sides!Side
  <2>3. Sides!RecordInv'
    BY <1>2 DEF Sides!Reconcile, Sides!Inv, Sides!HeldInv, Sides!LaunchInv, Sides!RecordInv,
           Sides!AliveIsRecorded, Sides!GoneIsGone, Sides!Side
  <2>4. Sides!AliveIsRecorded'
    BY <1>2 DEF Sides!Reconcile, Sides!Inv, Sides!HeldInv, Sides!LaunchInv, Sides!RecordInv,
           Sides!AliveIsRecorded, Sides!GoneIsGone, Sides!Side
  <2>5. Sides!GoneIsGone'
    BY <1>2 DEF Sides!Reconcile, Sides!Inv, Sides!HeldInv, Sides!LaunchInv, Sides!RecordInv,
           Sides!AliveIsRecorded, Sides!GoneIsGone
  <2> QED BY <2>1, <2>2, <2>3, <2>4, <2>5 DEF Sides!Inv
<1>3. CASE Sides!Spawn
  <2>1. Sides!HeldInv'
    BY <1>3 DEF Sides!Spawn, Sides!Inv, Sides!HeldInv, Sides!LaunchInv, Sides!RecordInv,
           Sides!AliveIsRecorded, Sides!GoneIsGone, Sides!Side, Sides!Launch
  <2>2. Sides!LaunchInv'
    BY <1>3 DEF Sides!Spawn, Sides!Inv, Sides!HeldInv, Sides!LaunchInv, Sides!RecordInv,
           Sides!AliveIsRecorded, Sides!GoneIsGone, Sides!Side
  <2>3. Sides!RecordInv'
    BY <1>3 DEF Sides!Spawn, Sides!Inv, Sides!HeldInv, Sides!LaunchInv, Sides!RecordInv,
           Sides!AliveIsRecorded, Sides!GoneIsGone, Sides!Side
  <2>4. Sides!AliveIsRecorded'
    BY <1>3 DEF Sides!Spawn, Sides!Inv, Sides!HeldInv, Sides!LaunchInv, Sides!RecordInv,
           Sides!AliveIsRecorded, Sides!GoneIsGone, Sides!Side
  <2>5. Sides!GoneIsGone'
    BY <1>3 DEF Sides!Spawn, Sides!Inv, Sides!HeldInv, Sides!LaunchInv, Sides!RecordInv,
           Sides!AliveIsRecorded, Sides!GoneIsGone
  <2> QED BY <2>1, <2>2, <2>3, <2>4, <2>5 DEF Sides!Inv
<1>4. CASE Sides!RecordState
  <2>1. Sides!HeldInv'
    BY <1>4 DEF Sides!RecordState, Sides!Inv, Sides!HeldInv, Sides!LaunchInv, Sides!RecordInv,
           Sides!AliveIsRecorded, Sides!GoneIsGone, Sides!Side, Sides!Launch
  <2>2. Sides!LaunchInv'
    BY <1>4 DEF Sides!RecordState, Sides!Inv, Sides!HeldInv, Sides!LaunchInv, Sides!RecordInv,
           Sides!AliveIsRecorded, Sides!GoneIsGone, Sides!Side
  <2>3. Sides!RecordInv'
    BY <1>4 DEF Sides!RecordState, Sides!Inv, Sides!HeldInv, Sides!LaunchInv, Sides!RecordInv,
           Sides!AliveIsRecorded, Sides!GoneIsGone, Sides!Side
  <2>4. Sides!AliveIsRecorded'
    BY <1>4 DEF Sides!RecordState, Sides!Inv, Sides!HeldInv, Sides!LaunchInv, Sides!RecordInv,
           Sides!AliveIsRecorded, Sides!GoneIsGone, Sides!Side
  <2>5. Sides!GoneIsGone'
    BY <1>4 DEF Sides!RecordState, Sides!Inv, Sides!HeldInv, Sides!LaunchInv, Sides!RecordInv,
           Sides!AliveIsRecorded, Sides!GoneIsGone
  <2> QED BY <2>1, <2>2, <2>3, <2>4, <2>5 DEF Sides!Inv
<1>5. CASE Sides!RecordIdentity
  <2>1. Sides!HeldInv'
    BY <1>5 DEF Sides!RecordIdentity, Sides!Inv, Sides!HeldInv, Sides!LaunchInv, Sides!RecordInv,
           Sides!AliveIsRecorded, Sides!GoneIsGone, Sides!Side, Sides!Launch
  <2>2. Sides!LaunchInv'
    BY <1>5 DEF Sides!RecordIdentity, Sides!Inv, Sides!HeldInv, Sides!LaunchInv, Sides!RecordInv,
           Sides!AliveIsRecorded, Sides!GoneIsGone, Sides!Side
  <2>3. Sides!RecordInv'
    BY <1>5 DEF Sides!RecordIdentity, Sides!Inv, Sides!HeldInv, Sides!LaunchInv, Sides!RecordInv,
           Sides!AliveIsRecorded, Sides!GoneIsGone, Sides!Side
  <2>4. Sides!AliveIsRecorded'
    BY <1>5 DEF Sides!RecordIdentity, Sides!Inv, Sides!HeldInv, Sides!LaunchInv, Sides!RecordInv,
           Sides!AliveIsRecorded, Sides!GoneIsGone, Sides!Side
  <2>5. Sides!GoneIsGone'
    BY <1>5 DEF Sides!RecordIdentity, Sides!Inv, Sides!HeldInv, Sides!LaunchInv, Sides!RecordInv,
           Sides!AliveIsRecorded, Sides!GoneIsGone
  <2> QED BY <2>1, <2>2, <2>3, <2>4, <2>5 DEF Sides!Inv
<1>6. CASE Sides!Listen
  <2>1. Sides!HeldInv'
    BY <1>6 DEF Sides!Listen, Sides!Inv, Sides!HeldInv, Sides!LaunchInv, Sides!RecordInv,
           Sides!AliveIsRecorded, Sides!GoneIsGone, Sides!Side, Sides!Launch
  <2>2. Sides!LaunchInv'
    BY <1>6 DEF Sides!Listen, Sides!Inv, Sides!HeldInv, Sides!LaunchInv, Sides!RecordInv,
           Sides!AliveIsRecorded, Sides!GoneIsGone, Sides!Side
  <2>3. Sides!RecordInv'
    BY <1>6 DEF Sides!Listen, Sides!Inv, Sides!HeldInv, Sides!LaunchInv, Sides!RecordInv,
           Sides!AliveIsRecorded, Sides!GoneIsGone, Sides!Side
  <2>4. Sides!AliveIsRecorded'
    BY <1>6 DEF Sides!Listen, Sides!Inv, Sides!HeldInv, Sides!LaunchInv, Sides!RecordInv,
           Sides!AliveIsRecorded, Sides!GoneIsGone, Sides!Side
  <2>5. Sides!GoneIsGone'
    BY <1>6 DEF Sides!Listen, Sides!Inv, Sides!HeldInv, Sides!LaunchInv, Sides!RecordInv,
           Sides!AliveIsRecorded, Sides!GoneIsGone
  <2> QED BY <2>1, <2>2, <2>3, <2>4, <2>5 DEF Sides!Inv
<1>7. CASE Sides!SpawnVmm
  <2>1. Sides!HeldInv'
    BY <1>7 DEF Sides!SpawnVmm, Sides!Inv, Sides!HeldInv, Sides!LaunchInv, Sides!RecordInv,
           Sides!AliveIsRecorded, Sides!GoneIsGone, Sides!Side, Sides!Launch
  <2>2. Sides!LaunchInv'
    BY <1>7 DEF Sides!SpawnVmm, Sides!Inv, Sides!HeldInv, Sides!LaunchInv, Sides!RecordInv,
           Sides!AliveIsRecorded, Sides!GoneIsGone, Sides!Side
  <2>3. Sides!RecordInv'
    BY <1>7 DEF Sides!SpawnVmm, Sides!Inv, Sides!HeldInv, Sides!LaunchInv, Sides!RecordInv,
           Sides!AliveIsRecorded, Sides!GoneIsGone, Sides!Side
  <2>4. Sides!AliveIsRecorded'
    BY <1>7 DEF Sides!SpawnVmm, Sides!Inv, Sides!HeldInv, Sides!LaunchInv, Sides!RecordInv,
           Sides!AliveIsRecorded, Sides!GoneIsGone, Sides!Side
  <2>5. Sides!GoneIsGone'
    BY <1>7 DEF Sides!SpawnVmm, Sides!Inv, Sides!HeldInv, Sides!LaunchInv, Sides!RecordInv,
           Sides!AliveIsRecorded, Sides!GoneIsGone
  <2> QED BY <2>1, <2>2, <2>3, <2>4, <2>5 DEF Sides!Inv
<1>8. CASE Sides!LaunchDone
  <2>1. Sides!HeldInv'
    BY <1>8 DEF Sides!LaunchDone, Sides!Inv, Sides!HeldInv, Sides!LaunchInv, Sides!RecordInv,
           Sides!AliveIsRecorded, Sides!GoneIsGone, Sides!Side, Sides!Launch
  <2>2. Sides!LaunchInv'
    BY <1>8 DEF Sides!LaunchDone, Sides!Inv, Sides!HeldInv, Sides!LaunchInv, Sides!RecordInv,
           Sides!AliveIsRecorded, Sides!GoneIsGone, Sides!Side
  <2>3. Sides!RecordInv'
    BY <1>8 DEF Sides!LaunchDone, Sides!Inv, Sides!HeldInv, Sides!LaunchInv, Sides!RecordInv,
           Sides!AliveIsRecorded, Sides!GoneIsGone, Sides!Side
  <2>4. Sides!AliveIsRecorded'
    BY <1>8 DEF Sides!LaunchDone, Sides!Inv, Sides!HeldInv, Sides!LaunchInv, Sides!RecordInv,
           Sides!AliveIsRecorded, Sides!GoneIsGone, Sides!Side
  <2>5. Sides!GoneIsGone'
    BY <1>8 DEF Sides!LaunchDone, Sides!Inv, Sides!HeldInv, Sides!LaunchInv, Sides!RecordInv,
           Sides!AliveIsRecorded, Sides!GoneIsGone
  <2> QED BY <2>1, <2>2, <2>3, <2>4, <2>5 DEF Sides!Inv
<1>9. CASE Sides!Notice
  <2>1. Sides!HeldInv'
    BY <1>9 DEF Sides!Notice, Sides!Inv, Sides!HeldInv, Sides!LaunchInv, Sides!RecordInv,
           Sides!AliveIsRecorded, Sides!GoneIsGone, Sides!Side, Sides!Launch
  <2>2. Sides!LaunchInv'
    BY <1>9 DEF Sides!Notice, Sides!Inv, Sides!HeldInv, Sides!LaunchInv, Sides!RecordInv,
           Sides!AliveIsRecorded, Sides!GoneIsGone, Sides!Side
  <2>3. Sides!RecordInv'
    BY <1>9 DEF Sides!Notice, Sides!Inv, Sides!HeldInv, Sides!LaunchInv, Sides!RecordInv,
           Sides!AliveIsRecorded, Sides!GoneIsGone, Sides!Side
  <2>4. Sides!AliveIsRecorded'
    BY <1>9 DEF Sides!Notice, Sides!Inv, Sides!HeldInv, Sides!LaunchInv, Sides!RecordInv,
           Sides!AliveIsRecorded, Sides!GoneIsGone, Sides!Side
  <2>5. Sides!GoneIsGone'
    BY <1>9 DEF Sides!Notice, Sides!Inv, Sides!HeldInv, Sides!LaunchInv, Sides!RecordInv,
           Sides!AliveIsRecorded, Sides!GoneIsGone
  <2> QED BY <2>1, <2>2, <2>3, <2>4, <2>5 DEF Sides!Inv
<1>10. CASE Sides!Report
  <2>1. Sides!HeldInv'
    BY <1>10 DEF Sides!Report, Sides!Inv, Sides!HeldInv, Sides!LaunchInv, Sides!RecordInv,
           Sides!AliveIsRecorded, Sides!GoneIsGone, Sides!Side, Sides!Launch
  <2>2. Sides!LaunchInv'
    BY <1>10 DEF Sides!Report, Sides!Inv, Sides!HeldInv, Sides!LaunchInv, Sides!RecordInv,
           Sides!AliveIsRecorded, Sides!GoneIsGone, Sides!Side
  <2>3. Sides!RecordInv'
    BY <1>10 DEF Sides!Report, Sides!Inv, Sides!HeldInv, Sides!LaunchInv, Sides!RecordInv,
           Sides!AliveIsRecorded, Sides!GoneIsGone, Sides!Side
  <2>4. Sides!AliveIsRecorded'
    BY <1>10 DEF Sides!Report, Sides!Inv, Sides!HeldInv, Sides!LaunchInv, Sides!RecordInv,
           Sides!AliveIsRecorded, Sides!GoneIsGone, Sides!Side
  <2>5. Sides!GoneIsGone'
    BY <1>10 DEF Sides!Report, Sides!Inv, Sides!HeldInv, Sides!LaunchInv, Sides!RecordInv,
           Sides!AliveIsRecorded, Sides!GoneIsGone
  <2> QED BY <2>1, <2>2, <2>3, <2>4, <2>5 DEF Sides!Inv
<1>11. CASE Sides!StopVmm
  <2>1. Sides!HeldInv'
    BY <1>11 DEF Sides!StopVmm, Sides!Inv, Sides!HeldInv, Sides!LaunchInv, Sides!RecordInv,
           Sides!AliveIsRecorded, Sides!GoneIsGone, Sides!Side, Sides!Launch
  <2>2. Sides!LaunchInv'
    BY <1>11 DEF Sides!StopVmm, Sides!Inv, Sides!HeldInv, Sides!LaunchInv, Sides!RecordInv,
           Sides!AliveIsRecorded, Sides!GoneIsGone, Sides!Side
  <2>3. Sides!RecordInv'
    BY <1>11 DEF Sides!StopVmm, Sides!Inv, Sides!HeldInv, Sides!LaunchInv, Sides!RecordInv,
           Sides!AliveIsRecorded, Sides!GoneIsGone, Sides!Side
  <2>4. Sides!AliveIsRecorded'
    BY <1>11 DEF Sides!StopVmm, Sides!Inv, Sides!HeldInv, Sides!LaunchInv, Sides!RecordInv,
           Sides!AliveIsRecorded, Sides!GoneIsGone, Sides!Side
  <2>5. Sides!GoneIsGone'
    BY <1>11 DEF Sides!StopVmm, Sides!Inv, Sides!HeldInv, Sides!LaunchInv, Sides!RecordInv,
           Sides!AliveIsRecorded, Sides!GoneIsGone
  <2> QED BY <2>1, <2>2, <2>3, <2>4, <2>5 DEF Sides!Inv
<1>12. CASE Sides!StopSidecars
  <2>1. Sides!HeldInv'
    BY <1>12 DEF Sides!StopSidecars, Sides!After, Sides!Inv, Sides!HeldInv, Sides!LaunchInv, Sides!RecordInv,
           Sides!AliveIsRecorded, Sides!GoneIsGone, Sides!Side, Sides!Launch
  <2>2. Sides!LaunchInv'
    BY <1>12 DEF Sides!StopSidecars, Sides!After, Sides!Inv, Sides!HeldInv, Sides!LaunchInv, Sides!RecordInv,
           Sides!AliveIsRecorded, Sides!GoneIsGone, Sides!Side
  <2>3. Sides!RecordInv'
    BY <1>12 DEF Sides!StopSidecars, Sides!After, Sides!Inv, Sides!HeldInv, Sides!LaunchInv, Sides!RecordInv,
           Sides!AliveIsRecorded, Sides!GoneIsGone, Sides!Side
  <2>4. Sides!AliveIsRecorded'
    BY <1>12 DEF Sides!StopSidecars, Sides!After, Sides!Inv, Sides!HeldInv, Sides!LaunchInv, Sides!RecordInv,
           Sides!AliveIsRecorded, Sides!GoneIsGone, Sides!Side
  <2>5. Sides!GoneIsGone'
    BY <1>12 DEF Sides!StopSidecars, Sides!After, Sides!Inv, Sides!HeldInv, Sides!LaunchInv, Sides!RecordInv,
           Sides!AliveIsRecorded, Sides!GoneIsGone
  <2> QED BY <2>1, <2>2, <2>3, <2>4, <2>5 DEF Sides!Inv
<1>13. CASE Sides!Finish
  <2>1. Sides!HeldInv'
    <3>1. /\ UNCHANGED <<v1, v2, v10, v12>> /\ v11' = "none" /\ v13' = Sides!Nobody /\ v11 = "stopped"
          /\ v5' \in {v5, Sides!Nobody} /\ v6' \in {v6, Sides!Nobody}
      BY <1>13 DEF Sides!Finish
    <3> QED BY <3>1, SidecarsNobody DEF Sides!Inv, Sides!HeldInv
  <2>2. Sides!LaunchInv'
    BY <1>13 DEF Sides!Finish, Sides!Inv, Sides!HeldInv, Sides!LaunchInv, Sides!RecordInv,
           Sides!AliveIsRecorded, Sides!GoneIsGone, Sides!Side
  <2>3. Sides!RecordInv'
    BY <1>13 DEF Sides!Finish, Sides!Inv, Sides!HeldInv, Sides!LaunchInv, Sides!RecordInv,
           Sides!AliveIsRecorded, Sides!GoneIsGone, Sides!Side
  <2>4. Sides!AliveIsRecorded'
    <3>1. UNCHANGED <<v2, v14>> /\ v11 = "stopped"
      BY <1>13 DEF Sides!Finish
    <3>2. CASE UNCHANGED v6
      BY <1>13, <3>1, <3>2 DEF Sides!Inv, Sides!AliveIsRecorded
    <3>3. CASE ~UNCHANGED v6
      <4>1. Sides!Held(v13) \cap v2 = {} /\ v13 = v6
        BY <1>13, <3>3 DEF Sides!Finish, Sides!Inv, Sides!HeldInv
      <4>2. v2 \subseteq v14
        BY <3>1, <4>1, SidecarsGone DEF Sides!Inv
      <4> QED BY <3>1, <4>2 DEF Sides!AliveIsRecorded
    <3> QED BY <3>2, <3>3
  <2>5. Sides!GoneIsGone'
    <3>1. UNCHANGED <<v2, v14>> /\ v11 = "stopped" /\ v9
      BY <1>13 DEF Sides!Finish, Sides!Inv, Sides!HeldInv
    <3>2. CASE UNCHANGED v9
      BY <3>1, <3>2 DEF Sides!GoneIsGone
    <3>3. CASE ~UNCHANGED v9
      <4>1. Sides!Held(v13) \cap v2 = {} /\ v13 = v6
        BY <1>13, <3>3 DEF Sides!Finish, Sides!Inv, Sides!HeldInv
      <4>2. v2 \subseteq v14
        BY <3>1, <4>1, SidecarsGone DEF Sides!Inv
      <4> QED BY <3>1, <4>2 DEF Sides!GoneIsGone
    <3> QED BY <3>2, <3>3
  <2> QED BY <2>1, <2>2, <2>3, <2>4, <2>5 DEF Sides!Inv
<1>14. CASE Sides!Exit
  <2>1. Sides!HeldInv'
    BY <1>14 DEF Sides!Exit, Sides!Inv, Sides!HeldInv, Sides!LaunchInv, Sides!RecordInv,
           Sides!AliveIsRecorded, Sides!GoneIsGone, Sides!Side, Sides!Launch
  <2>2. Sides!LaunchInv'
    BY <1>14 DEF Sides!Exit, Sides!Inv, Sides!HeldInv, Sides!LaunchInv, Sides!RecordInv,
           Sides!AliveIsRecorded, Sides!GoneIsGone, Sides!Side
  <2>3. Sides!RecordInv'
    BY <1>14 DEF Sides!Exit, Sides!Inv, Sides!HeldInv, Sides!LaunchInv, Sides!RecordInv,
           Sides!AliveIsRecorded, Sides!GoneIsGone, Sides!Side
  <2>4. Sides!AliveIsRecorded'
    BY <1>14 DEF Sides!Exit, Sides!Inv, Sides!HeldInv, Sides!LaunchInv, Sides!RecordInv,
           Sides!AliveIsRecorded, Sides!GoneIsGone, Sides!Side
  <2>5. Sides!GoneIsGone'
    BY <1>14 DEF Sides!Exit, Sides!Inv, Sides!HeldInv, Sides!LaunchInv, Sides!RecordInv,
           Sides!AliveIsRecorded, Sides!GoneIsGone
  <2> QED BY <2>1, <2>2, <2>3, <2>4, <2>5 DEF Sides!Inv
<1>15. CASE Sides!VmmExit
  <2>1. Sides!HeldInv'
    BY <1>15 DEF Sides!VmmExit, Sides!Inv, Sides!HeldInv, Sides!LaunchInv, Sides!RecordInv,
           Sides!AliveIsRecorded, Sides!GoneIsGone, Sides!Side, Sides!Launch
  <2>2. Sides!LaunchInv'
    BY <1>15 DEF Sides!VmmExit, Sides!Inv, Sides!HeldInv, Sides!LaunchInv, Sides!RecordInv,
           Sides!AliveIsRecorded, Sides!GoneIsGone, Sides!Side
  <2>3. Sides!RecordInv'
    BY <1>15 DEF Sides!VmmExit, Sides!Inv, Sides!HeldInv, Sides!LaunchInv, Sides!RecordInv,
           Sides!AliveIsRecorded, Sides!GoneIsGone, Sides!Side
  <2>4. Sides!AliveIsRecorded'
    BY <1>15 DEF Sides!VmmExit, Sides!Inv, Sides!HeldInv, Sides!LaunchInv, Sides!RecordInv,
           Sides!AliveIsRecorded, Sides!GoneIsGone, Sides!Side
  <2>5. Sides!GoneIsGone'
    BY <1>15 DEF Sides!VmmExit, Sides!Inv, Sides!HeldInv, Sides!LaunchInv, Sides!RecordInv,
           Sides!AliveIsRecorded, Sides!GoneIsGone
  <2> QED BY <2>1, <2>2, <2>3, <2>4, <2>5 DEF Sides!Inv
<1>16. CASE Sides!Sticks
  <2>1. Sides!HeldInv'
    BY <1>16 DEF Sides!Sticks, Sides!Fault, Sides!Inv, Sides!HeldInv, Sides!LaunchInv, Sides!RecordInv,
           Sides!AliveIsRecorded, Sides!GoneIsGone, Sides!Side, Sides!Launch
  <2>2. Sides!LaunchInv'
    BY <1>16 DEF Sides!Sticks, Sides!Fault, Sides!Inv, Sides!HeldInv, Sides!LaunchInv, Sides!RecordInv,
           Sides!AliveIsRecorded, Sides!GoneIsGone, Sides!Side
  <2>3. Sides!RecordInv'
    BY <1>16 DEF Sides!Sticks, Sides!Fault, Sides!Inv, Sides!HeldInv, Sides!LaunchInv, Sides!RecordInv,
           Sides!AliveIsRecorded, Sides!GoneIsGone, Sides!Side
  <2>4. Sides!AliveIsRecorded'
    BY <1>16 DEF Sides!Sticks, Sides!Fault, Sides!Inv, Sides!HeldInv, Sides!LaunchInv, Sides!RecordInv,
           Sides!AliveIsRecorded, Sides!GoneIsGone, Sides!Side
  <2>5. Sides!GoneIsGone'
    BY <1>16 DEF Sides!Sticks, Sides!Fault, Sides!Inv, Sides!HeldInv, Sides!LaunchInv, Sides!RecordInv,
           Sides!AliveIsRecorded, Sides!GoneIsGone
  <2> QED BY <2>1, <2>2, <2>3, <2>4, <2>5 DEF Sides!Inv
<1>17. CASE Sides!Unsticks
  <2>1. Sides!HeldInv'
    BY <1>17 DEF Sides!Unsticks, Sides!Inv, Sides!HeldInv, Sides!LaunchInv, Sides!RecordInv,
           Sides!AliveIsRecorded, Sides!GoneIsGone, Sides!Side, Sides!Launch
  <2>2. Sides!LaunchInv'
    BY <1>17 DEF Sides!Unsticks, Sides!Inv, Sides!HeldInv, Sides!LaunchInv, Sides!RecordInv,
           Sides!AliveIsRecorded, Sides!GoneIsGone, Sides!Side
  <2>3. Sides!RecordInv'
    BY <1>17 DEF Sides!Unsticks, Sides!Inv, Sides!HeldInv, Sides!LaunchInv, Sides!RecordInv,
           Sides!AliveIsRecorded, Sides!GoneIsGone, Sides!Side
  <2>4. Sides!AliveIsRecorded'
    BY <1>17 DEF Sides!Unsticks, Sides!Inv, Sides!HeldInv, Sides!LaunchInv, Sides!RecordInv,
           Sides!AliveIsRecorded, Sides!GoneIsGone, Sides!Side
  <2>5. Sides!GoneIsGone'
    BY <1>17 DEF Sides!Unsticks, Sides!Inv, Sides!HeldInv, Sides!LaunchInv, Sides!RecordInv,
           Sides!AliveIsRecorded, Sides!GoneIsGone
  <2> QED BY <2>1, <2>2, <2>3, <2>4, <2>5 DEF Sides!Inv
<1>18. CASE Sides!ShimDies
  <2>1. Sides!HeldInv'
    BY <1>18 DEF Sides!ShimDies, Sides!Fault, Sides!Inv, Sides!HeldInv, Sides!LaunchInv, Sides!RecordInv,
           Sides!AliveIsRecorded, Sides!GoneIsGone, Sides!Side, Sides!Launch
  <2>2. Sides!LaunchInv'
    BY <1>18 DEF Sides!ShimDies, Sides!Fault, Sides!Inv, Sides!HeldInv, Sides!LaunchInv, Sides!RecordInv,
           Sides!AliveIsRecorded, Sides!GoneIsGone, Sides!Side
  <2>3. Sides!RecordInv'
    BY <1>18 DEF Sides!ShimDies, Sides!Fault, Sides!Inv, Sides!HeldInv, Sides!LaunchInv, Sides!RecordInv,
           Sides!AliveIsRecorded, Sides!GoneIsGone, Sides!Side
  <2>4. Sides!AliveIsRecorded'
    BY <1>18 DEF Sides!ShimDies, Sides!Fault, Sides!Inv, Sides!HeldInv, Sides!LaunchInv, Sides!RecordInv,
           Sides!AliveIsRecorded, Sides!GoneIsGone, Sides!Side
  <2>5. Sides!GoneIsGone'
    BY <1>18 DEF Sides!ShimDies, Sides!Fault, Sides!Inv, Sides!HeldInv, Sides!LaunchInv, Sides!RecordInv,
           Sides!AliveIsRecorded, Sides!GoneIsGone
  <2> QED BY <2>1, <2>2, <2>3, <2>4, <2>5 DEF Sides!Inv
<1>19. CASE Sides!Start
  <2>1. Sides!HeldInv'
    <3>1. /\ v1' = v1 + 1 /\ v1 \in Nat /\ v1 < MaxLaunch /\ v12' = 1 /\ v2' \subseteq v2 /\ v11' = "spawn" /\ v9'
          /\ v5' = Sides!Nobody /\ v6' = Sides!Nobody /\ v13' = Sides!Nobody /\ v2 \subseteq Sides!Side \X (1..v1)
      BY <1>19 DEF Sides!Start, Sides!Inv, Sides!HeldInv
    <3>2. v1' \in Nat /\ v1' <= MaxLaunch /\ 1..v1 \subseteq 1..v1'
      BY <3>1 DEF LaunchesAreCounted
    <3>3. v2' \subseteq Sides!Side \X (1..v1')
      BY <3>1, <3>2
    <3> QED BY <3>1, <3>2, <3>3, SidecarsNobody DEF Sides!HeldInv
  <2>2. Sides!LaunchInv'
    <3>1. v2' \subseteq v14
      BY <1>19, SidecarsStart DEF Sides!Inv
    <3>2. v1' = v1 + 1 /\ v1 \in Nat /\ v5' = Sides!Nobody /\ v6' = Sides!Nobody /\ v12' = 1 /\ v11' = "spawn" /\ v14' = v14
      BY <1>19 DEF Sides!Start, Sides!Inv, Sides!HeldInv
    <3>3. \A i \in Sides!Side : ~(i < v12')
      BY <3>2 DEF Sides!Side
    <3> QED BY <3>1, <3>2, <3>3, SidecarsNobody DEF Sides!LaunchInv
  <2>3. Sides!RecordInv'
    BY <1>19 DEF Sides!Start, Sides!Inv, Sides!HeldInv, Sides!LaunchInv, Sides!RecordInv,
           Sides!AliveIsRecorded, Sides!GoneIsGone, Sides!Side
  <2>4. Sides!AliveIsRecorded'
    <3>1. v2' \subseteq v14 /\ v14' = v14
      BY <1>19, SidecarsStart DEF Sides!Inv, Sides!Start
    <3> QED BY <3>1 DEF Sides!AliveIsRecorded
  <2>5. Sides!GoneIsGone'
    BY <1>19 DEF Sides!Start, Sides!Inv, Sides!HeldInv, Sides!LaunchInv, Sides!RecordInv,
           Sides!AliveIsRecorded, Sides!GoneIsGone
  <2> QED BY <2>1, <2>2, <2>3, <2>4, <2>5 DEF Sides!Inv
<1>20. CASE Sides!Ready
  <2>1. Sides!HeldInv'
    BY <1>20 DEF Sides!Ready, Sides!PasstReady, Sides!VirtiofsReady, Sides!Inv, Sides!HeldInv,
           Sides!LaunchInv, Sides!RecordInv, Sides!AliveIsRecorded, Sides!GoneIsGone, Sides!Side, Sides!Launch
  <2>2. Sides!LaunchInv'
    BY <1>20 DEF Sides!Ready, Sides!PasstReady, Sides!VirtiofsReady, Sides!Inv, Sides!HeldInv,
           Sides!LaunchInv, Sides!RecordInv, Sides!AliveIsRecorded, Sides!GoneIsGone, Sides!Side
  <2>3. Sides!RecordInv'
    BY <1>20 DEF Sides!Ready, Sides!PasstReady, Sides!VirtiofsReady, Sides!Inv, Sides!HeldInv,
           Sides!LaunchInv, Sides!RecordInv, Sides!AliveIsRecorded, Sides!GoneIsGone, Sides!Side
  <2>4. Sides!AliveIsRecorded'
    BY <1>20 DEF Sides!Ready, Sides!PasstReady, Sides!VirtiofsReady, Sides!Inv, Sides!HeldInv,
           Sides!LaunchInv, Sides!RecordInv, Sides!AliveIsRecorded, Sides!GoneIsGone, Sides!Side
  <2>5. Sides!GoneIsGone'
    BY <1>20 DEF Sides!Ready, Sides!PasstReady, Sides!VirtiofsReady, Sides!Inv, Sides!HeldInv,
           Sides!LaunchInv, Sides!RecordInv, Sides!AliveIsRecorded, Sides!GoneIsGone
  <2> QED BY <2>1, <2>2, <2>3, <2>4, <2>5 DEF Sides!Inv
<1>21. CASE Sides!Rollback
  <2>1. Sides!HeldInv'
    BY <1>21 DEF Sides!Rollback, Sides!After, Sides!Inv, Sides!HeldInv, Sides!LaunchInv, Sides!RecordInv,
           Sides!AliveIsRecorded, Sides!GoneIsGone, Sides!Side, Sides!Launch
  <2>2. Sides!LaunchInv'
    BY <1>21 DEF Sides!Rollback, Sides!After, Sides!Inv, Sides!HeldInv, Sides!LaunchInv, Sides!RecordInv,
           Sides!AliveIsRecorded, Sides!GoneIsGone, Sides!Side
  <2>3. Sides!RecordInv'
    BY <1>21 DEF Sides!Rollback, Sides!After, Sides!Inv, Sides!HeldInv, Sides!LaunchInv, Sides!RecordInv,
           Sides!AliveIsRecorded, Sides!GoneIsGone, Sides!Side
  <2>4. Sides!AliveIsRecorded'
    BY <1>21 DEF Sides!Rollback, Sides!After, Sides!Inv, Sides!HeldInv, Sides!LaunchInv, Sides!RecordInv,
           Sides!AliveIsRecorded, Sides!GoneIsGone, Sides!Side
  <2>5. Sides!GoneIsGone'
    BY <1>21 DEF Sides!Rollback, Sides!After, Sides!Inv, Sides!HeldInv, Sides!LaunchInv, Sides!RecordInv,
           Sides!AliveIsRecorded, Sides!GoneIsGone
  <2> QED BY <2>1, <2>2, <2>3, <2>4, <2>5 DEF Sides!Inv
<1>22. CASE Sides!Survey
  <2>1. Sides!HeldInv'
    <3>1. /\ UNCHANGED <<v1, v2, v10, v12>> /\ v11 = "survey" /\ v11' = "none" /\ v13' = Sides!Nobody
          /\ v5' \in {v5, Sides!Nobody, Sides!Surveyed} /\ v6' \in {v6, Sides!Nobody, Sides!Surveyed}
      BY <1>22 DEF Sides!Survey, Sides!Surveyed
    <3>2. v10' = 0
      BY <3>1 DEF Sides!Inv, Sides!HeldInv
    <3> HIDE DEF Sides!Surveyed
    <3> QED BY <3>1, <3>2, SidecarsNobody, SidecarsSurveyed DEF Sides!Inv, Sides!HeldInv
  <2>2. Sides!LaunchInv'
    BY <1>22 DEF Sides!Survey, Sides!Inv, Sides!HeldInv, Sides!LaunchInv, Sides!RecordInv,
           Sides!AliveIsRecorded, Sides!GoneIsGone, Sides!Side
  <2>3. Sides!RecordInv'
    BY <1>22 DEF Sides!Survey, Sides!Inv, Sides!HeldInv, Sides!LaunchInv, Sides!RecordInv,
           Sides!AliveIsRecorded, Sides!GoneIsGone, Sides!Side
  <2>4. Sides!AliveIsRecorded'
    <3>1. v2' = v2 /\ v11' = "none"
      BY <1>22 DEF Sides!Survey
    <3>2. \/ v2 = {}
          \/ v6' = Sides!Surveyed /\ v14' = v14 /\ \A i \in Sides!Side : Sides!Single(Sides!Scan(i))
          \/ v14' = v14 \cup (v2 \ Sides!Held(v6)) /\ v6' = v6
      BY <1>22 DEF Sides!Survey
    <3>3. CASE v2 = {}
      BY <3>1, <3>3 DEF Sides!AliveIsRecorded
    <3>4. CASE v6' = Sides!Surveyed /\ v14' = v14 /\ \A i \in Sides!Side : Sides!Single(Sides!Scan(i))
      <4>1. \A p \in v2 : Sides!Surveyed[p[1]] = p[2]
        BY <3>4, SidecarsSurveyed DEF Sides!Inv
      <4> QED BY <3>1, <3>4, <4>1 DEF Sides!AliveIsRecorded
    <3>5. CASE v14' = v14 \cup (v2 \ Sides!Held(v6)) /\ v6' = v6
      <4>1. \A p \in v2 : p \in Sides!Held(v6) => v6[p[1]] = p[2]
        BY DEF Sides!Held
      <4> QED BY <3>1, <3>5, <4>1 DEF Sides!AliveIsRecorded
    <3> QED BY <3>2, <3>3, <3>4, <3>5
  <2>5. Sides!GoneIsGone'
    BY <1>22 DEF Sides!Survey, Sides!Inv, Sides!HeldInv, Sides!LaunchInv, Sides!RecordInv,
           Sides!AliveIsRecorded, Sides!GoneIsGone
  <2> QED BY <2>1, <2>2, <2>3, <2>4, <2>5 DEF Sides!Inv
<1>23. CASE Sides!Recover
  <2>1. Sides!HeldInv'
    <3> DEFINE f == Sides!Found
    <3>1. /\ UNCHANGED <<v1, v2, v9, v12>> /\ v5' = f /\ v6' = f /\ v13' = f /\ v11 = "none" /\ v10 # 0
          /\ (v11' = "up" \/ (v11' = "stopping" /\ v10' = 0))
      BY <1>23 DEF Sides!Recover
    <3>2. f \in [Sides!Side -> Nat]
      BY <1>23, <3>1, SidecarsFound DEF Sides!Inv, Sides!Recover
    <3> HIDE DEF f
    <3> QED BY <3>1, <3>2 DEF Sides!Inv, Sides!HeldInv
  <2>2. Sides!LaunchInv'
    BY <1>23 DEF Sides!Recover, Sides!Inv, Sides!HeldInv, Sides!LaunchInv, Sides!RecordInv,
           Sides!AliveIsRecorded, Sides!GoneIsGone, Sides!Side
  <2>3. Sides!RecordInv'
    <3> DEFINE f == Sides!Found
    <3>1. /\ v5' = f /\ v6' = f /\ v13' = f /\ v1' = v1 /\ v11 = "none" /\ v10 # 0 /\ v7 \in {"starting", "running"}
          /\ \/ v11' = "stopping" /\ v10' = 0
             \/ v11' = "up" /\ v8' = v8 \cup Sides!Missing
      BY <1>23 DEF Sides!Recover
    <3>2. \A i \in Sides!Side : f[i] # 0 /\ v5[i] # 0 => f[i] = v5[i]
      BY <1>23, <3>1, SidecarsFound DEF Sides!Inv, Sides!Recover
    <3>3. \A i \in Sides!Side : v5[i] = v1 \/ i \in v8
      BY <3>1 DEF Sides!Inv, Sides!RecordInv
    <3>5. v1 # 0
      BY <3>1 DEF Sides!Inv, Sides!HeldInv
    <3>6. \A i \in Sides!Side : f[i] = v1 \/ i \in v8 \cup Sides!Missing
      BY <3>2, <3>3, <3>5 DEF Sides!Missing
    <3> HIDE DEF f
    <3> QED BY <3>1, <3>6 DEF Sides!RecordInv
  <2>4. Sides!AliveIsRecorded'
    <3>1. UNCHANGED <<v2, v14>> /\ v6' = Sides!Found
      BY <1>23 DEF Sides!Recover
    <3>2. \A p \in v2 : p \in v14 \/ Sides!Found[p[1]] = p[2]
      BY <1>23, SidecarsFound DEF Sides!Inv, Sides!Recover
    <3> HIDE DEF Sides!Found
    <3> QED BY <3>1, <3>2 DEF Sides!AliveIsRecorded
  <2>5. Sides!GoneIsGone'
    BY <1>23 DEF Sides!Recover, Sides!Inv, Sides!HeldInv, Sides!LaunchInv, Sides!RecordInv,
           Sides!AliveIsRecorded, Sides!GoneIsGone
  <2> QED BY <2>1, <2>2, <2>3, <2>4, <2>5 DEF Sides!Inv
<1>24. CASE Sides!StopUnsupervised
  <2>1. Sides!HeldInv'
    <3>1. /\ UNCHANGED <<v1, v11, v12, v13>> /\ v11 = "none" /\ v10' = 0 /\ v2' = Sides!After(Sides!Held(Sides!Found))
          /\ v5' \in {Sides!Nobody, Sides!Found} /\ v6' \in {v6, Sides!Nobody}
      BY <1>24 DEF Sides!StopUnsupervised
    <3>2. Sides!Found \in [Sides!Side -> Nat] /\ v2' \subseteq v2
      BY <1>24, <3>1, SidecarsFound, SidecarsAfter DEF Sides!Inv, Sides!StopUnsupervised
    <3> HIDE DEF Sides!Found
    <3> QED BY <3>1, <3>2, SidecarsNobody DEF Sides!Inv, Sides!HeldInv
  <2>2. Sides!LaunchInv'
    BY <1>24 DEF Sides!StopUnsupervised, Sides!Inv, Sides!HeldInv, Sides!LaunchInv, Sides!RecordInv,
           Sides!AliveIsRecorded, Sides!GoneIsGone, Sides!Side
  <2>3. Sides!RecordInv'
    BY <1>24 DEF Sides!StopUnsupervised, Sides!Inv, Sides!HeldInv, Sides!LaunchInv, Sides!RecordInv,
           Sides!AliveIsRecorded, Sides!GoneIsGone, Sides!Side
  <2>4. Sides!AliveIsRecorded'
    <3>1. v2' \subseteq v2 /\ v14' = v14 /\ v11 = "none"
      BY <1>24, SidecarsAfter DEF Sides!StopUnsupervised
    <3>2. CASE v6' = v6
      BY <3>1, <3>2 DEF Sides!Inv, Sides!AliveIsRecorded
    <3>3. CASE v6' # v6
      <4>1. v2' \subseteq v14
        BY <1>24, <3>3, SidecarsStopped DEF Sides!StopUnsupervised, Sides!Inv
      <4> QED BY <3>1, <4>1 DEF Sides!AliveIsRecorded
    <3> QED BY <3>2, <3>3
  <2>5. Sides!GoneIsGone'
    <3>1. v2' \subseteq v2 /\ v14' = v14 /\ v10 # 0
      BY <1>24, SidecarsAfter DEF Sides!StopUnsupervised
    <3>2. CASE v9' = v9
      BY <3>1, <3>2 DEF Sides!Inv, Sides!GoneIsGone
    <3>3. CASE v9' # v9
      <4>1. v2' \subseteq v14
        BY <1>24, <3>3, SidecarsStopped DEF Sides!StopUnsupervised, Sides!Inv
      <4> QED BY <3>1, <4>1 DEF Sides!GoneIsGone
    <3> QED BY <3>2, <3>3
  <2> QED BY <2>1, <2>2, <2>3, <2>4, <2>5 DEF Sides!Inv
<1> QED
  BY <1>1, <1>2, <1>3, <1>4, <1>5, <1>6, <1>7, <1>8, <1>9, <1>10, <1>11, <1>12, <1>13, <1>14, <1>15, <1>16,
         <1>17, <1>18, <1>19, <1>20, <1>21, <1>22, <1>23, <1>24 DEF Sides!Next

\* It implies what is promised of the sidecars.
LEMMA SidecarsKept == Sides!Inv => Sides!AliveIsRecorded /\ Sides!FailureIsReported /\ Sides!GoneIsGone
BY DEF Sides!Inv, Sides!RecordInv, Sides!FailureIsReported

PidNumbers == 1..3

\* The tree of a VMM, with fewer pids than processes.
Tree == INSTANCE ProcessTree WITH
    MaxProcs <- MaxProcs, Pids <- PidNumbers,
    st <- v1, pid <- v2, parent <- v3, grp <- v4, kind <- v5, killed <- v6, pc <- v7, snap <- v8, pending <- v9,
    at <- v10, todo <- v11, fd <- v12, found <- v13, old <- v14, signalled <- v15

\* There is a VMM and a sidecar at least.
ProcessesAreCounted == MaxProcs \in Nat /\ MaxProcs >= 2

\* A set of natural numbers that is not empty has a least element.
LEMMA Least ==
  ASSUME NEW T, T \subseteq Nat, T # {}
  PROVE  \E m \in T : \A n \in T : m <= n
<1> DEFINE B == {0..n : n \in T}
<1>1. B \subseteq FiniteSubsetsOf(Nat) /\ B # {}
  <2>1. ASSUME NEW n \in T PROVE 0..n \in FiniteSubsetsOf(Nat)
    <3>1. IsFiniteSet(0..n)
      BY FS_Interval
    <3> QED BY <3>1 DEF FiniteSubsetsOf
  <2> QED BY <2>1
<1>2. PICK b \in B : \A c \in B : ~ (<<c, b>> \in StrictSubsetOrdering(Nat))
  <2> HIDE DEF B
  <2>1. IsWellFoundedOn(StrictSubsetOrdering(Nat), FiniteSubsetsOf(Nat))
    BY FS_StrictSubsetOrderingWellFounded
  <2> QED BY <1>1, <2>1, WFMin
<1>3. PICK m \in T : b = 0..m
  OBVIOUS
<1>4. ASSUME NEW n \in T, ~ (m <= n) PROVE FALSE
  <2>1. n < m /\ n \in Nat /\ m \in Nat
    BY <1>4
  <2>2. 0..n \in B
    OBVIOUS
  <2>3. 0..n \subseteq 0..m /\ m \in 0..m /\ ~ (m \in 0..n)
    BY <2>1
  <2>4. 0..n # 0..m /\ 0..n \in SUBSET Nat /\ 0..m \in SUBSET Nat
    BY <2>3
  <2>5. <<0..n, 0..m>> \in StrictSubsetOrdering(Nat)
    BY <2>3, <2>4 DEF StrictSubsetOrdering
  <2> QED BY <1>2, <1>3, <2>2, <2>5
<1> QED BY <1>4

\* Incarnations are numbered; the shim and the outside are none of them.
LEMMA TreeProcs ==
  ASSUME ProcessesAreCounted
  PROVE  /\ Tree!Procs \subseteq Nat /\ 1 \in Tree!Procs /\ 2 \in Tree!Procs /\ Tree!Shim \notin Tree!Procs
         /\ Tree!Outside \notin Tree!Procs /\ Tree!Outside \in Nat /\ Tree!Outside # Tree!Shim /\ Tree!Shim \in Nat
         /\ Tree!Root = 1 /\ Tree!Side = 2 /\ PidNumbers \subseteq Nat
         /\ \A i, j \in Tree!Procs : i < j \/ i = j \/ j < i
BY DEF ProcessesAreCounted, Tree!Procs, Tree!Shim, Tree!Outside, Tree!Root, Tree!Side, PidNumbers

\* A birth, of a child of the VMM's tree or of a stranger, keeps the tree's invariant and disturbs
\* nobody born before.
LEMMA TreeBorn ==
  ASSUME ProcessesAreCounted, Tree!TreeInv, NEW i \in Tree!Procs, NEW p \in PidNumbers, NEW par, NEW g \in Nat, NEW k,
         Tree!Born(i, p, par, g, k),
         \/ k = "vmm" /\ par \in Tree!Vmm /\ v1[par] = "alive"
         \/ k = "other" /\ par = Tree!Outside /\ g = p
  PROVE  /\ Tree!TreeInv' /\ v1[i] = "unborn"
         /\ \A j \in Tree!Procs : Tree!Known(j) => j # i /\ Tree!Known(j)' /\ (Tree!Present(j)' <=> Tree!Present(j))
         /\ \A j \in Tree!Procs : Tree!Known(j) => v2'[j] = v2[j] /\ v3'[j] = v3[j] /\ v5'[j] = v5[j] /\ v1'[j] = v1[j]
         /\ Tree!Vmm' \subseteq Tree!Vmm \cup {i} /\ v5'[i] = k
<1>1. /\ v1' = [v1 EXCEPT ![i] = "alive"] /\ v2' = [v2 EXCEPT ![i] = p] /\ v3' = [v3 EXCEPT ![i] = par]
      /\ v4' = [v4 EXCEPT ![i] = g] /\ v5' = [v5 EXCEPT ![i] = k] /\ v7' = v7 /\ v1[i] = "unborn"
      /\ \A j \in Tree!Procs : j < i => v1[j] # "unborn"
      /\ \A j \in Tree!Procs : Tree!Present(j) => v2[j] # p
  BY DEF Tree!Born, Tree!Free, Tree!At
<1>2. /\ v1 \in [Tree!Procs -> Tree!Stages] /\ v2 \in [Tree!Procs -> Nat] /\ v3 \in [Tree!Procs -> Nat]
      /\ v4 \in [Tree!Procs -> Nat] /\ v5 \in [Tree!Procs -> {"vmm", "side", "other"}]
  BY DEF Tree!TreeInv
<1>3. par \in Nat /\ (k = "vmm" => par \in Tree!Procs /\ par < i /\ par # i)
  <2>1. CASE k = "other"
    BY <2>1, TreeProcs
  <2>2. CASE k = "vmm"
    <3>1. par \in Tree!Procs /\ v1[par] = "alive" /\ par # i
      BY <2>2, <1>1 DEF Tree!Vmm
    <3>2. ~(i < par)
      BY <1>1, <3>1 DEF Tree!TreeInv, Tree!Known
    <3> QED BY <3>1, <3>2, TreeProcs
  <2> QED BY <2>1, <2>2
<1>4. /\ \A j \in Tree!Procs : j # i => v1'[j] = v1[j] /\ v2'[j] = v2[j] /\ v3'[j] = v3[j] /\ v4'[j] = v4[j] /\ v5'[j] = v5[j]
      /\ v1'[i] = "alive" /\ v2'[i] = p /\ v3'[i] = par /\ v4'[i] = g /\ v5'[i] = k
  BY <1>1, <1>2
<1>5. /\ v1' \in [Tree!Procs -> Tree!Stages] /\ v2' \in [Tree!Procs -> Nat] /\ v3' \in [Tree!Procs -> Nat]
      /\ v4' \in [Tree!Procs -> Nat] /\ v5' \in [Tree!Procs -> {"vmm", "side", "other"}]
  BY <1>1, <1>2, <1>3, TreeProcs DEF Tree!Stages
<1>6. /\ \A j \in Tree!Procs : Tree!Known(j) => j # i /\ Tree!Known(j)' /\ (Tree!Present(j)' <=> Tree!Present(j))
      /\ \A j \in Tree!Procs : Tree!Known(j)' => j = i \/ Tree!Known(j)
      /\ \A j \in Tree!Procs : Tree!Present(j)' => j = i \/ Tree!Present(j)
      /\ \A j \in Tree!Procs : Tree!Present(j) => Tree!Known(j)
  BY <1>1, <1>4 DEF Tree!Known, Tree!Present
<1>7. Tree!Vmm' \subseteq Tree!Vmm \cup {i} /\ \A j \in Tree!Vmm : j \in Tree!Procs /\ (j # i => j \in Tree!Vmm')
  BY <1>4 DEF Tree!Vmm
<1> USE DEF Tree!TreeInv
<1>8. \A a, b \in Tree!Procs : a < b /\ Tree!Known(b)' => Tree!Known(a)'
  <2>1. \A a \in Tree!Procs : a < i => Tree!Known(a)
    BY <1>1 DEF Tree!Known
  <2> QED BY <1>4, <1>6, <2>1 DEF Tree!Known
<1>9. \A a, b \in Tree!Procs : Tree!Present(a)' /\ Tree!Present(b)' /\ v2'[a] = v2'[b] => a = b
  BY <1>1, <1>4, <1>6
<1>10. \A j \in Tree!Procs : v5'[j] = "other" => Tree!Known(j)' /\ v3'[j] = Tree!Outside /\ v4'[j] = v2'[j]
  BY <1>4, <1>6 DEF Tree!Known
<1>11. \A j \in Tree!Vmm' : Tree!Present(j)' /\ v3'[j] # Tree!Shim => v3'[j] \in Tree!Vmm' /\ v3'[j] < j /\ v1'[v3'[j]] = "alive"
  <2>1. CASE k = "other"
    <3>1. \A j \in Tree!Vmm' : j # i /\ j \in Tree!Vmm
      BY <1>4, <1>7, <2>1 DEF Tree!Vmm
    <3>2. ASSUME NEW j \in Tree!Vmm', Tree!Present(j)', v3'[j] # Tree!Shim
          PROVE  v3'[j] \in Tree!Vmm' /\ v3'[j] < j /\ v1'[v3'[j]] = "alive"
      <4>1. j # i /\ j \in Tree!Vmm /\ j \in Tree!Procs /\ Tree!Present(j) /\ v3'[j] = v3[j]
        BY <1>4, <1>6, <1>7, <3>1, <3>2
      <4>2. v3[j] \in Tree!Vmm /\ v3[j] < j /\ v1[v3[j]] = "alive" /\ v3[j] # i /\ v3[j] \in Tree!Procs
        BY <1>1, <1>7, <3>2, <4>1
      <4> QED BY <1>4, <1>7, <4>1, <4>2
    <3> QED BY <3>2
  <2>2. CASE k = "vmm"
    <3>2. ASSUME NEW j \in Tree!Vmm', Tree!Present(j)', v3'[j] # Tree!Shim
          PROVE  v3'[j] \in Tree!Vmm' /\ v3'[j] < j /\ v1'[v3'[j]] = "alive"
      <4>1. CASE j = i
        BY <1>3, <1>4, <1>7, <2>2, <4>1
      <4>2. CASE j # i
        <5>1. j \in Tree!Vmm /\ j \in Tree!Procs /\ Tree!Present(j) /\ v3'[j] = v3[j]
          BY <1>4, <1>6, <1>7, <3>2, <4>2
        <5>2. v3[j] \in Tree!Vmm /\ v3[j] < j /\ v1[v3[j]] = "alive" /\ v3[j] # i /\ v3[j] \in Tree!Procs
          BY <1>1, <1>7, <3>2, <5>1
        <5> QED BY <1>4, <1>7, <5>1, <5>2
      <4> QED BY <4>1, <4>2
    <3> QED BY <3>2
  <2> QED BY <2>1, <2>2
<1>12. /\ Tree!Known(Tree!Root)' /\ v2'[Tree!Root] = Tree!Root /\ v3'[Tree!Root] = Tree!Shim /\ v5'[Tree!Root] = "vmm"
       /\ Tree!Known(Tree!Side)' /\ v4'[Tree!Side] = Tree!Side
       /\ v7' \notin {"drain", "done", "timeout"} => Tree!Present(Tree!Root)'
  BY <1>1, <1>4, <1>6, TreeProcs
<1>13. \A j \in Tree!Procs : v5'[j] = "side" <=> j = Tree!Side
  <2>1. i # Tree!Side
    BY <1>6, TreeProcs
  <2> QED BY <1>4, <2>1
<1>14. Tree!TreeInv'
  BY <1>5, <1>8, <1>9, <1>10, <1>11, <1>12, <1>13
<1> QED BY <1>1, <1>4, <1>6, <1>7, <1>14

\* So does an end: an exit that hands children to the shim, or a reaping.
LEMMA TreeEnds ==
  ASSUME ProcessesAreCounted, Tree!TreeInv, UNCHANGED <<v2, v4, v5>>,
         v1' \in [Tree!Procs -> Tree!Stages], v3' \in [Tree!Procs -> Nat],
         \A j \in Tree!Procs : Tree!Known(j)' <=> Tree!Known(j),
         \A j \in Tree!Procs : Tree!Present(j)' => Tree!Present(j),
         \A j \in Tree!Procs : v3'[j] = v3[j] \/ (v3'[j] = Tree!Shim /\ v3[j] \in Tree!Procs),
         \A j, q \in Tree!Procs : Tree!Present(j)' /\ v3'[j] = q /\ v1[q] = "alive" => v1'[q] = "alive",
         v7' \notin {"drain", "done", "timeout"} => Tree!Present(Tree!Root)'
  PROVE  Tree!TreeInv'
<1>1. Tree!Vmm' = Tree!Vmm /\ Tree!Vmm \subseteq Tree!Procs
  BY DEF Tree!Vmm
<1> USE DEF Tree!TreeInv
<1>2. \A i, j \in Tree!Procs : i < j /\ Tree!Known(j)' => Tree!Known(i)'
  OBVIOUS
<1>3. \A i, j \in Tree!Procs : Tree!Present(i)' /\ Tree!Present(j)' /\ v2'[i] = v2'[j] => i = j
  OBVIOUS
<1>4. \A i \in Tree!Procs : v5'[i] = "other" => Tree!Known(i)' /\ v3'[i] = Tree!Outside /\ v4'[i] = v2'[i]
  BY TreeProcs
<1>5. ASSUME NEW i \in Tree!Vmm', Tree!Present(i)', v3'[i] # Tree!Shim
      PROVE  v3'[i] \in Tree!Vmm' /\ v3'[i] < i /\ v1'[v3'[i]] = "alive"
  <2>1. i \in Tree!Vmm /\ i \in Tree!Procs /\ Tree!Present(i) /\ v3'[i] = v3[i]
    BY <1>1, <1>5
  <2>2. v3[i] \in Tree!Vmm /\ v3[i] < i /\ v1[v3[i]] = "alive" /\ v3[i] \in Tree!Procs
    BY <1>1, <1>5, <2>1
  <2> QED BY <1>1, <1>5, <2>1, <2>2
<1>6. /\ Tree!Known(Tree!Root)' /\ v2'[Tree!Root] = Tree!Root /\ v3'[Tree!Root] = Tree!Shim /\ v5'[Tree!Root] = "vmm"
      /\ Tree!Known(Tree!Side)' /\ v4'[Tree!Side] = Tree!Side
  BY TreeProcs
<1>7. \A i \in Tree!Procs : v5'[i] = "side" <=> i = Tree!Side
  OBVIOUS
<1>8. v2' \in [Tree!Procs -> Nat] /\ v4' \in [Tree!Procs -> Nat] /\ v5' \in [Tree!Procs -> {"vmm", "side", "other"}]
  OBVIOUS
<1> QED BY <1>2, <1>3, <1>4, <1>5, <1>6, <1>7, <1>8

\* What the snapshot holds stays true as long as who was born keeps pid and kind.
LEMMA TreeSnap ==
  ASSUME Tree!SnapInv, UNCHANGED <<v7, v8, v9, v10, v11, v12, v13, v14>>,
         \A j \in Tree!Procs : Tree!Known(j) => Tree!Known(j)' /\ v2'[j] = v2[j] /\ v5'[j] = v5[j]
  PROVE  Tree!SnapInv'
<1>1. \A j \in Tree!Vmm : Tree!Known(j) => j \in Tree!Vmm' /\ j \in Tree!Procs /\ Tree!Known(j)' /\ v2'[j] = v2[j]
  BY DEF Tree!Vmm
<1>2. Tree!Named(v13)' /\ Tree!Named(v14)'
  <2>1. Tree!Named(v13)'
    BY <1>1 DEF Tree!SnapInv, Tree!Named
  <2>2. Tree!Named(v14)'
    BY <1>1 DEF Tree!SnapInv, Tree!Named
  <2> QED BY <2>1, <2>2
<1> QED BY <1>1, <1>2 DEF Tree!SnapInv

\* If anything of the VMM is left, the shim has a child that is: the oldest one left has no living
\* parent in the tree.
LEMMA TreeChild ==
  ASSUME ProcessesAreCounted, Tree!TreeInv, NEW x \in Tree!Vmm, Tree!Present(x)
  PROVE  \E c \in Tree!Vmm : Tree!Present(c) /\ v3[c] = Tree!Shim
<1> DEFINE T == {i \in Tree!Vmm : Tree!Present(i)}
<1>1. T \subseteq Nat /\ x \in T
  BY TreeProcs DEF Tree!Vmm
<1>2. PICK m \in T : \A n \in T : m <= n
  <2> HIDE DEF T
  <2> QED BY <1>1, Least
<1>3. m \in Tree!Vmm /\ Tree!Present(m) /\ m \in Nat
  BY <1>1
<1>4. SUFFICES ASSUME v3[m] # Tree!Shim PROVE FALSE
  BY <1>3
<1>5. v3[m] \in Tree!Vmm /\ v3[m] < m /\ v1[v3[m]] = "alive"
  BY <1>3, <1>4 DEF Tree!TreeInv
<1>6. v3[m] \in T /\ v3[m] \in Nat
  <2>1. Tree!Present(v3[m])
    BY <1>5 DEF Tree!Present
  <2> QED BY <1>1, <1>5, <2>1
<1> HIDE DEF T
<1>7. m <= v3[m]
  BY <1>2, <1>6
<1> QED BY <1>3, <1>5, <1>6, <1>7

\* What a pidfd reaches, and has not become another process, is of the VMM's tree.
LEMMA TreeReached ==
  ASSUME Tree!TreeInv, Tree!Named(v13)
  PROVE  \A i \in Tree!Reached : Tree!Present(i) => i \in Tree!Vmm /\ Tree!Known(i)
<1> SUFFICES ASSUME NEW i \in Tree!Reached, Tree!Present(i) PROVE i \in Tree!Vmm /\ Tree!Known(i)
  OBVIOUS
<1>1. PICK p \in DOMAIN v13 : i = v13[p].fd /\ ~Tree!Changed(p) /\ (p \in Nat => TRUE)
  <2>1. PICK p \in {q \in DOMAIN v13 : \A r \in DOMAIN v13 : r <= q => ~Tree!Changed(r)} : i = v13[p].fd
    BY DEF Tree!Reached
  <2>2. v2[v13[p].fd] = p /\ v13[p].fd \in Tree!Procs
    BY <2>1 DEF Tree!Named
  <2>3. p \in Nat
    BY <2>2 DEF Tree!TreeInv
  <2>4. p <= p
    BY <2>3
  <2> QED BY <2>1, <2>4
<1>2. i \in Tree!Procs /\ v2[i] = p /\ Tree!Known(i) /\ v13[p].start \in Tree!Vmm
  BY <1>1 DEF Tree!Named
<1>3. i \in Tree!At(p)
  BY <1>2 DEF Tree!At
<1>4. Tree!At(p) = {v13[p].start}
  BY <1>1, <1>3 DEF Tree!Changed
<1> QED BY <1>2, <1>3, <1>4

\* While the leader is unreaped, its process group holds only processes of its tree.
LEMMA TreeGroup ==
  ASSUME ProcessesAreCounted, Tree!TreeInv, Tree!Present(Tree!Root)
  PROVE  \A i \in Tree!Group : i \in Tree!Vmm /\ Tree!Known(i)
<1> SUFFICES ASSUME NEW i \in Tree!Group PROVE i \in Tree!Vmm /\ Tree!Known(i)
  OBVIOUS
<1>1. i \in Tree!Procs /\ v1[i] = "alive" /\ v4[i] = v2[Tree!Root] /\ Tree!Root \in Tree!Procs
  BY TreeProcs DEF Tree!Group
<1>2. Tree!Known(i) /\ Tree!Present(i)
  BY <1>1 DEF Tree!Known, Tree!Present
<1>3. v5[i] # "other"
  BY <1>1, <1>2 DEF Tree!TreeInv
<1>4. v5[i] # "side"
  BY <1>1, TreeProcs DEF Tree!TreeInv
<1>5. v5[i] = "vmm"
  BY <1>1, <1>3, <1>4 DEF Tree!TreeInv
<1> QED BY <1>1, <1>2, <1>5 DEF Tree!Vmm

\* Signals sent to the tree only reach the tree.
LEMMA TreeSent ==
  ASSUME Tree!SignalInv, NEW S, Tree!Send(S), UNCHANGED <<v1, v5>>,
         \A i \in S : Tree!Present(i) => i \in Tree!Vmm /\ Tree!Known(i)
  PROVE  Tree!SignalInv'
BY DEF Tree!SignalInv, Tree!Send, Tree!Vmm, Tree!Known

\* The invariant of the VMM's tree holds at first.
LEMMA ProcessTreeBegin == ProcessesAreCounted /\ Tree!Init => Tree!Inv
<1> SUFFICES ASSUME ProcessesAreCounted, Tree!Init PROVE Tree!Inv
  OBVIOUS
<1>1. Tree!Root \in Tree!Procs /\ Tree!Side \in Tree!Procs /\ Tree!Shim \in Nat /\ Tree!Root = 1 /\ Tree!Side = 2
  BY TreeProcs
<1>2. /\ v1 \in [Tree!Procs -> Tree!Stages] /\ v2 \in [Tree!Procs -> Nat] /\ v3 \in [Tree!Procs -> Nat]
      /\ v4 \in [Tree!Procs -> Nat] /\ v5 \in [Tree!Procs -> {"vmm", "side", "other"}]
  BY <1>1, TreeProcs DEF Tree!Init, Tree!Stages
<1>3. \A i \in Tree!Procs : (Tree!Known(i) <=> i <= 2) /\ (Tree!Present(i) <=> i <= 2) /\ (i <= 2 => v2[i] = i /\ v4[i] = i)
  BY TreeProcs DEF Tree!Init, Tree!Known, Tree!Present
<1>4. \A i \in Tree!Procs : v3[i] = Tree!Shim /\ v5[i] = IF i = Tree!Side THEN "side" ELSE "vmm"
  BY DEF Tree!Init
<1>5. \A i, j \in Tree!Procs : i < j /\ j <= 2 => i <= 2
  BY TreeProcs
<1>6. Tree!TreeInv
  <2>1. \A i, j \in Tree!Procs : i < j /\ Tree!Known(j) => Tree!Known(i)
    BY <1>3, <1>5
  <2>2. \A i, j \in Tree!Procs : Tree!Present(i) /\ Tree!Present(j) /\ v2[i] = v2[j] => i = j
    BY <1>3
  <2>3. \A i \in Tree!Procs : v5[i] # "other" /\ (v5[i] = "side" <=> i = Tree!Side)
    BY <1>4
  <2>4. \A i \in Tree!Vmm : v3[i] = Tree!Shim
    BY <1>4 DEF Tree!Vmm
  <2>5. /\ Tree!Known(Tree!Root) /\ v2[Tree!Root] = Tree!Root /\ v3[Tree!Root] = Tree!Shim /\ v5[Tree!Root] = "vmm"
        /\ Tree!Known(Tree!Side) /\ v4[Tree!Side] = Tree!Side /\ Tree!Present(Tree!Root)
    BY <1>1, <1>3, <1>4
  <2> QED BY <1>2, <2>1, <2>2, <2>3, <2>4, <2>5 DEF Tree!TreeInv
<1>7. Tree!SnapInv
  BY DEF Tree!Init, Tree!SnapInv, Tree!Named
<1> QED BY <1>6, <1>7 DEF Tree!Init, Tree!Inv, Tree!DrainInv, Tree!SignalInv, Tree!SuccessMeansGone

\* Every step of the VMM's tree keeps it.
LEMMA ProcessTreeStepInv ==
  ASSUME ProcessesAreCounted, Tree!Inv, [Tree!Next]_(Tree!vars)
  PROVE  Tree!Inv'
<1>1. CASE UNCHANGED Tree!vars
  BY <1>1 DEF Tree!vars, Tree!tree, Tree!snapshot, Tree!Inv, Tree!TreeInv, Tree!Known, Tree!Present, Tree!Vmm,
         Tree!SnapInv, Tree!Named, Tree!DrainInv, Tree!Coming, Tree!SignalInv, Tree!SuccessMeansGone
<1>2. ASSUME NEW p \in Tree!Procs, Tree!Fork(p) PROVE Tree!Inv'
  <2>1. Tree!TreeInv'
    <3>1. PICK i \in Tree!Procs, q \in PidNumbers : \E g \in {v4[p], q} : Tree!Born(i, q, p, g, "vmm")
      BY <1>2 DEF Tree!Fork
    <3>2. PICK g \in {v4[p], q} : Tree!Born(i, q, p, g, "vmm")
      BY <3>1
    <3>3. p \in Tree!Vmm /\ v1[p] = "alive" /\ Tree!Present(p)
      BY <1>2 DEF Tree!Fork, Tree!Present
    <3>4. g \in Nat
      BY TreeProcs DEF Tree!Inv, Tree!TreeInv
    <3> QED BY <3>2, <3>3, <3>4, TreeBorn DEF Tree!Inv
  <2>2. Tree!SnapInv'
    <3>1. PICK i \in Tree!Procs, q \in PidNumbers : \E g \in {v4[p], q} : Tree!Born(i, q, p, g, "vmm")
      BY <1>2 DEF Tree!Fork
    <3>2. PICK g \in {v4[p], q} : Tree!Born(i, q, p, g, "vmm")
      BY <3>1
    <3>3. p \in Tree!Vmm /\ v1[p] = "alive" /\ Tree!Present(p)
      BY <1>2 DEF Tree!Fork, Tree!Present
    <3>4. g \in Nat
      BY TreeProcs DEF Tree!Inv, Tree!TreeInv
    <3>5. /\ \A j \in Tree!Procs : Tree!Known(j) => Tree!Known(j)' /\ (Tree!Present(j)' <=> Tree!Present(j))
          /\ \A j \in Tree!Procs : Tree!Known(j) => v2'[j] = v2[j] /\ v3'[j] = v3[j] /\ v5'[j] = v5[j]
          /\ Tree!Vmm' \subseteq Tree!Vmm \cup {i}
      BY <3>2, <3>3, <3>4, TreeBorn DEF Tree!Inv
    <3>6. UNCHANGED <<v6, v7, v8, v9, v10, v11, v12, v13, v14, v15>>
      BY <3>2 DEF Tree!Born, Tree!snapshot
    <3> QED BY <3>5, <3>6, TreeSnap DEF Tree!Inv
  <2>3. Tree!DrainInv'
    <3>1. PICK i \in Tree!Procs, q \in PidNumbers : \E g \in {v4[p], q} : Tree!Born(i, q, p, g, "vmm")
      BY <1>2 DEF Tree!Fork
    <3>2. PICK g \in {v4[p], q} : Tree!Born(i, q, p, g, "vmm")
      BY <3>1
    <3>3. p \in Tree!Vmm /\ v1[p] = "alive" /\ Tree!Present(p)
      BY <1>2 DEF Tree!Fork, Tree!Present
    <3>4. g \in Nat
      BY TreeProcs DEF Tree!Inv, Tree!TreeInv
    <3>5. /\ \A j \in Tree!Procs : Tree!Known(j) => Tree!Known(j)' /\ (Tree!Present(j)' <=> Tree!Present(j))
          /\ \A j \in Tree!Procs : Tree!Known(j) => v2'[j] = v2[j] /\ v3'[j] = v3[j] /\ v5'[j] = v5[j]
          /\ Tree!Vmm' \subseteq Tree!Vmm \cup {i}
      BY <3>2, <3>3, <3>4, TreeBorn DEF Tree!Inv
    <3>6. UNCHANGED <<v6, v7, v8, v9, v10, v11, v12, v13, v14, v15>>
      BY <3>2 DEF Tree!Born, Tree!snapshot
    <3>7. \E j \in Tree!Vmm : Tree!Present(j)
      BY <3>3
    <3>8. Tree!Coming => Tree!Coming'
      BY <3>5, <3>6 DEF Tree!Coming, Tree!Vmm, Tree!Present, Tree!Known
    <3> QED BY <3>6, <3>7, <3>8 DEF Tree!Inv, Tree!DrainInv
  <2>4. Tree!SignalInv'
    <3>1. PICK i \in Tree!Procs, q \in PidNumbers : \E g \in {v4[p], q} : Tree!Born(i, q, p, g, "vmm")
      BY <1>2 DEF Tree!Fork
    <3>2. PICK g \in {v4[p], q} : Tree!Born(i, q, p, g, "vmm")
      BY <3>1
    <3>3. p \in Tree!Vmm /\ v1[p] = "alive" /\ Tree!Present(p)
      BY <1>2 DEF Tree!Fork, Tree!Present
    <3>4. g \in Nat
      BY TreeProcs DEF Tree!Inv, Tree!TreeInv
    <3>5. /\ \A j \in Tree!Procs : Tree!Known(j) => Tree!Known(j)' /\ (Tree!Present(j)' <=> Tree!Present(j))
          /\ \A j \in Tree!Procs : Tree!Known(j) => v2'[j] = v2[j] /\ v3'[j] = v3[j] /\ v5'[j] = v5[j]
          /\ Tree!Vmm' \subseteq Tree!Vmm \cup {i}
      BY <3>2, <3>3, <3>4, TreeBorn DEF Tree!Inv
    <3>6. UNCHANGED <<v6, v7, v8, v9, v10, v11, v12, v13, v14, v15>>
      BY <3>2 DEF Tree!Born, Tree!snapshot
    <3> QED BY <3>5, <3>6 DEF Tree!Inv, Tree!SignalInv, Tree!Vmm
  <2>5. Tree!SuccessMeansGone'
    <3>1. v7' = v7 /\ p \in Tree!Vmm /\ Tree!Present(p)
      BY <1>2 DEF Tree!Fork, Tree!Born, Tree!Present
    <3> QED BY <3>1 DEF Tree!Inv, Tree!SuccessMeansGone
  <2> QED BY <2>1, <2>2, <2>3, <2>4, <2>5 DEF Tree!Inv
<1>3. ASSUME NEW p \in Tree!Procs, Tree!Exit(p) PROVE Tree!Inv'
  <2>1. Tree!TreeInv'
    <3> USE DEF Tree!Inv, Tree!TreeInv
    <3>1. /\ v1' = [v1 EXCEPT ![p] = "zombie"] /\ v1[p] = "alive" /\ p \in Tree!Procs /\ UNCHANGED <<v2, v4, v5, v7>>
          /\ v3' = [j \in Tree!Procs |-> IF v3[j] = p /\ Tree!Present(j) THEN Tree!Shim ELSE v3[j]]
      BY <1>3 DEF Tree!Exit
    <3>2. v1' \in [Tree!Procs -> Tree!Stages] /\ \A j \in Tree!Procs : v1'[j] = IF j = p THEN "zombie" ELSE v1[j]
      BY <3>1 DEF Tree!Stages
    <3>3. v3' \in [Tree!Procs -> Nat] /\ \A j \in Tree!Procs : v3'[j] = IF v3[j] = p /\ Tree!Present(j) THEN Tree!Shim ELSE v3[j]
      BY <3>1, TreeProcs
    <3>4. \A j \in Tree!Procs : (Tree!Known(j)' <=> Tree!Known(j)) /\ (Tree!Present(j)' <=> Tree!Present(j))
      BY <3>1, <3>2 DEF Tree!Known, Tree!Present
    <3>5. \A j, q \in Tree!Procs : Tree!Present(j)' /\ v3'[j] = q /\ v1[q] = "alive" => v1'[q] = "alive"
      BY <3>1, <3>2, <3>3, <3>4, TreeProcs
    <3>6. v7' \notin {"drain", "done", "timeout"} => Tree!Present(Tree!Root)'
      BY <3>1, <3>4, TreeProcs
    <3>7. \A j \in Tree!Procs : v3'[j] = v3[j] \/ (v3'[j] = Tree!Shim /\ v3[j] \in Tree!Procs)
      BY <3>1, <3>3
    <3> HIDE DEF Tree!Inv, Tree!TreeInv
    <3> QED BY <3>1, <3>2, <3>3, <3>4, <3>5, <3>6, <3>7, TreeEnds DEF Tree!Inv
  <2>2. Tree!SnapInv'
    BY <1>3 DEF Tree!Exit, Tree!tree, Tree!snapshot, Tree!Inv, Tree!TreeInv, Tree!SnapInv, Tree!DrainInv,
           Tree!SignalInv, Tree!SuccessMeansGone, Tree!Known, Tree!Present, Tree!Vmm, Tree!Named
  <2>3. Tree!DrainInv'
    BY <1>3 DEF Tree!Exit, Tree!tree, Tree!snapshot, Tree!Inv, Tree!TreeInv, Tree!SnapInv, Tree!DrainInv,
           Tree!SignalInv, Tree!SuccessMeansGone, Tree!Known, Tree!Present, Tree!Vmm, Tree!Coming
  <2>4. Tree!SignalInv'
    BY <1>3 DEF Tree!Exit, Tree!tree, Tree!snapshot, Tree!Inv, Tree!TreeInv, Tree!SnapInv, Tree!DrainInv,
           Tree!SignalInv, Tree!SuccessMeansGone, Tree!Known, Tree!Present, Tree!Vmm
  <2>5. Tree!SuccessMeansGone'
    BY <1>3 DEF Tree!Exit, Tree!tree, Tree!snapshot, Tree!Inv, Tree!TreeInv, Tree!SnapInv, Tree!DrainInv,
           Tree!SignalInv, Tree!SuccessMeansGone, Tree!Known, Tree!Present, Tree!Vmm
  <2> QED BY <2>1, <2>2, <2>3, <2>4, <2>5 DEF Tree!Inv
<1>4. ASSUME NEW p \in Tree!Procs, Tree!Reap(p) PROVE Tree!Inv'
  <2>1. Tree!TreeInv'
    <3>1. UNCHANGED <<v2, v3, v4, v5, v7>> /\ v1' = [v1 EXCEPT ![p] = "gone"] /\ v1[p] = "zombie" /\ v3[p] # Tree!Shim
      BY <1>4 DEF Tree!Reap
    <3>2. v1 \in [Tree!Procs -> Tree!Stages]
      BY DEF Tree!Inv, Tree!TreeInv
    <3>3. v1' \in [Tree!Procs -> Tree!Stages] /\ \A j \in Tree!Procs : v1'[j] = v1[j] \/ (v1[j] = "zombie" /\ v1'[j] = "gone")
      BY <3>1, <3>2 DEF Tree!Stages
    <3>4. v3' \in [Tree!Procs -> Nat]
      BY <3>1 DEF Tree!Inv, Tree!TreeInv
    <3>5. \A j \in Tree!Procs : (Tree!Known(j)' <=> Tree!Known(j)) /\ (Tree!Present(j)' => Tree!Present(j))
      BY <3>3 DEF Tree!Known, Tree!Present
    <3>6. \A j \in Tree!Procs : v1[j] = "alive" => v1'[j] = "alive"
      BY <3>3
    <3>7. v7' \notin {"drain", "done", "timeout"} => Tree!Present(Tree!Root)'
      <4>1. p # Tree!Root
        BY <3>1 DEF Tree!Inv, Tree!TreeInv
      <4>2. v1'[Tree!Root] = v1[Tree!Root]
        BY <3>1, <3>2, <4>1, TreeProcs
      <4> QED BY <3>1, <4>2 DEF Tree!Inv, Tree!TreeInv, Tree!Present
    <3> QED BY <3>1, <3>3, <3>4, <3>5, <3>6, <3>7, TreeEnds DEF Tree!Inv
  <2>2. Tree!SnapInv'
    BY SMTT(30), <1>4 DEF Tree!Reap, Tree!tree, Tree!snapshot, Tree!Inv, Tree!TreeInv, Tree!SnapInv,
           Tree!DrainInv,
           Tree!SignalInv, Tree!SuccessMeansGone, Tree!Known, Tree!Present, Tree!Vmm, Tree!Named
  <2>3. Tree!DrainInv'
    BY <1>4 DEF Tree!Reap, Tree!tree, Tree!snapshot, Tree!Inv, Tree!TreeInv, Tree!SnapInv, Tree!DrainInv,
           Tree!SignalInv, Tree!SuccessMeansGone, Tree!Known, Tree!Present, Tree!Vmm, Tree!Coming
  <2>4. Tree!SignalInv'
    BY <1>4 DEF Tree!Reap, Tree!tree, Tree!snapshot, Tree!Inv, Tree!TreeInv, Tree!SnapInv, Tree!DrainInv,
           Tree!SignalInv, Tree!SuccessMeansGone, Tree!Known, Tree!Present, Tree!Vmm
  <2>5. Tree!SuccessMeansGone'
    BY <1>4 DEF Tree!Reap, Tree!tree, Tree!snapshot, Tree!Inv, Tree!TreeInv, Tree!SnapInv, Tree!DrainInv,
           Tree!SignalInv, Tree!SuccessMeansGone, Tree!Known, Tree!Present, Tree!Vmm
  <2> QED BY <2>1, <2>2, <2>3, <2>4, <2>5 DEF Tree!Inv
<1>5. CASE Tree!Stranger
  <2>1. Tree!TreeInv'
    <3>1. PICK i \in Tree!Procs, q \in PidNumbers : Tree!Born(i, q, Tree!Outside, q, "other")
      BY <1>5 DEF Tree!Stranger
    <3>2. q \in Nat
      BY TreeProcs
    <3> QED BY <3>1, <3>2, TreeBorn DEF Tree!Inv
  <2>2. Tree!SnapInv'
    <3>1. PICK i \in Tree!Procs, q \in PidNumbers : Tree!Born(i, q, Tree!Outside, q, "other")
      BY <1>5 DEF Tree!Stranger
    <3>2. q \in Nat
      BY TreeProcs
    <3>5. /\ \A j \in Tree!Procs : Tree!Known(j) => Tree!Known(j)' /\ (Tree!Present(j)' <=> Tree!Present(j))
          /\ \A j \in Tree!Procs : Tree!Known(j) => v2'[j] = v2[j] /\ v3'[j] = v3[j] /\ v5'[j] = v5[j]
          /\ Tree!Vmm' \subseteq Tree!Vmm \cup {i}
      BY <3>1, <3>2, TreeBorn DEF Tree!Inv
    <3>6. UNCHANGED <<v6, v7, v8, v9, v10, v11, v12, v13, v14, v15>>
      BY <3>1 DEF Tree!Born, Tree!snapshot
    <3> QED BY <3>5, <3>6, TreeSnap DEF Tree!Inv
  <2>3. Tree!DrainInv'
    <3>1. PICK i \in Tree!Procs, q \in PidNumbers : Tree!Born(i, q, Tree!Outside, q, "other")
      BY <1>5 DEF Tree!Stranger
    <3>2. q \in Nat
      BY TreeProcs
    <3>5. /\ \A j \in Tree!Procs : Tree!Known(j) => Tree!Known(j)' /\ (Tree!Present(j)' <=> Tree!Present(j))
          /\ \A j \in Tree!Procs : Tree!Known(j) => v2'[j] = v2[j] /\ v3'[j] = v3[j] /\ v5'[j] = v5[j]
          /\ Tree!Vmm' \subseteq Tree!Vmm \cup {i}
      BY <3>1, <3>2, TreeBorn DEF Tree!Inv
    <3>6. UNCHANGED <<v6, v7, v8, v9, v10, v11, v12, v13, v14, v15>>
      BY <3>1 DEF Tree!Born, Tree!snapshot
    <3>7. i \notin Tree!Vmm'
      BY <3>1, <3>2, TreeBorn DEF Tree!Inv, Tree!Vmm
    <3>8. Tree!Coming => Tree!Coming'
      BY <3>5, <3>6 DEF Tree!Coming, Tree!Vmm, Tree!Present, Tree!Known
    <3>9. (\A j \in Tree!Vmm : ~Tree!Present(j)) => \A j \in Tree!Vmm' : ~Tree!Present(j)'
      <4>1. \A j \in Tree!Vmm' : j \in Tree!Vmm /\ j \in Tree!Procs
        BY <3>5, <3>7 DEF Tree!Vmm
      <4>2. i \notin Tree!Vmm' /\ \A j \in Tree!Procs : j # i => v1'[j] = v1[j]
        BY <3>1, <3>7 DEF Tree!Born, Tree!Inv, Tree!TreeInv
      <4> QED BY <4>1, <4>2 DEF Tree!Present
    <3> QED BY <3>6, <3>8, <3>9 DEF Tree!Inv, Tree!DrainInv
  <2>4. Tree!SignalInv'
    <3>1. PICK i \in Tree!Procs, q \in PidNumbers : Tree!Born(i, q, Tree!Outside, q, "other")
      BY <1>5 DEF Tree!Stranger
    <3>2. q \in Nat
      BY TreeProcs
    <3>5. /\ \A j \in Tree!Procs : Tree!Known(j) => Tree!Known(j)' /\ (Tree!Present(j)' <=> Tree!Present(j))
          /\ \A j \in Tree!Procs : Tree!Known(j) => v2'[j] = v2[j] /\ v3'[j] = v3[j] /\ v5'[j] = v5[j]
          /\ Tree!Vmm' \subseteq Tree!Vmm \cup {i}
      BY <3>1, <3>2, TreeBorn DEF Tree!Inv
    <3>6. UNCHANGED <<v6, v7, v8, v9, v10, v11, v12, v13, v14, v15>>
      BY <3>1 DEF Tree!Born, Tree!snapshot
    <3> QED BY <3>5, <3>6 DEF Tree!Inv, Tree!SignalInv, Tree!Vmm
  <2>5. Tree!SuccessMeansGone'
    <3>1. PICK i \in Tree!Procs, q \in PidNumbers : Tree!Born(i, q, Tree!Outside, q, "other")
      BY <1>5 DEF Tree!Stranger
    <3>2. q \in Nat
      BY TreeProcs
    <3>5. /\ \A j \in Tree!Procs : Tree!Known(j) => Tree!Known(j)' /\ (Tree!Present(j)' <=> Tree!Present(j))
          /\ \A j \in Tree!Procs : Tree!Known(j) => v2'[j] = v2[j] /\ v3'[j] = v3[j] /\ v5'[j] = v5[j]
          /\ Tree!Vmm' \subseteq Tree!Vmm \cup {i}
      BY <3>1, <3>2, TreeBorn DEF Tree!Inv
    <3>6. UNCHANGED <<v6, v7, v8, v9, v10, v11, v12, v13, v14, v15>>
      BY <3>1 DEF Tree!Born, Tree!snapshot
    <3>7. i \notin Tree!Vmm'
      BY <3>1, <3>2, TreeBorn DEF Tree!Inv, Tree!Vmm
    <3>9. (\A j \in Tree!Vmm : ~Tree!Present(j)) => \A j \in Tree!Vmm' : ~Tree!Present(j)'
      <4>1. \A j \in Tree!Vmm' : j \in Tree!Vmm /\ j \in Tree!Procs
        BY <3>5, <3>7 DEF Tree!Vmm
      <4>2. i \notin Tree!Vmm' /\ \A j \in Tree!Procs : j # i => v1'[j] = v1[j]
        BY <3>1, <3>7 DEF Tree!Born, Tree!Inv, Tree!TreeInv
      <4> QED BY <4>1, <4>2 DEF Tree!Present
    <3> QED BY <3>6, <3>9 DEF Tree!Inv, Tree!SuccessMeansGone
  <2> QED BY <2>1, <2>2, <2>3, <2>4, <2>5 DEF Tree!Inv
<1>6. CASE Tree!SnapStart
  <2>1. Tree!TreeInv'
    BY <1>6 DEF Tree!SnapStart, Tree!tree, Tree!snapshot, Tree!Inv, Tree!TreeInv, Tree!SnapInv, Tree!DrainInv,
           Tree!SignalInv, Tree!SuccessMeansGone, Tree!Known, Tree!Present, Tree!Vmm
  <2>2. Tree!SnapInv'
    <3>1. /\ UNCHANGED <<v1, v2, v5, v7, v10, v12>> /\ v8' = "parent" /\ v9' \subseteq {Tree!Shim, Tree!Root} /\ v7 \in {"snapA", "snapB", "drain"}
          /\ v13' = <<>> /\ (v14' = v13 \/ v14' = <<>>)
      BY <1>6 DEF Tree!SnapStart, Tree!SnapRoot, Tree!tree
    <3>2. Tree!Root \in Tree!Vmm /\ Tree!Known(Tree!Root)
      BY TreeProcs DEF Tree!Inv, Tree!TreeInv, Tree!Vmm
    <3>3. Tree!Named(<<>>)
      BY DEF Tree!Named
    <3>4. Tree!Named(v13') /\ Tree!Named(v14')
      BY <3>1, <3>3 DEF Tree!Inv, Tree!SnapInv
    <3>5. Tree!Vmm' = Tree!Vmm /\ \A j : Tree!Known(j)' <=> Tree!Known(j)
      BY <3>1 DEF Tree!Vmm, Tree!Known
    <3>6. Tree!Named(v13)' /\ Tree!Named(v14)'
      BY <3>1, <3>4, <3>5 DEF Tree!Named
    <3>7. \A j \in v9' \cup {v10'} : j = Tree!Shim \/ (j \in Tree!Vmm /\ Tree!Known(j))
      BY <3>1, <3>2 DEF Tree!Inv, Tree!SnapInv
    <3> QED BY <3>1, <3>5, <3>6, <3>7 DEF Tree!SnapInv
  <2>3. Tree!DrainInv'
    BY <1>6 DEF Tree!SnapStart, Tree!tree, Tree!snapshot, Tree!Inv, Tree!TreeInv, Tree!SnapInv, Tree!DrainInv,
           Tree!SignalInv, Tree!SuccessMeansGone, Tree!Known, Tree!Present, Tree!Vmm, Tree!Coming
  <2>4. Tree!SignalInv'
    BY <1>6 DEF Tree!SnapStart, Tree!tree, Tree!snapshot, Tree!Inv, Tree!TreeInv, Tree!SnapInv, Tree!DrainInv,
           Tree!SignalInv, Tree!SuccessMeansGone, Tree!Known, Tree!Present, Tree!Vmm
  <2>5. Tree!SuccessMeansGone'
    BY <1>6 DEF Tree!SnapStart, Tree!tree, Tree!snapshot, Tree!Inv, Tree!TreeInv, Tree!SnapInv, Tree!DrainInv,
           Tree!SignalInv, Tree!SuccessMeansGone, Tree!Known, Tree!Present, Tree!Vmm
  <2> QED BY <2>1, <2>2, <2>3, <2>4, <2>5 DEF Tree!Inv
<1>7. CASE Tree!SnapParent
  <2>1. Tree!TreeInv'
    BY <1>7 DEF Tree!SnapParent, Tree!tree, Tree!snapshot, Tree!Inv, Tree!TreeInv, Tree!SnapInv, Tree!DrainInv,
           Tree!SignalInv, Tree!SuccessMeansGone, Tree!Known, Tree!Present, Tree!Vmm
  <2>2. Tree!SnapInv'
    BY <1>7 DEF Tree!SnapParent, Tree!tree, Tree!snapshot, Tree!Inv, Tree!TreeInv, Tree!SnapInv, Tree!DrainInv,
           Tree!SignalInv, Tree!SuccessMeansGone, Tree!Known, Tree!Present, Tree!Vmm, Tree!Named
  <2>3. Tree!DrainInv'
    <3>1. PICK q \in v9 : /\ v9' = v9 \ {q}
                       /\ IF q = Tree!Shim \/ Tree!Present(q)
                          THEN /\ v10' = q /\ v8' = "child"
                               /\ v11' = {v2[j] : j \in {k \in Tree!Procs : Tree!Present(k) /\ v3[k] = q}}
                          ELSE UNCHANGED <<v10, v8, v11>>
      BY <1>7 DEF Tree!SnapParent
    <3>2. UNCHANGED <<v1, v2, v3, v5, v7, v13>> /\ v8 = "parent"
      BY <1>7 DEF Tree!SnapParent, Tree!tree
    <3>3. (\A j \in Tree!Vmm : ~Tree!Present(j)) => \A j \in Tree!Vmm' : ~Tree!Present(j)'
      BY <3>2 DEF Tree!Vmm, Tree!Present
    <3>4. CASE q # Tree!Shim
      <4>1. ~Tree!Coming
        BY <3>2 DEF Tree!Coming
      <4>2. Tree!Shim \in v9 => Tree!Shim \in v9'
        BY <3>1, <3>4
      <4> QED BY <3>2, <3>3, <4>1, <4>2 DEF Tree!Inv, Tree!DrainInv
    <3>5. CASE q = Tree!Shim /\ \A j \in Tree!Vmm : ~Tree!Present(j)
      BY <3>3, <3>5 DEF Tree!DrainInv
    <3>6. CASE q = Tree!Shim /\ \E j \in Tree!Vmm : Tree!Present(j)
      <4>1. PICK k \in Tree!Vmm : Tree!Present(k) /\ v3[k] = Tree!Shim
        BY <3>6, TreeChild DEF Tree!Inv
      <4>2. v10' = Tree!Shim /\ v8' = "child" /\ v2[k] \in v11' /\ k \in Tree!Procs
        BY <3>1, <3>6, <4>1 DEF Tree!Vmm
      <4>3. k \in Tree!Vmm' /\ Tree!Present(k)' /\ v3'[k] = Tree!Shim /\ v2'[k] \in v11'
        BY <3>2, <4>1, <4>2 DEF Tree!Vmm, Tree!Present
      <4> QED BY <4>2, <4>3 DEF Tree!DrainInv, Tree!Coming
    <3> QED BY <3>4, <3>5, <3>6
  <2>4. Tree!SignalInv'
    BY <1>7 DEF Tree!SnapParent, Tree!tree, Tree!snapshot, Tree!Inv, Tree!TreeInv, Tree!SnapInv, Tree!DrainInv,
           Tree!SignalInv, Tree!SuccessMeansGone, Tree!Known, Tree!Present, Tree!Vmm
  <2>5. Tree!SuccessMeansGone'
    BY <1>7 DEF Tree!SnapParent, Tree!tree, Tree!snapshot, Tree!Inv, Tree!TreeInv, Tree!SnapInv, Tree!DrainInv,
           Tree!SignalInv, Tree!SuccessMeansGone, Tree!Known, Tree!Present, Tree!Vmm
  <2> QED BY <2>1, <2>2, <2>3, <2>4, <2>5 DEF Tree!Inv
<1>8. CASE Tree!SnapChild
  <2>1. Tree!TreeInv'
    BY <1>8 DEF Tree!SnapChild, Tree!tree, Tree!snapshot, Tree!Inv, Tree!TreeInv, Tree!SnapInv, Tree!DrainInv,
           Tree!SignalInv, Tree!SuccessMeansGone, Tree!Known, Tree!Present, Tree!Vmm
  <2>2. Tree!SnapInv'
    <3>1. PICK q \in v11 : /\ v11' = v11 \ {q}
                        /\ \/ /\ Tree!Free(q) \/ q \in DOMAIN v13 \/ q \in {v2[r] : r \in Tree!SnapRoot}
                              /\ UNCHANGED <<v8, v12>>
                           \/ /\ q \notin DOMAIN v13 /\ q \notin {v2[r] : r \in Tree!SnapRoot}
                              /\ \E i \in Tree!At(q) : v12' = i /\ v8' = "check"
      BY <1>8 DEF Tree!SnapChild
    <3>2. UNCHANGED <<v1, v2, v3, v4, v5, v7, v9, v10, v13, v14>> /\ v8 = "child"
      BY <1>8 DEF Tree!SnapChild, Tree!tree
    <3>3. v8' = "check" => v12' \in Tree!Procs /\ Tree!Known(v12')
      BY <3>1, <3>2 DEF Tree!At, Tree!Known, Tree!Present
    <3>4. v8' # "off" => v7' \in {"snapA", "snapB", "drain"}
      BY <3>2 DEF Tree!Inv, Tree!SnapInv
    <3>5. Tree!Vmm' = Tree!Vmm /\ \A j : Tree!Known(j)' <=> Tree!Known(j)
      BY <3>2 DEF Tree!Vmm, Tree!Known
    <3>6. Tree!Named(v13)' /\ Tree!Named(v14)'
      BY <3>2, <3>5 DEF Tree!Inv, Tree!SnapInv, Tree!Named
    <3>7. v12' \in Tree!Procs /\ Tree!Known(v12') => v12' \in Tree!Procs /\ Tree!Known(v12)'
      BY <3>2 DEF Tree!Known
    <3> QED BY <3>2, <3>3, <3>4, <3>5, <3>6, <3>7 DEF Tree!Inv, Tree!SnapInv
  <2>3. Tree!DrainInv'
    <3>1. PICK q \in v11 : /\ v11' = v11 \ {q}
                        /\ \/ /\ Tree!Free(q) \/ q \in DOMAIN v13 \/ q \in {v2[r] : r \in Tree!SnapRoot}
                              /\ UNCHANGED <<v8, v12>>
                           \/ /\ q \notin DOMAIN v13 /\ q \notin {v2[r] : r \in Tree!SnapRoot}
                              /\ \E i \in Tree!At(q) : v12' = i /\ v8' = "check"
      BY <1>8 DEF Tree!SnapChild
    <3>2. UNCHANGED <<v1, v2, v3, v4, v5, v7, v9, v10, v13, v14>> /\ v8 = "child"
      BY <1>8 DEF Tree!SnapChild, Tree!tree
    <3>3. (\A j \in Tree!Vmm : ~Tree!Present(j)) => \A j \in Tree!Vmm' : ~Tree!Present(j)'
      BY <3>2 DEF Tree!Vmm, Tree!Present
    <3>4. SUFFICES ASSUME v7 = "drain", Tree!Shim \notin v9, DOMAIN v13 = {}, Tree!Coming PROVE Tree!Coming'
      BY <3>2, <3>3 DEF Tree!Inv, Tree!DrainInv
    <3>5. PICK k \in Tree!Vmm : Tree!Present(k) /\ v3[k] = Tree!Shim /\ v2[k] \in v11
      BY <3>2, <3>4 DEF Tree!Coming
    <3>6. k \in Tree!Vmm' /\ Tree!Present(k)' /\ v3'[k] = Tree!Shim /\ v2'[k] = v2[k] /\ k \in Tree!Procs /\ v10' = Tree!Shim
      BY <3>2, <3>4, <3>5 DEF Tree!Vmm, Tree!Present, Tree!Coming
    <3>7. v8' \in {"child", "check"}
      BY <3>1, <3>2
    <3>8. CASE v2[k] # q
      BY <3>1, <3>5, <3>6, <3>7, <3>8 DEF Tree!Coming
    <3>9. CASE v2[k] = q
      <4>1. ~Tree!Free(q) /\ k \in Tree!At(q)
        BY <3>5, <3>6, <3>9 DEF Tree!Free, Tree!At
      <4>2. Tree!SnapRoot = {}
        BY <3>4 DEF Tree!SnapRoot
      <4>3. PICK i \in Tree!At(q) : v12' = i /\ v8' = "check"
        BY <3>1, <3>4, <4>1, <4>2
      <4>4. i = k
        BY <4>1, <4>3 DEF Tree!At, Tree!Inv, Tree!TreeInv
      <4> QED BY <3>6, <4>3, <4>4 DEF Tree!Coming
    <3> QED BY <3>8, <3>9
  <2>4. Tree!SignalInv'
    BY <1>8 DEF Tree!SnapChild, Tree!tree, Tree!snapshot, Tree!Inv, Tree!TreeInv, Tree!SnapInv, Tree!DrainInv,
           Tree!SignalInv, Tree!SuccessMeansGone, Tree!Known, Tree!Present, Tree!Vmm
  <2>5. Tree!SuccessMeansGone'
    BY <1>8 DEF Tree!SnapChild, Tree!tree, Tree!snapshot, Tree!Inv, Tree!TreeInv, Tree!SnapInv, Tree!DrainInv,
           Tree!SignalInv, Tree!SuccessMeansGone, Tree!Known, Tree!Present, Tree!Vmm
  <2> QED BY <2>1, <2>2, <2>3, <2>4, <2>5 DEF Tree!Inv
<1>9. CASE Tree!SnapNext
  <2>1. Tree!TreeInv'
    BY <1>9 DEF Tree!SnapNext, Tree!tree, Tree!snapshot, Tree!Inv, Tree!TreeInv, Tree!SnapInv, Tree!DrainInv,
           Tree!SignalInv, Tree!SuccessMeansGone, Tree!Known, Tree!Present, Tree!Vmm
  <2>2. Tree!SnapInv'
    BY <1>9 DEF Tree!SnapNext, Tree!tree, Tree!snapshot, Tree!Inv, Tree!TreeInv, Tree!SnapInv, Tree!DrainInv,
           Tree!SignalInv, Tree!SuccessMeansGone, Tree!Known, Tree!Present, Tree!Vmm, Tree!Named
  <2>3. Tree!DrainInv'
    BY <1>9 DEF Tree!SnapNext, Tree!tree, Tree!snapshot, Tree!Inv, Tree!TreeInv, Tree!SnapInv, Tree!DrainInv,
           Tree!SignalInv, Tree!SuccessMeansGone, Tree!Known, Tree!Present, Tree!Vmm, Tree!Coming
  <2>4. Tree!SignalInv'
    BY <1>9 DEF Tree!SnapNext, Tree!tree, Tree!snapshot, Tree!Inv, Tree!TreeInv, Tree!SnapInv, Tree!DrainInv,
           Tree!SignalInv, Tree!SuccessMeansGone, Tree!Known, Tree!Present, Tree!Vmm
  <2>5. Tree!SuccessMeansGone'
    BY <1>9 DEF Tree!SnapNext, Tree!tree, Tree!snapshot, Tree!Inv, Tree!TreeInv, Tree!SnapInv, Tree!DrainInv,
           Tree!SignalInv, Tree!SuccessMeansGone, Tree!Known, Tree!Present, Tree!Vmm
  <2> QED BY <2>1, <2>2, <2>3, <2>4, <2>5 DEF Tree!Inv
<1>10. CASE Tree!SnapCheck
  <2>1. Tree!TreeInv'
    BY <1>10 DEF Tree!SnapCheck, Tree!tree, Tree!snapshot, Tree!Inv, Tree!TreeInv, Tree!SnapInv, Tree!DrainInv,
           Tree!SignalInv, Tree!SuccessMeansGone, Tree!Known, Tree!Present, Tree!Vmm
  <2>2. Tree!SnapInv'
    <3> DEFINE q == v2[v12]
    <3>1. /\ UNCHANGED <<v1, v2, v3, v4, v5, v7, v10, v11, v12, v14>> /\ v8 = "check" /\ v8' = "child"
          /\ v12 \in Tree!Procs /\ Tree!Known(v12)
      BY <1>10 DEF Tree!SnapCheck, Tree!tree, Tree!Inv, Tree!SnapInv
    <3>2. \/ /\ ~\E i \in Tree!At(q) : ~Tree!Kept(i) /\ v3[i] \in {v10, Tree!Shim}
             /\ UNCHANGED <<v9, v13>>
          \/ \E i \in Tree!At(q) :
                /\ ~Tree!Kept(i) /\ v3[i] \in {v10, Tree!Shim}
                /\ v13' = Tree!Over([x \in {q} |-> [start |-> i, fd |-> v12]], v13)
                /\ v9' = v9 \cup {i}
      <4>1. \A i, j \in Tree!At(q) : i = j
        BY DEF Tree!At, Tree!Inv, Tree!TreeInv
      <4> QED BY <1>10, <4>1 DEF Tree!SnapCheck
    <3> HIDE DEF q
    <3>3. Tree!Vmm' = Tree!Vmm /\ \A j : Tree!Known(j)' <=> Tree!Known(j)
      BY <3>1 DEF Tree!Vmm, Tree!Known
    <3>4. v8' # "off" => v7' \in {"snapA", "snapB", "drain"}
      BY <3>1 DEF Tree!Inv, Tree!SnapInv
    <3>5. Tree!Named(v14)'
      BY <3>1, <3>3 DEF Tree!Inv, Tree!SnapInv, Tree!Named
    <3>6. CASE UNCHANGED <<v9, v13>>
      <4>1. Tree!Named(v13)'
        BY <3>1, <3>3, <3>6 DEF Tree!Inv, Tree!SnapInv, Tree!Named
      <4> QED BY <3>1, <3>3, <3>4, <3>5, <3>6, <4>1 DEF Tree!Inv, Tree!SnapInv
    <3>7. ASSUME NEW i \in Tree!At(q), ~Tree!Kept(i), v3[i] \in {v10, Tree!Shim},
                 v13' = Tree!Over([x \in {q} |-> [start |-> i, fd |-> v12]], v13), v9' = v9 \cup {i}
          PROVE  Tree!SnapInv'
      <4>1. i \in Tree!Procs /\ Tree!Present(i) /\ v2[i] = q /\ Tree!Known(i) /\ v2[v12] = q
        BY <3>7 DEF Tree!At, Tree!Known, Tree!Present, q
      <4>2. v5[i] # "other"
        <5>1. v10 # Tree!Outside
          BY TreeProcs DEF Tree!Inv, Tree!SnapInv, Tree!Vmm
        <5> QED BY <3>7, <4>1, <5>1, TreeProcs DEF Tree!Inv, Tree!TreeInv
      <4>3. v5[i] # "side"
        BY <3>7, <4>1 DEF Tree!Kept, Tree!Inv, Tree!TreeInv
      <4>4. i \in Tree!Vmm
        BY <4>1, <4>2, <4>3 DEF Tree!Inv, Tree!TreeInv, Tree!Vmm
      <4>5. /\ DOMAIN v13' = {q} \cup DOMAIN v13
            /\ v13'[q].start = i /\ v13'[q].fd = v12
            /\ \A x \in DOMAIN v13 : x # q => v13'[x] = v13[x]
        BY <3>7 DEF Tree!Over
      <4>6. ASSUME NEW x \in DOMAIN v13'
            PROVE  /\ v13'[x].start \in Tree!Vmm /\ Tree!Known(v13'[x].start) /\ v2[v13'[x].start] = x
                   /\ v13'[x].fd \in Tree!Procs /\ Tree!Known(v13'[x].fd) /\ v2[v13'[x].fd] = x
        <5>1. CASE x = q
          BY <3>1, <4>1, <4>4, <4>5, <5>1
        <5>2. CASE x # q
          BY <4>5, <5>2 DEF Tree!Inv, Tree!SnapInv, Tree!Named
        <5> QED BY <5>1, <5>2
      <4>7. Tree!Named(v13)'
        BY <3>1, <3>3, <4>6 DEF Tree!Named
      <4>8. \A j \in v9' \cup {v10'} : j = Tree!Shim \/ (j \in Tree!Vmm /\ Tree!Known(j))
        BY <3>1, <3>7, <4>1, <4>4 DEF Tree!Inv, Tree!SnapInv
      <4> QED BY <3>1, <3>3, <3>4, <3>5, <4>7, <4>8 DEF Tree!SnapInv
    <3> QED BY <3>2, <3>6, <3>7
  <2>3. Tree!DrainInv'
    <3> DEFINE q == v2[v12]
    <3>1. /\ UNCHANGED <<v1, v2, v3, v4, v5, v7, v10, v11, v12, v14>> /\ v8 = "check" /\ v8' = "child"
          /\ v12 \in Tree!Procs /\ Tree!Known(v12)
      BY <1>10 DEF Tree!SnapCheck, Tree!tree, Tree!Inv, Tree!SnapInv
    <3>2. \/ /\ ~\E i \in Tree!At(q) : ~Tree!Kept(i) /\ v3[i] \in {v10, Tree!Shim}
             /\ UNCHANGED <<v9, v13>>
          \/ \E i \in Tree!At(q) :
                /\ ~Tree!Kept(i) /\ v3[i] \in {v10, Tree!Shim}
                /\ v13' = Tree!Over([x \in {q} |-> [start |-> i, fd |-> v12]], v13)
                /\ v9' = v9 \cup {i}
      <4>1. \A i, j \in Tree!At(q) : i = j
        BY DEF Tree!At, Tree!Inv, Tree!TreeInv
      <4> QED BY <1>10, <4>1 DEF Tree!SnapCheck
    <3>3. (\A j \in Tree!Vmm : ~Tree!Present(j)) => \A j \in Tree!Vmm' : ~Tree!Present(j)'
      BY <3>1 DEF Tree!Vmm, Tree!Present
    <3>4. CASE UNCHANGED <<v9, v13>> /\ ~\E i \in Tree!At(q) : ~Tree!Kept(i) /\ v3[i] \in {v10, Tree!Shim}
      <4>1. SUFFICES ASSUME v7 = "drain", Tree!Shim \notin v9, DOMAIN v13 = {}, Tree!Coming PROVE Tree!Coming'
        BY <3>1, <3>3, <3>4 DEF Tree!Inv, Tree!DrainInv
      <4>2. PICK k \in Tree!Vmm : Tree!Present(k) /\ v3[k] = Tree!Shim /\ (v2[k] \in v11 \/ v12 = k)
        BY <3>1, <4>1 DEF Tree!Coming
      <4>3. v12 # k
        <5>1. SUFFICES ASSUME v12 = k PROVE FALSE
          OBVIOUS
        <5>2. k \in Tree!At(q) /\ k \in Tree!Procs
          BY <4>2, <5>1 DEF Tree!At, Tree!Vmm
        <5>3. v5[k] = "vmm"
          BY <4>2 DEF Tree!Vmm
        <5>4. ~Tree!Kept(k)
          BY <5>2, <5>3 DEF Tree!Kept, Tree!Inv, Tree!TreeInv
        <5> QED BY <3>4, <4>2, <5>2, <5>4
      <4>4. k \in Tree!Vmm' /\ Tree!Present(k)' /\ v3'[k] = Tree!Shim /\ v2'[k] \in v11' /\ v10' = Tree!Shim
        BY <3>1, <4>1, <4>2, <4>3 DEF Tree!Vmm, Tree!Present, Tree!Coming
      <4> QED BY <3>1, <4>4 DEF Tree!Coming
    <3>5. ASSUME NEW i \in Tree!At(q), v13' = Tree!Over([x \in {q} |-> [start |-> i, fd |-> v12]], v13)
          PROVE  Tree!DrainInv'
      <4>1. q \in DOMAIN v13'
        BY <3>5 DEF Tree!Over
      <4> QED BY <4>1 DEF Tree!DrainInv
    <3> QED BY <3>2, <3>4, <3>5
  <2>4. Tree!SignalInv'
    BY <1>10 DEF Tree!SnapCheck, Tree!tree, Tree!snapshot, Tree!Inv, Tree!TreeInv, Tree!SnapInv, Tree!DrainInv,
           Tree!SignalInv, Tree!SuccessMeansGone, Tree!Known, Tree!Present, Tree!Vmm
  <2>5. Tree!SuccessMeansGone'
    BY <1>10 DEF Tree!SnapCheck, Tree!tree, Tree!snapshot, Tree!Inv, Tree!TreeInv, Tree!SnapInv, Tree!DrainInv,
           Tree!SignalInv, Tree!SuccessMeansGone, Tree!Known, Tree!Present, Tree!Vmm
  <2> QED BY <2>1, <2>2, <2>3, <2>4, <2>5 DEF Tree!Inv
<1>11. CASE Tree!SnapFails
  <2>1. Tree!TreeInv'
    BY <1>11 DEF Tree!SnapFails, Tree!tree, Tree!snapshot, Tree!Inv, Tree!TreeInv, Tree!SnapInv, Tree!DrainInv,
           Tree!SignalInv, Tree!SuccessMeansGone, Tree!Known, Tree!Present, Tree!Vmm
  <2>2. Tree!SnapInv'
    BY <1>11 DEF Tree!SnapFails, Tree!tree, Tree!snapshot, Tree!Inv, Tree!TreeInv, Tree!SnapInv, Tree!DrainInv,
           Tree!SignalInv, Tree!SuccessMeansGone, Tree!Known, Tree!Present, Tree!Vmm, Tree!Named
  <2>3. Tree!DrainInv'
    BY <1>11 DEF Tree!SnapFails, Tree!tree, Tree!snapshot, Tree!Inv, Tree!TreeInv, Tree!SnapInv, Tree!DrainInv,
           Tree!SignalInv, Tree!SuccessMeansGone, Tree!Known, Tree!Present, Tree!Vmm, Tree!Coming
  <2>4. Tree!SignalInv'
    BY <1>11 DEF Tree!SnapFails, Tree!tree, Tree!snapshot, Tree!Inv, Tree!TreeInv, Tree!SnapInv, Tree!DrainInv,
           Tree!SignalInv, Tree!SuccessMeansGone, Tree!Known, Tree!Present, Tree!Vmm
  <2>5. Tree!SuccessMeansGone'
    BY <1>11 DEF Tree!SnapFails, Tree!tree, Tree!snapshot, Tree!Inv, Tree!TreeInv, Tree!SnapInv, Tree!DrainInv,
           Tree!SignalInv, Tree!SuccessMeansGone, Tree!Known, Tree!Present, Tree!Vmm
  <2> QED BY <2>1, <2>2, <2>3, <2>4, <2>5 DEF Tree!Inv
<1>12. CASE Tree!Terminate
  <2>1. Tree!TreeInv'
    BY <1>12 DEF Tree!Terminate, Tree!tree, Tree!snapshot, Tree!Inv, Tree!TreeInv, Tree!SnapInv, Tree!DrainInv,
           Tree!SignalInv, Tree!SuccessMeansGone, Tree!Known, Tree!Present, Tree!Vmm
  <2>2. Tree!SnapInv'
    BY <1>12 DEF Tree!Terminate, Tree!tree, Tree!snapshot, Tree!Inv, Tree!TreeInv, Tree!SnapInv, Tree!DrainInv,
           Tree!SignalInv, Tree!SuccessMeansGone, Tree!Known, Tree!Present, Tree!Vmm, Tree!Named
  <2>3. Tree!DrainInv'
    BY <1>12 DEF Tree!Terminate, Tree!tree, Tree!snapshot, Tree!Inv, Tree!TreeInv, Tree!SnapInv, Tree!DrainInv,
           Tree!SignalInv, Tree!SuccessMeansGone, Tree!Known, Tree!Present, Tree!Vmm, Tree!Coming
  <2>4. Tree!SignalInv'
    <3>1. UNCHANGED <<v1, v5>> /\ (v15' = v15 \/ v15' = v15 \cup Tree!Group \cup {i \in Tree!Reached : Tree!Present(i)}) /\ v7 = "snapA"
      BY <1>12 DEF Tree!Terminate, Tree!tree
    <3>2. \A j \in Tree!Group : j \in Tree!Vmm /\ Tree!Known(j)
      BY <3>1, TreeGroup DEF Tree!Inv, Tree!TreeInv
    <3>3. \A j \in Tree!Reached : Tree!Present(j) => j \in Tree!Vmm /\ Tree!Known(j)
      BY TreeReached DEF Tree!Inv, Tree!SnapInv
    <3>4. \A j \in v15' : j \in Tree!Vmm /\ Tree!Known(j)
      BY <3>1, <3>2, <3>3 DEF Tree!Inv, Tree!SignalInv
    <3> QED BY <3>1, <3>4 DEF Tree!SignalInv, Tree!Vmm, Tree!Known
  <2>5. Tree!SuccessMeansGone'
    BY <1>12 DEF Tree!Terminate, Tree!tree, Tree!snapshot, Tree!Inv, Tree!TreeInv, Tree!SnapInv, Tree!DrainInv,
           Tree!SignalInv, Tree!SuccessMeansGone, Tree!Known, Tree!Present, Tree!Vmm
  <2> QED BY <2>1, <2>2, <2>3, <2>4, <2>5 DEF Tree!Inv
<1>13. CASE Tree!Merge
  <2>1. Tree!TreeInv'
    BY <1>13 DEF Tree!Merge, Tree!tree, Tree!snapshot, Tree!Inv, Tree!TreeInv, Tree!SnapInv, Tree!DrainInv,
           Tree!SignalInv, Tree!SuccessMeansGone, Tree!Known, Tree!Present, Tree!Vmm
  <2>2. Tree!SnapInv'
    <3>1. UNCHANGED <<v1, v2, v5, v9, v10, v12, v14>> /\ v8' = "off" /\ v13' = Tree!Over(v13, v14)
      BY <1>13 DEF Tree!Merge, Tree!tree
    <3>2. \A x \in DOMAIN v13' : (x \in DOMAIN v13 /\ v13'[x] = v13[x]) \/ (x \in DOMAIN v14 /\ v13'[x] = v14[x])
      BY <3>1 DEF Tree!Over
    <3>3. Tree!Vmm' = Tree!Vmm /\ \A j : Tree!Known(j)' <=> Tree!Known(j)
      BY <3>1 DEF Tree!Vmm, Tree!Known
    <3>4. Tree!Named(v14)'
      BY <3>1, <3>3 DEF Tree!Inv, Tree!SnapInv, Tree!Named
    <3>5. Tree!Named(v13)'
      BY <3>1, <3>2, <3>3 DEF Tree!Inv, Tree!SnapInv, Tree!Named
    <3> QED BY <3>1, <3>3, <3>4, <3>5 DEF Tree!Inv, Tree!SnapInv
  <2>3. Tree!DrainInv'
    BY <1>13 DEF Tree!Merge, Tree!tree, Tree!snapshot, Tree!Inv, Tree!TreeInv, Tree!SnapInv, Tree!DrainInv,
           Tree!SignalInv, Tree!SuccessMeansGone, Tree!Known, Tree!Present, Tree!Vmm, Tree!Coming
  <2>4. Tree!SignalInv'
    BY <1>13 DEF Tree!Merge, Tree!tree, Tree!snapshot, Tree!Inv, Tree!TreeInv, Tree!SnapInv, Tree!DrainInv,
           Tree!SignalInv, Tree!SuccessMeansGone, Tree!Known, Tree!Present, Tree!Vmm
  <2>5. Tree!SuccessMeansGone'
    BY <1>13 DEF Tree!Merge, Tree!tree, Tree!snapshot, Tree!Inv, Tree!TreeInv, Tree!SnapInv, Tree!DrainInv,
           Tree!SignalInv, Tree!SuccessMeansGone, Tree!Known, Tree!Present, Tree!Vmm
  <2> QED BY <2>1, <2>2, <2>3, <2>4, <2>5 DEF Tree!Inv
<1>14. CASE Tree!KillGroup
  <2>1. Tree!TreeInv'
    BY <1>14 DEF Tree!KillGroup, Tree!tree, Tree!snapshot, Tree!Inv, Tree!TreeInv, Tree!SnapInv, Tree!DrainInv,
           Tree!SignalInv, Tree!SuccessMeansGone, Tree!Known, Tree!Present, Tree!Vmm
  <2>2. Tree!SnapInv'
    BY <1>14 DEF Tree!KillGroup, Tree!tree, Tree!snapshot, Tree!Inv, Tree!TreeInv, Tree!SnapInv, Tree!DrainInv,
           Tree!SignalInv, Tree!SuccessMeansGone, Tree!Known, Tree!Present, Tree!Vmm, Tree!Named
  <2>3. Tree!DrainInv'
    BY <1>14 DEF Tree!KillGroup, Tree!tree, Tree!snapshot, Tree!Inv, Tree!TreeInv, Tree!SnapInv, Tree!DrainInv,
           Tree!SignalInv, Tree!SuccessMeansGone, Tree!Known, Tree!Present, Tree!Vmm, Tree!Coming
  <2>4. Tree!SignalInv'
    <3>1. Tree!Send(Tree!Group) /\ UNCHANGED <<v1, v5>> /\ v7 \in {"group", "killed"}
      BY <1>14 DEF Tree!KillGroup
    <3>2. \A j \in Tree!Group : Tree!Present(j) => j \in Tree!Vmm /\ Tree!Known(j)
      BY <3>1, TreeGroup, TreeReached DEF Tree!Inv, Tree!TreeInv, Tree!SnapInv
    <3> QED BY <3>1, <3>2, TreeSent DEF Tree!Inv
  <2>5. Tree!SuccessMeansGone'
    BY <1>14 DEF Tree!KillGroup, Tree!tree, Tree!snapshot, Tree!Inv, Tree!TreeInv, Tree!SnapInv, Tree!DrainInv,
           Tree!SignalInv, Tree!SuccessMeansGone, Tree!Known, Tree!Present, Tree!Vmm
  <2> QED BY <2>1, <2>2, <2>3, <2>4, <2>5 DEF Tree!Inv
<1>15. CASE Tree!KillFound
  <2>1. Tree!TreeInv'
    BY <1>15 DEF Tree!KillFound, Tree!tree, Tree!snapshot, Tree!Inv, Tree!TreeInv, Tree!SnapInv, Tree!DrainInv,
           Tree!SignalInv, Tree!SuccessMeansGone, Tree!Known, Tree!Present, Tree!Vmm
  <2>2. Tree!SnapInv'
    BY <1>15 DEF Tree!KillFound, Tree!tree, Tree!snapshot, Tree!Inv, Tree!TreeInv, Tree!SnapInv, Tree!DrainInv,
           Tree!SignalInv, Tree!SuccessMeansGone, Tree!Known, Tree!Present, Tree!Vmm, Tree!Named
  <2>3. Tree!DrainInv'
    BY <1>15 DEF Tree!KillFound, Tree!tree, Tree!snapshot, Tree!Inv, Tree!TreeInv, Tree!SnapInv, Tree!DrainInv,
           Tree!SignalInv, Tree!SuccessMeansGone, Tree!Known, Tree!Present, Tree!Vmm, Tree!Coming
  <2>4. Tree!SignalInv'
    <3>1. Tree!Send(Tree!Reached) /\ UNCHANGED <<v1, v5>> /\ v7 \in {"group", "killed"}
      BY <1>15 DEF Tree!KillFound
    <3>2. \A j \in Tree!Reached : Tree!Present(j) => j \in Tree!Vmm /\ Tree!Known(j)
      BY <3>1, TreeGroup, TreeReached DEF Tree!Inv, Tree!TreeInv, Tree!SnapInv
    <3> QED BY <3>1, <3>2, TreeSent DEF Tree!Inv
  <2>5. Tree!SuccessMeansGone'
    BY <1>15 DEF Tree!KillFound, Tree!tree, Tree!snapshot, Tree!Inv, Tree!TreeInv, Tree!SnapInv, Tree!DrainInv,
           Tree!SignalInv, Tree!SuccessMeansGone, Tree!Known, Tree!Present, Tree!Vmm
  <2> QED BY <2>1, <2>2, <2>3, <2>4, <2>5 DEF Tree!Inv
<1>16. CASE Tree!ReapRoot
  <2>1. Tree!TreeInv'
    <3>1. UNCHANGED <<v2, v3, v4, v5>> /\ v1' = [v1 EXCEPT ![Tree!Root] = "gone"] /\ v1[Tree!Root] = "zombie"
          /\ v7' = "drain" /\ Tree!Root \in Tree!Procs
      BY <1>16, TreeProcs DEF Tree!ReapRoot
    <3>2. v1 \in [Tree!Procs -> Tree!Stages]
      BY DEF Tree!Inv, Tree!TreeInv
    <3>3. v1' \in [Tree!Procs -> Tree!Stages] /\ \A j \in Tree!Procs : v1'[j] = v1[j] \/ (v1[j] = "zombie" /\ v1'[j] = "gone")
      BY <3>1, <3>2 DEF Tree!Stages
    <3>4. v3' \in [Tree!Procs -> Nat]
      BY <3>1 DEF Tree!Inv, Tree!TreeInv
    <3>5. \A j \in Tree!Procs : (Tree!Known(j)' <=> Tree!Known(j)) /\ (Tree!Present(j)' => Tree!Present(j))
      BY <3>3 DEF Tree!Known, Tree!Present
    <3>6. \A j \in Tree!Procs : v1[j] = "alive" => v1'[j] = "alive"
      BY <3>3
    <3>7. v7' \notin {"drain", "done", "timeout"} => Tree!Present(Tree!Root)'
      BY <3>1
    <3> QED BY <3>1, <3>3, <3>4, <3>5, <3>6, <3>7, TreeEnds DEF Tree!Inv
  <2>2. Tree!SnapInv'
    BY <1>16 DEF Tree!ReapRoot, Tree!tree, Tree!snapshot, Tree!Inv, Tree!TreeInv, Tree!SnapInv, Tree!DrainInv,
           Tree!SignalInv, Tree!SuccessMeansGone, Tree!Known, Tree!Present, Tree!Vmm, Tree!Named
  <2>3. Tree!DrainInv'
    BY <1>16 DEF Tree!ReapRoot, Tree!tree, Tree!snapshot, Tree!Inv, Tree!TreeInv, Tree!SnapInv, Tree!DrainInv,
           Tree!SignalInv, Tree!SuccessMeansGone, Tree!Known, Tree!Present, Tree!Vmm, Tree!Coming
  <2>4. Tree!SignalInv'
    BY <1>16 DEF Tree!ReapRoot, Tree!tree, Tree!snapshot, Tree!Inv, Tree!TreeInv, Tree!SnapInv, Tree!DrainInv,
           Tree!SignalInv, Tree!SuccessMeansGone, Tree!Known, Tree!Present, Tree!Vmm
  <2>5. Tree!SuccessMeansGone'
    BY <1>16 DEF Tree!ReapRoot, Tree!tree, Tree!snapshot, Tree!Inv, Tree!TreeInv, Tree!SnapInv, Tree!DrainInv,
           Tree!SignalInv, Tree!SuccessMeansGone, Tree!Known, Tree!Present, Tree!Vmm
  <2> QED BY <2>1, <2>2, <2>3, <2>4, <2>5 DEF Tree!Inv
<1>17. CASE Tree!Drain
  <2>1. Tree!TreeInv'
    <3>1. UNCHANGED <<v2, v3, v4, v5, v9, v10, v11, v12, v13, v14>> /\ v7 = "drain" /\ v7' \in {"drain", "done", "timeout"}
          /\ v8 = "parent" /\ v9 = {} /\ v8' = "off"
          /\ \/ DOMAIN v13 = {} /\ v7' = "done" /\ UNCHANGED <<v1, v6, v15>>
             \/ /\ v7' # "done" /\ Tree!Send(Tree!Reached)
                /\ v1' = [j \in Tree!Procs |-> IF v1[j] = "zombie" /\ v3[j] = Tree!Shim /\ v2[j] \in DOMAIN v13
                                                THEN "gone" ELSE v1[j]]
      BY <1>17 DEF Tree!Drain, Tree!SnapDone
    <3>2. v1 \in [Tree!Procs -> Tree!Stages]
      BY DEF Tree!Inv, Tree!TreeInv
    <3>3. v1' \in [Tree!Procs -> Tree!Stages] /\ \A j \in Tree!Procs : v1'[j] = v1[j] \/ (v1[j] = "zombie" /\ v1'[j] = "gone")
      BY <3>1, <3>2 DEF Tree!Stages
    <3>4. v3' \in [Tree!Procs -> Nat]
      BY <3>1 DEF Tree!Inv, Tree!TreeInv
    <3>5. \A j \in Tree!Procs : (Tree!Known(j)' <=> Tree!Known(j)) /\ (Tree!Present(j)' => Tree!Present(j))
      BY <3>3 DEF Tree!Known, Tree!Present
    <3>6. \A j \in Tree!Procs : v1[j] = "alive" => v1'[j] = "alive"
      BY <3>3
    <3>7. v7' \notin {"drain", "done", "timeout"} => Tree!Present(Tree!Root)'
      BY <3>1
    <3> QED BY <3>1, <3>3, <3>4, <3>5, <3>6, <3>7, TreeEnds DEF Tree!Inv
  <2>2. Tree!SnapInv'
    BY <1>17 DEF Tree!Drain, Tree!tree, Tree!snapshot, Tree!Inv, Tree!TreeInv, Tree!SnapInv, Tree!DrainInv,
           Tree!SignalInv, Tree!SuccessMeansGone, Tree!Known, Tree!Present, Tree!Vmm, Tree!Named
  <2>3. Tree!DrainInv'
    BY <1>17 DEF Tree!Drain, Tree!tree, Tree!snapshot, Tree!Inv, Tree!TreeInv, Tree!SnapInv, Tree!DrainInv,
           Tree!SignalInv, Tree!SuccessMeansGone, Tree!Known, Tree!Present, Tree!Vmm, Tree!Coming
  <2>4. Tree!SignalInv'
    <3>1. UNCHANGED <<v2, v3, v4, v5, v9, v10, v11, v12, v13, v14>> /\ v7 = "drain" /\ v7' \in {"drain", "done", "timeout"}
          /\ v8 = "parent" /\ v9 = {} /\ v8' = "off"
          /\ \/ DOMAIN v13 = {} /\ v7' = "done" /\ UNCHANGED <<v1, v6, v15>>
             \/ /\ v7' # "done" /\ Tree!Send(Tree!Reached)
                /\ v1' = [j \in Tree!Procs |-> IF v1[j] = "zombie" /\ v3[j] = Tree!Shim /\ v2[j] \in DOMAIN v13
                                                THEN "gone" ELSE v1[j]]
      BY <1>17 DEF Tree!Drain, Tree!SnapDone
    <3>2. v1 \in [Tree!Procs -> Tree!Stages]
      BY DEF Tree!Inv, Tree!TreeInv
    <3>3. v1' \in [Tree!Procs -> Tree!Stages] /\ \A j \in Tree!Procs : v1'[j] = v1[j] \/ (v1[j] = "zombie" /\ v1'[j] = "gone")
      BY <3>1, <3>2 DEF Tree!Stages
    <3>4. v3' \in [Tree!Procs -> Nat]
      BY <3>1 DEF Tree!Inv, Tree!TreeInv
    <3>5. \A j \in Tree!Procs : (Tree!Known(j)' <=> Tree!Known(j)) /\ (Tree!Present(j)' => Tree!Present(j))
      BY <3>3 DEF Tree!Known, Tree!Present
    <3>6. \A j \in Tree!Procs : v1[j] = "alive" => v1'[j] = "alive"
      BY <3>3
    <3>7. \A j \in Tree!Reached : Tree!Present(j) => j \in Tree!Vmm /\ Tree!Known(j)
      BY TreeReached DEF Tree!Inv, Tree!SnapInv
    <3>8. \A j \in v15' : j \in v15 \/ (j \in Tree!Reached /\ Tree!Present(j))
      BY <3>1 DEF Tree!Send
    <3>9. \A j \in v15' : j \in Tree!Vmm /\ Tree!Known(j)
      BY <3>7, <3>8 DEF Tree!Inv, Tree!SignalInv
    <3> QED BY <3>1, <3>5, <3>9 DEF Tree!SignalInv, Tree!Vmm
  <2>5. Tree!SuccessMeansGone'
    <3>1. UNCHANGED <<v2, v3, v4, v5, v9, v10, v11, v12, v13, v14>> /\ v7 = "drain" /\ v7' \in {"drain", "done", "timeout"}
          /\ v8 = "parent" /\ v9 = {} /\ v8' = "off"
          /\ \/ DOMAIN v13 = {} /\ v7' = "done" /\ UNCHANGED <<v1, v6, v15>>
             \/ /\ v7' # "done" /\ Tree!Send(Tree!Reached)
                /\ v1' = [j \in Tree!Procs |-> IF v1[j] = "zombie" /\ v3[j] = Tree!Shim /\ v2[j] \in DOMAIN v13
                                                THEN "gone" ELSE v1[j]]
      BY <1>17 DEF Tree!Drain, Tree!SnapDone
    <3>2. v1 \in [Tree!Procs -> Tree!Stages]
      BY DEF Tree!Inv, Tree!TreeInv
    <3>3. CASE v7' # "done"
      BY <3>3 DEF Tree!SuccessMeansGone
    <3>4. CASE v7' = "done"
      <4>1. DOMAIN v13 = {} /\ UNCHANGED <<v1, v5>>
        BY <3>1, <3>4
      <4>2. ~Tree!Coming
        BY <3>1 DEF Tree!Coming
      <4>3. \A j \in Tree!Vmm : ~Tree!Present(j)
        BY <3>1, <4>1, <4>2 DEF Tree!Inv, Tree!DrainInv
      <4> QED BY <4>1, <4>3 DEF Tree!SuccessMeansGone, Tree!Vmm, Tree!Present
    <3> QED BY <3>3, <3>4
  <2> QED BY <2>1, <2>2, <2>3, <2>4, <2>5 DEF Tree!Inv
<1> QED
  BY <1>1, <1>2, <1>3, <1>4, <1>5, <1>6, <1>7, <1>8, <1>9, <1>10, <1>11, <1>12, <1>13, <1>14, <1>15, <1>16,
         <1>17 DEF Tree!Next

\* It implies what is promised of the VMM's tree.
LEMMA ProcessTreeKept == Tree!Inv => Tree!StrangersSpared /\ Tree!SuccessMeansGone
BY DEF Tree!Inv, Tree!SignalInv, Tree!StrangersSpared

\* The console broker and two clients.
Con == INSTANCE Console WITH
    Client <- Peer, None <- Nil, MaxOut <- MaxOut, MaxIn <- MaxTyped, MaxPending <- 1,
    printed <- v1, read <- v2, active <- v3, out <- v4, input <- v5, guest <- v6, pc <- v7, ev <- v8,
    cancelled <- v9, conn <- v10, typed <- v11, wire <- v12, seen <- v13, from <- v14

\* A sequence cut in two is the two pieces.
LEMMA ConsoleSplit ==
  ASSUME NEW S, NEW s \in Seq(S), NEW n \in 0..Len(s)
  PROVE  /\ SubSeq(s, 1, n) \in Seq(S) /\ SubSeq(s, n + 1, Len(s)) \in Seq(S)
         /\ Len(SubSeq(s, 1, n)) = n /\ Len(SubSeq(s, n + 1, Len(s))) = Len(s) - n
         /\ \A k \in 1..n : SubSeq(s, 1, n)[k] = s[k]
         /\ \A k \in 1..(Len(s) - n) : SubSeq(s, n + 1, Len(s))[k] = s[n + k]
         /\ SubSeq(s, 1, n) \o SubSeq(s, n + 1, Len(s)) = s
<1> DEFINE a == SubSeq(s, 1, n)
           b == SubSeq(s, n + 1, Len(s))
<1>0. Len(s) \in Nat /\ n \in Nat /\ n <= Len(s)
  OBVIOUS
<1>1. a \in Seq(S) /\ Len(a) = n /\ \A k \in 1..n : a[k] = s[k]
  BY <1>0
<1>2. b \in Seq(S) /\ Len(b) = Len(s) - n /\ \A k \in 1..(Len(s) - n) : b[k] = s[n + k]
  <2>1. b \in Seq(S)
    BY <1>0
  <2>2. Len(b) = Len(s) - n
    BY <1>0
  <2>3. ASSUME NEW k \in 1..(Len(s) - n) PROVE b[k] = s[n + k]
    BY <1>0, <2>3
  <2> QED BY <2>1, <2>2, <2>3
<1>3. a \o b = s
  <2>1. a \o b = SubSeq(s, 1, Len(s))
    <3>1. 1 \in 1..Len(s) + 1 /\ n \in 1 - 1..Len(s) /\ Len(s) \in n..Len(s)
      BY <1>0
    <3> QED BY <3>1, ConcatAdjacentSubSeq
  <2> QED BY <2>1, SubSeqFull
<1> QED BY <1>1, <1>2, <1>3
\* What the active client typed next extends its run of the guest's input.
LEMMA ConsoleRead ==
  ASSUME NEW s \in Seq(Peer \X Nat), NEW t, NEW u, NEW a \in Peer, NEW w \in Seq(Nat), NEW e \in Seq(Peer \X Nat),
         \A c \in Peer : t[c] \in Nat, Con!Runs(s, t, a), a # Nil,
         \A c \in Peer : u[c] = IF c = a THEN t[a] + Len(w) ELSE t[c],
         \A k \in DOMAIN w : w[k] = t[a] + k,
         Len(e) = Len(w), \A k \in DOMAIN w : e[k] = <<a, w[k]>>
  PROVE  Con!Runs(s \o e, u, a)
<1> DEFINE r == s \o e
           m == Len(s)
           Earlier(i) == i \in DOMAIN s /\ i <= m /\ r[i] = s[i]
           Fresh(i) == m < i /\ i <= m + Len(w) /\ r[i][1] = a /\ r[i][2] = t[a] + (i - m)
<1>0. m \in Nat /\ Len(w) \in Nat /\ DOMAIN w = 1..Len(w) /\ DOMAIN s = 1..m /\ t[a] \in Nat
      /\ \A i \in DOMAIN s : s[i][1] \in Peer /\ s[i][2] \in Nat /\ t[s[i][1]] \in Nat
  OBVIOUS
<1>1. \A k \in 1..Len(w) : e[k][1] = a /\ e[k][2] = t[a] + k
  <2> SUFFICES ASSUME NEW k \in 1..Len(w) PROVE e[k][1] = a /\ e[k][2] = t[a] + k
    OBVIOUS
  <2>1. k \in DOMAIN w
    BY <1>0
  <2> QED BY <2>1
<1>2. e \in Seq(Peer \X Nat) /\ Len(e) = Len(w)
  OBVIOUS
<1>3. /\ r \in Seq(Peer \X Nat) /\ Len(r) = m + Len(w)
      /\ \A i \in 1..m + Len(w) : r[i] = IF i <= m THEN s[i] ELSE e[i - m]
  <2>1. r \in Seq(Peer \X Nat) /\ Len(r) = Len(s) + Len(e)
        /\ \A i \in 1..Len(s) + Len(e) : r[i] = IF i <= Len(s) THEN s[i] ELSE e[i - Len(s)]
    <3> DEFINE E == Peer \X Nat
    <3>1. s \in Seq(E) /\ e \in Seq(E)
      BY <1>2
    <3> HIDE DEF E
    <3>2. s \o e \in Seq(E) /\ Len(s \o e) = Len(s) + Len(e)
          /\ \A i \in 1..Len(s) + Len(e) : (s \o e)[i] = IF i <= Len(s) THEN s[i] ELSE e[i - Len(s)]
      <4>1. s \o e \in Seq(E)
        BY <3>1, ConcatProperties
      <4>2. Len(s \o e) = Len(s) + Len(e)
        BY <3>1, ConcatProperties
      <4>3. \A i \in 1..Len(s) + Len(e) : (s \o e)[i] = IF i <= Len(s) THEN s[i] ELSE e[i - Len(s)]
        BY <3>1, ConcatProperties
      <4> QED BY <4>1, <4>2, <4>3
    <3> QED BY <3>2 DEF E
  <2> HIDE DEF r
  <2> QED BY <1>2, <2>1
<1>4. DOMAIN r = 1..m + Len(w)
  BY <1>3
<1> HIDE DEF r, m
<1>5. \A i \in DOMAIN r : i \in Nat /\ (Earlier(i) \/ Fresh(i))
  <2> SUFFICES ASSUME NEW i \in DOMAIN r PROVE i \in Nat /\ (Earlier(i) \/ Fresh(i))
    OBVIOUS
  <2>1. i \in 1..m + Len(w) /\ i \in Nat
    BY <1>0, <1>4
  <2>2. CASE i <= m
    BY <1>0, <1>3, <2>1, <2>2
  <2>3. CASE ~(i <= m)
    <3>1. i - m \in 1..Len(w)
      BY <1>0, <2>1, <2>3
    <3>2. r[i] = e[i - m] /\ m < i /\ i <= m + Len(w)
      BY SMTT(30), <1>0, <1>3, <2>1, <2>3
    <3>3. e[i - m][1] = a /\ e[i - m][2] = t[a] + (i - m)
      BY <1>1, <3>1
    <3> QED BY <2>1, <3>2, <3>3
  <2> QED BY <2>1, <2>2, <2>3
<1>6. /\ \A i \in DOMAIN s : 1 <= s[i][2] /\ s[i][2] <= t[s[i][1]]
      /\ \A i, j \in DOMAIN s : i < j /\ s[i][1] = s[j][1] => s[i][2] < s[j][2]
      /\ \A i, j, k \in DOMAIN s : i < j /\ j < k /\ s[i][1] = s[k][1] => s[j][1] = s[i][1]
      /\ \A i, j \in DOMAIN s : i < j /\ s[i][1] = a => s[j][1] = a
  BY DEF Con!Runs
<1>7. ASSUME NEW i \in DOMAIN r PROVE 1 <= r[i][2] /\ r[i][2] <= u[r[i][1]]
  <2>1. CASE Earlier(i)
    <3>1. r[i][1] \in Peer /\ r[i][2] \in Nat /\ 1 <= r[i][2] /\ r[i][2] <= t[r[i][1]]
      BY <1>0, <1>6, <2>1
    <3>2. t[r[i][1]] \in Nat /\ (u[r[i][1]] = t[r[i][1]] \/ u[r[i][1]] = t[r[i][1]] + Len(w))
      BY <3>1
    <3> QED BY <1>0, <3>1, <3>2
  <2>2. CASE Fresh(i)
    <3>1. u[r[i][1]] = t[a] + Len(w) /\ r[i][2] = t[a] + (i - m) /\ m < i /\ i <= m + Len(w) /\ i \in Nat
      BY <1>5, <2>2
    <3> QED BY SMTT(30), <1>0, <3>1
  <2> QED BY <1>5, <2>1, <2>2
<1>8. ASSUME NEW i \in DOMAIN r, NEW j \in DOMAIN r, i < j, r[i][1] = r[j][1] PROVE r[i][2] < r[j][2]
  <2>1. CASE Earlier(i) /\ Earlier(j)
    BY <1>6, <1>8, <2>1
  <2>2. CASE Earlier(i) /\ Fresh(j)
    <3>1. r[i] = s[i] /\ s[i][1] = a /\ s[i][2] <= t[a] /\ s[i][2] \in Nat
      BY <1>0, <1>6, <1>8, <2>2
    <3>2. r[j][2] = t[a] + (j - m) /\ m < j /\ j \in Nat
      BY <1>5, <2>2
    <3> QED BY <1>0, <3>1, <3>2
  <2>3. CASE Fresh(i) /\ Fresh(j)
    <3>1. r[i][2] = t[a] + (i - m) /\ r[j][2] = t[a] + (j - m) /\ i \in Nat /\ j \in Nat
      BY <1>5, <2>3
    <3> QED BY <1>0, <1>8, <3>1
  <2>4. CASE Fresh(i) /\ Earlier(j)
    BY <1>0, <1>5, <1>8, <2>4
  <2> QED BY <1>5, <2>1, <2>2, <2>3, <2>4
<1>9. ASSUME NEW i \in DOMAIN r, NEW j \in DOMAIN r, i < j, r[i][1] = a PROVE r[j][1] = a
  <2>1. CASE Earlier(i) /\ Earlier(j)
    BY <1>6, <1>9, <2>1
  <2>2. CASE Fresh(i) /\ Earlier(j)
    BY <1>0, <1>5, <1>9, <2>2
  <2> QED BY <1>5, <2>1, <2>2
<1>10. ASSUME NEW i \in DOMAIN r, NEW j \in DOMAIN r, NEW k \in DOMAIN r, i < j, j < k, r[i][1] = r[k][1] PROVE r[j][1] = r[i][1]
  <2>1. CASE Earlier(k)
    <3>1. ~Fresh(i) /\ ~Fresh(j)
      BY <1>0, <1>5, <1>10, <2>1
    <3>2. Earlier(i) /\ Earlier(j)
      BY <1>5, <3>1
    <3>3. i \in DOMAIN s /\ j \in DOMAIN s /\ k \in DOMAIN s /\ r[i] = s[i] /\ r[j] = s[j] /\ r[k] = s[k]
      BY <2>1, <3>2
    <3> QED BY <1>6, <1>10, <3>3
  <2>2. CASE Fresh(k)
    <3>1. r[i][1] = a
      BY <1>10, <2>2
    <3> QED BY <1>9, <1>10, <3>1
  <2> QED BY <1>5, <2>1, <2>2
<1>11. Con!Runs(r, u, a)
  BY <1>7, <1>8, <1>9, <1>10 DEF Con!Runs
<1> QED BY <1>11 DEF r
\* The runs stay when nobody, or a client that has typed nothing, becomes active.
LEMMA ConsoleNext ==
  ASSUME NEW s \in Seq(Peer \X Nat), NEW t, NEW a, NEW b, Con!Runs(s, t, a), b \in {a, Nil} \/ (b \in Peer /\ t[b] = 0)
  PROVE  Con!Runs(s, t, b)
<1>1. \A i \in DOMAIN s : s[i][2] \in Nat
  OBVIOUS
<1>2. CASE b \in {a, Nil}
  BY <1>2 DEF Con!Runs
<1>3. CASE b \in Peer /\ t[b] = 0
  <2>1. \A i \in DOMAIN s : s[i][1] # b
    BY <1>1, <1>3 DEF Con!Runs
  <2> QED BY <2>1 DEF Con!Runs
<1> QED BY <1>2, <1>3
\* So does all that is known of the input, when no byte moves.
LEMMA ConsoleKeeps ==
  ASSUME Con!OutputInv, Con!InputInv, UNCHANGED <<v5, v6, v11, v12>>, \A d \in Peer : Con!Fresh(d)' => Con!Fresh(d),
         v3' \in {v3, Nil} \/ (v3' \in Peer /\ Con!Fresh(v3'))
  PROVE  Con!InputInv'
<1> DEFINE E == Peer \X Nat
           s == v6 \o v5
<1>1. v6 \in Seq(E) /\ v5 \in Seq(E) /\ Con!Runs(s, Con!Taken, v3)
  BY DEF Con!InputInv
<1>2. s \in Seq(Peer \X Nat)
  <2> HIDE DEF E
  <2>1. s \in Seq(E)
    BY <1>1, ConcatProperties
  <2> QED BY <2>1 DEF E
<1>3. v3' \in {v3, Nil} \/ (v3' \in Peer /\ Con!Taken[v3'] = 0)
  <2>1. ASSUME v3' \in Peer, Con!Fresh(v3') PROVE Con!Taken[v3'] = 0
    <3>1. v11[v3'] = 0 /\ v12[v3'] \in Seq(Nat) /\ Len(v12[v3']) <= v11[v3']
      BY <2>1 DEF Con!InputInv
    <3> QED BY <2>1, <3>1 DEF Con!Taken
  <2> QED BY <2>1
<1> HIDE DEF s
<1>4. Con!Runs(s, Con!Taken, v3')
  BY <1>1, <1>2, <1>3, ConsoleNext
<1>5. Con!Runs(v6 \o v5, Con!Taken, v3)'
  <2>1. (v6 \o v5)' = s /\ Con!Taken' = Con!Taken
    BY DEF s, Con!Taken
  <2>2. Con!Runs((v6 \o v5)', Con!Taken', v3')
    BY <1>4, <2>1
  <2> HIDE DEF Con!Taken
  <2> QED BY <2>2 DEF Con!Runs
<1> QED BY <1>5 DEF Con!InputInv

\* The invariant of the console broker holds at first.
LEMMA ConsoleBegin == Con!Init => Con!Inv
<1> SUFFICES ASSUME Con!Init PROVE Con!Inv
  OBVIOUS
<1>1. Con!OutputInv
  BY DEF Con!Init, Con!OutputInv, Con!OutputIsContiguous, Con!Fresh
<1>2. Con!InputInv
  <2>1. /\ v5 = <<>> /\ v6 = <<>> /\ v5 \in Seq(Peer \X Nat) /\ v6 \in Seq(Peer \X Nat)
        /\ v11 \in [Peer -> Nat] /\ v12 \in [Peer -> Seq(Nat)]
        /\ \A c \in Peer : v11[c] = 0 /\ Len(v12[c]) = 0 /\ DOMAIN v12[c] = {}
    BY DEF Con!Init
  <2>2. DOMAIN (v6 \o v5) = {}
    <3>1. Len(v6 \o v5) = 0
      BY <2>1
    <3> QED BY <2>1, <3>1
  <2> DEFINE s == v6 \o v5
  <2>3. DOMAIN s = {}
    BY <2>2
  <2> HIDE DEF s
  <2>4. Con!Runs(s, Con!Taken, v3)
    BY <2>3 DEF Con!Runs
  <2> QED BY <2>1, <2>4 DEF Con!InputInv, s
<1> QED BY <1>1, <1>2 DEF Con!Inv

\* Every step of the console broker keeps it.
LEMMA ConsoleStepInv ==
  ASSUME Con!Inv, [Con!Next]_(Con!vars)
  PROVE  Con!Inv'
<1>1. CASE UNCHANGED Con!vars
  BY <1>1 DEF Con!vars, Con!broker, Con!clients, Con!Inv, Con!OutputInv, Con!OutputIsContiguous, Con!Fresh,
         Con!InputInv, Con!Taken
<1>2. ASSUME NEW c \in Peer, Con!Knock(c) PROVE Con!Inv'
  <2>1. Con!OutputInv'
    BY <1>2 DEF Con!Knock, Con!broker, Con!clients, Con!Inv, Con!OutputInv, Con!InputInv,
           Con!OutputIsContiguous, Con!Fresh
  <2>2. Con!InputInv'
    BY <1>2 DEF Con!Knock, Con!broker, Con!clients, Con!Inv, Con!OutputInv, Con!InputInv, Con!Taken, Con!Fresh
  <2> QED BY <2>1, <2>2 DEF Con!Inv
<1>3. ASSUME NEW c \in Peer, Con!Type(c) PROVE Con!Inv'
  <2>1. Con!OutputInv'
    BY <1>3 DEF Con!Type, Con!broker, Con!clients, Con!Inv, Con!OutputInv, Con!InputInv, Con!OutputIsContiguous,
           Con!Fresh
  <2>2. Con!InputInv'
    <3>1. /\ v11' = [v11 EXCEPT ![c] = v11[c] + 1] /\ v12' = [v12 EXCEPT ![c] = Append(v12[c], v11[c] + 1)]
          /\ UNCHANGED <<v3, v5, v6, v10>> /\ v10[c] = "ok"
      BY <1>3 DEF Con!Type, Con!broker
    <3>2. /\ v11 \in [Peer -> Nat] /\ v12 \in [Peer -> Seq(Nat)] /\ Len(v12[c]) \in Nat /\ v11[c] \in Nat
          /\ Len(v12[c]) <= v11[c] /\ \A k \in DOMAIN v12[c] : v12[c][k] = v11[c] - Len(v12[c]) + k
      BY <1>3 DEF Con!Inv, Con!InputInv
    <3> DEFINE w == Append(v12[c], v11[c] + 1)
    <3>3. /\ w \in Seq(Nat) /\ Len(w) = Len(v12[c]) + 1 /\ DOMAIN w = 1..Len(v12[c]) + 1
          /\ w[Len(v12[c]) + 1] = v11[c] + 1 /\ DOMAIN v12[c] = 1..Len(v12[c])
          /\ \A k \in 1..Len(v12[c]) : w[k] = v12[c][k]
      BY <3>2
    <3> HIDE DEF w
    <3>4. \A k \in DOMAIN w : w[k] = (v11[c] + 1) - Len(w) + k
      <4> SUFFICES ASSUME NEW k \in DOMAIN w PROVE w[k] = (v11[c] + 1) - Len(w) + k
        OBVIOUS
      <4>1. CASE k = Len(v12[c]) + 1
        BY <3>2, <3>3, <4>1
      <4>2. CASE k # Len(v12[c]) + 1
        <5>1. k \in 1..Len(v12[c])
          BY <3>2, <3>3, <4>2
        <5> QED BY <3>2, <3>3, <5>1
      <4> QED BY <4>1, <4>2
    <3>5. /\ v11' \in [Peer -> Nat] /\ v12' \in [Peer -> Seq(Nat)]
          /\ \A d \in Peer : /\ v11'[d] = IF d = c THEN v11[c] + 1 ELSE v11[d]
                             /\ v12'[d] = IF d = c THEN w ELSE v12[d]
      BY <3>1, <3>2, <3>3 DEF w
    <3>6. Con!Taken' = Con!Taken
      <4>1. \A d \in Peer : v11'[d] - Len(v12'[d]) = v11[d] - Len(v12[d])
        <5> SUFFICES ASSUME NEW d \in Peer PROVE v11'[d] - Len(v12'[d]) = v11[d] - Len(v12[d])
          OBVIOUS
        <5>1. CASE d = c
          <6>1. v11'[d] = v11[c] + 1 /\ Len(v12'[d]) = Len(v12[c]) + 1
            BY <3>3, <3>5, <5>1
          <6> QED BY <3>2, <5>1, <6>1
        <5>2. CASE d # c
          BY <3>5, <5>2
        <5> QED BY <5>1, <5>2
      <4> QED BY <4>1 DEF Con!Taken
    <3>7. Con!Runs(v6 \o v5, Con!Taken, v3)' = Con!Runs(v6 \o v5, Con!Taken, v3)
      BY <3>1, <3>6 DEF Con!Runs
    <3>8. \A d \in Peer : /\ Len(v12'[d]) <= v11'[d]
                          /\ \A k \in DOMAIN v12'[d] : v12'[d][k] = v11'[d] - Len(v12'[d]) + k
                          /\ Con!Fresh(d)' => v11'[d] = 0
      <4> SUFFICES ASSUME NEW d \in Peer
                   PROVE  /\ Len(v12'[d]) <= v11'[d]
                          /\ \A k \in DOMAIN v12'[d] : v12'[d][k] = v11'[d] - Len(v12'[d]) + k
                          /\ Con!Fresh(d)' => v11'[d] = 0
        OBVIOUS
      <4>1. CASE d = c
        <5>1. v11'[d] = v11[c] + 1 /\ v12'[d] = w /\ ~Con!Fresh(d)'
          BY <3>1, <3>5, <4>1 DEF Con!Fresh
        <5> QED BY <3>2, <3>3, <3>4, <5>1
      <4>2. CASE d # c
        <5>1. v11'[d] = v11[d] /\ v12'[d] = v12[d] /\ (Con!Fresh(d)' => Con!Fresh(d))
          BY <3>1, <3>5, <4>2 DEF Con!Fresh
        <5> QED BY <5>1 DEF Con!Inv, Con!InputInv
      <4> QED BY <4>1, <4>2
    <3> QED BY <3>1, <3>5, <3>7, <3>8 DEF Con!Inv, Con!InputInv
  <2> QED BY <2>1, <2>2 DEF Con!Inv
<1>4. ASSUME NEW c \in Peer, Con!Leave(c) PROVE Con!Inv'
  <2>1. Con!OutputInv'
    BY <1>4 DEF Con!Leave, Con!broker, Con!clients, Con!Inv, Con!OutputInv, Con!InputInv,
           Con!OutputIsContiguous, Con!Fresh
  <2>2. Con!InputInv'
    BY <1>4 DEF Con!Leave, Con!broker, Con!clients, Con!Inv, Con!OutputInv, Con!InputInv, Con!Taken, Con!Fresh
  <2> QED BY <2>1, <2>2 DEF Con!Inv
<1>5. CASE Con!GuestPrints
  <2>1. Con!OutputInv'
    BY <1>5 DEF Con!GuestPrints, Con!broker, Con!clients, Con!Inv, Con!OutputInv, Con!InputInv,
           Con!OutputIsContiguous, Con!Fresh
  <2>2. Con!InputInv'
    BY <1>5 DEF Con!GuestPrints, Con!broker, Con!clients, Con!Inv, Con!OutputInv, Con!InputInv, Con!Taken,
           Con!Fresh
  <2> QED BY <2>1, <2>2 DEF Con!Inv
<1>6. CASE Con!Shutdown
  <2>1. Con!OutputInv'
    BY <1>6 DEF Con!Shutdown, Con!broker, Con!clients, Con!Inv, Con!OutputInv, Con!InputInv,
           Con!OutputIsContiguous, Con!Fresh
  <2>2. Con!InputInv'
    BY <1>6 DEF Con!Shutdown, Con!broker, Con!clients, Con!Inv, Con!OutputInv, Con!InputInv, Con!Taken, Con!Fresh
  <2> QED BY <2>1, <2>2 DEF Con!Inv
<1>7. CASE Con!Poll
  <2>1. Con!OutputInv'
    BY <1>7 DEF Con!Poll, Con!broker, Con!clients, Con!Inv, Con!OutputInv, Con!InputInv, Con!OutputIsContiguous,
           Con!Fresh
  <2>2. Con!InputInv'
    BY <1>7 DEF Con!Poll, Con!broker, Con!clients, Con!Inv, Con!OutputInv, Con!InputInv, Con!Taken, Con!Fresh
  <2> QED BY <2>1, <2>2 DEF Con!Inv
<1>8. CASE Con!Cancelled
  <2>1. Con!OutputInv'
    BY <1>8 DEF Con!Cancelled, Con!broker, Con!clients, Con!Dropped, Con!Ended, Con!Open, Con!Waiting, Con!Inv,
           Con!OutputInv, Con!InputInv, Con!OutputIsContiguous, Con!Fresh
  <2>2. Con!InputInv'
    <3>1. UNCHANGED <<v5, v6, v11, v12>> /\ v3' \in {v3, Nil} /\ \A d \in Peer : Con!Fresh(d)' => Con!Fresh(d)
      BY <1>8 DEF Con!Cancelled, Con!Dropped, Con!Ended, Con!Open, Con!Waiting, Con!broker, Con!clients,
             Con!Fresh, Con!Inv, Con!OutputInv
    <3> QED BY <3>1, ConsoleKeeps DEF Con!Inv
  <2> QED BY <2>1, <2>2 DEF Con!Inv
<1>9. CASE Con!Accept
  <2>1. Con!OutputInv'
    <3>1. PICK d \in Con!Waiting : Con!Refuse(d) \/ Con!Acknowledge(d)
      BY <1>9 DEF Con!Accept
    <3>2. UNCHANGED <<v1, v2, v4, v13>> /\ v7 = "accept" /\ d \in Peer /\ Con!Fresh(d)
      BY <1>9, <3>1 DEF Con!Accept, Con!Waiting, Con!Fresh
    <3>3. (\A e \in Peer : Con!Fresh(e)' => Con!Fresh(e)) /\ DOMAIN v10' = Peer
      BY <3>1 DEF Con!Refuse, Con!Acknowledge, Con!Ended, Con!Open, Con!Waiting, Con!Fresh, Con!Inv, Con!OutputInv
    <3>4. CASE v3' = v3 /\ v14' = v14 /\ v7' = v7
      BY <3>2, <3>3, <3>4 DEF Con!Inv, Con!OutputInv, Con!OutputIsContiguous
    <3>5. CASE v3' = Nil /\ v14' = v14 /\ v7' = "ended"
      BY <3>2, <3>3, <3>5 DEF Con!Inv, Con!OutputInv, Con!OutputIsContiguous
    <3>6. CASE v3 = Nil /\ v3' = d /\ v14' = [v14 EXCEPT ![d] = v2] /\ v10' = [v10 EXCEPT ![d] = "ok"] /\ v7' = v7
      <4>1. v4 = <<>> /\ v13[d] = <<>> /\ v2 \in Nat /\ v14 \in [Peer -> Nat]
        BY <3>2, <3>6 DEF Con!Inv, Con!OutputInv
      <4>2. v14' \in [Peer -> Nat] /\ \A e \in Peer : v14'[e] = IF e = d THEN v2 ELSE v14[e]
        BY <3>6, <4>1
      <4>3. Len(v4) = 0 /\ DOMAIN v4 = {} /\ Len(v13[d]) = 0 /\ DOMAIN v13[d] = {}
        BY <4>1
      <4>4. ~Con!Fresh(d)'
        BY <3>2, <3>6 DEF Con!Fresh, Con!Inv, Con!OutputInv
      <4>5. Con!OutputIsContiguous'
        BY <3>2, <3>6, <4>2, <4>3 DEF Con!OutputIsContiguous, Con!Inv, Con!OutputInv
      <4>6. v14'[d] + Len(v13[d]) + Len(v4) = v2
        BY <3>2, <4>1, <4>2, <4>3
      <4> QED BY <3>2, <3>3, <3>6, <4>1, <4>2, <4>4, <4>5, <4>6 DEF Con!Inv, Con!OutputInv
    <3> QED BY <3>1, <3>4, <3>5, <3>6 DEF Con!Refuse, Con!Acknowledge, Con!Ended
  <2>2. Con!InputInv'
    <3>1. PICK d \in Con!Waiting : Con!Refuse(d) \/ Con!Acknowledge(d)
      BY <1>9 DEF Con!Accept
    <3>2. UNCHANGED <<v5, v6, v11, v12>>
      BY <1>9 DEF Con!Accept
    <3>3. \A e \in Peer : Con!Fresh(e)' => Con!Fresh(e)
      BY <3>1 DEF Con!Refuse, Con!Acknowledge, Con!Ended, Con!Open, Con!Waiting, Con!Fresh, Con!Inv, Con!OutputInv
    <3>4. v3' \in {v3, Nil} \/ (v3' = d /\ Con!Fresh(d) /\ d \in Peer)
      BY <3>1 DEF Con!Refuse, Con!Acknowledge, Con!Ended, Con!Waiting, Con!Fresh
    <3> QED BY <3>2, <3>3, <3>4, ConsoleKeeps DEF Con!Inv
  <2> QED BY <2>1, <2>2 DEF Con!Inv
<1>10. CASE Con!AcceptDone
  <2>1. Con!OutputInv'
    BY <1>10 DEF Con!AcceptDone, Con!broker, Con!clients, Con!Inv, Con!OutputInv, Con!InputInv,
           Con!OutputIsContiguous, Con!Fresh
  <2>2. Con!InputInv'
    BY <1>10 DEF Con!AcceptDone, Con!broker, Con!clients, Con!Inv, Con!OutputInv, Con!InputInv, Con!Taken,
           Con!Fresh
  <2> QED BY <2>1, <2>2 DEF Con!Inv
<1>11. CASE Con!PtyWrite
  <2>1. Con!OutputInv'
    BY <1>11 DEF Con!PtyWrite, Con!broker, Con!clients, Con!Inv, Con!OutputInv, Con!InputInv,
           Con!OutputIsContiguous, Con!Fresh
  <2>2. Con!InputInv'
    <3>1. PICK n \in 0..(IF v8.ptyout THEN Len(v5) ELSE 0) :
             v6' = v6 \o SubSeq(v5, 1, n) /\ v5' = SubSeq(v5, n + 1, Len(v5))
      BY <1>11 DEF Con!PtyWrite
    <3> DEFINE E == Peer \X Nat
    <3>2. v6 \in Seq(E) /\ v5 \in Seq(E) /\ Len(v5) \in Nat
      BY DEF Con!Inv, Con!InputInv
    <3>3. n \in 0..Len(v5)
      BY <3>2
    <3> HIDE DEF E
    <3>4. v6' \in Seq(E) /\ v5' \in Seq(E) /\ v6' \o v5' = v6 \o v5
      <4> DEFINE a == SubSeq(v5, 1, n)
                 b == SubSeq(v5, n + 1, Len(v5))
      <4>1. a \in Seq(E) /\ b \in Seq(E) /\ a \o b = v5
        BY <3>2, <3>3, ConsoleSplit
      <4>2. v6' = v6 \o a /\ v5' = b
        BY <3>1
      <4> HIDE DEF a, b
      <4>3. v6 \o a \in Seq(E)
        BY <3>2, <4>1, ConcatProperties
      <4>4. (v6 \o a) \o b = v6 \o (a \o b)
        <5>1. v6 \in Seq(E) /\ a \in Seq(E) /\ b \in Seq(E)
          BY <3>2, <4>1
        <5> QED BY SMTT(30), <5>1, ConcatAssociative
      <4> QED BY <4>1, <4>2, <4>3, <4>4
    <3>5. UNCHANGED <<v3, v10, v11, v12>>
      BY <1>11 DEF Con!PtyWrite, Con!clients
    <3>6. Con!Runs(v6 \o v5, Con!Taken, v3)'
      <4>1. (v6 \o v5)' = v6 \o v5 /\ Con!Taken' = Con!Taken /\ v3' = v3
        BY <3>4, <3>5 DEF Con!Taken
      <4>2. Con!Runs(v6 \o v5, Con!Taken, v3)
        BY DEF Con!Inv, Con!InputInv
      <4>3. Con!Runs((v6 \o v5)', Con!Taken', v3')
        BY <4>1, <4>2
      <4> HIDE DEF Con!Taken
      <4> QED BY <4>3 DEF Con!Runs
    <3>7. v6' \in Seq(Peer \X Nat) /\ v5' \in Seq(Peer \X Nat)
      BY <3>4 DEF E
    <3> QED BY <3>5, <3>6, <3>7 DEF Con!Inv, Con!InputInv, Con!Fresh
  <2> QED BY <2>1, <2>2 DEF Con!Inv
<1>12. CASE Con!ClientWrite
  <2>1. Con!OutputInv'
    <3>0. UNCHANGED <<v1, v2, v10, v14>> /\ v7' = "ptyin"
      BY <1>12 DEF Con!ClientWrite
    <3>1. \/ v3' \in {v3, Nil} /\ UNCHANGED <<v4, v13>>
          \/ v3 # Nil /\ v3' = v3 /\ \E n \in 0..Len(v4) : /\ v13' = [v13 EXCEPT ![v3] = v13[v3] \o SubSeq(v4, 1, n)]
                                                         /\ v4' = SubSeq(v4, n + 1, Len(v4))
      BY <1>12 DEF Con!ClientWrite
    <3>2. CASE v3' \in {v3, Nil} /\ UNCHANGED <<v4, v13>>
      BY SMTT(30), <3>0, <3>2 DEF Con!Inv, Con!OutputInv, Con!OutputIsContiguous, Con!Fresh
    <3>3. ASSUME v3 # Nil, v3' = v3, NEW n \in 0..Len(v4), v13' = [v13 EXCEPT ![v3] = v13[v3] \o SubSeq(v4, 1, n)],
                 v4' = SubSeq(v4, n + 1, Len(v4))
          PROVE  Con!OutputInv'
      <4> DEFINE g == v13[v3]
                 h == v13[v3] \o SubSeq(v4, 1, n)
                 b == v14[v3]
      <4>1. /\ v3 \in Peer /\ v4 \in Seq(Nat) /\ v13 \in [Peer -> Seq(Nat)] /\ g \in Seq(Nat) /\ b \in Nat /\ ~Con!Fresh(v3)
            /\ b + Len(g) + Len(v4) = v2 /\ Len(g) \in Nat /\ Len(v4) \in Nat /\ n \in Nat /\ n <= Len(v4)
            /\ (\A k \in DOMAIN g : g[k] = b + k) /\ (\A k \in DOMAIN v4 : v4[k] = b + Len(g) + k)
            /\ DOMAIN g = 1..Len(g) /\ DOMAIN v4 = 1..Len(v4) /\ v2 \in Nat
        <5>1. v3 \in Peer /\ b \in Nat /\ v2 \in Nat
          BY <3>3 DEF Con!Inv, Con!OutputInv
        <5>2. v4 \in Seq(Nat) /\ v13 \in [Peer -> Seq(Nat)]
          BY DEF Con!Inv, Con!OutputInv
        <5>3. ~Con!Fresh(v3) /\ b + Len(g) + Len(v4) = v2
          BY <3>3 DEF Con!Inv, Con!OutputInv
        <5>4. (\A k \in DOMAIN g : g[k] = b + k) /\ (\A k \in DOMAIN v4 : v4[k] = b + Len(g) + k)
          BY <3>3, <5>1 DEF Con!Inv, Con!OutputInv, Con!OutputIsContiguous
        <5>5. g \in Seq(Nat)
          BY <5>1, <5>2
        <5>6. Len(g) \in Nat /\ Len(v4) \in Nat /\ DOMAIN g = 1..Len(g) /\ DOMAIN v4 = 1..Len(v4)
          BY <5>2, <5>5
        <5>7. n \in Nat /\ n <= Len(v4)
          BY <5>6
        <5> QED BY <5>1, <5>2, <5>3, <5>4, <5>5, <5>6, <5>7
      <4>2. v4' \in Seq(Nat) /\ Len(v4') = Len(v4) - n /\ \A k \in 1..(Len(v4) - n) : v4'[k] = v4[n + k]
        <5> DEFINE rest == SubSeq(v4, n + 1, Len(v4))
        <5>1. rest \in Seq(Nat) /\ Len(rest) = Len(v4) - n /\ \A k \in 1..(Len(v4) - n) : rest[k] = v4[n + k]
          BY ZenonT(60), <4>1, ConsoleSplit
        <5>2. v4' = rest
          BY <3>3
        <5> HIDE DEF rest
        <5> QED BY SMTT(30), <5>1, <5>2
      <4>3. SubSeq(v4, 1, n) \in Seq(Nat) /\ Len(SubSeq(v4, 1, n)) = n /\ \A k \in 1..n : SubSeq(v4, 1, n)[k] = v4[k]
        BY <4>1, ConsoleSplit
      <4>4. h \in Seq(Nat) /\ Len(h) = Len(g) + n
            /\ \A k \in 1..Len(g) + n : h[k] = IF k <= Len(g) THEN g[k] ELSE SubSeq(v4, 1, n)[k - Len(g)]
        BY <4>1, <4>3, ConcatProperties
      <4>5. v13' \in [Peer -> Seq(Nat)] /\ \A d \in Peer : v13'[d] = IF d = v3 THEN h ELSE v13[d]
        BY <3>3, <4>1, <4>4
      <4> HIDE DEF h
      <4>6. \A k \in DOMAIN h : h[k] = b + k
        <5> SUFFICES ASSUME NEW k \in 1..Len(g) + n PROVE h[k] = b + k
          BY <4>4
        <5>1. CASE k <= Len(g)
          <6>1. k \in DOMAIN g /\ h[k] = g[k]
            BY <4>1, <4>4, <5>1
          <6> QED BY <4>1, <6>1
        <5>2. CASE ~(k <= Len(g))
          <6>1. k - Len(g) \in 1..n /\ k - Len(g) \in 1..Len(v4)
            BY <4>1, <5>2
          <6>2. v4[k - Len(g)] = b + Len(g) + (k - Len(g))
            BY <4>1, <6>1
          <6> QED BY SMTT(30), <4>1, <4>3, <4>4, <5>2, <6>1, <6>2
        <5> QED BY <5>1, <5>2
      <4>7. \A k \in DOMAIN v4' : v4'[k] = b + Len(h) + k
        <5>0. DOMAIN v4' = 1..(Len(v4) - n)
          <6>1. DOMAIN v4' = 1..Len(v4')
            BY <4>2, LenProperties
          <6> QED BY <4>2, <6>1
        <5> SUFFICES ASSUME NEW k \in 1..(Len(v4) - n) PROVE v4'[k] = b + Len(h) + k
          BY <5>0
        <5>1. n + k \in 1..Len(v4)
          BY <4>1
        <5>2. v4'[k] = v4[n + k] /\ v4[n + k] = b + Len(g) + (n + k)
          BY <4>1, <4>2, <5>1
        <5>3. Len(h) = Len(g) + n /\ k \in Nat
          BY <4>4
        <5>4. b \in Nat /\ Len(g) \in Nat /\ n \in Nat
          BY <4>1
        <5> HIDE DEF g, b
        <5>5. b + Len(g) + (n + k) = b + Len(h) + k
          BY <5>3, <5>4
        <5> QED BY <5>2, <5>5
      <4>8. b + Len(h) + Len(v4') = v2
        BY <4>1, <4>2, <4>4
      <4>9. Con!OutputIsContiguous'
        BY ZenonT(60), <3>0, <3>3, <4>1, <4>5, <4>6, <4>7 DEF Con!OutputIsContiguous, Con!Inv, Con!OutputInv
      <4>10. \A d \in Peer : Con!Fresh(d)' => v13'[d] = <<>>
        BY <3>0, <4>1, <4>5 DEF Con!Inv, Con!OutputInv, Con!Fresh
      <4> QED BY <3>0, <3>3, <4>1, <4>2, <4>5, <4>8, <4>9, <4>10 DEF Con!Inv, Con!OutputInv, Con!Fresh
    <3> QED BY <3>1, <3>2, <3>3
  <2>2. Con!InputInv'
    <3>1. UNCHANGED <<v5, v6, v11, v12>> /\ v3' \in {v3, Nil} /\ \A d \in Peer : Con!Fresh(d)' => Con!Fresh(d)
      BY <1>12 DEF Con!ClientWrite, Con!broker, Con!clients, Con!Fresh, Con!Inv, Con!OutputInv
    <3> QED BY <3>1, ConsoleKeeps DEF Con!Inv
  <2> QED BY <2>1, <2>2 DEF Con!Inv
<1>13. CASE Con!PtyRead
  <2>1. Con!OutputInv'
    <3>1. PICK n \in 0..(IF v8.ptyin THEN v1 - v2 ELSE 0) :
             /\ v2' = v2 + n
             /\ \/ (v3 = Nil \/ n = 0) /\ UNCHANGED <<v4, v3, v10>>
                \/ v4' = <<>> /\ v3' = Nil /\ v10' = Con!Dropped(v3)
                \/ v3 # Nil /\ v4' = v4 \o [k \in 1..n |-> v2 + k] /\ UNCHANGED <<v3, v10>>
      BY <1>13 DEF Con!PtyRead
    <3>2. UNCHANGED <<v1, v13, v14>> /\ v7' = "clin"
      BY <1>13 DEF Con!PtyRead
    <3>3. v1 \in Nat /\ v2 \in Nat /\ n \in Nat /\ v2' \in Nat /\ (n = 0 => v2' = v2)
      BY <3>1 DEF Con!Inv, Con!OutputInv
    <3>4. CASE (v3 = Nil \/ n = 0) /\ UNCHANGED <<v4, v3, v10>>
      BY <3>2, <3>3, <3>4 DEF Con!Inv, Con!OutputInv, Con!OutputIsContiguous, Con!Fresh
    <3>5. CASE v4' = <<>> /\ v3' = Nil /\ v10' = Con!Dropped(v3)
      BY <3>2, <3>3, <3>5 DEF Con!Inv, Con!OutputInv, Con!OutputIsContiguous, Con!Fresh, Con!Dropped
    <3>6. CASE v3 # Nil /\ v4' = v4 \o [k \in 1..n |-> v2 + k] /\ UNCHANGED <<v3, v10>>
      <4> DEFINE e == [k \in 1..n |-> v2 + k]
                 g == v13[v3]
                 b == v14[v3]
      <4>1. /\ v3 \in Peer /\ v4 \in Seq(Nat) /\ b \in Nat /\ Len(g) \in Nat /\ Len(v4) \in Nat
            /\ b + Len(g) + Len(v4) = v2 /\ (\A k \in DOMAIN v4 : v4[k] = b + Len(g) + k) /\ DOMAIN v4 = 1..Len(v4)
        BY <3>6 DEF Con!Inv, Con!OutputInv, Con!OutputIsContiguous
      <4>2. e \in Seq(Nat) /\ Len(e) = n /\ \A k \in 1..n : e[k] = v2 + k
        <5>1. e \in [1..n -> Nat] /\ \A k \in 1..n : e[k] = v2 + k
          BY <3>3
        <5> HIDE DEF e
        <5> QED BY <3>3, <5>1, IsASeq, LenProperties
      <4> HIDE DEF e
      <4>3. v4' \in Seq(Nat) /\ Len(v4') = Len(v4) + n
            /\ \A k \in 1..Len(v4) + n : v4'[k] = IF k <= Len(v4) THEN v4[k] ELSE e[k - Len(v4)]
        <5>1. v4' = v4 \o e
          BY <3>6 DEF e
        <5>2. v4 \o e \in Seq(Nat) /\ Len(v4 \o e) = Len(v4) + Len(e)
              /\ \A k \in 1..Len(v4) + Len(e) : (v4 \o e)[k] = IF k <= Len(v4) THEN v4[k] ELSE e[k - Len(v4)]
          BY <4>1, <4>2, ConcatProperties
        <5> QED BY <4>2, <5>1, <5>2
      <4>4. \A k \in DOMAIN v4' : v4'[k] = b + Len(g) + k
        <5> SUFFICES ASSUME NEW k \in 1..Len(v4) + n PROVE v4'[k] = b + Len(g) + k
          BY <4>3
        <5>1. CASE k <= Len(v4)
          <6>1. k \in DOMAIN v4 /\ v4'[k] = v4[k]
            BY <4>1, <4>3, <5>1
          <6> QED BY <4>1, <6>1
        <5>2. CASE ~(k <= Len(v4))
          <6>1. k - Len(v4) \in 1..n
            BY <3>3, <4>1, <5>2
          <6>2. e[k - Len(v4)] = v2 + (k - Len(v4))
            BY <4>2, <6>1
          <6>3. v4'[k] = e[k - Len(v4)] /\ k \in Nat
            BY <3>3, <4>1, <4>3, <5>2
          <6>4. b \in Nat /\ Len(g) \in Nat /\ Len(v4) \in Nat /\ b + Len(g) + Len(v4) = v2
            BY <4>1
          <6> HIDE DEF g, b
          <6> QED BY <6>2, <6>3, <6>4
        <5> QED BY <5>1, <5>2
      <4>5. b + Len(g) + Len(v4') = v2'
        <5>1. b \in Nat /\ Len(g) \in Nat /\ Len(v4) \in Nat /\ b + Len(g) + Len(v4) = v2
              /\ Len(v4') = Len(v4) + n /\ v2' = v2 + n /\ n \in Nat
          BY <3>1, <3>3, <4>1, <4>3
        <5> HIDE DEF g, b
        <5> QED BY <5>1
      <4>6. Con!OutputIsContiguous'
        BY <3>2, <3>6, <4>4 DEF Con!OutputIsContiguous, Con!Inv, Con!OutputInv
      <4> QED BY <3>2, <3>3, <3>6, <4>3, <4>5, <4>6 DEF Con!Inv, Con!OutputInv, Con!Fresh
    <3> QED BY <3>1, <3>4, <3>5, <3>6
  <2>2. Con!InputInv'
    <3>1. UNCHANGED <<v5, v6, v11, v12>> /\ v3' \in {v3, Nil} /\ \A d \in Peer : Con!Fresh(d)' => Con!Fresh(d)
      BY <1>13 DEF Con!PtyRead, Con!Dropped, Con!broker, Con!clients, Con!Fresh, Con!Inv, Con!OutputInv
    <3> QED BY <3>1, ConsoleKeeps DEF Con!Inv
  <2> QED BY <2>1, <2>2 DEF Con!Inv
<1>14. CASE Con!ClientRead
  <2>1. Con!OutputInv'
    BY <1>14 DEF Con!ClientRead, Con!broker, Con!clients, Con!Inv, Con!OutputInv, Con!InputInv,
           Con!OutputIsContiguous, Con!Fresh
  <2>2. Con!InputInv'
    <3> DEFINE w == v12[v3]
    <3>0. UNCHANGED <<v6, v10, v11>>
      BY <1>14 DEF Con!ClientRead
    <3>1. CASE UNCHANGED <<v5, v12>>
      <4>1. v3' \in {v3, Nil}
        BY <1>14, <3>1 DEF Con!ClientRead
      <4> QED BY <3>0, <3>1, <4>1, ConsoleKeeps DEF Con!Inv, Con!Fresh
    <3>2. CASE ~UNCHANGED <<v5, v12>>
      <4>1. /\ v3 # Nil /\ v5 = <<>> /\ w # <<>> /\ v3' = v3 /\ v12' = [v12 EXCEPT ![v3] = <<>>]
            /\ v5' = [k \in 1..Len(w) |-> <<v3, w[k]>>]
        BY <1>14, <3>2 DEF Con!ClientRead
      <4>2. v3 \in Peer /\ v11 \in [Peer -> Nat] /\ v12 \in [Peer -> Seq(Nat)] /\ v6 \in Seq(Peer \X Nat)
            /\ (\A d \in Peer : Len(v12[d]) <= v11[d]) /\ \A k \in DOMAIN w : w[k] = v11[v3] - Len(w) + k
        BY <4>1 DEF Con!Inv, Con!InputInv, Con!OutputInv
      <4>3. v12' \in [Peer -> Seq(Nat)] /\ \A d \in Peer : v12'[d] = IF d = v3 THEN <<>> ELSE v12[d]
        BY <4>1, <4>2
      <4>4. \A d \in Peer : v11[d] \in Nat /\ Len(v12[d]) \in Nat /\ Con!Taken[d] = v11[d] - Len(v12[d])
                            /\ Con!Taken'[d] = v11[d] - Len(v12'[d])
        BY <3>0, <4>2 DEF Con!Taken
      <4> DEFINE t == Con!Taken
                 u == Con!Taken'
      <4>5. \A d \in Peer : t[d] \in Nat /\ u[d] = IF d = v3 THEN t[v3] + Len(w) ELSE t[d]
        <5> SUFFICES ASSUME NEW d \in Peer PROVE t[d] \in Nat /\ u[d] = IF d = v3 THEN t[v3] + Len(w) ELSE t[d]
          OBVIOUS
        <5>1. t[d] \in Nat
          BY <4>2, <4>4
        <5>2. CASE d = v3
          <6>1. Len(v12'[d]) = 0
            BY <4>3, <5>2
          <6> QED BY <4>2, <4>4, <5>1, <5>2, <6>1
        <5>3. CASE d # v3
          BY <4>3, <4>4, <5>1, <5>3
        <5> QED BY <5>2, <5>3
      <4>6. \A k \in DOMAIN w : w[k] = t[v3] + k
        BY <4>2, <4>4
      <4> DEFINE E == Peer \X Nat
      <4>7. v6 \o v5 = v6
        <5>1. v6 \in Seq(E)
          BY <4>2
        <5> HIDE DEF E
        <5> QED BY <4>1, <5>1, ConcatEmptySeq
      <4>8. Con!Runs(v6, t, v3)
        BY <4>7 DEF Con!Inv, Con!InputInv
      <4> HIDE DEF t, u
      <4>9. v5' \in Seq(Peer \X Nat) /\ Con!Runs(v6 \o v5', u, v3)
        <5>1. w \in Seq(Nat) /\ v3 \in Peer /\ v6 \in Seq(Peer \X Nat) /\ v3 # Nil
          BY <4>1, <4>2
        <5>2. v5' = [k \in 1..Len(w) |-> <<v3, w[k]>>]
          BY <4>1
        <5> HIDE DEF w
        <5>3. v5' \in Seq(Peer \X Nat) /\ Len(v5') = Len(w) /\ \A k \in DOMAIN w : v5'[k] = <<v3, w[k]>>
          <6>1. Len(w) \in Nat /\ DOMAIN w = 1..Len(w) /\ \A k \in 1..Len(w) : <<v3, w[k]>> \in Peer \X Nat
            BY <5>1
          <6>2. v5' \in [1..Len(w) -> Peer \X Nat] /\ \A k \in 1..Len(w) : v5'[k] = <<v3, w[k]>>
            BY <5>2, <6>1
          <6> DEFINE Bytes == Peer \X Nat
          <6>3. v5' \in [1..Len(w) -> Bytes]
            BY <6>2
          <6> HIDE DEF Bytes
          <6>4. v5' \in Seq(Bytes) /\ Len(v5') = Len(w)
            BY <6>1, <6>3, IsASeq, LenProperties
          <6> QED BY <6>1, <6>2, <6>4 DEF Bytes
        <5>4. Con!Runs(v6 \o v5', u, v3)
          BY <4>5, <4>6, <4>8, <5>1, <5>3, ConsoleRead
        <5> QED BY <5>3, <5>4
      <4>10. Con!Runs(v6 \o v5, Con!Taken, v3)'
        <5>1. Con!Runs((v6 \o v5)', u, v3')
          BY <3>0, <4>1, <4>9
        <5> QED BY <5>1 DEF u, Con!Runs
      <4>11. \A d \in Peer : /\ Len(v12'[d]) <= v11'[d]
                             /\ \A k \in DOMAIN v12'[d] : v12'[d][k] = v11'[d] - Len(v12'[d]) + k
                             /\ Con!Fresh(d)' => v11'[d] = 0
        <5> SUFFICES ASSUME NEW d \in Peer
                     PROVE  /\ Len(v12'[d]) <= v11'[d]
                            /\ \A k \in DOMAIN v12'[d] : v12'[d][k] = v11'[d] - Len(v12'[d]) + k
                            /\ Con!Fresh(d)' => v11'[d] = 0
          OBVIOUS
        <5>1. v11'[d] = v11[d] /\ v11[d] \in Nat /\ (Con!Fresh(d)' => v11[d] = 0)
          BY <3>0, <4>2 DEF Con!Fresh, Con!Inv, Con!InputInv
        <5>2. CASE d = v3
          <6>1. v12'[d] = <<>> /\ Len(v12'[d]) = 0 /\ DOMAIN v12'[d] = {}
            BY <4>3, <5>2
          <6> QED BY <5>1, <6>1
        <5>3. CASE d # v3
          <6>1. v12'[d] = v12[d]
            BY <4>3, <5>3
          <6> QED BY <3>0, <5>1, <6>1 DEF Con!Inv, Con!InputInv
        <5> QED BY <5>2, <5>3
      <4> QED BY <3>0, <4>2, <4>3, <4>9, <4>10, <4>11 DEF Con!InputInv
    <3> QED BY <3>1, <3>2
  <2> QED BY <2>1, <2>2 DEF Con!Inv
<1>15. CASE Con!HangUp
  <2>1. Con!OutputInv'
    <3>1. \/ v3' = v3 /\ v4' = v4
          \/ v3' = Nil /\ v4' = <<>>
      BY <1>15 DEF Con!HangUp
    <3>2. UNCHANGED <<v1, v2, v10, v13, v14>> /\ v7' = "poll"
      BY <1>15 DEF Con!HangUp, Con!clients
    <3>3. CASE v3' = v3 /\ v4' = v4
      BY <3>2, <3>3 DEF Con!Inv, Con!OutputInv, Con!OutputIsContiguous, Con!Fresh
    <3>4. CASE v3' = Nil /\ v4' = <<>>
      BY <3>2, <3>4 DEF Con!Inv, Con!OutputInv, Con!OutputIsContiguous, Con!Fresh
    <3> QED BY <3>1, <3>3, <3>4
  <2>2. Con!InputInv'
    <3>1. UNCHANGED <<v5, v6, v11, v12>> /\ v3' \in {v3, Nil} /\ \A d \in Peer : Con!Fresh(d)' => Con!Fresh(d)
      BY <1>15 DEF Con!HangUp, Con!broker, Con!clients, Con!Fresh, Con!Inv, Con!OutputInv
    <3> QED BY <3>1, ConsoleKeeps DEF Con!Inv
  <2> QED BY <2>1, <2>2 DEF Con!Inv
<1> QED
  BY <1>1, <1>2, <1>3, <1>4, <1>5, <1>6, <1>7, <1>8, <1>9, <1>10, <1>11, <1>12, <1>13, <1>14, <1>15 DEF
         Con!Next, Con!Broker

\* It implies what is promised of the console broker.
LEMMA ConsoleKept == Con!Inv => Con!OutputIsContiguous /\ Con!InputIsOrdered
<1> SUFFICES ASSUME Con!Inv PROVE Con!OutputIsContiguous /\ Con!InputIsOrdered
  OBVIOUS
<1> DEFINE s == v6 \o v5
<1>1. Con!OutputIsContiguous /\ Con!Runs(s, Con!Taken, v3)
  BY DEF Con!Inv, Con!OutputInv, Con!InputInv
<1>2. s \in Seq(Peer \X Nat)
  <2> DEFINE E == Peer \X Nat
  <2>1. v5 \in Seq(E) /\ v6 \in Seq(E)
    BY DEF Con!Inv, Con!InputInv
  <2> HIDE DEF E
  <2>2. v6 \o v5 \in Seq(E)
    BY <2>1, ConcatProperties
  <2> QED BY <2>2 DEF E
<1> HIDE DEF s
<1>3. DOMAIN s = 1..Len(s) /\ Len(s) \in Nat
  BY <1>2
<1>4. ASSUME NEW i \in DOMAIN s, NEW j \in DOMAIN s, i < j
      PROVE  \/ s[i][1] = s[j][1] /\ s[i][2] < s[j][2]
             \/ /\ s[i][1] # s[j][1]
                /\ \A k \in i..j : s[k][1] = s[i][1] \/ \A l \in k..j : s[l][1] # s[i][1]
  <2>1. CASE s[i][1] = s[j][1]
    BY <1>1, <1>4, <2>1 DEF Con!Runs
  <2>2. CASE s[i][1] # s[j][1]
    <3>1. ASSUME NEW k \in i..j, NEW l \in k..j, s[l][1] = s[i][1] PROVE s[k][1] = s[i][1]
      <4>1. i \in Nat /\ j \in Nat /\ k \in Nat /\ l \in Nat /\ i <= k /\ k <= l /\ k \in DOMAIN s /\ l \in DOMAIN s
        BY <1>3, <3>1
      <4>2. CASE i < k /\ k < l
        BY <1>1, <3>1, <4>1, <4>2 DEF Con!Runs
      <4>3. CASE i = k \/ k = l
        BY <3>1, <4>3
      <4> QED BY <4>1, <4>2, <4>3
    <3> QED BY <2>2, <3>1
  <2> QED BY <2>1, <2>2
<1> QED BY <1>1, <1>4 DEF Con!InputIsOrdered, s

\* Two servers on one socket.
Srv == INSTANCE Serve WITH
    Process <- Peer, None <- Nil, Empty <- Empty, MaxNodes <- 3, MaxStarts <- 2,
    lock <- v1, node <- v2, made <- v3, hostile <- v4, listening <- v5, pc <- v6, starts <- v7, own <- v8,
    seen <- v9, res <- v10, token <- v11, have <- v12, lost <- v13, late <- v14

\* Processes and tokens are neither of the marks for "none" and "an empty file".
TokensAreReal == Nil \notin Peer /\ Nil # Empty /\ Srv!Tokens \cap {Nil, Empty} = {}

\* The invariant of the server holds at first.
LEMMA ServeBegin == TokensAreReal /\ Srv!Init => Srv!Inv
BY DEF TokensAreReal, Srv!Init, Srv!Inv, Srv!LockInv, Srv!NodeInv, Srv!NameInv, Srv!TokenInv, Srv!TokenAgrees,
       Srv!LiveSocketsKept, Srv!NothingLeft, Srv!Held, Srv!Bound, Srv!Steps, Srv!Tokens

\* Every step of the server keeps it.
LEMMA ServeStepInv ==
  ASSUME TokensAreReal, Srv!Inv, [Srv!Next]_(Srv!vars)
  PROVE  Srv!Inv'
<1> USE DEF TokensAreReal, Srv!files, Srv!tokens, Srv!Goto, Srv!End, Srv!Held, Srv!Bound, Srv!Steps
<1>1. CASE UNCHANGED Srv!vars
  BY <1>1 DEF Srv!vars, Srv!Tokens, Srv!Inv, Srv!LockInv, Srv!NodeInv, Srv!NameInv, Srv!TokenInv,
         Srv!TokenAgrees, Srv!LiveSocketsKept, Srv!NothingLeft
<1>2. CASE Srv!Replace
  <2>1. Srv!LockInv'
    BY <1>2 DEF Srv!Replace, Srv!InBetween, Srv!Inv, Srv!LockInv, Srv!NodeInv, Srv!NameInv, Srv!TokenInv,
           Srv!LiveSocketsKept, Srv!NothingLeft
  <2>2. Srv!NodeInv'
    BY <1>2 DEF Srv!Replace, Srv!InBetween, Srv!Inv, Srv!LockInv, Srv!NodeInv, Srv!NameInv, Srv!TokenInv,
           Srv!LiveSocketsKept, Srv!NothingLeft
  <2>3. Srv!NameInv'
    BY <1>2 DEF Srv!Replace, Srv!InBetween, Srv!Inv, Srv!LockInv, Srv!NodeInv, Srv!NameInv, Srv!TokenInv,
           Srv!LiveSocketsKept, Srv!NothingLeft
  <2>4. Srv!TokenInv'
    BY <1>2 DEF Srv!Replace, Srv!InBetween, Srv!Inv, Srv!LockInv, Srv!NodeInv, Srv!NameInv, Srv!TokenInv,
           Srv!LiveSocketsKept, Srv!NothingLeft, Srv!TokenAgrees
  <2>5. Srv!LiveSocketsKept'
    BY <1>2 DEF Srv!Replace, Srv!InBetween, Srv!Inv, Srv!LockInv, Srv!NodeInv, Srv!NameInv, Srv!TokenInv,
           Srv!LiveSocketsKept, Srv!NothingLeft
  <2>6. Srv!NothingLeft'
    BY <1>2 DEF Srv!Replace, Srv!InBetween, Srv!Inv, Srv!LockInv, Srv!NodeInv, Srv!NameInv, Srv!TokenInv,
           Srv!LiveSocketsKept, Srv!NothingLeft
  <2> QED BY <2>1, <2>2, <2>3, <2>4, <2>5, <2>6 DEF Srv!Inv
<1>3. ASSUME NEW p \in Peer, Srv!Start(p) PROVE Srv!Inv'
  <2>1. Srv!LockInv'
    BY <1>3 DEF Srv!Start, Srv!Inv, Srv!LockInv, Srv!NodeInv, Srv!NameInv, Srv!TokenInv, Srv!LiveSocketsKept,
           Srv!NothingLeft
  <2>2. Srv!NodeInv'
    BY <1>3 DEF Srv!Start, Srv!Inv, Srv!LockInv, Srv!NodeInv, Srv!NameInv, Srv!TokenInv, Srv!LiveSocketsKept,
           Srv!NothingLeft
  <2>3. Srv!NameInv'
    BY <1>3 DEF Srv!Start, Srv!Inv, Srv!LockInv, Srv!NodeInv, Srv!NameInv, Srv!TokenInv, Srv!LiveSocketsKept,
           Srv!NothingLeft
  <2>4. Srv!TokenInv'
    BY <1>3 DEF Srv!Start, Srv!Inv, Srv!LockInv, Srv!NodeInv, Srv!NameInv, Srv!TokenInv, Srv!LiveSocketsKept,
           Srv!NothingLeft, Srv!TokenAgrees
  <2>5. Srv!LiveSocketsKept'
    BY <1>3 DEF Srv!Start, Srv!Inv, Srv!LockInv, Srv!NodeInv, Srv!NameInv, Srv!TokenInv, Srv!LiveSocketsKept,
           Srv!NothingLeft
  <2>6. Srv!NothingLeft'
    BY <1>3 DEF Srv!Start, Srv!Inv, Srv!LockInv, Srv!NodeInv, Srv!NameInv, Srv!TokenInv, Srv!LiveSocketsKept,
           Srv!NothingLeft
  <2> QED BY <2>1, <2>2, <2>3, <2>4, <2>5, <2>6 DEF Srv!Inv
<1>4. ASSUME NEW p \in Peer, Srv!Acquire(p) PROVE Srv!Inv'
  <2>1. Srv!LockInv'
    BY <1>4 DEF Srv!Acquire, Srv!Inv, Srv!LockInv, Srv!NodeInv, Srv!NameInv, Srv!TokenInv,
           Srv!LiveSocketsKept, Srv!NothingLeft
  <2>2. Srv!NodeInv'
    BY <1>4 DEF Srv!Acquire, Srv!Inv, Srv!LockInv, Srv!NodeInv, Srv!NameInv, Srv!TokenInv,
           Srv!LiveSocketsKept, Srv!NothingLeft
  <2>3. Srv!NameInv'
    BY <1>4 DEF Srv!Acquire, Srv!Inv, Srv!LockInv, Srv!NodeInv, Srv!NameInv, Srv!TokenInv,
           Srv!LiveSocketsKept, Srv!NothingLeft
  <2>4. Srv!TokenInv'
    BY <1>4 DEF Srv!Acquire, Srv!Inv, Srv!LockInv, Srv!NodeInv, Srv!NameInv, Srv!TokenInv,
           Srv!LiveSocketsKept, Srv!NothingLeft, Srv!TokenAgrees
  <2>5. Srv!LiveSocketsKept'
    BY <1>4 DEF Srv!Acquire, Srv!Inv, Srv!LockInv, Srv!NodeInv, Srv!NameInv, Srv!TokenInv,
           Srv!LiveSocketsKept, Srv!NothingLeft
  <2>6. Srv!NothingLeft'
    BY <1>4 DEF Srv!Acquire, Srv!Inv, Srv!LockInv, Srv!NodeInv, Srv!NameInv, Srv!TokenInv,
           Srv!LiveSocketsKept, Srv!NothingLeft
  <2> QED BY <2>1, <2>2, <2>3, <2>4, <2>5, <2>6 DEF Srv!Inv
<1>5. ASSUME NEW p \in Peer, Srv!Stat(p) PROVE Srv!Inv'
  <2>1. Srv!LockInv'
    BY <1>5 DEF Srv!Stat, Srv!Inv, Srv!LockInv, Srv!NodeInv, Srv!NameInv, Srv!TokenInv, Srv!LiveSocketsKept,
           Srv!NothingLeft
  <2>2. Srv!NodeInv'
    BY <1>5 DEF Srv!Stat, Srv!Inv, Srv!LockInv, Srv!NodeInv, Srv!NameInv, Srv!TokenInv, Srv!LiveSocketsKept,
           Srv!NothingLeft
  <2>3. Srv!NameInv'
    BY <1>5 DEF Srv!Stat, Srv!Inv, Srv!LockInv, Srv!NodeInv, Srv!NameInv, Srv!TokenInv, Srv!LiveSocketsKept,
           Srv!NothingLeft
  <2>4. Srv!TokenInv'
    BY <1>5 DEF Srv!Stat, Srv!Inv, Srv!LockInv, Srv!NodeInv, Srv!NameInv, Srv!TokenInv, Srv!LiveSocketsKept,
           Srv!NothingLeft, Srv!TokenAgrees
  <2>5. Srv!LiveSocketsKept'
    BY <1>5 DEF Srv!Stat, Srv!Inv, Srv!LockInv, Srv!NodeInv, Srv!NameInv, Srv!TokenInv, Srv!LiveSocketsKept,
           Srv!NothingLeft
  <2>6. Srv!NothingLeft'
    BY <1>5 DEF Srv!Stat, Srv!Inv, Srv!LockInv, Srv!NodeInv, Srv!NameInv, Srv!TokenInv, Srv!LiveSocketsKept,
           Srv!NothingLeft
  <2> QED BY <2>1, <2>2, <2>3, <2>4, <2>5, <2>6 DEF Srv!Inv
<1>6. ASSUME NEW p \in Peer, Srv!Probe(p) PROVE Srv!Inv'
  <2>1. Srv!LockInv'
    BY <1>6 DEF Srv!Probe, Srv!Inv, Srv!LockInv, Srv!NodeInv, Srv!NameInv, Srv!TokenInv, Srv!LiveSocketsKept,
           Srv!NothingLeft
  <2>2. Srv!NodeInv'
    BY <1>6 DEF Srv!Probe, Srv!Inv, Srv!LockInv, Srv!NodeInv, Srv!NameInv, Srv!TokenInv, Srv!LiveSocketsKept,
           Srv!NothingLeft
  <2>3. Srv!NameInv'
    BY <1>6 DEF Srv!Probe, Srv!Inv, Srv!LockInv, Srv!NodeInv, Srv!NameInv, Srv!TokenInv, Srv!LiveSocketsKept,
           Srv!NothingLeft
  <2>4. Srv!TokenInv'
    BY <1>6 DEF Srv!Probe, Srv!Inv, Srv!LockInv, Srv!NodeInv, Srv!NameInv, Srv!TokenInv, Srv!LiveSocketsKept,
           Srv!NothingLeft, Srv!TokenAgrees
  <2>5. Srv!LiveSocketsKept'
    BY <1>6 DEF Srv!Probe, Srv!Inv, Srv!LockInv, Srv!NodeInv, Srv!NameInv, Srv!TokenInv, Srv!LiveSocketsKept,
           Srv!NothingLeft
  <2>6. Srv!NothingLeft'
    BY <1>6 DEF Srv!Probe, Srv!Inv, Srv!LockInv, Srv!NodeInv, Srv!NameInv, Srv!TokenInv, Srv!LiveSocketsKept,
           Srv!NothingLeft
  <2> QED BY <2>1, <2>2, <2>3, <2>4, <2>5, <2>6 DEF Srv!Inv
<1>7. ASSUME NEW p \in Peer, Srv!Recheck(p) PROVE Srv!Inv'
  <2>1. Srv!LockInv'
    BY <1>7 DEF Srv!Recheck, Srv!Inv, Srv!LockInv, Srv!NodeInv, Srv!NameInv, Srv!TokenInv,
           Srv!LiveSocketsKept, Srv!NothingLeft
  <2>2. Srv!NodeInv'
    BY <1>7 DEF Srv!Recheck, Srv!Inv, Srv!LockInv, Srv!NodeInv, Srv!NameInv, Srv!TokenInv,
           Srv!LiveSocketsKept, Srv!NothingLeft
  <2>3. Srv!NameInv'
    BY <1>7 DEF Srv!Recheck, Srv!Inv, Srv!LockInv, Srv!NodeInv, Srv!NameInv, Srv!TokenInv,
           Srv!LiveSocketsKept, Srv!NothingLeft
  <2>4. Srv!TokenInv'
    BY <1>7 DEF Srv!Recheck, Srv!Inv, Srv!LockInv, Srv!NodeInv, Srv!NameInv, Srv!TokenInv,
           Srv!LiveSocketsKept, Srv!NothingLeft, Srv!TokenAgrees
  <2>5. Srv!LiveSocketsKept'
    BY <1>7 DEF Srv!Recheck, Srv!Inv, Srv!LockInv, Srv!NodeInv, Srv!NameInv, Srv!TokenInv,
           Srv!LiveSocketsKept, Srv!NothingLeft
  <2>6. Srv!NothingLeft'
    BY <1>7 DEF Srv!Recheck, Srv!Inv, Srv!LockInv, Srv!NodeInv, Srv!NameInv, Srv!TokenInv,
           Srv!LiveSocketsKept, Srv!NothingLeft
  <2> QED BY <2>1, <2>2, <2>3, <2>4, <2>5, <2>6 DEF Srv!Inv
<1>8. ASSUME NEW p \in Peer, Srv!Unlink(p) PROVE Srv!Inv'
  <2>1. Srv!LockInv'
    BY <1>8 DEF Srv!Unlink, Srv!Unlinked, Srv!Inv, Srv!LockInv, Srv!NodeInv, Srv!NameInv, Srv!TokenInv,
           Srv!LiveSocketsKept, Srv!NothingLeft
  <2>2. Srv!NodeInv'
    BY <1>8 DEF Srv!Unlink, Srv!Unlinked, Srv!Inv, Srv!LockInv, Srv!NodeInv, Srv!NameInv, Srv!TokenInv,
           Srv!LiveSocketsKept, Srv!NothingLeft
  <2>3. Srv!NameInv'
    BY <1>8 DEF Srv!Unlink, Srv!Unlinked, Srv!Inv, Srv!LockInv, Srv!NodeInv, Srv!NameInv, Srv!TokenInv,
           Srv!LiveSocketsKept, Srv!NothingLeft
  <2>4. Srv!TokenInv'
    BY <1>8 DEF Srv!Unlink, Srv!Unlinked, Srv!Inv, Srv!LockInv, Srv!NodeInv, Srv!NameInv, Srv!TokenInv,
           Srv!LiveSocketsKept, Srv!NothingLeft, Srv!TokenAgrees
  <2>5. Srv!LiveSocketsKept'
    BY <1>8 DEF Srv!Unlink, Srv!Unlinked, Srv!Inv, Srv!LockInv, Srv!NodeInv, Srv!NameInv, Srv!TokenInv,
           Srv!LiveSocketsKept, Srv!NothingLeft
  <2>6. Srv!NothingLeft'
    BY <1>8 DEF Srv!Unlink, Srv!Unlinked, Srv!Inv, Srv!LockInv, Srv!NodeInv, Srv!NameInv, Srv!TokenInv,
           Srv!LiveSocketsKept, Srv!NothingLeft
  <2> QED BY <2>1, <2>2, <2>3, <2>4, <2>5, <2>6 DEF Srv!Inv
<1>9. ASSUME NEW p \in Peer, Srv!Bind(p) PROVE Srv!Inv'
  <2>1. Srv!LockInv'
    BY <1>9 DEF Srv!Bind, Srv!Inv, Srv!LockInv, Srv!NodeInv, Srv!NameInv, Srv!TokenInv, Srv!LiveSocketsKept,
           Srv!NothingLeft
  <2>2. Srv!NodeInv'
    BY <1>9 DEF Srv!Bind, Srv!Inv, Srv!LockInv, Srv!NodeInv, Srv!NameInv, Srv!TokenInv, Srv!LiveSocketsKept,
           Srv!NothingLeft
  <2>3. Srv!NameInv'
    BY <1>9 DEF Srv!Bind, Srv!Inv, Srv!LockInv, Srv!NodeInv, Srv!NameInv, Srv!TokenInv, Srv!LiveSocketsKept,
           Srv!NothingLeft
  <2>4. Srv!TokenInv'
    BY <1>9 DEF Srv!Bind, Srv!Inv, Srv!LockInv, Srv!NodeInv, Srv!NameInv, Srv!TokenInv, Srv!LiveSocketsKept,
           Srv!NothingLeft, Srv!TokenAgrees
  <2>5. Srv!LiveSocketsKept'
    BY <1>9 DEF Srv!Bind, Srv!Inv, Srv!LockInv, Srv!NodeInv, Srv!NameInv, Srv!TokenInv, Srv!LiveSocketsKept,
           Srv!NothingLeft
  <2>6. Srv!NothingLeft'
    BY <1>9 DEF Srv!Bind, Srv!Inv, Srv!LockInv, Srv!NodeInv, Srv!NameInv, Srv!TokenInv, Srv!LiveSocketsKept,
           Srv!NothingLeft
  <2> QED BY <2>1, <2>2, <2>3, <2>4, <2>5, <2>6 DEF Srv!Inv
<1>10. ASSUME NEW p \in Peer, Srv!Listen(p) PROVE Srv!Inv'
  <2>1. Srv!LockInv'
    BY <1>10 DEF Srv!Listen, Srv!Inv, Srv!LockInv, Srv!NodeInv, Srv!NameInv, Srv!TokenInv,
           Srv!LiveSocketsKept, Srv!NothingLeft
  <2>2. Srv!NodeInv'
    BY <1>10 DEF Srv!Listen, Srv!Inv, Srv!LockInv, Srv!NodeInv, Srv!NameInv, Srv!TokenInv,
           Srv!LiveSocketsKept, Srv!NothingLeft
  <2>3. Srv!NameInv'
    BY <1>10 DEF Srv!Listen, Srv!Inv, Srv!LockInv, Srv!NodeInv, Srv!NameInv, Srv!TokenInv,
           Srv!LiveSocketsKept, Srv!NothingLeft
  <2>4. Srv!TokenInv'
    BY <1>10 DEF Srv!Listen, Srv!Inv, Srv!LockInv, Srv!NodeInv, Srv!NameInv, Srv!TokenInv,
           Srv!LiveSocketsKept, Srv!NothingLeft, Srv!TokenAgrees
  <2>5. Srv!LiveSocketsKept'
    BY <1>10 DEF Srv!Listen, Srv!Inv, Srv!LockInv, Srv!NodeInv, Srv!NameInv, Srv!TokenInv,
           Srv!LiveSocketsKept, Srv!NothingLeft
  <2>6. Srv!NothingLeft'
    BY <1>10 DEF Srv!Listen, Srv!Inv, Srv!LockInv, Srv!NodeInv, Srv!NameInv, Srv!TokenInv,
           Srv!LiveSocketsKept, Srv!NothingLeft
  <2> QED BY <2>1, <2>2, <2>3, <2>4, <2>5, <2>6 DEF Srv!Inv
<1>11. ASSUME NEW p \in Peer, Srv!Identify(p) PROVE Srv!Inv'
  <2>1. Srv!LockInv'
    BY <1>11 DEF Srv!Identify, Srv!Inv, Srv!LockInv, Srv!NodeInv, Srv!NameInv, Srv!TokenInv,
           Srv!LiveSocketsKept, Srv!NothingLeft
  <2>2. Srv!NodeInv'
    BY <1>11 DEF Srv!Identify, Srv!Inv, Srv!LockInv, Srv!NodeInv, Srv!NameInv, Srv!TokenInv,
           Srv!LiveSocketsKept, Srv!NothingLeft
  <2>3. Srv!NameInv'
    BY <1>11 DEF Srv!Identify, Srv!Inv, Srv!LockInv, Srv!NodeInv, Srv!NameInv, Srv!TokenInv,
           Srv!LiveSocketsKept, Srv!NothingLeft
  <2>4. Srv!TokenInv'
    BY <1>11 DEF Srv!Identify, Srv!Inv, Srv!LockInv, Srv!NodeInv, Srv!NameInv, Srv!TokenInv,
           Srv!LiveSocketsKept, Srv!NothingLeft, Srv!TokenAgrees
  <2>5. Srv!LiveSocketsKept'
    BY <1>11 DEF Srv!Identify, Srv!Inv, Srv!LockInv, Srv!NodeInv, Srv!NameInv, Srv!TokenInv,
           Srv!LiveSocketsKept, Srv!NothingLeft
  <2>6. Srv!NothingLeft'
    BY <1>11 DEF Srv!Identify, Srv!Inv, Srv!LockInv, Srv!NodeInv, Srv!NameInv, Srv!TokenInv,
           Srv!LiveSocketsKept, Srv!NothingLeft
  <2> QED BY <2>1, <2>2, <2>3, <2>4, <2>5, <2>6 DEF Srv!Inv
<1>12. ASSUME NEW p \in Peer, Srv!Publish(p) PROVE Srv!Inv'
  <2>1. Srv!LockInv'
    BY <1>12 DEF Srv!Publish, Srv!Inv, Srv!LockInv, Srv!NodeInv, Srv!NameInv, Srv!TokenInv,
           Srv!LiveSocketsKept, Srv!NothingLeft
  <2>2. Srv!NodeInv'
    BY <1>12 DEF Srv!Publish, Srv!Inv, Srv!LockInv, Srv!NodeInv, Srv!NameInv, Srv!TokenInv,
           Srv!LiveSocketsKept, Srv!NothingLeft
  <2>3. Srv!NameInv'
    BY <1>12 DEF Srv!Publish, Srv!Inv, Srv!LockInv, Srv!NodeInv, Srv!NameInv, Srv!TokenInv,
           Srv!LiveSocketsKept, Srv!NothingLeft
  <2>4. Srv!TokenInv'
    BY <1>12 DEF Srv!Publish, Srv!Inv, Srv!LockInv, Srv!NodeInv, Srv!NameInv, Srv!TokenInv,
           Srv!LiveSocketsKept, Srv!NothingLeft, Srv!TokenAgrees
  <2>5. Srv!LiveSocketsKept'
    BY <1>12 DEF Srv!Publish, Srv!Inv, Srv!LockInv, Srv!NodeInv, Srv!NameInv, Srv!TokenInv,
           Srv!LiveSocketsKept, Srv!NothingLeft
  <2>6. Srv!NothingLeft'
    BY <1>12 DEF Srv!Publish, Srv!Inv, Srv!LockInv, Srv!NodeInv, Srv!NameInv, Srv!TokenInv,
           Srv!LiveSocketsKept, Srv!NothingLeft
  <2> QED BY <2>1, <2>2, <2>3, <2>4, <2>5, <2>6 DEF Srv!Inv
<1>13. ASSUME NEW p \in Peer, Srv!Drain(p) PROVE Srv!Inv'
  <2>1. Srv!LockInv'
    BY <1>13 DEF Srv!Drain, Srv!Inv, Srv!LockInv, Srv!NodeInv, Srv!NameInv, Srv!TokenInv, Srv!LiveSocketsKept,
           Srv!NothingLeft
  <2>2. Srv!NodeInv'
    BY <1>13 DEF Srv!Drain, Srv!Inv, Srv!LockInv, Srv!NodeInv, Srv!NameInv, Srv!TokenInv, Srv!LiveSocketsKept,
           Srv!NothingLeft
  <2>3. Srv!NameInv'
    BY <1>13 DEF Srv!Drain, Srv!Inv, Srv!LockInv, Srv!NodeInv, Srv!NameInv, Srv!TokenInv, Srv!LiveSocketsKept,
           Srv!NothingLeft
  <2>4. Srv!TokenInv'
    BY <1>13 DEF Srv!Drain, Srv!Inv, Srv!LockInv, Srv!NodeInv, Srv!NameInv, Srv!TokenInv, Srv!LiveSocketsKept,
           Srv!NothingLeft, Srv!TokenAgrees
  <2>5. Srv!LiveSocketsKept'
    BY <1>13 DEF Srv!Drain, Srv!Inv, Srv!LockInv, Srv!NodeInv, Srv!NameInv, Srv!TokenInv, Srv!LiveSocketsKept,
           Srv!NothingLeft
  <2>6. Srv!NothingLeft'
    BY <1>13 DEF Srv!Drain, Srv!Inv, Srv!LockInv, Srv!NodeInv, Srv!NameInv, Srv!TokenInv, Srv!LiveSocketsKept,
           Srv!NothingLeft
  <2> QED BY <2>1, <2>2, <2>3, <2>4, <2>5, <2>6 DEF Srv!Inv
<1>14. ASSUME NEW p \in Peer, Srv!CleanStat(p) PROVE Srv!Inv'
  <2>1. Srv!LockInv'
    BY <1>14 DEF Srv!CleanStat, Srv!Inv, Srv!LockInv, Srv!NodeInv, Srv!NameInv, Srv!TokenInv,
           Srv!LiveSocketsKept, Srv!NothingLeft
  <2>2. Srv!NodeInv'
    BY <1>14 DEF Srv!CleanStat, Srv!Inv, Srv!LockInv, Srv!NodeInv, Srv!NameInv, Srv!TokenInv,
           Srv!LiveSocketsKept, Srv!NothingLeft
  <2>3. Srv!NameInv'
    BY <1>14 DEF Srv!CleanStat, Srv!Inv, Srv!LockInv, Srv!NodeInv, Srv!NameInv, Srv!TokenInv,
           Srv!LiveSocketsKept, Srv!NothingLeft
  <2>4. Srv!TokenInv'
    BY <1>14 DEF Srv!CleanStat, Srv!Inv, Srv!LockInv, Srv!NodeInv, Srv!NameInv, Srv!TokenInv,
           Srv!LiveSocketsKept, Srv!NothingLeft, Srv!TokenAgrees
  <2>5. Srv!LiveSocketsKept'
    BY <1>14 DEF Srv!CleanStat, Srv!Inv, Srv!LockInv, Srv!NodeInv, Srv!NameInv, Srv!TokenInv,
           Srv!LiveSocketsKept, Srv!NothingLeft
  <2>6. Srv!NothingLeft'
    BY <1>14 DEF Srv!CleanStat, Srv!Inv, Srv!LockInv, Srv!NodeInv, Srv!NameInv, Srv!TokenInv,
           Srv!LiveSocketsKept, Srv!NothingLeft
  <2> QED BY <2>1, <2>2, <2>3, <2>4, <2>5, <2>6 DEF Srv!Inv
<1>15. ASSUME NEW p \in Peer, Srv!CleanUnlink(p) PROVE Srv!Inv'
  <2>1. Srv!LockInv'
    BY <1>15 DEF Srv!CleanUnlink, Srv!Unlinked, Srv!Inv, Srv!LockInv, Srv!NodeInv, Srv!NameInv, Srv!TokenInv,
           Srv!LiveSocketsKept, Srv!NothingLeft
  <2>2. Srv!NodeInv'
    BY <1>15 DEF Srv!CleanUnlink, Srv!Unlinked, Srv!Inv, Srv!LockInv, Srv!NodeInv, Srv!NameInv, Srv!TokenInv,
           Srv!LiveSocketsKept, Srv!NothingLeft
  <2>3. Srv!NameInv'
    BY <1>15 DEF Srv!CleanUnlink, Srv!Unlinked, Srv!Inv, Srv!LockInv, Srv!NodeInv, Srv!NameInv, Srv!TokenInv,
           Srv!LiveSocketsKept, Srv!NothingLeft
  <2>4. Srv!TokenInv'
    BY <1>15 DEF Srv!CleanUnlink, Srv!Unlinked, Srv!Inv, Srv!LockInv, Srv!NodeInv, Srv!NameInv, Srv!TokenInv,
           Srv!LiveSocketsKept, Srv!NothingLeft, Srv!TokenAgrees
  <2>5. Srv!LiveSocketsKept'
    BY <1>15 DEF Srv!CleanUnlink, Srv!Unlinked, Srv!Inv, Srv!LockInv, Srv!NodeInv, Srv!NameInv, Srv!TokenInv,
           Srv!LiveSocketsKept, Srv!NothingLeft
  <2>6. Srv!NothingLeft'
    BY <1>15 DEF Srv!CleanUnlink, Srv!Unlinked, Srv!Inv, Srv!LockInv, Srv!NodeInv, Srv!NameInv, Srv!TokenInv,
           Srv!LiveSocketsKept, Srv!NothingLeft
  <2> QED BY <2>1, <2>2, <2>3, <2>4, <2>5, <2>6 DEF Srv!Inv
<1>16. ASSUME NEW p \in Peer, Srv!LoadToken(p) PROVE Srv!Inv'
  <2>1. Srv!LockInv'
    BY <1>16 DEF Srv!LoadToken, Srv!Tokens, Srv!Inv, Srv!LockInv, Srv!NodeInv, Srv!NameInv, Srv!TokenInv,
           Srv!LiveSocketsKept, Srv!NothingLeft
  <2>2. Srv!NodeInv'
    BY <1>16 DEF Srv!LoadToken, Srv!Tokens, Srv!Inv, Srv!LockInv, Srv!NodeInv, Srv!NameInv, Srv!TokenInv,
           Srv!LiveSocketsKept, Srv!NothingLeft
  <2>3. Srv!NameInv'
    BY <1>16 DEF Srv!LoadToken, Srv!Tokens, Srv!Inv, Srv!LockInv, Srv!NodeInv, Srv!NameInv, Srv!TokenInv,
           Srv!LiveSocketsKept, Srv!NothingLeft
  <2>4. Srv!TokenInv'
    BY <1>16 DEF Srv!LoadToken, Srv!Tokens, Srv!Inv, Srv!LockInv, Srv!NodeInv, Srv!NameInv, Srv!TokenInv,
           Srv!LiveSocketsKept, Srv!NothingLeft, Srv!TokenAgrees
  <2>5. Srv!LiveSocketsKept'
    BY <1>16 DEF Srv!LoadToken, Srv!Tokens, Srv!Inv, Srv!LockInv, Srv!NodeInv, Srv!NameInv, Srv!TokenInv,
           Srv!LiveSocketsKept, Srv!NothingLeft
  <2>6. Srv!NothingLeft'
    BY <1>16 DEF Srv!LoadToken, Srv!Tokens, Srv!Inv, Srv!LockInv, Srv!NodeInv, Srv!NameInv, Srv!TokenInv,
           Srv!LiveSocketsKept, Srv!NothingLeft
  <2> QED BY <2>1, <2>2, <2>3, <2>4, <2>5, <2>6 DEF Srv!Inv
<1>17. ASSUME NEW p \in Peer, Srv!CreateToken(p) PROVE Srv!Inv'
  <2>1. Srv!LockInv'
    BY <1>17 DEF Srv!CreateToken, Srv!Inv, Srv!LockInv, Srv!NodeInv, Srv!NameInv, Srv!TokenInv,
           Srv!LiveSocketsKept, Srv!NothingLeft
  <2>2. Srv!NodeInv'
    BY <1>17 DEF Srv!CreateToken, Srv!Inv, Srv!LockInv, Srv!NodeInv, Srv!NameInv, Srv!TokenInv,
           Srv!LiveSocketsKept, Srv!NothingLeft
  <2>3. Srv!NameInv'
    BY <1>17 DEF Srv!CreateToken, Srv!Inv, Srv!LockInv, Srv!NodeInv, Srv!NameInv, Srv!TokenInv,
           Srv!LiveSocketsKept, Srv!NothingLeft
  <2>4. Srv!TokenInv'
    BY <1>17 DEF Srv!CreateToken, Srv!Inv, Srv!LockInv, Srv!NodeInv, Srv!NameInv, Srv!TokenInv,
           Srv!LiveSocketsKept, Srv!NothingLeft, Srv!TokenAgrees
  <2>5. Srv!LiveSocketsKept'
    BY <1>17 DEF Srv!CreateToken, Srv!Inv, Srv!LockInv, Srv!NodeInv, Srv!NameInv, Srv!TokenInv,
           Srv!LiveSocketsKept, Srv!NothingLeft
  <2>6. Srv!NothingLeft'
    BY <1>17 DEF Srv!CreateToken, Srv!Inv, Srv!LockInv, Srv!NodeInv, Srv!NameInv, Srv!TokenInv,
           Srv!LiveSocketsKept, Srv!NothingLeft
  <2> QED BY <2>1, <2>2, <2>3, <2>4, <2>5, <2>6 DEF Srv!Inv
<1>18. ASSUME NEW p \in Peer, Srv!WriteToken(p) PROVE Srv!Inv'
  <2>1. Srv!LockInv'
    BY <1>18 DEF Srv!WriteToken, Srv!Tokens, Srv!Inv, Srv!LockInv, Srv!NodeInv, Srv!NameInv, Srv!TokenInv,
           Srv!LiveSocketsKept, Srv!NothingLeft
  <2>2. Srv!NodeInv'
    BY <1>18 DEF Srv!WriteToken, Srv!Tokens, Srv!Inv, Srv!LockInv, Srv!NodeInv, Srv!NameInv, Srv!TokenInv,
           Srv!LiveSocketsKept, Srv!NothingLeft
  <2>3. Srv!NameInv'
    BY <1>18 DEF Srv!WriteToken, Srv!Tokens, Srv!Inv, Srv!LockInv, Srv!NodeInv, Srv!NameInv, Srv!TokenInv,
           Srv!LiveSocketsKept, Srv!NothingLeft
  <2>4. Srv!TokenInv'
    BY <1>18 DEF Srv!WriteToken, Srv!Tokens, Srv!Inv, Srv!LockInv, Srv!NodeInv, Srv!NameInv, Srv!TokenInv,
           Srv!LiveSocketsKept, Srv!NothingLeft, Srv!TokenAgrees
  <2>5. Srv!LiveSocketsKept'
    BY <1>18 DEF Srv!WriteToken, Srv!Tokens, Srv!Inv, Srv!LockInv, Srv!NodeInv, Srv!NameInv, Srv!TokenInv,
           Srv!LiveSocketsKept, Srv!NothingLeft
  <2>6. Srv!NothingLeft'
    BY <1>18 DEF Srv!WriteToken, Srv!Tokens, Srv!Inv, Srv!LockInv, Srv!NodeInv, Srv!NameInv, Srv!TokenInv,
           Srv!LiveSocketsKept, Srv!NothingLeft
  <2> QED BY <2>1, <2>2, <2>3, <2>4, <2>5, <2>6 DEF Srv!Inv
<1>19. ASSUME NEW p \in Peer, Srv!StopGated(p) PROVE Srv!Inv'
  <2>1. Srv!LockInv'
    BY <1>19 DEF Srv!StopGated, Srv!Inv, Srv!LockInv, Srv!NodeInv, Srv!NameInv, Srv!TokenInv,
           Srv!LiveSocketsKept, Srv!NothingLeft
  <2>2. Srv!NodeInv'
    BY <1>19 DEF Srv!StopGated, Srv!Inv, Srv!LockInv, Srv!NodeInv, Srv!NameInv, Srv!TokenInv,
           Srv!LiveSocketsKept, Srv!NothingLeft
  <2>3. Srv!NameInv'
    BY <1>19 DEF Srv!StopGated, Srv!Inv, Srv!LockInv, Srv!NodeInv, Srv!NameInv, Srv!TokenInv,
           Srv!LiveSocketsKept, Srv!NothingLeft
  <2>4. Srv!TokenInv'
    BY <1>19 DEF Srv!StopGated, Srv!Inv, Srv!LockInv, Srv!NodeInv, Srv!NameInv, Srv!TokenInv,
           Srv!LiveSocketsKept, Srv!NothingLeft, Srv!TokenAgrees
  <2>5. Srv!LiveSocketsKept'
    BY <1>19 DEF Srv!StopGated, Srv!Inv, Srv!LockInv, Srv!NodeInv, Srv!NameInv, Srv!TokenInv,
           Srv!LiveSocketsKept, Srv!NothingLeft
  <2>6. Srv!NothingLeft'
    BY <1>19 DEF Srv!StopGated, Srv!Inv, Srv!LockInv, Srv!NodeInv, Srv!NameInv, Srv!TokenInv,
           Srv!LiveSocketsKept, Srv!NothingLeft
  <2> QED BY <2>1, <2>2, <2>3, <2>4, <2>5, <2>6 DEF Srv!Inv
<1>20. ASSUME NEW p \in Peer, Srv!Crash(p) PROVE Srv!Inv'
  <2>1. Srv!LockInv'
    BY <1>20 DEF Srv!Crash, Srv!Inv, Srv!LockInv, Srv!NodeInv, Srv!NameInv, Srv!TokenInv, Srv!LiveSocketsKept,
           Srv!NothingLeft
  <2>2. Srv!NodeInv'
    BY <1>20 DEF Srv!Crash, Srv!Inv, Srv!LockInv, Srv!NodeInv, Srv!NameInv, Srv!TokenInv, Srv!LiveSocketsKept,
           Srv!NothingLeft
  <2>3. Srv!NameInv'
    BY <1>20 DEF Srv!Crash, Srv!Inv, Srv!LockInv, Srv!NodeInv, Srv!NameInv, Srv!TokenInv, Srv!LiveSocketsKept,
           Srv!NothingLeft
  <2>4. Srv!TokenInv'
    BY <1>20 DEF Srv!Crash, Srv!Inv, Srv!LockInv, Srv!NodeInv, Srv!NameInv, Srv!TokenInv, Srv!LiveSocketsKept,
           Srv!NothingLeft, Srv!TokenAgrees
  <2>5. Srv!LiveSocketsKept'
    BY <1>20 DEF Srv!Crash, Srv!Inv, Srv!LockInv, Srv!NodeInv, Srv!NameInv, Srv!TokenInv, Srv!LiveSocketsKept,
           Srv!NothingLeft
  <2>6. Srv!NothingLeft'
    BY <1>20 DEF Srv!Crash, Srv!Inv, Srv!LockInv, Srv!NodeInv, Srv!NameInv, Srv!TokenInv, Srv!LiveSocketsKept,
           Srv!NothingLeft
  <2> QED BY <2>1, <2>2, <2>3, <2>4, <2>5, <2>6 DEF Srv!Inv
<1> QED
  BY <1>1, <1>2, <1>3, <1>4, <1>5, <1>6, <1>7, <1>8, <1>9, <1>10, <1>11, <1>12, <1>13, <1>14, <1>15, <1>16,
         <1>17, <1>18, <1>19, <1>20 DEF Srv!Next

\* It implies what is promised of the server.
LEMMA ServeKept == Srv!Inv => Srv!LiveSocketsKept /\ Srv!NothingLeft /\ Srv!TokenAgrees
BY DEF Srv!Inv, Srv!TokenInv

\* No step refuses a socket nobody serves.
LEMMA ServeNever ==
  ASSUME TokensAreReal, Srv!Inv, [Srv!Next]_(Srv!vars)
  PROVE  Srv!ConflictIsReal
<1>1. CASE UNCHANGED Srv!vars
  BY <1>1 DEF Srv!vars, TokensAreReal, Srv!files, Srv!tokens, Srv!Goto, Srv!End, Srv!Held, Srv!Bound, Srv!Steps,
         Srv!Tokens, Srv!ConflictIsReal
<1>2. CASE Srv!Replace
  BY <1>2 DEF Srv!Replace, TokensAreReal, Srv!files, Srv!tokens, Srv!Goto, Srv!End, Srv!Held, Srv!Bound,
         Srv!Steps, Srv!InBetween, Srv!ConflictIsReal, Srv!Inv, Srv!LockInv, Srv!NodeInv, Srv!NameInv
<1>3. ASSUME NEW p \in Peer, Srv!Start(p) PROVE Srv!ConflictIsReal
  BY <1>3 DEF Srv!Start, TokensAreReal, Srv!files, Srv!tokens, Srv!Goto, Srv!End, Srv!Held, Srv!Bound,
         Srv!Steps, Srv!ConflictIsReal, Srv!Inv, Srv!LockInv, Srv!NodeInv, Srv!NameInv
<1>4. ASSUME NEW p \in Peer, Srv!Acquire(p) PROVE Srv!ConflictIsReal
  BY <1>4 DEF Srv!Acquire, TokensAreReal, Srv!files, Srv!tokens, Srv!Goto, Srv!End, Srv!Held, Srv!Bound,
         Srv!Steps, Srv!ConflictIsReal, Srv!Inv, Srv!LockInv, Srv!NodeInv, Srv!NameInv
<1>5. ASSUME NEW p \in Peer, Srv!Stat(p) PROVE Srv!ConflictIsReal
  BY <1>5 DEF Srv!Stat, TokensAreReal, Srv!files, Srv!tokens, Srv!Goto, Srv!End, Srv!Held, Srv!Bound, Srv!Steps,
         Srv!ConflictIsReal, Srv!Inv, Srv!LockInv, Srv!NodeInv, Srv!NameInv
<1>6. ASSUME NEW p \in Peer, Srv!Probe(p) PROVE Srv!ConflictIsReal
  BY <1>6 DEF Srv!Probe, TokensAreReal, Srv!files, Srv!tokens, Srv!Goto, Srv!End, Srv!Held, Srv!Bound,
         Srv!Steps, Srv!ConflictIsReal, Srv!Inv, Srv!LockInv, Srv!NodeInv, Srv!NameInv
<1>7. ASSUME NEW p \in Peer, Srv!Recheck(p) PROVE Srv!ConflictIsReal
  BY <1>7 DEF Srv!Recheck, TokensAreReal, Srv!files, Srv!tokens, Srv!Goto, Srv!End, Srv!Held, Srv!Bound,
         Srv!Steps, Srv!ConflictIsReal, Srv!Inv, Srv!LockInv, Srv!NodeInv, Srv!NameInv
<1>8. ASSUME NEW p \in Peer, Srv!Unlink(p) PROVE Srv!ConflictIsReal
  BY <1>8 DEF Srv!Unlink, TokensAreReal, Srv!files, Srv!tokens, Srv!Goto, Srv!End, Srv!Held, Srv!Bound,
         Srv!Steps, Srv!Unlinked, Srv!ConflictIsReal, Srv!Inv, Srv!LockInv, Srv!NodeInv, Srv!NameInv
<1>9. ASSUME NEW p \in Peer, Srv!Bind(p) PROVE Srv!ConflictIsReal
  BY <1>9 DEF Srv!Bind, TokensAreReal, Srv!files, Srv!tokens, Srv!Goto, Srv!End, Srv!Held, Srv!Bound, Srv!Steps,
         Srv!ConflictIsReal, Srv!Inv, Srv!LockInv, Srv!NodeInv, Srv!NameInv
<1>10. ASSUME NEW p \in Peer, Srv!Listen(p) PROVE Srv!ConflictIsReal
  BY <1>10 DEF Srv!Listen, TokensAreReal, Srv!files, Srv!tokens, Srv!Goto, Srv!End, Srv!Held, Srv!Bound,
         Srv!Steps, Srv!ConflictIsReal, Srv!Inv, Srv!LockInv, Srv!NodeInv, Srv!NameInv
<1>11. ASSUME NEW p \in Peer, Srv!Identify(p) PROVE Srv!ConflictIsReal
  BY <1>11 DEF Srv!Identify, TokensAreReal, Srv!files, Srv!tokens, Srv!Goto, Srv!End, Srv!Held, Srv!Bound,
         Srv!Steps, Srv!ConflictIsReal, Srv!Inv, Srv!LockInv, Srv!NodeInv, Srv!NameInv
<1>12. ASSUME NEW p \in Peer, Srv!Publish(p) PROVE Srv!ConflictIsReal
  BY <1>12 DEF Srv!Publish, TokensAreReal, Srv!files, Srv!tokens, Srv!Goto, Srv!End, Srv!Held, Srv!Bound,
         Srv!Steps, Srv!ConflictIsReal, Srv!Inv, Srv!LockInv, Srv!NodeInv, Srv!NameInv
<1>13. ASSUME NEW p \in Peer, Srv!Drain(p) PROVE Srv!ConflictIsReal
  BY <1>13 DEF Srv!Drain, TokensAreReal, Srv!files, Srv!tokens, Srv!Goto, Srv!End, Srv!Held, Srv!Bound,
         Srv!Steps, Srv!ConflictIsReal, Srv!Inv, Srv!LockInv, Srv!NodeInv, Srv!NameInv
<1>14. ASSUME NEW p \in Peer, Srv!CleanStat(p) PROVE Srv!ConflictIsReal
  BY <1>14 DEF Srv!CleanStat, TokensAreReal, Srv!files, Srv!tokens, Srv!Goto, Srv!End, Srv!Held, Srv!Bound,
         Srv!Steps, Srv!ConflictIsReal, Srv!Inv, Srv!LockInv, Srv!NodeInv, Srv!NameInv
<1>15. ASSUME NEW p \in Peer, Srv!CleanUnlink(p) PROVE Srv!ConflictIsReal
  BY <1>15 DEF Srv!CleanUnlink, TokensAreReal, Srv!files, Srv!tokens, Srv!Goto, Srv!End, Srv!Held, Srv!Bound,
         Srv!Steps, Srv!Unlinked, Srv!ConflictIsReal, Srv!Inv, Srv!LockInv, Srv!NodeInv, Srv!NameInv
<1>16. ASSUME NEW p \in Peer, Srv!LoadToken(p) PROVE Srv!ConflictIsReal
  BY <1>16 DEF Srv!LoadToken, TokensAreReal, Srv!files, Srv!tokens, Srv!Goto, Srv!End, Srv!Held, Srv!Bound,
         Srv!Steps, Srv!Tokens, Srv!ConflictIsReal, Srv!Inv, Srv!LockInv, Srv!NodeInv, Srv!NameInv
<1>17. ASSUME NEW p \in Peer, Srv!CreateToken(p) PROVE Srv!ConflictIsReal
  BY <1>17 DEF Srv!CreateToken, TokensAreReal, Srv!files, Srv!tokens, Srv!Goto, Srv!End, Srv!Held, Srv!Bound,
         Srv!Steps, Srv!ConflictIsReal, Srv!Inv, Srv!LockInv, Srv!NodeInv, Srv!NameInv
<1>18. ASSUME NEW p \in Peer, Srv!WriteToken(p) PROVE Srv!ConflictIsReal
  BY <1>18 DEF Srv!WriteToken, TokensAreReal, Srv!files, Srv!tokens, Srv!Goto, Srv!End, Srv!Held, Srv!Bound,
         Srv!Steps, Srv!Tokens, Srv!ConflictIsReal, Srv!Inv, Srv!LockInv, Srv!NodeInv, Srv!NameInv
<1>19. ASSUME NEW p \in Peer, Srv!StopGated(p) PROVE Srv!ConflictIsReal
  BY <1>19 DEF Srv!StopGated, TokensAreReal, Srv!files, Srv!tokens, Srv!Goto, Srv!End, Srv!Held, Srv!Bound,
         Srv!Steps, Srv!ConflictIsReal, Srv!Inv, Srv!LockInv, Srv!NodeInv, Srv!NameInv
<1>20. ASSUME NEW p \in Peer, Srv!Crash(p) PROVE Srv!ConflictIsReal
  BY <1>20 DEF Srv!Crash, TokensAreReal, Srv!files, Srv!tokens, Srv!Goto, Srv!End, Srv!Held, Srv!Bound,
         Srv!Steps, Srv!ConflictIsReal, Srv!Inv, Srv!LockInv, Srv!NodeInv, Srv!NameInv
<1> QED
  BY <1>1, <1>2, <1>3, <1>4, <1>5, <1>6, <1>7, <1>8, <1>9, <1>10, <1>11, <1>12, <1>13, <1>14, <1>15, <1>16,
         <1>17, <1>18, <1>19, <1>20 DEF Srv!Next

\* The shim's control socket and two clients, of its own uid or another.
Ctl == INSTANCE ShimControl WITH
    Client <- Peer, Op <- Either({"launch", "stop"}, {"ping", "status", "launch", "stop", "foreign"}),
    MaxEvents <- Either(0, 1),
    pc <- v1, cur <- v2, backlog <- v3, conn <- v4, op <- v5, sent <- v6, wire <- v7, got <- v8, res <- v9,
    events <- v10, attached <- v11, launched <- v12, vmm <- v13, state <- v14, done <- v15

\* No client is the mark for "nobody is served".
ClientsAreReal == Ctl!Nobody \notin Peer

\* A terminal record after events is the last one.
LEMMA CtlAppend ==
  ASSUME NEW s \in Seq(Ctl!Records), Ctl!OnlyEvents(s), NEW m \in Ctl!Records
  PROVE  /\ Append(s, m) \in Seq(Ctl!Records) /\ Ctl!TerminalLast(Append(s, m))
         /\ m = "event" => Ctl!OnlyEvents(Append(s, m))
         /\ Ctl!HasOk(Append(s, m)) => m = "ok"
BY DEF Ctl!OnlyEvents, Ctl!TerminalLast, Ctl!HasOk
\* Nothing follows a terminal record that is read.
LEMMA CtlTail ==
  ASSUME NEW s \in Seq(Ctl!Records), Ctl!TerminalLast(s), s # <<>>
  PROVE  /\ Tail(s) \in Seq(Ctl!Records) /\ Ctl!TerminalLast(Tail(s)) /\ Head(s) \in Ctl!Records
         /\ Head(s) # "event" => Tail(s) = <<>>
         /\ Ctl!OnlyEvents(s) => Head(s) = "event" /\ Ctl!OnlyEvents(Tail(s))
         /\ Head(s) = "ok" \/ Ctl!HasOk(Tail(s)) => Ctl!HasOk(s)
BY DEF Ctl!OnlyEvents, Ctl!TerminalLast, Ctl!HasOk
\* An empty connection has no terminal record.
LEMMA CtlEmpty == Ctl!OnlyEvents(<<>>) /\ Ctl!TerminalLast(<<>>) /\ ~Ctl!HasOk(<<>>)
BY DEF Ctl!OnlyEvents, Ctl!TerminalLast, Ctl!HasOk
\* Events alone are no answer.
LEMMA CtlEvents == ASSUME NEW s \in Seq(Ctl!Records), Ctl!OnlyEvents(s) PROVE Ctl!TerminalLast(s) /\ ~Ctl!HasOk(s)
BY DEF Ctl!OnlyEvents, Ctl!TerminalLast, Ctl!HasOk

\* The invariant of the control socket holds at first.
LEMMA ShimControlBegin == ClientsAreReal /\ Ctl!Init => Ctl!Inv
BY CtlEmpty DEF Ctl!Init, Ctl!Inv, Ctl!QueueInv, Ctl!StreamInv, Ctl!TruthInv, Ctl!Unspoken, Ctl!Told,
       ClientsAreReal

\* Every step of the control socket keeps it.
LEMMA ShimControlStepInv ==
  ASSUME ClientsAreReal, Ctl!Inv, [Ctl!Next]_(Ctl!vars)
  PROVE  Ctl!Inv'
<1>1. CASE UNCHANGED Ctl!vars
  BY <1>1 DEF Ctl!vars, Ctl!shim, Ctl!client, Ctl!Unspoken, Ctl!Untold, Ctl!Told, ClientsAreReal, Ctl!Inv,
         Ctl!QueueInv, Ctl!StreamInv, Ctl!TruthInv
<1>2. ASSUME NEW c \in Peer, Ctl!Connect(c) PROVE Ctl!Inv'
  <2>1. Ctl!QueueInv'
    <3>1. v3 \in Seq(Peer) /\ \A i \in DOMAIN v3 : v3[i] # c
      BY <1>2 DEF Ctl!Connect, Ctl!Inv, Ctl!QueueInv
    <3>2. /\ Append(v3, c) \in Seq(Peer) /\ Append(v3, c) # <<>>
          /\ \A i, j \in DOMAIN Append(v3, c) : Append(v3, c)[i] = Append(v3, c)[j] => i = j
          /\ \A i \in DOMAIN Append(v3, c) : Append(v3, c)[i] = c \/ \E j \in DOMAIN v3 : Append(v3, c)[i] = v3[j]
      BY <3>1 DEF Ctl!Inv, Ctl!QueueInv
    <3> QED BY <1>2, <3>2 DEF Ctl!Connect, Ctl!shim, Ctl!client, Ctl!Inv, Ctl!QueueInv, Ctl!Unspoken
  <2>2. Ctl!StreamInv'
    BY <1>2 DEF Ctl!Connect, Ctl!shim, Ctl!client, Ctl!Unspoken, Ctl!Untold, Ctl!Told, ClientsAreReal, Ctl!Inv,
           Ctl!QueueInv, Ctl!StreamInv, Ctl!TruthInv
  <2>3. Ctl!TruthInv'
    BY <1>2 DEF Ctl!Connect, Ctl!shim, Ctl!client, Ctl!Unspoken, Ctl!Untold, Ctl!Told, ClientsAreReal, Ctl!Inv,
           Ctl!QueueInv, Ctl!StreamInv, Ctl!TruthInv
  <2> QED BY <2>1, <2>2, <2>3 DEF Ctl!Inv
<1>3. ASSUME NEW c \in Peer, Ctl!Write(c) PROVE Ctl!Inv'
  <2>1. Ctl!QueueInv'
    BY <1>3 DEF Ctl!Write, Ctl!shim, Ctl!client, Ctl!Unspoken, Ctl!Untold, Ctl!Told, ClientsAreReal, Ctl!Inv,
           Ctl!QueueInv, Ctl!StreamInv, Ctl!TruthInv
  <2>2. Ctl!StreamInv'
    BY <1>3 DEF Ctl!Write, Ctl!shim, Ctl!client, Ctl!Unspoken, Ctl!Untold, Ctl!Told, ClientsAreReal, Ctl!Inv,
           Ctl!QueueInv, Ctl!StreamInv, Ctl!TruthInv
  <2>3. Ctl!TruthInv'
    BY <1>3 DEF Ctl!Write, Ctl!shim, Ctl!client, Ctl!Unspoken, Ctl!Untold, Ctl!Told, ClientsAreReal, Ctl!Inv,
           Ctl!QueueInv, Ctl!StreamInv, Ctl!TruthInv
  <2> QED BY <2>1, <2>2, <2>3 DEF Ctl!Inv
<1>4. ASSUME NEW c \in Peer, Ctl!Read(c) PROVE Ctl!Inv'
  <2>1. Ctl!QueueInv'
    BY <1>4 DEF Ctl!Read, Ctl!shim, Ctl!client, Ctl!Unspoken, Ctl!Untold, Ctl!Told, ClientsAreReal, Ctl!Verdict,
           Ctl!Inv, Ctl!QueueInv, Ctl!StreamInv, Ctl!TruthInv
  <2>2. Ctl!StreamInv'
    <3>1. /\ v7[c] \in Seq(Ctl!Records) /\ v8[c] \in Seq(Ctl!Records) /\ Ctl!TerminalLast(v7[c]) /\ Ctl!OnlyEvents(v8[c])
          /\ v7[c] # <<>>
      BY <1>4 DEF Ctl!Read, Ctl!Inv, Ctl!StreamInv
    <3>2. /\ Tail(v7[c]) \in Seq(Ctl!Records) /\ Ctl!TerminalLast(Tail(v7[c])) /\ Head(v7[c]) \in Ctl!Records
          /\ Head(v7[c]) # "event" => Tail(v7[c]) = <<>>
          /\ Ctl!OnlyEvents(v7[c]) => Head(v7[c]) = "event" /\ Ctl!OnlyEvents(Tail(v7[c]))
      BY <3>1, CtlTail
    <3>3. /\ Append(v8[c], Head(v7[c])) \in Seq(Ctl!Records) /\ Ctl!TerminalLast(Append(v8[c], Head(v7[c])))
          /\ Head(v7[c]) = "event" => Ctl!OnlyEvents(Append(v8[c], Head(v7[c])))
      BY <3>1, <3>2, CtlAppend
    <3>4. Ctl!Verdict(Head(v7[c])) \in {"none", "ok", "error"} /\ (Ctl!Verdict(Head(v7[c])) = "none" <=> Head(v7[c]) = "event")
      BY <3>2 DEF Ctl!Verdict, Ctl!Records
    <3> QED BY <1>4, <3>2, <3>3, <3>4 DEF Ctl!Read, Ctl!shim, Ctl!Inv, Ctl!StreamInv, Ctl!Untold
  <2>3. Ctl!TruthInv'
    <3>1. v7[c] \in Seq(Ctl!Records) /\ Ctl!TerminalLast(v7[c]) /\ v7[c] # <<>> /\ v7 \in [Peer -> Seq(Ctl!Records)]
          /\ v9 \in [Peer -> {"none", "ok", "error", "closed", "left"}]
      BY <1>4 DEF Ctl!Read, Ctl!Inv, Ctl!StreamInv
    <3>2. Head(v7[c]) = "ok" \/ Ctl!HasOk(Tail(v7[c])) => Ctl!HasOk(v7[c])
      BY <3>1, CtlTail
    <3>3. ASSUME NEW d \in Peer, Ctl!Told(d)' PROVE Ctl!Told(d)
      BY <1>4, <3>1, <3>2, <3>3 DEF Ctl!Read, Ctl!Told, Ctl!Verdict
    <3> QED BY <1>4, <3>3 DEF Ctl!Read, Ctl!shim, Ctl!Inv, Ctl!TruthInv
  <2> QED BY <2>1, <2>2, <2>3 DEF Ctl!Inv
<1>5. ASSUME NEW c \in Peer, Ctl!ReadClosed(c) PROVE Ctl!Inv'
  <2>1. Ctl!QueueInv'
    BY <1>5 DEF Ctl!ReadClosed, Ctl!shim, Ctl!client, Ctl!Unspoken, Ctl!Untold, Ctl!Told, ClientsAreReal,
           Ctl!Inv, Ctl!QueueInv, Ctl!StreamInv, Ctl!TruthInv
  <2>2. Ctl!StreamInv'
    BY <1>5 DEF Ctl!ReadClosed, Ctl!shim, Ctl!client, Ctl!Unspoken, Ctl!Untold, Ctl!Told, ClientsAreReal,
           Ctl!Inv, Ctl!QueueInv, Ctl!StreamInv, Ctl!TruthInv
  <2>3. Ctl!TruthInv'
    BY <1>5 DEF Ctl!ReadClosed, Ctl!shim, Ctl!client, Ctl!Unspoken, Ctl!Untold, Ctl!Told, ClientsAreReal,
           Ctl!Inv, Ctl!QueueInv, Ctl!StreamInv, Ctl!TruthInv
  <2> QED BY <2>1, <2>2, <2>3 DEF Ctl!Inv
<1>6. ASSUME NEW c \in Peer, Ctl!Leave(c) PROVE Ctl!Inv'
  <2>1. Ctl!QueueInv'
    BY <1>6 DEF Ctl!Leave, Ctl!shim, Ctl!client, Ctl!Unspoken, Ctl!Untold, Ctl!Told, ClientsAreReal, Ctl!Inv,
           Ctl!QueueInv, Ctl!StreamInv, Ctl!TruthInv
  <2>2. Ctl!StreamInv'
    BY <1>6 DEF Ctl!Leave, Ctl!shim, Ctl!client, Ctl!Unspoken, Ctl!Untold, Ctl!Told, ClientsAreReal, Ctl!Inv,
           Ctl!QueueInv, Ctl!StreamInv, Ctl!TruthInv
  <2>3. Ctl!TruthInv'
    BY <1>6 DEF Ctl!Leave, Ctl!shim, Ctl!client, Ctl!Unspoken, Ctl!Untold, Ctl!Told, ClientsAreReal, Ctl!Inv,
           Ctl!QueueInv, Ctl!StreamInv, Ctl!TruthInv
  <2> QED BY <2>1, <2>2, <2>3 DEF Ctl!Inv
<1>7. CASE Ctl!Checked
  <2>1. Ctl!QueueInv'
    BY <1>7 DEF Ctl!Checked, Ctl!shim, Ctl!client, Ctl!Unspoken, Ctl!Untold, Ctl!Told, ClientsAreReal,
           Ctl!Asked, Ctl!Gone, Ctl!Drop, Ctl!Inv, Ctl!QueueInv, Ctl!StreamInv, Ctl!TruthInv
  <2>2. Ctl!StreamInv'
    BY <1>7 DEF Ctl!Checked, Ctl!shim, Ctl!client, Ctl!Unspoken, Ctl!Untold, Ctl!Told, ClientsAreReal,
           Ctl!Asked, Ctl!Gone, Ctl!Drop, Ctl!Inv, Ctl!QueueInv, Ctl!StreamInv, Ctl!TruthInv
  <2>3. Ctl!TruthInv'
    BY <1>7 DEF Ctl!Checked, Ctl!shim, Ctl!client, Ctl!Unspoken, Ctl!Untold, Ctl!Told, ClientsAreReal,
           Ctl!Asked, Ctl!Gone, Ctl!Drop, Ctl!Inv, Ctl!QueueInv, Ctl!StreamInv, Ctl!TruthInv
  <2> QED BY <2>1, <2>2, <2>3 DEF Ctl!Inv
<1>8. CASE Ctl!Accept
  <2>1. Ctl!QueueInv'
    <3>1. /\ Tail(v3) \in Seq(Peer) /\ Head(v3) \in Peer
          /\ \A i \in DOMAIN Tail(v3) : i + 1 \in DOMAIN v3 /\ Tail(v3)[i] = v3[i + 1]
          /\ 1 \in DOMAIN v3 /\ Head(v3) = v3[1]
          /\ \A i \in DOMAIN Tail(v3) : i \in Nat /\ i # 0
      BY <1>8 DEF Ctl!Accept, Ctl!Inv, Ctl!QueueInv
    <3>2. \A i \in DOMAIN Tail(v3) : Tail(v3)[i] # Head(v3)
      BY <3>1 DEF Ctl!Inv, Ctl!QueueInv
    <3>3. \A i, j \in DOMAIN Tail(v3) : Tail(v3)[i] = Tail(v3)[j] => i = j
      BY <3>1 DEF Ctl!Inv, Ctl!QueueInv
    <3>4. \A i \in DOMAIN Tail(v3) : \E j \in DOMAIN v3 : Tail(v3)[i] = v3[j]
      BY <3>1
    <3>5. v7 \in [Peer -> Seq(Ctl!Records)]
      BY DEF Ctl!Inv, Ctl!StreamInv
    <3>6. CASE v5[Head(v3)] = "foreign"
      BY <1>8, <3>1, <3>2, <3>3, <3>4, <3>5, <3>6
      DEF Ctl!Accept, Ctl!Answer, Ctl!Drop, Ctl!client, Ctl!Inv, Ctl!QueueInv, Ctl!Unspoken, ClientsAreReal
    <3>7. CASE v5[Head(v3)] # "foreign"
      BY <1>8, <3>1, <3>2, <3>3, <3>4, <3>7
      DEF Ctl!Accept, Ctl!client, Ctl!Inv, Ctl!QueueInv, Ctl!Unspoken, ClientsAreReal
    <3> QED BY <3>6, <3>7
  <2>2. Ctl!StreamInv'
    <3>1. Head(v3) \in Peer /\ Ctl!Unspoken(Head(v3)) /\ v7 \in [Peer -> Seq(Ctl!Records)]
      BY <1>8 DEF Ctl!Accept, Ctl!Inv, Ctl!QueueInv, Ctl!StreamInv
    <3>2. LET w == v7[Head(v3)] IN Append(w, "error") \in Seq(Ctl!Records) /\ Ctl!TerminalLast(Append(w, "error"))
      BY <3>1, CtlAppend, CtlEmpty DEF Ctl!Records, Ctl!Unspoken
    <3>3. v8' = v8 /\ v9' = v9 /\ Ctl!StreamInv /\ v2 = Ctl!Nobody
      BY <1>8 DEF Ctl!Accept, Ctl!client, Ctl!Inv, Ctl!QueueInv
    <3>4. CASE v5[Head(v3)] = "foreign"
      <4>1. v2' = Ctl!Nobody /\ v7' = [v7 EXCEPT ![Head(v3)] = IF v4[Head(v3)] = "up" THEN Append(v7[Head(v3)], "error") ELSE v7[Head(v3)]]
        BY <1>8, <3>3, <3>4 DEF Ctl!Accept, Ctl!Answer
      <4> QED BY <3>1, <3>2, <3>3, <4>1 DEF Ctl!StreamInv, Ctl!Unspoken, Ctl!OnlyEvents
    <3>5. CASE v5[Head(v3)] # "foreign"
      BY <1>8, <3>1, <3>3, <3>5, CtlEmpty DEF Ctl!Accept, Ctl!StreamInv, Ctl!Unspoken, Ctl!Untold
    <3> QED BY <3>4, <3>5
  <2>3. Ctl!TruthInv'
    <3>1. Head(v3) \in Peer /\ Ctl!Unspoken(Head(v3)) /\ v7 \in [Peer -> Seq(Ctl!Records)] /\ v1 = "accept"
      BY <1>8 DEF Ctl!Accept, Ctl!Inv, Ctl!QueueInv, Ctl!StreamInv
    <3>2. ~Ctl!HasOk(Append(v7[Head(v3)], "error"))
      BY <3>1, CtlAppend, CtlEmpty DEF Ctl!Records, Ctl!Unspoken
    <3>3. ASSUME NEW c \in Peer, Ctl!Told(c)' PROVE Ctl!Told(c)
      BY <1>8, <3>1, <3>2, <3>3 DEF Ctl!Accept, Ctl!Answer, Ctl!client, Ctl!Told, Ctl!Unspoken
    <3> QED BY <1>8, <3>1, <3>3 DEF Ctl!Accept, Ctl!client, Ctl!Inv, Ctl!TruthInv
  <2> QED BY <2>1, <2>2, <2>3 DEF Ctl!Inv
<1>9. CASE Ctl!BadRequest
  <2>1. Ctl!QueueInv'
    BY <1>9 DEF Ctl!BadRequest, Ctl!shim, Ctl!client, Ctl!Unspoken, Ctl!Untold, Ctl!Told, ClientsAreReal,
           Ctl!Close, Ctl!Answer, Ctl!Drop, Ctl!Refused, Ctl!Asked, Ctl!Inv, Ctl!QueueInv, Ctl!StreamInv,
           Ctl!TruthInv
  <2>2. Ctl!StreamInv'
    <3>1. v2 \in Peer /\ v2 # Ctl!Nobody /\ Ctl!Untold(v2) /\ v7 \in [Peer -> Seq(Ctl!Records)]
      BY <1>9 DEF Ctl!BadRequest, Ctl!Refused, Ctl!Asked, Ctl!Close, Ctl!Inv, Ctl!QueueInv, Ctl!StreamInv,
             ClientsAreReal
    <3>2. /\ Append(v7[v2], "error") \in Seq(Ctl!Records) /\ Ctl!TerminalLast(Append(v7[v2], "error"))
          /\ "error" = "event" => Ctl!OnlyEvents(Append(v7[v2], "error"))
          /\ Ctl!HasOk(Append(v7[v2], "error")) => "error" = "ok"
      BY <3>1, CtlAppend DEF Ctl!Records, Ctl!Untold
    <3>3. /\ v7' \in [Peer -> Seq(Ctl!Records)]
          /\ \A c \in Peer : v7'[c] = v7[c] \/ (c = v2 /\ v7'[c] = Append(v7[v2], "error"))
      BY <1>9, <3>1, <3>2 DEF Ctl!BadRequest, Ctl!Terminal, Ctl!Answer, Ctl!Refused, Ctl!Asked, Ctl!Close
    <3>4. v8' = v8 /\ v9' = v9 /\ v2' \in {Ctl!Nobody, v2}
      BY <1>9 DEF Ctl!BadRequest, Ctl!client, Ctl!Gone, Ctl!Refused, Ctl!Asked, Ctl!Close
    <3>5. v2' = Ctl!Nobody
      BY <1>9 DEF Ctl!BadRequest, Ctl!Gone, Ctl!Refused, Ctl!Asked, Ctl!Close
    <3> QED BY <3>1, <3>2, <3>3, <3>4, <3>5 DEF Ctl!Inv, Ctl!StreamInv, Ctl!Untold
  <2>3. Ctl!TruthInv'
    <3>1. v2 \in Peer /\ v2 # Ctl!Nobody /\ Ctl!Untold(v2) /\ v7 \in [Peer -> Seq(Ctl!Records)]
      BY <1>9 DEF Ctl!BadRequest, Ctl!Refused, Ctl!Asked, Ctl!Close, Ctl!Inv, Ctl!QueueInv, Ctl!StreamInv,
             ClientsAreReal
    <3>2. /\ Append(v7[v2], "error") \in Seq(Ctl!Records) /\ Ctl!TerminalLast(Append(v7[v2], "error"))
          /\ "error" = "event" => Ctl!OnlyEvents(Append(v7[v2], "error"))
          /\ Ctl!HasOk(Append(v7[v2], "error")) => "error" = "ok"
      BY <3>1, CtlAppend DEF Ctl!Records, Ctl!Untold
    <3>3. /\ v7' \in [Peer -> Seq(Ctl!Records)]
          /\ \A c \in Peer : v7'[c] = v7[c] \/ (c = v2 /\ v7'[c] = Append(v7[v2], "error"))
      BY <1>9, <3>1, <3>2 DEF Ctl!BadRequest, Ctl!Terminal, Ctl!Answer, Ctl!Refused, Ctl!Asked, Ctl!Close
    <3>4. v8' = v8 /\ v9' = v9 /\ v2' \in {Ctl!Nobody, v2}
      BY <1>9 DEF Ctl!BadRequest, Ctl!client, Ctl!Gone, Ctl!Refused, Ctl!Asked, Ctl!Close
    <3>5. ASSUME NEW c \in Peer, Ctl!Told(c)' PROVE Ctl!Told(c)
      BY <3>1, <3>2, <3>3, <3>4, <3>5 DEF Ctl!Told
    <3>6. v5' = v5
      BY <1>9 DEF Ctl!BadRequest, Ctl!client, Ctl!Refused, Ctl!Asked, Ctl!Close
    <3> QED BY <1>9, <3>1, <3>4, <3>5, <3>6 DEF Ctl!BadRequest, Ctl!Gone, Ctl!Refused, Ctl!Asked, Ctl!Close,
                   Ctl!Inv, Ctl!QueueInv, Ctl!TruthInv, ClientsAreReal
  <2> QED BY <2>1, <2>2, <2>3 DEF Ctl!Inv
<1>10. CASE Ctl!Stalled
  <2>1. Ctl!QueueInv'
    BY <1>10 DEF Ctl!Stalled, Ctl!shim, Ctl!client, Ctl!Unspoken, Ctl!Untold, Ctl!Told, ClientsAreReal,
           Ctl!Close, Ctl!Answer, Ctl!Drop, Ctl!Refused, Ctl!Asked, Ctl!Inv, Ctl!QueueInv, Ctl!StreamInv,
           Ctl!TruthInv
  <2>2. Ctl!StreamInv'
    <3>1. v2 \in Peer /\ v2 # Ctl!Nobody /\ Ctl!Untold(v2) /\ v7 \in [Peer -> Seq(Ctl!Records)]
      BY <1>10 DEF Ctl!Stalled, Ctl!Refused, Ctl!Asked, Ctl!Close, Ctl!Inv, Ctl!QueueInv, Ctl!StreamInv,
             ClientsAreReal
    <3>2. /\ Append(v7[v2], "error") \in Seq(Ctl!Records) /\ Ctl!TerminalLast(Append(v7[v2], "error"))
          /\ "error" = "event" => Ctl!OnlyEvents(Append(v7[v2], "error"))
          /\ Ctl!HasOk(Append(v7[v2], "error")) => "error" = "ok"
      BY <3>1, CtlAppend DEF Ctl!Records, Ctl!Untold
    <3>3. /\ v7' \in [Peer -> Seq(Ctl!Records)]
          /\ \A c \in Peer : v7'[c] = v7[c] \/ (c = v2 /\ v7'[c] = Append(v7[v2], "error"))
      BY <1>10, <3>1, <3>2 DEF Ctl!Stalled, Ctl!Terminal, Ctl!Answer, Ctl!Refused, Ctl!Asked, Ctl!Close
    <3>4. v8' = v8 /\ v9' = v9 /\ v2' \in {Ctl!Nobody, v2}
      BY <1>10 DEF Ctl!Stalled, Ctl!client, Ctl!Gone, Ctl!Refused, Ctl!Asked, Ctl!Close
    <3>5. v2' = Ctl!Nobody
      BY <1>10 DEF Ctl!Stalled, Ctl!Gone, Ctl!Refused, Ctl!Asked, Ctl!Close
    <3> QED BY <3>1, <3>2, <3>3, <3>4, <3>5 DEF Ctl!Inv, Ctl!StreamInv, Ctl!Untold
  <2>3. Ctl!TruthInv'
    <3>1. v2 \in Peer /\ v2 # Ctl!Nobody /\ Ctl!Untold(v2) /\ v7 \in [Peer -> Seq(Ctl!Records)]
      BY <1>10 DEF Ctl!Stalled, Ctl!Refused, Ctl!Asked, Ctl!Close, Ctl!Inv, Ctl!QueueInv, Ctl!StreamInv,
             ClientsAreReal
    <3>2. /\ Append(v7[v2], "error") \in Seq(Ctl!Records) /\ Ctl!TerminalLast(Append(v7[v2], "error"))
          /\ "error" = "event" => Ctl!OnlyEvents(Append(v7[v2], "error"))
          /\ Ctl!HasOk(Append(v7[v2], "error")) => "error" = "ok"
      BY <3>1, CtlAppend DEF Ctl!Records, Ctl!Untold
    <3>3. /\ v7' \in [Peer -> Seq(Ctl!Records)]
          /\ \A c \in Peer : v7'[c] = v7[c] \/ (c = v2 /\ v7'[c] = Append(v7[v2], "error"))
      BY <1>10, <3>1, <3>2 DEF Ctl!Stalled, Ctl!Terminal, Ctl!Answer, Ctl!Refused, Ctl!Asked, Ctl!Close
    <3>4. v8' = v8 /\ v9' = v9 /\ v2' \in {Ctl!Nobody, v2}
      BY <1>10 DEF Ctl!Stalled, Ctl!client, Ctl!Gone, Ctl!Refused, Ctl!Asked, Ctl!Close
    <3>5. ASSUME NEW c \in Peer, Ctl!Told(c)' PROVE Ctl!Told(c)
      BY <3>1, <3>2, <3>3, <3>4, <3>5 DEF Ctl!Told
    <3>6. v5' = v5
      BY <1>10 DEF Ctl!Stalled, Ctl!client, Ctl!Refused, Ctl!Asked, Ctl!Close
    <3> QED BY <1>10, <3>1, <3>4, <3>5, <3>6 DEF Ctl!Stalled, Ctl!Gone, Ctl!Refused, Ctl!Asked, Ctl!Close,
                   Ctl!Inv, Ctl!QueueInv, Ctl!TruthInv, ClientsAreReal
  <2> QED BY <2>1, <2>2, <2>3 DEF Ctl!Inv
<1>11. CASE Ctl!Ping
  <2>1. Ctl!QueueInv'
    BY <1>11 DEF Ctl!Ping, Ctl!shim, Ctl!client, Ctl!Unspoken, Ctl!Untold, Ctl!Told, ClientsAreReal, Ctl!Close,
           Ctl!Answer, Ctl!Drop, Ctl!Refused, Ctl!Asked, Ctl!Inv, Ctl!QueueInv, Ctl!StreamInv, Ctl!TruthInv
  <2>2. Ctl!StreamInv'
    <3>1. v2 \in Peer /\ v2 # Ctl!Nobody /\ Ctl!Untold(v2) /\ v7 \in [Peer -> Seq(Ctl!Records)]
      BY <1>11 DEF Ctl!Ping, Ctl!Refused, Ctl!Asked, Ctl!Close, Ctl!Inv, Ctl!QueueInv, Ctl!StreamInv,
             ClientsAreReal
    <3>2. /\ Append(v7[v2], "ok") \in Seq(Ctl!Records) /\ Ctl!TerminalLast(Append(v7[v2], "ok"))
          /\ "ok" = "event" => Ctl!OnlyEvents(Append(v7[v2], "ok"))
          /\ Ctl!HasOk(Append(v7[v2], "ok")) => "ok" = "ok"
      BY <3>1, CtlAppend DEF Ctl!Records, Ctl!Untold
    <3>3. /\ v7' \in [Peer -> Seq(Ctl!Records)]
          /\ \A c \in Peer : v7'[c] = v7[c] \/ (c = v2 /\ v7'[c] = Append(v7[v2], "ok"))
      BY <1>11, <3>1, <3>2 DEF Ctl!Ping, Ctl!Terminal, Ctl!Answer, Ctl!Refused, Ctl!Asked, Ctl!Close
    <3>4. v8' = v8 /\ v9' = v9 /\ v2' \in {Ctl!Nobody, v2}
      BY <1>11 DEF Ctl!Ping, Ctl!client, Ctl!Gone, Ctl!Refused, Ctl!Asked, Ctl!Close
    <3>5. v2' = Ctl!Nobody
      BY <1>11 DEF Ctl!Ping, Ctl!Gone, Ctl!Refused, Ctl!Asked, Ctl!Close
    <3> QED BY <3>1, <3>2, <3>3, <3>4, <3>5 DEF Ctl!Inv, Ctl!StreamInv, Ctl!Untold
  <2>3. Ctl!TruthInv'
    <3>1. v2 \in Peer /\ v2 # Ctl!Nobody /\ Ctl!Untold(v2) /\ v7 \in [Peer -> Seq(Ctl!Records)]
      BY <1>11 DEF Ctl!Ping, Ctl!Refused, Ctl!Asked, Ctl!Close, Ctl!Inv, Ctl!QueueInv, Ctl!StreamInv,
             ClientsAreReal
    <3>2. /\ Append(v7[v2], "ok") \in Seq(Ctl!Records) /\ Ctl!TerminalLast(Append(v7[v2], "ok"))
          /\ "ok" = "event" => Ctl!OnlyEvents(Append(v7[v2], "ok"))
          /\ Ctl!HasOk(Append(v7[v2], "ok")) => "ok" = "ok"
      BY <3>1, CtlAppend DEF Ctl!Records, Ctl!Untold
    <3>3. /\ v7' \in [Peer -> Seq(Ctl!Records)]
          /\ \A c \in Peer : v7'[c] = v7[c] \/ (c = v2 /\ v7'[c] = Append(v7[v2], "ok"))
      BY <1>11, <3>1, <3>2 DEF Ctl!Ping, Ctl!Terminal, Ctl!Answer, Ctl!Refused, Ctl!Asked, Ctl!Close
    <3>4. v8' = v8 /\ v9' = v9 /\ v2' \in {Ctl!Nobody, v2}
      BY <1>11 DEF Ctl!Ping, Ctl!client, Ctl!Gone, Ctl!Refused, Ctl!Asked, Ctl!Close
    <3>5. ASSUME NEW c \in Peer, Ctl!Told(c)' PROVE c = v2 \/ Ctl!Told(c)
      BY <3>1, <3>2, <3>3, <3>4, <3>5 DEF Ctl!Told
    <3>6. v5' = v5
      BY <1>11 DEF Ctl!Ping, Ctl!client, Ctl!Refused, Ctl!Asked, Ctl!Close
    <3> QED BY <1>11, <3>1, <3>4, <3>5, <3>6 DEF Ctl!Ping, Ctl!Gone, Ctl!Refused, Ctl!Asked, Ctl!Close,
                   Ctl!Inv, Ctl!QueueInv, Ctl!TruthInv, ClientsAreReal
  <2> QED BY <2>1, <2>2, <2>3 DEF Ctl!Inv
<1>12. CASE Ctl!Status
  <2>1. Ctl!QueueInv'
    BY <1>12 DEF Ctl!Status, Ctl!shim, Ctl!client, Ctl!Unspoken, Ctl!Untold, Ctl!Told, ClientsAreReal,
           Ctl!Close, Ctl!Answer, Ctl!Drop, Ctl!Refused, Ctl!Asked, Ctl!Inv, Ctl!QueueInv, Ctl!StreamInv,
           Ctl!TruthInv
  <2>2. Ctl!StreamInv'
    <3>1. v2 \in Peer /\ v2 # Ctl!Nobody /\ Ctl!Untold(v2) /\ v7 \in [Peer -> Seq(Ctl!Records)]
      BY <1>12 DEF Ctl!Status, Ctl!Refused, Ctl!Asked, Ctl!Close, Ctl!Inv, Ctl!QueueInv, Ctl!StreamInv,
             ClientsAreReal
    <3>2. /\ Append(v7[v2], "ok") \in Seq(Ctl!Records) /\ Ctl!TerminalLast(Append(v7[v2], "ok"))
          /\ "ok" = "event" => Ctl!OnlyEvents(Append(v7[v2], "ok"))
          /\ Ctl!HasOk(Append(v7[v2], "ok")) => "ok" = "ok"
      BY <3>1, CtlAppend DEF Ctl!Records, Ctl!Untold
    <3>3. /\ v7' \in [Peer -> Seq(Ctl!Records)]
          /\ \A c \in Peer : v7'[c] = v7[c] \/ (c = v2 /\ v7'[c] = Append(v7[v2], "ok"))
      BY <1>12, <3>1, <3>2 DEF Ctl!Status, Ctl!Terminal, Ctl!Answer, Ctl!Refused, Ctl!Asked, Ctl!Close
    <3>4. v8' = v8 /\ v9' = v9 /\ v2' \in {Ctl!Nobody, v2}
      BY <1>12 DEF Ctl!Status, Ctl!client, Ctl!Gone, Ctl!Refused, Ctl!Asked, Ctl!Close
    <3>5. v2' = Ctl!Nobody
      BY <1>12 DEF Ctl!Status, Ctl!Gone, Ctl!Refused, Ctl!Asked, Ctl!Close
    <3> QED BY <3>1, <3>2, <3>3, <3>4, <3>5 DEF Ctl!Inv, Ctl!StreamInv, Ctl!Untold
  <2>3. Ctl!TruthInv'
    <3>1. v2 \in Peer /\ v2 # Ctl!Nobody /\ Ctl!Untold(v2) /\ v7 \in [Peer -> Seq(Ctl!Records)]
      BY <1>12 DEF Ctl!Status, Ctl!Refused, Ctl!Asked, Ctl!Close, Ctl!Inv, Ctl!QueueInv, Ctl!StreamInv,
             ClientsAreReal
    <3>2. /\ Append(v7[v2], "ok") \in Seq(Ctl!Records) /\ Ctl!TerminalLast(Append(v7[v2], "ok"))
          /\ "ok" = "event" => Ctl!OnlyEvents(Append(v7[v2], "ok"))
          /\ Ctl!HasOk(Append(v7[v2], "ok")) => "ok" = "ok"
      BY <3>1, CtlAppend DEF Ctl!Records, Ctl!Untold
    <3>3. /\ v7' \in [Peer -> Seq(Ctl!Records)]
          /\ \A c \in Peer : v7'[c] = v7[c] \/ (c = v2 /\ v7'[c] = Append(v7[v2], "ok"))
      BY <1>12, <3>1, <3>2 DEF Ctl!Status, Ctl!Terminal, Ctl!Answer, Ctl!Refused, Ctl!Asked, Ctl!Close
    <3>4. v8' = v8 /\ v9' = v9 /\ v2' \in {Ctl!Nobody, v2}
      BY <1>12 DEF Ctl!Status, Ctl!client, Ctl!Gone, Ctl!Refused, Ctl!Asked, Ctl!Close
    <3>5. ASSUME NEW c \in Peer, Ctl!Told(c)' PROVE c = v2 \/ Ctl!Told(c)
      BY <3>1, <3>2, <3>3, <3>4, <3>5 DEF Ctl!Told
    <3>6. v5' = v5
      BY <1>12 DEF Ctl!Status, Ctl!client, Ctl!Refused, Ctl!Asked, Ctl!Close
    <3> QED BY <1>12, <3>1, <3>4, <3>5, <3>6 DEF Ctl!Status, Ctl!Gone, Ctl!Refused, Ctl!Asked, Ctl!Close,
                   Ctl!Inv, Ctl!QueueInv, Ctl!TruthInv, ClientsAreReal
  <2> QED BY <2>1, <2>2, <2>3 DEF Ctl!Inv
<1>13. CASE Ctl!DuplicateLaunch
  <2>1. Ctl!QueueInv'
    BY <1>13 DEF Ctl!DuplicateLaunch, Ctl!shim, Ctl!client, Ctl!Unspoken, Ctl!Untold, Ctl!Told, ClientsAreReal,
           Ctl!Close, Ctl!Answer, Ctl!Drop, Ctl!Refused, Ctl!Asked, Ctl!Inv, Ctl!QueueInv, Ctl!StreamInv,
           Ctl!TruthInv
  <2>2. Ctl!StreamInv'
    <3>1. v2 \in Peer /\ v2 # Ctl!Nobody /\ Ctl!Untold(v2) /\ v7 \in [Peer -> Seq(Ctl!Records)]
      BY <1>13 DEF Ctl!DuplicateLaunch, Ctl!Refused, Ctl!Asked, Ctl!Close, Ctl!Inv, Ctl!QueueInv,
             Ctl!StreamInv, ClientsAreReal
    <3>2. /\ Append(v7[v2], "error") \in Seq(Ctl!Records) /\ Ctl!TerminalLast(Append(v7[v2], "error"))
          /\ "error" = "event" => Ctl!OnlyEvents(Append(v7[v2], "error"))
          /\ Ctl!HasOk(Append(v7[v2], "error")) => "error" = "ok"
      BY <3>1, CtlAppend DEF Ctl!Records, Ctl!Untold
    <3>3. /\ v7' \in [Peer -> Seq(Ctl!Records)]
          /\ \A c \in Peer : v7'[c] = v7[c] \/ (c = v2 /\ v7'[c] = Append(v7[v2], "error"))
      BY <1>13, <3>1, <3>2 DEF Ctl!DuplicateLaunch, Ctl!Terminal, Ctl!Answer, Ctl!Refused, Ctl!Asked, Ctl!Close
    <3>4. v8' = v8 /\ v9' = v9 /\ v2' \in {Ctl!Nobody, v2}
      BY <1>13 DEF Ctl!DuplicateLaunch, Ctl!client, Ctl!Gone, Ctl!Refused, Ctl!Asked, Ctl!Close
    <3>5. v2' = Ctl!Nobody
      BY <1>13 DEF Ctl!DuplicateLaunch, Ctl!Gone, Ctl!Refused, Ctl!Asked, Ctl!Close
    <3> QED BY <3>1, <3>2, <3>3, <3>4, <3>5 DEF Ctl!Inv, Ctl!StreamInv, Ctl!Untold
  <2>3. Ctl!TruthInv'
    <3>1. v2 \in Peer /\ v2 # Ctl!Nobody /\ Ctl!Untold(v2) /\ v7 \in [Peer -> Seq(Ctl!Records)]
      BY <1>13 DEF Ctl!DuplicateLaunch, Ctl!Refused, Ctl!Asked, Ctl!Close, Ctl!Inv, Ctl!QueueInv,
             Ctl!StreamInv, ClientsAreReal
    <3>2. /\ Append(v7[v2], "error") \in Seq(Ctl!Records) /\ Ctl!TerminalLast(Append(v7[v2], "error"))
          /\ "error" = "event" => Ctl!OnlyEvents(Append(v7[v2], "error"))
          /\ Ctl!HasOk(Append(v7[v2], "error")) => "error" = "ok"
      BY <3>1, CtlAppend DEF Ctl!Records, Ctl!Untold
    <3>3. /\ v7' \in [Peer -> Seq(Ctl!Records)]
          /\ \A c \in Peer : v7'[c] = v7[c] \/ (c = v2 /\ v7'[c] = Append(v7[v2], "error"))
      BY <1>13, <3>1, <3>2 DEF Ctl!DuplicateLaunch, Ctl!Terminal, Ctl!Answer, Ctl!Refused, Ctl!Asked, Ctl!Close
    <3>4. v8' = v8 /\ v9' = v9 /\ v2' \in {Ctl!Nobody, v2}
      BY <1>13 DEF Ctl!DuplicateLaunch, Ctl!client, Ctl!Gone, Ctl!Refused, Ctl!Asked, Ctl!Close
    <3>5. ASSUME NEW c \in Peer, Ctl!Told(c)' PROVE Ctl!Told(c)
      BY <3>1, <3>2, <3>3, <3>4, <3>5 DEF Ctl!Told
    <3>6. v5' = v5
      BY <1>13 DEF Ctl!DuplicateLaunch, Ctl!client, Ctl!Refused, Ctl!Asked, Ctl!Close
    <3> QED BY <1>13, <3>1, <3>4, <3>5, <3>6 DEF Ctl!DuplicateLaunch, Ctl!Gone, Ctl!Refused, Ctl!Asked,
                   Ctl!Close, Ctl!Inv, Ctl!QueueInv, Ctl!TruthInv, ClientsAreReal
  <2> QED BY <2>1, <2>2, <2>3 DEF Ctl!Inv
<1>14. CASE Ctl!BeginLaunch
  <2>1. Ctl!QueueInv'
    BY <1>14 DEF Ctl!BeginLaunch, Ctl!shim, Ctl!client, Ctl!Unspoken, Ctl!Untold, Ctl!Told, ClientsAreReal,
           Ctl!Asked, Ctl!Gone, Ctl!Drop, Ctl!Inv, Ctl!QueueInv, Ctl!StreamInv, Ctl!TruthInv
  <2>2. Ctl!StreamInv'
    BY <1>14 DEF Ctl!BeginLaunch, Ctl!shim, Ctl!client, Ctl!Unspoken, Ctl!Untold, Ctl!Told, ClientsAreReal,
           Ctl!Asked, Ctl!Gone, Ctl!Drop, Ctl!Inv, Ctl!QueueInv, Ctl!StreamInv, Ctl!TruthInv
  <2>3. Ctl!TruthInv'
    BY <1>14 DEF Ctl!BeginLaunch, Ctl!shim, Ctl!client, Ctl!Unspoken, Ctl!Untold, Ctl!Told, ClientsAreReal,
           Ctl!Asked, Ctl!Gone, Ctl!Drop, Ctl!Inv, Ctl!QueueInv, Ctl!StreamInv, Ctl!TruthInv
  <2> QED BY <2>1, <2>2, <2>3 DEF Ctl!Inv
<1>15. CASE Ctl!BeginStop
  <2>1. Ctl!QueueInv'
    BY <1>15 DEF Ctl!BeginStop, Ctl!shim, Ctl!client, Ctl!Unspoken, Ctl!Untold, Ctl!Told, ClientsAreReal,
           Ctl!Asked, Ctl!Gone, Ctl!Drop, Ctl!Inv, Ctl!QueueInv, Ctl!StreamInv, Ctl!TruthInv
  <2>2. Ctl!StreamInv'
    BY <1>15 DEF Ctl!BeginStop, Ctl!shim, Ctl!client, Ctl!Unspoken, Ctl!Untold, Ctl!Told, ClientsAreReal,
           Ctl!Asked, Ctl!Gone, Ctl!Drop, Ctl!Inv, Ctl!QueueInv, Ctl!StreamInv, Ctl!TruthInv
  <2>3. Ctl!TruthInv'
    BY <1>15 DEF Ctl!BeginStop, Ctl!shim, Ctl!client, Ctl!Unspoken, Ctl!Untold, Ctl!Told, ClientsAreReal,
           Ctl!Asked, Ctl!Gone, Ctl!Drop, Ctl!Inv, Ctl!QueueInv, Ctl!StreamInv, Ctl!TruthInv
  <2> QED BY <2>1, <2>2, <2>3 DEF Ctl!Inv
<1>16. CASE Ctl!Emit
  <2>1. Ctl!QueueInv'
    BY <1>16 DEF Ctl!Emit, Ctl!shim, Ctl!client, Ctl!Unspoken, Ctl!Untold, Ctl!Told, ClientsAreReal, Ctl!Answer,
           Ctl!Inv, Ctl!QueueInv, Ctl!StreamInv, Ctl!TruthInv
  <2>2. Ctl!StreamInv'
    <3>1. v2 \in Peer /\ v2 # Ctl!Nobody /\ Ctl!Untold(v2) /\ v7 \in [Peer -> Seq(Ctl!Records)]
      BY <1>16 DEF Ctl!Emit, Ctl!Inv, Ctl!QueueInv, Ctl!StreamInv, ClientsAreReal
    <3>2. /\ Append(v7[v2], "event") \in Seq(Ctl!Records) /\ Ctl!TerminalLast(Append(v7[v2], "event"))
          /\ "event" = "event" => Ctl!OnlyEvents(Append(v7[v2], "event"))
          /\ Ctl!HasOk(Append(v7[v2], "event")) => "event" = "ok"
      BY <3>1, CtlAppend DEF Ctl!Records, Ctl!Untold
    <3>3. /\ v7' \in [Peer -> Seq(Ctl!Records)]
          /\ \A c \in Peer : v7'[c] = v7[c] \/ (c = v2 /\ v7'[c] = Append(v7[v2], "event"))
      BY <1>16, <3>1, <3>2 DEF Ctl!Emit, Ctl!Terminal, Ctl!Answer
    <3>4. v8' = v8 /\ v9' = v9 /\ v2' \in {Ctl!Nobody, v2}
      BY <1>16 DEF Ctl!Emit, Ctl!client, Ctl!Gone
    <3> QED BY <3>1, <3>2, <3>3, <3>4 DEF Ctl!Inv, Ctl!StreamInv, Ctl!Untold
  <2>3. Ctl!TruthInv'
    <3>1. v2 \in Peer /\ v2 # Ctl!Nobody /\ Ctl!Untold(v2) /\ v7 \in [Peer -> Seq(Ctl!Records)]
      BY <1>16 DEF Ctl!Emit, Ctl!Inv, Ctl!QueueInv, Ctl!StreamInv, ClientsAreReal
    <3>2. /\ Append(v7[v2], "event") \in Seq(Ctl!Records) /\ Ctl!TerminalLast(Append(v7[v2], "event"))
          /\ "event" = "event" => Ctl!OnlyEvents(Append(v7[v2], "event"))
          /\ Ctl!HasOk(Append(v7[v2], "event")) => "event" = "ok"
      BY <3>1, CtlAppend DEF Ctl!Records, Ctl!Untold
    <3>3. /\ v7' \in [Peer -> Seq(Ctl!Records)]
          /\ \A c \in Peer : v7'[c] = v7[c] \/ (c = v2 /\ v7'[c] = Append(v7[v2], "event"))
      BY <1>16, <3>1, <3>2 DEF Ctl!Emit, Ctl!Terminal, Ctl!Answer
    <3>4. v8' = v8 /\ v9' = v9 /\ v2' \in {Ctl!Nobody, v2}
      BY <1>16 DEF Ctl!Emit, Ctl!client, Ctl!Gone
    <3>5. ASSUME NEW c \in Peer, Ctl!Told(c)' PROVE Ctl!Told(c)
      BY <3>1, <3>2, <3>3, <3>4, <3>5 DEF Ctl!Told
    <3>6. v5' = v5
      BY <1>16 DEF Ctl!Emit, Ctl!client
    <3> QED BY <1>16, <3>1, <3>4, <3>5, <3>6 DEF Ctl!Emit, Ctl!Gone, Ctl!Inv, Ctl!QueueInv, Ctl!TruthInv,
                   ClientsAreReal
  <2> QED BY <2>1, <2>2, <2>3 DEF Ctl!Inv
<1>17. CASE Ctl!LaunchOk
  <2>1. Ctl!QueueInv'
    BY <1>17 DEF Ctl!LaunchOk, Ctl!shim, Ctl!client, Ctl!Unspoken, Ctl!Untold, Ctl!Told, ClientsAreReal,
           Ctl!Terminal, Ctl!Answer, Ctl!Drop, Ctl!Gone, Ctl!Inv, Ctl!QueueInv, Ctl!StreamInv, Ctl!TruthInv
  <2>2. Ctl!StreamInv'
    <3>1. v2 \in Peer /\ v2 # Ctl!Nobody /\ Ctl!Untold(v2) /\ v7 \in [Peer -> Seq(Ctl!Records)]
      BY <1>17 DEF Ctl!LaunchOk, Ctl!Inv, Ctl!QueueInv, Ctl!StreamInv, ClientsAreReal
    <3>2. /\ Append(v7[v2], "ok") \in Seq(Ctl!Records) /\ Ctl!TerminalLast(Append(v7[v2], "ok"))
          /\ "ok" = "event" => Ctl!OnlyEvents(Append(v7[v2], "ok"))
          /\ Ctl!HasOk(Append(v7[v2], "ok")) => "ok" = "ok"
      BY <3>1, CtlAppend DEF Ctl!Records, Ctl!Untold
    <3>3. /\ v7' \in [Peer -> Seq(Ctl!Records)]
          /\ \A c \in Peer : v7'[c] = v7[c] \/ (c = v2 /\ v7'[c] = Append(v7[v2], "ok"))
      BY <1>17, <3>1, <3>2 DEF Ctl!LaunchOk, Ctl!Terminal, Ctl!Answer
    <3>4. v8' = v8 /\ v9' = v9 /\ v2' \in {Ctl!Nobody, v2}
      BY <1>17 DEF Ctl!LaunchOk, Ctl!client, Ctl!Gone
    <3>5. v2' = Ctl!Nobody
      BY <1>17 DEF Ctl!LaunchOk, Ctl!Gone
    <3> QED BY <3>1, <3>2, <3>3, <3>4, <3>5 DEF Ctl!Inv, Ctl!StreamInv, Ctl!Untold
  <2>3. Ctl!TruthInv'
    <3>1. v2 \in Peer /\ v2 # Ctl!Nobody /\ Ctl!Untold(v2) /\ v7 \in [Peer -> Seq(Ctl!Records)]
      BY <1>17 DEF Ctl!LaunchOk, Ctl!Inv, Ctl!QueueInv, Ctl!StreamInv, ClientsAreReal
    <3>2. /\ Append(v7[v2], "ok") \in Seq(Ctl!Records) /\ Ctl!TerminalLast(Append(v7[v2], "ok"))
          /\ "ok" = "event" => Ctl!OnlyEvents(Append(v7[v2], "ok"))
          /\ Ctl!HasOk(Append(v7[v2], "ok")) => "ok" = "ok"
      BY <3>1, CtlAppend DEF Ctl!Records, Ctl!Untold
    <3>3. /\ v7' \in [Peer -> Seq(Ctl!Records)]
          /\ \A c \in Peer : v7'[c] = v7[c] \/ (c = v2 /\ v7'[c] = Append(v7[v2], "ok"))
      BY <1>17, <3>1, <3>2 DEF Ctl!LaunchOk, Ctl!Terminal, Ctl!Answer
    <3>4. v8' = v8 /\ v9' = v9 /\ v2' \in {Ctl!Nobody, v2}
      BY <1>17 DEF Ctl!LaunchOk, Ctl!client, Ctl!Gone
    <3>5. ASSUME NEW c \in Peer, Ctl!Told(c)' PROVE c = v2 \/ Ctl!Told(c)
      BY <3>1, <3>2, <3>3, <3>4, <3>5 DEF Ctl!Told
    <3>6. v5' = v5
      BY <1>17 DEF Ctl!LaunchOk, Ctl!client
    <3> QED BY <1>17, <3>1, <3>4, <3>5, <3>6 DEF Ctl!LaunchOk, Ctl!Gone, Ctl!Inv, Ctl!QueueInv, Ctl!TruthInv,
                   ClientsAreReal
  <2> QED BY <2>1, <2>2, <2>3 DEF Ctl!Inv
<1>18. CASE Ctl!LaunchFails
  <2>1. Ctl!QueueInv'
    BY <1>18 DEF Ctl!LaunchFails, Ctl!shim, Ctl!client, Ctl!Unspoken, Ctl!Untold, Ctl!Told, ClientsAreReal,
           Ctl!Terminal, Ctl!Answer, Ctl!Drop, Ctl!Gone, Ctl!Inv, Ctl!QueueInv, Ctl!StreamInv, Ctl!TruthInv
  <2>2. Ctl!StreamInv'
    <3>1. v2 \in Peer /\ v2 # Ctl!Nobody /\ Ctl!Untold(v2) /\ v7 \in [Peer -> Seq(Ctl!Records)]
      BY <1>18 DEF Ctl!LaunchFails, Ctl!Inv, Ctl!QueueInv, Ctl!StreamInv, ClientsAreReal
    <3>2. /\ Append(v7[v2], "error") \in Seq(Ctl!Records) /\ Ctl!TerminalLast(Append(v7[v2], "error"))
          /\ "error" = "event" => Ctl!OnlyEvents(Append(v7[v2], "error"))
          /\ Ctl!HasOk(Append(v7[v2], "error")) => "error" = "ok"
      BY <3>1, CtlAppend DEF Ctl!Records, Ctl!Untold
    <3>3. /\ v7' \in [Peer -> Seq(Ctl!Records)]
          /\ \A c \in Peer : v7'[c] = v7[c] \/ (c = v2 /\ v7'[c] = Append(v7[v2], "error"))
      BY <1>18, <3>1, <3>2 DEF Ctl!LaunchFails, Ctl!Terminal, Ctl!Answer
    <3>4. v8' = v8 /\ v9' = v9 /\ v2' \in {Ctl!Nobody, v2}
      BY <1>18 DEF Ctl!LaunchFails, Ctl!client, Ctl!Gone
    <3>5. v2' = Ctl!Nobody
      BY <1>18 DEF Ctl!LaunchFails, Ctl!Gone
    <3> QED BY <3>1, <3>2, <3>3, <3>4, <3>5 DEF Ctl!Inv, Ctl!StreamInv, Ctl!Untold
  <2>3. Ctl!TruthInv'
    <3>1. v2 \in Peer /\ v2 # Ctl!Nobody /\ Ctl!Untold(v2) /\ v7 \in [Peer -> Seq(Ctl!Records)]
      BY <1>18 DEF Ctl!LaunchFails, Ctl!Inv, Ctl!QueueInv, Ctl!StreamInv, ClientsAreReal
    <3>2. /\ Append(v7[v2], "error") \in Seq(Ctl!Records) /\ Ctl!TerminalLast(Append(v7[v2], "error"))
          /\ "error" = "event" => Ctl!OnlyEvents(Append(v7[v2], "error"))
          /\ Ctl!HasOk(Append(v7[v2], "error")) => "error" = "ok"
      BY <3>1, CtlAppend DEF Ctl!Records, Ctl!Untold
    <3>3. /\ v7' \in [Peer -> Seq(Ctl!Records)]
          /\ \A c \in Peer : v7'[c] = v7[c] \/ (c = v2 /\ v7'[c] = Append(v7[v2], "error"))
      BY <1>18, <3>1, <3>2 DEF Ctl!LaunchFails, Ctl!Terminal, Ctl!Answer
    <3>4. v8' = v8 /\ v9' = v9 /\ v2' \in {Ctl!Nobody, v2}
      BY <1>18 DEF Ctl!LaunchFails, Ctl!client, Ctl!Gone
    <3>5. ASSUME NEW c \in Peer, Ctl!Told(c)' PROVE Ctl!Told(c)
      BY <3>1, <3>2, <3>3, <3>4, <3>5 DEF Ctl!Told
    <3>6. v5' = v5
      BY <1>18 DEF Ctl!LaunchFails, Ctl!client
    <3> QED BY <1>18, <3>1, <3>4, <3>5, <3>6 DEF Ctl!LaunchFails, Ctl!Gone, Ctl!Inv, Ctl!QueueInv,
                   Ctl!TruthInv, ClientsAreReal
  <2> QED BY <2>1, <2>2, <2>3 DEF Ctl!Inv
<1>19. CASE Ctl!StopOk
  <2>1. Ctl!QueueInv'
    BY <1>19 DEF Ctl!StopOk, Ctl!shim, Ctl!client, Ctl!Unspoken, Ctl!Untold, Ctl!Told, ClientsAreReal,
           Ctl!Terminal, Ctl!Answer, Ctl!Drop, Ctl!Gone, Ctl!Inv, Ctl!QueueInv, Ctl!StreamInv, Ctl!TruthInv
  <2>2. Ctl!StreamInv'
    <3>1. v2 \in Peer /\ v2 # Ctl!Nobody /\ Ctl!Untold(v2) /\ v7 \in [Peer -> Seq(Ctl!Records)]
      BY <1>19 DEF Ctl!StopOk, Ctl!Inv, Ctl!QueueInv, Ctl!StreamInv, ClientsAreReal
    <3>2. /\ Append(v7[v2], "ok") \in Seq(Ctl!Records) /\ Ctl!TerminalLast(Append(v7[v2], "ok"))
          /\ "ok" = "event" => Ctl!OnlyEvents(Append(v7[v2], "ok"))
          /\ Ctl!HasOk(Append(v7[v2], "ok")) => "ok" = "ok"
      BY <3>1, CtlAppend DEF Ctl!Records, Ctl!Untold
    <3>3. /\ v7' \in [Peer -> Seq(Ctl!Records)]
          /\ \A c \in Peer : v7'[c] = v7[c] \/ (c = v2 /\ v7'[c] = Append(v7[v2], "ok"))
      BY <1>19, <3>1, <3>2 DEF Ctl!StopOk, Ctl!Terminal, Ctl!Answer
    <3>4. v8' = v8 /\ v9' = v9 /\ v2' \in {Ctl!Nobody, v2}
      BY <1>19 DEF Ctl!StopOk, Ctl!client, Ctl!Gone
    <3>5. v2' = Ctl!Nobody
      BY <1>19 DEF Ctl!StopOk, Ctl!Gone
    <3> QED BY <3>1, <3>2, <3>3, <3>4, <3>5 DEF Ctl!Inv, Ctl!StreamInv, Ctl!Untold
  <2>3. Ctl!TruthInv'
    <3>1. v2 \in Peer /\ v2 # Ctl!Nobody /\ Ctl!Untold(v2) /\ v7 \in [Peer -> Seq(Ctl!Records)]
      BY <1>19 DEF Ctl!StopOk, Ctl!Inv, Ctl!QueueInv, Ctl!StreamInv, ClientsAreReal
    <3>2. /\ Append(v7[v2], "ok") \in Seq(Ctl!Records) /\ Ctl!TerminalLast(Append(v7[v2], "ok"))
          /\ "ok" = "event" => Ctl!OnlyEvents(Append(v7[v2], "ok"))
          /\ Ctl!HasOk(Append(v7[v2], "ok")) => "ok" = "ok"
      BY <3>1, CtlAppend DEF Ctl!Records, Ctl!Untold
    <3>3. /\ v7' \in [Peer -> Seq(Ctl!Records)]
          /\ \A c \in Peer : v7'[c] = v7[c] \/ (c = v2 /\ v7'[c] = Append(v7[v2], "ok"))
      BY <1>19, <3>1, <3>2 DEF Ctl!StopOk, Ctl!Terminal, Ctl!Answer
    <3>4. v8' = v8 /\ v9' = v9 /\ v2' \in {Ctl!Nobody, v2}
      BY <1>19 DEF Ctl!StopOk, Ctl!client, Ctl!Gone
    <3>5. ASSUME NEW c \in Peer, Ctl!Told(c)' PROVE c = v2 \/ Ctl!Told(c)
      BY <3>1, <3>2, <3>3, <3>4, <3>5 DEF Ctl!Told
    <3>6. v5' = v5
      BY <1>19 DEF Ctl!StopOk, Ctl!client
    <3> QED BY <1>19, <3>1, <3>4, <3>5, <3>6 DEF Ctl!StopOk, Ctl!Gone, Ctl!Inv, Ctl!QueueInv, Ctl!TruthInv,
                   ClientsAreReal
  <2> QED BY <2>1, <2>2, <2>3 DEF Ctl!Inv
<1>20. CASE Ctl!StopCut
  <2>1. Ctl!QueueInv'
    BY <1>20 DEF Ctl!StopCut, Ctl!shim, Ctl!client, Ctl!Unspoken, Ctl!Untold, Ctl!Told, ClientsAreReal,
           Ctl!Terminal, Ctl!Answer, Ctl!Drop, Ctl!Gone, Ctl!Inv, Ctl!QueueInv, Ctl!StreamInv, Ctl!TruthInv
  <2>2. Ctl!StreamInv'
    BY <1>20 DEF Ctl!StopCut, Ctl!shim, Ctl!client, Ctl!Unspoken, Ctl!Untold, Ctl!Told, ClientsAreReal,
           Ctl!Terminal, Ctl!Answer, Ctl!Drop, Ctl!Gone, Ctl!Inv, Ctl!QueueInv, Ctl!StreamInv, Ctl!TruthInv
  <2>3. Ctl!TruthInv'
    BY <1>20 DEF Ctl!StopCut, Ctl!shim, Ctl!client, Ctl!Unspoken, Ctl!Untold, Ctl!Told, ClientsAreReal,
           Ctl!Terminal, Ctl!Answer, Ctl!Drop, Ctl!Gone, Ctl!Inv, Ctl!QueueInv, Ctl!StreamInv, Ctl!TruthInv
  <2> QED BY <2>1, <2>2, <2>3 DEF Ctl!Inv
<1>21. CASE Ctl!StopFails
  <2>1. Ctl!QueueInv'
    BY <1>21 DEF Ctl!StopFails, Ctl!shim, Ctl!client, Ctl!Unspoken, Ctl!Untold, Ctl!Told, ClientsAreReal,
           Ctl!Terminal, Ctl!Answer, Ctl!Drop, Ctl!Gone, Ctl!Inv, Ctl!QueueInv, Ctl!StreamInv, Ctl!TruthInv
  <2>2. Ctl!StreamInv'
    <3>1. v2 \in Peer /\ v2 # Ctl!Nobody /\ Ctl!Untold(v2) /\ v7 \in [Peer -> Seq(Ctl!Records)]
      BY <1>21 DEF Ctl!StopFails, Ctl!Inv, Ctl!QueueInv, Ctl!StreamInv, ClientsAreReal
    <3>2. /\ Append(v7[v2], "error") \in Seq(Ctl!Records) /\ Ctl!TerminalLast(Append(v7[v2], "error"))
          /\ "error" = "event" => Ctl!OnlyEvents(Append(v7[v2], "error"))
          /\ Ctl!HasOk(Append(v7[v2], "error")) => "error" = "ok"
      BY <3>1, CtlAppend DEF Ctl!Records, Ctl!Untold
    <3>3. /\ v7' \in [Peer -> Seq(Ctl!Records)]
          /\ \A c \in Peer : v7'[c] = v7[c] \/ (c = v2 /\ v7'[c] = Append(v7[v2], "error"))
      BY <1>21, <3>1, <3>2 DEF Ctl!StopFails, Ctl!Terminal, Ctl!Answer
    <3>4. v8' = v8 /\ v9' = v9 /\ v2' \in {Ctl!Nobody, v2}
      BY <1>21 DEF Ctl!StopFails, Ctl!client, Ctl!Gone
    <3>5. v2' = Ctl!Nobody
      BY <1>21 DEF Ctl!StopFails, Ctl!Gone
    <3> QED BY <3>1, <3>2, <3>3, <3>4, <3>5 DEF Ctl!Inv, Ctl!StreamInv, Ctl!Untold
  <2>3. Ctl!TruthInv'
    <3>1. v2 \in Peer /\ v2 # Ctl!Nobody /\ Ctl!Untold(v2) /\ v7 \in [Peer -> Seq(Ctl!Records)]
      BY <1>21 DEF Ctl!StopFails, Ctl!Inv, Ctl!QueueInv, Ctl!StreamInv, ClientsAreReal
    <3>2. /\ Append(v7[v2], "error") \in Seq(Ctl!Records) /\ Ctl!TerminalLast(Append(v7[v2], "error"))
          /\ "error" = "event" => Ctl!OnlyEvents(Append(v7[v2], "error"))
          /\ Ctl!HasOk(Append(v7[v2], "error")) => "error" = "ok"
      BY <3>1, CtlAppend DEF Ctl!Records, Ctl!Untold
    <3>3. /\ v7' \in [Peer -> Seq(Ctl!Records)]
          /\ \A c \in Peer : v7'[c] = v7[c] \/ (c = v2 /\ v7'[c] = Append(v7[v2], "error"))
      BY <1>21, <3>1, <3>2 DEF Ctl!StopFails, Ctl!Terminal, Ctl!Answer
    <3>4. v8' = v8 /\ v9' = v9 /\ v2' \in {Ctl!Nobody, v2}
      BY <1>21 DEF Ctl!StopFails, Ctl!client, Ctl!Gone
    <3>5. ASSUME NEW c \in Peer, Ctl!Told(c)' PROVE Ctl!Told(c)
      BY <3>1, <3>2, <3>3, <3>4, <3>5 DEF Ctl!Told
    <3>6. v5' = v5
      BY <1>21 DEF Ctl!StopFails, Ctl!client
    <3> QED BY <1>21, <3>1, <3>4, <3>5, <3>6 DEF Ctl!StopFails, Ctl!Gone, Ctl!Inv, Ctl!QueueInv, Ctl!TruthInv,
                   ClientsAreReal
  <2> QED BY <2>1, <2>2, <2>3 DEF Ctl!Inv
<1>22. CASE Ctl!NoticeExit
  <2>1. Ctl!QueueInv'
    BY <1>22 DEF Ctl!NoticeExit, Ctl!shim, Ctl!client, Ctl!Unspoken, Ctl!Untold, Ctl!Told, ClientsAreReal,
           Ctl!Asked, Ctl!Gone, Ctl!Drop, Ctl!Inv, Ctl!QueueInv, Ctl!StreamInv, Ctl!TruthInv
  <2>2. Ctl!StreamInv'
    BY <1>22 DEF Ctl!NoticeExit, Ctl!shim, Ctl!client, Ctl!Unspoken, Ctl!Untold, Ctl!Told, ClientsAreReal,
           Ctl!Asked, Ctl!Gone, Ctl!Drop, Ctl!Inv, Ctl!QueueInv, Ctl!StreamInv, Ctl!TruthInv
  <2>3. Ctl!TruthInv'
    BY <1>22 DEF Ctl!NoticeExit, Ctl!shim, Ctl!client, Ctl!Unspoken, Ctl!Untold, Ctl!Told, ClientsAreReal,
           Ctl!Asked, Ctl!Gone, Ctl!Drop, Ctl!Inv, Ctl!QueueInv, Ctl!StreamInv, Ctl!TruthInv
  <2> QED BY <2>1, <2>2, <2>3 DEF Ctl!Inv
<1>23. CASE Ctl!NoLaunch
  <2>1. Ctl!QueueInv'
    BY <1>23 DEF Ctl!NoLaunch, Ctl!shim, Ctl!client, Ctl!Unspoken, Ctl!Untold, Ctl!Told, ClientsAreReal,
           Ctl!Asked, Ctl!Gone, Ctl!Drop, Ctl!Inv, Ctl!QueueInv, Ctl!StreamInv, Ctl!TruthInv
  <2>2. Ctl!StreamInv'
    BY <1>23 DEF Ctl!NoLaunch, Ctl!shim, Ctl!client, Ctl!Unspoken, Ctl!Untold, Ctl!Told, ClientsAreReal,
           Ctl!Asked, Ctl!Gone, Ctl!Drop, Ctl!Inv, Ctl!QueueInv, Ctl!StreamInv, Ctl!TruthInv
  <2>3. Ctl!TruthInv'
    BY <1>23 DEF Ctl!NoLaunch, Ctl!shim, Ctl!client, Ctl!Unspoken, Ctl!Untold, Ctl!Told, ClientsAreReal,
           Ctl!Asked, Ctl!Gone, Ctl!Drop, Ctl!Inv, Ctl!QueueInv, Ctl!StreamInv, Ctl!TruthInv
  <2> QED BY <2>1, <2>2, <2>3 DEF Ctl!Inv
<1>24. CASE Ctl!VmmExits
  <2>1. Ctl!QueueInv'
    BY <1>24 DEF Ctl!VmmExits, Ctl!shim, Ctl!client, Ctl!Unspoken, Ctl!Untold, Ctl!Told, ClientsAreReal,
           Ctl!Asked, Ctl!Gone, Ctl!Drop, Ctl!Inv, Ctl!QueueInv, Ctl!StreamInv, Ctl!TruthInv
  <2>2. Ctl!StreamInv'
    BY <1>24 DEF Ctl!VmmExits, Ctl!shim, Ctl!client, Ctl!Unspoken, Ctl!Untold, Ctl!Told, ClientsAreReal,
           Ctl!Asked, Ctl!Gone, Ctl!Drop, Ctl!Inv, Ctl!QueueInv, Ctl!StreamInv, Ctl!TruthInv
  <2>3. Ctl!TruthInv'
    BY <1>24 DEF Ctl!VmmExits, Ctl!shim, Ctl!client, Ctl!Unspoken, Ctl!Untold, Ctl!Told, ClientsAreReal,
           Ctl!Asked, Ctl!Gone, Ctl!Drop, Ctl!Inv, Ctl!QueueInv, Ctl!StreamInv, Ctl!TruthInv
  <2> QED BY <2>1, <2>2, <2>3 DEF Ctl!Inv
<1> QED
  BY <1>1, <1>2, <1>3, <1>4, <1>5, <1>6, <1>7, <1>8, <1>9, <1>10, <1>11, <1>12, <1>13, <1>14, <1>15, <1>16,
         <1>17, <1>18, <1>19, <1>20, <1>21, <1>22, <1>23, <1>24 DEF Ctl!Next, Ctl!Serve

\* It implies what is promised of the control socket.
LEMMA ShimControlKept == Ctl!Inv => Ctl!AnswersAreTrue /\ Ctl!StoppedIsStopped /\ Ctl!Framing
<1> SUFFICES ASSUME Ctl!Inv PROVE Ctl!AnswersAreTrue /\ Ctl!StoppedIsStopped /\ Ctl!Framing
  OBVIOUS
<1>1. Ctl!AnswersAreTrue /\ Ctl!StoppedIsStopped
  BY DEF Ctl!Inv, Ctl!TruthInv, Ctl!Told, Ctl!AnswersAreTrue, Ctl!StoppedIsStopped
<1>2. ASSUME NEW s \in Seq(Ctl!Records), NEW t \in Seq(Ctl!Records), Ctl!TerminalLast(s), Ctl!TerminalLast(t),
             t # <<>> => Ctl!OnlyEvents(s), NEW i \in DOMAIN (s \o t), (s \o t)[i] # "event"
      PROVE  i = Len(s \o t)
  <2>1. CASE t = <<>>
    BY <1>2, <2>1 DEF Ctl!TerminalLast
  <2>2. CASE t # <<>>
    BY <1>2, <2>2 DEF Ctl!TerminalLast, Ctl!OnlyEvents
  <2> QED BY <2>1, <2>2
<1>3. ASSUME NEW c \in Peer PROVE
        /\ v8[c] \in Seq(Ctl!Records) /\ v7[c] \in Seq(Ctl!Records) /\ Ctl!TerminalLast(v8[c]) /\ Ctl!TerminalLast(v7[c])
        /\ v7[c] # <<>> => Ctl!OnlyEvents(v8[c])
  BY DEF Ctl!Inv, Ctl!StreamInv
<1>4. Ctl!Framing
  BY <1>2, <1>3 DEF Ctl!Framing
<1> QED BY <1>1, <1>4

CommandModes == Either({"output", "interactive", "exec"}, {"output", "managed", "terminal"})

\* One external command and what it starts.
Run == INSTANCE CmdRunner WITH
    Desc <- {"d1"}, Escapes <- ~Live, MaxRetries <- 1, MaxOut <- MaxOut, MaxIn <- 1, Limit <- 1,
    Modes <- CommandModes,
    how <- v1, pc <- v2, tries <- v3, expired <- v4, timedOut <- v5, hit <- v6, child <- v7, code <- v8, desc <- v9,
    group <- v10, toWrite <- v11, inPipe <- v12, writer <- v13, made <- v14, unread <- v15, cap <- v16,
    reader <- v17, stranger <- v18, result <- v19

\* One byte on stdout and none on stderr are one byte.
LEMMA JoinEmpty ==
  ASSUME NEW o \in Seq(Nat), NEW e \in Seq(Nat), Len(o) = 1, o[1] = 1, Len(e) = 0
  PROVE  o \o e \in Seq(Nat) /\ Len(o \o e) = 1 /\ (o \o e)[1] = 1
<1>1. e = <<>>
  BY EmptySeq
<1>2. o \o <<>> = o
  BY ConcatEmptySeq
<1> QED BY <1>1, <1>2
\* A capture of one byte is what the limit leaves of the output.
LEMMA FitsOne ==
  ASSUME NEW s, NEW c, NEW m \in Nat, m >= 1, c.bytes \in Seq(Nat), Len(c.bytes) = 1,
         c.bytes[1] = (IF s = "stdout" THEN 1 ELSE m), 1 < m => c.truncated
  PROVE  Run!Fits(s, c, m)
<1>1. \A i \in 1..1 : i = 1 /\ m - 1 + i = m
  OBVIOUS
<1> QED BY <1>1 DEF Run!Fits
\* Retaining what was read next keeps the capture what the limit leaves of the output.
LEMMA Retained ==
  ASSUME NEW s \in Run!Stream, NEW m \in Nat, NEW k \in Nat, k > 0, Run!Fits(s, v16[s], m),
         NEW new \in Seq(Nat), Len(new) = k, \A i \in 1..k : new[i] = m + i
  PROVE  Run!Fits(s, Run!Retain(s, new), m + k)
<1> DEFINE old == v16[s].bytes
<1>1. old \in Seq(Nat) /\ Len(old) = (IF m < 1 THEN m ELSE 1) /\ (\A i \in 1..Len(old) : old[i] = IF s = "stdout" THEN i ELSE m - Len(old) + i)
      /\ (Len(old) < m => v16[s].truncated)
  BY DEF Run!Fits
<1>2. CASE s = "stderr"
  <2> DEFINE b == SubSeq(new, Len(new) - 1 + 1, Len(new))
  <2>1. Run!Retain(s, new) = [bytes |-> b, truncated |-> TRUE]
    BY <1>2 DEF Run!Retain
  <2>2. b = SubSeq(new, k, k)
    OBVIOUS
  <2>3. b \in Seq(Nat) /\ Len(b) = 1 /\ b[1] = m + k
    BY <2>2
  <2> HIDE DEF b
  <2>4. Run!Retain(s, new).bytes = b /\ Run!Retain(s, new).truncated
    BY <2>1
  <2>5. m + k \in Nat /\ ~(m + k < 1)
    OBVIOUS
  <2> HIDE DEF Run!Retain
  <2> QED BY <1>2, <2>3, <2>4, <2>5, FitsOne
<1>3. CASE s # "stderr"
  <2> DEFINE room == IF 1 > Len(old) THEN 1 - Len(old) ELSE 0
             kept == IF room < Len(new) THEN room ELSE Len(new)
             b == old \o SubSeq(new, 1, kept)
  <2>1. Run!Retain(s, new) = [bytes |-> b, truncated |-> v16[s].truncated \/ kept < Len(new)]
    BY <1>3 DEF Run!Retain
  <2>2. kept = (IF m = 0 THEN 1 ELSE 0) /\ kept \in Nat /\ kept <= k
    BY <1>1
  <2> HIDE DEF kept
  <2>3. SubSeq(new, 1, kept) \in Seq(Nat) /\ Len(SubSeq(new, 1, kept)) = kept
        /\ \A i \in 1..kept : SubSeq(new, 1, kept)[i] = m + i
    BY <2>2
  <2>4. b \in Seq(Nat) /\ Len(b) = 1 /\ b[1] = 1
    <3>1. CASE m = 0
      BY <1>1, <2>2, <2>3, <3>1
    <3>2. CASE m # 0
      <4>1. Len(old) = 1 /\ old[1] = 1 /\ kept = 0
        <5> HIDE DEF old
        <5>1. Len(old) = 1 /\ kept = 0 /\ s = "stdout" /\ 1 \in 1..1
          BY <1>1, <1>3, <2>2, <3>2 DEF Run!Stream
        <5> QED BY <1>1, <5>1
      <4> QED BY <1>1, <2>3, <4>1, JoinEmpty
    <3> QED BY <3>1, <3>2
  <2> HIDE DEF b
  <2>5. Run!Retain(s, new).bytes = b /\ (v16[s].truncated \/ kept < Len(new) => Run!Retain(s, new).truncated)
    <3>1. ASSUME NEW x, NEW y, NEW z, x = [bytes |-> y, truncated |-> v16[s].truncated \/ z]
          PROVE  x.bytes = y /\ (v16[s].truncated \/ z => x.truncated)
      BY <3>1
    <3> HIDE DEF Run!Retain
    <3> QED BY <2>1, <3>1, Zenon
  <2>6. m + k \in Nat /\ ~(m + k < 1) /\ (1 < m + k => v16[s].truncated \/ kept < Len(new))
    BY <1>1, <2>2
  <2> HIDE DEF Run!Retain
  <2> QED BY <1>3, <2>4, <2>5, <2>6, FitsOne DEF Run!Stream
<1> QED BY <1>2, <1>3

\* The invariant of the command runner holds at first.
LEMMA CmdRunnerBegin == Run!Init => Run!Inv
<1> SUFFICES ASSUME Run!Init PROVE Run!Inv
  OBVIOUS
<1>1. v1.input \in 0..1
  BY DEF Run!Init
<1>2. Run!StageInv
  BY <1>1 DEF Run!Init, Run!StageInv, Run!OwnersSpareStrangers
<1>3. Run!JoinInv
  BY DEF Run!Init, Run!JoinInv
<1>4. Run!CaptureInv
  <2>1. ASSUME NEW s PROVE Run!Fits(s, [bytes |-> <<>>, truncated |-> FALSE], 0)
    BY DEF Run!Fits
  <2>2. ASSUME NEW s \in Run!Stream PROVE v15[s] <= v14[s] /\ Run!Fits(s, v16[s], v14[s] - v15[s])
    <3>1. v14[s] = 0 /\ v15[s] = 0 /\ v16[s] = [bytes |-> <<>>, truncated |-> FALSE] /\ 0 - 0 = 0
      BY <2>2 DEF Run!Init
    <3> QED BY <2>1, <3>1
  <2>3. v14 \in [Run!Stream -> Nat] /\ v15 \in [Run!Stream -> Nat] /\ DOMAIN v16 = Run!Stream
    BY DEF Run!Init
  <2> QED BY <2>2, <2>3 DEF Run!Init, Run!CaptureInv, Run!Stream
<1>5. Run!StatusInv
  BY DEF Run!Init, Run!StatusInv
<1> QED BY <1>2, <1>3, <1>4, <1>5 DEF Run!Inv

\* Every step of the command runner keeps it.
LEMMA CmdRunnerStepInv ==
  ASSUME Run!Inv, [Run!Next]_(Run!vars)
  PROVE  Run!Inv'
<1> USE DEF Run!tree, Run!stdin, Run!streams, Run!Alive, Run!InGroup
<1>1. CASE UNCHANGED Run!vars
  BY <1>1 DEF Run!vars, Run!Stream, Run!Inv, Run!StageInv, Run!OwnersSpareStrangers, Run!JoinInv,
         Run!CaptureInv, Run!StatusInv
<1>2. CASE Run!WriteByte
  <2>1. Run!StageInv'
    BY <1>2 DEF Run!WriteByte, Run!Stream, Run!Held, Run!Inv, Run!StageInv, Run!JoinInv, Run!CaptureInv,
           Run!StatusInv, Run!OwnersSpareStrangers
  <2>2. Run!JoinInv'
    BY <1>2 DEF Run!WriteByte, Run!Stream, Run!Held, Run!Inv, Run!StageInv, Run!JoinInv, Run!CaptureInv,
           Run!StatusInv
  <2>3. Run!CaptureInv'
    BY <1>2 DEF Run!WriteByte, Run!Stream, Run!Held, Run!Inv, Run!StageInv, Run!JoinInv, Run!CaptureInv,
           Run!StatusInv
  <2>4. Run!StatusInv'
    BY <1>2 DEF Run!WriteByte, Run!Stream, Run!Held, Run!Inv, Run!StageInv, Run!JoinInv, Run!CaptureInv,
           Run!StatusInv
  <2> QED BY <2>1, <2>2, <2>3, <2>4 DEF Run!Inv
<1>3. ASSUME NEW s \in Run!Stream, Run!ReadSome(s) PROVE Run!Inv'
  <2>1. Run!StageInv'
    BY <1>3 DEF Run!ReadSome, Run!Stream, Run!Inv, Run!StageInv, Run!JoinInv, Run!CaptureInv, Run!StatusInv,
           Run!OwnersSpareStrangers
  <2>2. Run!JoinInv'
    BY <1>3 DEF Run!ReadSome, Run!Stream, Run!Inv, Run!StageInv, Run!JoinInv, Run!CaptureInv, Run!StatusInv
  <2>3. Run!CaptureInv'
    <3>1. CASE UNCHANGED <<v16, v15>>
      BY <1>3, <3>1 DEF Run!ReadSome, Run!Stream, Run!Inv, Run!CaptureInv
    <3>2. ASSUME NEW n \in 1..v15[s], v16' = [v16 EXCEPT ![s] = Run!Retain(s, SubSeq(Run!Pending(s), 1, n))],
                 v15' = [v15 EXCEPT ![s] = v15[s] - n], UNCHANGED v17
          PROVE  Run!CaptureInv'
      <4> DEFINE m == v14[s] - v15[s]
                 new == SubSeq(Run!Pending(s), 1, n)
      <4>1. v14[s] \in Nat /\ v15[s] \in Nat /\ v15[s] <= v14[s] /\ m \in Nat /\ Run!Fits(s, v16[s], m) /\ s \in Run!Stream
        BY <1>3 DEF Run!Inv, Run!CaptureInv
      <4>2. Run!Pending(s) \in Seq(Nat) /\ Len(Run!Pending(s)) = v15[s] /\ \A i \in 1..v15[s] : Run!Pending(s)[i] = m + i
        <5>1. \A i \in 1..v15[s] : v14[s] - v15[s] + i \in Nat
          BY <4>1
        <5>2. Run!Pending(s) \in [1..v15[s] -> Nat] /\ \A i \in 1..v15[s] : Run!Pending(s)[i] = m + i
          BY <5>1 DEF Run!Pending
        <5> HIDE DEF m
        <5>3. Run!Pending(s) \in Seq(Nat)
          BY <4>1, <5>2, IsASeq
        <5>4. DOMAIN Run!Pending(s) = 1..v15[s]
          BY <5>2
        <5>5. Len(Run!Pending(s)) = v15[s]
          BY <4>1, <5>3, <5>4, LenProperties
        <5> QED BY <5>2, <5>3, <5>5
      <4>3. new \in Seq(Nat) /\ Len(new) = n /\ \A i \in 1..n : new[i] = m + i
        <5> HIDE DEF m
        <5>1. n \in Nat /\ 1 <= n /\ n <= v15[s]
          BY <3>2, <4>1
        <5> QED BY <4>2, <5>1
      <4>4. Run!Fits(s, Run!Retain(s, new), m + n)
        <5> HIDE DEF m, new
        <5> QED BY <3>2, <4>1, <4>3, Retained
      <4>5. m + n = v14[s] - (v15[s] - n) /\ v15[s] - n \in Nat /\ v15[s] - n <= v14[s] /\ v17[s] = "run"
        BY <1>3, <3>2, <4>1 DEF Run!ReadSome
      <4>6. UNCHANGED <<v14, v11, v13>> /\ Run!CaptureInv
        BY <1>3 DEF Run!ReadSome, Run!Inv
      <4>7. ASSUME NEW t \in Run!Stream
            PROVE  v15'[t] \in Nat /\ v15'[t] <= v14[t] /\ Run!Fits(t, v16'[t], v14[t] - v15'[t])
        <5>1. CASE t = s
          BY <3>2, <4>4, <4>5, <4>6, <5>1 DEF Run!CaptureInv
        <5>2. CASE t # s
          BY <3>2, <4>6, <4>7, <5>2 DEF Run!CaptureInv
        <5> QED BY <5>1, <5>2
      <4>8. v15' \in [Run!Stream -> Nat] /\ DOMAIN v16' = Run!Stream
        BY <3>2, <4>5, <4>6 DEF Run!CaptureInv
      <4>9. ASSUME NEW t \in Run!Stream, v17[t] = "ok" PROVE v15'[t] = 0
        <5>1. t # s /\ v15'[t] = v15[t]
          BY <3>2, <4>5, <4>6, <4>9 DEF Run!CaptureInv
        <5> QED BY <4>6, <4>9, <5>1 DEF Run!CaptureInv
      <4>10. v17' = v17 /\ v14' = v14 /\ v11' = v11 /\ v13' = v13
        BY <3>2, <4>6
      <4>11. \A t \in Run!Stream : v15'[t] <= v14'[t] /\ Run!Fits(t, v16'[t], v14'[t] - v15'[t])
        BY <4>7, <4>10
      <4>12. \A t \in Run!Stream : v17'[t] = "ok" => v15'[t] = 0
        BY <4>9, <4>10
      <4> HIDE DEF Run!Fits
      <4> QED BY <4>6, <4>8, <4>10, <4>11, <4>12 DEF Run!CaptureInv
    <3> QED BY <1>3, <3>1, <3>2 DEF Run!ReadSome
  <2>4. Run!StatusInv'
    BY <1>3 DEF Run!ReadSome, Run!Stream, Run!Inv, Run!StageInv, Run!JoinInv, Run!CaptureInv, Run!StatusInv
  <2> QED BY <2>1, <2>2, <2>3, <2>4 DEF Run!Inv
<1>4. ASSUME NEW s \in Run!Stream, Run!ReadEnd(s) PROVE Run!Inv'
  <2>1. Run!StageInv'
    BY <1>4 DEF Run!ReadEnd, Run!Stream, Run!Held, Run!Inv, Run!StageInv, Run!JoinInv, Run!CaptureInv,
           Run!StatusInv, Run!OwnersSpareStrangers
  <2>2. Run!JoinInv'
    BY <1>4 DEF Run!ReadEnd, Run!Stream, Run!Held, Run!Inv, Run!StageInv, Run!JoinInv, Run!CaptureInv,
           Run!StatusInv
  <2>3. Run!CaptureInv'
    BY <1>4 DEF Run!ReadEnd, Run!Stream, Run!Held, Run!Inv, Run!StageInv, Run!JoinInv, Run!CaptureInv,
           Run!StatusInv
  <2>4. Run!StatusInv'
    BY <1>4 DEF Run!ReadEnd, Run!Stream, Run!Held, Run!Inv, Run!StageInv, Run!JoinInv, Run!CaptureInv,
           Run!StatusInv
  <2> QED BY <2>1, <2>2, <2>3, <2>4 DEF Run!Inv
<1>5. CASE Run!Refuse
  <2>1. Run!StageInv'
    BY <1>5 DEF Run!Refuse, Run!Stream, Run!Finish, Run!Inv, Run!StageInv, Run!JoinInv, Run!CaptureInv,
           Run!StatusInv, Run!OwnersSpareStrangers
  <2>2. Run!JoinInv'
    BY <1>5 DEF Run!Refuse, Run!Stream, Run!Finish, Run!Inv, Run!StageInv, Run!JoinInv, Run!CaptureInv,
           Run!StatusInv
  <2>3. Run!CaptureInv'
    BY <1>5 DEF Run!Refuse, Run!Stream, Run!Finish, Run!Inv, Run!StageInv, Run!JoinInv, Run!CaptureInv,
           Run!StatusInv
  <2>4. Run!StatusInv'
    BY <1>5 DEF Run!Refuse, Run!Stream, Run!Finish, Run!Inv, Run!StageInv, Run!JoinInv, Run!CaptureInv,
           Run!StatusInv
  <2> QED BY <2>1, <2>2, <2>3, <2>4 DEF Run!Inv
<1>6. CASE Run!SpawnBusy
  <2>1. Run!StageInv'
    BY <1>6 DEF Run!SpawnBusy, Run!Stream, Run!Finish, Run!Inv, Run!StageInv, Run!JoinInv, Run!CaptureInv,
           Run!StatusInv, Run!OwnersSpareStrangers
  <2>2. Run!JoinInv'
    BY <1>6 DEF Run!SpawnBusy, Run!Stream, Run!Finish, Run!Inv, Run!StageInv, Run!JoinInv, Run!CaptureInv,
           Run!StatusInv
  <2>3. Run!CaptureInv'
    BY <1>6 DEF Run!SpawnBusy, Run!Stream, Run!Finish, Run!Inv, Run!StageInv, Run!JoinInv, Run!CaptureInv,
           Run!StatusInv
  <2>4. Run!StatusInv'
    BY <1>6 DEF Run!SpawnBusy, Run!Stream, Run!Finish, Run!Inv, Run!StageInv, Run!JoinInv, Run!CaptureInv,
           Run!StatusInv
  <2> QED BY <2>1, <2>2, <2>3, <2>4 DEF Run!Inv
<1>7. CASE Run!SpawnFails
  <2>1. Run!StageInv'
    BY <1>7 DEF Run!SpawnFails, Run!Stream, Run!Finish, Run!Inv, Run!StageInv, Run!JoinInv, Run!CaptureInv,
           Run!StatusInv, Run!OwnersSpareStrangers
  <2>2. Run!JoinInv'
    BY <1>7 DEF Run!SpawnFails, Run!Stream, Run!Finish, Run!Inv, Run!StageInv, Run!JoinInv, Run!CaptureInv,
           Run!StatusInv
  <2>3. Run!CaptureInv'
    BY <1>7 DEF Run!SpawnFails, Run!Stream, Run!Finish, Run!Inv, Run!StageInv, Run!JoinInv, Run!CaptureInv,
           Run!StatusInv
  <2>4. Run!StatusInv'
    BY <1>7 DEF Run!SpawnFails, Run!Stream, Run!Finish, Run!Inv, Run!StageInv, Run!JoinInv, Run!CaptureInv,
           Run!StatusInv
  <2> QED BY <2>1, <2>2, <2>3, <2>4 DEF Run!Inv
<1>8. CASE Run!SpawnOutput
  <2>1. Run!StageInv'
    BY <1>8 DEF Run!SpawnOutput, Run!Stream, Run!Started, Run!Inv, Run!StageInv, Run!JoinInv, Run!CaptureInv,
           Run!StatusInv, Run!OwnersSpareStrangers
  <2>2. Run!JoinInv'
    BY <1>8 DEF Run!SpawnOutput, Run!Stream, Run!Started, Run!Inv, Run!StageInv, Run!JoinInv, Run!CaptureInv,
           Run!StatusInv
  <2>3. Run!CaptureInv'
    BY <1>8 DEF Run!SpawnOutput, Run!Stream, Run!Started, Run!Inv, Run!StageInv, Run!JoinInv, Run!CaptureInv,
           Run!StatusInv
  <2>4. Run!StatusInv'
    BY <1>8 DEF Run!SpawnOutput, Run!Stream, Run!Started, Run!Inv, Run!StageInv, Run!JoinInv, Run!CaptureInv,
           Run!StatusInv
  <2> QED BY <2>1, <2>2, <2>3, <2>4 DEF Run!Inv
<1>9. CASE Run!SpawnInteractive
  <2>1. Run!StageInv'
    BY <1>9 DEF Run!SpawnInteractive, Run!Stream, Run!Started, Run!Inv, Run!StageInv, Run!JoinInv,
           Run!CaptureInv, Run!StatusInv, Run!OwnersSpareStrangers
  <2>2. Run!JoinInv'
    BY <1>9 DEF Run!SpawnInteractive, Run!Stream, Run!Started, Run!Inv, Run!StageInv, Run!JoinInv,
           Run!CaptureInv, Run!StatusInv
  <2>3. Run!CaptureInv'
    BY <1>9 DEF Run!SpawnInteractive, Run!Stream, Run!Started, Run!Inv, Run!StageInv, Run!JoinInv,
           Run!CaptureInv, Run!StatusInv
  <2>4. Run!StatusInv'
    BY <1>9 DEF Run!SpawnInteractive, Run!Stream, Run!Started, Run!Inv, Run!StageInv, Run!JoinInv,
           Run!CaptureInv, Run!StatusInv
  <2> QED BY <2>1, <2>2, <2>3, <2>4 DEF Run!Inv
<1>10. CASE Run!SpawnManaged
  <2>1. Run!StageInv'
    BY <1>10 DEF Run!SpawnManaged, Run!Stream, Run!Started, Run!Inv, Run!StageInv, Run!JoinInv,
           Run!CaptureInv, Run!StatusInv, Run!OwnersSpareStrangers
  <2>2. Run!JoinInv'
    BY <1>10 DEF Run!SpawnManaged, Run!Stream, Run!Started, Run!Inv, Run!StageInv, Run!JoinInv,
           Run!CaptureInv, Run!StatusInv
  <2>3. Run!CaptureInv'
    BY <1>10 DEF Run!SpawnManaged, Run!Stream, Run!Started, Run!Inv, Run!StageInv, Run!JoinInv,
           Run!CaptureInv, Run!StatusInv
  <2>4. Run!StatusInv'
    BY <1>10 DEF Run!SpawnManaged, Run!Stream, Run!Started, Run!Inv, Run!StageInv, Run!JoinInv,
           Run!CaptureInv, Run!StatusInv
  <2> QED BY <2>1, <2>2, <2>3, <2>4 DEF Run!Inv
<1>11. CASE Run!SpawnTerminal
  <2>1. Run!StageInv'
    BY <1>11 DEF Run!SpawnTerminal, Run!Stream, Run!Started, Run!Inv, Run!StageInv, Run!JoinInv,
           Run!CaptureInv, Run!StatusInv, Run!OwnersSpareStrangers
  <2>2. Run!JoinInv'
    BY <1>11 DEF Run!SpawnTerminal, Run!Stream, Run!Started, Run!Inv, Run!StageInv, Run!JoinInv,
           Run!CaptureInv, Run!StatusInv
  <2>3. Run!CaptureInv'
    BY <1>11 DEF Run!SpawnTerminal, Run!Stream, Run!Started, Run!Inv, Run!StageInv, Run!JoinInv,
           Run!CaptureInv, Run!StatusInv
  <2>4. Run!StatusInv'
    BY <1>11 DEF Run!SpawnTerminal, Run!Stream, Run!Started, Run!Inv, Run!StageInv, Run!JoinInv,
           Run!CaptureInv, Run!StatusInv
  <2> QED BY <2>1, <2>2, <2>3, <2>4 DEF Run!Inv
<1>12. CASE Run!Exec
  <2>1. Run!StageInv'
    BY <1>12 DEF Run!Exec, Run!Stream, Run!Finish, Run!Inv, Run!StageInv, Run!JoinInv, Run!CaptureInv,
           Run!StatusInv, Run!OwnersSpareStrangers
  <2>2. Run!JoinInv'
    BY <1>12 DEF Run!Exec, Run!Stream, Run!Finish, Run!Inv, Run!StageInv, Run!JoinInv, Run!CaptureInv,
           Run!StatusInv
  <2>3. Run!CaptureInv'
    BY <1>12 DEF Run!Exec, Run!Stream, Run!Finish, Run!Inv, Run!StageInv, Run!JoinInv, Run!CaptureInv,
           Run!StatusInv
  <2>4. Run!StatusInv'
    BY <1>12 DEF Run!Exec, Run!Stream, Run!Finish, Run!Inv, Run!StageInv, Run!JoinInv, Run!CaptureInv,
           Run!StatusInv
  <2> QED BY <2>1, <2>2, <2>3, <2>4 DEF Run!Inv
<1>13. CASE Run!LogFails
  <2>1. Run!StageInv'
    BY <1>13 DEF Run!LogFails, Run!Stream, Run!KillAndReap, Run!Finish, Run!Inv, Run!StageInv, Run!JoinInv,
           Run!CaptureInv, Run!StatusInv, Run!OwnersSpareStrangers
  <2>2. Run!JoinInv'
    BY <1>13 DEF Run!LogFails, Run!Stream, Run!KillAndReap, Run!Finish, Run!Inv, Run!StageInv, Run!JoinInv,
           Run!CaptureInv, Run!StatusInv
  <2>3. Run!CaptureInv'
    BY <1>13 DEF Run!LogFails, Run!Stream, Run!KillAndReap, Run!Finish, Run!Inv, Run!StageInv, Run!JoinInv,
           Run!CaptureInv, Run!StatusInv
  <2>4. Run!StatusInv'
    BY <1>13 DEF Run!LogFails, Run!Stream, Run!KillAndReap, Run!Finish, Run!Inv, Run!StageInv, Run!JoinInv,
           Run!CaptureInv, Run!StatusInv
  <2> QED BY <2>1, <2>2, <2>3, <2>4 DEF Run!Inv
<1>14. CASE Run!StartThreads
  <2>1. Run!StageInv'
    BY <1>14 DEF Run!StartThreads, Run!Stream, Run!Inv, Run!StageInv, Run!JoinInv, Run!CaptureInv,
           Run!StatusInv, Run!OwnersSpareStrangers
  <2>2. Run!JoinInv'
    BY <1>14 DEF Run!StartThreads, Run!Stream, Run!Inv, Run!StageInv, Run!JoinInv, Run!CaptureInv,
           Run!StatusInv
  <2>3. Run!CaptureInv'
    BY <1>14 DEF Run!StartThreads, Run!Stream, Run!Inv, Run!StageInv, Run!JoinInv, Run!CaptureInv,
           Run!StatusInv
  <2>4. Run!StatusInv'
    BY <1>14 DEF Run!StartThreads, Run!Stream, Run!Inv, Run!StageInv, Run!JoinInv, Run!CaptureInv,
           Run!StatusInv
  <2> QED BY <2>1, <2>2, <2>3, <2>4 DEF Run!Inv
<1>15. CASE Run!Reap
  <2>1. Run!StageInv'
    BY <1>15 DEF Run!Reap, Run!Stream, Run!Finish, Run!Inv, Run!StageInv, Run!JoinInv, Run!CaptureInv,
           Run!StatusInv, Run!OwnersSpareStrangers
  <2>2. Run!JoinInv'
    BY <1>15 DEF Run!Reap, Run!Stream, Run!Finish, Run!Inv, Run!StageInv, Run!JoinInv, Run!CaptureInv,
           Run!StatusInv
  <2>3. Run!CaptureInv'
    BY <1>15 DEF Run!Reap, Run!Stream, Run!Finish, Run!Inv, Run!StageInv, Run!JoinInv, Run!CaptureInv,
           Run!StatusInv
  <2>4. Run!StatusInv'
    BY <1>15 DEF Run!Reap, Run!Stream, Run!Finish, Run!Inv, Run!StageInv, Run!JoinInv, Run!CaptureInv,
           Run!StatusInv
  <2> QED BY <2>1, <2>2, <2>3, <2>4 DEF Run!Inv
<1>16. CASE Run!GiveUp
  <2>1. Run!StageInv'
    BY <1>16 DEF Run!GiveUp, Run!Stream, Run!Inv, Run!StageInv, Run!JoinInv, Run!CaptureInv, Run!StatusInv,
           Run!OwnersSpareStrangers
  <2>2. Run!JoinInv'
    BY <1>16 DEF Run!GiveUp, Run!Stream, Run!Inv, Run!StageInv, Run!JoinInv, Run!CaptureInv, Run!StatusInv
  <2>3. Run!CaptureInv'
    BY <1>16 DEF Run!GiveUp, Run!Stream, Run!Inv, Run!StageInv, Run!JoinInv, Run!CaptureInv, Run!StatusInv
  <2>4. Run!StatusInv'
    BY <1>16 DEF Run!GiveUp, Run!Stream, Run!Inv, Run!StageInv, Run!JoinInv, Run!CaptureInv, Run!StatusInv
  <2> QED BY <2>1, <2>2, <2>3, <2>4 DEF Run!Inv
<1>17. CASE Run!Kill
  <2>1. Run!StageInv'
    BY <1>17 DEF Run!Kill, Run!Stream, Run!KillAndReap, Run!Finish, Run!Inv, Run!StageInv, Run!JoinInv,
           Run!CaptureInv, Run!StatusInv, Run!OwnersSpareStrangers
  <2>2. Run!JoinInv'
    BY <1>17 DEF Run!Kill, Run!Stream, Run!KillAndReap, Run!Finish, Run!Inv, Run!StageInv, Run!JoinInv,
           Run!CaptureInv, Run!StatusInv
  <2>3. Run!CaptureInv'
    BY <1>17 DEF Run!Kill, Run!Stream, Run!KillAndReap, Run!Finish, Run!Inv, Run!StageInv, Run!JoinInv,
           Run!CaptureInv, Run!StatusInv
  <2>4. Run!StatusInv'
    BY <1>17 DEF Run!Kill, Run!Stream, Run!KillAndReap, Run!Finish, Run!Inv, Run!StageInv, Run!JoinInv,
           Run!CaptureInv, Run!StatusInv
  <2> QED BY <2>1, <2>2, <2>3, <2>4 DEF Run!Inv
<1>18. ASSUME NEW w \in {"stdin", "stdout", "stderr"}, Run!JoinExpired(w) PROVE Run!Inv'
  <2>1. Run!StageInv'
    BY <1>18 DEF Run!JoinExpired, Run!Stream, Run!KillGroup, Run!Finished, Run!Inv, Run!StageInv, Run!JoinInv,
           Run!CaptureInv, Run!StatusInv, Run!OwnersSpareStrangers
  <2>2. Run!JoinInv'
    BY <1>18 DEF Run!JoinExpired, Run!Stream, Run!KillGroup, Run!Finished, Run!Inv, Run!StageInv, Run!JoinInv,
           Run!CaptureInv, Run!StatusInv
  <2>3. Run!CaptureInv'
    BY <1>18 DEF Run!JoinExpired, Run!Stream, Run!KillGroup, Run!Finished, Run!Inv, Run!StageInv, Run!JoinInv,
           Run!CaptureInv, Run!StatusInv
  <2>4. Run!StatusInv'
    BY <1>18 DEF Run!JoinExpired, Run!Stream, Run!KillGroup, Run!Finished, Run!Inv, Run!StageInv, Run!JoinInv,
           Run!CaptureInv, Run!StatusInv
  <2> QED BY <2>1, <2>2, <2>3, <2>4 DEF Run!Inv
<1>19. CASE Run!JoinStdin
  <2>1. Run!StageInv'
    BY <1>19 DEF Run!JoinStdin, Run!Stream, Run!Finished, Run!Inv, Run!StageInv, Run!JoinInv, Run!CaptureInv,
           Run!StatusInv, Run!OwnersSpareStrangers
  <2>2. Run!JoinInv'
    BY <1>19 DEF Run!JoinStdin, Run!Stream, Run!Finished, Run!Inv, Run!StageInv, Run!JoinInv, Run!CaptureInv,
           Run!StatusInv
  <2>3. Run!CaptureInv'
    BY <1>19 DEF Run!JoinStdin, Run!Stream, Run!Finished, Run!Inv, Run!StageInv, Run!JoinInv, Run!CaptureInv,
           Run!StatusInv
  <2>4. Run!StatusInv'
    BY <1>19 DEF Run!JoinStdin, Run!Stream, Run!Finished, Run!Inv, Run!StageInv, Run!JoinInv, Run!CaptureInv,
           Run!StatusInv
  <2> QED BY <2>1, <2>2, <2>3, <2>4 DEF Run!Inv
<1>20. CASE Run!JoinStdout
  <2>1. Run!StageInv'
    BY <1>20 DEF Run!JoinStdout, Run!Stream, Run!Finished, Run!Inv, Run!StageInv, Run!JoinInv, Run!CaptureInv,
           Run!StatusInv, Run!OwnersSpareStrangers
  <2>2. Run!JoinInv'
    BY <1>20 DEF Run!JoinStdout, Run!Stream, Run!Finished, Run!Inv, Run!StageInv, Run!JoinInv, Run!CaptureInv,
           Run!StatusInv
  <2>3. Run!CaptureInv'
    BY <1>20 DEF Run!JoinStdout, Run!Stream, Run!Finished, Run!Inv, Run!StageInv, Run!JoinInv, Run!CaptureInv,
           Run!StatusInv
  <2>4. Run!StatusInv'
    BY <1>20 DEF Run!JoinStdout, Run!Stream, Run!Finished, Run!Inv, Run!StageInv, Run!JoinInv, Run!CaptureInv,
           Run!StatusInv
  <2> QED BY <2>1, <2>2, <2>3, <2>4 DEF Run!Inv
<1>21. CASE Run!JoinStderr
  <2>1. Run!StageInv'
    BY <1>21 DEF Run!JoinStderr, Run!Stream, Run!Finished, Run!Finish, Run!Outcome, Run!Inv, Run!StageInv,
           Run!JoinInv, Run!CaptureInv, Run!StatusInv, Run!OwnersSpareStrangers
  <2>2. Run!JoinInv'
    BY <1>21 DEF Run!JoinStderr, Run!Stream, Run!Finished, Run!Finish, Run!Outcome, Run!Inv, Run!StageInv,
           Run!JoinInv, Run!CaptureInv, Run!StatusInv
  <2>3. Run!CaptureInv'
    BY <1>21 DEF Run!JoinStderr, Run!Stream, Run!Finished, Run!Finish, Run!Outcome, Run!Inv, Run!StageInv,
           Run!JoinInv, Run!CaptureInv, Run!StatusInv
  <2>4. Run!StatusInv'
    BY <1>21 DEF Run!JoinStderr, Run!Stream, Run!Finished, Run!Finish, Run!Outcome, Run!Inv, Run!StageInv,
           Run!JoinInv, Run!CaptureInv, Run!StatusInv
  <2> QED BY <2>1, <2>2, <2>3, <2>4 DEF Run!Inv
<1>22. CASE Run!ConfirmSession
  <2>1. Run!StageInv'
    BY <1>22 DEF Run!ConfirmSession, Run!Stream, Run!Inv, Run!StageInv, Run!JoinInv, Run!CaptureInv,
           Run!StatusInv, Run!OwnersSpareStrangers
  <2>2. Run!JoinInv'
    BY <1>22 DEF Run!ConfirmSession, Run!Stream, Run!Inv, Run!StageInv, Run!JoinInv, Run!CaptureInv,
           Run!StatusInv
  <2>3. Run!CaptureInv'
    BY <1>22 DEF Run!ConfirmSession, Run!Stream, Run!Inv, Run!StageInv, Run!JoinInv, Run!CaptureInv,
           Run!StatusInv
  <2>4. Run!StatusInv'
    BY <1>22 DEF Run!ConfirmSession, Run!Stream, Run!Inv, Run!StageInv, Run!JoinInv, Run!CaptureInv,
           Run!StatusInv
  <2> QED BY <2>1, <2>2, <2>3, <2>4 DEF Run!Inv
<1>23. CASE Run!OwnerWaits
  <2>1. Run!StageInv'
    BY <1>23 DEF Run!OwnerWaits, Run!Stream, Run!Inv, Run!StageInv, Run!JoinInv, Run!CaptureInv,
           Run!StatusInv, Run!OwnersSpareStrangers
  <2>2. Run!JoinInv'
    BY <1>23 DEF Run!OwnerWaits, Run!Stream, Run!Inv, Run!StageInv, Run!JoinInv, Run!CaptureInv, Run!StatusInv
  <2>3. Run!CaptureInv'
    BY <1>23 DEF Run!OwnerWaits, Run!Stream, Run!Inv, Run!StageInv, Run!JoinInv, Run!CaptureInv, Run!StatusInv
  <2>4. Run!StatusInv'
    BY <1>23 DEF Run!OwnerWaits, Run!Stream, Run!Inv, Run!StageInv, Run!JoinInv, Run!CaptureInv, Run!StatusInv
  <2> QED BY <2>1, <2>2, <2>3, <2>4 DEF Run!Inv
<1>24. CASE Run!SignalGroup
  <2>1. Run!StageInv'
    BY <1>24 DEF Run!SignalGroup, Run!Stream, Run!KillGroup, Run!Inv, Run!StageInv, Run!JoinInv,
           Run!CaptureInv, Run!StatusInv, Run!OwnersSpareStrangers
  <2>2. Run!JoinInv'
    BY <1>24 DEF Run!SignalGroup, Run!Stream, Run!KillGroup, Run!Inv, Run!StageInv, Run!JoinInv,
           Run!CaptureInv, Run!StatusInv
  <2>3. Run!CaptureInv'
    BY <1>24 DEF Run!SignalGroup, Run!Stream, Run!KillGroup, Run!Inv, Run!StageInv, Run!JoinInv,
           Run!CaptureInv, Run!StatusInv
  <2>4. Run!StatusInv'
    BY <1>24 DEF Run!SignalGroup, Run!Stream, Run!KillGroup, Run!Inv, Run!StageInv, Run!JoinInv,
           Run!CaptureInv, Run!StatusInv
  <2> QED BY <2>1, <2>2, <2>3, <2>4 DEF Run!Inv
<1>25. CASE Run!SignalProcess
  <2>1. Run!StageInv'
    BY <1>25 DEF Run!SignalProcess, Run!Stream, Run!Inv, Run!StageInv, Run!JoinInv, Run!CaptureInv,
           Run!StatusInv, Run!OwnersSpareStrangers
  <2>2. Run!JoinInv'
    BY <1>25 DEF Run!SignalProcess, Run!Stream, Run!Inv, Run!StageInv, Run!JoinInv, Run!CaptureInv,
           Run!StatusInv
  <2>3. Run!CaptureInv'
    BY <1>25 DEF Run!SignalProcess, Run!Stream, Run!Inv, Run!StageInv, Run!JoinInv, Run!CaptureInv,
           Run!StatusInv
  <2>4. Run!StatusInv'
    BY <1>25 DEF Run!SignalProcess, Run!Stream, Run!Inv, Run!StageInv, Run!JoinInv, Run!CaptureInv,
           Run!StatusInv
  <2> QED BY <2>1, <2>2, <2>3, <2>4 DEF Run!Inv
<1>26. ASSUME NEW e \in {"ok", "bad", "signal"}, Run!Exit(e) PROVE Run!Inv'
  <2>1. Run!StageInv'
    BY <1>26 DEF Run!Exit, Run!Stream, Run!Inv, Run!StageInv, Run!JoinInv, Run!CaptureInv, Run!StatusInv,
           Run!OwnersSpareStrangers
  <2>2. Run!JoinInv'
    BY <1>26 DEF Run!Exit, Run!Stream, Run!Inv, Run!StageInv, Run!JoinInv, Run!CaptureInv, Run!StatusInv
  <2>3. Run!CaptureInv'
    BY <1>26 DEF Run!Exit, Run!Stream, Run!Inv, Run!StageInv, Run!JoinInv, Run!CaptureInv, Run!StatusInv
  <2>4. Run!StatusInv'
    BY <1>26 DEF Run!Exit, Run!Stream, Run!Inv, Run!StageInv, Run!JoinInv, Run!CaptureInv, Run!StatusInv
  <2> QED BY <2>1, <2>2, <2>3, <2>4 DEF Run!Inv
<1>27. ASSUME NEW d \in {"d1"}, Run!Fork(d) PROVE Run!Inv'
  <2>1. Run!StageInv'
    BY <1>27 DEF Run!Fork, Run!Stream, Run!Inv, Run!StageInv, Run!JoinInv, Run!CaptureInv, Run!StatusInv,
           Run!OwnersSpareStrangers
  <2>2. Run!JoinInv'
    BY <1>27 DEF Run!Fork, Run!Stream, Run!Inv, Run!StageInv, Run!JoinInv, Run!CaptureInv, Run!StatusInv
  <2>3. Run!CaptureInv'
    BY <1>27 DEF Run!Fork, Run!Stream, Run!Inv, Run!StageInv, Run!JoinInv, Run!CaptureInv, Run!StatusInv
  <2>4. Run!StatusInv'
    BY <1>27 DEF Run!Fork, Run!Stream, Run!Inv, Run!StageInv, Run!JoinInv, Run!CaptureInv, Run!StatusInv
  <2> QED BY <2>1, <2>2, <2>3, <2>4 DEF Run!Inv
<1>28. ASSUME NEW d \in {"d1"}, Run!Setsid(d) PROVE Run!Inv'
  <2>1. Run!StageInv'
    BY <1>28 DEF Run!Setsid, Run!Stream, Run!Inv, Run!StageInv, Run!JoinInv, Run!CaptureInv, Run!StatusInv,
           Run!OwnersSpareStrangers
  <2>2. Run!JoinInv'
    BY <1>28 DEF Run!Setsid, Run!Stream, Run!Inv, Run!StageInv, Run!JoinInv, Run!CaptureInv, Run!StatusInv
  <2>3. Run!CaptureInv'
    BY <1>28 DEF Run!Setsid, Run!Stream, Run!Inv, Run!StageInv, Run!JoinInv, Run!CaptureInv, Run!StatusInv
  <2>4. Run!StatusInv'
    BY <1>28 DEF Run!Setsid, Run!Stream, Run!Inv, Run!StageInv, Run!JoinInv, Run!CaptureInv, Run!StatusInv
  <2> QED BY <2>1, <2>2, <2>3, <2>4 DEF Run!Inv
<1>29. ASSUME NEW d \in {"d1"}, Run!Redirect(d) PROVE Run!Inv'
  <2>1. Run!StageInv'
    BY <1>29 DEF Run!Redirect, Run!Stream, Run!Inv, Run!StageInv, Run!JoinInv, Run!CaptureInv, Run!StatusInv,
           Run!OwnersSpareStrangers
  <2>2. Run!JoinInv'
    BY <1>29 DEF Run!Redirect, Run!Stream, Run!Inv, Run!StageInv, Run!JoinInv, Run!CaptureInv, Run!StatusInv
  <2>3. Run!CaptureInv'
    BY <1>29 DEF Run!Redirect, Run!Stream, Run!Inv, Run!StageInv, Run!JoinInv, Run!CaptureInv, Run!StatusInv
  <2>4. Run!StatusInv'
    BY <1>29 DEF Run!Redirect, Run!Stream, Run!Inv, Run!StageInv, Run!JoinInv, Run!CaptureInv, Run!StatusInv
  <2> QED BY <2>1, <2>2, <2>3, <2>4 DEF Run!Inv
<1>30. ASSUME NEW d \in {"d1"}, Run!DescExit(d) PROVE Run!Inv'
  <2>1. Run!StageInv'
    BY <1>30 DEF Run!DescExit, Run!Stream, Run!Inv, Run!StageInv, Run!JoinInv, Run!CaptureInv, Run!StatusInv,
           Run!OwnersSpareStrangers
  <2>2. Run!JoinInv'
    BY <1>30 DEF Run!DescExit, Run!Stream, Run!Inv, Run!StageInv, Run!JoinInv, Run!CaptureInv, Run!StatusInv
  <2>3. Run!CaptureInv'
    BY <1>30 DEF Run!DescExit, Run!Stream, Run!Inv, Run!StageInv, Run!JoinInv, Run!CaptureInv, Run!StatusInv
  <2>4. Run!StatusInv'
    BY <1>30 DEF Run!DescExit, Run!Stream, Run!Inv, Run!StageInv, Run!JoinInv, Run!CaptureInv, Run!StatusInv
  <2> QED BY <2>1, <2>2, <2>3, <2>4 DEF Run!Inv
<1>31. ASSUME NEW s \in Run!Stream, Run!Produce(s) PROVE Run!Inv'
  <2>1. Run!StageInv'
    BY <1>31 DEF Run!Produce, Run!Stream, Run!Held, Run!Inv, Run!StageInv, Run!JoinInv, Run!CaptureInv,
           Run!StatusInv, Run!OwnersSpareStrangers
  <2>2. Run!JoinInv'
    BY <1>31 DEF Run!Produce, Run!Stream, Run!Held, Run!Inv, Run!StageInv, Run!JoinInv, Run!CaptureInv,
           Run!StatusInv
  <2>3. Run!CaptureInv'
    BY <1>31 DEF Run!Produce, Run!Stream, Run!Held, Run!Inv, Run!StageInv, Run!JoinInv, Run!CaptureInv,
           Run!StatusInv
  <2>4. Run!StatusInv'
    BY <1>31 DEF Run!Produce, Run!Stream, Run!Held, Run!Inv, Run!StageInv, Run!JoinInv, Run!CaptureInv,
           Run!StatusInv
  <2> QED BY <2>1, <2>2, <2>3, <2>4 DEF Run!Inv
<1>32. CASE Run!Consume
  <2>1. Run!StageInv'
    BY <1>32 DEF Run!Consume, Run!Stream, Run!Held, Run!Inv, Run!StageInv, Run!JoinInv, Run!CaptureInv,
           Run!StatusInv, Run!OwnersSpareStrangers
  <2>2. Run!JoinInv'
    BY <1>32 DEF Run!Consume, Run!Stream, Run!Held, Run!Inv, Run!StageInv, Run!JoinInv, Run!CaptureInv,
           Run!StatusInv
  <2>3. Run!CaptureInv'
    BY <1>32 DEF Run!Consume, Run!Stream, Run!Held, Run!Inv, Run!StageInv, Run!JoinInv, Run!CaptureInv,
           Run!StatusInv
  <2>4. Run!StatusInv'
    BY <1>32 DEF Run!Consume, Run!Stream, Run!Held, Run!Inv, Run!StageInv, Run!JoinInv, Run!CaptureInv,
           Run!StatusInv
  <2> QED BY <2>1, <2>2, <2>3, <2>4 DEF Run!Inv
<1>33. CASE Run!Tick
  <2>1. Run!StageInv'
    BY <1>33 DEF Run!Tick, Run!Stream, Run!Inv, Run!StageInv, Run!JoinInv, Run!CaptureInv, Run!StatusInv,
           Run!OwnersSpareStrangers
  <2>2. Run!JoinInv'
    BY <1>33 DEF Run!Tick, Run!Stream, Run!Inv, Run!StageInv, Run!JoinInv, Run!CaptureInv, Run!StatusInv
  <2>3. Run!CaptureInv'
    BY <1>33 DEF Run!Tick, Run!Stream, Run!Inv, Run!StageInv, Run!JoinInv, Run!CaptureInv, Run!StatusInv
  <2>4. Run!StatusInv'
    BY <1>33 DEF Run!Tick, Run!Stream, Run!Inv, Run!StageInv, Run!JoinInv, Run!CaptureInv, Run!StatusInv
  <2> QED BY <2>1, <2>2, <2>3, <2>4 DEF Run!Inv
<1>34. CASE Run!Reuse
  <2>1. Run!StageInv'
    BY <1>34 DEF Run!Reuse, Run!Stream, Run!Inv, Run!StageInv, Run!JoinInv, Run!CaptureInv, Run!StatusInv,
           Run!OwnersSpareStrangers
  <2>2. Run!JoinInv'
    BY <1>34 DEF Run!Reuse, Run!Stream, Run!Inv, Run!StageInv, Run!JoinInv, Run!CaptureInv, Run!StatusInv
  <2>3. Run!CaptureInv'
    BY <1>34 DEF Run!Reuse, Run!Stream, Run!Inv, Run!StageInv, Run!JoinInv, Run!CaptureInv, Run!StatusInv
  <2>4. Run!StatusInv'
    BY <1>34 DEF Run!Reuse, Run!Stream, Run!Inv, Run!StageInv, Run!JoinInv, Run!CaptureInv, Run!StatusInv
  <2> QED BY <2>1, <2>2, <2>3, <2>4 DEF Run!Inv
<1> QED
  BY <1>1, <1>2, <1>3, <1>4, <1>5, <1>6, <1>7, <1>8, <1>9, <1>10, <1>11, <1>12, <1>13, <1>14, <1>15, <1>16,
         <1>17, <1>18, <1>19, <1>20, <1>21, <1>22, <1>23, <1>24, <1>25, <1>26, <1>27, <1>28, <1>29, <1>30,
         <1>31, <1>32, <1>33, <1>34 DEF Run!Next, Run!Threads, Run!Caller, Run!Owner, Run!World

\* Bytes that count on from k are the slice of the output behind k.
LEMMA Slices ==
  ASSUME NEW b \in Seq(Nat), NEW m \in Nat, NEW k \in Nat, k + Len(b) <= m,
         \A i \in 1..Len(b) : b[i] = k + i
  PROVE  b = SubSeq([i \in 1..m |-> i], k + 1, k + Len(b))
<1> DEFINE w == [i \in 1..m |-> i]
           t == SubSeq(w, k + 1, k + Len(b))
<1>1. w \in [1..m -> Nat]
  OBVIOUS
<1>2. w \in Seq(Nat) /\ Len(w) = m /\ \A i \in 1..m : w[i] = i
  BY <1>1, IsASeq, LenProperties
<1> HIDE DEF w
<1>3. t \in Seq(Nat) /\ Len(t) = Len(b) /\ \A i \in 1..Len(b) : t[i] = k + i
  BY <1>2
<1> HIDE DEF t
<1>4. \A i \in 1..Len(b) : b[i] = t[i]
  BY <1>3
<1>5. b = t
  BY <1>3, <1>4, SeqEqual
<1> QED BY <1>5 DEF t, w

\* It implies what is promised of the command runner.
LEMMA CmdRunnerKept == Run!Inv => Run!StatusIsWhole /\ Run!TimeoutLeavesNothing /\ Run!OwnersSpareStrangers
<1> SUFFICES ASSUME Run!Inv PROVE Run!StatusIsWhole /\ Run!TimeoutLeavesNothing /\ Run!OwnersSpareStrangers
  OBVIOUS
<1>1. Run!OwnersSpareStrangers
  BY DEF Run!Inv, Run!StageInv
<1>2. Run!TimeoutLeavesNothing
  BY DEF Run!Inv, Run!JoinInv, Run!TimeoutLeavesNothing
<1>3. ASSUME NEW s \in Run!Stream, v17[s] = "ok"
      PROVE  LET n == Len(v16[s].bytes) IN
             /\ v15[s] = 0
             /\ v16[s].bytes = IF s = "stdout" THEN SubSeq(Run!Whole(s), 1, n)
                               ELSE SubSeq(Run!Whole(s), v14[s] - n + 1, v14[s])
             /\ n = IF v14[s] < 1 THEN v14[s] ELSE 1
             /\ n < v14[s] => v16[s].truncated
  <2> DEFINE b == v16[s].bytes
             m == v14[s]
  <2>1. v15[s] = 0 /\ m \in Nat /\ Run!Fits(s, v16[s], m)
    BY <1>3 DEF Run!Inv, Run!CaptureInv
  <2>2. b \in Seq(Nat) /\ Len(b) = (IF m < 1 THEN m ELSE 1) /\ (Len(b) < m => v16[s].truncated)
        /\ \A i \in 1..Len(b) : b[i] = IF s = "stdout" THEN i ELSE m - Len(b) + i
    BY <2>1 DEF Run!Fits
  <2>3. Len(b) \in Nat /\ Len(b) <= m /\ m - Len(b) \in Nat /\ m - Len(b) + Len(b) = m /\ 0 + Len(b) <= m /\ 0 + Len(b) = Len(b)
    BY <2>1, <2>2
  <2>4. CASE s = "stdout"
    <3>1. \A i \in 1..Len(b) : b[i] = 0 + i
      BY <2>2, <2>4
    <3>2. b = SubSeq([i \in 1..m |-> i], 0 + 1, 0 + Len(b))
      <4> HIDE DEF b, m
      <4> QED BY <2>1, <2>2, <2>3, <3>1, Slices
    <3>3. b = SubSeq(Run!Whole(s), 1, Len(b))
      <4>1. 0 + 1 = 1
        OBVIOUS
      <4> HIDE DEF b, m
      <4>2. Run!Whole(s) = [i \in 1..m |-> i]
        BY DEF Run!Whole, m
      <4> QED BY <2>3, <3>2, <4>1, <4>2
    <3> QED BY <2>1, <2>2, <2>4, <3>3
  <2>5. CASE s # "stdout"
    <3>1. \A i \in 1..Len(b) : b[i] = (m - Len(b)) + i
      BY <2>2, <2>5
    <3>2. b = SubSeq([i \in 1..m |-> i], (m - Len(b)) + 1, (m - Len(b)) + Len(b))
      <4> DEFINE k == m - Len(b)
      <4>1. k \in Nat /\ k + Len(b) <= m /\ \A i \in 1..Len(b) : b[i] = k + i
        BY <2>1, <2>3, <3>1
      <4> HIDE DEF b, m, k
      <4>2. b = SubSeq([i \in 1..m |-> i], k + 1, k + Len(b))
        BY <2>1, <2>2, <4>1, Slices
      <4> QED BY <4>2 DEF k
    <3>3. b = SubSeq(Run!Whole(s), m - Len(b) + 1, m)
      BY <2>3, <3>2 DEF Run!Whole
    <3> QED BY <2>1, <2>2, <2>5, <3>3
  <2> QED BY <2>4, <2>5
<1>4. Run!StatusIsWhole
  <2> SUFFICES ASSUME v2 = "done" /\ v1.mode = "output" /\ v19 \in {"ok", "bad", "signal"}
               PROVE  /\ v19 = v8 /\ v7 = "reaped" /\ ~v5
                      /\ v19 = "ok" => v11 = 0
                      /\ \A s \in Run!Stream : v17[s] = "ok"
    BY <1>3 DEF Run!StatusIsWhole
  <2> QED BY DEF Run!Inv, Run!StatusInv, Run!CaptureInv
<1> QED BY <1>1, <1>2, <1>4

\* The wait for a guest.
Ready == INSTANCE Readiness WITH
    Deadline <- 5, Changes <- 6,
    vm <- v1, console <- v2, sshd <- v3, broken <- v4, changes <- v5, now <- v6, cancelled <- v7, pc <- v8,
    transport <- v9, bootDone <- v10, sshStarted <- v11, events <- v12, result <- v13

\* Nothing added to the steps begun is the steps begun.
LEMMA Stories == (Ready!Begun \o <<>>) \o <<>> = Ready!Begun
<1> DEFINE Shows == {"boot", "ssh"} \X {"start", "update", "done", "fail"}
<1>1. Ready!Begun \in Seq(Shows)
  <2>1. Ready!Opened \in Seq(Shows) /\ Ready!BootDone \in Seq(Shows) /\ Ready!SshStart \in Seq(Shows)
    BY DEF Ready!Opened, Ready!BootDone, Ready!SshStart
  <2> HIDE DEF Shows
  <2> QED BY <2>1 DEF Ready!Begun
<1> HIDE DEF Shows
<1>2. Ready!Begun \o <<>> = Ready!Begun
  BY <1>1
<1> QED BY <1>2

\* The invariant of the readiness probe holds at first.
LEMMA ReadinessBegin == Ready!Init => Ready!Inv
BY DEF Ready!Init, Ready!Inv, Ready!Story, Ready!Opened

\* Every step of the readiness probe keeps it.
LEMMA ReadinessStepInv ==
  ASSUME Ready!Inv, [Ready!Next]_(Ready!vars)
  PROVE  Ready!Inv'
<1>1. CASE UNCHANGED Ready!vars
  BY <1>1 DEF Ready!vars, Ready!guest, Ready!shown, Ready!Story, Ready!Inv
<1>2. CASE Ready!Loop
  <2>1. ASSUME NEW r, r \notin {"none", "error", "ready"}, Ready!FailWait(r), v8 = "loop" PROVE Ready!Story'
    <3>1. v12' = Ready!Begun \o Ready!SshFailed
      <4>1. CASE v10
        BY <2>1, <4>1, Stories DEF Ready!FailWait, Ready!BootEvents, Ready!SshEvents, Ready!Inv, Ready!Story
      <4>2. CASE ~v10
        BY <2>1, <4>2 DEF Ready!FailWait, Ready!Begun, Ready!BootEvents, Ready!SshEvents, Ready!Inv, Ready!Story
      <4> QED BY <4>1, <4>2
    <3> QED BY <2>1, <3>1 DEF Ready!FailWait, Ready!Story
  <2>2. CASE Ready!FailWait("interrupted") \/ Ready!FailWait("timeout")
    <3>1. Ready!Story'
      BY <1>2, <2>1, <2>2 DEF Ready!Loop
    <3> QED BY <1>2, <2>2, <3>1 DEF Ready!Loop, Ready!FailWait, Ready!Inv, Ready!guest
  <2>3. CASE UNCHANGED <<Ready!shown, v13>> /\ v8' = "console"
    BY <1>2, <2>3 DEF Ready!Loop, Ready!Inv, Ready!Story, Ready!guest, Ready!shown
  <2> QED BY <1>2, <2>2, <2>3 DEF Ready!Loop
<1>3. CASE Ready!Probe
  BY <1>3, Stories DEF Ready!Probe, Ready!guest, Ready!shown, Ready!Story, Ready!Ticks, Ready!Abort,
         Ready!BootEvents, Ready!SshEvents, Ready!Begun, Ready!Inv
<1>4. CASE Ready!NoTransport
  BY <1>4 DEF Ready!NoTransport, Ready!guest, Ready!shown, Ready!Story, Ready!Inv
<1>5. CASE Ready!SshTooLate
  BY <1>5 DEF Ready!SshTooLate, Ready!guest, Ready!shown, Ready!Story, Ready!Inv
<1>6. CASE Ready!SshReady
  BY <1>6 DEF Ready!SshReady, Ready!guest, Ready!shown, Ready!Story, Ready!Ticks, Ready!Inv
<1>7. CASE Ready!Pause
  BY <1>7 DEF Ready!Pause, Ready!guest, Ready!shown, Ready!Story, Ready!Inv
<1>8. CASE Ready!Interrupt
  BY <1>8 DEF Ready!Interrupt, Ready!guest, Ready!shown, Ready!Story, Ready!Inv
<1>9. CASE Ready!GuestBoots
  BY <1>9 DEF Ready!GuestBoots, Ready!guest, Ready!shown, Ready!Story, Ready!Guest, Ready!Inv
<1>10. CASE Ready!GuestDies
  BY <1>10 DEF Ready!GuestDies, Ready!guest, Ready!shown, Ready!Story, Ready!Guest, Ready!Inv
<1>11. ASSUME NEW s \in {"busy", "other", "ok"}, Ready!GuestListens(s) PROVE Ready!Inv'
  BY <1>11 DEF Ready!GuestListens, Ready!guest, Ready!shown, Ready!Story, Ready!Guest, Ready!Inv
<1> QED
  BY <1>1, <1>2, <1>3, <1>4, <1>5, <1>6, <1>7, <1>8, <1>9, <1>10, <1>11 DEF Ready!Next, Ready!Wait

\* It implies what is promised of the readiness probe.
LEMMA ReadinessKept == Ready!Inv => Ready!StepsAreClosed
<1> SUFFICES ASSUME Ready!Inv PROVE Ready!StepsAreClosed
  OBVIOUS
<1> DEFINE
  At(s, n) == /\ DOMAIN s = 1..n /\ Len(s) = n
              /\ s[1] = <<"boot", "start">> /\ s[2] = <<"boot", "done">> /\ s[3] = <<"ssh", "start">>
              /\ s[4] = <<"ssh", "update">>
<1>1. At(Ready!Begun, 4)
  BY DEF Ready!Begun, Ready!Opened, Ready!BootDone, Ready!SshStart
<1>2. At(Ready!Begun \o Ready!SshDone, 5) /\ (Ready!Begun \o Ready!SshDone)[5] = <<"ssh", "done">>
  BY DEF Ready!Begun, Ready!Opened, Ready!BootDone, Ready!SshStart, Ready!SshDone
<1>3. At(Ready!Begun \o Ready!SshFailed, 5) /\ (Ready!Begun \o Ready!SshFailed)[5] = <<"ssh", "fail">>
  BY DEF Ready!Begun, Ready!Opened, Ready!BootDone, Ready!SshStart, Ready!SshFailed
<1> DEFINE BS == <<"boot", "start">>  BD == <<"boot", "done">>  SS == <<"ssh", "start">>  SU == <<"ssh", "update">>
            SD == <<"ssh", "done">>  SF == <<"ssh", "fail">>
           Distinct == /\ BS \notin {BD, SS, SU, SD, SF} /\ BD \notin {SS, SU, SD, SF} /\ SS \notin {SU, SD, SF}
                       /\ SU \notin {SD, SF} /\ SD # SF
<1>4. Distinct
  OBVIOUS
<1>5. CASE ~v10
  BY <1>5 DEF Ready!Inv, Ready!Story, Ready!StepsAreClosed, Ready!Once, Ready!Shown, Ready!SshEnds, Ready!Opened
<1>6. CASE v10 /\ v13 \in {"none", "error"}
  <2>1. At(v12, 4) /\ (v8 = "returned" => v13 = "error")
    BY <1>1, <1>6 DEF Ready!Inv, Ready!Story
  <2> QED BY <1>4, <2>1 DEF Ready!StepsAreClosed, Ready!Once, Ready!Shown, Ready!SshEnds
<1>7. CASE v10 /\ v13 = "ready"
  <2>1. At(v12, 5) /\ v12[5] = SD
    BY <1>2, <1>7 DEF Ready!Inv, Ready!Story
  <2> QED BY <1>4, <1>7, <2>1 DEF Ready!StepsAreClosed, Ready!Once, Ready!Shown, Ready!SshEnds
<1>8. CASE v10 /\ v13 \notin {"none", "error", "ready"}
  <2>1. At(v12, 5) /\ v12[5] = SF
    BY <1>3, <1>8 DEF Ready!Inv, Ready!Story
  <2> QED BY <1>4, <1>8, <2>1 DEF Ready!StepsAreClosed, Ready!Once, Ready!Shown, Ready!SshEnds
<1> QED BY <1>5, <1>6, <1>7, <1>8 DEF Ready!Inv

\* No step gives a guest up before its time.
LEMMA ReadinessNever ==
  ASSUME Ready!Inv, [Ready!Next]_(Ready!vars)
  PROVE  Ready!GivenUpInTime
<1>1. CASE UNCHANGED Ready!vars
  BY <1>1 DEF Ready!vars, Ready!guest, Ready!shown, Ready!Story, Ready!GivenUpInTime
<1>2. CASE Ready!Loop
  BY <1>2, Stories DEF Ready!Loop, Ready!guest, Ready!shown, Ready!Story, Ready!FailWait, Ready!BootEvents,
         Ready!SshEvents, Ready!GivenUpInTime, Ready!Inv
<1>3. CASE Ready!Probe
  BY <1>3, Stories DEF Ready!Probe, Ready!guest, Ready!shown, Ready!Story, Ready!Ticks, Ready!Abort,
         Ready!BootEvents, Ready!SshEvents, Ready!Begun, Ready!GivenUpInTime, Ready!Inv
<1>4. CASE Ready!NoTransport
  BY <1>4 DEF Ready!NoTransport, Ready!guest, Ready!shown, Ready!Story, Ready!GivenUpInTime, Ready!Inv
<1>5. CASE Ready!SshTooLate
  BY <1>5 DEF Ready!SshTooLate, Ready!guest, Ready!shown, Ready!Story, Ready!GivenUpInTime, Ready!Inv
<1>6. CASE Ready!SshReady
  BY <1>6 DEF Ready!SshReady, Ready!guest, Ready!shown, Ready!Story, Ready!Ticks, Ready!GivenUpInTime, Ready!Inv
<1>7. CASE Ready!Pause
  BY <1>7 DEF Ready!Pause, Ready!guest, Ready!shown, Ready!Story, Ready!GivenUpInTime, Ready!Inv
<1>8. CASE Ready!Interrupt
  BY <1>8 DEF Ready!Interrupt, Ready!guest, Ready!shown, Ready!Story, Ready!GivenUpInTime, Ready!Inv
<1>9. CASE Ready!GuestBoots
  BY <1>9 DEF Ready!GuestBoots, Ready!guest, Ready!shown, Ready!Story, Ready!Guest, Ready!GivenUpInTime,
         Ready!Inv
<1>10. CASE Ready!GuestDies
  BY <1>10 DEF Ready!GuestDies, Ready!guest, Ready!shown, Ready!Story, Ready!Guest, Ready!GivenUpInTime,
         Ready!Inv
<1>11. ASSUME NEW s \in {"busy", "other", "ok"}, Ready!GuestListens(s) PROVE Ready!GivenUpInTime
  BY <1>11 DEF Ready!GuestListens, Ready!guest, Ready!shown, Ready!Story, Ready!Guest, Ready!GivenUpInTime,
         Ready!Inv
<1> QED
  BY <1>1, <1>2, <1>3, <1>4, <1>5, <1>6, <1>7, <1>8, <1>9, <1>10, <1>11 DEF Ready!Next, Ready!Wait

Pinned ==
    [inScope |-> TRUE, availability |-> "binary", hasArch |-> TRUE, name |-> "plain", url |-> "https", sha |-> "hex", executable |-> TRUE]
Resolvable == {Pinned, [Pinned EXCEPT !.executable = FALSE]}
HelperEntries ==
    Resolvable \cup {[Pinned EXCEPT !.inScope = FALSE], [Pinned EXCEPT !.availability = "source-only"],
        [Pinned EXCEPT !.hasArch = FALSE], [Pinned EXCEPT !.name = "../x"], [Pinned EXCEPT !.url = "http"], [Pinned EXCEPT !.sha = "short"]}

HelperBuild == [p \in {Old, New} |-> IF p = Old THEN "old" ELSE "new"]
HelperJob == [p \in {Old, New} |-> IF p = Old THEN "exec" ELSE "inject"]

\* Two builds that install one helper.
Help == INSTANCE Helpers WITH
    Procs <- {Old, New}, Build <- HelperBuild, Job <- HelperJob,
    Entries <- Either(Resolvable, HelperEntries), MaxFaults <- 2,
    pc <- v1, seen <- v2, partial <- v3, lock <- v4, file <- v5, durable <- v6, debris <- v7, used <- v8,
    faults <- v9

\* Neither builder is the mark for "nobody".
BuildersDiffer == Help!None \notin {Old, New}

\* The invariant of the helpers holds at first.
LEMMA HelpersBegin == BuildersDiffer /\ Help!Init => Help!Inv
<1> SUFFICES ASSUME BuildersDiffer, Help!Init PROVE Help!Inv
  OBVIOUS
<1>1. Help!TypeOK
  BY DEF Help!Init, Help!TypeOK, BuildersDiffer
<1>2. Help!NameInv
  <2>1. Help!File("older") \in Help!Whole /\ [bytes |-> "user", mode |-> "odd", synced |-> TRUE] \in Help!Whole
    BY DEF Help!File, Help!Whole
  <2> QED BY <2>1 DEF Help!Init, Help!NameInv
<1>3. Help!PartialInv /\ Help!SeenInv /\ Help!UsedInv
  BY DEF Help!Init, Help!PartialInv, Help!SeenInv, Help!UsedInv, Help!InjectedIsPinned
<1> QED BY <1>1, <1>2, <1>3 DEF Help!Inv

\* Every step of the helpers keeps it.
LEMMA HelpersStepInv ==
  ASSUME BuildersDiffer, Help!Inv, [Help!Next]_(Help!vars)
  PROVE  Help!Inv'
<1> USE DEF BuildersDiffer
<1>1. CASE UNCHANGED Help!vars
  BY ZenonT(60), <1>1 DEF Help!vars, Help!Inv, Help!TypeOK, Help!NameInv, Help!Whole, Help!Payload,
         Help!PartialInv,
         Help!SeenInv, Help!IsFile, Help!UsedInv, Help!InjectedIsPinned
<1>2. ASSUME NEW p \in {Old, New}, Help!AcquireHelperLock(p) PROVE Help!Inv'
  BY ZenonT(60), <1>2 DEF Help!AcquireHelperLock, Help!Inv, Help!TypeOK, Help!NameInv, Help!Whole, Help!Payload,
         Help!PartialInv, Help!SeenInv, Help!IsFile, Help!UsedInv, Help!InjectedIsPinned
<1>3. ASSUME NEW p \in {Old, New}, Help!Inspect(p) PROVE Help!Inv'
  <2>1. Help!TypeOK'
    BY <1>3 DEF Help!Inspect, Help!Installed, Help!Return, Help!Matches, Help!IsFile, Help!Inv, Help!TypeOK,
           Help!NameInv, Help!PartialInv, Help!SeenInv, Help!UsedInv
  <2>2. Help!NameInv'
    BY <1>3 DEF Help!Inspect, Help!Installed, Help!Return, Help!Matches, Help!IsFile, Help!Inv, Help!TypeOK,
           Help!NameInv, Help!PartialInv, Help!SeenInv, Help!UsedInv, Help!Whole, Help!Payload
  <2>3. Help!PartialInv'
    BY <1>3 DEF Help!Inspect, Help!Installed, Help!Return, Help!Matches, Help!IsFile, Help!Inv, Help!TypeOK,
           Help!NameInv, Help!PartialInv, Help!SeenInv, Help!UsedInv, Help!Payload
  <2>4. Help!SeenInv'
    BY <1>3 DEF Help!Inspect, Help!Installed, Help!Return, Help!Matches, Help!IsFile, Help!Inv, Help!TypeOK,
           Help!NameInv, Help!PartialInv, Help!SeenInv, Help!UsedInv
  <2>5. Help!UsedInv'
    BY <1>3 DEF Help!Inspect, Help!Installed, Help!Return, Help!Matches, Help!IsFile, Help!Inv, Help!TypeOK,
           Help!NameInv, Help!PartialInv, Help!SeenInv, Help!UsedInv, Help!InjectedIsPinned
  <2> QED BY <2>1, <2>2, <2>3, <2>4, <2>5 DEF Help!Inv
<1>4. ASSUME NEW p \in {Old, New}, Help!WritePartial(p) PROVE Help!Inv'
  <2>1. Help!TypeOK'
    BY <1>4 DEF Help!WritePartial, Help!Return, Help!Builds, Help!Inv, Help!TypeOK, Help!NameInv,
           Help!PartialInv, Help!SeenInv, Help!UsedInv
  <2>2. Help!NameInv'
    BY <1>4 DEF Help!WritePartial, Help!Return, Help!Builds, Help!Inv, Help!TypeOK, Help!NameInv,
           Help!PartialInv, Help!SeenInv, Help!UsedInv, Help!Whole, Help!Payload
  <2>3. Help!PartialInv'
    <3>1. \A b \in {HelperBuild[p], "short"} : Help!Unsynced(b) \in Help!Payload
      BY DEF Help!Unsynced, Help!Payload, Help!Builds
    <3> QED BY <1>4, <3>1 DEF Help!WritePartial, Help!Return, Help!PartialInv, Help!TypeOK, Help!Inv
  <2>4. Help!SeenInv'
    BY <1>4 DEF Help!WritePartial, Help!Return, Help!Builds, Help!Inv, Help!TypeOK, Help!NameInv,
           Help!PartialInv, Help!SeenInv, Help!UsedInv, Help!IsFile
  <2>5. Help!UsedInv'
    BY <1>4 DEF Help!WritePartial, Help!Return, Help!Builds, Help!Inv, Help!TypeOK, Help!NameInv,
           Help!PartialInv, Help!SeenInv, Help!UsedInv, Help!InjectedIsPinned
  <2> QED BY <2>1, <2>2, <2>3, <2>4, <2>5 DEF Help!Inv
<1>5. ASSUME NEW p \in {Old, New}, Help!SyncPartial(p) PROVE Help!Inv'
  <2>1. Help!TypeOK'
    BY <1>5 DEF Help!SyncPartial, Help!Inv, Help!TypeOK, Help!NameInv, Help!PartialInv, Help!SeenInv,
           Help!UsedInv
  <2>2. Help!NameInv'
    BY <1>5 DEF Help!SyncPartial, Help!Inv, Help!TypeOK, Help!NameInv, Help!PartialInv, Help!SeenInv,
           Help!UsedInv, Help!Whole, Help!Payload
  <2>3. Help!PartialInv'
    BY ZenonT(60), <1>5 DEF Help!SyncPartial, Help!Inv, Help!TypeOK, Help!NameInv, Help!PartialInv,
           Help!SeenInv,
           Help!UsedInv, Help!Payload
  <2>4. Help!SeenInv'
    BY <1>5 DEF Help!SyncPartial, Help!Inv, Help!TypeOK, Help!NameInv, Help!PartialInv, Help!SeenInv,
           Help!UsedInv, Help!IsFile
  <2>5. Help!UsedInv'
    BY <1>5 DEF Help!SyncPartial, Help!Inv, Help!TypeOK, Help!NameInv, Help!PartialInv, Help!SeenInv,
           Help!UsedInv, Help!InjectedIsPinned
  <2> QED BY <2>1, <2>2, <2>3, <2>4, <2>5 DEF Help!Inv
<1>6. ASSUME NEW p \in {Old, New}, Help!Readback(p) PROVE Help!Inv'
  <2>1. Help!TypeOK'
    BY <1>6 DEF Help!Readback, Help!Return, Help!Inv, Help!TypeOK, Help!NameInv, Help!PartialInv, Help!SeenInv,
           Help!UsedInv
  <2>2. Help!NameInv'
    BY <1>6 DEF Help!Readback, Help!Return, Help!Inv, Help!TypeOK, Help!NameInv, Help!PartialInv, Help!SeenInv,
           Help!UsedInv, Help!Whole, Help!Payload
  <2>3. Help!PartialInv'
    <3>1. ASSUME NEW f \in Help!Payload, f.synced, f.bytes = HelperBuild[p] PROVE f = Help!File(HelperBuild[p])
      BY <3>1 DEF Help!Payload, Help!File
    <3> QED BY <1>6, <3>1 DEF Help!Readback, Help!Return, Help!PartialInv, Help!TypeOK, Help!Inv
  <2>4. Help!SeenInv'
    BY <1>6 DEF Help!Readback, Help!Return, Help!Inv, Help!TypeOK, Help!NameInv, Help!PartialInv, Help!SeenInv,
           Help!UsedInv, Help!IsFile
  <2>5. Help!UsedInv'
    BY <1>6 DEF Help!Readback, Help!Return, Help!Inv, Help!TypeOK, Help!NameInv, Help!PartialInv, Help!SeenInv,
           Help!UsedInv, Help!InjectedIsPinned
  <2> QED BY <2>1, <2>2, <2>3, <2>4, <2>5 DEF Help!Inv
<1>7. ASSUME NEW p \in {Old, New}, Help!Persist(p) PROVE Help!Inv'
  <2>1. Help!TypeOK'
    BY <1>7 DEF Help!Persist, Help!IsFile, Help!Builds, Help!Inv, Help!TypeOK, Help!NameInv, Help!PartialInv,
           Help!SeenInv, Help!UsedInv
  <2>2. Help!NameInv'
    <3>1. Help!File(HelperBuild[p]) \in Help!Whole
      BY DEF Help!File, Help!Whole, Help!Builds
    <3> QED BY <1>7, <3>1 DEF Help!Persist, Help!NameInv, Help!PartialInv, Help!Inv
  <2>3. Help!PartialInv'
    BY <1>7 DEF Help!Persist, Help!IsFile, Help!Builds, Help!Inv, Help!TypeOK, Help!NameInv, Help!PartialInv,
           Help!SeenInv, Help!UsedInv, Help!Payload
  <2>4. Help!SeenInv'
    BY <1>7 DEF Help!Persist, Help!IsFile, Help!Builds, Help!Inv, Help!TypeOK, Help!NameInv, Help!PartialInv,
           Help!SeenInv, Help!UsedInv
  <2>5. Help!UsedInv'
    BY <1>7 DEF Help!Persist, Help!IsFile, Help!Builds, Help!Inv, Help!TypeOK, Help!NameInv, Help!PartialInv,
           Help!SeenInv, Help!UsedInv, Help!InjectedIsPinned
  <2> QED BY <2>1, <2>2, <2>3, <2>4, <2>5 DEF Help!Inv
<1>8. ASSUME NEW p \in {Old, New}, Help!SyncDirectory(p) PROVE Help!Inv'
  BY ZenonT(60), <1>8 DEF Help!SyncDirectory, Help!Inv, Help!TypeOK, Help!NameInv, Help!Whole, Help!Payload,
         Help!PartialInv, Help!SeenInv, Help!IsFile, Help!UsedInv, Help!InjectedIsPinned
<1>9. ASSUME NEW p \in {Old, New}, Help!VerifyInstalled(p) PROVE Help!Inv'
  <2>1. Help!TypeOK'
    BY <1>9 DEF Help!VerifyInstalled, Help!Return, Help!Installed, Help!IsFile, Help!Inv, Help!TypeOK,
           Help!NameInv, Help!PartialInv, Help!SeenInv, Help!UsedInv
  <2>2. Help!NameInv'
    BY <1>9 DEF Help!VerifyInstalled, Help!Return, Help!Installed, Help!IsFile, Help!Inv, Help!TypeOK,
           Help!NameInv, Help!PartialInv, Help!SeenInv, Help!UsedInv, Help!Whole, Help!Payload
  <2>3. Help!PartialInv'
    BY <1>9 DEF Help!VerifyInstalled, Help!Return, Help!Installed, Help!IsFile, Help!Inv, Help!TypeOK,
           Help!NameInv, Help!PartialInv, Help!SeenInv, Help!UsedInv, Help!Payload
  <2>4. Help!SeenInv'
    BY <1>9 DEF Help!VerifyInstalled, Help!Return, Help!Installed, Help!IsFile, Help!Inv, Help!TypeOK,
           Help!NameInv, Help!PartialInv, Help!SeenInv, Help!UsedInv
  <2>5. Help!UsedInv'
    BY <1>9 DEF Help!VerifyInstalled, Help!Return, Help!Installed, Help!IsFile, Help!Inv, Help!TypeOK,
           Help!NameInv, Help!PartialInv, Help!SeenInv, Help!UsedInv, Help!InjectedIsPinned
  <2> QED BY <2>1, <2>2, <2>3, <2>4, <2>5 DEF Help!Inv
<1>10. ASSUME NEW p \in {Old, New}, Help!Execute(p) PROVE Help!Inv'
  <2>1. Help!TypeOK'
    BY <1>10 DEF Help!Execute, Help!IsFile, Help!Whole, Help!Inv, Help!TypeOK, Help!NameInv, Help!PartialInv,
           Help!SeenInv, Help!UsedInv
  <2>2. Help!NameInv'
    BY <1>10 DEF Help!Execute, Help!IsFile, Help!Whole, Help!Inv, Help!TypeOK, Help!NameInv, Help!PartialInv,
           Help!SeenInv, Help!UsedInv, Help!Payload
  <2>3. Help!PartialInv'
    BY <1>10 DEF Help!Execute, Help!IsFile, Help!Whole, Help!Inv, Help!TypeOK, Help!NameInv, Help!PartialInv,
           Help!SeenInv, Help!UsedInv, Help!Payload
  <2>4. Help!SeenInv'
    BY <1>10 DEF Help!Execute, Help!IsFile, Help!Whole, Help!Inv, Help!TypeOK, Help!NameInv, Help!PartialInv,
           Help!SeenInv, Help!UsedInv
  <2>5. Help!UsedInv'
    BY <1>10 DEF Help!Execute, Help!IsFile, Help!Whole, Help!Inv, Help!TypeOK, Help!NameInv, Help!PartialInv,
           Help!SeenInv, Help!UsedInv, Help!InjectedIsPinned
  <2> QED BY <2>1, <2>2, <2>3, <2>4, <2>5 DEF Help!Inv
<1>11. ASSUME NEW p \in {Old, New}, Help!Inject(p) PROVE Help!Inv'
  <2>1. Help!TypeOK'
    BY <1>11 DEF Help!Inject, Help!ReadsPinned, Help!Matches, Help!IsFile, Help!Whole, Help!Builds, Help!Inv,
           Help!TypeOK, Help!NameInv, Help!PartialInv, Help!SeenInv, Help!UsedInv
  <2>2. Help!NameInv'
    BY <1>11 DEF Help!Inject, Help!ReadsPinned, Help!Matches, Help!IsFile, Help!Whole, Help!Builds, Help!Inv,
           Help!TypeOK, Help!NameInv, Help!PartialInv, Help!SeenInv, Help!UsedInv, Help!Payload
  <2>3. Help!PartialInv'
    BY <1>11 DEF Help!Inject, Help!ReadsPinned, Help!Matches, Help!IsFile, Help!Whole, Help!Builds, Help!Inv,
           Help!TypeOK, Help!NameInv, Help!PartialInv, Help!SeenInv, Help!UsedInv, Help!Payload
  <2>4. Help!SeenInv'
    BY <1>11 DEF Help!Inject, Help!ReadsPinned, Help!Matches, Help!IsFile, Help!Whole, Help!Builds, Help!Inv,
           Help!TypeOK, Help!NameInv, Help!PartialInv, Help!SeenInv, Help!UsedInv
  <2>5. Help!UsedInv'
    BY <1>11 DEF Help!Inject, Help!ReadsPinned, Help!Matches, Help!IsFile, Help!Whole, Help!Builds, Help!Inv,
           Help!TypeOK, Help!NameInv, Help!PartialInv, Help!SeenInv, Help!UsedInv, Help!InjectedIsPinned
  <2> QED BY <2>1, <2>2, <2>3, <2>4, <2>5 DEF Help!Inv
<1>12. ASSUME NEW p \in {Old, New}, Help!Again(p) PROVE Help!Inv'
  <2>1. Help!TypeOK'
    BY <1>12 DEF Help!Again, Help!Inv, Help!TypeOK, Help!NameInv, Help!PartialInv, Help!SeenInv, Help!UsedInv
  <2>2. Help!NameInv'
    BY <1>12 DEF Help!Again, Help!Inv, Help!TypeOK, Help!NameInv, Help!PartialInv, Help!SeenInv, Help!UsedInv,
           Help!Whole, Help!Payload
  <2>3. Help!PartialInv'
    BY <1>12 DEF Help!Again, Help!Inv, Help!TypeOK, Help!NameInv, Help!PartialInv, Help!SeenInv, Help!UsedInv,
           Help!Payload
  <2>4. Help!SeenInv'
    BY <1>12 DEF Help!Again, Help!Inv, Help!TypeOK, Help!NameInv, Help!PartialInv, Help!SeenInv, Help!UsedInv,
           Help!IsFile
  <2>5. Help!UsedInv'
    BY <1>12 DEF Help!Again, Help!Inv, Help!TypeOK, Help!NameInv, Help!PartialInv, Help!SeenInv, Help!UsedInv,
           Help!InjectedIsPinned
  <2> QED BY <2>1, <2>2, <2>3, <2>4, <2>5 DEF Help!Inv
<1>13. ASSUME NEW p \in {Old, New}, Help!Kill(p) PROVE Help!Inv'
  <2>1. Help!TypeOK'
    BY <1>13 DEF Help!Kill, Help!Inv, Help!TypeOK, Help!NameInv, Help!PartialInv, Help!SeenInv, Help!UsedInv
  <2>2. Help!NameInv'
    BY <1>13 DEF Help!Kill, Help!Inv, Help!TypeOK, Help!NameInv, Help!PartialInv, Help!SeenInv, Help!UsedInv,
           Help!Whole, Help!Payload
  <2>3. Help!PartialInv'
    BY <1>13 DEF Help!Kill, Help!Inv, Help!TypeOK, Help!NameInv, Help!PartialInv, Help!SeenInv, Help!UsedInv,
           Help!Payload
  <2>4. Help!SeenInv'
    BY <1>13 DEF Help!Kill, Help!Inv, Help!TypeOK, Help!NameInv, Help!PartialInv, Help!SeenInv, Help!UsedInv,
           Help!IsFile
  <2>5. Help!UsedInv'
    BY <1>13 DEF Help!Kill, Help!Inv, Help!TypeOK, Help!NameInv, Help!PartialInv, Help!SeenInv, Help!UsedInv,
           Help!InjectedIsPinned
  <2> QED BY <2>1, <2>2, <2>3, <2>4, <2>5 DEF Help!Inv
<1>14. ASSUME NEW p \in {Old, New}, NEW e, Help!Resolve(p, e) PROVE Help!Inv'
  <2>1. Help!TypeOK'
    BY <1>14 DEF Help!Resolve, Help!Inv, Help!TypeOK, Help!NameInv, Help!PartialInv, Help!SeenInv, Help!UsedInv
  <2>2. Help!NameInv'
    BY <1>14 DEF Help!Resolve, Help!Inv, Help!TypeOK, Help!NameInv, Help!PartialInv, Help!SeenInv, Help!UsedInv,
           Help!Whole, Help!Payload
  <2>3. Help!PartialInv'
    BY <1>14 DEF Help!Resolve, Help!Inv, Help!TypeOK, Help!NameInv, Help!PartialInv, Help!SeenInv, Help!UsedInv,
           Help!Payload
  <2>4. Help!SeenInv'
    BY <1>14 DEF Help!Resolve, Help!Inv, Help!TypeOK, Help!NameInv, Help!PartialInv, Help!SeenInv, Help!UsedInv,
           Help!IsFile
  <2>5. Help!UsedInv'
    BY <1>14 DEF Help!Resolve, Help!Inv, Help!TypeOK, Help!NameInv, Help!PartialInv, Help!SeenInv, Help!UsedInv,
           Help!InjectedIsPinned
  <2> QED BY <2>1, <2>2, <2>3, <2>4, <2>5 DEF Help!Inv
<1>15. CASE Help!PowerCut
  <2>1. Help!TypeOK'
    BY <1>15 DEF Help!PowerCut, Help!Inv, Help!TypeOK, Help!NameInv, Help!PartialInv, Help!SeenInv, Help!UsedInv
  <2>2. Help!NameInv'
    BY <1>15 DEF Help!PowerCut, Help!Inv, Help!TypeOK, Help!NameInv, Help!PartialInv, Help!SeenInv,
           Help!UsedInv, Help!Whole, Help!Payload
  <2>3. Help!PartialInv'
    BY <1>15 DEF Help!PowerCut, Help!Inv, Help!TypeOK, Help!NameInv, Help!PartialInv, Help!SeenInv,
           Help!UsedInv, Help!Payload
  <2>4. Help!SeenInv'
    BY <1>15 DEF Help!PowerCut, Help!Inv, Help!TypeOK, Help!NameInv, Help!PartialInv, Help!SeenInv,
           Help!UsedInv, Help!IsFile
  <2>5. Help!UsedInv'
    BY <1>15 DEF Help!PowerCut, Help!Inv, Help!TypeOK, Help!NameInv, Help!PartialInv, Help!SeenInv,
           Help!UsedInv, Help!InjectedIsPinned
  <2> QED BY <2>1, <2>2, <2>3, <2>4, <2>5 DEF Help!Inv
<1>16. CASE Help!Meddle
  <2>1. Help!TypeOK'
    BY <1>16 DEF Help!Meddle, Help!Inv, Help!TypeOK, Help!NameInv, Help!PartialInv, Help!SeenInv, Help!UsedInv
  <2>2. Help!NameInv'
    <3>1. [bytes |-> "user", mode |-> "odd", synced |-> TRUE] \in Help!Whole
      BY DEF Help!Whole
    <3> QED BY <1>16, <3>1 DEF Help!Meddle, Help!NameInv, Help!Inv
  <2>3. Help!PartialInv'
    BY <1>16 DEF Help!Meddle, Help!Inv, Help!TypeOK, Help!NameInv, Help!PartialInv, Help!SeenInv, Help!UsedInv,
           Help!Payload
  <2>4. Help!SeenInv'
    BY <1>16 DEF Help!Meddle, Help!Inv, Help!TypeOK, Help!NameInv, Help!PartialInv, Help!SeenInv, Help!UsedInv,
           Help!IsFile
  <2>5. Help!UsedInv'
    BY <1>16 DEF Help!Meddle, Help!Inv, Help!TypeOK, Help!NameInv, Help!PartialInv, Help!SeenInv, Help!UsedInv,
           Help!InjectedIsPinned
  <2> QED BY <2>1, <2>2, <2>3, <2>4, <2>5 DEF Help!Inv
<1> QED
  BY <1>1, <1>2, <1>3, <1>4, <1>5, <1>6, <1>7, <1>8, <1>9, <1>10, <1>11, <1>12, <1>13, <1>14, <1>15, <1>16 DEF
         Help!Next, Help!Step

\* It implies what is promised of the helpers.
LEMMA HelpersKept == Help!Inv => Help!PublishedIsWhole /\ Help!InjectedIsPinned
BY DEF Help!Inv, Help!NameInv, Help!UsedInv, Help!PublishedIsWhole, Help!IsFile, Help!Whole

\* No step reports or replaces a helper that is not its own.
LEMMA HelpersNever ==
  ASSUME BuildersDiffer, Help!Inv, [Help!Next]_(Help!vars)
  PROVE  Help!Never
<1>1. CASE UNCHANGED Help!vars
  BY <1>1 DEF Help!vars, Help!Never, Help!ReportedIsOwn, Help!UserFileKept, Help!IsFile
<1>2. ASSUME NEW p \in {Old, New}, Help!AcquireHelperLock(p) PROVE Help!Never
  BY <1>2 DEF Help!AcquireHelperLock, Help!Never, Help!ReportedIsOwn, Help!UserFileKept, Help!IsFile, Help!Inv,
         Help!SeenInv, Help!TypeOK
<1>3. ASSUME NEW p \in {Old, New}, Help!Inspect(p) PROVE Help!Never
  BY <1>3 DEF Help!Inspect, Help!Installed, Help!Return, Help!Matches, Help!IsFile, Help!Never,
         Help!ReportedIsOwn, Help!UserFileKept, Help!Inv, Help!SeenInv, Help!TypeOK
<1>4. ASSUME NEW p \in {Old, New}, Help!WritePartial(p) PROVE Help!Never
  BY <1>4 DEF Help!WritePartial, Help!Return, Help!Builds, Help!Never, Help!ReportedIsOwn, Help!UserFileKept,
         Help!IsFile, Help!Inv, Help!SeenInv, Help!TypeOK
<1>5. ASSUME NEW p \in {Old, New}, Help!SyncPartial(p) PROVE Help!Never
  BY <1>5 DEF Help!SyncPartial, Help!Never, Help!ReportedIsOwn, Help!UserFileKept, Help!IsFile, Help!Inv,
         Help!SeenInv, Help!TypeOK
<1>6. ASSUME NEW p \in {Old, New}, Help!Readback(p) PROVE Help!Never
  BY <1>6 DEF Help!Readback, Help!Return, Help!Never, Help!ReportedIsOwn, Help!UserFileKept, Help!IsFile,
         Help!Inv, Help!SeenInv, Help!TypeOK
<1>7. ASSUME NEW p \in {Old, New}, Help!Persist(p) PROVE Help!Never
  BY <1>7 DEF Help!Persist, Help!IsFile, Help!Builds, Help!Never, Help!ReportedIsOwn, Help!UserFileKept,
         Help!Inv, Help!SeenInv, Help!TypeOK
<1>8. ASSUME NEW p \in {Old, New}, Help!SyncDirectory(p) PROVE Help!Never
  BY <1>8 DEF Help!SyncDirectory, Help!Never, Help!ReportedIsOwn, Help!UserFileKept, Help!IsFile, Help!Inv,
         Help!SeenInv, Help!TypeOK
<1>9. ASSUME NEW p \in {Old, New}, Help!VerifyInstalled(p) PROVE Help!Never
  <2> DEFINE s == IF Help!Installed(p) = "matches" THEN "have" ELSE "failed"
  <2>1. v1' = [v1 EXCEPT ![p] = s] /\ v5' = v5 /\ v1 \in [{Old, New} -> {"idle", "lock", "inspect", "write", "sync", "readback", "persist", "sync_dir", "verify", "have", "done", "failed"}]
    BY <1>9 DEF Help!VerifyInstalled, Help!Return, Help!Inv, Help!TypeOK
  <2>2. s = "have" => v5 # Help!None /\ v5.bytes = HelperBuild[p]
    BY DEF Help!Installed, Help!Matches, Help!IsFile
  <2> HIDE DEF s
  <2>3. \A q \in {Old, New} : v1[q] # "have" /\ v1'[q] = "have" => q = p /\ s = "have"
    BY <2>1
  <2> QED BY <2>1, <2>2, <2>3 DEF Help!Never, Help!ReportedIsOwn, Help!UserFileKept
<1>10. ASSUME NEW p \in {Old, New}, Help!Execute(p) PROVE Help!Never
  BY <1>10 DEF Help!Execute, Help!IsFile, Help!Whole, Help!Never, Help!ReportedIsOwn, Help!UserFileKept,
         Help!Inv, Help!SeenInv, Help!TypeOK
<1>11. ASSUME NEW p \in {Old, New}, Help!Inject(p) PROVE Help!Never
  BY <1>11 DEF Help!Inject, Help!ReadsPinned, Help!Matches, Help!IsFile, Help!Whole, Help!Builds, Help!Never,
         Help!ReportedIsOwn, Help!UserFileKept, Help!Inv, Help!SeenInv, Help!TypeOK
<1>12. ASSUME NEW p \in {Old, New}, Help!Again(p) PROVE Help!Never
  BY <1>12 DEF Help!Again, Help!Never, Help!ReportedIsOwn, Help!UserFileKept, Help!IsFile, Help!Inv,
         Help!SeenInv, Help!TypeOK
<1>13. ASSUME NEW p \in {Old, New}, Help!Kill(p) PROVE Help!Never
  BY <1>13 DEF Help!Kill, Help!Never, Help!ReportedIsOwn, Help!UserFileKept, Help!IsFile, Help!Inv,
         Help!SeenInv, Help!TypeOK
<1>14. ASSUME NEW p \in {Old, New}, NEW e, Help!Resolve(p, e) PROVE Help!Never
  BY <1>14 DEF Help!Resolve, Help!Never, Help!ReportedIsOwn, Help!UserFileKept, Help!IsFile, Help!Inv,
         Help!SeenInv, Help!TypeOK
<1>15. CASE Help!PowerCut
  BY <1>15 DEF Help!PowerCut, Help!Never, Help!ReportedIsOwn, Help!UserFileKept, Help!IsFile, Help!Inv,
         Help!SeenInv, Help!TypeOK
<1>16. CASE Help!Meddle
  BY <1>16 DEF Help!Meddle, Help!Never, Help!ReportedIsOwn, Help!UserFileKept, Help!IsFile, Help!Inv,
         Help!SeenInv, Help!TypeOK
<1> QED
  BY <1>1, <1>2, <1>3, <1>4, <1>5, <1>6, <1>7, <1>8, <1>9, <1>10, <1>11, <1>12, <1>13, <1>14, <1>15, <1>16 DEF
         Help!Next, Help!Step

OneServer == {CHOOSE p \in Peer : TRUE}
DiskSizes == IF Live THEN {4} ELSE {3, 4}

\* PID 1 of an OCI guest, over boots with a disk that grows.
Pid1 == INSTANCE GuestInit WITH
    Servers <- OneServer, Orphans <- Orphan, Budget <- 1, BlockSize <- 2,
    Sizes <- DiskSizes, MaxBoots <- Either(1, 2), Faults <- ~Live,
    pc <- v1, conf <- v2, device <- v3, fs <- v4, files <- v5, write <- v6, now <- v7, net <- v8, asked <- v9,
    offer <- v10, lease <- v11, acked <- v12, pend <- v13, masked <- v14, proc <- v15, got <- v16, childMask <- v17,
    boots <- v18

\* There is a DHCP server, and none is the mark for "no server".
ServersAreReal == Pid1!None \notin Peer /\ Peer # {}

\* The one server of the guest is a server.
LEMMA Servers == ServersAreReal => Pid1!None \notin OneServer
BY DEF ServersAreReal, OneServer
\* Disks have sizes.
LEMMA SizesAreNat == DiskSizes \subseteq Nat
BY DEF DiskSizes

\* The invariant of PID 1 of the guest holds at first.
LEMMA GuestInitBegin == ServersAreReal /\ Pid1!Init => Pid1!Inv
BY Servers, SizesAreNat DEF Pid1!Init, Pid1!Inv, Pid1!LeaseInv, Pid1!LeaseIsGranted, Pid1!WriteInv, Pid1!Texts,
   Pid1!DiskInv, Pid1!FsFitsDevice

\* Every step of PID 1 of the guest keeps it.
LEMMA GuestInitStepInv ==
  ASSUME ServersAreReal, Pid1!Inv, [Pid1!Next]_(Pid1!vars)
  PROVE  Pid1!Inv'
<1>1. CASE UNCHANGED Pid1!vars
  BY <1>1 DEF Pid1!vars, Pid1!bootVars, Pid1!netVars, Pid1!procVars, Pid1!Inv, Pid1!LeaseInv,
         Pid1!LeaseIsGranted, Pid1!WriteInv, Pid1!Texts, Pid1!DiskInv, Pid1!FsFitsDevice
<1>2. CASE Pid1!MountPseudoFilesystems
  BY <1>2 DEF Pid1!MountPseudoFilesystems, Pid1!bootVars, Pid1!netVars, Pid1!procVars, Pid1!Inv, Pid1!LeaseInv,
         Pid1!LeaseIsGranted, Pid1!WriteInv, Pid1!Texts, Pid1!DiskInv, Pid1!FsFitsDevice
<1>3. ASSUME NEW c \in Pid1!Configs, Pid1!ReadConfig(c) PROVE Pid1!Inv'
  BY <1>3 DEF Pid1!ReadConfig, Pid1!netVars, Pid1!procVars, Pid1!Inv, Pid1!LeaseInv, Pid1!LeaseIsGranted,
         Pid1!WriteInv, Pid1!Texts, Pid1!DiskInv, Pid1!FsFitsDevice
<1>4. CASE Pid1!GrowRootFilesystem
  <2>1. Pid1!LeaseInv'
    BY <1>4, SizesAreNat DEF Pid1!GrowRootFilesystem, Pid1!netVars, Pid1!procVars, Pid1!ResizeTarget,
           Pid1!Configs, Pid1!Inv, Pid1!LeaseInv, Pid1!WriteInv, Pid1!DiskInv, Pid1!LeaseIsGranted
  <2>2. Pid1!WriteInv'
    BY <1>4, SizesAreNat DEF Pid1!GrowRootFilesystem, Pid1!netVars, Pid1!procVars, Pid1!ResizeTarget,
           Pid1!Configs, Pid1!Inv, Pid1!LeaseInv, Pid1!WriteInv, Pid1!DiskInv, Pid1!Texts
  <2>3. Pid1!DiskInv'
    <3>1. ASSUME NEW r \in Nat, NEW a \in Nat, NEW f \in Nat, f * 2 <= a
          PROVE  Pid1!ResizeTarget(r, a, f) \in Nat /\ Pid1!ResizeTarget(r, a, f) * 2 <= a
      BY <3>1 DEF Pid1!ResizeTarget
    <3>2. \A c \in Pid1!Configs : c.size \in Nat
      BY SizesAreNat DEF Pid1!Configs
    <3>3. Pid1!DiskInv /\ Pid1!FsFitsDevice
      BY DEF Pid1!Inv, Pid1!DiskInv
    <3>4. \A c \in Pid1!Configs, a, f \in Nat : f * 2 <= a =>
             Pid1!ResizeTarget(c.size, a, f) \in Nat /\ Pid1!ResizeTarget(c.size, a, f) * 2 <= a
      BY <3>1, <3>2
    <3>5. v3 \in Nat /\ v3' \in Nat /\ v4' \in Nat /\ v2' \in Pid1!Configs
      BY <1>4, <3>3, <3>4 DEF Pid1!GrowRootFilesystem, Pid1!DiskInv, Pid1!FsFitsDevice
    <3>6. v4' * 2 <= v3'
      BY <1>4, <3>3, <3>4 DEF Pid1!GrowRootFilesystem, Pid1!DiskInv, Pid1!FsFitsDevice
    <3>7. Pid1!Configs' = Pid1!Configs
      BY DEF Pid1!Configs
    <3> QED BY <3>5, <3>6, <3>7 DEF Pid1!DiskInv, Pid1!FsFitsDevice
  <2> QED BY <2>1, <2>2, <2>3 DEF Pid1!Inv
<1>5. CASE Pid1!ConfigureNetwork
  BY <1>5 DEF Pid1!ConfigureNetwork, Pid1!bootVars, Pid1!netVars, Pid1!procVars, Pid1!Inv, Pid1!LeaseInv,
         Pid1!LeaseIsGranted, Pid1!WriteInv, Pid1!Texts, Pid1!DiskInv, Pid1!FsFitsDevice
<1>6. ASSUME NEW p \in Pid1!Packets, Pid1!TakeOffer(p) PROVE Pid1!Inv'
  BY <1>6 DEF Pid1!TakeOffer, Pid1!bootVars, Pid1!procVars, Pid1!Awaits, Pid1!Heard, Pid1!Inv, Pid1!LeaseInv,
         Pid1!LeaseIsGranted, Pid1!WriteInv, Pid1!Texts, Pid1!DiskInv, Pid1!FsFitsDevice
<1>7. ASSUME NEW p \in Pid1!Packets, Pid1!TakeAck(p) PROVE Pid1!Inv'
  <2>1. Pid1!LeaseInv'
    BY <1>7, Servers DEF Pid1!TakeAck, Pid1!bootVars, Pid1!procVars, Pid1!Awaits, Pid1!Heard, Pid1!EndExchange,
           Pid1!Packets, Pid1!Own, Pid1!Inv, Pid1!LeaseInv, Pid1!WriteInv, Pid1!DiskInv, Pid1!LeaseIsGranted
  <2>2. Pid1!WriteInv'
    BY <1>7, Servers DEF Pid1!TakeAck, Pid1!bootVars, Pid1!procVars, Pid1!Awaits, Pid1!Heard, Pid1!EndExchange,
           Pid1!Packets, Pid1!Own, Pid1!Inv, Pid1!LeaseInv, Pid1!WriteInv, Pid1!DiskInv, Pid1!Texts
  <2>3. Pid1!DiskInv'
    BY <1>7, Servers DEF Pid1!TakeAck, Pid1!bootVars, Pid1!procVars, Pid1!Awaits, Pid1!Heard, Pid1!EndExchange,
           Pid1!Packets, Pid1!Own, Pid1!Inv, Pid1!LeaseInv, Pid1!WriteInv, Pid1!DiskInv, Pid1!FsFitsDevice
  <2> QED BY <2>1, <2>2, <2>3 DEF Pid1!Inv
<1>8. CASE Pid1!GiveUp
  BY <1>8 DEF Pid1!GiveUp, Pid1!bootVars, Pid1!procVars, Pid1!EndExchange, Pid1!Inv, Pid1!LeaseInv,
         Pid1!LeaseIsGranted, Pid1!WriteInv, Pid1!Texts, Pid1!DiskInv, Pid1!FsFitsDevice
<1>9. CASE Pid1!ApplyLease
  BY <1>9 DEF Pid1!ApplyLease, Pid1!bootVars, Pid1!netVars, Pid1!procVars, Pid1!Inv, Pid1!LeaseInv,
         Pid1!LeaseIsGranted, Pid1!WriteInv, Pid1!Texts, Pid1!DiskInv, Pid1!FsFitsDevice
<1>10. CASE Pid1!WriteResolv
  BY <1>10 DEF Pid1!WriteResolv, Pid1!netVars, Pid1!procVars, Pid1!WriteIfAbsent, Pid1!BeginWrite, Pid1!Texts,
         Pid1!Inv, Pid1!LeaseInv, Pid1!LeaseIsGranted, Pid1!WriteInv, Pid1!DiskInv, Pid1!FsFitsDevice
<1>11. CASE Pid1!WriteHosts
  BY <1>11 DEF Pid1!WriteHosts, Pid1!netVars, Pid1!procVars, Pid1!WriteIfAbsent, Pid1!BeginWrite, Pid1!Texts,
         Pid1!Inv, Pid1!LeaseInv, Pid1!LeaseIsGranted, Pid1!WriteInv, Pid1!DiskInv, Pid1!FsFitsDevice
<1>12. CASE Pid1!WriteStaticHosts
  BY <1>12 DEF Pid1!WriteStaticHosts, Pid1!netVars, Pid1!procVars, Pid1!WriteIfAbsent, Pid1!BeginWrite,
         Pid1!Texts, Pid1!Inv, Pid1!LeaseInv, Pid1!LeaseIsGranted, Pid1!WriteInv, Pid1!DiskInv,
         Pid1!FsFitsDevice
<1>13. CASE Pid1!WriteText
  BY <1>13 DEF Pid1!WriteText, Pid1!netVars, Pid1!procVars, Pid1!Inv, Pid1!LeaseInv, Pid1!LeaseIsGranted,
         Pid1!WriteInv, Pid1!Texts, Pid1!DiskInv, Pid1!FsFitsDevice
<1>14. CASE Pid1!Plan
  BY <1>14 DEF Pid1!Plan, Pid1!bootVars, Pid1!netVars, Pid1!procVars, Pid1!Inv, Pid1!LeaseInv,
         Pid1!LeaseIsGranted, Pid1!WriteInv, Pid1!Texts, Pid1!DiskInv, Pid1!FsFitsDevice
<1>15. CASE Pid1!BlockSignals
  BY <1>15 DEF Pid1!BlockSignals, Pid1!bootVars, Pid1!Inv, Pid1!LeaseInv, Pid1!LeaseIsGranted, Pid1!WriteInv,
         Pid1!Texts, Pid1!DiskInv, Pid1!FsFitsDevice
<1>16. CASE Pid1!SpawnChild
  BY <1>16 DEF Pid1!SpawnChild, Pid1!bootVars, Pid1!netVars, Pid1!Inv, Pid1!LeaseInv, Pid1!LeaseIsGranted,
         Pid1!WriteInv, Pid1!Texts, Pid1!DiskInv, Pid1!FsFitsDevice
<1>17. CASE Pid1!PowerOff
  BY <1>17 DEF Pid1!PowerOff, Pid1!bootVars, Pid1!netVars, Pid1!procVars, Pid1!Inv, Pid1!LeaseInv,
         Pid1!LeaseIsGranted, Pid1!WriteInv, Pid1!Texts, Pid1!DiskInv, Pid1!FsFitsDevice
<1>18. CASE Pid1!ReadChild
  BY <1>18 DEF Pid1!ReadChild, Pid1!bootVars, Pid1!netVars, Pid1!Reap, Pid1!Inv, Pid1!LeaseInv,
         Pid1!LeaseIsGranted, Pid1!WriteInv, Pid1!Texts, Pid1!DiskInv, Pid1!FsFitsDevice
<1>19. ASSUME NEW sig, Pid1!Forward(sig) PROVE Pid1!Inv'
  BY <1>19 DEF Pid1!Forward, Pid1!bootVars, Pid1!netVars, Pid1!Inv, Pid1!LeaseInv, Pid1!LeaseIsGranted,
         Pid1!WriteInv, Pid1!Texts, Pid1!DiskInv, Pid1!FsFitsDevice
<1>20. CASE Pid1!Tick
  BY <1>20 DEF Pid1!Tick, Pid1!bootVars, Pid1!procVars, Pid1!Inv, Pid1!LeaseInv, Pid1!LeaseIsGranted,
         Pid1!WriteInv, Pid1!Texts, Pid1!DiskInv, Pid1!FsFitsDevice
<1>21. ASSUME NEW p \in Pid1!Packets, Pid1!Deliver(p) PROVE Pid1!Inv'
  <2>1. Pid1!LeaseInv'
    BY <1>21, Servers DEF Pid1!Deliver, Pid1!bootVars, Pid1!procVars, Pid1!Packets, Pid1!Own, Pid1!Inv,
           Pid1!LeaseInv, Pid1!WriteInv, Pid1!DiskInv, Pid1!LeaseIsGranted
  <2>2. Pid1!WriteInv'
    BY <1>21, Servers DEF Pid1!Deliver, Pid1!bootVars, Pid1!procVars, Pid1!Packets, Pid1!Own, Pid1!Inv,
           Pid1!LeaseInv, Pid1!WriteInv, Pid1!DiskInv, Pid1!Texts
  <2>3. Pid1!DiskInv'
    BY <1>21, Servers DEF Pid1!Deliver, Pid1!bootVars, Pid1!procVars, Pid1!Packets, Pid1!Own, Pid1!Inv,
           Pid1!LeaseInv, Pid1!WriteInv, Pid1!DiskInv, Pid1!FsFitsDevice
  <2> QED BY <2>1, <2>2, <2>3 DEF Pid1!Inv
<1>22. ASSUME NEW sig, Pid1!Send(sig) PROVE Pid1!Inv'
  BY <1>22 DEF Pid1!Send, Pid1!bootVars, Pid1!netVars, Pid1!Inv, Pid1!LeaseInv, Pid1!LeaseIsGranted,
         Pid1!WriteInv, Pid1!Texts, Pid1!DiskInv, Pid1!FsFitsDevice
<1>23. ASSUME NEW o, Pid1!Leave(o) PROVE Pid1!Inv'
  BY <1>23 DEF Pid1!Leave, Pid1!bootVars, Pid1!netVars, Pid1!Inv, Pid1!LeaseInv, Pid1!LeaseIsGranted,
         Pid1!WriteInv, Pid1!Texts, Pid1!DiskInv, Pid1!FsFitsDevice
<1>24. ASSUME NEW p, Pid1!End(p) PROVE Pid1!Inv'
  BY <1>24 DEF Pid1!End, Pid1!bootVars, Pid1!netVars, Pid1!Inv, Pid1!LeaseInv, Pid1!LeaseIsGranted,
         Pid1!WriteInv, Pid1!Texts, Pid1!DiskInv, Pid1!FsFitsDevice
<1>25. ASSUME NEW size \in DiskSizes, Pid1!Boot(size) PROVE Pid1!Inv'
  <2>1. Pid1!LeaseInv'
    BY <1>25, SizesAreNat DEF Pid1!Boot, Pid1!Inv, Pid1!LeaseInv, Pid1!WriteInv, Pid1!DiskInv,
           Pid1!LeaseIsGranted
  <2>2. Pid1!WriteInv'
    BY <1>25, SizesAreNat DEF Pid1!Boot, Pid1!Inv, Pid1!LeaseInv, Pid1!WriteInv, Pid1!DiskInv, Pid1!Texts
  <2>3. Pid1!DiskInv'
    BY <1>25, SizesAreNat DEF Pid1!Boot, Pid1!Inv, Pid1!LeaseInv, Pid1!WriteInv, Pid1!DiskInv, Pid1!FsFitsDevice
  <2> QED BY <2>1, <2>2, <2>3 DEF Pid1!Inv
<1> QED
  BY <1>1, <1>2, <1>3, <1>4, <1>5, <1>6, <1>7, <1>8, <1>9, <1>10, <1>11, <1>12, <1>13, <1>14, <1>15, <1>16,
         <1>17, <1>18, <1>19, <1>20, <1>21, <1>22, <1>23, <1>24, <1>25 DEF Pid1!Next, Pid1!Step, Pid1!Supervise,
         Pid1!Environment, Pid1!Inv, Pid1!LeaseInv

\* It implies what is promised of PID 1 of the guest.
LEMMA GuestInitKept == Pid1!Inv => Pid1!LeaseIsGranted /\ Pid1!FsFitsDevice
BY DEF Pid1!Inv, Pid1!LeaseInv, Pid1!DiskInv

\* No step drops a signal PID 1 read or replaces a file of the image.
LEMMA GuestInitNever ==
  ASSUME ServersAreReal, Pid1!Inv, [Pid1!Next]_(Pid1!vars)
  PROVE  Pid1!Never
<1>1. CASE UNCHANGED Pid1!vars
  BY <1>1 DEF Pid1!vars, Pid1!bootVars, Pid1!netVars, Pid1!procVars, Pid1!Never, Pid1!ImageKeepsItsOwn,
         Pid1!SignalsGoOn, Pid1!Signals
<1>2. CASE Pid1!MountPseudoFilesystems
  BY <1>2 DEF Pid1!MountPseudoFilesystems, Pid1!bootVars, Pid1!netVars, Pid1!procVars, Pid1!Never,
         Pid1!ImageKeepsItsOwn, Pid1!SignalsGoOn, Pid1!Signals, Pid1!Inv, Pid1!WriteInv
<1>3. ASSUME NEW c \in Pid1!Configs, Pid1!ReadConfig(c) PROVE Pid1!Never
  BY <1>3 DEF Pid1!ReadConfig, Pid1!netVars, Pid1!procVars, Pid1!Never, Pid1!ImageKeepsItsOwn, Pid1!SignalsGoOn,
         Pid1!Signals, Pid1!Inv, Pid1!WriteInv
<1>4. CASE Pid1!GrowRootFilesystem
  BY <1>4, SizesAreNat DEF Pid1!GrowRootFilesystem, Pid1!netVars, Pid1!procVars, Pid1!ResizeTarget,
         Pid1!Configs, Pid1!Never, Pid1!ImageKeepsItsOwn, Pid1!SignalsGoOn, Pid1!Signals, Pid1!Inv,
         Pid1!WriteInv
<1>5. CASE Pid1!ConfigureNetwork
  BY <1>5 DEF Pid1!ConfigureNetwork, Pid1!bootVars, Pid1!netVars, Pid1!procVars, Pid1!Never,
         Pid1!ImageKeepsItsOwn, Pid1!SignalsGoOn, Pid1!Signals, Pid1!Inv, Pid1!WriteInv
<1>6. ASSUME NEW p \in Pid1!Packets, Pid1!TakeOffer(p) PROVE Pid1!Never
  BY <1>6 DEF Pid1!TakeOffer, Pid1!bootVars, Pid1!procVars, Pid1!Awaits, Pid1!Heard, Pid1!Never,
         Pid1!ImageKeepsItsOwn, Pid1!SignalsGoOn, Pid1!Signals, Pid1!Inv, Pid1!WriteInv
<1>7. ASSUME NEW p \in Pid1!Packets, Pid1!TakeAck(p) PROVE Pid1!Never
  BY <1>7, Servers DEF Pid1!TakeAck, Pid1!bootVars, Pid1!procVars, Pid1!Awaits, Pid1!Heard, Pid1!EndExchange,
         Pid1!Packets, Pid1!Own, Pid1!Never, Pid1!ImageKeepsItsOwn, Pid1!SignalsGoOn, Pid1!Signals, Pid1!Inv,
         Pid1!WriteInv
<1>8. CASE Pid1!GiveUp
  BY <1>8 DEF Pid1!GiveUp, Pid1!bootVars, Pid1!procVars, Pid1!EndExchange, Pid1!Never, Pid1!ImageKeepsItsOwn,
         Pid1!SignalsGoOn, Pid1!Signals, Pid1!Inv, Pid1!WriteInv
<1>9. CASE Pid1!ApplyLease
  BY <1>9 DEF Pid1!ApplyLease, Pid1!bootVars, Pid1!netVars, Pid1!procVars, Pid1!Never, Pid1!ImageKeepsItsOwn,
         Pid1!SignalsGoOn, Pid1!Signals, Pid1!Inv, Pid1!WriteInv
<1>10. CASE Pid1!WriteResolv
  BY <1>10 DEF Pid1!WriteResolv, Pid1!netVars, Pid1!procVars, Pid1!WriteIfAbsent, Pid1!BeginWrite, Pid1!Texts,
         Pid1!Never, Pid1!ImageKeepsItsOwn, Pid1!SignalsGoOn, Pid1!Signals, Pid1!Inv, Pid1!WriteInv
<1>11. CASE Pid1!WriteHosts
  BY <1>11 DEF Pid1!WriteHosts, Pid1!netVars, Pid1!procVars, Pid1!WriteIfAbsent, Pid1!BeginWrite, Pid1!Texts,
         Pid1!Never, Pid1!ImageKeepsItsOwn, Pid1!SignalsGoOn, Pid1!Signals, Pid1!Inv, Pid1!WriteInv
<1>12. CASE Pid1!WriteStaticHosts
  BY <1>12 DEF Pid1!WriteStaticHosts, Pid1!netVars, Pid1!procVars, Pid1!WriteIfAbsent, Pid1!BeginWrite,
         Pid1!Texts, Pid1!Never, Pid1!ImageKeepsItsOwn, Pid1!SignalsGoOn, Pid1!Signals, Pid1!Inv, Pid1!WriteInv
<1>13. CASE Pid1!WriteText
  BY <1>13 DEF Pid1!WriteText, Pid1!netVars, Pid1!procVars, Pid1!Never, Pid1!ImageKeepsItsOwn, Pid1!SignalsGoOn,
         Pid1!Signals, Pid1!Inv, Pid1!WriteInv
<1>14. CASE Pid1!Plan
  BY <1>14 DEF Pid1!Plan, Pid1!bootVars, Pid1!netVars, Pid1!procVars, Pid1!Never, Pid1!ImageKeepsItsOwn,
         Pid1!SignalsGoOn, Pid1!Signals, Pid1!Inv, Pid1!WriteInv
<1>15. CASE Pid1!BlockSignals
  BY <1>15 DEF Pid1!BlockSignals, Pid1!bootVars, Pid1!Never, Pid1!ImageKeepsItsOwn, Pid1!SignalsGoOn,
         Pid1!Signals, Pid1!Inv, Pid1!WriteInv
<1>16. CASE Pid1!SpawnChild
  BY <1>16 DEF Pid1!SpawnChild, Pid1!bootVars, Pid1!netVars, Pid1!Never, Pid1!ImageKeepsItsOwn,
         Pid1!SignalsGoOn, Pid1!Signals, Pid1!Inv, Pid1!WriteInv
<1>17. CASE Pid1!PowerOff
  BY <1>17 DEF Pid1!PowerOff, Pid1!bootVars, Pid1!netVars, Pid1!procVars, Pid1!Never, Pid1!ImageKeepsItsOwn,
         Pid1!SignalsGoOn, Pid1!Signals, Pid1!Inv, Pid1!WriteInv
<1>18. CASE Pid1!ReadChild
  BY <1>18 DEF Pid1!ReadChild, Pid1!bootVars, Pid1!netVars, Pid1!Reap, Pid1!Never, Pid1!ImageKeepsItsOwn,
         Pid1!SignalsGoOn, Pid1!Signals, Pid1!Inv, Pid1!WriteInv
<1>19. ASSUME NEW sig, Pid1!Forward(sig) PROVE Pid1!Never
  BY <1>19 DEF Pid1!Forward, Pid1!bootVars, Pid1!netVars, Pid1!Never, Pid1!ImageKeepsItsOwn, Pid1!SignalsGoOn,
         Pid1!Signals, Pid1!Inv, Pid1!WriteInv
<1>20. CASE Pid1!Tick
  BY <1>20 DEF Pid1!Tick, Pid1!bootVars, Pid1!procVars, Pid1!Never, Pid1!ImageKeepsItsOwn, Pid1!SignalsGoOn,
         Pid1!Signals, Pid1!Inv, Pid1!WriteInv
<1>21. ASSUME NEW p \in Pid1!Packets, Pid1!Deliver(p) PROVE Pid1!Never
  BY <1>21, Servers DEF Pid1!Deliver, Pid1!bootVars, Pid1!procVars, Pid1!Packets, Pid1!Own, Pid1!Never,
         Pid1!ImageKeepsItsOwn, Pid1!SignalsGoOn, Pid1!Signals, Pid1!Inv, Pid1!WriteInv
<1>22. ASSUME NEW sig, Pid1!Send(sig) PROVE Pid1!Never
  BY <1>22 DEF Pid1!Send, Pid1!bootVars, Pid1!netVars, Pid1!Never, Pid1!ImageKeepsItsOwn, Pid1!SignalsGoOn,
         Pid1!Signals, Pid1!Inv, Pid1!WriteInv
<1>23. ASSUME NEW o, Pid1!Leave(o) PROVE Pid1!Never
  BY <1>23 DEF Pid1!Leave, Pid1!bootVars, Pid1!netVars, Pid1!Never, Pid1!ImageKeepsItsOwn, Pid1!SignalsGoOn,
         Pid1!Signals, Pid1!Inv, Pid1!WriteInv
<1>24. ASSUME NEW p, Pid1!End(p) PROVE Pid1!Never
  BY <1>24 DEF Pid1!End, Pid1!bootVars, Pid1!netVars, Pid1!Never, Pid1!ImageKeepsItsOwn, Pid1!SignalsGoOn,
         Pid1!Signals, Pid1!Inv, Pid1!WriteInv
<1>25. ASSUME NEW size \in DiskSizes, Pid1!Boot(size) PROVE Pid1!Never
  BY <1>25, SizesAreNat DEF Pid1!Boot, Pid1!Never, Pid1!ImageKeepsItsOwn, Pid1!SignalsGoOn, Pid1!Signals,
         Pid1!Inv, Pid1!WriteInv
<1> QED
  BY <1>1, <1>2, <1>3, <1>4, <1>5, <1>6, <1>7, <1>8, <1>9, <1>10, <1>11, <1>12, <1>13, <1>14, <1>15, <1>16,
         <1>17, <1>18, <1>19, <1>20, <1>21, <1>22, <1>23, <1>24, <1>25 DEF Pid1!Next, Pid1!Step, Pid1!Supervise,
         Pid1!Environment, Pid1!Inv, Pid1!LeaseInv

LeaseDisk == {3}

\* The same with two DHCP servers on its link.
Lease == INSTANCE GuestInit WITH
    Servers <- Peer, Orphans <- {}, Budget <- 1, BlockSize <- 2, Sizes <- LeaseDisk, MaxBoots <- 1, Faults <- TRUE,
    pc <- v1, conf <- v2, device <- v3, fs <- v4, files <- v5, write <- v6, now <- v7, net <- v8, asked <- v9,
    offer <- v10, lease <- v11, acked <- v12, pend <- v13, masked <- v14, proc <- v15, got <- v16, childMask <- v17,
    boots <- v18

\* No server is the mark for "no server".
LEMMA LeaseServers == ServersAreReal => Lease!None \notin Peer
BY DEF ServersAreReal, Pid1!None, Lease!None

\* The disk has a size.
LEMMA LeaseDiskIsNat == LeaseDisk \subseteq Nat
BY DEF LeaseDisk

\* The invariant of the lease of a guest holds at first.
LEMMA GuestLeaseBegin == ServersAreReal /\ Lease!Init => Lease!Inv
BY LeaseServers, LeaseDiskIsNat DEF Lease!Init, Lease!Inv, Lease!LeaseInv, Lease!LeaseIsGranted,
       Lease!WriteInv, Lease!Texts,
   Lease!DiskInv, Lease!FsFitsDevice

\* Every step of the lease of a guest keeps it.
LEMMA GuestLeaseStepInv ==
  ASSUME ServersAreReal, Lease!Inv, [Lease!Next]_(Lease!vars)
  PROVE  Lease!Inv'
<1>1. CASE UNCHANGED Lease!vars
  BY <1>1 DEF Lease!vars, Lease!bootVars, Lease!netVars, Lease!procVars, Lease!Inv, Lease!LeaseInv,
         Lease!LeaseIsGranted, Lease!WriteInv, Lease!Texts, Lease!DiskInv, Lease!FsFitsDevice
<1>2. CASE Lease!MountPseudoFilesystems
  BY <1>2 DEF Lease!MountPseudoFilesystems, Lease!bootVars, Lease!netVars, Lease!procVars, Lease!Inv,
         Lease!LeaseInv,
         Lease!LeaseIsGranted, Lease!WriteInv, Lease!Texts, Lease!DiskInv, Lease!FsFitsDevice
<1>3. ASSUME NEW c \in Lease!Configs, Lease!ReadConfig(c) PROVE Lease!Inv'
  BY <1>3 DEF Lease!ReadConfig, Lease!netVars, Lease!procVars, Lease!Inv, Lease!LeaseInv, Lease!LeaseIsGranted,
         Lease!WriteInv, Lease!Texts, Lease!DiskInv, Lease!FsFitsDevice
<1>4. CASE Lease!GrowRootFilesystem
  <2>1. Lease!LeaseInv'
    BY <1>4, LeaseDiskIsNat DEF Lease!GrowRootFilesystem, Lease!netVars, Lease!procVars, Lease!ResizeTarget,
           Lease!Configs, Lease!Inv, Lease!LeaseInv, Lease!WriteInv, Lease!DiskInv, Lease!LeaseIsGranted
  <2>2. Lease!WriteInv'
    BY <1>4, LeaseDiskIsNat DEF Lease!GrowRootFilesystem, Lease!netVars, Lease!procVars, Lease!ResizeTarget,
           Lease!Configs, Lease!Inv, Lease!LeaseInv, Lease!WriteInv, Lease!DiskInv, Lease!Texts
  <2>3. Lease!DiskInv'
    <3>1. ASSUME NEW r \in Nat, NEW a \in Nat, NEW f \in Nat, f * 2 <= a
          PROVE  Lease!ResizeTarget(r, a, f) \in Nat /\ Lease!ResizeTarget(r, a, f) * 2 <= a
      BY <3>1 DEF Lease!ResizeTarget
    <3>2. \A c \in Lease!Configs : c.size \in Nat
      BY LeaseDiskIsNat DEF Lease!Configs
    <3>3. Lease!DiskInv /\ Lease!FsFitsDevice
      BY DEF Lease!Inv, Lease!DiskInv
    <3>4. \A c \in Lease!Configs, a, f \in Nat : f * 2 <= a =>
             Lease!ResizeTarget(c.size, a, f) \in Nat /\ Lease!ResizeTarget(c.size, a, f) * 2 <= a
      BY <3>1, <3>2
    <3>5. v3 \in Nat /\ v3' \in Nat /\ v4' \in Nat /\ v2' \in Lease!Configs
      BY <1>4, <3>3, <3>4 DEF Lease!GrowRootFilesystem, Lease!DiskInv, Lease!FsFitsDevice
    <3>6. v4' * 2 <= v3'
      BY <1>4, <3>3, <3>4 DEF Lease!GrowRootFilesystem, Lease!DiskInv, Lease!FsFitsDevice
    <3>7. Lease!Configs' = Lease!Configs
      BY DEF Lease!Configs
    <3> QED BY <3>5, <3>6, <3>7 DEF Lease!DiskInv, Lease!FsFitsDevice
  <2> QED BY <2>1, <2>2, <2>3 DEF Lease!Inv
<1>5. CASE Lease!ConfigureNetwork
  BY <1>5 DEF Lease!ConfigureNetwork, Lease!bootVars, Lease!netVars, Lease!procVars, Lease!Inv, Lease!LeaseInv,
         Lease!LeaseIsGranted, Lease!WriteInv, Lease!Texts, Lease!DiskInv, Lease!FsFitsDevice
<1>6. ASSUME NEW p \in Lease!Packets, Lease!TakeOffer(p) PROVE Lease!Inv'
  BY <1>6 DEF Lease!TakeOffer, Lease!bootVars, Lease!procVars, Lease!Awaits, Lease!Heard, Lease!Inv,
         Lease!LeaseInv,
         Lease!LeaseIsGranted, Lease!WriteInv, Lease!Texts, Lease!DiskInv, Lease!FsFitsDevice
<1>7. ASSUME NEW p \in Lease!Packets, Lease!TakeAck(p) PROVE Lease!Inv'
  <2>1. Lease!LeaseInv'
    BY <1>7, LeaseServers DEF Lease!TakeAck, Lease!bootVars, Lease!procVars, Lease!Awaits, Lease!Heard,
           Lease!EndExchange,
           Lease!Packets, Lease!Own, Lease!Inv, Lease!LeaseInv, Lease!WriteInv, Lease!DiskInv, Lease!LeaseIsGranted
  <2>2. Lease!WriteInv'
    BY <1>7, LeaseServers DEF Lease!TakeAck, Lease!bootVars, Lease!procVars, Lease!Awaits, Lease!Heard,
           Lease!EndExchange,
           Lease!Packets, Lease!Own, Lease!Inv, Lease!LeaseInv, Lease!WriteInv, Lease!DiskInv, Lease!Texts
  <2>3. Lease!DiskInv'
    BY <1>7, LeaseServers DEF Lease!TakeAck, Lease!bootVars, Lease!procVars, Lease!Awaits, Lease!Heard,
           Lease!EndExchange,
           Lease!Packets, Lease!Own, Lease!Inv, Lease!LeaseInv, Lease!WriteInv, Lease!DiskInv, Lease!FsFitsDevice
  <2> QED BY <2>1, <2>2, <2>3 DEF Lease!Inv
<1>8. CASE Lease!GiveUp
  BY <1>8 DEF Lease!GiveUp, Lease!bootVars, Lease!procVars, Lease!EndExchange, Lease!Inv, Lease!LeaseInv,
         Lease!LeaseIsGranted, Lease!WriteInv, Lease!Texts, Lease!DiskInv, Lease!FsFitsDevice
<1>9. CASE Lease!ApplyLease
  BY <1>9 DEF Lease!ApplyLease, Lease!bootVars, Lease!netVars, Lease!procVars, Lease!Inv, Lease!LeaseInv,
         Lease!LeaseIsGranted, Lease!WriteInv, Lease!Texts, Lease!DiskInv, Lease!FsFitsDevice
<1>10. CASE Lease!WriteResolv
  BY <1>10 DEF Lease!WriteResolv, Lease!netVars, Lease!procVars, Lease!WriteIfAbsent, Lease!BeginWrite,
         Lease!Texts,
         Lease!Inv, Lease!LeaseInv, Lease!LeaseIsGranted, Lease!WriteInv, Lease!DiskInv, Lease!FsFitsDevice
<1>11. CASE Lease!WriteHosts
  BY <1>11 DEF Lease!WriteHosts, Lease!netVars, Lease!procVars, Lease!WriteIfAbsent, Lease!BeginWrite,
         Lease!Texts,
         Lease!Inv, Lease!LeaseInv, Lease!LeaseIsGranted, Lease!WriteInv, Lease!DiskInv, Lease!FsFitsDevice
<1>12. CASE Lease!WriteStaticHosts
  BY <1>12 DEF Lease!WriteStaticHosts, Lease!netVars, Lease!procVars, Lease!WriteIfAbsent, Lease!BeginWrite,
         Lease!Texts, Lease!Inv, Lease!LeaseInv, Lease!LeaseIsGranted, Lease!WriteInv, Lease!DiskInv,
         Lease!FsFitsDevice
<1>13. CASE Lease!WriteText
  BY <1>13 DEF Lease!WriteText, Lease!netVars, Lease!procVars, Lease!Inv, Lease!LeaseInv, Lease!LeaseIsGranted,
         Lease!WriteInv, Lease!Texts, Lease!DiskInv, Lease!FsFitsDevice
<1>14. CASE Lease!Plan
  BY <1>14 DEF Lease!Plan, Lease!bootVars, Lease!netVars, Lease!procVars, Lease!Inv, Lease!LeaseInv,
         Lease!LeaseIsGranted, Lease!WriteInv, Lease!Texts, Lease!DiskInv, Lease!FsFitsDevice
<1>15. CASE Lease!BlockSignals
  BY <1>15 DEF Lease!BlockSignals, Lease!bootVars, Lease!Inv, Lease!LeaseInv, Lease!LeaseIsGranted,
         Lease!WriteInv,
         Lease!Texts, Lease!DiskInv, Lease!FsFitsDevice
<1>16. CASE Lease!SpawnChild
  BY <1>16 DEF Lease!SpawnChild, Lease!bootVars, Lease!netVars, Lease!Inv, Lease!LeaseInv, Lease!LeaseIsGranted,
         Lease!WriteInv, Lease!Texts, Lease!DiskInv, Lease!FsFitsDevice
<1>17. CASE Lease!PowerOff
  BY <1>17 DEF Lease!PowerOff, Lease!bootVars, Lease!netVars, Lease!procVars, Lease!Inv, Lease!LeaseInv,
         Lease!LeaseIsGranted, Lease!WriteInv, Lease!Texts, Lease!DiskInv, Lease!FsFitsDevice
<1>18. CASE Lease!ReadChild
  BY <1>18 DEF Lease!ReadChild, Lease!bootVars, Lease!netVars, Lease!Reap, Lease!Inv, Lease!LeaseInv,
         Lease!LeaseIsGranted, Lease!WriteInv, Lease!Texts, Lease!DiskInv, Lease!FsFitsDevice
<1>19. ASSUME NEW sig, Lease!Forward(sig) PROVE Lease!Inv'
  BY <1>19 DEF Lease!Forward, Lease!bootVars, Lease!netVars, Lease!Inv, Lease!LeaseInv, Lease!LeaseIsGranted,
         Lease!WriteInv, Lease!Texts, Lease!DiskInv, Lease!FsFitsDevice
<1>20. CASE Lease!Tick
  BY <1>20 DEF Lease!Tick, Lease!bootVars, Lease!procVars, Lease!Inv, Lease!LeaseInv, Lease!LeaseIsGranted,
         Lease!WriteInv, Lease!Texts, Lease!DiskInv, Lease!FsFitsDevice
<1>21. ASSUME NEW p \in Lease!Packets, Lease!Deliver(p) PROVE Lease!Inv'
  <2>1. Lease!LeaseInv'
    BY <1>21, LeaseServers DEF Lease!Deliver, Lease!bootVars, Lease!procVars, Lease!Packets, Lease!Own,
           Lease!Inv,
           Lease!LeaseInv, Lease!WriteInv, Lease!DiskInv, Lease!LeaseIsGranted
  <2>2. Lease!WriteInv'
    BY <1>21, LeaseServers DEF Lease!Deliver, Lease!bootVars, Lease!procVars, Lease!Packets, Lease!Own,
           Lease!Inv,
           Lease!LeaseInv, Lease!WriteInv, Lease!DiskInv, Lease!Texts
  <2>3. Lease!DiskInv'
    BY <1>21, LeaseServers DEF Lease!Deliver, Lease!bootVars, Lease!procVars, Lease!Packets, Lease!Own,
           Lease!Inv,
           Lease!LeaseInv, Lease!WriteInv, Lease!DiskInv, Lease!FsFitsDevice
  <2> QED BY <2>1, <2>2, <2>3 DEF Lease!Inv
<1>22. ASSUME NEW sig, Lease!Send(sig) PROVE Lease!Inv'
  BY <1>22 DEF Lease!Send, Lease!bootVars, Lease!netVars, Lease!Inv, Lease!LeaseInv, Lease!LeaseIsGranted,
         Lease!WriteInv, Lease!Texts, Lease!DiskInv, Lease!FsFitsDevice
<1>23. ASSUME NEW o, Lease!Leave(o) PROVE Lease!Inv'
  BY <1>23 DEF Lease!Leave, Lease!bootVars, Lease!netVars, Lease!Inv, Lease!LeaseInv, Lease!LeaseIsGranted,
         Lease!WriteInv, Lease!Texts, Lease!DiskInv, Lease!FsFitsDevice
<1>24. ASSUME NEW p, Lease!End(p) PROVE Lease!Inv'
  BY <1>24 DEF Lease!End, Lease!bootVars, Lease!netVars, Lease!Inv, Lease!LeaseInv, Lease!LeaseIsGranted,
         Lease!WriteInv, Lease!Texts, Lease!DiskInv, Lease!FsFitsDevice
<1>25. ASSUME NEW size \in LeaseDisk, Lease!Boot(size) PROVE Lease!Inv'
  <2>1. Lease!LeaseInv'
    BY <1>25, LeaseDiskIsNat DEF Lease!Boot, Lease!Inv, Lease!LeaseInv, Lease!WriteInv, Lease!DiskInv,
           Lease!LeaseIsGranted
  <2>2. Lease!WriteInv'
    BY <1>25, LeaseDiskIsNat DEF Lease!Boot, Lease!Inv, Lease!LeaseInv, Lease!WriteInv, Lease!DiskInv,
           Lease!Texts
  <2>3. Lease!DiskInv'
    BY <1>25, LeaseDiskIsNat DEF Lease!Boot, Lease!Inv, Lease!LeaseInv, Lease!WriteInv, Lease!DiskInv,
           Lease!FsFitsDevice
  <2> QED BY <2>1, <2>2, <2>3 DEF Lease!Inv
<1> QED
  BY <1>1, <1>2, <1>3, <1>4, <1>5, <1>6, <1>7, <1>8, <1>9, <1>10, <1>11, <1>12, <1>13, <1>14, <1>15, <1>16,
         <1>17, <1>18, <1>19, <1>20, <1>21, <1>22, <1>23, <1>24, <1>25 DEF Lease!Next, Lease!Step, Lease!Supervise,
         Lease!Environment, Lease!Inv, Lease!LeaseInv

\* It implies what is promised of the lease of a guest.
LEMMA GuestLeaseKept == Lease!Inv => Lease!LeaseIsGranted
BY DEF Lease!Inv, Lease!LeaseInv

Geometries == 0..2

\* A WebSocket to a console or a shell.
Term == INSTANCE TerminalBridge WITH
    MaxOut <- MaxOut, MaxTyped <- MaxTyped, MaxText <- 1, Room <- 1, Sizes <- Geometries,
    route <- v1, machine <- v2, pc <- v3, answer <- v4, far <- v5, child <- v6, out <- v7, wrote <- v8, input <- v9,
    took <- v10, net <- v11, typed <- v12, texts <- v13, client <- v14, inbound <- v15, held <- v16,
    outbound <- v17, chunk <- v18, screen <- v19, frame <- v20, size <- v21, told <- v22

\* What a bridge keeps of its input: numbered bytes taken, waiting and on their way, no more than
\* were typed.
LEMMA InputTyped ==
  ASSUME Term!InInv
  PROVE  /\ v12 \in Nat /\ v10 \in Seq(Nat) /\ v9 \in Seq(Nat) /\ v11 \in Seq(Term!Frames)
         /\ Len(v10) \in Nat /\ Len(v9) \in Nat /\ Len(v10) + Len(v9) <= v12
<1>1. v12 \in Nat
  BY DEF Term!InInv
<1>2. v10 \in Seq(Nat)
  BY DEF Term!InInv
<1>3. v9 \in Seq(Nat)
  BY DEF Term!InInv
<1>4. v11 \in Seq(Term!Frames)
  BY DEF Term!InInv
<1>5. Len(v10) \in Nat /\ Len(v9) \in Nat
  BY <1>2, <1>3
<1>6. Len(v10) + Len(v9) <= v12
  BY DEF Term!InInv
<1> QED BY <1>1, <1>2, <1>3, <1>4, <1>5, <1>6
\* The frames on their way stay the bytes after b when the next byte is typed.
LEMMA FollowTyped ==
  ASSUME NEW s \in Seq(Term!Frames), NEW b \in Nat, NEW n \in Nat, b <= n, Term!Follow(s, b, n)
  PROVE  /\ Append(s, Term!Binary(n + 1)) \in Seq(Term!Frames)
         /\ Term!Follow(Append(s, Term!Binary(n + 1)), b, n + 1)
<1> DEFINE t == Append(s, Term!Binary(n + 1))
<1>1. Term!Binary(n + 1) \in Term!Frames /\ Term!Binary(n + 1).kind = "binary" /\ Term!Binary(n + 1).n = n + 1
  BY DEF Term!Binary, Term!Frames
<1>2. /\ t \in Seq(Term!Frames) /\ DOMAIN t = 1..(Len(s) + 1) /\ DOMAIN s = 1..Len(s)
      /\ t[Len(s) + 1] = Term!Binary(n + 1) /\ \A i \in DOMAIN s : t[i] = s[i]
  BY <1>1
<1> HIDE DEF t
<1>3. \A i \in DOMAIN s : s[i] \in Term!Frames
  OBVIOUS
<1>4. \A i \in DOMAIN s : s[i].n \in Nat
  BY <1>3 DEF Term!Frames
<1>5. \A i \in DOMAIN t : t[i].kind = "binary" => b < t[i].n /\ t[i].n <= n + 1
  BY <1>1, <1>2, <1>4 DEF Term!Follow
<1>6. \A i, j \in DOMAIN t : i < j /\ t[i].kind = "binary" /\ t[j].kind = "binary" => t[i].n < t[j].n
  BY <1>1, <1>2, <1>4 DEF Term!Follow
<1>7. ASSUME NEW m \in b + 1 .. n + 1 PROVE \E i \in DOMAIN t : t[i].kind = "binary" /\ t[i].n = m
  <2>1. CASE m = n + 1
    BY <1>1, <1>2, <2>1
  <2>2. CASE m # n + 1
    <3>1. m \in b + 1 .. n
      BY <2>2
    <3> QED BY SMTT(30), <1>2, <3>1 DEF Term!Follow
  <2> QED BY <2>1, <2>2
<1> QED BY <1>2, <1>5, <1>6, <1>7 DEF Term!Follow, t
\* So they do when a frame that carries no bytes is added.
LEMMA FollowOther ==
  ASSUME NEW s \in Seq(Term!Frames), NEW b \in Nat, NEW n \in Nat, Term!Follow(s, b, n),
         NEW m \in Term!Frames, m.kind # "binary"
  PROVE  Append(s, m) \in Seq(Term!Frames) /\ Term!Follow(Append(s, m), b, n)
<1> DEFINE t == Append(s, m)
<1>1. /\ t \in Seq(Term!Frames) /\ DOMAIN t = 1..(Len(s) + 1) /\ DOMAIN s = 1..Len(s)
      /\ t[Len(s) + 1] = m /\ \A i \in DOMAIN s : t[i] = s[i]
  OBVIOUS
<1> HIDE DEF t
<1>2. \A i \in DOMAIN t : t[i].kind = "binary" => i \in DOMAIN s
  BY <1>1
<1>3. \A i \in DOMAIN s : i \in DOMAIN t
  BY <1>1
<1>4. \A i \in DOMAIN t : t[i].kind = "binary" => b < t[i].n /\ t[i].n <= n
  BY <1>1, <1>2 DEF Term!Follow
<1>5. \A i, j \in DOMAIN t : i < j /\ t[i].kind = "binary" /\ t[j].kind = "binary" => t[i].n < t[j].n
  BY <1>1, <1>2 DEF Term!Follow
<1>6. \A k \in b + 1 .. n : \E i \in DOMAIN t : t[i].kind = "binary" /\ t[i].n = k
  BY <1>1, <1>3 DEF Term!Follow
<1> QED BY <1>1, <1>4, <1>5, <1>6 DEF Term!Follow, t
\* The first frame is the byte after b, and the rest follow it.
LEMMA FollowTail ==
  ASSUME NEW s \in Seq(Term!Frames), NEW b \in Nat, NEW n \in Nat, Term!Follow(s, b, n), s # <<>>
  PROVE  /\ Tail(s) \in Seq(Term!Frames) /\ Head(s) \in Term!Frames
         /\ Head(s).kind = "binary" => Head(s).n = b + 1 /\ b + 1 <= n /\ Term!Follow(Tail(s), b + 1, n)
         /\ Head(s).kind # "binary" => Term!Follow(Tail(s), b, n)
<1> DEFINE t == Tail(s)
<1>1. /\ t \in Seq(Term!Frames) /\ Head(s) \in Term!Frames /\ Head(s) = s[1] /\ 1 \in DOMAIN s
      /\ Len(s) \in Nat /\ Len(s) > 0 /\ DOMAIN s = 1..Len(s) /\ DOMAIN t = 1..(Len(s) - 1)
      /\ \A i \in DOMAIN t : t[i] = s[i + 1]
  OBVIOUS
<1> HIDE DEF t
<1>2. \A i \in DOMAIN t : i + 1 \in DOMAIN s /\ i \in Nat /\ i + 1 > 1
  BY <1>1
<1>3. \A i \in DOMAIN s : i # 1 => i - 1 \in DOMAIN t /\ t[i - 1] = s[i]
  BY <1>1
<1>4. \A i \in DOMAIN s : s[i].n \in Nat
  <2>1. \A i \in DOMAIN s : s[i] \in Term!Frames
    OBVIOUS
  <2> QED BY <2>1 DEF Term!Frames
<1>5. /\ \A i \in DOMAIN s : s[i].kind = "binary" => b < s[i].n /\ s[i].n <= n
      /\ \A i, j \in DOMAIN s : i < j /\ s[i].kind = "binary" /\ s[j].kind = "binary" => s[i].n < s[j].n
      /\ \A m \in b + 1 .. n : \E i \in DOMAIN s : s[i].kind = "binary" /\ s[i].n = m
  BY DEF Term!Follow
<1>6. \A i, j \in DOMAIN t : i < j /\ t[i].kind = "binary" /\ t[j].kind = "binary" => t[i].n < t[j].n
  <2> SUFFICES ASSUME NEW i \in DOMAIN t, NEW j \in DOMAIN t, i < j, t[i].kind = "binary", t[j].kind = "binary"
               PROVE  t[i].n < t[j].n
    OBVIOUS
  <2>1. i + 1 < j + 1 /\ i + 1 \in DOMAIN s /\ j + 1 \in DOMAIN s /\ t[i] = s[i + 1] /\ t[j] = s[j + 1]
    BY <1>1, <1>2
  <2> QED BY <1>5, <2>1
<1>7. CASE s[1].kind = "binary"
  <2>1. b < s[1].n /\ s[1].n <= n
    BY <1>1, <1>5, <1>7
  <2>2. b + 1 \in b + 1 .. n
    BY <1>1, <1>4, <2>1
  <2>3. PICK i \in DOMAIN s : s[i].kind = "binary" /\ s[i].n = b + 1
    BY <1>5, <2>2
  <2>4. i = 1
    <3>1. i # 1 => s[1].n < s[i].n
      <4>1. i # 1 => 1 < i
        BY <1>1
      <4> QED BY <1>1, <1>5, <1>7, <2>3, <4>1
    <3> QED BY <1>1, <1>4, <2>1, <2>3, <3>1
  <2>5. \A j \in DOMAIN t : t[j].kind = "binary" => b + 1 < t[j].n /\ t[j].n <= n
    <3> SUFFICES ASSUME NEW j \in DOMAIN t, t[j].kind = "binary" PROVE b + 1 < t[j].n /\ t[j].n <= n
      OBVIOUS
    <3>1. 1 < j + 1 /\ j + 1 \in DOMAIN s /\ t[j] = s[j + 1]
      BY <1>1, <1>2
    <3>2. s[1].n < s[j + 1].n /\ s[j + 1].n <= n
      BY <1>1, <1>5, <1>7, <3>1
    <3> QED BY <2>3, <2>4, <3>1, <3>2
  <2>6. \A m \in (b + 1) + 1 .. n : \E j \in DOMAIN t : t[j].kind = "binary" /\ t[j].n = m
    <3> SUFFICES ASSUME NEW m \in (b + 1) + 1 .. n PROVE \E j \in DOMAIN t : t[j].kind = "binary" /\ t[j].n = m
      OBVIOUS
    <3>1. m \in b + 1 .. n /\ m # b + 1
      OBVIOUS
    <3>2. PICK j \in DOMAIN s : s[j].kind = "binary" /\ s[j].n = m
      BY <1>5, <3>1
    <3>3. j # 1
      BY <2>3, <2>4, <3>1, <3>2
    <3> QED BY <1>3, <3>2, <3>3
  <2>7. Term!Follow(t, b + 1, n)
    BY <1>6, <2>5, <2>6 DEF Term!Follow
  <2> QED BY <1>1, <1>7, <2>2, <2>3, <2>4, <2>7 DEF t
<1>8. CASE s[1].kind # "binary"
  <2>1. \A j \in DOMAIN t : t[j].kind = "binary" => b < t[j].n /\ t[j].n <= n
    BY <1>1, <1>2, <1>5
  <2>2. \A m \in b + 1 .. n : \E j \in DOMAIN t : t[j].kind = "binary" /\ t[j].n = m
    <3> SUFFICES ASSUME NEW m \in b + 1 .. n PROVE \E j \in DOMAIN t : t[j].kind = "binary" /\ t[j].n = m
      OBVIOUS
    <3>1. PICK j \in DOMAIN s : s[j].kind = "binary" /\ s[j].n = m
      BY <1>5
    <3> QED BY <1>3, <1>8, <3>1
  <2>3. Term!Follow(t, b, n)
    BY <1>6, <2>1, <2>2 DEF Term!Follow
  <2> QED BY <1>1, <1>8, <2>3 DEF t
<1> QED BY <1>7, <1>8

\* The invariant of the terminal bridge holds at first.
LEMMA TerminalBridgeBegin == Term!Init => Term!Inv
<1> SUFFICES ASSUME Term!Init PROVE Term!Inv
  OBVIOUS
<1>1. Term!StageInv
  BY DEF Term!Init, Term!StageInv, Term!NoChildLeft
<1>2. Term!OutInv
  <2>1. v7 = <<>> /\ v19 = <<>> /\ v8 = 0 /\ v17 = "off" /\ v20 = "none" /\ v3 = "request"
    BY DEF Term!Init
  <2>2. Len(v7) = 0 /\ Len(v19) = 0 /\ DOMAIN v7 = {} /\ DOMAIN v19 = {} /\ v7 \in Seq(Nat) /\ v19 \in Seq(Nat)
    BY <2>1
  <2> DEFINE sent == IF v17 = "send" THEN 1 ELSE 0
  <2>3. sent = 0
    BY <2>1
  <2>4. /\ (\A i \in DOMAIN v7 : v7[i] = v8 - Len(v7) + i) /\ (\A i \in DOMAIN v19 : v19[i] = i)
        /\ v8 \in Nat /\ Len(v7) <= v8
    BY <2>1, <2>2
  <2> HIDE DEF sent
  <2>5. Len(v19) + sent <= v8 - Len(v7) /\ Len(v19) + sent = v8 - Len(v7)
    <3>1. Len(v7) = 0 /\ Len(v19) = 0 /\ v8 = 0
      BY <2>1, <2>2
    <3> QED BY <2>3, <3>1
  <2>6. v17 # "send" /\ v20 # "1000" /\ v17 = "off" /\ v20 = "none"
    BY <2>1
  <2> USE DEF sent
  <2> QED BY <2>2, <2>4, <2>5, <2>6 DEF Term!OutInv
<1>3. Term!InInv
  <2>1. Term!Follow(<<>>, 0, 0)
    BY DEF Term!Follow
  <2> QED BY <2>1 DEF Term!Init, Term!InInv
<1> QED BY <1>1, <1>2, <1>3 DEF Term!Inv

\* Every step of the terminal bridge keeps it.
LEMMA TerminalBridgeStepInv ==
  ASSUME Term!Inv, [Term!Next]_(Term!vars)
  PROVE  Term!Inv'
<1>1. CASE UNCHANGED Term!vars
  BY <1>1 DEF Term!vars, Term!stream, Term!browser, Term!tasks, Term!seen, Term!geometry, Term!NoChildLeft,
         Term!Abort, Term!Inv, Term!StageInv, Term!OutInv, Term!InInv
<1>2. CASE Term!MachineStops
  <2>1. Term!StageInv'
    BY <1>2 DEF Term!MachineStops, Term!stream, Term!browser, Term!tasks, Term!seen, Term!geometry,
           Term!NoChildLeft, Term!Abort, Term!Inv, Term!StageInv, Term!OutInv, Term!InInv
  <2>2. Term!OutInv'
    BY <1>2 DEF Term!MachineStops, Term!stream, Term!browser, Term!tasks, Term!seen, Term!geometry,
           Term!NoChildLeft, Term!Abort, Term!Inv, Term!StageInv, Term!OutInv, Term!InInv
  <2>3. Term!InInv'
    BY <1>2 DEF Term!MachineStops, Term!stream, Term!browser, Term!tasks, Term!seen, Term!geometry,
           Term!NoChildLeft, Term!Abort, Term!Inv, Term!StageInv, Term!OutInv, Term!InInv
  <2> QED BY <2>1, <2>2, <2>3 DEF Term!Inv
<1>3. CASE Term!ShellExits
  <2>1. Term!StageInv'
    BY <1>3 DEF Term!ShellExits, Term!stream, Term!browser, Term!tasks, Term!seen, Term!geometry,
           Term!NoChildLeft, Term!Abort, Term!Inv, Term!StageInv, Term!OutInv, Term!InInv
  <2>2. Term!OutInv'
    BY <1>3 DEF Term!ShellExits, Term!stream, Term!browser, Term!tasks, Term!seen, Term!geometry,
           Term!NoChildLeft, Term!Abort, Term!Inv, Term!StageInv, Term!OutInv, Term!InInv
  <2>3. Term!InInv'
    BY <1>3 DEF Term!ShellExits, Term!stream, Term!browser, Term!tasks, Term!seen, Term!geometry,
           Term!NoChildLeft, Term!Abort, Term!Inv, Term!StageInv, Term!OutInv, Term!InInv
  <2> QED BY <2>1, <2>2, <2>3 DEF Term!Inv
<1>4. CASE Term!FarWrites
  <2>1. Term!StageInv'
    BY <1>4 DEF Term!FarWrites, Term!stream, Term!browser, Term!tasks, Term!seen, Term!geometry,
           Term!NoChildLeft, Term!Abort, Term!Inv, Term!StageInv, Term!OutInv, Term!InInv
  <2>2. Term!OutInv'
    <3>1. v8 \in Nat /\ v7 \in Seq(Nat) /\ Len(v7) <= v8 /\ \A i \in DOMAIN v7 : v7[i] = v8 - Len(v7) + i
      BY DEF Term!Inv, Term!OutInv
    <3>2. v8' = v8 + 1 /\ v7' = Append(v7, v8 + 1)
      BY <1>4 DEF Term!FarWrites
    <3>3. /\ v7' \in Seq(Nat) /\ Len(v7') = Len(v7) + 1 /\ DOMAIN v7 = 1..Len(v7) /\ DOMAIN v7' = 1..(Len(v7) + 1)
          /\ v7'[Len(v7) + 1] = v8 + 1 /\ \A i \in DOMAIN v7 : v7'[i] = v7[i]
      BY <3>1, <3>2
    <3>4. v8' - Len(v7') = v8 - Len(v7) /\ Len(v7') <= v8' /\ v8' \in Nat
      BY <3>1, <3>2, <3>3
    <3>5. ASSUME NEW i \in DOMAIN v7' PROVE v7'[i] = v8' - Len(v7') + i
      <4>1. CASE i = Len(v7) + 1
        <5>1. v8 + 1 = v8 - Len(v7) + (Len(v7) + 1)
          <6>1. Len(v7) \in Nat
            BY <3>1
          <6> QED BY <3>1, <6>1
        <5> QED BY <3>3, <3>4, <4>1, <5>1
      <4>2. CASE i # Len(v7) + 1
        <5>1. i \in DOMAIN v7
          BY <3>1, <3>3, <3>5, <4>2
        <5>2. v7[i] = v8 - Len(v7) + i
          BY <3>1, <5>1
        <5> QED BY <3>3, <3>4, <5>1, <5>2
      <4> QED BY <4>1, <4>2
    <3>6. v19' = v19 /\ v17' = v17 /\ v18' = v18 /\ v20' = v20 /\ v3' = v3 /\ v5 = "up" /\ v5' = v5
      BY <1>4 DEF Term!FarWrites, Term!seen, Term!tasks
    <3> QED BY <3>3, <3>4, <3>5, <3>6 DEF Term!Inv, Term!OutInv
  <2>3. Term!InInv'
    BY <1>4 DEF Term!FarWrites, Term!stream, Term!browser, Term!tasks, Term!seen, Term!geometry,
           Term!NoChildLeft, Term!Abort, Term!Inv, Term!StageInv, Term!OutInv, Term!InInv
  <2> QED BY <2>1, <2>2, <2>3 DEF Term!Inv
<1>5. CASE Term!ClientTypes
  <2>1. Term!StageInv'
    BY <1>5 DEF Term!ClientTypes, Term!stream, Term!browser, Term!tasks, Term!seen, Term!geometry,
           Term!NoChildLeft, Term!Abort, Term!Inv, Term!StageInv, Term!OutInv, Term!InInv
  <2>2. Term!OutInv'
    BY <1>5 DEF Term!ClientTypes, Term!stream, Term!browser, Term!tasks, Term!seen, Term!geometry,
           Term!NoChildLeft, Term!Abort, Term!Inv, Term!StageInv, Term!OutInv, Term!InInv
  <2>3. Term!InInv'
    <3>1. v12 \in Nat /\ v10 \in Seq(Nat) /\ v9 \in Seq(Nat) /\ v11 \in Seq(Term!Frames) /\ Len(v10) + Len(v9) <= v12
          /\ Len(v10) \in Nat /\ Len(v9) \in Nat
      BY InputTyped DEF Term!Inv
    <3>2. v12' = v12 + 1 /\ v11' = Append(v11, Term!Binary(v12 + 1)) /\ v12 + 1 \in Nat
          /\ UNCHANGED <<v3, v9, v10, v15, v16>>
      BY <1>5, <3>1 DEF Term!ClientTypes, Term!stream, Term!tasks
    <3>3. v11' \in Seq(Term!Frames)
      BY <3>1, <3>2 DEF Term!Binary, Term!Frames
    <3>4. \A b \in Nat : b <= v12 /\ Term!Follow(v11, b, v12) => Term!Follow(v11', b, v12')
      BY <3>1, <3>2, FollowTyped
    <3>5. v15 \in {"off", "read"} => Term!Follow(v11', Len(v10) + Len(v9), v12')
      BY <3>1, <3>4 DEF Term!Inv, Term!InInv
    <3>6. v15 = "write" => v16 = Len(v10) + Len(v9) + 1 /\ v16 <= v12 /\ Term!Follow(v11', Len(v10) + Len(v9) + 1, v12')
      BY <3>1, <3>4 DEF Term!Inv, Term!InInv
    <3>7. v12' \in Nat /\ Len(v10) + Len(v9) <= v12' /\ (v16 \in Nat /\ v16 <= v12 => v16 <= v12')
      BY <3>1, <3>2
    <3>8. v15 = "write" => v16 \in Nat
      BY <3>1, <3>6
    <3> HIDE DEF Term!Follow
    <3> QED BY <3>1, <3>2, <3>3, <3>5, <3>6, <3>7, <3>8 DEF Term!Inv, Term!InInv
  <2> QED BY <2>1, <2>2, <2>3 DEF Term!Inv
<1>6. CASE Term!ClientControls
  <2>1. Term!StageInv'
    BY <1>6 DEF Term!ClientControls, Term!stream, Term!browser, Term!tasks, Term!seen, Term!geometry,
           Term!NoChildLeft, Term!Abort, Term!Text, Term!Junk, Term!Frames, Term!Inv, Term!StageInv,
           Term!OutInv, Term!InInv
  <2>2. Term!OutInv'
    BY <1>6 DEF Term!ClientControls, Term!stream, Term!browser, Term!tasks, Term!seen, Term!geometry,
           Term!NoChildLeft, Term!Abort, Term!Text, Term!Junk, Term!Frames, Term!Inv, Term!StageInv,
           Term!OutInv, Term!InInv
  <2>3. Term!InInv'
    <3>1. v12 \in Nat /\ v10 \in Seq(Nat) /\ v9 \in Seq(Nat) /\ v11 \in Seq(Term!Frames) /\ Len(v10) + Len(v9) <= v12
          /\ Len(v10) \in Nat /\ Len(v9) \in Nat
      BY InputTyped DEF Term!Inv
    <3>2. PICK m \in Term!Frames : m.kind # "binary" /\ v11' = Append(v11, m)
      BY <1>6 DEF Term!ClientControls, Term!Text, Term!Junk, Term!Frames, Geometries
    <3>3. UNCHANGED <<v3, v9, v10, v12, v15, v16>>
      BY <1>6 DEF Term!ClientControls, Term!stream, Term!tasks
    <3>4. v11' \in Seq(Term!Frames) /\ \A b \in Nat : Term!Follow(v11, b, v12) => Term!Follow(v11', b, v12)
      <4>1. v11' \in Seq(Term!Frames)
        <5> HIDE DEF Term!Frames
        <5> QED BY <3>1, <3>2, AppendProperties
      <4>2. \A b \in Nat : Term!Follow(v11, b, v12) => Term!Follow(v11', b, v12)
        BY <3>1, <3>2, FollowOther
      <4> QED BY <4>1, <4>2
    <3>5. v15 \in {"off", "read"} => Term!Follow(v11', Len(v10) + Len(v9), v12)
      BY <3>1, <3>4 DEF Term!Inv, Term!InInv
    <3>6. v15 = "write" => v16 = Len(v10) + Len(v9) + 1 /\ v16 <= v12 /\ Term!Follow(v11', Len(v10) + Len(v9) + 1, v12)
      BY <3>1, <3>4 DEF Term!Inv, Term!InInv
    <3>7. v11' \in Seq(Term!Frames)
      BY <3>4
    <3> HIDE DEF Term!Follow, Term!Frames
    <3> QED BY <3>1, <3>3, <3>5, <3>6, <3>7 DEF Term!Inv, Term!InInv
  <2> QED BY <2>1, <2>2, <2>3 DEF Term!Inv
<1>7. CASE Term!ClientCloses
  <2>1. Term!StageInv'
    BY <1>7 DEF Term!ClientCloses, Term!stream, Term!browser, Term!tasks, Term!seen, Term!geometry,
           Term!NoChildLeft, Term!Abort, Term!Close, Term!Frames, Term!Inv, Term!StageInv, Term!OutInv,
           Term!InInv
  <2>2. Term!OutInv'
    BY <1>7 DEF Term!ClientCloses, Term!stream, Term!browser, Term!tasks, Term!seen, Term!geometry,
           Term!NoChildLeft, Term!Abort, Term!Close, Term!Frames, Term!Inv, Term!StageInv, Term!OutInv,
           Term!InInv
  <2>3. Term!InInv'
    <3>1. v12 \in Nat /\ v10 \in Seq(Nat) /\ v9 \in Seq(Nat) /\ v11 \in Seq(Term!Frames) /\ Len(v10) + Len(v9) <= v12
          /\ Len(v10) \in Nat /\ Len(v9) \in Nat
      BY InputTyped DEF Term!Inv
    <3>2. PICK m \in Term!Frames : m.kind # "binary" /\ v11' = Append(v11, m)
      BY <1>7 DEF Term!ClientCloses, Term!Close, Term!Frames, Geometries
    <3>3. UNCHANGED <<v3, v9, v10, v12, v15, v16>>
      BY <1>7 DEF Term!ClientCloses, Term!stream, Term!tasks
    <3>4. v11' \in Seq(Term!Frames) /\ \A b \in Nat : Term!Follow(v11, b, v12) => Term!Follow(v11', b, v12)
      <4>1. v11' \in Seq(Term!Frames)
        <5> HIDE DEF Term!Frames
        <5> QED BY <3>1, <3>2, AppendProperties
      <4>2. \A b \in Nat : Term!Follow(v11, b, v12) => Term!Follow(v11', b, v12)
        BY <3>1, <3>2, FollowOther
      <4> QED BY <4>1, <4>2
    <3>5. v15 \in {"off", "read"} => Term!Follow(v11', Len(v10) + Len(v9), v12)
      BY <3>1, <3>4 DEF Term!Inv, Term!InInv
    <3>6. v15 = "write" => v16 = Len(v10) + Len(v9) + 1 /\ v16 <= v12 /\ Term!Follow(v11', Len(v10) + Len(v9) + 1, v12)
      BY <3>1, <3>4 DEF Term!Inv, Term!InInv
    <3>7. v11' \in Seq(Term!Frames)
      BY <3>4
    <3> HIDE DEF Term!Follow, Term!Frames
    <3> QED BY <3>1, <3>3, <3>5, <3>6, <3>7 DEF Term!Inv, Term!InInv
  <2> QED BY <2>1, <2>2, <2>3 DEF Term!Inv
<1>8. CASE Term!FarReads
  <2>1. Term!StageInv'
    BY <1>8 DEF Term!FarReads, Term!stream, Term!browser, Term!tasks, Term!seen, Term!geometry,
           Term!NoChildLeft, Term!Abort, Term!Inv, Term!StageInv, Term!OutInv, Term!InInv
  <2>2. Term!OutInv'
    BY <1>8 DEF Term!FarReads, Term!stream, Term!browser, Term!tasks, Term!seen, Term!geometry,
           Term!NoChildLeft, Term!Abort, Term!Inv, Term!StageInv, Term!OutInv, Term!InInv
  <2>3. Term!InInv'
    <3>1. v12 \in Nat /\ v10 \in Seq(Nat) /\ v9 \in Seq(Nat) /\ v11 \in Seq(Term!Frames) /\ Len(v10) + Len(v9) <= v12
          /\ Len(v10) \in Nat /\ Len(v9) \in Nat
      BY InputTyped DEF Term!Inv
    <3>2. v9 # <<>> /\ v10' = Append(v10, Head(v9)) /\ v9' = Tail(v9) /\ UNCHANGED <<v3, v11, v12, v15, v16>>
      BY <1>8 DEF Term!FarReads, Term!browser, Term!tasks
    <3>3. /\ v9' \in Seq(Nat) /\ Len(v9') = Len(v9) - 1 /\ Len(v9) > 0 /\ DOMAIN v9' = 1..(Len(v9) - 1) /\ 1 \in DOMAIN v9
          /\ DOMAIN v9 = 1..Len(v9) /\ Head(v9) = v9[1] /\ \A i \in DOMAIN v9' : v9'[i] = v9[i + 1]
      BY <3>1, <3>2
    <3>4. (\A i \in DOMAIN v10 : v10[i] = i) /\ \A i \in DOMAIN v9 : v9[i] = Len(v10) + i
      BY DEF Term!Inv, Term!InInv
    <3>5. Head(v9) = Len(v10) + 1
      BY <3>3, <3>4
    <3>6. /\ v10' \in Seq(Nat) /\ Len(v10') = Len(v10) + 1 /\ DOMAIN v10' = 1..(Len(v10) + 1) /\ DOMAIN v10 = 1..Len(v10)
          /\ v10'[Len(v10) + 1] = Len(v10) + 1 /\ \A i \in DOMAIN v10 : v10'[i] = v10[i]
      BY <3>1, <3>2, <3>5
    <3>7. \A i \in DOMAIN v10' : v10'[i] = i
      BY <3>4, <3>6
    <3>8. ASSUME NEW i \in DOMAIN v9' PROVE v9'[i] = Len(v10') + i
      <4>1. i + 1 \in DOMAIN v9 /\ i \in Nat
        <5>1. i \in 1..(Len(v9) - 1)
          BY <3>3, <3>8
        <5>2. i + 1 \in 1..Len(v9) /\ i \in Nat
          BY <3>1, <5>1
        <5> QED BY <3>3, <5>2
      <4>2. v9[i + 1] = Len(v10) + (i + 1)
        BY <3>4, <4>1
      <4>3. v9'[i] = Len(v10) + (i + 1)
        BY <3>3, <4>2
      <4>4. Len(v10') + i = Len(v10) + (i + 1)
        BY <3>1, <3>6, <4>1
      <4> QED BY <4>3, <4>4
    <3>9. Len(v10') + Len(v9') = Len(v10) + Len(v9)
      BY <3>1, <3>3, <3>6
    <3> HIDE DEF Term!Follow
    <3> QED BY <3>1, <3>2, <3>3, <3>6, <3>7, <3>8, <3>9 DEF Term!Inv, Term!InInv
  <2> QED BY <2>1, <2>2, <2>3 DEF Term!Inv
<1>9. CASE Term!OutRead
  <2>1. Term!StageInv'
    BY <1>9 DEF Term!OutRead, Term!stream, Term!browser, Term!tasks, Term!seen, Term!geometry, Term!NoChildLeft,
           Term!Abort, Term!AtEnd, Term!Inv, Term!StageInv, Term!OutInv, Term!InInv
  <2>2. Term!OutInv'
    <3>1. v8 \in Nat /\ v7 \in Seq(Nat) /\ Len(v7) <= v8 /\ (\A i \in DOMAIN v7 : v7[i] = v8 - Len(v7) + i)
          /\ v17 = "read" /\ v3 = "relay" /\ v19 \in Seq(Nat) /\ Len(v19) = v8 - Len(v7)
      BY <1>9 DEF Term!OutRead, Term!Inv, Term!OutInv
    <3>2. v19' = v19 /\ v8' = v8 /\ v5' = v5 /\ v3' = v3 /\ v20' = v20 /\ v20 # "1000"
      BY <1>9 DEF Term!OutRead, Term!seen, Term!Inv, Term!OutInv
    <3>3. CASE v7 # <<>> /\ v18' = Head(v7) /\ v7' = Tail(v7) /\ v17' = "send"
      <4>1. /\ v7' \in Seq(Nat) /\ Len(v7') = Len(v7) - 1 /\ DOMAIN v7' = 1..(Len(v7) - 1) /\ DOMAIN v7 = 1..Len(v7)
            /\ Len(v7) \in Nat /\ Len(v7) > 0 /\ v18' = v7[1] /\ 1 \in DOMAIN v7 /\ \A i \in DOMAIN v7' : v7'[i] = v7[i + 1]
        BY <3>1, <3>3
      <4>2. v18' = Len(v19) + 1 /\ v8 - Len(v7') = v8 - Len(v7) + 1 /\ Len(v7') <= v8
        <5>1. v7[1] = v8 - Len(v7) + 1
          BY <3>1, <4>1
        <5>2. v8 - (Len(v7) - 1) = v8 - Len(v7) + 1 /\ Len(v7) - 1 <= v8
          <6> DEFINE k == Len(v7)
          <6>1. k \in Nat /\ k <= v8
            BY <3>1, <4>1
          <6> HIDE DEF k
          <6>2. v8 - (k - 1) = v8 - k + 1 /\ k - 1 <= v8
            BY <3>1, <6>1
          <6> QED BY <6>2 DEF k
        <5> QED BY <3>1, <4>1, <5>1, <5>2
      <4>3. ASSUME NEW i \in DOMAIN v7' PROVE v7'[i] = v8 - Len(v7') + i
        <5>1. i + 1 \in DOMAIN v7 /\ i \in Nat
          BY <4>1
        <5>2. v7[i + 1] = v8 - Len(v7) + (i + 1)
          BY <3>1, <5>1
        <5> QED BY SMTT(30), <3>1, <4>1, <4>2, <5>1, <5>2
      <4>4. Len(v19') + 1 = v8' - Len(v7')
        BY <3>1, <3>2, <4>2
      <4> QED BY <3>1, <3>2, <3>3, <4>1, <4>2, <4>3, <4>4 DEF Term!Inv, Term!OutInv
    <3>4. CASE Term!AtEnd /\ v17' = "eof" /\ UNCHANGED <<v18, v7>>
      BY <3>1, <3>2, <3>4 DEF Term!AtEnd, Term!Inv, Term!OutInv
    <3>5. CASE v5 = "down" /\ v17' = "failed" /\ UNCHANGED <<v18, v7>>
      BY <3>1, <3>2, <3>5 DEF Term!Inv, Term!OutInv
    <3> QED BY <1>9, <3>3, <3>4, <3>5 DEF Term!OutRead
  <2>3. Term!InInv'
    BY <1>9 DEF Term!OutRead, Term!stream, Term!browser, Term!tasks, Term!seen, Term!geometry, Term!NoChildLeft,
           Term!Abort, Term!AtEnd, Term!Inv, Term!StageInv, Term!OutInv, Term!InInv
  <2> QED BY <2>1, <2>2, <2>3 DEF Term!Inv
<1>10. CASE Term!OutSend
  <2>1. Term!StageInv'
    BY <1>10 DEF Term!OutSend, Term!stream, Term!browser, Term!tasks, Term!seen, Term!geometry,
           Term!NoChildLeft, Term!Abort, Term!Inv, Term!StageInv, Term!OutInv, Term!InInv
  <2>2. Term!OutInv'
    <3>1. v8 \in Nat /\ v7 \in Seq(Nat) /\ Len(v7) <= v8 /\ v17 = "send" /\ v3 = "relay" /\ v19 \in Seq(Nat)
          /\ Len(v19) + 1 = v8 - Len(v7) /\ v18 = Len(v19) + 1 /\ \A i \in DOMAIN v19 : v19[i] = i
      BY <1>10 DEF Term!OutSend, Term!Inv, Term!OutInv
    <3>2. v7' = v7 /\ v8' = v8 /\ v5' = v5 /\ v3' = v3 /\ v20' = v20 /\ v20 # "1000"
      BY <1>10 DEF Term!OutSend, Term!stream, Term!Inv, Term!OutInv
    <3>3. CASE v19' = Append(v19, v18) /\ v17' = "read"
      <4>1. /\ v19' \in Seq(Nat) /\ Len(v19') = Len(v19) + 1 /\ DOMAIN v19' = 1..(Len(v19) + 1) /\ DOMAIN v19 = 1..Len(v19)
            /\ v19'[Len(v19) + 1] = Len(v19) + 1 /\ \A i \in DOMAIN v19 : v19'[i] = v19[i]
        BY <3>1, <3>3
      <4>2. \A i \in DOMAIN v19' : v19'[i] = i
        BY SMTT(30), <3>1, <4>1
      <4>3. Len(v19') = v8' - Len(v7') /\ Len(v7') <= v8'
        BY <3>1, <3>2, <4>1
      <4> QED BY <3>1, <3>2, <3>3, <4>1, <4>2, <4>3 DEF Term!Inv, Term!OutInv
    <3>4. CASE v17' = "over" /\ v19' = v19
      BY <3>1, <3>2, <3>4 DEF Term!Inv, Term!OutInv
    <3> QED BY <1>10, <3>3, <3>4 DEF Term!OutSend
  <2>3. Term!InInv'
    BY <1>10 DEF Term!OutSend, Term!stream, Term!browser, Term!tasks, Term!seen, Term!geometry,
           Term!NoChildLeft, Term!Abort, Term!Inv, Term!StageInv, Term!OutInv, Term!InInv
  <2> QED BY <2>1, <2>2, <2>3 DEF Term!Inv
<1>11. CASE Term!InRead
  <2>1. Term!StageInv'
    BY <1>11 DEF Term!InRead, Term!stream, Term!browser, Term!tasks, Term!seen, Term!geometry, Term!NoChildLeft,
           Term!Abort, Term!Control, Term!Inv, Term!StageInv, Term!OutInv, Term!InInv
  <2>2. Term!OutInv'
    BY <1>11 DEF Term!InRead, Term!stream, Term!browser, Term!tasks, Term!seen, Term!geometry, Term!NoChildLeft,
           Term!Abort, Term!Control, Term!Inv, Term!StageInv, Term!OutInv, Term!InInv
  <2>3. Term!InInv'
    <3>1. v12 \in Nat /\ v10 \in Seq(Nat) /\ v9 \in Seq(Nat) /\ v11 \in Seq(Term!Frames) /\ Len(v10) + Len(v9) <= v12
          /\ Len(v10) \in Nat /\ Len(v9) \in Nat
      BY InputTyped DEF Term!Inv
    <3>2. v15 = "read" /\ v3 = "relay" /\ v11 # <<>> /\ v11' = Tail(v11) /\ UNCHANGED <<v3, v9, v10, v12>>
          /\ Term!Follow(v11, Len(v10) + Len(v9), v12)
      BY <1>11 DEF Term!InRead, Term!stream, Term!Inv, Term!InInv
    <3> DEFINE b == Len(v10) + Len(v9)
    <3>3. /\ Tail(v11) \in Seq(Term!Frames) /\ Head(v11) \in Term!Frames
          /\ Head(v11).kind = "binary" => Head(v11).n = b + 1 /\ b + 1 <= v12 /\ Term!Follow(Tail(v11), b + 1, v12)
          /\ Head(v11).kind # "binary" => Term!Follow(Tail(v11), b, v12)
      <4>1. b \in Nat
        BY <3>1
      <4> HIDE DEF b
      <4>2. Term!Follow(v11, b, v12)
        BY <3>2 DEF b
      <4> QED BY <3>1, <3>2, <4>1, <4>2, FollowTail
    <3>4. \/ Head(v11).kind = "binary" /\ v16' = Head(v11).n /\ v15' = "write"
          \/ Head(v11).kind \in {"resize", "junk"} /\ v15' = v15 /\ v16' = v16
          \/ Head(v11).kind = "close" /\ v15' = "over" /\ v16' = v16
      BY <1>11 DEF Term!InRead
    <3> HIDE DEF Term!Follow
    <3> QED BY <3>1, <3>2, <3>3, <3>4 DEF Term!Inv, Term!InInv
  <2> QED BY <2>1, <2>2, <2>3 DEF Term!Inv
<1>12. CASE Term!InWrite
  <2>1. Term!StageInv'
    BY <1>12 DEF Term!InWrite, Term!stream, Term!browser, Term!tasks, Term!seen, Term!geometry,
           Term!NoChildLeft, Term!Abort, Term!HasRoom, Term!Inv, Term!StageInv, Term!OutInv, Term!InInv
  <2>2. Term!OutInv'
    BY <1>12 DEF Term!InWrite, Term!stream, Term!browser, Term!tasks, Term!seen, Term!geometry,
           Term!NoChildLeft, Term!Abort, Term!HasRoom, Term!Inv, Term!StageInv, Term!OutInv, Term!InInv
  <2>3. Term!InInv'
    BY SMTT(30), <1>12 DEF Term!InWrite, Term!stream, Term!browser, Term!tasks, Term!seen, Term!geometry,
           Term!NoChildLeft, Term!Abort, Term!HasRoom, Term!Inv, Term!StageInv, Term!OutInv, Term!InInv
  <2> QED BY <2>1, <2>2, <2>3 DEF Term!Inv
<1>13. CASE Term!Request
  <2>1. Term!StageInv'
    BY <1>13 DEF Term!Request, Term!stream, Term!browser, Term!tasks, Term!seen, Term!geometry,
           Term!NoChildLeft, Term!Abort, Term!Refuse, Term!Inv, Term!StageInv, Term!OutInv, Term!InInv
  <2>2. Term!OutInv'
    BY <1>13 DEF Term!Request, Term!stream, Term!browser, Term!tasks, Term!seen, Term!geometry,
           Term!NoChildLeft, Term!Abort, Term!Refuse, Term!Inv, Term!StageInv, Term!OutInv, Term!InInv
  <2>3. Term!InInv'
    BY <1>13 DEF Term!Request, Term!stream, Term!browser, Term!tasks, Term!seen, Term!geometry,
           Term!NoChildLeft, Term!Abort, Term!Refuse, Term!Inv, Term!StageInv, Term!OutInv, Term!InInv
  <2> QED BY <2>1, <2>2, <2>3 DEF Term!Inv
<1>14. CASE Term!ReadAck
  <2>1. Term!StageInv'
    BY <1>14 DEF Term!ReadAck, Term!stream, Term!browser, Term!tasks, Term!seen, Term!geometry,
           Term!NoChildLeft, Term!Abort, Term!StartRelay, Term!Refuse, Term!Inv, Term!StageInv, Term!OutInv,
           Term!InInv
  <2>2. Term!OutInv'
    BY <1>14 DEF Term!ReadAck, Term!stream, Term!browser, Term!tasks, Term!seen, Term!geometry,
           Term!NoChildLeft, Term!Abort, Term!StartRelay, Term!Refuse, Term!Inv, Term!StageInv, Term!OutInv,
           Term!InInv
  <2>3. Term!InInv'
    BY <1>14 DEF Term!ReadAck, Term!stream, Term!browser, Term!tasks, Term!seen, Term!geometry,
           Term!NoChildLeft, Term!Abort, Term!StartRelay, Term!Refuse, Term!Inv, Term!StageInv, Term!OutInv,
           Term!InInv
  <2> QED BY <2>1, <2>2, <2>3 DEF Term!Inv
<1>15. CASE Term!Setup
  <2>1. Term!StageInv'
    BY <1>15 DEF Term!Setup, Term!stream, Term!browser, Term!tasks, Term!seen, Term!geometry, Term!NoChildLeft,
           Term!Abort, Term!StartRelay, Term!Inv, Term!StageInv, Term!OutInv, Term!InInv
  <2>2. Term!OutInv'
    BY <1>15 DEF Term!Setup, Term!stream, Term!browser, Term!tasks, Term!seen, Term!geometry, Term!NoChildLeft,
           Term!Abort, Term!StartRelay, Term!Inv, Term!StageInv, Term!OutInv, Term!InInv
  <2>3. Term!InInv'
    BY <1>15 DEF Term!Setup, Term!stream, Term!browser, Term!tasks, Term!seen, Term!geometry, Term!NoChildLeft,
           Term!Abort, Term!StartRelay, Term!Inv, Term!StageInv, Term!OutInv, Term!InInv
  <2> QED BY <2>1, <2>2, <2>3 DEF Term!Inv
<1>16. CASE Term!Select
  <2>1. Term!StageInv'
    BY <1>16 DEF Term!Select, Term!stream, Term!browser, Term!tasks, Term!seen, Term!geometry, Term!NoChildLeft,
           Term!Abort, Term!Inv, Term!StageInv, Term!OutInv, Term!InInv
  <2>2. Term!OutInv'
    BY <1>16 DEF Term!Select, Term!stream, Term!browser, Term!tasks, Term!seen, Term!geometry, Term!NoChildLeft,
           Term!Abort, Term!Inv, Term!StageInv, Term!OutInv, Term!InInv
  <2>3. Term!InInv'
    BY <1>16 DEF Term!Select, Term!stream, Term!browser, Term!tasks, Term!seen, Term!geometry, Term!NoChildLeft,
           Term!Abort, Term!Inv, Term!StageInv, Term!OutInv, Term!InInv
  <2> QED BY <2>1, <2>2, <2>3 DEF Term!Inv
<1>17. CASE Term!Reap
  <2>1. Term!StageInv'
    BY <1>17 DEF Term!Reap, Term!stream, Term!browser, Term!tasks, Term!seen, Term!geometry, Term!NoChildLeft,
           Term!Abort, Term!Inv, Term!StageInv, Term!OutInv, Term!InInv
  <2>2. Term!OutInv'
    BY <1>17 DEF Term!Reap, Term!stream, Term!browser, Term!tasks, Term!seen, Term!geometry, Term!NoChildLeft,
           Term!Abort, Term!Inv, Term!StageInv, Term!OutInv, Term!InInv
  <2>3. Term!InInv'
    BY <1>17 DEF Term!Reap, Term!stream, Term!browser, Term!tasks, Term!seen, Term!geometry, Term!NoChildLeft,
           Term!Abort, Term!Inv, Term!StageInv, Term!OutInv, Term!InInv
  <2> QED BY <2>1, <2>2, <2>3 DEF Term!Inv
<1>18. CASE Term!CloseSink
  <2>1. Term!StageInv'
    BY <1>18 DEF Term!CloseSink, Term!stream, Term!browser, Term!Inv, Term!StageInv, Term!NoChildLeft
  <2>2. Term!OutInv'
    <3>1. /\ v7' = v7 /\ v8' = v8 /\ v5' = v5 /\ v3' = v3 /\ v18' = v18 /\ v19' = v19 /\ v3 = "relay"
          /\ v17 \in {"eof", "failed"} /\ v17' = "over" /\ (v20' = v20 \/ v20' = "1011" \/ (v20' = "1000" /\ v17 = "eof"))
      BY <1>18 DEF Term!CloseSink, Term!stream
    <3>2. /\ v8 \in Nat /\ v7 \in Seq(Nat) /\ v19 \in Seq(Nat) /\ v20 # "1000" /\ Len(v19) = v8 - Len(v7)
          /\ v17 = "eof" => v5 = "down" /\ v7 = <<>>
      BY <3>1 DEF Term!Inv, Term!OutInv
    <3>3. v17 = "eof" => Len(v19) = v8
      BY <3>2
    <3> QED BY <3>1, <3>2, <3>3 DEF Term!Inv, Term!OutInv
  <2>3. Term!InInv'
    BY <1>18 DEF Term!CloseSink, Term!stream, Term!browser, Term!Inv, Term!InInv
  <2> QED BY <2>1, <2>2, <2>3 DEF Term!Inv
<1> QED
  BY <1>1, <1>2, <1>3, <1>4, <1>5, <1>6, <1>7, <1>8, <1>9, <1>10, <1>11, <1>12, <1>13, <1>14, <1>15, <1>16,
         <1>17, <1>18 DEF Term!Next, Term!World, Term!Outbound, Term!Inbound, Term!Handler

\* A sequence that counts from one is a prefix of what was written.
LEMMA Begins ==
  ASSUME NEW s \in Seq(Nat), NEW n \in Nat, Len(s) <= n, \A i \in DOMAIN s : s[i] = i
  PROVE  Term!IsPrefix(s, Term!Upto(n)) /\ (Len(s) = n => s = Term!Upto(n))
<1> DEFINE u == Term!Upto(n)
<1>1. u \in [1..n -> Nat] /\ \A i \in 1..n : u[i] = i
  BY DEF Term!Upto
<1> HIDE DEF u
<1>2. u \in Seq(Nat) /\ Len(u) = n
  BY <1>1, IsASeq, LenProperties
<1> DEFINE a == SubSeq(s, 1, Len(s))
           b == SubSeq(u, 1, Len(s))
<1>3. Len(s) \in Nat /\ DOMAIN s = 1..Len(s)
  OBVIOUS
<1>4. /\ a \in Seq(Nat) /\ Len(a) = Len(s) /\ \A i \in 1..Len(s) : a[i] = s[i]
      /\ b \in Seq(Nat) /\ Len(b) = Len(s) /\ \A i \in 1..Len(s) : b[i] = u[i]
  BY <1>2, <1>3
<1> HIDE DEF a, b
<1>5. \A i \in 1..Len(a) : a[i] = b[i]
  BY SMTT(30), <1>1, <1>3, <1>4
<1>6. a = b
  BY <1>4, <1>5, SeqEqual
<1>7. ASSUME Len(s) = n PROVE s = u
  <2>1. \A i \in 1..Len(s) : s[i] = u[i]
    BY <1>1, <1>3, <1>7
  <2> QED BY <1>2, <1>7, <2>1, SeqEqual
<1> QED BY <1>2, <1>6, <1>7 DEF a, b, u, Term!IsPrefix

\* It implies what is promised of the terminal bridge.
LEMMA TerminalBridgeKept == Term!Inv => Term!BytesAreOrdered /\ Term!EndedMeansAll /\ Term!NoChildLeft
<1> SUFFICES ASSUME Term!Inv PROVE Term!BytesAreOrdered /\ Term!EndedMeansAll /\ Term!NoChildLeft
  OBVIOUS
<1>1. v8 \in Nat /\ v19 \in Seq(Nat) /\ Len(v19) <= v8 /\ \A i \in DOMAIN v19 : v19[i] = i
  <2>1. v8 \in Nat /\ v7 \in Seq(Nat) /\ v19 \in Seq(Nat) /\ (\A i \in DOMAIN v19 : v19[i] = i)
        /\ Len(v19) + (IF v17 = "send" THEN 1 ELSE 0) <= v8 - Len(v7)
    BY DEF Term!Inv, Term!OutInv
  <2>2. Len(v19) \in Nat /\ Len(v7) \in Nat
    BY <2>1
  <2> QED BY <2>1, <2>2
<1>2. Term!IsPrefix(v19, Term!Upto(v8)) /\ (Len(v19) = v8 => v19 = Term!Upto(v8))
  BY <1>1, Begins
<1>3. Term!IsPrefix(v10 \o v9, Term!Upto(v12))
  <2> DEFINE s == v10 \o v9
  <2>1. v12 \in Nat /\ v10 \in Seq(Nat) /\ v9 \in Seq(Nat) /\ Len(v10) + Len(v9) <= v12
        /\ (\A i \in DOMAIN v10 : v10[i] = i) /\ \A i \in DOMAIN v9 : v9[i] = Len(v10) + i
    BY DEF Term!Inv, Term!InInv
  <2>2. s \in Seq(Nat) /\ Len(s) = Len(v10) + Len(v9) /\ DOMAIN s = 1..(Len(v10) + Len(v9))
        /\ \A i \in DOMAIN s : s[i] = IF i <= Len(v10) THEN v10[i] ELSE v9[i - Len(v10)]
    BY <2>1
  <2>3. Len(v10) \in Nat /\ Len(v9) \in Nat /\ DOMAIN v10 = 1..Len(v10) /\ DOMAIN v9 = 1..Len(v9)
    BY <2>1
  <2> HIDE DEF s
  <2>4. ASSUME NEW i \in DOMAIN s PROVE s[i] = i
    <3>1. i \in 1..(Len(v10) + Len(v9))
      BY <2>2, <2>4
    <3>2. CASE i <= Len(v10)
      <4>1. i \in DOMAIN v10
        BY <2>3, <3>1, <3>2
      <4> QED BY <2>1, <2>2, <3>2, <4>1
    <3>3. CASE ~(i <= Len(v10))
      <4>1. i - Len(v10) \in DOMAIN v9 /\ Len(v10) + (i - Len(v10)) = i
        BY <2>3, <3>1, <3>3
      <4>2. v9[i - Len(v10)] = i
        BY <2>1, <4>1
      <4> QED BY <2>2, <3>3, <4>2
    <3> QED BY <3>2, <3>3
  <2>5. Len(s) <= v12
    BY <2>1, <2>2
  <2>6. Term!IsPrefix(s, Term!Upto(v12))
    BY <2>1, <2>2, <2>4, <2>5, Begins
  <2> QED BY <2>6 DEF s
<1> QED BY <1>2, <1>3 DEF Term!Inv, Term!StageInv, Term!OutInv, Term!BytesAreOrdered, Term!EndedMeansAll

Requests == {"mutation", "follow"}

\* A server's actions and its shutdown.
Disp == INSTANCE ServeDispatch WITH
    Request <- Requests, Follow <- {"follow"}, Whole <- Either({}, {"mutation"}), Capacity <- 1,
    MaxEvents <- MaxEvents,
    phase <- v1, signalled <- v2, code <- v3, conn <- v4, stream <- v5, worker <- v6, emitted <- v7, sink <- v8,
    outcome <- v9, chan <- v10, got <- v11, counted <- v12, begun <- v13

\* A terminal record after events is the last one.
LEMMA DispAppend ==
  ASSUME NEW s \in Seq(Disp!Records), Disp!OnlyEvents(s), NEW m \in Disp!Records
  PROVE  /\ Append(s, m) \in Seq(Disp!Records) /\ Disp!TerminalLast(Append(s, m)) /\ Append(s, m) # <<>>
         /\ m = "event" <=> Disp!OnlyEvents(Append(s, m))
         /\ Disp!HasResult(Append(s, m)) => m = "result"
<1>1. /\ Append(s, m) \in Seq(Disp!Records) /\ Append(s, m) # <<>> /\ DOMAIN Append(s, m) = 1..(Len(s) + 1)
      /\ Len(Append(s, m)) = Len(s) + 1 /\ Append(s, m)[Len(s) + 1] = m /\ Len(s) + 1 \in DOMAIN Append(s, m)
      /\ \A i \in DOMAIN Append(s, m) : i # Len(s) + 1 => Append(s, m)[i] = "event"
  BY DEF Disp!OnlyEvents
<1> QED BY <1>1 DEF Disp!OnlyEvents, Disp!TerminalLast, Disp!HasResult, Disp!Terminal
\* Nothing follows a terminal record that is read.
LEMMA DispTail ==
  ASSUME NEW s \in Seq(Disp!Records), Disp!TerminalLast(s), s # <<>>
  PROVE  /\ Tail(s) \in Seq(Disp!Records) /\ Disp!TerminalLast(Tail(s)) /\ Head(s) \in Disp!Records
         /\ Head(s) # "event" => Tail(s) = <<>>
         /\ Disp!OnlyEvents(s) => Head(s) = "event" /\ Disp!OnlyEvents(Tail(s))
         /\ Head(s) = "result" \/ Disp!HasResult(Tail(s)) => Disp!HasResult(s)
BY DEF Disp!OnlyEvents, Disp!TerminalLast, Disp!HasResult, Disp!Records, Disp!Terminal
\* An empty response has no terminal record.
LEMMA DispEmpty ==
  <<>> \in Seq(Disp!Records) /\ Disp!OnlyEvents(<<>>) /\ Disp!TerminalLast(<<>>) /\ ~Disp!HasResult(<<>>)
BY DEF Disp!OnlyEvents, Disp!TerminalLast, Disp!HasResult
\* A response may be one terminal record alone.
LEMMA DispOne ==
  ASSUME NEW m \in Disp!Terminal
  PROVE  /\ <<m>> \in Seq(Disp!Records) /\ Disp!TerminalLast(<<m>>) /\ ~Disp!OnlyEvents(<<m>>)
         /\ Disp!HasResult(<<m>>) => m = "result"
BY DEF Disp!OnlyEvents, Disp!TerminalLast, Disp!HasResult, Disp!Records, Disp!Terminal

\* The invariant of the dispatcher holds at first.
LEMMA ServeDispatchBegin == Disp!Init => Disp!Inv
BY DispEmpty DEF Disp!Init, Disp!Inv, Disp!WorkInv, Disp!RecordInv, Disp!Working

\* Every step of the dispatcher keeps it.
LEMMA ServeDispatchStepInv ==
  ASSUME Disp!Inv, [Disp!Next]_(Disp!vars)
  PROVE  Disp!Inv'
<1>1. CASE UNCHANGED Disp!vars
  BY <1>1 DEF Disp!vars, Disp!server, Disp!action, Disp!Working, Disp!Received, Disp!Inv, Disp!WorkInv,
         Disp!RecordInv
<1>2. ASSUME NEW r \in Requests, Disp!Submit(r) PROVE Disp!Inv'
  <2>1. Disp!WorkInv'
    BY <1>2 DEF Disp!Submit, Disp!server, Disp!action, Disp!Working, Disp!Received, Disp!Inv, Disp!WorkInv,
           Disp!RecordInv
  <2>2. Disp!RecordInv'
    BY <1>2 DEF Disp!Submit, Disp!server, Disp!action, Disp!Working, Disp!Received, Disp!Inv, Disp!WorkInv,
           Disp!RecordInv
  <2> QED BY <2>1, <2>2 DEF Disp!Inv
<1>3. ASSUME NEW r \in Requests, Disp!Begin(r) PROVE Disp!Inv'
  <2>1. Disp!WorkInv'
    BY <1>3 DEF Disp!Begin, Disp!server, Disp!action, Disp!Working, Disp!Received, Disp!Inv, Disp!WorkInv,
           Disp!RecordInv
  <2>2. Disp!RecordInv'
    BY <1>3 DEF Disp!Begin, Disp!server, Disp!action, Disp!Working, Disp!Received, Disp!Inv, Disp!WorkInv,
           Disp!RecordInv
  <2> QED BY <2>1, <2>2 DEF Disp!Inv
<1>4. ASSUME NEW r \in Requests, Disp!EmitEvent(r) PROVE Disp!Inv'
  <2>1. Disp!WorkInv'
    BY ZenonT(60), <1>4 DEF Disp!EmitEvent, Disp!server, Disp!action, Disp!Working, Disp!Received, Disp!Inv,
           Disp!WorkInv,
           Disp!RecordInv
  <2>2. Disp!RecordInv'
    BY <1>4 DEF Disp!EmitEvent, Disp!server, Disp!action, Disp!Working, Disp!Received, Disp!Inv, Disp!WorkInv,
           Disp!RecordInv
  <2> QED BY <2>1, <2>2 DEF Disp!Inv
<1>5. ASSUME NEW r \in Requests, Disp!Send(r) PROVE Disp!Inv'
  <2>1. Disp!WorkInv'
    BY <1>5 DEF Disp!Send, Disp!server, Disp!action, Disp!Working, Disp!Received, Disp!Inv, Disp!WorkInv,
           Disp!RecordInv
  <2>2. Disp!RecordInv'
    <3>1. v10[r] \in Seq(Disp!Records) /\ Disp!OnlyEvents(v10[r]) /\ "event" \in Disp!Records
      BY <1>5 DEF Disp!Send, Disp!Inv, Disp!WorkInv, Disp!RecordInv, Disp!Records
    <3>2. /\ Append(v10[r], "event") \in Seq(Disp!Records) /\ Disp!TerminalLast(Append(v10[r], "event"))
          /\ Disp!OnlyEvents(Append(v10[r], "event")) /\ ~Disp!HasResult(Append(v10[r], "event"))
      BY <3>1, DispAppend
    <3> QED BY <1>5, <3>1, <3>2 DEF Disp!Send, Disp!server, Disp!Inv, Disp!WorkInv, Disp!RecordInv
  <2> QED BY <2>1, <2>2 DEF Disp!Inv
<1>6. ASSUME NEW r \in Requests, Disp!Return(r) PROVE Disp!Inv'
  <2>1. Disp!WorkInv'
    BY <1>6 DEF Disp!Return, Disp!server, Disp!action, Disp!Working, Disp!Received, Disp!Inv, Disp!WorkInv,
           Disp!RecordInv
  <2>2. Disp!RecordInv'
    BY <1>6 DEF Disp!Return, Disp!server, Disp!action, Disp!Working, Disp!Received, Disp!Inv, Disp!WorkInv,
           Disp!RecordInv
  <2> QED BY <2>1, <2>2 DEF Disp!Inv
<1>7. ASSUME NEW r \in Requests, Disp!Finish(r) PROVE Disp!Inv'
  <2>1. Disp!WorkInv'
    BY <1>7 DEF Disp!Finish, Disp!server, Disp!action, Disp!Working, Disp!Received, Disp!Inv, Disp!WorkInv,
           Disp!RecordInv
  <2>2. Disp!RecordInv'
    <3>1. v10[r] \in Seq(Disp!Records) /\ Disp!OnlyEvents(v10[r]) /\ Disp!LastRecord(r) \in Disp!Records
          /\ (Disp!LastRecord(r) = "result" => v9[r] = "ok" /\ ~v8[r].bad)
      BY <1>7 DEF Disp!Finish, Disp!Inv, Disp!RecordInv, Disp!Records, Disp!LastRecord, Disp!Terminal
    <3>2. /\ Append(v10[r], Disp!LastRecord(r)) \in Seq(Disp!Records)
          /\ Disp!TerminalLast(Append(v10[r], Disp!LastRecord(r)))
          /\ Disp!HasResult(Append(v10[r], Disp!LastRecord(r))) => Disp!LastRecord(r) = "result"
      BY <3>1, DispAppend
    <3> HIDE DEF Disp!LastRecord
    <3> QED BY <1>7, <3>1, <3>2 DEF Disp!Finish, Disp!server, Disp!Inv, Disp!WorkInv, Disp!RecordInv
  <2> QED BY <2>1, <2>2 DEF Disp!Inv
<1>8. ASSUME NEW r \in Requests, Disp!Read(r) PROVE Disp!Inv'
  <2>1. Disp!WorkInv'
    BY <1>8 DEF Disp!Read, Disp!server, Disp!action, Disp!Working, Disp!Received, Disp!Inv, Disp!WorkInv,
           Disp!RecordInv
  <2>2. Disp!RecordInv'
    <3> DEFINE m == Head(v10[r])
    <3>1. v10[r] \in Seq(Disp!Records) /\ Disp!TerminalLast(v10[r]) /\ v10[r] # <<>>
          /\ v11[r] \in Seq(Disp!Records) /\ Disp!OnlyEvents(v11[r])
      BY <1>8 DEF Disp!Read, Disp!Received, Disp!Inv, Disp!RecordInv
    <3>2. /\ Tail(v10[r]) \in Seq(Disp!Records) /\ Disp!TerminalLast(Tail(v10[r])) /\ m \in Disp!Records
          /\ Disp!OnlyEvents(v10[r]) => Disp!OnlyEvents(Tail(v10[r]))
          /\ m = "result" \/ Disp!HasResult(Tail(v10[r])) => Disp!HasResult(v10[r])
      BY <3>1, DispTail
    <3>3. /\ Disp!Deliver(r, m) \in Seq(Disp!Records) /\ Disp!TerminalLast(Disp!Deliver(r, m))
          /\ m \in Disp!Terminal => Disp!Deliver(r, m) # <<>> /\ ~Disp!OnlyEvents(Disp!Deliver(r, m))
          /\ m \notin Disp!Terminal => Disp!OnlyEvents(Disp!Deliver(r, m))
          /\ Disp!HasResult(Disp!Deliver(r, m)) => m = "result"
      <4>1. CASE v5[r] = "whole" /\ m \in Disp!Terminal
        <5>1. Disp!Deliver(r, m) = <<m>> /\ <<m>> # <<>>
          BY <4>1 DEF Disp!Deliver
        <5> HIDE DEF m
        <5> QED BY <4>1, <5>1, DispOne
      <4>2. CASE v5[r] = "whole" /\ m \notin Disp!Terminal
        <5>1. Disp!Deliver(r, m) = <<>>
          BY <4>2 DEF Disp!Deliver
        <5> QED BY <4>2, <5>1, DispEmpty
      <4>3. CASE v5[r] # "whole"
        <5>1. Disp!Deliver(r, m) = Append(v11[r], m)
          BY <4>3 DEF Disp!Deliver
        <5>2. (m = "event") <=> m \notin Disp!Terminal
          BY <3>2 DEF Disp!Records, Disp!Terminal
        <5> HIDE DEF m
        <5> QED BY <3>1, <3>2, <5>1, <5>2, DispAppend
      <4> QED BY <4>1, <4>2, <4>3
    <3>4. /\ v10' = [v10 EXCEPT ![r] = Tail(v10[r])] /\ v11' = [v11 EXCEPT ![r] = Disp!Deliver(r, m)]
          /\ v4' = [v4 EXCEPT ![r] = IF m \in Disp!Terminal THEN "done" ELSE v4[r]]
          /\ v4[r] = "open" /\ UNCHANGED <<v6, v8, v9>>
      BY <1>8 DEF Disp!Read, Disp!Received, Disp!action
    <3> HIDE DEF m
    <3> QED BY <3>1, <3>2, <3>3, <3>4 DEF Disp!Inv, Disp!RecordInv
  <2> QED BY <2>1, <2>2 DEF Disp!Inv
<1>9. ASSUME NEW r \in Requests, Disp!Leave(r) PROVE Disp!Inv'
  <2>1. Disp!WorkInv'
    BY <1>9 DEF Disp!Leave, Disp!server, Disp!action, Disp!Working, Disp!Received, Disp!Inv, Disp!WorkInv,
           Disp!RecordInv
  <2>2. Disp!RecordInv'
    BY <1>9 DEF Disp!Leave, Disp!server, Disp!action, Disp!Working, Disp!Received, Disp!Inv, Disp!WorkInv,
           Disp!RecordInv
  <2> QED BY <2>1, <2>2 DEF Disp!Inv
<1>10. ASSUME NEW r \in Requests, NEW e \in BOOLEAN, Disp!EmitResult(r, e) PROVE Disp!Inv'
  <2>1. Disp!WorkInv'
    BY <1>10 DEF Disp!EmitResult, Disp!server, Disp!action, Disp!Working, Disp!Received, Disp!Inv, Disp!WorkInv,
           Disp!RecordInv
  <2>2. Disp!RecordInv'
    BY <1>10 DEF Disp!EmitResult, Disp!server, Disp!action, Disp!Working, Disp!Received, Disp!Inv, Disp!WorkInv,
           Disp!RecordInv
  <2> QED BY <2>1, <2>2 DEF Disp!Inv
<1>11. CASE Disp!Signal
  <2>1. Disp!WorkInv'
    BY <1>11 DEF Disp!Signal, Disp!server, Disp!action, Disp!Working, Disp!Received, Disp!Inv, Disp!WorkInv,
           Disp!RecordInv
  <2>2. Disp!RecordInv'
    BY <1>11 DEF Disp!Signal, Disp!server, Disp!action, Disp!Working, Disp!Received, Disp!Inv, Disp!WorkInv,
           Disp!RecordInv
  <2> QED BY <2>1, <2>2 DEF Disp!Inv
<1>12. CASE Disp!StopAccepting
  <2>1. Disp!WorkInv'
    BY <1>12 DEF Disp!StopAccepting, Disp!server, Disp!action, Disp!Working, Disp!Received, Disp!Inv,
           Disp!WorkInv, Disp!RecordInv
  <2>2. Disp!RecordInv'
    BY <1>12 DEF Disp!StopAccepting, Disp!server, Disp!action, Disp!Working, Disp!Received, Disp!Inv,
           Disp!WorkInv, Disp!RecordInv
  <2> QED BY <2>1, <2>2 DEF Disp!Inv
<1>13. CASE Disp!Drained
  <2>1. Disp!WorkInv'
    BY <1>13 DEF Disp!Drained, Disp!server, Disp!action, Disp!Working, Disp!Received, Disp!Inv, Disp!WorkInv,
           Disp!RecordInv
  <2>2. Disp!RecordInv'
    BY <1>13 DEF Disp!Drained, Disp!server, Disp!action, Disp!Working, Disp!Received, Disp!Inv, Disp!WorkInv,
           Disp!RecordInv
  <2> QED BY <2>1, <2>2 DEF Disp!Inv
<1>14. CASE Disp!Idle
  <2>1. Disp!WorkInv'
    BY <1>14 DEF Disp!Idle, Disp!server, Disp!action, Disp!Working, Disp!Received, Disp!Inv, Disp!WorkInv,
           Disp!RecordInv
  <2>2. Disp!RecordInv'
    BY <1>14 DEF Disp!Idle, Disp!server, Disp!action, Disp!Working, Disp!Received, Disp!Inv, Disp!WorkInv,
           Disp!RecordInv
  <2> QED BY <2>1, <2>2 DEF Disp!Inv
<1>15. CASE Disp!Exit
  <2>1. Disp!WorkInv'
    BY <1>15 DEF Disp!Exit, Disp!server, Disp!action, Disp!Working, Disp!Received, Disp!Inv, Disp!WorkInv,
           Disp!RecordInv
  <2>2. Disp!RecordInv'
    BY <1>15 DEF Disp!Exit, Disp!server, Disp!action, Disp!Working, Disp!Received, Disp!Inv, Disp!WorkInv,
           Disp!RecordInv
  <2> QED BY <2>1, <2>2 DEF Disp!Inv
<1> QED
  BY <1>1, <1>2, <1>3, <1>4, <1>5, <1>6, <1>7, <1>8, <1>9, <1>10, <1>11, <1>12, <1>13, <1>14, <1>15 DEF
         Disp!Next, Disp!Worker

\* It implies what is promised of the dispatcher.
LEMMA ServeDispatchKept == Disp!Inv => Disp!CutIsReported /\ Disp!OneTerminalRecord
<1> SUFFICES ASSUME Disp!Inv PROVE Disp!CutIsReported /\ Disp!OneTerminalRecord
  OBVIOUS
<1>1. Disp!CutIsReported
  BY DEF Disp!Inv, Disp!WorkInv, Disp!CutIsReported
<1>2. ASSUME NEW s \in Seq(Disp!Records), s # <<>>
      PROVE  /\ Disp!Last(s) = s[Len(s)] /\ Len(s) \in DOMAIN s
             /\ Disp!Last(s) = "result" => Disp!HasResult(s)
             /\ Disp!TerminalLast(s) /\ ~Disp!OnlyEvents(s) => Disp!Last(s) \in Disp!Terminal
  BY <1>2 DEF Disp!Last, Disp!HasResult, Disp!TerminalLast, Disp!OnlyEvents, Disp!Records
<1>3. Disp!OneTerminalRecord
  BY <1>2 DEF Disp!Inv, Disp!RecordInv, Disp!OneTerminalRecord, Disp!TerminalLast
<1> QED BY <1>1, <1>3

\* The removal of the installation.
Rid == INSTANCE Uninstall WITH
    Machine <- {"m1", "m2"}, MaxFaults <- Either(1, 2), MaxOps <- 3,
    dirs <- v1, inside <- v2, status <- v3, exe <- v4, place <- v5, cmd <- v6, removed <- v7, since <- v8,
    harmed <- v9, faults <- v10, ops <- v11

\* The plan lists directories of firestone and nothing else.
LEMMA Planned ==
  /\ Rid!FirestoneDirectories \in Seq(Rid!Directory)
  /\ Rid!ToSet(Rid!FirestoneDirectories) \subseteq Rid!Directory
<1>1. \A d \in Rid!Directory : Rid!Listed(d) \in Seq(Rid!Directory)
  BY DEF Rid!Listed
<1>2. Rid!FirestoneDirectories \in Seq(Rid!Directory)
  BY <1>1 DEF Rid!FirestoneDirectories, Rid!Directory
<1>3. \A s \in Seq(Rid!Directory) : Rid!ToSet(s) \subseteq Rid!Directory
  BY DEF Rid!ToSet
<1> QED BY <1>2, <1>3

\* The invariant of the uninstaller holds at first.
LEMMA UninstallBegin == Rid!Init => Rid!Inv
BY DEF Rid!Init, Rid!Idle, Rid!Inv, Rid!CmdInv, Rid!ConsentInv, Rid!NothingWithoutConsent, Rid!ActiveInv,
       Rid!RunningIsSpared, Rid!Active, Rid!RetryIsPossible, Rid!Questions, Rid!Directory

\* Every step of the uninstaller keeps it.
LEMMA UninstallStepInv ==
  ASSUME Rid!Inv, [Rid!Next]_(Rid!vars)
  PROVE  Rid!Inv'
<1>1. CASE UNCHANGED Rid!vars
  BY <1>1 DEF Rid!vars, Rid!host, Rid!Questions, Rid!Inv, Rid!CmdInv, Rid!ConsentInv, Rid!NothingWithoutConsent,
         Rid!ActiveInv, Rid!RunningIsSpared, Rid!RetryIsPossible
<1>2. CASE Rid!Begin
  <2>1. Rid!CmdInv'
    BY <1>2 DEF Rid!Begin, Rid!host, Rid!Idle, Rid!Questions, Rid!Inv, Rid!CmdInv, Rid!ConsentInv,
           Rid!ActiveInv, Rid!RetryIsPossible
  <2>2. Rid!ConsentInv'
    BY <1>2 DEF Rid!Begin, Rid!host, Rid!Idle, Rid!Questions, Rid!Inv, Rid!CmdInv, Rid!ConsentInv,
           Rid!ActiveInv, Rid!RetryIsPossible, Rid!NothingWithoutConsent
  <2>3. Rid!ActiveInv'
    BY <1>2 DEF Rid!Begin, Rid!host, Rid!Idle, Rid!Questions, Rid!Inv, Rid!CmdInv, Rid!ConsentInv,
           Rid!ActiveInv, Rid!RetryIsPossible, Rid!RunningIsSpared
  <2>4. Rid!RetryIsPossible'
    BY <1>2 DEF Rid!Begin, Rid!host, Rid!Idle, Rid!Questions, Rid!Inv, Rid!CmdInv, Rid!ConsentInv,
           Rid!ActiveInv, Rid!RetryIsPossible
  <2> QED BY <2>1, <2>2, <2>3, <2>4 DEF Rid!Inv
<1>3. CASE Rid!Plan
  <2>1. Rid!CmdInv'
    BY ZenonT(60), <1>3, Planned DEF Rid!Plan, Rid!host, Rid!Refuse, Rid!Questions, Rid!Inv, Rid!CmdInv,
           Rid!ConsentInv,
           Rid!ActiveInv, Rid!RetryIsPossible
  <2>2. Rid!ConsentInv'
    BY ZenonT(60), <1>3, Planned DEF Rid!Plan, Rid!host, Rid!Refuse, Rid!Questions, Rid!Inv, Rid!CmdInv,
           Rid!ConsentInv,
           Rid!ActiveInv, Rid!RetryIsPossible, Rid!NothingWithoutConsent
  <2>3. Rid!ActiveInv'
    BY ZenonT(60), <1>3, Planned DEF Rid!Plan, Rid!host, Rid!Refuse, Rid!Questions, Rid!Inv, Rid!CmdInv,
           Rid!ConsentInv,
           Rid!ActiveInv, Rid!RetryIsPossible, Rid!RunningIsSpared
  <2>4. Rid!RetryIsPossible'
    BY <1>3, Planned DEF Rid!Plan, Rid!host, Rid!Refuse, Rid!Questions, Rid!Inv, Rid!CmdInv, Rid!ConsentInv,
           Rid!ActiveInv, Rid!RetryIsPossible
  <2> QED BY <2>1, <2>2, <2>3, <2>4 DEF Rid!Inv
<1>4. CASE Rid!CheckRunning
  <2>1. Rid!CmdInv'
    BY ZenonT(60), <1>4 DEF Rid!CheckRunning, Rid!host, Rid!Refuse, Rid!RunningMachineNames, Rid!Present,
           Rid!Active,
           Rid!Questions, Rid!Inv, Rid!CmdInv, Rid!ConsentInv, Rid!ActiveInv, Rid!RetryIsPossible
  <2>2. Rid!ConsentInv'
    BY ZenonT(60), <1>4 DEF Rid!CheckRunning, Rid!host, Rid!Refuse, Rid!RunningMachineNames, Rid!Present,
           Rid!Active,
           Rid!Questions, Rid!Inv, Rid!CmdInv, Rid!ConsentInv, Rid!ActiveInv, Rid!RetryIsPossible,
           Rid!NothingWithoutConsent
  <2>3. Rid!ActiveInv'
    BY ZenonT(60), <1>4 DEF Rid!CheckRunning, Rid!host, Rid!Refuse, Rid!RunningMachineNames, Rid!Present,
           Rid!Active,
           Rid!Questions, Rid!Inv, Rid!CmdInv, Rid!ConsentInv, Rid!ActiveInv, Rid!RetryIsPossible,
           Rid!RunningIsSpared
  <2>4. Rid!RetryIsPossible'
    BY <1>4 DEF Rid!CheckRunning, Rid!host, Rid!Refuse, Rid!RunningMachineNames, Rid!Present, Rid!Active,
           Rid!Questions, Rid!Inv, Rid!CmdInv, Rid!ConsentInv, Rid!ActiveInv, Rid!RetryIsPossible
  <2> QED BY <2>1, <2>2, <2>3, <2>4 DEF Rid!Inv
<1>5. CASE Rid!Confirm
  <2>1. Rid!CmdInv'
    <3>1. /\ DOMAIN v6' = DOMAIN v6 /\ v6'.plan = v6.plan /\ v6'.purge = v6.purge
          /\ v6'.pc \in {"idle", "confirm", "remove"} /\ v6'.answers \in {v6.answers, v6.answers + 1} /\ v4' = v4
      BY <1>5 DEF Rid!Confirm, Rid!Refuse, Rid!Inv, Rid!CmdInv
    <3>2. v4 = FALSE => v6.pc # "confirm"
      BY DEF Rid!Inv, Rid!CmdInv
    <3> QED BY <1>5, <3>1, <3>2 DEF Rid!Confirm, Rid!Inv, Rid!CmdInv
  <2>2. Rid!ConsentInv'
    BY ZenonT(60), <1>5 DEF Rid!Confirm, Rid!host, Rid!Refuse, Rid!Questions, Rid!Inv, Rid!CmdInv,
           Rid!ConsentInv,
           Rid!ActiveInv, Rid!RetryIsPossible, Rid!NothingWithoutConsent
  <2>3. Rid!ActiveInv'
    <3>1. /\ DOMAIN v6' = DOMAIN v6 /\ v6'.plan = v6.plan /\ v6'.purge = v6.purge
          /\ v6'.pc \in {"idle", "confirm", "remove"} /\ v6'.answers \in {v6.answers, v6.answers + 1} /\ v4' = v4
      BY <1>5 DEF Rid!Confirm, Rid!Refuse, Rid!Inv, Rid!CmdInv
    <3>2. v6.pc = "confirm" /\ v3' = v3 /\ v8' = v8 /\ v9' = v9
      BY <1>5 DEF Rid!Confirm
    <3> QED BY <3>1, <3>2 DEF Rid!Inv, Rid!ActiveInv, Rid!RunningIsSpared, Rid!Active
  <2>4. Rid!RetryIsPossible'
    BY <1>5 DEF Rid!Confirm, Rid!host, Rid!Refuse, Rid!Questions, Rid!Inv, Rid!CmdInv, Rid!ConsentInv,
           Rid!ActiveInv, Rid!RetryIsPossible
  <2> QED BY <2>1, <2>2, <2>3, <2>4 DEF Rid!Inv
<1>6. CASE Rid!RemoveDirectory
  <2>1. Rid!CmdInv'
    <3>1. v6.pc = "remove" /\ v4' = v4 /\ v6.plan # <<>> /\ v6.plan \in Seq(Rid!Directory)
      BY <1>6 DEF Rid!RemoveDirectory, Rid!host, Rid!Inv, Rid!CmdInv
    <3>2. \/ v6' = [v6 EXCEPT !.pc = "idle", !.result = "error"]
          \/ v6' = [v6 EXCEPT !.plan = Tail(v6.plan)]
      BY <1>6 DEF Rid!RemoveDirectory, Rid!Refuse
    <3>3. \A p \in Seq(Rid!Directory) : p # <<>> => Tail(p) \in Seq(Rid!Directory)
      OBVIOUS
    <3>4. Tail(v6.plan) \in Seq(Rid!Directory)
      BY <3>1, <3>3
    <3>5. DOMAIN v6' = DOMAIN v6 /\ v6'.pc \in {"idle", "remove"} /\ v6'.answers = v6.answers /\ v6'.purge = v6.purge
          /\ v6'.plan \in {v6.plan, Tail(v6.plan)}
      BY <3>1, <3>2 DEF Rid!Inv, Rid!CmdInv
    <3> QED BY <3>1, <3>4, <3>5 DEF Rid!Inv, Rid!CmdInv
  <2>2. Rid!ConsentInv'
    <3> DEFINE d == Head(v6.plan)
    <3>1. v6.pc = "remove" /\ d \in Rid!Directory /\ v6.purge
      BY <1>6 DEF Rid!RemoveDirectory, Rid!Inv, Rid!CmdInv
    <3>2. v6'.purge = v6.purge /\ v6'.yes = v6.yes /\ v6'.answers = v6.answers /\ v6'.pc \in {"idle", "remove"}
      BY <1>6 DEF Rid!RemoveDirectory, Rid!Refuse, Rid!Inv, Rid!CmdInv
    <3>3. v7' = v7 \/ v7' = Append(v7, d)
      BY <1>6 DEF Rid!RemoveDirectory
    <3>4. v7' \in Seq(Rid!Directory \cup {"executable"})
      BY <3>1, <3>3 DEF Rid!Inv, Rid!ConsentInv
    <3> QED BY <3>1, <3>2, <3>4 DEF Rid!Inv, Rid!ConsentInv, Rid!NothingWithoutConsent, Rid!Questions
  <2>3. Rid!ActiveInv'
    BY ZenonT(60), <1>6 DEF Rid!RemoveDirectory, Rid!host, Rid!Refuse, Rid!Lose, Rid!Questions, Rid!Active,
           Rid!Directory,
           Rid!ToSet, Rid!Inv, Rid!CmdInv, Rid!ConsentInv, Rid!ActiveInv, Rid!RetryIsPossible,
           Rid!RunningIsSpared
  <2>4. Rid!RetryIsPossible'
    BY <1>6 DEF Rid!RemoveDirectory, Rid!host, Rid!Refuse, Rid!Lose, Rid!Questions, Rid!Active, Rid!Directory,
           Rid!ToSet, Rid!Inv, Rid!CmdInv, Rid!ConsentInv, Rid!ActiveInv, Rid!RetryIsPossible
  <2> QED BY <2>1, <2>2, <2>3, <2>4 DEF Rid!Inv
<1>7. CASE Rid!RemoveExecutable
  <2>1. Rid!CmdInv'
    BY <1>7 DEF Rid!RemoveExecutable, Rid!host, Rid!Refuse, Rid!Questions, Rid!Last, Rid!Directory, Rid!ToSet,
           Rid!Inv, Rid!CmdInv, Rid!ConsentInv, Rid!ActiveInv, Rid!RetryIsPossible
  <2>2. Rid!ConsentInv'
    BY <1>7 DEF Rid!RemoveExecutable, Rid!host, Rid!Refuse, Rid!Questions, Rid!Last, Rid!Directory, Rid!ToSet,
           Rid!Inv, Rid!CmdInv, Rid!ConsentInv, Rid!ActiveInv, Rid!RetryIsPossible, Rid!NothingWithoutConsent
  <2>3. Rid!ActiveInv'
    BY <1>7 DEF Rid!RemoveExecutable, Rid!host, Rid!Refuse, Rid!Questions, Rid!Last, Rid!Directory, Rid!ToSet,
           Rid!Inv, Rid!CmdInv, Rid!ConsentInv, Rid!ActiveInv, Rid!RetryIsPossible, Rid!RunningIsSpared
  <2>4. Rid!RetryIsPossible'
    BY <1>7 DEF Rid!RemoveExecutable, Rid!host, Rid!Refuse, Rid!Questions, Rid!Last, Rid!Directory, Rid!ToSet,
           Rid!Inv, Rid!CmdInv, Rid!ConsentInv, Rid!ActiveInv, Rid!RetryIsPossible
  <2> QED BY <2>1, <2>2, <2>3, <2>4 DEF Rid!Inv
<1>8. CASE Rid!RemoveFails
  <2>1. Rid!CmdInv'
    BY <1>8 DEF Rid!RemoveFails, Rid!host, Rid!Refuse, Rid!Lose, Rid!Questions, Rid!Active, Rid!Present,
           Rid!Inv, Rid!CmdInv, Rid!ConsentInv, Rid!ActiveInv, Rid!RetryIsPossible
  <2>2. Rid!ConsentInv'
    BY <1>8 DEF Rid!RemoveFails, Rid!host, Rid!Refuse, Rid!Lose, Rid!Questions, Rid!Active, Rid!Present,
           Rid!Inv, Rid!CmdInv, Rid!ConsentInv, Rid!ActiveInv, Rid!RetryIsPossible, Rid!NothingWithoutConsent
  <2>3. Rid!ActiveInv'
    BY <1>8 DEF Rid!RemoveFails, Rid!host, Rid!Refuse, Rid!Lose, Rid!Questions, Rid!Active, Rid!Present,
           Rid!Inv, Rid!CmdInv, Rid!ConsentInv, Rid!ActiveInv, Rid!RetryIsPossible, Rid!RunningIsSpared
  <2>4. Rid!RetryIsPossible'
    BY <1>8 DEF Rid!RemoveFails, Rid!host, Rid!Refuse, Rid!Lose, Rid!Questions, Rid!Active, Rid!Present,
           Rid!Inv, Rid!CmdInv, Rid!ConsentInv, Rid!ActiveInv, Rid!RetryIsPossible
  <2> QED BY <2>1, <2>2, <2>3, <2>4 DEF Rid!Inv
<1>9. ASSUME NEW m \in {"m1", "m2"}, Rid!Create(m) PROVE Rid!Inv'
  <2>1. Rid!CmdInv'
    BY <1>9 DEF Rid!Create, Rid!host, Rid!Other, Rid!Active, Rid!Questions, Rid!Inv, Rid!CmdInv, Rid!ConsentInv,
           Rid!ActiveInv, Rid!RetryIsPossible
  <2>2. Rid!ConsentInv'
    BY <1>9 DEF Rid!Create, Rid!host, Rid!Other, Rid!Active, Rid!Questions, Rid!Inv, Rid!CmdInv, Rid!ConsentInv,
           Rid!ActiveInv, Rid!RetryIsPossible, Rid!NothingWithoutConsent
  <2>3. Rid!ActiveInv'
    BY <1>9 DEF Rid!Create, Rid!host, Rid!Other, Rid!Active, Rid!Questions, Rid!Inv, Rid!CmdInv, Rid!ConsentInv,
           Rid!ActiveInv, Rid!RetryIsPossible, Rid!RunningIsSpared
  <2>4. Rid!RetryIsPossible'
    BY <1>9 DEF Rid!Create, Rid!host, Rid!Other, Rid!Active, Rid!Questions, Rid!Inv, Rid!CmdInv, Rid!ConsentInv,
           Rid!ActiveInv, Rid!RetryIsPossible
  <2> QED BY <2>1, <2>2, <2>3, <2>4 DEF Rid!Inv
<1>10. ASSUME NEW m \in {"m1", "m2"}, Rid!Start(m) PROVE Rid!Inv'
  <2>1. Rid!CmdInv'
    BY <1>10 DEF Rid!Start, Rid!host, Rid!Other, Rid!Active, Rid!Questions, Rid!Inv, Rid!CmdInv, Rid!ConsentInv,
           Rid!ActiveInv, Rid!RetryIsPossible
  <2>2. Rid!ConsentInv'
    BY <1>10 DEF Rid!Start, Rid!host, Rid!Other, Rid!Active, Rid!Questions, Rid!Inv, Rid!CmdInv, Rid!ConsentInv,
           Rid!ActiveInv, Rid!RetryIsPossible, Rid!NothingWithoutConsent
  <2>3. Rid!ActiveInv'
    BY <1>10 DEF Rid!Start, Rid!host, Rid!Other, Rid!Active, Rid!Questions, Rid!Inv, Rid!CmdInv, Rid!ConsentInv,
           Rid!ActiveInv, Rid!RetryIsPossible, Rid!RunningIsSpared
  <2>4. Rid!RetryIsPossible'
    BY <1>10 DEF Rid!Start, Rid!host, Rid!Other, Rid!Active, Rid!Questions, Rid!Inv, Rid!CmdInv, Rid!ConsentInv,
           Rid!ActiveInv, Rid!RetryIsPossible
  <2> QED BY <2>1, <2>2, <2>3, <2>4 DEF Rid!Inv
<1>11. ASSUME NEW m \in {"m1", "m2"}, Rid!Stop(m) PROVE Rid!Inv'
  <2>1. Rid!CmdInv'
    BY <1>11 DEF Rid!Stop, Rid!host, Rid!Active, Rid!Questions, Rid!Inv, Rid!CmdInv, Rid!ConsentInv,
           Rid!ActiveInv, Rid!RetryIsPossible
  <2>2. Rid!ConsentInv'
    BY <1>11 DEF Rid!Stop, Rid!host, Rid!Active, Rid!Questions, Rid!Inv, Rid!CmdInv, Rid!ConsentInv,
           Rid!ActiveInv, Rid!RetryIsPossible, Rid!NothingWithoutConsent
  <2>3. Rid!ActiveInv'
    BY <1>11 DEF Rid!Stop, Rid!host, Rid!Active, Rid!Questions, Rid!Inv, Rid!CmdInv, Rid!ConsentInv,
           Rid!ActiveInv, Rid!RetryIsPossible, Rid!RunningIsSpared
  <2>4. Rid!RetryIsPossible'
    BY <1>11 DEF Rid!Stop, Rid!host, Rid!Active, Rid!Questions, Rid!Inv, Rid!CmdInv, Rid!ConsentInv,
           Rid!ActiveInv, Rid!RetryIsPossible
  <2> QED BY <2>1, <2>2, <2>3, <2>4 DEF Rid!Inv
<1> QED
  BY <1>1, <1>2, <1>3, <1>4, <1>5, <1>6, <1>7, <1>8, <1>9, <1>10, <1>11 DEF Rid!Next, Rid!Command

\* It implies what is promised of the uninstaller.
LEMMA UninstallKept == Rid!Inv => Rid!RetryIsPossible /\ Rid!NothingWithoutConsent /\ Rid!RunningIsSpared
BY DEF Rid!Inv, Rid!ConsentInv, Rid!ActiveInv

\* The console log over boots.
Hist == INSTANCE ConsoleLog WITH
    MaxBoot <- 3, MaxCrash <- 2, MaxPrune <- 1,
    cur <- v1, prev <- v2, staging <- v3, boot <- v4, vmm <- v5, pc <- v6, after <- v7, written <- v8, torn <- v9,
    crashes <- v10, prunes <- v11

\* A tail and a follow of it; the fair one is within the bound of a tail.
Logs == INSTANCE LogFollow WITH
    Inodes <- 1..4, MaxBoots <- Either(1, 2), MaxBytes <- MaxBytes, MaxLines <- Either(1, 2),
    TailBytes <- Either(3, 2), ChunkBytes <- 2,
    data <- v1, path <- v2, previous <- v3, vm <- v4, reader <- v5, seg <- v6, cancel <- v7

\* The filter between a log and a terminal.
Filter == INSTANCE LogSanitizer WITH
    MaxLen <- MaxLen, MaxChunk <- 3, MaxParameters <- 1,
    written <- v1, offset <- v2, state <- v3, parameters <- v4, out <- v5, decoded <- v6, split <- v7, ended <- v8

\* A good line, port 0, a refusal, one longer than the limit.
VsockLines == {<<"OK", "7">>, <<"OK", "0">>, <<"NO">>, <<"OK", "7", "7", "7">>}
VsockInput == <<"i1", "i2">>
VsockOutput == <<"o1", "o2", "o3">>

\* The proxy under ssh.
Vp == INSTANCE VsockProxy WITH
    Lines <- VsockLines, GoodLines <- {<<"OK", "7">>}, MaxLine <- 3, Deadline <- 3, Input <- VsockInput,
    Output <- VsockOutput,
    line <- v1, eol <- v2, wire <- v3, closed <- v4, now <- v5, pc <- v6, got <- v7, stdin <- v8, eof <- v9,
    guestIn <- v10, guestEof <- v11, guestOut <- v12, stdout <- v13, reader <- v14, upload <- v15, download <- v16,
    notes <- v17, result <- v18

\* The constants of a run are what the parts need of them.
ASSUME RealConstants == BuildersDiffer /\ ServersAreReal /\ TokensAreReal /\ ClientsAreReal
                        /\ LaunchesAreCounted /\ ProcessesAreCounted

Init ==
    /\ component \in Parts
    /\ \/ component = "sidecars" /\ Sides!Init /\ Blank15
       \/ component = "process_tree" /\ Tree!Init /\ Blank15
       \/ component = "shim_control" /\ Ctl!Init /\ Blank15
       \/ component = "console" /\ Con!Init /\ Blank14
       \/ component = "console_log" /\ Hist!Init /\ Blank11
       \/ component = "log_follow" /\ Logs!Init /\ Blank7
       \/ component = "log_sanitizer" /\ Filter!Init /\ Blank8
       \/ component = "cmd_runner" /\ Run!Init /\ Blank19
       \/ component = "readiness" /\ Ready!Init /\ Blank13
       \/ component = "vsock_proxy" /\ Vp!Init /\ Blank18
       \/ component = "terminal_bridge" /\ Term!Init
       \/ component = "serve" /\ Srv!Init /\ Blank14
       \/ component = "serve_dispatch" /\ Disp!Init /\ Blank13
       \/ component = "guest_init" /\ Pid1!Init /\ Blank18
       \/ component = "guest_lease" /\ Lease!Init /\ Blank18
       \/ component = "helpers" /\ Help!Init /\ Blank9
       \/ component = "uninstall" /\ Rid!Init /\ Blank11
       \/ component = "purge" /\ Rid!Init /\ Blank11

\* A step of one part: it runs, and nothing but its variables changes.
SidecarsRuns == component = "sidecars" /\ UNCHANGED <<component, Spare15>>
ProcessTreeRuns == component = "process_tree" /\ UNCHANGED <<component, Spare15>>
ShimControlRuns == component = "shim_control" /\ UNCHANGED <<component, Spare15>>
ConsoleRuns == component = "console" /\ UNCHANGED <<component, Spare14>>
ConsoleLogRuns == component = "console_log" /\ UNCHANGED <<component, Spare11>>
LogFollowRuns == component = "log_follow" /\ UNCHANGED <<component, Spare7>>
LogSanitizerRuns == component = "log_sanitizer" /\ UNCHANGED <<component, Spare8>>
CmdRunnerRuns == component = "cmd_runner" /\ UNCHANGED <<component, Spare19>>
ReadinessRuns == component = "readiness" /\ UNCHANGED <<component, Spare13>>
VsockProxyRuns == component = "vsock_proxy" /\ UNCHANGED <<component, Spare18>>
TerminalBridgeRuns == component = "terminal_bridge" /\ UNCHANGED component
ServeRuns == component = "serve" /\ UNCHANGED <<component, Spare14>>
ServeDispatchRuns == component = "serve_dispatch" /\ UNCHANGED <<component, Spare13>>
GuestInitRuns == component = "guest_init" /\ UNCHANGED <<component, Spare18>>
GuestLeaseRuns == component = "guest_lease" /\ UNCHANGED <<component, Spare18>>
HelpersRuns == component = "helpers" /\ UNCHANGED <<component, Spare9>>
UninstallRuns == component = "uninstall" /\ UNCHANGED <<component, Spare11>>
PurgeRuns == component = "purge" /\ UNCHANGED <<component, Spare11>>

SidecarsStep == SidecarsRuns /\ Sides!Next
ProcessTreeStep == ProcessTreeRuns /\ Tree!Next
ShimControlStep == ShimControlRuns /\ Ctl!Next
ConsoleStep == ConsoleRuns /\ Con!Next
ConsoleLogStep == ConsoleLogRuns /\ Hist!Next
LogFollowStep == LogFollowRuns /\ Logs!Next
LogSanitizerStep == LogSanitizerRuns /\ Filter!Next
CmdRunnerStep == CmdRunnerRuns /\ Run!Next
ReadinessStep == ReadinessRuns /\ Ready!Next
VsockProxyStep == VsockProxyRuns /\ Vp!Next
TerminalBridgeStep == TerminalBridgeRuns /\ Term!Next
ServeStep == ServeRuns /\ Srv!Next
ServeDispatchStep == ServeDispatchRuns /\ Disp!Next
GuestInitStep == GuestInitRuns /\ Pid1!Next
GuestLeaseStep == GuestLeaseRuns /\ Lease!Next
HelpersStep == HelpersRuns /\ Help!Next
UninstallStep == UninstallRuns /\ Rid!Next
PurgeStep == PurgeRuns /\ Rid!PurgeNext

Next ==
    \/ SidecarsStep \/ ProcessTreeStep \/ ShimControlStep \/ ConsoleStep \/
       ConsoleLogStep \/ LogFollowStep \/ LogSanitizerStep \/ CmdRunnerStep \/ ReadinessStep \/
       VsockProxyStep \/ TerminalBridgeStep \/ ServeStep \/ ServeDispatchStep \/ GuestInitStep \/
       GuestLeaseStep \/ HelpersStep \/ UninstallStep \/ PurgeStep

Spec == Init /\ [][Next]_vars

\* What goes on if it can: the thread that drives each part, the other threads, tasks and
\* commands under way beside it, and the clocks.  Nothing is assumed of clients, browsers
\* included, guests, users, VMMs or children, except that the client of a control request reads what is there for it,
\* that the far end of a terminal takes its input, that a machine in the way of a purge gets
\* stopped and that the purge is asked for again.
DriverThread ==
    \/ ConsoleRuns /\ Con!Broker
    \/ ShimControlRuns /\ Ctl!Serve
    \/ CmdRunnerRuns /\ Run!Caller
    \/ ReadinessRuns /\ Ready!Wait
    \/ VsockProxyRuns /\ (Vp!Handshake \/ Vp!Main)
    \/ TerminalBridgeRuns /\ Term!Handler
    \/ ServeDispatchRuns /\ ((Disp!StopAccepting /\ Disp!Stopping) \/ Disp!Drained \/ Disp!Idle \/ Disp!Exit)
    \/ LogFollowRuns /\ Logs!Reader
    \/ GuestInitRuns /\ (Pid1!Step \/ Pid1!ReadChild)
    \/ HelpersRuns /\ Help!Step(Old)
    \/ PurgeRuns /\ (Rid!BeginPurge \/ Rid!Command)

InboundThread ==
    \/ CmdRunnerRuns /\ (Run!ReadSome("stdout") \/ Run!ReadEnd("stdout"))
    \/ VsockProxyRuns /\ Vp!Upload
    \/ TerminalBridgeRuns /\ Term!Inbound
    \/ LogFollowRuns /\ (Logs!CreateLog \/ Logs!Truncate \/ Logs!Merge \/ Logs!RemovePrevious)
    \/ GuestInitRuns /\ Pid1!Forward("TERM")
    \/ HelpersRuns /\ Help!Step(New)
    \/ PurgeRuns /\ Rid!Stop("m1")

OutboundThread ==
    \/ CmdRunnerRuns /\ (Run!ReadSome("stderr") \/ Run!ReadEnd("stderr"))
    \/ VsockProxyRuns /\ Vp!Download
    \/ TerminalBridgeRuns /\ Term!OutRead
    \/ GuestInitRuns /\ Pid1!Forward("INT")
    \/ PurgeRuns /\ Rid!Stop("m2")

ClockOrPipe ==
    \/ CmdRunnerRuns /\ Run!WriteByte
    \/ VsockProxyRuns /\ Vp!Tick
    \/ TerminalBridgeRuns /\ Term!FarReads
    \/ GuestInitRuns /\ Pid1!Tick

Reader(c) == ShimControlRuns /\ (Ctl!Read(c) \/ Ctl!ReadClosed(c))
Worker(r) == ServeDispatchRuns /\ (Disp!Begin(r) \/ Disp!Send(r) \/ Disp!Return(r))

\* A behaviour has one part, so fairness of a disjunction over the parts is fairness of each.
\* A build that waits for the helper lock, which the other takes again and again, gets it in the end.
Fairness ==
    /\ WF_vars(DriverThread) /\ WF_vars(InboundThread) /\ WF_vars(OutboundThread) /\ WF_vars(ClockOrPipe)
    /\ \A c \in Peer : WF_vars(Reader(c))
    /\ \A r \in {"mutation", "follow"} : WF_vars(Worker(r))
    /\ SF_vars(HelpersRuns /\ Help!AcquireHelperLock(Old))

FairSpec == Spec /\ Fairness

-----------------------------------------------------------------------------
\* The types of every part, and what its stages imply of its locks, channels and children.
TypesOK ==
    /\ component = "sidecars" => Sides!TypeOK
    /\ component = "process_tree" => Tree!TypeOK
    /\ component = "shim_control" => Ctl!TypeOK
    /\ component = "console" => Con!TypeOK
    /\ component = "console_log" => Hist!TypeOK
    /\ component = "log_follow" => Logs!TypeOK
    /\ component = "log_sanitizer" => Filter!TypeOK
    /\ component = "cmd_runner" => Run!TypeOK
    /\ component = "readiness" => Ready!TypeOK
    /\ component = "vsock_proxy" => Vp!TypeOK
    /\ component = "terminal_bridge" => Term!TypeOK
    /\ component = "serve" => Srv!TypeOK
    /\ component = "serve_dispatch" => Disp!TypeOK
    /\ component = "guest_init" => Pid1!TypeOK
    /\ component = "guest_lease" => Lease!TypeOK
    /\ component = "helpers" => Help!TypeOK
    /\ component \in {"uninstall", "purge"} => Rid!TypeOK

\* What a guest printed is kept and shown as it was: the console log keeps every boot that
\* ended under its shim, in order, twice at worst when a shim dies inside a merge; a tail is the
\* last lines and a follow a contiguous piece of one file, whether that is the console log,
\* rotated and merged with inodes reused, or the VMM's, truncated at the next start, unless it
\* grew past the offset again before anybody looked; the filter lets no sequence but colours
\* through, keeps lines and shows clean text verbatim, wherever the chunks end
\* (merge_console_log, tail_log, logs_until, TerminalSanitizer).
LogsAreWhole ==
    /\ component = "console_log" => Hist!SerialIsKept /\ Hist!HistoryIsOrdered
    /\ component = "log_follow" => Logs!TailIsLast /\ Logs!SegmentIsContiguous
    /\ component = "log_sanitizer" =>
         Filter!OnlyColour /\ Filter!LinesAreKept /\ Filter!OneMarkEach /\ Filter!CleanIsVerbatim

\* Bytes and records arrive in order, once, and an end is told only after them: at the console
\* from a client's attachment on, with the input of two clients never mixed; over a WebSocket
\* in both directions; on the control socket and in a response with one terminal record, the
\* last (broker_loop, bridge, ChannelEventSink, write_terminal_ok).
StreamsAreOrdered ==
    /\ component = "console" => Con!OutputIsContiguous /\ Con!InputIsOrdered
    /\ component = "terminal_bridge" => Term!BytesAreOrdered /\ Term!EndedMeansAll
    /\ component = "shim_control" => Ctl!Framing
    /\ component = "serve_dispatch" => Disp!OneTerminalRecord

\* No process is lost and none that is not ours is signalled, though pids are reused, shims
\* die and groups are left: a sidecar that lives is on record, one reported gone is gone; a
\* cleanup that reports success left nothing of the tree; a command that timed out left nothing
\* of its group; no ssh outlives its session (spawn_sidecar, drain_adopted_children_preserving, Cmd::output,
\* signal_group, run_shell_session).
ProcessesAreOwned ==
    /\ component = "sidecars" => Sides!AliveIsRecorded /\ Sides!FailureIsReported /\ Sides!GoneIsGone
    /\ component = "process_tree" => Tree!StrangersSpared /\ Tree!SuccessMeansGone
    /\ component = "cmd_runner" => Run!TimeoutLeavesNothing /\ Run!OwnersSpareStrangers
    /\ component = "terminal_bridge" => Term!NoChildLeft

\* An answer is about what was done: a client of the shim is told of its own launch or stop and
\* of nothing later undone; a command returns its child's own status and output; a shutdown
\* that reports success cut no action it had seen begin; a server that answers has the socket
\* and the token of its files; a start's steps are closed by what happened (run_shim,
\* Cmd::output, TrackedDispatcher, BoundSocket::bind, wait_with_backend).
AnswersAreTrue ==
    /\ component = "shim_control" => Ctl!AnswersAreTrue /\ Ctl!StoppedIsStopped
    /\ component = "cmd_runner" => Run!StatusIsWhole
    /\ component = "serve_dispatch" => Disp!CutIsReported
    /\ component = "serve" => Srv!LiveSocketsKept /\ Srv!NothingLeft /\ Srv!TokenAgrees
    /\ component = "readiness" => Ready!StepsAreClosed

\* What is changed on a host or in a guest is what was meant to be: the guest applies a lease
\* that was granted to it and never grows its file system past its disk; the name of a helper
\* holds a whole payload and an image the pinned bytes of its own build, through kills and
\* power cuts; an uninstall takes nothing without the consent for it, no running machine, and
\* the executable last (acquire_lease, grow_root_filesystem, materialize_with, apply).
ChangesAreMeant ==
    /\ component = "guest_init" => Pid1!LeaseIsGranted /\ Pid1!FsFitsDevice
    /\ component = "guest_lease" => Lease!LeaseIsGranted
    /\ component = "helpers" => Help!PublishedIsWhole /\ Help!InjectedIsPinned
    /\ component = "uninstall" => Rid!RetryIsPossible /\ Rid!NothingWithoutConsent /\ Rid!RunningIsSpared

\* What no step may do: refuse a socket as taken that nobody serves; drop a signal PID 1 read,
\* or replace a file the image brought; report a helper that is another build's, or replace one
\* the user put there; give a guest up before its time (BoundSocket::bind, supervise,
\* write_if_absent, materialize_with, SshProbe).
NeverWithoutCause ==
    [][/\ component = "serve" => Srv!ConflictIsReal
       /\ component = "guest_init" => Pid1!ImageKeepsItsOwn /\ Pid1!SignalsGoOn
       /\ component = "helpers" => Help!ReportedIsOwn /\ Help!UserFileKept
       /\ component = "readiness" => Ready!GivenUpInTime]_vars

\* While the proxy does not run, both streams are at their beginning.
Beginning(content) == [unsent |-> content, transit |-> <<>>, delivered |-> <<>>, ended |-> FALSE]
down == IF component = "vsock_proxy" THEN Vp!DownStream ELSE Beginning(VsockOutput)
up == IF component = "vsock_proxy" THEN Vp!UpStream ELSE Beginning(VsockInput)
Down == INSTANCE ByteStream WITH Content <- VsockOutput, unsent <- down.unsent, transit <- down.transit,
    delivered <- down.delivered, ended <- down.ended
Up == INSTANCE ByteStream WITH Content <- VsockInput, unsent <- up.unsent, transit <- up.transit,
    delivered <- up.delivered, ended <- up.ended

\* Each direction of the vsock proxy implements a byte stream: in order, once, and its end, the
\* half-close toward the guest, the exit toward ssh, only after the last byte, though two
\* threads copy and either side may close first (relay_vsock).
RelayIsStream == Down!Spec /\ Up!Spec

-----------------------------------------------------------------------------
(* Under FairSpec.  Each condition lasts until what is promised happens,   *)
(* so that it is false again and again exactly if it always comes true.    *)

\* Whoever asks is answered: a client of the console is acknowledged, refused or disconnected;
\* a whole request to the shim gets its answer whatever other clients do; an action whose
\* client left comes to its end (broker_loop, run_shim, is_cancelled).
Answered ==
    /\ \A c \in Peer : []<>(/\ component = "console" => ~Con!Knocking(c)
                            /\ component = "shim_control" => ~Ctl!Unanswered(c))
    /\ \A r \in {"mutation", "follow"} : []<>(component = "serve_dispatch" => ~Disp!Abandoned(r))

\* What has to end ends, whatever clients, guests and children do: the shim after its VMM, a
\* launch in a running machine or a failure on record, a shutdown, a command whose deadline
\* passed, a wait for a guest, a handshake and a relay the guest closed (run_shim,
\* wait_until_idle, Cmd::output, wait_with_backend, run_vsock_proxy).
WaitsEnd ==
    []<>(/\ component = "shim_control" => ~Ctl!Unnoticed /\ ~Ctl!Launching
         /\ component = "serve_dispatch" => ~Disp!Stopping
         /\ component = "cmd_runner" => ~Run!Due
         /\ component = "readiness" => ~Ready!Waiting
         /\ component = "vsock_proxy" => ~Vp!Shaking /\ ~Vp!Lingering)

\* A follow catches up with the log, console's or VMM's, once the machine is quiet and ends when
\* it is cancelled; a terminal session is over when the client is gone, and when the far end is,
\* unless a browser that stays does not take what the session still has to send, output or
\* the close frame: that send is awaited without a limit (logs_until, bridge, close_sink).
FollowersKeepUp ==
    /\ <>[](component = "log_follow" => Logs!CaughtUp)
    /\ []<>(/\ component = "log_follow" => ~Logs!Cancelling
            /\ component = "terminal_bridge" => ~Term!Halved)

\* PID 1 comes to start the entrypoint, powers off after its end, leaves no zombie and no
\* signal unread; an installation of a helper comes to its end over what an interrupted one
\* left; who goes on asking for a purge is rid of Firestone (run, supervise, materialize_with,
\* apply).
HostsAndGuestsSettle ==
    []<>(/\ component = "guest_init" =>
              /\ ~Pid1!Booting /\ ~Pid1!Outliving
              /\ \A o \in Orphan : ~Pid1!Unreaped(o)
              /\ \A sig \in {"TERM", "INT"} : ~Pid1!Pending(sig)
         /\ component = "helpers" => ~Help!Installing(Old)
         /\ component = "purge" => ~Rid!Remaining)

-----------------------------------------------------------------------------
(* What VsockProxy proves of the proxy holds here, where it is one part.   *)

ProxySelected == component = "vsock_proxy"

VsockMarks == {"OK", "NO", "7", "0", "i1", "i2", "o1", "o2", "o3", Vp!NL}

LEMMA ProxyData == Vp!Relayable(VsockMarks)
<1>1. VsockInput \in Seq(VsockMarks) /\ VsockOutput \in Seq(VsockMarks) /\ Vp!NL \in VsockMarks
  BY DEF VsockInput, VsockOutput, VsockMarks
<1>2. \A w \in {"OK", "NO", "7", "0"} : w \in VsockMarks \ {Vp!NL}
  BY DEF VsockMarks, Vp!NL
<1> DEFINE S == VsockMarks \ {Vp!NL}
<1> HIDE DEF S
<1>3. <<"OK", "7">> \in Seq(S) /\ <<"OK", "0">> \in Seq(S) /\ <<"NO">> \in Seq(S) /\ <<"OK", "7", "7", "7">> \in Seq(S)
  BY <1>2 DEF S
<1>4. VsockLines \subseteq Seq(S)
  BY <1>3 DEF VsockLines
<1> QED BY <1>1, <1>4 DEF Vp!Relayable, S

\* The part that runs is chosen once.
LEMMA OnePart == [Next]_vars => UNCHANGED component
BY DEF Next, vars, SidecarsStep, ProcessTreeStep, ShimControlStep, ConsoleStep,
         ConsoleLogStep, LogFollowStep, LogSanitizerStep, CmdRunnerStep, ReadinessStep,
         VsockProxyStep, TerminalBridgeStep, ServeStep, ServeDispatchStep, GuestInitStep,
         GuestLeaseStep, HelpersStep, UninstallStep, PurgeStep, SidecarsRuns, ProcessTreeRuns,
         ShimControlRuns, ConsoleRuns, ConsoleLogRuns, LogFollowRuns,
         LogSanitizerRuns, CmdRunnerRuns, ReadinessRuns, VsockProxyRuns, TerminalBridgeRuns,
         ServeRuns, ServeDispatchRuns, GuestInitRuns, GuestLeaseRuns, HelpersRuns, UninstallRuns,
         PurgeRuns

\* The relay of the vsock proxy implements the two byte streams (relay_vsock).
THEOREM ProxyRelaysStreams == Spec => RelayIsStream
<1> DEFINE Sel == ProxySelected
<1>1. Vp!Spec => Vp!Down!Spec /\ Vp!Up!Spec
  BY ProxyData, Vp!RelaysTwoStreams
<1>2. Init /\ Sel => Vp!Init
  BY DEF Init, ProxySelected
<1>3. [Next]_vars /\ Sel => Sel' /\ [Vp!Next]_(Vp!vars)
  <2> SUFFICES ASSUME Sel, [Next]_vars PROVE Sel' /\ [Vp!Next]_(Vp!vars)
    OBVIOUS
  <2>1. Sel'
    BY OnePart DEF ProxySelected
  <2>2. CASE Next
    BY <2>1, <2>2 DEF Next, ProxySelected, SidecarsStep, ProcessTreeStep, ShimControlStep,
           ConsoleStep,
         ConsoleLogStep, LogFollowStep, LogSanitizerStep, CmdRunnerStep, ReadinessStep,
         VsockProxyStep, TerminalBridgeStep, ServeStep, ServeDispatchStep, GuestInitStep,
         GuestLeaseStep, HelpersStep, UninstallStep, PurgeStep, SidecarsRuns, ProcessTreeRuns,
         ShimControlRuns, ConsoleRuns, ConsoleLogRuns, LogFollowRuns,
         LogSanitizerRuns, CmdRunnerRuns, ReadinessRuns, VsockProxyRuns, TerminalBridgeRuns,
         ServeRuns, ServeDispatchRuns, GuestInitRuns, GuestLeaseRuns, HelpersRuns, UninstallRuns,
         PurgeRuns
  <2>3. CASE UNCHANGED vars
    BY <2>1, <2>3 DEF vars, Vp!vars, Vp!peer, Vp!ssh, Vp!threads
  <2> QED BY <2>2, <2>3
<1>4. [Next]_vars /\ ~Sel => ~Sel'
  BY OnePart DEF ProxySelected
<1>5. Sel => down = Vp!DownStream /\ up = Vp!UpStream
  BY DEF ProxySelected, down, up
<1>6. Sel /\ Vp!Down!Init => Down!Init
  BY <1>5 DEF Vp!Down!Init, Down!Init
<1>7. Sel /\ Vp!Up!Init => Up!Init
  BY <1>5 DEF Vp!Up!Init, Up!Init
<1>8. Sel /\ Sel' /\ [Vp!Down!Next]_(Vp!Down!stream) => [Down!Next]_(Down!stream)
  <2>1. Sel' => down' = Vp!DownStream'
    BY DEF ProxySelected, down
  <2> QED BY <1>5, <2>1 DEF Vp!Down!Next, Down!Next, Vp!Down!Send, Down!Send, Vp!Down!Deliver, Down!Deliver,
            Vp!Down!Finish, Down!Finish, Vp!Down!stream, Down!stream
<1>9. Sel /\ Sel' /\ [Vp!Up!Next]_(Vp!Up!stream) => [Up!Next]_(Up!stream)
  <2>1. Sel' => up' = Vp!UpStream'
    BY DEF ProxySelected, up
  <2> QED BY <1>5, <2>1 DEF Vp!Up!Next, Up!Next, Vp!Up!Send, Up!Send, Vp!Up!Deliver, Up!Deliver,
            Vp!Up!Finish, Up!Finish, Vp!Up!stream, Up!stream
<1>10. ~Sel => Down!Init /\ Up!Init
  <2>1. VsockOutput \o <<>> = VsockOutput /\ VsockInput \o <<>> = VsockInput
    BY DEF VsockInput, VsockOutput
  <2> QED BY <2>1 DEF ProxySelected, down, up, Beginning, Down!Init, Up!Init
<1>11. ~Sel /\ ~Sel' => [Down!Next]_(Down!stream) /\ [Up!Next]_(Up!stream)
  BY DEF ProxySelected, down, up, Down!stream, Up!stream
<1>12. Spec /\ Sel => Vp!Spec /\ []Sel
  BY <1>2, <1>3, PTL DEF Spec, Vp!Spec
<1>13. Vp!Down!Spec /\ []Sel => Down!Spec
  BY <1>6, <1>8, PTL DEF Vp!Down!Spec, Down!Spec
<1>14. Vp!Up!Spec /\ []Sel => Up!Spec
  BY <1>7, <1>9, PTL DEF Vp!Up!Spec, Up!Spec
<1>15. Spec /\ ~Sel => []~Sel
  BY <1>4, PTL DEF Spec
<1>16. []~Sel => Down!Spec /\ Up!Spec
  BY <1>10, <1>11, PTL DEF Down!Spec, Up!Spec
<1> QED BY <1>1, <1>12, <1>13, <1>14, <1>15, <1>16, PTL DEF RelayIsStream

-----------------------------------------------------------------------------
(* The parts' invariants, of the one that runs.                            *)

\* The inductive invariant of every part proved above, while it is the one that runs.
PartsInv ==
    /\ component = "sidecars" => Sides!Inv
    /\ component = "process_tree" => Tree!Inv
    /\ component = "console" => Con!Inv
    /\ component = "terminal_bridge" => Term!Inv
    /\ component = "serve" => Srv!Inv
    /\ component = "shim_control" => Ctl!Inv
    /\ component = "cmd_runner" => Run!Inv
    /\ component = "serve_dispatch" => Disp!Inv
    /\ component = "readiness" => Ready!Inv
    /\ component = "uninstall" => Rid!Inv
    /\ component = "helpers" => Help!Inv
    /\ component = "guest_init" => Pid1!Inv
    /\ component = "guest_lease" => Lease!Inv

\* A step of the whole is one of the part that runs.
LEMMA OneMoves ==
  ASSUME Next
  PROVE  \/ component = "sidecars" /\ Sides!Next
         \/ component = "process_tree" /\ Tree!Next
         \/ component = "shim_control" /\ Ctl!Next
         \/ component = "console" /\ Con!Next
         \/ component = "console_log" /\ Hist!Next
         \/ component = "log_follow" /\ Logs!Next
         \/ component = "log_sanitizer" /\ Filter!Next
         \/ component = "cmd_runner" /\ Run!Next
         \/ component = "readiness" /\ Ready!Next
         \/ component = "vsock_proxy" /\ Vp!Next
         \/ component = "terminal_bridge" /\ Term!Next
         \/ component = "serve" /\ Srv!Next
         \/ component = "serve_dispatch" /\ Disp!Next
         \/ component = "guest_init" /\ Pid1!Next
         \/ component = "guest_lease" /\ Lease!Next
         \/ component = "helpers" /\ Help!Next
         \/ component = "uninstall" /\ Rid!Next
         \/ component = "purge" /\ Rid!PurgeNext
BY DEF Next, SidecarsStep, ProcessTreeStep, ShimControlStep, ConsoleStep, ConsoleLogStep, LogFollowStep,
       LogSanitizerStep, CmdRunnerStep, ReadinessStep, VsockProxyStep, TerminalBridgeStep, ServeStep,
       ServeDispatchStep, GuestInitStep, GuestLeaseStep, HelpersStep, UninstallStep, PurgeStep,
       SidecarsRuns, ProcessTreeRuns, ShimControlRuns, ConsoleRuns, ConsoleLogRuns, LogFollowRuns,
       LogSanitizerRuns, CmdRunnerRuns, ReadinessRuns, VsockProxyRuns, TerminalBridgeRuns, ServeRuns,
       ServeDispatchRuns, GuestInitRuns, GuestLeaseRuns, HelpersRuns, UninstallRuns, PurgeRuns

\* A step of the whole is a step of Sides when that part runs.
LEMMA SidecarsMoves == ASSUME component = "sidecars", [Next]_vars PROVE [Sides!Next]_(Sides!vars)
<1>1. CASE Next
  BY <1>1, OneMoves
<1>2. CASE UNCHANGED vars
  BY <1>2 DEF vars, Sides!vars, Sides!files, Sides!procs
<1> QED BY <1>1, <1>2

\* A step of the whole is a step of Tree when that part runs.
LEMMA ProcessTreeMoves == ASSUME component = "process_tree", [Next]_vars PROVE [Tree!Next]_(Tree!vars)
<1>1. CASE Next
  BY <1>1, OneMoves
<1>2. CASE UNCHANGED vars
  BY <1>2 DEF vars, Tree!vars, Tree!tree, Tree!snapshot
<1> QED BY <1>1, <1>2

\* A step of the whole is a step of Con when that part runs.
LEMMA ConsoleMoves == ASSUME component = "console", [Next]_vars PROVE [Con!Next]_(Con!vars)
<1>1. CASE Next
  BY <1>1, OneMoves
<1>2. CASE UNCHANGED vars
  BY <1>2 DEF vars, Con!vars, Con!broker, Con!clients
<1> QED BY <1>1, <1>2

\* A step of the whole is a step of Term when that part runs.
LEMMA TerminalBridgeMoves == ASSUME component = "terminal_bridge", [Next]_vars PROVE [Term!Next]_(Term!vars)
<1>1. CASE Next
  BY <1>1, OneMoves
<1>2. CASE UNCHANGED vars
  BY <1>2 DEF vars, Term!vars, Term!stream, Term!browser, Term!tasks, Term!seen, Term!geometry
<1> QED BY <1>1, <1>2

\* A step of the whole is a step of Srv when that part runs.
LEMMA ServeMoves == ASSUME component = "serve", [Next]_vars PROVE [Srv!Next]_(Srv!vars)
<1>1. CASE Next
  BY <1>1, OneMoves
<1>2. CASE UNCHANGED vars
  BY <1>2 DEF vars, Srv!vars, Srv!files, Srv!tokens
<1> QED BY <1>1, <1>2

\* A step of the whole is a step of Ctl when that part runs.
LEMMA ShimControlMoves == ASSUME component = "shim_control", [Next]_vars PROVE [Ctl!Next]_(Ctl!vars)
<1>1. CASE Next
  BY <1>1, OneMoves
<1>2. CASE UNCHANGED vars
  BY <1>2 DEF vars, Ctl!vars, Ctl!shim, Ctl!client
<1> QED BY <1>1, <1>2

\* A step of the whole is a step of Run when that part runs.
LEMMA CmdRunnerMoves == ASSUME component = "cmd_runner", [Next]_vars PROVE [Run!Next]_(Run!vars)
<1>1. CASE Next
  BY <1>1, OneMoves
<1>2. CASE UNCHANGED vars
  BY <1>2 DEF vars, Run!vars, Run!tree, Run!stdin, Run!streams
<1> QED BY <1>1, <1>2

\* A step of the whole is a step of Disp when that part runs.
LEMMA ServeDispatchMoves == ASSUME component = "serve_dispatch", [Next]_vars PROVE [Disp!Next]_(Disp!vars)
<1>1. CASE Next
  BY <1>1, OneMoves
<1>2. CASE UNCHANGED vars
  BY <1>2 DEF vars, Disp!vars, Disp!server, Disp!action
<1> QED BY <1>1, <1>2

\* A step of the whole is a step of Ready when that part runs.
LEMMA ReadinessMoves == ASSUME component = "readiness", [Next]_vars PROVE [Ready!Next]_(Ready!vars)
<1>1. CASE Next
  BY <1>1, OneMoves
<1>2. CASE UNCHANGED vars
  BY <1>2 DEF vars, Ready!vars, Ready!guest, Ready!shown
<1> QED BY <1>1, <1>2

\* A step of the whole is a step of Rid when that part runs.
LEMMA UninstallMoves == ASSUME component = "uninstall", [Next]_vars PROVE [Rid!Next]_(Rid!vars)
<1>1. CASE Next
  BY <1>1, OneMoves
<1>2. CASE UNCHANGED vars
  BY <1>2 DEF vars, Rid!vars, Rid!host
<1> QED BY <1>1, <1>2

\* A step of the whole is a step of Help when that part runs.
LEMMA HelpersMoves == ASSUME component = "helpers", [Next]_vars PROVE [Help!Next]_(Help!vars)
<1>1. CASE Next
  BY <1>1, OneMoves
<1>2. CASE UNCHANGED vars
  BY <1>2 DEF vars, Help!vars
<1> QED BY <1>1, <1>2

\* A step of the whole is a step of Pid1 when that part runs.
LEMMA GuestInitMoves == ASSUME component = "guest_init", [Next]_vars PROVE [Pid1!Next]_(Pid1!vars)
<1>1. CASE Next
  BY <1>1, OneMoves
<1>2. CASE UNCHANGED vars
  BY <1>2 DEF vars, Pid1!vars, Pid1!bootVars, Pid1!netVars, Pid1!procVars
<1> QED BY <1>1, <1>2

\* A step of the whole is a step of Lease when that part runs.
LEMMA GuestLeaseMoves == ASSUME component = "guest_lease", [Next]_vars PROVE [Lease!Next]_(Lease!vars)
<1>1. CASE Next
  BY <1>1, OneMoves
<1>2. CASE UNCHANGED vars
  BY <1>2 DEF vars, Lease!vars, Lease!bootVars, Lease!netVars, Lease!procVars
<1> QED BY <1>1, <1>2

\* What a part proves of its own steps holds of the whole: the invariant of the part that runs
\* is there from the start and no step, of whichever part, breaks it.
THEOREM PartsHold == Spec => []PartsInv
<1>1. Init => PartsInv
  <2> SUFFICES ASSUME Init PROVE PartsInv
    OBVIOUS
  <2>1. component = "sidecars" => Sides!Inv
    <3>1. component = "sidecars" => Sides!Init
      BY DEF Init
    <3> QED BY <3>1, SidecarsBegin, RealConstants
  <2>2. component = "process_tree" => Tree!Inv
    <3>1. component = "process_tree" => Tree!Init
      BY DEF Init
    <3> QED BY <3>1, ProcessTreeBegin, RealConstants
  <2>3. component = "console" => Con!Inv
    <3>1. component = "console" => Con!Init
      BY DEF Init
    <3> QED BY <3>1, ConsoleBegin
  <2>4. component = "terminal_bridge" => Term!Inv
    <3>1. component = "terminal_bridge" => Term!Init
      BY DEF Init
    <3> QED BY <3>1, TerminalBridgeBegin
  <2>5. component = "serve" => Srv!Inv
    <3>1. component = "serve" => Srv!Init
      BY DEF Init
    <3> QED BY <3>1, ServeBegin, RealConstants
  <2>6. component = "shim_control" => Ctl!Inv
    <3>1. component = "shim_control" => Ctl!Init
      BY DEF Init
    <3> QED BY <3>1, ShimControlBegin, RealConstants
  <2>7. component = "cmd_runner" => Run!Inv
    <3>1. component = "cmd_runner" => Run!Init
      BY DEF Init
    <3> QED BY <3>1, CmdRunnerBegin
  <2>8. component = "serve_dispatch" => Disp!Inv
    <3>1. component = "serve_dispatch" => Disp!Init
      BY DEF Init
    <3> QED BY <3>1, ServeDispatchBegin
  <2>9. component = "readiness" => Ready!Inv
    <3>1. component = "readiness" => Ready!Init
      BY DEF Init
    <3> QED BY <3>1, ReadinessBegin
  <2>10. component = "uninstall" => Rid!Inv
    <3>1. component = "uninstall" => Rid!Init
      BY DEF Init
    <3> QED BY <3>1, UninstallBegin
  <2>11. component = "helpers" => Help!Inv
    <3>1. component = "helpers" => Help!Init
      BY DEF Init
    <3> QED BY <3>1, HelpersBegin, RealConstants
  <2>12. component = "guest_init" => Pid1!Inv
    <3>1. component = "guest_init" => Pid1!Init
      BY DEF Init
    <3> QED BY <3>1, GuestInitBegin, RealConstants
  <2>13. component = "guest_lease" => Lease!Inv
    <3>1. component = "guest_lease" => Lease!Init
      BY DEF Init
    <3> QED BY <3>1, GuestLeaseBegin, RealConstants
  <2> QED BY <2>1, <2>2, <2>3, <2>4, <2>5, <2>6, <2>7, <2>8, <2>9, <2>10, <2>11, <2>12, <2>13 DEF
                 PartsInv
<1>2. PartsInv /\ [Next]_vars => PartsInv'
  <2> SUFFICES ASSUME PartsInv, [Next]_vars PROVE PartsInv'
    OBVIOUS
  <2>0. component' = component
    BY OnePart
  <2>1. ASSUME component = "sidecars" PROVE Sides!Inv'
    <3>1. Sides!Inv /\ [Sides!Next]_(Sides!vars)
      BY <2>1, SidecarsMoves DEF PartsInv
    <3> QED BY <3>1, SidecarsStepInv, RealConstants
  <2>2. ASSUME component = "process_tree" PROVE Tree!Inv'
    <3>1. Tree!Inv /\ [Tree!Next]_(Tree!vars)
      BY <2>2, ProcessTreeMoves DEF PartsInv
    <3> QED BY <3>1, ProcessTreeStepInv, RealConstants
  <2>3. ASSUME component = "console" PROVE Con!Inv'
    <3>1. Con!Inv /\ [Con!Next]_(Con!vars)
      BY <2>3, ConsoleMoves DEF PartsInv
    <3> QED BY <3>1, ConsoleStepInv
  <2>4. ASSUME component = "terminal_bridge" PROVE Term!Inv'
    <3>1. Term!Inv /\ [Term!Next]_(Term!vars)
      BY <2>4, TerminalBridgeMoves DEF PartsInv
    <3> QED BY <3>1, TerminalBridgeStepInv
  <2>5. ASSUME component = "serve" PROVE Srv!Inv'
    <3>1. Srv!Inv /\ [Srv!Next]_(Srv!vars)
      BY <2>5, ServeMoves DEF PartsInv
    <3> QED BY <3>1, ServeStepInv, RealConstants
  <2>6. ASSUME component = "shim_control" PROVE Ctl!Inv'
    <3>1. Ctl!Inv /\ [Ctl!Next]_(Ctl!vars)
      BY <2>6, ShimControlMoves DEF PartsInv
    <3> QED BY <3>1, ShimControlStepInv, RealConstants
  <2>7. ASSUME component = "cmd_runner" PROVE Run!Inv'
    <3>1. Run!Inv /\ [Run!Next]_(Run!vars)
      BY <2>7, CmdRunnerMoves DEF PartsInv
    <3> QED BY <3>1, CmdRunnerStepInv
  <2>8. ASSUME component = "serve_dispatch" PROVE Disp!Inv'
    <3>1. Disp!Inv /\ [Disp!Next]_(Disp!vars)
      BY <2>8, ServeDispatchMoves DEF PartsInv
    <3> QED BY <3>1, ServeDispatchStepInv
  <2>9. ASSUME component = "readiness" PROVE Ready!Inv'
    <3>1. Ready!Inv /\ [Ready!Next]_(Ready!vars)
      BY <2>9, ReadinessMoves DEF PartsInv
    <3> QED BY <3>1, ReadinessStepInv
  <2>10. ASSUME component = "uninstall" PROVE Rid!Inv'
    <3>1. Rid!Inv /\ [Rid!Next]_(Rid!vars)
      BY <2>10, UninstallMoves DEF PartsInv
    <3> QED BY <3>1, UninstallStepInv
  <2>11. ASSUME component = "helpers" PROVE Help!Inv'
    <3>1. Help!Inv /\ [Help!Next]_(Help!vars)
      BY <2>11, HelpersMoves DEF PartsInv
    <3> QED BY <3>1, HelpersStepInv, RealConstants
  <2>12. ASSUME component = "guest_init" PROVE Pid1!Inv'
    <3>1. Pid1!Inv /\ [Pid1!Next]_(Pid1!vars)
      BY <2>12, GuestInitMoves DEF PartsInv
    <3> QED BY <3>1, GuestInitStepInv, RealConstants
  <2>13. ASSUME component = "guest_lease" PROVE Lease!Inv'
    <3>1. Lease!Inv /\ [Lease!Next]_(Lease!vars)
      BY <2>13, GuestLeaseMoves DEF PartsInv
    <3> QED BY <3>1, GuestLeaseStepInv, RealConstants
  <2> QED BY <2>0, <2>1, <2>2, <2>3, <2>4, <2>5, <2>6, <2>7, <2>8, <2>9, <2>10, <2>11, <2>12, <2>13 DEF
                 PartsInv
<1> QED BY <1>1, <1>2, PTL DEF Spec

\* Bytes and records arrive in order, once, and an end is told only after them, in any state
\* the program reaches, however long the streams: at the console, over a WebSocket, on the
\* control socket and in a response (broker_loop, bridge, ChannelEventSink, write_terminal_ok).
THEOREM StreamsOrdered == Spec => []StreamsAreOrdered
<1>1. PartsInv => StreamsAreOrdered
  BY ConsoleKept, TerminalBridgeKept, ShimControlKept, ServeDispatchKept DEF PartsInv, StreamsAreOrdered
<1> QED BY <1>1, PartsHold, PTL

\* No process is lost and none that is not ours is signalled, in any state the program reaches,
\* with any number of launches and incarnations (spawn_sidecar, drain_adopted_children_preserving,
\* Cmd::output, signal_group, run_shell_session).
THEOREM ProcessesOwned == Spec => []ProcessesAreOwned
<1>1. PartsInv => ProcessesAreOwned
  BY SidecarsKept, ProcessTreeKept, CmdRunnerKept, TerminalBridgeKept DEF PartsInv, ProcessesAreOwned
<1> QED BY <1>1, PartsHold, PTL

\* No answer is about anything but what was done, in any state the program reaches: the shim's
\* to its clients, a command's status, a shutdown's report, a server's socket and token, the
\* steps of a start (run_shim, Cmd::output, TrackedDispatcher, BoundSocket::bind, wait_with_backend).
THEOREM AnswersTrue == Spec => []AnswersAreTrue
<1>1. PartsInv => AnswersAreTrue
  BY ShimControlKept, CmdRunnerKept, ServeDispatchKept, ServeKept, ReadinessKept DEF
         PartsInv, AnswersAreTrue
<1> QED BY <1>1, PartsHold, PTL

\* What is changed on a host or in a guest is what was meant to be, in any state the program
\* reaches: the lease a guest applies, its file system, the names of helpers and what is injected
\* from them, what an uninstall took (acquire_lease, grow_root_filesystem, materialize_with, apply).
THEOREM ChangesMeant == Spec => []ChangesAreMeant
<1>1. PartsInv => ChangesAreMeant
  BY GuestInitKept, GuestLeaseKept, HelpersKept, UninstallKept DEF PartsInv, ChangesAreMeant
<1> QED BY <1>1, PartsHold, PTL

\* No step refuses a socket nobody serves, drops a signal PID 1 read or replaces a file of the
\* image, reports or replaces a helper that is not its own, or gives a guest up before its time
\* (BoundSocket::bind, supervise, write_if_absent, materialize_with, SshProbe).
THEOREM NeverUncaused == Spec => NeverWithoutCause
<1> DEFINE Fair ==
      /\ component = "serve" => Srv!ConflictIsReal
      /\ component = "guest_init" => Pid1!ImageKeepsItsOwn /\ Pid1!SignalsGoOn
      /\ component = "helpers" => Help!ReportedIsOwn /\ Help!UserFileKept
      /\ component = "readiness" => Ready!GivenUpInTime
<1>1. PartsInv /\ [Next]_vars => Fair
  <2> SUFFICES ASSUME PartsInv, [Next]_vars PROVE Fair
    OBVIOUS
  <2>1. ASSUME component = "serve" PROVE Srv!ConflictIsReal
    <3>1. Srv!Inv /\ [Srv!Next]_(Srv!vars)
      BY <2>1, ServeMoves DEF PartsInv
    <3> QED BY <3>1, ServeNever, RealConstants
  <2>2. ASSUME component = "guest_init" PROVE Pid1!ImageKeepsItsOwn /\ Pid1!SignalsGoOn
    <3>1. Pid1!Inv /\ [Pid1!Next]_(Pid1!vars)
      BY <2>2, GuestInitMoves DEF PartsInv
    <3> QED BY <3>1, GuestInitNever, RealConstants DEF Pid1!Never
  <2>3. ASSUME component = "helpers" PROVE Help!ReportedIsOwn /\ Help!UserFileKept
    <3>1. Help!Inv /\ [Help!Next]_(Help!vars)
      BY <2>3, HelpersMoves DEF PartsInv
    <3> QED BY <3>1, HelpersNever, RealConstants DEF Help!Never
  <2>4. ASSUME component = "readiness" PROVE Ready!GivenUpInTime
    <3>1. Ready!Inv /\ [Ready!Next]_(Ready!vars)
      BY <2>4, ReadinessMoves DEF PartsInv
    <3> QED BY <3>1, ReadinessNever
  <2> QED BY <2>1, <2>2, <2>3, <2>4
<1>2. PartsInv /\ [Next]_vars => [Fair]_vars
  BY <1>1
<1> QED BY <1>2, PartsHold, PTL DEF Spec, NeverWithoutCause

=============================================================================
