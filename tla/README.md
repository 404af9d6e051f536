# Firestone: a TLA+ model

Firestone runs small virtual machines on one Linux host without a daemon. Every
command, and every worker of the REST server, is a process of its own; what they
share is a directory tree, a few flocks, and one long-lived supervisor (the *shim*)
per running machine. Its correctness is therefore about interleavings of short-lived
processes that may be killed anywhere. This project models the program component by
component, checks the models with TLC and proves the safety of its core with TLAPS.

Paths are relative to the repository; `core/` stands for `crates/firestone-core/src/`,
`cli/` for `crates/firestone/src/` and `init/` for `crates/firestone-init/src/`.

## 1. Inventory

| Component | State | Operations | What is hard about it |
|---|---|---|---|
| machine lifecycle (`cli/store.rs`, `core/shim.rs`) | `state.json`, `process-identity.json`, runtime directory | start, stop, restart, adoption by a replacement shim | the lock is handed from CLI to shim; three processes, any of which dies; cleanup after a failed start |
| shim supervisor (`core/shim.rs`) | its VMM, the launch, the client it serves | launch, status, stop, VMM exit, adoption, draining of processes | keeps the machine lock for life and must give it back on every path; pids are reused |
| state store (`core/state.rs`, `core/doctor.rs`) | `state.json` | observe liveness, reconcile, write | decides from a stored status, a pid and a ping |
| machine lock (`core/lock.rs`) | flock on `machines/<name>/lock` | acquire with a deadline, release by drop or death | the file may be renamed away under a waiter |
| machine directory (`cli/store.rs`) | the directory, `.creating`, both documents, the disk | create, clone, rm | every step may be the last |
| atomic files (`core/atomic.rs`) | the file, its `.tmp`, what reached the disk | write, fsync, rename, fsync of the directory | power loss; one temp name for all writers |
| specification writes (`cli/store.rs`) | `firestone.toml`, its edit candidate | edit, set, patch, resize | no lock while the machine runs |
| snapshots (`core/snapshot.rs`, `cli/store.rs`) | snapshot directories, restore marker, paused VMM | cold and warm capture, restore, remove | the pause window, an interrupted restore, a late resume |
| sidecars (`core/network.rs`, `core/virtiofs.rs`, `core/shim.rs`) | passt and virtiofsd | start before the VMM, drain after it, adopt | a sidecar that lives without a record |
| image store (`core/image.rs`) | bases, sidecar documents, tombs, store lock, overlays | pull, inspect, rm, prune, prepare, clone | one file at a time; references are read while machines come and go |
| image sources and catalog (`core/image.rs`, `core/catalog.rs`) | staged bytes, catalogs, pins | resolve, download, verify, look up | the source changes between two reads |
| OCI (`core/oci/`) | references, documents, layers | resolve, authenticate, merge | answers that lie; whiteouts and links over layers |
| console (`core/console.rs`, `core/shim.rs`) | the PTY, one client, the logs | attach, copy, rotate, merge | bounded buffers, boots that end without their shim |
| VMM API (`core/vmm_api.rs`, `core/vmm.rs`) | the published `VmConfig` | calls, overlay, comparison | tells absence from silence |
| prune (`cli/store.rs`) | none | plan, apply | the plan is stale when it is applied |
| REST server (`cli/serve.rs`, `cli/api/`) | socket, token, actions, terminals | bind, dispatch, shut down, bridge | two servers on one socket; what is cut by a shutdown |
| guest init (`init/`) | children, lease, file system | boot, reap, forward, grow, power off | PID 1 may not exit; signals merge |
| specification (`core/spec/`, `core/network.rs`, `core/virtiofs.rs`) | none | layer, validate, compare | what was checked is not what is used |
| cloud-init and ssh (`core/cloudinit.rs`, `core/ssh.rs`, `core/readiness.rs`) | seed image, key pair, `known_hosts` | render, publish, wait, relay | kills between files; two threads on one stream |
| command runner (`core/cmd.rs`) | pipes, threads, a process group | spawn, deadline, kill | descendants that keep a pipe open |
| helpers, doctor, uninstall | installed programs, profiles, directories | install, repair, remove | other builds, interrupted repairs, consent |

How they interact. A *run* works on the machine's files by path name, under the machine
lock. `start` prepares the runtime directory, writes `starting`, spawns the shim, writes
its pid and **drops** the lock; the shim **takes** it and keeps it until it exits. The run
talks to the shim through `shim.sock`, the shim to the VMM through `api.sock`, and readers
ask the VMM directly. Nobody tells anybody that a process died: everyone finds out from
flocks, pids with start times, and sockets. The image store has a lock of its own, taken
without the machine locks, and a machine's snapshots another.

## 2. Modules

### The core, each with a run of its own

| Module | Models | Correspondence |
|---|---|---|
| `Lifecycle` | start, stop, restart, recovery of one machine | one name per run stands for the run's process (`pc`), the shim it spawns (`shim`) and the VMM that shim spawns (`vmm`), so a pid in a file is the run it belongs to; `status`, `shimPid`, `vmmPid` are `state.json`; `idShim`, `idVmm` are `process-identity.json`; `dir`, `sock`, `api` the runtime directory |
| `MachineDir` | create, clone, rm and "any other locked action" on one name | a directory and its lock file have one identity, drawn from `Dir`; `name` and `tomb` are the two path names; `marker`, `spec`, `state`, `disk` the directories that have each file |
| `SpecFile` | the writers of `firestone.toml` down to system calls | an inode is named after the writer that created it; `target` and `temp` are the two names; `whole`, `synced`, `durable` what a reader or a power loss would find |

### The parts, composed in three modules

`Artifacts`, `Configuration` and `Processes` instantiate the other components. Their parts
share no variables: where two components meet, the module of one has the steps of the
other that matter to it (the image store has clones and snapshots, the snapshots have
start, stop and the shim, the prune has the commands it races with). So a behaviour of a
composite is a behaviour of one of its parts, chosen in `Init`; the variables `v1`, `v2`, ... are
the part's, in the order its module declares them. One run then checks
all parts, and a property of the composite is a conjunction with one entry per part.

| Composite | Module | Models |
|---|---|---|
| `Artifacts` | `ImageStore` | `core/image.rs`: publication, removal, recovery, the scan for references, overlays; machines and snapshots that reference images |
| | `ImageSource` | how an argument becomes a source, how bytes are staged and verified, and what the sidecar document says of them |
| | `Catalog` | the merged catalogs and what a machine keeps of them |
| | `OciReference`, `OciRegistry`, `OciLayers` | the text of a reference; one resolution against a registry; the merge of layers |
| | `Snapshots` | cold and warm capture, restore with its marker, removal, and the launch that consumes the marker |
| | `Prune` | plan and application beside the other commands |
| `Configuration` | `SpecLayers`, `SpecValidation` | layers of a specification and the checks of a load, composed with the rendering of cloud-init data |
| | `EditSession`, `Resize` | `edit` and `resize` of stopped and running machines |
| | `PortForwards`, `Mounts`, `VmConfig` | forwards, shared directories, and the VmConfig with its overlay and comparison |
| | `CloudInit`, `Seed`, `GuestConfig`, `SshIdentity` | what a guest is provisioned with, the order its files are published in, the OCI guest's document, the key pair |
| | `Doctor` | the repairs |
| `Processes` | `Sidecars`, `ProcessTree`, `ShimControl` | the shim's processes and its control socket |
| | `Console`, `ConsoleLog`, `LogFollow`, `LogSanitizer` | the console broker, its history over boots, `logs` and the terminal filter |
| | `CmdRunner`, `Readiness`, `VsockProxy` | external commands, the wait for a guest, the ProxyCommand of ssh |
| | `Serve`, `ServeDispatch`, `TerminalBridge` | the REST server's socket, actions and terminals |
| | `GuestInit`, `Helpers`, `Uninstall` | PID 1 of an OCI guest, installation and removal |
| | `ByteStream` | the abstract specification of one direction of a relay |

`VsockProxy` is shown to implement `ByteStream` twice, once per direction, with the mapping
`DownStream` and `UpStream`: what the writer has not written, what is in transit, what
has arrived, and whether the end was seen. On the way to ssh the guest's bytes in transit
are the last `OnWire` bytes of the wire, behind what is left of the VMM's line.

Proofs are in `LifecycleProofs`, `ImageStoreProofs` and `SnapshotsProofs`, at the end of
`MachineDir`, `SpecFile`, `VsockProxy` and `Artifacts`, and in `Processes` behind each part. The
map of `PROJECT.json` lists an operator separately only where its lines are not
within those of an action that uses it.

Conventions. One action per stretch of code between two points where another process
can see or change shared state: a system call in `SpecFile` and `Serve`, a file in `MachineDir`
and `ImageStore`, a write of a state file, a spawn, a signal or a lock operation in
`Lifecycle`. Deadlines are a choice that is always there, unless a property is about
them (`Readiness`, `VsockProxy`, `CmdRunner`, which have a clock). Bytes are numbered or
marked, text is a sequence of tokens, a digest is the content it names. Operators whose
comment begins with *Mutant* are variants of a definition with a plausible fault in it;
nothing uses them, they document which fault each property catches.

`Lifecycle` in more detail.

* `ReadLive`, `Reconcile` are `read_reconciled_machine_state_*`: a ping that is silent
  (`Ping = "unknown"`) fails the caller; a missing or refusing socket with no live shim and
  an active status is rewritten to `stopped` under the lock.
* `StartLocked` .. `HandOff` are `start` up to the drop of the lock; `RollBack` is
  `rollback_before_shim` and `cancel_prepared`, `LaunchAborts` the early returns of
  `launch_prepared_cancellable` that roll nothing back.
* `ShimReady`, `Unready`, `Cancel`, `KillOrphans`, `CleanUp` are the wait for the socket and
  the two cleanups, `terminate_unready_shim` and `terminate_cancelled_shim`.
* `ShimBegin`, `ShimRecovers`, `ShimRefused` are `run_shim` up to the published identity.
  `SpawnVmm` .. `WriteRunning` are `launch_vmm`, in its order: spawn, `vmm_pid`, identity,
  ping, `vm.create`, `vm.boot`, `running`.
* `EndVmm`, `Final`, `FailKeeping`, `ClearAndExit` are the ways a shim ends: with the VMM
  proved gone the final status is written and then the directory removed; otherwise
  the status is `failed` and the evidence stays.
* `StopLocked` .. `OrphanStopped` are the stop without a shim, `SpawnRecovery` is
  `recover_shim`.
* Faults: any process is killed, a VMM hangs (answers nothing and may outlive SIGKILL for
  longer than anyone waits), the host reboots.

History variables mark what the code does not defend against, and guarantees are stated up
to these events: `raced` in `Lifecycle` (a failed start cleaned up although a later start had
prepared the directory), `overtaken` in `MachineDir` (an rm renamed a directory others waited
for), `overlapped` in `SpecFile` (two writers at work at once), `forced` and `broken` in
`ImageStore` (an image was removed with `--force`; a clone died between its state and
its disk, or was made of one that did), `cut` in `Snapshots` (a launch ended between the
resume of a restored VM and the removal of the marker), `seg.cut` in `LogFollow` (the file
a follower holds was emptied and may have grown past its offset before the next look).

## 3. Runs

| Run | Question | Bounds | Result |
|---|---|---|---|
| `lifecycle` | a start and a restart race | 2 runs, 3 faults; 215k states | `OneVm`, `EvidenceKeptUnlessRaced`, `AtRest`, `OneWriterUnlessRaced` hold |
| `lifecycle_recovery` | two starts and a replacement shim | 3 runs, 2 faults; 1.1M states | the evidence survives adoption |
| `lifecycle_live` | does everybody get on | 2 runs, 1 fault; 60k states | `LockComesFree`, `RunsEnd` hold |
| `machine_dir` | create, create, clone, rm, rm, another action | 6 processes, 3 directories; 2.0M states | exclusion and whole machines until overtaken |
| `spec_file` | two patches and a set, power loss | 3 writers; 447k states | atomic and durable while writers do not overlap; the lock serialises those that take it |
| `artifacts` | the parts of `Artifacts` | see below; 1.2M states | `ImagesAreBacked`, `SourcesAreVerified`, `OciIsFaithful`, `SnapshotsFit`, `PruneSpares` hold |
| `configuration` | the parts of `Configuration` | see below; 2.3M states | `SpecificationIsKept`, `DevicesAreChecked`, `GuestIsProvisioned`, `IdentityIsWhole`, `NeverWithoutConsent` hold |
| `processes` | the parts of `Processes` | see below; 2.2M states | `LogsAreWhole`, `StreamsAreOrdered`, `ProcessesAreOwned`, `AnswersAreTrue`, `ChangesAreMeant`, `NeverWithoutCause`, `RelayIsStream` hold |
| `processes_live` | do they answer, end and settle | smaller data, fair; 281k states | `Answered`, `WaitsEnd`, `FollowersKeepUp`, `HostsAndGuestsSettle` hold |
| `lifecycle_evidence` | is evidence ever cleared without proof | 2 starts, 1 fault | violated, finding 2 |
| `snapshots_resumed` | does a restore resume what was captured | 3 boots | violated, finding 3 |
| `spec_file_torn` | are the unlocked writes safe | 2 writers | violated, finding 1 |

Each passing run also checks the type invariant of its module or of the parts.

Why the bounds are enough. The conflicts in `Lifecycle` need two launches (a late cleanup
and the launch it meets), an observer and a crash on each side; the restart is both a
stopper and a starter, and the third fault lets a crash follow a hang. In `MachineDir` a
removal must overtake a waiter and a third process re-create the name: three directory
identities give two re-creations. In `SpecFile` two writers are enough to interfere and the
third is the `set` that may legitimately drop an edit. In `ImageStore` two processes, two
images and two machines give a removal or prune beside a clone, with the second image
published as a later generation; in `Snapshots` two processes and the shim, two boots and two
specifications; in `Prune` two other commands during one prune. `OciLayers` has two layers with
up to three members over four paths, all links included; `OciReference` all texts of four
tokens. `ProcessTree` has fewer pids than processes so that pids are used again;
`ShimControl`, `Console` and `Serve` have two peers; `LogFollow` follows
either source, the console's rotated log and the VMM's truncated one, with windows and
chunks shorter than its logs, and `LogSanitizer` sees all texts of four characters in all chunks.
Lines, buffers and queues have a capacity of one to three, so that each is full,
empty and in between. The theorems of section 4 remove the bounds for the core.

Interchangeable processes, images, machines, clients and files are model values and
permuted (`SYMMETRY`) in the runs that check safety only.

Deadlock checking is off where the system may really stop: every run is one shot, and when
all have ended nothing happens. `RunsEnd`, `WaitsEnd` and `HostsAndGuestsSettle` state what
must not happen there instead. In the `SpecFile` runs it is on.

### What the grouped properties say

Each is one implication per part; the comment above the definition names the code.

* `ImagesAreBacked`: `ReferencesAreBacked`, `DisksAreBacked`, `SidecarHasBase`,
  `GenerationsDistinct` of `ImageStore`.
* `SourcesAreVerified`: what is published was verified as recorded and is of one moment
  (`ImageSource`); a name keeps meaning one image, the one the machine runs on (`Catalog`).
* `OciIsFaithful`: printing and parsing agree (`OciReference`), what is used was compared with
  the digest that asked for it (`OciRegistry`), the merged tree is what applying the
  layers in order gives, checked against that reference definition (`OciLayers`).
* `SnapshotsFit`: `SnapshotsCoherent`, `MarkerHasSnapshot`, `MarkerFitsDisk`, `MemoryFitsDisk`.
* `PruneSpares`: freed bytes, parity of the dry run, and nothing that a command at work needs.
* `SpecificationIsKept`, `DevicesAreChecked`, `GuestIsProvisioned`, `IdentityIsWhole`,
  `NeverWithoutConsent`: from the layers of a specification to the guest and the host's keys:
  what was validated is what is used, and no repair without consent.
* `LogsAreWhole`, `StreamsAreOrdered`, `ProcessesAreOwned`, `AnswersAreTrue`,
  `ChangesAreMeant`, `NeverWithoutCause` (an action property) and `RelayIsStream` (the
  refinement) for the processes. A follower (`LogsAreWhole`) never sees a byte twice or out
  of order; it misses none until its own file is emptied and grows past its offset unseen,
  which only the VMM's log can do. The history of the boots is in order, also where a merge
  was torn by the death of the shim, when repeated boots are counted at their last place.

### Fairness

`lifecycle_live`: weak fairness of each run's own steps once it has begun: every wait of a
run has a deadline (`lock.rs` 10 s, `wait_for_shim_socket`, the control and launch deadlines,
`stop_overall_timeout`), so some step of it is always enabled and the scheduler runs it.
Weak fairness of each shim's steps other than an error of its own and the arrival of a
stop request: its control loop polls, and deadlines bound every phase of a launch. Nothing
is assumed of the VMM, the guest, faults or the user.

`processes_live`: weak fairness of the thread that drives each part, of its other threads
or tasks, and of the clocks (`DriverThread`, `InboundThread`, `OutboundThread`, `ClockOrPipe`);
a behaviour has one part, so fairness of a disjunction over the parts is fairness of each.
Of the environment: the client of a control request reads what is there for it, the far
end of a terminal takes its input (`CloseSink`, `OutSend` and all else that a browser does is
not fair: it may stay connected and never read), a machine in the way of a purge is stopped and the
purge repeated; the promises are conditional on exactly these. One strong fairness: a
build that waits for the helper lock, which the other build takes again and again, gets
it in the end. The code polls that lock with a deadline, so this is an assumption on the
scheduler, made for `HostsAndGuestsSettle` only. The properties have the form `[]<> ~Waiting`:
each condition lasts until what is promised happens. `FollowersKeepUp` asks that a session
with one side gone is over, unless it waits for a browser that does not read: `ws.rs` waits
there without a deadline ("Backpressure is the await itself").

## 4. Proofs

Proved for every value of the constants, from assumptions that only say that the sets of
processes are disjoint, that `None` and the shim's name are none of them, and that
operations are among those the code has (`ProcAssumption` and the like in the modules,
`Parameters` in the proof modules, `Distinct` in `Artifacts`, `Relayable` in `VsockProxy`,
`RealConstants` in `Processes`: marks for "none" are no process, server, client or token, there is a DHCP
server, launches are counted, and there is room for a VMM and a sidecar). The
composites fix some small numbers where they instantiate a part (two sidecars, two builds,
two machines to uninstall, capacities of one): there "every value" is every value of the
constants that `Processes` and `Artifacts` declare.

* `LifecycleProofs`. `TypeOK` and the four properties follow from
  `Inv == TypeOK /\ LockInv /\ FileInv /\ DiskInv`. `EvidenceKeptUnlessRaced` alone is not
  inductive: that a step which removes the record is harmless depends on what its process
  learned earlier, under a lock nobody else could have taken since. `LockInv` says that
  exactly the processes between taking and dropping the lock have it. `FileInv` says what
  the files hold while each process has the lock (`RunInv`: what a start or a stop has read
  or written; `ShimInv`: what each phase of a shim has written, and that a recorded shim that
  has not yet taken the lock is that of the last launch with an empty identity).
  `DiskInv` adds, until `raced`, that an open disk is on record, that `state.json` names no
  other VMM, and that nobody about to clear the record can find one open. `OneVm` is then
  immediate: two open VMMs would both be `idVmm`. `OneWriterUnlessRaced` is an action property.
* `MachineDir`. `HolderInv` ties the flock to the program counter and to the file that was
  opened, `NameInv` says that until overtaken this file is the one under the name; from
  these exclusion, and from exclusion the two statements about files. `TypeOK` as well.
* `SpecFile`. The lock invariant gives that writers overlap only when one skipped the lock;
  while they do not overlap, the temp name is the single working writer's, which makes
  "whole and synced before it is named" inductive.
* `ImageStoreProofs`. `ReferencesAreBacked` is far from inductive: a removal is harmless because
  of a scan that ended several steps ago, and clones publish references meanwhile. The
  invariant `ScanInv` says what a scan in progress cannot miss: every reference is found
  already, or is of a machine still to be read, or is that of a clone that waits for the
  store lock, whose source is still to be read. `OpInv` and `LockInv` tie phases to operations
  and locks, `MachineInv` says that disk, snapshots and clone follow the machine's pin,
  `TargetInv` and `RelyInv` what each phase may rely on about the files of the image it works
  on and about who references it. `GenerationsDistinct` needs that `next_generation` is above
  every generation in use (lemmas `Maximum` and `Generation`).
* `SnapshotsProofs`. `MemoryFitsDisk` depends on the whole chain from the capture to the
  launch. `LockInv` gives that a cold copy and a restore have the machine lock with no VM,
  `NameInv` which names are published or free in each phase, `CaptureInv` that what was captured
  belongs together as long as the VM is still the one that was paused (a `stop` and a
  `start` may replace it while the create goes on), `MarkerInv` that a launch was planned with
  the marker that is there and that a guest runs beside a marker only between the resume and
  the removal.
* `VsockProxy`. `RelaysTwoStreams`: the proxy implements `ByteStream` in both directions, for any
  line of the VMM, limits, input and output. `WireInv` says that before the newline the
  guest has sent nothing, that the first newline on the wire is the VMM's while the
  handshake reads (the guest's own bytes may contain newlines), and that from then on the
  wire holds the guest's bytes only; `ThreadInv` that the download thread has ended, unless
  ssh is gone, only with the wire empty and closed. The lemmas about `Suffix` say how a
  suffix changes when the sequence is written behind or read before it. Initial states
  map to initial states, and each step to a step of the stream or to none (`DownStep`,
  `UpStep`).
* `Artifacts`. `ImagesStayBacked` and `SnapshotsStayFit` carry these results over to the
  properties the runs check: the part that runs never changes, and a behaviour in which it
  runs is a behaviour of its module. `ProxyRelaysStreams` does it for `RelayIsStream` in `Processes`.
* `Processes`. `PartsHold` is the result the other five rest on: `PartsInv` says of each of
  thirteen parts that its `Inv` holds while it runs. A lemma per part (`SidecarsStepInv`,
  `ProcessTreeStepInv` and so on, each right behind the `INSTANCE` it is about) shows that a step keeps `Inv`,
  another (`SidecarsKept`) that `Inv` implies what is promised of the part, and a third
  (`SidecarsMoves`) that a step of the whole is a step of the part that runs. `ProcessesOwned`, `AnswersTrue`,
  `StreamsOrdered`, `ChangesMeant` follow from the invariant, `NeverUncaused` from the
  invariant and the step. What makes the invariants inductive, part by part:
  - `Sidecars`: what the shim holds is what the identity file names (`HeldInv`), how far a launch has come says
    which sidecars of it exist and are written down (`LaunchInv`), and `state.json` agrees with the
    identity file or the difference is reported (`RecordInv`).
  - `ProcessTree`: a process of the VMM is a child of the shim or of an older one that lives (`TreeInv`); a
    start time seen for a pid is of the tree (`SnapInv`); a drain that has listed the shim's children
    and found none has one still to look at or there is none (`DrainInv`). The last step needs that a tree
    with a process in it has one whose parent is the shim: the oldest, by lemma `Least`.
  - `Console`: the entries on their way to the guest are one run per client, the last the active one's
    (`Runs`, stronger than the order that is promised), and the output held for the client continues
    what it has seen.
  - `TerminalBridge`: in each direction what was delivered, is held, and is on its way continues without a
    gap (`OutInv`, `InInv`), also while a frame or the close waits for the browser; which child
    and far end there are depends on the stage (`StageInv`).
  - `ShimControl`: a connection waits once and not while it is served, and nothing was said to one that
    waits (`QueueInv`); what is under way is events up to one record (`StreamInv`); an ok that is told
    or on its way is of something done, and a stop's means that the VMM is gone (`TruthInv`).
  - `CmdRunner`: what a reader keeps fits what it has read (`Fits`: the head of stdout, the tail of stderr,
    marked when bytes are missing); threads are joined in order, and a group that was killed stays empty
    (`JoinInv`); a pid is free for a stranger only once the child is reaped (`StageInv`).
  - `Serve`: who is past `acquire` has the lock (`LockInv`), and what the holder knows of the node under the name
    stays true except for what other programs bind there meanwhile (`NameInv`).
  - `ServeDispatch`: an action at work is counted (`WorkInv`); a result in a response is that of a
    finished action whose sink lost nothing (`RecordInv`).
  - `Readiness`, `GuestInit`, `Helpers`, `Uninstall`: what was seen, offered, written or asked agrees
    with the stage it was done at.

  These proofs stand in `Processes` itself: the prover needs time in proportion to the definitions that
  are visible where a leaf is, and behind all seventeen instances each leaf costs several times more.
  The parts are concrete there (`v1`, `v2` are the part's variables in the order its module
  declares them), so no fact has to be carried from one module's constants to another's.

The invariants were checked with TLC before they were proved, those of `ImageStore` also with
three processes and three machines. The proof of `ImageStore` showed that the history variable `broken`
had left out the clones of a clone that died before its disk: such a clone inherits the
reference without the disk that would back it, and the code publishes it like any other.

Only model-checked, and why:

* liveness (`LockComesFree`, `RunsEnd`, `Answered`, `WaitsEnd`, `FollowersKeepUp`,
  `HostsAndGuestsSettle`), which the prover does not do;
* what an algorithm computes for every input: the merge of layers, references, forwards, the
  filter, tails, cloud-init rendering, VmConfig patches. These need induction over
  data. `LogsAreWhole` is of this kind: `LogSanitizer` folds over its text, and what a window
  holds after a rotation is what the fold left;
* `Configuration`'s grouped properties: its modules reach `VmConfig`, which has a recursive
  operator, and the properties compare results of such computations;
* `SourcesAreVerified`, `OciIsFaithful` and `PruneSpares` in `Artifacts`: the first two again rest on the
  merge and on parsing, the last has not been attempted;
* `TypesOK` of the composites as such: the parts proved in `Processes` carry in `Inv` the types their
  proofs need, the others are typed by the runs only.

## 5. Findings

Each is a run that TLC refutes; `PROJECT.json` quotes the sentence it contradicts.

1. Unlocked writers of `firestone.toml` share `firestone.toml.tmp`; one may publish the
   other's half-written file (`spec_file_torn`).
2. The late cleanup of a failed start removes the evidence of a running VMM that a later
   start left (`lifecycle_evidence`); a third start can then open the disk a second time.
3. A launch that ends between the resume of a restored VM and the removal of the marker
   leaves the marker, and the next start puts the old memory over a disk that has moved on
   (`snapshots_resumed`).

Other places where code and documents part, met while modelling. The models follow
the code, and the properties are stated around them:

* Machine directory: a process that waited for the lock of a removed machine works beside
  the one that re-created it; a clone killed before its disk was copied is published without
  it by the next create of that name.
* Lifecycle: the late cleanup also writes `state.json` over a later start whose shim lives; a
  stop of an owned VMM never writes `stopping`; a replacement shim writes `running` for a VMM
  that never booted; `restart` takes the lock twice; a VMM that hangs cannot be stopped.
* Snapshots: a create killed between pause and resume leaves the VM paused and nothing on
  record; the command whose resume failed writes `state.json` beside a live shim.
* Images: a clone that is killed after it wrote its state behind a scan, and whose source is
  removed before the scan comes to it, keeps a reference to an image that the scan's prune
  or rm takes away (`broken` stands for such clones and clones of them).
* Sidecars: a shim that dies right after it spawned a sidecar leaves one that the next
  start does not look for. Console: a client gone before it is accepted ends the broker; a
  shim that dies inside the merge doubles the history, and staged PTY output is lost with
  its shim; the default prune removes the rotated log of a running machine. Logs: a follow
  of `vmm.log` that is truncated by the next start and grows past the offset between two
  polls skips what lies below it (`store.rs:3217` only sees a shorter file).
* Prune: the runtime directory of a machine created after the listing, and the partial disk
  of a clone or restore at work, are removed without their locks.
* OCI: a manifest named by another algorithm than sha256 is not compared; a hard link to a
  lower layer's file takes later content or is refused; a link inside a link's target is not
  followed for the injected init; device nodes are kept; a tag with a digest is refused.
* Server: an action still queued at the idle check is cut by the exit; a terminal whose far
  end ends first may miss its close frame, and one that does not read hides the client's close;
  a browser that stays connected and does not read keeps its session after the far end is gone.
* Specification: overlapping forwards, mounts that are not canonical and key files too large
  together load and are refused at the start; two edits of a running machine share one
  candidate file; a file may shadow a catalog reference; two live resizes may interleave.
* Host: an orphaned ssh-keygen writes after the next call's rollback; an interrupted AppArmor
  repair cannot be repeated; `doctor` without `--fix` writes stale states; a machine that
  starts while the question is on the screen is purged running.
* Guest: the second boot keeps the first lease's resolvers; the entrypoint inherits PID 1's
  signal mask.

## 6. Not modelled

JSON, TOML, FAT, MIME, HTTP, netlink and ioctl encodings; owner and mode checks of paths where
they only refuse; argv of ssh, passt, virtiofsd and qemu-img; free-space checks;
decompression and the conversion of a merged tar to a disk; routes, cookies, pages, tables
and argument parsing; metrics. In `Lifecycle` the comparison of a pid with its start time,
executable and argv is taken as exact (`ProcessTree` has pids that are reused); errors
of the shim between taking the lock and its control loop are `ShimCrash`. `MachineDir` has no
source side of a clone (`ImageStore` has it). `ProcessTree` leaves out the check of a
descendant's uid (`shim.rs:6535`), `Snapshots` reads VmConfigs modulo what a live resize
changes, and `LogFollow` leaves out what the VMM prints to stdout and stderr, which is
appended to `vmm.log` beside its own log (`shim.rs:4161`). `PROJECT.json` lists every component with what
is left out of it.

## 7. Plan

What is left for proofs, most consequential first:

1. `PruneSpares` from the steps of `Prune`, in `Artifacts`.
2. `IdentityIsWhole` and `GuestIsProvisioned`, whose modules have no recursion; they need a
   place outside `Configuration`, which reaches `VmConfig`.
3. The parts of `LogsAreWhole` that do not compute: `ConsoleLog` and the reader of `LogFollow`.
4. Type correctness of all parts, and with it `TypesOK` of the composites.
