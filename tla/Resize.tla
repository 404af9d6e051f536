------------------------------- MODULE Resize -------------------------------
(***************************************************************************)
(* `firestone resize`: a change of vCPUs, memory or both.  On a machine    *)
(* that does not run it is a specification write under the machine lock;   *)
(* on a running one it takes no lock, checks the request against the       *)
(* VmConfig the machine booted with, asks the VMM, and then writes the     *)
(* specification.  Beside it: starts, stops, edits, and a second resize.   *)
(***************************************************************************)
EXTENDS Naturals, FiniteSets

CONSTANTS
    User,           \* who runs a resize
    Limit,          \* the largest number of vCPUs, and of units of memory
    MaxBoots, MaxEdits,
    MaxFaults       \* writes that fail and answers that are lost

Size == [cpus : 1..Limit, mem : 1..Limit]
\* The sizing members of the VmConfig a specification renders to.
VmConfig(s) == [boot |-> s.cpus, max |-> s.cpusMax, size |-> s.mem, hotplug |-> s.memMax - s.mem]

Spec0 == [cpus |-> 1, mem |-> 1, cpusMax |-> Limit - 1, memMax |-> Limit - 1]

VARIABLES
    spec,       \* firestone.toml: [cpus, mem, cpusMax, memMax]
    published,  \* vmconfig.json: the sizing the last start rendered
    status, lock,   \* of the machine; nobody, the command that starts it, its shim, or a user
    live, boot, \* what the VMM runs with; which boot it is
    cmd,        \* of each user: [pc, cpus, mem, doc, live, boot]; 0 for not asked
    edited,     \* history: the specification was edited since the boot
    across,     \* history: a resize was at work when the machine was started
    overlap,    \* history: since the boot, a resize overlapped another command
    rejected,   \* history: the VMM rejected what was checked against its own boot
    edits, faults

machine == <<published, status, lock, live, boot>>
history == <<edited, across, overlap, rejected>>
vars == <<spec, machine, cmd, history, edits, faults>>

Idle == [pc |-> "idle", cpus |-> 0, mem |-> 0, doc |-> Spec0, live |-> FALSE, boot |-> 0]
Busy == {u \in User : cmd[u].pc \notin {"idle", "done"}}

Init ==
    /\ spec = Spec0 /\ published = VmConfig(Spec0) /\ status = "stopped" /\ lock = "nobody"
    /\ live = [cpus |-> Spec0.cpus, mem |-> Spec0.mem] /\ boot = 0 /\ cmd = [u \in User |-> Idle]
    /\ edited = FALSE /\ across = FALSE /\ overlap = FALSE /\ rejected = FALSE /\ edits = 0 /\ faults = 0

-----------------------------------------------------------------------------
(* The machine and the other commands.                                     *)

\* prepare_start: under the command's lock the VmConfig is rendered and published,
\* and the state says starting.
Start ==
    /\ status = "stopped" /\ lock = "nobody" /\ boot < MaxBoots
    /\ status' = "starting" /\ lock' = "cli" /\ published' = VmConfig(spec)
    /\ edited' = FALSE /\ across' = (Busy # {}) /\ overlap' = FALSE
    /\ UNCHANGED <<spec, live, boot, cmd, rejected, edits, faults>>

\* The command drops the lock and the shim it started takes it: between the two
\* it is anybody's.
HandOver ==
    /\ status = "starting"
    /\ \/ lock = "cli" /\ lock' = "nobody" /\ UNCHANGED <<status, live, boot>>
       \/ lock = "nobody" /\ lock' = "shim" /\ UNCHANGED <<status, live, boot>>
       \/ /\ lock = "shim" /\ status' = "running" /\ boot' = boot + 1 /\ UNCHANGED lock
          /\ live' = [cpus |-> published.boot, mem |-> published.size]
    /\ UNCHANGED <<spec, published, cmd, history, edits, faults>>

Stop ==
    /\ status = "running" /\ status' = "stopped" /\ lock' = "nobody"
    /\ overlap' = (overlap \/ Busy # {})
    /\ UNCHANGED <<spec, published, live, boot, cmd, edited, across, rejected, edits, faults>>

\* A spec PATCH: under the lock, or without it while the machine runs.
Edit ==
    /\ edits < MaxEdits /\ edits' = edits + 1
    /\ status = "running" \/ lock = "nobody"
    /\ \E f \in {"mem", "cpusMax"}, v \in 1..Limit :
          spec' = [spec EXCEPT ![f] = v] /\ spec'.mem <= spec'.memMax /\ spec'.cpus <= spec'.cpusMax
    /\ edited' = TRUE /\ overlap' = (overlap \/ Busy # {})
    /\ UNCHANGED <<machine, cmd, across, rejected, faults>>

-----------------------------------------------------------------------------
(* resize.                                                                 *)

To(u, pc) == cmd' = [cmd EXCEPT ![u].pc = pc]
Leave(u) == cmd' = [cmd EXCEPT ![u] = [Idle EXCEPT !.pc = "done"]]

Ask(u) ==
    /\ cmd[u].pc = "idle"
    /\ \E c, m \in 0..Limit :
          /\ c + m > 0
          /\ cmd' = [cmd EXCEPT ![u] = [Idle EXCEPT !.pc = "state", !.cpus = c, !.mem = m]]
    /\ overlap' = (overlap \/ Busy # {})
    /\ UNCHANGED <<spec, machine, edited, across, rejected, edits, faults>>

\* The preliminary read: a machine between two states has no size to change.
ReadState(u) ==
    /\ cmd[u].pc = "state"
    /\ \/ status = "starting" /\ Leave(u)
       \/ status = "running" /\ cmd' = [cmd EXCEPT ![u].pc = "load", ![u].live = TRUE]
       \/ status = "stopped" /\ To(u, "lock")
    /\ UNCHANGED <<spec, machine, history, edits, faults>>

\* The lock, or busy after the wait; under it the status is read again, and only a
\* machine that is running by now is a conflict.
Lock(u) ==
    /\ cmd[u].pc = "lock"
    /\ \/ lock = "nobody" /\ status # "running" /\ lock' = u /\ To(u, "load")
       \/ lock # "nobody" /\ Leave(u) /\ UNCHANGED lock
    /\ UNCHANGED <<spec, published, status, live, boot, history, edits, faults>>

Release(u) == lock' = IF lock = u THEN "nobody" ELSE lock

Patched(u) ==
    [spec EXCEPT !.cpus = IF cmd[u].cpus > 0 THEN cmd[u].cpus ELSE @,
                 !.mem = IF cmd[u].mem > 0 THEN cmd[u].mem ELSE @]

\* load_spec_text_with_patch and its validation.
Load(u) ==
    /\ cmd[u].pc = "load"
    /\ LET doc == Patched(u) IN
          IF doc.cpus <= doc.cpusMax /\ doc.mem <= doc.memMax
          THEN cmd' = [cmd EXCEPT ![u].doc = doc,
                                  ![u].pc = IF cmd[u].live THEN "check" ELSE "write"] /\ UNCHANGED lock
          ELSE Leave(u) /\ Release(u)
    /\ UNCHANGED <<spec, published, status, live, boot, history, edits, faults>>

\* Mutant: published_vmconfig_capacity, read from the specification instead.
CapacityOfSpec == [maxCpus |-> spec.cpusMax, mem |-> spec.mem, maxMem |-> spec.memMax]

\* read_published_vmconfig: the document of the last start, whole or not at all.
ReadPublished == published

\* published_vmconfig_capacity: what the last boot allows.
Capacity ==
    LET v == ReadPublished IN [maxCpus |-> v.max, mem |-> v.size, maxMem |-> v.size + v.hotplug]

\* VmConfigCapacity::check of the whole document, asked for or not.
Check(u) ==
    /\ cmd[u].pc = "check"
    /\ LET c == Capacity
           doc == cmd[u].doc
       IN  IF doc.cpus <= c.maxCpus /\ doc.mem \in c.mem..c.maxMem
           THEN cmd' = [cmd EXCEPT ![u].pc = "call", ![u].boot = boot]
           ELSE Leave(u)
    /\ UNCHANGED <<spec, machine, history, edits, faults>>

\* What Cloud Hypervisor accepts of a request.
Accepts(c, m) ==
    /\ c > 0 => c <= published.max
    /\ m > 0 => m \in published.size..(published.size + published.hotplug)

Resized(c, m) ==
    [live EXCEPT !.cpus = IF c > 0 THEN c ELSE @, !.mem = IF m > 0 THEN m ELSE @]

\* vm_resize of what was asked for: applied, rejected, or nobody there.
CallVmm(u) ==
    /\ cmd[u].pc = "call"
    /\ LET c == cmd[u].cpus
           m == cmd[u].mem
       IN  \/ status = "running" /\ Accepts(c, m) /\ live' = Resized(c, m) /\ To(u, "write") /\ UNCHANGED rejected
           \/ /\ status = "running" /\ ~Accepts(c, m) /\ Leave(u) /\ UNCHANGED live
              /\ rejected' = (rejected \/ cmd[u].boot = boot)
           \/ status # "running" /\ Leave(u) /\ UNCHANGED <<live, rejected>>
    /\ UNCHANGED <<spec, published, status, lock, boot, edited, across, overlap, edits, faults>>

\* The VMM resized and the answer did not come in time.
AnswerLost(u) ==
    /\ cmd[u].pc = "call" /\ faults < MaxFaults /\ faults' = faults + 1
    /\ status = "running" /\ Accepts(cmd[u].cpus, cmd[u].mem)
    /\ live' = Resized(cmd[u].cpus, cmd[u].mem) /\ Leave(u)
    /\ UNCHANGED <<spec, published, status, lock, boot, history, edits>>

\* atomic::write of the document, then the lock is dropped.
Write(u) ==
    /\ cmd[u].pc = "write" /\ spec' = cmd[u].doc /\ Leave(u) /\ Release(u)
    /\ UNCHANGED <<published, status, live, boot, history, edits, faults>>

\* The write fails, the document stays as it was.
WriteFails(u) ==
    /\ cmd[u].pc = "write" /\ faults < MaxFaults /\ faults' = faults + 1
    /\ Leave(u) /\ Release(u)
    /\ UNCHANGED <<spec, published, status, live, boot, history, edits>>

Command(u) ==
    \/ Ask(u) \/ ReadState(u) \/ Lock(u) \/ Load(u) \/ Check(u) \/ CallVmm(u) \/ AnswerLost(u)
    \/ Write(u) \/ WriteFails(u)

Next == Start \/ HandOver \/ Stop \/ Edit \/ \E u \in User : Command(u)

Spec == Init /\ [][Next]_vars

-----------------------------------------------------------------------------
\* Desired and live sizes stay within their maxima, and the machine lock has one holder
\* (resize).
TypeOK ==
    /\ [cpus |-> spec.cpus, mem |-> spec.mem] \in Size /\ spec.cpus <= spec.cpusMax
    /\ spec.mem <= spec.memMax /\ lock \in User \cup {"nobody", "cli", "shim"}
    /\ status \in {"stopped", "starting", "running"}
    /\ [cpus |-> live.cpus, mem |-> live.mem] \in Size

\* A request the booted machine cannot satisfy is refused before the VMM is asked,
\* whatever the specification was edited to since: the VMM only ever rejects a
\* request that was checked against an earlier boot.
HeadroomIsBooted == ~rejected

\* A specification written for a resize that was applied live names what the VMM of
\* that boot was given, and nothing it refused or never saw: with no other command
\* at work and no fault, what is desired is what runs.
AlignedAlone ==
    status = "running" /\ Busy = {} /\ ~edited /\ ~across /\ ~overlap /\ faults = 0 =>
        spec.cpus = live.cpus /\ spec.mem = live.mem

\* A resize that found the machine stopped never writes the specification of one that
\* runs by then: the lock it holds is the one the shim needs to boot it.
StoppedWritesUnbooted ==
    \A u \in User : cmd[u].pc = "write" /\ ~cmd[u].live => status # "running" /\ lock = u

=============================================================================
