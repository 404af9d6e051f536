------------------------------ MODULE Readiness ------------------------------
(***************************************************************************)
(* The wait of `start` for a guest that answers ssh: a loop of three       *)
(* probes, the console's length, a vsock handshake and an ssh command,     *)
(* until one of them decides, the deadline passes or the user interrupts.  *)
(* Meanwhile the guest boots, changes its mind or dies.  Time is a counter *)
(* that every probe and every pause may move.                              *)
(***************************************************************************)
EXTENDS Naturals, Sequences

CONSTANTS
    Deadline,   \* [start].timeout, in steps of the clock
    Changes     \* bound on what the guest does

VARIABLES
    vm,         \* the VMM is alive
    console,    \* console.log has bytes
    sshd,       \* what answers on port 22: "none", "busy", "other" key, "ok"
    broken,     \* the console log or the ssh command cannot be used at all
    changes,
    now, cancelled,
    pc,         \* top of the loop, the probes, the pause, returned
    transport,  \* what the last handshake found
    bootDone, sshStarted,
    events,     \* what the user was shown
    result

guest == <<vm, console, sshd, broken, changes>>
shown == <<bootDone, sshStarted, events>>
vars == <<guest, now, cancelled, pc, transport, shown, result>>

Init ==
    /\ vm = TRUE /\ console = FALSE /\ sshd = "none" /\ broken \in BOOLEAN /\ changes = 0
    /\ now = 0 /\ cancelled = FALSE /\ pc = "loop" /\ transport = FALSE
    /\ bootDone = FALSE /\ sshStarted = FALSE /\ events = << <<"boot", "start">> >>
    /\ result = "none"

\* A step takes no time to speak of, or a unit of it.
Ticks == now' \in {now, now + 1} /\ now' <= Deadline

Guest(v, c, s) ==
    /\ vm /\ changes < Changes /\ changes' = changes + 1 /\ vm' = v /\ console' = c /\ sshd' = s
    /\ UNCHANGED <<broken, now, cancelled, pc, transport, shown, result>>

GuestBoots == ~console /\ Guest(TRUE, TRUE, sshd)
GuestListens(s) == sshd # s /\ Guest(TRUE, console, s)
GuestDies == Guest(FALSE, console, "none")

Interrupt ==
    /\ pc # "returned" /\ ~cancelled /\ cancelled' = TRUE
    /\ UNCHANGED <<guest, now, pc, transport, shown, result>>

-----------------------------------------------------------------------------
(* wait_with_backend.                                                      *)

\* start_ssh: once.
BootDone == << <<"boot", "done">> >>
SshStart == << <<"ssh", "start">>, <<"ssh", "update">> >>
SshEvents == IF sshStarted THEN <<>> ELSE SshStart
BootEvents == IF bootDone THEN <<>> ELSE BootDone
SshDone == << <<"ssh", "done">> >>
SshFailed == << <<"ssh", "fail">> >>

\* fail_wait.
FailWait(r) ==
    /\ events' = events \o BootEvents \o SshEvents \o SshFailed
    /\ bootDone' = TRUE /\ sshStarted' = TRUE /\ result' = r /\ pc' = "returned"

\* The top of the loop: the user first, then the deadline.
Loop ==
    /\ pc = "loop"
    /\ \/ cancelled /\ FailWait("interrupted")
       \/ ~cancelled /\ now >= Deadline /\ FailWait("timeout")
       \/ ~cancelled /\ now < Deadline /\ pc' = "console" /\ UNCHANGED <<shown, result>>
    /\ UNCHANGED <<guest, now, cancelled, transport>>

\* An error of console_bytes or of the command ends the wait as it is.
Abort == result' = "error" /\ pc' = "returned" /\ UNCHANGED shown

\* transport_ready: NotRunning, Timeout and Generic are "not yet".
Probe ==
    /\ pc = "console" /\ Ticks /\ transport' = (vm /\ sshd # "none")
    /\ \/ broken /\ Abort
       \/ /\ ~broken /\ pc' = "probed" /\ UNCHANGED result
          /\ IF console \/ transport'
             THEN /\ bootDone' = TRUE /\ sshStarted' = TRUE
                  /\ events' = events \o BootEvents \o SshEvents
             ELSE UNCHANGED shown
    /\ UNCHANGED <<guest, cancelled>>

NoTransport ==
    /\ pc = "probed" /\ ~transport /\ pc' = "pause"
    /\ UNCHANGED <<guest, now, cancelled, transport, shown, result>>

\* The deadline passed during the handshake: the loop's top reports it.
SshTooLate ==
    /\ pc = "probed" /\ transport /\ now >= Deadline /\ pc' = "loop"
    /\ UNCHANGED <<guest, now, cancelled, transport, shown, result>>

\* ssh_ready: the command succeeds, refuses the host's key, or did not get
\* through yet.
SshReady ==
    /\ pc = "probed" /\ transport /\ now < Deadline /\ Ticks
    /\ \/ sshd = "ok" /\ events' = events \o SshDone /\ result' = "ready" /\ pc' = "returned"
       \/ sshd = "other" /\ events' = events \o SshFailed /\ result' = "changed" /\ pc' = "returned"
       \/ sshd \notin {"ok", "other"} /\ pc' = "pause" /\ UNCHANGED <<events, result>>
    /\ UNCHANGED <<guest, cancelled, transport, bootDone, sshStarted>>

\* READINESS_POLL_INTERVAL, or what is left.
Pause ==
    /\ pc = "pause" /\ pc' = "loop" /\ now' = IF now < Deadline THEN now + 1 ELSE now
    /\ UNCHANGED <<guest, cancelled, transport, shown, result>>

Wait == Loop \/ Probe \/ NoTransport \/ SshTooLate \/ SshReady \/ Pause

Next ==
    \/ Wait \/ Interrupt \/ GuestBoots \/ GuestDies
    \/ \E s \in {"busy", "other", "ok"} : GuestListens(s)

Spec == Init /\ [][Next]_vars

-----------------------------------------------------------------------------

\* The clock stays within the deadline and ssh is not tried before the boot step is done
\* (wait_with_backend).
TypeOK ==
    /\ {vm, console, broken, cancelled, transport, bootDone, sshStarted} \subseteq BOOLEAN
    /\ sshd \in {"none", "busy", "other", "ok"} /\ now \in 0..Deadline /\ changes \in 0..Changes
    /\ pc \in {"loop", "console", "probed", "pause", "returned"}
    /\ result \in {"none", "ready", "timeout", "interrupted", "changed", "error"}
    /\ sshStarted => bootDone

Shown(E) == \E i \in DOMAIN events : events[i] \in E
Once(E) == \A i, j \in DOMAIN events : events[i] \in E /\ events[j] \in E => i = j
SshEnds == {<<"ssh", "done">>, <<"ssh", "fail">>}

\* What the user sees is a run of steps: boot ends once and before ssh begins,
\* ssh begins at most once and ends once, in done exactly when start succeeds
\* (fail_wait, start_ssh).  Only a host error leaves a step open.
StepsAreClosed ==
    /\ \A e \in {<<"boot", "start">>, <<"boot", "done">>, <<"ssh", "start">>} : Once({e})
    /\ Once(SshEnds)
    /\ \A i, j \in DOMAIN events : events[i] = <<"boot", "done">> /\ events[j] = <<"ssh", "start">> => i < j
    /\ pc = "returned" /\ result # "error" =>
         /\ Shown({<<"boot", "done">>}) /\ Shown({<<"ssh", "start">>}) /\ Shown(SshEnds)
         /\ result = "ready" <=> events[Len(events)] = <<"ssh", "done">>

\* A guest that has not refused is not given up before the deadline, and one
\* whose key changed is not waited for (SshProbe).
GivenUpInTime ==
    result = "none" /\ result' # "none" =>
         /\ result' = "timeout" => now >= Deadline
         /\ result' = "changed" => sshd = "other"
         /\ result' = "ready" => sshd = "ok" /\ vm

\* The wait is on.
Waiting == pc # "returned"

-----------------------------------------------------------------------------
(* The inductive invariant behind the properties.                          *)

\* The whole of what may have been shown.
Opened == << <<"boot", "start">> >>
Begun == (Opened \o BootDone) \o SshStart
Story ==
    events = IF ~bootDone THEN Opened
             ELSE IF result \in {"none", "error"} THEN Begun
             ELSE IF result = "ready" THEN Begun \o SshDone
             ELSE Begun \o SshFailed

\* A dead guest does not answer; ssh is tried after the boot is told to be done.
Inv ==
    /\ sshd # "none" => vm
    /\ sshStarted = bootDone /\ bootDone \in BOOLEAN
    /\ pc = "probed" /\ transport => bootDone
    /\ pc # "returned" <=> result = "none"
    /\ pc = "returned" => bootDone \/ result = "error"
    /\ Story

==============================================================================
