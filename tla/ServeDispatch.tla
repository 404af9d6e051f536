---------------------------- MODULE ServeDispatch -----------------------------
(***************************************************************************)
(* Requests of a running `firestone serve`: every action runs on a         *)
(* blocking worker of its own (spawn_dispatch) and reports through a       *)
(* bounded channel to the response, which a client reads or leaves.  A     *)
(* shutdown stops accepting, drains the connections for a while, aborts    *)
(* the rest, waits for the actions that are counted, and ends the process. *)
(***************************************************************************)
EXTENDS Naturals, Sequences, SequencesExt

CONSTANTS
    Request,    \* requests, each its own connection
    Follow,     \* those that follow a log until their client leaves
    Whole,      \* those that may ask for one document instead of a stream
    Capacity,   \* EVENT_BUFFER_CAPACITY
    MaxEvents   \* bound on the events one action emits

VARIABLES
    phase,      \* of the process: accept, drain, idle, runtime, exit
    signalled,
    code,       \* how the process ended
    conn,       \* of each request: away, open, done, gone
    stream,     \* response: none, stream (NDJSON) or whole (one document)
    worker,     \* none, queued, running, blocked, returned, finished, dropped
    emitted,    \* events the action has emitted
    sink,       \* ChannelEventSink: what it holds back, and what it has seen
    outcome,    \* what the dispatcher returned
    chan, got,  \* the channel, and what the client has received
    counted,    \* requests in DispatchActivity
    begun       \* history: the action was counted before the idle check passed

server == <<phase, signalled, code>>
action == <<worker, emitted, sink, outcome>>
vars == <<server, conn, stream, action, chan, got, counted, begun>>

Terminal == {"result", "error"}
FreshSink == [held |-> FALSE, bad |-> FALSE, gone |-> FALSE]

Init ==
    /\ phase = "accept" /\ signalled = FALSE /\ code = "none"
    /\ conn = [r \in Request |-> "away"] /\ stream = [r \in Request |-> "none"]
    /\ worker = [r \in Request |-> "none"] /\ emitted = [r \in Request |-> 0]
    /\ sink = [r \in Request |-> FreshSink] /\ outcome = [r \in Request |-> "none"]
    /\ chan = [r \in Request |-> <<>>] /\ got = [r \in Request |-> <<>>]
    /\ counted = {} /\ begun = {}

\* Between its start and its return: where a cut would not be a safe point.
Working(r) == worker[r] \in {"running", "blocked"}

\* The response, and with it the receiver, is still there.
Received(r) == conn[r] = "open"

-----------------------------------------------------------------------------
(* The worker of one request.                                              *)

\* serve_connection, the handler, spawn_dispatch.
Submit(r) ==
    /\ phase = "accept" /\ conn[r] = "away"
    /\ conn' = [conn EXCEPT ![r] = "open"]
    /\ \E s \in {"stream"} \cup {"whole" : q \in Whole \cap {r}} : stream' = [stream EXCEPT ![r] = s]
    /\ worker' = [worker EXCEPT ![r] = "queued"]
    /\ UNCHANGED <<server, emitted, sink, outcome, chan, got, counted, begun>>

\* The blocking pool starts the closure; TrackedDispatcher::run counts it.
Begin(r) ==
    /\ worker[r] = "queued" /\ phase # "exit"
    /\ worker' = [worker EXCEPT ![r] = "running"]
    /\ counted' = counted \cup {r}
    /\ begun' = IF phase = "runtime" THEN begun ELSE begun \cup {r}
    /\ UNCHANGED <<server, conn, stream, emitted, sink, outcome, chan, got>>

\* ChannelEventSink::emit of an ordinary event: a full channel blocks the
\* action in send, until the client reads or leaves.
EmitEvent(r) ==
    /\ worker[r] = "running" /\ emitted[r] < MaxEvents /\ phase # "exit"
    /\ emitted' = [emitted EXCEPT ![r] = @ + 1]
    /\ IF Received(r)
       THEN worker' = [worker EXCEPT ![r] = "blocked"] /\ sink' = [sink EXCEPT ![r].bad = @ \/ sink[r].held]
       ELSE sink' = [sink EXCEPT ![r].gone = TRUE] /\ UNCHANGED worker
    /\ UNCHANGED <<server, conn, stream, outcome, chan, got, counted, begun>>

\* ChannelEventSink::send: try_send until there is room or nobody receives.
Send(r) ==
    /\ worker[r] = "blocked" /\ phase # "exit"
    /\ \/ ~Received(r) /\ sink' = [sink EXCEPT ![r].gone = TRUE] /\ UNCHANGED chan
       \/ /\ Received(r) /\ Len(chan[r]) < Capacity
          /\ chan' = [chan EXCEPT ![r] = Append(@, "event")] /\ UNCHANGED sink
    /\ worker' = [worker EXCEPT ![r] = "running"]
    /\ UNCHANGED <<server, conn, stream, emitted, outcome, got, counted, begun>>

\* ChannelEventSink::emit of a Result: the first expected one is held back.
EmitResult(r, expected) ==
    /\ worker[r] = "running" /\ emitted[r] < MaxEvents /\ phase # "exit"
    /\ emitted' = [emitted EXCEPT ![r] = @ + 1]
    /\ sink' = IF ~Received(r)
               THEN [sink EXCEPT ![r].gone = TRUE]
               ELSE IF sink[r].held \/ ~expected
                    THEN [sink EXCEPT ![r].bad = TRUE]
                    ELSE [sink EXCEPT ![r].held = TRUE]
    /\ UNCHANGED <<server, conn, stream, worker, outcome, chan, got, counted, begun>>

\* The dispatcher returns, or panics inside catch_unwind; the count drops.  A
\* follow ends only when its sink is cancelled.
Return(r) ==
    /\ worker[r] = "running" /\ phase # "exit"
    /\ r \in Follow => ~Received(r)
    /\ \E o \in {"ok", "error", "panic"} : outcome' = [outcome EXCEPT ![r] = o]
    /\ worker' = [worker EXCEPT ![r] = "returned"] /\ counted' = counted \ {r}
    /\ UNCHANGED <<server, conn, stream, emitted, sink, chan, got, begun>>

\* ChannelEventSink::finish: one terminal record, and it is the last.
LastRecord(r) ==
    IF outcome[r] = "ok" /\ ~sink[r].bad /\ sink[r].held THEN "result" ELSE "error"

Finish(r) ==
    /\ worker[r] = "returned" /\ phase # "exit"
    /\ \/ ~Received(r) /\ UNCHANGED chan
       \/ /\ Received(r) /\ Len(chan[r]) < Capacity
          /\ chan' = [chan EXCEPT ![r] = Append(@, LastRecord(r))]
    /\ worker' = [worker EXCEPT ![r] = "finished"]
    /\ UNCHANGED <<server, conn, stream, emitted, sink, outcome, got, counted, begun>>

-----------------------------------------------------------------------------
(* The response and the client.                                            *)

\* collect_action takes the channel as it fills; a stream only as the client
\* reads.  The document of a collected action is its result or its error.
Deliver(r, m) ==
    IF stream[r] = "whole" THEN IF m \in Terminal THEN <<m>> ELSE <<>> ELSE Append(got[r], m)

Read(r) ==
    /\ Received(r) /\ chan[r] # <<>> /\ phase # "exit"
    /\ chan' = [chan EXCEPT ![r] = Tail(@)]
    /\ got' = [got EXCEPT ![r] = Deliver(r, Head(chan[r]))]
    /\ conn' = [conn EXCEPT ![r] = IF Head(chan[r]) \in Terminal THEN "done" ELSE @]
    /\ UNCHANGED <<server, stream, action, counted, begun>>

Leave(r) ==
    /\ Received(r) /\ conn' = [conn EXCEPT ![r] = "gone"]
    /\ UNCHANGED <<server, stream, action, chan, got, counted, begun>>

-----------------------------------------------------------------------------
(* serve_until_shutdown, wait_until_idle, the end of the runtime.          *)

Signal ==
    /\ ~signalled /\ phase = "accept" /\ signalled' = TRUE
    /\ UNCHANGED <<phase, code, conn, stream, action, chan, got, counted, begun>>

\* The biased select sees the flag, or the listener fails.
StopAccepting ==
    /\ phase = "accept" /\ phase' = "drain"
    /\ IF signalled THEN UNCHANGED code ELSE code' = "failed"
    /\ UNCHANGED <<signalled, conn, stream, action, chan, got, counted, begun>>

\* Mutant: the drain waits for the last client.
DrainedByAll ==
    /\ phase = "drain" /\ phase' = "idle" /\ \A r \in Request : conn[r] # "open"
    /\ UNCHANGED <<signalled, code, conn, stream, action, chan, got, counted, begun>>

\* Every connection ended, or GRACEFUL_DRAIN_TIMEOUT aborts what is left.
Drained ==
    /\ phase = "drain" /\ phase' = "idle"
    /\ conn' = [r \in Request |-> IF conn[r] = "open" THEN "gone" ELSE conn[r]]
    /\ UNCHANGED <<signalled, code, stream, action, chan, got, counted, begun>>

\* DispatchActivity::wait_until_idle: nothing is counted, or
\* ACTION_SAFE_POINT_TIMEOUT passes and the process reports it.
Idle ==
    /\ phase = "idle" /\ phase' = "runtime"
    /\ \/ counted = {} /\ code' = IF code = "none" THEN "ok" ELSE code
       \/ counted # {} /\ code' = IF code = "none" THEN "timeout" ELSE code
    /\ UNCHANGED <<signalled, conn, stream, action, chan, got, counted, begun>>

\* Runtime::shutdown_timeout: queued closures are dropped, running ones get a
\* second; then the process ends with whatever still runs.
Exit ==
    /\ phase = "runtime" /\ phase' = "exit"
    /\ worker' = [r \in Request |-> IF worker[r] = "queued" THEN "dropped" ELSE worker[r]]
    /\ UNCHANGED <<signalled, code, conn, stream, emitted, sink, outcome, chan, got, counted, begun>>

Worker(r) ==
    \/ Begin(r) \/ EmitEvent(r) \/ Send(r) \/ Return(r) \/ Finish(r)
    \/ \E e \in BOOLEAN : EmitResult(r, e)

Next ==
    \/ \E r \in Request : Submit(r) \/ Worker(r) \/ Read(r) \/ Leave(r)
    \/ Signal \/ StopAccepting \/ Drained \/ Idle \/ Exit

Spec == Init /\ [][Next]_vars

-----------------------------------------------------------------------------
\* A channel stays within its capacity, and a request is counted exactly while its action
\* is at work (DispatchActivity).
TypeOK ==
    /\ phase \in {"accept", "drain", "idle", "runtime", "exit"} /\ signalled \in BOOLEAN
    /\ code \in {"none", "ok", "failed", "timeout"}
    /\ conn \in [Request -> {"away", "open", "done", "gone"}]
    /\ worker \in [Request -> {"none", "queued", "running", "blocked", "returned", "finished", "dropped"}]
    /\ \A r \in Request : Len(chan[r]) <= Capacity /\ r \in counted <=> Working(r)

\* A response that ended with the action ends with its only terminal record,
\* and that record is the result exactly when the action succeeded and kept
\* the event contract (ChannelEventSink, spawn_dispatch).
OneTerminalRecord ==
    \A r \in Request :
        /\ \A i \in DOMAIN got[r] : got[r][i] \in Terminal => i = Len(got[r])
        /\ got[r] # <<>> /\ Last(got[r]) = "result" => outcome[r] = "ok" /\ ~sink[r].bad
        /\ conn[r] = "done" => got[r] # <<>> /\ Last(got[r]) \in Terminal

\* An exit that reports no timeout cut no action that had begun when the
\* workers were found idle (DispatchActivity, TrackedDispatcher).
CutIsReported ==
    phase = "exit" /\ code = "ok" => \A r \in begun : ~Working(r)

\* A shutdown was asked for and has not ended; an action whose client left goes on.
Stopping == signalled /\ phase # "exit"
Abandoned(r) == Working(r) /\ conn[r] = "gone" /\ phase # "exit"

-----------------------------------------------------------------------------
(* The inductive invariant behind the properties.                          *)

\* An action at work is counted, and one that began does not begin again.
WorkInv ==
    /\ phase \in {"accept", "drain", "idle", "runtime", "exit"}
    /\ worker \in [Request -> {"none", "queued", "running", "blocked", "returned", "finished", "dropped"}]
    /\ \A r \in Request : (Working(r) => r \in counted) /\ (conn[r] = "away" => worker[r] = "none")
    /\ begun \subseteq Request /\ \A r \in begun : worker[r] \notin {"none", "queued", "dropped"}
    /\ phase \notin {"runtime", "exit"} => code # "ok"
    /\ phase \in {"runtime", "exit"} /\ code = "ok" => \A r \in begun : ~Working(r)

Records == {"event"} \cup Terminal
OnlyEvents(s) == \A i \in DOMAIN s : s[i] = "event"
TerminalLast(s) == \A i \in DOMAIN s : s[i] \in Terminal => i = Len(s)
HasResult(s) == \E i \in DOMAIN s : s[i] = "result"

\* The terminal record comes from finish, last, and ends the response.
RecordInv ==
    /\ chan \in [Request -> Seq(Records)] /\ got \in [Request -> Seq(Records)]
    /\ conn \in [Request -> {"away", "open", "done", "gone"}]
    /\ DOMAIN sink = Request /\ DOMAIN outcome = Request
    /\ \A r \in Request :
         /\ TerminalLast(chan[r]) /\ TerminalLast(got[r])
         /\ worker[r] # "finished" => OnlyEvents(chan[r])
         /\ conn[r] # "done" => OnlyEvents(got[r])
         /\ conn[r] = "done" => got[r] # <<>> /\ ~OnlyEvents(got[r])
         /\ HasResult(chan[r]) \/ HasResult(got[r]) => worker[r] = "finished" /\ outcome[r] = "ok" /\ ~sink[r].bad

Inv == WorkInv /\ RecordInv

=============================================================================
