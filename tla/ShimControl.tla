----------------------------- MODULE ShimControl ------------------------------
(***************************************************************************)
(* The control socket of a shim.  Clients connect, write one request in    *)
(* two pieces (the bytes, then the newline) and read events up to one      *)
(* terminal record.  The shim is one thread: between two connections it    *)
(* looks for the exit of its VMM, and a connection is read and answered to *)
(* the end before the next one is accepted.  A client may stall, leave or  *)
(* time out at any moment; its request may already be in the socket.       *)
(***************************************************************************)
EXTENDS Naturals, Sequences

CONSTANTS
    Client,     \* connections, one request each
    Op,         \* operations they ask for; "foreign": those of another uid ask for
    MaxEvents   \* bound on the events one operation emits

VARIABLES
    pc,         \* the shim: loop, accept, read, launch, stop, gone
    cur,        \* the connection it serves
    backlog,    \* connections not yet accepted
    conn,       \* of each client: away, up, left (it closed), cut (the shim closed)
    op, sent,   \* what it asks for, how much is written: none, part, full, extra, bad
    wire,       \* records written to it and not read
    got, res,   \* records it read, how its request ended
    events,     \* events of the running operation
    attached,   \* ProtocolSink still has its stream
    launched,   \* the flag of run_shim
    vmm,        \* none, alive, dead
    state,      \* status last written: starting, running, stopped, failed
    done        \* history: operations that were carried out, with their client

shim == <<pc, cur, events, attached, launched>>
client == <<op, sent, got, res>>
vars == <<shim, client, backlog, conn, wire, vmm, state, done>>

Nobody == "nobody"

Init ==
    /\ pc = "loop" /\ cur = Nobody /\ events = 0 /\ attached = FALSE
    /\ backlog = <<>> /\ conn = [c \in Client |-> "away"]
    /\ op \in [Client -> Op] /\ sent = [c \in Client |-> "none"]
    /\ wire = [c \in Client |-> <<>>] /\ got = [c \in Client |-> <<>>] /\ res = [c \in Client |-> "none"]
    /\ \/ launched = FALSE /\ vmm = "none" /\ state = "starting"
       \/ launched = TRUE /\ vmm = "alive" /\ state = "running"
    /\ done = {}

-----------------------------------------------------------------------------
(* ShimClient.                                                             *)

\* connect_control_socket, authorize_peer.
Connect(c) ==
    /\ conn[c] = "away" /\ pc # "gone"
    /\ conn' = [conn EXCEPT ![c] = "up"] /\ backlog' = Append(backlog, c)
    /\ UNCHANGED <<shim, client, wire, vmm, state, done>>

\* write_frame: the request, then its newline.  Another program of the user
\* may write something that is no request, or more than one.
Write(c) ==
    /\ conn[c] = "up"
    /\ \E p \in {<<"none", "part">>, <<"part", "full">>, <<"part", "bad">>, <<"full", "extra">>} :
          sent[c] = p[1] /\ sent' = [sent EXCEPT ![c] = p[2]]
    /\ UNCHANGED <<shim, op, got, res, backlog, conn, wire, vmm, state, done>>

\* require_ok_terminal, error_from_terminal.
Verdict(m) == IF m \in {"ok", "error"} THEN m ELSE "none"

\* read_frame and the loop of request, which ends at the first record that is
\* no event.
Read(c) ==
    /\ conn[c] \in {"up", "cut"} /\ res[c] = "none" /\ wire[c] # <<>>
    /\ wire' = [wire EXCEPT ![c] = Tail(@)]
    /\ got' = [got EXCEPT ![c] = Append(@, Head(wire[c]))]
    /\ res' = [res EXCEPT ![c] = Verdict(Head(wire[c]))]
    /\ UNCHANGED <<shim, op, sent, backlog, conn, vmm, state, done>>

\* The stream ends before a terminal record.
ReadClosed(c) ==
    /\ conn[c] = "cut" /\ res[c] = "none" /\ wire[c] = <<>>
    /\ res' = [res EXCEPT ![c] = "closed"]
    /\ UNCHANGED <<shim, op, sent, got, backlog, conn, wire, vmm, state, done>>

\* The deadline, a cancelled start, a killed client.
Leave(c) ==
    /\ conn[c] = "up" /\ conn' = [conn EXCEPT ![c] = "left"]
    /\ res' = [res EXCEPT ![c] = IF @ = "none" THEN "left" ELSE @]
    /\ UNCHANGED <<shim, op, sent, got, backlog, wire, vmm, state, done>>

-----------------------------------------------------------------------------
(* The loop of run_shim.                                                   *)

\* The stream of `c` is dropped; with the process, every stream.
Drop(S) == conn' = [c \in Client |-> IF c \in S /\ conn[c] = "up" THEN "cut" ELSE conn[c]]

\* cleanup_after_shim and the end of the process: the listener goes with it.
Gone(s) ==
    /\ pc' = "gone" /\ state' = s /\ cur' = Nobody /\ attached' = FALSE
    /\ backlog' = <<>> /\ Drop(Client)
    /\ UNCHANGED <<events, launched>>

\* One record, terminal: write_terminal_ok, write_terminal_error,
\* write_status.  A client that left loses it and nothing else happens.
Answer(c, m) == wire' = [wire EXCEPT ![c] = IF conn[c] = "up" THEN Append(@, m) ELSE @]

\* The checks at the head of the loop have passed: whatever comes now waits
\* for the next connection to be served.
Checked ==
    /\ pc = "loop" /\ vmm # "dead" /\ backlog # <<>> /\ pc' = "accept"
    /\ UNCHANGED <<client, cur, events, attached, launched, backlog, conn, wire, vmm, state, done>>

Accept ==
    /\ pc = "accept"
    /\ LET c == Head(backlog) IN
       /\ backlog' = Tail(backlog)
       /\ \/ /\ op[c] = "foreign" /\ Answer(c, "error") /\ Drop({c}) /\ pc' = "loop" /\ UNCHANGED cur
          \/ /\ op[c] # "foreign" /\ pc' = "read" /\ cur' = c /\ UNCHANGED <<conn, wire>>
    /\ UNCHANGED <<client, events, attached, launched, vmm, state, done>>

Close(m) ==
    /\ pc' = "loop" /\ cur' = Nobody
    /\ Answer(cur, m) /\ Drop({cur})
    /\ UNCHANGED <<client, backlog, events, attached, launched, vmm, state, done>>

Refused(c) == sent[c] \in {"bad", "extra"}

\* read_request fails: the frame is no request or is followed by another byte,
\* its client has closed before the newline, or control_io has passed.
BadRequest == pc = "read" /\ Refused(cur) /\ Close("error")
Stalled == pc = "read" /\ sent[cur] \in {"none", "part"} /\ Close("error")

Asked(c, o) == pc = "read" /\ sent[c] = "full" /\ op[c] = o

Ping == Asked(cur, "ping") /\ Close("ok")
Status == Asked(cur, "status") /\ Close("ok")

DuplicateLaunch == Asked(cur, "launch") /\ launched /\ Close("error")

\* launch_vmm begins, with a ProtocolSink.
BeginLaunch ==
    /\ Asked(cur, "launch") /\ ~launched
    /\ pc' = "launch" /\ launched' = TRUE /\ events' = 0 /\ attached' = TRUE
    /\ UNCHANGED <<client, cur, backlog, conn, wire, vmm, state, done>>

BeginStop ==
    /\ Asked(cur, "stop") /\ pc' = "stop" /\ events' = 0 /\ attached' = TRUE
    /\ UNCHANGED <<client, cur, backlog, conn, wire, launched, vmm, state, done>>

\* ProtocolSink::write of an event: the first failure detaches the stream.
Emit ==
    /\ pc \in {"launch", "stop"} /\ events < MaxEvents
    /\ events' = events + 1
    /\ IF attached /\ conn[cur] = "up"
       THEN Answer(cur, "event") /\ UNCHANGED attached
       ELSE attached' = FALSE /\ UNCHANGED wire
    /\ UNCHANGED <<client, pc, cur, backlog, conn, launched, vmm, state, done>>

\* ProtocolSink::terminal_ok, terminal_error.
Terminal(m) == IF attached THEN Answer(cur, m) ELSE UNCHANGED wire

\* Mutant: the answer goes out before the VMM is booted.
LaunchOkEarly ==
    /\ pc = "launch" /\ attached /\ Terminal("ok") /\ attached' = FALSE
    /\ UNCHANGED <<client, pc, cur, events, launched, backlog, conn, vmm, state, done>>

\* launch_vmm returns: the VMM is booted and `running` is written.
LaunchOk ==
    /\ pc = "launch" /\ pc' = "loop" /\ cur' = Nobody
    /\ vmm' = "alive" /\ state' = "running" /\ done' = done \cup {<<"launch", cur>>}
    /\ Terminal("ok") /\ Drop({cur}) /\ attached' = FALSE
    /\ UNCHANGED <<client, backlog, events, launched>>

\* It fails or panics: the record of the failure, the error, the end.
LaunchFails ==
    /\ pc = "launch" /\ Terminal("error") /\ Gone("failed")
    /\ UNCHANGED <<client, vmm, done>>

\* stop_owned_vmm, stop_recovered_vmm or no VMM: the VMM is gone, the final
\* state is written, the runtime directory cleaned, then the client hears it.
\* An error while the VMM turned out to be dead ends the same way.
StopOk ==
    /\ pc = "stop" /\ Terminal("ok") /\ Gone("stopped")
    /\ vmm' = IF vmm = "alive" THEN "dead" ELSE vmm
    /\ done' = done \cup {<<"stop", cur>>}
    /\ UNCHANGED client

\* One of the calls after the stop fails: no terminal record.
StopCut ==
    /\ pc = "stop" /\ Gone("stopped") /\ vmm' = IF vmm = "alive" THEN "dead" ELSE vmm
    /\ UNCHANGED <<client, wire, done>>

\* It fails and the VMM lives: the status of before, the error, the loop.
StopFails ==
    /\ pc = "stop" /\ vmm = "alive" /\ pc' = "loop" /\ cur' = Nobody
    /\ Terminal("error") /\ Drop({cur}) /\ attached' = FALSE
    /\ UNCHANGED <<client, backlog, events, launched, vmm, state, done>>

\* observe_exit at the head of the loop.
NoticeExit ==
    /\ pc = "loop" /\ vmm = "dead" /\ Gone("failed")
    /\ UNCHANGED <<client, wire, vmm, done>>

\* No launch came before launch_deadline.
NoLaunch ==
    /\ pc = "loop" /\ ~launched /\ Gone("failed")
    /\ UNCHANGED <<client, wire, vmm, done>>

VmmExits ==
    /\ vmm = "alive" /\ vmm' = "dead"
    /\ UNCHANGED <<shim, client, backlog, conn, wire, state, done>>

Serve ==
    \/ Checked \/ Accept \/ BadRequest \/ Stalled \/ Ping \/ Status \/ DuplicateLaunch \/ BeginLaunch \/ BeginStop
    \/ Emit \/ LaunchOk \/ LaunchFails \/ StopOk \/ StopCut \/ StopFails \/ NoticeExit

Next ==
    \/ \E c \in Client : Connect(c) \/ Write(c) \/ Read(c) \/ ReadClosed(c) \/ Leave(c)
    \/ Serve \/ NoLaunch \/ VmmExits

Spec == Init /\ [][Next]_vars

-----------------------------------------------------------------------------
\* The stages of the control loop, which has a client exactly while it serves one
\* (run_shim).
TypeOK ==
    /\ pc \in {"loop", "accept", "read", "launch", "stop", "gone"} /\ cur \in Client \cup {Nobody}
    /\ (cur = Nobody) <=> pc \in {"loop", "accept", "gone"}
    /\ sent \in [Client -> {"none", "part", "full", "extra", "bad"}]
    /\ res \in [Client -> {"none", "ok", "error", "closed", "left"}]
    /\ vmm \in {"none", "alive", "dead"} /\ state \in {"starting", "running", "stopped", "failed"}

\* What a client is told is what was done for it: a launch or a stop that
\* reports success was carried out on its own request, and a machine is
\* launched once (ControlRequest::Launch if launched, terminal_ok).
AnswersAreTrue ==
    /\ \A c \in Client : res[c] = "ok" /\ op[c] \in {"launch", "stop"} => <<op[c], c>> \in done
    /\ \A d, e \in done : d[1] = "launch" /\ e[1] = "launch" => d = e
    /\ \A c \in Client : res[c] = "ok" => op[c] # "foreign"

\* Every stream is events and at most one terminal record, which is its last.
Framing ==
    \A c \in Client :
        LET all == got[c] \o wire[c] IN
        \A i \in DOMAIN all : all[i] # "event" => i = Len(all)

\* Once it is told that the machine is stopped, no client finds it otherwise:
\* the final state is on disk and the VMM gone (StopOk writes before it speaks).
StoppedIsStopped ==
    (\E c \in Client : op[c] = "stop" /\ res[c] = "ok") => state = "stopped" /\ vmm # "alive" /\ pc = "gone"

\* A whole request has no answer yet; the VMM is gone and the shim is not; a launch has
\* neither a running machine nor a recorded failure.
Unanswered(c) == conn[c] \in {"up", "cut"} /\ sent[c] = "full" /\ res[c] = "none"
Unnoticed == vmm = "dead" /\ pc # "gone"
Launching == launched /\ state = "starting"

-----------------------------------------------------------------------------
(* The inductive invariant behind the properties.                          *)

Records == {"event", "ok", "error"}
OnlyEvents(s) == \A i \in DOMAIN s : s[i] = "event"
TerminalLast(s) == \A i \in DOMAIN s : s[i] # "event" => i = Len(s)

\* Nothing was said to the client yet; it was not told an end.
Unspoken(c) == wire[c] = <<>> /\ got[c] = <<>> /\ res[c] \in {"none", "left"}
Untold(c) == OnlyEvents(wire[c]) /\ OnlyEvents(got[c]) /\ res[c] \in {"none", "left"}

\* A connection waits once, and is not waiting while it is served.
QueueInv ==
    /\ backlog \in Seq(Client) /\ conn \in [Client -> {"away", "up", "left", "cut"}]
    /\ pc \in {"loop", "accept", "read", "launch", "stop", "gone"}
    /\ pc = "accept" => backlog # <<>>
    /\ \/ pc \in {"read", "launch", "stop"} /\ cur \in Client /\ op[cur] # "foreign"
       \/ pc \in {"loop", "accept", "gone"} /\ cur = Nobody
    /\ \A i, j \in DOMAIN backlog : backlog[i] = backlog[j] => i = j
    /\ \A i \in DOMAIN backlog : conn[backlog[i]] \in {"up", "left"} /\ backlog[i] # cur /\ Unspoken(backlog[i])
    /\ \A c \in Client : conn[c] = "away" => Unspoken(c) /\ c # cur
    /\ cur # Nobody => conn[cur] \in {"up", "left"}

\* What is under way to a client or was read by it is events up to one record.
StreamInv ==
    /\ wire \in [Client -> Seq(Records)] /\ got \in [Client -> Seq(Records)]
    /\ res \in [Client -> {"none", "ok", "error", "closed", "left"}]
    /\ \A c \in Client : TerminalLast(wire[c]) /\ TerminalLast(got[c])
    /\ \A c \in Client : wire[c] # <<>> \/ res[c] = "none" => OnlyEvents(got[c])
    /\ cur # Nobody => Untold(cur)

\* A success that is told, or is on its way.
HasOk(s) == \E i \in DOMAIN s : s[i] = "ok"
Told(c) == res[c] = "ok" \/ HasOk(wire[c])

TruthInv ==
    /\ pc = "launch" => op[cur] = "launch" /\ launched
    /\ pc = "stop" => op[cur] = "stop"
    /\ \A d \in done : d[1] = "launch" => launched /\ pc # "launch"
    /\ \A d, e \in done : d[1] = "launch" /\ e[1] = "launch" => d = e
    /\ \A c \in Client : Told(c) =>
         /\ op[c] # "foreign"
         /\ op[c] \in {"launch", "stop"} => <<op[c], c>> \in done
         /\ op[c] = "stop" => state = "stopped" /\ vmm # "alive" /\ pc = "gone"

Inv == QueueInv /\ StreamInv /\ TruthInv

==============================================================================
