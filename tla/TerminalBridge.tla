--------------------------- MODULE TerminalBridge ---------------------------
(***************************************************************************)
(* One browser terminal: GET .../console/ws and .../shell/ws.  Before the  *)
(* upgrade the machine must be running and, for the console, the broker    *)
(* must have acknowledged this client.  After it, two tasks copy bytes     *)
(* between the WebSocket and a byte stream: the broker's socket, or the    *)
(* master of a pseudo-terminal on which ssh runs.  Whichever task ends     *)
(* first has the other aborted.  The far end of the stream is the broker   *)
(* or ssh; a chunk is its place in the order it was written.  A send to    *)
(* the WebSocket is done when the browser's side takes the frame, which it *)
(* need not ever do: the backpressure of a bridge is that await.           *)
(***************************************************************************)
EXTENDS Naturals, Sequences, SequencesExt

CONSTANTS
    MaxOut,     \* chunks the far end writes
    MaxTyped,   \* Binary frames the client sends
    MaxText,    \* Text frames the client sends
    Room,       \* chunks the far end's input holds before a write waits
    Sizes       \* the geometries a resize frame names; 0 is one with a zero dimension

VARIABLES
    route, machine, \* console or shell; running or stopped
    pc,             \* request, ack, setup, relay, reap, done
    answer,         \* the HTTP answer: none, 101, or the error's kind
    far,            \* the far end: none, up, down
    child,          \* ssh: none, running, exited, reaped
    out, wrote,     \* written by the far end and not yet read; how many so far
    input, took,    \* written to the far end and not yet read by it; what it read
    net,            \* frames sent by the client, not yet received
    typed, texts,   \* Binary and Text frames the client has sent
    client,         \* open, closed
    inbound, held,  \* off, read, write, over, aborted; the chunk it is writing
    outbound, chunk,    \* off, read, send, eof, failed, over, aborted; the chunk it is sending
    screen, frame,  \* what the client received; its close frame: none, 1000, 1011
    size, told      \* the terminal's geometry; the one ssh was signalled about

stream == <<far, child, out, wrote, input, took>>
browser == <<net, typed, texts, client>>
tasks == <<inbound, held, outbound, chunk>>
seen == <<screen, frame>>
geometry == <<size, told>>
vars == <<route, machine, pc, answer, stream, browser, tasks, seen, geometry>>

Binary(n) == [kind |-> "binary", n |-> n]
Text(s) == [kind |-> "resize", n |-> s]
Junk == [kind |-> "junk", n |-> 0]
Close == [kind |-> "close", n |-> 0]
Upto(n) == [i \in 1..n |-> i]

Init ==
    /\ route \in {"console", "shell"} /\ machine = "running" /\ pc = "request" /\ answer = "none"
    /\ far = "none" /\ child = "none" /\ out = <<>> /\ wrote = 0 /\ input = <<>> /\ took = <<>>
    /\ net = <<>> /\ typed = 0 /\ texts = 0 /\ client = "open"
    /\ inbound = "off" /\ held = 0 /\ outbound = "off" /\ chunk = 0
    /\ screen = <<>> /\ frame = "none" /\ size = 1 /\ told = 1

-----------------------------------------------------------------------------
(* The machine, the far end and the client.                                *)

MachineStops ==
    /\ machine = "running" /\ machine' = "stopped"
    /\ far' = IF far = "up" THEN "down" ELSE far
    /\ child' = IF child = "running" THEN "exited" ELSE child
    /\ UNCHANGED <<route, pc, answer, out, wrote, input, took, browser, tasks, seen, geometry>>

\* The person at the shell types exit: the last slave closes.
ShellExits ==
    /\ route = "shell" /\ far = "up" /\ far' = "down" /\ child' = "exited"
    /\ UNCHANGED <<route, machine, pc, answer, out, wrote, input, took, browser, tasks, seen, geometry>>

FarWrites ==
    /\ far = "up" /\ wrote < MaxOut /\ wrote' = wrote + 1 /\ out' = Append(out, wrote + 1)
    /\ UNCHANGED <<route, machine, pc, answer, far, child, input, took, browser, tasks, seen, geometry>>

FarReads ==
    /\ far = "up" /\ input # <<>> /\ took' = Append(took, Head(input)) /\ input' = Tail(input)
    /\ UNCHANGED <<route, machine, pc, answer, far, child, out, wrote, browser, tasks, seen, geometry>>

ClientTypes ==
    /\ answer = "101" /\ client = "open" /\ typed < MaxTyped
    /\ typed' = typed + 1 /\ net' = Append(net, Binary(typed + 1))
    /\ UNCHANGED <<route, machine, pc, answer, stream, texts, client, tasks, seen, geometry>>

\* A resize, or a text frame that is not one.
ClientControls ==
    /\ answer = "101" /\ client = "open" /\ texts < MaxText /\ texts' = texts + 1
    /\ \E m \in {Text(s) : s \in Sizes} \cup {Junk} : net' = Append(net, m)
    /\ UNCHANGED <<route, machine, pc, answer, stream, typed, client, tasks, seen, geometry>>

ClientCloses ==
    /\ answer = "101" /\ client = "open" /\ client' = "closed" /\ net' = Append(net, Close)
    /\ UNCHANGED <<route, machine, pc, answer, stream, typed, texts, tasks, seen, geometry>>

-----------------------------------------------------------------------------
(* The handlers: console, shell, require_running.                          *)

Refuse(kind) == answer' = kind /\ pc' = "done"

\* require_running and the plan; the console then connects its broker, and the
\* shell answers 101 and goes on in run_shell_session.
Request ==
    /\ pc = "request"
    /\ \/ machine = "stopped" /\ Refuse("not_running") /\ UNCHANGED far
       \/ machine = "running" /\ Refuse("plan") /\ UNCHANGED far
       \/ machine = "running" /\ route = "console" /\ far' = "up" /\ pc' = "ack" /\ UNCHANGED answer
       \/ machine = "running" /\ route = "shell" /\ answer' = "101" /\ pc' = "setup" /\ UNCHANGED far
    /\ UNCHANGED <<route, machine, child, out, wrote, input, took, browser, tasks, seen, geometry>>

StartRelay == pc' = "relay" /\ inbound' = "read" /\ outbound' = "read" /\ UNCHANGED <<held, chunk>>

\* The acknowledgement: OK, BUSY, another line or none before the timeout.
\* The broker writes the line before any of the machine's output.
ReadAck ==
    /\ pc = "ack"
    /\ \/ far = "up" /\ answer' = "101" /\ StartRelay
       \/ \E kind \in {"busy", "generic", "timeout"} : Refuse(kind) /\ UNCHANGED tasks
    /\ UNCHANGED <<route, machine, stream, browser, seen, geometry>>

\* run_shell_session before the bridge: a failure is told with close_with_error (the
\* first frame of the connection, for which there is room), and one after the spawn
\* first kills and reaps the group.
Setup ==
    /\ pc = "setup"
    /\ \/ /\ machine = "running" /\ far' = "up" /\ child' = "running" /\ StartRelay /\ UNCHANGED frame
       \/ /\ pc' = "done" /\ frame' = IF client = "open" THEN "1011" ELSE frame
          /\ child' \in {"none", "reaped"} /\ UNCHANGED <<far, tasks>>
       \/ /\ machine = "stopped" /\ far' = "down" /\ child' = "exited" /\ StartRelay /\ UNCHANGED frame
    /\ UNCHANGED <<route, machine, answer, out, wrote, input, took, browser, screen, geometry>>

-----------------------------------------------------------------------------
(* bridge.                                                                 *)

\* The end of the stream comes after its bytes; a terminal master reports it as
\* EIO once the last slave is closed, which PtyStream turns into end of file.
AtEnd == out = <<>> /\ far = "down"

\* pump_out: a chunk to send, or how the stream ended.
OutRead ==
    /\ pc = "relay" /\ outbound = "read"
    /\ \/ out # <<>> /\ chunk' = Head(out) /\ out' = Tail(out) /\ outbound' = "send"
       \/ AtEnd /\ outbound' = "eof" /\ UNCHANGED <<chunk, out>>
       \/ far = "down" /\ outbound' = "failed" /\ UNCHANGED <<chunk, out>>
    /\ UNCHANGED <<route, machine, pc, answer, far, child, wrote, input, took, browser, inbound, held, seen, geometry>>

\* The browser takes the frame that pump_out is sending, or the connection is gone and
\* with it somebody to tell.
OutSend ==
    /\ pc = "relay" /\ outbound = "send" /\ chunk' = 0
    /\ \/ client = "open" /\ screen' = Append(screen, chunk) /\ outbound' = "read"
       \/ client = "closed" /\ outbound' = "over" /\ UNCHANGED screen
    /\ UNCHANGED <<route, machine, pc, answer, stream, browser, inbound, held, frame, geometry>>

\* close_sink: the close frame of an ending is a send like any other.
CloseSink ==
    /\ pc = "relay" /\ outbound \in {"eof", "failed"} /\ outbound' = "over"
    /\ \/ client = "open" /\ frame' = IF outbound = "eof" THEN "1000" ELSE "1011"
       \/ client = "closed" /\ UNCHANGED frame
    /\ UNCHANGED <<route, machine, pc, answer, stream, browser, inbound, held, chunk, screen, geometry>>

\* The outbound task waits for a browser that is there and has not taken its frame.
AwaitsBrowser == outbound \in {"send", "eof", "failed"} /\ client = "open"

\* apply_control: only a resize of a shell with no zero dimension acts; it sets
\* the size and then signals the group.
Applies(m) == m.kind = "resize" /\ route = "shell" /\ m.n # 0

Control(m) ==
    /\ size' = IF Applies(m) THEN m.n ELSE size
    /\ told' = IF Applies(m) /\ far = "up" THEN m.n ELSE told

\* A Close frame, or the end of the connection, ends the task.
InRead ==
    /\ pc = "relay" /\ inbound = "read" /\ net # <<>> /\ net' = Tail(net)
    /\ LET m == Head(net) IN
       \/ m.kind = "binary" /\ held' = m.n /\ inbound' = "write" /\ UNCHANGED geometry
       \/ m.kind \in {"resize", "junk"} /\ Control(m) /\ UNCHANGED <<inbound, held>>
       \/ m.kind = "close" /\ inbound' = "over" /\ UNCHANGED <<held, geometry>>
    /\ UNCHANGED <<route, machine, pc, answer, stream, typed, texts, client, outbound, chunk, seen>>

\* What a terminal, or a socket, takes without waiting.
HasRoom == far = "up" /\ Len(input) < Room

\* write_all: waits for room, and fails once the far end is gone.
InWrite ==
    /\ pc = "relay" /\ inbound = "write"
    /\ \/ /\ HasRoom /\ input' = Append(input, held)
          /\ inbound' = "read"
       \/ far = "down" /\ inbound' = "over" /\ UNCHANGED input
    /\ held' = 0
    /\ UNCHANGED <<route, machine, pc, answer, far, child, out, wrote, took, browser, outbound, chunk, seen, geometry>>

Abort(task) == IF task = "over" THEN task ELSE "aborted"

\* Mutant: only the end of the byte stream ends the session.
SelectOutbound ==
    /\ pc = "relay" /\ outbound = "over"
    /\ inbound' = Abort(inbound) /\ outbound' = Abort(outbound) /\ held' = 0 /\ chunk' = 0
    /\ pc' = IF route = "shell" THEN "reap" ELSE "done"
    /\ UNCHANGED <<route, machine, answer, stream, browser, seen, geometry>>

\* select!: one task has ended and the other is aborted where it stands.  The
\* console's handler is then over: both halves of its stream are dropped.
Select ==
    /\ pc = "relay" /\ "over" \in {inbound, outbound}
    /\ inbound' = Abort(inbound) /\ outbound' = Abort(outbound) /\ held' = 0 /\ chunk' = 0
    /\ pc' = IF route = "shell" THEN "reap" ELSE "done"
    /\ UNCHANGED <<route, machine, answer, stream, browser, seen, geometry>>

\* The group is killed, then ssh is waited for.
Reap ==
    /\ pc = "reap" /\ pc' = "done" /\ far' = "down" /\ child' = "reaped"
    /\ UNCHANGED <<route, machine, answer, out, wrote, input, took, browser, tasks, seen, geometry>>

World == MachineStops \/ ShellExits \/ FarWrites \/ ClientTypes \/ ClientControls \/ ClientCloses
Outbound == OutRead \/ OutSend \/ CloseSink
Inbound == InRead \/ InWrite
Handler == Request \/ ReadAck \/ Setup \/ Select \/ Reap
Next == World \/ FarReads \/ Outbound \/ Inbound \/ Handler

Spec == Init /\ [][Next]_vars

-----------------------------------------------------------------------------
\* The stages of a session and of its two pumps, and the close frames there are (bridge).
TypeOK ==
    /\ pc \in {"request", "ack", "setup", "relay", "reap", "done"}
    /\ answer \in {"none", "101", "not_running", "plan", "busy", "generic", "timeout"}
    /\ far \in {"none", "up", "down"} /\ child \in {"none", "running", "exited", "reaped"}
    /\ out \in Seq(1..MaxOut) /\ wrote \in 0..MaxOut /\ Len(input) <= Room
    /\ took \in Seq(1..MaxTyped) /\ held \in 0..MaxTyped /\ chunk \in 0..MaxOut
    /\ inbound \in {"off", "read", "write", "over", "aborted"}
    /\ outbound \in {"off", "read", "send", "eof", "failed", "over", "aborted"}
    /\ frame \in {"none", "1000", "1011"} /\ size \in Sizes \ {0} /\ told \in Sizes \ {0}

\* Binary frames are the stream's bytes in both directions: neither side ever
\* sees one missing in the middle, twice or out of order (bridge, pump_out).
BytesAreOrdered ==
    /\ IsPrefix(screen, Upto(wrote))
    /\ IsPrefix(took \o input, Upto(typed))

\* A client told that the stream ended (close code 1000) has all of the output
\* that was written before the end (pump_out reads to the end of file).
EndedMeansAll == frame = "1000" => far = "down" /\ screen = Upto(wrote)

\* No ssh outlives its handler, on any path out of run_shell_session.
NoChildLeft == pc = "done" => child \in {"none", "reaped"}

\* One of the two ends is gone and the session is not over, nor waiting for a browser that
\* does not read.
Halved ==
    /\ pc # "done" /\ ~AwaitsBrowser
    /\ client = "closed" \/ (pc \in {"relay", "reap"} /\ far = "down")

-----------------------------------------------------------------------------
(* The inductive invariant behind the properties.                          *)

\* Which far end and child there are at which stage of which route.
StageInv ==
    /\ route \in {"console", "shell"} /\ client \in {"open", "closed"}
    /\ pc \in {"request", "ack", "setup", "relay", "reap", "done"} /\ far \in {"none", "up", "down"}
    /\ route = "console" => child = "none" /\ pc \notin {"setup", "reap"}
    /\ route = "shell" => pc # "ack" /\ (pc \in {"request", "setup", "done"} => far # "up")
    /\ pc \in {"request", "setup"} => child = "none"
    /\ NoChildLeft

\* The chunks from the far end: received, being sent, still in the stream.
OutInv ==
    /\ wrote \in Nat /\ out \in Seq(Nat) /\ screen \in Seq(Nat)
    /\ Len(out) <= wrote /\ \A i \in DOMAIN out : out[i] = wrote - Len(out) + i
    /\ \A i \in DOMAIN screen : screen[i] = i
    /\ pc \in {"request", "ack", "setup"} => outbound = "off" /\ frame = "none"
    /\ Len(screen) + (IF outbound = "send" THEN 1 ELSE 0) <= wrote - Len(out)
    /\ outbound \in {"off", "read", "send", "eof", "failed"} =>
          Len(screen) + (IF outbound = "send" THEN 1 ELSE 0) = wrote - Len(out)
    /\ outbound = "send" => chunk = Len(screen) + 1
    /\ outbound = "eof" => far = "down" /\ out = <<>>
    /\ frame = "1000" => far = "down" /\ pc \notin {"request", "ack", "setup"} /\ outbound = "over"
                         /\ out = <<>> /\ Len(screen) = wrote

Frames == [kind : {"binary", "resize", "junk", "close"}, n : Nat]

\* The Binary frames of s are those after the first `base` up to the n-th, in order.
Follow(s, base, n) ==
    /\ \A i \in DOMAIN s : s[i].kind = "binary" => base < s[i].n /\ s[i].n <= n
    /\ \A i, j \in DOMAIN s : i < j /\ s[i].kind = "binary" /\ s[j].kind = "binary" => s[i].n < s[j].n
    /\ \A m \in base + 1 .. n : \E i \in DOMAIN s : s[i].kind = "binary" /\ s[i].n = m

\* The chunks to the far end: read by it, in its input, being written, in flight.
InInv ==
    /\ typed \in Nat /\ took \in Seq(Nat) /\ input \in Seq(Nat) /\ net \in Seq(Frames)
    /\ \A i \in DOMAIN took : took[i] = i
    /\ \A i \in DOMAIN input : input[i] = Len(took) + i
    /\ Len(took) + Len(input) <= typed
    /\ pc \in {"request", "ack", "setup"} => inbound = "off"
    /\ inbound \in {"off", "read"} => Follow(net, Len(took) + Len(input), typed)
    /\ inbound = "write" => /\ held = Len(took) + Len(input) + 1 /\ held <= typed
                            /\ Follow(net, Len(took) + Len(input) + 1, typed)

Inv == StageInv /\ OutInv /\ InInv
=============================================================================
