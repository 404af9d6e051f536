------------------------------ MODULE CmdRunner -------------------------------
(***************************************************************************)
(* Cmd, the one way the program runs another: a child in a group of its    *)
(* own, descendants that inherit its pipes, a thread that writes its       *)
(* stdin, two that read its output, and a caller with an absolute deadline *)
(* that waits for the child and then for the threads.  output captures,    *)
(* status_interactive inherits the terminal, and a ManagedProcess is left  *)
(* with its owner.  A pid is free for a stranger once the child is reaped  *)
(* and nothing is left in its group.                                       *)
(***************************************************************************)
EXTENDS Naturals, Sequences, FiniteSets

CONSTANTS
    Desc,        \* processes the child may start
    Escapes,     \* whether one of them may leave the group (setsid)
    MaxRetries,  \* EXECUTABLE_BUSY_MAX_RETRIES
    MaxOut,      \* bytes a stream carries
    MaxIn,       \* bytes given for stdin
    Limit,       \* capture_limit
    Modes        \* how commands are run

VARIABLES
    how,        \* [mode, deadline, input, log, session]: the builder's settings
    pc,         \* caller: spawn, log, wait, kill, stdin, stdout, stderr, owned, done
    tries,      \* spawn attempts so far that met ETXTBSY
    expired,    \* the deadline has passed
    timedOut,   \* the caller's flag
    hit,        \* the worker being joined was given up at the deadline
    child,      \* none, running, zombie, reaped
    code,       \* its exit status: none, ok, bad, signal
    desc,       \* of each descendant: unborn, group, quiet (in the group, its
                \* streams redirected), escaped, dead
    group,      \* ManagedProcess::process_group is known
    toWrite,    \* stdin bytes the writer still holds
    inPipe,     \* stdin bytes in the pipe, which holds one
    writer,     \* none, run, ok, error
    made,       \* bytes each stream has carried; a byte is its position
    unread,     \* how many of them are still in the pipe
    cap,        \* of each stream: [bytes, truncated]
    reader,     \* none, run, ok, error
    stranger,   \* a process that got the pid: none, alive, killed
    result      \* none, ok, bad, signal, timeout, error, replaced (exec)

tree == <<child, code, desc>>
stdin == <<toWrite, inPipe, writer>>
streams == <<made, unread, cap, reader>>
vars == <<how, pc, tries, expired, timedOut, hit, tree, group, stdin, streams, stranger, result>>

Stream == {"stdout", "stderr"}

Init ==
    /\ how \in [mode : Modes, deadline : BOOLEAN, input : 0..MaxIn, log : BOOLEAN, session : BOOLEAN]
    /\ how.session => how.mode = "managed"
    /\ pc = "spawn" /\ tries = 0 /\ expired = FALSE /\ timedOut = FALSE /\ hit = FALSE
    /\ child = "none" /\ code = "none" /\ desc = [d \in Desc |-> "unborn"] /\ group = FALSE
    /\ toWrite = 0 /\ inPipe = 0 /\ writer = "none"
    /\ made = [s \in Stream |-> 0] /\ unread = [s \in Stream |-> 0]
    /\ cap = [s \in Stream |-> [bytes |-> <<>>, truncated |-> FALSE]]
    /\ reader = [s \in Stream |-> "none"]
    /\ stranger = "none" /\ result = "none"

Alive == {d \in Desc : desc[d] \in {"group", "escaped"}}
InGroup == {d \in Desc : desc[d] \in {"group", "quiet"}}
Held == child = "running" \/ Alive # {}   \* somebody has the other ends of the pipes

-----------------------------------------------------------------------------
(* The child, its descendants, the host.                                   *)

Exit(c) ==
    /\ child = "running" /\ child' = "zombie" /\ code' = c
    /\ UNCHANGED <<how, pc, tries, expired, timedOut, hit, desc, group, stdin, streams, stranger, result>>

Fork(d) ==
    /\ desc[d] = "unborn" /\ (child = "running" \/ InGroup # {})
    /\ desc' = [desc EXCEPT ![d] = "group"]
    /\ UNCHANGED <<how, pc, tries, expired, timedOut, hit, child, code, group, stdin, streams, stranger, result>>

Setsid(d) ==
    /\ Escapes /\ desc[d] = "group" /\ desc' = [desc EXCEPT ![d] = "escaped"]
    /\ UNCHANGED <<how, pc, tries, expired, timedOut, hit, child, code, group, stdin, streams, stranger, result>>

Redirect(d) ==
    /\ desc[d] = "group" /\ desc' = [desc EXCEPT ![d] = "quiet"]
    /\ UNCHANGED <<how, pc, tries, expired, timedOut, hit, child, code, group, stdin, streams, stranger, result>>

DescExit(d) ==
    /\ d \in Alive \cup InGroup /\ desc' = [desc EXCEPT ![d] = "dead"]
    /\ UNCHANGED <<how, pc, tries, expired, timedOut, hit, child, code, group, stdin, streams, stranger, result>>

Produce(s) ==
    /\ Held /\ reader[s] = "run" /\ made[s] < MaxOut
    /\ made' = [made EXCEPT ![s] = @ + 1] /\ unread' = [unread EXCEPT ![s] = @ + 1]
    /\ UNCHANGED <<how, pc, tries, expired, timedOut, hit, tree, group, stdin, cap, reader, stranger, result>>

Consume ==
    /\ Held /\ inPipe > 0 /\ inPipe' = inPipe - 1
    /\ UNCHANGED <<how, pc, tries, expired, timedOut, hit, tree, group, toWrite, writer, streams, stranger, result>>

Tick ==
    /\ how.deadline /\ ~expired /\ expired' = TRUE
    /\ UNCHANGED <<how, pc, tries, timedOut, hit, tree, group, stdin, streams, stranger, result>>

\* The kernel gives the number to another process.
Reuse ==
    /\ child = "reaped" /\ InGroup = {} /\ stranger = "none" /\ stranger' = "alive"
    /\ UNCHANGED <<how, pc, tries, expired, timedOut, hit, tree, group, stdin, streams, result>>

-----------------------------------------------------------------------------
(* The threads.                                                            *)

\* stdin.write_all: the pipe is full, or all is written and the end closed, or
\* nobody is left to read.
WriteByte ==
    /\ writer = "run"
    /\ \/ toWrite > 0 /\ Held /\ inPipe = 0 /\ toWrite' = toWrite - 1 /\ inPipe' = 1 /\ UNCHANGED writer
       \/ toWrite = 0 /\ writer' = "ok" /\ UNCHANGED <<toWrite, inPipe>>
       \/ toWrite > 0 /\ ~Held /\ writer' = "error" /\ UNCHANGED <<toWrite, inPipe>>
    /\ UNCHANGED <<how, pc, tries, expired, timedOut, hit, tree, group, streams, stranger, result>>

\* The body of the loop of capture_stream for one read of bytes `new`.
Retain(s, new) ==
    LET old == cap[s].bytes
        over == IF Len(old) + Len(new) > Limit THEN Len(old) + Len(new) - Limit ELSE 0
        room == IF Limit > Len(old) THEN Limit - Len(old) ELSE 0
        kept == IF room < Len(new) THEN room ELSE Len(new)
    IN  IF s = "stderr"
        THEN IF Len(new) >= Limit
             THEN [bytes |-> SubSeq(new, Len(new) - Limit + 1, Len(new)), truncated |-> TRUE]
             ELSE [bytes |-> SubSeq(old, over + 1, Len(old)) \o new,
                   truncated |-> cap[s].truncated \/ over > 0]
        ELSE [bytes |-> old \o SubSeq(new, 1, kept), truncated |-> cap[s].truncated \/ kept < Len(new)]

\* Bytes the pipe holds, oldest first.
Pending(s) == [i \in 1..unread[s] |-> made[s] - unread[s] + i]

\* capture_stream: a read of some of what is there, the end of the stream, or a
\* log that cannot be written.
ReadSome(s) ==
    /\ reader[s] = "run" /\ unread[s] > 0
    /\ \/ \E n \in 1..unread[s] :
             /\ cap' = [cap EXCEPT ![s] = Retain(s, SubSeq(Pending(s), 1, n))]
             /\ unread' = [unread EXCEPT ![s] = @ - n] /\ UNCHANGED reader
       \/ /\ s = "stderr" /\ how.log /\ reader' = [reader EXCEPT ![s] = "error"]
          /\ UNCHANGED <<cap, unread>>
    /\ UNCHANGED <<how, pc, tries, expired, timedOut, hit, tree, group, stdin, made, stranger, result>>

ReadEnd(s) ==
    /\ reader[s] = "run" /\ unread[s] = 0 /\ ~Held
    /\ reader' = [reader EXCEPT ![s] = "ok"]
    /\ UNCHANGED <<how, pc, tries, expired, timedOut, hit, tree, group, stdin, made, unread, cap, stranger, result>>

-----------------------------------------------------------------------------
(* The caller.                                                             *)

Finish(r) == pc' = "done" /\ result' = r

\* Settings a mode has no use for are refused before anything is started.
Refuses ==
    \/ how.mode # "output" /\ (how.input > 0 \/ how.log)
    \/ how.mode = "exec" /\ how.deadline

Refuse ==
    /\ pc = "spawn" /\ Refuses /\ Finish("error")
    /\ UNCHANGED <<how, tries, expired, timedOut, hit, tree, group, stdin, streams, stranger>>

\* spawn_with_busy_retry: the deadline is looked at before each attempt.
SpawnBusy ==
    /\ pc = "spawn" /\ ~Refuses /\ how.mode # "exec"
    /\ IF tries < MaxRetries /\ ~expired
       THEN tries' = tries + 1 /\ UNCHANGED <<pc, result>>
       ELSE Finish("error") /\ UNCHANGED tries
    /\ UNCHANGED <<how, expired, timedOut, hit, tree, group, stdin, streams, stranger>>

\* command_start_error: any other failure.
SpawnFails ==
    /\ pc = "spawn" /\ ~Refuses /\ Finish("error")
    /\ UNCHANGED <<how, tries, expired, timedOut, hit, tree, group, stdin, streams, stranger>>

\* The attempts are a local of the retry loop.
Started(next, g) ==
    /\ pc = "spawn" /\ ~Refuses /\ ~expired /\ child' = "running" /\ pc' = next /\ group' = g /\ tries' = 0
    /\ UNCHANGED <<how, expired, timedOut, hit, code, desc, stdin, streams, stranger, result>>

SpawnOutput == how.mode = "output" /\ Started("log", TRUE)
SpawnInteractive == how.mode = "interactive" /\ Started("wait", FALSE)

\* spawn_long_running: the child of spawn_session_candidate makes its own group.
SpawnManaged == how.mode = "managed" /\ Started("owned", ~how.session)

\* spawn_terminal_process_group, spawn_interactive_process_group.
SpawnTerminal == how.mode = "terminal" /\ Started("owned", TRUE)

\* exec: this process becomes the other one.
Exec ==
    /\ how.mode = "exec" /\ pc = "spawn" /\ ~Refuses /\ Finish("replaced")
    /\ UNCHANGED <<how, tries, expired, timedOut, hit, tree, group, stdin, streams, stranger>>

\* kill_process_group: killpg(SIGKILL).  The number names whatever has it now.
KillGroup ==
    /\ child' = IF child = "running" THEN "zombie" ELSE child
    /\ code' = IF child = "running" THEN "signal" ELSE code
    /\ desc' = [d \in Desc |-> IF d \in InGroup THEN "dead" ELSE desc[d]]
    /\ stranger' = IF stranger = "alive" THEN "killed" ELSE stranger

\* The same followed by child.wait().
KillAndReap ==
    /\ child' = "reaped" /\ code' = IF child = "running" THEN "signal" ELSE code
    /\ desc' = [d \in Desc |-> IF d \in InGroup THEN "dead" ELSE desc[d]]
    /\ UNCHANGED stranger

\* open_log refuses the file: the child is already running.
LogFails ==
    /\ pc = "log" /\ how.log /\ KillAndReap /\ Finish("error")
    /\ UNCHANGED <<how, tries, expired, timedOut, hit, group, stdin, streams>>

StartThreads ==
    /\ pc = "log" /\ pc' = "wait"
    /\ reader' = [s \in Stream |-> "run"]
    /\ toWrite' = how.input /\ writer' = IF how.input > 0 THEN "run" ELSE "none"
    /\ UNCHANGED <<how, tries, expired, timedOut, hit, tree, group, inPipe, made, unread, cap, stranger, result>>

\* child.wait, or wait_timeout before the deadline.
Reap ==
    /\ pc = "wait" /\ child = "zombie" /\ child' = "reaped"
    /\ IF how.mode = "output" THEN pc' = "stdin" /\ UNCHANGED result ELSE Finish(code)
    /\ UNCHANGED <<how, tries, expired, timedOut, hit, code, desc, group, stdin, streams, stranger>>

\* wait_timeout gives up; the child may still end before it is killed.
GiveUp ==
    /\ pc = "wait" /\ expired /\ child = "running" /\ pc' = "kill"
    /\ UNCHANGED <<how, tries, expired, timedOut, hit, tree, group, stdin, streams, stranger, result>>

\* output kills the group; status_interactive, whose child shares the group of
\* the terminal, only the child.
Kill ==
    /\ pc = "kill" /\ timedOut' = TRUE
    /\ IF how.mode = "output"
       THEN KillAndReap /\ pc' = "stdin" /\ UNCHANGED result
       ELSE /\ child' = "reaped" /\ code' = IF child = "running" THEN "signal" ELSE code
            /\ UNCHANGED <<desc, stranger>> /\ Finish("timeout")
    /\ UNCHANGED <<how, tries, expired, hit, group, stdin, streams>>

Finished(w) == IF w = "stdin" THEN writer # "run" ELSE reader[w] # "run"

\* join_before_deadline at the deadline: kill_process_group once more.
JoinExpired(w) ==
    /\ pc = w /\ ~Finished(w) /\ expired /\ ~hit
    /\ hit' = TRUE /\ timedOut' = TRUE /\ KillGroup
    /\ UNCHANGED <<how, pc, tries, expired, group, stdin, streams, result>>

\* worker.join(); stdin's error is kept for later, a reader's ends the call.
JoinStdin ==
    /\ pc = "stdin" /\ Finished("stdin") /\ hit' = FALSE /\ pc' = "stdout"
    /\ UNCHANGED <<how, tries, expired, timedOut, tree, group, stdin, streams, stranger, result>>

JoinStdout ==
    /\ pc = "stdout" /\ Finished("stdout") /\ hit' = FALSE /\ pc' = "stderr"
    /\ UNCHANGED <<how, tries, expired, timedOut, tree, group, stdin, streams, stranger, result>>

\* The end of output: a failed capture, then the timeout, then a writer that
\* failed under a command that succeeded, then the status.
Outcome ==
    IF reader["stderr"] = "error" THEN "error"
    ELSE IF timedOut THEN "timeout"
    ELSE IF code = "ok" /\ writer = "error" THEN "error"
    ELSE code

JoinStderr ==
    /\ pc = "stderr" /\ Finished("stderr") /\ hit' = FALSE /\ Finish(Outcome)
    /\ UNCHANGED <<how, tries, expired, timedOut, tree, group, stdin, streams, stranger>>

-----------------------------------------------------------------------------
(* ManagedProcess, whose owner calls what it likes in any order.           *)

\* confirm_session: getpgid of a child that is not reaped.
ConfirmSession ==
    /\ pc = "owned" /\ child # "reaped" /\ ~group /\ group' = TRUE
    /\ UNCHANGED <<how, pc, tries, expired, timedOut, hit, tree, stdin, streams, stranger, result>>

\* try_wait, wait, wait_timeout.
OwnerWaits ==
    /\ pc = "owned" /\ child = "zombie" /\ child' = "reaped"
    /\ UNCHANGED <<how, pc, tries, expired, timedOut, hit, code, desc, group, stdin, streams, stranger, result>>

\* signal_group(Kill): refused once reaped, and without a group.
SignalGroup ==
    /\ pc = "owned" /\ child # "reaped" /\ group /\ KillGroup
    /\ UNCHANGED <<how, pc, tries, expired, timedOut, hit, group, stdin, streams, result>>

\* signal_process(Kill).
SignalProcess ==
    /\ pc = "owned" /\ child = "running" /\ child' = "zombie" /\ code' = "signal"
    /\ UNCHANGED <<how, pc, tries, expired, timedOut, hit, desc, group, stdin, streams, stranger, result>>

Threads == WriteByte \/ \E s \in Stream : ReadSome(s) \/ ReadEnd(s)

Caller ==
    \/ Refuse \/ SpawnBusy \/ SpawnFails \/ SpawnOutput \/ SpawnInteractive \/ SpawnManaged
    \/ SpawnTerminal \/ Exec \/ LogFails \/ StartThreads \/ Reap \/ GiveUp \/ Kill
    \/ \E w \in {"stdin", "stdout", "stderr"} : JoinExpired(w)
    \/ JoinStdin \/ JoinStdout \/ JoinStderr

Owner == ConfirmSession \/ OwnerWaits \/ SignalGroup \/ SignalProcess

World ==
    \/ \E c \in {"ok", "bad", "signal"} : Exit(c)
    \/ \E d \in Desc : Fork(d) \/ Setsid(d) \/ Redirect(d) \/ DescExit(d)
    \/ (\E s \in Stream : Produce(s)) \/ Consume \/ Tick \/ Reuse

Next == Threads \/ Caller \/ Owner \/ World

Spec == Init /\ [][Next]_vars

-----------------------------------------------------------------------------
(* What a caller may rely on.                                              *)

\* Pipes and captures stay within their limits, and a call has a result exactly when it
\* has returned (Cmd::output).
TypeOK ==
    /\ pc \in {"spawn", "log", "wait", "kill", "stdin", "stdout", "stderr", "owned", "done"}
    /\ tries \in 0..MaxRetries /\ {expired, timedOut, hit, group} \subseteq BOOLEAN
    /\ child \in {"none", "running", "zombie", "reaped"} /\ code \in {"none", "ok", "bad", "signal"}
    /\ desc \in [Desc -> {"unborn", "group", "quiet", "escaped", "dead"}]
    /\ toWrite \in 0..MaxIn /\ inPipe \in 0..1 /\ writer \in {"none", "run", "ok", "error"}
    /\ \A s \in Stream : /\ unread[s] \in 0..made[s] /\ made[s] \in 0..MaxOut
                         /\ Len(cap[s].bytes) \in 0..Limit
                         /\ reader[s] \in {"none", "run", "ok", "error"}
    /\ stranger \in {"none", "alive", "killed"}
    /\ result \in {"none", "ok", "bad", "signal", "timeout", "error", "replaced"}
    /\ (pc = "done") = (result # "none")

\* Every byte a stream carried, in order.
Whole(s) == [i \in 1..made[s] |-> i]

\* A call that returns a status returns the child's own, after the child is
\* reaped and within the deadline as its threads saw it; what it captured is
\* the head of stdout and the tail of stderr, all of each when the truncation
\* mark is absent, however the reads were split (Cmd::output, capture_stream).
StatusIsWhole ==
    pc = "done" /\ how.mode = "output" /\ result \in {"ok", "bad", "signal"} =>
        /\ result = code /\ child = "reaped" /\ ~timedOut
        /\ result = "ok" => toWrite = 0
        /\ \A s \in Stream :
              LET n == Len(cap[s].bytes) IN
              /\ unread[s] = 0
              /\ cap[s].bytes = IF s = "stdout" THEN SubSeq(Whole(s), 1, n)
                                ELSE SubSeq(Whole(s), made[s] - n + 1, made[s])
              /\ n = IF made[s] < Limit THEN made[s] ELSE Limit
              /\ n < made[s] => cap[s].truncated

\* When output reports a timeout nothing of the command's group is left, the
\* child is reaped, and the caller's three threads have ended
\* (kill_process_group, join_before_deadline).
TimeoutLeavesNothing ==
    pc = "done" /\ how.mode = "output" /\ child # "none" /\ result \in {"timeout", "error"} /\ timedOut =>
        /\ child = "reaped" /\ InGroup = {}
        /\ writer # "run" /\ \A s \in Stream : reader[s] # "run"

\* However its owner orders waits and signals, a ManagedProcess never signals
\* a process that got the number of its reaped child (signal_group).
OwnersSpareStrangers == how.mode \in {"managed", "terminal"} => stranger # "killed"

\* A call that is at work though its deadline has passed, or its command is over with
\* everything it started.
Due == pc # "owned" /\ pc # "done" /\ (expired \/ (child \in {"zombie", "reaped"} /\ Alive = {}))

-----------------------------------------------------------------------------
(* The inductive invariant behind the properties.                          *)

\* Who runs what at which stage; a number is free for a stranger once the child is reaped.
StageInv ==
    /\ how.input \in Nat /\ DOMAIN desc = Desc
    /\ pc \in {"spawn", "log", "wait", "kill", "stdin", "stdout", "stderr", "owned", "done"}
    /\ pc = "spawn" => child = "none"
    /\ pc \in {"spawn", "log", "wait", "kill"} => ~timedOut
    /\ pc \in {"log", "stdin", "stdout", "stderr"} => how.mode = "output"
    /\ pc \in {"wait", "kill"} => how.mode \in {"output", "interactive"}
    /\ pc = "owned" => how.mode \in {"managed", "terminal"}
    /\ pc \in {"stdin", "stdout", "stderr"} => child = "reaped"
    /\ stranger # "none" => child = "reaped"
    /\ OwnersSpareStrangers

\* The threads are joined one after the other, and a group that was killed stays empty.
JoinInv ==
    /\ timedOut /\ how.mode = "output" => child = "reaped" /\ InGroup = {}
    /\ pc \in {"stdout", "stderr"} => writer # "run"
    /\ pc = "stderr" => reader["stdout"] # "run"
    /\ pc \in {"wait", "kill", "stdin", "stdout", "stderr"} /\ how.mode = "output" => \A s \in Stream : reader[s] # "none"
    /\ pc = "done" /\ how.mode = "output" /\ timedOut => writer # "run" /\ \A s \in Stream : reader[s] # "run"

\* What a reader has of the first m bytes of its stream.
Fits(s, c, m) ==
    LET n == Len(c.bytes) IN
    /\ c.bytes \in Seq(Nat) /\ n = IF m < Limit THEN m ELSE Limit
    /\ \A i \in 1..n : c.bytes[i] = IF s = "stdout" THEN i ELSE m - n + i
    /\ n < m => c.truncated

CaptureInv ==
    /\ made \in [Stream -> Nat] /\ unread \in [Stream -> Nat] /\ DOMAIN cap = Stream
    /\ reader \in [Stream -> {"none", "run", "ok", "error"}] /\ reader["stdout"] # "error"
    /\ \A s \in Stream : /\ unread[s] <= made[s] /\ Fits(s, cap[s], made[s] - unread[s])
                         /\ reader[s] = "ok" => unread[s] = 0
    /\ toWrite \in Nat /\ writer \in {"none", "run", "ok", "error"}
    /\ writer \in {"none", "ok"} => toWrite = 0

\* A status is returned of a child that is reaped, when every thread came to its end.
StatusInv ==
    pc = "done" /\ how.mode = "output" /\ result \in {"ok", "bad", "signal"} =>
        /\ result = code /\ child = "reaped" /\ ~timedOut
        /\ result = "ok" => writer \notin {"run", "error"}
        /\ \A s \in Stream : reader[s] = "ok"

Inv == StageInv /\ JoinInv /\ CaptureInv /\ StatusInv

==============================================================================
