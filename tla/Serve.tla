-------------------------------- MODULE Serve ---------------------------------
(***************************************************************************)
(* The listeners of `firestone serve`: the Unix socket in the runtime      *)
(* directory, taken under .serve.lock and taken over when a crash left it  *)
(* behind, and the token file of a loopback listener.  Several processes   *)
(* start, stop and crash; another program of the same user may replace the *)
(* socket.  Every system call on the shared names is a step.               *)
(***************************************************************************)
EXTENDS Naturals, FiniteSets

CONSTANTS
    Process,    \* serve processes
    None, Empty,    \* nobody, or no file; a file nothing was written to yet
    MaxNodes,   \* bound on the nodes created under the socket's name
    MaxStarts   \* bound on the starts of one process

VARIABLES
    lock,       \* the holder of the flock on .serve.lock
    node,       \* the inode under the socket's name, 0 for none
    made,       \* inodes created so far
    hostile,    \* inodes that are not a current-user socket of mode 0600
    listening,  \* inodes whose socket somebody listens on
    pc, starts,
    own,        \* the inode a process bound in its last run
    seen,       \* the inode it found, then the identity it recorded
    res,        \* how its last run ended
    token,      \* the token file: None, Empty or the token in it
    have,       \* the token a loopback server answers to
    lost, late  \* history: live sockets unlinked; inodes that came in between

files == <<lock, node, made, hostile, listening>>
tokens == <<token, have>>
vars == <<files, pc, starts, own, seen, res, tokens, lost, late>>

Tokens == Process \X (1..MaxStarts)

Init ==
    /\ lock = None /\ made = 1 /\ node \in {0, 1} /\ hostile \in SUBSET {1} /\ listening = {}
    /\ pc = [p \in Process |-> "off"] /\ starts = [p \in Process |-> 0]
    /\ own = [p \in Process |-> 0] /\ seen = own /\ res = [p \in Process |-> "none"]
    /\ token = None /\ have = [p \in Process |-> None] /\ lost = {} /\ late = {}

Goto(p, l) == pc' = [pc EXCEPT ![p] = l]

\* The run is over: BoundSocket, its listener and its lock are dropped.
End(p, r) ==
    /\ Goto(p, "off") /\ res' = [res EXCEPT ![p] = r]
    /\ lock' = IF lock = p THEN None ELSE lock
    /\ listening' = listening \ {own[p]}

Unlinked ==
    /\ node' = 0
    /\ lost' = IF node \in listening THEN lost \cup {node} ELSE lost

-----------------------------------------------------------------------------
(* A Unix listener.                                                        *)

\* run: the signal handlers; ensure_runtime_dir, validate_socket_path, open.
Start(p) ==
    /\ pc[p] = "off" /\ starts[p] < MaxStarts
    /\ starts' = [starts EXCEPT ![p] = @ + 1] /\ Goto(p, "open")
    /\ res' = [res EXCEPT ![p] = "none"] /\ own' = [own EXCEPT ![p] = 0]
    /\ UNCHANGED <<files, seen, tokens, lost, late>>

\* ServeLock::acquire: flock without waiting.
Acquire(p) ==
    /\ pc[p] = "open"
    /\ IF lock = None
       THEN lock' = p /\ Goto(p, "stat") /\ UNCHANGED <<listening, res>>
       ELSE End(p, "conflict")
    /\ UNCHANGED <<node, made, hostile, starts, seen, tokens, own, lost, late>>

\* The node under the name, refused unless it is a private socket.
Stat(p) ==
    /\ pc[p] = "stat"
    /\ \/ node = 0 /\ Goto(p, "bind") /\ UNCHANGED <<files, seen, res>>
       \/ /\ node # 0 /\ node \notin hostile
          /\ seen' = [seen EXCEPT ![p] = node] /\ Goto(p, "probe") /\ UNCHANGED <<files, res>>
       \/ node \in hostile /\ End(p, "dependency") /\ UNCHANGED <<node, made, hostile, seen>>
    /\ UNCHANGED <<starts, tokens, own, lost, late>>

\* Mutant: a socket that is there is taken for a server, without connecting.
ProbeByName(p) ==
    /\ pc[p] = "probe" /\ End(p, "conflict")
    /\ UNCHANGED <<node, made, hostile, starts, seen, tokens, own, lost, late>>

\* connect: an answer is a server; refused or gone is stale.
Probe(p) ==
    /\ pc[p] = "probe"
    /\ IF node \in listening
       THEN End(p, "conflict") /\ UNCHANGED <<node, made, hostile>>
       ELSE Goto(p, "recheck") /\ UNCHANGED <<files, res>>
    /\ UNCHANGED <<starts, seen, tokens, own, lost, late>>

\* The same inode must still be there.
Recheck(p) ==
    /\ pc[p] = "recheck"
    /\ IF node = seen[p]
       THEN Goto(p, "unlink") /\ UNCHANGED <<files, res>>
       ELSE End(p, "conflict") /\ UNCHANGED <<node, made, hostile>>
    /\ UNCHANGED <<starts, seen, tokens, own, lost, late>>

Unlink(p) ==
    /\ pc[p] = "unlink" /\ Unlinked /\ Goto(p, "bind")
    /\ UNCHANGED <<lock, made, hostile, listening, starts, seen, res, tokens, own, late>>

\* bind(2), after the directory was checked again; listen(2) follows.
Bind(p) ==
    /\ pc[p] = "bind"
    /\ \/ /\ node = 0 /\ made < MaxNodes
          /\ made' = made + 1 /\ node' = made + 1
          /\ own' = [own EXCEPT ![p] = made + 1] /\ Goto(p, "listen")
          /\ UNCHANGED <<lock, hostile, listening, res>>
       \/ node # 0 /\ End(p, "conflict") /\ UNCHANGED <<node, made, hostile, own>>
       \/ End(p, "dependency") /\ UNCHANGED <<node, made, hostile, own>>
    /\ UNCHANGED <<starts, seen, tokens, lost, late>>

Listen(p) ==
    /\ pc[p] = "listen" /\ listening' = listening \cup {own[p]} /\ Goto(p, "identify")
    /\ UNCHANGED <<lock, node, made, hostile, starts, seen, res, tokens, own, lost, late>>

\* The identity cleanup will go by.
Identify(p) ==
    /\ pc[p] = "identify"
    /\ IF node = 0
       THEN End(p, "generic") /\ UNCHANGED <<node, made, hostile, seen>>
       ELSE seen' = [seen EXCEPT ![p] = node] /\ Goto(p, "publish") /\ UNCHANGED <<files, res>>
    /\ UNCHANGED <<starts, tokens, own, lost, late>>

\* set_nonblocking, the directory, the socket's mode, fsync and the ready
\* callback: whatever fails, the socket is cleaned up.
Publish(p) ==
    /\ pc[p] = "publish"
    /\ \/ seen[p] \notin hostile /\ Goto(p, "serving") /\ UNCHANGED <<listening, res>>
       \/ /\ listening' = listening \ {own[p]} /\ Goto(p, "clean")
          /\ res' = [res EXCEPT ![p] = "dependency"]
    /\ UNCHANGED <<lock, node, made, hostile, starts, seen, tokens, own, lost, late>>

\* A signal or a failing accept: serve_until_shutdown drops the listener.
Drain(p) ==
    /\ pc[p] = "serving" /\ listening' = listening \ {own[p]} /\ Goto(p, "clean")
    /\ \E r \in {"ok", "generic", "timeout"} : res' = [res EXCEPT ![p] = r]
    /\ UNCHANGED <<lock, node, made, hostile, starts, seen, tokens, own, lost, late>>

\* BoundSocket::cleanup: nothing is removed unless the identity still fits.
CleanStat(p) ==
    /\ pc[p] = "clean"
    /\ IF node = seen[p] /\ node \notin hostile
       THEN Goto(p, "cleanunlink") /\ UNCHANGED <<files, res>>
       ELSE End(p, res[p]) /\ UNCHANGED <<node, made, hostile>>
    /\ UNCHANGED <<starts, seen, tokens, own, lost, late>>

CleanUnlink(p) ==
    /\ pc[p] = "cleanunlink" /\ Unlinked /\ End(p, res[p])
    /\ UNCHANGED <<made, hostile, starts, seen, tokens, own, late>>

-----------------------------------------------------------------------------
(* A loopback listener: load_or_create_token_file, then the bind.          *)

LoadToken(p) ==
    /\ pc[p] = "open"
    /\ \/ token = None /\ Goto(p, "create") /\ UNCHANGED <<lock, listening, res, have>>
       \/ token = Empty /\ End(p, "usage") /\ UNCHANGED have
       \/ /\ token \in Tokens /\ have' = [have EXCEPT ![p] = token] /\ Goto(p, "gated")
          /\ UNCHANGED <<lock, listening, res>>
    /\ UNCHANGED <<node, made, hostile, starts, seen, token, own, lost, late>>

\* create_new: whoever comes second is refused.
CreateToken(p) ==
    /\ pc[p] = "create"
    /\ IF token = None
       THEN token' = Empty /\ Goto(p, "write") /\ UNCHANGED <<lock, listening, res>>
       ELSE End(p, "dependency") /\ UNCHANGED token
    /\ UNCHANGED <<node, made, hostile, starts, seen, have, own, lost, late>>

WriteToken(p) ==
    /\ pc[p] = "write"
    /\ token' = <<p, starts[p]>> /\ have' = [have EXCEPT ![p] = <<p, starts[p]>>] /\ Goto(p, "gated")
    /\ UNCHANGED <<files, starts, seen, res, own, lost, late>>

\* The bind fails, or the server runs until a signal.
StopGated(p) ==
    /\ pc[p] = "gated" /\ have' = [have EXCEPT ![p] = None]
    /\ \E r \in {"ok", "conflict-port", "timeout"} : End(p, r)
    /\ UNCHANGED <<node, made, hostile, starts, seen, token, own, lost, late>>

-----------------------------------------------------------------------------
(* Crashes, and another program under the same name.                       *)

Crash(p) ==
    /\ pc[p] # "off" /\ End(p, "crashed") /\ have' = [have EXCEPT ![p] = None]
    /\ UNCHANGED <<node, made, hostile, starts, seen, token, own, lost, late>>

\* Between these steps and the unlink, the name is not looked at again.
InBetween == \E p \in Process : pc[p] \in {"unlink", "listen", "identify", "cleanunlink"}

Replace ==
    /\ made < MaxNodes /\ made' = made + 1 /\ node' = made + 1
    /\ \/ listening' = listening \cup {made + 1} /\ UNCHANGED hostile
       \/ hostile' = hostile \cup {made + 1} /\ UNCHANGED listening
    /\ late' = IF InBetween THEN late \cup {made + 1} ELSE late
    /\ UNCHANGED <<lock, pc, starts, own, seen, res, tokens, lost>>

Next ==
    \/ Replace
    \/ \E p \in Process :
          \/ Start(p) \/ Acquire(p) \/ Stat(p) \/ Probe(p) \/ Recheck(p) \/ Unlink(p)
          \/ Bind(p) \/ Listen(p) \/ Identify(p) \/ Publish(p) \/ Drain(p)
          \/ CleanStat(p) \/ CleanUnlink(p) \/ LoadToken(p) \/ CreateToken(p)
          \/ WriteToken(p) \/ StopGated(p) \/ Crash(p)

Spec == Init /\ [][Next]_vars

-----------------------------------------------------------------------------
Steps == {"off", "open", "stat", "probe", "recheck", "unlink", "bind", "listen", "identify",
          "publish", "serving", "clean", "cleanunlink", "create", "write", "gated"}

\* Types, and who may hold what: only a process past acquire holds the lock,
\* only one between its bind and its cleanup owns a node.
TypeOK ==
    /\ made \in 0..MaxNodes /\ node \in 0..made /\ hostile \subseteq 1..made
    /\ listening \subseteq 1..made /\ pc \in [Process -> Steps]
    /\ token \in Tokens \cup {None, Empty} /\ have \in [Process -> Tokens \cup {None}]
    /\ lock # None => pc[lock] \notin {"off", "open", "create", "write", "gated"}
    /\ \A p \in Process : pc[p] # "off" /\ own[p] # 0 => lock = p

\* A socket somebody listens on is never unlinked, neither by a start that
\* takes over nor by the cleanup of another server, unless it was put there
\* after the name had been checked for the last time (BoundSocket::bind and
\* cleanup).
LiveSocketsKept == lost \subseteq late

\* A server that ended, also through a failed start, leaves no node of its
\* own behind; only a crash does (BoundSocket::cleanup on every error path).
NothingLeft ==
    \A p \in Process :
        pc[p] = "off" /\ res[p] \notin {"none", "crashed"} /\ own[p] # 0 => node # own[p]

\* A start is refused with a conflict only against something alive: another
\* process with the lock, or a node that another program put there.
\* What a crashed server left never refuses its successor.
ConflictIsReal ==
    \A p \in Process :
        res'[p] = "conflict" /\ res[p] # "conflict"
            => lock \notin {None, p} \/ node \in listening \cup hostile

\* A running loopback server answers to the token that the file holds: of two
\* that start at once over a missing file, one creates it and the other is
\* refused (O_EXCL in load_or_create_token_file).
TokenAgrees == \A p \in Process : pc[p] = "gated" => have[p] = token

-----------------------------------------------------------------------------
(* The inductive invariant behind the properties.                          *)

Held == {"stat", "probe", "recheck", "unlink", "bind", "listen", "identify", "publish", "serving", "clean", "cleanunlink"}
Bound == {"listen", "identify", "publish", "serving", "clean", "cleanunlink"}

\* Whoever is past acquire has the lock, and only between its bind and its end a node.
LockInv ==
    /\ pc \in [Process -> Steps] /\ DOMAIN res = Process
    /\ lock \in Process \cup {None}
    /\ \A p \in Process : pc[p] \in Held <=> lock = p
    /\ \A p \in Process : pc[p] \notin Bound \cup {"off"} => own[p] = 0

\* Inodes are numbered as they are made.
NodeInv ==
    /\ made \in Nat /\ node \in Nat /\ node <= made
    /\ \A n \in hostile \cup listening : n \in Nat /\ 1 <= n /\ n <= made
    /\ own \in [Process -> Nat] /\ seen \in [Process -> Nat]
    /\ \A p \in Process : own[p] <= made /\ seen[p] <= made
    /\ \A p \in Process : own[p] \notin hostile /\ (pc[p] \in Bound => own[p] # 0)

\* What the holder of the lock knows of the node under the name.
NameInv ==
    \A p \in Process :
      /\ pc[p] \in {"probe", "recheck", "unlink"} => node # 0 /\ (node # seen[p] => node \in listening \cup hostile)
      /\ pc[p] \in {"recheck", "unlink"} /\ node = seen[p] => node \notin listening
      /\ pc[p] = "unlink" /\ node # seen[p] => node \in late
      /\ pc[p] = "bind" /\ node # 0 => node \in listening \cup hostile
      /\ pc[p] \in Bound => node # 0
      /\ pc[p] \in {"listen", "identify"} => node = own[p] \/ node \in late
      /\ pc[p] \in {"publish", "serving", "clean", "cleanunlink"} =>
           /\ seen[p] = own[p] \/ seen[p] \in late
           /\ node = own[p] => seen[p] = own[p]
      /\ pc[p] \in {"clean", "cleanunlink"} => own[p] \notin listening
      /\ pc[p] = "cleanunlink" => node = seen[p] \/ node \in late

\* A token is written by the one who created its file, and answered to once it is there.
TokenInv ==
    /\ token \in Tokens \cup {None, Empty} /\ have \in [Process -> Tokens \cup {None}]
    /\ starts \in [Process -> 0..MaxStarts] /\ \A p \in Process : pc[p] # "off" => starts[p] >= 1
    /\ \A p \in Process : pc[p] = "write" => token = Empty
    /\ \A p, q \in Process : pc[p] = "write" /\ pc[q] = "write" => p = q
    /\ \A p \in Process : pc[p] = "gated" => token \in Tokens
    /\ TokenAgrees

Inv == LockInv /\ NodeInv /\ NameInv /\ TokenInv /\ LiveSocketsKept /\ NothingLeft

=============================================================================
