------------------------------- MODULE Console --------------------------------
(***************************************************************************)
(* The console broker of a running machine: one thread of the shim between *)
(* the PTY of the VMM and at most one client of console.sock, and the      *)
(* relay in the client.  Bytes are numbered: the guest prints 1, 2, ...    *)
(* and every client types 1, 2, ...                                        *)
(*                                                                         *)
(* One turn of broker_loop is several steps: poll, then accept, PTY write, *)
(* client write, PTY read, client read and hang-up, each acting on what    *)
(* poll returned while the clients go on.                                  *)
(***************************************************************************)
EXTENDS Naturals, Sequences

CONSTANTS
    Client,     \* clients, each attaching once
    None,       \* no client
    MaxOut,     \* bytes the guest prints
    MaxIn,      \* bytes a client types
    MaxPending  \* MAX_PENDING_CLIENT_OUTPUT

VARIABLES
    printed,    \* bytes the guest has printed
    read,       \* of them, those the broker has read and logged
    active,     \* the broker's client, or None
    out,        \* output the broker holds for its client
    input,      \* input the broker holds for the guest: <<client, byte>>
    guest,      \* what the guest has received
    pc, ev,     \* the broker's step and the events poll returned
    cancelled,
    conn,       \* state of each client's connection
    typed, wire,    \* what each client typed, and what the socket still holds
    seen,       \* what each client received
    from        \* history: bytes read when the client was acknowledged

broker == <<read, active, out, input, pc, ev>>
clients == <<conn, typed, wire, seen>>
vars == <<printed, broker, guest, cancelled, clients, from>>

Quiet == [accept |-> FALSE, ptyin |-> FALSE, ptyout |-> FALSE,
          clin |-> FALSE, clout |-> FALSE, hup |-> FALSE]

Init ==
    /\ printed = 0 /\ read = 0 /\ active = None /\ out = <<>> /\ input = <<>> /\ guest = <<>>
    /\ pc = "poll" /\ ev = Quiet /\ cancelled = FALSE
    /\ conn = [c \in Client |-> "away"] /\ typed = [c \in Client |-> 0]
    /\ wire = [c \in Client |-> <<>>] /\ seen = [c \in Client |-> <<>>]
    /\ from = [c \in Client |-> 0]

\* The client still has its end of the connection.
Open(c) == conn[c] \in {"knock", "ok"}
Waiting == {c \in Client : conn[c] \in {"knock", "left"}}

-----------------------------------------------------------------------------
(* The guest and the clients.                                              *)

GuestPrints ==
    /\ printed < MaxOut /\ printed' = printed + 1
    /\ UNCHANGED <<broker, guest, cancelled, clients, from>>

\* ConsolePlan::connect.
Knock(c) ==
    /\ conn[c] = "away" /\ pc # "ended"
    /\ conn' = [conn EXCEPT ![c] = "knock"]
    /\ UNCHANGED <<printed, broker, guest, cancelled, typed, wire, seen, from>>

\* relay_console reads the terminal and writes the socket.
Type(c) ==
    /\ conn[c] = "ok" /\ typed[c] < MaxIn
    /\ typed' = [typed EXCEPT ![c] = @ + 1]
    /\ wire' = [wire EXCEPT ![c] = Append(@, typed[c] + 1)]
    /\ UNCHANGED <<printed, broker, guest, cancelled, conn, seen, from>>

\* Ctrl-], end of input, an interruption, or the handshake timing out.  A
\* connection in the backlog is still to be accepted.
Leave(c) ==
    /\ Open(c)
    /\ conn' = [conn EXCEPT ![c] = IF @ = "knock" THEN "left" ELSE "gone"]
    /\ UNCHANGED <<printed, broker, guest, cancelled, typed, wire, seen, from>>

-----------------------------------------------------------------------------
(* broker_loop.                                                            *)

\* The broker lets go of its client; the client, if there, reads the end.
Dropped(c) == [conn EXCEPT ![c] = IF @ = "ok" THEN "closed" ELSE @]

\* The broker thread ends: its listener and its client are closed.
Ended ==
    /\ pc' = "ended" /\ active' = None /\ ev' = Quiet
    /\ conn' = [c \in Client |-> IF Open(c) THEN "closed"
                                 ELSE IF conn[c] = "left" THEN "gone" ELSE conn[c]]

Poll ==
    /\ pc = "poll" /\ ~cancelled /\ pc' = "accept"
    /\ out' = IF active = None THEN <<>> ELSE out
    /\ ev' = [accept |-> Waiting # {},
              ptyin |-> read < printed, ptyout |-> input # <<>>,
              clin |-> active # None /\ (wire[active] # <<>> \/ ~Open(active)),
              clout |-> active # None /\ out # <<>>,
              hup |-> active # None /\ ~Open(active)]
    /\ UNCHANGED <<printed, read, active, input, guest, cancelled, clients, from>>

Cancelled ==
    /\ pc = "poll" /\ cancelled /\ Ended
    /\ UNCHANGED <<printed, read, out, input, guest, cancelled, typed, wire, seen, from>>

\* accept_clients: the second client is refused; the first is acknowledged,
\* and a client that left before it could be ends the broker.
Refuse(c) ==
    /\ active # None
    /\ conn' = [conn EXCEPT ![c] = IF @ = "knock" THEN "busy" ELSE "gone"]
    /\ UNCHANGED <<active, pc, ev, from>>

Acknowledge(c) ==
    /\ active = None
    /\ IF conn[c] = "knock"
       THEN /\ conn' = [conn EXCEPT ![c] = "ok"] /\ active' = c
            /\ from' = [from EXCEPT ![c] = read]
            /\ UNCHANGED <<pc, ev>>
       ELSE Ended /\ UNCHANGED from

\* Mutant: a client that has to wait is kept in the backlog.
AcceptOneClient ==
    /\ pc = "accept" /\ ev.accept /\ active = None
    /\ \E c \in Waiting : Acknowledge(c)
    /\ UNCHANGED <<printed, read, out, input, guest, cancelled, typed, wire, seen>>

Accept ==
    /\ pc = "accept" /\ ev.accept
    /\ \E c \in Waiting : Refuse(c) \/ Acknowledge(c)
    /\ UNCHANGED <<printed, read, out, input, guest, cancelled, typed, wire, seen>>

AcceptDone ==
    /\ pc = "accept" /\ (ev.accept => Waiting = {})
    /\ pc' = "ptyout"
    /\ UNCHANGED <<printed, read, active, out, input, guest, ev, cancelled, clients, from>>

\* A PTY takes some of the pending input, or none.
PtyWrite ==
    /\ pc = "ptyout" /\ pc' = "clout"
    /\ \E n \in 0..(IF ev.ptyout THEN Len(input) ELSE 0) :
        /\ guest' = guest \o SubSeq(input, 1, n)
        /\ input' = SubSeq(input, n + 1, Len(input))
    /\ UNCHANGED <<printed, read, active, out, ev, cancelled, clients, from>>

ClientWrite ==
    /\ pc = "clout" /\ pc' = "ptyin"
    /\ IF ev.clout /\ active # None /\ out # <<>>
       THEN IF Open(active)
            THEN /\ \E n \in 0..Len(out) :
                        /\ seen' = [seen EXCEPT ![active] = @ \o SubSeq(out, 1, n)]
                        /\ out' = SubSeq(out, n + 1, Len(out))
                 /\ UNCHANGED active
            ELSE active' = None /\ UNCHANGED <<seen, out>>
       ELSE UNCHANGED <<active, seen, out>>
    /\ UNCHANGED <<printed, read, input, guest, ev, cancelled, conn, typed, wire, from>>

\* Mutant: output beyond the limit pushes out what is pending.
PtyReadOverwrites ==
    /\ pc = "ptyin" /\ pc' = "clin"
    /\ \E n \in 0..(IF ev.ptyin THEN printed - read ELSE 0) :
        /\ read' = read + n
        /\ LET all == out \o [k \in 1..n |-> read + k]
               over == IF Len(all) > MaxPending THEN Len(all) - MaxPending ELSE 0
           IN out' = IF active # None THEN SubSeq(all, over + 1, Len(all)) ELSE out
    /\ UNCHANGED <<printed, active, input, guest, ev, cancelled, clients, from>>

\* Mutant: the limit is compared before the new output is added.
PtyReadAdds ==
    /\ pc = "ptyin" /\ pc' = "clin"
    /\ \E n \in 0..(IF ev.ptyin THEN printed - read ELSE 0) :
        /\ read' = read + n
        /\ IF active = None \/ n = 0 THEN UNCHANGED <<out, active, conn>>
           ELSE IF Len(out) > MaxPending
           THEN out' = <<>> /\ active' = None /\ conn' = Dropped(active)
           ELSE out' = out \o [k \in 1..n |-> read + k] /\ UNCHANGED <<active, conn>>
    /\ UNCHANGED <<printed, input, guest, ev, cancelled, typed, wire, seen, from>>

\* PTY output is logged, then held for the client; a client too slow to take
\* it is let go.
PtyRead ==
    /\ pc = "ptyin" /\ pc' = "clin"
    /\ \E n \in 0..(IF ev.ptyin THEN printed - read ELSE 0) :
        /\ read' = read + n
        /\ IF active = None \/ n = 0 THEN UNCHANGED <<out, active, conn>>
           ELSE IF Len(out) + n > MaxPending
           THEN out' = <<>> /\ active' = None /\ conn' = Dropped(active)
           ELSE out' = out \o [k \in 1..n |-> read + k] /\ UNCHANGED <<active, conn>>
    /\ UNCHANGED <<printed, input, guest, ev, cancelled, typed, wire, seen, from>>

ClientRead ==
    /\ pc = "clin" /\ pc' = "hup"
    /\ IF ev.clin /\ active # None /\ input = <<>>
       THEN IF wire[active] # <<>>
            THEN /\ input' = [k \in 1..Len(wire[active]) |-> <<active, wire[active][k]>>]
                 /\ wire' = [wire EXCEPT ![active] = <<>>] /\ UNCHANGED active
            ELSE /\ active' = IF Open(active) THEN active ELSE None
                 /\ UNCHANGED <<input, wire>>
       ELSE UNCHANGED <<active, input, wire>>
    /\ UNCHANGED <<printed, read, out, guest, ev, cancelled, conn, typed, seen, from>>

HangUp ==
    /\ pc = "hup" /\ pc' = "poll" /\ ev' = Quiet
    /\ IF ev.hup THEN active' = None /\ out' = <<>> ELSE UNCHANGED <<active, out>>
    /\ UNCHANGED <<printed, read, input, guest, cancelled, clients, from>>

\* ConsoleBroker::shutdown, once the VMM is gone.
Shutdown ==
    /\ ~cancelled /\ cancelled' = TRUE
    /\ UNCHANGED <<printed, broker, guest, clients, from>>

Broker ==
    \/ Poll \/ Cancelled \/ Accept \/ AcceptDone \/ PtyWrite \/ ClientWrite
    \/ PtyRead \/ ClientRead \/ HangUp

Next ==
    \/ GuestPrints \/ Shutdown \/ Broker
    \/ \E c \in Client : Knock(c) \/ Type(c) \/ Leave(c)

Spec == Init /\ [][Next]_vars

-----------------------------------------------------------------------------
(* Properties.                                                             *)

\* The types of all variables.
TypeOK ==
    /\ printed \in 0..MaxOut /\ read \in 0..printed
    /\ active \in Client \cup {None} /\ cancelled \in BOOLEAN
    /\ out \in Seq(1..MaxOut) /\ Len(out) <= MaxPending
    /\ input \in Seq(Client \X (1..MaxIn)) /\ guest \in Seq(Client \X (1..MaxIn))
    /\ pc \in {"poll", "accept", "ptyout", "clout", "ptyin", "clin", "hup", "ended"}
    /\ ev \in [DOMAIN Quiet -> BOOLEAN]
    /\ conn \in [Client -> {"away", "knock", "left", "ok", "busy", "closed", "gone"}]
    /\ typed \in [Client -> 0..MaxIn] /\ wire \in [Client -> Seq(1..MaxIn)]
    /\ seen \in [Client -> Seq(1..MaxOut)] /\ from \in [Client -> 0..MaxOut]

\* A client receives what the guest printed from its attachment on, without a
\* gap, a repetition or a byte meant for the client before it; a client that
\* cannot keep up is disconnected, never skipped over.
OutputIsContiguous ==
    /\ \A c \in Client : \A k \in DOMAIN seen[c] : seen[c][k] = from[c] + k
    /\ active # None => \A k \in DOMAIN out : out[k] = from[active] + Len(seen[active]) + k

\* What a client typed reaches the guest in the order it was typed; the input
\* of two clients is never interleaved, though the first one's may still be
\* pending when the second attaches.
InputIsOrdered ==
    LET sent == guest \o input
    IN \A i, j \in DOMAIN sent : i < j =>
        \/ sent[i][1] = sent[j][1] /\ sent[i][2] < sent[j][2]
        \/ /\ sent[i][1] # sent[j][1]
           /\ \A k \in i..j : sent[k][1] = sent[i][1] \/ \A l \in k..j : sent[l][1] # sent[i][1]

\* A client that connected and has not been acknowledged, refused or
\* disconnected.
Knocking(c) == conn[c] = "knock"

-----------------------------------------------------------------------------
(* The inductive invariant the streams of the console rest on.             *)

\* The client never had anything from the broker, nor typed anything to it.
Fresh(c) == conn[c] \in {"away", "knock", "left"}

\* Where the output held for the client continues what it has seen.
OutputInv ==
    /\ active \in Client \cup {None} /\ printed \in Nat /\ read \in Nat /\ out \in Seq(Nat)
    /\ DOMAIN conn = Client /\ seen \in [Client -> Seq(Nat)] /\ from \in [Client -> Nat]
    /\ \A c \in Client : Fresh(c) => seen[c] = <<>>
    /\ OutputIsContiguous
    /\ active # None => ~Fresh(active) /\ from[active] + Len(seen[active]) + Len(out) = read
    /\ pc = "accept" /\ active = None => out = <<>>

\* What the broker has taken from each client's socket.
Taken == [c \in Client |-> typed[c] - Len(wire[c])]

\* The entries of s are of the bytes t takes in, in one run per client, the last a's.
Runs(s, t, a) ==
    /\ \A i \in DOMAIN s : 1 <= s[i][2] /\ s[i][2] <= t[s[i][1]]
    /\ \A i, j \in DOMAIN s : i < j /\ s[i][1] = s[j][1] => s[i][2] < s[j][2]
    /\ \A i, j, k \in DOMAIN s : i < j /\ j < k /\ s[i][1] = s[k][1] => s[j][1] = s[i][1]
    /\ a # None => \A i, j \in DOMAIN s : i < j /\ s[i][1] = a => s[j][1] = a

InputInv ==
    /\ input \in Seq(Client \X Nat) /\ guest \in Seq(Client \X Nat)
    /\ typed \in [Client -> Nat] /\ wire \in [Client -> Seq(Nat)]
    /\ \A c \in Client : /\ Len(wire[c]) <= typed[c]
                         /\ \A k \in DOMAIN wire[c] : wire[c][k] = typed[c] - Len(wire[c]) + k
                         /\ Fresh(c) => typed[c] = 0
    /\ Runs(guest \o input, Taken, active)

Inv == OutputInv /\ InputInv

=============================================================================
