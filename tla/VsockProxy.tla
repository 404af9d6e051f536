----------------------------- MODULE VsockProxy ------------------------------
(***************************************************************************)
(* firestone _vsock-proxy, the ProxyCommand of every ssh Firestone runs:   *)
(* a handshake with the VMM (CONNECT, then one line, before a deadline),   *)
(* then two threads that copy stdin to the guest and the guest to stdout,  *)
(* and a main thread that waits for them.  The guest's bytes follow the    *)
(* VMM's line on the same stream.                                          *)
(***************************************************************************)
EXTENDS Naturals, Sequences, SequenceTheorems, TLAPS

CONSTANTS
    Lines,      \* what the VMM may answer, each a sequence of marks
    GoodLines,  \* those that are OK and a port other than 0
    MaxLine,    \* VSOCK_HANDSHAKE_MAX_BYTES
    Deadline,   \* VSOCK_HANDSHAKE_TIMEOUT
    Input,      \* what ssh writes to the proxy
    Output      \* what the guest's sshd writes

VARIABLES
    line, eol,      \* what the VMM still has to send of its line; its newline sent
    wire,           \* sent by VMM or guest, not yet read by the proxy
    closed,         \* the other end closed: no more will be written to the wire
    now, pc, got,   \* the clock, the handshake, the line read so far
    stdin, eof,     \* input not yet copied; ssh closed its end
    guestIn, guestEof,  \* what the guest has received, and whether its end
    guestOut,       \* what the guest still has to send
    stdout, reader, \* what ssh has received; ssh still reads
    upload, download,   \* the threads: none, run, done
    notes,          \* completions the main thread has not received
    result

peer == <<line, eol, wire, closed, guestOut>>
ssh == <<stdin, eof, stdout, reader>>
threads == <<upload, download, notes>>
vars == <<peer, now, pc, got, ssh, guestIn, guestEof, threads, result>>

NL == "newline"

Init ==
    /\ line \in Lines /\ eol = FALSE /\ wire = <<>> /\ closed = FALSE /\ guestOut = Output
    /\ now = 0 /\ pc = "connect" /\ got = <<>>
    /\ stdin = Input /\ eof = FALSE /\ guestIn = <<>> /\ guestEof = FALSE
    /\ stdout = <<>> /\ reader = TRUE
    /\ upload = "none" /\ download = "none" /\ notes = <<>> /\ result = "none"

-----------------------------------------------------------------------------
(* The VMM, the guest and ssh.                                             *)

VmmSends ==
    /\ pc \notin {"connect", "request"} /\ ~closed /\ ~eol
    /\ IF line # <<>> THEN wire' = Append(wire, Head(line)) /\ line' = Tail(line) /\ UNCHANGED eol
       ELSE wire' = Append(wire, NL) /\ eol' = TRUE /\ UNCHANGED line
    /\ UNCHANGED <<closed, guestOut, now, pc, got, ssh, guestIn, guestEof, threads, result>>

GuestSends ==
    /\ eol /\ ~closed /\ guestOut # <<>>
    /\ wire' = Append(wire, Head(guestOut)) /\ guestOut' = Tail(guestOut)
    /\ UNCHANGED <<line, eol, closed, now, pc, got, ssh, guestIn, guestEof, threads, result>>

\* The guest's service ends, or the VMM does.
PeerCloses ==
    /\ pc # "connect" /\ ~closed /\ closed' = TRUE
    /\ UNCHANGED <<line, eol, wire, guestOut, now, pc, got, ssh, guestIn, guestEof, threads, result>>

SshCloses ==
    /\ ~eof /\ eof' = TRUE
    /\ UNCHANGED <<peer, now, pc, got, stdin, stdout, reader, guestIn, guestEof, threads, result>>

SshGone ==
    /\ reader /\ pc # "returned" /\ reader' = FALSE
    /\ UNCHANGED <<peer, now, pc, got, stdin, eof, stdout, guestIn, guestEof, threads, result>>

-----------------------------------------------------------------------------
(* connect_vsock.                                                          *)

Fail(why) == result' = why /\ pc' = "returned"

Tick ==
    /\ pc \in {"connect", "request", "read"} /\ now < Deadline /\ now' = now + 1
    /\ UNCHANGED <<peer, pc, got, ssh, guestIn, guestEof, threads, result>>

\* Every wait of the handshake looks at the one deadline.
TimedOut ==
    /\ pc \in {"connect", "request", "read"} /\ now >= Deadline /\ Fail("timeout")
    /\ UNCHANGED <<peer, now, got, ssh, guestIn, guestEof, threads>>

\* validate_vsock_socket, connect_vsock_socket: a socket nobody listens on is a
\* machine that does not run.
Connect ==
    /\ pc = "connect" /\ now < Deadline
    /\ \/ pc' = "request" /\ UNCHANGED result
       \/ Fail("not_running")
    /\ UNCHANGED <<peer, now, got, ssh, guestIn, guestEof, threads>>

\* write_vsock_handshake.
Request ==
    /\ pc = "request" /\ now < Deadline
    /\ IF closed THEN Fail("generic") ELSE pc' = "read" /\ UNCHANGED result
    /\ UNCHANGED <<peer, now, got, ssh, guestIn, guestEof, threads>>

\* read_vsock_response: a byte at a time, so that nothing after the newline is
\* taken.
ReadLine ==
    /\ pc = "read" /\ now < Deadline
    /\ \/ Len(got) >= MaxLine /\ Fail("generic") /\ UNCHANGED <<got, wire>>
       \/ /\ Len(got) < MaxLine /\ wire # <<>> /\ wire' = Tail(wire)
          /\ IF Head(wire) = NL THEN pc' = "parse" /\ UNCHANGED got
             ELSE got' = Append(got, Head(wire)) /\ UNCHANGED pc
          /\ UNCHANGED result
       \/ Len(got) < MaxLine /\ wire = <<>> /\ closed /\ Fail("generic") /\ UNCHANGED <<got, wire>>
    /\ UNCHANGED <<line, eol, closed, guestOut, now, ssh, guestIn, guestEof, threads>>

\* parse_vsock_response; then relay_vsock starts its threads.
Parse ==
    /\ pc = "parse"
    /\ IF got \in GoodLines THEN pc' = "relay" /\ upload' = "run" /\ download' = "run" /\ UNCHANGED result
       ELSE Fail("generic") /\ UNCHANGED <<upload, download>>
    /\ UNCHANGED <<peer, now, got, ssh, guestIn, guestEof, notes>>

-----------------------------------------------------------------------------
(* relay_vsock.                                                            *)

Shut == pc = "returned"

\* io::copy, then shutdown(Write), then the completion; a write to a closed
\* peer is an error that relay_closed excuses.
Upload ==
    /\ upload = "run" /\ ~Shut
    /\ \/ /\ stdin # <<>> /\ ~closed /\ guestIn' = Append(guestIn, Head(stdin)) /\ stdin' = Tail(stdin)
          /\ UNCHANGED <<guestEof, upload, notes>>
       \/ /\ stdin = <<>> /\ eof /\ guestEof' = TRUE /\ upload' = "done"
          /\ notes' = Append(notes, "upload") /\ UNCHANGED <<guestIn, stdin>>
       \/ /\ stdin # <<>> /\ closed /\ upload' = "done" /\ notes' = Append(notes, "upload")
          /\ UNCHANGED <<guestIn, guestEof, stdin>>
    /\ UNCHANGED <<peer, now, pc, got, eof, stdout, reader, download, result>>

\* copy_and_flush; ssh gone is a broken pipe.
Download ==
    /\ download = "run" /\ ~Shut
    /\ \/ /\ wire # <<>> /\ reader /\ stdout' = Append(stdout, Head(wire)) /\ wire' = Tail(wire)
          /\ UNCHANGED <<download, notes>>
       \/ /\ (wire # <<>> /\ ~reader) \/ (wire = <<>> /\ closed)
          /\ download' = "done" /\ notes' = Append(notes, "download") /\ UNCHANGED <<stdout, wire>>
    /\ UNCHANGED <<line, eol, closed, guestOut, now, pc, got, stdin, eof, reader, guestIn, guestEof, upload, result>>

\* Mutant: the first thread to end ends the relay.
MainEither ==
    /\ pc = "relay" /\ notes # <<>> /\ notes' = Tail(notes) /\ Fail("ok")
    /\ UNCHANGED <<peer, now, got, ssh, guestIn, guestEof, upload, download>>

\* The main thread: the end of stdin is passed over, the end of the guest's
\* output is the end of the relay.
Main ==
    /\ pc = "relay" /\ notes # <<>> /\ notes' = Tail(notes)
    /\ IF Head(notes) = "download" THEN Fail("ok") ELSE UNCHANGED <<pc, result>>
    /\ UNCHANGED <<peer, now, got, ssh, guestIn, guestEof, upload, download>>

Handshake == TimedOut \/ Connect \/ Request \/ ReadLine \/ Parse

Next ==
    \/ VmmSends \/ GuestSends \/ PeerCloses \/ SshCloses \/ SshGone \/ Tick
    \/ Handshake \/ Upload \/ Download \/ Main

Spec == Init /\ [][Next]_vars

-----------------------------------------------------------------------------

\* The proxy ends exactly with a result, its clock within the deadline and its line within
\* the limit (run_vsock_proxy).
TypeOK ==
    /\ pc \in {"connect", "request", "read", "parse", "relay", "returned"} /\ now \in 0..Deadline
    /\ result \in {"none", "ok", "timeout", "not_running", "generic"}
    /\ {eol, closed, eof, guestEof, reader} \subseteq BOOLEAN
    /\ Len(got) <= MaxLine /\ (result = "none") = (pc # "returned")
    /\ {upload, download} \subseteq {"none", "run", "done"} /\ Len(notes) <= 2

\* The guest's bytes on the wire are its last ones: what has left the guest and has not
\* arrived, after what is left of the VMM's line.
Suffix(s, n) == SubSeq(s, Len(s) - n + 1, Len(s))
OnWire == (Len(Output) - Len(guestOut)) - Len(stdout)
FromGuest == Suffix(wire, OnWire)

\* The two directions as streams (ByteStream): what the writer has not written, what is
\* in transit, what has arrived and whether the end has.
DownStream == [unsent |-> guestOut, transit |-> FromGuest, delivered |-> stdout, ended |-> result = "ok" /\ reader]
UpStream == [unsent |-> <<>>, transit |-> stdin, delivered |-> guestIn, ended |-> guestEof]
Down == INSTANCE ByteStream WITH Content <- Output, unsent <- DownStream.unsent, transit <- DownStream.transit,
    delivered <- DownStream.delivered, ended <- DownStream.ended
Up == INSTANCE ByteStream WITH Content <- Input, unsent <- UpStream.unsent, transit <- UpStream.transit,
    delivered <- UpStream.delivered, ended <- UpStream.ended

\* The handshake is on; the guest has closed and the relay goes on.
Shaking == pc \in {"connect", "request", "read", "parse"}
Lingering == closed /\ pc = "relay"

-----------------------------------------------------------------------------
(* The proof that the relay implements the two streams.                    *)

LEMMA SuffixType ==
  ASSUME NEW M, NEW w \in Seq(M), NEW n \in 0..Len(w)
  PROVE  Suffix(w, n) \in Seq(M) /\ Len(Suffix(w, n)) = n /\ \A i \in 1..n : Suffix(w, n)[i] = w[Len(w) - n + i]
BY SubSeqProperties DEF Suffix

\* Writing behind a suffix makes it longer.
LEMMA SuffixAppend ==
  ASSUME NEW M, NEW w \in Seq(M), NEW b \in M, NEW n \in 0..Len(w)
  PROVE  Suffix(Append(w, b), n + 1) = Append(Suffix(w, n), b)
<1> DEFINE v == Append(w, b)  s == Suffix(w, n)  t == Suffix(v, n + 1)
<1>1. v \in Seq(M) /\ Len(v) = Len(w) + 1 /\ (\A i \in 1..Len(w) : v[i] = w[i]) /\ v[Len(w) + 1] = b
  BY AppendProperties
<1>2. s \in Seq(M) /\ Len(s) = n /\ \A i \in 1..n : s[i] = w[Len(w) - n + i]
  BY SuffixType
<1> DEFINE u == Append(s, b)
<1>3. u \in Seq(M) /\ Len(u) = n + 1 /\ (\A i \in 1..n : u[i] = s[i]) /\ u[n + 1] = b
  BY <1>2, AppendProperties
<1>4. Len(w) \in Nat
  BY LenProperties
<1> HIDE DEF v
<1>5. t \in Seq(M) /\ Len(t) = n + 1 /\ \A i \in 1..(n + 1) : t[i] = v[Len(v) - (n + 1) + i]
  <2>1. n + 1 \in 0..Len(v)
    BY <1>1, <1>4
  <2> QED BY <1>1, <2>1, SuffixType
<1> HIDE DEF s, t, u
<1>6. ASSUME NEW i \in 1..(n + 1) PROVE t[i] = u[i]
  <2>1. t[i] = v[Len(w) - n + i]
    <3>1. Len(v) - (n + 1) + i = Len(w) - n + i
      BY <1>1, <1>4
    <3> QED BY <1>5, <3>1
  <2>2. CASE i \in 1..n
    <3>1. Len(w) - n + i \in 1..Len(w)
      BY <2>2, <1>4
    <3> QED BY <2>1, <3>1, <2>2, <1>1, <1>2, <1>3
  <2>3. CASE i = n + 1
    <3>1. Len(w) - n + i = Len(w) + 1
      BY <2>3, <1>4
    <3> QED BY <2>1, <3>1, <2>3, <1>1, <1>3
  <2> QED BY <2>2, <2>3
<1>7. t = u
  BY <1>3, <1>5, <1>6, SeqEqual
<1> QED BY <1>7 DEF t, u, v, s

\* Reading before a suffix leaves it.
LEMMA SuffixTail ==
  ASSUME NEW M, NEW w \in Seq(M), w # <<>>, NEW n \in 0..(Len(w) - 1)
  PROVE  Suffix(Tail(w), n) = Suffix(w, n)
<1> DEFINE v == Tail(w)  s == Suffix(w, n)  t == Suffix(v, n)
<1>1. Len(w) \in Nat
  BY LenProperties
<1>2. v \in Seq(M) /\ Len(v) = Len(w) - 1 /\ \A i \in 1..Len(v) : v[i] = w[i + 1]
  BY HeadTailProperties
<1>3. s \in Seq(M) /\ Len(s) = n /\ \A i \in 1..n : s[i] = w[Len(w) - n + i]
  <2>1. n \in 0..Len(w)
    BY <1>1
  <2> QED BY <2>1, SuffixType
<1> HIDE DEF v
<1>4. t \in Seq(M) /\ Len(t) = n /\ \A i \in 1..n : t[i] = v[Len(v) - n + i]
  <2>1. n \in 0..Len(v)
    BY <1>1, <1>2
  <2> QED BY <1>2, <2>1, SuffixType
<1> HIDE DEF s, t
<1>5. ASSUME NEW i \in 1..n PROVE t[i] = s[i]
  <2>1. Len(v) - n + i \in 1..Len(v) /\ (Len(v) - n + i) + 1 = Len(w) - n + i
    BY <1>1, <1>2
  <2> QED BY <1>2, <1>3, <1>4, <2>1
<1>6. t = s
  BY <1>3, <1>4, <1>5, SeqEqual
<1> QED BY <1>6 DEF t, s, v

LEMMA SuffixEnds ==
  ASSUME NEW M, NEW w \in Seq(M)
  PROVE  Suffix(w, Len(w)) = w /\ Suffix(w, 0) = <<>>
<1>1. Len(w) \in Nat
  BY LenProperties
<1>2. Len(w) - Len(w) + 1 = 1 /\ Len(w) < Len(w) - 0 + 1
  BY <1>1
<1> QED BY <1>1, <1>2, SubSeqFull, SubSeqEmpty DEF Suffix

-----------------------------------------------------------------------------

\* Any bytes, of which a newline is one; the VMM's line has none before its end.
Relayable(Mark) ==
    /\ NL \in Mark /\ Input \in Seq(Mark) /\ Output \in Seq(Mark)
    /\ Lines \subseteq Seq(Mark \ {NL})

StreamsOK(Mark) ==
    /\ line \in Seq(Mark \ {NL}) /\ wire \in Seq(Mark) /\ guestOut \in Seq(Mark) /\ stdout \in Seq(Mark)
    /\ stdin \in Seq(Mark) /\ guestIn \in Seq(Mark)
    /\ OnWire \in 0..Len(wire)

\* Before the newline the guest has sent nothing; the handshake stops at the first newline,
\* which is the VMM's; from then on the wire holds the guest's bytes and nothing else.
WireInv ==
    /\ ~eol => OnWire = 0
    /\ pc \in {"connect", "request", "read"} =>
         /\ \A i \in 1..Len(wire) : i < Len(wire) - OnWire => wire[i] # NL
         /\ eol => OnWire < Len(wire) /\ wire[Len(wire) - OnWire] = NL
         /\ ~eol => \A i \in 1..Len(wire) : wire[i] # NL
    /\ pc \in {"parse", "relay"} => eol /\ OnWire = Len(wire)

\* The threads exist from the relay on; the one that downloads ends with everything read and
\* the guest's end closed, unless ssh is gone.
ThreadInv ==
    /\ upload \in {"none", "run", "done"} /\ download \in {"none", "run", "done"}
    /\ notes \in Seq({"upload", "download"})
    /\ Shaking => upload = "none" /\ download = "none" /\ notes = <<>>
    /\ upload # "done" => ~guestEof
    /\ (\E i \in 1..Len(notes) : notes[i] = "download") => download = "done"
    /\ download = "done" /\ reader => closed /\ wire = <<>>
    /\ pc \in {"connect", "request", "read", "parse", "relay", "returned"}
    /\ pc # "returned" => result = "none"

IInv(Mark) == StreamsOK(Mark) /\ WireInv /\ ThreadInv

LEMMA Start ==
  ASSUME NEW Mark, Relayable(Mark), Init
  PROVE  IInv(Mark)
<1>1. Len(Output) \in Nat /\ Len(guestOut) = Len(Output)
  BY LenProperties DEF Relayable, Init
<1>2. Len(wire) = 0 /\ Len(stdout) = 0
  BY DEF Init
<1>3. OnWire = 0
  BY <1>1, <1>2 DEF OnWire
<1>4. StreamsOK(Mark)
  BY <1>2, <1>3 DEF Relayable, Init, StreamsOK
<1>5. WireInv
  BY <1>2, <1>3 DEF Init, WireInv
<1>6. ThreadInv
  BY DEF Init, ThreadInv, Shaking
<1> QED BY <1>4, <1>5, <1>6 DEF IInv

\* Lengths as numbers, for the arithmetic below.
LEMMA Lengths ==
  ASSUME NEW Mark, Relayable(Mark), StreamsOK(Mark)
  PROVE  Len(wire) \in Nat /\ Len(guestOut) \in Nat /\ Len(stdout) \in Nat /\ Len(Output) \in Nat /\ OnWire \in Nat
BY LenProperties DEF Relayable, StreamsOK

\* What a step that leaves the wire, the threads and the end of the relay alone has to keep.
quiet == <<wire, guestOut, stdout, stdin, guestIn, guestEof, threads, reader, closed, eol>>

LEMMA QuietStep ==
  ASSUME NEW Mark, IInv(Mark), UNCHANGED <<quiet, line>>,
         pc' \in {"connect", "request", "read", "parse", "returned"} \/ pc' = pc,
         pc' \in {"connect", "request", "read"} => pc \in {"connect", "request", "read"},
         pc' = "parse" => pc = "parse",
         pc' # "returned" => result' = "none"
  PROVE  IInv(Mark)'
<1>1. OnWire' = OnWire
  BY DEF OnWire, quiet
<1>2. StreamsOK(Mark)'
  BY <1>1 DEF IInv, StreamsOK, quiet
<1>3. WireInv'
  BY <1>1 DEF IInv, WireInv, quiet
<1>4. ThreadInv'
  BY DEF IInv, ThreadInv, Shaking, quiet, threads
<1> QED BY <1>2, <1>3, <1>4 DEF IInv

-----------------------------------------------------------------------------

LEMMA VmmSendsKeeps ==
  ASSUME NEW Mark, Relayable(Mark), IInv(Mark), VmmSends
  PROVE  IInv(Mark)' /\ FromGuest' = FromGuest
<1> USE DEF IInv
<1>1. PICK b \in Mark : wire' = Append(wire, b) /\ (IF b = NL THEN eol' = TRUE ELSE eol' = eol) /\ line' \in Seq(Mark \ {NL})
  <2>1. CASE line # <<>>
    <3>1. Head(line) \in Mark \ {NL} /\ Tail(line) \in Seq(Mark \ {NL})
      BY <2>1, HeadTailProperties DEF StreamsOK
    <3> QED BY <2>1, <3>1 DEF VmmSends
  <2>2. CASE line = <<>>
    BY <2>2 DEF VmmSends, Relayable, StreamsOK
  <2> QED BY <2>1, <2>2
<1>2. /\ wire' \in Seq(Mark) /\ Len(wire') = Len(wire) + 1 /\ wire'[Len(wire) + 1] = b
      /\ \A i \in 1..Len(wire) : wire'[i] = wire[i]
  BY <1>1, AppendProperties DEF StreamsOK
<1>3. Len(wire) \in Nat
  BY Lengths
<1>4. OnWire = 0 /\ OnWire' = 0
  BY DEF VmmSends, WireInv, OnWire, ssh
<1>5. StreamsOK(Mark)'
  BY <1>1, <1>2, <1>3, <1>4 DEF VmmSends, StreamsOK, ssh
<1>6. WireInv'
  BY <1>1, <1>2, <1>3, <1>4 DEF VmmSends, WireInv
<1>7. ThreadInv'
  BY DEF VmmSends, ThreadInv, Shaking, ssh, threads
<1>8. FromGuest' = FromGuest
  <2>1. Suffix(wire, 0) = <<>> /\ Suffix(wire', 0) = <<>>
    BY <1>2, SuffixEnds DEF StreamsOK
  <2> QED BY <2>1, <1>4 DEF FromGuest
<1> QED BY <1>5, <1>6, <1>7, <1>8

LEMMA GuestSendsKeeps ==
  ASSUME NEW Mark, Relayable(Mark), IInv(Mark), GuestSends
  PROVE  IInv(Mark)' /\ FromGuest' = Append(FromGuest, Head(guestOut))
<1> USE DEF IInv
<1> DEFINE b == Head(guestOut)
<1>1. b \in Mark /\ guestOut' \in Seq(Mark) /\ Len(guestOut') = Len(guestOut) - 1
  BY HeadTailProperties DEF GuestSends, StreamsOK
<1>2. /\ wire' \in Seq(Mark) /\ Len(wire') = Len(wire) + 1
      /\ \A i \in 1..Len(wire) : wire'[i] = wire[i]
  BY <1>1, AppendProperties DEF GuestSends, StreamsOK
<1>3. Len(wire) \in Nat /\ Len(guestOut) \in Nat /\ Len(stdout) \in Nat /\ Len(Output) \in Nat /\ OnWire \in 0..Len(wire)
  BY Lengths DEF StreamsOK
<1>4. OnWire' = OnWire + 1
  BY <1>1, <1>3 DEF GuestSends, OnWire, ssh
<1>5. StreamsOK(Mark)'
  BY <1>1, <1>2, <1>3, <1>4 DEF GuestSends, StreamsOK, ssh
<1>6. WireInv'
  <2>1. Len(wire') - OnWire' = Len(wire) - OnWire
    BY <1>2, <1>3, <1>4
  <2> HIDE DEF b
  <2>2. eol /\ eol' /\ pc' = pc
    BY DEF GuestSends
  <2>3. ASSUME pc \in {"connect", "request", "read"}
        PROVE  /\ \A i \in 1..Len(wire') : i < Len(wire') - OnWire' => wire'[i] # NL
               /\ OnWire' < Len(wire') /\ wire'[Len(wire') - OnWire'] = NL
    <3>1. OnWire < Len(wire) /\ wire[Len(wire) - OnWire] = NL
      BY <2>2, <2>3 DEF WireInv
    <3>2. Len(wire) - OnWire \in 1..Len(wire) /\ OnWire' < Len(wire')
      BY <3>1, <1>2, <1>3, <1>4
    <3>3. wire'[Len(wire') - OnWire'] = NL
      BY <3>1, <3>2, <2>1, <1>2
    <3>4. ASSUME NEW i \in 1..Len(wire'), i < Len(wire') - OnWire' PROVE wire'[i] # NL
      <4>1. i \in 1..Len(wire) /\ i < Len(wire) - OnWire
        BY <3>2, <3>4, <2>1, <1>2, <1>3
      <4> QED BY <4>1, <2>3, <1>2 DEF WireInv
    <3> QED BY <3>2, <3>3, <3>4
  <2>4. pc \in {"parse", "relay"} => OnWire' = Len(wire')
    BY <1>2, <1>3, <1>4 DEF WireInv
  <2> QED BY <2>2, <2>3, <2>4 DEF WireInv
<1>7. ThreadInv'
  BY DEF GuestSends, ThreadInv, Shaking, ssh, threads
<1>8. FromGuest' = Append(FromGuest, Head(guestOut))
  BY <1>1, <1>3, <1>4, SuffixAppend DEF FromGuest, GuestSends, StreamsOK
<1> QED BY <1>5, <1>6, <1>7, <1>8

\* The handshake reads one byte.
LEMMA ReadLineKeeps ==
  ASSUME NEW Mark, Relayable(Mark), IInv(Mark), ReadLine
  PROVE  IInv(Mark)' /\ FromGuest' = FromGuest
<1> USE DEF IInv
<1>1. CASE UNCHANGED wire
  <2>1. IInv(Mark)'
    BY <1>1, QuietStep DEF ReadLine, Fail, ThreadInv, quiet, ssh, threads
  <2>2. FromGuest' = FromGuest
    BY <1>1 DEF FromGuest, OnWire, ReadLine, ssh
  <2> QED BY <2>1, <2>2
<1>2. CASE /\ wire # <<>> /\ wire' = Tail(wire) /\ result' = result
           /\ IF Head(wire) = NL THEN pc' = "parse" ELSE pc' = "read"
  <2>1. /\ wire' \in Seq(Mark) /\ Len(wire') = Len(wire) - 1
        /\ \A i \in 1..Len(wire') : wire'[i] = wire[i + 1]
    BY <1>2, HeadTailProperties DEF StreamsOK
  <2>2. Len(wire) \in Nat \ {0} /\ OnWire \in 0..Len(wire) /\ Head(wire) = wire[1]
    BY <1>2, Lengths, EmptySeq DEF StreamsOK
  <2>3. OnWire' = OnWire
    BY DEF ReadLine, OnWire, ssh
  <2>4. pc = "read" /\ eol' = eol /\ OnWire < Len(wire)
    BY <2>2 DEF ReadLine, WireInv
  <2>5. StreamsOK(Mark)'
    BY <2>1, <2>2, <2>3, <2>4 DEF ReadLine, StreamsOK, ssh
  <2>6. WireInv'
    <3>1. CASE Head(wire) = NL
      <4>1. pc' = "parse"
        BY <1>2, <3>1
      <4>2. eol /\ ~(1 < Len(wire) - OnWire)
        BY <3>1, <2>2, <2>4 DEF WireInv
      <4>3. OnWire = Len(wire) - 1
        BY <4>2, <2>2, <2>4
      <4> QED BY <4>1, <4>2, <4>3, <2>1, <2>3, <2>4 DEF WireInv
    <3>2. CASE Head(wire) # NL
      <4>1. pc' = "read"
        BY <1>2, <3>2
      <4>2. \A i \in 1..Len(wire') : i < Len(wire') - OnWire => wire'[i] # NL
        BY <2>1, <2>2, <2>4 DEF WireInv
      <4>3. eol => OnWire < Len(wire') /\ wire'[Len(wire') - OnWire] = NL
        <5>1. eol => Len(wire) - OnWire # 1
          BY <3>2, <2>2, <2>4 DEF WireInv
        <5> QED BY <5>1, <2>1, <2>2, <2>4 DEF WireInv
      <4>4. ~eol => OnWire = 0 /\ \A i \in 1..Len(wire') : wire'[i] # NL
        BY <2>1, <2>2, <2>4 DEF WireInv
      <4> QED BY <4>1, <4>2, <4>3, <4>4, <2>3, <2>4 DEF WireInv
    <3> QED BY <3>1, <3>2
  <2>7. ThreadInv'
    BY <1>2, <2>4 DEF ReadLine, ThreadInv, Shaking, ssh, threads
  <2>8. FromGuest' = FromGuest
    <3>1. OnWire \in 0..(Len(wire) - 1)
      BY <2>2, <2>4
    <3> QED BY <1>2, <2>3, <3>1, SuffixTail DEF FromGuest, StreamsOK
  <2> QED BY <2>5, <2>6, <2>7, <2>8
<1> QED BY <1>1, <1>2 DEF ReadLine

\* The relay reads one byte of the guest's and hands it to ssh.
LEMMA DownloadKeeps ==
  ASSUME NEW Mark, Relayable(Mark), IInv(Mark), Download
  PROVE  /\ IInv(Mark)'
         /\ FromGuest = wire /\ FromGuest' = wire'
<1> USE DEF IInv
<1>1. pc = "relay" /\ pc' = "relay" /\ OnWire = Len(wire) /\ eol /\ eol'
  BY DEF Download, Shut, ThreadInv, WireInv, Shaking
<1>2. Len(wire) \in Nat /\ Len(guestOut) \in Nat /\ Len(stdout) \in Nat /\ Len(Output) \in Nat
  BY Lengths
<1>3. CASE /\ wire # <<>> /\ stdout' = Append(stdout, Head(wire)) /\ wire' = Tail(wire) /\ UNCHANGED <<download, notes>>
  <2>1. /\ wire' \in Seq(Mark) /\ Len(wire') = Len(wire) - 1 /\ Head(wire) \in Mark
    BY <1>3, HeadTailProperties DEF StreamsOK
  <2>2. stdout' \in Seq(Mark) /\ Len(stdout') = Len(stdout) + 1
    BY <1>3, <2>1, AppendProperties DEF StreamsOK
  <2>3. OnWire' = Len(wire')
    BY <1>1, <1>2, <2>1, <2>2 DEF OnWire, Download
  <2>4. Len(wire') \in Nat
    BY <2>1, LenProperties
  <2>5. StreamsOK(Mark)'
    BY <2>1, <2>2, <2>3, <2>4 DEF StreamsOK, Download
  <2>6. WireInv'
    BY <1>1, <2>3 DEF WireInv
  <2>7. ThreadInv'
    BY <1>1, <1>3 DEF Download, ThreadInv, Shaking
  <2>8. FromGuest = wire /\ FromGuest' = wire'
    BY <1>1, <2>1, <2>3, SuffixEnds DEF FromGuest, StreamsOK
  <2> QED BY <2>5, <2>6, <2>7, <2>8
<1>4. CASE /\ (wire # <<>> /\ ~reader) \/ (wire = <<>> /\ closed)
           /\ download' = "done" /\ notes' = Append(notes, "download") /\ UNCHANGED <<stdout, wire>>
  <2>1. OnWire' = OnWire
    BY <1>4 DEF OnWire, Download
  <2>2. StreamsOK(Mark)' /\ WireInv'
    BY <1>1, <1>4, <2>1 DEF StreamsOK, WireInv, Download
  <2>3. notes' \in Seq({"upload", "download"})
    BY <1>4 DEF ThreadInv
  <2>4. ThreadInv'
    BY <1>1, <1>4, <2>3 DEF Download, ThreadInv, Shaking
  <2>5. FromGuest = wire /\ FromGuest' = wire'
    BY <1>1, <1>4, <2>1, SuffixEnds DEF FromGuest, StreamsOK
  <2> QED BY <2>2, <2>4, <2>5
<1> QED BY <1>3, <1>4 DEF Download

LEMMA UploadKeeps ==
  ASSUME NEW Mark, Relayable(Mark), IInv(Mark), Upload
  PROVE  IInv(Mark)' /\ FromGuest' = FromGuest /\ ~guestEof
<1> USE DEF IInv
<1>1. pc = "relay" /\ UNCHANGED <<line, eol, wire, closed, guestOut, pc, stdout, reader, download, result>> /\ ~guestEof
  BY DEF Upload, Shut, peer, ThreadInv, Shaking
<1>2. OnWire' = OnWire
  BY <1>1 DEF OnWire
<1>3. WireInv'
  BY <1>1, <1>2 DEF WireInv
<1>4. stdin' \in Seq(Mark) /\ guestIn' \in Seq(Mark)
  <2>1. CASE stdin # <<>> /\ guestIn' = Append(guestIn, Head(stdin)) /\ stdin' = Tail(stdin)
    BY <2>1, HeadTailProperties, AppendProperties DEF StreamsOK
  <2>2. CASE UNCHANGED <<guestIn, stdin>>
    BY <2>2 DEF StreamsOK
  <2> QED BY <2>1, <2>2 DEF Upload
<1>5. StreamsOK(Mark)'
  BY <1>1, <1>2, <1>4 DEF StreamsOK
<1>6. ThreadInv'
  <2>1. CASE UNCHANGED <<guestEof, upload, notes>>
    BY <1>1, <2>1 DEF ThreadInv, Shaking
  <2>2. CASE upload' = "done" /\ notes' = Append(notes, "upload")
    <3>1. /\ notes' \in Seq({"upload", "download"}) /\ Len(notes) \in Nat /\ Len(notes') = Len(notes) + 1
          /\ \A i \in 1..Len(notes) : notes'[i] = notes[i]
          /\ notes'[Len(notes) + 1] = "upload"
      BY <2>2, AppendProperties, LenProperties DEF ThreadInv
    <3>2. ASSUME NEW i \in 1..Len(notes'), notes'[i] = "download" PROVE i \in 1..Len(notes) /\ notes[i] = "download"
      BY <3>1, <3>2
    <3>3. (\E i \in 1..Len(notes') : notes'[i] = "download") => download' = "done"
      BY <3>2, <1>1 DEF ThreadInv
    <3> QED BY <1>1, <2>2, <3>1, <3>3 DEF ThreadInv, Shaking
  <2> QED BY <2>1, <2>2 DEF Upload
<1>7. FromGuest' = FromGuest
  BY <1>1, <1>2 DEF FromGuest
<1> QED BY <1>1, <1>3, <1>5, <1>6, <1>7

LEMMA MainKeeps ==
  ASSUME NEW Mark, Relayable(Mark), IInv(Mark), Main
  PROVE  /\ IInv(Mark)' /\ FromGuest' = FromGuest
         /\ result' # result /\ reader => FromGuest = <<>>
<1> USE DEF IInv
<1>1. /\ pc = "relay" /\ UNCHANGED <<line, eol, wire, closed, guestOut, stdout, reader, stdin, guestIn, guestEof, upload, download>>
      /\ pc' = "relay" \/ (pc' = "returned" /\ Head(notes) = "download")
  BY DEF Main, Fail, peer, ssh
<1>2. OnWire' = OnWire
  BY <1>1 DEF OnWire
<1>3. StreamsOK(Mark)' /\ WireInv'
  BY <1>1, <1>2 DEF StreamsOK, WireInv
<1>4. /\ notes \in Seq({"upload", "download"}) /\ notes # <<>> /\ notes' = Tail(notes)
      /\ Len(notes) \in Nat \ {0} /\ Head(notes) = notes[1]
      /\ notes' \in Seq({"upload", "download"}) /\ Len(notes') = Len(notes) - 1
      /\ \A i \in 1..Len(notes') : notes'[i] = notes[i + 1]
  BY HeadTailProperties, LenProperties, EmptySeq DEF Main, ThreadInv
<1>5. (\E i \in 1..Len(notes') : notes'[i] = "download") => download' = "done"
  <2>1. ASSUME NEW i \in 1..Len(notes'), notes'[i] = "download" PROVE i + 1 \in 1..Len(notes) /\ notes[i + 1] = "download"
    BY <1>4, <2>1
  <2> QED BY <2>1, <1>1 DEF ThreadInv
<1>6. ThreadInv'
  BY <1>1, <1>4, <1>5 DEF Main, Fail, ThreadInv, Shaking
<1>7. FromGuest' = FromGuest
  BY <1>1, <1>2 DEF FromGuest
<1>8. result' # result /\ reader => FromGuest = <<>>
  <2> SUFFICES ASSUME result' # result, reader PROVE FromGuest = <<>>
    OBVIOUS
  <2>1. Head(notes) = "download"
    BY DEF Main
  <2>2. download = "done"
    BY <2>1, <1>4 DEF ThreadInv
  <2>3. wire = <<>> /\ OnWire = 0
    BY <2>2, <1>1 DEF ThreadInv, WireInv
  <2> QED BY <2>3, SuffixEnds DEF FromGuest, StreamsOK
<1> QED BY <1>3, <1>6, <1>7, <1>8

\* The steps of the handshake that read nothing.
HandshakeOnly == TimedOut \/ Connect \/ Request \/ Parse

LEMMA HandshakeKeeps ==
  ASSUME NEW Mark, IInv(Mark), HandshakeOnly
  PROVE  IInv(Mark)' /\ UNCHANGED <<wire, guestOut, stdout, stdin, guestIn, guestEof, reader>> /\ result' # "ok"
<1> USE DEF IInv
<1>1. CASE TimedOut \/ Connect \/ Request
  <2>1. /\ UNCHANGED <<quiet, line>> /\ result' # "ok"
        /\ pc' \in {"connect", "request", "read", "returned"} /\ pc \in {"connect", "request", "read"}
        /\ pc' # "returned" => result' = "none"
    BY <1>1 DEF TimedOut, Connect, Request, Fail, ThreadInv, quiet, peer, ssh, threads
  <2> QED BY <2>1, QuietStep DEF quiet
<1>2. CASE Parse
  <2>1. OnWire' = OnWire
    BY <1>2 DEF OnWire, Parse, peer, ssh
  <2>2. StreamsOK(Mark)' /\ WireInv'
    BY <1>2, <2>1 DEF Parse, Fail, StreamsOK, WireInv, peer, ssh
  <2>3. ThreadInv'
    BY <1>2 DEF Parse, Fail, ThreadInv, Shaking, peer, ssh
  <2>4. UNCHANGED <<wire, guestOut, stdout, stdin, guestIn, guestEof, reader>> /\ result' # "ok"
    BY <1>2 DEF Parse, Fail, ThreadInv, peer, ssh
  <2> QED BY <2>2, <2>3, <2>4
<1> QED BY <1>1, <1>2 DEF HandshakeOnly

\* The environment's steps that move no byte: a closed end, a reader gone, a tick.
Elsewhere == PeerCloses \/ SshCloses \/ SshGone \/ Tick \/ UNCHANGED vars

LEMMA ElsewhereKeeps ==
  ASSUME NEW Mark, IInv(Mark), Elsewhere
  PROVE  IInv(Mark)' /\ UNCHANGED <<wire, guestOut, stdout, stdin, guestIn, guestEof, result>>
                     /\ (reader' # reader => result # "ok")
<1> USE DEF IInv
<1>1. /\ UNCHANGED <<line, wire, guestOut, stdout, stdin, guestIn, guestEof, upload, download, notes, eol, pc, result>>
      /\ (closed' = closed \/ closed') /\ (reader' = reader \/ (~reader' /\ result # "ok"))
  BY DEF Elsewhere, PeerCloses, SshCloses, SshGone, Tick, vars, ThreadInv, peer, ssh, threads
<1>2. OnWire' = OnWire
  BY <1>1 DEF OnWire
<1>3. StreamsOK(Mark)' /\ WireInv'
  BY <1>1, <1>2 DEF StreamsOK, WireInv
<1>4. ThreadInv'
  BY <1>1 DEF ThreadInv, Shaking
<1> QED BY <1>1, <1>3, <1>4

LEMMA Split ==
  ASSUME [Next]_vars
  PROVE  VmmSends \/ GuestSends \/ ReadLine \/ Download \/ Upload \/ Main \/ HandshakeOnly \/ Elsewhere
BY DEF Next, Handshake, HandshakeOnly, Elsewhere

LEMMA Inductive ==
  ASSUME NEW Mark, Relayable(Mark), IInv(Mark), [Next]_vars
  PROVE  IInv(Mark)'
BY Split, VmmSendsKeeps, GuestSendsKeeps, ReadLineKeeps, DownloadKeeps, UploadKeeps, MainKeeps, HandshakeKeeps, ElsewhereKeeps

-----------------------------------------------------------------------------

\* A step of the proxy and its environment is a step of the stream to ssh, or none of it.
LEMMA DownStep ==
  ASSUME NEW Mark, Relayable(Mark), IInv(Mark), [Next]_vars
  PROVE  [Down!Next]_(Down!stream)
<1> USE DEF Down!stream, Down!Next, DownStream
<1>1. CASE VmmSends
  BY <1>1, VmmSendsKeeps DEF VmmSends, ssh
<1>2. CASE GuestSends
  <2>1. FromGuest' = Append(FromGuest, Head(guestOut))
    BY <1>2, GuestSendsKeeps
  <2> QED BY <1>2, <2>1 DEF GuestSends, ssh, Down!Send
<1>3. CASE ReadLine
  <2>1. FromGuest' = FromGuest
    BY <1>3, ReadLineKeeps
  <2>2. result # "ok" /\ result' # "ok"
    BY <1>3 DEF ReadLine, Fail, IInv, ThreadInv
  <2> QED BY <1>3, <2>1, <2>2 DEF ReadLine, ssh
<1>4. CASE Download
  <2>1. FromGuest = wire /\ FromGuest' = wire'
    BY <1>4, DownloadKeeps
  <2>2. result # "ok" /\ result' = result
    BY <1>4 DEF Download, Shut, IInv, ThreadInv
  <2> QED BY <1>4, <2>1, <2>2 DEF Download, Down!Deliver
<1>5. CASE Upload
  BY <1>5, UploadKeeps DEF Upload, peer
<1>6. CASE Main
  <2>1. FromGuest' = FromGuest /\ (result' # result /\ reader => FromGuest = <<>>)
    BY <1>6, MainKeeps
  <2>2. UNCHANGED <<guestOut, stdout, reader>> /\ (result' = result \/ result' = "ok")
    BY <1>6 DEF Main, Fail, peer, ssh
  <2> QED BY <2>1, <2>2 DEF Down!Finish
<1>7. CASE HandshakeOnly
  <2>1. UNCHANGED <<wire, guestOut, stdout, reader>> /\ result' # "ok"
    BY <1>7, HandshakeKeeps
  <2>2. result # "ok"
    BY <1>7 DEF HandshakeOnly, TimedOut, Connect, Request, Parse, IInv, ThreadInv
  <2> QED BY <2>1, <2>2 DEF FromGuest, OnWire
<1>8. CASE Elsewhere
  <2>1. UNCHANGED <<wire, guestOut, stdout, result>> /\ (reader' # reader => result # "ok")
    BY <1>8, ElsewhereKeeps
  <2> QED BY <2>1 DEF FromGuest, OnWire
<1> QED BY Split, <1>1, <1>2, <1>3, <1>4, <1>5, <1>6, <1>7, <1>8

\* And one of the stream to the guest, or none of it.
LEMMA UpStep ==
  ASSUME NEW Mark, Relayable(Mark), IInv(Mark), [Next]_vars
  PROVE  [Up!Next]_(Up!stream)
<1> USE DEF Up!stream, Up!Next, UpStream
<1>1. CASE Upload
  <2>1. ~guestEof
    BY <1>1, UploadKeeps
  <2> QED BY <1>1, <2>1 DEF Upload, Up!Deliver, Up!Finish
<1>2. CASE VmmSends \/ GuestSends \/ ReadLine \/ Download \/ Main
  BY <1>2 DEF VmmSends, GuestSends, ReadLine, Download, Main, ssh
<1>3. CASE HandshakeOnly
  BY <1>3, HandshakeKeeps
<1>4. CASE Elsewhere
  BY <1>4, ElsewhereKeeps
<1> QED BY Split, <1>1, <1>2, <1>3, <1>4

\* For any line of the VMM, limits, input and output, the relay is two byte streams: what the
\* guest wrote reaches ssh, and what ssh wrote reaches the guest, in order, once each, and no
\* end is seen before the last byte; nothing of the VMM's line reaches ssh and the handshake
\* takes nothing of the guest's bytes (connect_vsock, read_vsock_response, relay_vsock).
THEOREM RelaysTwoStreams ==
  ASSUME NEW Mark, Relayable(Mark)
  PROVE  Spec => Down!Spec /\ Up!Spec
<1>1. Init => IInv(Mark)
  BY Start
<1>2. IInv(Mark) /\ [Next]_vars => IInv(Mark)'
  BY Inductive
<1>3. Init => Down!Init
  <2> SUFFICES ASSUME Init PROVE Down!Init
    OBVIOUS
  <2>1. OnWire = 0 /\ wire \in Seq(Mark) /\ Output \in Seq(Mark)
    BY <1>1 DEF IInv, StreamsOK, WireInv, Init, Relayable
  <2>2. FromGuest = <<>> /\ Output \o <<>> = Output
    BY <2>1, SuffixEnds, ConcatEmptySeq DEF FromGuest
  <2> QED BY <2>2 DEF Init, Down!Init, DownStream
<1>4. Init => Up!Init
  BY ConcatEmptySeq DEF Init, Up!Init, UpStream, Relayable
<1>5. IInv(Mark) /\ [Next]_vars => [Down!Next]_(Down!stream)
  BY DownStep
<1>6. IInv(Mark) /\ [Next]_vars => [Up!Next]_(Up!stream)
  BY UpStep
<1> QED BY <1>1, <1>2, <1>3, <1>4, <1>5, <1>6, PTL DEF Spec, Down!Spec, Up!Spec
=============================================================================
