---------------------------- MODULE PortForwards ----------------------------
(***************************************************************************)
(* Port forwards: their text, the specification's list of them, the set a  *)
(* launch hands to passt and the answer whether the two differ.            *)
(*                                                                         *)
(* Text is a sequence of tokens: the separators ":", "-", "[" and "]" and  *)
(* words.  PortOf gives the words that are decimal numbers their value; an *)
(* IPv6 address is itself a run of tokens with colons.                     *)
(***************************************************************************)
EXTENDS Integers, Sequences, FiniteSets, SequencesExt

CONSTANTS
    Number,       \* words made of digits
    PortOf(_),    \* their value
    MaxPort,      \* u16::MAX
    V4,           \* words that are IPv4 addresses
    V6,           \* texts that are IPv6 addresses
    Texts,        \* the texts a user writes
    MaxForwards,  \* bound on the entries of network.forward
    None

VARIABLES
    mode,     \* network.mode
    forward,  \* network.forward of the specification, parsed
    status,   \* "stopped" or "running"
    applied,  \* state.json's forwards: texts
    argv,     \* the -t and -u options passt was started with
    refused   \* why the last start was refused

vars == <<mode, forward, status, applied, argv, refused>>

-----------------------------------------------------------------------------
(* The text of one forward.                                                *)

FindLast(t, c) == SelectLastInSeq(t, LAMBDA x : x = c)
Find(t, c) == SelectInSeq(t, LAMBDA x : x = c)
Before(t, i) == SubSeq(t, 1, i - 1)
After(t, i) == SubSeq(t, i + 1, Len(t))
Error == [error |-> TRUE]
Failed(x) == "error" \in DOMAIN x

\* One number in range; zero is no port.
ParsePort(t) ==
    IF Len(t) = 1 /\ t[1] \in Number /\ PortOf(t[1]) \in 1..MaxPort
    THEN [port |-> PortOf(t[1])] ELSE Error

\* A port is the range of itself; a range ascends.
ParsePortRange(t) ==
    LET dash == Find(t, "-")
        start == ParsePort(IF dash = 0 THEN t ELSE Before(t, dash))
        end == ParsePort(IF dash = 0 THEN t ELSE After(t, dash))
    IN  IF Failed(start) \/ Failed(end) THEN Error
        ELSE IF start.port > end.port THEN Error
        ELSE [start |-> start.port, end |-> end.port]

\* Brackets are for IPv6 only.
ParseBind(t) ==
    CASE Len(t) >= 2 /\ t[1] = "[" /\ t[Len(t)] = "]" ->
             IF SubSeq(t, 2, Len(t) - 1) \in V6 THEN [bind |-> SubSeq(t, 2, Len(t) - 1)] ELSE Error
      [] OTHER -> IF t \in V6 \cup {<<a>> : a \in V4} THEN [bind |-> t] ELSE Error

ParsePrefix(t) ==
    LET protocol == IF t # <<>> /\ t[1] = "udp" THEN "udp" ELSE "tcp"
        named == Len(t) >= 2 /\ t[1] \in {"tcp", "udp"} /\ t[2] = ":"
        bind == ParseBind(IF named THEN After(t, 2) ELSE t)
    IN  IF t \in {<<"tcp">>, <<"udp">>} THEN [protocol |-> protocol, bind |-> <<>>]
        ELSE IF Failed(bind) THEN Error
        ELSE [protocol |-> IF named THEN protocol ELSE "tcp", bind |-> bind.bind]

Length(r) == r.end - r.start

\* The guest port follows the last colon, the host port the one before it.
Parse(t) ==
    LET last == FindLast(t, ":")
        front == Before(t, last)
        mid == FindLast(front, ":")
        guest == ParsePortRange(After(t, last))
        host == ParsePortRange(After(front, mid))
        prefix == IF mid = 0 THEN [protocol |-> "tcp", bind |-> <<>>] ELSE ParsePrefix(Before(front, mid))
    IN  IF last = 0 THEN Error
        ELSE IF Failed(guest) \/ Failed(host) \/ Failed(prefix) THEN Error
        ELSE IF Length(host) # Length(guest) THEN Error
        ELSE [protocol |-> prefix.protocol, bind |-> prefix.bind, host |-> host, guest |-> guest]

\* Every text a user writes, parsed.
Entries == {f \in {Parse(t) : t \in Texts} : ~Failed(f)}

Digits(n) == CHOOSE w \in Number : PortOf(w) = n
DisplayRange(r) ==
    IF r.start = r.end THEN <<Digits(r.start)>> ELSE <<Digits(r.start), "-", Digits(r.end)>>

\* An IPv6 address is bracketed.
DisplayBind(b) ==
    IF b = <<>> THEN <<>> ELSE (IF b \in V6 THEN <<"[">> \o b \o <<"]">> ELSE b) \o <<":">>

Display(f) ==
    (IF f.protocol = "udp" THEN <<"udp", ":">> ELSE <<>>)
        \o DisplayBind(f.bind) \o DisplayRange(f.host) \o <<":">> \o DisplayRange(f.guest)

-----------------------------------------------------------------------------
(* A list of forwards.                                                     *)

Overlap(a, b) == ~(a.host.end < b.host.start \/ b.host.end < a.host.start)

\* No host port twice for one protocol, whatever the bind addresses.
ValidateForwardSet(fs) ==
    \A i, j \in DOMAIN fs : i < j /\ fs[i].protocol = fs[j].protocol => ~Overlap(fs[i], fs[j])

\* The translated range ends at the guest range's end, within the ports.
ValidateTranslation(f) == f.guest.start + Length(f.host) = f.guest.end /\ f.guest.end <= MaxPort

OfProtocol(fs, p) == SelectSeq(fs, LAMBDA f : f.protocol = p)

\* [bind/]HOST:GUEST
ForwardArgument(f) == [bind |-> f.bind, host |-> f.host, guest |-> f.guest]

Options(fs, p) ==
    [i \in DOMAIN OfProtocol(fs, p) |-> [protocol |-> p, value |-> ForwardArgument(OfProtocol(fs, p)[i])]]

\* One option per forward: TCP, then UDP.
PreparePasst(fs) == Options(fs, "tcp") \o Options(fs, "udp")

Canonical(t) == IF Failed(Parse(t)) THEN t ELSE Display(Parse(t))
Count(s, x) == Cardinality({i \in DOMAIN s : s[i] = x})

\* Canonical texts, compared as bags.
ForwardsDiffer(fs, texts) ==
    LET configured == [i \in DOMAIN fs |-> Display(fs[i])]
        recorded == [i \in DOMAIN texts |-> Canonical(texts[i])]
    IN  \E t \in ToSet(configured) \cup ToSet(recorded) : Count(configured, t) # Count(recorded, t)

ForwardsPending == status = "running" /\ ForwardsDiffer(forward, applied)

-----------------------------------------------------------------------------

Init ==
    /\ mode \in {"passt", "none", "tap"}
    /\ forward = <<>> /\ status = "stopped" /\ applied = <<>> /\ argv = <<>> /\ refused = None

\* A patch appends an entry that parses.  The load looks at each entry alone.
AddForward(f) ==
    /\ Len(forward) < MaxForwards
    /\ forward' = Append(forward, f)
    /\ refused' = None
    /\ UNCHANGED <<mode, status, applied, argv>>

\* A patch clears the list, or an edit reorders it.
Clear ==
    /\ forward # <<>>
    /\ forward' \in {<<>>, Reverse(forward)}
    /\ refused' = None
    /\ UNCHANGED <<mode, status, applied, argv>>

\* The load of a specification in TAP mode needs the device.
SetMode(m, tapUsable) ==
    /\ mode # m /\ (m = "tap" => tapUsable)
    /\ mode' = m
    /\ refused' = None
    /\ UNCHANGED <<forward, status, applied, argv>>

\* What prepare_network refuses: forwards without passt, a TAP that is not
\* there, a set passt cannot hold.
PrepareNetwork(tapUsable) ==
    CASE mode # "passt" /\ forward # <<>> -> "forwards"
      [] mode = "tap" /\ forward = <<>> /\ ~tapUsable -> "tap"
      [] mode = "passt" /\ (~ValidateForwardSet(forward) \/ \E i \in DOMAIN forward : ~ValidateTranslation(forward[i])) -> "set"
      [] OTHER -> None

\* The plan's forwards are recorded as texts and passt is given its options.
Start(tapUsable) ==
    /\ status = "stopped"
    /\ refused' = PrepareNetwork(tapUsable)
    /\ IF refused' = None
       THEN /\ status' = "running"
            /\ applied' = IF mode = "passt" THEN [i \in DOMAIN forward |-> Display(forward[i])] ELSE <<>>
            /\ argv' = IF mode = "passt" THEN PreparePasst(forward) ELSE <<>>
       ELSE UNCHANGED <<status, applied, argv>>
    /\ UNCHANGED <<mode, forward>>

Stop == status = "running" /\ status' = "stopped" /\ argv' = <<>> /\ UNCHANGED <<mode, forward, applied, refused>>

Next ==
    \/ \E f \in Entries : AddForward(f)
    \/ Clear
    \/ \E m \in {"passt", "none", "tap"}, usable \in BOOLEAN : SetMode(m, usable)
    \/ \E usable \in BOOLEAN : Start(usable)
    \/ Stop

Spec == Init /\ [][Next]_vars

-----------------------------------------------------------------------------

\* A forward has equally long ranges of real ports.
TypeOK ==
    /\ \A i \in DOMAIN forward :
           /\ forward[i].protocol \in {"tcp", "udp"}
           /\ forward[i].bind \in V6 \cup {<<a>> : a \in V4} \cup {<<>>}
           /\ forward[i].host.start \in 1..forward[i].host.end /\ forward[i].host.end <= MaxPort
           /\ ValidateTranslation(forward[i])
    /\ status \in {"stopped", "running"} /\ refused \in {None, "forwards", "tap", "set"}

\* The host ports of a forward and where each of them leads.
Translates(f) ==
    {[protocol |-> f.protocol, bind |-> f.bind, host |-> f.host.start + i, guest |-> f.guest.start + i] : i \in 0..Length(f.host)}
Mapping(fs) == UNION {Translates(f) : f \in ToSet(fs)}

\* What passt does with its options: one slot per protocol and host port.
Slots == UNION {Translates([protocol |-> o.protocol] @@ o.value) : o \in ToSet(argv)}

\* The text of a forward is read back as the same forward, so the applied set
\* in state.json means what was started (PortForward's Display and from_str).
RoundTrip == \A i \in DOMAIN forward : Parse(Display(forward[i])) = forward[i]

\* passt was given the recorded forwards, all of them, and no host port leads
\* to two places.
AppliedIsReal ==
    status = "running" =>
        /\ Slots = Mapping([i \in DOMAIN applied |-> Parse(applied[i])])
        /\ \A a, b \in Slots : a.protocol = b.protocol /\ a.host = b.host => a = b

\* When nothing is reported as pending, a restart would translate every port
\* as the running passt does (forwards_pending).
NotPendingIsApplied == status = "running" /\ ~ForwardsPending => Mapping(forward) = Slots

=============================================================================
