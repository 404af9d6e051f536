---------------------------- MODULE OciReference ----------------------------
(***************************************************************************)
(* The syntax of OCI references: classification, parsing, normalization    *)
(* and rendering.  Text is a sequence of words and of the separators "/",  *)
(* ":" and "@"; what a word is good for is given by the constants.         *)
(***************************************************************************)
EXTENDS Naturals, Sequences, FiniteSets, SequencesExt

CONSTANTS
    Component,  \* words that are repository components
    Host,       \* words that are host names
    Dotted,     \* words with a dot
    TagWord,    \* words that are tags
    Port,       \* words that are port numbers
    Other,      \* words that are none of these
    MaxTokens,  \* bound on the length of a text
    None

Hub == "docker.io"
Alias == "index.docker.io"
Sha == <<"sha256", ":", "HEX">>
Separator == {"/", ":", "@"}
Word == Component \cup Host \cup TagWord \cup Port \cup Other \cup {"sha256", "HEX"}

VARIABLES text, scheme, parsed, class

vars == <<text, scheme, parsed, class>>

\* Two words in a row would be one.
Texts ==
    UNION {{t \in [1..n -> Word \cup Separator] :
               \A i \in 1..(n - 1) : t[i] \in Separator \/ t[i + 1] \in Separator} : n \in 0..MaxTokens}

Init == text \in Texts /\ scheme \in BOOLEAN /\ parsed = None /\ class = None

-----------------------------------------------------------------------------

Find(t, c) == SelectInSeq(t, LAMBDA x : x = c)
FindLast(t, c) == SelectLastInSeq(t, LAMBDA x : x = c)
Before(t, i) == SubSeq(t, 1, i - 1)
After(t, i) == SubSeq(t, i + 1, Len(t))
Split(t) == LET cuts == SetToSortSeq({0, Len(t) + 1} \cup {i \in DOMAIN t : t[i] = "/"}, <)
            IN  [n \in 1..(Len(cuts) - 1) |-> SubSeq(t, cuts[n] + 1, cuts[n + 1] - 1)]
Error == [error |-> "invalid_spec"]
Failed(x) == "error" \in DOMAIN x

LooksLikeRegistryHost(t) ==
    \/ \E i \in DOMAIN t : t[i] \in Dotted \cup {":"}
    \/ t = <<"localhost">>

\* A bare host or host:port.
CheckRegistryHost(t) ==
    \/ Len(t) = 1 /\ t[1] \in Host
    \/ Len(t) = 3 /\ t[1] \in Host /\ t[2] = ":" /\ t[3] \in Port

\* The alias of Docker Hub has one canonical name; a port keeps it another host.
NormalizeRegistry(t) == IF t = <<Alias>> THEN <<Hub>> ELSE t

\* Everything after the first "@" is a digest; otherwise the last ":" of the
\* last component starts a tag.
SplitReference(t) ==
    LET at == Find(t, "@")
        slash == FindLast(t, "/")
        colon == FindLast(t, ":")
    IN  CASE at # 0 -> IF After(t, at) = Sha THEN [name |-> Before(t, at), ref |-> <<"@">> \o Sha]
                       ELSE Error
          [] at = 0 /\ colon > slash ->
                IF Len(t) = colon + 1 /\ t[colon + 1] \in TagWord
                THEN [name |-> Before(t, colon), ref |-> <<":", t[colon + 1]>>] ELSE Error
          [] OTHER -> [name |-> t, ref |-> <<":", "latest">>]

\* One lowercase word between two slashes.
ValidateRepository(t) == \A n \in DOMAIN Split(t) : Len(Split(t)[n]) = 1 /\ Split(t)[n][1] \in Component

\* A single component on Docker Hub is in the library.
Library(registry, t) ==
    IF registry = <<Hub>> /\ Find(t, "/") = 0 THEN <<"library", "/">> \o t ELSE t

Parse(t) ==
    LET s == SplitReference(t)
        slash == Find(s.name, "/")
        hosted == slash # 0 /\ LooksLikeRegistryHost(Before(s.name, slash))
        registry == IF hosted THEN NormalizeRegistry(Before(s.name, slash)) ELSE <<Hub>>
        repository == Library(registry, IF hosted THEN After(s.name, slash) ELSE s.name)
    IN  IF t = <<>> \/ Failed(s) THEN Error
        ELSE IF s.name = <<>> \/ ~CheckRegistryHost(registry) \/ ~ValidateRepository(repository) THEN Error
        ELSE [registry |-> registry, repository |-> repository, ref |-> s.ref]

Render(r) == r.registry \o <<"/">> \o r.repository \o r.ref

\* A scheme always selects OCI, a first component that looks like a host too.
Classify(sch, t) ==
    CASE sch -> "scheme"
      [] ~sch /\ Find(t, "/") # 0 /\ LooksLikeRegistryHost(Before(t, Find(t, "/"))) -> "host"
      [] OTHER -> "none"

Normalize ==
    /\ parsed = None
    /\ class' = Classify(scheme, text)
    /\ parsed' = Parse(text)
    /\ UNCHANGED <<text, scheme>>

Next == Normalize

Spec == Init /\ [][Next]_vars

-----------------------------------------------------------------------------

\* A reference that parses has a valid host, repository and tag or digest.
TypeOK ==
    /\ class \in {None, "scheme", "host", "none"}
    /\ parsed # None /\ ~Failed(parsed) =>
           /\ CheckRegistryHost(parsed.registry)
           /\ ToSet(parsed.repository) \subseteq Component \cup {"/"}
           /\ parsed.ref = <<"@">> \o Sha \/ (parsed.ref[1] = ":" /\ parsed.ref[2] \in TagWord)

Good == parsed # None /\ ~Failed(parsed)

\* The canonical text is read back as the same reference and is taken for an
\* OCI reference without its scheme: what a specification stores stays what it
\* is (Display, parse, classify).
RoundTrip == Good => Parse(Render(parsed)) = parsed /\ Classify(FALSE, Render(parsed)) = "host"

\* Two spellings of one image have one canonical text: the registry may be
\* left out or be written with its alias, the library and the tag left out.
Spellings ==
    Good =>
        LET name == IF Len(Split(parsed.repository)) = 2 /\ Split(parsed.repository)[1] = <<"library">>
                    THEN Split(parsed.repository)[2] ELSE parsed.repository
        IN  parsed.registry = <<Hub>> =>
                /\ Parse(<<Alias, "/">> \o name \o parsed.ref) = parsed
                /\ Parse(name \o parsed.ref) = parsed \/ LooksLikeRegistryHost(Split(name)[1])
                /\ parsed.ref = <<":", "latest">> => Parse(<<Hub, "/">> \o name) = parsed

=============================================================================
