------------------------------ MODULE CloudInit ------------------------------
(***************************************************************************)
(* The rendering of a machine's cloud-init data: the user's part, the      *)
(* network configuration and the public keys are read in that order, the   *)
(* first thing wrong ends the rendering, then the keys are made unique,    *)
(* the parts put together and an instance id derived from what the guest   *)
(* will read.  A file is a document: whether it is UTF-8, its first line   *)
(* and its body, a sequence of marks, long enough to tell the framing of   *)
(* two texts apart.                                                        *)
(***************************************************************************)
EXTENDS Naturals, Sequences, SequencesExt

CONSTANTS
    Docs,       \* user-data: records of utf8, head and body
    Nets,       \* network configurations: records of utf8 and body
    KeyFiles,   \* files of public keys: sequences of lines
    InlineKeys, \* entries of ssh_authorized_keys: lines
    MaxFile, MaxInline, MaxKeyFile, MaxKeys   \* the limits, in marks and lines

VARIABLES
    in,    \* the specification's cloud_init table
    pc,    \* what is read next
    part,  \* the user's part, or none
    net,   \* the network configuration, or none
    keys,  \* the keys read so far
    out    \* the rendering, an error, or none

vars == <<in, pc, part, net, keys, out>>

None == [none |-> TRUE]
Failed == [failed |-> TRUE]
Mark(m) == [mark |-> m]

\* A line of a key file: blank or a comment, no key, or a key with its data and
\* its comment; Firestone's own key has the data "own".
IsKey(line) == "data" \in DOMAIN line
IsBlank(line) == "blank" \in DOMAIN line
OwnKey == [data |-> "own", note |-> "host"]

Init ==
    /\ in \in [path : Docs \cup {None}, inline : Docs \cup {None}, net : Nets \cup {None},
               files : SeqOf(KeyFiles, 2), authorized : SeqOf(InlineKeys, 1),
               provisioning : BOOLEAN]
    /\ pc = "user_data" /\ part = None /\ net = None /\ keys = <<>> /\ out = None

Fail == out' = Failed /\ pc' = "done"

-----------------------------------------------------------------------------
(* The user's part.                                                        *)

\* parse_user_data: the first line says what it is.
Parsed(d) == d.utf8 /\ d.head \in {"config", "script"}

\* read_bounded_user_file, read_inline_user_data.
Fits(d, limit) == Len(d.body) <= limit

\* The two spellings exclude each other.
ReadUserData ==
    /\ pc = "user_data"
    /\ LET given == {in.path, in.inline} \ {None}
           good == /\ in.path # None => Fits(in.path, MaxFile) /\ Parsed(in.path)
                   /\ in.inline # None => Fits(in.inline, MaxInline) /\ Parsed(in.inline)
       IN  \/ (in.path # None /\ in.inline # None) /\ Fail /\ UNCHANGED part
           \/ (in.path = None \/ in.inline = None) /\ ~good /\ Fail /\ UNCHANGED part
           \/ /\ in.path = None \/ in.inline = None
              /\ good /\ pc' = "net" /\ UNCHANGED out
              /\ part' = IF given = {} THEN None ELSE CHOOSE d \in given : TRUE
    /\ UNCHANGED <<in, net, keys>>

\* read_network_config_file: any UTF-8 text.
ReadNetwork ==
    /\ pc = "net"
    /\ IF in.net = None \/ (Fits(in.net, MaxFile) /\ in.net.utf8)
       THEN net' = in.net /\ pc' = "keys" /\ UNCHANGED out
       ELSE Fail /\ UNCHANGED net
    /\ UNCHANGED <<in, part, keys>>

-----------------------------------------------------------------------------
(* The keys.                                                               *)

\* parse_public_keys: blank lines and comments are passed over, every other
\* line is a key, and there is at least one.
KeyLines(f) == SelectSeq(f, LAMBDA l : ~IsBlank(l))
KeysOf(f) == KeyLines(f)
KeyFileOK(f) == Len(f) <= MaxKeyFile /\ KeyLines(f) # <<>> /\ \A i \in 1..Len(KeyLines(f)) : IsKey(KeyLines(f)[i])

\* read_user_public_keys: the files in order, and a limit on their sum.
ReadKeys ==
    /\ pc = "keys" /\ in.provisioning
    /\ LET sizes == [i \in 1..Len(in.files) |-> Len(in.files[i])]
       IN  IF /\ \A i \in 1..Len(in.files) : KeyFileOK(in.files[i])
              /\ FoldLeft(LAMBDA a, b : a + b, 0, sizes) <= MaxKeys
           THEN /\ keys' = FlattenSeq([i \in 1..Len(in.files) |-> KeysOf(in.files[i])])
                /\ pc' = "authorized" /\ UNCHANGED out
           ELSE Fail /\ UNCHANGED keys
    /\ UNCHANGED <<in, part, net>>

\* parse_inline_public_keys: each entry one key, and nothing else.
ReadAuthorized ==
    /\ pc = "authorized"
    /\ IF \A i \in 1..Len(in.authorized) : IsKey(in.authorized[i])
       THEN keys' = keys \o in.authorized /\ pc' = "render" /\ UNCHANGED out
       ELSE Fail /\ UNCHANGED keys
    /\ UNCHANGED <<in, part, net>>

\* Without provisioning no key is read.
SkipKeys ==
    /\ pc = "keys" /\ ~in.provisioning /\ pc' = "render"
    /\ UNCHANGED <<in, part, net, keys, out>>

\* deduplicate_user_keys: by the key, the first spelling stays, Firestone's own
\* is left out.
Unique(ks) ==
    FoldLeft(LAMBDA acc, k : IF k.data = OwnKey.data \/ (\E i \in 1..Len(acc) : acc[i].data = k.data)
                             THEN acc ELSE Append(acc, k), <<>>, ks)

-----------------------------------------------------------------------------
(* The rendering.                                                          *)

\* render_firestone_part, append_mime_part.
FirestonePart(ks) == [type |-> "config", body |-> <<OwnKey>> \o Unique(ks)]
MimePart(p) == <<Mark(p.type)>> \o p.body

\* render_multipart: nothing at all when there is no part, else the user's
\* part, then Firestone's, which cloud-init merges over it.
Multipart(user, own) ==
    IF user = None /\ own = None THEN <<>>
    ELSE <<Mark("mime")>> \o (IF user = None THEN <<>> ELSE MimePart(user))
         \o (IF own = None THEN <<>> ELSE MimePart(own)) \o <<Mark("end")>>

\* instance_id: the hash of the user data alone, or of both with their lengths;
\* the hash is taken to be injective.
InstanceId(ud, nc) ==
    IF nc = None THEN ud
    ELSE <<Mark("v1"), [len |-> Len(ud)]>> \o ud \o <<[len |-> Len(nc.body)]>> \o nc.body

UserPart(d) == IF d = None THEN None ELSE [type |-> d.head, body |-> d.body]

\* render_cloud_init_bytes.
Render ==
    /\ pc = "render" /\ pc' = "done"
    /\ LET own == IF in.provisioning THEN FirestonePart(keys) ELSE None
           ud == Multipart(UserPart(part), own)
       IN  out' = [ud |-> ud, net |-> net, id |-> InstanceId(ud, net)]
    /\ UNCHANGED <<in, part, net, keys>>

Next == ReadUserData \/ ReadNetwork \/ ReadKeys \/ ReadAuthorized \/ SkipKeys \/ Render

Spec == Init /\ [][Next]_vars

-----------------------------------------------------------------------------

\* The stages of the rendering in their order; every collected line is a key, and there is
\* an outcome exactly at the end (render_cloud_init_inner).
TypeOK ==
    /\ pc \in {"user_data", "net", "keys", "authorized", "render", "done"}
    /\ \A i \in 1..Len(keys) : IsKey(keys[i])
    /\ pc = "done" <=> out # None

Done == pc = "done" /\ out # Failed

\* What a text tells the guest: its keys with data, in order.
KeysIn(ud) == SelectSeq(ud, LAMBDA m : IsKey(m))

\* Every text a guest of this specification could have been given.
Texts == {Multipart(UserPart(d), own) : d \in Docs \cup {None}, own \in {None, FirestonePart(keys), FirestonePart(<<>>)}}

\* Two renderings have one instance id exactly when the guest reads the same
\* bytes of both kinds: an id that stays does not hide a change, one that
\* changes is not a false alarm (SPEC 10.4, instance_id).
IdIsEffective ==
    Done => \A ud \in Texts, nc \in {c \in Nets : c.utf8} \cup {None} :
              InstanceId(ud, nc) = out.id <=> (ud = out.ud /\ nc = out.net)

\* A provisioned guest gets Firestone's key and every key the user named, each
\* once; a guest without provisioning gets none (deduplicate_user_keys).
EveryKeyOnce ==
    Done => LET got == KeysIn(out.ud)
                asked == {k.data : k \in ToSet(keys)}
            IN  IF ~in.provisioning THEN got = <<>>
                ELSE /\ got[1] = OwnKey
                     /\ {got[i].data : i \in 1..Len(got)} = asked \cup {OwnKey.data}
                     /\ \A i, j \in 1..Len(got) : got[i].data = got[j].data => i = j

\* Naming a key once more, under whatever comment, changes nothing (SPEC 10.4:
\* "a duplicate key ... leaves it stable").
DuplicatesAreStable ==
    Done /\ in.provisioning =>
        \A i \in 1..Len(keys), note \in {"a", "b"} :
            FirestonePart(Append(keys, [data |-> keys[i].data, note |-> note])) = FirestonePart(keys)

\* The user's part precedes Firestone's, whose settings thereby win
\* (render_multipart).
UserFirst ==
    Done /\ part # None /\ in.provisioning =>
        SubSeq(out.ud, 2, 1 + Len(part.body) + 1) = MimePart(UserPart(part))
==============================================================================
