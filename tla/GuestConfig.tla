---------------------------- MODULE GuestConfig ----------------------------
(***************************************************************************)
(* The config disk of an OCI machine from the image's runtime              *)
(* configuration on the host to the child the guest starts: the document   *)
(* is framed and padded by the host, read with a limit by firestone-init,  *)
(* and turned into a command, an environment and an account.               *)
(*                                                                         *)
(* Bytes are cells of the disk; a document of n cells is only itself when  *)
(* all of them are there.                                                  *)
(***************************************************************************)
EXTENDS Integers, Sequences, SequencesExt, FiniteSets, FiniteSetsExt, TLC

CONSTANTS
    Envs,      \* the image's env arrays, and per-machine overrides
    Passwds,   \* contents of /etc/passwd: rows
    Groups,    \* contents of /etc/group: rows
    Users,     \* the image's user values
    Bodies,    \* lengths of a serialized document
    Header, Cap, Align

Number == ("0" :> 0) @@ ("1" :> 1) @@ ("7" :> 7)
IsNumber(text) == text \in DOMAIN Number
None == [none |-> TRUE]
Error(what) == [error |-> what]
Failed(x) == "error" \in DOMAIN x

VARIABLES
    image,    \* env, overrides, user and document length of the image
    accounts, \* passwd and group of the image's file system
    disk,     \* the published config disk, None before
    read,     \* what the guest decoded
    child     \* the environment and account of the child

vars == <<image, accounts, disk, read, child>>

-----------------------------------------------------------------------------
(* The host.                                                               *)

Keys(env) == [i \in DOMAIN env |-> env[i].key]

\* It takes the place of the earlier one.
MergeEntry(merged, entry) ==
    IF \E i \in DOMAIN merged : merged[i].key = entry.key
    THEN [i \in DOMAIN merged |-> IF merged[i].key = entry.key THEN entry ELSE merged[i]]
    ELSE Append(merged, entry)
MergeEnv(env, overrides) == FoldLeft(MergeEntry, <<>>, env \o overrides)

RenderInitConfig == [env |-> MergeEnv(image.env, image.overrides), user |-> image.user]

Cells(doc, n) == [i \in 1..n |-> [doc |-> doc, at |-> i]]
Zero == [zero |-> TRUE]

\* Magic, version and length, then the document; None above the cap.
EncodeFrame(doc, n) ==
    IF n > Cap THEN Error("too large")
    ELSE [version |-> 1, length |-> n, cells |-> Cells(doc, n)]

\* Whole blocks, at least one; the header takes the first Header cells.
Padding(n) == Align * ((Header + n + Align - 1) \div Align) - (Header + n)

Publish ==
    /\ disk = None
    /\ disk' = LET f == EncodeFrame(RenderInitConfig, image.length) IN
               IF Failed(f) THEN f
               ELSE [f EXCEPT !.cells = @ \o [i \in 1..Padding(image.length) |-> Zero]]
    /\ UNCHANGED <<image, accounts, read, child>>

-----------------------------------------------------------------------------
(* The guest.                                                              *)

\* One header and the largest document are read at most.
ReadLimit == Header + Cap

ReadCells == SubSeq(disk.cells, 1, Min({Len(disk.cells), ReadLimit - Header}))

\* Only the declared length is parsed, and only a whole document parses.
DecodeFrame ==
    IF disk.version # 1 THEN Error("version")
    ELSE IF disk.length > Cap THEN Error("length")
    ELSE IF Len(ReadCells) < disk.length THEN Error("truncated")
    ELSE LET body == SubSeq(ReadCells, 1, disk.length) IN
         IF body # <<>> /\ "doc" \in DOMAIN body[1] /\ body = Cells(body[1].doc, disk.length)
         THEN body[1].doc ELSE Error("json")

ReadConfig ==
    /\ disk # None /\ ~Failed(disk) /\ read = None
    /\ read' = DecodeFrame
    /\ UNCHANGED <<image, accounts, disk, child>>

\* A bare entry is a key with an empty value; the last value of a key wins.
ChildEnv(env) ==
    FoldLeft(MergeEntry, <<>>, [i \in DOMAIN env |-> IF env[i].bare THEN [env[i] EXCEPT !.bare = FALSE, !.value = ""] ELSE env[i]])

\* Rows of passwd that do not parse are passed over.
ParsePasswd(rows) == SelectSeq(rows, LAMBDA r : r.ok)
Root == [uid |-> 0, gid |-> 0, home |-> "none"]

First(rows, Test(_)) == rows[CHOOSE i \in DOMAIN rows : Test(rows[i]) /\ \A j \in 1..i - 1 : ~Test(rows[j])]
Account(row) == [uid |-> row.uid, gid |-> row.gid, home |-> row.home]

\* A name, then a number, then root without a row.
ResolveUserPart(value, rows) ==
    IF \E i \in DOMAIN rows : rows[i].name = value THEN Account(First(rows, LAMBDA r : r.name = value))
    ELSE IF IsNumber(value)
    THEN IF \E i \in DOMAIN rows : rows[i].uid = Number[value] THEN Account(First(rows, LAMBDA r : r.uid = Number[value]))
         ELSE [uid |-> Number[value], gid |-> Number[value], home |-> "none"]
    ELSE IF value = "root" THEN Root ELSE Error("user")

\* A number is taken as it is, then a row, then root without one.
ResolveGroupPart(value, rows) ==
    IF IsNumber(value) THEN [gid |-> Number[value]]
    ELSE IF \E i \in DOMAIN rows : rows[i].name = value /\ rows[i].ok
    THEN [gid |-> First(rows, LAMBDA r : r.name = value /\ r.ok).gid]
    ELSE IF value = "root" THEN [gid |-> 0] ELSE Error("group")

\* user[:group] against the image's own files; no value is root.
ResolveUser(u) ==
    IF u.user = "" /\ u.group = "none" THEN Root
    ELSE IF u.user = "" \/ u.group \in {"", "a:b"} THEN Error("malformed")
    ELSE LET account == ResolveUserPart(u.user, ParsePasswd(accounts.passwd))
             group == IF u.group = "none" THEN [gid |-> 0] ELSE ResolveGroupPart(u.group, accounts.group)
         IN  IF Failed(account) THEN account
             ELSE IF Failed(group) THEN group
             ELSE IF u.group = "none" THEN account ELSE [account EXCEPT !.gid = group.gid]

\* HOME is set from the account unless the image sets it.
WithHome(env, account) ==
    IF account.home # "none" /\ "HOME" \notin Range(Keys(env))
    THEN Append(env, [key |-> "HOME", value |-> account.home, bare |-> FALSE]) ELSE env

PlanChild ==
    /\ read # None /\ ~Failed(read) /\ child = None
    /\ child' = LET account == ResolveUser(read.user) IN
                IF Failed(account) THEN account
                ELSE [env |-> WithHome(ChildEnv(read.env), account), account |-> account]
    /\ UNCHANGED <<image, accounts, disk, read>>

Init ==
    /\ image \in [env : Envs, overrides : Envs, user : Users, length : Bodies]
    /\ accounts \in [passwd : Passwds, group : Groups]
    /\ disk = None /\ read = None /\ child = None
Next == Publish \/ ReadConfig \/ PlanChild
Spec == Init /\ [][Next]_vars

-----------------------------------------------------------------------------

\* A framed document is within the cap and fills whole sectors, and a child that is
\* started has an account (encode_frame, resolve_user).
TypeOK ==
    /\ disk = None \/ Failed(disk) \/ (disk.length \in 1..Cap /\ (Len(disk.cells) + Header) % Align = 0)
    /\ child = None \/ Failed(child) \/ child.account.uid \in Nat

\* What the host publishes the guest reads, for every document up to the cap:
\* the two ends count the header, the cap and the padding alike.
PublishedIsRead == read # None => read = RenderInitConfig

Everything == image.env \o image.overrides
LastOf(key) == Everything[CHOOSE i \in DOMAIN Everything : Everything[i].key = key
                                    /\ \A j \in i + 1..Len(Everything) : Everything[j].key # key]

\* The child's environment has each key of the image once, with the value
\* set last, although the keys are merged on the host and again in the guest.
EnvIsLastValue ==
    child # None /\ ~Failed(child) =>
        /\ Cardinality(Range(Keys(child.env))) = Len(child.env)
        /\ Range(Keys(Everything)) \subseteq Range(Keys(child.env))
        /\ \A i \in DOMAIN child.env :
             child.env[i].key \in Range(Keys(Everything)) =>
                child.env[i].value = IF LastOf(child.env[i].key).bare THEN "" ELSE LastOf(child.env[i].key).value

\* An entrypoint runs as root only if the image says so: no user, root, 0 or
\* the name of an account that is root's.  A user that cannot be found ends
\* the boot and never runs as somebody else.
RootIsAskedFor ==
    child # None /\ ~Failed(child) /\ child.account.uid = 0 =>
        \/ image.user.user \in {"", "root", "0"}
        \/ \E i \in DOMAIN accounts.passwd : accounts.passwd[i].name = image.user.user /\ accounts.passwd[i].uid = 0

=============================================================================
