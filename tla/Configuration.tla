------------------------------- MODULE Configuration ------------------------
(***************************************************************************)
(* From the text of a specification to what a machine boots with: layers,  *)
(* validation, editing, forwards, shares, VmConfig, resize, cloud-init and *)
(* its seed, the guest's config document, and the host's own key pair and  *)
(* programs.  The parts share no variables; a behaviour is one of a single *)
(* part, chosen in Init (compare Artifacts).                               *)
(***************************************************************************)
EXTENDS Naturals, Sequences, FiniteSets, TLC

CONSTANTS
    Parts,                          \* the parts to run
    User, File,                     \* interchangeable users, and texts of a file
    Nil,
    MaxResizeBoots,                 \* boots beside the resizes
    MaxSeedKeys, MaxSeedWrites,     \* host keys of the guest, writes of the user
    MaxCalls,                       \* calls for the key pair
    MaxDoctorRuns                   \* runs of doctor

VARIABLE component                                  \* the part that runs
\* The variables of that part, in the order its module declares them; the rest are Off.
VARIABLES v1, v2, v3, v4, v5, v6, v7, v8, v9, v10, v11, v12, v13, v14, v15, v16, v17

vars == <<component, v1, v2, v3, v4, v5, v6, v7, v8, v9, v10, v11, v12, v13, v14, v15, v16, v17>>

Off == "off"
Blank16 == v17 = Off
Spare16 == <<v17>>
Blank13 == v14 = Off /\ v15 = Off /\ v16 = Off /\ Blank16
Spare13 == <<v14, v15, v16, Spare16>>
Blank10 == v11 = Off /\ v12 = Off /\ v13 = Off /\ Blank13
Spare10 == <<v11, v12, v13, Spare13>>
Blank9 == v10 = Off /\ Blank10
Spare9 == <<v10, Spare10>>
Blank7 == v8 = Off /\ v9 = Off /\ Blank9
Spare7 == <<v8, v9, Spare9>>
Blank6 == v7 = Off /\ Blank7
Spare6 == <<v7, Spare7>>
Blank5 == v6 = Off /\ Blank6
Spare5 == <<v6, Spare6>>

Symmetry == Permutations(User) \cup Permutations(File)

\* One leaf of each kind.
At(d, n) == [dir |-> d, name |-> n]
Patch(c, s) == [clear |-> c, set |-> s]
LayersDefault ==
    [image |-> <<At("rel", "ubuntu")>>, cpus |-> <<At("none", "two")>>, tap |-> <<>>, data |-> <<>>, keys |-> <<>>]
LayersLocal == {At("machine", "ubuntu"), At("cwd", "disk"), At("abs", "disk")}
LayersAction ==
    { Patch({}, <<>>), Patch({}, [image |-> <<At("rel", "ubuntu")>>]),
      Patch({}, [image |-> <<At("rel", "disk")>>, data |-> <<At("rel", "action")>>]),
      Patch({}, [cpus |-> <<At("none", "four")>>, keys |-> <<At("rel", "action")>>]),
      Patch({"keys"}, [tap |-> <<At("none", "tap0")>>]), Patch({"tap", "data"}, [keys |-> <<At("home", "key")>>]),
      Patch({}, [data |-> <<At("user", "key")>>]), Patch({"data"}, [data |-> <<At("rel", "action")>>]) }
LayersFile ==
    { Patch({}, [data |-> <<At("rel", "file")>>]), Patch({"tap", "keys"}, [image |-> <<At("abs", "disk")>>]),
      Patch({"tap"}, [keys |-> <<At("rel", "file")>>, tap |-> <<At("none", "tap1")>>]) }
LayersGlobal ==
    { Patch({}, <<>>), Patch({}, [keys |-> <<At("rel", "global")>>, tap |-> <<At("none", "tap2")>>]),
      Patch({"keys"}, [data |-> <<At("rel", "global")>>, cpus |-> <<At("none", "eight")>>]) }

\* The layers a specification is put together from.
Spc == INSTANCE SpecLayers WITH
    Plain <- {"image", "cpus"}, Optional <- {"tap", "data"}, Vector <- {"keys"}, PathLeaf <- {"data", "keys"},
    Default <- LayersDefault, ActionPatch <- LayersAction, FilePatch <- LayersFile, GlobalPatch <- LayersGlobal,
    CatalogName <- {"ubuntu"}, LocalImage <- LayersLocal, MaxList <- 2, None <- Nil,
    global <- v1, file <- v2, saved <- v3, present <- v4, pinned <- v5, touched <- v6

\* Documents whose bodies can imitate the end of a part, and key files with blank lines, broken lines and one
\* key under two comments.
X == [mark |-> "x"]
E == [mark |-> "end"]
Key(d, n) == [data |-> d, note |-> n]
Text(head, body) == [utf8 |-> TRUE, head |-> head, body |-> body]
Binary == [utf8 |-> FALSE, head |-> "config", body |-> <<X>>]
NetText(body) == [utf8 |-> TRUE, body |-> body]
BinaryNet == [utf8 |-> FALSE, body |-> <<X>>]
CloudDocs == {Text("config", <<X>>), Text("config", <<X, E, X>>), Text("script", <<X>>), Text("text", <<>>), Binary,
              Text("script", <<X, X, X, X>>)}
CloudNets == {NetText(<<>>), NetText(<<X, E>>), NetText(<<X>>), BinaryNet, NetText(<<X, X, X, X>>)}
CloudKeyFiles == {<<Key("p", "b"), [blank |-> 1], Key("q", "a")>>, <<[blank |-> 1]>>, <<[junk |-> 1]>>,
                  <<Key("own", "b"), Key("p", "a"), Key("q", "a"), Key("p", "b")>>, <<Key("q", "a"), Key("own", "a")>>}
CloudInline == {Key("p", "b"), Key("own", "a"), [blank |-> 1], [junk |-> 1], Key("r", "a")}

\* The rendering of the seed.
Cloud == INSTANCE CloudInit WITH
    Docs <- CloudDocs, Nets <- CloudNets, KeyFiles <- CloudKeyFiles, InlineKeys <- CloudInline, MaxFile <- 3,
    MaxInline <- 2, MaxKeyFile <- 3, MaxKeys <- 4,
    in <- v1, pc <- v2, part <- v3, net <- v4, keys <- v5, out <- v6

\* One deviation at a time in the other leaves.
ValidDocs == {Text("config", <<X>>), Text("text", <<X>>), Text("config", <<X, X, X>>)}
ValidNets == {NetText(<<X>>), BinaryNet, NetText(<<X, X, X>>)}
ValidKeyFiles == {<<[blank |-> 1], [junk |-> 1]>>, <<Key("p", "a"), [blank |-> 1], Key("q", "a")>>}
ValidInline == {Key("p", "a"), [junk |-> 1]}
Leaves ==
    [badPath |-> "none", arch |-> "none", image |-> "name", urlOk |-> TRUE, fileOk |-> TRUE, ociOk |-> TRUE,
     explicit |-> FALSE, inCatalog |-> TRUE, cpus |-> 1, cpusMax |-> 2, memory |-> 1, memoryMax |-> 2, disk |-> 1,
     base |-> 1, hostCpus |-> 1, userOk |-> TRUE, tap |-> "ok", mounts |-> "ok", password |-> "none", pwauth |-> FALSE,
     binary |-> "none", firmware |-> "none", overlayOk |-> TRUE]
ValidRests ==
    {Leaves, [Leaves EXCEPT !.badPath = "mount.host"], [Leaves EXCEPT !.arch = "other"], [Leaves EXCEPT !.arch = "host", !.cpus = 2]}
      \cup {[Leaves EXCEPT !.image = i] : i \in {"empty", "home", "pinned", "pinned_oci", "local", "oci", "oci_short", "url"}}
      \cup {[Leaves EXCEPT !.image = "local", !.fileOk = FALSE], [Leaves EXCEPT !.image = "url", !.urlOk = FALSE],
            [Leaves EXCEPT !.inCatalog = FALSE], [Leaves EXCEPT !.image = "oci_short", !.ociOk = FALSE, !.explicit = TRUE],
            [Leaves EXCEPT !.image = "oci_short", !.ociOk = FALSE, !.inCatalog = FALSE]}
      \cup {[Leaves EXCEPT !.cpus = 0], [Leaves EXCEPT !.cpus = 3], [Leaves EXCEPT !.memory = 0], [Leaves EXCEPT !.memory = 3],
            [Leaves EXCEPT !.base = 2], [Leaves EXCEPT !.userOk = FALSE], [Leaves EXCEPT !.overlayOk = FALSE],
            [Leaves EXCEPT !.image = "oci", !.password = "ok"], [Leaves EXCEPT !.image = "oci_short", !.pwauth = TRUE]}
      \cup {[Leaves EXCEPT !.tap = t] : t \in {"unset", "gone"}} \cup {[Leaves EXCEPT !.mounts = m] : m \in {"layout", "missing"}}
      \cup {[Leaves EXCEPT !.password = w] : w \in {"ok", "empty", "long", "control"}}
      \cup {[Leaves EXCEPT !.binary = b] : b \in {"ok", "missing", "noexec"}} \cup {[Leaves EXCEPT !.firmware = f] : f \in {"ok", "dir"}}

\* The rules of a load, beside the rendering.
Valid == INSTANCE SpecValidation WITH
    Docs <- ValidDocs, Nets <- ValidNets, KeyFiles <- ValidKeyFiles, InlineKeys <- ValidInline, MaxFile <- 2,
    MaxInline <- 1, MaxKeyFile <- 3, MaxKeys <- 4, Rests <- ValidRests, MinMemory <- 1,
    in <- v1, pc <- v2, part <- v3, net <- v4, keys <- v5, out <- v6, rest <- v7, verdict <- v8, warned <- v9

\* Two users in their editors.
Edits == INSTANCE EditSession WITH
    Edit <- User, Good <- {"original", "a", "b"}, Bad <- {"typo"}, Original <- "original", None <- Nil,
    running <- v1, lock <- v2, spec <- v3, candidate <- v4, pc <- v5, typed <- v6, read <- v7, unlocked <- v8,
    alone <- v9, killed <- v10

Loopback == <<":", ":", "1">>
PortOf(w) == CASE w = "0" -> 0 [] w = "1" -> 1 [] w = "2" -> 2 [] w = "3" -> 3
ForwardFronts ==
    { <<>>, <<"udp", ":">>, <<"127.0.0.1", ":">>, Loopback \o <<":">>, <<"[">> \o Loopback \o <<"]", ":">>, <<"sctp", ":">>,
      <<"[", "127.0.0.1", "]", ":">>, <<":">> }
ForwardRanges == {<<<<"1", "-", "2">>, <<"1", "-", "2">>>>, <<<<"2", "-", "1">>, <<"2">>>>, <<<<"0">>, <<"2">>>>, <<<<"2", "-", "3">>, <<"1", "-", "2">>>>, <<<<>>, <<"2">>>>,
                  <<<<"2">>, <<"0">>>>, <<<<"1", "-", "2">>, <<"2">>>>, <<<<"2">>, <<"2">>>>}
Forward(front, r) == front \o r[1] \o <<":">> \o r[2]
ForwardTexts == {Forward(f, <<<<"1">>, <<"2">>>>) : f \in ForwardFronts} \cup {Forward(f, r) : f \in {<<>>}, r \in ForwardRanges}
      \cup {Forward(<<"127.0.0.1", ":">>, <<<<"1", "-", "2">>, <<"1", "-", "2">>>>)} \cup {<<"1">>}

\* Port forwards, from their text to the arguments of passt.
Fwd == INSTANCE PortForwards WITH
    Number <- {"0", "1", "2", "3"}, PortOf <- PortOf, MaxPort <- 2, V4 <- {"127.0.0.1"}, V6 <- {Loopback},
    Texts <- ForwardTexts, MaxForwards <- 2, None <- Nil,
    mode <- v1, forward <- v2, status <- v3, applied <- v4, argv <- v5, refused <- v6

\* A host with /a, /a/x, /b and /b/x.
HostNode(k, o, m, i) == [kind |-> k, owner |-> o, mode |-> m, id |-> i, target |-> <<>>]
HostDirs(i) ==
    {HostNode("dir", o, m, i) : o \in {"me", "root", "other"}, m \in {"private", "open"}}
      \cup {HostNode("dir", "root", "sticky", i), HostNode("dir", "me", "sticky", i)}
HostLink(p) == [kind |-> "link", owner |-> "me", mode |-> "private", id |-> "link", target |-> p]
Missing == HostNode("absent", "me", "private", "none")
A == <<"a">>
AX == <<"a", "x">>
BX == <<"b", "x">>
HostTree(a, ax, bx) ==
    LET all == A :> a @@ AX :> ax @@ <<"b">> :> HostNode("dir", "me", "private", "b") @@ BX :> bx
    IN [p \in {q \in DOMAIN all : all[q] # Missing} |-> all[p]]
HostTrees ==
    {HostTree(a, ax, bx) : a \in HostDirs("a"), ax \in HostDirs("ax") \cup {Missing, HostNode("file", "me", "private", "ax")},
                           bx \in {HostNode("dir", "me", "private", "bx"), HostLink(AX), HostLink(A)}}
Mount(h, c, g, t) == [host |-> h, canonical |-> c, guest |-> g, tag |-> t]
OneMount ==
    {Mount(h, TRUE, g, t) : h \in {A, AX, BX}, g \in {<<"g">>, <<"g", "h">>}, t \in {Nil, [share |-> 1], [share |-> 9]}}
      \cup {Mount(BX, FALSE, <<"k">>, Nil), Mount(A, TRUE, <<>>, Nil)}
MountLists == {<<>>} \cup {<<m>> : m \in OneMount} \cup {<<m, n>> : m, n \in OneMount}

\* Up to two shared directories.
Shares == INSTANCE Mounts WITH
    Trees <- HostTrees, MountLists <- MountLists, GoodTag <- {[share |-> 0], [share |-> 1]}, MaxMounts <- 2,
    None <- Nil,
    tree <- v1, mounts <- v2, phase <- v3, refusal <- v4, checked <- v5, shared <- v6, replaced <- v7

\* Every boot policy, and overlays of each member that Firestone owns; J gives the names of JSON's parts.
J == INSTANCE VmConfig WITH Inputs <- {}, Nets <- {}, Limit <- 0, in <- v1, installed <- v2, pc <- v3, why <- v4,
    published <- v5, captured <- v6, changed <- v7
One(k, v) == J!Obj([x \in {k} |-> v])
RootDisk(extra) == J!Obj(J!With([path |-> J!Str("disk.qcow2"), backing_files |-> J!Bool(TRUE)], extra))
SeedDisk(extra) == J!Obj(J!With([path |-> J!Str("seed.img"), readonly |-> J!Bool(TRUE)], extra))
Nic(f) == J!Arr(<<J!Obj(J!With([mac |-> J!Str("mac")], f))>>)
Tap == [tap |-> J!Str("tap0")]
Passt == [vhost_user |-> J!Bool(TRUE), vhost_socket |-> J!Str("net.sock")]
VmOverlays ==
    {J!Absent, One("rng", J!Null), One("watchdog", J!Bool(TRUE)), One("x", J!Obj([a |-> J!Null, b |-> J!Num(1)]))}
      \cup {One("memory", o) : o \in {J!Null, One("size", J!Num(2)), One("shared", J!Bool(FALSE)), One("shared", J!Null),
               One("hugepages", J!Bool(TRUE)), One("hotplug_size", J!Num(1)), One("hotplug_size", J!Null)}}
      \cup {One("payload", o) : o \in {J!Str("z"), One("kernel", J!Str("z")), One("kernel", J!Null), One("firmware", J!Str("z")),
               One("cmdline", J!Str("z")), One("initramfs", J!Str("z"))}}
      \cup {One("disks", J!Arr(s)) : s \in {<<>>, <<RootDisk(J!NoKeys), SeedDisk(J!NoKeys), J!Obj([path |-> J!Str("more.img")])>>,
               <<SeedDisk(J!NoKeys), RootDisk(J!NoKeys)>>, <<RootDisk([readonly |-> J!Bool(TRUE)]), SeedDisk(J!NoKeys)>>,
               <<RootDisk([readonly |-> J!Bool(FALSE)]), SeedDisk([vhost_user |-> J!Bool(FALSE)])>>,
               <<RootDisk(J!NoKeys), SeedDisk([backing_files |-> J!Bool(TRUE)])>>}}
      \cup {One("net", o) : o \in {J!Null, Nic(Tap), Nic(Passt), Nic(J!With(Tap, [ip |-> J!Str("ip")])),
               Nic(J!With(Tap, [vhost_user |-> J!Bool(FALSE)])), Nic(J!With(Passt, [ip |-> J!Str("ip")]))}}
      \cup {One("fs", o) : o \in {J!Null, J!Arr(<<J!Obj([tag |-> J!Str("home")])>>), J!Arr(<<>>)}}
VmPlain ==
    [oci |-> FALSE, firmware |-> "auto", arch |-> "x86_64", catalog |-> "none", customOk |-> TRUE, net |-> "passt",
     fs |-> FALSE, cpus |-> 2, cpusMax |-> 0, mem |-> 1, memMax |-> 0, overlay |-> J!Absent]
VmBoots ==
    {[VmPlain EXCEPT !.oci = o, !.firmware = f, !.arch = a, !.catalog = c, !.customOk = k, !.overlay = v] :
       o \in BOOLEAN, f \in {"auto", "rhf", "edk2", "custom"}, a \in {"x86_64", "aarch64"}, c \in {"none", "rhf", "edk2"},
       k \in BOOLEAN, v \in {J!Absent, One("payload", One("firmware", J!Str("z")))}}
VmMachines ==
    {[VmPlain EXCEPT !.net = n, !.fs = f, !.cpusMax = c, !.memMax = m, !.overlay = v] :
       n \in {"none", "passt", "tap"}, f \in BOOLEAN, c \in {0, 3}, m \in {0, 2}, v \in VmOverlays}
VmInputs == VmBoots \cup VmMachines

\* The VmConfig of a start.
Vm == INSTANCE VmConfig WITH
    Inputs <- VmInputs, Nets <- {"none", "passt", "tap"}, Limit <- 3,
    in <- v1, installed <- v2, pc <- v3, why <- v4, published <- v5, captured <- v6, changed <- v7

\* Two users who resize a machine.
Size == INSTANCE Resize WITH
    User <- User, Limit <- 3, MaxBoots <- MaxResizeBoots, MaxEdits <- 1, MaxFaults <- 1,
    spec <- v1, published <- v2, status <- v3, lock <- v4, live <- v5, boot <- v6, cmd <- v7, edited <- v8,
    across <- v9, overlap <- v10, rejected <- v11, edits <- v12, faults <- v13

\* The seed image over starts, edits and restores.
Sd == INSTANCE Seed WITH
    Texts <- {"a", "b"}, FileTexts <- File, NetTexts <- {"b"}, MaxKeys <- MaxSeedKeys, MaxWrites <- MaxSeedWrites,
    kind <- v1, spec <- v2, file <- v3, copy <- v4, image <- v5, iid <- v6, trust <- v7, disk <- v8, nkeys <- v9,
    snap <- v10, pc <- v11, asked <- v12, up <- v13

Env(k, v) == [key |-> k, value |-> v, bare |-> FALSE]
BareEnv(k) == [key |-> k, value |-> "", bare |-> TRUE]
GuestEnvs == {<<>>, <<Env("A", "1"), Env("B", "1"), Env("A", "2")>>, <<BareEnv("A"), Env("HOME", "x")>>, <<Env("B", "2"), BareEnv("B")>>}
Account(n, u, g) == [name |-> n, uid |-> u, gid |-> g, home |-> n, ok |-> TRUE]
GuestPasswds == {<<>>, <<Account("root", 0, 0), Account("web", 7, 1)>>, <<Account("root", 1, 1), Account("1", 7, 7)>>,
                 <<[Account("web", 0, 0) EXCEPT !.ok = FALSE], Account("toor", 0, 0), Account("web", 1, 7)>>}
GuestGroups == {<<>>, <<[Account("web", 0, 0) EXCEPT !.ok = FALSE], Account("web", 0, 7)>>}
GuestUsers == {[user |-> u, group |-> g] : u \in {"", "root", "web", "toor", "0", "1", "7"}, g \in {"none", "", "a:b", "web", "root", "1"}}

\* The config document of an OCI guest.
Guest == INSTANCE GuestConfig WITH
    Envs <- GuestEnvs, Passwds <- GuestPasswds, Groups <- GuestGroups, Users <- GuestUsers,
    Bodies <- {1, 2, 3, 6, 7}, Header <- 2, Cap <- 6, Align <- 4,
    image <- v1, accounts <- v2, disk <- v3, read <- v4, child <- v5

\* The key pair of the host.
Ssh == INSTANCE SshIdentity WITH
    Proc <- {"p1", "p2"}, Orphans <- FALSE, PowerCuts <- FALSE, MaxCalls <- MaxCalls, MaxUser <- 2,
    pc <- v1, res <- v2, calls <- v3, lock <- v4, dir <- v5, marker <- v6, priv <- v7, pub <- v8, mode <- v9,
    synced <- v10, other <- v11, keygen <- v12, seen <- v13, during <- v14, user <- v15, taken <- v16

\* The same where ssh-keygen outlives its caller and the host may lose power.
SshFaults == INSTANCE SshIdentity WITH
    Proc <- {"p1", "p2"}, Orphans <- TRUE, PowerCuts <- TRUE, MaxCalls <- 2, MaxUser <- 2,
    pc <- v1, res <- v2, calls <- v3, lock <- v4, dir <- v5, marker <- v6, priv <- v7, pub <- v8, mode <- v9,
    synced <- v10, other <- v11, keygen <- v12, seen <- v13, during <- v14, user <- v15, taken <- v16

\* doctor, with and without --fix.
Doc == INSTANCE Doctor WITH
    Runs <- MaxDoctorRuns,
    host <- v1, bin <- v2, exe <- v3, prof <- v4, loaded <- v5, staged <- v6, stale <- v7, n <- v8, fix <- v9,
    confirmed <- v10, pc <- v11, todo <- v12, failures <- v13, repaired <- v14, report <- v15, before <- v16,
    smooth <- v17

Init ==
    /\ component \in Parts
    /\ \/ component = "spec_layers" /\ Spc!Init /\ Blank6
       \/ component = "cloud_init" /\ Cloud!Init /\ Blank6
       \/ component = "spec_validation" /\ Valid!ValInit /\ Blank9
       \/ component = "edit_session" /\ Edits!Init /\ Blank10
       \/ component = "port_forwards" /\ Fwd!Init /\ Blank6
       \/ component = "mounts" /\ Shares!Init /\ Blank7
       \/ component = "vm_config" /\ Vm!Init /\ Blank7
       \/ component = "resize" /\ Size!Init /\ Blank13
       \/ component = "seed" /\ Sd!Init /\ Blank13
       \/ component = "guest_config" /\ Guest!Init /\ Blank5
       \/ component = "ssh_identity" /\ Ssh!Init /\ Blank16
       \/ component = "ssh_identity_faults" /\ SshFaults!Init /\ Blank16
       \/ component = "doctor" /\ Doc!Init

\* A step of one part: it runs, and nothing but its variables changes.
SpecLayersRuns == component = "spec_layers" /\ UNCHANGED <<component, Spare6>>
CloudInitRuns == component = "cloud_init" /\ UNCHANGED <<component, Spare6>>
SpecValidationRuns == component = "spec_validation" /\ UNCHANGED <<component, Spare9>>
EditSessionRuns == component = "edit_session" /\ UNCHANGED <<component, Spare10>>
PortForwardsRuns == component = "port_forwards" /\ UNCHANGED <<component, Spare6>>
MountsRuns == component = "mounts" /\ UNCHANGED <<component, Spare7>>
VmConfigRuns == component = "vm_config" /\ UNCHANGED <<component, Spare7>>
ResizeRuns == component = "resize" /\ UNCHANGED <<component, Spare13>>
SeedRuns == component = "seed" /\ UNCHANGED <<component, Spare13>>
GuestConfigRuns == component = "guest_config" /\ UNCHANGED <<component, Spare5>>
SshIdentityRuns == component = "ssh_identity" /\ UNCHANGED <<component, Spare16>>
SshIdentityFaultsRuns == component = "ssh_identity_faults" /\ UNCHANGED <<component, Spare16>>
DoctorRuns == component = "doctor" /\ UNCHANGED component

SpecLayersStep == SpecLayersRuns /\ Spc!Next
CloudInitStep == CloudInitRuns /\ Cloud!Next
SpecValidationStep == SpecValidationRuns /\ Valid!ValNext
EditSessionStep == EditSessionRuns /\ Edits!Next
PortForwardsStep == PortForwardsRuns /\ Fwd!Next
MountsStep == MountsRuns /\ Shares!Next
VmConfigStep == VmConfigRuns /\ Vm!Next
ResizeStep == ResizeRuns /\ Size!Next
SeedStep == SeedRuns /\ Sd!Next
GuestConfigStep == GuestConfigRuns /\ Guest!Next
SshIdentityStep == SshIdentityRuns /\ Ssh!Next
SshIdentityFaultsStep == SshIdentityFaultsRuns /\ SshFaults!Next
DoctorStep == DoctorRuns /\ Doc!Next

Next ==
    \/ SpecLayersStep \/ CloudInitStep \/ SpecValidationStep \/ EditSessionStep \/ PortForwardsStep
    \/ MountsStep \/ VmConfigStep \/ ResizeStep \/ SeedStep \/ GuestConfigStep \/ SshIdentityStep
    \/ SshIdentityFaultsStep \/ DoctorStep

Spec == Init /\ [][Next]_vars

-----------------------------------------------------------------------------
\* The types of every part, and what its stages imply of its files and answers.
TypesOK ==
    /\ component = "spec_layers" => Spc!TypeOK
    /\ component = "cloud_init" => Cloud!TypeOK
    /\ component = "spec_validation" => Valid!ValTypeOK
    /\ component = "edit_session" => Edits!TypeOK
    /\ component = "port_forwards" => Fwd!TypeOK
    /\ component = "mounts" => Shares!TypeOK
    /\ component = "vm_config" => Vm!TypeOK
    /\ component = "resize" => Size!TypeOK
    /\ component = "seed" => Sd!TypeOK
    /\ component = "guest_config" => Guest!TypeOK
    /\ component = "ssh_identity" => Ssh!TypeOK
    /\ component = "ssh_identity_faults" => SshFaults!TypeOK
    /\ component = "doctor" => Doc!TypeOK

\* A specification that was written is read back as it was, whatever the defaults have become,
\* and its relative paths keep meaning the directory they were written for (from_layers,
\* resolve_paths); the rules of the load and of the rendering agree in both directions, and
\* nothing in it is silently dropped (validate, refuse_cloud_init_on_oci); an edit under the
\* lock publishes its own user's text, and no candidate file is left (edit_candidate).
SpecificationIsKept ==
    /\ component = "spec_layers" => Spc!SavedIsKept /\ Spc!PathsAreAnchored
    /\ component = "spec_validation" => Valid!AcceptedRenders /\ Valid!RefusedFails /\ Valid!NothingIgnored
    /\ component = "edit_session" => Edits!LockedEditsAreOwn /\ Edits!NoCandidateLeft

\* The devices of a machine are those that were checked: a forward means after printing what
\* it meant before and what status calls applied is what passt was given; a shared directory
\* is the one whose ancestors were checked, under its own tag and no other's (PortForward,
\* canonical_host_path); a VmConfig has the payload, disks, network and shares Firestone
\* rendered whatever the overlay says, and a restore the devices and ceilings of its snapshot
\* (required_subset, vmconfig_differs_only_by_live_resize); a resize never asks a VMM for more than it was
\* booted with nor writes what the VMM refused (resize).
DevicesAreChecked ==
    /\ component = "port_forwards" => Fwd!RoundTrip /\ Fwd!AppliedIsReal /\ Fwd!NotPendingIsApplied
    /\ component = "mounts" => Shares!SharedIsChecked /\ Shares!SharesAreDisjoint /\ Shares!TagsAreUnique
    /\ component = "vm_config" =>
         /\ Vm!OwnedIsKept /\ Vm!SparedIsAccepted /\ Vm!OverlayIsApplied
         /\ Vm!PayloadIsInstalled /\ Vm!RestoresTheSame /\ Vm!ResizedWithMaxima
    /\ component = "resize" => Size!HeadroomIsBooted /\ Size!AlignedAlone /\ Size!StoppedWritesUnbooted

\* A guest is provisioned from what its start read, and the instance id tells exactly whether
\* that changed; it gets every key once, and ssh to it is not refused for a host key that its
\* provisioning replaced, wherever a start was killed between the files it writes
\* (instance_id, publish_rendered_seed, invalidate_known_hosts_for_seed); an OCI guest reads
\* the document the host published and runs as root only where the image says so (build_config_disk,
\* resolve_user_part).
GuestIsProvisioned ==
    /\ component = "cloud_init" =>
         Cloud!IdIsEffective /\ Cloud!EveryKeyOnce /\ Cloud!DuplicatesAreStable /\ Cloud!UserFirst
    /\ component = "seed" => Sd!CopiesMatch /\ Sd!GuestReadsCurrent /\ Sd!TrustIsFreshUnlessRestored
    /\ component = "guest_config" => Guest!PublishedIsRead /\ Guest!EnvIsLastValue /\ Guest!RootIsAskedFor

\* A caller that was given the key pair finds both files of one generation, an interrupted
\* generation is recovered by the next call, and no file of the user's is removed or replaced,
\* whichever calls overlap and are killed (ensure_ssh_identity, rollback_generation); and what
\* doctor calls ok or fixed is so (run_doctor).
IdentityIsWhole ==
    /\ component = "ssh_identity" => Ssh!IdentityIsWhole /\ Ssh!InterruptedRecovers /\ Ssh!UsersFilesKept
    /\ component = "ssh_identity_faults" => SshFaults!UsersFilesKept
    /\ component = "doctor" => Doc!OkIsWell

\* What no step may do: change the root-owned helper without a confirmed --fix on a host where
\* AppArmor is what denies, leave unverified bytes under a dependency's name or call namespaces
\* usable that were not tested with the selected passt (doctor); change a recorded image
\* because a file appeared (with_pinned_image_ref).
NeverWithoutConsent ==
    [][/\ component = "doctor" => Doc!RootNeedsConsent /\ Doc!NeverUnverified /\ Doc!UsernsIsUsable
       /\ component = "spec_layers" => Spc!PinnedIsKept]_vars
=============================================================================
