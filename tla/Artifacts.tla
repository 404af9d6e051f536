--------------------------------- MODULE Artifacts --------------------------
(***************************************************************************)
(* What Firestone keeps on disk beside the machines: images, their sources *)
(* and names, OCI references, registries and layers, snapshots, and the    *)
(* prune that cleans up after all of them.  The parts share no variables:  *)
(* where two of them meet, the module of one has the steps of the other    *)
(* that matter to it.  A behaviour therefore is one of a single part,      *)
(* chosen in Init, and the run checks the parts one beside the other.      *)
(***************************************************************************)
EXTENDS Naturals, Sequences, FiniteSets, TLC, TLAPS

CONSTANTS
    Parts,                      \* the parts to run
    Proc, Image, Machine,       \* processes, images and machine names, each interchangeable
    Nil,
    MaxTick,                    \* the ticks of ImageSource's clock
    MaxTokens,                  \* the words of an OCI reference
    MaxMembers, MaxEntries,     \* the members of a layer, and of all of them
    MaxSnapSpec, MaxSnapGen,    \* the specifications and boots beside the snapshots
    PruneMachine,               \* the machine names of a prune
    MaxPruneOps                 \* the other commands during a prune

VARIABLE component                                  \* the part that runs
\* The variables of that part, in the order its module declares them; the rest are Off.
VARIABLES v1, v2, v3, v4, v5, v6, v7, v8, v9, v10, v11, v12, v13, v14, v15, v16, v17, v18, v19, v20, v21, v22, v23,
          v24, v25

vars == <<component, v1, v2, v3, v4, v5, v6, v7, v8, v9, v10, v11, v12, v13, v14, v15, v16, v17, v18, v19, v20, v21, v22, v23,
          v24, v25>>

Off == "off"
Blank21 == v22 = Off /\ v23 = Off /\ v24 = Off /\ v25 = Off
Spare21 == <<v22, v23, v24, v25>>
Blank12 == v13 = Off /\ v14 = Off /\ v15 = Off /\ v16 = Off /\ v17 = Off /\ v18 = Off /\ v19 = Off /\ v20 = Off /\ v21 = Off /\ Blank21
Spare12 == <<v13, v14, v15, v16, v17, v18, v19, v20, v21, Spare21>>
Blank8 == v9 = Off /\ v10 = Off /\ v11 = Off /\ v12 = Off /\ Blank12
Spare8 == <<v9, v10, v11, v12, Spare12>>
Blank6 == v7 = Off /\ v8 = Off /\ Blank8
Spare6 == <<v7, v8, Spare8>>
Blank4 == v5 = Off /\ v6 = Off /\ Blank6
Spare4 == <<v5, v6, Spare6>>

Symmetry == Permutations(Proc) \cup Permutations(Image) \cup Permutations(Machine)

StoreOps == {"pull", "prepare", "inspect", "rm_image", "force_rm_image", "prune", "prune_unreferenced", "prune_partials",
             "clone", "snapshot", "rm_machine"}
SnapOps == {"create", "restore", "force_restore", "remove", "start", "stop"}
SnapFaults == {"kill", "lost_reply", "shim_death"}

\* image.rs, and what the commands of store.rs do with it.
Store == INSTANCE ImageStoreProofs WITH
    Proc <- Proc, Id <- Image, Machine <- Machine, Ops <- StoreOps, MaxGen <- 2, None <- Nil,
    base <- v1, side <- v2, temp <- v3, gen <- v4, baseTomb <- v5, sideTomb <- v6, partial <- v7, holder <- v8,
    mlock <- v9, dir <- v10, stated <- v11, making <- v12, pin <- v13, disk <- v14, snaps <- v15, pc <- v16,
    op <- v17, on <- v18, to <- v19, target <- v20, at <- v21, todo <- v22, found <- v23, forced <- v24,
    broken <- v25

SourceInfo == [format |-> "qcow2", dirty |-> "no", corrupt |-> "absent", compat |-> "0.10", datafile |-> FALSE, backing |-> FALSE]
SourceInfos == {SourceInfo, [SourceInfo EXCEPT !.compat = "1.1", !.corrupt = "no", !.backing = TRUE]}
SourceArg(form, local, sha, expect, pin) ==
    [form |-> form, local |-> local, sha |-> sha, expect |-> expect, pin |-> pin,
     declared |-> IF form = "name" THEN "qcow2" ELSE Nil]
SourceArgs ==
    {SourceArg("path", TRUE, Nil, "none", Nil), SourceArg("path", TRUE, <<1, 1>>, "none", Nil),
     SourceArg("url", FALSE, Nil, "none", Nil), SourceArg("url", FALSE, <<1, 1>>, "none", Nil),
     SourceArg("oci", FALSE, Nil, "none", Nil), SourceArg("absent", FALSE, Nil, "none", Nil),
     SourceArg("name", TRUE, Nil, "manifest", Nil), SourceArg("name", FALSE, Nil, "digest", <<2, 2>>)}

\* The verification of what a pull brings, a raw and a qcow2 version.
Source == INSTANCE ImageSource WITH
    Version <- 1..2, Qcow <- {2}, Infos <- SourceInfos, Argument <- SourceArgs, MaxTick <- MaxTick, MaxPulls <- 2,
    None <- Nil,
    clock <- v1, file <- v2, remote <- v3, manifest <- v4, phase <- v5, src <- v6, body <- v7, staged <- v8,
    stored <- v9, pulls <- v10, info <- v11, seen <- v12

Https == [url |-> "https", checksum_url |-> "https", sha256 |-> "none", alg |-> "sha512"]
Digest == [url |-> "https", checksum_url |-> "none", sha256 |-> "hex", alg |-> "sha256"]
Release(d, v, al, def) ==
    [distro |-> d, version |-> v, aliases |-> al, default |-> def, arch |-> "x86_64" :> Https @@ "aarch64" :> Digest]
U1 == Release("u", "1", <<"lts">>, TRUE)
U2 == Release("u", "2", <<>>, FALSE)
M1 == Release("m", "1", <<>>, TRUE)
CatalogText(image) == [kind |-> "document", image |-> image]
CatalogFile(kind) == [kind |-> kind, image |-> <<>>]
M1From(s) == [M1 EXCEPT !.arch = "x86_64" :> s]
\* A distro of the user's, its name moved to another release, no source for this host, the default moved, an
\* alias moved, an alias that is a version, a second default.
CatalogConfigs ==
    {CatalogFile("absent"), CatalogFile("dangling"), CatalogText(<<M1>>),
     CatalogText(<<Release("m", "2", <<"1">>, TRUE)>>), CatalogText(<<[M1 EXCEPT !.arch = "aarch64" :> Digest]>>),
     CatalogText(<<[U1 EXCEPT !.default = FALSE], [U2 EXCEPT !.default = TRUE]>>),
     CatalogText(<<[U1 EXCEPT !.aliases = <<>>], [U2 EXCEPT !.aliases = <<"lts">>]>>),
     CatalogText(<<[U2 EXCEPT !.aliases = <<"1">>]>>), CatalogText(<<Release("u", "3", <<>>, TRUE)>>)}
CatalogExtras ==
    {CatalogFile("unlisted"), CatalogText(<<M1, M1>>), CatalogText(<<M1From([Https EXCEPT !.url = "http"])>>)}
CatalogNamed(d, s) == [distro |-> d, selector |-> s]
CatalogNames == {CatalogNamed("u", ""), CatalogNamed("u", "lts"), CatalogNamed("u", "1"), CatalogNamed("m", "")}
CatalogBuiltIn == <<U1, U2>>

\* The catalog and what a machine keeps of it.
Names == INSTANCE Catalog WITH
    BuiltIn <- CatalogBuiltIn, ConfigFiles <- CatalogConfigs, ExtraFiles <- CatalogExtras,
    References <- CatalogNames, Host <- "x86_64", Macs <- {"m1"}, MaxEdits <- 1,
    config <- v1, extra <- v2, edits <- v3, served <- v4, store <- v5, machine <- v6

ReferenceWords == {"nginx", "library", "latest", "localhost", "docker.io", "index.docker.io", "5000", "sha256"}

\* The text of an OCI reference.
Ref == INSTANCE OciReference WITH
    Component <- ReferenceWords \cup {"HEX"}, Host <- ReferenceWords, Dotted <- {"docker.io", "index.docker.io"},
    TagWord <- ReferenceWords \cup {"HEX", "Bad_"}, Port <- {"5000"}, Other <- {}, MaxTokens <- MaxTokens,
    None <- Nil,
    text <- v1, scheme <- v2, parsed <- v3, class <- v4

\* An index for two platforms, manifests good and bad.
Sha(i) == [alg |-> "sha256", of |-> i]
Blob(size) == [bytes |-> "blob", size |-> size]
Json(type, entries, config, ls) ==
    [bytes |-> "json", type |-> type, entries |-> entries, config |-> config, layers |-> ls, size |-> 1]
BlobLayer(i, size) == [digest |-> Sha(i), type |-> "oci.tar+gzip", size |-> size]
Plat(os, arch, variant, features) == [os |-> os, arch |-> arch, variant |-> variant, features |-> features]
Entry(digest, type, platform, artifact) ==
    [digest |-> digest, type |-> type, platform |-> platform, artifact |-> artifact]
Linux(arch) == Plat("linux", arch, Nil, Nil)
GoodLayers == <<BlobLayer("l1", 1), BlobLayer("l2", 2)>>
RegistryDoc ==
  [idx |-> Json("oci.index",
            <<Entry(Sha("att"), Nil, Linux("amd64"), "attestation"),
              Entry(Sha("win"), Nil, Plat("windows", "amd64", Nil, "win32k"), Nil),
              Entry(Sha("arm7"), Nil, Plat("linux", "arm64", "v7", Nil), Nil),
              Entry(Sha("amd"), "oci.manifest", Linux("amd64"), Nil),
              Entry(Sha("arm"), "oci.manifest", Plat("linux", "arm64", "v8", Nil), Nil)>>, Nil, <<>>),
   bare |-> Json(Nil, <<Entry(Sha("idx"), Nil, Linux("amd64"), Nil)>>, Nil, <<>>),
   deep |-> Json(Nil, <<Entry(Sha("bare"), Nil, Linux("amd64"), Nil)>>, Nil, <<>>),
   odd |-> Json("oci.index", <<Entry([alg |-> "sha512", of |-> "amd"], Nil, Linux("amd64"), Nil)>>, Nil, <<>>),
   amd |-> Json("oci.manifest", Nil, Sha("cfg"), GoodLayers),
   att |-> Json("oci.manifest", Nil, Sha("l1"), GoodLayers),
   arm |-> Json(Nil, Nil, Sha("cfg"), <<BlobLayer("l2", 2)>>),
   none |-> Json("oci.manifest", Nil, Sha("cfg"), <<>>),
   zstd |-> Json("docker.manifest", Nil, Sha("cfg"), <<[BlobLayer("l1", 1) EXCEPT !.type = "oci.tar+zstd"]>>),
   weak |-> Json("oci.manifest", Nil, [alg |-> "md5", of |-> "cfg"], GoodLayers),
   wide |-> Json("oci.manifest", Nil, Sha("cfg"), <<BlobLayer("l1", 1), BlobLayer("l1", 1), BlobLayer("l2", 2)>>),
   cfg |-> Json("html", Nil, Nil, <<>>),
   big |-> [bytes |-> "huge", size |-> 3, type |-> Nil, entries |-> Nil, config |-> Nil, layers |-> <<>>],
   l1 |-> Blob(1), l2 |-> Blob(2), l3 |-> Blob(2)]
RegistryReference ==
    {[registry |-> r, digest |-> Nil] : r \in {"docker.io", "local:5000"}}
        \cup {[registry |-> "ghcr.io", digest |-> Sha(i)] : i \in {"idx", "odd", "amd"}}
Login(key, a) == [key |-> key, auth |-> a]
RegistryConfig ==
    {[arch |-> a, insecure |-> s,
      auths |-> {Login("index.docker.io", "user:password"), Login("local:5000", "user:password"),
                 Login("ghcr.io", "malformed")}] : a \in {"amd64"}, s \in {{}, {"local:5000"}}}
      \cup {[arch |-> "arm64", insecure |-> s, auths |-> {}] : s \in {{}, {"index.docker.io"}}}
RegistryRealm == {[scheme |-> "https", host |-> "auth.example"], [scheme |-> "http", host |-> "auth.example"],
                  [scheme |-> "http", host |-> "local:5000"]}

\* One resolution against a registry.
Registry == INSTANCE OciRegistry WITH
    Doc <- RegistryDoc, Reference <- RegistryReference, Config <- RegistryConfig, Realm <- RegistryRealm,
    MaxLayers <- 2, None <- Nil,
    conf <- v1, ref <- v2, at <- v3, auth <- v4, realm <- v5, token <- v6, chain <- v7, target <- v8,
    manifest <- v9, layers <- v10, error <- v11, sent <- v12

\* s stands for sbin and s/i for the init in it, u and u/s for usr and usr/sbin.
LayersOrder == <<<<"s">>, <<"s", "i">>, <<"u">>, <<"u", "s">>>>
LayersTarget == {[abs |-> FALSE, to |-> <<"u", "s">>], [abs |-> TRUE, to |-> <<"u">>], [abs |-> FALSE, to |-> <<"..", "s">>]}

\* The merge of up to two layers.
Layers == INSTANCE OciLayers WITH
    Order <- LayersOrder, Target <- LayersTarget, Injected <- {<<"s", "i">>}, Long <- {<<"u">>}, MaxLayers <- 2,
    MaxMembers <- MaxMembers, MaxEntries <- MaxEntries, MaxHops <- 3, None <- Nil,
    layer <- v1, members <- v2, plan <- v3, read <- v4, outcome <- v5, result <- v6, lower <- v7, links <- v8

\* Snapshots of one machine, taken and restored by two processes.
Snap == INSTANCE SnapshotsProofs WITH
    Proc <- Proc, Name <- {"a"}, Ops <- SnapOps, Faults <- SnapFaults, MaxClock <- 2, MaxSpec <- MaxSnapSpec,
    MaxGen <- MaxSnapGen, None <- Nil,
    snaps <- v1, partial <- v2, tombs <- v3, marker <- v4, disk <- v5, clock <- v6, spec <- v7, conf <- v8,
    status <- v9, by <- v10, degraded <- v11, slock <- v12, mlock <- v13, shim <- v14, gen <- v15, plan <- v16,
    vm <- v17, mem <- v18, vmconf <- v19, pc <- v20, op <- v21, arg <- v22, cap <- v23, seen <- v24, cut <- v25

\* system prune beside the commands it races with.
Clean == INSTANCE Prune WITH
    Machine <- PruneMachine, MaxOps <- MaxPruneOps,
    status <- v1, rt <- v2, prev <- v3, part <- v4, snap <- v5, tomb <- v6, lock <- v7, slock <- v8, image <- v9,
    pc <- v10, opts <- v11, statuses <- v12, items <- v13, rows <- v14, total <- v15, counted <- v16, harm <- v17,
    quiet <- v18, used <- v19, expect <- v20, ops <- v21

Init ==
    /\ component \in Parts
    /\ \/ component = "image_store" /\ Store!Init
       \/ component = "image_source" /\ Source!Init /\ Blank12
       \/ component = "catalog" /\ Names!Init /\ Blank6
       \/ component = "oci_reference" /\ Ref!Init /\ Blank4
       \/ component = "oci_registry" /\ Registry!Init /\ Blank12
       \/ component = "oci_layers" /\ Layers!Init /\ Blank8
       \/ component = "snapshots" /\ Snap!Init
       \/ component = "prune" /\ Clean!Init /\ Blank21

\* A step of one part: it runs, and nothing but its variables changes.
ImageStoreRuns == component = "image_store" /\ UNCHANGED component
ImageSourceRuns == component = "image_source" /\ UNCHANGED <<component, Spare12>>
CatalogRuns == component = "catalog" /\ UNCHANGED <<component, Spare6>>
OciReferenceRuns == component = "oci_reference" /\ UNCHANGED <<component, Spare4>>
OciRegistryRuns == component = "oci_registry" /\ UNCHANGED <<component, Spare12>>
OciLayersRuns == component = "oci_layers" /\ UNCHANGED <<component, Spare8>>
SnapshotsRuns == component = "snapshots" /\ UNCHANGED component
PruneRuns == component = "prune" /\ UNCHANGED <<component, Spare21>>

ImageStoreStep == ImageStoreRuns /\ Store!Next
ImageSourceStep == ImageSourceRuns /\ Source!Next
CatalogStep == CatalogRuns /\ Names!Next
OciReferenceStep == OciReferenceRuns /\ Ref!Next
OciRegistryStep == OciRegistryRuns /\ Registry!Next
OciLayersStep == OciLayersRuns /\ Layers!Next
SnapshotsStep == SnapshotsRuns /\ Snap!Next
PruneStep == PruneRuns /\ Clean!Next

Next ==
    \/ ImageStoreStep \/ ImageSourceStep \/ CatalogStep \/ OciReferenceStep \/ OciRegistryStep \/
       OciLayersStep \/ SnapshotsStep \/ PruneStep

Spec == Init /\ [][Next]_vars

-----------------------------------------------------------------------------
\* The types of every part, and what its program counters imply of its locks and files.
TypesOK ==
    /\ component = "image_store" => Store!TypeOK
    /\ component = "image_source" => Source!TypeOK
    /\ component = "catalog" => Names!TypeOK
    /\ component = "oci_reference" => Ref!TypeOK
    /\ component = "oci_registry" => Registry!TypeOK
    /\ component = "oci_layers" => Layers!TypeOK
    /\ component = "snapshots" => Snap!TypeOK
    /\ component = "prune" => Clean!TypeOK

\* No disk, machine or snapshot loses the image under it, whatever pulls, removals, prunes,
\* clones and removals of machines overlap and wherever they are killed, unless somebody
\* forced it; a sidecar never lacks its base, and one generation of a source is the highest
\* (ImageStore::remove, prune and pull_locked, image_references).
ImagesAreBacked ==
    component = "image_store" =>
        Store!ReferencesAreBacked /\ Store!DisksAreBacked /\ Store!SidecarHasBase /\ Store!GenerationsDistinct

\* What is published was verified as its sidecar says, is the bytes of one moment, was not cut
\* short where that could be told and reads nothing outside the store, while the remote file,
\* the manifest and local files change between the reads (pull_locked, verify_staged_source,
\* local_source_snapshot); and a name keeps meaning one image, which is the one the machine runs on,
\* while catalogs and files come and go (Catalog::find, resolve_persisted).
SourcesAreVerified ==
    /\ component = "image_source" =>
         /\ Source!VerifiedMeansVerified /\ Source!CatalogIsVerified /\ Source!TruncatedIsNoticed
         /\ Source!LocalIsOneMoment /\ Source!BasesStandAlone /\ Source!PersistedIsStable
    /\ component = "catalog" =>
         Names!Unambiguous /\ Names!LatestWins /\ Names!RunsItsDisk /\ Names!PinnedStarts /\ Names!NoFalseDrift

\* An OCI image is the one its reference names: the reference survives printing and parsing,
\* what a registry sends is compared with the digest that asked for it, for this platform, with
\* bounded requests and no credentials over a channel they are not for, and the merged tree is
\* what applying the layers in order gives, with the injected init where PID 1 is looked up
\* (OciReference, resolve, fetch_layer, merge_layers, resolve_injection_path).
OciIsFaithful ==
    /\ component = "oci_reference" => Ref!RoundTrip /\ Ref!Spellings
    /\ component = "oci_registry" =>
         Registry!ResolvedIsVerified /\ Registry!SecretsStayPrivate /\ Registry!RequestsBounded /\ Registry!PlatformFits
    /\ component = "oci_layers" => Layers!MergedIsApplied /\ Layers!LinksAreKept /\ Layers!InitIsReached

\* A published snapshot is one instant, a pending restore names one that is still there beside
\* the disk it captured, and a VM never runs a memory on a disk it does not belong to, wherever
\* create, restore, rm, start, stop and the shim are interrupted (snapshot_create,
\* snapshot_restore, prepare_restore_launch).
SnapshotsFit ==
    component = "snapshots" =>
        Snap!SnapshotsCoherent /\ Snap!MarkerHasSnapshot /\ Snap!MarkerFitsDisk /\ Snap!MemoryFitsDisk

\* A prune reports the bytes it frees and, run dry, what it would do; it leaves the runtime
\* directory of a listed machine that came to run after the listing, and no snapshot in the
\* making is disturbed (system_prune, apply_prune_item).
PruneSpares ==
    component = "prune" =>
        Clean!BytesAreReal /\ Clean!DryRunParity /\ Clean!ListedRuntimeKept /\ Clean!SnapshotsUndisturbed

\* SPEC section 23.6: a launch that failed is retried with the same restore.  A restored VM
\* continues on the captured disk, never on one the guest has written to since.
ResumesCaptured == component = "snapshots" => Snap!ResumesCaptured

-----------------------------------------------------------------------------
(* What ImageStoreProofs and SnapshotsProofs prove of the parts holds of   *)
(* them here: a behaviour in which a part runs is one of its module.       *)

Distinct == Nil \notin Proc \cup Image \cup Machine \cup {"a", "shim"} /\ "shim" \notin Proc

StoreSelected == component = "image_store"
SnapshotsSelected == component = "snapshots"

\* No disk, machine or snapshot loses the image under it, for any number of processes, images
\* and machines (ImageStore::remove, prune and pull_locked, image_references).
THEOREM ImagesStayBacked ==
  ASSUME Distinct
  PROVE  Spec => []ImagesAreBacked
<1> DEFINE Sel == StoreSelected
<1>1. Init /\ Sel => Store!Init
  BY DEF Init, StoreSelected
<1>2. [Next]_vars /\ Sel => Sel' /\ [Store!Next]_(Store!vars)
  <2> SUFFICES ASSUME Sel, [Next]_vars PROVE Sel' /\ [Store!Next]_(Store!vars)
    OBVIOUS
  <2>1. CASE Next
    BY <2>1 DEF Next, StoreSelected, ImageStoreStep, ImageSourceStep, CatalogStep, OciReferenceStep,
            OciRegistryStep, OciLayersStep, SnapshotsStep, PruneStep, ImageStoreRuns, ImageSourceRuns, CatalogRuns,
            OciReferenceRuns, OciRegistryRuns, OciLayersRuns, SnapshotsRuns, PruneRuns
  <2>2. CASE UNCHANGED vars
    BY <2>2 DEF vars, StoreSelected, Store!vars, Store!store, Store!machines, Store!history, Store!local
  <2> QED BY <2>1, <2>2
<1>3. [Next]_vars /\ ~Sel => ~Sel'
  BY DEF Next, vars, StoreSelected, ImageStoreStep, ImageSourceStep, CatalogStep, OciReferenceStep,
         OciRegistryStep, OciLayersStep, SnapshotsStep, PruneStep, ImageStoreRuns, ImageSourceRuns, CatalogRuns,
         OciReferenceRuns, OciRegistryRuns, OciLayersRuns, SnapshotsRuns, PruneRuns
<1>4. Store!Parameters
  BY DEF Distinct, Store!Parameters, Store!AllOps, StoreOps
<1>5. Store!Spec => [](Store!TypeOK /\ Store!Standing)
  BY <1>4, Store!ImagesStayBacked
<1>6. Store!Standing => ImagesAreBacked
  BY DEF Store!Standing, ImagesAreBacked
<1>7. ~Sel => ImagesAreBacked
  BY DEF ImagesAreBacked, StoreSelected
<1>8. Spec /\ Sel => Store!Spec
  BY <1>1, <1>2, PTL DEF Spec, Store!Spec
<1>9. Spec /\ ~Sel => []~Sel
  BY <1>3, PTL DEF Spec
<1> QED BY <1>5, <1>6, <1>7, <1>8, <1>9, PTL

\* Snapshots are coherent and a restored VM has the memory of the disk it has open, for any
\* number of processes, specifications and boots (snapshot_create, snapshot_restore,
\* prepare_restore_launch).
THEOREM SnapshotsStayFit ==
  ASSUME Distinct
  PROVE  Spec => []SnapshotsFit
<1> DEFINE Sel == SnapshotsSelected
<1>1. Init /\ Sel => Snap!Init
  BY DEF Init, SnapshotsSelected
<1>2. [Next]_vars /\ Sel => Sel' /\ [Snap!Next]_(Snap!vars)
  <2> SUFFICES ASSUME Sel, [Next]_vars PROVE Sel' /\ [Snap!Next]_(Snap!vars)
    OBVIOUS
  <2>1. CASE Next
    BY <2>1 DEF Next, SnapshotsSelected, ImageStoreStep, ImageSourceStep, CatalogStep, OciReferenceStep,
            OciRegistryStep, OciLayersStep, SnapshotsStep, PruneStep, ImageStoreRuns, ImageSourceRuns, CatalogRuns,
            OciReferenceRuns, OciRegistryRuns, OciLayersRuns, SnapshotsRuns, PruneRuns
  <2>2. CASE UNCHANGED vars
    BY <2>2 DEF vars, SnapshotsSelected, Snap!vars, Snap!files, Snap!doc, Snap!state, Snap!locks, Snap!guest,
            Snap!super, Snap!local
  <2> QED BY <2>1, <2>2
<1>3. [Next]_vars /\ ~Sel => ~Sel'
  BY DEF Next, vars, SnapshotsSelected, ImageStoreStep, ImageSourceStep, CatalogStep, OciReferenceStep,
         OciRegistryStep, OciLayersStep, SnapshotsStep, PruneStep, ImageStoreRuns, ImageSourceRuns, CatalogRuns,
         OciReferenceRuns, OciRegistryRuns, OciLayersRuns, SnapshotsRuns, PruneRuns
<1>4. Snap!Parameters
  BY DEF Distinct, Snap!Parameters, Snap!Requests, Snap!Shim, SnapOps
<1>5. Snap!Spec => [](Snap!TypeOK /\ Snap!Coherent)
  BY <1>4, Snap!SnapshotsAreSafe
<1>6. Snap!Coherent => SnapshotsFit
  BY DEF Snap!Coherent, SnapshotsFit
<1>7. ~Sel => SnapshotsFit
  BY DEF SnapshotsFit, SnapshotsSelected
<1>8. Spec /\ Sel => Snap!Spec
  BY <1>1, <1>2, PTL DEF Spec, Snap!Spec
<1>9. Spec /\ ~Sel => []~Sel
  BY <1>3, PTL DEF Spec
<1> QED BY <1>5, <1>6, <1>7, <1>8, <1>9, PTL
=============================================================================
