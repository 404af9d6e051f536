----------------------------- MODULE ImageSource -----------------------------
(***************************************************************************)
(* Where an image comes from: how an argument is resolved to a source, how *)
(* the bytes are staged and verified, and what the sidecar then says of    *)
(* them.  Around the pull the world changes: the local file is written in  *)
(* place or replaced, the URL and its checksum manifest serve other        *)
(* versions, a connection breaks.  The store lock is held throughout, so   *)
(* pulls are one after another.                                            *)
(*                                                                         *)
(* Bytes are two blocks of one version each; a digest is the bytes.        *)
(***************************************************************************)
EXTENDS Naturals, Sequences, FiniteSets

CONSTANTS
    Version,        \* versions of content
    Qcow,           \* those whose first block has the qcow2 magic
    Infos,          \* what qemu-img may say of a qcow2 source
    Argument,       \* forms of an image argument
    MaxTick,        \* bound on the file system's clock
    MaxPulls,       \* bound on pulls
    None

VARIABLES
    clock,      \* the tick that stamps mtime and ctime
    file,       \* what the local name refers to
    remote,     \* the version the URL serves
    manifest,   \* the entries its checksum manifest has for the file name
    phase,      \* where the pull is
    src,        \* its resolved source
    body,       \* what it reads from: the blocks of the response
    staged,     \* the blocks in the partial
    stored,     \* sidecars, with the bytes of their base
    pulls,      \* pulls begun
    info,       \* what qemu-img says of the qcow2 versions
    seen        \* history: contents the opened file had since it was opened

vars == <<clock, file, remote, manifest, phase, src, body, staged, stored, pulls, info, seen>>
world == <<clock, file, remote, manifest, info>>

Whole(v) == <<v, v>>
NoSource == [at |-> "none"]

Init ==
    /\ clock = 1
    /\ file \in {[there |-> t, inode |-> 1, inodes |-> <<[blocks |-> Whole(v), stamp |-> 0]>>]
                 : t \in BOOLEAN, v \in Version}
    /\ remote \in Version /\ info \in Infos
    /\ manifest \in {{Whole(remote)}}
    /\ phase = "idle" /\ src = NoSource
    /\ body = <<>> /\ staged = <<>>
    /\ stored = {} /\ pulls = 0 /\ seen = {}

-----------------------------------------------------------------------------
(* The world.  The local file matters while a pull has it open, the URL at *)
(* times a pull is about to read it.                                       *)

\* A pull is between the opening of a local file and its second look at it.
Copying == src.at = "local" /\ phase \in {"resolved", "cache", "stage", "stream"}

Quiet == UNCHANGED <<info, phase, src, body, staged, stored, pulls>>

\* Another program writes one block of the file in place.
WriteBlock(n, v) ==
    /\ Copying /\ v # file.inodes[file.inode].blocks[n]
    /\ file' = [file EXCEPT !.inodes[file.inode].blocks[n] = v,
                           !.inodes[file.inode].stamp = clock]
    /\ seen' = IF src.inode = file.inode
                 THEN seen \cup {file'.inodes[file.inode].blocks} ELSE seen
    /\ UNCHANGED <<clock, remote, manifest>> /\ Quiet

\* Or renames another file over it, which also stamps the inode that goes.
Replace(v) ==
    /\ Copying /\ file.inode < 2
    /\ file' = [there |-> TRUE, inode |-> 2,
                inodes |-> <<[file.inodes[1] EXCEPT !.stamp = clock],
                             [blocks |-> Whole(v), stamp |-> clock]>>]
    /\ UNCHANGED <<clock, remote, manifest, seen>> /\ Quiet

Tick ==
    /\ Copying /\ clock < MaxTick
    /\ clock' = clock + 1
    /\ UNCHANGED <<file, remote, manifest, seen>> /\ Quiet

\* The publisher moves on; the manifest follows, or lists both, or lags.
MoveOn(v) ==
    /\ phase \in {"resolved", "stage"} /\ src.at = "https" /\ v # remote
    /\ remote' = v
    /\ manifest' \in {{}, {Whole(v)}, {Whole(remote)}, {Whole(v), Whole(remote)}}
    /\ UNCHANGED <<clock, file, seen>> /\ Quiet

-----------------------------------------------------------------------------
(* resolve: a local file first, then a strict HTTPS URL, an OCI reference, *)
(* and the catalog last.                                                   *)

\* local_source_snapshot, from the opened descriptor.
Snapshot(inode) == [inode |-> inode, stamp |-> file.inodes[inode].stamp]

\* try_open_local_source: the name is opened once, without following a link.
Opens(a) == a.form \in {"path", "name"} /\ a.local /\ file.there

Error(kind) == [at |-> "error", kind |-> kind]

\* --sha256 goes with a URL only.
Resolved(a) ==
    IF Opens(a)
    THEN IF a.sha # None THEN Error("usage")
         ELSE [at |-> "local", ref |-> "path", url |-> None, declared |-> None,
               expect |-> "none", digest |-> None, inode |-> file.inode, snapshot |-> Snapshot(file.inode),
               fresh |-> file.inodes[file.inode].stamp = clock]
    ELSE CASE a.form = "url" ->
                [at |-> "https", ref |-> "url", url |-> "url", declared |-> None,
                 expect |-> IF a.sha = None THEN "none" ELSE "digest", digest |-> a.sha]
           [] a.form = "oci" /\ a.sha = None -> [at |-> "oci", ref |-> "oci", url |-> None]
           [] a.form = "bad_oci" -> Error("invalid_spec")
           [] a.form = "name" /\ a.sha = None ->
                [at |-> "https", ref |-> "catalog", url |-> "url", declared |-> a.declared,
                 expect |-> a.expect, digest |-> a.pin]
           [] a.form \in {"absent", "path"} /\ a.sha = None -> Error("not_found")
           [] OTHER -> Error("usage")

\* resolve_persisted, of the canonical reference that a resolution recorded: a
\* name in the catalog and an OCI reference never reach the file system.
ResolvedPersisted(ref) ==
    CASE ref = "url" -> "https"
      [] ref = "path" -> IF file.there THEN "local" ELSE "not_found"
      [] ref = "oci" -> "oci"
      [] ref = "catalog" -> "https"

Fail == phase' = "idle" /\ seen' = {} /\ src' = NoSource /\ body' = <<>> /\ staged' = <<>>

Resolve(a) ==
    /\ phase = "idle" /\ pulls < MaxPulls
    /\ pulls' = pulls + 1
    /\ IF Resolved(a).at = "error"
        THEN Fail
        ELSE /\ phase' = "resolved" /\ src' = Resolved(a)
             /\ seen' = IF src'.at = "local" THEN {file.inodes[file.inode].blocks} ELSE {}
             /\ UNCHANGED <<body, staged>>
    /\ UNCHANGED <<world, stored>>

\* classify and hand over to pull_oci_locked, which has a module of its own.
HandOverOci ==
    /\ phase = "resolved" /\ src.at = "oci"
    /\ Fail
    /\ UNCHANGED <<world, stored, pulls>>

-----------------------------------------------------------------------------
(* pull_locked.                                                            *)

\* parse_checksum_manifest: exactly one digest for the name (image_filename).
ParseChecksumManifest(entries) ==
    IF Cardinality(entries) = 1 THEN CHOOSE d \in entries : TRUE ELSE None

\* resolve_expected_checksum, fetch_manifest.
ExpectedChecksum ==
    /\ phase = "resolved" /\ src.at # "oci"
    /\ IF src.expect = "manifest" /\ ParseChecksumManifest(manifest) = None
        THEN Fail
        ELSE /\ UNCHANGED seen
             /\ src' = IF src.expect = "manifest"
                         THEN [src EXCEPT !.digest = ParseChecksumManifest(manifest)] ELSE src
             /\ phase' = "cache"
             /\ UNCHANGED <<body, staged>>
    /\ UNCHANGED <<world, stored, pulls>>

\* metadata_matches_source with require_verification.
Matches(s) == s.ref = src.ref /\ s.url = src.url /\ s.verified = src.digest
                /\ (src.declared # None => s.format = src.declared)

\* find_exact_cache: only a source with a verifier may skip the download.
ExactCache ==
    /\ phase = "cache"
    /\ IF src.digest # None /\ \E s \in stored : Matches(s)
        THEN Fail
        ELSE phase' = "stage" /\ UNCHANGED <<src, body, staged, seen>>
    /\ UNCHANGED <<world, stored, pulls>>

\* stage_source: the descriptor, or one GET whose response may be cut short or
\* carry no Content-Length.
Respond ==
    /\ phase = "stage" /\ src.at = "https"
    /\ \E sent \in 0..2, length \in {2, None} :
        /\ body' = SubSeq(Whole(remote), 1, sent)
        /\ src' = [at |-> "https", ref |-> src.ref, url |-> src.url, declared |-> src.declared,
                   expect |-> src.expect, digest |-> src.digest, length |-> length]
    /\ phase' = "stream"
    /\ UNCHANGED <<world, staged, stored, pulls, seen>>

OpenLocal ==
    /\ phase = "stage" /\ src.at = "local"
    /\ phase' = "stream"
    /\ UNCHANGED <<world, src, body, staged, stored, pulls, seen>>

\* stream_source reads on until the end of its input, a local file through its
\* descriptor.
Input == IF src.at = "https" THEN body ELSE file.inodes[src.inode].blocks

\* Mutant: a short read is retried and its bytes are kept both times.
StreamBlockTwice ==
    /\ phase = "stream" /\ Len(staged) < Len(Input)
    /\ LET b == Input[Len(staged) + 1] IN
       \/ staged' = Append(staged, b)
       \/ staged' = staged \o <<b, b>>
    /\ UNCHANGED <<world, phase, src, body, stored, pulls, seen>>

StreamBlock ==
    /\ phase = "stream" /\ Len(staged) < Len(Input)
    /\ staged' = Append(staged, Input[Len(staged) + 1])
    /\ UNCHANGED <<world, phase, src, body, stored, pulls, seen>>

\* The declared length must be met exactly; a local file must be the one that
\* was opened, unchanged.
Reinspect ==
    IF src.at = "https" THEN src.length # None => Len(staged) = src.length
    ELSE src.snapshot = Snapshot(src.inode)

StreamEnd ==
    /\ phase = "stream" /\ Len(staged) = Len(Input)
    /\ IF Reinspect THEN phase' = "verify" /\ UNCHANGED <<src, body, staged, seen>> ELSE Fail
    /\ UNCHANGED <<world, stored, pulls>>

\* The magic of the first block tells raw from qcow2.
DetectedFormat == IF staged # <<>> /\ staged[1] \in Qcow THEN "qcow2" ELSE "raw"

\* Mutant: a digest from a manifest is recorded but not compared.
VerifyPinnedOnly ==
    /\ src.digest # None /\ src.expect = "digest" => staged = src.digest
    /\ src.declared # None => src.declared = DetectedFormat

\* verify_staged_source, then the declared format against the bytes.
VerifyStagedSource ==
    /\ src.digest # None => staged = src.digest
    /\ src.declared # None => src.declared = DetectedFormat

\* stable_image_id: reference, URL, host architecture and digest.
Identity(s) == <<s.ref, s.url, s.bytes>>

\* validate_qcow2_structure, validate_base_info: clean, not corrupt (compat 0.10
\* has no such flag), and complete in itself: no data file, no backing file.
ValidateBaseInfo(i) ==
    /\ i.format = "qcow2"
    /\ i.dirty = "no"
    /\ i.corrupt = "no" \/ (i.corrupt = "absent" /\ i.compat = "0.10")
    /\ ~i.datafile /\ ~i.backing

\* A raw source is converted, so what qemu-img sees is always sound; a qcow2
\* source is stored as it came.
BaseInfo == IF DetectedFormat = "raw" THEN [format |-> "qcow2", dirty |-> "no", corrupt |-> "no",
                                            compat |-> "1.1", datafile |-> FALSE, backing |-> FALSE]
            ELSE info

\* ImageMetadata::validate of what a pull is about to write.
Sidecar == [ref |-> src.ref, url |-> src.url, bytes |-> staged, verified |-> src.digest,
            format |-> DetectedFormat, fresh |-> src.at = "local" /\ src.fresh,
            length |-> IF src.at = "https" THEN src.length ELSE 2,
            moment |-> seen = {staged}, alone |-> ~BaseInfo.backing /\ ~BaseInfo.datafile]

\* existing_identity: an image that is there keeps its bytes and gains the
\* verifier of this pull.
Publish ==
    /\ phase = "verify"
    /\ IF VerifyStagedSource /\ staged # <<>> /\ ValidateBaseInfo(BaseInfo)
        THEN LET old == {s \in stored : Identity(s) = Identity(Sidecar)} IN
             stored' = IF old = {} THEN stored \cup {Sidecar}
                       ELSE (stored \ old) \cup
                            {[s EXCEPT !.verified = IF src.digest = None THEN @ ELSE src.digest]
                             : s \in old}
        ELSE UNCHANGED stored
    /\ Fail
    /\ UNCHANGED <<world, pulls>>

\* Any other error: the partials go, nothing is published.
PullError ==
    /\ phase \in {"stage", "stream", "verify"}
    /\ Fail
    /\ UNCHANGED <<world, stored, pulls>>

-----------------------------------------------------------------------------
Next ==
    \/ \E n \in 1..2, v \in Version : WriteBlock(n, v)
    \/ \E v \in Version : Replace(v) \/ MoveOn(v)
    \/ Tick
    \/ \E a \in Argument : Resolve(a)
    \/ HandOverOci \/ ExpectedChecksum \/ ExactCache \/ Respond \/ OpenLocal
    \/ StreamBlock \/ StreamEnd \/ Publish \/ PullError

Spec == Init /\ [][Next]_vars

-----------------------------------------------------------------------------
(* Properties.                                                             *)

\* The phases of a pull; a transfer and what is staged of it have two blocks at most, and
\* a local file is one inode at a time (pull_locked, stream_source).
TypeOK ==
    /\ clock \in 1..MaxTick /\ pulls \in 0..MaxPulls
    /\ phase \in {"idle", "resolved", "cache", "stage", "stream", "verify"}
    /\ \A i \in 1..file.inode : file.inodes[i].blocks \in [1..2 -> Version]
    /\ remote \in Version
    /\ src.at \in {"none", "local", "https", "oci"}
    /\ Len(staged) <= 2 /\ Len(body) <= 2

\* SPEC 8.3: a sidecar that names a verifier has bytes of exactly that digest,
\* also when the verifier was added by a later pull, and whichever version the
\* URL and the manifest served at the moments they were read.
VerifiedMeansVerified == \A s \in stored : s.verified # None => s.bytes = s.verified

\* A catalog image is never published unverified, whatever its manifest says at
\* the moment it is read: no entry for the name, one, or two that disagree.
CatalogIsVerified == \A s \in stored : s.ref = "catalog" => s.verified # None

\* A response that was cut short is published only where nothing could tell:
\* no Content-Length and no verifier.
TruncatedIsNoticed ==
    \A s \in stored : Len(s.bytes) < 2 => s.length = None /\ s.verified = None

\* The bytes of a local image are bytes the file had at one moment, never a mix
\* of two, while others write and replace it; unless it was last changed in the
\* very tick it was opened in, when its timestamps cannot tell.
LocalIsOneMoment ==
    \A s \in stored : s.ref = "path" /\ ~s.fresh => s.moment

\* Whatever is published reads nothing outside the store: a base has neither a
\* backing file nor a data file.
BasesStandAlone == \A s \in stored : s.alone

\* SPEC 8.2: what a resolution recorded resolves to the same source later, no
\* matter which files appeared or went, or to an error: a file never shadows a
\* catalog or registry reference.
PersistedIsStable ==
    phase = "resolved" => ResolvedPersisted(src.ref) \in {src.at, "not_found"}
=============================================================================
