--------------------------------- MODULE Seed ---------------------------------
(***************************************************************************)
(* The disk a guest is provisioned from and the host key the user trusts.  *)
(* Every start renders the inputs again, publishes the inspection files    *)
(* and the image, drops known_hosts when the instance id is a new one, and *)
(* writes state.json last.  A start may die between any two of these.  The *)
(* guest makes new host keys for an instance it has not seen; ssh accepts  *)
(* the first key it meets and refuses another.  A rendering is named by    *)
(* the inputs it was made from: equal inputs, equal bytes, equal id (see   *)
(* module CloudInit).                                                      *)
(***************************************************************************)
EXTENDS Naturals, FiniteSets

CONSTANTS
    Texts,      \* what the specification may say
    FileTexts,  \* what the file it names may say
    NetTexts,   \* those with a network configuration
    MaxKeys,    \* bound on host keys a guest makes
    MaxWrites   \* bound on publications of the image

VARIABLES
    kind,       \* "cloud" or "oci", the image the machine boots
    spec, file, \* firestone.toml and the file it names
    copy,       \* the inspection files: of each the rendering it is from
    image,      \* seed.img or config.img: its rendering and how often written
    iid,        \* instance_id of state.json
    trust,      \* known_hosts: no key, or one
    disk,       \* the overlay: the instances its guest has seen, its host key
    nkeys,      \* host keys made so far
    snap,       \* the snapshot
    pc, asked,  \* the start under way and the inputs it read
    up          \* the machine runs

inputs == <<spec, file>>
guest == <<disk, nkeys>>
vars == <<kind, inputs, copy, image, iid, trust, guest, snap, pc, asked, up>>

NoSeed == <<"none", "none">>
NoKey == 0
NoDisk == [seen |-> {}, key |-> NoKey]
NoSnap == [spec |-> "none", disk |-> NoDisk]
Inputs == Texts \X FileTexts
Copies == {"meta-data", "user-data", "network-config"}

\* What the inputs render to; publish_rendered_seed removes a network-config
\* that is not configured.
CopyOf(f, c) == IF f = "network-config" /\ c[1] \notin NetTexts THEN NoSeed ELSE c

Init ==
    /\ kind \in {"cloud", "oci"} /\ spec \in Texts /\ file \in FileTexts
    /\ copy = [f \in Copies |-> NoSeed] /\ image = [of |-> NoSeed, writes |-> 0]
    /\ iid = NoSeed /\ trust = NoKey /\ disk = NoDisk /\ nkeys = 0 /\ snap = NoSnap
    /\ pc = "idle" /\ asked = NoSeed /\ up = FALSE

\* The user edits the specification or a file it names; a running machine
\* notices at its next start.
Edit(s, f) ==
    /\ <<s, f>> # inputs /\ (s = spec \/ f = file)
    /\ spec' = s /\ file' = f
    /\ UNCHANGED <<kind, copy, image, iid, trust, guest, snap, pc, asked, up>>

-----------------------------------------------------------------------------
(* publish_boot_input.                                                     *)

\* render_cloud_init_inner or render_init_config reads every input once.
Render ==
    /\ pc = "idle" /\ ~up /\ image.writes < MaxWrites /\ asked' = inputs
    /\ pc' = IF kind = "oci" THEN "config" ELSE "meta"
    /\ UNCHANGED <<kind, inputs, copy, image, iid, trust, guest, snap, up>>

Write(here, f, next) ==
    /\ pc = here /\ copy' = [copy EXCEPT ![f] = CopyOf(f, asked)] /\ pc' = next
    /\ UNCHANGED <<kind, inputs, image, iid, trust, guest, snap, asked, up>>

WriteMeta == Write("meta", "meta-data", "user")
WriteUser == Write("user", "user-data", "net")

WriteNet == Write("net", "network-config", "image")

\* publish_init_config: config.json, then config.img.
WriteConfig == Write("config", "user-data", "image")

\* atomic::write_stream_with_mode: whole or not at all.
WriteImage ==
    /\ pc = "image" /\ image' = [of |-> asked, writes |-> image.writes + 1]
    /\ pc' = IF kind = "oci" THEN "save" ELSE "trust"
    /\ UNCHANGED <<kind, inputs, copy, iid, trust, guest, snap, asked, up>>

\* Mutant: the new id is in state.json before known_hosts is gone, and the start
\* may die in between.
InvalidateLate ==
    /\ pc = "trust" /\ iid' = asked
    /\ \/ pc' = "save" /\ trust' = IF iid = asked THEN trust ELSE NoKey
       \/ pc' = "idle" /\ UNCHANGED trust
    /\ UNCHANGED <<kind, inputs, copy, image, guest, snap, asked, up>>

\* invalidate_known_hosts_for_seed.
Invalidate ==
    /\ pc = "trust" /\ pc' = "save" /\ trust' = IF iid = asked THEN trust ELSE NoKey
    /\ UNCHANGED <<kind, inputs, copy, image, iid, guest, snap, asked, up>>

\* launch_prepared: state.json says starting, and the new instance id.
Save ==
    /\ pc = "save" /\ pc' = "launch" /\ iid' = asked
    /\ UNCHANGED <<kind, inputs, copy, image, trust, guest, snap, asked, up>>

\* The start dies, or one of its writes fails.
Dies ==
    /\ pc # "idle" /\ pc' = "idle"
    /\ UNCHANGED <<kind, inputs, copy, image, iid, trust, guest, snap, asked, up>>

-----------------------------------------------------------------------------
(* The guest, ssh and snapshots.                                           *)

\* The guest boots; cloud-init makes host keys for an instance this disk has
\* not seen (ssh_deletekeys).
Boot ==
    /\ pc = "launch" /\ pc' = "idle" /\ up' = TRUE
    /\ IF kind = "oci" \/ image.of \in disk.seen THEN UNCHANGED guest
       ELSE /\ nkeys < MaxKeys /\ nkeys' = nkeys + 1
            /\ disk' = [seen |-> disk.seen \cup {image.of}, key |-> nkeys']
    /\ UNCHANGED <<kind, inputs, copy, image, iid, trust, snap, asked>>

\* StrictHostKeyChecking=accept-new.
Connect ==
    /\ up /\ kind = "cloud" /\ trust = NoKey /\ trust' = disk.key
    /\ UNCHANGED <<kind, inputs, copy, image, iid, guest, snap, pc, asked, up>>

Stop ==
    /\ up /\ up' = FALSE
    /\ UNCHANGED <<kind, inputs, copy, image, iid, trust, guest, snap, pc, asked>>

\* capture_cold_snapshot, snapshot_restore: the disk and firestone.toml, neither
\* the file it names nor the instance id.
Snapshot ==
    /\ ~up /\ pc = "idle" /\ snap = NoSnap /\ snap' = [spec |-> spec, disk |-> disk]
    /\ UNCHANGED <<kind, inputs, copy, image, iid, trust, guest, pc, asked, up>>

Restore ==
    /\ ~up /\ pc = "idle" /\ snap # NoSnap /\ disk' = snap.disk /\ spec' = snap.spec
    /\ UNCHANGED <<kind, file, copy, image, iid, trust, nkeys, snap, pc, asked, up>>

Next ==
    \/ \E s \in Texts, f \in FileTexts : Edit(s, f)
    \/ Render \/ WriteMeta \/ WriteUser \/ WriteNet \/ WriteConfig \/ WriteImage \/ Invalidate
    \/ Save \/ Dies \/ Boot \/ Connect \/ Stop \/ Snapshot \/ Restore

Spec == Init /\ [][Next]_vars

-----------------------------------------------------------------------------

\* The files, the image, the recorded instance id and the trust file have contents somebody
\* rendered; an OCI machine has no trust file (publish_boot_input).
TypeOK ==
    /\ spec \in Texts /\ file \in FileTexts /\ up \in BOOLEAN
    /\ copy \in [Copies -> Inputs \cup {NoSeed}] /\ image.of \in Inputs \cup {NoSeed}
    /\ image.writes \in 0..MaxWrites /\ {iid, asked} \subseteq Inputs \cup {NoSeed}
    /\ disk.seen \subseteq Inputs /\ {trust, disk.key, nkeys} \subseteq 0..MaxKeys
    /\ kind = "oci" => trust = NoKey /\ pc # "trust"
    /\ pc \in {"idle", "meta", "user", "net", "config", "image", "trust", "save", "launch"}

\* ssh to a running guest is never refused for its key, as long as no snapshot can bring
\* an older disk back: known_hosts is empty or has the key the guest has
\* (invalidate_known_hosts_for_seed: "removes the trust file before the caller durably
\* publishes the new instance id").  A restore may bring back a disk whose instance has
\* been seen, under an id that is not a new one, and its key meets the newer trust file.
TrustIsFreshUnlessRestored ==
    up /\ kind = "cloud" /\ snap = NoSnap => trust \in {NoKey, disk.key}

\* A running machine was provisioned from what its start read, and state.json
\* names exactly that, whatever earlier starts left behind.
GuestReadsCurrent == up => image.of = asked /\ iid = asked

\* The inspection files beside the image are the bytes in it, the absent one
\* included (publish_rendered_seed, remove_optional_file).
CopiesMatch ==
    up => \A f \in IF kind = "oci" THEN {"user-data"} ELSE Copies : copy[f] = CopyOf(f, image.of)

==============================================================================
