------------------------------ MODULE Catalog -------------------------------
(***************************************************************************)
(* The image catalog and the machines made from it.  A catalog is the      *)
(* built-in document, the user's optional catalog.toml and the files that  *)
(* [images].catalog lists, merged in that order and validated as a whole.  *)
(* Every command loads it anew; a server loads it once.  A machine records *)
(* the canonical reference at its creation, the stored image at its first  *)
(* start, and its specification may name another image afterwards.  The    *)
(* user edits the catalog files at any time.                               *)
(***************************************************************************)
EXTENDS Naturals, Sequences, SequencesExt, FiniteSets

CONSTANTS
    BuiltIn,    \* the entries of the built-in document
    ConfigFiles, ExtraFiles,    \* what catalog.toml and the listed file may be
    References, \* what a user may write: a distro and a selector
    Host,       \* the host's architecture
    Macs,       \* MAC addresses a specification may name
    MaxEdits    \* writes of catalog files

VARIABLES
    config, extra, edits,   \* the catalog files; how often they were written
    served,     \* the entries the server loaded, or none
    store,      \* canonical references whose image is in the store
    machine     \* status, spec and specMac, ref, pinned and mac; its disk; edited and made, the
                \* reference it was created with, are history

vars == <<config, extra, edits, served, store, machine>>

None == [distro |-> "", selector |-> ""]
NoMac == "none"
NotServing == {}   \* a catalog has the built-in entries at least

-----------------------------------------------------------------------------
(* Documents.                                                              *)

Canonical(e) == [distro |-> e.distro, selector |-> e.version]
Selectors(e) == {e.version} \cup ToSet(e.aliases)

\* convert_arch_source: HTTPS, and one way to verify what it serves.
SourceOk(s) ==
    /\ s.url = "https"
    /\ \/ s.checksum_url = "https" /\ s.sha256 = "none"
       \/ s.checksum_url = "none" /\ s.sha256 = "hex" /\ s.alg = "sha256"

\* is_reference_component, as an abstraction of the characters.
ComponentOk(name) == name # "bad name"

\* validate_architecture_name.
Architectures == {"x86_64", "aarch64"}

\* convert_entry.
EntryOk(e) ==
    /\ \A name \in {e.distro} \cup Selectors(e) : ComponentOk(name)
    /\ Cardinality(ToSet(e.aliases)) = Len(e.aliases)
    /\ DOMAIN e.arch # {} /\ DOMAIN e.arch \subseteq Architectures
    /\ \A a \in DOMAIN e.arch : SourceOk(e.arch[a])

\* parse_document.
ParseOk(image) ==
    /\ \A i \in DOMAIN image : EntryOk(image[i])
    /\ \A i, j \in DOMAIN image : Canonical(image[i]) = Canonical(image[j]) => i = j

\* optional_catalog_file_is_absent: a dangling link is not an absent file.
FileOk(file, optional) ==
    \/ file.kind = "document" /\ ParseOk(file.image)
    \/ file.kind = "absent" /\ optional

\* merge_catalog_file: an entry replaces the one with its canonical reference.
Merge(entries, file) ==
    {e \in entries : \A f \in ToSet(file.image) : Canonical(f) # Canonical(e)} \cup ToSet(file.image)

\* validate_reference_names.
NamesDistinct(entries) ==
    \A e, f \in entries : e # f /\ e.distro = f.distro => Selectors(e) \cap Selectors(f) = {}

\* validate_defaults.
OneDefault(entries) ==
    \A d \in {e.distro : e \in entries} : Cardinality({e \in entries : e.distro = d /\ e.default}) = 1

Merged == Merge(Merge(ToSet(BuiltIn), config), extra)

\* Catalog::load; the listed file is there unless nothing is listed.
Loads ==
    /\ FileOk(config, TRUE) /\ (extra.kind = "unlisted" \/ FileOk(extra, FALSE))
    /\ OneDefault(Merged) /\ NamesDistinct(Merged)

\* The catalogs that can answer now: a command's, and the server's.
InForce == (IF Loads THEN {Merged} ELSE {}) \cup (IF served # NotServing THEN {served} ELSE {})

-----------------------------------------------------------------------------
(* Lookups.                                                                *)

\* find.
Matches(entries, r) ==
    {e \in entries : e.distro = r.distro /\ (IF r.selector = "" THEN e.default ELSE r.selector \in Selectors(e))}
Knows(entries, r) == Matches(entries, r) # {}
Entry(entries, r) == CHOOSE e \in Matches(entries, r) : TRUE

\* resolve: the entry must have a source for this host.
Resolves(entries, r) == Knows(entries, r) /\ Host \in DOMAIN Entry(entries, r).arch

\* canonical_image_reference.
CanonicalOf(entries, r) == IF Knows(entries, r) THEN Canonical(Entry(entries, r)) ELSE r

\* validate_image for a catalog reference: the pinned one is not looked up.
ImageOk(entries, r, pinned) == (pinned # None /\ r = pinned) \/ Resolves(entries, r)

\* image_pending.
ImagePending(entries) ==
    machine.status = "running" /\ CanonicalOf(entries, machine.spec) # machine.ref

\* observable_drift of the page: image and MAC are what state.json records.
Drift(entries) ==
    ImagePending(entries)
    \/ (machine.status = "running" /\ machine.specMac # NoMac /\ machine.specMac # machine.mac)

-----------------------------------------------------------------------------
Init ==
    /\ config \in ConfigFiles /\ extra \in ExtraFiles /\ edits = 0
    /\ served = NotServing /\ store = {}
    /\ machine = [status |-> "none", spec |-> None, specMac |-> NoMac, ref |-> None, pinned |-> None,
                  mac |-> NoMac, disk |-> None, edited |-> FALSE, made |-> None]

EditCatalog ==
    /\ edits < MaxEdits /\ edits' = edits + 1
    /\ \/ \E f \in ConfigFiles : f # config /\ config' = f /\ UNCHANGED extra
       \/ \E f \in ExtraFiles : f # extra /\ extra' = f /\ UNCHANGED config
    /\ UNCHANGED <<served, store, machine>>

\* Command::Serve: load_user_configuration, once.
ServeStarts ==
    /\ served = NotServing /\ Loads /\ served' = Merged
    /\ UNCHANGED <<config, extra, edits, store, machine>>

Pull(entries, r) ==
    /\ Resolves(entries, r) /\ store' = store \cup {CanonicalOf(entries, r)}
    /\ UNCHANGED <<config, extra, edits, served, machine>>

\* created_state and initialize_machine: state.json and firestone.toml both get
\* the canonical reference.
Create(entries, r, mac) ==
    /\ machine.status = "none" /\ ImageOk(entries, r, None)
    /\ LET c == CanonicalOf(entries, r) IN
       machine' = [machine EXCEPT !.status = "created", !.spec = c, !.ref = c, !.made = c,
                                  !.specMac = mac, !.mac = mac]
    /\ UNCHANGED <<config, extra, edits, served, store>>

\* edit, set, PATCH: validated with the pin; state.json is not written.
Edit(entries, r, mac) ==
    /\ machine.status # "none" /\ ImageOk(entries, r, machine.pinned)
    /\ machine' = [machine EXCEPT !.spec = r, !.specMac = mac, !.edited = TRUE]
    /\ UNCHANGED <<config, extra, edits, served, store>>

\* canonical_pinned_reference, validate_pinned_image: the recorded reference
\* must still stand for the stored image's source.
PinHolds(entries) ==
    IF Knows(entries, machine.ref)
    THEN Resolves(entries, machine.ref) /\ CanonicalOf(entries, machine.ref) = machine.pinned
    ELSE machine.ref = machine.pinned

\* prepare_machine_image: the source is state.json's reference; a reference that
\* does not resolve falls back to an image already stored for it.
Prepared(entries) ==
    IF machine.pinned # None THEN (IF PinHolds(entries) THEN {machine.pinned} ELSE {})
    ELSE IF Resolves(entries, machine.ref) THEN {CanonicalOf(entries, machine.ref)}
    ELSE {machine.ref} \cap store

Startable(entries) == ImageOk(entries, machine.spec, machine.pinned) /\ Prepared(entries) # {}

\* start: the pin is written, then the overlay is made if there is none; the MAC
\* is allocated if state.json has none.
Start(entries) ==
    /\ machine.status \in {"created", "stopped"} /\ Startable(entries)
    /\ \E i \in Prepared(entries) :
          /\ store' = store \cup {i}
          /\ machine' = [machine EXCEPT !.status = "running", !.ref = i, !.pinned = i,
                                        !.disk = IF @ = None THEN i ELSE @,
                                        !.mac = IF @ = NoMac THEN "allocated" ELSE @]
    /\ UNCHANGED <<config, extra, edits, served>>

Stop ==
    /\ machine.status = "running" /\ machine' = [machine EXCEPT !.status = "stopped"]
    /\ UNCHANGED <<config, extra, edits, served, store>>

Next ==
    \/ EditCatalog \/ ServeStarts \/ Stop
    \/ \E entries \in InForce :
          \/ Start(entries)
          \/ \E r \in References : Pull(entries, r)
          \/ \E r \in References, mac \in Macs \cup {NoMac} : Create(entries, r, mac) \/ Edit(entries, r, mac)

Spec == Init /\ [][Next]_vars

-----------------------------------------------------------------------------
CanonicalReferences ==
    {Canonical(e) : e \in ToSet(BuiltIn) \cup UNION {ToSet(f.image) : f \in ConfigFiles \cup ExtraFiles}}

\* A machine names a reference of some catalog, and pins only images the catalogs know
\* (canonical_image_reference, created_state).
TypeOK ==
    /\ config \in ConfigFiles /\ extra \in ExtraFiles /\ edits \in 0..MaxEdits
    /\ store \subseteq CanonicalReferences
    /\ machine.status \in {"none", "created", "running", "stopped"}
    /\ machine.ref \in CanonicalReferences \cup {None} /\ machine.pinned \in CanonicalReferences \cup {None}
    /\ machine.spec \in References \cup CanonicalReferences \cup {None}
    /\ machine.mac \in Macs \cup {NoMac, "allocated"}

\* In every catalog in use a reference means one entry at most, and a distro's
\* name alone means one: what a name stands for does not depend on the order in
\* which find looks at the entries.
Unambiguous ==
    \A entries \in InForce :
        /\ \A r \in References \cup CanonicalReferences : Cardinality(Matches(entries, r)) <= 1
        /\ \A e \in entries : Knows(entries, [distro |-> e.distro, selector |-> ""])

\* Where several documents name an entry the last one's counts, whole: nothing
\* of the built-in entry is left under the user's (merge_catalog_file).
LatestWins ==
    Loads =>
        \A e \in Merged :
            LET named == SelectSeq(<<ToSet(BuiltIn), ToSet(config.image), ToSet(extra.image)>>,
                                   LAMBDA d : \E f \in d : Canonical(f) = Canonical(e))
            IN  e \in Last(named)

\* The user has not given the machine's name to another release, nor taken this
\* host's source from it.
NameKept(entries) ==
    Knows(entries, machine.ref) =>
        CanonicalOf(entries, machine.ref) = machine.ref /\ Resolves(entries, machine.ref)

\* A machine whose specification nobody edited, and which runs the release it was
\* created with, is not reported as drifted, whichever catalog answers and however the defaults and aliases moved since
\* its creation (image_pending, created_state).
NoFalseDrift ==
    machine.status = "running" /\ ~machine.edited /\ machine.disk = machine.made =>
        \A entries \in InForce : NameKept(entries) => ~Drift(entries)

\* A machine with a stored image starts while its entry is as it was or gone.
PinnedStarts ==
    machine.pinned # None /\ machine.spec = machine.pinned =>
        \A entries \in InForce : NameKept(entries) => Startable(entries)

\* What runs is what state.json names, on the disk that was made from it.
RunsItsDisk == machine.status = "running" => machine.disk = machine.ref /\ machine.pinned = machine.ref

=============================================================================
