----------------------------- MODULE SpecLayers -----------------------------
(***************************************************************************)
(* How a machine's specification comes about: the built-in defaults, the   *)
(* global configuration, the machine's firestone.toml and an action's      *)
(* patch are layered, paths are anchored, the image reference is           *)
(* classified, and the result is written back as a complete layer.         *)
(*                                                                         *)
(* A leaf is plain (always has a value), optional or a list.  Every leaf   *)
(* holds a sequence of values; a value names its directory, "rel" when the *)
(* text is relative.                                                       *)
(***************************************************************************)
EXTENDS Naturals, Sequences, SequencesExt

CONSTANTS
    Plain, Optional, Vector,  \* the leaves by kind
    PathLeaf,                 \* the leaves that hold paths
    Default,                  \* the built-in values
    ActionPatch, FilePatch, GlobalPatch,  \* layers that are written
    CatalogName,              \* image names the catalog knows
    LocalImage,               \* the paths where a local image file may be
    MaxList,                  \* bound on a list
    None

Leaf == Plain \cup Optional \cup Vector

VARIABLES
    global,   \* [defaults] of config.toml
    file,     \* the layer in firestone.toml
    saved,    \* the specification that was last written there whole
    present,  \* the local image files there are
    pinned,   \* the reference whose image state.json records
    touched   \* the leaves the last write named

vars == <<global, file, saved, present, pinned, touched>>

Empty == [clear |-> {}, set |-> <<>>]
Error == [error |-> TRUE]
Failed(x) == "error" \in DOMAIN x

-----------------------------------------------------------------------------

\* A layer that clears a leaf does not set it.
Validate(p) == p.clear \cap DOMAIN p.set = {}

\* A list that is set replaces the earlier one or extends it.
MergeVector(old, new, merge) == IF merge = "replace" THEN new ELSE old \o new

\* Clears first, then the values the layer sets.
ApplyTo(p, spec, merge) ==
    LET cleared == [l \in Leaf |-> IF l \in p.clear THEN <<>> ELSE spec[l]]
    IN  [l \in Leaf |->
            CASE l \in DOMAIN p.set /\ l \in Vector -> MergeVector(cleared[l], p.set[l], merge)
              [] l \in DOMAIN p.set /\ l \notin Vector -> p.set[l]
              [] OTHER -> cleared[l]]

\* A complete layer: every value, every list, a clear for every absent one.
Persisted(spec) ==
    LET absent == {l \in Optional : spec[l] = <<>>}
    IN  [clear |-> absent, set |-> [l \in Leaf \ absent |-> spec[l]]]

FromLayers(machine, patch) ==
    ApplyTo(patch, ApplyTo(machine, ApplyTo(global, Default, "append"), "replace"), "append")

\* The text ~user cannot be expanded.
Resolvable(v) == v.dir # "user"
ResolveInputPath(v, base) ==
    [v EXCEPT !.dir = CASE @ = "rel" -> base [] @ = "home" -> "homedir" [] OTHER -> @]
ResolveAll(values, base) == [i \in DOMAIN values |-> ResolveInputPath(values[i], base)]

\* An action's patch is anchored where the action was given.
ResolvePatchPaths(p, base) ==
    [p EXCEPT !.set = [l \in DOMAIN p.set |-> IF l \in PathLeaf THEN ResolveAll(p.set[l], base) ELSE p.set[l]]]

\* Everything else is relative to the machine.
ResolveSpecPaths(spec) == [l \in Leaf |-> IF l \in PathLeaf THEN ResolveAll(spec[l], "machine") ELSE spec[l]]

\* The pin, then a local file, then the catalog.
ValidateImage(v, base) ==
    LET candidate == ResolveInputPath(v, base)
    IN  CASE pinned = v -> v
          [] pinned # v /\ candidate \in present -> candidate
          [] pinned # v /\ candidate \notin present /\ v.dir = "rel" /\ v.name \in CatalogName -> v
          [] OTHER -> Error

\* MachineSpec::load: parse, anchor the patch, layer, anchor the rest, check.
Load(machine, patch) ==
    LET anchored == ResolvePatchPaths(patch, "cwd")
        spec == FromLayers(machine, anchored)
        image == ValidateImage(spec["image"][1], IF "image" \in DOMAIN patch.set THEN "cwd" ELSE "machine")
    IN  IF ~Validate(machine) \/ ~Validate(patch) \/ ~Validate(global) THEN Error
        ELSE IF \E l \in PathLeaf : \E i \in DOMAIN spec[l] : ~Resolvable(spec[l][i]) THEN Error
        ELSE IF Failed(image) THEN Error
        ELSE [ResolveSpecPaths(spec) EXCEPT !["image"] = <<image>>]

-----------------------------------------------------------------------------

Init ==
    /\ global = Empty /\ file = None /\ saved = None /\ pinned = None /\ touched = {}
    /\ present = {f \in LocalImage : f.dir = "abs"}

Named(patch) == patch.clear \cup DOMAIN patch.set

\* A load that fails writes nothing.
Write(machine, patch) ==
    LET spec == Load(machine, patch)
    IN  /\ ~Failed(spec) /\ \A l \in Vector : Len(spec[l]) <= MaxList
        /\ saved' = spec
        /\ file' = Persisted(spec)
        /\ touched' = Named(patch)

\* create: the action's patch over the defaults.
Create(patch) ==
    /\ file = None
    /\ Write(Empty, patch)
    /\ UNCHANGED <<global, present, pinned>>

\* set, PATCH: the action's patch over the file.
Change(patch) ==
    /\ file # None
    /\ Write(file, patch)
    /\ UNCHANGED <<global, present, pinned>>

\* edit: the text is kept as it was typed once it loads.
Edit(text) ==
    /\ file # None
    /\ ~Failed(Load(text, Empty)) /\ \A l \in Vector : Len(Load(text, Empty)[l]) <= MaxList
    /\ file' = text
    /\ saved' = None
    /\ touched' = Leaf
    /\ UNCHANGED <<global, present, pinned>>

\* The first start records the image.
Pin ==
    /\ saved # None /\ pinned = None
    /\ pinned' = saved["image"][1]
    /\ touched' = {}
    /\ UNCHANGED <<global, file, saved, present>>

EditGlobal(p) ==
    /\ global # p /\ Validate(p)
    /\ global' = p
    /\ touched' = {}
    /\ UNCHANGED <<file, saved, present, pinned>>

\* Files come and go, also in the machine directory.
HostChange(f) ==
    /\ present' = IF f \in present THEN present \ {f} ELSE present \cup {f}
    /\ touched' = {}
    /\ UNCHANGED <<global, file, saved, pinned>>

Next ==
    \/ \E p \in ActionPatch : Create(p) \/ Change(p)
    \/ \E p \in FilePatch : Edit(p)
    \/ Pin
    \/ \E p \in GlobalPatch : EditGlobal(p)
    \/ \E f \in LocalImage : HostChange(f)

Spec == Init /\ [][Next]_vars

-----------------------------------------------------------------------------

\* A whole specification has every plain leaf and no relative path.
TypeOK ==
    saved # None =>
        /\ DOMAIN saved = Leaf
        /\ \A l \in Plain : Len(saved[l]) = 1
        /\ \A l \in Optional : Len(saved[l]) <= 1
        /\ \A l \in PathLeaf : \A i \in DOMAIN saved[l] : saved[l][i].dir \in {"abs", "cwd", "machine", "homedir"}

\* A specification that was written whole is read back as it was, whatever the
\* global configuration says by then: no default reaches into an existing
\* machine (From<&MachineSpec> for MachineSpecPatch, from_layers).
SavedIsKept == saved # None => ResolveSpecPaths(FromLayers(file, Empty)) = saved

\* A relative path means the directory it was written for: the one of the
\* action for a patch, the machine's for firestone.toml and the defaults, and
\* keeps meaning it over later loads.  Names tell the layers apart.
PathsAreAnchored ==
    saved # None =>
        \A l \in PathLeaf : \A i \in DOMAIN saved[l] :
            /\ saved[l][i].name = "action" => saved[l][i].dir = "cwd"
            /\ saved[l][i].name \in {"file", "global"} => saved[l][i].dir = "machine"

\* Once an image is recorded for the reference, files that appear do not
\* change it: only a write that names the image does (with_pinned_image_ref).
PinnedIsKept ==
    saved # None /\ saved' # None /\ pinned = saved["image"][1] /\ "image" \notin touched' =>
        saved'["image"] = saved["image"]

=============================================================================
