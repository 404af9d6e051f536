------------------------------- MODULE Mounts -------------------------------
(***************************************************************************)
(* Shared directories: the layout checks when a specification is loaded,   *)
(* the checks of the host directories when a launch is planned, and the    *)
(* moment virtiofsd opens the path it was given.  Other users keep working *)
(* on the host meanwhile.                                                  *)
(*                                                                         *)
(* A path is a sequence of names from the root, which belongs to root and  *)
(* is protected.  A node is absent, a directory, a file or a symbolic      *)
(* link; id is the directory itself, whatever its name becomes.            *)
(***************************************************************************)
EXTENDS Naturals, Sequences, FiniteSets, SequencesExt

CONSTANTS
    Trees,      \* host trees: functions from paths to nodes
    MountLists, \* lists of mounts a user configures
    GoodTag,    \* texts that are tags
    MaxMounts,  \* MAX_VIRTIOFS_MOUNTS
    None

VARIABLES
    tree,      \* the host
    mounts,    \* [[mount]]
    phase,     \* "new", "loaded", "planned", "shared" or "refused"
    refusal,   \* what refused it
    checked,   \* the directories the plan looked at
    shared,    \* the directories the sidecars opened
    replaced   \* whether another user has replaced a node

vars == <<tree, mounts, phase, refusal, checked, shared, replaced>>

Init ==
    /\ tree \in Trees /\ mounts \in MountLists
    /\ phase = "new" /\ refusal = None /\ checked = <<>> /\ shared = <<>> /\ replaced = FALSE

-----------------------------------------------------------------------------

IsDir(t, p) == p \in DOMAIN t /\ t[p].kind = "dir"
IsLink(t, p) == p \in DOMAIN t /\ t[p].kind = "link"
Ancestors(p) == {SubSeq(p, 1, n) : n \in 1..(Len(p) - 1)}

\* The path after its symbolic links: a link stands for its target.
Canonicalize(t, p) ==
    LET linked == {n \in 1..Len(p) : IsLink(t, SubSeq(p, 1, n))}
        first == CHOOSE n \in linked : \A m \in linked : n <= m
    IN  IF linked = {} THEN p ELSE t[SubSeq(p, 1, first)].target \o SubSeq(p, first + 1, Len(p))

Exists(t, p) ==
    LET c == Canonicalize(t, p)
    IN  c \in DOMAIN t /\ \A a \in Ancestors(c) : IsDir(t, a)

PathsOverlap(p, q) == IsPrefix(p, q) \/ IsPrefix(q, p)

\* The name a mount has in the guest; unnamed ones are numbered from zero.
EffectiveTag(i) == IF mounts[i].tag = None THEN [share |-> i - 1] ELSE mounts[i].tag

\* One to 36 safe bytes.
ValidateTag(t) == t \in GoodTag

\* Absolute, in UTF-8, within the limits, without ".", ".." or "//".
ValidateSpelling(m) == m.canonical

\* Good and distinct tags, canonical spellings, no guest root, disjoint paths.
MountShapes ==
    /\ Len(mounts) <= MaxMounts
    /\ \A i \in DOMAIN mounts :
           /\ ValidateTag(EffectiveTag(i)) /\ ValidateSpelling(mounts[i])
           /\ mounts[i].guest # <<>>
           /\ \A j \in 1..(i - 1) :
                  /\ EffectiveTag(j) # EffectiveTag(i)
                  /\ ~PathsOverlap(mounts[j].host, mounts[i].host)
                  /\ ~PathsOverlap(mounts[j].guest, mounts[i].guest)

\* No write access for the group or the world.
Protected(n) == n.mode = "private"

ValidateHostLeaf(n) == n.owner = "me" /\ Protected(n)

\* Not writable for others, or root's and sticky.
ValidateHostAncestor(n) ==
    n.owner \in {"me", "root"} /\ (Protected(n) \/ (n.owner = "root" /\ n.mode = "sticky"))

\* The path is canonical, every component a directory, and none can be
\* renamed by another user.
CanonicalHostPath(p) ==
    /\ Exists(tree, p) /\ Canonicalize(tree, p) = p /\ p # <<>>
    /\ IsDir(tree, p) /\ \A a \in Ancestors(p) : IsDir(tree, a)
    /\ ValidateHostLeaf(tree[p]) /\ \A a \in Ancestors(p) : ValidateHostAncestor(tree[a])

\* Mutant: no reason is kept.
RefuseSilently(why) == phase' = "refused" /\ UNCHANGED <<refusal, checked>>

Refuse(why) == phase' = "refused" /\ refusal' = why /\ UNCHANGED checked

\* validate_mounts: the layout, and that something is there.
Load ==
    /\ phase = "new"
    /\ IF ~MountShapes THEN Refuse("layout")
       ELSE IF \E i \in DOMAIN mounts : ~Exists(tree, mounts[i].host) THEN Refuse("missing")
       ELSE phase' = "loaded" /\ UNCHANGED <<refusal, checked>>
    /\ UNCHANGED <<tree, mounts, shared, replaced>>

\* prepare_virtiofs_plans: the layout again, then each host directory.
Plan ==
    /\ phase = "loaded"
    /\ IF ~MountShapes THEN Refuse("layout")
       ELSE IF \E i \in DOMAIN mounts : ~CanonicalHostPath(mounts[i].host) THEN Refuse("host")
       ELSE /\ phase' = "planned"
            /\ checked' = [i \in DOMAIN mounts |-> tree[Canonicalize(tree, mounts[i].host)].id]
            /\ UNCHANGED refusal
    /\ UNCHANGED <<tree, mounts, shared, replaced>>

\* virtiofsd opens the directory by its path.
Share ==
    /\ phase = "planned"
    /\ phase' = "shared"
    /\ shared' = [i \in DOMAIN mounts |-> tree[Canonicalize(tree, mounts[i].host)].id]
    /\ UNCHANGED <<tree, mounts, refusal, checked, replaced>>

\* Another user puts a directory of his own where a node is: in a directory of
\* his, or in one that is writable for him; a sticky one keeps others' nodes.
MayReplace(p) ==
    /\ Len(p) > 1
    /\ LET parent == tree[SubSeq(p, 1, Len(p) - 1)]
       IN  parent.kind = "dir" /\ \/ parent.owner = "other"
                                  \/ parent.mode = "open"
                                  \/ parent.mode = "sticky" /\ tree[p].owner = "other"

Replace(p) ==
    /\ ~replaced /\ phase \in {"new", "loaded", "planned"}
    /\ MayReplace(p)
    /\ tree' = [tree EXCEPT ![p] = [kind |-> "dir", owner |-> "other", mode |-> "private", id |-> "foreign", target |-> <<>>]]
    /\ replaced' = TRUE
    /\ UNCHANGED <<mounts, phase, refusal, checked, shared>>

Next == Load \/ Plan \/ Share \/ \E p \in DOMAIN tree : Replace(p)

Spec == Init /\ [][Next]_vars

-----------------------------------------------------------------------------

\* A launch is refused with a reason and shares nothing.
TypeOK ==
    /\ phase \in {"new", "loaded", "planned", "shared", "refused"}
    /\ refusal \in {None, "layout", "missing", "host"} /\ (refusal = None <=> phase # "refused")
    /\ phase # "shared" => shared = <<>>

\* A sidecar shares the directory that was checked: nobody else could put
\* another one in its place between the plan and the spawn
\* (validate_host_leaf, validate_host_ancestor).
SharedIsChecked == phase = "shared" => shared = checked

\* No directory is shared twice or within another share, under no name: what
\* is compared as text is what the kernel resolves.
SharesAreDisjoint ==
    phase = "planned" =>
        \A i, j \in DOMAIN mounts : i < j =>
            ~PathsOverlap(Canonicalize(tree, mounts[i].host), Canonicalize(tree, mounts[j].host))

\* The guest finds each share by a tag of its own, also when a configured tag
\* looks like a default one.
TagsAreUnique ==
    phase \in {"loaded", "planned", "shared"} =>
        \A i, j \in DOMAIN mounts : i # j => EffectiveTag(i) # EffectiveTag(j)

=============================================================================
