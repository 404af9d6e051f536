------------------------------ MODULE OciLayers ------------------------------
(***************************************************************************)
(* The merge of the layers of an image into one tar: pass one reads the    *)
(* members of every layer in order and keeps a plan of the survivors, the  *)
(* hard links are repaired, and pass two writes the survivors in path      *)
(* order with firestone-init among them.                                   *)
(*                                                                         *)
(* The layers are chosen member by member, so a run covers every image     *)
(* within the bounds.  A path is a sequence of names, a regular file's     *)
(* content the place of the member that brought it.                        *)
(***************************************************************************)
EXTENDS Naturals, Sequences, FiniteSets, SequencesExt

CONSTANTS
    Order,      \* paths a member may have, in byte order
    Target,     \* symbolic link targets: [abs, to]
    Injected,   \* paths of the members that are added
    Long,       \* paths too long for the link field of a header
    MaxLayers,  \* layers of an image
    MaxMembers, \* bound on members per layer
    MaxEntries, \* max_entries of the limits
    MaxHops,    \* symbolic links one injected path may go through
    None

Path == ToSet(Order)

VARIABLES
    layer,      \* the layer being read
    members,    \* its members so far
    plan,       \* entries of build_plan: path to survivor
    read,       \* members read in all layers
    outcome,    \* "reading", "error" or "written"
    result,     \* the members written: path to member
    lower,      \* history: the tree of the layers below, applied one by one
    links       \* history: what the hard links read so far point at

vars == <<layer, members, plan, read, outcome, result, lower, links>>

Parent(p) == Front(p)
Under(p, q) == Len(q) > Len(p) /\ SubSeq(q, 1, Len(p)) = p
Without(f, gone) == [p \in DOMAIN f \ gone |-> f[p]]
With(f, p, v) == [q \in DOMAIN f \cup {p} |-> IF q = p THEN v ELSE f[q]]
Empty == [p \in {} |-> None]

Init ==
    /\ layer = 1 /\ members = <<>> /\ plan = Empty /\ read = 0
    /\ outcome = "reading" /\ result = Empty /\ lower = Empty /\ links = {}

-----------------------------------------------------------------------------
(* The images that are merged: layers as builders write them.              *)

Kinds == {"dir", "reg", "other"}
Entry == [kind : Kinds, path : Path, to : {None}, sym : {None}]
           \cup [kind : {"link"}, path : Path, to : Path, sym : {None}]
           \cup [kind : {"sym"}, path : Path, to : {None}, sym : Target]
Whiteout == [kind : {"wh"}, path : Path, to : {None}, sym : {None}]
              \cup [kind : {"opq"}, path : Path \cup {<<>>}, to : {None}, sym : {None}]

Added == {m \in ToSet(members) : m.kind \notin {"wh", "opq"}}
Removed == {m \in ToSet(members) : m.kind = "wh"}

\* What a hard link names: a file of its own layer that came first, a file of
\* the layers below, or nothing of the kind.
LinkTo(p) ==
    IF \E x \in Added : x.path = p /\ x.kind = "reg" THEN "local"
    ELSE IF /\ p \in DOMAIN lower /\ lower[p].kind = "reg"
            /\ ~\E x \in ToSet(members) : x.path = p \/ Under(x.path, p) THEN "lower"
    ELSE "none"

\* One member per path and layer, below directories of this layer or of the
\* ones under it, and nothing over what a hard link of the layer names.
WellFormed(m) ==
    LET Dir(p) == \/ \E x \in Added : x.path = p /\ x.kind = "dir"
                  \/ /\ p \in DOMAIN lower /\ lower[p].kind = "dir"
                     /\ ~\E x \in Added : x.path = p
                     /\ ~\E x \in Removed : x.path = p \/ Under(x.path, p)
        Named(p) == \E x \in Added : x.kind = "link" /\ (p = x.to \/ Under(p, x.to))
    IN  IF m.kind \in {"wh", "opq"} THEN m \notin ToSet(members) /\ ~Named(m.path)
        ELSE /\ ~\E x \in Added : x.to = m.path
             /\ m.kind # "dir" => ~Named(m.path)
             /\ ~\E x \in Added : x.path = m.path
             /\ Len(m.path) > 1 => Dir(Parent(m.path))
             /\ m.kind # "dir" => ~\E x \in Added : Under(m.path, x.path)
             /\ m.kind = "link" => m.path # m.to /\ ~Under(m.path, m.to)

-----------------------------------------------------------------------------
(* Pass one.                                                               *)

\* Entries of lower layers below the path go, and the path itself for a whiteout.
DropLowerSubtree(f, path, self) ==
    Without(f, {p \in DOMAIN f : /\ f[p].layer < layer
                                 /\ Under(path, p) \/ (self /\ p = path /\ path # <<>>)})

\* The regular member of this layer that a hard link names, if it came first.
LocalFile(p) == LET ns == {n \in DOMAIN members : members[n].path = p /\ members[n].kind = "reg"}
                IN  IF ns = {} THEN None ELSE CHOOSE n \in ns : TRUE

\* A survivor; its ordinal finds the member again in pass two.
Survivor(m) ==
    [layer |-> layer, ordinal |-> Len(members) + 1, kind |-> m.kind, to |-> m.to, sym |-> m.sym,
     local |-> IF m.kind = "link" THEN LocalFile(m.to) ELSE None]

Planned(m) ==
    CASE m.kind = "opq" -> DropLowerSubtree(plan, m.path, FALSE)
      [] m.kind = "wh" -> DropLowerSubtree(plan, m.path, TRUE)
      [] m.kind = "dir" -> With(plan, m.path, Survivor(m))
      [] OTHER -> With(DropLowerSubtree(plan, m.path, FALSE), m.path, Survivor(m))

ReadMember(m) ==
    /\ outcome = "reading" /\ Len(members) < MaxMembers /\ WellFormed(m)
    /\ read' = read + 1
    /\ IF read + 1 > MaxEntries
       THEN outcome' = "error" /\ UNCHANGED <<members, plan, links>>
       ELSE /\ plan' = Planned(m) /\ members' = Append(members, m)
            /\ links' = IF m.kind # "link" THEN links
                        ELSE links \cup {LinkTo(m.to)}
            /\ UNCHANGED outcome
    /\ UNCHANGED <<layer, lower, result>>

\* The archive's own root is stepped over; a path that is absolute, empty or
\* has a "..", an empty whiteout, a truncated or sparse member end the merge.
ReadOther(form) ==
    /\ outcome = "reading" /\ Len(members) = 0
    /\ read' = read + 1
    /\ outcome' = IF form = "root" /\ read + 1 <= MaxEntries THEN "reading" ELSE "error"
    /\ UNCHANGED <<layer, members, plan, result, lower, links>>

-----------------------------------------------------------------------------
(* Hard links and pass two.                                                *)

\* Those whose target a later layer took away or replaced.
Shadowed(p) ==
    /\ plan[p].kind = "link"
    /\ ~(plan[p].to \in DOMAIN plan /\ plan[plan[p].to].layer = plan[p].layer)

\* The member that carries the content of a shadowed target, first in order.
Representative(p) ==
    LET same == {q \in DOMAIN plan : /\ Shadowed(q) /\ plan[q].local # None
                                     /\ plan[q].layer = plan[p].layer
                                     /\ plan[q].local = plan[p].local}
    IN  SelectSeq(Order, LAMBDA q : q \in same)[1]

LinkError ==
    \E p \in DOMAIN plan :
        /\ Shadowed(p) /\ plan[p].local = None
        /\ ~(plan[p].to \in DOMAIN plan /\ plan[plan[p].to].kind = "reg")

\* What write_entry emits: the member itself, a promoted or a re-pointed link.
EmittedAsIs(p) == [kind |-> plan[p].kind, to |-> plan[p].to, sym |-> plan[p].sym,
                   from |-> <<plan[p].layer, plan[p].ordinal>>]

Emitted(p) ==
    IF ~Shadowed(p) \/ plan[p].local = None THEN EmittedAsIs(p)
    ELSE LET rep == Representative(p)
         IN  IF rep = p \/ rep \in Long
             THEN [kind |-> "reg", to |-> None, sym |-> None, from |-> <<plan[p].layer, plan[p].local>>]
             ELSE [EmittedAsIs(p) EXCEPT !.to = rep]

\* lexical_join: an absolute target starts at the root, ".." stops there.
LexicalJoin(base, t) ==
    FoldLeft(LAMBDA at, c : IF c # ".." THEN Append(at, c)
                            ELSE IF at = <<>> THEN at ELSE Front(at),
             IF t.abs THEN <<>> ELSE base, t.to)

\* One hop; a loop or a link to the root stays where it is.
Hop(c) ==
    IF c \in DOMAIN plan /\ plan[c].kind = "sym"
    THEN LET next == LexicalJoin(Parent(c), plan[c].sym) IN IF next = <<>> THEN c ELSE next
    ELSE c

ResolveInjectionPath(path) ==
    Append(FoldLeft(LAMBDA at, c : FoldLeft(LAMBDA x, i : Hop(x), Append(at, c), [i \in 1..MaxHops |-> i]),
                    <<>>, Parent(path)), Last(path))

\* Injected members replace what the image had at their place.
WriteMerged ==
    LET added == {ResolveInjectionPath(p) : p \in Injected}
    IN  [p \in DOMAIN plan \cup added |->
            IF p \in added THEN [kind |-> "reg", to |-> None, sym |-> None, from |-> <<0, 0>>] ELSE Emitted(p)]

-----------------------------------------------------------------------------
(* The reference: a layer applied to the tree below it.                    *)

Apply(tree) ==
    LET hidden == {p \in DOMAIN tree :
                      \E m \in ToSet(members) :
                          \/ m.kind = "wh" /\ (m.path = p \/ Under(m.path, p))
                          \/ m.kind = "opq" /\ Under(m.path, p)
                          \/ m.kind \notin {"wh", "opq", "dir"} /\ Under(m.path, p)}
        Node(t, n) ==
            LET m == members[n]
            IN  CASE m.kind = "reg" -> [kind |-> "reg", sym |-> None, from |-> <<layer, n>>]
                  [] m.kind = "link" /\ m.to \in DOMAIN t -> t[m.to]
                  [] m.kind = "link" /\ m.to \notin DOMAIN t -> [kind |-> "broken", sym |-> None, from |-> None]
                  [] OTHER -> [kind |-> m.kind, sym |-> m.sym, from |-> None]
    IN  FoldLeft(LAMBDA t, n : IF members[n].kind \in {"wh", "opq"} THEN t
                               ELSE With(t, members[n].path, Node(t, n)),
                 Without(tree, hidden), [n \in DOMAIN members |-> n])

NextLayer ==
    /\ outcome = "reading" /\ layer < MaxLayers /\ members # <<>>
    /\ layer' = layer + 1 /\ members' = <<>> /\ lower' = Apply(lower)
    /\ UNCHANGED <<plan, read, outcome, result, links>>

Finish ==
    /\ outcome = "reading" /\ members # <<>>
    /\ outcome' = IF LinkError THEN "error" ELSE "written"
    /\ result' = IF LinkError THEN Empty ELSE WriteMerged
    /\ lower' = Apply(lower)
    /\ UNCHANGED <<layer, members, plan, read, links>>

Next ==
    \/ \E m \in Entry \cup Whiteout : ReadMember(m)
    \/ \E form \in {"root", "absolute", "dotdot", "empty whiteout", "truncated"} : ReadOther(form)
    \/ NextLayer \/ Finish

Spec == Init /\ [][Next]_vars

-----------------------------------------------------------------------------
(* Properties.                                                             *)

\* Every planned member comes from a layer that was read, and reading stops one entry past
\* the limit (build_plan).
TypeOK ==
    /\ layer \in 1..MaxLayers /\ Len(members) <= MaxMembers
    /\ DOMAIN plan \subseteq Path /\ \A p \in DOMAIN plan : plan[p].layer \in 1..layer
    /\ read <= MaxEntries + 1 /\ links \subseteq {"local", "lower", "none"}

Written == outcome = "written"

\* The tree the written tar denotes: a hard link has the content of its target.
Extracted ==
    LET Content(p) == CHOOSE q \in DOMAIN result :
            \/ result[p].kind # "link" /\ q = p
            \/ result[p].kind = "link" /\ q = result[p].to
        Node(p) == LET e == result[Content(p)]
                   IN  IF e.kind = "link" THEN result[Content(Content(p))] ELSE e
    IN  [p \in DOMAIN result |-> LET e == Node(p)
                                 IN [kind |-> e.kind, sym |-> e.sym,
                                     from |-> IF e.kind = "reg" THEN e.from ELSE None]]

Places == {ResolveInjectionPath(p) : p \in Injected}
NoPlaceLinked == \A p \in DOMAIN plan : plan[p].kind = "link" => plan[p].to \notin Places
Agrees == Written => Without(Extracted, Places) = Without(lower, Places)

\* The merged tar is the tree the layers make when they are applied one after
\* another: whiteouts hide lower layers only, wherever they stand in their
\* layer, and a hard link keeps its content when a later layer replaces or
\* removes its target (build_plan, drop_lower_subtree, plan_hardlinks).  For
\* images whose hard links name a file of their own layer.
MergedIsApplied == links \subseteq {"local"} /\ NoPlaceLinked => Agrees

\* No well-formed image with such links is refused for them.
LinksAreKept ==
    outcome = "error" /\ links \subseteq {"local"} /\ members # <<>> => read > MaxEntries

\* How the guest walks a path: links are followed component by component, up to
\* MaxHops of them.
Stride(tree, w) ==
    LET p == Append(w.at, Head(w.todo)) IN
    CASE w.at = None \/ w.todo = <<>> -> w
      [] Head(w.todo) = ".." ->
            [w EXCEPT !.at = IF @ = <<>> THEN @ ELSE Front(@), !.todo = Tail(@)]
      [] p \in DOMAIN tree /\ tree[p].kind = "sym" ->
            IF w.hops = 0 THEN [w EXCEPT !.at = None]
            ELSE [at |-> IF tree[p].sym.abs THEN <<>> ELSE w.at,
                  todo |-> tree[p].sym.to \o Tail(w.todo), hops |-> w.hops - 1]
      [] OTHER -> [w EXCEPT !.at = p, !.todo = Tail(@)]

Walk(tree, path) ==
    LET Longest == Max({Len(t.to) : t \in Target} \cup {0})
        walked[n \in Nat] ==
            IF n = 0 THEN [at |-> <<>>, todo |-> path, hops |-> MaxHops] ELSE Stride(tree, walked[n - 1])
    IN  walked[Len(path) + MaxHops * (Longest + 1) + 1].at

Reached == \A p \in Injected :
              LET dir == Walk(lower, Parent(p))
                  there == dir \in DOMAIN lower /\ lower[dir].kind # "dir"
                  place == Append(dir, Last(p))
              IN  dir \notin {None, <<>>} /\ ~there =>
                      place \in DOMAIN result /\ result[place].from = <<0, 0>>
Direct == \A p \in DOMAIN plan : plan[p].kind = "sym" =>
              LET to == LexicalJoin(Parent(p), plan[p].sym)
              IN  \A n \in 1..(Len(to) - 1) :
                      SubSeq(to, 1, n) \in DOMAIN plan => plan[SubSeq(to, 1, n)].kind # "sym"

\* init=/sbin/firestone-init reaches the payload, through the image's own
\* links, when no link leads through another one (resolve_injection_path).
InitIsReached == Written /\ Direct /\ links \subseteq {"local"} => Reached

=============================================================================
