----------------------------- MODULE EditSession ----------------------------
(***************************************************************************)
(* firestone edit: the specification is copied to firestone.toml.edit, an  *)
(* editor works on the copy, and a copy that loads replaces the            *)
(* specification.  A stopped machine is locked for the whole session; for  *)
(* a running one, whose shim holds the lock, no lock is taken.             *)
(***************************************************************************)
EXTENDS Naturals, FiniteSets

CONSTANTS
    Edit,       \* processes that edit the machine
    Good, Bad,  \* texts that load and texts that do not
    Original,   \* the text before
    None

Text == Good \cup Bad

VARIABLES
    running,    \* whether the machine runs
    lock,       \* the edit that holds the machine lock
    spec,       \* firestone.toml
    candidate,  \* firestone.toml.edit
    pc,         \* what an edit is doing
    typed,      \* what its user saved last in the editor
    read,       \* what it read back when the editor had exited
    unlocked,   \* the edits that run without the lock
    alone,      \* history: the edits of a stopped machine that began with none unlocked
    killed      \* history: whether an edit was killed

vars == <<running, lock, spec, candidate, pc, typed, read, unlocked, alone, killed>>

Init ==
    /\ running \in BOOLEAN
    /\ lock = None /\ spec = Original /\ candidate = None
    /\ pc = [e \in Edit |-> "idle"]
    /\ typed = [e \in Edit |-> None]
    /\ read = [e \in Edit |-> None]
    /\ unlocked = {} /\ alone = {} /\ killed = FALSE

-----------------------------------------------------------------------------

\* Mutant: never a lock.
OpenUnlocked(e) ==
    /\ unlocked' = unlocked \cup {e}
    /\ UNCHANGED lock

\* open_spec_write: no lock when the machine runs.
OpenSpecWrite(e) ==
    IF running THEN unlocked' = unlocked \cup {e} /\ UNCHANGED lock
    ELSE lock = None /\ lock' = e /\ UNCHANGED unlocked

\* The candidate starts as a copy of the specification.
Begin(e) ==
    /\ pc[e] = "idle"
    /\ OpenSpecWrite(e)
    /\ candidate' = spec
    /\ pc' = [pc EXCEPT ![e] = "editor"]
    /\ alone' = IF ~running /\ unlocked = {} THEN alone \cup {e} ELSE alone
    /\ UNCHANGED <<running, spec, typed, read, killed>>

\* The user saves in the editor, any number of times.
Save(e, t) ==
    /\ pc[e] = "editor"
    /\ candidate' = t
    /\ typed' = [typed EXCEPT ![e] = t]
    /\ UNCHANGED <<running, lock, spec, pc, read, unlocked, alone, killed>>

\* The editor exits and the candidate is read once; it may be gone.
Exit(e) ==
    /\ pc[e] = "editor"
    /\ IF candidate = None THEN pc' = [pc EXCEPT ![e] = "failed"] /\ UNCHANGED read
       ELSE pc' = [pc EXCEPT ![e] = "loaded"] /\ read' = [read EXCEPT ![e] = candidate]
    /\ UNCHANGED <<running, lock, spec, candidate, typed, unlocked, alone, killed>>

\* The bytes that were read are validated and published; a text that does not
\* load reopens the editor.
Publish(e) ==
    /\ pc[e] = "loaded"
    /\ IF read[e] \in Good THEN spec' = read[e] /\ pc' = [pc EXCEPT ![e] = "saved"]
       ELSE pc' = [pc EXCEPT ![e] = "editor"] /\ UNCHANGED spec
    /\ UNCHANGED <<running, lock, candidate, typed, read, unlocked, alone, killed>>

\* The editor itself fails, or cannot be started.
EditorFails(e) ==
    /\ pc[e] = "editor"
    /\ pc' = [pc EXCEPT ![e] = "failed"]
    /\ UNCHANGED <<running, lock, spec, candidate, typed, read, unlocked, alone, killed>>

Release(e) ==
    /\ lock' = IF lock = e THEN None ELSE lock
    /\ unlocked' = unlocked \ {e}
    /\ alone' = alone \ {e}
    /\ typed' = [typed EXCEPT ![e] = None]
    /\ read' = [read EXCEPT ![e] = None]
    /\ pc' = [pc EXCEPT ![e] = "idle"]

\* Either way the candidate is removed; one that is gone already is fine.
Cleanup(e) ==
    /\ pc[e] \in {"saved", "failed"}
    /\ candidate' = None
    /\ Release(e)
    /\ UNCHANGED <<running, spec, killed>>

\* The process is killed: the kernel drops its lock, the candidate stays.
Kill(e) ==
    /\ pc[e] # "idle"
    /\ Release(e)
    /\ killed' = TRUE
    /\ UNCHANGED <<running, spec, candidate>>

\* The machine starts or stops; a start waits for the lock.
Toggle ==
    /\ running \/ lock = None
    /\ running' = ~running
    /\ UNCHANGED <<lock, spec, candidate, pc, typed, read, unlocked, alone, killed>>

Next ==
    \/ \E e \in Edit : Begin(e) \/ Exit(e) \/ Publish(e) \/ EditorFails(e) \/ Cleanup(e) \/ Kill(e)
    \/ \E e \in Edit, t \in Text : Save(e, t)
    \/ Toggle

Spec == Init /\ [][Next]_vars

-----------------------------------------------------------------------------

\* The machine always has a specification that loads, also with several edits
\* at work and after kills (edit_candidate publishes the bytes it validated).
TypeOK == spec \in Good /\ candidate \in Text \cup {None} /\ lock \in Edit \cup {None}

\* An edit that began under the lock, with no unlocked one under way,
\* publishes what its own user saved (open_spec_write, edit).
LockedEditsAreOwn == \A e \in alone : pc[e] = "saved" /\ typed[e] # None => read[e] = typed[e]

\* When every edit has ended by itself no candidate is left behind, however
\* they overlapped and failed.
NoCandidateLeft == ~killed /\ (\A e \in Edit : pc[e] = "idle") => candidate = None

=============================================================================
