------------------------------ MODULE Helpers ------------------------------
(***************************************************************************)
(* Installation of helper programs and pinned payloads into the owned bin  *)
(* directory: resolution in the manifest, the helper lock, inspection,     *)
(* partial file, read-back, publication and use.                           *)
(*                                                                         *)
(* Each process belongs to a build of Firestone; two builds may carry      *)
(* different bytes under one install name.  One name is followed.          *)
(***************************************************************************)
EXTENDS Integers, FiniteSets, TLC

CONSTANTS
    Procs,    \* processes of Firestone
    Build,    \* the build each process belongs to
    Job,      \* what each does with the file: "exec" or "inject"
    Entries,  \* manifest entries, by what is checked of them
    MaxFaults \* bound on kills, power cuts and changes by the user

None == [none |-> TRUE]

VARIABLES
    pc,       \* step of each process
    seen,     \* what inspection found: absent or superseded
    partial,  \* each process's partial file
    lock,     \* holder of .embedded-helpers.lock, None if free
    file,     \* the published file
    durable,  \* the published file after a power cut
    debris,   \* partial files nobody will publish
    used,     \* the bytes each process executed or injected
    faults

vars == <<pc, seen, partial, lock, file, durable, debris, used, faults>>

Builds == {Build[p] : p \in Procs}
File(b) == [bytes |-> b, mode |-> "ok", synced |-> TRUE]
Unsynced(b) == [bytes |-> b, mode |-> "ok", synced |-> FALSE]
IsFile == file # None

-----------------------------------------------------------------------------
(* The manifest.                                                           *)

ValidateInstallName(e) == e.name = "plain"
ValidateUrl(e) == e.url = "https"
ValidateSha256(e) == e.sha = "hex"

\* artifact: the entry is in scope, binary, for this architecture and safe.
Artifact(e) ==
    /\ e.inScope /\ e.availability = "binary" /\ e.hasArch
    /\ ValidateInstallName(e) /\ ValidateUrl(e) /\ ValidateSha256(e)

\* A payload injected into a guest is data on the host; a program is not.
Resolves(p, e) == Artifact(e) /\ e.executable = (Job[p] = "exec")

Resolve(p, e) ==
    /\ pc[p] = "idle"
    /\ pc' = [pc EXCEPT ![p] = IF Resolves(p, e) THEN "lock" ELSE "failed"]
    /\ UNCHANGED <<seen, partial, lock, file, durable, debris, used, faults>>

-----------------------------------------------------------------------------
(* materialize_with.                                                       *)

AcquireHelperLock(p) ==
    /\ pc[p] = "lock" /\ lock = None
    /\ lock' = p
    /\ pc' = [pc EXCEPT ![p] = "inspect"]
    /\ UNCHANGED <<seen, partial, file, durable, debris, used, faults>>

Matches(p) == IsFile /\ file.bytes = Build[p]

\* inspect_installed: a file of another mode, owner or type is refused.
Installed(p) ==
    IF ~IsFile THEN "absent"
    ELSE IF file.mode # "ok" THEN "refused"
    ELSE IF Matches(p) THEN "matches" ELSE "superseded"

\* The lock is released with every return; a partial file is removed.
Return(p, step) ==
    /\ pc' = [pc EXCEPT ![p] = step]
    /\ lock' = None
    /\ partial' = [partial EXCEPT ![p] = None]

Inspect(p) ==
    /\ pc[p] = "inspect"
    /\ seen' = [seen EXCEPT ![p] = Installed(p)]
    /\ CASE Installed(p) = "matches" -> Return(p, "have")
         [] Installed(p) = "refused" -> Return(p, "failed")
         [] OTHER -> pc' = [pc EXCEPT ![p] = "write"] /\ UNCHANGED <<lock, partial>>
    /\ UNCHANGED <<file, durable, debris, used, faults>>

\* The source may be cut short without an error, or fail.
WritePartial(p) ==
    /\ pc[p] = "write"
    /\ \/ \E b \in {Build[p], "short"} :
            /\ partial' = [partial EXCEPT ![p] = Unsynced(b)]
            /\ pc' = [pc EXCEPT ![p] = "sync"]
            /\ lock' = lock
       \/ Return(p, "failed")
    /\ UNCHANGED <<seen, file, durable, debris, used, faults>>

\* Mode and contents are on disk before the name is.
SyncPartial(p) ==
    /\ pc[p] = "sync"
    /\ partial' = [partial EXCEPT ![p].synced = TRUE]
    /\ pc' = [pc EXCEPT ![p] = "readback"]
    /\ UNCHANGED <<seen, lock, file, durable, debris, used, faults>>

Readback(p) ==
    /\ pc[p] = "readback"
    /\ \/ partial[p].bytes = Build[p] /\ pc' = [pc EXCEPT ![p] = "persist"] /\ UNCHANGED <<lock, partial>>
       \/ partial[p].bytes # Build[p] /\ Return(p, "failed")
    /\ UNCHANGED <<seen, file, durable, debris, used, faults>>

\* A superseded file is replaced; an absent one is not clobbered.
Persist(p) ==
    /\ pc[p] = "persist"
    /\ file' = IF seen[p] = "superseded" \/ ~IsFile THEN partial[p] ELSE file
    /\ partial' = [partial EXCEPT ![p] = None]
    /\ pc' = [pc EXCEPT ![p] = "sync_dir"]
    /\ UNCHANGED <<seen, lock, durable, debris, used, faults>>

SyncDirectory(p) ==
    /\ pc[p] = "sync_dir"
    /\ durable' = file
    /\ pc' = [pc EXCEPT ![p] = "verify"]
    /\ UNCHANGED <<seen, partial, lock, file, debris, used, faults>>

VerifyInstalled(p) ==
    /\ pc[p] = "verify"
    /\ Return(p, IF Installed(p) = "matches" THEN "have" ELSE "failed")
    /\ UNCHANGED <<seen, file, durable, debris, used, faults>>

\* The program is started by its path after the lock is released.
Execute(p) ==
    /\ pc[p] = "have" /\ Job[p] = "exec"
    /\ used' = [used EXCEPT ![p] = IF IsFile THEN file.bytes ELSE "gone"]
    /\ pc' = [pc EXCEPT ![p] = "done"]
    /\ UNCHANGED <<seen, partial, lock, file, durable, debris, faults>>

\* read_pinned_payload hashes the bytes it returns.
ReadsPinned(p) == IsFile /\ file.mode = "ok" /\ Matches(p)

Inject(p) ==
    /\ pc[p] = "have" /\ Job[p] = "inject"
    /\ \/ ReadsPinned(p) /\ used' = [used EXCEPT ![p] = file.bytes] /\ pc' = [pc EXCEPT ![p] = "done"]
       \/ ~ReadsPinned(p) /\ used' = used /\ pc' = [pc EXCEPT ![p] = "failed"]
    /\ UNCHANGED <<seen, partial, lock, file, durable, debris, faults>>

\* The next installation by the same process.
Again(p) ==
    /\ pc[p] \in {"done", "failed"}
    /\ pc' = [pc EXCEPT ![p] = "idle"]
    /\ used' = [used EXCEPT ![p] = "none"]
    /\ UNCHANGED <<seen, partial, lock, file, durable, debris, faults>>

-----------------------------------------------------------------------------
(* Faults.                                                                 *)

Kill(p) ==
    /\ faults < MaxFaults /\ pc[p] \notin {"idle", "failed", "done"}
    /\ faults' = faults + 1
    /\ pc' = [pc EXCEPT ![p] = "idle"]
    /\ lock' = IF lock = p THEN None ELSE lock
    /\ debris' = (debris \/ partial[p] # None)
    /\ partial' = [partial EXCEPT ![p] = None]
    /\ UNCHANGED <<seen, file, durable, used>>

\* Contents that were not synced are lost; so may be the latest rename.
PowerCut ==
    /\ faults < MaxFaults
    /\ faults' = faults + 1
    /\ \E f \in {file, durable} :
         file' = IF f = None THEN None ELSE IF f.synced THEN f ELSE [f EXCEPT !.bytes = "torn"]
    /\ durable' = file'
    /\ pc' = [p \in Procs |-> "idle"]
    /\ lock' = None
    /\ debris' = (debris \/ \E p \in Procs : partial[p] # None)
    /\ partial' = [p \in Procs |-> None]
    /\ used' = [p \in Procs |-> "none"]
    /\ UNCHANGED <<seen>>

\* Between installations the user removes the file or puts one of his own.
Meddle ==
    /\ faults < MaxFaults /\ lock = None
    /\ faults' = faults + 1
    /\ file' \in {None, [bytes |-> "user", mode |-> "odd", synced |-> TRUE]}
    /\ durable' = file'
    /\ UNCHANGED <<pc, seen, partial, lock, debris, used>>

Init ==
    /\ pc = [p \in Procs |-> "idle"] /\ seen = [p \in Procs |-> "absent"]
    /\ partial = [p \in Procs |-> None] /\ lock = None
    /\ file \in {None, File("older"), [bytes |-> "user", mode |-> "odd", synced |-> TRUE]}
    /\ durable = file /\ debris = FALSE /\ used = [p \in Procs |-> "none"] /\ faults = 0

Step(p) ==
    \/ AcquireHelperLock(p) \/ Inspect(p) \/ WritePartial(p) \/ SyncPartial(p) \/ Readback(p) \/ Persist(p)
    \/ SyncDirectory(p) \/ VerifyInstalled(p) \/ Execute(p) \/ Inject(p)
Next ==
    \/ \E p \in Procs : Step(p) \/ Again(p) \/ Kill(p) \/ \E e \in Entries : Resolve(p, e)
    \/ PowerCut \/ Meddle
Spec == Init /\ [][Next]_vars

-----------------------------------------------------------------------------

\* A process is between the acquisition and the release of the helper lock exactly when it
\* holds it (acquire_helper_lock).
TypeOK ==
    /\ pc \in [Procs -> {"idle", "lock", "inspect", "write", "sync", "readback", "persist", "sync_dir", "verify", "have",
                         "done", "failed"}]
    /\ lock \in Procs \cup {None}
    /\ \A p \in Procs : lock = p <=> pc[p] \in {"inspect", "write", "sync", "readback", "persist", "sync_dir", "verify"}
    /\ seen \in [Procs -> {"absent", "superseded", "refused", "matches"}]
    /\ faults \in 0..MaxFaults

\* Through kills, power cuts and transfers cut short, the published name
\* only ever holds a whole payload, or what was there before.
PublishedIsWhole == IsFile => file.bytes \in Builds \cup {"older", "user"}

\* When an installation reports success the file is its own build's payload,
\* also when another build installed under the same name while it waited.
ReportedIsOwn ==
    \A p \in Procs : pc[p] # "have" /\ pc'[p] = "have" => file' # None /\ file'.bytes = Build[p]

\* A file the user put in place, of another mode or owner, is refused and
\* never replaced.
UserFileKept == IsFile /\ file.mode = "odd" /\ file' # file => faults' # faults

\* The bytes put into a guest image are the pinned ones, although the file
\* may be replaced between its installation and its use.
InjectedIsPinned == \A p \in Procs : Job[p] = "inject" /\ used[p] # "none" => used[p] = Build[p]

\* An installation has not come to its end.
Installing(p) == pc[p] \notin {"done", "failed", "idle"}

-----------------------------------------------------------------------------
(* The inductive invariant behind the properties.                          *)

Payload == [bytes : Builds \cup {"short"}, mode : {"ok"}, synced : BOOLEAN]
Whole == [bytes : Builds \cup {"older", "user"}, mode : {"ok", "odd"}, synced : {TRUE}]

\* What is under the name is whole, now and after a power cut.
NameInv == file \in Whole \cup {None} /\ durable \in Whole \cup {None}

\* A partial file is whole, synced and this build's before it gets the name.
PartialInv ==
    /\ partial \in [Procs -> Payload \cup {None}]
    /\ \A p \in Procs :
        /\ pc[p] \in {"sync", "readback"} => partial[p] \in Payload
        /\ pc[p] = "readback" => partial[p].synced
        /\ pc[p] = "persist" => partial[p] = File(Build[p])

\* A file that will be replaced was found to be Firestone's, and under the lock
\* it still is.
SeenInv ==
    \A p \in Procs :
        pc[p] \in {"write", "sync", "readback", "persist"} =>
            /\ seen[p] \in {"absent", "superseded"}
            /\ seen[p] = "superseded" => IsFile /\ file.mode = "ok"

UsedInv == used \in [Procs -> Builds \cup {"none", "gone", "older", "user"}] /\ InjectedIsPinned

Never == ReportedIsOwn /\ UserFileKept

Inv == TypeOK /\ NameInv /\ PartialInv /\ SeenInv /\ UsedInv

=============================================================================
