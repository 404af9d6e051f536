----------------------------- MODULE SshIdentity ------------------------------
(***************************************************************************)
(* The host's SSH identity.  Commands that need it call                    *)
(* ensure_ssh_identity: under a file lock, a marker is made, ssh-keygen    *)
(* writes the private and then the public file at their final paths, their *)
(* modes are set, and the marker is removed.  Any process may be killed at *)
(* any step; the lock then opens, and a killed caller may leave its        *)
(* ssh-keygen running.  The user may put files there and take them away.   *)
(* firestone doctor looks at the two files without the lock.               *)
(***************************************************************************)
EXTENDS Naturals, FiniteSets

CONSTANTS
    Proc,      \* firestone processes
    Orphans,   \* whether the ssh-keygen of a killed caller goes on
    PowerCuts, \* whether the host may lose what was not synced
    MaxCalls,  \* bound on calls
    MaxUser    \* bound on what the user does

VARIABLES
    pc,        \* of each process
    res,       \* of its last call: none, ok, busy, incomplete, occupied, invalid, failed
    calls,
    lock,      \* its holder, or Nobody
    dir,       \* <data>/ssh exists
    marker,    \* .generating exists
    priv,      \* private key: none, part, or whose run of ssh-keygen, or user
    pub,       \* public key, likewise
    mode,      \* both files carry their final modes
    synced,    \* and their bytes are on the disk
    other,     \* another entry in the directory
    keygen,    \* of each process's ssh-keygen: off, start, priv, pub, ok, bad
    seen,      \* what doctor last reported: none, ok, missing, incomplete
    during,    \* and whether a generation was under way when it looked
    user,      \* what the user did so far
    taken      \* history: a file of the user was removed by the program

vars == <<pc, res, calls, lock, dir, marker, priv, pub, mode, synced, other, keygen, seen, during, user, taken>>

Nobody == "nobody"
Idle == {"idle", "done"}

Init ==
    /\ pc = [p \in Proc |-> "idle"] /\ res = [p \in Proc |-> "none"] /\ calls = 0
    /\ lock = Nobody /\ dir = FALSE /\ marker = FALSE /\ priv = "none" /\ pub = "none"
    /\ mode = TRUE /\ synced = TRUE /\ other = FALSE /\ keygen = [p \in Proc |-> "off"]
    /\ seen = "none" /\ during = FALSE /\ user = 0 /\ taken = FALSE

files == <<dir, marker, priv, pub, mode, synced, other>>
rest == <<keygen, seen, during, user, taken>>

Go(p, next) == pc' = [pc EXCEPT ![p] = next]

\* The call returns; the lock goes with its file.
Return(p, r) ==
    /\ Go(p, "done") /\ res' = [res EXCEPT ![p] = r]
    /\ lock' = IF lock = p THEN Nobody ELSE lock

-----------------------------------------------------------------------------
(* ensure_ssh_identity_with.                                               *)

Call(p) ==
    /\ pc[p] \in Idle /\ keygen[p] = "off" /\ calls < MaxCalls /\ calls' = calls + 1
    /\ Go(p, "lock") /\ res' = [res EXCEPT ![p] = "none"]
    /\ UNCHANGED <<lock, files, rest>>

\* acquire_identity_lock: polled to its own deadline.
Acquire(p) ==
    /\ pc[p] = "lock"
    /\ \/ lock = Nobody /\ lock' = p /\ Go(p, "inspect") /\ UNCHANGED res
       \/ lock # Nobody /\ Return(p, "busy")
    /\ UNCHANGED <<calls, files, rest>>

\* validate_identity: the modes, and a public key that parses.  Which private
\* key it belongs to is not looked at, nor what the private file holds.
Valid == priv # "none" /\ pub \notin {"none", "part"} /\ mode

\* A marker of an interrupted generation.
Inspect(p) ==
    /\ pc[p] = "inspect"
    /\ Go(p, IF marker THEN IF Valid THEN "unmark" ELSE "rollpub" ELSE "presence")
    /\ UNCHANGED <<res, calls, lock, files, rest>>

\* remove_generation_marker, of a pair that was whole after all.
Unmark(p) ==
    /\ pc[p] = "unmark" /\ marker' = FALSE /\ Return(p, "ok")
    /\ UNCHANGED <<calls, dir, priv, pub, mode, synced, other, rest>>

\* Removing a file; the user's, if it is one.
Took(f) == taken' = (taken \/ f = "user")

\* Mutant: the marker goes first.
RollPubUnmarked(p) ==
    /\ pc[p] \in {"rollpub", "failpub"} /\ pub' = "none" /\ Took(pub) /\ marker' = FALSE
    /\ Go(p, IF pc[p] = "rollpub" THEN "rollpriv" ELSE "failpriv")
    /\ UNCHANGED <<res, calls, lock, dir, priv, mode, synced, other, keygen, seen, during, user>>

\* rollback_generation: public, private, marker.  After a failed run the call
\* fails, after a recovery it goes on.
RollPub(p) ==
    /\ pc[p] \in {"rollpub", "failpub"} /\ pub' = "none" /\ Took(pub)
    /\ Go(p, IF pc[p] = "rollpub" THEN "rollpriv" ELSE "failpriv")
    /\ UNCHANGED <<res, calls, lock, dir, marker, priv, mode, synced, other, keygen, seen, during, user>>

RollPriv(p) ==
    /\ pc[p] \in {"rollpriv", "failpriv"} /\ priv' = "none" /\ Took(priv)
    /\ Go(p, IF pc[p] = "rollpriv" THEN "rollmark" ELSE "failmark")
    /\ UNCHANGED <<res, calls, lock, dir, marker, pub, mode, synced, other, keygen, seen, during, user>>

RollMark(p) ==
    /\ pc[p] \in {"rollmark", "failmark"} /\ marker' = FALSE /\ mode' = TRUE /\ synced' = TRUE
    /\ \/ pc[p] = "rollmark" /\ Go(p, "presence") /\ UNCHANGED <<res, lock>>
       \/ pc[p] = "failmark" /\ Return(p, "failed")
    /\ UNCHANGED <<calls, dir, priv, pub, other, rest>>

\* IdentityPresence::Incomplete, and an entry that is neither key nor marker.
HalfAPair == (priv # "none") # (pub # "none")
Occupied == priv = "none" /\ pub = "none" /\ other

\* identity_presence, ensure_identity_directory_is_empty and, in an empty
\* directory, create_generation_marker.
Presence(p) ==
    /\ pc[p] = "presence"
    /\ CASE priv # "none" /\ pub # "none" -> Return(p, IF Valid THEN "ok" ELSE "invalid") /\ UNCHANGED <<dir, marker>>
         [] HalfAPair -> Return(p, "incomplete") /\ UNCHANGED <<dir, marker>>
         [] ~HalfAPair /\ Occupied -> Return(p, "occupied") /\ UNCHANGED <<dir, marker>>
         [] OTHER -> dir' = TRUE /\ marker' = TRUE /\ Go(p, "keygen") /\ UNCHANGED <<res, lock>>
    /\ UNCHANGED <<calls, priv, pub, mode, synced, other, rest>>

\* Cmd::run of ssh-keygen: it starts, ends, fails, or is killed at its deadline.
StartKeygen(p) ==
    /\ pc[p] = "keygen" /\ keygen[p] = "off"
    /\ keygen' = [keygen EXCEPT ![p] = "start"]
    /\ UNCHANGED <<pc, res, calls, lock, files, seen, during, user, taken>>

KeygenDone(p) ==
    /\ pc[p] = "keygen" /\ keygen[p] # "off" /\ keygen' = [keygen EXCEPT ![p] = "off"]
    /\ Go(p, IF keygen[p] = "ok" THEN "finalize" ELSE "failpub")
    /\ UNCHANGED <<res, calls, lock, files, seen, during, user, taken>>

\* finalize_generated_identity: protect_generated_file of both.
Finalize(p) ==
    /\ pc[p] = "finalize"
    /\ IF priv # "none" /\ pub # "none"
       THEN mode' = TRUE /\ synced' = TRUE /\ Go(p, "publish")
       ELSE Go(p, "failpub") /\ UNCHANGED <<mode, synced>>
    /\ UNCHANGED <<res, calls, lock, dir, marker, priv, pub, other, rest>>

\* validate_identity and remove_generation_marker.
Publish(p) ==
    /\ pc[p] = "publish"
    /\ IF Valid THEN marker' = FALSE /\ Return(p, "ok") ELSE Return(p, "invalid") /\ UNCHANGED marker
    /\ UNCHANGED <<calls, dir, priv, pub, mode, synced, other, rest>>

\* kill -9, a power cut.
Crash(p) ==
    /\ pc[p] \notin Idle /\ Go(p, "idle") /\ res' = [res EXCEPT ![p] = "none"]
    /\ lock' = IF lock = p THEN Nobody ELSE lock
    /\ keygen' = [keygen EXCEPT ![p] = IF Orphans THEN @ ELSE "off"]
    /\ UNCHANGED <<calls, files, seen, during, user, taken>>

\* Every process ends; bytes that were not synced may be gone.
PowerCut ==
    /\ PowerCuts /\ pc' = [p \in Proc |-> "idle"] /\ res' = [p \in Proc |-> "none"]
    /\ lock' = Nobody /\ keygen' = [p \in Proc |-> "off"]
    /\ priv' \in IF synced \/ priv = "none" THEN {priv} ELSE {priv, "part"}
    /\ UNCHANGED <<calls, dir, marker, pub, mode, synced, other, seen, during, user, taken>>

-----------------------------------------------------------------------------
(* ssh-keygen -f <data>/ssh/id_ed25519, with nothing on its stdin: it does *)
(* not overwrite a private key it finds, and replaces a public one.        *)

KeygenStep(p) ==
    /\ \/ /\ keygen[p] = "start"
          /\ keygen' = [keygen EXCEPT ![p] = IF priv = "none" THEN "priv" ELSE "bad"]
          /\ UNCHANGED <<priv, pub, mode, synced>>
       \/ /\ keygen[p] = "priv" /\ keygen' = [keygen EXCEPT ![p] = "pub"]
          /\ priv' = p /\ synced' = FALSE /\ UNCHANGED <<pub, mode>>
       \/ /\ keygen[p] = "pub" /\ keygen' = [keygen EXCEPT ![p] = "ok"]
          /\ pub' = p /\ synced' = FALSE /\ mode' \in BOOLEAN /\ UNCHANGED priv
       \/ /\ keygen[p] \in {"start", "priv", "pub"} /\ keygen' = [keygen EXCEPT ![p] = "bad"]
          /\ priv' \in IF keygen[p] = "priv" THEN {priv, "part"} ELSE {priv}
          /\ UNCHANGED <<pub, mode, synced>>
    /\ UNCHANGED <<pc, res, calls, lock, dir, marker, other, seen, during, user, taken>>

\* An orphan ends.
Reaped(p) ==
    /\ pc[p] \in Idle /\ keygen[p] \in {"ok", "bad"} /\ keygen' = [keygen EXCEPT ![p] = "off"]
    /\ UNCHANGED <<pc, res, calls, lock, files, seen, during, user, taken>>

-----------------------------------------------------------------------------
(* firestone doctor and its --fix, and the user.                           *)

Generating == \E p \in Proc : pc[p] \notin Idle \cup {"lock", "inspect", "presence"}

\* check_ssh_key: no lock, no marker.
Doctor ==
    /\ seen' = CASE priv = "none" /\ pub = "none" -> "missing"
                 [] priv # "none" /\ pub # "none" -> "ok"
                 [] OTHER -> "incomplete"
    /\ during' = (marker \/ Generating)
    /\ UNCHANGED <<pc, res, calls, lock, files, keygen, user, taken>>

\* perform_fixes calls generate_ssh_key only when both files are missing.
DoctorFix(p) == priv = "none" /\ pub = "none" /\ Call(p)

\* The user puts a pair or half of one into a directory no generation marked,
\* another file, or removes what is there; not while firestone runs.
UserActs ==
    /\ user < MaxUser /\ user' = user + 1 /\ ~marker /\ \A p \in Proc : pc[p] \in Idle /\ keygen[p] = "off"
    /\ \/ \E f \in {<<"user", "user">>, <<"user", "none">>, <<"none", "user">>, <<"none", "none">>} :
             priv' = f[1] /\ pub' = f[2]
       \/ UNCHANGED <<priv, pub>>
    /\ other' \in BOOLEAN /\ mode' \in BOOLEAN /\ dir' = TRUE /\ synced' = TRUE
    /\ UNCHANGED <<pc, res, calls, lock, marker, keygen, seen, during, taken>>

Step(p) ==
    \/ Call(p) \/ DoctorFix(p) \/ Acquire(p) \/ Inspect(p) \/ Unmark(p)
    \/ RollPub(p) \/ RollPriv(p) \/ RollMark(p) \/ Presence(p)
    \/ StartKeygen(p) \/ KeygenDone(p) \/ Finalize(p) \/ Publish(p)
    \/ KeygenStep(p) \/ Reaped(p) \/ Crash(p)

Next == (\E p \in Proc : Step(p)) \/ PowerCut \/ Doctor \/ UserActs

Spec == Init /\ [][Next]_vars

-----------------------------------------------------------------------------

\* The stages of every call, what each of the three files holds, and that whoever is past
\* the wait holds the identity lock (ensure_ssh_identity).
TypeOK ==
    /\ pc \in [Proc -> {"idle", "lock", "inspect", "unmark", "rollpub", "rollpriv", "rollmark", "failpub",
                        "failpriv", "failmark", "presence", "keygen", "finalize", "publish", "done"}]
    /\ res \in [Proc -> {"none", "ok", "busy", "incomplete", "occupied", "invalid", "failed"}]
    /\ calls \in 0..MaxCalls /\ user \in 0..MaxUser /\ lock \in Proc \cup {Nobody}
    /\ {dir, marker, mode, synced, other, during, taken} \subseteq BOOLEAN
    /\ {priv, pub} \subseteq Proc \cup {"none", "part", "user"}
    /\ keygen \in [Proc -> {"off", "start", "priv", "pub", "ok", "bad"}]
    /\ seen \in {"none", "ok", "missing", "incomplete"}
    /\ \A p \in Proc : pc[p] \notin Idle \cup {"lock"} => lock = p

\* A caller that was given the identity finds both files there, of one run of
\* ssh-keygen, with no marker beside them, for as long as the user leaves them
\* there, whatever other calls do (ensure_ssh_identity: "unavailable to every
\* Firestone consumer until both final files have been validated and synced").
IdentityIsWhole ==
    \A p \in Proc : res[p] = "ok" /\ user = 0 =>
        priv # "none" /\ priv = pub /\ mode /\ ~marker

\* Whatever is killed and retried, no file the user put there is removed or
\* replaced (incomplete_identity_error: "Firestone never overwrites identity
\* files").
UsersFilesKept == ~taken /\ (marker => "user" \notin {priv, pub})

\* A call that finds half a pair it will not touch has found one the user
\* made: an interrupted generation is always recovered by the next call
\* (rollback_generation).
InterruptedRecovers == user = 0 => \A p \in Proc : res[p] \notin {"incomplete", "occupied"}

==============================================================================
