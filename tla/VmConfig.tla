------------------------------ MODULE VmConfig ------------------------------
(***************************************************************************)
(* The VmConfig of a machine: what start sends to Cloud Hypervisor and     *)
(* publishes as vmconfig.json.  A typed base is rendered from the          *)
(* specification, the user's config_overlay is applied to it as an RFC     *)
(* 7396 merge patch, and the result is refused if it changes what          *)
(* Firestone owns.  A warm restore later compares what the machine         *)
(* publishes by then with what its snapshot captured, and lets only a live *)
(* resize pass.                                                            *)
(***************************************************************************)
EXTENDS Naturals, Sequences, FiniteSets

CONSTANTS
    Inputs,     \* what a start is given
    Nets,       \* networks an edit may choose
    Limit       \* the largest number of vCPUs, and of units of memory

\* A JSON value.
Obj(f) == [t |-> "obj", m |-> f]
Arr(s) == [t |-> "arr", s |-> s]
Str(x) == [t |-> "str", x |-> x]
Num(n) == [t |-> "num", n |-> n]
Bool(b) == [t |-> "bool", b |-> b]
Null == [t |-> "null"]
Absent == [t |-> "absent"]
NoKeys == [k \in {} |-> Null]

Get(v, k) == IF v.t = "obj" /\ k \in DOMAIN v.m THEN v.m[k] ELSE Absent
Item(v, k, i) == IF Get(v, k).t = "arr" /\ i <= Len(Get(v, k).s) THEN Get(v, k).s[i] ELSE Absent

\* A member that is left out when there is nothing to say.
Opt(k, v) == IF v = Absent THEN NoKeys ELSE [x \in {k} |-> v]
With(f, g) == [k \in DOMAIN f \cup DOMAIN g |-> IF k \in DOMAIN g THEN g[k] ELSE f[k]]

VARIABLES
    in,         \* the machine and its host, as this start reads them
    installed,  \* pinned boot artifacts in data/bin
    pc, why,    \* of the start; why it was refused
    published,  \* vmconfig.json
    captured,   \* the vmconfig.json of a warm snapshot
    changed     \* what was done to the machine since: "no", "resized", "edited"
vars == <<in, installed, pc, why, published, captured, changed>>

Init ==
    /\ in \in Inputs /\ installed = {} /\ pc = "start" /\ why = "none"
    /\ published = Absent /\ captured = Absent /\ changed = "no"

-----------------------------------------------------------------------------
(* The payload.                                                            *)

\* effective_firmware: the policy, then the catalog entry, then the architecture.
EffectiveFirmware(i) ==
    IF i.firmware # "auto" THEN i.firmware
    ELSE IF i.catalog # "none" THEN i.catalog
    ELSE IF i.arch = "x86_64" THEN "rhf" ELSE "edk2"

\* require_auto_firmware_for_direct_boot
DirectBootRefused(i) == i.oci /\ i.firmware # "auto"

\* selected_pinned_boot_artifact: what this start installs before the VmConfig.
SelectedArtifact(i) ==
    IF i.oci THEN {"kernel"} ELSE {EffectiveFirmware(i)} \ {"custom"}

\* resolve_payload
Payload(i) ==
    IF i.oci THEN Obj([kernel |-> Str("kernel"), cmdline |-> Str("direct")])
    ELSE LET f == EffectiveFirmware(i)
         IN  IF f = "rhf" THEN Obj([kernel |-> Str("rhf")]) ELSE Obj([firmware |-> Str(f)])

\* The artifact the payload names has to be there already.
PayloadMissing(i) ==
    IF i.oci THEN "kernel" \notin installed
    ELSE LET f == EffectiveFirmware(i) IN f # "custom" /\ f \notin installed

CustomMissing(i) == ~i.oci /\ EffectiveFirmware(i) = "custom" /\ ~i.customOk

-----------------------------------------------------------------------------
(* The base.                                                               *)

\* NetConfig::from_plan
Net(n) ==
    CASE n = "none" -> Absent
      [] n = "passt" -> Arr(<<Obj([mac |-> Str("mac"), vhost_user |-> Bool(TRUE), vhost_socket |-> Str("net.sock")])>>)
      [] n = "tap" -> Arr(<<Obj([mac |-> Str("mac"), tap |-> Str("tap0")])>>)

Hotplug(i) == IF i.memMax = 0 THEN Absent ELSE Num(i.memMax - i.mem)

Disks == Arr(<<Obj([path |-> Str("disk.qcow2"), backing_files |-> Bool(TRUE)]),
               Obj([path |-> Str("seed.img"), readonly |-> Bool(TRUE)])>>)

\* base_vm_config.  Of the owned objects without options of their own (vsock,
\* serial, console, rng), rng stands for all.
Base(i) ==
    Obj(With([cpus |-> Obj([boot_vcpus |-> Num(i.cpus), max_vcpus |-> Num(IF i.cpusMax = 0 THEN i.cpus ELSE i.cpusMax)]),
              memory |-> Obj(With([size |-> Num(i.mem), shared |-> Bool(TRUE)], Opt("hotplug_size", Hotplug(i)))),
              payload |-> Payload(i),
              disks |-> Disks,
              rng |-> Obj([src |-> Str("/dev/urandom")])],
             With(Opt("net", Net(i.net)), Opt("fs", IF i.fs THEN Arr(<<Obj([tag |-> Str("home")])>>) ELSE Absent))))

-----------------------------------------------------------------------------
(* The overlay.                                                            *)

\* apply_merge_patch: an object patches member by member and a null deletes;
\* anything else, an array too, replaces.
RECURSIVE MergePatch(_, _)
MergePatch(target, patch) ==
    IF patch.t # "obj" THEN patch
    ELSE LET old == IF target.t = "obj" THEN target.m ELSE NoKeys
             deleted == {k \in DOMAIN patch.m : patch.m[k] = Null}
         IN  Obj([k \in (DOMAIN old \cup DOMAIN patch.m) \ deleted |->
                     IF k \in DOMAIN patch.m
                     THEN MergePatch(IF k \in DOMAIN old THEN old[k] ELSE Null, patch.m[k]) ELSE old[k]])

Merged(i) == IF i.overlay = Absent THEN Base(i) ELSE MergePatch(Base(i), i.overlay)

\* required_subset: every member and element of the base is still there.
RECURSIVE RequiredSubset(_, _)
RequiredSubset(required, candidate) ==
    CASE required.t = "obj" ->
            /\ candidate.t = "obj"
            /\ \A k \in DOMAIN required.m :
                  k \in DOMAIN candidate.m /\ RequiredSubset(required.m[k], candidate.m[k])
      [] required.t = "arr" ->
            /\ candidate.t = "arr" /\ Len(candidate.s) >= Len(required.s)
            /\ \A i \in DOMAIN required.s : RequiredSubset(required.s[i], candidate.s[i])
      [] OTHER -> required = candidate

\* validate_required_defaults: what the base leaves to a default stays at it.
RequiredDefaults(candidate, i) ==
    /\ \A d \in {<<1, "readonly">>, <<1, "vhost_user">>, <<2, "backing_files">>, <<2, "vhost_user">>} :
          Get(Item(candidate, "disks", d[1]), d[2]) \in {Absent, Bool(FALSE)}
    /\ i.net = "passt" => \A k \in {"tap", "ip"} : Get(Item(candidate, "net", 1), k) = Absent
    /\ i.net = "tap" =>
          /\ Get(Item(candidate, "net", 1), "vhost_user") \in {Absent, Bool(FALSE)}
          /\ \A k \in {"ip", "vhost_socket"} : Get(Item(candidate, "net", 1), k) = Absent

\* validate_required_invariants
RequiredInvariants(base, candidate, i) ==
    /\ RequiredSubset(base, candidate) /\ RequiredDefaults(candidate, i)
    /\ i.net = "none" => Get(candidate, "net") = Absent
    /\ ~i.fs => Get(candidate, "fs") = Absent
    /\ \A k \in {"kernel", "firmware", "cmdline"} :
          Get(base.m.payload, k) = Absent => Get(Get(candidate, "payload"), k) = Absent

-----------------------------------------------------------------------------
(* The start.                                                              *)

Refuse(reason) == pc' = "refused" /\ why' = reason

\* ensure_pinned_artifact of what is selected.
Ensure ==
    /\ pc = "start"
    /\ \/ DirectBootRefused(in) /\ Refuse("firmware") /\ UNCHANGED installed
       \/ ~DirectBootRefused(in) /\ installed' = installed \cup SelectedArtifact(in) /\ pc' = "ensured" /\ UNCHANGED why
    /\ UNCHANGED <<in, published, captured, changed>>

\* publish_vm_config
Publish ==
    /\ pc = "ensured"
    /\ \/ PayloadMissing(in) /\ Refuse("missing") /\ UNCHANGED published
       \/ ~PayloadMissing(in) /\ CustomMissing(in) /\ Refuse("custom") /\ UNCHANGED published
       \/ /\ ~PayloadMissing(in) /\ ~CustomMissing(in)
          /\ IF RequiredInvariants(Base(in), Merged(in), in)
             THEN published' = Merged(in) /\ pc' = "published" /\ UNCHANGED why
             ELSE Refuse("overlay") /\ UNCHANGED published
    /\ UNCHANGED <<in, installed, captured, changed>>

-----------------------------------------------------------------------------
(* A warm snapshot, what may happen to the specification, and the restore. *)

\* The number of a member, 0 where it is absent.
Number(v) == IF v.t = "num" THEN v.n ELSE 0

\* memory_ceiling
Ceiling(v) == Number(Get(Get(v, "memory"), "size")) + Number(Get(Get(v, "memory"), "hotplug_size"))

\* A live resize within the booted headroom, then a warm snapshot.
Resize ==
    /\ pc = "published" /\ captured = Absent
    /\ \E c, m \in 1..Limit :
          /\ c <= Get(Get(published, "cpus"), "max_vcpus").n
          /\ m \in Get(Get(published, "memory"), "size").n..Ceiling(published)
          /\ in.cpusMax > 0 => c <= in.cpusMax
          /\ in.memMax > 0 => m <= in.memMax
          /\ in' = [in EXCEPT !.cpus = c, !.mem = m]
    /\ captured' = published /\ changed' = "resized" /\ pc' = "start"
    /\ UNCHANGED <<installed, why, published>>

\* A warm snapshot, then an edit of what was not captured.
Edit ==
    /\ pc = "published" /\ captured = Absent
    /\ \/ \E n \in Nets \ {in.net} : in' = [in EXCEPT !.net = n]
       \/ in.cpusMax < Limit /\ in' = [in EXCEPT !.cpusMax = Limit]
       \/ in.memMax < Limit /\ in' = [in EXCEPT !.memMax = Limit]
    /\ captured' = published /\ changed' = "edited" /\ pc' = "start"
    /\ UNCHANGED <<installed, why, published>>

Except(v, keys) == IF v.t = "obj" THEN [k \in DOMAIN v.m \ keys |-> v.m[k]] ELSE NoKeys

\* vmconfig_differs_only_by_live_resize
DiffersOnlyByResize(left, right) ==
    /\ Except(left, {"cpus", "memory"}) = Except(right, {"cpus", "memory"})
    /\ Except(Get(left, "cpus"), {"boot_vcpus"}) = Except(Get(right, "cpus"), {"boot_vcpus"})
    /\ Except(Get(left, "memory"), {"size", "hotplug_size"}) = Except(Get(right, "memory"), {"size", "hotplug_size"})
    /\ Ceiling(left) = Ceiling(right)

\* prepare_restore_launch
Restore ==
    /\ pc = "published" /\ captured # Absent
    /\ \/ captured = published /\ pc' = "restored" /\ UNCHANGED why
       \/ captured # published /\ DiffersOnlyByResize(captured, published) /\ pc' = "restored" /\ UNCHANGED why
       \/ captured # published /\ ~DiffersOnlyByResize(captured, published) /\ Refuse("conflict")
    /\ UNCHANGED <<in, installed, published, captured, changed>>

Next == Ensure \/ Publish \/ Resize \/ Edit \/ Restore

Spec == Init /\ [][Next]_vars

-----------------------------------------------------------------------------
\* A start is refused exactly when it has a reason, and what is published is a JSON object
\* (from_plan, apply_merge_patch).
TypeOK ==
    /\ pc \in {"start", "ensured", "published", "restored", "refused"}
    /\ why \in {"none", "firmware", "missing", "custom", "overlay", "conflict"}
    /\ (pc = "refused") = (why # "none")
    /\ installed \subseteq {"kernel", "rhf", "edk2"} /\ changed \in {"no", "resized", "edited"}
    /\ pc \in {"published", "restored"} => published.t = "obj"
    /\ in.cpusMax > 0 => in.cpus <= in.cpusMax

Default(v) == IF v = Absent THEN Bool(FALSE) ELSE v
Disk(d) ==
    [path |-> Get(d, "path"), readonly |-> Default(Get(d, "readonly")), vhost |-> Default(Get(d, "vhost_user")),
     backing |-> Default(Get(d, "backing_files"))]
Nic(n) ==
    [mac |-> Get(n, "mac"), tap |-> Get(n, "tap"), ip |-> Get(n, "ip"), vhost |-> Default(Get(n, "vhost_user")),
     socket |-> Get(n, "vhost_socket")]

\* What Cloud Hypervisor makes of the owned part of a VmConfig, its own defaults
\* filled in.
Devices(v) ==
    [cpus |-> Get(v, "cpus"), size |-> Get(Get(v, "memory"), "size"), shared |-> Get(Get(v, "memory"), "shared"),
     boot |-> [k \in {"kernel", "firmware", "cmdline"} |-> Get(Get(v, "payload"), k)],
     root |-> Disk(Item(v, "disks", 1)), seed |-> Disk(Item(v, "disks", 2)),
     hasNet |-> Get(v, "net") # Absent, nic |-> Nic(Item(v, "net", 1)),
     hasFs |-> Get(v, "fs") # Absent, fs |-> Item(v, "fs", 1), rng |-> Get(v, "rng"),
     headroom |-> IF in.memMax = 0 THEN Absent ELSE Get(Get(v, "memory"), "hotplug_size")]

\* Whatever the overlay says, a VmConfig that is published has the boot payload,
\* disks, network and shares Firestone rendered, with Cloud Hypervisor's defaults
\* counted in: an overlay reaches only what Firestone does not own.
OwnedIsKept == pc = "published" => Devices(published) = Devices(Base(in))

\* And no more is refused than that: an overlay that leaves all of it as it was is
\* applied.
SparedIsAccepted == why = "overlay" => Devices(Merged(in)) # Devices(Base(in))

\* An accepted overlay is all there (RFC 7396): what it sets is set, what it nulls is
\* gone, and what it does not name is as rendered, one and two members deep.
OverlayIsApplied ==
    pc = "published" /\ in.overlay # Absent =>
        \A k \in DOMAIN published.m \cup DOMAIN in.overlay.m :
            LET o == Get(in.overlay, k)
                p == Get(published, k)
                b == Get(Base(in), k)
            IN  /\ o = Null => p = Absent
                /\ o = Absent => p = b
                /\ o.t \notin {"null", "absent", "obj"} => p = o
                /\ o.t = "obj" =>
                      /\ p.t = "obj"
                      /\ \A x \in DOMAIN o.m : Get(p, x) = IF o.m[x] = Null THEN Absent ELSE o.m[x]
                      /\ \A x \in DOMAIN p.m \ DOMAIN o.m : p.m[x] = Get(b, x)

\* The artifact a start installs is the one its VmConfig then names: a start never
\* fails on a payload that it could have installed.
PayloadIsInstalled == why # "missing"

\* A warm restore never runs a memory image under another configuration: the devices
\* and both boot ceilings are those of the snapshot.
RestoresTheSame ==
    pc = "restored" =>
        /\ LET Unsized(v) == [Devices(v) EXCEPT !.cpus = Null, !.size = Null, !.headroom = Null]
           IN  Unsized(published) = Unsized(captured)
        /\ Ceiling(published) = Ceiling(captured)
        /\ Get(Get(published, "cpus"), "max_vcpus") = Get(Get(captured, "cpus"), "max_vcpus")

\* A machine with both maxima set, and no overlay of its memory, can be restored after
\* any live resize it accepts.
ResizedWithMaxima ==
    why = "conflict" /\ changed = "resized" => in.cpusMax = 0 \/ in.memMax = 0

=============================================================================
