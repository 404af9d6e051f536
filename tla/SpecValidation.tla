--------------------------- MODULE SpecValidation ---------------------------
(***************************************************************************)
(* The checks a machine specification passes when it is loaded, in their   *)
(* order, composed with the rendering of cloud-init data that reads the    *)
(* same files again at the next start (module CloudInit).                  *)
(*                                                                         *)
(* The cloud_init table is CloudInit's input; rest holds the other leaves  *)
(* by what the checks tell apart.  An error knows its key and whether the  *)
(* structured field carries it.                                            *)
(***************************************************************************)
EXTENDS CloudInit

CONSTANTS Rests, MinMemory

VARIABLES
    rest,     \* the other leaves and what the host says of them
    verdict,  \* None, an error, or the accepted specification's image
    warned    \* the keys warned about

allVars == <<vars, rest, verdict, warned>>

Invalid(key) == [key |-> key, field |-> TRUE]
Bare(key) == [key |-> key, field |-> FALSE]
When(condition, error) == IF condition THEN <<error>> ELSE <<>>

-----------------------------------------------------------------------------

\* An empty text or ~user is no path.
ResolvePaths == When(rest.badPath # "none", Bare(rest.badPath))

ValidateArch == When(rest.arch = "other", Invalid("arch"))

\* A URL is https, has a host, no credentials and no fragment.
ValidateHttpsUrl == When(~rest.urlOk, Invalid("image"))

\* The pin is kept, a local file wins, then OCI, then URL, then catalog.
ValidateImage ==
    CASE rest.image = "empty" -> <<Invalid("image")>>
      [] rest.image \in {"pinned", "pinned_oci"} -> <<>>
      [] rest.image = "home" -> <<Bare("image")>>
      [] rest.image = "local" -> When(~rest.fileOk, Invalid("image"))
      [] rest.image \in {"oci", "oci_short"} -> When(~rest.ociOk /\ rest.explicit, Invalid("image")) \o
             When(~rest.ociOk /\ ~rest.explicit /\ ~rest.inCatalog, Invalid("image"))
      [] rest.image = "url" -> ValidateHttpsUrl
      [] rest.image = "name" -> When(~rest.inCatalog, Invalid("image"))

\* The reference as the loaded specification has it; a pinned one is
\* normalized already.
ImageOf == IF (rest.image \in {"oci", "oci_short"} /\ rest.ociOk) \/ rest.image = "pinned_oci" THEN "oci" ELSE rest.image

ValidateCapacity ==
    When(rest.cpus = 0, Invalid("cpus"))
      \o When(rest.cpusMax < rest.cpus, Invalid("cpus_max"))
      \o When(rest.memory < MinMemory, Invalid("memory"))
      \o When(rest.memoryMax < rest.memory, Invalid("memory_max"))
      \o When(rest.disk < rest.base, Invalid("disk"))

ValidateUser == When(~rest.userOk, Invalid("user"))
ValidateNetwork ==
    When(rest.tap = "unset", Invalid("network.tap")) \o When(rest.tap \in {"name", "gone", "tun"}, Bare("network.tap"))
ValidateMounts ==
    When(rest.mounts = "layout", Bare("mount")) \o When(rest.mounts = "missing", Invalid("mount.host"))

\* The first leaf of [cloud_init] that differs from its default.
FirstCloudInitInput ==
    CASE in.path # None -> "user_data"
      [] in.path = None /\ in.inline # None -> "user_data_inline"
      [] in.path = None /\ in.inline = None /\ in.net # None -> "network_config"
      [] in.path = None /\ in.inline = None /\ in.net = None /\ in.files # <<>> -> "ssh_keys"
      [] in.path = None /\ in.inline = None /\ in.net = None /\ in.files = <<>> /\ in.authorized # <<>> -> "ssh_authorized_keys"
      [] OTHER -> IF rest.password # "none" THEN "password"
                  ELSE IF rest.pwauth THEN "ssh_pwauth" ELSE IF ~in.provisioning THEN "provisioning" ELSE "none"

\* An OCI guest has no cloud-init.
RefuseCloudInitOnOci == When(ImageOf = "oci" /\ FirstCloudInitInput # "none", Invalid(FirstCloudInitInput))

ValidateInlineUserData(d) == Fits(d, MaxInline) /\ d.head \in {"config", "script"}
ValidateInlineAuthorizedKey(line) == ~IsBlank(line) /\ IsKey(line)
ValidatePassword == rest.password \in {"none", "ok"}

\* A file is read once, up to the limit, and must be regular and readable.
ReadRequiredFile(d, limit) == Fits(d, limit)

\* At least one key, and only keys.
ValidateKeyFile(f) ==
    /\ Len(f) <= MaxKeyFile
    /\ LET lines == SelectSeq(f, LAMBDA l : ~IsBlank(l))
       IN  lines # <<>> /\ \A i \in DOMAIN lines : IsKey(lines[i])

\* Key files are limited one by one, not in total.
ValidateCloudInit ==
    RefuseCloudInitOnOci
      \o When(in.path # None /\ in.inline # None, Invalid("user_data_inline"))
      \o When(in.inline # None /\ ~ValidateInlineUserData(in.inline), Invalid("user_data_inline"))
      \o When(\E i \in DOMAIN in.authorized : ~ValidateInlineAuthorizedKey(in.authorized[i]), Invalid("ssh_authorized_keys"))
      \o When(~ValidatePassword, Invalid("password"))
      \o When(in.path # None /\ ~(ReadRequiredFile(in.path, MaxFile) /\ Parsed(in.path)), Invalid("user_data"))
      \o When(in.net # None /\ ~(ReadRequiredFile(in.net, MaxFile) /\ in.net.utf8), Invalid("network_config"))
      \o When(\E i \in DOMAIN in.files : ~ValidateKeyFile(in.files[i]), Invalid("ssh_keys"))

ValidateVmm ==
    When(rest.binary \in {"missing", "dir", "noexec"}, Invalid("vmm.binary"))
      \o When(rest.firmware \in {"missing", "dir", "unreadable"}, Invalid("vmm.firmware"))
      \o When(~rest.overlayOk, Invalid("vmm.config_overlay"))

\* validate_machine_spec: the first error ends the load.
Errors ==
    ResolvePaths \o ValidateArch \o ValidateImage \o ValidateCapacity \o ValidateUser
      \o ValidateNetwork \o ValidateMounts \o ValidateCloudInit \o ValidateVmm

\* More CPUs than the host has only warn.
Validate ==
    /\ verdict = None
    /\ verdict' = IF Errors = <<>> THEN [image |-> ImageOf] ELSE Errors[1]
    /\ warned' = IF rest.cpus > rest.hostCpus /\ Errors = <<>> THEN {"cpus"} ELSE {}
    /\ UNCHANGED <<vars, rest>>

Accepted == verdict # None /\ "image" \in DOMAIN verdict
Refused == verdict # None /\ "key" \in DOMAIN verdict

\* The rendering is followed in any case, to compare the two.
ValInit == Init /\ rest \in Rests /\ verdict = None /\ warned = {}
ValNext == Validate \/ (verdict # None /\ Next /\ UNCHANGED <<rest, verdict, warned>>)
ValSpec == ValInit /\ [][ValNext]_allVars

-----------------------------------------------------------------------------

\* A verdict is an image or an error with a key.
ValTypeOK == verdict = None \/ Accepted \/ Refused

TotalFits == FoldLeft(LAMBDA a, f : a + Len(f), 0, in.files) <= MaxKeys

\* The rules are written twice, for the load and for the rendering.  What the
\* load accepts is rendered while the files stay as they are (the sum of the
\* key files aside): a machine does not fail to start over its own
\* cloud-init data.
AcceptedRenders == Accepted /\ TotalFits /\ pc = "done" => out # Failed

\* And the other way: a table the load refuses for its user data, its network
\* configuration or its keys is one the rendering refuses too.
RefusedFails ==
    Refused /\ pc = "done" /\ in.provisioning /\ ImageOf # "oci"
        /\ verdict.key \in {"user_data", "user_data_inline", "network_config", "ssh_keys", "ssh_authorized_keys"}
        => out = Failed

\* No input is silently dropped: a specification that is accepted with an OCI
\* image, however its reference was spelled, sets nothing in [cloud_init]
\* (refuse_cloud_init_on_oci after the normalization).
NothingIgnored ==
    Accepted /\ verdict.image = "oci" =>
        /\ in.path = None /\ in.inline = None /\ in.net = None
        /\ in.files = <<>> /\ in.authorized = <<>> /\ in.provisioning /\ rest.password = "none" /\ ~rest.pwauth

=============================================================================
