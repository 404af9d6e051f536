----------------------------- MODULE OciRegistry -----------------------------
(***************************************************************************)
(* The Registry V2 client: one reference is resolved to a platform         *)
(* manifest, a configuration and layers, and the layers are streamed.      *)
(* Every request may be challenged once, and every answer may be wrong:    *)
(* other bytes than the ones asked for, headers that lie, a body that      *)
(* breaks off.                                                             *)
(*                                                                         *)
(* A document or blob is an element of DOMAIN Doc and is its own hash; a   *)
(* digest [alg, of] names one.                                             *)
(***************************************************************************)
EXTENDS Naturals, Sequences, FiniteSets, SequencesExt

CONSTANTS
    Doc,        \* what the bytes of each document say
    Reference,  \* references that parse
    Config,     \* client options with the parsed ~/.docker/config.json
    Realm,      \* token realms a challenge may name
    MaxLayers,  \* layers a manifest may have
    None

Ids == DOMAIN Doc
Hub == "docker.io"
HubAliases == {"index.docker.io", "registry-1.docker.io"}
IndexTypes == {"oci.index", "docker.list"}
ManifestTypes == {"oci.manifest", "docker.manifest"}

VARIABLES
    conf,       \* options of the client
    ref,        \* the reference
    at,         \* "new", the request under way, "done" or "error"
    auth,       \* "first", "token" or "retry"
    realm,      \* realm of the challenge
    token,      \* the token fetched: was it asked for with credentials?
    chain,      \* documents read so far: index and manifest
    target,     \* digest, or None for a tag, of the request
    manifest,   \* the parsed platform manifest
    layers,     \* layers written so far
    error,      \* kind of the error
    sent        \* history: requests sent, in order

vars == <<conf, ref, at, auth, realm, token, chain, target, manifest, layers, error, sent>>

Init ==
    /\ conf \in Config /\ ref \in Reference
    /\ at = "new" /\ auth = "first" /\ realm = None /\ token = None
    /\ chain = <<>> /\ target = None /\ manifest = None /\ layers = <<>>
    /\ error = None /\ sent = <<>>

-----------------------------------------------------------------------------
(* Options and credentials.                                                *)

\* Docker Hub has three names in config.json and one in a reference.
CredentialHost(key) == IF key \in HubAliases THEN Hub ELSE key

\* Only base64 auth fields count; helpers and identity tokens are skipped.
Credentials == {CredentialHost(e.key) : e \in {x \in conf.auths : x.auth = "user:password"}}

IsInsecure(registry) == registry \in conf.insecure
Scheme == IF IsInsecure(ref.registry) THEN "http" ELSE "https"

\* Mutant: the credential goes out over plain HTTP too.
CredentialAnyScheme == IF ref.registry \in Credentials THEN ref.registry ELSE None

\* What request sends up front: credentials of this registry, over HTTPS only.
Credential == IF Scheme = "https" /\ ref.registry \in Credentials THEN ref.registry ELSE None

\* HTTPS, or plain HTTP on the authority of an allow-listed registry.
TokenRealmAllowed(r) ==
    \/ r.scheme = "https"
    \/ r.scheme = "http" /\ IsInsecure(ref.registry) /\ r.host = ref.registry

-----------------------------------------------------------------------------
(* Documents.                                                              *)

\* Only sha256 with 64 lowercase digits is a digest of a descriptor.
ValidateDigest(d) == d.alg = "sha256"

\* The body names its own type first, the header second; a document that
\* names none is told by its fields.
ParseDocument(i, header) ==
    LET d == Doc[i]
        type == IF d.type # None THEN d.type ELSE header
        Manifest == IF d.config = None THEN "error" ELSE "manifest"
    IN  CASE d.bytes # "json" -> "error"
          [] type \in IndexTypes -> "index"
          [] type \in ManifestTypes -> Manifest
          [] type \notin {None, "json"} -> "error"
          [] d.entries # None -> "index"
          [] OTHER -> Manifest

Entries(i) == IF Doc[i].entries = None THEN <<>> ELSE Doc[i].entries

Fits(e) ==
    /\ e.platform # None /\ e.artifact = None
    /\ e.type \in {None} \cup IndexTypes \cup ManifestTypes
    /\ e.platform.features = None
    /\ e.platform.os = "linux" /\ e.platform.arch = conf.arch
    /\ conf.arch = "arm64" => e.platform.variant \in {None, "v8"}

SelectPlatform(entries) == SelectSeq(entries, Fits)

\* What resolve checks of a manifest before it asks for the configuration.
ManifestError(i) ==
    LET ls == Doc[i].layers
    IN  CASE Len(ls) > MaxLayers \/ ls = <<>> -> "dependency"
          [] \E l \in ToSet(ls) : l.type \notin {"oci.tar+gzip", "docker.tar.gzip"} -> "dependency"
          [] \E l \in ToSet(ls) : ~ValidateDigest(l.digest) -> "checksum"
          [] ~ValidateDigest(Doc[i].config) -> "checksum"
          [] OTHER -> None

-----------------------------------------------------------------------------
(* Requests.  An answer is a status with what the handler reads of it.     *)

Fail(kind) ==
    /\ at' = "error" /\ error' = kind
    /\ UNCHANGED <<auth, realm, token, chain, target, manifest, layers>>

\* The next request starts over, without a token.
Ask(where, what) ==
    /\ at' = where /\ target' = what
    /\ auth' = "first" /\ realm' = None /\ token' = None
    /\ UNCHANGED error

\* with_http: entries for Docker Hub are refused.
WithHttp ==
    /\ at = "new" /\ UNCHANGED <<conf, ref, sent>>
    /\ IF conf.insecure \cap ({Hub} \cup HubAliases) # {} THEN Fail("invalid_spec")
       ELSE Ask("top", ref.digest) /\ UNCHANGED <<chain, manifest, layers>>

\* fetch_manifest_document: the bytes are compared with the digest they were
\* asked for by, when it is a sha256 one, and with the registry's own header.
ManifestDigestError(answer) ==
    CASE Doc[answer.body].bytes = "huge" -> "dependency"
      [] target # None /\ target.alg = "sha256" /\ answer.body # target.of -> "checksum"
      [] answer.digest # None /\ answer.digest # answer.body -> "checksum"
      [] OTHER -> None

\* resolve, after a manifest request: one index level, then the configuration.
Resolve(answer) ==
    LET i == answer.body
        kind == ParseDocument(i, answer.type)
        fits == SelectPlatform(Entries(i))
    IN  CASE ManifestDigestError(answer) # None -> Fail(ManifestDigestError(answer))
          [] kind = "error" -> Fail("dependency")
          [] kind = "index" /\ at = "child" -> Fail("dependency")
          [] kind = "index" /\ fits = <<>> -> Fail("not_found")
          [] kind = "index" /\ at = "top" /\ fits # <<>> ->
                /\ Ask("child", Head(fits).digest)
                /\ chain' = <<i>> /\ UNCHANGED <<manifest, layers>>
          [] kind = "manifest" /\ ManifestError(i) # None -> Fail(ManifestError(i))
          [] OTHER ->
                /\ Ask("config", Doc[i].config)
                /\ chain' = Append(chain, i) /\ manifest' = Doc[i] /\ UNCHANGED layers

\* fetch_blob_bytes and the parse of the configuration.
Configure(answer) ==
    CASE Doc[answer.body].bytes = "huge" -> Fail("dependency")
      [] answer.body # target.of -> Fail("checksum")
      [] Doc[answer.body].bytes # "json" -> Fail("dependency")
      [] OTHER -> /\ Ask("layer", manifest.layers[1].digest)
                  /\ UNCHANGED <<chain, manifest, layers>>

\* fetch_layer: an advertised length, the bytes that arrive and their hash all
\* have to be what the manifest declared.
LayerError(answer) ==
    LET l == manifest.layers[Len(layers) + 1]
    IN  CASE answer.length \notin {None, l.size} -> "checksum"
          [] answer.broken /\ Doc[answer.body].size <= l.size -> "generic"
          [] Doc[answer.body].size # l.size -> "checksum"
          [] answer.body # l.digest.of -> "checksum"
          [] OTHER -> None

FetchLayer(answer) ==
    IF LayerError(answer) # None THEN Fail(LayerError(answer))
    ELSE /\ layers' = Append(layers, answer.body)
         /\ UNCHANGED <<chain, manifest>>
         /\ IF Len(layers) + 1 = Len(manifest.layers) THEN Ask("done", None)
            ELSE Ask("layer", manifest.layers[Len(layers) + 2].digest)

\* check_status.
Handle(answer) ==
    CASE answer.status = 404 -> Fail("not_found")
      [] answer.status = 429 -> Fail("busy")
      [] answer.status \notin {200, 404, 429} -> Fail("dependency")
      [] answer.status = 200 /\ at \in {"top", "child"} -> Resolve(answer)
      [] answer.status = 200 /\ at = "config" -> Configure(answer)
      [] answer.status = 200 /\ at = "layer" -> FetchLayer(answer)

\* Every document may be the body of every answer; a layer's body may break
\* off, its length be announced or not.
Ok == [status |-> 200, body |-> None, type |-> None, digest |-> None, length |-> None,
       broken |-> FALSE, challenge |-> None]
Answers ==
    {[Ok EXCEPT !.status = s] : s \in {404, 429, 500}}
        \cup IF at \in {"top", "child"}
             THEN {[Ok EXCEPT !.body = i, !.type = t, !.digest = d] :
                     i \in {j \in Ids : Doc[j].bytes # "blob"},
                     t \in {None, "oci.index", "oci.manifest", "json", "html"}, d \in {None} \cup Ids}
             ELSE {[Ok EXCEPT !.body = i, !.length = n, !.broken = b] :
                     i \in Ids, n \in {None} \cup {Doc[j].size : j \in Ids}, b \in BOOLEAN}
Challenges == {[scheme |-> "basic", realm |-> None], [scheme |-> "digest", realm |-> None],
               [scheme |-> "bearer", realm |-> None]}
                \cup [scheme : {"bearer"}, realm : Realm]

Log(scheme, host, cred, private) ==
    sent' = Append(sent, [for |-> <<at, Len(layers)>>, scheme |-> scheme, host |-> host,
                          cred |-> cred, private |-> private])

Requesting == at \in {"top", "child", "config", "layer"}

\* The first request, with the credentials if there are any.
Request ==
    /\ Requesting /\ auth = "first"
    /\ Log(Scheme, ref.registry, Credential, FALSE)
    /\ \E a \in Answers : Handle(a)
    /\ UNCHANGED <<conf, ref>>

\* It is answered with 401: only a Bearer challenge with a usable realm goes on.
Challenged(c) ==
    /\ Requesting /\ auth = "first"
    /\ Log(Scheme, ref.registry, Credential, FALSE)
    /\ IF c.scheme = "bearer" /\ c.realm # None /\ TokenRealmAllowed(c.realm)
       THEN /\ auth' = "token" /\ realm' = c.realm
            /\ UNCHANGED <<at, token, chain, target, manifest, layers, error>>
       ELSE Fail("dependency")
    /\ UNCHANGED <<conf, ref>>

\* The one token request; credentials go to an HTTPS realm only.
FetchToken(ok) ==
    /\ Requesting /\ auth = "token"
    /\ LET cred == IF realm.scheme = "https" THEN Credential ELSE None
       IN  /\ Log(realm.scheme, realm.host, cred, FALSE)
           /\ IF ok THEN /\ auth' = "retry" /\ token' = [private |-> cred # None]
                         /\ UNCHANGED <<at, realm, chain, target, manifest, layers, error>>
              ELSE Fail("dependency")
    /\ UNCHANGED <<conf, ref>>

\* The one retry, with the token.
Retry ==
    /\ Requesting /\ auth = "retry"
    /\ Log(Scheme, ref.registry, None, token.private)
    /\ \/ Fail("dependency")                    \* 401 again
       \/ \E a \in Answers : Handle(a)
    /\ UNCHANGED <<conf, ref>>

Next ==
    \/ WithHttp \/ Request \/ Retry
    \/ \E c \in Challenges : Challenged(c)
    \/ \E ok \in BOOLEAN : FetchToken(ok)

Spec == Init /\ [][Next]_vars

-----------------------------------------------------------------------------
(* Properties.                                                             *)

\* The stages of one resolution, at most one index above the manifest, and the kinds of
\* error it ends with (resolve).
TypeOK ==
    /\ conf \in Config /\ ref \in Reference
    /\ at \in {"new", "top", "child", "config", "layer", "done", "error"}
    /\ auth \in {"first", "token", "retry"} /\ realm \in Realm \cup {None}
    /\ token \in {None} \cup [private : BOOLEAN]
    /\ chain \in Seq(Ids) /\ Len(chain) <= 2 /\ layers \in Seq(Ids)
    /\ error \in {None, "invalid_spec", "dependency", "not_found", "busy", "checksum", "generic"}

\* What a pinned reference stands for on this architecture, whatever the
\* registry answers: the manifest its digest names, directly or through the
\* index it names.
Meaning(i) ==
    IF Doc[i].entries = None THEN i
    ELSE IF SelectPlatform(Entries(i)) = <<>> THEN None
    ELSE LET e == Head(SelectPlatform(Entries(i))) IN e.digest.of

\* A resolution by digest ends in exactly the manifest, configuration and
\* layers the digest stands for, and one by tag in those of one manifest
\* (resolve, fetch_manifest_document, fetch_blob_bytes, fetch_layer).
Verified ==
    at = "done" =>
        /\ ref.digest # None => Last(chain) = Meaning(ref.digest.of)
        /\ layers = [n \in DOMAIN Doc[Last(chain)].layers |-> Doc[Last(chain)].layers[n].digest.of]
Sha256Index == chain # <<>> /\ Doc[chain[1]].entries # None =>
                   \A e \in ToSet(Entries(chain[1])) : e.digest.alg = "sha256"

\* A resolution by digest is Verified, as long as the index names its entries by sha256.
ResolvedIsVerified == Sha256Index => Verified

\* Credentials, and tokens bought with them, never travel over plain HTTP, and
\* credentials go only to their registry or to a realm it named (request,
\* fetch_token, token_realm_allowed).
SecretsStayPrivate ==
    \A n \in DOMAIN sent :
        /\ sent[n].cred # None \/ sent[n].private => sent[n].scheme = "https"
        /\ sent[n].scheme = "http" => sent[n].host = ref.registry /\ ref.registry \in conf.insecure
        /\ ref.registry = Hub => sent[n].scheme = "https"

\* One document costs at most three requests, whatever the registry answers:
\* the request, one token fetch and one retry.
RequestsBounded ==
    \A n \in DOMAIN sent : Cardinality({m \in DOMAIN sent : sent[m].for = sent[n].for}) <= 3

\* An image that goes on to its layers is one for this platform: an index is
\* only left by an entry for Linux, this architecture and no special features
\* (select_platform).
PlatformFits ==
    Len(chain) = 2 =>
        \E e \in ToSet(Entries(chain[1])) :
            /\ e.digest.alg = "sha256" => e.digest.of = chain[2]
            /\ e.platform # None
            /\ e.platform.os = "linux" /\ e.platform.arch = conf.arch
            /\ e.platform.variant \in {None, "v8"} \/ conf.arch # "arm64"
            /\ e.platform.features = None /\ e.artifact = None

=============================================================================
