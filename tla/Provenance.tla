------------------------------- MODULE Provenance -------------------------------
(***************************************************************************)
(* verifyImageDigestOrThrow: from the ref of the action to the digest of   *)
(* an image whose Sigstore bundle names that digest and that release.      *)
(* Every request is a step of its own, and between any two of them tags    *)
(* move and bundles are attached, in a registry that may fail any request. *)
(*                                                                         *)
(* A release is the sequence of the parts of its version, which is what    *)
(* the boundary (\.|$) of the identity pattern compares.                   *)
(***************************************************************************)
EXTENDS Naturals, Sequences, SequencesExt

CONSTANTS
    Steps,          \* the verifications: setup steps of the jobs of a runner
    Ref,            \* [Steps -> the ref of the action]
    Engine,         \* [Steps -> proxy_engine]
    Digests,
    Artifacts,      \* what may be attached to an image
    Kinds,          \* how registries list it: "api", "index", "legacy"
    Catalogs,       \* what may be attached to the images when a job begins
    Faults,         \* <<request, status>> a registry may answer beside the truth
    MaxChanges,     \* bound on what is pushed and attached
    None

Requests == {"token", "digest", "referrers", "manifest", "fallback", "probe", "blob", "trust"}

\* 404, 400, 401 and 403, another 4xx, 5xx, no answer, a body that breaks off.
Statuses == {"notFound", "badRequest", "denied", "limited", "server", "network", "body"}

Refs ==
    [kind : {"version"}, release : Seq(STRING)] \cup [kind : {"sha"}, sha : STRING]
        \cup [kind : {"branch"}, name : STRING]

\* A bundle as the verifier sees it: whether it is signed by a release workflow
\* of this repository and logged, for which tag and commit, and the digest its
\* payload names.
Bundles == [signed : BOOLEAN, release : Seq(STRING), sha : STRING, names : Digests]

\* The type an index lists an artifact under, the type it is of, and its layer.
ArtifactSet == [listed : {"bundle", "empty", "foreign"}, is : {"bundle", "other"}, layer : Bundles \cup {None}]

ASSUME RegistryOK ==
    /\ Ref \in [Steps -> Refs]
    /\ Artifacts \subseteq ArtifactSet /\ Catalogs \subseteq [Digests -> Seq(ArtifactSet)]
    /\ Kinds \subseteq {"api", "index", "legacy"}
    /\ Faults \subseteq Requests \X Statuses
    /\ MaxChanges \in Nat
    /\ None \notin Digests /\ None \notin Bundles /\ None \notin ArtifactSet
    /\ None # "NOT_FOUND"

--------------------------------------------------------------------------------
\* A commit is published under a tag of its own; the engine is a suffix.
ImageTagFromRef(s) == <<Ref[s], Engine[s]>>

Verifiable(ref) == ref.kind # "branch"

Tags == {ImageTagFromRef(s) : s \in {t \in Steps : Verifiable(Ref[t])}}

VARIABLES
    tags,       \* [Tags -> the digest, or None]
    attached,   \* [Digests -> what is attached to it, in order]
    kind,       \* of registry
    changes,    \* how often it was changed
    v,          \* [Steps -> the verification]
    saw         \* [Steps -> what it could have seen]

vars == <<tags, attached, kind, changes, v, saw>>

Idle == [pc |-> "idle", digest |-> None, left |-> <<>>, from |-> None, result |-> None]

\* History: what the tag has led to since the verification began, what has had
\* no bundle to show, whether nothing failed or changed meanwhile, and whether
\* it had an answer that the code misreads.
Unseen == [led |-> {}, lacked |-> {}, quiet |-> TRUE, misled |-> FALSE]

IsBundle(a) == a.is = "bundle" /\ a.layer # None

\* A tag that is a manifest holds what was attached last.
Bare(list) ==
    IF kind = "legacy" THEN list = <<>> \/ ~IsBundle(list[Len(list)])
    ELSE \A i \in DOMAIN list : ~IsBundle(list[i])

Init ==
    /\ tags \in [Tags -> Digests \cup {None}]
    /\ attached \in Catalogs
    /\ kind \in Kinds
    /\ changes = 0
    /\ v = [s \in Steps |-> Idle]
    /\ saw = [s \in Steps |-> Unseen]

--------------------------------------------------------------------------------
(* The release workflow pushes an image, then signs it, then attests it; the *)
(* tags of a minor or major version move with every release.                *)

Active == {s \in Steps : v[s].pc \notin {"idle", "verified", "failed"}}

\* What the active verifications see of a change: that their tag leads to d, or
\* that d has nothing to show.
Disturb(t, d, bare) ==
    saw' = [s \in Steps |->
              IF s \notin Active THEN saw[s]
              ELSE [saw[s] EXCEPT !.quiet = FALSE,
                                  !.led = IF ImageTagFromRef(s) = t THEN @ \cup {d} ELSE @,
                                  !.lacked = IF bare THEN @ \cup {d} ELSE @]]

Push(t, d) ==
    /\ changes < MaxChanges
    /\ tags' = [tags EXCEPT ![t] = d]
    /\ changes' = changes + 1
    /\ Disturb(t, d, FALSE)
    /\ UNCHANGED <<attached, kind, v>>

Attach(d, a) ==
    /\ changes < MaxChanges
    /\ attached' = [attached EXCEPT ![d] = Append(@, a)]
    /\ changes' = changes + 1
    /\ Disturb(None, d, Bare(attached'[d]))
    /\ UNCHANGED <<tags, kind, v>>

Registry == \E d \in Digests : (\E t \in Tags : Push(t, d)) \/ (\E a \in Artifacts : Attach(d, a))

--------------------------------------------------------------------------------
(* What each function makes of a request that fails: the code it throws, or  *)
(* "next" when it goes on without the answer.                               *)

\* Mutant of Classify: an index that does not answer is an empty index.
ClassifyIndexGone(at, status) ==
    IF at = "fallback" THEN "NOT_FOUND" ELSE "TRANSIENT"

Classify(at, status) ==
    CASE at = "token" -> IF status \in {"server", "network", "body"} THEN "TRANSIENT" ELSE "TOKEN_ERROR"
      [] at = "digest" -> IF status = "notFound" THEN "NOT_FOUND" ELSE "TRANSIENT"
      [] at = "referrers" -> IF status \in {"server", "network", "body"} THEN "TRANSIENT" ELSE "next"
      [] at = "manifest" -> "TRANSIENT"
      [] at = "fallback" -> IF status \in {"notFound", "badRequest", "limited"} THEN "NOT_FOUND" ELSE "TRANSIENT"
      [] at = "probe" -> IF status \in {"network", "body"} THEN "TRANSIENT" ELSE "next"
      \* The body of the blob is awaited by nobody who would classify it.
      [] at = "blob" -> IF status \in {"server", "denied", "network"} THEN "TRANSIENT"
                        ELSE IF status = "body" THEN "VERIFY_FAILED" ELSE "NOT_FOUND"
      [] at = "trust" -> "VERIFY_FAILED"

\* The answers this code takes for an absence although they say nothing of
\* one, or lie: every error but 5xx of the referrers API, every status of a
\* probe, 4xx of the fallback tag and of a blob unless access is denied, and a
\* 404 for the image.
Misread ==
    ({"referrers"} \X {"notFound", "badRequest", "denied", "limited"})
        \cup ({"probe"} \X {"notFound", "badRequest", "denied", "limited", "server"})
        \cup ({"fallback", "blob"} \X {"notFound", "badRequest", "limited"})
        \cup {<<"digest", "notFound">>}

At(s, pc) == v[s].pc = pc

Go(s, pc) == [v EXCEPT ![s].pc = pc]

End(s, pc, result) == [v EXCEPT ![s] = [Idle EXCEPT !.pc = pc, !.digest = v[s].digest, !.result = result]]

\* toProvenanceError and requireDigest: the step fails with the code.
Fail(s, code) == End(s, "failed", code)

Still == UNCHANGED <<tags, attached, kind, changes>>

\* A request fails; whatever the registry holds, the answer says nothing of it.
Fault(s) ==
    \E f \in Faults :
        LET code == Classify(f[1], f[2]) IN
        /\ At(s, f[1])
        /\ f[1] = "probe" => v[s].left # <<>> /\ Head(v[s].left).listed = "empty"
        /\ \/ code # "next" /\ v' = Fail(s, code)
           \/ code = "next" /\ f[1] = "referrers" /\ v' = Go(s, "fallback")
           \/ code = "next" /\ f[1] = "probe" /\ v' = [v EXCEPT ![s].left = Tail(@)]
        /\ saw' = [saw EXCEPT ![s].quiet = FALSE, ![s].misled = @ \/ f \in Misread]
        /\ Still

--------------------------------------------------------------------------------
(* verifyImageDigest. *)

Begin(s) ==
    /\ At(s, "idle")
    /\ \/ /\ Verifiable(Ref[s])
          /\ v' = Go(s, "token")
          /\ saw' = [saw EXCEPT ![s].led = {tags[ImageTagFromRef(s)]},
                                ![s].lacked = {d \in Digests : Bare(attached[d])}]
       \/ ~Verifiable(Ref[s]) /\ v' = Fail(s, "UNVERIFIABLE_REF") /\ UNCHANGED saw
    /\ Still

FetchRegistryToken(s) ==
    /\ At(s, "token")
    /\ v' = Go(s, "digest")
    /\ UNCHANGED saw /\ Still

FetchManifestDigest(s) ==
    LET digest == tags[ImageTagFromRef(s)] IN
    /\ At(s, "digest")
    /\ v' = IF digest = None THEN Fail(s, "NOT_FOUND")
            ELSE [v EXCEPT ![s].pc = "referrers", ![s].digest = digest]
    /\ UNCHANGED saw /\ Still

\* The first descriptor of the right type, when the registry has the API.
FetchReferrers(s) ==
    LET list == attached[v[s].digest] IN
    /\ At(s, "referrers")
    /\ IF kind = "api" /\ \E i \in DOMAIN list : list[i].is = "bundle"
       THEN \E i \in DOMAIN list :
               /\ list[i].is = "bundle" /\ \A j \in 1..(i - 1) : list[j].is # "bundle"
               /\ v' = [v EXCEPT ![s].pc = "manifest", ![s].from = list[i]]
       ELSE v' = Go(s, "fallback")
    /\ UNCHANGED saw /\ Still

\* The first layer of a manifest that has a bundle.
Layer(s, a) ==
    IF a.layer = None THEN Fail(s, "NOT_FOUND") ELSE [v EXCEPT ![s].pc = "blob", ![s].from = a]

FetchBundleFromManifestDigest(s) ==
    /\ At(s, "manifest")
    /\ v' = Layer(s, v[s].from)
    /\ UNCHANGED saw /\ Still

\* The tag sha256-<hex>: no such tag, an index, or a manifest with the layer.
FetchFallbackTag(s) ==
    LET list == attached[v[s].digest] IN
    /\ At(s, "fallback")
    /\ \/ /\ kind = "api" \/ list = <<>>
          /\ v' = Fail(s, "NOT_FOUND")
       \/ /\ kind = "index" /\ list # <<>>
          /\ v' = [v EXCEPT ![s].pc = "probe", ![s].left = list]
       \/ /\ kind = "legacy" /\ list # <<>>
          /\ v' = Layer(s, list[Len(list)])
    /\ UNCHANGED saw /\ Still

\* Mutant of Probe: the first artifact of the index decides.
ProbeFirst(s) ==
    /\ At(s, "probe")
    /\ v' = IF v[s].left = <<>> THEN Fail(s, "NOT_FOUND") ELSE Layer(s, Head(v[s].left))
    /\ UNCHANGED saw /\ Still

\* One descriptor of the index: not an image manifest, a bundle by its listing,
\* or to be asked for, when it must have both the type and a layer.
Probe(s) ==
    /\ At(s, "probe")
    /\ \/ v[s].left = <<>> /\ v' = Fail(s, "NOT_FOUND")
       \/ LET a == Head(v[s].left) IN
          /\ v[s].left # <<>>
          /\ v' = IF a.listed = "bundle" THEN [v EXCEPT ![s].pc = "manifest", ![s].from = a]
                  ELSE IF a.listed = "empty" /\ IsBundle(a) THEN Layer(s, a)
                  ELSE [v EXCEPT ![s].left = Tail(@)]
    /\ UNCHANGED saw /\ Still

FetchBundleBlob(s) ==
    /\ At(s, "blob")
    /\ v' = Go(s, "trust")
    /\ UNCHANGED saw /\ Still

\* The identity the certificate must have: for a commit any release of exactly
\* that commit, for a version that release or one below it.
BuildVerifyOptions(ref, b) ==
    /\ b.signed
    /\ ref.kind = "sha" => b.sha = ref.sha
    /\ ref.kind = "version" => IsPrefix(ref.release, b.release)

AssertSignedDigest(b, d) == b.names = d

VerifyBundle(s) ==
    LET b == v[s].from.layer IN
    /\ At(s, "trust")
    /\ v' = IF BuildVerifyOptions(Ref[s], b) /\ AssertSignedDigest(b, v[s].digest)
            THEN End(s, "verified", "ok")
            ELSE Fail(s, "VERIFY_FAILED")
    /\ UNCHANGED saw /\ Still

Verify(s) ==
    \/ Fault(s)
    \/ Begin(s) \/ FetchRegistryToken(s) \/ FetchManifestDigest(s)
    \/ FetchReferrers(s) \/ FetchBundleFromManifestDigest(s)
    \/ FetchFallbackTag(s) \/ Probe(s) \/ FetchBundleBlob(s) \/ VerifyBundle(s)

--------------------------------------------------------------------------------
(* Properties. *)

Paths == {"idle", "verified", "failed"} \cup Requests

\* Every layer that is fetched and verified is one, every request after the
\* first is about a digest.
TypeOK ==
    /\ tags \in [Tags -> Digests \cup {None}] /\ attached \in [Digests -> Seq(ArtifactSet)]
    /\ kind \in Kinds /\ changes \in 0..MaxChanges
    /\ \A s \in Steps :
        /\ v[s].pc \in Paths
        /\ v[s].pc \in Requests \ {"token", "digest"} => v[s].digest \in Digests
        /\ v[s].pc \in {"blob", "trust"} => v[s].from.layer \in Bundles

\* What a release promises of an image: its workflow signed this digest for
\* this ref.
Vouches(b, s, d) ==
    /\ b # None /\ b.signed /\ b.names = d
    /\ \/ Ref[s].kind = "sha" /\ b.sha = Ref[s].sha
       \/ Ref[s].kind = "version" /\ IsPrefix(Ref[s].release, b.release)

\* A verification succeeds only for an image that the tag of its ref led to at
\* some time since it began, and that a bundle attached to it vouches for: tags
\* moved and bundles attached elsewhere meanwhile make no difference.
OnlySigned ==
    \A s \in Steps : v[s].pc = "verified" =>
        /\ v[s].digest \in saw[s].led \ {None}
        /\ \E i \in DOMAIN attached[v[s].digest] : Vouches(attached[v[s].digest][i].layer, s, v[s].digest)

\* What a client pushes: a bundle has a layer, and what is listed as one is one.
WellFormed(list) ==
    \A i \in DOMAIN list :
        /\ list[i].is = "bundle" <=> list[i].layer # None
        /\ list[i].listed = "bundle" => list[i].is = "bundle"
        /\ list[i].listed = "foreign" => list[i].is = "other"

\* A tag, or a bundle, was absent at some time since the step began.
Absent(s) == None \in saw[s].led \/ v[s].digest \in saw[s].lacked \/ ~WellFormed(attached[v[s].digest])

\* "NOT_FOUND: resource does not exist (missing tag or bundle)" (errors.ts):
\* it is thrown of what really was absent at some time since the step began,
\* and whatever else fails or breaks off is no absence; save for the answers
\* the code misreads, which are named one by one.
NotFoundIsAbsent == \A s \in Steps : v[s].result = "NOT_FOUND" => Absent(s) \/ saw[s].misled

\* A release whose bundles all vouch for it verifies, in whatever form its
\* registry lists them and whatever is listed beside them, when no request fails
\* and nothing changes meanwhile.
SteadyReleaseVerifies ==
    \A s \in Steps : v[s].pc = "failed" /\ saw[s].quiet /\ Verifiable(Ref[s]) =>
        \E d \in saw[s].led :
            \/ d = None
            \/ d \in saw[s].lacked \/ ~WellFormed(attached[d])
            \/ \E i \in DOMAIN attached[d] : attached[d][i].layer # None /\ ~Vouches(attached[d][i].layer, s, d)
================================================================================
