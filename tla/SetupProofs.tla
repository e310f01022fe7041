------------------------------ MODULE SetupProofs ------------------------------
(***************************************************************************)
(* Proofs about Setup and Provenance: for any number of steps, of builder   *)
(* names, of images and of changes to the registry, and whatever fails.    *)
(***************************************************************************)
EXTENDS Setup, TLAPS

--------------------------------------------------------------------------------
(* One verification.                                                        *)

Codes == {"TRANSIENT", "NOT_FOUND", "TOKEN_ERROR", "VERIFY_FAILED", "UNVERIFIABLE_REF"}

Verifications ==
    [pc : Paths, digest : Digests \cup {None}, left : Seq(ArtifactSet), from : ArtifactSet \cup {None},
     result : Codes \cup {None, "ok"}]

Sights == [led : SUBSET (Digests \cup {None}), lacked : SUBSET Digests, quiet : BOOLEAN, misled : BOOLEAN]

\* The requests of which the digest is known.
Resolved == {"referrers", "manifest", "fallback", "probe", "blob", "trust", "verified"}

Held(d) == {attached[d][i] : i \in DOMAIN attached[d]}

\* What keeps a verification, with what it saw, from being wrong: its digest is
\* one its tag led to, and what it looks at is attached to that digest.
Sound(s, r, w) ==
    /\ r \in Verifications /\ w \in Sights
    /\ r.pc \in Requests => Verifiable(Ref[s]) /\ tags[ImageTagFromRef(s)] \in w.led
    /\ r.pc \in Resolved => r.digest \in Digests /\ r.digest \in w.led
    /\ r.pc = "probe" => \A i \in DOMAIN r.left : r.left[i] \in Held(r.digest)
    /\ r.pc \in {"manifest", "blob", "trust"} => r.from \in Held(r.digest)
    /\ r.pc \in {"blob", "trust"} => r.from.layer \in Bundles
    /\ r.pc = "verified" => \E a \in Held(r.digest) : Vouches(a.layer, s, r.digest)

RegistryInv ==
    /\ tags \in [Tags -> Digests \cup {None}] /\ attached \in [Digests -> Seq(ArtifactSet)]
    /\ kind \in Kinds /\ changes \in 0..MaxChanges

SoundInv ==
    /\ RegistryInv
    /\ v \in [Steps -> Verifications] /\ saw \in [Steps -> Sights]
    /\ \A s \in Steps : Sound(s, v[s], saw[s])

LEMMA SoundIsTyped == SoundInv => TypeOK
BY DEF SoundInv, RegistryInv, Sound, TypeOK, Verifications, Resolved, Requests

LEMMA TagOfStep == ASSUME NEW s \in Steps, Verifiable(Ref[s]) PROVE ImageTagFromRef(s) \in Tags
BY DEF Tags

LEMMA HeldAre ==
    ASSUME RegistryInv, NEW d \in Digests, NEW a \in Held(d)
    PROVE  a \in ArtifactSet /\ a.layer \in Bundles \cup {None}
<1>1. PICK i \in DOMAIN attached[d] : a = attached[d][i]
    BY DEF Held
<1>2. attached[d] \in Seq(ArtifactSet)
    BY DEF RegistryInv
<1>3. a \in ArtifactSet
    BY <1>1, <1>2
<1> QED BY <1>3 DEF ArtifactSet

LEMMA InitSound == Init => SoundInv
<1> SUFFICES ASSUME Init PROVE SoundInv
    OBVIOUS
<1>1. RegistryInv
    BY RegistryOK DEF Init, RegistryInv
<1>2. Idle \in Verifications
    BY DEF Idle, Verifications, Paths
<1>3. Unseen \in Sights
    BY DEF Unseen, Sights
<1>4. ASSUME NEW s \in Steps PROVE Sound(s, Idle, Unseen)
    BY <1>2, <1>3 DEF Sound, Idle, Requests, Resolved
<1> QED BY <1>1, <1>2, <1>3, <1>4 DEF Init, SoundInv

\* A step that moves one verification on.
LEMMA OneMoves ==
    ASSUME SoundInv, Still, NEW s \in Steps, NEW r, NEW w, Sound(s, r, w),
           v' = [v EXCEPT ![s] = r], saw' = [saw EXCEPT ![s] = w]
    PROVE  SoundInv'
<1>1. RegistryInv'
    BY DEF SoundInv, RegistryInv, Still
<1>2. r \in Verifications /\ w \in Sights
    BY DEF Sound
<1>3. v' \in [Steps -> Verifications] /\ saw' \in [Steps -> Sights]
    BY <1>2 DEF SoundInv
<1>4. ASSUME NEW t \in Steps PROVE Sound(t, v'[t], saw'[t])
    <2>1. CASE t = s  BY <2>1 DEF SoundInv
    <2>2. CASE t # s  BY <2>2 DEF SoundInv
    <2> QED BY <2>1, <2>2
<1>5. ASSUME NEW t \in Steps PROVE Sound(t, v[t], saw[t])'
    BY <1>4 DEF Sound, Still, Held
<1> QED BY <1>1, <1>3, <1>5 DEF SoundInv

LEMMA PushSound == ASSUME SoundInv, NEW t \in Tags, NEW d \in Digests, Push(t, d) PROVE SoundInv'
<1>1. changes + 1 \in 0..MaxChanges
    BY RegistryOK DEF SoundInv, RegistryInv, Push
<1>2. RegistryInv' /\ UNCHANGED <<attached, v>>
    BY <1>1 DEF SoundInv, RegistryInv, Push
<1>3. ASSUME NEW s \in Steps PROVE saw'[s] \in Sights /\ Sound(s, v[s], saw[s])'
    <2> DEFINE w == [saw[s] EXCEPT !.quiet = FALSE,
                                   !.led = IF ImageTagFromRef(s) = t THEN @ \cup {d} ELSE @]
    <2>1. saw'[s] = IF s \in Active THEN w ELSE saw[s]
        BY DEF Push, Disturb, SoundInv, Sights
    <2>2. saw[s] \in Sights /\ Sound(s, v[s], saw[s]) /\ v'[s] = v[s]
        BY <1>2 DEF SoundInv
    <2>3. w \in Sights /\ saw[s].led \subseteq w.led /\ (ImageTagFromRef(s) = t => d \in w.led)
        BY <2>2 DEF Sights
    <2>4. v[s].pc \in Requests => s \in Active /\ Verifiable(Ref[s]) /\ ImageTagFromRef(s) \in Tags
        BY <2>2, TagOfStep DEF Sound, Active, Requests
    <2>5. v[s].pc \in Requests => tags'[ImageTagFromRef(s)] \in saw'[s].led
        BY <2>1, <2>2, <2>3, <2>4 DEF Push, SoundInv, RegistryInv, Sound
    <2>6. saw'[s] \in Sights /\ saw[s].led \subseteq saw'[s].led
        BY <2>1, <2>2, <2>3
    <2> HIDE DEF w
    <2> QED BY <1>2, <2>2, <2>4, <2>5, <2>6 DEF Sound, Held
<1>4. saw' \in [Steps -> Sights]
    BY <1>3 DEF Push, Disturb
<1> QED BY <1>2, <1>3, <1>4 DEF SoundInv

LEMMA HeldGrows ==
    ASSUME RegistryInv, NEW d \in Digests, NEW a \in ArtifactSet, NEW e \in Digests,
           attached' = [attached EXCEPT ![d] = Append(@, a)]
    PROVE  Held(e) \subseteq Held(e)'
<1>1. CASE e = d
    <2>1. attached[d] \in Seq(ArtifactSet) /\ attached'[d] = Append(attached[d], a)
        BY DEF RegistryInv
    <2>2. \A i \in DOMAIN attached[d] : i \in DOMAIN attached'[d] /\ attached'[d][i] = attached[d][i]
        BY <2>1
    <2> QED BY <1>1, <2>2 DEF Held
<1>2. CASE e # d
    BY <1>2 DEF RegistryInv, Held
<1> QED BY <1>1, <1>2

LEMMA AttachSound == ASSUME SoundInv, NEW a \in ArtifactSet, NEW d \in Digests, Attach(d, a) PROVE SoundInv'
<1>1. changes + 1 \in 0..MaxChanges
    BY RegistryOK DEF SoundInv, RegistryInv, Attach
<1>2. attached' \in [Digests -> Seq(ArtifactSet)]
    BY DEF SoundInv, RegistryInv, Attach
<1>3. RegistryInv' /\ UNCHANGED <<tags, v>>
    BY <1>1, <1>2 DEF SoundInv, RegistryInv, Attach
<1>4. \A e \in Digests : Held(e) \subseteq Held(e)'
    BY HeldGrows DEF SoundInv, Attach
<1>5. ASSUME NEW s \in Steps PROVE saw'[s] \in Sights /\ Sound(s, v[s], saw[s])'
    <2>1. saw[s] \in Sights /\ Sound(s, v[s], saw[s]) /\ v'[s] = v[s]
        BY <1>3 DEF SoundInv
    <2>2. saw'[s] \in Sights /\ saw[s].led \subseteq saw'[s].led
        <3> DEFINE bare == Bare(attached'[d])
                   w == [saw[s] EXCEPT !.quiet = FALSE,
                                       !.led = IF ImageTagFromRef(s) = None THEN @ \cup {d} ELSE @,
                                       !.lacked = IF bare THEN @ \cup {d} ELSE @]
        <3>1. saw'[s] = IF s \in Active THEN w ELSE saw[s]
            BY DEF Attach, Disturb, SoundInv, Sights
        <3> HIDE DEF bare
        <3>2. w \in Sights /\ saw[s].led \subseteq w.led
            BY <2>1 DEF Sights
        <3> QED BY <2>1, <3>1, <3>2
    <2> QED BY <1>3, <1>4, <2>1, <2>2 DEF Sound, Resolved
<1>6. saw' \in [Steps -> Sights]
    BY <1>5 DEF Attach, Disturb
<1> QED BY <1>3, <1>5, <1>6 DEF SoundInv

LEMMA RefKinds == \A s \in Steps : Ref[s].kind \in {"version", "sha", "branch"}
BY RegistryOK DEF Refs

LEMMA Codified == \A at \in Requests, status \in Statuses : Classify(at, status) \in Codes \cup {"next"}
BY DEF Classify, Codes, Requests, Statuses

LEMMA IdleIs == Idle \in Verifications
BY DEF Idle, Verifications, Paths

\* Ending one without success is always sound.
LEMMA FailSound ==
    ASSUME SoundInv, Still, NEW s \in Steps, NEW code \in Codes, NEW w \in Sights,
           v' = Fail(s, code), saw' = [saw EXCEPT ![s] = w]
    PROVE  SoundInv'
<1> DEFINE r == [Idle EXCEPT !.pc = "failed", !.digest = v[s].digest, !.result = code]
<1>1. v[s] \in Verifications
    BY DEF SoundInv
<1>2. Sound(s, r, w)
    <2>1. r \in Verifications /\ r.pc = "failed"
        BY <1>1, IdleIs DEF Verifications, Paths
    <2> QED BY <2>1 DEF Sound, Requests, Resolved
<1>3. v' = [v EXCEPT ![s] = r]
    BY DEF Fail, End
<1> HIDE DEF r
<1> QED BY <1>2, <1>3, OneMoves

\* So is a layer, found or not.
LEMMA LayerSound ==
    ASSUME SoundInv, Still, NEW s \in Steps, v[s].pc \in {"manifest", "fallback", "probe"},
           NEW a \in Held(v[s].digest), v' = Layer(s, a), UNCHANGED saw
    PROVE  SoundInv'
<1>1. /\ v[s] \in Verifications /\ saw[s] \in Sights /\ Sound(s, v[s], saw[s])
      /\ saw' = [saw EXCEPT ![s] = saw[s]] /\ v[s].digest \in Digests
    BY DEF SoundInv, Sound, Resolved
<1>2. a \in ArtifactSet /\ a.layer \in Bundles \cup {None}
    BY <1>1, HeldAre DEF SoundInv
<1>3. CASE a.layer = None
    BY <1>1, <1>3, FailSound DEF Layer, Codes
<1>4. CASE a.layer # None
    <2> DEFINE r == [v[s] EXCEPT !.pc = "blob", !.from = a]
    <2>1. v' = [v EXCEPT ![s] = r]
        BY <1>4 DEF Layer, SoundInv
    <2>2. Sound(s, r, saw[s])
        BY <1>1, <1>2, <1>4 DEF Sound, Verifications, Paths, Requests, Resolved
    <2> HIDE DEF r
    <2> QED BY <1>1, <2>1, <2>2, OneMoves
<1> QED BY <1>3, <1>4

LEMMA FaultSound == ASSUME SoundInv, NEW s \in Steps, Fault(s) PROVE SoundInv'
<1>1. PICK f \in Faults :
        LET code == Classify(f[1], f[2]) IN
        /\ At(s, f[1])
        /\ f[1] = "probe" => v[s].left # <<>> /\ Head(v[s].left).listed = "empty"
        /\ \/ code # "next" /\ v' = Fail(s, code)
           \/ code = "next" /\ f[1] = "referrers" /\ v' = Go(s, "fallback")
           \/ code = "next" /\ f[1] = "probe" /\ v' = [v EXCEPT ![s].left = Tail(@)]
        /\ saw' = [saw EXCEPT ![s].quiet = FALSE, ![s].misled = @ \/ f \in Misread]
        /\ Still
    BY DEF Fault
<1> DEFINE code == Classify(f[1], f[2])
           skip == saw[s].misled \/ f \in Misread
           w == [saw[s] EXCEPT !.quiet = FALSE, !.misled = skip]
<1>2. /\ f[1] \in Requests /\ f[2] \in Statuses /\ code \in Codes \cup {"next"}
    BY RegistryOK, Codified
<1>3. v[s] \in Verifications /\ saw[s] \in Sights /\ Sound(s, v[s], saw[s])
    BY DEF SoundInv
<1>4. saw' = [saw EXCEPT ![s] = w]
    BY <1>1 DEF SoundInv
<1>5. skip \in BOOLEAN
    BY <1>3 DEF Sights
<1>6. Still /\ v[s].pc = f[1]
    BY <1>1 DEF At
<1> HIDE DEF skip
<1>7. w \in Sights /\ w.led = saw[s].led
    BY <1>3, <1>5 DEF Sights
<1>8. CASE code # "next"
    BY <1>1, <1>2, <1>4, <1>6, <1>7, <1>8, FailSound
<1>9. CASE f[1] = "referrers" /\ v' = Go(s, "fallback")
    <2> DEFINE r == [v[s] EXCEPT !.pc = "fallback"]
    <2>1. v' = [v EXCEPT ![s] = r]
        BY <1>9 DEF Go, SoundInv
    <2>2. Sound(s, r, w)
        BY <1>3, <1>6, <1>7, <1>9 DEF Sound, Verifications, Paths, Requests, Resolved
    <2> HIDE DEF r, w
    <2> QED BY <1>4, <1>6, <2>1, <2>2, OneMoves
<1>10. CASE f[1] = "probe" /\ v' = [v EXCEPT ![s].left = Tail(@)]
    <2> DEFINE r == [v[s] EXCEPT !.left = Tail(@)]
    <2>1. v' = [v EXCEPT ![s] = r]
        BY <1>10 DEF SoundInv
    <2>2. /\ v[s].left \in Seq(ArtifactSet) /\ v[s].left # <<>>
        BY <1>1, <1>3, <1>10 DEF Verifications
    <2>3. /\ Tail(v[s].left) \in Seq(ArtifactSet)
          /\ \A i \in DOMAIN Tail(v[s].left) : i + 1 \in DOMAIN v[s].left /\ Tail(v[s].left)[i] = v[s].left[i + 1]
        BY <2>2
    <2>4. Sound(s, r, w)
        BY <1>3, <1>6, <1>7, <1>10, <2>3 DEF Sound, Verifications, Paths, Requests, Resolved
    <2> HIDE DEF r, w
    <2> QED BY <1>4, <1>6, <2>1, <2>4, OneMoves
<1> QED BY <1>1, <1>8, <1>9, <1>10

LEMMA VerifySound == ASSUME SoundInv, NEW s \in Steps, Verify(s) PROVE SoundInv'
<1>1. /\ v[s] \in Verifications /\ saw[s] \in Sights /\ Sound(s, v[s], saw[s]) /\ RegistryInv
    BY DEF SoundInv
<1>2. UNCHANGED saw => saw' = [saw EXCEPT ![s] = saw[s]]
    BY DEF SoundInv
<1>3. CASE Fault(s)
    BY <1>3, FaultSound
<1>4. CASE Begin(s)
    <2>1. CASE ~Verifiable(Ref[s]) /\ v' = Fail(s, "UNVERIFIABLE_REF") /\ UNCHANGED saw
        BY <1>1, <1>2, <1>4, <2>1, FailSound DEF Begin, Codes
    <2>2. CASE /\ Verifiable(Ref[s]) /\ v' = Go(s, "token")
               /\ saw' = [saw EXCEPT ![s].led = {tags[ImageTagFromRef(s)]},
                                    ![s].lacked = {d \in Digests : Bare(attached[d])}]
        <3> DEFINE r == [v[s] EXCEPT !.pc = "token"]
                   w == [saw[s] EXCEPT !.led = {tags[ImageTagFromRef(s)]},
                                       !.lacked = {d \in Digests : Bare(attached[d])}]
        <3>1. v' = [v EXCEPT ![s] = r] /\ saw' = [saw EXCEPT ![s] = w]
            BY <2>2 DEF Go, SoundInv
        <3>2. tags[ImageTagFromRef(s)] \in Digests \cup {None}
            BY <1>1, <2>2, TagOfStep DEF RegistryInv
        <3>3. w \in Sights /\ tags[ImageTagFromRef(s)] \in w.led
            BY <1>1, <3>2 DEF Sights
        <3>4. Sound(s, r, w)
            BY <1>1, <2>2, <3>3 DEF Sound, Verifications, Paths, Requests, Resolved
        <3>5. Still
            BY <1>4 DEF Begin
        <3> HIDE DEF r, w
        <3> QED BY <3>1, <3>4, <3>5, OneMoves
    <2> QED BY <1>4, <2>1, <2>2 DEF Begin
<1>5. CASE FetchRegistryToken(s) \/ FetchBundleBlob(s)
    <2> DEFINE r == [v[s] EXCEPT !.pc = IF v[s].pc = "token" THEN "digest" ELSE "trust"]
    <2>1. v' = [v EXCEPT ![s] = r] /\ Still /\ UNCHANGED saw /\ v[s].pc \in {"token", "blob"}
        BY <1>5 DEF FetchRegistryToken, FetchBundleBlob, At, Go, SoundInv
    <2>2. Sound(s, r, saw[s])
        BY <1>1, <2>1 DEF Sound, Verifications, Paths, Requests, Resolved
    <2> HIDE DEF r
    <2> QED BY <1>1, <1>2, <2>1, <2>2, OneMoves
<1>6. CASE FetchManifestDigest(s)
    <2> DEFINE d == tags[ImageTagFromRef(s)]
               r == [v[s] EXCEPT !.pc = "referrers", !.digest = d]
    <2>1. v[s].pc = "digest" /\ Still /\ UNCHANGED saw
        BY <1>6 DEF FetchManifestDigest, At
    <2>2. d \in Digests \cup {None} /\ d \in saw[s].led /\ Verifiable(Ref[s])
        BY <1>1, <2>1, TagOfStep DEF Sound, Requests, RegistryInv
    <2>3. CASE d = None
        BY <1>1, <1>2, <1>6, <2>1, <2>3, FailSound DEF FetchManifestDigest, Codes
    <2>4. CASE d # None
        <3>1. v' = [v EXCEPT ![s] = r]
            BY <1>6, <2>4 DEF FetchManifestDigest, SoundInv
        <3>2. Sound(s, r, saw[s])
            BY <1>1, <2>1, <2>2, <2>4 DEF Sound, Verifications, Paths, Requests, Resolved
        <3> HIDE DEF r
        <3> QED BY <1>1, <1>2, <2>1, <3>1, <3>2, OneMoves
    <2> QED BY <2>3, <2>4
<1>7. CASE FetchReferrers(s)
    <2>1. v[s].pc = "referrers" /\ Still /\ UNCHANGED saw /\ v[s].digest \in Digests
        BY <1>1, <1>7 DEF FetchReferrers, At, Sound, Resolved
    <2>2. CASE v' = Go(s, "fallback")
        <3> DEFINE r == [v[s] EXCEPT !.pc = "fallback"]
        <3>1. v' = [v EXCEPT ![s] = r]
            BY <2>2 DEF Go, SoundInv
        <3>2. Sound(s, r, saw[s])
            BY <1>1, <2>1 DEF Sound, Verifications, Paths, Requests, Resolved
        <3> HIDE DEF r
        <3> QED BY <1>1, <1>2, <2>1, <3>1, <3>2, OneMoves
    <2>3. CASE \E i \in DOMAIN attached[v[s].digest] :
                  v' = [v EXCEPT ![s].pc = "manifest", ![s].from = attached[v[s].digest][i]]
        <3>1. PICK a \in Held(v[s].digest) : v' = [v EXCEPT ![s].pc = "manifest", ![s].from = a]
            BY <2>3 DEF Held
        <3> DEFINE r == [v[s] EXCEPT !.pc = "manifest", !.from = a]
        <3>2. v' = [v EXCEPT ![s] = r]
            BY <3>1 DEF SoundInv
        <3>3. a \in ArtifactSet
            BY <1>1, <2>1, HeldAre
        <3>4. Sound(s, r, saw[s])
            BY <1>1, <2>1, <3>3 DEF Sound, Verifications, Paths, Requests, Resolved
        <3> HIDE DEF r
        <3> QED BY <1>1, <1>2, <2>1, <3>2, <3>4, OneMoves
    <2> QED BY <1>7, <2>2, <2>3 DEF FetchReferrers
<1>8. CASE FetchBundleFromManifestDigest(s)
    BY <1>1, <1>8, LayerSound DEF FetchBundleFromManifestDigest, At, Sound
<1>9. CASE FetchFallbackTag(s)
    <2> DEFINE list == attached[v[s].digest]
    <2>1. /\ v[s].pc = "fallback" /\ Still /\ UNCHANGED saw /\ v[s].digest \in Digests
          /\ list \in Seq(ArtifactSet)
        BY <1>1, <1>9 DEF FetchFallbackTag, At, Sound, Resolved, RegistryInv
    <2>2. CASE v' = Fail(s, "NOT_FOUND")
        BY <1>1, <1>2, <2>1, <2>2, FailSound DEF Codes
    <2>3. CASE v' = [v EXCEPT ![s].pc = "probe", ![s].left = list]
        <3> DEFINE r == [v[s] EXCEPT !.pc = "probe", !.left = list]
        <3>1. v' = [v EXCEPT ![s] = r]
            BY <2>3 DEF SoundInv
        <3>2. Sound(s, r, saw[s])
            BY <1>1, <2>1 DEF Sound, Verifications, Paths, Requests, Resolved, Held
        <3> HIDE DEF r
        <3> QED BY <1>1, <1>2, <2>1, <3>1, <3>2, OneMoves
    <2>4. CASE list # <<>> /\ v' = Layer(s, list[Len(list)])
        <3>1. list[Len(list)] \in Held(v[s].digest)
            BY <2>1, <2>4 DEF Held
        <3> QED BY <2>1, <2>4, <3>1, LayerSound
    <2> QED BY <1>9, <2>2, <2>3, <2>4 DEF FetchFallbackTag
<1>10. CASE Probe(s)
    <2>1. /\ v[s].pc = "probe" /\ Still /\ UNCHANGED saw /\ v[s].digest \in Digests
          /\ v[s].left \in Seq(ArtifactSet) /\ \A i \in DOMAIN v[s].left : v[s].left[i] \in Held(v[s].digest)
        BY <1>1, <1>10 DEF Probe, At, Sound, Resolved, Verifications
    <2>2. CASE v[s].left = <<>>
        BY <1>1, <1>2, <1>10, <2>1, <2>2, FailSound DEF Probe, Codes
    <2>3. CASE v[s].left # <<>>
        <3> DEFINE a == Head(v[s].left)
        <3>1. a \in Held(v[s].digest)
            BY <2>1, <2>3
        <3>2. a \in ArtifactSet
            BY <1>1, <2>1, <3>1, HeldAre
        <3>3. CASE v' = [v EXCEPT ![s].pc = "manifest", ![s].from = a]
            <4> DEFINE r == [v[s] EXCEPT !.pc = "manifest", !.from = a]
            <4>1. v' = [v EXCEPT ![s] = r]
                BY <3>3 DEF SoundInv
            <4> HIDE DEF a
            <4>2. Sound(s, r, saw[s])
                BY <1>1, <2>1, <3>1, <3>2 DEF Sound, Verifications, Paths, Requests, Resolved
            <4> HIDE DEF r
            <4> QED BY <1>1, <1>2, <2>1, <4>1, <4>2, OneMoves
        <3>4. CASE v' = Layer(s, a)
            BY <2>1, <3>1, <3>4, LayerSound
        <3>5. CASE v' = [v EXCEPT ![s].left = Tail(@)]
            <4> DEFINE r == [v[s] EXCEPT !.left = Tail(@)]
            <4>1. v' = [v EXCEPT ![s] = r]
                BY <3>5 DEF SoundInv
            <4>2. /\ Tail(v[s].left) \in Seq(ArtifactSet)
                  /\ \A i \in DOMAIN Tail(v[s].left) :
                        i + 1 \in DOMAIN v[s].left /\ Tail(v[s].left)[i] = v[s].left[i + 1]
                BY <2>1, <2>3
            <4>3. Sound(s, r, saw[s])
                BY <1>1, <2>1, <4>2 DEF Sound, Verifications, Paths, Requests, Resolved
            <4> HIDE DEF r
            <4> QED BY <1>1, <1>2, <2>1, <4>1, <4>3, OneMoves
        <3> QED BY <1>10, <2>3, <3>3, <3>4, <3>5 DEF Probe
    <2> QED BY <2>2, <2>3
<1>11. CASE VerifyBundle(s)
    <2> DEFINE b == v[s].from.layer
    <2>1. /\ v[s].pc = "trust" /\ Still /\ UNCHANGED saw /\ v[s].digest \in Digests
          /\ v[s].digest \in saw[s].led /\ v[s].from \in Held(v[s].digest) /\ b \in Bundles
          /\ Verifiable(Ref[s])
        BY <1>1, <1>11 DEF VerifyBundle, At, Sound, Resolved, Requests
    <2>2. CASE v' = Fail(s, "VERIFY_FAILED")
        BY <1>1, <1>2, <2>1, <2>2, FailSound DEF Codes
    <2>3. CASE /\ BuildVerifyOptions(Ref[s], b) /\ AssertSignedDigest(b, v[s].digest)
               /\ v' = End(s, "verified", "ok")
        <3> DEFINE r == [Idle EXCEPT !.pc = "verified", !.digest = v[s].digest, !.result = "ok"]
        <3>1. Vouches(b, s, v[s].digest)
            BY <2>1, <2>3, RefKinds, RegistryOK DEF BuildVerifyOptions, AssertSignedDigest, Vouches, Verifiable
        <3>2. r \in Verifications /\ r.pc = "verified" /\ r.digest = v[s].digest
            BY <1>1, IdleIs DEF Verifications, Paths
        <3>3. Sound(s, r, saw[s])
            BY <1>1, <2>1, <3>1, <3>2 DEF Sound, Requests, Resolved
        <3>4. v' = [v EXCEPT ![s] = r]
            BY <2>3 DEF End
        <3> HIDE DEF r
        <3> QED BY <1>1, <1>2, <2>1, <3>3, <3>4, OneMoves
    <2> QED BY <1>11, <2>2, <2>3 DEF VerifyBundle
<1> QED
    BY <1>3, <1>4, <1>5, <1>6, <1>7, <1>8, <1>9, <1>10, <1>11 DEF Verify

LEMMA SoundKept == ASSUME SoundInv, UNCHANGED vars PROVE SoundInv'
<1>1. /\ RegistryInv' /\ UNCHANGED <<tags, attached, v, saw>>
    BY DEF SoundInv, RegistryInv, vars
<1> QED BY <1>1 DEF SoundInv, Sound, Held

\* A verification that succeeded is not looked at again.
LEMMA VerifiedStays ==
    ASSUME SoundInv, NEW s \in Steps, Verify(s), NEW t \in Steps, v[t].pc = "verified"
    PROVE  v'[t] = v[t]
<1>1. v[s].pc # "verified"
    <2>1. CASE Fault(s)
        BY <2>1, RegistryOK DEF Fault, At, Requests
    <2>2. CASE ~Fault(s)
        BY <2>2 DEF Verify, Begin, FetchRegistryToken, FetchManifestDigest, FetchReferrers,
            FetchBundleFromManifestDigest, FetchFallbackTag, Probe, FetchBundleBlob, VerifyBundle, At
    <2> QED BY <2>1, <2>2
<1>2. t # s /\ v \in [Steps -> Verifications]
    BY <1>1 DEF SoundInv
<1>3. \A code : v' = Fail(s, code) => v'[t] = v[t]
    BY <1>2 DEF Fail, End
<1>4. \A a : v' = Layer(s, a) => v'[t] = v[t]
    BY <1>2 DEF Layer, Fail, End
<1>5. \A pc : v' = Go(s, pc) => v'[t] = v[t]
    BY <1>2 DEF Go
<1>6. CASE Fault(s)
    BY <1>2, <1>3, <1>5, <1>6 DEF Fault
<1>7. CASE Begin(s) \/ FetchRegistryToken(s) \/ FetchBundleBlob(s)
    BY <1>3, <1>5, <1>7 DEF Begin, FetchRegistryToken, FetchBundleBlob
<1>8. CASE FetchManifestDigest(s) \/ FetchReferrers(s)
    BY <1>2, <1>3, <1>5, <1>8 DEF FetchManifestDigest, FetchReferrers
<1>9. CASE FetchBundleFromManifestDigest(s) \/ FetchFallbackTag(s)
    BY <1>2, <1>3, <1>4, <1>9 DEF FetchBundleFromManifestDigest, FetchFallbackTag
<1>10. CASE Probe(s)
    BY <1>2, <1>3, <1>4, <1>10 DEF Probe
<1>11. CASE VerifyBundle(s)
    BY <1>2, <1>3, <1>11 DEF VerifyBundle, End
<1> QED BY <1>6, <1>7, <1>8, <1>9, <1>10, <1>11 DEF Verify

\* The answers taken for an absence, or gone on from without one, are those
\* named in Misread.
LEMMA MisreadOnly ==
    ASSUME NEW f \in Requests \X Statuses, Classify(f[1], f[2]) \in {"NOT_FOUND", "next"}
    PROVE  f \in Misread
<1>1. f[1] \in Requests /\ f[2] \in Statuses /\ f = <<f[1], f[2]>>
    OBVIOUS
<1>2. CASE f[1] \in {"token", "manifest", "trust"}
    BY <1>2 DEF Classify
<1>3. CASE f[1] = "digest"
    BY <1>1, <1>3 DEF Classify, Misread
<1>4. CASE f[1] = "referrers"
    BY <1>1, <1>4 DEF Classify, Misread, Statuses
<1>5. CASE f[1] = "fallback"
    BY <1>1, <1>5 DEF Classify, Misread, Statuses
<1>6. CASE f[1] = "probe"
    BY <1>1, <1>6 DEF Classify, Misread, Statuses
<1>7. CASE f[1] = "blob"
    BY <1>1, <1>7 DEF Classify, Misread, Statuses
<1> QED BY <1>1, <1>2, <1>3, <1>4, <1>5, <1>6, <1>7 DEF Requests

\* The digest had nothing to show, or something that is not what it is listed as.
Missing(r, w) == r.digest \in w.lacked \/ (r.digest \in Digests /\ ~WellFormed(attached[r.digest]))

Gone(r, w) == None \in w.led \/ Missing(r, w) \/ w.misled

\* What lets a verification fail when nothing failed and nothing changed.
Unfit(s, r, w) ==
    \/ None \in w.led
    \/ /\ r.digest \in w.led \cap Digests
       /\ Missing(r, w) \/ \E a \in Held(r.digest) : a.layer # None /\ ~Vouches(a.layer, s, r.digest)

\* Why a verification may fail: it knows what has had nothing to show since it
\* began, and it gives up no artifact that may be a bundle unless an answer
\* misled it, after which the registry is no longer quiet.
Traced(s, r, w) ==
    /\ w.misled => ~w.quiet
    /\ r.pc \in Requests \cup {"idle"} => r.result = None
    /\ r.pc \in Requests => \A d \in Digests : Bare(attached[d]) => d \in w.lacked
    /\ r.pc = "manifest" => r.from.is = "bundle" \/ r.from.listed = "bundle"
    /\ r.pc = "fallback" /\ kind = "api" => r.digest \in w.lacked \/ w.misled
    /\ r.pc = "probe" =>
          kind = "index" /\ (Missing(r, w) \/ w.misled \/ \E i \in DOMAIN r.left : IsBundle(r.left[i]))
    /\ r.result = "NOT_FOUND" => Gone(r, w)
    /\ r.pc = "failed" /\ Verifiable(Ref[s]) /\ w.quiet => Unfit(s, r, w)

TracedInv == \A s \in Steps : Traced(s, v[s], saw[s])

LEMMA InitTraced == Init => TracedInv
<1>1. ASSUME NEW s \in Steps PROVE Traced(s, Idle, Unseen)
    <2>1. /\ Idle.pc = "idle" /\ Idle.result = None
          /\ ~Unseen.misled
        BY DEF Idle, Unseen
    <2>2. None # "NOT_FOUND"
        BY RegistryOK
    <2> QED BY <2>1, <2>2 DEF Traced, Requests
<1> QED BY <1>1 DEF Init, TracedInv

LEMMA WellFormedGrows ==
    ASSUME RegistryInv, NEW d \in Digests, NEW a \in ArtifactSet, NEW e \in Digests,
           attached' = [attached EXCEPT ![d] = Append(@, a)], ~WellFormed(attached[e])
    PROVE  ~WellFormed(attached[e])'
<1>1. CASE e = d
    <2>1. attached[d] \in Seq(ArtifactSet) /\ attached'[d] = Append(attached[d], a)
        BY DEF RegistryInv
    <2>2. \A i \in DOMAIN attached[d] : i \in DOMAIN attached'[d] /\ attached'[d][i] = attached[d][i]
        BY <2>1
    <2> QED BY <1>1, <2>2 DEF WellFormed
<1>2. CASE e # d
    BY <1>2 DEF RegistryInv
<1> QED BY <1>1, <1>2

\* What the registry changes takes no reason away.
LEMMA RegistryTraced ==
    ASSUME SoundInv, TracedInv, UNCHANGED <<v, kind>>,
           \A s \in Steps : /\ saw[s].led \subseteq saw'[s].led /\ saw[s].lacked \subseteq saw'[s].lacked
                           /\ saw'[s].misled = saw[s].misled /\ (saw'[s].quiet => saw[s].quiet),
           \A d \in Digests : /\ Held(d) \subseteq Held(d)'
                             /\ (~WellFormed(attached[d]) => ~WellFormed(attached[d])'),
           \A s \in Steps : v[s].pc \in Requests =>
              \A d \in Digests : Bare(attached[d])' => d \in saw'[s].lacked
    PROVE  TracedInv'
<1> SUFFICES ASSUME NEW s \in Steps PROVE Traced(s, v[s], saw[s])'
    BY DEF TracedInv
<1>1. Traced(s, v[s], saw[s]) /\ v'[s] = v[s] /\ kind' = kind
    BY DEF TracedInv
<1>2. Missing(v[s], saw[s]) => Missing(v[s], saw[s])'
    <2> DEFINE d == v[s].digest
    <2>1. CASE d \in saw[s].lacked
        BY <1>1, <2>1 DEF Missing
    <2>2. CASE d \in Digests /\ ~WellFormed(attached[d])
        <3>1. ~WellFormed(attached[d])'
            BY <1>1, <2>2
        <3> QED BY <1>1, <2>2, <3>1 DEF Missing
    <2> QED BY <2>1, <2>2 DEF Missing
<1>3. Gone(v[s], saw[s]) => Gone(v[s], saw[s])'
    BY <1>2 DEF Gone
<1>4. Unfit(s, v[s], saw[s]) => Unfit(s, v[s], saw[s])'
    <2> DEFINE d == v[s].digest
               Other(a) == a.layer # None /\ ~Vouches(a.layer, s, d)
    <2>1. CASE None \in saw[s].led
        BY <1>1, <2>1 DEF Unfit
    <2>2. CASE d \in saw[s].led \cap Digests /\ Missing(v[s], saw[s])
        BY <1>1, <1>2, <2>2 DEF Unfit
    <2>3. ASSUME d \in saw[s].led \cap Digests, NEW a \in Held(d), Other(a) PROVE Unfit(s, v[s], saw[s])'
        <3>1. d \in saw'[s].led \cap Digests /\ a \in Held(d)'
            BY <1>1, <2>3
        <3>2. Other(a)'
            BY <1>1, <2>3
        <3> QED BY <1>1, <3>1, <3>2 DEF Unfit
    <2> QED BY <2>1, <2>2, <2>3 DEF Unfit
<1> QED BY <1>1, <1>2, <1>3, <1>4 DEF Traced

LEMMA PushTraced ==
    ASSUME SoundInv, TracedInv, NEW t \in Tags, NEW d \in Digests, Push(t, d) PROVE TracedInv'
<1>1. UNCHANGED <<attached, v, kind>>
    BY DEF Push
<1>2. ASSUME NEW s \in Steps
      PROVE  /\ saw[s].led \subseteq saw'[s].led /\ saw[s].lacked \subseteq saw'[s].lacked
             /\ saw'[s].misled = saw[s].misled /\ (saw'[s].quiet => saw[s].quiet)
    <2>1. saw[s] \in Sights
        BY DEF SoundInv
    <2> QED BY <2>1 DEF Push, Disturb, Sights
<1>3. ASSUME NEW s \in Steps, v[s].pc \in Requests, NEW e \in Digests, Bare(attached[e])'
      PROVE  e \in saw'[s].lacked
    <2>1. Bare(attached[e])
        BY <1>1, <1>3 DEF Bare
    <2> QED BY <1>2, <1>3, <2>1 DEF TracedInv, Traced
<1>4. \A e \in Digests : Held(e) \subseteq Held(e)'
    BY <1>1 DEF Held
<1> QED BY <1>1, <1>2, <1>3, <1>4, RegistryTraced

LEMMA AttachTraced ==
    ASSUME SoundInv, TracedInv, NEW a \in ArtifactSet, NEW d \in Digests, Attach(d, a) PROVE TracedInv'
<1>1. UNCHANGED <<tags, v, kind>> /\ attached' = [attached EXCEPT ![d] = Append(@, a)] /\ RegistryInv
    BY DEF Attach, SoundInv
<1> DEFINE bare == Bare(attached'[d])
<1>2. ASSUME NEW s \in Steps
      PROVE  /\ saw[s].led \subseteq saw'[s].led /\ saw[s].lacked \subseteq saw'[s].lacked
             /\ saw'[s].misled = saw[s].misled /\ (saw'[s].quiet => saw[s].quiet)
             /\ s \in Active /\ bare => d \in saw'[s].lacked
    <2>1. saw[s] \in Sights
        BY DEF SoundInv
    <2>2. Disturb(None, d, bare)
        BY DEF Attach
    <2> HIDE DEF bare
    <2> QED BY <2>1, <2>2 DEF Disturb, Sights
<1>3. ASSUME NEW s \in Steps, v[s].pc \in Requests, NEW e \in Digests, Bare(attached[e])'
      PROVE  e \in saw'[s].lacked
    <2>1. CASE e = d
        <3>1. s \in Active
            BY <1>3 DEF Active, Requests
        <3>2. bare
            BY <1>1, <1>3, <2>1 DEF Bare
        <3> QED BY <1>2, <2>1, <3>1, <3>2
    <2>2. CASE e # d
        <3>1. attached'[e] = attached[e]
            BY <1>1, <2>2 DEF RegistryInv
        <3>2. Bare(attached[e])
            BY <1>1, <1>3, <3>1 DEF Bare
        <3> QED BY <1>2, <1>3, <3>2 DEF TracedInv, Traced
    <2> QED BY <2>1, <2>2
<1>4. \A e \in Digests : Held(e) \subseteq Held(e)' /\ (~WellFormed(attached[e]) => ~WellFormed(attached[e])')
    BY <1>1, HeldGrows, WellFormedGrows
<1> HIDE DEF bare
<1> QED BY <1>1, <1>2, <1>3, <1>4, RegistryTraced

LEMMA OneTraced ==
    ASSUME SoundInv, TracedInv, Still, NEW s \in Steps, NEW r, NEW w, Traced(s, r, w),
           v' = [v EXCEPT ![s] = r], saw' = [saw EXCEPT ![s] = w]
    PROVE  TracedInv'
<1>1. ASSUME NEW t \in Steps PROVE Traced(t, v'[t], saw'[t])
    <2>1. CASE t = s  BY <2>1 DEF SoundInv
    <2>2. CASE t # s  BY <2>2 DEF SoundInv, TracedInv
    <2> QED BY <2>1, <2>2
<1>2. ASSUME NEW t \in Steps PROVE Traced(t, v[t], saw[t])'
    BY <1>1 DEF Traced, Gone, Unfit, Missing, Still, Held, Bare
<1> QED BY <1>2 DEF TracedInv

LEMMA FailTraced ==
    ASSUME SoundInv, TracedInv, Still, NEW s \in Steps, NEW code \in Codes, NEW w \in Sights,
           v' = Fail(s, code), saw' = [saw EXCEPT ![s] = w], w.misled => ~w.quiet,
           code = "NOT_FOUND" => Gone(v[s], w),
           Verifiable(Ref[s]) /\ w.quiet => Unfit(s, v[s], w)
    PROVE  TracedInv'
<1> DEFINE r == [Idle EXCEPT !.pc = "failed", !.digest = v[s].digest, !.result = code]
<1>1. r.pc = "failed" /\ r.digest = v[s].digest /\ r.result = code
    BY IdleIs DEF Verifications
<1>2. v' = [v EXCEPT ![s] = r]
    BY DEF Fail, End
<1> HIDE DEF r
<1>3. Gone(v[s], w) => Gone(r, w)
    BY <1>1 DEF Gone, Missing
<1>4. Unfit(s, v[s], w) => Unfit(s, r, w)
    BY <1>1 DEF Unfit, Missing
<1>5. Traced(s, r, w)
    BY <1>1, <1>3, <1>4 DEF Traced, Requests
<1> QED BY <1>2, <1>5, OneTraced

\* A verification that goes on, with what it saw until now.
LEMMA GoesOn ==
    ASSUME SoundInv, TracedInv, Still, UNCHANGED saw, NEW s \in Steps, v[s].pc \in Requests,
           NEW r, v' = [v EXCEPT ![s] = r], r.result = v[s].result, r.pc \in Requests,
           r.pc = "manifest" => r.from.is = "bundle" \/ r.from.listed = "bundle",
           r.pc = "fallback" /\ kind = "api" => r.digest \in saw[s].lacked \/ saw[s].misled,
           r.pc = "probe" =>
              kind = "index" /\ (Missing(r, saw[s]) \/ saw[s].misled \/ \E i \in DOMAIN r.left : IsBundle(r.left[i]))
    PROVE  TracedInv'
<1>1. Traced(s, v[s], saw[s]) /\ saw' = [saw EXCEPT ![s] = saw[s]]
    BY DEF TracedInv, SoundInv
<1>2. r.result = None /\ None # "NOT_FOUND"
    BY <1>1, RegistryOK DEF Traced
<1>3. Traced(s, r, saw[s])
    BY <1>1, <1>2 DEF Traced, Requests
<1> QED BY <1>1, <1>3, OneTraced

\* A layer that is not there, of an artifact that should have one, is reason enough.
LEMMA LayerTraced ==
    ASSUME SoundInv, TracedInv, Still, UNCHANGED saw, NEW s \in Steps,
           v[s].pc \in {"manifest", "fallback", "probe"}, NEW a \in Held(v[s].digest), v' = Layer(s, a),
           a.layer = None => Missing(v[s], saw[s])
    PROVE  TracedInv'
<1>1. /\ Traced(s, v[s], saw[s]) /\ saw' = [saw EXCEPT ![s] = saw[s]] /\ saw[s] \in Sights
      /\ v[s].digest \in Digests \cap saw[s].led
    BY DEF TracedInv, SoundInv, Sound, Resolved
<1>2. CASE a.layer = None
    <2>1. v' = Fail(s, "NOT_FOUND") /\ "NOT_FOUND" \in Codes
        BY <1>2 DEF Layer, Codes
    <2>2. Gone(v[s], saw[s]) /\ Unfit(s, v[s], saw[s])
        BY <1>1, <1>2 DEF Gone, Unfit
    <2>3. saw[s].misled => ~saw[s].quiet
        BY <1>1 DEF Traced
    <2> QED BY <1>1, <2>1, <2>2, <2>3, FailTraced
<1>3. CASE a.layer # None
    <2> DEFINE r == [v[s] EXCEPT !.pc = "blob", !.from = a]
    <2>1. v' = [v EXCEPT ![s] = r] /\ v[s] \in Verifications
        BY <1>3 DEF Layer, SoundInv
    <2>2. r.pc = "blob" /\ r.result = v[s].result
        BY <2>1 DEF Verifications
    <2> HIDE DEF r
    <2> QED BY <2>1, <2>2, GoesOn DEF Requests
<1> QED BY <1>2, <1>3

LEMMA FaultTraced == ASSUME SoundInv, TracedInv, NEW s \in Steps, Fault(s) PROVE TracedInv'
<1>1. PICK f \in Faults :
        LET code == Classify(f[1], f[2]) IN
        /\ At(s, f[1])
        /\ f[1] = "probe" => v[s].left # <<>> /\ Head(v[s].left).listed = "empty"
        /\ \/ code # "next" /\ v' = Fail(s, code)
           \/ code = "next" /\ f[1] = "referrers" /\ v' = Go(s, "fallback")
           \/ code = "next" /\ f[1] = "probe" /\ v' = [v EXCEPT ![s].left = Tail(@)]
        /\ saw' = [saw EXCEPT ![s].quiet = FALSE, ![s].misled = @ \/ f \in Misread]
        /\ Still
    BY DEF Fault
<1> DEFINE code == Classify(f[1], f[2])
           skip == saw[s].misled \/ f \in Misread
           w == [saw[s] EXCEPT !.quiet = FALSE, !.misled = skip]
<1>2. /\ f[1] \in Requests /\ f[2] \in Statuses /\ code \in Codes \cup {"next"}
    BY RegistryOK, Codified
<1>3. v[s] \in Verifications /\ saw[s] \in Sights /\ Traced(s, v[s], saw[s])
    BY DEF SoundInv, TracedInv
<1>4. saw' = [saw EXCEPT ![s] = w]
    BY <1>1 DEF SoundInv
<1>5. skip \in BOOLEAN
    BY <1>3 DEF Sights
<1>6. Still /\ v[s].pc = f[1] /\ v[s].pc \in Requests
    BY <1>1, <1>2 DEF At
<1>7. code \in {"NOT_FOUND", "next"} => skip = TRUE
    BY RegistryOK, MisreadOnly
<1> HIDE DEF skip
<1>8. w \in Sights /\ w.lacked = saw[s].lacked /\ w.quiet = FALSE /\ w.misled = skip
    BY <1>3, <1>5 DEF Sights
<1>9. v[s].result = None /\ None # "NOT_FOUND"
    BY <1>3, <1>6, RegistryOK DEF Traced
<1> HIDE DEF w
<1>10. code = "NOT_FOUND" => Gone(v[s], w)
    BY <1>7, <1>8 DEF Gone
<1>11. ASSUME NEW r, v' = [v EXCEPT ![s] = r], r.result = None, skip = TRUE,
              r.pc = "fallback" \/ (r.pc = "probe" /\ kind = "index")
       PROVE  TracedInv'
    <2>1. \A d \in Digests : Bare(attached[d]) => d \in w.lacked
        BY <1>3, <1>6, <1>8 DEF Traced
    <2>2. Traced(s, r, w)
        BY <1>8, <1>9, <1>11, <2>1 DEF Traced, Requests
    <2> QED BY <1>4, <1>6, <1>11, <2>2, OneTraced
<1>12. CASE code # "next" /\ v' = Fail(s, code)
    <2> HIDE DEF code
    <2> QED BY <1>2, <1>4, <1>6, <1>8, <1>10, <1>12, FailTraced
<1>13. CASE code = "next" /\ f[1] = "referrers" /\ v' = Go(s, "fallback")
    <2> DEFINE r == [v[s] EXCEPT !.pc = "fallback"]
    <2>1. v' = [v EXCEPT ![s] = r]
        BY <1>13 DEF Go, SoundInv
    <2>2. r.pc = "fallback" /\ r.result = None
        BY <1>3, <1>9 DEF Verifications
    <2> HIDE DEF r
    <2> QED BY <1>7, <1>11, <1>13, <2>1, <2>2
<1>14. CASE code = "next" /\ f[1] = "probe" /\ v' = [v EXCEPT ![s].left = Tail(@)]
    <2> DEFINE r == [v[s] EXCEPT !.left = Tail(@)]
    <2>1. v' = [v EXCEPT ![s] = r]
        BY <1>14 DEF SoundInv
    <2>2. r.pc = "probe" /\ r.result = None /\ kind = "index"
        BY <1>3, <1>6, <1>9, <1>14 DEF Verifications, Traced
    <2> HIDE DEF r
    <2> QED BY <1>7, <1>11, <1>14, <2>1, <2>2
<1> QED BY <1>1, <1>12, <1>13, <1>14

LEMMA VerifyTraced == ASSUME SoundInv, TracedInv, NEW s \in Steps, Verify(s) PROVE TracedInv'
<1> DEFINE d == v[s].digest
<1>1. /\ v[s] \in Verifications /\ saw[s] \in Sights /\ RegistryInv
      /\ Sound(s, v[s], saw[s]) /\ Traced(s, v[s], saw[s])
    BY DEF SoundInv, TracedInv
<1>2. /\ UNCHANGED saw => saw' = [saw EXCEPT ![s] = saw[s]]
      /\ saw[s].misled => ~saw[s].quiet
    BY <1>1 DEF SoundInv, Traced
\* Steps that find what they ask for absent.
<1>3. ASSUME v[s].pc \in Resolved, v' = Fail(s, "NOT_FOUND"), UNCHANGED saw, Still,
             Missing(v[s], saw[s]) \/ saw[s].misled
      PROVE  TracedInv'
    <2>1. Gone(v[s], saw[s])
        BY <1>3 DEF Gone
    <2>2. saw[s].quiet => Unfit(s, v[s], saw[s])
        BY <1>1, <1>2, <1>3 DEF Sound, Unfit
    <2>3. "NOT_FOUND" \in Codes
        BY DEF Codes
    <2> QED BY <1>1, <1>2, <1>3, <2>1, <2>2, <2>3, FailTraced
<1>4. CASE Fault(s)
    BY <1>4, FaultTraced
<1>5. CASE Begin(s)
    <2>1. CASE ~Verifiable(Ref[s]) /\ v' = Fail(s, "UNVERIFIABLE_REF") /\ UNCHANGED saw
        BY <1>1, <1>2, <1>5, <2>1, FailTraced DEF Begin, Codes
    <2>2. CASE /\ Verifiable(Ref[s]) /\ v' = Go(s, "token")
               /\ saw' = [saw EXCEPT ![s].led = {tags[ImageTagFromRef(s)]},
                                    ![s].lacked = {e \in Digests : Bare(attached[e])}]
        <3> DEFINE lacked == {e \in Digests : Bare(attached[e])}
                   r == [v[s] EXCEPT !.pc = "token"]
                   w == [saw[s] EXCEPT !.led = {tags[ImageTagFromRef(s)]}, !.lacked = lacked]
        <3>1. v' = [v EXCEPT ![s] = r] /\ saw' = [saw EXCEPT ![s] = w] /\ v[s].pc = "idle" /\ Still
            BY <1>5, <2>2 DEF Begin, At, Go, SoundInv
        <3>2. \A e \in Digests : Bare(attached[e]) => e \in lacked
            OBVIOUS
        <3> HIDE DEF lacked
        <3>3. w.lacked = lacked /\ w.misled = saw[s].misled /\ w.quiet = saw[s].quiet
            BY <1>1 DEF Sights
        <3>4. r.pc = "token" /\ r.result = None /\ None # "NOT_FOUND"
            BY <1>1, <3>1, RegistryOK DEF Verifications, Traced
        <3> HIDE DEF r, w
        <3>5. Traced(s, r, w)
            BY <1>2, <3>2, <3>3, <3>4 DEF Traced
        <3> QED BY <3>1, <3>5, OneTraced
    <2> QED BY <1>5, <2>1, <2>2 DEF Begin
<1>6. CASE FetchRegistryToken(s) \/ FetchBundleBlob(s)
    <2> DEFINE next == IF v[s].pc = "token" THEN "digest" ELSE "trust"
               r == [v[s] EXCEPT !.pc = next]
    <2>1. v' = [v EXCEPT ![s] = r] /\ Still /\ UNCHANGED saw /\ v[s].pc \in {"token", "blob"}
        BY <1>6 DEF FetchRegistryToken, FetchBundleBlob, At, Go, SoundInv
    <2>2. r.pc \in {"digest", "trust"} /\ r.result = v[s].result
        BY <1>1 DEF Verifications
    <2> HIDE DEF r, next
    <2> QED BY <2>1, <2>2, GoesOn DEF Requests
<1>7. CASE FetchManifestDigest(s)
    <2> DEFINE e == tags[ImageTagFromRef(s)]
               r == [v[s] EXCEPT !.pc = "referrers", !.digest = e]
    <2>1. v[s].pc = "digest" /\ Still /\ UNCHANGED saw /\ e \in saw[s].led
        BY <1>1, <1>7 DEF FetchManifestDigest, At, Sound, Requests
    <2>2. CASE e = None
        <3>1. Gone(v[s], saw[s]) /\ Unfit(s, v[s], saw[s]) /\ "NOT_FOUND" \in Codes
            BY <2>1, <2>2 DEF Gone, Unfit, Codes
        <3>2. v' = Fail(s, "NOT_FOUND")
            BY <1>7, <2>2 DEF FetchManifestDigest
        <3> QED BY <1>1, <1>2, <2>1, <3>1, <3>2, FailTraced
    <2>3. CASE e # None
        <3>1. v' = [v EXCEPT ![s] = r]
            BY <1>7, <2>3 DEF FetchManifestDigest, SoundInv
        <3>2. r.pc = "referrers" /\ r.result = v[s].result
            BY <1>1 DEF Verifications
        <3> HIDE DEF r, e
        <3> QED BY <2>1, <3>1, <3>2, GoesOn DEF Requests
    <2> QED BY <2>2, <2>3
<1>8. CASE FetchReferrers(s)
    <2> DEFINE list == attached[d]
    <2>1. /\ v[s].pc = "referrers" /\ Still /\ UNCHANGED saw /\ d \in Digests
        BY <1>1, <1>8 DEF FetchReferrers, At, Sound, Resolved
    <2>2. CASE kind = "api" /\ \E i \in DOMAIN list : list[i].is = "bundle"
        <3>1. PICK i \in DOMAIN list :
                  /\ list[i].is = "bundle"
                  /\ v' = [v EXCEPT ![s].pc = "manifest", ![s].from = list[i]]
            BY <1>8, <2>2 DEF FetchReferrers
        <3> DEFINE a == list[i]
                   r == [v[s] EXCEPT !.pc = "manifest", !.from = a]
        <3>2. v' = [v EXCEPT ![s] = r]
            BY <3>1 DEF SoundInv
        <3>3. a.is = "bundle"
            BY <3>1
        <3> HIDE DEF a
        <3>4. r.pc = "manifest" /\ r.result = v[s].result /\ r.from = a
            BY <1>1 DEF Verifications
        <3> HIDE DEF r
        <3> QED BY <2>1, <3>2, <3>3, <3>4, GoesOn DEF Requests
    <2>3. CASE ~(kind = "api" /\ \E i \in DOMAIN list : list[i].is = "bundle")
        <3> DEFINE r == [v[s] EXCEPT !.pc = "fallback"]
        <3>1. v' = [v EXCEPT ![s] = r]
            BY <1>8, <2>3 DEF FetchReferrers, Go, SoundInv
        <3>2. r.pc = "fallback" /\ r.result = v[s].result /\ r.digest = d
            BY <1>1 DEF Verifications
        <3> HIDE DEF r
        <3>3. kind = "api" => Bare(list)
            BY <2>3 DEF Bare, IsBundle
        <3>4. kind = "api" => d \in saw[s].lacked
            BY <1>1, <2>1, <3>3 DEF Traced, Requests
        <3> QED BY <2>1, <3>1, <3>2, <3>4, GoesOn DEF Requests
    <2> QED BY <2>2, <2>3
<1>9. CASE FetchBundleFromManifestDigest(s)
    <2> DEFINE a == v[s].from
    <2>1. /\ v[s].pc = "manifest" /\ Still /\ UNCHANGED saw /\ v' = Layer(s, a) /\ a \in Held(d)
          /\ d \in Digests /\ (a.is = "bundle" \/ a.listed = "bundle")
        BY <1>1, <1>9 DEF FetchBundleFromManifestDigest, At, Sound, Traced, Resolved
    <2>2. a.layer = None => ~WellFormed(attached[d])
        BY <2>1 DEF WellFormed, Held
    <2> QED BY <2>1, <2>2, LayerTraced DEF Missing
<1>10. CASE FetchFallbackTag(s)
    <2> DEFINE list == attached[d]
    <2>1. /\ v[s].pc = "fallback" /\ Still /\ UNCHANGED saw /\ d \in Digests
          /\ list \in Seq(ArtifactSet) /\ v[s].pc \in Resolved
        BY <1>1, <1>10 DEF FetchFallbackTag, At, Sound, Resolved, RegistryInv
    <2>2. Bare(list) => Missing(v[s], saw[s])
        BY <1>1, <2>1 DEF Traced, Requests, Missing
    <2>3. CASE (kind = "api" \/ list = <<>>) /\ v' = Fail(s, "NOT_FOUND")
        <3>1. list = <<>> => Bare(list)
            BY DEF Bare
        <3>2. Missing(v[s], saw[s]) \/ saw[s].misled
            BY <1>1, <2>1, <2>2, <2>3, <3>1 DEF Traced, Missing
        <3> QED BY <1>3, <2>1, <2>3, <3>2
    <2>4. CASE kind = "index" /\ v' = [v EXCEPT ![s].pc = "probe", ![s].left = list]
        <3> DEFINE r == [v[s] EXCEPT !.pc = "probe", !.left = list]
        <3>1. v' = [v EXCEPT ![s] = r]
            BY <2>4 DEF SoundInv
        <3>2. r.pc = "probe" /\ r.result = v[s].result /\ r.digest = d /\ r.left = list
            BY <1>1 DEF Verifications
        <3> HIDE DEF r
        <3>3. Bare(list) \/ \E i \in DOMAIN list : IsBundle(list[i])
            BY <2>4 DEF Bare
        <3>4. Missing(r, saw[s]) \/ \E i \in DOMAIN r.left : IsBundle(r.left[i])
            BY <2>2, <3>2, <3>3 DEF Missing
        <3> QED BY <2>1, <2>4, <3>1, <3>2, <3>4, GoesOn DEF Requests
    <2>5. CASE kind = "legacy" /\ list # <<>> /\ v' = Layer(s, list[Len(list)])
        <3>1. list[Len(list)] \in Held(d)
            BY <2>1, <2>5 DEF Held
        <3>2. list[Len(list)].layer = None => Bare(list)
            BY <2>5 DEF Bare, IsBundle
        <3> QED BY <2>1, <2>2, <2>5, <3>1, <3>2, LayerTraced
    <2> QED BY <1>10, <2>3, <2>4, <2>5 DEF FetchFallbackTag
<1>11. CASE Probe(s)
    <2> DEFINE left == v[s].left
    <2>1. /\ v[s].pc = "probe" /\ Still /\ UNCHANGED saw /\ d \in Digests /\ v[s].pc \in Resolved
          /\ left \in Seq(ArtifactSet) /\ (\A i \in DOMAIN left : left[i] \in Held(d)) /\ kind = "index"
          /\ Missing(v[s], saw[s]) \/ saw[s].misled \/ \E i \in DOMAIN left : IsBundle(left[i])
        BY <1>1, <1>11 DEF Probe, At, Sound, Resolved, Verifications, Traced
    <2>2. CASE left = <<>>
        <3>1. v' = Fail(s, "NOT_FOUND")
            BY <1>11, <2>2 DEF Probe
        <3> QED BY <1>3, <2>1, <2>2, <3>1
    <2>3. CASE left # <<>>
        <3> DEFINE a == Head(left)
        <3>1. a \in Held(d)
            BY <2>1, <2>3
        <3>2. CASE a.listed = "bundle"
            <4> DEFINE r == [v[s] EXCEPT !.pc = "manifest", !.from = a]
            <4>1. v' = [v EXCEPT ![s] = r]
                BY <1>11, <2>3, <3>2 DEF Probe, SoundInv
            <4> HIDE DEF a
            <4>2. r.pc = "manifest" /\ r.result = v[s].result /\ r.from = a
                BY <1>1 DEF Verifications
            <4> HIDE DEF r
            <4> QED BY <2>1, <3>2, <4>1, <4>2, GoesOn DEF Requests
        <3>3. CASE a.listed # "bundle" /\ a.listed = "empty" /\ IsBundle(a)
            <4>1. v' = Layer(s, a) /\ a.layer # None
                BY <1>11, <2>3, <3>3 DEF Probe, IsBundle
            <4> QED BY <2>1, <3>1, <4>1, LayerTraced
        <3>4. CASE a.listed # "bundle" /\ ~(a.listed = "empty" /\ IsBundle(a))
            <4> DEFINE r == [v[s] EXCEPT !.left = Tail(left)]
            <4>1. v' = [v EXCEPT ![s] = r]
                BY <1>11, <2>3, <3>4 DEF Probe, SoundInv
            <4>2. r.pc = "probe" /\ r.result = v[s].result /\ r.digest = d /\ r.left = Tail(left)
                BY <1>1, <2>1 DEF Verifications
            <4> HIDE DEF r
            <4>3. IsBundle(a) => ~WellFormed(attached[d])
                <5>1. PICK i \in DOMAIN attached[d] : a = attached[d][i]
                    BY <3>1 DEF Held
                <5>2. a.listed \in {"bundle", "empty", "foreign"}
                    BY <1>1, <2>1, <3>1, HeldAre DEF ArtifactSet
                <5> QED BY <3>4, <5>1, <5>2 DEF WellFormed, IsBundle
            <4>4. ASSUME NEW i \in DOMAIN left, IsBundle(left[i]), ~IsBundle(a)
                  PROVE  \E j \in DOMAIN Tail(left) : IsBundle(Tail(left)[j])
                <5>1. i # 1 /\ i \in 1..Len(left)
                    BY <2>1, <2>3, <4>4
                <5>2. i - 1 \in DOMAIN Tail(left) /\ Tail(left)[i - 1] = left[i]
                    BY <2>1, <2>3, <5>1
                <5> QED BY <4>4, <5>2
            <4>5. Missing(r, saw[s]) \/ saw[s].misled \/ \E j \in DOMAIN r.left : IsBundle(r.left[j])
                BY <2>1, <4>2, <4>3, <4>4 DEF Missing
            <4> QED BY <2>1, <4>1, <4>2, <4>5, GoesOn DEF Requests
        <3> QED BY <3>2, <3>3, <3>4
    <2> QED BY <2>2, <2>3
<1>12. CASE VerifyBundle(s)
    <2> DEFINE b == v[s].from.layer
    <2>1. /\ v[s].pc = "trust" /\ Still /\ UNCHANGED saw /\ d \in Digests \cap saw[s].led
          /\ v[s].from \in Held(d) /\ b \in Bundles /\ Verifiable(Ref[s])
        BY <1>1, <1>12 DEF VerifyBundle, At, Sound, Resolved, Requests
    <2>2. CASE BuildVerifyOptions(Ref[s], b) /\ AssertSignedDigest(b, d)
        <3> DEFINE r == [Idle EXCEPT !.pc = "verified", !.digest = d, !.result = "ok"]
        <3>1. v' = [v EXCEPT ![s] = r] /\ r.pc = "verified" /\ r.result = "ok"
            BY <1>12, <2>2, IdleIs DEF VerifyBundle, End, Verifications
        <3> HIDE DEF r
        <3>2. Traced(s, r, saw[s])
            BY <1>2, <3>1 DEF Traced, Requests
        <3> QED BY <1>2, <2>1, <3>1, <3>2, OneTraced
    <2>3. CASE ~(BuildVerifyOptions(Ref[s], b) /\ AssertSignedDigest(b, d))
        <3>1. ~Vouches(b, s, d) /\ b # None
            BY <2>1, <2>3, RefKinds, RegistryOK DEF BuildVerifyOptions, AssertSignedDigest, Vouches, Verifiable
        <3>2. Unfit(s, v[s], saw[s]) /\ "VERIFY_FAILED" \in Codes
            BY <2>1, <3>1 DEF Unfit, Codes
        <3>3. v' = Fail(s, "VERIFY_FAILED")
            BY <1>12, <2>3 DEF VerifyBundle
        <3> QED BY <1>1, <1>2, <2>1, <3>2, <3>3, FailTraced
    <2> QED BY <2>2, <2>3
<1> QED
    BY <1>4, <1>5, <1>6, <1>7, <1>8, <1>9, <1>10, <1>11, <1>12 DEF Verify

LEMMA TracedKept == ASSUME TracedInv, UNCHANGED vars PROVE TracedInv'
<1>1. UNCHANGED <<attached, kind, v, saw>>
    BY DEF vars
<1> QED BY <1>1 DEF TracedInv, Traced, Gone, Unfit, Missing, Held, Bare

--------------------------------------------------------------------------------
(* The steps of a job.                                                      *)

Cleared(s) == v[s].pc = "verified" /\ RulesOK[s] /\ Enforceable(s)

SetupTypes ==
    /\ step \in [Steps -> {"pending", "verifying", "down", "up"} \cup Over]
    /\ project \in [Projects -> Builders \cup {None}]
    /\ orphaned \subseteq Projects

\* Docker is only run for a step, and a builder is only of a step, that was
\* verified and may start one.
ClearedInv ==
    /\ \A s \in Steps : step[s] \in {"down", "up", "started"} => Cleared(s)
    /\ \A p \in Projects : project[p] # None /\ project[p].owner # None =>
          LET s == project[p].owner IN
          s \in Steps /\ ProjectOf(s) = p /\ Cleared(s) /\ project[p].image = v[s].digest

\* Steps wait for those they come after, and after the first post step there is
\* nothing but post steps.
OrderInv ==
    /\ \A s \in Steps : step[s] # "pending" => \A t \in Earlier(s) : step[t] \in Over
    /\ \A s, t \in Steps : step[s] = "posted" => step[t] \in Over \cup {"pending"}

PostedInv ==
    \A s \in Steps : step[s] = "posted" => project[ProjectOf(s)] = None \/ ProjectOf(s) \in orphaned

StaysInv ==
    \A s \in Steps : step[s] = "started" /\ (\A t \in Later(s) : step[t] = "pending") =>
        project[ProjectOf(s)] = Container(s, TRUE)

SetupInv == SoundInv /\ SetupTypes /\ ClearedInv /\ OrderInv /\ PostedInv /\ StaysInv

LEMMA ProjectFacts ==
    /\ \A s \in Steps : ProjectOf(s) \in Projects
    /\ \A s, t \in Steps : ProjectOf(s) = ProjectOf(t) <=> Name[s] = Name[t]
BY DEF Projects, ProjectOf, DeriveProjectName

\* Two steps that share a builder are in each other's way only when neither of
\* them runs.
LEMMA OneAtATime ==
    ASSUME OrderInv, SetupTypes, NEW s \in Steps, NEW t \in Steps, ProjectOf(s) = ProjectOf(t),
           step[s] = "started", step[t] \in {"down", "up"}
    PROVE  t \in Later(s)
<1>1. Name[s] = Name[t] /\ s \in Nat /\ t \in Nat /\ s # t
    BY ProjectFacts, SetupOK
<1>2. ~(t < s)
    BY <1>1 DEF OrderInv, Earlier, Over
<1> QED BY <1>1, <1>2 DEF Later

LEMMA InitSetup == SetupInit => SetupInv
<1> SUFFICES ASSUME SetupInit PROVE SetupInv
    OBVIOUS
<1>1. SoundInv
    BY InitSound DEF SetupInit
<1>2. Leftover \in Builders /\ Leftover.owner = None
    BY DEF Leftover, Builders
<1>3. SetupTypes /\ \A p \in Projects : project[p] # None => project[p].owner = None
    BY <1>2 DEF SetupInit, SetupTypes
<1> QED BY <1>1, <1>3 DEF SetupInit, SetupInv, ClearedInv, OrderInv, PostedInv, StaysInv

\* The registry and the requests of a verification leave the steps as they are.
LEMMA ProvenanceKeeps ==
    ASSUME SetupInv, SoundInv', UNCHANGED setupVars,
           \A t \in Steps : v[t].pc = "verified" => v'[t] = v[t]
    PROVE  SetupInv'
<1>1. \A t \in Steps : Cleared(t) => Cleared(t)' /\ v'[t].digest = v[t].digest
    BY DEF Cleared
<1>2. UNCHANGED <<step, project, orphaned>>
    BY DEF setupVars
<1>3. SetupTypes' /\ OrderInv' /\ PostedInv'
    BY <1>2 DEF SetupInv, SetupTypes, OrderInv, PostedInv
<1>4. ClearedInv'
    BY <1>1, <1>2 DEF SetupInv, ClearedInv
<1>5. StaysInv'
    BY <1>1, <1>2 DEF SetupInv, StaysInv, ClearedInv, Container, ImageRef
<1> QED BY <1>3, <1>4, <1>5 DEF SetupInv

\* A step takes its builder down, or fails before it does.
LEMMA DownKeeps ==
    ASSUME SetupInv, UNCHANGED <<vars, orphaned>>, NEW s \in Steps, step[s] = "down",
           NEW phase \in {"up", "failed"}, Then(s, phase),
           project' \in {project, [project EXCEPT ![ProjectOf(s)] = None]}
    PROVE  SetupInv'
<1>1. SoundInv' /\ UNCHANGED v
    BY SoundKept DEF SetupInv, vars
<1>2. SetupTypes'
    BY ProjectFacts DEF SetupInv, SetupTypes, Then, Over
<1>3. \A t \in Steps : step'[t] = IF t = s THEN phase ELSE step[t]
    BY DEF Then, SetupInv, SetupTypes
<1>4. \A p \in Projects : project'[p] = project[p] \/ (p = ProjectOf(s) /\ project'[p] = None)
    BY DEF SetupInv, SetupTypes
<1>5. ClearedInv'
    BY <1>1, <1>3, <1>4 DEF SetupInv, ClearedInv, Cleared
<1>6. OrderInv'
    BY <1>3 DEF SetupInv, OrderInv, Over, Earlier
<1>7. PostedInv'
    BY <1>3, <1>4, ProjectFacts DEF SetupInv, PostedInv
<1>8. StaysInv'
    <2> SUFFICES ASSUME NEW t \in Steps, step'[t] = "started", \A u \in Later(t) : step'[u] = "pending"
                 PROVE  project'[ProjectOf(t)] = Container(t, TRUE)'
        BY DEF StaysInv
    <2>1. t # s /\ step[t] = "started" /\ s \notin Later(t)
        BY <1>3
    <2>2. \A u \in Later(t) : step[u] = "pending"
        BY <1>3, <2>1 DEF Later
    <2>3. ProjectOf(t) # ProjectOf(s)
        BY <2>1, OneAtATime DEF SetupInv
    <2> QED BY <1>1, <1>4, <2>1, <2>2, <2>3, ProjectFacts DEF SetupInv, StaysInv, Container, ImageRef
<1> QED BY <1>1, <1>2, <1>5, <1>6, <1>7, <1>8 DEF SetupInv

\* A step starts its builder, which is ready or not, or fails before it does.
LEMMA UpKeeps ==
    ASSUME SetupInv, UNCHANGED <<vars, orphaned>>, NEW s \in Steps, step[s] = "up",
           NEW phase \in {"started", "failed"}, Then(s, phase), NEW ready \in BOOLEAN,
           project' \in {project, [project EXCEPT ![ProjectOf(s)] = Container(s, ready)]},
           phase = "started" => project' = [project EXCEPT ![ProjectOf(s)] = Container(s, TRUE)]
    PROVE  SetupInv'
<1>1. SoundInv' /\ UNCHANGED v
    BY SoundKept DEF SetupInv, vars
<1>2. Cleared(s) /\ v[s].digest \in Digests
    BY DEF SetupInv, ClearedInv, Cleared, SoundInv, Sound, Resolved
<1>3. \A b \in BOOLEAN : Container(s, b) \in Builders /\ Container(s, b).owner = s
                         /\ Container(s, b).image = v[s].digest
    BY <1>2 DEF Container, ImageRef, Builders
<1>4. SetupTypes'
    BY <1>3, ProjectFacts DEF SetupInv, SetupTypes, Then, Over
<1>5. \A t \in Steps : step'[t] = IF t = s THEN phase ELSE step[t]
    BY DEF Then, SetupInv, SetupTypes
<1>6. \A p \in Projects : project'[p] = project[p] \/ (p = ProjectOf(s) /\ project'[p] = Container(s, ready))
    BY DEF SetupInv, SetupTypes
<1>7. ClearedInv'
    BY <1>1, <1>2, <1>3, <1>5, <1>6 DEF SetupInv, ClearedInv, Cleared
<1>8. OrderInv'
    BY <1>5 DEF SetupInv, OrderInv, Over, Earlier
<1>9. PostedInv'
    BY <1>5 DEF SetupInv, PostedInv, OrderInv, Over
<1>10. StaysInv'
    <2> SUFFICES ASSUME NEW t \in Steps, step'[t] = "started", \A u \in Later(t) : step'[u] = "pending"
                 PROVE  project'[ProjectOf(t)] = Container(t, TRUE)'
        BY DEF StaysInv
    <2>1. CASE t = s
        <3>1. project' = [project EXCEPT ![ProjectOf(s)] = Container(s, TRUE)]
            BY <1>5, <2>1
        <3> QED BY <1>1, <2>1, <3>1, ProjectFacts DEF SetupInv, SetupTypes, Container, ImageRef
    <2>2. CASE t # s
        <3>1. step[t] = "started" /\ s \notin Later(t)
            BY <1>5, <2>2
        <3>2. \A u \in Later(t) : step[u] = "pending"
            BY <1>5, <3>1 DEF Later
        <3>3. ProjectOf(t) # ProjectOf(s)
            BY <3>1, OneAtATime DEF SetupInv
        <3> QED BY <1>1, <1>6, <3>1, <3>2, <3>3, ProjectFacts DEF SetupInv, StaysInv, Container, ImageRef
    <2> QED BY <2>1, <2>2
<1> QED BY <1>1, <1>4, <1>7, <1>8, <1>9, <1>10 DEF SetupInv

LEMMA MainKeeps == ASSUME SetupInv, NEW s \in Steps, Main(s) \/ CheckInputs(s) PROVE SetupInv'
<1>1. PICK phase \in {"verifying", "down", "failed"} : Then(s, phase)
    BY DEF Main, CheckInputs
<1>2. UNCHANGED <<vars, project, orphaned>> /\ step[s] \in {"pending", "verifying"}
    BY DEF Main, CheckInputs, Is
<1>3. SoundInv' /\ UNCHANGED v
    BY <1>2, SoundKept DEF SetupInv, vars
<1>4. \A t \in Steps : step'[t] = IF t = s THEN phase ELSE step[t]
    BY <1>1 DEF Then, SetupInv, SetupTypes
<1>5. SetupTypes'
    BY <1>1, <1>2 DEF SetupInv, SetupTypes, Then, Over
<1>6. phase = "down" => Cleared(s)
    <2>1. CASE Main(s)
        BY <1>1, <2>1 DEF Main, Then, SetupInv, SetupTypes
    <2>2. CASE CheckInputs(s)
        BY <1>1, <2>2 DEF CheckInputs, Then, SetupInv, SetupTypes, Cleared
    <2> QED BY <2>1, <2>2
<1>7. ClearedInv'
    BY <1>2, <1>3, <1>4, <1>6 DEF SetupInv, ClearedInv, Cleared
<1>8. /\ \A t \in Earlier(s) : step[t] \in Over
      /\ \A t \in Steps : step[t] # "posted"
    BY <1>2 DEF Main, CheckInputs, Is, SetupInv, OrderInv, Over
<1>9. OrderInv'
    BY <1>2, <1>4, <1>8 DEF SetupInv, OrderInv, Over, Earlier
<1>10. PostedInv'
    BY <1>2, <1>4 DEF SetupInv, PostedInv
<1>11. StaysInv'
    <2> SUFFICES ASSUME NEW t \in Steps, step'[t] = "started", \A u \in Later(t) : step'[u] = "pending"
                 PROVE  project'[ProjectOf(t)] = Container(t, TRUE)'
        BY DEF StaysInv
    <2>1. step[t] = "started" /\ \A u \in Later(t) : step[u] = "pending"
        BY <1>4 DEF Later
    <2> QED BY <1>2, <1>3, <2>1 DEF SetupInv, StaysInv, Container, ImageRef
<1> QED BY <1>3, <1>5, <1>7, <1>9, <1>10, <1>11 DEF SetupInv

LEMMA PostKeeps == ASSUME SetupInv, NEW s \in Steps, Post(s) PROVE SetupInv'
<1>1. /\ step[s] \in {"started", "failed"} /\ Then(s, "posted") /\ UNCHANGED vars
      /\ \A t \in Steps : step[t] \in Over \cup {"pending"} /\ (t > s => step[t] \in {"posted", "pending"})
    BY DEF Post
<1>2. SoundInv' /\ UNCHANGED v
    BY <1>1, SoundKept DEF SetupInv, vars
<1>3. \A t \in Steps : step'[t] = IF t = s THEN "posted" ELSE step[t]
    BY <1>1 DEF Then, SetupInv, SetupTypes
<1>4. \/ /\ project' = [project EXCEPT ![ProjectOf(s)] = None]
         /\ orphaned' = orphaned \ {ProjectOf(s)}
      \/ orphaned' = orphaned \cup {ProjectOf(s)} /\ UNCHANGED project
    BY DEF Post
<1>5. SetupTypes'
    BY <1>1, <1>4, ProjectFacts DEF SetupInv, SetupTypes, Then, Over
<1>6. \A p \in Projects : project'[p] = project[p] \/ (p = ProjectOf(s) /\ project'[p] = None)
    BY <1>4 DEF SetupInv, SetupTypes
<1>7. ClearedInv'
    BY <1>2, <1>3, <1>6 DEF SetupInv, ClearedInv, Cleared
<1>8. OrderInv'
    BY <1>1, <1>3 DEF SetupInv, OrderInv, Over, Earlier
<1>9. PostedInv'
    <2>1. CASE project' = [project EXCEPT ![ProjectOf(s)] = None] /\ orphaned' = orphaned \ {ProjectOf(s)}
        BY <1>3, <2>1, ProjectFacts DEF SetupInv, SetupTypes, PostedInv
    <2>2. CASE orphaned' = orphaned \cup {ProjectOf(s)} /\ UNCHANGED project
        BY <1>3, <2>2, ProjectFacts DEF SetupInv, PostedInv
    <2> QED BY <1>4, <2>1, <2>2
<1>10. StaysInv'
    <2> SUFFICES ASSUME NEW t \in Steps, step'[t] = "started", \A u \in Later(t) : step'[u] = "pending"
                 PROVE  project'[ProjectOf(t)] = Container(t, TRUE)'
        BY DEF StaysInv
    <2>1. t # s /\ step[t] = "started" /\ s \notin Later(t)
        BY <1>3
    <2>2. \A u \in Later(t) : step[u] = "pending"
        BY <1>3, <2>1 DEF Later
    <2>3. s \in Nat /\ t \in Nat /\ ~(t > s)
        BY <1>1, <2>1, SetupOK
    <2>4. ProjectOf(t) # ProjectOf(s)
        BY <2>1, <2>3, ProjectFacts DEF Later
    <2> QED BY <1>2, <1>6, <2>1, <2>2, <2>4, ProjectFacts DEF SetupInv, StaysInv, Container, ImageRef
<1> QED BY <1>2, <1>5, <1>7, <1>8, <1>9, <1>10 DEF SetupInv

LEMMA NextSetup == ASSUME SetupInv, [SetupNext]_allVars PROVE SetupInv'
<1>1. CASE RegistryMoves
    <2>1. UNCHANGED <<v, setupVars>>
        BY <1>1 DEF RegistryMoves, Registry, Push, Attach
    <2>2. SoundInv'
        BY <1>1, PushSound, AttachSound, RegistryOK DEF RegistryMoves, Registry, SetupInv
    <2> QED BY <2>1, <2>2, ProvenanceKeeps
<1>2. ASSUME NEW s \in Steps, VerifyImage(s) PROVE SetupInv'
    BY <1>2, VerifySound, VerifiedStays, ProvenanceKeeps DEF VerifyImage, SetupInv
<1>3. ASSUME NEW s \in Steps, Main(s) \/ CheckInputs(s) PROVE SetupInv'
    BY <1>3, MainKeeps
<1>4. ASSUME NEW s \in Steps, ComposeDown(s) PROVE SetupInv'
    BY <1>4, DownKeeps DEF ComposeDown, Is
<1>5. ASSUME NEW s \in Steps, ComposeUp(s) PROVE SetupInv'
    BY <1>5, UpKeeps DEF ComposeUp, Is
<1>6. ASSUME NEW s \in Steps, Kill(s) PROVE SetupInv'
    BY <1>6, DownKeeps, UpKeeps DEF Kill, Is
<1>7. ASSUME NEW s \in Steps, Post(s) PROVE SetupInv'
    BY <1>7, PostKeeps
<1>8. CASE JobOver \/ UNCHANGED allVars
    <2>1. UNCHANGED <<vars, setupVars, v>>
        BY <1>8 DEF JobOver, allVars, vars
    <2>2. SoundInv'
        BY <2>1, SoundKept DEF SetupInv
    <2> QED BY <2>1, <2>2, ProvenanceKeeps
<1> QED
    BY <1>1, <1>2, <1>3, <1>4, <1>5, <1>6, <1>7, <1>8 DEF SetupNext, StepRuns

--------------------------------------------------------------------------------
(* What follows for the promises of Provenance and Setup.                   *)

LEMMA SetupInvHolds == SetupSpec => []SetupInv
<1>1. SetupInv /\ [SetupNext]_allVars => SetupInv'
    BY NextSetup
<1> QED BY <1>1, InitSetup, PTL DEF SetupSpec

LEMMA TracedHolds == SetupSpec => []TracedInv
<1>1. SetupInit => TracedInv
    BY InitTraced DEF SetupInit
<1>2. ASSUME SetupInv, TracedInv, [SetupNext]_allVars PROVE TracedInv'
    <2>1. CASE RegistryMoves
        BY <1>2, <2>1, PushTraced, AttachTraced, RegistryOK DEF RegistryMoves, Registry, SetupInv
    <2>2. CASE \E s \in Steps : VerifyImage(s)
        BY <1>2, <2>2, VerifyTraced DEF VerifyImage, SetupInv
    <2>3. CASE UNCHANGED vars
        BY <1>2, <2>3, TracedKept
    <2> QED BY <1>2, <2>1, <2>2, <2>3
            DEF SetupNext, StepRuns, Main, CheckInputs, ComposeDown, ComposeUp, Kill, Post, JobOver, allVars, vars
<1> QED BY <1>1, <1>2, SetupInvHolds, PTL DEF SetupSpec

\* Every state of a job is well typed, and docker is only run for a digest that
\* a verification settled on (main.ts).
THEOREM JobTyped == SetupSpec => []SetupTypeOK
<1>1. SetupInv => SetupTypeOK
    <2> SUFFICES ASSUME SetupInv PROVE SetupTypeOK
        OBVIOUS
    <2>1. TypeOK
        BY SoundIsTyped DEF SetupInv
    <2>2. ASSUME NEW s \in Steps, step[s] \in {"down", "up", "started"}
          PROVE  v[s].pc = "verified" /\ v[s].digest # None
        BY <2>2, RegistryOK DEF SetupInv, ClearedInv, Cleared, SoundInv, Sound, Resolved
    <2> QED BY <2>1, <2>2 DEF SetupInv, SetupTypes, SetupTypeOK
<1> QED BY <1>1, SetupInvHolds, PTL

\* A verification succeeds only for what the tag led to and a bundle vouches for
\* (verify-image.ts).
THEOREM VerifiedIsSigned == SetupSpec => []OnlySigned
<1>1. SetupInv => OnlySigned
    <2> SUFFICES ASSUME SetupInv, NEW s \in Steps, v[s].pc = "verified"
                 PROVE  /\ v[s].digest \in saw[s].led \ {None}
                        /\ \E i \in DOMAIN attached[v[s].digest] :
                              Vouches(attached[v[s].digest][i].layer, s, v[s].digest)
        BY DEF OnlySigned
    <2>1. Sound(s, v[s], saw[s])
        BY DEF SetupInv, SoundInv
    <2> QED BY <2>1, RegistryOK DEF Sound, Resolved, Held
<1> QED BY <1>1, SetupInvHolds, PTL

\* NOT_FOUND is only said of what was not there at some time since the step
\* began, whatever the registry answers, unless it was one of the answers that
\* the code misreads (oci-registry.ts).
THEOREM NotFoundMeansAbsent == SetupSpec => []NotFoundIsAbsent
<1>1. TracedInv => NotFoundIsAbsent
    BY DEF TracedInv, Traced, Gone, Missing, NotFoundIsAbsent, Absent
<1> QED BY <1>1, TracedHolds, PTL

\* A release that is signed verifies, however its registry lists the bundles and
\* what is beside them, as long as nothing fails and nothing changes
\* (verify-image.ts, oci-registry.ts).
THEOREM SteadyReleasesVerify == SetupSpec => []SteadyReleaseVerifies
<1>1. TracedInv => SteadyReleaseVerifies
    <2> SUFFICES ASSUME TracedInv, NEW s \in Steps, v[s].pc = "failed", saw[s].quiet, Verifiable(Ref[s])
                 PROVE  \E d \in saw[s].led :
                            \/ d = None
                            \/ d \in saw[s].lacked \/ ~WellFormed(attached[d])
                            \/ \E i \in DOMAIN attached[d] :
                                  attached[d][i].layer # None /\ ~Vouches(attached[d][i].layer, s, d)
        BY DEF SteadyReleaseVerifies
    <2>1. Unfit(s, v[s], saw[s])
        BY DEF TracedInv, Traced
    <2> QED BY <2>1 DEF Unfit, Missing, Held
<1> QED BY <1>1, TracedHolds, PTL

\* A builder that was started runs what was verified for its step (main.ts).
THEOREM BuildersAreVerified == SetupSpec => []StartedAsVerified
<1>1. SetupInv => StartedAsVerified
    <2> SUFFICES ASSUME SetupInv, NEW p \in Projects, project[p] # None, project[p].owner # None
                 PROVE  LET s == project[p].owner
                            d == project[p].image IN
                        /\ ProjectOf(s) = p /\ RulesOK[s] /\ Enforceable(s)
                        /\ d \in saw[s].led /\ d \in Digests
                        /\ \E i \in DOMAIN attached[d] : Vouches(attached[d][i].layer, s, d)
        BY DEF StartedAsVerified
    <2> DEFINE s == project[p].owner
    <2>1. s \in Steps /\ ProjectOf(s) = p /\ Cleared(s) /\ project[p].image = v[s].digest
        BY DEF SetupInv, ClearedInv
    <2>2. Sound(s, v[s], saw[s])
        BY <2>1 DEF SetupInv, SoundInv
    <2> QED BY <2>1, <2>2 DEF Cleared, Sound, Resolved, Held
<1> QED BY <1>1, SetupInvHolds, PTL

\* A builder that was started stays until a later step of its name or its own
\* post step (main.ts, compose-project-name.ts).
THEOREM BuildersStay == SetupSpec => []BuilderStays
<1>1. SetupInv => BuilderStays
    <2> SUFFICES ASSUME SetupInv, NEW s \in Steps, Is(s, "started"), \A t \in Later(s) : Is(t, "pending")
                 PROVE  FindContainers(s) = {Container(s, TRUE)}
        BY DEF BuilderStays
    <2>1. project[ProjectOf(s)] = Container(s, TRUE)
        BY DEF SetupInv, StaysInv, Is
    <2>2. Container(s, TRUE) \in Builders
        BY DEF SetupInv, ClearedInv, Cleared, SoundInv, Sound, Resolved, Container, ImageRef, Builders, Is
    <2> QED BY <2>1, <2>2, SetupOK DEF FindContainers
<1> QED BY <1>1, SetupInvHolds, PTL

\* Whatever failed or was killed, post leaves no builder it could take down
\* (post.ts).
THEOREM PostTakesAllDown == SetupSpec => []NothingLeftBehind
<1>1. SetupInv => NothingLeftBehind
    BY DEF SetupInv, PostedInv, NothingLeftBehind, Is
<1> QED BY <1>1, SetupInvHolds, PTL
================================================================================
