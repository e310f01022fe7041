-------------------------------- MODULE MCSetup --------------------------------
(***************************************************************************)
(* Three setup steps, two of them of one builder, and a registry with two  *)
(* releases.                                                               *)
(***************************************************************************)
EXTENDS Setup

Version(parts) == [kind |-> "version", release |-> parts]

MCRef == <<Version(<<"2">>), [kind |-> "sha", sha |-> "c1"], [kind |-> "branch", name |-> "main"]>>
MCEngine == <<"inspect", "universal", "inspect">>
MCName == <<"a", "b", "a">>
MCMode == <<"restrict", "restrict", "audit">>
MCRulesOK == <<TRUE, TRUE, TRUE>>
MCPathRules == <<TRUE, FALSE, FALSE>>

\* Of v2.1 and its commit c1, and of v20.0, whose tag is not one of v2.
Bundle(release, sha, digest) == [signed |-> TRUE, release |-> release, sha |-> sha, names |-> digest]
Own == Bundle(<<"2", "1">>, "c1", "d1")
Other == Bundle(<<"20", "0">>, "c2", "d2")

Artifact(listed, layer) ==
    [listed |-> listed, is |-> IF layer = None THEN "other" ELSE "bundle", layer |-> layer]

Signature == Artifact("empty", Own)
Attestation == Artifact("bundle", Own)
Sbom == Artifact("empty", None)
Foreign == Artifact("foreign", None)
OtherSignature == Artifact("bundle", Other)
Hollow == [listed |-> "bundle", is |-> "bundle", layer |-> None]

MCArtifacts == {Signature, OtherSignature, Hollow}
MCCatalogs ==
    {[d \in {"d1", "d2"} |-> IF d = "d2" THEN <<OtherSignature>> ELSE list]
        : list \in {<<>>, <<Foreign, Sbom, Signature, Attestation>>}}

\* One way each to fail and to go on, for every request, and what is misread.
MCFaults ==
    {<<"token", "denied">>, <<"token", "server">>, <<"digest", "denied">>, <<"digest", "network">>,
     <<"referrers", "server">>, <<"referrers", "limited">>, <<"manifest", "notFound">>,
     <<"fallback", "denied">>, <<"fallback", "server">>, <<"fallback", "badRequest">>, <<"fallback", "limited">>,
     <<"probe", "network">>, <<"probe", "server">>, <<"blob", "server">>, <<"blob", "limited">>}
================================================================================
