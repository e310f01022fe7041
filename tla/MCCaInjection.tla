----------------------------- MODULE MCCaInjection -----------------------------
(***************************************************************************)
(* Small containers for CaInjection.                                       *)
(***************************************************************************)
EXTENDS CaInjection

\* /etc/ssl/certs/{ca-certificates.crt,extra.crt}, /opt/app/ca.pem,
\* /srv/data/ca.pem, /etc/buildcage-ca.pem, with /etc/ssl and /etc between them.
MCFiles == {"store", "extra", "custom", "big", "own"}
MCDirs == {"/", "etc", "ssl", "certs", "app", "data"}
MCDirOf == [f \in MCFiles |->
    CASE f \in {"store", "extra"} -> "certs" [] f = "custom" -> "app"
      [] f = "big" -> "data" [] f = "own" -> "etc"]
MCBelow ==
    ((MCFiles \cup MCDirs) \ {"/"}) \X {"/"}
        \cup {"store", "extra"} \X {"certs", "ssl", "etc"}
        \cup {"custom"} \X {"app"} \cup {"big"} \X {"data"} \cup {"own"} \X {"etc"}
        \cup {"certs"} \X {"ssl", "etc"} \cup {"ssl"} \X {"etc"}

MCSystemCertFiles == <<"store">>

\* One variable of each behaviour.
MCVars == {"NODE_EXTRA_CA_CERTS", "CURL_CA_BUNDLE", "SSL_CERT_FILE"}
MCRank == [v \in MCVars |->
    CASE v = "NODE_EXTRA_CA_CERTS" -> 1 [] v = "CURL_CA_BUNDLE" -> 3 [] v = "SSL_CERT_FILE" -> 6]
MCWhenUnset == [v \in MCVars |->
    CASE v = "NODE_EXTRA_CA_CERTS" -> "pointAtOwnCA"
      [] v = "CURL_CA_BUNDLE" -> "leaveUnset"
      [] v = "SSL_CERT_FILE" -> "pointAtSystemStore"]

MCTexts == {"empty", "image", "step"}
MCModes == {"rw", "ro"}
\* The failures that a committed layer does not tell of.
HarmlessFaults == {"load", "ownCA", "prepare", "save", "spawn", "finish", "kill"}

Original == [text |-> "image", blocks |-> 0, mode |-> "rw", mtime |-> "image"]

\* An image with the given files, in all its directories.
ImageOf(present) ==
    [n \in MCFiles \cup MCDirs |->
        IF n \in present \cup MCDirs THEN Original ELSE None]

EnvOf(node, ssl) ==
    [v \in MCVars |-> CASE v = "NODE_EXTRA_CA_CERTS" -> node
                        [] v = "CURL_CA_BUNDLE" -> None
                        [] v = "SSL_CERT_FILE" -> ssl]

\* Every named file exists; the system store and OwnFile may or may not.
ExistingTargets ==
    {[image |-> ImageOf(present \cup {"custom"}), env |-> EnvOf(named[1], named[2])] :
        present \in {{}, {"store", "extra"}, {"own", "store"}},
        named \in {<<None, None>>, <<None, "custom">>, <<"custom", Unresolvable>>}}

\* The same container with the custom bundle above the system store, and next
\* to OwnFile.
NestedDirOf == [MCDirOf EXCEPT !["custom"] = "etc"]
NestedBelow == (MCBelow \ {<<"custom", "app">>}) \cup {<<"custom", "etc">>}

\* A container with up to four claims: the store, a bundle above it, one in an
\* application directory, and one in a directory too large to mirror; the
\* named files may be missing.
TrustDirOf == [NestedDirOf EXCEPT !["extra"] = "app"]
TrustBelow == (NestedBelow \ ({"extra"} \X {"certs", "ssl", "etc"})) \cup {<<"extra", "app">>}
TrustTargets ==
    {[image |-> ImageOf(present), env |-> [EnvOf(node, ssl) EXCEPT !["CURL_CA_BUNDLE"] = curl]] :
        present \in {{"extra", "big"}, {"store", "extra", "custom"}, {"own", "store"}},
        node \in {None, "extra"}, ssl \in {None, "custom", Unresolvable}, curl \in {None, "big"}}

\* Everything that can fail: also the two failures that leave OwnFile behind, and
\* the one that leaves a scratch directory.
AllFaults == HarmlessFaults \cup {"tornOwnCA", "removeOwnCA", "cleanup"}
================================================================================
