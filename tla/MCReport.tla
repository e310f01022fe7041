-------------------------------- MODULE MCReport --------------------------------
(***************************************************************************)
(* Report with one host the rules admit and one they do not, which may be  *)
(* known to be blocked not at all, on its port only, or as a name as well; *)
(* what the inputs decide alone is left out of some of the engines.        *)
(***************************************************************************)
EXTENDS Report

CONSTANTS listed, other

MCAllowed == {<<listed, 443>>}

KnownPort == {<<other, 443>>}
KnownName == {<<other, 443>>, <<other, 0>>}

Inputs(engine, mode, fail, known, upload, lines, restarts) ==
    [engine |-> engine, mode |-> mode, failOnBlocked |-> fail, known |-> known, upload |-> upload,
     lines |-> lines, restarts |-> restarts]

MCConfigurations ==
    {Inputs("inspect", "restrict", TRUE, {}, TRUE, 2, 1),
     Inputs("inspect", "restrict", TRUE, KnownPort, FALSE, 3, 0),
     Inputs("inspect", "restrict", TRUE, KnownName, FALSE, 2, 0),
     Inputs("inspect", "restrict", FALSE, {}, FALSE, 2, 0),
     Inputs("inspect", "audit", TRUE, {}, FALSE, 2, 0),
     Inputs("universal", "restrict", TRUE, KnownPort, TRUE, 4, 0),
     Inputs("universal", "restrict", TRUE, {}, FALSE, 3, 1),
     Inputs("explicit", "restrict", TRUE, KnownPort, TRUE, 4, 1),
     Inputs("explicit", "audit", TRUE, {}, FALSE, 3, 1)}
================================================================================
