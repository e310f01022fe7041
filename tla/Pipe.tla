---------------------------------- MODULE Pipe ----------------------------------
(***************************************************************************)
(* One direction of a stream: what is got is what was sent, once, in the   *)
(* order it was sent.                                                      *)
(***************************************************************************)
EXTENDS Naturals, Sequences

CONSTANT Msgs

VARIABLES sent, got

pipeVars == <<sent, got>>

Init == sent = <<>> /\ got = <<>>

Send == \E m \in Msgs : sent' = Append(sent, m) /\ UNCHANGED got

Get ==
    /\ Len(got) < Len(sent)
    /\ got' = Append(got, sent[Len(got) + 1])
    /\ UNCHANGED sent

Spec == Init /\ [][Send \/ Get]_pipeVars
================================================================================
