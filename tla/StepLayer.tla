------------------------------- MODULE StepLayer -------------------------------
(***************************************************************************)
(* What a RUN step is promised of its layer, whatever is injected while it *)
(* runs: the layer is the image the step started from with the step's own  *)
(* operations applied, and nothing else.  No entry of it carries the       *)
(* proxy's CA, and once the step has ended the layer does not change any   *)
(* more: BuildKit commits it, or throws it away.                           *)
(*                                                                         *)
(* CaInjection is shown to implement this specification.                   *)
(***************************************************************************)
EXTENDS Naturals

CONSTANTS
    Nodes,       \* every file and directory of the rootfs the model looks at
    StepFiles,   \* the files a step may write
    ChmodNodes,  \* the nodes a step may chmod
    Ops,         \* which of "edit", "delete", "touch", "copy" a step performs
    Texts,       \* what a file can hold besides the CA
    Modes,
    None         \* no such file

VARIABLES layer, fate

layerVars == <<layer, fate>>

\* An entry of a layer: `blocks' counts the CA blocks it holds, and is 0.
Plain == [text : Texts, blocks : {0}, mode : Modes]

Init ==
    /\ layer \in [Nodes -> Plain \cup {None}]
    /\ fate = "open"

ModeOf(n, m) == IF layer[n] = None THEN m ELSE layer[n].mode

\* The file holds something, and nothing else changes.
Edit(f) ==
    /\ layer'[f] \in [text : Texts, blocks : {0}, mode : {ModeOf(f, m) : m \in Modes}]
    /\ layer' = [layer EXCEPT ![f] = layer'[f]]

Delete(f) ==
    layer' = [layer EXCEPT ![f] = None]

Copy(f, g) ==
    /\ layer[f] # None
    /\ \E m \in Modes : layer' = [layer EXCEPT ![g] = [layer[f] EXCEPT !.mode = ModeOf(g, m)]]

Chmod(n) ==
    /\ layer[n] # None
    /\ \E m \in Modes : layer' = [layer EXCEPT ![n].mode = m]

StepOp ==
    /\ fate = "open"
    /\ \/ \E f \in StepFiles :
            \/ "edit" \in Ops /\ Edit(f)
            \/ "delete" \in Ops /\ Delete(f)
            \/ "copy" \in Ops /\ \E g \in StepFiles : Copy(f, g)
       \/ \E n \in ChmodNodes : Chmod(n)
    /\ UNCHANGED fate

\* The step ended with code 0: its layer is committed as it stands.
Commit ==
    /\ fate = "open"
    /\ fate' = "committed"
    /\ UNCHANGED layer

\* The step failed or was killed: nobody will look at its layer again.
Discard ==
    /\ fate = "open"
    /\ fate' = "discarded"
    /\ layer' = [n \in Nodes |-> None]

Next == StepOp \/ Commit \/ Discard

Spec == Init /\ [][Next]_layerVars
================================================================================
