------------------------------ MODULE EgressPolicy ------------------------------
(***************************************************************************)
(* What every engine promises of a build's traffic, whatever the build     *)
(* sends and whatever DNS answers: a name leaves the proxy in a query only *)
(* for an exchange the rules permit, and an exchange reaches an address    *)
(* only when it is permitted, at the address it named itself or at one     *)
(* that its own name resolved to, which is not an internal one.            *)
(***************************************************************************)
CONSTANTS
    Permitted,      \* the exchanges the rules permit
    NameOf(_),      \* the name an exchange is resolved by, or None
    AddressOf(_),   \* the address an exchange names itself, or None
    Answers,        \* [names -> sets of addresses]: what DNS may say of a name
    Internal,       \* addresses no name may lead to
    None

VARIABLES
    queried,        \* the names a resolver outside was asked for
    reached         \* <<exchange, address>>: what was connected to for what

policyVars == <<queried, reached>>

Init == queried = {} /\ reached = {}

Query ==
    \E x \in Permitted :
        /\ NameOf(x) # None
        /\ queried' = queried \cup {NameOf(x)}
        /\ UNCHANGED reached

Reach ==
    \E x \in Permitted :
        /\ \/ /\ AddressOf(x) # None
              /\ reached' = reached \cup {<<x, AddressOf(x)>>}
           \/ /\ NameOf(x) \in queried
              /\ \E a \in Answers[NameOf(x)] \ Internal : reached' = reached \cup {<<x, a>>}
        /\ UNCHANGED queried

Next == Query \/ Reach

Spec == Init /\ [][Next]_policyVars
================================================================================
