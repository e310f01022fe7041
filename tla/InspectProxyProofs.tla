--------------------------- MODULE InspectProxyProofs ---------------------------
(***************************************************************************)
(* Proofs about InspectProxy: it is well typed, nothing that the rules do  *)
(* not permit gets past them, and it implements EgressPolicy, for every    *)
(* set of rules, every answer of DNS and any number of connections.        *)
(***************************************************************************)
EXTENDS InspectProxy, SequenceTheorems, WellFoundedInduction, TLAPS

\* Every exchange of a connection is one of Exchanges.
LEMMA ExchangesOfOpens ==
    ASSUME NEW o \in Opens
    PROVE  /\ Tunnel(o) \in Exchanges
           /\ \A q \in Requests : Exchange(o, q) \in Exchanges
BY BuildOK DEF Exchanges

\* What the detect frontend passes through is permitted.
LEMMA TunnelsPermitted ==
    ASSUME NEW o \in Opens, Pass(o)
    PROVE  /\ Tunnel(o) \in Permitted
           /\ BySni(o) => Tunnel(o).via = "tls" /\ Tunnel(o).host \in Names
           /\ ~BySni(o) => Tunnel(o).via = "tcp" /\ AddressOf(Tunnel(o)) = o.addr
<1> USE RulesOK, BuildOK DEF Hosts
<1>1. Tunnel(o) \in Exchanges
    BY ExchangesOfOpens
<1>2. CASE BySni(o)
    BY <1>1, <1>2 DEF Permitted, Tunnel, BySni
<1>3. CASE ~BySni(o)
    BY <1>1, <1>3 DEF Permitted, Tunnel, BySni, Pass, ByAddress, AddressOf
<1>4. QED
    BY <1>2, <1>3

\* A request the rules admit is permitted, and is named or addressed by its host.
LEMMA AdmittedPermitted ==
    ASSUME NEW o \in Opens, NEW q \in Requests,
           ~Traversal(Exchange(o, q).path), RuleBlockAdmits(Exchange(o, q))
    PROVE  /\ Exchange(o, q) \in Permitted
           /\ Exchange(o, q).via \in {"https", "http"}
           /\ Exchange(o, q).host = q.host
<1> USE RulesOK, BuildOK DEF Hosts
<1>1. Exchange(o, q) \in Exchanges
    BY ExchangesOfOpens
<1>2. Exchange(o, q).via \in {"https", "http"} /\ Exchange(o, q).host = q.host
    BY DEF Exchange
<1>3. QED
    BY <1>1, <1>2 DEF Permitted

\* Off and what After leaves are states of a connection.
LEMMA AfterTyped ==
    ASSUME TypeOK, NEW c \in Conns, ~In(c, "off")
    PROVE  /\ After(c) \in ConnStates
           /\ After(c).phase \in {"off", "idle"}
           /\ After(c).phase # "off" => After(c).open \in Opens
<1> USE RulesOK, BuildOK DEF Hosts
<1>1. conn[c] \in ConnStates /\ conn[c].open \in Opens
    BY DEF TypeOK
<1>2. CASE conn[c].x.via \in {"tls", "tcp"}
    BY <1>2 DEF After, Off, ConnStates
<1>3. CASE conn[c].x.via \notin {"tls", "tcp"}
  <2>1. After(c) = [conn[c] EXCEPT !.phase = "idle", !.x = None, !.dst = None]
      BY <1>3 DEF After
  <2>2. QED
      BY <1>1, <2>1 DEF ConnStates
<1>4. QED
    BY <1>2, <1>3

\* A step that only moves one connection keeps TypeOK when the state it moves
\* to is of its kind.
LEMMA TypeMove ==
    ASSUME TypeOK, NEW c \in Conns, NEW s \in ConnStates,
           conn' = [conn EXCEPT ![c] = s],
           s.phase # "off" => s.open \in Opens,
           s.phase \in {"resolve", "connect", "connecting"} => s.x \in Exchanges /\ s.dst \in Addrs,
           left' \in [Conns -> 0..MaxExchanges], reached' \subseteq Exchanges \X Addrs,
           UNCHANGED <<cache, inflight, queried>>
    PROVE  TypeOK'
<1>1. conn' \in [Conns -> ConnStates] /\ \A d \in Conns : conn'[d] = IF d = c THEN s ELSE conn[d]
    BY DEF TypeOK
<1>2. \A d \in Conns : ~In(d, "off")' => conn'[d].open \in Opens
    BY <1>1 DEF TypeOK, In
<1>3. \A d \in Conns : conn'[d].phase \in {"resolve", "connect", "connecting"} =>
          conn'[d].x \in Exchanges /\ conn'[d].dst \in Addrs
    BY <1>1 DEF TypeOK
<1>4. QED
    BY <1>1, <1>2, <1>3 DEF TypeOK

LEMMA TypeStep == TypeOK /\ PolicyInv /\ [Next]_vars => TypeOK'
<1> SUFFICES ASSUME TypeOK, PolicyInv, [Next]_vars PROVE TypeOK'
    OBVIOUS
<1>0. /\ \A c \in Conns : conn[c] \in ConnStates /\ left[c] \in 0..MaxExchanges
      /\ left \in [Conns -> 0..MaxExchanges] /\ reached \subseteq Exchanges \X Addrs
    BY DEF TypeOK
<1>1. ASSUME NEW c \in Conns, Open(c) PROVE TypeOK'
  <2>1. PICK o \in Opens :
            conn' = [conn EXCEPT ![c] = [phase |-> "detect", open |-> o, x |-> None, dst |-> o.addr]]
      BY <1>1 DEF Open
  <2> DEFINE s == [phase |-> "detect", open |-> o, x |-> None, dst |-> o.addr]
  <2>2. s \in ConnStates /\ s.phase = "detect" /\ s.open = o
      BY <2>1, BuildOK DEF ConnStates
  <2>3. conn' = [conn EXCEPT ![c] = s]
      BY <2>1
  <2>4. left' \in [Conns -> 0..MaxExchanges] /\ UNCHANGED <<cache, inflight, queried, reached>>
      BY <1>0, <1>1, RulesOK DEF Open
  <2> HIDE DEF s
  <2>5. QED
      BY <1>0, <2>1, <2>2, <2>3, <2>4, TypeMove
<1>2. ASSUME NEW c \in Conns, Request(c) PROVE TypeOK'
  <2> DEFINE o == conn[c].open
  <2>1. o \in Opens
      BY <1>2 DEF Request, TypeOK, In
  <2>2. \A q \in Requests : Exchange(o, q) \in Exchanges /\ Exchange(o, q).host = q.host
      BY <2>1, ExchangesOfOpens DEF Exchange
  <2>3. left' \in [Conns -> 0..MaxExchanges] /\ UNCHANGED <<cache, inflight, queried, reached>>
      BY <1>2, RulesOK DEF Request, TypeOK
  <2>4. CASE UNCHANGED conn
      BY <2>3, <2>4 DEF TypeOK, In
  <2>5. ASSUME NEW q \in Requests, NEW x, x = Exchange(o, q),
               conn' = [conn EXCEPT ![c] =
                            [@ EXCEPT !.x = x,
                                !.phase = IF x.host \in Addrs THEN "connect" ELSE "resolve",
                                !.dst = IF x.host \in Addrs THEN x.host ELSE o.addr]]
        PROVE  TypeOK'
    <3> DEFINE s == [conn[c] EXCEPT !.x = x,
                        !.phase = IF x.host \in Addrs THEN "connect" ELSE "resolve",
                        !.dst = IF x.host \in Addrs THEN x.host ELSE o.addr]
    <3>1. conn[c] \in ConnStates /\ o.addr \in Addrs /\ x \in Exchanges
        BY <1>0, <2>1, <2>2, <2>5, BuildOK
    <3>2. s \in ConnStates /\ s.phase # "off" /\ s.open \in Opens /\ s.x \in Exchanges /\ s.dst \in Addrs
        BY <2>1, <3>1 DEF ConnStates
    <3>3. conn' = [conn EXCEPT ![c] = s]
        BY <2>5
    <3> HIDE DEF s
    <3>4. QED
        BY <1>0, <2>3, <3>2, <3>3, TypeMove
  <2>6. QED
      BY <1>2, <2>4, <2>5 DEF Request
<1>3. ASSUME NEW c \in Conns, Classify(c) PROVE TypeOK'
  <2> DEFINE o == conn[c].open
  <2>1. o \in Opens /\ Tunnel(o) \in Exchanges
      BY <1>3, ExchangesOfOpens DEF Classify, TypeOK, In
  <2>2. conn[c].dst \in Addrs /\ UNCHANGED <<left, cache, inflight, queried, reached>>
      BY <1>3, <2>1, BuildOK DEF Classify, PolicyInv, In
  <2>3. ASSUME NEW p \in {"resolve", "connect"},
               conn' = [conn EXCEPT ![c].phase = p, ![c].x = Tunnel(o)]
        PROVE  TypeOK'
    <3> DEFINE s == [conn[c] EXCEPT !.phase = p, !.x = Tunnel(o)]
    <3>1. s \in ConnStates /\ s.phase # "off" /\ s.open \in Opens /\ s.x \in Exchanges /\ s.dst \in Addrs
        BY <1>0, <2>1, <2>2 DEF ConnStates
    <3>2. conn' = [conn EXCEPT ![c] = s]
        BY <2>3 DEF TypeOK
    <3> HIDE DEF s
    <3>3. QED
        BY <1>0, <2>2, <3>1, <3>2, TypeMove
  <2>4. CASE conn' = [conn EXCEPT ![c].phase = "idle"]
    <3> DEFINE s == [conn[c] EXCEPT !.phase = "idle"]
    <3>1. s \in ConnStates /\ s.phase = "idle" /\ s.open \in Opens
        BY <1>0, <2>1 DEF ConnStates
    <3>2. conn' = [conn EXCEPT ![c] = s]
        BY <2>4
    <3> HIDE DEF s
    <3>3. QED
        BY <1>0, <2>2, <3>1, <3>2, TypeMove
  <2>5. QED
      BY <1>3, <2>3, <2>4 DEF Classify
<1>4. ASSUME NEW c \in Conns, Close(c) \/ ClientEndsIt(c) PROVE TypeOK'
  <2>1. Off \in ConnStates /\ Off.phase = "off"
      BY DEF Off, ConnStates
  <2>2. conn' = [conn EXCEPT ![c] = Off] /\ UNCHANGED <<left, cache, inflight, queried, reached>>
      BY <1>4 DEF Close, ClientEndsIt
  <2>3. QED
      BY <1>0, <2>1, <2>2, TypeMove
<1>6. ASSUME NEW c \in Conns, conn' = [conn EXCEPT ![c] = After(c)], ~In(c, "off"),
             reached' = reached, UNCHANGED <<left, cache, inflight, queried>>
      PROVE  TypeOK'
  <2>1. /\ After(c) \in ConnStates /\ After(c).phase \in {"off", "idle"}
        /\ After(c).phase # "off" => After(c).open \in Opens
      BY <1>6, AfterTyped
  <2>2. QED
      BY <1>0, <1>6, <2>1, TypeMove
<1>7. ASSUME NEW c \in Conns,
             RefuseUnresolved(c) \/ RefuseInternal(c) \/ ConnectFails(c) \/ OriginEndsIt(c)
      PROVE  TypeOK'
    BY <1>6, <1>7 DEF RefuseUnresolved, RefuseInternal, ConnectFails, OriginEndsIt, In
<1>8. ASSUME NEW c \in Conns, Resolved(c) PROVE TypeOK'
  <2> DEFINE a == cache[conn[c].x.host]
  <2> DEFINE s == [conn[c] EXCEPT !.dst = a, !.phase = "connect"]
  <2>1. a \in Addrs /\ conn[c].open \in Opens /\ conn[c].x \in Exchanges
      BY <1>8 DEF Resolved, TypeOK, In
  <2>2. s \in ConnStates /\ s.phase # "off" /\ s.open \in Opens /\ s.x \in Exchanges /\ s.dst \in Addrs
      BY <1>0, <2>1 DEF ConnStates
  <2>3. conn' = [conn EXCEPT ![c] = s] /\ UNCHANGED <<left, cache, inflight, queried, reached>>
      BY <1>8 DEF Resolved
  <2> HIDE DEF s
  <2>4. QED
      BY <1>0, <2>2, <2>3, TypeMove
<1>9. ASSUME NEW c \in Conns, Connect(c) PROVE TypeOK'
  <2> DEFINE s == [conn[c] EXCEPT !.phase = "connecting"]
  <2>1. conn[c].open \in Opens /\ conn[c].x \in Exchanges /\ conn[c].dst \in Addrs
      BY <1>9 DEF Connect, TypeOK, In
  <2>2. s \in ConnStates /\ s.phase # "off" /\ s.open \in Opens /\ s.x \in Exchanges /\ s.dst \in Addrs
      BY <1>0, <2>1 DEF ConnStates
  <2>3. /\ conn' = [conn EXCEPT ![c] = s] /\ UNCHANGED <<left, cache, inflight, queried>>
        /\ reached' = reached \cup {<<conn[c].x, conn[c].dst>>}
      BY <1>9 DEF Connect
  <2>4. reached' \subseteq Exchanges \X Addrs
      BY <1>0, <2>1, <2>3
  <2>5. left' \in [Conns -> 0..MaxExchanges]
      BY <1>0, <2>3
  <2> HIDE DEF s
  <2>6. QED
      BY <2>2, <2>3, <2>4, <2>5, TypeMove
<1>10. ASSUME NEW c \in Conns, Query(c) PROVE TypeOK'
    BY <1>10 DEF Query, TypeOK, PolicyInv, In
<1>11. ASSUME NEW n \in Names, Answer(n) PROVE TypeOK'
  <2>1. cache' \in [Names -> Addrs \cup {Unknown, None}]
      BY <1>11, RulesOK DEF Answer, TypeOK
  <2>2. inflight' \subseteq Names /\ UNCHANGED <<conn, left, queried, reached>>
      BY <1>11 DEF Answer, TypeOK
  <2>3. QED
      BY <2>1, <2>2 DEF TypeOK, In
<1>12. ASSUME NEW n \in Names, Expire(n) PROVE TypeOK'
    BY <1>12 DEF Expire, TypeOK, In
<1>13. CASE UNCHANGED vars
    BY <1>13 DEF vars, TypeOK, In
<1>14. QED
    BY <1>1, <1>2, <1>3, <1>4, <1>7, <1>8, <1>9, <1>10, <1>11, <1>12, <1>13 DEF Next, Proxy

--------------------------------------------------------------------------------
\* A step that only moves one connection keeps PolicyInv when the state it
\* moves to keeps it.
LEMMA PolicyMove ==
    ASSUME TypeOK, PolicyInv, NEW c \in Conns, NEW s,
           conn' = [conn EXCEPT ![c] = s],
           UNCHANGED <<cache, inflight, queried>>,
           s.phase = "detect" => s.dst = s.open.addr,
           s.phase \in {"resolve", "connect", "connecting"} => s.x \in Permitted,
           s.phase = "resolve" => s.x.via # "tcp" /\ s.x.host \in Names,
           s.phase \in {"connect", "connecting"} =>
               \/ AddressOf(s.x) # None /\ s.dst = AddressOf(s.x)
               \/ NameOf(s.x) \in queried /\ s.dst \in Answers[NameOf(s.x)] \ Internal
    PROVE  PolicyInv'
<1>1. \A d \in Conns : conn'[d] = IF d = c THEN s ELSE conn[d]
    BY DEF TypeOK
<1>2. \A d \in Conns : In(d, "detect")' => conn'[d].dst = conn'[d].open.addr
    BY <1>1 DEF PolicyInv, In
<1>3. \A d \in Conns : conn'[d].phase \in {"resolve", "connect", "connecting"} => conn'[d].x \in Permitted
    BY <1>1 DEF PolicyInv
<1>4. \A d \in Conns : In(d, "resolve")' => conn'[d].x.via # "tcp" /\ conn'[d].x.host \in Names
    BY <1>1 DEF PolicyInv, In
<1>5. \A d \in Conns : conn'[d].phase \in {"connect", "connecting"} =>
          \/ AddressOf(conn'[d].x) # None /\ conn'[d].dst = AddressOf(conn'[d].x)
          \/ NameOf(conn'[d].x) \in queried /\ conn'[d].dst \in Answers[NameOf(conn'[d].x)] \ Internal
    BY <1>1 DEF PolicyInv
<1>6. QED
    BY <1>2, <1>3, <1>4, <1>5 DEF PolicyInv

LEMMA PolicyStep == TypeOK /\ PolicyInv /\ [Next]_vars => PolicyInv'
<1> SUFFICES ASSUME TypeOK, PolicyInv, [Next]_vars PROVE PolicyInv'
    OBVIOUS
<1>1. ASSUME NEW c \in Conns, Open(c) PROVE PolicyInv'
    BY <1>1 DEF Open, PolicyInv, TypeOK, ConnStates, In
<1>2. ASSUME NEW c \in Conns, Request(c) PROVE PolicyInv'
  <2>1. conn[c].open \in Opens
      BY <1>2 DEF Request, TypeOK, In
  <2>2. CASE UNCHANGED conn
      BY <1>2, <2>2 DEF Request, PolicyInv, In
  <2>3. ASSUME NEW q \in Requests, NEW x, x = Exchange(conn[c].open, q),
               ~Traversal(x.path), RuleBlockAdmits(x),
               conn' = [conn EXCEPT ![c] =
                            [@ EXCEPT !.x = x,
                                !.phase = IF x.host \in Addrs THEN "connect" ELSE "resolve",
                                !.dst = IF x.host \in Addrs THEN x.host ELSE conn[c].open.addr]]
        PROVE  PolicyInv'
    <3>1. x \in Permitted /\ x.via \in {"https", "http"} /\ x.host \in Hosts
        BY <2>1, <2>3, AdmittedPermitted, BuildOK
    <3>2. x.host \in Addrs => AddressOf(x) # None /\ AddressOf(x) = x.host
        BY <3>1, RulesOK DEF AddressOf, Hosts
    <3> DEFINE s == [conn[c] EXCEPT !.x = x,
                        !.phase = IF x.host \in Addrs THEN "connect" ELSE "resolve",
                        !.dst = IF x.host \in Addrs THEN x.host ELSE conn[c].open.addr]
    <3>3. /\ s.x = x
          /\ s.phase = IF x.host \in Addrs THEN "connect" ELSE "resolve"
          /\ x.host \in Addrs => s.dst = x.host
        BY DEF TypeOK, ConnStates
    <3>4. conn' = [conn EXCEPT ![c] = s] /\ UNCHANGED <<cache, inflight, queried>>
        BY <1>2, <2>3 DEF Request
    <3> HIDE DEF s
    <3>5. QED
        BY <3>1, <3>2, <3>3, <3>4, PolicyMove DEF Hosts
  <2>4. QED
      BY <1>2, <2>2, <2>3 DEF Request
<1>3. ASSUME NEW c \in Conns, Classify(c) PROVE PolicyInv'
  <2> DEFINE o == conn[c].open
  <2>1. o \in Opens /\ conn[c].dst = o.addr
      BY <1>3 DEF Classify, TypeOK, PolicyInv, In
  <2>2. CASE BySni(o) /\ conn' = [conn EXCEPT ![c].phase = "resolve", ![c].x = Tunnel(o)]
    <3>1. Tunnel(o) \in Permitted /\ Tunnel(o).via # "tcp" /\ Tunnel(o).host \in Names
        BY <2>1, <2>2, TunnelsPermitted DEF Pass, BySni
    <3> DEFINE s == [conn[c] EXCEPT !.phase = "resolve", !.x = Tunnel(o)]
    <3>2. s.x = Tunnel(o) /\ s.phase = "resolve"
        BY DEF TypeOK, ConnStates
    <3>3. conn' = [conn EXCEPT ![c] = s] /\ UNCHANGED <<cache, inflight, queried>>
        BY <1>3, <2>2 DEF Classify
    <3> HIDE DEF s
    <3>4. QED
        BY <3>1, <3>2, <3>3, PolicyMove
  <2>3. CASE ~BySni(o) /\ Pass(o) /\ conn' = [conn EXCEPT ![c].phase = "connect", ![c].x = Tunnel(o)]
    <3>1. Tunnel(o) \in Permitted /\ AddressOf(Tunnel(o)) = o.addr /\ o.addr # None
        BY <2>1, <2>3, TunnelsPermitted, RulesOK, BuildOK DEF Hosts
    <3> DEFINE s == [conn[c] EXCEPT !.phase = "connect", !.x = Tunnel(o)]
    <3>2. s.x = Tunnel(o) /\ s.phase = "connect" /\ s.dst = o.addr
        BY <2>1 DEF TypeOK, ConnStates
    <3>3. conn' = [conn EXCEPT ![c] = s] /\ UNCHANGED <<cache, inflight, queried>>
        BY <1>3, <2>3 DEF Classify
    <3> HIDE DEF s
    <3>4. QED
        BY <3>1, <3>2, <3>3, PolicyMove
  <2>4. CASE conn' = [conn EXCEPT ![c].phase = "idle"]
    <3> DEFINE s == [conn[c] EXCEPT !.phase = "idle"]
    <3>1. s.phase = "idle"
        BY DEF TypeOK, ConnStates
    <3>2. conn' = [conn EXCEPT ![c] = s] /\ UNCHANGED <<cache, inflight, queried>>
        BY <1>3, <2>4 DEF Classify
    <3> HIDE DEF s
    <3>3. QED
        BY <3>1, <3>2, PolicyMove
  <2>5. QED
      BY <1>3, <2>2, <2>3, <2>4 DEF Classify
<1>4. ASSUME NEW c \in Conns, Close(c) \/ ClientEndsIt(c) PROVE PolicyInv'
  <2>1. conn' = [conn EXCEPT ![c] = Off] /\ UNCHANGED <<cache, inflight, queried>> /\ Off.phase = "off"
      BY <1>4 DEF Close, ClientEndsIt, Off
  <2>2. QED
      BY <2>1, PolicyMove
<1>5. ASSUME NEW c \in Conns, conn' = [conn EXCEPT ![c] = After(c)], ~In(c, "off"),
             UNCHANGED <<left, cache, inflight, queried>>
      PROVE  PolicyInv'
    BY <1>5, AfterTyped DEF PolicyInv, TypeOK, In
<1>6. ASSUME NEW c \in Conns,
             RefuseUnresolved(c) \/ RefuseInternal(c) \/ ConnectFails(c) \/ OriginEndsIt(c)
      PROVE  PolicyInv'
    BY <1>5, <1>6 DEF RefuseUnresolved, RefuseInternal, ConnectFails, OriginEndsIt, In
<1>7. ASSUME NEW c \in Conns, Resolved(c) PROVE PolicyInv'
  <2> DEFINE x == conn[c].x
             a == cache[x.host]
  <2>1. x.host \in Names /\ NameOf(x) = x.host
      BY <1>7 DEF Resolved, PolicyInv, NameOf, In
  <2>2. x.host \in queried /\ a \in Answers[x.host] \ Internal
      BY <1>7, <2>1, RulesOK DEF Resolved, PolicyInv, Hosts
  <2> DEFINE s == [conn[c] EXCEPT !.dst = a, !.phase = "connect"]
  <2>3. s.x = x /\ s.phase = "connect" /\ s.dst = a
      BY DEF TypeOK, ConnStates
  <2>4. conn' = [conn EXCEPT ![c] = s] /\ UNCHANGED <<cache, inflight, queried>>
      BY <1>7 DEF Resolved
  <2>5. x \in Permitted
      BY <1>7 DEF Resolved, PolicyInv, In
  <2> HIDE DEF s, x, a
  <2>6. NameOf(s.x) \in queried /\ s.dst \in Answers[NameOf(s.x)] \ Internal
      BY <2>1, <2>2, <2>3
  <2>7. s.x \in Permitted
      BY <2>3, <2>5
  <2>8. QED
      BY <2>3, <2>4, <2>6, <2>7, PolicyMove
<1>8. ASSUME NEW c \in Conns, Connect(c) PROVE PolicyInv'
  <2> DEFINE s == [conn[c] EXCEPT !.phase = "connecting"]
  <2>1. s.phase = "connecting" /\ s.x = conn[c].x /\ s.dst = conn[c].dst
      BY DEF TypeOK, ConnStates
  <2>2. conn' = [conn EXCEPT ![c] = s] /\ UNCHANGED <<cache, inflight, queried>>
      BY <1>8 DEF Connect
  <2>3. conn[c].phase = "connect"
      BY <1>8 DEF Connect, In
  <2> HIDE DEF s
  <2>4. s.x \in Permitted
      BY <2>1, <2>3 DEF PolicyInv
  <2>5. \/ AddressOf(s.x) # None /\ s.dst = AddressOf(s.x)
        \/ NameOf(s.x) \in queried /\ s.dst \in Answers[NameOf(s.x)] \ Internal
      BY <2>1, <2>3 DEF PolicyInv
  <2>6. QED
      BY <2>1, <2>2, <2>4, <2>5, PolicyMove
<1>9. ASSUME NEW c \in Conns, Query(c) PROVE PolicyInv'
    BY <1>9 DEF Query, PolicyInv, TypeOK, In
<1>10. ASSUME NEW n \in Names, Answer(n) PROVE PolicyInv'
    BY <1>10 DEF Answer, PolicyInv, TypeOK, In
<1>11. ASSUME NEW n \in Names, Expire(n) PROVE PolicyInv'
    BY <1>11 DEF Expire, PolicyInv, TypeOK, In
<1>12. CASE UNCHANGED vars
    BY <1>12 DEF vars, PolicyInv, In
<1>13. QED
    BY <1>1, <1>2, <1>3, <1>4, <1>6, <1>7, <1>8, <1>9, <1>10, <1>11, <1>12 DEF Next, Proxy

LEMMA Start == Init => TypeOK /\ PolicyInv
<1> USE RulesOK, BuildOK DEF Hosts
<1> SUFFICES ASSUME Init PROVE TypeOK /\ PolicyInv
    OBVIOUS
<1>1. Off \in ConnStates /\ Off.phase = "off"
    BY DEF Off, ConnStates
<1>2. \A c \in Conns : conn[c] = Off
    BY DEF Init
<1>3. TypeOK
    BY <1>1, <1>2 DEF Init, TypeOK, In
<1>4. PolicyInv
    BY <1>1, <1>2 DEF Init, PolicyInv, In
<1>5. QED
    BY <1>3, <1>4

\* No connection is ever past the rules with an exchange they do not permit, or
\* connected to an address that neither the exchange nor DNS named.
THEOREM RulesComeFirst == Spec => [](TypeOK /\ PolicyInv)
<1>1. TypeOK /\ PolicyInv /\ [Next]_vars => (TypeOK /\ PolicyInv)'
    BY TypeStep, PolicyStep
<1>2. QED
    BY <1>1, Start, PTL DEF Spec

--------------------------------------------------------------------------------
\* A step of the proxy is a step of EgressPolicy or changes nothing it sees.
LEMMA PolicyRefined ==
    TypeOK /\ PolicyInv /\ [Next]_vars => [Policy!Next]_(Policy!policyVars)
<1> USE RulesOK, BuildOK DEF Hosts
<1> SUFFICES ASSUME TypeOK, PolicyInv, [Next]_vars
             PROVE  Policy!Next \/ UNCHANGED <<queried, reached>>
    BY DEF Policy!policyVars
<1>1. ASSUME NEW c \in Conns, Query(c) PROVE Policy!Query
  <2>1. conn[c].x \in Permitted /\ NameOf(conn[c].x) = conn[c].x.host /\ conn[c].x.host \in Names
      BY <1>1 DEF Query, PolicyInv, NameOf, In
  <2>2. QED
      BY <1>1, <2>1 DEF Query, Policy!Query
<1>2. ASSUME NEW c \in Conns, Connect(c) PROVE Policy!Reach
  <2>1. conn[c].x \in Permitted
      BY <1>2 DEF Connect, PolicyInv, In
  <2>2. QED
      BY <1>2, <2>1 DEF Connect, PolicyInv, Policy!Reach, In
<1>3. CASE \E c \in Conns : Open(c) \/ Request(c) \/ Classify(c) \/ Close(c) \/ RefuseUnresolved(c)
              \/ RefuseInternal(c) \/ Resolved(c) \/ ConnectFails(c) \/ OriginEndsIt(c) \/ ClientEndsIt(c)
  <2>1. PICK c \in Conns : Open(c) \/ Request(c) \/ Classify(c) \/ Close(c) \/ RefuseUnresolved(c)
                              \/ RefuseInternal(c) \/ Resolved(c) \/ ConnectFails(c) \/ OriginEndsIt(c)
                              \/ ClientEndsIt(c)
      BY <1>3
  <2>2. Open(c) \/ Classify(c) \/ Close(c) => UNCHANGED <<queried, reached>>
      BY DEF Open, Classify, Close
  <2>3. Request(c) => UNCHANGED <<queried, reached>>
      BY DEF Request
  <2>4. RefuseUnresolved(c) \/ RefuseInternal(c) \/ Resolved(c) => UNCHANGED <<queried, reached>>
      BY DEF RefuseUnresolved, RefuseInternal, Resolved
  <2>5. ConnectFails(c) \/ OriginEndsIt(c) \/ ClientEndsIt(c) => UNCHANGED <<queried, reached>>
      BY DEF ConnectFails, OriginEndsIt, ClientEndsIt
  <2>6. QED
      BY <2>1, <2>2, <2>3, <2>4, <2>5
<1>4. CASE \E n \in Names : Answer(n) \/ Expire(n)
    BY <1>4 DEF Answer, Expire
<1>5. CASE UNCHANGED vars
    BY <1>5 DEF vars
<1>6. QED
    BY <1>1, <1>2, <1>3, <1>4, <1>5 DEF Next, Proxy, Policy!Next

\* The proxy implements EgressPolicy: a name is asked for and an address is
\* connected to only for what the rules permit, at an address DNS or the
\* exchange itself named.
THEOREM ProxyKeepsPolicy == Spec => KeepsPolicy
<1>1. Init => Policy!Init
    BY DEF Init, Policy!Init
<1>2. QED
    BY <1>1, RulesComeFirst, PolicyRefined, PTL DEF KeepsPolicy, Policy!Spec, Spec

--------------------------------------------------------------------------------
(* The log, and what the report makes of it. *)

LEMMA LogGrows ==
    ASSUME LogInv, NEW r, log' = log \cup {r}, LineOK(r)
    PROVE  LogInv'
BY DEF LogInv

\* What Record adds, of a refusal and of the end of an exchange.
Refusal(x, dst, status, why) ==
    [line |-> Line(x, dst, status, TS("P", "R")), why |-> why, answered |-> FALSE]

End(c, status, ts, answered) ==
    [line |-> Line(conn[c].x, conn[c].dst, status, ts), why |-> "none", answered |-> answered]

\* However a connection or an origin ends an exchange.
LEMMA EndIsLogged == ASSUME LogInv, NEW c \in Conns, ConnectFails(c) \/ OriginEndsIt(c) PROVE LogInv'
<1>1. CASE ConnectFails(c)
  <2>1. CASE "refused" \in OriginEnds /\ Ended(c, 503, TS("S", "C"), FALSE)
    <3> DEFINE r == End(c, 503, TS("S", "C"), FALSE)
    <3>1. log' = log \cup {r}
        BY <2>1 DEF Ended, Record, End
    <3>2. LineOK(r)
        BY <2>1 DEF End, Line, LineOK
    <3> HIDE DEF r
    <3>3. QED
        BY <3>1, <3>2, LogGrows
  <2>2. CASE "connectTimeout" \in OriginEnds /\ Ended(c, 503, TS("s", "C"), FALSE)
    <3> DEFINE r == End(c, 503, TS("s", "C"), FALSE)
    <3>1. log' = log \cup {r}
        BY <2>2 DEF Ended, Record, End
    <3>2. LineOK(r)
        BY <2>2 DEF End, Line, LineOK
    <3> HIDE DEF r
    <3>3. QED
        BY <3>1, <3>2, LogGrows
  <2>3. QED
      BY <1>1, <2>1, <2>2 DEF ConnectFails
<1>2. CASE OriginEndsIt(c)
  <2>1. CASE "abort" \in OriginEnds /\ Ended(c, 200, TS("S", "D"), TRUE)
    <3> DEFINE r == End(c, 200, TS("S", "D"), TRUE)
    <3>1. log' = log \cup {r}
        BY <2>1 DEF Ended, Record, End
    <3>2. LineOK(r)
        BY <2>1 DEF End, Line, LineOK
    <3> HIDE DEF r
    <3>3. QED
        BY <3>1, <3>2, LogGrows
  <2>2. CASE "hangup" \in OriginEnds /\ Ended(c, 502, TS("S", "H"), FALSE)
    <3> DEFINE r == End(c, 502, TS("S", "H"), FALSE)
    <3>1. log' = log \cup {r}
        BY <2>2 DEF Ended, Record, End
    <3>2. LineOK(r)
        BY <2>2 DEF End, Line, LineOK
    <3> HIDE DEF r
    <3>3. QED
        BY <3>1, <3>2, LogGrows
  <2>3. CASE "silence" \in OriginEnds /\ Ended(c, 504, TS("s", "H"), FALSE)
    <3> DEFINE r == End(c, 504, TS("s", "H"), FALSE)
    <3>1. log' = log \cup {r}
        BY <2>3 DEF Ended, Record, End
    <3>2. LineOK(r)
        BY <2>3 DEF End, Line, LineOK
    <3> HIDE DEF r
    <3>3. QED
        BY <3>1, <3>2, LogGrows
  <2>4. CASE \E status \in {200, 403, 503} : Ended(c, status, TS("-", "-"), TRUE)
    <3>1. PICK status \in {200, 403, 503} : Ended(c, status, TS("-", "-"), TRUE)
        BY <2>4
    <3> DEFINE r == End(c, status, TS("-", "-"), TRUE)
    <3>2. log' = log \cup {r}
        BY <3>1 DEF Ended, Record, End
    <3>3. LineOK(r)
        BY DEF End, Line, LineOK
    <3> HIDE DEF r
    <3>4. QED
        BY <3>2, <3>3, LogGrows
  <2> DEFINE E1 == "abort" \in OriginEnds /\ Ended(c, 200, TS("S", "D"), TRUE)
             E2 == "hangup" \in OriginEnds /\ Ended(c, 502, TS("S", "H"), FALSE)
             E3 == "silence" \in OriginEnds /\ Ended(c, 504, TS("s", "H"), FALSE)
             E4 == \E status \in {200, 403, 503} : Ended(c, status, TS("-", "-"), TRUE)
  <2>5. E1 \/ E2 \/ E3 \/ E4
      BY <1>2, Zenon DEF OriginEndsIt
  <2>6. (E1 => LogInv') /\ (E2 => LogInv') /\ (E3 => LogInv') /\ (E4 => LogInv')
      BY <2>1, <2>2, <2>3, <2>4
  <2> HIDE DEF E1, E2, E3, E4
  <2>7. QED
      BY <2>5, <2>6
<1>3. QED
    BY <1>1, <1>2

\* However the build does: its lines are its own, answered or not.
LEMMA ClientLine ==
    ASSUME NEW x, NEW dst, NEW status, NEW who \in {"C", "c"}, NEW when, NEW answered \in BOOLEAN,
           Record(Line(x, dst, status, TS(who, when)), "none", answered)
    PROVE  \E r : /\ log' = log \cup {r} /\ r.why = "none" /\ r.line.ts.who \in {"C", "c"}
                  /\ Tells(r.line, <<x, dst>>)
<1> DEFINE r == [line |-> Line(x, dst, status, TS(who, when)), why |-> "none", answered |-> answered]
<1>1. log' = log \cup {r}
    BY DEF Record
<1>2. r.why = "none" /\ r.line.ts.who \in {"C", "c"} /\ Tells(r.line, <<x, dst>>)
    BY DEF Line, TS, Tells
<1> HIDE DEF r
<1>3. QED
    BY <1>1, <1>2

LEMMA CloseLine ==
    ASSUME NEW c \in Conns, Close(c)
    PROVE  \/ UNCHANGED log
           \/ \E r : log' = log \cup {r} /\ r.why = "none" /\ r.line.ts.who \in {"C", "c"}
<1> DEFINE x == Exchange(conn[c].open, NoRequest)
           New == \E r : log' = log \cup {r} /\ r.why = "none" /\ r.line.ts.who \in {"C", "c"}
<1> HIDE DEF x
<1>1. ASSUME Record(Line(x, conn[c].dst, 400, TS("C", "R")), "none", FALSE) PROVE New
  <2>1. \E r : /\ log' = log \cup {r} /\ r.why = "none" /\ r.line.ts.who \in {"C", "c"}
               /\ Tells(r.line, <<x, conn[c].dst>>)
      BY <1>1, ClientLine
  <2>2. QED
      BY <2>1, Zenon
<1>2. ASSUME Record(Line(x, conn[c].dst, 408, TS("c", "R")), "none", FALSE) PROVE New
  <2>1. \E r : /\ log' = log \cup {r} /\ r.why = "none" /\ r.line.ts.who \in {"C", "c"}
               /\ Tells(r.line, <<x, conn[c].dst>>)
      BY <1>2, ClientLine
  <2>2. QED
      BY <2>1, Zenon
<1> HIDE DEF New
<1>3. UNCHANGED log \/ New
    BY <1>1, <1>2 DEF Close, x
<1>4. QED
    BY <1>3 DEF New

LEMMA ClientEndLine ==
    ASSUME NEW c \in Conns, ClientEndsIt(c)
    PROVE  \E r : /\ log' = log \cup {r} /\ r.why = "none" /\ r.line.ts.who \in {"C", "c"}
                  /\ Tells(r.line, <<conn[c].x, conn[c].dst>>)
<1> DEFINE New == \E r : /\ log' = log \cup {r} /\ r.why = "none" /\ r.line.ts.who \in {"C", "c"}
                         /\ Tells(r.line, <<conn[c].x, conn[c].dst>>)
<1>1. Ended(c, -1, TS("C", Stage(c)), FALSE) => New
    BY ClientLine DEF Ended
<1>2. Ended(c, 408, TS("c", Stage(c)), FALSE) => New
    BY ClientLine DEF Ended
<1>3. Ended(c, 200, TS("C", "D"), TRUE) => New
    BY ClientLine DEF Ended
<1>4. Ended(c, 200, TS("c", "D"), TRUE) => New
    BY ClientLine DEF Ended
<1> HIDE DEF New
<1>5. New
    BY <1>1, <1>2, <1>3, <1>4 DEF ClientEndsIt
<1>6. QED
    BY <1>5 DEF New

LEMMA ClientsEndIsLogged == ASSUME LogInv, NEW c \in Conns, Close(c) \/ ClientEndsIt(c) PROVE LogInv'
<1>1. UNCHANGED log \/ \E r : log' = log \cup {r} /\ r.why = "none" /\ r.line.ts.who \in {"C", "c"}
    BY CloseLine, ClientEndLine
<1>2. ASSUME NEW r, log' = log \cup {r}, r.why = "none", r.line.ts.who \in {"C", "c"} PROVE LogInv'
  <2>1. LineOK(r)
      BY <1>2 DEF LineOK
  <2>2. QED
      BY <1>2, <2>1, LogGrows
<1>3. QED
    BY <1>1, <1>2 DEF LogInv

LEMMA LogStep == LogInv /\ [Next]_vars => LogInv'
<1> SUFFICES ASSUME LogInv, [Next]_vars PROVE LogInv'
    OBVIOUS
<1>1. ASSUME UNCHANGED log PROVE LogInv'
    BY <1>1 DEF LogInv
<1>2. ASSUME NEW c \in Conns, Request(c) PROVE LogInv'
  <2>1. CASE UNCHANGED log
      BY <1>1, <2>1
  <2>2. ASSUME NEW x, Record(Line(x, conn[c].open.addr, 403, TS("P", "R")),
                             IF Traversal(x.path) THEN "traversal" ELSE "rule", FALSE)
        PROVE  LogInv'
    <3>1. PICK why \in {"traversal", "rule"} : why = IF Traversal(x.path) THEN "traversal" ELSE "rule"
        OBVIOUS
    <3>2. log' = log \cup {Refusal(x, conn[c].open.addr, 403, why)}
        BY <2>2, <3>1 DEF Record, Refusal
    <3>3. LineOK(Refusal(x, conn[c].open.addr, 403, why))
        BY DEF Refusal, Line, LineOK
    <3>4. QED
        BY <3>2, <3>3, LogGrows
  <2>3. QED
      BY <1>2, <2>1, <2>2 DEF Request
<1>3. ASSUME NEW c \in Conns, RefuseUnresolved(c) PROVE LogInv'
  <2>1. log' = log \cup {Refusal(conn[c].x, conn[c].dst, 502, "dns")}
      BY <1>3 DEF RefuseUnresolved, Record, Refusal
  <2>2. LineOK(Refusal(conn[c].x, conn[c].dst, 502, "dns"))
      BY DEF Refusal, Line, LineOK
  <2>3. QED
      BY <2>1, <2>2, LogGrows
<1>4. ASSUME NEW c \in Conns, RefuseInternal(c) PROVE LogInv'
  <2> DEFINE a == cache[conn[c].x.host]
  <2>1. log' = log \cup {Refusal(conn[c].x, a, 403, "internal")}
      BY <1>4 DEF RefuseInternal, Record, Refusal
  <2>2. LineOK(Refusal(conn[c].x, a, 403, "internal"))
      BY DEF Refusal, Line, LineOK
  <2> HIDE DEF a
  <2>3. QED
      BY <2>1, <2>2, LogGrows
<1>5. ASSUME NEW c \in Conns, ConnectFails(c) \/ OriginEndsIt(c) PROVE LogInv'
    BY <1>5, EndIsLogged
<1>6. CASE \E c \in Conns : Open(c) \/ Classify(c) \/ Query(c) \/ Resolved(c) \/ Connect(c)
    BY <1>1, <1>6 DEF Open, Classify, Query, Resolved, Connect
<1>7. CASE \E n \in Names : Answer(n) \/ Expire(n)
    BY <1>1, <1>7 DEF Answer, Expire
<1>8. CASE UNCHANGED vars
    BY <1>1, <1>8 DEF vars
<1>9. ASSUME NEW c \in Conns, Close(c) \/ ClientEndsIt(c) PROVE LogInv'
    BY <1>9, ClientsEndIsLogged
<1>10. QED
    BY <1>2, <1>3, <1>4, <1>5, <1>6, <1>7, <1>8, <1>9 DEF Next, Proxy

LEMMA LogHolds == Spec => []LogInv
<1>1. Init => LogInv
    BY DEF Init, LogInv
<1>2. QED
    BY <1>1, LogStep, PTL DEF Spec

\* Who ended an exchange, from its termination state.
LEMMA WhoEnds ==
    /\ TS("P", "R").who = "P" /\ TS("-", "-").who = "-" /\ TS("S", "D").who = "S"
    /\ TS("S", "C").who = "S" /\ TS("s", "C").who = "s" /\ TS("S", "H").who = "S" /\ TS("s", "H").who = "s"
BY DEF TS

--------------------------------------------------------------------------------
(* What was connected to is in the log, and nothing else is. *)

\* What is connected was reached.
ConnectedInv == \A c \in Conns : In(c, "connecting") => <<conn[c].x, conn[c].dst>> \in reached

TrafficInv == ConnectedInv /\ TrafficLogged

\* A line that does not speak of a connection there was not, nor of an address
\* that was not refused.
FitsLog(r) ==
    /\ r.line.ts.who \in {"-", "S", "s"} => \E y \in reached : Tells(r.line, y)
    /\ r.why = "internal" => r.line.dst \in Internal \cap Answers[r.line.host]

\* A step that takes a connection elsewhere than to an origin keeps TrafficInv
\* when its line fits and, if the connection was at an origin, tells of it.
LEMMA TrafficMove ==
    ASSUME TypeOK, TrafficInv, NEW c \in Conns, NEW s,
           conn' = [conn EXCEPT ![c] = s], s.phase # "connecting", UNCHANGED reached,
           log \subseteq log', \A r \in log' : r \in log \/ FitsLog(r),
           In(c, "connecting") => \E r \in log' : Tells(r.line, <<conn[c].x, conn[c].dst>>)
    PROVE  TrafficInv'
<1>1. \A d \in Conns : conn'[d] = IF d = c THEN s ELSE conn[d]
    BY DEF TypeOK
<1>2. ConnectedInv'
    BY <1>1 DEF TrafficInv, ConnectedInv, In
<1>3. ASSUME NEW y \in reached
      PROVE  \/ \E d \in Conns : In(d, "connecting")' /\ y = <<conn'[d].x, conn'[d].dst>>
             \/ \E r \in log' : Tells(r.line, y)
  <2>1. CASE \E d \in Conns : In(d, "connecting") /\ y = <<conn[d].x, conn[d].dst>>
    <3>1. PICK d \in Conns : In(d, "connecting") /\ y = <<conn[d].x, conn[d].dst>>
        BY <2>1
    <3>2. CASE d = c
        BY <3>1, <3>2
    <3>3. CASE d # c
        BY <1>1, <3>1, <3>3 DEF In
    <3>4. QED
        BY <3>2, <3>3
  <2>2. CASE \E r \in log : Tells(r.line, y)
      BY <2>2
  <2>3. QED
      BY <2>1, <2>2 DEF TrafficInv, TrafficLogged
<1>4. \A r \in log' : FitsLog(r)
    BY DEF TrafficInv, TrafficLogged, FitsLog
<1>5. \A r \in log' : FitsLog(r)'
    BY <1>4 DEF FitsLog, Tells
<1>6. TrafficLogged'
    BY <1>3, <1>5 DEF TrafficLogged, FitsLog, Tells
<1>7. QED
    BY <1>2, <1>6 DEF TrafficInv

LEMMA TrafficStep ==
    ASSUME TypeOK, PolicyInv, TrafficInv, [Next]_vars PROVE TrafficInv'
<1>0. \A c \in Conns : conn[c] \in ConnStates
    BY DEF TypeOK
<1>1. ASSUME UNCHANGED <<conn, reached, log>> PROVE TrafficInv'
    BY <1>1 DEF TrafficInv, ConnectedInv, TrafficLogged, Tells, In
<1>2. ASSUME NEW c \in Conns, Request(c) PROVE TrafficInv'
  <2>1. ~In(c, "connecting") /\ UNCHANGED reached /\ conn[c].phase # "connecting"
      BY <1>2 DEF Request, In
  <2>2. ASSUME UNCHANGED conn,
               NEW x, Record(Line(x, conn[c].open.addr, 403, TS("P", "R")),
                             IF Traversal(x.path) THEN "traversal" ELSE "rule", FALSE)
        PROVE  TrafficInv'
    <3>1. PICK why \in {"traversal", "rule"} : why = IF Traversal(x.path) THEN "traversal" ELSE "rule"
        OBVIOUS
    <3> DEFINE r == Refusal(x, conn[c].open.addr, 403, why)
    <3>2. log' = log \cup {r}
        BY <2>2, <3>1 DEF Record, Refusal
    <3>3. FitsLog(r)
        BY <3>1 DEF FitsLog, Refusal, Line, TS
    <3> HIDE DEF r
    <3>4. conn' = [conn EXCEPT ![c] = conn[c]]
        BY <2>2 DEF TypeOK
    <3>5. log \subseteq log' /\ \A t \in log' : t \in log \/ FitsLog(t)
        BY <3>2, <3>3
    <3>6. QED
        BY <2>1, <3>4, <3>5, TrafficMove
  <2>3. ASSUME NEW x, UNCHANGED log,
               conn' = [conn EXCEPT ![c] =
                            [@ EXCEPT !.x = x,
                                !.phase = IF x.host \in Addrs THEN "connect" ELSE "resolve",
                                !.dst = IF x.host \in Addrs THEN x.host ELSE conn[c].open.addr]]
        PROVE  TrafficInv'
    <3> DEFINE s == [conn[c] EXCEPT !.x = x,
                        !.phase = IF x.host \in Addrs THEN "connect" ELSE "resolve",
                        !.dst = IF x.host \in Addrs THEN x.host ELSE conn[c].open.addr]
    <3>1. s.phase # "connecting"
        BY <1>0 DEF ConnStates
    <3>2. conn' = [conn EXCEPT ![c] = s] /\ log \subseteq log' /\ \A r \in log' : r \in log
        BY <2>3
    <3> HIDE DEF s
    <3>3. QED
        BY <2>1, <3>1, <3>2, TrafficMove
  <2>4. QED
      BY <1>2, <2>2, <2>3 DEF Request
<1>3. ASSUME NEW c \in Conns, NEW s, conn' = [conn EXCEPT ![c] = s], s.phase # "connecting",
             ~In(c, "connecting"), UNCHANGED <<reached, log>>
      PROVE  TrafficInv'
  <2>1. log \subseteq log' /\ \A r \in log' : r \in log
      BY <1>3
  <2>2. QED
      BY <1>3, <2>1, TrafficMove
<1>4. ASSUME NEW c \in Conns, Open(c) PROVE TrafficInv'
  <2>1. PICK o \in Opens :
            conn' = [conn EXCEPT ![c] = [phase |-> "detect", open |-> o, x |-> None, dst |-> o.addr]]
      BY <1>4 DEF Open
  <2> DEFINE s == [phase |-> "detect", open |-> o, x |-> None, dst |-> o.addr]
  <2>2. conn' = [conn EXCEPT ![c] = s] /\ s.phase # "connecting"
      BY <2>1
  <2> HIDE DEF s
  <2>3. ~In(c, "connecting") /\ UNCHANGED <<reached, log>>
      BY <1>4 DEF Open, In
  <2>4. QED
      BY <1>3, <2>2, <2>3
<1>5. ASSUME NEW c \in Conns, Classify(c) PROVE TrafficInv'
  <2>1. ~In(c, "connecting") /\ UNCHANGED <<reached, log>>
      BY <1>5 DEF Classify, In
  <2>2. ASSUME NEW p \in {"resolve", "connect"}, NEW x, conn' = [conn EXCEPT ![c].phase = p, ![c].x = x]
        PROVE  TrafficInv'
    <3> DEFINE s == [conn[c] EXCEPT !.phase = p, !.x = x]
    <3>1. conn' = [conn EXCEPT ![c] = s] /\ s.phase # "connecting"
        BY <1>0, <2>2 DEF ConnStates
    <3> HIDE DEF s
    <3>2. QED
        BY <1>3, <2>1, <3>1
  <2>3. CASE conn' = [conn EXCEPT ![c].phase = "idle"]
    <3> DEFINE s == [conn[c] EXCEPT !.phase = "idle"]
    <3>1. conn' = [conn EXCEPT ![c] = s] /\ s.phase # "connecting"
        BY <1>0, <2>3 DEF ConnStates
    <3> HIDE DEF s
    <3>2. QED
        BY <1>3, <2>1, <3>1
  <2>4. QED
      BY <1>5, <2>2, <2>3 DEF Classify
<1>6. ASSUME NEW c \in Conns, Resolved(c) PROVE TrafficInv'
  <2> DEFINE s == [conn[c] EXCEPT !.dst = cache[conn[c].x.host], !.phase = "connect"]
  <2>1. conn' = [conn EXCEPT ![c] = s] /\ s.phase # "connecting"
      BY <1>0, <1>6 DEF Resolved, ConnStates
  <2> HIDE DEF s
  <2>2. ~In(c, "connecting") /\ UNCHANGED <<reached, log>>
      BY <1>6 DEF Resolved, In
  <2>3. QED
      BY <1>3, <2>1, <2>2
\* Steps that write a line of their own for an exchange that never got there.
<1>7. ASSUME NEW c \in Conns, NEW s, conn' = [conn EXCEPT ![c] = s], s.phase # "connecting",
             ~In(c, "connecting"), UNCHANGED reached,
             NEW line, NEW why, Record(line, why, FALSE), line.ts.who \in {"P", "C", "c"},
             why = "internal" => line.dst \in Internal \cap Answers[line.host]
      PROVE  TrafficInv'
  <2> DEFINE r == [line |-> line, why |-> why, answered |-> FALSE]
  <2>1. log' = log \cup {r} /\ r.line = line /\ r.why = why
      BY <1>7 DEF Record
  <2> HIDE DEF r
  <2>2. FitsLog(r)
      BY <1>7, <2>1 DEF FitsLog
  <2>3. log \subseteq log' /\ \A t \in log' : t \in log \/ FitsLog(t)
      BY <2>1, <2>2
  <2>4. QED
      BY <1>7, <2>3, TrafficMove
<1>8. ASSUME NEW c \in Conns, Close(c) PROVE TrafficInv'
  <2>1. /\ conn' = [conn EXCEPT ![c] = Off] /\ Off.phase # "connecting" /\ ~In(c, "connecting")
        /\ UNCHANGED reached
      BY <1>8 DEF Close, Off, In
  <2>2. ASSUME NEW r, log' = log \cup {r}, r.why = "none", r.line.ts.who \in {"C", "c"} PROVE TrafficInv'
    <3>1. FitsLog(r)
        BY <2>2 DEF FitsLog
    <3>2. log \subseteq log' /\ \A t \in log' : t \in log \/ FitsLog(t)
        BY <2>2, <3>1
    <3>3. QED
        BY <2>1, <3>2, TrafficMove
  <2>3. UNCHANGED log => TrafficInv'
      BY <1>3, <2>1
  <2>4. QED
      BY <1>8, <2>2, <2>3, CloseLine
<1>9. ASSUME NEW c \in Conns, RefuseUnresolved(c) \/ RefuseInternal(c) PROVE TrafficInv'
  <2>1. /\ conn' = [conn EXCEPT ![c] = After(c)] /\ After(c).phase # "connecting" /\ ~In(c, "connecting")
        /\ UNCHANGED reached /\ In(c, "resolve")
      BY <1>9, AfterTyped DEF RefuseUnresolved, RefuseInternal, In
  <2>2. CASE RefuseUnresolved(c)
    <3> DEFINE line == Line(conn[c].x, conn[c].dst, 502, TS("P", "R"))
    <3>1. line.ts.who = "P" /\ Record(line, "dns", FALSE)
        BY <2>2 DEF Line, TS, RefuseUnresolved
    <3> HIDE DEF line
    <3>2. QED
        BY <1>7, <2>1, <3>1
  <2>3. CASE RefuseInternal(c)
    <3> DEFINE a == cache[conn[c].x.host]
               line == Line(conn[c].x, a, 403, TS("P", "R"))
    <3>1. line.ts.who = "P" /\ line.dst = a /\ line.host = conn[c].x.host /\ Record(line, "internal", FALSE)
        BY <2>3 DEF Line, TS, RefuseInternal
    <3>2. conn[c].x.host \in Names /\ a \in Internal
        BY <2>1, <2>3 DEF PolicyInv, RefuseInternal
    <3>3. a \in Answers[conn[c].x.host]
        BY <3>2, RulesOK DEF PolicyInv, Hosts
    <3> HIDE DEF line, a
    <3>4. QED
        BY <1>7, <2>1, <3>1, <3>2, <3>3
  <2>4. QED
      BY <1>9, <2>2, <2>3
\* Steps that end an exchange that got there.
<1>10. ASSUME NEW c \in Conns, NEW s, conn' = [conn EXCEPT ![c] = s], s.phase # "connecting", UNCHANGED reached,
              NEW r, log' = log \cup {r}, r.why = "none", Tells(r.line, <<conn[c].x, conn[c].dst>>),
              In(c, "connecting") \/ r.line.ts.who \in {"C", "c"}
       PROVE  TrafficInv'
  <2>1. FitsLog(r)
      BY <1>10 DEF FitsLog, TrafficInv, ConnectedInv
  <2>2. log \subseteq log' /\ \A t \in log' : t \in log \/ FitsLog(t)
      BY <1>10, <2>1
  <2>3. \E t \in log' : Tells(t.line, <<conn[c].x, conn[c].dst>>)
      BY <1>10
  <2>4. QED
      BY <1>10, <2>2, <2>3, TrafficMove
<1>17. ASSUME NEW c \in Conns, NEW status, NEW ts, NEW answered \in BOOLEAN, Ended(c, status, ts, answered),
             In(c, "connecting"), conn' = [conn EXCEPT ![c] = After(c)], UNCHANGED reached
      PROVE  TrafficInv'
  <2> DEFINE r == End(c, status, ts, answered)
  <2>1. log' = log \cup {r} /\ r.why = "none" /\ Tells(r.line, <<conn[c].x, conn[c].dst>>)
      BY <1>17 DEF Ended, Record, End, Line, Tells
  <2> HIDE DEF r
  <2>2. After(c).phase # "connecting"
      BY <1>17, AfterTyped DEF In
  <2>3. QED
      BY <1>10, <1>17, <2>1, <2>2
<1>11. ASSUME NEW c \in Conns, ConnectFails(c) PROVE TrafficInv'
  <2>1. In(c, "connecting") /\ conn' = [conn EXCEPT ![c] = After(c)] /\ UNCHANGED reached
      BY <1>11 DEF ConnectFails
  <2>2. Ended(c, 503, TS("S", "C"), FALSE) => TrafficInv'
      BY <1>17, <2>1
  <2>3. Ended(c, 503, TS("s", "C"), FALSE) => TrafficInv'
      BY <1>17, <2>1
  <2>4. QED
      BY <1>11, <2>2, <2>3 DEF ConnectFails
<1>12. ASSUME NEW c \in Conns, OriginEndsIt(c) PROVE TrafficInv'
  <2>1. In(c, "connecting") /\ conn' = [conn EXCEPT ![c] = After(c)] /\ UNCHANGED reached
      BY <1>12 DEF OriginEndsIt
  <2> DEFINE E1 == Ended(c, 200, TS("S", "D"), TRUE)
             E2 == Ended(c, 502, TS("S", "H"), FALSE)
             E3 == Ended(c, 504, TS("s", "H"), FALSE)
             E4 == \E status \in {200, 403, 503} : Ended(c, status, TS("-", "-"), TRUE)
  <2>2. E1 => TrafficInv'
      BY <1>17, <2>1
  <2>3. E2 => TrafficInv'
      BY <1>17, <2>1
  <2>4. E3 => TrafficInv'
      BY <1>17, <2>1
  <2>5. E4 => TrafficInv'
      BY <1>17, <2>1
  <2>6. E1 \/ E2 \/ E3 \/ E4
      BY <1>12, Zenon DEF OriginEndsIt
  <2> HIDE DEF E1, E2, E3, E4
  <2>7. QED
      BY <2>2, <2>3, <2>4, <2>5, <2>6
<1>13. ASSUME NEW c \in Conns, ClientEndsIt(c) PROVE TrafficInv'
  <2>1. conn' = [conn EXCEPT ![c] = Off] /\ Off.phase # "connecting" /\ UNCHANGED reached
      BY <1>13 DEF ClientEndsIt, Off
  <2>2. PICK r : /\ log' = log \cup {r} /\ r.why = "none" /\ r.line.ts.who \in {"C", "c"}
                 /\ Tells(r.line, <<conn[c].x, conn[c].dst>>)
      BY <1>13, ClientEndLine
  <2>3. QED
      BY <1>10, <2>1, <2>2
<1>14. ASSUME NEW c \in Conns, Connect(c) PROVE TrafficInv'
  <2> DEFINE y == <<conn[c].x, conn[c].dst>>
  <2>1. /\ reached' = reached \cup {y} /\ log' = log /\ ~In(c, "connecting")
        /\ conn' = [conn EXCEPT ![c].phase = "connecting"]
      BY <1>14 DEF Connect, In
  <2>2. /\ \A d \in Conns : d # c => conn'[d] = conn[d]
        /\ conn'[c].phase = "connecting" /\ <<conn'[c].x, conn'[c].dst>> = y
      BY <2>1 DEF TypeOK, ConnStates
  <2>3. ConnectedInv'
      BY <2>1, <2>2 DEF TrafficInv, ConnectedInv, In
  <2>4. ASSUME NEW z \in reached'
        PROVE  \/ \E d \in Conns : In(d, "connecting")' /\ z = <<conn'[d].x, conn'[d].dst>>
               \/ \E r \in log' : Tells(r.line, z)
    <3>1. CASE z = y
        BY <2>2, <3>1 DEF In
    <3>2. CASE \E d \in Conns : In(d, "connecting") /\ z = <<conn[d].x, conn[d].dst>>
        BY <2>1, <2>2, <3>2 DEF In
    <3>3. CASE \E r \in log : Tells(r.line, z)
        BY <2>1, <3>3
    <3>4. QED
        BY <2>1, <3>1, <3>2, <3>3 DEF TrafficInv, TrafficLogged
  <2>5. TrafficLogged'
      BY <2>1, <2>4 DEF TrafficInv, TrafficLogged, Tells
  <2>6. QED
      BY <2>3, <2>5 DEF TrafficInv
<1>15. CASE (\E c \in Conns : Query(c)) \/ (\E n \in Names : Answer(n) \/ Expire(n)) \/ UNCHANGED vars
    BY <1>1, <1>15 DEF Query, Answer, Expire, vars
<1>16. QED
    BY <1>2, <1>4, <1>5, <1>6, <1>8, <1>9, <1>11, <1>12, <1>13, <1>14, <1>15 DEF Next, Proxy

\* Whatever is connected to is in the log, on its own line and under its own
\* address, once it has ended, whoever ended it; and no line speaks of an
\* origin that was not connected to.
THEOREM AllTrafficIsLogged == Spec => []TrafficLogged
<1>1. Init => TrafficInv
    BY DEF Init, TrafficInv, ConnectedInv, TrafficLogged, In, Off
<1>2. TrafficInv => TrafficLogged
    BY DEF TrafficInv
<1>3. QED
    BY <1>1, <1>2, TrafficStep, RulesComeFirst, PTL DEF Spec

\* Every refusal is a block in the report, for its own reason, and nothing else
\* but an origin that hangs up is taken for a failed resolution.
THEOREM RefusalsAreReported == Spec => []RefusalsReported
<1>1. LogInv => RefusalsReported
  <2> SUFFICES ASSUME LogInv, NEW r \in log
               PROVE  /\ r.why # "none" =>
                            /\ Action(r.line) = "block"
                            /\ r.line.kind \in {"https", "http"} =>
                                  Reason(r.line) = IF r.why = "dns" THEN "dns-failed" ELSE "not-allowed"
                      /\ Refused(r.line) /\ Reason(r.line) = "dns-failed" =>
                            r.why = "dns" \/ r.line.ts = TS("S", "H")
      BY DEF RefusalsReported
  <2>1. LineOK(r)
      BY DEF LogInv
  <2>2. CASE r.why # "none"
    <3>1. r.line.ts.who = "P" /\ r.line.status = IF r.why = "dns" THEN 502 ELSE 403
        BY <2>1, <2>2, WhoEnds DEF LineOK
    <3>2. Action(r.line) = "block"
        BY <3>1 DEF Action, Refused
    <3>3. r.line.kind \in {"https", "http"} =>
              Reason(r.line) = IF r.why = "dns" THEN "dns-failed" ELSE "not-allowed"
        BY <3>1 DEF Reason
    <3>4. Reason(r.line) = "dns-failed" => r.why = "dns"
        BY <3>1 DEF Reason
    <3>5. QED
        BY <2>2, <3>2, <3>3, <3>4
  <2>3. CASE r.why = "none"
    <3>1. \/ r.line.ts \in {TS("-", "-"), TS("s", "C"), TS("s", "H")}
          \/ r.line.ts = TS("S", "D") /\ r.line.status = 200
          \/ r.line.ts = TS("S", "C") /\ r.line.status = 503
          \/ r.line.ts = TS("S", "H") \/ r.line.ts.who \in {"C", "c"}
        BY <2>1, <2>3 DEF LineOK
    <3>2. Refused(r.line) => r.line.ts \notin {TS("-", "-"), TS("s", "C"), TS("s", "H")}
                             /\ r.line.ts.who \notin {"C", "c"}
        BY WhoEnds DEF Refused
    <3>3. r.line.status \in {200, 503} => Reason(r.line) # "dns-failed"
        BY DEF Reason
    <3>4. QED
        BY <2>3, <3>1, <3>2, <3>3
  <2>4. QED
      BY <2>2, <2>3
<1>2. QED
    BY <1>1, LogHolds, PTL

\* What an origin answered is never a block, and what has a status was answered,
\* timed out or was ended by the build itself, as long as no origin aborts an answer it has begun: such an
\* answer has the S of an origin that could not be reached, and is a block.
THEOREM BlocksAreUnanswered ==
    ASSUME "abort" \notin OriginEnds
    PROVE  Spec => []BlockMeansNoAnswer
<1>1. LogInv => BlockMeansNoAnswer
  <2> SUFFICES ASSUME LogInv, NEW r \in log
               PROVE  /\ Action(r.line) = "block" => ~r.answered
                      /\ HasStatus(r.line) => r.answered \/ r.line.ts.who \in {"s", "C", "c"}
      BY DEF BlockMeansNoAnswer
  <2>1. LineOK(r)
      BY DEF LogInv
  <2>2. Refused(r.line) => ~r.answered
      BY <2>1, WhoEnds DEF LineOK, Refused
  <2>3. r.line.ts.who \in {"P", "S", "s", "C", "c"} \/ r.answered
      BY <2>1, WhoEnds DEF LineOK
  <2>4. Action(r.line) = "block" => Refused(r.line)
      BY DEF Action
  <2>5. HasStatus(r.line) => r.answered \/ r.line.ts.who \in {"s", "C", "c"}
      BY <2>3 DEF HasStatus, Refused
  <2>6. QED
      BY <2>2, <2>4, <2>5
<1>2. QED
    BY <1>1, LogHolds, PTL

--------------------------------------------------------------------------------
(* Paths of any number of segments. *)

LEMMA Induction ==
    ASSUME NEW S, 0 \in S, \A n \in Nat : n \in S => n + 1 \in S
    PROVE  Nat \subseteq S
<1> DEFINE R == OpToRel(<, Nat)
           T == Nat \ S
<1>1. IsWellFoundedOn(R, Nat)
    BY NatLessThanWellFounded
<1>2. \A x, y \in Nat : x < y => <<x, y>> \in R
    BY DEF OpToRel
<1> HIDE DEF R
<1>3. SUFFICES ASSUME T # {} PROVE FALSE
    OBVIOUS
<1>4. T \subseteq Nat
    OBVIOUS
<1>5. PICK n \in T : \A m \in T : <<m, n>> \notin R
    BY <1>1, <1>3, <1>4, WFMin
<1>6. n \in Nat \ {0} /\ n - 1 \in Nat /\ n - 1 < n /\ (n - 1) + 1 = n
    BY <1>5
<1>7. n - 1 \notin T
    BY <1>2, <1>5, <1>6
<1> QED BY <1>5, <1>6, <1>7

\* d is what is left of each beginning of the path, up to n segments.
Stripped(path, n, d) ==
    d = [i \in 0..n |-> IF i = 0 THEN <<>> ELSE Strip(d[i - 1], path[i])]

LEMMA StrippedExists ==
    ASSUME NEW path, NEW n \in Nat
    PROVE  \E d : Stripped(path, n, d)
<1> DEFINE S == {k \in Nat : \E d : Stripped(path, k, d)}
<1>1. 0 \in S
    <2> DEFINE d == [i \in 0..0 |-> <<>>]
    <2>1. d = [i \in 0..0 |-> IF i = 0 THEN <<>> ELSE Strip(d[i - 1], path[i])]
        OBVIOUS
    <2> QED BY <2>1 DEF Stripped
<1>2. ASSUME NEW k \in Nat, k \in S PROVE k + 1 \in S
    <2>1. PICK d : Stripped(path, k, d)
        BY <1>2
    <2> DEFINE e == [i \in 0..k + 1 |-> IF i = k + 1 THEN Strip(d[k], path[k + 1]) ELSE d[i]]
               cell(f, i) == IF i = 0 THEN <<>> ELSE Strip(f[i - 1], path[i])
    <2>2. d = [i \in 0..k |-> cell(d, i)]
        BY <2>1 DEF Stripped
    <2>3. ASSUME NEW i \in 0..k + 1 PROVE e[i] = cell(e, i)
        <3>1. CASE i = k + 1
            <4>1. k \in 0..k + 1 /\ k # k + 1 /\ i # 0 /\ i - 1 = k
                BY <3>1
            <4>2. e[k] = d[k] /\ e[i] = Strip(d[k], path[k + 1])
                BY <3>1, <4>1
            <4> QED BY <3>1, <4>1, <4>2
        <3>2. CASE i # k + 1 /\ i # 0
            <4>1. i \in 0..k /\ i - 1 \in 0..k + 1 /\ i - 1 # k + 1
                BY <3>2
            <4>2. e[i] = d[i] /\ e[i - 1] = d[i - 1]
                BY <3>2, <4>1
            <4>3. d[i] = cell(d, i)
                BY <2>2, <4>1
            <4> QED BY <3>2, <4>2, <4>3
        <3>3. CASE i = 0
            <4>1. 0 \in 0..k /\ 0 # k + 1
                OBVIOUS
            <4>2. e[0] = d[0] /\ d[0] = <<>>
                BY <2>2, <4>1
            <4> QED BY <3>3, <4>2
        <3> QED BY <3>1, <3>2, <3>3
    <2>4. e = [i \in 0..k + 1 |-> e[i]]
        OBVIOUS
    <2> HIDE DEF e
    <2>5. e = [i \in 0..k + 1 |-> cell(e, i)]
        BY <2>3, <2>4
    <2> QED BY <2>5 DEF Stripped
<1>3. n \in S
    <2> HIDE DEF S
    <2> QED BY <1>1, <1>2, Induction
<1> QED BY <1>3

\* Normalised is the last of them, and each is the one before it and a segment.
LEMMA NormalisedBySteps ==
    ASSUME NEW path, Len(path) \in Nat
    PROVE  \E d : /\ Normalised(path) = d[Len(path)] /\ d[0] = <<>>
                  /\ \A k \in Nat : k + 1 <= Len(path) => d[k + 1] = Strip(d[k], path[k + 1])
<1> DEFINE done[i \in 0..Len(path)] == IF i = 0 THEN <<>> ELSE Strip(done[i - 1], path[i])
<1>1. PICK d : Stripped(path, Len(path), d)
    BY StrippedExists
<1>2. \E f : f = [i \in 0..Len(path) |-> IF i = 0 THEN <<>> ELSE Strip(f[i - 1], path[i])]
    BY <1>1 DEF Stripped
<1>3. done = [i \in 0..Len(path) |-> IF i = 0 THEN <<>> ELSE Strip(done[i - 1], path[i])]
    BY <1>2
<1>4. Normalised(path) = done[Len(path)]
    BY DEF Normalised
<1> HIDE DEF done
<1>5. done[0] = <<>>
    BY <1>3
<1>6. ASSUME NEW k \in Nat, k + 1 <= Len(path) PROVE done[k + 1] = Strip(done[k], path[k + 1])
    <2>1. k + 1 \in 0..Len(path) /\ k + 1 # 0 /\ (k + 1) - 1 = k
        BY <1>6
    <2> QED BY <1>3, <2>1
<1> QED BY <1>4, <1>5, <1>6

\* A path of which every segment is decoded.
Plain(path) == path \in Seq(Segments) /\ \A i \in 1..Len(path) : path[i] # "%2e%2e"

LEMMA StripPlain ==
    ASSUME NEW done, Plain(done), NEW segment \in Segments
    PROVE  Plain(Strip(done, segment))
<1>1. Decoded(segment) \in Segments /\ Decoded(segment) # "%2e%2e"
    <2>1. ".." # "%2e%2e"
        OBVIOUS
    <2>2. CASE segment = "%2e%2e"
        <3>1. Decoded(segment) = ".." /\ ".." \in Segments
            BY <2>2 DEF Decoded, Segments
        <3> QED BY <2>1, <3>1
    <2>3. CASE segment # "%2e%2e"
        BY <2>3 DEF Decoded
    <2> QED BY <2>2, <2>3
<1>2. PICK n \in Nat : n = Len(done)
    BY DEF Plain
<1>3. Plain(Append(done, Decoded(segment)))
    <2>1. Append(done, Decoded(segment)) \in Seq(Segments) /\ Len(Append(done, Decoded(segment))) = n + 1
        BY <1>1, <1>2 DEF Plain
    <2>2. ASSUME NEW i \in 1..n + 1 PROVE Append(done, Decoded(segment))[i] # "%2e%2e"
        BY <1>1, <1>2 DEF Plain
    <2> QED BY <2>1, <2>2 DEF Plain
<1>4. ASSUME done # <<>> PROVE Plain(Front(done))
    <2>1. n # 0
        BY <1>2, <1>4, EmptySeq DEF Plain
    <2>2. Front(done) \in Seq(Segments) /\ Len(Front(done)) = n - 1
        BY <1>2, <2>1 DEF Plain, Front
    <2>3. \A i \in 1..n - 1 : Front(done)[i] = done[i]
        BY <1>2, <2>1 DEF Plain, Front
    <2> QED BY <1>2, <2>1, <2>2, <2>3 DEF Plain
<1> QED BY <1>3, <1>4 DEF Strip

LEMMA NormalisedPlain ==
    ASSUME NEW path \in Seq(Segments)
    PROVE  Plain(Normalised(path))
<1>1. PICK n \in Nat : n = Len(path)
    OBVIOUS
<1>2. PICK d : /\ Normalised(path) = d[n] /\ d[0] = <<>>
               /\ \A k \in Nat : k + 1 <= n => d[k + 1] = Strip(d[k], path[k + 1])
    BY <1>1, NormalisedBySteps
<1> DEFINE S == {k \in Nat : k <= n => Plain(d[k])}
<1>3. 0 \in S
    <2>1. Plain(<<>>)
        BY DEF Plain
    <2> QED BY <1>2, <2>1
<1>4. ASSUME NEW k \in Nat, k \in S PROVE k + 1 \in S
    <2> SUFFICES ASSUME k + 1 <= n PROVE Plain(d[k + 1])
        OBVIOUS
    <2>1. Plain(d[k]) /\ path[k + 1] \in Segments
        BY <1>1, <1>4
    <2> QED BY <1>2, <2>1, StripPlain
<1>5. n \in S
    <2> HIDE DEF S
    <2> QED BY <1>3, <1>4, Induction
<1> QED BY <1>2, <1>5

\* Normalising changes nothing in a plain path that goes nowhere up.
LEMMA NothingToStrip ==
    ASSUME NEW path, Plain(path), \A i \in 1..Len(path) : path[i] # ".."
    PROVE  Normalised(path) = path
<1>1. PICK n \in Nat : n = Len(path)
    BY DEF Plain
<1>2. PICK d : /\ Normalised(path) = d[n] /\ d[0] = <<>>
               /\ \A k \in Nat : k + 1 <= n => d[k + 1] = Strip(d[k], path[k + 1])
    BY <1>1, NormalisedBySteps
<1> DEFINE S == {k \in Nat : k <= n => d[k] = SubSeq(path, 1, k)}
<1>3. 0 \in S
    <2>1. SubSeq(path, 1, 0) = <<>>
        BY <1>1 DEF Plain
    <2> QED BY <1>2, <2>1
<1>4. ASSUME NEW k \in Nat, k \in S PROVE k + 1 \in S
    <2> SUFFICES ASSUME k + 1 <= n PROVE d[k + 1] = SubSeq(path, 1, k + 1)
        OBVIOUS
    <2>1. d[k] = SubSeq(path, 1, k)
        BY <1>4
    <2>2. k + 1 \in 1..n
        OBVIOUS
    <2>3. Decoded(path[k + 1]) = path[k + 1] /\ path[k + 1] # ".." /\ path[k + 1] \in Segments
        BY <1>1, <2>2 DEF Plain, Decoded
    <2>4. d[k + 1] = Append(SubSeq(path, 1, k), path[k + 1])
        BY <1>2, <2>1, <2>3 DEF Strip
    <2>5. Append(SubSeq(path, 1, k), path[k + 1]) = SubSeq(path, 1, k + 1)
        BY <1>1, <2>2 DEF Plain
    <2> QED BY <2>4, <2>5
<1>5. n \in S
    <2> HIDE DEF S
    <2> QED BY <1>3, <1>4, Induction
<1>6. SubSeq(path, 1, n) = path
    BY <1>1 DEF Plain
<1> QED BY <1>2, <1>5, <1>6

\* A path that reads the same however often it is normalised: what the rules
\* judged is what an origin that normalises it as well will serve.
Settled(path) == Normalised(path) = path /\ ~Traversal(path) /\ \A i \in DOMAIN path : path[i] # "%2e%2e"

LEMMA NormalisedSettles ==
    ASSUME NEW path \in Seq(Segments), ~Traversal(Normalised(path))
    PROVE  Settled(Normalised(path))
<1>1. Plain(Normalised(path))
    BY NormalisedPlain
<1>2. DOMAIN Normalised(path) = 1..Len(Normalised(path))
    BY <1>1 DEF Plain
<1>3. \A i \in 1..Len(Normalised(path)) : Normalised(path)[i] # ".."
    BY <1>2 DEF Traversal
<1> QED BY <1>1, <1>2, <1>3, NothingToStrip DEF Settled, Plain

\* Of a request past the rules, resolved, connected or answered.
PathsSettled ==
    \A c \in Conns : conn[c].phase \in {"resolve", "connect", "connecting"} /\ conn[c].x.via \in {"https", "http"}
                     => Settled(conn[c].x.path)

\* "`..` in the path is resolved before the rules see it" (haproxy-config.ts:15):
\* the path of any request that gets past the rules means the same to the origin
\* as it did to them, whatever and however much the build put into it.
THEOREM PathsAreSettled == Spec => []PathsSettled
<1>1. PolicyInv => PathsSettled
    <2> SUFFICES ASSUME PolicyInv, NEW c \in Conns, conn[c].phase \in {"resolve", "connect", "connecting"},
                        conn[c].x.via \in {"https", "http"}
                 PROVE  Settled(conn[c].x.path)
        BY DEF PathsSettled
    <2>1. conn[c].x \in Permitted
        BY DEF PolicyInv
    <2>2. conn[c].x \in Exchanges /\ ~Traversal(conn[c].x.path)
        BY <2>1 DEF Permitted
    <2>3. PICK o \in Opens, q \in Requests : conn[c].x = Exchange(o, q)
        BY <2>2 DEF Exchanges, Tunnel
    <2>4. conn[c].x.path = Normalised(q.path) /\ q.path \in Seq(Segments)
        BY <2>3, BuildOK DEF Exchange
    <2> QED BY <2>2, <2>4, NormalisedSettles
<1> QED BY <1>1, RulesComeFirst, PTL
================================================================================
