--------------------------- MODULE StreamRelayProofs ---------------------------
(***************************************************************************)
(* Proofs about StreamRelay, for windows of any size and any number of     *)
(* messages: both directions are Pipes, an RPC that is reported to have    *)
(* succeeded has its whole answer, and a half-close is not passed on early.*)
(***************************************************************************)
EXTENDS StreamRelay, TLAPS

\* What a queue holds after its head is taken or a message is appended.
LEMMA TailOf ==
    ASSUME NEW q \in Seq(Nat), q # <<>>
    PROVE  /\ Tail(q) \in Seq(Nat) /\ Len(Tail(q)) = Len(q) - 1 /\ Len(q) > 0
           /\ \A i \in DOMAIN Tail(q) : i + 1 \in DOMAIN q /\ Tail(q)[i] = q[i + 1]
           /\ Head(q) = q[1] /\ Head(q) \in Nat /\ 1 \in DOMAIN q
OBVIOUS

LEMMA AppendTo ==
    ASSUME NEW q \in Seq(Nat), NEW f \in Nat
    PROVE  /\ Append(q, f) \in Seq(Nat) /\ Len(Append(q, f)) = Len(q) + 1
           /\ \A i \in DOMAIN Append(q, f) : i # Len(q) + 1 => i \in DOMAIN q /\ Append(q, f)[i] = q[i]
           /\ Append(q, f)[Len(q) + 1] = f
OBVIOUS

--------------------------------------------------------------------------------
\* A run goes on when the next message is appended, and after its head is taken.
LEMMA AppendRun ==
    ASSUME NEW q \in Seq(Nat), NEW k \in Nat, Run(q, k), NEW f \in Nat, f = k + Len(q) + 1
    PROVE  Run(Append(q, f), k) /\ Len(Append(q, f)) = Len(q) + 1
<1>1. \A i \in DOMAIN Append(q, f) : i \in 1..(Len(q) + 1)
    OBVIOUS
<1>2. ASSUME NEW i \in DOMAIN Append(q, f) PROVE Append(q, f)[i] = k + i
  <2>1. CASE i = Len(q) + 1
      BY <2>1
  <2>2. CASE i # Len(q) + 1
      BY <1>1, <2>2 DEF Run
  <2>3. QED
      BY <2>1, <2>2
<1>3. QED
    BY <1>2 DEF Run

LEMMA TailRun ==
    ASSUME NEW q \in Seq(Nat), NEW k \in Nat, Run(q, k), q # <<>>
    PROVE  /\ Head(q) = k + 1 /\ Run(Tail(q), k + 1)
           /\ Len(Tail(q)) = Len(q) - 1 /\ Len(q) > 0
<1>1. ASSUME NEW i \in DOMAIN Tail(q) PROVE Tail(q)[i] = (k + 1) + i
  <2>1. i \in Nat /\ i + 1 \in DOMAIN q /\ Tail(q)[i] = q[i + 1]
      OBVIOUS
  <2>2. q[i + 1] = k + (i + 1)
      BY <2>1 DEF Run
  <2>3. QED
      BY <2>1, <2>2
<1>2. Head(q) = k + 1
    BY TailOf DEF Run
<1>3. QED
    BY <1>1, <1>2, TailOf DEF Run

LEMMA TypeStart == Init => TypeOK
<1> SUFFICES ASSUME Init PROVE TypeOK
    OBVIOUS
<1>1. client \in ClientStates /\ backend \in BackendStates
    BY DEF Init, ClientStates, BackendStates
<1>2. c2s \in C2sStates /\ s2c \in S2cStates /\ s2c.pc # "done"
    BY DEF Init, C2sStates, S2cStates
<1>3. <<>> \in Seq(Nat)
    OBVIOUS
<1>4. QED
    BY <1>1, <1>2, <1>3 DEF Init, TypeOK

LEMMA TypeStep == TypeOK /\ [Next]_vars => TypeOK'
<1> SUFFICES ASSUME TypeOK, [Next]_vars PROVE TypeOK'
    OBVIOUS
<1> USE DEF queues
<1>1. CASE ClientSends
  <2>1. PICK n \in Nat : n = client.sent + 1
      BY DEF TypeOK, ClientStates
  <2>2. client' \in ClientStates
    <3>1. client' = [client EXCEPT !.sent = n]
        BY <1>1, <2>1 DEF ClientSends
    <3>2. QED
        BY <3>1 DEF TypeOK, ClientStates
  <2>3. c2p' \in Seq(Nat)
    <3>1. c2p' = Append(c2p, n)
        BY <1>1, <2>1 DEF ClientSends
    <3>2. QED
        BY <3>1, AppendTo DEF TypeOK
  <2>4. QED
      BY <1>1, <2>2, <2>3 DEF ClientSends, TypeOK
<1>2. CASE ClientCloses \/ ClientCancels
  <2>1. client' \in ClientStates
      BY <1>2 DEF ClientCloses, ClientCancels, TypeOK, ClientStates
  <2>2. QED
      BY <1>2, <2>1 DEF ClientCloses, ClientCancels, TypeOK
<1>3. CASE ClientReceives
  <2>1. Head(p2c) \in Nat /\ Tail(p2c) \in Seq(Nat)
      BY <1>3, TailOf DEF ClientReceives, TypeOK
  <2>2. client' \in ClientStates
      BY <1>3, <2>1, AppendTo DEF ClientReceives, TypeOK, ClientStates
  <2>3. QED
      BY <1>3, <2>1, <2>2 DEF ClientReceives, TypeOK
<1>4. CASE ClientGetsStatus
  <2>1. client' \in ClientStates
      BY <1>4 DEF ClientGetsStatus, TypeOK, ClientStates
  <2>2. QED
      BY <1>4, <2>1 DEF ClientGetsStatus, TypeOK
<1>5. CASE BackendReceives
  <2>1. Head(p2b) \in Nat /\ Tail(p2b) \in Seq(Nat)
      BY <1>5, TailOf DEF BackendReceives, TypeOK
  <2>2. backend' \in BackendStates
      BY <1>5, <2>1, AppendTo DEF BackendReceives, TypeOK, BackendStates
  <2>3. QED
      BY <1>5, <2>1, <2>2 DEF BackendReceives, TypeOK
<1>6. CASE BackendSends
  <2>1. PICK n \in Nat : n = backend.sent + 1
      BY DEF TypeOK, BackendStates
  <2>2. backend' \in BackendStates
    <3>1. backend' = [backend EXCEPT !.sent = n]
        BY <1>6, <2>1 DEF BackendSends
    <3>2. QED
        BY <3>1 DEF TypeOK, BackendStates
  <2>3. b2p' \in Seq(Nat)
    <3>1. b2p' = Append(b2p, n)
        BY <1>6, <2>1 DEF BackendSends
    <3>2. QED
        BY <3>1, AppendTo DEF TypeOK
  <2>4. QED
      BY <1>6, <2>2, <2>3 DEF BackendSends, TypeOK
<1>7. CASE BackendEnds
  <2>1. backend' \in BackendStates
      BY <1>7 DEF BackendEnds, TypeOK, BackendStates
  <2>2. QED
      BY <1>7, <2>1 DEF BackendEnds, TypeOK
<1>8. CASE C2sReceives
  <2>1. Head(c2p) \in Nat /\ Tail(c2p) \in Seq(Nat)
      BY <1>8, TailOf DEF C2sReceives, TypeOK
  <2>2. c2s' \in C2sStates
      BY <1>8, <2>1 DEF C2sReceives, C2sStates
  <2>3. QED
      BY <1>8, <2>1, <2>2 DEF C2sReceives, TypeOK
<1>9. CASE C2sCloses \/ C2sCancelled \/ C2sSendsNoMore
  <2>1. c2s' \in C2sStates
      BY <1>9 DEF C2sCloses, C2sCancelled, C2sSendsNoMore, Post, C2sStates
  <2>2. c2sErr' \in Statuses
      BY <1>9 DEF C2sCloses, C2sCancelled, C2sSendsNoMore, Post, Statuses
  <2>3. closedP' \in BOOLEAN /\ UNCHANGED <<queues, client, backend, s2c, returned>>
      BY <1>9 DEF C2sCloses, C2sCancelled, C2sSendsNoMore, TypeOK
  <2>4. QED
      BY <2>1, <2>2, <2>3 DEF TypeOK
<1>10. CASE C2sSends
  <2>1. c2s' \in C2sStates /\ c2s.f \in Nat
      BY <1>10 DEF C2sSends, TypeOK, C2sStates
  <2>2. QED
      BY <1>10, <2>1, AppendTo DEF C2sSends, TypeOK
<1>11. CASE Opens
  <2>1. c2s' \in C2sStates /\ s2c' \in S2cStates
      BY <1>11 DEF Opens, TypeOK, C2sStates, S2cStates
  <2>2. s2c'.pc = "done" <=> returned' # None
      BY <1>11, RelayOK DEF Opens, TypeOK, S2cStates, Statuses
  <2>3. QED
      BY <1>11, <2>1, <2>2 DEF Opens, TypeOK, Statuses
<1>12. CASE S2cReceives
  <2>1. Head(b2p) \in Nat /\ Tail(b2p) \in Seq(Nat)
      BY <1>12, TailOf DEF S2cReceives, TypeOK
  <2>2. s2c' \in S2cStates /\ s2c.pc # "done" /\ s2c'.pc # "done"
      BY <1>12, <2>1 DEF S2cReceives, TypeOK, S2cStates
  <2>3. QED
      BY <1>12, <2>1, <2>2 DEF S2cReceives, TypeOK
<1>13. CASE S2cEnds \/ S2cFails
  <2>1. s2c' \in S2cStates /\ s2c.pc # "done" /\ s2c'.pc # "done"
      BY <1>13, RelayOK DEF S2cEnds, S2cFails, TypeOK, S2cStates, Statuses
  <2>2. QED
      BY <1>13, <2>1 DEF S2cEnds, S2cFails, TypeOK
<1>14. CASE S2cSends
  <2>1. s2c' \in S2cStates /\ s2c.pc # "done" /\ s2c'.pc # "done" /\ s2c.f \in Nat
      BY <1>14 DEF S2cSends, TypeOK, S2cStates
  <2>2. QED
      BY <1>14, <2>1, AppendTo DEF S2cSends, TypeOK
<1>15. CASE Returns
  <2>1. s2c' \in S2cStates /\ s2c'.pc = "done"
      BY <1>15 DEF Returns, TypeOK, S2cStates
  <2>2. returned' \in Statuses /\ returned' # None
      BY <1>15, RelayOK DEF Returns, TypeOK, S2cStates, Statuses
  <2>3. QED
      BY <1>15, <2>1, <2>2 DEF Returns, TypeOK
<1>16. CASE UNCHANGED vars
    BY <1>16 DEF vars, TypeOK
<1>17. QED
    BY <1>1, <1>2, <1>3, <1>4, <1>5, <1>6, <1>7, <1>8, <1>9, <1>10, <1>11, <1>12, <1>13, <1>14, <1>15,
       <1>16 DEF Next, Client, Backend, C2s, S2c

--------------------------------------------------------------------------------
\* The types of the fields that the invariants speak of.
LEMMA Fields ==
    ASSUME TypeOK
    PROVE  /\ client.sent \in Nat /\ client.got \in Seq(Nat) /\ client.cancelled \in BOOLEAN
           /\ backend.sent \in Nat /\ backend.got \in Seq(Nat)
           /\ c2p \in Seq(Nat) /\ p2b \in Seq(Nat) /\ b2p \in Seq(Nat) /\ p2c \in Seq(Nat)
           /\ c2s.pc = "send" => c2s.f \in Nat
           /\ s2c.pc = "send" => s2c.f \in Nat
BY DEF TypeOK, ClientStates, BackendStates, C2sStates, S2cStates

LEMMA NoneIsNone == None \notin {"ok", "error", "canceled", "eof"}
BY RelayOK DEF Statuses

\* What AnswerInv depends on.
LEMMA AnswerFrame ==
    ASSUME AnswerInv,
           UNCHANGED <<client.got, client.status, client.cancelled, p2c, s2c, b2p, backend.sent,
                       backend.ended, returned>>
    PROVE  AnswerInv'
BY DEF AnswerInv

LEMMA RequestFrame ==
    ASSUME RequestInv,
           UNCHANGED <<backend.got, backend.ended, p2b, c2s, c2p, client.sent, client.closed, closedP>>
    PROVE  RequestInv'
BY DEF RequestInv

LEMMA AnswerStep == TypeOK /\ AnswerInv /\ [Next]_vars => AnswerInv'
<1> SUFFICES ASSUME TypeOK, AnswerInv, [Next]_vars PROVE AnswerInv'
    OBVIOUS
<1> USE DEF queues
<1>1. CASE ClientSends \/ ClientCloses
  <2>1. UNCHANGED <<client.got, client.status, client.cancelled, backend>>
      BY <1>1 DEF ClientSends, ClientCloses, TypeOK, ClientStates
  <2>2. QED
      BY <1>1, <2>1, AnswerFrame DEF ClientSends, ClientCloses
<1>2. CASE ClientCancels
  <2>1. client'.got = client.got /\ client'.status = None /\ client'.cancelled = TRUE
      BY <1>2 DEF ClientCancels, Calling, TypeOK, ClientStates
  <2>2. UNCHANGED <<p2c, s2c, b2p, backend, returned>>
      BY <1>2 DEF ClientCancels
  <2>3. QED
      BY <2>1, <2>2 DEF AnswerInv
<1>3. CASE ClientReceives
  <2>1. /\ p2c # <<>> /\ p2c' = Tail(p2c) /\ client.status = None
        /\ client'.got = Append(client.got, Head(p2c))
        /\ UNCHANGED <<client.status, client.cancelled, s2c, b2p, backend, returned>>
      BY <1>3 DEF ClientReceives, Calling, TypeOK, ClientStates
  <2>2. PICK k \in Nat : k = Len(client.got)
      BY Fields
  <2>3. Head(p2c) = k + 1 /\ Run(p2c', k + 1) /\ Len(p2c') = Len(p2c) - 1 /\ Len(p2c) > 0
      BY <2>1, <2>2, Fields, TailRun DEF AnswerInv
  <2>4. Run(client'.got, 0) /\ Len(client'.got) = k + 1
    <3>1. PICK f \in Nat : f = 0 + Len(client.got) + 1 /\ f = Head(p2c)
        BY <2>2, <2>3
    <3>2. Run(client.got, 0) /\ client.got \in Seq(Nat)
        BY Fields DEF AnswerInv
    <3>3. Run(Append(client.got, f), 0) /\ Len(Append(client.got, f)) = Len(client.got) + 1
        BY <3>1, <3>2, AppendRun
    <3>4. QED
        BY <2>1, <2>2, <3>1, <3>3
  <2>5. Run(p2c', Len(client'.got))
      BY <2>3, <2>4
  <2>6. QED
      BY <2>1, <2>2, <2>3, <2>4, <2>5, Fields DEF AnswerInv
<1>4. CASE ClientGetsStatus
  <2>1. /\ p2c = <<>> /\ ~client.cancelled /\ client'.status = returned
        /\ UNCHANGED <<client.got, client.cancelled, p2c, s2c, b2p, backend, returned>>
      BY <1>4 DEF ClientGetsStatus, Calling, TypeOK, ClientStates
  <2>2. QED
      BY <2>1 DEF AnswerInv
<1>5. CASE BackendReceives
  <2>1. UNCHANGED <<client, p2c, s2c, b2p, backend.sent, backend.ended, returned>>
      BY <1>5 DEF BackendReceives, TypeOK, BackendStates
  <2>2. QED
      BY <2>1, AnswerFrame
<1>6. CASE BackendSends
  <2>1. /\ backend.ended = None /\ backend'.sent = backend.sent + 1 /\ backend'.ended = None
        /\ UNCHANGED <<client, p2c, s2c, returned>>
      BY <1>6 DEF BackendSends, Serving, TypeOK, BackendStates
  <2>2. PICK k \in Nat : k = backend.sent - Len(b2p)
      BY Fields DEF AnswerInv
  <2>3. Run(b2p', k) /\ Len(b2p') = Len(b2p) + 1
    <3>1. PICK f \in Nat : f = backend.sent + 1
        BY Fields
    <3>5. f = k + Len(b2p) + 1
        BY <2>2, <3>1, Fields
    <3>2. b2p' = Append(b2p, f)
        BY <1>6, <2>2, <3>1 DEF BackendSends
    <3>3. Run(b2p, k) /\ b2p \in Seq(Nat)
        BY <2>2, Fields DEF AnswerInv
    <3>4. QED
        BY <3>5, <3>2, <3>3, AppendRun
  <2>4. k = backend'.sent - Len(b2p')
    <3>1. PICK b \in Nat, m \in Nat : b = Len(b2p) /\ m = backend.sent
        BY Fields
    <3>2. k = m - b /\ k = (m + 1) - (b + 1)
        BY <2>2, <3>1
    <3>3. backend'.sent = m + 1 /\ Len(b2p') = b + 1
        BY <2>1, <2>3, <3>1
    <3>4. QED
        BY <3>2, <3>3
  <2>5. Run(b2p', backend'.sent - Len(b2p'))
      BY <2>3, <2>4
  <2>6. s2c.pc = "send" => s2c.f = backend'.sent - Len(b2p')
    <3>1. s2c.pc = "send" => s2c.f = backend.sent - Len(b2p)
        BY DEF AnswerInv
    <3>2. QED
        BY <2>2, <2>4, <3>1
  <2>7. s2c.pc # "drain" /\ returned # "ok"
      BY <2>1, NoneIsNone DEF AnswerInv
  <2>8. PICK w \in Nat : w = One(s2c.pc = "send") /\ w = One(s2c'.pc = "send")
      BY <2>1 DEF One
  <2>9. ASSUME ~client'.cancelled, s2c'.pc \notin {"wait", "done"}
        PROVE  backend'.sent = Len(client'.got) + Len(p2c') + One(s2c'.pc = "send") + Len(b2p')
    <3>1. backend.sent = Len(client.got) + Len(p2c) + w + Len(b2p)
        BY <2>1, <2>8, <2>9 DEF AnswerInv
    <3>2. PICK g \in Nat, q \in Nat, b \in Nat, m \in Nat :
              g = Len(client.got) /\ q = Len(p2c) /\ b = Len(b2p) /\ m = backend.sent
        BY Fields
    <3>3. m = g + q + w + b
        BY <3>1, <3>2
    <3>4. m + 1 = g + q + w + (b + 1)
        BY <3>3
    <3>5. backend'.sent = m + 1
        BY <2>1, <3>2
    <3>6. g = Len(client'.got) /\ q = Len(p2c') /\ w = One(s2c'.pc = "send") /\ b + 1 = Len(b2p')
        BY <2>1, <2>3, <2>8, <3>2
    <3>7. QED
        BY <3>4, <3>5, <3>6
  <2>10. Len(client'.got) + Len(p2c') <= backend'.sent /\ Len(b2p') <= backend'.sent
    <3>1. PICK g \in Nat, q \in Nat, b \in Nat, m \in Nat :
              g = Len(client.got) /\ q = Len(p2c) /\ b = Len(b2p) /\ m = backend.sent
        BY Fields
    <3>2. g + q <= m /\ b <= m
        BY <3>1 DEF AnswerInv
    <3>3. g + q <= m + 1 /\ b + 1 <= m + 1
        BY <3>2
    <3>4. QED
        BY <2>1, <2>3, <3>1, <3>3
  <2>11. QED
      BY <2>1, <2>5, <2>6, <2>7, <2>9, <2>10 DEF AnswerInv
<1>7. CASE BackendEnds
  <2>1. /\ backend.ended = None /\ UNCHANGED backend.sent
        /\ UNCHANGED <<client, p2c, b2p, s2c, returned>>
      BY <1>7 DEF BackendEnds, Serving, TypeOK, BackendStates
  <2>2. s2c.pc # "drain" /\ returned # "ok"
      BY <2>1, NoneIsNone DEF AnswerInv
  <2>3. QED
      BY <2>1, <2>2 DEF AnswerInv
<1>8. CASE C2s
  <2>1. UNCHANGED <<client, p2c, s2c, b2p, backend, returned>>
      BY <1>8 DEF C2s, C2sReceives, C2sCloses, C2sCancelled, C2sSends, C2sSendsNoMore
  <2>2. QED
      BY <2>1, AnswerFrame
<1>9. CASE Opens
  <2>1. /\ s2c.pc = "open" /\ s2c'.pc \in {"recv", "done"} /\ returned' \in {returned, "error"}
        /\ UNCHANGED <<client, p2c, b2p, backend>>
      BY <1>9 DEF Opens, TypeOK, S2cStates
  <2>2. returned = None
      BY <2>1 DEF TypeOK
  <2>3. client.status = None
      BY <2>2 DEF AnswerInv
  <2>4. QED
      BY <2>1, <2>2, <2>3, RelayOK DEF AnswerInv, One
<1>10. CASE S2cReceives
  <2>1. /\ s2c.pc = "recv" /\ s2c'.pc = "send" /\ s2c'.f = Head(b2p)
        /\ b2p # <<>> /\ b2p' = Tail(b2p) /\ UNCHANGED <<client, p2c, backend, returned>>
      BY <1>10 DEF S2cReceives, TypeOK, S2cStates
  <2>2. PICK k \in Nat : k = backend.sent - Len(b2p)
      BY Fields DEF AnswerInv
  <2>3. Head(b2p) = k + 1 /\ Run(b2p', k + 1) /\ Len(b2p') = Len(b2p) - 1 /\ Len(b2p) > 0
      BY <2>1, <2>2, Fields, TailRun DEF AnswerInv
  <2>4. backend'.sent - Len(b2p') = k + 1
    <3>1. PICK b \in Nat, m \in Nat : b = Len(b2p) /\ m = backend.sent
        BY Fields
    <3>2. k = m - b /\ m - (b - 1) = k + 1
        BY <2>2, <3>1
    <3>3. backend'.sent = m /\ Len(b2p') = b - 1
        BY <2>1, <2>3, <3>1
    <3>4. QED
        BY <3>2, <3>3
  <2>5. Run(b2p', backend'.sent - Len(b2p')) /\ s2c'.f = backend'.sent - Len(b2p')
      BY <2>1, <2>3, <2>4
  <2>6. QED
      BY <2>1, <2>3, <2>5, Fields DEF AnswerInv, One
<1>11. CASE S2cEnds
  <2>1. /\ s2c.pc = "recv" /\ s2c'.pc = "drain" /\ b2p = <<>> /\ backend.ended = "ok"
        /\ UNCHANGED <<client, p2c, b2p, backend, returned>>
      BY <1>11 DEF S2cEnds, TypeOK, S2cStates
  <2>2. QED
      BY <2>1 DEF AnswerInv, One
<1>12. CASE S2cFails
  <2>1. s2c'.pc = "wait" /\ UNCHANGED <<client, p2c, b2p, backend, returned>>
      BY <1>12 DEF S2cFails
  <2>2. QED
      BY <2>1 DEF AnswerInv
<1>13. CASE S2cSends
  <2>1. /\ s2c.pc = "send" /\ s2c'.pc = "recv" /\ ~client.cancelled /\ returned = None
        /\ p2c' = Append(p2c, s2c.f) /\ UNCHANGED <<client, b2p, backend, returned>>
      BY <1>13 DEF S2cSends, Done, TypeOK, S2cStates
  <2>2. PICK k \in Nat, f \in Nat : k = Len(client.got) /\ f = s2c.f /\ f = k + Len(p2c) + 1
      BY <2>1, Fields DEF AnswerInv, One
  <2>3. Run(p2c', Len(client.got)) /\ Len(p2c') = Len(p2c) + 1
    <3>1. Run(p2c, k) /\ p2c \in Seq(Nat)
        BY <2>2, Fields DEF AnswerInv
    <3>2. Run(Append(p2c, f), k) /\ Len(Append(p2c, f)) = Len(p2c) + 1
        BY <2>2, <3>1, AppendRun
    <3>3. QED
        BY <2>1, <2>2, <3>2
  <2>4. client.status = None
      BY <2>1 DEF AnswerInv
  <2>5. One(s2c.pc = "send") = 1 /\ One(s2c'.pc = "send") = 0
      BY <2>1 DEF One
  <2>6. backend.sent = Len(client.got) + Len(p2c) + 1 + Len(b2p)
      BY <2>1, <2>5 DEF AnswerInv
  <2>11. PICK l \in Nat, w \in Nat :
            l = Len(p2c') /\ w = One(s2c'.pc = "send") /\ l = Len(p2c) + 1 /\ w = 0
      BY <2>3, <2>5, Fields
  <2>12. /\ backend.sent = Len(client.got) + l + w + Len(b2p)
         /\ Len(client.got) + l <= backend.sent /\ Len(b2p) <= backend.sent
    <3>1. PICK g \in Nat, q \in Nat, b \in Nat : g = Len(client.got) /\ q = Len(p2c) /\ b = Len(b2p)
        BY Fields
    <3>2. backend.sent = g + q + 1 + b /\ l = q + 1
        BY <2>6, <2>11, <3>1
    <3>3. backend.sent = g + l + w + b /\ g + l <= backend.sent /\ b <= backend.sent
        BY <2>11, <3>2
    <3>4. QED
        BY <3>1, <3>3
  <2>7. backend'.sent = Len(client'.got) + Len(p2c') + One(s2c'.pc = "send") + Len(b2p')
      BY <2>1, <2>11, <2>12
  <2>8. Len(client'.got) + Len(p2c') <= backend'.sent /\ Len(b2p') <= backend'.sent
      BY <2>1, <2>11, <2>12
  <2>9. returned' # "ok"
      BY <2>1, NoneIsNone
  <2>10. QED
      BY <2>1, <2>3, <2>4, <2>7, <2>8, <2>9 DEF AnswerInv
<1>14. CASE Returns
  <2>1. /\ s2c'.pc = "done" /\ UNCHANGED <<client, p2c, b2p, backend>>
        /\ s2c.pc \in {"drain", "wait"}
        /\ returned' = "ok" => s2c.pc = "drain"
      BY <1>14, RelayOK DEF Returns, TypeOK, S2cStates
  <2>2. returned = None
      BY <2>1 DEF TypeOK
  <2>3. client.status = None
      BY <2>2 DEF AnswerInv
  <2>4. ASSUME returned' = "ok" PROVE backend.ended = "ok" /\ b2p = <<>> /\ s2c.pc = "drain"
      BY <2>1, <2>4 DEF AnswerInv
  <2>6. ASSUME returned' = "ok", ~client.cancelled PROVE backend.sent = Len(client.got) + Len(p2c)
    <3>1. Len(b2p) = 0 /\ One(s2c.pc = "send") = 0 /\ s2c.pc \notin {"wait", "done"}
        BY <2>4, <2>6 DEF One
    <3>2. QED
        BY <2>6, <3>1, Fields DEF AnswerInv
  <2>5. QED
      BY <2>1, <2>3, <2>4, <2>6, Fields DEF AnswerInv
<1>15. CASE UNCHANGED vars
    BY <1>15, AnswerFrame DEF vars
<1>16. QED
    BY <1>1, <1>2, <1>3, <1>4, <1>5, <1>6, <1>7, <1>8, <1>9, <1>10, <1>11, <1>12, <1>13, <1>14, <1>15
       DEF Next, Client, Backend, S2c

LEMMA RequestStep == TypeOK /\ RequestInv /\ [Next]_vars => RequestInv'
<1> SUFFICES ASSUME TypeOK, RequestInv, [Next]_vars PROVE RequestInv'
    OBVIOUS
<1> USE DEF queues
<1>1. CASE ClientSends
  <2>1. /\ ~client.closed /\ client'.sent = client.sent + 1 /\ client'.closed = client.closed
        /\ UNCHANGED <<backend, p2b, c2s, closedP>>
      BY <1>1 DEF ClientSends, TypeOK, ClientStates
  <2>2. PICK k \in Nat : k = client.sent - Len(c2p)
      BY Fields DEF RequestInv
  <2>3. Run(c2p', k) /\ Len(c2p') = Len(c2p) + 1
    <3>1. PICK f \in Nat : f = client.sent + 1
        BY Fields
    <3>2. f = k + Len(c2p) + 1
        BY <2>2, <3>1, Fields
    <3>3. c2p' = Append(c2p, f)
        BY <1>1, <3>1 DEF ClientSends
    <3>4. Run(c2p, k) /\ c2p \in Seq(Nat)
        BY <2>2, Fields DEF RequestInv
    <3>5. QED
        BY <3>2, <3>3, <3>4, AppendRun
  <2>4. k = client'.sent - Len(c2p')
    <3>1. PICK b \in Nat, m \in Nat : b = Len(c2p) /\ m = client.sent
        BY Fields
    <3>2. k = m - b /\ k = (m + 1) - (b + 1)
        BY <2>2, <3>1
    <3>3. client'.sent = m + 1 /\ Len(c2p') = b + 1
        BY <2>1, <2>3, <3>1
    <3>4. QED
        BY <3>2, <3>3
  <2>5. Run(c2p', client'.sent - Len(c2p'))
      BY <2>3, <2>4
  <2>6. c2s.pc = "send" => c2s.f = client'.sent - Len(c2p')
    <3>1. c2s.pc = "send" => c2s.f = client.sent - Len(c2p)
        BY DEF RequestInv
    <3>2. QED
        BY <2>2, <2>4, <3>1
  <2>7. ~closedP
      BY <2>1 DEF RequestInv
  <2>8. PICK w \in Nat : w = One(c2s.pc = "send") /\ w = One(c2s'.pc = "send")
      BY <2>1 DEF One
  <2>9. ASSUME backend'.ended = None, c2s'.pc # "done"
        PROVE  client'.sent = Len(backend'.got) + Len(p2b') + One(c2s'.pc = "send") + Len(c2p')
    <3>1. client.sent = Len(backend.got) + Len(p2b) + w + Len(c2p)
        BY <2>1, <2>8, <2>9 DEF RequestInv
    <3>2. PICK g \in Nat, q \in Nat, b \in Nat, m \in Nat :
              g = Len(backend.got) /\ q = Len(p2b) /\ b = Len(c2p) /\ m = client.sent
        BY Fields
    <3>3. m = g + q + w + b
        BY <3>1, <3>2
    <3>4. m + 1 = g + q + w + (b + 1)
        BY <3>3
    <3>5. client'.sent = m + 1
        BY <2>1, <3>2
    <3>6. g = Len(backend'.got) /\ q = Len(p2b') /\ w = One(c2s'.pc = "send") /\ b + 1 = Len(c2p')
        BY <2>1, <2>3, <2>8, <3>2
    <3>7. QED
        BY <3>4, <3>5, <3>6
  <2>10. Len(backend'.got) + Len(p2b') <= client'.sent /\ Len(c2p') <= client'.sent
    <3>1. PICK g \in Nat, q \in Nat, b \in Nat, m \in Nat :
              g = Len(backend.got) /\ q = Len(p2b) /\ b = Len(c2p) /\ m = client.sent
        BY Fields
    <3>2. g + q <= m /\ b <= m
        BY <3>1 DEF RequestInv
    <3>3. g + q <= m + 1 /\ b + 1 <= m + 1
        BY <3>2
    <3>4. QED
        BY <2>1, <2>3, <3>1, <3>3
  <2>11. QED
      BY <2>1, <2>5, <2>6, <2>7, <2>9, <2>10 DEF RequestInv
<1>2. CASE ClientCloses
  <2>1. /\ client'.sent = client.sent /\ ~client.closed
        /\ UNCHANGED <<backend, p2b, c2s, c2p, closedP>>
      BY <1>2 DEF ClientCloses, TypeOK, ClientStates
  <2>2. QED
      BY <2>1 DEF RequestInv
<1>3. CASE ClientCancels \/ ClientReceives \/ ClientGetsStatus
  <2>1. UNCHANGED <<client.sent, client.closed, backend, p2b, c2s, c2p, closedP>>
      BY <1>3 DEF ClientCancels, ClientReceives, ClientGetsStatus, TypeOK, ClientStates
  <2>2. QED
      BY <2>1, RequestFrame
<1>4. CASE BackendReceives
  <2>1. /\ p2b # <<>> /\ p2b' = Tail(p2b) /\ backend.ended = None /\ backend'.ended = None
        /\ backend'.got = Append(backend.got, Head(p2b)) /\ UNCHANGED <<client, c2s, c2p, closedP>>
      BY <1>4 DEF BackendReceives, Serving, TypeOK, BackendStates
  <2>2. PICK k \in Nat : k = Len(backend.got)
      BY Fields
  <2>3. Head(p2b) = k + 1 /\ Run(p2b', k + 1) /\ Len(p2b') = Len(p2b) - 1 /\ Len(p2b) > 0
      BY <2>1, <2>2, Fields, TailRun DEF RequestInv
  <2>4. Run(backend'.got, 0) /\ Len(backend'.got) = k + 1
    <3>1. PICK f \in Nat : f = 0 + Len(backend.got) + 1 /\ f = Head(p2b)
        BY <2>2, <2>3
    <3>2. Run(backend.got, 0) /\ backend.got \in Seq(Nat)
        BY Fields DEF RequestInv
    <3>3. Run(Append(backend.got, f), 0) /\ Len(Append(backend.got, f)) = Len(backend.got) + 1
        BY <3>1, <3>2, AppendRun
    <3>4. QED
        BY <2>1, <2>2, <3>1, <3>3
  <2>5. Run(p2b', Len(backend'.got))
      BY <2>3, <2>4
  <2>6. QED
      BY <2>1, <2>2, <2>3, <2>4, <2>5, Fields DEF RequestInv
<1>5. CASE BackendSends
  <2>1. UNCHANGED <<client, backend.got, backend.ended, p2b, c2s, c2p, closedP>>
      BY <1>5 DEF BackendSends, TypeOK, BackendStates
  <2>2. QED
      BY <2>1, RequestFrame
<1>6. CASE BackendEnds
  <2>1. backend'.got = backend.got /\ backend'.ended # None /\ UNCHANGED <<client, p2b, c2s, c2p, closedP>>
      BY <1>6, NoneIsNone DEF BackendEnds, TypeOK, BackendStates
  <2>2. QED
      BY <2>1 DEF RequestInv
<1>7. CASE C2sReceives
  <2>1. /\ c2s.pc = "recv" /\ c2s'.pc = "send" /\ c2s'.f = Head(c2p)
        /\ c2p # <<>> /\ c2p' = Tail(c2p) /\ UNCHANGED <<client, backend, p2b, closedP>>
      BY <1>7 DEF C2sReceives
  <2>2. PICK k \in Nat : k = client.sent - Len(c2p)
      BY Fields DEF RequestInv
  <2>3. Head(c2p) = k + 1 /\ Run(c2p', k + 1) /\ Len(c2p') = Len(c2p) - 1 /\ Len(c2p) > 0
      BY <2>1, <2>2, Fields, TailRun DEF RequestInv
  <2>4. client'.sent - Len(c2p') = k + 1
    <3>1. PICK b \in Nat, m \in Nat : b = Len(c2p) /\ m = client.sent
        BY Fields
    <3>2. k = m - b /\ m - (b - 1) = k + 1
        BY <2>2, <3>1
    <3>3. client'.sent = m /\ Len(c2p') = b - 1
        BY <2>1, <2>3, <3>1
    <3>4. QED
        BY <3>2, <3>3
  <2>5. Run(c2p', client'.sent - Len(c2p')) /\ c2s'.f = client'.sent - Len(c2p')
      BY <2>1, <2>3, <2>4
  <2>6. QED
      BY <2>1, <2>3, <2>5, Fields DEF RequestInv, One
<1>8. CASE C2sCloses
  <2>1. /\ c2s.pc = "recv" /\ client.closed /\ c2p = <<>> /\ c2s'.pc = "done"
        /\ UNCHANGED <<client, backend, p2b, c2p>>
      BY <1>8 DEF C2sCloses, Post
  <2>2. Len(c2p) = 0 /\ One(c2s.pc = "send") = 0
      BY <2>1 DEF One
  <2>3. ASSUME backend.ended = None PROVE client.sent = Len(backend.got) + Len(p2b)
      BY <2>1, <2>2, <2>3, Fields DEF RequestInv
  <2>4. QED
      BY <2>1, <2>3 DEF RequestInv
<1>9. CASE C2sCancelled \/ C2sSendsNoMore
  <2>1. c2s.pc # "done" /\ c2s'.pc = "done" /\ UNCHANGED <<client, backend, p2b, c2p, closedP>>
      BY <1>9 DEF C2sCancelled, C2sSendsNoMore, Post
  <2>2. QED
      BY <2>1 DEF RequestInv
<1>10. CASE C2sSends
  <2>1. /\ c2s.pc = "send" /\ c2s'.pc = "recv" /\ backend.ended = None
        /\ p2b' = Append(p2b, c2s.f) /\ UNCHANGED <<client, backend, c2p, closedP>>
      BY <1>10 DEF C2sSends
  <2>2. One(c2s.pc = "send") = 1 /\ One(c2s'.pc = "send") = 0
      BY <2>1 DEF One
  <2>3. client.sent = Len(backend.got) + Len(p2b) + 1 + Len(c2p)
      BY <2>1, <2>2 DEF RequestInv
  <2>4. PICK k \in Nat, f \in Nat : k = Len(backend.got) /\ f = c2s.f /\ f = k + Len(p2b) + 1
      BY <2>1, <2>3, Fields DEF RequestInv
  <2>5. Run(p2b', Len(backend.got)) /\ Len(p2b') = Len(p2b) + 1
    <3>1. Run(p2b, k) /\ p2b \in Seq(Nat)
        BY <2>4, Fields DEF RequestInv
    <3>2. Run(Append(p2b, f), k) /\ Len(Append(p2b, f)) = Len(p2b) + 1
        BY <2>4, <3>1, AppendRun
    <3>3. QED
        BY <2>1, <2>4, <3>2
  <2>10. PICK l \in Nat, w \in Nat :
            l = Len(p2b') /\ w = One(c2s'.pc = "send") /\ l = Len(p2b) + 1 /\ w = 0
      BY <2>2, <2>5, Fields
  <2>11. /\ client.sent = Len(backend.got) + l + w + Len(c2p)
         /\ Len(backend.got) + l <= client.sent /\ Len(c2p) <= client.sent
    <3>1. PICK g \in Nat, q \in Nat, b \in Nat : g = Len(backend.got) /\ q = Len(p2b) /\ b = Len(c2p)
        BY Fields
    <3>2. client.sent = g + q + 1 + b /\ l = q + 1
        BY <2>3, <2>10, <3>1
    <3>3. client.sent = g + l + w + b /\ g + l <= client.sent /\ b <= client.sent
        BY <2>10, <3>2
    <3>4. QED
        BY <3>1, <3>3
  <2>6. client'.sent = Len(backend'.got) + Len(p2b') + One(c2s'.pc = "send") + Len(c2p')
      BY <2>1, <2>10, <2>11
  <2>7. Len(backend'.got) + Len(p2b') <= client'.sent /\ Len(c2p') <= client'.sent
      BY <2>1, <2>10, <2>11
  <2>8. ~closedP
      BY <2>1 DEF RequestInv
  <2>9. QED
      BY <2>1, <2>5, <2>6, <2>7, <2>8 DEF RequestInv
<1>11. CASE Opens
  <2>1. /\ c2s.pc = "none" /\ UNCHANGED <<client, backend, p2b, c2p, closedP>>
        /\ UNCHANGED c2s \/ c2s'.pc = "recv"
      BY <1>11 DEF Opens, TypeOK, C2sStates
  <2>2. QED
      BY <2>1 DEF RequestInv, One
<1>12. CASE S2cReceives \/ S2cEnds \/ S2cFails \/ S2cSends \/ Returns
  <2>1. UNCHANGED <<client, backend, p2b, c2s, c2p, closedP>>
      BY <1>12 DEF S2cReceives, S2cEnds, S2cFails, S2cSends, Returns
  <2>2. QED
      BY <2>1, RequestFrame
<1>13. CASE UNCHANGED vars
    BY <1>13, RequestFrame DEF vars
<1>14. QED
    BY <1>1, <1>2, <1>3, <1>4, <1>5, <1>6, <1>7, <1>8, <1>9, <1>10, <1>11, <1>12, <1>13
       DEF Next, Client, Backend, C2s, S2c

--------------------------------------------------------------------------------
LEMMA RelayStart == Init => RelayInv
BY RelayOK DEF Init, RelayInv, AnswerInv, RequestInv, Run, One

\* What the relay holds is what was sent and not yet got, in order, whoever
\* stops, stalls or cancels.
THEOREM RelayKeepsOrder == Spec => [](TypeOK /\ RelayInv)
<1>1. Init => TypeOK /\ RelayInv
    BY TypeStart, RelayStart
<1>2. TypeOK /\ RelayInv /\ [Next]_vars => (TypeOK /\ RelayInv)'
    BY TypeStep, AnswerStep, RequestStep DEF RelayInv
<1>3. QED
    BY <1>1, <1>2, PTL DEF Spec

\* An RPC that the client is told succeeded did succeed, and the client has the
\* whole answer.
THEOREM OkIsComplete == Spec => []OkMeansComplete
<1>1. TypeOK /\ RelayInv => OkMeansComplete
  <2> SUFFICES ASSUME TypeOK, RelayInv, client.status = "ok" PROVE backend.ended = "ok" /\ Len(client.got) = backend.sent
      BY DEF OkMeansComplete
  <2>1. returned = "ok" /\ ~client.cancelled /\ p2c = <<>>
      BY NoneIsNone DEF RelayInv, AnswerInv
  <2>2. backend.ended = "ok" /\ backend.sent = Len(client.got) + Len(p2c)
      BY <2>1 DEF RelayInv, AnswerInv
  <2>3. QED
      BY <2>1, <2>2, Fields
<1>2. QED
    BY <1>1, RelayKeepsOrder, PTL

\* The backend never sees the client's half-close before its messages.
THEOREM HalfCloseComesLast == Spec => []HalfCloseIsLast
<1>1. RelayInv => HalfCloseIsLast
    BY DEF RelayInv, RequestInv, HalfCloseIsLast
<1>2. QED
    BY <1>1, RelayKeepsOrder, PTL

\* One more message sent, and one more got.
LEMMA SentGrows ==
    ASSUME NEW n \in Nat
    PROVE  Sent(n) \in Seq(Nat) /\ Len(Sent(n)) = n /\ Sent(n + 1) = Append(Sent(n), n + 1)
BY DEF Sent

\* Each step of the relay is a step of either pipe or leaves it alone.
LEMMA AnswerIsPiped ==
    TypeOK /\ AnswerInv /\ [Next]_vars =>
        [ToClient!Send \/ ToClient!Get]_(ToClient!pipeVars)
<1> SUFFICES ASSUME TypeOK, AnswerInv, [Next]_vars
             PROVE  ToClient!Send \/ ToClient!Get \/ UNCHANGED <<Sent(backend.sent), client.got>>
    BY DEF ToClient!pipeVars
<1> USE DEF queues
<1>1. CASE BackendSends
  <2>1. /\ backend'.sent = backend.sent + 1 /\ backend.sent < MaxSend /\ UNCHANGED client
      BY <1>1 DEF BackendSends, TypeOK, BackendStates
  <2>2. backend.sent + 1 \in 1..MaxSend
      BY <2>1, Fields, RelayOK
  <2>3. Sent(backend'.sent) = Append(Sent(backend.sent), backend.sent + 1)
      BY <2>1, Fields, SentGrows
  <2>4. QED
      BY <2>1, <2>2, <2>3 DEF ToClient!Send
<1>2. CASE ClientReceives
  <2>1. /\ p2c # <<>> /\ client'.got = Append(client.got, Head(p2c)) /\ UNCHANGED backend
      BY <1>2 DEF ClientReceives, TypeOK, ClientStates
  <2>2. PICK k \in Nat : k = Len(client.got)
      BY Fields
  <2>3. Head(p2c) = k + 1 /\ Len(p2c) > 0
      BY <2>1, <2>2, Fields, TailRun DEF AnswerInv
  <2>4. k + 1 \in 1..backend.sent
    <3>1. PICK q \in Nat, m \in Nat : q = Len(p2c) /\ m = backend.sent
        BY Fields
    <3>2. k + q <= m /\ q > 0
        BY <2>2, <2>3, <3>1 DEF AnswerInv
    <3>3. QED
        BY <3>1, <3>2
  <2>5. Len(Sent(backend.sent)) = backend.sent /\ Sent(backend.sent)[k + 1] = k + 1
      BY <2>4, Fields, SentGrows DEF Sent
  <2>6. Len(client.got) < Len(Sent(backend.sent))
      BY <2>2, <2>4, <2>5, Fields
  <2>7. client'.got = Append(client.got, Sent(backend.sent)[Len(client.got) + 1])
      BY <2>1, <2>2, <2>3, <2>5
  <2>8. QED
      BY <2>1, <2>6, <2>7 DEF ToClient!Get
<1>3. CASE ClientSends \/ ClientCloses \/ ClientCancels \/ ClientGetsStatus
  <2>1. UNCHANGED <<client.got, backend>>
      BY <1>3 DEF ClientSends, ClientCloses, ClientCancels, ClientGetsStatus, TypeOK, ClientStates
  <2>2. QED
      BY <2>1
<1>4. CASE BackendReceives \/ BackendEnds
  <2>1. UNCHANGED <<client, backend.sent>>
      BY <1>4 DEF BackendReceives, BackendEnds, TypeOK, BackendStates
  <2>2. QED
      BY <2>1
<1>5. CASE C2s \/ S2c \/ UNCHANGED vars
  <2>1. UNCHANGED <<client, backend>>
      BY <1>5 DEF C2s, S2c, C2sReceives, C2sCloses, C2sCancelled, C2sSends, C2sSendsNoMore, Opens,
                  S2cReceives, S2cEnds, S2cFails, S2cSends, Returns, vars
  <2>2. QED
      BY <2>1
<1>6. QED
    BY <1>1, <1>2, <1>3, <1>4, <1>5 DEF Next, Client, Backend

LEMMA RequestIsPiped ==
    TypeOK /\ RequestInv /\ [Next]_vars =>
        [ToBackend!Send \/ ToBackend!Get]_(ToBackend!pipeVars)
<1> SUFFICES ASSUME TypeOK, RequestInv, [Next]_vars
             PROVE  ToBackend!Send \/ ToBackend!Get \/ UNCHANGED <<Sent(client.sent), backend.got>>
    BY DEF ToBackend!pipeVars
<1> USE DEF queues
<1>1. CASE ClientSends
  <2>1. /\ client'.sent = client.sent + 1 /\ client.sent < MaxSend /\ UNCHANGED backend
      BY <1>1 DEF ClientSends, TypeOK, ClientStates
  <2>2. client.sent + 1 \in 1..MaxSend
      BY <2>1, Fields, RelayOK
  <2>3. Sent(client'.sent) = Append(Sent(client.sent), client.sent + 1)
      BY <2>1, Fields, SentGrows
  <2>4. QED
      BY <2>1, <2>2, <2>3 DEF ToBackend!Send
<1>2. CASE BackendReceives
  <2>1. /\ p2b # <<>> /\ backend'.got = Append(backend.got, Head(p2b)) /\ UNCHANGED client
      BY <1>2 DEF BackendReceives, TypeOK, BackendStates
  <2>2. PICK k \in Nat : k = Len(backend.got)
      BY Fields
  <2>3. Head(p2b) = k + 1 /\ Len(p2b) > 0
      BY <2>1, <2>2, Fields, TailRun DEF RequestInv
  <2>4. k + 1 \in 1..client.sent
    <3>1. PICK q \in Nat, m \in Nat : q = Len(p2b) /\ m = client.sent
        BY Fields
    <3>2. k + q <= m /\ q > 0
        BY <2>2, <2>3, <3>1 DEF RequestInv
    <3>3. QED
        BY <3>1, <3>2
  <2>5. Len(Sent(client.sent)) = client.sent /\ Sent(client.sent)[k + 1] = k + 1
      BY <2>4, Fields, SentGrows DEF Sent
  <2>6. Len(backend.got) < Len(Sent(client.sent))
      BY <2>2, <2>4, <2>5, Fields
  <2>7. backend'.got = Append(backend.got, Sent(client.sent)[Len(backend.got) + 1])
      BY <2>1, <2>2, <2>3, <2>5
  <2>8. QED
      BY <2>1, <2>6, <2>7 DEF ToBackend!Get
<1>3. CASE ClientReceives \/ ClientCloses \/ ClientCancels \/ ClientGetsStatus
  <2>1. UNCHANGED <<client.sent, backend>>
      BY <1>3 DEF ClientReceives, ClientCloses, ClientCancels, ClientGetsStatus, TypeOK, ClientStates
  <2>2. QED
      BY <2>1
<1>4. CASE BackendSends \/ BackendEnds
  <2>1. UNCHANGED <<client, backend.got>>
      BY <1>4 DEF BackendSends, BackendEnds, TypeOK, BackendStates
  <2>2. QED
      BY <2>1
<1>5. CASE C2s \/ S2c \/ UNCHANGED vars
  <2>1. UNCHANGED <<client, backend>>
      BY <1>5 DEF C2s, S2c, C2sReceives, C2sCloses, C2sCancelled, C2sSends, C2sSendsNoMore, Opens,
                  S2cReceives, S2cEnds, S2cFails, S2cSends, Returns, vars
  <2>2. QED
      BY <2>1
<1>6. QED
    BY <1>1, <1>2, <1>3, <1>4, <1>5 DEF Next, Client, Backend

\* "Relays any RPC": either direction implements Pipe, so each message arrives
\* at most once and in its order, whatever the other direction does.
THEOREM RelayIsTwoPipes == Spec => BothPipes
<1>1. Init => ToBackend!Init /\ ToClient!Init
    BY DEF Init, ToBackend!Init, ToClient!Init, Sent
<1>2. TypeOK /\ RelayInv /\ [Next]_vars =>
          /\ [ToBackend!Send \/ ToBackend!Get]_(ToBackend!pipeVars)
          /\ [ToClient!Send \/ ToClient!Get]_(ToClient!pipeVars)
    BY AnswerIsPiped, RequestIsPiped DEF RelayInv
<1>3. QED
    BY <1>1, <1>2, RelayKeepsOrder, PTL DEF Spec, BothPipes, ToBackend!Spec, ToClient!Spec
================================================================================
