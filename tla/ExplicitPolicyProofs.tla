-------------------------- MODULE ExplicitPolicyProofs --------------------------
(***************************************************************************)
(* Proofs about ExplicitPolicy: for every allowlist, every client and any  *)
(* number of solves, the merged policy decides as Buildcage's own rules    *)
(* say for http and https, and as the client's own for everything else.    *)
(***************************************************************************)
EXTENDS ExplicitPolicy, TLAPS

Schemes == {"https", "http"}

\* The policy has the catch-all first, then one ALLOW for each rule and scheme
\* it is for, and nothing else (source-policy.ts, buildSourcePolicy).
LEMMA OwnRules ==
    /\ BuildSourcePolicy \in Seq(Selectors)
    /\ Mode = "audit" => BuildSourcePolicy = <<>>
    /\ Mode = "restrict" =>
          /\ Len(BuildSourcePolicy) >= 1
          /\ BuildSourcePolicy[1] = CatchAll
          /\ \A i \in 2..Len(BuildSourcePolicy) :
                \E s \in Schemes : \E r \in RulesFor(s) : BuildSourcePolicy[i] = AllowRule(r, s)
          /\ \A s \in Schemes : \A r \in RulesFor(s) :
                \E i \in 2..Len(BuildSourcePolicy) : BuildSourcePolicy[i] = AllowRule(r, s)
<1> DEFINE A == AllowRules(HttpsRules, "https")
           B == AllowRules(HttpRules, "http")
           C == AllowIp
<1>1. \A r, s : AllowRule(r, s) \in Selectors
    BY DEF AllowRule, Selectors
<1>2. CatchAll \in Selectors
    BY DEF CatchAll, Selectors, Web
<1>3. /\ Len(HttpsRules) \in Nat /\ DOMAIN HttpsRules = 1..Len(HttpsRules)
      /\ Len(HttpRules) \in Nat /\ DOMAIN HttpRules = 1..Len(HttpRules)
      /\ Len(IpRules) \in Nat /\ DOMAIN IpRules = 1..Len(IpRules)
    BY PolicyOK
<1>4. /\ A \in Seq(Selectors) /\ Len(A) = Len(HttpsRules)
      /\ \A i \in 1..Len(HttpsRules) : A[i] = AllowRule(HttpsRules[i], "https")
    BY <1>1, <1>3 DEF AllowRules
<1>5. /\ B \in Seq(Selectors) /\ Len(B) = Len(HttpRules)
      /\ \A i \in 1..Len(HttpRules) : B[i] = AllowRule(HttpRules[i], "http")
    BY <1>1, <1>3 DEF AllowRules
<1>6. /\ C \in Seq(Selectors) /\ Len(C) = 2 * Len(IpRules)
      /\ \A i \in 1..(2 * Len(IpRules)) :
            C[i] = AllowRule(IpRules[(i + 1) \div 2], IF i % 2 = 1 THEN "https" ELSE "http")
    BY <1>1, <1>3 DEF AllowIp
<1>7. /\ RulesFor("https") = {HttpsRules[i] : i \in 1..Len(HttpsRules)} \cup {IpRules[i] : i \in 1..Len(IpRules)}
      /\ RulesFor("http") = {HttpRules[i] : i \in 1..Len(HttpRules)} \cup {IpRules[i] : i \in 1..Len(IpRules)}
    BY <1>3 DEF RulesFor
<1> HIDE DEF A, B, C
<1>8. CatchAll \in Selectors
    BY <1>2
<1>9. A \in Seq(Selectors) /\ B \in Seq(Selectors) /\ C \in Seq(Selectors)
    BY <1>4, <1>5, <1>6
<1>10. PICK Q : Q = <<CatchAll>> \o A
    OBVIOUS
<1>11. PICK R : R = Q \o B
    OBVIOUS
<1>12. PICK P : P = R \o C
    OBVIOUS
<1>13. /\ Q \in Seq(Selectors) /\ Len(A) \in Nat /\ Len(Q) = 1 + Len(A)
       /\ Q[1] = CatchAll /\ \A i \in 1..Len(A) : Q[1 + i] = A[i]
    BY <1>8, <1>9, <1>10
<1>14. Q \in Seq(Selectors)
    BY <1>13
<1>15. /\ R \in Seq(Selectors) /\ Len(B) \in Nat /\ Len(R) = Len(Q) + Len(B)
       /\ \A i \in 1..Len(Q) : R[i] = Q[i]
       /\ \A i \in 1..Len(B) : R[Len(Q) + i] = B[i]
    BY <1>9, <1>11, <1>14
<1>16. R \in Seq(Selectors)
    BY <1>15
<1>17. /\ P \in Seq(Selectors) /\ Len(C) \in Nat /\ Len(P) = Len(R) + Len(C)
       /\ \A i \in 1..Len(R) : P[i] = R[i]
       /\ \A i \in 1..Len(C) : P[Len(R) + i] = C[i]
    BY <1>9, <1>12, <1>16
<1> DEFINE a == Len(A)
           b == Len(B)
<1>18. /\ a = Len(HttpsRules) /\ b = Len(HttpRules) /\ Len(C) = 2 * Len(IpRules)
       /\ a \in Nat /\ b \in Nat /\ Len(C) \in Nat /\ Len(IpRules) \in Nat
       /\ Len(P) = 1 + a + b + Len(C)
    BY <1>3, <1>4, <1>5, <1>6, <1>13, <1>15, <1>17
<1>19. P \in Seq(Selectors) /\ P[1] = CatchAll
    BY <1>13, <1>15, <1>17
<1>20. ASSUME NEW i \in 1..a
       PROVE  1 + i \in 2..Len(P) /\ P[1 + i] = AllowRule(HttpsRules[i], "https")
    <2>1. 1 + i \in 1..Len(Q) /\ 1 + i \in 1..Len(R) /\ 1 + i \in 2..Len(P) /\ i \in 1..Len(HttpsRules)
        BY <1>13, <1>15, <1>18
    <2>2. Q[1 + i] = A[i]
        BY <1>13
    <2>3. P[1 + i] = R[1 + i] /\ R[1 + i] = Q[1 + i]
        BY <1>15, <1>17, <2>1
    <2>4. A[i] = AllowRule(HttpsRules[i], "https")
        BY <1>4, <2>1
    <2>5. QED  BY <2>1, <2>2, <2>3, <2>4, Zenon
<1>21. ASSUME NEW i \in 1..b
       PROVE  1 + a + i \in 2..Len(P) /\ P[1 + a + i] = AllowRule(HttpRules[i], "http")
    <2>1. /\ Len(Q) + i \in 1..Len(R) /\ 1 + a + i \in 2..Len(P) /\ i \in 1..Len(HttpRules)
          /\ 1 + a + i = Len(Q) + i
        BY <1>13, <1>15, <1>18
    <2>2. R[Len(Q) + i] = B[i]
        BY <1>15
    <2>3. P[Len(Q) + i] = R[Len(Q) + i]
        BY <1>17, <2>1
    <2>4. B[i] = AllowRule(HttpRules[i], "http")
        BY <1>5, <2>1
    <2>5. QED  BY <2>1, <2>2, <2>3, <2>4, Zenon
<1>22. ASSUME NEW i \in 1..Len(C)
       PROVE  /\ 1 + a + b + i \in 2..Len(P)
              /\ P[1 + a + b + i] = AllowRule(IpRules[(i + 1) \div 2], IF i % 2 = 1 THEN "https" ELSE "http")
    <2>1. 1 + a + b + i \in 2..Len(P) /\ i \in 1..(2 * Len(IpRules)) /\ 1 + a + b + i = Len(R) + i
        BY <1>13, <1>15, <1>18
    <2>2. P[Len(R) + i] = C[i]
        BY <1>17
    <2>3. C[i] = AllowRule(IpRules[(i + 1) \div 2], IF i % 2 = 1 THEN "https" ELSE "http")
        BY <1>6, <2>1
    <2>4. QED  BY <2>1, <2>2, <2>3, Zenon
<1> HIDE DEF a, b
<1>23. ASSUME NEW j \in 2..Len(P)
       PROVE  \E s \in Schemes : \E r \in RulesFor(s) : P[j] = AllowRule(r, s)
    <2>1. CASE j - 1 <= a
        <3>1. PICK i : i = j - 1
            OBVIOUS
        <3>2. i \in 1..a /\ i \in 1..Len(HttpsRules) /\ j = 1 + i
            BY <1>18, <2>1, <3>1
        <3>3. P[j] = AllowRule(HttpsRules[i], "https") /\ HttpsRules[i] \in RulesFor("https")
            BY <1>7, <1>20, <3>2
        <3>4. QED  BY <3>3 DEF Schemes
    <2>2. CASE j - 1 > a /\ j - 1 <= a + b
        <3>1. PICK i : i = j - 1 - a
            OBVIOUS
        <3>2. i \in 1..b /\ i \in 1..Len(HttpRules) /\ j = 1 + a + i
            BY <1>18, <2>2, <3>1
        <3>3. P[j] = AllowRule(HttpRules[i], "http") /\ HttpRules[i] \in RulesFor("http")
            BY <1>7, <1>21, <3>2
        <3>4. QED  BY <3>3 DEF Schemes
    <2>3. CASE j - 1 > a + b
        <3>1. PICK i : i = j - 1 - a - b
            OBVIOUS
        <3>2. i \in 1..Len(C) /\ j = 1 + a + b + i
            BY <1>18, <2>3, <3>1
        <3>3. (i + 1) \div 2 \in 1..Len(IpRules)
            BY <1>18, <3>2
        <3>4. IpRules[(i + 1) \div 2] \in RulesFor("https") /\ IpRules[(i + 1) \div 2] \in RulesFor("http")
            BY <1>7, <3>3
        <3>5. P[j] = AllowRule(IpRules[(i + 1) \div 2], IF i % 2 = 1 THEN "https" ELSE "http")
            BY <1>22, <3>2
        <3>6. CASE i % 2 = 1
            BY <3>4, <3>5, <3>6 DEF Schemes
        <3>7. CASE i % 2 # 1
            BY <3>4, <3>5, <3>7 DEF Schemes
        <3>8. QED  BY <3>6, <3>7
    <2>4. QED  BY <1>18, <2>1, <2>2, <2>3
<1>24. \A s \in Schemes : \A r \in RulesFor(s) : \E i \in 2..Len(P) : P[i] = AllowRule(r, s)
    <2>1. \A i \in 1..Len(HttpsRules) : \E j \in 2..Len(P) : P[j] = AllowRule(HttpsRules[i], "https")
        BY <1>18, <1>20
    <2>2. \A i \in 1..Len(HttpRules) : \E j \in 2..Len(P) : P[j] = AllowRule(HttpRules[i], "http")
        BY <1>18, <1>21
    <2>3. ASSUME NEW j \in 1..Len(IpRules)
          PROVE  /\ \E i \in 2..Len(P) : P[i] = AllowRule(IpRules[j], "https")
                 /\ \E i \in 2..Len(P) : P[i] = AllowRule(IpRules[j], "http")
        <3>1. PICK n, m : n = 2 * j - 1 /\ m = 2 * j
            OBVIOUS
        <3>2. /\ n \in 1..Len(C) /\ (n + 1) \div 2 = j /\ n % 2 = 1
              /\ m \in 1..Len(C) /\ (m + 1) \div 2 = j /\ m % 2 # 1
            BY <1>18, <3>1
        <3>3. 1 + a + b + n \in 2..Len(P) /\ P[1 + a + b + n] = AllowRule(IpRules[j], "https")
            BY <1>22, <3>2
        <3>4. 1 + a + b + m \in 2..Len(P) /\ P[1 + a + b + m] = AllowRule(IpRules[j], "http")
            BY <1>22, <3>2
        <3>5. QED  BY <3>3, <3>4
    <2>4. \A r \in RulesFor("https") : \E i \in 2..Len(P) : P[i] = AllowRule(r, "https")
        <3>1. SUFFICES ASSUME NEW r \in RulesFor("https")
                       PROVE  \E i \in 2..Len(P) : P[i] = AllowRule(r, "https")
            OBVIOUS
        <3>2. (\E i \in 1..Len(HttpsRules) : r = HttpsRules[i]) \/ (\E i \in 1..Len(IpRules) : r = IpRules[i])
            BY <1>7
        <3>3. QED  BY <2>1, <2>3, <3>2, Zenon
    <2>5. \A r \in RulesFor("http") : \E i \in 2..Len(P) : P[i] = AllowRule(r, "http")
        <3>1. SUFFICES ASSUME NEW r \in RulesFor("http")
                       PROVE  \E i \in 2..Len(P) : P[i] = AllowRule(r, "http")
            OBVIOUS
        <3>2. (\E i \in 1..Len(HttpRules) : r = HttpRules[i]) \/ (\E i \in 1..Len(IpRules) : r = IpRules[i])
            BY <1>7
        <3>3. QED  BY <2>2, <2>3, <3>2, Zenon
    <2>6. QED  BY <2>4, <2>5, Zenon DEF Schemes
<1>25. Mode = "restrict" => BuildSourcePolicy = P
    BY <1>10, <1>11, <1>12, Zenon DEF BuildSourcePolicy, A, B, C
<1>26. Mode = "audit" => BuildSourcePolicy = <<>>
    BY DEF BuildSourcePolicy
<1>27. Mode \in {"restrict", "audit"}
    BY PolicyOK
<1>28. BuildSourcePolicy \in Seq(Selectors)
    <2>1. CASE Mode = "restrict"
        BY <1>19, <1>25, <2>1
    <2>2. CASE Mode = "audit"
        BY <1>26, <2>2
    <2>3. QED  BY <1>27, <2>1, <2>2
<1>29. ASSUME Mode = "restrict"
       PROVE  /\ Len(BuildSourcePolicy) >= 1
              /\ BuildSourcePolicy[1] = CatchAll
              /\ \A i \in 2..Len(BuildSourcePolicy) :
                    \E s \in Schemes : \E r \in RulesFor(s) : BuildSourcePolicy[i] = AllowRule(r, s)
              /\ \A s \in Schemes : \A r \in RulesFor(s) :
                    \E i \in 2..Len(BuildSourcePolicy) : BuildSourcePolicy[i] = AllowRule(r, s)
    <2>1. BuildSourcePolicy = P
        BY <1>25, <1>29
    <2>2. Len(P) >= 1
        BY <1>18
    <2>3. QED  BY <1>19, <1>23, <1>24, <2>1, <2>2, Zenon
<1>30. QED  BY <1>26, <1>28, <1>29

\* The rules of a client, none for one that brings no policy.
ClientRules(c) == IF c = None THEN <<>> ELSE c

\* The merged policy is the client's rules and Buildcage's behind them
\* (solve.go, mergePolicy).
LEMMA MergedRules ==
    ASSUME NEW c \in Clients
    PROVE  /\ Merged(c) \in Seq(Selectors) /\ ClientRules(c) \in Seq(Selectors)
           /\ Len(ClientRules(c)) \in Nat /\ Len(BuildSourcePolicy) \in Nat
           /\ Len(Merged(c)) = Len(ClientRules(c)) + Len(BuildSourcePolicy)
           /\ \A i \in 1..Len(ClientRules(c)) : Merged(c)[i] = ClientRules(c)[i]
           /\ \A i \in 1..Len(BuildSourcePolicy) :
                 Merged(c)[Len(ClientRules(c)) + i] = BuildSourcePolicy[i]
<1>1. BuildSourcePolicy \in Seq(Selectors)
    BY OwnRules
<1>2. CASE c = None
    BY <1>1, <1>2 DEF Merged, ClientRules
<1>3. CASE c # None
    <2>1. c \in Seq(Selectors)
        BY <1>3, PolicyOK
    <2>2. Merged(c) = c \o BuildSourcePolicy /\ ClientRules(c) = c
        BY <1>3 DEF Merged, ClientRules
    <2>3. QED  BY <1>1, <2>1, <2>2
<1>4. QED  BY <1>2, <1>3

\* Buildcage's rules convert nothing, and those that match anything but http
\* and https do not exist.
LEMMA OwnRulesAreWeb ==
    ASSUME NEW i \in 1..Len(BuildSourcePolicy)
    PROVE  /\ BuildSourcePolicy[i].action # "CONVERT"
           /\ BuildSourcePolicy[i].matches \subseteq Web
<1>1. Mode = "restrict" /\ Len(BuildSourcePolicy) \in Nat
    BY OwnRules, PolicyOK
<1>2. CASE i = 1
    BY <1>1, <1>2, OwnRules DEF CatchAll
<1>3. CASE i # 1
    <2>1. i \in 2..Len(BuildSourcePolicy)
        BY <1>1, <1>3
    <2>2. PICK s \in Schemes : \E r \in RulesFor(s) : BuildSourcePolicy[i] = AllowRule(r, s)
        BY <1>1, <2>1, OwnRules
    <2>3. PICK r \in RulesFor(s) : BuildSourcePolicy[i] = AllowRule(r, s)
        BY <2>2
    <2>4. QED  BY <2>3 DEF AllowRule, Web, Schemes
<1>4. QED  BY <1>2, <1>3

\* A conversion leads to a source, and comes from the client.
LEMMA ConversionsAreTheClients ==
    ASSUME NEW c \in Clients, NEW x \in Sources
    PROVE  /\ Conversions(Merged(c), x) = Conversions(ClientRules(c), x)
           /\ \A i \in Conversions(Merged(c), x) : Merged(c)[i].to \in Sources
<1> DEFINE own == ClientRules(c)
           n == Len(own)
           M == Merged(c)
<1>1. /\ n \in Nat /\ Len(BuildSourcePolicy) \in Nat
      /\ DOMAIN M = 1..(n + Len(BuildSourcePolicy)) /\ DOMAIN own = 1..n
    BY MergedRules
<1>2. \A i \in 1..n : M[i] = own[i]
    BY MergedRules
<1>3. ASSUME NEW i \in DOMAIN M, i > n
      PROVE  M[i].action # "CONVERT"
    <2>1. i - n \in 1..Len(BuildSourcePolicy) /\ n + (i - n) = i
        BY <1>1, <1>3
    <2>2. M[i] = BuildSourcePolicy[i - n]
        BY <2>1, MergedRules
    <2>3. QED  BY <2>1, <2>2, OwnRulesAreWeb
<1>4. \A i \in Conversions(M, x) : i \in 1..n /\ M[i] = own[i]
    BY <1>1, <1>2, <1>3 DEF Conversions
<1>5. Conversions(M, x) = Conversions(own, x)
    BY <1>1, <1>2, <1>4 DEF Conversions
<1>6. ASSUME NEW i \in Conversions(M, x)
      PROVE  M[i].to \in Sources
    <2>1. i \in DOMAIN own /\ own[i].action = "CONVERT" /\ M[i] = own[i]
        BY <1>1, <1>4 DEF Conversions
    <2>2. c # None /\ own = c
        BY <1>1, <2>1 DEF ClientRules
    <2>3. c[i].to # None
        BY <2>1, <2>2, PolicyOK
    <2>4. c[i] \in Selectors
        BY <2>1, <2>2, MergedRules
    <2>5. QED  BY <2>1, <2>2, <2>3, <2>4 DEF Selectors
<1>7. QED  BY <1>5, <1>6

IInv == TypeOK /\ MergeInv

\* A record of solve, for the steps that change one.
Solves ==
    [phase : {"idle", "solving", "evaluating"}, client : Clients \cup {None}, policy : Seq(Selectors),
     now : Sources \cup {None}, passes : 0..MaxPasses, asked : 0..MaxAsks]

LEMMA InitInvariant == Init => IInv
<1> SUFFICES ASSUME Init PROVE IInv
    OBVIOUS
<1>1. BuildSourcePolicy \in Seq(Selectors) /\ MaxPasses \in Nat /\ MaxAsks \in Nat
    BY OwnRules, PolicyOK
<1>2. Idle \in Solves
    BY <1>1 DEF Idle, Solves
<1>3. TypeOK
    BY <1>1, <1>2 DEF Init, TypeOK, In, Idle, Solves, Other
<1>4. MergeInv
    BY DEF Init, MergeInv, In, Idle
<1>5. QED  BY <1>3, <1>4 DEF IInv

\* A step that changes one solve keeps what IInv says of the solves when the
\* record it leaves there is as IInv says.
LEMMA SolveMove ==
    ASSUME IInv, NEW b \in Builds, NEW s \in Solves, solve' = [solve EXCEPT ![b] = s],
           s.phase = "evaluating" => s.now \in Sources,
           s.phase # "idle" => s.client \in Clients /\ s.policy = Merged(s.client)
    PROVE  /\ solve' \in [Builds -> Solves]
           /\ \A d \in Builds : In(d, "evaluating")' => solve'[d].now \in Sources
           /\ \A d \in Builds :
                 ~In(d, "idle")' => solve'[d].client \in Clients /\ solve'[d].policy = Merged(solve'[d].client)
<1>1. solve \in [Builds -> Solves]
    BY DEF IInv, TypeOK, Solves
<1>2. solve' \in [Builds -> Solves] /\ \A d \in Builds : solve'[d] = IF d = b THEN s ELSE solve[d]
    BY <1>1
<1>3. ASSUME NEW d \in Builds
      PROVE  /\ In(d, "evaluating")' => solve'[d].now \in Sources
             /\ ~In(d, "idle")' => solve'[d].client \in Clients /\ solve'[d].policy = Merged(solve'[d].client)
    <2>1. CASE d = b
        BY <1>2, <2>1 DEF In
    <2>2. CASE d # b
        <3>1. solve'[d] = solve[d]
            BY <1>2, <2>2
        <3>2. In(d, "evaluating") => solve[d].now \in Sources
            BY DEF IInv, TypeOK
        <3>3. ~In(d, "idle") => solve[d].client \in Clients /\ solve[d].policy = Merged(solve[d].client)
            BY DEF IInv, TypeOK, MergeInv
        <3> QED BY <3>1, <3>2, <3>3 DEF In
    <2> QED BY <2>1, <2>2
<1> QED BY <1>2, <1>3

\* Such a step keeps IInv when it takes no decision.
LEMMA SolveKeeps ==
    ASSUME IInv, NEW b \in Builds, NEW s \in Solves, solve' = [solve EXCEPT ![b] = s],
           s.phase = "evaluating" => s.now \in Sources,
           s.phase # "idle" => s.client \in Clients /\ s.policy = Merged(s.client),
           UNCHANGED <<policy, fetched, denied, log>>
    PROVE  IInv'
<1>1. TypeOK'
    BY SolveMove DEF IInv, TypeOK, Solves
<1>2. MergeInv'
    BY SolveMove DEF IInv, MergeInv
<1> QED BY <1>1, <1>2 DEF IInv

LEMMA NextInvariant == IInv /\ [Next]_vars => IInv'
<1> SUFFICES ASSUME IInv, [Next]_vars
             PROVE  IInv'
    OBVIOUS
<1>1. /\ policy = BuildSourcePolicy /\ BuildSourcePolicy \in Seq(Selectors)
      /\ MaxPasses \in Nat /\ MaxAsks \in Nat
    BY OwnRules, PolicyOK DEF IInv, MergeInv
<1>2. \A b \in Builds : solve[b] \in Solves
    BY DEF IInv, TypeOK, Solves
<1>3. ASSUME NEW b \in Builds, Solve(b)
      PROVE  IInv'
    <2>1. PICK c \in Clients :
              solve' = [solve EXCEPT ![b] =
                  [@ EXCEPT !.phase = "solving", !.client = c,
                            !.policy = IF c = None THEN policy ELSE MergePolicy(c, policy)]]
        BY <1>3 DEF Solve
    <2> DEFINE s == [solve[b] EXCEPT !.phase = "solving", !.client = c, !.policy = Merged(c)]
    <2>2. solve' = [solve EXCEPT ![b] = s]
        BY <1>1, <2>1 DEF Merged, MergePolicy
    <2>3. Merged(c) \in Seq(Selectors)
        BY MergedRules
    <2>4. s \in Solves /\ s.phase = "solving" /\ s.client = c /\ s.policy = Merged(c)
        BY <1>2, <2>3 DEF Solves
    <2>5. UNCHANGED <<policy, fetched, denied, log>>
        BY <1>3 DEF Solve
    <2> HIDE DEF s
    <2> QED BY <2>2, <2>4, <2>5, SolveKeeps
<1>4. ASSUME NEW b \in Builds, Ask(b)
      PROVE  IInv'
    <2>1. PICK x \in Sources :
              solve' = [solve EXCEPT ![b].phase = "evaluating", ![b].now = x, ![b].passes = 0,
                                     ![b].asked = @ + 1]
        BY <1>4 DEF Ask
    <2> DEFINE s == [solve[b] EXCEPT !.phase = "evaluating", !.now = x, !.passes = 0, !.asked = @ + 1]
    <2>2. solve[b].asked + 1 \in 0..MaxAsks /\ 0 \in 0..MaxPasses
        BY <1>1, <1>2, <1>4 DEF Solves, Ask
    <2>3. /\ s \in Solves /\ s.phase = "evaluating" /\ s.now = x
          /\ s.client = solve[b].client /\ s.policy = solve[b].policy
        BY <1>2, <2>2 DEF Solves
    <2>4. solve' = [solve EXCEPT ![b] = s]
        BY <2>1 DEF IInv, TypeOK
    <2>5. solve[b].client \in Clients /\ solve[b].policy = Merged(solve[b].client)
        BY <1>4 DEF Ask, In, IInv, TypeOK, MergeInv
    <2>6. UNCHANGED <<policy, fetched, denied, log>>
        BY <1>4 DEF Ask
    <2> HIDE DEF s
    <2> QED BY <2>3, <2>4, <2>5, <2>6, SolveKeeps
<1>5. ASSUME NEW b \in Builds, Evaluate(b)
      PROVE  IInv'
    <2>1. /\ In(b, "evaluating") /\ solve[b] \in Solves /\ solve[b].now \in Sources
          /\ solve[b].client \in Clients /\ solve[b].policy = Merged(solve[b].client)
        BY <1>2, <1>5 DEF IInv, TypeOK, MergeInv, In, Evaluate, Convert, GiveUp, Deny, Allow
    <2>2. Decision(b) \in Decisions /\ Denial(solve[b].now) \in {Denial(x) : x \in Sources}
        BY <2>1 DEF Decision, Decisions
    <2> DEFINE s == [solve[b] EXCEPT !.phase = "solving", !.now = None]
    <2>3. /\ s \in Solves /\ s.phase = "solving"
          /\ s.client = solve[b].client /\ s.policy = solve[b].policy
        BY <2>1 DEF Solves
    <2>4. Answered(b) = [solve EXCEPT ![b] = s]
        BY <2>1 DEF Answered, IInv, TypeOK
    <2> HIDE DEF s
    <2>5. CASE Convert(b)
        <3>1. PICK i \in Conversions(solve[b].policy, solve[b].now) :
                  solve' = [solve EXCEPT ![b].now = solve[b].policy[i].to, ![b].passes = @ + 1]
            BY <2>5 DEF Convert
        <3> DEFINE q == [solve[b] EXCEPT !.now = solve[b].policy[i].to, !.passes = @ + 1]
        <3>2. solve[b].policy[i].to \in Sources
            BY <2>1, <3>1, ConversionsAreTheClients
        <3>3. solve[b].passes + 1 \in 0..MaxPasses
            BY <1>1, <2>1, <2>5 DEF Solves, Convert
        <3>4. /\ q \in Solves /\ q.now = solve[b].policy[i].to
              /\ q.client = solve[b].client /\ q.policy = solve[b].policy
            BY <2>1, <3>2, <3>3 DEF Solves
        <3>5. solve' = [solve EXCEPT ![b] = q]
            BY <3>1 DEF IInv, TypeOK
        <3>6. UNCHANGED <<policy, fetched, denied, log>>
            BY <2>5 DEF Convert
        <3> HIDE DEF q
        <3> QED BY <2>1, <3>2, <3>4, <3>5, <3>6, SolveKeeps
    <2>6. CASE GiveUp(b)
        <3>1. solve' = [solve EXCEPT ![b] = s] /\ UNCHANGED <<policy, fetched, denied, log>>
            BY <2>4, <2>6 DEF GiveUp
        <3> QED BY <2>1, <2>3, <3>1, SolveKeeps
    <2>7. solve' = [solve EXCEPT ![b] = s] =>
              /\ solve' \in [Builds -> Solves]
              /\ \A d \in Builds : In(d, "evaluating")' => solve'[d].now \in Sources
              /\ \A d \in Builds :
                    ~In(d, "idle")' => solve'[d].client \in Clients /\ solve'[d].policy = Merged(solve'[d].client)
        BY <2>1, <2>3, SolveMove
    <2>8. CASE Deny(b)
        <3>1. /\ solve' = [solve EXCEPT ![b] = s] /\ denied' = denied \cup {Decision(b)}
              /\ log' = log \cup {Denial(solve[b].now)} /\ UNCHANGED <<policy, fetched>>
            BY <2>4, <2>8 DEF Deny
        <3>2. TypeOK'
            BY <2>2, <2>7, <3>1 DEF IInv, TypeOK, Solves
        <3>3. /\ Conversions(Merged(solve[b].client), solve[b].now) = {}
              /\ Denies(Merged(solve[b].client), solve[b].now)
            BY <2>1, <2>8 DEF Deny
        <3>4. Decision(b).client = solve[b].client /\ Decision(b).at = solve[b].now
            BY DEF Decision
        <3>5. MergeInv'
            BY <2>7, <3>1, <3>3, <3>4 DEF IInv, MergeInv
        <3> QED BY <3>2, <3>5 DEF IInv
    <2>9. CASE Allow(b)
        <3>1. /\ solve' = [solve EXCEPT ![b] = s] /\ fetched' = fetched \cup {Decision(b)}
              /\ UNCHANGED <<policy, denied, log>>
            BY <2>4, <2>9 DEF Allow
        <3>2. TypeOK'
            BY <2>2, <2>7, <3>1 DEF IInv, TypeOK, Solves
        <3>3. /\ Conversions(Merged(solve[b].client), solve[b].now) = {}
              /\ ~Denies(Merged(solve[b].client), solve[b].now)
            BY <2>1, <2>9 DEF Allow
        <3>4. Decision(b).client = solve[b].client /\ Decision(b).at = solve[b].now
            BY DEF Decision
        <3>5. MergeInv'
            BY <2>7, <3>1, <3>3, <3>4 DEF IInv, MergeInv
        <3> QED BY <3>2, <3>5 DEF IInv
    <2> QED BY <1>5, <2>5, <2>6, <2>8, <2>9 DEF Evaluate
<1>6. ASSUME NEW b \in Builds, Finish(b)
      PROVE  IInv'
    <2> DEFINE s == [Idle EXCEPT !.asked = solve[b].asked]
    <2>1. s \in Solves /\ s.phase = "idle"
        <3>1. <<>> \in Seq(Selectors) /\ 0 \in 0..MaxPasses /\ solve[b].asked \in 0..MaxAsks
            BY <1>1, <1>2 DEF Solves
        <3> QED BY <3>1 DEF Idle, Solves
    <2>2. solve' = [solve EXCEPT ![b] = s] /\ UNCHANGED <<policy, fetched, denied, log>>
        BY <1>6 DEF Finish
    <2> HIDE DEF s
    <2> QED BY <2>1, <2>2, SolveKeeps
<1>7. CASE UNCHANGED vars
    BY <1>7 DEF IInv, TypeOK, MergeInv, In, vars
<1>8. QED  BY <1>3, <1>4, <1>5, <1>6, <1>7 DEF Next

\* Every variable holds a value of its kind, for any number of solves.
THEOREM TypeCorrect == Spec => []TypeOK
<1>1. IInv => TypeOK
    BY DEF IInv
<1>2. QED  BY InitInvariant, NextInvariant, <1>1, PTL DEF Spec

\* No solve is evaluated under rules of another client, Buildcage's come last in
\* every one, and every source is decided when no conversion is left.
THEOREM MergeKeeps == Spec => []MergeInv
<1>1. IInv => MergeInv
    BY DEF IInv
<1>2. QED  BY InitInvariant, NextInvariant, <1>1, PTL DEF Spec

--------------------------------------------------------------------------------
(* What the merged policy decides. *)

\* Of what Buildcage governs, a source is denied exactly when none of the rules
\* for its scheme matches it, whatever the client's rules say.
LEMMA WebDecision ==
    ASSUME Mode = "restrict", NEW c \in Clients, NEW x \in Web
    PROVE  ~Denies(Merged(c), x) <=> \E s \in Schemes : \E r \in RulesFor(s) : x \in AllowRule(r, s).matches
<1> DEFINE n == Len(ClientRules(c))
           own == BuildSourcePolicy
           M == Merged(c)
<1>1. /\ n \in Nat /\ Len(own) \in Nat /\ Len(own) >= 1
      /\ DOMAIN M = 1..(n + Len(own))
    BY MergedRules, OwnRules
<1>2. \A i \in 1..Len(own) : n + i \in DOMAIN M /\ M[n + i] = own[i]
    BY <1>1, MergedRules
<1>3. n + 1 \in DOMAIN M /\ M[n + 1].action = "DENY" /\ x \in M[n + 1].matches
    BY <1>1, <1>2, OwnRules DEF CatchAll
<1>4. ASSUME NEW j \in DOMAIN M, j > n + 1
      PROVE  \E s \in Schemes : \E r \in RulesFor(s) : M[j] = AllowRule(r, s)
    <2>1. j - n \in 2..Len(own) /\ j - n \in 1..Len(own) /\ n + (j - n) = j
        BY <1>1, <1>4
    <2>2. M[j] = own[j - n]
        BY <1>2, <2>1
    <2>3. QED  BY <2>1, <2>2, OwnRules
<1>5. ASSUME ~Denies(M, x)
      PROVE  \E s \in Schemes : \E r \in RulesFor(s) : x \in AllowRule(r, s).matches
    <2>1. PICK j \in DOMAIN M : j > n + 1 /\ x \in M[j].matches
        BY <1>3, <1>5 DEF Denies
    <2>2. QED  BY <1>4, <2>1
<1>6. ASSUME NEW s \in Schemes, NEW r \in RulesFor(s), x \in AllowRule(r, s).matches
      PROVE  ~Denies(M, x)
    <2>1. PICK k \in 2..Len(own) : own[k] = AllowRule(r, s)
        BY OwnRules
    <2>2. n + k \in DOMAIN M /\ M[n + k] = AllowRule(r, s) /\ n + k > n + 1
        BY <1>1, <1>2, <2>1
    <2>3. M[n + k].action = "ALLOW" /\ x \in M[n + k].matches
        BY <1>6, <2>2 DEF AllowRule
    <2>4. ASSUME NEW i \in DOMAIN M, M[i].action = "DENY"
          PROVE  i < n + k
        <3>1. i <= n + 1
            BY <1>1, <1>4, <2>4 DEF AllowRule
        <3>2. QED  BY <1>1, <2>2, <3>1
    <2>5. QED  BY <2>2, <2>3, <2>4 DEF Denies
<1>7. QED  BY <1>5, <1>6

\* On everything else, and on everything in audit, the client's rules decide.
LEMMA RestDecision ==
    ASSUME NEW c \in Clients, NEW x \in Sources, x \notin Web \/ Mode = "audit"
    PROVE  Denies(Merged(c), x) <=> Denies(ClientRules(c), x)
<1> DEFINE own == ClientRules(c)
           n == Len(own)
           M == Merged(c)
<1>1. /\ n \in Nat /\ Len(BuildSourcePolicy) \in Nat
      /\ DOMAIN M = 1..(n + Len(BuildSourcePolicy)) /\ DOMAIN own = 1..n
    BY MergedRules
<1>2. \A i \in 1..n : i \in DOMAIN M /\ M[i] = own[i]
    BY <1>1, MergedRules
<1>3. ASSUME NEW i \in DOMAIN M, i > n
      PROVE  x \notin M[i].matches
    <2>1. i - n \in 1..Len(BuildSourcePolicy) /\ n + (i - n) = i
        BY <1>1, <1>3
    <2>2. M[i] = BuildSourcePolicy[i - n]
        BY <2>1, MergedRules
    <2>3. Mode # "audit"
        BY <1>1, <2>1, OwnRules
    <2>4. QED  BY <2>1, <2>2, <2>3, OwnRulesAreWeb
<1>4. ASSUME Denies(M, x)
      PROVE  Denies(own, x)
    <2>1. PICK i \in DOMAIN M :
              /\ M[i].action = "DENY" /\ x \in M[i].matches
              /\ \A j \in DOMAIN M : j > i /\ M[j].action = "ALLOW" => x \notin M[j].matches
        BY <1>4 DEF Denies
    <2>2. i \in 1..n
        BY <1>1, <1>3, <2>1
    <2>3. QED  BY <1>1, <1>2, <2>1, <2>2 DEF Denies
<1>5. ASSUME Denies(own, x)
      PROVE  Denies(M, x)
    <2>1. PICK i \in DOMAIN own :
              /\ own[i].action = "DENY" /\ x \in own[i].matches
              /\ \A j \in DOMAIN own : j > i /\ own[j].action = "ALLOW" => x \notin own[j].matches
        BY <1>5 DEF Denies
    <2>2. i \in DOMAIN M /\ M[i] = own[i]
        BY <1>1, <1>2, <2>1
    <2>3. ASSUME NEW j \in DOMAIN M, j > i, M[j].action = "ALLOW"
          PROVE  x \notin M[j].matches
        <3>1. CASE j > n
            BY <1>3, <3>1
        <3>2. CASE ~(j > n)
            BY <1>1, <1>2, <2>1, <2>3, <3>2
        <3>3. QED  BY <3>1, <3>2
    <2>4. QED  BY <2>1, <2>2, <2>3 DEF Denies
<1>6. QED  BY <1>4, <1>5

\* The rules a list holds.
LEMMA RulesAreRules ==
    ASSUME NEW s \in Schemes, NEW r \in RulesFor(s)
    PROVE  Rule(r)
<1>1. \A rules \in {HttpsRules, HttpRules, IpRules} : \A i \in DOMAIN rules : Rule(rules[i])
    BY PolicyOK
<1>2. QED  BY <1>1 DEF RulesFor

\* A wildcard rule matches a source exactly when it lists its port, the scheme's
\* own when it names none (source-policy.ts, toUrlIdentifierFromWildcard).
LEMMA WildcardPort ==
    ASSUME NEW x \in Web, NEW r \in RulesFor(x.scheme), r.form = "wildcard"
    PROVE  x.port \in PortsFor(r, x.scheme) <=> MeantPort(x) \in r.ports
<1>1. x.scheme \in Schemes /\ x \in Sources
    BY DEF Web, Schemes
<1>2. Rule(r)
    BY <1>1, RulesAreRules
<1>3. /\ x.port \in Ports \cup {None} /\ DefaultPort[x.scheme] \in Ports /\ None \notin Ports
    BY <1>1, PolicyOK DEF Schemes
<1>4. r.ports = Ports \/ \E p \in Ports : r.ports = {p}
    BY <1>2 DEF Rule
<1>5. QED  BY <1>3, <1>4 DEF PortsFor, MeantPort

\* Of what Buildcage governs, the last word is that of the rules for the scheme.
LEMMA WebAllowed ==
    ASSUME Mode = "restrict", NEW c \in Clients, NEW x \in Web
    PROVE  ~Denies(Merged(c), x) <=>
               \E r \in RulesFor(x.scheme) : x.host \in r.hosts /\ x.port \in PortsFor(r, x.scheme)
<1>1. x.scheme \in Schemes /\ x \in Sources
    BY DEF Web, Schemes
<1>2. QED  BY <1>1, WebDecision DEF AllowRule

--------------------------------------------------------------------------------
(* The properties. *)

\* A client cannot widen the allowlist: nothing is fetched over http or https
\* that no rule lists, whatever the client allows and converts (solve.go,
\* mergePolicy).  It takes that no regular expression matches a name without a
\* port unless it matches the scheme's own: ~^host(:8443)?$ does not do.
THEOREM ClientCannotWiden ==
    ASSUME \A s \in Schemes : \A r \in RulesFor(s) :
               r.form = "regex" /\ None \in r.ports => DefaultPort[s] \in r.ports
    PROVE  Spec => []NeverPastAllowlist
<1>1. IInv => NeverPastAllowlist
    <2> SUFFICES ASSUME IInv, Mode = "restrict", NEW f \in fetched, f.at \in Web
                 PROVE  Listed(f.at)
        BY DEF NeverPastAllowlist
    <2>1. f.client \in Clients /\ ~Denies(Merged(f.client), f.at)
        BY DEF IInv, TypeOK, MergeInv, Decisions
    <2>2. PICK r \in RulesFor(f.at.scheme) : f.at.host \in r.hosts /\ f.at.port \in PortsFor(r, f.at.scheme)
        BY <2>1, WebAllowed
    <2>3. f.at.scheme \in Schemes /\ f.at \in Sources
        BY DEF Web, Schemes
    <2>4. MeantPort(f.at) \in r.ports
        <3>1. Rule(r)
            BY <2>3, RulesAreRules
        <3>2. CASE r.form = "wildcard"
            BY <2>2, <3>2, WildcardPort
        <3>3. CASE r.form = "regex"
            BY <2>2, <2>3, <3>3 DEF PortsFor, MeantPort
        <3>4. QED  BY <3>1, <3>2, <3>3 DEF Rule
    <2>5. QED  BY <2>2, <2>4 DEF Listed
<1>2. QED  BY InitInvariant, NextInvariant, <1>1, PTL DEF Spec

\* Nor does a client, or a port left out, make the policy refuse what a rule
\* lists (source-policy.ts, toUrlIdentifierFromWildcard), as long as every
\* regular expression that matches the scheme's own port also matches a name
\* without one.
THEOREM ListedAdmitted ==
    ASSUME \A s \in Schemes : \A r \in RulesFor(s) :
               r.form = "regex" /\ DefaultPort[s] \in r.ports => None \in r.ports
    PROVE  Spec => []ListedNeverRefused
<1>1. IInv => ListedNeverRefused
    <2> SUFFICES ASSUME IInv, Mode = "restrict", NEW d \in denied, d.at \in Web, Listed(d.at)
                 PROVE  FALSE
        BY DEF ListedNeverRefused
    <2>1. d.client \in Clients /\ Denies(Merged(d.client), d.at)
        BY DEF IInv, TypeOK, MergeInv, Decisions
    <2>2. PICK r \in RulesFor(d.at.scheme) : d.at.host \in r.hosts /\ MeantPort(d.at) \in r.ports
        BY DEF Listed
    <2>3. d.at.scheme \in Schemes /\ d.at \in Sources
        BY DEF Web, Schemes
    <2>4. d.at.port \in PortsFor(r, d.at.scheme)
        <3>1. Rule(r)
            BY <2>3, RulesAreRules
        <3>2. CASE r.form = "wildcard"
            BY <2>2, <3>2, WildcardPort
        <3>3. CASE r.form = "regex"
            BY <2>2, <2>3, <3>3 DEF PortsFor, MeantPort
        <3>4. QED  BY <3>1, <3>2, <3>3 DEF Rule
    <2>5. QED  BY <2>1, <2>2, <2>4, WebAllowed
<1>2. QED  BY InitInvariant, NextInvariant, <1>1, PTL DEF Spec

\* What Buildcage does not govern, and everything in audit, is decided by the
\* client's rules alone (solve.go, mergePolicy).
THEOREM RestIsTheClients == Spec => []ClientsRuleTheRest
<1>1. IInv => ClientsRuleTheRest
    <2> SUFFICES ASSUME IInv, NEW x \in fetched \cup denied, x.at \notin Web \/ Mode = "audit"
                 PROVE  /\ Conversions(ClientRules(x.client), x.at) = {}
                        /\ x \in denied <=> Denies(ClientRules(x.client), x.at)
        BY DEF ClientsRuleTheRest, ClientRules
    <2>1. x.client \in Clients /\ x.at \in Sources
        BY DEF IInv, TypeOK, Decisions
    <2>2. Conversions(ClientRules(x.client), x.at) = {}
        BY <2>1, ConversionsAreTheClients DEF IInv, MergeInv
    <2>3. x \in denied <=> Denies(Merged(x.client), x.at)
        BY DEF IInv, MergeInv
    <2>4. QED  BY <2>1, <2>2, <2>3, RestDecision
<1>2. QED  BY InitInvariant, NextInvariant, <1>1, PTL DEF Spec

--------------------------------------------------------------------------------
(* What the report makes of the log. *)

\* buildkitd's log tells what was denied, each source once or more, and that it
\* was written at all.
LogInv ==
    /\ Other \in log
    /\ \A x \in Sources : Denial(x) \in log <=> \E d \in denied : d.at = x

LEMMA DenialsDiffer ==
    /\ \A x, y : Denial(x) = Denial(y) => x = y
    /\ \A x : Denial(x) # Other
<1>1. ASSUME NEW x, NEW y, Denial(x) = Denial(y) PROVE x = y
    <2>1. Denial(x).ref = x /\ Denial(y).ref = y
        BY DEF Denial
    <2> QED BY <1>1, <2>1
<1>2. ASSUME NEW x PROVE Denial(x) # Other
    <2>1. Denial(x).kind = "denied" /\ Other.kind = "other"
        BY DEF Denial, Other
    <2> QED BY <2>1
<1> QED BY <1>1, <1>2

LEMMA LogStep == LogInv /\ [Next]_vars => LogInv'
<1> SUFFICES ASSUME LogInv, [Next]_vars PROVE LogInv'
    OBVIOUS
<1>1. ASSUME UNCHANGED <<denied, log>> PROVE LogInv'
    BY <1>1 DEF LogInv
<1>2. ASSUME NEW b \in Builds, Deny(b) PROVE LogInv'
    <2>1. log' = log \cup {Denial(solve[b].now)} /\ denied' = denied \cup {Decision(b)}
        BY <1>2 DEF Deny
    <2>2. Decision(b).at = solve[b].now
        BY DEF Decision
    <2>3. ASSUME NEW x \in Sources PROVE Denial(x) \in log' <=> \E d \in denied' : d.at = x
        <3>1. Denial(x) \in log' <=> Denial(x) \in log \/ x = solve[b].now
            BY <2>1, DenialsDiffer
        <3>2. (\E d \in denied' : d.at = x) <=> (\E d \in denied : d.at = x) \/ x = solve[b].now
            BY <2>1, <2>2
        <3> QED BY <3>1, <3>2 DEF LogInv
    <2> QED BY <2>1, <2>3 DEF LogInv
<1>3. CASE \E b \in Builds : Solve(b) \/ Ask(b) \/ Convert(b) \/ GiveUp(b) \/ Allow(b) \/ Finish(b)
    BY <1>1, <1>3 DEF Solve, Ask, Convert, GiveUp, Allow, Finish
<1>4. CASE UNCHANGED vars
    BY <1>1, <1>4 DEF vars
<1> QED BY <1>2, <1>3, <1>4 DEF Next, Evaluate

LEMMA LogTells == Spec => []LogInv
<1>1. Init => LogInv
    BY DenialsDiffer DEF Init, LogInv
<1> QED BY <1>1, LogStep, PTL DEF Spec

\* The report fails the job for the denials nobody expected, and for nothing
\* else, whatever the clients' own rules deny of other schemes.
THEOREM ReportFailsOnUnexpected == Spec => []FailsOnUnexpected
<1>1. TypeOK /\ LogInv => FailsOnUnexpected
    <2> SUFFICES ASSUME TypeOK, LogInv PROVE FailsOnUnexpected
        OBVIOUS
    <2>1. \A x \in Web : Expected(x) <=> KnownToBeBlocked(x)
        BY DEF Expected, KnownToBeBlocked, PortOf, MeantPort
    <2>2. \A x \in Web : x \in Blocked <=> \E d \in denied : d.at = x
        BY DEF LogInv, Blocked, Web
    <2>3. (\E x \in Blocked : ~Expected(x)) <=> \E d \in denied : d.at \in Web /\ ~KnownToBeBlocked(d.at)
        <3>1. Blocked \subseteq Web
            BY DEF Blocked
        <3> QED BY <2>1, <2>2, <3>1
    <2>4. LogLooksPlausible
        BY DEF LogInv, LogLooksPlausible
    <2> QED BY <2>3, <2>4 DEF ShouldFail, FailsOnUnexpected
<1> QED BY <1>1, TypeCorrect, LogTells, PTL
================================================================================
