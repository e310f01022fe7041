---------------------------- MODULE RuleMatchProofs ----------------------------
(***************************************************************************)
(* Proofs about RuleMatch: for every pattern and every name or path,       *)
(* however long, the expression a compiler writes matches what the README  *)
(* says of the pattern.                                                    *)
(***************************************************************************)
EXTENDS RuleMatch, WellFoundedInduction, TLAPS

--------------------------------------------------------------------------------
(* Induction.                                                               *)

LEMMA LeastNat ==
    ASSUME NEW S \in SUBSET Nat, S # {}
    PROVE  \E n \in S : \A m \in S : n <= m
<1> DEFINE R == OpToRel(<, Nat)
<1>1. IsWellFoundedOn(R, Nat)
    BY NatLessThanWellFounded
<1>2. \A x, y \in Nat : x < y => <<x, y>> \in R
    BY DEF OpToRel
<1> HIDE DEF R
<1>3. PICK n \in S : \A m \in S : <<m, n>> \notin R
    BY <1>1, WFMin
<1>4. ASSUME NEW m \in S PROVE n <= m
    <2>1. ~(m < n)
        BY <1>2, <1>3
    <2> QED BY <2>1
<1> QED BY <1>4

--------------------------------------------------------------------------------
(* What Matches computes: that the characters of s from j on can be given   *)
(* to the pieces of re from i on, n and l being how many there are.         *)

OwnedBy(re, s, n, l, i, j, w) ==
    /\ w \in [j..l -> i..n]
    /\ \A a, b \in j..l : a < b => w[a] <= w[b] /\ (~re[w[a]].more => w[a] # w[b])
    /\ \A a \in j..l : s[a] \in re[w[a]].of
    /\ \A k \in i..n : re[k].least = 0 \/ \E a \in j..l : w[a] = k

Owned(re, s, n, l, i, j) == \E w : OwnedBy(re, s, n, l, i, j, w)

LEMMA OwnedEnd ==
    ASSUME NEW re, NEW s, NEW n \in Nat, NEW l \in Nat, NEW j \in 1..l + 1
    PROVE  Owned(re, s, n, l, n + 1, j) <=> j > l
<1>1. ASSUME j > l PROVE Owned(re, s, n, l, n + 1, j)
    <2> DEFINE w == [a \in j..l |-> a]
    <2>1. j..l = {} /\ (n + 1)..n = {}
        BY <1>1
    <2>2. w \in [j..l -> (n + 1)..n]
        BY <2>1
    <2> HIDE DEF w
    <2>3. OwnedBy(re, s, n, l, n + 1, j, w)
        BY <2>1, <2>2 DEF OwnedBy
    <2> QED BY <2>3 DEF Owned
<1>2. ASSUME Owned(re, s, n, l, n + 1, j) PROVE j > l
    <2>1. PICK w : w \in [j..l -> (n + 1)..n]
        BY <1>2 DEF Owned, OwnedBy
    <2>2. (n + 1)..n = {}
        OBVIOUS
    <2>3. ~(j <= l)
        BY <2>1, <2>2
    <2> QED BY <2>3
<1> QED BY <1>1, <1>2

\* The first piece left out, or given the first character.
LEMMA OwnedFirst ==
    ASSUME NEW re, NEW s, NEW n \in Nat, NEW l \in Nat, NEW i \in 1..n, NEW j \in 1..l + 1,
           Owned(re, s, n, l, i, j)
    PROVE  \/ re[i].least = 0 /\ Owned(re, s, n, l, i + 1, j)
           \/ /\ j <= l /\ s[j] \in re[i].of
              /\ Owned(re, s, n, l, i + 1, j + 1) \/ (re[i].more /\ Owned(re, s, n, l, i, j + 1))
<1>1. PICK w : OwnedBy(re, s, n, l, i, j, w)
    BY DEF Owned
<1>2. CASE \A a \in j..l : w[a] # i
    <2>1. re[i].least = 0
        BY <1>1, <1>2 DEF OwnedBy
    <2>2. w \in [j..l -> (i + 1)..n]
        BY <1>1, <1>2 DEF OwnedBy
    <2>3. OwnedBy(re, s, n, l, i + 1, j, w)
        BY <1>1, <2>2 DEF OwnedBy
    <2> QED BY <2>1, <2>3 DEF Owned
<1>3. CASE \E a \in j..l : w[a] = i
    <2>1. PICK a \in j..l : w[a] = i
        BY <1>3
    <2>2. j \in j..l /\ j <= l
        BY <2>1
    <2>3. w[j] = i
        BY <1>1, <2>1, <2>2 DEF OwnedBy
    <2>4. s[j] \in re[i].of
        BY <1>1, <2>2, <2>3 DEF OwnedBy
    <2> DEFINE v == [b \in (j + 1)..l |-> w[b]]
    <2>5. \A b \in (j + 1)..l : b \in j..l /\ v[b] = w[b] /\ j < b
        OBVIOUS
    <2>6. \A k \in i..n : k # i => re[k].least = 0 \/ \E b \in (j + 1)..l : w[b] = k
        <3> SUFFICES ASSUME NEW k \in i..n, k # i, re[k].least # 0
                     PROVE  \E b \in (j + 1)..l : w[b] = k
            OBVIOUS
        <3>1. PICK b \in j..l : w[b] = k
            BY <1>1 DEF OwnedBy
        <3>2. b \in (j + 1)..l
            BY <2>3, <3>1
        <3> QED BY <3>1, <3>2
    <2>7. CASE \A b \in (j + 1)..l : w[b] # i
        <3>1. v \in [(j + 1)..l -> (i + 1)..n]
            BY <1>1, <2>5, <2>7 DEF OwnedBy
        <3> HIDE DEF v
        <3>2. OwnedBy(re, s, n, l, i + 1, j + 1, v)
            <4>1. \A k \in (i + 1)..n : k \in i..n /\ k # i
                OBVIOUS
            <4>2. \A k \in (i + 1)..n : re[k].least = 0 \/ \E b \in (j + 1)..l : v[b] = k
                BY <2>5, <2>6, <4>1
            <4>3. \A b \in (j + 1)..l : s[b] \in re[v[b]].of
                BY <1>1, <2>5 DEF OwnedBy
            <4>4. \A b, c \in (j + 1)..l : b < c => v[b] <= v[c] /\ (~re[v[b]].more => v[b] # v[c])
                BY <1>1, <2>5 DEF OwnedBy
            <4> QED BY <3>1, <4>2, <4>3, <4>4 DEF OwnedBy
        <3> QED BY <2>2, <2>4, <3>2 DEF Owned
    <2>8. CASE \E b \in (j + 1)..l : w[b] = i
        <3>1. PICK b \in (j + 1)..l : w[b] = i
            BY <2>8
        <3>2. re[i].more
            BY <1>1, <2>2, <2>3, <2>5, <3>1 DEF OwnedBy
        <3>3. v \in [(j + 1)..l -> i..n]
            BY <1>1, <2>5 DEF OwnedBy
        <3> HIDE DEF v
        <3>4. OwnedBy(re, s, n, l, i, j + 1, v)
            <4>1. \A k \in i..n : re[k].least = 0 \/ \E c \in (j + 1)..l : v[c] = k
                BY <2>5, <2>6, <3>1
            <4>2. \A c \in (j + 1)..l : s[c] \in re[v[c]].of
                BY <1>1, <2>5 DEF OwnedBy
            <4>3. \A c, d \in (j + 1)..l : c < d => v[c] <= v[d] /\ (~re[v[c]].more => v[c] # v[d])
                BY <1>1, <2>5 DEF OwnedBy
            <4> QED BY <3>3, <4>1, <4>2, <4>3 DEF OwnedBy
        <3> QED BY <2>2, <2>4, <3>2, <3>4 DEF Owned
    <2> QED BY <2>7, <2>8
<1> QED BY <1>2, <1>3

\* A piece put before those that own the rest, with a character or without.
LEMMA OwnedWithout ==
    ASSUME NEW re, NEW s, NEW n \in Nat, NEW l \in Nat, NEW i \in 1..n, NEW j \in 1..l + 1,
           re[i].least = 0, Owned(re, s, n, l, i + 1, j)
    PROVE  Owned(re, s, n, l, i, j)
<1>1. PICK w : OwnedBy(re, s, n, l, i + 1, j, w)
    BY DEF Owned
<1>2. w \in [j..l -> i..n]
    BY <1>1 DEF OwnedBy
<1>3. \A k \in i..n : re[k].least = 0 \/ k \in (i + 1)..n
    OBVIOUS
<1>4. OwnedBy(re, s, n, l, i, j, w)
    BY <1>1, <1>2, <1>3 DEF OwnedBy
<1> QED BY <1>4 DEF Owned

LEMMA OwnedWith ==
    ASSUME NEW re, NEW s, NEW n \in Nat, NEW l \in Nat, NEW i \in 1..n, NEW j \in 1..l,
           s[j] \in re[i].of,
           Owned(re, s, n, l, i + 1, j + 1) \/ (re[i].more /\ Owned(re, s, n, l, i, j + 1))
    PROVE  Owned(re, s, n, l, i, j)
<1>1. PICK h, w : h \in {i, i + 1} /\ OwnedBy(re, s, n, l, h, j + 1, w) /\ (h = i => re[i].more)
    BY DEF Owned
<1> DEFINE v == [a \in j..l |-> IF a = j THEN i ELSE w[a]]
<1>2. /\ v[j] = i /\ j \in j..l
      /\ \A a \in j..l : a # j => a \in (j + 1)..l /\ v[a] = w[a] /\ w[a] \in i..n /\ w[a] \in h..n
    BY <1>1 DEF OwnedBy
<1>3. v \in [j..l -> i..n]
    BY <1>2
<1> HIDE DEF v
<1>4. \A a, b \in j..l : a < b => v[a] <= v[b] /\ (~re[v[a]].more => v[a] # v[b])
    <2> SUFFICES ASSUME NEW a \in j..l, NEW b \in j..l, a < b
                 PROVE  v[a] <= v[b] /\ (~re[v[a]].more => v[a] # v[b])
        OBVIOUS
    <2>1. b # j
        OBVIOUS
    <2>2. CASE a = j
        <3>1. v[b] = w[b] /\ w[b] \in h..n
            BY <1>2, <2>1
        <3>2. h = i + 1 => w[b] # i /\ i <= w[b]
            BY <3>1
        <3>3. h = i => i <= w[b]
            BY <3>1
        <3> QED BY <1>1, <1>2, <2>2, <3>1, <3>2, <3>3
    <2>3. CASE a # j
        <3>1. a \in (j + 1)..l /\ b \in (j + 1)..l /\ v[a] = w[a] /\ v[b] = w[b]
            BY <1>2, <2>1, <2>3
        <3>2. w[a] <= w[b] /\ (~re[w[a]].more => w[a] # w[b])
            BY <1>1, <3>1 DEF OwnedBy
        <3> QED BY <3>1, <3>2
    <2> QED BY <2>2, <2>3
<1>5. \A a \in j..l : s[a] \in re[v[a]].of
    BY <1>1, <1>2 DEF OwnedBy
<1>6. \A k \in i..n : re[k].least = 0 \/ \E a \in j..l : v[a] = k
    <2> SUFFICES ASSUME NEW k \in i..n, k # i, re[k].least # 0
                 PROVE  \E a \in j..l : v[a] = k
        BY <1>2
    <2>1. k \in h..n
        BY <1>1
    <2>2. PICK a \in (j + 1)..l : w[a] = k
        BY <1>1, <2>1 DEF OwnedBy
    <2>3. a \in j..l /\ a # j
        BY <2>2
    <2> QED BY <1>2, <2>2, <2>3
<1>7. OwnedBy(re, s, n, l, i, j, v)
    BY <1>3, <1>4, <1>5, <1>6 DEF OwnedBy
<1> QED BY <1>7 DEF Owned

--------------------------------------------------------------------------------
(* The table that Matches fills, and that there is only one.                *)

MatchStep(re, s, f, i, j) ==
    IF i > Len(re) THEN j > Len(s)
    ELSE \/ re[i].least = 0 /\ f[<<i + 1, j>>]
         \/ /\ j <= Len(s) /\ s[j] \in re[i].of
            /\ f[<<i + 1, j + 1>>] \/ (re[i].more /\ f[<<i, j + 1>>])

Cells(n, l) == (1..n + 1) \X (1..l + 1)

MatchTable(re, s, f) ==
    f = [at \in Cells(Len(re), Len(s)) |-> MatchStep(re, s, f, at[1], at[2])]

LEMMA MatchesTable ==
    ASSUME NEW re, NEW s, NEW g, MatchTable(re, s, g)
    PROVE  \E f : MatchTable(re, s, f) /\ (Matches(re, s) <=> f[<<1, 1>>])
<1> DEFINE f == CHOOSE f : MatchTable(re, s, f)
<1>1. MatchTable(re, s, f)
    OBVIOUS
<1>2. Matches(re, s) <=> f[<<1, 1>>]
    BY DEF Matches, MatchTable, MatchStep, Cells
<1> QED BY <1>1, <1>2

LEMMA MatchTableCell ==
    ASSUME NEW re, NEW s, NEW f, MatchTable(re, s, f),
           NEW i \in 1..Len(re) + 1, NEW j \in 1..Len(s) + 1
    PROVE  f[<<i, j>>] <=> MatchStep(re, s, f, i, j)
<1> DEFINE at == <<i, j>>
<1>1. at \in Cells(Len(re), Len(s)) /\ at[1] = i /\ at[2] = j
    BY DEF Cells
<1> HIDE DEF at
<1>2. f[at] <=> MatchStep(re, s, f, at[1], at[2])
    BY <1>1 DEF MatchTable
<1> QED BY <1>1, <1>2 DEF at

LEMMA StepBoolean ==
    ASSUME NEW re, NEW s, NEW f, NEW i, NEW j
    PROVE  MatchStep(re, s, f, i, j) \in BOOLEAN
<1>1. CASE i > Len(re)
    <2>1. MatchStep(re, s, f, i, j) = (j > Len(s))
        BY <1>1 DEF MatchStep
    <2> QED BY <2>1
<1>2. CASE ~(i > Len(re))
    <2> DEFINE rest == \/ re[i].least = 0 /\ f[<<i + 1, j>>]
                       \/ /\ j <= Len(s) /\ s[j] \in re[i].of
                          /\ f[<<i + 1, j + 1>>] \/ (re[i].more /\ f[<<i, j + 1>>])
    <2>1. rest \in BOOLEAN
        OBVIOUS
    <2>2. MatchStep(re, s, f, i, j) = rest
        BY <1>2 DEF MatchStep
    <2> QED BY <2>1, <2>2
<1> QED BY <1>1, <1>2

LEMMA OwnedBoolean ==
    ASSUME NEW re, NEW s, NEW n, NEW l, NEW i, NEW j
    PROVE  Owned(re, s, n, l, i, j) \in BOOLEAN
BY DEF Owned

\* Who owns what fills the table.
LEMMA OwnedTable ==
    ASSUME NEW re, NEW s, NEW n \in Nat, NEW l \in Nat, n = Len(re), l = Len(s)
    PROVE  MatchTable(re, s, [at \in Cells(n, l) |-> Owned(re, s, n, l, at[1], at[2])])
<1> DEFINE g == [at \in Cells(n, l) |-> Owned(re, s, n, l, at[1], at[2])]
<1>1. ASSUME NEW i \in 1..n + 1, NEW j \in 1..l + 1 PROVE g[<<i, j>>] <=> Owned(re, s, n, l, i, j)
    BY DEF Cells
<1>2. DOMAIN g = Cells(n, l) /\ g = [at \in Cells(n, l) |-> g[at]]
    OBVIOUS
<1> HIDE DEF g
<1>3. ASSUME NEW i \in 1..n + 1, NEW j \in 1..l + 1
      PROVE  Owned(re, s, n, l, i, j) <=> MatchStep(re, s, g, i, j)
    <2>1. CASE i > n
        <3>1. i = n + 1
            BY <2>1
        <3> QED BY <2>1, <3>1, OwnedEnd DEF MatchStep
    <2>2. CASE i <= n
        <3>1. i \in 1..n /\ i + 1 \in 1..n + 1 /\ ~(i > n)
            BY <2>2
        <3>2. g[<<i + 1, j>>] <=> Owned(re, s, n, l, i + 1, j)
            BY <1>1, <3>1
        <3>3. j <= l => /\ j \in 1..l
                        /\ g[<<i + 1, j + 1>>] <=> Owned(re, s, n, l, i + 1, j + 1)
                        /\ g[<<i, j + 1>>] <=> Owned(re, s, n, l, i, j + 1)
            <4> SUFFICES ASSUME j <= l
                         PROVE  /\ j \in 1..l
                                /\ g[<<i + 1, j + 1>>] <=> Owned(re, s, n, l, i + 1, j + 1)
                                /\ g[<<i, j + 1>>] <=> Owned(re, s, n, l, i, j + 1)
                OBVIOUS
            <4>1. j \in 1..l /\ j + 1 \in 1..l + 1
                OBVIOUS
            <4> QED BY <1>1, <3>1, <4>1
        <3>4. ASSUME Owned(re, s, n, l, i, j) PROVE MatchStep(re, s, g, i, j)
            BY <3>1, <3>2, <3>3, <3>4, OwnedFirst DEF MatchStep
        <3>5. ASSUME MatchStep(re, s, g, i, j) PROVE Owned(re, s, n, l, i, j)
            BY <3>1, <3>2, <3>3, <3>5, OwnedWithout, OwnedWith DEF MatchStep
        <3> QED BY <3>4, <3>5
    <2> QED BY <2>1, <2>2
<1>4. g = [at \in Cells(n, l) |-> MatchStep(re, s, g, at[1], at[2])]
    <2>1. ASSUME NEW at \in Cells(n, l)
          PROVE  Owned(re, s, n, l, at[1], at[2]) <=> MatchStep(re, s, g, at[1], at[2])
        BY <1>3 DEF Cells
    <2>2. g = [at \in Cells(n, l) |-> Owned(re, s, n, l, at[1], at[2])]
        BY DEF g
    <2>3. \A at \in Cells(n, l) : Owned(re, s, n, l, at[1], at[2]) = MatchStep(re, s, g, at[1], at[2])
        BY <2>1, StepBoolean, OwnedBoolean
    <2> QED BY <2>2, <2>3, Zenon
<1> QED BY <1>4 DEF MatchTable, g

\* Two tables for the same expression and text do not differ in any cell: of the
\* cells they would differ in, one is the last.
LEMMA OneTable ==
    ASSUME NEW re, NEW s, NEW n \in Nat, NEW l \in Nat, n = Len(re), l = Len(s),
           NEW f, MatchTable(re, s, f), NEW g, MatchTable(re, s, g),
           NEW i \in 1..n + 1, NEW j \in 1..l + 1
    PROVE  f[<<i, j>>] <=> g[<<i, j>>]
<1> DEFINE Differ(a, b) == a \in 1..n + 1 /\ b \in 1..l + 1 /\ ~(f[<<a, b>>] <=> g[<<a, b>>])
           Left == {k \in Nat : \E a \in 1..n + 1, b \in 1..l + 1 : Differ(a, b) /\ k = n + l + 2 - a - b}
<1> SUFFICES ASSUME Differ(i, j) PROVE FALSE
    OBVIOUS
<1> HIDE DEF Differ
<1>1. n + l + 2 - i - j \in Left
    OBVIOUS
<1>2. Left # {} /\ Left \in SUBSET Nat
    BY <1>1
<1>3. PICK k \in Left : \A m \in Left : k <= m
    BY <1>2, LeastNat
<1>4. PICK a \in 1..n + 1, b \in 1..l + 1 : Differ(a, b) /\ k = n + l + 2 - a - b
    OBVIOUS
<1>5. ASSUME NEW c \in 1..n + 1, NEW d \in 1..l + 1, c + d > a + b PROVE f[<<c, d>>] <=> g[<<c, d>>]
    <2>1. k = n + l + 2 - a - b
        BY <1>4
    <2>2. n + l + 2 - c - d \in Nat
        OBVIOUS
    <2>3. ~(k <= n + l + 2 - c - d)
        BY <1>5, <2>1
    <2>4. n + l + 2 - c - d \notin Left
        <3> HIDE DEF Left
        <3> QED BY <1>3, <2>3
    <2> QED BY <2>2, <2>4 DEF Differ
<1> HIDE DEF Left
<1> USE DEF Differ
<1>6. (f[<<a, b>>] <=> MatchStep(re, s, f, a, b)) /\ (g[<<a, b>>] <=> MatchStep(re, s, g, a, b))
    BY MatchTableCell
<1>7. MatchStep(re, s, f, a, b) <=> MatchStep(re, s, g, a, b)
    <2>1. CASE a > n
        BY <2>1 DEF MatchStep
    <2>2. CASE a <= n
        <3>1. a + 1 \in 1..n + 1 /\ ~(a > n)
            BY <2>2
        <3>2. f[<<a + 1, b>>] <=> g[<<a + 1, b>>]
            BY <1>5, <3>1
        <3>3. b <= l => /\ b + 1 \in 1..l + 1 /\ a + 1 + (b + 1) > a + b /\ a + (b + 1) > a + b
            OBVIOUS
        <3>4. b <= l => /\ f[<<a + 1, b + 1>>] <=> g[<<a + 1, b + 1>>]
                        /\ f[<<a, b + 1>>] <=> g[<<a, b + 1>>]
            BY <1>5, <3>1, <3>3
        <3> QED BY <3>1, <3>2, <3>3, <3>4 DEF MatchStep
    <2> QED BY <2>1, <2>2
<1> QED BY <1>4, <1>6, <1>7

\* Matches says whether all characters of s can be given to the pieces of re.
LEMMA MatchesOwned ==
    ASSUME NEW re, NEW s, NEW n \in Nat, NEW l \in Nat, n = Len(re), l = Len(s)
    PROVE  Matches(re, s) <=> Owned(re, s, n, l, 1, 1)
<1> DEFINE g == [at \in Cells(n, l) |-> Owned(re, s, n, l, at[1], at[2])]
<1>1. MatchTable(re, s, g)
    BY OwnedTable
<1>2. g[<<1, 1>>] <=> Owned(re, s, n, l, 1, 1)
    BY DEF Cells
<1> HIDE DEF g
<1>3. PICK f : MatchTable(re, s, f) /\ (Matches(re, s) <=> f[<<1, 1>>])
    BY <1>1, MatchesTable
<1>4. 1 \in 1..n + 1 /\ 1 \in 1..l + 1
    OBVIOUS
<1>5. f[<<1, 1>>] <=> g[<<1, 1>>]
    BY <1>1, <1>3, <1>4, OneTable
<1> QED BY <1>2, <1>3, <1>5

--------------------------------------------------------------------------------
(* What AtomToRegex writes: a piece for each element of the pattern.        *)

\* The piece written for what starts at i, and where the pattern goes on.
PieceAt(p, v, n, i) ==
    IF p[i] # "*" THEN IF p[i] = "?" THEN v.single ELSE Literal(p[i])
    ELSE IF i < n /\ p[i + 1] = "*" THEN v.across ELSE v.within

Beyond(p, n, i) == IF p[i] = "*" /\ i < n /\ p[i + 1] = "*" THEN i + 2 ELSE i + 1

AtomStep(p, v, f, i) ==
    IF i > Len(p) THEN <<>> ELSE <<PieceAt(p, v, Len(p), i)>> \o f[Beyond(p, Len(p), i)]

AtomTable(p, v, f) == f = [i \in 1..Len(p) + 1 |-> AtomStep(p, v, f, i)]

LEMMA AtomTabled ==
    ASSUME NEW p, NEW v, NEW g, AtomTable(p, v, g)
    PROVE  \E f : AtomTable(p, v, f) /\ AtomToRegex(p, v) = f[1]
<1> DEFINE Text(f) == [i \in 1..Len(p) + 1 |->
                          IF i > Len(p) THEN <<>>
                          ELSE IF p[i] # "*"
                          THEN <<IF p[i] = "?" THEN v.single ELSE Literal(p[i])>> \o f[i + 1]
                          ELSE IF i < Len(p) /\ p[i + 1] = "*"
                          THEN <<v.across>> \o f[i + 2]
                          ELSE <<v.within>> \o f[i + 1]]
<1>1. ASSUME NEW f PROVE AtomTable(p, v, f) <=> f = Text(f)
    <2>1. ASSUME NEW i \in 1..Len(p) + 1 PROVE Text(f)[i] = AtomStep(p, v, f, i)
        BY DEF AtomStep, PieceAt, Beyond
    <2>2. Text(f) = [i \in 1..Len(p) + 1 |-> AtomStep(p, v, f, i)]
        BY <2>1
    <2> QED BY <2>2 DEF AtomTable
<1>2. AtomToRegex(p, v) = (CHOOSE f : f = Text(f))[1]
    BY DEF AtomToRegex
<1> HIDE DEF Text
<1>3. (CHOOSE f : f = Text(f)) = Text(CHOOSE f : f = Text(f))
    BY <1>1
<1> QED BY <1>1, <1>2, <1>3

\* The table is filled from the end of the pattern on, k cells at a time.
Filled(p, v, k, g) ==
    /\ DOMAIN g = (Len(p) + 1 - k)..(Len(p) + 1)
    /\ \A i \in DOMAIN g : g[i] = AtomStep(p, v, g, i)

LEMMA FilledNext ==
    ASSUME NEW p, NEW v, NEW n \in Nat, n = Len(p), NEW k \in Nat, k < n, NEW g, Filled(p, v, k, g)
    PROVE  \E h : Filled(p, v, k + 1, h)
<1> DEFINE i == n - k
           h == [a \in i..n + 1 |-> IF a = i THEN AtomStep(p, v, g, i) ELSE g[a]]
<1>1. DOMAIN g = (i + 1)..(n + 1) /\ i \in 1..n /\ i = n + 1 - (k + 1)
    BY DEF Filled
<1>2. DOMAIN h = i..n + 1 /\ h[i] = AtomStep(p, v, g, i) /\ \A a \in (i + 1)..(n + 1) : h[a] = g[a]
    BY <1>1
<1> HIDE DEF h
<1>3. ASSUME NEW a \in i..n + 1 PROVE AtomStep(p, v, h, a) = AtomStep(p, v, g, a)
    <2>1. CASE a > n
        BY <2>1 DEF AtomStep
    <2>2. CASE a <= n
        <3>1. Beyond(p, n, a) \in (i + 1)..(n + 1)
            BY <1>1, <2>2 DEF Beyond
        <3> QED BY <1>2, <3>1 DEF AtomStep
    <2> QED BY <1>1, <2>1, <2>2
<1>4. ASSUME NEW a \in i..n + 1 PROVE h[a] = AtomStep(p, v, h, a)
    <2>1. CASE a = i
        BY <1>2, <1>3, <2>1
    <2>2. CASE a # i
        <3>1. a \in (i + 1)..(n + 1)
            BY <1>1, <2>2
        <3>2. g[a] = AtomStep(p, v, g, a)
            BY <1>1, <3>1 DEF Filled
        <3> QED BY <1>2, <1>3, <3>1, <3>2
    <2> QED BY <2>1, <2>2
<1>5. Filled(p, v, k + 1, h)
    BY <1>1, <1>2, <1>4 DEF Filled
<1> QED BY <1>5

LEMMA AtomTableExists ==
    ASSUME NEW p, NEW v, NEW n \in Nat, n = Len(p)
    PROVE  \E g : AtomTable(p, v, g)
<1> DEFINE Missing == {k \in 0..n : ~\E g : Filled(p, v, k, g)}
<1>1. \E g : Filled(p, v, 0, g)
    <2> DEFINE g == [i \in (n + 1)..(n + 1) |-> <<>>]
    <2>1. DOMAIN g = (n + 1 - 0)..(n + 1) /\ \A i \in DOMAIN g : i > n /\ g[i] = <<>>
        OBVIOUS
    <2> HIDE DEF g
    <2>2. Filled(p, v, 0, g)
        BY <2>1 DEF Filled, AtomStep
    <2> QED BY <2>2
<1>2. Missing = {}
    <2> SUFFICES ASSUME Missing # {} PROVE FALSE
        OBVIOUS
    <2>1. Missing \in SUBSET Nat
        OBVIOUS
    <2> HIDE DEF Missing
    <2>2. PICK k \in Missing : \A m \in Missing : k <= m
        BY <2>1, LeastNat
    <2> USE DEF Missing
    <2>3. k \in Nat /\ k # 0 /\ k <= n
        BY <1>1
    <2>4. k - 1 \in Nat /\ k - 1 < n /\ k - 1 \notin Missing /\ k - 1 + 1 = k
        <3> HIDE DEF Missing
        <3> QED BY <2>2, <2>3
    <2>5. PICK g : Filled(p, v, k - 1, g)
        BY <2>3, <2>4
    <2>6. \E h : Filled(p, v, k - 1 + 1, h)
        BY <2>4, <2>5, FilledNext
    <2> QED BY <2>4, <2>6
<1>3. n \in 0..n /\ n + 1 - n = 1
    OBVIOUS
<1>4. PICK g : Filled(p, v, n, g)
    BY <1>2, <1>3
<1>5. DOMAIN g = 1..n + 1 /\ \A i \in 1..n + 1 : g[i] = AtomStep(p, v, g, i)
    BY <1>3, <1>4 DEF Filled
<1> DEFINE h == [i \in 1..n + 1 |-> AtomStep(p, v, g, i)]
<1>6. ASSUME NEW i \in 1..n + 1 PROVE h[i] = AtomStep(p, v, h, i)
    <2>1. \A a \in 1..n + 1 : h[a] = g[a]
        BY <1>5
    <2>2. i <= n => Beyond(p, n, i) \in 1..n + 1
        BY DEF Beyond
    <2>3. h[i] = AtomStep(p, v, g, i)
        OBVIOUS
    <2> HIDE DEF h
    <2> QED BY <2>1, <2>2, <2>3 DEF AtomStep
<1>7. h = [i \in 1..n + 1 |-> h[i]]
    OBVIOUS
<1> HIDE DEF h
<1>8. h = [i \in 1..n + 1 |-> AtomStep(p, v, h, i)]
    BY <1>6, <1>7
<1> QED BY <1>8 DEF AtomTable

\* Where an element of the pattern starts, or the pattern ends.
Starts(p, n, i) == i = n + 1 \/ p[i] # "*" \/ i = 1 \/ p[i - 1] # "*"

PiecesOf(p, v, n) == {PieceAt(p, v, n, i) : i \in 1..n}

\* The pieces q are written for the places e, from i on: for all that an element
\* starts at, if i is one and there is no `***`.
SpeltBy(p, v, n, q, m, i, e) ==
    /\ q \in Seq(PiecesOf(p, v, n)) /\ m \in Nat /\ m = Len(q)
    /\ e \in [1..m -> i..n]
    /\ \A a, b \in 1..m : a < b => e[a] < e[b]
    /\ \A a \in 1..m : q[a] = PieceAt(p, v, n, e[a])
    /\ NoTripleStar(p) /\ Starts(p, n, i) => \A b \in i..n : Starts(p, n, b) <=> \E a \in 1..m : e[a] = b

LEMMA StartsBeyond ==
    ASSUME NEW p, NEW n \in Nat, n = Len(p), NEW i \in 1..n, NoTripleStar(p), Starts(p, n, i)
    PROVE  /\ Starts(p, n, Beyond(p, n, i))
           /\ \A b \in i..n : b # i /\ Starts(p, n, b) => b >= Beyond(p, n, i)
<1>1. CASE p[i] = "*" /\ i < n /\ p[i + 1] = "*"
    <2>1. Beyond(p, n, i) = i + 2
        BY <1>1 DEF Beyond
    <2>2. ~Starts(p, n, i + 1)
        BY <1>1 DEF Starts
    <2>3. i + 2 <= n => p[i + 2] # "*"
        BY <1>1 DEF NoTripleStar
    <2>4. Starts(p, n, i + 2)
        BY <1>1, <2>3 DEF Starts
    <2>5. \A b \in i..n : b = i \/ b = i + 1 \/ b >= i + 2
        OBVIOUS
    <2> QED BY <2>1, <2>2, <2>4, <2>5
<1>2. CASE ~(p[i] = "*" /\ i < n /\ p[i + 1] = "*")
    <2>1. Beyond(p, n, i) = i + 1
        BY <1>2 DEF Beyond
    <2>2. Starts(p, n, i + 1)
        BY <1>2 DEF Starts
    <2> QED BY <2>1, <2>2
<1> QED BY <1>1, <1>2

LEMMA SpeltNext ==
    ASSUME NEW p, NEW v, NEW n \in Nat, n = Len(p), NEW i \in 1..n,
           NEW r, NEW m, NEW e, SpeltBy(p, v, n, r, m, Beyond(p, n, i), e)
    PROVE  \E d : SpeltBy(p, v, n, <<PieceAt(p, v, n, i)>> \o r, m + 1, i, d)
<1> DEFINE o == Beyond(p, n, i)
           x == PieceAt(p, v, n, i)
           q == <<x>> \o r
           d == [a \in 1..m + 1 |-> IF a = 1 THEN i ELSE e[a - 1]]
<1>0. m \in Nat
    BY DEF SpeltBy
<1> USE <1>0
<1>1. o \in (i + 1)..(n + 1) /\ x \in PiecesOf(p, v, n)
    BY DEF Beyond, PiecesOf
<1>2. r \in Seq(PiecesOf(p, v, n)) /\ m \in Nat /\ Len(r) = m /\ e \in [1..m -> o..n]
    BY DEF SpeltBy
<1> HIDE DEF x, o
<1>3. q \in Seq(PiecesOf(p, v, n)) /\ Len(q) = m + 1 /\ q[1] = x /\ \A a \in 2..m + 1 : q[a] = r[a - 1]
    BY <1>1, <1>2
<1>4. d \in [1..m + 1 -> i..n] /\ d[1] = i /\ \A a \in 2..m + 1 : a - 1 \in 1..m /\ d[a] = e[a - 1]
    BY <1>1, <1>2
<1> HIDE DEF d, q
<1>5. \A a, b \in 1..m + 1 : a < b => d[a] < d[b]
    <2> SUFFICES ASSUME NEW a \in 1..m + 1, NEW b \in 1..m + 1, a < b PROVE d[a] < d[b]
        OBVIOUS
    <2>1. b \in 2..m + 1 /\ b - 1 \in 1..m
        OBVIOUS
    <2>2. CASE a = 1
        BY <1>1, <1>2, <1>4, <2>1, <2>2
    <2>3. CASE a # 1
        <3>1. a \in 2..m + 1 /\ a - 1 \in 1..m /\ a - 1 < b - 1
            BY <2>3
        <3>2. e[a - 1] < e[b - 1]
            BY <2>1, <3>1 DEF SpeltBy
        <3> QED BY <1>4, <2>1, <3>1, <3>2
    <2> QED BY <2>2, <2>3
<1>6. \A a \in 1..m + 1 : q[a] = PieceAt(p, v, n, d[a])
    <2> SUFFICES ASSUME NEW a \in 1..m + 1 PROVE q[a] = PieceAt(p, v, n, d[a])
        OBVIOUS
    <2>1. CASE a = 1
        BY <1>3, <1>4, <2>1 DEF x
    <2>2. CASE a # 1
        <3>1. a \in 2..m + 1 /\ a - 1 \in 1..m
            BY <2>2
        <3>2. r[a - 1] = PieceAt(p, v, n, e[a - 1])
            BY <3>1 DEF SpeltBy
        <3> QED BY <1>3, <1>4, <3>1, <3>2
    <2> QED BY <2>1, <2>2
<1>7. ASSUME NoTripleStar(p), Starts(p, n, i), NEW b \in i..n
      PROVE  Starts(p, n, b) <=> \E a \in 1..m + 1 : d[a] = b
    <2>1. CASE b = i
        <3>1. 1 \in 1..m + 1
            OBVIOUS
        <3> QED BY <1>4, <1>7, <2>1, <3>1
    <2>2. CASE b # i /\ b < o
        <3>1. ~Starts(p, n, b)
            BY <1>1, <1>7, <2>2, StartsBeyond DEF o
        <3>2. ASSUME NEW a \in 1..m + 1 PROVE d[a] # b
            <4>1. CASE a = 1
                BY <1>4, <2>2, <4>1
            <4>2. CASE a # 1
                <5>1. a \in 2..m + 1 /\ e[a - 1] \in o..n
                    BY <1>2, <4>2
                <5> QED BY <1>1, <1>4, <2>2, <5>1
            <4> QED BY <4>1, <4>2
        <3> QED BY <3>1, <3>2
    <2>3. CASE b >= o
        <3>1. b \in o..n
            BY <1>1, <2>3
        <3>2. Starts(p, n, b) <=> \E a \in 1..m : e[a] = b
            BY <1>7, <3>1, StartsBeyond DEF SpeltBy, o
        <3>3. ASSUME NEW a \in 1..m, e[a] = b PROVE \E c \in 1..m + 1 : d[c] = b
            <4>1. a + 1 \in 2..m + 1 /\ a + 1 \in 1..m + 1 /\ a + 1 - 1 = a
                OBVIOUS
            <4>2. d[a + 1] = b
                BY <1>4, <3>3, <4>1
            <4> QED BY <4>1, <4>2
        <3>4. ASSUME NEW a \in 1..m + 1, d[a] = b PROVE \E c \in 1..m : e[c] = b
            <4>1. a # 1
                BY <1>1, <1>4, <2>3, <3>4
            <4>2. a \in 2..m + 1 /\ a - 1 \in 1..m
                BY <4>1
            <4> QED BY <1>4, <3>4, <4>2
        <3> QED BY <3>2, <3>3, <3>4
    <2> QED BY <1>1, <2>1, <2>2, <2>3
<1>8. SpeltBy(p, v, n, q, m + 1, i, d)
    BY <1>3, <1>4, <1>5, <1>6, <1>7 DEF SpeltBy
<1> QED BY <1>8 DEF q, x

\* The table f, cell by cell.
AtomRows(p, v, n, f) ==
    f[n + 1] = <<>> /\ \A i \in 1..n : f[i] = <<PieceAt(p, v, n, i)>> \o f[Beyond(p, n, i)]

LEMMA AtomCells ==
    ASSUME NEW p, NEW v, NEW n \in Nat, n = Len(p), NEW f, AtomTable(p, v, f)
    PROVE  AtomRows(p, v, n, f)
<1>1. n + 1 \in 1..n + 1 /\ n + 1 > n
    OBVIOUS
<1>2. f[n + 1] = <<>>
    BY <1>1 DEF AtomTable, AtomStep
<1>3. ASSUME NEW i \in 1..n PROVE f[i] = <<PieceAt(p, v, n, i)>> \o f[Beyond(p, n, i)]
    <2>1. i \in 1..n + 1 /\ ~(i > n)
        OBVIOUS
    <2> QED BY <2>1 DEF AtomTable, AtomStep
<1> QED BY <1>2, <1>3 DEF AtomRows

\* AtomToRegex writes a piece for each element of a pattern, in order.
LEMMA AtomToRegexSpelt ==
    ASSUME NEW p, NEW v, NEW n \in Nat, n = Len(p)
    PROVE  \E m, e : SpeltBy(p, v, n, AtomToRegex(p, v), m, 1, e)
<1>1. PICK f : AtomToRegex(p, v) = f[1] /\ AtomRows(p, v, n, f)
    <2>1. PICK g : AtomTable(p, v, g)
        BY AtomTableExists
    <2>2. PICK f : AtomTable(p, v, f) /\ AtomToRegex(p, v) = f[1]
        BY <2>1, AtomTabled
    <2> QED BY <2>2, AtomCells
<1> DEFINE Left == {k \in 0..n : ~\E m, e : SpeltBy(p, v, n, f[n + 1 - k], m, n + 1 - k, e)}
<1>2. \E m, e : SpeltBy(p, v, n, f[n + 1 - 0], m, n + 1 - 0, e)
    <2> DEFINE e == [a \in 1..0 |-> a]
    <2>1. f[n + 1] = <<>> /\ <<>> \in Seq(PiecesOf(p, v, n)) /\ Len(<<>>) = 0 /\ n + 1 - 0 = n + 1
        BY <1>1 DEF AtomRows
    <2>2. 1..0 = {} /\ (n + 1)..n = {} /\ e \in [1..0 -> (n + 1)..n]
        OBVIOUS
    <2> HIDE DEF e
    <2>3. SpeltBy(p, v, n, f[n + 1], 0, n + 1, e)
        BY <2>1, <2>2 DEF SpeltBy
    <2> QED BY <2>1, <2>3
<1>3. Left = {}
    <2> SUFFICES ASSUME Left # {} PROVE FALSE
        OBVIOUS
    <2>1. Left \in SUBSET Nat
        OBVIOUS
    <2> HIDE DEF Left
    <2>2. PICK k \in Left : \A m \in Left : k <= m
        BY <2>1, LeastNat
    <2>3. k \in 0..n /\ ~\E m, e : SpeltBy(p, v, n, f[n + 1 - k], m, n + 1 - k, e)
        BY DEF Left
    <2>4. k # 0
        BY <1>2, <2>3
    <2> DEFINE i == n + 1 - k
               o == Beyond(p, n, i)
    <2>5. i \in 1..n /\ o \in (i + 1)..(n + 1)
        BY <2>3, <2>4 DEF Beyond
    <2>6. n + 1 - o \in 0..n /\ n + 1 - o < k /\ n + 1 - (n + 1 - o) = o
        BY <2>3, <2>5
    <2>7. n + 1 - o \notin Left
        BY <2>1, <2>2, <2>6
    <2>8. \E m, e : SpeltBy(p, v, n, f[o], m, o, e)
        BY <2>6, <2>7 DEF Left
    <2> HIDE DEF i
    <2>9. PICK m, e : SpeltBy(p, v, n, f[o], m, o, e)
        BY <2>8
    <2>10. \E d : SpeltBy(p, v, n, <<PieceAt(p, v, n, i)>> \o f[o], m + 1, i, d)
        BY <2>5, <2>9, SpeltNext
    <2>11. f[i] = <<PieceAt(p, v, n, i)>> \o f[o]
        BY <1>1, <2>5 DEF AtomRows
    <2> QED BY <2>3, <2>10, <2>11 DEF i
<1>4. n \in 0..n /\ n + 1 - n = 1
    OBVIOUS
<1> QED BY <1>1, <1>3, <1>4

--------------------------------------------------------------------------------
(* Owners among the pieces and owners among the elements.                   *)

\* The pieces of re stand for the elements of p, in order, and take of s what
\* those take.
StandsFor(re, m, e, p, n, s, l, sep, least) ==
    /\ e \in [1..m -> 1..n] /\ \A a, b \in 1..m : a < b => e[a] < e[b]
    /\ Elements(p) \subseteq 1..n /\ \A i \in 1..n : i \in Elements(p) <=> \E a \in 1..m : e[a] = i
    /\ \A a \in 1..m :
          /\ re[a].more <=> p[e[a]] = "*"
          /\ re[a].least = 0 <=> Wide(p, e[a]) /\ least = 0
          /\ \A j \in 1..l : s[j] \in re[a].of <=> Takes(p, sep, e[a], s[j])

LEMMA OwnedFits ==
    ASSUME NEW re, NEW m \in Nat, NEW e, NEW p, NEW n \in Nat, NEW s, NEW l \in Nat, NEW sep, NEW least,
           DOMAIN s = 1..l, StandsFor(re, m, e, p, n, s, l, sep, least), Owned(re, s, m, l, 1, 1)
    PROVE  Fits(p, s, sep, least)
<1>1. PICK w : OwnedBy(re, s, m, l, 1, 1, w)
    BY DEF Owned
<1> DEFINE owner == [j \in 1..l |-> e[w[j]]]
<1>2. w \in [1..l -> 1..m] /\ e \in [1..m -> 1..n]
    BY <1>1 DEF OwnedBy, StandsFor
<1>3. owner \in [1..l -> Elements(p)] /\ \A j \in 1..l : owner[j] = e[w[j]]
    BY <1>2 DEF StandsFor
<1> HIDE DEF owner
<1>4. \A j, k \in 1..l : j < k => owner[j] <= owner[k] /\ (p[owner[j]] # "*" => owner[j] # owner[k])
    <2> SUFFICES ASSUME NEW j \in 1..l, NEW k \in 1..l, j < k
                 PROVE  owner[j] <= owner[k] /\ (p[owner[j]] # "*" => owner[j] # owner[k])
        OBVIOUS
    <2>1. w[j] \in 1..m /\ w[k] \in 1..m /\ w[j] <= w[k] /\ (~re[w[j]].more => w[j] # w[k])
        BY <1>1, <1>2 DEF OwnedBy
    <2>2. re[w[j]].more <=> p[e[w[j]]] = "*"
        BY <2>1 DEF StandsFor
    <2>3. w[j] < w[k] => e[w[j]] < e[w[k]]
        BY <2>1 DEF StandsFor
    <2>4. e[w[j]] \in Int /\ e[w[k]] \in Int
        BY <1>2, <2>1
    <2> QED BY <1>3, <2>1, <2>2, <2>3, <2>4
<1>5. \A j \in 1..l : Takes(p, sep, owner[j], s[j])
    <2> SUFFICES ASSUME NEW j \in 1..l PROVE Takes(p, sep, e[w[j]], s[j])
        BY <1>3
    <2>1. w[j] \in 1..m /\ s[j] \in re[w[j]].of
        BY <1>1, <1>2 DEF OwnedBy
    <2> QED BY <2>1 DEF StandsFor
<1>6. \A i \in Elements(p) : (Wide(p, i) /\ least = 0) \/ \E j \in 1..l : owner[j] = i
    <2> SUFFICES ASSUME NEW i \in Elements(p), ~(Wide(p, i) /\ least = 0)
                 PROVE  \E j \in 1..l : owner[j] = i
        OBVIOUS
    <2>1. PICK a \in 1..m : e[a] = i
        BY DEF StandsFor
    <2>2. re[a].least # 0
        BY <2>1 DEF StandsFor
    <2>3. PICK j \in 1..l : w[j] = a
        BY <1>1, <2>2 DEF OwnedBy
    <2> QED BY <1>3, <2>1, <2>3
<1>7. owner \in [DOMAIN s -> Elements(p)]
    BY <1>3
<1> QED BY <1>4, <1>5, <1>6, <1>7, Zenon DEF Fits

LEMMA FitsOwned ==
    ASSUME NEW re, NEW m \in Nat, NEW e, NEW p, NEW n \in Nat, NEW s, NEW l \in Nat, NEW sep, NEW least,
           DOMAIN s = 1..l, StandsFor(re, m, e, p, n, s, l, sep, least), Fits(p, s, sep, least)
    PROVE  Owned(re, s, m, l, 1, 1)
<1>1. PICK owner \in [1..l -> Elements(p)] :
        /\ \A j, k \in 1..l : j < k => owner[j] <= owner[k] /\ (p[owner[j]] # "*" => owner[j] # owner[k])
        /\ \A j \in 1..l : Takes(p, sep, owner[j], s[j])
        /\ \A i \in Elements(p) : (Wide(p, i) /\ least = 0) \/ \E j \in 1..l : owner[j] = i
    BY DEF Fits
<1> DEFINE w == [j \in 1..l |-> CHOOSE a \in 1..m : e[a] = owner[j]]
<1>2. ASSUME NEW j \in 1..l PROVE w[j] \in 1..m /\ e[w[j]] = owner[j]
    <2>1. \E a \in 1..m : e[a] = owner[j]
        BY DEF StandsFor
    <2> QED BY <2>1
<1>3. w \in [1..l -> 1..m]
    BY <1>2
<1> HIDE DEF w
<1>4. e \in [1..m -> 1..n] /\ \A a, b \in 1..m : a < b => e[a] < e[b]
    BY DEF StandsFor
<1>5. \A j, k \in 1..l : j < k => w[j] <= w[k] /\ (~re[w[j]].more => w[j] # w[k])
    <2> SUFFICES ASSUME NEW j \in 1..l, NEW k \in 1..l, j < k
                 PROVE  w[j] <= w[k] /\ (~re[w[j]].more => w[j] # w[k])
        OBVIOUS
    <2>1. w[j] \in 1..m /\ w[k] \in 1..m /\ e[w[j]] = owner[j] /\ e[w[k]] = owner[k]
        BY <1>2
    <2>2. owner[j] <= owner[k] /\ (p[owner[j]] # "*" => owner[j] # owner[k])
        BY <1>1
    <2>3. re[w[j]].more <=> p[e[w[j]]] = "*"
        BY <2>1 DEF StandsFor
    <2>4. w[k] < w[j] => e[w[k]] < e[w[j]]
        BY <1>4, <2>1
    <2>5. e[w[j]] \in Int /\ e[w[k]] \in Int
        BY <1>4, <2>1
    <2>6. ~(w[k] < w[j])
        BY <2>1, <2>2, <2>4, <2>5
    <2> QED BY <2>1, <2>2, <2>3, <2>6
<1>6. \A j \in 1..l : s[j] \in re[w[j]].of
    <2> SUFFICES ASSUME NEW j \in 1..l PROVE s[j] \in re[w[j]].of
        OBVIOUS
    <2>1. w[j] \in 1..m /\ Takes(p, sep, e[w[j]], s[j])
        BY <1>1, <1>2
    <2> QED BY <2>1 DEF StandsFor
<1>7. \A a \in 1..m : re[a].least = 0 \/ \E j \in 1..l : w[j] = a
    <2> SUFFICES ASSUME NEW a \in 1..m, re[a].least # 0 PROVE \E j \in 1..l : w[j] = a
        OBVIOUS
    <2>1. e[a] \in Elements(p) /\ ~(Wide(p, e[a]) /\ least = 0)
        BY <1>4 DEF StandsFor
    <2>2. PICK j \in 1..l : owner[j] = e[a]
        BY <1>1, <2>1
    <2>3. w[j] \in 1..m /\ e[w[j]] = e[a]
        BY <1>2, <2>2
    <2>4. ~(w[j] < a) /\ ~(a < w[j])
        <3>1. e[a] \in Int
            BY <1>4
        <3> QED BY <1>4, <2>3, <3>1
    <2> QED BY <2>3, <2>4
<1>8. OwnedBy(re, s, m, l, 1, 1, w)
    BY <1>3, <1>5, <1>6, <1>7 DEF OwnedBy
<1> QED BY <1>8 DEF Owned

--------------------------------------------------------------------------------
(* A pattern's expression, with and without regard to case.                 *)

LEMMA LowerKeeps ==
    /\ \A c \in Chars : LowerChar(c) \in Chars
    /\ \A c \in Letters : LowerChar(c) \in Letters
    /\ \A c \in {".", "/", "*", "?"} : LowerChar(c) = c /\ c \notin Letters
BY LettersOK DEF LowerChar, Chars

\* The piece of an element, field by field.
PieceOf(x, p, sep, least, i) ==
    /\ DOMAIN x = {"of", "least", "more"}
    /\ x.more <=> p[i] = "*"
    /\ x.least = 0 <=> Wide(p, i) /\ least = 0
    /\ x.of = (IF p[i] \notin {"*", "?"} THEN {p[i]} ELSE IF Wide(p, i) THEN Chars ELSE Chars \ {sep})

LEMMA PieceStands ==
    ASSUME NEW p \in Patterns, NEW n \in Nat, n = Len(p), NEW i \in 1..n, NEW sep, NEW least
    PROVE  PieceOf(PieceAt(p, Vocabulary(sep, least), n, i), p, sep, least, i)
<1>1. CASE p[i] = "*" /\ i < n /\ p[i + 1] = "*"
    BY <1>1 DEF PieceOf, PieceAt, Vocabulary, Piece, Wide
<1>2. CASE p[i] = "*" /\ ~(i < n /\ p[i + 1] = "*")
    <2> DEFINE x == Piece(Chars \ {sep}, 1, TRUE)
    <2>1. PieceAt(p, Vocabulary(sep, least), n, i) = x /\ ~Wide(p, i)
        BY <1>2 DEF PieceAt, Vocabulary, Wide
    <2>2. x.more /\ x.least = 1 /\ x.of = Chars \ {sep} /\ DOMAIN x = {"of", "least", "more"}
        BY DEF Piece
    <2> HIDE DEF x
    <2> QED BY <1>2, <2>1, <2>2 DEF PieceOf
<1>3. CASE p[i] = "?"
    BY <1>3 DEF PieceOf, PieceAt, Vocabulary, Piece, Wide
<1>4. CASE p[i] \notin {"*", "?"}
    BY <1>4 DEF PieceOf, PieceAt, Literal, Piece, Wide
<1> QED BY <1>1, <1>2, <1>3, <1>4

LEMMA ElementsStart ==
    ASSUME NEW p \in Patterns, NEW n \in Nat, n = Len(p)
    PROVE  Elements(p) \subseteq 1..n /\ \A i \in 1..n : i \in Elements(p) <=> Starts(p, n, i)
BY DEF Elements, Starts, Patterns

LEMMA AtomStandsFor ==
    ASSUME NEW p \in Patterns, NoTripleStar(p), NEW n \in Nat, n = Len(p), NEW sep, NEW least,
           NEW s \in Texts, NEW l \in Nat, l = Len(s),
           NEW m \in Nat, NEW e, NEW re, SpeltBy(p, Vocabulary(sep, least), n, re, m, 1, e)
    PROVE  StandsFor(re, m, e, p, n, s, l, sep, least)
<1>1. e \in [1..m -> 1..n] /\ \A a, b \in 1..m : a < b => e[a] < e[b]
    BY DEF SpeltBy
<1>2. \A i \in 1..n : i \in Elements(p) <=> \E a \in 1..m : e[a] = i
    <2>1. Starts(p, n, 1)
        BY DEF Starts
    <2>2. \A i \in 1..n : Starts(p, n, i) <=> \E a \in 1..m : e[a] = i
        BY <2>1 DEF SpeltBy
    <2> QED BY <2>2, ElementsStart
<1>3. ASSUME NEW a \in 1..m
      PROVE  /\ re[a].more <=> p[e[a]] = "*"
             /\ re[a].least = 0 <=> Wide(p, e[a]) /\ least = 0
             /\ \A j \in 1..l : s[j] \in re[a].of <=> Takes(p, sep, e[a], s[j])
    <2> DEFINE i == e[a]
               x == PieceAt(p, Vocabulary(sep, least), n, i)
    <2>1. i \in 1..n /\ re[a] = x
        BY <1>1 DEF SpeltBy
    <2> HIDE DEF i
    <2>2. PieceOf(x, p, sep, least, i)
        BY <2>1, PieceStands
    <2> HIDE DEF x
    <2>3. ASSUME NEW j \in 1..l PROVE s[j] \in x.of <=> Takes(p, sep, i, s[j])
        <3>1. s[j] \in Chars
            BY DEF Texts
        <3> QED BY <2>2, <3>1 DEF Takes, PieceOf
    <2> QED BY <2>1, <2>2, <2>3 DEF i, PieceOf
<1> QED BY <1>1, <1>2, <1>3, ElementsStart DEF StandsFor

\* What the expression of a pattern matches is what the README says of the
\* pattern, for every pattern and every name or path (atomToRegex).
THEOREM PatternMeaning ==
    ASSUME NEW p \in Patterns, NoTripleStar(p), NEW s \in Texts, NEW separator, NEW least
    PROVE  Matches(AtomToRegex(p, Vocabulary(separator, least)), s) <=> Fits(p, s, separator, least)
<1>1. PICK n \in Nat : n = Len(p) /\ DOMAIN p = 1..n
    BY DEF Patterns
<1>2. PICK l \in Nat : l = Len(s) /\ DOMAIN s = 1..l
    BY DEF Texts
<1> DEFINE re == AtomToRegex(p, Vocabulary(separator, least))
<1>3. PICK m, e : SpeltBy(p, Vocabulary(separator, least), n, re, m, 1, e)
    BY <1>1, AtomToRegexSpelt
<1> HIDE DEF re
<1>4. m \in Nat /\ m = Len(re)
    BY <1>3 DEF SpeltBy
<1>5. StandsFor(re, m, e, p, n, s, l, separator, least)
    BY <1>1, <1>2, <1>3, <1>4, AtomStandsFor
<1>6. Matches(re, s) <=> Owned(re, s, m, l, 1, 1)
    BY <1>2, <1>4, MatchesOwned
<1>7. Owned(re, s, m, l, 1, 1) <=> Fits(p, s, separator, least)
    BY <1>2, <1>4, <1>5, OwnedFits, FitsOwned
<1> QED BY <1>6, <1>7 DEF re

\* What -i does to an expression.
Folded(re) == [i \in DOMAIN re |-> [re[i] EXCEPT !.of = {LowerChar(c) : c \in @}]]

LEMMA LowerText ==
    ASSUME NEW s \in Texts, NEW l \in Nat, l = Len(s)
    PROVE  /\ LowerAll(s) \in Texts /\ Len(LowerAll(s)) = l /\ DOMAIN LowerAll(s) = 1..l
           /\ \A j \in 1..l : s[j] \in Chars /\ LowerAll(s)[j] = LowerChar(s[j])
<1>1. DOMAIN s = 1..l /\ \A j \in 1..l : s[j] \in Chars
    BY DEF Texts
<1>2. LowerAll(s) = [j \in 1..l |-> LowerChar(s[j])]
    BY <1>1 DEF LowerAll
<1>3. \A j \in 1..l : LowerChar(s[j]) \in Chars
    BY <1>1, LowerKeeps
<1> QED BY <1>1, <1>2, <1>3 DEF Texts

LEMMA LowerPattern ==
    ASSUME NEW p \in Patterns, NEW n \in Nat, n = Len(p)
    PROVE  /\ Len(LowerAll(p)) = n /\ DOMAIN LowerAll(p) = 1..n
           /\ \A i \in 1..n : /\ p[i] \in Chars \cup {"*", "?"} /\ LowerAll(p)[i] = LowerChar(p[i])
                              /\ LowerAll(p)[i] = "*" <=> p[i] = "*"
                              /\ LowerAll(p)[i] = "?" <=> p[i] = "?"
<1>1. DOMAIN p = 1..n /\ \A i \in 1..n : p[i] \in Chars \cup {"*", "?"}
    BY DEF Patterns
<1>2. LowerAll(p) = [i \in 1..n |-> LowerChar(p[i])]
    BY <1>1 DEF LowerAll
<1>3. \A c \in Chars \cup {"*", "?"} : (LowerChar(c) = "*" <=> c = "*") /\ (LowerChar(c) = "?" <=> c = "?")
    BY LowerKeeps DEF Chars
<1> QED BY <1>1, <1>2, <1>3

LEMMA LowerElements ==
    ASSUME NEW p \in Patterns, NEW n \in Nat, n = Len(p)
    PROVE  /\ Elements(LowerAll(p)) = Elements(p)
           /\ \A i \in 1..n : Wide(LowerAll(p), i) <=> Wide(p, i)
<1> DEFINE q == LowerAll(p)
<1>1. /\ Len(q) = n /\ DOMAIN q = 1..n /\ DOMAIN p = 1..n
      /\ \A i \in 1..n : q[i] = "*" <=> p[i] = "*"
    BY LowerPattern DEF Patterns
<1> HIDE DEF q
<1>2. \A i \in 1..n : i # 1 => i - 1 \in 1..n
    OBVIOUS
<1>3. Elements(q) = Elements(p)
    BY <1>1, <1>2 DEF Elements
<1>4. ASSUME NEW i \in 1..n PROVE Wide(q, i) <=> Wide(p, i)
    <2>1. i < n => i + 1 \in 1..n
        OBVIOUS
    <2> QED BY <1>1, <2>1 DEF Wide
<1> QED BY <1>3, <1>4 DEF q

\* A piece and an element, both in lower case, take the same of what is.
LEMMA FoldedTakes ==
    ASSUME NEW p \in Patterns, NEW n \in Nat, n = Len(p), NEW i \in 1..n, NEW sep \in {".", "/"}, NEW least,
           NEW x, PieceOf(x, p, sep, least, i), NEW d \in Chars
    PROVE  LowerChar(d) \in {LowerChar(c) : c \in x.of} <=> Takes(LowerAll(p), sep, i, LowerChar(d))
<1> DEFINE q == LowerAll(p)
<1>1. /\ q[i] = LowerChar(p[i]) /\ (q[i] = "*" <=> p[i] = "*") /\ (q[i] = "?" <=> p[i] = "?")
      /\ Wide(q, i) <=> Wide(p, i)
    BY LowerPattern, LowerElements
<1> HIDE DEF q
<1>2. CASE p[i] \notin {"*", "?"}
    <2>1. x.of = {p[i]} /\ q[i] \notin {"*", "?"}
        BY <1>1, <1>2 DEF PieceOf
    <2> QED BY <1>1, <2>1 DEF Takes, q
<1>3. CASE p[i] \in {"*", "?"} /\ Wide(p, i)
    <2>1. x.of = Chars /\ q[i] \in {"*", "?"}
        BY <1>1, <1>3 DEF PieceOf
    <2> QED BY <1>1, <1>3, <2>1 DEF Takes, q
<1>4. CASE p[i] \in {"*", "?"} /\ ~Wide(p, i)
    <2>1. x.of = Chars \ {sep} /\ q[i] \in {"*", "?"}
        BY <1>1, <1>4 DEF PieceOf
    <2>2. LowerChar(sep) = sep /\ \A c \in Chars : LowerChar(c) = sep => c = sep
        BY LowerKeeps DEF Chars
    <2>3. Takes(q, sep, i, LowerChar(d)) <=> LowerChar(d) # sep
        BY <1>1, <1>4, <2>1 DEF Takes
    <2>4. LowerChar(d) \in {LowerChar(c) : c \in Chars \ {sep}} <=> LowerChar(d) # sep
        BY <2>2
    <2> QED BY <2>1, <2>3, <2>4 DEF q
<1> QED BY <1>2, <1>3, <1>4

LEMMA FoldedStandsFor ==
    ASSUME NEW p \in Patterns, NoTripleStar(p), NEW n \in Nat, n = Len(p), NEW sep \in {".", "/"}, NEW least,
           NEW s \in Texts, NEW l \in Nat, l = Len(s),
           NEW m \in Nat, NEW e, NEW re, SpeltBy(p, Vocabulary(sep, least), n, re, m, 1, e)
    PROVE  StandsFor(Folded(re), m, e, LowerAll(p), n, LowerAll(s), l, sep, least)
<1> DEFINE q == LowerAll(p)
           f == Folded(re)
<1>1. StandsFor(re, m, e, p, n, s, l, sep, least)
    BY AtomStandsFor
<1>2. e \in [1..m -> 1..n] /\ \A a, b \in 1..m : a < b => e[a] < e[b]
    BY DEF SpeltBy
<1>3. Elements(q) \subseteq 1..n /\ \A i \in 1..n : i \in Elements(q) <=> \E a \in 1..m : e[a] = i
    BY <1>1, LowerElements DEF StandsFor
<1>4. ASSUME NEW a \in 1..m
      PROVE  /\ f[a].more <=> q[e[a]] = "*"
             /\ f[a].least = 0 <=> Wide(q, e[a]) /\ least = 0
             /\ \A j \in 1..l : LowerAll(s)[j] \in f[a].of <=> Takes(q, sep, e[a], LowerAll(s)[j])
    <2> DEFINE i == e[a]
               x == PieceAt(p, Vocabulary(sep, least), n, i)
    <2>1. i \in 1..n /\ re[a] = x /\ DOMAIN re = 1..m
        BY <1>2 DEF SpeltBy
    <2>2. f[a] = [x EXCEPT !.of = {LowerChar(c) : c \in @}]
        BY <2>1 DEF Folded
    <2> HIDE DEF i, f
    <2>3. PieceOf(x, p, sep, least, i)
        BY <2>1, PieceStands
    <2> HIDE DEF x
    <2>4. f[a].more = x.more /\ f[a].least = x.least /\ f[a].of = {LowerChar(c) : c \in x.of}
        BY <2>2, <2>3 DEF PieceOf
    <2>5. (q[i] = "*" <=> p[i] = "*") /\ (Wide(q, i) <=> Wide(p, i))
        BY <2>1, LowerPattern, LowerElements
    <2>6. (f[a].more <=> q[i] = "*") /\ (f[a].least = 0 <=> Wide(q, i) /\ least = 0)
        BY <2>3, <2>4, <2>5 DEF PieceOf
    <2>7. ASSUME NEW j \in 1..l PROVE LowerAll(s)[j] \in f[a].of <=> Takes(q, sep, i, LowerAll(s)[j])
        <3>1. s[j] \in Chars /\ LowerAll(s)[j] = LowerChar(s[j])
            BY LowerText
        <3> QED BY <2>1, <2>3, <2>4, <3>1, FoldedTakes
    <2> QED BY <2>6, <2>7 DEF i
<1> QED BY <1>2, <1>3, <1>4 DEF StandsFor

\* The same without regard to case, as the inspect engine's proxy matches names
\* (haproxy-config.ts).
THEOREM PatternMeaningAnyCase ==
    ASSUME NEW p \in Patterns, NoTripleStar(p), NEW s \in Texts, NEW separator \in {".", "/"}, NEW least
    PROVE  MatchesAnyCase(AtomToRegex(p, Vocabulary(separator, least)), s)
           <=> Fits(LowerAll(p), LowerAll(s), separator, least)
<1>1. PICK n \in Nat : n = Len(p) /\ DOMAIN p = 1..n
    BY DEF Patterns
<1>2. PICK l \in Nat : l = Len(s) /\ DOMAIN s = 1..l
    BY DEF Texts
<1> DEFINE re == AtomToRegex(p, Vocabulary(separator, least))
           f == Folded(re)
<1>3. PICK m, e : SpeltBy(p, Vocabulary(separator, least), n, re, m, 1, e)
    BY <1>1, AtomToRegexSpelt
<1>4. MatchesAnyCase(re, s) <=> Matches(f, LowerAll(s))
    BY DEF MatchesAnyCase, Folded
<1> HIDE DEF re, f
<1>5. m \in Nat /\ m = Len(re) /\ DOMAIN re = 1..m
    BY <1>3 DEF SpeltBy
<1>6. m = Len(f)
    BY <1>5 DEF f, Folded
<1>7. l = Len(LowerAll(s)) /\ DOMAIN LowerAll(s) = 1..l
    BY <1>2, LowerText
<1>8. StandsFor(f, m, e, LowerAll(p), n, LowerAll(s), l, separator, least)
    BY <1>1, <1>2, <1>3, <1>5, FoldedStandsFor DEF f
<1>9. Matches(f, LowerAll(s)) <=> Owned(f, LowerAll(s), m, l, 1, 1)
    BY <1>5, <1>6, <1>7, MatchesOwned
<1>10. Owned(f, LowerAll(s), m, l, 1, 1) <=> Fits(LowerAll(p), LowerAll(s), separator, least)
    BY <1>5, <1>7, <1>8, OwnedFits, FitsOwned
<1> QED BY <1>4, <1>9, <1>10 DEF re

--------------------------------------------------------------------------------
(* Lower-case patterns, and any path.                                       *)

\* Of two expressions with a piece for each other's, one takes of s what the
\* other does, or more.
Within(f, g, s, m, l) ==
    \A a \in 1..m : /\ f[a].more <=> g[a].more
                    /\ f[a].least = 0 <=> g[a].least = 0
                    /\ \A j \in 1..l : s[j] \in f[a].of => s[j] \in g[a].of

LEMMA OwnedWithin ==
    ASSUME NEW f, NEW g, NEW s, NEW m \in Nat, NEW l \in Nat, Within(f, g, s, m, l), Owned(f, s, m, l, 1, 1)
    PROVE  Owned(g, s, m, l, 1, 1)
<1>1. PICK w : OwnedBy(f, s, m, l, 1, 1, w)
    BY DEF Owned
<1>2. w \in [1..l -> 1..m]
    BY <1>1 DEF OwnedBy
<1>3. \A j, k \in 1..l : j < k => w[j] <= w[k] /\ (~g[w[j]].more => w[j] # w[k])
    <2> SUFFICES ASSUME NEW j \in 1..l, NEW k \in 1..l, j < k
                 PROVE  w[j] <= w[k] /\ (~g[w[j]].more => w[j] # w[k])
        OBVIOUS
    <2>1. w[j] \in 1..m /\ w[j] <= w[k] /\ (~f[w[j]].more => w[j] # w[k])
        BY <1>1, <1>2 DEF OwnedBy
    <2>2. f[w[j]].more <=> g[w[j]].more
        BY <2>1 DEF Within
    <2> QED BY <2>1, <2>2
<1>4. \A j \in 1..l : s[j] \in g[w[j]].of
    <2> SUFFICES ASSUME NEW j \in 1..l PROVE s[j] \in g[w[j]].of
        OBVIOUS
    <2>1. w[j] \in 1..m /\ s[j] \in f[w[j]].of
        BY <1>1, <1>2 DEF OwnedBy
    <2> QED BY <2>1 DEF Within
<1>5. \A a \in 1..m : g[a].least = 0 \/ \E j \in 1..l : w[j] = a
    BY <1>1 DEF OwnedBy, Within
<1>6. OwnedBy(g, s, m, l, 1, 1, w)
    BY <1>2, <1>3, <1>4, <1>5 DEF OwnedBy
<1> QED BY <1>6 DEF Owned

LEMMA LowerTwice == \A c \in Chars : LowerChar(LowerChar(c)) = LowerChar(c)
<1> SUFFICES ASSUME NEW c \in Chars PROVE LowerChar(LowerChar(c)) = LowerChar(c)
    OBVIOUS
<1>1. CASE c \in Letters
    <2>1. LowerChar(c) = Lower[c] /\ Lower[c] \in Letters /\ Lower[Lower[c]] = Lower[c]
        BY <1>1, LettersOK DEF LowerChar
    <2> QED BY <2>1 DEF LowerChar
<1>2. CASE c \notin Letters
    BY <1>2 DEF LowerChar
<1> QED BY <1>1, <1>2

\* Of a name in lower case, an expression takes no more as it is than it does
\* without regard to case; that of a pattern in lower case, no less either.
LEMMA FoldedWithin ==
    ASSUME NEW p \in Patterns, NEW n \in Nat, n = Len(p), NEW separator \in {".", "/"}, NEW least,
           NEW s \in Texts, NEW l \in Nat, l = Len(s),
           NEW m \in Nat, NEW e, NEW re, SpeltBy(p, Vocabulary(separator, least), n, re, m, 1, e)
    PROVE  /\ Within(re, Folded(re), LowerAll(s), m, l)
           /\ LowerAll(p) = p => Within(Folded(re), re, LowerAll(s), m, l)
<1> DEFINE f == Folded(re)
           t == LowerAll(s)
<1>1. ASSUME NEW a \in 1..m
      PROVE  /\ re[a].more <=> f[a].more
             /\ re[a].least = 0 <=> f[a].least = 0
             /\ \A j \in 1..l : /\ t[j] \in re[a].of => t[j] \in f[a].of
                                /\ LowerAll(p) = p /\ t[j] \in f[a].of => t[j] \in re[a].of
    <2> DEFINE i == e[a]
               x == PieceAt(p, Vocabulary(separator, least), n, i)
    <2>1. i \in 1..n /\ re[a] = x /\ DOMAIN re = 1..m
        BY DEF SpeltBy
    <2>2. f[a] = [x EXCEPT !.of = {LowerChar(c) : c \in @}]
        BY <2>1 DEF Folded
    <2> HIDE DEF i, f, t
    <2>3. PieceOf(x, p, separator, least, i)
        BY <2>1, PieceStands
    <2> HIDE DEF x
    <2>4. f[a].more = x.more /\ f[a].least = x.least /\ f[a].of = {LowerChar(c) : c \in x.of}
        BY <2>2, <2>3 DEF PieceOf
    <2>5. ASSUME NEW j \in 1..l
          PROVE  /\ t[j] \in x.of => t[j] \in f[a].of
                 /\ LowerAll(p) = p /\ t[j] \in f[a].of => t[j] \in x.of
        <3>1. s[j] \in Chars /\ t[j] = LowerChar(s[j]) /\ t[j] \in Chars
            BY LowerText, LowerKeeps DEF t
        <3>2. LowerChar(t[j]) = t[j]
            BY <3>1, LowerTwice
        <3>3. t[j] \in x.of => t[j] \in f[a].of
            BY <2>4, <3>2
        <3>4. ASSUME LowerAll(p) = p PROVE t[j] \in f[a].of => t[j] \in x.of
            <4>1. t[j] \in f[a].of <=> Takes(p, separator, i, t[j])
                BY <2>1, <2>3, <2>4, <3>1, <3>4, FoldedTakes
            <4>2. t[j] \in x.of <=> Takes(p, separator, i, t[j])
                BY <2>3, <3>1 DEF Takes, PieceOf
            <4> QED BY <4>1, <4>2
        <3> QED BY <3>3, <3>4
    <2> QED BY <2>1, <2>4, <2>5
<1> HIDE DEF f, t
<1>2. Within(re, f, t, m, l) /\ (LowerAll(p) = p => Within(f, re, t, m, l))
    BY <1>1 DEF Within
<1> QED BY <1>2 DEF f, t

\* A pattern that matches a name put in lower case matches the name without
\* regard to case, and the other way round if the pattern is in lower case: the
\* view's match and the proxy's (coredns-config.ts, haproxy-config.ts).
THEOREM LowerCaseMeaning ==
    ASSUME NEW p \in Patterns, NEW s \in Texts, NEW separator \in {".", "/"}, NEW least
    PROVE  /\ Matches(AtomToRegex(p, Vocabulary(separator, least)), LowerAll(s))
              => MatchesAnyCase(AtomToRegex(p, Vocabulary(separator, least)), s)
           /\ LowerAll(p) = p /\ MatchesAnyCase(AtomToRegex(p, Vocabulary(separator, least)), s)
              => Matches(AtomToRegex(p, Vocabulary(separator, least)), LowerAll(s))
<1>1. PICK n \in Nat : n = Len(p) /\ DOMAIN p = 1..n
    BY DEF Patterns
<1>2. PICK l \in Nat : l = Len(s) /\ DOMAIN s = 1..l
    BY DEF Texts
<1> DEFINE re == AtomToRegex(p, Vocabulary(separator, least))
           f == Folded(re)
           t == LowerAll(s)
<1>3. PICK m, e : SpeltBy(p, Vocabulary(separator, least), n, re, m, 1, e)
    BY <1>1, AtomToRegexSpelt
<1>4. MatchesAnyCase(re, s) <=> Matches(f, t)
    BY DEF MatchesAnyCase, Folded
<1> HIDE DEF re
<1>5. m \in Nat /\ m = Len(re) /\ DOMAIN re = 1..m
    BY <1>3 DEF SpeltBy
<1>6. m = Len(f)
    BY <1>5 DEF Folded
<1>7. l = Len(t)
    BY <1>2, LowerText
<1>8. Within(re, f, t, m, l) /\ (LowerAll(p) = p => Within(f, re, t, m, l))
    BY <1>1, <1>2, <1>3, <1>5, FoldedWithin
<1> HIDE DEF f, t
<1>9. Matches(re, t) <=> Owned(re, t, m, l, 1, 1)
    BY <1>5, <1>7, MatchesOwned
<1>10. Matches(f, t) <=> Owned(f, t, m, l, 1, 1)
    BY <1>5, <1>6, <1>7, MatchesOwned
<1>11. Owned(re, t, m, l, 1, 1) => Owned(f, t, m, l, 1, 1)
    BY <1>5, <1>8, OwnedWithin
<1>12. LowerAll(p) = p /\ Owned(f, t, m, l, 1, 1) => Owned(re, t, m, l, 1, 1)
    BY <1>5, <1>8, OwnedWithin
<1> QED BY <1>4, <1>9, <1>10, <1>11, <1>12 DEF re, t

\* `^/` matches every path.
LEMMA AnyPathMatches ==
    ASSUME NEW s \in Texts, s # <<>>, s[1] = "/"
    PROVE  Matches(AnyPath, s)
<1>1. PICK l \in Nat : l = Len(s) /\ DOMAIN s = 1..l /\ l # 0
    BY DEF Texts
<1>2. \A j \in 1..l : s[j] \in Chars
    BY <1>1 DEF Texts
<1> DEFINE w == [j \in 1..l |-> IF j = 1 THEN 1 ELSE 2]
<1>3. Len(AnyPath) = 2 /\ AnyPath[1].of = {"/"} /\ AnyPath[2] = Piece(Chars, 0, TRUE)
    BY DEF AnyPath, Literal, Piece
<1>4. AnyPath[2].of = Chars /\ AnyPath[2].least = 0 /\ AnyPath[2].more
    BY <1>3 DEF Piece
<1>5. OwnedBy(AnyPath, s, 2, l, 1, 1, w)
    <2>1. w \in [1..l -> 1..2] /\ w[1] = 1 /\ 1 \in 1..l /\ \A j \in 1..l : j # 1 => w[j] = 2
        BY <1>1
    <2> HIDE DEF w
    <2>2. \A j, k \in 1..l : j < k => w[j] <= w[k] /\ (~AnyPath[w[j]].more => w[j] # w[k])
        BY <1>4, <2>1
    <2>3. \A j \in 1..l : s[j] \in AnyPath[w[j]].of
        BY <1>2, <1>3, <1>4, <2>1
    <2>4. \A k \in 1..2 : AnyPath[k].least = 0 \/ \E j \in 1..l : w[j] = k
        BY <1>4, <2>1
    <2> QED BY <2>1, <2>2, <2>3, <2>4 DEF OwnedBy
<1>6. Owned(AnyPath, s, 2, l, 1, 1)
    BY <1>5 DEF Owned
<1> QED BY <1>1, <1>3, <1>6, MatchesOwned
================================================================================
