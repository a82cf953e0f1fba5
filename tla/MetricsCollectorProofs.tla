------------------------ MODULE MetricsCollectorProofs ------------------------
(* MetricsCollector for every configuration, every list of targets and every  *)
(* range of durations: what its sequences hold, that targets and points are   *)
(* kept apart, and that its retry loop implements that of LogsCollector.      *)
EXTENDS MetricsCollector, FiniteSetTheorems, WellFoundedInduction, TLAPS

-----------------------------------------------------------------------------
(* Induction over the naturals, for sets: of the intervals from 1 to a        *)
(* member of T one has no other inside it.                                    *)

LEMMA Least ==
    ASSUME NEW T \in SUBSET Nat, T # {}
    PROVE  \E n \in T : \A m \in T : n <= m
<1> DEFINE Q == {1..n : n \in T}
           R == StrictSubsetOrdering(Nat)
<1>1. IsWellFoundedOn(R, FiniteSubsetsOf(Nat))
  BY FS_StrictSubsetOrderingWellFounded
<1>2. Q \subseteq FiniteSubsetsOf(Nat) /\ Q # {}
  <2>1. \A n \in T : 1..n \in SUBSET Nat
    OBVIOUS
  <2>2. \A n \in T : IsFiniteSet(1..n)
    BY FS_Interval
  <2> QED
    BY <2>1, <2>2 DEF FiniteSubsetsOf
<1>3. PICK q \in Q : \A p \in Q : <<p, q>> \notin R
  <2> HIDE DEF R, Q
  <2> QED
    BY <1>1, <1>2, WFMin
<1>4. PICK n \in T : q = 1..n
  BY <1>3
<1>5. ASSUME NEW m \in T, m < n
      PROVE  FALSE
  <2>1. 1..m \subseteq 1..n /\ n \in 1..n /\ n \notin 1..m
    BY <1>5
  <2>2. <<1..m, 1..n>> \in R
    BY <2>1 DEF StrictSubsetOrdering
  <2> QED
    BY <1>3, <1>4, <2>2
<1> QED
  BY <1>5

LEMMA Induct ==
    ASSUME NEW G \in SUBSET Nat, 0 \in G, \A n \in G : n + 1 \in G
    PROVE  G = Nat
<1> SUFFICES ASSUME Nat \ G # {}
             PROVE  FALSE
  OBVIOUS
<1>1. PICK n \in Nat \ G : \A m \in Nat \ G : n <= m
  BY Least
<1>2. n - 1 \in G
  BY <1>1
<1> QED
  BY <1>1, <1>2

-----------------------------------------------------------------------------
(* The sequences that the loops of the code append to.                       *)

\* f holds what the first i sequences are together, for every i up to n.
Flattens(seqs, n, f) ==
    f = [i \in 1..n |-> IF i = 1 THEN seqs[i] ELSE f[i - 1] \o seqs[i]]

LEMMA FlattenExists ==
    ASSUME NEW seqs, NEW n \in Nat
    PROVE  \E f : Flattens(seqs, n, f)
<1> DEFINE G == {m \in Nat : \E f : Flattens(seqs, m, f)}
<1>1. 0 \in G
  <2>1. Flattens(seqs, 0, [i \in {} |-> {}])
    BY DEF Flattens
  <2> QED
    BY <2>1
<1>2. ASSUME NEW m \in G
      PROVE  m + 1 \in G
  <2>1. PICK f : Flattens(seqs, m, f)
    OBVIOUS
  <2> DEFINE g == [i \in 1..(m + 1) |-> IF i <= m THEN f[i]
                                        ELSE IF i = 1 THEN seqs[1] ELSE f[m] \o seqs[i]]
  <2>2. Flattens(seqs, m + 1, g)
    <3> SUFFICES ASSUME NEW i \in 1..(m + 1)
                 PROVE  g[i] = IF i = 1 THEN seqs[i] ELSE g[i - 1] \o seqs[i]
      BY DEF Flattens
    <3>1. CASE i <= m
      <4>1. m \in Nat /\ i \in 1..m
        BY <3>1
      <4>2. ASSUME NEW h, h = [j \in 1..m |-> IF j = 1 THEN seqs[j] ELSE f[j - 1] \o seqs[j]]
            PROVE  h[i] = IF i = 1 THEN seqs[i] ELSE f[i - 1] \o seqs[i]
        BY <4>1, <4>2
      <4>3. f[i] = IF i = 1 THEN seqs[i] ELSE f[i - 1] \o seqs[i]
        BY <2>1, <4>2 DEF Flattens
      <4>4. g[i] = f[i] /\ (i # 1 => g[i - 1] = f[i - 1])
        BY <3>1
      <4> QED
        BY <4>3, <4>4
    <3>2. CASE i = m + 1
      BY <3>2
    <3> QED
      BY <3>1, <3>2
  <2> QED
    BY <2>2
<1> QED
  BY <1>1, <1>2, Induct

\* What sequences over S are together is a sequence over S.
LEMMA FlattenType ==
    ASSUME NEW S, NEW seqs \in Seq(Seq(S))
    PROVE  FlattenSeq(seqs) \in Seq(S)
<1> DEFINE n == Len(seqs)
<1>1. CASE n = 0
  BY <1>1 DEF FlattenSeq
<1>2. CASE n # 0
  <2> DEFINE f == CHOOSE f : Flattens(seqs, n, f)
             G == {m \in Nat : m \in 1..n => f[m] \in Seq(S)}
  <2>1. n \in Nat \ {0} /\ \A i \in 1..n : seqs[i] \in Seq(S)
    BY <1>2
  <2>2. Flattens(seqs, n, f)
    BY <2>1, FlattenExists
  <2>3. FlattenSeq(seqs) = f[n]
    BY <1>2 DEF FlattenSeq, Flattens
  <2> HIDE DEF f, n
  <2>4. ASSUME NEW i \in 1..n
        PROVE  f[i] = IF i = 1 THEN seqs[i] ELSE f[i - 1] \o seqs[i]
    <3>1. ASSUME NEW h, h = [j \in 1..n |-> IF j = 1 THEN seqs[j] ELSE f[j - 1] \o seqs[j]]
          PROVE  h[i] = IF i = 1 THEN seqs[i] ELSE f[i - 1] \o seqs[i]
      BY <3>1
    <3> QED
      BY <2>2, <3>1 DEF Flattens
  <2>5. 0 \in G
    OBVIOUS
  <2>6. ASSUME NEW m \in G
        PROVE  m + 1 \in G
    <3> SUFFICES ASSUME m + 1 \in 1..n
                 PROVE  f[m + 1] \in Seq(S)
      OBVIOUS
    <3>1. seqs[m + 1] \in Seq(S)
      BY <2>1
    <3>2. CASE m = 0
      BY <2>4, <3>1, <3>2
    <3>3. CASE m # 0
      <4>1. m \in 1..n /\ f[m] \in Seq(S)
        BY <2>1, <3>3
      <4>2. f[m + 1] = f[m] \o seqs[m + 1]
        <5>1. m + 1 # 1 /\ (m + 1) - 1 = m
          BY <3>3
        <5> QED
          BY <2>4, <5>1
      <4> QED
        BY <3>1, <4>1, <4>2
    <3> QED
      BY <3>2, <3>3
  <2>7. G = Nat
    <3>1. G \in SUBSET Nat
      OBVIOUS
    <3> HIDE DEF G
    <3> QED
      BY <2>5, <2>6, <3>1, Induct
  <2> QED
    BY <2>1, <2>3, <2>7
<1> QED
  BY <1>1, <1>2

-----------------------------------------------------------------------------
(* The targets.                                                             *)

Token == [colon : BOOLEAN, type : STRING, value : Seq(Nat)]

\* What the parser makes of the tokens it accepts.
Instances == [kind : {"ec2"}, instance : Seq(Nat) \ {Blank},
              cluster : {Blank}, service : {Blank}]
Services == [kind : {"ecs_service"}, instance : {Blank},
             cluster : {<<n>> : n \in Nat \ {0}}, service : Seq(Nat) \ {Blank}]
ValidTargets == Instances \cup Services

LEMMA TargetValid ==
    ASSUME NEW token \in Token, WellFormed(token)
    PROVE  Target(token) \in ValidTargets
<1> DEFINE v == token.value
<1>1. v \in Seq(Nat) /\ v # Blank
  BY DEF Token, WellFormed
<1>2. CASE token.type = "ec2"
  BY <1>1, <1>2 DEF Target, ValidTargets, Instances
<1>3. CASE token.type # "ec2"
  <2>1. Len(v) > 1 /\ <<v[1]>> # Blank /\ Tail(v) # Blank
    BY <1>3 DEF WellFormed
  <2>2. v[1] \in Nat /\ Tail(v) \in Seq(Nat)
    BY <1>1, <2>1
  <2>3. v[1] # 0
    BY <2>1 DEF Blank
  <2>4. <<v[1]>> \in {<<n>> : n \in Nat \ {0}}
    BY <2>2, <2>3
  <2> QED
    BY <1>3, <2>1, <2>2, <2>4 DEF Target, ValidTargets, Services
<1> QED
  BY <1>2, <1>3

\* What the parser takes from the tokens it accepts, before it sorts.
Given(tokens) == FlattenSeq([i \in DOMAIN tokens |->
                     IF Skipped(tokens[i]) THEN <<>> ELSE <<Target(tokens[i])>>])

Accepted(tokens) == \A i \in DOMAIN tokens : Skipped(tokens[i]) \/ WellFormed(tokens[i])

LEMMA GivenValid ==
    ASSUME NEW tokens \in Seq(Token), Accepted(tokens)
    PROVE  Given(tokens) \in Seq(ValidTargets)
<1> DEFINE single == [i \in DOMAIN tokens |->
                          IF Skipped(tokens[i]) THEN <<>> ELSE <<Target(tokens[i])>>]
<1>1. \A i \in DOMAIN tokens : ~Skipped(tokens[i]) => Target(tokens[i]) \in ValidTargets
  BY TargetValid DEF Accepted
<1>2. \A i \in DOMAIN tokens : single[i] \in Seq(ValidTargets)
  BY <1>1
<1>3. single \in Seq(Seq(ValidTargets))
  <2>1. DOMAIN tokens = 1..Len(tokens) /\ Len(tokens) \in Nat
    OBVIOUS
  <2> HIDE DEF single
  <2>2. single = [i \in 1..Len(tokens) |-> single[i]]
    BY <2>1 DEF single
  <2> QED
    BY <1>2, <2>1, <2>2
<1> QED
  BY <1>3, FlattenType DEF Given

LEMMA ParsedValid ==
    ASSUME NEW tokens \in Seq(Token), NEW ts \in ParseTargets(tokens)
    PROVE  ts \in Seq(ValidTargets)
<1> DEFINE given == Given(tokens)
<1>1. given \in Seq(ValidTargets) /\ ts \in SortStable(given)
  BY GivenValid DEF ParseTargets, Accepted, Given
<1> HIDE DEF given
<1>2. PICK p \in Bijection(DOMAIN given, DOMAIN given) : ts = [i \in DOMAIN given |-> given[p[i]]]
  BY <1>1 DEF SortStable
<1>3. \A i \in DOMAIN given : p[i] \in DOMAIN given
  BY DEF Bijection, Injection
<1>4. \A i \in DOMAIN given : given[p[i]] \in ValidTargets
  BY <1>1, <1>3
<1>5. DOMAIN given = 1..Len(given) /\ Len(given) \in Nat
  BY <1>1
<1> QED
  BY <1>2, <1>4, <1>5

-----------------------------------------------------------------------------
(* The order of the targets.                                                *)

LEMMA LessIrreflexive ==
    ASSUME NEW a \in Seq(Nat)
    PROVE  ~Less(a, a)
BY DEF Less

LEMMA LessTransitive ==
    ASSUME NEW a \in Seq(Nat), NEW b \in Seq(Nat), NEW c \in Seq(Nat), Less(a, b), Less(b, c)
    PROVE  Less(a, c)
<1>1. PICK i \in DOMAIN b : /\ \A j \in 1..(i - 1) : j \in DOMAIN a /\ a[j] = b[j]
                            /\ i \in DOMAIN a => a[i] < b[i]
  BY DEF Less
<1>2. PICK k \in DOMAIN c : /\ \A j \in 1..(k - 1) : j \in DOMAIN b /\ b[j] = c[j]
                            /\ k \in DOMAIN b => b[k] < c[k]
  BY DEF Less
<1>3. /\ i \in Nat \ {0} /\ k \in Nat \ {0}
      /\ \A j \in DOMAIN b : 1..j \subseteq DOMAIN b
      /\ \A j \in DOMAIN c : 1..j \subseteq DOMAIN c
      /\ \A j \in DOMAIN a : a[j] \in Nat
      /\ \A j \in DOMAIN b : b[j] \in Nat
      /\ \A j \in DOMAIN c : c[j] \in Nat
  <2>1. \A s \in Seq(Nat) : DOMAIN s = 1..Len(s) /\ Len(s) \in Nat
    OBVIOUS
  <2>2. \A s \in Seq(Nat) : \A j \in DOMAIN s : s[j] \in Nat
    OBVIOUS
  <2>3. \A s \in Seq(Nat) : \A j \in DOMAIN s : j \in Nat \ {0} /\ 1..j \subseteq DOMAIN s
    BY <2>1
  <2> QED
    BY <2>2, <2>3
<1>4. CASE i < k
  <2>1. i \in 1..(k - 1) /\ i \in DOMAIN c /\ b[i] = c[i]
    <3>1. i \in 1..(k - 1) /\ i \in 1..k
      BY <1>3, <1>4
    <3> QED
      BY <1>2, <1>3, <3>1
  <2>2. \A j \in 1..(i - 1) : j \in 1..(k - 1)
    BY <1>3, <1>4
  <2>3. \A j \in 1..(i - 1) : j \in DOMAIN a /\ a[j] = c[j]
    BY <1>1, <1>2, <2>2
  <2>4. i \in DOMAIN a => a[i] < c[i]
    BY <1>1, <2>1
  <2> QED
    BY <2>1, <2>3, <2>4 DEF Less
<1>5. CASE i >= k
  <2>1. k \in 1..i
    BY <1>3, <1>5
  <2>2. k \in DOMAIN b /\ b[k] < c[k]
    BY <1>2, <1>3, <2>1
  <2>3. \A j \in 1..(k - 1) : j \in 1..(i - 1)
    BY <1>3, <1>5
  <2>4. \A j \in 1..(k - 1) : j \in DOMAIN a /\ a[j] = c[j]
    BY <1>1, <1>2, <2>3
  <2>5. ASSUME k \in DOMAIN a
        PROVE  a[k] < c[k]
    <3>1. CASE k = i
      <4>1. a[k] < b[k]
        BY <1>1, <2>5, <3>1
      <4> QED
        BY <1>3, <2>2, <2>5, <4>1
    <3>2. CASE k # i
      <4>1. k \in 1..(i - 1)
        BY <1>3, <1>5, <3>2
      <4>2. a[k] = b[k]
        BY <1>1, <4>1
      <4> QED
        BY <2>2, <4>2
    <3> QED
      BY <3>1, <3>2
  <2> QED
    BY <2>4, <2>5 DEF Less
<1> QED
  BY <1>3, <1>4, <1>5

LEMMA LessTotal ==
    ASSUME NEW a \in Seq(Nat), NEW b \in Seq(Nat), a # b
    PROVE  Less(a, b) \/ Less(b, a)
<1> DEFINE T == {i \in DOMAIN a \cup DOMAIN b : i \in DOMAIN a \cap DOMAIN b => a[i] # b[i]}
<1>1. T \in SUBSET Nat
  OBVIOUS
<1>2. T # {}
  OBVIOUS
<1>3. PICK i \in T : \A j \in T : i <= j
  <2> HIDE DEF T
  <2> QED
    BY <1>1, <1>2, Least
<1>4. \A j \in 1..(i - 1) : j \in DOMAIN a /\ j \in DOMAIN b /\ a[j] = b[j]
  BY <1>3
<1>5. CASE i \notin DOMAIN b
  BY <1>3, <1>4, <1>5 DEF Less
<1>6. CASE i \notin DOMAIN a
  BY <1>3, <1>4, <1>6 DEF Less
<1>7. CASE i \in DOMAIN a \cap DOMAIN b
  <2>1. a[i] < b[i] \/ b[i] < a[i]
    BY <1>3, <1>7
  <2> QED
    BY <1>4, <1>7, <2>1 DEF Less
<1> QED
  BY <1>5, <1>6, <1>7

LEMMA SortKeyType ==
    ASSUME NEW t \in ValidTargets
    PROVE  SortKey(t) \in Seq(Nat)
<1> DEFINE Text(value) == [i \in 1..(2 * Len(value)) |->
                              IF i % 2 = 1 THEN value[(i + 1) \div 2]
                              ELSE IF i < 2 * Len(value) THEN Slash ELSE Colon]
<1>1. ASSUME NEW value \in Seq(Nat)
      PROVE  Text(value) \in Seq(Nat)
  <2>1. ASSUME NEW i \in 1..(2 * Len(value))
        PROVE  Text(value)[i] \in Nat
    <3>1. i % 2 = 1 => (i + 1) \div 2 \in 1..Len(value)
      OBVIOUS
    <3> QED
      BY <3>1 DEF Slash, Colon
  <2>2. 2 * Len(value) \in Nat
    OBVIOUS
  <2> QED
    BY <2>1, <2>2
<1>2. t.instance \in Seq(Nat) /\ t.cluster \in Seq(Nat) /\ t.service \in Seq(Nat)
  <2>1. Blank \in Seq(Nat) /\ \A n \in Nat : <<n>> \in Seq(Nat)
    BY DEF Blank
  <2>2. CASE t \in Instances
    BY <2>1, <2>2 DEF Instances
  <2>3. CASE t \in Services
    <3>1. t.cluster \in {<<n>> : n \in Nat \ {0}}
      BY <2>3 DEF Services
    <3> QED
      BY <2>1, <2>3, <3>1 DEF Services
  <2> QED
    BY <2>2, <2>3 DEF ValidTargets
<1>3. SortKey(t) = <<IF t.kind = "ec2" THEN 1 ELSE 2>> \o Text(t.instance)
                       \o Text(t.cluster) \o Text(t.service)
  BY DEF SortKey
<1>4. <<IF t.kind = "ec2" THEN 1 ELSE 2>> \in Seq(Nat)
  OBVIOUS
<1> HIDE DEF Text
<1> QED
  BY <1>1, <1>2, <1>3, <1>4

\* R is a strict total order of the numbers up to n.
Ordered(n, R) ==
    /\ \A i \in 1..n : <<i, i>> \notin R
    /\ \A i, j, k \in 1..n : <<i, j>> \in R /\ <<j, k>> \in R => <<i, k>> \in R
    /\ \A i, j \in 1..n : i # j => <<i, j>> \in R \/ <<j, i>> \in R

\* The permutations of these numbers that follow R.
Follow(n, R) ==
    {q \in Bijection(1..n, 1..n) : \A i, j \in 1..n : i < j => <<q[i], q[j]>> \in R}

\* How many come before i.
Place(n, R, i) == Cardinality({j \in 1..n : <<j, i>> \in R})

\* Each number has a place of its own.
LEMMA PlaceBijection ==
    ASSUME NEW n \in Nat, NEW R, Ordered(n, R)
    PROVE  /\ [i \in 1..n |-> Place(n, R, i) + 1] \in Bijection(1..n, 1..n)
           /\ \A i, j \in 1..n : <<i, j>> \in R => Place(n, R, i) < Place(n, R, j)
<1> DEFINE Below(i) == {j \in 1..n : <<j, i>> \in R}
           place == [i \in 1..n |-> Place(n, R, i) + 1]
<1>1. IsFiniteSet(1..n) /\ Cardinality(1..n) = n
  BY FS_Interval
<1>2. ASSUME NEW i \in 1..n
      PROVE  /\ IsFiniteSet(Below(i)) /\ Place(n, R, i) = Cardinality(Below(i))
             /\ Place(n, R, i) \in 0..(n - 1)
  <2>1. Below(i) \in SUBSET (1..n) /\ Below(i) # 1..n
    BY DEF Ordered
  <2>2. Place(n, R, i) = Cardinality(Below(i))
    BY DEF Place
  <2> HIDE DEF Below
  <2>3. IsFiniteSet(Below(i)) /\ Cardinality(Below(i)) <= n /\ Cardinality(Below(i)) # n
    BY <1>1, <2>1, FS_Subset
  <2>4. Cardinality(Below(i)) \in Nat
    BY <2>3, FS_CardinalityType
  <2> QED
    BY <2>2, <2>3, <2>4
<1> HIDE DEF Below
<1>3. \A i \in 1..n : Place(n, R, i) \in Int /\ Place(n, R, i) + 1 \in 1..n
  <2>1. \A p \in 0..(n - 1) : p \in Int /\ p + 1 \in 1..n
    OBVIOUS
  <2> QED
    BY <1>2, <2>1
<1>4. ASSUME NEW i \in 1..n, NEW j \in 1..n, <<i, j>> \in R
      PROVE  Place(n, R, i) < Place(n, R, j)
  <2>1. Below(i) \in SUBSET Below(j) /\ i \in Below(j) /\ i \notin Below(i)
    BY <1>4 DEF Ordered, Below
  <2>2. Cardinality(Below(i)) <= Cardinality(Below(j))
        /\ (Cardinality(Below(j)) = Cardinality(Below(i)) => Below(j) = Below(i))
    BY <1>2, <2>1, FS_Subset
  <2>3. Place(n, R, i) = Cardinality(Below(i)) /\ Place(n, R, j) = Cardinality(Below(j))
    BY <1>2
  <2> QED
    BY <1>3, <2>1, <2>2, <2>3
<1>5. place \in [1..n -> 1..n] /\ \A i \in 1..n : place[i] = Place(n, R, i) + 1
  BY <1>3
<1> HIDE DEF place
<1>6. ASSUME NEW i \in 1..n, NEW j \in 1..n, place[i] = place[j]
      PROVE  i = j
  <2>1. Place(n, R, i) = Place(n, R, j)
    BY <1>3, <1>5, <1>6
  <2>2. <<i, j>> \notin R /\ <<j, i>> \notin R
    BY <1>3, <1>4, <2>1
  <2> QED
    BY <2>2 DEF Ordered
<1>7. place \in Injection(1..n, 1..n)
  BY <1>5, <1>6 DEF Injection, IsInjective
<1>8. place \in Surjection(1..n, 1..n)
  BY <1>1, <1>7, FS_Injection
<1>9. place \in Bijection(1..n, 1..n)
  BY <1>7, <1>8 DEF Bijection
<1> QED
  BY <1>4, <1>9 DEF place

\* So they can be put in order in exactly one way.
LEMMA FollowOnce ==
    ASSUME NEW n \in Nat, NEW R, Ordered(n, R)
    PROVE  \E q : Follow(n, R) = {q}
<1> DEFINE place == [i \in 1..n |-> Place(n, R, i) + 1]
           q == [y \in 1..n |-> CHOOSE i \in 1..n : place[i] = y]
<1>1. place \in Bijection(1..n, 1..n)
  BY PlaceBijection
<1>2. \A i, j \in 1..n : <<i, j>> \in R => place[i] < place[j]
  <2>1. \A i \in 1..n : place[i] \in 1..n /\ place[i] = Place(n, R, i) + 1
    BY <1>1 DEF Bijection, Injection
  <2>2. \A i \in 1..n : Place(n, R, i) \in Int
    <3>1. ASSUME NEW i \in 1..n
          PROVE  Place(n, R, i) \in Int
      <4> DEFINE Below == {j \in 1..n : <<j, i>> \in R}
      <4>1. Below \in SUBSET (1..n) /\ Place(n, R, i) = Cardinality(Below)
        BY DEF Place
      <4> HIDE DEF Below
      <4>2. IsFiniteSet(Below)
        <5>1. IsFiniteSet(1..n)
          BY FS_Interval
        <5> QED
          BY <4>1, <5>1, FS_Subset
      <4>3. Cardinality(Below) \in Nat
        BY <4>2, FS_CardinalityType
      <4> QED
        BY <4>1, <4>3
    <3> QED
      BY <3>1
  <2> HIDE DEF place
  <2>3. ASSUME NEW i \in 1..n, NEW j \in 1..n, <<i, j>> \in R
        PROVE  place[i] < place[j]
    <3>1. Place(n, R, i) < Place(n, R, j)
      BY <2>3, PlaceBijection
    <3> QED
      BY <2>1, <2>2, <3>1
  <2> QED
    BY <2>3
<1> HIDE DEF place
<1>3. /\ place \in [1..n -> 1..n]
      /\ \A i, j \in 1..n : place[i] = place[j] => i = j
      /\ \A y \in 1..n : \E i \in 1..n : place[i] = y
  BY <1>1 DEF Bijection, Injection, Surjection, IsInjective
<1>4. \A y \in 1..n : q[y] \in 1..n /\ place[q[y]] = y
  BY <1>3
<1> HIDE DEF q
<1>5. q \in Follow(n, R)
  <2>1. q \in [1..n -> 1..n]
    BY <1>4 DEF q
  <2>2. \A y, z \in 1..n : q[y] = q[z] => y = z
    BY <1>4
  <2>3. \A i \in 1..n : \E y \in 1..n : q[y] = i
    <3>1. \A i \in 1..n : place[i] \in 1..n
      BY <1>3
    <3>2. \A i \in 1..n : q[place[i]] = i
      BY <1>3, <1>4, <3>1
    <3> QED
      BY <3>1, <3>2
  <2>4. q \in Bijection(1..n, 1..n)
    BY <2>1, <2>2, <2>3 DEF Bijection, Injection, Surjection, IsInjective
  <2>5. ASSUME NEW y \in 1..n, NEW z \in 1..n, y < z
        PROVE  <<q[y], q[z]>> \in R
    <3>1. q[y] \in 1..n /\ q[z] \in 1..n /\ q[y] # q[z]
      BY <1>4, <2>5
    <3>2. <<q[z], q[y]>> \in R => z < y
      BY <1>2, <1>4, <3>1
    <3> QED
      BY <2>5, <3>1, <3>2 DEF Ordered
  <2> QED
    BY <2>4, <2>5 DEF Follow
<1>6. ASSUME NEW p \in Follow(n, R)
      PROVE  p = q
  <2>1. /\ p \in [1..n -> 1..n]
        /\ \A i, j \in 1..n : p[i] = p[j] => i = j
        /\ \A y \in 1..n : \E i \in 1..n : p[i] = y
        /\ \A i, j \in 1..n : i < j => <<p[i], p[j]>> \in R
    BY DEF Follow, Bijection, Injection, Surjection, IsInjective
  <2>2. ASSUME NEW i \in 1..n
        PROVE  p[i] = q[i]
    <3> DEFINE Below == {j \in 1..n : <<j, p[i]>> \in R}
               g == [k \in 1..(i - 1) |-> p[k]]
    <3>1. \A k \in 1..(i - 1) : k \in 1..n /\ k < i
      OBVIOUS
    <3>2. \A k \in 1..n : <<p[k], p[i]>> \in R <=> k < i
      <4>1. ASSUME NEW k \in 1..n, <<p[k], p[i]>> \in R
            PROVE  k < i
        <5>1. p[k] \in 1..n /\ p[i] \in 1..n
          BY <2>1
        <5>2. k # i
          BY <4>1, <5>1 DEF Ordered
        <5>3. ASSUME i < k
              PROVE  FALSE
          <6>1. <<p[i], p[k]>> \in R
            BY <2>1, <5>3
          <6> QED
            BY <4>1, <5>1, <6>1 DEF Ordered
        <5> QED
          BY <5>2, <5>3
      <4> QED
        BY <2>1, <4>1
    <3>3. g \in [1..(i - 1) -> Below]
      BY <2>1, <3>1, <3>2
    <3>4. \A k, l \in 1..(i - 1) : g[k] = g[l] => k = l
      BY <2>1, <3>1
    <3>5. \A j \in Below : \E k \in 1..(i - 1) : g[k] = j
      <4>1. ASSUME NEW j \in Below
            PROVE  \E k \in 1..(i - 1) : g[k] = j
        <5>1. PICK k \in 1..n : p[k] = j
          BY <2>1
        <5>2. k \in 1..(i - 1)
          BY <3>2, <5>1
        <5> QED
          BY <5>1, <5>2
      <4> QED
        BY <4>1
    <3>6. Place(n, R, p[i]) = Cardinality(Below)
      BY DEF Place
    <3> HIDE DEF Below, g
    <3>7. g \in Bijection(1..(i - 1), Below)
      BY <3>3, <3>4, <3>5 DEF Bijection, Injection, Surjection, IsInjective
    <3>8. ExistsBijection(1..(i - 1), Below)
      BY <3>7 DEF ExistsBijection
    <3>9. IsFiniteSet(1..(i - 1)) /\ Cardinality(1..(i - 1)) = i - 1
      BY FS_Interval
    <3>10. Cardinality(Below) = i - 1
      BY <3>8, <3>9, FS_Bijection
    <3>11. place[p[i]] = i
      BY <2>1, <3>6, <3>10 DEF place
    <3>12. p[i] \in 1..n /\ q[i] \in 1..n /\ place[q[i]] = i
      BY <1>4, <2>1
    <3> QED
      BY <1>3, <3>11, <3>12
  <2>3. q \in [1..n -> 1..n]
    BY <1>5 DEF Follow, Bijection, Injection
  <2> QED
    BY <2>1, <2>2, <2>3
<1> QED
  BY <1>5, <1>6

\* The sort comes out in one way only.
LEMMA SortOnce ==
    ASSUME NEW given \in Seq(ValidTargets)
    PROVE  \E sorted : SortStable(given) = {sorted}
<1> DEFINE n == Len(given)
           Precedes(i, j) == \/ Before(given[i], given[j])
                             \/ i < j /\ ~Before(given[j], given[i])
           R == {e \in (1..n) \X (1..n) : Precedes(e[1], e[2])}
           key == [i \in 1..n |-> SortKey(given[i])]
<1>1. n \in Nat /\ DOMAIN given = 1..n /\ \A i \in 1..n : given[i] \in ValidTargets
  OBVIOUS
<1> HIDE DEF n
<1>2. \A i \in 1..n : key[i] \in Seq(Nat)
  BY <1>1, SortKeyType
<1>3. \A i, j \in 1..n : Before(given[i], given[j]) <=> Less(key[i], key[j])
  BY DEF Before
<1> HIDE DEF key
<1>4. \A i, j \in 1..n : <<i, j>> \in R <=> Less(key[i], key[j]) \/ (i < j /\ key[i] = key[j])
  <2>1. \A i, j \in 1..n : ~Less(key[j], key[i]) <=> Less(key[i], key[j]) \/ key[i] = key[j]
    <3>1. ASSUME NEW i \in 1..n, NEW j \in 1..n
          PROVE  /\ Less(key[i], key[j]) \/ Less(key[j], key[i]) \/ key[i] = key[j]
                 /\ ~(Less(key[i], key[j]) /\ Less(key[j], key[i]))
                 /\ key[i] = key[j] => ~Less(key[j], key[i])
      BY <1>2, LessTotal, LessTransitive, LessIrreflexive
    <3> QED
      BY <3>1
  <2>2. \A i, j \in 1..n : <<i, j>> \in R <=> Precedes(i, j)
    OBVIOUS
  <2> HIDE DEF R
  <2> QED
    BY <1>3, <2>1, <2>2
<1>5. Ordered(n, R)
  <2> HIDE DEF R
  <2>1. \A i \in 1..n : <<i, i>> \notin R
    BY <1>2, <1>4, LessIrreflexive
  <2>2. ASSUME NEW i \in 1..n, NEW j \in 1..n, NEW k \in 1..n,
               <<i, j>> \in R, <<j, k>> \in R
        PROVE  <<i, k>> \in R
    <3>1. Less(key[i], key[j]) /\ Less(key[j], key[k]) => Less(key[i], key[k])
      BY <1>2, LessTransitive
    <3> QED
      BY <1>4, <2>2, <3>1
  <2>3. ASSUME NEW i \in 1..n, NEW j \in 1..n, i # j
        PROVE  <<i, j>> \in R \/ <<j, i>> \in R
    <3>1. Less(key[i], key[j]) \/ Less(key[j], key[i]) \/ key[i] = key[j]
      BY <1>2, LessTotal
    <3> QED
      BY <1>4, <2>3, <3>1
  <2> QED
    BY <2>1, <2>2, <2>3 DEF Ordered
<1>6. SortStable(given) = {[i \in 1..n |-> given[q[i]]] : q \in Follow(n, R)}
  <2>1. SortStable(given) = {[i \in 1..n |-> given[q[i]]] : q \in
            {p \in Bijection(1..n, 1..n) :
                \A i, j \in 1..n : i < j => Precedes(p[i], p[j])}}
    BY <1>1 DEF SortStable
  <2>2. \A i, j \in 1..n : <<i, j>> \in R <=> Precedes(i, j)
    OBVIOUS
  <2> HIDE DEF R, Precedes
  <2>3. {p \in Bijection(1..n, 1..n) : \A i, j \in 1..n : i < j => Precedes(p[i], p[j])}
            = Follow(n, R)
    BY <2>2 DEF Follow, Bijection, Injection
  <2> QED
    BY <2>1, <2>3
<1>7. PICK q : Follow(n, R) = {q}
  <2> HIDE DEF R
  <2> QED
    BY <1>1, <1>5, FollowOnce
<1>8. SortStable(given) = {[i \in 1..n |-> given[q[i]]]}
  <2> HIDE DEF R
  <2> QED
    BY <1>6, <1>7
<1> QED
  BY <1>8

\* Whatever the setting is, the parser refuses it when a token is malformed and
\* otherwise has one result: no list of targets is without an order, and none has two.
THEOREM ParserDecides ==
    ASSUME NEW tokens \in TokenLists
    PROVE  IF \A i \in DOMAIN tokens : Skipped(tokens[i]) \/ WellFormed(tokens[i])
           THEN \E sorted \in Seq(ValidTargets) : ParseTargets(tokens) = {sorted}
           ELSE ParseTargets(tokens) = {}
<1>1. tokens \in Seq(Token)
  BY TokensAssumption DEF Token
<1>2. CASE ~Accepted(tokens)
  BY <1>2 DEF Accepted, ParseTargets
<1>3. CASE Accepted(tokens)
  <2>1. PICK sorted : SortStable(Given(tokens)) = {sorted}
    BY <1>1, <1>3, GivenValid, SortOnce
  <2>2. ParseTargets(tokens) = {sorted}
    BY <1>3, <2>1 DEF Accepted, ParseTargets, Given
  <2>3. sorted \in Seq(ValidTargets)
    BY <1>1, <2>2, ParsedValid
  <2> QED
    BY <1>3, <2>2, <2>3 DEF Accepted
<1> QED
  BY <1>2, <1>3 DEF Accepted

-----------------------------------------------------------------------------
(* The series of a target.                                                   *)

SeriesOf(t) == {MetricSpecs(t)[k] : k \in DOMAIN MetricSpecs(t)}

Resource(t) == IF t.kind = "ec2" THEN t.instance ELSE t.cluster \o t.service
Namespace(t) == IF t.kind = "ec2" THEN "AWS/EC2" ELSE "AWS/ECS"

LEMMA SeriesOfTarget ==
    ASSUME NEW t \in ValidTargets
    PROVE  /\ MetricSpecs(t) \in Seq(SeriesOf(t)) /\ SeriesOf(t) # {}
           /\ \A s \in SeriesOf(t) : s.resource = Resource(t) /\ s.namespace = Namespace(t)
<1> DEFINE Specs(names) == [i \in DOMAIN names |->
                [resource |-> Resource(t), namespace |-> Namespace(t), name |-> names[i]]]
<1>1. PICK n, names :
         n \in Nat \ {0} /\ DOMAIN names = 1..n /\ MetricSpecs(t) = Specs(names)
  <2>1. CASE t \in Instances
    <3>1. t.kind = "ec2" /\ t.instance # Blank
      BY <2>1 DEF Instances
    <3>2. MetricSpecs(t) = Specs(<<"CPUUtilization", "NetworkIn", "NetworkOut">>)
      BY <3>1 DEF MetricSpecs, Resource, Namespace
    <3>3. DOMAIN <<"CPUUtilization", "NetworkIn", "NetworkOut">> = 1..3
      OBVIOUS
    <3>4. 3 \in Nat \ {0}
      OBVIOUS
    <3> HIDE DEF Specs
    <3> QED
      BY <3>2, <3>3, <3>4, Zenon
  <2>2. CASE t \in Services
    <3>1. t.kind = "ecs_service" /\ t.cluster # Blank /\ t.service # Blank
      BY <2>2 DEF Services, Blank
    <3>2. MetricSpecs(t) = Specs(<<"CPUUtilization", "MemoryUtilization">>)
      BY <3>1 DEF MetricSpecs, Resource, Namespace
    <3>3. DOMAIN <<"CPUUtilization", "MemoryUtilization">> = 1..2
      OBVIOUS
    <3>4. 2 \in Nat \ {0}
      OBVIOUS
    <3> HIDE DEF Specs
    <3> QED
      BY <3>2, <3>3, <3>4, Zenon
  <2> QED
    BY <2>1, <2>2 DEF ValidTargets
<1>2. n \in Nat \ {0} /\ DOMAIN MetricSpecs(t) = 1..n
  BY <1>1
<1>3. \A k \in 1..n : MetricSpecs(t)[k] \in SeriesOf(t)
  BY <1>2 DEF SeriesOf
<1>4. MetricSpecs(t) = [k \in 1..n |-> MetricSpecs(t)[k]]
  BY <1>1
<1>6. MetricSpecs(t) \in Seq(SeriesOf(t))
  BY <1>2, <1>3, <1>4
<1>7. SeriesOf(t) # {}
  BY <1>2, <1>3
<1>8. ASSUME NEW s \in SeriesOf(t)
      PROVE  s.resource = Resource(t) /\ s.namespace = Namespace(t)
  BY <1>1 DEF SeriesOf
<1> QED
  BY <1>6, <1>7, <1>8

\* An instance and a service lie in different namespaces, and the name of a service
\* falls into cluster and service in one way.
LEMMA SeriesApart ==
    ASSUME NEW t \in ValidTargets, NEW u \in ValidTargets, t # u
    PROVE  SeriesOf(t) \cap SeriesOf(u) = {}
<1>1. Resource(t) # Resource(u) \/ Namespace(t) # Namespace(u)
  <2>1. CASE t \in Instances /\ u \in Instances
    <3>1. t.instance # u.instance
      BY <2>1 DEF Instances
    <3> QED
      BY <2>1, <3>1 DEF Resource, Instances
  <2>2. CASE t \in Services /\ u \in Services
    <3>1. PICK m \in Nat, n \in Nat : t.cluster = <<m>> /\ u.cluster = <<n>>
      BY <2>2 DEF Services
    <3>2. t.service \in Seq(Nat) /\ u.service \in Seq(Nat)
      BY <2>2 DEF Services
    <3> DEFINE Joined(x, s) == <<x>> \o s
    <3>3. \A x \in Nat, s \in Seq(Nat) : Joined(x, s)[1] = x /\ Tail(Joined(x, s)) = s
      OBVIOUS
    <3>4. t.cluster # u.cluster \/ t.service # u.service
      BY <2>2 DEF Services
    <3>5. m # n \/ t.service # u.service
      BY <3>1, <3>4
    <3>6. Joined(m, t.service) # Joined(n, u.service)
      <4> HIDE DEF Joined
      <4>1. /\ Joined(m, t.service)[1] = m /\ Tail(Joined(m, t.service)) = t.service
            /\ Joined(n, u.service)[1] = n /\ Tail(Joined(n, u.service)) = u.service
        BY <3>2, <3>3
      <4> QED
        BY <4>1, <3>5
    <3> QED
      BY <2>2, <3>1, <3>6 DEF Resource, Services
  <2>3. CASE t.kind # u.kind
    BY <2>3 DEF Namespace, ValidTargets, Instances, Services
  <2> QED
    BY <2>1, <2>2, <2>3 DEF ValidTargets, Instances, Services
<1> QED
  BY <1>1, SeriesOfTarget

TargetsInv == targets \in Seq(ValidTargets)

LEMMA TargetsValid == Spec => []TargetsInv
<1>1. Init => TargetsInv
  BY TokensAssumption, ParsedValid DEF Init, TargetsInv, Token
<1>2. TargetsInv /\ [Next]_vars => TargetsInv'
  BY DEF TargetsInv, Next, CollectNothing, Collect, Respond, Answered, CallFails, Throttled,
         Step, GiveUp, Retry, Sleep, WaitCancelled, NextAttempt, ContextDone, vars
<1> QED
  BY <1>1, <1>2, PTL DEF Spec

\* Whatever the setting of the targets is: each that the parser accepts is asked for,
\* under series that are its own.
THEOREM TargetsApart == Spec => []TargetsKeptApart
<1>1. TargetsInv => TargetsKeptApart
  <2> SUFFICES ASSUME TargetsInv, NEW i \in DOMAIN targets, NEW j \in DOMAIN targets
               PROVE  /\ SeriesOf(targets[i]) # {}
                      /\ targets[i] # targets[j] =>
                             SeriesOf(targets[i]) \cap SeriesOf(targets[j]) = {}
    BY DEF TargetsKeptApart, SeriesOf
  <2>1. targets[i] \in ValidTargets /\ targets[j] \in ValidTargets
    BY DEF TargetsInv
  <2> QED
    BY <2>1, SeriesOfTarget, SeriesApart
<1> QED
  BY <1>1, TargetsValid, PTL

-----------------------------------------------------------------------------
(* The queries and the points.                                              *)

\* The identifier of a query is its place.
Numbered(asked) ==
    \E n \in Nat : /\ DOMAIN asked = 1..n /\ Len(asked) = n
                   /\ \A k \in 1..n : asked[k].id = k

LEMMA BuiltNumbered ==
    ASSUME NEW ts \in Seq(ValidTargets)
    PROVE  Numbered(BuildMetricQueries(ts))
<1> DEFINE all == UNION {SeriesOf(t) : t \in ValidTargets}
           each == [i \in DOMAIN ts |-> MetricSpecs(ts[i])]
           specs == FlattenSeq(each)
<1>1. \A t \in ValidTargets : MetricSpecs(t) \in Seq(all)
  <2> SUFFICES ASSUME NEW t \in ValidTargets
               PROVE  MetricSpecs(t) \in Seq(all)
    OBVIOUS
  <2>1. MetricSpecs(t) \in Seq(SeriesOf(t)) /\ SeriesOf(t) \subseteq all
    BY SeriesOfTarget
  <2> HIDE DEF all
  <2> QED
    BY <2>1
<1> HIDE DEF all
<1>2. each \in Seq(Seq(all))
  <2>1. DOMAIN ts = 1..Len(ts) /\ Len(ts) \in Nat /\ \A i \in 1..Len(ts) : ts[i] \in ValidTargets
    OBVIOUS
  <2> QED
    BY <1>1, <2>1
<1>3. specs \in Seq(all)
  BY <1>2, FlattenType
<1> HIDE DEF specs
<1>4. DOMAIN specs = 1..Len(specs) /\ Len(specs) \in Nat
  BY <1>3
<1>5. BuildMetricQueries(ts) = [k \in 1..Len(specs) |-> [id |-> k, asks |-> specs[k]]]
  BY <1>4 DEF BuildMetricQueries, specs
<1>6. \A k \in 1..Len(specs) : BuildMetricQueries(ts)[k].id = k
  BY <1>5
<1>7. DOMAIN BuildMetricQueries(ts) = 1..Len(specs) /\ Len(BuildMetricQueries(ts)) = Len(specs)
  BY <1>4, <1>5
<1> QED
  BY <1>4, <1>6, <1>7 DEF Numbered

LEMMA DescriptorsNumbered ==
    ASSUME NEW asked, Numbered(asked)
    PROVE  /\ DOMAIN Descriptors(asked) = DOMAIN asked
           /\ \A k \in DOMAIN asked : Descriptors(asked)[k] = asked[k].asks
<1>1. PICK n \in Nat : DOMAIN asked = 1..n /\ \A k \in 1..n : asked[k].id = k
  BY DEF Numbered
<1>2. {asked[k].id : k \in DOMAIN asked} = DOMAIN asked
  BY <1>1
<1> DEFINE Latest(id, k) == /\ asked[k].id = id
                            /\ \A j \in DOMAIN asked : asked[j].id = id => j <= k
<1>3. ASSUME NEW id \in DOMAIN asked
      PROVE  (CHOOSE k \in DOMAIN asked : Latest(id, k)) = id
  <2>1. \A k \in DOMAIN asked : Latest(id, k) <=> k = id
    BY <1>1
  <2> HIDE DEF Latest
  <2> QED
    BY <2>1
<1>4. Descriptors(asked) =
          [id \in DOMAIN asked |-> asked[CHOOSE k \in DOMAIN asked : Latest(id, k)].asks]
  BY <1>2 DEF Descriptors
<1> HIDE DEF Latest
<1> QED
  BY <1>3, <1>4

\* Points that carry what their query asks for, and timestamp and value of one pair.
Attributed(asked) ==
    {[series |-> asked[k].asks, timestamp |-> <<k, n>>, value |-> <<k, n>>] :
        k \in DOMAIN asked, n \in Nat}

LEMMA AttributedPoint ==
    ASSUME NEW asked, NEW k \in DOMAIN asked, NEW n \in Nat
    PROVE  [series |-> asked[k].asks, timestamp |-> <<k, n>>, value |-> <<k, n>>]
               \in Attributed(asked)
BY DEF Attributed

\* An answer of the service is made of results of the queries, of any lengths, and of the
\* one that nobody asked for.
LEMMA OutputResults ==
    ASSUME NEW output \in Outputs
    PROVE  output \in Seq({Stray} \cup {Result(k, lengths) : k \in DOMAIN queries,
                                                          lengths \in Lengths})
<1> DEFINE R == {Result(k, lengths) : k \in DOMAIN queries, lengths \in Lengths}
           S == {Stray} \cup R
<1>1. output \in UNION {[1..m -> R \cup {Stray}] : m \in 0..MaxResults}
  BY DEF Outputs, BoundedSeq, SeqOf
<1>2. S = R \cup {Stray}
  OBVIOUS
<1> HIDE DEF R, S
<1>3. PICK m \in 0..MaxResults : output \in [1..m -> S]
  BY <1>1, <1>2
<1>4. m \in Nat
  BY ServiceAssumption
<1> QED
  BY <1>3, <1>4 DEF R, S

LEMMA AnswerAttributed ==
    ASSUME Numbered(queries), NEW output \in Outputs
    PROVE  MetricPoints(output, Descriptors(queries)) \in Seq(Attributed(queries))
<1> DEFINE S == {Stray} \cup {Result(k, lengths) : k \in DOMAIN queries, lengths \in Lengths}
           descriptors == Descriptors(queries)
           Pairs(result) == Zip(result.timestamps, result.values)
           Read(result) ==
               [i \in DOMAIN Pairs(result) |->
                   [series |-> descriptors[result.id],
                    timestamp |-> Pairs(result)[i][1], value |-> Pairs(result)[i][2]]]
           Taken(result) == IF result.id \in DOMAIN descriptors THEN Read(result) ELSE <<>>
<1>1. /\ DOMAIN descriptors = DOMAIN queries
      /\ \A k \in DOMAIN queries : descriptors[k] = queries[k].asks
  BY DescriptorsNumbered
<1>2. PICK n \in Nat : DOMAIN queries = 1..n /\ \A k \in 1..n : queries[k].id = k
  BY DEF Numbered
<1> HIDE DEF descriptors
<1>3. Taken(Stray) \in Seq(Attributed(queries))
  <2>1. Stray.id = 0 /\ 0 \notin DOMAIN descriptors
    BY <1>1, <1>2 DEF Stray
  <2> QED
    BY <2>1
<1>4. ASSUME NEW k \in DOMAIN queries, NEW lengths \in Lengths
      PROVE  Taken(Result(k, lengths)) \in Seq(Attributed(queries))
  <2> DEFINE r == Result(k, lengths)
  <2>1. PICK t \in Nat, v \in Nat : lengths[1] = t /\ lengths[2] = v
    BY ServiceAssumption
  <2>2. /\ r.id = k
        /\ r.timestamps = [i \in 1..t |-> <<k, i>>] /\ r.values = [i \in 1..v |-> <<k, i>>]
    BY <1>2, <2>1 DEF Result
  <2> HIDE DEF r
  <2> DEFINE m == IF t <= v THEN t ELSE v
             Point(i) == [series |-> queries[k].asks, timestamp |-> <<k, i>>, value |-> <<k, i>>]
  <2>3. Pairs(r) = [i \in 1..m |-> << <<k, i>>, <<k, i>> >>]
    <3>1. Len(r.timestamps) = t /\ Len(r.values) = v
      BY <2>2
    <3>2. Pairs(r) = [i \in 1..m |-> <<r.timestamps[i], r.values[i]>>]
      BY <3>1 DEF Zip
    <3>3. \A i \in 1..m : r.timestamps[i] = <<k, i>> /\ r.values[i] = <<k, i>>
      BY <2>2
    <3> QED
      BY <3>2, <3>3
  <2>4. m \in Nat
    OBVIOUS
  <2> HIDE DEF m
  <2>5. Taken(r) = Read(r)
    BY <1>1, <2>2
  <2>6. DOMAIN Pairs(r) = 1..m
    BY <2>3
  <2>7. \A i \in 1..m : Pairs(r)[i][1] = <<k, i>> /\ Pairs(r)[i][2] = <<k, i>>
    BY <2>3
  <2>8. descriptors[r.id] = queries[k].asks
    BY <1>1, <2>2
  <2>9. Read(r) = [i \in 1..m |-> Point(i)]
    <3> HIDE DEF Pairs
    <3> QED
      BY <2>6, <2>7, <2>8
  <2>10. ASSUME NEW i \in 1..m
         PROVE  Point(i) \in Attributed(queries)
    <3>1. i \in Nat
      BY <2>4
    <3> QED
      BY <3>1, AttributedPoint
  <2> HIDE DEF Taken, Read, Point
  <2>11. [i \in 1..m |-> Point(i)] \in Seq(Attributed(queries))
    BY <2>4, <2>10
  <2> QED
    BY <2>5, <2>9, <2>11 DEF r
<1>5. \A result \in S : Taken(result) \in Seq(Attributed(queries))
  <2> HIDE DEF Taken
  <2> QED
    BY <1>3, <1>4
<1>6. output \in Seq(S)
  BY OutputResults
<1>7. MetricPoints(output, descriptors) = FlattenSeq([r \in DOMAIN output |-> Taken(output[r])])
  BY DEF MetricPoints
<1> HIDE DEF Taken, S
<1>8. [r \in DOMAIN output |-> Taken(output[r])] \in Seq(Seq(Attributed(queries)))
  <2>1. /\ DOMAIN output = 1..Len(output) /\ Len(output) \in Nat
        /\ \A r \in 1..Len(output) : output[r] \in S
    BY <1>6
  <2> QED
    BY <1>5, <2>1
<1> QED
  BY <1>7, <1>8, FlattenType DEF descriptors

PointsInv == Numbered(queries) /\ points \in Seq(Attributed(queries))

LEMMA NextPointsInv == TargetsInv /\ PointsInv /\ [Next]_vars => PointsInv'
<1> SUFFICES ASSUME TargetsInv, PointsInv, [Next]_vars
             PROVE  PointsInv'
  OBVIOUS
<1>1. CASE CollectNothing \/ Collect
  <2>1. Numbered(BuildMetricQueries(targets))
    BY BuiltNumbered DEF TargetsInv
  <2>2. queries' = BuildMetricQueries(targets) /\ points' = <<>>
    BY <1>1 DEF CollectNothing, Collect
  <2>3. Numbered(queries')
    BY <2>1, <2>2
  <2> QED
    BY <2>2, <2>3 DEF PointsInv, Numbered
<1>2. CASE Answered
  <2>1. PICK output \in Outputs : points' = MetricPoints(output, Descriptors(queries))
    BY <1>2 DEF Answered
  <2>2. points' \in Seq(Attributed(queries))
    BY <2>1, AnswerAttributed DEF PointsInv
  <2>3. queries' = queries
    BY <1>2 DEF Answered
  <2> QED
    BY <2>2, <2>3 DEF PointsInv
<1>3. CASE UNCHANGED queries /\ (points' = points \/ points' = <<>>)
  <2>1. Numbered(queries)' /\ Attributed(queries)' = Attributed(queries)
    BY <1>3 DEF PointsInv
  <2>2. points' \in Seq(Attributed(queries))
    <3>1. points \in Seq(Attributed(queries)) /\ <<>> \in Seq(Attributed(queries))
      BY DEF PointsInv
    <3> QED
      BY <1>3, <3>1
  <2> QED
    BY <2>1, <2>2 DEF PointsInv
<1>4. CASE \/ CallFails \/ Throttled \/ Step \/ ContextDone \/ UNCHANGED vars
  <2>1. UNCHANGED queries /\ (points' = points \/ points' = <<>>)
    BY <1>4 DEF CallFails, Throttled, Step, GiveUp, Retry, Sleep, WaitCancelled, NextAttempt,
                ContextDone, Return, vars, resultVars
  <2> QED
    BY <1>3, <2>1
<1> QED
  BY <1>1, <1>2, <1>4 DEF Next, Respond

LEMMA PointsHeld == Spec => []PointsInv
<1>1. Init => PointsInv
  <2>1. DOMAIN <<>> = 1..0 /\ Len(<<>>) = 0
    OBVIOUS
  <2>2. Init => Numbered(queries) /\ points = <<>>
    BY <2>1 DEF Init, Numbered
  <2> QED
    BY <2>2 DEF PointsInv
<1> QED
  BY <1>1, NextPointsInv, TargetsValid, PTL DEF Spec

\* However the service orders its results, whichever of them it repeats, leaves out or
\* invents, and however long they are: a point that Collect returns carries the series of
\* the query it answers, and its own timestamp.
THEOREM PointsKeepSeries == Spec => []PointsAttributed
<1>1. PointsInv => PointsAttributed
  BY DEF PointsInv, PointsAttributed, Attributed
<1> QED
  BY <1>1, PointsHeld, PTL

-----------------------------------------------------------------------------
(* The retry loop.                                                          *)

\* Nothing is returned before the Collect ends, and the counters are counters.
WaitingInv ==
    /\ pc # "idle" => outcome = "none"
    /\ metrics \in [throttledResponses : Nat, retryAttempts : Nat,
                    retryBudgetExceeded : Nat, throttleDrops : Nat]

LEMMA WaitingStep ==
    ASSUME WaitingInv, [Next]_vars
    PROVE  WaitingInv'
<1> DEFINE Counters == [throttledResponses : Nat, retryAttempts : Nat,
                        retryBudgetExceeded : Nat, throttleDrops : Nat]
<1>1. pc' # "idle" => outcome' = "none"
  <2>1. CASE CollectNothing \/ Collect \/ Answered \/ CallFails \/ Throttled
    BY <2>1 DEF WaitingInv, CollectNothing, Collect, Answered, CallFails, Throttled, Return,
                resultVars
  <2>2. CASE Step \/ ContextDone \/ UNCHANGED vars
    BY <2>2 DEF WaitingInv, Step, GiveUp, Retry, Sleep, WaitCancelled, NextAttempt, Return,
                ContextDone, vars, resultVars
  <2> QED
    BY <2>1, <2>2 DEF Next, Respond
<1>2. metrics' \in Counters
  <2> SUFFICES ASSUME metrics \in Counters PROVE metrics' \in Counters
    BY DEF WaitingInv
  <2>1. CASE Throttled
    BY <2>1 DEF Throttled
  <2>2. CASE GiveUp
    <3>1. \/ metrics' = [metrics EXCEPT !.throttleDrops = @ + 1]
          \/ metrics' = [metrics EXCEPT !.throttleDrops = @ + 1, !.retryBudgetExceeded = @ + 1]
      BY <2>2 DEF GiveUp
    <3>2. CASE metrics' = [metrics EXCEPT !.throttleDrops = @ + 1]
      BY <3>2
    <3>3. CASE metrics' = [metrics EXCEPT !.throttleDrops = @ + 1, !.retryBudgetExceeded = @ + 1]
      <4> DEFINE dropped == [metrics EXCEPT !.throttleDrops = @ + 1]
      <4>1. dropped \in Counters
        OBVIOUS
      <4>2. metrics' = [dropped EXCEPT !.retryBudgetExceeded = @ + 1]
        BY <3>3
      <4> HIDE DEF dropped
      <4> QED
        BY <4>1, <4>2
    <3> QED
      BY <3>1, <3>2, <3>3
  <2>3. CASE Retry
    BY <2>3 DEF Retry
  <2>4. CASE ~(Throttled \/ GiveUp \/ Retry)
    BY <2>4 DEF Next, CollectNothing, Collect, Respond, Answered, CallFails, Step, Sleep,
                WaitCancelled, NextAttempt, ContextDone, vars
  <2> QED
    BY <2>1, <2>2, <2>3, <2>4
<1> QED
  BY <1>1, <1>2 DEF WaitingInv

-----------------------------------------------------------------------------
(* The refinement.                                                          *)

\* The defaults are the same.
LEMMA SameDefaults ==
    /\ MaxAttempts = LC!MaxAttempts /\ InitialBackoff = LC!InitialBackoff
    /\ RetryBudget = LC!RetryBudget /\ MaxBackoff = LC!MaxBackoff /\ Jitter = LC!Jitter
    /\ \A b : NextBackoff(b) = LC!NextBackoff(b)
    /\ \A b : JitteredBackoff(b) = LC!JitteredBackoff(b)
<1>1. \A value, default : Or(value, default) = LC!Or(value, default)
  BY DEF Or, LC!Or
<1>2. Jitter = LC!Jitter
  BY <1>1 DEF Jitter, LC!Jitter
<1>3. \A b : JitteredBackoff(b) = LC!JitteredBackoff(b)
  BY <1>2 DEF JitteredBackoff, Jittered, LC!JitteredBackoff, LC!Jittered
<1> QED
  BY <1>1, <1>2, <1>3
  DEF MaxAttempts, InitialBackoff, MaxBackoff, RetryBudget, NextBackoff, Wrap,
      LC!MaxAttempts, LC!InitialBackoff, LC!MaxBackoff, LC!RetryBudget, LC!NextBackoff, LC!Wrap

LEMMA InitRefines == Init => LC!Init
BY SameDefaults DEF Init, LC!Init, LC!Pages

LEMMA CollectRefines ==
    ASSUME CollectNothing \/ Collect
    PROVE  LC!Next
<1>1. CASE CollectNothing
  BY <1>1 DEF CollectNothing, LC!Next, LC!RejectRequest, LC!retryVars, LC!counters, retryVars
<1>2. CASE Collect
  BY <1>2, SameDefaults DEF Collect, LC!Next, LC!Collect, LC!Pages, LC!counters
<1> QED
  BY <1>1, <1>2

LEMMA RespondRefines ==
    ASSUME WaitingInv, Respond
    PROVE  LC!Next
<1> USE DEF WaitingInv, retryVars, LC!retryVars, LC!counters
<1>1. CASE Answered
  <2>1. Append(<<>>, First) = <<First>>
    OBVIOUS
  <2>2. LC!PageOK
    BY <1>1, <2>1 DEF Answered, LC!PageOK, LC!Return, LC!Pages
  <2> QED
    BY <2>2 DEF LC!Next, LC!Respond
<1>2. CASE CallFails
  BY <1>2 DEF CallFails, Return, LC!CallFails, LC!Return, LC!Next, LC!Respond
<1>3. CASE Throttled
  BY <1>3 DEF Throttled, resultVars, LC!Throttled, LC!collectVars, LC!Next, LC!Respond
<1> QED
  BY <1>1, <1>2, <1>3 DEF Respond

LEMMA StepRefines ==
    ASSUME WaitingInv, Step
    PROVE  LC!Next
<1> USE SameDefaults DEF WaitingInv, retryVars, resultVars, LC!collectVars, LC!retryVars, LC!counters
<1>1. CASE GiveUp
  BY <1>1 DEF GiveUp, Return, LC!GiveUp, LC!Return, LC!Next, LC!Step
<1>2. CASE Retry
  BY <1>2 DEF Retry, LC!Retry, LC!Next, LC!Step
<1>3. CASE Sleep
  BY <1>3 DEF Sleep, LC!Sleep, LC!Next, LC!Step
<1>4. CASE WaitCancelled
  BY <1>4 DEF WaitCancelled, Return, LC!WaitCancelled, LC!Return, LC!Next, LC!Step
<1>5. CASE NextAttempt
  BY <1>5 DEF NextAttempt, LC!NextAttempt, LC!Next, LC!Step
<1> QED
  BY <1>1, <1>2, <1>3, <1>4, <1>5 DEF Step

LEMMA OtherRefines ==
    ASSUME ContextDone \/ UNCHANGED vars
    PROVE  [LC!Next]_LC!vars
<1> USE DEF retryVars, resultVars, LC!collectVars, LC!retryVars, LC!counters
<1>1. CASE ContextDone
  BY <1>1 DEF ContextDone, LC!ContextDone, LC!Next
<1>2. CASE UNCHANGED vars
  BY <1>2 DEF vars, LC!vars
<1> QED
  BY <1>1, <1>2

\* The collector for metrics takes only steps that the one for logs would take with a
\* single page: the two copies of the retry loop agree.
THEOREM RetryLoopsAgree == Spec => LC!Spec
<1>1. Init => LC!Init /\ WaitingInv
  BY InitRefines DEF Init, WaitingInv
<1>2. WaitingInv /\ [Next]_vars => WaitingInv' /\ [LC!Next]_LC!vars
  BY WaitingStep, CollectRefines, RespondRefines, StepRefines, OtherRefines DEF Next
<1> QED
  BY <1>1, <1>2, PTL DEF Spec, LC!Spec

-----------------------------------------------------------------------------
(* What was proved of the other loop.                                       *)

Logs == INSTANCE LogsCollectorProofs WITH
        Tokens <- {}, First <- First, NoToken <- NoToken,
        chain <- [p \in {First} |-> NoToken],
        nextToken <- First, seenToken <- {},
        records <- IF outcome = "ok" THEN <<First>> ELSE <<>>,
        throttledResponses <- metrics.throttledResponses,
        retryAttempts <- metrics.retryAttempts,
        retryBudgetExceeded <- metrics.retryBudgetExceeded,
        throttleDrops <- metrics.throttleDrops,
        outcome <- IF outcome = "nothing" THEN "invalid" ELSE outcome

\* What LogsCollector assumes of its constants holds of those given to it here.
LEMMA LogsAssumptions ==
    Logs!PageAssumption /\ Logs!ConfigAssumption /\ Logs!DurationAssumption
<1>1. Logs!PageAssumption
  <2>1. Logs!IsFiniteSet({})
    <3>1. <<>> \in Seq({})
      OBVIOUS
    <3> QED
      BY <3>1 DEF Logs!IsFiniteSet
  <2>2. First \notin {} /\ NoToken \notin Logs!Pages
    BY DEF Logs!Pages, First, NoToken
  <2> QED
    BY <2>1, <2>2, RoundsAssumption DEF Logs!PageAssumption
<1>2. Logs!ConfigAssumption /\ Logs!DurationAssumption
  BY ConfigAssumption, DurationAssumption DEF Logs!ConfigAssumption, Logs!DurationAssumption
<1> QED
  BY <1>1, <1>2

LEMMA LogsSame ==
    /\ LC!MaxAttempts = Logs!MaxAttempts /\ LC!InitialBackoff = Logs!InitialBackoff
    /\ LC!MaxBackoff = Logs!MaxBackoff /\ LC!RetryBudget = Logs!RetryBudget
    /\ LC!Pages = Logs!Pages /\ LC!Jitter = Logs!Jitter
    /\ \A b : LC!NextBackoff(b) = Logs!NextBackoff(b)
    /\ \A b : LC!JitteredBackoff(b) = Logs!JitteredBackoff(b)
<1>1. \A value, default : LC!Or(value, default) = Logs!Or(value, default)
  BY DEF LC!Or, Logs!Or
<1>2. LC!Jitter = Logs!Jitter
  BY <1>1 DEF LC!Jitter, Logs!Jitter
<1>3. \A b : LC!JitteredBackoff(b) = Logs!JitteredBackoff(b)
  BY <1>2 DEF LC!JitteredBackoff, LC!Jittered, Logs!JitteredBackoff, Logs!Jittered
<1> QED
  BY <1>1, <1>2, <1>3
  DEF LC!MaxAttempts, LC!InitialBackoff, LC!MaxBackoff, LC!RetryBudget, LC!NextBackoff,
      LC!Wrap, LC!Pages,
      Logs!MaxAttempts, Logs!InitialBackoff, Logs!MaxBackoff, Logs!RetryBudget,
      Logs!NextBackoff, Logs!Wrap, Logs!Pages

LEMMA LogsSpec == LC!Spec => Logs!Spec
<1>1. LC!Init => Logs!Init
  BY LogsSame DEF LC!Init, Logs!Init
<1>2. [LC!Next]_LC!vars => [Logs!Next]_Logs!vars
  BY LogsSame
  DEF LC!Next, LC!RejectRequest, LC!Collect, LC!BeginPage, LC!Respond, LC!PageOK, LC!Return,
      LC!CallFails, LC!Throttled, LC!Step, LC!GiveUp, LC!Retry, LC!Sleep, LC!WaitCancelled,
      LC!NextAttempt, LC!ContextDone, LC!vars, LC!collectVars, LC!retryVars, LC!counters,
      Logs!Next, Logs!RejectRequest, Logs!Collect, Logs!BeginPage, Logs!Respond,
      Logs!PageOK, Logs!Return, Logs!CallFails, Logs!Throttled, Logs!Step, Logs!GiveUp,
      Logs!Retry, Logs!Sleep, Logs!WaitCancelled, Logs!NextAttempt, Logs!ContextDone,
      Logs!vars, Logs!collectVars, Logs!retryVars, Logs!counters
<1> QED
  BY <1>1, <1>2, PTL DEF LC!Spec, Logs!Spec

\* The counters and the budget of a Collect obey what was proved of the log collector:
\* all its requests but the first are paid for with the budget, every throttled response
\* is retried or dropped, and the waits grow.
THEOREM RequestsAndCounters ==
    Spec => /\ [](calls <= 1 + RetryBudget)
            /\ []LC!CountersBalanced
            /\ []LC!WaitGrows
<1>1. Spec => [](Logs!CallsBounded /\ Logs!CountersBalanced /\ Logs!WaitGrows)
  BY RetryLoopsAgree, LogsSpec, LogsAssumptions, Logs!RequestsBounded, Logs!Balanced,
     Logs!WaitsGrow, PTL
<1>2. Logs!CallsBounded => calls <= 1 + RetryBudget
  <2>1. Logs!Cardinality(Logs!Pages) = 1
    BY Logs!FS_Singleton, LogsAssumptions DEF Logs!Pages
  <2>2. Logs!RetryBudget = RetryBudget
    BY SameDefaults, LogsSame
  <2> QED
    BY <2>1, <2>2 DEF Logs!CallsBounded
<1>3. Logs!CountersBalanced => LC!CountersBalanced
  BY DEF Logs!CountersBalanced, LC!CountersBalanced
<1>4. Logs!WaitGrows => LC!WaitGrows
  BY LogsSame DEF Logs!WaitGrows, LC!WaitGrows
<1> QED
  BY <1>1, <1>2, <1>3, <1>4, PTL

-----------------------------------------------------------------------------
(* Type correctness.                                                        *)

Outcomes == {"none", "ok", "error", "exhausted", "cancelled", "nothing"}

\* The collector is type correct: the attempt, the backoff and the budget stay within
\* what the settings or their defaults allow, and a point is one that was asked for.
THEOREM TypeCorrect == Spec => []TypeOK
<1>1. Spec => []Logs!TypeOK
  BY RetryLoopsAgree, LogsSpec, LogsAssumptions, Logs!TypeCorrect, PTL
<1>2. Spec => []WaitingInv
  <2>1. Init => WaitingInv
    BY DEF Init, WaitingInv
  <2> QED
    BY <2>1, WaitingStep, PTL DEF Spec
<1>3. Spec => [](outcome \in Outcomes)
  <2>1. Init => outcome \in Outcomes
    BY DEF Init, Outcomes
  <2>2. outcome \in Outcomes /\ [Next]_vars => (outcome \in Outcomes)'
    BY DEF Outcomes, Next, CollectNothing, Collect, Respond, Answered, CallFails, Throttled,
           Step, GiveUp, Retry, Sleep, WaitCancelled, NextAttempt, ContextDone, Return, vars,
           resultVars
  <2> QED
    BY <2>1, <2>2, PTL DEF Spec
<1>4. Logs!TypeOK /\ WaitingInv /\ outcome \in Outcomes /\ PointsInv => TypeOK
  <2> SUFFICES ASSUME Logs!TypeOK, WaitingInv, outcome \in Outcomes, PointsInv
               PROVE  TypeOK
    OBVIOUS
  <2>1. /\ Logs!MaxAttempts = MaxAttempts /\ Logs!InitialBackoff = InitialBackoff
        /\ Logs!MaxBackoff = MaxBackoff /\ Logs!RetryBudget = RetryBudget
    BY SameDefaults, LogsSame
  <2>2. /\ cfg \in Configs /\ attempt \in 1..MaxAttempts /\ remainingBudget \in 0..RetryBudget
        /\ calls \in Nat /\ rounds \in 0..MaxRounds
        /\ pc \in {"idle", "call", "throttled", "wait", "slept"} /\ ctxDone \in BOOLEAN
    BY <2>1 DEF Logs!TypeOK, Logs!PCs
  <2>3. backoff \in InitialBackoff..MaxBackoff /\ delay \in 0..MaxDuration
    BY <2>1 DEF Logs!TypeOK
  <2>4. \A counter \in DOMAIN metrics : metrics[counter] \in Nat
    BY DEF WaitingInv
  <2>5. \A i \in DOMAIN points : points[i].series \in {queries[k].asks : k \in DOMAIN queries}
    BY DEF PointsInv, Attributed
  <2> QED
    BY <2>2, <2>3, <2>4, <2>5 DEF TypeOK, Outcomes
<1> QED
  BY <1>1, <1>2, <1>3, <1>4, PointsHeld, PTL
=============================================================================
