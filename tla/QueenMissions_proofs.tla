--------------------------- MODULE QueenMissions_proofs ---------------------------
(* Theorems about QueenMissions: types, admission, what a lone issuer keeps,  *)
(* and how far issuers that race can overdraw the capital of the colony. The   *)
(* sums of capital they speak of come first: that a sum has a value, and which. *)
EXTENDS QueenMissions, FiniteSetTheorems, WellFoundedInduction, TLAPS

--------------------------------------------------------------------------------
(* The least of a set of numbers. *)

LessNat == {pair \in Nat \X Nat : pair[1] < pair[2]}

\* A set of natural numbers has a least one.
LEMMA LeastNat ==
  ASSUME NEW S, S \subseteq Nat, S # {}
  PROVE  \E x \in S : \A y \in S : x <= y
<1>1. IsWellFoundedOn(LessNat, Nat)
  BY NatLessThanWellFounded, Zenon DEF OpToRel, LessNat
<1>2. PICK x \in S : \A y \in S : ~ (<<y, x>> \in LessNat)
  BY <1>1, WFMin, Zenon
<1>3. \A y \in S : y \in Nat /\ x \in Nat /\ (y < x => <<y, x>> \in LessNat)
  BY DEF LessNat
<1>4. \A y \in S : ~ (y < x)
  BY <1>2, <1>3, Zenon
<1> QED BY <1>3, <1>4

--------------------------------------------------------------------------------
(* The sum of a function over a finite set.                                    *)

Some(s) == CHOOSE x \in s : TRUE

SumOf(fun, sums, s) == IF s = {} THEN 0 ELSE fun[Some(s)] + sums[s \ {Some(s)}]

\* The sums over the subsets of S are those of the subsets smaller by one.
SumsUp(fun, S, sums) == sums = [s \in SUBSET S |-> SumOf(fun, sums, s)]

LEMMA SumIsChosen ==
  ASSUME NEW fun, NEW S
  PROVE  SumFunctionOnSet(fun, S) = (CHOOSE sums : SumsUp(fun, S, sums))[S]
BY Zenon DEF SumFunctionOnSet, FoldFunctionOnSet, MapThenFoldSet, SumsUp, SumOf, Some

\* What is left of a set without some element is smaller by one.
LEMMA SomeLeft ==
  ASSUME NEW s, IsFiniteSet(s), s # {}
  PROVE  /\ Some(s) \in s /\ IsFiniteSet(s \ {Some(s)})
         /\ Cardinality(s) \in Nat \ {0} /\ Cardinality(s \ {Some(s)}) = Cardinality(s) - 1
<1>1. Some(s) \in s
  BY Zenon DEF Some
<1>2. IsFiniteSet(s \ {Some(s)}) /\ Cardinality(s \ {Some(s)}) = Cardinality(s) - 1
  BY <1>1, FS_RemoveElement
<1>3. Cardinality(s) \in Nat /\ Cardinality(s) # 0
  BY FS_CardinalityType, FS_EmptySet
<1>4. QED
  BY <1>1, <1>2, <1>3

\* The sets that are summed by a number of additions.
UpTo(S, n) == {s \in SUBSET S : Cardinality(s) <= n}

LEMMA SumExists ==
  ASSUME NEW fun, NEW S, IsFiniteSet(S)
  PROVE  \E sums : SumsUp(fun, S, sums)
<1> DEFINE Up(sums, n) == sums = [s \in UpTo(S, n) |-> SumOf(fun, sums, s)]
           Never == {n \in Nat : ~ \E sums : Up(sums, n)}
<1>1. \A s \in SUBSET S : IsFiniteSet(s) /\ Cardinality(s) \in Nat /\ Cardinality(s) <= Cardinality(S)
  BY FS_Subset, FS_CardinalityType
<1>2. Never = {}
  <2> SUFFICES ASSUME Never # {} PROVE FALSE
    OBVIOUS
  <2>1. PICK n \in Never : \A m \in Never : n <= m
    BY LeastNat
  <2>2. n \in Nat /\ ~ \E sums : Up(sums, n)
    OBVIOUS
  <2>3. CASE n = 0
    <3> DEFINE zero == [s \in UpTo(S, 0) |-> 0]
    <3>1. \A s \in UpTo(S, 0) : s = {}
      BY <1>1, FS_EmptySet DEF UpTo
    <3>2. \A s \in UpTo(S, 0) : SumOf(fun, zero, s) = 0
      BY <3>1 DEF SumOf
    <3>3. zero = [s \in UpTo(S, 0) |-> SumOf(fun, zero, s)]
      BY <3>2
    <3> HIDE DEF zero
    <3>4. QED
      BY <2>2, <2>3, <3>3
  <2>4. CASE n # 0
    <3>1. n - 1 \in Nat /\ n - 1 \notin Never
      BY <2>1, <2>2, <2>4
    <3>2. PICK sums : Up(sums, n - 1)
      BY <3>1
    <3> DEFINE more == [s \in UpTo(S, n) |-> SumOf(fun, sums, s)]
    <3>3. ASSUME NEW s \in UpTo(S, n) PROVE SumOf(fun, more, s) = SumOf(fun, sums, s)
      <4>1. CASE s = {}
        BY <4>1 DEF SumOf
      <4>2. CASE s # {}
        <5> DEFINE less == s \ {Some(s)}
        <5>1. less \in UpTo(S, n) /\ less \in UpTo(S, n - 1)
          <6>1. s \in SUBSET S /\ IsFiniteSet(s) /\ Cardinality(s) <= n
            BY <1>1 DEF UpTo
          <6>2. Cardinality(s) \in Nat \ {0} /\ Cardinality(less) = Cardinality(s) - 1
            BY <4>2, <6>1, SomeLeft
          <6>3. QED
            BY <2>2, <6>1, <6>2 DEF UpTo
        <5> HIDE DEF less
        <5>2. sums[less] = SumOf(fun, sums, less)
          <6> DEFINE down == [q \in UpTo(S, n - 1) |-> SumOf(fun, sums, q)]
          <6>1. down[less] = SumOf(fun, sums, less)
            BY <5>1
          <6>2. sums = down
            BY <3>2, Zenon
          <6>3. QED
            BY <6>1, <6>2, Zenon
        <5>3. more[less] = SumOf(fun, sums, less)
          BY <5>1
        <5> HIDE DEF more
        <5>4. more[less] = sums[less]
          BY <5>2, <5>3
        <5>5. SumOf(fun, more, s) = fun[Some(s)] + more[less] /\ SumOf(fun, sums, s) = fun[Some(s)] + sums[less]
          BY <4>2 DEF SumOf, less
        <5>6. QED
          BY <5>4, <5>5
      <4>3. QED
        BY <4>1, <4>2
    <3>4. more = [s \in UpTo(S, n) |-> SumOf(fun, more, s)]
      BY <3>3
    <3> HIDE DEF more
    <3>5. QED
      BY <2>2, <3>4
  <2>5. QED
    BY <2>3, <2>4
<1> HIDE DEF Never
<1>3. Cardinality(S) \in Nat
  BY FS_CardinalityType
<1>4. PICK sums : Up(sums, Cardinality(S))
  BY <1>2, <1>3 DEF Never
<1>5. UpTo(S, Cardinality(S)) = SUBSET S
  BY <1>1 DEF UpTo
<1>6. SumsUp(fun, S, sums)
  BY <1>4, <1>5 DEF SumsUp
<1>7. QED
  BY <1>6

\* A solution at each of the subsets.
LEMMA SumsUpEach ==
  ASSUME NEW fun, NEW S, NEW sums, SumsUp(fun, S, sums), NEW s \in SUBSET S
  PROVE  sums[s] = SumOf(fun, sums, s)
<1> DEFINE down == [q \in SUBSET S |-> SumOf(fun, sums, q)]
<1>1. down[s] = SumOf(fun, sums, s)
  OBVIOUS
<1>2. sums = down
  BY Zenon DEF SumsUp
<1>3. QED
  BY <1>1, <1>2, Zenon

\* What a solution for S says of a subset is what a solution for that subset says.
LEMMA SumsAgree ==
  ASSUME NEW fun, NEW S, IsFiniteSet(S), NEW T \in SUBSET S, NEW f, NEW g,
         SumsUp(fun, S, f), SumsUp(fun, T, g)
  PROVE  f[T] = g[T]
<1> DEFINE Never == {n \in Nat : \E s \in SUBSET T : Cardinality(s) = n /\ f[s] # g[s]}
<1>1. \A s \in SUBSET T : s \in SUBSET S /\ IsFiniteSet(s) /\ Cardinality(s) \in Nat
  BY FS_Subset, FS_CardinalityType
<1>2. \A s \in SUBSET T : f[s] = SumOf(fun, f, s) /\ g[s] = SumOf(fun, g, s)
  BY <1>1, SumsUpEach
<1>3. Never = {}
  <2> SUFFICES ASSUME Never # {} PROVE FALSE
    OBVIOUS
  <2>1. PICK n \in Never : \A m \in Never : n <= m
    BY LeastNat
  <2>2. PICK s \in SUBSET T : Cardinality(s) = n /\ f[s] # g[s]
    OBVIOUS
  <2>3. s # {}
    BY <1>2, <2>2 DEF SumOf
  <2> DEFINE less == s \ {Some(s)}
  <2>4. IsFiniteSet(s) /\ n \in Nat
    BY <1>1, <2>2
  <2>5. Some(s) \in s /\ Cardinality(less) = n - 1 /\ n \in Nat \ {0}
    BY <2>2, <2>3, <2>4, SomeLeft
  <2>6. n - 1 \notin Never /\ n - 1 \in Nat /\ less \in SUBSET T
    BY <2>1, <2>5
  <2>7. f[less] = g[less]
    BY <2>5, <2>6
  <2>8. f[s] = fun[Some(s)] + f[less] /\ g[s] = fun[Some(s)] + g[less]
    BY <1>2, <2>3 DEF SumOf
  <2>9. QED
    BY <2>2, <2>7, <2>8
<1> HIDE DEF Never
<1>4. T \in SUBSET T /\ Cardinality(T) \in Nat
  BY <1>1
<1>5. QED
  BY <1>3, <1>4 DEF Never

\* The sum of a set is that of an element and the rest.
LEMMA SumMeets ==
  ASSUME NEW fun, NEW S, IsFiniteSet(S)
  PROVE  SumFunctionOnSet(fun, S) =
           IF S = {} THEN 0 ELSE fun[Some(S)] + SumFunctionOnSet(fun, S \ {Some(S)})
<1> DEFINE f == CHOOSE sums : SumsUp(fun, S, sums)
           less == S \ {Some(S)}
           g == CHOOSE sums : SumsUp(fun, less, sums)
<1>1. IsFiniteSet(less) /\ less \in SUBSET S
  BY FS_Subset
<1>2. SumFunctionOnSet(fun, S) = f[S] /\ SumFunctionOnSet(fun, less) = g[less]
  BY SumIsChosen, Zenon
<1>3. SumsUp(fun, S, f)
  BY SumExists, Zenon
<1> HIDE DEF less
<1>4. SumsUp(fun, less, g)
  BY <1>1, SumExists, Zenon
<1> HIDE DEF f, g
<1>5. f[S] = SumOf(fun, f, S)
  BY <1>3, SumsUpEach
<1>6. f[less] = g[less]
  BY <1>1, <1>3, <1>4, SumsAgree
<1>7. QED
  BY <1>2, <1>5, <1>6 DEF SumOf, less

LEMMA SumType ==
  ASSUME NEW fun, NEW S, IsFiniteSet(S), NEW T, 0 \in T, \A x, y \in T : x + y \in T,
         \A x \in S : fun[x] \in T
  PROVE  SumFunctionOnSet(fun, S) \in T
<1> DEFINE Sums(s) == SumFunctionOnSet(fun, s)
           Never == {n \in Nat : \E s \in SUBSET S : Cardinality(s) = n /\ Sums(s) \notin T}
<1>1. \A s \in SUBSET S : IsFiniteSet(s) /\ Cardinality(s) \in Nat
  BY FS_Subset, FS_CardinalityType
<1>2. \A s \in SUBSET S : Sums(s) = IF s = {} THEN 0 ELSE fun[Some(s)] + Sums(s \ {Some(s)})
  BY <1>1, SumMeets
<1> HIDE DEF Sums
<1>3. Never = {}
  <2> SUFFICES ASSUME Never # {} PROVE FALSE
    OBVIOUS
  <2>1. PICK n \in Never : \A m \in Never : n <= m
    BY LeastNat
  <2>2. PICK s \in SUBSET S : Cardinality(s) = n /\ Sums(s) \notin T
    OBVIOUS
  <2>3. s # {}
    BY <1>2, <2>2
  <2> DEFINE less == s \ {Some(s)}
  <2>4. IsFiniteSet(s) /\ n \in Nat
    BY <1>1, <2>2
  <2>5. Some(s) \in s /\ Cardinality(less) = n - 1 /\ n \in Nat \ {0}
    BY <2>2, <2>3, <2>4, SomeLeft
  <2>6. n - 1 \notin Never /\ n - 1 \in Nat /\ less \in SUBSET S
    BY <2>1, <2>5
  <2>7. Sums(less) \in T /\ fun[Some(s)] \in T
    BY <2>5, <2>6
  <2>8. Sums(s) = fun[Some(s)] + Sums(less)
    BY <1>2, <2>3
  <2>9. QED
    BY <2>2, <2>7, <2>8
<1> HIDE DEF Never
<1>4. S \in SUBSET S /\ Cardinality(S) \in Nat
  BY <1>1
<1>5. Sums(S) \in T
  BY <1>3, <1>4 DEF Never
<1>6. QED
  BY <1>5 DEF Sums

\* It does not matter which element is taken first.
LEMMA SumOfAny ==
  ASSUME NEW fun, NEW S, IsFiniteSet(S), \A x \in S : fun[x] \in Int, NEW x \in S
  PROVE  SumFunctionOnSet(fun, S) = fun[x] + SumFunctionOnSet(fun, S \ {x})
<1> DEFINE Sums(s) == SumFunctionOnSet(fun, s)
           Differs(s, y) == Sums(s) # fun[y] + Sums(s \ {y})
           Never == {n \in Nat : \E s \in SUBSET S : Cardinality(s) = n /\ \E y \in s : Differs(s, y)}
<1>1. \A s \in SUBSET S : IsFiniteSet(s) /\ Cardinality(s) \in Nat
  BY FS_Subset, FS_CardinalityType
<1>2. \A s \in SUBSET S : Sums(s) = IF s = {} THEN 0 ELSE fun[Some(s)] + Sums(s \ {Some(s)})
  BY <1>1, SumMeets
<1>3. ASSUME NEW s \in SUBSET S PROVE Sums(s) \in Int
  <2>1. 0 \in Int /\ (\A y, z \in Int : y + z \in Int) /\ \A y \in s : fun[y] \in Int
    OBVIOUS
  <2>2. QED
    BY <1>1, <2>1, SumType
<1> HIDE DEF Sums
<1>4. Never = {}
  <2> SUFFICES ASSUME Never # {} PROVE FALSE
    OBVIOUS
  <2>1. PICK n \in Never : \A m \in Never : n <= m
    BY LeastNat
  <2>2. PICK s \in SUBSET S : Cardinality(s) = n /\ \E y \in s : Differs(s, y)
    OBVIOUS
  <2>3. PICK y \in s : Sums(s) # fun[y] + Sums(s \ {y})
    BY <2>2
  <2> DEFINE c == Some(s)
             less == s \ {c}
             rest == s \ {y}
  <2>4. IsFiniteSet(s) /\ n \in Nat /\ s # {}
    BY <1>1, <2>2, <2>3
  <2>5. c \in s /\ Cardinality(less) = n - 1 /\ n \in Nat \ {0}
    BY <2>2, <2>4, SomeLeft
  <2>6. Sums(s) = fun[c] + Sums(less)
    BY <1>2, <2>4
  <2> HIDE DEF c
  <2>7. c # y
    BY <2>3, <2>6
  <2>8. Cardinality(rest) = n - 1
    BY <2>2, <2>4, FS_RemoveElement
  <2>9. n - 1 \notin Never /\ n - 1 \in Nat /\ less \in SUBSET S /\ rest \in SUBSET S
    BY <2>1, <2>5
  <2>10. Sums(less) = fun[y] + Sums(less \ {y})
    <3>1. y \in less
      BY <2>7
    <3>2. QED
      BY <2>5, <2>9, <3>1
  <2>11. Sums(rest) = fun[c] + Sums(rest \ {c})
    <3>1. c \in rest
      BY <2>5, <2>7
    <3>2. QED
      BY <2>8, <2>9, <3>1
  <2>12. less \ {y} = rest \ {c} /\ less \ {y} \in SUBSET S
    OBVIOUS
  <2>13. fun[c] \in Int /\ fun[y] \in Int /\ Sums(less \ {y}) \in Int
    BY <1>3, <2>5, <2>12
  <2> HIDE DEF less, rest
  <2>14. fun[c] + (fun[y] + Sums(less \ {y})) = fun[y] + (fun[c] + Sums(less \ {y}))
    BY <2>13
  <2>15. Sums(s) = fun[y] + Sums(rest)
    BY <2>6, <2>10, <2>11, <2>12, <2>14
  <2>16. QED
    BY <2>3, <2>15 DEF rest
<1> HIDE DEF Never
<1>5. S \in SUBSET S /\ Cardinality(S) \in Nat
  BY <1>1
<1>6. ~Differs(S, x)
  BY <1>4, <1>5 DEF Never
<1>7. QED
  BY <1>6 DEF Sums

\* What the proofs use of the sum of capital.
LEMMA SumFacts ==
  /\ Sum({}) = 0
  /\ \A S \in SUBSET Missions :
       /\ Sum(S) \in Nat
       /\ \A m \in Missions \ S : Sum(S \cup {m}) = Sum(S) + CapitalOf[m]
<1>1. \A m \in Missions : CapitalOf[m] \in Nat
  BY MissionAssumption
<1>2. Sum({}) = 0
  BY SumMeets, FS_EmptySet DEF Sum
<1>3. ASSUME NEW S \in SUBSET Missions PROVE IsFiniteSet(S) /\ Sum(S) \in Nat
  <2>1. IsFiniteSet(S)
    BY MissionAssumption, FS_Subset
  <2>2. 0 \in Nat /\ (\A x, y \in Nat : x + y \in Nat) /\ \A m \in S : CapitalOf[m] \in Nat
    BY <1>1
  <2>3. SumFunctionOnSet(CapitalOf, S) \in Nat
    BY <2>1, <2>2, SumType
  <2>4. QED
    BY <2>1, <2>3 DEF Sum
<1>4. ASSUME NEW S \in SUBSET Missions, NEW m \in Missions \ S
      PROVE  Sum(S \cup {m}) = Sum(S) + CapitalOf[m]
  <2> DEFINE more == S \cup {m}
  <2>1. more \in SUBSET Missions /\ m \in more /\ more \ {m} = S
    OBVIOUS
  <2>2. IsFiniteSet(more) /\ \A n \in more : CapitalOf[n] \in Int
    BY <1>1, <1>3, <2>1
  <2> HIDE DEF more
  <2>3. SumFunctionOnSet(CapitalOf, more) = CapitalOf[m] + SumFunctionOnSet(CapitalOf, more \ {m})
    BY <2>1, <2>2, SumOfAny
  <2>4. Sum(S) \in Nat /\ CapitalOf[m] \in Nat
    BY <1>1, <1>3
  <2>5. Sum(more) = CapitalOf[m] + Sum(S)
    BY <2>1, <2>3 DEF Sum
  <2>6. QED
    BY <2>4, <2>5 DEF more
<1>5. QED
  BY <1>2, <1>3, <1>4

--------------------------------------------------------------------------------
(* The types of the Queen's books. *)

Checking == {"duplicate", "node", "ant_type", "biome", "capital", "biome_capital", "insert"}

\* A check leaves everything alone but the call of its issuer.
LEMMA CheckEffect ==
  ASSUME QueenTypeOK, NEW c \in Issuers, NEW here \in Checking, NEW holds,
         NEW next \in Checking, Check(c, here, holds, next)
  PROVE  /\ UNCHANGED <<active, limit, plan, nodes, squeezed, touched, idVars>>
         /\ pc[c] = here /\ arg[c] \in Missions
         /\ \/ holds /\ pc' = [pc EXCEPT ![c] = next] /\ arg' = arg
            \/ ~holds /\ pc' = [pc EXCEPT ![c] = "idle"] /\ arg' = [arg EXCEPT ![c] = None]
BY Zenon DEF Check, QueenTypeOK, Checking

LEMMA CheckTyped ==
  ASSUME QueenTypeOK, NEW c \in Issuers, NEW here \in Checking, NEW holds,
         NEW next \in Checking, Check(c, here, holds, next),
         seen' \in [Issuers -> SUBSET Missions]
  PROVE  QueenTypeOK'
<1>1. None \notin Missions
  BY MissionAssumption
<1>2. UNCHANGED <<active, limit, plan, nodes, squeezed, touched, idVars>>
  BY CheckEffect
<1>3. /\ pc' \in [Issuers -> {"idle", "duplicate", "node", "ant_type", "biome",
                              "capital", "biome_capital", "insert"}]
      /\ arg' \in [Issuers -> Missions \cup {None}]
      /\ \A d \in Issuers : pc'[d] = "idle" <=> arg'[d] = None
  BY <1>1, CheckEffect DEF QueenTypeOK, Checking
<1>4. QED
  BY <1>2, <1>3 DEF QueenTypeOK, RegistryTypeOK, idVars

LEMMA GiveLimitTyped ==
  ASSUME QueenTypeOK, NEW b \in Biomes, NEW x \in Limits, GiveLimit(b, x)
  PROVE  /\ limit' \in [Biomes -> Limits \cup {None}]
         /\ squeezed' \subseteq Biomes
BY DEF QueenTypeOK, GiveLimit

LEMMA IssueTyped ==
  ASSUME QueenTypeOK, NEW c \in Issuers, Issue(c)
  PROVE  QueenTypeOK'
<1>1. seen \in [Issuers -> SUBSET Missions] /\ active \subseteq Missions
  BY DEF QueenTypeOK
<1>2. [seen EXCEPT ![c] = active] \in [Issuers -> SUBSET Missions]
  BY <1>1
<1>3. CASE CheckDuplicate(c)
  BY <1>1, <1>3, CheckTyped DEF CheckDuplicate, Checking
<1>4. CASE CheckNode(c)
  BY <1>1, <1>4, CheckTyped DEF CheckNode, Checking
<1>5. CASE CheckAntType(c)
  BY <1>1, <1>5, CheckTyped DEF CheckAntType, Checking
<1>6. CASE CheckBiome(c)
  BY <1>2, <1>6, CheckTyped DEF CheckBiome, Checking
<1>7. CASE CheckCapital(c)
  BY <1>2, <1>7, CheckTyped DEF CheckCapital, Checking
<1>8. CASE CheckBiomeCapital(c)
  BY <1>1, <1>8, CheckTyped DEF CheckBiomeCapital, Checking
<1>9. CASE Insert(c)
  <2>1. /\ active' \subseteq Missions /\ accepted' \subseteq Missions /\ overtaken' \subseteq Missions
        /\ outrun' \in [Issuers -> SUBSET Missions]
    BY <1>9 DEF Insert, QueenTypeOK
  <2>2. QED
    BY <1>9, <2>1, MissionAssumption DEF Insert, QueenTypeOK, RegistryTypeOK
<1>10. QED
  BY <1>3, <1>4, <1>5, <1>6, <1>7, <1>8, <1>9 DEF Issue

\* Every step keeps the Queen's books, the register and the calls well typed.
THEOREM QueenTypeCorrect == QueenSpec => []QueenTypeOK
<1>1. QueenInit => QueenTypeOK
  BY MissionAssumption DEF QueenInit, QueenTypeOK, RegistryInit, RegistryTypeOK
<1>2. ASSUME QueenTypeOK, [QueenNext]_queenVars PROVE QueenTypeOK'
  <2> USE <1>2, MissionAssumption
  <2>1. ASSUME NEW c \in Issuers, NEW m \in Missions, Call(c, m) PROVE QueenTypeOK'
    BY <2>1 DEF Call, QueenTypeOK, RegistryTypeOK
  <2>2. ASSUME NEW c \in Issuers, Issue(c) PROVE QueenTypeOK'
    BY <2>2, IssueTyped
  <2>3. ASSUME NEW m \in Missions, Revoke(m) PROVE QueenTypeOK'
    BY <2>3 DEF Revoke, callVars, QueenTypeOK, RegistryTypeOK
  <2>4. ASSUME NEW b \in Biomes, NEW x \in Limits, SetBiomeCapital(b, x) PROVE QueenTypeOK'
    BY <2>4, GiveLimitTyped DEF SetBiomeCapital, callVars, idVars, QueenTypeOK, RegistryTypeOK
  <2>5. ASSUME NEW limits \in Plans, ApplyPlan(limits) PROVE QueenTypeOK'
    BY <2>5 DEF ApplyPlan, callVars, idVars, QueenTypeOK, RegistryTypeOK
  <2>6. CASE PlanStep
    <3>1. PICK entry \in plan : GiveLimit(entry[1], entry[2]) /\ plan' = plan \ {entry}
      BY <2>6 DEF PlanStep
    <3>2. entry[1] \in Biomes /\ entry[2] \in Limits
      BY <3>1 DEF QueenTypeOK
    <3>3. QED
      BY <2>6, <3>1, <3>2, GiveLimitTyped DEF PlanStep, callVars, idVars, QueenTypeOK, RegistryTypeOK
  <2>7. ASSUME NEW n \in Nodes, RegistryStep(n) PROVE QueenTypeOK'
    <3>1. \A p \in Permits, s \in NodeStatus : RegistryCall(Register(n, s, p)) => RegistryTypeOK'
      BY DEF RegistryCall, Register, QueenTypeOK, RegistryTypeOK
    <3>2. RegistryCall(Unregister(n)) => RegistryTypeOK'
      BY DEF RegistryCall, Unregister, QueenTypeOK, RegistryTypeOK
    <3>3. nodes[n] # Unknown => nodes[n] \in [status : NodeStatus, permit : Permits]
      BY DEF QueenTypeOK, RegistryTypeOK
    <3>4. \A s \in NodeStatus : RegistryCall(SetStatus(n, s)) => RegistryTypeOK'
      BY <3>3 DEF RegistryCall, SetStatus, QueenTypeOK, RegistryTypeOK
    <3>5. RegistryCall(NodeHeartbeat(n)) => RegistryTypeOK'
      <4> SUFFICES ASSUME RegistryCall(NodeHeartbeat(n)) PROVE RegistryTypeOK'
        OBVIOUS
      <4>1. nodes' = [nodes EXCEPT ![n] = [nodes[n] EXCEPT !.status = "active"]]
        BY DEF RegistryCall, NodeHeartbeat
      <4>2. [nodes[n] EXCEPT !.status = "active"]
              \in [status : NodeStatus, permit : Permits]
        BY <3>3 DEF RegistryCall, NodeHeartbeat, NodeStatus
      <4>3. QED
        BY <4>1, <4>2 DEF QueenTypeOK, RegistryTypeOK
    <3>6. RegistryTypeOK'
      BY <2>7, <3>1, <3>2, <3>4, <3>5 DEF RegistryStep
    <3>7. /\ touched' = Issuers
          /\ UNCHANGED <<active, limit, plan, callVars, squeezed, idVars>>
      BY <2>7 DEF RegistryStep, RegistryCall
    <3>8. QED
      BY <3>6, <3>7 DEF callVars, idVars, QueenTypeOK
  <2>8. CASE UNCHANGED queenVars
    BY <2>8 DEF queenVars, callVars, idVars, QueenTypeOK, RegistryTypeOK
  <2>9. QED
    BY <2>1, <2>2, <2>3, <2>4, <2>5, <2>6, <2>7, <2>8 DEF QueenNext
<1>3. QED
  BY <1>1, <1>2, PTL DEF QueenSpec

--------------------------------------------------------------------------------
(* The race for capital.  An issuer of a mission with capital is in flight    *)
(* from the moment its check of the capital succeeded until it inserts.  Of the issuers in flight one, the *)
(* last to be checked, fits into the total with all that was active then; the *)
(* others, at most all but one, were not counted and carry MaxCapital each.   *)

InFlight == {c \in Issuers : pc[c] \in {"biome_capital", "insert"} /\ CapitalOf[arg[c]] # 0}

Due(c) == IF c \in InFlight THEN CapitalOf[arg[c]] ELSE 0

Excess(k) == k * MaxCapital

UniqueIds == \A m, n \in active : IdOf[m] = IdOf[n] => m = n

RaceInv ==
  /\ UniqueIds
  /\ \E last \in Issuers :
       Sum(active) + Due(last) + Excess(Cardinality(InFlight \ {last}))
         <= Total + Excess(Cardinality(Issuers) - 1)

LEMMA ExcessFacts ==
  /\ \A k \in Nat : Excess(k) \in Nat /\ Excess(k + 1) = Excess(k) + MaxCapital
  /\ \A j, k \in Nat : j <= k => Excess(j) <= Excess(k)
<1>1. MaxCapital \in Nat
  BY MissionAssumption
<1>2. \A k \in Nat : Excess(k) \in Nat /\ Excess(k + 1) = Excess(k) + MaxCapital
  BY <1>1 DEF Excess
<1>3. ASSUME NEW j \in Nat, NEW k \in Nat, j <= k PROVE Excess(j) <= Excess(k)
  <2>1. PICK d \in Nat : k = j + d
    <3>1. k - j \in Nat /\ k = j + (k - j)
      BY <1>3
    <3>2. QED
      BY <3>1
  <2>2. k * MaxCapital = j * MaxCapital + d * MaxCapital
    BY <1>1, <2>1
  <2>3. d * MaxCapital \in Nat /\ j * MaxCapital \in Nat
    BY <1>1
  <2>4. QED
    BY <2>2, <2>3 DEF Excess
<1>4. QED
  BY <1>2, <1>3

\* What fits in what is left is nothing, or keeps the total.
LEMMA FitsLeft ==
  ASSUME NEW total \in Nat, NEW allocated \in Nat, NEW more \in Nat, more <= Left(total, allocated)
  PROVE  more = 0 \/ more + allocated <= total
BY DEF Left

LEMMA FlightFacts ==
  ASSUME QueenTypeOK
  PROVE  /\ IsFiniteSet(InFlight)
         /\ \A c \in Issuers : /\ IsFiniteSet(InFlight \ {c})
                              /\ Cardinality(InFlight \ {c}) \in Nat
                              /\ Cardinality(InFlight \ {c}) <= Cardinality(Issuers) - 1
                              /\ Due(c) \in Nat /\ Due(c) <= MaxCapital
         /\ Cardinality(Issuers) - 1 \in Nat
         /\ Sum(active) \in Nat
         /\ Total \in Nat /\ MaxCapital \in Nat
<1>1. IsFiniteSet(InFlight)
  BY MissionAssumption, FS_Subset DEF InFlight
<1>2. ASSUME NEW c \in Issuers
      PROVE  /\ IsFiniteSet(InFlight \ {c})
             /\ Cardinality(InFlight \ {c}) \in Nat
             /\ Cardinality(InFlight \ {c}) <= Cardinality(Issuers) - 1
  <2>1. /\ IsFiniteSet(Issuers \ {c})
        /\ Cardinality(Issuers \ {c}) = Cardinality(Issuers) - 1
    BY MissionAssumption, FS_RemoveElement
  <2>2. InFlight \ {c} \subseteq Issuers \ {c}
    BY DEF InFlight
  <2>3. QED
    BY <2>1, <2>2, FS_Subset, FS_CardinalityType
<1>3. ASSUME NEW c \in Issuers PROVE Due(c) \in Nat /\ Due(c) <= MaxCapital
  <2>1. c \in InFlight => arg[c] \in Missions
    BY DEF InFlight, QueenTypeOK
  <2>2. QED
    BY <2>1, MissionAssumption DEF Due
<1>4. Cardinality(Issuers) - 1 \in Nat
  BY MissionAssumption, FS_CardinalityType, FS_EmptySet
<1>5. QED
  BY <1>1, <1>2, <1>3, <1>4, MissionAssumption, SumFacts DEF QueenTypeOK

LEMMA TermTypes ==
  ASSUME QueenTypeOK
  PROVE  /\ \A c \in Issuers : Excess(Cardinality(InFlight \ {c})) \in Nat
         /\ Excess(Cardinality(Issuers) - 1) \in Nat
<1>1. \A c \in Issuers : Cardinality(InFlight \ {c}) \in Nat
  BY FlightFacts
<1>2. Cardinality(Issuers) - 1 \in Nat
  BY FlightFacts
<1>3. \A k \in Nat : Excess(k) \in Nat
  BY ExcessFacts
<1>4. QED
  BY <1>1, <1>2, <1>3

\* No issuer enters or leaves the flight, and the active missions do not grow.
LEMMA RaceKept ==
  ASSUME QueenTypeOK, QueenTypeOK', RaceInv, UniqueIds', Sum(active') <= Sum(active),
         InFlight' = InFlight, \A c \in InFlight : arg'[c] = arg[c]
  PROVE  RaceInv'
<1>1. \A c \in Issuers : Due(c)' = Due(c)
  BY DEF Due
<1>2. PICK last \in Issuers :
        Sum(active) + Due(last) + Excess(Cardinality(InFlight \ {last}))
          <= Total + Excess(Cardinality(Issuers) - 1)
  BY DEF RaceInv
<1>3. Sum(active') \in Nat
  BY SumFacts DEF QueenTypeOK
<1>4. Sum(active') + Due(last) + Excess(Cardinality(InFlight \ {last}))
        <= Total + Excess(Cardinality(Issuers) - 1)
  <2>1. /\ Sum(active) \in Nat /\ Due(last) \in Nat /\ Total \in Nat
        /\ Excess(Cardinality(InFlight \ {last})) \in Nat
        /\ Excess(Cardinality(Issuers) - 1) \in Nat
    BY FlightFacts, TermTypes
  <2>2. QED
    BY <1>2, <1>3, <2>1
<1>5. Sum(active') + Due(last)' + Excess(Cardinality(InFlight' \ {last}))
        <= Total + Excess(Cardinality(Issuers) - 1)
  BY <1>1, <1>4
<1>6. QED
  BY <1>5 DEF RaceInv, Excess

\* An issuer passes its check of the capital: it becomes the last.
LEMMA RaceEntered ==
  ASSUME QueenTypeOK, QueenTypeOK', RaceInv, active' = active,
         NEW c \in Issuers, c \notin InFlight, InFlight' = InFlight \cup {c},
         arg' = arg, arg[c] \in Missions, CapitalOf[arg[c]] + Sum(active) <= Total
  PROVE  RaceInv'
<1>1. InFlight' \ {c} = InFlight \ {c}
  OBVIOUS
<1>2. Due(c)' = CapitalOf[arg[c]]
  BY DEF Due
<1>3. Excess(Cardinality(InFlight \ {c})) <= Excess(Cardinality(Issuers) - 1)
  BY FlightFacts, ExcessFacts
<1>4. /\ CapitalOf[arg[c]] \in Nat /\ Sum(active) \in Nat /\ Total \in Nat
      /\ Excess(Cardinality(InFlight \ {c})) \in Nat
      /\ Excess(Cardinality(Issuers) - 1) \in Nat
  BY FlightFacts, TermTypes, MissionAssumption
<1>5. Sum(active') + Due(c)' + Excess(Cardinality(InFlight' \ {c}))
        <= Total + Excess(Cardinality(Issuers) - 1)
  <2>1. Excess(Cardinality(InFlight' \ {c})) = Excess(Cardinality(InFlight \ {c}))
    BY <1>1
  <2>2. Sum(active') + Due(c)' <= Total
    BY <1>2, <1>4
  <2>3. Sum(active') \in Nat /\ Due(c)' \in Nat
    BY <1>2, <1>4
  <2>4. QED
    BY <1>3, <1>4, <2>1, <2>2, <2>3
<1>6. UniqueIds'
  BY DEF RaceInv, UniqueIds
<1>7. QED
  BY <1>5, <1>6 DEF RaceInv, Excess

\* An issuer in flight inserts, or is rejected after all.
LEMMA RaceLeft ==
  ASSUME QueenTypeOK, QueenTypeOK', RaceInv, UniqueIds',
         NEW c \in InFlight, InFlight' = InFlight \ {c},
         \A d \in InFlight' : arg'[d] = arg[d],
         Sum(active') <= Sum(active) + Due(c)
  PROVE  RaceInv'
<1>1. PICK last \in Issuers :
        Sum(active) + Due(last) + Excess(Cardinality(InFlight \ {last}))
          <= Total + Excess(Cardinality(Issuers) - 1)
  BY DEF RaceInv
<1>2. c \in Issuers /\ Sum(active') \in Nat
  BY SumFacts DEF InFlight, QueenTypeOK
<1>3. /\ Sum(active) \in Nat /\ Due(last) \in Nat /\ Total \in Nat
      /\ Excess(Cardinality(InFlight \ {last})) \in Nat
      /\ Excess(Cardinality(Issuers) - 1) \in Nat
  BY FlightFacts, TermTypes
<1>4. Sum(active') + Due(last)' + Excess(Cardinality(InFlight' \ {last}))
        <= Total + Excess(Cardinality(Issuers) - 1)
  <2>1. CASE last = c
    <3>1. Due(last)' = 0 /\ InFlight' \ {last} = InFlight \ {last}
      BY <2>1 DEF Due
    <3>2. Sum(active') + Due(last)' <= Sum(active) + Due(last)
      BY <1>2, <2>1, <3>1, FlightFacts
    <3>3. Excess(Cardinality(InFlight' \ {last})) = Excess(Cardinality(InFlight \ {last}))
      BY <3>1
    <3>4. Due(last)' \in Nat
      BY <3>1
    <3>5. QED
      BY <1>1, <1>2, <1>3, <3>2, <3>3, <3>4
  <2>2. CASE last # c
    <3> DEFINE others == InFlight \ {last}
    <3>1. Due(last)' = Due(last)
      BY <2>2 DEF Due
    <3>2. InFlight' \ {last} = others \ {c} /\ c \in others
      BY <2>2
    <3>3. IsFiniteSet(others) /\ Cardinality(others) \in Nat
      BY FlightFacts
    <3>4. /\ Cardinality(others \ {c}) = Cardinality(others) - 1
          /\ Cardinality(others \ {c}) \in Nat
      BY <3>2, <3>3, FS_RemoveElement, FS_CardinalityType
    <3>5. Excess(Cardinality(others)) = Excess(Cardinality(others \ {c})) + MaxCapital
      <4>1. Cardinality(others) = Cardinality(others \ {c}) + 1
        BY <3>3, <3>4
      <4>2. QED
        BY <3>4, <4>1, ExcessFacts
    <3>6. Excess(Cardinality(others \ {c})) \in Nat
      BY <3>4, ExcessFacts
    <3>7. Due(c) \in Nat /\ Due(c) <= MaxCapital /\ MaxCapital \in Nat
      BY <1>2, FlightFacts
    <3>8. Excess(Cardinality(InFlight' \ {last})) = Excess(Cardinality(others \ {c}))
      BY <3>2
    <3>9. Sum(active') + Due(last)' <= Sum(active) + MaxCapital + Due(last)
      BY <1>2, <1>3, <3>1, <3>7
    <3>10. Due(last)' \in Nat
      BY <1>3, <3>1
    <3> HIDE DEF others
    <3>11. QED
      BY <1>1, <1>2, <1>3, <3>5, <3>6, <3>7, <3>8, <3>9, <3>10 DEF others
  <2>3. QED
    BY <2>1, <2>2
<1>5. QED
  BY <1>4 DEF RaceInv, Excess

\* Taking a mission away does not raise the sum.
LEMMA SumRemove ==
  ASSUME NEW S \in SUBSET Missions, NEW m \in S
  PROVE  Sum(S \ {m}) <= Sum(S)
<1>1. S = (S \ {m}) \cup {m} /\ S \ {m} \in SUBSET Missions /\ m \in Missions \ (S \ {m})
  OBVIOUS
<1>2. Sum(S) = Sum(S \ {m}) + CapitalOf[m]
  BY <1>1, SumFacts
<1>3. CapitalOf[m] \in Nat /\ Sum(S \ {m}) \in Nat
  BY <1>1, SumFacts, MissionAssumption
<1>4. QED
  BY <1>2, <1>3

\* Inserting a mission raises the sum by no more than its capital_limit.
LEMMA SumInsert ==
  ASSUME QueenTypeOK, UniqueIds, NEW x \in Missions
  PROVE  LET rest == {m \in active : IdOf[m] # IdOf[x]}
         IN Sum(rest \cup {x}) <= Sum(active) + CapitalOf[x]
<1> DEFINE rest == {m \in active : IdOf[m] # IdOf[x]}
<1>1. active \in SUBSET Missions /\ rest \in SUBSET Missions /\ x \in Missions \ rest
  BY DEF QueenTypeOK
<1>2. Sum(rest \cup {x}) = Sum(rest) + CapitalOf[x]
  BY <1>1, SumFacts
<1>3. Sum(rest) <= Sum(active)
  <2>1. CASE rest = active
    <3>1. Sum(rest) = Sum(active) /\ Sum(active) \in Nat
      BY <1>1, <2>1, SumFacts
    <3>2. QED
      BY <3>1
  <2>2. CASE rest # active
    <3>1. PICK m \in active : IdOf[m] = IdOf[x]
      BY <2>2
    <3>2. rest = active \ {m}
      BY <3>1 DEF UniqueIds
    <3>3. QED
      BY <1>1, <3>2, SumRemove
  <2>3. QED
    BY <2>1, <2>2
<1>4. Sum(rest) \in Nat /\ Sum(active) \in Nat /\ CapitalOf[x] \in Nat
  BY <1>1, SumFacts, MissionAssumption
<1>5. QED
  BY <1>2, <1>3, <1>4

LEMMA RaceIssue ==
  ASSUME QueenTypeOK, QueenTypeOK', RaceInv, NEW c \in Issuers, Issue(c)
  PROVE  RaceInv'
<1>1. UniqueIds
  BY DEF RaceInv
<1>2. active' = active => UniqueIds' /\ Sum(active') <= Sum(active)
  BY <1>1, FlightFacts DEF UniqueIds
<1>3. CASE CheckDuplicate(c) \/ CheckNode(c) \/ CheckAntType(c) \/ CheckBiome(c)
  <2>1. /\ active' = active /\ InFlight' = InFlight
        /\ \A d \in InFlight : arg'[d] = arg[d]
    BY <1>3 DEF CheckDuplicate, CheckNode, CheckAntType, CheckBiome, Check, InFlight, QueenTypeOK
  <2>2. QED
    BY <1>2, <2>1, RaceKept
<1>4. CASE CheckCapital(c)
  <2> DEFINE fits == WalkSucceeds(c) /\ CapitalOf[arg[c]] <= Left(Total, Sum(active))
  <2>1. Check(c, "capital", fits, "biome_capital")
    BY <1>4 DEF CheckCapital
  <2>2. active' = active /\ c \notin InFlight /\ arg[c] \in Missions
    BY <2>1 DEF Check, InFlight, QueenTypeOK
  <2>3. ASSUME fits, CapitalOf[arg[c]] # 0 PROVE RaceInv'
    <3>1. arg' = arg /\ InFlight' = InFlight \cup {c}
      BY <2>1, <2>3 DEF Check, InFlight, QueenTypeOK
    <3>2. CapitalOf[arg[c]] \in Nat /\ Sum(active) \in Nat /\ Total \in Nat
      BY <2>2, FlightFacts, MissionAssumption
    <3>3. CapitalOf[arg[c]] + Sum(active) <= Total
      BY <2>3, <3>2, FitsLeft
    <3>4. QED
      BY <2>2, <3>1, <3>3, RaceEntered
  <2>4. ASSUME fits, CapitalOf[arg[c]] = 0 PROVE RaceInv'
    <3>1. InFlight' = InFlight /\ \A d \in InFlight : arg'[d] = arg[d]
      BY <2>1, <2>4 DEF Check, InFlight, QueenTypeOK
    <3>2. QED
      BY <1>2, <2>2, <3>1, RaceKept
  <2>5. CASE ~fits
    <3>1. InFlight' = InFlight /\ \A d \in InFlight : arg'[d] = arg[d]
      BY <2>1, <2>5 DEF Check, InFlight, QueenTypeOK
    <3>2. QED
      BY <1>2, <2>2, <3>1, RaceKept
  <2>6. QED
    BY <2>3, <2>4, <2>5
<1>5. CASE CheckBiomeCapital(c)
  <2> DEFINE b == BiomeOf[arg[c]]
             fits == limit[b] = None
                       \/ (WalkSucceeds(c) /\ CapitalOf[arg[c]] <= Left(limit[b], Sum(Holding(b))))
  <2>1. Check(c, "biome_capital", fits, "insert")
    BY <1>5 DEF CheckBiomeCapital
  <2> HIDE DEF fits
  <2>2. active' = active
    BY <2>1 DEF Check
  <2>3. ASSUME InFlight' = InFlight, \A d \in InFlight : arg'[d] = arg[d] PROVE RaceInv'
    BY <1>2, <2>2, <2>3, RaceKept
  <2>4. CASE fits
    <3>1. InFlight' = InFlight /\ arg' = arg
      BY <2>1, <2>4 DEF Check, InFlight, QueenTypeOK
    <3>2. QED
      BY <2>3, <3>1
  <2>5. CASE ~fits /\ c \in InFlight
    <3>1. InFlight' = InFlight \ {c} /\ \A d \in InFlight' : arg'[d] = arg[d]
      BY <2>1, <2>5 DEF Check, InFlight, QueenTypeOK
    <3>2. Sum(active') = Sum(active) /\ Sum(active) \in Nat /\ Due(c) \in Nat
      BY <2>2, FlightFacts
    <3>3. Sum(active') <= Sum(active) + Due(c)
      BY <3>2
    <3>4. QED
      BY <1>2, <2>2, <2>5, <3>1, <3>3, RaceLeft
  <2>6. CASE ~fits /\ c \notin InFlight
    <3>1. InFlight' = InFlight /\ \A d \in InFlight : arg'[d] = arg[d]
      BY <2>1, <2>6 DEF Check, InFlight, QueenTypeOK
    <3>2. QED
      BY <2>3, <3>1
  <2>7. QED
    BY <2>4, <2>5, <2>6
<1>6. CASE Insert(c)
  <2>1. arg[c] \in Missions
    BY <1>6 DEF Insert, QueenTypeOK
  <2>2. active' = {m \in active : IdOf[m] # IdOf[arg[c]]} \cup {arg[c]}
    BY <1>6 DEF Insert
  <2>3. UniqueIds'
    BY <1>1, <2>2 DEF UniqueIds
  <2>4. Sum(active') <= Sum(active) + CapitalOf[arg[c]]
    BY <1>1, <2>1, <2>2, SumInsert
  <2>5. CASE CapitalOf[arg[c]] # 0
    <3>1. c \in InFlight /\ Due(c) = CapitalOf[arg[c]]
      BY <1>6, <2>5 DEF Insert, InFlight, Due
    <3>2. InFlight' = InFlight \ {c} /\ \A d \in InFlight' : arg'[d] = arg[d]
      BY <1>6 DEF Insert, InFlight, QueenTypeOK
    <3>3. QED
      BY <2>3, <2>4, <3>1, <3>2, RaceLeft
  <2>6. CASE CapitalOf[arg[c]] = 0
    <3>1. InFlight' = InFlight /\ \A d \in InFlight : arg'[d] = arg[d]
      BY <1>6, <2>6 DEF Insert, InFlight, QueenTypeOK
    <3>2. Sum(active) \in Nat
      BY FlightFacts
    <3>3. Sum(active') <= Sum(active)
      BY <2>4, <2>6, <3>2
    <3>4. QED
      BY <2>3, <3>1, <3>3, RaceKept
  <2>7. QED
    BY <2>5, <2>6
<1>7. QED
  BY <1>3, <1>4, <1>5, <1>6 DEF Issue

\* Issuers that race overdraw the colony's capital by at most what all but one
\* of them carry (issue_mission).
THEOREM CapitalRaceIsBounded == QueenSpec => []CapitalIsBounded
<1>1. QueenInit => RaceInv
  <2> SUFFICES ASSUME QueenInit PROVE RaceInv
    OBVIOUS
  <2>1. InFlight = {} /\ active = {}
    BY DEF QueenInit, InFlight
  <2>2. PICK last \in Issuers : TRUE
    BY MissionAssumption
  <2>3. Due(last) = 0 /\ InFlight \ {last} = {} /\ Cardinality({}) = 0 /\ Sum({}) = 0
    BY <2>1, FS_EmptySet, SumFacts DEF Due
  <2>4. Cardinality(Issuers) - 1 \in Nat
    BY MissionAssumption, FS_CardinalityType, FS_EmptySet
  <2>5. Excess(0) = 0 /\ Excess(Cardinality(Issuers) - 1) \in Nat /\ Total \in Nat
    BY <2>4, ExcessFacts, MissionAssumption DEF Excess
  <2>6. QED
    BY <2>1, <2>3, <2>5 DEF RaceInv, UniqueIds
<1>2. ASSUME QueenTypeOK, QueenTypeOK', RaceInv, [QueenNext]_queenVars PROVE RaceInv'
  <2>1. UniqueIds
    BY <1>2 DEF RaceInv
  <2>2. ASSUME active' = active, pc' = pc, arg' = arg PROVE RaceInv'
    <3>1. InFlight' = InFlight
      BY <2>2 DEF InFlight
    <3>2. UniqueIds' /\ Sum(active') <= Sum(active)
      BY <1>2, <2>1, <2>2, FlightFacts DEF UniqueIds
    <3>3. QED
      BY <1>2, <2>2, <3>1, <3>2, RaceKept
  <2>3. ASSUME NEW c \in Issuers, NEW m \in Missions, Call(c, m) PROVE RaceInv'
    <3>1. InFlight' = InFlight /\ \A d \in InFlight : arg'[d] = arg[d]
      BY <1>2, <2>3 DEF Call, InFlight, QueenTypeOK
    <3>2. UniqueIds' /\ Sum(active') <= Sum(active)
      BY <1>2, <2>1, <2>3, FlightFacts DEF Call, UniqueIds
    <3>3. QED
      BY <1>2, <3>1, <3>2, RaceKept
  <2>4. ASSUME NEW c \in Issuers, Issue(c) PROVE RaceInv'
    BY <1>2, <2>4, RaceIssue
  <2>5. ASSUME NEW m \in Missions, Revoke(m) PROVE RaceInv'
    <3>1. active' = active \ {m} /\ m \in active /\ InFlight' = InFlight /\ arg' = arg
      BY <2>5 DEF Revoke, callVars, InFlight
    <3>2. UniqueIds' /\ Sum(active') <= Sum(active)
      BY <1>2, <2>1, <3>1, SumRemove DEF UniqueIds, QueenTypeOK
    <3>3. QED
      BY <1>2, <3>1, <3>2, RaceKept
  <2>6. ASSUME NEW b \in Biomes, NEW x \in Limits, SetBiomeCapital(b, x) PROVE RaceInv'
    BY <2>2, <2>6 DEF SetBiomeCapital, callVars
  <2>7. CASE (\E limits \in Plans : ApplyPlan(limits)) \/ PlanStep
    BY <2>2, <2>7 DEF ApplyPlan, PlanStep, callVars
  <2>8. ASSUME NEW n \in Nodes, RegistryStep(n) PROVE RaceInv'
    BY <2>2, <2>8 DEF RegistryStep, RegistryCall, callVars
  <2>9. CASE UNCHANGED queenVars
    BY <2>2, <2>9 DEF queenVars, callVars
  <2>10. QED
    BY <1>2, <2>3, <2>4, <2>5, <2>6, <2>7, <2>8, <2>9 DEF QueenNext
<1>3. QueenTypeOK /\ RaceInv => CapitalIsBounded
  <2> SUFFICES ASSUME QueenTypeOK, RaceInv PROVE CapitalIsBounded
    OBVIOUS
  <2>1. PICK last \in Issuers :
          Sum(active) + Due(last) + Excess(Cardinality(InFlight \ {last}))
            <= Total + Excess(Cardinality(Issuers) - 1)
    BY DEF RaceInv
  <2>2. /\ Sum(active) \in Nat /\ Due(last) \in Nat /\ Total \in Nat
        /\ Excess(Cardinality(InFlight \ {last})) \in Nat
        /\ Excess(Cardinality(Issuers) - 1) \in Nat
    BY FlightFacts, TermTypes
  <2>3. Sum(active) <= Total + Excess(Cardinality(Issuers) - 1)
    BY <2>1, <2>2
  <2>4. QED
    BY <2>3 DEF CapitalIsBounded, Excess
<1>4. QED
  BY <1>1, <1>2, <1>3, QueenTypeCorrect, PTL DEF QueenSpec

\* A lone issuer never overdraws the capital of the colony, whoever revokes
\* missions, sets limits or changes the register at the same time.
COROLLARY LoneIssuerKeepsHierarchy ==
  ASSUME Cardinality(Issuers) = 1
  PROVE  QueenSpec => []CapitalHierarchy
<1>1. QueenTypeOK /\ CapitalIsBounded => CapitalHierarchy
  BY FlightFacts DEF CapitalIsBounded, CapitalHierarchy
<1>2. QED
  BY <1>1, CapitalRaceIsBounded, QueenTypeCorrect, PTL

--------------------------------------------------------------------------------
(* A lone issuer implements the abstract budget.  Between its duplicate check *)
(* and its insertion nobody else inserts, so the mission is still new.        *)
NewInv == \A c \in Issuers : pc[c] \notin {"idle", "duplicate"} => IdOf[arg[c]] \notin IdsOf(active)

LEMMA LoneIssuer ==
  ASSUME Cardinality(Issuers) = 1
  PROVE  \A c, d \in Issuers : c = d
<1> SUFFICES ASSUME NEW c \in Issuers, NEW d \in Issuers, c # d PROVE FALSE
  OBVIOUS
<1>1. IsFiniteSet(Issuers \ {c}) /\ Cardinality(Issuers \ {c}) = 0
  BY MissionAssumption, FS_RemoveElement
<1>2. Issuers \ {c} = {}
  BY <1>1, FS_EmptySet
<1>3. QED
  BY <1>2

\* The mission a lone issuer has looked up stays new until it inserts it.
LEMMA LoneIssuerIsNew ==
  ASSUME Cardinality(Issuers) = 1, QueenTypeOK, NewInv, [QueenNext]_queenVars
  PROVE  NewInv'
<1> USE DEF NewInv, IdsOf
<1>0. \A c, d \in Issuers : c = d
  BY LoneIssuer
<1>1. ASSUME NEW c \in Issuers, NEW m \in Missions, Call(c, m) PROVE NewInv'
  BY <1>1, <1>0 DEF Call, QueenTypeOK
<1>2. ASSUME NEW c \in Issuers, Issue(c) PROVE NewInv'
  <2>1. CASE Insert(c)
    BY <1>0, <2>1 DEF Insert, QueenTypeOK
  <2>2. CASE CheckDuplicate(c)
    BY <1>0, <2>2 DEF CheckDuplicate, Check, QueenTypeOK
  <2>3. CASE CheckNode(c) \/ CheckAntType(c) \/ CheckBiome(c)
    BY <1>0, <2>3 DEF CheckNode, CheckAntType, CheckBiome, Check, QueenTypeOK
  <2>4. CASE CheckCapital(c) \/ CheckBiomeCapital(c)
    BY <1>0, <2>4 DEF CheckCapital, CheckBiomeCapital, Check, QueenTypeOK
  <2>5. QED
    BY <1>2, <2>1, <2>2, <2>3, <2>4 DEF Issue
<1>3. ASSUME NEW m \in Missions, Revoke(m) PROVE NewInv'
  BY <1>3 DEF Revoke, callVars
<1>4. CASE UNCHANGED <<active, pc, arg>>
  BY <1>4
<1>5. ASSUME NEW b \in Biomes, NEW x \in Limits, SetBiomeCapital(b, x) PROVE NewInv'
  BY <1>4, <1>5 DEF SetBiomeCapital, callVars
<1>6. CASE (\E limits \in Plans : ApplyPlan(limits)) \/ PlanStep
  BY <1>4, <1>6 DEF ApplyPlan, PlanStep, callVars
<1>7. ASSUME NEW n \in Nodes, RegistryStep(n) PROVE NewInv'
  BY <1>4, <1>7 DEF RegistryStep, RegistryCall, callVars
<1>8. CASE UNCHANGED queenVars
  BY <1>4, <1>8 DEF queenVars, callVars
<1>9. QED
  BY <1>1, <1>2, <1>3, <1>5, <1>6, <1>7, <1>8 DEF QueenNext

\* The sum of the abstract budget is that of the Queen.
LEMMA SumOfBudget ==
  ASSUME NEW S
  PROVE  Budget!SumFunctionOnSet(CapitalOf, S) = Sum(S)
BY Zenon DEF Sum, SumFunctionOnSet, FoldFunctionOnSet, MapThenFoldSet,
             Budget!SumFunctionOnSet, Budget!FoldFunctionOnSet, Budget!MapThenFoldSet

\* A lone issuer implements the budget of the colony: every change of the active
\* missions grants one that fits or returns one (issue_mission, revoke_mission).
THEOREM LoneIssuerKeepsBudget ==
  ASSUME Cardinality(Issuers) = 1
  PROVE  QueenSpec => KeepsBudget
<1>2. QueenInit => Budget!BudgetInit /\ NewInv
  BY DEF QueenInit, Budget!BudgetInit, NewInv
<1>3. ASSUME QueenTypeOK, NewInv, [QueenNext]_queenVars PROVE NewInv'
  BY <1>3, LoneIssuerIsNew
<1>4. ASSUME QueenTypeOK, NewInv, CapitalIsBounded', [QueenNext]_queenVars
      PROVE  [Budget!BudgetNext]_active
  <2>1. ASSUME NEW c \in Issuers, Issue(c) PROVE [Budget!BudgetNext]_active
    <3>1. CASE Insert(c)
      <4>1. /\ arg[c] \in Missions
            /\ IdOf[arg[c]] \notin IdsOf(active)
        BY <1>4, <3>1 DEF Insert, QueenTypeOK, NewInv
      <4>2. arg[c] \notin active /\ active' = active \cup {arg[c]}
        BY <3>1, <4>1 DEF Insert, IdsOf
      <4>3. Sum(active') <= Total
        <5>1. active' \subseteq Missions
          BY <1>4, <4>1, <4>2 DEF QueenTypeOK
        <5>2. Sum(active') \in Nat /\ Total \in Nat /\ MaxCapital \in Nat
          BY <5>1, SumFacts, MissionAssumption
        <5>3. QED
          BY <1>4, <5>2 DEF CapitalIsBounded
      <4>4. Budget!Grant(arg[c], {})
        <5>1. Sum(active \cup {arg[c]}) <= Total
          BY <4>2, <4>3
        <5>2. Budget!SumFunctionOnSet(CapitalOf, active \cup {arg[c]}) <= Total
          BY <5>1, SumOfBudget
        <5>3. QED
          <6>1. active \ {} = active
            OBVIOUS
          <6> QED BY <4>2, <5>2, <6>1 DEF Budget!Grant
      <4>5. {} \in SUBSET (active \cap Rivals)
        OBVIOUS
      <4>6. QED
        BY <4>1, <4>4, <4>5, Zenon DEF Budget!BudgetNext
    <3>2. CASE active' = active
      BY <3>2
    <3>3. QED
      BY <2>1, <3>1, <3>2 DEF Issue, CheckDuplicate, CheckNode, CheckAntType, CheckBiome,
                              CheckCapital, CheckBiomeCapital, Check
  <2>2. ASSUME NEW m \in Missions, Revoke(m) PROVE [Budget!BudgetNext]_active
    BY <2>2 DEF Revoke, Budget!Return, Budget!BudgetNext
  <2>3. CASE active' = active
    BY <2>3
  <2>4. QED
    BY <1>4, <2>1, <2>2, <2>3
       DEF QueenNext, Call, SetBiomeCapital, ApplyPlan, PlanStep,
           RegistryStep, RegistryCall, queenVars
<1>5. QED
  BY <1>2, <1>3, <1>4, QueenTypeCorrect, CapitalRaceIsBounded, PTL
     DEF QueenSpec, KeepsBudget, Budget!BudgetSpec

--------------------------------------------------------------------------------
(* What issuers were told is accepted, for any number of them.                  *)

\* A mission of the id that an issuer found unused was inserted since: it is outrun.
OutrunInv ==
  \A c \in Issuers : pc[c] \notin {"idle", "duplicate"} =>
    \A m \in active : IdOf[m] = IdOf[arg[c]] => m \in outrun[c]

LEMMA OutrunIssue ==
  ASSUME QueenTypeOK, OutrunInv, NEW c \in Issuers, Issue(c)
  PROVE  OutrunInv'
<1>1. CASE CheckDuplicate(c)
  BY <1>1 DEF CheckDuplicate, Check, QueenTypeOK, OutrunInv, IdsOf, idVars
<1>2. CASE CheckNode(c) \/ CheckAntType(c) \/ CheckBiome(c)
  BY <1>2 DEF CheckNode, CheckAntType, CheckBiome, Check, QueenTypeOK, OutrunInv, idVars
<1>3. CASE CheckCapital(c) \/ CheckBiomeCapital(c)
  BY <1>3 DEF CheckCapital, CheckBiomeCapital, Check, QueenTypeOK, OutrunInv, idVars
<1>4. CASE Insert(c)
  <2> SUFFICES ASSUME NEW d \in Issuers, pc'[d] \notin {"idle", "duplicate"},
                      NEW m \in active', IdOf[m] = IdOf[arg'[d]]
               PROVE  m \in outrun'[d]
    BY DEF OutrunInv
  <2>1. d # c /\ pc'[d] = pc[d] /\ arg'[d] = arg[d]
    BY <1>4 DEF Insert, QueenTypeOK
  <2>2. d \in Unaware(c)
    BY <2>1 DEF Unaware
  <2>3. outrun'[d] = outrun[d] \cup {arg[c]}
    BY <1>4, <2>2 DEF Insert
  <2>4. m = arg[c] \/ m \in active
    BY <1>4 DEF Insert
  <2>5. QED
    BY <2>1, <2>3, <2>4 DEF OutrunInv
<1>5. QED
  BY <1>1, <1>2, <1>3, <1>4 DEF Issue

LEMMA OutrunStep ==
  ASSUME QueenTypeOK, OutrunInv, [QueenNext]_queenVars
  PROVE  OutrunInv'
<1>1. ASSUME NEW c \in Issuers, NEW m \in Missions, Call(c, m) PROVE OutrunInv'
  BY <1>1 DEF Call, QueenTypeOK, OutrunInv
<1>2. ASSUME NEW c \in Issuers, Issue(c) PROVE OutrunInv'
  BY <1>2, OutrunIssue
<1>3. ASSUME NEW m \in Missions, Revoke(m) PROVE OutrunInv'
  BY <1>3 DEF Revoke, callVars, OutrunInv
<1>4. CASE UNCHANGED <<active, pc, arg, outrun>>
  BY <1>4 DEF OutrunInv
<1>5. QED
  BY <1>1, <1>2, <1>3, <1>4
     DEF QueenNext, SetBiomeCapital, ApplyPlan, PlanStep, RegistryStep, RegistryCall,
         callVars, idVars, queenVars

\* However many issue at once, what one of them was told is accepted stays active until it
\* is revoked or overtaken: an insertion replaces no mission of its id but those inserted
\* since its duplicate check (issue_mission).
THEOREM AcceptedStaysActive == QueenSpec => []AcceptedIsActive
<1>1. QueenInit => OutrunInv /\ AcceptedIsActive
  BY DEF QueenInit, OutrunInv, AcceptedIsActive
<1>2. ASSUME QueenTypeOK, OutrunInv, AcceptedIsActive, [QueenNext]_queenVars
      PROVE  AcceptedIsActive'
  <2>1. ASSUME NEW c \in Issuers, Insert(c) PROVE AcceptedIsActive'
    <3> SUFFICES ASSUME NEW m \in accepted', m \notin active' PROVE m \in overtaken'
      BY DEF AcceptedIsActive
    <3>1. m # arg[c] /\ m \in accepted /\ (m \in active => IdOf[m] = IdOf[arg[c]])
      BY <2>1 DEF Insert
    <3>2. CASE m \in active
      BY <1>2, <2>1, <3>1, <3>2 DEF Insert, OutrunInv
    <3>3. CASE m \notin active
      BY <1>2, <2>1, <3>1, <3>3 DEF Insert, AcceptedIsActive
    <3>4. QED
      BY <3>2, <3>3
  <2>2. ASSUME NEW m \in Missions, Revoke(m) PROVE AcceptedIsActive'
    BY <1>2, <2>2 DEF Revoke, AcceptedIsActive
  <2>3. CASE UNCHANGED <<active, accepted, overtaken>>
    BY <1>2, <2>3 DEF AcceptedIsActive
  <2>4. QED
    BY <1>2, <2>1, <2>2, <2>3
       DEF QueenNext, Call, Issue, CheckDuplicate, CheckNode, CheckAntType, CheckBiome,
           CheckCapital, CheckBiomeCapital, Check, SetBiomeCapital, ApplyPlan, PlanStep,
           RegistryStep, RegistryCall, idVars, queenVars
<1>3. QED
  BY <1>1, <1>2, OutrunStep, QueenTypeCorrect, PTL DEF QueenSpec

--------------------------------------------------------------------------------
(* The limits of the biomes, with a lone issuer. *)

\* What a biome has, and may come to have, is within its limit unless the limit was
\* set below it.
BiomeInv == \A b \in Biomes : limit[b] # None /\ b \notin squeezed => Sum(Committed(b)) <= limit[b]

LEMMA LimitIsNumber ==
  ASSUME QueenTypeOK, NEW b \in Biomes, limit[b] # None
  PROVE  limit[b] \in Nat
<1>1. limit[b] \in Limits
  BY DEF QueenTypeOK
<1>2. Total \in Nat /\ Limits \subseteq 0 .. Total
  BY MissionAssumption
<1>3. limit[b] \in 0 .. Total
  BY <1>1, <1>2
<1>4. QED
  BY <1>2, <1>3

\* Nobody of another biome, and nobody short of the insertion, changes what a biome is
\* committed to.
LEMMA CommittedKept ==
  ASSUME NEW b \in Biomes, active' = active,
         \A c \in Issuers : (pc'[c] = "insert" /\ BiomeOf[arg'[c]] = b)
                              <=> (pc[c] = "insert" /\ BiomeOf[arg[c]] = b),
         \A c \in Issuers : pc[c] = "insert" => arg'[c] = arg[c]
  PROVE  Committed(b)' = Committed(b)
BY DEF Committed, Holding

LEMMA BiomeInvKept ==
  ASSUME BiomeInv, UNCHANGED <<limit, squeezed>>,
         \A b \in Biomes : Committed(b)' = Committed(b)
  PROVE  BiomeInv'
<1> SUFFICES ASSUME NEW b \in Biomes, limit[b] # None, b \notin squeezed
             PROVE  Sum(Committed(b)') <= limit[b]
  BY DEF BiomeInv
<1>1. Sum(Committed(b)) <= limit[b]
  BY DEF BiomeInv
<1>2. QED
  BY <1>1

\* A limit that is given is compared with what the biome is committed to.
LEMMA BiomeInvGiven ==
  ASSUME QueenTypeOK, BiomeInv, NEW b \in Biomes, NEW x \in Limits, GiveLimit(b, x),
         UNCHANGED <<active, pc, arg>>
  PROVE  BiomeInv'
<1>1. \A d \in Biomes : Committed(d)' = Committed(d)
  BY DEF Committed, Holding
<1>2. Committed(b) \in SUBSET Missions
  BY MissionAssumption DEF Committed, Holding, QueenTypeOK
<1>3. Sum(Committed(b)) \in Nat /\ x \in Nat
  BY <1>2, SumFacts, MissionAssumption
<1>4. ASSUME NEW d \in Biomes, limit'[d] # None, d \notin squeezed'
      PROVE  Sum(Committed(d)) <= limit'[d]
  <2>1. CASE d = b
    <3>1. limit'[d] = x
      BY <2>1 DEF GiveLimit, QueenTypeOK
    <3>2. ~(Sum(Committed(b)) > x)
      BY <1>4, <2>1 DEF GiveLimit
    <3>3. QED
      BY <1>3, <2>1, <3>1, <3>2
  <2>2. CASE d # b
    <3>1. limit'[d] = limit[d] /\ d \notin squeezed
      BY <1>4, <2>2 DEF GiveLimit, QueenTypeOK
    <3>2. QED
      BY <1>4, <3>1 DEF BiomeInv
  <2>3. QED
    BY <2>1, <2>2
<1>5. QED
  <2> SUFFICES ASSUME NEW d \in Biomes, limit'[d] # None, d \notin squeezed'
               PROVE  Sum(Committed(d)') <= limit'[d]
    BY DEF BiomeInv
  <2>1. Committed(d)' = Committed(d) /\ Sum(Committed(d)) <= limit'[d]
    BY <1>1, <1>4
  <2>2. QED
    BY <2>1

\* Committed to a lone issuer's mission past its last check, a biome is within its limit.
LEMMA BiomeInvChecked ==
  ASSUME Cardinality(Issuers) = 1, QueenTypeOK, NewInv, BiomeInv,
         NEW c \in Issuers, CheckBiomeCapital(c)
  PROVE  BiomeInv'
<1>1. \A d \in Issuers : d = c
  BY LoneIssuer
<1>2. /\ pc[c] = "biome_capital" /\ arg[c] \in Missions /\ UNCHANGED <<active, limit, squeezed>>
      /\ IdOf[arg[c]] \notin IdsOf(active)
  BY DEF CheckBiomeCapital, Check, QueenTypeOK, NewInv
<1>3. \A b \in Biomes : Committed(b) = Holding(b)
  BY <1>1, <1>2 DEF Committed
<1>4. CASE pc' = [pc EXCEPT ![c] = "idle"]
  <2>1. \A b \in Biomes : Committed(b)' = Holding(b)
    BY <1>1, <1>2, <1>4 DEF Committed, Holding, QueenTypeOK
  <2>2. QED
    BY <1>2, <1>3, <2>1, BiomeInvKept
<1>5. CASE pc' = [pc EXCEPT ![c] = "insert"] /\ arg' = arg
  <2>1. PICK b \in Biomes : b = BiomeOf[arg[c]]
    BY <1>2, MissionAssumption
  <2>2. limit[b] = None \/ CapitalOf[arg[c]] <= Left(limit[b], Sum(Holding(b)))
    BY <1>2, <1>5, <2>1 DEF CheckBiomeCapital, Check, QueenTypeOK
  <2>3. Committed(b)' = Holding(b) \cup {arg[c]}
    BY <1>1, <1>2, <1>5, <2>1 DEF Committed, Holding, QueenTypeOK
  <2>4. Holding(b) \in SUBSET Missions /\ arg[c] \in Missions \ Holding(b)
    BY <1>2 DEF Holding, IdsOf, QueenTypeOK
  <2>5. /\ Sum(Holding(b) \cup {arg[c]}) = Sum(Holding(b)) + CapitalOf[arg[c]]
        /\ Sum(Holding(b)) \in Nat /\ CapitalOf[arg[c]] \in Nat
    BY <1>2, <2>4, SumFacts, MissionAssumption
  <2>6. ASSUME NEW d \in Biomes, d # b PROVE Committed(d)' = Committed(d)
    BY <1>1, <1>2, <1>3, <1>5, <2>1, <2>6 DEF Committed, Holding, QueenTypeOK
  <2>7. limit[b] # None => limit[b] \in Nat
    BY LimitIsNumber
  <2> SUFFICES ASSUME NEW d \in Biomes, limit[d] # None, d \notin squeezed
               PROVE  Sum(Committed(d)') <= limit[d]
    BY <1>2 DEF BiomeInv
  <2>8. CASE d = b
    <3>1. CapitalOf[arg[c]] = 0 \/ CapitalOf[arg[c]] + Sum(Holding(b)) <= limit[b]
      BY <2>2, <2>5, <2>7, <2>8, FitsLeft
    <3>2. Sum(Holding(b)) <= limit[b]
      BY <1>3, <2>8 DEF BiomeInv
    <3>3. Sum(Holding(b) \cup {arg[c]}) <= limit[b]
      BY <2>5, <2>7, <2>8, <3>1, <3>2
    <3>4. QED
      BY <2>3, <2>8, <3>3
  <2>9. CASE d # b
    <3>1. Committed(d)' = Committed(d) /\ Sum(Committed(d)) <= limit[d]
      BY <2>6, <2>9 DEF BiomeInv
    <3>2. QED
      BY <3>1
  <2>10. QED
    BY <2>8, <2>9
<1>6. QED
  BY <1>4, <1>5, <1>2 DEF CheckBiomeCapital, Check

\* An insertion moves a mission from what a biome is committed to, to what it holds.
LEMMA BiomeInvInserted ==
  ASSUME Cardinality(Issuers) = 1, QueenTypeOK, NewInv, BiomeInv, NEW c \in Issuers, Insert(c)
  PROVE  BiomeInv'
<1>1. \A d \in Issuers : d = c
  BY LoneIssuer
<1>2. arg[c] \in Missions /\ IdOf[arg[c]] \notin IdsOf(active)
  BY DEF Insert, QueenTypeOK, NewInv
<1>3. active' = active \cup {arg[c]}
  BY <1>2 DEF Insert, IdsOf
<1>4. \A b \in Biomes : Committed(b)' = Holding(b)'
  BY <1>1 DEF Insert, Committed, QueenTypeOK
<1>5. ASSUME NEW b \in Biomes PROVE Committed(b) = Holding(b)'
  BY <1>1, <1>3 DEF Insert, Committed, Holding
<1>6. QED
  BY <1>4, <1>5, BiomeInvKept DEF Insert

\* A revocation takes a mission from what its biome holds.
LEMMA BiomeInvRevoked ==
  ASSUME QueenTypeOK, NewInv, BiomeInv, NEW m \in Missions, Revoke(m)
  PROVE  BiomeInv'
<1>1. \A c \in Issuers : pc[c] = "insert" => arg[c] # m
  BY DEF NewInv, IdsOf, Revoke
<1>2. \A b \in Biomes : Committed(b)' = Committed(b) \ {m}
  BY <1>1 DEF Committed, Holding, Revoke, callVars
<1>3. ASSUME NEW b \in Biomes PROVE Committed(b) \in SUBSET Missions
  BY MissionAssumption DEF Committed, Holding, QueenTypeOK
<1>4. ASSUME NEW b \in Biomes PROVE Sum(Committed(b) \ {m}) <= Sum(Committed(b))
  <2>1. CASE m \in Committed(b)
    BY <1>3, <2>1, SumRemove
  <2>2. CASE m \notin Committed(b)
    <3>1. Committed(b) \ {m} = Committed(b) /\ Sum(Committed(b)) \in Nat
      BY <1>3, <2>2, SumFacts
    <3>2. QED
      BY <3>1
  <2>3. QED
    BY <2>1, <2>2
<1> SUFFICES ASSUME NEW b \in Biomes, limit[b] # None, b \notin squeezed
             PROVE  Sum(Committed(b)') <= limit[b]
  BY DEF BiomeInv, Revoke
<1>5. Sum(Committed(b)') <= Sum(Committed(b)) /\ Sum(Committed(b)) <= limit[b]
  BY <1>2, <1>4 DEF BiomeInv
<1>6. Sum(Committed(b)') \in Nat /\ Sum(Committed(b)) \in Nat /\ limit[b] \in Nat
  <2>1. Committed(b) \ {m} \in SUBSET Missions
    BY <1>3
  <2>2. QED
    BY <1>2, <1>3, <2>1, SumFacts, LimitIsNumber
<1>7. QED
  BY <1>5, <1>6

\* With a lone issuer a biome holds more than its limit only where the limit was set
\* below what it held or was being given (issue_mission, set_biome_capital).
THEOREM LoneIssuerKeepsBiomes ==
  ASSUME Cardinality(Issuers) = 1
  PROVE  QueenSpec => []BiomeHierarchy
<1>1. QueenInit => NewInv /\ BiomeInv
  BY DEF QueenInit, NewInv, BiomeInv
<1>2. ASSUME QueenTypeOK, NewInv, BiomeInv, [QueenNext]_queenVars PROVE BiomeInv'
  <2> USE <1>2
  <2>1. ASSUME NEW c \in Issuers,
               CheckDuplicate(c) \/ CheckNode(c) \/ CheckAntType(c) \/ CheckBiome(c) \/ CheckCapital(c)
        PROVE  BiomeInv'
    <3>1. /\ UNCHANGED <<active, limit, squeezed>> /\ pc[c] # "insert" /\ pc'[c] # "insert"
          /\ \A d \in Issuers \ {c} : pc'[d] = pc[d] /\ arg'[d] = arg[d]
      BY <2>1 DEF CheckDuplicate, CheckNode, CheckAntType, CheckBiome, CheckCapital, Check, QueenTypeOK
    <3>2. QED
      BY <3>1, CommittedKept, BiomeInvKept
  <2>2. ASSUME NEW c \in Issuers, NEW m \in Missions, Call(c, m) PROVE BiomeInv'
    <3>1. /\ UNCHANGED <<active, limit, squeezed>> /\ pc[c] # "insert" /\ pc'[c] # "insert"
          /\ \A d \in Issuers \ {c} : pc'[d] = pc[d] /\ arg'[d] = arg[d]
      BY <2>2 DEF Call, QueenTypeOK
    <3>2. QED
      BY <3>1, CommittedKept, BiomeInvKept
  <2>3. ASSUME NEW c \in Issuers, CheckBiomeCapital(c) \/ Insert(c) PROVE BiomeInv'
    BY <2>3, BiomeInvChecked, BiomeInvInserted
  <2>4. ASSUME NEW m \in Missions, Revoke(m) PROVE BiomeInv'
    BY <2>4, BiomeInvRevoked
  <2>5. ASSUME NEW b \in Biomes, NEW x \in Limits, SetBiomeCapital(b, x) PROVE BiomeInv'
    BY <2>5, BiomeInvGiven DEF SetBiomeCapital, callVars
  <2>6. CASE PlanStep
    <3>1. PICK entry \in plan : GiveLimit(entry[1], entry[2])
      BY <2>6 DEF PlanStep
    <3>2. entry[1] \in Biomes /\ entry[2] \in Limits /\ UNCHANGED <<active, pc, arg>>
      BY <2>6, <3>1 DEF PlanStep, callVars, QueenTypeOK
    <3>3. QED
      BY <3>1, <3>2, BiomeInvGiven
  <2>7. CASE UNCHANGED <<active, limit, squeezed, pc, arg>>
    <3>1. \A b \in Biomes : Committed(b)' = Committed(b)
      BY <2>7 DEF Committed, Holding
    <3>2. QED
      BY <2>7, <3>1, BiomeInvKept
  <2>8. QED
    BY <2>1, <2>2, <2>3, <2>4, <2>5, <2>6, <2>7
       DEF QueenNext, Issue, ApplyPlan, RegistryStep, RegistryCall, callVars, queenVars
<1>3. ASSUME QueenTypeOK, BiomeInv PROVE BiomeHierarchy
  <2> SUFFICES ASSUME NEW b \in Biomes, limit[b] # None, b \notin squeezed
               PROVE  ~(Sum(Holding(b)) > limit[b])
    BY DEF BiomeHierarchy
  <2>1. /\ Holding(b) \in SUBSET Missions /\ Sum(Holding(b)) \in Nat
        /\ limit[b] \in Nat /\ Sum(Committed(b)) <= limit[b]
    BY <1>3, SumFacts, LimitIsNumber DEF Holding, QueenTypeOK, BiomeInv
  <2>2. CASE Committed(b) = Holding(b)
    BY <2>1, <2>2
  <2>3. CASE Committed(b) # Holding(b)
    <3>1. PICK c \in Issuers : arg[c] \notin Holding(b) /\ pc[c] = "insert" /\ BiomeOf[arg[c]] = b
      BY <2>3 DEF Committed
    <3>2. Committed(b) = Holding(b) \cup {arg[c]} /\ arg[c] \in Missions \ Holding(b)
      BY <3>1, <1>3, LoneIssuer DEF Committed, QueenTypeOK
    <3>3. Sum(Committed(b)) = Sum(Holding(b)) + CapitalOf[arg[c]] /\ CapitalOf[arg[c]] \in Nat
      BY <2>1, <3>2, SumFacts, MissionAssumption
    <3>4. QED
      BY <2>1, <3>3
  <2>4. QED
    BY <2>2, <2>3
<1>4. QED
  BY <1>1, <1>2, <1>3, LoneIssuerIsNew, QueenTypeCorrect, PTL DEF QueenSpec

--------------------------------------------------------------------------------
(* The admission of nodes, for any number of issuers. *)

\* What the register answered the issuer so far still holds, unless the register changed.
AdmissionInv ==
  \A c \in Issuers : c \notin touched =>
    /\ pc[c] \in {"biome", "capital", "biome_capital", "insert"} =>
         CanRunAnt(HomeOf[arg[c]], AntTypeOf[arg[c]])
    /\ pc[c] \in {"capital", "biome_capital", "insert"} =>
         CanRunBiome(HomeOf[arg[c]], BiomeOf[arg[c]])

LEMMA AdmissionIssue ==
  ASSUME QueenTypeOK, AdmissionInv, NEW c \in Issuers, Issue(c)
  PROVE  AdmissionInv'
<1> USE DEF AdmissionInv, QueenTypeOK, CanRunAnt, CanRunBiome, IsTrusted
<1>1. CASE CheckDuplicate(c) \/ CheckNode(c)
  BY <1>1 DEF CheckDuplicate, CheckNode, Check
<1>2. CASE CheckAntType(c)
  BY <1>2 DEF CheckAntType, Check
<1>3. CASE CheckBiome(c)
  BY <1>3 DEF CheckBiome, Check
<1>4. CASE CheckCapital(c) \/ CheckBiomeCapital(c)
  BY <1>4 DEF CheckCapital, CheckBiomeCapital, Check
<1>5. CASE Insert(c)
  BY <1>5 DEF Insert
<1>6. QED
  BY <1>1, <1>2, <1>3, <1>4, <1>5 DEF Issue

\* Whoever passed the checks of the register and saw no change of it since its call
\* began is on a trusted node with that ant type and biome (issue_mission).
THEOREM AdmissionIsCurrent == QueenSpec => []AdmissionHolds
<1>1. QueenInit => AdmissionInv
  BY DEF QueenInit, AdmissionInv
<1>2. ASSUME QueenTypeOK, AdmissionInv, [QueenNext]_queenVars PROVE AdmissionInv'
  <2> USE <1>2
  <2>1. ASSUME NEW c \in Issuers, Issue(c) PROVE AdmissionInv'
    BY <2>1, AdmissionIssue
  <2>2. ASSUME NEW c \in Issuers, NEW m \in Missions, Call(c, m) PROVE AdmissionInv'
    BY <2>2 DEF Call, AdmissionInv, QueenTypeOK, CanRunAnt, CanRunBiome, IsTrusted
  <2>3. ASSUME NEW n \in Nodes, RegistryStep(n) PROVE AdmissionInv'
    BY <2>3 DEF RegistryStep, RegistryCall, AdmissionInv
  <2>4. CASE UNCHANGED <<nodes, pc, arg, touched>>
    BY <2>4 DEF AdmissionInv, CanRunAnt, CanRunBiome, IsTrusted
  <2>5. QED
    BY <2>1, <2>2, <2>3, <2>4
       DEF QueenNext, Revoke, SetBiomeCapital, ApplyPlan, PlanStep, callVars, queenVars
<1>3. AdmissionInv => AdmissionHolds
  BY DEF AdmissionInv, AdmissionHolds
<1>4. QED
  BY <1>1, <1>2, <1>3, QueenTypeCorrect, PTL DEF QueenSpec
================================================================================
