------------------------- MODULE CandidateMill_proofs -------------------------
(***************************************************************************)
(* What the provers show of the ants that find, test, vary and promote     *)
(* strategies: for any set of ideas, symbols, versions and files, any      *)
(* number of lives, and whichever of the other ants run beside them.       *)
(*                                                                         *)
(* Every step of the colony is one of this ant or leaves its state alone   *)
(* (the lemmas named for a frame); an inductive invariant is kept by each  *)
(* of its steps.  Lemmas on numbers and sets come first; the modules on    *)
(* the other ants of CandidateMill use them too.                           *)
(***************************************************************************)
EXTENDS CandidateMill, FiniteSetTheorems, SequenceTheorems, WellFoundedInduction, TLAPS

--------------------------------------------------------------------------------
(* Numbers, sets and sequences. *)

LessNat == {ss \in Nat \X Nat : ss[1] < ss[2]}

\* There is no endless descent among the natural numbers.
LEMMA LessNatWF == IsWellFoundedOn(LessNat, Nat)
  BY NatLessThanWellFounded, Zenon DEF OpToRel, LessNat

\* A set of natural numbers has a least one.
LEMMA LeastOf ==
  ASSUME NEW T, T \subseteq Nat, T # {}
  PROVE  \E x \in T : \A y \in T : x <= y
<1>1. \E x \in T : \A y \in T : ~ (<<y, x>> \in LessNat)
  BY LessNatWF, WFMin, Zenon
<1>2. PICK x \in T : \A y \in T : ~ (<<y, x>> \in LessNat)
  BY <1>1
<1>3. \A y \in T : y \in Nat /\ x \in Nat /\ (y < x => <<y, x>> \in LessNat)
  BY DEF LessNat
<1>4. \A y \in T : x <= y
  <2>1. \A y \in T : ~(y < x)
    BY <1>2, <1>3, Zenon
  <2> QED BY <2>1
<1> QED BY <1>4

\* A finite set of integers has a greatest one: of the sets without, one would be smallest.
LEMMA GreatestOf ==
  ASSUME NEW S, S \subseteq Int, S # {}, IsFiniteSet(S)
  PROVE  \E x \in S : \A y \in S : x >= y
<1> DEFINE Peak(X) == \E x \in X : \A y \in X : x >= y
<1> DEFINE Bad == {X \in SUBSET S : X # {} /\ ~ Peak(X)}
<1>1. \A X \in Bad : IsFiniteSet(X) /\ Cardinality(X) \in Nat
  BY FS_Subset, FS_CardinalityType
<1>2. SUFFICES ASSUME Bad # {} PROVE FALSE
  OBVIOUS
<1>3. PICK n \in {Cardinality(X) : X \in Bad} : \A k \in {Cardinality(X) : X \in Bad} : n <= k
  <2> DEFINE T == {Cardinality(X) : X \in Bad}
  <2>1. T \subseteq Nat /\ T # {}
    BY <1>1, <1>2
  <2> HIDE DEF T
  <2>2. \E x \in T : \A y \in T : x <= y
    BY <2>1, LeastOf
  <2> QED BY <2>2 DEF T
<1>4. PICK X \in Bad : n = Cardinality(X)
  BY <1>3
<1>5. PICK a \in X : TRUE
  BY <1>4
<1>6. Cardinality(X \ {a}) = Cardinality(X) - 1
  BY <1>1, <1>5, FS_RemoveElement
<1>7. X \ {a} \notin Bad
  <2>1. SUFFICES ASSUME X \ {a} \in Bad PROVE FALSE
    OBVIOUS
  <2>2. n <= Cardinality(X \ {a})
    BY <1>3, <2>1
  <2> QED BY <2>2, <1>1, <1>4, <1>6
<1>8. CASE X = {a}
  BY <1>8, <1>4
<1>9. CASE X # {a}
  <2>1. PICK b \in X \ {a} : \A y \in X \ {a} : b >= y
    BY <1>7, <1>9, <1>5, <1>4
  <2>2. a \in Int /\ b \in Int /\ X \subseteq Int
    BY <1>4, <1>5
  <2>3. CASE a >= b
    <3>1. \A y \in X : a >= y
      BY <2>1, <2>2, <2>3
    <3> QED BY <3>1, <1>4, <1>5
  <2>4. CASE b > a
    <3>1. \A y \in X : b >= y
      BY <2>1, <2>2, <2>4
    <3> QED BY <3>1, <1>4, <2>1
  <2> QED BY <2>2, <2>3, <2>4
<1> QED BY <1>8, <1>9

\* So Max is what its name says.
LEMMA MaxOf ==
  ASSUME NEW S, S \subseteq Int, S # {}, IsFiniteSet(S)
  PROVE  Max(S) \in S /\ \A y \in S : Max(S) >= y
<1>4. \E x \in S : \A y \in S : x >= y
  BY GreatestOf
<1> QED BY <1>4, Zenon DEF Max

\* Days come in the order of their times.
LEMMA DivGrows ==
  ASSUME NEW k \in Nat \ {0}, NEW a \in Nat, NEW b \in Nat, a <= b
  PROVE  a \div k \in Nat /\ a \div k <= b \div k
<1> DEFINE p == a \div k
           q == b \div k
<1>1. /\ p \in Nat /\ q \in Nat
      /\ a = k * p + (a % k) /\ b = k * q + (b % k)
      /\ a % k \in 0 .. k - 1 /\ b % k \in 0 .. k - 1
  OBVIOUS
<1> HIDE DEF p, q
<1>2. SUFFICES ASSUME q + 1 <= p PROVE FALSE
  BY <1>1 DEF p, q
<1>3. k * (q + 1) <= k * p
  BY <1>1, <1>2
<1>4. k * (q + 1) = k * q + k
  BY <1>1
<1> QED BY <1>1, <1>3, <1>4

\* A set all of whose members are the same has at most one.
LEMMA AtMostOne ==
  ASSUME NEW S, \A x, y \in S : x = y
  PROVE  IsFiniteSet(S) /\ Cardinality(S) \in Nat /\ Cardinality(S) <= 1
<1>1. CASE S = {}
  BY <1>1, FS_EmptySet
<1>2. CASE S # {}
  <2>1. PICK x : S = {x}
    BY <1>2
  <2> QED BY <2>1, FS_Singleton
<1> QED BY <1>1, <1>2

\* A sequence without repetitions stays one when something new is appended.
LEMMA AppendNew ==
  ASSUME NEW S, NEW q \in Seq(S), NEW e \in S, \A n \in DOMAIN q : q[n] # e,
         \A m, n \in DOMAIN q : q[m] = q[n] => m = n
  PROVE  \A m, n \in DOMAIN Append(q, e) : Append(q, e)[m] = Append(q, e)[n] => m = n
<1> DEFINE r == Append(q, e)
<1>1. /\ DOMAIN r = 1 .. Len(q) + 1 /\ Len(q) \in Nat /\ DOMAIN q = 1 .. Len(q)
      /\ \A n \in 1 .. Len(q) : r[n] = q[n]
      /\ r[Len(q) + 1] = e
  BY AppendProperties
<1> HIDE DEF r
<1>2. SUFFICES ASSUME NEW m \in DOMAIN r, NEW n \in DOMAIN r, r[m] = r[n]
               PROVE  m = n
  BY DEF r
<1>3. CASE m \in DOMAIN q /\ n \in DOMAIN q
  BY <1>1, <1>2, <1>3
<1>4. CASE m \notin DOMAIN q
  <2>1. m = Len(q) + 1 /\ r[n] = e
    BY <1>1, <1>2, <1>4
  <2> QED BY <1>1, <1>2, <2>1
<1>5. CASE n \notin DOMAIN q
  <2>1. n = Len(q) + 1 /\ r[m] = e
    BY <1>1, <1>2, <1>5
  <2> QED BY <1>1, <1>2, <2>1
<1> QED BY <1>3, <1>4, <1>5

\* A step of the colony is one of the makers of ideas, the crash, or none of theirs.
LEMMA MakerFrame ==
  ASSUME [MillNext]_vars
  PROVE  MakerStep \/ Crash \/ UNCHANGED makerVars
  BY Zenon DEF MillNext, vars

--------------------------------------------------------------------------------
(* The operator ant. *)

Writers == {"web", "chart", "operator", "claude"}
LogLines  == [idea : Ideas, by : Writers]

\* The ingestion log as the other ants leave it.
LogGrows ==
  \/ UNCHANGED ingestion
  \/ \E i \in Ideas, by \in Writers \ {"operator"} : ingestion' = Append(ingestion, [idea |-> i, by |-> by])

OpTypes ==
  /\ ingestion \in Seq(LogLines)
  /\ answer \in [Files -> {"none", "duplicate", "accepted", "error"}]
  /\ opLife \in Lives /\ opAlive \in BOOLEAN
  /\ opSeen \in [Lives -> SUBSET Files] /\ opTodo \in [Lives -> SUBSET Files]
  /\ opItem \in [Lives -> Files \cup {None}]
  /\ opPc \in [Lives -> {"idle", "walk", "compare", "write", "duplicate", "accepted", "error"}]
  /\ \A l \in Lives : /\ opItem[l] = None <=> opPc[l] \in {"idle", "walk"}
                      /\ opPc[l] = "idle" => opTodo[l] = {}
  /\ \A l \in Lives : l > opLife => opSeen[l] = {} /\ opPc[l] = "idle"

Ours(i, n) == n \in 1 .. Len(ingestion) /\ ingestion[n] = [idea |-> i, by |-> "operator"]

\* Workers that are not the present ant's have nothing in hand that they were not left
\* behind with.
OthersLeftBehind ==
  \A l \in Lives : (l # opLife \/ ~opAlive) => InHandOf(l) \subseteq leftBehind

\* What was compared and is about to be written is not in the log as the operator's.
ComparedIsNew ==
  \A l \in Lives : opPc[l] = "write" /\ opItem[l] \notin Charts
                     /\ IdeaOf[opItem[l]] \notin leftBehind
                     /\ <<IdeaOf[opItem[l]], IdeaOf[opItem[l]]>> \in Like
                   => \A n \in 1 .. Len(ingestion) : ~ Ours(IdeaOf[opItem[l]], n)

OursOnce ==
  \A i \in Ideas \ leftBehind : <<i, i>> \in Like =>
    \A m, n \in 1 .. Len(ingestion) : Ours(i, m) /\ Ours(i, n) => m = n

InputIsTaken == OpTypes /\ OthersLeftBehind /\ ComparedIsNew /\ OursOnce /\ InputIsAnswered

\* To the operator ant a step is its own, the end of the process, or a line another ant writes.
LEMMA OperatorFrame ==
  ASSUME [MillNext]_vars
  PROVE  \/ OperatorStep
         \/ OperatorDies /\ UNCHANGED ingestion
         \/ UNCHANGED opVars /\ LogGrows
<1>1. CASE MakerStep
  <2>1. CASE IngestionStep /\ UNCHANGED opVars
    <3>1. CASE WritePage
      BY <3>1, <2>1, LogsAssumption DEF WritePage, Ingest, LogGrows, Writers
    <3>2. CASE IngestionTick \/ NoticeRepo \/ NoticePost \/ DropPage
      BY <3>2, <2>1 DEF IngestionTick, NoticeRepo, NoticePost, DropPage, logVars, LogGrows
    <3> QED BY <3>1, <3>2, <2>1 DEF IngestionStep
  <2>2. CASE ResearchStep /\ UNCHANGED opVars
    <3>1. UNCHANGED ingestion
      BY <2>2 DEF ResearchStep, StartResearch, ReadIdeas, SkipIdea, TakeIdea, TakeGoods, RefuseKey,
        TestKey, EmitKey, ResearchDone, ResearchTimeout, ResearchEnds, ResearchRestart, logVars
    <3> QED BY <3>1, <2>2 DEF LogGrows
  <2>3. CASE ClaudeStep /\ UNCHANGED opVars
    <3>1. CASE WriteVariant
      BY <3>1, <2>3, ClaudeAssumption DEF WriteVariant, Ingest, LogGrows, Writers
    <3>2. CASE ~ WriteVariant
      <4>1. UNCHANGED ingestion
        BY <2>3, <3>2 DEF ClaudeStep, WaitIsOver, ClaudeStops, Consult, CallFails, CallCosts,
          RecordCost, VariantsDone, MonthEnds, ClaudeRestart, logVars
      <4> QED BY <4>1, <2>3 DEF LogGrows
    <3> QED BY <3>1, <3>2
  <2>4. CASE StrategyStep /\ UNCHANGED opVars
    BY <2>4 DEF StrategyStep, StrategyTick, StrategyRestart, logVars, LogGrows
  <2> QED BY <1>1, <2>1, <2>2, <2>3, <2>4, Zenon DEF MakerStep
<1>2. CASE Crash
  BY <1>2 DEF Crash, logVars
<1>3. CASE UNCHANGED makerVars
  BY <1>3 DEF makerVars, logVars, LogGrows
<1> QED BY <1>1, <1>2, <1>3, MakerFrame

\* Nothing is handed in at first.
LEMMA OperatorInitHolds == MillInit => InputIsTaken
  BY LogsAssumption, OperatorAssumption DEF MillInit, LogsInit, OperatorInit, InputIsTaken, OpTypes,
    OthersLeftBehind, ComparedIsNew, OursOnce, InputIsAnswered, InHandOf, Ours, Lives

\* A line more in the log.
LEMMA LineMore ==
  ASSUME OpTypes, NEW e \in LogLines, ingestion' = Append(ingestion, e)
  PROVE  /\ ingestion' \in Seq(LogLines) /\ Len(ingestion') = Len(ingestion) + 1 /\ Len(ingestion) \in Nat
         /\ \A i, n : Ours(i, n)' <=> Ours(i, n) \/ (n = Len(ingestion) + 1 /\ e = [idea |-> i, by |-> "operator"])
<1>1. ingestion \in Seq(LogLines) /\ Len(ingestion) \in Nat
  BY DEF OpTypes
<1>2. /\ Append(ingestion, e) \in Seq(LogLines)
      /\ Len(Append(ingestion, e)) = Len(ingestion)+1
      /\ \A i \in 1.. Len(ingestion) : Append(ingestion, e)[i] = ingestion[i]
      /\ Append(ingestion, e)[Len(ingestion)+1] = e
  BY <1>1, AppendProperties
<1> QED BY <1>1, <1>2 DEF Ours

\* What other ants write is not counted as the operator's.
LEMMA OthersWrite ==
  ASSUME InputIsTaken, UNCHANGED opVars, LogGrows
  PROVE  InputIsTaken'
<1> USE DEF InputIsTaken
<1>1. CASE UNCHANGED ingestion
  BY <1>1, Zenon DEF OpTypes, OthersLeftBehind, ComparedIsNew, OursOnce, InputIsAnswered, InHandOf, Ours, opVars,
    inputVars, workVars, lifeVars
<1>2. CASE \E i \in Ideas, by \in Writers \ {"operator"} : ingestion' = Append(ingestion, [idea |-> i, by |-> by])
  <2>1. PICK i \in Ideas, by \in Writers \ {"operator"} : ingestion' = Append(ingestion, [idea |-> i, by |-> by])
    BY <1>2
  <2>2. [idea |-> i, by |-> by] \in LogLines
    BY DEF LogLines
  <2>3. \A j, n : Ours(j, n)' <=> Ours(j, n)
    BY <2>1, <2>2, LineMore
  <2>4. ingestion' \in Seq(LogLines) /\ Len(ingestion') = Len(ingestion) + 1 /\ Len(ingestion) \in Nat
    BY <2>1, <2>2, LineMore
  <2>5. OpTypes' /\ OthersLeftBehind' /\ InputIsAnswered'
    BY <2>4 DEF OpTypes, OthersLeftBehind, InputIsAnswered, InHandOf, opVars, inputVars, workVars, lifeVars
  <2>6. ComparedIsNew' /\ OursOnce'
    <3>1. \A j, n : Ours(j, n)' => n \in 1 .. Len(ingestion)
      BY <2>3 DEF Ours
    <3> QED BY <2>3, <3>1, Zenon DEF ComparedIsNew, OursOnce, opVars, workVars
  <2> QED BY <2>5, <2>6
<1> QED BY <1>1, <1>2 DEF LogGrows

\* The ant's own steps: it reads a file, writes what it does not know, and notes the name.
LEMMA OperatorActs ==
  ASSUME InputIsTaken, OperatorStep
  PROVE  InputIsTaken'
<1> USE LogsAssumption, OperatorAssumption DEF InputIsTaken
<1>1. CASE \E f \in Files : OpenInput(f) \/ FillInput(f)
  <2>1. UNCHANGED <<ingestion, answer, opPc, opTodo, opItem, opLife, opAlive, opSeen, tornReads, leftBehind>>
    BY <1>1 DEF OpenInput, FillInput, workVars, lifeVars, logVars
  <2> QED BY <2>1, Zenon DEF OpTypes, OthersLeftBehind, ComparedIsNew, OursOnce, InputIsAnswered, InHandOf, Ours
<1>2. CASE ListInputs
  <2>1. UNCHANGED <<ingestion, answer, opLife, opAlive, opSeen, tornReads, leftBehind>>
    BY <1>2 DEF ListInputs, inputVars, lifeVars, logVars
  <2>2. OpTypes'
    BY <1>2, <2>1 DEF ListInputs, OpGoto, OpTypes, Lives
  <2>3. OthersLeftBehind' /\ InputIsAnswered'
    BY <1>2, <2>1 DEF ListInputs, OpGoto, OpTypes, OthersLeftBehind, InHandOf, InputIsAnswered
  <2>4. ComparedIsNew' /\ OursOnce'
    BY <1>2, <2>1 DEF ListInputs, OpGoto, OpTypes, ComparedIsNew, OursOnce, Ours
  <2> QED BY <2>2, <2>3, <2>4
<1>3. ASSUME NEW l \in Lives, PickInput(l) PROVE InputIsTaken'
  <2>1. UNCHANGED <<ingestion, answer, opLife, opAlive, leftBehind>>
    BY <1>3 DEF PickInput, inputVars, lifeVars, logVars
  <2>2. PICK f \in opTodo[l] :
       /\ opTodo' = [opTodo EXCEPT ![l] = @ \ {f}]
       /\ opSeen' = [opSeen EXCEPT ![l] = @ \cup {f}]
       /\ \/ /\ OpGoto(l, IF f \in Charts THEN "write" ELSE "compare", f)
             /\ UNCHANGED tornReads
          \/ /\ tornReads' = tornReads \cup {f}
             /\ UNCHANGED <<opPc, opItem>>
    BY <1>3 DEF PickInput
  <2>3. opPc[l] = "walk" /\ opItem[l] = None /\ f \in Files /\ opTodo[l] \subseteq Files
    BY <1>3, <2>2 DEF PickInput, OpTypes
  <2>4. OpTypes'
    BY <2>1, <2>2, <2>3 DEF OpTypes, OpGoto
  <2>5. \A k \in Lives : InHandOf(k)' \subseteq InHandOf(k)
    BY <2>2, <2>3 DEF InHandOf, OpTypes, OpGoto
  <2>6. OthersLeftBehind'
    BY <2>1, <2>5 DEF OthersLeftBehind
  <2>7. ComparedIsNew' /\ OursOnce'
    BY <2>1, <2>2, <2>3 DEF ComparedIsNew, OursOnce, Ours, OpTypes, OpGoto
  <2>8. InputIsAnswered'
    <3>1. opSeen \in [Lives -> SUBSET Files] /\ opTodo \in [Lives -> SUBSET Files] /\ l \in Lives
      BY <1>3 DEF OpTypes
    <3>2. CASE tornReads' = tornReads \cup {f} /\ opItem' = opItem
      BY <2>1, <2>2, <2>3, <3>1, <3>2 DEF InputIsAnswered
    <3>3. CASE OpGoto(l, IF f \in Charts THEN "write" ELSE "compare", f) /\ UNCHANGED tornReads
      BY <2>1, <2>2, <2>3, <3>1, <3>3 DEF InputIsAnswered, OpTypes, OpGoto
    <3> QED BY <2>2, <3>2, <3>3
  <2> QED BY <2>4, <2>6, <2>7, <2>8
<1>4. ASSUME NEW l \in Lives, ListDone(l) \/ CompareInput(l) \/ FailInput(l) PROVE InputIsTaken'
  <2>1. UNCHANGED <<ingestion, answer, opLife, opAlive, opSeen, opTodo, tornReads, leftBehind>>
    BY <1>4 DEF ListDone, CompareInput, FailInput, inputVars, lifeVars, logVars
  <2>2. opItem' = opItem
    BY <1>4 DEF ListDone, CompareInput, FailInput, OpTypes, OpGoto
  <2>3. OpTypes' /\ OthersLeftBehind'
    BY <1>4, <2>1, <2>2 DEF OpTypes, ListDone, CompareInput, FailInput, OpGoto, OthersLeftBehind, InHandOf
  <2>4. ComparedIsNew'
    <3>1. SUFFICES ASSUME NEW k \in Lives, opPc'[k] = "write", opItem[k] \notin Charts,
                          IdeaOf[opItem[k]] \notin leftBehind,
                          <<IdeaOf[opItem[k]], IdeaOf[opItem[k]]>> \in Like,
                          NEW n \in 1 .. Len(ingestion), Ours(IdeaOf[opItem[k]], n)
                   PROVE  FALSE
      BY <2>1, <2>2, Zenon DEF ComparedIsNew, Ours
    <3>2. opPc[k] # "write"
      BY <3>1 DEF ComparedIsNew
    <3>3. k = l /\ CompareInput(l) /\ ~ Known(IdeaOf[opItem[l]])
      BY <1>4, <3>1, <3>2 DEF ListDone, CompareInput, FailInput, OpTypes, OpGoto
    <3>4. ingestion[n] \in Range(ingestion) /\ ingestion[n].idea = IdeaOf[opItem[k]]
      BY <3>1 DEF Ours, OpTypes, Range
    <3> QED BY <3>1, <3>3, <3>4 DEF Known
  <2>5. OursOnce' /\ InputIsAnswered'
    BY <2>1, <2>2 DEF OursOnce, InputIsAnswered, Ours
  <2> QED BY <2>3, <2>4, <2>5
<1>5. ASSUME NEW l \in Lives, WriteIdea(l) PROVE InputIsTaken'
  <2> DEFINE i == IdeaOf[opItem[l]]
             e == [idea |-> i, by |-> IF opItem[l] \in Charts THEN "chart" ELSE "operator"]
  <2>1. UNCHANGED <<answer, opLife, opAlive, opSeen, opTodo, tornReads, leftBehind>>
    BY <1>5 DEF WriteIdea, inputVars, lifeVars
  <2>2. opItem[l] \in Files /\ opItem' = opItem /\ opPc[l] = "write" /\ opPc' = [opPc EXCEPT ![l] = "accepted"]
    BY <1>5 DEF WriteIdea, OpTypes, OpGoto
  <2>3. ingestion' = Append(ingestion, e) /\ e \in LogLines /\ i \in Ideas
    BY <1>5, <2>2 DEF WriteIdea, Ingest, LogLines, Writers
  <2>4. /\ ingestion' \in Seq(LogLines) /\ Len(ingestion') = Len(ingestion) + 1 /\ Len(ingestion) \in Nat
        /\ \A j, n : Ours(j, n)' <=> Ours(j, n) \/ (n = Len(ingestion) + 1 /\ e = [idea |-> j, by |-> "operator"])
    BY <2>3, LineMore
  <2> HIDE DEF i, e
  <2>5. OpTypes' /\ OthersLeftBehind' /\ InputIsAnswered'
    BY <2>1, <2>2, <2>4 DEF OpTypes, OthersLeftBehind, InputIsAnswered, InHandOf
  <2>6. \A j : e = [idea |-> j, by |-> "operator"] => j = i /\ opItem[l] \notin Charts
    BY DEF e
  <2>7. i \in InHandOf(l)
    BY <2>2 DEF i, InHandOf
  <2>8. ComparedIsNew'
    <3>1. SUFFICES ASSUME NEW k \in Lives, opPc'[k] = "write", opItem[k] \notin Charts,
                          NEW j, j = IdeaOf[opItem[k]], j \notin leftBehind, <<j, j>> \in Like,
                          NEW n \in 1 .. Len(ingestion'), Ours(j, n)'
                   PROVE  FALSE
      BY <2>1, <2>2, Zenon DEF ComparedIsNew
    <3>2. k # l /\ opPc[k] = "write"
      BY <3>1, <2>2 DEF OpTypes
    <3>3. ~ Ours(j, n)
      BY <3>1, <3>2 DEF ComparedIsNew, Ours
    <3>4. j = i
      BY <3>1, <3>3, <2>4, <2>6
    <3>5. i \in InHandOf(k)
      <4>1. opItem[k] # None
        BY <3>2 DEF OpTypes
      <4> QED BY <4>1, <3>1, <3>4 DEF InHandOf
    <3> QED BY <3>1, <3>2, <3>4, <3>5, <2>7 DEF OthersLeftBehind
  <2>9. OursOnce'
    <3>1. SUFFICES ASSUME NEW j \in Ideas \ leftBehind, <<j, j>> \in Like,
                          NEW m, NEW n, Ours(j, m)', Ours(j, n)'
                   PROVE  m = n
      BY <2>1, Zenon DEF OursOnce
    <3>2. CASE e = [idea |-> j, by |-> "operator"]
      <4>1. \A k : ~ Ours(j, k)
        BY <2>2, <2>6, <3>1, <3>2 DEF ComparedIsNew, Ours, i
      <4> QED BY <4>1, <3>1, <2>4
    <3>3. CASE e # [idea |-> j, by |-> "operator"]
      <4>1. Ours(j, m) /\ Ours(j, n)
        BY <3>1, <3>3, <2>4
      <4> QED BY <4>1, <3>1 DEF OursOnce, Ours
    <3> QED BY <3>2, <3>3
  <2> QED BY <2>5, <2>8, <2>9
<1>6. ASSUME NEW l \in Lives, AnswerInput(l) PROVE InputIsTaken'
  <2>1. UNCHANGED <<ingestion, opLife, opAlive, opSeen, opTodo, tornReads, leftBehind>>
    BY <1>6 DEF AnswerInput, lifeVars, logVars
  <2>2. opItem[l] \in Files /\ opItem' = [opItem EXCEPT ![l] = None] /\ opPc' = [opPc EXCEPT ![l] = "walk"]
        /\ answer' = [answer EXCEPT ![opItem[l]] = opPc[l]] /\ opPc[l] \in {"duplicate", "accepted", "error"}
    BY <1>6 DEF AnswerInput, OpTypes, OpGoto
  <2>3. OpTypes' /\ OthersLeftBehind'
    BY <2>1, <2>2 DEF OpTypes, OthersLeftBehind, InHandOf
  <2>4. ComparedIsNew' /\ OursOnce' /\ InputIsAnswered'
    BY <2>1, <2>2 DEF ComparedIsNew, OursOnce, InputIsAnswered, Ours, OpTypes
  <2> QED BY <2>3, <2>4
<1>7. CASE OperatorTimeout \/ OperatorEnds
  <2>1. UNCHANGED <<ingestion, answer, opPc, opTodo, opItem, opLife, opSeen, tornReads>> /\ opAlive' = FALSE
    BY <1>7 DEF OperatorTimeout, OperatorEnds, inputVars, workVars, logVars
  <2>2. leftBehind \subseteq leftBehind' /\ InHandOf(opLife) \subseteq leftBehind'
    BY <1>7 DEF OperatorTimeout, OperatorEnds, InHandOf, OpTypes
  <2>3. OpTypes' /\ InputIsAnswered'
    BY <2>1 DEF OpTypes, InputIsAnswered
  <2>4. OthersLeftBehind'
    BY <2>1, <2>2 DEF OthersLeftBehind, InHandOf
  <2>5. ComparedIsNew' /\ OursOnce'
    BY <2>1, <2>2 DEF ComparedIsNew, OursOnce, Ours
  <2> QED BY <2>3, <2>4, <2>5
<1>8. CASE OperatorRestart
  <2>1. /\ UNCHANGED <<ingestion, answer, opPc, opTodo, opItem, opSeen, tornReads, leftBehind>>
        /\ ~opAlive /\ opLife < MaxLives /\ opLife' = opLife + 1 /\ opAlive' = TRUE
    BY <1>8 DEF OperatorRestart, inputVars, workVars, logVars
  <2>2. OpTypes' /\ InputIsAnswered'
    BY <2>1 DEF OpTypes, InputIsAnswered, Lives
  <2>3. OthersLeftBehind' /\ ComparedIsNew' /\ OursOnce'
    BY <2>1 DEF OthersLeftBehind, InHandOf, ComparedIsNew, OursOnce, Ours
  <2> QED BY <2>2, <2>3
<1> QED BY <1>1, <1>2, <1>3, <1>4, <1>5, <1>6, <1>7, <1>8 DEF OperatorStep

\* When the process dies the files and the log stay.
LEMMA OperatorGone ==
  ASSUME InputIsTaken, OperatorDies, UNCHANGED ingestion
  PROVE  InputIsTaken'
  BY LogsAssumption, OperatorAssumption DEF InputIsTaken, OperatorDies, inputVars, OpTypes, OthersLeftBehind, ComparedIsNew, OursOnce,
    InputIsAnswered, InHandOf, Ours

\* An idea the operator handed in is written once, and no input is lost
\* (OperatorAnt, beside whatever else writes the log).
THEOREM InputStaysTakenOnce == MillSpec => []InputIsTakenOnce
<1>1. InputIsTaken /\ [MillNext]_vars => InputIsTaken'
  BY OperatorFrame, OperatorActs, OperatorGone, OthersWrite, Zenon
<1>2. InputIsTaken => InputIsTakenOnce
  <2>1. SUFFICES ASSUME InputIsTaken, NEW i \in Ideas, <<i, i>> \in Like, i \notin leftBehind
                 PROVE  ~ Copies(i, "operator") > 1
    BY Zenon DEF InputIsTakenOnce, OperatorIdeasOnce, InputIsTaken
  <2> DEFINE ours == {n \in DOMAIN ingestion : ingestion[n] = [idea |-> i, by |-> "operator"]}
  <2>2. \A m, n \in ours : m = n
    BY <2>1 DEF InputIsTaken, OursOnce, Ours, OpTypes
  <2> HIDE DEF ours
  <2>3. Cardinality(ours) \in Nat /\ Cardinality(ours) <= 1
    BY <2>2, AtMostOne
  <2> QED BY <2>3 DEF Copies, ours
<1> QED BY OperatorInitHolds, <1>1, <1>2, PTL DEF MillSpec

--------------------------------------------------------------------------------
(* The research ant. *)

\* To the research ant a step is its own, its end, or a line that makes the log of ideas
\* longer.
LEMMA ResearchFrame ==
  ASSUME [MillNext]_vars, OpTypes
  PROVE  \/ ResearchStep
         \/ ResearchDies /\ UNCHANGED logVars
         \/ /\ UNCHANGED <<resVars, research>>
            /\ ingestion' = ingestion \/ \E e \in LogLines : ingestion' = Append(ingestion, e)
<1>1. CASE MakerStep
  <2>1. CASE IngestionStep /\ UNCHANGED resVars
    <3>1. CASE WritePage
      BY <3>1, <2>1, LogsAssumption DEF WritePage, Ingest, LogLines, Writers
    <3>2. CASE IngestionTick \/ NoticeRepo \/ NoticePost \/ DropPage
      BY <3>2, <2>1 DEF IngestionTick, NoticeRepo, NoticePost, DropPage, logVars
    <3> QED BY <3>1, <3>2, <2>1 DEF IngestionStep
  <2>2. CASE OperatorStep /\ UNCHANGED resVars
    <3>1. CASE \E l \in Lives : WriteIdea(l)
      <4>1. PICK l \in Lives : WriteIdea(l)
        BY <3>1
      <4>2. opItem[l] \in Files /\ IdeaOf[opItem[l]] \in Ideas
        BY <4>1, OperatorAssumption DEF WriteIdea, OpTypes
      <4> QED BY <4>1, <4>2, <2>2 DEF WriteIdea, Ingest, LogLines, Writers
    <3>2. CASE ~ \E l \in Lives : WriteIdea(l)
      <4>1. UNCHANGED logVars
        BY <2>2, <3>2 DEF OperatorStep, OpenInput, FillInput, ListInputs, PickInput, ListDone, CompareInput,
          FailInput, AnswerInput, OperatorTimeout, OperatorEnds, OperatorRestart, logVars
      <4> QED BY <2>2, <4>1 DEF logVars
    <3> QED BY <3>1, <3>2
  <2>3. CASE ClaudeStep /\ UNCHANGED resVars
    <3>1. CASE WriteVariant
      BY <3>1, <2>3, ClaudeAssumption DEF WriteVariant, Ingest, LogLines, Writers
    <3>2. CASE ~ WriteVariant
      <4>1. UNCHANGED logVars
        BY <2>3, <3>2 DEF ClaudeStep, WaitIsOver, ClaudeStops, Consult, CallFails, CallCosts,
          RecordCost, VariantsDone, MonthEnds, ClaudeRestart, logVars
      <4> QED BY <4>1, <2>3 DEF logVars
    <3> QED BY <3>1, <3>2
  <2>4. CASE StrategyStep /\ UNCHANGED resVars
    BY <2>4 DEF StrategyStep, StrategyTick, StrategyRestart, logVars
  <2> QED BY <1>1, <2>1, <2>2, <2>3, <2>4, Zenon DEF MakerStep
<1>2. CASE Crash
  BY <1>2 DEF Crash, logVars
<1>3. CASE UNCHANGED makerVars
  BY <1>3 DEF makerVars, logVars
<1> QED BY <1>1, <1>2, <1>3, MakerFrame

ResTypes ==
  /\ research \in Seq([key : Keys, life : Lives])
  /\ resLife \in Lives /\ resAlive \in BOOLEAN /\ resLate \in BOOLEAN
  /\ resTick \in Workers \cup {None}
  /\ emitted \in [Lives -> SUBSET Keys] /\ seenIdeas \in [Lives -> SUBSET Ideas]
  /\ resPc \in [Workers -> {"idle", "own", "ideas", "goods"}] /\ resHome \in [Workers -> Lives]
  /\ resIdeas \in [Workers -> SUBSET Ideas] /\ resQueue \in [Workers -> SUBSET Keys]
  /\ resItem \in [Workers -> Keys \cup {None}]
  /\ tested \in [Ideas -> Nat]

\* Only the worker the ant waits for is at work, and it works for the present life.
OneWorker ==
  /\ \A w \in Workers : w # resTick => resPc[w] = "idle"
  /\ \A w \in Workers : resPc[w] = "idle" => resIdeas[w] = {} /\ resQueue[w] = {} /\ resItem[w] = None
  /\ \A w \in Workers : resPc[w] # "ideas" => resIdeas[w] = {}
  /\ resTick # None => resAlive /\ resHome[resTick] = resLife

\* What was tested was in the log, and the present life knows it.
TestedIsSeen ==
  /\ \A w \in Workers : resIdeas[w] \subseteq Ingested
  /\ \A i \in Ideas : tested[i] # 0 => tested[i] = 1 /\ i \in Ingested /\ i \in seenIdeas[resLife]

\* What is in the log was remembered, and what is in the backtester was not.
EmittedIsKnown ==
  /\ \A n \in DOMAIN research : research[n].key \in emitted[research[n].life]
  /\ \A w \in Workers : resItem[w] # None => resItem[w] \notin emitted[resHome[w]]
  /\ \A m, n \in DOMAIN research : research[m] = research[n] => m = n

WorkIsOnce == ResTypes /\ (~resLate => OneWorker /\ TestedIsSeen /\ EmittedIsKnown)

\* Nothing is tested at first.
LEMMA ResearchInitHolds == MillInit => WorkIsOnce
<1> SUFFICES ASSUME LogsInit, ResearchInit PROVE WorkIsOnce
  BY DEF MillInit
<1> USE LogsAssumption, ResearchAssumption DEF LogsInit, ResearchInit
<1>1. ResTypes
  <2>1. 1 \in Lives
    BY DEF Lives
  <2>2. research \in Seq([key : Keys, life : Lives])
    BY Zenon, EmptySeq
  <2> QED BY <2>1, <2>2 DEF ResTypes
<1>2. OneWorker /\ TestedIsSeen
  BY DEF OneWorker, TestedIsSeen
<1>3. EmittedIsKnown
  BY DEF EmittedIsKnown
<1> QED BY <1>1, <1>2, <1>3 DEF WorkIsOnce

\* What is ingested are ideas.
LEMMA IdeasIngested ==
  ASSUME OpTypes
  PROVE  Ingested \subseteq Ideas
<1>1. Range(ingestion) \subseteq LogLines
  BY DEF OpTypes, Range
<1> QED BY <1>1 DEF Ingested, LogLines

\* What is ingested stays so.
LEMMA LogKeepsIdeas ==
  ASSUME OpTypes, ingestion' = ingestion \/ \E e \in LogLines : ingestion' = Append(ingestion, e)
  PROVE  Ingested \subseteq Ingested' /\ Ingested \subseteq Ideas
<1>1. ingestion \in Seq(LogLines)
  BY DEF OpTypes
<1>2. Ingested \subseteq Ideas
  BY IdeasIngested
<1>3. CASE ingestion' = ingestion
  BY <1>2, <1>3 DEF Ingested
<1>4. CASE \E e \in LogLines : ingestion' = Append(ingestion, e)
  <2>1. PICK e \in LogLines : ingestion' = Append(ingestion, e)
    BY <1>4
  <2>2. /\ ingestion' \in Seq(LogLines) /\ Len(ingestion') = Len(ingestion) + 1 /\ Len(ingestion) \in Nat
        /\ \A n \in 1 .. Len(ingestion) : ingestion'[n] = ingestion[n]
    BY <2>1, <1>1, AppendProperties
  <2>3. Range(ingestion) \subseteq Range(ingestion')
    BY <1>1, <2>2 DEF Range
  <2> QED BY <2>3, <1>2 DEF Ingested
<1> QED BY <1>3, <1>4

\* More ideas do not undo what was tested.
LEMMA ResearchOthers ==
  ASSUME WorkIsOnce, OpTypes, UNCHANGED <<resVars, research>>,
         ingestion' = ingestion \/ \E e \in LogLines : ingestion' = Append(ingestion, e)
  PROVE  WorkIsOnce'
<1>1. Ingested \subseteq Ingested'
  BY LogKeepsIdeas
<1>2. UNCHANGED <<research, resLife, resAlive, resTick, emitted, seenIdeas, resPc, resHome, resIdeas, resQueue, resItem,
        tested, resLate>>
  BY DEF resVars, memoryVars, threadVars, aliveVars
<1>3. ResTypes'
  BY <1>2 DEF WorkIsOnce, ResTypes
<1>4. ~resLate => OneWorker' /\ TestedIsSeen' /\ EmittedIsKnown'
  BY <1>1, <1>2 DEF WorkIsOnce, OneWorker, TestedIsSeen, EmittedIsKnown
<1> QED BY <1>2, <1>3, <1>4 DEF WorkIsOnce

\* A new object of the ant knows nothing, and its lines carry a new life.
LEMMA ResearchGone ==
  ASSUME WorkIsOnce, ResearchDies, UNCHANGED logVars
  PROVE  WorkIsOnce'
  BY LogsAssumption, ResearchAssumption DEF WorkIsOnce, ResearchDies, logVars, memoryVars, ResTypes, OneWorker, TestedIsSeen,
    EmittedIsKnown, Ingested

\* The ant's own steps, from the queue of ideas to the line in the log.
LEMMA ResearchActs ==
  ASSUME WorkIsOnce, OpTypes, ResearchStep
  PROVE  WorkIsOnce'
<1> USE LogsAssumption, ResearchAssumption
<1>0. ResTypes
  BY DEF WorkIsOnce
<1>1. Ingested \subseteq Ideas
  BY IdeasIngested
<1>2. ASSUME NEW w \in Workers, StartResearch(w) PROVE WorkIsOnce'
  <2>1. UNCHANGED <<research, emitted, seenIdeas, resIdeas, resItem, resLife, resAlive, tested, resLate>>
        /\ Ingested' = Ingested
    BY <1>2 DEF StartResearch, memoryVars, logVars, Ingested
  <2>2. PICK triggered \in SUBSET ((Symbols \X OwnSignals) \ Goods) :
       resQueue' = [resQueue EXCEPT ![w] = triggered]
    BY <1>2 DEF StartResearch
  <2>3. /\ resAlive /\ resTick = None /\ resPc[w] = "idle" /\ resTick' = w
        /\ resHome' = [resHome EXCEPT ![w] = resLife] /\ resPc' = [resPc EXCEPT ![w] = "own"]
        /\ triggered \in SUBSET Keys
    BY <1>2, <2>2 DEF StartResearch, ResGoto, Keys, Signals
  <2>4. ResTypes'
    BY <1>0, <2>1, <2>2, <2>3 DEF ResTypes
  <2>5. ~resLate => OneWorker' /\ TestedIsSeen' /\ EmittedIsKnown'
    BY <1>0, <2>1, <2>2, <2>3 DEF ResTypes, WorkIsOnce, OneWorker, TestedIsSeen, EmittedIsKnown
  <2> QED BY <2>1, <2>4, <2>5 DEF WorkIsOnce
<1>3. ASSUME NEW w \in Workers, ReadIdeas(w) \/ SkipIdea(w) \/ TakeGoods(w) \/ RefuseKey(w) PROVE WorkIsOnce'
  <2>1. UNCHANGED <<research, emitted, seenIdeas, resHome, resItem, resLife, resAlive, resTick, tested, resLate>>
        /\ Ingested' = Ingested
    BY <1>3 DEF ReadIdeas, SkipIdea, TakeGoods, RefuseKey, memoryVars, aliveVars, logVars, Ingested
  <2>2. ResTypes'
    <3>1. resIdeas' \in [Workers -> SUBSET Ideas]
      BY <1>0, <1>1, <1>3 DEF ResTypes, ReadIdeas, SkipIdea, TakeGoods, RefuseKey
    <3>2. resQueue' \in [Workers -> SUBSET Keys] /\ resPc' \in [Workers -> {"idle", "own", "ideas", "goods"}]
      BY <1>0, <1>3 DEF ResTypes, ReadIdeas, SkipIdea, TakeGoods, RefuseKey, ResGoto
    <3> QED BY <1>0, <2>1, <3>1, <3>2 DEF ResTypes
  <2>3. ~resLate => OneWorker'
    BY <1>0, <1>3, <2>1 DEF WorkIsOnce, ResTypes, OneWorker, ReadIdeas, SkipIdea, TakeGoods, RefuseKey, ResGoto
  <2>4. ~resLate => TestedIsSeen' /\ EmittedIsKnown'
    BY <1>0, <1>3, <2>1 DEF WorkIsOnce, ResTypes, TestedIsSeen, EmittedIsKnown, ReadIdeas, SkipIdea, TakeGoods, RefuseKey
  <2> QED BY <2>1, <2>2, <2>3, <2>4 DEF WorkIsOnce
<1>4. ASSUME NEW w \in Workers, TakeIdea(w) PROVE WorkIsOnce'
  <2>1. UNCHANGED <<research, emitted, resPc, resHome, resItem, resLife, resAlive, resTick, resLate>>
        /\ Ingested' = Ingested
    BY <1>4 DEF TakeIdea, aliveVars, logVars, Ingested
  <2>2. PICK i \in resIdeas[w] \ seenIdeas[resHome[w]], data \in SUBSET Symbols :
       /\ resIdeas' = [resIdeas EXCEPT ![w] = @ \ {i}]
       /\ seenIdeas' = [seenIdeas EXCEPT ![resHome[w]] = @ \cup {i}]
       /\ resQueue' = [resQueue EXCEPT ![w] = data \X {i}]
       /\ tested' = [tested EXCEPT ![i] = @ + 1]
    BY <1>4 DEF TakeIdea
  <2>3. i \in Ideas /\ data \X {i} \in SUBSET Keys /\ resPc[w] = "ideas"
    BY <1>0, <1>4, <2>2 DEF ResTypes, Keys, Signals, TakeIdea
  <2>4. ResTypes'
    BY <1>0, <2>1, <2>2, <2>3 DEF ResTypes
  <2>5. ~resLate => OneWorker' /\ EmittedIsKnown'
    BY <1>0, <2>1, <2>2, <2>3 DEF ResTypes, WorkIsOnce, OneWorker, EmittedIsKnown
  <2>6. ~resLate => TestedIsSeen'
    <3>1. SUFFICES ASSUME ~resLate PROVE TestedIsSeen'
      OBVIOUS
    <3>2. w = resTick /\ resHome[w] = resLife
      BY <2>3, <3>1 DEF WorkIsOnce, OneWorker
    <3>3. tested[i] = 0 /\ i \in Ingested
      BY <2>2, <2>3, <3>1, <3>2 DEF WorkIsOnce, TestedIsSeen
    <3> QED BY <1>0, <2>1, <2>2, <2>3, <3>1, <3>2, <3>3 DEF ResTypes, WorkIsOnce, TestedIsSeen
  <2> QED BY <2>1, <2>4, <2>5, <2>6 DEF WorkIsOnce
<1>5. ASSUME NEW w \in Workers, TestKey(w) PROVE WorkIsOnce'
  <2>1. UNCHANGED <<research, emitted, seenIdeas, resPc, resHome, resIdeas, resLife, resAlive, resTick, tested, resLate>>
        /\ Ingested' = Ingested
    BY <1>5 DEF TestKey, memoryVars, aliveVars, logVars, Ingested
  <2>2. PICK k \in resQueue[w] \ (emitted[resHome[w]] \cup Disabled) :
       /\ resQueue' = [resQueue EXCEPT ![w] = @ \ {k}]
       /\ resItem' = [resItem EXCEPT ![w] = k]
    BY <1>5 DEF TestKey
  <2>3. ResTypes'
    BY <1>0, <2>1, <2>2 DEF ResTypes
  <2>4. ~resLate => OneWorker' /\ TestedIsSeen' /\ EmittedIsKnown'
    BY <1>0, <2>1, <2>2 DEF ResTypes, WorkIsOnce, OneWorker, TestedIsSeen, EmittedIsKnown
  <2> QED BY <2>1, <2>3, <2>4 DEF WorkIsOnce
<1>6. ASSUME NEW w \in Workers, EmitKey(w) PROVE WorkIsOnce'
  <2> DEFINE k == resItem[w]
             h == resHome[w]
             e == [key |-> k, life |-> h]
  <2>1. UNCHANGED <<seenIdeas, resPc, resHome, resIdeas, resQueue, resLife, resAlive, resTick, tested, resLate>>
        /\ Ingested' = Ingested
    BY <1>6 DEF EmitKey, aliveVars, Ingested
  <2>2. /\ k \in Keys /\ h \in Lives
        /\ emitted' = [emitted EXCEPT ![h] = @ \cup {k}]
        /\ resItem' = [resItem EXCEPT ![w] = None]
        /\ research' = research \/ research' = Append(research, e)
    BY <1>0, <1>6 DEF EmitKey, ResTypes
  <2>3. /\ Append(research, e) \in Seq([key : Keys, life : Lives]) /\ Len(research) \in Nat
        /\ Len(Append(research, e)) = Len(research) + 1
        /\ \A n \in 1 .. Len(research) : Append(research, e)[n] = research[n]
        /\ Append(research, e)[Len(research) + 1] = e
    BY <1>0, <2>2, AppendProperties DEF ResTypes
  <2>4. e.key = k /\ e.life = h
    OBVIOUS
  <2> HIDE DEF e
  <2>5. ResTypes'
    BY <1>0, <2>1, <2>2, <2>3 DEF ResTypes
  <2>6. ~resLate => OneWorker' /\ TestedIsSeen'
    BY <1>0, <2>1, <2>2 DEF ResTypes, WorkIsOnce, OneWorker, TestedIsSeen
  <2>7. ~resLate => EmittedIsKnown'
    <3>1. SUFFICES ASSUME ~resLate PROVE EmittedIsKnown'
      OBVIOUS
    <3>2. w = resTick
      BY <1>6, <3>1 DEF EmitKey, WorkIsOnce, OneWorker
    <3>3. \A v \in Workers : resItem'[v] = None
      BY <1>0, <2>2, <3>1, <3>2 DEF ResTypes, WorkIsOnce, OneWorker
    <3>4. k \notin emitted[h] /\ k # None
      BY <1>6, <2>2, <3>1 DEF WorkIsOnce, EmittedIsKnown, EmitKey
    <3>5. \A n \in DOMAIN research : research[n] # e
      BY <2>4, <3>1, <3>4 DEF WorkIsOnce, EmittedIsKnown
    <3>6. DOMAIN research = 1 .. Len(research)
      BY <1>0 DEF ResTypes
    <3>7. \A n \in DOMAIN research' : research'[n].key \in emitted'[research'[n].life]
      <4>1. \A n \in DOMAIN research : research[n].key \in emitted'[research[n].life]
        BY <1>0, <2>2, <3>1 DEF ResTypes, WorkIsOnce, EmittedIsKnown
      <4>2. CASE research' = research
        BY <4>1, <4>2
      <4>3. CASE research' = Append(research, e)
        <5>1. DOMAIN research' = 1 .. Len(research) + 1
          BY <2>3, <4>3
        <5>2. e.key \in emitted'[e.life]
          BY <1>0, <2>2, <2>4 DEF ResTypes
        <5> QED BY <5>1, <5>2, <4>1, <4>3, <2>3, <3>6
      <4> QED BY <2>2, <4>2, <4>3
    <3>8. \A m, n \in DOMAIN research' : research'[m] = research'[n] => m = n
      <4>1. CASE research' = research
        BY <4>1, <3>1 DEF WorkIsOnce, EmittedIsKnown
      <4>2. CASE research' = Append(research, e)
        <5>1. DOMAIN research' = 1 .. Len(research) + 1
          BY <2>3, <4>2
        <5> QED BY <5>1, <4>2, <2>3, <3>1, <3>5, <3>6 DEF WorkIsOnce, EmittedIsKnown
      <4> QED BY <2>2, <4>1, <4>2
    <3> QED BY <3>3, <3>7, <3>8 DEF EmittedIsKnown
  <2> QED BY <2>1, <2>5, <2>6, <2>7 DEF WorkIsOnce
<1>7. ASSUME NEW w \in Workers, ResearchDone(w) PROVE WorkIsOnce'
  <2>1. UNCHANGED <<research, emitted, seenIdeas, resHome, resIdeas, resQueue, resItem, resLife, resAlive, tested, resLate>>
        /\ Ingested' = Ingested
    BY <1>7 DEF ResearchDone, memoryVars, logVars, Ingested
  <2>2. ResTypes'
    BY <1>0, <2>1, <1>7 DEF ResTypes, ResearchDone, ResGoto
  <2>3. ~resLate => OneWorker' /\ TestedIsSeen' /\ EmittedIsKnown'
    BY <1>0, <1>7, <2>1 DEF ResTypes, WorkIsOnce, OneWorker, TestedIsSeen, EmittedIsKnown, ResearchDone, ResGoto
  <2> QED BY <2>1, <2>2, <2>3 DEF WorkIsOnce
<1>8. CASE ResearchTimeout
  BY <1>0, <1>8 DEF ResearchTimeout, memoryVars, threadVars, logVars, WorkIsOnce, ResTypes
<1>9. CASE ResearchEnds
  <2>1. UNCHANGED <<research, emitted, seenIdeas, resHome, resLife, tested, resLate>> /\ Ingested' = Ingested
    BY <1>9 DEF ResearchEnds, memoryVars, threadVars, logVars, Ingested
  <2>2. ResTypes'
    BY <1>0, <2>1, <1>9 DEF ResTypes, ResearchEnds, ResGoto, threadVars
  <2>3. ~resLate => OneWorker' /\ TestedIsSeen' /\ EmittedIsKnown'
    <3>1. CASE resTick = None
      BY <1>0, <1>9, <2>1, <3>1 DEF WorkIsOnce, OneWorker, TestedIsSeen, EmittedIsKnown, ResearchEnds, threadVars
    <3>2. CASE resTick # None
      <4>1. /\ resPc' = [resPc EXCEPT ![resTick] = "idle"] /\ resQueue' = [resQueue EXCEPT ![resTick] = {}]
            /\ resIdeas' = [resIdeas EXCEPT ![resTick] = {}] /\ resItem' = [resItem EXCEPT ![resTick] = None]
            /\ resTick' = None /\ resTick \in Workers
        BY <1>0, <1>9, <3>2 DEF ResearchEnds, ResGoto, ResTypes
      <4>2. ~resLate => OneWorker'
        BY <1>0, <2>1, <4>1 DEF ResTypes, WorkIsOnce, OneWorker
      <4>3. ~resLate => TestedIsSeen' /\ EmittedIsKnown'
        BY <1>0, <2>1, <4>1 DEF ResTypes, WorkIsOnce, TestedIsSeen, EmittedIsKnown
      <4> QED BY <4>2, <4>3
    <3> QED BY <3>1, <3>2
  <2> QED BY <2>1, <2>2, <2>3 DEF WorkIsOnce
<1>10. CASE ResearchRestart
  <2>1. UNCHANGED <<research, emitted, resPc, resHome, resIdeas, resQueue, resItem, resTick, tested, resLate>>
        /\ Ingested' = Ingested
    BY <1>10 DEF ResearchRestart, threadVars, logVars, Ingested
  <2>2. resLife + 1 \in Lives /\ resLife' = resLife + 1 /\ resAlive' = TRUE /\ ~resAlive
        /\ seenIdeas' = [seenIdeas EXCEPT ![resLife + 1] = Ingested]
    BY <1>0, <1>10 DEF ResearchRestart, ResTypes, Lives
  <2>3. ResTypes'
    BY <1>0, <1>1, <2>1, <2>2 DEF ResTypes
  <2>4. ~resLate => OneWorker' /\ TestedIsSeen' /\ EmittedIsKnown'
    BY <1>0, <2>1, <2>2 DEF ResTypes, WorkIsOnce, OneWorker, TestedIsSeen, EmittedIsKnown
  <2> QED BY <2>1, <2>3, <2>4 DEF WorkIsOnce
<1> QED BY <1>2, <1>3, <1>4, <1>5, <1>6, <1>7, <1>8, <1>9, <1>10 DEF ResearchStep

\* While no tick is left behind, an idea is tested once and a key logged once in a life
\* (ResearchAnt, beside whatever else writes the log).
THEOREM WorkStaysOnce == MillSpec => []WorkedOnOnce
<1>1. InputIsTaken /\ WorkIsOnce /\ [MillNext]_vars => (InputIsTaken /\ WorkIsOnce)'
  <2>1. InputIsTaken => OpTypes
    BY DEF InputIsTaken
  <2>2. InputIsTaken /\ [MillNext]_vars => InputIsTaken'
    BY OperatorFrame, OperatorActs, OperatorGone, OthersWrite, Zenon
  <2>3. InputIsTaken /\ WorkIsOnce /\ [MillNext]_vars => WorkIsOnce'
    BY <2>1, ResearchFrame, ResearchActs, ResearchGone, ResearchOthers, Zenon
  <2> QED BY <2>2, <2>3
<1>2. WorkIsOnce => WorkedOnOnce
  BY DEF WorkIsOnce, WorkedOnOnce, IdeasAreTestedOnce, KeysAreEmittedOnce, TestedIsSeen, EmittedIsKnown, ResTypes
<1> QED BY OperatorInitHolds, ResearchInitHolds, <1>1, <1>2, PTL DEF MillSpec

--------------------------------------------------------------------------------
(* The Claude ant. *)

\* To the Claude ant a step is its own, its end, or none of its.
LEMMA ClaudeFrame ==
  ASSUME [MillNext]_vars
  PROVE  ClaudeStep \/ ClaudeDies \/ UNCHANGED claudeVars
<1>1. CASE MakerStep
  BY <1>1, Zenon DEF MakerStep
<1>2. CASE Crash
  BY <1>2, Zenon DEF Crash
<1>3. CASE UNCHANGED makerVars
  BY <1>3, Zenon DEF makerVars
<1> QED BY <1>1, <1>2, <1>3, MakerFrame, Zenon

ClaudeTypes ==
  /\ claudePc \in {"tick", "calling", "paid", "writing", "stopped", "dead"}
  /\ claudeMonth \in Nat /\ owed \in Nat /\ costs \in Nat /\ bill \in Nat
  /\ missed \in Nat /\ misread \in Nat

\* The most the calls that are missed can have cost, and the most that can be spent again.
MissedCost == missed * MaxCost
SpentAgain == misread * Allowed

\* What was charged is on file, in hand, or among the calls that are missed; the ant that
\* lives knows of it too, but for what it could not read; and it calls while the budget is
\* not spent.
SpendIsCounted ==
  /\ ClaudeTypes
  /\ owed <= MaxCost /\ (claudePc # "paid" => owed = 0)
  /\ bill <= costs + owed + MissedCost
  /\ claudePc # "dead" => bill <= claudeMonth + SpentAgain + MissedCost
  /\ claudePc = "calling" => claudeMonth <= Budget - 1
  /\ bill <= Allowed + SpentAgain + MissedCost

\* The bounds are numbers, and do not change with what they are made of.
LEMMA BoundsAreNumbers ==
  ASSUME missed \in Nat, misread \in Nat
  PROVE  /\ MissedCost \in Nat /\ SpentAgain \in Nat
         /\ missed' = missed => MissedCost' = MissedCost
         /\ misread' = misread => SpentAgain' = SpentAgain
<1>1. Allowed \in Nat
  BY ClaudeAssumption DEF Allowed
<1>2. MissedCost \in Nat
  BY ClaudeAssumption DEF MissedCost
<1>3. SpentAgain \in Nat
  <2>1. misread * Allowed \in Nat
    BY <1>1
  <2> QED BY <2>1 DEF SpentAgain
<1>4. missed' = missed => MissedCost' = MissedCost
  BY DEF MissedCost
<1>5. misread' = misread => SpentAgain' = SpentAgain
  BY DEF SpentAgain, Allowed
<1> QED BY <1>2, <1>3, <1>4, <1>5

\* A call that misses c - p of its charge is counted among those that are missed.
LEMMA MissedIsCovered ==
  ASSUME NEW c \in 0 .. MaxCost, NEW p \in 0 .. c, missed \in Nat, Misses(c, p)
  PROVE  missed' \in Nat /\ MissedCost \in Nat /\ MissedCost' \in Nat
         /\ c - p + MissedCost <= MissedCost'
<1>1. MissedCost \in Nat /\ (missed + 1) * MaxCost = MissedCost + MaxCost
  BY ClaudeAssumption DEF MissedCost
<1>2. CASE p < c
  <2>1. missed' = missed + 1
    BY <1>2 DEF Misses
  <2>2. MissedCost' = MissedCost + MaxCost
    BY <2>1, <1>1 DEF MissedCost
  <2> QED BY <2>1, <2>2, <1>1, ClaudeAssumption
<1>3. CASE ~(p < c)
  <2>1. missed' = missed
    BY <1>3 DEF Misses
  <2>2. MissedCost' = MissedCost
    BY <2>1 DEF MissedCost
  <2> QED BY <2>1, <2>2, <1>1, <1>3, ClaudeAssumption
<1> QED BY <1>2, <1>3

\* Nothing is spent at first.
LEMMA SpendInit == MillInit => SpendIsCounted
  BY ClaudeAssumption DEF MillInit, ClaudeInit, SpendIsCounted, ClaudeTypes, MissedCost, SpentAgain, Allowed

\* What was charged stays on file, in hand, or among the calls that are missed.
LEMMA SpendStep == SpendIsCounted /\ [MillNext]_vars => SpendIsCounted'
<1> SUFFICES ASSUME SpendIsCounted, [MillNext]_vars PROVE SpendIsCounted'
  OBVIOUS
<1>m. PICK m \in Nat : m = MissedCost
  BY BoundsAreNumbers DEF SpendIsCounted, ClaudeTypes
<1>s. PICK s \in Nat : s = SpentAgain
  BY BoundsAreNumbers DEF SpendIsCounted, ClaudeTypes
<1>0. (missed' = missed => MissedCost' = m) /\ (misread' = misread => SpentAgain' = s)
  BY BoundsAreNumbers, <1>m, <1>s DEF SpendIsCounted, ClaudeTypes
<1>b. /\ bill <= costs + owed + m
      /\ claudePc # "dead" => bill <= claudeMonth + s + m
      /\ bill <= Budget - 1 + MaxCost + s + m
      /\ claudePc = "calling" => claudeMonth <= Budget - 1 /\ owed = 0
      /\ bill \in Nat /\ costs \in Nat /\ owed \in 0 .. MaxCost /\ claudeMonth \in Nat
      /\ MaxCost \in Nat /\ Budget - 1 \in Nat
  BY <1>m, <1>s, ClaudeAssumption DEF SpendIsCounted, ClaudeTypes, Allowed
<1>c. ASSUME NEW c \in 0 .. MaxCost, NEW p \in 0 .. c, Misses(c, p)
      PROVE  \E n \in Nat : n = MissedCost' /\ missed' \in Nat /\ c - p + m <= n
  BY <1>c, <1>m, MissedIsCovered DEF SpendIsCounted, ClaudeTypes
<1>1. CASE WaitIsOver \/ ClaudeStops \/ VariantsDone
  BY <1>0, <1>m, <1>s, <1>1 DEF WaitIsOver, ClaudeStops, VariantsDone, spendVars, SpendIsCounted, ClaudeTypes, Allowed
<1>2. CASE Consult
  BY <1>0, <1>m, <1>s, <1>2, ClaudeAssumption DEF Consult, spendVars, SpendIsCounted, ClaudeTypes, Allowed
<1>3. CASE CallFails
  <2>1. PICK c \in 0 .. MaxCost : bill' = bill + c /\ Misses(c, 0)
    BY <1>3 DEF CallFails
  <2>2. PICK n \in Nat : n = MissedCost' /\ missed' \in Nat /\ c - 0 + m <= n
    BY <2>1, <1>c, <1>b
  <2>3. claudePc = "calling" /\ claudePc' = "tick" /\ UNCHANGED <<claudeMonth, owed, costs, misread>>
    BY <1>3 DEF CallFails
  <2>4. bill' = bill + c
    BY <2>1
  <2>5. bill' <= claudeMonth + s + n /\ bill' <= costs + n /\ bill' <= Budget - 1 + MaxCost + s + n /\ bill' \in Nat
    <3>1. c + m <= n /\ c \in Nat
      BY <2>2, <1>b
    <3>2. bill + c <= costs + n
      BY <3>1, <2>3, <1>b
    <3>3. bill + c <= claudeMonth + s + n
      BY <3>1, <2>3, <1>b
    <3>4. bill + c <= Budget - 1 + MaxCost + s + n
      BY <3>1, <2>3, <1>b, ClaudeAssumption
    <3> QED BY <2>4, <3>1, <3>2, <3>3, <3>4, <1>b
  <2>6. SpentAgain' = s /\ MissedCost' = n /\ missed' \in Nat
    BY <2>2, <2>3, <1>0
  <2> QED BY <2>3, <2>5, <2>6, <1>b, ClaudeAssumption DEF SpendIsCounted, ClaudeTypes, Allowed
<1>4. CASE CallCosts
  <2>0. PICK c \in 0 .. MaxCost :
          \E p \in 0 .. c :
            bill' = bill + c /\ owed' = p /\ Misses(c, p) /\ claudeMonth' = claudeMonth + p
    BY <1>4 DEF CallCosts
  <2>1. PICK p \in 0 .. c :
          bill' = bill + c /\ owed' = p /\ Misses(c, p) /\ claudeMonth' = claudeMonth + p
    BY <2>0
  <2>2. PICK n \in Nat : n = MissedCost' /\ missed' \in Nat /\ c - p + m <= n
    BY <2>1, <1>c
  <2>3. claudePc = "calling" /\ claudePc' = "paid" /\ UNCHANGED <<costs, misread>>
    BY <1>4 DEF CallCosts
  <2>4. bill' = bill + c /\ owed' = p /\ claudeMonth' = claudeMonth + p
    BY <2>1
  <2>5. /\ bill' <= claudeMonth' + s + n /\ bill' <= costs + owed' + n
        /\ bill' <= Budget - 1 + MaxCost + s + n /\ bill' \in Nat /\ claudeMonth' \in Nat /\ owed' \in 0 .. MaxCost
    <3>1. c - p + m <= n /\ c \in 0 .. MaxCost /\ p \in 0 .. c
      BY <2>2
    <3>2. bill + c <= costs + p + n
      BY <3>1, <2>3, <1>b
    <3>3. bill + c <= claudeMonth + p + s + n
      BY <3>1, <2>3, <1>b
    <3>4. bill + c <= Budget - 1 + MaxCost + s + n
      BY <3>1, <3>3, <2>3, <1>b, ClaudeAssumption
    <3> QED BY <2>4, <3>1, <3>2, <3>3, <3>4, <1>b
  <2>6. SpentAgain' = s /\ MissedCost' = n /\ missed' \in Nat
    BY <2>2, <2>3, <1>0
  <2>7. ClaudeTypes'
    BY <2>3, <2>5, <2>6, <1>b DEF SpendIsCounted, ClaudeTypes
  <2>8. bill' <= costs' + owed' + n
    <3>1. costs' = costs
      BY <2>3
    <3> QED BY <3>1, <2>5
  <2>. owed' <= MaxCost
    BY <2>5, <1>b
  <2>9. bill' <= costs' + owed' + MissedCost' /\ bill' <= claudeMonth' + SpentAgain' + MissedCost'
    BY <2>5, <2>6, <2>8
  <2>10. bill' <= Allowed + SpentAgain' + MissedCost'
    BY <2>5, <2>6, ClaudeAssumption DEF Allowed
  <2> QED BY <2>3, <2>7, <2>8, <2>9, <2>10 DEF SpendIsCounted, Allowed
<1>5. CASE RecordCost
  <2>1. claudePc = "paid" /\ claudePc' = "writing" /\ owed' = 0 /\ UNCHANGED <<claudeMonth, bill, misread>>
    BY <1>5 DEF RecordCost
  <2>2. CASE costs' = costs + owed /\ UNCHANGED missed
    BY <2>1, <2>2, <1>0, <1>m, <1>s, ClaudeAssumption DEF SpendIsCounted, ClaudeTypes, Allowed
  <2>3. CASE UNCHANGED costs /\ Misses(owed, 0)
    <3>1. PICK n \in Nat : n = MissedCost' /\ missed' \in Nat /\ owed - 0 + m <= n
      BY <2>3, <1>c, <1>b
    <3>2. costs' = costs /\ owed + m <= n
      BY <2>3, <3>1, <1>b
    <3>3. bill <= claudeMonth + s + n /\ bill <= costs + n
      BY <3>2, <2>1, <1>b
    <3>4. bill <= Budget - 1 + MaxCost + s + n
      BY <3>2, <2>1, <1>b, ClaudeAssumption
    <3>5. SpentAgain' = s /\ MissedCost' = n /\ missed' \in Nat
      BY <3>1, <2>1, <1>0
    <3> QED BY <2>1, <3>2, <3>3, <3>4, <3>5, <1>b, ClaudeAssumption DEF SpendIsCounted, ClaudeTypes, Allowed
  <2> QED BY <1>5, <2>2, <2>3 DEF RecordCost
<1>6. CASE WriteVariant \/ UNCHANGED claudeVars
  BY <1>0, <1>m, <1>s, <1>6 DEF WriteVariant, claudeVars, spendVars, SpendIsCounted, ClaudeTypes, Allowed
<1>7. CASE MonthEnds
  <2>1. bill' = 0 /\ costs' = 0 /\ missed' = 0 /\ misread' = 0 /\ UNCHANGED <<claudePc, claudeMonth, owed>>
        /\ claudePc # "calling"
    BY <1>7 DEF MonthEnds
  <2>2. MissedCost' = 0 /\ SpentAgain' = 0
    BY <2>1, ClaudeAssumption DEF MissedCost, SpentAgain, Allowed
  <2> QED BY <2>1, <2>2, ClaudeAssumption DEF SpendIsCounted, ClaudeTypes, Allowed
<1>8. CASE ClaudeRestart
  <2>1. claudePc = "dead" /\ claudePc' = "tick" /\ owed' = 0 /\ UNCHANGED <<costs, bill, missed>>
    BY <1>8 DEF ClaudeRestart
  <2>2. CASE claudeMonth' = costs /\ UNCHANGED misread
    BY <2>1, <2>2, <1>0, <1>m, <1>s, ClaudeAssumption DEF SpendIsCounted, ClaudeTypes, Allowed
  <2>3. CASE claudeMonth' = 0 /\ misread' = misread + 1
    <3>1. SpentAgain' = s + (Budget - 1 + MaxCost)
      <4>1. (misread + 1) * Allowed = misread * Allowed + Allowed /\ Allowed = Budget - 1 + MaxCost
        BY ClaudeAssumption DEF SpendIsCounted, ClaudeTypes, Allowed
      <4>2. SpentAgain' = (misread + 1) * Allowed
        BY <2>3 DEF SpentAgain, Allowed
      <4>3. misread * Allowed = s
        BY <1>s DEF SpentAgain
      <4> QED BY <4>1, <4>2, <4>3
    <3>2. bill <= s + (Budget - 1 + MaxCost) + m
      BY <1>b, ClaudeAssumption
    <3>3. s + (Budget - 1 + MaxCost) \in Nat /\ misread' \in Nat /\ MissedCost' = m
      BY <2>1, <2>3, <1>0, <1>b, ClaudeAssumption DEF SpendIsCounted, ClaudeTypes
    <3> QED BY <2>1, <2>3, <3>1, <3>2, <3>3, <1>b, ClaudeAssumption DEF SpendIsCounted, ClaudeTypes, Allowed
  <2> QED BY <1>8, <2>2, <2>3 DEF ClaudeRestart
<1>9. CASE ClaudeDies
  <2>1. claudePc' = "dead" /\ owed' = 0 /\ UNCHANGED <<claudeMonth, costs, misread>>
    BY <1>9 DEF ClaudeDies
  <2>2. CASE claudePc = "calling"
    <3>1. PICK c \in 0 .. MaxCost : bill' = bill + c /\ Misses(c, 0)
      BY <1>9, <2>2 DEF ClaudeDies
    <3>2. PICK n \in Nat : n = MissedCost' /\ missed' \in Nat /\ c - 0 + m <= n
      BY <3>1, <1>c, <1>b
    <3>3. bill' = bill + c /\ c + m <= n /\ c \in Nat
      BY <3>1, <3>2, <1>b
    <3>4. bill + c <= costs + n
      BY <3>3, <2>2, <1>b
    <3>5. bill + c <= claudeMonth + s + n
      BY <3>3, <2>2, <1>b
    <3>6. bill + c <= Budget - 1 + MaxCost + s + n
      BY <3>3, <2>2, <1>b, ClaudeAssumption
    <3>7. bill' \in Nat /\ bill' <= costs + n /\ bill' <= Budget - 1 + MaxCost + s + n
      BY <3>3, <3>4, <3>6, <1>b
    <3>8. SpentAgain' = s /\ MissedCost' = n /\ missed' \in Nat
      BY <3>2, <2>1, <1>0
    <3> QED BY <2>1, <3>7, <3>8, <1>b, ClaudeAssumption DEF SpendIsCounted, ClaudeTypes, Allowed
  <2>3. CASE claudePc = "paid"
    <3>1. Misses(owed, 0) /\ UNCHANGED bill
      BY <1>9, <2>3 DEF ClaudeDies
    <3>2. PICK n \in Nat : n = MissedCost' /\ missed' \in Nat /\ owed - 0 + m <= n
      BY <3>1, <1>c, <1>b
    <3>3. bill' = bill /\ owed + m <= n
      BY <3>1, <3>2, <1>b
    <3>4. bill <= costs + n
      BY <3>3, <1>b
    <3>5. bill <= Budget - 1 + MaxCost + s + n
      BY <3>3, <1>b, ClaudeAssumption
    <3>6. SpentAgain' = s /\ MissedCost' = n /\ missed' \in Nat
      BY <3>2, <2>1, <1>0
    <3> QED BY <2>1, <3>3, <3>4, <3>5, <3>6, <1>b, ClaudeAssumption DEF SpendIsCounted, ClaudeTypes, Allowed
  <2>4. CASE claudePc \notin {"calling", "paid"}
    <3>1. UNCHANGED <<bill, missed>>
      BY <1>9, <2>4 DEF ClaudeDies
    <3> QED BY <2>1, <2>4, <3>1, <1>0, <1>m, <1>s, ClaudeAssumption DEF SpendIsCounted, ClaudeTypes, Allowed
  <2> QED BY <2>2, <2>3, <2>4
<1> QED
  BY <1>1, <1>2, <1>3, <1>4, <1>5, <1>6, <1>7, <1>8, <1>9, ClaudeFrame, Zenon DEF ClaudeStep

\* A month costs less than the budget and one call, and one call more for each call whose
\* charge is not all in the log of costs; each time a new ant cannot read that log lets it all
\* be spent once more (the budget check of _tick, _load_month_costs), whatever the budget and
\* the costs.
THEOREM SpendStaysBounded == MillSpec => []SpendIsBounded
<1>1. SpendIsCounted => SpendIsBounded
  BY DEF SpendIsCounted, SpendIsBounded, MissedCost, SpentAgain
<1> QED BY <1>1, SpendInit, SpendStep, PTL DEF MillSpec

--------------------------------------------------------------------------------
(* The promoter. *)

\* A step of the colony is one of those that take up what the makers wrote, or none of theirs.
LEMMA TakerFrame ==
  ASSUME [MillNext]_vars
  PROVE  TakerStep \/ UNCHANGED takerVars
  BY Zenon DEF MillNext, vars

\* To the promoter a step is its own, its end, or none of its.
LEMMA PromoterFrame ==
  ASSUME [MillNext]_vars
  PROVE  PromoterStep \/ PromoterDies \/ UNCHANGED promoVars
<1>1. CASE TakerStep
  BY <1>1, Zenon DEF TakerStep
<1>2. CASE UNCHANGED takerVars
  BY <1>2, Zenon DEF takerVars
<1> QED BY <1>1, <1>2, TakerFrame, Zenon

PromoTypes ==
  /\ imported \in Seq(Candidates) /\ pTodo \in Seq(Candidates) /\ pSeen \subseteq Candidates
  /\ approved \in [Candidates -> Nat] /\ events \in [Candidates -> Seq({"paper", "approved"})]
  /\ pPc \in {"idle", "scan", "paper", "issue", "approve", "write"}
  /\ promoters \in Nat \ {0}

ApprovalsOf(c) == {n \in DOMAIN events[c] : events[c][n] = "approved"}
Approvals(c)   == Cardinality(ApprovalsOf(c))
InProgress(c)       == pPc \notin {"idle", "scan"} /\ InHand = c

\* What is in hand is seen, and has the status its step starts from.
HandIsSeen ==
  /\ pPc \notin {"idle", "scan"} => pTodo # <<>> /\ InHand \in Ready \cap pSeen
  /\ pPc \in {"issue", "approve"} => StatusOf(InHand) = "paper"
  /\ pPc = "write" => StatusOf(InHand) = "approved"

ApprovedFromPaper ==
  \A c \in Candidates : \A n \in ApprovalsOf(c) : n > 1 /\ events[c][n - 1] = "paper"

\* A promoter approves a candidate once, and each line has its approval.
ApprovalsCounted ==
  \A c \in Candidates :
    /\ approved[c] <= Approvals(c) /\ Approvals(c) <= promoters
    /\ pPc = "write" /\ InHand = c => approved[c] < Approvals(c)
    /\ c \notin pSeen => Approvals(c) < promoters
    /\ InProgress(c) /\ pPc # "write" => Approvals(c) < promoters

PromotionIsCounted == PromoTypes /\ HandIsSeen /\ ApprovedFromPaper /\ ApprovalsCounted /\ SeenIsDecided

\* A candidate has finitely many events and approvals.
LEMMA ApprovalsFinite ==
  ASSUME PromoTypes, NEW c \in Candidates
  PROVE  /\ events[c] \in Seq({"paper", "approved"}) /\ Len(events[c]) \in Nat
         /\ DOMAIN events[c] = 1 .. Len(events[c])
         /\ IsFiniteSet(ApprovalsOf(c)) /\ Approvals(c) \in Nat
<1>1. events[c] \in Seq({"paper", "approved"}) /\ Len(events[c]) \in Nat /\ DOMAIN events[c] = 1 .. Len(events[c])
  BY DEF PromoTypes
<1>2. IsFiniteSet(1 .. Len(events[c]))
  BY <1>1, FS_Interval
<1>3. ApprovalsOf(c) \subseteq 1 .. Len(events[c])
  BY <1>1 DEF ApprovalsOf
<1> QED BY <1>1, <1>2, <1>3, FS_Subset, FS_CardinalityType DEF Approvals

\* One event more of a candidate, the others' as they are.
LEMMA EventMore ==
  ASSUME PromoTypes, NEW c \in Candidates, NEW to \in {"paper", "approved"},
         events' = [events EXCEPT ![c] = Append(@, to)]
  PROVE  /\ events' \in [Candidates -> Seq({"paper", "approved"})]
         /\ StatusOf(c)' = to
         /\ \A d \in Candidates \ {c} : events'[d] = events[d] /\ ApprovalsOf(d)' = ApprovalsOf(d) /\ Approvals(d)' = Approvals(d)
         /\ to = "paper" => ApprovalsOf(c)' = ApprovalsOf(c) /\ Approvals(c)' = Approvals(c)
         /\ to = "approved" => /\ ApprovalsOf(c)' = ApprovalsOf(c) \cup {Len(events[c]) + 1}
                               /\ Approvals(c)' = Approvals(c) + 1
         /\ \A n \in 1 .. Len(events[c]) : events'[c][n] = events[c][n]
<1> DEFINE s == events[c]
<1>1. s \in Seq({"paper", "approved"}) /\ Len(s) \in Nat /\ DOMAIN s = 1 .. Len(s)
      /\ IsFiniteSet(ApprovalsOf(c)) /\ Approvals(c) \in Nat
  BY ApprovalsFinite
<1>2. /\ Append(s, to) \in Seq({"paper", "approved"})
      /\ Append(s, to) # <<>>
      /\ Len(Append(s, to)) = Len(s) + 1
      /\ \A n \in 1 .. Len(s) : Append(s, to)[n] = s[n]
      /\ Append(s, to)[Len(s) + 1] = to
  BY <1>1, AppendProperties
<1>3. events'[c] = Append(s, to) /\ \A d \in Candidates \ {c} : events'[d] = events[d]
  BY DEF PromoTypes
<1>4. DOMAIN events'[c] = 1 .. Len(s) + 1
  BY <1>1, <1>2, <1>3
<1>5. events' \in [Candidates -> Seq({"paper", "approved"})]
  BY <1>2 DEF PromoTypes
<1>6. StatusOf(c)' = to
  BY <1>2, <1>3 DEF StatusOf
<1>7. \A d \in Candidates \ {c} : ApprovalsOf(d)' = ApprovalsOf(d) /\ Approvals(d)' = Approvals(d)
  BY <1>3, Zenon DEF ApprovalsOf, Approvals
<1>8. ASSUME to = "paper" PROVE ApprovalsOf(c)' = ApprovalsOf(c)
  BY <1>1, <1>2, <1>3, <1>4, <1>8 DEF ApprovalsOf
<1>9. ASSUME to = "approved" PROVE ApprovalsOf(c)' = ApprovalsOf(c) \cup {Len(s) + 1}
  BY <1>1, <1>2, <1>3, <1>4, <1>9 DEF ApprovalsOf
<1>10. Len(s) + 1 \notin ApprovalsOf(c)
  BY <1>1 DEF ApprovalsOf
<1>11. Cardinality(ApprovalsOf(c) \cup {Len(s) + 1}) = Cardinality(ApprovalsOf(c)) + 1
  BY <1>1, <1>10, FS_AddElement
<1> QED BY <1>2, <1>3, <1>5, <1>6, <1>7, <1>8, <1>9, <1>11 DEF Approvals

\* While the log of events stays so do the approvals.
LEMMA EventsSame ==
  ASSUME UNCHANGED events
  PROVE  /\ \A c : ApprovalsOf(c)' = ApprovalsOf(c) /\ Approvals(c)' = Approvals(c) /\ StatusOf(c)' = StatusOf(c)
         /\ ApprovedFromPaper => ApprovedFromPaper'
  BY Zenon DEF ApprovalsOf, Approvals, StatusOf, ApprovedFromPaper

\* No candidate has been promoted at first.
LEMMA PromoterInitHolds == MillInit => PromotionIsCounted
<1> SUFFICES ASSUME PromoterInit PROVE PromotionIsCounted
  BY DEF MillInit
<1> USE DEF PromoterInit
<1>1. PromoTypes
  BY PromoterAssumption, EmptySeq DEF PromoTypes
<1>2. \A c \in Candidates : ApprovalsOf(c) = {}
  BY DEF ApprovalsOf
<1>3. ApprovalsCounted /\ ApprovedFromPaper
  <2>1. \A c \in Candidates : Approvals(c) = 0
    BY <1>2, FS_EmptySet, Zenon DEF Approvals
  <2> QED BY <1>2, <2>1 DEF ApprovalsCounted, ApprovedFromPaper, InProgress
<1> QED BY <1>1, <1>3 DEF PromotionIsCounted, HandIsSeen, SeenIsDecided

\* The promoter's own steps, with a new life among them.
LEMMA PromoterActs ==
  ASSUME PromotionIsCounted, PromoterStep \/ PromoterDies
  PROVE  PromotionIsCounted'
<1> USE PromoterAssumption
<1>0. PromoTypes /\ HandIsSeen /\ ApprovedFromPaper /\ ApprovalsCounted /\ SeenIsDecided
  BY DEF PromotionIsCounted
<1>a. \A c \in Candidates : Approvals(c) \in Nat /\ approved[c] \in Nat
  BY <1>0, ApprovalsFinite DEF PromoTypes
<1>c. promoters \in Nat
  BY <1>0 DEF PromoTypes
<1>b. ASSUME pTodo # <<>> PROVE InHand \in Candidates /\ Tail(pTodo) \in Seq(Candidates)
  BY <1>0, <1>b DEF PromoTypes, InHand
<1>1. ASSUME NEW c \in Candidates, Import(c) PROVE PromotionIsCounted'
  <2>1. UNCHANGED <<approved, events, pSeen, pTodo, pPc, promoters, dropped>> /\ imported' \in Seq(Candidates)
    BY <1>0, <1>1 DEF Import, promoterVars, PromoTypes
  <2>2. InHand' = InHand
    BY <2>1 DEF InHand
  <2> QED BY <1>0, <2>1, <2>2, EventsSame DEF PromotionIsCounted, PromoTypes, HandIsSeen, ApprovalsCounted, SeenIsDecided, InProgress
<1>2. CASE PromoterTick \/ FileDone
  <2>1. UNCHANGED <<imported, approved, events, pSeen, promoters, dropped>> /\ pPc \in {"idle", "scan"}
        /\ pPc' \in {"idle", "scan"} /\ pTodo' \in Seq(Candidates)
    BY <1>0, <1>2 DEF PromoterTick, FileDone, PromoTypes
  <2> QED BY <1>0, <1>a, <1>c, <2>1, EventsSame DEF PromotionIsCounted, PromoTypes, HandIsSeen, ApprovalsCounted, SeenIsDecided,
        InProgress
<1>3. CASE NextRecord
  <2>1. UNCHANGED <<imported, approved, events, promoters, dropped>> /\ pPc = "scan" /\ pTodo # <<>>
        /\ pSeen' = pSeen \cup {InHand}
    BY <1>3 DEF NextRecord
  <2>2. CASE InHand \in Ready \ pSeen
    <3>1. pPc' = "paper" /\ pTodo' = pTodo /\ InHand' = InHand
      BY <1>3, <2>2 DEF NextRecord, Promoting, InHand
    <3>2. PromoTypes' /\ HandIsSeen' /\ SeenIsDecided'
      BY <1>0, <1>b, <2>1, <2>2, <3>1, EventsSame DEF PromoTypes, HandIsSeen, SeenIsDecided
    <3>3. ApprovalsCounted'
      BY <1>0, <1>a, <1>c, <1>b, <2>1, <2>2, <3>1, EventsSame DEF ApprovalsCounted, InProgress
    <3> QED BY <1>0, <2>1, <3>2, <3>3, EventsSame DEF PromotionIsCounted
  <2>3. CASE InHand \notin Ready \ pSeen
    <3>1. pPc' = "scan" /\ pTodo' = Tail(pTodo)
      BY <1>3, <2>3 DEF NextRecord, NextLine
    <3>2. PromoTypes' /\ HandIsSeen' /\ SeenIsDecided'
      BY <1>0, <1>b, <2>1, <2>3, <3>1, EventsSame DEF PromoTypes, HandIsSeen, SeenIsDecided
    <3>3. ApprovalsCounted'
      BY <1>0, <1>a, <1>c, <1>b, <2>1, <2>3, <3>1, EventsSame DEF ApprovalsCounted, InProgress
    <3> QED BY <1>0, <2>1, <3>2, <3>3, EventsSame DEF PromotionIsCounted
  <2> QED BY <2>2, <2>3
<1>4. CASE ToPaper
  <2>1. PICK c \in Candidates : c = InHand /\ pTodo # <<>> /\ c \in Ready \cap pSeen
    BY <1>0, <1>b, <1>4 DEF ToPaper, HandIsSeen
  <2>2. UNCHANGED <<imported, approved, pSeen, pTodo, promoters, dropped>> /\ pPc = "paper" /\ pPc' = "issue"
        /\ events' = [events EXCEPT ![c] = Append(@, "paper")] /\ InHand' = c
    BY <1>4, <2>1 DEF ToPaper, Grant, InHand
  <2>3. /\ events' \in [Candidates -> Seq({"paper", "approved"})]
        /\ StatusOf(c)' = "paper"
        /\ \A d \in Candidates \ {c} : events'[d] = events[d] /\ ApprovalsOf(d)' = ApprovalsOf(d) /\ Approvals(d)' = Approvals(d)
        /\ ApprovalsOf(c)' = ApprovalsOf(c) /\ Approvals(c)' = Approvals(c)
        /\ \A n \in 1 .. Len(events[c]) : events'[c][n] = events[c][n]
    BY <1>0, <2>2, EventMore
  <2>4. PromoTypes' /\ HandIsSeen'
    BY <1>0, <2>1, <2>2, <2>3 DEF PromoTypes, HandIsSeen
  <2>5. \A n \in ApprovalsOf(c) : n > 1 /\ events'[c][n - 1] = "paper"
    <3>1. \A n \in ApprovalsOf(c) : n \in 1 .. Len(events[c]) /\ n > 1 /\ events[c][n - 1] = "paper"
      BY <1>0, ApprovalsFinite DEF ApprovedFromPaper, ApprovalsOf
    <3> QED BY <3>1, <2>3
  <2>6. ApprovalsCounted'
    <3>1. \A d \in Candidates : Approvals(d)' = Approvals(d)
      BY <2>3
    <3> QED BY <1>0, <2>1, <2>2, <3>1 DEF ApprovalsCounted, InProgress
  <2>8. ApprovedFromPaper'
    BY <1>0, <2>3, <2>5 DEF ApprovedFromPaper
  <2>7. SeenIsDecided'
    BY <1>0, <2>1, <2>2, <2>3 DEF SeenIsDecided, StatusOf
  <2> QED BY <2>4, <2>6, <2>7, <2>8 DEF PromotionIsCounted
<1>5. CASE IssueMission
  <2>1. UNCHANGED <<imported, approved, events, pSeen, pTodo, promoters, dropped>> /\ pPc = "issue" /\ pPc' = "approve"
        /\ InHand' = InHand
    BY <1>5 DEF IssueMission, InHand
  <2> QED BY <1>0, <1>a, <1>c, <2>1, EventsSame DEF PromotionIsCounted, PromoTypes, HandIsSeen, ApprovalsCounted, SeenIsDecided,
        InProgress
<1>6. CASE IssueRaises \/ WriteFails
  <2>1. UNCHANGED <<imported, approved, events, pSeen, promoters>> /\ pPc \in {"issue", "write"} /\ pPc' \in {"idle", "scan"}
        /\ dropped' = dropped \cup {InHand} /\ pTodo' \in Seq(Candidates)
    BY <1>0, <1>6, <1>b, EmptySeq DEF IssueRaises, WriteFails, NextLine, HandIsSeen
  <2> QED BY <1>0, <1>a, <1>c, <2>1, EventsSame DEF PromotionIsCounted, PromoTypes, HandIsSeen, ApprovalsCounted, SeenIsDecided,
        InProgress
<1>7. CASE ToApproved
  <2>1. PICK c \in Candidates : c = InHand /\ pTodo # <<>> /\ c \in Ready \cap pSeen
    BY <1>0, <1>b, <1>7 DEF ToApproved, HandIsSeen
  <2>2. UNCHANGED <<imported, approved, pSeen, pTodo, promoters, dropped>> /\ pPc = "approve" /\ pPc' = "write"
        /\ events' = [events EXCEPT ![c] = Append(@, "approved")] /\ InHand' = c
    BY <1>7, <2>1 DEF ToApproved, Grant, InHand
  <2>3. /\ events' \in [Candidates -> Seq({"paper", "approved"})]
        /\ StatusOf(c)' = "approved"
        /\ \A d \in Candidates \ {c} : events'[d] = events[d] /\ ApprovalsOf(d)' = ApprovalsOf(d) /\ Approvals(d)' = Approvals(d)
        /\ ApprovalsOf(c)' = ApprovalsOf(c) \cup {Len(events[c]) + 1}
        /\ Approvals(c)' = Approvals(c) + 1
        /\ \A n \in 1 .. Len(events[c]) : events'[c][n] = events[c][n]
    BY <1>0, <2>2, EventMore
  <2>4. Len(events[c]) \in Nat /\ Len(events[c]) > 0 /\ events[c][Len(events[c])] = "paper"
    <3>1. StatusOf(c) = "paper"
      BY <1>0, <2>1, <2>2 DEF HandIsSeen
    <3> QED BY <3>1, <1>0, ApprovalsFinite, EmptySeq DEF StatusOf
  <2>5. \A n \in ApprovalsOf(c)' : n > 1 /\ events'[c][n - 1] = "paper"
    <3>1. \A n \in ApprovalsOf(c) : n \in 1 .. Len(events[c]) /\ n > 1 /\ events[c][n - 1] = "paper"
      BY <1>0, ApprovalsFinite DEF ApprovedFromPaper, ApprovalsOf
    <3>2. ASSUME NEW n \in ApprovalsOf(c) PROVE n > 1 /\ events'[c][n - 1] = "paper"
      <4>1. n \in 1 .. Len(events[c]) /\ n > 1 /\ events[c][n - 1] = "paper"
        BY <3>1
      <4>2. n - 1 \in 1 .. Len(events[c])
        BY <2>4, <4>1
      <4>3. events'[c][n - 1] = events[c][n - 1]
        BY <2>3, <4>2
      <4> QED BY <4>1, <4>3
    <3>3. ASSUME NEW n, n = Len(events[c]) + 1 PROVE n > 1 /\ events'[c][n - 1] = "paper"
      <4>1. n > 1 /\ n - 1 = Len(events[c]) /\ Len(events[c]) \in 1 .. Len(events[c])
        BY <2>4, <3>3
      <4> QED BY <2>3, <2>4, <4>1
    <3>4. \A n \in ApprovalsOf(c)' : n \in ApprovalsOf(c) \/ n = Len(events[c]) + 1
      BY <2>3
    <3> QED BY <3>2, <3>3, <3>4, Zenon
  <2>6. PromoTypes' /\ HandIsSeen'
    BY <1>0, <2>1, <2>2, <2>3 DEF PromoTypes, HandIsSeen
  <2>7. ApprovalsCounted'
    <3>1. Approvals(c) < promoters /\ approved[c] <= Approvals(c)
      BY <1>0, <2>1, <2>2 DEF ApprovalsCounted, InProgress
    <3> QED BY <1>0, <1>a, <1>c, <2>1, <2>2, <2>3, <3>1 DEF ApprovalsCounted, InProgress
  <2>8. SeenIsDecided'
    BY <1>0, <2>1, <2>2, <2>3 DEF SeenIsDecided, StatusOf
  <2>9. ApprovedFromPaper'
    BY <1>0, <2>3, <2>5 DEF ApprovedFromPaper
  <2> QED BY <2>6, <2>7, <2>8, <2>9 DEF PromotionIsCounted
<1>8. CASE WriteApproved
  <2>1. PICK c \in Candidates : c = InHand /\ pTodo # <<>> /\ c \in Ready \cap pSeen
    BY <1>0, <1>b, <1>8 DEF WriteApproved, HandIsSeen
  <2>2. UNCHANGED <<imported, events, pSeen, promoters, dropped>> /\ pPc = "write" /\ pPc' = "scan"
        /\ approved' = [approved EXCEPT ![c] = @ + 1] /\ pTodo' \in Seq(Candidates)
    BY <1>8, <1>b, <2>1 DEF WriteApproved, NextLine
  <2>3. StatusOf(c) = "approved" /\ approved[c] < Approvals(c)
    BY <1>0, <2>1, <2>2 DEF HandIsSeen, ApprovalsCounted
  <2>4. PromoTypes' /\ HandIsSeen'
    BY <1>0, <2>2 DEF PromoTypes, HandIsSeen
  <2>5. ApprovalsCounted'
    <3>1. \A d \in Candidates : Approvals(d)' = Approvals(d) /\ approved'[d] = IF d = c THEN approved[c] + 1 ELSE approved[d]
      BY <1>0, <2>2, EventsSame DEF PromoTypes
    <3> QED BY <1>0, <1>a, <1>c, <2>1, <2>2, <2>3, <3>1 DEF ApprovalsCounted, InProgress
  <2>6. SeenIsDecided'
    BY <1>0, <2>1, <2>2, <2>3, EventsSame DEF SeenIsDecided, PromoTypes
  <2> QED BY <1>0, <2>2, <2>4, <2>5, <2>6, EventsSame DEF PromotionIsCounted
<1>9. CASE PromoterDies
  <2>1. UNCHANGED <<imported, approved, events>> /\ promoters' = promoters + 1 /\ pSeen' = {} /\ pTodo' = <<>>
        /\ pPc' = "idle"
    BY <1>9 DEF PromoterDies
  <2>2. PromoTypes' /\ HandIsSeen' /\ SeenIsDecided'
    BY <1>0, <2>1, EmptySeq DEF PromoTypes, HandIsSeen, SeenIsDecided
  <2>3. ApprovalsCounted'
    <3>1. \A d \in Candidates : Approvals(d)' = Approvals(d)
      BY <2>1, EventsSame
    <3> QED BY <1>0, <1>a, <1>c, <2>1, <3>1 DEF ApprovalsCounted, InProgress
  <2> QED BY <1>0, <2>1, <2>2, <2>3, EventsSame DEF PromotionIsCounted
<1> QED BY <1>1, <1>2, <1>3, <1>4, <1>5, <1>6, <1>7, <1>8, <1>9 DEF PromoterStep

\* A promoter approves in order, each candidate once in its life, and what it saw it decides
\* (_promote, _seen_candidate_ids).
THEOREM PromotionStaysOrderly == MillSpec => []PromotionIsOrderly
<1>1. PromotionIsCounted /\ [MillNext]_vars => PromotionIsCounted'
  <2>1. ASSUME PromotionIsCounted, UNCHANGED promoVars PROVE PromotionIsCounted'
    BY <2>1, Zenon DEF PromotionIsCounted, PromoTypes, HandIsSeen, ApprovedFromPaper, ApprovalsCounted, SeenIsDecided, ApprovalsOf, Approvals, InProgress,
      StatusOf, InHand, promoVars, promoterVars
  <2> QED BY <2>1, PromoterFrame, PromoterActs
<1>2. PromotionIsCounted => PromotionIsOrderly
  <2>1. SUFFICES ASSUME PromotionIsCounted PROVE PromotedInOrder
    BY DEF PromotionIsCounted, PromotionIsOrderly
  <2>2. \A c \in Candidates : Approvals(c) \in Nat /\ approved[c] \in Nat
    BY <2>1, ApprovalsFinite DEF PromotionIsCounted, PromoTypes
  <2>3. \A c \in Candidates : approved[c] <= Approvals(c) /\ Approvals(c) <= promoters
    BY <2>1 DEF PromotionIsCounted, ApprovalsCounted
  <2> QED BY <2>1, <2>3, Zenon DEF PromotionIsCounted, ApprovedFromPaper, PromotedInOrder, ApprovalsOf, Approvals
<1> QED BY PromoterInitHolds, <1>1, <1>2, PTL DEF MillSpec

--------------------------------------------------------------------------------
(* The kill-zone ant and the queues of the paper ant. *)

\* To the kill-zone ant a step is its own or none of its.
LEMMA KillZoneFrame ==
  ASSUME [MillNext]_vars
  PROVE  KillZoneStep \/ UNCHANGED kzVars
<1>1. CASE TakerStep
  BY <1>1, Zenon DEF TakerStep
<1>2. CASE UNCHANGED takerVars
  BY <1>2, Zenon DEF takerVars
<1> QED BY <1>1, <1>2, TakerFrame, Zenon

\* To the queues of the paper ant a step is its own or none of theirs.
LEMMA QueuesFrame ==
  ASSUME [MillNext]_vars
  PROVE  QueuesStep \/ UNCHANGED qVars
<1>1. CASE TakerStep
  BY <1>1, Zenon DEF TakerStep
<1>2. CASE UNCHANGED takerVars
  BY <1>2, Zenon DEF takerVars
<1> QED BY <1>1, <1>2, TakerFrame, Zenon

Sessions == {Windows[n] : n \in DOMAIN Windows} \cup {Outside}

KzTypes ==
  /\ clock \in 1 .. 2 * Len(Windows) + 1 /\ days \in Nat /\ kzDay \in Nat /\ kzLife \in Nat
  /\ kzSession \in Sessions
  /\ kzLines \in [KzSymbols -> Seq(Nat \X Sessions \X Nat)]
  /\ kzTodo \subseteq KzSymbols

\* The window z of day d is open or over.
Begun(d, z) ==
  d < days \/ (d = days /\ \E n \in DOMAIN Windows : z = Windows[n] /\ 2 * n <= clock)

HasLine(s, d, z, l) == \E n \in 1 .. Len(kzLines[s]) : kzLines[s][n] = <<d, z, l>>

\* Lines are of windows that began, and not of a life to come; those of the window the
\* tick is of are in memory; and a window that is open has lines only if it is that one.
LinesAreRemembered ==
  /\ \A s \in KzSymbols, d \in Nat, z \in Sessions, l \in Nat : HasLine(s, d, z, l) =>
       /\ l <= kzLife /\ z # Outside /\ Begun(d, z)
       /\ l = kzLife /\ d = kzDay /\ z = kzSession => s \in kzEmitted /\ s \notin kzTodo
       /\ l = kzLife /\ d = days /\ z = SessionNow => d = kzDay /\ z = kzSession
  /\ kzTodo # {} => kzSession # Outside /\ Begun(kzDay, kzSession)

WindowsAreKept == KzTypes /\ LinesAreRemembered /\ OneLinePerWindow

\* Even ticks of the clock are within a window, odd ones between two.
LEMMA WindowAt ==
  ASSUME NEW c \in 1 .. 2 * Len(Windows) + 1, c % 2 = 0
  PROVE  c \div 2 \in DOMAIN Windows /\ 2 * (c \div 2) = c
  BY KillZoneAssumption

\* Within a window its number is that of the session.
LEMMA InWindow ==
  ASSUME KzTypes, SessionNow # Outside
  PROVE  clock \div 2 \in DOMAIN Windows /\ SessionNow = Windows[clock \div 2] /\ 2 * (clock \div 2) = clock
  BY WindowAt DEF KzTypes, SessionNow

\* No window is marked at first.
LEMMA KillZoneInitHolds == MillInit => WindowsAreKept
<1> SUFFICES ASSUME KillZoneInit PROVE WindowsAreKept
  BY DEF MillInit
<1> USE KillZoneAssumption DEF KillZoneInit
<1>1. KzTypes
  BY EmptySeq DEF KzTypes, Sessions
<1>2. \A s \in KzSymbols : Len(kzLines[s]) = 0 /\ DOMAIN kzLines[s] = {}
  BY EmptySeq
<1>3. LinesAreRemembered /\ OneLinePerWindow
  BY <1>2 DEF LinesAreRemembered, HasLine, OneLinePerWindow
<1> QED BY <1>1, <1>3 DEF WindowsAreKept

\* The ant writes for a window only the first time it finds itself in it.
LEMMA KillZoneActs ==
  ASSUME WindowsAreKept, KillZoneStep
  PROVE  WindowsAreKept'
<1> USE KillZoneAssumption
<1>0. KzTypes /\ LinesAreRemembered /\ OneLinePerWindow
  BY DEF WindowsAreKept
<1>s. SessionNow \in Sessions
  BY <1>0, InWindow DEF Sessions
<1>1. CASE ClockMoves
  <2>1. UNCHANGED <<kzSession, kzDay, kzEmitted, kzTodo, kzLines, kzLife>>
    BY <1>1 DEF ClockMoves
  <2>2. /\ clock' \in 1 .. 2 * Len(Windows) + 1 /\ days' \in Nat
        /\ (days' = days /\ clock' = clock + 1) \/ (days' = days + 1 /\ clock' = 1)
    BY <1>0, <1>1 DEF ClockMoves, KzTypes
  <2>3. KzTypes'
    BY <1>0, <2>1, <2>2 DEF KzTypes
  <2>4. \A d \in Nat : \A z : Begun(d, z) => Begun(d, z)'
    BY <1>0, <2>2 DEF Begun, KzTypes
  <2>5. ASSUME NEW d \in Nat, NEW z \in Sessions, Begun(d, z), d = days', z = SessionNow', z # Outside
        PROVE  FALSE
    <3>1. PICK n \in DOMAIN Windows : z = Windows[n] /\ 2 * n <= clock /\ days' = days /\ clock' = clock + 1
      BY <1>0, <2>2, <2>5 DEF Begun, KzTypes
    <3>2. clock' \div 2 \in DOMAIN Windows /\ SessionNow' = Windows[clock' \div 2] /\ 2 * (clock' \div 2) = clock'
      <4>1. clock' % 2 = 0 /\ SessionNow' = Windows[clock' \div 2]
        BY <2>5 DEF SessionNow
      <4> QED BY <4>1, <2>2, WindowAt
    <3>3. n = clock' \div 2
      BY <2>5, <3>1, <3>2
    <3> QED BY <1>0, <3>1, <3>2, <3>3 DEF KzTypes
  <2>6. \A s, d, z, l : HasLine(s, d, z, l)' <=> HasLine(s, d, z, l)
    BY <2>1 DEF HasLine
  <2>7. LinesAreRemembered'
    BY <1>0, <2>1, <2>4, <2>5, <2>6 DEF LinesAreRemembered, KzTypes
  <2> QED BY <1>0, <2>1, <2>3, <2>7 DEF WindowsAreKept, OneLinePerWindow
<1>2. CASE KillZoneTick
  <2>1. UNCHANGED <<clock, days, kzLines, kzLife>> /\ kzSession' = SessionNow /\ kzDay' = days
        /\ kzEmitted' = (IF SessionNow = kzSession THEN kzEmitted ELSE {})
        /\ kzTodo' = (IF SessionNow = Outside THEN {} ELSE KzSymbols \ kzEmitted')
    BY <1>2 DEF KillZoneTick
  <2>2. KzTypes'
    BY <1>0, <1>s, <2>1 DEF KzTypes
  <2>3. (\A s, d, z, l : HasLine(s, d, z, l)' <=> HasLine(s, d, z, l)) /\ (\A d, z : Begun(d, z)' <=> Begun(d, z))
        /\ SessionNow' = SessionNow
    BY <2>1 DEF HasLine, Begun, SessionNow
  <2>4. SessionNow # Outside => Begun(days, SessionNow)
    <3>1. SUFFICES ASSUME SessionNow # Outside PROVE \E n \in DOMAIN Windows : SessionNow = Windows[n] /\ 2 * n <= clock
      BY DEF Begun
    <3>2. clock \div 2 \in DOMAIN Windows /\ SessionNow = Windows[clock \div 2] /\ 2 * (clock \div 2) <= clock
      BY <1>0, <3>1, InWindow DEF KzTypes
    <3> QED BY <3>2
  <2>5. LinesAreRemembered'
    BY <1>0, <1>s, <2>1, <2>3, <2>4 DEF LinesAreRemembered, KzTypes
  <2> QED BY <1>0, <2>1, <2>2, <2>5 DEF WindowsAreKept, OneLinePerWindow
<1>3. CASE KillZoneRestart
  <2>1. UNCHANGED <<clock, days, kzDay, kzLines>> /\ kzLife' = kzLife + 1 /\ kzSession' = Outside /\ kzTodo' = {}
    BY <1>3 DEF KillZoneRestart
  <2>2. KzTypes'
    BY <1>0, <2>1 DEF KzTypes, Sessions
  <2>3. (\A s, d, z, l : HasLine(s, d, z, l)' <=> HasLine(s, d, z, l)) /\ (\A d, z : Begun(d, z)' <=> Begun(d, z))
    BY <2>1 DEF HasLine, Begun
  <2>4. LinesAreRemembered'
    BY <1>0, <2>1, <2>3 DEF LinesAreRemembered, KzTypes
  <2> QED BY <1>0, <2>1, <2>2, <2>4 DEF WindowsAreKept, OneLinePerWindow
<1>4. ASSUME NEW s \in KzSymbols, KillZonePasses(s) PROVE WindowsAreKept'
  <2>1. UNCHANGED <<clock, days, kzSession, kzDay, kzEmitted, kzLines, kzLife>> /\ kzTodo' = kzTodo \ {s}
    BY <1>4 DEF KillZonePasses
  <2>2. (\A t, d, z, l : HasLine(t, d, z, l)' <=> HasLine(t, d, z, l)) /\ (\A d, z : Begun(d, z)' <=> Begun(d, z))
        /\ SessionNow' = SessionNow
    BY <2>1 DEF HasLine, Begun, SessionNow
  <2> QED BY <1>0, <2>1, <2>2 DEF WindowsAreKept, OneLinePerWindow, LinesAreRemembered, KzTypes
<1>5. ASSUME NEW s \in KzSymbols, KillZoneEmits(s) PROVE WindowsAreKept'
  <2> DEFINE e == <<kzDay, kzSession, kzLife>>
  <2>1. UNCHANGED <<clock, days, kzSession, kzDay, kzLife>> /\ kzTodo' = kzTodo \ {s} /\ s \in kzTodo
        /\ kzEmitted' = kzEmitted \cup {s}
        /\ (kzLines' = [kzLines EXCEPT ![s] = Append(@, e)] \/ kzLines' = kzLines)
    BY <1>5 DEF KillZoneEmits
  <2>2. (\A d, z : Begun(d, z)' <=> Begun(d, z)) /\ SessionNow' = SessionNow
    BY <2>1 DEF Begun, SessionNow
  <2>3. kzSession # Outside /\ Begun(kzDay, kzSession) /\ e \in Nat \X Sessions \X Nat
    BY <1>0, <2>1 DEF LinesAreRemembered, KzTypes
  <2>4. CASE kzLines' = kzLines
    <3>1. \A t, d, z, l : HasLine(t, d, z, l)' <=> HasLine(t, d, z, l)
      BY <2>4 DEF HasLine
    <3> QED BY <1>0, <2>1, <2>2, <2>4, <3>1 DEF WindowsAreKept, OneLinePerWindow, LinesAreRemembered, KzTypes
  <2>5. CASE kzLines' = [kzLines EXCEPT ![s] = Append(@, e)]
    <3> DEFINE q == kzLines[s]
    <3>1. q \in Seq(Nat \X Sessions \X Nat) /\ Len(q) \in Nat /\ DOMAIN q = 1 .. Len(q)
      BY <1>0 DEF KzTypes
    <3>2. /\ Append(q, e) \in Seq(Nat \X Sessions \X Nat)
          /\ Len(Append(q, e)) = Len(q) + 1
          /\ \A n \in 1 .. Len(q) : Append(q, e)[n] = q[n]
          /\ Append(q, e)[Len(q) + 1] = e
      BY <2>3, <3>1, AppendProperties
    <3>3. kzLines'[s] = Append(q, e) /\ \A t \in KzSymbols \ {s} : kzLines'[t] = kzLines[t]
      BY <1>0, <2>5 DEF KzTypes
    <3>4. KzTypes'
      BY <1>0, <2>1, <2>5, <3>2 DEF KzTypes
    <3>5. \A t \in KzSymbols : \A d, z, l :
             HasLine(t, d, z, l)' => HasLine(t, d, z, l) \/ (t = s /\ d = kzDay /\ z = kzSession /\ l = kzLife)
      <4> SUFFICES ASSUME NEW t \in KzSymbols, NEW d, NEW z, NEW l, HasLine(t, d, z, l)', ~ HasLine(t, d, z, l)
                   PROVE  t = s /\ d = kzDay /\ z = kzSession /\ l = kzLife
        OBVIOUS
      <4>1. PICK n \in 1 .. Len(kzLines'[t]) : kzLines'[t][n] = <<d, z, l>>
        BY DEF HasLine
      <4>2. t = s
        BY <3>3, <4>1 DEF HasLine
      <4>3. n = Len(q) + 1
        <5>1. n \notin 1 .. Len(q)
          BY <3>2, <3>3, <4>1, <4>2 DEF HasLine
        <5> QED BY <5>1, <3>1, <3>2, <3>3, <4>1, <4>2
      <4>4. <<d, z, l>> = e
        BY <3>2, <3>3, <4>1, <4>2, <4>3
      <4> QED BY <4>2, <4>4
    <3>6. LinesAreRemembered'
      BY <1>0, <2>1, <2>2, <2>3, <3>5 DEF LinesAreRemembered, KzTypes
    <3>7. \A n \in 1 .. Len(q) : q[n] # e
      BY <1>0, <2>1 DEF LinesAreRemembered, HasLine, KzTypes
    <3>8. OneLinePerWindow'
      <4>1. \A m, n \in DOMAIN q : q[m] = q[n] => m = n
        BY <1>0 DEF OneLinePerWindow
      <4>2. \A m, n \in DOMAIN Append(q, e) : Append(q, e)[m] = Append(q, e)[n] => m = n
        BY <2>3, <3>1, <3>7, <4>1, AppendNew
      <4> QED BY <1>0, <3>3, <4>2 DEF OneLinePerWindow
    <3> QED BY <3>4, <3>6, <3>8 DEF WindowsAreKept
  <2> QED BY <2>1, <2>4, <2>5
<1> QED BY <1>1, <1>2, <1>3, <1>4, <1>5 DEF KillZoneStep

\* And whatever the rest of the colony does.
LEMMA KillZoneStaysOnce == WindowsAreKept /\ [MillNext]_vars => WindowsAreKept'
<1>1. ASSUME WindowsAreKept, UNCHANGED kzVars PROVE WindowsAreKept'
  <2>1. UNCHANGED <<clock, days, kzSession, kzDay, kzEmitted, kzTodo, kzLines, kzLife>>
    BY <1>1 DEF kzVars
  <2>2. (\A t, d, z, l : HasLine(t, d, z, l)' <=> HasLine(t, d, z, l)) /\ (\A d, z : Begun(d, z)' <=> Begun(d, z))
        /\ SessionNow' = SessionNow
    BY <2>1 DEF HasLine, Begun, SessionNow
  <2> QED BY <1>1, <2>1, <2>2 DEF WindowsAreKept, OneLinePerWindow, LinesAreRemembered, KzTypes
<1> QED BY <1>1, KillZoneFrame, KillZoneActs

--------------------------------------------------------------------------------
(* The queues of the paper ant. *)

Phases == {"none", "scouts", "signals", "approved", "research"}
Ticks  == [phase : Phases, ant : Papers, left : BOOLEAN, hand : SUBSET Items, done : BOOLEAN,
           todo : SUBSET Spotted, pos : Nat, count : Nat, regime : Regimes \cup {NoRegime}]
Tries  == [ant : Papers, by : SUBSET QWorkers, left : BOOLEAN]

QueueTypes ==
  /\ papers \in Papers /\ qEnded \in BOOLEAN
  /\ qSeen \in [Papers -> SUBSET Items] /\ qSeenIds \in [Papers -> SUBSET {IdOfLine[i] : i \in Lines}]
  /\ qTick \in [QWorkers -> Ticks] /\ tries \in [Items -> Seq(Tries)]

\* What a tick has in hand, and in store, by its phase.
TickShape(t) ==
  /\ \A i, j \in t.hand : i = j
  /\ t.phase \in {"none", "signals"} => t.hand = {}
  /\ t.phase \notin {"scouts", "signals"} => t.todo = {}
  /\ t.phase = "approved" => t.hand \subseteq Lines
  /\ t.phase = "research" => t.hand \subseteq Accepted
  /\ t.phase = "scouts" => t.hand \subseteq Spotted
  /\ t.done => t.phase \in {"approved", "research"} /\ t.hand # {}

\* Item i is to be tried by tick t, or has been and is not noted yet.
Due(t, i)   == i \in t.todo \/ (i \in t.hand /\ ~ (t.phase = "approved" /\ t.done))
Doing(t, i) == i \in t.hand /\ t.phase = "approved" /\ t.done

Noted(p, i) == IF i \in Lines THEN IdOfLine[i] \in qSeenIds[p] ELSE i \in qSeen[p]

\* Signals and candidates are noted before they are tried.
NotedFirst(t) ==
  /\ \A i \in t.todo : i \in qSeen[t.ant]
  /\ t.phase = "research" /\ t.done => \A i \in t.hand : i \in qSeen[t.ant]

\* Of the ticks that were not left behind one runs at most, and it is the present ant's.
OneRuns ==
  /\ \A w \in QWorkers : qTick[w].ant <= papers
  /\ \A w \in QWorkers : qTick[w].phase # "none" /\ ~ qTick[w].left => qTick[w].ant = papers /\ ~ qEnded
  /\ \A v, w \in QWorkers :
       qTick[v].phase # "none" /\ ~ qTick[v].left /\ qTick[w].phase # "none" /\ ~ qTick[w].left => v = w

\* A try is of a tick that runs as the try says, or of one that is over; it is noted, or
\* about to be, or its tick failed.
TryIsKept(i, e) ==
  /\ e.ant <= papers
  /\ \A w \in e.by : e.by = {w} /\ qTick[w].phase # "none" /\ qTick[w].ant = e.ant /\ qTick[w].left = e.left
  /\ \/ Noted(e.ant, i)
     \/ \E w \in e.by : Doing(qTick[w], i)
     \/ i \in Lines /\ e.by = {} /\ (e.left \/ e.ant < papers \/ qEnded)

TriesAreKept == \A i \in Items : \A n \in DOMAIN tries[i] : TryIsKept(i, tries[i][n])

\* The tick of w may try i: it has not, nor has another that was not left behind, or it was.
IsNew(w, i) ==
  \A j \in Items : \A n \in DOMAIN tries[j] :
    SameItem(i, j) /\ tries[j][n].ant = qTick[w].ant
    => w \notin tries[j][n].by /\ (tries[j][n].left \/ qTick[w].left)

DueIsNew == \A w \in QWorkers, i \in Items : Due(qTick[w], i) => IsNew(w, i)

ShapesAreKept == \A w \in QWorkers : TickShape(qTick[w]) /\ NotedFirst(qTick[w])

QueuesAreNoted ==
  QueueTypes /\ OneRuns /\ ShapesAreKept /\ TriesAreKept /\ DueIsNew /\ TriedOncePerLife

\* Nothing is tried at first.
LEMMA QueuesInitHolds == MillInit => QueuesAreNoted
<1> SUFFICES ASSUME QueuesInit PROVE QueuesAreNoted
  BY DEF MillInit
<1> USE QueueAssumption DEF QueuesInit
<1>1. 1 \in Papers
  BY DEF Papers
<1>2. NoTick \in Ticks
  BY <1>1 DEF NoTick, Ticks, Phases
<1>3. \A w \in QWorkers : qTick[w] = NoTick
  OBVIOUS
<1>4. \A i \in Items : DOMAIN tries[i] = {}
  BY EmptySeq
<1>5. QueueTypes
  BY <1>1, <1>2, EmptySeq DEF QueueTypes
<1>6. OneRuns
  BY <1>3 DEF OneRuns, NoTick
<1>7. ShapesAreKept
  BY <1>3 DEF ShapesAreKept, TickShape, NotedFirst, NoTick
<1>8. TriesAreKept /\ DueIsNew /\ TriedOncePerLife
  BY <1>4 DEF TriesAreKept, DueIsNew, IsNew, TriedOncePerLife
<1> QED BY <1>5, <1>6, <1>7, <1>8 DEF QueuesAreNoted

\* What is not noted may be tried by a tick with nothing in hand.
LEMMA LookIsNew ==
  ASSUME QueuesAreNoted, NEW w \in QWorkers, NEW i \in Items, qTick[w].phase # "none", qTick[w].hand = {},
         ~ Noted(qTick[w].ant, i)
  PROVE  IsNew(w, i)
<1> SUFFICES ASSUME NEW j \in Items, NEW n \in DOMAIN tries[j], SameItem(i, j),
                    tries[j][n].ant = qTick[w].ant
             PROVE  w \notin tries[j][n].by /\ (tries[j][n].left \/ qTick[w].left)
  BY DEF IsNew
<1> DEFINE e == tries[j][n]
<1>1. TryIsKept(j, e) /\ OneRuns
  BY DEF QueuesAreNoted, TriesAreKept
<1>2. ~ Noted(e.ant, j)
  BY DEF Noted, SameItem
<1>3. CASE \E v \in e.by : Doing(qTick[v], j)
  <2>1. PICK v \in e.by : Doing(qTick[v], j)
    BY <1>3
  <2>2. v # w
    BY <2>1 DEF Doing
  <2>3. e.by = {v} /\ qTick[v].phase # "none" /\ qTick[v].left = e.left /\ v \in QWorkers
    <3>1. e \in Tries
      BY DEF QueuesAreNoted, QueueTypes
    <3> QED BY <1>1, <2>1, <3>1 DEF TryIsKept, Tries
  <2> QED BY <1>1, <2>2, <2>3 DEF OneRuns
<1>4. CASE e.by = {} /\ (e.left \/ e.ant < papers \/ qEnded)
  <2>1. papers \in Int /\ e.ant \in Int
    <3>1. e \in Tries
      BY DEF QueuesAreNoted, QueueTypes
    <3> QED BY <3>1, QueueAssumption DEF QueuesAreNoted, QueueTypes, Tries, Papers
  <2>2. ~ qTick[w].left => e.ant = papers /\ ~ qEnded
    BY <1>1 DEF OneRuns
  <2> QED BY <1>4, <2>1, <2>2
<1> QED BY <1>1, <1>2, <1>3, <1>4 DEF TryIsKept

\* A step of a tick that tries nothing.
LEMMA QuietTick ==
  ASSUME QueuesAreNoted, NEW w \in QWorkers, NEW t \in Ticks, Goes(w, t), UNCHANGED <<papers, qEnded, tries>>,
         qSeen' \in [Papers -> SUBSET Items], qSeenIds' \in [Papers -> SUBSET {IdOfLine[i] : i \in Lines}],
         \A p \in Papers : qSeen[p] \subseteq qSeen'[p] /\ qSeenIds[p] \subseteq qSeenIds'[p],
         qTick[w].phase # "none", t.phase # "none", t.ant = qTick[w].ant, t.left = qTick[w].left,
         TickShape(t), \A i \in t.todo : i \in qSeen'[t.ant],
         t.phase = "research" /\ t.done => \A i \in t.hand : i \in qSeen'[t.ant],
         \A i \in Items : Due(t, i) => Due(qTick[w], i) \/ IsNew(w, i),
         \A i \in Items : Doing(qTick[w], i) =>
           Doing(t, i) \/ (IF i \in Lines THEN IdOfLine[i] \in qSeenIds'[t.ant] ELSE i \in qSeen'[t.ant])
  PROVE  QueuesAreNoted'
<1>0. QueueTypes /\ OneRuns /\ ShapesAreKept /\ TriesAreKept /\ DueIsNew /\ TriedOncePerLife
  BY DEF QueuesAreNoted
<1>1. /\ qTick' \in [QWorkers -> Ticks] /\ qTick'[w] = t
      /\ \A v \in QWorkers : v # w => qTick'[v] = qTick[v]
  BY <1>0 DEF QueueTypes, Goes
<1>2. \A v \in QWorkers : /\ qTick'[v].phase # "none" <=> qTick[v].phase # "none"
                          /\ qTick'[v].ant = qTick[v].ant /\ qTick'[v].left = qTick[v].left
  BY <1>1
<1>3. \A p \in Papers, i \in Items : Noted(p, i) => Noted(p, i)'
  BY DEF Noted
<1>4. QueueTypes'
  BY <1>0, <1>1 DEF QueueTypes
<1>5. OneRuns'
  BY <1>0, <1>2 DEF OneRuns
<1>6. ShapesAreKept'
  <2> SUFFICES ASSUME NEW v \in QWorkers PROVE TickShape(qTick'[v]) /\ NotedFirst(qTick[v])'
    BY DEF ShapesAreKept, TickShape
  <2>1. CASE v = w
    BY <1>1, <2>1 DEF NotedFirst
  <2>2. CASE v # w
    <3>1. TickShape(qTick[v]) /\ NotedFirst(qTick[v]) /\ qTick'[v] = qTick[v] /\ qTick[v].ant \in Papers
      BY <1>0, <1>1, <2>2 DEF ShapesAreKept, QueueTypes, Ticks
    <3> QED BY <3>1 DEF NotedFirst
  <2> QED BY <2>1, <2>2
<1>7. TriesAreKept'
  <2> SUFFICES ASSUME NEW i \in Items, NEW n \in DOMAIN tries[i] PROVE TryIsKept(i, tries[i][n])'
    BY DEF TriesAreKept
  <2> DEFINE e == tries[i][n]
  <2>1. TryIsKept(i, e) /\ e \in Tries
    BY <1>0 DEF TriesAreKept, QueueTypes
  <2>2. tries'[i][n] = e /\ papers' = papers /\ qEnded' = qEnded /\ e.ant \in Papers /\ e.by \subseteq QWorkers
    BY <2>1 DEF Tries
  <2>3. ASSUME NEW v \in e.by PROVE e.by = {v} /\ qTick'[v].phase # "none" /\ qTick'[v].ant = e.ant /\ qTick'[v].left = e.left
    BY <2>1, <2>2, <1>2 DEF TryIsKept
  <2>4. ASSUME NEW v \in e.by, Doing(qTick[v], i) PROVE Doing(qTick'[v], i) \/ Noted(e.ant, i)'
    <3>1. CASE v = w
      BY <2>1, <2>2, <2>4, <3>1, <1>1 DEF TryIsKept, Noted
    <3>2. CASE v # w
      BY <2>2, <2>4, <3>2, <1>1
    <3> QED BY <3>1, <3>2
  <2>5. Noted(e.ant, i)' \/ (\E v \in e.by : Doing(qTick'[v], i)) \/ (i \in Lines /\ e.by = {} /\ (e.left \/ e.ant < papers \/ qEnded))
    BY <2>1, <2>2, <2>4, <1>3 DEF TryIsKept
  <2> HIDE DEF e
  <2>6. e' = e
    BY <2>2 DEF e
  <2> QED BY <2>1, <2>2, <2>3, <2>5, <2>6 DEF TryIsKept, Doing
<1>8. DueIsNew'
  <2> SUFFICES ASSUME NEW v \in QWorkers, NEW i \in Items, Due(qTick'[v], i) PROVE IsNew(v, i)'
    BY DEF DueIsNew, Due
  <2>1. IsNew(v, i)
    <3>1. CASE v = w
      BY <1>0, <1>1, <3>1 DEF DueIsNew
    <3>2. CASE v # w
      BY <1>0, <1>1, <3>2 DEF DueIsNew
    <3> QED BY <3>1, <3>2
  <2> QED BY <2>1, <1>2 DEF IsNew
<1>9. TriedOncePerLife'
  BY <1>0 DEF TriedOncePerLife
<1> QED BY <1>4, <1>5, <1>6, <1>7, <1>8, <1>9 DEF QueuesAreNoted

\* A step of a tick that tries an item, which is noted or about to be.
LEMMA TryStep ==
  ASSUME QueuesAreNoted, NEW w \in QWorkers, NEW i \in Items, NEW t \in Ticks, Goes(w, t),
         UNCHANGED <<papers, qEnded, qSeen, qSeenIds>>,
         tries' = [tries EXCEPT ![i] = Append(@, [ant |-> qTick[w].ant, by |-> {w}, left |-> qTick[w].left])],
         qTick[w].phase # "none", t.phase # "none", t.ant = qTick[w].ant, t.left = qTick[w].left,
         TickShape(t), NotedFirst(t),
         Due(qTick[w], i), Noted(t.ant, i) \/ Doing(t, i),
         \A k \in Items : Due(t, k) => Due(qTick[w], k) /\ ~ SameItem(i, k),
         \A k \in Items : Doing(qTick[w], k) => Doing(t, k)
  PROVE  QueuesAreNoted'
<1> DEFINE e0 == [ant |-> qTick[w].ant, by |-> {w}, left |-> qTick[w].left]
<1>0. QueueTypes /\ OneRuns /\ ShapesAreKept /\ TriesAreKept /\ DueIsNew /\ TriedOncePerLife
  BY DEF QueuesAreNoted
<1>1. /\ qTick' \in [QWorkers -> Ticks] /\ qTick'[w] = t
      /\ \A v \in QWorkers : v # w => qTick'[v] = qTick[v]
  BY <1>0 DEF QueueTypes, Goes
<1>2. \A v \in QWorkers : /\ qTick'[v].phase # "none" <=> qTick[v].phase # "none"
                          /\ qTick'[v].ant = qTick[v].ant /\ qTick'[v].left = qTick[v].left
  BY <1>1
<1>3. e0 \in Tries /\ e0.ant = qTick[w].ant /\ e0.by = {w} /\ e0.left = qTick[w].left
  <2>1. qTick[w] \in Ticks
    BY <1>0 DEF QueueTypes
  <2> QED BY <2>1 DEF Ticks, Tries
<1> HIDE DEF e0
<1>4. tries' = [tries EXCEPT ![i] = Append(@, e0)]
  BY DEF e0
<1>5. tries' \in [Items -> Seq(Tries)] /\ \A j \in Items : j # i => tries'[j] = tries[j]
  BY <1>0, <1>3, <1>4 DEF QueueTypes
<1>6. /\ DOMAIN tries'[i] = DOMAIN tries[i] \cup {Len(tries[i]) + 1} /\ Len(tries[i]) + 1 \notin DOMAIN tries[i]
      /\ \A n \in DOMAIN tries[i] : tries'[i][n] = tries[i][n]
      /\ tries'[i][Len(tries[i]) + 1] = e0
  <2>1. tries[i] \in Seq(Tries) /\ tries'[i] = Append(tries[i], e0)
    BY <1>0, <1>4 DEF QueueTypes
  <2> DEFINE q == tries[i]
  <2>2. /\ DOMAIN Append(q, e0) = 1 .. Len(q) + 1 /\ Len(q) \in Nat /\ DOMAIN q = 1 .. Len(q)
        /\ \A n \in 1 .. Len(q) : Append(q, e0)[n] = q[n]
        /\ Append(q, e0)[Len(q) + 1] = e0
    BY <2>1, <1>3, AppendProperties
  <2> QED BY <2>1, <2>2
<1>7. \A j \in Items : \A n \in DOMAIN tries'[j] :
        \/ n \in DOMAIN tries[j] /\ tries'[j][n] = tries[j][n]
        \/ j = i /\ n = Len(tries[i]) + 1 /\ tries'[j][n] = e0
  BY <1>5, <1>6
<1>8. QueueTypes'
  BY <1>0, <1>1, <1>5 DEF QueueTypes
<1>9. OneRuns'
  BY <1>0, <1>2 DEF OneRuns
<1>10. ShapesAreKept'
  <2> SUFFICES ASSUME NEW v \in QWorkers PROVE TickShape(qTick'[v]) /\ NotedFirst(qTick[v])'
    BY DEF ShapesAreKept, TickShape
  <2>1. CASE v = w
    BY <1>1, <2>1 DEF NotedFirst
  <2>2. CASE v # w
    BY <1>0, <1>1, <2>2 DEF ShapesAreKept, NotedFirst
  <2> QED BY <2>1, <2>2
<1>11. TriesAreKept'
  <2> SUFFICES ASSUME NEW j \in Items, NEW n \in DOMAIN tries'[j] PROVE TryIsKept(j, tries[j][n])'
    BY DEF TriesAreKept
  <2> DEFINE e == tries'[j][n]
  <2>1. CASE n \in DOMAIN tries[j] /\ tries'[j][n] = tries[j][n]
    <3>1. TryIsKept(j, tries[j][n]) /\ tries[j][n] \in Tries
      BY <1>0, <2>1 DEF TriesAreKept, QueueTypes
    <3>2. e = tries[j][n] /\ e.by \subseteq QWorkers
      BY <2>1, <3>1 DEF Tries
    <3> HIDE DEF e
    <3>3. TryIsKept(j, e)
      BY <3>1, <3>2
    <3>4. ASSUME NEW v \in e.by PROVE e.by = {v} /\ qTick'[v].phase # "none" /\ qTick'[v].ant = e.ant /\ qTick'[v].left = e.left
      BY <3>2, <3>3, <1>2 DEF TryIsKept
    <3>5. ASSUME NEW v \in e.by, Doing(qTick[v], j) PROVE Doing(qTick'[v], j)
      BY <3>2, <3>5, <1>1
    <3>6. (Noted(e.ant, j) \/ (\E v \in e.by : Doing(qTick'[v], j))) \/ (j \in Lines /\ e.by = {} /\ (e.left \/ e.ant < papers \/ qEnded))
      BY <3>3, <3>5 DEF TryIsKept
    <3>7. Noted(e.ant, j) => qSeen' = qSeen /\ qSeenIds' = qSeenIds /\ (IF j \in Lines THEN IdOfLine[j] \in qSeenIds[e.ant] ELSE j \in qSeen[e.ant])
      BY DEF Noted
    <3>8. e.ant <= papers' /\ papers' = papers /\ qEnded' = qEnded
      BY <3>3 DEF TryIsKept
    <3> QED BY <2>1, <3>2, <3>4, <3>6, <3>7, <3>8 DEF TryIsKept, Noted, Doing
  <2>2. CASE j = i /\ tries'[j][n] = e0
    <3>1. e0.ant <= papers' /\ e0.ant = t.ant
      BY <1>0, <1>3 DEF OneRuns
    <3>2. \A v \in e0.by : e0.by = {v} /\ qTick'[v].phase # "none" /\ qTick'[v].ant = e0.ant /\ qTick'[v].left = e0.left
      BY <1>3, <1>1
    <3>3. (IF i \in Lines THEN IdOfLine[i] \in qSeenIds'[e0.ant] ELSE i \in qSeen'[e0.ant])
          \/ \E v \in e0.by : Doing(qTick'[v], i)
      BY <3>1, <1>1, <1>3 DEF Noted
    <3> QED BY <2>2, <3>1, <3>2, <3>3 DEF TryIsKept, Noted, Doing
  <2> QED BY <1>7, <2>1, <2>2
<1>12. DueIsNew'
  <2> SUFFICES ASSUME NEW v \in QWorkers, NEW k \in Items, Due(qTick'[v], k),
                      NEW j \in Items, NEW n \in DOMAIN tries'[j], SameItem(k, j), tries'[j][n].ant = qTick'[v].ant
               PROVE  v \notin tries'[j][n].by /\ (tries'[j][n].left \/ qTick'[v].left)
    BY DEF DueIsNew, Due, IsNew
  <2>1. Due(qTick[v], k) /\ (v = w => ~ SameItem(i, k))
    BY <1>1
  <2>2. CASE n \in DOMAIN tries[j] /\ tries'[j][n] = tries[j][n]
    BY <1>0, <1>2, <2>1, <2>2 DEF DueIsNew, IsNew
  <2>3. CASE j = i /\ tries'[j][n] = e0
    <3>1. v # w
      BY <2>1, <2>3 DEF SameItem
    <3>2. qTick[v].phase # "none"
      BY <1>0, <2>1 DEF ShapesAreKept, TickShape, Due
    <3>3. qTick[w].left \/ qTick[v].left
      BY <1>0, <3>1, <3>2 DEF OneRuns
    <3> QED BY <1>2, <1>3, <2>3, <3>1, <3>3
  <2> QED BY <1>7, <2>2, <2>3
<1>13. TriedOncePerLife'
  <2>0. IsNew(w, i)
    BY <1>0 DEF DueIsNew
  <2> DEFINE Apart(d, e) == (d.left \/ e.left) /\ (d.by = {} \/ d.by # e.by)
  <2>1. ASSUME NEW j \in Items, NEW n \in DOMAIN tries[j], SameItem(i, j), tries[j][n].ant = e0.ant
        PROVE  Apart(e0, tries[j][n]) /\ Apart(tries[j][n], e0)
    BY <1>3, <2>0, <2>1 DEF IsNew
  <2>2. ASSUME NEW j \in Items, NEW k \in Items, NEW m \in DOMAIN tries'[j], NEW n \in DOMAIN tries'[k],
               SameItem(j, k), <<j, m>> # <<k, n>>, tries'[j][m].ant = tries'[k][n].ant
        PROVE  Apart(tries'[j][m], tries'[k][n])
    <3>1. SameItem(k, j)
      BY <2>2 DEF SameItem
    <3>2. CASE j = i /\ m = Len(tries[i]) + 1 /\ tries'[j][m] = e0
      <4>1. n \in DOMAIN tries[k] /\ tries'[k][n] = tries[k][n]
        BY <1>7, <2>2, <3>2
      <4> HIDE DEF Apart
      <4> QED BY <2>1, <2>2, <3>2, <4>1
    <3>3. CASE m \in DOMAIN tries[j] /\ tries'[j][m] = tries[j][m]
      <4>1. CASE k = i /\ tries'[k][n] = e0
        <5> HIDE DEF Apart
        <5> QED BY <2>1, <2>2, <3>1, <3>3, <4>1
      <4>2. CASE n \in DOMAIN tries[k] /\ tries'[k][n] = tries[k][n]
        BY <1>0, <2>2, <3>3, <4>2 DEF TriedOncePerLife
      <4> QED BY <1>7, <4>1, <4>2
    <3> QED BY <1>7, <3>2, <3>3
  <2> HIDE DEF Apart
  <2>3. \A j, k \in Items : \A m \in DOMAIN tries'[j], n \in DOMAIN tries'[k] :
          /\ SameItem(j, k) /\ <<j, m>> # <<k, n>> /\ tries'[j][m].ant = tries'[k][n].ant
          => Apart(tries'[j][m], tries'[k][n])
    <3> TAKE j, k \in Items
    <3> TAKE m \in DOMAIN tries'[j], n \in DOMAIN tries'[k]
    <3> HAVE /\ SameItem(j, k) /\ <<j, m>> # <<k, n>> /\ tries'[j][m].ant = tries'[k][n].ant
    <3> QED BY <2>2
  <2> QED BY <2>3 DEF TriedOncePerLife, SameItem, Apart
<1> QED BY <1>8, <1>9, <1>10, <1>11, <1>12, <1>13 DEF QueuesAreNoted

\* Marking the tries of threads that end, or of a tick left behind, keeps the rest of them.
LEMMA MarkedTries ==
  ASSUME QueueTypes, NEW w, NEW W
  PROVE  /\ MarkOver(W) => /\ tries' \in [Items -> Seq(Tries)]
                           /\ \A i \in Items : DOMAIN tries'[i] = DOMAIN tries[i] /\ \A n \in DOMAIN tries[i] :
                                /\ tries'[i][n].ant = tries[i][n].ant /\ tries'[i][n].left = tries[i][n].left
                                /\ tries'[i][n].by = tries[i][n].by \ W
         /\ MarkLeft(w) => /\ tries' \in [Items -> Seq(Tries)]
                           /\ \A i \in Items : DOMAIN tries'[i] = DOMAIN tries[i] /\ \A n \in DOMAIN tries[i] :
                                /\ tries'[i][n].ant = tries[i][n].ant /\ tries'[i][n].by = tries[i][n].by
                                /\ tries'[i][n].left <=> tries[i][n].left \/ w \in tries[i][n].by
<1>1. \A i \in Items : tries[i] \in Seq(Tries) /\ DOMAIN tries[i] = 1 .. Len(tries[i]) /\ Len(tries[i]) \in Nat
  BY DEF QueueTypes
<1>2. \A i \in Items : \A n \in DOMAIN tries[i] : tries[i][n] \in Tries
  BY <1>1
<1>3. \A n \in Nat : \A f \in [1 .. n -> Tries] : f \in Seq(Tries)
  BY SeqDef
<1>4. ASSUME MarkOver(W)
      PROVE  /\ tries' \in [Items -> Seq(Tries)]
             /\ \A i \in Items : DOMAIN tries'[i] = DOMAIN tries[i] /\ \A n \in DOMAIN tries[i] :
                  /\ tries'[i][n].ant = tries[i][n].ant /\ tries'[i][n].left = tries[i][n].left
                  /\ tries'[i][n].by = tries[i][n].by \ W
  <2> DEFINE G(e) == [e EXCEPT !.by = e.by \ W]
  <2>1. \A e \in Tries : G(e) \in Tries /\ G(e).ant = e.ant /\ G(e).left = e.left /\ G(e).by = e.by \ W
    BY DEF Tries
  <2>2. tries' = [i \in Items |-> [n \in DOMAIN tries[i] |-> G(tries[i][n])]]
    BY <1>4 DEF MarkOver
  <2> HIDE DEF G
  <2>3. \A i \in Items : tries'[i] = [n \in 1 .. Len(tries[i]) |-> G(tries[i][n])]
    BY <1>1, <2>2
  <2>4. \A i \in Items : tries'[i] \in [1 .. Len(tries[i]) -> Tries]
    <3> TAKE i \in Items
    <3>1. \A n \in 1 .. Len(tries[i]) : G(tries[i][n]) \in Tries
      BY <1>1, <1>2, <2>1
    <3> QED BY <2>3, <3>1
  <2>5. \A i \in Items : tries'[i] \in Seq(Tries)
    BY <1>1, <1>3, <2>4
  <2>6. tries' \in [Items -> Seq(Tries)]
    BY <2>2, <2>5
  <2>7. \A i \in Items : DOMAIN tries'[i] = DOMAIN tries[i] /\ \A n \in DOMAIN tries[i] : tries'[i][n] = G(tries[i][n])
    BY <2>2
  <2> QED BY <1>2, <2>1, <2>6, <2>7
<1>5. ASSUME MarkLeft(w)
      PROVE  /\ tries' \in [Items -> Seq(Tries)]
             /\ \A i \in Items : DOMAIN tries'[i] = DOMAIN tries[i] /\ \A n \in DOMAIN tries[i] :
                  /\ tries'[i][n].ant = tries[i][n].ant /\ tries'[i][n].by = tries[i][n].by
                  /\ tries'[i][n].left <=> tries[i][n].left \/ w \in tries[i][n].by
  <2> DEFINE G(e) == [e EXCEPT !.left = (e.left \/ w \in e.by)]
  <2>1. \A e \in Tries : G(e) \in Tries /\ G(e).ant = e.ant /\ G(e).by = e.by /\ (G(e).left <=> e.left \/ w \in e.by)
    BY DEF Tries
  <2>2. tries' = [i \in Items |-> [n \in DOMAIN tries[i] |-> G(tries[i][n])]]
    BY <1>5 DEF MarkLeft
  <2> HIDE DEF G
  <2>3. \A i \in Items : tries'[i] = [n \in 1 .. Len(tries[i]) |-> G(tries[i][n])]
    BY <1>1, <2>2
  <2>4. \A i \in Items : tries'[i] \in [1 .. Len(tries[i]) -> Tries]
    <3> TAKE i \in Items
    <3>1. \A n \in 1 .. Len(tries[i]) : G(tries[i][n]) \in Tries
      BY <1>1, <1>2, <2>1
    <3> QED BY <2>3, <3>1
  <2>5. \A i \in Items : tries'[i] \in Seq(Tries)
    BY <1>1, <1>3, <2>4
  <2>6. tries' \in [Items -> Seq(Tries)]
    BY <2>2, <2>5
  <2>7. \A i \in Items : DOMAIN tries'[i] = DOMAIN tries[i] /\ \A n \in DOMAIN tries[i] : tries'[i][n] = G(tries[i][n])
    BY <2>2
  <2> QED BY <1>2, <2>1, <2>6, <2>7
<1> QED BY <1>4, <1>5

\* A step that only marks tries, as over or as left behind, tries nothing a second time.
LEMMA MarkStep ==
  ASSUME QueuesAreNoted, NEW W \in SUBSET QWorkers,
         \A i \in Items : DOMAIN tries'[i] = DOMAIN tries[i] /\ \A n \in DOMAIN tries[i] :
           /\ tries'[i][n].ant = tries[i][n].ant /\ tries'[i][n].by = tries[i][n].by \ W
           /\ tries[i][n].left => tries'[i][n].left,
         \A v \in QWorkers, i \in Items : Due(qTick'[v], i) =>
           Due(qTick[v], i) /\ qTick'[v].ant = qTick[v].ant /\ (qTick[v].left => qTick'[v].left)
  PROVE  DueIsNew' /\ TriedOncePerLife'
<1>0. DueIsNew /\ TriedOncePerLife
  BY DEF QueuesAreNoted
<1>1. DueIsNew'
  <2> SUFFICES ASSUME NEW v \in QWorkers, NEW k \in Items, Due(qTick'[v], k),
                      NEW j \in Items, NEW n \in DOMAIN tries'[j], SameItem(k, j), tries'[j][n].ant = qTick'[v].ant
               PROVE  v \notin tries'[j][n].by /\ (tries'[j][n].left \/ qTick'[v].left)
    BY DEF DueIsNew, Due, IsNew
  <2>1. v \notin tries[j][n].by /\ (tries[j][n].left \/ qTick[v].left)
    BY <1>0 DEF DueIsNew, IsNew
  <2> QED BY <2>1
<1>2. TriedOncePerLife'
  <2> DEFINE Apart(d, e) == (d.left \/ e.left) /\ (d.by = {} \/ d.by # e.by)
  <2>1. \A j, k \in Items : \A m \in DOMAIN tries[j], n \in DOMAIN tries[k] :
          /\ SameItem(j, k) /\ <<j, m>> # <<k, n>> /\ tries[j][m].ant = tries[k][n].ant
          => Apart(tries[j][m], tries[k][n])
    BY <1>0 DEF TriedOncePerLife
  <2> HIDE DEF Apart
  <2>2. \A j, k \in Items : \A m \in DOMAIN tries'[j], n \in DOMAIN tries'[k] :
          /\ SameItem(j, k) /\ <<j, m>> # <<k, n>> /\ tries'[j][m].ant = tries'[k][n].ant
          => Apart(tries'[j][m], tries'[k][n])
    <3> TAKE j, k \in Items
    <3> TAKE m \in DOMAIN tries'[j], n \in DOMAIN tries'[k]
    <3> HAVE /\ SameItem(j, k) /\ <<j, m>> # <<k, n>> /\ tries'[j][m].ant = tries'[k][n].ant
    <3>1. m \in DOMAIN tries[j] /\ n \in DOMAIN tries[k] /\ tries[j][m].ant = tries[k][n].ant
      OBVIOUS
    <3>2. Apart(tries[j][m], tries[k][n])
      BY <2>1, <3>1
    <3>3. TriesAreKept /\ QueueTypes
      BY DEF QueuesAreNoted
    <3>4. /\ \A v \in tries[j][m].by : tries[j][m].by = {v}
          /\ \A v \in tries[k][n].by : tries[k][n].by = {v}
      BY <3>1, <3>3 DEF TriesAreKept, TryIsKept
    <3>5. /\ tries'[j][m].by = tries[j][m].by \ W /\ tries'[k][n].by = tries[k][n].by \ W
          /\ (tries[j][m].left => tries'[j][m].left) /\ (tries[k][n].left => tries'[k][n].left)
      BY <3>1
    <3> QED BY <3>2, <3>4, <3>5 DEF Apart
  <2> QED BY <2>2 DEF TriedOncePerLife, SameItem, Apart
<1> QED BY <1>1, <1>2

\* What ticks read, note and pass keeps what is known of the tries.
LEMMA QuietActs ==
  ASSUME QueuesAreNoted, NEW w \in QWorkers,
         \/ \E i \in Spotted : LookSignal(w, i) \/ PassSignal(w, i)
         \/ NoteSignal(w) \/ ScoutsRead(w) \/ SignalsDone(w)
         \/ \E i \in Lines : LookLine(w, i)
         \/ NoteLine(w) \/ ApprovedRead(w)
         \/ \E i \in Accepted : LookCandidate(w, i)
         \/ NoteCandidate(w) \/ PassItem(w) \/ ReadAgain(w)
  PROVE  QueuesAreNoted'
<1> DEFINE q == qTick[w]
<1>0. /\ q \in Ticks /\ TickShape(q) /\ NotedFirst(q) /\ q.ant \in Papers /\ q.count \in Nat
      /\ qSeen \in [Papers -> SUBSET Items] /\ qSeenIds \in [Papers -> SUBSET {IdOfLine[i] : i \in Lines}]
      /\ \A S \in SUBSET Items : [q EXCEPT !.hand = S] \in Ticks
      /\ Spotted \subseteq Items /\ Lines \subseteq Items /\ Accepted \subseteq Items
      /\ q.todo \subseteq Spotted /\ q.hand \subseteq Items
  <2>1. q \in Ticks /\ TickShape(q) /\ NotedFirst(q)
    BY DEF QueuesAreNoted, QueueTypes, ShapesAreKept
  <2>2. qSeen \in [Papers -> SUBSET Items] /\ qSeenIds \in [Papers -> SUBSET {IdOfLine[i] : i \in Lines}]
    BY DEF QueuesAreNoted, QueueTypes
  <2> HIDE DEF q
  <2> QED BY <2>1, <2>2 DEF Ticks, Items
<1>1. ASSUME NEW i \in Spotted, LookSignal(w, i) PROVE QueuesAreNoted'
  <2> DEFINE t == [q EXCEPT !.hand = {i}]
  <2>0. /\ Goes(w, t) /\ q.phase # "none" /\ UNCHANGED <<papers, qEnded, tries>>
    <3>1. Goes(w, t)
      BY <1>1, Zenon DEF LookSignal
    <3> HIDE DEF t
    <3> QED BY <1>0, <1>1, <3>1 DEF LookSignal, TickShape, qLife
  <2>1. /\ t \in Ticks /\ t.phase # "none" /\ t.ant = q.ant /\ t.left = q.left
    BY <1>0, <2>0 DEF Ticks, Phases
  <2>2. UNCHANGED qMemory
    BY <1>1 DEF LookSignal
  <2>3. qSeen' = qSeen /\ qSeenIds' = qSeenIds
    BY <2>2 DEF qMemory
  <2>4. /\ qSeen' \in [Papers -> SUBSET Items] /\ qSeenIds' \in [Papers -> SUBSET {IdOfLine[k] : k \in Lines}]
        /\ \A p \in Papers : qSeen[p] \subseteq qSeen'[p] /\ qSeenIds[p] \subseteq qSeenIds'[p]
    BY <1>0, <1>1, <2>3 DEF TickShape
  <2>5. /\ TickShape(t) /\ \A j \in t.todo : j \in qSeen'[t.ant]
        /\ t.phase = "research" /\ t.done => \A j \in t.hand : j \in qSeen'[t.ant]
    BY <1>0, <1>1, <2>1, <2>3, <2>4 DEF LookSignal, TickShape, NotedFirst, Ticks, NewIn
  <2>6. \A j \in Items : Due(t, j) => Due(q, j) \/ IsNew(w, j)
    <3>1. ~ Noted(q.ant, i) /\ q.hand = {}
      BY <1>0, <1>1, QueueAssumption DEF LookSignal, NewIn, Noted
    <3>2. IsNew(w, i)
      BY <1>0, <2>1, <3>1, LookIsNew
    <3> QED BY <1>0, <3>2 DEF Due, Ticks
  <2>7. \A j \in Items : Doing(q, j) => 
          Doing(t, j) \/ (IF j \in Lines THEN IdOfLine[j] \in qSeenIds'[t.ant] ELSE j \in qSeen'[t.ant])
    BY <1>0, <1>1, <2>1, <2>3 DEF LookSignal, Doing, Ticks, TickShape
  <2> HIDE DEF t
  <2> QED BY <1>0, <2>0, <2>1, <2>3, <2>4, <2>5, <2>6, <2>7, QuietTick
<1>2. ASSUME NEW i \in Spotted, PassSignal(w, i) PROVE QueuesAreNoted'
  <2> DEFINE t == [q EXCEPT !.todo = @ \ {i}]
  <2>0. /\ Goes(w, t) /\ q.phase # "none" /\ UNCHANGED <<papers, qEnded, tries>>
    <3>1. Goes(w, t)
      BY <1>2, Zenon DEF PassSignal
    <3> HIDE DEF t
    <3> QED BY <1>0, <1>2, <3>1 DEF PassSignal, TickShape, qLife
  <2>1. /\ t \in Ticks /\ t.phase # "none" /\ t.ant = q.ant /\ t.left = q.left
    BY <1>0, <2>0 DEF Ticks, Phases
  <2>2. UNCHANGED qMemory
    BY <1>2 DEF PassSignal
  <2>3. qSeen' = qSeen /\ qSeenIds' = qSeenIds
    BY <2>2 DEF qMemory
  <2>4. /\ qSeen' \in [Papers -> SUBSET Items] /\ qSeenIds' \in [Papers -> SUBSET {IdOfLine[k] : k \in Lines}]
        /\ \A p \in Papers : qSeen[p] \subseteq qSeen'[p] /\ qSeenIds[p] \subseteq qSeenIds'[p]
    BY <1>0, <1>2, <2>3 DEF TickShape
  <2>5. /\ TickShape(t) /\ \A j \in t.todo : j \in qSeen'[t.ant]
        /\ t.phase = "research" /\ t.done => \A j \in t.hand : j \in qSeen'[t.ant]
    BY <1>0, <1>2, <2>1, <2>3, <2>4 DEF PassSignal, TickShape, NotedFirst, Ticks, NewIn
  <2>6. \A j \in Items : Due(t, j) => Due(q, j) \/ IsNew(w, j)
    BY <1>0, <1>2 DEF PassSignal, Due, Ticks, TickShape
  <2>7. \A j \in Items : Doing(q, j) => 
          Doing(t, j) \/ (IF j \in Lines THEN IdOfLine[j] \in qSeenIds'[t.ant] ELSE j \in qSeen'[t.ant])
    BY <1>0, <1>2, <2>1, <2>3 DEF PassSignal, Doing, Ticks, TickShape
  <2> HIDE DEF t
  <2> QED BY <1>0, <2>0, <2>1, <2>3, <2>4, <2>5, <2>6, <2>7, QuietTick
<1>3. ASSUME NoteSignal(w) PROVE QueuesAreNoted'
  <2> DEFINE kept == {k \in q.hand \cap Fresh : SymbolOfItem[k] \in Scope}
             t    == [q EXCEPT !.hand = {}, !.todo = @ \cup kept]
  <2>0. /\ Goes(w, t) /\ q.phase = "scouts" /\ UNCHANGED <<papers, qEnded, tries>>
        /\ qSeen' = [qSeen EXCEPT ![q.ant] = @ \cup q.hand] /\ qSeenIds' = qSeenIds
    BY <1>3, Zenon DEF NoteSignal, qLife
  <2>1. kept \subseteq q.hand /\ q.hand \subseteq Spotted
    BY <1>0, <2>0 DEF TickShape
  <2> HIDE DEF kept
  <2>2. /\ t \in Ticks /\ t.phase = "scouts" /\ t.ant = q.ant /\ t.left = q.left /\ t.hand = {} /\ t.done = q.done
        /\ t.todo = q.todo \cup kept
    BY <1>0, <2>0, <2>1 DEF Ticks, Phases
  <2> HIDE DEF t
  <2>3. /\ qSeen' \in [Papers -> SUBSET Items]
        /\ \A p \in Papers : qSeen[p] \subseteq qSeen'[p] /\ qSeenIds[p] \subseteq qSeenIds'[p]
        /\ qSeen'[q.ant] = qSeen[q.ant] \cup q.hand
    BY <1>0, <2>0
  <2>4. TickShape(t) /\ \A j \in t.todo : j \in qSeen'[t.ant]
    BY <1>0, <2>0, <2>1, <2>2, <2>3 DEF TickShape, NotedFirst
  <2>5. \A j \in Items : Due(t, j) => Due(q, j)
    BY <2>0, <2>1, <2>2 DEF Due
  <2>6. \A j \in Items : ~ Doing(q, j)
    BY <2>0 DEF Doing
  <2> QED BY <1>0, <2>0, <2>2, <2>3, <2>4, <2>5, <2>6, QuietTick
<1>4. ASSUME ScoutsRead(w) PROVE QueuesAreNoted'
  <2> DEFINE t == [q EXCEPT !.phase = "signals"]
  <2>0. /\ Goes(w, t) /\ q.phase # "none" /\ UNCHANGED <<papers, qEnded, tries>>
    <3>1. Goes(w, t)
      BY <1>4, Zenon DEF ScoutsRead
    <3> HIDE DEF t
    <3> QED BY <1>0, <1>4, <3>1 DEF ScoutsRead, TickShape, qLife
  <2>1. /\ t \in Ticks /\ t.phase # "none" /\ t.ant = q.ant /\ t.left = q.left
    BY <1>0, <2>0 DEF Ticks, Phases
  <2>2. UNCHANGED qMemory
    BY <1>4 DEF ScoutsRead
  <2>3. qSeen' = qSeen /\ qSeenIds' = qSeenIds
    BY <2>2 DEF qMemory
  <2>4. /\ qSeen' \in [Papers -> SUBSET Items] /\ qSeenIds' \in [Papers -> SUBSET {IdOfLine[k] : k \in Lines}]
        /\ \A p \in Papers : qSeen[p] \subseteq qSeen'[p] /\ qSeenIds[p] \subseteq qSeenIds'[p]
    BY <1>0, <1>4, <2>3 DEF TickShape
  <2>5. /\ TickShape(t) /\ \A j \in t.todo : j \in qSeen'[t.ant]
        /\ t.phase = "research" /\ t.done => \A j \in t.hand : j \in qSeen'[t.ant]
    BY <1>0, <1>4, <2>1, <2>3, <2>4 DEF ScoutsRead, TickShape, NotedFirst, Ticks, NewIn
  <2>6. \A j \in Items : Due(t, j) => Due(q, j) \/ IsNew(w, j)
    BY <1>0, <1>4 DEF ScoutsRead, Due, Ticks, TickShape
  <2>7. \A j \in Items : Doing(q, j) => 
          Doing(t, j) \/ (IF j \in Lines THEN IdOfLine[j] \in qSeenIds'[t.ant] ELSE j \in qSeen'[t.ant])
    BY <1>0, <1>4, <2>1, <2>3 DEF ScoutsRead, Doing, Ticks, TickShape
  <2> HIDE DEF t
  <2> QED BY <1>0, <2>0, <2>1, <2>3, <2>4, <2>5, <2>6, <2>7, QuietTick
<1>5. ASSUME SignalsDone(w) PROVE QueuesAreNoted'
  <2> DEFINE t == [q EXCEPT !.phase = "approved"]
  <2>0. /\ Goes(w, t) /\ q.phase # "none" /\ UNCHANGED <<papers, qEnded, tries>>
    <3>1. Goes(w, t)
      BY <1>5, Zenon DEF SignalsDone
    <3> HIDE DEF t
    <3> QED BY <1>0, <1>5, <3>1 DEF SignalsDone, TickShape, qLife
  <2>1. /\ t \in Ticks /\ t.phase # "none" /\ t.ant = q.ant /\ t.left = q.left
    BY <1>0, <2>0 DEF Ticks, Phases
  <2>2. UNCHANGED qMemory
    BY <1>5 DEF SignalsDone
  <2>3. qSeen' = qSeen /\ qSeenIds' = qSeenIds
    BY <2>2 DEF qMemory
  <2>4. /\ qSeen' \in [Papers -> SUBSET Items] /\ qSeenIds' \in [Papers -> SUBSET {IdOfLine[k] : k \in Lines}]
        /\ \A p \in Papers : qSeen[p] \subseteq qSeen'[p] /\ qSeenIds[p] \subseteq qSeenIds'[p]
    BY <1>0, <1>5, <2>3 DEF TickShape
  <2>5. /\ TickShape(t) /\ \A j \in t.todo : j \in qSeen'[t.ant]
        /\ t.phase = "research" /\ t.done => \A j \in t.hand : j \in qSeen'[t.ant]
    BY <1>0, <1>5, <2>1, <2>3, <2>4 DEF SignalsDone, TickShape, NotedFirst, Ticks, NewIn
  <2>6. \A j \in Items : Due(t, j) => Due(q, j) \/ IsNew(w, j)
    BY <1>0, <1>5 DEF SignalsDone, Due, Ticks, TickShape
  <2>7. \A j \in Items : Doing(q, j) => 
          Doing(t, j) \/ (IF j \in Lines THEN IdOfLine[j] \in qSeenIds'[t.ant] ELSE j \in qSeen'[t.ant])
    BY <1>0, <1>5, <2>1, <2>3 DEF SignalsDone, Doing, Ticks, TickShape
  <2> HIDE DEF t
  <2> QED BY <1>0, <2>0, <2>1, <2>3, <2>4, <2>5, <2>6, <2>7, QuietTick
<1>6. ASSUME NEW i \in Lines, LookLine(w, i) PROVE QueuesAreNoted'
  <2>0. PICK n \in Nat : n = q.count + 1
    BY <1>0
  <2> DEFINE t == [q EXCEPT !.hand = {i} \cap Fresh, !.pos = i, !.count = n]
  <2>1. /\ q.phase = "approved" /\ q.hand = {} /\ i \in NewLines(w) /\ UNCHANGED <<papers, qEnded, tries, qSeen, qSeenIds>>
        /\ Goes(w, [q EXCEPT !.hand = {i} \cap Fresh, !.pos = i, !.count = @ + 1])
    BY <1>6, Zenon DEF LookLine, qLife, qMemory
  <2>2. Goes(w, t)
    BY <2>0, <2>1
  <2>3. i \in Nat /\ i \in Items
    BY QueueAssumption DEF Items
  <2>4. /\ t \in Ticks /\ t.phase = "approved" /\ t.ant = q.ant /\ t.left = q.left /\ t.hand \subseteq {i} /\ t.done = q.done
        /\ t.todo = q.todo
    BY <1>0, <2>1, <2>3 DEF Ticks, Phases
  <2> HIDE DEF t
  <2>5. TickShape(t) /\ \A j \in t.todo : j \in qSeen'[t.ant]
    BY <1>0, <2>1, <2>4 DEF TickShape, NotedFirst
  <2>6. IsNew(w, i)
    <3>1. IdOfLine[i] \notin qSeenIds[q.ant]
      BY <2>1, Zenon DEF NewLines
    <3>2. ~ Noted(q.ant, i)
      BY <3>1 DEF Noted
    <3> QED BY <1>0, <2>1, <2>3, <3>2, LookIsNew
  <2>7. \A j \in Items : Due(t, j) => Due(q, j) \/ IsNew(w, j)
    BY <2>4, <2>6 DEF Due
  <2>8. \A j \in Items : ~ Doing(q, j)
    BY <2>1 DEF Doing
  <2> QED BY <1>0, <2>1, <2>2, <2>4, <2>5, <2>7, <2>8, QuietTick
<1>7. ASSUME NoteLine(w) PROVE QueuesAreNoted'
  <2> DEFINE t == [q EXCEPT !.hand = {}, !.done = FALSE]
  <2>0. /\ Goes(w, t) /\ q.phase # "none" /\ UNCHANGED <<papers, qEnded, tries>>
    <3>1. Goes(w, t)
      BY <1>7, Zenon DEF NoteLine
    <3> HIDE DEF t
    <3> QED BY <1>0, <1>7, <3>1 DEF NoteLine, TickShape, qLife
  <2>1. /\ t \in Ticks /\ t.phase # "none" /\ t.ant = q.ant /\ t.left = q.left
    BY <1>0, <2>0 DEF Ticks, Phases
  <2>3. qSeen' = qSeen /\ qSeenIds' = [qSeenIds EXCEPT ![q.ant] = @ \cup {IdOfLine[k] : k \in q.hand}]
    BY <1>7 DEF NoteLine
  <2>4. /\ qSeen' \in [Papers -> SUBSET Items] /\ qSeenIds' \in [Papers -> SUBSET {IdOfLine[k] : k \in Lines}]
        /\ \A p \in Papers : qSeen[p] \subseteq qSeen'[p] /\ qSeenIds[p] \subseteq qSeenIds'[p]
    BY <1>0, <1>7, <2>3 DEF TickShape, NoteLine
  <2>5. /\ TickShape(t) /\ \A j \in t.todo : j \in qSeen'[t.ant]
        /\ t.phase = "research" /\ t.done => \A j \in t.hand : j \in qSeen'[t.ant]
    BY <1>0, <1>7, <2>1, <2>3, <2>4 DEF NoteLine, TickShape, NotedFirst, Ticks, NewIn
  <2>6. \A j \in Items : Due(t, j) => Due(q, j) \/ IsNew(w, j)
    BY <1>0, <1>7 DEF NoteLine, Due, Ticks, TickShape
  <2>7. \A j \in Items : Doing(q, j) => 
          Doing(t, j) \/ (IF j \in Lines THEN IdOfLine[j] \in qSeenIds'[t.ant] ELSE j \in qSeen'[t.ant])
    BY <1>0, <1>7, <2>1, <2>3 DEF NoteLine, Doing, Ticks, TickShape
  <2> HIDE DEF t
  <2> QED BY <1>0, <2>0, <2>1, <2>3, <2>4, <2>5, <2>6, <2>7, QuietTick
<1>8. ASSUME ApprovedRead(w) PROVE QueuesAreNoted'
  <2> DEFINE t == [q EXCEPT !.phase = "research", !.pos = 0]
  <2>0. /\ Goes(w, t) /\ q.phase # "none" /\ UNCHANGED <<papers, qEnded, tries>>
    <3>1. Goes(w, t)
      BY <1>8, Zenon DEF ApprovedRead
    <3> HIDE DEF t
    <3> QED BY <1>0, <1>8, <3>1 DEF ApprovedRead, TickShape, qLife
  <2>1. /\ t \in Ticks /\ t.phase # "none" /\ t.ant = q.ant /\ t.left = q.left
    BY <1>0, <2>0, QueueAssumption DEF Ticks, Phases
  <2>2. UNCHANGED qMemory
    BY <1>8 DEF ApprovedRead
  <2>3. qSeen' = qSeen /\ qSeenIds' = qSeenIds
    BY <2>2 DEF qMemory
  <2>4. /\ qSeen' \in [Papers -> SUBSET Items] /\ qSeenIds' \in [Papers -> SUBSET {IdOfLine[k] : k \in Lines}]
        /\ \A p \in Papers : qSeen[p] \subseteq qSeen'[p] /\ qSeenIds[p] \subseteq qSeenIds'[p]
    BY <1>0, <1>8, <2>3 DEF TickShape
  <2>5. /\ TickShape(t) /\ \A j \in t.todo : j \in qSeen'[t.ant]
        /\ t.phase = "research" /\ t.done => \A j \in t.hand : j \in qSeen'[t.ant]
    BY <1>0, <1>8, <2>1, <2>3, <2>4 DEF ApprovedRead, TickShape, NotedFirst, Ticks, NewIn
  <2>6. \A j \in Items : Due(t, j) => Due(q, j) \/ IsNew(w, j)
    BY <1>0, <1>8 DEF ApprovedRead, Due, Ticks, TickShape
  <2>7. \A j \in Items : Doing(q, j) => 
          Doing(t, j) \/ (IF j \in Lines THEN IdOfLine[j] \in qSeenIds'[t.ant] ELSE j \in qSeen'[t.ant])
    BY <1>0, <1>8, <2>1, <2>3 DEF ApprovedRead, Doing, Ticks, TickShape
  <2> HIDE DEF t
  <2> QED BY <1>0, <2>0, <2>1, <2>3, <2>4, <2>5, <2>6, <2>7, QuietTick
<1>9. ASSUME NEW i \in Accepted, LookCandidate(w, i) PROVE QueuesAreNoted'
  <2> DEFINE t == [q EXCEPT !.hand = {i}]
  <2>0. /\ Goes(w, t) /\ q.phase # "none" /\ UNCHANGED <<papers, qEnded, tries>>
    <3>1. Goes(w, t)
      BY <1>9, Zenon DEF LookCandidate
    <3> HIDE DEF t
    <3> QED BY <1>0, <1>9, <3>1 DEF LookCandidate, TickShape, qLife
  <2>1. /\ t \in Ticks /\ t.phase # "none" /\ t.ant = q.ant /\ t.left = q.left
    BY <1>0, <2>0 DEF Ticks, Phases
  <2>2. UNCHANGED qMemory
    BY <1>9 DEF LookCandidate
  <2>3. qSeen' = qSeen /\ qSeenIds' = qSeenIds
    BY <2>2 DEF qMemory
  <2>4. /\ qSeen' \in [Papers -> SUBSET Items] /\ qSeenIds' \in [Papers -> SUBSET {IdOfLine[k] : k \in Lines}]
        /\ \A p \in Papers : qSeen[p] \subseteq qSeen'[p] /\ qSeenIds[p] \subseteq qSeenIds'[p]
    BY <1>0, <1>9, <2>3 DEF TickShape
  <2>5. /\ TickShape(t) /\ \A j \in t.todo : j \in qSeen'[t.ant]
        /\ t.phase = "research" /\ t.done => \A j \in t.hand : j \in qSeen'[t.ant]
    BY <1>0, <1>9, <2>1, <2>3, <2>4 DEF LookCandidate, TickShape, NotedFirst, Ticks, NewIn
  <2>6. \A j \in Items : Due(t, j) => Due(q, j) \/ IsNew(w, j)
    <3>1. ~ Noted(q.ant, i) /\ q.hand = {}
      BY <1>0, <1>9, QueueAssumption DEF LookCandidate, NewIn, Noted
    <3>2. IsNew(w, i)
      BY <1>0, <2>1, <3>1, LookIsNew
    <3> QED BY <1>0, <3>2 DEF Due, Ticks
  <2>7. \A j \in Items : Doing(q, j) => 
          Doing(t, j) \/ (IF j \in Lines THEN IdOfLine[j] \in qSeenIds'[t.ant] ELSE j \in qSeen'[t.ant])
    BY <1>0, <1>9, <2>1, <2>3 DEF LookCandidate, Doing, Ticks, TickShape
  <2> HIDE DEF t
  <2> QED BY <1>0, <2>0, <2>1, <2>3, <2>4, <2>5, <2>6, <2>7, QuietTick
<1>10. ASSUME NoteCandidate(w) PROVE QueuesAreNoted'
  <2>0. PICK n \in Nat : n = q.count + 1
    BY <1>0
  <2> DEFINE t == [q EXCEPT !.hand = @ \cap Fresh, !.done = (q.hand \subseteq Fresh), !.count = n]
  <2>1. /\ q.phase = "research" /\ q.hand # {} /\ UNCHANGED <<papers, qEnded, tries>>
        /\ Goes(w, [q EXCEPT !.hand = @ \cap Fresh, !.done = (q.hand \subseteq Fresh), !.count = @ + 1])
        /\ qSeen' = [qSeen EXCEPT ![q.ant] = @ \cup q.hand] /\ qSeenIds' = qSeenIds
    BY <1>10, Zenon DEF NoteCandidate, qLife
  <2>2. Goes(w, t)
    BY <2>0, <2>1
  <2>3. /\ t \in Ticks /\ t.phase = "research" /\ t.ant = q.ant /\ t.left = q.left /\ t.hand \subseteq q.hand
        /\ t.todo = q.todo /\ (t.done => t.hand # {})
    <3>1. q.hand \cap Fresh \in SUBSET Items /\ (q.hand \subseteq Fresh) \in BOOLEAN
      BY <1>0
    <3>2. q.hand \subseteq Fresh => q.hand \cap Fresh # {}
      BY <2>1
    <3> DEFINE h == q.hand \cap Fresh
               d == q.hand \subseteq Fresh
    <3>3. h \in SUBSET Items /\ h \subseteq q.hand /\ d \in BOOLEAN /\ (d => h # {}) /\ t = [q EXCEPT !.hand = h, !.done = d, !.count = n]
      BY <3>1, <3>2
    <3> HIDE DEF h, d, t
    <3> QED BY <1>0, <2>1, <3>3 DEF Ticks, Phases
  <2> HIDE DEF t
  <2>4. /\ qSeen' \in [Papers -> SUBSET Items]
        /\ \A p \in Papers : qSeen[p] \subseteq qSeen'[p] /\ qSeenIds[p] \subseteq qSeenIds'[p]
        /\ qSeen'[q.ant] = qSeen[q.ant] \cup q.hand
    BY <1>0, <2>1
  <2>5. TickShape(t) /\ \A j \in t.todo \cup t.hand : j \in qSeen'[t.ant]
    BY <1>0, <2>1, <2>3, <2>4 DEF TickShape, NotedFirst
  <2>6. \A j \in Items : Due(t, j) => Due(q, j)
    BY <2>1, <2>3 DEF Due
  <2>7. \A j \in Items : ~ Doing(q, j)
    BY <2>1 DEF Doing
  <2> QED BY <1>0, <2>1, <2>2, <2>3, <2>4, <2>5, <2>6, <2>7, QuietTick
<1>11. ASSUME PassItem(w) PROVE QueuesAreNoted'
  <2> DEFINE t == [q EXCEPT !.hand = {}, !.done = FALSE]
  <2>0. /\ Goes(w, t) /\ q.phase # "none" /\ UNCHANGED <<papers, qEnded, tries>>
    <3>1. Goes(w, t)
      BY <1>11, Zenon DEF PassItem
    <3> HIDE DEF t
    <3> QED BY <1>0, <1>11, <3>1 DEF PassItem, TickShape, qLife
  <2>1. /\ t \in Ticks /\ t.phase # "none" /\ t.ant = q.ant /\ t.left = q.left
    BY <1>0, <2>0 DEF Ticks, Phases
  <2>2. UNCHANGED qMemory
    BY <1>11 DEF PassItem
  <2>3. qSeen' = qSeen /\ qSeenIds' = qSeenIds
    BY <2>2 DEF qMemory
  <2>4. /\ qSeen' \in [Papers -> SUBSET Items] /\ qSeenIds' \in [Papers -> SUBSET {IdOfLine[k] : k \in Lines}]
        /\ \A p \in Papers : qSeen[p] \subseteq qSeen'[p] /\ qSeenIds[p] \subseteq qSeenIds'[p]
    BY <1>0, <1>11, <2>3 DEF TickShape
  <2>5. /\ TickShape(t) /\ \A j \in t.todo : j \in qSeen'[t.ant]
        /\ t.phase = "research" /\ t.done => \A j \in t.hand : j \in qSeen'[t.ant]
    BY <1>0, <1>11, <2>1, <2>3, <2>4 DEF PassItem, TickShape, NotedFirst, Ticks, NewIn
  <2>6. \A j \in Items : Due(t, j) => Due(q, j) \/ IsNew(w, j)
    BY <1>0, <1>11 DEF PassItem, Due, Ticks, TickShape
  <2>7. \A j \in Items : Doing(q, j) => 
          Doing(t, j) \/ (IF j \in Lines THEN IdOfLine[j] \in qSeenIds'[t.ant] ELSE j \in qSeen'[t.ant])
    BY <1>0, <1>11, <2>1, <2>3 DEF PassItem, Doing, Ticks, TickShape
  <2> HIDE DEF t
  <2> QED BY <1>0, <2>0, <2>1, <2>3, <2>4, <2>5, <2>6, <2>7, QuietTick
<1>12. ASSUME ReadAgain(w) PROVE QueuesAreNoted'
  <2> DEFINE t == [q EXCEPT !.phase = "approved"]
  <2>0. /\ Goes(w, t) /\ q.phase # "none" /\ UNCHANGED <<papers, qEnded, tries>>
    <3>1. Goes(w, t)
      BY <1>12, Zenon DEF ReadAgain
    <3> HIDE DEF t
    <3> QED BY <1>0, <1>12, <3>1 DEF ReadAgain, TickShape, qLife
  <2>1. /\ t \in Ticks /\ t.phase # "none" /\ t.ant = q.ant /\ t.left = q.left
    BY <1>0, <2>0 DEF Ticks, Phases
  <2>2. UNCHANGED qMemory
    BY <1>12 DEF ReadAgain
  <2>3. qSeen' = qSeen /\ qSeenIds' = qSeenIds
    BY <2>2 DEF qMemory
  <2>4. /\ qSeen' \in [Papers -> SUBSET Items] /\ qSeenIds' \in [Papers -> SUBSET {IdOfLine[k] : k \in Lines}]
        /\ \A p \in Papers : qSeen[p] \subseteq qSeen'[p] /\ qSeenIds[p] \subseteq qSeenIds'[p]
    BY <1>0, <1>12, <2>3 DEF TickShape
  <2>5. /\ TickShape(t) /\ \A j \in t.todo : j \in qSeen'[t.ant]
        /\ t.phase = "research" /\ t.done => \A j \in t.hand : j \in qSeen'[t.ant]
    BY <1>0, <1>12, <2>1, <2>3, <2>4 DEF ReadAgain, TickShape, NotedFirst, Ticks, NewIn
  <2>6. \A j \in Items : Due(t, j) => Due(q, j) \/ IsNew(w, j)
    BY <1>0, <1>12 DEF ReadAgain, Due, Ticks, TickShape
  <2>7. \A j \in Items : Doing(q, j) => 
          Doing(t, j) \/ (IF j \in Lines THEN IdOfLine[j] \in qSeenIds'[t.ant] ELSE j \in qSeen'[t.ant])
    BY <1>0, <1>12, <2>1, <2>3 DEF ReadAgain, Doing, Ticks, TickShape
  <2> HIDE DEF t
  <2> QED BY <1>0, <2>0, <2>1, <2>3, <2>4, <2>5, <2>6, <2>7, QuietTick
<1> QED BY <1>1, <1>2, <1>3, <1>4, <1>5, <1>6, <1>7, <1>8, <1>9, <1>10, <1>11, <1>12

\* A tick tries what is due.
LEMMA TryActs ==
  ASSUME QueuesAreNoted, NEW w \in QWorkers,
         (\E i \in Spotted : TrySignal(w, i)) \/ TryLine(w) \/ TryCandidate(w)
  PROVE  QueuesAreNoted'
<1> DEFINE q == qTick[w]
           TryOf(i) == tries' = [tries EXCEPT ![i] = Append(@, [ant |-> q.ant, by |-> {w}, left |-> q.left])]
<1>0. /\ q \in Ticks /\ TickShape(q) /\ NotedFirst(q) /\ Lines \cap (Spotted \cup Accepted) = {}
      /\ Spotted \subseteq Items /\ Lines \subseteq Items /\ Accepted \subseteq Items
      /\ q.todo \subseteq Spotted /\ q.hand \subseteq Items
  <2>1. q \in Ticks /\ TickShape(q) /\ NotedFirst(q)
    BY DEF QueuesAreNoted, QueueTypes, ShapesAreKept
  <2> HIDE DEF q
  <2> QED BY <2>1, QueueAssumption DEF Ticks, Items
<1>1. ASSUME NEW i \in Spotted, TrySignal(w, i) PROVE QueuesAreNoted'
  <2> DEFINE t == [q EXCEPT !.todo = @ \ {i}]
  <2>1. /\ q.phase = "signals" /\ i \in q.todo /\ Goes(w, t) /\ TryOf(i)
        /\ UNCHANGED <<papers, qEnded, qSeen, qSeenIds>>
    BY <1>1, Zenon DEF TrySignal, Try, qMemory, qLife
  <2>2. /\ t \in Ticks /\ t.phase = "signals" /\ t.ant = q.ant /\ t.left = q.left /\ t.hand = q.hand /\ t.done = q.done
        /\ t.todo = q.todo \ {i}
    BY <1>0, <2>1 DEF Ticks, Phases
  <2> HIDE DEF t
  <2>3. TickShape(t) /\ NotedFirst(t)
    BY <1>0, <2>1, <2>2 DEF TickShape, NotedFirst
  <2>4. Due(q, i) /\ Noted(t.ant, i)
    BY <1>0, <2>1, <2>2 DEF Due, Noted, NotedFirst
  <2>5. \A k \in Items : Due(t, k) => Due(q, k) /\ ~ SameItem(i, k)
    BY <1>0, <2>1, <2>2, <2>3 DEF Due, SameItem, TickShape
  <2>6. \A k \in Items : ~ Doing(q, k)
    BY <2>1 DEF Doing
  <2> QED BY <1>0, <2>1, <2>2, <2>3, <2>4, <2>5, <2>6, TryStep
<1>2. ASSUME TryLine(w) PROVE QueuesAreNoted'
  <2> DEFINE t == [q EXCEPT !.done = TRUE]
  <2>1. /\ q.phase = "approved" /\ ~ q.done /\ Goes(w, t) /\ UNCHANGED <<papers, qEnded, qSeen, qSeenIds>>
        /\ \E i \in q.hand : TryOf(i)
    BY <1>2, Zenon DEF TryLine, Try, qMemory, qLife
  <2>2. PICK i \in q.hand : TryOf(i)
    BY <2>1
  <2>3. /\ t \in Ticks /\ t.phase = "approved" /\ t.ant = q.ant /\ t.left = q.left /\ t.hand = q.hand /\ t.done
        /\ t.todo = q.todo
    BY <1>0, <2>1 DEF Ticks, Phases
  <2> HIDE DEF t
  <2>4. TickShape(t) /\ NotedFirst(t)
    BY <1>0, <2>1, <2>2, <2>3 DEF TickShape, NotedFirst
  <2>5. Due(q, i) /\ Doing(t, i) /\ i \in Items
    BY <1>0, <2>1, <2>2, <2>3 DEF Due, Doing
  <2>6. \A k \in Items : ~ Due(t, k) /\ ~ Doing(q, k)
    BY <2>1, <2>3, <2>4 DEF Due, Doing, TickShape
  <2> QED BY <1>0, <2>1, <2>2, <2>3, <2>4, <2>5, <2>6, TryStep
<1>3. ASSUME TryCandidate(w) PROVE QueuesAreNoted'
  <2> DEFINE t == [q EXCEPT !.hand = {}, !.done = FALSE]
  <2>1. /\ q.phase = "research" /\ q.done /\ Goes(w, t) /\ UNCHANGED <<papers, qEnded, qSeen, qSeenIds>>
        /\ \E i \in q.hand : TryOf(i)
    BY <1>3, Zenon DEF TryCandidate, Try, qMemory, qLife
  <2>2. PICK i \in q.hand : TryOf(i)
    BY <2>1
  <2>3. /\ t \in Ticks /\ t.phase = "research" /\ t.ant = q.ant /\ t.left = q.left /\ t.hand = {} /\ ~ t.done
        /\ t.todo = q.todo
    BY <1>0, <2>1 DEF Ticks, Phases
  <2> HIDE DEF t
  <2>4. TickShape(t) /\ NotedFirst(t)
    BY <1>0, <2>1, <2>3 DEF TickShape, NotedFirst
  <2>5. Due(q, i) /\ Noted(t.ant, i) /\ i \in Items
    BY <1>0, <2>1, <2>2, <2>3 DEF Due, Noted, NotedFirst, TickShape
  <2>6. \A k \in Items : ~ Due(t, k) /\ ~ Doing(q, k)
    BY <2>1, <2>3, <2>4 DEF Due, Doing, TickShape
  <2> QED BY <1>0, <2>1, <2>2, <2>3, <2>4, <2>5, <2>6, TryStep
<1> QED BY <1>1, <1>2, <1>3

\* A tick begins with nothing in hand, when none runs that was not left behind.
LEMMA TickBegins ==
  ASSUME QueuesAreNoted, NEW w \in QWorkers, BeginTick(w)
  PROVE  QueuesAreNoted'
<1>0. QueueTypes /\ OneRuns /\ ShapesAreKept /\ TriesAreKept /\ DueIsNew /\ TriedOncePerLife /\ papers \in Papers
  BY DEF QueuesAreNoted, QueueTypes
<1>1. PICK r \in Regimes :
        qTick' = [qTick EXCEPT ![w] = [NoTick EXCEPT !.phase = "scouts", !.ant = papers, !.regime = r]]
  BY Zenon DEF BeginTick
<1> DEFINE t == [NoTick EXCEPT !.phase = "scouts", !.ant = papers, !.regime = r]
<1>2. /\ ~ qEnded /\ OnlyLeft /\ qTick[w].phase = "none"
      /\ UNCHANGED <<qSeen, qSeenIds, papers, qEnded, tries>>
  BY Zenon DEF BeginTick, qMemory, qLife
<1>3. /\ t \in Ticks /\ t.phase = "scouts" /\ t.ant = papers /\ ~ t.left /\ t.hand = {} /\ ~ t.done /\ t.todo = {}
  BY <1>0 DEF Ticks, Phases, NoTick
<1> HIDE DEF t
<1>4. /\ qTick' \in [QWorkers -> Ticks] /\ qTick'[w] = t
      /\ \A v \in QWorkers : v # w => qTick'[v] = qTick[v]
  BY <1>0, <1>1, <1>3 DEF QueueTypes, t
<1>5. QueueTypes'
  BY <1>0, <1>2, <1>4 DEF QueueTypes
<1>6. OneRuns'
  <2>1. \A v \in QWorkers : v # w => qTick'[v].phase = "none" \/ qTick'[v].left
    BY <1>2, <1>4 DEF OnlyLeft
  <2>2. papers <= papers
    BY <1>0 DEF Papers
  <2> QED BY <1>0, <1>2, <1>3, <1>4, <2>1, <2>2 DEF OneRuns
<1>7. ShapesAreKept'
  <2> SUFFICES ASSUME NEW v \in QWorkers PROVE TickShape(qTick'[v]) /\ NotedFirst(qTick[v])'
    BY DEF ShapesAreKept, TickShape
  <2>1. CASE v = w
    BY <1>3, <1>4, <2>1 DEF TickShape, NotedFirst
  <2>2. CASE v # w
    BY <1>0, <1>2, <1>4, <2>2 DEF ShapesAreKept, NotedFirst
  <2> QED BY <2>1, <2>2
<1>8. TriesAreKept'
  <2> SUFFICES ASSUME NEW i \in Items, NEW n \in DOMAIN tries[i] PROVE TryIsKept(i, tries[i][n])'
    BY <1>2 DEF TriesAreKept
  <2>0. tries[i][n] \in Tries
    BY <1>0 DEF QueueTypes
  <2>1. TryIsKept(i, tries[i][n]) /\ tries[i][n].by \subseteq QWorkers
    BY <1>0, <2>0 DEF TriesAreKept, Tries
  <2>2. \A v \in tries[i][n].by : v # w
    BY <1>2, <2>1 DEF TryIsKept
  <2>3. \A v \in tries[i][n].by : qTick'[v] = qTick[v]
    BY <1>4, <2>1, <2>2
  <2> QED BY <1>2, <2>1, <2>3 DEF TryIsKept, Noted, Doing
<1>9. DueIsNew' /\ TriedOncePerLife'
  <2>1. \A v \in QWorkers, i \in Items : Due(qTick'[v], i) =>
           Due(qTick[v], i) /\ qTick'[v].ant = qTick[v].ant /\ (qTick[v].left => qTick'[v].left)
    BY <1>3, <1>4 DEF Due
  <2>2. \A i \in Items : DOMAIN tries'[i] = DOMAIN tries[i] /\ \A n \in DOMAIN tries[i] :
           /\ tries'[i][n].ant = tries[i][n].ant /\ tries'[i][n].by = tries[i][n].by \ {}
           /\ tries[i][n].left => tries'[i][n].left
    BY <1>2
  <2> QED BY <2>1, <2>2, MarkStep, Zenon
<1> QED BY <1>0, <1>5, <1>6, <1>7, <1>8, <1>9 DEF QueuesAreNoted

\* Of a tick left behind all tries are marked as such.
LEMMA TickIsLeft ==
  ASSUME QueuesAreNoted, NEW w \in QWorkers, LeaveBehind(w)
  PROVE  QueuesAreNoted'
<1>0. QueueTypes /\ OneRuns /\ ShapesAreKept /\ TriesAreKept /\ DueIsNew /\ TriedOncePerLife
  BY DEF QueuesAreNoted
<1> DEFINE t == [qTick[w] EXCEPT !.left = TRUE]
<1>1. /\ qTick[w].phase # "none" /\ ~ qTick[w].left /\ Goes(w, t) /\ MarkLeft(w)
      /\ UNCHANGED <<qSeen, qSeenIds, papers, qEnded>>
  BY Zenon DEF LeaveBehind, qMemory
<1>2. /\ t \in Ticks /\ t.phase = qTick[w].phase /\ t.ant = qTick[w].ant /\ t.left /\ t.hand = qTick[w].hand
      /\ t.todo = qTick[w].todo /\ (t.done <=> qTick[w].done)
  <2>1. qTick[w] \in Ticks
    BY <1>0 DEF QueueTypes
  <2> QED BY <2>1 DEF Ticks
<1> HIDE DEF t
<1>3. /\ qTick' \in [QWorkers -> Ticks] /\ qTick'[w] = t
      /\ \A v \in QWorkers : v # w => qTick'[v] = qTick[v]
  BY <1>0, <1>1, <1>2 DEF QueueTypes, Goes
<1>4. /\ tries' \in [Items -> Seq(Tries)]
      /\ \A i \in Items : DOMAIN tries'[i] = DOMAIN tries[i] /\ \A n \in DOMAIN tries[i] :
           /\ tries'[i][n].ant = tries[i][n].ant /\ tries'[i][n].by = tries[i][n].by
           /\ tries'[i][n].left <=> tries[i][n].left \/ w \in tries[i][n].by
  BY <1>0, <1>1, MarkedTries
<1>5. QueueTypes'
  BY <1>0, <1>1, <1>3, <1>4 DEF QueueTypes
<1>6. OneRuns'
  BY <1>0, <1>1, <1>2, <1>3 DEF OneRuns
<1>7. ShapesAreKept'
  <2> SUFFICES ASSUME NEW v \in QWorkers PROVE TickShape(qTick'[v]) /\ NotedFirst(qTick[v])'
    BY DEF ShapesAreKept, TickShape
  <2>0. TickShape(qTick[v]) /\ NotedFirst(qTick[v])
    BY <1>0 DEF ShapesAreKept
  <2>1. CASE v = w
    BY <1>1, <1>2, <1>3, <2>0, <2>1 DEF TickShape, NotedFirst
  <2>2. CASE v # w
    BY <1>1, <1>3, <2>0, <2>2 DEF NotedFirst
  <2> QED BY <2>1, <2>2
<1>8. TriesAreKept'
  <2> SUFFICES ASSUME NEW i \in Items, NEW n \in DOMAIN tries[i] PROVE TryIsKept(i, tries[i][n])'
    BY <1>4 DEF TriesAreKept
  <2>0. tries[i][n] \in Tries
    BY <1>0 DEF QueueTypes
  <2>1. TryIsKept(i, tries[i][n]) /\ tries[i][n].by \subseteq QWorkers
    BY <1>0, <2>0 DEF TriesAreKept, Tries
  <2>2. /\ tries'[i][n].ant = tries[i][n].ant /\ tries'[i][n].by = tries[i][n].by
        /\ tries'[i][n].left <=> tries[i][n].left \/ w \in tries[i][n].by
    BY <1>4
  <2>3. \A v \in tries[i][n].by : /\ qTick'[v].phase # "none" /\ qTick'[v].ant = qTick[v].ant
                                  /\ qTick'[v].left <=> qTick[v].left \/ v = w
                                  /\ Doing(qTick[v], i) => Doing(qTick'[v], i)
    BY <1>1, <1>2, <1>3, <2>1 DEF TryIsKept, Doing
  <2>4. \A v \in tries[i][n].by : qTick'[v].left <=> tries'[i][n].left
    BY <2>1, <2>2, <2>3 DEF TryIsKept
  <2>5. \/ IF i \in Lines THEN IdOfLine[i] \in qSeenIds'[tries[i][n].ant] ELSE i \in qSeen'[tries[i][n].ant]
        \/ \E v \in tries[i][n].by : Doing(qTick'[v], i)
        \/ i \in Lines /\ tries[i][n].by = {} /\ (tries'[i][n].left \/ tries[i][n].ant < papers \/ qEnded)
    BY <1>1, <2>1, <2>2, <2>3 DEF TryIsKept, Noted
  <2>6. \A v \in tries[i][n].by : tries[i][n].by = {v} /\ qTick[v].ant = tries[i][n].ant
    BY <2>1 DEF TryIsKept
  <2>7. tries[i][n].ant <= papers
    BY <2>1 DEF TryIsKept
  <2>8. /\ tries'[i][n].ant <= papers' /\ papers' = papers /\ qEnded' = qEnded
        /\ \A v \in tries'[i][n].by : /\ tries'[i][n].by = {v} /\ qTick'[v].phase # "none"
                                      /\ qTick'[v].ant = tries'[i][n].ant /\ qTick'[v].left = tries'[i][n].left
    <3>1. papers' = papers /\ qEnded' = qEnded
      BY <1>1
    <3>2. ASSUME NEW v \in tries[i][n].by
          PROVE  qTick'[v].phase # "none" /\ qTick'[v].ant = tries'[i][n].ant /\ qTick'[v].left = tries'[i][n].left
      <4>1. v \in QWorkers
        BY <2>1
      <4>2. qTick'[v] \in Ticks /\ tries'[i][n] \in Tries
        BY <1>3, <1>4, <4>1
      <4>3. qTick'[v].left \in BOOLEAN /\ tries'[i][n].left \in BOOLEAN
        BY <4>2 DEF Ticks, Tries
      <4> QED BY <2>2, <2>3, <2>4, <2>6, <4>3
    <3> QED BY <2>2, <2>6, <2>7, <3>1, <3>2
  <2> QED BY <2>2, <2>5, <2>8 DEF TryIsKept, Noted, Doing
<1>9. DueIsNew' /\ TriedOncePerLife'
  <2>1. \A v \in QWorkers, i \in Items : Due(qTick'[v], i) =>
           Due(qTick[v], i) /\ qTick'[v].ant = qTick[v].ant /\ (qTick[v].left => qTick'[v].left)
    BY <1>2, <1>3 DEF Due
  <2>2. \A i \in Items : DOMAIN tries'[i] = DOMAIN tries[i] /\ \A n \in DOMAIN tries[i] :
           /\ tries'[i][n].ant = tries[i][n].ant /\ tries'[i][n].by = tries[i][n].by \ {}
           /\ tries[i][n].left => tries'[i][n].left
    BY <1>4
  <2> QED BY <2>1, <2>2, MarkStep, Zenon
<1> QED BY <1>5, <1>6, <1>7, <1>8, <1>9 DEF QueuesAreNoted

\* Of ticks that are over, or fail, nothing is in doubt: what they tried is noted, or was
\* tried by a tick left behind, or by an ant that ends.
LEMMA TicksEnd ==
  ASSUME QueuesAreNoted, NEW W \in SUBSET QWorkers, MarkOver(W),
         qTick' = [v \in QWorkers |-> IF v \in W THEN NoTick ELSE qTick[v]],
         papers' \in Papers, qEnded' \in BOOLEAN,
         qSeen' \in [Papers -> SUBSET Items], qSeenIds' = qSeenIds,
         papers <= papers', papers' # papers => ~ qEnded',
         \A p \in Papers : p <= papers => qSeen'[p] = qSeen[p],
         \A v \in QWorkers : v \notin W /\ qTick[v].phase # "none" /\ ~ qTick[v].left => papers' = papers /\ ~ qEnded',
         \A v \in W : qTick[v].left \/ papers' # papers \/ qEnded' \/ \A i \in Items : ~ Doing(qTick[v], i),
         qEnded => papers' # papers \/ qEnded'
  PROVE  QueuesAreNoted'
<1>0. /\ QueueTypes /\ OneRuns /\ ShapesAreKept /\ TriesAreKept /\ DueIsNew /\ TriedOncePerLife /\ papers \in Papers
      /\ papers \in Nat /\ papers' \in Nat /\ Papers \subseteq Nat /\ 1 \in Papers /\ \A p \in Papers : p \in Nat
  BY QueueAssumption DEF QueuesAreNoted, QueueTypes, Papers
<1>1. /\ NoTick \in Ticks /\ NoTick.phase = "none" /\ NoTick.hand = {} /\ NoTick.todo = {} /\ ~ NoTick.done
      /\ NoTick.ant = 1 /\ ~ NoTick.left
  BY <1>0 DEF NoTick, Ticks, Phases
<1>2. /\ qTick' \in [QWorkers -> Ticks] /\ \A v \in W : qTick'[v] = NoTick
      /\ \A v \in QWorkers \ W : qTick'[v] = qTick[v]
  BY <1>0, <1>1 DEF QueueTypes
<1>3. /\ tries' \in [Items -> Seq(Tries)]
      /\ \A i \in Items : DOMAIN tries'[i] = DOMAIN tries[i] /\ \A n \in DOMAIN tries[i] :
           /\ tries'[i][n].ant = tries[i][n].ant /\ tries'[i][n].left = tries[i][n].left
           /\ tries'[i][n].by = tries[i][n].by \ W
  BY <1>0, MarkedTries
<1>4. QueueTypes'
  BY <1>0, <1>2, <1>3 DEF QueueTypes
<1>5. OneRuns'
  <2>1. \A v \in QWorkers : qTick[v].ant \in Nat
    BY <1>0 DEF QueueTypes, Ticks
  <2>2. \A v \in QWorkers : qTick'[v].ant <= papers'
    BY <1>0, <1>1, <1>2, <2>1 DEF OneRuns, Papers
  <2>3. \A v \in QWorkers : qTick'[v].phase # "none" /\ ~ qTick'[v].left =>
           v \notin W /\ qTick[v].phase # "none" /\ ~ qTick[v].left /\ qTick'[v] = qTick[v]
    BY <1>1, <1>2
  <2> QED BY <1>0, <2>2, <2>3 DEF OneRuns
<1>6. ShapesAreKept'
  <2> SUFFICES ASSUME NEW v \in QWorkers PROVE TickShape(qTick'[v]) /\ NotedFirst(qTick[v])'
    BY DEF ShapesAreKept, TickShape
  <2>1. CASE v \in W
    BY <1>1, <1>2, <2>1 DEF TickShape, NotedFirst
  <2>2. CASE v \notin W
    <3>1. TickShape(qTick[v]) /\ NotedFirst(qTick[v]) /\ qTick'[v] = qTick[v] /\ qTick[v].ant <= papers
      BY <1>0, <1>2, <2>2 DEF ShapesAreKept, OneRuns
    <3>2. qTick[v].ant \in Papers
      BY <1>0 DEF QueueTypes, Ticks
    <3>3. qSeen'[qTick[v].ant] = qSeen[qTick[v].ant]
      BY <3>1, <3>2
    <3> QED BY <3>1, <3>3 DEF NotedFirst
  <2> QED BY <2>1, <2>2
<1>7. TriesAreKept'
  <2> SUFFICES ASSUME NEW i \in Items, NEW n \in DOMAIN tries[i] PROVE TryIsKept(i, tries[i][n])'
    BY <1>3 DEF TriesAreKept
  <2>0. tries[i][n] \in Tries
    BY <1>0 DEF QueueTypes
  <2>1. TryIsKept(i, tries[i][n]) /\ tries[i][n].by \subseteq QWorkers /\ tries[i][n].ant \in Papers
    BY <1>0, <2>0 DEF TriesAreKept, Tries
  <2>2. /\ tries'[i][n].ant = tries[i][n].ant /\ tries'[i][n].left = tries[i][n].left
        /\ tries'[i][n].by = tries[i][n].by \ W
    BY <1>3
  <2>3. tries[i][n].ant <= papers /\ tries[i][n].ant \in Nat /\ tries[i][n].ant <= papers'
    <3>1. PICK a \in Papers : a = tries[i][n].ant
      BY <2>1
    <3>2. a <= papers
      BY <2>1, <3>1, Zenon DEF TryIsKept
    <3>3. a \in Nat /\ a <= papers'
      BY <1>0, <3>2
    <3> QED BY <3>1, <3>2, <3>3
  <2>4. \A v \in tries'[i][n].by : /\ v \in tries[i][n].by /\ tries[i][n].by = {v} /\ v \notin W
                                   /\ qTick'[v] = qTick[v] /\ qTick[v].phase # "none" /\ qTick[v].ant = tries[i][n].ant
                                   /\ qTick[v].left = tries[i][n].left
    BY <1>2, <2>1, <2>2 DEF TryIsKept
  <2>5. \/ IF i \in Lines THEN IdOfLine[i] \in qSeenIds'[tries[i][n].ant] ELSE i \in qSeen'[tries[i][n].ant]
        \/ \E v \in tries'[i][n].by : Doing(qTick'[v], i)
        \/ i \in Lines /\ tries'[i][n].by = {} /\ (tries[i][n].left \/ tries[i][n].ant < papers' \/ qEnded')
    <3>1. CASE Noted(tries[i][n].ant, i)
      BY <2>1, <2>3, <3>1 DEF Noted
    <3>2. CASE \E v \in tries[i][n].by : Doing(qTick[v], i)
      <4>1. PICK v \in tries[i][n].by : Doing(qTick[v], i)
        BY <3>2
      <4>2. v \in QWorkers /\ tries[i][n].by = {v} /\ qTick[v].left = tries[i][n].left
        BY <2>1, <4>1 DEF TryIsKept
      <4>3. CASE v \in W
        <5>1. i \in Lines
          BY <1>0, <4>1, <4>2 DEF Doing, ShapesAreKept, TickShape
        <5>2. tries'[i][n].by = {}
          BY <2>2, <4>2, <4>3
        <5>3. tries[i][n].left \/ papers' # papers \/ qEnded'
          BY <4>1, <4>2, <4>3
        <5>4. papers' # papers => tries[i][n].ant < papers'
          BY <1>0, <2>3
        <5> QED BY <5>1, <5>2, <5>3, <5>4
      <4>4. CASE v \notin W
        BY <1>2, <2>2, <4>1, <4>2, <4>4
      <4> QED BY <4>3, <4>4
    <3>3. CASE i \in Lines /\ tries[i][n].by = {} /\ (tries[i][n].left \/ tries[i][n].ant < papers \/ qEnded)
      <4>1. tries'[i][n].by = {}
        BY <2>2, <3>3
      <4>2. tries[i][n].left \/ tries[i][n].ant < papers' \/ qEnded'
        BY <1>0, <2>3, <3>3
      <4> QED BY <3>3, <4>1, <4>2
    <3> QED BY <2>1, <3>1, <3>2, <3>3 DEF TryIsKept
  <2> QED BY <2>2, <2>3, <2>4, <2>5 DEF TryIsKept, Noted, Doing
<1>8. DueIsNew' /\ TriedOncePerLife'
  <2>1. \A v \in QWorkers, i \in Items : Due(qTick'[v], i) =>
           Due(qTick[v], i) /\ qTick'[v].ant = qTick[v].ant /\ (qTick[v].left => qTick'[v].left)
    BY <1>1, <1>2 DEF Due
  <2>2. \A i \in Items : DOMAIN tries'[i] = DOMAIN tries[i] /\ \A n \in DOMAIN tries[i] :
           /\ tries'[i][n].ant = tries[i][n].ant /\ tries'[i][n].by = tries[i][n].by \ W
           /\ tries[i][n].left => tries'[i][n].left
    BY <1>3
  <2> QED BY <2>1, <2>2, MarkStep, Zenon
<1> QED BY <1>4, <1>5, <1>6, <1>7, <1>8 DEF QueuesAreNoted

\* What each step of the queues does keeps what is known of the tries.
LEMMA QueuesAct == QueuesAreNoted /\ QueuesStep => QueuesAreNoted'
<1> SUFFICES ASSUME QueuesAreNoted, QueuesStep PROVE QueuesAreNoted'
  OBVIOUS
<1>1. ASSUME UNCHANGED <<qMemory, qTick, qLife, tries>> PROVE QueuesAreNoted'
  <2>1. UNCHANGED <<qSeen, qSeenIds, qTick, papers, qEnded, tries>>
    BY <1>1 DEF qMemory, qLife
  <2> QED BY <2>1 DEF QueuesAreNoted, QueueTypes, OneRuns, ShapesAreKept, NotedFirst, TriesAreKept, TryIsKept, Noted,
                     DueIsNew, IsNew, TriedOncePerLife
<1>2. ASSUME NEW i \in Items, Arrive(i) \/ GrowStale(i) PROVE QueuesAreNoted'
  BY <1>1, <1>2, Zenon DEF Arrive, GrowStale
<1>3. ASSUME NEW w \in QWorkers, TickStep(w) PROVE QueuesAreNoted'
  <2>1. ASSUME NEW s \in QSymbols, CloseSymbol(w, s) PROVE QueuesAreNoted'
    BY <1>1, <2>1, Zenon DEF CloseSymbol
  <2>2. CASE TickFails(w) \/ EndTick(w)
    <3>1. /\ Goes(w, NoTick) /\ MarkOver({w}) /\ UNCHANGED <<papers, qSeen, qSeenIds>>
          /\ \/ qTick[w].phase # "none" /\ qEnded' = (qEnded \/ ~ qTick[w].left)
             \/ qTick[w].hand = {} /\ qEnded' = qEnded
      BY <2>2, Zenon DEF TickFails, EndTick, qMemory, qLife
    <3>2. qTick' = [v \in QWorkers |-> IF v \in {w} THEN NoTick ELSE qTick[v]]
      <4>1. qTick' = [qTick EXCEPT ![w] = NoTick] /\ qTick \in [QWorkers -> Ticks]
        BY <3>1, Zenon DEF Goes, QueuesAreNoted, QueueTypes
      <4> QED BY <4>1
    <3>3. qSeen' \in [Papers -> SUBSET Items] /\ papers' \in Papers /\ papers \in Nat /\ qEnded' \in BOOLEAN
      <4>1. qSeen' \in [Papers -> SUBSET Items] /\ papers' \in Papers /\ papers \in Nat /\ qEnded \in BOOLEAN
        BY <3>1, QueueAssumption DEF QueuesAreNoted, QueueTypes, Papers
      <4> QED BY <3>1, <4>1, Zenon
    <3>4. ASSUME NEW v \in QWorkers, v \notin {w}, qTick[v].phase # "none", ~ qTick[v].left PROVE ~ qEnded'
      <4>1. ~ qEnded /\ (qTick[w].phase = "none" \/ qTick[w].left)
        BY <3>4 DEF QueuesAreNoted, OneRuns
      <4> QED BY <3>1, <4>1
    <3>5. qTick[w].left \/ qEnded' \/ \A i \in Items : ~ Doing(qTick[w], i)
      BY <2>2, <3>1 DEF Doing
    <3>6. papers <= papers' /\ papers' = papers
      BY <3>1, <3>3
    <3> QED BY <3>1, <3>2, <3>3, <3>4, <3>5, <3>6, TicksEnd
  <2> QED BY <1>3, <2>1, <2>2, QuietActs, TryActs, TickBegins, TickIsLeft DEF TickStep
<1>4. CASE PaperRestart
  <2>1. /\ papers < MaxPapers /\ papers' = papers + 1 /\ qEnded' = FALSE /\ UNCHANGED qSeenIds
        /\ (OnlyLeft /\ UNCHANGED <<qTick, tries>>) \/ (qTick' = [w \in QWorkers |-> NoTick] /\ MarkOver(QWorkers))
        /\ qSeen' = [qSeen EXCEPT ![papers + 1] = {i \in Accepted : age[i] = "stale"}]
    BY <1>4, Zenon DEF PaperRestart
  <2>2. papers \in Nat /\ papers' \in Papers /\ papers <= papers' /\ papers' # papers
    BY <2>1, QueueAssumption DEF QueuesAreNoted, QueueTypes, Papers
  <2>3. qSeen' \in [Papers -> SUBSET Items] /\ \A p \in Papers : p <= papers => qSeen'[p] = qSeen[p]
    <3>1. {i \in Accepted : age[i] = "stale"} \subseteq Items
      BY DEF Items
    <3>2. \A p \in Papers : p <= papers => p # papers + 1
      BY <2>2 DEF Papers
    <3> QED BY <2>1, <3>1, <3>2 DEF QueuesAreNoted, QueueTypes
  <2>4. CASE OnlyLeft /\ UNCHANGED <<qTick, tries>>
    <3>1. qTick' = [v \in QWorkers |-> IF v \in {} THEN NoTick ELSE qTick[v]]
      BY <2>4 DEF QueuesAreNoted, QueueTypes
    <3>2. MarkOver({})
      <4>1. tries \in [Items -> Seq(Tries)] /\ \A i \in Items : tries[i] \in Seq(Tries)
        BY DEF QueuesAreNoted, QueueTypes
      <4> DEFINE Same(i) == [n \in DOMAIN tries[i] |-> [tries[i][n] EXCEPT !.by = @ \ {}]]
      <4>2. ASSUME NEW i \in Items PROVE tries[i] = Same(i)
        <5>1. \A n \in DOMAIN tries[i] : tries[i][n] \in Tries
          BY <4>1
        <5>2. \A e \in Tries : [e EXCEPT !.by = e.by \ {}] = e
          BY DEF Tries
        <5>3. tries[i] = [n \in DOMAIN tries[i] |-> tries[i][n]]
          BY <4>1
        <5> QED BY <5>1, <5>2, <5>3
      <4>3. tries' = [i \in Items |-> Same(i)]
        <5>1. tries' = tries /\ tries = [i \in Items |-> tries[i]]
          BY <2>4, <4>1
        <5> HIDE DEF Same
        <5> QED BY <4>2, <5>1, Zenon
      <4> QED BY <4>3, Zenon DEF MarkOver
    <3>3. \A v \in QWorkers : qTick[v].phase = "none" \/ qTick[v].left
      BY <2>4 DEF OnlyLeft
    <3> QED BY <2>1, <2>2, <2>3, <3>1, <3>2, <3>3, TicksEnd
  <2>5. CASE qTick' = [w \in QWorkers |-> NoTick] /\ MarkOver(QWorkers)
    <3>1. qTick' = [v \in QWorkers |-> IF v \in QWorkers THEN NoTick ELSE qTick[v]]
      BY <2>5
    <3> QED BY <2>1, <2>2, <2>3, <2>5, <3>1, TicksEnd
  <2> QED BY <2>1, <2>4, <2>5
<1> QED BY <1>2, <1>3, <1>4 DEF QueuesStep

\* And whatever the rest of the colony does.
LEMMA QueuesStayNoted == QueuesAreNoted /\ [MillNext]_vars => QueuesAreNoted'
<1>1. ASSUME QueuesAreNoted, UNCHANGED qVars PROVE QueuesAreNoted'
  <2>1. UNCHANGED <<qSeen, qSeenIds, qTick, papers, qEnded, tries>>
    BY <1>1 DEF qVars, qMemory, qLife
  <2> QED BY <1>1, <2>1 DEF QueuesAreNoted, QueueTypes, OneRuns, ShapesAreKept, NotedFirst, TriesAreKept, TryIsKept,
                          Noted, DueIsNew, IsNew, TriedOncePerLife
<1> QED BY <1>1, QueuesFrame, QueuesAct

\* The kill-zone ant writes a line a window, and the paper ant tries an item, once in a life,
\* and again only where a tick that had it was left behind
\* (_emitted of KillZoneAnt; _processed_signals, _seen_research_ids, _seen_approved_ids).
THEOREM DoneOnceInALife == MillSpec => []DoneOncePerLife
<1>1. WindowsAreKept /\ QueuesAreNoted => DoneOncePerLife
  BY DEF WindowsAreKept, QueuesAreNoted, DoneOncePerLife
<1> QED BY KillZoneInitHolds, KillZoneStaysOnce, QueuesInitHolds, QueuesStayNoted, <1>1, PTL DEF MillSpec
================================================================================
