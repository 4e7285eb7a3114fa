--------------------------- MODULE ColonyDay_proofs ---------------------------
(* Theorems about parts of ColonyDay: what a reset keeps, which signals of the    *)
(* scout are new, how positions of the loop end, what a backtest trades and what  *)
(* a start of the colony comes to.                                                *)
EXTENDS ColonyDay, QueenMissions_proofs

--------------------------------------------------------------------------------
(* Functions of the numbers up to n that are defined by their values before.   *)

LEMMA InductionUpTo ==
  ASSUME NEW n \in Nat, NEW P, 0 \in P, \A k \in 1 .. n : k - 1 \in P => k \in P
  PROVE  0 .. n \subseteq P
<1> DEFINE Never == {k \in 0 .. n : k \notin P}
<1> SUFFICES ASSUME Never # {} PROVE FALSE
  OBVIOUS
<1>1. PICK k \in Never : \A l \in Never : k <= l
  <2>1. Never \subseteq Nat
    OBVIOUS
  <2>2. QED
    BY <2>1, LeastNat
<1>2. k \in 1 .. n /\ k - 1 \in 0 .. n
  BY <1>1
<1>3. k - 1 \notin Never
  BY <1>1, <1>2
<1>4. QED
  BY <1>2, <1>3

\* Each value comes of the number and the value before.
Recurs(f, n, V, first, next) ==
  f \in [0 .. n -> V] /\ f[0] = first /\ \A k \in 1 .. n : f[k] = next[<<k, f[k - 1]>>]

LEMMA RecursionUpTo ==
  ASSUME NEW n \in Nat, NEW V, NEW first \in V, NEW next,
         \A k \in 1 .. n, v \in V : next[<<k, v>>] \in V
  PROVE  \E f : Recurs(f, n, V, first, next)
<1> DEFINE Up(f, m) == f[0] = first /\ \A k \in 1 .. m : f[k] = next[<<k, f[k - 1]>>]
           P == {m \in 0 .. n : \E f \in [0 .. m -> V] : Up(f, m)}
<1>1. 0 \in P
  <2>1. [k \in 0 .. 0 |-> first] \in [0 .. 0 -> V] /\ Up([k \in 0 .. 0 |-> first], 0)
    OBVIOUS
  <2>2. \E f \in [0 .. 0 -> V] : Up(f, 0)
    BY <2>1, Zenon
  <2> HIDE DEF Up
  <2>3. QED
    BY <2>2
<1>2. ASSUME NEW m \in 1 .. n, m - 1 \in P PROVE m \in P
  <2>1. PICK f \in [0 .. m - 1 -> V] : Up(f, m - 1)
    BY <1>2, Zenon
  <2> DEFINE g == [k \in 0 .. m |-> IF k = m THEN next[<<m, f[m - 1]>>] ELSE f[k]]
  <2>2. g \in [0 .. m -> V]
    BY <2>1
  <2>3. g[0] = first
    BY <2>1
  <2>4. ASSUME NEW k \in 1 .. m PROVE g[k] = next[<<k, g[k - 1]>>]
    <3>1. k - 1 \in 0 .. m - 1 /\ g[k - 1] = f[k - 1]
      OBVIOUS
    <3>2. CASE k = m
      <4>1. g[m] = next[<<m, f[m - 1]>>]
        OBVIOUS
      <4>2. QED
        BY <3>1, <3>2, <4>1, Zenon
    <3>3. CASE k # m
      <4>1. k \in 1 .. m - 1 /\ g[k] = f[k]
        BY <3>3
      <4>2. QED
        BY <2>1, <3>1, <4>1
    <3>4. QED
      BY <3>2, <3>3
  <2> HIDE DEF g
  <2>5. QED
    BY <2>2, <2>3, <2>4
<1>3. 0 .. n \subseteq P
  <2> HIDE DEF P
  <2>1. QED
    BY <1>1, <1>2, InductionUpTo
<1>4. n \in P
  BY <1>3
<1>5. QED
  BY <1>4 DEF Recurs

--------------------------------------------------------------------------------
(* The scripts that put logs away.                                             *)

\* While the script is between its read and its write, what it read holds all of the
\* log but the lines appended since; before it writes the log the old lines are in an
\* archive, with a manifest or without; and the log has what was restored since.
PoolInv ==
  /\ \A l \in written \ raced : l \in pool \/ l \in loose \/ \E archive \in archives : l \in archive
  /\ \A archive \in restored : archive \subseteq pool
  /\ loose \subseteq OldLines
  /\ poolStep \in {"read", "archived"} => pool \ raced \subseteq copied
  /\ poolStep \in {"archived", "written"} => copied \cap OldLines \subseteq loose

LEMMA PoolStarts ==
  ASSUME ResetInit
  PROVE  PoolInv
BY DEF ResetInit, PoolInv

LEMMA PoolStepKept ==
  ASSUME PoolInv, PoolStep
  PROVE  PoolInv'
<1> USE DEF PoolInv
<1>1. ASSUME NEW l \in PoolLines, AppendLine(l) PROVE PoolInv'
  BY <1>1 DEF AppendLine
<1>2. CASE ReadPool
  BY <1>2 DEF ReadPool
<1>3. CASE WriteArchive
  BY <1>3 DEF WriteArchive
<1>4. CASE WriteCurrent
  <2>1. /\ pool' = copied \ OldLines /\ restored' = {} /\ poolStep = "archived" /\ poolStep' = "written"
        /\ UNCHANGED <<archives, loose, copied, written, raced>>
    BY <1>4 DEF WriteCurrent
  <2>2. pool \ raced \subseteq copied /\ copied \cap OldLines \subseteq loose
    BY <2>1
  <2>3. ASSUME NEW l \in written \ raced
        PROVE  l \in pool' \/ l \in loose \/ \E archive \in archives : l \in archive
    BY <2>1, <2>2
  <2>4. QED
    BY <2>1, <2>2, <2>3
<1>5. CASE WriteManifest
  <2>1. /\ archives' = archives \cup {copied \cap OldLines} /\ loose' = loose \ copied
        /\ poolStep = "written" /\ poolStep' = "idle"
        /\ UNCHANGED <<pool, restored, written, raced>>
    BY <1>5 DEF WriteManifest
  <2>2. ASSUME NEW l \in written \ raced
        PROVE  l \in pool \/ l \in loose' \/ \E archive \in archives' : l \in archive
    <3>1. l \in loose /\ l \notin loose' => l \in copied \cap OldLines
      BY <2>1
    <3>2. QED
      BY <2>1, <3>1
  <2>3. QED
    BY <2>1, <2>2
<1>6. CASE PoolScriptDies
  BY <1>6 DEF PoolScriptDies
<1>7. CASE Restore
  <2>1. PICK archive \in archives : \E lines \in SUBSET archive :
          /\ pool' = pool \cup lines
          /\ restored' = IF archive \subseteq pool' THEN restored \cup {archive} ELSE restored
    BY <1>7 DEF Restore
  <2>2. /\ poolStep = "idle" /\ UNCHANGED <<archives, loose, copied, poolStep, written, raced>>
    BY <1>7 DEF Restore
  <2>3. \A one \in restored' : one \subseteq pool'
    BY <2>1
  <2>4. QED
    BY <2>1, <2>2, <2>3
<1>8. QED
  BY <1>1, <1>2, <1>3, <1>4, <1>5, <1>6, <1>7 DEF PoolStep

LEMMA PoolInvSuffices ==
  ASSUME PoolInv
  PROVE  PoolIsKept
<1>1. ASSUME NEW l \in written \ raced
      PROVE  /\ l \in pool \cup loose \cup (UNION archives)
             /\ archives \subseteq restored => l \in pool \cup loose
  <2>1. l \in pool \/ l \in loose \/ \E archive \in archives : l \in archive
    BY DEF PoolInv
  <2>2. CASE \E archive \in archives : l \in archive
    <3>1. PICK archive \in archives : l \in archive
      BY <2>2
    <3>2. archives \subseteq restored => archive \subseteq pool
      BY DEF PoolInv
    <3>3. QED
      BY <3>1, <3>2
  <2>3. CASE l \in pool \/ l \in loose
    BY <2>3, Zenon
  <2>4. QED
    BY <2>1, <2>2, <2>3, Zenon
<1>2. written \ raced \subseteq pool \cup loose \cup (UNION archives)
  BY <1>1
<1>3. archives \subseteq restored => written \ (raced \cup loose) \subseteq pool
  BY <1>1
<1>4. QED
  BY <1>2, <1>3 DEF PoolIsKept

Entries == {"opened", "closed"} \X Trades

PaperFilesTypeOK ==
  /\ antUp \in BOOLEAN /\ antLife \in AntFiles /\ holds \subseteq Trades /\ closing \subseteq Trades
  /\ papers \in [AntFiles -> SUBSET Entries]
  /\ toMove \subseteq AntFiles /\ quiet \in BOOLEAN /\ emptied \in BOOLEAN
  /\ closings \in [Trades -> Nat] /\ unwritten \in [Trades -> Nat]
  /\ halfway \in BOOLEAN /\ aborted \in BOOLEAN

Says(f, event, t) == <<event, t>> \in papers[f]

\* What an ant that runs may be writing of: one position, booked as closed.
ClosingInv ==
  /\ quiet => ~antUp
  /\ closing # {} => antUp
  /\ \A t \in closing : closings[t] > 0 /\ closing = {t}

\* What was closed with its line says so somewhere, unless the file that says it was opened
\* is about to be moved; and of a position the file that closes it is not moved before the
\* one that opened it is listed, so that no reset which comes to its end leaves the one
\* without the other.
FilesTell ==
  ~halfway /\ ~aborted =>
    \A t \in Trades, f \in AntFiles : Says(f, "opened", t) =>
      /\ closings[t] > unwritten[t] =>
           t \in closing \/ f \in toMove \/ \E g \in AntFiles : Says(g, "closed", t)
      /\ \A g \in toMove : Says(g, "closed", t) => f \in toMove \cup {g}
      /\ t \in holds \cup closing /\ antLife \in toMove => f \in toMove \cup {antLife}

PaperFilesInv ==
  /\ \A f \in AntFiles, t \in Trades : Says(f, "closed", t) => closings[t] > 0
  /\ ClosingInv
  /\ quiet /\ toMove # {} => \A f \in AntFiles \ toMove : papers[f] = {}
  /\ emptied => \A f \in AntFiles : papers[f] = {}
  /\ ~halfway => \A t \in Trades : /\ closings[t] <= 1 + unwritten[t]
                                   /\ t \in holds => closings[t] <= unwritten[t]
  /\ FilesTell

LEMMA PaperFilesStart ==
  ASSUME ResetInit
  PROVE  PaperFilesTypeOK /\ PaperFilesInv
<1>1. 1 \in AntFiles
  BY ResetAssumption DEF AntFiles
<1>2. PaperFilesTypeOK
  BY <1>1 DEF ResetInit, PaperFilesTypeOK
<1>3. QED
  BY <1>2 DEF ResetInit, PaperFilesInv, FilesTell, ClosingInv, Says

LEMMA EntriesDiffer ==
  ASSUME NEW s, NEW t
  PROVE  /\ <<"opened", s>> # <<"closed", t>>
         /\ <<"opened", s>> = <<"opened", t>> <=> s = t
         /\ <<"closed", s>> = <<"closed", t>> <=> s = t
<1>1. "opened" # "closed"
  OBVIOUS
<1>2. QED
  BY <1>1

\* What a line adds to what the files say.
LEMMA WhatIsSaid ==
  ASSUME PaperFilesTypeOK, NEW t \in Trades, NEW e \in {"opened", "closed"}, Writes(e, t)
  PROVE  /\ papers' \in [AntFiles -> SUBSET Entries]
         /\ \A f \in AntFiles, s \in Trades, o \in {"opened", "closed"} :
              Says(f, o, s)' <=> Says(f, o, s) \/ (f = antLife /\ s = t /\ o = e)
<1>1. papers \in [AntFiles -> SUBSET Entries] /\ papers' = [papers EXCEPT ![antLife] = @ \cup {<<e, t>>}]
  BY DEF Writes, PaperFilesTypeOK
<1>2. <<e, t>> \in Entries
  BY DEF Entries
<1>3. papers' \in [AntFiles -> SUBSET Entries]
  BY <1>1, <1>2
<1>4. \A f \in AntFiles : papers'[f] = IF f = antLife THEN papers[f] \cup {<<e, t>>} ELSE papers[f]
  BY <1>1
<1>5. ASSUME NEW f \in AntFiles, NEW s \in Trades, NEW o \in {"opened", "closed"}
      PROVE  Says(f, o, s)' <=> Says(f, o, s) \/ (f = antLife /\ s = t /\ o = e)
  <2>1. <<o, s>> = <<e, t>> <=> o = e /\ s = t
    OBVIOUS
  <2>2. papers'[f] = IF f = antLife THEN papers[f] \cup {<<e, t>>} ELSE papers[f]
    BY <1>4
  <2>3. CASE f = antLife
    BY <2>1, <2>2, <2>3 DEF Says
  <2>4. CASE f # antLife
    BY <2>2, <2>4 DEF Says
  <2>5. QED
    BY <2>3, <2>4
<1>6. QED
  BY <1>3, <1>5

LEMMA OpensKeeps ==
  ASSUME PaperFilesTypeOK, PaperFilesInv, NEW t \in Trades, Opens(t)
  PROVE  PaperFilesTypeOK' /\ PaperFilesInv'
<1>1. /\ antUp /\ closing = {} /\ closings[t] = 0 /\ holds' = holds \cup {t} /\ antLife \in AntFiles
      /\ UNCHANGED <<antUp, antLife, closing, toMove, quiet, aborted, closings, unwritten, halfway>>
  BY DEF Opens, scriptVars, PaperFilesTypeOK
<1>2. ~quiet /\ unwritten[t] \in Nat
  BY <1>1 DEF PaperFilesInv, FilesTell, ClosingInv, PaperFilesTypeOK
<1>3. /\ papers' \in [AntFiles -> SUBSET Entries] /\ emptied' \in BOOLEAN
      /\ emptied' => emptied /\ papers' = papers
      /\ \A f \in AntFiles, s \in Trades : Says(f, "closed", s)' <=> Says(f, "closed", s)
      /\ \A f \in AntFiles, s \in Trades : Says(f, "opened", s)' => Says(f, "opened", s) \/ (f = antLife /\ s = t)
  <2>1. CASE Writes("opened", t)
    <3>1. "opened" # "closed"
      OBVIOUS
    <3>2. QED
      BY <2>1, <3>1, WhatIsSaid DEF Writes
  <2>2. CASE UNCHANGED <<papers, emptied>>
    BY <2>2 DEF PaperFilesTypeOK, Says
  <2>3. QED
    BY <2>1, <2>2 DEF Opens
<1>4. PaperFilesTypeOK'
  BY <1>1, <1>3 DEF PaperFilesTypeOK
<1>5. \A f \in AntFiles : ~Says(f, "closed", t) /\ ~Says(f, "opened", t)
  BY <1>1 DEF Opens, PaperFilesInv, FilesTell, Says
<1>6. ~halfway => \A s \in Trades : /\ closings'[s] <= 1 + unwritten'[s]
                                    /\ s \in holds' => closings'[s] <= unwritten'[s]
  BY <1>1, <1>2 DEF PaperFilesInv, FilesTell
<1>7. ASSUME ~halfway, ~aborted, NEW s \in Trades, NEW f \in AntFiles, Says(f, "opened", s)'
      PROVE  /\ closings'[s] > unwritten'[s] =>
                  s \in closing' \/ f \in toMove' \/ \E g \in AntFiles : Says(g, "closed", s)'
             /\ \A g \in toMove' : Says(g, "closed", s)' => f \in toMove' \cup {g}
             /\ s \in (holds \cup closing)' /\ antLife' \in toMove' => f \in toMove' \cup {antLife'}
  <2>1. toMove \subseteq AntFiles
    BY DEF PaperFilesTypeOK
  <2>2. CASE s = t
    <3>1. f = antLife
      BY <1>3, <1>5, <1>7, <2>2
    <3>2. ~(closings'[s] > unwritten'[s])
      BY <1>1, <1>2, <2>2
    <3>3. \A g \in toMove : ~Says(g, "closed", s)'
      BY <1>3, <1>5, <2>1, <2>2
    <3>4. QED
      BY <1>1, <3>1, <3>2, <3>3
  <2>3. CASE s # t
    BY <1>1, <1>3, <1>7, <2>1, <2>3 DEF PaperFilesInv, FilesTell
  <2>4. QED
    BY <2>2, <2>3
<1>8. ClosingInv'
  BY <1>1, <1>2 DEF ClosingInv
<1>9. QED
  BY <1>1, <1>2, <1>3, <1>4, <1>6, <1>7, <1>8 DEF PaperFilesInv, FilesTell

LEMMA ClosesKeeps ==
  ASSUME PaperFilesTypeOK, PaperFilesInv, NEW t \in Trades, Closes(t)
  PROVE  PaperFilesTypeOK' /\ PaperFilesInv'
<1>1. /\ antUp /\ closing = {} /\ t \in holds /\ holds' = holds \ {t} /\ closing' = {t}
      /\ UNCHANGED <<antUp, antLife, papers, emptied, toMove, quiet, aborted, unwritten, halfway>>
  BY DEF Closes, scriptVars
<1>2. \A f \in AntFiles, s \in Trades, e \in {"opened", "closed"} : Says(f, e, s)' <=> Says(f, e, s)
  BY <1>1 DEF Says
<1>3. /\ closings'[t] = closings[t] + 1 /\ closings[t] \in Nat /\ unwritten[t] \in Nat
      /\ closings' \in [Trades -> Nat] /\ \A s \in Trades \ {t} : closings'[s] = closings[s]
  BY DEF Closes, PaperFilesTypeOK
<1>4. PaperFilesTypeOK'
  BY <1>1, <1>3 DEF PaperFilesTypeOK
<1>5. \A f \in AntFiles, s \in Trades : Says(f, "closed", s)' => closings'[s] > 0
  BY <1>2, <1>3 DEF PaperFilesInv, FilesTell
<1>6. ClosingInv'
  BY <1>1, <1>3 DEF PaperFilesInv, FilesTell, ClosingInv
<1>7. ~halfway => \A s \in Trades : /\ closings'[s] <= 1 + unwritten'[s]
                                    /\ s \in holds' => closings'[s] <= unwritten'[s]
  BY <1>1, <1>3 DEF PaperFilesInv, FilesTell
<1>8. ASSUME ~halfway', ~aborted', NEW s \in Trades, NEW f \in AntFiles, Says(f, "opened", s)'
      PROVE  /\ closings'[s] > unwritten'[s] =>
                  s \in closing' \/ f \in toMove' \/ \E g \in AntFiles : Says(g, "closed", s)'
             /\ \A g \in toMove' : Says(g, "closed", s)' => f \in toMove' \cup {g}
             /\ s \in (holds \cup closing)' /\ antLife' \in toMove' => f \in toMove' \cup {antLife'}
  <2>1. toMove \subseteq AntFiles /\ Says(f, "opened", s) /\ ~halfway /\ ~aborted
    BY <1>1, <1>2, <1>8 DEF PaperFilesTypeOK
  <2>2. QED
    BY <1>1, <1>2, <1>3, <2>1 DEF PaperFilesInv, FilesTell
<1>9. FilesTell'
  BY <1>8 DEF FilesTell
<1>10. QED
  BY <1>1, <1>4, <1>5, <1>6, <1>7, <1>9 DEF PaperFilesInv

LEMMA WritesClosedKeeps ==
  ASSUME PaperFilesTypeOK, PaperFilesInv, NEW t \in Trades, WritesClosed(t)
  PROVE  PaperFilesTypeOK' /\ PaperFilesInv'
<1>1. /\ closing = {t} /\ closing' = {} /\ closings[t] > 0 /\ antLife \in AntFiles
      /\ UNCHANGED <<antUp, antLife, holds, toMove, quiet, aborted, closings, halfway>>
  BY DEF WritesClosed, scriptVars, PaperFilesInv, FilesTell, ClosingInv, PaperFilesTypeOK
<1>2. ~quiet /\ closings[t] \in Nat /\ unwritten[t] \in Nat
  BY <1>1 DEF PaperFilesInv, FilesTell, ClosingInv, PaperFilesTypeOK
<1>3. CASE Writes("closed", t) /\ UNCHANGED unwritten
  <2>1. "opened" # "closed"
    OBVIOUS
  <2>2. /\ papers' \in [AntFiles -> SUBSET Entries] /\ emptied' = FALSE
        /\ \A f \in AntFiles, s \in Trades : Says(f, "opened", s)' <=> Says(f, "opened", s)
        /\ \A f \in AntFiles, s \in Trades :
             Says(f, "closed", s)' <=> Says(f, "closed", s) \/ (f = antLife /\ s = t)
    BY <1>3, <2>1, WhatIsSaid DEF Writes
  <2>3. PaperFilesTypeOK'
    BY <1>1, <1>3, <2>2 DEF PaperFilesTypeOK
  <2>4. ASSUME ~halfway, ~aborted, NEW s \in Trades, NEW f \in AntFiles, Says(f, "opened", s)
        PROVE  /\ closings[s] > unwritten[s] =>
                    f \in toMove \/ \E g \in AntFiles : Says(g, "closed", s)'
               /\ \A g \in toMove : Says(g, "closed", s)' => f \in toMove \cup {g}
               /\ s \in holds /\ antLife \in toMove => f \in toMove \cup {antLife}
    <3>1. toMove \subseteq AntFiles
      BY DEF PaperFilesTypeOK
    <3>2. CASE s = t
      <4>1. Says(antLife, "closed", s)'
        BY <1>1, <2>2, <3>2
      <4>2. s \in holds \cup closing
        BY <1>1, <3>2
      <4>3. QED
        BY <1>1, <2>2, <2>4, <3>1, <3>2, <4>1, <4>2 DEF PaperFilesInv, FilesTell
    <3>3. CASE s # t
      BY <1>1, <2>2, <2>4, <3>1, <3>3 DEF PaperFilesInv, FilesTell
    <3>4. QED
      BY <3>2, <3>3
  <2>5. \A f \in AntFiles, s \in Trades : Says(f, "closed", s)' => closings'[s] > 0
    BY <1>1, <2>2 DEF PaperFilesInv, FilesTell
  <2>6. ClosingInv'
    BY <1>1, <1>2 DEF ClosingInv
  <2>7. FilesTell'
    BY <1>1, <1>3, <2>2, <2>4 DEF FilesTell
  <2>8. QED
    BY <1>1, <1>2, <1>3, <2>2, <2>3, <2>5, <2>6, <2>7 DEF PaperFilesInv
<1>4. CASE unwritten' = [unwritten EXCEPT ![t] = @ + 1] /\ UNCHANGED <<papers, emptied>>
  <2>1. /\ unwritten' \in [Trades -> Nat] /\ unwritten'[t] = unwritten[t] + 1
        /\ \A s \in Trades \ {t} : unwritten'[s] = unwritten[s]
    BY <1>4 DEF PaperFilesTypeOK
  <2>2. \A f \in AntFiles, s \in Trades, e \in {"opened", "closed"} : Says(f, e, s)' <=> Says(f, e, s)
    BY <1>4 DEF Says
  <2>3. PaperFilesTypeOK'
    BY <1>1, <1>4, <2>1 DEF PaperFilesTypeOK
  <2>4. ~halfway => \A s \in Trades : /\ closings[s] <= 1 + unwritten'[s]
                                      /\ s \in holds => closings[s] <= unwritten'[s]
    BY <1>2, <2>1 DEF PaperFilesInv, FilesTell
  <2>5. ASSUME ~halfway', ~aborted', NEW s \in Trades, NEW f \in AntFiles, Says(f, "opened", s)'
        PROVE  /\ closings'[s] > unwritten'[s] =>
                    s \in closing' \/ f \in toMove' \/ \E g \in AntFiles : Says(g, "closed", s)'
               /\ \A g \in toMove' : Says(g, "closed", s)' => f \in toMove' \cup {g}
               /\ s \in (holds \cup closing)' /\ antLife' \in toMove' => f \in toMove' \cup {antLife'}
    <3>1. toMove \subseteq AntFiles /\ Says(f, "opened", s) /\ ~halfway /\ ~aborted
      BY <1>1, <2>2, <2>5 DEF PaperFilesTypeOK
    <3>2. s = t => ~(closings[s] > unwritten'[s])
      BY <1>2, <2>1, <3>1 DEF PaperFilesInv
    <3>3. QED
      BY <1>1, <2>1, <2>2, <3>1, <3>2 DEF PaperFilesInv, FilesTell
  <2>6. ClosingInv'
    BY <1>1, <1>2 DEF ClosingInv
  <2>7. FilesTell'
    BY <2>5 DEF FilesTell
  <2>8. \A f \in AntFiles, s \in Trades : Says(f, "closed", s)' => closings'[s] > 0
    BY <1>1, <2>2 DEF PaperFilesInv, FilesTell
  <2>9. QED
    BY <1>1, <1>2, <1>4, <2>3, <2>4, <2>6, <2>7, <2>8 DEF PaperFilesInv
<1>5. QED
  BY <1>3, <1>4 DEF WritesClosed

LEMMA AntDiesKeeps ==
  ASSUME PaperFilesTypeOK, PaperFilesInv, AntDies
  PROVE  PaperFilesTypeOK' /\ PaperFilesInv'
<1>1. /\ antUp /\ antUp' = FALSE /\ holds' = {} /\ closing' = {}
      /\ UNCHANGED <<antLife, papers, emptied, toMove, quiet, aborted, closings, halfway>>
  BY DEF AntDies, scriptVars
<1>2. /\ unwritten' \in [Trades -> Nat]
      /\ \A t \in Trades : unwritten'[t] = IF t \in closing THEN unwritten[t] + 1 ELSE unwritten[t]
  BY DEF AntDies, PaperFilesTypeOK
<1>3. \A t \in Trades : closings[t] \in Nat /\ unwritten[t] \in Nat
  BY DEF PaperFilesTypeOK
<1>4. PaperFilesTypeOK'
  BY <1>1, <1>2 DEF PaperFilesTypeOK
<1>5. \A f \in AntFiles, s \in Trades, e \in {"opened", "closed"} : Says(f, e, s)' <=> Says(f, e, s)
  BY <1>1 DEF Says
<1>6. ~halfway => \A t \in Trades : closings[t] <= 1 + unwritten'[t]
  BY <1>2, <1>3 DEF PaperFilesInv, FilesTell
<1>7. ASSUME ~halfway', ~aborted', NEW t \in Trades, NEW f \in AntFiles, Says(f, "opened", t)'
      PROVE  /\ closings'[t] > unwritten'[t] =>
                  t \in closing' \/ f \in toMove' \/ \E g \in AntFiles : Says(g, "closed", t)'
             /\ \A g \in toMove' : Says(g, "closed", t)' => f \in toMove' \cup {g}
             /\ t \in (holds \cup closing)' /\ antLife' \in toMove' => f \in toMove' \cup {antLife'}
  <2>1. toMove \subseteq AntFiles /\ Says(f, "opened", t) /\ ~halfway /\ ~aborted
    BY <1>1, <1>5, <1>7 DEF PaperFilesTypeOK
  <2>2. t \in closing => ~(closings[t] > unwritten'[t])
    BY <1>2, <1>3, <2>1 DEF PaperFilesInv
  <2>3. QED
    BY <1>1, <1>2, <1>5, <2>1, <2>2 DEF PaperFilesInv, FilesTell
<1>8. ClosingInv' /\ ~quiet
  BY <1>1 DEF PaperFilesInv, FilesTell, ClosingInv
<1>9. FilesTell'
  BY <1>7 DEF FilesTell
<1>10. \A f \in AntFiles, s \in Trades : Says(f, "closed", s)' => closings'[s] > 0
  BY <1>1, <1>5 DEF PaperFilesInv, FilesTell
<1>11. QED
  BY <1>1, <1>4, <1>6, <1>8, <1>9, <1>10 DEF PaperFilesInv

LEMMA AntIsMadeKeeps ==
  ASSUME PaperFilesTypeOK, PaperFilesInv, AntIsMade
  PROVE  PaperFilesTypeOK' /\ PaperFilesInv'
<1>1. PICK unread \in SUBSET {f \in AntFiles : papers[f] # {}} :
        /\ holds' = Recovered(AntFiles \ unread)
        /\ halfway' = (halfway \/ aborted \/ toMove # {} \/ unread # {})
  BY DEF AntIsMade
<1>2. /\ ~antUp /\ antUp' = TRUE /\ antLife < MaxAnts /\ antLife' = antLife + 1 /\ ~quiet' /\ quiet' \in BOOLEAN
      /\ UNCHANGED <<closing, papers, toMove, emptied, closings, unwritten, aborted>>
  BY DEF AntIsMade
<1>3. closing = {}
  BY <1>2 DEF PaperFilesInv, FilesTell, ClosingInv
<1>4. \A f \in AntFiles, s \in Trades, e \in {"opened", "closed"} : Says(f, e, s)' <=> Says(f, e, s)
  BY <1>2 DEF Says
<1>5. PaperFilesTypeOK'
  <2>1. antLife + 1 \in AntFiles
    BY <1>2, ResetAssumption DEF PaperFilesTypeOK, AntFiles
  <2>2. holds' \subseteq Trades /\ halfway' \in BOOLEAN
    BY <1>1 DEF Recovered
  <2>3. QED
    BY <1>2, <2>1, <2>2 DEF PaperFilesTypeOK
<1>6. ASSUME ~halfway'
      PROVE  ~halfway /\ ~aborted /\ toMove = {} /\ holds' = Recovered(AntFiles)
  <2>1. unread = {} /\ ~halfway /\ ~aborted /\ toMove = {}
    BY <1>1, <1>6
  <2>2. AntFiles \ unread = AntFiles
    BY <2>1
  <2>3. QED
    BY <1>1, <2>1, <2>2
<1>7. \A t \in Recovered(AntFiles) :
        /\ t \in Trades /\ \E f \in AntFiles : Says(f, "opened", t)
        /\ \A f \in AntFiles : ~Says(f, "closed", t)
  BY DEF Recovered, Events, Says
<1>8. ~halfway' => \A t \in Trades : t \in holds' => closings[t] <= unwritten[t]
  <2> SUFFICES ASSUME ~halfway', NEW t \in Trades, t \in holds' PROVE closings[t] <= unwritten[t]
    OBVIOUS
  <2>1. ~(closings[t] > unwritten[t])
    BY <1>3, <1>6, <1>7 DEF PaperFilesInv, FilesTell
  <2>2. closings[t] \in Nat /\ unwritten[t] \in Nat
    BY DEF PaperFilesTypeOK
  <2>3. QED
    BY <2>1, <2>2
<1>9. ClosingInv'
  BY <1>2, <1>3 DEF ClosingInv
<1>10. QED
  BY <1>2, <1>3, <1>4, <1>5, <1>6, <1>8, <1>9 DEF PaperFilesInv, FilesTell

LEMMA MoveFileKeeps ==
  ASSUME PaperFilesTypeOK, PaperFilesInv, NEW g \in AntFiles, MoveFile(g)
  PROVE  PaperFilesTypeOK' /\ PaperFilesInv'
<1>1. \A f \in AntFiles : papers'[f] = IF f = g THEN {} ELSE papers[f]
  BY DEF MoveFile, PaperFilesTypeOK
<1>2. \A f \in AntFiles, s \in Trades, e \in {"opened", "closed"} :
        Says(f, e, s)' <=> Says(f, e, s) /\ f # g
  BY <1>1 DEF Says
<1>3. PaperFilesTypeOK'
  BY DEF MoveFile, PaperFilesTypeOK
<1>4. /\ g \in toMove /\ toMove' = toMove \ {g} /\ emptied' = (quiet /\ toMove = {g})
      /\ UNCHANGED <<antUp, antLife, holds, closing, quiet, closings, unwritten, halfway, aborted>>
  BY DEF MoveFile
<1>5. /\ ClosingInv'
      /\ quiet' /\ toMove' # {} => \A f \in AntFiles \ toMove' : papers'[f] = {}
      /\ emptied' => \A f \in AntFiles : papers'[f] = {}
  BY <1>1, <1>4 DEF PaperFilesInv, FilesTell, ClosingInv
<1>6. ~halfway' /\ ~aborted' =>
       \A t \in Trades, f \in AntFiles : Says(f, "opened", t)' =>
         /\ closings'[t] > unwritten'[t] =>
              t \in closing' \/ f \in toMove' \/ \E h \in AntFiles : Says(h, "closed", t)'
         /\ \A h \in toMove' : Says(h, "closed", t)' => f \in toMove' \cup {h}
         /\ t \in (holds \cup closing)' /\ antLife' \in toMove' => f \in toMove' \cup {antLife'}
  BY <1>2, <1>4 DEF PaperFilesInv, FilesTell, PaperFilesTypeOK
<1>7. QED
  BY <1>2, <1>3, <1>4, <1>5, <1>6 DEF PaperFilesInv, FilesTell

LEMMA PaperFilesKept ==
  ASSUME PaperFilesTypeOK, PaperFilesInv, PaperFilesStep
  PROVE  PaperFilesTypeOK' /\ PaperFilesInv'
<1>1. CASE ResetBegins
  <2>1. PaperFilesTypeOK'
    BY <1>1 DEF ResetBegins, ListFiles, PaperFilesTypeOK
  <2>2. \A f \in AntFiles, t \in Trades : Says(f, "opened", t) => f \in toMove'
    BY <1>1 DEF ResetBegins, ListFiles, Says
  <2>3. quiet' => \A f \in AntFiles \ toMove' : papers'[f] = {}
    BY <1>1 DEF ResetBegins, ListFiles
  <2>4. ClosingInv'
    BY <1>1 DEF ResetBegins, PaperFilesInv, FilesTell, ClosingInv, PaperFilesTypeOK
  <2>5. QED
    BY <1>1, <2>1, <2>2, <2>3, <2>4 DEF ResetBegins, PaperFilesInv, FilesTell, PaperFilesTypeOK, Says
<1>2. CASE ResetStops
  BY <1>2 DEF ResetStops, PaperFilesTypeOK, PaperFilesInv, FilesTell, ClosingInv, Says
<1>3. QED
  BY <1>1, <1>2, OpensKeeps, ClosesKeeps, WritesClosedKeeps, AntDiesKeeps, AntIsMadeKeeps, MoveFileKeeps
     DEF PaperFilesStep

ResetInv == PoolInv /\ PaperFilesTypeOK /\ PaperFilesInv

LEMMA ResetInvKept ==
  ASSUME ResetInv, [ResetStep]_resetVars
  PROVE  ResetInv'
<1>1. CASE PaperFilesStep /\ UNCHANGED poolVars
  BY <1>1, PaperFilesKept DEF ResetInv, poolVars, PoolInv
<1>2. CASE PoolStep /\ UNCHANGED paperFileVars
  BY <1>2, PoolStepKept DEF ResetInv, paperFileVars, scriptVars, PaperFilesTypeOK, PaperFilesInv, FilesTell,
                            ClosingInv, Says
<1>3. CASE UNCHANGED resetVars
  <2>1. PoolInv'
    BY <1>3 DEF ResetInv, resetVars, poolVars, PoolInv
  <2>2. UNCHANGED paperFileVars
    BY <1>3 DEF resetVars
  <2>3. QED
    BY <2>1, <2>2 DEF ResetInv, paperFileVars, scriptVars, PaperFilesTypeOK, PaperFilesInv,
                      FilesTell, ClosingInv, Says
<1>4. QED
  BY <1>1, <1>2, <1>3 DEF ResetStep

LEMMA ResetInvSuffices ==
  ASSUME ResetInv
  PROVE  ResetsAreSafe
<1>1. emptied => Recovered(AntFiles) = {}
  BY DEF ResetInv, PaperFilesInv, FilesTell, Recovered, Events
<1>2. QED
  BY <1>1, PoolInvSuffices DEF ResetInv, PaperFilesInv, FilesTell, ResetsAreSafe, PapersAreKept

\* A reset that ended while no ant ran leaves nothing to recover; a position is closed
\* again only for a line of a close that was not written, or by an ant made without all the
\* files; no line of the research log is lost but one appended between the read and the
\* write of a reset, and restores of all archives bring back what has a manifest
\* (scripts/reset_paper_state.py, scripts/reset_research_pool.py, ants/paper_ant.py).
THEOREM ResetsKeepFiles == DaySpec => []ResetsAreSafe
<1>1. DayInit => ResetInv
  BY PoolStarts, PaperFilesStart DEF DayInit, ResetInv
<1>2. ResetInv /\ [DayNext]_dayVars => ResetInv'
  <2>1. [DayNext]_dayVars => [ResetStep]_resetVars
    BY DEF DayNext, QueenDay, BootDay, ServiceDay, LoopDay, LabDay, ScoutDay, ResetDay, dayVars
  <2>2. QED
    BY <2>1, ResetInvKept
<1>3. ResetInv => ResetsAreSafe
  BY ResetInvSuffices
<1>4. QED
  BY <1>1, <1>2, <1>3, PTL DEF DaySpec

--------------------------------------------------------------------------------
(* The scout.                                                                   *)

Candles == [open : ClosePrices, high : ClosePrices, close : ClosePrices, volume : Volumes]
Shapes  == [high : ClosePrices, close : ClosePrices, volume : Volumes]

\* No file has a line of a session to come, and a scout that signalled against one that
\* stands is in no tick; the candle of the last breakout is in the window, as many candles
\* back as were taken since, for as long as a breakout is measured against it.
ScoutInv ==
  /\ session \in Nat /\ lastLine \in [Filters -> Int]
  /\ \A f \in Filters : lastLine[f] <= session
  /\ late \in Int /\ late <= session
  /\ late = session => InTime /\ ~Allowed(session) /\ scoutPc = "idle"
  /\ candle \in Candles /\ candle.close <= candle.high
  /\ taken \in Seq(Shapes)
  /\ broke \in [price : Nat, ago : Nat]
  /\ broke.price > 0 /\ broke.ago < Lookback =>
       /\ broke.ago < Len(taken)
       /\ broke.price <= taken[Len(taken) - broke.ago].high
  /\ SignalsAreNew

\* The latest line is that of this session, if there is one.
LEMMA LatestInTime ==
  ASSUME ScoutInv, InTime
  PROVE  Readable # {} /\ lastLine[Latest] = session
<1>1. PICK f \in Filters : lastLine[f] = session
  BY DEF InTime
<1>2. f \in Readable /\ \A g \in Readable : lastLine[g] <= lastLine[f]
  BY <1>1 DEF Readable, ScoutInv
<1>3. Latest \in Readable /\ \A g \in Readable : lastLine[g] <= lastLine[Latest]
  BY <1>2 DEF Latest
<1>4. /\ lastLine[Latest] \in Int /\ lastLine[Latest] <= session
      /\ session <= lastLine[Latest] /\ session \in Int
  BY <1>1, <1>2, <1>3 DEF ScoutInv, Readable
<1>5. QED
  BY <1>2, <1>4

LEMMA TailingFacts ==
  ASSUME NEW S, NEW s \in Seq(S), NEW n \in Nat
  PROVE  /\ Tailing(s, n) \in Seq(S)
         /\ Len(Tailing(s, n)) = IF Len(s) > n THEN n ELSE Len(s)
         /\ \A j \in 0 .. Len(Tailing(s, n)) - 1 : Tailing(s, n)[Len(Tailing(s, n)) - j] = s[Len(s) - j]
BY DEF Tailing, LastOf

LEMMA HighIsNumber ==
  ASSUME NEW s \in Seq(Shapes), NEW k \in 1 .. Len(s)
  PROVE  s[k].high \in Nat
<1>1. s[k] \in Shapes
  OBVIOUS
<1>2. QED
  BY <1>1, ScoutAssumption DEF Shapes

\* A candle closes no higher than its high.
LEMMA CandleKept ==
  ASSUME NEW c \in Candles, c.close <= c.high, NEW d \in Later(c)
  PROVE  d \in Candles /\ d.close <= d.high
<1>1. ClosePrices \subseteq Nat
  BY ScoutAssumption
<1>2. c.close \in ClosePrices /\ c.high \in ClosePrices
  BY DEF Candles
<1>3. ASSUME NEW p \in ClosePrices
      PROVE  Quoted(c, p) \in Candles /\ Quoted(c, p).close <= Quoted(c, p).high
  <2>1. (IF p > c.high THEN p ELSE c.high) \in ClosePrices
    BY <1>2
  <2>2. Quoted(c, p) \in Candles
    BY <1>2, <2>1 DEF Candles, Quoted
  <2>3. Quoted(c, p).close = p /\ Quoted(c, p).high = IF p > c.high THEN p ELSE c.high
    BY <1>2 DEF Candles, Quoted
  <2>4. p \in Nat /\ c.high \in Nat
    BY <1>1, <1>2
  <2>5. QED
    BY <2>2, <2>3, <2>4
<1>4. ASSUME NEW p \in ClosePrices, NEW v \in Volumes
      PROVE  Fresh(p, v) \in Candles /\ Fresh(p, v).close <= Fresh(p, v).high
  BY <1>1 DEF Candles, Fresh
<1>5. \/ d = c
      \/ \E p \in ClosePrices : d = Quoted(c, p)
      \/ \E p \in ClosePrices, v \in Volumes : d = Fresh(p, v)
  BY ScoutAssumption DEF Later
<1>6. QED
  BY <1>3, <1>4, <1>5

\* What a breakout is above: the candles taken before it, the latest Lookback of them.
LEMMA BreakoutIsAbove ==
  ASSUME NEW s \in Seq(Shapes), NEW c \in Candles, BreaksOut(s, c),
         NEW j \in 1 .. Lookback
  PROVE  j < Len(s) /\ s[Len(s) - j].high < c.close
<1>1. Lookback \in Nat \ {0} /\ Len(s) \in Nat /\ Len(s) >= Lookback + 1
  BY ScoutAssumption DEF BreaksOut
<1>2. Lookback - j + 1 \in 1 .. Lookback
  BY <1>1
<1>3. LastOf(s, Lookback + 1)[Lookback - j + 1] = s[Len(s) - j]
  BY <1>1, <1>2 DEF LastOf
<1>4. LastOf(s, Lookback + 1)[Lookback - j + 1].high < c.close
  BY <1>2 DEF BreaksOut
<1>5. QED
  BY <1>1, <1>3, <1>4

LEMMA ScoutStarts ==
  ASSUME MarketInit
  PROVE  ScoutInv
<1>1. PICK o \in Openings : candle = Fresh(o[1], o[2])
  BY DEF MarketInit
<1>2. o[1] \in ClosePrices /\ o[2] \in Volumes /\ o[1] \in Nat
  BY ScoutAssumption
<1>3. candle \in Candles /\ candle.close <= candle.high
  BY <1>1, <1>2 DEF Candles, Fresh
<1>4. QED
  BY <1>3 DEF MarketInit, ScoutInv, SignalsAreNew, NoLine

LEMMA ScoutTakesKeeps ==
  ASSUME ScoutInv, ScoutTakes
  PROVE  ScoutInv'
<1> DEFINE longer == Append(taken, Shape(candle'))
           window == Tailing(longer, Keep)
           out    == BreaksOut(window, candle')
<1>1. Lookback \in Nat \ {0} /\ Keep \in Nat /\ Keep >= Lookback + 1
  BY ScoutAssumption DEF Keep
<1>2. ClosePrices \subseteq Nat \ {0}
  BY ScoutAssumption
<1>3. candle' \in Candles /\ candle'.close <= candle'.high
  BY CandleKept DEF ScoutInv, ScoutTakes
<1>4. /\ candle'.close \in Nat \ {0} /\ candle'.high \in Nat
      /\ Shape(candle') \in Shapes /\ Shape(candle').high = candle'.high
  BY <1>2, <1>3 DEF Candles, Shapes, Shape
<1>5. /\ taken \in Seq(Shapes) /\ Len(taken) \in Nat
      /\ longer \in Seq(Shapes) /\ Len(longer) = Len(taken) + 1
      /\ longer[Len(longer)] = Shape(candle')
      /\ \A j \in 1 .. Len(taken) : longer[Len(longer) - j] = taken[Len(taken) + 1 - j]
  BY <1>4 DEF ScoutInv
<1>6. /\ window \in Seq(Shapes) /\ Len(window) \in Nat \ {0}
      /\ Len(window) = IF Len(taken) + 1 > Keep THEN Keep ELSE Len(taken) + 1
      /\ \A j \in 0 .. Len(window) - 1 : window[Len(window) - j] = longer[Len(longer) - j]
  <2> HIDE DEF longer
  <2>1. longer \in Seq(Shapes) /\ Keep \in Nat
    BY <1>1, <1>5
  <2>2. /\ window \in Seq(Shapes)
        /\ Len(window) = IF Len(longer) > Keep THEN Keep ELSE Len(longer)
        /\ \A j \in 0 .. Len(window) - 1 : window[Len(window) - j] = longer[Len(longer) - j]
    BY <2>1, TailingFacts
  <2>3. QED
    BY <1>1, <1>5, <2>2
<1>7. taken' = window /\ Len(window) \in Nat
  BY <1>6 DEF ScoutTakes
<1>8. "momentum_breakout" \in Detected(window, candle') <=> out
  BY DEF Detected
<1>9. /\ broke' = IF out THEN [price |-> candle'.close, ago |-> 0] ELSE [broke EXCEPT !.ago = @ + 1]
      /\ stalled' = (stalled \/ (out /\ broke.price >= candle'.close /\ broke.ago < Lookback))
  <2> HIDE DEF window, out
  <2>1. QED
    BY <1>8 DEF ScoutTakes, window, longer
<1> HIDE DEF longer, window, out
<1>10. broke \in [price : Nat, ago : Nat] /\ broke.price \in Nat /\ broke.ago \in Nat
  BY DEF ScoutInv
<1>11. broke.price > 0 /\ broke.ago < Lookback =>
         longer[Len(longer) - (broke.ago + 1)].high >= broke.price
  <2> SUFFICES ASSUME broke.price > 0, broke.ago < Lookback
               PROVE  longer[Len(longer) - (broke.ago + 1)].high >= broke.price
    OBVIOUS
  <2>1. broke.ago < Len(taken) /\ broke.price <= taken[Len(taken) - broke.ago].high
    BY DEF ScoutInv
  <2>2. broke.ago + 1 \in 1 .. Len(taken) /\ Len(taken) + 1 - (broke.ago + 1) = Len(taken) - broke.ago
    BY <1>5, <1>10, <2>1
  <2>3. longer[Len(longer) - (broke.ago + 1)] = taken[Len(taken) - broke.ago]
    BY <1>5, <2>2
  <2>4. Len(taken) - broke.ago \in 1 .. Len(taken)
    BY <1>5, <1>10, <2>1
  <2>5. taken[Len(taken) - broke.ago].high \in Nat
    BY <1>5, <2>4, HighIsNumber
  <2>6. QED
    BY <1>10, <2>1, <2>3, <2>5
<1>12. ~stalled'
  <2> SUFFICES ASSUME out, broke.price >= candle'.close, broke.ago < Lookback PROVE FALSE
    BY <1>9 DEF ScoutInv, SignalsAreNew
  <2>1. broke.price > 0 /\ broke.ago + 1 \in 1 .. Lookback
    BY <1>1, <1>4, <1>10
  <2>2. broke.ago + 1 < Len(window) /\ window[Len(window) - (broke.ago + 1)].high < candle'.close
    BY <1>3, <1>6, <2>1, BreakoutIsAbove DEF out
  <2>3. window[Len(window) - (broke.ago + 1)] = longer[Len(longer) - (broke.ago + 1)]
    <3>1. broke.ago + 1 \in 0 .. Len(window) - 1
      BY <1>7, <1>10, <2>2
    <3>2. QED
      BY <1>6, <3>1
  <2>4. Len(window) - (broke.ago + 1) \in 1 .. Len(window)
    BY <1>7, <1>10, <2>2
  <2>5. window[Len(window) - (broke.ago + 1)].high \in Nat
    BY <1>6, <2>4, HighIsNumber
  <2>6. QED
    BY <1>4, <1>10, <1>11, <2>1, <2>2, <2>3, <2>5
<1>13. late # session
  BY DEF ScoutTakes, ScoutInv
<1>14. ~strayed'
  BY <1>13 DEF ScoutTakes, ScoutInv, SignalsAreNew
<1>15. broke' \in [price : Nat, ago : Nat]
  BY <1>4, <1>9, <1>10
<1>16. ASSUME broke'.price > 0, broke'.ago < Lookback
       PROVE  broke'.ago < Len(window) /\ broke'.price <= window[Len(window) - broke'.ago].high
  <2>1. CASE out
    <3>1. broke'.price = candle'.close /\ broke'.ago = 0
      BY <1>9, <2>1
    <3>2. window[Len(window)] = Shape(candle')
      <4>1. 0 \in 0 .. Len(window) - 1 /\ Len(window) - 0 = Len(window) /\ Len(longer) - 0 = Len(longer)
        BY <1>5, <1>6
      <4>2. QED
        BY <1>5, <1>6, <4>1
    <3>3. QED
      BY <1>3, <1>4, <1>6, <3>1, <3>2
  <2>2. CASE ~out
    <3>1. broke'.price = broke.price /\ broke'.ago = broke.ago + 1
      BY <1>9, <1>10, <2>2
    <3>2. broke.price > 0 /\ broke.ago < Lookback /\ broke.ago + 1 < Lookback
      BY <1>1, <1>10, <1>16, <3>1
    <3>3. broke.ago < Len(taken)
      BY <3>2 DEF ScoutInv
    <3>4. broke.ago + 1 < Len(window)
      BY <1>1, <1>5, <1>6, <1>10, <3>2, <3>3
    <3>5. window[Len(window) - (broke.ago + 1)] = longer[Len(longer) - (broke.ago + 1)]
      <4>1. broke.ago + 1 \in 0 .. Len(window) - 1
        BY <1>7, <1>10, <3>4
      <4>2. QED
        BY <1>6, <4>1
    <3>6. Len(window) - (broke.ago + 1) \in 1 .. Len(window)
      BY <1>7, <1>10, <3>4
    <3>7. window[Len(window) - (broke.ago + 1)].high \in Nat
      BY <1>6, <3>6, HighIsNumber
    <3>8. QED
      BY <1>10, <1>11, <3>1, <3>2, <3>4, <3>5, <3>7
  <2>3. QED
    BY <2>1, <2>2
<1>17. session' = session /\ lastLine' = lastLine
  BY DEF ScoutTakes, filterVars
<1>18. /\ late' = late \/ (late' = session /\ InTime /\ ~Allowed(session))
       /\ scoutPc' = "idle"
  BY DEF ScoutTakes
<1>19. /\ late' \in Int /\ late' <= session'
       /\ late' = session' => InTime' /\ ~Allowed(session)' /\ scoutPc' = "idle"
  BY <1>13, <1>17, <1>18 DEF ScoutInv, InTime, Allowed
<1>20. QED
  BY <1>3, <1>6, <1>7, <1>12, <1>15, <1>16, <1>17, <1>14, <1>19 DEF ScoutInv, SignalsAreNew

LEMMA ScoutInvKept ==
  ASSUME ScoutInv, [MarketStep]_marketVars
  PROVE  ScoutInv'
<1>1. CASE FilterStarts
  BY <1>1 DEF FilterStarts, spotVars, ScoutInv, SignalsAreNew, InTime, Allowed
<1>2. CASE FilterTick
  <2>1. lastLine' = [lastLine EXCEPT ![filter] = session] /\ session' = session
    BY <1>2 DEF FilterTick
  <2>2. session \in Int /\ lastLine \in [Filters -> Int]
    BY DEF ScoutInv
  <2>3. lastLine' \in [Filters -> Int]
    BY <2>1, <2>2
  <2>4. \A f \in Filters : lastLine'[f] = session \/ lastLine'[f] = lastLine[f]
    BY <2>1, <2>2
  <2>5. \A f \in Filters : lastLine'[f] <= session'
    BY <2>1, <2>2, <2>4 DEF ScoutInv
  <2>6. InTime => InTime'
    BY <2>1, <2>4 DEF InTime
  <2>7. QED
    BY <1>2, <2>3, <2>5, <2>6 DEF FilterTick, spotVars, ScoutInv, SignalsAreNew, Allowed
<1>3. CASE FilterEnds
  <2>1. /\ session' = session /\ scoutPc' = scoutPc
        /\ \/ lastLine' = lastLine /\ late' = late
           \/ lastLine' = [lastLine EXCEPT ![filter] = -1] /\ late' = -2
    BY <1>3 DEF FilterEnds, Torn, NoLine
  <2>2. session \in Nat /\ lastLine \in [Filters -> Int]
    BY DEF ScoutInv
  <2>3. lastLine' \in [Filters -> Int] /\ \A f \in Filters : lastLine'[f] = -1 \/ lastLine'[f] = lastLine[f]
    BY <2>1, <2>2
  <2>4. \A f \in Filters : lastLine'[f] <= session'
    BY <2>1, <2>2, <2>3 DEF ScoutInv
  <2>5. /\ late' \in Int /\ late' <= session'
        /\ late' = session' => InTime' /\ ~Allowed(session)' /\ scoutPc' = "idle"
    BY <2>1, <2>2 DEF ScoutInv, InTime, Allowed
  <2>6. QED
    BY <1>3, <2>1, <2>2, <2>3, <2>4, <2>5 DEF FilterEnds, ScoutInv, SignalsAreNew
<1>4. CASE SessionPasses
  BY <1>4 DEF SessionPasses, spotVars, ScoutInv, SignalsAreNew
<1>5. CASE ScoutChecks
  <2>1. InTime => Allowed(session)
    BY <1>5, LatestInTime DEF ScoutChecks, MayTrade
  <2>2. QED
    BY <1>5, <2>1 DEF ScoutChecks, filterVars, ScoutInv, SignalsAreNew, InTime, Allowed
<1>6. CASE ScoutSkips
  BY <1>6 DEF ScoutSkips, filterVars, ScoutInv, SignalsAreNew, InTime, Allowed
<1>7. CASE UNCHANGED marketVars
  BY <1>7 DEF marketVars, filterVars, spotVars, ScoutInv, SignalsAreNew, InTime, Allowed
<1>8. QED
  BY <1>1, <1>2, <1>3, <1>4, <1>7, <1>5, <1>6, ScoutTakesKeeps DEF MarketStep

\* No signal of a breakout repeats one that its window still holds, and once the filter
\* has said that trading is not allowed the scout signals in the tick under way at most
\* and in none after it, whatever files of filters before it say (ants/scout_ant.py,
\* ants/time_filter_ant.py): for any prices, volumes and lengths of the window.
THEOREM SignalsStayNew == DaySpec => []SignalsAreNew
<1>1. DayInit => ScoutInv
  BY ScoutStarts DEF DayInit
<1>2. ScoutInv /\ [DayNext]_dayVars => ScoutInv'
  <2>1. [DayNext]_dayVars => [MarketStep]_marketVars
    BY DEF DayNext, QueenDay, BootDay, ServiceDay, LoopDay, LabDay, ScoutDay, ResetDay, dayVars
  <2>2. QED
    BY <2>1, ScoutInvKept
<1>3. ScoutInv => SignalsAreNew
  BY Zenon DEF ScoutInv
<1>4. QED
  BY <1>1, <1>2, <1>3, PTL DEF DaySpec

--------------------------------------------------------------------------------
(* The loop of the simulation and its exit chain.                               *)

LoopPositions ==
  [side : Sides, entry : Nat \ {0}, stop : Nat, target : Nat, quantity : Int, price : Nat \ {0},
   peak : Nat \ {0}, before : Nat, old : BOOLEAN, reason : Conditions \cup {"open"}]

OnPrice == {"drawdown", "stop_loss", "take_profit"}

\* A position stands at its entry until it has seen a price; from then on at the price
\* quoted last, where no condition on prices ends it, and its peak is the best it saw.
StandsSound(p, quote) ==
  /\ IsEntrySignal(p) /\ p.reason = "open"
  /\ Gain(p, p.peak) >= 0 /\ Gain(p, p.peak) >= Gain(p, p.price)
  /\ p.before = 0 => p.price = p.entry
  /\ p.before # 0 =>
       /\ p.price = quote /\ Gain(p, p.peak) >= Gain(p, p.before)
       /\ \A c \in OnPrice : Has(c) => ~Triggers(c, p, 0)

LoopInv ==
  /\ chain \in Chains
  /\ open \in [LoopNodes -> SUBSET LoopPositions]
  /\ \A n \in LoopNodes : \A p \in open[n] : StandsSound(p, lastQuote)
  /\ ExitsAreSound

\* Of a gain and what triggers only these fields matter.
SameTrade(p, q) == /\ q.side = p.side /\ q.entry = p.entry /\ q.stop = p.stop
                   /\ q.target = p.target

LEMMA GainIsInt ==
  ASSUME NEW p \in LoopPositions, NEW x \in Int
  PROVE  Gain(p, x) \in Int
<1>1. p.entry \in Int
  BY DEF LoopPositions
<1>2. QED
  BY <1>1 DEF Gain

LEMMA GainAtEntry ==
  ASSUME NEW p \in LoopPositions, IsEntrySignal(p)
  PROVE  Gain(p, p.entry) = 0 /\ Gain(p, p.stop) < 0 /\ Gain(p, p.target) > 0
<1>1. p.entry \in Int /\ p.stop \in Int /\ p.target \in Int
  BY DEF LoopPositions
<1>2. QED
  BY <1>1 DEF Gain, IsEntrySignal

LEMMA SameGain ==
  ASSUME NEW p, NEW q, SameTrade(p, q), NEW x
  PROVE  Gain(q, x) = Gain(p, x)
BY DEF SameTrade, Gain

LEMMA MovedFacts ==
  ASSUME NEW p \in LoopPositions, NEW price \in Nat \ {0}, NEW r \in Conditions \cup {"open"}
  PROVE  LET q == [Moved(p, price) EXCEPT !.reason = r]
         IN /\ Moved(p, price) \in LoopPositions /\ q \in LoopPositions
            /\ q.reason = r /\ q.old = p.old
            /\ SameTrade(p, q) /\ SameTrade(p, Moved(p, price))
            /\ q.price = price /\ Moved(p, price).price = price
            /\ q.before = p.price
            /\ q.peak = IF Better(p, price, p.peak) THEN price ELSE p.peak
            /\ Moved(p, price).peak = q.peak
            /\ Moved(p, price).old = p.old
BY DEF LoopPositions, Moved, SameTrade

LEMMA SameTriggers ==
  ASSUME NEW p, NEW q, SameTrade(p, q), q.price = p.price, q.peak = p.peak,
         NEW c \in Conditions, c = "ttl" => q.old = p.old, NEW loss
  PROVE  Triggers(c, q, loss) = Triggers(c, p, loss)
<1>1. \A x : Gain(q, x) = Gain(p, x)
  BY SameGain
<1>2. q.stop = p.stop /\ q.target = p.target
  BY DEF SameTrade
<1>3. QED
  BY <1>1, <1>2 DEF Triggers, Dropped, Conditions

LEMMA LossIsForDailyLoss ==
  ASSUME NEW p, NEW c \in OnPrice, NEW loss
  PROVE  Triggers(c, p, loss) = Triggers(c, p, 0)
BY DEF Triggers, OnPrice

\* The first of the conditions that trigger is the reason.
LEMMA FirstHit ==
  ASSUME NEW hits \in SUBSET Nat, NEW k \in hits
  PROVE  LET first == CHOOSE j \in hits : \A i \in hits : j <= i
         IN first \in hits /\ \A i \in hits : first <= i
<1>1. \E j \in hits : \A i \in hits : j <= i
  BY LeastNat
<1>2. QED
  BY <1>1

LEMMA EvaluatedFacts ==
  ASSUME chain \in Chains, NEW p \in LoopPositions, NEW price \in Nat \ {0}, NEW loss
  PROVE  LET q == Evaluated(p, price, loss)
         IN /\ q \in LoopPositions /\ q.old = p.old
            /\ SameTrade(p, q)
            /\ q.price = price /\ q.before = p.price
            /\ q.peak = IF Better(p, price, p.peak) THEN price ELSE p.peak
            /\ q.reason = "open" => \A k \in DOMAIN chain : ~Triggers(chain[k], q, loss)
            /\ q.reason # "open" =>
                 \E k \in DOMAIN chain :
                   /\ q.reason = chain[k] /\ Triggers(chain[k], q, loss)
                   /\ \A j \in DOMAIN chain : Triggers(chain[j], q, loss) => k <= j
<1> DEFINE moved == Moved(p, price)
           hits  == {k \in DOMAIN chain : Triggers(chain[k], moved, loss)}
           first == CHOOSE k \in hits : \A j \in hits : k <= j
           r     == IF hits = {} THEN "open" ELSE chain[first]
           q     == [moved EXCEPT !.reason = r]
<1>1. q = Evaluated(p, price, loss)
  BY DEF Evaluated
<1>2. chain \in Seq(Conditions) /\ DOMAIN chain \subseteq Nat
      /\ \A k \in DOMAIN chain : chain[k] \in Conditions
  BY LoopAssumption
<1>3. hits # {} => first \in hits /\ \A j \in hits : first <= j
  <2>1. hits \in SUBSET Nat
    BY <1>2
  <2> HIDE DEF hits
  <2>2. QED
    BY <2>1, FirstHit
<1>4. hits \subseteq DOMAIN chain
  OBVIOUS
<1> HIDE DEF first
<1>5. r \in Conditions \cup {"open"} /\ (hits = {} <=> r = "open")
  <2>1. "open" \notin Conditions
    BY DEF Conditions
  <2>2. QED
    BY <1>2, <1>3, <1>4, <2>1
<1> HIDE DEF r, hits
<1>6. /\ moved \in LoopPositions /\ q \in LoopPositions /\ q.reason = r /\ q.old = p.old
      /\ SameTrade(p, q) /\ SameTrade(p, moved) /\ q.price = price /\ moved.price = price
      /\ q.before = p.price
      /\ q.peak = IF Better(p, price, p.peak) THEN price ELSE p.peak
      /\ moved.peak = q.peak /\ moved.old = p.old
  <2> HIDE DEF moved
  <2>1. QED
    BY <1>5, MovedFacts DEF moved
<1> HIDE DEF moved, q
<1>7. SameTrade(moved, q)
  BY <1>6 DEF SameTrade
<1>8. \A k \in DOMAIN chain : Triggers(chain[k], q, loss) = Triggers(chain[k], moved, loss)
  BY <1>2, <1>6, <1>7, SameTriggers
<1>9. q.reason = "open" => \A k \in DOMAIN chain : ~Triggers(chain[k], q, loss)
  BY <1>5, <1>6, <1>8 DEF hits
<1>10. q.reason # "open" =>
         /\ first \in DOMAIN chain /\ q.reason = chain[first] /\ Triggers(chain[first], q, loss)
         /\ \A j \in DOMAIN chain : Triggers(chain[j], q, loss) => first <= j
  <2> SUFFICES ASSUME q.reason # "open"
               PROVE /\ first \in DOMAIN chain /\ q.reason = chain[first] /\ Triggers(chain[first], q, loss)
                     /\ \A j \in DOMAIN chain : Triggers(chain[j], q, loss) => first <= j
    OBVIOUS
  <2>1. hits # {} /\ first \in hits /\ \A j \in hits : first <= j
    BY <1>3, <1>5, <1>6
  <2>2. r = chain[first]
    BY <2>1 DEF r
  <2>3. QED
    BY <1>6, <1>8, <2>1, <2>2 DEF hits
<1>11. QED
  BY <1>1, <1>6, <1>9, <1>10

\* A price moves the position: its gain at the price before, the entry or the peak.
LEMMA PeakIsBest ==
  ASSUME NEW p \in LoopPositions, NEW q \in LoopPositions, SameTrade(p, q),
         NEW price \in Nat \ {0}, q.price = price, q.before = p.price,
         q.peak = IF Better(p, price, p.peak) THEN price ELSE p.peak,
         Gain(p, p.peak) >= 0, Gain(p, p.peak) >= Gain(p, p.price)
  PROVE  /\ Gain(q, q.peak) >= 0 /\ Gain(q, q.peak) >= Gain(q, q.price)
         /\ Gain(q, q.peak) >= Gain(q, q.before)
<1>1. p.peak \in Int /\ p.price \in Int
  BY DEF LoopPositions
<1>2. Gain(p, p.peak) \in Int /\ Gain(p, p.price) \in Int /\ Gain(p, price) \in Int
  BY <1>1, GainIsInt
<1>3. \A x : Gain(q, x) = Gain(p, x)
  BY SameGain
<1>4. Gain(q, q.peak) = IF Gain(p, price) > Gain(p, p.peak) THEN Gain(p, price) ELSE Gain(p, p.peak)
  BY <1>3 DEF Better
<1>5. QED
  BY <1>2, <1>3, <1>4

\* A position that is evaluated at a price and not ended stands at it.
LEMMA StillStands ==
  ASSUME chain \in Chains, NEW p \in LoopPositions, NEW quote, StandsSound(p, quote),
         NEW price \in Nat \ {0}, NEW loss, Evaluated(p, price, loss).reason = "open"
  PROVE  StandsSound(Evaluated(p, price, loss), price)
<1> DEFINE q == Evaluated(p, price, loss)
<1>1. /\ q \in LoopPositions /\ SameTrade(p, q)
      /\ q.price = price /\ q.before = p.price
      /\ q.peak = IF Better(p, price, p.peak) THEN price ELSE p.peak
      /\ \A k \in DOMAIN chain : ~Triggers(chain[k], q, loss)
  BY EvaluatedFacts
<1>2. q.reason = "open"
  OBVIOUS
<1> HIDE DEF q
<1>3. /\ Gain(q, q.peak) >= 0 /\ Gain(q, q.peak) >= Gain(q, q.price)
      /\ Gain(q, q.peak) >= Gain(q, q.before)
  BY <1>1, PeakIsBest DEF StandsSound
<1>4. q.before # 0
  BY <1>1 DEF LoopPositions
<1>5. \A c \in OnPrice : Has(c) => ~Triggers(c, q, 0)
  BY <1>1, LossIsForDailyLoss DEF Has
<1>6. IsEntrySignal(q)
  BY <1>1 DEF StandsSound, SameTrade, IsEntrySignal
<1>7. StandsSound(q, price)
  BY <1>1, <1>2, <1>3, <1>4, <1>5, <1>6 DEF StandsSound
<1>8. QED
  BY <1>7 DEF q

\* One that is ended has a reason that fits, and is past its stop by a gap only.
LEMMA EndedFits ==
  ASSUME chain \in Chains, NEW p \in LoopPositions, NEW quote, StandsSound(p, quote),
         NEW price \in Nat \ {0}, NEW loss, Evaluated(p, price, loss).reason # "open"
  PROVE  LET q == Evaluated(p, price, loss)
         IN /\ ReasonFitsOutcome(q) /\ LossPastStopIsGap(q) /\ q.reason # "none"
            /\ chain[1] = "daily_loss" => (q.reason = "daily_loss" <=> loss >= LossLimit)
<1> DEFINE q == Evaluated(p, price, loss)
<1>1. /\ q \in LoopPositions /\ SameTrade(p, q)
      /\ q.price = price /\ q.before = p.price
      /\ q.peak = IF Better(p, price, p.peak) THEN price ELSE p.peak
  BY EvaluatedFacts
<1>2. PICK k \in DOMAIN chain :
        /\ q.reason = chain[k] /\ Triggers(chain[k], q, loss)
        /\ \A j \in DOMAIN chain : Triggers(chain[j], q, loss) => k <= j
  BY EvaluatedFacts
<1> HIDE DEF q
<1>3. IsEntrySignal(q)
  BY <1>1 DEF StandsSound, SameTrade, IsEntrySignal
<1>4. Gain(q, q.entry) = 0 /\ Gain(q, q.stop) < 0 /\ Gain(q, q.target) > 0
  BY <1>1, <1>3, GainAtEntry
<1>5. /\ Gain(q, q.peak) \in Int /\ Gain(q, q.price) \in Int /\ Gain(q, q.stop) \in Int
      /\ Gain(q, q.target) \in Int /\ Gain(q, q.before) \in Int
  <2>1. q.peak \in Int /\ q.price \in Int /\ q.stop \in Int /\ q.target \in Int /\ q.before \in Int
    BY <1>1 DEF LoopPositions
  <2>2. QED
    BY <1>1, <2>1, GainIsInt
<1>6. Gain(q, q.peak) >= 0
  BY <1>1, PeakIsBest DEF StandsSound
<1>7. ReasonFitsOutcome(q)
  <2>1. CASE q.reason = "take_profit"
    BY <1>2, <1>4, <1>5, <2>1 DEF Triggers, ReasonFitsOutcome
  <2>2. CASE q.reason = "stop_loss"
    BY <1>2, <1>4, <1>5, <2>2 DEF Triggers, ReasonFitsOutcome
  <2>3. CASE q.reason = "drawdown"
    <3>1. Dropped(q)
      BY <1>2, <2>3 DEF Triggers
    <3>2. q.peak \in Nat /\ MaxDrop \in Nat
      BY <1>1, LoopAssumption DEF LoopPositions
    <3>3. MaxDrop * q.peak \in Nat
      BY <3>2
    <3>4. Gain(q, q.peak) > Gain(q, q.price)
      BY <1>5, <3>1, <3>3 DEF Dropped
    <3>5. QED
      BY <1>6, <2>3, <3>4 DEF ReasonFitsOutcome, Better
  <2>4. QED
    BY <2>1, <2>2, <2>3 DEF ReasonFitsOutcome
<1>8. LossPastStopIsGap(q)
  <2> SUFFICES ASSUME Has("stop_loss") PROVE Gain(q, q.before) > Gain(q, q.stop)
    BY DEF LossPastStopIsGap
  <2>1. CASE p.before = 0
    <3>1. q.before = q.entry
      BY <1>1, <2>1 DEF StandsSound, SameTrade
    <3>2. QED
      BY <1>4, <1>5, <3>1
  <2>2. CASE p.before # 0
    <3>1. ~Triggers("stop_loss", p, 0)
      BY <2>2 DEF StandsSound, OnPrice
    <3>2. ~(Gain(p, p.price) <= Gain(p, p.stop))
      BY <3>1 DEF Triggers
    <3>3. Gain(q, q.before) = Gain(p, p.price) /\ Gain(q, q.stop) = Gain(p, p.stop)
      BY <1>1, SameGain DEF SameTrade
    <3>4. QED
      BY <1>5, <3>2, <3>3
  <2>3. QED
    BY <2>1, <2>2
<1>9. chain \in Seq(Conditions) /\ 1 \in DOMAIN chain /\ chain[k] \in Conditions
      /\ DOMAIN chain = 1 .. Len(chain) /\ Len(chain) \in Nat
  <2>1. chain \in Seq(Conditions) /\ chain # <<>>
    BY LoopAssumption
  <2>2. QED
    BY <1>2, <2>1
<1>10. q.reason # "none"
  BY <1>2, <1>9 DEF Conditions
<1>11. chain[1] = "daily_loss" => (q.reason = "daily_loss" <=> loss >= LossLimit)
  <2>1. Triggers("daily_loss", q, loss) <=> loss >= LossLimit
    BY DEF Triggers
  <2>2. chain[1] = "daily_loss" /\ loss >= LossLimit => k = 1
    BY <1>2, <1>9, <2>1
  <2>3. QED
    BY <1>2, <2>1, <2>2
<1>12. QED
  BY <1>7, <1>8, <1>10, <1>11 DEF q

\* What the broker fills stands at its entry.
LEMMA FilledStands ==
  ASSUME NEW o \in Offers, Accepts(o, {}), NEW quote
  PROVE  LET p == Filled(o, Quantity(o, AvailableTo({})))
         IN p \in LoopPositions /\ StandsSound(p, quote)
<1> DEFINE p == Filled(o, Quantity(o, AvailableTo({})))
<1>1. /\ o.side \in Sides /\ IsEntrySignal(o)
      /\ o.entry \in Nat \ {0} /\ o.stop \in Nat /\ o.target \in Nat /\ o.suggested \in Nat
  BY LoopAssumption DEF IsEntrySignal
<1>2. AvailableTo({}) \in Nat
  BY LoopAssumption DEF AvailableTo, InUseBy
<1>3. Quantity(o, AvailableTo({})) \in Int
  <2>1. Least(MaxSize, Least(AvailableTo({}), LoopCapital)) \in Nat
    BY <1>2, LoopAssumption DEF Least
  <2>2. Least(MaxSize, Least(AvailableTo({}), LoopCapital)) \div o.entry \in Int
    BY <1>1, <2>1
  <2>3. QED
    BY <1>1, <2>2 DEF Quantity, Least
<1>4. p \in LoopPositions
  BY <1>1, <1>3 DEF Filled, LoopPositions
<1>5. /\ p.side = o.side /\ p.entry = o.entry /\ p.stop = o.stop /\ p.target = o.target
      /\ p.price = o.entry /\ p.peak = o.entry /\ p.before = 0 /\ p.reason = "open"
  BY DEF Filled
<1> HIDE DEF p
<1>6. IsEntrySignal(p)
  BY <1>1, <1>5 DEF IsEntrySignal
<1>7. Gain(p, p.peak) = 0 /\ Gain(p, p.price) = 0
  BY <1>4, <1>5, <1>6, GainAtEntry
<1>8. StandsSound(p, quote)
  BY <1>5, <1>6, <1>7 DEF StandsSound
<1>9. QED
  BY <1>4, <1>8 DEF p

LEMMA LoopStarts ==
  ASSUME LoopInit
  PROVE  LoopInv
BY DEF LoopInit, LoopInv, ExitsAreSound, NoTrade, LimitEndsPositions, OpenIsSound

\* What stands sound is what the property asks for.
LEMMA StandsIsSound ==
  ASSUME NEW p \in LoopPositions, NEW quote, StandsSound(p, quote), p.before # 0
  PROVE  /\ p.price = quote
         /\ \A c \in {"drawdown", "stop_loss", "take_profit"} : Has(c) => ~Triggers(c, p, 0)
         /\ ~Better(p, p.before, p.peak) /\ ~Better(p, p.entry, p.peak)
<1>1. p.peak \in Int /\ p.before \in Int /\ p.entry \in Int
  BY DEF LoopPositions
<1>2. /\ Gain(p, p.peak) \in Int /\ Gain(p, p.before) \in Int
      /\ Gain(p, p.entry) = 0
  BY <1>1, GainIsInt, GainAtEntry DEF StandsSound
<1>3. QED
  BY <1>2 DEF StandsSound, OnPrice, Better

LEMMA LoopTickKeeps ==
  ASSUME LoopInv, NEW price \in Quotes, NEW offer \in [LoopNodes -> Offers \cup {NoOffer}],
         NEW dated, LoopTick(price, offer, dated)
  PROVE  LoopInv'
<1>1. price \in Nat \ {0} /\ chain \in Chains
  BY LoopAssumption DEF LoopTick, LoopInv
<1>2. ASSUME NEW n \in LoopNodes, NEW q \in EvaluatedOf(n, price)
      PROVE  /\ q \in LoopPositions
             /\ q.reason = "open" => StandsSound(q, price)
             /\ q.reason # "open" =>
                  /\ ReasonFitsOutcome(q) /\ LossPastStopIsGap(q) /\ q.reason # "none"
                  /\ chain[1] = "daily_loss" => (q.reason = "daily_loss" <=> LossSeen(n) >= LossLimit)
  <2>1. PICK p \in open[n] : q = Evaluated(p, price, LossSeen(n))
    BY DEF EvaluatedOf
  <2>2. p \in LoopPositions /\ StandsSound(p, lastQuote)
    BY DEF LoopInv
  <2>3. q \in LoopPositions
    BY <1>1, <2>1, <2>2, EvaluatedFacts
  <2>4. q.reason = "open" => StandsSound(q, price)
    BY <1>1, <2>1, <2>2, StillStands
  <2>5. q.reason # "open" =>
          /\ ReasonFitsOutcome(q) /\ LossPastStopIsGap(q) /\ q.reason # "none"
          /\ chain[1] = "daily_loss" => (q.reason = "daily_loss" <=> LossSeen(n) >= LossLimit)
    BY <1>1, <2>1, <2>2, EndedFits
  <2>6. QED
    BY <2>3, <2>4, <2>5
<1>3. ASSUME NEW n \in LoopNodes
      PROVE  \A p \in open'[n] : p \in LoopPositions /\ StandsSound(p, price)
  <2>1. open'[n] = Entered(offer[n], StillOpen(n, price))
    BY DEF LoopTick
  <2>2. \A p \in StillOpen(n, price) : p \in LoopPositions /\ StandsSound(p, price)
    BY <1>2 DEF StillOpen, ClosedOf
  <2>3. CASE open'[n] = StillOpen(n, price)
    BY <2>2, <2>3
  <2>4. CASE open'[n] # StillOpen(n, price)
    <3>1. /\ offer[n] # NoOffer /\ StillOpen(n, price) = {} /\ Accepts(offer[n], {})
          /\ open'[n] = {Filled(offer[n], Quantity(offer[n], AvailableTo({})))}
      BY <2>1, <2>4 DEF Entered
    <3>2. offer[n] \in Offers
      BY <3>1
    <3>3. QED
      BY <3>1, <3>2, FilledStands
  <2>5. QED
    BY <2>3, <2>4
<1>4. chain' = chain /\ lastQuote' = price
  BY DEF LoopTick
<1>5. \A p : StandsSound(p, lastQuote)' <=> StandsSound(p, price)
  BY <1>4 DEF StandsSound, Has, Triggers, Dropped
<1>6. open' \in [LoopNodes -> SUBSET LoopPositions]
  BY <1>3 DEF LoopTick
<1>7. \A n \in LoopNodes : \A p \in open'[n] : StandsSound(p, lastQuote)'
  BY <1>3, <1>5
<1>8. OpenIsSound'
  <2>1. \A n \in LoopNodes : \A p \in open'[n] : p.before # 0 =>
          /\ p.price = price
          /\ \A c \in {"drawdown", "stop_loss", "take_profit"} : Has(c) => ~Triggers(c, p, 0)
          /\ ~Better(p, p.before, p.peak) /\ ~Better(p, p.entry, p.peak)
    BY <1>3, StandsIsSound
  <2>2. \A c : Has(c)' <=> Has(c)
    BY <1>4 DEF Has
  <2>3. QED
    BY <1>4, <2>1, <2>2 DEF OpenIsSound
<1>9. ASSUME NEW n \in LoopNodes, lastTrade'[n].reason # "none"
      PROVE  /\ ReasonFitsOutcome(lastTrade'[n]) /\ LossPastStopIsGap(lastTrade'[n])
             /\ chain[1] = "daily_loss" =>
                  (lastTrade'[n].reason = "daily_loss" <=> n \in quotedOver')
  <2>1. CASE ClosedOf(n, price) = {}
    <3>1. lastTrade'[n] = lastTrade[n] /\ (n \in quotedOver' <=> n \in quotedOver)
      BY <2>1 DEF LoopTick
    <3>2. QED
      BY <1>9, <3>1 DEF LoopInv, ExitsAreSound, LimitEndsPositions
  <2>2. CASE ClosedOf(n, price) # {}
    <3>1. /\ lastTrade'[n] \in ClosedOf(n, price)
          /\ n \in quotedOver' <=> lossOf[n][simDay] >= LossLimit
      BY <2>2 DEF LoopTick
    <3>2. QED
      BY <1>2, <3>1 DEF ClosedOf, LossSeen
  <2>3. QED
    BY <2>1, <2>2
<1>10. ExitsAreSound'
  BY <1>4, <1>8, <1>9 DEF ExitsAreSound, LimitEndsPositions, LossPastStopIsGap, Has,
                          ReasonFitsOutcome
<1>11. QED
  BY <1>1, <1>4, <1>6, <1>7, <1>10 DEF LoopInv

LEMMA AgesKeeps ==
  ASSUME LoopInv, NEW m \in LoopNodes, Ages(m)
  PROVE  LoopInv'
<1>1. UNCHANGED <<chain, lastTrade, lastQuote, quotedOver>>
  BY DEF Ages
<1>2. ASSUME NEW p \in LoopPositions, StandsSound(p, lastQuote)
      PROVE  /\ [p EXCEPT !.old = TRUE] \in LoopPositions
             /\ StandsSound([p EXCEPT !.old = TRUE], lastQuote)
  <2> DEFINE q == [p EXCEPT !.old = TRUE]
  <2>1. /\ q \in LoopPositions /\ SameTrade(p, q) /\ q.price = p.price /\ q.peak = p.peak
        /\ q.before = p.before /\ q.reason = p.reason
    BY DEF LoopPositions, SameTrade
  <2> HIDE DEF q
  <2>2. \A x : Gain(q, x) = Gain(p, x)
    BY <2>1, SameGain
  <2>3. \A c \in OnPrice : Triggers(c, q, 0) = Triggers(c, p, 0)
    BY <2>1, SameTriggers DEF OnPrice, Conditions
  <2>4. IsEntrySignal(q) /\ q.entry = p.entry
    BY <1>2, <2>1 DEF StandsSound, SameTrade, IsEntrySignal
  <2>5. StandsSound(q, lastQuote)
    BY <1>2, <2>1, <2>2, <2>3, <2>4 DEF StandsSound
  <2>6. QED
    BY <2>1, <2>5 DEF q
<1>3. open' = [open EXCEPT ![m] = {[p EXCEPT !.old = TRUE] : p \in open[m]}]
  BY DEF Ages
<1>4. \A n \in LoopNodes : \A p \in open'[n] : p \in LoopPositions /\ StandsSound(p, lastQuote)
  BY <1>2, <1>3 DEF LoopInv
<1>5. open' \in [LoopNodes -> SUBSET LoopPositions]
  BY <1>3, <1>4 DEF LoopInv
<1>6. \A p : StandsSound(p, lastQuote)' <=> StandsSound(p, lastQuote)
  BY <1>1 DEF StandsSound, Has, Triggers, Dropped
<1>7. OpenIsSound'
  <2>1. \A n \in LoopNodes : \A p \in open'[n] : p.before # 0 =>
          /\ p.price = lastQuote
          /\ \A c \in {"drawdown", "stop_loss", "take_profit"} : Has(c) => ~Triggers(c, p, 0)
          /\ ~Better(p, p.before, p.peak) /\ ~Better(p, p.entry, p.peak)
    BY <1>4, StandsIsSound
  <2>2. \A c : Has(c)' <=> Has(c)
    BY <1>1 DEF Has
  <2>3. QED
    BY <1>1, <2>1, <2>2 DEF OpenIsSound
<1>8. ExitsAreSound'
  BY <1>1, <1>7 DEF LoopInv, ExitsAreSound, LimitEndsPositions, LossPastStopIsGap, Has,
                    ReasonFitsOutcome
<1>9. QED
  BY <1>1, <1>4, <1>5, <1>6, <1>8 DEF LoopInv

LEMMA LoopInvKept ==
  ASSUME LoopInv, [LoopStep]_loopVars
  PROVE  LoopInv'
<1>1. ASSUME UNCHANGED <<chain, open, lastTrade, lastQuote, quotedOver>> PROVE LoopInv'
  <2>1. \A c : Has(c)' <=> Has(c)
    BY <1>1 DEF Has
  <2>2. \A p : StandsSound(p, lastQuote)' <=> StandsSound(p, lastQuote)
    BY <1>1, <2>1 DEF StandsSound
  <2>3. OpenIsSound' <=> OpenIsSound
    BY <1>1, <2>1 DEF OpenIsSound
  <2>4. LimitEndsPositions' <=> LimitEndsPositions
    BY <1>1 DEF LimitEndsPositions
  <2>5. \A n \in LoopNodes : LossPastStopIsGap(lastTrade[n])' <=> LossPastStopIsGap(lastTrade[n])
    BY <1>1, <2>1 DEF LossPastStopIsGap
  <2>6. \A n \in LoopNodes : ReasonFitsOutcome(lastTrade[n])' <=> ReasonFitsOutcome(lastTrade[n])
    BY <1>1 DEF ReasonFitsOutcome
  <2>7. ExitsAreSound' <=> ExitsAreSound
    BY <1>1, <2>3, <2>4, <2>5, <2>6 DEF ExitsAreSound
  <2>8. QED
    BY <1>1, <2>2, <2>7 DEF LoopInv
<1>2. CASE UNCHANGED loopVars
  BY <1>1, <1>2 DEF loopVars
<1>3. CASE \E price \in Quotes : StaleTick(price)
  BY <1>1, <1>3 DEF StaleTick, loopVars
<1>4. CASE NextSimDay
  BY <1>1, <1>4 DEF NextSimDay
<1>5. QED
  BY <1>2, <1>3, <1>4, LoopTickKeeps, AgesKeeps DEF LoopStep

\* What ends a position fits what came of it, a loss past the stop is a gap, and a
\* position that stands is one its chain lets stand (exit_chain/exit_evaluator.py,
\* paper/paper_loop.py): for any chain of conditions, signals and prices.
THEOREM ExitsStaySound == DaySpec => []ExitsAreSound
<1>1. DayInit => LoopInv
  BY LoopStarts DEF DayInit
<1>2. LoopInv /\ [DayNext]_dayVars => LoopInv'
  <2>1. [DayNext]_dayVars => [LoopStep]_loopVars
    BY DEF DayNext, QueenDay, BootDay, ServiceDay, LoopDay, LabDay, ScoutDay, ResetDay, dayVars
  <2>2. QED
    BY <2>1, LoopInvKept
<1>3. LoopInv => ExitsAreSound
  BY DEF LoopInv
<1>4. QED
  BY <1>1, <1>2, <1>3, PTL DEF DaySpec

--------------------------------------------------------------------------------
(* The walk of a backtest.                                                      *)

TradeSet == [entry : Nat, exit : Nat, price : Int, why : {"ttl", "target", "stop"}]

SeriesOK == closes \in Series /\ setup \in Setups

LEMMA SeriesFacts ==
  ASSUME SeriesOK
  PROVE  /\ closes \in Seq(Nat) /\ Final \in Nat \ {0}
         /\ \A b \in 1 .. Final : closes[b] \in Nat
         /\ setup.target \in Nat \ {0} /\ setup.stop \in Nat \ {0} /\ setup.hold \in Nat \ {0}
<1>1. closes \in Seq(Nat) /\ closes # <<>>
  BY BacktestAssumption DEF SeriesOK
<1>2. setup.target \in Nat \ {0} /\ setup.stop \in Nat \ {0} /\ setup.hold \in Nat \ {0}
  BY BacktestAssumption DEF SeriesOK, IsBacktestConfig
<1>3. QED
  BY <1>1, <1>2 DEF Final

LEMMA WindowFacts ==
  ASSUME SeriesOK, NEW b \in 1 .. Final - 1
  PROVE  /\ WindowEnd(b) \in b + 1 .. Final /\ WindowEnd(b) <= b + setup.hold
         /\ WindowEnd(b) \in {b + setup.hold, Final}
<1>1. Final \in Nat \ {0} /\ setup.hold \in Nat \ {0} /\ b \in Nat
  BY SeriesFacts
<1> DEFINE S == {b + setup.hold, Final}
<1>2. \E x \in S : \A y \in S : x <= y
  BY <1>1
<1>3. WindowEnd(b) \in S /\ \A y \in S : WindowEnd(b) <= y
  BY <1>2 DEF WindowEnd, Min
<1>4. QED
  BY <1>1, <1>3

\* A trade ends at the first bar of its window that reaches a limit, and at its end if
\* none does.
ExitFits(b, t) ==
  /\ t.entry = b /\ t.exit \in b + 1 .. WindowEnd(b)
  /\ \A k \in b + 1 .. t.exit - 1 : ~HitsTarget(b, k) /\ ~HitsStop(b, k)
  /\ \/ /\ t.why = "ttl" /\ t.exit = WindowEnd(b) /\ t.price = 100 * closes[t.exit]
        /\ ~HitsTarget(b, t.exit) /\ ~HitsStop(b, t.exit)
     \/ t.why = "target" /\ t.price = TargetPrice(b)
     \/ t.why = "stop" /\ t.price = StopPrice(b)

LEMMA PricesAreInts ==
  ASSUME SeriesOK, NEW b \in 1 .. Final
  PROVE  TargetPrice(b) \in Int /\ StopPrice(b) \in Int /\ 100 * closes[b] \in Int
<1>1. closes[b] \in Int /\ setup.target \in Int /\ setup.stop \in Int
  BY SeriesFacts
<1>2. \A x \in Int : closes[b] * x \in Int
  BY <1>1
<1>3. QED
  BY <1>1, <1>2 DEF TargetPrice, StopPrice

LEMMA ExitFacts ==
  ASSUME SeriesOK, NEW b \in 1 .. Final - 1
  PROVE  ExitOf(b) \in TradeSet /\ ExitFits(b, ExitOf(b))
<1>1. Final \in Nat \ {0} /\ b \in Nat /\ b \in 1 .. Final
  BY SeriesFacts
<1>2. WindowEnd(b) \in b + 1 .. Final /\ WindowEnd(b) \in Nat /\ WindowEnd(b) \in 1 .. Final
  BY <1>1, WindowFacts
<1>3. TargetPrice(b) \in Int /\ StopPrice(b) \in Int /\ 100 * closes[WindowEnd(b)] \in Int
  BY <1>1, <1>2, PricesAreInts
<1>4. CASE Hits(b) = {}
  <2>1. ExitOf(b) = [entry |-> b, exit |-> WindowEnd(b), price |-> 100 * closes[WindowEnd(b)], why |-> "ttl"]
    BY <1>4 DEF ExitOf
  <2>2. \A k \in b + 1 .. WindowEnd(b) : ~HitsTarget(b, k) /\ ~HitsStop(b, k)
    BY <1>4 DEF Hits
  <2>3. ExitOf(b) \in TradeSet
    BY <1>1, <1>2, <1>3, <2>1 DEF TradeSet
  <2>4. QED
    BY <1>1, <1>2, <2>1, <2>2, <2>3 DEF ExitFits
<1>5. CASE Hits(b) # {}
  <2> DEFINE k == Min(Hits(b))
  <2>1. Hits(b) \subseteq Nat
    BY <1>1, <1>2 DEF Hits
  <2>2. k \in Hits(b) /\ \A j \in Hits(b) : k <= j
    <3>1. \E j \in Hits(b) : \A i \in Hits(b) : j <= i
      BY <1>5, <2>1, LeastNat
    <3>2. QED
      BY <3>1 DEF Min
  <2>3. ExitOf(b) = IF HitsTarget(b, k) THEN [entry |-> b, exit |-> k, price |-> TargetPrice(b), why |-> "target"]
                    ELSE [entry |-> b, exit |-> k, price |-> StopPrice(b), why |-> "stop"]
    BY <1>5 DEF ExitOf
  <2> HIDE DEF k
  <2>4. k \in b + 1 .. WindowEnd(b) /\ k \in Nat
    BY <2>1, <2>2 DEF Hits
  <2>5. \A j \in b + 1 .. k - 1 : ~HitsTarget(b, j) /\ ~HitsStop(b, j)
    <3> SUFFICES ASSUME NEW j \in b + 1 .. k - 1, HitsTarget(b, j) \/ HitsStop(b, j) PROVE FALSE
      OBVIOUS
    <3>1. j \in b + 1 .. WindowEnd(b) /\ ~(k <= j)
      BY <1>1, <1>2, <2>4
    <3>2. j \in Hits(b)
      BY <3>1 DEF Hits
    <3>3. QED
      BY <2>2, <3>1, <3>2
  <2>6. ExitOf(b) \in TradeSet
    BY <1>1, <1>3, <2>3, <2>4 DEF TradeSet
  <2>7. /\ ExitOf(b).entry = b /\ ExitOf(b).exit = k
        /\ \/ ExitOf(b).why = "target" /\ ExitOf(b).price = TargetPrice(b)
           \/ ExitOf(b).why = "stop" /\ ExitOf(b).price = StopPrice(b)
    BY <2>3
  <2>8. QED
    BY <2>4, <2>5, <2>6, <2>7 DEF ExitFits
<1>6. QED
  BY <1>4, <1>5

\* The streaks of the trades so far.
StreakSet == [best : Nat, current : Nat]

Streak(k, before) ==
  LET current == IF Won(traded[k]) THEN before.current + 1 ELSE 0
  IN [best |-> Max({before.best, current}), current |-> current]

StreakOf(streaks, k) == IF k = 0 THEN [best |-> 0, current |-> 0] ELSE Streak(k, streaks[k - 1])

LEMMA LargerOfTwo ==
  ASSUME NEW a \in Nat, NEW b \in Nat
  PROVE  Max({a, b}) = IF a <= b THEN b ELSE a
<1> DEFINE larger == IF a <= b THEN b ELSE a
<1>1. larger \in {a, b} /\ (\A y \in {a, b} : y <= larger) /\ \A x \in {a, b} : (\A y \in {a, b} : y <= x) => x = larger
  OBVIOUS
<1>2. QED
  BY <1>1 DEF Max

LEMMA StreakType ==
  ASSUME NEW k, NEW before \in StreakSet
  PROVE  /\ Streak(k, before) \in StreakSet
         /\ Streak(k, before).current = IF Won(traded[k]) THEN before.current + 1 ELSE 0
         /\ before.best <= Streak(k, before).best /\ Streak(k, before).current <= Streak(k, before).best
         /\ Streak(k, before).best \in {before.best, Streak(k, before).current}
<1> DEFINE current == IF Won(traded[k]) THEN before.current + 1 ELSE 0
<1>1. before.best \in Nat /\ before.current \in Nat /\ current \in Nat
  BY DEF StreakSet
<1>2. Streak(k, before) = [best |-> Max({before.best, current}), current |-> current]
  BY DEF Streak
<1> HIDE DEF current
<1>3. Max({before.best, current}) = IF before.best <= current THEN current ELSE before.best
  BY <1>1, LargerOfTwo
<1>4. Streak(k, before).current = current
  BY <1>2
<1>5. QED
  BY <1>1, <1>2, <1>3, <1>4 DEF StreakSet, current

\* The recursive definition has a value: what it computes.
LEMMA StreaksMeet ==
  ASSUME Len(traded) \in Nat
  PROVE  /\ Streaks[0] = [best |-> 0, current |-> 0]
         /\ \A k \in 0 .. Len(traded) : Streaks[k] \in StreakSet
         /\ \A k \in 1 .. Len(traded) : Streaks[k] = Streak(k, Streaks[k - 1])
<1> DEFINE n == Len(traded)
           Meets(f) == f = [k \in 0 .. n |-> StreakOf(f, k)]
           next == [p \in (1 .. n) \X StreakSet |-> Streak(p[1], p[2])]
           none == [best |-> 0, current |-> 0]
<1>1. Streaks = CHOOSE f : Meets(f)
  BY Zenon DEF Streaks, StreakOf, Streak
<1>2. none \in StreakSet
  BY DEF StreakSet
<1>3. \A k \in 1 .. n, v \in StreakSet : next[<<k, v>>] = Streak(k, v) /\ next[<<k, v>>] \in StreakSet
  BY StreakType
<1> HIDE DEF next, none
<1>4. \E f : Recurs(f, n, StreakSet, none, next)
  <2>1. n \in Nat /\ \A k \in 1 .. n, v \in StreakSet : next[<<k, v>>] \in StreakSet
    BY <1>3
  <2> HIDE DEF n
  <2>2. QED
    BY <1>2, <2>1, RecursionUpTo, Zenon
<1>5. PICK f \in [0 .. n -> StreakSet] : f[0] = none /\ \A k \in 1 .. n : f[k] = next[<<k, f[k - 1]>>]
  BY <1>4 DEF Recurs
<1>6. \A k \in 0 .. n : f[k] = StreakOf(f, k)
  <2> SUFFICES ASSUME NEW k \in 0 .. n PROVE f[k] = StreakOf(f, k)
    OBVIOUS
  <2>1. CASE k = 0
    BY <1>5, <2>1 DEF StreakOf, none
  <2>2. CASE k # 0
    <3>1. k \in 1 .. n /\ f[k - 1] \in StreakSet
      BY <1>5, <2>2
    <3>2. f[k] = Streak(k, f[k - 1])
      BY <1>3, <1>5, <3>1
    <3>3. QED
      BY <2>2, <3>2 DEF StreakOf
  <2>3. QED
    BY <2>1, <2>2
<1>7. f = [k \in 0 .. n |-> StreakOf(f, k)]
  BY <1>5, <1>6
<1>8. Meets(Streaks)
  <2>1. \E g : Meets(g)
    BY <1>7
  <2>2. Meets(CHOOSE g : Meets(g))
    BY <2>1, Zenon
  <2>3. QED
    BY <1>1, <2>2, Zenon
<1>9. ASSUME NEW k \in 0 .. n PROVE Streaks[k] = StreakOf(Streaks, k)
  <2> DEFINE down == [j \in 0 .. n |-> StreakOf(Streaks, j)]
  <2>1. down[k] = StreakOf(Streaks, k)
    OBVIOUS
  <2>2. Streaks = down
    BY <1>8, Zenon
  <2>3. QED
    BY <2>1, <2>2, Zenon
<1>10. Streaks[0] = none /\ \A k \in 1 .. n : Streaks[k] = Streak(k, Streaks[k - 1])
  BY <1>9 DEF StreakOf, none
<1> DEFINE Typed == {k \in 0 .. n : Streaks[k] \in StreakSet}
<1>11. 0 \in Typed /\ \A k \in 1 .. n : k - 1 \in Typed => k \in Typed
  BY <1>2, <1>10, StreakType
<1>12. 0 .. n \subseteq Typed
  <2> HIDE DEF Typed
  <2>1. QED
    BY <1>11, InductionUpTo
<1>13. QED
  BY <1>10, <1>12 DEF none

\* The trades up to one that won.
WonUpTo(n) == {k \in 1 .. n : Won(traded[k])}

LEMMA WonSoFar ==
  ASSUME NEW n \in Nat
  PROVE  /\ IsFiniteSet(WonUpTo(n)) /\ Cardinality(WonUpTo(n)) \in Nat
         /\ Cardinality(WonUpTo(0)) = 0
         /\ n > 0 => Cardinality(WonUpTo(n)) =
              IF Won(traded[n]) THEN Cardinality(WonUpTo(n - 1)) + 1 ELSE Cardinality(WonUpTo(n - 1))
<1>1. \A m \in Nat : IsFiniteSet(WonUpTo(m)) /\ Cardinality(WonUpTo(m)) \in Nat
  <2> SUFFICES ASSUME NEW m \in Nat PROVE IsFiniteSet(WonUpTo(m)) /\ Cardinality(WonUpTo(m)) \in Nat
    OBVIOUS
  <2>1. WonUpTo(m) \in SUBSET Nat /\ \A k \in WonUpTo(m) : k <= m
    BY DEF WonUpTo
  <2>2. QED
    BY <2>1, FS_BoundedSetOfNaturals, FS_CardinalityType
<1>2. WonUpTo(0) = {}
  BY DEF WonUpTo
<1>3. ASSUME n > 0
      PROVE  Cardinality(WonUpTo(n)) =
               IF Won(traded[n]) THEN Cardinality(WonUpTo(n - 1)) + 1 ELSE Cardinality(WonUpTo(n - 1))
  <2>1. n - 1 \in Nat /\ n \notin WonUpTo(n - 1)
    BY <1>3 DEF WonUpTo
  <2>2. CASE Won(traded[n])
    <3>1. WonUpTo(n) = WonUpTo(n - 1) \cup {n}
      BY <1>3, <2>2 DEF WonUpTo
    <3>2. QED
      BY <1>1, <2>1, <2>2, <3>1, FS_AddElement
  <2>3. CASE ~Won(traded[n])
    <3>1. WonUpTo(n) = WonUpTo(n - 1)
      BY <1>3, <2>3 DEF WonUpTo
    <3>2. QED
      BY <2>3, <3>1
  <2>4. QED
    BY <2>2, <2>3
<1>4. QED
  BY <1>1, <1>2, <1>3, FS_EmptySet

\* The best streak never shrinks, is no shorter than the one that goes on, and no
\* longer than the trades that won.
LEMMA StreaksFit ==
  ASSUME traded \in Seq(TradeSet)
  PROVE  \A n \in 0 .. Len(traded) :
           /\ \A k \in 0 .. n : Streaks[k].best <= Streaks[n].best
           /\ Streaks[n].current <= Streaks[n].best
           /\ Streaks[n].best <= Cardinality(WonUpTo(n))
<1> DEFINE Fits == {n \in 0 .. Len(traded) :
                      /\ \A k \in 0 .. n : Streaks[k].best <= Streaks[n].best
                      /\ Streaks[n].current <= Streaks[n].best
                      /\ Streaks[n].best <= Cardinality(WonUpTo(n))}
<1>1. \A n \in 0 .. Len(traded) : Streaks[n] \in StreakSet /\ Streaks[n].best \in Nat /\ Streaks[n].current \in Nat
  BY StreaksMeet DEF StreakSet
<1>2. 0 \in Fits
  <2>1. Streaks[0].best = 0 /\ Streaks[0].current = 0 /\ Cardinality(WonUpTo(0)) = 0
    BY StreaksMeet, WonSoFar
  <2>2. QED
    BY <2>1
<1>3. ASSUME NEW n \in 1 .. Len(traded), n - 1 \in Fits PROVE n \in Fits
  <2> DEFINE before == Streaks[n - 1]
             now    == Streaks[n]
  <2>1. /\ n - 1 \in 0 .. Len(traded) /\ before.best \in Nat /\ before.current \in Nat
        /\ now.best \in Nat /\ now.current \in Nat /\ before \in StreakSet /\ now = Streak(n, before)
    BY <1>1, StreaksMeet
  <2>2. /\ now.current = IF Won(traded[n]) THEN before.current + 1 ELSE 0
        /\ before.best <= now.best /\ now.current <= now.best
        /\ now.best \in {before.best, now.current}
    BY <2>1, StreakType
  <2>3. /\ \A k \in 0 .. n - 1 : Streaks[k].best <= before.best
        /\ before.current <= before.best
        /\ before.best <= Cardinality(WonUpTo(n - 1))
    BY <1>3
  <2>4. /\ Cardinality(WonUpTo(n)) \in Nat /\ Cardinality(WonUpTo(n - 1)) \in Nat
        /\ Cardinality(WonUpTo(n)) =
             IF Won(traded[n]) THEN Cardinality(WonUpTo(n - 1)) + 1 ELSE Cardinality(WonUpTo(n - 1))
    BY <2>1, WonSoFar
  <2>5. \A k \in 0 .. n - 1 : Streaks[k].best \in Nat
    BY <1>1
  <2> HIDE DEF before, now
  <2>6. now.best <= Cardinality(WonUpTo(n))
    BY <2>1, <2>2, <2>3, <2>4
  <2>7. \A k \in 0 .. n : Streaks[k].best <= now.best
    <3> SUFFICES ASSUME NEW k \in 0 .. n PROVE Streaks[k].best <= now.best
      OBVIOUS
    <3>1. CASE k = n
      BY <2>1, <3>1 DEF now
    <3>2. CASE k # n
      <4>1. k \in 0 .. n - 1
        BY <3>2
      <4>2. Streaks[k].best <= before.best /\ Streaks[k].best \in Nat
        BY <2>3, <2>5, <4>1
      <4>3. QED
        BY <2>1, <2>2, <4>2
    <3>3. QED
      BY <3>1, <3>2
  <2>8. QED
    BY <2>2, <2>6, <2>7 DEF now
<1>4. 0 .. Len(traded) \subseteq Fits
  <2>1. Len(traded) \in Nat
    OBVIOUS
  <2> HIDE DEF Fits
  <2>2. QED
    BY <1>2, <1>3, <2>1, InductionUpTo
<1>5. QED
  BY <1>4

\* After a run of trades that won the streak is at least as long.
LEMMA RunsAreStreaks ==
  ASSUME traded \in Seq(TradeSet), NEW first \in 1 .. Len(traded), NEW last \in first .. Len(traded),
         \A k \in first .. last : Won(traded[k])
  PROVE  last - first < Streaks[last].current
<1> DEFINE Runs == {n \in 0 .. Len(traded) : n \in first .. last => n - first < Streaks[n].current}
<1>1. \A n \in 0 .. Len(traded) : Streaks[n] \in StreakSet /\ Streaks[n].current \in Nat
  BY StreaksMeet DEF StreakSet
<1>2. 0 \in Runs
  OBVIOUS
<1>3. ASSUME NEW n \in 1 .. Len(traded), n - 1 \in Runs PROVE n \in Runs
  <2> SUFFICES ASSUME n \in first .. last PROVE n - first < Streaks[n].current
    OBVIOUS
  <2>1. Streaks[n - 1].current \in Nat /\ Streaks[n].current = Streaks[n - 1].current + 1
    <3>1. Streaks[n - 1] \in StreakSet /\ Streaks[n - 1].current \in Nat /\ Streaks[n] = Streak(n, Streaks[n - 1])
      <4>1. n - 1 \in 0 .. Len(traded)
        OBVIOUS
      <4>2. Len(traded) \in Nat
        OBVIOUS
      <4>3. \A k \in 1 .. Len(traded) : Streaks[k] = Streak(k, Streaks[k - 1])
        BY <4>2, StreaksMeet, Zenon
      <4> QED BY <1>1, <4>1, <4>3, Zenon
    <3>2. Won(traded[n])
      BY Zenon
    <3>3. QED
      BY <3>1, <3>2, StreakType
  <2>2. n = first \/ n - 1 - first < Streaks[n - 1].current
    BY <1>3
  <2>3. QED
    BY <2>1, <2>2
<1>4. 0 .. Len(traded) \subseteq Runs
  <2>1. Len(traded) \in Nat
    OBVIOUS
  <2> HIDE DEF Runs
  <2>2. QED
    BY <1>2, <1>3, <2>1, InductionUpTo
<1>5. last \in Runs
  BY <1>4
<1>6. QED
  BY <1>5

\* What is counted of the trades.
CountsFit(r) ==
  /\ \A first, last \in DOMAIN traded :
       (\A k \in first .. last : Won(traded[k])) => last - first < r.streak
  /\ r.streak <= r.won
  /\ r.regimes["bull"] + r.regimes["bear"] + r.regimes["sideways"] =
       Cardinality({k \in DOMAIN traded : traded[k].entry >= Regular})

LEMMA RegimesPart ==
  ASSUME traded \in Seq(TradeSet)
  PROVE  Cardinality(RegimeTrades("bull")) + Cardinality(RegimeTrades("bear")) + Cardinality(RegimeTrades("sideways")) =
           Cardinality({k \in DOMAIN traded : traded[k].entry >= Regular})
<1> DEFINE bull == RegimeTrades("bull")
           bear == RegimeTrades("bear")
           side == RegimeTrades("sideways")
           dated == {k \in DOMAIN traded : traded[k].entry >= Regular}
<1>1. \A b : RegimeOf(b) \in {"bull", "bear", "sideways"}
  BY DEF RegimeOf
<1>2. /\ dated = (bull \cup bear) \cup side /\ bull \cap bear = {} /\ (bull \cup bear) \cap side = {}
  BY <1>1 DEF RegimeTrades
<1>3. IsFiniteSet(DOMAIN traded)
  <2>1. DOMAIN traded = 1 .. Len(traded)
    OBVIOUS
  <2>2. QED
    BY <2>1, FS_Interval
<1>4. IsFiniteSet(bull) /\ IsFiniteSet(bear) /\ IsFiniteSet(side)
  <2>1. bull \in SUBSET DOMAIN traded /\ bear \in SUBSET DOMAIN traded /\ side \in SUBSET DOMAIN traded
    BY DEF RegimeTrades
  <2>2. QED
    BY <1>3, <2>1, FS_Subset
<1> HIDE DEF bull, bear, side, dated
<1>5. /\ IsFiniteSet(bull \cup bear)
      /\ Cardinality(bull \cup bear) = Cardinality(bull) + Cardinality(bear) - Cardinality(bull \cap bear)
  BY <1>4, FS_Union
<1>6. Cardinality(dated) = Cardinality(bull \cup bear) + Cardinality(side) - Cardinality((bull \cup bear) \cap side)
  BY <1>2, <1>4, <1>5, FS_Union
<1>7. Cardinality(bull) \in Nat /\ Cardinality(bear) \in Nat /\ Cardinality(side) \in Nat /\ Cardinality({}) = 0
  BY <1>4, FS_CardinalityType, FS_EmptySet
<1>8. Cardinality(bull) + Cardinality(bear) + Cardinality(side) = Cardinality(dated)
  <2>1. Cardinality(bull \cup bear) = Cardinality(bull) + Cardinality(bear) - Cardinality({})
    BY <1>2, <1>5
  <2>2. Cardinality(dated) = Cardinality(bull \cup bear) + Cardinality(side) - Cardinality({})
    BY <1>2, <1>6
  <2>3. QED
    BY <1>7, <2>1, <2>2
<1>9. QED
  BY <1>8 DEF bull, bear, side, dated

LEMMA ResultsFit ==
  ASSUME traded \in Seq(TradeSet)
  PROVE  CountsFit(Results)
<1>1. Len(traded) \in Nat /\ DOMAIN traded = 1 .. Len(traded)
  OBVIOUS
<1>2. /\ Results.won = Cardinality(WonUpTo(Len(traded)))
      /\ Results.streak = Streaks[Len(traded)].best
      /\ \A r \in {"bull", "bear", "sideways"} : Results.regimes[r] = Cardinality(RegimeTrades(r))
  BY <1>1 DEF Results, WonUpTo
<1>3. ASSUME NEW first \in DOMAIN traded, NEW last \in DOMAIN traded, \A k \in first .. last : Won(traded[k])
      PROVE  last - first < Results.streak
  <2>1. Streaks[last].current \in Nat /\ Streaks[last].best \in Nat /\ Streaks[Len(traded)].best \in Nat
    BY <1>1, StreaksMeet DEF StreakSet
  <2>2. Streaks[last].current <= Streaks[last].best /\ Streaks[last].best <= Streaks[Len(traded)].best
    BY <1>1, StreaksFit
  <2>3. CASE first <= last
    <3>1. first \in 1 .. Len(traded) /\ last \in first .. Len(traded)
      BY <1>1, <2>3
    <3>2. last - first < Streaks[last].current
      BY <1>3, <3>1, RunsAreStreaks
    <3>3. QED
      BY <1>2, <2>1, <2>2, <3>1, <3>2
  <2>4. CASE ~(first <= last)
    BY <1>1, <1>2, <2>1, <2>4
  <2>5. QED
    BY <2>3, <2>4
<1>4. Results.streak <= Results.won
  BY <1>1, <1>2, StreaksFit
<1>5. QED
  BY <1>2, <1>3, <1>4, RegimesPart DEF CountsFit

TradeFits(t) == t.entry \in 1 .. Final - 1 /\ Valid(t.entry) /\ ExitFits(t.entry, t)

\* Trades fit and follow one another; what was passed without a trade gave no signal; what
\* was counted at the end fits the trades.
WalkInv ==
  /\ SeriesOK
  /\ bar \in Nat \ {0} /\ traded \in Seq(TradeSet)
  /\ \A k \in 1 .. Len(traded), t \in TradeSet : traded[k] = t => TradeFits(t) /\ t.exit < bar
  /\ \A k \in 2 .. Len(traded) : traded[k - 1].exit < traded[k].entry
  /\ \A b \in 1 .. Final - 1 : b < bar /\ ~InTrade(b) /\ Valid(b) => ~Signals(b)
  /\ backtest = "done" => bar >= Final /\ CountsFit(results)

LEMMA WalkStarts ==
  ASSUME BacktestInit
  PROVE  WalkInv
BY DEF BacktestInit, WalkInv, SeriesOK

\* The series and the config of a backtest never change, and nothing that is computed
\* from them does.
LEMMA SumsFrozen ==
  ASSUME closes' = closes, NEW a, NEW b
  PROVE  /\ Added(a, b)' = Added(a, b) /\ Squares(a, b)' = Squares(a, b)
<1>1. Added(a, b)' = Added(a, b)
  BY Zenon DEF Added, SumFunctionOnSet, FoldFunctionOnSet, MapThenFoldSet
<1>2. Squares(a, b)' = Squares(a, b)
  <2> DEFINE squares == [k \in a .. b |-> closes[k] * closes[k]]
  <2>1. squares' = squares
    OBVIOUS
  <2>2. Squares(a, b) = SumFunction(squares) /\ Squares(a, b)' = SumFunction(squares')
    BY DEF Squares
  <2> HIDE DEF squares
  <2>3. QED
    BY <2>1, <2>2
<1>3. QED
  BY <1>1, <1>2

LEMMA ChangesFrozen ==
  ASSUME closes' = closes, NEW b
  PROVE  /\ Gains(b)' = Gains(b) /\ Losses(b)' = Losses(b)
<1>1. Gains(b)' = Gains(b)
  <2> DEFINE rises == [k \in b - Period + 1 .. b |-> Rise(k)]
  <2>1. rises' = rises
    BY DEF Rise
  <2>2. Gains(b) = SumFunction(rises) /\ Gains(b)' = SumFunction(rises')
    BY DEF Gains
  <2> HIDE DEF rises
  <2>3. QED
    BY <2>1, <2>2
<1>2. Losses(b)' = Losses(b)
  <2> DEFINE falls == [k \in b - Period + 1 .. b |-> Fall(k)]
  <2>1. falls' = falls
    BY DEF Fall
  <2>2. Losses(b) = SumFunction(falls) /\ Losses(b)' = SumFunction(falls')
    BY DEF Losses
  <2> HIDE DEF falls
  <2>3. QED
    BY <2>1, <2>2
<1>3. QED
  BY <1>1, <1>2

LEMMA SignalsFrozen ==
  ASSUME closes' = closes, setup' = setup, NEW b
  PROVE  Signals(b)' <=> Signals(b)
<1>1. Long' <=> Long
  BY DEF Long
<1>2. \A x : Spread(x)' = Spread(x)
  BY SumsFrozen DEF Spread
<1>3. /\ Away(b)' = Away(b) /\ Spreadness(b)' = Spreadness(b)
  BY SumsFrozen DEF Away, Spreadness
<1>4. Crossed(b)' <=> Crossed(b)
  BY <1>1, <1>2 DEF Crossed
<1>5. Stretched(b)' <=> Stretched(b)
  BY <1>1, ChangesFrozen DEF Stretched
<1>6. /\ AtBand(b)' <=> AtBand(b)
      /\ Reverted(b)' <=> Reverted(b)
  BY <1>1, <1>3 DEF AtBand, Reverted, OnTheSide
<1>7. Moving(b)' <=> Moving(b)
  BY <1>1 DEF Moving
<1>8. QED
  BY <1>4, <1>5, <1>6, <1>7 DEF Signals

LEMMA TradesFrozen ==
  ASSUME closes' = closes, setup' = setup, NEW b, NEW t
  PROVE  /\ Final' = Final /\ (SeriesOK' <=> SeriesOK)
         /\ Valid(b)' <=> Valid(b)
         /\ ExitFits(b, t)' <=> ExitFits(b, t)
<1>1. Final' = Final /\ (Long' <=> Long) /\ (SeriesOK' <=> SeriesOK)
  BY DEF Final, Long, SeriesOK
<1>2. TargetPrice(b)' = TargetPrice(b) /\ StopPrice(b)' = StopPrice(b)
  BY <1>1 DEF TargetPrice, StopPrice
<1>3. \A k : (Valid(k)' <=> Valid(k))
  BY DEF Valid
<1>4. \A k : (HitsTarget(b, k)' <=> HitsTarget(b, k)) /\ (HitsStop(b, k)' <=> HitsStop(b, k))
  BY <1>1, <1>2, <1>3 DEF HitsTarget, HitsStop
<1>5. WindowEnd(b)' = WindowEnd(b)
  BY <1>1 DEF WindowEnd
<1>6. QED
  BY <1>1, <1>2, <1>3, <1>4, <1>5 DEF ExitFits

LEMMA FitsFrozen ==
  ASSUME closes' = closes, setup' = setup, NEW t
  PROVE  TradeFits(t)' <=> TradeFits(t)
<1>1. \A b : (Valid(b)' <=> Valid(b)) /\ (ExitFits(b, t)' <=> ExitFits(b, t))
  BY TradesFrozen
<1>2. Final' = Final
  BY TradesFrozen
<1>3. QED
  BY <1>1, <1>2 DEF TradeFits

\* What holds of the walk up to a bar holds in the next state with the same trades.
LEMMA WalkFrozen ==
  ASSUME WalkInv, UNCHANGED <<closes, setup, bar, traded>>,
         backtest' = "done" => bar >= Final /\ CountsFit(results)'
  PROVE  WalkInv'
<1>1. \A b : (Signals(b)' <=> Signals(b)) /\ (Valid(b)' <=> Valid(b)) /\ (InTrade(b)' <=> InTrade(b))
  BY SignalsFrozen, TradesFrozen DEF InTrade
<1>2. \A t : TradeFits(t)' <=> TradeFits(t)
  BY FitsFrozen
<1>3. Final' = Final /\ (SeriesOK' <=> SeriesOK)
  BY TradesFrozen
<1>4. QED
  BY <1>1, <1>2, <1>3 DEF WalkInv

LEMMA WalkBarKeeps ==
  ASSUME WalkInv, WalkBar
  PROVE  WalkInv'
<1> USE DEF WalkInv
<1>1. UNCHANGED <<closes, setup>> /\ backtest = "walking" /\ bar < Final /\ backtest' # "done"
  BY DEF WalkBar
<1>2. /\ \A b : (Signals(b)' <=> Signals(b)) /\ (Valid(b)' <=> Valid(b))
      /\ \A t : TradeFits(t)' <=> TradeFits(t)
      /\ Final' = Final /\ SeriesOK' /\ Final \in Nat \ {0} /\ bar \in 1 .. Final - 1
  <2>1. \A b : Signals(b)' <=> Signals(b)
    BY <1>1, SignalsFrozen
  <2>2. /\ \A b : Valid(b)' <=> Valid(b)
        /\ \A t : TradeFits(t)' <=> TradeFits(t)
        /\ Final' = Final /\ SeriesOK'
    BY <1>1, TradesFrozen, FitsFrozen
  <2>3. Final \in Nat \ {0} /\ bar \in 1 .. Final - 1
    <3>1. SeriesOK /\ bar \in Nat \ {0}
      OBVIOUS
    <3>2. QED
      BY <1>1, <3>1, SeriesFacts
  <2>4. QED
    BY <2>1, <2>2, <2>3
<1>3. CASE UNCHANGED <<bar, traded>>
  BY <1>1, <1>3, WalkFrozen
<1>4. CASE Skip /\ ~(Valid(bar) /\ Signals(bar))
  <2>1. bar' = bar + 1 /\ traded' = traded
    BY <1>4 DEF Skip
  <2>2. \A b : InTrade(b)' <=> InTrade(b)
    BY <2>1 DEF InTrade
  <2>3. \A t \in TradeSet : t.exit \in Nat
    BY DEF TradeSet
  <2>4. \A k \in 1 .. Len(traded'), t \in TradeSet : traded'[k] = t => TradeFits(t)' /\ t.exit < bar'
    <3> SUFFICES ASSUME NEW k \in 1 .. Len(traded), NEW t \in TradeSet, traded[k] = t
                 PROVE  TradeFits(t) /\ t.exit < bar + 1
      BY <1>2, <2>1
    <3>1. TradeFits(t) /\ t.exit < bar /\ t.exit \in Nat /\ bar \in Nat
      BY <2>3
    <3>2. QED
      BY <3>1
  <2>5. \A b \in 1 .. Final' - 1 : b < bar' /\ ~InTrade(b)' /\ Valid(b)' => ~Signals(b)'
    <3> SUFFICES ASSUME NEW b \in 1 .. Final - 1, b < bar + 1, ~InTrade(b), Valid(b)
                 PROVE  ~Signals(b)
      BY <1>2, <2>1, <2>2
    <3>1. b < bar \/ b = bar
      BY <1>2
    <3>2. QED
      BY <1>4, <3>1
  <2>6. QED
    BY <1>1, <1>2, <2>1, <2>4, <2>5
<1>5. CASE Trade /\ Valid(bar)
  <2> DEFINE t == ExitOf(bar)
  <2>1. traded' = Append(traded, t) /\ bar' = t.exit + 1
    BY <1>5 DEF Trade
  <2>2. t \in TradeSet /\ ExitFits(bar, t)
    BY <1>2, ExitFacts
  <2> HIDE DEF t
  <2>3. t.entry = bar /\ t.exit \in Nat /\ bar < t.exit /\ TradeFits(t)
    BY <1>2, <1>5, <2>2, WindowFacts DEF ExitFits, TradeFits
  <2>4. /\ traded' \in Seq(TradeSet) /\ Len(traded') = Len(traded) + 1 /\ Len(traded) \in Nat
        /\ traded'[Len(traded) + 1] = t
        /\ \A k \in 1 .. Len(traded) : traded'[k] = traded[k] /\ traded[k] \in TradeSet
    BY <2>1, <2>2
  <2>5. ASSUME NEW k \in 1 .. Len(traded'), NEW u \in TradeSet, traded'[k] = u
        PROVE  TradeFits(u)' /\ u.exit < bar'
    <3>1. CASE k = Len(traded) + 1
      BY <1>2, <2>1, <2>3, <2>4, <2>5, <3>1
    <3>2. CASE k \in 1 .. Len(traded)
      <4>1. traded[k] = u
        BY <2>4, <2>5, <3>2
      <4>2. TradeFits(u) /\ u.exit < bar /\ u.exit \in Nat
        BY <3>2, <4>1 DEF TradeSet
      <4>3. u.exit < bar'
        BY <1>2, <2>1, <2>3, <4>2
      <4>4. QED
        BY <1>2, <4>2, <4>3
    <3>3. QED
      BY <2>4, <3>1, <3>2
  <2>9. ASSUME NEW k \in 2 .. Len(traded')
        PROVE  traded'[k - 1].exit < traded'[k].entry
    <3>1. k - 1 \in 1 .. Len(traded) /\ traded'[k - 1] = traded[k - 1] /\ traded[k - 1] \in TradeSet
      BY <2>4
    <3>2. CASE k = Len(traded) + 1
      <4>1. traded[k - 1].exit < bar
        BY <3>1
      <4>2. QED
        BY <2>3, <2>4, <3>1, <3>2, <4>1
    <3>3. CASE k \in 2 .. Len(traded)
      BY <2>4, <3>1, <3>3
    <3>4. QED
      BY <2>4, <3>2, <3>3
  <2>6. \A b \in 1 .. Final' - 1 : b < bar' /\ ~InTrade(b)' /\ Valid(b)' => ~Signals(b)'
    <3> SUFFICES ASSUME NEW b \in 1 .. Final - 1, b < bar', ~InTrade(b)', Valid(b)
                 PROVE  ~Signals(b)
      BY <1>2
    <3>1. ~InTrade(b)
      <4> SUFFICES ASSUME NEW k \in DOMAIN traded, traded[k].entry <= b, b <= traded[k].exit
                   PROVE  FALSE
        BY DEF InTrade
      <4>1. k \in DOMAIN traded' /\ traded'[k] = traded[k]
        BY <2>4
      <4>2. QED
        BY <4>1 DEF InTrade
    <3>2. ~(bar <= b)
      <4> SUFFICES ASSUME bar <= b PROVE FALSE
        OBVIOUS
      <4>1. b <= t.exit
        BY <2>1, <2>3
      <4>2. Len(traded) + 1 \in DOMAIN traded'
        BY <2>4
      <4>3. QED
        BY <2>3, <2>4, <4>1, <4>2 DEF InTrade
    <3>3. QED
      BY <1>2, <3>1, <3>2
  <2>7. bar' \in Nat \ {0}
    BY <2>1, <2>3
  <2>8. QED
    BY <1>1, <1>2, <2>4, <2>5, <2>6, <2>7, <2>9
<1>6. QED
  BY <1>3, <1>4, <1>5 DEF WalkBar

\* A return depends on the prices, the config and the trade only.
LEMMA WonFrozen ==
  ASSUME closes' = closes, setup' = setup, NEW t
  PROVE  Won(t)' <=> Won(t)
<1>1. Long' <=> Long
  BY DEF Long
<1>2. QED
  BY <1>1 DEF Won

LEMMA WalkKept ==
  ASSUME WalkInv, [BacktestStep]_btVars
  PROVE  WalkInv'
<1>1. CASE UNCHANGED btVars
  <2>1. UNCHANGED <<closes, setup, bar, traded, backtest, results>>
    BY <1>1 DEF btVars
  <2>2. \A t : Won(t)' <=> Won(t)
    BY <2>1, WonFrozen
  <2>3. CountsFit(results)' <=> CountsFit(results)
    BY <2>1, <2>2 DEF CountsFit
  <2>4. QED
    BY <2>1, <2>3, WalkFrozen DEF WalkInv
<1>2. CASE WalkEnds
  <2>1. UNCHANGED <<closes, setup, bar, traded>> /\ bar >= Final /\ results' = Results
    BY <1>2 DEF WalkEnds
  <2>2. CountsFit(Results)
    BY ResultsFit DEF WalkInv
  <2>3. \A t : Won(t)' <=> Won(t)
    BY <2>1, WonFrozen
  <2>4. CountsFit(results)'
    BY <2>1, <2>2, <2>3 DEF CountsFit
  <2>5. QED
    BY <2>1, <2>4, WalkFrozen
<1>3. QED
  BY <1>1, <1>2, WalkBarKeeps DEF BacktestStep

\* A target that is more than the costs on either side is a gain.
LEMMA TargetWins ==
  ASSUME SeriesOK, NEW t \in TradeSet, t.entry \in 1 .. Final, Valid(t.entry),
         t.price = TargetPrice(t.entry), setup.target * (10000 - Cost) > 200 * Cost
  PROVE  Won(t)
<1> DEFINE c == closes[t.entry]
           g == setup.target
<1>1. c \in Nat \ {0} /\ g \in Nat \ {0} /\ Cost \in 0 .. 9999
  <2>1. Cost \in 0 .. 9999
    BY BacktestAssumption
  <2>2. c \in Nat \ {0} /\ g \in Nat \ {0}
    BY SeriesFacts DEF Valid
  <2>3. QED
    BY <2>1, <2>2
<1> HIDE DEF c, g
<1>2. g * (10000 - Cost) > 200 * Cost /\ g * Cost \in Nat /\ g * (10000 - Cost) = 10000 * g - g * Cost
  <2>1. g * (10000 - Cost) > 200 * Cost
    BY SMT DEF g
  <2>2. g * Cost \in Nat
    BY SMT, <1>1
  <2>3. g * (10000 - Cost) = 10000 * g - g * Cost
    BY SMT, <1>1
  <2>4. QED
    BY SMT, <2>1, <2>2, <2>3
<1>3. CASE Long
  <2>1. (100 + g) * (10000 - Cost) > 100 * (10000 + Cost)
    <3>1. (100 + g) * (10000 - Cost) = 1000000 - 100 * Cost + g * (10000 - Cost)
      BY SMT, <1>1, <1>2
    <3>2. QED
      BY SMT, <1>1, <1>2, <3>1
  <2>2. \A x, y \in Int : x > y => c * x > c * y
    BY SMT, <1>1
  <2>3. (100 + g) * (10000 - Cost) \in Int /\ 100 * (10000 + Cost) \in Int
    BY SMT, <1>1, <1>2
  <2>4. c * ((100 + g) * (10000 - Cost)) > c * (100 * (10000 + Cost))
    BY SMT, <2>1, <2>2, <2>3
  <2>5. /\ c * ((100 + g) * (10000 - Cost)) = (c * (100 + g)) * (10000 - Cost)
        /\ c * (100 * (10000 + Cost)) = (100 * c) * (10000 + Cost)
    BY SMT, <1>1
  <2>6. t.price = c * (100 + g)
    BY SMT, <1>3 DEF TargetPrice, c, g
  <2>7. QED
    BY SMT, <1>3, <2>4, <2>5, <2>6 DEF Won, c
<1>4. CASE ~Long
  <2>1. (100 - g) * (10000 + Cost) < 100 * (10000 - Cost)
    <3>1. (100 - g) * (10000 + Cost) = 1000000 + 100 * Cost - (10000 * g + g * Cost)
      BY SMT, <1>1
    <3> DEFINE p == 10000 * g
               q == g * Cost
    <3>2. p \in Int /\ q \in Int /\ q >= 0 /\ p - q > 200 * Cost
      BY SMT, <1>1, <1>2
    <3> HIDE DEF p, q
    <3>3. 1000000 + 100 * Cost - (p + q) < 1000000 - 100 * Cost
      BY SMT, <1>1, <3>2
    <3>4. 1000000 + 100 * Cost - (10000 * g + g * Cost) < 1000000 - 100 * Cost
      BY SMT, <3>3 DEF p, q
    <3>5. 100 * (10000 - Cost) = 1000000 - 100 * Cost
      BY SMT, <1>1
    <3>6. QED
      BY SMT, <3>1, <3>4, <3>5
  <2>2. \A x, y \in Int : x < y => c * x < c * y
    BY SMT, <1>1
  <2>3. (100 - g) * (10000 + Cost) \in Int /\ 100 * (10000 - Cost) \in Int
    BY SMT, <1>1, <1>2
  <2>4. c * ((100 - g) * (10000 + Cost)) < c * (100 * (10000 - Cost))
    BY SMT, <2>1, <2>2, <2>3
  <2>5. /\ c * ((100 - g) * (10000 + Cost)) = (c * (100 - g)) * (10000 + Cost)
        /\ c * (100 * (10000 - Cost)) = (100 * c) * (10000 - Cost)
    BY SMT, <1>1
  <2>6. t.price = c * (100 - g)
    BY SMT, <1>4 DEF TargetPrice, c, g
  <2>7. QED
    BY SMT, <1>4, <2>4, <2>5, <2>6 DEF Won, c
<1>5. QED
  BY SMT, <1>3, <1>4

\* Which side of the stop the target is on.
LEMMA TargetBeyondStop ==
  ASSUME SeriesOK, NEW b \in 1 .. Final, Valid(b)
  PROVE  IF Long THEN TargetPrice(b) > StopPrice(b) ELSE TargetPrice(b) < StopPrice(b)
<1> DEFINE c == closes[b]
<1>1. c \in Nat \ {0} /\ setup.target \in Nat \ {0} /\ setup.stop \in Nat \ {0}
  BY SeriesFacts DEF Valid
<1> HIDE DEF c
<1>2. \A x, y \in Int : x > y => c * x > c * y
  BY <1>1
<1>3. /\ 100 + setup.target > 100 - setup.stop /\ 100 + setup.stop > 100 - setup.target
      /\ {100 + setup.target, 100 - setup.stop, 100 + setup.stop, 100 - setup.target} \subseteq Int
  BY <1>1
<1>4. /\ c * (100 + setup.target) > c * (100 - setup.stop)
      /\ c * (100 + setup.stop) > c * (100 - setup.target)
  BY <1>2, <1>3
<1>5. /\ c * (100 + setup.target) \in Int /\ c * (100 - setup.stop) \in Int
      /\ c * (100 + setup.stop) \in Int /\ c * (100 - setup.target) \in Int
  BY <1>1
<1>6. QED
  BY <1>4, <1>5 DEF TargetPrice, StopPrice, c

LEMMA WalkIsSound ==
  ASSUME WalkInv
  PROVE  TradesAreSound
<1> USE DEF WalkInv
<1>1. ASSUME NEW k \in DOMAIN traded
      PROVE  LET t == traded[k]
             IN /\ t \in TradeSet /\ t.entry \in 1 .. Final - 1 /\ t.entry \in 1 .. Final
                /\ Valid(t.entry) /\ ExitFits(t.entry, t)
                /\ t.entry < t.exit /\ t.exit <= t.entry + setup.hold /\ t.exit \in 1 .. Final
                /\ WindowEnd(t.entry) \in {t.entry + setup.hold, Final}
  <2> DEFINE t == traded[k]
  <2>1. t \in TradeSet /\ t.entry \in 1 .. Final - 1 /\ Valid(t.entry) /\ ExitFits(t.entry, t)
    BY DEF TradeFits
  <2> HIDE DEF t
  <2>2. /\ WindowEnd(t.entry) \in t.entry + 1 .. Final /\ WindowEnd(t.entry) <= t.entry + setup.hold
        /\ WindowEnd(t.entry) \in {t.entry + setup.hold, Final}
    BY <2>1, WindowFacts
  <2>3. t.exit \in t.entry + 1 .. WindowEnd(t.entry)
    BY <2>1 DEF ExitFits
  <2>4. Final \in Nat \ {0} /\ setup.hold \in Nat
    BY SeriesFacts
  <2>5. t.entry \in 1 .. Final /\ t.entry < t.exit /\ t.exit <= t.entry + setup.hold /\ t.exit \in 1 .. Final
    BY <2>1, <2>2, <2>3, <2>4
  <2>6. QED
    BY <2>1, <2>2, <2>5 DEF t
<1>2. TradesAreApart
  <2>1. \A k \in DOMAIN traded : k > 1 => k \in 2 .. Len(traded)
    OBVIOUS
  <2>2. \A k \in DOMAIN traded : k > 1 => traded[k - 1].exit < traded[k].entry
    BY <2>1
  <2>3. QED
    BY <1>1, <2>2 DEF TradesAreApart
<1>3. NoLookAhead
  <2>1. ASSUME NEW k \in DOMAIN traded
        PROVE  LET t == traded[k]
               IN /\ \A b \in t.entry + 1 .. t.exit - 1 : ~HitsTarget(t.entry, b) /\ ~HitsStop(t.entry, b)
                  /\ t.why = "ttl" => t.exit \in {t.entry + setup.hold, Final}
    BY <1>1 DEF ExitFits
  <2>2. backtest = "done" => \A b \in 1 .. Final - 1 : b < bar
    BY SeriesFacts
  <2>3. QED
    BY <2>1, <2>2 DEF NoLookAhead
<1>4. LossesAreStopped
  <2> SUFFICES ASSUME NEW k \in DOMAIN traded
               PROVE  LET t == traded[k] IN
                 /\ (IF Long THEN t.price < StopPrice(t.entry) ELSE t.price > StopPrice(t.entry)) =>
                      t.why = "ttl" /\ ~Valid(t.exit)
                 /\ t.why = "target" /\ setup.target * (10000 - Cost) > 200 * Cost => Won(t)
    BY DEF LossesAreStopped
  <2> DEFINE t == traded[k]
  <2>1. /\ t \in TradeSet /\ t.entry \in 1 .. Final - 1 /\ t.entry \in 1 .. Final
        /\ Valid(t.entry) /\ ExitFits(t.entry, t) /\ t.exit \in 1 .. Final
    BY <1>1
  <2> HIDE DEF t
  <2>2. TargetPrice(t.entry) \in Int /\ StopPrice(t.entry) \in Int /\ 100 * closes[t.exit] \in Int
    BY <2>1, PricesAreInts
  <2>3. t.why = "target" => t.price = TargetPrice(t.entry)
    BY <2>1 DEF ExitFits
  <2>4. t.why = "target" /\ setup.target * (10000 - Cost) > 200 * Cost => Won(t)
    BY <2>1, <2>3, TargetWins
  <2>5. ASSUME IF Long THEN t.price < StopPrice(t.entry) ELSE t.price > StopPrice(t.entry)
        PROVE  t.why = "ttl" /\ ~Valid(t.exit)
    <3>1. t.price # StopPrice(t.entry)
      BY <2>2, <2>5
    <3>2. t.price # TargetPrice(t.entry)
      BY <2>1, <2>2, <2>5, TargetBeyondStop
    <3>3. /\ t.why = "ttl" /\ t.price = 100 * closes[t.exit] /\ ~HitsStop(t.entry, t.exit)
      BY <2>1, <3>1, <3>2 DEF ExitFits
    <3>4. QED
      BY <2>2, <2>5, <3>3 DEF HitsStop
  <2>6. QED
    BY <2>4, <2>5 DEF t
<1>5. QED
  BY <1>2, <1>3, <1>4 DEF TradesAreSound

--------------------------------------------------------------------------------
(* What the ResearchAnt seeks and what the Backtester enters at.               *)

\* Every indicator of a bar with enough of them before it is a number.
LEMMA AddedType ==
  ASSUME SeriesOK, NEW first \in 1 .. Final, NEW last \in 1 .. Final
  PROVE  Added(first, last) \in Int /\ Squares(first, last) \in Int
<1> DEFINE squares == [k \in first .. last |-> closes[k] * closes[k]]
<1>1. \A k \in first .. last : closes[k] \in Int /\ squares[k] \in Int
  <2> SUFFICES ASSUME NEW k \in first .. last PROVE closes[k] \in Int /\ squares[k] \in Int
    OBVIOUS
  <2>1. closes[k] \in Int
    BY SeriesFacts
  <2>2. \A x \in Int : x * x \in Int
    OBVIOUS
  <2>3. QED
    BY <2>1, <2>2
<1>2. IsFiniteSet(first .. last)
  BY FS_Interval
<1>3. 0 \in Int /\ \A x, y \in Int : x + y \in Int
  OBVIOUS
<1>4. Squares(first, last) = SumFunctionOnSet(squares, first .. last)
  BY Zenon DEF Squares, SumFunction
<1> HIDE DEF squares
<1>5. SumFunctionOnSet(closes, first .. last) \in Int
  BY <1>1, <1>2, <1>3, SumType
<1>6. SumFunctionOnSet(squares, first .. last) \in Int
  BY <1>1, <1>2, <1>3, SumType
<1>7. QED
  BY <1>4, <1>5, <1>6 DEF Added

LEMMA ChangesType ==
  ASSUME SeriesOK, NEW b \in 1 .. Final, b > Period
  PROVE  Gains(b) \in Nat /\ Losses(b) \in Nat
<1> DEFINE window == b - Period + 1 .. b
           rises  == [k \in window |-> Rise(k)]
           falls  == [k \in window |-> Fall(k)]
<1>1. Period \in Nat \ {0} /\ Final \in Nat
  BY BacktestAssumption, SeriesFacts
<1>2. \A k \in window : rises[k] \in Nat /\ falls[k] \in Nat
  <2> SUFFICES ASSUME NEW k \in window PROVE Rise(k) \in Nat /\ Fall(k) \in Nat
    OBVIOUS
  <2>1. k \in 1 .. Final /\ k - 1 \in 1 .. Final
    BY <1>1
  <2>2. closes[k] \in Nat /\ closes[k - 1] \in Nat
    BY <2>1, SeriesFacts
  <2>3. QED
    BY <2>2 DEF Rise, Fall
<1>3. IsFiniteSet(window)
  BY <1>1, FS_Interval
<1>4. 0 \in Nat /\ \A x, y \in Nat : x + y \in Nat
  OBVIOUS
<1>5. /\ Gains(b) = SumFunctionOnSet(rises, window)
      /\ Losses(b) = SumFunctionOnSet(falls, window)
  BY Zenon DEF Gains, Losses, SumFunction
<1> HIDE DEF window, rises, falls
<1>6. SumFunctionOnSet(rises, window) \in Nat
  BY <1>2, <1>3, <1>4, SumType
<1>7. SumFunctionOnSet(falls, window) \in Nat
  BY <1>2, <1>3, <1>4, SumType
<1>8. QED
  BY <1>5, <1>6, <1>7

LEMMA IndicatorsType ==
  ASSUME SeriesOK, Final >= MinCandles
  PROVE  /\ Final > Slow /\ Final > Band /\ Final > Period /\ Final \in 1 .. Final /\ Final \in Nat
         /\ Spread(Final) \in Int
         /\ Gains(Final) \in Nat /\ Losses(Final) \in Nat
         /\ Away(Final) \in Int /\ Spreadness(Final) \in Int
<1>1. /\ Final \in Nat \ {0} /\ MinCandles \in Nat /\ Fast \in Nat \ {0} /\ Slow \in Nat \ {0}
      /\ Band \in Nat \ {0} /\ Period \in Nat \ {0} /\ Fast < Slow
      /\ MinCandles > Slow + 1 /\ MinCandles > Period + 1 /\ MinCandles > Band
  BY SeriesFacts, BacktestAssumption
<1>2. /\ Final \in 1 .. Final /\ Final > Slow /\ Final > Band /\ Final > Period
      /\ Final - Fast + 1 \in 1 .. Final /\ Final - Slow + 1 \in 1 .. Final /\ Final - Band + 1 \in 1 .. Final
  BY <1>1
<1>3. \A x, y \in Int : x * y \in Int /\ x - y \in Int
  OBVIOUS
<1>4. Spread(Final) \in Int
  <2>1. Added(Final - Fast + 1, Final) \in Int /\ Added(Final - Slow + 1, Final) \in Int
    BY <1>2, AddedType
  <2>2. QED
    BY <1>1, <1>3, <2>1 DEF Spread
<1>5. Away(Final) \in Int /\ Spreadness(Final) \in Int
  <2>1. Added(Final - Band + 1, Final) \in Int /\ Squares(Final - Band + 1, Final) \in Int
    BY <1>2, AddedType
  <2>2. closes[Final] \in Int
    BY <1>2, SeriesFacts
  <2>3. QED
    BY <1>1, <1>3, <2>1, <2>2 DEF Away, Spreadness
<1>6. QED
  BY <1>1, <1>2, <1>4, <1>5, ChangesType

\* A step of the exponential average.
Fractions == [num : Int, den : Int]

NextEma(b, before) ==
  [num |-> 2 * closes[b] * before.den + (Band - 1) * before.num, den |-> (Band + 1) * before.den]

EmaOf(ema, b) ==
  IF b <= Band THEN [num |-> Added(1, Band), den |-> Band] ELSE NextEma(b, ema[b - 1])

LEMMA NextEmaType ==
  ASSUME SeriesOK, NEW b \in 1 .. Final, NEW before \in Fractions
  PROVE  NextEma(b, before) \in Fractions
<1>1. closes[b] \in Int /\ Band \in Int /\ before.num \in Int /\ before.den \in Int
  BY SeriesFacts, BacktestAssumption DEF Fractions
<1>2. \A x, y \in Int : x * y \in Int /\ x + y \in Int /\ x - y \in Int
  OBVIOUS
<1>3. 2 * closes[b] * before.den \in Int /\ (Band - 1) * before.num \in Int /\ (Band + 1) * before.den \in Int
  BY <1>1, <1>2
<1>4. 2 * closes[b] * before.den + (Band - 1) * before.num \in Int
  BY <1>2, <1>3
<1>5. QED
  BY <1>3, <1>4 DEF NextEma, Fractions

LEMMA EmaType ==
  ASSUME SeriesOK, Final >= MinCandles
  PROVE  Ema[Final] \in Fractions
<1> DEFINE n == Final
           Meets(f) == f = [b \in 0 .. n |-> EmaOf(f, b)]
           early == [num |-> Added(1, Band), den |-> Band]
           next == [p \in (1 .. n) \X Fractions |-> IF p[1] <= Band THEN early ELSE NextEma(p[1], p[2])]
<1>1. Ema = CHOOSE f : Meets(f)
  BY Zenon DEF Ema, EmaOf, NextEma
<1>2. n \in Nat \ {0} /\ Band \in Nat \ {0} /\ Band < n
  BY IndicatorsType, SeriesFacts, BacktestAssumption
<1>3. early \in Fractions
  <2>1. Added(1, Band) \in Int
    BY <1>2, AddedType
  <2>2. QED
    BY <1>2, <2>1 DEF Fractions
<1>4. \A b \in 1 .. n, v \in Fractions :
        next[<<b, v>>] = (IF b <= Band THEN early ELSE NextEma(b, v)) /\ next[<<b, v>>] \in Fractions
  <2> SUFFICES ASSUME NEW b \in 1 .. n, NEW v \in Fractions
               PROVE  next[<<b, v>>] = (IF b <= Band THEN early ELSE NextEma(b, v)) /\ next[<<b, v>>] \in Fractions
    OBVIOUS
  <2>1. next[<<b, v>>] = IF b <= Band THEN early ELSE NextEma(b, v)
    OBVIOUS
  <2>2. NextEma(b, v) \in Fractions
    BY NextEmaType
  <2> HIDE DEF next, early
  <2>3. QED
    BY <1>3, <2>1, <2>2
<1> HIDE DEF next, early
<1>5. \E f : Recurs(f, n, Fractions, early, next)
  <2>1. n \in Nat /\ \A b \in 1 .. n, v \in Fractions : next[<<b, v>>] \in Fractions
    BY <1>2, <1>4
  <2> HIDE DEF n
  <2>2. QED
    BY <1>3, <2>1, RecursionUpTo, Zenon
<1>6. PICK f \in [0 .. n -> Fractions] : f[0] = early /\ \A b \in 1 .. n : f[b] = next[<<b, f[b - 1]>>]
  BY <1>5 DEF Recurs
<1>7. \A b \in 0 .. n : f[b] = EmaOf(f, b)
  <2> SUFFICES ASSUME NEW b \in 0 .. n PROVE f[b] = EmaOf(f, b)
    OBVIOUS
  <2>1. CASE b = 0
    BY <1>2, <1>6, <2>1 DEF EmaOf, early
  <2>2. CASE b # 0
    <3>1. b \in 1 .. n /\ b - 1 \in 0 .. n
      BY <1>2, <2>2
    <3>2. f[b - 1] \in Fractions /\ f[b] = next[<<b, f[b - 1]>>]
      BY <1>6, <3>1
    <3>3. f[b] = IF b <= Band THEN early ELSE NextEma(b, f[b - 1])
      BY <1>4, <3>1, <3>2
    <3>4. QED
      BY <3>3 DEF EmaOf, early
  <2>3. QED
    BY <2>1, <2>2
<1>8. Meets(Ema)
  <2>1. f = [b \in 0 .. n |-> EmaOf(f, b)]
    BY <1>6, <1>7
  <2>2. \E g : Meets(g)
    BY <2>1
  <2>3. Meets(CHOOSE g : Meets(g))
    BY <2>2, Zenon
  <2>4. QED
    BY <1>1, <2>3, Zenon
<1>9. ASSUME NEW b \in 0 .. n PROVE Ema[b] = EmaOf(Ema, b)
  <2> DEFINE down == [a \in 0 .. n |-> EmaOf(Ema, a)]
  <2>1. down[b] = EmaOf(Ema, b)
    OBVIOUS
  <2>2. Ema = down
    BY <1>8, Zenon
  <2>3. QED
    BY <2>1, <2>2, Zenon
<1> DEFINE Typed == {b \in 0 .. n : Ema[b] \in Fractions}
<1>10. 0 \in Typed
  BY <1>2, <1>3, <1>9 DEF EmaOf, early
<1>11. ASSUME NEW b \in 1 .. n, b - 1 \in Typed PROVE b \in Typed
  <2>1. Ema[b] = EmaOf(Ema, b) /\ Ema[b - 1] \in Fractions
    BY <1>9, <1>11
  <2>2. NextEma(b, Ema[b - 1]) \in Fractions
    BY <2>1, NextEmaType
  <2>3. QED
    BY <1>3, <2>1, <2>2 DEF EmaOf, early
<1>12. 0 .. n \subseteq Typed
  <2>1. n \in Nat
    BY <1>2
  <2> HIDE DEF Typed, n
  <2>2. QED
    BY <1>10, <1>11, <2>1, InductionUpTo
<1>13. QED
  BY <1>2, <1>12

\* What is asked for is what some pattern was found for.
LEMMA SoughtSays ==
  ASSUME Final >= MinCandles, Final \in Nat, NEW d \in Directions, NEW type
  PROVE  <<d, type>> \in Sought <=> \E p \in Patterns : Found(p, d) /\ TypeOf(p) = type
<1>1. ~(Final < MinCandles)
  BY BacktestAssumption
<1>2. Sought = UNION {{<<e, TypeOf(p)>> : p \in {q \in Patterns : Found(q, e)}} : e \in Directions}
  BY <1>1 DEF Sought
<1>3. ASSUME NEW p \in Patterns, Found(p, d), TypeOf(p) = type PROVE <<d, type>> \in Sought
  BY <1>2, <1>3
<1>4. ASSUME <<d, type>> \in Sought PROVE \E p \in Patterns : Found(p, d) /\ TypeOf(p) = type
  <2>1. PICK e \in Directions : <<d, type>> \in {<<e, TypeOf(p)>> : p \in {q \in Patterns : Found(q, e)}}
    BY <1>2, <1>4
  <2>2. PICK p \in Patterns : Found(p, e) /\ <<d, type>> = <<e, TypeOf(p)>>
    BY <2>1
  <2>3. d = e /\ type = TypeOf(p)
    BY <2>2
  <2>4. QED
    BY <2>2, <2>3
<1>5. QED
  BY <1>3, <1>4

\* Which patterns are found for a type.
LEMMA TypesOfPatterns ==
  ASSUME NEW p \in Patterns, NEW d
  PROVE  /\ TypeOf(p) = "sma_crossover" => (Found(p, d) <=> FoundCross(d))
         /\ TypeOf(p) = "rsi_based" => (Found(p, d) <=> FoundRsi(d))
         /\ TypeOf(p) = "bollinger_bands" => (Found(p, d) => FoundTouch(d) \/ FoundNear(d))
         /\ TypeOf(p) = "volatility_squeeze" => (Found(p, d) <=> FoundRelease(d))
BY DEF Patterns, TypeOf, Found

LEMMA PatternsFound ==
  ASSUME SeriesOK, Final >= MinCandles, NEW d \in Directions
  PROVE  /\ <<d, "sma_crossover">> \in Sought <=> FoundCross(d)
         /\ <<d, "rsi_based">> \in Sought <=> FoundRsi(d)
         /\ <<d, "bollinger_bands">> \in Sought => FoundTouch(d) \/ FoundNear(d)
         /\ FoundTouch(d) => <<d, "bollinger_bands">> \in Sought
         /\ FoundOversold(d) => <<d, "mean_reversion">> \in Sought
         /\ <<d, "volatility_squeeze">> \in Sought => FoundRelease(d)
<1>1. Final \in Nat
  BY SeriesFacts
<1>2. \A type : <<d, type>> \in Sought <=> \E p \in Patterns : Found(p, d) /\ TypeOf(p) = type
  BY <1>1, SoughtSays
<1>3. /\ {"cross", "rsi", "touch", "oversold"} \subseteq Patterns
      /\ TypeOf("cross") = "sma_crossover" /\ TypeOf("rsi") = "rsi_based"
      /\ TypeOf("touch") = "bollinger_bands" /\ TypeOf("oversold") = "mean_reversion"
      /\ Found("cross", d) <=> FoundCross(d)
      /\ Found("rsi", d) <=> FoundRsi(d)
      /\ Found("touch", d) <=> FoundTouch(d)
      /\ Found("oversold", d) <=> FoundOversold(d)
  BY DEF Patterns, TypeOf, Found
<1>4. \A p \in Patterns :
         /\ TypeOf(p) = "sma_crossover" => (Found(p, d) <=> FoundCross(d))
         /\ TypeOf(p) = "rsi_based" => (Found(p, d) <=> FoundRsi(d))
         /\ TypeOf(p) = "bollinger_bands" => (Found(p, d) => FoundTouch(d) \/ FoundNear(d))
         /\ TypeOf(p) = "volatility_squeeze" => (Found(p, d) <=> FoundRelease(d))
  BY TypesOfPatterns
<1>5. QED
  BY <1>2, <1>3, <1>4, Zenon

\* No market is both bought and sold on one pattern.
LEMMA OneSide ==
  ASSUME SeriesOK, Final >= MinCandles
  PROVE  /\ ~(FoundCross("long") /\ FoundCross("short"))
         /\ ~(FoundRsi("long") /\ FoundRsi("short"))
         /\ ~((FoundTouch("long") \/ FoundNear("long")) /\ (FoundTouch("short") \/ FoundNear("short")))
         /\ ~(FoundRelease("long") /\ FoundRelease("short"))
<1> DEFINE A == Away(Final)
           S == Spreadness(Final)
           G == Gains(Final)
           L == Losses(Final)
<1>1. A \in Int /\ S \in Int /\ G \in Nat /\ L \in Nat /\ Spread(Final) \in Int /\ Final \in 1 .. Final
  BY IndicatorsType
<1>2. ~(FoundCross("long") /\ FoundCross("short"))
  BY <1>1 DEF FoundCross
<1>3. ~(FoundRsi("long") /\ FoundRsi("short"))
  <2>1. FoundRsi("long") => L > 0 /\ 3 * G < 2 * L
    BY DEF FoundRsi
  <2>2. FoundRsi("short") => L = 0 \/ 2 * G > 3 * L
    BY DEF FoundRsi
  <2> HIDE DEF G, L
  <2>3. ~(L > 0 /\ 3 * G < 2 * L /\ (L = 0 \/ 2 * G > 3 * L))
    BY <1>1
  <2>4. QED
    BY <2>1, <2>2, <2>3
<1>4. ~((FoundTouch("long") \/ FoundNear("long")) /\ (FoundTouch("short") \/ FoundNear("short")))
  <2>1. FoundTouch("long") \/ FoundNear("long") => \E t \in {16, 20} : A <= 0 /\ S > 0 /\ 100 * A * A >= t * t * S
    BY DEF FoundTouch, FoundNear, OutBy
  <2>2. FoundTouch("short") \/ FoundNear("short") => A >= 0
    BY DEF FoundTouch, FoundNear, OutBy
  <2> HIDE DEF A, S
  <2>3. ASSUME NEW t \in {16, 20}, A <= 0, S > 0, 100 * A * A >= t * t * S, A >= 0 PROVE FALSE
    <3>1. A = 0
      BY <1>1, <2>3
    <3>2. 0 >= t * t * S
      BY <2>3, <3>1
    <3>3. t * t * S > 0
      BY <1>1, <2>3
    <3>4. t * t * S \in Int
      BY <1>1
    <3>5. QED
      BY <3>2, <3>3, <3>4
  <2>4. QED
    BY <2>1, <2>2, <2>3
<1>5. ~(FoundRelease("long") /\ FoundRelease("short"))
  <2> DEFINE num == Ema[Final].num
             scaled == closes[Final] * Ema[Final].den
  <2>1. FoundRelease("long") => scaled > num
    BY DEF FoundRelease
  <2>2. FoundRelease("short") => scaled < num
    BY DEF FoundRelease
  <2>3. num \in Int /\ scaled \in Int
    <3>1. Ema[Final] \in Fractions /\ closes[Final] \in Int
      BY <1>1, EmaType, SeriesFacts
    <3>2. num \in Int /\ Ema[Final].den \in Int
      BY <3>1 DEF Fractions
    <3>3. \A x, y \in Int : x * y \in Int
      OBVIOUS
    <3>4. QED
      BY <3>1, <3>2, <3>3
  <2> HIDE DEF num, scaled
  <2>4. QED
    BY <2>1, <2>2, <2>3
<1>6. QED
  BY <1>2, <1>3, <1>4, <1>5

\* What the Backtester would enter at the last bar the ant has found.
LEMMA EnteredIsFound ==
  ASSUME SeriesOK, Final >= MinCandles
  PROVE  /\ Crossed(Final) <=> FoundCross(setup.direction)
         /\ Stretched(Final) => FoundRsi(setup.direction)
         /\ AtBand(Final) /\ (Long => Spreadness(Final) > 0) => FoundTouch(setup.direction)
         /\ FoundTouch(setup.direction) => AtBand(Final)
         /\ Reverted(Final) /\ Long => FoundOversold("long")
<1> DEFINE A == Away(Final)
           S == Spreadness(Final)
           G == Gains(Final)
           L == Losses(Final)
           d == setup.direction
<1>1. /\ A \in Int /\ S \in Int /\ G \in Nat /\ L \in Nat
      /\ Final > Slow /\ Final > Band /\ Final > Period
  BY IndicatorsType
<1>2. d \in {"long", "short"} /\ (Long <=> d = "long") /\ (~Long <=> d = "short")
  <2>1. d \in {"long", "short"}
    BY BacktestAssumption DEF SeriesOK, IsBacktestConfig, Directions
  <2>2. QED
    BY <2>1 DEF Long
<1>3. Crossed(Final) <=> FoundCross(d)
  BY <1>1, <1>2 DEF Crossed, FoundCross
<1>4. Stretched(Final) => FoundRsi(d)
  <2>1. Stretched(Final) => IF Long THEN L > 0 /\ 7 * G < 3 * L ELSE L = 0 \/ 3 * G > 7 * L
    BY DEF Stretched
  <2>2. FoundRsi(d) <=> IF Long THEN L > 0 /\ 3 * G < 2 * L ELSE L = 0 \/ 2 * G > 3 * L
    BY <1>2 DEF FoundRsi
  <2> HIDE DEF L, G
  <2>3. (L > 0 /\ 7 * G < 3 * L => 3 * G < 2 * L) /\ (3 * G > 7 * L => 2 * G > 3 * L)
    BY <1>1
  <2>4. QED
    BY <2>1, <2>2, <2>3
<1> DEFINE q == A * A
<1>5. q \in Int /\ 100 * A * A = 100 * q /\ 4 * A * A = 4 * q
  <2> HIDE DEF A
  <2>1. QED
    BY <1>1
<1>6. FoundTouch(d) <=> (IF Long THEN A <= 0 /\ S > 0 ELSE A >= 0) /\ 100 * q >= 400 * S
  <2>1. FoundTouch(d) <=> (IF d = "short" THEN A >= 0 ELSE A <= 0 /\ S > 0) /\ 100 * A * A >= 20 * 20 * S
    BY DEF FoundTouch, OutBy
  <2> HIDE DEF A, S, q
  <2>2. 20 * 20 * S = 400 * S
    BY <1>1
  <2>3. QED
    BY <1>2, <1>5, <2>1, <2>2
<1>7. AtBand(Final) <=> (IF Long THEN A <= 0 ELSE A >= 0) /\ q >= 4 * S
  BY <1>1 DEF AtBand, OnTheSide
<1>8. Reverted(Final) => (IF Long THEN A <= 0 ELSE A >= 0) /\ S > 0 /\ q > 4 * S
  BY DEF Reverted, OnTheSide
<1>9. FoundOversold("long") <=> A < 0 /\ S > 0 /\ 4 * q > 9 * S
  BY <1>5 DEF FoundOversold
<1>10. A = 0 => q = 0
  <2> HIDE DEF A
  <2>1. QED
    BY <1>1
<1> HIDE DEF A, S, q, d
<1>11. 100 * q >= 400 * S <=> q >= 4 * S
  BY <1>1, <1>5
<1>12. Reverted(Final) /\ Long => FoundOversold("long")
  <2> SUFFICES ASSUME Reverted(Final), Long PROVE A < 0 /\ S > 0 /\ 4 * q > 9 * S
    BY <1>9
  <2>1. A <= 0 /\ S > 0 /\ q > 4 * S
    BY <1>8
  <2>2. A # 0
    BY <1>1, <1>5, <1>10, <2>1
  <2>3. QED
    BY <1>1, <1>5, <2>1, <2>2
<1>13. (AtBand(Final) /\ (Long => S > 0) => FoundTouch(d)) /\ (FoundTouch(d) => AtBand(Final))
  BY <1>6, <1>7, <1>11
<1>14. QED
  BY <1>3, <1>4, <1>12, <1>13 DEF d, S

LEMMA SoughtIsTested ==
  ASSUME SeriesOK
  PROVE  SoughtAsTested
<1> SUFFICES ASSUME Final >= MinCandles
             PROVE  /\ setup.type \in {"sma_crossover", "rsi_based", "bollinger_bands"} =>
                         (Signals(Final) /\ (Long => Spreadness(Final) > 0) => <<setup.direction, setup.type>> \in Sought)
                    /\ setup.type = "mean_reversion" /\ Long /\ Signals(Final) => <<"long", "mean_reversion">> \in Sought
                    /\ \A type \in {"sma_crossover", "rsi_based", "bollinger_bands", "volatility_squeeze"} :
                         ~({<<"long", type>>, <<"short", type>>} \subseteq Sought)
                    /\ setup.type = "sma_crossover" /\ FoundCross(setup.direction) => Signals(Final)
                    /\ setup.type = "bollinger_bands" /\ FoundTouch(setup.direction) => Signals(Final)
  BY DEF SoughtAsTested
<1>1. setup.direction \in Directions /\ "long" \in Directions /\ "short" \in Directions
  BY BacktestAssumption DEF SeriesOK, IsBacktestConfig, Directions
<1>2. /\ setup.type = "sma_crossover" => (Signals(Final) <=> Crossed(Final))
      /\ setup.type = "rsi_based" => (Signals(Final) <=> Stretched(Final))
      /\ setup.type = "bollinger_bands" => (Signals(Final) <=> AtBand(Final))
      /\ setup.type = "mean_reversion" => (Signals(Final) <=> Reverted(Final))
  BY DEF Signals
<1>3. ASSUME setup.type \in {"sma_crossover", "rsi_based", "bollinger_bands"},
             Signals(Final), Long => Spreadness(Final) > 0
      PROVE  <<setup.direction, setup.type>> \in Sought
  <2>1. CASE setup.type = "sma_crossover"
    BY <1>1, <1>2, <1>3, <2>1, EnteredIsFound, PatternsFound
  <2>2. CASE setup.type = "rsi_based"
    BY <1>1, <1>2, <1>3, <2>2, EnteredIsFound, PatternsFound
  <2>3. CASE setup.type = "bollinger_bands"
    BY <1>1, <1>2, <1>3, <2>3, EnteredIsFound, PatternsFound
  <2>4. QED
    BY <1>3, <2>1, <2>2, <2>3
<1>4. ASSUME setup.type = "mean_reversion", Long, Signals(Final)
      PROVE  <<"long", "mean_reversion">> \in Sought
  BY <1>1, <1>2, <1>4, EnteredIsFound, PatternsFound
<1>5. ASSUME NEW type \in {"sma_crossover", "rsi_based", "bollinger_bands", "volatility_squeeze"},
             <<"long", type>> \in Sought, <<"short", type>> \in Sought
      PROVE  FALSE
  <2>1. CASE type = "sma_crossover"
    BY <1>1, <1>5, <2>1, OneSide, PatternsFound
  <2>2. CASE type = "rsi_based"
    BY <1>1, <1>5, <2>2, OneSide, PatternsFound
  <2>3. CASE type = "bollinger_bands"
    BY <1>1, <1>5, <2>3, OneSide, PatternsFound
  <2>4. CASE type = "volatility_squeeze"
    BY <1>1, <1>5, <2>4, OneSide, PatternsFound
  <2>5. QED
    BY <2>1, <2>2, <2>3, <2>4
<1>6. \A type \in {"sma_crossover", "rsi_based", "bollinger_bands", "volatility_squeeze"} :
        ~({<<"long", type>>, <<"short", type>>} \subseteq Sought)
  BY <1>5
<1>7. setup.type = "sma_crossover" /\ FoundCross(setup.direction) => Signals(Final)
  BY <1>2, EnteredIsFound
<1>8. setup.type = "bollinger_bands" /\ FoundTouch(setup.direction) => Signals(Final)
  BY <1>2, EnteredIsFound
<1>9. QED
  BY <1>3, <1>4, <1>6, <1>7, <1>8

LEMMA BacktestFits ==
  ASSUME WalkInv
  PROVE  BacktestIsSound
<1>1. TradesAreSound
  BY WalkIsSound
<1>2. CountsAgree
  BY DEF WalkInv, CountsFit, CountsAgree
<1>3. SoughtAsTested
  BY SoughtIsTested DEF WalkInv
<1>4. QED
  BY <1>1, <1>2, <1>3 DEF BacktestIsSound

\* The trades of a backtest are apart, look at no bar later than the one they end at,
\* leave no signal out and lose no more than the stop allows; its best streak is the
\* longest run of trades that won, and its regimes part the trades; and what it enters at
\* the last bar the ant that asked for it has found (lab/backtester.py,
\* ants/research_ant.py): for any series of prices, config, costs and lengths of windows.
THEOREM BacktestStaysSound == DaySpec => []BacktestIsSound
<1>1. DayInit => WalkInv
  BY WalkStarts DEF DayInit
<1>2. WalkInv /\ [DayNext]_dayVars => WalkInv'
  <2>1. [DayNext]_dayVars => [BacktestStep]_btVars
    BY DEF DayNext, QueenDay, BootDay, ServiceDay, LoopDay, LabDay, ScoutDay, ResetDay, dayVars
  <2>2. QED
    BY <2>1, WalkKept
<1>3. WalkInv => BacktestIsSound
  BY BacktestFits
<1>4. QED
  BY <1>1, <1>2, <1>3, PTL DEF DaySpec

--------------------------------------------------------------------------------
(* How the colony starts.                                                       *)

\* Ants that are known by the time they run, or need not be.
Announced == {"research", "audit", "strategy", "operator", "paper", "news", "watchtower"}

Names == {"scout", "research", "paper", "audit", "ingestion", "strategy", "execution", "killzone",
          "claude", "operator", "time_filter", "sector_scout", "fundamental", "dividend_scout",
          "piotroski", "breakout", "rs_regime", "eqpaper", "news", "watchtower", "ledgers"}
Tasks == {"issue", "begin", "register", "list", "bind"} \X Names
Works == Seq(Tasks)

\* What comes after a piece of work in its block: the register after the thread, the
\* thread after a mission with capital, the list of ledgers before the PaperAnt and the
\* entry in it after the EquitiesPaperAnt.
Follows(b, w, i) ==
  LET op == w[i][1]
      a  == w[i][2]
  IN /\ op = "begin" /\ a \notin Announced => i < Len(w) /\ w[i + 1] = ToRegister(a)
     /\ op = "issue" /\ a \in Trading => \E j \in i + 1 .. Len(w) : w[j] = ToBegin(a)
     /\ (op = "begin" /\ a = "paper") \/ op = "bind" => \A j \in i + 1 .. Len(w) : w[j][1] # "bind"
     /\ op = "begin" /\ a = "eqpaper" =>
          /\ \E j \in i + 1 .. Len(w) : w[j] = ToList("eqpaper")
          /\ \A j \in i + 1 .. Len(w) : w[j][1] \notin {"issue", "begin"}
     /\ op = "list" => i = Len(w) /\ a = "eqpaper"
     /\ b = "watchtower" => /\ op = "issue" => i < Len(w) /\ w[i + 1][1] = "register"
                            /\ op = "begin" => i = Len(w)
                            /\ a = "watchtower"

\* Which block a piece of work is of.
OfBlock(b, w, i) ==
  LET op == w[i][1]
      a  == w[i][2]
  IN /\ a \in {"paper", "execution"} \/ op = "bind" => b = "crypto"
     /\ a = "eqpaper" \/ op = "list" => b = "equities"
     /\ a = "watchtower" => b = "watchtower"

WorkSound(b, w) ==
  /\ w \in Works
  /\ \A i \in 1 .. Len(w) : Follows(b, w, i) /\ OfBlock(b, w, i)
  /\ b = "equities" /\ w # <<>> => w[Len(w)][2] = "eqpaper"

LaterThanEquities == {"news", "watchtower", "context", "up", "exit"}

\* The lists of ledgers that show the k-th PaperAnt, and those of a colony that made k.
Showing(k) ==
  {<<<<"paper", k>>>>, <<<<"paper", k>>, <<"eqpaper", 1>>>>, <<<<"eqpaper", 1>>, <<"paper", k>>>>}

Lists(k) == {<<>>, <<<<"eqpaper", 1>>>>} \cup (IF k = 0 THEN {} ELSE Showing(k))

Binding == \E i \in 1 .. Len(work) : work[i][1] = "bind"
Listing == \E i \in 1 .. Len(work) : work[i] = ToList("eqpaper")
AllAsked == \A i \in 1 .. Len(work) : work[i][1] \notin {"issue", "begin"}
ShowsEquities(l) == \E n \in DOMAIN l : l[n] = <<"eqpaper", 1>>
Listed  == shown # Unbound /\ ShowsEquities(shown)
ToCome(a) == \E i \in 1 .. Len(work) : work[i] = ToBegin(a)

HomeBlock(a) == IF a = "eqpaper" THEN "equities" ELSE "crypto"

BootTypeOK ==
  /\ options \in OptIns /\ block \in ToSet(Blocks) \cup {"up", "exit"}
  /\ WorkSound(block, work) /\ (block \in {"node", "context", "up", "exit"} => work = <<>>)
  /\ paperAnts \in Nat /\ running \subseteq answered

\* The list is bound halfway through the crypto block, or never.
ListInv ==
  /\ shown = Unbound => paperAnts = 0
  /\ shown # Unbound => shown \in Lists(paperAnts)
  /\ paperRuns => shown \in Showing(paperAnts) /\ paperAnts > 0
  /\ paperAnts > 0 => "paper" \in running /\ "paper" \in known
  /\ shown = Unbound =>
       /\ "paper" \notin running
       /\ \/ block = "node"
          \/ block = "crypto" /\ Binding
          \/ "crypto" \in failed /\ (block = "crypto" => work = <<>>)
  /\ Binding \/ block = "node" => shown = Unbound
  /\ block = "up" => shown # Unbound
  /\ block = "exit" => shown = Unbound

\* The EquitiesPaperAnt is listed last, once it runs.
EqPaperInv ==
  /\ Listed => block \in LaterThanEquities \/ (block = "equities" /\ work = <<>>)
  /\ "eqpaper" \in running =>
       /\ block \in LaterThanEquities \cup {"equities"}
       /\ shown = Unbound \/ Listed \/ Listing
       /\ block = "equities" => AllAsked

KnownInv ==
  /\ running \ known \subseteq
       {"news"} \cup (IF paperAnts = 0 THEN {"paper"} ELSE {})
                \cup (IF work # <<>> /\ work[1][1] = "register" THEN {work[1][2]} ELSE {})
  /\ block = "watchtower" /\ work # <<>> /\ work[1][1] = "begin" /\ "watchtower" \in answered =>
       "watchtower" \in known

\* An ant for each mission with capital, to come if not yet.
CapitalInv ==
  \A a \in granted \cap Trading :
    a \in running \/ HomeBlock(a) \in failed \/ (a \in answered /\ ToCome(a))

BootInv == BootTypeOK /\ ListInv /\ EqPaperInv /\ KnownInv /\ CapitalInv

LEMMA BlockOrder ==
  /\ After("node") = "crypto" /\ After("crypto") = "strategy" /\ After("strategy") = "killzone"
  /\ After("killzone") = "claude" /\ After("claude") = "operator" /\ After("operator") = "time_filter"
  /\ After("time_filter") = "equities" /\ After("equities") = "news" /\ After("news") = "watchtower"
  /\ After("watchtower") = "context"
<1>1. \A m, n \in DOMAIN Blocks : Blocks[m] = Blocks[n] => m = n
  BY DEF Blocks
<1>2. \A n \in 1 .. 10 : n \in DOMAIN Blocks /\ n + 1 \in DOMAIN Blocks
  BY DEF Blocks
<1>3. \A n \in 1 .. 10 : (CHOOSE m \in DOMAIN Blocks : Blocks[m] = Blocks[n]) = n
  BY <1>1, <1>2
<1>4. \A n \in 1 .. 10 : After(Blocks[n]) = Blocks[1 + n]
  BY <1>3 DEF After
<1>5. /\ Blocks[1] = "node" /\ Blocks[2] = "crypto" /\ Blocks[3] = "strategy" /\ Blocks[4] = "killzone"
      /\ Blocks[5] = "claude" /\ Blocks[6] = "operator" /\ Blocks[7] = "time_filter"
      /\ Blocks[8] = "equities" /\ Blocks[9] = "news" /\ Blocks[10] = "watchtower" /\ Blocks[11] = "context"
  BY DEF Blocks
<1>6. /\ After(Blocks[1]) = Blocks[2] /\ After(Blocks[2]) = Blocks[3] /\ After(Blocks[3]) = Blocks[4]
      /\ After(Blocks[4]) = Blocks[5] /\ After(Blocks[5]) = Blocks[6] /\ After(Blocks[6]) = Blocks[7]
      /\ After(Blocks[7]) = Blocks[8] /\ After(Blocks[8]) = Blocks[9] /\ After(Blocks[9]) = Blocks[10]
      /\ After(Blocks[10]) = Blocks[11]
  BY <1>4
<1>7. QED
  BY <1>5, <1>6

LEMMA BlockNames ==
  ToSet(Blocks) = {"node", "crypto", "strategy", "killzone", "claude", "operator", "time_filter",
                   "equities", "news", "watchtower", "context"}
BY DEF ToSet, Blocks

\* What is left of sound work is sound.
LEMMA SuffixSound ==
  ASSUME NEW b, NEW w, WorkSound(b, w), NEW n \in Nat \ {0}, n <= Len(w) + 1,
         NEW u \in Works, Len(u) = Len(w) - n + 1, \A i \in 1 .. Len(u) : u[i] = w[i + n - 1]
  PROVE  WorkSound(b, u)
<1>1. w \in Works /\ Len(w) \in Nat /\ Len(u) \in Nat
  BY DEF WorkSound, Works
<1>2. \A i \in 1 .. Len(u) : i + n - 1 \in 1 .. Len(w)
  BY <1>1
<1>3. \A k \in 1 .. Len(w) : k >= n => k - n + 1 \in 1 .. Len(u) /\ u[k - n + 1] = w[k]
  BY <1>1
<1>4. ASSUME NEW i \in 1 .. Len(u)
      PROVE  Follows(b, u, i) /\ OfBlock(b, u, i)
  <2> DEFINE k == i + n - 1
  <2>1. k \in 1 .. Len(w) /\ u[i] = w[k] /\ Follows(b, w, k) /\ OfBlock(b, w, k) /\ i = k - n + 1 /\ k >= n
    BY <1>1, <1>2 DEF WorkSound
  <2> HIDE DEF k
  <2>2. \A j \in k + 1 .. Len(w) : j - n + 1 \in i + 1 .. Len(u) /\ u[j - n + 1] = w[j]
    BY <1>1, <1>3, <2>1
  <2>3. \A j \in i + 1 .. Len(u) : j + n - 1 \in k + 1 .. Len(w) /\ u[j] = w[j + n - 1]
    BY <1>1, <2>1
  <2>4. (i < Len(u) <=> k < Len(w)) /\ (k < Len(w) => u[i + 1] = w[k + 1]) /\ (i = Len(u) <=> k = Len(w))
    BY <1>1, <2>1
  <2>5. OfBlock(b, u, i)
    BY <2>1 DEF OfBlock
  <2>6. Follows(b, u, i)
    BY <2>1, <2>2, <2>3, <2>4 DEF Follows
  <2>7. QED
    BY <2>5, <2>6
<1>5. b = "equities" /\ u # <<>> => u[Len(u)][2] = "eqpaper"
  <2> SUFFICES ASSUME b = "equities", u # <<>> PROVE u[Len(u)][2] = "eqpaper"
    OBVIOUS
  <2>1. Len(u) \in 1 .. Len(u)
    BY <1>1 DEF Works
  <2>2. u[Len(u)] = w[Len(w)] /\ w # <<>>
    BY <1>1, <2>1
  <2>3. QED
    BY <2>2 DEF WorkSound
<1>6. QED
  BY <1>4, <1>5 DEF WorkSound

LEMMA TailFacts ==
  ASSUME NEW w \in Works, w # <<>>
  PROVE  /\ Tail(w) \in Works /\ Len(Tail(w)) = Len(w) - 1 /\ Len(w) \in Nat \ {0}
         /\ \A i \in 1 .. Len(w) - 1 : Tail(w)[i] = w[i + 1]
         /\ Head(w) = w[1]
BY DEF Works

LEMMA TailSound ==
  ASSUME NEW b, NEW w, WorkSound(b, w), w # <<>>
  PROVE  WorkSound(b, Tail(w))
<1>1. w \in Works
  BY DEF WorkSound
<1>2. /\ Tail(w) \in Works /\ Len(Tail(w)) = Len(w) - 2 + 1 /\ Len(w) \in Nat \ {0} /\ 2 <= Len(w) + 1
      /\ \A i \in 1 .. Len(Tail(w)) : Tail(w)[i] = w[i + 2 - 1]
  BY <1>1, TailFacts
<1>3. \A n \in Nat \ {0} : n = 2 => WorkSound(b, Tail(w))
  BY <1>2, SuffixSound
<1>4. QED
  BY <1>3

LEMMA NoWorkSound ==
  ASSUME NEW b
  PROVE  WorkSound(b, <<>>)
BY DEF WorkSound, Works

LEMMA OneMore ==
  ASSUME NEW u \in Works, NEW a \in Tasks, NEW v, v = u \o <<a>>
  PROVE  /\ v \in Works /\ Len(u) \in Nat /\ Len(v) = Len(u) + 1
         /\ \A i \in 1 .. Len(u) : v[i] = u[i]
         /\ v[Len(u) + 1] = a
<1>1. <<a>> \in Seq(Tasks) /\ Len(<<a>>) = 1 /\ <<a>>[1] = a
  OBVIOUS
<1>2. QED
  BY <1>1 DEF Works

LEMMA TwoMore ==
  ASSUME NEW u \in Works, NEW a \in Tasks, NEW b \in Tasks, NEW v, v = u \o <<a, b>>
  PROVE  /\ v \in Works /\ Len(u) \in Nat /\ Len(v) = Len(u) + 2
         /\ \A i \in 1 .. Len(u) : v[i] = u[i]
         /\ v[Len(u) + 1] = a /\ v[Len(u) + 2] = b
<1>1. <<a, b>> \in Seq(Tasks) /\ Len(<<a, b>>) = 2 /\ <<a, b>>[1] = a /\ <<a, b>>[2] = b
  OBVIOUS
<1>2. QED
  BY <1>1 DEF Works

\* What stands where in short pieces of work.
LEMMA TwoPieces ==
  ASSUME NEW a \in Tasks, NEW b \in Tasks, NEW w, w = <<a>> \o <<b>>
  PROVE  w \in Works /\ Len(w) = 2 /\ w[1] = a /\ w[2] = b
<1>1. <<a>> \in Seq(Tasks) /\ <<b>> \in Seq(Tasks)
  OBVIOUS
<1>2. QED
  BY <1>1 DEF Works

LEMMA ThreePieces ==
  ASSUME NEW a \in Tasks, NEW b \in Tasks, NEW c \in Tasks, NEW w, w = <<a>> \o <<b, c>>
  PROVE  w \in Works /\ Len(w) = 3 /\ w[1] = a /\ w[2] = b /\ w[3] = c
<1>1. <<a>> \in Seq(Tasks) /\ <<b, c>> \in Seq(Tasks)
  OBVIOUS
<1>2. QED
  BY <1>1 DEF Works

LEMMA OptionsFacts ==
  ASSUME options \in OptIns
  PROVE  options \cap {"scout", "ingestion", "killzone", "claude"} = {}
BY BootAssumption DEF SwitchedOff

LEMMA StartWorkIs ==
  ASSUME options \in OptIns
  PROVE  /\ StartWork \in Works /\ Len(StartWork) = 8
         /\ StartWork[1] = ToBegin("research") /\ StartWork[2] = BindList
         /\ StartWork[3] = ToBegin("paper") /\ StartWork[4] = ToBegin("audit")
         /\ StartWork[5] = ToBegin("ingestion") /\ StartWork[6] = ToRegister("ingestion")
         /\ StartWork[7] = ToBegin("execution") /\ StartWork[8] = ToRegister("execution")
<1> DEFINE s1 == <<>> \o Supervised("research")
           s2 == s1 \o <<BindList>>
           s3 == s2 \o Supervised("paper")
           s4 == s3 \o Supervised("audit")
           s6 == s4 \o Unsupervised("ingestion")
<1>0. /\ \A a \in Names : ToBegin(a) \in Tasks /\ ToRegister(a) \in Tasks
      /\ BindList \in Tasks
  BY DEF ToBegin, ToRegister, BindList, Tasks, Names
<1>1. s1 \in Works /\ Len(s1) = 1 /\ s1[1] = ToBegin("research")
  <2>1. <<>> \in Works /\ Len(<<>>) = 0
    BY DEF Works
  <2>2. s1 = <<>> \o <<ToBegin("research")>>
    BY DEF Supervised
  <2>3. ToBegin("research") \in Tasks
    BY <1>0 DEF Names
  <2> HIDE DEF s1
  <2>4. QED
    BY <2>1, <2>2, <2>3, OneMore DEF Works
<1>2. StartWork = s6 \o Unsupervised("execution")
  BY OptionsFacts DEF StartWork
<1> HIDE DEF s1
<1>3. s2 \in Works /\ Len(s2) = 2 /\ (\A i \in 1 .. 1 : s2[i] = s1[i]) /\ s2[2] = BindList
  <2>1. s2 = s1 \o <<BindList>> /\ BindList \in Tasks
    BY <1>0
  <2> HIDE DEF s2
  <2>0. s1 \in Works
    BY <1>1
  <2>2. /\ s2 \in Works /\ Len(s2) = Len(s1) + 1 /\ \A i \in 1 .. Len(s1) : s2[i] = s1[i]
        /\ s2[Len(s1) + 1] = BindList
    BY <2>0, <2>1, OneMore DEF Works
  <2>3. QED
    BY <1>1, <2>2
<1> HIDE DEF s2
<1>4. s3 \in Works /\ Len(s3) = 3 /\ (\A i \in 1 .. 2 : s3[i] = s2[i]) /\ s3[3] = ToBegin("paper")
  <2>1. s3 = s2 \o <<ToBegin("paper")>> /\ ToBegin("paper") \in Tasks
    BY <1>0 DEF Supervised, Names
  <2> HIDE DEF s3
  <2>0. s2 \in Works
    BY <1>3
  <2>2. /\ s3 \in Works /\ Len(s3) = Len(s2) + 1 /\ \A i \in 1 .. Len(s2) : s3[i] = s2[i]
        /\ s3[Len(s2) + 1] = ToBegin("paper")
    BY <2>0, <2>1, OneMore DEF Works
  <2>3. QED
    BY <1>3, <2>2
<1> HIDE DEF s3
<1>5. s4 \in Works /\ Len(s4) = 4 /\ (\A i \in 1 .. 3 : s4[i] = s3[i]) /\ s4[4] = ToBegin("audit")
  <2>1. s4 = s3 \o <<ToBegin("audit")>> /\ ToBegin("audit") \in Tasks
    BY <1>0 DEF Supervised, Names
  <2> HIDE DEF s4
  <2>0. s3 \in Works
    BY <1>4
  <2>2. /\ s4 \in Works /\ Len(s4) = Len(s3) + 1 /\ \A i \in 1 .. Len(s3) : s4[i] = s3[i]
        /\ s4[Len(s3) + 1] = ToBegin("audit")
    BY <2>0, <2>1, OneMore DEF Works
  <2>3. QED
    BY <1>4, <2>2
<1> HIDE DEF s4
<1>6. /\ s6 \in Works /\ Len(s6) = 6 /\ \A i \in 1 .. 4 : s6[i] = s4[i]
      /\ s6[5] = ToBegin("ingestion") /\ s6[6] = ToRegister("ingestion")
  <2>1. /\ s6 = s4 \o <<ToBegin("ingestion"), ToRegister("ingestion")>>
        /\ ToBegin("ingestion") \in Tasks /\ ToRegister("ingestion") \in Tasks
    BY <1>0 DEF Unsupervised, Names
  <2> HIDE DEF s6
  <2>0. s4 \in Works
    BY <1>5
  <2>2. /\ s6 \in Works /\ Len(s6) = Len(s4) + 2 /\ \A i \in 1 .. Len(s4) : s6[i] = s4[i]
        /\ s6[Len(s4) + 1] = ToBegin("ingestion") /\ s6[Len(s4) + 2] = ToRegister("ingestion")
    BY <2>0, <2>1, TwoMore DEF Works
  <2>3. QED
    BY <1>5, <2>2
<1> HIDE DEF s6
<1>7. /\ StartWork \in Works /\ Len(StartWork) = 8 /\ \A i \in 1 .. 6 : StartWork[i] = s6[i]
      /\ StartWork[7] = ToBegin("execution") /\ StartWork[8] = ToRegister("execution")
  <2>1. /\ StartWork = s6 \o <<ToBegin("execution"), ToRegister("execution")>>
        /\ ToBegin("execution") \in Tasks /\ ToRegister("execution") \in Tasks
    BY <1>0, <1>2 DEF Unsupervised, Names
  <2>0. s6 \in Works
    BY <1>6
  <2>2. /\ StartWork \in Works /\ Len(StartWork) = Len(s6) + 2 /\ \A i \in 1 .. Len(s6) : StartWork[i] = s6[i]
        /\ StartWork[Len(s6) + 1] = ToBegin("execution") /\ StartWork[Len(s6) + 2] = ToRegister("execution")
    BY <2>0, <2>1, TwoMore DEF Works
  <2>3. QED
    BY <1>6, <2>2
<1>8. QED
  BY <1>1, <1>3, <1>4, <1>5, <1>6, <1>7

LEMMA Appended ==
  ASSUME NEW u \in Works, NEW s \in Works, NEW w, w = u \o s
  PROVE  /\ w \in Works /\ Len(w) = Len(u) + Len(s) /\ Len(u) \in Nat /\ Len(s) \in Nat
         /\ \A i \in 1 .. Len(u) : w[i] = u[i]
         /\ \A k \in 1 .. Len(s) : w[Len(u) + k] = s[k]
BY DEF Works

CryptoNames == {"scout", "research", "paper", "audit", "ingestion", "strategy", "execution"}

LEMMA OpsDiffer ==
  \A a, b :
    /\ ToIssue(a)[1] = "issue" /\ ToIssue(a)[2] = a
    /\ ToBegin(a)[1] = "begin" /\ ToBegin(a)[2] = a
    /\ ToRegister(a)[1] = "register" /\ ToRegister(a)[2] = a
    /\ ToList(a)[1] = "list" /\ ToList(a)[2] = a
    /\ BindList[1] = "bind" /\ BindList[2] = "ledgers"
BY DEF ToIssue, ToBegin, ToRegister, ToList, BindList

LEMMA CryptoIssues ==
  /\ IssueAll(CryptoMissions) \in Works
  /\ \A i \in 1 .. Len(IssueAll(CryptoMissions)) :
       \E a \in CryptoNames : IssueAll(CryptoMissions)[i] = ToIssue(a)
<1>1. \A a : IfAsked(a) \in {<<>>, <<a>>}
  BY DEF IfAsked
<1>2. CryptoMissions \in Seq(CryptoNames)
  <2>1. /\ IfAsked("ingestion") \in Seq(CryptoNames) /\ IfAsked("execution") \in Seq(CryptoNames)
    <3>1. /\ <<>> \in Seq(CryptoNames) /\ <<"ingestion">> \in Seq(CryptoNames)
          /\ <<"execution">> \in Seq(CryptoNames)
      BY DEF CryptoNames
    <3>2. QED
      BY <1>1, <3>1
  <2>2. <<"scout", "research", "paper", "audit">> \in Seq(CryptoNames) /\ <<"strategy">> \in Seq(CryptoNames)
    BY DEF CryptoNames
  <2>3. \A S, u, v : u \in Seq(S) /\ v \in Seq(S) => u \o v \in Seq(S)
    OBVIOUS
  <2>4. BaseMissions \in Seq(CryptoNames)
    BY <2>1, <2>2, <2>3 DEF BaseMissions
  <2>5. QED
    BY <2>1, <2>3, <2>4 DEF CryptoMissions
<1> DEFINE m == CryptoMissions
           w == IssueAll(m)
<1>3. /\ DOMAIN m = 1 .. Len(m) /\ Len(m) \in Nat
      /\ \A i \in 1 .. Len(m) : m[i] \in CryptoNames
  BY <1>2
<1>4. w = [i \in 1 .. Len(m) |-> ToIssue(m[i])]
  BY <1>3 DEF IssueAll
<1>5. \A a \in CryptoNames : ToIssue(a) \in Tasks
  BY DEF ToIssue, Tasks, Names, CryptoNames
<1> HIDE DEF m
<1>6. w \in Seq(Tasks) /\ Len(w) = Len(m)
  <2>1. \A i \in 1 .. Len(m) : ToIssue(m[i]) \in Tasks
    BY <1>3, <1>5
  <2> HIDE DEF w
  <2>2. w \in [1 .. Len(m) -> Tasks]
    BY <1>4, <2>1
  <2>3. w \in Seq(Tasks) /\ DOMAIN w = 1 .. Len(m)
    BY <1>3, <2>2
  <2>4. QED
    BY <1>3, <2>3
<1>7. \A i \in 1 .. Len(w) : \E a \in CryptoNames : w[i] = ToIssue(a)
  BY <1>3, <1>4, <1>6
<1>8. QED
  BY <1>6, <1>7 DEF m, Works

LEMMA CryptoSound ==
  ASSUME options \in OptIns
  PROVE  WorkSound("crypto", CryptoWork) /\ \E i \in 1 .. Len(CryptoWork) : CryptoWork[i][1] = "bind"
<1> DEFINE u == IssueAll(CryptoMissions)
           n == Len(u)
           w == CryptoWork
<1>1. /\ u \in Works /\ StartWork \in Works /\ n \in Nat /\ w = u \o StartWork
  BY CryptoIssues, StartWorkIs DEF Works, CryptoWork
<1>2. /\ w \in Works /\ Len(w) = n + 8
      /\ \A i \in 1 .. n : w[i] = u[i]
      /\ \A k \in 1 .. 8 : w[n + k] = StartWork[k]
  <2>1. Len(StartWork) = 8
    BY StartWorkIs
  <2> HIDE DEF u, n, w
  <2>2. /\ w \in Works /\ Len(w) = Len(u) + Len(StartWork)
        /\ \A i \in 1 .. Len(u) : w[i] = u[i]
        /\ \A k \in 1 .. Len(StartWork) : w[Len(u) + k] = StartWork[k]
    <3>1. u \in Works /\ StartWork \in Works /\ w = u \o StartWork
      BY <1>1
    <3>2. QED
      BY <3>1, Appended DEF Works
  <2>3. QED
    BY <2>1, <2>2 DEF n
<1>3. /\ w[n + 1] = ToBegin("research") /\ w[n + 2] = BindList
      /\ w[n + 3] = ToBegin("paper") /\ w[n + 4] = ToBegin("audit")
      /\ w[n + 5] = ToBegin("ingestion") /\ w[n + 6] = ToRegister("ingestion")
      /\ w[n + 7] = ToBegin("execution") /\ w[n + 8] = ToRegister("execution")
  BY <1>2, StartWorkIs
<1>4. \A i \in 1 .. n : \E a \in CryptoNames : w[i] = ToIssue(a)
  BY <1>2, CryptoIssues
<1> HIDE DEF u, n, w
<1>5. ASSUME NEW i \in 1 .. n
      PROVE  Follows("crypto", w, i) /\ OfBlock("crypto", w, i)
  <2>1. PICK a \in CryptoNames : w[i] = ToIssue(a)
    BY <1>4
  <2>2. w[i][1] = "issue" /\ w[i][2] = a
    BY <2>1, OpsDiffer
  <2>3. n + 3 \in i + 1 .. Len(w) /\ n + 7 \in i + 1 .. Len(w)
    BY <1>1, <1>2
  <2>4. a \in Trading => a = "paper" \/ a = "execution"
    BY DEF Trading, CryptoNames
  <2>5. a \in Trading => \E j \in i + 1 .. Len(w) : w[j] = ToBegin(a)
    BY <1>3, <2>3, <2>4
  <2>6. Follows("crypto", w, i)
    BY <2>2, <2>5 DEF Follows
  <2>7. OfBlock("crypto", w, i)
    BY <2>2 DEF OfBlock, CryptoNames
  <2>8. QED
    BY <2>6, <2>7
<1>6. ASSUME NEW i \in n + 1 .. n + 8
      PROVE  Follows("crypto", w, i) /\ OfBlock("crypto", w, i)
  <2>1. i = n + 1 \/ i = n + 2 \/ i = n + 3 \/ i = n + 4 \/ i = n + 5 \/ i = n + 6 \/ i = n + 7 \/ i = n + 8
    BY <1>1
  <2>2. \A j \in n + 3 .. Len(w) : w[j][1] # "bind"
    <3>1. \A j \in n + 3 .. Len(w) : j = n + 3 \/ j = n + 4 \/ j = n + 5 \/ j = n + 6 \/ j = n + 7 \/ j = n + 8
      BY <1>1, <1>2
    <3>2. /\ w[n + 3][1] # "bind" /\ w[n + 4][1] # "bind" /\ w[n + 5][1] # "bind"
          /\ w[n + 6][1] # "bind" /\ w[n + 7][1] # "bind" /\ w[n + 8][1] # "bind"
      BY <1>3, OpsDiffer
    <3>3. QED
      BY <3>1, <3>2
  <2>3. (i = n + 2 \/ i = n + 3) => \A j \in i + 1 .. Len(w) : j \in n + 3 .. Len(w)
    BY <1>1, <1>2
  <2>4. /\ i \in {n + 5, n + 7} => i < Len(w)
        /\ i + 1 = n + 6 <=> i = n + 5
        /\ i + 1 = n + 8 <=> i = n + 7
    BY <1>1, <1>2
  <2>5. OfBlock("crypto", w, i)
    BY <1>3, <2>1, OpsDiffer DEF OfBlock
  <2>6. Follows("crypto", w, i)
    <3>1. CASE i = n + 5 \/ i = n + 7
      <4>1. i < Len(w) /\ w[i][1] = "begin" /\ w[i][2] \notin {"paper", "eqpaper"} /\ w[i + 1] = ToRegister(w[i][2])
        BY <1>3, <2>4, <3>1, OpsDiffer
      <4>2. QED
        BY <4>1 DEF Follows
    <3>2. CASE i = n + 2 \/ i = n + 3
      <4>1. \A j \in i + 1 .. Len(w) : w[j][1] # "bind"
        BY <2>2, <2>3, <3>2
      <4>2. \/ w[i][1] = "bind"
            \/ w[i][1] = "begin" /\ w[i][2] = "paper"
        BY <1>3, <3>2, OpsDiffer
      <4>3. QED
        BY <4>1, <4>2 DEF Follows, Announced
    <3>3. CASE i = n + 1 \/ i = n + 4
      <4>1. w[i][1] = "begin" /\ w[i][2] \in {"research", "audit"}
        BY <1>3, <3>3, OpsDiffer
      <4>2. QED
        BY <4>1 DEF Follows, Announced
    <3>4. CASE i = n + 6 \/ i = n + 8
      <4>1. w[i][1] = "register"
        BY <1>3, <3>4, OpsDiffer
      <4>2. QED
        BY <4>1 DEF Follows
    <3>5. QED
      BY <2>1, <3>1, <3>2, <3>3, <3>4
  <2>7. QED
    BY <2>5, <2>6
<1>7. \A i \in 1 .. Len(w) : i \in 1 .. n \/ i \in n + 1 .. n + 8
  BY <1>1, <1>2
<1>8. WorkSound("crypto", w)
  BY <1>2, <1>5, <1>6, <1>7 DEF WorkSound
<1>9. n + 2 \in 1 .. Len(w) /\ w[n + 2][1] = "bind"
  BY <1>1, <1>2, <1>3, OpsDiffer
<1>10. QED
  BY <1>8, <1>9 DEF w

\* The equities before the last of them.
EqNames == {"sector_scout", "fundamental", "dividend_scout", "piotroski", "breakout", "rs_regime"}
EqPiece(w) ==
  /\ w \in Works
  /\ \A i \in 1 .. Len(w) :
       /\ w[i][1] \in {"issue", "begin", "register"} /\ w[i][2] \in EqNames
       /\ w[i][1] = "begin" => i < Len(w) /\ w[i + 1] = ToRegister(w[i][2])

LEMMA EqPieces ==
  ASSUME NEW u, EqPiece(u), NEW s, EqPiece(s)
  PROVE  EqPiece(u \o s)
<1> DEFINE w == u \o s
<1>1. u \in Works /\ s \in Works
  BY DEF EqPiece
<1>2. w = u \o s
  OBVIOUS
<1> HIDE DEF w
<1>3. /\ w \in Works /\ Len(w) = Len(u) + Len(s) /\ Len(u) \in Nat /\ Len(s) \in Nat
      /\ \A i \in 1 .. Len(u) : w[i] = u[i]
      /\ \A k \in 1 .. Len(s) : w[Len(u) + k] = s[k]
  BY <1>1, <1>2, Appended DEF Works
<1>4. ASSUME NEW i \in 1 .. Len(u)
      PROVE  /\ w[i][1] \in {"issue", "begin", "register"} /\ w[i][2] \in EqNames
             /\ w[i][1] = "begin" => i < Len(w) /\ w[i + 1] = ToRegister(w[i][2])
  <2>1. i < Len(u) => i + 1 \in 1 .. Len(u) /\ i < Len(w)
    BY <1>3
  <2>2. QED
    BY <1>3, <2>1 DEF EqPiece
<1>5. ASSUME NEW k \in 1 .. Len(s)
      PROVE  LET i == Len(u) + k
             IN /\ w[i][1] \in {"issue", "begin", "register"} /\ w[i][2] \in EqNames
                /\ w[i][1] = "begin" => i < Len(w) /\ w[i + 1] = ToRegister(w[i][2])
  <2>1. k < Len(s) => k + 1 \in 1 .. Len(s) /\ Len(u) + k < Len(w) /\ (Len(u) + k) + 1 = Len(u) + (k + 1)
    BY <1>3
  <2>2. w[Len(u) + k] = s[k] /\ (k < Len(s) => w[(Len(u) + k) + 1] = s[k + 1])
    BY <1>3, <2>1
  <2>3. QED
    BY <2>1, <2>2 DEF EqPiece
<1>6. \A i \in 1 .. Len(w) : i \in 1 .. Len(u) \/ \E k \in 1 .. Len(s) : i = Len(u) + k
  <2> TAKE i \in 1 .. Len(w)
  <2>1. i \in 1 .. Len(u) \/ (i - Len(u) \in 1 .. Len(s) /\ i = Len(u) + (i - Len(u)))
    BY <1>3
  <2>2. QED
    BY <2>1
<1>7. EqPiece(w)
  BY <1>3, <1>4, <1>5, <1>6 DEF EqPiece
<1>8. QED
  BY <1>2, <1>7

LEMMA EquityWorkFits ==
  ASSUME NEW a \in EqNames
  PROVE  EqPiece(EquityWork(a))
<1> DEFINE w == EquityWork(a)
<1>1. ToIssue(a) \in Tasks /\ ToBegin(a) \in Tasks /\ ToRegister(a) \in Tasks
  BY DEF ToIssue, ToBegin, ToRegister, Tasks, Names, EqNames
<1>2. w = <<ToIssue(a)>> \o <<ToBegin(a), ToRegister(a)>>
  BY DEF EquityWork, Unsupervised
<1>3. w \in Works /\ Len(w) = 3 /\ w[1] = ToIssue(a) /\ w[2] = ToBegin(a) /\ w[3] = ToRegister(a)
  <2> HIDE DEF w
  <2>1. QED
    BY <1>1, <1>2, ThreePieces DEF Works
<1> HIDE DEF w
<1>4. \A i \in 1 .. Len(w) : i = 1 \/ (i = 2 /\ i < Len(w)) \/ i = 3
  BY <1>3
<1>5. EqPiece(w)
  BY <1>3, <1>4, OpsDiffer DEF EqPiece
<1>6. QED
  BY <1>5 DEF w

LEMMA EqPaperWorkIs ==
  /\ EqPaperWork \in Works /\ Len(EqPaperWork) = 4
  /\ EqPaperWork[1] = ToIssue("eqpaper") /\ EqPaperWork[2] = ToBegin("eqpaper")
  /\ EqPaperWork[3] = ToRegister("eqpaper") /\ EqPaperWork[4] = ToList("eqpaper")
<1> DEFINE a == "eqpaper"
           w == EqPaperWork
           t == <<ToIssue(a)>> \o Unsupervised(a)
<1>1. ToIssue(a) \in Tasks /\ ToBegin(a) \in Tasks /\ ToRegister(a) \in Tasks /\ ToList(a) \in Tasks
  BY DEF ToIssue, ToBegin, ToRegister, ToList, Tasks, Names
<1>2. w = t \o <<ToList(a)>> /\ t = <<ToIssue(a)>> \o <<ToBegin(a), ToRegister(a)>>
  BY DEF EqPaperWork, Unsupervised
<1> HIDE DEF a, w, t
<1>3. t \in Works /\ Len(t) = 3 /\ t[1] = ToIssue(a) /\ t[2] = ToBegin(a) /\ t[3] = ToRegister(a)
  BY <1>1, <1>2, ThreePieces DEF Works
<1>4. w \in Works /\ Len(w) = 4 /\ (\A i \in 1 .. 3 : w[i] = t[i]) /\ w[4] = ToList(a)
  <2>1. t \in Works /\ ToList(a) \in Tasks /\ w = t \o <<ToList(a)>>
    BY <1>1, <1>2, <1>3
  <2>2. /\ w \in Works /\ Len(w) = Len(t) + 1
        /\ \A i \in 1 .. Len(t) : w[i] = t[i]
        /\ w[Len(t) + 1] = ToList(a)
    BY <2>1, OneMore DEF Works
  <2>3. QED
    BY <1>3, <2>2
<1>5. QED
  BY <1>3, <1>4 DEF a, w

LEMMA EquitiesSound ==
  WorkSound("equities", EquitiesWork)
<1>1. CASE "equities" \notin options
  BY <1>1, NoWorkSound DEF EquitiesWork
<1>2. CASE "equities" \in options
  <2> DEFINE u == EquityWork("sector_scout") \o EquityWork("fundamental") \o EquityWork("dividend_scout")
                    \o EquityWork("piotroski") \o EquityWork("breakout") \o EquityWork("rs_regime")
             s == EqPaperWork
             w == EquitiesWork
             n == Len(u)
  <2>1. EqPiece(u)
    <3>1. \A a \in EqNames : EqPiece(EquityWork(a))
      BY EquityWorkFits
    <3>2. /\ EqPiece(EquityWork("sector_scout")) /\ EqPiece(EquityWork("fundamental"))
          /\ EqPiece(EquityWork("dividend_scout")) /\ EqPiece(EquityWork("piotroski"))
          /\ EqPiece(EquityWork("breakout")) /\ EqPiece(EquityWork("rs_regime"))
      BY <3>1 DEF EqNames
    <3>3. EqPiece(EquityWork("sector_scout") \o EquityWork("fundamental"))
      BY <3>2, EqPieces
    <3>4. EqPiece(EquityWork("sector_scout") \o EquityWork("fundamental") \o EquityWork("dividend_scout"))
      BY <3>2, <3>3, EqPieces
    <3>5. EqPiece(EquityWork("sector_scout") \o EquityWork("fundamental") \o EquityWork("dividend_scout")
                    \o EquityWork("piotroski"))
      BY <3>2, <3>4, EqPieces
    <3>6. EqPiece(EquityWork("sector_scout") \o EquityWork("fundamental") \o EquityWork("dividend_scout")
                    \o EquityWork("piotroski") \o EquityWork("breakout"))
      BY <3>2, <3>5, EqPieces
    <3>7. QED
      BY <3>2, <3>6, EqPieces
  <2>2. w = u \o s
    BY <1>2 DEF EquitiesWork
  <2>3. u \in Works /\ s \in Works
    BY <2>1, EqPaperWorkIs DEF EqPiece
  <2> HIDE DEF u, w
  <2>4. /\ w \in Works /\ Len(w) = Len(u) + Len(s) /\ Len(u) \in Nat
        /\ \A i \in 1 .. Len(u) : w[i] = u[i]
        /\ \A k \in 1 .. Len(s) : w[Len(u) + k] = s[k]
    <3> HIDE DEF s
    <3>1. QED
      BY <2>2, <2>3, Appended DEF Works
  <2>5. /\ Len(w) = n + 4
        /\ w[n + 1] = ToIssue("eqpaper") /\ w[n + 2] = ToBegin("eqpaper")
        /\ w[n + 3] = ToRegister("eqpaper") /\ w[n + 4] = ToList("eqpaper")
    BY <2>4, EqPaperWorkIs
  <2>6. n \in Nat /\ \A i \in 1 .. n : w[i] = u[i]
    BY <2>4
  <2>7. ASSUME NEW i \in 1 .. n
        PROVE  Follows("equities", w, i) /\ OfBlock("equities", w, i)
    <3>1. /\ w[i][1] \in {"issue", "begin", "register"} /\ w[i][2] \in EqNames
          /\ w[i][1] = "begin" => i < n /\ w[i + 1] = ToRegister(w[i][2])
      <4>1. i < n => i + 1 \in 1 .. n
        BY <2>6
      <4>2. QED
        BY <2>1, <2>6, <4>1 DEF EqPiece
    <3>2. i < n => i < Len(w)
      BY <2>5, <2>6
    <3>3. w[i][2] \notin Trading /\ w[i][2] \notin {"eqpaper", "paper", "execution", "watchtower"}
      BY <3>1 DEF EqNames, Trading
    <3>4. Follows("equities", w, i)
      BY <3>1, <3>2, <3>3 DEF Follows
    <3>5. OfBlock("equities", w, i)
      BY <3>1, <3>3 DEF OfBlock
    <3>6. QED
      BY <3>4, <3>5
  <2>8. ASSUME NEW i \in n + 1 .. n + 4
        PROVE  Follows("equities", w, i) /\ OfBlock("equities", w, i)
    <3>1. i = n + 1 \/ i = n + 2 \/ i = n + 3 \/ i = n + 4
      BY <2>6
    <3>2. OfBlock("equities", w, i)
      BY <2>5, <3>1, OpsDiffer DEF OfBlock
    <3>3. CASE i = n + 1
      <4>1. n + 2 \in i + 1 .. Len(w)
        BY <2>5, <2>6, <3>3
      <4>2. \E j \in i + 1 .. Len(w) : w[j] = ToBegin("eqpaper")
        BY <2>5, <4>1
      <4>3. w[i][1] = "issue" /\ w[i][2] = "eqpaper"
        BY <2>5, <3>3, OpsDiffer
      <4>4. QED
        BY <3>2, <4>2, <4>3 DEF Follows
    <3>4. CASE i = n + 2
      <4>1. n + 4 \in i + 1 .. Len(w) /\ i < Len(w) /\ i + 1 = n + 3 /\ \A j \in i + 1 .. Len(w) : j = n + 3 \/ j = n + 4
        BY <2>5, <2>6, <3>4
      <4>2. \E j \in i + 1 .. Len(w) : w[j] = ToList("eqpaper")
        BY <2>5, <4>1
      <4>3. \A j \in i + 1 .. Len(w) : w[j][1] \notin {"issue", "begin"}
        BY <2>5, <4>1, OpsDiffer
      <4>4. w[i][1] = "begin" /\ w[i][2] = "eqpaper" /\ w[i + 1] = ToRegister("eqpaper")
        BY <2>5, <3>4, <4>1, OpsDiffer
      <4>5. QED
        BY <3>2, <4>1, <4>2, <4>3, <4>4 DEF Follows
    <3>5. CASE i = n + 3
      <4>1. w[i][1] = "register"
        BY <2>5, <3>5, OpsDiffer
      <4>2. QED
        BY <3>2, <4>1 DEF Follows
    <3>6. CASE i = n + 4
      <4>1. w[i][1] = "list" /\ w[i][2] = "eqpaper" /\ i = Len(w)
        BY <2>5, <3>6, OpsDiffer
      <4>2. QED
        BY <3>2, <4>1 DEF Follows
    <3>7. QED
      BY <3>1, <3>3, <3>4, <3>5, <3>6
  <2>9. \A i \in 1 .. Len(w) : i \in 1 .. n \/ i \in n + 1 .. n + 4
    BY <2>5, <2>6
  <2>10. w[Len(w)][2] = "eqpaper"
    BY <2>5, OpsDiffer
  <2>11. WorkSound("equities", w)
    BY <2>4, <2>7, <2>8, <2>9, <2>10 DEF WorkSound
  <2>12. QED
    BY <2>11 DEF w
<1>3. QED
  BY <1>1, <1>2

LEMMA SmallBlocksSound ==
  /\ WorkSound("strategy", StrategyWork) /\ WorkSound("operator", OperatorWork)
  /\ WorkSound("time_filter", TimeFilterWork) /\ WorkSound("news", NewsWork)
  /\ WorkSound("watchtower", WatchtowerWork)
  /\ WatchtowerWork # <<>> => WatchtowerWork[1][1] = "issue"
<1>0. \A a \in Names : ToIssue(a) \in Tasks /\ ToBegin(a) \in Tasks /\ ToRegister(a) \in Tasks
  BY DEF ToIssue, ToBegin, ToRegister, Tasks, Names
<1>1. WorkSound("strategy", StrategyWork)
  <2> DEFINE w == StrategyWork
  <2>1. ToBegin("strategy") \in Tasks
    BY <1>0 DEF Names
  <2>2. w \in Works /\ Len(w) = 1 /\ w[1] = ToBegin("strategy")
    BY <2>1 DEF StrategyWork, Supervised, Works
  <2> HIDE DEF w
  <2>3. \A i \in 1 .. Len(w) : i = 1
    BY <2>2
  <2>4. w[1][1] = "begin" /\ w[1][2] = "strategy"
    BY <2>2, OpsDiffer
  <2>5. Follows("strategy", w, 1) /\ OfBlock("strategy", w, 1)
    BY <2>4 DEF Follows, OfBlock, Announced
  <2>6. WorkSound("strategy", w)
    BY <2>2, <2>3, <2>5 DEF WorkSound
  <2>7. QED
    BY <2>6 DEF w
<1>2. ASSUME NEW a \in {"operator", "news"},
             NEW w, w = <<ToIssue(a)>> \o <<ToBegin(a)>>
      PROVE  WorkSound(a, w)
  <2>1. ToIssue(a) \in Tasks /\ ToBegin(a) \in Tasks
    BY <1>0 DEF Names
  <2>2. w \in Works /\ Len(w) = 2 /\ w[1] = ToIssue(a) /\ w[2] = ToBegin(a)
    BY <1>2, <2>1, TwoPieces DEF Works
  <2>3. \A i \in 1 .. Len(w) : i = 1 \/ i = 2
    BY <2>2
  <2>4. w[1][1] = "issue" /\ w[1][2] = a /\ w[2][1] = "begin" /\ w[2][2] = a
    BY <2>2, OpsDiffer
  <2>5. a \notin Trading /\ a \in Announced
    BY <2>1 DEF Trading, Announced
  <2>6. Follows(a, w, 1) /\ OfBlock(a, w, 1)
    BY <2>1, <2>4, <2>5 DEF Follows, OfBlock
  <2>7. Follows(a, w, 2) /\ OfBlock(a, w, 2)
    BY <2>1, <2>4, <2>5 DEF Follows, OfBlock
  <2>8. QED
    BY <2>1, <2>2, <2>3, <2>6, <2>7 DEF WorkSound
<1>3. WorkSound("operator", OperatorWork)
  <2>1. OperatorWork = <<ToIssue("operator")>> \o <<ToBegin("operator")>>
    BY DEF OperatorWork, Supervised
  <2>2. QED
    BY <1>2, <2>1
<1>4. WorkSound("news", NewsWork)
  <2>1. NewsWork = <<>> \/ NewsWork = <<ToIssue("news")>> \o <<ToBegin("news")>>
    BY DEF NewsWork, IssueAndStart
  <2>2. QED
    BY <1>2, <2>1, NoWorkSound
<1>5. ASSUME NEW w, w = <<ToIssue("time_filter")>> \o <<ToBegin("time_filter"), ToRegister("time_filter")>>
      PROVE  WorkSound("time_filter", w)
  <2> DEFINE a == "time_filter"
  <2>1. ToIssue(a) \in Tasks /\ ToBegin(a) \in Tasks /\ ToRegister(a) \in Tasks
    BY <1>0 DEF Names
  <2>2. w \in Works /\ Len(w) = 3 /\ w[1] = ToIssue(a) /\ w[2] = ToBegin(a) /\ w[3] = ToRegister(a)
    <3> HIDE DEF a
    <3>1. w = <<ToIssue(a)>> \o <<ToBegin(a), ToRegister(a)>>
      BY <1>5 DEF a
    <3>2. QED
      BY <3>1, <2>1, ThreePieces DEF Works
  <2>3. \A i \in 1 .. Len(w) : i = 1 \/ (i = 2 /\ i < Len(w)) \/ i = 3
    BY <2>2
  <2>4. /\ w[1][1] = "issue" /\ w[1][2] = a /\ w[2][1] = "begin" /\ w[2][2] = a
        /\ w[3][1] = "register" /\ w[3][2] = a
    BY <2>2, OpsDiffer
  <2>5. a \notin Trading
    BY DEF Trading
  <2>6. Follows(a, w, 1) /\ OfBlock(a, w, 1)
    BY <2>4, <2>5 DEF Follows, OfBlock
  <2>7. Follows(a, w, 2) /\ OfBlock(a, w, 2)
    BY <2>2, <2>4, <2>5 DEF Follows, OfBlock
  <2>8. Follows(a, w, 3) /\ OfBlock(a, w, 3)
    BY <2>4, <2>5 DEF Follows, OfBlock
  <2>9. QED
    BY <2>2, <2>3, <2>6, <2>7, <2>8 DEF WorkSound
<1>6. WorkSound("time_filter", TimeFilterWork)
  <2>1. \/ TimeFilterWork = <<>>
        \/ TimeFilterWork = <<ToIssue("time_filter")>> \o <<ToBegin("time_filter"), ToRegister("time_filter")>>
    BY DEF TimeFilterWork, IssueAndStart, Unsupervised
  <2>2. QED
    BY <1>5, <2>1, NoWorkSound
<1>7. ASSUME NEW w, w = <<ToIssue("watchtower")>> \o <<ToRegister("watchtower"), ToBegin("watchtower")>>
      PROVE  WorkSound("watchtower", w) /\ w[1][1] = "issue"
  <2> DEFINE a == "watchtower"
  <2>1. ToIssue(a) \in Tasks /\ ToBegin(a) \in Tasks /\ ToRegister(a) \in Tasks
    BY <1>0 DEF Names
  <2>2. w \in Works /\ Len(w) = 3 /\ w[1] = ToIssue(a) /\ w[2] = ToRegister(a) /\ w[3] = ToBegin(a)
    <3> HIDE DEF a
    <3>1. w = <<ToIssue(a)>> \o <<ToRegister(a), ToBegin(a)>>
      BY <1>7 DEF a
    <3>2. QED
      BY <3>1, <2>1, ThreePieces DEF Works
  <2>3. \A i \in 1 .. Len(w) : (i = 1 /\ i < Len(w)) \/ i = 2 \/ (i = 3 /\ i = Len(w))
    BY <2>2
  <2>4. /\ w[1][1] = "issue" /\ w[1][2] = a /\ w[2][1] = "register" /\ w[2][2] = a
        /\ w[3][1] = "begin" /\ w[3][2] = a
    BY <2>2, OpsDiffer
  <2>5. a \notin Trading /\ a \in Announced
    BY DEF Trading, Announced
  <2>6. Follows(a, w, 1) /\ OfBlock(a, w, 1)
    BY <2>2, <2>4, <2>5 DEF Follows, OfBlock
  <2>7. Follows(a, w, 2) /\ OfBlock(a, w, 2)
    BY <2>4, <2>5 DEF Follows, OfBlock
  <2>8. Follows(a, w, 3) /\ OfBlock(a, w, 3)
    BY <2>2, <2>4, <2>5 DEF Follows, OfBlock
  <2>9. WorkSound("watchtower", w)
    BY <2>2, <2>3, <2>6, <2>7, <2>8 DEF WorkSound
  <2>10. QED
    BY <2>4, <2>9
<1>8. WorkSound("watchtower", WatchtowerWork) /\ (WatchtowerWork # <<>> => WatchtowerWork[1][1] = "issue")
  <2>1. \/ WatchtowerWork = <<>>
        \/ WatchtowerWork = <<ToIssue("watchtower")>> \o <<ToRegister("watchtower"), ToBegin("watchtower")>>
    BY DEF WatchtowerWork, IssueAndStart
  <2>2. QED
    BY <1>7, <2>1, NoWorkSound
<1>9. QED
  BY <1>1, <1>3, <1>4, <1>6, <1>8

\* What a block has to do when main comes to it.
LEMMA BlocksSound ==
  ASSUME options \in OptIns, NEW b \in ToSet(Blocks)
  PROVE  /\ WorkSound(b, WorkOf(b))
         /\ b \in {"node", "context"} => WorkOf(b) = <<>>
         /\ b = "watchtower" /\ WorkOf(b) # <<>> => WorkOf(b)[1][1] = "issue"
<1>1. /\ "killzone" \notin options /\ "claude" \notin options
  BY OptionsFacts
<1>2. KillZoneWork = <<>> /\ ClaudeWork = <<>>
  BY <1>1 DEF KillZoneWork, ClaudeWork, IssueAndStart
<1>3. WorkSound("killzone", KillZoneWork) /\ WorkSound("claude", ClaudeWork)
  BY <1>2, NoWorkSound
<1>4. WorkOf("node") = <<>> /\ WorkOf("context") = <<>>
  BY DEF WorkOf
<1>5. WorkSound("node", WorkOf("node")) /\ WorkSound("context", WorkOf("context"))
  BY <1>4, NoWorkSound
<1>6. WorkSound("crypto", WorkOf("crypto"))
  BY CryptoSound DEF WorkOf
<1>7. WorkSound("equities", WorkOf("equities"))
  BY EquitiesSound DEF WorkOf
<1>8. /\ WorkOf("strategy") = StrategyWork /\ WorkOf("killzone") = KillZoneWork /\ WorkOf("claude") = ClaudeWork
      /\ WorkOf("operator") = OperatorWork /\ WorkOf("time_filter") = TimeFilterWork
      /\ WorkOf("news") = NewsWork /\ WorkOf("watchtower") = WatchtowerWork
  BY DEF WorkOf
<1>9. QED
  BY <1>3, <1>4, <1>5, <1>6, <1>7, <1>8, SmallBlocksSound, BlockNames

LEMMA HeadFacts ==
  ASSUME BootTypeOK, work # <<>>
  PROVE  /\ Head(work) = work[1] /\ 1 \in 1 .. Len(work) /\ work \in Works /\ Len(work) \in Nat
         /\ WorkSound(block, work)
         /\ Follows(block, work, 1) /\ OfBlock(block, work, 1)
         /\ block \notin {"node", "context", "up", "exit"}
<1>1. WorkSound(block, work) /\ work \in Works
  BY DEF BootTypeOK, WorkSound
<1>2. Head(work) = work[1] /\ Len(work) \in Nat \ {0}
  BY <1>1, TailFacts
<1>3. 1 \in 1 .. Len(work) /\ Len(work) \in Nat
  BY <1>2
<1>4. QED
  BY <1>1, <1>2, <1>3 DEF BootTypeOK, WorkSound

\* What is still to come once a piece of work is done.
LEMMA DoneFacts ==
  ASSUME BootTypeOK, work # <<>>, Done
  PROVE  /\ WorkSound(block', work')
         /\ \A k \in 1 .. Len(work) : k = 1 \/ \E i \in 1 .. Len(work') : work'[i] = work[k]
         /\ \A i \in 1 .. Len(work') : \E k \in 2 .. Len(work) : work'[i] = work[k]
         /\ Len(work) = 1 => work' = <<>>
         /\ work' # <<>> => 1 < Len(work) /\ work'[1] = work[2]
<1>1. /\ work \in Works /\ WorkSound(block, work) /\ work' = Tail(work) /\ block' = block
  BY HeadFacts DEF Done
<1>2. WorkSound(block', work')
  BY <1>1, TailSound
<1>3. /\ Tail(work) \in Works /\ Len(Tail(work)) = Len(work) - 1 /\ Len(work) \in Nat \ {0}
      /\ \A i \in 1 .. Len(work) - 1 : Tail(work)[i] = work[i + 1]
  BY <1>1, TailFacts
<1>4. ASSUME NEW k \in 1 .. Len(work), k # 1
      PROVE  \E i \in 1 .. Len(work') : work'[i] = work[k]
  <2>1. k - 1 \in 1 .. Len(Tail(work)) /\ k - 1 \in 1 .. Len(work) - 1 /\ (k - 1) + 1 = k
    BY <1>3, <1>4
  <2>2. Tail(work)[k - 1] = work[k]
    BY <1>3, <2>1
  <2>3. QED
    BY <1>1, <2>1, <2>2
<1>5. ASSUME NEW i \in 1 .. Len(work')
      PROVE  \E k \in 2 .. Len(work) : work'[i] = work[k]
  <2>1. i \in 1 .. Len(work) - 1 /\ i + 1 \in 2 .. Len(work)
    BY <1>1, <1>3
  <2>2. QED
    BY <1>1, <1>3, <2>1
<1>6. Len(work) = 1 => work' = <<>>
  <2>1. \A t : t \in Works /\ Len(t) = 0 => t = <<>>
    BY DEF Works
  <2>2. Len(work) = 1 => Len(Tail(work)) = 0
    BY <1>3
  <2>3. QED
    BY <1>1, <1>3, <2>1, <2>2
<1>7. work' # <<>> => 1 < Len(work) /\ work'[1] = work[2]
  <2>1. Len(work) = 1 \/ (1 < Len(work) /\ 1 \in 1 .. Len(work) - 1 /\ 1 + 1 = 2)
    BY <1>3
  <2>2. 1 < Len(work) => Tail(work)[1] = work[2]
    BY <1>3, <2>1
  <2>3. QED
    BY <1>1, <1>6, <2>1, <2>2
<1>8. QED
  BY <1>2, <1>4, <1>5, <1>6, <1>7

LEMMA DoneKeeps ==
  ASSUME BootTypeOK, work # <<>>, Done
  PROVE  /\ Binding' => \E k \in 2 .. Len(work) : work[k][1] = "bind"
         /\ Binding' => Binding
         /\ Binding => Binding' \/ work[1][1] = "bind"
         /\ \A a : ToCome(a) => ToCome(a)' \/ work[1] = ToBegin(a)
         /\ Listing => Listing' \/ work[1] = ToList("eqpaper")
         /\ AllAsked => AllAsked'
<1>1. /\ \A k \in 1 .. Len(work) : k = 1 \/ \E i \in 1 .. Len(work') : work'[i] = work[k]
      /\ \A i \in 1 .. Len(work') : \E k \in 2 .. Len(work) : work'[i] = work[k]
  BY DoneFacts
<1>2. \A k \in 2 .. Len(work) : k \in 1 .. Len(work)
  BY HeadFacts
<1>3. Binding' => \E k \in 2 .. Len(work) : work[k][1] = "bind"
  BY <1>1 DEF Binding
<1>4. Binding' => Binding
  BY <1>2, <1>3 DEF Binding
<1>5. Binding => Binding' \/ work[1][1] = "bind"
  BY <1>1 DEF Binding
<1>6. \A a : ToCome(a) => ToCome(a)' \/ work[1] = ToBegin(a)
  BY <1>1 DEF ToCome
<1>7. Listing => Listing' \/ work[1] = ToList("eqpaper")
  BY <1>1 DEF Listing
<1>8. AllAsked => AllAsked'
  <2>1. \A i \in 1 .. Len(work') : \E k \in 1 .. Len(work) : work'[i] = work[k]
    BY <1>1, <1>2
  <2>2. QED
    BY <2>1 DEF AllAsked
<1>9. QED
  BY <1>3, <1>4, <1>5, <1>6, <1>7, <1>8

LEMMA InLists ==
  ASSUME NEW k \in Nat, NEW l \in Lists(k)
  PROVE  l \in Seq(Ledgers) /\ l # Unbound
<1>1. <<"paper", k>> \in Ledgers /\ <<"eqpaper", 1>> \in Ledgers
  BY DEF Ledgers
<1>2. l \in Seq(Ledgers)
  <2>1. \A p, e \in Ledgers : /\ <<>> \in Seq(Ledgers) /\ <<e>> \in Seq(Ledgers) /\ <<p>> \in Seq(Ledgers)
                              /\ <<p, e>> \in Seq(Ledgers) /\ <<e, p>> \in Seq(Ledgers)
    OBVIOUS
  <2>2. QED
    BY <1>1, <2>1 DEF Lists, Showing
<1>3. QED
  BY <1>2, BootAssumption

LEMMA BootStarts == BootInit => BootInv
<1>1. BootInit => "node" \in ToSet(Blocks)
  BY BlockNames
<1>2. BootInit => BootTypeOK
  BY <1>1, NoWorkSound DEF BootInit, BootTypeOK
<1>3. BootInit => \A i \in 1 .. Len(work) : FALSE
  BY DEF BootInit
<1>4. BootInit => ListInv /\ EqPaperInv /\ KnownInv /\ CapitalInv
  BY <1>3 DEF BootInit, ListInv, EqPaperInv, KnownInv, CapitalInv, Binding, Listed, LaterThanEquities
<1>5. QED
  BY <1>2, <1>4 DEF BootInv

LEMMA AskKeeps ==
  ASSUME BootInv, NEW a \in Ants, AskMission(a)
  PROVE  BootInv'
<1>1. BootTypeOK /\ ListInv /\ EqPaperInv /\ KnownInv /\ CapitalInv
  BY DEF BootInv
<1>2. /\ work # <<>> /\ Done /\ Head(work) = <<"issue", a>>
      /\ UNCHANGED <<options, promoted, running, known, shown, paperAnts, paperRuns, failed, block>>
      /\ granted' = granted \cup (IF Affordable(a) THEN {a} ELSE {})
      /\ answered' = answered \cup (IF Affordable(a) THEN {a} ELSE {})
  BY DEF AskMission, Doing, Done, paperVars
<1>3. /\ work[1] = <<"issue", a>> /\ 1 \in 1 .. Len(work) /\ Len(work) \in Nat
      /\ Follows(block, work, 1) /\ OfBlock(block, work, 1)
      /\ block \notin {"node", "context", "up", "exit"}
  BY <1>1, <1>2, HeadFacts
<1>4. work[1][1] = "issue" /\ work[1][2] = a /\ work[1] # ToList("eqpaper") /\ \A b : work[1] # ToBegin(b)
  BY <1>3 DEF ToList, ToBegin
<1>5. /\ Binding' <=> Binding
      /\ \A b : ToCome(b) => ToCome(b)'
      /\ (Listing => Listing') /\ (AllAsked => AllAsked')
  BY <1>1, <1>2, <1>4, DoneKeeps
<1>6. BootTypeOK'
  BY <1>1, <1>2, <1>3, DoneFacts DEF BootTypeOK
<1>7. ListInv'
  BY <1>1, <1>2, <1>3, <1>5 DEF ListInv
<1>8. ~AllAsked
  BY <1>3, <1>4 DEF AllAsked
<1>9. EqPaperInv'
  BY <1>1, <1>2, <1>5, <1>8 DEF EqPaperInv, Listed
<1>10. KnownInv'
  <2>1. block = "watchtower" /\ work' # <<>> => work'[1][1] = "register"
    BY <1>1, <1>2, <1>3, <1>4, DoneFacts DEF Follows
  <2>2. QED
    BY <1>1, <1>2, <1>4, <2>1 DEF KnownInv
<1>11. CapitalInv'
  <2>1. a \in Trading => ToCome(a)
    <3>1. a \in Trading => \E j \in 2 .. Len(work) : work[j] = ToBegin(a)
      BY <1>4, <1>3 DEF Follows
    <3>2. QED
      BY <1>3, <3>1 DEF ToCome
  <2>2. QED
    BY <1>1, <1>2, <1>5, <2>1 DEF CapitalInv
<1>12. QED
  BY <1>6, <1>7, <1>9, <1>10, <1>11 DEF BootInv

LEMMA StartKeeps ==
  ASSUME BootInv, NEW a \in Ants, StartAnt(a)
  PROVE  BootInv'
<1>1. BootTypeOK /\ ListInv /\ EqPaperInv /\ KnownInv /\ CapitalInv
  BY DEF BootInv
<1>2. /\ work # <<>> /\ Done /\ Head(work) = ToBegin(a)
      /\ UNCHANGED <<options, granted, answered, promoted, shown, paperAnts, paperRuns, failed, block>>
      /\ running' = IF a \in answered THEN running \cup {a} ELSE running
      /\ known' = IF a \in answered /\ a \in {"research", "audit", "strategy", "operator"}
                  THEN known \cup {a} ELSE known
  BY DEF StartAnt, Doing, Done, paperVars, askVars, ToBegin
<1>3. /\ work[1] = ToBegin(a) /\ 1 \in 1 .. Len(work) /\ Len(work) \in Nat
      /\ Follows(block, work, 1) /\ OfBlock(block, work, 1)
      /\ block \notin {"node", "context", "up", "exit"}
  BY <1>1, <1>2, HeadFacts
<1>4. work[1][1] = "begin" /\ work[1][2] = a /\ work[1] # ToList("eqpaper") /\ \A b : work[1] = ToBegin(b) => a = b
  BY <1>3 DEF ToList, ToBegin
<1>5. /\ Binding' <=> Binding
      /\ \A b : ToCome(b) => ToCome(b)' \/ b = a
      /\ Listing => Listing'
  BY <1>1, <1>2, <1>4, DoneKeeps
<1>6. BootTypeOK'
  <2>1. WorkSound(block', work')
    BY <1>1, <1>2, DoneFacts
  <2>2. QED
    BY <1>1, <1>2, <1>3, <2>1 DEF BootTypeOK
<1>7. a = "paper" => shown # Unbound
  <2>1. SUFFICES ASSUME a = "paper", shown = Unbound PROVE FALSE
    OBVIOUS
  <2>2. block = "crypto"
    BY <1>4, <1>3, <2>1 DEF OfBlock
  <2>3. Binding
    BY <1>1, <1>2, <2>1, <2>2 DEF ListInv
  <2>4. \A j \in 2 .. Len(work) : work[j][1] # "bind"
    BY <1>3, <1>4, <2>1 DEF Follows
  <2>5. Binding'
    BY <1>5, <2>3
  <2>6. QED
    BY <1>1, <1>2, <2>4, <2>5, DoneKeeps
<1>8. ListInv'
  BY <1>1, <1>2, <1>3, <1>5, <1>7 DEF ListInv
<1>9. ~AllAsked
  BY <1>3, <1>4 DEF AllAsked
<1>10. a = "eqpaper" => block = "equities" /\ Listing' /\ AllAsked'
  <2> SUFFICES ASSUME a = "eqpaper" PROVE block = "equities" /\ Listing' /\ AllAsked'
    OBVIOUS
  <2>1. block = "equities"
    BY <1>3, <1>4 DEF OfBlock
  <2>2. /\ \E j \in 2 .. Len(work) : work[j] = ToList("eqpaper")
        /\ \A j \in 2 .. Len(work) : work[j][1] \notin {"issue", "begin"}
    BY <1>3, <1>4 DEF Follows
  <2>3. Listing
    BY <1>3, <2>2 DEF Listing
  <2>4. AllAsked'
    <3>1. \A i \in 1 .. Len(work') : \E k \in 2 .. Len(work) : work'[i] = work[k]
      BY <1>1, <1>2, DoneFacts
    <3>2. QED
      BY <2>2, <3>1 DEF AllAsked
  <2>5. QED
    BY <1>5, <2>1, <2>3, <2>4
<1>11. EqPaperInv'
  <2>1. "eqpaper" \in running' => a = "eqpaper" \/ "eqpaper" \in running
    BY <1>2
  <2>2. Listed' <=> Listed
    BY <1>2 DEF Listed
  <2>3. "eqpaper" \in running => block \in LaterThanEquities
    BY <1>1, <1>9 DEF EqPaperInv
  <2>4. block = "equities" => ~Listed
    BY <1>1, <1>2 DEF EqPaperInv, LaterThanEquities
  <2>5. block \in LaterThanEquities => block # "equities"
    BY DEF LaterThanEquities
  <2>6. QED
    BY <1>1, <1>2, <1>5, <1>10, <2>1, <2>2, <2>3, <2>4, <2>5 DEF EqPaperInv
<1>12. KnownInv'
  <2>1. running \ known \subseteq {"news"} \cup (IF paperAnts = 0 THEN {"paper"} ELSE {})
    BY <1>1, <1>4 DEF KnownInv
  <2>2. a \notin Announced => work' # <<>> /\ work'[1] = ToRegister(a)
    <3>1. a \notin Announced => 1 < Len(work) /\ work[2] = ToRegister(a)
      BY <1>3, <1>4 DEF Follows
    <3>2. 1 < Len(work) => work' # <<>> /\ work'[1] = work[2]
      <4>1. \A k \in 1 .. Len(work) : k = 1 \/ \E i \in 1 .. Len(work') : work'[i] = work[k]
        BY <1>1, <1>2, DoneFacts
      <4>2. ASSUME 1 < Len(work), work' = <<>> PROVE FALSE
        <5>1. 2 \in 1 .. Len(work) /\ Len(work') = 0
          BY <1>3, <4>2
        <5>2. \A i \in 1 .. Len(work') : FALSE
          BY <5>1
        <5>3. QED
          BY <4>1, <5>1, <5>2
      <4>3. QED
        BY <1>1, <1>2, <4>2, DoneFacts
    <3>3. QED
      BY <3>1, <3>2
  <2>3. a \notin Announced => work' # <<>> /\ work'[1][1] = "register" /\ work'[1][2] = a
    BY <2>2, OpsDiffer
  <2>4. a = "paper" /\ paperAnts # 0 => "paper" \in known
    BY <1>1 DEF ListInv, BootTypeOK
  <2>5. a = "watchtower" /\ a \in answered => "watchtower" \in known
    BY <1>1, <1>2, <1>3, <1>4 DEF KnownInv, OfBlock
  <2>6. ASSUME NEW b \in running' \ known'
        PROVE  b \in {"news"} \cup (IF paperAnts' = 0 THEN {"paper"} ELSE {})
                     \cup (IF work' # <<>> /\ work'[1][1] = "register" THEN {work'[1][2]} ELSE {})
    <3>1. CASE b \in running \ known
      BY <1>2, <2>1, <3>1
    <3>2. CASE b = a /\ a \in answered /\ b \notin known'
      <4>1. CASE a \in Announced
        <5>1. a \notin {"research", "audit", "strategy", "operator"} /\ a \notin known
          BY <1>2, <3>2
        <5>2. a \in {"paper", "news", "watchtower"}
          BY <4>1, <5>1 DEF Announced
        <5>3. QED
          BY <1>2, <2>4, <2>5, <3>2, <5>1, <5>2
      <4>2. CASE a \notin Announced
        BY <2>3, <3>2, <4>2
      <4>3. QED
        BY <4>1, <4>2
    <3>3. QED
      BY <1>2, <3>1, <3>2
  <2>7. block = "watchtower" => work' = <<>>
    <3>1. block = "watchtower" => Len(work) = 1
      BY <1>3, <1>4 DEF Follows
    <3>2. QED
      BY <1>1, <1>2, <3>1, DoneFacts
  <2>8. block' = block
    BY <1>2
  <2>9. QED
    BY <2>6, <2>7, <2>8 DEF KnownInv
<1>13. CapitalInv'
  BY <1>1, <1>2, <1>5 DEF CapitalInv
<1>14. QED
  BY <1>6, <1>8, <1>11, <1>12, <1>13 DEF BootInv

LEMMA RegisterKeeps ==
  ASSUME BootInv, NEW a \in Ants, RegisterAnt(a)
  PROVE  BootInv'
<1>1. BootTypeOK /\ ListInv /\ EqPaperInv /\ KnownInv /\ CapitalInv
  BY DEF BootInv
<1>2. /\ work # <<>> /\ Done /\ Head(work) = <<"register", a>>
      /\ UNCHANGED <<options, granted, answered, promoted, running, shown, paperAnts, paperRuns, failed, block>>
      /\ known' = IF a \in answered THEN known \cup {a} ELSE known
  BY DEF RegisterAnt, Doing, Done, paperVars, askVars
<1>3. /\ work[1] = <<"register", a>> /\ 1 \in 1 .. Len(work) /\ Len(work) \in Nat
      /\ Follows(block, work, 1) /\ OfBlock(block, work, 1)
      /\ block \notin {"node", "context", "up", "exit"}
  BY <1>1, <1>2, HeadFacts
<1>4. work[1][1] = "register" /\ work[1][2] = a /\ work[1] # ToList("eqpaper") /\ \A b : work[1] # ToBegin(b)
  BY <1>3 DEF ToList, ToBegin
<1>5. /\ Binding' <=> Binding
      /\ \A b : ToCome(b) => ToCome(b)'
      /\ (Listing => Listing') /\ (AllAsked => AllAsked')
  BY <1>1, <1>2, <1>4, DoneKeeps
<1>6. BootTypeOK'
  <2>1. WorkSound(block', work')
    BY <1>1, <1>2, DoneFacts
  <2>2. QED
    BY <1>1, <1>2, <1>3, <2>1 DEF BootTypeOK
<1>7. ListInv'
  BY <1>1, <1>2, <1>3, <1>5 DEF ListInv
<1>8. EqPaperInv'
  <2>1. Listed' <=> Listed
    BY <1>2 DEF Listed
  <2>2. block = "equities" => ~Listed
    BY <1>1, <1>2 DEF EqPaperInv, LaterThanEquities
  <2>3. Listed' => block' \in LaterThanEquities
    BY <1>1, <1>2, <2>1, <2>2 DEF EqPaperInv
  <2>4. (shown = Unbound \/ Listed \/ Listing) => (shown' = Unbound \/ Listed' \/ Listing')
    BY <1>2, <1>5, <2>1
  <2>5. "eqpaper" \in running' =>
          /\ block' \in LaterThanEquities \cup {"equities"}
          /\ shown' = Unbound \/ Listed' \/ Listing'
          /\ block' = "equities" => AllAsked'
    BY <1>1, <1>2, <1>5, <2>4 DEF EqPaperInv
  <2>6. QED
    BY <2>3, <2>5 DEF EqPaperInv
<1>9. KnownInv'
  <2>1. a \notin answered => a \notin running
    BY <1>1 DEF BootTypeOK
  <2>2. running \ known \subseteq {"news"} \cup (IF paperAnts = 0 THEN {"paper"} ELSE {}) \cup {a}
    BY <1>1, <1>2, <1>4 DEF KnownInv
  <2>3. running' \ known' \subseteq {"news"} \cup (IF paperAnts' = 0 THEN {"paper"} ELSE {})
    BY <1>2, <2>1, <2>2
  <2>4. block = "watchtower" => a = "watchtower"
    BY <1>3, <1>4 DEF Follows
  <2>5. QED
    BY <1>2, <2>3, <2>4 DEF KnownInv
<1>10. CapitalInv'
  BY <1>1, <1>2, <1>5 DEF CapitalInv
<1>11. QED
  BY <1>6, <1>7, <1>8, <1>9, <1>10 DEF BootInv

LEMMA BindKeeps ==
  ASSUME BootInv, BindLedgers
  PROVE  BootInv'
<1>1. BootTypeOK /\ ListInv /\ EqPaperInv /\ KnownInv /\ CapitalInv
  BY DEF BootInv
<1>2. /\ work # <<>> /\ Done /\ Head(work) = <<"bind", "ledgers">> /\ shown' = <<>>
      /\ UNCHANGED <<options, granted, answered, promoted, running, known, paperAnts, paperRuns, failed, block>>
  BY DEF BindLedgers, Doing, Done, paperVars, askVars
<1>3. /\ work[1] = <<"bind", "ledgers">> /\ 1 \in 1 .. Len(work) /\ Len(work) \in Nat
      /\ Follows(block, work, 1) /\ OfBlock(block, work, 1)
      /\ block \notin {"node", "context", "up", "exit"}
  BY <1>1, <1>2, HeadFacts
<1>4. work[1][1] = "bind" /\ \A b : work[1] # ToBegin(b)
  BY <1>3 DEF ToBegin
<1>5. \A b : ToCome(b) => ToCome(b)'
  BY <1>1, <1>2, <1>4, DoneKeeps
<1>6. BootTypeOK'
  <2>1. WorkSound(block', work')
    BY <1>1, <1>2, DoneFacts
  <2>2. QED
    BY <1>1, <1>2, <1>3, <2>1 DEF BootTypeOK
<1>7. block = "crypto"
  BY <1>3, <1>4 DEF OfBlock
<1>8. shown = Unbound /\ paperAnts = 0 /\ ~paperRuns
  <2>1. Binding
    BY <1>3, <1>4 DEF Binding
  <2>2. QED
    BY <1>1, <2>1 DEF ListInv
<1>9. ListInv'
  <2>1. <<>> # Unbound
    <3>1. <<>> \in Seq(Ledgers)
      OBVIOUS
    <3>2. QED
      BY <3>1, BootAssumption
  <2>2. \A j \in 2 .. Len(work) : work[j][1] # "bind"
    BY <1>3, <1>4 DEF Follows
  <2>3. ~Binding'
    BY <1>1, <1>2, <2>2, DoneKeeps
  <2>4. <<>> \in Lists(0)
    BY DEF Lists
  <2>5. QED
    BY <1>2, <1>3, <1>7, <1>8, <2>1, <2>3, <2>4 DEF ListInv
<1>10. EqPaperInv'
  <2>1. "eqpaper" \notin running
    BY <1>1, <1>7 DEF EqPaperInv, LaterThanEquities
  <2>2. ~Listed'
    BY <1>2 DEF Listed, ShowsEquities
  <2>3. QED
    BY <1>2, <2>1, <2>2 DEF EqPaperInv
<1>11. KnownInv'
  BY <1>1, <1>2, <1>4, <1>7 DEF KnownInv
<1>12. CapitalInv'
  BY <1>1, <1>2, <1>5 DEF CapitalInv
<1>13. QED
  BY <1>6, <1>9, <1>10, <1>11, <1>12 DEF BootInv

LEMMA RemovesFirst ==
  ASSUME NEW S, NEW s \in Seq(S), NEW e, NEW n \in 1 .. Len(s), s[n] = e, \A k \in 1 .. n - 1 : s[k] # e
  PROVE  RemoveFirst(s, e) = SubSeq(s, 1, n - 1) \o SubSeq(s, n + 1, Len(s))
<1> DEFINE I == {i \in 1 .. Len(s) : s[i] = e}
<1>1. Len(s) \in Nat /\ n \in I
  OBVIOUS
<1>2. \A i \in I : n <= i
  BY <1>1
<1>3. \A m \in I : (\A i \in I : m <= i) => m = n
  BY <1>1, <1>2
<1>4. (CHOOSE m \in I : \A i \in I : m <= i) = n
  <2> HIDE DEF I
  <2>1. QED
    BY <1>1, <1>2, <1>3
<1>5. Min(I) = n
  BY <1>4 DEF Min
<1>6. SelectInSeq(s, LAMBDA v : v = e) = IF I # {} THEN Min(I) ELSE 0
  BY DEF SelectInSeq
<1>7. SelectInSeq(s, LAMBDA v : v = e) = n
  BY <1>1, <1>5, <1>6
<1>8. QED
  BY <1>1, <1>7 DEF RemoveFirst, RemoveAt

\* What is left of a list of one or two.
LEMMA RemovesOne ==
  ASSUME NEW S, NEW a \in S, NEW b \in S, a # b
  PROVE  /\ RemoveFirst(<<>>, a) = <<>> /\ RemoveFirst(<<b>>, a) = <<b>> /\ RemoveFirst(<<a>>, a) = <<>>
         /\ RemoveFirst(<<a, b>>, a) = <<b>> /\ RemoveFirst(<<b, a>>, a) = <<b>>
<1>1. RemoveFirst(<<>>, a) = <<>> /\ RemoveFirst(<<b>>, a) = <<b>>
  <2>1. ~ \E i \in 1 .. Len(<<>>) : <<>>[i] = a
    OBVIOUS
  <2>2. ~ \E i \in 1 .. Len(<<b>>) : <<b>>[i] = a
    <3>1. Len(<<b>>) = 1 /\ <<b>>[1] = b
      OBVIOUS
    <3>2. QED
      BY <3>1
  <2>3. QED
    BY <2>1, <2>2 DEF RemoveFirst
<1>2. RemoveFirst(<<a>>, a) = <<>> \o <<>>
  <2> DEFINE s == <<a>>
  <2>1. s \in Seq(S) /\ 1 \in 1 .. Len(s) /\ Len(s) = 1 /\ s[1] = a
    OBVIOUS
  <2>2. SubSeq(s, 1, 1 - 1) = <<>> /\ SubSeq(s, 1 + 1, 1) = <<>>
    <3>1. SubSeq(s, 1, 1 - 1) = <<>>
      BY <2>1
    <3>2. SubSeq(s, 1 + 1, 1) = <<>>
      BY <2>1
    <3>3. QED
      BY <3>1, <3>2
  <2> HIDE DEF s
  <2>3. \A j \in 1 .. 1 - 1 : s[j] # a
    BY <2>1
  <2>4. RemoveFirst(s, a) = SubSeq(s, 1, 1 - 1) \o SubSeq(s, 1 + 1, Len(s))
    BY <2>1, <2>3, RemovesFirst
  <2>5. QED
    BY <2>1, <2>2, <2>4 DEF s
<1>3. RemoveFirst(<<a, b>>, a) = <<>> \o <<b>>
  <2> DEFINE s == <<a, b>>
  <2>1. s \in Seq(S) /\ 1 \in 1 .. Len(s) /\ Len(s) = 2 /\ s[1] = a
    OBVIOUS
  <2>2. SubSeq(s, 1, 1 - 1) = <<>> /\ SubSeq(s, 1 + 1, 2) = <<b>>
    <3>1. SubSeq(s, 1, 1 - 1) = <<>>
      BY <2>1
    <3>2. SubSeq(s, 1 + 1, 2) = <<b>>
      <4> DEFINE t == SubSeq(s, 1 + 1, 2)
      <4>1. t \in Seq(S) /\ Len(t) = 1 /\ t[1] = b
        BY <2>1
      <4> HIDE DEF t
      <4>2. t = <<b>>
        BY <4>1
      <4>3. QED
        BY <4>2 DEF t
    <3>3. QED
      BY <3>1, <3>2
  <2> HIDE DEF s
  <2>3. \A j \in 1 .. 1 - 1 : s[j] # a
    BY <2>1
  <2>4. RemoveFirst(s, a) = SubSeq(s, 1, 1 - 1) \o SubSeq(s, 1 + 1, Len(s))
    BY <2>1, <2>3, RemovesFirst
  <2>5. QED
    BY <2>1, <2>2, <2>4 DEF s
<1>4. RemoveFirst(<<b, a>>, a) = <<b>> \o <<>>
  <2> DEFINE s == <<b, a>>
  <2>1. s \in Seq(S) /\ 2 \in 1 .. Len(s) /\ Len(s) = 2 /\ s[2] = a /\ s[1] # a
    OBVIOUS
  <2>2. SubSeq(s, 1, 2 - 1) = <<b>> /\ SubSeq(s, 2 + 1, 2) = <<>>
    <3>1. SubSeq(s, 1, 2 - 1) = <<b>>
      <4> DEFINE t == SubSeq(s, 1, 2 - 1)
      <4>1. t \in Seq(S) /\ Len(t) = 1 /\ t[1] = b
        BY <2>1
      <4> HIDE DEF t
      <4>2. t = <<b>>
        BY <4>1
      <4>3. QED
        BY <4>2 DEF t
    <3>2. SubSeq(s, 2 + 1, 2) = <<>>
      BY <2>1
    <3>3. QED
      BY <3>1, <3>2
  <2> HIDE DEF s
  <2>3. \A j \in 1 .. 2 - 1 : s[j] # a
    BY <2>1
  <2>4. RemoveFirst(s, a) = SubSeq(s, 1, 2 - 1) \o SubSeq(s, 2 + 1, Len(s))
    <3>1. ASSUME NEW n \in 1 .. Len(s), s[n] = a, \A j \in 1 .. n - 1 : s[j] # a
          PROVE  RemoveFirst(s, a) = SubSeq(s, 1, n - 1) \o SubSeq(s, n + 1, Len(s))
      <4>1. s \in Seq(S)
        BY <2>1
      <4>2. QED
        BY <3>1, <4>1, RemovesFirst, Zenon
    <3>2. QED
      BY <2>1, <2>3, <3>1
  <2>5. QED
    BY <2>1, <2>2, <2>4 DEF s
<1>5. <<>> \o <<>> = <<>> /\ <<>> \o <<b>> = <<b>> /\ <<b>> \o <<>> = <<b>>
  OBVIOUS
<1>6. QED
  BY <1>1, <1>2, <1>3, <1>4, <1>5

LEMMA OneAfter ==
  ASSUME NEW S, NEW a \in S, NEW b \in S
  PROVE  Append(<<>>, b) = <<b>> /\ Append(<<a>>, b) = <<a, b>>
<1> DEFINE s == Append(<<a>>, b)
           t == <<a, b>>
<1>1. t \in Seq(S) /\ <<a>> \in Seq(S) /\ Len(t) = 2 /\ t[1] = a /\ t[2] = b
  OBVIOUS
<1>2. s \in Seq(S) /\ Len(s) = 2 /\ s[1] = a /\ s[2] = b
  BY <1>1
<1> HIDE DEF s, t
<1>3. s = t
  BY <1>1, <1>2
<1>4. QED
  BY <1>3 DEF s, t

\* Without the ledger of the PaperAnt before.
LEMMA LedgerDropped ==
  ASSUME NEW k \in Nat, NEW l \in Lists(k), NEW m, m = RemoveFirst(l, <<"paper", k>>)
  PROVE  /\ m \in Lists(k)
         /\ ShowsEquities(l) <=> ShowsEquities(m)
<1> DEFINE p == <<"paper", k>>
           e == <<"eqpaper", 1>>
<1>1. p \in Ledgers /\ e \in Ledgers /\ p # e
  BY DEF Ledgers
<1>2. l \in {<<>>, <<e>>, <<p>>, <<p, e>>, <<e, p>>}
  BY DEF Lists, Showing
<1> HIDE DEF p, e
<1>3. /\ RemoveFirst(<<>>, p) = <<>> /\ RemoveFirst(<<e>>, p) = <<e>> /\ RemoveFirst(<<p>>, p) = <<>>
      /\ RemoveFirst(<<p, e>>, p) = <<e>> /\ RemoveFirst(<<e, p>>, p) = <<e>>
  BY <1>1, RemovesOne
<1>4. m = RemoveFirst(l, p)
  BY DEF p
<1>5. \/ l \in {<<>>, <<p>>} /\ m = <<>>
      \/ l \in {<<e>>, <<p, e>>, <<e, p>>} /\ m = <<e>>
  BY <1>2, <1>3, <1>4
<1>6. /\ DOMAIN <<>> = {} /\ DOMAIN <<p>> = {1} /\ DOMAIN <<e>> = {1}
      /\ DOMAIN <<p, e>> = {1, 2} /\ DOMAIN <<e, p>> = {1, 2}
      /\ <<p>>[1] = p /\ <<e>>[1] = e /\ <<p, e>>[2] = e /\ <<e, p>>[1] = e
  OBVIOUS
<1>7. (\E n \in DOMAIN l : l[n] = e) <=> (\E n \in DOMAIN m : m[n] = e)
  BY <1>1, <1>5, <1>6
<1>8. m \in Lists(k)
  BY <1>5 DEF Lists, e
<1> QED BY <1>7, <1>8 DEF ShowsEquities, e

\* With the ledger of the new one.
LEMMA LedgerAdded ==
  ASSUME NEW k \in Nat, NEW l \in Lists(k), <<"paper", k>> \notin ToSet(l),
         NEW m, m = Append(l, <<"paper", k + 1>>)
  PROVE  /\ m \in Showing(k + 1)
         /\ ShowsEquities(l) <=> ShowsEquities(m)
<1> DEFINE p == <<"paper", k>>
           q == <<"paper", k + 1>>
           e == <<"eqpaper", 1>>
<1>1. q \in Ledgers /\ e \in Ledgers /\ q # e
  BY DEF Ledgers
<1>2. l \in {<<>>, <<e>>, <<p>>, <<p, e>>, <<e, p>>}
  BY DEF Lists, Showing
<1>3. p \notin ToSet(l) /\ m = Append(l, q)
  OBVIOUS
<1>4. {<<q>>, <<e, q>>} \subseteq Showing(k + 1)
  BY DEF Showing
<1> HIDE DEF p, q, e
<1>5. /\ DOMAIN <<>> = {} /\ DOMAIN <<p>> = {1} /\ DOMAIN <<e>> = {1} /\ DOMAIN <<q>> = {1}
      /\ DOMAIN <<p, e>> = {1, 2} /\ DOMAIN <<e, p>> = {1, 2} /\ DOMAIN <<e, q>> = {1, 2}
      /\ <<p>>[1] = p /\ <<e>>[1] = e /\ <<p, e>>[1] = p /\ <<e, p>>[2] = p /\ <<q>>[1] = q /\ <<e, q>>[1] = e
  OBVIOUS
<1>6. l \in {<<>>, <<e>>}
  <2>1. \A n \in DOMAIN l : l[n] # p
    BY <1>3 DEF ToSet
  <2> QED BY <1>2, <1>5, <2>1
<1>7. Append(<<>>, q) = <<q>> /\ Append(<<e>>, q) = <<e, q>>
  BY <1>1, OneAfter
<1>8. \/ l = <<>> /\ m = <<q>>
      \/ l = <<e>> /\ m = <<e, q>>
  BY <1>3, <1>6, <1>7
<1>9. (\E n \in DOMAIN l : l[n] = e) <=> (\E n \in DOMAIN m : m[n] = e)
  BY <1>1, <1>5, <1>8
<1>10. m \in Showing(k + 1)
  BY <1>4, <1>8
<1> QED BY <1>9, <1>10 DEF ShowsEquities, e

LEMMA ListKeeps ==
  ASSUME BootInv, ListLedger
  PROVE  BootInv'
<1>1. BootTypeOK /\ ListInv /\ EqPaperInv /\ KnownInv /\ CapitalInv
  BY DEF BootInv
<1>2. /\ work # <<>> /\ Done /\ Head(work) = <<"list", "eqpaper">>
      /\ UNCHANGED <<options, granted, answered, promoted, running, known, paperAnts, paperRuns, block>>
      /\ \/ /\ "eqpaper" \in answered /\ shown = Unbound
            /\ UNCHANGED shown /\ failed' = failed \cup {block}
         \/ /\ "eqpaper" \in answered /\ shown # Unbound
            /\ shown' = Append(shown, <<"eqpaper", 1>>) /\ failed' = failed
         \/ "eqpaper" \notin answered /\ UNCHANGED <<shown, failed>>
  BY DEF ListLedger, Doing, Done, paperVars, askVars
<1>3. /\ work[1] = <<"list", "eqpaper">> /\ 1 \in 1 .. Len(work) /\ Len(work) \in Nat
      /\ Follows(block, work, 1) /\ OfBlock(block, work, 1)
      /\ block \notin {"node", "context", "up", "exit"}
  BY <1>1, <1>2, HeadFacts
<1>4. work[1][1] = "list" /\ work[1][2] = "eqpaper" /\ \A b : work[1] # ToBegin(b)
  BY <1>3 DEF ToBegin
<1>5. /\ Binding' <=> Binding
      /\ \A b : ToCome(b) => ToCome(b)'
  BY <1>1, <1>2, <1>4, DoneKeeps
<1>6. block = "equities" /\ work' = <<>>
  <2>1. Len(work) = 1
    BY <1>3, <1>4 DEF Follows
  <2>2. QED
    BY <1>1, <1>2, <1>3, <1>4, <2>1, DoneFacts DEF OfBlock
<1>7. BootTypeOK'
  <2>1. WorkSound(block', work')
    BY <1>1, <1>2, DoneFacts
  <2>2. QED
    BY <1>1, <1>2, <1>3, <2>1 DEF BootTypeOK
<1>8. ~Listed
  BY <1>1, <1>2, <1>6 DEF EqPaperInv, LaterThanEquities
<1>9. CASE "eqpaper" \in answered /\ shown # Unbound
  <2> DEFINE e == <<"eqpaper", 1>>
             p == <<"paper", paperAnts>>
  <2>1. /\ shown \in Lists(paperAnts) /\ shown' = Append(shown, e) /\ failed' = failed
    BY <1>1, <1>2, <1>9 DEF ListInv
  <2>2. shown \in {<<>>, <<p>>} /\ (shown = <<p>> => paperAnts # 0)
        /\ (paperRuns => shown = <<p>> /\ paperAnts > 0)
    <3>1. <<e>>[1] = e /\ <<p, e>>[2] = e /\ <<e, p>>[1] = e /\ DOMAIN <<e>> = {1}
          /\ DOMAIN <<p, e>> = {1, 2} /\ DOMAIN <<e, p>> = {1, 2}
      OBVIOUS
    <3>2. shown \notin {<<e>>, <<p, e>>, <<e, p>>}
      BY <1>8, <1>9, <3>1 DEF Listed, ShowsEquities
    <3>3. <<p>> # <<>>
      OBVIOUS
    <3>4. QED
      BY <1>1, <2>1, <3>2, <3>3 DEF Lists, Showing, ListInv
  <2>3. Append(<<>>, e) = <<e>> /\ Append(<<p>>, e) = <<p, e>>
    <3>1. p \in Ledgers /\ e \in Ledgers
      BY <1>1 DEF Ledgers, BootTypeOK
    <3> HIDE DEF p, e
    <3>2. QED
      BY <3>1, OneAfter
  <2>4. /\ shown' = <<e>> \/ (shown' = <<p, e>> /\ paperAnts # 0)
        /\ paperRuns => shown' = <<p, e>> /\ paperAnts > 0
    BY <2>1, <2>2, <2>3
  <2>5. shown' \in Lists(paperAnts) /\ (paperRuns => shown' \in Showing(paperAnts) /\ paperAnts > 0)
    BY <2>4 DEF Lists, Showing
  <2>6. shown' # Unbound
    BY <1>1, <2>5, InLists DEF BootTypeOK
  <2>7. Listed'
    <3>1. <<e>>[1] = e /\ <<p, e>>[2] = e /\ DOMAIN <<e>> = {1} /\ DOMAIN <<p, e>> = {1, 2}
      OBVIOUS
    <3>2. \E n \in DOMAIN shown' : shown'[n] = e
      BY <2>4, <3>1
    <3>3. QED
      BY <2>6, <3>2 DEF Listed, ShowsEquities
  <2>8. ListInv'
    BY <1>1, <1>2, <1>3, <1>5, <1>6, <1>9, <2>1, <2>5, <2>6 DEF ListInv, Binding
  <2>9. EqPaperInv'
    <3>1. \A i \in 1 .. Len(work') : FALSE
      BY <1>6
    <3>2. QED
      BY <1>2, <1>6, <2>7, <3>1 DEF EqPaperInv, AllAsked
  <2>10. KnownInv'
    BY <1>1, <1>2, <1>4, <1>6 DEF KnownInv
  <2>11. CapitalInv'
    BY <1>1, <1>2, <1>5, <2>1 DEF CapitalInv
  <2>12. QED
    BY <1>7, <2>8, <2>9, <2>10, <2>11 DEF BootInv
<1>10. CASE ~("eqpaper" \in answered /\ shown # Unbound)
  <2>1. shown' = shown /\ failed \subseteq failed'
    BY <1>2, <1>10
  <2>2. ListInv'
    BY <1>1, <1>2, <1>3, <1>5, <1>6, <2>1 DEF ListInv
  <2>3. EqPaperInv'
    <3>1. Listed' <=> Listed
      BY <2>1 DEF Listed
    <3>2. "eqpaper" \in running => shown = Unbound
      BY <1>1, <1>10 DEF BootTypeOK
    <3>3. \A i \in 1 .. Len(work') : FALSE
      BY <1>6
    <3>4. QED
      BY <1>2, <1>6, <1>8, <2>1, <3>1, <3>2, <3>3 DEF EqPaperInv, AllAsked
  <2>4. KnownInv'
    BY <1>1, <1>2, <1>4, <1>6 DEF KnownInv
  <2>5. CapitalInv'
    BY <1>1, <1>2, <1>5, <2>1 DEF CapitalInv
  <2>6. QED
    BY <1>7, <2>2, <2>3, <2>4, <2>5 DEF BootInv
<1>11. QED
  BY <1>9, <1>10

LEMMA NoWorkLeft ==
  work = <<>> => ~Binding /\ ~Listing /\ \A a : ~ToCome(a)
BY DEF Binding, Listing, ToCome

LEMMA NextKeeps ==
  ASSUME BootInv, NextBlock
  PROVE  BootInv'
<1>1. BootTypeOK /\ ListInv /\ EqPaperInv /\ KnownInv /\ CapitalInv
  BY DEF BootInv
<1>2. /\ block \notin {"context", "up", "exit"} /\ work = <<>>
      /\ block' = After(block) /\ work' = WorkOf(After(block))
      /\ UNCHANGED <<options, granted, answered, promoted, running, known, shown, paperAnts, paperRuns, failed>>
  BY DEF NextBlock, Booting, Enter, askVars, paperVars
<1>3. /\ ~Binding /\ ~Listing /\ \A a : ~ToCome(a)
  BY <1>2, NoWorkLeft
<1>4. block \in ToSet(Blocks) \ {"context"}
  BY <1>1, <1>2 DEF BootTypeOK
<1>5. /\ block' \in ToSet(Blocks) \ {"node"}
      /\ block' = "crypto" <=> block = "node"
      /\ block \in LaterThanEquities \cup {"equities"} => block' \in LaterThanEquities
      /\ block' \notin {"up", "exit"}
  BY <1>2, <1>4, BlockNames, BlockOrder DEF LaterThanEquities
<1>6. /\ WorkSound(block', work') /\ (block' \in {"node", "context"} => work' = <<>>)
      /\ block' = "watchtower" /\ work' # <<>> => work'[1][1] = "issue"
  <2>1. options \in OptIns /\ block' \in ToSet(Blocks) /\ work' = WorkOf(block')
    BY <1>1, <1>2, <1>5 DEF BootTypeOK
  <2>2. QED
    BY <2>1, BlocksSound
<1>7. BootTypeOK'
  BY <1>1, <1>2, <1>5, <1>6 DEF BootTypeOK
<1>8. Binding' <=> block = "node"
  <2>1. ASSUME Binding' PROVE block = "node"
    <3>1. PICK i \in 1 .. Len(work') : work'[i][1] = "bind"
      BY <2>1 DEF Binding
    <3>2. OfBlock(block', work', i)
      BY <1>6 DEF WorkSound
    <3>3. QED
      BY <1>5, <3>1, <3>2 DEF OfBlock
  <2>2. ASSUME block = "node" PROVE Binding'
    <3>1. work' = CryptoWork
      BY <1>2, <2>2, BlockOrder DEF WorkOf
    <3>2. \E i \in 1 .. Len(work') : work'[i][1] = "bind"
      BY <1>1, <3>1, CryptoSound DEF BootTypeOK
    <3>3. QED
      BY <3>2 DEF Binding
  <2>3. QED
    BY <2>1, <2>2
<1>9. ListInv'
  BY <1>1, <1>2, <1>3, <1>5, <1>8 DEF ListInv
<1>10. EqPaperInv'
  <2>1. Listed' <=> Listed
    BY <1>2 DEF Listed
  <2>2. block' \in LaterThanEquities => block' # "equities"
    BY DEF LaterThanEquities
  <2>3. QED
    BY <1>1, <1>2, <1>3, <1>5, <2>1, <2>2 DEF EqPaperInv
<1>11. KnownInv'
  BY <1>1, <1>2, <1>6 DEF KnownInv
<1>12. CapitalInv'
  BY <1>1, <1>2, <1>3 DEF CapitalInv
<1>13. QED
  BY <1>7, <1>9, <1>10, <1>11, <1>12 DEF BootInv

LEMMA ContextKeeps ==
  ASSUME BootInv, BuildContext
  PROVE  BootInv'
<1>1. BootTypeOK /\ ListInv /\ EqPaperInv /\ KnownInv /\ CapitalInv
  BY DEF BootInv
<1>2. /\ block = "context" /\ block' = IF shown = Unbound THEN "exit" ELSE "up"
      /\ UNCHANGED <<options, granted, answered, promoted, work, running, known, shown, paperAnts, paperRuns, failed>>
  BY DEF BuildContext, askVars, paperVars
<1>3. work = <<>> /\ work' = <<>>
  BY <1>1, <1>2 DEF BootTypeOK
<1>4. /\ Binding' <=> Binding
      /\ Listing' <=> Listing
      /\ AllAsked' <=> AllAsked
      /\ Listed' <=> Listed
      /\ \A a : ToCome(a)' <=> ToCome(a)
  BY <1>2 DEF Binding, Listing, AllAsked, Listed, ToCome
<1>5. BootTypeOK'
  <2>1. WorkSound(block', work')
    BY <1>3, NoWorkSound
  <2>2. QED
    BY <1>1, <1>2, <1>3, <2>1 DEF BootTypeOK
<1>6. ListInv'
  <2>1. block' \notin {"node", "crypto"}
    BY <1>2
  <2>2. QED
    BY <1>1, <1>2, <1>4, <2>1 DEF ListInv
<1>7. EqPaperInv'
  <2>1. block' \in LaterThanEquities /\ block' # "equities"
    BY <1>2 DEF LaterThanEquities
  <2>2. QED
    BY <1>1, <1>2, <1>4, <2>1 DEF EqPaperInv
<1>8. KnownInv'
  BY <1>1, <1>2, <1>3 DEF KnownInv
<1>9. CapitalInv'
  BY <1>1, <1>2, <1>4 DEF CapitalInv
<1>10. QED
  BY <1>5, <1>6, <1>7, <1>8, <1>9 DEF BootInv

\* The capital of the promoter's missions and the PaperAnt's run are of no account here.
LEMMA OthersKeep ==
  ASSUME BootInv, paperRuns' => paperRuns,
         UNCHANGED <<options, granted, answered, block, work, running, known, shown, paperAnts, failed>>
  PROVE  BootInv'
BY DEF BootInv, BootTypeOK, ListInv, EqPaperInv, KnownInv, CapitalInv, Binding, Listing, AllAsked, Listed, ToCome

\* The ledger of the PaperAnt before is taken out of the list.
LEMMA DropKeeps ==
  ASSUME BootInv, DropLedger
  PROVE  BootInv'
<1>1. BootTypeOK /\ ListInv /\ EqPaperInv /\ KnownInv /\ CapitalInv
  BY DEF BootInv
<1>2. /\ "paper" \in running /\ ~paperRuns
      /\ shown' = RemoveFirst(shown, <<"paper", paperAnts>>)
      /\ UNCHANGED <<options, granted, answered, promoted, block, work, running, known, paperAnts, paperRuns, failed>>
  BY DEF DropLedger, PaperAntIsMade, OldLedger, askVars, paperVars
<1>3. shown # Unbound /\ shown \in Lists(paperAnts) /\ paperAnts \in Nat
  BY <1>1, <1>2 DEF ListInv, BootTypeOK
<1>4. shown' \in Lists(paperAnts) /\ shown' # Unbound /\ (Listed' <=> Listed)
  <2>1. ASSUME NEW m, m = RemoveFirst(shown, <<"paper", paperAnts>>)
        PROVE  m \in Lists(paperAnts) /\ (ShowsEquities(shown) <=> ShowsEquities(m))
    <3>1. paperAnts \in Nat /\ shown \in Lists(paperAnts)
      BY <1>3
    <3>2. QED
      BY <2>1, <3>1, LedgerDropped, Zenon
  <2>2. shown' \in Lists(paperAnts) /\ (ShowsEquities(shown) <=> ShowsEquities(shown'))
    BY <1>2, <2>1
  <2>3. shown' # Unbound
    BY <1>3, <2>2, InLists
  <2>4. QED
    BY <1>3, <2>2, <2>3 DEF Listed
<1>5. /\ Binding' <=> Binding
      /\ Listing' <=> Listing
      /\ AllAsked' <=> AllAsked
      /\ \A a : ToCome(a)' <=> ToCome(a)
  BY <1>2 DEF Binding, Listing, AllAsked, ToCome
<1>6. BootTypeOK'
  BY <1>1, <1>2, <1>3 DEF BootTypeOK
<1>7. ListInv'
  BY <1>1, <1>2, <1>3, <1>4, <1>5 DEF ListInv
<1>8. EqPaperInv'
  BY <1>1, <1>2, <1>3, <1>4, <1>5 DEF EqPaperInv
<1>9. KnownInv'
  BY <1>1, <1>2, <1>3 DEF KnownInv
<1>10. CapitalInv'
  BY <1>1, <1>2, <1>5 DEF CapitalInv
<1>11. QED
  BY <1>6, <1>7, <1>8, <1>9, <1>10 DEF BootInv

LEMMA PaperKeeps ==
  ASSUME BootInv, PaperAntStarts
  PROVE  BootInv'
<1>1. BootTypeOK /\ ListInv /\ EqPaperInv /\ KnownInv /\ CapitalInv
  BY DEF BootInv
<1>2. /\ "paper" \in running /\ block # "exit" /\ paperAnts' = paperAnts + 1
      /\ <<"paper", paperAnts>> \notin ToSet(shown)
      /\ shown' = Append(shown, <<"paper", paperAnts + 1>>)
      /\ known' = known \cup {"paper"}
      /\ UNCHANGED <<options, granted, answered, promoted, block, work, running, failed>>
  BY DEF PaperAntStarts, PaperAntIsMade, OldLedgerIsGone, OldLedger, askVars
<1>3. shown # Unbound /\ shown \in Lists(paperAnts) /\ paperAnts \in Nat /\ paperAnts' \in Nat \ {0}
  BY <1>1, <1>2 DEF ListInv, BootTypeOK
<1>4. /\ shown' \in Lists(paperAnts') /\ shown' \in Showing(paperAnts') /\ shown' # Unbound
      /\ Listed' <=> Listed
  <2>0. ASSUME NEW m, m = Append(shown, <<"paper", paperAnts + 1>>)
        PROVE  m \in Showing(paperAnts + 1) /\ (ShowsEquities(shown) <=> ShowsEquities(m))
    <3>1. paperAnts \in Nat /\ shown \in Lists(paperAnts) /\ <<"paper", paperAnts>> \notin ToSet(shown)
      BY <1>2, <1>3
    <3>2. QED
      BY <2>0, <3>1, LedgerAdded, Zenon
  <2>1. shown' \in Showing(paperAnts') /\ (ShowsEquities(shown) <=> ShowsEquities(shown'))
    BY <1>2, <2>0
  <2>2. shown' \in Lists(paperAnts')
    BY <1>3, <2>1 DEF Lists
  <2>3. shown' # Unbound
    BY <1>3, <2>2, InLists
  <2>4. QED
    BY <1>3, <2>1, <2>2, <2>3 DEF Listed
<1>5. /\ Binding' <=> Binding
      /\ Listing' <=> Listing
      /\ AllAsked' <=> AllAsked
      /\ \A a : ToCome(a)' <=> ToCome(a)
  BY <1>2 DEF Binding, Listing, AllAsked, ToCome
<1>6. BootTypeOK'
  BY <1>1, <1>2, <1>3 DEF BootTypeOK
<1>7. ListInv'
  BY <1>1, <1>2, <1>3, <1>4, <1>5 DEF ListInv
<1>8. EqPaperInv'
  BY <1>1, <1>2, <1>3, <1>4, <1>5 DEF EqPaperInv
<1>9. KnownInv'
  BY <1>1, <1>2, <1>3 DEF KnownInv
<1>10. CapitalInv'
  BY <1>1, <1>2, <1>5 DEF CapitalInv
<1>11. QED
  BY <1>6, <1>7, <1>8, <1>9, <1>10 DEF BootInv

\* After an exception of an ant of the equities, main goes on with the next.
LEMMA NextAntIs ==
  ASSUME WorkSound("equities", work), work # <<>>, Head(work)[2] # "eqpaper"
  PROVE  /\ NextAnt \in 2 .. Len(work)
         /\ \A k \in 1 .. NextAnt - 1 : work[k][2] = Head(work)[2]
<1>1. work \in Works /\ work[Len(work)][2] = "eqpaper"
  BY DEF WorkSound
<1>2. Head(work) = work[1] /\ Len(work) \in Nat \ {0} /\ DOMAIN work = 1 .. Len(work)
  BY <1>1, TailFacts DEF Works
<1> DEFINE S == {k \in 1 .. Len(work) : work[k][2] # Head(work)[2]}
           Fits(n) == work[n][2] # Head(work)[2] /\ \A k \in 1 .. n - 1 : work[k][2] = Head(work)[2]
<1>3. Len(work) \in S /\ S \subseteq Nat
  BY <1>1, <1>2
<1>4. PICK x \in S : \A y \in S : x <= y
  <2> HIDE DEF S
  <2>1. S # {}
    BY <1>3
  <2>2. QED
    BY <1>3, <2>1, LeastNat
<1>5. x \in DOMAIN work /\ Fits(x)
  <2>1. \A k \in 1 .. x - 1 : k \in 1 .. Len(work) /\ ~ x <= k
    BY <1>2, <1>4
  <2>2. QED
    BY <1>2, <1>4, <2>1
<1>6. NextAnt = CHOOSE n \in DOMAIN work : Fits(n)
  BY DEF NextAnt
<1>7. NextAnt \in DOMAIN work /\ Fits(NextAnt)
  <2> HIDE DEF Fits
  <2>1. QED
    BY <1>5, <1>6
<1>8. NextAnt # 1
  BY <1>2, <1>7
<1>9. NextAnt \in 2 .. Len(work)
  BY <1>2, <1>7, <1>8
<1>10. QED
  BY <1>7, <1>9

LEMMA RestSound ==
  ASSUME WorkSound("equities", work), work # <<>>, Head(work)[2] # "eqpaper",
         NEW u, u = SubSeq(work, NextAnt, Len(work))
  PROVE  /\ WorkSound("equities", u)
         /\ \A k \in 1 .. Len(work) : work[k][2] # Head(work)[2] => \E i \in 1 .. Len(u) : u[i] = work[k]
<1> DEFINE n == NextAnt
<1>1. work \in Works /\ Len(work) \in Nat
  BY DEF WorkSound, Works
<1>2. n \in 2 .. Len(work) /\ \A k \in 1 .. n - 1 : work[k][2] = Head(work)[2]
  BY NextAntIs
<1>3. u = SubSeq(work, n, Len(work))
  OBVIOUS
<1> HIDE DEF n
<1>4. n \in Nat \ {0} /\ n <= Len(work) + 1 /\ n <= Len(work)
  BY <1>1, <1>2
<1>5. u \in Works /\ Len(u) = Len(work) - n + 1 /\ \A i \in 1 .. Len(u) : u[i] = work[i + n - 1]
  <2>1. \A i \in n .. Len(work) : work[i] \in Tasks
    BY <1>1, <1>4 DEF Works
  <2>2. QED
    BY <1>1, <1>3, <1>4, <2>1 DEF Works
<1>6. WorkSound("equities", u)
  BY <1>4, <1>5, SuffixSound
<1>7. ASSUME NEW k \in 1 .. Len(work), work[k][2] # Head(work)[2]
      PROVE  \E i \in 1 .. Len(u) : u[i] = work[k]
  <2>1. k \notin 1 .. n - 1
    BY <1>2, <1>7
  <2>2. k - n + 1 \in 1 .. Len(u) /\ (k - n + 1) + n - 1 = k
    BY <1>1, <1>4, <1>5, <2>1
  <2>3. u[k - n + 1] = work[k]
    BY <1>5, <2>2
  <2>4. QED
    BY <2>2, <2>3
<1>8. QED
  BY <1>6, <1>7

LEMMA RaiseKeeps ==
  ASSUME BootInv, BlockRaises
  PROVE  BootInv'
<1>1. BootTypeOK /\ ListInv /\ EqPaperInv /\ KnownInv /\ CapitalInv
  BY DEF BootInv
<1> DEFINE a == work[1][2]
<1>2. work # <<>>
  BY DEF BlockRaises
<1>3. /\ Head(work) = work[1] /\ 1 \in 1 .. Len(work) /\ Len(work) \in Nat
      /\ Follows(block, work, 1) /\ OfBlock(block, work, 1) /\ WorkSound(block, work)
      /\ block \notin {"node", "context", "up", "exit"}
  BY <1>1, <1>2, HeadFacts
<1>4. /\ work[1][1] \in {"issue", "begin"}
      /\ UNCHANGED <<options, answered, promoted, block, running, known, shown, paperAnts, paperRuns>>
      /\ granted \subseteq granted' /\ granted' \subseteq granted \cup {a}
      /\ failed' = failed \cup {IF work' = <<>> THEN block ELSE a}
      /\ \/ work' = <<>>
         \/ /\ block = "equities" /\ a # "eqpaper" /\ work' # <<>>
            /\ work' = SubSeq(work, NextAnt, Len(work))
  BY <1>3 DEF BlockRaises, LeftOfBlock, paperVars
<1>5. ~AllAsked
  BY <1>3, <1>4 DEF AllAsked
<1>6. /\ "eqpaper" \in running => block \in LaterThanEquities
      /\ Listed => block \in LaterThanEquities
      /\ Listed' <=> Listed
      /\ block \in LaterThanEquities => block # "equities"
  BY <1>1, <1>2, <1>4, <1>5 DEF EqPaperInv, Listed, LaterThanEquities
<1>7. \A i \in 1 .. Len(work) : OfBlock(block, work, i)
  BY <1>3 DEF WorkSound
<1>8. Listing => block = "equities"
  <2>1. ASSUME NEW i \in 1 .. Len(work), work[i] = ToList("eqpaper") PROVE block = "equities"
    BY <1>7, <2>1, OpsDiffer DEF OfBlock
  <2>2. QED
    BY <2>1 DEF Listing
<1>9. \A b \in Trading : ToCome(b) => HomeBlock(b) = block
  <2>1. ASSUME NEW b \in Trading, NEW i \in 1 .. Len(work), work[i] = ToBegin(b) PROVE HomeBlock(b) = block
    <3>1. work[i][2] = b /\ b \in {"paper", "execution", "eqpaper"}
      BY <2>1, OpsDiffer DEF Trading
    <3>2. QED
      BY <1>7, <3>1 DEF OfBlock, HomeBlock
  <2>2. QED
    BY <2>1 DEF ToCome
<1>10. a \in Trading => HomeBlock(a) = block
  BY <1>3 DEF OfBlock, HomeBlock, Trading
<1>11. running' \ known' \subseteq {"news"} \cup (IF paperAnts' = 0 THEN {"paper"} ELSE {})
  BY <1>1, <1>4 DEF KnownInv
<1>12. block = "crypto" /\ shown = Unbound => Binding
  BY <1>1, <1>2 DEF ListInv
<1>13. CASE work' = <<>>
  <2>1. ~Binding' /\ ~Listing' /\ \A b : ~ToCome(b)'
    BY <1>13 DEF Binding, Listing, ToCome
  <2>2. block \in failed' /\ failed \subseteq failed'
    BY <1>4, <1>13
  <2>3. BootTypeOK'
    BY <1>1, <1>4, <1>13, NoWorkSound DEF BootTypeOK
  <2>4. ListInv'
    BY <1>1, <1>2, <1>3, <1>4, <1>13, <2>1, <2>2 DEF ListInv
  <2>5. EqPaperInv'
    BY <1>1, <1>4, <1>6, <1>8 DEF EqPaperInv
  <2>6. KnownInv'
    BY <1>11, <1>13 DEF KnownInv
  <2>7. CapitalInv'
    <3>1. ASSUME NEW b \in granted' \cap Trading
          PROVE  b \in running' \/ HomeBlock(b) \in failed' \/ (b \in answered' /\ ToCome(b)')
      BY <1>1, <1>4, <1>9, <1>10, <2>2 DEF CapitalInv
    <3>2. QED
      BY <3>1 DEF CapitalInv
  <2>8. QED
    BY <2>3, <2>4, <2>5, <2>6, <2>7 DEF BootInv
<1>14. CASE /\ block = "equities" /\ a # "eqpaper" /\ work' # <<>>
            /\ work' = SubSeq(work, NextAnt, Len(work))
  <2>1. /\ WorkSound("equities", work')
        /\ \A k \in 1 .. Len(work) : work[k][2] # a => \E i \in 1 .. Len(work') : work'[i] = work[k]
    BY <1>2, <1>3, <1>14, RestSound
  <2>2. failed \subseteq failed'
    BY <1>4
  <2>3. BootTypeOK'
    BY <1>1, <1>3, <1>4, <1>14, <2>1 DEF BootTypeOK
  <2>4. ~Binding'
    <3>1. \A i \in 1 .. Len(work') : OfBlock("equities", work', i)
      BY <2>1 DEF WorkSound
    <3>2. \A i \in 1 .. Len(work') : work'[i][1] # "bind"
      BY <3>1 DEF OfBlock
    <3>3. QED
      BY <3>2 DEF Binding
  <2>5. ListInv'
    BY <1>1, <1>4, <1>14, <2>2, <2>4 DEF ListInv
  <2>6. EqPaperInv'
    BY <1>4, <1>6, <1>14 DEF EqPaperInv
  <2>7. KnownInv'
    BY <1>4, <1>11, <1>14 DEF KnownInv
  <2>8. CapitalInv'
    <3>1. ToCome("eqpaper") => ToCome("eqpaper")'
      <4>1. ASSUME NEW k \in 1 .. Len(work), work[k] = ToBegin("eqpaper")
            PROVE  ToCome("eqpaper")'
        <5>1. work[k][2] # a
          BY <1>14, <4>1, OpsDiffer
        <5>2. \E i \in 1 .. Len(work') : work'[i] = ToBegin("eqpaper")
          BY <2>1, <4>1, <5>1
        <5>3. QED
          BY <5>2 DEF ToCome
      <4>2. QED
        BY <4>1 DEF ToCome
    <3>2. \A b \in Trading : HomeBlock(b) = block => b = "eqpaper"
      BY <1>14 DEF HomeBlock
    <3>3. ASSUME NEW b \in granted' \cap Trading
          PROVE  b \in running' \/ HomeBlock(b) \in failed' \/ (b \in answered' /\ ToCome(b)')
      <4>1. b # a
        BY <1>10, <1>14, <3>2
      <4>2. b \in granted \cap Trading
        BY <1>4, <4>1
      <4>3. QED
        BY <1>1, <1>4, <1>9, <2>2, <3>1, <3>2, <4>2 DEF CapitalInv
    <3>4. QED
      BY <3>3 DEF CapitalInv
  <2>9. QED
    BY <2>3, <2>5, <2>6, <2>7, <2>8 DEF BootInv
<1>15. QED
  BY <1>4, <1>13, <1>14

LEMMA BootInvKept == BootInv /\ [BootStep]_bootVars => BootInv'
<1> SUFFICES ASSUME BootInv, [BootStep]_bootVars PROVE BootInv'
  OBVIOUS
<1>1. CASE NextBlock
  BY <1>1, NextKeeps
<1>2. CASE BindLedgers
  BY <1>2, BindKeeps
<1>3. CASE ListLedger
  BY <1>3, ListKeeps
<1>4. CASE BlockRaises
  BY <1>4, RaiseKeeps
<1>5. CASE BuildContext
  BY <1>5, ContextKeeps
<1>6. ASSUME NEW a \in Ants, AskMission(a) \/ StartAnt(a) \/ RegisterAnt(a)
      PROVE  BootInv'
  BY <1>6, AskKeeps, StartKeeps, RegisterKeeps
<1>7. CASE PromoterAsks \/ PaperAntEnds \/ UNCHANGED bootVars
  <2>1. /\ UNCHANGED <<options, granted, answered, block, work, running, known, shown, paperAnts, failed>>
        /\ paperRuns' => paperRuns
    BY <1>7 DEF PromoterAsks, PaperAntEnds, bootVars, askVars, paperVars
  <2>2. QED
    BY <2>1, OthersKeep
<1>8. CASE PaperAntStarts
  BY <1>8, PaperKeeps
<1>9. CASE DropLedger
  BY <1>9, DropKeeps
<1>10. QED
  BY <1>1, <1>2, <1>3, <1>4, <1>5, <1>6, <1>7, <1>8, <1>9 DEF BootStep

LEMMA BootInvSuffices == BootInv => BootIsSound
<1> SUFFICES ASSUME BootInv PROVE BootIsSound
  OBVIOUS
<1>1. BootTypeOK /\ ListInv /\ EqPaperInv /\ KnownInv /\ CapitalInv
  BY DEF BootInv
<1>2. block \in {"up", "exit"} => work = <<>> /\ ~Binding /\ ~Listing /\ \A a : ~ToCome(a)
  BY <1>1, NoWorkLeft DEF BootTypeOK
<1>3. LedgersAreCurrent
  <2> SUFFICES ASSUME shown # Unbound
               PROVE  /\ \A m, n \in DOMAIN shown : shown[m][1] = shown[n][1] => m = n
                      /\ paperRuns => \E n \in DOMAIN shown : shown[n] = <<"paper", paperAnts>>
                      /\ block = "up" /\ "eqpaper" \in running => \E n \in DOMAIN shown : shown[n][1] = "eqpaper"
    BY DEF LedgersAreCurrent
  <2> DEFINE e == <<"eqpaper", 1>>
             p == <<"paper", paperAnts>>
  <2>1. shown \in Lists(paperAnts) /\ (paperRuns => shown \in Showing(paperAnts))
    BY <1>1 DEF BootTypeOK, ListInv
  <2>2. /\ shown \in {<<>>, <<e>>, <<p>>, <<p, e>>, <<e, p>>}
        /\ paperRuns => shown \in {<<p>>, <<p, e>>, <<e, p>>}
    BY <2>1 DEF Lists, Showing
  <2>3. p[1] = "paper" /\ e[1] = "eqpaper"
    OBVIOUS
  <2> HIDE DEF p, e
  <2>4. /\ DOMAIN <<>> = {} /\ DOMAIN <<p>> = {1} /\ DOMAIN <<e>> = {1}
        /\ DOMAIN <<p, e>> = {1, 2} /\ DOMAIN <<e, p>> = {1, 2}
        /\ <<p>>[1] = p /\ <<e>>[1] = e /\ <<p, e>>[1] = p /\ <<p, e>>[2] = e /\ <<e, p>>[1] = e /\ <<e, p>>[2] = p
    OBVIOUS
  <2>5. \A m, n \in DOMAIN shown : shown[m][1] = shown[n][1] => m = n
    BY <2>2, <2>3, <2>4
  <2>6. paperRuns => \E n \in DOMAIN shown : shown[n] = p
    BY <2>2, <2>4
  <2>7. block = "up" /\ "eqpaper" \in running => \E n \in DOMAIN shown : shown[n][1] = "eqpaper"
    <3>1. block = "up" /\ "eqpaper" \in running => Listed
      BY <1>1, <1>2 DEF EqPaperInv
    <3>2. Listed => \E n \in DOMAIN shown : shown[n] = e
      BY DEF Listed, ShowsEquities, e
    <3>3. QED
      BY <2>3, <3>1, <3>2
  <2>8. QED
    BY <2>5, <2>6, <2>7 DEF p
<1>4. OnlyNewsIsUnknown
  <2>1. work # <<>> => Booting /\ Head(work) = work[1]
    BY <1>1, HeadFacts DEF Booting
  <2>2. QED
    BY <1>1, <2>1 DEF KnownInv, OnlyNewsIsUnknown
<1>5. CapitalHasAnAnt
  BY <1>1, <1>2 DEF CapitalInv, CapitalHasAnAnt, HomeBlock
<1>6. StartsUnlessUnbound
  BY <1>1 DEF ListInv, StartsUnlessUnbound
<1>7. QED
  BY <1>3, <1>4, <1>5, <1>6 DEF BootIsSound

\* However a start goes, the dashboard shows the ledger of the PaperAnt that runs, no ant
\* but the NewsAnt runs unregistered for longer than main takes to register it, each
\* mission with capital has an ant or an exception that explains it, and a start ends only
\* if an exception came before the list of ledgers was made (scripts/start_colony.py): for
\* any capital, any ants asked for and any number of exceptions.
THEOREM BootStaysSound == DaySpec => []BootIsSound
<1>1. DayInit => BootInv
  BY BootStarts DEF DayInit
<1>2. BootInv /\ [DayNext]_dayVars => BootInv'
  <2>1. [DayNext]_dayVars => [BootStep]_bootVars
    BY DEF DayNext, QueenDay, BootDay, ServiceDay, LoopDay, LabDay, ScoutDay, ResetDay, dayVars
  <2>2. QED
    BY <2>1, BootInvKept
<1>3. BootInv => BootIsSound
  BY BootInvSuffices
<1>4. QED
  BY <1>1, <1>2, <1>3, PTL DEF DaySpec
================================================================================
