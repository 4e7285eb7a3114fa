--------------------------- MODULE PaperTrading_proofs ---------------------------
(***************************************************************************)
(* Proofs about PaperTrading: trades are booked once, restarts forget      *)
(* nothing, and serial ticks keep the caps, for any number of positions,   *)
(* workers, symbols and restarts.                                          *)
(***************************************************************************)
EXTENDS PaperTrading, FiniteSetTheorems, TLAPS

\* What has been a position: ids that may not be given out again.
Known == {p \in Positions : p \in opened \/ (\E r \in Runs : p \in ledger[r]) \/ trades[p] > 0}

\* The ant waits for a tick of its own, or is not waiting.
Waiting ==
  /\ ticking # None => alive /\ home[ticking] = run
  /\ \A w \in Workers : home[w] <= run
  /\ \A r \in Runs : r > run => ledger[r] = {}

\* Where a worker is says what it has in hand.
Hands ==
  \A w \in Workers :
    /\ pc[w] \in {"idle", "exits", "entries"} <=> item[w] = None
    /\ pc[w] \notin {"exits", "closing", "closed"} => todo[w] = {}
    /\ pc[w] = "closing" => item[w] \notin todo[w]
    /\ w # ticking => InHand(w) \subseteq torn
    /\ todo[w] \subseteq Known
    /\ pc[w] \in {"closing", "closed", "booked"} => item[w] \in Known
    /\ pc[w] \in {"screened", "admitted"} =>
         item[w] \notin Known /\ \A v \in Workers \ {w} : item[v] # item[w]

\* A position that was closed, and never fell between two hands, is closed for good.
Settled(p) ==
  /\ trades[p] <= 1
  /\ trades[p] = 1 =>
       /\ p \notin ledger[run]
       /\ p \in closed \cup BeingClosed
       /\ \A w \in Workers : p \notin todo[w] /\ ~(pc[w] = "closing" /\ item[w] = p)

Settling == \A p \in Positions \ torn : Settled(p)

\* What an ant has booked and not yet logged it watches over.
Booked ==
  \A w \in Workers :
    pc[w] = "booked" /\ home[w] = run =>
      item[w] \in ledger[run] \cup closed \cup BeingClosed \cup torn

PaperInv == PaperTypeOK /\ Waiting /\ Hands /\ Settling /\ Booked /\ NothingForgotten

--------------------------------------------------------------------------------
(* Steps of a tick that touch neither books nor logs. *)

LEMMA StartTickKeeps ==
  ASSUME PaperInv, NEW w \in Workers, StartTick(w) PROVE PaperInv'
<1> USE PaperAssumption DEF PaperInv, StartTick, Goto, bookVars, logVars, PaperTypeOK
<1>1. PaperTypeOK'
  OBVIOUS
<1>2. Waiting'
  BY DEF Waiting, Runs
<1>3. Hands'
  BY DEF Hands, InHand, Known
<1>4. BeingClosed' = BeingClosed
  BY DEF BeingClosed
<1>5. Settling'
  BY <1>4 DEF Settling, Settled, Hands, InHand
<1>6. Booked' /\ NothingForgotten'
  BY <1>4 DEF Booked, NothingForgotten
<1>7. QED
  BY <1>1, <1>2, <1>3, <1>5, <1>6

LEMMA QuietKeeps ==
  ASSUME PaperInv, NEW w \in Workers,
         \/ KeepPosition(w) \/ TriggerExit(w) \/ ExitsDone(w) \/ Admit(w) \/ Decline(w)
         \/ TickDone(w) \/ TickRaises(w)
  PROVE  PaperInv'
<1> USE PaperAssumption DEF PaperInv, KeepPosition, TriggerExit, ExitsDone, Admit, Decline,
      TickDone, TickRaises, Goto, bookVars, logVars, antVars, PaperTypeOK
<1>1. PaperTypeOK'
  <2>1. CASE KeepPosition(w) \/ TriggerExit(w)
    BY <2>1
  <2>2. CASE ExitsDone(w) \/ Admit(w) \/ Decline(w)
    BY <2>2
  <2>3. CASE TickDone(w) \/ TickRaises(w)
    BY <2>3
  <2>4. QED
    BY <2>1, <2>2, <2>3
<1>2. Waiting'
  BY DEF Waiting, Runs
<1>3. Hands'
  BY DEF Hands, InHand, Known
<1>4. BeingClosed' = BeingClosed
  BY DEF BeingClosed
<1>5. Settling'
  BY <1>4 DEF Settling, Settled, Hands, InHand
<1>6. Booked' /\ NothingForgotten'
  BY <1>4 DEF Booked, NothingForgotten
<1>7. QED
  BY <1>1, <1>2, <1>3, <1>5, <1>6

LEMMA ScreenKeeps ==
  ASSUME PaperInv, NEW w \in Workers, Screen(w) PROVE PaperInv'
<1> USE PaperAssumption DEF PaperInv, Goto, bookVars, logVars, antVars, PaperTypeOK
<1>1. PICK p \in Unused : Goto(w, "screened", p)
  BY DEF Screen
<1>2. UNCHANGED <<bookVars, logVars, antVars, home, todo, torn, overlapped>> /\ pc[w] = "entries"
  BY DEF Screen
<1>3. p \in Positions /\ p \notin Known /\ \A v \in Workers : item[v] # p
  <2>1. p \in Positions /\ p \notin opened /\ trades[p] = 0
    BY DEF Unused, InUse
  <2>2. \A r \in Runs : p \notin ledger[r]
    BY DEF Unused, InUse
  <2>3. \A v \in Workers : item[v] # p
    BY DEF Unused, InUse
  <2>4. QED
    BY <2>1, <2>2, <2>3 DEF Known
<1>4. PaperTypeOK'
  BY <1>1, <1>2, <1>3
<1>5. Waiting'
  BY <1>2 DEF Waiting, Runs
<1>6. Known' = Known
  BY <1>2 DEF Known
<1>7. Hands'
  BY <1>1, <1>2, <1>3, <1>6 DEF Hands, InHand
<1>8. BeingClosed' = BeingClosed
  BY <1>1, <1>2 DEF BeingClosed
<1>9. Settling'
  BY <1>1, <1>2, <1>8 DEF Settling, Settled, Hands, InHand
<1>10. Booked' /\ NothingForgotten'
  BY <1>1, <1>2, <1>8 DEF Booked, NothingForgotten
<1>11. QED
  BY <1>4, <1>5, <1>7, <1>9, <1>10

--------------------------------------------------------------------------------
(* Steps that change the books. *)

LEMMA CloseBooksKeeps ==
  ASSUME PaperInv, NEW w \in Workers, CloseBooks(w) PROVE PaperInv'
<1> USE PaperAssumption DEF PaperInv, CloseBooks, Goto, antVars
<1> DEFINE p == item[w]
<1>1. p \in Positions /\ p \in Known /\ p \notin todo[w]
  BY DEF Hands, PaperTypeOK
<1>2. PaperTypeOK'
  <2>1. /\ symbols' \in [Runs -> SUBSET Symbols]
        /\ keyed' \in [Runs -> SUBSET (Positions \X Strategies)]
        /\ keys' \in [Runs -> SUBSET (Symbols \X Strategies)]
    <3> DEFINE its == {s \in Strategies : <<p, s>> \in keyed[home[w]]}
    <3>1. CASE its # {}
      <4>1. /\ keyed' = [keyed EXCEPT ![home[w]] = @ \ ({p} \X its)]
            /\ keys' = [keys EXCEPT ![home[w]] = @ \ {Key(p, s) : s \in its}]
            /\ symbols' = symbols
        BY <3>1 DEF FreeSlot
      <4> HIDE DEF its
      <4>2. QED
        BY <4>1 DEF PaperTypeOK
    <3>2. CASE its = {}
      <4>1. /\ symbols' = [symbols EXCEPT ![home[w]] = @ \ {SymbolOf[p]}]
            /\ keys' = keys /\ keyed' = keyed
        BY <3>2 DEF FreeSlot
      <4> HIDE DEF its
      <4>2. QED
        BY <4>1 DEF PaperTypeOK
    <3>3. QED
      BY <3>1, <3>2
  <2>2. ledger' \in [Runs -> SUBSET Positions] /\ trades' \in [Positions -> Nat]
    BY <1>1 DEF PaperTypeOK
  <2>3. QED
    BY <1>1, <2>1, <2>2 DEF PaperTypeOK
<1>3. Waiting'
  BY DEF Waiting, Runs, PaperTypeOK
<1>4. Known \subseteq Known' /\ Known' \subseteq Known
  BY <1>1 DEF Known, PaperTypeOK
<1>5. Hands'
  BY <1>1, <1>4 DEF Hands, InHand, PaperTypeOK
<1>6. BeingClosed' = BeingClosed \cup {p}
  BY DEF BeingClosed, PaperTypeOK
<1>7. ASSUME p \notin torn
      PROVE  /\ w = ticking /\ home[w] = run /\ trades[p] = 0
             /\ \A v \in Workers : p \notin todo[v]
             /\ \A v \in Workers \ {w} : ~(pc[v] = "closing" /\ item[v] = p)
  <2>1. p \in InHand(w) /\ pc[w] = "closing" /\ home[w] \in Runs
    BY DEF InHand, PaperTypeOK
  <2>2. w = ticking /\ home[w] = run
    BY <1>7, <2>1 DEF Hands, Waiting
  <2>3. Settled(p) /\ trades[p] \in Nat
    BY <1>1, <1>7 DEF Settling, PaperTypeOK
  <2>4. trades[p] = 0
    BY <1>1, <2>1, <2>3 DEF Settled
  <2>5. \A v \in Workers \ {w} : p \notin InHand(v)
    BY <1>7, <2>2 DEF Hands
  <2>6. QED
    BY <1>1, <2>2, <2>4, <2>5 DEF InHand
<1>8. Settling'
  BY <1>1, <1>6, <1>7 DEF Settling, Settled, PaperTypeOK
<1>9. Booked' /\ NothingForgotten'
  BY <1>6, <1>7 DEF Booked, NothingForgotten, PaperTypeOK
<1>10. QED
  BY <1>2, <1>3, <1>5, <1>8, <1>9

LEMMA CloseLoggedKeeps ==
  ASSUME PaperInv, NEW w \in Workers, CloseLogged(w) PROVE PaperInv'
<1> USE PaperAssumption DEF PaperInv, CloseLogged, Goto, antVars, bookVars, PaperTypeOK
<1>1. item[w] \in Positions
  BY DEF Hands
<1>2. PaperTypeOK'
  BY <1>1
<1>3. Waiting'
  BY DEF Waiting, Runs
<1>4. Known' = Known
  BY DEF Known
<1>5. Hands'
  BY <1>4 DEF Hands, InHand
<1>6. BeingClosed \subseteq BeingClosed' \cup {item[w]}
  BY DEF BeingClosed
<1>7. Settling'
  BY <1>6 DEF Settling, Settled
<1>8. Booked' /\ NothingForgotten'
  BY <1>6 DEF Booked, NothingForgotten
<1>9. QED
  BY <1>2, <1>3, <1>5, <1>7, <1>8

LEMMA BookKeeps ==
  ASSUME PaperInv, NEW w \in Workers, Book(w) PROVE PaperInv'
<1> USE PaperAssumption DEF PaperInv, Book, Goto, antVars, logVars
<1> DEFINE p == item[w]
<1>1. p \in Positions /\ p \notin Known /\ trades[p] = 0
  BY DEF Hands, Known, PaperTypeOK
<1>2. PaperTypeOK'
  BY <1>1 DEF PaperTypeOK, Symbols, Strategies, Key
<1>3. Waiting'
  BY DEF Waiting, Runs, PaperTypeOK
<1>4. Known' = Known \cup {p}
  BY <1>1 DEF Known, PaperTypeOK
<1>5. Hands'
  BY <1>4 DEF Hands, InHand, PaperTypeOK
<1>6. BeingClosed' = BeingClosed
  BY DEF BeingClosed, PaperTypeOK
<1>7. Settling'
  BY <1>1, <1>6 DEF Settling, Settled, PaperTypeOK
<1>8. Booked' /\ NothingForgotten'
  BY <1>6 DEF Booked, NothingForgotten, PaperTypeOK
<1>9. QED
  BY <1>2, <1>3, <1>5, <1>7, <1>8

LEMMA OpenLoggedKeeps ==
  ASSUME PaperInv, NEW w \in Workers, OpenLogged(w) PROVE PaperInv'
<1> USE PaperAssumption DEF PaperInv, OpenLogged, Goto, antVars, bookVars
<1>1. item[w] \in Positions
  BY DEF Hands, PaperTypeOK
<1>2. PaperTypeOK'
  BY <1>1 DEF PaperTypeOK
<1>3. Waiting'
  BY DEF Waiting, Runs, PaperTypeOK
<1>4. Known' = Known
  BY <1>1 DEF Known, Hands, PaperTypeOK
<1>5. torn \subseteq torn'
  OBVIOUS
<1>6. Hands'
  BY <1>4, <1>5 DEF Hands, InHand, PaperTypeOK
<1>7. BeingClosed' = BeingClosed
  BY DEF BeingClosed, PaperTypeOK
<1>8. Settling'
  BY <1>5, <1>7 DEF Settling, Settled, PaperTypeOK
<1>9. Booked' /\ NothingForgotten'
  BY <1>5, <1>7 DEF Booked, NothingForgotten, PaperTypeOK
<1>10. QED
  BY <1>2, <1>3, <1>6, <1>8, <1>9

--------------------------------------------------------------------------------
(* The ends of ticks, ants and processes. *)

LEMMA EndKeeps ==
  ASSUME PaperInv, Timeout \/ AntEnds PROVE PaperInv'
<1> USE DEF PaperInv, Timeout, AntEnds, bookVars, logVars, workVars, PaperTypeOK
<1>1. PaperTypeOK'
  BY DEF InHand, Hands
<1>2. Waiting'
  BY DEF Waiting, Runs
<1>3. Known' = Known /\ BeingClosed' = BeingClosed /\ torn \subseteq torn'
  BY DEF Known, BeingClosed
<1>4. Hands'
  BY <1>3 DEF Hands, InHand
<1>5. Settling'
  BY <1>3 DEF Settling, Settled
<1>6. Booked' /\ NothingForgotten'
  BY <1>3 DEF Booked, NothingForgotten
<1>7. QED
  BY <1>1, <1>2, <1>4, <1>5, <1>6

LEMMA CrashKeeps ==
  ASSUME PaperInv, Crash PROVE PaperInv'
<1> USE PaperAssumption DEF PaperInv, Crash, bookVars, logVars
<1>1. PaperTypeOK'
  <2>1. BeingClosed \subseteq Positions
    BY DEF BeingClosed, Hands, PaperTypeOK
  <2>2. torn' \subseteq Positions
    BY <2>1 DEF BeingClosed, PaperTypeOK
  <2>3. pc' \in [Workers -> {"idle", "exits", "closing", "closed", "entries", "screened",
                             "admitted", "booked"}]
    OBVIOUS
  <2>4. /\ item' \in [Workers -> Positions \cup {None}]
        /\ todo' \in [Workers -> SUBSET Positions]
    OBVIOUS
  <2>5. alive' \in BOOLEAN /\ ticking' \in Workers \cup {None}
    OBVIOUS
  <2>6. QED
    BY <2>2, <2>3, <2>4, <2>5 DEF PaperTypeOK
<1>2. Waiting'
  BY DEF Waiting, Runs, PaperTypeOK
<1>3. Hands'
  BY DEF Hands, InHand
<1>4. torn' = torn \cup BeingClosed
  BY DEF BeingClosed
<1>5. Settling'
  BY <1>4 DEF Settling, Settled, PaperTypeOK
<1>6. Booked' /\ NothingForgotten'
  BY DEF Booked, NothingForgotten
<1>7. QED
  BY <1>1, <1>2, <1>3, <1>5, <1>6

LEMMA RestartKeeps ==
  ASSUME PaperInv, NEW old \in SUBSET Mortal, Restart(old) PROVE PaperInv'
<1> USE PaperAssumption DEF PaperInv, Restart, Ages, workVars
<1>1. run + 1 \in Runs /\ run \in Runs /\ ticking = None
  BY DEF Runs, PaperTypeOK, Waiting
<1>2. PaperTypeOK'
  <2>1. Found \subseteq Positions /\ zombies' \subseteq Mortal
    BY DEF Found, PaperTypeOK
  <2>2. \A p \in Found : SymbolOf[p] \in Symbols /\ LoggedOf[p] \in Strategies
    BY <2>1 DEF Symbols, Strategies
  <2>3. /\ {SymbolOf[p] : p \in Found} \subseteq Symbols
        /\ {Key(p, LoggedOf[p]) : p \in Found} \subseteq Symbols \X Strategies
        /\ {<<p, LoggedOf[p]>> : p \in Found} \subseteq Positions \X Strategies
    BY <2>1, <2>2 DEF Key
  <2>4. QED
    BY <1>1, <2>1, <2>3 DEF PaperTypeOK
<1>3. Waiting'
  BY <1>1 DEF Waiting, Runs, PaperTypeOK
<1>4. Known' = Known
  BY <1>1 DEF Found, Known, PaperTypeOK, Waiting, Runs
<1>5. Hands' /\ BeingClosed' = BeingClosed
  BY <1>4 DEF Hands, InHand, BeingClosed
<1>6. BeingClosed \subseteq torn
  BY <1>1 DEF BeingClosed, Hands, InHand
<1>7. ledger'[run'] = (opened \ closed) \ zombies'
  BY <1>1 DEF Found, PaperTypeOK
<1>8. Settling'
  BY <1>5, <1>6, <1>7 DEF Settling, Settled
<1>9. Booked'
  BY DEF Booked, Waiting, PaperTypeOK, Runs
<1>10. NothingForgotten'
  BY <1>7 DEF NothingForgotten
<1>11. QED
  BY <1>2, <1>3, <1>5, <1>8, <1>9, <1>10

--------------------------------------------------------------------------------
(* The theorems. *)

LEMMA PaperInvInductive == PaperSpec => []PaperInv
<1>1. PaperInit => PaperInv
  <2> SUFFICES ASSUME PaperInit PROVE PaperInv
    OBVIOUS
  <2> USE PaperAssumption DEF PaperInit
  <2>1. PaperTypeOK
    <3>1. 1 \in Runs
      BY DEF Runs
    <3>2. /\ ledger \in [Runs -> SUBSET Positions] /\ symbols \in [Runs -> SUBSET Symbols]
          /\ keyed \in [Runs -> SUBSET (Positions \X Strategies)]
          /\ keys \in [Runs -> SUBSET (Symbols \X Strategies)]
      OBVIOUS
    <3>3. /\ trades \in [Positions -> Nat]
          /\ home \in [Workers -> Runs]
          /\ todo \in [Workers -> SUBSET Positions]
          /\ item \in [Workers -> Positions \cup {None}]
      BY <3>1
    <3>4. pc \in [Workers -> {"idle", "exits", "closing", "closed", "entries", "screened",
                              "admitted", "booked"}]
      OBVIOUS
    <3>5. QED
      BY <3>1, <3>2, <3>3, <3>4 DEF PaperTypeOK
  <2>2. Waiting
    BY DEF Waiting, Runs
  <2>3. Hands
    BY DEF Hands, InHand
  <2>4. Settling
    BY DEF Settling, Settled
  <2>5. Booked /\ NothingForgotten
    BY DEF Booked, NothingForgotten
  <2>6. QED
    BY <2>1, <2>2, <2>3, <2>4, <2>5 DEF PaperInv
<1>2. PaperInv /\ [PaperNext]_vars => PaperInv'
  <2> SUFFICES ASSUME PaperInv, [PaperNext]_vars PROVE PaperInv'
    OBVIOUS
  <2>1. ASSUME NEW w \in Workers, TickStep(w) PROVE PaperInv'
    BY <2>1, StartTickKeeps, QuietKeeps, ScreenKeeps, CloseBooksKeeps, CloseLoggedKeeps,
       BookKeeps, OpenLoggedKeeps DEF TickStep
  <2>2. CASE Timeout \/ AntEnds
    BY <2>2, EndKeeps
  <2>3. CASE Crash \/ \E old \in SUBSET Mortal : Restart(old)
    BY <2>3, CrashKeeps, RestartKeeps
  <2>4. CASE UNCHANGED vars
    BY <2>4 DEF vars, bookVars, logVars, antVars, workVars, PaperInv, PaperTypeOK, Waiting, Hands,
       InHand, Known, Settling, Settled, BeingClosed, Booked, NothingForgotten
  <2>5. QED
    BY <2>1, <2>2, <2>3, <2>4 DEF PaperNext
<1>3. QED
  BY <1>1, <1>2, PTL DEF PaperSpec

\* No trade is booked twice but for an abandoned tick or a process that died
\* between its two records (record_closed, _process_exits).
THEOREM TradesAreBookedOnce == PaperSpec => []ClosedOnce
<1>1. PaperInv => ClosedOnce
  BY DEF PaperInv, PaperTypeOK, Settling, Settled, ClosedOnce
<1>2. QED
  BY <1>1, PaperInvInductive, PTL

\* Restarts and crashes lose no position the logs know
\* (_load_open_symbols_from_logs).
THEOREM RestartsForgetNothing == PaperSpec => []NothingForgotten
<1>1. PaperInv => NothingForgotten
  BY DEF PaperInv
<1>2. QED
  BY <1>1, PaperInvInductive, PTL

\* Every step keeps the books, the logs and the workers well typed.
THEOREM PaperTypeCorrect == PaperSpec => []PaperTypeOK
<1>1. PaperInv => PaperTypeOK
  BY DEF PaperInv
<1>2. QED
  BY <1>1, PaperInvInductive, PTL

--------------------------------------------------------------------------------
(* While ticks are serial: the caps, across restarts. *)

\* Positions the ant at work holds, or one made now would find in the logs.
Logged == (opened \ closed) \ zombies
Live   == Logged \cup ledger[run]

\* Only the worker the ant waits for is at work.
OneAtWork == \A w \in Workers : pc[w] # "idle" => w = ticking

\* The logs give no position the ant at work does not hold, but one it is closing.
LogsFollow == alive => Logged \subseteq ledger[run] \cup BeingClosed

CapsHold(held) ==
  /\ Cardinality(held) <= MaxOpen
  /\ Cardinality(held \cap Shorts) <= MaxShort
  /\ \A p, q \in held :
       StrategyOf[p] = None /\ StrategyOf[q] = None /\ SymbolOf[p] = SymbolOf[q] => p = q

\* What a candidate was let through for still holds when it is booked.
Screened(p) == p \in Shorts => Cardinality(ledger[run] \cap Shorts) < MaxShort
Admitted(p) ==
  /\ Cardinality(ledger[run]) < MaxOpen
  /\ IF StrategyOf[p] = None THEN \A q \in ledger[run] : SymbolOf[q] # SymbolOf[p]
                             ELSE Key(p, StrategyOf[p]) \notin keys[run]
StillAllowed ==
  \A w \in Workers :
    /\ pc[w] \in {"screened", "admitted"} => Screened(item[w])
    /\ pc[w] = "admitted" => Admitted(item[w])
    /\ pc[w] = "booked" => item[w] \in ledger[run]

\* The first ant has one key registered for each position with a strategy.
KeysMatch ==
  run = 1 =>
    /\ \A p \in Positions, s \in Strategies :
         <<p, s>> \in keyed[run] <=> p \in ledger[run] /\ s = StrategyOf[p] /\ s # None
    /\ \A p \in ledger[run] : StrategyOf[p] # None => Key(p, StrategyOf[p]) \in keys[run]
    /\ OnePerKey

Serial  == OneAtWork /\ LogsFollow /\ CapsHold(Live) /\ StillAllowed /\ KeysMatch
SlotInv == ~overlapped => Serial

LEMMA FiniteHolds ==
  ASSUME NEW held \in SUBSET Positions
  PROVE  IsFiniteSet(held) /\ Cardinality(held) \in Nat
BY PaperAssumption, FS_Subset, FS_CardinalityType

\* Fewer positions keep the caps too.
LEMMA FewerKeepCaps ==
  ASSUME NEW held \in SUBSET Positions, NEW fewer \in SUBSET held, CapsHold(held)
  PROVE  CapsHold(fewer)
<1>1. Cardinality(fewer) <= Cardinality(held) /\ Cardinality(fewer) \in Nat /\ Cardinality(held) \in Nat
  BY FiniteHolds, FS_Subset
<1>2. /\ Cardinality(fewer \cap Shorts) <= Cardinality(held \cap Shorts)
      /\ Cardinality(fewer \cap Shorts) \in Nat /\ Cardinality(held \cap Shorts) \in Nat
  <2>1. fewer \cap Shorts \subseteq held \cap Shorts /\ held \cap Shorts \subseteq Positions
    OBVIOUS
  <2>2. QED
    BY <2>1, FiniteHolds, FS_Subset
<1>3. Cardinality(held) <= MaxOpen /\ Cardinality(held \cap Shorts) <= MaxShort
  BY DEF CapsHold
<1>4. Cardinality(fewer) <= MaxOpen /\ Cardinality(fewer \cap Shorts) <= MaxShort
  BY <1>1, <1>2, <1>3, PaperAssumption
<1>5. QED
  BY <1>4 DEF CapsHold

LEMMA StartTickSerial ==
  ASSUME PaperInv, Serial, NEW w \in Workers, StartTick(w) PROVE Serial'
<1> USE DEF StartTick, Goto, bookVars, logVars
<1>1. \A v \in Workers : pc[v] = "idle"
  BY PaperAssumption DEF Serial, OneAtWork
<1>2. Live' = Live /\ Logged' = Logged /\ BeingClosed' = BeingClosed
  BY DEF Live, Logged, BeingClosed, PaperInv, PaperTypeOK
<1>3. OneAtWork'
  BY <1>1 DEF OneAtWork, PaperInv, PaperTypeOK
<1>4. LogsFollow'
  BY <1>2 DEF Serial, LogsFollow
<1>5. CapsHold(Live)'
  BY <1>2 DEF Serial, CapsHold
<1>6. StillAllowed'
  BY <1>1 DEF StillAllowed, PaperInv, PaperTypeOK
<1>7. KeysMatch'
  BY DEF Serial, KeysMatch, OnePerKey
<1>8. QED
  BY <1>3, <1>4, <1>5, <1>6, <1>7 DEF Serial

LEMMA QuietSerial ==
  ASSUME PaperInv, Serial, NEW w \in Workers,
         \/ KeepPosition(w) \/ TriggerExit(w) \/ ExitsDone(w) \/ Decline(w)
         \/ TickDone(w) \/ TickRaises(w)
  PROVE  Serial'
<1> USE DEF KeepPosition, TriggerExit, ExitsDone, Decline, TickDone, TickRaises, Goto,
      bookVars, logVars, antVars
<1>1. Live' = Live /\ Logged' = Logged /\ BeingClosed' = BeingClosed
  BY DEF Live, Logged, BeingClosed, PaperInv, PaperTypeOK
<1>2. OneAtWork'
  BY DEF Serial, OneAtWork, PaperInv, PaperTypeOK
<1>3. LogsFollow'
  BY <1>1 DEF Serial, LogsFollow
<1>4. CapsHold(Live)'
  BY <1>1 DEF Serial, CapsHold
<1>5. StillAllowed'
  BY DEF Serial, StillAllowed, Screened, Admitted, PaperInv, PaperTypeOK
<1>6. KeysMatch'
  BY DEF Serial, KeysMatch, OnePerKey
<1>7. QED
  BY <1>2, <1>3, <1>4, <1>5, <1>6 DEF Serial

\* The worker at work is the one the ant waits for, on the ant's own books.
LEMMA AtWork ==
  ASSUME PaperInv, Serial, NEW w \in Workers, pc[w] # "idle"
  PROVE  /\ home[w] = run /\ alive /\ run \in Runs
         /\ \A v \in Workers \ {w} : pc[v] = "idle"
<1>1. w = ticking /\ ticking # None
  BY PaperAssumption DEF Serial, OneAtWork
<1>2. QED
  BY <1>1 DEF Serial, OneAtWork, PaperInv, Waiting, PaperTypeOK

LEMMA ScreenSerial ==
  ASSUME PaperInv, Serial, NEW w \in Workers, Screen(w) PROVE Serial'
<1>1. PICK p \in Unused :
        /\ p \in Shorts => Cardinality(ledger[home[w]] \cap Shorts) < MaxShort
        /\ Goto(w, "screened", p)
  BY DEF Screen
<1>2. /\ UNCHANGED <<bookVars, logVars, antVars, home, todo, torn, overlapped>>
      /\ pc[w] = "entries"
  BY DEF Screen
<1> USE <1>2 DEF Goto, bookVars, logVars, antVars
<1>3. home[w] = run /\ \A v \in Workers \ {w} : pc[v] = "idle"
  BY AtWork
<1>4. Live' = Live /\ Logged' = Logged /\ BeingClosed' = BeingClosed
  BY <1>1 DEF Live, Logged, BeingClosed, PaperInv, PaperTypeOK
<1>5. OneAtWork'
  BY <1>1 DEF Serial, OneAtWork, PaperInv, PaperTypeOK
<1>6. LogsFollow' /\ CapsHold(Live)' /\ KeysMatch'
  BY <1>4 DEF Serial, LogsFollow, CapsHold, KeysMatch, OnePerKey
<1>7. StillAllowed'
  <2>1. Screened(p)'
    BY <1>1, <1>3 DEF Screened
  <2>2. QED
    BY <1>1, <1>3, <2>1 DEF StillAllowed, PaperInv, PaperTypeOK
<1>8. QED
  BY <1>5, <1>6, <1>7 DEF Serial

\* The cap counts symbols registered without a position too, never fewer.
LEMMA CountCoversPositions ==
  ASSUME PaperInv, NEW r \in Runs
  PROVE  OpenCount(r) \in Nat /\ Cardinality(ledger[r]) <= OpenCount(r)
<1> DEFINE held == {SymbolOf[p] : p \in ledger[r]}
<1>1. IsFiniteSet(Symbols)
  <2> DEFINE f == [p \in Positions |-> SymbolOf[p]]
  <2>1. f \in Surjection(Positions, Symbols)
    BY DEF Surjection, Symbols
  <2>2. QED
    BY <2>1, FS_Surjection, PaperAssumption
<1>2. symbols[r] \ held \subseteq Symbols /\ {k[1] : k \in keys[r]} \ held \subseteq Symbols
  <2>1. symbols[r] \subseteq Symbols /\ keys[r] \subseteq Symbols \X Strategies
    BY DEF PaperInv, PaperTypeOK
  <2> HIDE DEF held
  <2>2. QED
    BY <2>1
<1>3. /\ Cardinality(symbols[r] \ held) \in Nat
      /\ Cardinality({k[1] : k \in keys[r]} \ held) \in Nat
  BY <1>1, <1>2, FS_Subset, FS_CardinalityType
<1>4. Cardinality(ledger[r]) \in Nat
  BY FiniteHolds DEF PaperInv, PaperTypeOK
<1>5. OpenCount(r) = Cardinality(ledger[r]) + Cardinality(symbols[r] \ held)
                       + Cardinality({k[1] : k \in keys[r]} \ held)
  BY DEF OpenCount
<1> HIDE DEF held
<1>6. QED
  BY <1>3, <1>4, <1>5

LEMMA AdmitSerial ==
  ASSUME PaperInv, Serial, NEW w \in Workers, Admit(w) PROVE Serial'
<1> DEFINE p == item[w]
<1> USE DEF Admit, Goto, bookVars, logVars, antVars
<1>1. run \in Runs /\ home[w] = run /\ \A v \in Workers \ {w} : pc[v] = "idle"
  BY AtWork
<1>2. Live' = Live /\ Logged' = Logged /\ BeingClosed' = BeingClosed
  BY DEF Live, Logged, BeingClosed, PaperInv, PaperTypeOK
<1>3. OneAtWork'
  BY DEF Serial, OneAtWork, PaperInv, PaperTypeOK
<1>4. LogsFollow' /\ CapsHold(Live)' /\ KeysMatch'
  BY <1>2 DEF Serial, LogsFollow, CapsHold, KeysMatch, OnePerKey
<1>5. Admitted(p)
  <2>1. Cardinality(ledger[run]) < MaxOpen
    <3>1. /\ Cardinality(ledger[run]) <= OpenCount(run) /\ OpenCount(run) \in Nat
          /\ OpenCount(run) < MaxOpen
      BY <1>1, CountCoversPositions
    <3>2. Cardinality(ledger[run]) \in Nat /\ MaxOpen \in Nat
      BY <1>1, FiniteHolds, PaperAssumption DEF PaperInv, PaperTypeOK
    <3>3. QED
      BY <3>1, <3>2
  <2>2. IF StrategyOf[p] = None THEN \A q \in ledger[run] : SymbolOf[q] # SymbolOf[p]
                                ELSE Key(p, StrategyOf[p]) \notin keys[run]
    BY <1>1 DEF Taken
  <2>3. QED
    BY <2>1, <2>2 DEF Admitted
<1>6. Screened(p)
  BY DEF Serial, StillAllowed
<1>7. StillAllowed'
  BY <1>1, <1>5, <1>6 DEF StillAllowed, Screened, Admitted, PaperInv, PaperTypeOK
<1>8. QED
  BY <1>3, <1>4, <1>7 DEF Serial

\* Closing gives up the slot of that position and no other.
LEMMA CloseBooksSerial ==
  ASSUME PaperInv, Serial, NEW w \in Workers, CloseBooks(w) PROVE Serial'
<1> DEFINE p == item[w]
<1> USE DEF CloseBooks, Goto, antVars
<1>1. run \in Runs /\ home[w] = run /\ \A v \in Workers \ {w} : pc[v] = "idle"
  BY AtWork
<1>2. p \in Positions /\ ledger[run] \subseteq Positions /\ opened \subseteq Positions
  BY <1>1 DEF PaperInv, Hands, PaperTypeOK
<1>3. /\ Logged' = Logged /\ BeingClosed' = BeingClosed \cup {p}
      /\ ledger'[run] = ledger[run] \ {p}
  BY <1>1 DEF Logged, BeingClosed, PaperInv, PaperTypeOK
<1>4. OneAtWork'
  BY DEF Serial, OneAtWork, PaperInv, PaperTypeOK
<1>5. LogsFollow'
  BY <1>3 DEF Serial, LogsFollow
<1>6. CapsHold(Live)'
  <2>1. Live' \subseteq Live /\ Live \subseteq Positions
    BY <1>2, <1>3 DEF Live, Logged
  <2>2. CapsHold(Live')
    BY <2>1, FewerKeepCaps DEF Serial
  <2>3. QED
    BY <2>2 DEF CapsHold
<1>7. StillAllowed'
  BY <1>1 DEF StillAllowed, PaperInv, PaperTypeOK
<1>8. KeysMatch'
  <2> SUFFICES ASSUME run = 1 PROVE KeysMatch'
    BY DEF KeysMatch
  <2> DEFINE its == {s \in Strategies : <<p, s>> \in keyed[run]}
  <2>1. KeysMatch /\ \A q \in Positions, s \in Strategies :
          <<q, s>> \in keyed[run] <=> q \in ledger[run] /\ s = StrategyOf[q] /\ s # None
    BY DEF Serial, KeysMatch
  <2>2. OnePerKey'
    BY <1>3, <2>1 DEF KeysMatch, OnePerKey
  <2>3. \A q \in Positions : StrategyOf[q] \in Strategies
    BY DEF Strategies
  <2>4. keyed \in [Runs -> SUBSET (Positions \X Strategies)]
    BY DEF PaperInv, PaperTypeOK
  <2>5. keys \in [Runs -> SUBSET (Symbols \X Strategies)]
    BY DEF PaperInv, PaperTypeOK
  <2>6. CASE its = {}
    <3>1. keys' = keys /\ keyed' = keyed
      BY <1>1, <2>6 DEF FreeSlot
    <3>2. ~(p \in ledger[run] /\ StrategyOf[p] # None)
      BY <1>2, <2>1, <2>3, <2>6
    <3>3. \A q \in Positions, s \in Strategies :
            <<q, s>> \in keyed[run] <=> q \in ledger'[run] /\ s = StrategyOf[q] /\ s # None
      <4> SUFFICES ASSUME NEW q \in Positions, NEW s \in Strategies
                   PROVE  q \in ledger[run] /\ s = StrategyOf[q] /\ s # None
                            => q \in ledger'[run]
        BY <1>3, <2>1
      <4>1. q # p \/ ~(q \in ledger[run] /\ StrategyOf[q] # None)
        BY <3>2
      <4>2. QED
        BY <1>3, <4>1
    <3>4. \A q \in ledger'[run] : StrategyOf[q] # None => Key(q, StrategyOf[q]) \in keys[run]
      BY <1>3, <2>1 DEF KeysMatch
    <3>5. QED
      BY <2>2, <3>1, <3>3, <3>4 DEF KeysMatch
  <2>7. CASE its # {}
    <3>1. PICK s \in its : TRUE
      BY <2>7
    <3>2. p \in ledger[run] /\ StrategyOf[p] # None /\ its = {StrategyOf[p]}
      BY <1>2, <2>1, <2>3, <3>1
    <3>3. /\ keyed' = [keyed EXCEPT ![run] = @ \ ({p} \X its)]
          /\ keys' = [keys EXCEPT ![run] = @ \ {Key(p, t) : t \in its}]
      BY <1>1, <2>7 DEF FreeSlot
    <3> HIDE DEF its
    <3>4. keyed'[run] = keyed[run] \ ({p} \X its) /\ keys'[run] = keys[run] \ {Key(p, StrategyOf[p])}
      BY <1>1, <2>4, <2>5, <3>2, <3>3
    <3>5. \A q \in Positions, t \in Strategies :
            <<q, t>> \in keyed'[run] <=> q \in ledger'[run] /\ t = StrategyOf[q] /\ t # None
      BY <1>2, <1>3, <2>1, <3>2, <3>4
    <3>6. \A q \in ledger[run] :
            StrategyOf[q] # None /\ Key(q, StrategyOf[q]) = Key(p, StrategyOf[p]) => q = p
      BY <2>1, <3>2 DEF KeysMatch, OnePerKey
    <3>7. \A q \in ledger'[run] : StrategyOf[q] # None => Key(q, StrategyOf[q]) \in keys'[run]
      BY <1>3, <2>1, <3>4, <3>6 DEF KeysMatch
    <3>8. QED
      BY <2>2, <3>5, <3>7 DEF KeysMatch
  <2>8. QED
    BY <2>6, <2>7
<1>9. QED
  BY <1>4, <1>5, <1>6, <1>7, <1>8 DEF Serial

LEMMA CloseLoggedSerial ==
  ASSUME PaperInv, Serial, NEW w \in Workers, CloseLogged(w) PROVE Serial'
<1> USE DEF CloseLogged, Goto, antVars, bookVars
<1>1. \A v \in Workers \ {w} : pc[v] = "idle"
  BY AtWork
<1>2. Logged' = Logged \ {item[w]} /\ BeingClosed \subseteq {item[w]}
  BY <1>1 DEF Logged, BeingClosed
<1>3. OneAtWork'
  BY DEF Serial, OneAtWork, PaperInv, PaperTypeOK
<1>4. LogsFollow'
  BY <1>2 DEF Serial, LogsFollow
<1>5. CapsHold(Live)'
  <2>1. Live' \subseteq Live /\ Live \subseteq Positions
    BY <1>2 DEF Live, Logged, PaperInv, PaperTypeOK
  <2>2. CapsHold(Live')
    BY <2>1, FewerKeepCaps DEF Serial
  <2>3. QED
    BY <2>2 DEF CapsHold
<1>6. StillAllowed'
  BY <1>1 DEF StillAllowed, PaperInv, PaperTypeOK
<1>7. KeysMatch'
  BY DEF Serial, KeysMatch, OnePerKey
<1>8. QED
  BY <1>3, <1>4, <1>5, <1>6, <1>7 DEF Serial

\* The one step that takes a slot: what the guards asked for still holds.
LEMMA BookSerial ==
  ASSUME PaperInv, Serial, NEW w \in Workers, Book(w) PROVE Serial'
<1> DEFINE p    == item[w]
           mine == ledger[run]
<1> USE DEF Book, Goto, antVars, logVars
<1>1. run \in Runs /\ home[w] = run /\ alive /\ \A v \in Workers \ {w} : pc[v] = "idle"
  BY AtWork
<1>2. /\ p \in Positions /\ p \notin mine /\ mine \subseteq Positions
      /\ ledger'[run] = mine \cup {p}
  BY <1>1 DEF PaperInv, Hands, Known, PaperTypeOK
<1>3. Logged' = Logged /\ BeingClosed = {} /\ BeingClosed' = {}
  BY <1>1 DEF Logged, BeingClosed, PaperInv, PaperTypeOK
<1>4. Live = mine /\ Live' = mine \cup {p} /\ Logged \subseteq mine
  BY <1>1, <1>2, <1>3 DEF Live, Serial, LogsFollow
<1>5. Screened(p) /\ Admitted(p) /\ CapsHold(mine)
  BY <1>4 DEF Serial, StillAllowed
<1>6. OneAtWork'
  BY DEF Serial, OneAtWork, PaperInv, PaperTypeOK
<1>7. LogsFollow'
  BY <1>2, <1>3, <1>4 DEF LogsFollow
<1>8. CapsHold(mine \cup {p})
  <2>1. Cardinality(mine \cup {p}) <= MaxOpen
    <3>1. Cardinality(mine \cup {p}) = Cardinality(mine) + 1 /\ Cardinality(mine) \in Nat
      BY <1>2, FiniteHolds, FS_AddElement
    <3>2. Cardinality(mine) < MaxOpen
      BY <1>5 DEF Admitted
    <3>3. QED
      BY <3>1, <3>2, PaperAssumption
  <2>2. Cardinality((mine \cup {p}) \cap Shorts) <= MaxShort
    <3>1. CASE p \in Shorts
      <4>1. (mine \cup {p}) \cap Shorts = (mine \cap Shorts) \cup {p} /\ p \notin mine \cap Shorts
        BY <1>2, <3>1
      <4>2. IsFiniteSet(mine \cap Shorts) /\ Cardinality(mine \cap Shorts) \in Nat
        BY <1>2, FiniteHolds
      <4>3. Cardinality((mine \cap Shorts) \cup {p}) = Cardinality(mine \cap Shorts) + 1
        BY <4>1, <4>2, FS_AddElement
      <4>4. Cardinality(mine \cap Shorts) < MaxShort
        BY <1>5, <3>1 DEF Screened
      <4>5. Cardinality(mine \cap Shorts) + 1 <= MaxShort
        BY <4>2, <4>4, PaperAssumption
      <4>6. QED
        BY <4>1, <4>3, <4>5
    <3>2. CASE p \notin Shorts
      <4>1. (mine \cup {p}) \cap Shorts = mine \cap Shorts
        BY <3>2
      <4>2. QED
        BY <1>5, <4>1 DEF CapsHold
    <3>3. QED
      BY <3>1, <3>2
  <2>3. StrategyOf[p] = None => \A q \in mine : SymbolOf[q] # SymbolOf[p]
    BY <1>5 DEF Admitted
  <2>4. \A q, r \in mine \cup {p} :
          StrategyOf[q] = None /\ StrategyOf[r] = None /\ SymbolOf[q] = SymbolOf[r] => q = r
    BY <1>5, <2>3 DEF CapsHold
  <2>5. QED
    BY <2>1, <2>2, <2>4 DEF CapsHold
<1>9. CapsHold(Live)'
  BY <1>4, <1>8 DEF CapsHold
<1>10. StillAllowed'
  BY <1>1, <1>2 DEF StillAllowed, PaperInv, PaperTypeOK
<1>11. KeysMatch'
  <2> SUFFICES ASSUME run = 1 PROVE KeysMatch'
    BY DEF KeysMatch
  <2>1. KeysMatch
    BY DEF Serial
  <2>2. keyed \in [Runs -> SUBSET (Positions \X Strategies)]
    BY DEF PaperInv, PaperTypeOK
  <2>3. keys \in [Runs -> SUBSET (Symbols \X Strategies)]
    BY DEF PaperInv, PaperTypeOK
  <2>4. CASE StrategyOf[p] = None
    <3>1. keys' = keys /\ keyed' = keyed
      BY <2>4
    <3>2. OnePerKey'
      BY <1>2, <2>1, <2>4 DEF KeysMatch, OnePerKey, Key
    <3>3. \A q \in Positions, s \in Strategies :
            <<q, s>> \in keyed[run] <=> q \in ledger'[run] /\ s = StrategyOf[q] /\ s # None
      BY <1>2, <2>1, <2>4 DEF KeysMatch
    <3>4. \A q \in ledger'[run] : StrategyOf[q] # None => Key(q, StrategyOf[q]) \in keys[run]
      BY <1>2, <2>1, <2>4 DEF KeysMatch
    <3>5. QED
      BY <3>1, <3>2, <3>3, <3>4 DEF KeysMatch
  <2>5. CASE StrategyOf[p] # None
    <3>1. /\ keys'[run] = keys[run] \cup {Key(p, StrategyOf[p])}
          /\ keyed'[run] = keyed[run] \cup {<<p, StrategyOf[p]>>}
      BY <1>1, <2>2, <2>3, <2>5
    <3>2. Key(p, StrategyOf[p]) \notin keys[run]
      BY <1>5, <2>5 DEF Admitted
    <3>3. \A q \in mine : StrategyOf[q] # None => Key(q, StrategyOf[q]) \in keys[run]
      BY <2>1 DEF KeysMatch
    <3>4. \A q \in mine : Key(p, StrategyOf[p]) # Key(q, StrategyOf[q])
      BY <2>5, <3>2, <3>3 DEF Key
    <3>5. OnePerKey'
      BY <1>2, <2>1, <3>4 DEF KeysMatch, OnePerKey
    <3>6. \A q \in Positions, s \in Strategies :
            <<q, s>> \in keyed'[run] <=> q \in ledger'[run] /\ s = StrategyOf[q] /\ s # None
      BY <1>2, <2>1, <2>5, <3>1 DEF KeysMatch
    <3>7. \A q \in ledger'[run] : StrategyOf[q] # None => Key(q, StrategyOf[q]) \in keys'[run]
      BY <1>2, <3>1, <3>3
    <3>8. QED
      BY <3>5, <3>6, <3>7 DEF KeysMatch
  <2>6. QED
    BY <2>4, <2>5
<1>12. QED
  BY <1>6, <1>7, <1>9, <1>10, <1>11 DEF Serial

LEMMA OpenLoggedSerial ==
  ASSUME PaperInv, Serial, NEW w \in Workers, OpenLogged(w) PROVE Serial'
<1> USE DEF OpenLogged, Goto, antVars, bookVars
<1>1. \A v \in Workers \ {w} : pc[v] = "idle"
  BY AtWork
<1>2. item[w] \in ledger[run] /\ Logged' \subseteq Logged \cup {item[w]} /\ BeingClosed' = BeingClosed
  BY DEF Serial, StillAllowed, Logged, BeingClosed, PaperInv, PaperTypeOK
<1>3. OneAtWork'
  BY DEF Serial, OneAtWork, PaperInv, PaperTypeOK
<1>4. LogsFollow'
  BY <1>2 DEF Serial, LogsFollow
<1>5. CapsHold(Live)'
  <2>1. Live' \subseteq Live /\ Live \subseteq Positions
    BY <1>2 DEF Live, Logged, PaperInv, PaperTypeOK
  <2>2. CapsHold(Live')
    BY <2>1, FewerKeepCaps DEF Serial
  <2>3. QED
    BY <2>2 DEF CapsHold
<1>6. StillAllowed'
  BY <1>1 DEF StillAllowed, PaperInv, PaperTypeOK
<1>7. KeysMatch'
  BY DEF Serial, KeysMatch, OnePerKey
<1>8. QED
  BY <1>3, <1>4, <1>5, <1>6, <1>7 DEF Serial

LEMMA EndsSerial ==
  ASSUME PaperInv, Serial, AntEnds \/ Crash PROVE Serial'
<1> USE DEF AntEnds, Crash, bookVars, logVars, workVars
<1>1. Live' = Live /\ Logged' = Logged /\ ~alive'
  BY DEF Live, Logged
<1>2. OneAtWork'
  BY DEF Serial, OneAtWork
<1>3. LogsFollow'
  BY <1>1 DEF LogsFollow
<1>4. CapsHold(Live)'
  BY <1>1 DEF Serial, CapsHold
<1>5. StillAllowed'
  BY DEF Serial, StillAllowed, Screened, Admitted
<1>6. KeysMatch'
  BY DEF Serial, KeysMatch, OnePerKey
<1>7. QED
  BY <1>2, <1>3, <1>4, <1>5, <1>6 DEF Serial

\* A new ant holds what the logs still say is open: no more than the old one had.
LEMMA RestartSerial ==
  ASSUME PaperInv, Serial, NEW old \in SUBSET Mortal, Restart(old) PROVE Serial'
<1> USE DEF Restart, Ages, workVars
<1>1. run \in Runs /\ run + 1 \in Runs /\ run' > 1 /\ ticking = None
  BY PaperAssumption DEF Runs, PaperInv, PaperTypeOK, Waiting
<1>2. \A v \in Workers : pc[v] = "idle"
  BY <1>1, PaperAssumption DEF Serial, OneAtWork
<1>3. ledger'[run'] = Found /\ Found = Logged' /\ Found \subseteq Logged
  BY <1>1 DEF Found, Logged, PaperInv, PaperTypeOK
<1>4. OneAtWork'
  BY <1>2 DEF OneAtWork
<1>5. LogsFollow'
  BY <1>3 DEF LogsFollow
<1>6. CapsHold(Live)'
  <2>1. Live' \subseteq Live /\ Live \subseteq Positions
    BY <1>1, <1>3 DEF Live, Logged, PaperInv, PaperTypeOK
  <2>2. CapsHold(Live')
    BY <2>1, FewerKeepCaps DEF Serial
  <2>3. QED
    BY <2>2 DEF CapsHold
<1>7. StillAllowed'
  BY <1>2 DEF StillAllowed
<1>8. KeysMatch'
  BY <1>1 DEF KeysMatch
<1>9. QED
  BY <1>4, <1>5, <1>6, <1>7, <1>8 DEF Serial

\* Until a tick is abandoned the caps hold, restarts or not, and no two positions
\* share a slot (_try_open_position, _load_open_symbols_from_logs).
THEOREM CapsAreKept == PaperSpec => []SlotsAreKept
<1>1. PaperInit => SlotInv
  <2> SUFFICES ASSUME PaperInit PROVE Serial
    BY DEF SlotInv
  <2> USE DEF PaperInit
  <2>1. Live = {} /\ Logged = {} /\ 1 \in Runs
    BY PaperAssumption DEF Live, Logged, Runs
  <2>2. CapsHold({})
    BY FS_EmptySet, PaperAssumption DEF CapsHold
  <2>3. OneAtWork /\ LogsFollow /\ StillAllowed
    BY <2>1 DEF OneAtWork, LogsFollow, StillAllowed
  <2>4. KeysMatch
    BY <2>1 DEF KeysMatch, OnePerKey
  <2>5. QED
    BY <2>1, <2>2, <2>3, <2>4 DEF Serial
<1>2. PaperInv /\ SlotInv /\ [PaperNext]_vars => SlotInv'
  <2> SUFFICES ASSUME PaperInv, Serial, ~overlapped, [PaperNext]_vars, ~overlapped' PROVE Serial'
    <3>1. [PaperNext]_vars /\ ~overlapped' => ~overlapped
      BY DEF PaperNext, TickStep, vars, StartTick, KeepPosition, TriggerExit, CloseBooks,
         CloseLogged, ExitsDone, Screen, Admit, Decline, Book, OpenLogged, TickDone, TickRaises,
         Timeout, AntEnds, Crash, Restart
    <3>2. QED
      BY <3>1 DEF SlotInv
  <2>1. ASSUME NEW w \in Workers, TickStep(w) PROVE Serial'
    BY <2>1, StartTickSerial, QuietSerial, ScreenSerial, AdmitSerial, CloseBooksSerial,
       CloseLoggedSerial, BookSerial, OpenLoggedSerial DEF TickStep
  <2>2. CASE AntEnds \/ Crash
    BY <2>2, EndsSerial
  <2>3. CASE \E old \in SUBSET Mortal : Restart(old)
    BY <2>3, RestartSerial
  <2>4. CASE Timeout
    BY <2>4 DEF Timeout
  <2>5. CASE UNCHANGED vars
    BY <2>5 DEF vars, bookVars, logVars, antVars, workVars, Serial, OneAtWork, LogsFollow, CapsHold,
       Live, Logged, BeingClosed, StillAllowed, Screened, Admitted, KeysMatch, OnePerKey
  <2>6. QED
    BY <2>1, <2>2, <2>3, <2>4, <2>5 DEF PaperNext
<1>3. PaperInv /\ SlotInv => SlotsAreKept
  <2> SUFFICES ASSUME PaperInv, Serial PROVE SlotsAreKept
    BY DEF SlotInv, SlotsAreKept
  <2>1. ledger[run] \subseteq Live /\ Live \subseteq Positions
    BY DEF Live, Logged, PaperInv, PaperTypeOK
  <2>2. CapsHold(ledger[run])
    BY <2>1, FewerKeepCaps DEF Serial
  <2>3. QED
    BY <2>2 DEF CapsHold, Serial, KeysMatch, SlotsAreKept, OneScoutPerSymbol
<1>4. QED
  BY <1>1, <1>2, <1>3, PaperInvInductive, PTL DEF PaperSpec
================================================================================
