---------------------------- MODULE StrategyPromoter ----------------------------
(***************************************************************************)
(* The promotion of candidates: the promoter's thread                      *)
(* (ant_colony/colony/promoter.py), which reads the research log from the  *)
(* top every minute, and the steps of the chain the Queen grants it        *)
(* (promote_candidate in ant_colony/queen/queen.py).                       *)
(*                                                                         *)
(* Of a promotion two events of the Queen, a mission and a line of the     *)
(* approved log are kept; that it is under way is not.  A candidate counts *)
(* as seen before anything is done with it, in memory only.                *)
(*                                                                         *)
(* The candidates are those of records in the format of StrategyCandidate, *)
(* brought in from outside: the records that ResearchAnt and StrategyAnt   *)
(* write have a format the promoter skips.                                 *)
(***************************************************************************)
EXTENDS Integers, FiniteSets, Sequences

CONSTANTS
  Candidates,     \* candidate ids
  Ready,          \* candidates whose records have status research and good enough results
  MaxRecords,     \* bounds the records of the research log
  PrefixOf,       \* the first eight characters of an id
  MaxMissions,    \* how many missions of _PAPER_CAPITAL the capital of the colony pays for
  MaxPromoters    \* bounds the starts of the process

ASSUME PromoterAssumption ==
  /\ Ready \subseteq Candidates
  /\ MaxRecords \in Nat /\ MaxMissions \in Nat /\ MaxPromoters \in Nat \ {0}

VARIABLES
  imported,     \* the records in the research log, in their order
  approved,     \* approved[c]: how many lines for c are in the approved log
  events,       \* events[c]: the promotions of c in the Queen's log
  missions,     \* ids of active missions the promoter issued
  second,       \* the second a mission id is made in, less those that made none
  pSeen,        \* _seen_candidate_ids
  pTodo,        \* records of the file it has still to deal with, the first in hand
  pPc,          \* idle, scan, or the step of _promote that comes next
  promoters,    \* history: promoters made so far
  dropped       \* history: candidates an error of this promoter left where they were

promoterVars == <<pSeen, pTodo, pPc, promoters, dropped>>
promoVars    == <<imported, approved, events, missions, second, promoterVars>>

PromoterInit ==
  /\ imported = <<>> /\ approved = [c \in Candidates |-> 0]
  /\ events = [c \in Candidates |-> <<>>]
  /\ missions = {} /\ second = 0
  /\ pSeen = {} /\ pTodo = <<>> /\ pPc = "idle"
  /\ promoters = 1 /\ dropped = {}

\* The one next status of a candidate; nothing follows rejected or live.
Successor == [research |-> "paper", paper |-> "approved", approved |-> "live"]
MayPromote(from, to) == from \in DOMAIN Successor /\ Successor[from] = to

StatusOf(c) ==
  IF events[c] = <<>> THEN "research" ELSE events[c][Len(events[c])]

\* Someone puts a record into the log, the first of its candidate or one more.
Import(c) ==
  /\ Len(imported) < MaxRecords
  /\ imported' = Append(imported, c)
  /\ UNCHANGED <<approved, events, missions, second, promoterVars>>

\* run_once reads the file.
PromoterTick ==
  /\ pPc = "idle"
  /\ pTodo' = imported /\ pPc' = "scan"
  /\ UNCHANGED <<imported, approved, events, missions, second, pSeen, promoters, dropped>>

InHand   == Head(pTodo)
NextLine == pTodo' = Tail(pTodo) /\ pPc' = "scan"
Promoting == pPc' = "paper" /\ UNCHANGED pTodo

\* Mutant: a candidate is not remembered.
NextRecord_Forgets ==
  /\ pPc = "scan" /\ pTodo # <<>>
  /\ IF InHand \in Ready \ pSeen THEN Promoting ELSE NextLine
  /\ UNCHANGED <<imported, approved, events, missions, second, pSeen, promoters, dropped>>

\* The next record: noted as seen, and promoted if it is new and ready for it.
NextRecord ==
  /\ pPc = "scan" /\ pTodo # <<>>
  /\ pSeen' = pSeen \cup {InHand}
  /\ IF InHand \in Ready \ pSeen THEN Promoting ELSE NextLine
  /\ UNCHANGED <<imported, approved, events, missions, second, promoters, dropped>>

FileDone ==
  /\ pPc = "scan" /\ pTodo = <<>>
  /\ pPc' = "idle"
  /\ UNCHANGED <<imported, approved, events, missions, second, pSeen, pTodo, promoters, dropped>>

\* The Queen promotes the object in the promoter's hand, of status `from`, looks at no
\* results, and logs the event.
Grant(from, to, next) ==
  /\ MayPromote(from, to)
  /\ events' = [events EXCEPT ![InHand] = Append(@, to)]
  /\ pPc' = next

ToPaper ==
  /\ pPc = "paper" /\ Grant("research", "paper", "issue")
  /\ UNCHANGED <<imported, approved, missions, second, pSeen, pTodo, promoters, dropped>>

MissionId == <<PrefixOf[InHand], second>>

\* Mutant: a mission that is refused ends the promotion.
IssueMission_Insists ==
  /\ pPc = "issue"
  /\ \/ /\ MissionId \notin missions /\ Cardinality(missions) < MaxMissions
        /\ missions' = missions \cup {MissionId} /\ pPc' = "approve" /\ UNCHANGED pTodo
     \/ UNCHANGED missions /\ NextLine
  /\ \/ second' = second
     \/ second' = second + 1 /\ second < Cardinality(Candidates)
  /\ UNCHANGED <<imported, approved, events, pSeen, promoters, dropped>>

\* The mission is accepted if its id, made of a prefix and the second, is new and
\* capital is left, or it is refused, for these reasons or for the node's.  The
\* answer is only logged.
IssueMission ==
  /\ pPc = "issue"
  /\ \/ /\ MissionId \notin missions /\ Cardinality(missions) < MaxMissions
        /\ missions' = missions \cup {MissionId}
     \/ UNCHANGED missions
  /\ \/ second' = second
     \/ second' = second + 1 /\ second < Cardinality(Candidates)
  /\ pPc' = "approve"
  /\ UNCHANGED <<imported, approved, events, pSeen, pTodo, promoters, dropped>>

\* issue_mission raises (its sums walk a dictionary other threads change): the
\* exception ends the tick, and with it what was left of the file.
IssueRaises ==
  /\ pPc = "issue"
  /\ dropped' = dropped \cup {InHand}
  /\ pTodo' = <<>> /\ pPc' = "idle"
  /\ UNCHANGED <<imported, approved, events, missions, second, pSeen, promoters>>

ToApproved ==
  /\ pPc = "approve" /\ Grant("paper", "approved", "write")
  /\ UNCHANGED <<imported, approved, missions, second, pSeen, pTodo, promoters, dropped>>

WriteApproved ==
  /\ pPc = "write"
  /\ approved' = [approved EXCEPT ![InHand] = @ + 1]
  /\ NextLine
  /\ UNCHANGED <<imported, events, missions, second, pSeen, promoters, dropped>>

\* The line cannot be written, which is only logged.
WriteFails ==
  /\ pPc = "write"
  /\ dropped' = dropped \cup {InHand}
  /\ NextLine
  /\ UNCHANGED <<imported, approved, events, missions, second, pSeen, promoters>>

\* The process dies and starts anew; the missions were in the Queen's memory.
PromoterDies ==
  /\ promoters < MaxPromoters
  /\ promoters' = promoters + 1
  /\ pSeen' = {} /\ pTodo' = <<>> /\ pPc' = "idle" /\ dropped' = {}
  /\ missions' = {}
  /\ UNCHANGED <<imported, approved, events, second>>

PromoterStep ==
  \/ \E c \in Candidates : Import(c)
  \/ PromoterTick \/ NextRecord \/ FileDone
  \/ ToPaper \/ IssueMission \/ IssueRaises \/ ToApproved \/ WriteApproved \/ WriteFails

--------------------------------------------------------------------------------
(* Properties. *)

\* A candidate is approved only out of the status paper, and has at most one line
\* in the approved log for each time it was approved, and one for each promoter
\* there was (_promote, _seen_candidate_ids).
PromotedInOrder ==
  \A c \in Candidates :
    LET approvals == {n \in DOMAIN events[c] : events[c][n] = "approved"} IN
    /\ \A n \in approvals : n > 1 /\ events[c][n - 1] = "paper"
    /\ approved[c] <= Cardinality(approvals)
    /\ Cardinality(approvals) <= promoters

\* A candidate that is ready and was seen is approved in the life of this promoter,
\* or in hand, unless an error dropped it: that its mission is refused, or has the
\* id of another, does not matter (_promote).
SeenIsDecided ==
  \A c \in Ready \cap pSeen :
    \/ c \in dropped \/ (pPc \notin {"idle", "scan"} /\ InHand = c)
    \/ StatusOf(c) = "approved" /\ approved[c] > 0

\* Promotion follows the order of the statuses, and comes to an end.
PromotionIsOrderly == PromotedInOrder /\ SeenIsDecided
================================================================================
