----------------------------- MODULE CandidateMill -----------------------------
(***************************************************************************)
(* The ants that find, test and vary strategies, the promoter, and the     *)
(* queues of the paper ant, the ants on equities, the one that trades live *)
(* and those that watch the world and the logs, as they run beside each    *)
(* other in one process: each a thread of its own, none waiting for        *)
(* another, with the logs between them.                                    *)
(***************************************************************************)
EXTENDS CandidateLogs, OperatorAnt, ResearchAnt, ClaudeAnt, StrategyAnt,
        StrategyPromoter, KillZoneAnt, PaperQueues,
        SectorRotation, StockScreen, DefensiveHedge, EquitiesBook, LiveExecution,
        WatchtowerAnt, NewsAnt, AuditTrail, QueenAdvisor, IbkrSession

CONSTANTS
  Casts,    \* sets of ants the colony may be started with
  MaxLog,   \* bounds the lines of either log
  LivesBeside, NowBeside, PricesBeside   \* bounds for the equities paper ant beside its scout

\* Flags of the bootstrap, and blocks of it that fail, decide which ants a colony
\* has; cast does not change.
VARIABLE cast

makerVars == <<logVars, webVars, opVars, resVars, claudeVars, forgeVars>>
takerVars == <<promoVars, kzVars, qVars>>
setupVars == <<now, rotationVars, screenVars, hedgeVars>>
tradeVars == <<scoutVars, bookVars, liveVars>>
senseVars == <<wtVars, newsVars, auditVars, syncVars, ibVars>>
vars      == <<makerVars, takerVars, setupVars, tradeVars, senseVars, cast>>

MillInit ==
  /\ cast \in Casts
  /\ LogsInit /\ IngestionInit /\ OperatorInit /\ ResearchInit /\ ClaudeInit /\ StrategyInit
  /\ PromoterInit /\ KillZoneInit /\ QueuesInit
  /\ now = 0 /\ RotationInit /\ ScreenInit /\ HedgeInit
  /\ SectorScoutInit /\ BookInit /\ LiveInit /\ (paperMode => "live" \in cast)
  /\ WtInit /\ NewsInit /\ AuditInit /\ SyncInit /\ IbInit

\* The process dies with every thread; the ants that are not supervised come
\* back with it, with nothing in memory.
Crash ==
  /\ webSeen' = {} /\ webItem' = None /\ webFetches' = 0
  /\ OperatorDies /\ ResearchDies /\ ClaudeDies
  /\ tried' = {}
  /\ UNCHANGED <<forged, logVars>>

MakerStep ==
  \/ "ingestion" \in cast /\ IngestionStep /\ UNCHANGED <<opVars, resVars, claudeVars, forgeVars>>
  \/ "operator" \in cast /\ OperatorStep /\ UNCHANGED <<webVars, resVars, claudeVars, forgeVars>>
  \/ "research" \in cast /\ ResearchStep /\ UNCHANGED <<webVars, opVars, claudeVars, forgeVars>>
  \/ "claude" \in cast /\ ClaudeStep /\ UNCHANGED <<webVars, opVars, resVars, forgeVars>>
  \/ "strategy" \in cast /\ StrategyStep /\ UNCHANGED <<webVars, opVars, resVars, claudeVars>>

TakerStep ==
  \/ "promoter" \in cast /\ (PromoterStep \/ PromoterDies) /\ UNCHANGED <<kzVars, qVars>>
  \/ "killzone" \in cast /\ KillZoneStep /\ UNCHANGED <<promoVars, qVars>>
  \/ "paper" \in cast /\ QueuesStep /\ UNCHANGED <<promoVars, kzVars>>

\* The setups on equities, each with logs of its own.
SetupStep ==
  \/ cast \cap {"rotation", "screen", "hedge", "book"} # {} /\ TimePasses
     /\ UNCHANGED <<rotationVars, screenVars, hedgeVars>>
  \/ "rotation" \in cast /\ RotationStep /\ UNCHANGED <<now, screenVars, hedgeVars>>
  \/ "screen" \in cast /\ ScreenStep /\ UNCHANGED <<now, rotationVars, hedgeVars>>
  \/ "hedge" \in cast /\ HedgeStep /\ UNCHANGED <<now, rotationVars, screenVars>>

\* The ants that trade, and the scout the equities paper ant listens to.
TradeStep ==
  \/ "scout" \in cast /\ SectorScoutTick /\ UNCHANGED <<bookVars, liveVars>>
  \/ /\ "book" \in cast /\ BookStep /\ UNCHANGED <<scoutVars, liveVars>>
     /\ "scout" \in cast =>
          bookLife' <= LivesBeside /\ \A i \in Ids : peak'[i] \in PricesBeside \cup {0}
  \/ "live" \in cast /\ LiveStep /\ UNCHANGED <<scoutVars, bookVars>>

\* The ants and threads that watch the Watchtower, the news, the Queen's logs, the
\* regime and the broker's session.
SenseStep ==
  \/ "watchtower" \in cast /\ WatchtowerStep /\ UNCHANGED <<newsVars, auditVars, syncVars, ibVars>>
  \/ "news" \in cast /\ NewsStep /\ UNCHANGED <<wtVars, auditVars, syncVars, ibVars>>
  \/ "audit" \in cast /\ AuditStep /\ UNCHANGED <<wtVars, newsVars, syncVars, ibVars>>
  \/ "regime" \in cast /\ SyncStep /\ UNCHANGED <<wtVars, newsVars, auditVars, ibVars>>
  \/ "ibkr" \in cast /\ IbStep /\ UNCHANGED <<wtVars, newsVars, auditVars, syncVars>>

MillNext ==
  /\ \/ MakerStep /\ UNCHANGED <<takerVars, setupVars, tradeVars, senseVars>>
     \/ TakerStep /\ UNCHANGED <<makerVars, setupVars, tradeVars, senseVars>>
     \/ SetupStep /\ UNCHANGED <<makerVars, takerVars, tradeVars, senseVars>>
     \/ TradeStep /\ UNCHANGED <<makerVars, takerVars, setupVars, senseVars>>
     \/ SenseStep /\ UNCHANGED <<makerVars, takerVars, setupVars, tradeVars>>
     \/ cast \cap {"ingestion", "operator", "research", "claude", "strategy"} # {} /\ Crash
        /\ UNCHANGED <<takerVars, setupVars, tradeVars, senseVars>>
  /\ Len(ingestion') <= MaxLog /\ Len(research') <= MaxLog
  /\ "scout" \in cast => now' <= NowBeside
  /\ "claude" \in cast => ~resLate'   \* bound: ticks are left behind beside the other makers only
  /\ UNCHANGED cast

MillSpec == MillInit /\ [][MillNext]_vars

--------------------------------------------------------------------------------

\* What an ant does once it does once in each life of its memory: KillZoneAnt one line
\* per symbol and session of a day, the paper ant one try per signal and candidate.
DoneOncePerLife == OneLinePerWindow /\ TriedOncePerLife

\* The limits that are kept in files hold across crashes and midnights, but for what a
\* file lost: the Watchtower's candidates of a day, the calls to the news service, and
\* the gaps in the logs the operator is told of.
LimitsOutliveCrashes == DailyLimitsHold /\ NewsCallsAreCounted /\ GapsAreToldOnce
================================================================================
