--------------------------------- MODULE MCDay ---------------------------------
(* ColonyDay for TLC: one node, two biomes, missions of one and two units, two  *)
(* of one id that an issuer has for itself and two that issuers may bring at a   *)
(* time; three sets of ants to ask for; two signals and a refused one under      *)
(* three exit chains; series of five and eight bars.                             *)
EXTENDS ColonyDay

CONSTANTS m1, m2, m3, m4, m5, crypto, equities, n1, paper

MCParts == {"queen", "callers", "boot", "service", "loop", "lab", "scout", "reset"}
MCCallers == {"callers"}

MCPermits   == {[biomes |-> B, antTypes |-> {paper}] : B \in {Biomes, {crypto}}}
MCPlans     == {{<<crypto, 1>>, <<equities, 1>>}, {<<equities, 2>>}}
MCIdOf      == [m \in Missions |-> CASE m = m3 -> m1 [] m = m5 -> m4 [] OTHER -> m]
MCCapitalOf == [m \in Missions |-> IF m = m2 THEN 2 ELSE 1]
MCBiomeOf   == [m \in Missions |-> IF m = m2 THEN equities ELSE crypto]
MCAntTypeOf == [m \in Missions |-> paper]
MCHomeOf    == [m \in Missions |-> n1]

\* What two issuers that race need: missions of one unit, each with an id of its own.
MCOnePermit == {[biomes |-> Biomes, antTypes |-> {paper}]}
MCOneBiome  == [m \in Missions |-> crypto]
MCUnits     == [m \in Missions |-> 1]
MCOwnId     == [m \in Missions |-> m]

MCOptIns == {{}, {"execution"}, {"execution", "time_filter", "equities", "news", "watchtower"}}

MCOffers ==
  {[side |-> "long", entry |-> 100, stop |-> 95, target |-> 110, suggested |-> 2, refused |-> no]
     : no \in BOOLEAN}
  \cup {[side |-> "short", entry |-> 105, stop |-> 112, target |-> 96, suggested |-> 1, refused |-> FALSE]}

\* The chains of the simulator, the one position.py recommends, and that of the PaperAnt.
MCChains ==
  {<<"stop_loss", "take_profit", "ttl", "drawdown">>,
   <<"daily_loss", "drawdown", "stop_loss", "ttl", "take_profit">>,
   <<"stop_loss", "take_profit", "ttl">>}

\* All of five bars, and of eight those that begin with four quiet ones.
MCSeries ==
  [1 .. 5 -> {0, 95, 100, 106}]
    \cup {[k \in 1 .. 8 |-> IF k < 5 THEN 100 ELSE s[k - 4]] : s \in [1 .. 4 -> {0, 94, 97, 100, 106}]}
MCSetups ==
  {[direction |-> d, target |-> 5, stop |-> 3, hold |-> 3, type |-> t] :
     d \in {"long", "short"},
     t \in {"every", "sma_crossover", "rsi_based", "bollinger_bands", "momentum", "mean_reversion", "hybrid"}}

\* Quiet candles, and cheaper ones with more volume.
MCOpenings == {<<100, 1>>, <<94, 3>>}
MCSessions == <<TRUE, FALSE>>
================================================================================
