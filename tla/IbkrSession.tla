------------------------------ MODULE IbkrSession ------------------------------
(***************************************************************************)
(* The session with the broker's gateway the ants on equities share        *)
(* (IBKRAdapter, ant_colony/biome/adapters/ibkr_adapter.py).  The adapter  *)
(* is registered once it is connected (scripts/start_colony.py:1677).      *)
(* An ant asks whether it is available once a tick, and then for candles   *)
(* of many symbols, by threads of its own; a lock lets one request at a    *)
(* time through, who waits too long for it goes to Yahoo, as does who      *)
(* finds the session gone.  One thread at a time reconnects, and only a    *)
(* request for candles starts it.                                          *)
(***************************************************************************)
EXTENDS Integers, FiniteSets

CONSTANTS
  Clients,       \* threads of ants that ask for candles
  Tickers,       \* what they ask them for
  MaxAttempts,   \* _RECONNECT_MAX_ATTEMPTS
  MaxLosses,     \* bounds how often the session is lost
  NoOne

ASSUME SessionAssumption ==
  MaxAttempts \in Nat \ {0} /\ NoOne \notin Clients \cup {"reconnect"} /\ "reconnect" \notin Clients

VARIABLES
  session,      \* _ib: "none", "up", or an object that is not connected any more
  available,    \* _ibkr_available
  lastError,    \* _last_connect_error: "none", "lost", "refused" or "other"
  slow,         \* _timeout_symbols
  thread,       \* _reconnect_thread: "none", "trying", or "ending": alive, but done
  attempts,     \* attempts it has left
  ibLock,       \* who holds _ib_lock
  clientPc, ticker,   \* where a client is, and what it asks for
  losses,
  causes        \* history: why nobody may be taking up the session, since a thread last began to

reconnectVars == <<thread, attempts, causes>>
ibVars == <<session, available, lastError, slow, reconnectVars, ibLock, clientPc, ticker, losses>>

IbInit ==
  /\ session = "up" /\ available = TRUE /\ lastError = "none" /\ slow = {}
  /\ thread = "none" /\ attempts = 0 /\ ibLock = NoOne /\ losses = 0 /\ causes = {}
  /\ clientPc = [c \in Clients |-> "idle"]
  /\ ticker = [c \in Clients |-> NoOne]

IbGoto(c, pc) == clientPc' = [clientPc EXCEPT ![c] = pc]

\* A client is done with a symbol, by the gateway's candles or Yahoo's, and has others.
Served(c) == IbGoto(c, "call") /\ ticker' = [ticker EXCEPT ![c] = NoOne]

\* The socket closes.
LoseSession ==
  /\ session = "up" /\ losses < MaxLosses /\ losses' = losses + 1
  /\ session' = "down"
  /\ causes' = IF \E c \in Clients : clientPc[c] = "request" THEN causes ELSE causes \cup {"unseen"}
  /\ UNCHANGED <<available, lastError, slow, thread, attempts, ibLock, clientPc, ticker>>

\* A tick begins with is_available, and where it is not, is skipped; else its threads set
\* out on the one answer.
AskAvailable ==
  /\ session = "up"
  /\ \E cs \in SUBSET {c \in Clients : clientPc[c] = "idle"} :
       /\ cs # {}
       /\ clientPc' = [c \in Clients |-> IF c \in cs THEN "call" ELSE clientPc[c]]
  /\ UNCHANGED <<session, available, lastError, slow, reconnectVars, ibLock, ticker, losses>>

\* A thread has had all its symbols.
TickOver(c) ==
  /\ clientPc[c] = "call" /\ IbGoto(c, "idle")
  /\ UNCHANGED <<session, available, lastError, slow, reconnectVars, ibLock, ticker, losses>>

\* _start_reconnect_loop: none is started beside one that is alive, be it done.
StartReconnect ==
  IF thread = "none"
    THEN thread' = "trying" /\ attempts' = MaxAttempts /\ causes' = {}
    ELSE /\ UNCHANGED <<thread, attempts>>
         /\ causes' = IF thread = "ending" THEN causes \cup {"ending"} ELSE causes

\* get_candles, before the lock.
CallCandles(c) ==
  /\ clientPc[c] = "call"
  /\ \E t \in Tickers :
       IF available /\ t \notin slow
         THEN IbGoto(c, "lock") /\ ticker' = [ticker EXCEPT ![c] = t] /\ UNCHANGED reconnectVars
         ELSE /\ Served(c)
              /\ IF available THEN UNCHANGED reconnectVars ELSE StartReconnect
  /\ UNCHANGED <<session, available, lastError, slow, ibLock, losses>>

\* The lock is taken, or not in time: then the candles come from Yahoo.
TakeLock(c) ==
  /\ clientPc[c] = "lock"
  /\ IF ibLock = NoOne
       THEN ibLock' = c /\ IbGoto(c, "ensure") /\ UNCHANGED ticker
       ELSE Served(c) /\ UNCHANGED ibLock
  /\ UNCHANGED <<session, available, lastError, slow, reconnectVars, losses>>

\* _ensure_connected: a session found lost is let go of; its own error is none of those
\* that start the thread, but one an attempt left behind may be.
EnsureConnected(c) ==
  /\ clientPc[c] = "ensure"
  /\ IF session = "up"
       THEN /\ available' = TRUE /\ IbGoto(c, "request")
            /\ UNCHANGED <<session, lastError, reconnectVars, ibLock, ticker>>
       ELSE /\ session' = "none" /\ available' = FALSE
            /\ lastError' = IF session = "down" THEN "lost" ELSE lastError
            /\ IF lastError' = "refused" THEN StartReconnect ELSE UNCHANGED reconnectVars
            /\ ibLock' = NoOne /\ Served(c)
  /\ UNCHANGED <<slow, losses>>

\* Mutant: a session lost in a request is not taken up.
RequestFails_Unnoticed(c) ==
  /\ clientPc[c] = "request" /\ session = "down"
  /\ \/ session' = "none" /\ available' = FALSE /\ UNCHANGED <<slow, reconnectVars>>
     \/ /\ causes' = causes \cup {"unnamed"} /\ slow' \in {slow, slow \cup {ticker[c]}}
        /\ UNCHANGED <<session, available, thread, attempts>>
  /\ ibLock' = NoOne /\ Served(c)
  /\ UNCHANGED <<lastError, losses>>

\* reqHistoricalData raises: for what is known as a lost connection the thread is
\* started; another error leaves the session as it is (_is_connection_lost_error), and one
\* that came late is held against the symbol.
RequestFails(c) ==
  /\ clientPc[c] = "request" /\ session = "down"
  /\ \/ session' = "none" /\ available' = FALSE /\ StartReconnect /\ UNCHANGED slow
     \/ /\ causes' = causes \cup {"unnamed"} /\ slow' \in {slow, slow \cup {ticker[c]}}
        /\ UNCHANGED <<session, available, thread, attempts>>
  /\ ibLock' = NoOne /\ Served(c)
  /\ UNCHANGED <<lastError, losses>>

\* It answers, or refuses, or takes too long: then the symbol is Yahoo's until the next
\* session.
RequestEnds(c) ==
  /\ clientPc[c] = "request" /\ session = "up"
  /\ slow' \in {slow, slow \cup {ticker[c]}}
  /\ ibLock' = NoOne /\ Served(c)
  /\ UNCHANGED <<session, available, lastError, reconnectVars, losses>>

\* _reconnect_loop and connect, which waits for the lock and holds it.
Reconnect ==
  /\ thread = "trying" /\ ibLock = NoOne
  /\ ibLock' = "reconnect"
  /\ UNCHANGED <<session, available, lastError, slow, reconnectVars, clientPc, ticker, losses>>

\* It lets go of the lock.  The thread outlives its work: it has yet to return, or to sleep
\* off its last attempt.
Reconnected ==
  /\ ibLock = "reconnect"
  /\ ibLock' = NoOne
  /\ \/ /\ session' = "up" /\ available' = TRUE /\ lastError' = "none"
        /\ thread' = "ending" /\ slow' = IF session = "up" THEN slow ELSE {}
        /\ causes' = {} /\ UNCHANGED attempts
     \/ /\ session # "up" /\ session' = "none" /\ available' = FALSE
        /\ lastError' \in {"refused", "other"} /\ attempts' = attempts - 1
        /\ IF attempts = 1
             THEN thread' = "ending" /\ causes' = causes \cup {"gave up"}
             ELSE UNCHANGED <<thread, causes>>
        /\ UNCHANGED slow
  /\ UNCHANGED <<clientPc, ticker, losses>>

ThreadEnds ==
  /\ thread = "ending" /\ thread' = "none" /\ attempts' = 0
  /\ UNCHANGED <<session, available, lastError, slow, ibLock, clientPc, ticker, losses, causes>>

IbStep ==
  \/ LoseSession \/ AskAvailable \/ Reconnect \/ Reconnected \/ ThreadEnds
  \/ \E c \in Clients : TickOver(c) \/ CallCandles(c) \/ TakeLock(c) \/ EnsureConnected(c)
                        \/ RequestFails(c) \/ RequestEnds(c)

IbSpec == IbInit /\ [][IbStep]_ibVars

\* A session that is gone, with every ant between two ticks, is being taken up again,
\* unless it was lost while no request was under way, or by an error the adapter does
\* not know, or when the thread that had brought it up was done and had not yet ended, or
\* ten attempts have failed.  In those four cases no ant will ask for candles, so nothing
\* starts the thread, and no tick comes through until the colony is restarted, although
\* callers are said to go on by Yahoo meanwhile (_reconnect_loop).
StallHasACause ==
  session # "up" /\ thread # "trying" /\ (\A c \in Clients : clientPc[c] = "idle") => causes # {}
================================================================================
