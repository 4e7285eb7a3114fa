------------------------------- MODULE AuditTrail -------------------------------
(***************************************************************************)
(* The numbers the Queen gives to the lines of her logs                    *)
(* (Queen._next_sequence, ant_colony/queen/queen.py:887) and AuditAnt      *)
(* (ant_colony/ants/audit_ant.py), which looks for gaps in them.  One      *)
(* counter, without a lock, serves every log, and starts at zero again     *)
(* with the process: a log of its own has gaps although no line is missing.*)
(***************************************************************************)
EXTENDS Integers, Sequences, FiniteSets

CONSTANTS
  AuditLogs,     \* logs the Queen writes
  MaxSequence, MaxAuditLives, MaxUnkept   \* bounds: numbers, processes, failed writes of the gaps

ASSUME AuditAssumption == MaxSequence \in Nat /\ MaxAuditLives \in Nat

VARIABLES
  logSequence,   \* _log_sequence
  numbers,       \* the numbers in each log
  auditLives,    \* processes so far
  toScan,        \* logs the tick has not read yet
  gaps,          \* _reported_gaps
  gapsFile,      \* audit_state/reported_gaps.json
  toTell,        \* findings of this tick, not written yet
  told,          \* the gaps in the findings of all lives
  unkept         \* history: how often the file lost or refused gaps

auditVars ==
  <<logSequence, numbers, auditLives, toScan, gaps, gapsFile, toTell, told, unkept>>

AuditInit ==
  /\ logSequence = 0 /\ numbers = [f \in AuditLogs |-> {}] /\ auditLives = 1
  /\ toScan = {} /\ gaps = {} /\ gapsFile = {} /\ toTell = {} /\ told = <<>> /\ unkept = 0

\* _next_sequence and _append_to_log; of two threads at once, both may get one number.
LogEvent ==
  /\ \E f \in AuditLogs, n \in {logSequence, logSequence + 1} \ {0} :
       /\ n <= MaxSequence
       /\ numbers' = [numbers EXCEPT ![f] = @ \cup {n}] /\ logSequence' = n
  /\ UNCHANGED <<auditLives, toScan, gaps, gapsFile, toTell, told, unkept>>

\* _find_sequence_gaps: neighbours among a log's numbers that do not follow.
GapsOf(f) ==
  {<<f, pair[1], pair[2]>> : pair \in {p \in numbers[f] \X numbers[f] :
     p[2] > p[1] + 1 /\ \A n \in numbers[f] : ~(p[1] < n /\ n < p[2])}}

\* _check_audit_trail_integrity begins.
AuditTick ==
  /\ toScan = {} /\ toTell = {}
  /\ toScan' = AuditLogs
  /\ UNCHANGED <<logSequence, numbers, auditLives, gaps, gapsFile, toTell, told, unkept>>

\* A log is read, unless nothing was written to it for a day; what is new is noted
\* and kept in the file at once, if the disk takes it.
ScanLog ==
  /\ \E f \in toScan :
       LET new == GapsOf(f) \ gaps IN
         /\ toScan' = toScan \ {f}
         /\ \/ UNCHANGED <<gaps, gapsFile, toTell, unkept>>
            \/ /\ new # {} /\ gaps' = gaps \cup new /\ toTell' = toTell \cup new
               /\ \/ gapsFile' = gaps \cup new /\ UNCHANGED unkept
                  \/ gapsFile' \in {gapsFile, {}} /\ unkept < MaxUnkept /\ unkept' = unkept + 1
  /\ UNCHANGED <<logSequence, numbers, auditLives, told>>

\* _emit, for each finding, when every log is read.
EmitFinding ==
  /\ toScan = {}
  /\ \E g \in toTell :
       told' = Append(told, g) /\ toTell' = toTell \ {g}
  /\ UNCHANGED <<logSequence, numbers, auditLives, toScan, gaps, gapsFile, unkept>>

\* Mutant: the file is not read back.
AuditRestart_Forgets ==
  /\ auditLives < MaxAuditLives /\ auditLives' = auditLives + 1
  /\ logSequence' = 0 /\ toScan' = {} /\ toTell' = {}
  /\ gaps' = {}
  /\ UNCHANGED <<numbers, gapsFile, told, unkept>>

\* The process dies, with what was found and not told; the numbers start again, and
\* the ant reads back what is in its file (_load_reported_gaps).
AuditRestart ==
  /\ auditLives < MaxAuditLives /\ auditLives' = auditLives + 1
  /\ logSequence' = 0 /\ toScan' = {} /\ toTell' = {}
  /\ gaps' = gapsFile
  /\ UNCHANGED <<numbers, gapsFile, told, unkept>>

AuditStep == LogEvent \/ AuditTick \/ ScanLog \/ EmitFinding \/ AuditRestart

\* No gap is told again in a later life, but as often as the file of gaps lost some
\* of them: each is in the file before it is told.
GapsAreToldOnce ==
  \A n \in DOMAIN told : Cardinality({m \in DOMAIN told : told[m] = told[n]}) <= 1 + unkept
================================================================================
