------------------------------ MODULE MCParts ------------------------------
(***************************************************************************)
(* Small instances of the parts that share no file and no variable with    *)
(* one another: the approval queue, the dispatcher's sessions, the hook    *)
(* layer's sentinel, a run's log, ledger and series records, the survivor  *)
(* reaper, and the desktop shell. A behaviour is of one part, chosen at    *)
(* the start, and the others stay as they begin; so the states of the run  *)
(* are those of the parts side by side, not their product.                 *)
(*                                                                         *)
(* The parts share model values for the same reason: what one permutes has *)
(* nothing to do with what another does.                                   *)
(***************************************************************************)
EXTENDS ApprovalQueue, Sessions, Sentinel, RunRecords, Reaper, DesktopShell, TLC

VARIABLE part   \* the part that this behaviour is of

partsVars == <<queueVars, sessionsVars, sentinelVars, recordsVars, reaperVars, shellVars, part>>

PartsInit ==
  /\ part \in {"queue", "sessions", "sentinel", "records", "reaper", "shell"}
  /\ QueueInit /\ SessionsInit /\ SentinelInit /\ RecordsInit /\ ReaperInit
  /\ ShellInit

QueueSteps ==
  /\ part = "queue" /\ QueueNext
  /\ UNCHANGED <<part, sessionsVars, sentinelVars, recordsVars, reaperVars, shellVars>>

SessionsSteps ==
  /\ part = "sessions" /\ SessionsNext
  /\ UNCHANGED <<part, queueVars, sentinelVars, recordsVars, reaperVars, shellVars>>

SentinelSteps ==
  /\ part = "sentinel" /\ SentinelNext
  /\ UNCHANGED <<part, queueVars, sessionsVars, recordsVars, reaperVars, shellVars>>

RecordsSteps ==
  /\ part = "records" /\ RecordsNext
  /\ UNCHANGED <<part, queueVars, sessionsVars, sentinelVars, reaperVars, shellVars>>

ReaperSteps ==
  /\ part = "reaper" /\ ReaperNext
  /\ UNCHANGED <<part, queueVars, sessionsVars, sentinelVars, recordsVars, shellVars>>

DesktopSteps ==
  /\ part = "shell" /\ ShellNext
  /\ UNCHANGED <<part, queueVars, sessionsVars, sentinelVars, recordsVars, reaperVars>>

PartsNext ==
  QueueSteps \/ SessionsSteps \/ SentinelSteps \/ RecordsSteps \/ ReaperSteps \/ DesktopSteps

PartsSpec == PartsInit /\ [][PartsNext]_partsVars

\* The two kinds of model values that the parts treat alike.
Alike == Permutations(Item) \cup Permutations(Decider)

-----------------------------------------------------------------------------
\* Every variable of every part keeps its type.
PartsTypeOK ==
  /\ QueueTypeOK /\ SessionsTypeOK /\ SentinelTypeOK
  /\ RecordsTypeOK /\ ReaperTypeOK /\ ShellTypeOK
=============================================================================
