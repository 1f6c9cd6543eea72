----------------------------- MODULE RunRecords -----------------------------
(***************************************************************************)
(* What a run leaves in its files as its sessions come and go: the event   *)
(* log, the task ledger projected from it (state/task_ledger.py,           *)
(* orchestrator/record.py, replay.py) and the series records collected     *)
(* from the sessions' outbox (series/collect.py). One orchestrator writes  *)
(* all of them; it can be killed between any two steps and inside a write, *)
(* and a write that raises ends it the same way: its close flushes what    *)
(* the write buffered.                                                     *)
(*                                                                         *)
(* Two kinds of event-log line matter here: one that implies a ledger line *)
(* and one that ends a session and lists its records. Sessions are         *)
(* numbered, and a session that outlives its orchestrator goes on writing. *)
(***************************************************************************)
EXTENDS Naturals, Sequences, FiniteSets

CONSTANTS
  Line,         \* what a ledger line can say
  Junk,         \* a line that a cut line spoilt
  Record,       \* record ids
  PerSession,   \* how many records a session may leave (MAX_RECORDS_PER_SESSION)
  MaxLines,     \* bound: event-log lines that imply a ledger line
  MaxSessions   \* bound: sessions

ASSUME RecordsAssumption ==
  Junk \notin Line /\ PerSession \in Nat /\ MaxLines \in Nat /\ MaxSessions \in Nat

VARIABLES
  doing,        \* the orchestrator's step
  implied,   \* the event log: the ledger lines its lines imply, in order
  ends,      \* the event log: the sessions ended, with the records listed
  logTorn,   \* whether a line cut short follows the event log's lines
  ledger,    \* ledger.jsonl
  ledTorn,
  n,         \* the sessions begun; the newest is session n
  alive,     \* whether session n runs
  outbox,    \* the worktree's outbox: the files that sessions wrote
  setAside,     \* the files that were refused or discarded
  sealed,    \* the run's sealed files, each in its session's directory
  batch,     \* the outbox as listed, less what was dealt with
  hand,      \* the files being sealed: at most one
  taken,     \* the ids this collection sealed
  written    \* history: every file a session made

eventLog == <<implied, ends, logTorn>>
led == <<ledger, ledTorn>>
boxes == <<outbox, setAside, sealed>>
collection == <<batch, hand, taken>>
recordsVars == <<doing, eventLog, led, n, alive, boxes, collection, written>>

IsStart(s, t) == Len(s) <= Len(t) /\ \A k \in 1 .. Len(s) : s[k] = t[k]

\* A file as its maker knows it, whatever became of its bytes.
Made(f) == [id |-> f.id, by |-> f.by]

RecordsInit ==
  /\ doing = "down" /\ implied = <<>> /\ ends = <<>> /\ logTorn = FALSE
  /\ ledger = <<>> /\ ledTorn = FALSE
  /\ n = 0 /\ alive = FALSE /\ outbox = {} /\ setAside = {} /\ sealed = {}
  /\ batch = {} /\ hand = {} /\ taken = {} /\ written = {}

-----------------------------------------------------------------------------
(* The event log and the ledger.                                           *)

\* Mutant: a line cut short is left where it is.
TailLeft(torn) == torn

\* Opening cuts a line cut short.
TailCut(torn) == FALSE

\* The record is opened: both torn tails are cut, the log is replayed, and the
\* ledger must be the start of what it implies.
Open ==
  /\ doing = "down"
  /\ IsStart(ledger, implied)
  /\ logTorn' = TailCut(logTorn) /\ ledTorn' = TailCut(ledTorn)
  /\ doing' = "project"
  /\ UNCHANGED <<implied, ends, ledger, n, alive, boxes, collection, written>>

\* What a line appended after a cut one becomes.
Landed(torn, line) == IF torn THEN Junk ELSE line

\* One line that the log implies and the ledger lacks is appended, synced.
Project ==
  /\ doing = "project" /\ Len(ledger) < Len(implied)
  /\ ledger' = Append(ledger, Landed(ledTorn, implied[Len(ledger) + 1])) /\ ledTorn' = FALSE
  /\ UNCHANGED <<doing, eventLog, n, alive, boxes, collection, written>>

\* The ledger is up to the log. A session that a killed orchestrator left running
\* is stopped before the loop goes on.
Projected ==
  /\ doing = "project" /\ Len(ledger) = Len(implied)
  /\ doing' = "idle" /\ alive' = FALSE
  /\ UNCHANGED <<eventLog, led, n, boxes, collection, written>>

\* A line that implies a ledger line is in the log, synced, before the ledger is
\* brought up to it.
EmitLine(line) ==
  /\ doing = "idle" /\ Len(implied) < MaxLines
  /\ implied' = Append(implied, Landed(logTorn, line)) /\ logTorn' = FALSE
  /\ doing' = "project"
  /\ UNCHANGED <<ends, led, n, alive, boxes, collection, written>>

-----------------------------------------------------------------------------
(* A session and its outbox.                                               *)

\* Whatever the outbox holds is moved aside before the session starts, so that
\* every record it leaves is its own.
BeginSession ==
  /\ doing = "idle" /\ n < MaxSessions
  /\ n' = n + 1 /\ batch' = outbox /\ taken' = {}
  /\ doing' = "emptying"
  /\ UNCHANGED <<eventLog, led, alive, boxes, hand, written>>

MoveAside(f) == outbox' = outbox \ {f} /\ setAside' = setAside \cup {Made(f)}

DiscardEarlier(f) ==
  /\ doing = "emptying" /\ f \in batch
  /\ MoveAside(f) /\ batch' = batch \ {f}
  /\ UNCHANGED <<doing, eventLog, led, n, alive, sealed, hand, taken, written>>

\* Mutant: a session starts on an outbox that still holds something.
StartsAnyway == doing = "emptying"

Emptied == doing = "emptying" /\ batch = {}

StartSession ==
  /\ Emptied
  /\ doing' = "session" /\ alive' = TRUE /\ batch' = {}
  /\ UNCHANGED <<eventLog, led, n, boxes, hand, taken, written>>

\* A record's file is made new, empty, in the outbox, and then written.
MakeFile(r) ==
  /\ alive /\ ~\E f \in outbox : f.id = r
  /\ outbox' = outbox \cup {[id |-> r, by |-> n, whole |-> FALSE]}
  /\ written' = written \cup {[id |-> r, by |-> n]}
  /\ UNCHANGED <<doing, eventLog, led, n, alive, setAside, sealed, collection>>

WriteFile(f) ==
  /\ alive /\ f \in outbox /\ f.by = n /\ ~f.whole
  /\ outbox' = (outbox \ {f}) \cup {[f EXCEPT !.whole = TRUE]}
  /\ UNCHANGED <<doing, eventLog, led, n, alive, setAside, sealed, collection, written>>

\* The session has ended and nothing of it runs; its outbox is listed.
EndOfSession ==
  /\ doing = "session"
  /\ alive' = FALSE /\ batch' = outbox /\ doing' = "collect"
  /\ UNCHANGED <<eventLog, led, n, boxes, hand, taken, written>>

\* A file that holds is next to be sealed, within the session's bound.
Holds(f) == f.whole /\ Cardinality(taken) < PerSession

TakeFile(f) ==
  /\ doing = "collect" /\ hand = {} /\ f \in batch /\ Holds(f)
  /\ batch' = batch \ {f} /\ hand' = {f}
  /\ UNCHANGED <<doing, eventLog, led, n, alive, boxes, taken, written>>

\* One that does not, or whose code is not what the attempt commits, is refused.
RefuseFile(f) ==
  /\ doing = "collect" /\ hand = {} /\ f \in batch
  /\ MoveAside(f) /\ batch' = batch \ {f}
  /\ UNCHANGED <<doing, eventLog, led, n, alive, sealed, hand, taken, written>>

Copy(f, whole) == [id |-> f.id, by |-> f.by, at |-> n, whole |-> whole]

\* It is copied: a new file, then its bytes, synced.
SealPart ==
  /\ doing = "collect"
  /\ \E f \in hand : Copy(f, TRUE) \notin sealed /\ sealed' = sealed \cup {Copy(f, FALSE)}
  /\ UNCHANGED <<doing, eventLog, led, n, alive, outbox, setAside, collection, written>>

SealWhole ==
  /\ doing = "collect"
  /\ \E f \in hand : /\ Copy(f, FALSE) \in sealed
                     /\ sealed' = (sealed \ {Copy(f, FALSE)}) \cup {Copy(f, TRUE)}
  /\ UNCHANGED <<doing, eventLog, led, n, alive, outbox, setAside, collection, written>>

\* Mutant: the outbox's file goes as soon as the copy is there to be written.
CopyBegun(f) == Copy(f, FALSE) \in sealed \/ Copy(f, TRUE) \in sealed

CopyWhole(f) == Copy(f, TRUE) \in sealed

\* Only then is the outbox's file removed, and the record among those listed.
Unlink ==
  /\ doing = "collect"
  /\ \E f \in hand : CopyWhole(f) /\ outbox' = outbox \ {f} /\ taken' = taken \cup {f.id}
  /\ hand' = {}
  /\ UNCHANGED <<doing, eventLog, led, n, alive, setAside, sealed, batch, written>>

\* The session's end, with its records, is in the log.
EmitEnd ==
  /\ doing = "collect" /\ batch = {} /\ hand = {}
  /\ ends' = Append(ends, [session |-> n, records |-> taken]) /\ logTorn' = FALSE
  /\ doing' = "project"
  /\ UNCHANGED <<implied, led, n, alive, boxes, collection, written>>

-----------------------------------------------------------------------------
\* The orchestrator ends anywhere. A line it was writing may be cut short, one of
\* a kind that is not modelled too; one that was complete is the action that
\* writes it, and an end after it.
Die ==
  /\ doing # "down"
  /\ logTorn' \in IF doing = "project" THEN {logTorn} ELSE {logTorn, TRUE}
  /\ ledTorn' \in IF doing = "project" /\ Len(ledger) < Len(implied) THEN {ledTorn, TRUE} ELSE {ledTorn}
  /\ doing' = "down" /\ batch' = {} /\ hand' = {} /\ taken' = {}
  /\ UNCHANGED <<implied, ends, ledger, n, alive, boxes, written>>

Orchestrator ==
  \/ Open \/ Project \/ Projected \/ \E line \in Line : EmitLine(line)
  \/ BeginSession \/ StartSession \/ EndOfSession
  \/ \E f \in batch : DiscardEarlier(f) \/ TakeFile(f) \/ RefuseFile(f)
  \/ SealPart \/ SealWhole \/ Unlink \/ EmitEnd

SessionWrites ==
  \/ \E r \in Record : MakeFile(r)
  \/ \E f \in outbox : WriteFile(f)

RecordsNext == Orchestrator \/ SessionWrites \/ Die

RecordsSpec == RecordsInit /\ [][RecordsNext]_recordsVars

-----------------------------------------------------------------------------
Number == 0 .. MaxSessions
File == [id : Record, by : Number, whole : BOOLEAN]

\* Every variable keeps its type.
RecordsTypeOK ==
  /\ doing \in {"down", "project", "idle", "emptying", "session", "collect"}
  /\ implied \in Seq(Line) /\ Len(implied) <= MaxLines
  /\ ends \in Seq([session : Number, records : SUBSET Record]) /\ logTorn \in BOOLEAN
  /\ ledger \in Seq(Line \cup {Junk}) /\ ledTorn \in BOOLEAN
  /\ n \in Number /\ alive \in BOOLEAN
  /\ outbox \subseteq File /\ batch \subseteq File /\ hand \subseteq File
  /\ setAside \subseteq [id : Record, by : Number] /\ written \subseteq [id : Record, by : Number]
  /\ sealed \subseteq [id : Record, by : Number, at : Number, whole : BOOLEAN]
  /\ taken \subseteq Record

\* The ledger is never ahead of the event log and never other than it: whatever
\* write a kill cut short, it is the start of what the log implies, so the next
\* opening is not refused, and it is all of it whenever the loop goes on
\* (require_projection).
LedgerFollows ==
  /\ IsStart(ledger, implied)
  /\ doing \notin {"down", "project"} => ledger = implied

\* No record is lost: each one a session made is still in the outbox, was set
\* aside, or is sealed whole, wherever a kill fell between the copy and the removal.
Conserved ==
  \A w \in written :
    \/ w \in setAside
    \/ \E f \in outbox : Made(f) = w
    \/ \E c \in sealed : Made(c) = w /\ c.whole

\* A record that a session's end lists is sealed whole, and is that session's own.
ListedSealed ==
  \A k \in DOMAIN ends : \A r \in ends[k].records :
    [id |-> r, by |-> ends[k].session, at |-> ends[k].session, whole |-> TRUE] \in sealed
=============================================================================
