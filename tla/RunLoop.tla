------------------------------- MODULE RunLoop -------------------------------
(***************************************************************************)
(* One run of the orchestrator (orchestrator/loop.py) over its event log   *)
(* (orchestrator/replay.py). The log is the run's only memory: the         *)
(* variables sub .. cleaned are what replaying it gives, and change only   *)
(* by a line the replay accepts. The loop performs an outside effect (a    *)
(* store write, a git merge, a queue item) and records it in two steps, so *)
(* a kill can land between any two lines and between a line and an effect. *)
(* A line the replay refuses raises in the process that tried to write it. *)
(*                                                                         *)
(* Subtasks are numbered in plan order. A subtask keeps the record of its  *)
(* newest attempt; of earlier ones it keeps what the code still reads.     *)
(***************************************************************************)
EXTENDS Integers, Sequences, FiniteSets

CONSTANTS
  N,            \* planned subtasks
  Budget,       \* REPAIR_BUDGET
  Retries,      \* the length of the infrastructure retry schedule
  Proposals,    \* node proposals of every attempt
  GateMode,     \* "on", "observe" or "off"
  Acts,         \* whether the run acts on queue decisions
  Ends,         \* how sessions may end: "read", "unread", "infra", "refused"
  Verdicts,     \* what reviews may say: "pass", "fail", "gaming", "blocked"
  Unavailable,  \* whether a review may reach no verdict
  Shows,        \* whether a session's end may show an incident
  Diverges,     \* whether the diff after a merge may find a cross-role write
  Foreign,      \* whether something else may append a journal line
  Conflicts,    \* whether a merge may not apply cleanly
  Removes,      \* whether the operator may take a planned subtask out
  MaxKills, MaxInfra  \* bounds: kills, sessions ended by infrastructure

Subtask == 1..N

ASSUME LoopAssumption ==
  /\ N \in Nat \ {0} /\ Budget \in Nat \ {0} /\ Retries \in Nat
  /\ Proposals \in Nat /\ GateMode \in {"on", "observe", "off"}
  /\ {Acts, Unavailable, Shows, Diverges, Foreign, Conflicts, Removes} \subseteq BOOLEAN
  /\ Ends \subseteq {"read", "unread", "infra", "refused"}
  /\ Verdicts \subseteq {"pass", "fail", "gaming", "blocked"}
  /\ MaxKills \in Nat /\ MaxInfra \in Nat

VARIABLES
  \* replayed from the log
  sub,          \* each subtask's state
  att,          \* each subtask's newest attempt, n = 0 before the first
  ledger,       \* each subtask's last task-ledger line
  halted,       \* "no", or why the run halted; only "infra" may be resumed
  integration,  \* "none", "off", "incomplete", "pass" or "fail"
  integEsc,     \* whether a blocking integration failure reached the queue
  head,         \* journal_head: the store lines the run accounts for
  recorded,     \* the length of the run branch at the last recorded merge
  taken,        \* the items whose decision was taken
  cleaned,      \* the subtasks whose worktree was cleaned
  \* outside the log
  journal,      \* the store's lines since the plan: writes, or not ours
  branch,       \* the commits merged into the run branch
  items,        \* the approval queue
  decisions,    \* the decisions file
  exposed,      \* subtasks with a session whose end showed an incident
  \* the process
  pc, why,
  known,        \* the journal's length as its store handle knows it, Shut with none open
  kills, failures

replayed == <<sub, att, ledger, halted, integration, integEsc, head, recorded,
              taken, cleaned>>
outside == <<journal, branch, items, decisions, exposed>>
rest == <<known, kills, failures>>
vars == <<replayed, outside, pc, why, rest>>

Shut == -1

Planned == [status |-> "planned", next |-> 1, item |-> 0, rounds |-> 0,
            fixNext |-> FALSE, fixUsed |-> FALSE, ending |-> "no",
            indicator |-> FALSE, unjudged |-> FALSE]

Fresh(n, fix) ==
  [n |-> n, cursor |-> "none", session |-> "none", retries |-> 0,
   changes |-> "none", gate |-> "none", review |-> "none", unavail |-> "none",
   rejected |-> FALSE, merged |-> FALSE, diff |-> "none", applied |-> 0,
   pending |-> FALSE, routed |-> "none", fix |-> fix, approved |-> FALSE,
   spent |-> FALSE, judged |-> FALSE]

NoResults == [gate |-> "none", review |-> "none", person |-> "none"]

Init ==
  /\ sub = [s \in Subtask |-> Planned] /\ att = [s \in Subtask |-> Fresh(0, FALSE)]
  /\ ledger = [s \in Subtask |-> NoResults]
  /\ halted = "no" /\ integration = "none" /\ integEsc = FALSE
  /\ head = 0 /\ recorded = 0 /\ taken = {} /\ cleaned = {}
  /\ journal = << >> /\ branch = << >> /\ items = {} /\ decisions = << >>
  /\ exposed = {} /\ pc = "down" /\ why = "no" /\ known = Shut /\ kills = 0 /\ failures = 0

-----------------------------------------------------------------------------
(* What the replayed state says (replay.py).                               *)

Ended(a) == a.rejected \/ a.review = "blocked" \/ a.unavail = "final"
Failed(a) == a.session \in {"infra", "refused"}
Completed(a) == a.session \in {"read", "unread"}

GateLets(a) == \/ a.gate \in {"skipped", "pass"}
               \/ a.gate = "fail" /\ GateMode = "observe"

Mergeable(a) == /\ a.review = "pass" \/ a.approved
                /\ ~a.merged /\ GateLets(a)

\* The stage whose outcome a decision is taken on.
DecidedFrom(a) ==
  CASE a.cursor # "decide" -> a.cursor
    [] a.cursor = "decide" /\ a.review # "none" -> "review"
    [] a.cursor = "decide" /\ a.review = "none" /\ a.gate # "none" -> "gate"
    [] OTHER -> IF a.changes # "none" THEN "implement" ELSE "verify_reading"

\* rejection_basis: something refuses the attempt at its stage.
Rejectable(a) ==
  /\ ~a.merged /\ ~(a.cursor = "decide" /\ a.rejected)
  /\ LET c == DecidedFrom(a) IN
     \/ c = "verify_reading" /\ a.session = "unread"
     \/ c = "implement" /\ a.changes = "refused"
     \/ c = "gate" /\ a.gate = "fail" /\ GateMode = "on"
     \/ c = "review" /\ a.review = "fail"

\* _enter: the stages that may follow where the attempt stands.
CanEnter(a, stage) ==
  /\ ~a.rejected \/ a.approved
  /\ \/ stage = "spawn" /\ a.cursor = "resolve"
     \/ stage = "verify_reading" /\ a.cursor = "spawn" /\ Completed(a)
     \/ stage = "implement" /\ a.cursor = "verify_reading" /\ a.session = "read"
     \/ stage = "gate" /\ a.cursor = "implement" /\ a.changes = "ok"
     \/ stage = "review" /\ a.cursor = "gate" /\ GateLets(a)
     \/ stage = "decide" /\ a.cursor # "decide" /\ (Rejectable(a) \/ Mergeable(a))
     \/ stage = "diff" /\ a.cursor = "decide" /\ a.merged

ResumePoint(a) == CASE a.merged -> "diff"
                    [] ~a.merged /\ Completed(a) -> "verify_reading"
                    [] OTHER -> "resolve"

\* Mutant: a restart also forgets what the attempt had written.
RestartedUnwritten(a, cursor) ==
  [a EXCEPT !.cursor = cursor, !.session = IF cursor = "spawn" THEN @ ELSE "none",
            !.changes = "none", !.gate = "none", !.review = "none", !.unavail = "none",
            !.applied = 0]

\* restart: forget what the attempt did after the stage it goes back to.
Restarted(a, cursor) ==
  [a EXCEPT !.cursor = cursor,
            !.session = IF cursor = "spawn" THEN @ ELSE "none",
            !.changes = "none", !.gate = "none", !.review = "none",
            !.unavail = "none"]

Unresolved(s) == sub[s].status \in {"planned", "active"}
IsCurrent(s) == Unresolved(s) /\ \A r \in 1 .. s - 1 : ~Unresolved(r)
NoneLeft == \A s \in Subtask : ~Unresolved(s)

\* next_step, for the first unresolved subtask.
Step(s) ==
  LET a == att[s] IN
  IF sub[s].status = "planned" THEN "resolve"
  ELSE IF sub[s].ending # "no" THEN "end"
  ELSE IF a.approved THEN IF a.merged THEN "diff" ELSE "merge"
  ELSE IF a.spent /\ sub[s].next # 0 THEN "resolve"
  ELSE IF Ended(a) THEN CASE a.routed = "none" -> "decide"
                          [] a.routed = "yes" -> "escalate"
                          [] OTHER -> "resolve"
  ELSE IF Failed(a) /\ sub[s].next = 0 THEN "infra"
  ELSE ResumePoint(a)

IntegrationBlocks == integration = "fail" /\ GateMode = "on"
IntegrationDue == integration = "none" \/ (IntegrationBlocks /\ ~integEsc)

\* Mutant: decisions are taken between subtasks, and not at the end of the run.
BetweenSubtasks == halted = "no" /\ \E s \in Subtask : IsCurrent(s) /\ Step(s) = "resolve"

AtABoundary == halted = "no" /\ (NoneLeft \/ \E s \in Subtask : IsCurrent(s) /\ Step(s) = "resolve")

Active(s) == sub[s].status = "active" /\ att[s].n # 0
FirstActive(s) == Active(s) /\ \A r \in 1 .. s - 1 : ~Active(r)

\* Mutant: an attempt that ended and was not yet decided counts as interrupted.
MidOrEnded(s) ==
  LET a == att[s] IN
  /\ Active(s) /\ a.cursor # "none" /\ sub[s].next = 0
  /\ ~Failed(a) /\ a.diff = "none"

\* interrupted: what a resume takes over.
MidAttempt(s) ==
  LET a == att[s] IN
  /\ Active(s) /\ a.cursor # "none" /\ sub[s].next = 0
  /\ ~Failed(a) /\ ~Ended(a) /\ a.diff = "none"
Interrupted(s) ==
  IF halted = "no" THEN MidAttempt(s) /\ \A r \in 1 .. s - 1 : ~MidAttempt(r)
  ELSE halted = "infra" /\ FirstActive(s)

-----------------------------------------------------------------------------
(* Lines. A line about an attempt is refused in a halted run, after the    *)
(* integration call, and unless its subtask has an attempt in progress.    *)

Raise == pc' = "raised" /\ UNCHANGED <<replayed, outside, why, rest>>

LineMayFollow == halted = "no" /\ integration = "none"

Emit(s, ok, Effect) ==
  IF LineMayFollow /\ Active(s) /\ ok THEN Effect ELSE Raise

\* The common case: a line that changes the attempt and nothing else replayed.
EmitAtt(s, ok, a, next) ==
  Emit(s, ok, /\ att' = [att EXCEPT ![s] = a] /\ pc' = next
              /\ UNCHANGED <<sub, ledger, halted, integration, integEsc, head,
                             recorded, taken, cleaned, outside, why, rest>>)

\* _ended: the fix a person ordered is routed by rule, never asked about.
Ending(s, a) ==
  /\ att' = [att EXCEPT ![s] =
               [a EXCEPT !.routed = IF a.fix /\ a.unavail = "final" THEN "yes" ELSE @]]
  /\ sub' = [sub EXCEPT ![s].ending = IF a.fix /\ a.unavail # "final" THEN "fix" ELSE @]

-----------------------------------------------------------------------------
(* A process takes the run over: leftovers stopped, the store's journal    *)
(* held to the log, the run branch held to its last recorded merge.        *)

\* Mutant: a spent infrastructure schedule is not resumed.
NotHalted == {"no"}

\* RESUMABLE_HALTS, and a run that is not halted.
Resumable == {"no", "infra"}

\* run refuses a run left mid-attempt; resume refuses one an incident halted.
Command(cmd) ==
  /\ pc \in {"down", "raised"}
  /\ \/ /\ cmd = "run" /\ halted = "no" /\ \A s \in Subtask : ~Interrupted(s)
        /\ pc' = "checkRun"
     \/ cmd = "run" /\ halted # "no" /\ pc' = "drive"
     \/ cmd = "resume" /\ halted \in Resumable /\ pc' = "checkResume"
  /\ known' = Shut
  /\ UNCHANGED <<replayed, outside, why, kills, failures>>

Checking == pc \in {"checkRun", "checkResume", "checkSession"}
Incident(cause) == /\ why' = cause
                   /\ pc' = IF pc \in {"checkRun", "checkResume", "checkBranch"}
                            THEN "haltingOpen" ELSE "halting"
                   /\ UNCHANGED <<replayed, outside, rest>>

\* A journal line: the k-th node of an attempt, or one the run did not write.
Write(s, k) == [s |-> s, n |-> att[s].n, k |-> k]
NotOurs == [s |-> 0, n |-> 0, k |-> 0]
Own(line) == line # NotOurs

\* Mutant: a pending intent accounts for whatever line comes next.
PendingOnly(s, line) == FirstActive(s) /\ att[s].pending

\* The line is the write the attempt in progress intended.
Intended(s, line) == /\ FirstActive(s) /\ att[s].pending
                     /\ line = Write(s, att[s].applied + 1)

\* _journal_clean, one line past the accounted head: the write that was
\* intended and landed is recorded, any other line is an incident.
CheckLine ==
  /\ Checking /\ Len(journal) > head
  /\ \/ \E s \in Subtask :
          /\ Intended(s, journal[head + 1])
          /\ IF LineMayFollow
             THEN /\ att' = [att EXCEPT ![s].applied = @ + 1, ![s].pending = FALSE]
                  /\ head' = head + 1
                  /\ UNCHANGED <<sub, ledger, halted, integration, integEsc, recorded,
                                 taken, cleaned, outside, pc, why, rest>>
             ELSE Raise
     \/ /\ \A s \in Subtask : ~Intended(s, journal[head + 1])
        /\ Incident("journal")

JournalHolds ==
  /\ Checking /\ Len(journal) = head
  /\ pc' = CASE pc = "checkRun" -> "holdRun" [] pc = "checkResume" -> "holdResume"
             [] pc = "checkSession" -> "holdSession"
  /\ UNCHANGED <<replayed, outside, why, rest>>

\* hold: the handle this process opens first is kept, so that a later line makes it
\* stale; a session stopped over its node files has the store reopened.
Hold(reopens) ==
  /\ pc \in {"holdRun", "holdResume", "holdSession"}
  /\ reopens => pc = "holdSession"
  /\ known' = IF reopens \/ known = Shut THEN Len(journal) ELSE known
  /\ pc' = CASE pc = "holdRun" -> "drive" [] pc = "holdResume" -> "checkBranch"
             [] pc = "holdSession" -> "judge"
  /\ UNCHANGED <<replayed, outside, why, kills, failures>>

Commit(s) == <<s, att[s].n>>

\* _run_branch_holds: the branch is where the run left it, or one merge of
\* exactly the pending commit past it.
BranchHolds(pending) ==
  \/ Len(branch) = recorded
  \/ Len(branch) = recorded + 1 /\ branch[Len(branch)] \in pending

\* The commit a killed process may have merged and not recorded.
PendingMerge ==
  IF \E s \in Subtask : Interrupted(s)
  THEN {Commit(s) : s \in {r \in Subtask : /\ Interrupted(r) /\ ~att[r].merged
                                           /\ att[r].changes # "none"}}
  ELSE {Commit(s) : s \in {r \in Subtask : /\ att[r].approved /\ ~att[r].merged
                                           /\ \A q \in 1 .. r - 1 : ~(att[q].approved /\ ~att[q].merged)}}

\* _resume: the attempt goes back to its checkpoint, and what was pending never ran.
Resumed(a) ==
  LET b == [a EXCEPT !.pending = FALSE, !.retries = IF halted = "no" THEN @ ELSE 0]
  IN CASE ResumePoint(a) = "resolve" -> Restarted(b, "none")
       [] ResumePoint(a) = "verify_reading" -> Restarted(b, "spawn")
       [] OTHER -> [b EXCEPT !.cursor = "decide", !.diff = "none"]

\* resume, once the journal is held to the log.
TakeOver ==
  /\ pc = "checkBranch"
  /\ \/ ~BranchHolds(PendingMerge) /\ Incident("branch")
     \/ /\ BranchHolds(PendingMerge) /\ \A s \in Subtask : ~Interrupted(s)
        /\ pc' = "drive" /\ UNCHANGED <<replayed, outside, why, rest>>
     \/ \E s \in Subtask :
          /\ BranchHolds(PendingMerge) /\ Interrupted(s)
          /\ IF integration = "none" /\ ~Ended(att[s])
             THEN /\ att' = [att EXCEPT ![s] = Resumed(@)]
                  /\ sub' = [sub EXCEPT ![s].next =
                               IF ResumePoint(att[s]) = "resolve" THEN att[s].n ELSE @]
                  /\ halted' = "no" /\ pc' = "drive"
                  /\ UNCHANGED <<ledger, integration, integEsc, head, recorded,
                                 taken, cleaned, outside, why, rest>>
             ELSE Raise

\* The incident line and then the halt: only the halt changes what comes next.
Halt ==
  /\ pc \in {"halting", "haltingOpen"}
  /\ halted' = why /\ why' = "no"
  /\ pc' = IF pc = "halting" THEN "drive" ELSE "down"
  /\ UNCHANGED <<sub, att, ledger, integration, integEsc, head, recorded, taken,
                 cleaned, outside, rest>>

-----------------------------------------------------------------------------
(* A person's decisions, taken where no attempt is in progress.            *)

Untaken == {i \in 1..Len(decisions) : decisions[i].item \notin taken}
Deciding == Acts /\ AtABoundary /\ Untaken # {}

\* A new step is driven when no decision is to be taken first.
Drives(s, step) == /\ pc = "drive" /\ halted = "no" /\ ~Deciding
                   /\ IsCurrent(s) /\ Step(s) = step

\* Mutant: a confirmed indicator does not stop an approve.
ApproveOverIndicator(s, scan) ==
  LET a == att[s] IN a.session = "read" /\ a.changes = "ok" /\ GateLets(a) /\ ~scan

\* An approve merges what every automated check let through, unless a review of any
\* attempt confirmed gaming or the scan found it.
ApproveMerges(s, scan) ==
  LET a == att[s]
  IN a.session = "read" /\ a.changes = "ok" /\ GateLets(a) /\ ~sub[s].indicator /\ ~scan

\* item_consequence: what approve and reject will do, from the record alone.
\* scan is what the scan finds in the streams no review judged.
Consequence(s, scan) ==
  LET a == att[s] IN
  [approve |-> IF ApproveMerges(s, scan) THEN "merge" ELSE "none",
   reject |-> CASE a.review = "blocked" -> "fix"
                [] a.review # "blocked" /\ (sub[s].fixUsed \/ a.n >= Budget) -> "end"
                [] OTHER -> IF a.unavail = "final" THEN "retry" ELSE "end"]

RecordOnly == [approve |-> "none", reject |-> "none"]

\* The effects that order a session.
Orders == {"fix", "retry"}

\* decision_effect: what the item says of the verb; but an order that could not be
\* read whole is not given, and the subtask ends instead (order_too_long).
Effect(item, d) ==
  LET listed == item.does[d.verb]
  IN IF listed \in Orders /\ d.long THEN "end" ELSE listed

\* A decision and its note. An order that the item says a session will be given is
\* built from the note and from findings already recorded: with it the note settles
\* whether the order is long, that is, more than its reviewer would read whole.
PersonDecides(item, verb, long) ==
  /\ \A i \in 1..Len(decisions) : decisions[i].item # item.id
  /\ long => item.does[verb] \in Orders
  /\ decisions' = Append(decisions, [item |-> item.id, verb |-> verb, long |-> long])
  /\ UNCHANGED <<replayed, journal, branch, items, exposed, pc, why, rest>>

\* Mutant: the integration call stays made.
StaysClosed(i) == i

\* A decision that acts reopens a design left incomplete.
Reopened(i) == IF i = "incomplete" THEN "none" ELSE i

\* The item, as listed, must say what the record gives now; then it acts.
TakeDecision(item, i) ==
  LET s == item.id[1]
      effect == Effect(item, decisions[i])
  IN
  /\ pc = "drive" /\ Deciding
  /\ i \in Untaken /\ \A j \in Untaken : i <= j
  /\ decisions[i].item = item.id
  /\ \/ /\ item.id[2] = 0 /\ integEsc
        /\ taken' = taken \cup {item.id}
        /\ UNCHANGED <<sub, att, ledger, integration>>
     \/ /\ item.id[2] # 0 /\ sub[s].status = "escalated" /\ sub[s].item = item.id[2]
        /\ item.does = Consequence(s, item.scan)
        /\ taken' = taken \cup {item.id}
        /\ IF effect = "none" THEN UNCHANGED <<sub, att, ledger, integration>>
           ELSE /\ integration' = Reopened(integration)
                /\ ledger' = [ledger EXCEPT ![s].person = decisions[i].verb]
                /\ att' = [att EXCEPT ![s].approved = (effect = "merge"),
                                      ![s].spent = (effect # "merge"),
                                      ![s].cursor = IF effect = "merge" THEN "decide" ELSE @]
                /\ sub' = [sub EXCEPT ![s].status = "active",
                             ![s].next = IF effect \in Orders THEN att[s].n + 1 ELSE @,
                             ![s].fixNext = (effect = "fix"),
                             ![s].ending = IF effect = "end" THEN "person" ELSE @]
  /\ UNCHANGED <<halted, integEsc, head, recorded, cleaned, outside, pc, why, rest>>

\* The listed item is not the one the record builds: the run halts on it.
DecisionMismatch(item, i) ==
  LET s == item.id[1] IN
  /\ pc = "drive" /\ Deciding
  /\ i \in Untaken /\ \A j \in Untaken : i <= j
  /\ decisions[i].item = item.id
  /\ IF item.id[2] = 0 THEN ~integEsc
     ELSE \/ sub[s].status # "escalated" \/ sub[s].item # item.id[2]
          \/ item.does # Consequence(s, item.scan)
  /\ Incident("decision")

\* A person's reject with no attempt left, or a fix not accepted.
EndSubtask(s) ==
  /\ Drives(s, "end")
  /\ Emit(s, TRUE, /\ sub' = [sub EXCEPT ![s].status = "rejected", ![s].ending = "no"]
                   /\ UNCHANGED <<att, ledger, halted, integration, integEsc, head,
                                  recorded, taken, cleaned, outside, pc, why, rest>>)

-----------------------------------------------------------------------------
(* One attempt: a session, then its judgement.                             *)

Continue(s) ==
  /\ \E step \in {"verify_reading", "merge", "diff"} :
       /\ Drives(s, step)
       /\ pc' = IF step = "verify_reading" THEN "judge" ELSE step
  /\ UNCHANGED <<replayed, outside, why, rest>>

Number(s) == IF sub[s].status = "planned" THEN 1
             ELSE IF (att[s].spent \/ Ended(att[s])) /\ sub[s].next # 0 THEN sub[s].next
             ELSE att[s].n

\* StageEntered(resolve): a new attempt, or the same one started over.
BeginAttempt(s) ==
  LET n == Number(s)
      new == att[s].n # n
      ok == /\ LineMayFollow /\ Unresolved(s) /\ sub[s].next = n
            /\ new => ~sub[s].fixUsed /\ (n <= Budget \/ sub[s].fixNext)
  IN
  /\ Drives(s, "resolve")
  /\ IF ~ok THEN Raise
     ELSE /\ att' = [att EXCEPT ![s] = IF new THEN [Fresh(n, sub[s].fixNext) EXCEPT !.cursor = "resolve"]
                                       ELSE Restarted(@, "resolve")]
          /\ sub' = [sub EXCEPT ![s].status = "active", ![s].next = 0,
                       ![s].fixNext = @ /\ ~new,
                       ![s].fixUsed = @ \/ (new /\ sub[s].fixNext),
                       ![s].unjudged = @ \/ (new /\ att[s].n # 0 /\ ~att[s].judged)]
          /\ ledger' = IF new THEN [ledger EXCEPT ![s] = NoResults] ELSE ledger
          /\ pc' = "session"
          /\ UNCHANGED <<halted, integration, integEsc, head, recorded, taken, cleaned,
                         outside, why, rest>>

Spawn(s) ==
  /\ pc = "session" /\ IsCurrent(s)
  /\ EmitAtt(s, CanEnter(att[s], "spawn"), [att[s] EXCEPT !.cursor = "spawn"], "running")

\* SessionEnded, and then, in lines of their own, the incidents its end shows.
SessionEnds(s, end, shows) ==
  LET a == att[s] IN
  /\ pc = "running" /\ IsCurrent(s)
  /\ shows => Shows
  /\ end \in {"infra", "refused"} => failures < MaxInfra
  /\ failures' = failures + (IF end \in {"infra", "refused"} THEN 1 ELSE 0)
  /\ IF LineMayFollow /\ Active(s) /\ a.cursor = "spawn" /\ a.session = "none"
     THEN /\ att' = [att EXCEPT ![s].session = end]
          /\ exposed' = IF shows THEN exposed \cup {s} ELSE exposed
          /\ why' = IF shows THEN "session" ELSE why
          /\ pc' = CASE shows -> "halting" [] ~shows /\ end \in {"read", "unread"} -> "checkSession"
                     [] OTHER -> "drive"
     ELSE pc' = "raised" /\ UNCHANGED <<att, exposed, why>>
  /\ UNCHANGED <<sub, ledger, halted, integration, integEsc, head, recorded, taken, cleaned,
                 journal, branch, items, decisions, known, kills>>

\* Mutant: the schedule is read one past its end.
RetryPastEnd(a) == a.session = "infra" /\ a.retries <= Retries

RetryLeft(a) == a.session = "infra" /\ a.retries < Retries

\* An infrastructure outcome is retried on the schedule, or halts the run.
InfraFailed(s) ==
  LET a == att[s] IN
  /\ Drives(s, "infra")
  /\ IF RetryLeft(a)
     THEN Emit(s, TRUE,
               /\ att' = [att EXCEPT ![s].retries = @ + 1]
               /\ sub' = [sub EXCEPT ![s].next = a.n]
               /\ UNCHANGED <<ledger, halted, integration, integEsc, head, recorded, taken,
                              cleaned, outside, pc, why, rest>>)
     ELSE /\ halted' = "infra"
          /\ UNCHANGED <<sub, att, ledger, integration, integEsc, head, recorded, taken,
                         cleaned, outside, pc, why, rest>>

\* The stage the judgement goes to, when nothing has refused the attempt.
JudgesNext(a, stage) ==
  \/ stage = "verify_reading" /\ a.cursor = "spawn"
  \/ stage = "implement" /\ a.cursor = "verify_reading" /\ a.session = "read"
  \/ stage = "gate" /\ a.cursor = "implement" /\ a.changes = "ok"
  \/ stage = "review" /\ a.cursor = "gate" /\ a.gate # "none" /\ ~(a.gate = "fail" /\ GateMode = "on")
  \/ stage = "decide" /\ a.cursor = "review" /\ a.review = "pass"

EnterStage(s) ==
  /\ pc = "judge" /\ IsCurrent(s)
  /\ \E stage \in {"verify_reading", "implement", "gate", "review", "decide"} :
       /\ JudgesNext(att[s], stage)
       /\ EmitAtt(s, CanEnter(att[s], stage), [att[s] EXCEPT !.cursor = stage],
                  IF stage = "decide" THEN "merge" ELSE "judge")

CheckChanges(s, found) ==
  LET a == att[s] IN
  /\ pc = "judge" /\ IsCurrent(s) /\ a.cursor = "implement" /\ a.changes = "none"
  /\ EmitAtt(s, TRUE, [a EXCEPT !.changes = found], "judge")

RunGate(s, verdict) ==
  LET a == att[s] IN
  /\ pc = "judge" /\ IsCurrent(s) /\ a.cursor = "gate" /\ a.gate = "none"
  /\ (verdict = "skipped") = (GateMode = "off")
  /\ Emit(s, TRUE, /\ att' = [att EXCEPT ![s].gate = verdict]
                   /\ ledger' = [ledger EXCEPT ![s].gate = verdict]
                   /\ UNCHANGED <<sub, halted, integration, integEsc, head, recorded, taken,
                                  cleaned, outside, pc, why, rest>>)

\* A review that blocks ends the attempt; a confirmed indicator is never forgotten.
Review(s, verdict) ==
  LET result == IF verdict = "gaming" THEN "fail" ELSE verdict
      a == [att[s] EXCEPT !.review = result, !.judged = TRUE]
  IN
  /\ pc = "judge" /\ IsCurrent(s) /\ a.cursor = "review" /\ att[s].review = "none"
  /\ Emit(s, a.unavail # "final",
          /\ IF result = "blocked" THEN Ending(s, a)
             ELSE /\ att' = [att EXCEPT ![s] = a]
                  /\ sub' = [sub EXCEPT ![s].indicator = @ \/ verdict = "gaming"]
          /\ ledger' = [ledger EXCEPT ![s].review = result]
          /\ pc' = IF result = "blocked" THEN "drive" ELSE "judge"
          /\ UNCHANGED <<halted, integration, integEsc, head, recorded, taken, cleaned,
                         outside, why, rest>>)

\* No verdict: retried once for infrastructure, otherwise final.
ReviewUnavailable(s, retry) ==
  LET a == [att[s] EXCEPT !.unavail = IF retry THEN "retried" ELSE "final"] IN
  /\ Unavailable
  /\ pc = "judge" /\ IsCurrent(s) /\ a.cursor = "review" /\ a.review = "none"
  /\ retry => att[s].unavail = "none"
  /\ Emit(s, att[s].unavail # "final",
          /\ IF retry THEN att' = [att EXCEPT ![s] = a] /\ UNCHANGED sub ELSE Ending(s, a)
          /\ pc' = IF retry THEN "judge" ELSE "drive"
          /\ UNCHANGED <<ledger, halted, integration, integEsc, head, recorded, taken,
                         cleaned, outside, why, rest>>)

\* _reject: the decide stage, then the rejection.
EnterReject(s) ==
  LET a == att[s] IN
  /\ pc = "judge" /\ IsCurrent(s)
  /\ \/ a.cursor = "verify_reading" /\ a.session # "read"
     \/ a.cursor = "implement" /\ a.changes = "refused"
     \/ a.cursor = "gate" /\ a.gate = "fail" /\ GateMode = "on"
     \/ a.cursor = "review" /\ a.review = "fail"
  /\ EmitAtt(s, CanEnter(a, "decide"), [a EXCEPT !.cursor = "decide"], "reject")

RejectAttempt(s) ==
  LET a == [att[s] EXCEPT !.rejected = TRUE] IN
  /\ pc = "reject" /\ IsCurrent(s)
  /\ Emit(s, a.cursor = "decide" /\ Rejectable(att[s]),
          /\ Ending(s, a) /\ pc' = "drive"
          /\ UNCHANGED <<ledger, halted, integration, integEsc, head, recorded, taken,
                         cleaned, outside, why, rest>>)

-----------------------------------------------------------------------------
(* The end of an attempt that did not merge.                               *)

\* _decide: the rules send an attempt to the queue exactly where they must.
Decide(s) ==
  LET a == att[s]
      forced == ~a.rejected \/ a.n >= Budget
  IN
  /\ Drives(s, "decide")
  /\ Emit(s, Ended(a) /\ a.routed = "none" /\ ~a.fix /\ a.cursor \in {"decide", "review"},
          /\ att' = [att EXCEPT ![s].routed = IF forced THEN "yes" ELSE "no"]
          /\ sub' = [sub EXCEPT ![s].next = IF forced THEN @ ELSE a.n + 1]
          /\ UNCHANGED <<ledger, halted, integration, integEsc, head, recorded, taken,
                         cleaned, outside, pc, why, rest>>)

\* Mutant: a subtask that comes back to the queue keeps its first item.
FirstItem(s) == <<s, 1>>

\* _next_item_id: a new round each time the subtask comes back.
NextItem(s) == <<s, sub[s].rounds + 1>>

\* _escalate, _to_a_person: the item is added once, and only then recorded.
List(s, scan) ==
  LET id == NextItem(s)
      listed == \E item \in items : item.id = id
      unread == sub[s].unjudged \/ ~att[s].judged  \* streams no review judged
  IN
  /\ Drives(s, "escalate")
  /\ scan => Acts /\ unread /\ ~listed
  /\ items' = IF listed THEN items
              ELSE items \cup {[id |-> id, scan |-> scan,
                                does |-> IF Acts THEN Consequence(s, scan) ELSE RecordOnly]}
  /\ pc' = "listed"
  /\ UNCHANGED <<replayed, journal, branch, decisions, exposed, why, rest>>

RecordEscalated(s) ==
  /\ pc = "listed" /\ IsCurrent(s)
  /\ Emit(s, att[s].routed = "yes" /\ sub[s].ending = "no",
          /\ sub' = [sub EXCEPT ![s].status = "escalated", ![s].item = sub[s].rounds + 1,
                                ![s].rounds = @ + 1]
          /\ pc' = "drive"
          /\ UNCHANGED <<att, ledger, halted, integration, integEsc, head, recorded, taken,
                         cleaned, outside, why, rest>>)

-----------------------------------------------------------------------------
(* _merge_attempt: the proposals into the store, then the merge, then the  *)
(* diff check.                                                             *)

AllowedGate == CASE GateMode = "on" -> {"pass"} [] GateMode = "observe" -> {"pass", "fail"}
                 [] GateMode = "off" -> {"skipped"}

\* require_mergeable: the ledger line must permit the merge.
RequireMergeable(s) ==
  LET line == ledger[s] IN
  /\ pc = "merge" /\ IsCurrent(s)
  /\ IF /\ att[s].changes # "none" /\ line.gate \in AllowedGate
        /\ \/ line.review = "pass"
           \/ line.person = "approve" /\ line.review \in {"fail", "blocked", "none"}
     THEN pc' = "apply" /\ UNCHANGED <<replayed, outside, why, rest>>
     ELSE Raise

IntendWrite(s) ==
  LET a == att[s] IN
  /\ pc = "apply" /\ IsCurrent(s) /\ a.applied < Proposals
  /\ EmitAtt(s, a.cursor = "decide" /\ Mergeable(a) /\ ~a.pending,
             [a EXCEPT !.pending = TRUE], "write")

\* The journal moved underneath the handle.
Stale == Len(journal) # known

\* The store's write refuses a stale handle; a line the handle was opened over
\* shows in the revision the write gets.
StoreWrite(s) ==
  /\ pc = "write" /\ IsCurrent(s)
  /\ IF Stale THEN Incident("journal")
     ELSE /\ journal' = Append(journal, Write(s, att[s].applied + 1))
          /\ known' = known + 1
          /\ pc' = IF known = head THEN "written" ELSE "halting"
          /\ why' = IF known = head THEN why ELSE "journal"
          /\ UNCHANGED <<replayed, branch, items, decisions, exposed, kills, failures>>

RecordWrite(s) ==
  LET a == att[s] IN
  /\ pc = "written" /\ IsCurrent(s)
  /\ Emit(s, a.pending,
          /\ att' = [att EXCEPT ![s].applied = @ + 1, ![s].pending = FALSE]
          /\ head' = head + 1 /\ pc' = "apply"
          /\ UNCHANGED <<sub, ledger, halted, integration, integEsc, recorded, taken,
                         cleaned, outside, why, rest>>)

CheckBranch(s) ==
  /\ pc = "apply" /\ IsCurrent(s) /\ att[s].applied = Proposals
  /\ IF BranchHolds({Commit(s)})
     THEN pc' = "git" /\ UNCHANGED <<replayed, outside, why, rest>>
     ELSE Incident("branch")

\* Mutant: a merge that landed is not looked for.
MergesAgain(commit) == FALSE

OnBranch(commit) == \E i \in 1..Len(branch) : branch[i] = commit

\* A commit already merged is not merged again; a conflict is an incident.
GitMerge(s) ==
  /\ pc = "git" /\ IsCurrent(s)
  /\ \/ /\ branch' = IF OnBranch(Commit(s)) THEN branch ELSE Append(branch, Commit(s))
        /\ pc' = "merged"
        /\ UNCHANGED <<replayed, journal, items, decisions, exposed, why, rest>>
     \/ Conflicts /\ Incident("merge")

RecordMerge(s) ==
  LET a == att[s] IN
  /\ pc = "merged" /\ IsCurrent(s)
  /\ Emit(s, a.cursor = "decide" /\ Mergeable(a) /\ ~a.pending,
          /\ att' = [att EXCEPT ![s].merged = TRUE]
          /\ recorded' = CHOOSE i \in 1..Len(branch) : branch[i] = Commit(s)
          /\ pc' = "diff"
          /\ UNCHANGED <<sub, ledger, halted, integration, integEsc, head, taken, cleaned,
                         outside, why, rest>>)

EnterDiff(s) ==
  /\ pc = "diff" /\ IsCurrent(s)
  /\ EmitAtt(s, CanEnter(att[s], "diff"), [att[s] EXCEPT !.cursor = "diff"], "diffing")

\* The divergence check reads through the same handle, and raises when it is stale.
CheckDiff(s, found) ==
  /\ pc = "diffing" /\ IsCurrent(s)
  /\ ~Stale
  /\ found => Diverges \/ known > head
  /\ Emit(s, att[s].cursor = "diff" /\ att[s].diff = "none",
          /\ att' = [att EXCEPT ![s].diff = IF found THEN "divergent" ELSE "clean"]
          /\ sub' = [sub EXCEPT ![s].status = IF found THEN @ ELSE "done"]
          /\ why' = IF found THEN "diff" ELSE why
          /\ pc' = IF found THEN "halting" ELSE "drive"
          /\ UNCHANGED <<ledger, halted, integration, integEsc, head, recorded, taken,
                         cleaned, outside, rest>>)

DiffStale ==
  /\ pc = "diffing" /\ Stale
  /\ pc' = "down"
  /\ UNCHANGED <<replayed, outside, why, rest>>

-----------------------------------------------------------------------------
(* The integration call, the end of a pass, and what may come from outside. *)

Integrate(verdict) ==
  /\ pc = "drive" /\ halted = "no" /\ NoneLeft /\ ~Deciding /\ integration = "none"
  /\ integration' = IF GateMode = "off" THEN "off"
                    ELSE IF \E s \in Subtask : sub[s].status # "done" THEN "incomplete"
                    ELSE verdict
  /\ UNCHANGED <<sub, att, ledger, halted, integEsc, head, recorded, taken, cleaned,
                 outside, pc, why, rest>>

ListIntegration ==
  /\ pc = "drive" /\ halted = "no" /\ NoneLeft /\ ~Deciding
  /\ IntegrationBlocks /\ ~integEsc
  /\ items' = items \cup {[id |-> <<0, 0>>, scan |-> FALSE, does |-> RecordOnly]}
  /\ pc' = "integItem"
  /\ UNCHANGED <<replayed, journal, branch, decisions, exposed, why, rest>>

RecordIntegEsc ==
  /\ pc = "integItem"
  /\ integEsc' = TRUE /\ pc' = "drive"
  /\ UNCHANGED <<sub, att, ledger, halted, integration, head, recorded, taken, cleaned,
                 outside, why, rest>>

Decided(id) == \E i \in 1..Len(decisions) : decisions[i].item = id

\* Mutant: a worktree is removed as soon as the item has a decision.
Answered(id) == Decided(id)

\* In a run that acts, an item is answered once its decision was taken.
Resolved(id) == Decided(id) /\ (Acts => id \in taken)

\* _clean_up_worktrees: what is done or ended, or escalated with its item decided.
Removable(s) ==
  \/ sub[s].status \in {"done", "rejected"}
  \/ sub[s].status = "escalated" /\ Resolved(<<s, sub[s].item>>)

\* The process ends where there is nothing to drive. The queue is read again for the
\* clean-up, so a decision written since no decision was left to take is seen there.
LeaveLoop ==
  /\ pc = "drive" /\ ~Deciding
  /\ halted # "no" \/ (NoneLeft /\ ~IntegrationDue)
  /\ pc' = "ending"
  /\ UNCHANGED <<replayed, outside, why, rest>>

Finish ==
  /\ pc = "ending"
  /\ cleaned' = cleaned \cup {s \in Subtask : Removable(s)}
  /\ pc' = "down" /\ known' = Shut
  /\ UNCHANGED <<sub, att, ledger, halted, integration, integEsc, head, recorded, taken,
                 outside, why, kills, failures>>

\* The process is killed between any two of its steps.
Kill ==
  /\ pc \notin {"down", "raised"} /\ kills < MaxKills
  /\ kills' = kills + 1 /\ pc' = "down" /\ why' = "no" /\ known' = Shut
  /\ UNCHANGED <<replayed, outside, failures>>

\* Something that is not this run appends a line to the store.
ForeignLine ==
  /\ Foreign /\ \A i \in 1..Len(journal) : Own(journal[i])
  /\ journal' = Append(journal, NotOurs)
  /\ UNCHANGED <<replayed, branch, items, decisions, exposed, pc, why, rest>>

\* remove: a subtask not yet dispatched leaves the plan.
RemoveSubtask(s) ==
  /\ Removes /\ pc = "down"
  /\ sub[s].status = "planned" /\ LineMayFollow
  /\ sub' = [sub EXCEPT ![s].status = "removed"]
  /\ UNCHANGED <<att, ledger, halted, integration, integEsc, head, recorded, taken, cleaned,
                 outside, pc, why, rest>>

-----------------------------------------------------------------------------
Verb == {"approve", "reject"}

Judging(s) ==
  \/ EnterStage(s) \/ EnterReject(s) \/ RejectAttempt(s)
  \/ \E found \in {"ok", "refused"} : CheckChanges(s, found)
  \/ \E verdict \in {"skipped", "pass", "fail"} : RunGate(s, verdict)
  \/ \E verdict \in Verdicts : Review(s, verdict)
  \/ \E retry \in BOOLEAN : ReviewUnavailable(s, retry)

Merging(s) ==
  \/ RequireMergeable(s) \/ IntendWrite(s) \/ StoreWrite(s) \/ RecordWrite(s)
  \/ CheckBranch(s) \/ GitMerge(s) \/ RecordMerge(s) \/ EnterDiff(s)
  \/ \E found \in BOOLEAN : CheckDiff(s, found)

Attempting(s) ==
  \/ Continue(s) \/ BeginAttempt(s) \/ Spawn(s) \/ InfraFailed(s)
  \/ \E end \in Ends, shows \in BOOLEAN : SessionEnds(s, end, shows)
  \/ Judging(s) \/ Merging(s)
  \/ Decide(s) \/ RecordEscalated(s) \/ EndSubtask(s)
  \/ \E scan \in BOOLEAN : List(s, scan)

\* What the process does once it was started.
Process ==
  \/ CheckLine \/ JournalHolds \/ TakeOver \/ Halt \/ DiffStale \/ LeaveLoop \/ Finish
  \/ \E reopens \in BOOLEAN : Hold(reopens)
  \/ \E item \in items, i \in 1..Len(decisions) :
       TakeDecision(item, i) \/ DecisionMismatch(item, i)
  \/ \E s \in Subtask : Attempting(s)
  \/ \E verdict \in {"pass", "fail"} : Integrate(verdict)
  \/ ListIntegration \/ RecordIntegEsc

Environment ==
  \/ \E item \in items, verb \in Verb, long \in BOOLEAN : PersonDecides(item, verb, long)
  \/ Kill \/ ForeignLine
  \/ \E s \in Subtask : RemoveSubtask(s)

Next == \/ Process \/ Environment
        \/ \E cmd \in {"run", "resume"} : Command(cmd)

Spec == Init /\ [][Next]_vars

\* A started process goes on (a session is cut off at its time limit, and a
\* review at its own), and an operator keeps resuming a run that is down.
FairSpec == Spec /\ WF_vars(Process) /\ SF_vars(Command("resume"))

-----------------------------------------------------------------------------
(* What the log accounts for, as a run of the plan.                        *)

FixOf(x) == CASE x.fixUsed -> "used"
              [] ~x.fixUsed /\ x.fixNext -> "ordered"
              [] OTHER -> "no"

StatusBar == [s \in Subtask |-> sub[s].status]
TriesBar == [s \in Subtask |-> att[s].n]
FixBar == [s \in Subtask |-> FixOf(sub[s])]
AskedBar == [s \in Subtask |-> sub[s].rounds]
WrittenBar == SubSeq(journal, 1, head)
MergedBar == SubSeq(branch, 1, recorded)
StoppedBar == halted \notin {"no", "infra"}

Delivered == INSTANCE Delivery WITH
  status <- StatusBar, tries <- TriesBar, fix <- FixBar, asked <- AskedBar,
  written <- WrittenBar, merged <- MergedBar, verdict <- integration,
  stopped <- StoppedBar

-----------------------------------------------------------------------------
(* Properties.                                                             *)

Attempt ==
  [n : 0 .. Budget + 1,
   cursor : {"none", "resolve", "spawn", "verify_reading", "implement", "gate", "review",
             "decide", "diff"},
   session : {"none", "read", "unread", "infra", "refused"}, retries : 0..Retries,
   changes : {"none", "ok", "refused"}, gate : {"none", "skipped", "pass", "fail"},
   review : {"none", "pass", "fail", "blocked"}, unavail : {"none", "retried", "final"},
   rejected : BOOLEAN, merged : BOOLEAN, diff : {"none", "clean", "divergent"},
   applied : 0..Proposals, pending : BOOLEAN, routed : {"none", "yes", "no"},
   fix : BOOLEAN, approved : BOOLEAN, spent : BOOLEAN, judged : BOOLEAN]

SubtaskState ==
  [status : {"planned", "removed", "active", "done", "escalated", "rejected"},
   next : 0 .. Budget + 1, item : Nat, rounds : Nat, fixNext : BOOLEAN,
   fixUsed : BOOLEAN, ending : {"no", "person", "fix"}, indicator : BOOLEAN,
   unjudged : BOOLEAN]

ItemId == (Subtask \X Nat) \cup {<<0, 0>>}
Item == [id : ItemId, scan : BOOLEAN,
         does : [approve : {"merge", "none"}, reject : {"fix", "end", "retry", "none"}]]

\* Every variable has its type.
TypeOK ==
  /\ sub \in [Subtask -> SubtaskState] /\ att \in [Subtask -> Attempt]
  /\ ledger \in [Subtask -> [gate : {"none", "skipped", "pass", "fail"},
                             review : {"none", "pass", "fail", "blocked"},
                             person : {"none"} \cup Verb]]
  /\ halted \in {"no", "infra", "journal", "branch", "merge", "diff", "session", "decision"}
  /\ integration \in {"none", "off", "incomplete", "pass", "fail"} /\ integEsc \in BOOLEAN
  /\ head \in 0..Len(journal) /\ recorded \in 0..Len(branch)
  /\ taken \subseteq {item.id : item \in items} /\ cleaned \subseteq Subtask
  /\ \A i \in 1..Len(journal) : journal[i].s \in 0..N
  /\ items \subseteq Item /\ exposed \subseteq Subtask
  /\ known \in {Shut} \cup 0..Len(journal) /\ kills \in 0..MaxKills /\ failures \in 0..MaxInfra

\* No proposal of an attempt is written into the store twice, whatever is killed
\* between the intent, the write and its record (_journal_clean, _apply).
WriteOnce ==
  \A i, j \in 1..Len(journal) : Own(journal[i]) /\ journal[i] = journal[j] => i = j

\* A store line this run did not write is never accounted for as its own, so the
\* journal check of every later process meets it (_journal_clean).
ForeignNeverAccounted == \A i \in 1..head : Own(journal[i])

\* The gate judged the whole design: every planned subtask is done, its commit is
\* on the run branch exactly once, and every node it proposed is in the store
\* (_integrate, merge, _apply).
WholeDesign ==
  integration \in {"pass", "fail"} =>
    \A s \in Subtask :
      /\ sub[s].status = "done"
      /\ \E i \in 1..Len(branch) : /\ branch[i] = Commit(s)
                                   /\ \A j \in 1..Len(branch) : branch[j][1] = s => j = i
      /\ \A k \in 1..Proposals : \E i \in 1..Len(journal) : journal[i] = Write(s, k)

\* A subtask that waits on a person waits on an item the queue holds, and what the
\* item says each verb will do is what the record gives for as long as it waits.
ShownAsGiven(s) ==
  sub[s].status = "escalated" =>
    \E item \in items :
      /\ item.id = <<s, sub[s].item>>
      /\ item.does = IF Acts THEN Consequence(s, item.scan) ELSE RecordOnly

GivenUp(s) == sub[s].ending # "no" \/ sub[s].status = "rejected"

\* Once the decision on its newest item was taken, the subtask goes where the item
\* said the verb would send it, until it is put to a person again.
GivenAsShown(s) ==
  \A item \in items, i \in 1..Len(decisions) :
    LET said == item.does[decisions[i].verb]
        unread == said \in Orders /\ decisions[i].long
    IN item.id = <<s, sub[s].item>> /\ item.id = decisions[i].item /\ item.id \in taken =>
         /\ said = "none" <=> sub[s].status = "escalated"
         /\ said = "merge" <=> att[s].approved
         /\ said = "end" \/ unread => GivenUp(s)
         /\ said \in {"merge", "retry"} /\ ~unread => ~GivenUp(s)
         /\ said = "fix" /\ ~unread => sub[s].fixNext \/ sub[s].fixUsed

\* A person is never shown one consequence and given another, through kills, retries
\* and later rounds of the queue, but for one case: a fix or a retry that was listed
\* ends the subtask instead where its order could not be read whole, and nothing is
\* merged or run for it (_item_for, item_consequence, decision_effect, _take).
ItemsAsListed == \A s \in Subtask : ShownAsGiven(s) /\ GivenAsShown(s)

\* What is merged passed the reading check, the change check and the gate under the
\* run's mode; a person's approve stands in for the reviewer alone, and never where
\* a review of any attempt confirmed gaming (item_consequence, require_mergeable).
OverridesReviewOnly ==
  \A s \in Subtask : att[s].merged =>
    /\ att[s].session = "read" /\ att[s].changes = "ok" /\ att[s].gate \in AllowedGate
    /\ att[s].review # "pass" => att[s].approved /\ ~sub[s].indicator

\* No subtask that may still run an attempt has lost its worktree
\* (_clean_up_worktrees: "an attempt may still run in this worktree").
WorktreeKept == \A s \in cleaned : ~Unresolved(s)

\* The loop never tries a line its own replay refuses: after any kill, the next
\* run or resume finds the run in a state it can go on from (resume, _resume).
NeverRefused == pc # "raised"

\* A session whose end showed an incident leaves no work merged (_session: "its
\* work is not taken").
ExposedNotMerged == \A s \in exposed : ~att[s].merged

\* An attempt that ended without a merge and that no person approved was applied
\* whole or not at all (apply.py: "an attempt is applied whole or not at all").
WholeOrNotAtAll ==
  \A s \in Subtask : Ended(att[s]) /\ ~att[s].approved =>
    Cardinality({k \in 1..Proposals : \E i \in 1..Len(journal) : journal[i] = Write(s, k)})
      \in {0, Proposals}

\* Whatever is killed, written by others or decided late, what the log accounts for is
\* a run of the plan: in plan order, within the budgets, each effect accounted for once
\* and in its turn, and nothing given up that no person was asked about (_drive, record).
DeliverySpec == Delivered!Spec

RunOver == halted \notin {"no", "infra"} \/ (NoneLeft /\ ~IntegrationDue)

\* A run that keeps being resumed comes to an end: every subtask resolved and the
\* integration call made, or a halt that a person must resolve.
Settles == <>[]RunOver

\* In a run that acts, every decision a person wrote on an item the run put to them
\* is taken, whatever else the run was doing, unless the run halts for a person
\* (_take_decisions).
DecisionsTaken ==
  \A id \in (Subtask \X (1..2)) \cup {<<0, 0>>} :
    Decided(id) ~> (id \in taken \/ halted \notin {"no", "infra"})
=============================================================================
