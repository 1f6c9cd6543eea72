--------------------------- MODULE RunLoopProofs ---------------------------
(***************************************************************************)
(* Proofs about one run of the orchestrator, for any number of subtasks,   *)
(* any budget, retry schedule and number of proposals, under every gate    *)
(* mode, acting on decisions or only recording them, whatever sessions,    *)
(* reviews and people do, and however often the process is killed.         *)
(***************************************************************************)
EXTENDS RunLoop, TLAPS

-----------------------------------------------------------------------------
(* The inductive invariant.                                                *)

Cause == {"journal", "branch", "merge", "diff", "session", "decision"}
Pc == {"down", "raised", "checkRun", "checkResume", "checkSession", "holdRun",
       "holdResume", "holdSession", "checkBranch", "drive", "halting", "haltingOpen",
       "session", "running", "judge", "reject", "listed", "merge", "apply", "write",
       "written", "git", "merged", "diff", "diffing", "integItem", "ending"}

JournalLine == [s : 0..N, n : Nat, k : Nat]
Decision == [item : ItemId, verb : Verb, long : BOOLEAN]
LedgerLine == [gate : {"none", "skipped", "pass", "fail"},
               review : {"none", "pass", "fail", "blocked"}, person : {"none"} \cup Verb]

\* The types of what is not a subtask's record, the sequences among them.
FrameType ==
  /\ ledger \in [Subtask -> LedgerLine]
  /\ halted \in {"no", "infra"} \cup Cause
  /\ integration \in {"none", "off", "incomplete", "pass", "fail"} /\ integEsc \in BOOLEAN
  /\ head \in Nat /\ recorded \in Nat
  /\ journal \in Seq(JournalLine) /\ branch \in Seq(Subtask \X Nat)
  /\ decisions \in Seq(Decision) /\ items \subseteq Item
  /\ exposed \subseteq Subtask /\ cleaned \subseteq Subtask
  /\ pc \in Pc /\ why \in {"no"} \cup Cause
  /\ known \in {Shut} \cup Nat /\ kills \in 0..MaxKills /\ failures \in 0..MaxInfra

RecordType == sub \in [Subtask -> SubtaskState] /\ att \in [Subtask -> Attempt]

\* Every automated check let the attempt through.
Cleared(a) == a.session = "read" /\ a.changes = "ok" /\ GateLets(a)

\* What can reject an attempt, whatever stage it stands at.
Refused(a) == \/ a.session = "unread" \/ a.changes = "refused"
              \/ a.gate = "fail" /\ GateMode = "on"
              \/ a.review = "fail"

\* An attempt passes its stages in order: each outcome rests on the one before.
StagesInOrder(a) ==
  /\ a.changes # "none" => a.session = "read"
  /\ a.gate # "none" => a.changes = "ok"
  /\ a.gate # "none" => (a.gate = "skipped") = (GateMode = "off")
  /\ a.review # "none" => GateLets(a)
  /\ a.unavail # "none" => GateLets(a)
  /\ a.unavail = "final" => a.review = "none"
  /\ a.rejected => Refused(a)
  /\ a.cursor = "implement" => a.session = "read"
  /\ a.cursor = "gate" => a.changes = "ok"
  /\ a.cursor = "review" => GateLets(a)

\* How far an attempt and its subtask can have come.
RecordOk(x, a) ==
  /\ a.n = 0 <=> x.status \in {"planned", "removed"}
  /\ a.n = 0 => a = Fresh(0, FALSE) /\ x.next = 1
  /\ x.next \in {0, a.n, a.n + 1}
  /\ a.n # 0 /\ x.next = a.n => ~Ended(a) /\ ~Completed(a)
  /\ a.n # 0 /\ x.next = a.n + 1 => Ended(a)
  /\ a.n > Budget => a.fix
  /\ a.pending => a.applied < Proposals
  /\ x.ending # "no" => Ended(a) /\ ~a.approved /\ x.status = "active"
  /\ a.fix /\ a.review = "blocked" => x.ending = "fix" \/ x.status = "rejected"
  /\ a.spent => Ended(a) /\ ~a.approved /\ ~a.merged
  /\ a.approved => Ended(a) /\ Cleared(a) /\ ~x.indicator
  /\ a.merged => /\ Cleared(a) /\ (a.review = "pass" \/ a.approved)
                 /\ x.status \in {"active", "done"} /\ a.applied = Proposals
  /\ x.status = "done" => a.merged
  /\ x.status = "escalated" => /\ Ended(a) /\ a.routed = "yes" /\ ~a.approved
                               /\ x.item = x.rounds /\ x.rounds # 0

\* Where the process stands with the subtask it is driving.
Judged == {"session", "running", "checkSession", "holdSession", "judge", "reject"}
Merged == {"merge", "apply", "write", "written", "git", "merged"}

PlaceOk(p, x, a) ==
  /\ p \in Judged => /\ x.status = "active" /\ x.next = 0
                     /\ ~Ended(a) /\ ~a.merged
  /\ p \in Merged => /\ x.status = "active" /\ x.ending = "no" /\ ~a.merged
                     /\ Cleared(a) /\ (a.review = "pass" \/ a.approved)
  /\ p \in {"git", "merged"} => a.applied = Proposals
  /\ p \in {"diff", "diffing"} => a.merged

RecordsOk == \A s \in Subtask : RecordOk(sub[s], att[s])
PlacesOk == /\ \A s \in Subtask : IsCurrent(s) => PlaceOk(pc, sub[s], att[s])
            /\ \A s \in Subtask : IsCurrent(s) /\ pc = "listed" => Step(s) = "escalate"
            /\ pc \in {"halting", "haltingOpen"} => why # "no"
StagesOk == \A s \in Subtask : StagesInOrder(att[s])

\* The journal. A line of the run is one its attempt accounts for, or the one it is
\* about to account for; past the accounted head there is at most one of these.
AccountedFor(line) == /\ line.s \in Subtask
                      /\ \/ line.n < att[line.s].n
                         \/ line.n = att[line.s].n /\ line.k <= att[line.s].applied

Unaccounted == {i \in head + 1 .. Len(journal) : Own(journal[i])}

Clear == \/ pc \in {"holdRun", "holdResume", "holdSession", "checkBranch", "session", "running",
                    "judge", "reject", "listed", "merge", "apply", "write", "git", "merged",
                    "diff", "diffing", "integItem"}
         \/ pc = "drive" /\ halted = "no"

JournalOk ==
  /\ head <= Len(journal)
  /\ known <= Len(journal)
  /\ \A i \in 1..head : AccountedFor(journal[i])
  /\ \A i \in Unaccounted : /\ journal[i].s \in Subtask
                            /\ journal[i] = Write(journal[i].s, att[journal[i].s].applied + 1)
  /\ \A i, j \in Unaccounted : i = j
  /\ WriteOnce
  /\ Clear => Unaccounted = {}
  /\ pc = "written" =>
       /\ head + 1 \in Unaccounted
       /\ \A s \in Subtask : IsCurrent(s) => journal[head + 1] = Write(s, att[s].applied + 1)

AppliedOk == \A s \in Subtask, k \in 1..Proposals :
               k <= att[s].applied => \E i \in 1..Len(journal) : journal[i] = Write(s, k)

BranchOk ==
  /\ Len(branch) \in {recorded, recorded + 1}
  /\ \A i \in 1..recorded : branch[i] = Commit(branch[i][1]) /\ att[branch[i][1]].merged
  /\ \A i, j \in 1..recorded : branch[i][1] = branch[j][1] => i = j
  /\ Len(branch) = recorded + 1 => ~att[branch[recorded + 1][1]].merged
  /\ \A s \in Subtask : att[s].merged => \E i \in 1..recorded : branch[i] = Commit(s)
  /\ pc = "git" => \A s \in Subtask : IsCurrent(s) => BranchHolds({Commit(s)})
  /\ pc = "merged" => \A s \in Subtask : IsCurrent(s) =>
       Len(branch) = recorded + 1 /\ branch[recorded + 1] = Commit(s)

Says(item, s) == item.does = IF Acts THEN Consequence(s, item.scan) ELSE RecordOnly

\* The subtask that is driven waits to be put to a person.
Waits(s) == Unresolved(s) /\ Step(s) = "escalate"

ItemsOk ==
  /\ \A item \in items : item.id # <<0, 0>> => item.id[2] <= sub[item.id[1]].rounds + 1
  /\ \A item \in items, s \in Subtask : item.id = NextItem(s) => Waits(s) /\ Says(item, s)
  /\ \A s \in Subtask : ShownAsGiven(s)
  /\ pc = "listed" => \A s \in Subtask : IsCurrent(s) => \E item \in items : item.id = NextItem(s)

TakenOk == taken \subseteq {item.id : item \in items}

Left(s) == \/ sub[s].status \in {"done", "rejected"}
           \/ sub[s].status = "escalated" /\ (Acts => <<s, sub[s].item>> \in taken)
CleanedOk == \A s \in cleaned : Left(s)

DesignOk == integration \in {"pass", "fail"} => \A s \in Subtask : sub[s].status = "done"

LoopInv == /\ FrameType /\ RecordType /\ RecordsOk /\ PlacesOk /\ StagesOk /\ JournalOk
           /\ AppliedOk /\ BranchOk /\ ItemsOk /\ TakenOk /\ CleanedOk /\ DesignOk

-----------------------------------------------------------------------------
(* The records of the subtasks and their attempts.                         *)

Records == RecordType /\ RecordsOk /\ StagesOk
Recorded == RecordType' /\ RecordsOk' /\ StagesOk'

\* What is known of one subtask.
LEMMA AtRecord ==
  ASSUME Records, NEW s \in Subtask
  PROVE  /\ sub[s] \in SubtaskState /\ att[s] \in Attempt
         /\ RecordOk(sub[s], att[s]) /\ StagesInOrder(att[s])
BY DEF Records, RecordType, RecordsOk, StagesOk

\* What is known of the subtask that is driven.
LEMMA AtPlace ==
  ASSUME PlacesOk, NEW s \in Subtask, IsCurrent(s) PROVE PlaceOk(pc, sub[s], att[s])
BY DEF PlacesOk

\* A step on one subtask that leaves its records in order.
LEMMA RecordsMove ==
  ASSUME Records, NEW s \in Subtask,
         NEW x \in SubtaskState, NEW a \in Attempt, RecordOk(x, a), StagesInOrder(a),
         sub' = [sub EXCEPT ![s] = x], att' = [att EXCEPT ![s] = a]
  PROVE  Recorded
<1>1. RecordType'
  BY DEF Records, RecordType
<1>2. \A r \in Subtask : RecordOk(sub'[r], att'[r]) /\ StagesInOrder(att'[r])
  BY DEF Records, RecordType, RecordsOk, StagesOk
<1> QED
  BY <1>1, <1>2 DEF Recorded, RecordsOk, StagesOk

\* The same, where only one of the two records moves.
LEMMA AttemptMoves ==
  ASSUME Records, NEW s \in Subtask, NEW a \in Attempt, RecordOk(sub[s], a),
         StagesInOrder(a), sub' = sub, att' = [att EXCEPT ![s] = a]
  PROVE  Recorded
<1>1. sub' = [sub EXCEPT ![s] = sub[s]] /\ sub[s] \in SubtaskState
  BY DEF Records, RecordType
<1> QED
  BY <1>1, RecordsMove

LEMMA SubtaskMoves ==
  ASSUME Records, NEW s \in Subtask, NEW x \in SubtaskState, RecordOk(x, att[s]),
         att' = att, sub' = [sub EXCEPT ![s] = x]
  PROVE  Recorded
<1>1. att' = [att EXCEPT ![s] = att[s]] /\ att[s] \in Attempt /\ StagesInOrder(att[s])
  BY DEF Records, RecordType, StagesOk
<1> QED
  BY <1>1, RecordsMove

LEMMA RecordsSame ==
  ASSUME Records, sub' = sub, att' = att PROVE Recorded
BY DEF Records, Recorded, RecordType, RecordsOk, StagesOk

\* An attempt with a verdict, and one rejected, is an attempt.
LEMMA ReviewedType ==
  ASSUME NEW a \in Attempt, NEW result \in {"pass", "fail", "blocked"}
  PROVE  [a EXCEPT !.review = result, !.judged = TRUE] \in Attempt
<1> DEFINE b == [a EXCEPT !.review = result]
<1>1. b \in Attempt
  BY DEF Attempt
<1>2. [a EXCEPT !.review = result, !.judged = TRUE] = [b EXCEPT !.judged = TRUE]
  OBVIOUS
<1> HIDE DEF b
<1>3. [b EXCEPT !.judged = TRUE] \in Attempt
  BY <1>1 DEF Attempt
<1> QED
  BY <1>2, <1>3

LEMMA RejectedType ==
  ASSUME NEW a \in Attempt PROVE [a EXCEPT !.rejected = TRUE] \in Attempt
BY DEF Attempt

\* A review that passed is no ground to end the attempt.
LEMMA PassNotEnded ==
  ASSUME NEW a \in Attempt, StagesInOrder(a), a.review = "pass" PROVE ~Ended(a)
BY DEF StagesInOrder, Ended, Refused, GateLets, Attempt

\* Two attempts that differ in where they stand alone.
Alike(a, b) ==
  /\ b.n = a.n /\ b.session = a.session /\ b.changes = a.changes /\ b.gate = a.gate
  /\ b.review = a.review /\ b.unavail = a.unavail /\ b.rejected = a.rejected
  /\ b.merged = a.merged /\ b.applied = a.applied /\ b.pending = a.pending
  /\ b.routed = a.routed /\ b.fix = a.fix /\ b.approved = a.approved /\ b.spent = a.spent

LEMMA AlikeOk ==
  ASSUME NEW x, NEW a, NEW b, RecordOk(x, a), a.n # 0, Alike(a, b)
  PROVE  RecordOk(x, b)
<1>1. Ended(b) = Ended(a) /\ Completed(b) = Completed(a) /\ Cleared(b) = Cleared(a)
  BY DEF Alike, Ended, Completed, Cleared, GateLets
<1> QED
  BY <1>1 DEF Alike, RecordOk

\* A stage is entered from the one before it.
LEMMA CursorMove ==
  ASSUME NEW x \in SubtaskState, NEW a \in Attempt, RecordOk(x, a), StagesInOrder(a),
         a.n # 0,
         NEW c \in {"spawn", "verify_reading", "implement", "gate", "review", "decide", "diff"},
         c = "implement" => a.session = "read", c = "gate" => a.changes = "ok",
         c = "review" => GateLets(a)
  PROVE  LET b == [a EXCEPT !.cursor = c]
         IN  b \in Attempt /\ RecordOk(x, b) /\ StagesInOrder(b)
<1> DEFINE b == [a EXCEPT !.cursor = c]
<1>1. b \in Attempt /\ b.cursor = c
  BY DEF Attempt
<1>2. Alike(a, b)
  BY DEF Attempt, Alike
<1> HIDE DEF b
<1>3. RecordOk(x, b)
  BY <1>2, AlikeOk
<1>4. StagesInOrder(b)
  BY <1>1, <1>2 DEF Alike, StagesInOrder, GateLets, Refused
<1> QED
  BY <1>1, <1>3, <1>4 DEF b

\* An attempt that starts over.
LEMMA RestartedFields ==
  ASSUME NEW a \in Attempt, NEW c \in {"none", "resolve", "spawn"}
  PROVE  LET b == Restarted(a, c)
         IN  /\ b \in Attempt /\ b.cursor = c
             /\ b.session = IF c = "spawn" THEN a.session ELSE "none"
             /\ b.changes = "none" /\ b.gate = "none" /\ b.review = "none"
             /\ b.unavail = "none" /\ b.n = a.n /\ b.rejected = a.rejected
             /\ b.merged = a.merged /\ b.applied = a.applied /\ b.pending = a.pending
             /\ b.routed = a.routed /\ b.fix = a.fix /\ b.approved = a.approved
             /\ b.spent = a.spent
<1> DEFINE e == IF c = "spawn" THEN a.session ELSE "none"
<1>1. e \in {"none", "read", "unread", "infra", "refused"}
  BY DEF Attempt
<1>2. Restarted(a, c) = [a EXCEPT !.cursor = c, !.session = e, !.changes = "none",
                                  !.gate = "none", !.review = "none", !.unavail = "none"]
  BY DEF Restarted
<1> HIDE DEF e
<1>3. LET b == [a EXCEPT !.cursor = c, !.session = e, !.changes = "none",
                         !.gate = "none", !.review = "none", !.unavail = "none"]
      IN  /\ b.cursor = c /\ b.session = e
          /\ b.changes = "none" /\ b.gate = "none" /\ b.review = "none"
          /\ b.unavail = "none" /\ b.n = a.n /\ b.rejected = a.rejected
          /\ b.merged = a.merged /\ b.applied = a.applied /\ b.pending = a.pending
          /\ b.routed = a.routed /\ b.fix = a.fix /\ b.approved = a.approved
          /\ b.spent = a.spent
  BY <1>1 DEF Attempt
<1>4. [a EXCEPT !.cursor = c, !.session = e, !.changes = "none",
                !.gate = "none", !.review = "none", !.unavail = "none"] \in Attempt
  <2> DEFINE a1 == [a EXCEPT !.cursor = c, !.session = e]
             a2 == [a1 EXCEPT !.changes = "none"]
             a3 == [a2 EXCEPT !.gate = "none"]
             a4 == [a3 EXCEPT !.review = "none"]
  <2>1. a1 \in Attempt
    BY <1>1, ZenonT(40) DEF Attempt
  <2> HIDE DEF a1
  <2>2. a2 \in Attempt
    BY <2>1 DEF Attempt
  <2> HIDE DEF a2
  <2>3. a3 \in Attempt
    BY <2>2 DEF Attempt
  <2> HIDE DEF a3
  <2>4. a4 \in Attempt
    BY <2>3 DEF Attempt
  <2> HIDE DEF a4
  <2>5. [a4 EXCEPT !.unavail = "none"] \in Attempt
    BY <2>4 DEF Attempt
  <2> QED
    BY <2>5 DEF a1, a2, a3, a4
<1> QED
  BY <1>2, <1>3, <1>4 DEF e

LEMMA EndSubtaskRecords ==
  ASSUME Records, NEW s \in Subtask, EndSubtask(s) PROVE Recorded
<1> DEFINE x == [sub[s] EXCEPT !.status = "rejected", !.ending = "no"]
<1>1. CASE sub' = sub /\ att' = att
  BY <1>1, RecordsSame
<1>2. CASE sub' = [sub EXCEPT ![s] = x] /\ att' = att /\ Active(s) /\ Step(s) = "end"
  <2>1. /\ sub[s] \in SubtaskState /\ att[s] \in Attempt /\ RecordOk(sub[s], att[s])
        /\ StagesInOrder(att[s])
    BY AtRecord
  <2>2. x \in SubtaskState
    BY <2>1 DEF SubtaskState
  <2>3. sub[s].ending # "no" /\ sub[s].status = "active" /\ att[s].n # 0
    BY <1>2 DEF Step, Active, ResumePoint
  <2>4. ~att[s].merged
    BY <2>1, <2>3, PassNotEnded DEF RecordOk
  <2>5. RecordOk(x, att[s])
    BY <2>1, <2>3, <2>4 DEF SubtaskState, RecordOk, Attempt
  <2> HIDE DEF x
  <2> QED BY <1>2, <2>2, <2>5, SubtaskMoves
<1> QED
  BY <1>1, <1>2 DEF EndSubtask, Emit, Raise, replayed, Drives

\* An attempt that did not end and is not merged may start over.
LEMMA RestartedOk ==
  ASSUME NEW x \in SubtaskState, NEW a \in Attempt, NEW y, RecordOk(x, a), StagesInOrder(a),
         ~Ended(a), ~a.merged, a.n # 0, NEW c \in {"none", "resolve", "spawn"},
         NEW b \in Attempt, b.n = a.n, b.rejected = a.rejected,
         b.merged = a.merged, b.applied = a.applied, b.pending = a.pending \/ ~b.pending,
         b.fix = a.fix, b.approved = a.approved, b.spent = a.spent,
         b.cursor = c, b.changes = "none", b.gate = "none", b.review = "none",
         b.unavail = "none", b.session = IF c = "spawn" THEN a.session ELSE "none",
         y.status = x.status, y.ending = x.ending, y.indicator = x.indicator,
         y.item = x.item, y.rounds = x.rounds,
         y.next = 0 \/ (y.next = a.n /\ (c = "spawn" => ~Completed(a)))
  PROVE  RecordOk(y, b) /\ StagesInOrder(b)
<1>1. ~Ended(b) /\ (Completed(b) => c = "spawn" /\ Completed(a))
  BY DEF Ended, Completed
<1>2. ~a.approved /\ ~a.spent /\ ~a.rejected
  BY DEF RecordOk, Ended
<1>3. StagesInOrder(b)
  BY <1>1, <1>2 DEF StagesInOrder
<1>4. x.ending = "no" /\ x.status \notin {"done", "escalated", "planned", "removed"}
  BY DEF RecordOk
<1>5. y.status # "planned" /\ y.status # "removed" /\ y.ending = "no"
      /\ y.status \notin {"done", "escalated"}
  BY <1>4
<1>6. y.next \in {0, b.n} /\ (y.next = b.n => ~Completed(b))
  BY <1>1
<1>7. a.n \in Nat /\ y.next # b.n + 1
  BY <1>6 DEF Attempt
<1>8. RecordOk(y, b)
  BY <1>1, <1>2, <1>5, <1>6, <1>7 DEF RecordOk
<1> QED
  BY <1>3, <1>8

LEMMA StepResolve ==
  ASSUME Records, NEW s \in Subtask, Step(s) = "resolve", Unresolved(s),
         sub[s].next = Number(s)
  PROVE  /\ ~att[s].merged /\ Number(s) # 0
         /\ Number(s) = att[s].n => ~Ended(att[s])
         /\ Number(s) \in {att[s].n, att[s].n + 1}
<1>1. /\ sub[s] \in SubtaskState /\ att[s] \in Attempt /\ RecordOk(sub[s], att[s])
      /\ StagesInOrder(att[s])
  BY AtRecord
<1>2. CASE sub[s].status = "planned"
  <2>1. att[s] = Fresh(0, FALSE)
    BY <1>1, <1>2 DEF RecordOk
  <2>2. att[s].n = 0 /\ ~att[s].merged /\ Number(s) = 1
    BY <1>2, <2>1 DEF Fresh, Number
  <2>3. Number(s) \in {0, 0 + 1} /\ Number(s) # 0
    BY <2>2
  <2> QED
    BY <2>2, <2>3
<1>3. CASE sub[s].status # "planned"
  <2>1. att[s].n # 0
    BY <1>1, <1>3 DEF RecordOk, Unresolved
  <2>2. sub[s].next # 0
    BY <1>3, <2>1 DEF Number
  <2>3. sub[s].next \in {att[s].n, att[s].n + 1} /\ (sub[s].next = att[s].n => ~Ended(att[s]))
    BY <1>1, <2>1, <2>2 DEF RecordOk
  <2>4. ~att[s].merged
    <3>1. CASE att[s].approved
      BY <1>3, <3>1 DEF Step
    <3>2. CASE ~att[s].approved /\ att[s].spent
      BY <1>1, <3>2 DEF RecordOk
    <3>3. CASE ~att[s].approved /\ ~att[s].spent /\ Ended(att[s])
      BY <1>1, <3>3, PassNotEnded DEF RecordOk
    <3>4. CASE ~att[s].approved /\ ~att[s].spent /\ ~Ended(att[s])
      BY <1>3, <3>4 DEF Step, ResumePoint
    <3> QED
      BY <3>1, <3>2, <3>3, <3>4
  <2> QED
    BY <2>2, <2>3, <2>4
<1> QED
  BY <1>2, <1>3

LEMMA BeginRecords ==
  ASSUME Records, NEW s \in Subtask, BeginAttempt(s) PROVE Recorded
<1> DEFINE n == Number(s)
           new == att[s].n # n
           fixNext == sub[s].fixNext /\ ~new
           fixUsed == sub[s].fixUsed \/ (new /\ sub[s].fixNext)
           unjudged == sub[s].unjudged \/ (new /\ att[s].n # 0 /\ ~att[s].judged)
           x == [sub[s] EXCEPT !.status = "active", !.next = 0, !.fixNext = fixNext,
                               !.fixUsed = fixUsed, !.unjudged = unjudged]
           fresh == [Fresh(n, sub[s].fixNext) EXCEPT !.cursor = "resolve"]
           again == Restarted(att[s], "resolve")
<1>0. /\ sub[s] \in SubtaskState /\ att[s] \in Attempt /\ RecordOk(sub[s], att[s])
      /\ StagesInOrder(att[s])
  BY AtRecord
<1>1. CASE sub' = sub /\ att' = att
  BY <1>1, RecordsSame
<1>2. CASE /\ sub' = [sub EXCEPT ![s] = x]
           /\ att' = [att EXCEPT ![s] = IF new THEN fresh ELSE again]
           /\ Unresolved(s) /\ sub[s].next = n /\ Step(s) = "resolve"
           /\ new => n <= Budget \/ sub[s].fixNext
  <2>1. ~att[s].merged /\ n # 0 /\ (~new => ~Ended(att[s])) /\ n \in {att[s].n, att[s].n + 1}
    BY <1>2, StepResolve
  <2>2. n \in 0 .. Budget + 1
    BY <1>0, <1>2 DEF SubtaskState
  <2>3. /\ sub[s].fixNext \in BOOLEAN /\ sub[s].fixUsed \in BOOLEAN
        /\ sub[s].unjudged \in BOOLEAN
    BY <1>0 DEF SubtaskState
  <2>4. fixNext \in BOOLEAN /\ fixUsed \in BOOLEAN /\ unjudged \in BOOLEAN
    BY <2>3, Zenon
  <2> HIDE DEF n, new, fixNext, fixUsed, unjudged
  <2>5. x \in SubtaskState /\ x.status = "active" /\ x.next = 0 /\ x.ending = sub[s].ending
        /\ x.indicator = sub[s].indicator /\ x.item = sub[s].item /\ x.rounds = sub[s].rounds
    <3> DEFINE y == [sub[s] EXCEPT !.status = "active", !.next = 0]
    <3>1. 0 \in 0 .. Budget + 1
      BY LoopAssumption
    <3>2. y \in SubtaskState /\ y.status = "active" /\ y.next = 0 /\ y.ending = sub[s].ending
          /\ y.indicator = sub[s].indicator /\ y.item = sub[s].item /\ y.rounds = sub[s].rounds
      BY <1>0, <3>1 DEF SubtaskState
    <3> HIDE DEF y
    <3>3. LET z == [y EXCEPT !.fixNext = fixNext, !.fixUsed = fixUsed, !.unjudged = unjudged]
          IN  /\ z \in SubtaskState /\ z.status = y.status /\ z.next = y.next
              /\ z.ending = y.ending /\ z.indicator = y.indicator /\ z.item = y.item
              /\ z.rounds = y.rounds
      BY <2>4, <3>2 DEF SubtaskState
    <3>4. x = [y EXCEPT !.fixNext = fixNext, !.fixUsed = fixUsed, !.unjudged = unjudged]
      BY DEF y
    <3> QED
      BY <3>2, <3>3, <3>4
  <2>6. sub[s].ending = "no"
    BY <1>0, <1>2 DEF Step, Unresolved, RecordOk
  <2> HIDE DEF x
  <2>7. CASE new
    <3>1. /\ fresh \in Attempt /\ fresh.n = n /\ fresh.cursor = "resolve"
          /\ fresh.fix = sub[s].fixNext
          /\ fresh.session = "none" /\ fresh.changes = "none" /\ fresh.gate = "none"
          /\ fresh.review = "none" /\ fresh.unavail = "none" /\ fresh.rejected = FALSE
          /\ fresh.merged = FALSE /\ fresh.applied = 0 /\ fresh.pending = FALSE
          /\ fresh.routed = "none" /\ fresh.approved = FALSE /\ fresh.spent = FALSE
      <4>1. 0 \in 0..Retries /\ 0 \in 0..Proposals
        BY LoopAssumption
      <4> QED
        BY <2>2, <2>3, <4>1 DEF fresh, Fresh, Attempt
    <3> HIDE DEF fresh
    <3>2. ~Ended(fresh) /\ ~Completed(fresh)
      BY <3>1 DEF Ended, Completed
    <3>3. n > Budget => sub[s].fixNext
      BY <1>2, <2>2, <2>7, LoopAssumption
    <3>4. RecordOk(x, fresh)
      BY <2>1, <2>2, <2>5, <2>6, <3>1, <3>2, <3>3 DEF RecordOk
    <3>5. StagesInOrder(fresh)
      BY <3>1 DEF StagesInOrder
    <3> QED
      BY <1>2, <2>5, <2>7, <3>1, <3>4, <3>5, RecordsMove
  <2>8. CASE ~new
    <3>1. /\ again \in Attempt /\ again.cursor = "resolve" /\ again.session = "none"
          /\ again.changes = "none" /\ again.gate = "none" /\ again.review = "none"
          /\ again.unavail = "none" /\ again.n = att[s].n
          /\ again.rejected = att[s].rejected
          /\ again.merged = att[s].merged /\ again.applied = att[s].applied
          /\ again.pending = att[s].pending /\ again.fix = att[s].fix
          /\ again.approved = att[s].approved /\ again.spent = att[s].spent
      BY <1>0, RestartedFields
    <3> HIDE DEF again
    <3>2. att[s].n # 0 /\ sub[s].status = "active"
      BY <1>0, <1>2, <2>1, <2>8 DEF new, RecordOk, Unresolved
    <3>3. RecordOk(x, again) /\ StagesInOrder(again)
      BY <1>0, <2>1, <2>5, <2>8, <3>1, <3>2, RestartedOk
    <3> QED
      BY <1>2, <2>5, <2>8, <3>1, <3>3, RecordsMove
  <2> QED
    BY <2>7, <2>8
<1> QED
  BY <1>1, <1>2 DEF BeginAttempt, Raise, replayed, Drives

\* What an attempt's judgement leaves as it is.
SameFate(a, b) == /\ b.n = a.n /\ b.fix = a.fix /\ b.applied = a.applied
                  /\ b.pending = a.pending /\ b.merged = a.merged
                  /\ b.approved = a.approved /\ b.spent = a.spent

\* A judgement of an attempt that has not ended, which may end it.
LEMMA JudgedOk ==
  ASSUME NEW x, NEW a \in Attempt, NEW y, NEW b, RecordOk(x, a), ~Ended(a), ~a.merged,
         x.status = "active", SameFate(a, b), y.status = "active", y.next = 0,
         y.ending = "no" \/ Ended(b), b.fix /\ b.review = "blocked" => y.ending = "fix"
  PROVE  RecordOk(y, b)
<1>1. ~a.approved /\ ~a.spent
  BY DEF RecordOk
<1>2. a.n \in Nat /\ a.n # 0
  BY DEF RecordOk, Attempt
<1>3. y.next # b.n + 1 /\ b.n # 0 /\ y.next # b.n
  BY <1>2 DEF SameFate
<1> QED
  BY <1>1, <1>3 DEF SameFate, RecordOk

\* What a judging step starts from.
LEMMA AtJudgement ==
  ASSUME Records, PlacesOk, NEW s \in Subtask, IsCurrent(s), pc \in Judged
  PROVE  /\ sub[s] \in SubtaskState /\ att[s] \in Attempt
         /\ RecordOk(sub[s], att[s]) /\ StagesInOrder(att[s])
         /\ sub[s].status = "active" /\ sub[s].next = 0 /\ ~Ended(att[s]) /\ ~att[s].merged
         /\ att[s].n # 0 /\ sub[s].ending = "no"
<1>1. /\ sub[s] \in SubtaskState /\ att[s] \in Attempt
      /\ RecordOk(sub[s], att[s]) /\ StagesInOrder(att[s]) /\ PlaceOk(pc, sub[s], att[s])
  BY AtRecord, AtPlace
<1>2. sub[s].status = "active" /\ sub[s].next = 0 /\ ~Ended(att[s]) /\ ~att[s].merged
  BY <1>1 DEF PlaceOk
<1> QED
  BY <1>1, <1>2 DEF RecordOk

\* Entering a stage moves where the attempt stands and nothing else.
LEMMA EnterRecords ==
  ASSUME Records, NEW s \in Subtask,
         NEW c \in {"spawn", "verify_reading", "implement", "gate", "review", "decide", "diff"},
         c = "implement" => att[s].session = "read", c = "gate" => att[s].changes = "ok",
         c = "review" => GateLets(att[s]), Active(s),
         sub' = sub, att' = [att EXCEPT ![s] = [att[s] EXCEPT !.cursor = c]]
  PROVE  Recorded
<1> DEFINE b == [att[s] EXCEPT !.cursor = c]
<1>1. b \in Attempt /\ RecordOk(sub[s], b) /\ StagesInOrder(b)
  BY AtRecord, CursorMove DEF Active
<1> HIDE DEF b
<1>2. att' = [att EXCEPT ![s] = b]
  BY DEF b
<1> QED
  BY <1>1, <1>2, AttemptMoves

LEMMA StageRecords ==
  ASSUME Records, NEW s \in Subtask,
         Spawn(s) \/ EnterStage(s) \/ EnterReject(s) \/ EnterDiff(s)
  PROVE  Recorded
<1> DEFINE Enters(c) == /\ Active(s) /\ sub' = sub
                        /\ att' = [att EXCEPT ![s] = [att[s] EXCEPT !.cursor = c]]
<1>1. CASE sub' = sub /\ att' = att
  BY <1>1, RecordsSame
<1>2. CASE Spawn(s)
  <2>1. Enters("spawn") \/ (sub' = sub /\ att' = att)
    BY <1>2 DEF Spawn, EmitAtt, Emit, Raise, replayed
  <2> QED
    BY <1>1, <2>1, EnterRecords
<1>3. CASE EnterStage(s)
  <2>1. PICK stage \in {"verify_reading", "implement", "gate", "review", "decide"} :
          /\ JudgesNext(att[s], stage)
          /\ (Enters(stage) /\ CanEnter(att[s], stage)) \/ (sub' = sub /\ att' = att)
    BY <1>3 DEF EnterStage, EmitAtt, Emit, Raise, replayed
  <2>2. CASE Enters(stage) /\ CanEnter(att[s], stage)
    <3>1. /\ stage = "implement" => att[s].session = "read"
          /\ stage = "gate" => att[s].changes = "ok"
          /\ stage = "review" => GateLets(att[s])
      BY <2>2 DEF CanEnter
    <3> QED
      BY <2>2, <3>1, EnterRecords
  <2> QED
    BY <1>1, <2>1, <2>2
<1>4. CASE EnterReject(s)
  <2>1. Enters("decide") \/ (sub' = sub /\ att' = att)
    BY <1>4 DEF EnterReject, EmitAtt, Emit, Raise, replayed
  <2> QED
    BY <1>1, <2>1, EnterRecords
<1>5. CASE EnterDiff(s)
  <2>1. Enters("diff") \/ (sub' = sub /\ att' = att)
    BY <1>5 DEF EnterDiff, EmitAtt, Emit, Raise, replayed
  <2> QED
    BY <1>1, <2>1, EnterRecords
<1> QED
  BY <1>2, <1>3, <1>4, <1>5

LEMMA SessionRecords ==
  ASSUME Records, PlacesOk, NEW s \in Subtask,
         NEW end \in {"read", "unread", "infra", "refused"}, NEW shows, SessionEnds(s, end, shows)
  PROVE  Recorded
<1> DEFINE b == [att[s] EXCEPT !.session = end]
<1>1. CASE sub' = sub /\ att' = att
  BY <1>1, RecordsSame
<1>2. CASE /\ sub' = sub /\ att' = [att EXCEPT ![s] = b] /\ IsCurrent(s) /\ pc = "running"
           /\ att[s].cursor = "spawn" /\ att[s].session = "none"
  <2>1. pc \in Judged
    BY <1>2 DEF Judged
  <2>2. /\ sub[s] \in SubtaskState /\ att[s] \in Attempt
        /\ RecordOk(sub[s], att[s]) /\ StagesInOrder(att[s])
        /\ sub[s].status = "active" /\ sub[s].next = 0 /\ ~Ended(att[s]) /\ ~att[s].merged
        /\ sub[s].ending = "no"
    BY <1>2, <2>1, AtJudgement
  <2>3. /\ b \in Attempt /\ SameFate(att[s], b) /\ b.session = end /\ b.cursor = "spawn"
        /\ b.changes = att[s].changes /\ b.gate = att[s].gate /\ b.review = att[s].review
        /\ b.unavail = att[s].unavail /\ b.rejected = att[s].rejected
    BY <1>2, <2>2 DEF Attempt, SameFate
  <2> HIDE DEF b
  <2>4. StagesInOrder(b)
    BY <1>2, <2>2, <2>3 DEF StagesInOrder, Ended, GateLets
  <2>5. b.review # "blocked"
    BY <2>2, <2>3 DEF Ended
  <2>6. RecordOk(sub[s], b)
    BY <2>2, <2>3, <2>5, JudgedOk
  <2> QED
    BY <1>2, <2>3, <2>4, <2>6, AttemptMoves
<1> QED
  BY <1>1, <1>2 DEF SessionEnds

LEMMA ChangesRecords ==
  ASSUME Records, PlacesOk, NEW s \in Subtask, NEW found \in {"ok", "refused"},
         CheckChanges(s, found)
  PROVE  Recorded
<1> DEFINE b == [att[s] EXCEPT !.changes = found]
<1>1. CASE sub' = sub /\ att' = att
  BY <1>1, RecordsSame
<1>2. CASE /\ sub' = sub /\ att' = [att EXCEPT ![s] = b] /\ IsCurrent(s) /\ pc = "judge"
           /\ att[s].cursor = "implement" /\ att[s].changes = "none"
  <2>1. pc \in Judged
    BY <1>2 DEF Judged
  <2>2. /\ sub[s] \in SubtaskState /\ att[s] \in Attempt
        /\ RecordOk(sub[s], att[s]) /\ StagesInOrder(att[s])
        /\ sub[s].status = "active" /\ sub[s].next = 0 /\ ~Ended(att[s]) /\ ~att[s].merged
        /\ sub[s].ending = "no"
    BY <1>2, <2>1, AtJudgement
  <2>3. /\ b \in Attempt /\ SameFate(att[s], b) /\ b.changes = found /\ b.cursor = "implement"
        /\ b.session = att[s].session /\ b.gate = att[s].gate /\ b.review = att[s].review
        /\ b.unavail = att[s].unavail /\ b.rejected = att[s].rejected
    BY <1>2, <2>2 DEF Attempt, SameFate
  <2> HIDE DEF b
  <2>4. StagesInOrder(b)
    BY <1>2, <2>2, <2>3 DEF StagesInOrder, Ended, GateLets
  <2>5. b.review # "blocked"
    BY <2>2, <2>3 DEF Ended
  <2>6. RecordOk(sub[s], b)
    BY <2>2, <2>3, <2>5, JudgedOk
  <2> QED
    BY <1>2, <2>3, <2>4, <2>6, AttemptMoves
<1> QED
  BY <1>1, <1>2 DEF CheckChanges, EmitAtt, Emit, Raise, replayed

LEMMA GateRecords ==
  ASSUME Records, PlacesOk, NEW s \in Subtask, NEW verdict \in {"skipped", "pass", "fail"},
         RunGate(s, verdict)
  PROVE  Recorded
<1> DEFINE b == [att[s] EXCEPT !.gate = verdict]
<1>1. CASE sub' = sub /\ att' = att
  BY <1>1, RecordsSame
<1>2. CASE /\ sub' = sub /\ att' = [att EXCEPT ![s] = b] /\ IsCurrent(s) /\ pc = "judge"
           /\ att[s].cursor = "gate" /\ att[s].gate = "none"
           /\ (verdict = "skipped") = (GateMode = "off")
  <2>1. pc \in Judged
    BY <1>2 DEF Judged
  <2>2. /\ sub[s] \in SubtaskState /\ att[s] \in Attempt
        /\ RecordOk(sub[s], att[s]) /\ StagesInOrder(att[s])
        /\ sub[s].status = "active" /\ sub[s].next = 0 /\ ~Ended(att[s]) /\ ~att[s].merged
        /\ sub[s].ending = "no"
    BY <1>2, <2>1, AtJudgement
  <2>3. /\ b \in Attempt /\ SameFate(att[s], b) /\ b.gate = verdict /\ b.cursor = "gate"
        /\ b.session = att[s].session /\ b.changes = att[s].changes
        /\ b.review = att[s].review
        /\ b.unavail = att[s].unavail /\ b.rejected = att[s].rejected
    BY <1>2, <2>2 DEF Attempt, SameFate
  <2> HIDE DEF b
  <2>4. StagesInOrder(b)
    BY <1>2, <2>2, <2>3 DEF StagesInOrder, Ended, GateLets
  <2>5. b.review # "blocked"
    BY <2>2, <2>3 DEF Ended
  <2>6. RecordOk(sub[s], b)
    BY <2>2, <2>3, <2>5, JudgedOk
  <2> QED
    BY <1>2, <2>3, <2>4, <2>6, AttemptMoves
<1>3. (sub' = sub /\ att' = att) \/ (sub' = sub /\ att' = [att EXCEPT ![s].gate = verdict])
  BY DEF RunGate, Emit, Raise, replayed
<1>4. att' = [att EXCEPT ![s].gate = verdict] => att' = [att EXCEPT ![s] = b]
  BY DEF Records, RecordType
<1>5. /\ IsCurrent(s) /\ pc = "judge" /\ att[s].cursor = "gate" /\ att[s].gate = "none"
      /\ (verdict = "skipped") = (GateMode = "off")
  BY DEF RunGate
<1> QED
  BY <1>1, <1>2, <1>3, <1>4, <1>5

\* What ends an attempt is routed, or ends the subtask, where a person had ordered it.
LEMMA EndingRecords ==
  ASSUME Records, PlacesOk, NEW s \in Subtask, IsCurrent(s), pc \in Judged,
         NEW b \in Attempt, SameFate(att[s], b), StagesInOrder(b), Ended(b),
         b.review = "blocked" => b.unavail # "final", Ending(s, b)
  PROVE  Recorded
<1> DEFINE by == IF b.fix /\ b.unavail = "final" THEN "yes" ELSE b.routed
           end == IF b.fix /\ b.unavail # "final" THEN "fix" ELSE sub[s].ending
           c == [b EXCEPT !.routed = by]
           x == [sub[s] EXCEPT !.ending = end]
<1>1. /\ sub[s] \in SubtaskState /\ att[s] \in Attempt
      /\ RecordOk(sub[s], att[s]) /\ StagesInOrder(att[s])
      /\ sub[s].status = "active" /\ sub[s].next = 0 /\ ~Ended(att[s]) /\ ~att[s].merged
      /\ sub[s].ending = "no"
  BY AtJudgement
<1>2. by \in {"none", "yes", "no"} /\ end \in {"no", "fix"}
  BY <1>1 DEF Attempt
<1>3. b.fix /\ b.review = "blocked" => end = "fix"
  OBVIOUS
<1>4. att' = [att EXCEPT ![s] = c] /\ sub' = [sub EXCEPT ![s] = x]
  BY DEF Ending, Records, RecordType
<1> HIDE DEF by, end
<1>5. x \in SubtaskState /\ x.status = "active" /\ x.next = 0 /\ x.ending = end
  BY <1>1, <1>2 DEF SubtaskState
<1>6. /\ c \in Attempt /\ SameFate(b, c) /\ c.session = b.session /\ c.changes = b.changes
      /\ c.gate = b.gate /\ c.review = b.review /\ c.unavail = b.unavail
      /\ c.rejected = b.rejected /\ c.cursor = b.cursor
  BY <1>2 DEF Attempt, SameFate
<1> HIDE DEF x, c
<1>7. StagesInOrder(c) /\ Ended(c) /\ SameFate(att[s], c)
  BY <1>6 DEF StagesInOrder, GateLets, Refused, Ended, SameFate
<1>8. c.fix /\ c.review = "blocked" => x.ending = "fix"
  BY <1>3, <1>5, <1>6 DEF SameFate
<1>9. RecordOk(x, c)
  BY <1>1, <1>5, <1>7, <1>8, JudgedOk
<1> QED
  BY <1>4, <1>5, <1>6, <1>7, <1>9, RecordsMove

LEMMA ReviewRecords ==
  ASSUME Records, PlacesOk, NEW s \in Subtask, NEW verdict \in {"pass", "fail", "gaming", "blocked"},
         Review(s, verdict)
  PROVE  Recorded
<1> DEFINE result == IF verdict = "gaming" THEN "fail" ELSE verdict
           b == [att[s] EXCEPT !.review = result, !.judged = TRUE]
           seen == sub[s].indicator \/ verdict = "gaming"
           x == [sub[s] EXCEPT !.indicator = seen]
<1>1. CASE sub' = sub /\ att' = att
  BY <1>1, RecordsSame
<1>2. CASE /\ IsCurrent(s) /\ pc = "judge" /\ att[s].cursor = "review" /\ att[s].review = "none"
           /\ b.unavail # "final"
           /\ IF result = "blocked" THEN Ending(s, b)
              ELSE att' = [att EXCEPT ![s] = b] /\ sub' = [sub EXCEPT ![s] = x]
  <2>1. pc \in Judged
    BY <1>2 DEF Judged
  <2>2. /\ sub[s] \in SubtaskState /\ att[s] \in Attempt
        /\ RecordOk(sub[s], att[s]) /\ StagesInOrder(att[s])
        /\ sub[s].status = "active" /\ sub[s].next = 0 /\ ~Ended(att[s]) /\ ~att[s].merged
        /\ sub[s].ending = "no"
    BY <1>2, <2>1, AtJudgement
  <2>3. result \in {"pass", "fail", "blocked"}
    OBVIOUS
  <2> HIDE DEF result
  <2>4. /\ b \in Attempt /\ SameFate(att[s], b) /\ b.review = result /\ b.cursor = "review"
        /\ b.session = att[s].session /\ b.changes = att[s].changes /\ b.gate = att[s].gate
        /\ b.unavail = att[s].unavail /\ b.rejected = att[s].rejected
    <3>1. b \in Attempt
      BY <2>2, <2>3, ReviewedType
    <3> QED
      BY <1>2, <2>2, <2>3, <3>1 DEF Attempt, SameFate
  <2>5. seen \in BOOLEAN
    BY <2>2 DEF SubtaskState
  <2> HIDE DEF seen
  <2>6. x \in SubtaskState /\ x.status = "active" /\ x.next = 0 /\ x.ending = "no"
    BY <2>2, <2>5 DEF SubtaskState
  <2> HIDE DEF b, x
  <2>7. StagesInOrder(b)
    BY <1>2, <2>2, <2>4 DEF StagesInOrder, Ended, GateLets, Refused
  <2>8. CASE result = "blocked"
    <3>1. Ended(b)
      BY <2>4, <2>8 DEF Ended
    <3> QED
      BY <1>2, <2>1, <2>4, <2>7, <2>8, <3>1, EndingRecords
  <2>9. CASE result # "blocked"
    <3>1. RecordOk(x, b)
      BY <2>2, <2>4, <2>6, <2>9, JudgedOk
    <3> QED
      BY <1>2, <2>4, <2>6, <2>7, <2>9, <3>1, RecordsMove
  <2> QED
    BY <2>8, <2>9
<1>3. sub' = [sub EXCEPT ![s].indicator = @ \/ verdict = "gaming"] => sub' = [sub EXCEPT ![s] = x]
  BY DEF Records, RecordType
<1>4. \/ sub' = sub /\ att' = att
      \/ /\ b.unavail # "final"
         /\ IF result = "blocked" THEN Ending(s, b)
            ELSE /\ att' = [att EXCEPT ![s] = b]
                 /\ sub' = [sub EXCEPT ![s].indicator = @ \/ verdict = "gaming"]
  BY DEF Review, Emit, Raise, replayed
<1>5. IsCurrent(s) /\ pc = "judge" /\ att[s].cursor = "review" /\ att[s].review = "none"
  <2>1. IsCurrent(s) /\ pc = "judge" /\ b.cursor = "review" /\ att[s].review = "none"
    BY DEF Review
  <2>2. att[s] \in Attempt
    BY DEF Records, RecordType
  <2>3. b.cursor = att[s].cursor
    BY <2>2 DEF Attempt
  <2> QED
    BY <2>1, <2>3
<1> HIDE DEF b, x, result
<1> QED
  BY <1>1, <1>2, <1>3, <1>4, <1>5

LEMMA UnavailableRecords ==
  ASSUME Records, PlacesOk, NEW s \in Subtask, NEW retry \in BOOLEAN, ReviewUnavailable(s, retry)
  PROVE  Recorded
<1> DEFINE word == IF retry THEN "retried" ELSE "final"
           b == [att[s] EXCEPT !.unavail = word]
<1>1. CASE sub' = sub /\ att' = att
  BY <1>1, RecordsSame
<1>2. CASE /\ IsCurrent(s) /\ pc = "judge" /\ b.cursor = "review" /\ b.review = "none"
           /\ IF retry THEN att' = [att EXCEPT ![s] = b] /\ sub' = sub ELSE Ending(s, b)
  <2>1. pc \in Judged
    BY <1>2 DEF Judged
  <2>2. /\ sub[s] \in SubtaskState /\ att[s] \in Attempt
        /\ RecordOk(sub[s], att[s]) /\ StagesInOrder(att[s])
        /\ sub[s].status = "active" /\ sub[s].next = 0 /\ ~Ended(att[s]) /\ ~att[s].merged
        /\ sub[s].ending = "no"
    BY <1>2, <2>1, AtJudgement
  <2>3. word \in {"retried", "final"} /\ (word = "final" <=> ~retry)
    OBVIOUS
  <2> HIDE DEF word
  <2>4. /\ b \in Attempt /\ SameFate(att[s], b) /\ b.review = att[s].review /\ b.unavail = word
        /\ b.session = att[s].session /\ b.changes = att[s].changes /\ b.gate = att[s].gate
        /\ b.cursor = att[s].cursor /\ b.rejected = att[s].rejected
    BY <2>2, <2>3 DEF Attempt, SameFate
  <2> HIDE DEF b
  <2>5. att[s].cursor = "review" /\ att[s].review = "none"
    BY <1>2, <2>4
  <2>6. StagesInOrder(b)
    BY <2>2, <2>4, <2>5 DEF StagesInOrder, Ended, GateLets, Refused
  <2>7. CASE retry
    <3>1. RecordOk(sub[s], b)
      BY <2>2, <2>4, <2>5, JudgedOk
    <3> QED
      BY <1>2, <2>4, <2>6, <2>7, <3>1, AttemptMoves
  <2>8. CASE ~retry
    <3>1. Ended(b) /\ b.review # "blocked"
      BY <2>3, <2>4, <2>5, <2>8 DEF Ended
    <3> QED
      BY <1>2, <2>1, <2>4, <2>6, <2>8, <3>1, EndingRecords
  <2> QED
    BY <2>7, <2>8
<1> HIDE DEF Records, PlacesOk
<1> QED
  BY <1>1, <1>2 DEF ReviewUnavailable, Emit, Raise, replayed

\* Whatever refuses an attempt at its stage is a refusal.
LEMMA RejectableRefused ==
  ASSUME NEW a \in Attempt, Rejectable(a) PROVE Refused(a)
BY DEF Rejectable, Refused

LEMMA RejectRecords ==
  ASSUME Records, PlacesOk, NEW s \in Subtask, RejectAttempt(s) PROVE Recorded
<1> DEFINE b == [att[s] EXCEPT !.rejected = TRUE]
<1>1. CASE sub' = sub /\ att' = att
  BY <1>1, RecordsSame
<1>2. CASE /\ IsCurrent(s) /\ pc = "reject" /\ b.cursor = "decide" /\ Rejectable(att[s])
           /\ Ending(s, b)
  <2>1. pc \in Judged
    BY <1>2 DEF Judged
  <2>2. /\ sub[s] \in SubtaskState /\ att[s] \in Attempt
        /\ RecordOk(sub[s], att[s]) /\ StagesInOrder(att[s])
        /\ sub[s].status = "active" /\ sub[s].next = 0 /\ ~Ended(att[s]) /\ ~att[s].merged
        /\ sub[s].ending = "no"
    BY <1>2, <2>1, AtJudgement
  <2>3. /\ b \in Attempt /\ SameFate(att[s], b) /\ b.review = att[s].review
        /\ b.unavail = att[s].unavail /\ b.session = att[s].session
        /\ b.changes = att[s].changes /\ b.gate = att[s].gate
        /\ b.cursor = att[s].cursor /\ b.rejected
    <3>1. b \in Attempt
      BY <2>2, RejectedType
    <3> QED
      BY <2>2, <3>1 DEF Attempt, SameFate
  <2>4. Refused(att[s])
    BY <1>2, <2>2, RejectableRefused
  <2>5. StagesInOrder(b) /\ Ended(b) /\ b.review # "blocked"
    <3> HIDE DEF b
    <3> QED
      BY <2>2, <2>3, <2>4 DEF StagesInOrder, Ended, GateLets, Refused
  <2> HIDE DEF b
  <2> QED
    BY <1>2, <2>1, <2>3, <2>5, EndingRecords
<1> QED
  BY <1>1, <1>2 DEF RejectAttempt, Emit, Raise, replayed

\* What each step of an attempt says of it.
LEMMA StepFacts ==
  ASSUME NEW s \in Subtask
  PROVE  /\ Step(s) = "decide" => /\ sub[s].ending = "no" /\ ~att[s].approved
                                  /\ Ended(att[s]) /\ att[s].routed = "none"
         /\ Step(s) = "escalate" => /\ sub[s].ending = "no" /\ ~att[s].approved
                                    /\ Ended(att[s]) /\ att[s].routed = "yes"
         /\ Step(s) = "infra" => /\ sub[s].ending = "no" /\ ~att[s].approved
                                 /\ ~Ended(att[s]) /\ Failed(att[s]) /\ sub[s].next = 0
         /\ Step(s) = "merge" => /\ sub[s].ending = "no" /\ att[s].approved /\ ~att[s].merged
         /\ Step(s) = "diff" => att[s].merged
         /\ Step(s) = "verify_reading" =>
              /\ sub[s].ending = "no" /\ ~att[s].approved /\ ~Ended(att[s])
              /\ ~att[s].merged /\ Completed(att[s]) /\ ~(att[s].spent /\ sub[s].next # 0)
BY DEF Step, ResumePoint

\* An attempt that ended and that no person approved is not merged.
LEMMA EndedNotMerged ==
  ASSUME NEW x, NEW a \in Attempt, RecordOk(x, a), StagesInOrder(a), Ended(a), ~a.approved
  PROVE  ~a.merged
BY PassNotEnded DEF RecordOk

LEMMA DecideRecords ==
  ASSUME Records, NEW s \in Subtask, Decide(s) PROVE Recorded
<1> DEFINE forced == ~att[s].rejected \/ att[s].n >= Budget
           by == IF forced THEN "yes" ELSE "no"
           next == IF forced THEN sub[s].next ELSE att[s].n + 1
           b == [att[s] EXCEPT !.routed = by]
           x == [sub[s] EXCEPT !.next = next]
<1>1. CASE sub' = sub /\ att' = att
  BY <1>1, RecordsSame
<1>2. CASE /\ Active(s) /\ Step(s) = "decide"
           /\ att' = [att EXCEPT ![s] = b] /\ sub' = [sub EXCEPT ![s] = x]
  <2>1. /\ sub[s] \in SubtaskState /\ att[s] \in Attempt
        /\ RecordOk(sub[s], att[s]) /\ StagesInOrder(att[s])
        /\ sub[s].status = "active" /\ att[s].n # 0 /\ Ended(att[s])
    BY <1>2, AtRecord, StepFacts DEF Active
  <2>2. by \in {"yes", "no"} /\ next \in 0 .. Budget + 1 /\ next \in {sub[s].next, att[s].n + 1}
    BY <2>1, LoopAssumption DEF SubtaskState, Attempt
  <2> HIDE DEF by, next, forced
  <2>3. /\ x \in SubtaskState /\ x.next = next /\ x.status = "active"
        /\ x.ending = sub[s].ending /\ x.indicator = sub[s].indicator
    BY <2>1, <2>2 DEF SubtaskState
  <2>4. /\ b \in Attempt /\ SameFate(att[s], b) /\ b.review = att[s].review
        /\ b.unavail = att[s].unavail /\ b.session = att[s].session
        /\ b.changes = att[s].changes /\ b.gate = att[s].gate
        /\ b.cursor = att[s].cursor /\ b.rejected = att[s].rejected
    BY <2>1, <2>2 DEF Attempt, SameFate
  <2> HIDE DEF b, x
  <2>5. StagesInOrder(b)
    BY <2>1, <2>4 DEF StagesInOrder, GateLets, Refused
  <2>6. Ended(b) /\ Cleared(b) = Cleared(att[s]) /\ Completed(b) = Completed(att[s])
    BY <2>1, <2>4 DEF Ended, Cleared, Completed, GateLets
  <2>7. att[s].n \in Nat /\ (x.next = b.n => sub[s].next = att[s].n)
    BY <2>1, <2>2, <2>3, <2>4 DEF Attempt, SameFate
  <2>8. RecordOk(x, b)
    BY <2>1, <2>2, <2>3, <2>4, <2>6, <2>7, ZenonT(40) DEF RecordOk, SameFate
  <2> QED
    BY <1>2, <2>3, <2>4, <2>5, <2>8, RecordsMove
<1>3. [sub EXCEPT ![s].next = IF forced THEN @ ELSE att[s].n + 1] = [sub EXCEPT ![s] = x]
  BY DEF Records, RecordType
<1>4. [att EXCEPT ![s].routed = by] = [att EXCEPT ![s] = b]
  BY DEF Records, RecordType
<1>5. Step(s) = "decide"
  BY DEF Decide, Drives
<1>6. \/ sub' = sub /\ att' = att
      \/ /\ Active(s) /\ att' = [att EXCEPT ![s].routed = by]
         /\ sub' = [sub EXCEPT ![s].next = IF forced THEN @ ELSE att[s].n + 1]
  BY DEF Decide, Emit, Raise, replayed
<1> HIDE DEF b, x, by, forced
<1> QED
  BY <1>1, <1>2, <1>3, <1>4, <1>5, <1>6

LEMMA EscalatedRecords ==
  ASSUME Records, PlacesOk, NEW s \in Subtask, RecordEscalated(s) PROVE Recorded
<1> DEFINE x == [sub[s] EXCEPT !.status = "escalated", !.item = sub[s].rounds + 1,
                               !.rounds = sub[s].rounds + 1]
<1>1. CASE sub' = sub /\ att' = att
  BY <1>1, RecordsSame
<1>2. CASE att' = att /\ sub' = [sub EXCEPT ![s] = x] /\ Active(s) /\ Step(s) = "escalate"
  <2>1. /\ sub[s] \in SubtaskState /\ att[s] \in Attempt
        /\ RecordOk(sub[s], att[s]) /\ StagesInOrder(att[s])
        /\ sub[s].status = "active" /\ att[s].n # 0 /\ Ended(att[s])
        /\ sub[s].ending = "no" /\ ~att[s].approved /\ att[s].routed = "yes"
    BY <1>2, AtRecord, StepFacts DEF Active
  <2>2. ~att[s].merged
    BY <2>1, EndedNotMerged
  <2>3. sub[s].rounds + 1 \in Nat /\ sub[s].rounds + 1 # 0
    BY <2>1 DEF SubtaskState
  <2>4. /\ x \in SubtaskState /\ x.next = sub[s].next /\ x.status = "escalated"
        /\ x.ending = "no" /\ x.indicator = sub[s].indicator /\ x.item = x.rounds
        /\ x.rounds # 0
    BY <2>1, <2>3 DEF SubtaskState
  <2> HIDE DEF x
  <2>5. RecordOk(x, att[s])
    BY <2>1, <2>2, <2>4 DEF RecordOk
  <2> QED
    BY <1>2, <2>4, <2>5, SubtaskMoves
<1>3. [sub EXCEPT ![s].status = "escalated", ![s].item = sub[s].rounds + 1, ![s].rounds = @ + 1]
        = [sub EXCEPT ![s] = x]
  BY DEF Records, RecordType, SubtaskState
<1>4. Step(s) = "escalate"
  BY DEF PlacesOk, RecordEscalated
<1>5. \/ sub' = sub /\ att' = att
      \/ /\ att' = att /\ Active(s)
         /\ sub' = [sub EXCEPT ![s].status = "escalated", ![s].item = sub[s].rounds + 1,
                               ![s].rounds = @ + 1]
  BY DEF RecordEscalated, Emit, Raise, replayed
<1> HIDE DEF x
<1> QED
  BY <1>1, <1>2, <1>3, <1>4, <1>5

LEMMA InfraRecords ==
  ASSUME Records, NEW s \in Subtask, InfraFailed(s) PROVE Recorded
<1> DEFINE b == [att[s] EXCEPT !.retries = @ + 1]
           x == [sub[s] EXCEPT !.next = att[s].n]
<1>1. CASE sub' = sub /\ att' = att
  BY <1>1, RecordsSame
<1>2. CASE /\ Active(s) /\ Step(s) = "infra" /\ RetryLeft(att[s])
           /\ att' = [att EXCEPT ![s] = b] /\ sub' = [sub EXCEPT ![s] = x]
  <2>1. /\ sub[s] \in SubtaskState /\ att[s] \in Attempt
        /\ RecordOk(sub[s], att[s]) /\ StagesInOrder(att[s])
        /\ sub[s].status = "active" /\ att[s].n # 0 /\ ~Ended(att[s])
        /\ sub[s].ending = "no" /\ ~att[s].approved /\ Failed(att[s])
    BY <1>2, AtRecord, StepFacts DEF Active
  <2>2. ~att[s].merged /\ ~Completed(att[s])
    BY <2>1 DEF RecordOk, Cleared, Failed, Completed
  <2>3. att[s].retries + 1 \in 0..Retries
    BY <1>2, <2>1, LoopAssumption DEF Attempt, RetryLeft
  <2>4. b \in Attempt
    BY <2>1, <2>3 DEF Attempt
  <2>5. Alike(att[s], b) /\ b.cursor = att[s].cursor
    BY <2>1 DEF Attempt, Alike
  <2>6. /\ x \in SubtaskState /\ x.next = att[s].n /\ x.status = "active"
        /\ x.ending = "no" /\ x.indicator = sub[s].indicator
    BY <2>1 DEF SubtaskState, Attempt
  <2> HIDE DEF b, x
  <2>7. att[s].n # att[s].n + 1
    BY <2>1 DEF Attempt
  <2>8. RecordOk(x, att[s])
    BY <2>1, <2>2, <2>6, <2>7 DEF RecordOk
  <2>9. RecordOk(x, b)
    BY <2>1, <2>5, <2>8, AlikeOk
  <2>10. StagesInOrder(b)
    BY <2>1, <2>5 DEF Alike, StagesInOrder, GateLets, Refused
  <2> QED
    BY <1>2, <2>4, <2>6, <2>9, <2>10, RecordsMove
<1>3. [sub EXCEPT ![s].next = att[s].n] = [sub EXCEPT ![s] = x]
  BY DEF Records, RecordType
<1>4. [att EXCEPT ![s].retries = @ + 1] = [att EXCEPT ![s] = b]
  BY DEF Records, RecordType
<1>5. Step(s) = "infra"
  BY DEF InfraFailed, Drives
<1>6. \/ sub' = sub /\ att' = att
      \/ /\ Active(s) /\ RetryLeft(att[s])
         /\ att' = [att EXCEPT ![s].retries = @ + 1] /\ sub' = [sub EXCEPT ![s].next = att[s].n]
  BY DEF InfraFailed, Emit, Raise, replayed
<1> HIDE DEF b, x
<1> QED
  BY <1>1, <1>2, <1>3, <1>4, <1>5, <1>6

\* The count of the writes an attempt intended and accounted for.
LEMMA WriteRecords ==
  ASSUME Records, NEW s \in Subtask, NEW k \in 0..Proposals, NEW p \in BOOLEAN,
         p => k < Proposals, ~att[s].merged, Active(s),
         sub' = sub, att' = [att EXCEPT ![s] = [att[s] EXCEPT !.applied = k, !.pending = p]]
  PROVE  Recorded
<1> DEFINE b == [att[s] EXCEPT !.applied = k, !.pending = p]
<1>1. /\ sub[s] \in SubtaskState /\ att[s] \in Attempt
      /\ RecordOk(sub[s], att[s]) /\ StagesInOrder(att[s]) /\ att[s].n # 0
  BY AtRecord DEF Active
<1>2. /\ b \in Attempt /\ b.applied = k /\ b.pending = p /\ b.n = att[s].n /\ b.fix = att[s].fix
      /\ b.session = att[s].session /\ b.changes = att[s].changes /\ b.gate = att[s].gate
      /\ b.review = att[s].review /\ b.unavail = att[s].unavail /\ b.cursor = att[s].cursor
      /\ b.rejected = att[s].rejected /\ b.merged = att[s].merged
      /\ b.routed = att[s].routed /\ b.approved = att[s].approved /\ b.spent = att[s].spent
  BY <1>1 DEF Attempt
<1>3. att' = [att EXCEPT ![s] = b]
  OBVIOUS
<1> HIDE DEF b
<1>4. Ended(b) = Ended(att[s]) /\ Completed(b) = Completed(att[s]) /\ Cleared(b) = Cleared(att[s])
  BY <1>2 DEF Ended, Completed, Cleared, GateLets
<1>5. RecordOk(sub[s], b)
  BY <1>1, <1>2, <1>4 DEF RecordOk
<1>6. StagesInOrder(b)
  BY <1>1, <1>2 DEF StagesInOrder, GateLets, Refused
<1> QED
  BY <1>1, <1>2, <1>3, <1>5, <1>6, AttemptMoves

LEMMA WritingRecords ==
  ASSUME Records, PlacesOk, NEW s \in Subtask, IntendWrite(s) \/ RecordWrite(s)
  PROVE  Recorded
<1> DEFINE Writes(k, p) == /\ Active(s) /\ sub' = sub
                           /\ att' = [att EXCEPT ![s] = [att[s] EXCEPT !.applied = k, !.pending = p]]
<1>0. /\ att[s] \in Attempt /\ RecordOk(sub[s], att[s])
  BY AtRecord
<1>1. CASE sub' = sub /\ att' = att
  BY <1>1, RecordsSame
<1>2. CASE IntendWrite(s)
  <2>1. (Writes(att[s].applied, TRUE) /\ ~att[s].merged) \/ (sub' = sub /\ att' = att)
    <3>1. [att[s] EXCEPT !.pending = TRUE]
            = [att[s] EXCEPT !.applied = att[s].applied, !.pending = TRUE]
      BY <1>0 DEF Attempt
    <3> QED
      BY <1>2, <3>1 DEF IntendWrite, EmitAtt, Emit, Raise, replayed, Mergeable
  <2>2. att[s].applied \in 0..Proposals /\ att[s].applied < Proposals
    BY <1>0, <1>2 DEF IntendWrite, Attempt
  <2> QED
    BY <1>1, <2>1, <2>2, WriteRecords
<1>3. CASE RecordWrite(s)
  <2>1. [att EXCEPT ![s].applied = @ + 1, ![s].pending = FALSE]
          = [att EXCEPT ![s] = [att[s] EXCEPT !.applied = att[s].applied + 1, !.pending = FALSE]]
    BY DEF Records, RecordType
  <2>2. (Writes(att[s].applied + 1, FALSE) /\ att[s].pending) \/ (sub' = sub /\ att' = att)
    BY <1>3, <2>1 DEF RecordWrite, Emit, Raise, replayed
  <2>3. ~att[s].merged
    BY <1>3, AtPlace DEF RecordWrite, PlaceOk, Merged
  <2>4. att[s].pending => att[s].applied + 1 \in 0..Proposals
    BY <1>0, LoopAssumption DEF RecordOk, Attempt
  <2> QED
    BY <1>1, <2>2, <2>3, <2>4, WriteRecords
<1> QED
  BY <1>2, <1>3

LEMMA LineRecords ==
  ASSUME Records, CheckLine PROVE Recorded
<1>1. CASE sub' = sub /\ att' = att
  BY <1>1, RecordsSame
<1>2. ASSUME NEW s \in Subtask, Intended(s, journal[head + 1]), sub' = sub,
             att' = [att EXCEPT ![s].applied = @ + 1, ![s].pending = FALSE]
      PROVE  Recorded
  <2>1. [att EXCEPT ![s].applied = @ + 1, ![s].pending = FALSE]
          = [att EXCEPT ![s] = [att[s] EXCEPT !.applied = att[s].applied + 1, !.pending = FALSE]]
    BY DEF Records, RecordType
  <2>2. att[s] \in Attempt /\ RecordOk(sub[s], att[s]) /\ Active(s) /\ att[s].pending
    BY <1>2, AtRecord DEF Intended, FirstActive
  <2>3. ~att[s].merged /\ att[s].applied + 1 \in 0..Proposals
    BY <2>2, LoopAssumption DEF RecordOk, Attempt
  <2> QED
    BY <1>2, <2>1, <2>2, <2>3, WriteRecords
<1>3. \/ sub' = sub /\ att' = att
      \/ \E s \in Subtask : /\ Intended(s, journal[head + 1]) /\ sub' = sub
                            /\ att' = [att EXCEPT ![s].applied = @ + 1, ![s].pending = FALSE]
  BY DEF CheckLine, Incident, Raise, replayed
<1> QED
  BY <1>1, <1>2, <1>3

\* A merge is recorded of an attempt the place vouches for.
LEMMA MergeRecords ==
  ASSUME Records, PlacesOk, NEW s \in Subtask, RecordMerge(s) PROVE Recorded
<1> DEFINE b == [att[s] EXCEPT !.merged = TRUE]
<1>1. CASE sub' = sub /\ att' = att
  BY <1>1, RecordsSame
<1>2. CASE sub' = sub /\ att' = [att EXCEPT ![s] = b] /\ Active(s) /\ IsCurrent(s) /\ pc = "merged"
  <2>1. /\ sub[s] \in SubtaskState /\ att[s] \in Attempt
        /\ RecordOk(sub[s], att[s]) /\ StagesInOrder(att[s]) /\ att[s].n # 0
        /\ PlaceOk(pc, sub[s], att[s])
    BY <1>2, AtRecord, AtPlace DEF Active
  <2>2. /\ sub[s].status = "active" /\ sub[s].ending = "no" /\ Cleared(att[s])
        /\ att[s].review = "pass" \/ att[s].approved
        /\ att[s].applied = Proposals
    BY <1>2, <2>1 DEF PlaceOk, Merged
  <2>3. ~att[s].spent
    BY <2>1, <2>2, PassNotEnded DEF RecordOk
  <2>4. /\ b \in Attempt /\ b.n = att[s].n /\ b.fix = att[s].fix /\ b.merged
        /\ b.applied = att[s].applied /\ b.pending = att[s].pending
        /\ b.session = att[s].session /\ b.changes = att[s].changes /\ b.gate = att[s].gate
        /\ b.review = att[s].review /\ b.unavail = att[s].unavail /\ b.cursor = att[s].cursor
        /\ b.rejected = att[s].rejected
        /\ b.routed = att[s].routed /\ b.approved = att[s].approved /\ b.spent = att[s].spent
    BY <2>1 DEF Attempt
  <2> HIDE DEF b
  <2>5. Ended(b) = Ended(att[s]) /\ Completed(b) = Completed(att[s]) /\ Cleared(b) = Cleared(att[s])
    BY <2>4 DEF Ended, Completed, Cleared, GateLets
  <2>6. StagesInOrder(b)
    BY <2>1, <2>4 DEF StagesInOrder, GateLets, Refused
  <2>7. RecordOk(sub[s], b)
    BY <2>1, <2>2, <2>3, <2>4, <2>5 DEF RecordOk
  <2> QED
    BY <1>2, <2>4, <2>6, <2>7, AttemptMoves
<1>3. [att EXCEPT ![s].merged = TRUE] = [att EXCEPT ![s] = b]
  BY DEF Records, RecordType
<1>4. \/ sub' = sub /\ att' = att
      \/ Active(s) /\ sub' = sub /\ att' = [att EXCEPT ![s].merged = TRUE]
  BY DEF RecordMerge, Emit, Raise, replayed
<1>5. IsCurrent(s) /\ pc = "merged"
  BY DEF RecordMerge
<1> HIDE DEF b
<1> QED
  BY <1>1, <1>2, <1>3, <1>4, <1>5

LEMMA DiffRecords ==
  ASSUME Records, PlacesOk, NEW s \in Subtask, NEW found \in BOOLEAN, CheckDiff(s, found)
  PROVE  Recorded
<1> DEFINE said == IF found THEN "divergent" ELSE "clean"
           status == IF found THEN sub[s].status ELSE "done"
           b == [att[s] EXCEPT !.diff = said]
           x == [sub[s] EXCEPT !.status = status]
<1>1. CASE sub' = sub /\ att' = att
  BY <1>1, RecordsSame
<1>2. CASE /\ sub' = [sub EXCEPT ![s] = x] /\ att' = [att EXCEPT ![s] = b]
           /\ Active(s) /\ IsCurrent(s) /\ pc = "diffing"
  <2>1. /\ sub[s] \in SubtaskState /\ att[s] \in Attempt
        /\ RecordOk(sub[s], att[s]) /\ StagesInOrder(att[s]) /\ att[s].n # 0
        /\ PlaceOk(pc, sub[s], att[s])
    BY <1>2, AtRecord, AtPlace DEF Active
  <2>2. sub[s].status = "active" /\ att[s].merged
    BY <1>2, <2>1 DEF PlaceOk, Active
  <2>3. sub[s].ending = "no"
    BY <2>1, <2>2, PassNotEnded DEF RecordOk
  <2>4. said \in {"clean", "divergent"} /\ status \in {"active", "done"}
    BY <2>2
  <2> HIDE DEF said, status
  <2>5. b \in Attempt /\ Alike(att[s], b) /\ b.cursor = att[s].cursor
    BY <2>1, <2>4 DEF Attempt, Alike
  <2>6. /\ x \in SubtaskState /\ x.status = status /\ x.next = sub[s].next /\ x.ending = "no"
        /\ x.indicator = sub[s].indicator
    BY <2>1, <2>3, <2>4 DEF SubtaskState
  <2> HIDE DEF b, x
  <2>7. RecordOk(x, att[s])
    BY <2>1, <2>2, <2>3, <2>4, <2>6 DEF RecordOk
  <2>8. RecordOk(x, b)
    BY <2>1, <2>5, <2>7, AlikeOk
  <2>9. StagesInOrder(b)
    BY <2>1, <2>5 DEF Alike, StagesInOrder, GateLets, Refused
  <2> QED
    BY <1>2, <2>5, <2>6, <2>8, <2>9, RecordsMove
<1>3. [att EXCEPT ![s].diff = said] = [att EXCEPT ![s] = b]
  BY DEF Records, RecordType
<1>4. [sub EXCEPT ![s].status = IF found THEN @ ELSE "done"] = [sub EXCEPT ![s] = x]
  BY DEF Records, RecordType
<1>5. \/ sub' = sub /\ att' = att
      \/ /\ Active(s) /\ att' = [att EXCEPT ![s].diff = said]
         /\ sub' = [sub EXCEPT ![s].status = IF found THEN @ ELSE "done"]
  BY DEF CheckDiff, Emit, Raise, replayed
<1>6. IsCurrent(s) /\ pc = "diffing"
  BY DEF CheckDiff
<1> HIDE DEF b, x, said
<1> QED
  BY <1>1, <1>2, <1>3, <1>4, <1>5, <1>6

LEMMA RemoveRecords ==
  ASSUME Records, NEW s \in Subtask, RemoveSubtask(s) PROVE Recorded
<1> DEFINE x == [sub[s] EXCEPT !.status = "removed"]
<1>1. /\ sub[s] \in SubtaskState /\ att[s] \in Attempt
      /\ RecordOk(sub[s], att[s]) /\ sub[s].status = "planned"
  BY AtRecord DEF RemoveSubtask
<1>2. /\ x \in SubtaskState /\ x.status = "removed" /\ x.next = sub[s].next
      /\ x.ending = sub[s].ending /\ x.indicator = sub[s].indicator
  BY <1>1 DEF SubtaskState
<1>3. sub' = [sub EXCEPT ![s] = x] /\ att' = att
  BY DEF RemoveSubtask, Records, RecordType
<1> HIDE DEF x
<1>4. att[s] = Fresh(0, FALSE)
  BY <1>1 DEF RecordOk
<1>5. /\ ~Ended(att[s]) /\ ~att[s].approved /\ ~att[s].merged /\ ~att[s].pending /\ ~att[s].spent
      /\ ~att[s].fix /\ att[s].n = 0
  BY <1>4 DEF Fresh, Ended
<1>6. RecordOk(x, att[s])
  BY <1>1, <1>2, <1>5 DEF RecordOk
<1> QED
  BY <1>2, <1>3, <1>6, SubtaskMoves

\* A resume sends the attempt back to a stage it has passed.
LEMMA ResumedFields ==
  ASSUME NEW a \in Attempt
  PROVE  LET b == [a EXCEPT !.pending = FALSE, !.retries = IF halted = "no" THEN @ ELSE 0]
         IN  /\ b \in Attempt /\ b.pending = FALSE /\ b.n = a.n /\ b.fix = a.fix
             /\ b.session = a.session /\ b.changes = a.changes /\ b.gate = a.gate
             /\ b.review = a.review /\ b.unavail = a.unavail /\ b.cursor = a.cursor
             /\ b.rejected = a.rejected /\ b.merged = a.merged /\ b.applied = a.applied
             /\ b.routed = a.routed /\ b.approved = a.approved /\ b.spent = a.spent
<1> DEFINE r == IF halted = "no" THEN a.retries ELSE 0
           b == [a EXCEPT !.pending = FALSE, !.retries = r]
<1>1. r \in 0..Retries
  BY LoopAssumption DEF Attempt
<1> HIDE DEF r
<1>2. /\ b \in Attempt /\ b.pending = FALSE /\ b.n = a.n /\ b.fix = a.fix
      /\ b.session = a.session /\ b.changes = a.changes /\ b.gate = a.gate
      /\ b.review = a.review /\ b.unavail = a.unavail /\ b.cursor = a.cursor
      /\ b.rejected = a.rejected /\ b.merged = a.merged /\ b.applied = a.applied
      /\ b.routed = a.routed /\ b.approved = a.approved /\ b.spent = a.spent
  BY <1>1 DEF Attempt
<1>3. [a EXCEPT !.pending = FALSE, !.retries = IF halted = "no" THEN @ ELSE 0] = b
  BY DEF r
<1> QED
  BY <1>2, <1>3

LEMMA TakeOverRecords ==
  ASSUME Records, TakeOver PROVE Recorded
<1>1. CASE sub' = sub /\ att' = att
  BY <1>1, RecordsSame
<1>2. ASSUME NEW s \in Subtask, Interrupted(s), ~Ended(att[s]),
             att' = [att EXCEPT ![s] = Resumed(@)],
             sub' = [sub EXCEPT ![s].next =
                       IF ResumePoint(att[s]) = "resolve" THEN att[s].n ELSE @]
      PROVE  Recorded
  <2> DEFINE a == att[s]
             next == IF ResumePoint(a) = "resolve" THEN a.n ELSE sub[s].next
             x == [sub[s] EXCEPT !.next = next]
             b == [a EXCEPT !.pending = FALSE, !.retries = IF halted = "no" THEN @ ELSE 0]
  <2>1. /\ sub[s] \in SubtaskState /\ a \in Attempt
        /\ RecordOk(sub[s], a) /\ StagesInOrder(a) /\ a.n # 0 /\ sub[s].status = "active"
    BY <1>2, AtRecord DEF Interrupted, MidAttempt, FirstActive, Active
  <2>2. sub' = [sub EXCEPT ![s] = x] /\ att' = [att EXCEPT ![s] = Resumed(a)]
    BY <1>2 DEF Records, RecordType
  <2>3. /\ b \in Attempt /\ b.pending = FALSE /\ b.n = a.n /\ b.fix = a.fix
        /\ b.session = a.session /\ b.changes = a.changes /\ b.gate = a.gate
        /\ b.review = a.review /\ b.unavail = a.unavail /\ b.cursor = a.cursor
        /\ b.rejected = a.rejected /\ b.merged = a.merged /\ b.applied = a.applied
        /\ b.routed = a.routed /\ b.approved = a.approved /\ b.spent = a.spent
    BY <2>1, ResumedFields
  <2>4. Resumed(a) = CASE ResumePoint(a) = "resolve" -> Restarted(b, "none")
                       [] ResumePoint(a) = "verify_reading" -> Restarted(b, "spawn")
                       [] OTHER -> [b EXCEPT !.cursor = "decide", !.diff = "none"]
    BY DEF Resumed
  <2> HIDE DEF b
  <2>5. next \in 0 .. Budget + 1
    BY <2>1 DEF SubtaskState, Attempt
  <2>6. next = IF ResumePoint(a) = "resolve" THEN a.n ELSE sub[s].next
    OBVIOUS
  <2> HIDE DEF next
  <2>7. /\ x \in SubtaskState /\ x.next = next /\ x.status = sub[s].status
        /\ x.ending = sub[s].ending /\ x.indicator = sub[s].indicator
        /\ x.item = sub[s].item /\ x.rounds = sub[s].rounds
    BY <2>1, <2>5 DEF SubtaskState
  <2> HIDE DEF x
  <2>8. ~Ended(a)
    BY <1>2
  <2>9. a.n \in Nat /\ a.n # a.n + 1
    BY <2>1 DEF Attempt
  <2> HIDE DEF a
  <2>10. CASE a.merged
    <3> DEFINE c == [b EXCEPT !.cursor = "decide", !.diff = "none"]
    <3>1. ResumePoint(a) = "diff"
      BY <2>10 DEF ResumePoint
    <3>2. Resumed(a) = c
      BY <2>4, <3>1
    <3>3. ~a.pending
      BY <2>1, <2>10, LoopAssumption DEF RecordOk, Attempt
    <3>4. /\ c \in Attempt /\ c.cursor = "decide" /\ c.n = b.n /\ c.session = b.session
          /\ c.changes = b.changes /\ c.gate = b.gate
          /\ c.review = b.review /\ c.unavail = b.unavail /\ c.rejected = b.rejected
          /\ c.merged = b.merged /\ c.applied = b.applied /\ c.pending = b.pending
          /\ c.routed = b.routed /\ c.fix = b.fix /\ c.approved = b.approved /\ c.spent = b.spent
      <4>1. c \in Attempt
        BY <2>3, ZenonT(40) DEF Attempt
      <4> QED
        BY <2>3, <4>1 DEF Attempt
    <3> HIDE DEF c
    <3>5. a.pending = FALSE
      BY <2>1, <3>3 DEF Attempt
    <3>6. Alike(a, c)
      BY <2>3, <3>4, <3>5 DEF Alike
    <3>7. next = sub[s].next
      BY <2>6, <3>1
    <3>8. RecordOk(x, a)
      BY <2>1, <2>7, <3>7 DEF RecordOk
    <3>9. RecordOk(x, c)
      BY <2>1, <3>6, <3>8, AlikeOk
    <3>10. StagesInOrder(c)
      BY <2>1, <3>4, <3>6 DEF Alike, StagesInOrder, GateLets, Refused
    <3> QED
      BY <2>2, <2>7, <3>2, <3>4, <3>9, <3>10, RecordsMove
  <2>11. CASE ~a.merged
    <3> DEFINE e == IF Completed(a) THEN "spawn" ELSE "none"
               c == Restarted(b, e)
    <3>1. ResumePoint(a) = IF Completed(a) THEN "verify_reading" ELSE "resolve"
      BY <2>11 DEF ResumePoint
    <3>2. Resumed(a) = c
      BY <2>4, <3>1
    <3>3. e \in {"none", "resolve", "spawn"} /\ (e = "spawn" <=> Completed(a))
      OBVIOUS
    <3> HIDE DEF e
    <3>4. /\ c \in Attempt /\ c.cursor = e
          /\ c.session = (IF e = "spawn" THEN b.session ELSE "none")
          /\ c.changes = "none" /\ c.gate = "none" /\ c.review = "none"
          /\ c.unavail = "none" /\ c.n = b.n /\ c.rejected = b.rejected
          /\ c.merged = b.merged /\ c.applied = b.applied /\ c.pending = b.pending
          /\ c.routed = b.routed /\ c.fix = b.fix /\ c.approved = b.approved
          /\ c.spent = b.spent
      BY <2>3, <3>3, RestartedFields
    <3> HIDE DEF c
    <3>5. x.next = 0 \/ (x.next = a.n /\ (e = "spawn" => ~Completed(a)))
      BY <2>1, <2>6, <2>7, <2>8, <3>1, <3>3 DEF RecordOk
    <3>6. c.pending = a.pending \/ ~c.pending
      BY <2>3, <3>4
    <3>7. /\ c.n = a.n /\ c.rejected = a.rejected /\ c.merged = a.merged
          /\ c.applied = a.applied /\ c.fix = a.fix /\ c.approved = a.approved
          /\ c.spent = a.spent /\ c.session = IF e = "spawn" THEN a.session ELSE "none"
      BY <2>3, <3>4
    <3>8. RecordOk(x, c) /\ StagesInOrder(c)
      BY <2>1, <2>7, <2>8, <2>11, <3>3, <3>4, <3>5, <3>6, <3>7, RestartedOk
    <3> QED
      BY <2>2, <2>7, <3>2, <3>4, <3>8, RecordsMove
  <2> QED
    BY <2>10, <2>11
<1>3. \/ sub' = sub /\ att' = att
      \/ \E s \in Subtask :
           /\ Interrupted(s) /\ ~Ended(att[s]) /\ att' = [att EXCEPT ![s] = Resumed(@)]
           /\ sub' = [sub EXCEPT ![s].next =
                        IF ResumePoint(att[s]) = "resolve" THEN att[s].n ELSE @]
  BY DEF TakeOver, Incident, Raise, replayed
<1> QED
  BY <1>1, <1>2, <1>3

\* What an item's verb does, read off the record.
LEMMA ConsequenceIs ==
  ASSUME NEW s \in Subtask, NEW scan \in BOOLEAN, NEW verb \in Verb
  PROVE  LET effect == Consequence(s, scan)[verb]
         IN  /\ effect \in {"merge", "fix", "end", "retry", "none"}
             /\ effect = "merge" => Cleared(att[s]) /\ ~sub[s].indicator
             /\ effect = "merge" => verb = "approve"
             /\ effect = "fix" => att[s].review = "blocked"
             /\ effect = "retry" => /\ att[s].review # "blocked" /\ ~sub[s].fixUsed
                                    /\ ~(att[s].n >= Budget)
<1>1. CASE verb = "approve"
  BY <1>1 DEF Consequence, ApproveMerges, Cleared
<1>2. CASE verb = "reject"
  BY <1>2 DEF Consequence
<1> QED
  BY <1>1, <1>2 DEF Verb

\* What a decision does: what its item says of the verb, or the end of the subtask in
\* place of an order that is too long.
LEMMA EffectIs ==
  ASSUME NEW s \in Subtask, NEW item, NEW d, item.scan \in BOOLEAN, d.verb \in Verb,
         item.does = Consequence(s, item.scan)
  PROVE  LET effect == Effect(item, d)
         IN  /\ effect \in {"merge", "fix", "end", "retry", "none"}
             /\ effect = "merge" => Cleared(att[s]) /\ ~sub[s].indicator
             /\ effect = "merge" => d.verb = "approve"
             /\ effect = "fix" => att[s].review = "blocked"
             /\ effect = "retry" => /\ att[s].review # "blocked" /\ ~sub[s].fixUsed
                                    /\ ~(att[s].n >= Budget)
<1> DEFINE said == Consequence(s, item.scan)[d.verb]
<1>1. Effect(item, d) = said \/ Effect(item, d) = "end"
  BY DEF Effect
<1>2. /\ said \in {"merge", "fix", "end", "retry", "none"}
      /\ said = "merge" => Cleared(att[s]) /\ ~sub[s].indicator
      /\ said = "merge" => d.verb = "approve"
      /\ said = "fix" => att[s].review = "blocked"
      /\ said = "retry" => /\ att[s].review # "blocked" /\ ~sub[s].fixUsed
                           /\ ~(att[s].n >= Budget)
  BY ConsequenceIs
<1> HIDE DEF said
<1>3. CASE Effect(item, d) = said
  BY <1>2, <1>3
<1>4. CASE Effect(item, d) = "end"
  BY <1>4
<1> QED
  BY <1>1, <1>3, <1>4

LEMMA DecisionRecords ==
  ASSUME FrameType, Records, NEW item \in items, NEW i \in 1..Len(decisions), TakeDecision(item, i)
  PROVE  Recorded
<1> DEFINE s == item.id[1]
           effect == Effect(item, decisions[i])
           merges == (effect = "merge")
           spends == (effect # "merge")
           cursor == IF effect = "merge" THEN "decide" ELSE att[s].cursor
           next == IF effect \in Orders THEN att[s].n + 1 ELSE sub[s].next
           fixNext == (effect = "fix")
           ending == IF effect = "end" THEN "person" ELSE sub[s].ending
           b == [att[s] EXCEPT !.approved = merges, !.spent = spends, !.cursor = cursor]
           x == [sub[s] EXCEPT !.status = "active", !.next = next, !.fixNext = fixNext,
                               !.ending = ending]
<1>1. CASE sub' = sub /\ att' = att
  BY <1>1, RecordsSame
<1>2. CASE /\ sub' = [sub EXCEPT ![s] = x] /\ att' = [att EXCEPT ![s] = b]
           /\ s \in Subtask /\ effect # "none" /\ sub[s].status = "escalated"
           /\ item.does = Consequence(s, item.scan)
  <2>1. item.scan \in BOOLEAN /\ decisions[i].verb \in Verb
    <3>1. item \in Item /\ decisions[i] \in Decision
      BY DEF FrameType
    <3> QED
      BY <3>1 DEF Item, Decision
  <2>2. /\ effect \in {"merge", "fix", "end", "retry"}
        /\ effect = "merge" => Cleared(att[s]) /\ ~sub[s].indicator
        /\ effect = "fix" => att[s].review = "blocked"
        /\ effect = "retry" => att[s].review # "blocked" /\ ~(att[s].n >= Budget)
    BY <1>2, <2>1, EffectIs
  <2>3. /\ sub[s] \in SubtaskState /\ att[s] \in Attempt
        /\ RecordOk(sub[s], att[s]) /\ StagesInOrder(att[s]) /\ att[s].n # 0
        /\ Ended(att[s]) /\ ~att[s].approved /\ sub[s].ending = "no"
    <3>1. /\ sub[s] \in SubtaskState /\ att[s] \in Attempt
          /\ RecordOk(sub[s], att[s]) /\ StagesInOrder(att[s])
      BY <1>2, AtRecord
    <3> QED
      BY <1>2, <3>1 DEF RecordOk
  <2>4. ~att[s].merged
    BY <2>3, EndedNotMerged
  <2>5. att[s].n \in 0 .. Budget + 1 /\ att[s].n \in Nat /\ att[s].n # att[s].n + 1
    BY <2>3, LoopAssumption, SMTT(20) DEF Attempt
  <2>6. effect = "fix" => ~att[s].fix
    BY <1>2, <2>2, <2>3 DEF RecordOk
  <2>7. effect \in Orders => att[s].n + 1 \in 0 .. Budget + 1
    <3>1. effect \in Orders => ~(att[s].n > Budget)
      <4>1. att[s].n > Budget => att[s].fix
        BY <2>3 DEF RecordOk
      <4>2. Budget \in Nat
        BY LoopAssumption
      <4> QED
        BY <2>2, <2>5, <2>6, <4>1, <4>2 DEF Orders
    <3> HIDE DEF effect, s
    <3> QED
      BY <2>5, <3>1, LoopAssumption, SMTT(20)
  <2>8. /\ merges \in BOOLEAN /\ spends \in BOOLEAN /\ fixNext \in BOOLEAN
        /\ cursor \in {"none", "resolve", "spawn", "verify_reading", "implement", "gate", "review",
                       "decide", "diff"}
        /\ next \in 0 .. Budget + 1 /\ ending \in {"no", "person", "fix"}
    BY <2>2, <2>3, <2>7 DEF Attempt, SubtaskState
  <2>9. /\ merges => Cleared(att[s]) /\ ~sub[s].indicator
        /\ spends = ~merges /\ (merges => ending = "no")
        /\ next \in {sub[s].next, att[s].n + 1}
        /\ cursor \in {"decide", att[s].cursor}
    BY <2>2, <2>3
  <2> HIDE DEF effect, merges, spends, fixNext, cursor, next, ending
  <2>10. /\ x \in SubtaskState /\ x.status = "active" /\ x.next = next /\ x.ending = ending
         /\ x.indicator = sub[s].indicator
    <3> DEFINE y == [sub[s] EXCEPT !.status = "active", !.next = next]
    <3>1. /\ y \in SubtaskState /\ y.status = "active" /\ y.next = next
          /\ y.indicator = sub[s].indicator
      BY <2>3, <2>8 DEF SubtaskState
    <3>2. x = [y EXCEPT !.fixNext = fixNext, !.ending = ending]
      OBVIOUS
    <3> HIDE DEF y, x
    <3>3. LET z == [y EXCEPT !.fixNext = fixNext, !.ending = ending]
          IN  /\ z \in SubtaskState /\ z.status = y.status /\ z.next = y.next /\ z.ending = ending
              /\ z.indicator = y.indicator
      BY <2>8, <3>1 DEF SubtaskState
    <3> QED
      BY <3>1, <3>2, <3>3
  <2>11. /\ b \in Attempt /\ b.approved = merges /\ b.spent = spends /\ b.cursor = cursor
         /\ b.n = att[s].n /\ b.fix = att[s].fix
         /\ b.session = att[s].session /\ b.changes = att[s].changes /\ b.gate = att[s].gate
         /\ b.review = att[s].review /\ b.unavail = att[s].unavail
         /\ b.rejected = att[s].rejected /\ b.merged = att[s].merged
         /\ b.applied = att[s].applied /\ b.pending = att[s].pending /\ b.routed = att[s].routed
    <3> DEFINE c == [att[s] EXCEPT !.approved = merges, !.spent = spends]
    <3>1. /\ c \in Attempt /\ c.approved = merges /\ c.spent = spends
          /\ c.n = att[s].n /\ c.fix = att[s].fix
          /\ c.session = att[s].session /\ c.changes = att[s].changes /\ c.gate = att[s].gate
          /\ c.review = att[s].review /\ c.unavail = att[s].unavail
          /\ c.rejected = att[s].rejected /\ c.merged = att[s].merged
          /\ c.applied = att[s].applied /\ c.pending = att[s].pending /\ c.routed = att[s].routed
      BY <2>3, <2>8, ZenonT(40) DEF Attempt
    <3>2. b = [c EXCEPT !.cursor = cursor]
      OBVIOUS
    <3> HIDE DEF c, b
    <3>3. LET d == [c EXCEPT !.cursor = cursor]
          IN  /\ d \in Attempt /\ d.approved = c.approved /\ d.spent = c.spent /\ d.cursor = cursor
              /\ d.n = c.n /\ d.fix = c.fix
              /\ d.session = c.session /\ d.changes = c.changes /\ d.gate = c.gate
              /\ d.review = c.review /\ d.unavail = c.unavail
              /\ d.rejected = c.rejected /\ d.merged = c.merged
              /\ d.applied = c.applied /\ d.pending = c.pending /\ d.routed = c.routed
      BY <2>8, <3>1 DEF Attempt
    <3> QED
      BY <3>1, <3>2, <3>3
  <2> HIDE DEF b, x
  <2>12. Ended(b) /\ Cleared(b) = Cleared(att[s]) /\ Completed(b) = Completed(att[s])
    BY <2>3, <2>11 DEF Ended, Cleared, Completed, GateLets
  <2>13. StagesInOrder(b)
    BY <2>3, <2>9, <2>11 DEF StagesInOrder, GateLets, Refused
  <2>14. ~(att[s].fix /\ att[s].review = "blocked")
    BY <1>2, <2>3 DEF RecordOk
  <2>15. x.next \in {0, b.n, b.n + 1} /\ x.next # b.n
    BY <2>3, <2>5, <2>9, <2>10, <2>11 DEF RecordOk
  <2>16. (b.n > Budget => b.fix) /\ (b.pending => b.applied < Proposals)
    BY <2>3, <2>11 DEF RecordOk
  <2> HIDE DEF s
  <2>17. RecordOk(x, b)
    BY <2>3, <2>4, <2>9, <2>10, <2>11, <2>12, <2>14, <2>15, <2>16 DEF RecordOk
  <2> QED
    BY <1>2, <2>10, <2>11, <2>13, <2>17, RecordsMove
<1>3. [att EXCEPT ![s].approved = (effect = "merge"), ![s].spent = (effect # "merge"),
                  ![s].cursor = IF effect = "merge" THEN "decide" ELSE @] = [att EXCEPT ![s] = b]
  <2> HIDE DEF effect
  <2> QED
    BY DEF Records, RecordType
<1>4. [sub EXCEPT ![s].status = "active",
                  ![s].next = IF effect \in Orders THEN att[s].n + 1 ELSE @,
                  ![s].fixNext = (effect = "fix"),
                  ![s].ending = IF effect = "end" THEN "person" ELSE @] = [sub EXCEPT ![s] = x]
  <2> HIDE DEF effect
  <2> QED
    BY DEF Records, RecordType
<1>5. \/ sub' = sub /\ att' = att
      \/ /\ att' = [att EXCEPT ![s].approved = (effect = "merge"),
                               ![s].spent = (effect # "merge"),
                               ![s].cursor = IF effect = "merge" THEN "decide" ELSE @]
         /\ sub' = [sub EXCEPT ![s].status = "active",
                      ![s].next = IF effect \in Orders THEN att[s].n + 1 ELSE @,
                      ![s].fixNext = (effect = "fix"),
                      ![s].ending = IF effect = "end" THEN "person" ELSE @]
         /\ item.id[2] # 0 /\ effect # "none" /\ sub[s].status = "escalated"
         /\ item.does = Consequence(s, item.scan)
  BY DEF TakeDecision
<1>6. item.id[2] # 0 => s \in Subtask
  BY DEF FrameType, Item, ItemId
<1> HIDE DEF s, effect, b, x
<1> QED
  BY <1>1, <1>2, <1>3, <1>4, <1>5, <1>6

\* Steps that leave the records of subtasks and attempts alone.
LEMMA RecordsStep ==
  ASSUME FrameType, Records, PlacesOk, [Next]_vars PROVE Recorded
<1> DEFINE Same == sub' = sub /\ att' = att
<1>0. Same => Recorded
  BY RecordsSame
<1> HIDE DEF Same
<1>1. CASE UNCHANGED vars
  BY <1>0, <1>1 DEF Same, vars, replayed
<1>2. ASSUME NEW cmd \in {"run", "resume"}, Command(cmd) PROVE Recorded
  BY <1>0, <1>2 DEF Same, Command, replayed
<1>3. CASE Environment
  <2>1. CASE \/ Kill \/ ForeignLine
             \/ \E item \in items, verb \in Verb, long \in BOOLEAN : PersonDecides(item, verb, long)
    BY <1>0, <2>1 DEF Same, Kill, ForeignLine, PersonDecides, replayed
  <2>2. ASSUME NEW s \in Subtask, RemoveSubtask(s) PROVE Recorded
    BY <2>2, RemoveRecords
  <2> QED
    BY <1>3, <2>1, <2>2 DEF Environment
<1>4. ASSUME NEW s \in Subtask, Judging(s) PROVE Recorded
  <2>1. ASSUME NEW verdict \in Verdicts, Review(s, verdict) PROVE Recorded
    BY <2>1, ReviewRecords, LoopAssumption
  <2> QED
    BY <1>4, <2>1, StageRecords, ChangesRecords, GateRecords, UnavailableRecords, RejectRecords
    DEF Judging
<1>5. ASSUME NEW s \in Subtask, Merging(s) PROVE Recorded
  <2>1. CASE RequireMergeable(s) \/ StoreWrite(s) \/ CheckBranch(s) \/ GitMerge(s)
    BY <1>0, <2>1 DEF Same, RequireMergeable, StoreWrite, CheckBranch, GitMerge, Incident,
       Raise, replayed
  <2> QED
    BY <1>5, <2>1, WritingRecords, MergeRecords, StageRecords, DiffRecords DEF Merging
<1>6. ASSUME NEW s \in Subtask, Attempting(s) PROVE Recorded
  <2>1. CASE Continue(s) \/ \E scan \in BOOLEAN : List(s, scan)
    BY <1>0, <2>1 DEF Same, Continue, List, replayed
  <2>2. ASSUME NEW end \in Ends, NEW shows \in BOOLEAN, SessionEnds(s, end, shows) PROVE Recorded
    BY <2>2, SessionRecords, LoopAssumption
  <2> QED
    BY <1>4, <1>5, <1>6, <2>1, <2>2, BeginRecords, StageRecords, InfraRecords, DecideRecords,
       EscalatedRecords, EndSubtaskRecords
    DEF Attempting
<1>7. CASE Process
  <2>1. CASE \/ JournalHolds \/ Halt \/ DiffStale \/ LeaveLoop \/ Finish
             \/ ListIntegration \/ RecordIntegEsc
             \/ \E reopens \in BOOLEAN : Hold(reopens)
             \/ \E verdict \in {"pass", "fail"} : Integrate(verdict)
    BY <1>0, <2>1 DEF Same, JournalHolds, Halt, DiffStale, LeaveLoop, Finish, ListIntegration,
       RecordIntegEsc, Hold, Integrate, replayed
  <2>2. ASSUME NEW item \in items, NEW i \in 1..Len(decisions), DecisionMismatch(item, i)
        PROVE  Recorded
    BY <1>0, <2>2 DEF Same, DecisionMismatch, Incident, replayed
  <2> QED
    BY <1>6, <1>7, <2>1, <2>2, LineRecords, TakeOverRecords, DecisionRecords DEF Process
<1> QED
  BY <1>1, <1>2, <1>3, <1>7 DEF Next

-----------------------------------------------------------------------------
(* The types of everything else.                                           *)

\* What the queue is given and what the journal and the branch are given.
LEMMA NewEntries ==
  ASSUME Records, NEW s \in Subtask
  PROVE  /\ \A k \in Nat : Write(s, k) \in JournalLine
         /\ Commit(s) \in Subtask \X Nat /\ NextItem(s) \in ItemId
         /\ \A scan \in BOOLEAN :
              Consequence(s, scan) \in [approve : {"merge", "none"}, reject : {"fix", "end", "retry", "none"}]
<1>1. att[s].n \in Nat /\ sub[s].rounds + 1 \in Nat
  BY AtRecord, LoopAssumption DEF Attempt, SubtaskState
<1>2. s \in 0..N
  BY DEF Subtask
<1>3. ASSUME NEW scan \in BOOLEAN
      PROVE  Consequence(s, scan) \in
               [approve : {"merge", "none"}, reject : {"fix", "end", "retry", "none"}]
  <2> DEFINE yes == IF ApproveMerges(s, scan) THEN "merge" ELSE "none"
             no == CASE att[s].review = "blocked" -> "fix"
                     [] att[s].review # "blocked" /\ (sub[s].fixUsed \/ att[s].n >= Budget) -> "end"
                     [] OTHER -> IF att[s].unavail = "final" THEN "retry" ELSE "end"
  <2>1. yes \in {"merge", "none"}
    OBVIOUS
  <2>2. no \in {"fix", "end", "retry", "none"}
    OBVIOUS
  <2>3. Consequence(s, scan) = [approve |-> yes, reject |-> no]
    BY DEF Consequence
  <2> HIDE DEF yes, no
  <2> QED
    BY <2>1, <2>2, <2>3
<1>4. \A k \in Nat : Write(s, k) \in JournalLine
  BY <1>1, <1>2 DEF Write, JournalLine
<1>5. Commit(s) \in Subtask \X Nat /\ NextItem(s) \in ItemId
  BY <1>1 DEF Commit, NextItem, ItemId
<1> QED
  BY <1>3, <1>4, <1>5

LEMMA FrameSame ==
  ASSUME FrameType, ledger' = ledger, halted' = halted, integration' = integration,
         integEsc' = integEsc, head' = head, recorded' = recorded, cleaned' = cleaned,
         UNCHANGED <<outside, rest>>, pc' \in Pc, why' \in {"no"} \cup Cause
  PROVE  FrameType'
BY DEF FrameType, outside, rest, Cause, Pc

\* Lines about an attempt change no type.
LEMMA FrameRaise == ASSUME FrameType, Raise PROVE FrameType'
BY FrameSame DEF Raise, replayed, FrameType, Pc

LEMMA FrameIncident ==
  ASSUME FrameType, NEW cause \in Cause, Incident(cause) PROVE FrameType'
BY FrameSame DEF Incident, replayed, Pc

LEMMA FrameAttempt ==
  ASSUME FrameType, NEW s, NEW ok, NEW a, NEW next \in Pc, EmitAtt(s, ok, a, next)
  PROVE  FrameType'
BY FrameSame, FrameRaise DEF EmitAtt, Emit, FrameType

LEMMA FrameJudging ==
  ASSUME FrameType, Records, NEW s \in Subtask, Judging(s) PROVE FrameType'
<1>1. CASE EnterStage(s) \/ EnterReject(s) \/ \E found \in {"ok", "refused"} : CheckChanges(s, found)
  BY <1>1, FrameAttempt DEF EnterStage, EnterReject, CheckChanges, Pc
<1>2. CASE RejectAttempt(s) \/ \E retry \in BOOLEAN : ReviewUnavailable(s, retry)
  BY <1>2, FrameSame, FrameRaise
  DEF RejectAttempt, ReviewUnavailable, Emit, FrameType, Pc
<1>3. ASSUME NEW verdict \in {"skipped", "pass", "fail"}, RunGate(s, verdict) PROVE FrameType'
  <2>1. [ledger EXCEPT ![s].gate = verdict] \in [Subtask -> LedgerLine]
    BY <1>3 DEF FrameType, LedgerLine
  <2> HIDE DEF LedgerLine
  <2> QED
    BY <1>3, <2>1, FrameRaise DEF RunGate, Emit, FrameType, outside, rest
<1>4. ASSUME NEW verdict \in Verdicts, Review(s, verdict) PROVE FrameType'
  <2> DEFINE result == IF verdict = "gaming" THEN "fail" ELSE verdict
  <2>1. result \in {"pass", "fail", "blocked"}
    BY LoopAssumption
  <2>2. [ledger EXCEPT ![s].review = result] \in [Subtask -> LedgerLine]
    <3> HIDE DEF result
    <3> QED
      BY <1>4, <2>1 DEF FrameType, LedgerLine
  <2>3. Raise \/ (/\ ledger' = [ledger EXCEPT ![s].review = result]
                  /\ pc' = (IF result = "blocked" THEN "drive" ELSE "judge")
                  /\ UNCHANGED <<halted, integration, integEsc, head, recorded, taken, cleaned,
                                 outside, why, rest>>)
    BY <1>4 DEF Review, Emit
  <2> HIDE DEF result, LedgerLine
  <2> QED
    BY <2>2, <2>3, FrameRaise DEF FrameType, Pc, outside, rest
<1> QED
  BY <1>1, <1>2, <1>3, <1>4 DEF Judging

LEMMA FrameMerging ==
  ASSUME FrameType, Records, BranchOk, NEW s \in Subtask, Merging(s) PROVE FrameType'
<1>1. CASE RequireMergeable(s) \/ CheckBranch(s)
  BY <1>1, FrameSame, FrameRaise, FrameIncident
  DEF RequireMergeable, CheckBranch, FrameType, Pc, Cause, replayed
<1>2. CASE IntendWrite(s) \/ EnterDiff(s)
  BY <1>2, FrameAttempt DEF IntendWrite, EnterDiff, Pc
<1>3. CASE StoreWrite(s)
  <2>1. CASE Incident("journal")
    BY <2>1, FrameIncident DEF Cause
  <2>2. CASE ~Stale
    <3>1. Write(s, att[s].applied + 1) \in JournalLine
      BY NewEntries, AtRecord DEF Attempt
    <3>2. Append(journal, Write(s, att[s].applied + 1)) \in Seq(JournalLine)
      BY <3>1 DEF FrameType
    <3>3. known + 1 \in Nat
      BY <2>2 DEF FrameType, Stale
    <3>4. UNCHANGED <<ledger, halted, integration, integEsc, head, recorded, cleaned, branch,
                      items, decisions, exposed, kills, failures>>
      BY <1>3, <2>2 DEF StoreWrite, replayed
    <3>5. /\ journal' \in Seq(JournalLine) /\ known' \in Nat
          /\ pc' \in Pc /\ why' \in {"no"} \cup Cause
      BY <1>3, <2>2, <3>2, <3>3 DEF StoreWrite, Pc, Cause, FrameType
    <3> QED
      BY <3>4, <3>5 DEF FrameType
  <2> QED
    BY <1>3, <2>1, <2>2 DEF StoreWrite
<1>4. CASE RecordWrite(s)
  <2>1. head + 1 \in Nat
    BY DEF FrameType
  <2>2. Raise \/ (/\ head' = head + 1 /\ pc' = "apply"
                  /\ UNCHANGED <<ledger, halted, integration, integEsc, recorded, cleaned,
                                 outside, why, rest>>)
    BY <1>4 DEF RecordWrite, Emit
  <2> QED
    BY <2>1, <2>2, FrameRaise DEF FrameType, Pc, outside, rest
<1>5. CASE GitMerge(s)
  <2>1. CASE Incident("merge")
    BY <2>1, FrameIncident DEF Cause
  <2>2. CASE /\ branch' = IF OnBranch(Commit(s)) THEN branch ELSE Append(branch, Commit(s))
             /\ pc' = "merged"
             /\ UNCHANGED <<replayed, journal, items, decisions, exposed, why, rest>>
    <3>1. branch' \in Seq(Subtask \X Nat)
      BY <2>2, NewEntries DEF FrameType
    <3> QED
      BY <2>2, <3>1 DEF FrameType, Pc, replayed, rest
  <2> QED
    BY <1>5, <2>1, <2>2 DEF GitMerge
<1>6. CASE RecordMerge(s)
  <2>1. CASE Raise
    BY <2>1, FrameRaise
  <2>2. CASE /\ recorded' = (CHOOSE i \in 1..Len(branch) : branch[i] = Commit(s)) /\ pc' = "diff"
             /\ UNCHANGED <<ledger, halted, integration, integEsc, head, cleaned, outside, why, rest>>
    <3>1. \E i \in 1..Len(branch) : branch[i] = Commit(s)
      BY <1>6 DEF BranchOk, RecordMerge, FrameType
    <3>2. recorded' \in 1..Len(branch)
      BY <2>2, <3>1
    <3> QED
      BY <2>2, <3>2 DEF FrameType, Pc, outside, rest
  <2> QED
    BY <1>6, <2>1, <2>2 DEF RecordMerge, Emit
<1>7. ASSUME NEW found \in BOOLEAN, CheckDiff(s, found) PROVE FrameType'
  BY <1>7, FrameSame, FrameRaise DEF CheckDiff, Emit, FrameType, Pc, Cause, rest
<1> QED
  BY <1>1, <1>2, <1>3, <1>4, <1>5, <1>6, <1>7 DEF Merging

LEMMA FrameAttempting ==
  ASSUME FrameType, Records, BranchOk, NEW s \in Subtask, Attempting(s) PROVE FrameType'
<1>1. CASE Continue(s) \/ Decide(s) \/ RecordEscalated(s) \/ EndSubtask(s)
  <2>1. CASE Continue(s)
    BY <2>1, FrameSame DEF Continue, FrameType, Pc, replayed
  <2>2. CASE Decide(s)
    BY <2>2, FrameSame, FrameRaise DEF Decide, Emit, FrameType
  <2>3. CASE RecordEscalated(s)
    BY <2>3, FrameSame, FrameRaise DEF RecordEscalated, Emit, FrameType, Pc
  <2>4. CASE EndSubtask(s)
    BY <2>4, FrameSame, FrameRaise DEF EndSubtask, Emit, FrameType
  <2> QED
    BY <1>1, <2>1, <2>2, <2>3, <2>4
<1>2. CASE Spawn(s)
  BY <1>2, FrameAttempt DEF Spawn, Pc
<1>3. CASE BeginAttempt(s)
  <2>1. NoResults \in LedgerLine
    BY DEF NoResults, LedgerLine
  <2>2. [ledger EXCEPT ![s] = NoResults] \in [Subtask -> LedgerLine]
    BY <2>1 DEF FrameType
  <2> QED
    BY <1>3, <2>2, FrameRaise DEF BeginAttempt, FrameType, Pc, outside, rest
<1>4. CASE InfraFailed(s)
  BY <1>4, FrameRaise DEF InfraFailed, Emit, FrameType, outside, rest
<1>5. ASSUME NEW end \in Ends, NEW shows \in BOOLEAN, SessionEnds(s, end, shows) PROVE FrameType'
  <2>1. failures' \in 0..MaxInfra
    BY <1>5, LoopAssumption, SMTT(20) DEF SessionEnds, FrameType
  <2>2. exposed' \subseteq Subtask /\ pc' \in Pc /\ why' \in {"no"} \cup Cause
    BY <1>5 DEF SessionEnds, FrameType, Pc, Cause
  <2>3. UNCHANGED <<ledger, halted, integration, integEsc, head, recorded, cleaned, journal,
                    branch, items, decisions, known, kills>>
    BY <1>5 DEF SessionEnds
  <2> QED
    BY <2>1, <2>2, <2>3 DEF FrameType
<1>6. ASSUME NEW scan \in BOOLEAN, List(s, scan) PROVE FrameType'
  <2> DEFINE item == [id |-> NextItem(s), scan |-> scan,
                      does |-> IF Acts THEN Consequence(s, scan) ELSE RecordOnly]
  <2>1. item \in Item
    BY NewEntries DEF Item, RecordOnly
  <2>2. items' \subseteq items \cup {item}
    BY <1>6 DEF List
  <2> HIDE DEF item
  <2>3. items' \subseteq Item
    BY <2>1, <2>2 DEF FrameType
  <2>4. UNCHANGED <<replayed, journal, branch, decisions, exposed, why, rest>> /\ pc' = "listed"
    BY <1>6 DEF List
  <2> QED
    BY <2>3, <2>4 DEF FrameType, Pc, replayed, rest
<1> QED
  BY <1>1, <1>2, <1>3, <1>4, <1>5, <1>6, FrameJudging, FrameMerging DEF Attempting

LEMMA FrameDecision ==
  ASSUME FrameType, NEW item \in items, NEW i \in 1..Len(decisions), TakeDecision(item, i)
  PROVE  FrameType'
<1>1. decisions[i].verb \in Verb /\ item.id \in ItemId
  <2>1. item \in Item /\ decisions[i] \in Decision
    BY DEF FrameType
  <2> QED
    BY <2>1 DEF Item, Decision
<1>2. item.id[2] # 0 => item.id[1] \in Subtask
  BY <1>1 DEF ItemId
<1>3. item.id[2] # 0 =>
        [ledger EXCEPT ![item.id[1]].person = decisions[i].verb] \in [Subtask -> LedgerLine]
  BY <1>1, <1>2 DEF FrameType, LedgerLine
<1>4. ledger' \in [Subtask -> LedgerLine]
  <2> HIDE DEF LedgerLine
  <2> QED
    BY <1>3 DEF TakeDecision, FrameType
<1>5. integration' \in {"none", "off", "incomplete", "pass", "fail"}
  BY DEF TakeDecision, Reopened, FrameType
<1>6. UNCHANGED <<halted, integEsc, head, recorded, cleaned, outside, pc, why, rest>>
  BY DEF TakeDecision
<1> QED
  BY <1>4, <1>5, <1>6 DEF FrameType, outside, rest

LEMMA FrameStep ==
  ASSUME FrameType, Records, BranchOk, [Next]_vars PROVE FrameType'
<1>1. CASE UNCHANGED vars
  BY <1>1, FrameSame DEF vars, replayed, FrameType
<1>2. ASSUME NEW cmd \in {"run", "resume"}, Command(cmd) PROVE FrameType'
  BY <1>2 DEF Command, FrameType, Pc, replayed, outside
<1>3. CASE Environment
  <2>1. CASE Kill
    BY <2>1, LoopAssumption DEF Kill, FrameType, Pc, replayed, outside
  <2>2. CASE ForeignLine
    <3>1. NotOurs \in JournalLine
      BY LoopAssumption DEF NotOurs, JournalLine
    <3>2. Append(journal, NotOurs) \in Seq(JournalLine)
      BY <3>1 DEF FrameType
    <3> QED
      BY <2>2, <3>2 DEF ForeignLine, FrameType, replayed, rest
  <2>3. ASSUME NEW item \in items, NEW verb \in Verb, NEW long \in BOOLEAN,
               PersonDecides(item, verb, long)
        PROVE  FrameType'
    <3>1. item.id \in ItemId
      BY DEF FrameType, Item
    <3>2. [item |-> item.id, verb |-> verb, long |-> long] \in Decision
      BY <3>1 DEF Decision
    <3>3. Append(decisions, [item |-> item.id, verb |-> verb, long |-> long]) \in Seq(Decision)
      BY <3>2 DEF FrameType
    <3> QED
      BY <2>3, <3>3 DEF PersonDecides, FrameType, replayed, rest
  <2>4. ASSUME NEW s \in Subtask, RemoveSubtask(s) PROVE FrameType'
    BY <2>4, FrameSame DEF RemoveSubtask, FrameType
  <2> QED
    BY <1>3, <2>1, <2>2, <2>3, <2>4 DEF Environment
<1>4. CASE Process
  <2>1. CASE JournalHolds \/ DiffStale \/ LeaveLoop
    BY <2>1, FrameSame DEF JournalHolds, Checking, DiffStale, LeaveLoop, FrameType, Pc, replayed
  <2>2. CASE Halt
    BY <2>2 DEF Halt, FrameType, Pc, Cause, outside, rest
  <2>3. CASE Finish
    BY <2>3 DEF Finish, FrameType, Pc, outside
  <2>4. CASE ListIntegration
    <3>1. [id |-> <<0, 0>>, scan |-> FALSE, does |-> RecordOnly] \in Item
      BY DEF Item, ItemId, RecordOnly
    <3>2. items' \subseteq Item
      BY <2>4, <3>1 DEF ListIntegration, FrameType
    <3> QED
      BY <2>4, <3>2 DEF ListIntegration, FrameType, Pc, replayed, rest
  <2>5. CASE RecordIntegEsc
    BY <2>5 DEF RecordIntegEsc, FrameType, Pc, outside, rest
  <2>6. ASSUME NEW reopens \in BOOLEAN, Hold(reopens) PROVE FrameType'
    BY <2>6 DEF Hold, FrameType, Pc, replayed, outside
  <2>7. ASSUME NEW verdict \in {"pass", "fail"}, Integrate(verdict) PROVE FrameType'
    BY <2>7 DEF Integrate, FrameType, outside, rest
  <2>8. ASSUME NEW item \in items, NEW i \in 1..Len(decisions), DecisionMismatch(item, i)
        PROVE  FrameType'
    BY <2>8, FrameIncident DEF DecisionMismatch, Cause
  <2>9. CASE CheckLine
    <3>1. head + 1 \in Nat
      BY DEF FrameType
    <3>2. \/ Raise \/ Incident("journal")
          \/ /\ head' = head + 1
             /\ UNCHANGED <<ledger, halted, integration, integEsc, recorded, cleaned, outside,
                            pc, why, rest>>
      BY <2>9 DEF CheckLine
    <3> QED
      BY <3>1, <3>2, FrameRaise, FrameIncident, SMTT(20) DEF FrameType, outside, rest, Cause
  <2>10. CASE TakeOver
    <3>1. \/ Raise \/ Incident("branch")
          \/ /\ halted' \in {"no", halted} /\ pc' = "drive"
             /\ UNCHANGED <<ledger, integration, integEsc, head, recorded, cleaned, outside,
                            why, rest>>
      BY <2>10 DEF TakeOver, replayed
    <3> QED
      BY <3>1, FrameRaise, FrameIncident, SMTT(20) DEF FrameType, Pc, outside, rest, Cause
  <2> QED
    BY <1>4, <2>1, <2>2, <2>3, <2>4, <2>5, <2>6, <2>7, <2>8, <2>9, <2>10, FrameAttempting,
       FrameDecision
    DEF Process
<1> QED
  BY <1>1, <1>2, <1>3, <1>4 DEF Next

-----------------------------------------------------------------------------
(* Where the process stands with the subtask it drives.                    *)

\* The places that say something of the subtask that is driven.
Placed == Judged \cup Merged \cup {"diff", "diffing", "listed"}

LEMMA OneCurrent ==
  ASSUME NEW r \in Subtask, NEW s \in Subtask, IsCurrent(r), IsCurrent(s) PROVE r = s
BY LoopAssumption DEF IsCurrent, Subtask

LEMMA PlaceLeft ==
  ASSUME pc' \notin Placed, pc' \in {"halting", "haltingOpen"} => why' # "no" PROVE PlacesOk'
BY DEF PlacesOk, PlaceOk, Placed, Judged, Merged

LEMMA PlaceRaise == ASSUME Raise PROVE PlacesOk'
BY PlaceLeft DEF Raise, Placed, Judged, Merged

LEMMA PlaceIncident == ASSUME NEW cause \in Cause, Incident(cause) PROVE PlacesOk'
BY PlaceLeft DEF Incident, Placed, Judged, Merged, Cause

LEMMA PlaceSame ==
  ASSUME PlacesOk, sub' = sub, att' = att, pc' = pc, why' = why PROVE PlacesOk'
<1>1. \A s \in Subtask : IsCurrent(s)' = IsCurrent(s) /\ Step(s)' = Step(s)
  BY DEF IsCurrent, Unresolved, Step, ResumePoint, Ended, Failed, Completed
<1> QED
  BY <1>1 DEF PlacesOk

\* The subtask that was driven still is, and it fits the new place.
LEMMA PlaceMove ==
  ASSUME NEW s \in Subtask, IsCurrent(s),
         \A r \in Subtask : Unresolved(r)' = Unresolved(r),
         PlaceOk(pc', sub'[s], att'[s]), pc' # "listed", pc' \notin {"halting", "haltingOpen"}
  PROVE  PlacesOk'
<1>1. ASSUME NEW r \in Subtask PROVE IsCurrent(r)' = IsCurrent(r)
  <2>1. \A q \in 1 .. r - 1 : q \in Subtask
    BY LoopAssumption DEF Subtask
  <2> QED
    BY <2>1 DEF IsCurrent
<1>2. \A r \in Subtask : IsCurrent(r)' => r = s
  BY <1>1, OneCurrent
<1> QED
  BY <1>2 DEF PlacesOk

LEMMA PlaceMoveSame ==
  ASSUME NEW s \in Subtask, IsCurrent(s), sub' = sub, att' = att,
         PlaceOk(pc', sub[s], att[s]), pc' # "listed", pc' \notin {"halting", "haltingOpen"}
  PROVE  PlacesOk'
BY PlaceMove DEF Unresolved

LEMMA PlaceAttempt ==
  ASSUME RecordType, NEW s \in Subtask, IsCurrent(s), NEW ok, NEW a, NEW next, EmitAtt(s, ok, a, next),
         Active(s) /\ ok => PlaceOk(next, sub[s], a),
         next # "listed", next \notin {"halting", "haltingOpen"}
  PROVE  PlacesOk'
<1>1. CASE Raise
  BY <1>1, PlaceRaise
<1>2. CASE Active(s) /\ ok /\ sub' = sub /\ att' = [att EXCEPT ![s] = a] /\ pc' = next
  <2>1. att'[s] = a
    BY <1>2 DEF RecordType
  <2>2. \A r \in Subtask : Unresolved(r)' = Unresolved(r)
    BY <1>2 DEF Unresolved
  <2> QED
    BY <1>2, <2>1, <2>2, PlaceMove
<1> QED
  BY <1>1, <1>2 DEF EmitAtt, Emit

\* The stages of a judgement.
LEMMA PlaceStages ==
  ASSUME Records, PlacesOk, NEW s \in Subtask,
         Spawn(s) \/ EnterStage(s) \/ EnterReject(s) \/ \E found \in {"ok", "refused"} : CheckChanges(s, found)
  PROVE  PlacesOk'
<1>0. RecordType /\ att[s] \in Attempt
  BY DEF Records, RecordType
<1>1. pc \in Judged /\ IsCurrent(s)
  BY DEF Spawn, EnterStage, EnterReject, CheckChanges, Judged
<1>2. /\ RecordOk(sub[s], att[s]) /\ StagesInOrder(att[s])
      /\ sub[s].status = "active" /\ sub[s].next = 0 /\ ~Ended(att[s]) /\ ~att[s].merged
      /\ sub[s].ending = "no"
  BY <1>1, AtJudgement
<1>3. ASSUME NEW c, NEW p \in {"running", "judge", "reject"}
      PROVE  PlaceOk(p, sub[s], [att[s] EXCEPT !.cursor = c])
  BY <1>0, <1>2 DEF PlaceOk, Ended, Judged, Merged, Attempt
<1>4. CASE Spawn(s) \/ EnterReject(s)
  <2>1. /\ PlaceOk("running", sub[s], [att[s] EXCEPT !.cursor = "spawn"])
        /\ PlaceOk("reject", sub[s], [att[s] EXCEPT !.cursor = "decide"])
    BY <1>3
  <2> QED
    BY <1>0, <1>4, <2>1, PlaceAttempt DEF Spawn, EnterReject
<1>5. ASSUME NEW stage \in {"verify_reading", "implement", "gate", "review", "decide"},
             JudgesNext(att[s], stage), pc = "judge", IsCurrent(s),
             EmitAtt(s, CanEnter(att[s], stage), [att[s] EXCEPT !.cursor = stage],
                     IF stage = "decide" THEN "merge" ELSE "judge")
      PROVE  PlacesOk'
  <2>1. CASE stage = "decide"
    <3>1. att[s].review = "pass"
      BY <1>5, <2>1 DEF JudgesNext
    <3>2. Cleared(att[s])
      BY <1>2, <3>1 DEF StagesInOrder, Cleared, GateLets
    <3>3. Cleared([att[s] EXCEPT !.cursor = stage])
      BY <1>0, <3>2 DEF Cleared, GateLets, Attempt
    <3>4. PlaceOk("merge", sub[s], [att[s] EXCEPT !.cursor = stage])
      BY <1>0, <1>2, <3>1, <3>3 DEF PlaceOk, Judged, Merged, Attempt
    <3>5. EmitAtt(s, CanEnter(att[s], stage), [att[s] EXCEPT !.cursor = stage], "merge")
      BY <1>5, <2>1
    <3> QED
      BY <1>0, <1>5, <3>4, <3>5, PlaceAttempt
  <2>2. CASE stage # "decide"
    <3>1. EmitAtt(s, CanEnter(att[s], stage), [att[s] EXCEPT !.cursor = stage], "judge")
      BY <1>5, <2>2
    <3>2. PlaceOk("judge", sub[s], [att[s] EXCEPT !.cursor = stage])
      BY <1>3
    <3> QED
      BY <1>0, <1>5, <3>1, <3>2, PlaceAttempt
  <2> QED
    BY <2>1, <2>2
<1>6. ASSUME NEW found \in {"ok", "refused"}, CheckChanges(s, found) PROVE PlacesOk'
  <2>1. PlaceOk("judge", sub[s], [att[s] EXCEPT !.changes = found])
    BY <1>0, <1>2 DEF PlaceOk, Ended, Judged, Merged, Attempt
  <2> QED
    BY <1>0, <1>6, <2>1, PlaceAttempt DEF CheckChanges
<1> QED
  BY <1>4, <1>5, <1>6 DEF EnterStage

\* The judgements themselves, and what ends an attempt.
LEMMA PlaceJudging ==
  ASSUME Records, PlacesOk, NEW s \in Subtask, Judging(s) PROVE PlacesOk'
<1>0. RecordType /\ att[s] \in Attempt
  BY DEF Records, RecordType
<1>1. CASE RejectAttempt(s)
  BY <1>1, PlaceLeft, PlaceRaise DEF RejectAttempt, Emit, Placed, Judged, Merged
<1>2. ASSUME NEW retry \in BOOLEAN, ReviewUnavailable(s, retry) PROVE PlacesOk'
  <2>1. CASE Raise \/ ~retry
    BY <1>2, <2>1, PlaceLeft, PlaceRaise DEF ReviewUnavailable, Emit, Placed, Judged, Merged
  <2>2. CASE ~Raise /\ retry
    <3>1. pc \in Judged /\ IsCurrent(s)
      BY <1>2 DEF ReviewUnavailable, Judged
    <3>2. /\ sub[s].status = "active" /\ sub[s].next = 0 /\ ~Ended(att[s]) /\ ~att[s].merged
      BY <3>1, AtJudgement
    <3>3. /\ sub' = sub /\ att' = [att EXCEPT ![s] = [att[s] EXCEPT !.unavail = "retried"]]
          /\ pc' = "judge"
      BY <1>2, <2>2 DEF ReviewUnavailable, Emit
    <3>4. att'[s] = [att[s] EXCEPT !.unavail = "retried"]
      BY <1>0, <3>3 DEF RecordType
    <3>5. PlaceOk("judge", sub[s], att'[s])
      BY <1>0, <3>2, <3>4 DEF PlaceOk, Ended, Judged, Merged, Attempt
    <3> QED
      BY <3>1, <3>3, <3>5, PlaceMove DEF Unresolved
  <2> QED
    BY <2>1, <2>2
<1>3. ASSUME NEW verdict \in {"skipped", "pass", "fail"}, RunGate(s, verdict) PROVE PlacesOk'
  <2>1. CASE Raise
    BY <2>1, PlaceRaise
  <2>2. CASE ~Raise
    <3>1. pc \in Judged /\ IsCurrent(s) /\ pc = "judge"
      BY <1>3 DEF RunGate, Judged
    <3>2. /\ sub[s].status = "active" /\ sub[s].next = 0 /\ ~Ended(att[s]) /\ ~att[s].merged
      BY <3>1, AtJudgement
    <3>3. sub' = sub /\ att' = [att EXCEPT ![s].gate = verdict] /\ pc' = pc
      BY <1>3, <2>2 DEF RunGate, Emit
    <3>4. att'[s] = [att[s] EXCEPT !.gate = verdict]
      BY <1>0, <3>3 DEF RecordType
    <3>5. PlaceOk("judge", sub[s], att'[s])
      BY <1>0, <3>2, <3>4 DEF PlaceOk, Ended, Judged, Merged, Attempt
    <3> QED
      BY <3>1, <3>3, <3>5, PlaceMove DEF Unresolved
  <2> QED
    BY <2>1, <2>2
<1>4. ASSUME NEW verdict \in Verdicts, Review(s, verdict) PROVE PlacesOk'
  <2>1. CASE Raise \/ verdict = "blocked"
    BY <1>4, <2>1, PlaceLeft, PlaceRaise DEF Review, Emit, Placed, Judged, Merged
  <2>2. CASE ~Raise /\ verdict # "blocked"
    <3> DEFINE result == IF verdict = "gaming" THEN "fail" ELSE verdict
    <3>1. pc \in Judged /\ IsCurrent(s)
      BY <1>4 DEF Review, Judged
    <3>2. /\ sub[s].status = "active" /\ sub[s].next = 0 /\ ~Ended(att[s]) /\ ~att[s].merged
          /\ sub[s] \in SubtaskState
      BY <3>1, AtJudgement
    <3>3. result # "blocked" /\ result \in {"pass", "fail"}
      BY <2>2, LoopAssumption
    <3>4. /\ sub' = [sub EXCEPT ![s].indicator = @ \/ verdict = "gaming"]
          /\ att' = [att EXCEPT ![s] = [att[s] EXCEPT !.review = result, !.judged = TRUE]]
          /\ pc' = "judge"
      BY <1>4, <2>2, <3>3 DEF Review, Emit
    <3> HIDE DEF result
    <3>5. att'[s] = [att[s] EXCEPT !.review = result, !.judged = TRUE]
      BY <1>0, <3>4 DEF RecordType
    <3>6. sub'[s].status = "active" /\ sub'[s].next = 0
      BY <1>0, <3>2, <3>4 DEF RecordType, SubtaskState
    <3>7. PlaceOk("judge", sub'[s], att'[s])
      BY <1>0, <3>2, <3>3, <3>5, <3>6 DEF PlaceOk, Ended, Judged, Merged, Attempt
    <3>8. \A r \in Subtask : Unresolved(r)' = Unresolved(r)
      BY <1>0, <3>2, <3>4, <3>6 DEF Unresolved, RecordType
    <3> QED
      BY <3>1, <3>4, <3>7, <3>8, PlaceMove
  <2> QED
    BY <2>1, <2>2
<1> QED
  BY <1>1, <1>2, <1>3, <1>4, PlaceStages DEF Judging

\* A merge, one effect or line at a time.
LEMMA PlaceMerging ==
  ASSUME FrameType, Records, PlacesOk, NEW s \in Subtask, Merging(s) PROVE PlacesOk'
<1>0. /\ RecordType /\ sub[s] \in SubtaskState /\ att[s] \in Attempt
      /\ RecordOk(sub[s], att[s])
  BY AtRecord DEF Records
<1>1. IsCurrent(s) /\ PlaceOk(pc, sub[s], att[s])
  BY AtPlace
  DEF Merging, RequireMergeable, IntendWrite, StoreWrite, RecordWrite, CheckBranch, GitMerge,
      RecordMerge, EnterDiff, CheckDiff
<1> DEFINE Ready(a) == /\ sub[s].status = "active" /\ sub[s].ending = "no" /\ ~a.merged
                       /\ Cleared(a) /\ (a.review = "pass" \/ a.approved)
<1>2. pc \in Merged => Ready(att[s])
  BY <1>1 DEF PlaceOk
<1>3. ASSUME NEW a, Ready(a), NEW p \in {"merge", "apply", "write", "written"}
      PROVE  PlaceOk(p, sub[s], a)
  BY <1>3 DEF PlaceOk, Merged, Judged
<1>4. ASSUME NEW a, Ready(a), a.applied = Proposals, NEW p \in {"git", "merged"}
      PROVE  PlaceOk(p, sub[s], a)
  BY <1>4 DEF PlaceOk, Merged, Judged
<1>5. ASSUME NEW a, a.merged, NEW p \in {"diff", "diffing"} PROVE PlaceOk(p, sub[s], a)
  BY <1>5 DEF PlaceOk, Merged, Judged
<1>6. CASE RequireMergeable(s)
  <2>1. PlaceOk("apply", sub[s], att[s])
    BY <1>2, <1>3, <1>6 DEF RequireMergeable, Merged
  <2> HIDE DEF Ready
  <2> QED
    BY <1>1, <1>6, <2>1, PlaceMoveSame, PlaceRaise DEF RequireMergeable, replayed
<1>7. CASE IntendWrite(s)
  <2> DEFINE b == [att[s] EXCEPT !.pending = TRUE]
  <2>1. /\ b.merged = att[s].merged /\ b.session = att[s].session /\ b.changes = att[s].changes
        /\ b.gate = att[s].gate /\ b.review = att[s].review /\ b.approved = att[s].approved
    BY <1>0 DEF Attempt
  <2>2. EmitAtt(s, att[s].cursor = "decide" /\ Mergeable(att[s]) /\ ~att[s].pending, b, "write")
        /\ pc = "apply"
    BY <1>7 DEF IntendWrite
  <2> HIDE DEF b
  <2>3. Ready(b)
    BY <1>2, <2>1, <2>2 DEF Merged, Cleared, GateLets
  <2>4. PlaceOk("write", sub[s], b)
    BY <1>3, <2>3
  <2> HIDE DEF Ready
  <2> QED
    BY <1>0, <1>1, <2>2, <2>4, PlaceAttempt
<1>8. CASE StoreWrite(s)
  <2>1. PlaceOk("written", sub[s], att[s])
    BY <1>2, <1>3, <1>8 DEF StoreWrite, Merged
  <2> HIDE DEF Ready
  <2>2. CASE Incident("journal")
    BY <2>2, PlaceIncident DEF Cause
  <2>3. CASE ~Incident("journal") /\ known = head
    BY <1>1, <1>8, <2>1, <2>3, PlaceMoveSame DEF StoreWrite, replayed
  <2>4. CASE ~Incident("journal") /\ known # head
    BY <1>8, <2>4, PlaceLeft DEF StoreWrite, Placed, Judged, Merged
  <2> QED
    BY <2>2, <2>3, <2>4
<1>9. CASE RecordWrite(s)
  <2>1. CASE Raise
    BY <2>1, PlaceRaise
  <2>2. CASE ~Raise
    <3>1. sub' = sub /\ att' = [att EXCEPT ![s].applied = @ + 1, ![s].pending = FALSE]
          /\ pc' = "apply" /\ pc = "written"
      BY <1>9, <2>2 DEF RecordWrite, Emit
    <3>2. att'[s] = [att[s] EXCEPT !.applied = att[s].applied + 1, !.pending = FALSE]
      BY <1>0, <3>1 DEF RecordType
    <3>3. /\ att'[s].merged = att[s].merged /\ att'[s].session = att[s].session
          /\ att'[s].changes = att[s].changes
          /\ att'[s].gate = att[s].gate /\ att'[s].review = att[s].review
          /\ att'[s].approved = att[s].approved
      BY <1>0, <3>2 DEF Attempt
    <3>4. Ready(att'[s])
      BY <1>2, <3>1, <3>3 DEF Merged, Cleared, GateLets
    <3>5. PlaceOk("apply", sub[s], att'[s])
      BY <1>3, <3>4
    <3> QED
      BY <1>1, <3>1, <3>5, PlaceMove DEF Unresolved
  <2> QED
    BY <2>1, <2>2
<1>10. CASE CheckBranch(s)
  <2>1. PlaceOk("git", sub[s], att[s])
    BY <1>2, <1>4, <1>10 DEF CheckBranch, Merged
  <2>2. CASE Incident("branch")
    BY <2>2, PlaceIncident DEF Cause
  <2>3. CASE ~Incident("branch")
    <3> HIDE DEF Ready
    <3> QED
      BY <1>1, <1>10, <2>1, <2>3, PlaceMoveSame DEF CheckBranch, replayed
  <2> QED
    BY <2>2, <2>3
<1>11. CASE GitMerge(s)
  <2>1. att[s].applied = Proposals
    BY <1>1, <1>11 DEF GitMerge, PlaceOk
  <2>2. PlaceOk("merged", sub[s], att[s])
    BY <1>2, <1>4, <1>11, <2>1 DEF GitMerge, Merged
  <2>3. CASE Incident("merge")
    BY <2>3, PlaceIncident DEF Cause
  <2>4. CASE ~Incident("merge")
    <3> HIDE DEF Ready
    <3> QED
      BY <1>1, <1>11, <2>2, <2>4, PlaceMoveSame DEF GitMerge, replayed
  <2> QED
    BY <2>3, <2>4
<1>12. CASE RecordMerge(s)
  <2>1. CASE Raise
    BY <2>1, PlaceRaise
  <2>2. CASE ~Raise
    <3>1. sub' = sub /\ att' = [att EXCEPT ![s].merged = TRUE] /\ pc' = "diff"
      BY <1>12, <2>2 DEF RecordMerge, Emit
    <3>2. att'[s].merged
      BY <1>0, <3>1 DEF RecordType, Attempt
    <3>3. PlaceOk("diff", sub[s], att'[s])
      BY <1>5, <3>2
    <3> QED
      BY <1>1, <3>1, <3>3, PlaceMove DEF Unresolved
  <2> QED
    BY <2>1, <2>2
<1>13. CASE EnterDiff(s)
  <2>1. [att[s] EXCEPT !.cursor = "diff"].merged
    BY <1>0, <1>1, <1>13 DEF EnterDiff, PlaceOk, Attempt
  <2>2. PlaceOk("diffing", sub[s], [att[s] EXCEPT !.cursor = "diff"])
    BY <1>5, <2>1
  <2> QED
    BY <1>0, <1>1, <1>13, <2>2, PlaceAttempt DEF EnterDiff
<1>14. ASSUME NEW found \in BOOLEAN, CheckDiff(s, found) PROVE PlacesOk'
  BY <1>14, PlaceLeft, PlaceRaise DEF CheckDiff, Emit, Placed, Judged, Merged
<1> QED
  BY <1>6, <1>7, <1>8, <1>9, <1>10, <1>11, <1>12, <1>13, <1>14 DEF Merging

LEMMA PlaceAttempting ==
  ASSUME FrameType, Records, PlacesOk, NEW s \in Subtask, Attempting(s) PROVE PlacesOk'
<1>0. /\ RecordType /\ sub[s] \in SubtaskState /\ att[s] \in Attempt
      /\ RecordOk(sub[s], att[s]) /\ StagesInOrder(att[s])
  BY AtRecord DEF Records
<1>1. CASE Continue(s)
  <2>1. PICK step \in {"verify_reading", "merge", "diff"} :
          /\ Drives(s, step) /\ pc' = IF step = "verify_reading" THEN "judge" ELSE step
    BY <1>1 DEF Continue
  <2>2. IsCurrent(s) /\ Step(s) = step /\ Unresolved(s) /\ sub' = sub /\ att' = att
    BY <1>1, <2>1 DEF Continue, Drives, IsCurrent, replayed
  <2>3. sub[s].status = "active" /\ att[s].n # 0
    BY <1>0, <2>2 DEF Unresolved, Step, RecordOk
  <2>4. CASE step = "verify_reading"
    <3>1. /\ sub[s].ending = "no" /\ ~att[s].approved /\ ~Ended(att[s])
          /\ ~att[s].merged /\ Completed(att[s])
      BY <2>2, <2>4, StepFacts
    <3>2. sub[s].next = 0
      BY <1>0, <2>3, <3>1 DEF RecordOk
    <3>3. PlaceOk("judge", sub[s], att[s])
      BY <2>3, <3>1, <3>2 DEF PlaceOk, Judged, Merged
    <3> QED
      BY <2>1, <2>2, <2>4, <3>3, PlaceMoveSame
  <2>5. CASE step = "merge"
    <3>1. sub[s].ending = "no" /\ att[s].approved /\ ~att[s].merged
      BY <2>2, <2>5, StepFacts
    <3>2. Cleared(att[s])
      BY <1>0, <3>1 DEF RecordOk
    <3>3. PlaceOk("merge", sub[s], att[s])
      BY <2>3, <3>1, <3>2 DEF PlaceOk, Judged, Merged
    <3> QED
      BY <2>1, <2>2, <2>5, <3>3, PlaceMoveSame
  <2>6. CASE step = "diff"
    <3>1. att[s].merged
      BY <2>2, <2>6, StepFacts
    <3>2. PlaceOk("diff", sub[s], att[s])
      BY <3>1 DEF PlaceOk, Judged, Merged
    <3> QED
      BY <2>1, <2>2, <2>6, <3>2, PlaceMoveSame
  <2> QED
    BY <2>4, <2>5, <2>6
<1>2. CASE BeginAttempt(s)
  <2> DEFINE n == Number(s)
             new == att[s].n # n
             fresh == [Fresh(n, sub[s].fixNext) EXCEPT !.cursor = "resolve"]
             again == Restarted(att[s], "resolve")
  <2>1. CASE Raise
    BY <2>1, PlaceRaise
  <2>2. CASE ~Raise
    <3>1. /\ IsCurrent(s) /\ Step(s) = "resolve" /\ Unresolved(s) /\ sub[s].next = n
          /\ att' = [att EXCEPT ![s] = IF new THEN fresh ELSE Restarted(@, "resolve")]
          /\ sub' = [sub EXCEPT ![s].status = "active", ![s].next = 0,
                       ![s].fixNext = @ /\ ~new,
                       ![s].fixUsed = @ \/ (new /\ sub[s].fixNext),
                       ![s].unjudged = @ \/ (new /\ att[s].n # 0 /\ ~att[s].judged)]
          /\ pc' = "session"
      BY <1>2, <2>2 DEF BeginAttempt, Drives
    <3>2. ~att[s].merged /\ (~new => ~Ended(att[s]))
      BY <3>1, StepResolve
    <3> HIDE DEF n, new
    <3>3. sub'[s].status = "active" /\ sub'[s].next = 0
      BY <1>0, <3>1 DEF RecordType, SubtaskState
    <3>4. att'[s] = IF new THEN fresh ELSE again
      BY <1>0, <3>1 DEF RecordType
    <3>5. ~Ended(fresh) /\ ~fresh.merged
      BY DEF Fresh, Ended
    <3>6. /\ again.review = "none" /\ again.unavail = "none"
          /\ again.rejected = att[s].rejected /\ again.merged = att[s].merged
      BY <1>0, RestartedFields
    <3> HIDE DEF fresh, again
    <3>7. ~Ended(att'[s]) /\ ~att'[s].merged
      BY <3>2, <3>4, <3>5, <3>6 DEF Ended
    <3>8. PlaceOk("session", sub'[s], att'[s])
      BY <3>3, <3>7 DEF PlaceOk, Judged, Merged
    <3>9. \A r \in Subtask : r # s => sub'[r] = sub[r]
      BY <1>0, <3>1 DEF RecordType
    <3>10. ASSUME NEW r \in Subtask PROVE Unresolved(r)' = Unresolved(r)
      <4>1. CASE r = s
        <5>1. Unresolved(s)' /\ Unresolved(s)
          BY <3>1, <3>3 DEF Unresolved
        <5> QED
          BY <4>1, <5>1
      <4>2. CASE r # s
        BY <3>9, <4>2 DEF Unresolved
      <4> QED
        BY <4>1, <4>2
    <3> QED
      BY <3>1, <3>8, <3>10, PlaceMove
  <2> QED
    BY <2>1, <2>2
<1>3. ASSUME NEW end \in Ends, NEW shows \in BOOLEAN, SessionEnds(s, end, shows) PROVE PlacesOk'
  <2>1. CASE pc' # "checkSession"
    BY <1>3, <2>1, PlaceLeft DEF SessionEnds, Placed, Judged, Merged
  <2>2. CASE pc' = "checkSession"
    <3>1. IsCurrent(s) /\ pc \in Judged
      BY <1>3 DEF SessionEnds, Judged
    <3>2. /\ sub[s].status = "active" /\ sub[s].next = 0 /\ ~Ended(att[s]) /\ ~att[s].merged
      BY <3>1, AtJudgement
    <3>3. sub' = sub /\ att' = [att EXCEPT ![s].session = end]
      BY <1>3, <2>2 DEF SessionEnds
    <3>4. att'[s] = [att[s] EXCEPT !.session = end]
      BY <1>0, <3>3 DEF RecordType
    <3>5. PlaceOk("checkSession", sub[s], att'[s])
      BY <1>0, <3>2, <3>4 DEF PlaceOk, Ended, Judged, Merged, Attempt
    <3> QED
      BY <2>2, <3>1, <3>3, <3>5, PlaceMove DEF Unresolved
  <2> QED
    BY <2>1, <2>2
<1>4. ASSUME NEW scan \in BOOLEAN, List(s, scan) PROVE PlacesOk'
  <2>1. IsCurrent(s) /\ Step(s) = "escalate" /\ sub' = sub /\ att' = att /\ pc' = "listed"
    BY <1>4 DEF List, Drives, replayed
  <2>2. \A r \in Subtask : IsCurrent(r)' = IsCurrent(r) /\ Step(r)' = Step(r)
    BY <2>1 DEF IsCurrent, Unresolved, Step, ResumePoint, Ended, Failed, Completed
  <2>3. \A r \in Subtask : IsCurrent(r) => r = s
    BY <2>1, OneCurrent
  <2> QED
    BY <2>1, <2>2, <2>3 DEF PlacesOk, PlaceOk, Judged, Merged
<1>5. CASE Decide(s) \/ RecordEscalated(s) \/ EndSubtask(s) \/ InfraFailed(s)
  BY <1>5, PlaceLeft, PlaceRaise
  DEF Decide, RecordEscalated, EndSubtask, InfraFailed, Drives, Emit, Placed, Judged, Merged
<1>6. CASE Spawn(s)
  BY <1>6, PlaceStages
<1> QED
  BY <1>1, <1>2, <1>3, <1>4, <1>5, <1>6, PlaceJudging, PlaceMerging DEF Attempting

LEMMA PlacesStep ==
  ASSUME FrameType, Records, PlacesOk, [Next]_vars PROVE PlacesOk'
<1>0. RecordType
  BY DEF Records
<1>1. CASE UNCHANGED vars
  BY <1>1, PlaceSame DEF vars, replayed
<1>2. ASSUME NEW cmd \in {"run", "resume"}, Command(cmd) PROVE PlacesOk'
  BY <1>2, PlaceLeft DEF Command, Placed, Judged, Merged
<1>3. CASE Environment
  <2>1. CASE \/ ForeignLine
             \/ \E item \in items, verb \in Verb, long \in BOOLEAN : PersonDecides(item, verb, long)
    BY <2>1, PlaceSame DEF ForeignLine, PersonDecides, replayed
  <2>2. CASE Kill
    BY <2>2, PlaceLeft DEF Kill, Placed, Judged, Merged
  <2>3. ASSUME NEW s \in Subtask, RemoveSubtask(s) PROVE PlacesOk'
    BY <2>3, PlaceLeft DEF RemoveSubtask, Placed, Judged, Merged
  <2> QED
    BY <1>3, <2>1, <2>2, <2>3 DEF Environment
<1>4. CASE Process
  <2>1. CASE \/ Halt \/ DiffStale \/ LeaveLoop \/ Finish \/ ListIntegration \/ RecordIntegEsc
             \/ \E verdict \in {"pass", "fail"} : Integrate(verdict)
    BY <2>1, PlaceLeft
    DEF Halt, DiffStale, LeaveLoop, Finish, ListIntegration, RecordIntegEsc, Integrate, Placed,
        Judged, Merged
  <2>2. ASSUME NEW item \in items, NEW i \in 1..Len(decisions),
               TakeDecision(item, i) \/ DecisionMismatch(item, i)
        PROVE  PlacesOk'
    BY <2>2, PlaceLeft, PlaceIncident
    DEF TakeDecision, DecisionMismatch, Placed, Judged, Merged, Cause
  <2>3. CASE TakeOver
    <3>1. Raise \/ Incident("branch") \/ pc' = "drive"
      BY <2>3 DEF TakeOver
    <3> QED
      BY <3>1, PlaceLeft, PlaceRaise, PlaceIncident DEF Placed, Judged, Merged, Cause
  <2>4. ASSUME sub' = sub, att' = att, pc \in Judged, pc' \in Judged \ Merged PROVE PlacesOk'
    <3>1. \A s \in Subtask : IsCurrent(s)' = IsCurrent(s)
      BY <2>4 DEF IsCurrent, Unresolved
    <3> QED
      BY <2>4, <3>1 DEF PlacesOk, PlaceOk, Judged, Merged
  <2>5. CASE JournalHolds
    BY <2>4, <2>5, PlaceLeft DEF JournalHolds, Checking, Placed, Judged, Merged, replayed
  <2>6. ASSUME NEW reopens \in BOOLEAN, Hold(reopens) PROVE PlacesOk'
    BY <2>4, <2>6, PlaceLeft DEF Hold, Placed, Judged, Merged, replayed
  <2>7. CASE CheckLine
    <3>1. CASE Raise \/ Incident("journal")
      BY <3>1, PlaceRaise, PlaceIncident DEF Cause
    <3>2. ASSUME NEW s \in Subtask, sub' = sub, pc' = pc, Checking,
                 att' = [att EXCEPT ![s].applied = @ + 1, ![s].pending = FALSE]
          PROVE  PlacesOk'
      <4>1. CASE pc = "checkSession"
        <5>1. \A r \in Subtask : IsCurrent(r)' = IsCurrent(r)
          BY <3>2 DEF IsCurrent, Unresolved
        <5>2. \A r \in Subtask : /\ att'[r].merged = att[r].merged
                                 /\ att'[r].rejected = att[r].rejected
                                 /\ att'[r].review = att[r].review
                                 /\ att'[r].unavail = att[r].unavail
          BY <1>0, <3>2 DEF RecordType, Attempt
        <5>3. pc' = "checkSession" /\ pc' \in Judged /\ pc' \notin Merged
          BY <3>2, <4>1 DEF Judged, Merged
        <5>4. ASSUME NEW r \in Subtask, IsCurrent(r)' PROVE PlaceOk(pc', sub'[r], att'[r])
          <6>1. PlaceOk(pc, sub[r], att[r])
            BY <5>1, <5>4, AtPlace
          <6>2. sub[r].status = "active" /\ sub[r].next = 0 /\ ~Ended(att[r]) /\ ~att[r].merged
            BY <4>1, <6>1 DEF PlaceOk, Judged
          <6> QED
            BY <3>2, <5>2, <5>3, <6>2 DEF PlaceOk, Ended
        <5> QED
          BY <5>3, <5>4 DEF PlacesOk
      <4>2. CASE pc # "checkSession"
        BY <3>2, <4>2, PlaceLeft DEF Checking, Placed, Judged, Merged
      <4> QED
        BY <4>1, <4>2
    <3> QED
      BY <2>7, <3>1, <3>2 DEF CheckLine
  <2> QED
    BY <1>4, <2>1, <2>2, <2>3, <2>5, <2>6, <2>7, PlaceAttempting DEF Process
<1> QED
  BY <1>1, <1>2, <1>3, <1>4 DEF Next

-----------------------------------------------------------------------------
(* The journal and the branch: most steps leave them, and what is counted  *)
(* of an attempt, as they are.                                             *)

Tally(a, b) == b.n = a.n /\ b.applied = a.applied /\ b.merged = a.merged

Quiet == /\ journal' = journal /\ head' = head /\ branch' = branch /\ recorded' = recorded
         /\ \A r \in Subtask : Tally(att[r], att'[r])
         /\ known' <= Len(journal)
         /\ Clear' => Clear
         /\ pc' \notin {"written", "git", "merged"}

\* A step that nothing above is about.
Still == UNCHANGED <<sub, att, halted, head, recorded, journal, branch, pc, known>>

LEMMA TallyMove ==
  ASSUME RecordType, NEW s \in Subtask, NEW b, Tally(att[s], b), att' = [att EXCEPT ![s] = b]
  PROVE  \A r \in Subtask : Tally(att[r], att'[r])
BY DEF RecordType, Tally

LEMMA RaiseQuiet == ASSUME FrameType, JournalOk, Raise PROVE Quiet
BY DEF Raise, Quiet, Tally, Clear, JournalOk, replayed, outside, rest

LEMMA IncidentQuiet == ASSUME FrameType, JournalOk, NEW cause, Incident(cause) PROVE Quiet
BY DEF Incident, Quiet, Tally, Clear, JournalOk, replayed, outside, rest

\* A line about an attempt, where it is written at all, is written in a run that goes on.
LEMMA AttemptQuiet ==
  ASSUME FrameType, RecordType, JournalOk, Clear, NEW s \in Subtask, NEW ok, NEW a, NEW next,
         EmitAtt(s, ok, a, next), Tally(att[s], a), next \notin {"written", "git", "merged"}
  PROVE  Quiet
<1>1. CASE Raise
  BY <1>1, RaiseQuiet
<1>2. CASE /\ att' = [att EXCEPT ![s] = a] /\ pc' = next
           /\ UNCHANGED <<head, recorded, outside, rest>>
  <2>1. \A r \in Subtask : Tally(att[r], att'[r])
    BY <1>2, TallyMove
  <2> QED
    BY <1>2, <2>1 DEF Quiet, JournalOk, outside, rest
<1> QED
  BY <1>1, <1>2 DEF EmitAtt, Emit

LEMMA JudgingQuiet ==
  ASSUME FrameType, RecordType, JournalOk, NEW s \in Subtask, Judging(s) PROVE Quiet
<1>0. att[s] \in Attempt
  BY DEF RecordType
<1>1. Clear
  BY DEF Judging, EnterStage, EnterReject, RejectAttempt, CheckChanges, RunGate, Review,
     ReviewUnavailable, Clear
<1>2. CASE EnterStage(s) \/ EnterReject(s)
  <2>1. ASSUME NEW c PROVE Tally(att[s], [att[s] EXCEPT !.cursor = c])
    BY <1>0 DEF Tally, Attempt
  <2>2. CASE EnterStage(s)
    <3>1. PICK stage \in {"verify_reading", "implement", "gate", "review", "decide"} :
            EmitAtt(s, CanEnter(att[s], stage), [att[s] EXCEPT !.cursor = stage],
                    IF stage = "decide" THEN "merge" ELSE "judge")
      BY <2>2 DEF EnterStage
    <3>2. Tally(att[s], [att[s] EXCEPT !.cursor = stage])
      BY <2>1
    <3> QED
      BY <1>1, <3>1, <3>2, AttemptQuiet
  <2>3. CASE EnterReject(s)
    <3>1. Tally(att[s], [att[s] EXCEPT !.cursor = "decide"])
      BY <2>1
    <3> QED
      BY <1>1, <2>3, <3>1, AttemptQuiet DEF EnterReject
  <2> QED
    BY <1>2, <2>2, <2>3
<1>3. ASSUME NEW b, Tally(att[s], b), att' = [att EXCEPT ![s] = b],
             UNCHANGED <<head, recorded, outside, rest>>, pc' \in {"judge", "drive"}
      PROVE  Quiet
  <2>1. \A r \in Subtask : Tally(att[r], att'[r])
    BY <1>3, TallyMove
  <2> QED
    BY <1>1, <1>3, <2>1 DEF Quiet, JournalOk, outside, rest
<1>4. ASSUME NEW found \in {"ok", "refused"}, CheckChanges(s, found) PROVE Quiet
  <2> DEFINE b == [att[s] EXCEPT !.changes = found]
  <2>1. Tally(att[s], b)
    BY <1>0 DEF Tally, Attempt
  <2>2. \/ Raise
        \/ /\ att' = [att EXCEPT ![s] = b]
           /\ pc' = "judge" /\ UNCHANGED <<head, recorded, outside, rest>>
    BY <1>4 DEF CheckChanges, EmitAtt, Emit
  <2> HIDE DEF b
  <2> QED
    BY <1>3, <2>1, <2>2, RaiseQuiet
<1>5. ASSUME NEW b, Tally(att[s], b), Ending(s, b),
             UNCHANGED <<head, recorded, outside, rest>>, pc' \in {"judge", "drive"},
             b \in Attempt
      PROVE  Quiet
  <2> DEFINE c == [b EXCEPT !.routed = IF b.fix /\ b.unavail = "final" THEN "yes" ELSE @]
  <2>1. Tally(att[s], c)
    BY <1>5 DEF Tally, Attempt
  <2>2. att' = [att EXCEPT ![s] = c]
    BY <1>5 DEF Ending
  <2> HIDE DEF c
  <2> QED
    BY <1>3, <1>5, <2>1, <2>2
<1>6. CASE RejectAttempt(s)
  <2> DEFINE b == [att[s] EXCEPT !.rejected = TRUE]
  <2>1. Tally(att[s], b) /\ b \in Attempt
    BY <1>0 DEF Tally, Attempt
  <2>2. \/ Raise
        \/ Ending(s, b) /\ pc' = "drive" /\ UNCHANGED <<head, recorded, outside, rest>>
    BY <1>6 DEF RejectAttempt, Emit
  <2> HIDE DEF b
  <2> QED
    BY <1>5, <2>1, <2>2, RaiseQuiet
<1>7. ASSUME NEW retry \in BOOLEAN, ReviewUnavailable(s, retry) PROVE Quiet
  <2> DEFINE word == IF retry THEN "retried" ELSE "final"
             b == [att[s] EXCEPT !.unavail = word]
  <2>1. word \in {"none", "retried", "final"}
    OBVIOUS
  <2>2. Tally(att[s], b) /\ b \in Attempt
    <3> HIDE DEF word
    <3> QED
      BY <1>0, <2>1 DEF Tally, Attempt
  <2>3. \/ Raise
        \/ /\ \/ att' = [att EXCEPT ![s] = b]
              \/ Ending(s, b)
           /\ pc' \in {"judge", "drive"} /\ UNCHANGED <<head, recorded, outside, rest>>
    BY <1>7 DEF ReviewUnavailable, Emit
  <2> HIDE DEF b
  <2> QED
    BY <1>3, <1>5, <2>2, <2>3, RaiseQuiet
<1>8. ASSUME NEW verdict \in {"skipped", "pass", "fail"}, RunGate(s, verdict) PROVE Quiet
  <2> DEFINE b == [att[s] EXCEPT !.gate = verdict]
  <2>1. Tally(att[s], b)
    BY <1>0 DEF Tally, Attempt
  <2>2. \/ Raise
        \/ /\ att' = [att EXCEPT ![s] = b]
           /\ pc' = "judge" /\ UNCHANGED <<head, recorded, outside, rest>>
    BY <1>8 DEF RunGate, Emit, RecordType
  <2> HIDE DEF b
  <2> QED
    BY <1>3, <2>1, <2>2, RaiseQuiet
<1>9. ASSUME NEW verdict \in Verdicts, Review(s, verdict) PROVE Quiet
  <2> DEFINE result == IF verdict = "gaming" THEN "fail" ELSE verdict
             b == [att[s] EXCEPT !.review = result, !.judged = TRUE]
  <2>1. result \in {"none", "pass", "fail", "blocked"}
    BY LoopAssumption
  <2>2. Tally(att[s], b) /\ b \in Attempt
    <3> HIDE DEF result
    <3>1. b \in Attempt
      BY <1>0, <2>1 DEF Attempt
    <3> QED
      BY <1>0, <3>1 DEF Tally, Attempt
  <2>3. \/ Raise
        \/ /\ \/ att' = [att EXCEPT ![s] = b]
              \/ Ending(s, b)
           /\ pc' \in {"judge", "drive"} /\ UNCHANGED <<head, recorded, outside, rest>>
    BY <1>9 DEF Review, Emit
  <2> HIDE DEF b
  <2> QED
    BY <1>3, <1>5, <2>2, <2>3, RaiseQuiet
<1> QED
  BY <1>2, <1>4, <1>6, <1>7, <1>8, <1>9 DEF Judging

\* The other steps that are quiet, outright or where they raise or meet an incident.
LEMMA MergingQuiet ==
  ASSUME FrameType, RecordType, JournalOk, NEW s \in Subtask,
         \/ RequireMergeable(s) \/ IntendWrite(s) \/ EnterDiff(s)
         \/ \E found \in BOOLEAN : CheckDiff(s, found)
  PROVE  Quiet
<1>0. att[s] \in Attempt
  BY DEF RecordType
<1>1. Clear
  BY DEF RequireMergeable, IntendWrite, EnterDiff, CheckDiff, Clear
<1>2. ASSUME NEW b, Tally(att[s], b), att' = [att EXCEPT ![s] = b],
             UNCHANGED <<head, recorded, outside, rest>>, pc' \notin {"written", "git", "merged"}
      PROVE  Quiet
  <2>1. \A r \in Subtask : Tally(att[r], att'[r])
    BY <1>2, TallyMove
  <2> QED
    BY <1>1, <1>2, <2>1 DEF Quiet, JournalOk, outside, rest
<1>3. CASE RequireMergeable(s)
  <2>1. Raise \/ (pc' = "apply" /\ UNCHANGED <<replayed, outside, why, rest>>)
    BY <1>3 DEF RequireMergeable
  <2> QED
    BY <1>1, <2>1, RaiseQuiet DEF Quiet, Tally, JournalOk, outside, rest, replayed
<1>4. CASE IntendWrite(s)
  <2> DEFINE b == [att[s] EXCEPT !.pending = TRUE]
  <2>1. Tally(att[s], b)
    BY <1>0 DEF Tally, Attempt
  <2>2. Raise \/ (/\ att' = [att EXCEPT ![s] = b] /\ pc' = "write"
                  /\ UNCHANGED <<head, recorded, outside, rest>>)
    BY <1>4 DEF IntendWrite, EmitAtt, Emit
  <2> HIDE DEF b
  <2> QED
    BY <1>2, <2>1, <2>2, RaiseQuiet
<1>5. CASE EnterDiff(s)
  <2> DEFINE b == [att[s] EXCEPT !.cursor = "diff"]
  <2>1. Tally(att[s], b)
    BY <1>0 DEF Tally, Attempt
  <2>2. Raise \/ (/\ att' = [att EXCEPT ![s] = b] /\ pc' = "diffing"
                  /\ UNCHANGED <<head, recorded, outside, rest>>)
    BY <1>5 DEF EnterDiff, EmitAtt, Emit
  <2> HIDE DEF b
  <2> QED
    BY <1>2, <2>1, <2>2, RaiseQuiet
<1>6. ASSUME NEW found \in BOOLEAN, CheckDiff(s, found) PROVE Quiet
  <2> DEFINE said == IF found THEN "divergent" ELSE "clean"
             b == [att[s] EXCEPT !.diff = said]
  <2>1. said \in {"clean", "divergent"}
    OBVIOUS
  <2>2. Tally(att[s], b)
    <3> HIDE DEF said
    <3> QED
      BY <1>0, <2>1 DEF Tally, Attempt
  <2>3. Raise \/ (/\ att' = [att EXCEPT ![s].diff = said] /\ pc' \in {"halting", "drive"}
                  /\ UNCHANGED <<head, recorded, outside, rest>>)
    BY <1>6 DEF CheckDiff, Emit
  <2>4. [att EXCEPT ![s].diff = said] = [att EXCEPT ![s] = b]
    BY DEF RecordType
  <2> HIDE DEF b
  <2> QED
    BY <1>2, <2>2, <2>3, <2>4, RaiseQuiet
<1> QED
  BY <1>3, <1>4, <1>5, <1>6

LEMMA AttemptingQuiet ==
  ASSUME FrameType, RecordType, JournalOk, NEW s \in Subtask, NEW end, NEW shows, NEW scan,
         \/ Continue(s) \/ Spawn(s) \/ InfraFailed(s) \/ Decide(s) \/ EndSubtask(s)
         \/ RecordEscalated(s) \/ SessionEnds(s, end, shows) \/ List(s, scan)
  PROVE  Quiet
<1>0. att[s] \in Attempt
  BY DEF RecordType
<1>1. Clear
  BY DEF Continue, Spawn, InfraFailed, Decide, EndSubtask, RecordEscalated, SessionEnds, List,
     Drives, Clear
<1>2. ASSUME NEW b, Tally(att[s], b), att' = [att EXCEPT ![s] = b],
             UNCHANGED <<head, recorded, journal, branch, known>>,
             pc' \notin {"written", "git", "merged"}
      PROVE  Quiet
  <2>1. \A r \in Subtask : Tally(att[r], att'[r])
    BY <1>2, TallyMove
  <2> QED
    BY <1>1, <1>2, <2>1 DEF Quiet, JournalOk
<1>3. ASSUME att' = att, UNCHANGED <<head, recorded, journal, branch, known>>,
             pc' \notin {"written", "git", "merged"}
      PROVE  Quiet
  BY <1>1, <1>3 DEF Quiet, Tally, JournalOk
<1>4. CASE Continue(s) \/ List(s, scan) \/ EndSubtask(s) \/ RecordEscalated(s)
  <2>1. Raise \/ (/\ att' = att /\ pc' \in {"judge", "merge", "diff", "listed", "drive"}
                  /\ UNCHANGED <<head, recorded, journal, branch, known>>)
    BY <1>4 DEF Continue, List, EndSubtask, RecordEscalated, Drives, Emit, outside, rest, replayed
  <2> QED
    BY <1>3, <2>1, RaiseQuiet
<1>5. CASE Spawn(s)
  <2> DEFINE b == [att[s] EXCEPT !.cursor = "spawn"]
  <2>1. Tally(att[s], b)
    BY <1>0 DEF Tally, Attempt
  <2>2. Raise \/ (/\ att' = [att EXCEPT ![s] = b] /\ pc' = "running"
                  /\ UNCHANGED <<head, recorded, journal, branch, known>>)
    BY <1>5 DEF Spawn, EmitAtt, Emit, outside, rest
  <2> HIDE DEF b
  <2> QED
    BY <1>2, <2>1, <2>2, RaiseQuiet
<1>6. CASE InfraFailed(s)
  <2> DEFINE b == [att[s] EXCEPT !.retries = @ + 1]
  <2>1. Tally(att[s], b)
    BY <1>0 DEF Tally, Attempt
  <2>2. [att EXCEPT ![s].retries = @ + 1] = [att EXCEPT ![s] = b]
    BY DEF RecordType
  <2>3. Raise \/ (/\ att' \in {att, [att EXCEPT ![s].retries = @ + 1]} /\ pc' = "drive"
                  /\ UNCHANGED <<head, recorded, journal, branch, known>>)
    BY <1>6 DEF InfraFailed, Drives, Emit, outside, rest
  <2> HIDE DEF b
  <2> QED
    BY <1>2, <1>3, <2>1, <2>2, <2>3, RaiseQuiet
<1>7. CASE Decide(s)
  <2> DEFINE by == IF ~att[s].rejected \/ att[s].n >= Budget THEN "yes" ELSE "no"
             b == [att[s] EXCEPT !.routed = by]
  <2>1. Tally(att[s], b)
    <3> HIDE DEF by
    <3> QED
      BY <1>0 DEF Tally, Attempt
  <2>2. [att EXCEPT ![s].routed = by] = [att EXCEPT ![s] = b]
    BY DEF RecordType
  <2>3. Raise \/ (/\ att' = [att EXCEPT ![s].routed = by] /\ pc' = "drive"
                  /\ UNCHANGED <<head, recorded, journal, branch, known>>)
    BY <1>7 DEF Decide, Drives, Emit, outside, rest
  <2> HIDE DEF b
  <2> QED
    BY <1>2, <2>1, <2>2, <2>3, RaiseQuiet
<1>8. CASE SessionEnds(s, end, shows)
  <2> DEFINE b == [att[s] EXCEPT !.session = end]
  <2>1. Tally(att[s], b)
    BY <1>0 DEF Tally, Attempt
  <2>2. /\ att' = att \/ att' = [att EXCEPT ![s] = b]
        /\ pc' \in {"raised", "halting", "checkSession", "drive"}
        /\ UNCHANGED <<head, recorded, journal, branch, known>>
    BY <1>8 DEF SessionEnds, RecordType
  <2> HIDE DEF b
  <2> QED
    BY <1>2, <1>3, <2>1, <2>2
<1> QED
  BY <1>4, <1>5, <1>6, <1>7, <1>8

LEMMA DecisionQuiet ==
  ASSUME FrameType, RecordType, JournalOk, NEW item \in items, NEW i \in 1..Len(decisions),
         TakeDecision(item, i)
  PROVE  Quiet
<1> DEFINE s == item.id[1]
           effect == Effect(item, decisions[i])
           merges == (effect = "merge")
           spends == (effect # "merge")
           cursor == IF effect = "merge" THEN "decide" ELSE att[s].cursor
           b == [att[s] EXCEPT !.approved = merges, !.spent = spends, !.cursor = cursor]
<1>1. Clear
  BY DEF TakeDecision, Deciding, AtABoundary, Clear
<1>2. UNCHANGED <<head, recorded, journal, branch, known, pc>> /\ pc = "drive"
  BY DEF TakeDecision, outside, rest
<1>3. \/ att' = att
      \/ /\ att' = [att EXCEPT ![s].approved = (effect = "merge"), ![s].spent = (effect # "merge"),
                               ![s].cursor = IF effect = "merge" THEN "decide" ELSE @]
         /\ item.id[2] # 0
  BY DEF TakeDecision
<1>4. item.id[2] # 0 => s \in Subtask
  BY DEF FrameType, Item, ItemId
<1>5. [att EXCEPT ![s].approved = (effect = "merge"), ![s].spent = (effect # "merge"),
                  ![s].cursor = IF effect = "merge" THEN "decide" ELSE @] = [att EXCEPT ![s] = b]
  <2> HIDE DEF effect
  <2> QED
    BY DEF RecordType
<1>6. s \in Subtask => Tally(att[s], b)
  <2> HIDE DEF merges, spends, cursor
  <2> QED
    BY DEF Tally, Attempt, RecordType
<1> HIDE DEF b, s, effect
<1>7. \A r \in Subtask : Tally(att[r], att'[r])
  <2>1. CASE att' = att
    BY <2>1 DEF Tally
  <2>2. CASE att' # att
    <3>1. s \in Subtask /\ Tally(att[s], b) /\ att' = [att EXCEPT ![s] = b]
      BY <1>3, <1>4, <1>5, <1>6, <2>2
    <3> QED
      BY <3>1, TallyMove
  <2> QED
    BY <2>1, <2>2
<1> QED
  BY <1>1, <1>2, <1>7 DEF Quiet, JournalOk

LEMMA TakeOverQuiet ==
  ASSUME FrameType, RecordType, JournalOk, TakeOver PROVE Quiet
<1>1. Clear
  BY DEF TakeOver, Clear
<1>2. CASE att' = att /\ pc' = "drive" /\ UNCHANGED <<head, recorded, journal, branch, known>>
  BY <1>1, <1>2 DEF Quiet, Tally, JournalOk
<1>3. ASSUME NEW s \in Subtask, att' = [att EXCEPT ![s] = Resumed(@)], pc' = "drive",
             UNCHANGED <<head, recorded, journal, branch, known>>
      PROVE  Quiet
  <2> DEFINE a == att[s]
             b == [a EXCEPT !.pending = FALSE, !.retries = IF halted = "no" THEN @ ELSE 0]
             c == [b EXCEPT !.cursor = "decide", !.diff = "none"]
             d == Restarted(b, "none")
             e == Restarted(b, "spawn")
  <2>1. a \in Attempt
    BY DEF RecordType
  <2>2. b \in Attempt /\ Tally(a, b)
    BY <2>1, ResumedFields DEF Tally
  <2>3. Resumed(a) \in {c, d, e}
    BY DEF Resumed
  <2> HIDE DEF b
  <2>4. Tally(a, c)
    BY <2>2 DEF Tally, Attempt
  <2>5. d.n = b.n /\ d.applied = b.applied /\ d.merged = b.merged
    BY <2>2, RestartedFields
  <2>6. e.n = b.n /\ e.applied = b.applied /\ e.merged = b.merged
    BY <2>2, RestartedFields
  <2> HIDE DEF c, d, e
  <2>7. Tally(a, Resumed(a))
    BY <2>2, <2>3, <2>4, <2>5, <2>6 DEF Tally
  <2>8. att' = [att EXCEPT ![s] = Resumed(a)]
    BY <1>3
  <2>9. \A r \in Subtask : Tally(att[r], att'[r])
    BY <2>7, <2>8, TallyMove
  <2> QED
    BY <1>1, <1>3, <2>9 DEF Quiet, JournalOk
<1>4. \/ Raise \/ Incident("branch")
      \/ att' = att /\ pc' = "drive" /\ UNCHANGED <<head, recorded, journal, branch, known>>
      \/ \E s \in Subtask : /\ att' = [att EXCEPT ![s] = Resumed(@)] /\ pc' = "drive"
                            /\ UNCHANGED <<head, recorded, journal, branch, known>>
  BY DEF TakeOver, replayed, outside, rest
<1> QED
  BY <1>2, <1>3, <1>4, RaiseQuiet, IncidentQuiet

\* The steps that move the journal, the branch or what is counted of an attempt.
Moves == \/ CheckLine \/ JournalHolds \/ ForeignLine
         \/ \E s \in Subtask : \/ BeginAttempt(s) \/ StoreWrite(s) \/ RecordWrite(s)
                               \/ CheckBranch(s) \/ GitMerge(s) \/ RecordMerge(s)

LEMMA QuietStep ==
  ASSUME FrameType, RecordType, PlacesOk, JournalOk, [Next]_vars PROVE Quiet \/ Still \/ Moves
<1>1. CASE UNCHANGED vars
  BY <1>1 DEF Still, vars, replayed, outside, rest
<1>2. ASSUME att' = att, UNCHANGED <<head, recorded, journal, branch>>, Clear' => Clear,
             known' \in {Shut, known, Len(journal)}, pc' \notin {"written", "git", "merged"}
      PROVE  Quiet
  <2>1. known' <= Len(journal)
    BY <1>2 DEF Shut, FrameType, JournalOk
  <2> QED
    BY <1>2, <2>1 DEF Quiet, Tally
<1>3. ASSUME NEW cmd \in {"run", "resume"}, Command(cmd) PROVE Quiet
  BY <1>2, <1>3 DEF Command, Clear, replayed, outside
<1>4. CASE Environment
  <2>1. CASE \E item \in items, verb \in Verb, long \in BOOLEAN : PersonDecides(item, verb, long)
    BY <2>1 DEF PersonDecides, Still, replayed, rest
  <2>2. CASE Kill
    BY <1>2, <2>2 DEF Kill, Clear, replayed, outside
  <2>3. CASE \E s \in Subtask : RemoveSubtask(s)
    BY <1>2, <2>3 DEF RemoveSubtask, Clear, outside, rest
  <2> QED
    BY <1>4, <2>1, <2>2, <2>3 DEF Environment, Moves
<1>5. CASE Process
  <2>1. CASE Halt
    <3>1. why # "no"
      BY <2>1 DEF Halt, PlacesOk
    <3> QED
      BY <1>2, <2>1, <3>1 DEF Halt, Clear, outside, rest
  <2>2. CASE DiffStale \/ LeaveLoop \/ Finish
    BY <1>2, <2>2 DEF DiffStale, LeaveLoop, Finish, Clear, outside, rest, replayed
  <2>3. CASE ListIntegration \/ RecordIntegEsc
    BY <1>2, <2>3 DEF ListIntegration, RecordIntegEsc, Clear, outside, rest, replayed
  <2>4. ASSUME NEW verdict \in {"pass", "fail"}, Integrate(verdict) PROVE Quiet
    BY <1>2, <2>4 DEF Integrate, Clear, outside, rest
  <2>5. ASSUME NEW reopens \in BOOLEAN, Hold(reopens) PROVE Quiet
    BY <1>2, <2>5 DEF Hold, Clear, outside, replayed
  <2>6. ASSUME NEW item \in items, NEW i \in 1..Len(decisions), DecisionMismatch(item, i)
        PROVE  Quiet
    BY <2>6, IncidentQuiet DEF DecisionMismatch
  <2>7. ASSUME NEW s \in Subtask, Attempting(s) PROVE Quiet \/ Moves
    <3>1. CASE Merging(s)
      BY <3>1, MergingQuiet DEF Merging, Moves
    <3>2. ASSUME NEW end \in Ends, NEW shows \in BOOLEAN, SessionEnds(s, end, shows) PROVE Quiet
      BY <3>2, AttemptingQuiet
    <3>3. ASSUME NEW scan \in BOOLEAN, List(s, scan) PROVE Quiet
      BY <3>3, AttemptingQuiet
    <3>4. CASE \/ Continue(s) \/ Spawn(s) \/ InfraFailed(s) \/ Decide(s) \/ EndSubtask(s)
               \/ RecordEscalated(s)
      BY <3>4, AttemptingQuiet
    <3> QED
      BY <2>7, <3>1, <3>2, <3>3, <3>4, JudgingQuiet DEF Attempting, Moves
  <2> QED
    BY <1>5, <2>1, <2>2, <2>3, <2>4, <2>5, <2>6, <2>7, TakeOverQuiet, DecisionQuiet
    DEF Process, Moves
<1> QED
  BY <1>1, <1>3, <1>4, <1>5 DEF Next

\* The counts of an attempt are numbers.
LEMMA Counts ==
  ASSUME RecordType
  PROVE  \A r \in Subtask : /\ att[r].n \in Nat /\ att[r].applied \in Nat
                            /\ att[r].applied <= Proposals /\ Proposals \in Nat
BY LoopAssumption DEF RecordType, Attempt

Journals == JournalOk /\ AppliedOk

\* Nothing the journal is held to has moved.
LEMMA JournalKept ==
  ASSUME FrameType, RecordType, Journals, journal' = journal, head' = head, known' <= Len(journal),
         \A r \in Subtask : att'[r].n = att[r].n /\ att'[r].applied = att[r].applied,
         Clear' => Clear,
         pc' = "written" => pc = "written" /\ sub' = sub
  PROVE  Journals'
<1>1. \A r \in Subtask : \A k : Write(r, k)' = Write(r, k)
  BY DEF Write
<1>2. Unaccounted' = Unaccounted
  BY DEF Unaccounted
<1>3. \A i \in 1..head : AccountedFor(journal[i])'
  BY DEF Journals, JournalOk, AccountedFor
<1>4. \A i \in Unaccounted : /\ journal[i].s \in Subtask
                             /\ journal[i] = Write(journal[i].s, att[journal[i].s].applied + 1)'
  <2> SUFFICES ASSUME NEW i \in Unaccounted
               PROVE  /\ journal[i].s \in Subtask
                      /\ journal[i] = Write(journal[i].s, att[journal[i].s].applied + 1)'
    OBVIOUS
  <2>1. journal[i].s \in Subtask /\ journal[i] = Write(journal[i].s, att[journal[i].s].applied + 1)
    BY DEF Journals, JournalOk
  <2>2. att'[journal[i].s].applied = att[journal[i].s].applied
        /\ att'[journal[i].s].n = att[journal[i].s].n
    BY <2>1
  <2> QED
    BY <2>1, <2>2 DEF Write
<1>5. WriteOnce'
  BY DEF Journals, JournalOk, WriteOnce
<1>6. pc' = "written" =>
        /\ head' + 1 \in Unaccounted'
        /\ \A s \in Subtask : IsCurrent(s)' =>
             journal'[head' + 1] = Write(s, att[s].applied + 1)'
  BY <1>1, <1>2 DEF Journals, JournalOk, IsCurrent, Unresolved
<1>7. JournalOk'
  BY <1>2, <1>3, <1>4, <1>5, <1>6 DEF Journals, JournalOk
<1>8. AppliedOk'
  BY <1>1 DEF Journals, AppliedOk
<1> QED
  BY <1>7, <1>8 DEF Journals

\* The next line is the write an attempt was about to account for.
LEMMA JournalAccount ==
  ASSUME FrameType, RecordType, Journals, NEW s \in Subtask, head < Len(journal),
         journal[head + 1] = Write(s, att[s].applied + 1),
         journal' = journal, head' = head + 1, known' = known, pc' # "written",
         att' = [att EXCEPT ![s].applied = @ + 1, ![s].pending = FALSE]
  PROVE  Journals'
<1>1. /\ \A r \in Subtask : att'[r].n = att[r].n
      /\ \A r \in Subtask : r # s => att'[r].applied = att[r].applied
      /\ att'[s].applied = att[s].applied + 1
  BY DEF RecordType, Attempt
<1>2. \A r \in Subtask : \A k : Write(r, k)' = Write(r, k)
  BY <1>1 DEF Write
<1>3. head \in Nat /\ Len(journal) \in Nat /\ head + 1 <= Len(journal)
  BY DEF FrameType
<1>4. head + 1 \in Unaccounted
  <2>1. Own(journal[head + 1])
    BY LoopAssumption DEF Own, NotOurs, Write, Subtask
  <2> QED
    BY <1>3, <2>1 DEF Unaccounted
<1>5. Unaccounted' = {}
  <2>1. Unaccounted' \subseteq Unaccounted \ {head + 1}
    BY <1>3 DEF Unaccounted
  <2> QED
    BY <1>4, <2>1 DEF Journals, JournalOk
<1>6. ASSUME NEW i \in 1..head' PROVE AccountedFor(journal[i])'
  <2>0. ASSUME NEW r \in Subtask
        PROVE  /\ att'[r].n = att[r].n /\ att[r].applied \in Nat
               /\ att'[r].applied \in {att[r].applied, att[r].applied + 1}
    BY <1>1, Counts
  <2>1. CASE i \in 1..head
    <3>1. AccountedFor(journal[i])
      BY <2>1 DEF Journals, JournalOk
    <3>2. journal[i].k \in Nat
      <4>1. i \in 1..Len(journal)
        BY <1>3, <2>1
      <4>2. journal[i] \in JournalLine
        BY <4>1 DEF FrameType
      <4> QED
        BY <4>2 DEF JournalLine
    <3>3. journal[i].s \in Subtask
      BY <3>1 DEF AccountedFor
    <3>4. /\ att'[journal[i].s].n = att[journal[i].s].n /\ att[journal[i].s].applied \in Nat
          /\ att'[journal[i].s].applied \in {att[journal[i].s].applied, att[journal[i].s].applied + 1}
      BY <2>0, <3>3
    <3> QED
      BY <3>1, <3>2, <3>4 DEF AccountedFor
  <2>2. CASE i = head + 1
    <3>1. /\ journal[i].s = s /\ journal[i].n = att[s].n
          /\ journal[i].k = att[s].applied + 1
      BY <2>2 DEF Write
    <3>2. /\ att'[s].n = att[s].n /\ att'[s].applied = att[s].applied + 1
          /\ att[s].applied \in Nat
      BY <1>1, Counts
    <3> QED
      BY <3>1, <3>2 DEF AccountedFor
  <2> QED
    BY <1>3, <2>1, <2>2
<1>7. WriteOnce'
  BY DEF Journals, JournalOk, WriteOnce
<1>8. JournalOk'
  BY <1>3, <1>5, <1>6, <1>7 DEF Journals, JournalOk
<1>9. AppliedOk'
  <2> SUFFICES ASSUME NEW r \in Subtask, NEW k \in 1..Proposals, k <= att'[r].applied
               PROVE  \E i \in 1..Len(journal) : journal[i] = Write(r, k)
    BY <1>2 DEF AppliedOk
  <2>1. CASE k <= att[r].applied
    BY <2>1 DEF Journals, AppliedOk
  <2>2. CASE ~(k <= att[r].applied)
    <3>1. /\ att[r].applied \in Nat
          /\ r # s => att'[r].applied = att[r].applied
          /\ att'[s].applied = att[s].applied + 1
      <4>1. att[r].applied \in Nat
        BY Counts
      <4> QED
        BY <1>1, <4>1
    <3>2. r = s
      BY <2>2, <3>1
    <3>3. k = att[s].applied + 1
      <4>1. att[s].applied \in Nat /\ k <= att[s].applied + 1 /\ ~(k <= att[s].applied)
        BY <2>2, <3>1, <3>2
      <4> QED
        BY <4>1
    <3> QED
      BY <1>3, <3>2, <3>3
  <2> QED
    BY <2>1, <2>2
<1> QED
  BY <1>8, <1>9 DEF Journals

\* A line is appended that the run wrote for the proposal it is at, with nothing pending.
LEMMA JournalWrite ==
  ASSUME FrameType, RecordType, Records, Journals, NEW s \in Subtask, StoreWrite(s) PROVE Journals'
<1>1. CASE Incident("journal")
  <2>1. Quiet
    BY <1>1, IncidentQuiet DEF Journals
  <2> QED
    BY <2>1, JournalKept DEF Quiet, Tally
<1>2. CASE ~Stale
  <2> DEFINE w == Write(s, att[s].applied + 1)
             next == Append(journal, w)
  <2>1. /\ pc = "write" /\ IsCurrent(s) /\ Len(journal) = known
        /\ journal' = next /\ known' = known + 1
        /\ pc' = (IF known = head THEN "written" ELSE "halting")
        /\ UNCHANGED replayed
    BY <1>2 DEF StoreWrite, Stale
  <2>2. sub' = sub /\ att' = att /\ head' = head
    BY <2>1 DEF replayed
  <2>3. Unaccounted = {}
    BY <2>1 DEF Journals, JournalOk, Clear
  <2>4. w \in JournalLine /\ w.s = s /\ w.n = att[s].n /\ w.k = att[s].applied + 1 /\ Own(w)
    <3>1. w \in JournalLine
      <4>1. att[s].applied + 1 \in Nat
        BY Counts
      <4> QED
        BY <4>1, NewEntries
    <3>2. Own(w)
      BY LoopAssumption DEF Own, NotOurs, Write, Subtask
    <3> QED
      BY <3>1, <3>2 DEF Write
  <2> HIDE DEF w
  <2>5. /\ Len(next) = Len(journal) + 1 /\ next[Len(journal) + 1] = w
        /\ \A i \in 1..Len(journal) : next[i] = journal[i]
        /\ Len(journal) \in Nat /\ head \in Nat /\ head <= Len(journal)
    BY <2>4 DEF FrameType, Journals, JournalOk
  <2> HIDE DEF next
  <2>6. \A i \in 1..Len(journal) : journal[i] # w
    <3> SUFFICES ASSUME NEW i \in 1..Len(journal), journal[i] = w PROVE FALSE
      OBVIOUS
    <3>1. CASE i <= head
      <4>1. AccountedFor(w)
        BY <2>5, <3>1 DEF Journals, JournalOk
      <4> QED
        BY <2>4, <4>1, Counts DEF AccountedFor
    <3>2. CASE ~(i <= head)
      <4>1. i \in Unaccounted
        BY <2>4, <2>5, <3>2 DEF Unaccounted
      <4> QED
        BY <2>3, <4>1
    <3> QED
      BY <3>1, <3>2
  <2>7. Unaccounted' = {Len(journal) + 1}
    <3>1. Unaccounted' = {i \in head + 1 .. Len(journal) + 1 : Own(next[i])}
      BY <2>1, <2>2, <2>5 DEF Unaccounted
    <3>2. \A i \in head + 1 .. Len(journal) : ~Own(next[i])
      BY <2>3, <2>5 DEF Unaccounted
    <3> QED
      BY <2>4, <2>5, <3>1, <3>2
  <2>8. \A r \in Subtask : \A k : Write(r, k)' = Write(r, k)
    BY <2>2 DEF Write
  <2>9. WriteOnce'
    BY <2>1, <2>5, <2>6 DEF WriteOnce, Journals, JournalOk
  <2>10. \A i \in 1..head' : AccountedFor(journal[i])'
    BY <2>1, <2>2, <2>5 DEF Journals, JournalOk, AccountedFor
  <2>11. ~Clear'
    BY <2>1 DEF Clear
  <2>12. pc' = "written" => /\ head' + 1 \in Unaccounted'
                            /\ \A r \in Subtask : IsCurrent(r)' => r = s
    <3>1. \A r \in Subtask : IsCurrent(r)' = IsCurrent(r)
      BY <2>2 DEF IsCurrent, Unresolved
    <3> QED
      BY <2>1, <2>2, <2>5, <2>7, <3>1, OneCurrent
  <2>13. journal'[Len(journal) + 1] = Write(s, att[s].applied + 1)'
    BY <2>1, <2>2, <2>5, <2>8 DEF w
  <2>14. \A i \in Unaccounted' : /\ journal'[i].s \in Subtask
                                 /\ journal'[i] = Write(journal[i].s, att[journal[i].s].applied + 1)'
    <3>1. journal'[Len(journal) + 1].s = s
      BY <2>1, <2>4, <2>5
    <3> QED
      BY <2>7, <2>13, <3>1
  <2>15. pc' = "written" => head' + 1 = Len(journal) + 1
    BY <2>1, <2>2
  <2>16. JournalOk'
    <3>1. head' <= Len(journal') /\ known' <= Len(journal')
      BY <2>1, <2>2, <2>5
    <3>2. \A i, j \in Unaccounted' : i = j
      BY <2>7
    <3>3. pc' = "written" =>
            /\ head' + 1 \in Unaccounted'
            /\ \A r \in Subtask : IsCurrent(r)' =>
                 journal'[head' + 1] = Write(r, att[r].applied + 1)'
      BY <2>12, <2>13, <2>15
    <3> QED
      BY <2>9, <2>10, <2>11, <2>14, <3>1, <3>2, <3>3 DEF JournalOk
  <2>17. AppliedOk'
    <3> SUFFICES ASSUME NEW r \in Subtask, NEW k \in 1..Proposals, k <= att[r].applied
                 PROVE  \E i \in 1..Len(next) : next[i] = Write(r, k)
      BY <2>1, <2>2, <2>8 DEF AppliedOk
    <3>1. PICK i \in 1..Len(journal) : journal[i] = Write(r, k)
      BY DEF Journals, AppliedOk
    <3> QED
      BY <2>5, <3>1
  <2> QED
    BY <2>16, <2>17 DEF Journals
<1> QED
  BY <1>1, <1>2 DEF StoreWrite

\* A new attempt counts from nothing, the same one goes on from where it was.
LEMMA BeginCounts ==
  ASSUME Records, NEW s \in Subtask, BeginAttempt(s), ~Raise
  PROVE  /\ \A r \in Subtask : r # s => att'[r] = att[r]
         /\ ~att[s].merged /\ ~att'[s].merged
         /\ \/ att'[s].n = att[s].n /\ att'[s].applied = att[s].applied
            \/ att'[s].n = att[s].n + 1 /\ att'[s].applied = 0
         /\ UNCHANGED <<halted, head, recorded, journal, branch, known, items, cleaned, taken>>
         /\ pc = "drive" /\ halted = "no" /\ IsCurrent(s) /\ pc' = "session"
<1> DEFINE n == Number(s)
           new == att[s].n # n
           fresh == [Fresh(n, sub[s].fixNext) EXCEPT !.cursor = "resolve"]
           again == Restarted(att[s], "resolve")
<1>0. RecordType /\ att[s] \in Attempt
  BY DEF Records, RecordType
<1>1. /\ IsCurrent(s) /\ Step(s) = "resolve" /\ Unresolved(s) /\ sub[s].next = n
      /\ att' = [att EXCEPT ![s] = IF new THEN fresh ELSE Restarted(@, "resolve")]
      /\ pc = "drive" /\ halted = "no" /\ pc' = "session"
      /\ UNCHANGED <<halted, head, recorded, journal, branch, known, items, cleaned, taken>>
  BY DEF BeginAttempt, Drives, outside, rest
<1>2. ~att[s].merged /\ n \in {att[s].n, att[s].n + 1}
  BY <1>1, StepResolve
<1>3. fresh.n = n /\ fresh.applied = 0 /\ fresh.merged = FALSE
  BY DEF Fresh
<1>4. again.n = att[s].n /\ again.applied = att[s].applied /\ again.merged = att[s].merged
  BY <1>0, RestartedFields
<1> HIDE DEF n, fresh, again
<1>5. att'[s] = IF new THEN fresh ELSE again
  BY <1>0, <1>1 DEF RecordType, again
<1>6. \A r \in Subtask : r # s => att'[r] = att[r]
  BY <1>0, <1>1 DEF RecordType
<1> QED
  BY <1>1, <1>2, <1>3, <1>4, <1>5, <1>6

LEMMA JournalBegin ==
  ASSUME FrameType, RecordType, Records, Journals, NEW s \in Subtask, BeginAttempt(s)
  PROVE  Journals'
<1>1. CASE Raise
  <2>1. Quiet
    BY <1>1, RaiseQuiet DEF Journals
  <2> QED
    BY <2>1, JournalKept DEF Quiet, Tally
<1>2. CASE ~Raise
  <2>1. /\ \A r \in Subtask : r # s => att'[r] = att[r]
        /\ \/ att'[s].n = att[s].n /\ att'[s].applied = att[s].applied
           \/ att'[s].n = att[s].n + 1 /\ att'[s].applied = 0
        /\ journal' = journal /\ head' = head /\ known' = known
        /\ pc = "drive" /\ halted = "no" /\ pc' = "session"
    BY <1>2, BeginCounts
  <2>2. Unaccounted = {} /\ Unaccounted' = {}
    BY <2>1 DEF Journals, JournalOk, Clear, Unaccounted
  <2>3. ASSUME NEW i \in 1..head PROVE AccountedFor(journal[i])'
    <3>1. AccountedFor(journal[i])
      BY DEF Journals, JournalOk
    <3>2. journal[i].s \in Subtask
      BY <3>1 DEF AccountedFor
    <3>3. journal[i].n \in Nat
      <4>1. i \in 1..Len(journal)
        BY DEF FrameType, Journals, JournalOk
      <4>2. journal[i] \in JournalLine
        BY <4>1 DEF FrameType
      <4> QED
        BY <4>2 DEF JournalLine
    <3>4. CASE journal[i].s # s
      BY <2>1, <3>1, <3>2, <3>4 DEF AccountedFor
    <3>5. CASE journal[i].s = s
      <4>1. att[s].n \in Nat
        BY Counts
      <4>2. journal[i].n < att[s].n \/ (journal[i].n = att[s].n /\ journal[i].k <= att[s].applied)
        BY <3>1, <3>5 DEF AccountedFor
      <4>3. journal[i].n < att'[s].n \/ (journal[i].n = att'[s].n /\ journal[i].k <= att'[s].applied)
        BY <2>1, <3>3, <4>1, <4>2
      <4> QED
        BY <2>1, <3>2, <3>5, <4>3 DEF AccountedFor
    <3> QED
      BY <3>4, <3>5
  <2>4. JournalOk'
    BY <2>1, <2>2, <2>3 DEF Journals, JournalOk, WriteOnce
  <2>5. AppliedOk'
    <3> SUFFICES ASSUME NEW r \in Subtask, NEW k \in 1..Proposals, k <= att'[r].applied
                 PROVE  \E i \in 1..Len(journal) : journal[i] = Write(r, k)'
      BY <2>1 DEF AppliedOk
    <3>1. att'[r].n = att[r].n /\ att'[r].applied = att[r].applied
      BY <2>1
    <3>2. PICK i \in 1..Len(journal) : journal[i] = Write(r, k)
      BY <3>1 DEF Journals, AppliedOk
    <3> QED
      BY <3>1, <3>2 DEF Write
  <2> QED
    BY <2>4, <2>5 DEF Journals
<1> QED
  BY <1>1, <1>2

LEMMA JournalForeign ==
  ASSUME FrameType, RecordType, Journals, ForeignLine PROVE Journals'
<1> DEFINE next == Append(journal, NotOurs)
<1>1. /\ journal' = next /\ sub' = sub /\ att' = att /\ head' = head /\ known' = known
      /\ halted' = halted /\ pc' = pc
  BY DEF ForeignLine, replayed, rest
<1>2. NotOurs \in JournalLine /\ ~Own(NotOurs)
  BY LoopAssumption DEF NotOurs, JournalLine, Own
<1>3. /\ Len(next) = Len(journal) + 1 /\ next[Len(journal) + 1] = NotOurs
      /\ \A i \in 1..Len(journal) : next[i] = journal[i]
      /\ Len(journal) \in Nat /\ head \in Nat /\ head <= Len(journal) /\ known <= Len(journal)
  BY <1>2 DEF FrameType, Journals, JournalOk
<1>4. known' <= Len(next)
  BY <1>1, <1>3 DEF FrameType, Shut
<1> HIDE DEF next
<1>5. Unaccounted' = Unaccounted
  BY <1>1, <1>2, <1>3 DEF Unaccounted
<1>6. \A r \in Subtask : /\ \A k : Write(r, k)' = Write(r, k)
                         /\ IsCurrent(r)' = IsCurrent(r)
  BY <1>1 DEF Write, IsCurrent, Unresolved
<1>7. ASSUME NEW i \in 1..head' PROVE AccountedFor(journal[i])'
  BY <1>1, <1>3 DEF Journals, JournalOk, AccountedFor
<1>8. WriteOnce'
  BY <1>1, <1>2, <1>3 DEF Journals, JournalOk, WriteOnce
<1>9. ASSUME NEW i \in Unaccounted
      PROVE  i \in 1..Len(journal) /\ next[i] = journal[i]
  BY <1>3 DEF Unaccounted
<1>10. ASSUME NEW i \in Unaccounted
       PROVE  /\ next[i].s \in Subtask
              /\ next[i] = Write(next[i].s, att[next[i].s].applied + 1)
  BY <1>9 DEF Journals, JournalOk
<1>11. pc' = "written" =>
         /\ head' + 1 \in Unaccounted'
         /\ \A r \in Subtask : IsCurrent(r)' =>
              journal'[head' + 1] = Write(r, att[r].applied + 1)'
  <2> SUFFICES ASSUME pc' = "written"
               PROVE  /\ head' + 1 \in Unaccounted'
                      /\ \A r \in Subtask : IsCurrent(r)' =>
                           journal'[head' + 1] = Write(r, att[r].applied + 1)'
    OBVIOUS
  <2>1. head + 1 \in Unaccounted
    BY <1>1 DEF Journals, JournalOk
  <2>2. next[head + 1] = journal[head + 1]
    BY <1>9, <2>1
  <2> QED
    BY <1>1, <1>5, <1>6, <2>1, <2>2 DEF Journals, JournalOk
<1>12. Clear' = Clear
  BY <1>1 DEF Clear
<1>13. ASSUME NEW i \in Unaccounted'
       PROVE  /\ journal'[i].s \in Subtask
              /\ journal'[i] = Write(journal[i].s, att[journal[i].s].applied + 1)'
  <2>1. next[i].s \in Subtask /\ next[i] = Write(next[i].s, att[next[i].s].applied + 1)
    BY <1>5, <1>10, <1>13
  <2> QED
    BY <1>1, <2>1 DEF Write
<1>14. JournalOk'
  BY <1>1, <1>3, <1>4, <1>5, <1>7, <1>8, <1>11, <1>12, <1>13 DEF Journals, JournalOk
<1>15. AppliedOk'
  <2> SUFFICES ASSUME NEW r \in Subtask, NEW k \in 1..Proposals, k <= att[r].applied
               PROVE  \E i \in 1..Len(next) : next[i] = Write(r, k)
    BY <1>1, <1>6 DEF AppliedOk
  <2>1. PICK i \in 1..Len(journal) : journal[i] = Write(r, k)
    BY DEF Journals, AppliedOk
  <2> QED
    BY <1>3, <2>1
<1> QED
  BY <1>14, <1>15 DEF Journals

LEMMA JournalsStep ==
  ASSUME FrameType, RecordType, Records, PlacesOk, Journals, [Next]_vars PROVE Journals'
<1>0. JournalOk
  BY DEF Journals
<1>1. CASE Quiet
  BY <1>1, JournalKept DEF Quiet, Tally
<1>2. CASE Still
  BY <1>2, JournalKept DEF Still, Clear, Journals, JournalOk
<1>3. ASSUME att' = att \/ \E s \in Subtask : att' = [att EXCEPT ![s].merged = TRUE],
             journal' = journal, head' = head, known' = known, Clear, pc' # "written"
      PROVE  Journals'
  <2>1. \A r \in Subtask : att'[r].n = att[r].n /\ att'[r].applied = att[r].applied
    BY <1>3 DEF RecordType, Attempt
  <2> QED
    BY <1>0, <1>3, <2>1, JournalKept DEF JournalOk
<1>4. CASE JournalHolds
  <2>1. /\ Len(journal) = head /\ att' = att /\ journal' = journal /\ head' = head /\ known' = known
        /\ pc' # "written"
    BY <1>4 DEF JournalHolds, Checking, replayed, outside, rest
  <2>2. Unaccounted' = {}
    BY <2>1 DEF Unaccounted, FrameType
  <2>3. JournalOk'
    BY <2>1, <2>2 DEF Journals, JournalOk, AccountedFor, WriteOnce
  <2>4. AppliedOk'
    BY <2>1 DEF Journals, AppliedOk, Write
  <2> QED
    BY <2>3, <2>4 DEF Journals
<1>5. CASE CheckLine
  <2>1. CASE Raise \/ Incident("journal")
    BY <1>0, <1>1, <2>1, RaiseQuiet, IncidentQuiet
  <2>2. ASSUME NEW s \in Subtask, Intended(s, journal[head + 1]), Checking, Len(journal) > head,
               att' = [att EXCEPT ![s].applied = @ + 1, ![s].pending = FALSE],
               head' = head + 1, journal' = journal, known' = known, pc' = pc
        PROVE  Journals'
    <3>1. journal[head + 1] = Write(s, att[s].applied + 1) /\ pc' # "written"
      BY <2>2 DEF Intended, Checking
    <3>2. head < Len(journal)
      BY <2>2 DEF FrameType
    <3> QED
      BY <2>2, <3>1, <3>2, JournalAccount
  <2> QED
    BY <1>5, <2>1, <2>2 DEF CheckLine, outside, rest
<1>6. ASSUME NEW s \in Subtask, RecordWrite(s) PROVE Journals'
  <2>1. CASE Raise
    BY <1>0, <1>1, <2>1, RaiseQuiet
  <2>2. CASE ~Raise
    <3>1. /\ att' = [att EXCEPT ![s].applied = @ + 1, ![s].pending = FALSE]
          /\ head' = head + 1 /\ journal' = journal /\ known' = known /\ pc' = "apply"
          /\ pc = "written" /\ IsCurrent(s)
      BY <1>6, <2>2 DEF RecordWrite, Emit, outside, rest
    <3>2. head + 1 \in Unaccounted /\ journal[head + 1] = Write(s, att[s].applied + 1)
      BY <3>1 DEF Journals, JournalOk
    <3>3. head < Len(journal)
      BY <3>2 DEF Unaccounted, FrameType
    <3> QED
      BY <3>1, <3>2, <3>3, JournalAccount
  <2> QED
    BY <2>1, <2>2
<1>7. ASSUME NEW s \in Subtask, CheckBranch(s) \/ GitMerge(s) \/ RecordMerge(s) PROVE Journals'
  <2>1. CASE Raise \/ \E cause \in Cause : Incident(cause)
    BY <1>0, <1>1, <2>1, RaiseQuiet, IncidentQuiet
  <2>2. CASE ~Raise /\ \A cause \in Cause : ~Incident(cause)
    <3>1. ~Incident("branch") /\ ~Incident("merge")
      BY <2>2 DEF Cause
    <3>2. /\ att' = att \/ att' = [att EXCEPT ![s].merged = TRUE]
          /\ journal' = journal /\ head' = head /\ known' = known /\ Clear /\ pc' # "written"
      BY <1>7, <2>2, <3>1
      DEF CheckBranch, GitMerge, RecordMerge, Emit, Clear, replayed, outside, rest
    <3> QED
      BY <1>3, <3>2
  <2> QED
    BY <2>1, <2>2
<1> QED
  BY <1>0, <1>1, <1>2, <1>4, <1>5, <1>6, <1>7, QuietStep, JournalBegin, JournalWrite, JournalForeign
  DEF Moves

-----------------------------------------------------------------------------
(* The run branch.                                                         *)

LEMMA BranchEntries ==
  ASSUME FrameType, NEW i \in 1..Len(branch) PROVE branch[i] \in Subtask \X Nat /\ branch[i][1] \in Subtask
<1>1. branch[i] \in Subtask \X Nat
  BY DEF FrameType
<1> QED
  BY <1>1

LEMMA BranchKept ==
  ASSUME FrameType, RecordType, BranchOk, branch' = branch, recorded' = recorded,
         \A r \in Subtask : att'[r].n = att[r].n /\ att'[r].merged = att[r].merged,
         pc' \in {"git", "merged"} => pc' = pc /\ sub' = sub
  PROVE  BranchOk'
<1>1. \A r \in Subtask : Commit(r)' = Commit(r)
  BY DEF Commit
<1>2. \A i \in 1..recorded : i \in 1..Len(branch) /\ branch[i][1] \in Subtask
  BY BranchEntries DEF BranchOk, FrameType
<1>3. Len(branch) = recorded + 1 => branch[recorded + 1][1] \in Subtask
  BY BranchEntries DEF FrameType
<1>4. ASSUME NEW i \in 1..recorded
      PROVE  branch[i] = Commit(branch[i][1])' /\ att'[branch[i][1]].merged
  BY <1>1, <1>2 DEF BranchOk, Commit
<1>5. Len(branch') = recorded' + 1 => ~att'[branch'[recorded' + 1][1]].merged
  BY <1>3 DEF BranchOk
<1>6. ASSUME NEW s \in Subtask, att'[s].merged
      PROVE  \E i \in 1..recorded' : branch'[i] = Commit(s)'
  BY <1>1, <1>6 DEF BranchOk
<1>7. ASSUME pc' \in {"git", "merged"}
      PROVE  /\ pc' = "git" => \A s \in Subtask : IsCurrent(s)' => BranchHolds({Commit(s)})'
             /\ pc' = "merged" => \A s \in Subtask : IsCurrent(s)' =>
                  Len(branch') = recorded' + 1 /\ branch'[recorded' + 1] = Commit(s)'
  BY <1>1, <1>7 DEF BranchOk, BranchHolds, IsCurrent, Unresolved
<1> QED
  BY <1>4, <1>5, <1>6, <1>7 DEF BranchOk

LEMMA BranchBegin ==
  ASSUME FrameType, Records, BranchOk, NEW s \in Subtask, BeginAttempt(s), ~Raise PROVE BranchOk'
<1>1. /\ \A r \in Subtask : r # s => att'[r] = att[r]
      /\ ~att[s].merged /\ ~att'[s].merged /\ recorded' = recorded /\ branch' = branch
      /\ pc' = "session"
  BY BeginCounts
<1>2. \A i \in 1..recorded : i \in 1..Len(branch) /\ branch[i][1] \in Subtask /\ branch[i][1] # s
  <2> SUFFICES ASSUME NEW i \in 1..recorded
               PROVE  i \in 1..Len(branch) /\ branch[i][1] \in Subtask /\ branch[i][1] # s
    OBVIOUS
  <2>1. i \in 1..Len(branch)
    BY DEF BranchOk, FrameType
  <2>2. att[branch[i][1]].merged
    BY DEF BranchOk
  <2>3. branch[i][1] \in Subtask
    BY <2>1, BranchEntries
  <2> QED
    BY <1>1, <2>1, <2>2, <2>3
<1>3. Len(branch) = recorded + 1 => branch[recorded + 1][1] \in Subtask
  BY BranchEntries DEF FrameType
<1>4. ASSUME NEW i \in 1..recorded
      PROVE  branch[i] = Commit(branch[i][1])' /\ att'[branch[i][1]].merged
  BY <1>1, <1>2 DEF BranchOk, Commit
<1>5. Len(branch') = recorded' + 1 => ~att'[branch'[recorded' + 1][1]].merged
  BY <1>1, <1>3 DEF BranchOk
<1>6. ASSUME NEW r \in Subtask, att'[r].merged
      PROVE  \E i \in 1..recorded' : branch'[i] = Commit(r)'
  <2>1. r # s /\ att'[r] = att[r]
    BY <1>1, <1>6
  <2> QED
    BY <1>1, <1>6, <2>1 DEF BranchOk, Commit
<1> QED
  BY <1>1, <1>4, <1>5, <1>6 DEF BranchOk

\* A merge appends the commit of the subtask that is driven, at most once.
LEMMA BranchMerge ==
  ASSUME FrameType, RecordType, PlacesOk, BranchOk, NEW s \in Subtask, GitMerge(s),
         ~Incident("merge")
  PROVE  BranchOk'
<1> DEFINE next == Append(branch, Commit(s))
<1>1. /\ branch' = IF OnBranch(Commit(s)) THEN branch ELSE next
      /\ pc = "git" /\ IsCurrent(s) /\ pc' = "merged" /\ sub' = sub /\ att' = att
      /\ recorded' = recorded
  BY DEF GitMerge, replayed
<1>2. ~att[s].merged /\ BranchHolds({Commit(s)})
  BY <1>1, AtPlace DEF PlaceOk, Merged, BranchOk
<1>3. \A i \in 1..recorded : i \in 1..Len(branch) /\ branch[i] # Commit(s)
  BY <1>2 DEF BranchOk, FrameType, Commit
<1>4. Commit(s) \in Subtask \X Nat /\ Commit(s)[1] = s
  BY Counts DEF Commit
<1>5. /\ Len(next) = Len(branch) + 1 /\ next[Len(branch) + 1] = Commit(s)
      /\ \A i \in 1..Len(branch) : next[i] = branch[i]
      /\ Len(branch) \in Nat /\ recorded \in Nat
  BY <1>4 DEF FrameType
<1>6. /\ Len(branch') = recorded + 1 /\ branch'[recorded + 1] = Commit(s)
      /\ \A i \in 1..recorded : branch'[i] = branch[i]
  <2>1. CASE Len(branch) = recorded
    <3>1. ~OnBranch(Commit(s))
      BY <1>3, <2>1 DEF OnBranch
    <3> QED
      BY <1>1, <1>5, <2>1, <3>1
  <2>2. CASE Len(branch) # recorded
    <3>1. Len(branch) = recorded + 1 /\ branch[recorded + 1] = Commit(s)
      BY <1>2, <2>2 DEF BranchHolds
    <3>2. recorded + 1 \in 1..Len(branch)
      BY <1>5, <3>1
    <3>3. OnBranch(Commit(s))
      BY <3>1, <3>2 DEF OnBranch
    <3> QED
      BY <1>1, <3>1, <3>3
  <2> QED
    BY <2>1, <2>2
<1> HIDE DEF next
<1>7. \A r \in Subtask : /\ Commit(r)' = Commit(r) /\ IsCurrent(r)' = IsCurrent(r)
                         /\ IsCurrent(r) => r = s
  BY <1>1, OneCurrent DEF Commit, IsCurrent, Unresolved
<1>8. ASSUME NEW i \in 1..recorded PROVE branch[i][1] \in Subtask
  BY <1>3, BranchEntries
<1>9. ASSUME NEW i \in 1..recorded
      PROVE  branch'[i] = Commit(branch[i][1])' /\ att'[branch'[i][1]].merged
  <2>1. branch'[i] = branch[i] /\ branch[i] = Commit(branch[i][1]) /\ att[branch[i][1]].merged
    BY <1>6 DEF BranchOk
  <2> QED
    BY <1>1, <2>1 DEF Commit
<1>10. ~att'[branch'[recorded + 1][1]].merged
  BY <1>1, <1>2, <1>4, <1>6
<1> QED
  BY <1>1, <1>6, <1>7, <1>9, <1>10 DEF BranchOk

\* The merge that is recorded is the last commit of the branch.
LEMMA BranchRecord ==
  ASSUME FrameType, RecordType, PlacesOk, BranchOk, NEW s \in Subtask, RecordMerge(s), ~Raise
  PROVE  BranchOk' /\ recorded' = recorded + 1
<1>1. /\ pc = "merged" /\ IsCurrent(s) /\ pc' = "diff" /\ branch' = branch
      /\ att' = [att EXCEPT ![s].merged = TRUE]
      /\ recorded' = CHOOSE i \in 1..Len(branch) : branch[i] = Commit(s)
  BY DEF RecordMerge, Emit, outside
<1>2. ~att[s].merged /\ Len(branch) = recorded + 1 /\ branch[recorded + 1] = Commit(s)
  BY <1>1, AtPlace DEF PlaceOk, Merged, BranchOk
<1>3. recorded \in Nat /\ recorded + 1 \in 1..Len(branch)
  BY <1>2 DEF FrameType
<1>4. \A i \in 1..recorded : i \in 1..Len(branch) /\ branch[i] # Commit(s) /\ branch[i][1] # s
  BY <1>2, <1>3 DEF BranchOk, Commit
<1>5. \A i \in 1..Len(branch) : branch[i] = Commit(s) => i = recorded + 1
  BY <1>2, <1>3, <1>4
<1>6. recorded' = recorded + 1
  BY <1>1, <1>2, <1>3, <1>5
<1>7. /\ \A r \in Subtask : att'[r].n = att[r].n
      /\ \A r \in Subtask : r # s => att'[r].merged = att[r].merged
      /\ att'[s].merged
  BY <1>1 DEF RecordType, Attempt
<1>8. \A r \in Subtask : Commit(r)' = Commit(r)
  BY <1>7 DEF Commit
<1>9. \A i \in 1..recorded : branch[i][1] \in Subtask
  BY <1>4, BranchEntries
<1>10. Commit(s)[1] = s
  BY DEF Commit
<1>11. ASSUME NEW i \in 1..recorded + 1
       PROVE  branch[i] = Commit(branch[i][1])' /\ att'[branch[i][1]].merged
  <2>1. CASE i \in 1..recorded
    <3>1. /\ branch[i] = Commit(branch[i][1]) /\ att[branch[i][1]].merged
          /\ branch[i][1] \in Subtask /\ branch[i][1] # s
      BY <1>4, <1>9, <2>1 DEF BranchOk
    <3> QED
      BY <1>1, <1>7, <3>1 DEF Commit
  <2>2. CASE i = recorded + 1
    <3>1. branch[i] = Commit(s) /\ branch[i][1] = s
      BY <1>2, <1>10, <2>2
    <3> QED
      BY <1>1, <1>7, <3>1 DEF Commit
  <2> QED
    BY <1>3, <2>1, <2>2
<1>12. \A i, j \in 1..recorded + 1 : branch[i][1] = branch[j][1] => i = j
  <2> SUFFICES ASSUME NEW i \in 1..recorded + 1, NEW j \in 1..recorded + 1,
                      branch[i][1] = branch[j][1]
               PROVE  i = j
    OBVIOUS
  <2>1. CASE i = recorded + 1 /\ j = recorded + 1
    BY <2>1
  <2>2. CASE i = recorded + 1 /\ j # recorded + 1
    BY <1>2, <1>3, <1>4, <1>10, <2>2
  <2>3. CASE i # recorded + 1 /\ j = recorded + 1
    BY <1>2, <1>3, <1>4, <1>10, <2>3
  <2>4. CASE i # recorded + 1 /\ j # recorded + 1
    BY <1>3, <2>4 DEF BranchOk
  <2> QED
    BY <2>1, <2>2, <2>3, <2>4
<1>13. ASSUME NEW r \in Subtask, att'[r].merged
       PROVE  \E i \in 1..recorded' : branch[i] = Commit(r)'
  <2>1. CASE r = s
    BY <1>2, <1>3, <1>6, <1>8, <2>1
  <2>2. CASE r # s
    <3>1. PICK i \in 1..recorded : branch[i] = Commit(r)
      BY <1>7, <1>13, <2>2 DEF BranchOk
    <3> QED
      BY <1>3, <1>6, <1>8, <3>1
  <2> QED
    BY <2>1, <2>2
<1> QED
  BY <1>1, <1>2, <1>3, <1>6, <1>11, <1>12, <1>13 DEF BranchOk

LEMMA BranchStep ==
  ASSUME FrameType, RecordType, Records, PlacesOk, JournalOk, BranchOk, [Next]_vars PROVE BranchOk'
<1>1. CASE Quiet
  BY <1>1, BranchKept DEF Quiet, Tally
<1>2. CASE Still
  BY <1>2, BranchKept DEF Still
<1>3. CASE CheckLine
  <2>1. CASE Raise \/ Incident("journal")
    BY <1>1, <2>1, RaiseQuiet, IncidentQuiet
  <2>2. CASE ~Raise /\ ~Incident("journal")
    <3>1. PICK s \in Subtask :
            /\ att' = [att EXCEPT ![s].applied = @ + 1, ![s].pending = FALSE]
            /\ branch' = branch /\ recorded' = recorded /\ pc' = pc /\ sub' = sub
      BY <1>3, <2>2 DEF CheckLine, outside
    <3>2. \A r \in Subtask : att'[r].n = att[r].n /\ att'[r].merged = att[r].merged
      BY <3>1 DEF RecordType, Attempt
    <3> QED
      BY <3>1, <3>2, BranchKept
  <2> QED
    BY <2>1, <2>2
<1>4. CASE JournalHolds \/ ForeignLine
  <2>1. /\ att' = att /\ sub' = sub /\ branch' = branch /\ recorded' = recorded
        /\ pc' \in {pc, "holdRun", "holdResume", "holdSession"}
    BY <1>4 DEF JournalHolds, Checking, ForeignLine, replayed, outside
  <2> QED
    BY <2>1, BranchKept
<1>5. ASSUME NEW s \in Subtask, BeginAttempt(s) PROVE BranchOk'
  BY <1>1, <1>5, BranchBegin, RaiseQuiet
<1>6. ASSUME NEW s \in Subtask, StoreWrite(s) PROVE BranchOk'
  <2>1. /\ att' = att /\ sub' = sub /\ branch' = branch /\ recorded' = recorded
        /\ pc' \in {"halting", "written"}
    BY <1>6 DEF StoreWrite, Incident, replayed, outside
  <2> QED
    BY <2>1, BranchKept
<1>7. ASSUME NEW s \in Subtask, RecordWrite(s) PROVE BranchOk'
  <2>1. CASE Raise
    BY <1>1, <2>1, RaiseQuiet
  <2>2. CASE ~Raise
    <3>1. /\ att' = [att EXCEPT ![s].applied = @ + 1, ![s].pending = FALSE]
          /\ branch' = branch /\ recorded' = recorded /\ pc' = "apply"
      BY <1>7, <2>2 DEF RecordWrite, Emit, outside
    <3>2. \A r \in Subtask : att'[r].n = att[r].n /\ att'[r].merged = att[r].merged
      BY <3>1 DEF RecordType, Attempt
    <3> QED
      BY <3>1, <3>2, BranchKept
  <2> QED
    BY <2>1, <2>2
<1>8. ASSUME NEW s \in Subtask, CheckBranch(s) PROVE BranchOk'
  <2>1. CASE Incident("branch")
    BY <1>1, <2>1, IncidentQuiet
  <2>2. CASE ~Incident("branch")
    <3>1. /\ att' = att /\ sub' = sub /\ branch' = branch /\ recorded' = recorded
          /\ pc' = "git" /\ IsCurrent(s) /\ BranchHolds({Commit(s)})
      BY <1>8, <2>2 DEF CheckBranch, replayed, outside
    <3>2. \A r \in Subtask : /\ Commit(r)' = Commit(r) /\ IsCurrent(r)' = IsCurrent(r)
                             /\ IsCurrent(r) => r = s
      BY <3>1, OneCurrent DEF Commit, IsCurrent, Unresolved
    <3>3. \A r \in Subtask : IsCurrent(r)' => BranchHolds({Commit(r)})'
      BY <3>1, <3>2 DEF BranchHolds
    <3> QED
      BY <3>1, <3>3 DEF BranchOk, Commit
  <2> QED
    BY <2>1, <2>2
<1>9. ASSUME NEW s \in Subtask, GitMerge(s) PROVE BranchOk'
  BY <1>1, <1>9, BranchMerge, IncidentQuiet
<1>10. ASSUME NEW s \in Subtask, RecordMerge(s) PROVE BranchOk'
  BY <1>1, <1>10, BranchRecord, RaiseQuiet
<1> QED
  BY <1>1, <1>2, <1>3, <1>4, <1>5, <1>6, <1>7, <1>8, <1>9, <1>10, QuietStep DEF Moves

-----------------------------------------------------------------------------
(* What a person was shown stays true: a step leaves a subtask that waits  *)
(* on a person as it is, save for the two that list it and that decide it. *)

SameCase(s) ==
  /\ sub'[s] = sub[s]
  /\ \A f \in {"n", "session", "changes", "gate", "review", "unavail", "rejected", "merged",
               "routed", "fix", "approved", "spent"} : att'[s][f] = att[s][f]

Untouched == \A r \in Subtask : SameCase(r)

\* A step on the records of s alone, which is not waiting.
Touches(s) ==
  /\ \A r \in Subtask : r # s => sub'[r] = sub[r] /\ att'[r] = att[r]
  /\ sub'[s].rounds = sub[s].rounds /\ sub'[s].status # "escalated"
  /\ Unresolved(s) /\ Step(s) # "escalate"

LEMMA CaseKept ==
  ASSUME NEW s \in Subtask, NEW item, SameCase(s)
  PROVE  /\ Says(item, s)' = Says(item, s) /\ Step(s)' = Step(s)
         /\ Unresolved(s)' = Unresolved(s) /\ NextItem(s)' = NextItem(s)
<1>1. /\ sub'[s] = sub[s] /\ att'[s].n = att[s].n /\ att'[s].session = att[s].session
      /\ att'[s].changes = att[s].changes /\ att'[s].gate = att[s].gate
      /\ att'[s].review = att[s].review /\ att'[s].unavail = att[s].unavail
      /\ att'[s].rejected = att[s].rejected /\ att'[s].merged = att[s].merged
      /\ att'[s].routed = att[s].routed /\ att'[s].approved = att[s].approved
      /\ att'[s].spent = att[s].spent
  BY DEF SameCase
<1>2. Ended(att'[s]) = Ended(att[s]) /\ Failed(att'[s]) = Failed(att[s])
      /\ ResumePoint(att'[s]) = ResumePoint(att[s]) /\ GateLets(att'[s]) = GateLets(att[s])
  BY <1>1 DEF Ended, Failed, ResumePoint, Completed, GateLets
<1>3. Step(s)' = Step(s)
  BY <1>1, <1>2 DEF Step
<1>4. Says(item, s)' = Says(item, s)
  BY <1>1, <1>2 DEF Says, Consequence, ApproveMerges, GateLets
<1> QED
  BY <1>1, <1>3, <1>4 DEF Unresolved, NextItem

LEMMA UntouchedSame == ASSUME sub' = sub, att' = att PROVE Untouched
BY DEF Untouched, SameCase

LEMMA CurrentUnresolved == ASSUME NEW s \in Subtask, IsCurrent(s) PROVE Unresolved(s)
BY DEF IsCurrent

\* The forms in which a step changes the records of one subtask.
LEMMA TouchAttempt ==
  ASSUME RecordType, NEW s \in Subtask, Unresolved(s), Step(s) # "escalate",
         sub' = sub, NEW b, att' = [att EXCEPT ![s] = b]
  PROVE  Touches(s)
BY DEF RecordType, Touches, Unresolved

LEMMA TouchBoth ==
  ASSUME RecordType, NEW s \in Subtask, Unresolved(s), Step(s) # "escalate",
         NEW x, x.rounds = sub[s].rounds, x.status # "escalated",
         sub' = [sub EXCEPT ![s] = x],
         \/ att' = att
         \/ \E b : att' = [att EXCEPT ![s] = b]
  PROVE  Touches(s)
BY DEF RecordType, Touches, Unresolved

LEMMA TouchEnding ==
  ASSUME RecordType, NEW s \in Subtask, Unresolved(s), Step(s) # "escalate", NEW b, Ending(s, b)
  PROVE  Touches(s)
<1> DEFINE end == IF b.fix /\ b.unavail # "final" THEN "fix" ELSE sub[s].ending
           x == [sub[s] EXCEPT !.ending = end]
           c == [b EXCEPT !.routed = IF b.fix /\ b.unavail = "final" THEN "yes" ELSE @]
<1>1. att' = [att EXCEPT ![s] = c] /\ sub' = [sub EXCEPT ![s] = x]
  BY DEF Ending, RecordType
<1> HIDE DEF end, c
<1>2. x.rounds = sub[s].rounds /\ x.status = sub[s].status
  BY DEF RecordType, SubtaskState
<1> HIDE DEF x
<1>3. x.status # "escalated"
  BY <1>2 DEF Unresolved
<1> QED
  BY <1>1, <1>2, <1>3, TouchBoth

LEMMA TouchJudging ==
  ASSUME Records, PlacesOk, NEW s \in Subtask, Judging(s) PROVE Untouched \/ Touches(s)
<1>0. RecordType
  BY DEF Records
<1>1. IsCurrent(s) /\ pc \in Judged
  BY DEF Judging, EnterStage, EnterReject, RejectAttempt, CheckChanges, RunGate, Review,
     ReviewUnavailable, Judged
<1>2. Unresolved(s) /\ Step(s) # "escalate" /\ sub[s].status = "active"
  BY <1>1, CurrentUnresolved, AtJudgement, StepFacts
<1>3. ASSUME sub' = sub, NEW b, att' = [att EXCEPT ![s] = b] PROVE Touches(s)
  BY <1>0, <1>2, <1>3, TouchAttempt
<1>4. ASSUME NEW b, Ending(s, b) PROVE Touches(s)
  BY <1>0, <1>2, <1>4, TouchEnding
<1>5. CASE Raise
  BY <1>5, UntouchedSame DEF Raise, replayed
<1>6. CASE \/ EnterStage(s) \/ EnterReject(s)
           \/ \E found \in {"ok", "refused"} : CheckChanges(s, found)
  BY <1>3, <1>5, <1>6 DEF EnterStage, EnterReject, CheckChanges, EmitAtt, Emit
<1>7. ASSUME NEW verdict \in {"skipped", "pass", "fail"}, RunGate(s, verdict)
      PROVE  Untouched \/ Touches(s)
  <2>1. Raise \/ (sub' = sub /\ att' = [att EXCEPT ![s] = [att[s] EXCEPT !.gate = verdict]])
    BY <1>0, <1>7 DEF RunGate, Emit, RecordType
  <2> QED
    BY <1>3, <1>5, <2>1
<1>8. CASE RejectAttempt(s)
  BY <1>4, <1>5, <1>8 DEF RejectAttempt, Emit
<1>9. ASSUME NEW retry \in BOOLEAN, ReviewUnavailable(s, retry) PROVE Untouched \/ Touches(s)
  BY <1>3, <1>4, <1>5, <1>9 DEF ReviewUnavailable, Emit
<1>10. ASSUME NEW verdict \in Verdicts, Review(s, verdict) PROVE Untouched \/ Touches(s)
  <2> DEFINE result == IF verdict = "gaming" THEN "fail" ELSE verdict
             b == [att[s] EXCEPT !.review = result, !.judged = TRUE]
             seen == sub[s].indicator \/ verdict = "gaming"
             x == [sub[s] EXCEPT !.indicator = seen]
  <2>1. [sub EXCEPT ![s].indicator = @ \/ verdict = "gaming"] = [sub EXCEPT ![s] = x]
    BY <1>0 DEF RecordType
  <2>2. \/ Raise \/ Ending(s, b)
        \/ sub' = [sub EXCEPT ![s] = x] /\ att' = [att EXCEPT ![s] = b]
    BY <1>10, <2>1 DEF Review, Emit
  <2> HIDE DEF seen, b
  <2>3. x.rounds = sub[s].rounds /\ x.status = "active"
    BY <1>0, <1>2 DEF RecordType, SubtaskState
  <2> HIDE DEF x
  <2> QED
    BY <1>0, <1>2, <1>4, <1>5, <2>2, <2>3, TouchBoth
<1> QED
  BY <1>6, <1>7, <1>8, <1>9, <1>10 DEF Judging

LEMMA TouchMerging ==
  ASSUME Records, PlacesOk, NEW s \in Subtask, Merging(s) PROVE Untouched \/ Touches(s)
<1>0. RecordType
  BY DEF Records
<1>1. IsCurrent(s) /\ pc \in Merged \cup {"diff", "diffing"}
  BY DEF Merging, RequireMergeable, IntendWrite, StoreWrite, RecordWrite, CheckBranch, GitMerge,
     RecordMerge, EnterDiff, CheckDiff, Merged
<1>2. Unresolved(s) /\ Step(s) # "escalate"
  <2>1. /\ PlaceOk(pc, sub[s], att[s]) /\ RecordOk(sub[s], att[s]) /\ att[s] \in Attempt
        /\ StagesInOrder(att[s])
    BY <1>1, AtPlace, AtRecord
  <2>2. (att[s].review = "pass" \/ att[s].approved) \/ att[s].merged
    BY <1>1, <2>1 DEF PlaceOk
  <2>3. ~(Ended(att[s]) /\ ~att[s].approved)
    BY <2>1, <2>2, PassNotEnded, EndedNotMerged
  <2> QED
    BY <1>1, <2>3, CurrentUnresolved, StepFacts
<1>3. ASSUME sub' = sub, NEW b, att' = [att EXCEPT ![s] = b] PROVE Touches(s)
  BY <1>0, <1>2, <1>3, TouchAttempt
<1>4. CASE sub' = sub /\ att' = att
  BY <1>4, UntouchedSame
<1>5. CASE RequireMergeable(s) \/ StoreWrite(s) \/ CheckBranch(s) \/ GitMerge(s)
  BY <1>4, <1>5 DEF RequireMergeable, StoreWrite, CheckBranch, GitMerge, Incident, Raise, replayed
<1>6. CASE IntendWrite(s) \/ EnterDiff(s)
  BY <1>3, <1>4, <1>6 DEF IntendWrite, EnterDiff, EmitAtt, Emit, Raise, replayed
<1>7. CASE RecordWrite(s)
  <2>1. \/ sub' = sub /\ att' = att
        \/ sub' = sub /\ att' = [att EXCEPT ![s] = [att[s] EXCEPT !.applied = @ + 1, !.pending = FALSE]]
    BY <1>0, <1>7 DEF RecordWrite, Emit, Raise, replayed, RecordType
  <2> QED
    BY <1>3, <1>4, <2>1
<1>8. CASE RecordMerge(s)
  <2>1. \/ sub' = sub /\ att' = att
        \/ sub' = sub /\ att' = [att EXCEPT ![s] = [att[s] EXCEPT !.merged = TRUE]]
    BY <1>0, <1>8 DEF RecordMerge, Emit, Raise, replayed, RecordType
  <2> QED
    BY <1>3, <1>4, <2>1
<1>9. ASSUME NEW found \in BOOLEAN, CheckDiff(s, found) PROVE Untouched \/ Touches(s)
  <2> DEFINE status == IF found THEN sub[s].status ELSE "done"
             x == [sub[s] EXCEPT !.status = status]
             b == [att[s] EXCEPT !.diff = IF found THEN "divergent" ELSE "clean"]
  <2>1. \/ sub' = sub /\ att' = att
        \/ sub' = [sub EXCEPT ![s] = x] /\ att' = [att EXCEPT ![s] = b]
    BY <1>0, <1>9 DEF CheckDiff, Emit, Raise, replayed, RecordType
  <2> HIDE DEF b
  <2>2. status # "escalated"
    BY <1>2 DEF Unresolved
  <2> HIDE DEF status
  <2>3. x.rounds = sub[s].rounds /\ x.status = status
    BY <1>0 DEF RecordType, SubtaskState
  <2> HIDE DEF x
  <2> QED
    BY <1>0, <1>2, <1>4, <2>1, <2>2, <2>3, TouchBoth
<1> QED
  BY <1>5, <1>6, <1>7, <1>8, <1>9 DEF Merging

LEMMA TouchAttempting ==
  ASSUME Records, PlacesOk, NEW s \in Subtask, Attempting(s)
  PROVE  Untouched \/ Touches(s) \/ (RecordEscalated(s) /\ ~Raise)
<1>0. RecordType /\ sub[s] \in SubtaskState
  BY DEF Records, RecordType
<1>1. CASE sub' = sub /\ att' = att
  BY <1>1, UntouchedSame
<1>2. CASE Continue(s) \/ \E scan \in BOOLEAN : List(s, scan)
  BY <1>1, <1>2 DEF Continue, List, replayed
<1>3. CASE Raise
  BY <1>1, <1>3 DEF Raise, replayed
<1>4. CASE BeginAttempt(s)
  <2>1. CASE Raise
    BY <1>3, <2>1
  <2>2. CASE ~Raise
    <3>1. /\ \A r \in Subtask : r # s => att'[r] = att[r]
          /\ IsCurrent(s)
      BY <1>4, <2>2, BeginCounts
    <3>2. Step(s) = "resolve"
      BY <1>4 DEF BeginAttempt, Drives
    <3> DEFINE new == att[s].n # Number(s)
    <3>3. sub' = [sub EXCEPT ![s].status = "active", ![s].next = 0,
                       ![s].fixNext = @ /\ ~new,
                       ![s].fixUsed = @ \/ (new /\ sub[s].fixNext),
                       ![s].unjudged = @ \/ (new /\ att[s].n # 0 /\ ~att[s].judged)]
      BY <1>4, <2>2 DEF BeginAttempt
    <3> HIDE DEF new
    <3>4. /\ \A r \in Subtask : r # s => sub'[r] = sub[r]
          /\ sub'[s].rounds = sub[s].rounds /\ sub'[s].status = "active"
      BY <1>0, <3>3 DEF RecordType, SubtaskState
    <3> QED
      BY <3>1, <3>2, <3>4, CurrentUnresolved DEF Touches
  <2> QED
    BY <2>1, <2>2
<1>5. ASSUME NEW end \in Ends, NEW shows \in BOOLEAN, SessionEnds(s, end, shows)
      PROVE  Untouched \/ Touches(s)
  <2>1. IsCurrent(s) /\ pc \in Judged
    BY <1>5 DEF SessionEnds, Judged
  <2>2. Unresolved(s) /\ Step(s) # "escalate"
    BY <2>1, CurrentUnresolved, AtJudgement, StepFacts
  <2>3. sub' = sub /\ (att' = att \/ att' = [att EXCEPT ![s] = [att[s] EXCEPT !.session = end]])
    BY <1>0, <1>5 DEF SessionEnds, RecordType
  <2> DEFINE b == [att[s] EXCEPT !.session = end]
  <2>4. CASE sub' = sub /\ att' = [att EXCEPT ![s] = b]
    <3> HIDE DEF b
    <3> QED
      BY <1>0, <2>2, <2>4, TouchAttempt
  <2> QED
    BY <2>3, <2>4, UntouchedSame
<1>6. CASE Spawn(s)
  <2>1. IsCurrent(s) /\ pc \in Judged
    BY <1>6 DEF Spawn, Judged
  <2>2. Unresolved(s) /\ Step(s) # "escalate"
    BY <2>1, CurrentUnresolved, AtJudgement, StepFacts
  <2>3. Raise \/ (sub' = sub /\ att' = [att EXCEPT ![s] = [att[s] EXCEPT !.cursor = "spawn"]])
    BY <1>6 DEF Spawn, EmitAtt, Emit
  <2> QED
    BY <1>0, <1>3, <2>2, <2>3, TouchAttempt
<1>7. CASE InfraFailed(s)
  <2> DEFINE x == [sub[s] EXCEPT !.next = att[s].n]
             b == [att[s] EXCEPT !.retries = @ + 1]
  <2>1. \/ sub' = sub /\ att' = att
        \/ sub' = [sub EXCEPT ![s] = x] /\ att' = [att EXCEPT ![s] = b]
    BY <1>0, <1>7 DEF InfraFailed, Emit, Raise, replayed, RecordType
  <2>2. Unresolved(s) /\ Step(s) # "escalate"
    BY <1>7, CurrentUnresolved DEF InfraFailed, Drives
  <2>3. x.rounds = sub[s].rounds /\ x.status # "escalated"
    BY <1>0, <2>2 DEF SubtaskState, Unresolved
  <2> HIDE DEF x, b
  <2> QED
    BY <1>0, <1>1, <2>1, <2>2, <2>3, TouchBoth
<1>8. CASE Decide(s)
  <2> DEFINE forced == ~att[s].rejected \/ att[s].n >= Budget
             next == IF forced THEN sub[s].next ELSE att[s].n + 1
             x == [sub[s] EXCEPT !.next = next]
             b == [att[s] EXCEPT !.routed = IF forced THEN "yes" ELSE "no"]
  <2>1. \/ sub' = sub /\ att' = att
        \/ sub' = [sub EXCEPT ![s] = x] /\ att' = [att EXCEPT ![s] = b]
    BY <1>0, <1>8 DEF Decide, Emit, Raise, replayed, RecordType
  <2>2. Unresolved(s) /\ Step(s) # "escalate"
    BY <1>8, CurrentUnresolved DEF Decide, Drives
  <2> HIDE DEF forced, next
  <2>3. x.rounds = sub[s].rounds /\ x.status # "escalated"
    BY <1>0, <2>2 DEF SubtaskState, Unresolved
  <2> HIDE DEF x, b
  <2> QED
    BY <1>0, <1>1, <2>1, <2>2, <2>3, TouchBoth
<1>9. CASE EndSubtask(s)
  <2> DEFINE x == [sub[s] EXCEPT !.status = "rejected", !.ending = "no"]
  <2>1. \/ sub' = sub /\ att' = att
        \/ sub' = [sub EXCEPT ![s] = x] /\ att' = att
    BY <1>0, <1>9 DEF EndSubtask, Emit, Raise, replayed, RecordType
  <2>2. Unresolved(s) /\ Step(s) # "escalate"
    BY <1>9, CurrentUnresolved DEF EndSubtask, Drives
  <2>3. x.rounds = sub[s].rounds /\ x.status # "escalated"
    BY <1>0 DEF SubtaskState
  <2> HIDE DEF x
  <2> QED
    BY <1>0, <1>1, <2>1, <2>2, <2>3, TouchBoth
<1> QED
  BY <1>2, <1>3, <1>4, <1>5, <1>6, <1>7, <1>8, <1>9, TouchJudging, TouchMerging DEF Attempting

\* What any step does to the records of the subtasks.
LEMMA TouchStep ==
  ASSUME FrameType, Records, PlacesOk, [Next]_vars
  PROVE  \/ Untouched
         \/ \E s \in Subtask : Touches(s) \/ (RecordEscalated(s) /\ ~Raise)
         \/ \E item \in items, i \in 1..Len(decisions) : TakeDecision(item, i)
<1>0. RecordType
  BY DEF Records
<1>1. CASE sub' = sub /\ att' = att
  BY <1>1, UntouchedSame
<1>2. CASE UNCHANGED vars \/ \E cmd \in {"run", "resume"} : Command(cmd)
  BY <1>1, <1>2 DEF vars, Command, replayed
<1>3. CASE Environment
  <2>1. ASSUME NEW s \in Subtask, RemoveSubtask(s) PROVE Touches(s)
    <3> DEFINE x == [sub[s] EXCEPT !.status = "removed"]
    <3>1. sub' = [sub EXCEPT ![s] = x] /\ att' = att /\ sub[s].status = "planned"
      BY <1>0, <2>1 DEF RemoveSubtask, RecordType
    <3>2. Unresolved(s) /\ Step(s) # "escalate"
      BY <3>1 DEF Unresolved, Step
    <3>3. x.rounds = sub[s].rounds /\ x.status # "escalated"
      BY <1>0 DEF SubtaskState, RecordType
    <3> HIDE DEF x
    <3> QED
      BY <1>0, <3>1, <3>2, <3>3, TouchBoth
  <2> QED
    BY <1>1, <1>3, <2>1 DEF Environment, Kill, ForeignLine, PersonDecides, replayed
<1>4. CASE Process
  <2>1. CASE CheckLine
    <3>1. CASE sub' = sub /\ att' = att
      BY <1>1, <3>1
    <3>2. ASSUME NEW s \in Subtask, sub' = sub,
                 att' = [att EXCEPT ![s].applied = @ + 1, ![s].pending = FALSE]
          PROVE  Untouched
      <4>2. att' = [att EXCEPT ![s] = [att[s] EXCEPT !.applied = att[s].applied + 1, !.pending = FALSE]]
        BY <1>0, <3>2 DEF RecordType
      <4>3. \A r \in Subtask : r # s => att'[r] = att[r]
        BY <1>0, <4>2 DEF RecordType
      <4>4. att'[s] = [att[s] EXCEPT !.applied = att[s].applied + 1, !.pending = FALSE]
        BY <1>0, <4>2 DEF RecordType
      <4>5. att[s] \in Attempt
        BY <1>0 DEF RecordType
      <4>6. /\ att'[s].n = att[s].n /\ att'[s].session = att[s].session
            /\ att'[s].changes = att[s].changes /\ att'[s].gate = att[s].gate
            /\ att'[s].review = att[s].review /\ att'[s].unavail = att[s].unavail
            /\ att'[s].rejected = att[s].rejected /\ att'[s].merged = att[s].merged
            /\ att'[s].routed = att[s].routed /\ att'[s].fix = att[s].fix
            /\ att'[s].approved = att[s].approved /\ att'[s].spent = att[s].spent
        BY <4>4, <4>5 DEF Attempt
      <4> QED
        BY <3>2, <4>3, <4>6 DEF Untouched, SameCase
    <3> QED
      BY <2>1, <3>1, <3>2 DEF CheckLine, Incident, Raise, replayed
  <2>2. CASE TakeOver
    <3>1. CASE sub' = sub /\ att' = att
      BY <1>1, <3>1
    <3>2. ASSUME NEW s \in Subtask, Interrupted(s), ~Ended(att[s]),
                 att' = [att EXCEPT ![s] = Resumed(@)],
                 sub' = [sub EXCEPT ![s].next =
                           IF ResumePoint(att[s]) = "resolve" THEN att[s].n ELSE @]
          PROVE  Touches(s)
      <4> DEFINE next == IF ResumePoint(att[s]) = "resolve" THEN att[s].n ELSE sub[s].next
                 x == [sub[s] EXCEPT !.next = next]
      <4>1. att' = [att EXCEPT ![s] = Resumed(att[s])] /\ sub' = [sub EXCEPT ![s] = x]
        BY <1>0, <3>2 DEF RecordType
      <4>2. Unresolved(s)
        BY <3>2 DEF Interrupted, MidAttempt, FirstActive, Active, Unresolved
      <4>3. Step(s) # "escalate"
        BY <3>2, StepFacts
      <4> HIDE DEF next
      <4>4. x.rounds = sub[s].rounds /\ x.status # "escalated"
        BY <1>0, <4>2 DEF SubtaskState, RecordType, Unresolved
      <4> HIDE DEF x
      <4> QED
        BY <1>0, <4>1, <4>2, <4>3, <4>4, TouchBoth
    <3> QED
      BY <2>2, <3>1, <3>2 DEF TakeOver, Incident, Raise, replayed
  <2>3. CASE \/ JournalHolds \/ Halt \/ DiffStale \/ LeaveLoop \/ Finish
             \/ ListIntegration \/ RecordIntegEsc
             \/ \E reopens \in BOOLEAN : Hold(reopens)
             \/ \E verdict \in {"pass", "fail"} : Integrate(verdict)
    BY <1>1, <2>3 DEF JournalHolds, Halt, DiffStale, LeaveLoop, Finish, ListIntegration,
       RecordIntegEsc, Hold, Integrate, replayed
  <2>4. ASSUME NEW item \in items, NEW i \in 1..Len(decisions), DecisionMismatch(item, i)
        PROVE  Untouched
    <3>1. Incident("decision")
      BY <2>4 DEF DecisionMismatch
    <3>2. sub' = sub /\ att' = att
      BY <3>1 DEF Incident, replayed
    <3> QED
      BY <3>2, UntouchedSame
  <2> QED
    BY <1>4, <2>1, <2>2, <2>3, <2>4, TouchAttempting DEF Process
<1> QED
  BY <1>2, <1>3, <1>4 DEF Next

-----------------------------------------------------------------------------
(* The queue, the decisions taken, the worktrees and the integration call. *)

\* A step that leaves these and the decisions alone, and lists nothing.
Aside == UNCHANGED <<items, decisions, taken, cleaned, integration>> /\ pc' # "listed"

LEMMA AsideJudging == ASSUME NEW s \in Subtask, Judging(s) PROVE Aside
<1> USE DEF Emit, EmitAtt, Raise, replayed, outside, Aside
<1>1. CASE EnterStage(s)
  BY <1>1 DEF EnterStage
<1>2. CASE EnterReject(s) \/ RejectAttempt(s)
  BY <1>2 DEF EnterReject, RejectAttempt
<1>3. CASE \E found \in {"ok", "refused"} : CheckChanges(s, found)
  BY <1>3 DEF CheckChanges
<1>4. CASE \E verdict \in {"skipped", "pass", "fail"} : RunGate(s, verdict)
  BY <1>4 DEF RunGate
<1>5. CASE \E verdict \in Verdicts : Review(s, verdict)
  BY <1>5 DEF Review
<1>6. CASE \E retry \in BOOLEAN : ReviewUnavailable(s, retry)
  BY <1>6 DEF ReviewUnavailable
<1> QED
  BY <1>1, <1>2, <1>3, <1>4, <1>5, <1>6 DEF Judging

LEMMA AsideMerging == ASSUME NEW s \in Subtask, Merging(s) PROVE Aside
<1> USE DEF Emit, EmitAtt, Raise, Incident, replayed, outside, Aside
<1>1. CASE RequireMergeable(s) \/ CheckBranch(s)
  BY <1>1 DEF RequireMergeable, CheckBranch
<1>2. CASE IntendWrite(s) \/ EnterDiff(s)
  BY <1>2 DEF IntendWrite, EnterDiff
<1>3. CASE StoreWrite(s)
  BY <1>3 DEF StoreWrite
<1>4. CASE GitMerge(s)
  BY <1>4 DEF GitMerge
<1>5. CASE RecordWrite(s) \/ RecordMerge(s)
  BY <1>5 DEF RecordWrite, RecordMerge
<1>6. CASE \E found \in BOOLEAN : CheckDiff(s, found)
  BY <1>6 DEF CheckDiff
<1> QED
  BY <1>1, <1>2, <1>3, <1>4, <1>5, <1>6 DEF Merging

LEMMA AsideAttempting ==
  ASSUME NEW s \in Subtask, Attempting(s)
  PROVE  Aside \/ \E scan \in BOOLEAN : List(s, scan)
<1> USE DEF Emit, EmitAtt, Raise, replayed, outside, Aside
<1>1. CASE Continue(s) \/ BeginAttempt(s) \/ Spawn(s)
  BY <1>1 DEF Continue, BeginAttempt, Spawn
<1>2. CASE InfraFailed(s) \/ Decide(s) \/ EndSubtask(s)
  BY <1>2 DEF InfraFailed, Decide, EndSubtask, Drives
<1>3. CASE \E end \in Ends, shows \in BOOLEAN : SessionEnds(s, end, shows)
  BY <1>3 DEF SessionEnds
<1>4. CASE RecordEscalated(s)
  BY <1>4 DEF RecordEscalated
<1> QED
  BY <1>1, <1>2, <1>3, <1>4, AsideJudging, AsideMerging DEF Attempting

\* The steps that change one of the four.
LEMMA AsideStep ==
  ASSUME [Next]_vars
  PROVE  \/ Aside
         \/ /\ UNCHANGED <<items, taken, cleaned, integration, sub, att, pc>>
            /\ \/ decisions' = decisions
               \/ \E item \in items, verb \in Verb, long \in BOOLEAN : PersonDecides(item, verb, long)
         \/ Finish \/ ListIntegration
         \/ \E verdict \in {"pass", "fail"} : Integrate(verdict)
         \/ \E item \in items, i \in 1..Len(decisions) : TakeDecision(item, i)
         \/ \E s \in Subtask, scan \in BOOLEAN : List(s, scan)
<1>1. CASE UNCHANGED vars
  BY <1>1 DEF vars, replayed, outside
<1>2. CASE \E cmd \in {"run", "resume"} : Command(cmd)
  BY <1>2 DEF Command, Aside, replayed, outside
<1>3. CASE Environment
  <2>1. CASE \/ \E item \in items, verb \in Verb, long \in BOOLEAN : PersonDecides(item, verb, long)
             \/ ForeignLine
    BY <2>1 DEF PersonDecides, ForeignLine, replayed
  <2>2. CASE Kill \/ \E s \in Subtask : RemoveSubtask(s)
    BY <2>2 DEF Kill, RemoveSubtask, Aside, replayed, outside
  <2> QED
    BY <1>3, <2>1, <2>2 DEF Environment
<1>4. CASE Process
  <2>1. CASE CheckLine
    BY <2>1 DEF CheckLine, Checking, Incident, Raise, Aside, replayed, outside
  <2>2. CASE JournalHolds \/ Halt \/ DiffStale \/ LeaveLoop \/ RecordIntegEsc
    BY <2>2 DEF JournalHolds, Halt, DiffStale, LeaveLoop, RecordIntegEsc, Checking, Aside,
       replayed, outside
  <2>3. CASE TakeOver
    BY <2>3 DEF TakeOver, Incident, Raise, Aside, replayed, outside
  <2>4. CASE \E reopens \in BOOLEAN : Hold(reopens)
    BY <2>4 DEF Hold, Aside, replayed, outside
  <2>5. ASSUME NEW item \in items, NEW i \in 1..Len(decisions), DecisionMismatch(item, i)
        PROVE  Aside
    <3>1. Incident("decision")
      BY <2>5 DEF DecisionMismatch
    <3> QED
      BY <3>1 DEF Incident, Aside, replayed, outside
  <2> QED
    BY <1>4, <2>1, <2>2, <2>3, <2>4, <2>5, AsideAttempting DEF Process
<1> QED
  BY <1>1, <1>2, <1>3, <1>4 DEF Next

-----------------------------------------------------------------------------
(* A queue item says what the record gives.                                *)

\* What the queue holds for one subtask.
CaseOk(s) ==
  /\ \A item \in items : item.id[1] = s => item.id[2] <= sub[s].rounds + 1
  /\ \A item \in items : item.id = NextItem(s) => Waits(s) /\ Says(item, s)
  /\ sub[s].status = "escalated" =>
       \E item \in items : item.id = <<s, sub[s].item>> /\ Says(item, s)

Listed == pc = "listed" => \A s \in Subtask : IsCurrent(s) => \E item \in items : item.id = NextItem(s)

LEMMA CasesOf ==
  ASSUME ItemsOk PROVE Listed /\ \A s \in Subtask : CaseOk(s)
<1>1. ASSUME NEW s \in Subtask, NEW item \in items, item.id[1] = s
      PROVE  item.id[2] <= sub[s].rounds + 1
  <2>1. item.id # <<0, 0>>
    BY <1>1 DEF Subtask
  <2> QED
    BY <1>1, <2>1 DEF ItemsOk
<1>2. ASSUME NEW s \in Subtask, sub[s].status = "escalated"
      PROVE  \E item \in items : item.id = <<s, sub[s].item>> /\ Says(item, s)
  BY <1>2 DEF ItemsOk, ShownAsGiven, Says
<1> QED
  BY <1>1, <1>2 DEF ItemsOk, CaseOk, Listed

LEMMA ItemsOf ==
  ASSUME FrameType', Listed', \A s \in Subtask : CaseOk(s)' PROVE ItemsOk'
<1>1. ASSUME NEW item \in items', item.id # <<0, 0>>
      PROVE  item.id[2] <= sub'[item.id[1]].rounds + 1
  <2>1. item \in Item
    BY <1>1 DEF FrameType
  <2>2. item.id[1] \in Subtask
    BY <1>1, <2>1 DEF Item, ItemId
  <2> QED
    BY <2>2 DEF CaseOk
<1>2. \A s \in Subtask : ShownAsGiven(s)'
  BY DEF ShownAsGiven, CaseOk, Says
<1> QED
  BY <1>1, <1>2 DEF ItemsOk, CaseOk, Listed

LEMMA CaseSame ==
  ASSUME NEW s \in Subtask, SameCase(s), items' = items, CaseOk(s) PROVE CaseOk(s)'
<1>1. sub'[s] = sub[s]
  BY DEF SameCase
<1>2. NextItem(s)' = NextItem(s) /\ Waits(s)' = Waits(s)
  BY CaseKept DEF Waits
<1>3. ASSUME NEW item PROVE Says(item, s)' = Says(item, s)
  BY CaseKept
<1> QED
  BY <1>1, <1>2, <1>3 DEF CaseOk

LEMMA CaseTouched ==
  ASSUME NEW s \in Subtask, Touches(s), items' = items, CaseOk(s) PROVE CaseOk(s)'
<1>1. /\ sub'[s].rounds = sub[s].rounds /\ sub'[s].status # "escalated" /\ ~Waits(s)
      /\ NextItem(s)' = NextItem(s)
  BY DEF Touches, Waits, NextItem
<1> QED
  BY <1>1 DEF CaseOk

LEMMA CaseEscalated ==
  ASSUME FrameType, Records, NEW s \in Subtask, RecordEscalated(s), ~Raise, Listed, CaseOk(s)
  PROVE  /\ CaseOk(s)' /\ \A r \in Subtask : r # s => sub'[r] = sub[r]
         /\ att' = att /\ Unresolved(s)
<1> DEFINE x == [sub[s] EXCEPT !.status = "escalated", !.item = sub[s].rounds + 1,
                               !.rounds = sub[s].rounds + 1]
<1>1. sub \in [Subtask -> SubtaskState]
  BY DEF Records, RecordType
<1>2. /\ pc = "listed" /\ IsCurrent(s) /\ att' = att /\ items' = items
      /\ sub' = [sub EXCEPT ![s] = x]
  BY <1>1 DEF RecordEscalated, Emit, outside
<1>3. x.status = "escalated" /\ x.item = sub[s].rounds + 1 /\ x.rounds = sub[s].rounds + 1
      /\ x.indicator = sub[s].indicator /\ x.fixUsed = sub[s].fixUsed /\ sub[s].rounds \in Nat
  BY <1>1 DEF SubtaskState
<1> HIDE DEF x
<1>4. sub'[s] = x /\ \A r \in Subtask : r # s => sub'[r] = sub[r]
  BY <1>1, <1>2
<1>5. ASSUME NEW item PROVE Says(item, s)' = Says(item, s)
  BY <1>2, <1>3, <1>4 DEF Says, Consequence, ApproveMerges
<1>6. ASSUME NEW item \in items, item.id[1] = s PROVE item.id[2] <= x.rounds + 1
  <2>1. item.id[2] <= sub[s].rounds + 1
    BY <1>6 DEF CaseOk
  <2>2. item.id[2] \in Nat
    BY <1>6 DEF FrameType, Item, ItemId
  <2> QED
    BY <1>3, <2>1, <2>2
<1>7. ASSUME NEW item \in items, item.id = <<s, x.rounds + 1>> PROVE FALSE
  <2>1. item.id[2] = sub[s].rounds + 2 /\ item.id[1] = s
    BY <1>3, <1>7
  <2>2. item.id[2] <= sub[s].rounds + 1
    BY <2>1 DEF CaseOk
  <2> QED
    BY <1>3, <2>1, <2>2
<1>8. PICK item \in items : item.id = <<s, sub[s].rounds + 1>> /\ Says(item, s)
  BY <1>2 DEF Listed, CaseOk, NextItem
<1>9. item.id = <<s, sub'[s].item>> /\ Says(item, s)'
  BY <1>3, <1>4, <1>5, <1>8
<1> QED
  BY <1>2, <1>4, <1>6, <1>7, <1>9, CurrentUnresolved DEF CaseOk, NextItem

LEMMA CaseGrows ==
  ASSUME NEW s \in Subtask, sub' = sub, att' = att, NEW new, items' = items \cup {new},
         new.id[1] # s, CaseOk(s)
  PROVE  CaseOk(s)'
<1>1. new.id # NextItem(s)
  BY DEF NextItem
<1>2. SameCase(s)
  BY UntouchedSame DEF Untouched
<1>3. NextItem(s)' = NextItem(s) /\ Waits(s)' = Waits(s)
  BY <1>2, CaseKept DEF Waits
<1>4. ASSUME NEW item PROVE Says(item, s)' = Says(item, s)
  BY <1>2, CaseKept
<1> QED
  BY <1>1, <1>3, <1>4 DEF CaseOk

\* The items of List.
LEMMA ItemsListed ==
  ASSUME FrameType, RecordType, Listed, \A r \in Subtask : CaseOk(r), FrameType',
         NEW s \in Subtask, NEW scan \in BOOLEAN, List(s, scan)
  PROVE  ItemsOk'
<1> DEFINE new == [id |-> NextItem(s), scan |-> scan,
                   does |-> IF Acts THEN Consequence(s, scan) ELSE RecordOnly]
<1>1. /\ sub' = sub /\ att' = att /\ IsCurrent(s) /\ Step(s) = "escalate" /\ pc' = "listed"
      /\ \/ items' = items /\ \E item \in items : item.id = NextItem(s)
         \/ items' = items \cup {new}
  BY DEF List, replayed, Drives
<1>2. Waits(s) /\ sub[s].rounds \in Nat
  BY <1>1, CurrentUnresolved DEF Waits, RecordType, SubtaskState
<1>3. new.id = NextItem(s) /\ new.id[1] = s /\ new.id[2] = sub[s].rounds + 1 /\ Says(new, s)
  BY DEF Says, NextItem
<1> HIDE DEF new
<1>4. \A r \in Subtask : SameCase(r) /\ NextItem(r)' = NextItem(r) /\ IsCurrent(r)' = IsCurrent(r)
  BY <1>1, UntouchedSame DEF Untouched, NextItem, IsCurrent, Unresolved
<1>5. \A r \in Subtask : r # s => ~IsCurrent(r)
  BY <1>1, OneCurrent
<1>6. Listed'
  BY <1>1, <1>3, <1>4, <1>5 DEF Listed
<1>7. CASE items' = items
  BY <1>4, <1>6, <1>7, CaseSame, ItemsOf
<1>8. CASE items' = items \cup {new}
  <2>1. ASSUME NEW r \in Subtask, r # s PROVE CaseOk(r)'
    BY <1>1, <1>3, <1>8, <2>1, CaseGrows
  <2>2. Waits(s)' /\ \A item : Says(item, s)' = Says(item, s)
    <3>1. ASSUME NEW item PROVE Says(item, s)' = Says(item, s) /\ Waits(s)' = Waits(s)
      BY <1>4, CaseKept DEF Waits
    <3> QED
      BY <1>2, <3>1
  <2>3. CaseOk(s)'
    <3>1. ASSUME NEW item \in items', item.id[1] = s PROVE item.id[2] <= sub'[s].rounds + 1
      <4>1. CASE item \in items
        BY <1>1, <3>1, <4>1 DEF CaseOk
      <4>2. CASE item = new
        BY <1>1, <1>2, <1>3, <4>2
      <4> QED
        BY <1>8, <4>1, <4>2
    <3>2. ASSUME NEW item \in items', item.id = NextItem(s) PROVE Says(item, s)
      BY <1>3, <1>8, <3>2 DEF CaseOk
    <3>3. sub'[s].status # "escalated"
      BY <1>1, <1>2 DEF Waits, Unresolved
    <3> QED
      BY <1>4, <2>2, <3>1, <3>2, <3>3 DEF CaseOk
  <2> QED
    BY <1>6, <2>1, <2>3, ItemsOf
<1> QED
  BY <1>1, <1>7, <1>8

\* What a decision taken does to the records.
LEMMA DecisionTouches ==
  ASSUME FrameType, RecordType, NEW item \in items, NEW i \in 1..Len(decisions), TakeDecision(item, i)
  PROVE  /\ items' = items /\ cleaned' = cleaned /\ pc' = pc /\ pc = "drive" /\ Acts
         /\ taken' = taken \cup {item.id} /\ item.id \notin taken
         /\ \/ sub' = sub /\ att' = att
            \/ \E s \in Subtask :
                 /\ item.id = <<s, sub[s].item>> /\ sub[s].status = "escalated"
                 /\ \A r \in Subtask : r # s => sub'[r] = sub[r] /\ att'[r] = att[r]
                 /\ sub'[s].rounds = sub[s].rounds /\ sub'[s].status = "active"
         /\ \/ integration' = integration
            \/ integration' = Reopened(integration)
               /\ \E s \in Subtask : sub[s].status = "escalated"
<1> DEFINE s == item.id[1]
           effect == Effect(item, decisions[i])
<1>1. item.id \in ItemId
  BY DEF FrameType, Item
<1>2. /\ items' = items /\ cleaned' = cleaned /\ pc' = pc /\ pc = "drive" /\ Acts
      /\ taken' = taken \cup {item.id} /\ item.id \notin taken
  BY DEF TakeDecision, Deciding, Untaken, outside
<1>3. CASE sub' = sub /\ att' = att /\ integration' = integration
  BY <1>2, <1>3
<1>4. CASE ~(sub' = sub /\ att' = att /\ integration' = integration)
  <2>1. /\ item.id[2] # 0 /\ sub[s].status = "escalated" /\ sub[s].item = item.id[2]
        /\ integration' = Reopened(integration)
        /\ att' = [att EXCEPT ![s].approved = (effect = "merge"),
                              ![s].spent = (effect # "merge"),
                              ![s].cursor = IF effect = "merge" THEN "decide" ELSE @]
        /\ sub' = [sub EXCEPT ![s].status = "active",
                     ![s].next = IF effect \in Orders THEN att[s].n + 1 ELSE @,
                     ![s].fixNext = (effect = "fix"),
                     ![s].ending = IF effect = "end" THEN "person" ELSE @]
    BY <1>4 DEF TakeDecision
  <2>2. s \in Subtask /\ item.id = <<s, item.id[2]>>
    <3>1. item.id[2] # 0
      BY <2>1
    <3>2. item.id \in Subtask \X Nat
      BY <1>1, <3>1 DEF ItemId
    <3> QED
      BY <3>2
  <2> DEFINE next == IF effect \in Orders THEN att[s].n + 1 ELSE sub[s].next
             fix == (effect = "fix")
             end == IF effect = "end" THEN "person" ELSE sub[s].ending
             x == [sub[s] EXCEPT !.status = "active", !.next = next, !.fixNext = fix, !.ending = end]
  <2>3. sub' = [sub EXCEPT ![s] = x]
    BY <2>1, <2>2 DEF RecordType
  <2>4. \A r \in Subtask : r # s => att'[r] = att[r]
    BY <2>1, <2>2 DEF RecordType
  <2> HIDE DEF next, fix, end
  <2>5. x.rounds = sub[s].rounds /\ x.status = "active"
    BY <2>2 DEF RecordType, SubtaskState
  <2> HIDE DEF x
  <2>6. sub'[s] = x /\ \A r \in Subtask : r # s => sub'[r] = sub[r]
    BY <2>2, <2>3 DEF RecordType
  <2> QED
    BY <1>2, <2>1, <2>2, <2>4, <2>5, <2>6
<1> QED
  BY <1>3, <1>4

LEMMA ItemsStep ==
  ASSUME FrameType, Records, PlacesOk, ItemsOk, FrameType', [Next]_vars
  PROVE  ItemsOk'
<1>0. RecordType /\ Listed /\ \A s \in Subtask : CaseOk(s)
  BY CasesOf DEF Records
<1>1. CASE \E s \in Subtask, scan \in BOOLEAN : List(s, scan)
  BY <1>0, <1>1, ItemsListed
<1>2. CASE ListIntegration
  <2> DEFINE new == [id |-> <<0, 0>>, scan |-> FALSE, does |-> RecordOnly]
  <2>1. sub' = sub /\ att' = att /\ items' = items \cup {new} /\ pc' # "listed" /\ new.id[1] = 0
    BY <1>2 DEF ListIntegration, replayed
  <2> HIDE DEF new
  <2>2. ASSUME NEW s \in Subtask PROVE CaseOk(s)'
    <3>1. new.id[1] # s
      BY <2>1 DEF Subtask
    <3> QED
      BY <1>0, <2>1, <3>1, CaseGrows
  <2> QED
    BY <2>1, <2>2, ItemsOf DEF Listed
<1>3. CASE UNCHANGED <<items, taken, cleaned, integration, sub, att, pc>>
  <2>1. \A s \in Subtask : SameCase(s) /\ NextItem(s)' = NextItem(s) /\ IsCurrent(s)' = IsCurrent(s)
    BY <1>3, UntouchedSame DEF Untouched, NextItem, IsCurrent, Unresolved
  <2>2. Listed' /\ \A s \in Subtask : CaseOk(s)'
    BY <1>0, <1>3, <2>1, CaseSame DEF Listed
  <2> QED
    BY <2>2, ItemsOf
<1>4. ASSUME NEW item \in items, NEW i \in 1..Len(decisions), TakeDecision(item, i)
      PROVE  ItemsOk'
  <2>1. items' = items /\ pc' # "listed"
    BY <1>0, <1>4, DecisionTouches
  <2>2. ASSUME NEW r \in Subtask PROVE CaseOk(r)'
    <3>1. CASE SameCase(r)
      BY <1>0, <2>1, <3>1, CaseSame
    <3>2. CASE sub[r].status = "escalated" /\ sub'[r].rounds = sub[r].rounds /\ sub'[r].status = "active"
      <4>1. ~Waits(r) /\ NextItem(r)' = NextItem(r)
        BY <3>2 DEF Waits, Unresolved, NextItem
      <4> QED
        BY <1>0, <2>1, <3>2, <4>1 DEF CaseOk
    <3> QED
      BY <1>0, <1>4, <3>1, <3>2, DecisionTouches DEF SameCase
  <2> QED
    BY <2>1, <2>2, ItemsOf DEF Listed
<1>5. CASE items' = items /\ pc' # "listed"
  <2>1. ASSUME NEW s \in Subtask, Touches(s) PROVE ItemsOk'
    <3>1. ASSUME NEW r \in Subtask PROVE CaseOk(r)'
      <4>1. r # s => SameCase(r)
        BY <2>1 DEF Touches, SameCase
      <4> QED
        BY <1>0, <1>5, <2>1, <4>1, CaseSame, CaseTouched
    <3> QED
      BY <1>5, <3>1, ItemsOf DEF Listed
  <2>2. ASSUME NEW s \in Subtask, RecordEscalated(s), ~Raise PROVE ItemsOk'
    <3>1. CaseOk(s)' /\ att' = att /\ \A r \in Subtask : r # s => sub'[r] = sub[r]
      BY <1>0, <2>2, CaseEscalated
    <3>2. ASSUME NEW r \in Subtask PROVE CaseOk(r)'
      <4>1. r # s => SameCase(r)
        BY <3>1 DEF SameCase
      <4> QED
        BY <1>0, <1>5, <3>1, <4>1, CaseSame
    <3> QED
      BY <1>5, <3>2, ItemsOf DEF Listed
  <2>3. CASE Untouched
    BY <1>0, <1>5, <2>3, CaseSame, ItemsOf DEF Untouched, Listed
  <2> QED
    BY <1>4, <2>1, <2>2, <2>3, TouchStep
<1> QED
  <2>1. ASSUME Finish \/ \E verdict \in {"pass", "fail"} : Integrate(verdict)
        PROVE  items' = items /\ pc' # "listed"
    BY <2>1 DEF Finish, Integrate, outside
  <2> QED
    BY <1>1, <1>2, <1>3, <1>4, <1>5, <2>1, AsideStep DEF Aside

-----------------------------------------------------------------------------
(* The decisions taken, the worktrees, the integration call.               *)

LEMMA TakenStep ==
  ASSUME FrameType, RecordType, TakenOk, [Next]_vars PROVE TakenOk'
<1>1. CASE \E item \in items, i \in 1..Len(decisions) : TakeDecision(item, i)
  BY <1>1, DecisionTouches DEF TakenOk
<1>2. CASE taken' = taken /\ items \subseteq items'
  BY <1>2 DEF TakenOk
<1>3. ASSUME \/ Finish \/ ListIntegration
             \/ \E verdict \in {"pass", "fail"} : Integrate(verdict)
             \/ \E s \in Subtask, scan \in BOOLEAN : List(s, scan)
      PROVE  taken' = taken /\ items \subseteq items'
  BY <1>3 DEF Finish, ListIntegration, Integrate, List, replayed, outside
<1> QED
  BY <1>1, <1>2, <1>3, AsideStep DEF Aside

\* A step on the records leaves a subtask that is over, or waits, as it is.
LEMMA StatusKept ==
  ASSUME FrameType, Records, PlacesOk, ItemsOk, [Next]_vars, NEW s \in Subtask, ~Unresolved(s)
  PROVE  \/ sub'[s].status = sub[s].status /\ sub'[s].item = sub[s].item
         \/ /\ sub[s].status = "escalated" /\ Acts
            /\ \E item \in items, i \in 1..Len(decisions) : TakeDecision(item, i)
            /\ <<s, sub[s].item>> \notin taken
<1>0. RecordType /\ Listed /\ \A r \in Subtask : CaseOk(r)
  BY CasesOf DEF Records
<1>1. CASE Untouched
  BY <1>1 DEF Untouched, SameCase
<1>2. ASSUME NEW r \in Subtask, Touches(r) PROVE sub'[s] = sub[s]
  BY <1>2 DEF Touches
<1>3. ASSUME NEW r \in Subtask, RecordEscalated(r), ~Raise PROVE sub'[s] = sub[s]
  BY <1>0, <1>3, CaseEscalated
<1>4. CASE \E item \in items, i \in 1..Len(decisions) : TakeDecision(item, i)
  BY <1>0, <1>4, DecisionTouches
<1> QED
  BY <1>1, <1>2, <1>3, <1>4, TouchStep

LEMMA CleanedStep ==
  ASSUME FrameType, Records, PlacesOk, ItemsOk, CleanedOk, [Next]_vars
  PROVE  CleanedOk'
<1>0. RecordType
  BY DEF Records
<1>1. taken \subseteq taken'
  <2>1. CASE \E item \in items, i \in 1..Len(decisions) : TakeDecision(item, i)
    BY <1>0, <2>1, DecisionTouches
  <2>2. ASSUME \/ Finish \/ ListIntegration
               \/ \E verdict \in {"pass", "fail"} : Integrate(verdict)
               \/ \E s \in Subtask, scan \in BOOLEAN : List(s, scan)
        PROVE  taken' = taken
    BY <2>2 DEF Finish, ListIntegration, Integrate, List, replayed
  <2> QED
    BY <2>1, <2>2, AsideStep DEF Aside
<1>2. ASSUME NEW s \in Subtask, Left(s) PROVE Left(s)'
  <2>1. ~Unresolved(s)
    BY <1>2 DEF Left, Unresolved
  <2> QED
    BY <1>1, <1>2, <2>1, StatusKept DEF Left
<1>3. CASE Finish
  <2>1. ASSUME NEW s \in Subtask, Removable(s) PROVE Left(s)
    BY <2>1 DEF Removable, Resolved, Left
  <2>2. cleaned' = cleaned \cup {s \in Subtask : Removable(s)}
    BY <1>3 DEF Finish
  <2> QED
    BY <1>2, <2>1, <2>2 DEF CleanedOk, FrameType
<1>4. CASE cleaned' = cleaned
  BY <1>2, <1>4 DEF CleanedOk, FrameType
<1>5. CASE \E item \in items, i \in 1..Len(decisions) : TakeDecision(item, i)
  BY <1>0, <1>4, <1>5, DecisionTouches
<1>6. ASSUME \/ ListIntegration
             \/ \E verdict \in {"pass", "fail"} : Integrate(verdict)
             \/ \E s \in Subtask, scan \in BOOLEAN : List(s, scan)
      PROVE  cleaned' = cleaned
  BY <1>6 DEF ListIntegration, Integrate, List, replayed
<1> QED
  BY <1>3, <1>4, <1>5, <1>6, AsideStep DEF Aside

LEMMA DesignStep ==
  ASSUME FrameType, Records, PlacesOk, ItemsOk, DesignOk, [Next]_vars
  PROVE  DesignOk'
<1>0. RecordType
  BY DEF Records
<1>1. CASE integration' = integration
  <2>1. ASSUME integration \in {"pass", "fail"}, NEW s \in Subtask PROVE sub'[s].status = "done"
    <3>1. sub[s].status = "done"
      BY <2>1 DEF DesignOk
    <3> QED
      BY <3>1, StatusKept DEF Unresolved
  <2> QED
    BY <1>1, <2>1 DEF DesignOk
<1>2. CASE \E verdict \in {"pass", "fail"} : Integrate(verdict)
  <2>1. /\ integration' \in {"off", "incomplete"} \/ \A s \in Subtask : sub[s].status = "done"
        /\ sub' = sub
    BY <1>2 DEF Integrate
  <2> QED
    BY <2>1 DEF DesignOk
<1>3. ASSUME NEW item \in items, NEW i \in 1..Len(decisions), TakeDecision(item, i)
      PROVE  DesignOk'
  <2>1. CASE integration' = Reopened(integration) /\ \E s \in Subtask : sub[s].status = "escalated"
    <3>1. integration \notin {"pass", "fail"}
      BY <2>1 DEF DesignOk
    <3> QED
      BY <2>1, <3>1 DEF DesignOk, Reopened
  <2> QED
    BY <1>0, <1>1, <1>3, <2>1, DecisionTouches
<1>4. ASSUME Finish \/ ListIntegration \/ \E s \in Subtask, scan \in BOOLEAN : List(s, scan)
      PROVE  integration' = integration
  BY <1>4 DEF Finish, ListIntegration, List, replayed
<1> QED
  BY <1>1, <1>2, <1>3, <1>4, AsideStep DEF Aside

-----------------------------------------------------------------------------
(* The invariant, and what follows from it.                                *)

LEMMA LoopInit == Init => LoopInv
<1> SUFFICES ASSUME Init PROVE LoopInv
  OBVIOUS
<1> USE LoopAssumption DEF Init
<1>1. RecordType
  BY DEF RecordType, Planned, Fresh, SubtaskState, Attempt
<1>2. /\ \A s \in Subtask : sub[s] = Planned /\ att[s] = Fresh(0, FALSE)
      /\ pc = "down" /\ Len(journal) = 0 /\ Len(branch) = 0
  OBVIOUS
<1>3. FrameType
  <2>1. ledger \in [Subtask -> LedgerLine]
    BY DEF LedgerLine, NoResults
  <2>2. pc \in Pc
    BY DEF Pc
  <2>3. /\ journal \in Seq(JournalLine) /\ branch \in Seq(Subtask \X Nat)
        /\ decisions \in Seq(Decision)
    OBVIOUS
  <2>4. /\ items \subseteq Item /\ exposed \subseteq Subtask /\ cleaned \subseteq Subtask
        /\ head \in Nat /\ recorded \in Nat /\ integEsc \in BOOLEAN
        /\ halted = "no" /\ integration = "none" /\ why = "no" /\ known = Shut
    OBVIOUS
  <2>5. MaxKills \in Nat /\ MaxInfra \in Nat
    OBVIOUS
  <2>6. kills \in 0..MaxKills /\ failures \in 0..MaxInfra
    BY <2>5
  <2> QED
    BY <2>1, <2>2, <2>3, <2>4, <2>6 DEF FrameType
<1>4. RecordOk(Planned, Fresh(0, FALSE)) /\ StagesInOrder(Fresh(0, FALSE))
  BY DEF RecordOk, StagesInOrder, Planned, Fresh, Ended, Completed, Cleared, GateLets
<1>5. RecordsOk /\ StagesOk
  BY <1>2, <1>4 DEF RecordsOk, StagesOk
<1>6. PlacesOk
  BY <1>2 DEF PlacesOk, PlaceOk, Judged, Merged
<1>7. JournalOk
  BY <1>2 DEF JournalOk, Unaccounted, WriteOnce, Clear, Shut
<1>8. AppliedOk
  BY <1>2 DEF AppliedOk, Fresh
<1>9. BranchOk
  BY <1>2 DEF BranchOk, Fresh
<1>10. ItemsOk
  BY <1>2 DEF ItemsOk, ShownAsGiven, Planned
<1> QED
  BY <1>1, <1>3, <1>5, <1>6, <1>7, <1>8, <1>9, <1>10
  DEF LoopInv, TakenOk, CleanedOk, DesignOk

LEMMA LoopStep == LoopInv /\ [Next]_vars => LoopInv'
<1> SUFFICES ASSUME LoopInv, [Next]_vars PROVE LoopInv'
  OBVIOUS
<1>1. /\ FrameType /\ Records /\ RecordType /\ PlacesOk /\ Journals /\ JournalOk /\ AppliedOk
      /\ BranchOk /\ ItemsOk /\ TakenOk /\ CleanedOk /\ DesignOk
  BY DEF LoopInv, Records, Journals
<1>2. RecordType' /\ RecordsOk' /\ StagesOk'
  BY <1>1, RecordsStep DEF Recorded
<1>3. FrameType'
  BY <1>1, FrameStep
<1>4. PlacesOk'
  BY <1>1, PlacesStep
<1>5. JournalOk' /\ AppliedOk'
  BY <1>1, JournalsStep DEF Journals
<1>6. BranchOk'
  BY <1>1, BranchStep
<1>7. ItemsOk' /\ TakenOk' /\ CleanedOk' /\ DesignOk'
  BY <1>1, <1>3, ItemsStep, TakenStep, CleanedStep, DesignStep
<1> QED
  BY <1>2, <1>3, <1>4, <1>5, <1>6, <1>7 DEF LoopInv

\* What a run stands on: the records of the attempts, the stage the process is at, and
\* the store lines and merges these account for, whatever was killed in between
\* (loop.py, replay.py).
THEOREM RunStandsOn == Spec => []LoopInv
BY LoopInit, LoopStep, PTL DEF Spec

LEMMA TypesHold == LoopInv => TypeOK
<1> SUFFICES ASSUME LoopInv PROVE TypeOK
  OBVIOUS
<1>1. FrameType /\ RecordType /\ JournalOk /\ BranchOk /\ TakenOk
  BY DEF LoopInv
<1>2. /\ head \in 0..Len(journal) /\ known \in {Shut} \cup 0..Len(journal)
      /\ recorded \in 0..Len(branch)
  BY <1>1 DEF FrameType, JournalOk, BranchOk, Shut
<1>3. \A i \in 1..Len(journal) : journal[i].s \in 0..N
  <2> SUFFICES ASSUME NEW i \in 1..Len(journal) PROVE journal[i].s \in 0..N
    OBVIOUS
  <2>1. journal \in Seq(JournalLine)
    BY <1>1 DEF FrameType
  <2>2. journal[i] \in JournalLine
    BY <2>1
  <2> QED
    BY <2>2 DEF JournalLine
<1> QED
  BY <1>1, <1>2, <1>3 DEF TypeOK, FrameType, RecordType, LedgerLine, Cause, TakenOk

\* Every variable has its type; the accounted head never passes the journal, nor the
\* last recorded merge the branch, nor does a taken decision name an item the queue
\* never held (loop.py, replay.py).
THEOREM RunTyped == Spec => []TypeOK
BY RunStandsOn, TypesHold, PTL

\* No proposal is written into the store twice, however often the run is killed
\* between an intent, its write and the record of it (_journal_clean, _apply).
THEOREM WritesOnce == Spec => []WriteOnce
<1>1. LoopInv => WriteOnce
  BY DEF LoopInv, JournalOk
<1> QED
  BY <1>1, RunStandsOn, PTL

LEMMA ForeignStays == LoopInv => ForeignNeverAccounted
<1> SUFFICES ASSUME LoopInv, NEW i \in 1..head PROVE Own(journal[i])
  BY DEF ForeignNeverAccounted
<1>1. AccountedFor(journal[i])
  BY DEF LoopInv, JournalOk
<1> QED
  BY <1>1 DEF AccountedFor, Own, NotOurs, Subtask

\* A store line that is not the run's is never accounted for, so every later journal
\* check meets it, whatever else lies past the head (_journal_clean).
THEOREM ForeignLinesMet == Spec => []ForeignNeverAccounted
BY RunStandsOn, ForeignStays, PTL

LEMMA OverridesHold == LoopInv => OverridesReviewOnly
<1> SUFFICES ASSUME LoopInv, NEW s \in Subtask, att[s].merged
             PROVE  /\ att[s].session = "read" /\ att[s].changes = "ok"
                    /\ att[s].gate \in AllowedGate
                    /\ att[s].review # "pass" => att[s].approved /\ ~sub[s].indicator
  BY DEF OverridesReviewOnly
<1>1. RecordOk(sub[s], att[s]) /\ StagesInOrder(att[s]) /\ att[s] \in Attempt
  BY DEF LoopInv, RecordsOk, StagesOk, RecordType
<1>2. Cleared(att[s]) /\ (att[s].review = "pass" \/ att[s].approved)
      /\ (att[s].approved => ~sub[s].indicator)
  BY <1>1 DEF RecordOk
<1>3. att[s].gate \in AllowedGate
  BY <1>1, <1>2, LoopAssumption DEF AllowedGate, Cleared, GateLets, StagesInOrder
<1> QED
  BY <1>2, <1>3 DEF Cleared

\* What is merged passed the reading check, the change check and the gate of the run's
\* mode; an approve overrides the reviewer alone, and never a confirmed indicator
\* (item_consequence, require_mergeable).
THEOREM OverridesOnlyReviews == Spec => []OverridesReviewOnly
BY RunStandsOn, OverridesHold, PTL

LEMMA WorktreesHold == LoopInv => WorktreeKept
BY DEF LoopInv, CleanedOk, FrameType, Left, WorktreeKept, Unresolved

\* A worktree is removed only where no attempt can run in it again: a decision still to
\* be taken keeps it (_clean_up_worktrees, _take).
THEOREM WorktreesKept == Spec => []WorktreeKept
BY RunStandsOn, WorktreesHold, PTL

LEMMA DesignHolds == LoopInv => WholeDesign
<1> SUFFICES ASSUME LoopInv, integration \in {"pass", "fail"}, NEW s \in Subtask
             PROVE  /\ sub[s].status = "done"
                    /\ \E i \in 1..Len(branch) : /\ branch[i] = Commit(s)
                                                 /\ \A j \in 1..Len(branch) : branch[j][1] = s => j = i
                    /\ \A k \in 1..Proposals : \E i \in 1..Len(journal) : journal[i] = Write(s, k)
  BY DEF WholeDesign
<1>1. FrameType /\ RecordType /\ RecordsOk /\ AppliedOk /\ BranchOk /\ DesignOk
  BY DEF LoopInv
<1>2. \A r \in Subtask : sub[r].status = "done" /\ att[r].merged
  BY <1>1 DEF DesignOk, RecordsOk, RecordOk
<1>3. att[s].applied = Proposals
  BY <1>1, <1>2 DEF RecordsOk, RecordOk
<1>4. \A k \in 1..Proposals : \E i \in 1..Len(journal) : journal[i] = Write(s, k)
  BY <1>1, <1>3, LoopAssumption DEF AppliedOk
<1>5. PICK i \in 1..recorded : branch[i] = Commit(s)
  BY <1>1, <1>2 DEF BranchOk
<1>6. recorded \in Nat /\ Len(branch) \in {recorded, recorded + 1}
      /\ branch \in Seq(Subtask \X Nat)
  BY <1>1 DEF FrameType, BranchOk
<1>7. branch[i][1] = s
  BY <1>5 DEF Commit
<1>8. ASSUME NEW j \in 1..Len(branch), branch[j][1] = s PROVE j = i
  <2>1. CASE j \in 1..recorded
    BY <1>1, <1>7, <1>8, <2>1 DEF BranchOk
  <2>2. CASE j = recorded + 1 /\ Len(branch) = recorded + 1
    <3>1. ~att[branch[recorded + 1][1]].merged
      BY <1>1, <2>2 DEF BranchOk
    <3> QED
      BY <1>2, <1>8, <2>2, <3>1
  <2> QED
    BY <1>6, <2>1, <2>2
<1> QED
  BY <1>2, <1>4, <1>5, <1>6, <1>8

\* The gate's verdict on the whole design is over every subtask done, its commit on the
\* run branch once and every node it proposed in the store, through any number of kills
\* (_integrate, merge, _apply).
THEOREM VerdictOnWholeDesign == Spec => []WholeDesign
BY RunStandsOn, DesignHolds, PTL

-----------------------------------------------------------------------------
(* Why no line the loop tries is refused. It holds where decisions that    *)
(* act are combined neither with kills nor with a gate that is off, and    *)
(* kills not with a merge that may be divergent.                           *)

Accepting == /\ MaxKills = 0 \/ (~Acts /\ ~Diverges)
             /\ Acts => GateMode # "off"

\* What an attempt's outcomes entitle it and its subtask to.
FateOk(x, a, line) ==
  /\ a.gate # "none" => line.gate = a.gate
  /\ a.review # "none" => line.review = a.review
  /\ a.approved => line.person = "approve" /\ Acts /\ a.routed = "yes"
  /\ a.approved /\ ~a.merged => a.cursor = "decide"
  /\ x.fixUsed = a.fix
  /\ a.n # 0 /\ x.next = a.n + 1 => ~a.fix /\ (a.n < Budget \/ x.fixNext) /\ (a.spent \/ a.routed = "no")
  /\ a.spent => a.routed = "yes"
  /\ a.routed # "none" => Ended(a)
  /\ x.status = "active" /\ Ended(a) /\ a.routed = "no" => x.next = a.n + 1
  /\ x.status = "active" /\ a.spent => x.next = a.n + 1 \/ x.ending # "no"
  /\ x.status = "active" /\ a.fix /\ Ended(a) => x.ending # "no" \/ a.routed = "yes"
  /\ Ended(a) /\ a.routed = "none" => a.cursor \in {"decide", "review"}
  /\ x.status = "escalated" => x.next = 0
  /\ a.pending => /\ x.status = "active" /\ a.cursor = "decide" /\ ~a.merged
                  /\ Cleared(a) /\ (a.review = "pass" \/ a.approved)
  /\ a.diff # "none" => a.merged
  /\ Completed(a) => a.cursor # "none"
  /\ x.status = "active" /\ a.cursor = "none" => x.next = a.n

\* An attempt that the loop can go on with from its next step.
Parked(x, a) ==
  /\ ~Ended(a) /\ ~a.merged /\ Completed(a) => a.cursor = "spawn"
  /\ a.merged => a.cursor = "decide" /\ a.diff = "none"
  /\ ~Ended(a) /\ ~a.merged /\ a.session = "none" => x.next = a.n

\* Where an attempt stands at the process's next step.
StandOk(p, a) ==
  /\ p = "session" => a.cursor = "resolve" /\ a.session = "none"
  /\ p = "running" => a.cursor = "spawn" /\ a.session = "none"
  /\ p \in {"checkSession", "holdSession"} => a.cursor = "spawn" /\ Completed(a)
  /\ p = "judge" => /\ a.cursor \in {"spawn", "verify_reading", "implement", "gate", "review"}
                    /\ Completed(a)
  /\ p = "reject" => a.cursor = "decide" /\ Rejectable(a)
  /\ p \in Merged \cup {"diff"} => a.cursor = "decide"
  /\ p = "diffing" => a.cursor = "diff"
  /\ p \in {"diff", "diffing"} => a.diff = "none"
  /\ p \in {"write", "written"} => a.pending

FatesOk == \A s \in Subtask : FateOk(sub[s], att[s], ledger[s])
OthersOk == \A s \in Subtask : Active(s) /\ ~IsCurrent(s) => Parked(sub[s], att[s])
StandsOk == \A s \in Subtask : IsCurrent(s) => StandOk(pc, att[s])

NoPending == \A s \in Subtask : ~att[s].pending
AllParked == \A s \in Subtask : IsCurrent(s) /\ Active(s) => Parked(sub[s], att[s])
AllSound == \A s \in Subtask : IsCurrent(s) /\ Active(s) => MidAttempt(s) \/ Parked(sub[s], att[s])

\* The next line to account for is not the run's: no check passes it.
Spoilt == head < Len(journal) /\ ~Own(journal[head + 1])

Driven == {"session", "running", "checkSession", "holdSession", "judge", "reject", "listed",
           "merge", "apply", "git", "merged", "diff", "diffing"}
Stepping == Driven \cup {"integItem"}
Writing == {"write", "written"}
Between == pc = "drive" /\ halted = "no"

\* What the log says of a run that goes on, at each step of the process.
HaltedOk ==
  /\ (\E s \in Subtask : Unresolved(s)) => integration = "none"
  /\ integration = "off" => GateMode = "off"
  /\ pc \in Stepping \cup Writing \cup {"checkRun", "holdRun"} => halted = "no"
  /\ pc \in {"checkResume", "holdResume", "checkBranch"} => halted \in Resumable
  /\ halted = "infra" => \A s \in Subtask : FirstActive(s) => IsCurrent(s) /\ Failed(att[s])
  /\ pc = "ending" => halted # "no" \/ NoneLeft

\* The store handle is behind nothing that the run accounts for.
KnownOk ==
  /\ pc \in {"checkRun", "checkResume", "holdRun", "holdResume"} => known = Shut
  /\ pc \in Stepping \cup {"checkBranch", "write"} \/ Between => known >= head
  /\ pc = "written" => known > head

\* An intent is pending for the write in progress, or for the attempt a resume takes
\* over, unless a line that is not the run's stops every process before it.
PendingOk ==
  /\ pc \in Stepping \cup {"holdRun"} \/ Between \/ halted = "infra" => NoPending
  /\ pc = "checkRun" => Spoilt \/ NoPending
  /\ \A s \in Subtask : att[s].pending =>
       \/ Spoilt
       \/ IsCurrent(s) /\ (MidAttempt(s) \/ pc \in Writing)
  /\ pc \in Writing \cup {"holdResume", "checkBranch"} =>
       \A s \in Subtask : att[s].pending => IsCurrent(s) /\ (MidAttempt(s) \/ pc \in Writing)

\* Between two attempts the loop can go on with the one it would drive next.
ParkedOk ==
  /\ pc \in {"holdRun", "integItem"} \/ Between => AllParked
  /\ pc = "checkRun" => Spoilt \/ AllParked
  /\ pc \in {"down", "checkResume"} /\ halted = "no" => Spoilt \/ AllSound
  /\ pc \in {"holdResume", "checkBranch"} /\ halted = "no" => AllSound
  /\ \A s \in Subtask : sub[s].status = "active" /\ att[s].diff # "none" =>
       \/ Spoilt
       \/ MaxKills = 0 /\ (pc = "halting" \/ halted \notin Resumable)

AcceptInv == /\ FatesOk /\ OthersOk /\ StandsOk /\ HaltedOk /\ KnownOk /\ PendingOk /\ ParkedOk
             /\ NeverRefused

\* What is known of the subtask that is driven.
LEMMA AtCurrent ==
  ASSUME LoopInv, AcceptInv, NEW s \in Subtask, IsCurrent(s)
  PROVE  /\ sub[s] \in SubtaskState /\ att[s] \in Attempt /\ ledger[s] \in LedgerLine
         /\ RecordOk(sub[s], att[s]) /\ StagesInOrder(att[s]) /\ PlaceOk(pc, sub[s], att[s])
         /\ FateOk(sub[s], att[s], ledger[s]) /\ StandOk(pc, att[s])
         /\ Unresolved(s) /\ integration = "none"
<1>1. /\ RecordType /\ FrameType /\ RecordsOk /\ StagesOk /\ PlacesOk
      /\ FatesOk /\ StandsOk /\ HaltedOk
  BY DEF LoopInv, AcceptInv
<1>2. Unresolved(s)
  BY CurrentUnresolved
<1> QED
  BY <1>1, <1>2, AtPlace DEF RecordType, FrameType, RecordsOk, StagesOk, FatesOk, StandsOk, HaltedOk

\* While an attempt is driven, nothing halts its run and no intent is pending.
LEMMA AtDriven ==
  ASSUME LoopInv, AcceptInv, NEW s \in Subtask, IsCurrent(s), pc \in Driven \/ Between
  PROVE  /\ halted = "no" /\ LineMayFollow /\ NoPending /\ known >= head
         /\ sub[s].status = "active" => Active(s) /\ att[s].n # 0
<1>1. HaltedOk /\ KnownOk /\ PendingOk
  BY DEF AcceptInv
<1>2. halted = "no" /\ NoPending /\ known >= head
  BY <1>1 DEF HaltedOk, KnownOk, PendingOk, Stepping, Between
<1>3. integration = "none" /\ RecordOk(sub[s], att[s])
  BY AtCurrent
<1> QED
  BY <1>2, <1>3 DEF LineMayFollow, RecordOk, Active

\* A line that is not the run's stays where it is.
LEMMA SpoiltSame ==
  ASSUME Spoilt, UNCHANGED <<head, journal>> PROVE Spoilt'
BY DEF Spoilt, Own, NotOurs

\* A step on one subtask.
MovesAlone(s) ==
  /\ UNCHANGED <<halted, integration, head, known, journal>>
  /\ \A r \in Subtask : r # s => sub'[r] = sub[r] /\ att'[r] = att[r] /\ ledger'[r] = ledger[r]

\* The step of a process that drives the current subtask on.
Advances(s) ==
  /\ IsCurrent(s) /\ (pc \in Driven \/ Between) /\ MovesAlone(s)
  /\ FateOk(sub'[s], att'[s], ledger'[s])
  /\ sub'[s].status = "active" /\ ~att'[s].pending
  /\ \/ att'[s].diff = "none" \/ Spoilt \/ (MaxKills = 0 /\ pc' = "halting")
     \/ att'[s].diff = att[s].diff /\ sub[s].status = "active"
  /\ pc' \in Driven \cup {"drive", "halting"}
  /\ StandOk(pc', att'[s]) /\ (pc' = "drive" => Parked(sub'[s], att'[s]))

LEMMA AdvanceAccepts ==
  ASSUME LoopInv, AcceptInv, NEW s \in Subtask, Advances(s) PROVE AcceptInv'
<1>1. /\ FatesOk /\ OthersOk /\ HaltedOk /\ KnownOk /\ PendingOk /\ ParkedOk
  BY DEF AcceptInv
<1>2. /\ IsCurrent(s) /\ Unresolved(s) /\ halted = "no" /\ integration = "none"
      /\ NoPending /\ known >= head /\ (pc \in Driven \/ Between)
  BY AtCurrent, AtDriven DEF Advances
<1>3. /\ UNCHANGED <<halted, integration, head, known, journal>>
      /\ \A r \in Subtask : r # s => sub'[r] = sub[r] /\ att'[r] = att[r] /\ ledger'[r] = ledger[r]
      /\ FateOk(sub'[s], att'[s], ledger'[s])
      /\ sub'[s].status = "active" /\ ~att'[s].pending
      /\ \/ att'[s].diff = "none" \/ Spoilt \/ (MaxKills = 0 /\ pc' = "halting")
         \/ att'[s].diff = att[s].diff /\ sub[s].status = "active"
      /\ pc' \in Driven \cup {"drive", "halting"}
      /\ StandOk(pc', att'[s]) /\ (pc' = "drive" => Parked(sub'[s], att'[s]))
  BY DEF Advances, MovesAlone
<1>4. \A r \in Subtask : Unresolved(r)' = Unresolved(r)
  BY <1>2, <1>3 DEF Unresolved
<1>5. ASSUME NEW r \in Subtask PROVE IsCurrent(r)' = IsCurrent(r)
  <2>1. \A q \in 1 .. r - 1 : q \in Subtask
    BY LoopAssumption DEF Subtask
  <2> QED
    BY <1>4, <2>1 DEF IsCurrent
<1>6. \A r \in Subtask : IsCurrent(r)' => r = s
  BY <1>2, <1>5, OneCurrent
<1>7. FatesOk'
  BY <1>1, <1>3 DEF FatesOk
<1>8. OthersOk'
  BY <1>1, <1>2, <1>3, <1>5 DEF OthersOk, Active
<1>9. StandsOk'
  BY <1>3, <1>6 DEF StandsOk
<1>10. HaltedOk'
  BY <1>1, <1>2, <1>3 DEF HaltedOk, Driven
<1>11. KnownOk'
  BY <1>2, <1>3 DEF KnownOk, Driven
<1>12. NoPending'
  BY <1>2, <1>3 DEF NoPending
<1>13. PendingOk'
  BY <1>3, <1>12 DEF PendingOk, NoPending
<1>14. ASSUME NEW r \in Subtask, sub'[r].status = "active", att'[r].diff # "none"
       PROVE  Spoilt' \/ (MaxKills = 0 /\ pc' = "halting")
  <2>1. CASE Spoilt \/ (MaxKills = 0 /\ pc' = "halting")
    BY <1>3, <2>1, SpoiltSame
  <2>2. CASE sub[r].status = "active" /\ att[r].diff # "none"
    BY <1>1, <1>2, <1>3, <2>2, SpoiltSame DEF ParkedOk, Driven, Between, Resumable
  <2> QED
    BY <1>3, <1>14, <2>1, <2>2
<1>15. ParkedOk'
  <2>1. (Between' => AllParked') /\ pc' \notin {"holdRun", "integItem", "checkRun", "down", "checkResume",
                                               "holdResume", "checkBranch"}
    BY <1>3, <1>6 DEF AllParked, Driven, Between
  <2> QED
    BY <1>14, <2>1 DEF ParkedOk
<1>16. NeverRefused'
  BY <1>3 DEF NeverRefused, Driven
<1> QED
  BY <1>7, <1>8, <1>9, <1>10, <1>11, <1>13, <1>15, <1>16 DEF AcceptInv

\* The step of a process that leaves the current subtask resolved.
Resolves(s) ==
  /\ IsCurrent(s) /\ (pc \in Driven \/ Between) /\ MovesAlone(s)
  /\ FateOk(sub'[s], att'[s], ledger'[s])
  /\ sub'[s].status \notin {"planned", "active"} /\ ~att'[s].pending
  /\ pc' = "drive"

LEMMA ResolveAccepts ==
  ASSUME LoopInv, AcceptInv, NEW s \in Subtask, Resolves(s) PROVE AcceptInv'
<1>1. /\ FatesOk /\ OthersOk /\ HaltedOk /\ KnownOk /\ PendingOk /\ ParkedOk
  BY DEF AcceptInv
<1>2. /\ IsCurrent(s) /\ Unresolved(s) /\ halted = "no" /\ integration = "none"
      /\ NoPending /\ known >= head /\ (pc \in Driven \/ Between)
  BY AtCurrent, AtDriven DEF Resolves
<1>3. /\ UNCHANGED <<halted, integration, head, known, journal>>
      /\ \A r \in Subtask : r # s => sub'[r] = sub[r] /\ att'[r] = att[r] /\ ledger'[r] = ledger[r]
      /\ FateOk(sub'[s], att'[s], ledger'[s])
      /\ sub'[s].status \notin {"planned", "active"} /\ ~att'[s].pending
      /\ pc' = "drive"
  BY DEF Resolves, MovesAlone
<1>4. FatesOk'
  BY <1>1, <1>3 DEF FatesOk
<1>5. ASSUME NEW r \in Subtask, Active(r)' PROVE Parked(sub[r], att[r])'
  <2>1. r # s /\ Active(r)
    BY <1>3, <1>5 DEF Active
  <2>2. ~IsCurrent(r)
    BY <1>2, <2>1, OneCurrent
  <2> QED
    BY <1>1, <1>3, <2>1, <2>2 DEF OthersOk
<1>6. OthersOk' /\ AllParked'
  BY <1>5 DEF OthersOk, AllParked
<1>7. StandsOk'
  BY <1>3 DEF StandsOk, StandOk, Merged
<1>8. HaltedOk'
  BY <1>1, <1>2, <1>3 DEF HaltedOk, Stepping, Driven, Writing
<1>9. KnownOk'
  BY <1>2, <1>3 DEF KnownOk
<1>10. NoPending'
  BY <1>2, <1>3 DEF NoPending
<1>11. PendingOk'
  BY <1>3, <1>10 DEF PendingOk, NoPending
<1>12. ASSUME NEW r \in Subtask, sub'[r].status = "active", att'[r].diff # "none" PROVE Spoilt'
  BY <1>1, <1>2, <1>3, <1>12, SpoiltSame DEF ParkedOk, Driven, Between, Resumable
<1>13. ParkedOk'
  BY <1>3, <1>6, <1>12 DEF ParkedOk
<1>14. NeverRefused'
  BY <1>3 DEF NeverRefused
<1> QED
  BY <1>4, <1>6, <1>7, <1>8, <1>9, <1>11, <1>13, <1>14 DEF AcceptInv

\* Nothing of a subtask changes in a step that leaves the records alone.
LEMMA RecordsRest ==
  ASSUME NEW s \in Subtask, sub' = sub, att' = att
  PROVE  /\ IsCurrent(s)' = IsCurrent(s) /\ Unresolved(s)' = Unresolved(s)
         /\ Active(s)' = Active(s) /\ Parked(sub[s], att[s])' = Parked(sub[s], att[s])
         /\ MidAttempt(s)' = MidAttempt(s) /\ FirstActive(s)' = FirstActive(s)
         /\ Step(s)' = Step(s)
BY DEF IsCurrent, Unresolved, Active, MidAttempt, FirstActive, Ended, Failed, Step

\* A step to where a process halts or ends.
Rests ==
  /\ UNCHANGED <<sub, att, ledger, halted, integration, head>>
  /\ Spoilt => Spoilt'
  /\ pc' \in {"halting", "haltingOpen", "ending"}
  /\ pc' = "ending" => halted # "no" \/ NoneLeft
  /\ pc = "halting" => pc' = "halting"
  /\ pc \in Writing => Spoilt'

LEMMA RestAccepts ==
  ASSUME LoopInv, AcceptInv, Rests PROVE AcceptInv'
<1>1. /\ FatesOk /\ OthersOk /\ HaltedOk /\ KnownOk /\ PendingOk /\ ParkedOk
  BY DEF AcceptInv
<1>2. /\ UNCHANGED <<sub, att, ledger, halted, integration, head>>
      /\ Spoilt => Spoilt'
      /\ pc' \in {"halting", "haltingOpen", "ending"}
      /\ pc' = "ending" => halted # "no" \/ NoneLeft
      /\ pc = "halting" => pc' = "halting"
      /\ pc \in Writing => Spoilt'
  BY DEF Rests
<1>3. \A r \in Subtask : /\ IsCurrent(r)' = IsCurrent(r) /\ Unresolved(r)' = Unresolved(r)
                         /\ Active(r)' = Active(r) /\ MidAttempt(r)' = MidAttempt(r)
                         /\ FirstActive(r)' = FirstActive(r)
  BY <1>2, RecordsRest
<1>4. FatesOk' /\ OthersOk'
  BY <1>1, <1>2, <1>3 DEF FatesOk, OthersOk
<1>5. StandsOk'
  BY <1>2 DEF StandsOk, StandOk, Merged
<1>6. HaltedOk'
  BY <1>1, <1>2, <1>3 DEF HaltedOk, Stepping, Driven, Writing, NoneLeft
<1>7. KnownOk'
  BY <1>2 DEF KnownOk, Stepping, Driven, Between
<1>8. PendingOk'
  <2>1. halted' = "infra" => NoPending'
    BY <1>1, <1>2 DEF PendingOk, NoPending
  <2>2. ASSUME NEW r \in Subtask, att'[r].pending
        PROVE  Spoilt' \/ (IsCurrent(r)' /\ MidAttempt(r)')
    BY <1>1, <1>2, <1>3, <2>2 DEF PendingOk
  <2> QED
    BY <1>2, <2>1, <2>2 DEF PendingOk, Stepping, Driven, Writing, Between
<1>9. ParkedOk'
  <2>1. ASSUME NEW r \in Subtask, sub'[r].status = "active", att'[r].diff # "none"
        PROVE  Spoilt' \/ (MaxKills = 0 /\ (pc' = "halting" \/ halted' \notin Resumable))
    BY <1>1, <1>2, <2>1 DEF ParkedOk
  <2> QED
    BY <1>2, <2>1 DEF ParkedOk, Between
<1>10. NeverRefused'
  BY <1>2 DEF NeverRefused
<1> QED
  BY <1>4, <1>5, <1>6, <1>7, <1>8, <1>9, <1>10 DEF AcceptInv

LEMMA IncidentAccepts ==
  ASSUME LoopInv, AcceptInv, NEW cause, Incident(cause), pc # "halting", pc \in Writing => Spoilt
  PROVE  AcceptInv'
<1>1. /\ UNCHANGED <<sub, att, ledger, halted, integration, head, journal>>
      /\ pc' \in {"halting", "haltingOpen"}
  BY DEF Incident, replayed, outside
<1> QED
  BY <1>1, SpoiltSame, RestAccepts DEF Rests

-----------------------------------------------------------------------------
(* The judgement of an attempt.                                            *)

\* An attempt that is being judged keeps to what its outcomes entitle it to.
LEMMA JudgedFate ==
  ASSUME NEW x \in SubtaskState, NEW a \in Attempt, NEW line, NEW y, NEW b, NEW m,
         RecordOk(x, a), FateOk(x, a, line), ~Ended(a), ~a.merged, x.status = "active",
         ~a.pending, SameFate(a, b), b.diff = a.diff, b.cursor # "none",
         y.status = "active", y.next = 0, y.fixUsed = x.fixUsed,
         b.routed # "no", b.routed # "none" => Ended(b),
         b.gate # "none" => m.gate = b.gate, b.review # "none" => m.review = b.review,
         Ended(b) /\ b.fix => y.ending # "no" \/ b.routed = "yes",
         Ended(b) /\ b.routed = "none" => b.cursor \in {"decide", "review"}
  PROVE  FateOk(y, b, m)
<1>1. ~a.approved /\ ~a.spent /\ a.n \in Nat
  BY DEF RecordOk, Attempt
<1>2. b.n \in Nat /\ y.next # b.n + 1
  BY <1>1 DEF SameFate
<1> QED
  BY <1>1, <1>2 DEF FateOk, SameFate

\* What a judging step starts from.
LEMMA AtJudged ==
  ASSUME LoopInv, AcceptInv, NEW s \in Subtask, IsCurrent(s), pc \in Judged
  PROVE  /\ sub[s] \in SubtaskState /\ att[s] \in Attempt /\ ledger[s] \in LedgerLine
         /\ RecordOk(sub[s], att[s]) /\ StagesInOrder(att[s])
         /\ FateOk(sub[s], att[s], ledger[s]) /\ StandOk(pc, att[s])
         /\ sub[s].status = "active" /\ sub[s].next = 0 /\ ~Ended(att[s]) /\ ~att[s].merged
         /\ sub[s].ending = "no" /\ att[s].routed = "none" /\ ~att[s].rejected
         /\ att[s].unavail # "final" /\ att[s].review # "blocked"
         /\ LineMayFollow /\ Active(s) /\ ~att[s].pending /\ pc \in Driven
<1>1. pc \in Driven
  BY DEF Judged, Driven
<1>2. /\ sub[s] \in SubtaskState /\ att[s] \in Attempt /\ ledger[s] \in LedgerLine
      /\ RecordOk(sub[s], att[s]) /\ StagesInOrder(att[s]) /\ PlaceOk(pc, sub[s], att[s])
      /\ FateOk(sub[s], att[s], ledger[s]) /\ StandOk(pc, att[s])
  BY AtCurrent
<1>3. sub[s].status = "active" /\ sub[s].next = 0 /\ ~Ended(att[s]) /\ ~att[s].merged
  BY <1>2 DEF PlaceOk
<1>4. sub[s].ending = "no" /\ att[s].routed = "none"
  BY <1>2, <1>3 DEF RecordOk, FateOk
<1>5. LineMayFollow /\ Active(s) /\ ~att[s].pending
  BY <1>1, <1>3, AtDriven DEF NoPending
<1> QED
  BY <1>1, <1>2, <1>3, <1>4, <1>5 DEF Ended

\* A judging step that leaves the attempt at a stage, or ends it.
LEMMA JudgedAccepts ==
  ASSUME LoopInv, AcceptInv, NEW s \in Subtask, IsCurrent(s), pc \in Judged, MovesAlone(s),
         NEW x, NEW b, NEW m, sub'[s] = x, att'[s] = b, ledger'[s] = m,
         SameFate(att[s], b), b.diff = att[s].diff, b.cursor # "none",
         x.status = "active", x.next = 0, x.fixUsed = sub[s].fixUsed,
         b.routed # "no", b.routed # "none" => Ended(b),
         b.gate # "none" => m.gate = b.gate, b.review # "none" => m.review = b.review,
         Ended(b) /\ b.fix => x.ending # "no" \/ b.routed = "yes",
         Ended(b) /\ b.routed = "none" => b.cursor \in {"decide", "review"},
         pc' \in Driven \cup {"drive", "halting"}, StandOk(pc', b),
         pc' = "drive" => Ended(b) \/ Failed(b)
  PROVE  AcceptInv'
<1>1. /\ sub[s] \in SubtaskState /\ att[s] \in Attempt
      /\ RecordOk(sub[s], att[s]) /\ FateOk(sub[s], att[s], ledger[s])
      /\ sub[s].status = "active" /\ ~Ended(att[s]) /\ ~att[s].merged /\ ~att[s].pending
      /\ pc \in Driven
  BY AtJudged
<1>2. FateOk(x, b, m)
  BY <1>1, JudgedFate
<1>3. pc' = "drive" => Parked(x, b)
  BY <1>1 DEF Parked, SameFate, Failed, Completed
<1>4. ~b.pending
  BY <1>1 DEF SameFate
<1>5. Advances(s)
  BY <1>1, <1>2, <1>3, <1>4 DEF Advances
<1> QED
  BY <1>5, AdvanceAccepts

\* Entering a stage.
LEMMA StageAccepts ==
  ASSUME LoopInv, AcceptInv, NEW s \in Subtask, IsCurrent(s), pc \in Judged,
         NEW c, c # "none", NEW next \in Driven, CanEnter(att[s], c),
         EmitAtt(s, CanEnter(att[s], c), [att[s] EXCEPT !.cursor = c], next),
         \A b : Alike(att[s], b) /\ b.cursor = c => StandOk(next, b)
  PROVE  AcceptInv'
<1> DEFINE b == [att[s] EXCEPT !.cursor = c]
<1>1. /\ sub[s] \in SubtaskState /\ att[s] \in Attempt
      /\ FateOk(sub[s], att[s], ledger[s])
      /\ sub[s].status = "active" /\ sub[s].next = 0 /\ ~Ended(att[s])
      /\ att[s].routed = "none" /\ LineMayFollow /\ Active(s)
  BY AtJudged
<1>2. Alike(att[s], b) /\ b.cursor = c /\ b.diff = att[s].diff
  BY <1>1 DEF Alike, Attempt
<1>3. /\ att' = [att EXCEPT ![s] = b] /\ pc' = next /\ sub' = sub /\ ledger' = ledger
      /\ UNCHANGED <<halted, integration, head, known, journal>>
  BY <1>1 DEF EmitAtt, Emit, outside, rest
<1> HIDE DEF b
<1>4. att'[s] = b /\ MovesAlone(s)
  BY <1>3 DEF MovesAlone, LoopInv, RecordType
<1>5. SameFate(att[s], b) /\ ~Ended(b) /\ b.routed = "none"
  BY <1>1, <1>2 DEF Alike, SameFate, Ended
<1>6. /\ b.gate # "none" => ledger[s].gate = b.gate
      /\ b.review # "none" => ledger[s].review = b.review
  BY <1>1, <1>2 DEF Alike, FateOk
<1>7. StandOk(pc', b)
  BY <1>2, <1>3
<1>8. next # "drive"
  BY DEF Driven
<1> QED
  BY <1>1, <1>2, <1>3, <1>4, <1>5, <1>6, <1>7, <1>8, JudgedAccepts

LEMMA SpawnAccepts ==
  ASSUME LoopInv, AcceptInv, NEW s \in Subtask, Spawn(s) PROVE AcceptInv'
<1>1. /\ pc = "session" /\ IsCurrent(s)
      /\ EmitAtt(s, CanEnter(att[s], "spawn"), [att[s] EXCEPT !.cursor = "spawn"], "running")
  BY DEF Spawn
<1>2. pc \in Judged /\ "running" \in Driven
  BY <1>1 DEF Judged, Driven
<1>3. ~att[s].rejected /\ StandOk("session", att[s])
  BY <1>1, <1>2, AtJudged
<1>4. CanEnter(att[s], "spawn") /\ att[s].session = "none"
  BY <1>3 DEF CanEnter, StandOk
<1>5. ASSUME NEW b, Alike(att[s], b), b.cursor = "spawn" PROVE StandOk("running", b)
  BY <1>4, <1>5 DEF StandOk, Alike, Merged
<1> QED
  BY <1>1, <1>2, <1>4, <1>5, StageAccepts

\* What is entered is what may follow.
LEMMA NextMayBeEntered ==
  ASSUME NEW a \in Attempt, StagesInOrder(a), ~Ended(a), ~a.merged, Completed(a),
         NEW stage, JudgesNext(a, stage)
  PROVE  CanEnter(a, stage)
<1>1. ~a.rejected
  BY DEF Ended
<1>2. stage = "review" => GateLets(a)
  BY LoopAssumption DEF JudgesNext, GateLets, StagesInOrder, Attempt
<1>3. stage = "decide" => Mergeable(a)
  BY DEF JudgesNext, Mergeable, StagesInOrder
<1> QED
  BY <1>1, <1>2, <1>3 DEF JudgesNext, CanEnter

LEMMA EnterAccepts ==
  ASSUME LoopInv, AcceptInv, NEW s \in Subtask, EnterStage(s) PROVE AcceptInv'
<1> DEFINE next(stage) == IF stage = "decide" THEN "merge" ELSE "judge"
<1>1. PICK stage \in {"verify_reading", "implement", "gate", "review", "decide"} :
        /\ JudgesNext(att[s], stage)
        /\ EmitAtt(s, CanEnter(att[s], stage), [att[s] EXCEPT !.cursor = stage], next(stage))
  BY DEF EnterStage
<1>2. pc = "judge" /\ IsCurrent(s)
  BY DEF EnterStage
<1>3. pc \in Judged
  BY <1>2 DEF Judged
<1>4. /\ att[s] \in Attempt /\ StagesInOrder(att[s]) /\ ~Ended(att[s]) /\ ~att[s].merged
      /\ StandOk("judge", att[s])
  BY <1>2, <1>3, AtJudged
<1>5. Completed(att[s])
  BY <1>4 DEF StandOk
<1>6. CanEnter(att[s], stage)
  BY <1>1, <1>4, <1>5, NextMayBeEntered
<1>7. ASSUME NEW b, Alike(att[s], b), b.cursor = stage PROVE StandOk(next(stage), b)
  BY <1>1, <1>5, <1>7 DEF StandOk, Alike, Merged, Completed
<1>8. next(stage) \in Driven /\ stage # "none"
  BY DEF Driven
<1> HIDE DEF next
<1> QED
  BY <1>1, <1>2, <1>3, <1>6, <1>7, <1>8, StageAccepts

\* What refuses an attempt at its stage refuses it still where it is decided.
LEMMA RefusedAtDecide ==
  ASSUME NEW a \in Attempt, StagesInOrder(a), ~Ended(a), ~a.merged, Completed(a),
         \/ a.cursor = "verify_reading" /\ a.session # "read"
         \/ a.cursor = "implement" /\ a.changes = "refused"
         \/ a.cursor = "gate" /\ a.gate = "fail" /\ GateMode = "on"
         \/ a.cursor = "review" /\ a.review = "fail"
  PROVE  /\ CanEnter(a, "decide")
         /\ \A b : Alike(a, b) /\ b.cursor = "decide" => Rejectable(b)
<1>1. ~a.rejected
  BY DEF Ended
<1>2. Rejectable(a) /\ a.cursor # "decide"
  BY <1>1 DEF Rejectable, DecidedFrom, Completed
<1>3. ASSUME NEW b, Alike(a, b), b.cursor = "decide" PROVE Rejectable(b)
  <2>1. CASE a.cursor = "verify_reading" /\ a.session # "read"
    <3>1. a.session = "unread" /\ a.changes = "none" /\ a.gate = "none" /\ a.review = "none"
      BY <2>1 DEF StagesInOrder, Completed, GateLets, Attempt
    <3> QED
      BY <1>1, <1>3, <3>1 DEF Alike, Rejectable, DecidedFrom
  <2>2. CASE a.cursor = "implement" /\ a.changes = "refused"
    <3>1. a.gate = "none" /\ a.review = "none"
      BY <2>2 DEF StagesInOrder, GateLets, Attempt
    <3> QED
      BY <1>1, <1>3, <2>2, <3>1 DEF Alike, Rejectable, DecidedFrom
  <2>3. CASE a.cursor = "gate" /\ a.gate = "fail" /\ GateMode = "on"
    <3>1. a.review = "none"
      BY <2>3 DEF StagesInOrder, GateLets, Attempt
    <3> QED
      BY <1>1, <1>3, <2>3, <3>1 DEF Alike, Rejectable, DecidedFrom
  <2>4. CASE a.cursor = "review" /\ a.review = "fail"
    BY <1>1, <1>3, <2>4 DEF Alike, Rejectable, DecidedFrom
  <2> QED
    BY <2>1, <2>2, <2>3, <2>4
<1> QED
  BY <1>1, <1>2, <1>3 DEF CanEnter

LEMMA EnterRejectAccepts ==
  ASSUME LoopInv, AcceptInv, NEW s \in Subtask, EnterReject(s) PROVE AcceptInv'
<1>1. /\ pc = "judge" /\ IsCurrent(s)
      /\ EmitAtt(s, CanEnter(att[s], "decide"), [att[s] EXCEPT !.cursor = "decide"], "reject")
      /\ \/ att[s].cursor = "verify_reading" /\ att[s].session # "read"
         \/ att[s].cursor = "implement" /\ att[s].changes = "refused"
         \/ att[s].cursor = "gate" /\ att[s].gate = "fail" /\ GateMode = "on"
         \/ att[s].cursor = "review" /\ att[s].review = "fail"
  BY DEF EnterReject
<1>2. pc \in Judged /\ "reject" \in Driven
  BY <1>1 DEF Judged, Driven
<1>3. /\ att[s] \in Attempt /\ StagesInOrder(att[s]) /\ ~Ended(att[s]) /\ ~att[s].merged
      /\ Completed(att[s])
  BY <1>1, <1>2, AtJudged DEF StandOk
<1>4. /\ CanEnter(att[s], "decide")
      /\ \A b : Alike(att[s], b) /\ b.cursor = "decide" => Rejectable(b)
  BY <1>1, <1>3, RefusedAtDecide
<1>5. ASSUME NEW b, Alike(att[s], b), b.cursor = "decide" PROVE StandOk("reject", b)
  BY <1>4, <1>5 DEF StandOk, Merged
<1> QED
  BY <1>1, <1>2, <1>4, <1>5, StageAccepts

LEMMA SessionAccepts ==
  ASSUME LoopInv, AcceptInv, NEW s \in Subtask,
         NEW end \in {"read", "unread", "infra", "refused"}, NEW shows \in BOOLEAN,
         SessionEnds(s, end, shows)
  PROVE  AcceptInv'
<1> DEFINE b == [att[s] EXCEPT !.session = end]
           next == CASE shows -> "halting"
                     [] ~shows /\ end \in {"read", "unread"} -> "checkSession"
                     [] OTHER -> "drive"
<1>1. pc = "running" /\ IsCurrent(s) /\ pc \in Judged
  BY DEF SessionEnds, Judged
<1>2. /\ sub[s] \in SubtaskState /\ att[s] \in Attempt
      /\ FateOk(sub[s], att[s], ledger[s]) /\ StandOk("running", att[s])
      /\ sub[s].status = "active" /\ sub[s].next = 0 /\ ~Ended(att[s])
      /\ att[s].routed = "none" /\ LineMayFollow /\ Active(s)
  BY <1>1, AtJudged
<1>3. att[s].cursor = "spawn" /\ att[s].session = "none"
  BY <1>2 DEF StandOk
<1>4. /\ att' = [att EXCEPT ![s].session = end] /\ pc' = next /\ sub' = sub /\ ledger' = ledger
      /\ UNCHANGED <<halted, integration, head, known, journal>>
  BY <1>2, <1>3 DEF SessionEnds
<1>5. /\ SameFate(att[s], b)
      /\ b.session = end /\ b.cursor = "spawn" /\ b.diff = att[s].diff /\ b.routed = "none"
      /\ b.gate = att[s].gate /\ b.review = att[s].review /\ b.rejected = att[s].rejected
      /\ b.unavail = att[s].unavail
  BY <1>2, <1>3 DEF SameFate, Attempt
<1>6. att' = [att EXCEPT ![s] = b]
  BY <1>4 DEF LoopInv, RecordType
<1> HIDE DEF b
<1>7. att'[s] = b /\ MovesAlone(s)
  BY <1>4, <1>6 DEF MovesAlone, LoopInv, RecordType
<1>8. ~Ended(b)
  BY <1>2, <1>5 DEF Ended
<1>9. /\ b.gate # "none" => ledger[s].gate = b.gate
      /\ b.review # "none" => ledger[s].review = b.review
  BY <1>2, <1>5 DEF FateOk
<1>10. /\ next \in Driven \cup {"drive", "halting"} /\ StandOk(next, b)
       /\ next = "drive" => Failed(b)
  BY <1>5 DEF Driven, StandOk, Completed, Failed, Merged
<1> HIDE DEF next
<1> QED
  BY <1>1, <1>2, <1>4, <1>5, <1>7, <1>8, <1>9, <1>10, JudgedAccepts

LEMMA ChangesAccepts ==
  ASSUME LoopInv, AcceptInv, NEW s \in Subtask, NEW found \in {"ok", "refused"},
         CheckChanges(s, found)
  PROVE  AcceptInv'
<1> DEFINE b == [att[s] EXCEPT !.changes = found]
<1>1. pc = "judge" /\ IsCurrent(s) /\ att[s].cursor = "implement"
  BY DEF CheckChanges
<1>2. pc \in Judged
  BY <1>1 DEF Judged
<1>3. /\ sub[s] \in SubtaskState /\ att[s] \in Attempt
      /\ FateOk(sub[s], att[s], ledger[s]) /\ StandOk("judge", att[s])
      /\ sub[s].status = "active" /\ sub[s].next = 0 /\ ~Ended(att[s])
      /\ att[s].routed = "none" /\ LineMayFollow /\ Active(s)
  BY <1>1, <1>2, AtJudged
<1>4. /\ att' = [att EXCEPT ![s] = b] /\ pc' = "judge" /\ sub' = sub /\ ledger' = ledger
      /\ UNCHANGED <<halted, integration, head, known, journal>>
  BY <1>3 DEF CheckChanges, EmitAtt, Emit, outside, rest
<1>5. /\ SameFate(att[s], b) /\ b.session = att[s].session /\ b.cursor = "implement"
      /\ b.diff = att[s].diff /\ b.routed = "none" /\ b.gate = att[s].gate
      /\ b.review = att[s].review /\ b.rejected = att[s].rejected /\ b.unavail = att[s].unavail
  BY <1>1, <1>3 DEF SameFate, Attempt
<1> HIDE DEF b
<1>6. att'[s] = b /\ MovesAlone(s)
  BY <1>4 DEF MovesAlone, LoopInv, RecordType
<1>7. ~Ended(b)
  BY <1>3, <1>5 DEF Ended
<1>8. /\ b.gate # "none" => ledger[s].gate = b.gate
      /\ b.review # "none" => ledger[s].review = b.review
  BY <1>3, <1>5 DEF FateOk
<1>9. pc' \in Driven /\ pc' # "drive" /\ StandOk(pc', b)
  BY <1>3, <1>4, <1>5 DEF Driven, StandOk, Completed, Merged
<1> QED
  BY <1>1, <1>2, <1>3, <1>4, <1>5, <1>6, <1>7, <1>8, <1>9, JudgedAccepts

LEMMA GateAccepts ==
  ASSUME LoopInv, AcceptInv, NEW s \in Subtask, NEW verdict \in {"skipped", "pass", "fail"},
         RunGate(s, verdict)
  PROVE  AcceptInv'
<1> DEFINE b == [att[s] EXCEPT !.gate = verdict]
           m == [ledger[s] EXCEPT !.gate = verdict]
<1>1. pc = "judge" /\ IsCurrent(s) /\ att[s].cursor = "gate"
  BY DEF RunGate
<1>2. pc \in Judged
  BY <1>1 DEF Judged
<1>3. /\ sub[s] \in SubtaskState /\ att[s] \in Attempt /\ ledger[s] \in LedgerLine
      /\ FateOk(sub[s], att[s], ledger[s]) /\ StandOk("judge", att[s])
      /\ sub[s].status = "active" /\ sub[s].next = 0 /\ ~Ended(att[s])
      /\ att[s].routed = "none" /\ LineMayFollow /\ Active(s)
  BY <1>1, <1>2, AtJudged
<1>4. /\ att' = [att EXCEPT ![s].gate = verdict] /\ ledger' = [ledger EXCEPT ![s].gate = verdict]
      /\ pc' = "judge" /\ sub' = sub
      /\ UNCHANGED <<halted, integration, head, known, journal>>
  BY <1>1, <1>3 DEF RunGate, Emit, outside, rest
<1>5. /\ SameFate(att[s], b) /\ b.session = att[s].session /\ b.cursor = "gate"
      /\ b.diff = att[s].diff /\ b.routed = "none" /\ b.gate = verdict
      /\ b.review = att[s].review /\ b.rejected = att[s].rejected /\ b.unavail = att[s].unavail
      /\ m.gate = verdict /\ m.review = ledger[s].review
  BY <1>1, <1>3 DEF SameFate, Attempt, LedgerLine
<1>6. att' = [att EXCEPT ![s] = b] /\ ledger' = [ledger EXCEPT ![s] = m]
  BY <1>4 DEF LoopInv, RecordType, FrameType
<1> HIDE DEF b, m
<1>7. att'[s] = b /\ ledger'[s] = m /\ MovesAlone(s)
  BY <1>4, <1>6 DEF MovesAlone, LoopInv, RecordType, FrameType
<1>8. ~Ended(b)
  BY <1>3, <1>5 DEF Ended
<1>9. /\ b.gate # "none" => m.gate = b.gate
      /\ b.review # "none" => m.review = b.review
  BY <1>3, <1>5 DEF FateOk
<1>10. pc' \in Driven /\ pc' # "drive" /\ StandOk(pc', b)
  BY <1>3, <1>4, <1>5 DEF Driven, StandOk, Completed, Merged
<1> QED
  BY <1>1, <1>2, <1>3, <1>4, <1>5, <1>7, <1>8, <1>9, <1>10, JudgedAccepts

\* What ends an attempt leaves it to be decided, or already routed by rule.
LEMMA EndingAccepts ==
  ASSUME LoopInv, AcceptInv, NEW s \in Subtask, IsCurrent(s), pc \in Judged,
         NEW b \in Attempt, SameFate(att[s], b), b.diff = att[s].diff, b.routed = "none",
         b.cursor \in {"decide", "review"}, Ended(b), Ending(s, b), pc' = "drive",
         UNCHANGED <<halted, integration, head, known, journal>>,
         NEW m, ledger' = [ledger EXCEPT ![s] = m],
         b.gate # "none" => m.gate = b.gate, b.review # "none" => m.review = b.review
  PROVE  AcceptInv'
<1> DEFINE by == IF b.fix /\ b.unavail = "final" THEN "yes" ELSE "none"
           end == IF b.fix /\ b.unavail # "final" THEN "fix" ELSE sub[s].ending
           c == [b EXCEPT !.routed = by]
           x == [sub[s] EXCEPT !.ending = end]
<1>1. /\ sub[s] \in SubtaskState /\ att[s] \in Attempt
      /\ sub[s].status = "active" /\ sub[s].next = 0
  BY AtJudged
<1>2. att' = [att EXCEPT ![s] = c] /\ sub' = [sub EXCEPT ![s] = x]
  BY DEF Ending, LoopInv, RecordType
<1>3. /\ by \in {"none", "yes"} /\ (b.fix => end # "no" \/ by = "yes")
  OBVIOUS
<1> HIDE DEF by, end
<1>4. /\ x.status = "active" /\ x.next = 0 /\ x.ending = end /\ x.fixUsed = sub[s].fixUsed
  BY <1>1 DEF SubtaskState
<1>5. /\ SameFate(b, c) /\ c.diff = b.diff /\ c.routed = by /\ c.cursor = b.cursor
      /\ c.gate = b.gate /\ c.review = b.review /\ c.rejected = b.rejected /\ c.unavail = b.unavail
  BY DEF SameFate, Attempt
<1> HIDE DEF c, x
<1>6. att'[s] = c /\ sub'[s] = x /\ ledger'[s] = m /\ MovesAlone(s)
  BY <1>2 DEF MovesAlone, LoopInv, RecordType, FrameType
<1>7. SameFate(att[s], c) /\ Ended(c)
  BY <1>5 DEF SameFate, Ended
<1>8. c.fix => x.ending # "no" \/ c.routed = "yes"
  BY <1>3, <1>4, <1>5 DEF SameFate
<1>9. StandOk("drive", c)
  BY DEF StandOk, Merged
<1> QED
  BY <1>1, <1>3, <1>4, <1>5, <1>6, <1>7, <1>8, <1>9, JudgedAccepts

LEMMA ReviewAccepts ==
  ASSUME LoopInv, AcceptInv, NEW s \in Subtask,
         NEW verdict \in {"pass", "fail", "gaming", "blocked"}, Review(s, verdict)
  PROVE  AcceptInv'
<1> DEFINE result == IF verdict = "gaming" THEN "fail" ELSE verdict
           b == [att[s] EXCEPT !.review = result, !.judged = TRUE]
           m == [ledger[s] EXCEPT !.review = result]
           seen == sub[s].indicator \/ verdict = "gaming"
           x == [sub[s] EXCEPT !.indicator = seen]
<1>1. pc = "judge" /\ IsCurrent(s) /\ b.cursor = "review"
  BY DEF Review
<1>2. pc \in Judged
  BY <1>1 DEF Judged
<1>3. /\ sub[s] \in SubtaskState /\ att[s] \in Attempt /\ ledger[s] \in LedgerLine
      /\ FateOk(sub[s], att[s], ledger[s]) /\ StandOk("judge", att[s])
      /\ sub[s].status = "active" /\ sub[s].next = 0 /\ ~Ended(att[s])
      /\ att[s].routed = "none" /\ LineMayFollow /\ Active(s)
      /\ ~att[s].rejected /\ att[s].unavail # "final"
  BY <1>1, <1>2, AtJudged
<1>4. result \in {"pass", "fail", "blocked"}
  OBVIOUS
<1>5. b.unavail # "final"
  BY <1>3 DEF Attempt
<1>6. /\ IF result = "blocked" THEN Ending(s, b)
         ELSE /\ att' = [att EXCEPT ![s] = b]
              /\ sub' = [sub EXCEPT ![s].indicator = @ \/ verdict = "gaming"]
      /\ ledger' = [ledger EXCEPT ![s].review = result]
      /\ pc' = IF result = "blocked" THEN "drive" ELSE "judge"
      /\ UNCHANGED <<halted, integration, head, known, journal>>
  BY <1>3, <1>5 DEF Review, Emit, outside, rest
<1>7. sub' = [sub EXCEPT ![s].indicator = @ \/ verdict = "gaming"] => sub' = [sub EXCEPT ![s] = x]
  BY DEF LoopInv, RecordType
<1>8. ledger' = [ledger EXCEPT ![s] = m]
  BY <1>6 DEF LoopInv, FrameType
<1> HIDE DEF result
<1>9. /\ b \in Attempt /\ SameFate(att[s], b) /\ b.session = att[s].session /\ b.cursor = "review"
      /\ b.diff = att[s].diff /\ b.routed = "none" /\ b.gate = att[s].gate
      /\ b.review = result /\ b.rejected = att[s].rejected /\ b.unavail = att[s].unavail
  <2>1. b \in Attempt
    BY <1>3, <1>4, ReviewedType
  <2> QED
    BY <1>1, <1>3, <1>4, <2>1 DEF SameFate, Attempt
<1>10. m.gate = ledger[s].gate /\ m.review = result
  BY <1>3 DEF LedgerLine
<1> HIDE DEF seen
<1>11. x.status = "active" /\ x.next = 0 /\ x.fixUsed = sub[s].fixUsed
  BY <1>3 DEF SubtaskState
<1> HIDE DEF b, m, x
<1>12. b.gate # "none" => m.gate = b.gate
  BY <1>3, <1>9, <1>10 DEF FateOk
<1>13. CASE result = "blocked"
  <2>1. Ended(b)
    BY <1>9, <1>13 DEF Ended
  <2>2. /\ Ending(s, b) /\ pc' = "drive" /\ b.review = m.review
        /\ UNCHANGED <<halted, integration, head, known, journal>>
    BY <1>6, <1>9, <1>10, <1>13
  <2>3. b.cursor \in {"decide", "review"}
    BY <1>9
  <2> QED
    BY <1>1, <1>2, <1>8, <1>9, <1>12, <2>1, <2>2, <2>3, EndingAccepts
<1>14. CASE result # "blocked"
  <2>1. ~Ended(b)
    BY <1>3, <1>9, <1>14 DEF Ended
  <2>2. att'[s] = b /\ sub'[s] = x /\ ledger'[s] = m /\ MovesAlone(s)
    BY <1>6, <1>7, <1>8, <1>14 DEF MovesAlone, LoopInv, RecordType, FrameType
  <2>3. pc' \in Driven /\ pc' # "drive" /\ StandOk(pc', b)
    BY <1>3, <1>6, <1>9, <1>14 DEF Driven, StandOk, Completed, Merged
  <2> QED
    BY <1>1, <1>2, <1>9, <1>10, <1>11, <1>12, <2>1, <2>2, <2>3, JudgedAccepts
<1> QED
  BY <1>13, <1>14

LEMMA UnavailableAccepts ==
  ASSUME LoopInv, AcceptInv, NEW s \in Subtask, NEW retry \in BOOLEAN, ReviewUnavailable(s, retry)
  PROVE  AcceptInv'
<1> DEFINE word == IF retry THEN "retried" ELSE "final"
           b == [att[s] EXCEPT !.unavail = word]
<1>1. pc = "judge" /\ IsCurrent(s) /\ b.cursor = "review" /\ b.review = "none"
  BY DEF ReviewUnavailable
<1>2. pc \in Judged
  BY <1>1 DEF Judged
<1>3. /\ sub[s] \in SubtaskState /\ att[s] \in Attempt /\ ledger[s] \in LedgerLine
      /\ FateOk(sub[s], att[s], ledger[s]) /\ StandOk("judge", att[s])
      /\ sub[s].status = "active" /\ sub[s].next = 0 /\ ~Ended(att[s])
      /\ att[s].routed = "none" /\ LineMayFollow /\ Active(s)
      /\ ~att[s].rejected /\ att[s].unavail # "final"
  BY <1>1, <1>2, AtJudged
<1>4. /\ IF retry THEN att' = [att EXCEPT ![s] = b] /\ sub' = sub ELSE Ending(s, b)
      /\ pc' = IF retry THEN "judge" ELSE "drive"
      /\ UNCHANGED <<ledger, halted, integration, head, known, journal>>
  BY <1>3 DEF ReviewUnavailable, Emit, outside, rest
<1>5. word \in {"retried", "final"} /\ (word = "final" <=> ~retry)
  OBVIOUS
<1> HIDE DEF word
<1>6. /\ b \in Attempt /\ SameFate(att[s], b) /\ b.session = att[s].session
      /\ b.diff = att[s].diff /\ b.routed = "none" /\ b.gate = att[s].gate
      /\ b.rejected = att[s].rejected /\ b.unavail = word
  BY <1>3, <1>5 DEF SameFate, Attempt
<1> HIDE DEF b
<1>7. b.gate # "none" => ledger[s].gate = b.gate
  BY <1>3, <1>6 DEF FateOk
<1>8. CASE ~retry
  <2>1. Ended(b)
    BY <1>5, <1>6, <1>8 DEF Ended
  <2>2. Ending(s, b) /\ pc' = "drive" /\ ledger' = [ledger EXCEPT ![s] = ledger[s]]
    BY <1>4, <1>8 DEF LoopInv, FrameType
  <2> QED
    BY <1>1, <1>2, <1>4, <1>6, <1>7, <2>1, <2>2, EndingAccepts
<1>9. CASE retry
  <2>1. ~Ended(b)
    BY <1>1, <1>3, <1>5, <1>6, <1>9 DEF Ended
  <2>2. att'[s] = b /\ sub'[s] = sub[s] /\ ledger'[s] = ledger[s] /\ MovesAlone(s)
    BY <1>4, <1>9 DEF MovesAlone, LoopInv, RecordType, FrameType
  <2>3. pc' \in Driven /\ pc' # "drive" /\ StandOk(pc', b)
    BY <1>1, <1>3, <1>4, <1>6, <1>9 DEF Driven, StandOk, Completed, Merged
  <2> QED
    BY <1>1, <1>2, <1>3, <1>6, <1>7, <2>1, <2>2, <2>3, JudgedAccepts
<1> QED
  BY <1>8, <1>9

LEMMA RejectAccepts ==
  ASSUME LoopInv, AcceptInv, NEW s \in Subtask, RejectAttempt(s) PROVE AcceptInv'
<1> DEFINE b == [att[s] EXCEPT !.rejected = TRUE]
<1>1. pc = "reject" /\ IsCurrent(s) /\ pc \in Judged
  BY DEF RejectAttempt, Judged
<1>2. /\ att[s] \in Attempt /\ FateOk(sub[s], att[s], ledger[s]) /\ StandOk("reject", att[s])
      /\ att[s].routed = "none" /\ LineMayFollow /\ Active(s)
  BY <1>1, AtJudged
<1>3. att[s].cursor = "decide" /\ Rejectable(att[s])
  BY <1>2 DEF StandOk
<1>4. /\ b \in Attempt /\ SameFate(att[s], b) /\ b.diff = att[s].diff /\ b.routed = "none"
      /\ b.gate = att[s].gate /\ b.review = att[s].review /\ b.rejected /\ b.cursor = "decide"
  BY <1>2, <1>3 DEF SameFate, Attempt
<1>5. /\ Ending(s, b) /\ pc' = "drive"
      /\ UNCHANGED <<ledger, halted, integration, head, known, journal>>
  BY <1>2, <1>3, <1>4 DEF RejectAttempt, Emit, outside, rest
<1> HIDE DEF b
<1>6. Ended(b) /\ ledger' = [ledger EXCEPT ![s] = ledger[s]]
  BY <1>4, <1>5 DEF Ended, LoopInv, FrameType
<1>7. /\ b.gate # "none" => ledger[s].gate = b.gate
      /\ b.review # "none" => ledger[s].review = b.review
  BY <1>2, <1>4 DEF FateOk
<1> QED
  BY <1>1, <1>4, <1>5, <1>6, <1>7, EndingAccepts

LEMMA JudgingAccepts ==
  ASSUME LoopInv, AcceptInv, NEW s \in Subtask, Judging(s) PROVE AcceptInv'
<1>1. ASSUME NEW verdict \in Verdicts, Review(s, verdict) PROVE AcceptInv'
  BY <1>1, ReviewAccepts, LoopAssumption
<1> QED
  BY <1>1, EnterAccepts, EnterRejectAccepts, RejectAccepts, ChangesAccepts, GateAccepts,
     UnavailableAccepts DEF Judging

-----------------------------------------------------------------------------
(* The steps that begin, go on with and end an attempt.                    *)

\* A subtask that is driven and not planned has an attempt in progress.
LEMMA AtDrive ==
  ASSUME LoopInv, AcceptInv, NEW s \in Subtask, NEW step, Drives(s, step)
  PROVE  /\ IsCurrent(s) /\ Between /\ Step(s) = step /\ AllParked
         /\ sub[s] \in SubtaskState /\ att[s] \in Attempt /\ ledger[s] \in LedgerLine
         /\ RecordOk(sub[s], att[s]) /\ StagesInOrder(att[s])
         /\ FateOk(sub[s], att[s], ledger[s])
         /\ sub[s].status \in {"planned", "active"} /\ ~att[s].pending /\ LineMayFollow
         /\ sub[s].status = "active" => Active(s) /\ att[s].n # 0 /\ Parked(sub[s], att[s])
<1>1. IsCurrent(s) /\ Between /\ Step(s) = step
  BY DEF Drives, Between
<1>2. AllParked
  BY <1>1 DEF AcceptInv, ParkedOk
<1>3. /\ LineMayFollow /\ NoPending
      /\ sub[s].status = "active" => Active(s) /\ att[s].n # 0
  BY <1>1, AtDriven
<1>4. /\ sub[s] \in SubtaskState /\ att[s] \in Attempt /\ ledger[s] \in LedgerLine
      /\ RecordOk(sub[s], att[s]) /\ StagesInOrder(att[s])
      /\ FateOk(sub[s], att[s], ledger[s]) /\ Unresolved(s)
  BY <1>1, AtCurrent
<1> QED
  BY <1>1, <1>2, <1>3, <1>4 DEF AllParked, NoPending, Unresolved

\* The log lets the loop begin the attempt it is at: a new one is within the budget or
\* is the fix a person ordered, and one that starts over is the newest.
LEMMA MayBegin ==
  ASSUME LoopInv, AcceptInv, NEW s \in Subtask, Drives(s, "resolve")
  PROVE  /\ sub[s].next = Number(s)
         /\ att[s].n # Number(s) => /\ ~sub[s].fixUsed
                                    /\ Number(s) <= Budget \/ sub[s].fixNext
<1>1. /\ Step(s) = "resolve" /\ sub[s] \in SubtaskState /\ att[s] \in Attempt
      /\ RecordOk(sub[s], att[s]) /\ StagesInOrder(att[s])
      /\ FateOk(sub[s], att[s], ledger[s]) /\ sub[s].status \in {"planned", "active"}
      /\ sub[s].status = "active" => att[s].n # 0 /\ Parked(sub[s], att[s])
  BY AtDrive
<1>2. CASE sub[s].status = "planned"
  <2>1. att[s] = Fresh(0, FALSE) /\ sub[s].next = 1 /\ Number(s) = 1
    BY <1>1, <1>2 DEF RecordOk, Number
  <2>2. ~sub[s].fixUsed
    BY <1>1, <2>1 DEF FateOk, Fresh
  <2>3. 1 <= Budget
    BY LoopAssumption
  <2> QED
    BY <2>1, <2>2, <2>3
<1>3. CASE sub[s].status = "active"
  <2>1. att[s].n # 0 /\ Parked(sub[s], att[s]) /\ sub[s].ending = "no" /\ ~att[s].approved
    BY <1>1, <1>3 DEF Step
  <2>2. att[s].n \in Nat /\ sub[s].next \in Nat /\ Budget \in Nat
    BY <1>1, LoopAssumption DEF Attempt, SubtaskState
  <2>3. CASE sub[s].next = att[s].n + 1
    <3>1. sub[s].next # 0 /\ Ended(att[s])
      BY <1>1, <2>1, <2>2, <2>3 DEF RecordOk
    <3>2. Number(s) = sub[s].next
      BY <1>3, <3>1 DEF Number
    <3>3. ~sub[s].fixUsed /\ (att[s].n < Budget \/ sub[s].fixNext)
      BY <1>1, <2>1, <2>3 DEF FateOk
    <3> QED
      BY <2>2, <2>3, <3>2, <3>3
  <2>4. CASE sub[s].next # att[s].n + 1
    <3>1. ~att[s].spent
      BY <1>1, <1>3, <2>1, <2>4 DEF FateOk
    <3>2. ~Ended(att[s])
      <4>1. Ended(att[s]) => att[s].routed = "no"
        BY <1>1, <1>3, <2>1, <3>1 DEF Step, Attempt
      <4> QED
        BY <1>1, <1>3, <2>4, <4>1 DEF FateOk
    <3>3. Number(s) = att[s].n
      BY <1>3, <3>1, <3>2 DEF Number
    <3>4. ~att[s].merged /\ ~Completed(att[s]) /\ ~(Failed(att[s]) /\ sub[s].next = 0)
      BY <1>1, <1>3, <2>1, <3>1, <3>2 DEF Step, ResumePoint
    <3>5. CASE att[s].session = "none"
      BY <2>1, <3>2, <3>3, <3>4, <3>5 DEF Parked
    <3>6. CASE att[s].session # "none"
      <4>1. Failed(att[s])
        BY <1>1, <3>4, <3>6 DEF Failed, Completed, Attempt
      <4> QED
        BY <1>1, <2>1, <2>4, <3>3, <3>4, <4>1 DEF RecordOk
    <3> QED
      BY <3>5, <3>6
  <2> QED
    BY <2>3, <2>4
<1> QED
  BY <1>1, <1>2, <1>3

\* An attempt at its start is entitled to nothing.
LEMMA BegunFate ==
  ASSUME NEW x, NEW b, NEW m, x.status = "active", x.next = 0, x.fixUsed = b.fix,
         b.n \in Nat, b.cursor = "resolve", b.session = "none", b.gate = "none",
         b.review = "none", b.unavail = "none", ~b.rejected, ~b.merged, b.diff = "none",
         ~b.pending, b.routed = "none", ~b.approved, ~b.spent
  PROVE  FateOk(x, b, m)
<1>1. ~Ended(b) /\ ~Completed(b) /\ x.next # b.n + 1
  BY DEF Ended, Completed
<1> QED
  BY <1>1 DEF FateOk

LEMMA BeginAccepts ==
  ASSUME LoopInv, AcceptInv, NEW s \in Subtask, BeginAttempt(s) PROVE AcceptInv'
<1> DEFINE n == Number(s)
           new == att[s].n # n
           fixNext == sub[s].fixNext /\ ~new
           fixUsed == sub[s].fixUsed \/ (new /\ sub[s].fixNext)
           unjudged == sub[s].unjudged \/ (new /\ att[s].n # 0 /\ ~att[s].judged)
           x == [sub[s] EXCEPT !.status = "active", !.next = 0, !.fixNext = fixNext,
                               !.fixUsed = fixUsed, !.unjudged = unjudged]
           fresh == [Fresh(n, sub[s].fixNext) EXCEPT !.cursor = "resolve"]
           again == Restarted(att[s], "resolve")
           b == IF new THEN fresh ELSE again
           line == IF new THEN NoResults ELSE ledger[s]
<1>1. Drives(s, "resolve")
  BY DEF BeginAttempt
<1>2. /\ IsCurrent(s) /\ Between /\ Step(s) = "resolve"
      /\ sub[s] \in SubtaskState /\ att[s] \in Attempt
      /\ RecordOk(sub[s], att[s]) /\ FateOk(sub[s], att[s], ledger[s])
      /\ sub[s].status \in {"planned", "active"} /\ ~att[s].pending /\ LineMayFollow
      /\ Unresolved(s)
  BY <1>1, AtDrive DEF Unresolved
<1>3. /\ sub[s].next = n
      /\ new => ~sub[s].fixUsed /\ (n <= Budget \/ sub[s].fixNext)
  BY <1>1, MayBegin
<1>4. Records
  BY DEF LoopInv, Records
<1>5. ~att[s].merged /\ n # 0 /\ (~new => ~Ended(att[s])) /\ n \in {att[s].n, att[s].n + 1}
  BY <1>2, <1>3, <1>4, StepResolve
<1>6. n \in Nat
  BY <1>2, <1>3 DEF SubtaskState
<1>7. /\ att' = [att EXCEPT ![s] = IF new THEN fresh ELSE again]
      /\ sub' = [sub EXCEPT ![s].status = "active", ![s].next = 0,
                   ![s].fixNext = @ /\ ~new,
                   ![s].fixUsed = @ \/ (new /\ sub[s].fixNext),
                   ![s].unjudged = @ \/ (new /\ att[s].n # 0 /\ ~att[s].judged)]
      /\ ledger' = IF new THEN [ledger EXCEPT ![s] = NoResults] ELSE ledger
      /\ pc' = "session" /\ UNCHANGED <<halted, integration, head, known, journal>>
  BY <1>2, <1>3 DEF BeginAttempt, outside, rest
<1>8. att' = [att EXCEPT ![s] = b] /\ sub' = [sub EXCEPT ![s] = x]
  BY <1>7 DEF LoopInv, RecordType
<1>9. ledger' = [ledger EXCEPT ![s] = line]
  BY <1>7 DEF LoopInv, FrameType
<1>10. /\ b.n = n /\ b.cursor = "resolve" /\ b.session = "none" /\ b.gate = "none"
       /\ b.review = "none" /\ b.unavail = "none" /\ ~b.rejected /\ ~b.merged
       /\ b.diff = "none" /\ ~b.pending /\ b.routed = "none" /\ ~b.approved /\ ~b.spent
       /\ b.fix = IF new THEN sub[s].fixNext ELSE att[s].fix
  <2>1. CASE new
    BY <2>1 DEF Fresh
  <2>2. CASE ~new
    <3>1. ~Ended(att[s]) /\ att[s].n = n
      BY <1>5, <2>2
    <3>2. ~att[s].approved /\ ~att[s].spent /\ ~att[s].rejected
      BY <1>2, <3>1 DEF RecordOk, Ended
    <3>3. att[s].diff = "none" /\ att[s].routed = "none"
      BY <1>2, <1>5, <3>1 DEF FateOk
    <3>4. again.diff = att[s].diff
      BY <1>2 DEF Restarted, Attempt
    <3> HIDE DEF n, new
    <3>5. b = again
      BY <2>2
    <3> HIDE DEF b
    <3> QED
      BY <1>2, <1>5, <2>2, <3>1, <3>2, <3>3, <3>4, <3>5, RestartedFields
  <2> QED
    BY <2>1, <2>2
<1>11. fixUsed = b.fix
  BY <1>2, <1>3, <1>10 DEF FateOk, SubtaskState
<1>12. x.status = "active" /\ x.next = 0 /\ x.fixUsed = fixUsed
  <2> HIDE DEF fixNext, fixUsed, unjudged
  <2> QED
    BY <1>2 DEF SubtaskState
<1> HIDE DEF b, x, line, n, new, fixNext, fixUsed, unjudged
<1>13. att'[s] = b /\ sub'[s] = x /\ ledger'[s] = line /\ MovesAlone(s)
  BY <1>7, <1>8, <1>9 DEF MovesAlone, LoopInv, RecordType, FrameType
<1>14. FateOk(x, b, line)
  BY <1>6, <1>10, <1>11, <1>12, BegunFate
<1>15. StandOk(pc', b) /\ pc' \in Driven /\ pc' # "drive"
  BY <1>7, <1>10 DEF StandOk, Driven, Merged
<1>16. Advances(s)
  BY <1>2, <1>10, <1>12, <1>13, <1>14, <1>15 DEF Advances
<1> QED
  BY <1>16, AdvanceAccepts

\* A step that leaves the records alone and goes on with the attempt that is driven.
LEMMA SameAdvances ==
  ASSUME LoopInv, AcceptInv, NEW s \in Subtask, IsCurrent(s), pc \in Driven \/ Between,
         UNCHANGED <<sub, att, ledger, halted, integration, head, known, journal>>,
         sub[s].status = "active", pc' \in Driven, StandOk(pc', att[s])
  PROVE  AcceptInv'
<1>1. FateOk(sub[s], att[s], ledger[s]) /\ ~att[s].pending
  BY AtCurrent, AtDriven DEF NoPending
<1>2. MovesAlone(s) /\ pc' # "drive"
  BY DEF MovesAlone, Driven
<1>3. Advances(s)
  BY <1>1, <1>2 DEF Advances
<1> QED
  BY <1>3, AdvanceAccepts

LEMMA ContinueAccepts ==
  ASSUME LoopInv, AcceptInv, NEW s \in Subtask, Continue(s) PROVE AcceptInv'
<1>1. PICK step \in {"verify_reading", "merge", "diff"} :
        Drives(s, step) /\ pc' = IF step = "verify_reading" THEN "judge" ELSE step
  BY DEF Continue
<1>2. UNCHANGED <<sub, att, ledger, halted, integration, head, known, journal>>
  BY DEF Continue, replayed, outside, rest
<1>3. /\ IsCurrent(s) /\ Between /\ Step(s) = step
      /\ FateOk(sub[s], att[s], ledger[s])
      /\ sub[s].status \in {"planned", "active"}
      /\ sub[s].status = "active" => Parked(sub[s], att[s])
  BY <1>1, AtDrive
<1>4. sub[s].status = "active"
  BY <1>3 DEF Step
<1>5. CASE step = "verify_reading"
  <2>1. ~Ended(att[s]) /\ ~att[s].merged /\ Completed(att[s])
    BY <1>3, <1>5, StepFacts
  <2>2. StandOk("judge", att[s]) /\ "judge" \in Driven
    BY <1>3, <1>4, <2>1 DEF Parked, StandOk, Merged, Driven
  <2> QED
    BY <1>1, <1>2, <1>3, <1>4, <1>5, <2>2, SameAdvances
<1>6. CASE step = "merge"
  <2>1. att[s].approved /\ ~att[s].merged
    BY <1>3, <1>6, StepFacts
  <2>2. StandOk("merge", att[s]) /\ "merge" \in Driven
    BY <1>3, <2>1 DEF FateOk, StandOk, Driven
  <2> QED
    BY <1>1, <1>2, <1>3, <1>4, <1>6, <2>2, SameAdvances
<1>7. CASE step = "diff"
  <2>1. att[s].merged
    BY <1>3, <1>7, StepFacts
  <2>2. StandOk("diff", att[s]) /\ "diff" \in Driven
    BY <1>3, <1>4, <2>1 DEF Parked, StandOk, Driven
  <2> QED
    BY <1>1, <1>2, <1>3, <1>4, <1>7, <2>2, SameAdvances
<1> QED
  BY <1>5, <1>6, <1>7

LEMMA DecideAccepts ==
  ASSUME LoopInv, AcceptInv, NEW s \in Subtask, Decide(s) PROVE AcceptInv'
<1> DEFINE forced == ~att[s].rejected \/ att[s].n >= Budget
           by == IF forced THEN "yes" ELSE "no"
           next == IF forced THEN sub[s].next ELSE att[s].n + 1
           b == [att[s] EXCEPT !.routed = by]
           x == [sub[s] EXCEPT !.next = next]
<1>1. Drives(s, "decide")
  BY DEF Decide
<1>2. /\ IsCurrent(s) /\ Between /\ Step(s) = "decide"
      /\ sub[s] \in SubtaskState /\ att[s] \in Attempt
      /\ RecordOk(sub[s], att[s]) /\ StagesInOrder(att[s])
      /\ FateOk(sub[s], att[s], ledger[s])
      /\ sub[s].status \in {"planned", "active"} /\ ~att[s].pending /\ LineMayFollow
      /\ sub[s].status = "active" => Active(s) /\ att[s].n # 0
  BY <1>1, AtDrive
<1>3. sub[s].status = "active" /\ Active(s) /\ att[s].n # 0
  BY <1>2 DEF Step
<1>4. sub[s].ending = "no" /\ ~att[s].approved /\ Ended(att[s]) /\ att[s].routed = "none"
  BY <1>2, StepFacts
<1>5. ~att[s].fix /\ att[s].cursor \in {"decide", "review"} /\ ~att[s].spent
  BY <1>2, <1>3, <1>4 DEF FateOk
<1>6. ~att[s].merged
  BY <1>2, <1>4, EndedNotMerged
<1>7. /\ att' = [att EXCEPT ![s].routed = by]
      /\ sub' = [sub EXCEPT ![s].next = IF forced THEN @ ELSE att[s].n + 1]
      /\ UNCHANGED <<ledger, halted, integration, head, known, journal, pc>>
  BY <1>2, <1>3, <1>4, <1>5 DEF Decide, Emit, outside, rest
<1>8. att' = [att EXCEPT ![s] = b] /\ sub' = [sub EXCEPT ![s] = x]
  BY <1>7 DEF LoopInv, RecordType
<1>9. /\ by \in {"yes", "no"}
      /\ by = "yes" => next = sub[s].next
      /\ by = "no" => next = att[s].n + 1 /\ ~(att[s].n >= Budget)
  OBVIOUS
<1> HIDE DEF forced, by, next
<1>10. /\ b.routed = by /\ b.cursor = att[s].cursor /\ SameFate(att[s], b) /\ b.diff = att[s].diff
       /\ b.gate = att[s].gate /\ b.review = att[s].review /\ b.rejected = att[s].rejected
       /\ b.unavail = att[s].unavail /\ b.session = att[s].session
  BY <1>2 DEF Attempt, SameFate
<1>11. /\ x.next = next /\ x.status = "active" /\ x.ending = "no" /\ x.fixUsed = sub[s].fixUsed
       /\ x.fixNext = sub[s].fixNext
  BY <1>2, <1>3, <1>4 DEF SubtaskState
<1>12. att'[s] = b /\ sub'[s] = x /\ ledger'[s] = ledger[s] /\ MovesAlone(s)
  BY <1>7, <1>8 DEF MovesAlone, LoopInv, RecordType
<1> HIDE DEF b, x
<1>13. Ended(b)
  BY <1>4, <1>10 DEF Ended
<1>14. by = "yes" => next # b.n + 1
  BY <1>2, <1>3, <1>4, <1>5, <1>9, <1>10 DEF FateOk, SameFate
<1>15. by = "no" => att[s].n < Budget
  BY <1>2, <1>9, LoopAssumption DEF Attempt
<1>16. FateOk(x, b, ledger[s])
  BY <1>2, <1>3, <1>4, <1>5, <1>6, <1>9, <1>10, <1>11, <1>13, <1>14, <1>15 DEF FateOk, SameFate
<1>17. Parked(x, b)
  BY <1>6, <1>10, <1>13 DEF Parked, SameFate
<1>18. pc' = "drive" /\ StandOk(pc', b) /\ ~b.pending
  BY <1>2, <1>7, <1>10 DEF StandOk, Merged, Between, SameFate
<1>19. b.diff = "none" \/ Spoilt \/ (MaxKills = 0 /\ pc' = "halting")
  BY <1>2, <1>6, <1>10 DEF FateOk
<1>20. Advances(s)
  BY <1>2, <1>11, <1>12, <1>16, <1>17, <1>18, <1>19 DEF Advances
<1> QED
  BY <1>20, AdvanceAccepts

\* An attempt that failed has passed no stage and is not merged.
LEMMA FailedFacts ==
  ASSUME NEW x, NEW a \in Attempt, RecordOk(x, a), StagesInOrder(a), Failed(a)
  PROVE  ~Ended(a) /\ ~a.merged /\ ~Completed(a)
BY DEF RecordOk, StagesInOrder, Failed, Ended, Completed, Cleared, Refused, GateLets

LEMMA RetryAccepts ==
  ASSUME LoopInv, AcceptInv, NEW s \in Subtask, InfraFailed(s), RetryLeft(att[s]) PROVE AcceptInv'
<1> DEFINE b == [att[s] EXCEPT !.retries = @ + 1]
           x == [sub[s] EXCEPT !.next = att[s].n]
<1>1. Drives(s, "infra")
  BY DEF InfraFailed
<1>2. /\ IsCurrent(s) /\ Between /\ Step(s) = "infra"
      /\ sub[s] \in SubtaskState /\ att[s] \in Attempt
      /\ RecordOk(sub[s], att[s]) /\ StagesInOrder(att[s])
      /\ FateOk(sub[s], att[s], ledger[s])
      /\ sub[s].status \in {"planned", "active"} /\ ~att[s].pending /\ LineMayFollow
      /\ sub[s].status = "active" => Active(s) /\ att[s].n # 0
  BY <1>1, AtDrive
<1>3. sub[s].status = "active" /\ Active(s) /\ att[s].n # 0
  BY <1>2 DEF Step
<1>4. /\ sub[s].ending = "no" /\ ~att[s].approved /\ Failed(att[s]) /\ sub[s].next = 0
  BY <1>2, StepFacts
<1>5. ~Ended(att[s]) /\ ~att[s].merged /\ ~Completed(att[s])
  BY <1>2, <1>4, FailedFacts
<1>6. /\ att' = [att EXCEPT ![s].retries = @ + 1] /\ sub' = [sub EXCEPT ![s].next = att[s].n]
      /\ UNCHANGED <<ledger, halted, integration, head, known, journal, pc>>
  BY <1>2, <1>3 DEF InfraFailed, Emit, outside, rest
<1>7. att' = [att EXCEPT ![s] = b] /\ sub' = [sub EXCEPT ![s] = x]
  BY <1>6 DEF LoopInv, RecordType
<1>8. Alike(att[s], b) /\ b.cursor = att[s].cursor /\ b.diff = att[s].diff
  BY <1>2 DEF Attempt, Alike
<1>9. /\ x.next = att[s].n /\ x.status = "active" /\ x.fixUsed = sub[s].fixUsed
  BY <1>2, <1>3 DEF SubtaskState
<1>10. att'[s] = b /\ sub'[s] = x /\ ledger'[s] = ledger[s] /\ MovesAlone(s)
  BY <1>6, <1>7 DEF MovesAlone, LoopInv, RecordType
<1> HIDE DEF b, x
<1>11. ~Ended(b) /\ ~Completed(b) /\ Failed(b) /\ ~b.spent
  <2>1. ~att[s].spent
    BY <1>2, <1>5 DEF RecordOk
  <2> QED
    BY <1>4, <1>5, <1>8, <2>1 DEF Alike, Ended, Completed, Failed
<1>12. x.next = b.n /\ b.n \in Nat /\ x.next # b.n + 1
  BY <1>2, <1>8, <1>9 DEF Alike, Attempt
<1>13. FateOk(x, b, ledger[s])
  BY <1>2, <1>4, <1>5, <1>8, <1>9, <1>11, <1>12 DEF FateOk, Alike
<1>14. Parked(x, b)
  BY <1>5, <1>8, <1>11, <1>12 DEF Parked, Alike
<1>15. pc' = "drive" /\ StandOk(pc', b) /\ ~b.pending /\ b.diff = "none"
  BY <1>2, <1>5, <1>6, <1>8 DEF StandOk, Merged, Between, Alike, FateOk
<1>16. Advances(s)
  BY <1>2, <1>9, <1>10, <1>13, <1>14, <1>15 DEF Advances
<1> QED
  BY <1>16, AdvanceAccepts

\* The retries are spent: the run halts, to be resumed where it is.
LEMMA InfraHaltAccepts ==
  ASSUME LoopInv, AcceptInv, NEW s \in Subtask, InfraFailed(s), ~RetryLeft(att[s]) PROVE AcceptInv'
<1>1. Drives(s, "infra")
  BY DEF InfraFailed
<1>2. /\ IsCurrent(s) /\ Between /\ Step(s) = "infra" /\ LineMayFollow
      /\ sub[s].status \in {"planned", "active"}
      /\ sub[s].status = "active" => Active(s)
  BY <1>1, AtDrive
<1>3. Active(s) /\ Unresolved(s)
  BY <1>2 DEF Step, Unresolved
<1>4. Failed(att[s])
  BY <1>2, StepFacts
<1>5. /\ halted' = "infra"
      /\ UNCHANGED <<sub, att, ledger, integration, head, known, journal, pc>>
  BY DEF InfraFailed, outside, rest
<1>6. pc = "drive" /\ halted = "no" /\ NoPending
  BY <1>2, AtDriven DEF Between
<1>7. /\ FatesOk /\ OthersOk /\ HaltedOk /\ KnownOk /\ PendingOk /\ ParkedOk
  BY DEF AcceptInv
<1>8. \A r \in Subtask : /\ IsCurrent(r)' = IsCurrent(r) /\ Unresolved(r)' = Unresolved(r)
                         /\ Active(r)' = Active(r) /\ MidAttempt(r)' = MidAttempt(r)
                         /\ FirstActive(r)' = FirstActive(r)
  BY <1>5, RecordsRest
<1>9. FatesOk' /\ OthersOk'
  BY <1>5, <1>7, <1>8 DEF FatesOk, OthersOk
<1>10. StandsOk'
  BY <1>5, <1>6 DEF StandsOk, StandOk, Merged
<1>11. ASSUME NEW r \in Subtask, FirstActive(r) PROVE r = s
  <2>1. ~(r < s)
    BY <1>2, <1>11, LoopAssumption DEF IsCurrent, FirstActive, Active, Unresolved, Subtask
  <2>2. ~(s < r)
    BY <1>3, <1>11, LoopAssumption DEF FirstActive, Subtask
  <2> QED
    BY <2>1, <2>2, LoopAssumption DEF Subtask
<1>12. HaltedOk'
  <2>1. \A r \in Subtask : FirstActive(r)' => IsCurrent(r)' /\ Failed(att'[r])
    BY <1>2, <1>4, <1>5, <1>8, <1>11
  <2> QED
    BY <1>5, <1>6, <1>7, <1>8, <2>1 DEF HaltedOk, Stepping, Driven, Writing, Resumable
<1>13. KnownOk'
  BY <1>5, <1>6 DEF KnownOk, Stepping, Driven, Between
<1>14. NoPending'
  BY <1>5, <1>6 DEF NoPending
<1>15. PendingOk'
  BY <1>14 DEF PendingOk, NoPending
<1>16. ParkedOk'
  <2>1. ASSUME NEW r \in Subtask, sub'[r].status = "active", att'[r].diff # "none" PROVE Spoilt'
    BY <1>5, <1>6, <1>7, <2>1, SpoiltSame DEF ParkedOk, Resumable
  <2> QED
    BY <1>5, <1>6, <2>1 DEF ParkedOk, Between
<1>17. NeverRefused'
  BY <1>5, <1>6 DEF NeverRefused
<1> QED
  BY <1>9, <1>10, <1>12, <1>13, <1>15, <1>16, <1>17 DEF AcceptInv

LEMMA ListAccepts ==
  ASSUME LoopInv, AcceptInv, NEW s \in Subtask, NEW scan \in BOOLEAN, List(s, scan) PROVE AcceptInv'
<1>1. Drives(s, "escalate") /\ pc' = "listed"
  BY DEF List
<1>2. UNCHANGED <<sub, att, ledger, halted, integration, head, known, journal>>
  BY DEF List, replayed, rest
<1>3. IsCurrent(s) /\ Between /\ Step(s) = "escalate" /\ sub[s].status \in {"planned", "active"}
  BY <1>1, AtDrive
<1>4. sub[s].status = "active"
  BY <1>3 DEF Step
<1>5. StandOk("listed", att[s]) /\ "listed" \in Driven
  BY DEF StandOk, Merged, Driven
<1> QED
  BY <1>1, <1>2, <1>3, <1>4, <1>5, SameAdvances

LEMMA EscalatedAccepts ==
  ASSUME LoopInv, AcceptInv, NEW s \in Subtask, RecordEscalated(s) PROVE AcceptInv'
<1> DEFINE x == [sub[s] EXCEPT !.status = "escalated", !.item = sub[s].rounds + 1,
                               !.rounds = sub[s].rounds + 1]
<1>1. pc = "listed" /\ IsCurrent(s) /\ pc \in Driven
  BY DEF RecordEscalated, Driven
<1>2. /\ sub[s] \in SubtaskState /\ att[s] \in Attempt /\ RecordOk(sub[s], att[s])
      /\ FateOk(sub[s], att[s], ledger[s]) /\ Unresolved(s) /\ LineMayFollow /\ NoPending
      /\ sub[s].status = "active" => Active(s) /\ att[s].n # 0
  BY <1>1, AtCurrent, AtDriven
<1>3. Step(s) = "escalate"
  BY <1>1 DEF LoopInv, PlacesOk
<1>4. sub[s].status = "active" /\ Active(s) /\ att[s].n # 0
  BY <1>2, <1>3 DEF Step, Unresolved
<1>5. sub[s].ending = "no" /\ ~att[s].approved /\ Ended(att[s]) /\ att[s].routed = "yes"
  BY <1>3, StepFacts
<1>6. sub[s].next = 0
  <2>1. ~(att[s].spent /\ sub[s].next # 0)
    BY <1>3, <1>4, <1>5 DEF Step
  <2> QED
    BY <1>2, <1>4, <1>5, <2>1 DEF RecordOk, FateOk
<1>7. /\ sub' = [sub EXCEPT ![s].status = "escalated", ![s].item = sub[s].rounds + 1,
                            ![s].rounds = @ + 1]
      /\ pc' = "drive" /\ UNCHANGED <<att, ledger, halted, integration, head, known, journal>>
  BY <1>2, <1>4, <1>5 DEF RecordEscalated, Emit, outside, rest
<1>8. sub' = [sub EXCEPT ![s] = x]
  BY <1>7 DEF LoopInv, RecordType, SubtaskState
<1>9. /\ x.status = "escalated" /\ x.next = sub[s].next /\ x.fixUsed = sub[s].fixUsed
      /\ x.fixNext = sub[s].fixNext
  BY <1>2 DEF SubtaskState
<1> HIDE DEF x
<1>10. sub'[s] = x /\ att'[s] = att[s] /\ ledger'[s] = ledger[s] /\ MovesAlone(s)
  BY <1>7, <1>8 DEF MovesAlone, LoopInv, RecordType
<1>11. FateOk(x, att[s], ledger[s]) /\ ~att[s].pending
  BY <1>2, <1>6, <1>9 DEF FateOk, NoPending
<1>12. Resolves(s)
  BY <1>1, <1>7, <1>9, <1>10, <1>11 DEF Resolves
<1> QED
  BY <1>12, ResolveAccepts

LEMMA EndSubtaskAccepts ==
  ASSUME LoopInv, AcceptInv, NEW s \in Subtask, EndSubtask(s) PROVE AcceptInv'
<1> DEFINE x == [sub[s] EXCEPT !.status = "rejected", !.ending = "no"]
<1>1. Drives(s, "end")
  BY DEF EndSubtask
<1>2. /\ IsCurrent(s) /\ Between /\ Step(s) = "end"
      /\ sub[s] \in SubtaskState /\ att[s] \in Attempt
      /\ FateOk(sub[s], att[s], ledger[s])
      /\ sub[s].status \in {"planned", "active"} /\ ~att[s].pending /\ LineMayFollow
      /\ sub[s].status = "active" => Active(s)
  BY <1>1, AtDrive
<1>3. Active(s)
  BY <1>2 DEF Step
<1>4. /\ sub' = [sub EXCEPT ![s] = x]
      /\ UNCHANGED <<att, ledger, halted, integration, head, known, journal, pc>>
  BY <1>2, <1>3 DEF EndSubtask, Emit, outside, rest, LoopInv, RecordType
<1>5. /\ x.status = "rejected" /\ x.next = sub[s].next /\ x.fixUsed = sub[s].fixUsed
      /\ x.fixNext = sub[s].fixNext
  BY <1>2 DEF SubtaskState
<1> HIDE DEF x
<1>6. sub'[s] = x /\ att'[s] = att[s] /\ ledger'[s] = ledger[s] /\ MovesAlone(s)
  BY <1>4 DEF MovesAlone, LoopInv, RecordType
<1>7. FateOk(x, att[s], ledger[s])
  BY <1>2, <1>5 DEF FateOk
<1>8. Resolves(s)
  BY <1>2, <1>4, <1>5, <1>6, <1>7 DEF Resolves, Between
<1> QED
  BY <1>8, ResolveAccepts

-----------------------------------------------------------------------------
(* The merge of an attempt.                                                *)

\* What a step of the merge starts from.
LEMMA AtMerge ==
  ASSUME LoopInv, AcceptInv, NEW s \in Subtask, IsCurrent(s), pc \in Merged \cup {"diff", "diffing"}
  PROVE  /\ sub[s] \in SubtaskState /\ att[s] \in Attempt /\ ledger[s] \in LedgerLine
         /\ RecordOk(sub[s], att[s]) /\ StagesInOrder(att[s]) /\ PlaceOk(pc, sub[s], att[s])
         /\ FateOk(sub[s], att[s], ledger[s]) /\ StandOk(pc, att[s])
         /\ sub[s].status = "active" /\ att[s].n # 0 /\ Active(s) /\ LineMayFollow
         /\ halted = "no" /\ integration = "none"
<1>1. /\ sub[s] \in SubtaskState /\ att[s] \in Attempt /\ ledger[s] \in LedgerLine
      /\ RecordOk(sub[s], att[s]) /\ StagesInOrder(att[s]) /\ PlaceOk(pc, sub[s], att[s])
      /\ FateOk(sub[s], att[s], ledger[s]) /\ StandOk(pc, att[s])
      /\ Unresolved(s) /\ integration = "none"
  BY AtCurrent
<1>2. sub[s].status = "active" /\ att[s].n # 0
  BY <1>1 DEF PlaceOk, Merged, RecordOk, Unresolved
<1>3. halted = "no"
  BY DEF AcceptInv, HaltedOk, Stepping, Driven, Writing, Merged
<1> QED
  BY <1>1, <1>2, <1>3 DEF Active, LineMayFollow

\* The task ledger permits what the attempt's outcomes entitle it to.
LEMMA LedgerPermits ==
  ASSUME NEW x, NEW a \in Attempt, NEW line \in LedgerLine, StagesInOrder(a), FateOk(x, a, line),
         Cleared(a), a.review = "pass" \/ a.approved
  PROVE  /\ a.changes # "none" /\ line.gate \in AllowedGate
         /\ \/ line.review = "pass"
            \/ line.person = "approve" /\ line.review \in {"fail", "blocked", "none"}
<1>1. a.gate # "none" /\ line.gate = a.gate /\ GateLets(a) /\ a.changes = "ok"
  BY DEF Cleared, GateLets, FateOk
<1>2. line.gate \in AllowedGate
  <2>1. (a.gate = "skipped") = (GateMode = "off")
    BY <1>1 DEF StagesInOrder
  <2> QED
    BY <1>1, <2>1, LoopAssumption DEF GateLets, AllowedGate
<1>3. line.review \in {"none", "pass", "fail", "blocked"}
  BY DEF LedgerLine
<1> QED
  BY <1>1, <1>2, <1>3 DEF FateOk

LEMMA RequireAccepts ==
  ASSUME LoopInv, AcceptInv, NEW s \in Subtask, RequireMergeable(s) PROVE AcceptInv'
<1>1. pc = "merge" /\ IsCurrent(s)
  BY DEF RequireMergeable
<1>2. pc \in Merged /\ pc \in Driven
  BY <1>1 DEF Merged, Driven
<1>3. /\ att[s] \in Attempt /\ ledger[s] \in LedgerLine /\ StagesInOrder(att[s])
      /\ PlaceOk(pc, sub[s], att[s]) /\ FateOk(sub[s], att[s], ledger[s])
      /\ StandOk(pc, att[s]) /\ sub[s].status = "active"
  BY <1>1, <1>2, AtMerge
<1>4. Cleared(att[s]) /\ (att[s].review = "pass" \/ att[s].approved)
  BY <1>2, <1>3 DEF PlaceOk
<1>5. /\ att[s].changes # "none" /\ ledger[s].gate \in AllowedGate
      /\ \/ ledger[s].review = "pass"
         \/ ledger[s].person = "approve" /\ ledger[s].review \in {"fail", "blocked", "none"}
  BY <1>3, <1>4, LedgerPermits
<1>6. pc' = "apply" /\ UNCHANGED <<sub, att, ledger, halted, integration, head, known, journal>>
  BY <1>5 DEF RequireMergeable, replayed, outside, rest
<1>7. StandOk("apply", att[s]) /\ "apply" \in Driven
  BY <1>1, <1>3 DEF StandOk, Merged, Driven
<1> QED
  BY <1>1, <1>2, <1>3, <1>6, <1>7, SameAdvances

LEMMA BranchAccepts ==
  ASSUME LoopInv, AcceptInv, NEW s \in Subtask, CheckBranch(s) \/ GitMerge(s) PROVE AcceptInv'
<1>1. pc \in {"apply", "git"} /\ IsCurrent(s)
  BY DEF CheckBranch, GitMerge
<1>2. pc \in Merged /\ pc \in Driven /\ pc \notin Writing /\ pc # "halting"
  BY <1>1 DEF Merged, Driven, Writing
<1>3. StandOk(pc, att[s]) /\ sub[s].status = "active"
  BY <1>1, <1>2, AtMerge
<1>4. ASSUME NEW cause, Incident(cause) PROVE AcceptInv'
  BY <1>2, <1>4, IncidentAccepts
<1>5. ASSUME pc' \in {"git", "merged"},
             UNCHANGED <<sub, att, ledger, halted, integration, head, known, journal>>
      PROVE  AcceptInv'
  <2>1. StandOk(pc', att[s]) /\ pc' \in Driven
    BY <1>2, <1>3, <1>5 DEF StandOk, Merged, Driven
  <2> QED
    BY <1>1, <1>2, <1>3, <1>5, <2>1, SameAdvances
<1> QED
  BY <1>4, <1>5 DEF CheckBranch, GitMerge, replayed, outside, rest

LEMMA MergeAccepts ==
  ASSUME LoopInv, AcceptInv, NEW s \in Subtask, RecordMerge(s) PROVE AcceptInv'
<1> DEFINE b == [att[s] EXCEPT !.merged = TRUE]
<1>1. pc = "merged" /\ IsCurrent(s)
  BY DEF RecordMerge
<1>2. pc \in Merged /\ pc \in Driven
  BY <1>1 DEF Merged, Driven
<1>3. /\ sub[s] \in SubtaskState /\ att[s] \in Attempt
      /\ PlaceOk(pc, sub[s], att[s]) /\ FateOk(sub[s], att[s], ledger[s])
      /\ StandOk(pc, att[s]) /\ sub[s].status = "active" /\ Active(s) /\ LineMayFollow
  BY <1>1, <1>2, AtMerge
<1>4. /\ Cleared(att[s]) /\ (att[s].review = "pass" \/ att[s].approved) /\ ~att[s].merged
      /\ att[s].cursor = "decide"
  BY <1>2, <1>3 DEF PlaceOk, StandOk
<1>5. ~att[s].pending
  BY <1>1, <1>2, AtDriven DEF NoPending
<1>6. Mergeable(att[s])
  BY <1>4 DEF Mergeable, Cleared
<1>7. /\ att' = [att EXCEPT ![s].merged = TRUE] /\ pc' = "diff"
      /\ UNCHANGED <<sub, ledger, halted, integration, head, known, journal>>
  BY <1>3, <1>4, <1>5, <1>6 DEF RecordMerge, Emit, outside, rest
<1>8. att' = [att EXCEPT ![s] = b]
  BY <1>7 DEF LoopInv, RecordType
<1>9. /\ b.merged = TRUE /\ b.cursor = "decide" /\ b.n = att[s].n /\ b.session = att[s].session
      /\ b.gate = att[s].gate /\ b.review = att[s].review /\ b.unavail = att[s].unavail
      /\ b.rejected = att[s].rejected /\ b.pending = att[s].pending /\ b.diff = att[s].diff
      /\ b.routed = att[s].routed /\ b.fix = att[s].fix /\ b.approved = att[s].approved
      /\ b.spent = att[s].spent
  BY <1>3, <1>4 DEF Attempt
<1> HIDE DEF b
<1>10. att'[s] = b /\ sub'[s] = sub[s] /\ ledger'[s] = ledger[s] /\ MovesAlone(s)
  BY <1>7, <1>8 DEF MovesAlone, LoopInv, RecordType
<1>11. b.diff = "none"
  BY <1>3, <1>4, <1>9 DEF FateOk
<1>12. Ended(b) = Ended(att[s]) /\ Completed(b) = Completed(att[s])
  BY <1>9 DEF Ended, Completed
<1>13. FateOk(sub[s], b, ledger[s])
  BY <1>3, <1>4, <1>5, <1>9, <1>11, <1>12 DEF FateOk
<1>14. StandOk(pc', b) /\ pc' \in Driven /\ pc' # "drive"
  BY <1>7, <1>9, <1>11 DEF StandOk, Driven, Merged
<1>15. Advances(s)
  BY <1>1, <1>2, <1>3, <1>5, <1>9, <1>10, <1>11, <1>13, <1>14 DEF Advances
<1> QED
  BY <1>15, AdvanceAccepts

LEMMA EnterDiffAccepts ==
  ASSUME LoopInv, AcceptInv, NEW s \in Subtask, EnterDiff(s) PROVE AcceptInv'
<1> DEFINE b == [att[s] EXCEPT !.cursor = "diff"]
<1>1. pc = "diff" /\ IsCurrent(s) /\ pc \in Driven
  BY DEF EnterDiff, Driven
<1>2. /\ sub[s] \in SubtaskState /\ att[s] \in Attempt
      /\ RecordOk(sub[s], att[s]) /\ StagesInOrder(att[s])
      /\ PlaceOk("diff", sub[s], att[s]) /\ FateOk(sub[s], att[s], ledger[s])
      /\ StandOk("diff", att[s]) /\ sub[s].status = "active" /\ Active(s) /\ LineMayFollow
  BY <1>1, AtMerge
<1>3. att[s].merged /\ att[s].cursor = "decide" /\ att[s].diff = "none"
  BY <1>2 DEF PlaceOk, StandOk
<1>4. att[s].review = "pass" \/ att[s].approved
  BY <1>2, <1>3 DEF RecordOk
<1>5. (Ended(att[s]) => att[s].approved) /\ (att[s].approved => att[s].routed = "yes")
  BY <1>2, <1>4, PassNotEnded DEF FateOk
<1>6. CanEnter(att[s], "diff")
  BY <1>3, <1>5 DEF CanEnter, Ended
<1>7. ~att[s].pending
  BY <1>1, AtDriven DEF NoPending
<1>8. /\ att' = [att EXCEPT ![s] = b] /\ pc' = "diffing"
      /\ UNCHANGED <<sub, ledger, halted, integration, head, known, journal>>
  BY <1>2, <1>6 DEF EnterDiff, EmitAtt, Emit, outside, rest
<1>9. Alike(att[s], b) /\ b.cursor = "diff" /\ b.diff = "none"
  BY <1>2, <1>3 DEF Attempt, Alike
<1> HIDE DEF b
<1>10. att'[s] = b /\ sub'[s] = sub[s] /\ ledger'[s] = ledger[s] /\ MovesAlone(s)
  BY <1>8 DEF MovesAlone, LoopInv, RecordType
<1>11. Ended(b) = Ended(att[s]) /\ Completed(b) = Completed(att[s])
  BY <1>9 DEF Alike, Ended, Completed
<1>12. FateOk(sub[s], b, ledger[s])
  BY <1>2, <1>3, <1>5, <1>7, <1>9, <1>11 DEF FateOk, Alike
<1>13. StandOk(pc', b) /\ pc' \in Driven /\ pc' # "drive" /\ ~b.pending
  BY <1>7, <1>8, <1>9 DEF StandOk, Driven, Merged, Alike
<1>14. Advances(s)
  BY <1>1, <1>2, <1>9, <1>10, <1>12, <1>13 DEF Advances
<1> QED
  BY <1>14, AdvanceAccepts

\* Where the journal was just checked, what lies past the accounted head is not the run's.
LEMMA BehindSpoilt ==
  ASSUME LoopInv, Clear, head < Len(journal) PROVE Spoilt
<1>1. Unaccounted = {} /\ head \in Nat /\ Len(journal) \in Nat
  BY DEF LoopInv, JournalOk, FrameType
<1> QED
  BY <1>1 DEF Unaccounted, Spoilt

\* A handle that knows of more than the head, or not of all there is.
LEMMA HandleSpoilt ==
  ASSUME LoopInv, Clear, known >= head, known > head \/ Stale PROVE Spoilt
<1>1. known <= Len(journal) /\ head \in Nat /\ Len(journal) \in Nat /\ known \in Int
  BY DEF LoopInv, JournalOk, FrameType, Shut
<1> QED
  BY <1>1, BehindSpoilt DEF Stale

LEMMA DiffAccepts ==
  ASSUME LoopInv, AcceptInv, Accepting, NEW s \in Subtask, NEW found \in BOOLEAN, CheckDiff(s, found)
  PROVE  AcceptInv'
<1> DEFINE said == IF found THEN "divergent" ELSE "clean"
           status == IF found THEN sub[s].status ELSE "done"
           b == [att[s] EXCEPT !.diff = said]
           x == [sub[s] EXCEPT !.status = status]
<1>1. pc = "diffing" /\ IsCurrent(s) /\ pc \in Driven
  BY DEF CheckDiff, Driven
<1>2. /\ sub[s] \in SubtaskState /\ att[s] \in Attempt
      /\ PlaceOk("diffing", sub[s], att[s]) /\ FateOk(sub[s], att[s], ledger[s])
      /\ StandOk("diffing", att[s]) /\ sub[s].status = "active" /\ Active(s) /\ LineMayFollow
  BY <1>1, AtMerge
<1>3. att[s].merged /\ att[s].cursor = "diff" /\ att[s].diff = "none"
  BY <1>2 DEF PlaceOk, StandOk
<1>4. ~att[s].pending /\ known >= head
  BY <1>1, AtDriven DEF NoPending
<1>5. /\ att' = [att EXCEPT ![s].diff = said]
      /\ sub' = [sub EXCEPT ![s].status = IF found THEN @ ELSE "done"]
      /\ pc' = IF found THEN "halting" ELSE "drive"
      /\ UNCHANGED <<ledger, halted, integration, head, known, journal>>
  BY <1>2, <1>3 DEF CheckDiff, Emit, outside, rest
<1>6. att' = [att EXCEPT ![s] = b] /\ sub' = [sub EXCEPT ![s] = x]
  BY <1>5 DEF LoopInv, RecordType
<1>7. found => Spoilt \/ MaxKills = 0
  <2>1. found => Diverges \/ known > head
    BY DEF CheckDiff
  <2>2. Clear
    BY <1>1 DEF Clear
  <2> QED
    BY <1>4, <2>1, <2>2, HandleSpoilt DEF Accepting
<1>8. status = IF found THEN "active" ELSE "done"
  BY <1>2
<1> HIDE DEF said, status
<1>9. Alike(att[s], b) /\ b.cursor = "diff"
  BY <1>2, <1>3 DEF Attempt, Alike
<1>10. /\ x.status = status /\ x.next = sub[s].next /\ x.ending = sub[s].ending
       /\ x.fixUsed = sub[s].fixUsed /\ x.fixNext = sub[s].fixNext
  BY <1>2 DEF SubtaskState
<1> HIDE DEF b, x
<1>11. att'[s] = b /\ sub'[s] = x /\ ledger'[s] = ledger[s] /\ MovesAlone(s)
  BY <1>5, <1>6 DEF MovesAlone, LoopInv, RecordType
<1>12. Ended(b) = Ended(att[s]) /\ Completed(b) = Completed(att[s]) /\ ~b.pending /\ b.merged
  BY <1>3, <1>4, <1>9 DEF Alike, Ended, Completed
<1>13. FateOk(x, b, ledger[s])
  BY <1>2, <1>3, <1>4, <1>8, <1>9, <1>10, <1>12 DEF FateOk, Alike
<1>14. CASE found
  <2>1. StandOk(pc', b) /\ pc' = "halting"
    BY <1>5, <1>14 DEF StandOk, Merged
  <2>2. Advances(s)
    BY <1>1, <1>7, <1>8, <1>10, <1>11, <1>12, <1>13, <1>14, <2>1 DEF Advances
  <2> QED
    BY <2>2, AdvanceAccepts
<1>15. CASE ~found
  <2>1. Resolves(s)
    BY <1>1, <1>5, <1>8, <1>10, <1>11, <1>12, <1>13, <1>15 DEF Resolves
  <2> QED
    BY <2>1, ResolveAccepts
<1> QED
  BY <1>14, <1>15

-----------------------------------------------------------------------------
(* The proposals of an attempt into the store.                             *)

\* A step that leaves every subtask's record where it is.
Rested == /\ UNCHANGED <<sub, att, ledger, halted, integration>>
          /\ FatesOk' /\ OthersOk'
          /\ \A r \in Subtask : /\ IsCurrent(r)' = IsCurrent(r) /\ Unresolved(r)' = Unresolved(r)
                                /\ Active(r)' = Active(r) /\ MidAttempt(r)' = MidAttempt(r)
                                /\ FirstActive(r)' = FirstActive(r)

LEMMA RestedIs ==
  ASSUME AcceptInv, UNCHANGED <<sub, att, ledger, halted, integration>> PROVE Rested
<1>1. \A r \in Subtask : /\ IsCurrent(r)' = IsCurrent(r) /\ Unresolved(r)' = Unresolved(r)
                         /\ Active(r)' = Active(r) /\ MidAttempt(r)' = MidAttempt(r)
                         /\ FirstActive(r)' = FirstActive(r)
  BY RecordsRest
<1>2. FatesOk /\ OthersOk
  BY DEF AcceptInv
<1>3. FatesOk' /\ OthersOk'
  BY <1>1, <1>2 DEF FatesOk, OthersOk
<1> QED
  BY <1>1, <1>3 DEF Rested

\* No merge is checked for a cross-role write and found, and its run gone on with,
\* unless something else wrote.
LEMMA DiffsClean ==
  ASSUME AcceptInv, pc # "halting", halted \in Resumable, NEW s \in Subtask,
         sub[s].status = "active", att[s].diff # "none"
  PROVE  Spoilt
BY DEF AcceptInv, ParkedOk

LEMMA IntendAccepts ==
  ASSUME LoopInv, AcceptInv, NEW s \in Subtask, IntendWrite(s) PROVE AcceptInv'
<1> DEFINE b == [att[s] EXCEPT !.pending = TRUE]
<1>1. pc = "apply" /\ IsCurrent(s)
  BY DEF IntendWrite
<1>2. pc \in Merged /\ pc \in Driven
  BY <1>1 DEF Merged, Driven
<1>3. /\ sub[s] \in SubtaskState /\ att[s] \in Attempt
      /\ PlaceOk(pc, sub[s], att[s]) /\ FateOk(sub[s], att[s], ledger[s])
      /\ StandOk(pc, att[s]) /\ sub[s].status = "active" /\ Active(s) /\ LineMayFollow
  BY <1>1, <1>2, AtMerge
<1>4. /\ Cleared(att[s]) /\ (att[s].review = "pass" \/ att[s].approved) /\ ~att[s].merged
      /\ att[s].cursor = "decide"
  BY <1>2, <1>3 DEF PlaceOk, StandOk
<1>5. NoPending /\ halted = "no" /\ integration = "none" /\ known >= head
  BY <1>1, <1>2, AtDriven, AtCurrent
<1>6. Mergeable(att[s]) /\ ~att[s].pending
  BY <1>4, <1>5 DEF Mergeable, Cleared, NoPending
<1>7. /\ att' = [att EXCEPT ![s] = b] /\ pc' = "write"
      /\ UNCHANGED <<sub, ledger, halted, integration, head, known, journal>>
  BY <1>3, <1>4, <1>6 DEF IntendWrite, EmitAtt, Emit, outside, rest
<1>8. /\ b.merged = FALSE /\ b.cursor = "decide" /\ b.n = att[s].n /\ b.session = att[s].session
      /\ b.changes = att[s].changes
      /\ b.gate = att[s].gate /\ b.review = att[s].review /\ b.unavail = att[s].unavail
      /\ b.rejected = att[s].rejected /\ b.pending = TRUE /\ b.diff = att[s].diff
      /\ b.routed = att[s].routed /\ b.fix = att[s].fix /\ b.approved = att[s].approved
      /\ b.spent = att[s].spent
  BY <1>3, <1>4 DEF Attempt
<1> HIDE DEF b
<1>9. att'[s] = b /\ \A r \in Subtask : r # s => att'[r] = att[r]
  BY <1>7 DEF LoopInv, RecordType
<1>10. /\ Ended(b) = Ended(att[s]) /\ Completed(b) = Completed(att[s])
       /\ Cleared(b) = Cleared(att[s])
  BY <1>8 DEF Ended, Completed, Cleared, GateLets
<1>11. FateOk(sub[s], b, ledger[s])
  BY <1>3, <1>4, <1>8, <1>10 DEF FateOk
<1>12. \A r \in Subtask : IsCurrent(r)' = IsCurrent(r) /\ Unresolved(r)' = Unresolved(r)
  BY <1>7 DEF IsCurrent, Unresolved
<1>13. \A r \in Subtask : IsCurrent(r) => r = s
  BY <1>1, OneCurrent
<1>14. /\ FatesOk /\ OthersOk /\ HaltedOk
  BY DEF AcceptInv
<1>15. FatesOk' /\ OthersOk'
  BY <1>1, <1>7, <1>9, <1>11, <1>12, <1>14 DEF FatesOk, OthersOk, Active
<1>16. StandsOk'
  BY <1>7, <1>8, <1>9, <1>12, <1>13 DEF StandsOk, StandOk, Merged
<1>17. HaltedOk' /\ KnownOk'
  BY <1>5, <1>7, <1>12, <1>14
  DEF HaltedOk, KnownOk, Stepping, Driven, Writing, Between
<1>18. PendingOk'
  <2>1. \A r \in Subtask : att'[r].pending => r = s
    BY <1>5, <1>9 DEF NoPending
  <2> QED
    BY <1>1, <1>5, <1>7, <1>12, <2>1 DEF PendingOk, Stepping, Driven, Writing, Between
<1>19. ParkedOk'
  <2>1. ASSUME NEW r \in Subtask, sub'[r].status = "active", att'[r].diff # "none" PROVE Spoilt'
    <3>1. sub[r].status = "active" /\ att[r].diff # "none" /\ pc # "halting" /\ halted \in Resumable
      BY <1>1, <1>5, <1>7, <1>8, <1>9, <2>1 DEF Resumable
    <3> QED
      BY <1>7, <3>1, DiffsClean, SpoiltSame
  <2> QED
    BY <1>7, <2>1 DEF ParkedOk, Between
<1>20. NeverRefused'
  BY <1>7 DEF NeverRefused
<1> QED
  BY <1>15, <1>16, <1>17, <1>18, <1>19, <1>20 DEF AcceptInv

LEMMA StoreAccepts ==
  ASSUME LoopInv, AcceptInv, NEW s \in Subtask, StoreWrite(s) PROVE AcceptInv'
<1>1. pc = "write" /\ IsCurrent(s) /\ pc \in Merged /\ Clear
  BY DEF StoreWrite, Merged, Clear
<1>2. StandOk("write", att[s]) /\ halted = "no"
  BY <1>1, AtMerge
<1>3. known >= head
  BY <1>1 DEF AcceptInv, KnownOk
<1>4. CASE Stale
  <2>1. Spoilt /\ pc # "halting"
    BY <1>1, <1>3, <1>4, HandleSpoilt
  <2> QED
    BY <1>4, <2>1, IncidentAccepts DEF StoreWrite
<1>5. CASE ~Stale /\ known # head
  <2>1. Spoilt
    BY <1>1, <1>3, <1>5, HandleSpoilt DEF LoopInv, FrameType, Shut
  <2>2. /\ journal' = Append(journal, Write(s, att[s].applied + 1)) /\ pc' = "halting"
        /\ UNCHANGED <<sub, att, ledger, halted, integration, head>>
    BY <1>5 DEF StoreWrite, replayed
  <2>3. Spoilt'
    BY <2>1, <2>2 DEF Spoilt, Own, NotOurs, LoopInv, FrameType
  <2> QED
    BY <1>1, <2>2, <2>3, RestAccepts DEF Rests
<1>6. CASE ~Stale /\ known = head
  <2>1. /\ known' = known + 1 /\ pc' = "written"
        /\ UNCHANGED <<sub, att, ledger, halted, integration, head>>
    BY <1>6 DEF StoreWrite, replayed
  <2>2. Rested
    BY <2>1, RestedIs
  <2>3. ~Spoilt
    BY <1>6 DEF Stale, Spoilt
  <2>4. /\ StandsOk /\ HaltedOk /\ PendingOk
    BY DEF AcceptInv
  <2>5. FatesOk' /\ OthersOk'
    BY <2>2 DEF Rested
  <2>6. StandsOk'
    BY <1>1, <2>1, <2>2, <2>4 DEF Rested, StandsOk, StandOk, Merged
  <2>7. HaltedOk' /\ KnownOk'
    BY <1>1, <1>2, <1>3, <1>6, <2>1, <2>2, <2>4
    DEF Rested, HaltedOk, KnownOk, Stepping, Driven, Writing, Between, LoopInv, FrameType
  <2>8. PendingOk'
    BY <1>1, <1>2, <2>1, <2>2, <2>4
    DEF Rested, PendingOk, Stepping, Driven, Writing, Between
  <2>9. ParkedOk'
    <3>1. \A r \in Subtask : ~(sub'[r].status = "active" /\ att'[r].diff # "none")
      BY <1>1, <1>2, <2>1, <2>3, DiffsClean DEF Resumable
    <3> QED
      BY <2>1, <3>1 DEF ParkedOk, Between
  <2>10. NeverRefused'
    BY <2>1 DEF NeverRefused
  <2> QED
    BY <2>5, <2>6, <2>7, <2>8, <2>9, <2>10 DEF AcceptInv
<1> QED
  BY <1>4, <1>5, <1>6

\* The write that was intended is recorded, by the process that made it or by the one
\* that resumes the run.
LEMMA AccountAccepts ==
  ASSUME LoopInv, AcceptInv, NEW s \in Subtask, IsCurrent(s), Active(s), LineMayFollow, ~Spoilt,
         \A r \in Subtask : att[r].pending => r = s,
         att' = [att EXCEPT ![s].applied = @ + 1, ![s].pending = FALSE], head' = head + 1,
         UNCHANGED <<sub, ledger, halted, integration, known, journal>>,
         \/ pc = "written" /\ pc' = "apply"
         \/ pc = "checkResume" /\ pc' = pc
  PROVE  AcceptInv'
<1> DEFINE b == [att[s] EXCEPT !.applied = @ + 1, !.pending = FALSE]
<1>1. /\ sub[s] \in SubtaskState /\ att[s] \in Attempt /\ FateOk(sub[s], att[s], ledger[s])
      /\ StandOk(pc, att[s])
  BY AtCurrent
<1>2. halted = "no" /\ integration = "none"
  BY DEF LineMayFollow
<1>3. /\ FatesOk /\ OthersOk /\ HaltedOk /\ KnownOk /\ ParkedOk
  BY DEF AcceptInv
<1>4. att' = [att EXCEPT ![s] = b]
  BY DEF LoopInv, RecordType
<1>5. /\ b.merged = att[s].merged /\ b.cursor = att[s].cursor /\ b.n = att[s].n
      /\ b.session = att[s].session /\ b.changes = att[s].changes
      /\ b.gate = att[s].gate /\ b.review = att[s].review /\ b.unavail = att[s].unavail
      /\ b.rejected = att[s].rejected /\ b.pending = FALSE /\ b.diff = att[s].diff
      /\ b.routed = att[s].routed /\ b.fix = att[s].fix /\ b.approved = att[s].approved
      /\ b.spent = att[s].spent
  BY <1>1 DEF Attempt
<1> HIDE DEF b
<1>6. att'[s] = b /\ \A r \in Subtask : r # s => att'[r] = att[r]
  BY <1>4 DEF LoopInv, RecordType
<1>7. /\ Ended(b) = Ended(att[s]) /\ Completed(b) = Completed(att[s])
      /\ Failed(b) = Failed(att[s])
  BY <1>5 DEF Ended, Completed, Failed
<1>8. FateOk(sub[s], b, ledger[s])
  BY <1>1, <1>5, <1>7 DEF FateOk
<1>9. Parked(sub[s], b) = Parked(sub[s], att[s])
  BY <1>5, <1>7 DEF Parked
<1>10. \A r \in Subtask : IsCurrent(r)' = IsCurrent(r) /\ Unresolved(r)' = Unresolved(r)
  BY DEF IsCurrent, Unresolved
<1>11. \A r \in Subtask : IsCurrent(r) => r = s
  BY OneCurrent
<1>12. ASSUME NEW r \in Subtask
       PROVE  /\ Active(r)' = Active(r) /\ MidAttempt(r)' = MidAttempt(r)
              /\ Parked(sub[r], att[r])' = Parked(sub[r], att[r])
  <2>1. CASE r # s
    <3>1. att'[r] = att[r] /\ sub'[r] = sub[r]
      BY <1>6, <2>1
    <3> QED
      BY <3>1 DEF Active, MidAttempt
  <2>2. CASE r = s
    <3>1. att'[r] = b /\ sub'[r] = sub[r]
      BY <1>6, <2>2
    <3>2. Active(r)' = Active(r) /\ MidAttempt(r)' = MidAttempt(r)
      BY <1>5, <1>7, <2>2, <3>1 DEF Active, MidAttempt
    <3> QED
      BY <1>9, <2>2, <3>1, <3>2
  <2> QED
    BY <2>1, <2>2
<1>13. FatesOk' /\ OthersOk'
  BY <1>3, <1>6, <1>8, <1>10, <1>12 DEF FatesOk, OthersOk
<1>14. StandsOk'
  BY <1>1, <1>5, <1>6, <1>10, <1>11 DEF StandsOk, StandOk, Merged
<1>15. HaltedOk'
  BY <1>2, <1>3, <1>10 DEF HaltedOk, Stepping, Driven, Writing, Resumable
<1>16. KnownOk'
  BY <1>3 DEF KnownOk, Stepping, Driven, Between, LoopInv, FrameType, Shut
<1>17. NoPending'
  BY <1>5, <1>6 DEF NoPending
<1>18. PendingOk'
  BY <1>17 DEF PendingOk, NoPending
<1>19. ParkedOk'
  <2>1. ASSUME NEW r \in Subtask PROVE ~(sub'[r].status = "active" /\ att'[r].diff # "none")
    <3>1. att'[r].diff = att[r].diff /\ pc # "halting" /\ halted \in Resumable
      BY <1>2, <1>5, <1>6 DEF Resumable
    <3> QED
      BY <3>1, DiffsClean
  <2>2. pc = "checkResume" => AllSound'
    <3>1. pc = "checkResume" => AllSound
      BY <1>2, <1>3 DEF ParkedOk
    <3> QED
      BY <1>10, <1>12, <3>1 DEF AllSound
  <2> QED
    BY <2>1, <2>2 DEF ParkedOk, Between
<1>20. NeverRefused'
  BY DEF NeverRefused
<1> QED
  BY <1>13, <1>14, <1>15, <1>16, <1>18, <1>19, <1>20 DEF AcceptInv

LEMMA RecordWriteAccepts ==
  ASSUME LoopInv, AcceptInv, NEW s \in Subtask, RecordWrite(s) PROVE AcceptInv'
<1>1. pc = "written" /\ IsCurrent(s) /\ pc \in Merged /\ pc \in Writing
  BY DEF RecordWrite, Merged, Writing
<1>2. StandOk("written", att[s]) /\ Active(s) /\ LineMayFollow
  BY <1>1, AtMerge
<1>3. /\ att' = [att EXCEPT ![s].applied = @ + 1, ![s].pending = FALSE]
      /\ head' = head + 1 /\ pc' = "apply"
      /\ UNCHANGED <<sub, ledger, halted, integration, known, journal>>
  BY <1>2 DEF RecordWrite, Emit, StandOk, outside, rest
<1>4. ~Spoilt
  BY <1>1 DEF Spoilt, LoopInv, JournalOk, Unaccounted
<1>5. ASSUME NEW r \in Subtask, att[r].pending PROVE r = s
  BY <1>1, <1>5, OneCurrent DEF AcceptInv, PendingOk
<1> QED
  BY <1>1, <1>2, <1>3, <1>4, <1>5, AccountAccepts

-----------------------------------------------------------------------------
(* A process takes the run over.                                           *)

\* A line that was intended and is not yet recorded is met by a resume alone, and the
\* log has room for its record.
LEMMA IntendedMet ==
  ASSUME LoopInv, AcceptInv, Checking, Len(journal) > head, NEW s \in Subtask,
         Intended(s, journal[head + 1])
  PROVE  /\ pc = "checkResume" /\ ~Spoilt /\ IsCurrent(s) /\ Active(s) /\ LineMayFollow
         /\ \A r \in Subtask : att[r].pending => r = s
<1>1. att[s].pending /\ journal[head + 1] = Write(s, att[s].applied + 1)
  BY DEF Intended
<1>2. ~Spoilt
  <2>1. Write(s, att[s].applied + 1).s # NotOurs.s
    BY LoopAssumption DEF Write, NotOurs, Subtask
  <2> QED
    BY <1>1, <2>1 DEF Spoilt, Own
<1>3. PendingOk /\ HaltedOk
  BY DEF AcceptInv
<1>4. ~NoPending
  BY <1>1 DEF NoPending
<1>5. pc = "checkResume" /\ halted # "infra"
  BY <1>2, <1>3, <1>4 DEF PendingOk, Checking, Stepping, Driven
<1>6. \A r \in Subtask : att[r].pending => IsCurrent(r) /\ MidAttempt(r)
  BY <1>2, <1>3, <1>5 DEF PendingOk, Writing
<1>7. IsCurrent(s) /\ Active(s) /\ Unresolved(s)
  BY <1>1, <1>6 DEF MidAttempt, Active, Unresolved
<1>8. halted = "no" /\ integration = "none"
  BY <1>3, <1>5, <1>7 DEF HaltedOk, Resumable
<1> QED
  BY <1>2, <1>5, <1>6, <1>7, <1>8, OneCurrent DEF LineMayFollow

LEMMA CheckLineAccepts ==
  ASSUME LoopInv, AcceptInv, CheckLine PROVE AcceptInv'
<1>1. Checking /\ Len(journal) > head
  BY DEF CheckLine
<1>2. CASE Incident("journal")
  BY <1>1, <1>2, IncidentAccepts DEF Checking, Writing
<1>3. ASSUME NEW s \in Subtask, Intended(s, journal[head + 1]), LineMayFollow,
             att' = [att EXCEPT ![s].applied = @ + 1, ![s].pending = FALSE], head' = head + 1,
             UNCHANGED <<sub, ledger, halted, integration, known, journal, pc>>
      PROVE  AcceptInv'
  BY <1>1, <1>3, IntendedMet, AccountAccepts
<1>4. ASSUME NEW s \in Subtask, Intended(s, journal[head + 1]) PROVE LineMayFollow
  BY <1>1, <1>4, IntendedMet
<1> QED
  BY <1>2, <1>3, <1>4 DEF CheckLine, outside, rest

LEMMA JournalHoldsAccepts ==
  ASSUME LoopInv, AcceptInv, JournalHolds PROVE AcceptInv'
<1>1. /\ Checking /\ Len(journal) = head
      /\ pc = "checkRun" => pc' = "holdRun"
      /\ pc = "checkResume" => pc' = "holdResume"
      /\ pc = "checkSession" => pc' = "holdSession"
      /\ UNCHANGED <<sub, att, ledger, halted, integration, head, known, journal>>
  BY DEF JournalHolds, Checking, replayed, outside, rest
<1>2. ~Spoilt
  BY <1>1 DEF Spoilt
<1>3. Rested
  BY <1>1, RestedIs
<1>4. /\ StandsOk /\ HaltedOk /\ KnownOk /\ PendingOk /\ ParkedOk
  BY DEF AcceptInv
<1>5. FatesOk' /\ OthersOk'
  BY <1>3 DEF Rested
<1>6. StandsOk'
  BY <1>1, <1>3, <1>4 DEF Rested, Checking, StandsOk, StandOk, Merged
<1>7. HaltedOk'
  BY <1>1, <1>3, <1>4 DEF Rested, Checking, HaltedOk, Stepping, Driven, Writing
<1>8. KnownOk'
  BY <1>1, <1>4 DEF Checking, KnownOk, Stepping, Driven, Between
<1>9. PendingOk'
  BY <1>1, <1>2, <1>3, <1>4
  DEF Rested, Checking, PendingOk, NoPending, Stepping, Driven, Writing, Between
<1>10. ParkedOk'
  <2>1. pc # "halting" /\ halted \in Resumable
    BY <1>1, <1>4 DEF Checking, HaltedOk, Stepping, Driven, Resumable
  <2>2. \A r \in Subtask : ~(sub'[r].status = "active" /\ att'[r].diff # "none")
    BY <1>1, <1>2, <2>1, DiffsClean
  <2>3. pc = "checkRun" => AllParked'
    BY <1>1, <1>2, <1>3, <1>4 DEF Rested, ParkedOk, AllParked
  <2>4. pc = "checkResume" /\ halted = "no" => AllSound'
    BY <1>1, <1>2, <1>3, <1>4 DEF Rested, ParkedOk, AllSound
  <2> QED
    BY <1>1, <2>2, <2>3, <2>4 DEF Checking, ParkedOk, Between
<1>11. NeverRefused'
  BY <1>1 DEF Checking, NeverRefused
<1> QED
  BY <1>5, <1>6, <1>7, <1>8, <1>9, <1>10, <1>11 DEF AcceptInv

LEMMA HoldAccepts ==
  ASSUME LoopInv, AcceptInv, NEW reopens \in BOOLEAN, Hold(reopens) PROVE AcceptInv'
<1>1. /\ pc \in {"holdRun", "holdResume", "holdSession"}
      /\ known' = IF reopens \/ known = Shut THEN Len(journal) ELSE known
      /\ pc = "holdRun" => pc' = "drive"
      /\ pc = "holdResume" => pc' = "checkBranch"
      /\ pc = "holdSession" => pc' = "judge"
      /\ UNCHANGED <<sub, att, ledger, halted, integration, head, journal>>
  BY DEF Hold, replayed, outside
<1>2. Rested
  BY <1>1, RestedIs
<1>3. /\ StandsOk /\ HaltedOk /\ KnownOk /\ PendingOk /\ ParkedOk
  BY DEF AcceptInv
<1>4. FatesOk' /\ OthersOk'
  BY <1>2 DEF Rested
<1>5. StandsOk'
  BY <1>1, <1>2, <1>3 DEF Rested, StandsOk, StandOk, Merged
<1>6. HaltedOk'
  BY <1>1, <1>2, <1>3 DEF Rested, HaltedOk, Stepping, Driven, Writing
<1>7. known' >= head
  BY <1>1, <1>3 DEF KnownOk, Stepping, Driven, LoopInv, JournalOk, FrameType
<1>8. KnownOk'
  BY <1>1, <1>7 DEF KnownOk
<1>9. PendingOk'
  BY <1>1, <1>2, <1>3
  DEF Rested, PendingOk, NoPending, Stepping, Driven, Writing, Between
<1>10. ParkedOk'
  <2>1. pc # "halting" /\ halted \in Resumable
    BY <1>1, <1>3 DEF HaltedOk, Stepping, Driven, Resumable
  <2>2. \A r \in Subtask : sub'[r].status = "active" /\ att'[r].diff # "none" => Spoilt'
    BY <1>1, <2>1, DiffsClean, SpoiltSame
  <2>3. pc = "holdRun" => AllParked'
    BY <1>1, <1>2, <1>3 DEF Rested, ParkedOk, AllParked
  <2>4. pc = "holdResume" /\ halted = "no" => AllSound'
    BY <1>1, <1>2, <1>3 DEF Rested, ParkedOk, AllSound
  <2> QED
    BY <1>1, <2>2, <2>3, <2>4 DEF ParkedOk, Between
<1>11. NeverRefused'
  BY <1>1 DEF NeverRefused
<1> QED
  BY <1>4, <1>5, <1>6, <1>8, <1>9, <1>10, <1>11 DEF AcceptInv

\* What a resume leaves of the attempt it takes over can be gone on with.
LEMMA ResumedParked ==
  ASSUME NEW x, NEW a \in Attempt, NEW line, NEW y, RecordOk(x, a), FateOk(x, a, line),
         ~Ended(a), a.n # 0, x.status = "active", y.status = "active",
         y.fixUsed = x.fixUsed, y.fixNext = x.fixNext, y.ending = x.ending,
         y.next = IF ResumePoint(a) = "resolve" THEN a.n ELSE x.next
  PROVE  LET c == Resumed(a)
         IN  FateOk(y, c, line) /\ Parked(y, c) /\ c.pending = FALSE /\ c.diff = "none"
<1> DEFINE b == [a EXCEPT !.pending = FALSE, !.retries = IF halted = "no" THEN @ ELSE 0]
           c == Resumed(a)
<1>1. ~a.approved /\ ~a.spent /\ ~a.rejected /\ a.routed = "none" /\ a.n \in Nat
  BY DEF RecordOk, FateOk, Ended, Attempt
<1>2. /\ b \in Attempt /\ b.pending = FALSE /\ b.n = a.n /\ b.fix = a.fix
      /\ b.session = a.session /\ b.changes = a.changes /\ b.gate = a.gate
      /\ b.review = a.review /\ b.unavail = a.unavail /\ b.cursor = a.cursor
      /\ b.rejected = a.rejected /\ b.merged = a.merged /\ b.applied = a.applied
      /\ b.routed = a.routed /\ b.approved = a.approved /\ b.spent = a.spent
  BY ResumedFields
<1>3. b.diff = a.diff
  BY DEF Attempt
<1>4. c = CASE ResumePoint(a) = "resolve" -> Restarted(b, "none")
            [] ResumePoint(a) = "verify_reading" -> Restarted(b, "spawn")
            [] OTHER -> [b EXCEPT !.cursor = "decide", !.diff = "none"]
  BY DEF Resumed
<1> HIDE DEF b
<1>5. CASE a.merged
  <2> DEFINE d == [b EXCEPT !.cursor = "decide", !.diff = "none"]
  <2>1. ResumePoint(a) = "diff"
    BY <1>5 DEF ResumePoint
  <2>2. c = d /\ y.next = x.next
    BY <1>4, <2>1
  <2>3. /\ d.cursor = "decide" /\ d.diff = "none" /\ d.n = b.n /\ d.session = b.session
        /\ d.gate = b.gate /\ d.review = b.review /\ d.unavail = b.unavail
        /\ d.rejected = b.rejected /\ d.merged = b.merged /\ d.pending = b.pending
        /\ d.routed = b.routed /\ d.fix = b.fix /\ d.approved = b.approved /\ d.spent = b.spent
    BY <1>2 DEF Attempt
  <2> HIDE DEF d, c
  <2>4. ~Ended(d) /\ Completed(d) = Completed(a)
    BY <1>2, <2>3 DEF Ended, Completed
  <2>5. FateOk(y, d, line)
    BY <1>1, <1>2, <2>2, <2>3, <2>4 DEF FateOk
  <2>6. Parked(y, d)
    BY <1>2, <1>5, <2>3 DEF Parked
  <2> QED
    BY <1>2, <2>2, <2>3, <2>5, <2>6 DEF c
<1>6. CASE ~a.merged
  <2> DEFINE e == IF Completed(a) THEN "spawn" ELSE "none"
             d == Restarted(b, e)
  <2>1. ResumePoint(a) = IF Completed(a) THEN "verify_reading" ELSE "resolve"
    BY <1>6 DEF ResumePoint
  <2>2. c = d /\ y.next = IF Completed(a) THEN x.next ELSE a.n
    BY <1>4, <2>1
  <2>3. e \in {"none", "resolve", "spawn"} /\ e = IF Completed(a) THEN "spawn" ELSE "none"
    OBVIOUS
  <2> HIDE DEF e
  <2>4. /\ d.cursor = e /\ d.session = IF e = "spawn" THEN b.session ELSE "none"
        /\ d.changes = "none" /\ d.gate = "none" /\ d.review = "none"
        /\ d.unavail = "none" /\ d.n = b.n /\ d.rejected = b.rejected
        /\ d.merged = b.merged /\ d.pending = b.pending /\ d.routed = b.routed
        /\ d.fix = b.fix /\ d.approved = b.approved /\ d.spent = b.spent
    BY <1>2, <2>3, RestartedFields
  <2>5. d.diff = "none"
    <3>1. d.diff = b.diff
      BY <1>2 DEF Restarted, Attempt
    <3>2. a.diff = "none"
      BY <1>6 DEF FateOk
    <3> QED
      BY <1>3, <3>1, <3>2
  <2> HIDE DEF d, c
  <2>6. ~Ended(d) /\ Completed(d) = Completed(a)
    BY <1>1, <1>2, <2>3, <2>4 DEF Ended, Completed
  <2>7. y.next # a.n + 1 \/ y.next = x.next
    BY <1>1, <2>2
  <2>8. FateOk(y, d, line)
    BY <1>1, <1>2, <1>6, <2>2, <2>3, <2>4, <2>5, <2>6, <2>7 DEF FateOk
  <2>9. Parked(y, d)
    BY <1>2, <1>6, <2>2, <2>3, <2>4, <2>6 DEF Parked, Completed
  <2> QED
    BY <1>2, <2>2, <2>4, <2>5, <2>8, <2>9 DEF c
<1> QED
  BY <1>5, <1>6

\* The attempt that a resume takes over did not end, and its run has no verdict yet.
LEMMA InterruptedFacts ==
  ASSUME LoopInv, AcceptInv, NEW s \in Subtask, Interrupted(s), halted \in Resumable
  PROVE  /\ Active(s) /\ Unresolved(s) /\ ~Ended(att[s]) /\ integration = "none"
         /\ halted = "infra" => IsCurrent(s)
<1>1. HaltedOk /\ att[s] \in Attempt /\ RecordOk(sub[s], att[s]) /\ StagesInOrder(att[s])
  BY DEF AcceptInv, LoopInv, RecordType, RecordsOk, StagesOk
<1>2. Active(s) /\ Unresolved(s)
  BY DEF Interrupted, MidAttempt, FirstActive, Active, Unresolved
<1>3. integration = "none"
  BY <1>1, <1>2 DEF HaltedOk
<1>4. CASE halted = "no"
  BY <1>2, <1>3, <1>4 DEF Interrupted, MidAttempt
<1>5. CASE halted = "infra"
  <2>1. IsCurrent(s) /\ Failed(att[s])
    BY <1>1, <1>5 DEF Interrupted, HaltedOk
  <2> QED
    BY <1>1, <1>2, <1>3, <2>1, FailedFacts
<1> QED
  BY <1>4, <1>5 DEF Resumable

\* Where nothing is interrupted, the subtask that is driven is between attempts.
LEMMA NoneInterrupted ==
  ASSUME NEW s \in Subtask, IsCurrent(s), halted = "no", \A r \in Subtask : ~Interrupted(r)
  PROVE  ~MidAttempt(s)
<1>1. \A q \in 1 .. s - 1 : q \in Subtask
  BY LoopAssumption DEF Subtask
<1> QED
  BY <1>1 DEF IsCurrent, Interrupted, MidAttempt, Active, Unresolved

LEMMA ResumeAccepts ==
  ASSUME LoopInv, AcceptInv, NEW s \in Subtask, pc = "checkBranch", Interrupted(s),
         att' = [att EXCEPT ![s] = Resumed(@)],
         sub' = [sub EXCEPT ![s].next = IF ResumePoint(att[s]) = "resolve" THEN att[s].n ELSE @],
         halted' = "no", pc' = "drive",
         UNCHANGED <<ledger, integration, head, known, journal>>
  PROVE  AcceptInv'
<1> DEFINE next == IF ResumePoint(att[s]) = "resolve" THEN att[s].n ELSE sub[s].next
           x == [sub[s] EXCEPT !.next = next]
           c == Resumed(att[s])
<1>1. /\ FatesOk /\ OthersOk /\ HaltedOk /\ KnownOk /\ PendingOk /\ ParkedOk
  BY DEF AcceptInv
<1>2. halted \in Resumable
  BY <1>1 DEF HaltedOk
<1>3. /\ Active(s) /\ Unresolved(s) /\ ~Ended(att[s]) /\ integration = "none"
      /\ halted = "infra" => IsCurrent(s)
  BY <1>2, InterruptedFacts
<1>4. /\ sub[s] \in SubtaskState /\ att[s] \in Attempt /\ RecordOk(sub[s], att[s])
      /\ FateOk(sub[s], att[s], ledger[s]) /\ sub[s].status = "active" /\ att[s].n # 0
  BY <1>1, <1>3 DEF LoopInv, RecordType, RecordsOk, FatesOk, Active
<1>5. sub' = [sub EXCEPT ![s] = x] /\ att' = [att EXCEPT ![s] = c]
  BY DEF LoopInv, RecordType
<1>6. next = IF ResumePoint(att[s]) = "resolve" THEN att[s].n ELSE sub[s].next
  OBVIOUS
<1> HIDE DEF next
<1>7. /\ x.status = "active" /\ x.next = next /\ x.fixUsed = sub[s].fixUsed
      /\ x.fixNext = sub[s].fixNext /\ x.ending = sub[s].ending
  BY <1>4 DEF SubtaskState
<1> HIDE DEF x
<1>8. FateOk(x, c, ledger[s]) /\ Parked(x, c) /\ c.pending = FALSE /\ c.diff = "none"
  <2>1. x.next = IF ResumePoint(att[s]) = "resolve" THEN att[s].n ELSE sub[s].next
    BY <1>6, <1>7
  <2> QED
    BY <1>3, <1>4, <1>7, <2>1, ResumedParked
<1> HIDE DEF c
<1>9. /\ sub'[s] = x /\ att'[s] = c
      /\ \A r \in Subtask : r # s => sub'[r] = sub[r] /\ att'[r] = att[r]
  BY <1>5 DEF LoopInv, RecordType
<1>10. \A r \in Subtask : Unresolved(r)' = Unresolved(r)
  BY <1>4, <1>7, <1>9 DEF Unresolved
<1>11. ASSUME NEW r \in Subtask PROVE IsCurrent(r)' = IsCurrent(r)
  <2>1. \A q \in 1 .. r - 1 : q \in Subtask
    BY LoopAssumption DEF Subtask
  <2> QED
    BY <1>10, <2>1 DEF IsCurrent
<1>12. ASSUME NEW r \in Subtask, IsCurrent(r), r # s PROVE halted = "no" /\ ~MidAttempt(r)
  <2>1. halted = "no"
    BY <1>2, <1>3, <1>12, OneCurrent DEF Resumable
  <2>2. r \in 1 .. s - 1
    BY <1>3, <1>12, LoopAssumption DEF IsCurrent, Subtask
  <2> QED
    BY <2>1, <2>2 DEF Interrupted
<1>13. FatesOk'
  BY <1>1, <1>8, <1>9 DEF FatesOk
<1>14. ASSUME NEW r \in Subtask, Active(r)' PROVE Parked(sub[r], att[r])'
  <2>1. CASE r = s
    BY <1>8, <1>9, <2>1
  <2>2. CASE r # s /\ ~IsCurrent(r)
    BY <1>1, <1>9, <1>14, <2>2 DEF OthersOk, Active
  <2>3. CASE r # s /\ IsCurrent(r)
    <3>1. Active(r) /\ sub'[r] = sub[r] /\ att'[r] = att[r]
      BY <1>9, <1>14, <2>3 DEF Active
    <3>2. AllSound
      BY <1>1, <1>12, <2>3 DEF ParkedOk
    <3> QED
      BY <1>12, <2>3, <3>1, <3>2 DEF AllSound
  <2> QED
    BY <2>1, <2>2, <2>3
<1>15. OthersOk' /\ AllParked'
  BY <1>14 DEF OthersOk, AllParked
<1>16. StandsOk'
  BY DEF StandsOk, StandOk, Merged
<1>17. HaltedOk' /\ KnownOk'
  BY <1>1, <1>3 DEF HaltedOk, KnownOk, Stepping, Driven, Writing
<1>18. NoPending'
  <2>1. ASSUME NEW r \in Subtask, r # s, att[r].pending PROVE FALSE
    <3>1. IsCurrent(r) /\ MidAttempt(r)
      BY <1>1, <2>1 DEF PendingOk, Writing
    <3> QED
      BY <1>12, <2>1, <3>1
  <2> QED
    BY <1>8, <1>9, <2>1 DEF NoPending
<1>19. PendingOk'
  BY <1>18 DEF PendingOk, NoPending
<1>20. ParkedOk'
  <2>1. ASSUME NEW r \in Subtask, sub'[r].status = "active", att'[r].diff # "none" PROVE Spoilt'
    BY <1>2, <1>8, <1>9, <2>1, DiffsClean, SpoiltSame
  <2> QED
    BY <1>15, <2>1 DEF ParkedOk
<1>21. NeverRefused'
  BY DEF NeverRefused
<1> QED
  BY <1>13, <1>15, <1>16, <1>17, <1>19, <1>20, <1>21 DEF AcceptInv

LEMMA TakeOverAccepts ==
  ASSUME LoopInv, AcceptInv, TakeOver PROVE AcceptInv'
<1>1. pc = "checkBranch" /\ HaltedOk /\ KnownOk /\ PendingOk /\ ParkedOk
  BY DEF TakeOver, AcceptInv
<1>2. halted \in Resumable
  BY <1>1 DEF HaltedOk
<1>3. CASE Incident("branch")
  BY <1>1, <1>3, IncidentAccepts DEF Writing
<1>4. ASSUME \A s \in Subtask : ~Interrupted(s), pc' = "drive",
             UNCHANGED <<sub, att, ledger, halted, integration, head, known, journal>>
      PROVE  AcceptInv'
  <2>1. Rested
    BY <1>4, RestedIs
  <2>2. FatesOk' /\ OthersOk'
    BY <2>1 DEF Rested
  <2>3. StandsOk'
    BY <1>4 DEF StandsOk, StandOk, Merged
  <2>4. HaltedOk' /\ KnownOk'
    BY <1>1, <1>4, <2>1 DEF Rested, HaltedOk, KnownOk, Stepping, Driven, Writing
  <2>5. halted = "no" => \A s \in Subtask : IsCurrent(s) => ~MidAttempt(s)
    BY <1>4, NoneInterrupted
  <2>6. NoPending'
    <3>1. ASSUME NEW s \in Subtask, att[s].pending PROVE FALSE
      BY <1>1, <1>2, <2>5, <3>1 DEF PendingOk, NoPending, Writing, Resumable
    <3> QED
      BY <1>4, <3>1 DEF NoPending
  <2>7. PendingOk'
    BY <2>6 DEF PendingOk, NoPending
  <2>8. ParkedOk'
    <3>1. halted = "no" => AllParked'
      BY <1>1, <1>4, <2>1, <2>5 DEF Rested, ParkedOk, AllSound, AllParked
    <3>2. \A s \in Subtask : sub'[s].status = "active" /\ att'[s].diff # "none" => Spoilt'
      BY <1>1, <1>2, <1>4, DiffsClean, SpoiltSame
    <3> QED
      BY <1>4, <3>1, <3>2 DEF ParkedOk, Between
  <2>9. NeverRefused'
    BY <1>4 DEF NeverRefused
  <2> QED
    BY <2>2, <2>3, <2>4, <2>7, <2>8, <2>9 DEF AcceptInv
<1>5. ASSUME NEW s \in Subtask, Interrupted(s) PROVE integration = "none" /\ ~Ended(att[s])
  BY <1>2, <1>5, InterruptedFacts
<1>6. \/ Incident("branch")
      \/ /\ \A s \in Subtask : ~Interrupted(s)
         /\ pc' = "drive" /\ UNCHANGED <<replayed, outside, why, rest>>
      \/ \E s \in Subtask :
           /\ Interrupted(s) /\ att' = [att EXCEPT ![s] = Resumed(@)]
           /\ sub' = [sub EXCEPT ![s].next = IF ResumePoint(att[s]) = "resolve" THEN att[s].n ELSE @]
           /\ halted' = "no" /\ pc' = "drive"
           /\ UNCHANGED <<ledger, integration, integEsc, head, recorded, taken, cleaned, outside,
                          why, rest>>
  BY <1>5 DEF TakeOver
<1>7. CASE /\ \A s \in Subtask : ~Interrupted(s)
           /\ pc' = "drive" /\ UNCHANGED <<replayed, outside, why, rest>>
  BY <1>4, <1>7 DEF replayed, outside, rest
<1>8. ASSUME NEW s \in Subtask, Interrupted(s), att' = [att EXCEPT ![s] = Resumed(@)],
             sub' = [sub EXCEPT ![s].next = IF ResumePoint(att[s]) = "resolve" THEN att[s].n ELSE @],
             halted' = "no", pc' = "drive",
             UNCHANGED <<ledger, integration, integEsc, head, recorded, taken, cleaned, outside,
                         why, rest>>
      PROVE  AcceptInv'
  BY <1>1, <1>8, ResumeAccepts DEF outside, rest
<1> QED
  BY <1>3, <1>6, <1>7, <1>8

LEMMA HaltAccepts ==
  ASSUME LoopInv, AcceptInv, Halt PROVE AcceptInv'
<1>1. /\ pc \in {"halting", "haltingOpen"} /\ halted' = why /\ pc' \in {"drive", "down"}
      /\ UNCHANGED <<sub, att, ledger, integration, head, known, journal>>
  BY DEF Halt, outside, rest
<1>2. halted' \in Cause
  BY <1>1 DEF LoopInv, PlacesOk, FrameType
<1>3. halted' \notin Resumable
  BY <1>2 DEF Cause, Resumable
<1>4. \A r \in Subtask : /\ IsCurrent(r)' = IsCurrent(r) /\ Unresolved(r)' = Unresolved(r)
                         /\ Active(r)' = Active(r) /\ MidAttempt(r)' = MidAttempt(r)
  BY <1>1, RecordsRest
<1>5. /\ FatesOk /\ OthersOk /\ HaltedOk /\ PendingOk /\ ParkedOk
  BY DEF AcceptInv
<1>6. FatesOk' /\ OthersOk'
  BY <1>1, <1>4, <1>5 DEF FatesOk, OthersOk
<1>7. StandsOk'
  BY <1>1 DEF StandsOk, StandOk, Merged
<1>8. HaltedOk'
  BY <1>1, <1>3, <1>4, <1>5 DEF HaltedOk, Stepping, Driven, Writing, Resumable
<1>9. KnownOk'
  BY <1>1, <1>3 DEF KnownOk, Stepping, Driven, Between, Resumable
<1>10. PendingOk'
  <2>1. ASSUME NEW r \in Subtask, att'[r].pending PROVE Spoilt' \/ (IsCurrent(r)' /\ MidAttempt(r)')
    BY <1>1, <1>4, <1>5, <2>1, SpoiltSame DEF PendingOk, Writing
  <2> QED
    BY <1>1, <1>3, <2>1 DEF PendingOk, Stepping, Driven, Writing, Between, Resumable
<1>11. ParkedOk'
  <2>1. ASSUME NEW r \in Subtask, sub'[r].status = "active", att'[r].diff # "none"
        PROVE  Spoilt' \/ MaxKills = 0
    BY <1>1, <1>5, <2>1, SpoiltSame DEF ParkedOk
  <2> QED
    BY <1>1, <1>3, <2>1 DEF ParkedOk, Between, Resumable
<1>12. NeverRefused'
  BY <1>1 DEF NeverRefused
<1> QED
  BY <1>6, <1>7, <1>8, <1>9, <1>10, <1>11, <1>12 DEF AcceptInv

\* A step that leaves all that is accepted or refused as it is.
LEMMA SameAccepts ==
  ASSUME AcceptInv, UNCHANGED <<sub, att, ledger, halted, integration, head, known, journal, pc>>
  PROVE  AcceptInv'
<1>1. Rested
  BY RestedIs
<1>2. \A r \in Subtask : Parked(sub[r], att[r])' = Parked(sub[r], att[r])
  BY RecordsRest
<1>3. Spoilt' = Spoilt
  BY DEF Spoilt
<1>4. /\ StandsOk /\ HaltedOk /\ KnownOk /\ PendingOk /\ ParkedOk /\ NeverRefused
  BY DEF AcceptInv
<1>5. FatesOk' /\ OthersOk'
  BY <1>1 DEF Rested
<1>6. StandsOk'
  BY <1>1, <1>4 DEF Rested, StandsOk
<1>7. HaltedOk' /\ KnownOk' /\ NeverRefused'
  BY <1>1, <1>4 DEF Rested, HaltedOk, NoneLeft, KnownOk, Between, NeverRefused
<1>8. PendingOk'
  BY <1>1, <1>3, <1>4 DEF Rested, PendingOk, NoPending, Between
<1>9. ParkedOk'
  <2>1. AllParked' = AllParked /\ AllSound' = AllSound
    BY <1>1, <1>2 DEF Rested, AllParked, AllSound
  <2>2. \A s \in Subtask : sub'[s].status = "active" /\ att'[s].diff # "none" =>
          Spoilt' \/ (MaxKills = 0 /\ (pc' = "halting" \/ halted' \notin Resumable))
    BY <1>3, <1>4 DEF ParkedOk
  <2> QED
    BY <1>3, <1>4, <2>1, <2>2 DEF ParkedOk, Between
<1> QED
  BY <1>5, <1>6, <1>7, <1>8, <1>9 DEF AcceptInv

\* A step between two attempts, or where none is left, that moves no record.
LEMMA BetweenAccepts ==
  ASSUME LoopInv, AcceptInv, Between \/ pc = "integItem", pc' \in {"drive", "integItem"},
         UNCHANGED <<sub, att, ledger, halted, head, known, journal>>,
         (\E s \in Subtask : Unresolved(s)) => integration' = "none",
         integration' = "off" => GateMode = "off"
  PROVE  AcceptInv'
<1>1. \A r \in Subtask : /\ IsCurrent(r)' = IsCurrent(r) /\ Unresolved(r)' = Unresolved(r)
                         /\ Active(r)' = Active(r)
                         /\ Parked(sub[r], att[r])' = Parked(sub[r], att[r])
  BY RecordsRest
<1>2. /\ FatesOk /\ OthersOk /\ HaltedOk /\ KnownOk /\ PendingOk /\ ParkedOk
  BY DEF AcceptInv
<1>3. /\ halted = "no" /\ known >= head /\ NoPending /\ AllParked /\ pc # "halting"
  BY <1>2 DEF HaltedOk, KnownOk, PendingOk, ParkedOk, Between, Stepping
<1>4. FatesOk' /\ OthersOk'
  BY <1>1, <1>2 DEF FatesOk, OthersOk
<1>5. StandsOk'
  BY DEF StandsOk, StandOk, Merged
<1>6. HaltedOk' /\ KnownOk' /\ NeverRefused'
  BY <1>1, <1>3 DEF HaltedOk, KnownOk, NeverRefused, Resumable
<1>7. NoPending' /\ AllParked'
  BY <1>1, <1>3 DEF NoPending, AllParked
<1>8. PendingOk'
  BY <1>7 DEF PendingOk, NoPending
<1>9. ParkedOk'
  <2>1. \A s \in Subtask : sub'[s].status = "active" /\ att'[s].diff # "none" => Spoilt'
    BY <1>3, DiffsClean, SpoiltSame DEF Resumable
  <2> QED
    BY <1>7, <2>1 DEF ParkedOk
<1> QED
  BY <1>4, <1>5, <1>6, <1>8, <1>9 DEF AcceptInv

\* The integration call, and what the process does where nothing is left to drive.
LEMMA IntegrationAccepts ==
  ASSUME LoopInv, AcceptInv,
         ListIntegration \/ RecordIntegEsc \/ \E verdict \in {"pass", "fail"} : Integrate(verdict)
  PROVE  AcceptInv'
<1>1. /\ HaltedOk
      /\ UNCHANGED <<sub, att, ledger, halted, head, known, journal>>
  BY DEF AcceptInv, ListIntegration, RecordIntegEsc, Integrate, replayed, outside, rest
<1>2. CASE ListIntegration \/ RecordIntegEsc
  <2>1. /\ Between \/ pc = "integItem"
        /\ integration' = integration /\ pc' \in {"drive", "integItem"}
    BY <1>2 DEF ListIntegration, RecordIntegEsc, Between, replayed
  <2> QED
    BY <1>1, <2>1, BetweenAccepts DEF HaltedOk
<1>3. ASSUME NEW verdict \in {"pass", "fail"}, Integrate(verdict) PROVE AcceptInv'
  <2>1. Between /\ NoneLeft /\ pc' = "drive" /\ (integration' = "off" => GateMode = "off")
    BY <1>3 DEF Integrate, Between
  <2> QED
    BY <1>1, <2>1, BetweenAccepts DEF NoneLeft
<1> QED
  BY <1>2, <1>3

LEMMA LeaveAccepts ==
  ASSUME LoopInv, AcceptInv, LeaveLoop PROVE AcceptInv'
<1>1. /\ pc = "drive" /\ pc' = "ending" /\ (halted # "no" \/ NoneLeft)
      /\ UNCHANGED <<sub, att, ledger, halted, integration, head, journal>>
  BY DEF LeaveLoop, replayed, outside
<1> QED
  BY <1>1, SpoiltSame, RestAccepts DEF Rests, Writing

\* A process that ends, or that reads through a stale handle, leaves the run as it is.
LEMMA EndAccepts ==
  ASSUME LoopInv, AcceptInv, Finish \/ DiffStale PROVE AcceptInv'
<1>1. /\ pc' = "down" /\ UNCHANGED <<sub, att, ledger, halted, integration, head, journal>>
      /\ pc = "ending" \/ (pc = "diffing" /\ Stale)
  BY DEF Finish, DiffStale, replayed, outside, rest
<1>2. /\ HaltedOk /\ KnownOk /\ PendingOk /\ ParkedOk
  BY DEF AcceptInv
<1>3. Rested
  BY <1>1, RestedIs
<1>4. pc = "diffing" => Spoilt
  BY <1>1, <1>2, HandleSpoilt DEF Clear, KnownOk, Stepping, Driven
<1>5. FatesOk' /\ OthersOk'
  BY <1>3 DEF Rested
<1>6. StandsOk'
  BY <1>1 DEF StandsOk, StandOk, Merged
<1>7. HaltedOk' /\ KnownOk' /\ NeverRefused'
  BY <1>1, <1>2, <1>3
  DEF Rested, HaltedOk, KnownOk, NeverRefused, Stepping, Driven, Writing, Between
<1>8. PendingOk'
  <2>1. ASSUME NEW r \in Subtask, att'[r].pending PROVE Spoilt' \/ (IsCurrent(r)' /\ MidAttempt(r)')
    BY <1>1, <1>2, <1>3, <2>1, SpoiltSame DEF Rested, PendingOk, Writing
  <2>2. halted' = "infra" => NoPending'
    BY <1>1, <1>2 DEF PendingOk, NoPending
  <2> QED
    BY <1>1, <2>1, <2>2 DEF PendingOk, Stepping, Driven, Writing, Between
<1>9. ParkedOk'
  <2>1. ASSUME NEW r \in Subtask, sub'[r].status = "active", att'[r].diff # "none"
        PROVE  Spoilt' \/ (MaxKills = 0 /\ halted' \notin Resumable)
    BY <1>1, <1>2, <2>1, SpoiltSame DEF ParkedOk
  <2>2. halted' = "no" => Spoilt' \/ AllSound'
    <3>1. CASE pc = "diffing"
      BY <1>1, <1>4, <3>1, SpoiltSame
    <3>2. CASE pc = "ending"
      BY <1>1, <1>2, <1>3, <3>2 DEF HaltedOk, NoneLeft, Rested, IsCurrent, AllSound
    <3> QED
      BY <1>1, <3>1, <3>2
  <2> QED
    BY <1>1, <2>1, <2>2 DEF ParkedOk, Between
<1> QED
  BY <1>5, <1>6, <1>7, <1>8, <1>9 DEF AcceptInv

\* An attempt that ended had a session whose end was read.
LEMMA EndedCompleted ==
  ASSUME NEW a \in Attempt, StagesInOrder(a), Ended(a) PROVE Completed(a)
BY DEF StagesInOrder, Ended, Completed, Refused, GateLets

\* The records of a subtask after a decision with this effect.
DecidesTo(effect, x, a, line, y, b, m) ==
  /\ m.gate = line.gate /\ m.review = line.review
  /\ effect = "merge" => m.person = "approve"
  /\ y.status = "active" /\ y.fixUsed = x.fixUsed
  /\ effect = "fix" => y.fixNext /\ a.review = "blocked"
  /\ effect = "retry" => ~x.fixUsed /\ a.n < Budget
  /\ effect \in Orders => y.next = a.n + 1
  /\ effect \notin Orders => y.next = x.next
  /\ effect = "end" => y.ending # "no"
  /\ b.approved => effect = "merge"
  /\ b.spent <=> effect # "merge"
  /\ effect = "merge" => b.cursor = "decide"
  /\ effect # "merge" => b.cursor = a.cursor
  /\ b.n = a.n /\ b.fix = a.fix /\ b.session = a.session /\ b.changes = a.changes
  /\ b.gate = a.gate /\ b.review = a.review /\ b.unavail = a.unavail
  /\ b.rejected = a.rejected /\ b.merged = a.merged /\ b.pending = a.pending
  /\ b.routed = a.routed /\ b.diff = a.diff

\* A decided attempt is entitled to what the decision says.
LEMMA DecidedFate ==
  ASSUME NEW x \in SubtaskState, NEW a \in Attempt, NEW line, RecordOk(x, a),
         StagesInOrder(a), FateOk(x, a, line), x.status = "escalated", ~a.pending, Acts,
         NEW effect \in {"merge", "fix", "end", "retry"}, NEW y, NEW b, NEW m,
         DecidesTo(effect, x, a, line, y, b, m)
  PROVE  FateOk(y, b, m) /\ Parked(y, b)
<1>1. /\ Ended(a) /\ a.routed = "yes" /\ ~a.approved /\ a.n \in Nat /\ x.next = 0
      /\ ~(a.fix /\ a.review = "blocked")
  BY DEF RecordOk, FateOk, Attempt
<1>2. Completed(a) /\ ~a.merged /\ a.cursor # "none"
  BY <1>1, EndedCompleted, EndedNotMerged DEF FateOk
<1>3. Ended(b) /\ b.cursor # "none" /\ ~b.merged
  BY <1>1, <1>2 DEF Ended, DecidesTo
<1>4. y.next = b.n + 1 => ~b.fix /\ (b.n < Budget \/ y.fixNext) /\ b.spent
  <2>1. CASE effect = "retry"
    <3>1. ~a.fix
      BY <2>1 DEF FateOk, DecidesTo
    <3> QED
      BY <2>1, <3>1 DEF DecidesTo
  <2>2. CASE effect = "fix"
    BY <1>1, <2>2 DEF DecidesTo
  <2>3. CASE effect \in {"merge", "end"}
    BY <1>1, <2>3 DEF DecidesTo, Orders
  <2> QED
    BY <2>1, <2>2, <2>3
<1>5. b.spent => y.next = b.n + 1 \/ y.ending # "no"
  BY DEF DecidesTo, Orders
<1>6. b.approved => m.person = "approve" /\ b.cursor = "decide"
  BY DEF DecidesTo
<1>7. FateOk(y, b, m)
  BY <1>1, <1>2, <1>3, <1>4, <1>5, <1>6 DEF FateOk, DecidesTo
<1>8. Parked(y, b)
  BY <1>3 DEF Parked
<1> QED
  BY <1>7, <1>8

\* The subtask that a person decided on is active again, among the others.
LEMMA ReopenedAccepts ==
  ASSUME LoopInv, AcceptInv, NEW s \in Subtask, Between, pc' = pc,
         UNCHANGED <<halted, head, known, journal>>, integration' = "none",
         \A r \in Subtask : r # s => sub'[r] = sub[r] /\ att'[r] = att[r] /\ ledger'[r] = ledger[r],
         FateOk(sub'[s], att'[s], ledger'[s]), Parked(sub'[s], att'[s]),
         ~att'[s].pending, att'[s].diff = "none"
  PROVE  AcceptInv'
<1>1. /\ FatesOk /\ OthersOk /\ HaltedOk /\ KnownOk /\ PendingOk /\ ParkedOk
  BY DEF AcceptInv
<1>2. /\ halted = "no" /\ known >= head /\ NoPending /\ AllParked /\ pc = "drive"
  BY <1>1 DEF KnownOk, PendingOk, ParkedOk, Between
<1>3. FatesOk'
  BY <1>1 DEF FatesOk
<1>4. ASSUME NEW r \in Subtask, Active(r)' PROVE Parked(sub[r], att[r])'
  <2>1. CASE r = s
    BY <2>1
  <2>2. CASE r # s
    <3>1. Active(r) /\ sub'[r] = sub[r] /\ att'[r] = att[r]
      BY <1>4, <2>2 DEF Active
    <3>2. Parked(sub[r], att[r])
      BY <1>1, <1>2, <3>1 DEF OthersOk, AllParked
    <3> QED
      BY <3>1, <3>2
  <2> QED
    BY <2>1, <2>2
<1>5. OthersOk' /\ AllParked'
  BY <1>4 DEF OthersOk, AllParked
<1>6. StandsOk'
  BY <1>2 DEF StandsOk, StandOk, Merged
<1>7. HaltedOk' /\ KnownOk' /\ NeverRefused'
  BY <1>2 DEF HaltedOk, KnownOk, NeverRefused, Resumable
<1>8. NoPending'
  BY <1>2 DEF NoPending
<1>9. PendingOk'
  BY <1>8 DEF PendingOk, NoPending
<1>10. ParkedOk'
  <2>1. ASSUME NEW r \in Subtask, sub'[r].status = "active", att'[r].diff # "none" PROVE Spoilt'
    BY <1>2, <2>1, DiffsClean, SpoiltSame DEF Resumable
  <2> QED
    BY <1>2, <1>5, <2>1 DEF ParkedOk
<1> QED
  BY <1>3, <1>5, <1>6, <1>7, <1>9, <1>10 DEF AcceptInv

LEMMA DecisionAccepts ==
  ASSUME LoopInv, AcceptInv, Accepting, NEW item \in items, NEW i \in 1..Len(decisions),
         TakeDecision(item, i)
  PROVE  AcceptInv'
<1> DEFINE s == item.id[1]
           verb == decisions[i].verb
           effect == Effect(item, decisions[i])
           merges == (effect = "merge")
           spends == (effect # "merge")
           cursor == IF effect = "merge" THEN "decide" ELSE att[s].cursor
           next == IF effect \in Orders THEN att[s].n + 1 ELSE sub[s].next
           fixNext == (effect = "fix")
           ending == IF effect = "end" THEN "person" ELSE sub[s].ending
           b == [att[s] EXCEPT !.approved = merges, !.spent = spends, !.cursor = cursor]
           x == [sub[s] EXCEPT !.status = "active", !.next = next, !.fixNext = fixNext,
                               !.ending = ending]
           m == [ledger[s] EXCEPT !.person = verb]
<1>1. /\ Between /\ Acts /\ pc' = pc /\ UNCHANGED <<halted, head, known, journal>>
  BY DEF TakeDecision, Deciding, AtABoundary, Between, outside, rest
<1>2. CASE UNCHANGED <<sub, att, ledger, integration>>
  BY <1>1, <1>2, SameAccepts
<1>3. CASE ~UNCHANGED <<sub, att, ledger, integration>>
  <2>1. /\ item.id[2] # 0 /\ sub[s].status = "escalated" /\ effect # "none"
        /\ item.does = Consequence(s, item.scan)
        /\ integration' = Reopened(integration)
        /\ ledger' = [ledger EXCEPT ![s].person = verb]
        /\ att' = [att EXCEPT ![s].approved = (effect = "merge"),
                              ![s].spent = (effect # "merge"),
                              ![s].cursor = IF effect = "merge" THEN "decide" ELSE @]
        /\ sub' = [sub EXCEPT ![s].status = "active",
                     ![s].next = IF effect \in Orders THEN att[s].n + 1 ELSE @,
                     ![s].fixNext = (effect = "fix"),
                     ![s].ending = IF effect = "end" THEN "person" ELSE @]
    BY <1>3 DEF TakeDecision
  <2>2. s \in Subtask /\ item.scan \in BOOLEAN /\ verb \in Verb
    <3>1. item \in Item /\ decisions[i] \in Decision
      BY DEF LoopInv, FrameType
    <3>2. item.id \in ItemId /\ item.scan \in BOOLEAN /\ decisions[i].verb \in Verb
      BY <3>1 DEF Item, Decision
    <3>3. item.id[2] # 0
      BY <2>1
    <3> QED
      BY <3>2, <3>3 DEF ItemId
  <2>3. /\ sub[s] \in SubtaskState /\ att[s] \in Attempt /\ ledger[s] \in LedgerLine
        /\ RecordOk(sub[s], att[s]) /\ StagesInOrder(att[s])
        /\ FateOk(sub[s], att[s], ledger[s])
    BY <2>2 DEF LoopInv, AcceptInv, RecordType, FrameType, RecordsOk, StagesOk, FatesOk
  <2>4. /\ effect \in {"merge", "fix", "end", "retry"}
        /\ effect = "fix" => att[s].review = "blocked"
    <3>1. /\ effect \in {"merge", "fix", "end", "retry", "none"}
          /\ effect = "fix" => att[s].review = "blocked"
      <4> HIDE DEF s
      <4> QED
        BY <2>1, <2>2, EffectIs
    <3> HIDE DEF effect, s
    <3> QED
      BY <2>1, <3>1
  <2>5. /\ effect = "merge" => verb = "approve"
        /\ effect = "retry" => ~sub[s].fixUsed /\ att[s].n < Budget
    <3>1. att[s].n \in Int /\ Budget \in Int
      BY <2>3, LoopAssumption DEF Attempt
    <3>2. /\ effect = "merge" => verb = "approve"
          /\ effect = "retry" => ~sub[s].fixUsed /\ ~(att[s].n >= Budget)
      <4> HIDE DEF s
      <4> QED
        BY <2>1, <2>2, EffectIs
    <3> HIDE DEF effect, verb, s
    <3> QED
      BY <3>1, <3>2
  <2>6. /\ att' = [att EXCEPT ![s] = b] /\ ledger' = [ledger EXCEPT ![s] = m]
    <3> HIDE DEF effect, verb
    <3> QED
      BY <2>1, <2>2 DEF LoopInv, RecordType, FrameType
  <2>7. sub' = [sub EXCEPT ![s] = x]
    <3> HIDE DEF effect
    <3> QED
      BY <2>1, <2>2 DEF LoopInv, RecordType
  <2>8. /\ merges = (effect = "merge") /\ spends = (effect # "merge") /\ fixNext = (effect = "fix")
        /\ cursor = IF effect = "merge" THEN "decide" ELSE att[s].cursor
        /\ next = IF effect \in Orders THEN att[s].n + 1 ELSE sub[s].next
        /\ ending = IF effect = "end" THEN "person" ELSE sub[s].ending
    OBVIOUS
  <2> HIDE DEF effect, verb, merges, spends, cursor, next, fixNext, ending
  <2>9. m.gate = ledger[s].gate /\ m.review = ledger[s].review /\ m.person = verb
    BY <2>3 DEF LedgerLine
  <2>10. /\ x.status = "active" /\ x.next = next /\ x.fixNext = fixNext /\ x.ending = ending
         /\ x.fixUsed = sub[s].fixUsed
    BY <2>3 DEF SubtaskState
  <2>11. /\ b.approved = merges /\ b.spent = spends /\ b.cursor = cursor
         /\ b.n = att[s].n /\ b.fix = att[s].fix
         /\ b.session = att[s].session /\ b.changes = att[s].changes /\ b.gate = att[s].gate
         /\ b.review = att[s].review /\ b.unavail = att[s].unavail
         /\ b.rejected = att[s].rejected /\ b.merged = att[s].merged
         /\ b.pending = att[s].pending /\ b.routed = att[s].routed /\ b.diff = att[s].diff
    BY <2>3 DEF Attempt
  <2> HIDE DEF b, x, m
  <2>12. /\ sub'[s] = x /\ att'[s] = b /\ ledger'[s] = m
         /\ \A r \in Subtask : r # s => sub'[r] = sub[r] /\ att'[r] = att[r] /\ ledger'[r] = ledger[r]
    BY <2>2, <2>6, <2>7 DEF LoopInv, RecordType, FrameType
  <2>13. NoPending
    BY <1>1 DEF AcceptInv, PendingOk
  <2>14. ~att[s].pending
    BY <2>2, <2>13 DEF NoPending
  <2> HIDE DEF s
  <2>15. FateOk(x, b, m) /\ Parked(x, b)
    <3>1. DecidesTo(effect, sub[s], att[s], ledger[s], x, b, m)
      BY <2>4, <2>5, <2>8, <2>9, <2>10, <2>11 DEF DecidesTo
    <3>2. sub[s].status = "escalated" /\ Acts
      BY <1>1, <2>1
    <3> QED
      BY <2>3, <2>4, <2>14, <3>1, <3>2, DecidedFate
  <2>16. b.diff = "none" /\ ~b.pending
    BY <2>1, <2>3, <2>11, <2>14, EndedNotMerged DEF FateOk, RecordOk
  <2>17. integration' = "none"
    <3>1. integration # "off"
      BY <1>1 DEF AcceptInv, HaltedOk, Accepting
    <3>2. integration \notin {"pass", "fail"}
      BY <2>1, <2>2 DEF LoopInv, DesignOk
    <3> QED
      BY <2>1, <3>1, <3>2 DEF Reopened, LoopInv, FrameType
  <2> QED
    BY <1>1, <2>2, <2>12, <2>15, <2>16, <2>17, ReopenedAccepts
<1> QED
  BY <1>2, <1>3

LEMMA MismatchAccepts ==
  ASSUME LoopInv, AcceptInv, NEW item \in items, NEW i \in 1..Len(decisions),
         DecisionMismatch(item, i)
  PROVE  AcceptInv'
<1>1. Incident("decision") /\ pc = "drive"
  BY DEF DecisionMismatch
<1> QED
  BY <1>1, IncidentAccepts DEF Writing

-----------------------------------------------------------------------------
(* Kills, the store's other writers, and a run taken over.                 *)

\* An attempt with a session that was read is interrupted until it ends.
LEMMA CompletedMid ==
  ASSUME NEW s \in Subtask, Active(s), Completed(att[s]), ~Ended(att[s]), att[s].diff = "none",
         RecordOk(sub[s], att[s]), FateOk(sub[s], att[s], ledger[s])
  PROVE  MidAttempt(s)
<1>1. att[s].cursor # "none" /\ ~Failed(att[s])
  BY DEF FateOk, Failed, Completed
<1>2. sub[s].next = 0
  BY DEF RecordOk, Active
<1> QED
  BY <1>1, <1>2 DEF MidAttempt

\* Wherever a kill leaves an attempt that no person approved, the loop can go on from it.
LEMMA KilledSound ==
  ASSUME NEW s \in Subtask, Active(s), ~att[s].approved, att[s].diff = "none",
         att[s] \in Attempt, StagesInOrder(att[s]),
         RecordOk(sub[s], att[s]), FateOk(sub[s], att[s], ledger[s])
  PROVE  MidAttempt(s) \/ Parked(sub[s], att[s])
<1>1. CASE Ended(att[s])
  BY <1>1, EndedNotMerged DEF Parked
<1>2. CASE ~Ended(att[s]) /\ Completed(att[s])
  BY <1>2, CompletedMid
<1>3. CASE ~Ended(att[s]) /\ ~Completed(att[s])
  <2>1. ~att[s].merged
    BY <1>3 DEF RecordOk, Cleared, Completed
  <2>2. CASE att[s].session # "none"
    BY <1>3, <2>1, <2>2 DEF Parked
  <2>3. CASE att[s].session = "none" /\ sub[s].next = att[s].n
    BY <1>3, <2>1, <2>3 DEF Parked
  <2>4. CASE att[s].session = "none" /\ sub[s].next # att[s].n
    <3>1. sub[s].next = 0 /\ att[s].cursor # "none"
      BY <1>3, <2>4 DEF RecordOk, FateOk, Active
    <3> QED
      BY <1>3, <2>4, <3>1 DEF MidAttempt, Failed
  <2> QED
    BY <2>2, <2>3, <2>4
<1> QED
  BY <1>1, <1>2, <1>3

LEMMA KillAccepts ==
  ASSUME LoopInv, AcceptInv, Accepting, Kill PROVE AcceptInv'
<1>1. /\ pc' = "down" /\ UNCHANGED <<sub, att, ledger, halted, integration, head, journal>>
      /\ kills < MaxKills
  BY DEF Kill, replayed, outside
<1>2. MaxKills # 0
  BY <1>1, LoopAssumption DEF LoopInv, FrameType
<1>3. /\ FatesOk /\ OthersOk /\ HaltedOk /\ PendingOk /\ ParkedOk
  BY DEF AcceptInv
<1>4. Rested
  BY <1>1, RestedIs
<1>5. FatesOk' /\ OthersOk'
  BY <1>4 DEF Rested
<1>6. StandsOk'
  BY <1>1 DEF StandsOk, StandOk, Merged
<1>7. HaltedOk' /\ KnownOk' /\ NeverRefused'
  BY <1>1, <1>3, <1>4
  DEF Rested, HaltedOk, KnownOk, NeverRefused, Stepping, Driven, Writing, Between
<1>8. \A r \in Subtask : /\ att[r] \in Attempt /\ RecordOk(sub[r], att[r])
                         /\ StagesInOrder(att[r]) /\ FateOk(sub[r], att[r], ledger[r])
  BY <1>3 DEF LoopInv, RecordType, RecordsOk, StagesOk, FatesOk
<1>9. \A r \in Subtask : ~att[r].approved
  BY <1>2, <1>8 DEF FateOk, Accepting
<1>10. PendingOk'
  <2>1. ASSUME NEW r \in Subtask, att'[r].pending PROVE Spoilt' \/ (IsCurrent(r)' /\ MidAttempt(r)')
    <3>1. att[r].pending
      BY <1>1, <2>1
    <3>2. CASE Spoilt
      BY <1>1, <3>2, SpoiltSame
    <3>3. CASE IsCurrent(r)
      <4>1. /\ sub[r].status = "active" /\ ~att[r].merged /\ Cleared(att[r])
            /\ att[r].review = "pass"
        BY <1>8, <1>9, <3>1 DEF FateOk
      <4>2. Active(r) /\ ~Ended(att[r]) /\ Completed(att[r]) /\ att[r].diff = "none"
        BY <1>8, <4>1, PassNotEnded DEF Active, RecordOk, FateOk, Cleared, Completed
      <4>3. MidAttempt(r)
        BY <1>8, <4>2, CompletedMid
      <4> QED
        BY <1>4, <3>3, <4>3 DEF Rested
    <3> QED
      BY <1>3, <3>1, <3>2, <3>3 DEF PendingOk
  <2>2. halted' = "infra" => NoPending'
    BY <1>1, <1>3 DEF PendingOk, NoPending
  <2> QED
    BY <1>1, <2>1, <2>2 DEF PendingOk, Stepping, Driven, Writing, Between
<1>11. ParkedOk'
  <2>1. ASSUME NEW r \in Subtask, sub'[r].status = "active", att'[r].diff # "none" PROVE Spoilt'
    BY <1>1, <1>2, <1>3, <2>1, SpoiltSame DEF ParkedOk
  <2>2. ASSUME ~Spoilt', NEW r \in Subtask, Active(r)'
        PROVE  MidAttempt(r)' \/ Parked(sub'[r], att'[r])
    <3>1. Active(r) /\ att[r].diff = "none"
      BY <1>1, <1>4, <2>1, <2>2 DEF Rested, Active
    <3>2. MidAttempt(r) \/ Parked(sub[r], att[r])
      BY <1>8, <1>9, <3>1, KilledSound
    <3> QED
      BY <1>1, <1>4, <3>2 DEF Rested
  <2> QED
    BY <1>1, <2>1, <2>2 DEF ParkedOk, AllSound, Between
<1> QED
  BY <1>5, <1>6, <1>7, <1>10, <1>11 DEF AcceptInv

LEMMA ForeignAccepts ==
  ASSUME LoopInv, AcceptInv, ForeignLine PROVE AcceptInv'
<1>1. /\ journal' = Append(journal, NotOurs)
      /\ UNCHANGED <<sub, att, ledger, halted, integration, head, known, pc>>
  BY DEF ForeignLine, replayed, rest
<1>2. Spoilt => Spoilt'
  BY <1>1 DEF Spoilt, Own, NotOurs, LoopInv, FrameType
<1>3. Rested
  BY <1>1, RestedIs
<1>4. /\ StandsOk /\ HaltedOk /\ KnownOk /\ PendingOk /\ ParkedOk /\ NeverRefused
  BY DEF AcceptInv
<1>5. FatesOk' /\ OthersOk'
  BY <1>3 DEF Rested
<1>6. StandsOk'
  BY <1>1, <1>3, <1>4 DEF Rested, StandsOk
<1>7. HaltedOk'
  BY <1>1, <1>3, <1>4 DEF Rested, HaltedOk, NoneLeft
<1>8. KnownOk' /\ NeverRefused'
  BY <1>1, <1>4 DEF KnownOk, NeverRefused, Between
<1>9. (NoPending' <=> NoPending) /\ (AllParked' <=> AllParked) /\ (AllSound' <=> AllSound)
  BY <1>1, <1>3 DEF Rested, NoPending, AllParked, AllSound
<1>10. PendingOk'
  BY <1>1, <1>2, <1>3, <1>4, <1>9 DEF Rested, PendingOk, Between
<1>11. ParkedOk'
  BY <1>1, <1>2, <1>4, <1>9 DEF ParkedOk, Between
<1> QED
  BY <1>5, <1>6, <1>7, <1>8, <1>10, <1>11 DEF AcceptInv

\* A planned subtask that is removed leaves the others where they are.
LEMMA RemoveAccepts ==
  ASSUME LoopInv, AcceptInv, NEW s \in Subtask, RemoveSubtask(s) PROVE AcceptInv'
<1> DEFINE x == [sub[s] EXCEPT !.status = "removed"]
<1>1. /\ pc = "down" /\ pc' = pc /\ sub[s].status = "planned"
      /\ halted = "no" /\ integration = "none" /\ sub' = [sub EXCEPT ![s].status = "removed"]
      /\ UNCHANGED <<att, ledger, halted, integration, head, known, journal>>
  BY DEF RemoveSubtask, LineMayFollow, outside, rest
<1>2. /\ FatesOk /\ OthersOk /\ HaltedOk /\ KnownOk /\ PendingOk /\ ParkedOk
  BY DEF AcceptInv
<1>3. sub[s] \in SubtaskState /\ sub' = [sub EXCEPT ![s] = x]
  BY <1>1 DEF LoopInv, RecordType
<1>4. /\ x.status = "removed" /\ x.next = sub[s].next /\ x.fixUsed = sub[s].fixUsed
      /\ x.fixNext = sub[s].fixNext /\ x.ending = sub[s].ending
  BY <1>3 DEF SubtaskState
<1> HIDE DEF x
<1>5. sub'[s] = x /\ \A r \in Subtask : r # s => sub'[r] = sub[r]
  BY <1>3 DEF LoopInv, RecordType
<1>6. FateOk(sub[s], att[s], ledger[s])
  BY <1>2 DEF FatesOk
<1>7. FateOk(x, att[s], ledger[s])
  BY <1>1, <1>4, <1>6 DEF FateOk
<1>8. FatesOk'
  BY <1>1, <1>2, <1>5, <1>7 DEF FatesOk
<1>9. ASSUME NEW r \in Subtask PROVE Unresolved(r)' => Unresolved(r)
  BY <1>1, <1>4, <1>5 DEF Unresolved
<1>10. ASSUME NEW r \in Subtask, sub[r].status = "active"
       PROVE  /\ r # s /\ sub'[r] = sub[r] /\ att'[r] = att[r]
              /\ MidAttempt(r)' = MidAttempt(r) /\ (IsCurrent(r) => IsCurrent(r)')
  <2>1. r # s /\ sub'[r] = sub[r] /\ att'[r] = att[r]
    BY <1>1, <1>5, <1>10
  <2>2. \A q \in 1 .. r - 1 : q \in Subtask
    BY LoopAssumption DEF Subtask
  <2> QED
    BY <1>9, <2>1, <2>2 DEF MidAttempt, Active, IsCurrent, Unresolved
<1>11. ASSUME NEW r \in Subtask, sub'[r].status = "active" PROVE sub[r].status = "active"
  BY <1>4, <1>5, <1>11
<1>12. OthersOk'
  BY <1>2, <1>10, <1>11 DEF OthersOk, Active
<1>13. StandsOk'
  BY <1>1 DEF StandsOk, StandOk, Merged
<1>14. HaltedOk' /\ KnownOk' /\ NeverRefused'
  BY <1>1 DEF HaltedOk, KnownOk, NeverRefused, Stepping, Driven, Writing, Between
<1>15. PendingOk'
  <2>1. ASSUME NEW r \in Subtask, att'[r].pending PROVE Spoilt' \/ (IsCurrent(r)' /\ MidAttempt(r)')
    <3>1. Spoilt \/ (IsCurrent(r) /\ MidAttempt(r))
      BY <1>1, <1>2, <2>1 DEF PendingOk, Writing
    <3>2. CASE Spoilt
      BY <1>1, <3>2, SpoiltSame
    <3>3. CASE IsCurrent(r) /\ MidAttempt(r)
      BY <1>10, <3>3 DEF MidAttempt, Active
    <3> QED
      BY <3>1, <3>2, <3>3
  <2> QED
    BY <1>1, <2>1 DEF PendingOk, Stepping, Driven, Writing, Between
<1>16. ParkedOk'
  <2>1. ASSUME NEW r \in Subtask, sub'[r].status = "active", att'[r].diff # "none" PROVE Spoilt'
    <3>1. sub[r].status = "active" /\ att[r].diff # "none" /\ pc # "halting" /\ halted \in Resumable
      BY <1>1, <1>11, <2>1 DEF Resumable
    <3> QED
      BY <1>1, <3>1, DiffsClean, SpoiltSame
  <2>2. ASSUME ~Spoilt', NEW r \in Subtask, Active(r)'
        PROVE  MidAttempt(r)' \/ Parked(sub'[r], att'[r])
    <3>1. Active(r) /\ sub'[r] = sub[r] /\ att'[r] = att[r] /\ MidAttempt(r)' = MidAttempt(r)
      BY <1>10, <1>11, <2>2 DEF Active
    <3>2. CASE IsCurrent(r)
      <4>1. Spoilt \/ AllSound
        BY <1>1, <1>2 DEF ParkedOk
      <4>2. AllSound
        BY <1>1, <2>2, <4>1, SpoiltSame
      <4> QED
        BY <3>1, <3>2, <4>2 DEF AllSound
    <3>3. CASE ~IsCurrent(r)
      BY <1>2, <3>1, <3>3 DEF OthersOk
    <3> QED
      BY <3>2, <3>3
  <2> QED
    BY <1>1, <2>1, <2>2 DEF ParkedOk, AllSound, Between
<1> QED
  BY <1>8, <1>12, <1>13, <1>14, <1>15, <1>16 DEF AcceptInv

\* What starts a process starts it where the run can go on from.
LEMMA CommandAccepts ==
  ASSUME LoopInv, AcceptInv, NEW cmd, Command(cmd) PROVE AcceptInv'
<1>1. /\ FatesOk /\ OthersOk /\ HaltedOk /\ PendingOk /\ ParkedOk /\ NeverRefused
  BY DEF AcceptInv
<1>2. /\ pc = "down" /\ known' = Shut
      /\ UNCHANGED <<sub, att, ledger, halted, integration, head, journal>>
  BY <1>1 DEF Command, NeverRefused, replayed, outside
<1>3. \/ pc' = "checkRun" /\ halted = "no" /\ \A s \in Subtask : ~Interrupted(s)
      \/ pc' = "drive" /\ halted # "no"
      \/ pc' = "checkResume" /\ halted \in Resumable
  BY DEF Command
<1>4. Rested
  BY <1>2, RestedIs
<1>5. FatesOk' /\ OthersOk'
  BY <1>4 DEF Rested
<1>6. StandsOk'
  BY <1>3 DEF StandsOk, StandOk, Merged
<1>7. HaltedOk'
  BY <1>1, <1>2, <1>3, <1>4 DEF Rested, HaltedOk, Stepping, Driven, Writing
<1>8. KnownOk' /\ NeverRefused'
  BY <1>2, <1>3 DEF KnownOk, NeverRefused, Stepping, Driven, Between
<1>9. ASSUME NEW s \in Subtask, att[s].pending PROVE Spoilt \/ (IsCurrent(s) /\ MidAttempt(s))
  BY <1>1, <1>2, <1>9 DEF PendingOk, Writing
<1>10. Spoilt => Spoilt'
  BY <1>2, SpoiltSame
<1>11. /\ NoPending' <=> NoPending
       /\ AllParked' <=> AllParked
       /\ AllSound' <=> AllSound
  BY <1>2, <1>4 DEF Rested, NoPending, AllParked, AllSound
<1>12. CASE pc' = "checkRun" /\ halted = "no" /\ \A s \in Subtask : ~Interrupted(s)
  <2>1. ASSUME NEW s \in Subtask, IsCurrent(s) PROVE ~MidAttempt(s)
    BY <1>12, <2>1, NoneInterrupted
  <2>2. Spoilt \/ NoPending
    BY <1>9, <2>1 DEF NoPending
  <2>3. Spoilt \/ AllParked
    BY <1>1, <1>2, <1>12, <2>1 DEF ParkedOk, AllSound, AllParked
  <2>4. PendingOk'
    BY <1>2, <1>4, <1>9, <1>10, <1>11, <1>12, <2>2
    DEF Rested, PendingOk, Stepping, Driven, Writing, Between
  <2>5. ParkedOk'
    BY <1>1, <1>2, <1>10, <1>11, <1>12, <2>3 DEF ParkedOk, Between
  <2> QED
    BY <1>5, <1>6, <1>7, <1>8, <2>4, <2>5 DEF AcceptInv
<1>13. CASE \/ pc' = "drive" /\ halted # "no"
            \/ pc' = "checkResume" /\ halted \in Resumable
  <2>1. PendingOk'
    BY <1>1, <1>2, <1>4, <1>9, <1>10, <1>11, <1>13
    DEF Rested, PendingOk, Stepping, Driven, Writing, Between
  <2>2. ParkedOk'
    BY <1>1, <1>2, <1>10, <1>11, <1>13 DEF ParkedOk, Between
  <2> QED
    BY <1>5, <1>6, <1>7, <1>8, <2>1, <2>2 DEF AcceptInv
<1> QED
  BY <1>3, <1>12, <1>13

-----------------------------------------------------------------------------
(* The invariant, and that no line is refused.                             *)

LEMMA AcceptInit == Init => AcceptInv
<1> SUFFICES ASSUME Init PROVE AcceptInv
  OBVIOUS
<1>1. /\ \A s \in Subtask : sub[s] = Planned /\ att[s] = Fresh(0, FALSE)
      /\ pc = "down" /\ halted = "no" /\ integration = "none"
  BY DEF Init
<1>2. \A line : FateOk(Planned, Fresh(0, FALSE), line)
  BY DEF FateOk, Planned, Fresh, Ended, Completed
<1>3. FatesOk
  BY <1>1, <1>2 DEF FatesOk
<1>4. \A s \in Subtask : ~Active(s) /\ ~att[s].pending /\ sub[s].status # "active"
  BY <1>1 DEF Active, Planned, Fresh
<1>5. OthersOk /\ NoPending /\ AllSound
  BY <1>4 DEF OthersOk, NoPending, AllSound
<1>6. StandsOk
  BY <1>1 DEF StandsOk, StandOk, Merged
<1>7. HaltedOk /\ KnownOk /\ NeverRefused
  BY <1>1 DEF HaltedOk, KnownOk, NeverRefused, Stepping, Driven, Writing, Between
<1>8. PendingOk
  BY <1>1, <1>4 DEF PendingOk, Stepping, Driven, Writing, Between
<1>9. ParkedOk
  BY <1>1, <1>4, <1>5 DEF ParkedOk, Between
<1> QED
  BY <1>3, <1>5, <1>6, <1>7, <1>8, <1>9 DEF AcceptInv

LEMMA MergingAccepts ==
  ASSUME LoopInv, AcceptInv, Accepting, NEW s \in Subtask, Merging(s) PROVE AcceptInv'
BY RequireAccepts, IntendAccepts, StoreAccepts, RecordWriteAccepts, BranchAccepts,
   MergeAccepts, EnterDiffAccepts, DiffAccepts DEF Merging

LEMMA AttemptingAccepts ==
  ASSUME LoopInv, AcceptInv, Accepting, NEW s \in Subtask, Attempting(s) PROVE AcceptInv'
<1>1. CASE InfraFailed(s)
  BY <1>1, RetryAccepts, InfraHaltAccepts
<1>2. ASSUME NEW end \in Ends, NEW shows \in BOOLEAN, SessionEnds(s, end, shows) PROVE AcceptInv'
  BY <1>2, SessionAccepts, LoopAssumption
<1>3. CASE Continue(s) \/ BeginAttempt(s) \/ Spawn(s)
  BY <1>3, ContinueAccepts, BeginAccepts, SpawnAccepts
<1>4. CASE Judging(s) \/ Merging(s)
  BY <1>4, JudgingAccepts, MergingAccepts
<1>5. CASE \/ Decide(s) \/ RecordEscalated(s) \/ EndSubtask(s)
           \/ \E scan \in BOOLEAN : List(s, scan)
  BY <1>5, DecideAccepts, EscalatedAccepts, EndSubtaskAccepts, ListAccepts
<1> QED
  BY <1>1, <1>2, <1>3, <1>4, <1>5 DEF Attempting

LEMMA AcceptStep ==
  ASSUME LoopInv, AcceptInv, Accepting, [Next]_vars PROVE AcceptInv'
<1>1. CASE CheckLine \/ JournalHolds \/ TakeOver \/ \E reopens \in BOOLEAN : Hold(reopens)
  BY <1>1, CheckLineAccepts, JournalHoldsAccepts, TakeOverAccepts, HoldAccepts
<1>2. CASE Halt \/ DiffStale \/ LeaveLoop \/ Finish
  BY <1>2, HaltAccepts, EndAccepts, LeaveAccepts
<1>3. ASSUME NEW item \in items, NEW i \in 1..Len(decisions),
             TakeDecision(item, i) \/ DecisionMismatch(item, i)
      PROVE  AcceptInv'
  BY <1>3, DecisionAccepts, MismatchAccepts
<1>4. ASSUME NEW s \in Subtask, Attempting(s) PROVE AcceptInv'
  BY <1>4, AttemptingAccepts
<1>5. CASE \/ \E verdict \in {"pass", "fail"} : Integrate(verdict)
           \/ ListIntegration \/ RecordIntegEsc
  BY <1>5, IntegrationAccepts
<1>6. CASE Process
  BY <1>1, <1>2, <1>3, <1>4, <1>5, <1>6 DEF Process
<1>7. ASSUME NEW item \in items, NEW verb \in Verb, NEW long \in BOOLEAN,
             PersonDecides(item, verb, long)
      PROVE  AcceptInv'
  BY <1>7, SameAccepts DEF PersonDecides, replayed, rest
<1>8. CASE Kill \/ ForeignLine \/ \E s \in Subtask : RemoveSubtask(s)
  BY <1>8, KillAccepts, ForeignAccepts, RemoveAccepts
<1>9. CASE \E cmd \in {"run", "resume"} : Command(cmd)
  BY <1>9, CommandAccepts
<1>10. CASE UNCHANGED vars
  BY <1>10, SameAccepts DEF vars, replayed, outside, rest
<1> QED
  BY <1>6, <1>7, <1>8, <1>9, <1>10 DEF Next, Environment

\* The loop never tries a line that the replay of its own log refuses, so every run and
\* resume finds the run where it can go on from: through any number of kills, where no
\* decision acts and no merge may be divergent; and through decisions that act, where
\* nothing is killed and the gate is not off (resume, _resume).
THEOREM LinesNeverRefused == Accepting => (Spec => []NeverRefused)
<1> SUFFICES ASSUME Accepting PROVE Spec => []NeverRefused
  OBVIOUS
<1>1. LoopInv /\ AcceptInv /\ [Next]_vars => AcceptInv'
  BY AcceptStep
<1>2. AcceptInv => NeverRefused
  BY DEF AcceptInv
<1> QED
  BY <1>1, <1>2, AcceptInit, LoopInit, LoopStep, PTL DEF Spec
=============================================================================
