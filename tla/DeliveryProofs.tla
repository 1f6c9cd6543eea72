--------------------------- MODULE DeliveryProofs ---------------------------
(***************************************************************************)
(* A run implements Delivery: the log of a run that is killed and resumed  *)
(* between any two steps, and whose effects are written and recorded one   *)
(* after the other, accounts at every moment for a run of the plan.        *)
(***************************************************************************)
EXTENDS RunLoopProofs, SequenceTheorems

-----------------------------------------------------------------------------
(* Starts of the journal and of the branch.                                *)

\* The start of a list that only grew past it.
LEMMA PrefixStays ==
  ASSUME NEW S, NEW q \in Seq(S), NEW e \in S, NEW n \in 0..Len(q)
  PROVE  SubSeq(Append(q, e), 1, n) = SubSeq(q, 1, n)
<1> DEFINE p == Append(q, e)
<1>1. p \in Seq(S) /\ Len(p) = Len(q) + 1 /\ \A i \in 1..Len(q) : p[i] = q[i]
  OBVIOUS
<1> HIDE DEF p
<1>2. n \in 0..Len(p) /\ Len(q) \in Nat
  BY <1>1
<1>3. /\ SubSeq(p, 1, n) \in Seq(S) /\ Len(SubSeq(p, 1, n)) = n
      /\ \A i \in 1..n : SubSeq(p, 1, n)[i] = p[i]
  BY <1>1, <1>2, SubSeqProperties
<1>4. /\ SubSeq(q, 1, n) \in Seq(S) /\ Len(SubSeq(q, 1, n)) = n
      /\ \A i \in 1..n : SubSeq(q, 1, n)[i] = q[i]
  BY <1>2, SubSeqProperties
<1>5. \A i \in 1..n : SubSeq(p, 1, n)[i] = SubSeq(q, 1, n)[i]
  BY <1>1, <1>2, <1>3, <1>4
<1>6. SubSeq(p, 1, n) = SubSeq(q, 1, n)
  BY <1>3, <1>4, <1>5, SeqEqual
<1> QED
  BY <1>6 DEF p

\* One more of a list is accounted for.
LEMMA PrefixGrows ==
  ASSUME NEW S, NEW q \in Seq(S), NEW n \in Nat, n + 1 <= Len(q)
  PROVE  SubSeq(q, 1, n + 1) = Append(SubSeq(q, 1, n), q[n + 1])
<1>1. n \in 0..Len(q) /\ n + 1 \in 1..Len(q) /\ Len(q) \in Nat /\ q[n + 1] \in S
  OBVIOUS
<1>2. /\ SubSeq(q, 1, n) \in Seq(S) /\ Len(SubSeq(q, 1, n)) = n
      /\ \A i \in 1..n : SubSeq(q, 1, n)[i] = q[i]
  BY <1>1, SubSeqProperties
<1>3. /\ SubSeq(q, 1, n + 1) \in Seq(S) /\ Len(SubSeq(q, 1, n + 1)) = n + 1
      /\ \A i \in 1 .. n + 1 : SubSeq(q, 1, n + 1)[i] = q[i]
  BY <1>1, SubSeqProperties
<1> DEFINE a == SubSeq(q, 1, n)
           b == SubSeq(q, 1, n + 1)
           c == Append(a, q[n + 1])
<1> HIDE DEF a, b
<1>4. /\ c \in Seq(S) /\ Len(c) = n + 1 /\ c[n + 1] = q[n + 1]
      /\ \A i \in 1..n : c[i] = a[i]
  BY <1>1, <1>2 DEF a
<1> HIDE DEF c
<1>5. \A i \in 1 .. n + 1 : b[i] = c[i]
  BY <1>1, <1>2, <1>3, <1>4 DEF a, b
<1>6. b = c
  BY <1>3, <1>4, <1>5, SeqEqual DEF b
<1> QED
  BY <1>6 DEF a, b, c

LEMMA PrefixIs ==
  ASSUME NEW S, NEW q \in Seq(S), NEW n \in 0..Len(q)
  PROVE  /\ Len(SubSeq(q, 1, n)) = n
         /\ \A i \in 1..n : SubSeq(q, 1, n)[i] = q[i]
BY SubSeqProperties

-----------------------------------------------------------------------------
(* What the run of the plan says, in terms of the log.                     *)

LEMMA TurnIs ==
  ASSUME NEW s \in Subtask
  PROVE  /\ Delivered!Unresolved(s) <=> Unresolved(s)
         /\ Delivered!Turn(s) <=> IsCurrent(s)
<1>1. \A r \in Subtask : StatusBar[r] = sub[r].status
  BY DEF StatusBar
<1>2. \A r \in 1 .. s - 1 : r \in Subtask
  BY LoopAssumption DEF Subtask
<1> QED
  BY <1>1, <1>2 DEF Delivered!Unresolved, Delivered!Turn, Unresolved, IsCurrent

\* The run goes on.
LEMMA OpenIs ==
  /\ Delivered!Open <=> halted \in {"no", "infra"} /\ integration = "none"
  /\ LineMayFollow => Delivered!Open
BY DEF Delivered!Open, StoppedBar, LineMayFollow

\* An attempt whose turn it is.
LEMMA AttemptedIs ==
  ASSUME NEW s \in Subtask, IsCurrent(s), LineMayFollow, sub[s].status = "active"
  PROVE  Delivered!Attempted(s)
BY OpenIs, TurnIs DEF Delivered!Attempted, StatusBar

LEMMA HoldsIs ==
  ASSUME FrameType, JournalOk, NEW s \in Subtask, NEW k
  PROVE  Delivered!Holds(Delivered!Node(s, k)) <=> \E i \in 1..head : journal[i] = Write(s, k)
<1>1. journal \in Seq(JournalLine) /\ head \in 0..Len(journal)
  BY DEF FrameType, JournalOk
<1>2. Len(WrittenBar) = head /\ \A i \in 1..head : WrittenBar[i] = journal[i]
  BY <1>1, PrefixIs DEF WrittenBar
<1>3. Delivered!Node(s, k) = Write(s, k)
  BY DEF Delivered!Node, Write, TriesBar
<1> QED
  BY <1>2, <1>3 DEF Delivered!Holds

LEMMA MergedIs ==
  ASSUME FrameType, BranchOk
  PROVE  Len(MergedBar) = recorded /\ \A i \in 1..recorded : MergedBar[i] = branch[i]
<1>1. branch \in Seq(Subtask \X Nat) /\ recorded \in 0..Len(branch)
  BY DEF FrameType, BranchOk
<1> QED
  BY <1>1, PrefixIs DEF MergedBar

LEMMA NoneMergedIs ==
  ASSUME FrameType, BranchOk, NEW s \in Subtask, ~att[s].merged
  PROVE  Delivered!NoneMerged(s)
<1>1. \A i \in 1..recorded : branch[i][1] # s
  BY DEF BranchOk
<1> QED
  BY <1>1, MergedIs DEF Delivered!NoneMerged

-----------------------------------------------------------------------------
(* Steps, as the plan sees them.                                           *)

\* A subtask's record and its attempt, before and after a step that its plan does not show.
SamePlan(x, a, y, b) ==
  /\ y.status = x.status /\ y.item = x.item /\ y.rounds = x.rounds
  /\ y.fixNext = x.fixNext /\ y.fixUsed = x.fixUsed
  /\ y.ending = x.ending \/ (a.fix /\ y.ending = "fix")
  /\ b.n = a.n /\ b.fix = a.fix /\ b.approved = a.approved

PlanKept == \A r \in Subtask : SamePlan(sub[r], att[r], sub'[r], att'[r])

SameAccounts == WrittenBar' = WrittenBar /\ MergedBar' = MergedBar

LEMMA KeptBoth ==
  ASSUME RecordType, NEW s \in Subtask, NEW y, NEW b, SamePlan(sub[s], att[s], y, b),
         sub' = [sub EXCEPT ![s] = y], att' = [att EXCEPT ![s] = b]
  PROVE  PlanKept
BY DEF RecordType, PlanKept, SamePlan

LEMMA KeptAttempt ==
  ASSUME RecordType, NEW s \in Subtask, NEW b, b.n = att[s].n, b.fix = att[s].fix,
         b.approved = att[s].approved, sub' = sub, att' = [att EXCEPT ![s] = b]
  PROVE  PlanKept
BY DEF RecordType, PlanKept, SamePlan

LEMMA KeptSubtask ==
  ASSUME RecordType, NEW s \in Subtask, NEW y, SamePlan(sub[s], att[s], y, att[s]),
         att' = att, sub' = [sub EXCEPT ![s] = y]
  PROVE  PlanKept
BY DEF RecordType, PlanKept, SamePlan

LEMMA KeptSame == ASSUME sub' = sub, att' = att PROVE PlanKept
BY DEF PlanKept, SamePlan

LEMMA KeptEnding ==
  ASSUME RecordType, NEW s \in Subtask, NEW a, a.n = att[s].n, a.fix = att[s].fix,
         a.approved = att[s].approved, Ending(s, a)
  PROVE  PlanKept
<1> DEFINE end == IF a.fix /\ a.unavail # "final" THEN "fix" ELSE sub[s].ending
           y == [sub[s] EXCEPT !.ending = end]
           b == [a EXCEPT !.routed = IF a.fix /\ a.unavail = "final" THEN "yes" ELSE @]
<1>1. att' = [att EXCEPT ![s] = b] /\ sub' = [sub EXCEPT ![s] = y]
  BY DEF Ending, RecordType
<1>2. b.n = att[s].n /\ b.fix = att[s].fix /\ b.approved = att[s].approved
  OBVIOUS
<1>3. end = sub[s].ending \/ (att[s].fix /\ end = "fix")
  OBVIOUS
<1> HIDE DEF end, b
<1>4. SamePlan(sub[s], att[s], y, b)
  BY <1>2, <1>3 DEF RecordType, SubtaskState, SamePlan
<1> HIDE DEF y
<1> QED
  BY <1>1, <1>4, KeptBoth

LEMMA KeptRaise == ASSUME Raise PROVE PlanKept
BY KeptSame DEF Raise, replayed

LEMMA KeptIncident == ASSUME NEW cause, Incident(cause) PROVE PlanKept
BY KeptSame DEF Incident, replayed

LEMMA JudgingKept ==
  ASSUME RecordType, NEW s \in Subtask, Judging(s) PROVE PlanKept
<1>0. att[s] \in Attempt /\ sub[s] \in SubtaskState
  BY DEF RecordType
<1>1. CASE Raise
  BY <1>1, KeptRaise
<1>2. ASSUME EnterStage(s) \/ EnterReject(s), ~Raise PROVE PlanKept
  <2>1. PICK c : att' = [att EXCEPT ![s] = [att[s] EXCEPT !.cursor = c]] /\ sub' = sub
    BY <1>2 DEF EnterStage, EnterReject, EmitAtt, Emit
  <2>2. /\ [att[s] EXCEPT !.cursor = c].n = att[s].n /\ [att[s] EXCEPT !.cursor = c].fix = att[s].fix
        /\ [att[s] EXCEPT !.cursor = c].approved = att[s].approved
    BY <1>0 DEF Attempt
  <2> QED
    BY <2>1, <2>2, KeptAttempt
<1>3. ASSUME NEW found \in {"ok", "refused"}, CheckChanges(s, found), ~Raise PROVE PlanKept
  <2> DEFINE b == [att[s] EXCEPT !.changes = found]
  <2>1. att' = [att EXCEPT ![s] = b] /\ sub' = sub
    BY <1>3 DEF CheckChanges, EmitAtt, Emit
  <2>2. b.n = att[s].n /\ b.fix = att[s].fix /\ b.approved = att[s].approved
    BY <1>0 DEF Attempt
  <2> QED
    BY <2>1, <2>2, KeptAttempt
<1>4. ASSUME NEW verdict, RunGate(s, verdict), ~Raise PROVE PlanKept
  <2> DEFINE b == [att[s] EXCEPT !.gate = verdict]
  <2>1. att' = [att EXCEPT ![s] = b] /\ sub' = sub
    BY <1>4 DEF RunGate, Emit
  <2>2. b.n = att[s].n /\ b.fix = att[s].fix /\ b.approved = att[s].approved
    BY <1>0 DEF Attempt
  <2> QED
    BY <2>1, <2>2, KeptAttempt
<1>5. ASSUME NEW verdict, Review(s, verdict), ~Raise PROVE PlanKept
  <2> DEFINE result == IF verdict = "gaming" THEN "fail" ELSE verdict
             b == [att[s] EXCEPT !.review = result, !.judged = TRUE]
             ind == sub[s].indicator \/ verdict = "gaming"
             y == [sub[s] EXCEPT !.indicator = ind]
  <2>1. \/ Ending(s, b)
        \/ att' = [att EXCEPT ![s] = b] /\ sub' = [sub EXCEPT ![s] = y]
    BY <1>5, Zenon DEF Review, Emit
  <2>2. b.n = att[s].n /\ b.fix = att[s].fix /\ b.approved = att[s].approved
    BY <1>0 DEF Attempt
  <2> HIDE DEF b, ind
  <2>3. SamePlan(sub[s], att[s], y, b)
    BY <1>0, <2>2 DEF SubtaskState, SamePlan
  <2> HIDE DEF y
  <2> QED
    BY <2>1, <2>2, <2>3, KeptBoth, KeptEnding
<1>6. ASSUME NEW retry \in BOOLEAN, ReviewUnavailable(s, retry), ~Raise PROVE PlanKept
  <2> DEFINE b == [att[s] EXCEPT !.unavail = IF retry THEN "retried" ELSE "final"]
  <2>1. Ending(s, b) \/ (att' = [att EXCEPT ![s] = b] /\ sub' = sub)
    BY <1>6 DEF ReviewUnavailable, Emit
  <2>2. b.n = att[s].n /\ b.fix = att[s].fix /\ b.approved = att[s].approved
    BY <1>0 DEF Attempt
  <2> HIDE DEF b
  <2> QED
    BY <2>1, <2>2, KeptAttempt, KeptEnding
<1>7. ASSUME RejectAttempt(s), ~Raise PROVE PlanKept
  <2> DEFINE b == [att[s] EXCEPT !.rejected = TRUE]
  <2>1. Ending(s, b)
    BY <1>7 DEF RejectAttempt, Emit
  <2>2. b.n = att[s].n /\ b.fix = att[s].fix /\ b.approved = att[s].approved
    BY <1>0 DEF Attempt
  <2> HIDE DEF b
  <2> QED
    BY <2>1, <2>2, KeptEnding
<1> QED
  BY <1>1, <1>2, <1>3, <1>4, <1>5, <1>6, <1>7 DEF Judging

\* Of the steps of a merge, the last alone ends a subtask.
LEMMA MergingKept ==
  ASSUME RecordType, NEW s \in Subtask, Merging(s)
  PROVE  PlanKept \/ (CheckDiff(s, FALSE) /\ ~Raise)
<1>0. att[s] \in Attempt /\ sub[s] \in SubtaskState
  BY DEF RecordType
<1>1. CASE Raise
  BY <1>1, KeptRaise
<1>2. CASE RequireMergeable(s) \/ StoreWrite(s) \/ CheckBranch(s) \/ GitMerge(s)
  BY <1>2, KeptSame DEF RequireMergeable, StoreWrite, CheckBranch, GitMerge, Raise, Incident, replayed
<1>3. ASSUME IntendWrite(s), ~Raise PROVE PlanKept
  <2> DEFINE b == [att[s] EXCEPT !.pending = TRUE]
  <2>1. att' = [att EXCEPT ![s] = b] /\ sub' = sub
    BY <1>3 DEF IntendWrite, EmitAtt, Emit
  <2>2. b.n = att[s].n /\ b.fix = att[s].fix /\ b.approved = att[s].approved
    BY <1>0 DEF Attempt
  <2> QED
    BY <2>1, <2>2, KeptAttempt
<1>4. ASSUME RecordWrite(s), ~Raise PROVE PlanKept
  <2> DEFINE b == [att[s] EXCEPT !.applied = @ + 1, !.pending = FALSE]
  <2>1. att' = [att EXCEPT ![s] = b] /\ sub' = sub
    BY <1>4 DEF RecordWrite, Emit, RecordType
  <2>2. b.n = att[s].n /\ b.fix = att[s].fix /\ b.approved = att[s].approved
    BY <1>0 DEF Attempt
  <2> QED
    BY <2>1, <2>2, KeptAttempt
<1>5. ASSUME RecordMerge(s), ~Raise PROVE PlanKept
  <2> DEFINE b == [att[s] EXCEPT !.merged = TRUE]
  <2>1. att' = [att EXCEPT ![s] = b] /\ sub' = sub
    BY <1>5 DEF RecordMerge, Emit
  <2>2. b.n = att[s].n /\ b.fix = att[s].fix /\ b.approved = att[s].approved
    BY <1>0 DEF Attempt
  <2> QED
    BY <2>1, <2>2, KeptAttempt
<1>6. ASSUME EnterDiff(s), ~Raise PROVE PlanKept
  <2> DEFINE b == [att[s] EXCEPT !.cursor = "diff"]
  <2>1. att' = [att EXCEPT ![s] = b] /\ sub' = sub
    BY <1>6 DEF EnterDiff, EmitAtt, Emit
  <2>2. b.n = att[s].n /\ b.fix = att[s].fix /\ b.approved = att[s].approved
    BY <1>0 DEF Attempt
  <2> QED
    BY <2>1, <2>2, KeptAttempt
<1>7. ASSUME CheckDiff(s, TRUE), ~Raise PROVE PlanKept
  <2> DEFINE b == [att[s] EXCEPT !.diff = "divergent"]
  <2>1. att' = [att EXCEPT ![s] = b] /\ sub' = [sub EXCEPT ![s] = [sub[s] EXCEPT !.status = sub[s].status]]
    BY <1>7 DEF CheckDiff, Emit
  <2>2. b.n = att[s].n /\ b.fix = att[s].fix /\ b.approved = att[s].approved
    BY <1>0 DEF Attempt
  <2>3. sub' = sub
    BY <1>0, <2>1 DEF RecordType, SubtaskState
  <2> QED
    BY <2>1, <2>2, <2>3, KeptAttempt
<1> QED
  BY <1>1, <1>2, <1>3, <1>4, <1>5, <1>6, <1>7 DEF Merging

\* The steps of the subtask in progress that the plan shows.
Changes(s) ==
  ~Raise /\ (BeginAttempt(s) \/ RecordEscalated(s) \/ EndSubtask(s) \/ CheckDiff(s, FALSE))

LEMMA AttemptingKept ==
  ASSUME RecordType, NEW s \in Subtask, Attempting(s)
  PROVE  PlanKept \/ Changes(s)
<1>0. att[s] \in Attempt /\ sub[s] \in SubtaskState
  BY DEF RecordType
<1>1. CASE Raise
  BY <1>1, KeptRaise
<1>2. CASE Continue(s) \/ \E scan \in BOOLEAN : List(s, scan)
  BY <1>2, KeptSame DEF Continue, List, replayed
<1>3. ASSUME Spawn(s), ~Raise PROVE PlanKept
  <2> DEFINE b == [att[s] EXCEPT !.cursor = "spawn"]
  <2>1. att' = [att EXCEPT ![s] = b] /\ sub' = sub
    BY <1>3 DEF Spawn, EmitAtt, Emit
  <2>2. b.n = att[s].n /\ b.fix = att[s].fix /\ b.approved = att[s].approved
    BY <1>0 DEF Attempt
  <2> QED
    BY <2>1, <2>2, KeptAttempt
<1>4. ASSUME InfraFailed(s), ~Raise PROVE PlanKept
  <2> DEFINE b == [att[s] EXCEPT !.retries = @ + 1]
             y == [sub[s] EXCEPT !.next = att[s].n]
  <2>1. \/ att' = [att EXCEPT ![s] = b] /\ sub' = [sub EXCEPT ![s] = y]
        \/ att' = att /\ sub' = sub
    BY <1>4 DEF InfraFailed, Emit, RecordType
  <2>2. SamePlan(sub[s], att[s], y, b)
    BY <1>0 DEF Attempt, SubtaskState, SamePlan
  <2> HIDE DEF b, y
  <2> QED
    BY <2>1, <2>2, KeptBoth, KeptSame
<1>5. ASSUME NEW end, NEW shows, SessionEnds(s, end, shows) PROVE PlanKept
  <2> DEFINE b == [att[s] EXCEPT !.session = end]
  <2>1. sub' = sub /\ (att' = [att EXCEPT ![s] = b] \/ att' = att)
    BY <1>5 DEF SessionEnds, RecordType
  <2>2. b.n = att[s].n /\ b.fix = att[s].fix /\ b.approved = att[s].approved
    BY <1>0 DEF Attempt
  <2> HIDE DEF b
  <2> QED
    BY <2>1, <2>2, KeptAttempt, KeptSame
<1>6. ASSUME Decide(s), ~Raise PROVE PlanKept
  <2> DEFINE forced == ~att[s].rejected \/ att[s].n >= Budget
             next == IF forced THEN sub[s].next ELSE att[s].n + 1
             route == IF forced THEN "yes" ELSE "no"
             b == [att[s] EXCEPT !.routed = route]
             y == [sub[s] EXCEPT !.next = next]
  <2>1. att' = [att EXCEPT ![s] = b] /\ sub' = [sub EXCEPT ![s] = y]
    BY <1>6 DEF Decide, Emit, RecordType
  <2> HIDE DEF next, route
  <2>2. SamePlan(sub[s], att[s], y, b)
    BY <1>0 DEF Attempt, SubtaskState, SamePlan
  <2> HIDE DEF b, y
  <2> QED
    BY <2>1, <2>2, KeptBoth
<1> QED
  BY <1>1, <1>2, <1>3, <1>4, <1>5, <1>6, JudgingKept, MergingKept DEF Attempting, Changes

\* What is resumed is the same attempt.
LEMMA ResumedSame ==
  ASSUME NEW a \in Attempt PROVE /\ Resumed(a).n = a.n /\ Resumed(a).fix = a.fix
                              /\ Resumed(a).approved = a.approved
<1> DEFINE b == [a EXCEPT !.pending = FALSE, !.retries = IF halted = "no" THEN @ ELSE 0]
<1>1. b \in Attempt /\ b.n = a.n /\ b.fix = a.fix /\ b.approved = a.approved
  BY ResumedFields
<1>2. \/ Resumed(a) = Restarted(b, "none") \/ Resumed(a) = Restarted(b, "spawn")
      \/ Resumed(a) = [b EXCEPT !.cursor = "decide", !.diff = "none"]
  BY DEF Resumed
<1> HIDE DEF b
<1>3. /\ Restarted(b, "none").n = b.n /\ Restarted(b, "none").fix = b.fix
      /\ Restarted(b, "spawn").n = b.n /\ Restarted(b, "spawn").fix = b.fix
      /\ Restarted(b, "none").approved = b.approved
      /\ Restarted(b, "spawn").approved = b.approved
  BY <1>1, RestartedFields
<1>4. /\ [b EXCEPT !.cursor = "decide", !.diff = "none"].n = b.n
      /\ [b EXCEPT !.cursor = "decide", !.diff = "none"].fix = b.fix
      /\ [b EXCEPT !.cursor = "decide", !.diff = "none"].approved = b.approved
  BY <1>1 DEF Attempt
<1> QED
  BY <1>1, <1>2, <1>3, <1>4

LEMMA TakeOverKept ==
  ASSUME RecordType, TakeOver PROVE PlanKept
<1>1. CASE sub' = sub /\ att' = att
  BY <1>1, KeptSame
<1>2. ASSUME NEW s \in Subtask, att' = [att EXCEPT ![s] = Resumed(@)],
             sub' = [sub EXCEPT ![s].next =
                       IF ResumePoint(att[s]) = "resolve" THEN att[s].n ELSE @]
      PROVE  PlanKept
  <2> DEFINE next == IF ResumePoint(att[s]) = "resolve" THEN att[s].n ELSE sub[s].next
             y == [sub[s] EXCEPT !.next = next]
             b == Resumed(att[s])
  <2>0. att[s] \in Attempt /\ sub[s] \in SubtaskState
    BY DEF RecordType
  <2>1. att' = [att EXCEPT ![s] = b] /\ sub' = [sub EXCEPT ![s] = y]
    BY <1>2 DEF RecordType
  <2>2. b.n = att[s].n /\ b.fix = att[s].fix /\ b.approved = att[s].approved
    BY <2>0, ResumedSame
  <2> HIDE DEF next, b
  <2>3. SamePlan(sub[s], att[s], y, b)
    BY <2>0, <2>2 DEF SubtaskState, SamePlan
  <2> HIDE DEF y
  <2> QED
    BY <2>1, <2>3, KeptBoth
<1> QED
  BY <1>1, <1>2 DEF TakeOver, Incident, Raise, replayed

LEMMA CheckLineKept ==
  ASSUME RecordType, CheckLine PROVE PlanKept
<1>1. CASE Raise \/ Incident("journal")
  BY <1>1, KeptRaise, KeptIncident
<1>2. ASSUME NEW s \in Subtask, att' = [att EXCEPT ![s].applied = @ + 1, ![s].pending = FALSE],
             sub' = sub
      PROVE  PlanKept
  <2> DEFINE b == [att[s] EXCEPT !.applied = @ + 1, !.pending = FALSE]
  <2>1. att' = [att EXCEPT ![s] = b]
    BY <1>2 DEF RecordType
  <2>2. b.n = att[s].n /\ b.fix = att[s].fix /\ b.approved = att[s].approved
    BY DEF RecordType, Attempt
  <2> QED
    BY <1>2, <2>1, <2>2, KeptAttempt
<1> QED
  BY <1>1, <1>2 DEF CheckLine

\* A decision is taken.
Taking == \E item \in items, i \in 1..Len(decisions) : TakeDecision(item, i)

\* A step either leaves the plan as it is or is one of six.
LEMMA PlanStep ==
  ASSUME RecordType, [Next]_vars
  PROVE  PlanKept \/ Taking \/ \E s \in Subtask : Changes(s) \/ RemoveSubtask(s)
<1>1. CASE UNCHANGED vars
  BY <1>1, KeptSame DEF vars, replayed
<1>2. CASE \E cmd \in {"run", "resume"} : Command(cmd)
  BY <1>2, KeptSame DEF Command, replayed
<1>3. CASE \/ \E item \in items, verb \in Verb, long \in BOOLEAN : PersonDecides(item, verb, long)
           \/ Kill \/ ForeignLine
  BY <1>3, KeptSame DEF PersonDecides, Kill, ForeignLine, replayed
<1>4. CASE JournalHolds \/ DiffStale \/ LeaveLoop \/ \E reopens \in BOOLEAN : Hold(reopens)
  BY <1>4, KeptSame DEF JournalHolds, DiffStale, LeaveLoop, Hold, replayed
<1>5. CASE Halt \/ Finish
  BY <1>5, KeptSame DEF Halt, Finish
<1>6. CASE \/ \E verdict \in {"pass", "fail"} : Integrate(verdict)
           \/ ListIntegration \/ RecordIntegEsc
  BY <1>6, KeptSame DEF Integrate, ListIntegration, RecordIntegEsc, replayed
<1>7. ASSUME NEW item \in items, NEW i \in 1..Len(decisions), DecisionMismatch(item, i)
      PROVE  PlanKept
  BY <1>7, KeptIncident DEF DecisionMismatch
<1> QED
  BY <1>1, <1>2, <1>3, <1>4, <1>5, <1>6, <1>7, AttemptingKept, TakeOverKept, CheckLineKept
  DEF Next, Process, Environment, Taking

-----------------------------------------------------------------------------
(* The six, and what they do to the one subtask they are about.            *)

Alone(s) == \A r \in Subtask : r # s => SamePlan(sub[r], att[r], sub'[r], att'[r])

\* The attempt that begins is new, or the same one started over.
Begins(s) ==
  \/ /\ att'[s].n = att[s].n + 1 /\ (att'[s].fix <=> sub[s].fixNext)
     /\ ~sub[s].fixUsed /\ ~sub'[s].fixNext /\ (sub'[s].fixUsed <=> sub[s].fixNext)
     /\ att[s].n < Budget \/ sub[s].fixNext
  \/ SamePlan(sub[s], att[s], sub'[s], att'[s])

LEMMA BeginPlan ==
  ASSUME Records, NEW s \in Subtask, BeginAttempt(s), ~Raise
  PROVE  /\ Alone(s) /\ Begins(s) /\ LineMayFollow /\ IsCurrent(s)
         /\ sub'[s].status = "active" /\ sub'[s].ending = sub[s].ending
         /\ sub'[s].rounds = sub[s].rounds /\ sub'[s].item = sub[s].item
         /\ sub[s].ending = "no" /\ ~att[s].approved /\ ~att'[s].approved
<1> DEFINE n == Number(s)
           new == att[s].n # n
           fixNext == sub[s].fixNext /\ ~new
           fixUsed == sub[s].fixUsed \/ (new /\ sub[s].fixNext)
           unjudged == sub[s].unjudged \/ (new /\ att[s].n # 0 /\ ~att[s].judged)
           x == [sub[s] EXCEPT !.status = "active", !.next = 0, !.fixNext = fixNext,
                               !.fixUsed = fixUsed, !.unjudged = unjudged]
           fresh == [Fresh(n, sub[s].fixNext) EXCEPT !.cursor = "resolve"]
           again == Restarted(att[s], "resolve")
<1>0. /\ sub[s] \in SubtaskState /\ att[s] \in Attempt /\ RecordOk(sub[s], att[s]) /\ RecordType
  BY AtRecord DEF Records
<1>1. /\ sub' = [sub EXCEPT ![s] = x]
      /\ att' = [att EXCEPT ![s] = IF new THEN fresh ELSE Restarted(@, "resolve")]
      /\ Unresolved(s) /\ sub[s].next = n /\ Step(s) = "resolve" /\ LineMayFollow /\ IsCurrent(s)
      /\ new => ~sub[s].fixUsed /\ (n <= Budget \/ sub[s].fixNext)
  BY <1>0 DEF BeginAttempt, Drives, RecordType
<1>2. n # 0 /\ n \in {att[s].n, att[s].n + 1} /\ att[s].n \in Nat
  BY <1>0, <1>1, StepResolve DEF Attempt
<1>3. sub[s].fixNext \in BOOLEAN /\ sub[s].fixUsed \in BOOLEAN
  BY <1>0 DEF SubtaskState
<1>4. /\ new => ~fixNext /\ (fixUsed <=> sub[s].fixUsed \/ sub[s].fixNext)
      /\ ~new => fixNext = sub[s].fixNext /\ fixUsed = sub[s].fixUsed
  BY <1>3
<1>5. fresh.n = n /\ fresh.fix = sub[s].fixNext /\ ~fresh.approved
  BY DEF Fresh
<1>6. again.n = att[s].n /\ again.fix = att[s].fix /\ again.approved = att[s].approved
  BY <1>0, RestartedFields
<1>7. ~new => sub[s].status = "active"
  BY <1>0, <1>1, <1>2 DEF RecordOk, Unresolved
<1>13. sub[s].ending = "no" /\ ~att[s].approved
  <2>1. CASE sub[s].status = "planned"
    BY <1>0, <2>1 DEF RecordOk, Fresh
  <2>2. CASE sub[s].status # "planned"
    BY <1>1, <2>2 DEF Step
  <2> QED
    BY <2>1, <2>2
<1> HIDE DEF n, fixNext, fixUsed, unjudged, fresh, again
<1>8. /\ x.status = "active" /\ x.ending = sub[s].ending /\ x.rounds = sub[s].rounds
      /\ x.item = sub[s].item
      /\ x.fixNext = fixNext /\ x.fixUsed = fixUsed
  BY <1>0 DEF SubtaskState
<1> HIDE DEF x
<1>9. /\ sub'[s] = x /\ att'[s] = IF new THEN fresh ELSE again
      /\ \A r \in Subtask : r # s => sub'[r] = sub[r] /\ att'[r] = att[r]
  BY <1>0, <1>1 DEF RecordType, again
<1>10. Alone(s)
  BY <1>9 DEF Alone, SamePlan
<1>11. CASE new
  <2>1. att'[s].n = att[s].n + 1 /\ (att[s].n < Budget \/ sub[s].fixNext)
    BY <1>1, <1>2, <1>5, <1>9, <1>11, LoopAssumption
  <2>2. att'[s].n = att[s].n + 1 /\ att'[s].fix = sub[s].fixNext
    BY <1>1, <1>2, <1>5, <1>9, <1>11
  <2>3. Begins(s)
    BY <1>1, <1>4, <1>8, <1>9, <1>11, <2>1, <2>2 DEF Begins
  <2> QED
    BY <1>1, <1>5, <1>8, <1>9, <1>10, <1>11, <1>13, <2>3
<1>12. CASE ~new
  <2>1. SamePlan(sub[s], att[s], sub'[s], att'[s])
    BY <1>4, <1>6, <1>7, <1>8, <1>9, <1>12 DEF SamePlan
  <2> QED
    BY <1>1, <1>6, <1>8, <1>9, <1>10, <1>12, <1>13, <2>1 DEF Begins
<1> QED
  BY <1>11, <1>12

\* A subtask whose state changes, and nothing else of its plan.
Becomes(s, state) ==
  /\ Alone(s) /\ att'[s].n = att[s].n /\ att'[s].fix = att[s].fix
  /\ att'[s].approved = att[s].approved /\ sub'[s].status = state
  /\ sub'[s].fixNext = sub[s].fixNext /\ sub'[s].fixUsed = sub[s].fixUsed

LEMMA EscalatedPlan ==
  ASSUME Records, NEW s \in Subtask, RecordEscalated(s), ~Raise
  PROVE  /\ Becomes(s, "escalated") /\ LineMayFollow /\ IsCurrent(s) /\ Active(s)
         /\ sub'[s].rounds = sub[s].rounds + 1 /\ sub'[s].rounds # 0
         /\ sub'[s].item = sub[s].rounds + 1
         /\ att[s].routed = "yes" /\ sub[s].ending = "no"
<1> DEFINE x == [sub[s] EXCEPT !.status = "escalated", !.item = sub[s].rounds + 1, !.rounds = @ + 1]
<1>0. RecordType /\ sub[s] \in SubtaskState
  BY DEF Records, RecordType
<1>1. /\ sub' = [sub EXCEPT ![s] = x] /\ att' = att /\ LineMayFollow /\ IsCurrent(s) /\ Active(s)
      /\ att[s].routed = "yes" /\ sub[s].ending = "no"
  BY <1>0 DEF RecordEscalated, Emit, RecordType
<1>2. /\ x.status = "escalated" /\ x.rounds = sub[s].rounds + 1 /\ x.rounds # 0
      /\ x.item = sub[s].rounds + 1
      /\ x.fixNext = sub[s].fixNext /\ x.fixUsed = sub[s].fixUsed
  BY <1>0 DEF SubtaskState
<1> HIDE DEF x
<1>3. sub'[s] = x /\ \A r \in Subtask : r # s => sub'[r] = sub[r]
  BY <1>0, <1>1 DEF RecordType
<1> QED
  BY <1>1, <1>2, <1>3 DEF Becomes, Alone, SamePlan

LEMMA EndedPlan ==
  ASSUME Records, NEW s \in Subtask, EndSubtask(s), ~Raise
  PROVE  /\ Becomes(s, "rejected") /\ LineMayFollow /\ IsCurrent(s) /\ Active(s)
         /\ sub'[s].rounds = sub[s].rounds /\ sub'[s].item = sub[s].item
         /\ sub'[s].ending = "no" /\ sub[s].ending # "no"
<1> DEFINE x == [sub[s] EXCEPT !.status = "rejected", !.ending = "no"]
<1>0. RecordType /\ sub[s] \in SubtaskState
  BY DEF Records, RecordType
<1>1. /\ sub' = [sub EXCEPT ![s] = x] /\ att' = att /\ LineMayFollow /\ IsCurrent(s) /\ Active(s)
      /\ Step(s) = "end"
  BY <1>0 DEF EndSubtask, Emit, Drives, RecordType
<1>2. /\ x.status = "rejected" /\ x.rounds = sub[s].rounds /\ x.ending = "no"
      /\ x.item = sub[s].item
      /\ x.fixNext = sub[s].fixNext /\ x.fixUsed = sub[s].fixUsed
  BY <1>0 DEF SubtaskState
<1>3. sub[s].ending # "no"
  BY <1>1 DEF Step, ResumePoint
<1> HIDE DEF x
<1>4. sub'[s] = x /\ \A r \in Subtask : r # s => sub'[r] = sub[r]
  BY <1>0, <1>1 DEF RecordType
<1> QED
  BY <1>1, <1>2, <1>3, <1>4 DEF Becomes, Alone, SamePlan

LEMMA DonePlan ==
  ASSUME Records, NEW s \in Subtask, CheckDiff(s, FALSE), ~Raise
  PROVE  /\ Becomes(s, "done") /\ LineMayFollow /\ IsCurrent(s) /\ Active(s) /\ pc = "diffing"
         /\ sub'[s].rounds = sub[s].rounds /\ sub'[s].ending = sub[s].ending
         /\ sub'[s].item = sub[s].item
<1> DEFINE x == [sub[s] EXCEPT !.status = "done"]
           b == [att[s] EXCEPT !.diff = "clean"]
<1>0. RecordType /\ sub[s] \in SubtaskState /\ att[s] \in Attempt
  BY DEF Records, RecordType
<1>1. /\ sub' = [sub EXCEPT ![s] = x] /\ att' = [att EXCEPT ![s] = b]
      /\ LineMayFollow /\ IsCurrent(s) /\ Active(s) /\ pc = "diffing"
  BY <1>0 DEF CheckDiff, Emit, RecordType
<1>2. /\ x.status = "done" /\ x.rounds = sub[s].rounds /\ x.ending = sub[s].ending
      /\ x.item = sub[s].item
      /\ x.fixNext = sub[s].fixNext /\ x.fixUsed = sub[s].fixUsed
  BY <1>0 DEF SubtaskState
<1>3. b.n = att[s].n /\ b.fix = att[s].fix /\ b.approved = att[s].approved
  BY <1>0 DEF Attempt
<1> HIDE DEF x, b
<1>4. /\ sub'[s] = x /\ att'[s] = b
      /\ \A r \in Subtask : r # s => sub'[r] = sub[r] /\ att'[r] = att[r]
  BY <1>0, <1>1 DEF RecordType
<1> QED
  BY <1>1, <1>2, <1>3, <1>4 DEF Becomes, Alone, SamePlan

LEMMA RemovedPlan ==
  ASSUME Records, NEW s \in Subtask, RemoveSubtask(s)
  PROVE  /\ Becomes(s, "removed") /\ LineMayFollow /\ Removes /\ sub[s].status = "planned"
         /\ sub'[s].rounds = sub[s].rounds /\ sub'[s].ending = sub[s].ending
         /\ sub'[s].item = sub[s].item
<1> DEFINE x == [sub[s] EXCEPT !.status = "removed"]
<1>0. RecordType /\ sub[s] \in SubtaskState
  BY DEF Records, RecordType
<1>1. /\ sub' = [sub EXCEPT ![s] = x] /\ att' = att
      /\ LineMayFollow /\ Removes /\ sub[s].status = "planned"
  BY <1>0 DEF RemoveSubtask, RecordType
<1>2. /\ x.status = "removed" /\ x.rounds = sub[s].rounds /\ x.ending = sub[s].ending
      /\ x.item = sub[s].item
      /\ x.fixNext = sub[s].fixNext /\ x.fixUsed = sub[s].fixUsed
  BY <1>0 DEF SubtaskState
<1> HIDE DEF x
<1>3. sub'[s] = x /\ \A r \in Subtask : r # s => sub'[r] = sub[r]
  BY <1>0, <1>1 DEF RecordType
<1> QED
  BY <1>1, <1>2, <1>3 DEF Becomes, Alone, SamePlan

\* A decision taken on a subtask that waits for one.
Answers(s) ==
  /\ Alone(s) /\ att'[s].n = att[s].n /\ att'[s].fix = att[s].fix
  /\ sub[s].status = "escalated" /\ sub'[s].status = "active"
  /\ sub'[s].rounds = sub[s].rounds /\ sub'[s].fixUsed = sub[s].fixUsed
  /\ integration' = Reopened(integration)

LEMMA DecisionPlan ==
  ASSUME FrameType, Records, NEW item \in items, NEW i \in 1..Len(decisions), TakeDecision(item, i)
  PROVE  /\ Acts /\ halted = "no"
         /\ \/ PlanKept /\ integration' = integration
            \/ \E s \in Subtask : Answers(s)
<1> DEFINE s == item.id[1]
           effect == Effect(item, decisions[i])
<1>0. item.id \in ItemId /\ RecordType
  BY DEF FrameType, Item, Records
<1>1. Acts /\ halted = "no"
  BY DEF TakeDecision, Deciding, AtABoundary
<1>2. CASE sub' = sub /\ att' = att /\ integration' = integration
  BY <1>1, <1>2, KeptSame
<1>3. CASE ~(sub' = sub /\ att' = att /\ integration' = integration)
  <2>1. /\ item.id[2] # 0 /\ sub[s].status = "escalated"
        /\ integration' = Reopened(integration)
        /\ att' = [att EXCEPT ![s].approved = (effect = "merge"),
                              ![s].spent = (effect # "merge"),
                              ![s].cursor = IF effect = "merge" THEN "decide" ELSE @]
        /\ sub' = [sub EXCEPT ![s].status = "active",
                     ![s].next = IF effect \in Orders THEN att[s].n + 1 ELSE @,
                     ![s].fixNext = (effect = "fix"),
                     ![s].ending = IF effect = "end" THEN "person" ELSE @]
    BY <1>3 DEF TakeDecision
  <2>2. s \in Subtask
    <3>1. item.id[2] # 0
      BY <2>1
    <3>2. item.id \in Subtask \X Nat
      BY <1>0, <3>1 DEF ItemId
    <3> QED
      BY <3>2
  <2>3. sub[s] \in SubtaskState /\ att[s] \in Attempt
    BY <1>0, <2>2 DEF RecordType
  <2> DEFINE next == IF effect \in Orders THEN att[s].n + 1 ELSE sub[s].next
             fix == (effect = "fix")
             end == IF effect = "end" THEN "person" ELSE sub[s].ending
             merge == (effect = "merge")
             spent == (effect # "merge")
             cursor == IF effect = "merge" THEN "decide" ELSE att[s].cursor
             x == [sub[s] EXCEPT !.status = "active", !.next = next, !.fixNext = fix, !.ending = end]
             b == [att[s] EXCEPT !.approved = merge, !.spent = spent, !.cursor = cursor]
  <2>4. sub' = [sub EXCEPT ![s] = x] /\ att' = [att EXCEPT ![s] = b]
    BY <1>0, <2>1, <2>2 DEF RecordType
  <2> HIDE DEF next, fix, end, merge, spent, cursor
  <2>5. x.rounds = sub[s].rounds /\ x.status = "active" /\ x.fixUsed = sub[s].fixUsed
    BY <2>3 DEF SubtaskState
  <2>6. b.n = att[s].n /\ b.fix = att[s].fix
    BY <2>3 DEF Attempt
  <2> HIDE DEF x, b
  <2>7. /\ sub'[s] = x /\ att'[s] = b
        /\ \A r \in Subtask : r # s => sub'[r] = sub[r] /\ att'[r] = att[r]
    BY <1>0, <2>2, <2>4 DEF RecordType
  <2>8. Alone(s)
    BY <2>7 DEF Alone, SamePlan
  <2>9. Answers(s)
    BY <2>1, <2>5, <2>6, <2>7, <2>8 DEF Answers
  <2> QED
    BY <1>1, <2>2, <2>9
<1> QED
  BY <1>2, <1>3

-----------------------------------------------------------------------------
(* What the run of the plan rests on, beside the invariant of the run.     *)

\* Nothing is given up, and no fix is ordered, that was never put to a person.
AskedOk == \A s \in Subtask :
             sub[s].fixNext \/ att[s].fix \/ sub[s].ending # "no" => sub[s].rounds # 0

\* Subtasks are begun in plan order.
OrderOk == \A q, r \in Subtask :
             sub[q].status = "planned" /\ q < r => sub[r].status \in {"planned", "removed"}

PlanInv == AskedOk /\ OrderOk

LEMMA OrderMoves ==
  ASSUME OrderOk, NEW s \in Subtask, Alone(s), sub'[s].status # "planned",
         \/ sub'[s].status = "removed"
         \/ sub[s].status \notin {"planned", "removed"} \/ IsCurrent(s)
  PROVE  OrderOk'
<1> SUFFICES ASSUME NEW q \in Subtask, NEW r \in Subtask, sub'[q].status = "planned", q < r
             PROVE  sub'[r].status \in {"planned", "removed"}
  BY DEF OrderOk
<1>1. q # s /\ sub[q].status = "planned"
  BY DEF Alone, SamePlan
<1>2. CASE r # s
  BY <1>1, <1>2 DEF OrderOk, Alone, SamePlan
<1>3. CASE r = s
  <2>1. sub[s].status \in {"planned", "removed"} /\ q \in 1 .. s - 1
    BY <1>1, <1>3, LoopAssumption DEF OrderOk, Subtask
  <2>2. ~IsCurrent(s)
    BY <1>1, <2>1 DEF IsCurrent, Unresolved
  <2> QED
    BY <1>3, <2>1, <2>2
<1> QED
  BY <1>2, <1>3

LEMMA AskedMoves ==
  ASSUME AskedOk, NEW s \in Subtask, Alone(s),
         sub'[s].fixNext \/ att'[s].fix \/ sub'[s].ending # "no" => sub'[s].rounds # 0
  PROVE  AskedOk'
<1> SUFFICES ASSUME NEW r \in Subtask, r # s,
                    sub'[r].fixNext \/ att'[r].fix \/ sub'[r].ending # "no"
             PROVE  sub'[r].rounds # 0
  BY DEF AskedOk
<1>1. sub[r].fixNext \/ att[r].fix \/ sub[r].ending # "no"
  BY DEF Alone, SamePlan
<1> QED
  BY <1>1 DEF AskedOk, Alone, SamePlan

LEMMA PlanInit == Init => PlanInv
BY DEF Init, PlanInv, AskedOk, OrderOk, Planned, Fresh

LEMMA PlanInvStep ==
  ASSUME FrameType, Records, PlanInv, [Next]_vars PROVE PlanInv'
<1>0. RecordType /\ AskedOk /\ OrderOk
  BY DEF Records, PlanInv
<1>1. CASE PlanKept
  <2>1. AskedOk'
    <3> SUFFICES ASSUME NEW r \in Subtask,
                        sub'[r].fixNext \/ att'[r].fix \/ sub'[r].ending # "no"
                 PROVE  sub'[r].rounds # 0
      BY DEF AskedOk
    <3>1. sub[r].fixNext \/ att[r].fix \/ sub[r].ending # "no"
      BY <1>1 DEF PlanKept, SamePlan
    <3> QED
      BY <1>0, <1>1, <3>1 DEF AskedOk, PlanKept, SamePlan
  <2>2. OrderOk'
    BY <1>0, <1>1 DEF OrderOk, PlanKept, SamePlan
  <2> QED
    BY <2>1, <2>2 DEF PlanInv
<1>2. ASSUME NEW s \in Subtask, BeginAttempt(s), ~Raise PROVE PlanInv'
  <2>1. /\ Alone(s) /\ Begins(s) /\ IsCurrent(s) /\ sub'[s].status = "active"
        /\ sub'[s].ending = sub[s].ending /\ sub'[s].rounds = sub[s].rounds
    BY <1>2, BeginPlan
  <2>2. sub'[s].fixNext \/ att'[s].fix \/ sub'[s].ending # "no" => sub'[s].rounds # 0
    BY <1>0, <2>1 DEF Begins, AskedOk, SamePlan
  <2> QED
    BY <1>0, <2>1, <2>2, AskedMoves, OrderMoves DEF PlanInv
<1>3. ASSUME NEW s \in Subtask, RecordEscalated(s), ~Raise PROVE PlanInv'
  BY <1>0, <1>3, EscalatedPlan, AskedMoves, OrderMoves DEF PlanInv, Becomes
<1>4. ASSUME NEW s \in Subtask, EndSubtask(s), ~Raise PROVE PlanInv'
  <2>1. Becomes(s, "rejected") /\ IsCurrent(s) /\ sub'[s].rounds = sub[s].rounds
        /\ sub'[s].ending = "no"
    BY <1>4, EndedPlan
  <2>2. sub'[s].fixNext \/ att'[s].fix \/ sub'[s].ending # "no" => sub'[s].rounds # 0
    BY <1>0, <2>1 DEF AskedOk, Becomes
  <2> QED
    BY <1>0, <2>1, <2>2, AskedMoves, OrderMoves DEF PlanInv, Becomes
<1>5. ASSUME NEW s \in Subtask, CheckDiff(s, FALSE), ~Raise PROVE PlanInv'
  <2>1. Becomes(s, "done") /\ IsCurrent(s) /\ sub'[s].rounds = sub[s].rounds
        /\ sub'[s].ending = sub[s].ending
    BY <1>5, DonePlan
  <2>2. sub'[s].fixNext \/ att'[s].fix \/ sub'[s].ending # "no" => sub'[s].rounds # 0
    BY <1>0, <2>1 DEF AskedOk, Becomes
  <2> QED
    BY <1>0, <2>1, <2>2, AskedMoves, OrderMoves DEF PlanInv, Becomes
<1>6. ASSUME NEW s \in Subtask, RemoveSubtask(s) PROVE PlanInv'
  <2>1. Becomes(s, "removed") /\ sub'[s].rounds = sub[s].rounds /\ sub'[s].ending = sub[s].ending
    BY <1>6, RemovedPlan
  <2>2. sub'[s].fixNext \/ att'[s].fix \/ sub'[s].ending # "no" => sub'[s].rounds # 0
    BY <1>0, <2>1 DEF AskedOk, Becomes
  <2> QED
    BY <1>0, <2>1, <2>2, AskedMoves, OrderMoves DEF PlanInv, Becomes
<1>7. ASSUME NEW s \in Subtask, Answers(s) PROVE PlanInv'
  <2>1. sub[s].rounds # 0 /\ sub'[s].rounds # 0
    <3>1. RecordOk(sub[s], att[s]) /\ sub[s].status = "escalated" /\ sub'[s].rounds = sub[s].rounds
      BY <1>7, AtRecord DEF Answers
    <3> QED
      BY <3>1 DEF RecordOk
  <2>2. AskedOk'
    BY <1>0, <1>7, <2>1, AskedMoves DEF Answers
  <2>3. OrderOk'
    BY <1>0, <1>7, OrderMoves DEF Answers
  <2> QED
    BY <2>2, <2>3 DEF PlanInv
<1> QED
  BY <1>0, <1>1, <1>2, <1>3, <1>4, <1>5, <1>6, <1>7, PlanStep, DecisionPlan DEF Changes, Taking

-----------------------------------------------------------------------------
(* A subtask goes where its newest item said that the verb would send it.  *)

\* What an effect leaves a subtask with, until it is put to a person again.
Follows(effect, x, a) ==
  /\ effect = "none" <=> x.status = "escalated"
  /\ effect # "none" => x.status \in {"active", "done", "rejected"}
  /\ effect = "merge" <=> a.approved
  /\ effect = "end" => x.status = "rejected" \/ (x.status = "active" /\ x.ending # "no")
  /\ effect \in {"merge", "retry"} => x.status # "rejected" /\ x.ending = "no"
  /\ effect = "retry" => ~a.fix /\ ~x.fixNext
  /\ effect = "fix" => x.fixNext \/ x.fixUsed

Followed(s) ==
  \A item \in items, i \in 1..Len(decisions) :
    item.id = <<s, sub[s].item>> /\ decisions[i].item = item.id /\ item.id \in taken
      => Follows(Effect(item, decisions[i]), sub[s], att[s])

\* An item of a subtask is listed once, decided once, and taken after both.
ItemsOnce ==
  /\ \A item \in items : item.id[1] \in Subtask => item.id[2] # 0
  /\ \A x, y \in items : x.id = y.id /\ x.id[1] \in Subtask => x = y

DecidedOnce ==
  /\ \A i, j \in 1..Len(decisions) : decisions[i].item = decisions[j].item => i = j
  /\ \A id \in taken : \E i \in 1..Len(decisions) : decisions[i].item = id

TakenBefore == \A s \in Subtask, id \in taken : id[1] = s => id[2] <= sub[s].rounds

FixesUsed == \A s \in Subtask : att[s].fix => sub[s].fixUsed

GivenInv == /\ ItemsOnce /\ DecidedOnce /\ TakenBefore /\ FixesUsed
            /\ \A s \in Subtask : Followed(s)

\* Where the queue shows nothing new of a subtask, it is enough that the effect lasts.
LEMMA FollowedLasts ==
  ASSUME NEW s \in Subtask, Followed(s),
         \A item \in items', i \in 1..Len(decisions') :
           item.id = <<s, sub'[s].item>> /\ decisions'[i].item = item.id /\ item.id \in taken'
             => /\ item \in items /\ i \in 1..Len(decisions) /\ decisions'[i] = decisions[i]
                /\ item.id \in taken /\ sub'[s].item = sub[s].item,
         \A effect : Follows(effect, sub[s], att[s]) => Follows(effect, sub'[s], att'[s])
  PROVE  Followed(s)'
<1> SUFFICES ASSUME NEW item \in items', NEW i \in 1..Len(decisions'),
                    item.id = <<s, sub'[s].item>>, decisions'[i].item = item.id,
                    item.id \in taken'
             PROVE  Follows(Effect(item, decisions'[i]), sub'[s], att'[s])
  BY DEF Followed, Effect
<1>1. /\ item \in items /\ i \in 1..Len(decisions) /\ decisions'[i] = decisions[i]
      /\ item.id \in taken /\ sub'[s].item = sub[s].item
  OBVIOUS
<1>2. Follows(Effect(item, decisions[i]), sub[s], att[s])
  BY <1>1 DEF Followed
<1> QED
  BY <1>1, <1>2

LEMMA FollowsSame ==
  ASSUME NEW x, NEW a, NEW y, NEW b, NEW effect, SamePlan(x, a, y, b),
         b.approved => y.ending = "no", Follows(effect, x, a)
  PROVE  Follows(effect, y, b)
BY DEF SamePlan, Follows

\* The steps that leave the queue, the decisions and what was taken alone.
SameQueue == items' = items /\ decisions' = decisions /\ taken' = taken

LEMMA QueueKeeps ==
  ASSUME SameQueue, ItemsOnce, DecidedOnce PROVE ItemsOnce' /\ DecidedOnce'
BY DEF SameQueue, ItemsOnce, DecidedOnce

LEMMA GivenKept ==
  ASSUME RecordsOk', GivenInv, SameQueue, PlanKept PROVE GivenInv'
<1>1. ASSUME NEW s \in Subtask PROVE Followed(s)'
  <2>1. SamePlan(sub[s], att[s], sub'[s], att'[s]) /\ sub'[s].item = sub[s].item
    BY DEF PlanKept, SamePlan
  <2>2. att'[s].approved => sub'[s].ending = "no"
    BY DEF RecordsOk, RecordOk
  <2>3. \A effect : Follows(effect, sub[s], att[s]) => Follows(effect, sub'[s], att'[s])
    BY <2>1, <2>2, FollowsSame
  <2> QED
    BY <2>1, <2>3, FollowedLasts DEF GivenInv, SameQueue
<1>2. TakenBefore' /\ FixesUsed'
  BY DEF GivenInv, TakenBefore, FixesUsed, PlanKept, SamePlan, SameQueue
<1> QED
  BY <1>1, <1>2, QueueKeeps DEF GivenInv

\* A step about one subtask.
LEMMA GivenMoves ==
  ASSUME RecordsOk', GivenInv, SameQueue, NEW s \in Subtask, Alone(s), Followed(s)',
         sub[s].rounds \in Nat, sub'[s].rounds \in Nat, sub[s].rounds <= sub'[s].rounds,
         FrameType, TakenOk, att'[s].fix => sub'[s].fixUsed
  PROVE  GivenInv'
<1>1. ASSUME NEW r \in Subtask, r # s PROVE Followed(r)'
  <2>1. SamePlan(sub[r], att[r], sub'[r], att'[r]) /\ sub'[r].item = sub[r].item
    BY <1>1 DEF Alone, SamePlan
  <2>2. att'[r].approved => sub'[r].ending = "no"
    BY DEF RecordsOk, RecordOk
  <2>3. \A effect : Follows(effect, sub[r], att[r]) => Follows(effect, sub'[r], att'[r])
    BY <2>1, <2>2, FollowsSame
  <2> QED
    BY <2>1, <2>3, FollowedLasts DEF GivenInv, SameQueue
<1>2. TakenBefore'
  <2> SUFFICES ASSUME NEW r \in Subtask, NEW id \in taken, id[1] = r
               PROVE  id[2] <= sub'[r].rounds
    BY DEF TakenBefore, SameQueue
  <2>1. id[2] <= sub[r].rounds
    BY DEF GivenInv, TakenBefore
  <2>2. CASE r # s
    BY <2>1, <2>2 DEF Alone, SamePlan
  <2>3. CASE r = s
    <3>1. id[2] \in Nat
      BY DEF FrameType, TakenOk, Item, ItemId
    <3> QED
      BY <2>1, <2>3, <3>1
  <2> QED
    BY <2>2, <2>3
<1>3. FixesUsed'
  BY DEF GivenInv, FixesUsed, Alone, SamePlan
<1> QED
  BY <1>1, <1>2, <1>3, QueueKeeps DEF GivenInv

\* An attempt begins: what a reject ordered is what runs.
LEMMA GivenBegins ==
  ASSUME FrameType, Records, TakenOk, RecordType', RecordsOk', GivenInv, SameQueue,
         NEW s \in Subtask, BeginAttempt(s), ~Raise
  PROVE  GivenInv'
<1>1. /\ Alone(s) /\ Begins(s) /\ IsCurrent(s)
      /\ sub'[s].status = "active" /\ sub'[s].ending = sub[s].ending
      /\ sub'[s].rounds = sub[s].rounds /\ sub'[s].item = sub[s].item
      /\ sub[s].ending = "no" /\ ~att[s].approved /\ ~att'[s].approved
  BY BeginPlan
<1>2. sub[s].status \in {"planned", "active"}
  BY <1>1 DEF IsCurrent, Unresolved
<1>3. att[s].fix => sub[s].fixUsed
  BY DEF GivenInv, FixesUsed
<1>4. ASSUME NEW effect, Follows(effect, sub[s], att[s])
      PROVE  Follows(effect, sub'[s], att'[s])
  <2>1. effect \notin {"none", "merge", "end"} /\ sub[s].status = "active"
    BY <1>1, <1>2, <1>4 DEF Follows
  <2>2. effect = "retry" => ~att'[s].fix /\ ~sub'[s].fixNext
    BY <1>1, <1>4 DEF Follows, Begins, SamePlan
  <2>3. effect = "fix" => sub'[s].fixNext \/ sub'[s].fixUsed
    BY <1>1, <1>4 DEF Follows, Begins, SamePlan
  <2> QED
    BY <1>1, <2>1, <2>2, <2>3 DEF Follows
<1>5. Followed(s)'
  BY <1>1, <1>4, FollowedLasts DEF GivenInv, SameQueue
<1>6. att'[s].fix => sub'[s].fixUsed
  BY <1>1, <1>3 DEF Begins, SamePlan
<1>7. sub[s].rounds \in Nat
  BY DEF Records, RecordType, SubtaskState
<1> QED
  BY <1>1, <1>5, <1>6, <1>7, GivenMoves

\* A subtask is put to a person: no decision on its new item was taken yet.
LEMMA GivenEscalates ==
  ASSUME FrameType, Records, TakenOk, RecordsOk', GivenInv, SameQueue,
         NEW s \in Subtask, RecordEscalated(s), ~Raise
  PROVE  GivenInv'
<1>1. /\ Becomes(s, "escalated") /\ sub'[s].rounds = sub[s].rounds + 1
      /\ sub'[s].item = sub[s].rounds + 1
  BY EscalatedPlan
<1>2. sub[s].rounds \in Nat
  BY DEF Records, RecordType, SubtaskState
<1>3. Followed(s)'
  <2> SUFFICES ASSUME NEW id \in taken, id = <<s, sub'[s].item>> PROVE FALSE
    BY DEF Followed, SameQueue
  <2>1. id[1] = s /\ id[2] = sub[s].rounds + 1
    BY <1>1
  <2>2. id[2] <= sub[s].rounds
    BY <2>1 DEF GivenInv, TakenBefore
  <2> QED
    BY <1>2, <2>1, <2>2
<1>4. att'[s].fix => sub'[s].fixUsed
  BY <1>1 DEF Becomes, GivenInv, FixesUsed
<1>5. sub'[s].rounds \in Nat /\ sub[s].rounds <= sub'[s].rounds
  BY <1>1, <1>2
<1> QED
  BY <1>1, <1>2, <1>3, <1>4, <1>5, GivenMoves DEF Becomes

\* A subtask is given up, or merged.
LEMMA GivenResolves ==
  ASSUME FrameType, Records, PlacesOk, TakenOk, RecordsOk', GivenInv, SameQueue,
         NEW s \in Subtask, EndSubtask(s) \/ CheckDiff(s, FALSE) \/ RemoveSubtask(s), ~Raise
  PROVE  GivenInv'
<1>0. sub[s].rounds \in Nat
  BY DEF Records, RecordType, SubtaskState
<1>1. ASSUME NEW state, Becomes(s, state), sub'[s].rounds = sub[s].rounds,
             sub'[s].item = sub[s].item,
             \A effect : Follows(effect, sub[s], att[s]) => Follows(effect, sub'[s], att'[s])
      PROVE  GivenInv'
  <2>1. Followed(s)'
    BY <1>1, FollowedLasts DEF GivenInv, SameQueue
  <2>2. att'[s].fix => sub'[s].fixUsed
    BY <1>1 DEF Becomes, GivenInv, FixesUsed
  <2> QED
    BY <1>0, <1>1, <2>1, <2>2, GivenMoves DEF Becomes
<1>2. CASE EndSubtask(s)
  <2>1. /\ Becomes(s, "rejected") /\ Active(s) /\ sub'[s].rounds = sub[s].rounds
        /\ sub'[s].item = sub[s].item /\ sub'[s].ending = "no" /\ sub[s].ending # "no"
    BY <1>2, EndedPlan
  <2>2. ASSUME NEW effect, Follows(effect, sub[s], att[s])
        PROVE  Follows(effect, sub'[s], att'[s])
    BY <2>1, <2>2 DEF Follows, Becomes, Active
  <2> QED
    BY <1>1, <2>1, <2>2
<1>3. CASE CheckDiff(s, FALSE)
  <2>1. /\ Becomes(s, "done") /\ IsCurrent(s) /\ Active(s) /\ pc = "diffing"
        /\ sub'[s].rounds = sub[s].rounds
        /\ sub'[s].ending = sub[s].ending /\ sub'[s].item = sub[s].item
    BY <1>3, DonePlan
  <2>2. sub[s].ending = "no"
    <3>1. att[s].merged
      BY <2>1, AtPlace DEF PlaceOk
    <3>2. att[s] \in Attempt /\ RecordOk(sub[s], att[s]) /\ StagesInOrder(att[s])
      BY AtRecord
    <3>3. sub[s].ending # "no" => Ended(att[s]) /\ ~att[s].approved
      BY <3>2 DEF RecordOk
    <3> QED
      BY <3>1, <3>2, <3>3, EndedNotMerged
  <2>3. ASSUME NEW effect, Follows(effect, sub[s], att[s])
        PROVE  Follows(effect, sub'[s], att'[s])
    BY <2>1, <2>2, <2>3 DEF Follows, Becomes, Active
  <2> QED
    BY <1>1, <2>1, <2>3
<1>4. CASE RemoveSubtask(s)
  <2>1. /\ Becomes(s, "removed") /\ sub[s].status = "planned"
        /\ sub'[s].rounds = sub[s].rounds /\ sub'[s].item = sub[s].item
    BY <1>4, RemovedPlan
  <2>2. ASSUME NEW effect, Follows(effect, sub[s], att[s]) PROVE FALSE
    BY <2>1, <2>2 DEF Follows
  <2> QED
    BY <1>1, <2>1, <2>2
<1> QED
  BY <1>2, <1>3, <1>4

\* A person decides.
LEMMA GivenDecided ==
  ASSUME FrameType, GivenInv, UNCHANGED <<items, taken, sub, att>>,
         \/ decisions' = decisions
         \/ \E item \in items, verb \in Verb, long \in BOOLEAN : PersonDecides(item, verb, long)
  PROVE  GivenInv'
<1>1. PICK n \in Nat : /\ n = Len(decisions) /\ n <= Len(decisions')
                       /\ Len(decisions') \in {n, n + 1}
                       /\ \A i \in 1..n : decisions'[i] = decisions[i]
                       /\ Len(decisions') = n + 1 =>
                            \A i \in 1..n : decisions[i].item # decisions'[n + 1].item
  <2>0. decisions \in Seq(Decision) /\ Len(decisions) \in Nat
    BY DEF FrameType
  <2>1. CASE decisions' = decisions
    BY <2>0, <2>1
  <2>2. ASSUME NEW item \in items, NEW verb \in Verb, NEW long \in BOOLEAN,
               PersonDecides(item, verb, long)
        PROVE  \E n \in Nat : /\ n = Len(decisions) /\ n <= Len(decisions')
                              /\ Len(decisions') \in {n, n + 1}
                              /\ \A i \in 1..n : decisions'[i] = decisions[i]
                              /\ Len(decisions') = n + 1 =>
                                   \A i \in 1..n : decisions[i].item # decisions'[n + 1].item
    <3> DEFINE d == [item |-> item.id, verb |-> verb, long |-> long]
    <3>1. d \in Decision /\ d.item = item.id
      BY DEF FrameType, Item, Decision
    <3>2. /\ \A i \in 1..Len(decisions) : decisions[i].item # item.id
          /\ decisions' = Append(decisions, d)
      BY <2>2 DEF PersonDecides
    <3> HIDE DEF d
    <3>3. /\ Len(decisions') = Len(decisions) + 1 /\ decisions'[Len(decisions) + 1] = d
          /\ \A i \in 1..Len(decisions) : decisions'[i] = decisions[i]
      BY <2>0, <3>1, <3>2
    <3> QED
      BY <2>0, <3>1, <3>2, <3>3
  <2> QED
    BY <2>1, <2>2
<1>2. DecidedOnce
  BY DEF GivenInv
<1>3. DecidedOnce'
  <2>1. ASSUME NEW i \in 1..Len(decisions'), NEW j \in 1..Len(decisions'),
               decisions'[i].item = decisions'[j].item
        PROVE  i = j
    <3>1. (i \in 1..n \/ (i = n + 1 /\ Len(decisions') = n + 1))
          /\ (j \in 1..n \/ (j = n + 1 /\ Len(decisions') = n + 1))
      BY <1>1
    <3> QED
      BY <1>1, <1>2, <2>1, <3>1 DEF DecidedOnce
  <2>2. ASSUME NEW id \in taken' PROVE \E i \in 1..Len(decisions') : decisions'[i].item = id
    <3>1. PICK i \in 1..n : decisions[i].item = id
      BY <1>1, <1>2 DEF DecidedOnce
    <3>2. i \in 1..Len(decisions') /\ decisions'[i].item = id
      BY <1>1, <3>1
    <3> QED
      BY <3>2
  <2> QED
    BY <2>1, <2>2 DEF DecidedOnce
<1>4. ASSUME NEW s \in Subtask PROVE Followed(s)'
  <2>1. ASSUME NEW id \in taken, NEW i \in 1..Len(decisions'), decisions'[i].item = id
        PROVE  i \in 1..Len(decisions) /\ decisions'[i] = decisions[i]
    <3>1. PICK j \in 1..n : decisions[j].item = id
      BY <1>1, <1>2 DEF DecidedOnce
    <3>2. i \in 1..n \/ (i = n + 1 /\ Len(decisions') = n + 1)
      BY <1>1
    <3> QED
      BY <1>1, <2>1, <3>1, <3>2
  <2> QED
    BY <2>1, FollowedLasts DEF GivenInv
<1> QED
  BY <1>3, <1>4 DEF GivenInv, ItemsOnce, TakenBefore, FixesUsed

\* An item is listed under an identity that nothing was listed under.
LEMMA GivenListed ==
  ASSUME RecordType, GivenInv, UNCHANGED <<decisions, taken, sub, att>>,
         \/ items' = items
         \/ \E new : /\ items' = items \cup {new}
                     /\ \/ new.id = <<0, 0>>
                        \/ \E s \in Subtask : /\ new.id = NextItem(s)
                                              /\ \A item \in items : item.id # new.id
  PROVE  GivenInv'
<1>1. CASE items' = items
  <2>1. ASSUME NEW s \in Subtask PROVE Followed(s)'
    BY <1>1, <2>1, FollowedLasts DEF GivenInv
  <2> QED
    BY <1>1, <2>1 DEF GivenInv, ItemsOnce, DecidedOnce, TakenBefore, FixesUsed
<1>2. ASSUME NEW new, items' = items \cup {new},
             \/ new.id[1] \notin Subtask
             \/ /\ new.id[1] \in Subtask /\ new.id[2] # 0
                /\ ~(new.id[2] <= sub[new.id[1]].rounds)
                /\ \A item \in items : item.id # new.id
      PROVE  GivenInv'
  <2>1. ItemsOnce'
    BY <1>2 DEF GivenInv, ItemsOnce
  <2>2. ASSUME NEW s \in Subtask PROVE Followed(s)'
    <3>1. new.id \in taken => new.id[1] # s
      BY <1>2 DEF GivenInv, TakenBefore
    <3>2. <<s, sub[s].item>>[1] = s
      OBVIOUS
    <3> QED
      BY <1>2, <3>1, <3>2, FollowedLasts DEF GivenInv
  <2> QED
    BY <2>1, <2>2 DEF GivenInv, DecidedOnce, TakenBefore, FixesUsed
<1>3. ASSUME NEW new, new.id = <<0, 0>> PROVE new.id[1] \notin Subtask
  BY <1>3, LoopAssumption DEF Subtask
<1>4. ASSUME NEW new, NEW s \in Subtask, new.id = NextItem(s)
      PROVE  /\ new.id[1] \in Subtask /\ new.id[2] # 0
             /\ ~(new.id[2] <= sub[new.id[1]].rounds)
  <2>1. new.id[1] = s /\ new.id[2] = sub[s].rounds + 1
    BY <1>4 DEF NextItem
  <2>2. sub[s].rounds \in Nat
    BY DEF RecordType, SubtaskState
  <2> QED
    BY <2>1, <2>2
<1> QED
  BY <1>1, <1>2, <1>3, <1>4

\* What a decision leaves the subtask with that waited for it.
LEMMA DecisionFollowed ==
  ASSUME FrameType, Records, GivenInv, NEW item \in items, NEW i \in 1..Len(decisions),
         TakeDecision(item, i), item.id[2] # 0
  PROVE  LET s == item.id[1]
         IN  /\ s \in Subtask /\ item.id = <<s, sub[s].item>> /\ sub[s].item = sub[s].rounds
             /\ sub[s].rounds \in Nat /\ sub'[s].item = sub[s].item
             /\ sub'[s].rounds = sub[s].rounds /\ sub'[s].fixUsed = sub[s].fixUsed
             /\ att'[s].fix = att[s].fix
             /\ \A r \in Subtask : r # s => sub'[r] = sub[r] /\ att'[r] = att[r]
             /\ Follows(Effect(item, decisions[i]), sub'[s], att'[s])
<1> DEFINE s == item.id[1]
           effect == Effect(item, decisions[i])
<1>0. item.id \in ItemId /\ item.scan \in BOOLEAN /\ decisions[i].verb \in Verb /\ RecordType
  <2>1. item \in Item /\ decisions[i] \in Decision
    BY DEF FrameType
  <2> QED
    BY <2>1 DEF Item, Decision, Records
<1>1. item.id \in Subtask \X Nat
  BY <1>0 DEF ItemId
<1>2. s \in Subtask
  BY <1>1
<1>3. /\ sub[s].status = "escalated" /\ sub[s].item = item.id[2]
      /\ item.does = Consequence(s, item.scan)
  BY DEF TakeDecision
<1>4. item.id = <<s, sub[s].item>>
  BY <1>1, <1>3
<1>5. /\ sub[s] \in SubtaskState /\ att[s] \in Attempt
      /\ RecordOk(sub[s], att[s])
  BY <1>2, AtRecord
<1>6. ~att[s].approved /\ sub[s].ending = "no" /\ sub[s].item = sub[s].rounds
      /\ sub[s].rounds \in Nat
  <2>1. ~att[s].approved /\ sub[s].ending = "no" /\ sub[s].item = sub[s].rounds
    BY <1>3, <1>5 DEF RecordOk
  <2> QED
    BY <1>5, <2>1 DEF SubtaskState
<1>7. effect \in {"merge", "fix", "end", "retry", "none"} /\ (effect = "retry" => ~sub[s].fixUsed)
  BY <1>0, <1>2, <1>3, EffectIs
<1>8. effect = "retry" => ~att[s].fix
  BY <1>2, <1>7 DEF GivenInv, FixesUsed
<1>9. CASE effect = "none"
  <2>1. sub' = sub /\ att' = att
    BY <1>9 DEF TakeDecision
  <2>2. Follows(effect, sub'[s], att'[s])
    BY <1>3, <1>6, <1>9, <2>1 DEF Follows
  <2> QED
    BY <1>2, <1>4, <1>6, <2>1, <2>2
<1>10. CASE effect # "none"
  <2>1. /\ att' = [att EXCEPT ![s].approved = (effect = "merge"),
                              ![s].spent = (effect # "merge"),
                              ![s].cursor = IF effect = "merge" THEN "decide" ELSE @]
        /\ sub' = [sub EXCEPT ![s].status = "active",
                     ![s].next = IF effect \in Orders THEN att[s].n + 1 ELSE @,
                     ![s].fixNext = (effect = "fix"),
                     ![s].ending = IF effect = "end" THEN "person" ELSE @]
    BY <1>10 DEF TakeDecision
  <2> DEFINE next == IF effect \in Orders THEN att[s].n + 1 ELSE sub[s].next
             fix == (effect = "fix")
             end == IF effect = "end" THEN "person" ELSE sub[s].ending
             merge == (effect = "merge")
             spent == (effect # "merge")
             cursor == IF effect = "merge" THEN "decide" ELSE att[s].cursor
             x == [sub[s] EXCEPT !.status = "active", !.next = next, !.fixNext = fix, !.ending = end]
             b == [att[s] EXCEPT !.approved = merge, !.spent = spent, !.cursor = cursor]
  <2>2. sub' = [sub EXCEPT ![s] = x] /\ att' = [att EXCEPT ![s] = b]
    BY <1>0, <1>2, <2>1 DEF RecordType
  <2>3. /\ fix <=> effect = "fix"
        /\ merge <=> effect = "merge"
        /\ effect = "end" => end = "person"
        /\ effect # "end" => end = "no"
    BY <1>6
  <2> HIDE DEF next, fix, end, merge, spent, cursor, effect, s
  <2>4. /\ x.rounds = sub[s].rounds /\ x.item = sub[s].item /\ x.fixUsed = sub[s].fixUsed
        /\ x.status = "active" /\ x.fixNext = fix /\ x.ending = end
    BY <1>5 DEF SubtaskState
  <2>5. b.fix = att[s].fix /\ b.approved = merge
    BY <1>5 DEF Attempt
  <2> HIDE DEF x, b
  <2>6. Follows(effect, x, b)
    BY <1>7, <1>8, <1>10, <2>3, <2>4, <2>5 DEF Follows
  <2>7. /\ sub'[s] = x /\ att'[s] = b
        /\ \A r \in Subtask : r # s => sub'[r] = sub[r] /\ att'[r] = att[r]
    BY <1>0, <1>2, <2>2 DEF RecordType
  <2>8. Follows(effect, sub'[s], att'[s])
    BY <2>6, <2>7
  <2> QED
    BY <1>2, <1>4, <1>6, <2>4, <2>5, <2>7, <2>8 DEF s, effect
<1> QED
  BY <1>9, <1>10

\* A decision is taken: on its subtask's newest item, which was decided this once.
LEMMA GivenTaken ==
  ASSUME FrameType, Records, GivenInv, NEW item \in items, NEW i \in 1..Len(decisions),
         TakeDecision(item, i)
  PROVE  GivenInv'
<1>1. /\ items' = items /\ decisions' = decisions /\ taken' = taken \cup {item.id}
      /\ decisions[i].item = item.id
  BY DEF TakeDecision, outside
<1>2. /\ ItemsOnce' /\ DecidedOnce'
  BY <1>1 DEF GivenInv, ItemsOnce, DecidedOnce
<1>3. CASE item.id[2] = 0
  <2>1. sub' = sub /\ att' = att
    BY <1>3 DEF TakeDecision
  <2>2. item.id[1] \notin Subtask
    BY <1>3 DEF GivenInv, ItemsOnce
  <2>3. ASSUME NEW s \in Subtask PROVE Followed(s)'
    <3>1. <<s, sub[s].item>>[1] = s
      OBVIOUS
    <3> QED
      BY <1>1, <2>1, <2>2, <3>1, FollowedLasts DEF GivenInv
  <2> QED
    BY <1>1, <1>2, <2>1, <2>2, <2>3 DEF GivenInv, TakenBefore, FixesUsed
<1>4. CASE item.id[2] # 0
  <2> DEFINE s == item.id[1]
  <2>1. /\ s \in Subtask /\ item.id = <<s, sub[s].item>> /\ sub[s].item = sub[s].rounds
        /\ sub[s].rounds \in Nat /\ sub'[s].item = sub[s].item
        /\ sub'[s].rounds = sub[s].rounds /\ sub'[s].fixUsed = sub[s].fixUsed
        /\ att'[s].fix = att[s].fix
        /\ \A r \in Subtask : r # s => sub'[r] = sub[r] /\ att'[r] = att[r]
        /\ Follows(Effect(item, decisions[i]), sub'[s], att'[s])
    BY <1>4, DecisionFollowed
  <2> HIDE DEF s
  <2>2. item.id[1] = s /\ item.id[2] = sub[s].rounds
    BY <2>1
  <2>3. \A r \in Subtask : /\ sub'[r].rounds = sub[r].rounds /\ sub'[r].fixUsed = sub[r].fixUsed
                           /\ att'[r].fix = att[r].fix
    BY <2>1
  <2>4. TakenBefore'
    <3> SUFFICES ASSUME NEW r \in Subtask, NEW id \in taken \cup {item.id}, id[1] = r
                 PROVE  id[2] <= sub[r].rounds
      BY <1>1, <2>3 DEF TakenBefore
    <3>1. CASE id \in taken
      BY <3>1 DEF GivenInv, TakenBefore
    <3>2. CASE id = item.id
      BY <2>1, <2>2, <3>2
    <3> QED
      BY <3>1, <3>2
  <2>5. FixesUsed'
    BY <2>3 DEF GivenInv, FixesUsed
  <2>6. ASSUME NEW r \in Subtask, r # s PROVE Followed(r)'
    <3>1. sub'[r] = sub[r] /\ att'[r] = att[r] /\ <<r, sub[r].item>> # item.id
      BY <2>1, <2>2, <2>6
    <3> QED
      BY <1>1, <3>1, FollowedLasts DEF GivenInv
  <2>7. Followed(s)'
    <3> SUFFICES ASSUME NEW other \in items, NEW j \in 1..Len(decisions),
                        other.id = <<s, sub'[s].item>>, decisions[j].item = other.id
                 PROVE  Follows(Effect(other, decisions[j]), sub'[s], att'[s])
      BY <1>1 DEF Followed, Effect
    <3>1. other.id = item.id
      BY <2>1
    <3>2. other = item
      BY <2>1, <2>2, <3>1 DEF GivenInv, ItemsOnce
    <3>3. j = i
      BY <1>1, <3>1 DEF GivenInv, DecidedOnce
    <3> QED
      BY <2>1, <3>2, <3>3
  <2> QED
    BY <1>2, <2>4, <2>5, <2>6, <2>7 DEF GivenInv
<1> QED
  BY <1>3, <1>4

LEMMA GivenInit == Init => GivenInv
BY DEF Init, GivenInv, ItemsOnce, DecidedOnce, TakenBefore, FixesUsed, Followed, Fresh

LEMMA GivenStep ==
  ASSUME LoopInv, LoopInv', GivenInv, [Next]_vars PROVE GivenInv'
<1>0. /\ FrameType /\ Records /\ RecordType /\ PlacesOk /\ TakenOk
      /\ RecordType' /\ RecordsOk'
  BY DEF LoopInv, Records
<1>1. CASE Taking
  BY <1>0, <1>1, GivenTaken DEF Taking
<1>2. CASE Aside /\ ~Taking
  <2>1. SameQueue
    BY <1>2 DEF Aside, SameQueue
  <2>2. CASE PlanKept
    BY <1>0, <2>1, <2>2, GivenKept
  <2>3. ASSUME NEW s \in Subtask, Changes(s) PROVE GivenInv'
    BY <1>0, <2>1, <2>3, GivenBegins, GivenEscalates, GivenResolves DEF Changes
  <2>4. ASSUME NEW s \in Subtask, RemoveSubtask(s) PROVE GivenInv'
    BY <1>0, <2>1, <2>4, GivenResolves DEF RemoveSubtask, Raise
  <2> QED
    BY <1>0, <1>2, <2>2, <2>3, <2>4, PlanStep
<1>3. CASE /\ UNCHANGED <<items, taken, cleaned, integration, sub, att, pc>>
           /\ \/ decisions' = decisions
              \/ \E item \in items, verb \in Verb, long \in BOOLEAN : PersonDecides(item, verb, long)
  BY <1>0, <1>3, GivenDecided
<1>4. CASE Finish \/ \E verdict \in {"pass", "fail"} : Integrate(verdict)
  <2>1. UNCHANGED <<items, decisions, taken, sub, att>>
    BY <1>4 DEF Finish, Integrate, outside, replayed
  <2> QED
    BY <1>0, <2>1, GivenListed
<1>5. CASE ListIntegration
  <2> DEFINE new == [id |-> <<0, 0>>, scan |-> FALSE, does |-> RecordOnly]
  <2>1. UNCHANGED <<decisions, taken, sub, att>> /\ items' = items \cup {new}
    BY <1>5 DEF ListIntegration, replayed
  <2>2. new.id = <<0, 0>>
    OBVIOUS
  <2> HIDE DEF new
  <2> QED
    BY <1>0, <2>1, <2>2, GivenListed
<1>6. ASSUME NEW s \in Subtask, NEW scan \in BOOLEAN, List(s, scan) PROVE GivenInv'
  <2> DEFINE new == [id |-> NextItem(s), scan |-> scan,
                     does |-> IF Acts THEN Consequence(s, scan) ELSE RecordOnly]
  <2>1. /\ UNCHANGED <<decisions, taken, sub, att>>
        /\ \/ items' = items
           \/ items' = items \cup {new} /\ \A item \in items : item.id # NextItem(s)
    BY <1>6 DEF List, replayed
  <2>2. new.id = NextItem(s)
    OBVIOUS
  <2> HIDE DEF new
  <2> QED
    BY <1>0, <2>1, <2>2, GivenListed
<1> QED
  BY <1>1, <1>2, <1>3, <1>4, <1>5, <1>6, AsideStep DEF Taking

\* What was said of the verb, and what was done on it.
LEMMA SaidDone ==
  ASSUME NEW item, NEW d
  PROVE  LET said == item.does[d.verb]
             unread == said \in Orders /\ d.long
         IN  Effect(item, d) = IF unread THEN "end" ELSE said
BY DEF Effect

LEMMA GivenHold ==
  ASSUME LoopInv, GivenInv PROVE ItemsAsListed
<1>1. ASSUME NEW s \in Subtask, NEW item \in items, NEW i \in 1..Len(decisions),
             item.id = <<s, sub[s].item>>, item.id = decisions[i].item, item.id \in taken
      PROVE  LET said == item.does[decisions[i].verb]
                 unread == said \in Orders /\ decisions[i].long
             IN  /\ said = "none" <=> sub[s].status = "escalated"
                 /\ said = "merge" <=> att[s].approved
                 /\ said = "end" \/ unread => GivenUp(s)
                 /\ said \in {"merge", "retry"} /\ ~unread => ~GivenUp(s)
                 /\ said = "fix" /\ ~unread => sub[s].fixNext \/ sub[s].fixUsed
  <2> DEFINE said == item.does[decisions[i].verb]
             unread == said \in Orders /\ decisions[i].long
             effect == Effect(item, decisions[i])
  <2>1. Follows(effect, sub[s], att[s])
    BY <1>1 DEF GivenInv, Followed
  <2>2. effect = IF unread THEN "end" ELSE said
    BY SaidDone
  <2>3. unread => said \in {"fix", "retry"}
    BY DEF Orders
  <2> HIDE DEF said, unread, effect
  <2>4. CASE unread
    BY <2>1, <2>2, <2>3, <2>4 DEF Follows, GivenUp, said, unread
  <2>5. CASE ~unread
    BY <2>1, <2>2, <2>5 DEF Follows, GivenUp, said, unread
  <2> QED
    BY <2>4, <2>5
<1>2. ASSUME NEW s \in Subtask PROVE GivenAsShown(s)
  BY <1>1 DEF GivenAsShown
<1> QED
  BY <1>2 DEF ItemsAsListed, LoopInv, ItemsOk

\* A person is never shown one consequence and given another: what an item says a verb
\* will do is what the record gives for as long as the subtask waits, and once the
\* decision is taken the subtask goes there, until it is put to a person again, through
\* kills, resumes, retries and later rounds of the queue; but an order too long to be
\* read whole ends it (_item_for, item_consequence, decision_effect, _take).
THEOREM ListedConsequencesHold == Spec => []ItemsAsListed
<1>1. Init => LoopInv /\ GivenInv
  BY LoopInit, GivenInit
<1>2. LoopInv /\ GivenInv /\ [Next]_vars => (LoopInv /\ GivenInv)'
  BY LoopStep, GivenStep
<1>3. LoopInv /\ GivenInv => ItemsAsListed
  BY GivenHold
<1> QED
  BY <1>1, <1>2, <1>3, PTL DEF Spec

-----------------------------------------------------------------------------
(* The parts of the plan's run that a step moves.                          *)

LEMMA BarsMove ==
  ASSUME NEW s \in Subtask, Alone(s)
  PROVE  /\ StatusBar' = [StatusBar EXCEPT ![s] = sub'[s].status]
         /\ TriesBar' = [TriesBar EXCEPT ![s] = att'[s].n]
         /\ FixBar' = [FixBar EXCEPT ![s] = FixOf(sub'[s])]
         /\ AskedBar' = [AskedBar EXCEPT ![s] = sub'[s].rounds]
<1>1. \A r \in Subtask : r # s => FixOf(sub'[r]) = FixOf(sub[r])
  BY DEF Alone, SamePlan, FixOf
<1>2. FixBar' = [r \in Subtask |-> FixOf(sub'[r])]
  BY DEF FixBar, FixOf
<1>3. FixBar' = [FixBar EXCEPT ![s] = FixOf(sub'[s])]
  <2> DEFINE now == [r \in Subtask |-> FixOf(sub[r])]
             next == [r \in Subtask |-> FixOf(sub'[r])]
  <2>1. next = [now EXCEPT ![s] = FixOf(sub'[s])]
    BY <1>1
  <2> QED
    BY <1>2, <2>1 DEF FixBar
<1> QED
  BY <1>3 DEF Alone, SamePlan, StatusBar, TriesBar, AskedBar

LEMMA BarsKept ==
  ASSUME PlanKept PROVE UNCHANGED <<StatusBar, TriesBar, FixBar, AskedBar>>
<1>1. \A r \in Subtask : FixOf(sub'[r]) = FixOf(sub[r])
  BY DEF PlanKept, SamePlan, FixOf
<1>2. FixBar' = [r \in Subtask |-> FixOf(sub'[r])]
  BY DEF FixBar, FixOf
<1>3. FixBar' = FixBar
  BY <1>1, <1>2 DEF FixBar
<1> QED
  BY <1>3 DEF PlanKept, SamePlan, StatusBar, TriesBar, AskedBar

LEMMA BarsBecome ==
  ASSUME NEW s \in Subtask, NEW state, Becomes(s, state)
  PROVE  /\ StatusBar' = [StatusBar EXCEPT ![s] = state]
         /\ TriesBar' = TriesBar /\ FixBar' = FixBar
         /\ AskedBar' = [AskedBar EXCEPT ![s] = sub'[s].rounds]
<1>1. FixOf(sub'[s]) = FixOf(sub[s])
  BY DEF Becomes, FixOf
<1>2. /\ StatusBar' = [StatusBar EXCEPT ![s] = state]
      /\ TriesBar' = [TriesBar EXCEPT ![s] = att[s].n]
      /\ FixBar' = [FixBar EXCEPT ![s] = FixOf(sub[s])]
      /\ AskedBar' = [AskedBar EXCEPT ![s] = sub'[s].rounds]
  BY <1>1, BarsMove DEF Becomes
<1> QED
  BY <1>2 DEF TriesBar, FixBar

\* What is not of the subtasks.
Beside == UNCHANGED <<journal, head, branch, recorded, halted, integration>>

LEMMA BesideBars ==
  ASSUME Beside PROVE UNCHANGED <<WrittenBar, MergedBar, integration, StoppedBar>>
BY DEF Beside, WrittenBar, MergedBar, StoppedBar

LEMMA AccountsSame ==
  ASSUME UNCHANGED <<journal, head, branch, recorded>> PROVE SameAccounts
BY DEF SameAccounts, WrittenBar, MergedBar

\* The write a killed process made and did not record is recorded.
Accounts(s) ==
  /\ Intended(s, journal[head + 1]) /\ Len(journal) > head /\ LineMayFollow
  /\ head' = head + 1 /\ UNCHANGED <<journal, branch, recorded, halted, integration>>

\* An effect is recorded.
Recording(s) == ~Raise /\ (RecordWrite(s) \/ RecordMerge(s))

LEMMA AccountStep ==
  ASSUME FrameType, Records, PlacesOk, JournalOk, BranchOk, [Next]_vars
  PROVE  SameAccounts \/ \E s \in Subtask : Accounts(s) \/ Recording(s)
<1>0. /\ journal \in Seq(JournalLine) /\ head \in 0..Len(journal)
      /\ branch \in Seq(Subtask \X Nat) /\ recorded \in 0..Len(branch) /\ RecordType
  BY DEF FrameType, JournalOk, BranchOk, Records
<1>1. ASSUME NEW line \in JournalLine, journal' = Append(journal, line),
             UNCHANGED <<head, branch, recorded>>
      PROVE  SameAccounts
  <2>1. SubSeq(Append(journal, line), 1, head) = SubSeq(journal, 1, head)
    BY <1>0, PrefixStays
  <2> QED
    BY <1>1, <2>1 DEF SameAccounts, WrittenBar, MergedBar
<1>2. ASSUME NEW commit \in Subtask \X Nat, branch' = Append(branch, commit),
             UNCHANGED <<journal, head, recorded>>
      PROVE  SameAccounts
  <2>1. SubSeq(Append(branch, commit), 1, recorded) = SubSeq(branch, 1, recorded)
    BY <1>0, PrefixStays
  <2> QED
    BY <1>2, <2>1 DEF SameAccounts, WrittenBar, MergedBar
<1>3. ASSUME Raise PROVE SameAccounts
  BY <1>3, AccountsSame DEF Raise, replayed, outside
<1>4. ASSUME NEW cause, Incident(cause) PROVE SameAccounts
  BY <1>4, AccountsSame DEF Incident, replayed, outside
<1>5. CASE Quiet \/ Still
  BY <1>5, AccountsSame DEF Quiet, Still
<1>6. CASE CheckLine
  BY <1>3, <1>4, <1>6 DEF CheckLine, Accounts, outside
<1>7. CASE JournalHolds
  BY <1>7, AccountsSame DEF JournalHolds, replayed, outside
<1>8. CASE ForeignLine
  <2>1. NotOurs \in JournalLine
    BY LoopAssumption DEF NotOurs, JournalLine
  <2> QED
    BY <1>1, <1>8, <2>1 DEF ForeignLine, replayed
<1>9. ASSUME NEW s \in Subtask, BeginAttempt(s) PROVE SameAccounts
  BY <1>3, <1>9, AccountsSame, BeginCounts
<1>10. ASSUME NEW s \in Subtask, StoreWrite(s) PROVE SameAccounts
  <2>1. Write(s, att[s].applied + 1) \in JournalLine
    BY <1>0, Counts, LoopAssumption DEF Write, JournalLine, Subtask
  <2> QED
    BY <1>1, <1>4, <1>10, <2>1 DEF StoreWrite, replayed
<1>11. ASSUME NEW s \in Subtask, CheckBranch(s) PROVE SameAccounts
  BY <1>4, <1>11, AccountsSame DEF CheckBranch, replayed, outside
<1>12. ASSUME NEW s \in Subtask, GitMerge(s) PROVE SameAccounts
  <2>1. Commit(s) \in Subtask \X Nat
    BY <1>0, Counts DEF Commit
  <2> QED
    BY <1>2, <1>4, <1>12, <2>1, AccountsSame DEF GitMerge, replayed
<1> QED
  BY <1>0, <1>3, <1>5, <1>6, <1>7, <1>8, <1>9, <1>10, <1>11, <1>12, QuietStep
  DEF Moves, Recording

\* A run that an incident halted stays halted, and only a halt stops one.
LEMMA HaltedStep ==
  ASSUME [Next]_vars PROVE StoppedBar' = StoppedBar \/ Halt
<1>1. ASSUME halted' = halted PROVE StoppedBar' = StoppedBar
  BY <1>1 DEF StoppedBar
<1>2. ASSUME halted \in {"no", "infra"}, halted' \in {"no", "infra"}
      PROVE  StoppedBar' = StoppedBar
  BY <1>2 DEF StoppedBar
<1>3. CASE UNCHANGED vars \/ Environment \/ \E cmd \in {"run", "resume"} : Command(cmd)
  BY <1>1, <1>3 DEF vars, Environment, PersonDecides, Kill, ForeignLine, RemoveSubtask, Command,
     replayed
<1>4. ASSUME Raise \/ \E cause \in Cause : Incident(cause) PROVE StoppedBar' = StoppedBar
  BY <1>1, <1>4 DEF Raise, Incident, replayed
<1>5. CASE CheckLine \/ TakeOver
  <2>1. CASE TakeOver
    BY <1>1, <1>2, <1>4, <2>1 DEF TakeOver, Interrupted, Cause, replayed
  <2>2. CASE CheckLine
    BY <1>1, <1>4, <2>2 DEF CheckLine, Cause
  <2> QED
    BY <1>5, <2>1, <2>2
<1>6. ASSUME NEW s \in Subtask, Attempting(s) PROVE StoppedBar' = StoppedBar
  <2>1. CASE Judging(s)
    BY <1>1, <1>4, <2>1 DEF Judging, EnterStage, EnterReject, RejectAttempt, CheckChanges, RunGate,
       Review, ReviewUnavailable, EmitAtt, Emit
  <2>2. CASE Merging(s)
    BY <1>1, <1>4, <2>2 DEF Merging, RequireMergeable, IntendWrite, StoreWrite, RecordWrite,
       CheckBranch, GitMerge, RecordMerge, EnterDiff, CheckDiff, EmitAtt, Emit, Cause, replayed
  <2>3. CASE InfraFailed(s)
    BY <1>1, <1>2, <1>4, <2>3 DEF InfraFailed, Drives, Emit
  <2>4. CASE Continue(s) \/ BeginAttempt(s) \/ Spawn(s) \/ Decide(s) \/ RecordEscalated(s)
             \/ EndSubtask(s)
    BY <1>1, <1>4, <2>4 DEF Continue, BeginAttempt, Spawn, Decide, RecordEscalated, EndSubtask,
       EmitAtt, Emit, replayed
  <2>5. ASSUME NEW end \in Ends, NEW shows \in BOOLEAN, SessionEnds(s, end, shows)
        PROVE  StoppedBar' = StoppedBar
    BY <1>1, <2>5 DEF SessionEnds
  <2>6. ASSUME NEW scan \in BOOLEAN, List(s, scan) PROVE StoppedBar' = StoppedBar
    BY <1>1, <2>6 DEF List, replayed
  <2> QED
    BY <1>6, <2>1, <2>2, <2>3, <2>4, <2>5, <2>6 DEF Attempting
<1>7. CASE \/ JournalHolds \/ DiffStale \/ LeaveLoop \/ Finish
           \/ ListIntegration \/ RecordIntegEsc
           \/ \E reopens \in BOOLEAN : Hold(reopens)
           \/ \E verdict \in {"pass", "fail"} : Integrate(verdict)
  BY <1>1, <1>7 DEF JournalHolds, DiffStale, LeaveLoop, Finish, ListIntegration, RecordIntegEsc,
     Hold, Integrate, replayed
<1>8. ASSUME NEW item \in items, NEW i \in 1..Len(decisions),
             TakeDecision(item, i) \/ DecisionMismatch(item, i)
      PROVE  StoppedBar' = StoppedBar
  BY <1>1, <1>4, <1>8 DEF TakeDecision, DecisionMismatch, Cause
<1> QED
  BY <1>3, <1>5, <1>6, <1>7, <1>8 DEF Next, Process

LEMMA VerdictStep ==
  ASSUME [Next]_vars
  PROVE  \/ integration' = integration
         \/ \E verdict \in {"pass", "fail"} : Integrate(verdict)
         \/ \E item \in items, i \in 1..Len(decisions) : TakeDecision(item, i)
<1>1. CASE \/ Finish \/ ListIntegration
           \/ \E s \in Subtask, scan \in BOOLEAN : List(s, scan)
  BY <1>1 DEF Finish, ListIntegration, List, replayed
<1> QED
  BY <1>1, AsideStep DEF Aside

-----------------------------------------------------------------------------
(* Each step is a step of the plan's run, or none.                         *)

LEMMA NoStep ==
  ASSUME PlanKept, SameAccounts, integration' = integration, StoppedBar' = StoppedBar
  PROVE  UNCHANGED Delivered!deliveryVars
BY BarsKept DEF Delivered!deliveryVars, SameAccounts

LEMMA BeginMaps ==
  ASSUME FrameType, Records, BranchOk, NEW s \in Subtask, BeginAttempt(s), ~Raise
  PROVE  Delivered!Begin(s) \/ UNCHANGED Delivered!deliveryVars
<1>0. RecordType /\ att[s].n \in Nat /\ sub[s] \in SubtaskState /\ Budget \in Nat
  BY Counts, LoopAssumption DEF Records, RecordType
<1>1. /\ Alone(s) /\ Begins(s) /\ LineMayFollow /\ IsCurrent(s)
      /\ sub'[s].status = "active" /\ sub'[s].rounds = sub[s].rounds
  BY BeginPlan
<1>2. Beside
  BY BeginCounts DEF BeginAttempt, Beside
<1>3. UNCHANGED <<WrittenBar, MergedBar, integration, StoppedBar>>
  BY <1>2, BesideBars
<1>4. CASE SamePlan(sub[s], att[s], sub'[s], att'[s])
  <2>1. PlanKept
    BY <1>1, <1>4 DEF PlanKept, Alone
  <2> QED
    BY <1>3, <2>1, NoStep DEF SameAccounts
<1>5. CASE /\ att'[s].n = att[s].n + 1
           /\ ~sub[s].fixUsed /\ ~sub'[s].fixNext /\ (sub'[s].fixUsed <=> sub[s].fixNext)
           /\ att[s].n < Budget \/ sub[s].fixNext
  <2>1. Delivered!Open /\ Delivered!Turn(s) /\ s \in Delivered!Task
    BY <1>1, OpenIs, TurnIs DEF Delivered!Task, Subtask
  <2>2. Delivered!NoneMerged(s)
    BY BeginCounts, NoneMergedIs
  <2>3. FixBar[s] = FixOf(sub[s]) /\ TriesBar[s] = att[s].n
    BY DEF FixBar, TriesBar
  <2>4. /\ FixBar[s] = IF sub[s].fixNext THEN "ordered" ELSE "no"
        /\ FixOf(sub'[s]) = IF sub[s].fixNext THEN "used" ELSE "no"
    BY <1>5, <2>3 DEF FixOf
  <2>5. FixOf(sub'[s]) = IF FixBar[s] = "ordered" THEN "used" ELSE FixBar[s]
    BY <2>4
  <2>6. FixBar[s] # "used" /\ (TriesBar[s] < Budget \/ FixBar[s] = "ordered")
    BY <1>5, <2>3, <2>4
  <2>7. /\ StatusBar' = [StatusBar EXCEPT ![s] = "active"]
        /\ TriesBar' = [TriesBar EXCEPT ![s] = TriesBar[s] + 1]
        /\ FixBar' = [FixBar EXCEPT ![s] = IF FixBar[s] = "ordered" THEN "used" ELSE FixBar[s]]
        /\ AskedBar' = [AskedBar EXCEPT ![s] = sub[s].rounds]
    BY <1>1, <1>5, <2>3, <2>5, BarsMove
  <2>8. AskedBar' = AskedBar
    BY <2>7 DEF AskedBar
  <2> QED
    BY <1>3, <2>1, <2>2, <2>6, <2>7, <2>8 DEF Delivered!Begin
<1> QED
  BY <1>1, <1>4, <1>5 DEF Begins

\* What a subtask becomes, and nothing else of the run.
LEMMA BecomesMaps ==
  ASSUME NEW s \in Subtask, NEW state, Becomes(s, state), Beside
  PROVE  Delivered!Becomes(s, state) /\ FixBar' = FixBar /\ integration' = integration
BY BarsBecome, BesideBars DEF Delivered!Becomes

LEMMA AskedKept ==
  ASSUME NEW s \in Subtask, NEW state, Becomes(s, state), sub'[s].rounds = sub[s].rounds
  PROVE  AskedBar' = AskedBar
<1>1. AskedBar' = [AskedBar EXCEPT ![s] = sub[s].rounds]
  BY BarsBecome
<1> QED
  BY <1>1 DEF AskedBar

LEMMA AskMaps ==
  ASSUME FrameType, Records, PlacesOk, BranchOk, NEW s \in Subtask, RecordEscalated(s), ~Raise
  PROVE  Delivered!Ask(s)
<1>1. /\ Becomes(s, "escalated") /\ LineMayFollow /\ IsCurrent(s) /\ Active(s)
      /\ sub'[s].rounds = sub[s].rounds + 1
  BY EscalatedPlan
<1>2. Beside
  BY DEF RecordEscalated, Emit, Beside, outside
<1>3. Step(s) = "escalate"
  BY <1>1 DEF RecordEscalated, PlacesOk
<1>4. ~att[s].merged
  BY <1>3, AtRecord, StepFacts, EndedNotMerged
<1>5. AskedBar' = [AskedBar EXCEPT ![s] = AskedBar[s] + 1]
  <2>1. AskedBar' = [AskedBar EXCEPT ![s] = sub[s].rounds + 1]
    BY <1>1, BarsBecome
  <2> QED
    BY <2>1 DEF AskedBar
<1>6. Delivered!Attempted(s)
  BY <1>1, AttemptedIs DEF Active
<1> QED
  BY <1>1, <1>2, <1>4, <1>5, <1>6, NoneMergedIs, BecomesMaps DEF Delivered!Ask

LEMMA GiveUpMaps ==
  ASSUME FrameType, Records, BranchOk, AskedOk, NEW s \in Subtask, EndSubtask(s), ~Raise
  PROVE  Delivered!GiveUp(s)
<1>1. /\ Becomes(s, "rejected") /\ LineMayFollow /\ IsCurrent(s) /\ Active(s)
      /\ sub'[s].rounds = sub[s].rounds /\ sub[s].ending # "no"
  BY EndedPlan
<1>2. Beside
  BY DEF EndSubtask, Emit, Beside, outside
<1>3. ~att[s].merged
  BY <1>1, AtRecord, EndedNotMerged DEF RecordOk
<1>4. AskedBar[s] # 0
  BY <1>1 DEF AskedOk, AskedBar
<1>5. AskedBar' = AskedBar
  BY <1>1, AskedKept
<1>6. Delivered!Attempted(s)
  BY <1>1, AttemptedIs DEF Active
<1> QED
  BY <1>1, <1>2, <1>3, <1>4, <1>5, <1>6, NoneMergedIs, BecomesMaps DEF Delivered!GiveUp

LEMMA DoneMaps ==
  ASSUME FrameType, Records, PlacesOk, BranchOk, NEW s \in Subtask, CheckDiff(s, FALSE), ~Raise
  PROVE  Delivered!Done(s)
<1>1. /\ Becomes(s, "done") /\ LineMayFollow /\ IsCurrent(s) /\ Active(s) /\ pc = "diffing"
      /\ sub'[s].rounds = sub[s].rounds
  BY DonePlan
<1>2. Beside
  BY DEF CheckDiff, Emit, Beside, outside
<1>3. att[s].merged
  BY <1>1, AtPlace DEF PlaceOk
<1>4. PICK i \in 1..recorded : branch[i] = Commit(s)
  BY <1>3 DEF BranchOk
<1>5. \E j \in 1..Len(MergedBar) : MergedBar[j] = <<s, TriesBar[s]>>
  BY <1>4, MergedIs DEF Commit, TriesBar
<1>6. AskedBar' = AskedBar
  BY <1>1, AskedKept
<1>7. Delivered!Attempted(s)
  BY <1>1, AttemptedIs DEF Active
<1> QED
  BY <1>1, <1>2, <1>5, <1>6, <1>7, BecomesMaps DEF Delivered!Done

LEMMA TakeOutMaps ==
  ASSUME Records, NEW s \in Subtask, RemoveSubtask(s)
  PROVE  Delivered!TakeOut(s)
<1>1. /\ Becomes(s, "removed") /\ LineMayFollow /\ Removes /\ sub[s].status = "planned"
      /\ sub'[s].rounds = sub[s].rounds
  BY RemovedPlan
<1>2. Beside
  BY DEF RemoveSubtask, Beside, outside
<1>3. AskedBar' = AskedBar
  BY <1>1, AskedKept
<1> QED
  BY <1>1, <1>2, <1>3, OpenIs, BecomesMaps DEF Delivered!TakeOut, StatusBar

LEMMA AnswerMaps ==
  ASSUME FrameType, Records, RecordType', NEW item \in items, NEW i \in 1..Len(decisions),
         TakeDecision(item, i)
  PROVE  UNCHANGED Delivered!deliveryVars
         \/ \E s \in Subtask : \E orders \in BOOLEAN : Delivered!Answer(s, orders)
<1>1. UNCHANGED <<journal, head, branch, recorded, halted>> /\ Acts /\ halted = "no"
  BY DecisionPlan DEF TakeDecision, outside
<1>2. UNCHANGED <<WrittenBar, MergedBar, StoppedBar>>
  BY <1>1 DEF WrittenBar, MergedBar, StoppedBar
<1>3. CASE PlanKept /\ integration' = integration
  BY <1>2, <1>3, NoStep DEF SameAccounts
<1>4. ASSUME NEW s \in Subtask, Answers(s)
      PROVE  \E orders \in BOOLEAN : Delivered!Answer(s, orders)
  <2> DEFINE orders == sub'[s].fixNext
  <2>1. orders \in BOOLEAN /\ sub[s] \in SubtaskState
    BY DEF RecordType, SubtaskState, Records
  <2>2. /\ StatusBar[s] = "escalated" /\ FixBar[s] = FixOf(sub[s])
        /\ TriesBar[s] = att[s].n /\ AskedBar[s] = sub[s].rounds
    BY <1>4 DEF Answers, StatusBar, FixBar, TriesBar, AskedBar
  <2>3. FixOf(sub'[s]) = CASE FixBar[s] = "used" -> "used"
                            [] FixBar[s] # "used" /\ orders -> "ordered" [] OTHER -> "no"
    <3>1. CASE sub[s].fixUsed
      <4>1. FixBar[s] = "used" /\ FixOf(sub'[s]) = "used"
        BY <1>4, <2>2, <3>1 DEF Answers, FixOf
      <4> QED
        BY <4>1
    <3>2. CASE ~sub[s].fixUsed
      <4>1. FixBar[s] # "used" /\ ~sub'[s].fixUsed
        BY <1>4, <2>2, <3>2 DEF Answers, FixOf
      <4>2. CASE orders
        BY <4>1, <4>2 DEF FixOf
      <4>3. CASE ~orders
        BY <4>1, <4>3 DEF FixOf
      <4> QED
        BY <4>2, <4>3
    <3> QED
      BY <3>1, <3>2
  <2> HIDE DEF orders
  <2>4. /\ StatusBar' = [StatusBar EXCEPT ![s] = "active"]
        /\ TriesBar' = [TriesBar EXCEPT ![s] = att[s].n]
        /\ FixBar' = [FixBar EXCEPT ![s] = FixOf(sub'[s])]
        /\ AskedBar' = [AskedBar EXCEPT ![s] = sub[s].rounds]
    BY <1>4, BarsMove DEF Answers
  <2>5. TriesBar' = TriesBar /\ AskedBar' = AskedBar
    BY <2>4 DEF TriesBar, AskedBar
  <2>6. integration' = IF integration = "incomplete" THEN "none" ELSE integration
    BY <1>4 DEF Answers, Reopened
  <2>7. Delivered!Becomes(s, "active")
    BY <1>2, <2>4, <2>5 DEF Delivered!Becomes
  <2>8. ~StoppedBar
    BY <1>1 DEF StoppedBar
  <2>9. Delivered!Answer(s, orders)
    BY <1>1, <2>2, <2>3, <2>4, <2>5, <2>6, <2>7, <2>8 DEF Delivered!Answer
  <2> QED
    BY <2>1, <2>9
<1> QED
  BY <1>3, <1>4, DecisionPlan

\* A write whose line is next in the journal is accounted for.
LEMMA WriteMaps ==
  ASSUME FrameType, Records, JournalOk, AppliedOk, NEW s \in Subtask, IsCurrent(s), LineMayFollow,
         sub[s].status = "active", att[s].pending, head < Len(journal),
         journal[head + 1] = Write(s, att[s].applied + 1),
         PlanKept, head' = head + 1, UNCHANGED <<journal, branch, recorded, halted, integration>>
  PROVE  \E k \in 1..Proposals : Delivered!Write(s, k)
<1> DEFINE k == att[s].applied + 1
<1>0. RecordType /\ att[s].applied \in Nat /\ Proposals \in Nat /\ sub[s] \in SubtaskState
  BY Counts DEF Records, RecordType
<1>1. att[s].applied < Proposals
  BY AtRecord DEF RecordOk
<1>2. k \in 1..Proposals
  BY <1>0, <1>1
<1>3. journal \in Seq(JournalLine) /\ head \in Nat /\ head + 1 \in 1..Len(journal) /\ Len(journal) \in Nat
  BY DEF FrameType
<1>4. ASSUME NEW j, Write(s, j) = NotOurs PROVE FALSE
  BY <1>4, LoopAssumption DEF Write, NotOurs, Subtask
<1>5. ~Delivered!Holds(Delivered!Node(s, k))
  <2> SUFFICES ASSUME NEW i \in 1..head, journal[i] = Write(s, k) PROVE FALSE
    BY HoldsIs
  <2>1. i \in 1..Len(journal) /\ Own(journal[i]) /\ journal[i] = journal[head + 1]
    BY <1>3, <1>4 DEF Own
  <2>2. i = head + 1
    BY <1>3, <2>1 DEF JournalOk, WriteOnce
  <2> QED
    BY <1>3, <2>2
<1>6. ASSUME NEW j \in 1 .. k - 1 PROVE Delivered!Holds(Delivered!Node(s, j))
  <2>1. j \in 1..Proposals /\ j <= att[s].applied
    BY <1>0, <1>1
  <2>2. PICK i \in 1..Len(journal) : journal[i] = Write(s, j)
    BY <2>1 DEF AppliedOk
  <2>3. CASE i > head
    <3>1. i \in Unaccounted /\ head + 1 \in Unaccounted
      BY <1>3, <1>4, <2>2, <2>3 DEF Unaccounted, Own
    <3>2. i = head + 1
      BY <3>1 DEF JournalOk
    <3>3. Write(s, j) = Write(s, k)
      BY <2>2, <3>2
    <3> QED
      BY <1>0, <2>1, <3>3 DEF Write
  <2>4. CASE ~(i > head)
    <3>1. i \in 1..head
      BY <1>3, <2>4
    <3> QED
      BY <2>2, <3>1, HoldsIs
  <2> QED
    BY <2>3, <2>4
<1>7. Delivered!Attempted(s)
  BY AttemptedIs
<1>8. WrittenBar' = Append(WrittenBar, Delivered!Node(s, k))
  <2>1. SubSeq(journal, 1, head + 1) = Append(SubSeq(journal, 1, head), journal[head + 1])
    BY <1>3, PrefixGrows
  <2>2. Delivered!Node(s, k) = Write(s, k)
    BY DEF Delivered!Node, Write, TriesBar
  <2> QED
    BY <2>1, <2>2 DEF WrittenBar
<1>9. UNCHANGED <<StatusBar, TriesBar, FixBar, AskedBar, MergedBar, integration, StoppedBar>>
  BY BarsKept DEF MergedBar, StoppedBar
<1> HIDE DEF k
<1> QED
  BY <1>2, <1>5, <1>6, <1>7, <1>8, <1>9 DEF Delivered!Write

LEMMA RecordWriteMaps ==
  ASSUME FrameType, Records, PlacesOk, JournalOk, AppliedOk, NEW s \in Subtask,
         RecordWrite(s), ~Raise, PlanKept
  PROVE  \E k \in 1..Proposals : Delivered!Write(s, k)
<1>1. /\ pc = "written" /\ IsCurrent(s) /\ LineMayFollow /\ Active(s) /\ att[s].pending
      /\ head' = head + 1 /\ UNCHANGED <<journal, branch, recorded, halted, integration>>
  BY DEF RecordWrite, Emit, outside
<1>2. head + 1 \in Unaccounted /\ journal[head + 1] = Write(s, att[s].applied + 1)
  BY <1>1 DEF JournalOk
<1>3. head < Len(journal)
  BY <1>2 DEF Unaccounted, FrameType
<1> QED
  BY <1>1, <1>2, <1>3, WriteMaps DEF Active

LEMMA AccountsMaps ==
  ASSUME FrameType, Records, JournalOk, AppliedOk, OrderOk, NEW s \in Subtask,
         Accounts(s), PlanKept
  PROVE  \E k \in 1..Proposals : Delivered!Write(s, k)
<1>1. /\ FirstActive(s) /\ att[s].pending /\ journal[head + 1] = Write(s, att[s].applied + 1)
      /\ sub[s].status = "active"
  BY DEF Accounts, Intended, FirstActive, Active
<1>2. ASSUME NEW r \in 1 .. s - 1 PROVE ~Unresolved(r)
  <2>1. r \in Subtask /\ r < s
    BY LoopAssumption DEF Subtask
  <2>2. sub[r].status # "planned"
    BY <1>1, <2>1 DEF OrderOk
  <2>3. sub[r].status # "active"
    <3>1. ~Active(r)
      BY <1>1 DEF FirstActive
    <3>2. RecordOk(sub[r], att[r])
      BY <2>1, AtRecord
    <3> QED
      BY <3>1, <3>2 DEF Active, RecordOk
  <2> QED
    BY <2>2, <2>3 DEF Unresolved
<1>3. IsCurrent(s)
  BY <1>1, <1>2 DEF IsCurrent, Unresolved
<1>4. head < Len(journal)
  BY DEF Accounts, FrameType
<1> QED
  BY <1>1, <1>3, <1>4, WriteMaps DEF Accounts

LEMMA MergeMaps ==
  ASSUME FrameType, Records, PlacesOk, JournalOk, AppliedOk, BranchOk, NEW s \in Subtask,
         RecordMerge(s), ~Raise, PlanKept
  PROVE  Delivered!Merge(s)
<1>0. RecordType
  BY DEF Records
<1>1. /\ pc = "merged" /\ IsCurrent(s) /\ LineMayFollow /\ Active(s)
      /\ UNCHANGED <<journal, head, branch, halted, integration>>
  BY DEF RecordMerge, Emit, outside
<1>2. recorded' = recorded + 1
  BY <1>0, BranchRecord
<1>3. Len(branch) = recorded + 1 /\ branch[recorded + 1] = Commit(s)
  BY <1>1 DEF BranchOk
<1>4. ~att[s].merged /\ att[s].applied = Proposals
  BY <1>1, AtPlace DEF PlaceOk, Merged
<1>5. ASSUME NEW k \in 1..Proposals PROVE Delivered!Holds(Delivered!Node(s, k))
  <2>1. PICK i \in 1..Len(journal) : journal[i] = Write(s, k)
    BY <1>4 DEF AppliedOk
  <2>2. Own(journal[i])
    BY <2>1, LoopAssumption DEF Own, Write, NotOurs, Subtask
  <2>3. Unaccounted = {} /\ head \in Nat /\ Len(journal) \in Nat
    BY <1>1 DEF JournalOk, Clear, FrameType
  <2>4. i \in 1..head
    BY <2>2, <2>3 DEF Unaccounted
  <2> QED
    BY <2>1, <2>4, HoldsIs
<1>6. MergedBar' = Append(MergedBar, <<s, TriesBar[s]>>)
  <2>1. branch \in Seq(Subtask \X Nat) /\ recorded \in Nat /\ recorded + 1 <= Len(branch)
    BY <1>3 DEF FrameType
  <2>2. SubSeq(branch, 1, recorded + 1) = Append(SubSeq(branch, 1, recorded), branch[recorded + 1])
    BY <2>1, PrefixGrows
  <2> QED
    BY <1>1, <1>2, <1>3, <2>2 DEF MergedBar, Commit, TriesBar
<1>7. UNCHANGED <<StatusBar, TriesBar, FixBar, AskedBar, WrittenBar, integration, StoppedBar>>
  BY <1>1, BarsKept DEF WrittenBar, StoppedBar
<1>8. Delivered!Attempted(s) /\ Delivered!NoneMerged(s)
  BY <1>1, <1>4, AttemptedIs, NoneMergedIs DEF Active
<1> QED
  BY <1>5, <1>6, <1>7, <1>8 DEF Delivered!Merge

LEMMA JudgeMaps ==
  ASSUME NEW verdict \in {"pass", "fail"}, Integrate(verdict) PROVE Delivered!Judge
<1>1. /\ halted = "no" /\ NoneLeft /\ integration = "none"
      /\ integration' = IF GateMode = "off" THEN "off"
                        ELSE IF \E s \in Subtask : sub[s].status # "done" THEN "incomplete"
                        ELSE verdict
      /\ UNCHANGED <<sub, att, journal, head, branch, recorded, halted>>
  BY DEF Integrate, outside
<1>2. UNCHANGED <<StatusBar, TriesBar, FixBar, AskedBar, WrittenBar, MergedBar, StoppedBar>>
  BY <1>1, KeptSame, BarsKept DEF WrittenBar, MergedBar, StoppedBar
<1>3. Delivered!Task = Subtask /\ Delivered!Open
  BY <1>1, OpenIs DEF Delivered!Task, Subtask
<1>4. \A s \in Subtask : ~Delivered!Unresolved(s)
  BY <1>1, TurnIs DEF NoneLeft
<1>5. (\E s \in Subtask : sub[s].status # "done") <=> \E s \in Subtask : StatusBar[s] # "done"
  BY DEF StatusBar
<1>6. integration' \in IF GateMode = "off" THEN {"off"}
                       ELSE IF \E s \in Subtask : StatusBar[s] # "done" THEN {"incomplete"}
                       ELSE {"pass", "fail"}
  BY <1>1, <1>5
<1> QED
  BY <1>2, <1>3, <1>4, <1>6 DEF Delivered!Judge

LEMMA StopMaps ==
  ASSUME FrameType, PlacesOk, Halt PROVE Delivered!Stop \/ UNCHANGED Delivered!deliveryVars
<1>1. /\ halted' = why /\ why \in Cause
      /\ UNCHANGED <<sub, att, journal, head, branch, recorded, integration>>
  BY DEF Halt, PlacesOk, FrameType, outside
<1>2. StoppedBar' = TRUE /\ StoppedBar \in BOOLEAN
  BY <1>1 DEF StoppedBar, Cause
<1>3. UNCHANGED <<StatusBar, TriesBar, FixBar, AskedBar, WrittenBar, MergedBar, integration>>
  BY <1>1, KeptSame, BarsKept DEF WrittenBar, MergedBar
<1> QED
  BY <1>2, <1>3 DEF Delivered!Stop, Delivered!deliveryVars

-----------------------------------------------------------------------------
\* The run begins as the plan's run does.
LEMMA DeliveryInit == Init => Delivered!Init
<1> SUFFICES ASSUME Init PROVE Delivered!Init
  OBVIOUS
<1>1. /\ sub = [s \in Subtask |-> Planned] /\ att = [s \in Subtask |-> Fresh(0, FALSE)]
      /\ halted = "no" /\ integration = "none" /\ head = 0 /\ recorded = 0
      /\ journal = << >> /\ branch = << >>
  BY DEF Init
<1>2. WrittenBar = << >> /\ MergedBar = << >> /\ StoppedBar = FALSE
  BY <1>1 DEF WrittenBar, MergedBar, StoppedBar
<1>3. /\ StatusBar = [s \in Subtask |-> "planned"] /\ TriesBar = [s \in Subtask |-> 0]
      /\ FixBar = [s \in Subtask |-> "no"] /\ AskedBar = [s \in Subtask |-> 0]
  BY <1>1 DEF StatusBar, TriesBar, FixBar, AskedBar, FixOf, Planned, Fresh
<1> QED
  BY <1>1, <1>2, <1>3 DEF Delivered!Init, Delivered!Task, Subtask

LEMMA DeliveryStep ==
  LoopInv /\ PlanInv /\ [Next]_vars => [Delivered!Next]_(Delivered!deliveryVars)
<1> SUFFICES ASSUME LoopInv, PlanInv, [Next]_vars
             PROVE  Delivered!Next \/ UNCHANGED Delivered!deliveryVars
  OBVIOUS
<1>0. /\ FrameType /\ Records /\ RecordType /\ PlacesOk /\ JournalOk /\ AppliedOk /\ BranchOk
      /\ AskedOk /\ OrderOk /\ RecordType' /\ Delivered!Task = Subtask
  BY RecordsStep DEF LoopInv, PlanInv, Records, Recorded, Delivered!Task, Subtask
<1>1. ASSUME NEW s \in Subtask,
             \/ Delivered!Begin(s) \/ Delivered!Merge(s) \/ Delivered!Done(s) \/ Delivered!Ask(s)
             \/ Delivered!GiveUp(s) \/ Delivered!TakeOut(s)
             \/ \E k \in 1..Proposals : Delivered!Write(s, k)
             \/ \E orders \in BOOLEAN : Delivered!Answer(s, orders)
      PROVE  Delivered!Next
  BY <1>0, <1>1 DEF Delivered!Next
<1>2. CASE \E s \in Subtask : Changes(s) \/ RemoveSubtask(s)
  BY <1>0, <1>1, <1>2, BeginMaps, AskMaps, GiveUpMaps, DoneMaps, TakeOutMaps DEF Changes
<1>3. CASE Taking
  BY <1>0, <1>1, <1>3, AnswerMaps DEF Taking
<1>4. CASE PlanKept /\ ~Taking
  <2>1. CASE \E s \in Subtask : Accounts(s) \/ Recording(s)
    BY <1>0, <1>1, <1>4, <2>1, AccountsMaps, RecordWriteMaps, MergeMaps DEF Recording
  <2>2. CASE \E verdict \in {"pass", "fail"} : Integrate(verdict)
    BY <2>2, JudgeMaps DEF Delivered!Next
  <2>3. CASE Halt
    BY <1>0, <2>3, StopMaps DEF Delivered!Next
  <2>4. CASE SameAccounts /\ integration' = integration /\ StoppedBar' = StoppedBar
    BY <1>4, <2>4, NoStep
  <2>5. SameAccounts \/ \E s \in Subtask : Accounts(s) \/ Recording(s)
    BY <1>0, AccountStep
  <2>6. integration' = integration \/ \E verdict \in {"pass", "fail"} : Integrate(verdict)
    BY <1>4, VerdictStep DEF Taking
  <2>7. StoppedBar' = StoppedBar \/ Halt
    BY HaltedStep
  <2> QED
    BY <2>1, <2>2, <2>3, <2>4, <2>5, <2>6, <2>7
<1>5. PlanKept \/ Taking \/ \E s \in Subtask : Changes(s) \/ RemoveSubtask(s)
  BY <1>0, PlanStep
<1> QED
  BY <1>2, <1>3, <1>4, <1>5

\* A run is a run of its plan, whatever is killed, resumed, refused, appended by others
\* or decided late, and however many subtasks, attempts and proposals it has: what
\* RunState.record has taken is a walk through the plan in which nothing is half done.
THEOREM RunImplementsDelivery == Spec => DeliverySpec
<1>1. Spec => [](LoopInv /\ PlanInv)
  <2>1. Init => LoopInv /\ PlanInv
    BY LoopInit, PlanInit
  <2>2. LoopInv /\ PlanInv /\ [Next]_vars => (LoopInv /\ PlanInv)'
    BY LoopStep, PlanInvStep DEF LoopInv, Records
  <2> QED
    BY <2>1, <2>2, PTL DEF Spec
<1>2. Spec => Delivered!Init /\ [][Delivered!Next]_(Delivered!deliveryVars)
  BY <1>1, DeliveryInit, DeliveryStep, PTL DEF Spec
<1> QED
  BY <1>2 DEF DeliverySpec, Delivered!Spec

-----------------------------------------------------------------------------
(* What stands, whatever comes next.                                       *)

Settled == {"done", "rejected", "removed"}

\* A settled subtask stays as it is, a stopped run stays stopped, and what the run
\* accounts for, in the store and on its branch, stays where it is.
WhatStands ==
  /\ \A s \in Subtask : sub[s].status \in Settled => sub'[s].status = sub[s].status
  /\ halted \in Cause => halted' \in Cause
  /\ head <= head' /\ \A i \in 1..head : journal'[i] = journal[i]
  /\ recorded <= recorded' /\ \A i \in 1..recorded : branch'[i] = branch[i]

\* The plan's run only ever adds to what it accounts for.
LEMMA PlanOnlyAdds ==
  ASSUME Delivered!Next
  PROVE  /\ \A s \in Subtask : StatusBar[s] \in Settled => StatusBar'[s] = StatusBar[s]
         /\ StoppedBar => StoppedBar'
         /\ \/ WrittenBar' = WrittenBar
            \/ \E s \in Subtask, k \in 1..Proposals :
                 WrittenBar' = Append(WrittenBar, Delivered!Node(s, k))
         /\ \/ MergedBar' = MergedBar
            \/ \E s \in Subtask : MergedBar' = Append(MergedBar, <<s, TriesBar[s]>>)
<1>0. Delivered!Task = Subtask /\ \A s \in Subtask : Delivered!Unresolved(s) => StatusBar[s] \notin Settled
  BY DEF Delivered!Task, Subtask, Delivered!Unresolved, Settled
<1>1. ASSUME NEW s \in Subtask, NEW state, StatusBar' = [StatusBar EXCEPT ![s] = state],
             StatusBar[s] \notin Settled
      PROVE  \A r \in Subtask : StatusBar[r] \in Settled => StatusBar'[r] = StatusBar[r]
  BY <1>1 DEF StatusBar
<1>2. ASSUME NEW s \in Subtask, Delivered!Turn(s) PROVE StatusBar[s] \notin Settled
  BY <1>0, <1>2 DEF Delivered!Turn
<1>3. ASSUME NEW s \in Subtask, Delivered!Begin(s)
      PROVE  /\ StatusBar' = [StatusBar EXCEPT ![s] = "active"] /\ StatusBar[s] \notin Settled
             /\ StoppedBar' = StoppedBar /\ WrittenBar' = WrittenBar /\ MergedBar' = MergedBar
  BY <1>2, <1>3 DEF Delivered!Begin
<1>4. ASSUME NEW s \in Subtask,
             \/ Delivered!Done(s) \/ Delivered!Ask(s) \/ Delivered!GiveUp(s) \/ Delivered!TakeOut(s)
             \/ \E orders \in BOOLEAN : Delivered!Answer(s, orders)
      PROVE  /\ \E state : StatusBar' = [StatusBar EXCEPT ![s] = state]
             /\ StatusBar[s] \notin Settled
             /\ StoppedBar' = StoppedBar /\ WrittenBar' = WrittenBar /\ MergedBar' = MergedBar
  BY <1>4 DEF Delivered!Done, Delivered!Ask, Delivered!GiveUp, Delivered!TakeOut, Delivered!Answer,
     Delivered!Attempted, Delivered!Becomes, Settled
<1>5. ASSUME NEW s \in Subtask,
             Delivered!Merge(s) \/ \E k \in 1..Proposals : Delivered!Write(s, k)
      PROVE  /\ StatusBar' = StatusBar /\ StoppedBar' = StoppedBar
             /\ \/ WrittenBar' = WrittenBar
                \/ \E k \in 1..Proposals : WrittenBar' = Append(WrittenBar, Delivered!Node(s, k))
             /\ MergedBar' = MergedBar \/ MergedBar' = Append(MergedBar, <<s, TriesBar[s]>>)
  BY <1>5 DEF Delivered!Merge, Delivered!Write
<1>6. CASE Delivered!Judge \/ Delivered!Stop
  BY <1>6 DEF Delivered!Judge, Delivered!Stop
<1> QED
  BY <1>0, <1>1, <1>3, <1>4, <1>5, <1>6 DEF Delivered!Next

LEMMA StandsStep == LoopInv /\ PlanInv /\ [Next]_vars => WhatStands
<1> SUFFICES ASSUME LoopInv, PlanInv, [Next]_vars PROVE WhatStands
  OBVIOUS
<1>1. LoopInv' /\ (Delivered!Next \/ UNCHANGED Delivered!deliveryVars)
  BY LoopStep, DeliveryStep
<1>2. /\ \A s \in Subtask : StatusBar[s] \in Settled => StatusBar'[s] = StatusBar[s]
      /\ StoppedBar => StoppedBar'
      /\ \/ WrittenBar' = WrittenBar
         \/ \E s \in Subtask, k \in 1..Proposals :
              WrittenBar' = Append(WrittenBar, Delivered!Node(s, k))
      /\ \/ MergedBar' = MergedBar
         \/ \E s \in Subtask : MergedBar' = Append(MergedBar, <<s, TriesBar[s]>>)
  BY <1>1, PlanOnlyAdds DEF Delivered!deliveryVars
<1>3. \A s \in Subtask : sub[s].status \in Settled => sub'[s].status = sub[s].status
  BY <1>2 DEF StatusBar
<1>4. halted \in Cause => halted' \in Cause
  BY <1>1, <1>2 DEF StoppedBar, Cause, LoopInv, FrameType
<1>5. /\ journal \in Seq(JournalLine) /\ head \in 0..Len(journal)
      /\ journal' \in Seq(JournalLine) /\ head' \in 0..Len(journal')
      /\ branch \in Seq(Subtask \X Nat) /\ recorded \in 0..Len(branch)
      /\ branch' \in Seq(Subtask \X Nat) /\ recorded' \in 0..Len(branch')
  <2>1. FrameType /\ JournalOk /\ BranchOk
    BY DEF LoopInv
  <2>2. FrameType' /\ JournalOk' /\ BranchOk'
    BY <1>1 DEF LoopInv
  <2>3. /\ journal \in Seq(JournalLine) /\ head \in Nat /\ head <= Len(journal)
        /\ branch \in Seq(Subtask \X Nat) /\ recorded \in Nat
        /\ Len(branch) \in {recorded, recorded + 1}
    BY <2>1 DEF FrameType, JournalOk, BranchOk
  <2>4. /\ journal' \in Seq(JournalLine) /\ head' \in Nat /\ head' <= Len(journal')
        /\ branch' \in Seq(Subtask \X Nat) /\ recorded' \in Nat
        /\ Len(branch') \in {recorded', recorded' + 1}
    BY <2>2 DEF FrameType, JournalOk, BranchOk
  <2>5. /\ Len(journal) \in Nat /\ Len(branch) \in Nat
        /\ Len(journal') \in Nat /\ Len(branch') \in Nat
    BY <2>3, <2>4, LenProperties
  <2>6. ASSUME NEW i \in Nat, NEW n \in Nat, n \in {i, i + 1} PROVE i \in 0..n
    BY <2>6
  <2>7. recorded \in 0..Len(branch) /\ recorded' \in 0..Len(branch')
    BY <2>3, <2>4, <2>5, <2>6
  <2>8. head \in 0..Len(journal) /\ head' \in 0..Len(journal')
    BY <2>3, <2>4, <2>5
  <2> QED
    BY <2>3, <2>4, <2>7, <2>8
<1>6. /\ Len(WrittenBar) = head /\ \A i \in 1..head : WrittenBar[i] = journal[i]
      /\ Len(WrittenBar') = head' /\ \A i \in 1..head' : WrittenBar'[i] = journal'[i]
      /\ WrittenBar \in Seq(JournalLine)
  <2>1. WrittenBar' = SubSeq(journal', 1, head')
    BY DEF WrittenBar
  <2>2. /\ Len(SubSeq(journal, 1, head)) = head
        /\ \A i \in 1..head : SubSeq(journal, 1, head)[i] = journal[i]
    BY <1>5, PrefixIs
  <2>3. /\ Len(SubSeq(journal', 1, head')) = head'
        /\ \A i \in 1..head' : SubSeq(journal', 1, head')[i] = journal'[i]
    BY <1>5, PrefixIs
  <2>4. SubSeq(journal, 1, head) \in Seq(JournalLine)
    BY <1>5
  <2> QED
    BY <2>1, <2>2, <2>3, <2>4 DEF WrittenBar
<1>7. /\ Len(MergedBar) = recorded /\ \A i \in 1..recorded : MergedBar[i] = branch[i]
      /\ Len(MergedBar') = recorded' /\ \A i \in 1..recorded' : MergedBar'[i] = branch'[i]
      /\ MergedBar \in Seq(Subtask \X Nat)
  <2>1. MergedBar' = SubSeq(branch', 1, recorded')
    BY DEF MergedBar
  <2>2. /\ Len(SubSeq(branch, 1, recorded)) = recorded
        /\ \A i \in 1..recorded : SubSeq(branch, 1, recorded)[i] = branch[i]
    BY <1>5, PrefixIs
  <2>3. /\ Len(SubSeq(branch', 1, recorded')) = recorded'
        /\ \A i \in 1..recorded' : SubSeq(branch', 1, recorded')[i] = branch'[i]
    BY <1>5, PrefixIs
  <2>4. SubSeq(branch, 1, recorded) \in Seq(Subtask \X Nat)
    BY <1>5
  <2> QED
    BY <2>1, <2>2, <2>3, <2>4 DEF MergedBar
<1>8. ASSUME NEW S, NEW p \in Seq(S), NEW e \in S, NEW q, q = p \/ q = Append(p, e)
      PROVE  Len(p) <= Len(q) /\ \A i \in 1..Len(p) : q[i] = p[i]
  BY <1>8
<1>9. ASSUME NEW s \in Subtask, NEW k \in 1..Proposals PROVE Delivered!Node(s, k) \in JournalLine
  BY LoopAssumption, Counts DEF Delivered!Node, JournalLine, TriesBar, Subtask, LoopInv
<1>10. ASSUME NEW s \in Subtask PROVE <<s, TriesBar[s]>> \in Subtask \X Nat
  BY Counts DEF TriesBar, LoopInv
<1>11. head <= head' /\ \A i \in 1..head : WrittenBar'[i] = WrittenBar[i]
  <2>1. CASE WrittenBar' = WrittenBar
    BY <1>6, <2>1, <1>5
  <2>2. ASSUME NEW s \in Subtask, NEW k \in 1..Proposals,
               WrittenBar' = Append(WrittenBar, Delivered!Node(s, k))
        PROVE  head <= head' /\ \A i \in 1..head : WrittenBar'[i] = WrittenBar[i]
    BY <1>6, <1>8, <1>9, <2>2
  <2> QED
    BY <1>2, <2>1, <2>2
<1>12. recorded <= recorded' /\ \A i \in 1..recorded : MergedBar'[i] = MergedBar[i]
  <2>1. CASE MergedBar' = MergedBar
    BY <1>7, <2>1, <1>5
  <2>2. ASSUME NEW s \in Subtask, MergedBar' = Append(MergedBar, <<s, TriesBar[s]>>)
        PROVE  recorded <= recorded' /\ \A i \in 1..recorded : MergedBar'[i] = MergedBar[i]
    BY <1>7, <1>8, <1>10, <2>2
  <2> QED
    BY <1>2, <2>1, <2>2
<1>13. \A i \in 1..head : i \in 1..head'
  BY <1>5, <1>11
<1>14. \A i \in 1..recorded : i \in 1..recorded'
  BY <1>5, <1>12
<1> QED
  BY <1>3, <1>4, <1>6, <1>7, <1>11, <1>12, <1>13, <1>14 DEF WhatStands

\* No resume, no decision and no other writer undoes what the run has settled: a subtask
\* done, given up or taken out is never opened again, a run halted over an incident is
\* never resumed, and the writes and merges accounted for are never replaced.
THEOREM SettledStands == Spec => [][WhatStands]_vars
<1>1. Init => LoopInv /\ PlanInv
  BY LoopInit, PlanInit
<1>2. LoopInv /\ PlanInv /\ [Next]_vars => (LoopInv /\ PlanInv)'
  BY LoopStep, PlanInvStep DEF LoopInv, Records
<1> QED
  BY <1>1, <1>2, StandsStep, PTL DEF Spec
=============================================================================
