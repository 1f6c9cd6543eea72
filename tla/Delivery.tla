------------------------------ MODULE Delivery ------------------------------
(***************************************************************************)
(* What a run promises of the plan it works through, with no log, no       *)
(* process, no kills and nothing half done. Subtasks are taken in plan     *)
(* order. An attempt writes its nodes one after the other, then its files  *)
(* are merged, and then its subtask is done; what was not merged is put    *)
(* to a person, and only a person's answer goes on with it or gives it up. *)
(* A run that stopped stays stopped.                                       *)
(* RunLoop implements this specification.                                  *)
(***************************************************************************)
EXTENDS Integers, Sequences

CONSTANTS
  N,          \* planned subtasks
  Budget,     \* attempts a subtask may have
  Proposals,  \* nodes that an attempt proposes
  GateMode,   \* "off" where no call judges the whole design
  Acts,       \* whether answers are acted on
  Removes     \* whether a subtask may be taken out of the plan

VARIABLES
  status,   \* of each subtask
  tries,    \* the number of its attempts, the newest one's name
  fix,      \* the attempt past the budget a person may order: "no", "ordered", "used"
  asked,    \* how often it was put to a person
  written,  \* the nodes in the store, oldest first
  merged,   \* the attempts on the run branch, oldest first
  verdict,  \* on the whole design: "none" until it is given
  stopped   \* whether the run was stopped over an incident

deliveryVars == <<status, tries, fix, asked, written, merged, verdict, stopped>>

Task == 1..N
Unresolved(s) == status[s] \in {"planned", "active"}
Turn(s) == Unresolved(s) /\ \A r \in 1 .. s - 1 : ~Unresolved(r)

Node(s, k) == [s |-> s, n |-> tries[s], k |-> k]
Holds(node) == \E i \in 1..Len(written) : written[i] = node
NoneMerged(s) == \A i \in 1..Len(merged) : merged[i][1] # s

Open == ~stopped /\ verdict = "none"
Attempted(s) == Open /\ Turn(s) /\ status[s] = "active"

Init ==
  /\ status = [s \in Task |-> "planned"] /\ tries = [s \in Task |-> 0]
  /\ fix = [s \in Task |-> "no"] /\ asked = [s \in Task |-> 0]
  /\ written = << >> /\ merged = << >> /\ verdict = "none" /\ stopped = FALSE

\* A new attempt: within the budget, or the one fix a person ordered.
Begin(s) ==
  /\ Open /\ Turn(s) /\ NoneMerged(s)
  /\ fix[s] # "used" /\ (tries[s] < Budget \/ fix[s] = "ordered")
  /\ status' = [status EXCEPT ![s] = "active"]
  /\ tries' = [tries EXCEPT ![s] = @ + 1]
  /\ fix' = [fix EXCEPT ![s] = IF @ = "ordered" THEN "used" ELSE @]
  /\ UNCHANGED <<asked, written, merged, verdict, stopped>>

\* The next node of the attempt goes into the store.
Write(s, k) ==
  /\ Attempted(s)
  /\ ~Holds(Node(s, k)) /\ \A j \in 1 .. k - 1 : Holds(Node(s, j))
  /\ written' = Append(written, Node(s, k))
  /\ UNCHANGED <<status, tries, fix, asked, merged, verdict, stopped>>

\* Its files go onto the run branch, once all of its nodes are in the store.
Merge(s) ==
  /\ Attempted(s) /\ NoneMerged(s)
  /\ \A k \in 1..Proposals : Holds(Node(s, k))
  /\ merged' = Append(merged, <<s, tries[s]>>)
  /\ UNCHANGED <<status, tries, fix, asked, written, verdict, stopped>>

Becomes(s, state) ==
  /\ status' = [status EXCEPT ![s] = state]
  /\ UNCHANGED <<tries, written, merged, stopped>>

Done(s) ==
  /\ Attempted(s)
  /\ \E i \in 1..Len(merged) : merged[i] = <<s, tries[s]>>
  /\ Becomes(s, "done") /\ UNCHANGED <<fix, asked, verdict>>

Ask(s) ==
  /\ Attempted(s) /\ NoneMerged(s)
  /\ Becomes(s, "escalated") /\ asked' = [asked EXCEPT ![s] = @ + 1]
  /\ UNCHANGED <<fix, verdict>>

\* An answer reopens its subtask, and a design that was left incomplete.
Answer(s, orders) ==
  /\ Acts /\ ~stopped /\ status[s] = "escalated"
  /\ Becomes(s, "active")
  /\ fix' = [fix EXCEPT ![s] = CASE @ = "used" -> "used" [] @ # "used" /\ orders -> "ordered"
                                 [] OTHER -> "no"]
  /\ verdict' = IF verdict = "incomplete" THEN "none" ELSE verdict
  /\ UNCHANGED asked

\* A subtask is given up only when a person was asked about it.
GiveUp(s) ==
  /\ Attempted(s) /\ NoneMerged(s) /\ asked[s] # 0
  /\ Becomes(s, "rejected") /\ UNCHANGED <<fix, asked, verdict>>

TakeOut(s) ==
  /\ Removes /\ Open /\ status[s] = "planned"
  /\ Becomes(s, "removed") /\ UNCHANGED <<fix, asked, verdict>>

Judge ==
  /\ Open /\ \A s \in Task : ~Unresolved(s)
  /\ verdict' \in IF GateMode = "off" THEN {"off"}
                  ELSE IF \E s \in Task : status[s] # "done" THEN {"incomplete"}
                  ELSE {"pass", "fail"}
  /\ UNCHANGED <<status, tries, fix, asked, written, merged, stopped>>

Stop ==
  /\ ~stopped /\ stopped' = TRUE
  /\ UNCHANGED <<status, tries, fix, asked, written, merged, verdict>>

Next ==
  \/ \E s \in Task :
       \/ Begin(s) \/ Merge(s) \/ Done(s) \/ Ask(s) \/ GiveUp(s) \/ TakeOut(s)
       \/ \E k \in 1..Proposals : Write(s, k)
       \/ \E orders \in BOOLEAN : Answer(s, orders)
  \/ Judge \/ Stop

Spec == Init /\ [][Next]_deliveryVars
=============================================================================
