---------------------------- MODULE DecidedItems ----------------------------
(***************************************************************************)
(* What the approval queue promises (orchestrator/queue.py): items are     *)
(* listed once, in an order that never changes, and a listed item is       *)
(* decided at most once, by one person. How two append-only files, a lock  *)
(* and deciders that die keep this is ApprovalQueue.                       *)
(***************************************************************************)
EXTENDS Sequences

CONSTANTS Item, Decider

VARIABLES
  listed,   \* the items, oldest first
  decided   \* the decisions, oldest first: which item, and who decided it

vars == <<listed, decided>>

IsListed(i) == \E k \in DOMAIN listed : listed[k] = i
IsDecided(i) == \E k \in DOMAIN decided : decided[k].item = i

Init == listed = <<>> /\ decided = <<>>

List(i) == /\ ~IsListed(i)
           /\ listed' = Append(listed, i)
           /\ UNCHANGED decided

Decide(d, i) == /\ IsListed(i) /\ ~IsDecided(i)
                /\ decided' = Append(decided, [item |-> i, by |-> d])
                /\ UNCHANGED listed

Next == \E i \in Item : List(i) \/ \E d \in Decider : Decide(d, i)

Spec == Init /\ [][Next]_vars
=============================================================================
