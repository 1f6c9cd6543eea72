--------------------------- MODULE VersionedGraph ---------------------------
(***************************************************************************)
(* What the design-state store promises its callers, with no journal, no   *)
(* files and no processes: one list of accepted changes that only grows at *)
(* its end. A change is a whole new payload for one node, and is accepted  *)
(* only on behalf of the role that owned the node just before it.          *)
(* GraphStore implements this specification.                               *)
(***************************************************************************)
EXTENDS Integers, Sequences

CONSTANTS
  Node,       \* node identifiers
  Role,       \* agent roles
  Payload,    \* node bodies
  OwnerOf,    \* the owner_role field of each payload
  Interface,  \* the payloads whose kind is "interface"
  Unitless    \* the payloads with a quantity that has no unit

VARIABLE log  \* the accepted changes, oldest first

Change == [node : Node, payload : Payload]

\* The position of the newest change of n, 0 when n was never created.
IsNewest(i, n) ==
  \/ i = 0 /\ \A j \in 1..Len(log) : log[j].node # n
  \/ /\ i \in 1..Len(log) /\ log[i].node = n
     /\ \A j \in i + 1 .. Len(log) : log[j].node # n

Init == log = << >>

(* write_node: the acting role owns the node as it stands, an interface is *)
(* never rewritten, and every quantity has a unit.                         *)
Write(n, p, r) ==
  /\ \E i \in 0..Len(log) :
       /\ IsNewest(i, n)
       /\ IF i = 0 THEN r = OwnerOf[p]
          ELSE r = OwnerOf[log[i].payload] /\ log[i].payload \notin Interface
  /\ p \notin Unitless
  /\ log' = Append(log, [node |-> n, payload |-> p])

(* rollback: a forward move to a payload the node has already held.        *)
Rollback(i) == /\ i \in 1..Len(log)
               /\ log' = Append(log, log[i])

Next == \/ \E n \in Node, p \in Payload, r \in Role : Write(n, p, r)
        \/ \E i \in 1..Len(log) : Rollback(i)

Spec == Init /\ [][Next]_log
=============================================================================
