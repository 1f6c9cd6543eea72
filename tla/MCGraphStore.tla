---------------------------- MODULE MCGraphStore ----------------------------
(* Small instances of the store for TLC.                                   *)
EXTENDS GraphStore, TLC

CONSTANTS h1, h2, n1, n2, mech, elec, pMech, pElec, pIface, pBare

MCHandle == {h1, h2}
MCNode == {n1, n2}
MCRole == {mech, elec}
MCPayload == {pMech, pElec, pIface, pBare}
MCOwnerOf == (pMech :> mech) @@ (pElec :> elec) @@ (pIface :> mech) @@ (pBare :> mech)
MCInterface == {pIface}
MCUnitless == {pBare}
Nothing == {}

\* Lines that follow, repeat, skip, rewind and re-create; one unlike any record.
MCForeignLine ==
  {[rev |-> r, op |-> o, node |-> n1, version |-> v, payload |-> p] :
     r \in 1..2, o \in {"create", "write", "rollback"}, v \in 1..2, p \in {pMech, pElec}}
  \cup {[rev |-> 0, op |-> "junk", node |-> n1, version |-> 0, payload |-> pMech]}

\* A file gone, a file naming another owner, a file for a node never created.
MCForeignFile == {NoFile, [rev |-> 1, version |-> 1, payload |-> pElec]}
=============================================================================
