------------------------ MODULE ApprovalQueueProofs ------------------------
(***************************************************************************)
(* Proofs about the approval queue, for any number of items, deciders,     *)
(* replaced files and sessions: an item is decided once, a decision that    *)
(* returned stays, what a session started beside stays the start of the     *)
(* file, and the two files implement a list of items each decided at most   *)
(* once.                                                                   *)
(***************************************************************************)
EXTENDS ApprovalQueue, TLAPS

\* A decider that has read, or is past that, holds the lock of its file.
HoldsLock ==
  \A d \in Decider :
    dec[d].pc \in {"locked", "read", "writing"} => lock[dec[d].ino] = d

\* The files beyond the one the name names are nobody's yet.
OpensNamed ==
  /\ \A d \in Decider : dec[d].pc # "idle" => dec[d].ino <= name
  /\ \A a \in acked : a.ino <= name

\* What a decider knows still holds, since its lock is held.
KnowsTrue ==
  \A d \in Decider :
    /\ dec[d].pc = "locked" => dec[d].known \subseteq Listed
    /\ dec[d].pc = "read" => dec[d].good = Len(body[dec[d].ino])
    /\ dec[d].pc \in {"read", "writing"} =>
         dec[d].item \in Listed /\ dec[d].item \notin ItemsOf(body[dec[d].ino])

\* What was sealed is whole lines, and the file starts with them.
SealsStart ==
  \A j \in DOMAIN seals :
    /\ seals[j].size = LineBytes * Len(seals[j].lines)
    /\ Len(seals[j].lines) <= Len(body[name])
    /\ SubSeq(body[name], 1, Len(seals[j].lines)) = seals[j].lines

QueueInv ==
  /\ QueueTypeOK /\ HoldsLock /\ OpensNamed /\ KnowsTrue
  /\ DecidedOnce /\ AckKept /\ SealsStart

-----------------------------------------------------------------------------
(* Types.                                                                  *)

\* What a decider keeps, by where it is.
LEMMA DecFields ==
  ASSUME NEW s \in DecState
  PROVE  /\ s.pc \in {"idle", "opened", "locked", "read", "writing"}
         /\ s.pc = "idle" => s = Idle
         /\ s.pc # "idle" => s.item \in Item /\ s.ino \in Inode
         /\ s.pc = "locked" => s.known \subseteq Item
         /\ s.pc = "read" => s.good \in Nat
<1>1. CASE s = Idle
  BY <1>1 DEF Idle
<1>2. CASE s \in [pc : {"opened"}, item : Item, ino : Inode]
  BY <1>2
<1>3. CASE s \in [pc : {"locked"}, item : Item, ino : Inode, known : SUBSET Item]
  BY <1>3
<1>4. CASE s \in [pc : {"read"}, item : Item, ino : Inode, good : Nat]
  BY <1>4
<1>5. CASE s \in [pc : {"writing"}, item : Item, ino : Inode]
  BY <1>5
<1> QED
  BY <1>1, <1>2, <1>3, <1>4, <1>5 DEF DecState

\* A decider's next state is well formed.
LEMMA DecSteps ==
  ASSUME NEW i \in Item, NEW n \in Inode
  PROVE  /\ Idle \in DecState
         /\ [pc |-> "opened", item |-> i, ino |-> n] \in DecState
         /\ \A known \in SUBSET Item :
              [pc |-> "locked", item |-> i, ino |-> n, known |-> known] \in DecState
         /\ \A good \in Nat : [pc |-> "read", item |-> i, ino |-> n, good |-> good] \in DecState
         /\ [pc |-> "writing", item |-> i, ino |-> n] \in DecState
BY DEF DecState

LEMMA ListedType == ASSUME items \in Seq(Item) PROVE Listed \subseteq Item
BY DEF Listed

\* A file cut at its length is the file.
LEMMA WholeFile == ASSUME NEW S, NEW s \in Seq(S) PROVE SubSeq(s, 1, Len(s)) = s
OBVIOUS

LEMMA IdleType == Idle \in DecState
BY DEF DecState

\* The types at the start.
LEMMA TypeInit == QueueInit => QueueTypeOK
<1> SUFFICES ASSUME QueueInit PROVE QueueTypeOK
  OBVIOUS
<1>1. 1 \in Inode
  BY QueueAssumption DEF Inode
<1>2. <<>> \in Seq(Item) /\ <<>> \in Seq(Decision) /\ <<>> \in Seq([lines : Seq(Decision), size : Nat])
  OBVIOUS
<1>3. dec \in [Decider -> DecState]
  BY IdleType DEF QueueInit
<1> QED
  BY <1>1, <1>2, <1>3 DEF QueueInit, QueueTypeOK

\* Closing a descriptor leaves deciders and locks.
LEMMA ClosedType ==
  ASSUME QueueTypeOK, NEW d \in Decider, Closed(d)
  PROVE  dec' \in [Decider -> DecState] /\ lock' \in [Inode -> Decider \cup {Nobody}]
BY IdleType DEF QueueTypeOK, Closed

\* Every step keeps the types.
LEMMA TypeStep == QueueInv /\ [QueueNext]_queueVars => QueueTypeOK'
<1> SUFFICES ASSUME QueueTypeOK, KnowsTrue, [QueueNext]_queueVars PROVE QueueTypeOK'
  BY DEF QueueInv
<1> USE DEF queueFiles, deciding
<1>d. ASSUME NEW d \in Decider
      PROVE  /\ dec[d] \in DecState
             /\ dec[d].pc # "idle" => dec[d].item \in Item /\ dec[d].ino \in Inode
             /\ dec[d].pc = "read" => dec[d].good \in Nat
  <2>1. dec[d] \in DecState
    BY DEF QueueTypeOK
  <2> QED
    BY <2>1, DecFields
<1>1. CASE AddItem
  BY <1>1 DEF AddItem, QueueTypeOK
<1>2. CASE Spawn
  BY <1>2 DEF Spawn, QueueTypeOK
<1>3. CASE Seal
  <2>1. body[name] \in Seq(Decision) /\ LineBytes * Len(body[name]) \in Nat
    BY DEF QueueTypeOK, LineBytes
  <2>2. WholeLines(name) \in [lines : Seq(Decision), size : Nat]
    BY <2>1 DEF WholeLines
  <2>3. seals' \in Seq([lines : Seq(Decision), size : Nat])
    BY <1>3, <2>2 DEF Seal, QueueTypeOK
  <2> QED
    BY <1>3, <2>3 DEF Seal, QueueTypeOK
<1>4. CASE SessionOver
  BY <1>4 DEF SessionOver, QueueTypeOK
<1>5. CASE WriterDies
  BY <1>5 DEF WriterDies, QueueTypeOK
<1>6. CASE Reopen
  BY <1>6 DEF Reopen, QueueTypeOK
<1>7. ASSUME NEW d \in Decider, NEW i \in Item, OpenDecisions(d, i)
      PROVE  QueueTypeOK'
  BY <1>7, DecSteps DEF OpenDecisions, QueueTypeOK
<1>8. ASSUME NEW d \in Decider, LockDecisions(d)
      PROVE  QueueTypeOK'
  <2>1. dec[d].item \in Item /\ dec[d].ino \in Inode
    BY <1>8, <1>d DEF LockDecisions
  <2>2. Listed \subseteq Item
    BY ListedType DEF QueueTypeOK
  <2>3. dec' \in [Decider -> DecState]
    BY <1>8, <2>1, <2>2, DecSteps DEF LockDecisions, QueueTypeOK
  <2>4. lock' \in [Inode -> Decider \cup {Nobody}]
    BY <1>8 DEF LockDecisions, QueueTypeOK
  <2> QED
    BY <1>8, <2>3, <2>4 DEF LockDecisions, QueueTypeOK
<1>9. ASSUME NEW d \in Decider, WaitsTooLong(d) \/ Refuse(d) \/ DeciderDies(d)
      PROVE  QueueTypeOK'
  <2>1. Closed(d)
    BY <1>9 DEF WaitsTooLong, Refuse, DeciderDies
  <2> QED
    BY <1>9, <2>1, ClosedType DEF WaitsTooLong, Refuse, DeciderDies, QueueTypeOK
<1>10. ASSUME NEW d \in Decider, ReadDecisions(d)
       PROVE  QueueTypeOK'
  <2>1. dec[d].item \in Item /\ dec[d].ino \in Inode
    BY <1>10, <1>d DEF ReadDecisions
  <2>2. Len(body[name]) \in Nat
    BY DEF QueueTypeOK
  <2>3. dec' \in [Decider -> DecState]
    BY <1>10, <2>1, <2>2, DecSteps DEF ReadDecisions, QueueTypeOK
  <2> QED
    BY <1>10, <2>3 DEF ReadDecisions, QueueTypeOK
<1>11. ASSUME NEW d \in Decider, BeginLine(d)
       PROVE  QueueTypeOK'
  <2> DEFINE n == dec[d].ino
  <2>1. dec[d].item \in Item /\ n \in Inode /\ dec[d].good \in Nat
    BY <1>11, <1>d DEF BeginLine
  <2>2. SubSeq(body[n], 1, dec[d].good) = body[n]
    BY <1>11, <2>1, WholeFile DEF BeginLine, KnowsTrue, QueueTypeOK
  <2>3. body' \in [Inode -> Seq(Decision)]
    BY <1>11, <2>1, <2>2 DEF BeginLine, QueueTypeOK
  <2>4. dec' \in [Decider -> DecState]
    BY <1>11, <2>1, DecSteps DEF BeginLine, QueueTypeOK
  <2>5. tail' \in [Inode -> BOOLEAN]
    BY <1>11, <2>1 DEF BeginLine, QueueTypeOK
  <2> QED
    BY <1>11, <2>3, <2>4, <2>5 DEF BeginLine, QueueTypeOK
<1>12. ASSUME NEW d \in Decider, PartLine(d)
       PROVE  QueueTypeOK'
  BY <1>12, <1>d DEF PartLine, QueueTypeOK
<1>13. ASSUME NEW d \in Decider, EndLine(d)
       PROVE  QueueTypeOK'
  <2> DEFINE n == dec[d].ino
             line == [item |-> dec[d].item, by |-> d]
             ack == [ino |-> n, at |-> Len(body[n]) + 1, line |-> line]
  <2>1. n \in Inode /\ line \in Decision
    BY <1>13, <1>d DEF EndLine, Decision
  <2>2. body[n] \in Seq(Decision) /\ Append(body[n], line) \in Seq(Decision)
    BY <2>1 DEF QueueTypeOK
  <2>3. body' \in [Inode -> Seq(Decision)]
    BY <1>13, <2>1, <2>2 DEF EndLine, QueueTypeOK
  <2>4. ack \in [ino : Inode, at : Nat, line : Decision]
    BY <2>1, <2>2
  <2>5. acked' \subseteq [ino : Inode, at : Nat, line : Decision]
    BY <1>13, <2>4 DEF EndLine, QueueTypeOK
  <2>6. tail' \in [Inode -> BOOLEAN]
    BY <1>13, <2>1 DEF EndLine, QueueTypeOK
  <2>7. dec' \in [Decider -> DecState] /\ lock' \in [Inode -> Decider \cup {Nobody}]
    BY <1>13, ClosedType DEF EndLine
  <2> QED
    BY <1>13, <2>3, <2>5, <2>6, <2>7 DEF EndLine, QueueTypeOK
<1>14. CASE Replace
  <2>1. name + 1 \in Inode /\ name \in Inode
    BY <1>14, QueueAssumption DEF Replace, QueueTypeOK, Inode
  <2> QED
    BY <1>14, <2>1 DEF Replace, QueueTypeOK
<1>15. CASE UNCHANGED queueVars
  BY <1>15 DEF queueVars, QueueTypeOK
<1> QED
  BY <1>1, <1>2, <1>3, <1>4, <1>5, <1>6, <1>7, <1>8, <1>9, <1>10, <1>11, <1>12, <1>13, <1>14, <1>15
  DEF QueueNext, Orchestrates, Decides

-----------------------------------------------------------------------------
(* Lines.                                                                  *)

\* What followed from fewer items follows from more.
LEMMA FollowsMore ==
  ASSUME NEW lines, NEW known, NEW more, known \subseteq more, Follows(lines, known)
  PROVE  Follows(lines, more)
BY DEF Follows

\* A decision on an open item follows.
LEMMA FollowsAppend ==
  ASSUME NEW lines \in Seq(Decision), NEW known, NEW line \in Decision,
         Follows(lines, known), line.item \in known, line.item \notin ItemsOf(lines)
  PROVE  Follows(Append(lines, line), known)
<1> DEFINE longer == Append(lines, line)
<1>1. /\ Len(longer) = Len(lines) + 1 /\ DOMAIN longer = 1 .. Len(lines) + 1
      /\ DOMAIN lines = 1 .. Len(lines)
      /\ longer[Len(lines) + 1] = line /\ Len(lines) \in Nat
  OBVIOUS
<1>2. \A k \in 1 .. Len(lines) : longer[k] = lines[k]
  OBVIOUS
<1> HIDE DEF longer
<1>3. ItemsOf(longer) \subseteq known
  BY <1>1, <1>2 DEF Follows, ItemsOf
<1>4. ASSUME NEW j \in DOMAIN longer, NEW k \in DOMAIN longer,
             longer[j].item = longer[k].item
      PROVE  j = k
  <2>1. CASE j \in 1 .. Len(lines) /\ k \in 1 .. Len(lines)
    BY <1>1, <1>2, <1>4, <2>1 DEF Follows
  <2>2. CASE j = Len(lines) + 1 /\ k \in 1 .. Len(lines)
    BY <1>1, <1>2, <1>4, <2>2 DEF ItemsOf
  <2>3. CASE j \in 1 .. Len(lines) /\ k = Len(lines) + 1
    BY <1>1, <1>2, <1>4, <2>3 DEF ItemsOf
  <2> QED
    BY <1>1, <2>1, <2>2, <2>3
<1> QED
  BY <1>3, <1>4 DEF Follows, longer

\* A listed item stays listed.
LEMMA ListedGrows ==
  ASSUME items \in Seq(Item), NEW i \in Item, items' = Append(items, i)
  PROVE  Listed \subseteq Listed'
<1>1. \A k \in DOMAIN items : k \in DOMAIN items' /\ items'[k] = items[k]
  OBVIOUS
<1> QED
  BY <1>1 DEF Listed

\* The items only grow.
LEMMA ListedKept ==
  ASSUME QueueTypeOK, [QueueNext]_queueVars
  PROVE  Listed \subseteq Listed'
<1>1. CASE AddItem
  <2>1. PICK i \in Item : items' = Append(items, i)
    BY <1>1 DEF AddItem
  <2> QED
    BY <2>1, ListedGrows DEF QueueTypeOK
<1>2. CASE items' = items
  BY <1>2 DEF Listed
<1> QED
  BY <1>1, <1>2 DEF QueueNext, queueVars, queueFiles, Orchestrates, Decides, Spawn, Seal, SessionOver,
     WriterDies, Reopen, OpenDecisions, LockDecisions, WaitsTooLong, Refuse, ReadDecisions,
     BeginLine, PartLine, EndLine, DeciderDies, Replace

-----------------------------------------------------------------------------
(* The decisions.                                                          *)

\* How a step changes the decisions file of an inode: not at all, by a line on
\* an open item, or, beyond the file the name names, by a copy of it.
Writes(d, n) ==
  /\ dec[d].pc = "writing" /\ dec[d].ino = n
  /\ body' = [body EXCEPT ![n] = Append(@, [item |-> dec[d].item, by |-> d])]

Copies ==
  /\ name' = name + 1 /\ name + 1 \in Inode
  /\ body' = [body EXCEPT ![name + 1] = body[name]]

\* A step writes one line, or gives the name to a copy, or leaves the lines.
LEMMA BodySteps ==
  ASSUME QueueInv, [QueueNext]_queueVars
  PROVE  \/ body' = body /\ name' = name
         \/ Replace /\ Copies
         \/ \E d \in Decider : EndLine(d) /\ Writes(d, dec[d].ino) /\ name' = name
<1> USE DEF queueFiles
<1>1. ASSUME NEW d \in Decider, BeginLine(d)
      PROVE  body' = body /\ name' = name
  <2> DEFINE n == dec[d].ino
  <2>1. dec[d] \in DecState
    BY DEF QueueInv, QueueTypeOK
  <2>2. n \in Inode
    BY <1>1, <2>1, DecFields DEF BeginLine
  <2>3. body[n] \in Seq(Decision) /\ dec[d].good = Len(body[n])
    BY <1>1, <2>2 DEF BeginLine, QueueInv, KnowsTrue, QueueTypeOK
  <2>4. SubSeq(body[n], 1, dec[d].good) = body[n]
    BY <2>3, WholeFile
  <2> QED
    BY <1>1, <2>2, <2>4 DEF BeginLine, QueueInv, QueueTypeOK
<1>2. ASSUME NEW d \in Decider, EndLine(d)
      PROVE  Writes(d, dec[d].ino) /\ name' = name
  BY <1>2 DEF EndLine, Writes
<1>3. ASSUME Replace PROVE Copies
  BY <1>3, QueueAssumption DEF Replace, Copies, QueueInv, QueueTypeOK, Inode
<1>4. \/ body' = body /\ name' = name
      \/ Replace
      \/ \E d \in Decider : BeginLine(d) \/ EndLine(d)
  BY DEF QueueNext, queueVars, Orchestrates, Decides, AddItem, Spawn, Seal, SessionOver,
     WriterDies, Reopen, OpenDecisions, LockDecisions, WaitsTooLong, Refuse, ReadDecisions,
     PartLine, DeciderDies
<1> QED
  BY <1>1, <1>2, <1>3, <1>4

\* A line is written on a listed item that no line before it decides, by one
\* who holds the lock of a file the name has had.
LEMMA WriterKnows ==
  ASSUME QueueInv, NEW d \in Decider, dec[d].pc \in {"read", "writing"}
  PROVE  /\ dec[d].item \in Item /\ dec[d].ino \in Inode /\ dec[d].ino <= name
         /\ dec[d].item \in Listed /\ dec[d].item \notin ItemsOf(body[dec[d].ino])
         /\ lock[dec[d].ino] = d
<1>1. dec[d] \in DecState
  BY DEF QueueInv, QueueTypeOK
<1> QED
  BY <1>1, DecFields DEF QueueInv, KnowsTrue, HoldsLock, OpensNamed

\* What a writer appends to: a sequence of decisions and a decision.
LEMMA WriterLine ==
  ASSUME QueueInv, NEW d \in Decider, dec[d].pc = "writing"
  PROVE  /\ [item |-> dec[d].item, by |-> d] \in Decision
         /\ body[dec[d].ino] \in Seq(Decision)
BY WriterKnows DEF QueueInv, QueueTypeOK, Decision

\* No item is decided twice, in any file the name has had.
LEMMA OnceStep == QueueInv /\ [QueueNext]_queueVars => DecidedOnce'
<1> SUFFICES ASSUME QueueInv, [QueueNext]_queueVars, NEW n \in Inode
             PROVE  Follows(body'[n], Listed')
  BY DEF DecidedOnce
<1>0. Listed \subseteq Listed' /\ body \in [Inode -> Seq(Decision)] /\ name \in Inode
  BY ListedKept DEF QueueInv, QueueTypeOK
<1>1. \A m \in Inode : Follows(body[m], Listed)
  BY DEF QueueInv, DecidedOnce
<1>2. Follows(body'[n], Listed)
  <2>1. CASE body' = body
    BY <1>1, <2>1
  <2>2. CASE Copies
    BY <1>0, <1>1, <2>2 DEF Copies
  <2>3. ASSUME NEW d \in Decider, Writes(d, dec[d].ino)
        PROVE  Follows(body'[n], Listed)
    <3>1. dec[d].pc = "writing"
      BY <2>3 DEF Writes
    <3>2. CASE n = dec[d].ino
      <4>1. body'[n] = Append(body[n], [item |-> dec[d].item, by |-> d])
        BY <1>0, <2>3, <3>2 DEF Writes
      <4> QED
        BY <1>1, <3>1, <3>2, <4>1, WriterKnows, WriterLine, FollowsAppend
    <3>3. CASE n # dec[d].ino
      BY <1>0, <1>1, <2>3, <3>3 DEF Writes
    <3> QED
      BY <3>2, <3>3
  <2> QED
    BY <2>1, <2>2, <2>3, BodySteps
<1> QED
  BY <1>0, <1>2, FollowsMore

\* A line that is there stays there in every file the name has had.
LEMMA LinesStay ==
  ASSUME QueueInv, [QueueNext]_queueVars, NEW n \in Inode, n <= name
  PROVE  /\ Len(body[n]) <= Len(body'[n])
         /\ \A k \in 1 .. Len(body[n]) : body'[n][k] = body[n][k]
<1>0. body \in [Inode -> Seq(Decision)] /\ name \in Inode /\ body[n] \in Seq(Decision)
  BY DEF QueueInv, QueueTypeOK
<1>1. CASE body' = body
  BY <1>0, <1>1
<1>2. CASE Copies
  <2>1. n # name + 1
    BY <1>0 DEF Inode
  <2>2. body'[n] = body[n]
    BY <1>0, <1>2, <2>1 DEF Copies
  <2> QED
    BY <1>0, <2>2
<1>3. ASSUME NEW d \in Decider, Writes(d, dec[d].ino), n = dec[d].ino
      PROVE  /\ Len(body[n]) <= Len(body'[n])
             /\ \A k \in 1 .. Len(body[n]) : body'[n][k] = body[n][k]
  <2> DEFINE line == [item |-> dec[d].item, by |-> d]
  <2>1. body'[n] = Append(body[n], line) /\ line \in Decision
    BY <1>0, <1>3, WriterLine DEF Writes
  <2> HIDE DEF line
  <2> QED
    BY <1>0, <2>1
<1>4. ASSUME NEW d \in Decider, Writes(d, dec[d].ino), n # dec[d].ino
      PROVE  body'[n] = body[n]
  BY <1>0, <1>4 DEF Writes
<1> QED
  BY <1>0, <1>1, <1>2, <1>3, <1>4, BodySteps

\* A decision that returned stays where it is.
LEMMA AckStep == QueueInv /\ [QueueNext]_queueVars => AckKept'
<1> SUFFICES ASSUME QueueInv, [QueueNext]_queueVars, QueueTypeOK', NEW a \in acked'
             PROVE  a.at \in DOMAIN body'[a.ino] /\ body'[a.ino][a.at] = a.line
  BY TypeStep DEF AckKept
<1>0. body \in [Inode -> Seq(Decision)] /\ body' \in [Inode -> Seq(Decision)]
  BY DEF QueueInv, QueueTypeOK
<1>1. CASE a \in acked
  <2>1. a.ino \in Inode /\ a.ino <= name /\ a.at \in DOMAIN body[a.ino] /\ body[a.ino][a.at] = a.line
    BY <1>1 DEF QueueInv, QueueTypeOK, OpensNamed, AckKept
  <2> DEFINE n == a.ino
             k == a.at
  <2>2. k \in 1 .. Len(body[n]) /\ Len(body[n]) \in Nat /\ Len(body'[n]) \in Nat
        /\ DOMAIN body'[n] = 1 .. Len(body'[n])
    BY <1>0, <2>1
  <2>3. Len(body[n]) <= Len(body'[n]) /\ body'[n][k] = body[n][k]
    BY <2>1, <2>2, LinesStay
  <2> QED
    BY <2>1, <2>2, <2>3
<1>2. CASE a \notin acked
  <2>1. PICK d \in Decider : EndLine(d)
    BY <1>2 DEF QueueNext, queueVars, deciding, Orchestrates, Decides, AddItem, Spawn, Seal, SessionOver,
       WriterDies, Reopen, OpenDecisions, LockDecisions, WaitsTooLong, Refuse, ReadDecisions,
       BeginLine, PartLine, DeciderDies, Replace
  <2> DEFINE n == dec[d].ino
             line == [item |-> dec[d].item, by |-> d]
  <2>2. n \in Inode /\ line \in Decision /\ body[n] \in Seq(Decision)
    BY <2>1, WriterKnows, WriterLine DEF EndLine
  <2>3. a = [ino |-> n, at |-> Len(body[n]) + 1, line |-> line]
    BY <1>2, <2>1 DEF EndLine
  <2>4. body'[n] = Append(body[n], line)
    BY <1>0, <2>1, <2>2 DEF EndLine
  <2> HIDE DEF n, line
  <2> QED
    BY <2>2, <2>3, <2>4
<1> QED
  BY <1>1, <1>2

-----------------------------------------------------------------------------
(* The deciders.                                                           *)

\* Closing releases what was held, and touches no other decider.
LEMMA CloseHolds ==
  ASSUME QueueTypeOK, HoldsLock, NEW d \in Decider, Closed(d)
  PROVE  HoldsLock'
<1> SUFFICES ASSUME NEW e \in Decider, dec'[e].pc \in {"locked", "read", "writing"}
             PROVE  lock'[dec'[e].ino] = e
  BY DEF HoldsLock
<1>1. e # d /\ dec'[e] = dec[e]
  BY DEF Closed, Idle, QueueTypeOK
<1>2. dec[e] \in DecState /\ lock[dec[e].ino] = e /\ dec[e].pc # "idle"
  BY <1>1 DEF HoldsLock, QueueTypeOK
<1>3. dec[e].ino \in Inode
  BY <1>2, DecFields
<1> QED
  BY <1>1, <1>2, <1>3 DEF Closed

\* The steps that change what a decider does.
DecKept == lock' = lock /\ dec' = dec

LEMMA OtherSteps ==
  ASSUME [QueueNext]_queueVars
  PROVE  \/ DecKept
         \/ \E d \in Decider : \/ \E i \in Item : OpenDecisions(d, i)
                               \/ LockDecisions(d) \/ ReadDecisions(d) \/ BeginLine(d)
                               \/ Closed(d)
BY DEF QueueNext, queueVars, deciding, DecKept, Orchestrates, Decides, AddItem, Spawn, Seal,
   SessionOver, WriterDies, Reopen, WaitsTooLong, Refuse, PartLine, EndLine, DeciderDies, Replace

\* Whoever has read, or writes, holds the lock.
LEMMA HoldsStep == QueueInv /\ [QueueNext]_queueVars => HoldsLock'
<1> SUFFICES ASSUME QueueTypeOK, HoldsLock, [QueueNext]_queueVars PROVE HoldsLock'
  BY DEF QueueInv
<1>t. dec \in [Decider -> DecState] /\ lock \in [Inode -> Decider \cup {Nobody}]
  BY DEF QueueTypeOK
<1>d. ASSUME NEW e \in Decider, dec[e].pc # "idle" PROVE dec[e].ino \in Inode
  BY <1>t, <1>d, DecFields
<1>1. CASE DecKept
  BY <1>1 DEF DecKept, HoldsLock
<1>2. ASSUME NEW d \in Decider, NEW i \in Item, OpenDecisions(d, i)
      PROVE  HoldsLock'
  BY <1>2, <1>t DEF OpenDecisions, HoldsLock
<1>3. ASSUME NEW d \in Decider, LockDecisions(d)
      PROVE  HoldsLock'
  <2> SUFFICES ASSUME NEW e \in Decider, dec'[e].pc \in {"locked", "read", "writing"}
               PROVE  lock'[dec'[e].ino] = e
    BY DEF HoldsLock
  <2>0. dec[d].ino \in Inode
    BY <1>3, <1>d DEF LockDecisions
  <2>1. CASE e = d
    BY <1>3, <1>t, <2>0, <2>1 DEF LockDecisions
  <2>2. CASE e # d
    <3>1. dec'[e] = dec[e] /\ lock[dec[e].ino] = e
      BY <1>3, <1>t, <2>2 DEF LockDecisions, HoldsLock
    <3>2. dec[e].ino \in Inode
      BY <1>d, <3>1
    <3>3. lock[dec[d].ino] = Nobody
      BY <1>3 DEF LockDecisions, FreeLock
    <3>4. dec[e].ino # dec[d].ino
      BY <3>1, <3>3, QueueAssumption
    <3> QED
      BY <1>3, <1>t, <3>1, <3>2, <3>4 DEF LockDecisions
  <2> QED
    BY <2>1, <2>2
<1>4. ASSUME NEW d \in Decider, ReadDecisions(d)
      PROVE  HoldsLock'
  BY <1>4, <1>t DEF ReadDecisions, HoldsLock
<1>5. ASSUME NEW d \in Decider, BeginLine(d)
      PROVE  HoldsLock'
  BY <1>5, <1>t DEF BeginLine, HoldsLock
<1>6. ASSUME NEW d \in Decider, Closed(d)
      PROVE  HoldsLock'
  BY <1>6, CloseHolds
<1> QED
  BY <1>1, <1>2, <1>3, <1>4, <1>5, <1>6, OtherSteps

\* A decider has a file that the name has had.
LEMMA OpensStep == QueueInv /\ [QueueNext]_queueVars => OpensNamed'
<1> SUFFICES ASSUME QueueInv, [QueueNext]_queueVars PROVE OpensNamed'
  OBVIOUS
<1>t. /\ dec \in [Decider -> DecState] /\ name \in Inode /\ name \in Nat /\ Inode \subseteq Nat
      /\ \A a \in acked : a.ino <= name /\ a.ino \in Inode
      /\ \A e \in Decider : dec[e].pc # "idle" => dec[e].ino <= name
  BY DEF QueueInv, QueueTypeOK, OpensNamed, Inode
<1>d. ASSUME NEW e \in Decider, dec[e].pc # "idle" PROVE dec[e].ino \in Nat
  BY <1>t, <1>d, DecFields
<1>n. name' = name \/ name' = name + 1
  BY BodySteps DEF Copies
<1>1. \A e \in Decider : dec'[e].pc # "idle" => dec'[e].ino <= name
  <2>1. CASE DecKept
    BY <1>t, <2>1 DEF DecKept
  <2>2. ASSUME NEW d \in Decider, NEW i \in Item, OpenDecisions(d, i)
        PROVE  \A e \in Decider : dec'[e].pc # "idle" => dec'[e].ino <= name
    BY <1>t, <2>2 DEF OpenDecisions
  <2>3. ASSUME NEW d \in Decider, LockDecisions(d)
        PROVE  \A e \in Decider : dec'[e].pc # "idle" => dec'[e].ino <= name
    BY <1>t, <2>3 DEF LockDecisions
  <2>4. ASSUME NEW d \in Decider, ReadDecisions(d)
        PROVE  \A e \in Decider : dec'[e].pc # "idle" => dec'[e].ino <= name
    BY <1>t, <2>4 DEF ReadDecisions
  <2>5. ASSUME NEW d \in Decider, BeginLine(d)
        PROVE  \A e \in Decider : dec'[e].pc # "idle" => dec'[e].ino <= name
    BY <1>t, <2>5 DEF BeginLine
  <2>6. ASSUME NEW d \in Decider, Closed(d)
        PROVE  \A e \in Decider : dec'[e].pc # "idle" => dec'[e].ino <= name
    BY <1>t, <2>6 DEF Closed, Idle
  <2> QED
    BY <2>1, <2>2, <2>3, <2>4, <2>5, <2>6, OtherSteps
<1>2. \A a \in acked' : a.ino <= name
  <2>1. ASSUME NEW d \in Decider, EndLine(d)
        PROVE  \A a \in acked' : a.ino <= name
    BY <1>t, <2>1 DEF EndLine
  <2>2. acked' = acked \/ \E d \in Decider : EndLine(d)
    BY DEF QueueNext, queueVars, deciding, Orchestrates, Decides, AddItem, Spawn, Seal, SessionOver,
       WriterDies, Reopen, OpenDecisions, LockDecisions, WaitsTooLong, Refuse, ReadDecisions,
       BeginLine, PartLine, DeciderDies, Replace
  <2> QED
    BY <1>t, <2>1, <2>2
<1>3. QueueTypeOK'
  BY TypeStep
<1>4. /\ \A e \in Decider : dec'[e].pc # "idle" => dec'[e].ino \in Nat
      /\ \A a \in acked' : a.ino \in Nat
  BY <1>3, DecFields DEF QueueTypeOK, Inode
<1> QED
  BY <1>t, <1>n, <1>1, <1>2, <1>4 DEF OpensNamed

\* The file of a decider that goes on holding its lock is changed by no other.
LEMMA OwnFile ==
  ASSUME QueueInv, [QueueNext]_queueVars, NEW e \in Decider,
         dec[e].pc \in {"locked", "read", "writing"}, dec'[e].pc # "idle"
  PROVE  body'[dec[e].ino] = body[dec[e].ino]
<1>t. body \in [Inode -> Seq(Decision)] /\ name \in Nat /\ dec \in [Decider -> DecState]
  BY DEF QueueInv, QueueTypeOK, Inode
<1>e. dec[e].ino \in Inode /\ dec[e].ino \in Nat /\ dec[e].ino <= name /\ lock[dec[e].ino] = e
  <2>1. dec[e] \in DecState
    BY <1>t
  <2> QED
    BY <2>1, DecFields DEF QueueInv, OpensNamed, HoldsLock, Inode
<1>1. CASE body' = body
  BY <1>1
<1>2. CASE Copies
  BY <1>t, <1>e, <1>2 DEF Copies
<1>3. ASSUME NEW d \in Decider, EndLine(d), Writes(d, dec[d].ino)
      PROVE  body'[dec[e].ino] = body[dec[e].ino]
  <2>1. dec[d].ino \in Inode /\ lock[dec[d].ino] = d
    BY <1>3, WriterKnows DEF Writes
  <2>2. d # e
    BY <1>3, <1>t DEF EndLine, Closed, Idle
  <2>3. dec[d].ino # dec[e].ino
    BY <1>e, <2>1, <2>2
  <2> QED
    BY <1>t, <1>e, <1>3, <2>1, <2>3 DEF Writes
<1> QED
  BY <1>1, <1>2, <1>3, BodySteps

\* What a decider knows still holds while it holds its lock.
KnowsOf(now, files, names) ==
  /\ now.pc = "locked" => now.known \subseteq names
  /\ now.pc = "read" => now.good = Len(files[now.ino])
  /\ now.pc \in {"read", "writing"} =>
       now.item \in names /\ now.item \notin ItemsOf(files[now.ino])

LEMMA KnowsStep == QueueInv /\ [QueueNext]_queueVars => KnowsTrue'
<1> SUFFICES ASSUME QueueInv, [QueueNext]_queueVars, NEW e \in Decider
             PROVE  KnowsOf(dec'[e], body', Listed')
  BY DEF KnowsTrue, KnowsOf
<1>t. dec \in [Decider -> DecState] /\ Listed \subseteq Listed' /\ name \in Inode
  BY ListedKept DEF QueueInv, QueueTypeOK
<1>k. KnowsOf(dec[e], body, Listed)
  BY DEF QueueInv, KnowsTrue, KnowsOf
<1>0. CASE dec'[e] = dec[e]
  <2>1. dec[e].pc \in {"locked", "read", "writing"} => body'[dec[e].ino] = body[dec[e].ino]
    <3>1. CASE dec[e].pc = "idle"
      BY <3>1
    <3>2. CASE dec[e].pc # "idle"
      BY <1>0, <3>2, OwnFile
    <3> QED
      BY <3>1, <3>2
  <2> QED
    BY <1>t, <1>k, <1>0, <2>1 DEF KnowsOf
<1>1. CASE dec'[e].pc \in {"idle", "opened"}
  BY <1>1 DEF KnowsOf
<1>2. CASE LockDecisions(e)
  BY <1>t, <1>2 DEF LockDecisions, KnowsOf
<1>3. CASE ReadDecisions(e)
  <2>1. body' = body
    BY <1>3 DEF ReadDecisions, queueFiles
  <2>2. dec[e].known \subseteq Listed
    BY <1>3, <1>k DEF ReadDecisions, KnowsOf
  <2>3. dec[e].item \in Listed /\ dec[e].item \notin ItemsOf(body[name])
    BY <1>3, <2>2 DEF ReadDecisions, OpenItem
  <2> QED
    BY <1>t, <1>3, <2>1, <2>3 DEF ReadDecisions, SameFile, KnowsOf
<1>4. CASE BeginLine(e)
  <2>1. body'[dec[e].ino] = body[dec[e].ino]
    BY <1>4, <1>t, OwnFile DEF BeginLine
  <2> QED
    BY <1>t, <1>k, <1>4, <2>1 DEF BeginLine, KnowsOf
<1>5. \/ dec'[e] = dec[e] \/ dec'[e].pc \in {"idle", "opened"}
      \/ LockDecisions(e) \/ ReadDecisions(e) \/ BeginLine(e)
  <2>1. CASE DecKept
    BY <2>1 DEF DecKept
  <2>2. ASSUME NEW d \in Decider, NEW i \in Item, OpenDecisions(d, i)
        PROVE  dec'[e] = dec[e] \/ dec'[e].pc = "opened"
    BY <1>t, <2>2 DEF OpenDecisions
  <2>3. ASSUME NEW d \in Decider, LockDecisions(d) \/ ReadDecisions(d) \/ BeginLine(d), d # e
        PROVE  dec'[e] = dec[e]
    BY <1>t, <2>3 DEF LockDecisions, ReadDecisions, BeginLine
  <2>4. ASSUME NEW d \in Decider, Closed(d)
        PROVE  dec'[e] = dec[e] \/ dec'[e].pc = "idle"
    BY <1>t, <2>4 DEF Closed, Idle
  <2> QED
    BY <2>1, <2>2, <2>3, <2>4, OtherSteps
<1> QED
  BY <1>0, <1>1, <1>2, <1>3, <1>4, <1>5

-----------------------------------------------------------------------------
(* The seals.                                                              *)

LEMMA InSeq == ASSUME NEW S, NEW s \in Seq(S), NEW j \in DOMAIN s PROVE s[j] \in S
OBVIOUS

\* Sequences that agree as far as the first goes.
LEMMA StartsSame ==
  ASSUME NEW S, NEW s \in Seq(S), NEW u \in Seq(S), NEW m \in Nat, m <= Len(s),
         Len(s) <= Len(u), \A k \in 1 .. Len(s) : u[k] = s[k]
  PROVE  SubSeq(u, 1, m) = SubSeq(s, 1, m)
OBVIOUS

\* The file starts with the lines it started with.
LEMMA NamedStarts ==
  ASSUME QueueInv, [QueueNext]_queueVars
  PROVE  /\ body[name] \in Seq(Decision) /\ body'[name'] \in Seq(Decision)
         /\ Len(body[name]) <= Len(body'[name'])
         /\ \A k \in 1 .. Len(body[name]) : body'[name'][k] = body[name][k]
<1>0. body \in [Inode -> Seq(Decision)] /\ name \in Inode /\ name <= name
      /\ body' \in [Inode -> Seq(Decision)] /\ name' \in Inode
  BY TypeStep DEF QueueInv, QueueTypeOK, Inode
<1>1. CASE name' = name
  BY <1>0, <1>1, LinesStay
<1>2. CASE Copies
  <2>1. body'[name'] = body[name]
    BY <1>0, <1>2 DEF Copies
  <2> QED
    BY <1>0, <2>1
<1> QED
  BY <1>1, <1>2, BodySteps

\* What was sealed is still the file's start.
LEMMA SealsStep == QueueInv /\ [QueueNext]_queueVars => SealsStart'
<1> SUFFICES ASSUME QueueInv, [QueueNext]_queueVars, NEW j \in DOMAIN seals'
             PROVE  /\ seals'[j].size = LineBytes * Len(seals'[j].lines)
                    /\ Len(seals'[j].lines) <= Len(body'[name'])
                    /\ SubSeq(body'[name'], 1, Len(seals'[j].lines)) = seals'[j].lines
  BY DEF SealsStart
<1>t. seals \in Seq([lines : Seq(Decision), size : Nat])
  BY DEF QueueInv, QueueTypeOK
<1>1. CASE j \in DOMAIN seals /\ seals'[j] = seals[j]
  <2> DEFINE seal == seals[j]
  <2>1. seal \in [lines : Seq(Decision), size : Nat]
    BY <1>t, <1>1, InSeq
  <2>2. /\ seal.size = LineBytes * Len(seal.lines) /\ Len(seal.lines) \in Nat
        /\ Len(seal.lines) <= Len(body[name])
        /\ SubSeq(body[name], 1, Len(seal.lines)) = seal.lines
    BY <1>1, <2>1 DEF QueueInv, SealsStart
  <2> HIDE DEF seal
  <2>3. SubSeq(body'[name'], 1, Len(seal.lines)) = seal.lines
    BY <2>2, NamedStarts, StartsSame
  <2>4. Len(seal.lines) <= Len(body'[name'])
    <3>1. Len(body[name]) \in Nat /\ Len(body'[name']) \in Nat
      BY NamedStarts
    <3> QED
      BY <2>2, <3>1, NamedStarts
  <2> QED
    BY <1>1, <2>2, <2>3, <2>4 DEF seal
<1>2. CASE Seal /\ seals'[j] = WholeLines(name)
  <2>1. body' = body /\ name' = name /\ body[name] \in Seq(Decision)
    BY <1>2, NamedStarts DEF Seal, queueFiles
  <2>2. SubSeq(body[name], 1, Len(body[name])) = body[name] /\ Len(body[name]) \in Nat
    BY <2>1, WholeFile
  <2> QED
    BY <1>2, <2>1, <2>2 DEF WholeLines
<1>3. seals' = seals \/ Seal
  BY DEF QueueNext, queueVars, Orchestrates, Decides, AddItem, Spawn, SessionOver,
     WriterDies, Reopen, OpenDecisions, LockDecisions, WaitsTooLong, Refuse, ReadDecisions,
     BeginLine, PartLine, EndLine, DeciderDies, Replace
<1>4. CASE Seal
  <2>1. seals' = Append(seals, WholeLines(name))
    BY <1>4 DEF Seal
  <2>2. \/ j \in DOMAIN seals /\ seals'[j] = seals[j]
        \/ seals'[j] = WholeLines(name)
    BY <1>t, <2>1
  <2> QED
    BY <1>1, <1>2, <1>4, <2>2
<1> QED
  BY <1>1, <1>3, <1>4

-----------------------------------------------------------------------------
\* Everything holds of an empty queue.
LEMMA QueueInvInit == QueueInit => QueueInv
<1> SUFFICES ASSUME QueueInit PROVE QueueInv
  OBVIOUS
<1>1. \A n \in Inode : body[n] = <<>>
  BY DEF QueueInit
<1>2. \A d \in Decider : dec[d].pc = "idle"
  BY DEF QueueInit, Idle
<1>3. DecidedOnce
  BY <1>1 DEF DecidedOnce, Follows, ItemsOf
<1>4. HoldsLock /\ OpensNamed /\ KnowsTrue
  BY <1>2 DEF QueueInit, HoldsLock, OpensNamed, KnowsTrue
<1>5. AckKept /\ SealsStart
  BY DEF QueueInit, AckKept, SealsStart
<1> QED
  BY <1>3, <1>4, <1>5, TypeInit DEF QueueInv

LEMMA QueueInvStep == QueueInv /\ [QueueNext]_queueVars => QueueInv'
BY TypeStep, HoldsStep, OpensStep, KnowsStep, OnceStep, AckStep, SealsStep DEF QueueInv

LEMMA QueueInvCorrect == QueueSpec => []QueueInv
BY QueueInvInit, QueueInvStep, PTL DEF QueueSpec

\* Every variable keeps its type, whoever dies where (record_decision, ApprovalQueue).
THEOREM QueueTypes == QueueSpec => []QueueTypeOK
<1>1. QueueInv => QueueTypeOK
  BY DEF QueueInv
<1> QED
  BY <1>1, QueueInvCorrect, PTL

\* An item is decided once in every file the name has had, however many decide at
\* once, die inside a write, or find the file replaced (record_decision, _decide).
THEOREM ItemsDecidedOnce == QueueSpec => []DecidedOnce
<1>1. QueueInv => DecidedOnce
  BY DEF QueueInv
<1> QED
  BY <1>1, QueueInvCorrect, PTL

\* A decision that returned is never cut by a later decider (record_decision).
THEOREM DecisionsStay == QueueSpec => []AckKept
<1>1. QueueInv => AckKept
  BY DEF QueueInv
<1> QED
  BY <1>1, QueueInvCorrect, PTL

\* What a session started beside stays the start of the decisions file, torn
\* lines and their cutting included (_decisions_bytes, _decisions_as_sealed).
THEOREM SealedDecisionsStand == QueueSpec => []SealsStand
<1>1. QueueInv => SealsStand
  <2> SUFFICES ASSUME QueueInv, NEW j \in DOMAIN seals
               PROVE  /\ seals[j].size <= Size(name)
                      /\ Len(seals[j].lines) <= Len(body[name])
                      /\ SubSeq(body[name], 1, Len(seals[j].lines)) = seals[j].lines
    BY DEF SealsStand, AsSealed
  <2>1. seals[j] \in [lines : Seq(Decision), size : Nat] /\ body[name] \in Seq(Decision)
    <3>1. seals \in Seq([lines : Seq(Decision), size : Nat]) /\ body[name] \in Seq(Decision)
      BY DEF QueueInv, QueueTypeOK
    <3> QED
      BY <3>1, InSeq
  <2>2. Len(seals[j].lines) \in Nat /\ Len(body[name]) \in Nat
    BY <2>1
  <2>3. /\ seals[j].size = LineBytes * Len(seals[j].lines)
        /\ Len(seals[j].lines) <= Len(body[name])
        /\ SubSeq(body[name], 1, Len(seals[j].lines)) = seals[j].lines
    BY DEF QueueInv, SealsStart
  <2>4. \E t \in {0, 1} : Size(name) = LineBytes * Len(body[name]) + t
    <3>1. CASE tail[name]
      BY <3>1 DEF Size, TornBytes
    <3>2. CASE ~tail[name]
      BY <3>2 DEF Size
    <3> QED
      BY <3>1, <3>2
  <2> QED
    BY <2>2, <2>3, <2>4 DEF LineBytes
<1> QED
  BY <1>1, QueueInvCorrect, PTL

-----------------------------------------------------------------------------
(* The abstract queue.                                                     *)

\* The files a run starts with are the queue with nothing in it.
LEMMA QueueStarts == QueueInit => Decided!Init
<1> SUFFICES ASSUME QueueInit PROVE Decided!Init
  OBVIOUS
<1>1. body[name] = <<>>
  BY QueueAssumption DEF QueueInit, Inode
<1> QED
  BY <1>1 DEF QueueInit, Decided!Init

\* Every step of a writer, a decider or whatever replaces the file lists an item,
\* decides one that is open, or is no step of the queue at all.
LEMMA QueueImplements == QueueInv /\ [QueueNext]_queueVars => [Decided!Next]_Decided!vars
<1> SUFFICES ASSUME QueueInv, [QueueNext]_queueVars PROVE [Decided!Next]_Decided!vars
  OBVIOUS
<1>t. body \in [Inode -> Seq(Decision)] /\ name \in Inode
  BY DEF QueueInv, QueueTypeOK
<1>1. CASE AddItem
  <2>1. PICK i \in Item \ Listed : items' = Append(items, i)
    BY <1>1 DEF AddItem
  <2>2. body'[name'] = body[name]
    BY <1>1 DEF AddItem
  <2>3. Decided!List(i)
    BY <2>1, <2>2 DEF Decided!List, Decided!IsListed, Listed
  <2> QED
    BY <2>1, <2>3 DEF Decided!Next
<1>2. ASSUME NEW d \in Decider, EndLine(d), dec[d].ino = name
      PROVE  Decided!Next
  <2>1. dec[d].item \in Item /\ dec[d].item \in Listed /\ dec[d].item \notin ItemsOf(body[name])
    BY <1>2, WriterKnows DEF EndLine
  <2>2. body'[name'] = Append(body[name], [item |-> dec[d].item, by |-> d]) /\ items' = items
    BY <1>2, <1>t DEF EndLine
  <2>3. Decided!Decide(d, dec[d].item)
    BY <2>1, <2>2 DEF Decided!Decide, Decided!IsListed, Decided!IsDecided, Listed, ItemsOf
  <2> QED
    BY <2>1, <2>3 DEF Decided!Next
<1>3. ASSUME ~AddItem, ~\E d \in Decider : EndLine(d) /\ dec[d].ino = name
      PROVE  UNCHANGED Decided!vars
  <2>1. items' = items
    BY <1>3 DEF QueueNext, queueVars, queueFiles, Orchestrates, Decides, Spawn, Seal, SessionOver,
       WriterDies, Reopen, OpenDecisions, LockDecisions, WaitsTooLong, Refuse, ReadDecisions,
       BeginLine, PartLine, EndLine, DeciderDies, Replace
  <2>2. body'[name'] = body[name]
    <3>1. CASE Copies
      BY <1>t, <3>1 DEF Copies
    <3>2. ASSUME NEW d \in Decider, EndLine(d), Writes(d, dec[d].ino), name' = name
          PROVE  body'[name'] = body[name]
      BY <1>t, <1>3, <3>2 DEF Writes
    <3> QED
      BY <3>1, <3>2, BodySteps
  <2> QED
    BY <2>1, <2>2 DEF Decided!vars
<1> QED
  BY <1>1, <1>2, <1>3

\* Two append-only files, a lock on an inode and deciders that die implement a list
\* of items each decided at most once, by one person (record_decision).
THEOREM QueueImplementsDecisions == QueueSpec => DecidedSpec
<1>1. QueueSpec => Decided!Init /\ [][Decided!Next]_Decided!vars
  BY QueueStarts, QueueImplements, QueueInvCorrect, PTL DEF QueueSpec
<1> QED
  BY <1>1 DEF DecidedSpec, Decided!Spec
=============================================================================
