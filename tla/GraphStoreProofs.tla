-------------------------- MODULE GraphStoreProofs --------------------------
(***************************************************************************)
(* Proofs about the design-state store, for any number of handles, nodes,  *)
(* roles and payloads. The type invariant, and that a handle only ever     *)
(* builds on lines recovery would accept, hold of every instance. The rest *)
(* is proved where processes take turns and a handle whose write raised is *)
(* only closed; the runs store_overlap and store_retry show that these     *)
(* conditions are needed. Then what a handle answers is current and what   *)
(* was stored is kept, whatever else appends lines or changes files;       *)
(* reads and the write guard are right if nothing else changes a node      *)
(* file, and the journal stays coherent if nothing else appends to it.     *)
(* With neither, the store implements VersionedGraph.                      *)
(***************************************************************************)
EXTENDS GraphStore, SequenceTheorems, TLAPS

\* One handle is inside an operation at a time, and one whose write raised is only closed.
TakesTurns == ~Overlap /\ IoErrors # "retry"

\* Nor does anything else write the directory.
Alone == TakesTurns /\ ForeignLine = {} /\ ForeignFile = {}

-----------------------------------------------------------------------------
(* Types.                                                                  *)

\* A handle inside an append or a replace holds the line it goes on with.
Ready == [op : {"append"}, line : Line, actor : Role \cup {Nobody}]
Held == {m \in Memory : m.phase \in {"appending", "materialising"} => m.pend \in Ready}

TypeInv == TypeOK /\ \A h \in Handle : mem[h] \in Held

\* A line appended to lines leaves lines, whatever was buffered or cut short.
LEMMA FlushedType ==
  ASSUME TypeOK, NEW h \in Handle, NEW line \in Line
  PROVE  Flushed(h, line) \in Seq(Line)
<1>1. Spoilt(line) \in Line
  BY DEF Line, Spoilt
<1>2. Landed(line) \in Seq(Line)
  BY <1>1 DEF TypeOK, Landed
<1>3. mem[h].resid \in Seq(Line)
  BY DEF TypeOK, Memory
<1> QED
  BY <1>2, <1>3 DEF TypeOK, Flushed

\* The file a line calls for is a node file.
LEMMA FileOfType == ASSUME NEW line \in Line PROVE FileOf(line) \in NodeFile
BY DEF Line, NodeFile, FileOf

\* A handle with nothing open is a handle.
LEMMA ClosedType == Closed \in Held /\ Closed \in Memory /\ NoWrite \in Pend
<1>1. NoWrite \in Pend
  BY DEF Pend
<1>2. <<0, FALSE>> \in Nat \X BOOLEAN
  OBVIOUS
<1>3. << >> \in Seq(Line)
  OBVIOUS
<1> QED
  BY <1>1, <1>2, <1>3 DEF Closed, Memory, Held

\* A step that gives one handle a well-formed memory keeps them all so.
LEMMA BecomesType ==
  ASSUME TypeInv, NEW h \in Handle, NEW m \in Held, Becomes(h, m)
  PROVE  mem' \in [Handle -> Memory] /\ \A g \in Handle : mem'[g] \in Held
<1>1. m \in Memory
  BY DEF Held
<1>2. mem \in [Handle -> Memory] /\ \A g \in Handle : mem[g] \in Held
  BY DEF TypeInv, TypeOK
<1> QED
  BY <1>1, <1>2 DEF Becomes

\* Closing, in whatever way, leaves well-formed memories.
LEMMA ClosesType ==
  ASSUME TypeInv, NEW h \in Handle, Becomes(h, Closed)
  PROVE  mem' \in [Handle -> Memory] /\ \A g \in Handle : mem'[g] \in Held
BY ClosedType, BecomesType

\* The memory of a handle on its way into an append.
LEMMA BeginType ==
  ASSUME TypeInv, NEW h \in Handle, NEW op \in {"create", "write", "rollback"},
         NEW n \in Node, NEW version \in Nat, NEW p \in Payload,
         NEW actor \in Role \cup {Nobody}, Begin(h, op, n, version, p, actor)
  PROVE  mem' \in [Handle -> Memory] /\ \A g \in Handle : mem'[g] \in Held
<1> DEFINE line == [rev |-> Len(mem[h].view) + 1, op |-> op, node |-> n,
                    version |-> version, payload |-> p]
           pend == [op |-> "append", line |-> line, actor |-> actor]
           m == [mem[h] EXCEPT !.phase = "appending", !.pend = pend]
<1>1. mem[h] \in Memory /\ Len(mem[h].view) \in Nat
  BY DEF TypeInv, TypeOK, Memory
<1>2. line \in Line
  BY <1>1 DEF Line
<1>3. pend \in Ready /\ pend \in Pend
  BY <1>2 DEF Ready, Pend
<1> HIDE DEF pend
<1>4. m \in Memory
  BY <1>1, <1>3 DEF Memory
<1>5. m.pend = pend
  BY <1>1 DEF Memory
<1> HIDE DEF m
<1>6. m \in Held
  BY <1>3, <1>4, <1>5 DEF Held
<1>7. Becomes(h, m)
  BY DEF Begin, m, pend
<1> QED
  BY <1>6, <1>7, BecomesType

\* The lines a handle holds are lines.
LEMMA MemoryType ==
  ASSUME TypeOK, NEW h \in Handle
  PROVE  /\ mem[h] \in Memory
         /\ mem[h].view \in Seq(Line) /\ mem[h].resid \in Seq(Line)
BY DEF TypeOK, Memory

\* The fields of a line of a sequence of lines.
LEMMA LineFields ==
  ASSUME NEW J \in Seq(Line), NEW i \in 1..Len(J)
  PROVE  /\ J[i] \in Line /\ J[i].rev \in Nat /\ J[i].version \in Nat
         /\ J[i].node \in Node /\ J[i].payload \in Payload
<1>1. J[i] \in Line
  OBVIOUS
<1> QED
  BY <1>1 DEF Line

\* Init and every step keep the types.
LEMMA TypeInit == Init => TypeInv
<1> SUFFICES ASSUME Init PROVE TypeInv
  OBVIOUS
<1>1. << >> \in Seq(Line)
  OBVIOUS
<1>2. mem \in [Handle -> Memory] /\ \A h \in Handle : mem[h] \in Held
  BY ClosedType DEF Init
<1>3. files \in [Node -> NodeFile \cup {NoFile}]
  BY DEF Init
<1> QED
  BY <1>1, <1>2, <1>3 DEF Init, TypeOK, TypeInv

LEMMA TypeStep == TypeInv /\ [Next]_vars => TypeInv'
<1> SUFFICES ASSUME TypeInv, [Next]_vars PROVE TypeInv'
  OBVIOUS
<1>0. TypeOK
  BY DEF TypeInv
<1>a. ASSUME NEW h \in Handle
      PROVE  /\ mem[h] \in Memory /\ mem[h] \in Held
             /\ mem[h].view \in Seq(Line) /\ mem[h].resid \in Seq(Line)
  BY MemoryType DEF TypeInv
<1>1. ASSUME NEW h \in Handle, NEW lenient \in BOOLEAN, Open(h, lenient)
      PROVE  TypeInv'
  <2> DEFINE m == [Closed EXCEPT !.phase = "repairing", !.lenient = lenient,
                                 !.view = journal']
  <2>1. PICK k \in 0..Len(journal) : journal' = SubSeq(journal, 1, k)
    BY <1>1 DEF Open
  <2>2. journal' \in Seq(Line)
    BY <2>1, <1>0 DEF TypeOK
  <2>3. m \in Held
    BY <2>2, ClosedType DEF Memory, Held, Closed
  <2>4. Becomes(h, m)
    BY <1>1 DEF Open
  <2> QED
    BY <1>0, <1>1, <2>2, <2>3, <2>4, BecomesType DEF Open, TypeOK, TypeInv
<1>2. ASSUME NEW h \in Handle, NEW n \in Node, RepairFile(h, n)
      PROVE  TypeInv'
  <2>1. PICK i \in 1..Len(mem[h].view) : files' = [files EXCEPT ![n] = FileOf(mem[h].view[i])]
    BY <1>2 DEF RepairFile
  <2>2. mem[h].view[i] \in Line
    BY <2>1, <1>a DEF Memory
  <2>3. files' \in [Node -> NodeFile \cup {NoFile}]
    BY <1>0, <2>1, <2>2, FileOfType DEF TypeOK
  <2> QED
    BY <1>0, <1>2, <2>3 DEF RepairFile, TypeOK, TypeInv
<1>3. ASSUME NEW h \in Handle, FinishOpen(h)
      PROVE  TypeInv'
  <2> DEFINE m == [mem[h] EXCEPT !.phase = "open", !.size = DiskSize]
  <2>1. DiskSize \in Nat \X BOOLEAN
    BY <1>0 DEF DiskSize, TypeOK
  <2>2. m \in Held
    BY <1>a, <2>1 DEF Memory, Held
  <2>3. mem' \in [Handle -> Memory] /\ \A g \in Handle : mem'[g] \in Held
    BY <1>3, <2>2, BecomesType, ClosesType DEF FinishOpen
  <2>4. files' \in [Node -> NodeFile \cup {NoFile}]
    BY <1>0, <1>3 DEF FinishOpen, TypeOK
  <2> QED
    BY <1>0, <1>3, <2>3, <2>4 DEF FinishOpen, TypeOK, TypeInv
<1>4. ASSUME NEW h \in Handle, NEW n \in Node, NEW p \in Payload, NEW r \in Role,
             BeginWrite(h, n, p, r)
      PROVE  TypeInv'
  <2>1. CASE Begin(h, "create", n, 1, p, r)
    BY <1>0, <1>4, <2>1, BeginType DEF BeginWrite, TypeOK, TypeInv
  <2>2. ASSUME NEW i \in 1..Len(mem[h].view),
               Begin(h, "write", n, mem[h].view[i].version + 1, p, r)
        PROVE  TypeInv'
    <3>1. mem[h].view[i].version + 1 \in Nat
      BY <1>a, LineFields
    <3> QED
      BY <1>0, <1>4, <2>2, <3>1, BeginType DEF BeginWrite, TypeOK, TypeInv
  <2> QED
    BY <1>4, <2>1, <2>2 DEF BeginWrite
<1>5. ASSUME NEW h \in Handle, NEW to \in 1..Len(mem[h].view), BeginRollback(h, to)
      PROVE  TypeInv'
  <2>1. PICK i \in 1..Len(mem[h].view) :
          Begin(h, "rollback", mem[h].view[to].node, mem[h].view[i].version + 1,
                mem[h].view[to].payload, Nobody)
    BY <1>5 DEF BeginRollback
  <2>2. /\ mem[h].view[i].version + 1 \in Nat
        /\ mem[h].view[to].node \in Node /\ mem[h].view[to].payload \in Payload
    BY <1>a, LineFields
  <2> QED
    BY <1>0, <1>5, <2>1, <2>2, BeginType DEF BeginRollback, TypeOK, TypeInv
<1>6. ASSUME NEW h \in Handle, AppendLine(h)
      PROVE  TypeInv'
  <2> DEFINE line == mem[h].pend.line
             m == [mem[h] EXCEPT !.phase = "materialising", !.resid = << >>,
                                 !.view = Append(@, line),
                                 !.size = <<Len(journal'), FALSE>>]
  <2>1. mem[h].pend \in Ready /\ line \in Line
    BY <1>6, <1>a DEF AppendLine, Held, Ready
  <2>2. journal' \in Seq(Line)
    BY <1>0, <1>6, <2>1, FlushedType DEF AppendLine
  <2> HIDE DEF line
  <2>3. Append(mem[h].view, line) \in Seq(Line) /\ << >> \in Seq(Line)
    BY <1>a, <2>1
  <2>4. m \in Held
    <3>1. Len(journal') \in Nat
      BY <2>2
    <3> DEFINE size == <<Len(journal'), FALSE>>
    <3>2. size \in Nat \X BOOLEAN
      BY <3>1
    <3> HIDE DEF size
    <3> QED
      BY <1>a, <2>1, <2>3, <3>2 DEF Memory, Held, size
  <2>5. Becomes(h, m)
    BY <1>6 DEF AppendLine, line
  <2>6. [line |-> line, actor |-> mem[h].pend.actor] \in [line : Line, actor : Role \cup {Nobody}]
    BY <2>1 DEF Ready
  <2> QED
    BY <1>0, <1>6, <2>2, <2>4, <2>5, <2>6, BecomesType DEF AppendLine, TypeOK, TypeInv, line
<1>7. ASSUME NEW h \in Handle, AppendFails(h)
      PROVE  TypeInv'
  <2> DEFINE m(r) == [mem[h] EXCEPT !.phase = AfterError, !.pend = NoWrite, !.resid = r]
  <2>1. mem[h].pend.line \in Line
    BY <1>7, <1>a DEF AppendFails, Held, Ready
  <2>2. ASSUME NEW r \in Seq(Line) PROVE m(r) \in Held
    BY <1>a, <2>2, ClosedType DEF Memory, Held, AfterError
  <2>3. Append(mem[h].resid, mem[h].pend.line) \in Seq(Line) /\ << >> \in Seq(Line)
    BY <1>a, <2>1 DEF Memory
  <2>4. mem' \in [Handle -> Memory] /\ \A g \in Handle : mem'[g] \in Held
    BY <1>7, <2>2, <2>3, BecomesType DEF AppendFails
  <2>5. journal' \in Seq(Line) /\ torn' \in BOOLEAN
    BY <1>0, <1>7, <2>1, FlushedType DEF AppendFails, TypeOK
  <2> QED
    BY <1>0, <1>7, <2>4, <2>5 DEF AppendFails, TypeOK, TypeInv
<1>8. ASSUME NEW h \in Handle, Materialise(h)
      PROVE  TypeInv'
  <2>1. mem[h].pend.line \in Line
    BY <1>8, <1>a DEF Materialise, Held, Ready
  <2>2. files' \in [Node -> NodeFile \cup {NoFile}]
    BY <1>0, <1>8, <2>1, FileOfType DEF Materialise, TypeOK
  <2>3. [mem[h] EXCEPT !.phase = "open", !.pend = NoWrite] \in Held
    BY <1>a, ClosedType DEF Memory, Held
  <2> QED
    BY <1>0, <1>8, <2>2, <2>3, BecomesType DEF Materialise, TypeOK, TypeInv
<1>9. ASSUME NEW h \in Handle, MaterialiseFails(h)
      PROVE  TypeInv'
  <2>1. [mem[h] EXCEPT !.phase = AfterError, !.pend = NoWrite] \in Held
    BY <1>a, ClosedType DEF Memory, Held, AfterError
  <2> QED
    BY <1>0, <1>9, <2>1, BecomesType DEF MaterialiseFails, TypeOK, TypeInv
<1>10. ASSUME NEW h \in Handle, Close(h)
       PROVE  TypeInv'
  <2>1. journal' \in Seq(Line) /\ torn' \in BOOLEAN
    BY <1>0, <1>a, <1>10 DEF Close, TypeOK, Memory
  <2> QED
    BY <1>0, <1>10, <2>1, ClosesType DEF Close, TypeOK, TypeInv
<1>11. ASSUME NEW h \in Handle, Crash(h)
       PROVE  TypeInv'
  <2>1. mem[h].phase = "appending" => mem[h].pend.line \in Line
    BY <1>a DEF Held, Ready
  <2>2. journal' \in Seq(Line) /\ torn' \in BOOLEAN
    BY <1>0, <1>11, <2>1, FlushedType DEF Crash, TypeOK
  <2> QED
    BY <1>0, <1>11, <2>2, ClosesType DEF Crash, TypeOK, TypeInv
<1>12. ASSUME NEW line \in ForeignLine, ForeignAppend(line)
       PROVE  TypeInv'
  <2>1. line \in Line
    BY ForeignAssumption
  <2>2. journal' \in Seq(Line)
    BY <1>0, <1>12, <2>1 DEF ForeignAppend, Landed, Spoilt, Line, TypeOK
  <2> QED
    BY <1>0, <1>12, <2>2 DEF ForeignAppend, TypeOK, TypeInv
<1>13. ASSUME NEW n \in Node, NEW file \in ForeignFile, ForeignEdit(n, file)
       PROVE  TypeInv'
  BY <1>0, <1>13, ForeignAssumption DEF ForeignEdit, TypeOK, TypeInv
<1>14. CASE UNCHANGED vars
  BY <1>14 DEF vars, TypeOK, TypeInv
<1> QED
  BY <1>1, <1>2, <1>3, <1>4, <1>5, <1>6, <1>7, <1>8, <1>9, <1>10, <1>11, <1>12,
     <1>13, <1>14 DEF Next

\* Type correctness of the store, whatever acts on its directory.
THEOREM TypeCorrect == Spec => []TypeOK
<1>1. TypeInv => TypeOK
  BY DEF TypeInv
<1> QED
  BY <1>1, TypeInit, TypeStep, PTL DEF Spec
-----------------------------------------------------------------------------
(* The rules a line was written under.                                      *)

RewriteOk(J, i) ==
  J[i].op = "write" =>
    \A j \in 1 .. i - 1 : IsLast(J, j, J[i].node, i - 1) => J[j].payload \notin Interface

OwnerOk(J, i, actor) ==
  actor # Nobody =>
    /\ Unseen(J, J[i].node, i - 1) => actor = OwnerOf[J[i].payload]
    /\ \A j \in 1 .. i - 1 : IsLast(J, j, J[i].node, i - 1) =>
                               actor = OwnerOf[J[j].payload]

\* What makes line i good is decided by the lines up to it.
LEMMA SamePrefix ==
  ASSUME NEW J \in Seq(Line), NEW K \in Seq(Line), NEW i \in 1..Len(J), i <= Len(K),
         \A j \in 1..i : J[j] = K[j], NEW actor
  PROVE  /\ LineOk(J, i) => LineOk(K, i)
         /\ RewriteOk(J, i) => RewriteOk(K, i)
         /\ OwnerOk(J, i, actor) => OwnerOk(K, i, actor)
<1>1. i \in Nat /\ i - 1 \in Int /\ J[i] = K[i] /\ \A j \in 1 .. i - 1 : J[j] = K[j]
  OBVIOUS
<1>2. \A n : Unseen(J, n, i - 1) <=> Unseen(K, n, i - 1)
  BY <1>1 DEF Unseen
<1>3. \A n, j : IsLast(J, j, n, i - 1) <=> IsLast(K, j, n, i - 1)
  <2> SUFFICES ASSUME NEW n, NEW j \in 1 .. i - 1
               PROVE  IsLast(J, j, n, i - 1) <=> IsLast(K, j, n, i - 1)
    BY DEF IsLast
  <2>1. \A l \in j + 1 .. i - 1 : J[l] = K[l]
    BY <1>1
  <2>2. J[j] = K[j]
    BY <1>1
  <2> QED
    BY <2>1, <2>2 DEF IsLast
<1>4. LineOk(J, i) => LineOk(K, i)
  BY <1>1, <1>2, <1>3 DEF LineOk
<1>5. RewriteOk(J, i) => RewriteOk(K, i)
  BY <1>1, <1>2, <1>3 DEF RewriteOk
<1>6. OwnerOk(J, i, actor) => OwnerOk(K, i, actor)
  BY <1>1, <1>2, <1>3 DEF OwnerOk
<1> QED
  BY <1>4, <1>5, <1>6

-----------------------------------------------------------------------------
(* What the views of a handle are, whatever else acts on the directory.    *)

\* A line after coherent lines that is well placed after them.
LEMMA AppendCoherent ==
  ASSUME NEW J \in Seq(Line), NEW line \in Line, Coherent(J),
         LineOk(Append(J, line), Len(J) + 1)
  PROVE  Coherent(Append(J, line))
<1> DEFINE K == Append(J, line)
<1>1. K \in Seq(Line) /\ Len(K) = Len(J) + 1 /\ Len(J) \in Nat
  OBVIOUS
<1>2. \A i \in 1..Len(J) : K[i] = J[i]
  OBVIOUS
<1> SUFFICES ASSUME NEW i \in 1..Len(K) PROVE LineOk(K, i)
  BY DEF Coherent
<1> HIDE DEF K
<1>3. CASE i \in 1..Len(J)
  <2>1. \A j \in 1..i : J[j] = K[j]
    BY <1>1, <1>2, <1>3
  <2>2. i <= Len(K)
    BY <1>1, <1>3
  <2> QED
    BY <1>1, <1>3, <2>1, <2>2, SamePrefix DEF Coherent
<1>4. CASE i = Len(J) + 1
  BY <1>4 DEF K
<1> QED
  BY <1>1, <1>3, <1>4

\* The line a handle goes on with is well placed after the lines it knows: the
\* indexes are built from those lines, whatever the node files say.
LEMMA IndexedLineOk ==
  ASSUME NEW J \in Seq(Line), NEW line \in Line, line.rev = Len(J) + 1,
         \/ /\ Unseen(J, line.node, Len(J)) /\ line.op = "create" /\ line.version = 1
         \/ \E i \in 1..Len(J) :
              /\ IsLast(J, i, line.node, Len(J)) /\ line.version = J[i].version + 1
              /\ \/ line.op = "write"
                 \/ /\ line.op = "rollback"
                    /\ \E to \in 1..Len(J) : /\ J[to].node = line.node
                                             /\ J[to].payload = line.payload
  PROVE  LineOk(Append(J, line), Len(J) + 1)
<1> DEFINE K == Append(J, line)
<1>1. K[Len(J) + 1] = line /\ Len(J) \in Nat /\ Len(J) + 1 - 1 = Len(J)
  OBVIOUS
<1>2. \A j \in 1..Len(J) : K[j] = J[j]
  OBVIOUS
<1> HIDE DEF K
<1>3. Unseen(K, line.node, Len(J)) <=> Unseen(J, line.node, Len(J))
  BY <1>1, <1>2 DEF Unseen
<1>4. \A j : IsLast(K, j, line.node, Len(J)) <=> IsLast(J, j, line.node, Len(J))
  BY <1>1, <1>2 DEF IsLast
<1>5. ASSUME NEW i \in 1..Len(J), IsLast(J, i, line.node, Len(J))
      PROVE  ~Unseen(J, line.node, Len(J))
  BY <1>5 DEF IsLast, Unseen
<1> QED
  BY <1>1, <1>2, <1>3, <1>4, <1>5 DEF LineOk, K

\* A handle's view is coherent, and so is the view with the line it is writing.
ViewOk(m) == /\ Coherent(m.view)
             /\ m.phase = "appending" => Coherent(Append(m.view, m.pend.line))

ViewsInv == \A h \in Handle : ViewOk(mem[h])

\* A step that gives one handle a coherent view keeps them all so.
LEMMA ViewsStep ==
  ASSUME TypeInv, ViewsInv, NEW h \in Handle, NEW m, Becomes(h, m), ViewOk(m)
  PROVE  ViewsInv'
<1>1. mem \in [Handle -> Memory]
  BY DEF TypeInv, TypeOK
<1>2. mem'[h] = m /\ \A g \in Handle : g # h => mem'[g] = mem[g]
  BY <1>1 DEF Becomes
<1>3. \A g \in Handle : ViewOk(mem'[g])
  BY <1>2 DEF ViewsInv
<1> QED
  BY <1>3 DEF ViewsInv, ViewOk, Coherent, LineOk, Unseen, IsLast

\* Where replay stops, what it read is coherent.
LEMMA ReplayCoherent ==
  ASSUME NEW J \in Seq(Line), NEW k \in 0..Len(J), ReplayStops(J, k)
  PROVE  SubSeq(J, 1, k) \in Seq(Line) /\ Coherent(SubSeq(J, 1, k))
<1> DEFINE K == SubSeq(J, 1, k)
<1>1. K \in Seq(Line) /\ Len(K) = k /\ k <= Len(J)
  OBVIOUS
<1>2. \A i \in 1..k : K[i] = J[i]
  OBVIOUS
<1> HIDE DEF K
<1>3. ASSUME NEW i \in 1..Len(K) PROVE LineOk(K, i)
  <2>1. i \in 1..Len(J) /\ i <= Len(K) /\ \A j \in 1..i : J[j] = K[j]
    BY <1>1, <1>2, <1>3
  <2>2. LineOk(J, i)
    BY <1>1, <1>3 DEF ReplayStops
  <2> QED
    BY <1>1, <2>1, <2>2, SamePrefix
<1>4. Coherent(K)
  BY <1>3 DEF Coherent
<1> QED
  BY <1>1, <1>4 DEF K

\* A handle that goes into an append from a coherent view.
LEMMA BeginViews ==
  ASSUME TypeInv, ViewsInv, NEW h \in Handle, NEW op \in {"create", "write", "rollback"},
         NEW n \in Node, NEW version \in Nat, NEW p \in Payload,
         NEW actor \in Role \cup {Nobody}, Begin(h, op, n, version, p, actor),
         \/ Unseen(mem[h].view, n, Len(mem[h].view)) /\ op = "create" /\ version = 1
         \/ \E i \in 1..Len(mem[h].view) :
              /\ IsLast(mem[h].view, i, n, Len(mem[h].view))
              /\ version = mem[h].view[i].version + 1
              /\ \/ op = "write"
                 \/ /\ op = "rollback"
                    /\ \E to \in 1..Len(mem[h].view) : /\ mem[h].view[to].node = n
                                                       /\ mem[h].view[to].payload = p
  PROVE  ViewsInv'
<1> DEFINE J == mem[h].view
           line == [rev |-> Len(J) + 1, op |-> op, node |-> n,
                    version |-> version, payload |-> p]
           pend == [op |-> "append", line |-> line, actor |-> actor]
           m == [mem[h] EXCEPT !.phase = "appending", !.pend = pend]
<1>1. mem[h] \in Memory /\ J \in Seq(Line) /\ Len(J) \in Nat
  BY MemoryType DEF TypeInv
<1>2. line \in Line /\ line.rev = Len(J) + 1 /\ line.op = op /\ line.node = n
      /\ line.version = version /\ line.payload = p
  BY <1>1 DEF Line
<1>3. Becomes(h, m)
  BY DEF Begin
<1>4. pend.line = line
  OBVIOUS
<1> HIDE DEF pend, line
<1>5. m.view = J /\ m.pend = pend
  BY <1>1 DEF Memory
<1>6. Coherent(J)
  BY DEF ViewsInv, ViewOk
<1> HIDE DEF J, m
<1>7. LineOk(Append(J, line), Len(J) + 1)
  BY <1>1, <1>2, IndexedLineOk DEF J
<1>8. Coherent(Append(J, line))
  BY <1>1, <1>2, <1>6, <1>7, AppendCoherent
<1>9. ViewOk(m)
  BY <1>4, <1>5, <1>6, <1>8 DEF ViewOk
<1> QED
  BY <1>3, <1>9, ViewsStep

LEMMA ViewsInvStep == ASSUME TypeInv, ViewsInv, [Next]_vars PROVE ViewsInv'
<1>0. TypeOK
  BY DEF TypeInv
<1>a. ASSUME NEW h \in Handle
      PROVE  /\ mem[h] \in Memory /\ mem[h].view \in Seq(Line) /\ Coherent(mem[h].view)
  BY <1>0, MemoryType DEF ViewsInv, ViewOk
<1>b. ViewOk(Closed)
  BY DEF ViewOk, Closed, Coherent
<1>c. ASSUME mem' = mem PROVE ViewsInv'
  BY <1>c DEF ViewsInv, ViewOk
<1>d. ASSUME NEW h \in Handle, NEW m \in Memory, Becomes(h, m), m.view = mem[h].view,
             m.phase # "appending"
      PROVE  ViewsInv'
  <2>1. ViewOk(m)
    BY <1>a, <1>d DEF ViewOk
  <2> QED
    BY <1>d, <2>1, ViewsStep
<1>e. AfterError # "appending"
  BY DEF AfterError
<1>1. ASSUME NEW h \in Handle, NEW lenient \in BOOLEAN, Open(h, lenient)
      PROVE  ViewsInv'
  <2> DEFINE m == [Closed EXCEPT !.phase = "repairing", !.lenient = lenient,
                                 !.view = journal']
  <2>1. journal' \in Seq(Line) /\ Coherent(journal')
    BY <1>0, <1>1, ReplayCoherent DEF Open, TypeOK
  <2>2. m.phase = "repairing" /\ m.view = journal' /\ Becomes(h, m)
    BY <1>1 DEF Open, Closed
  <2> HIDE DEF m
  <2>3. ViewOk(m)
    BY <2>1, <2>2 DEF ViewOk
  <2> QED
    BY <2>2, <2>3, ViewsStep
<1>2. ASSUME NEW h \in Handle, FinishOpen(h)
      PROVE  ViewsInv'
  <2> DEFINE m == [mem[h] EXCEPT !.phase = "open", !.size = DiskSize]
  <2>1. DiskSize \in Nat \X BOOLEAN
    BY <1>0 DEF DiskSize, TypeOK
  <2>2. m \in Memory /\ m.view = mem[h].view /\ m.phase = "open"
    BY <1>a, <2>1 DEF Memory
  <2>3. Becomes(h, m) \/ Becomes(h, Closed)
    BY <1>2 DEF FinishOpen
  <2> HIDE DEF m
  <2> QED
    BY <1>b, <1>d, <2>2, <2>3, ViewsStep
<1>3. ASSUME NEW h \in Handle, NEW n \in Node, NEW p \in Payload, NEW r \in Role,
             BeginWrite(h, n, p, r)
      PROVE  ViewsInv'
  <2>1. CASE /\ Unseen(mem[h].view, n, Len(mem[h].view))
             /\ Begin(h, "create", n, 1, p, r)
    BY <2>1, BeginViews
  <2>2. ASSUME NEW i \in 1..Len(mem[h].view),
               IsLast(mem[h].view, i, n, Len(mem[h].view)),
               Begin(h, "write", n, mem[h].view[i].version + 1, p, r)
        PROVE  ViewsInv'
    <3>1. mem[h].view[i].version + 1 \in Nat
      BY <1>a, LineFields
    <3> QED
      BY <2>2, <3>1, BeginViews
  <2> QED
    BY <1>3, <2>1, <2>2 DEF BeginWrite
<1>4. ASSUME NEW h \in Handle, NEW to \in 1..Len(mem[h].view), BeginRollback(h, to)
      PROVE  ViewsInv'
  <2>1. PICK i \in 1..Len(mem[h].view) :
          /\ IsLast(mem[h].view, i, mem[h].view[to].node, Len(mem[h].view))
          /\ Begin(h, "rollback", mem[h].view[to].node, mem[h].view[i].version + 1,
                   mem[h].view[to].payload, Nobody)
    BY <1>4 DEF BeginRollback
  <2>2. /\ mem[h].view[i].version + 1 \in Nat
        /\ mem[h].view[to].node \in Node /\ mem[h].view[to].payload \in Payload
    BY <1>a, LineFields
  <2> QED
    BY <2>1, <2>2, BeginViews
<1>5. ASSUME NEW h \in Handle, AppendLine(h)
      PROVE  ViewsInv'
  <2> DEFINE view == Append(mem[h].view, mem[h].pend.line)
             size == <<Len(journal'), FALSE>>
             m == [mem[h] EXCEPT !.phase = "materialising", !.resid = << >>,
                                 !.view = view, !.size = size]
  <2>1. Coherent(view)
    BY <1>5 DEF AppendLine, ViewsInv, ViewOk
  <2>2. Becomes(h, m)
    BY <1>5 DEF AppendLine
  <2> HIDE DEF view, size
  <2>3. m.view = view /\ m.phase = "materialising"
    BY <1>a DEF Memory
  <2> HIDE DEF m
  <2>4. ViewOk(m)
    BY <2>1, <2>3 DEF ViewOk
  <2> QED
    BY <2>2, <2>4, ViewsStep
<1>6. ASSUME NEW h \in Handle, AppendFails(h)
      PROVE  ViewsInv'
  <2> DEFINE m(r) == [mem[h] EXCEPT !.phase = AfterError, !.pend = NoWrite, !.resid = r]
  <2>1. ASSUME NEW r, Becomes(h, m(r)) PROVE ViewsInv'
    <3>1. m(r).view = mem[h].view /\ m(r).phase = AfterError
      BY <1>a DEF Memory
    <3> HIDE DEF m
    <3>2. ViewOk(m(r))
      BY <1>a, <1>e, <3>1 DEF ViewOk
    <3> QED
      BY <2>1, <3>2, ViewsStep
  <2>2. Becomes(h, m(Append(mem[h].resid, mem[h].pend.line))) \/ Becomes(h, m(<< >>))
    BY <1>6 DEF AppendFails
  <2> QED
    BY <2>1, <2>2
<1>7. ASSUME NEW h \in Handle, Materialise(h) \/ MaterialiseFails(h)
      PROVE  ViewsInv'
  <2> DEFINE m(phase) == [mem[h] EXCEPT !.phase = phase, !.pend = NoWrite]
  <2>1. Becomes(h, m("open")) \/ Becomes(h, m(AfterError))
    BY <1>7 DEF Materialise, MaterialiseFails
  <2>2. \A phase : m(phase).view = mem[h].view /\ m(phase).phase = phase
    BY <1>a DEF Memory
  <2> HIDE DEF m
  <2>3. ViewOk(m("open")) /\ ViewOk(m(AfterError))
    BY <1>a, <1>e, <2>2 DEF ViewOk
  <2> QED
    BY <2>1, <2>3, ViewsStep
<1>8. ASSUME NEW h \in Handle, Close(h) \/ Crash(h)
      PROVE  ViewsInv'
  BY <1>8, <1>b, ViewsStep DEF Close, Crash
<1>9. ASSUME NEW h \in Handle, NEW n \in Node, RepairFile(h, n)
      PROVE  ViewsInv'
  BY <1>9, <1>c DEF RepairFile
<1>10. ASSUME NEW line \in ForeignLine, ForeignAppend(line)
       PROVE  ViewsInv'
  BY <1>10, <1>c DEF ForeignAppend
<1>11. ASSUME NEW n \in Node, NEW file \in ForeignFile, ForeignEdit(n, file)
       PROVE  ViewsInv'
  BY <1>11, <1>c DEF ForeignEdit
<1>12. CASE UNCHANGED vars
  BY <1>12, <1>c DEF vars
<1> QED
  BY <1>1, <1>2, <1>3, <1>4, <1>5, <1>6, <1>7, <1>8, <1>9, <1>10, <1>11, <1>12 DEF Next

\* A handle builds only on lines recovery would accept: of any number of handles
\* inside operations at once, of writes that raise in a process that lives on, and of
\* foreign lines and files, under either policy (recover, _index, _append).
THEOREM ViewsStayCoherent == Spec => []ViewsCoherent
<1>1. Init => TypeInv /\ ViewsInv
  BY TypeInit DEF Init, ViewsInv, ViewOk, Closed, Coherent
<1>2. TypeInv /\ ViewsInv /\ [Next]_vars => TypeInv' /\ ViewsInv'
  BY TypeStep, ViewsInvStep
<1>3. ViewsInv => ViewsCoherent
  BY DEF ViewsInv, ViewOk, ViewsCoherent
<1> QED
  BY <1>1, <1>2, <1>3, PTL DEF Spec

-----------------------------------------------------------------------------
(* A store on which processes take turns, whatever else writes there.      *)

Turns == \A g, h \in Handle :
           mem[g].phase # "closed" /\ mem[h].phase # "closed" => g = h

Starts(p, q) == Len(p) <= Len(q) /\ \A i \in 1..Len(p) : q[i] = p[i]

\* A handle inside an operation knows the whole journal, as the others are closed and
\* nothing else acts meanwhile; between operations it knows the start that it measured.
TurnOk(h) ==
  /\ mem[h].phase \in {"repairing", "appending", "materialising"} =>
       mem[h].view = journal /\ ~torn /\ mem[h].resid = << >>
  /\ mem[h].phase = "materialising" => mem[h].size = <<Len(journal), FALSE>>
  /\ mem[h].phase = "open" =>
       /\ mem[h].resid = << >> /\ mem[h].size = <<Len(mem[h].view), FALSE>>
       /\ Starts(mem[h].view, journal)

\* The line at its place in J, after lines that replay accepts.
Placed(J, line) == /\ line.rev \in 1..Len(J) /\ J[line.rev] = line
                   /\ \A i \in 1..line.rev : LineOk(J, i)

KeptOk == \A s \in stored : Placed(journal, s.line)

TurnsInv == Turns /\ KeptOk /\ \A h \in Handle : TurnOk(h)

\* After a step of the one handle that is not closed, the others still are.
LEMMA OthersClosed ==
  ASSUME TypeInv, Turns, NEW h \in Handle, NEW m \in Memory, Becomes(h, m),
         mem[h].phase # "closed" \/ \A g \in Handle : mem[g].phase = "closed"
  PROVE  /\ Turns' /\ mem'[h] = m
         /\ \A g \in Handle : g # h => mem'[g].phase = "closed"
<1>1. mem \in [Handle -> Memory]
  BY DEF TypeInv, TypeOK
<1>2. mem'[h] = m /\ \A g \in Handle : g # h => mem'[g] = mem[g]
  BY <1>1 DEF Becomes
<1>3. \A g \in Handle : g # h => mem[g].phase = "closed"
  BY DEF Turns
<1> QED
  BY <1>2, <1>3 DEF Turns

\* Every step adds to the journal or, where a handle opens, cuts it where replay stops.
LEMMA JournalMoves ==
  ASSUME TypeInv, [Next]_vars
  PROVE  \/ Starts(journal, journal')
         \/ \E k \in 0..Len(journal) : ReplayStops(journal, k) /\ journal' = SubSeq(journal, 1, k)
<1>0. journal \in Seq(Line)
  BY DEF TypeInv, TypeOK
<1>a. ASSUME NEW added \in Seq(Line), journal' = journal \o added PROVE Starts(journal, journal')
  BY <1>0, <1>a DEF Starts
<1>b. ASSUME NEW line \in Line, journal' = Landed(line) PROVE Starts(journal, journal')
  <2>1. Spoilt(line) \in Line
    BY DEF Line, Spoilt
  <2>2. PICK next \in Line : journal' = Append(journal, next)
    BY <1>b, <2>1 DEF Landed
  <2> QED
    BY <1>0, <2>2 DEF Starts
<1>c. ASSUME NEW h \in Handle, NEW line \in Line, journal' = Flushed(h, line)
      PROVE  Starts(journal, journal')
  <2>1. mem[h].resid \in Seq(Line)
    BY MemoryType DEF TypeInv
  <2>2. CASE mem[h].resid = << >>
    BY <1>b, <1>c, <2>2 DEF Flushed
  <2>3. CASE mem[h].resid # << >>
    <3>1. journal' = Append(journal \o mem[h].resid, line)
      BY <1>c, <2>3 DEF Flushed
    <3> QED
      BY <1>0, <2>1, <3>1 DEF Starts
  <2> QED
    BY <2>2, <2>3
<1>d. ASSUME NEW h \in Handle, mem[h].phase = "appending" PROVE mem[h].pend.line \in Line
  BY <1>d DEF TypeInv, Held, Ready
<1>e. ASSUME journal' = journal PROVE Starts(journal, journal')
  BY <1>0, <1>e DEF Starts
<1>1. ASSUME NEW h \in Handle, NEW lenient \in BOOLEAN, Open(h, lenient)
      PROVE  \E k \in 0..Len(journal) :
               ReplayStops(journal, k) /\ journal' = SubSeq(journal, 1, k)
  BY <1>1 DEF Open
<1>2. ASSUME NEW h \in Handle, AppendLine(h) \/ AppendFails(h) \/ Crash(h)
      PROVE  Starts(journal, journal')
  BY <1>2, <1>c, <1>d, <1>e DEF AppendLine, AppendFails, Crash
<1>3. ASSUME NEW h \in Handle, Close(h) PROVE Starts(journal, journal')
  <2>1. mem[h].resid \in Seq(Line) /\ journal' = journal \o mem[h].resid
    BY <1>3, MemoryType DEF Close, TypeInv
  <2> QED
    BY <1>a, <2>1
<1>4. ASSUME NEW line \in ForeignLine, ForeignAppend(line) PROVE Starts(journal, journal')
  BY <1>4, <1>b, ForeignAssumption DEF ForeignAppend
<1>5. ASSUME NEW h \in Handle,
             \/ \E n \in Node : RepairFile(h, n)
             \/ FinishOpen(h) \/ Materialise(h) \/ MaterialiseFails(h)
             \/ \E n \in Node, p \in Payload, r \in Role : BeginWrite(h, n, p, r)
             \/ \E to \in 1..Len(mem[h].view) : BeginRollback(h, to)
      PROVE  Starts(journal, journal')
  BY <1>5, <1>e DEF RepairFile, FinishOpen, BeginWrite, BeginRollback, Materialise, MaterialiseFails
<1>6. ASSUME NEW n \in Node, NEW file \in ForeignFile, ForeignEdit(n, file)
      PROVE  Starts(journal, journal')
  BY <1>6, <1>e DEF ForeignEdit
<1>7. CASE UNCHANGED vars
  BY <1>7, <1>e DEF vars
<1> QED
  BY <1>1, <1>2, <1>3, <1>4, <1>5, <1>6, <1>7 DEF Next

\* A placed line stays placed, through every later open, under either policy.
LEMMA StaysPlaced ==
  ASSUME TypeInv, [Next]_vars, NEW line \in Line, Placed(journal, line), NEW actor
  PROVE  /\ Placed(journal', line)
         /\ OwnerOk(journal, line.rev, actor) => OwnerOk(journal', line.rev, actor)
<1>0. journal \in Seq(Line) /\ journal' \in Seq(Line)
  BY TypeStep DEF TypeInv, TypeOK
<1>1. line.rev \in Nat /\ line.rev \in 1..Len(journal) /\ journal[line.rev] = line
      /\ \A i \in 1..line.rev : LineOk(journal, i)
  BY DEF Placed, Line
<1>2. line.rev <= Len(journal') /\ \A i \in 1..line.rev : journal'[i] = journal[i]
  <2>1. CASE Starts(journal, journal')
    BY <1>0, <1>1, <2>1 DEF Starts
  <2>2. ASSUME NEW k \in 0..Len(journal), ReplayStops(journal, k), journal' = SubSeq(journal, 1, k)
        PROVE  line.rev <= Len(journal') /\ \A i \in 1..line.rev : journal'[i] = journal[i]
    <3>1. line.rev <= k
      <4> SUFFICES ASSUME k < line.rev PROVE FALSE
        BY <1>1
      <4>1. k + 1 \in 1..line.rev /\ k < Len(journal)
        BY <1>0, <1>1
      <4> QED
        BY <1>1, <2>2, <4>1 DEF ReplayStops
    <3>2. Len(journal') = k /\ \A i \in 1..k : journal'[i] = journal[i]
      BY <1>0, <2>2
    <3> QED
      BY <1>1, <3>1, <3>2
  <2> QED
    BY <2>1, <2>2, JournalMoves
<1>3. ASSUME NEW i \in 1..line.rev
      PROVE  /\ LineOk(journal', i)
             /\ OwnerOk(journal, i, actor) => OwnerOk(journal', i, actor)
  <2>1. i \in 1..Len(journal) /\ i <= Len(journal') /\ \A j \in 1..i : journal[j] = journal'[j]
    BY <1>0, <1>1, <1>2
  <2> QED
    BY <1>0, <1>1, <2>1, SamePrefix
<1>4. line.rev \in 1..line.rev /\ line.rev \in 1..Len(journal')
  BY <1>0, <1>1, <1>2
<1> QED
  BY <1>1, <1>2, <1>3, <1>4 DEF Placed

\* A handle that passes the staleness check knows the whole journal.
LEMMA CurrentView ==
  ASSUME TypeInv, NEW h \in Handle, TurnOk(h), Current(h)
  PROVE  mem[h].phase = "open" /\ mem[h].view = journal /\ ~torn /\ mem[h].resid = << >>
<1>1. mem[h].view \in Seq(Line) /\ journal \in Seq(Line)
  BY MemoryType DEF TypeInv, TypeOK
<1>2. /\ mem[h].phase = "open" /\ mem[h].resid = << >> /\ Starts(mem[h].view, journal)
      /\ <<Len(mem[h].view), FALSE>> = <<Len(journal), torn>>
  BY DEF Current, TurnOk, DiskSize
<1>3. Len(mem[h].view) = Len(journal) /\ torn = FALSE
  BY <1>2
<1>4. mem[h].view = journal
  BY <1>1, <1>2, <1>3, SeqEqual DEF Starts
<1> QED
  BY <1>2, <1>3, <1>4

\* What a step of the one live handle has to show of the handles.
LEMMA TurnOf ==
  ASSUME TypeInv, Turns, NEW h \in Handle, NEW m \in Memory, Becomes(h, m),
         mem[h].phase # "closed" \/ \A g \in Handle : mem[g].phase = "closed",
         mem'[h] = m => TurnOk(h)'
  PROVE  Turns' /\ \A g \in Handle : TurnOk(g)'
<1>1. /\ Turns' /\ mem'[h] = m
      /\ \A g \in Handle : g # h => mem'[g].phase = "closed"
  BY OthersClosed
<1>2. \A g \in Handle : mem'[g].phase = "closed" => TurnOk(g)'
  BY DEF TurnOk
<1> QED
  BY <1>1, <1>2

LEMMA TurnsKept ==
  ASSUME TakesTurns, TypeInv, ViewsInv, TurnsInv, [Next]_vars
  PROVE  Turns' /\ \A g \in Handle : TurnOk(g)'
<1>0. TypeOK /\ Turns /\ journal \in Seq(Line) /\ journal' \in Seq(Line)
  BY TypeStep DEF TypeInv, TypeOK, TurnsInv
<1>a. ASSUME NEW h \in Handle
      PROVE  /\ mem[h] \in Memory /\ mem[h] \in Held /\ TurnOk(h)
             /\ mem[h].view \in Seq(Line) /\ mem[h].resid \in Seq(Line)
  BY <1>0, MemoryType DEF TypeInv, TurnsInv
<1>b. AfterError = "failed" \/ IoErrors = "none"
  BY StoreAssumption DEF TakesTurns, AfterError
<1>c. ASSUME UNCHANGED <<journal, torn, mem>> PROVE Turns' /\ \A g \in Handle : TurnOk(g)'
  BY <1>c, <1>0, <1>a DEF Turns, TurnOk
<1>d. ASSUME NEW h \in Handle, NEW m \in Memory, Becomes(h, m), mem[h].phase # "closed",
             m.phase \in {"closed", "failed"}
      PROVE  Turns' /\ \A g \in Handle : TurnOk(g)'
  <2>1. mem'[h] = m => TurnOk(h)'
    BY <1>d DEF TurnOk
  <2> QED
    BY <1>0, <1>d, <2>1, TurnOf
<1>1. ASSUME NEW h \in Handle, NEW lenient \in BOOLEAN, Open(h, lenient)
      PROVE  Turns' /\ \A g \in Handle : TurnOk(g)'
  <2> DEFINE m == [Closed EXCEPT !.phase = "repairing", !.lenient = lenient,
                                 !.view = journal']
  <2>1. m \in Memory /\ Becomes(h, m) /\ m.phase = "repairing" /\ m.view = journal'
        /\ m.resid = << >>
    BY <1>0, <1>1, ClosedType DEF Open, Memory, Closed
  <2> HIDE DEF m
  <2>2. \A g \in Handle : mem[g].phase = "closed"
    BY <1>1 DEF Open, TakesTurns
  <2>3. mem'[h] = m => TurnOk(h)'
    BY <1>1, <2>1 DEF TurnOk, Open
  <2> QED
    BY <1>0, <2>1, <2>2, <2>3, TurnOf
<1>2. ASSUME NEW h \in Handle, NEW n \in Node, RepairFile(h, n)
      PROVE  Turns' /\ \A g \in Handle : TurnOk(g)'
  BY <1>2, <1>c DEF RepairFile
<1>3. ASSUME NEW h \in Handle, FinishOpen(h)
      PROVE  Turns' /\ \A g \in Handle : TurnOk(g)'
  <2> DEFINE m == [mem[h] EXCEPT !.phase = "open", !.size = DiskSize]
  <2>1. /\ mem[h].phase = "repairing" /\ journal' = journal
        /\ Becomes(h, m) \/ Becomes(h, Closed)
    BY <1>3 DEF FinishOpen
  <2>2. mem[h].view = journal /\ ~torn /\ mem[h].resid = << >>
    BY <1>a, <2>1 DEF TurnOk
  <2>3. DiskSize \in Nat \X BOOLEAN /\ DiskSize = <<Len(journal), FALSE>>
    <3>1. Len(journal) \in Nat /\ torn = FALSE
      BY <1>0, <2>2 DEF TypeOK
    <3> QED
      BY <3>1 DEF DiskSize
  <2>4. m \in Memory /\ m.phase = "open" /\ m.view = journal /\ m.resid = << >>
        /\ m.size = <<Len(journal), FALSE>>
    BY <1>a, <2>2, <2>3 DEF Memory
  <2> HIDE DEF m
  <2>5. Starts(journal, journal)
    BY <1>0 DEF Starts
  <2>6. mem'[h] = m => TurnOk(h)'
    BY <2>1, <2>4, <2>5 DEF TurnOk
  <2>7. Closed.phase = "closed"
    BY DEF Closed
  <2> QED
    BY <1>0, <1>d, <2>1, <2>4, <2>6, <2>7, ClosedType, TurnOf
<1>4. ASSUME NEW h \in Handle, Current(h), UNCHANGED <<journal, torn>>,
             NEW op, NEW n, NEW version, NEW p, NEW actor, Begin(h, op, n, version, p, actor),
             mem'[h] \in Memory
      PROVE  Turns' /\ \A g \in Handle : TurnOk(g)'
  <2>1. PICK pend : Becomes(h, [mem[h] EXCEPT !.phase = "appending", !.pend = pend])
    BY <1>4 DEF Begin
  <2> DEFINE m == [mem[h] EXCEPT !.phase = "appending", !.pend = pend]
  <2>2. /\ mem[h].phase = "open" /\ mem[h].view = journal /\ ~torn
        /\ mem[h].resid = << >>
    BY <1>4, <1>a, CurrentView
  <2>3. m.phase = "appending" /\ m.view = journal /\ m.resid = << >>
    BY <1>a, <2>2 DEF Memory
  <2>4. m = mem'[h]
    BY <1>0, <2>1 DEF Becomes, TypeOK
  <2> HIDE DEF m
  <2>5. mem'[h] = m => TurnOk(h)'
    BY <1>4, <2>2, <2>3 DEF TurnOk
  <2> QED
    BY <1>0, <1>4, <2>1, <2>2, <2>4, <2>5, TurnOf DEF m
<1>5. ASSUME NEW h \in Handle,
             \/ \E n \in Node, p \in Payload, r \in Role : BeginWrite(h, n, p, r)
             \/ \E to \in 1..Len(mem[h].view) : BeginRollback(h, to)
      PROVE  Turns' /\ \A g \in Handle : TurnOk(g)'
  <2>1. mem'[h] \in Memory
    BY TypeStep DEF TypeInv, TypeOK
  <2> QED
    BY <1>4, <1>5, <2>1 DEF BeginWrite, BeginRollback
<1>6. ASSUME NEW h \in Handle, AppendLine(h)
      PROVE  Turns' /\ \A g \in Handle : TurnOk(g)'
  <2> DEFINE line == mem[h].pend.line
             view == Append(mem[h].view, line)
             size == <<Len(journal'), FALSE>>
             m == [mem[h] EXCEPT !.phase = "materialising", !.resid = << >>,
                                 !.view = view, !.size = size]
  <2>1. mem[h].phase = "appending" /\ line \in Line
    BY <1>6, <1>a DEF AppendLine, Held, Ready
  <2>2. mem[h].view = journal /\ ~torn /\ mem[h].resid = << >>
    BY <1>a, <2>1 DEF TurnOk
  <2>3. journal' = Append(journal, line) /\ ~torn'
    BY <1>6, <2>2 DEF AppendLine, Flushed, Landed
  <2>4. Becomes(h, m)
    BY <1>6 DEF AppendLine
  <2>5. view = journal'
    BY <2>2, <2>3
  <2>6. view \in Seq(Line) /\ size \in Nat \X BOOLEAN /\ << >> \in Seq(Line)
    <3>1. size \in Nat \X BOOLEAN
      <4>1. Len(journal') \in Nat
        BY <1>0
      <4> QED
        BY <4>1
    <3> HIDE DEF view, size, m
    <3>2. view \in Seq(Line)
      BY <1>0, <2>5
    <3> QED
      BY <3>1, <3>2
  <2> HIDE DEF view, size
  <2>7. m \in Memory /\ m.phase = "materialising" /\ m.view = view /\ m.resid = << >>
        /\ m.size = size
    BY <1>a, <2>6 DEF Memory
  <2> HIDE DEF m
  <2>8. mem'[h] = m => TurnOk(h)'
    BY <2>3, <2>5, <2>7 DEF TurnOk, size
  <2> QED
    BY <1>0, <2>1, <2>4, <2>7, <2>8, TurnOf
<1>7. ASSUME NEW h \in Handle, AppendFails(h)
      PROVE  Turns' /\ \A g \in Handle : TurnOk(g)'
  <2> DEFINE m(r) == [mem[h] EXCEPT !.phase = AfterError, !.pend = NoWrite, !.resid = r]
  <2>1. /\ mem[h].phase = "appending" /\ mem[h].pend.line \in Line /\ AfterError = "failed"
    BY <1>7, <1>a, <1>b DEF AppendFails, Held, Ready
  <2>2. PICK r \in {Append(mem[h].resid, mem[h].pend.line), << >>} : Becomes(h, m(r))
    BY <1>7 DEF AppendFails
  <2> HIDE DEF m
  <2>3. r \in Seq(Line)
    <3>1. CASE r = << >>
      BY <3>1
    <3>2. CASE r = Append(mem[h].resid, mem[h].pend.line)
      BY <1>a, <2>1, <3>2
    <3> QED
      BY <2>2, <3>1, <3>2
  <2>4. m(r) \in Memory /\ m(r).phase = "failed"
    BY <1>a, <2>1, <2>3, ClosedType DEF Memory, m
  <2> QED
    BY <1>d, <2>1, <2>2, <2>4
<1>8. ASSUME NEW h \in Handle, Materialise(h)
      PROVE  Turns' /\ \A g \in Handle : TurnOk(g)'
  <2> DEFINE m == [mem[h] EXCEPT !.phase = "open", !.pend = NoWrite]
  <2>1. /\ mem[h].phase = "materialising" /\ Becomes(h, m) /\ journal' = journal
    BY <1>8 DEF Materialise
  <2>2. mem[h].view = journal /\ mem[h].resid = << >> /\ mem[h].size = <<Len(journal), FALSE>>
    BY <1>a, <2>1 DEF TurnOk
  <2>3. m \in Memory /\ m.phase = "open" /\ m.view = journal /\ m.resid = << >>
        /\ m.size = <<Len(journal), FALSE>>
    BY <1>a, <2>2, ClosedType DEF Memory
  <2> HIDE DEF m
  <2>4. Starts(journal, journal)
    BY <1>0 DEF Starts
  <2>5. mem'[h] = m => TurnOk(h)'
    BY <2>1, <2>3, <2>4 DEF TurnOk
  <2> QED
    BY <1>0, <2>1, <2>3, <2>5, TurnOf
<1>9. ASSUME NEW h \in Handle, MaterialiseFails(h)
      PROVE  Turns' /\ \A g \in Handle : TurnOk(g)'
  <2> DEFINE m == [mem[h] EXCEPT !.phase = AfterError, !.pend = NoWrite]
  <2>1. mem[h].phase = "materialising" /\ Becomes(h, m) /\ AfterError = "failed"
    BY <1>9, <1>b DEF MaterialiseFails
  <2>2. m \in Memory /\ m.phase = "failed"
    BY <1>a, <2>1, ClosedType DEF Memory
  <2> HIDE DEF m
  <2> QED
    BY <1>d, <2>1, <2>2
<1>10. ASSUME NEW h \in Handle, Close(h) \/ Crash(h)
       PROVE  Turns' /\ \A g \in Handle : TurnOk(g)'
  <2>1. mem[h].phase # "closed" /\ Becomes(h, Closed) /\ Closed.phase = "closed"
    BY <1>10 DEF Close, Crash, Closed
  <2> QED
    BY <1>d, <2>1, ClosedType
<1>11. ASSUME NEW line \in ForeignLine, ForeignAppend(line)
       PROVE  Turns' /\ \A g \in Handle : TurnOk(g)'
  <2>1. /\ mem' = mem
        /\ \A h \in Handle : mem[h].phase \in {"closed", "open", "failed"}
    BY <1>11 DEF ForeignAppend, Undisturbed, TakesTurns
  <2>2. Starts(journal, journal')
    <3>1. \E next \in Line : journal' = Append(journal, next)
      BY <1>11, ForeignAssumption DEF ForeignAppend, Landed, Spoilt, Line
    <3> QED
      BY <1>0, <3>1 DEF Starts
  <2>3. ASSUME NEW h \in Handle, Starts(mem[h].view, journal) PROVE Starts(mem[h].view, journal')
    BY <1>0, <1>a, <2>2, <2>3 DEF Starts
  <2>4. ASSUME NEW h \in Handle PROVE TurnOk(h)'
    BY <1>a, <2>1, <2>3 DEF TurnOk
  <2>5. Turns'
    BY <1>0, <2>1 DEF Turns
  <2> QED
    BY <2>4, <2>5
<1>12. ASSUME NEW n \in Node, NEW file \in ForeignFile, ForeignEdit(n, file)
       PROVE  Turns' /\ \A g \in Handle : TurnOk(g)'
  BY <1>12, <1>c DEF ForeignEdit
<1>13. CASE UNCHANGED vars
  BY <1>13, <1>c DEF vars
<1> QED
  BY <1>1, <1>2, <1>3, <1>5, <1>6, <1>7, <1>8, <1>9, <1>10, <1>11, <1>12, <1>13 DEF Next

\* The line an append returns for is at its place, whoever wrote what before it.
LEMMA AppendPlaced ==
  ASSUME TypeInv, ViewsInv, NEW h \in Handle, TurnOk(h), AppendLine(h)
  PROVE  /\ mem[h].pend.line \in Line /\ mem[h].view = journal
         /\ journal' = Append(journal, mem[h].pend.line)
         /\ Coherent(journal') /\ Placed(journal', mem[h].pend.line)
         /\ mem[h].pend.line.rev = Len(journal) + 1
<1> DEFINE line == mem[h].pend.line
<1>0. journal \in Seq(Line) /\ Len(journal) \in Nat
  BY DEF TypeInv, TypeOK
<1>1. mem[h].phase = "appending" /\ line \in Line
  BY DEF AppendLine, TypeInv, Held, Ready
<1>2. mem[h].view = journal /\ ~torn /\ mem[h].resid = << >>
  BY <1>1 DEF TurnOk
<1>3. journal' = Append(journal, line)
  BY <1>2 DEF AppendLine, Flushed, Landed
<1>4. Coherent(journal')
  BY <1>1, <1>2, <1>3 DEF ViewsInv, ViewOk
<1> HIDE DEF line
<1>5. journal' \in Seq(Line) /\ Len(journal') = Len(journal) + 1
      /\ journal'[Len(journal) + 1] = line
  BY <1>0, <1>1, <1>3
<1>6. LineOk(journal', Len(journal) + 1)
  BY <1>0, <1>4, <1>5 DEF Coherent
<1>7. line.rev = Len(journal) + 1
  BY <1>5, <1>6 DEF LineOk
<1>8. Placed(journal', line)
  BY <1>0, <1>4, <1>5, <1>7 DEF Placed, Coherent
<1> QED
  BY <1>1, <1>2, <1>3, <1>4, <1>7, <1>8 DEF line

\* Only an append adds to what was stored.
LEMMA StoredMoves ==
  ASSUME [Next]_vars
  PROVE  \/ stored' = stored
         \/ \E h \in Handle : AppendLine(h)
<1>1. ASSUME NEW h \in Handle,
             \/ \E lenient \in BOOLEAN : Open(h, lenient)
             \/ \E n \in Node : RepairFile(h, n)
             \/ FinishOpen(h)
             \/ \E n \in Node, p \in Payload, r \in Role : BeginWrite(h, n, p, r)
             \/ \E to \in 1..Len(mem[h].view) : BeginRollback(h, to)
      PROVE  stored' = stored
  BY <1>1 DEF Open, RepairFile, FinishOpen, BeginWrite, BeginRollback
<1>2. ASSUME NEW h \in Handle, \/ AppendFails(h) \/ Materialise(h) \/ MaterialiseFails(h)
                               \/ Close(h) \/ Crash(h)
      PROVE  stored' = stored
  BY <1>2 DEF AppendFails, Materialise, MaterialiseFails, Close, Crash
<1>3. ASSUME \/ \E line \in ForeignLine : ForeignAppend(line)
             \/ \E n \in Node, file \in ForeignFile : ForeignEdit(n, file)
             \/ UNCHANGED vars
      PROVE  stored' = stored
  BY <1>3 DEF ForeignAppend, ForeignEdit, vars
<1> QED
  BY <1>1, <1>2, <1>3 DEF Next

LEMMA KeptStep ==
  ASSUME TypeInv, ViewsInv, TurnsInv, [Next]_vars PROVE KeptOk'
<1>1. ASSUME NEW s \in stored PROVE Placed(journal', s.line)
  <2>1. s.line \in Line /\ Placed(journal, s.line)
    BY <1>1 DEF TypeInv, TypeOK, TurnsInv, KeptOk
  <2> QED
    BY <2>1, StaysPlaced
<1>2. ASSUME NEW h \in Handle, AppendLine(h) PROVE KeptOk'
  <2>1. /\ Placed(journal', mem[h].pend.line)
        /\ stored' = stored \cup {[line |-> mem[h].pend.line, actor |-> mem[h].pend.actor]}
    BY <1>2, AppendPlaced DEF TurnsInv, AppendLine
  <2>2. \A s \in stored' : Placed(journal', s.line)
    BY <1>1, <2>1
  <2> QED
    BY <2>2 DEF KeptOk, Placed
<1>3. CASE stored' = stored
  <2>1. \A s \in stored' : Placed(journal', s.line)
    BY <1>1, <1>3
  <2> QED
    BY <2>1 DEF KeptOk, Placed
<1> QED
  BY <1>2, <1>3, StoredMoves

LEMMA TurnsCorrect ==
  ASSUME TakesTurns PROVE Spec => [](TypeInv /\ ViewsInv /\ TurnsInv)
<1>1. Init => TypeInv /\ ViewsInv /\ TurnsInv
  <2> SUFFICES ASSUME Init PROVE TypeInv /\ ViewsInv /\ TurnsInv
    OBVIOUS
  <2>1. Closed.phase = "closed" /\ Closed.view = << >> /\ Coherent(<< >>)
    BY DEF Closed, Coherent
  <2>2. \A h \in Handle : mem[h] = Closed
    BY DEF Init
  <2>3. ViewsInv
    BY <2>1, <2>2 DEF ViewsInv, ViewOk
  <2>4. TurnsInv
    BY <2>1, <2>2 DEF Init, TurnsInv, Turns, KeptOk, TurnOk
  <2> QED
    BY <2>3, <2>4, TypeInit
<1>2. TypeInv /\ ViewsInv /\ TurnsInv /\ [Next]_vars => TypeInv' /\ ViewsInv' /\ TurnsInv'
  BY TypeStep, ViewsInvStep, TurnsKept, KeptStep DEF TurnsInv
<1> QED
  BY <1>1, <1>2, PTL DEF Spec

-----------------------------------------------------------------------------
(* Where nothing else changes a node file: files and owners.               *)

\* A handle that may answer or write has the files its view calls for, but for the
\* one it is replacing; what it is about to write, its actor owns and may rewrite.
FileOk(h) ==
  /\ mem[h].phase \in {"open", "appending"} => FilesMatch(mem[h].view, files)
  /\ mem[h].phase = "appending" =>
       LET J == Append(mem[h].view, mem[h].pend.line)
       IN  RewriteOk(J, Len(J)) /\ OwnerOk(J, Len(J), mem[h].pend.actor)
  /\ mem[h].phase = "materialising" =>
       /\ mem[h].view # << >> /\ mem[h].view[Len(mem[h].view)] = mem[h].pend.line
       /\ \A n \in Node \ {mem[h].pend.line.node}, i \in 1..Len(mem[h].view) :
            IsLast(mem[h].view, i, n, Len(mem[h].view)) => files[n] = FileOf(mem[h].view[i])

OwnersOk == \A s \in stored : OwnerOk(journal, s.line.rev, s.actor)

FilesInv == OwnersOk /\ \A h \in Handle : FileOk(h)

\* Whoever the guard lets write a node may do so by the journal as well.
LEMMA WriteOwned ==
  ASSUME NEW J \in Seq(Line), FilesMatch(J, files),
         NEW n \in Node, NEW p \in Payload, NEW r \in Role, NEW line \in Line,
         line.node = n, line.payload = p,
         \/ Unseen(J, n, Len(J)) /\ r = OwnerOf[p] /\ line.op = "create"
         \/ \E i \in 1..Len(J) : IsLast(J, i, n, Len(J)) /\ MayRewrite(n, r)
  PROVE  RewriteOk(Append(J, line), Len(J) + 1) /\ OwnerOk(Append(J, line), Len(J) + 1, r)
<1> DEFINE K == Append(J, line)
<1>1. K[Len(J) + 1] = line /\ Len(J) \in Nat /\ Len(J) + 1 - 1 = Len(J)
  OBVIOUS
<1>2. \A j \in 1..Len(J) : K[j] = J[j]
  OBVIOUS
<1> HIDE DEF K
<1>3. Unseen(K, n, Len(J)) <=> Unseen(J, n, Len(J))
  BY <1>1, <1>2 DEF Unseen
<1>4. \A j : IsLast(K, j, n, Len(J)) <=> IsLast(J, j, n, Len(J))
  BY <1>1, <1>2 DEF IsLast
<1>5. CASE Unseen(J, n, Len(J)) /\ r = OwnerOf[p] /\ line.op = "create"
  <2>1. \A j \in 1..Len(J) : ~IsLast(J, j, n, Len(J))
    BY <1>5 DEF IsLast, Unseen
  <2>2. RewriteOk(K, Len(J) + 1)
    BY <1>1, <1>5 DEF RewriteOk
  <2>3. OwnerOk(K, Len(J) + 1, r)
    BY <1>1, <1>4, <1>5, <2>1 DEF OwnerOk
  <2> QED
    BY <2>2, <2>3 DEF K
<1>6. ASSUME NEW i \in 1..Len(J), IsLast(J, i, n, Len(J)), MayRewrite(n, r)
      PROVE  RewriteOk(K, Len(J) + 1) /\ OwnerOk(K, Len(J) + 1, r)
  <2>1. ~Unseen(J, n, Len(J))
    BY <1>6 DEF Unseen, IsLast
  <2>2. ASSUME NEW j \in 1..Len(J), IsLast(K, j, n, Len(J))
        PROVE  K[j].payload = files[n].payload
    <3>1. files[n] = FileOf(J[j])
      BY <1>4, <2>2 DEF FilesMatch
    <3> QED
      BY <1>2, <3>1 DEF FileOf
  <2>3. RewriteOk(K, Len(J) + 1)
    BY <1>1, <1>6, <2>2 DEF RewriteOk, MayRewrite
  <2>4. OwnerOk(K, Len(J) + 1, r)
    BY <1>1, <1>3, <1>6, <2>1, <2>2 DEF OwnerOk, MayRewrite
  <2> QED
    BY <2>3, <2>4
<1> QED
  BY <1>5, <1>6 DEF K

\* What a step of the one live handle has to show of the files.
LEMMA FilesOf ==
  ASSUME TypeInv, Turns, NEW h \in Handle, NEW m \in Memory, Becomes(h, m),
         mem[h].phase # "closed" \/ \A g \in Handle : mem[g].phase = "closed",
         mem'[h] = m => FileOk(h)'
  PROVE  \A g \in Handle : FileOk(g)'
<1>1. mem'[h] = m /\ \A g \in Handle : g # h => mem'[g].phase = "closed"
  BY OthersClosed
<1>2. \A g \in Handle : mem'[g].phase = "closed" => FileOk(g)'
  BY DEF FileOk
<1> QED
  BY <1>1, <1>2

\* A handle on its way into an append holds a line its actor owns.
LEMMA BeginFiles ==
  ASSUME TypeInv, Turns, NEW h \in Handle, FileOk(h), mem[h].phase = "open", files' = files,
         NEW op \in {"create", "write", "rollback"}, NEW n \in Node, NEW version \in Nat,
         NEW p \in Payload, NEW actor \in Role \cup {Nobody}, NEW line \in Line,
         line = [rev |-> Len(mem[h].view) + 1, op |-> op, node |-> n,
                 version |-> version, payload |-> p],
         Begin(h, op, n, version, p, actor),
         RewriteOk(Append(mem[h].view, line), Len(mem[h].view) + 1),
         OwnerOk(Append(mem[h].view, line), Len(mem[h].view) + 1, actor)
  PROVE  \A g \in Handle : FileOk(g)'
<1> DEFINE pend == [op |-> "append", line |-> line, actor |-> actor]
           m == [mem[h] EXCEPT !.phase = "appending", !.pend = pend]
           J == Append(mem[h].view, line)
<1>1. mem[h] \in Memory /\ mem[h].view \in Seq(Line)
  BY MemoryType DEF TypeInv
<1>2. pend \in Pend /\ pend.line = line /\ pend.actor = actor
  BY DEF Pend
<1>3. Becomes(h, m)
  BY DEF Begin
<1> HIDE DEF pend
<1>4. m \in Memory /\ m.phase = "appending" /\ m.pend = pend /\ m.view = mem[h].view
  BY <1>1, <1>2 DEF Memory
<1> HIDE DEF m
<1>5. FilesMatch(mem[h].view, files)
  BY DEF FileOk
<1>6. RewriteOk(J, Len(J)) /\ OwnerOk(J, Len(J), actor)
  <2>1. Len(J) = Len(mem[h].view) + 1
    BY <1>1
  <2> QED
    BY <2>1
<1> HIDE DEF J
<1>7. mem'[h] = m => FileOk(h)'
  <2> SUFFICES ASSUME mem'[h] = m PROVE FileOk(h)'
    OBVIOUS
  <2>1. J = Append(mem'[h].view, mem'[h].pend.line) /\ mem'[h].pend.actor = actor
    BY <1>2, <1>4 DEF J
  <2> QED
    BY <1>4, <1>5, <1>6, <2>1 DEF FileOk
<1> QED
  BY <1>3, <1>4, <1>7, FilesOf

LEMMA FilesStep ==
  ASSUME TakesTurns, ForeignFile = {}, TypeInv, ViewsInv, TurnsInv,
         \A h \in Handle : FileOk(h), [Next]_vars
  PROVE  \A h \in Handle : FileOk(h)'
<1>0. TypeOK /\ Turns /\ files \in [Node -> NodeFile \cup {NoFile}]
  BY DEF TypeInv, TypeOK, TurnsInv
<1>a. ASSUME NEW h \in Handle
      PROVE  /\ mem[h] \in Memory /\ mem[h] \in Held /\ TurnOk(h) /\ FileOk(h)
             /\ mem[h].view \in Seq(Line) /\ mem[h].resid \in Seq(Line)
             /\ Len(mem[h].view) \in Nat
  BY <1>0, MemoryType DEF TypeInv, TurnsInv
<1>b. AfterError = "failed" \/ IoErrors = "none"
  BY StoreAssumption DEF TakesTurns, AfterError
<1>c. ASSUME UNCHANGED <<files, mem>> PROVE \A h \in Handle : FileOk(h)'
  BY <1>c, <1>a DEF FileOk
<1>d. ASSUME NEW h \in Handle, NEW m \in Memory, Becomes(h, m),
             mem[h].phase # "closed" \/ \A g \in Handle : mem[g].phase = "closed",
             m.phase \in {"closed", "failed", "repairing"}
      PROVE  \A g \in Handle : FileOk(g)'
  <2>1. mem'[h] = m => FileOk(h)'
    BY <1>d DEF FileOk
  <2> QED
    BY <1>0, <1>d, <2>1, FilesOf
<1>e. ASSUME NEW h \in Handle, mem[h].phase # "closed", Becomes(h, Closed)
      PROVE  \A g \in Handle : FileOk(g)'
  <2>1. Closed.phase = "closed"
    BY DEF Closed
  <2> QED
    BY <1>d, <1>e, <2>1, ClosedType
<1>1. ASSUME NEW h \in Handle, NEW lenient \in BOOLEAN, Open(h, lenient)
      PROVE  \A g \in Handle : FileOk(g)'
  <2> DEFINE m == [Closed EXCEPT !.phase = "repairing", !.lenient = lenient,
                                 !.view = journal']
  <2>1. journal' \in Seq(Line)
    BY TypeStep DEF TypeInv, TypeOK
  <2>2. m \in Memory /\ Becomes(h, m) /\ m.phase = "repairing"
    BY <1>1, <2>1, ClosedType DEF Open, Memory, Closed
  <2> HIDE DEF m
  <2>3. \A g \in Handle : mem[g].phase = "closed"
    BY <1>1 DEF Open, TakesTurns
  <2> QED
    BY <1>d, <2>2, <2>3
<1>2. ASSUME NEW h \in Handle, NEW n \in Node, RepairFile(h, n)
      PROVE  \A g \in Handle : FileOk(g)'
  <2>1. mem[h].phase = "repairing" /\ Becomes(h, mem[h])
    BY <1>0, <1>2 DEF RepairFile, Becomes, TypeOK
  <2> QED
    BY <1>a, <1>d, <2>1
<1>3. ASSUME NEW h \in Handle, FinishOpen(h)
      PROVE  \A g \in Handle : FileOk(g)'
  <2> DEFINE view == mem[h].view
             m == [mem[h] EXCEPT !.phase = "open", !.size = DiskSize]
             orphans == {n \in Node : Unseen(view, n, Len(view)) /\ files[n] # NoFile}
  <2>1. mem[h].phase = "repairing" /\ FilesMatch(view, files)
    BY <1>3 DEF FinishOpen, AllRepaired
  <2>2. CASE Becomes(h, m)
             /\ files' = [n \in Node |-> IF n \in orphans THEN NoFile ELSE files[n]]
    <3>1. ASSUME NEW n \in Node, NEW i \in 1..Len(view), IsLast(view, i, n, Len(view))
          PROVE  files'[n] = FileOf(view[i])
      <4>1. n \notin orphans
        BY <3>1 DEF IsLast, Unseen
      <4>2. files[n] = FileOf(view[i])
        BY <2>1, <3>1 DEF FilesMatch
      <4> QED
        BY <2>2, <4>1, <4>2
    <3>2. DiskSize \in Nat \X BOOLEAN
      BY <1>0 DEF DiskSize, TypeOK
    <3>3. m \in Memory /\ m.phase = "open" /\ m.view = view
      BY <1>a, <3>2 DEF Memory
    <3> HIDE DEF m, view
    <3>4. FilesMatch(view, files')
      BY <3>1 DEF FilesMatch
    <3>5. mem'[h] = m => FileOk(h)'
      BY <3>3, <3>4 DEF FileOk
    <3> QED
      BY <1>0, <2>1, <2>2, <3>3, <3>5, FilesOf
  <2>3. \/ /\ Becomes(h, m)
           /\ files' = [n \in Node |-> IF n \in orphans THEN NoFile ELSE files[n]]
        \/ Becomes(h, Closed)
    BY <1>3, Zenon DEF FinishOpen
  <2> QED
    BY <1>e, <2>1, <2>2, <2>3
<1>4. ASSUME NEW h \in Handle, NEW n \in Node, NEW p \in Payload, NEW r \in Role,
             BeginWrite(h, n, p, r)
      PROVE  \A g \in Handle : FileOk(g)'
  <2> DEFINE view == mem[h].view
  <2>1. mem[h].phase = "open" /\ FilesMatch(view, files) /\ files' = files
    BY <1>4, <1>a DEF BeginWrite, Current, FileOk
  <2>2. PICK op \in {"create", "write", "rollback"}, version \in Nat :
          /\ Begin(h, op, n, version, p, r)
          /\ \/ Unseen(view, n, Len(view)) /\ r = OwnerOf[p] /\ op = "create"
             \/ \E i \in 1..Len(view) : IsLast(view, i, n, Len(view)) /\ MayRewrite(n, r)
    <3>1. ASSUME NEW i \in 1..Len(view) PROVE view[i].version + 1 \in Nat
      BY <1>a, LineFields
    <3> QED
      BY <1>4, <3>1 DEF BeginWrite
  <2> DEFINE line == [rev |-> Len(view) + 1, op |-> op, node |-> n,
                      version |-> version, payload |-> p]
  <2>3. line \in Line /\ line.node = n /\ line.payload = p /\ line.op = op
    BY <1>a DEF Line
  <2> HIDE DEF line
  <2>4. RewriteOk(Append(view, line), Len(view) + 1) /\ OwnerOk(Append(view, line), Len(view) + 1, r)
    BY <1>a, <2>1, <2>2, <2>3, WriteOwned
  <2> QED
    BY <1>0, <1>a, <2>1, <2>2, <2>3, <2>4, BeginFiles DEF line
<1>5. ASSUME NEW h \in Handle, NEW to \in 1..Len(mem[h].view), BeginRollback(h, to)
      PROVE  \A g \in Handle : FileOk(g)'
  <2> DEFINE view == mem[h].view
  <2>1. mem[h].phase = "open" /\ files' = files
    BY <1>5 DEF BeginRollback, Current
  <2>2. PICK i \in 1..Len(view) :
          Begin(h, "rollback", view[to].node, view[i].version + 1, view[to].payload, Nobody)
    BY <1>5 DEF BeginRollback
  <2> DEFINE line == [rev |-> Len(view) + 1, op |-> "rollback", node |-> view[to].node,
                      version |-> view[i].version + 1, payload |-> view[to].payload]
  <2>3. view[i].version + 1 \in Nat /\ view[to].node \in Node /\ view[to].payload \in Payload
    BY <1>a, LineFields
  <2>4. line \in Line /\ line.op = "rollback" /\ Append(view, line)[Len(view) + 1] = line
    BY <1>a, <2>3 DEF Line
  <2> HIDE DEF line
  <2>5. RewriteOk(Append(view, line), Len(view) + 1) /\ OwnerOk(Append(view, line), Len(view) + 1, Nobody)
    BY <2>4 DEF OwnerOk, RewriteOk
  <2> QED
    BY <1>0, <1>a, <2>1, <2>2, <2>3, <2>4, <2>5, BeginFiles DEF line
<1>6. ASSUME NEW h \in Handle, AppendLine(h)
      PROVE  \A g \in Handle : FileOk(g)'
  <2> DEFINE line == mem[h].pend.line
             old == mem[h].view
             view == Append(old, line)
             size == <<Len(journal'), FALSE>>
             m == [mem[h] EXCEPT !.phase = "materialising", !.resid = << >>,
                                 !.view = view, !.size = size]
  <2>1. /\ mem[h].phase = "appending" /\ line \in Line /\ Becomes(h, m) /\ files' = files
        /\ FilesMatch(old, files)
    BY <1>6, <1>a DEF AppendLine, Held, Ready, FileOk
  <2>2. size \in Nat \X BOOLEAN
    <3>1. Len(journal') \in Nat
      BY TypeStep DEF TypeInv, TypeOK
    <3> QED
      BY <3>1
  <2>3. view \in Seq(Line) /\ Len(view) = Len(old) + 1 /\ view # << >> /\ Len(old) \in Nat
        /\ view[Len(old) + 1] = line /\ \A i \in 1..Len(old) : view[i] = old[i]
    BY <1>a, <2>1
  <2>a. << >> \in Seq(Line)
    OBVIOUS
  <2> HIDE DEF view, size
  <2>4. m \in Memory /\ m.phase = "materialising" /\ m.view = view /\ m.pend.line = line
    BY <1>a, <2>2, <2>3, <2>a DEF Memory
  <2> HIDE DEF m, line, old
  <2>5. ASSUME NEW n \in Node \ {line.node}, NEW i \in 1..Len(view),
               IsLast(view, i, n, Len(view))
        PROVE  files'[n] = FileOf(view[i])
    <3>1. i # Len(old) + 1
      BY <2>3, <2>5 DEF IsLast
    <3>2. i \in 1..Len(old)
      BY <2>3, <2>5, <3>1
    <3>3. IsLast(old, i, n, Len(old))
      BY <2>3, <2>5, <3>2 DEF IsLast
    <3> QED
      BY <2>1, <2>3, <3>2, <3>3 DEF FilesMatch
  <2>6. mem'[h] = m => FileOk(h)'
    BY <2>3, <2>4, <2>5 DEF FileOk
  <2> QED
    BY <1>0, <2>1, <2>4, <2>6, FilesOf DEF line, old
<1>7. ASSUME NEW h \in Handle, AppendFails(h)
      PROVE  \A g \in Handle : FileOk(g)'
  <2> DEFINE m(r) == [mem[h] EXCEPT !.phase = AfterError, !.pend = NoWrite, !.resid = r]
  <2>1. /\ mem[h].phase = "appending" /\ mem[h].pend.line \in Line /\ AfterError = "failed"
    BY <1>7, <1>a, <1>b DEF AppendFails, Held, Ready
  <2>2. PICK r \in {Append(mem[h].resid, mem[h].pend.line), << >>} : Becomes(h, m(r))
    BY <1>7 DEF AppendFails
  <2> HIDE DEF m
  <2>3. r \in Seq(Line)
    <3>1. CASE r = << >>
      BY <3>1
    <3>2. CASE r = Append(mem[h].resid, mem[h].pend.line)
      BY <1>a, <2>1, <3>2
    <3> QED
      BY <2>2, <3>1, <3>2
  <2>4. m(r) \in Memory /\ m(r).phase = "failed"
    BY <1>a, <2>1, <2>3, ClosedType DEF Memory, m
  <2> QED
    BY <1>d, <2>1, <2>2, <2>4
<1>8. ASSUME NEW h \in Handle, Materialise(h)
      PROVE  \A g \in Handle : FileOk(g)'
  <2> DEFINE line == mem[h].pend.line
             view == mem[h].view
             m == [mem[h] EXCEPT !.phase = "open", !.pend = NoWrite]
  <2>1. /\ mem[h].phase = "materialising" /\ line \in Line /\ Becomes(h, m)
        /\ files' = [files EXCEPT ![line.node] = FileOf(line)]
    BY <1>8, <1>a DEF Materialise, Held, Ready
  <2>2. /\ view # << >> /\ view[Len(view)] = line
        /\ \A n \in Node \ {line.node}, i \in 1..Len(view) :
             IsLast(view, i, n, Len(view)) => files[n] = FileOf(view[i])
    BY <1>a, <2>1 DEF FileOk
  <2>3. ASSUME NEW n \in Node, NEW i \in 1..Len(view), IsLast(view, i, n, Len(view))
        PROVE  files'[n] = FileOf(view[i])
    <3>1. CASE n = line.node
      <4>1. i = Len(view)
        BY <1>a, <2>2, <2>3, <3>1 DEF IsLast
      <4> QED
        BY <1>0, <2>1, <2>2, <3>1, <4>1
    <3>2. CASE n # line.node
      BY <1>0, <2>1, <2>2, <2>3, <3>2
    <3> QED
      BY <3>1, <3>2
  <2>4. m \in Memory /\ m.phase = "open" /\ m.view = view
    BY <1>a, ClosedType DEF Memory
  <2> HIDE DEF m, view
  <2>5. FilesMatch(view, files')
    BY <2>3 DEF FilesMatch
  <2>6. mem'[h] = m => FileOk(h)'
    BY <2>4, <2>5 DEF FileOk
  <2> QED
    BY <1>0, <2>1, <2>4, <2>6, FilesOf
<1>9. ASSUME NEW h \in Handle, MaterialiseFails(h)
      PROVE  \A g \in Handle : FileOk(g)'
  <2> DEFINE m == [mem[h] EXCEPT !.phase = AfterError, !.pend = NoWrite]
  <2>1. mem[h].phase = "materialising" /\ Becomes(h, m) /\ AfterError = "failed"
    BY <1>9, <1>b DEF MaterialiseFails
  <2>2. m \in Memory /\ m.phase = "failed"
    BY <1>a, <2>1, ClosedType DEF Memory
  <2> HIDE DEF m
  <2> QED
    BY <1>d, <2>1, <2>2
<1>10. ASSUME NEW h \in Handle, Close(h) \/ Crash(h)
       PROVE  \A g \in Handle : FileOk(g)'
  BY <1>10, <1>e DEF Close, Crash
<1>11. ASSUME NEW line \in ForeignLine, ForeignAppend(line)
       PROVE  \A g \in Handle : FileOk(g)'
  BY <1>11, <1>c DEF ForeignAppend
<1>12. CASE UNCHANGED vars
  BY <1>12, <1>c DEF vars
<1> QED
  BY <1>1, <1>2, <1>3, <1>4, <1>5, <1>6, <1>7, <1>8, <1>9, <1>10, <1>11, <1>12 DEF Next

\* What was stored stays its actor's to write, whatever is appended after it.
LEMMA OwnersStep ==
  ASSUME TypeInv, ViewsInv, TurnsInv, FilesInv, [Next]_vars PROVE OwnersOk'
<1>1. ASSUME NEW s \in stored PROVE OwnerOk(journal', s.line.rev, s.actor)
  <2>1. s.line \in Line /\ Placed(journal, s.line) /\ OwnerOk(journal, s.line.rev, s.actor)
    BY <1>1 DEF TypeInv, TypeOK, TurnsInv, KeptOk, FilesInv, OwnersOk
  <2> QED
    BY <2>1, StaysPlaced
<1>2. ASSUME NEW h \in Handle, AppendLine(h) PROVE OwnersOk'
  <2>1. /\ journal' = Append(mem[h].view, mem[h].pend.line)
        /\ mem[h].pend.line.rev = Len(mem[h].view) + 1
        /\ stored' = stored \cup {[line |-> mem[h].pend.line, actor |-> mem[h].pend.actor]}
    BY <1>2, AppendPlaced DEF TurnsInv, AppendLine
  <2>2. OwnerOk(journal', mem[h].pend.line.rev, mem[h].pend.actor)
    <3>1. OwnerOk(journal', Len(journal'), mem[h].pend.actor)
      BY <1>2, <2>1 DEF FilesInv, FileOk, AppendLine
    <3>2. Len(journal') = Len(mem[h].view) + 1
      BY <1>2, <2>1, MemoryType, AppendPlaced DEF TypeInv, TurnsInv
    <3> QED
      BY <2>1, <3>1, <3>2
  <2>3. \A s \in stored' : OwnerOk(journal', s.line.rev, s.actor)
    BY <1>1, <2>1, <2>2
  <2> QED
    BY <2>3 DEF OwnersOk, OwnerOk
<1>3. CASE stored' = stored
  <2>1. \A s \in stored' : OwnerOk(journal', s.line.rev, s.actor)
    BY <1>1, <1>3
  <2> QED
    BY <2>1 DEF OwnersOk, OwnerOk
<1> QED
  BY <1>2, <1>3, StoredMoves

LEMMA FilesCorrect ==
  ASSUME TakesTurns, ForeignFile = {} PROVE Spec => [](TypeInv /\ TurnsInv /\ FilesInv)
<1>1. Init => FilesInv
  <2> SUFFICES ASSUME Init PROVE FilesInv
    OBVIOUS
  <2>1. \A h \in Handle : mem[h].phase = "closed"
    BY DEF Init, Closed
  <2>2. stored = {}
    BY DEF Init
  <2> QED
    BY <2>1, <2>2 DEF FilesInv, OwnersOk, FileOk
<1>2. TypeInv /\ ViewsInv /\ TurnsInv /\ FilesInv /\ [Next]_vars => FilesInv'
  BY FilesStep, OwnersStep DEF FilesInv
<1>3. Spec => [](TypeInv /\ ViewsInv /\ TurnsInv)
  BY TurnsCorrect
<1> QED
  BY <1>1, <1>2, <1>3, PTL DEF Spec

-----------------------------------------------------------------------------
(* Where nothing else appends to the journal: every line is the store's.   *)

\* Lines recovery accepts and, if the guard read true files, rewrites of no interface.
Good(J) == /\ Coherent(J)
           /\ ForeignFile = {} => \A i \in 1..Len(J) : RewriteOk(J, i)

\* The journal is good, and so it is with what a handle still holds in its buffer.
GoodInv == /\ Good(journal)
           /\ \A h \in Handle : mem[h].phase = "failed" => Good(journal \o mem[h].resid)

LEMMA AppendGood ==
  ASSUME NEW J \in Seq(Line), NEW line \in Line, Good(J), Coherent(Append(J, line)),
         ForeignFile = {} => RewriteOk(Append(J, line), Len(J) + 1)
  PROVE  Good(Append(J, line))
<1> DEFINE K == Append(J, line)
<1>1. K \in Seq(Line) /\ Len(K) = Len(J) + 1 /\ Len(J) \in Nat
  OBVIOUS
<1>2. \A i \in 1..Len(J) : K[i] = J[i]
  OBVIOUS
<1> SUFFICES ASSUME ForeignFile = {}, NEW i \in 1..Len(K) PROVE RewriteOk(K, i)
  BY DEF Good
<1> HIDE DEF K
<1>3. CASE i \in 1..Len(J)
  <2>1. \A j \in 1..i : J[j] = K[j]
    BY <1>1, <1>2, <1>3
  <2>2. i <= Len(K)
    BY <1>1, <1>3
  <2> QED
    BY <1>1, <1>3, <2>1, <2>2, SamePrefix DEF Good
<1>4. CASE i = Len(J) + 1
  BY <1>4 DEF K
<1> QED
  BY <1>1, <1>3, <1>4

\* An open of a good journal reads all of it.
LEMMA ReplaysAll ==
  ASSUME NEW J \in Seq(Line), Good(J), NEW k \in 0..Len(J), ReplayStops(J, k)
  PROVE  SubSeq(J, 1, k) = J
<1>1. k = Len(J)
  <2> SUFFICES ASSUME k < Len(J) PROVE FALSE
    OBVIOUS
  <2>1. k + 1 \in 1..Len(J)
    OBVIOUS
  <2> QED
    BY <2>1 DEF Good, Coherent, ReplayStops
<1> QED
  BY <1>1

\* What an append writes is the good next line, whether or not the append returns.
LEMMA PendingGood ==
  ASSUME TypeInv, ViewsInv, TurnsInv, ForeignFile = {} => FilesInv, Good(journal),
         NEW h \in Handle, mem[h].phase = "appending"
  PROVE  /\ mem[h].pend.line \in Line /\ mem[h].resid = << >>
         /\ Flushed(h, mem[h].pend.line) = Append(journal, mem[h].pend.line)
         /\ Good(Append(journal, mem[h].pend.line))
<1> DEFINE line == mem[h].pend.line
<1>1. line \in Line /\ journal \in Seq(Line)
  BY DEF TypeInv, TypeOK, Held, Ready
<1>2. mem[h].view = journal /\ ~torn /\ mem[h].resid = << >>
  BY DEF TurnsInv, TurnOk
<1>3. Coherent(Append(journal, line))
  BY <1>2 DEF ViewsInv, ViewOk
<1>4. ForeignFile = {} => RewriteOk(Append(journal, line), Len(journal) + 1)
  <2>1. Len(Append(journal, line)) = Len(journal) + 1
    BY <1>1
  <2> QED
    BY <1>2, <2>1 DEF FilesInv, FileOk
<1>5. Flushed(h, line) = Append(journal, line)
  BY <1>2 DEF Flushed, Landed
<1> HIDE DEF line
<1>6. Good(Append(journal, line))
  BY <1>1, <1>3, <1>4, AppendGood
<1> QED
  BY <1>1, <1>2, <1>5, <1>6 DEF line

\* What a step of the one live handle has to show of the journal.
LEMMA GoodOf ==
  ASSUME TypeInv, Turns, NEW h \in Handle, NEW m \in Memory, Becomes(h, m),
         mem[h].phase # "closed" \/ \A g \in Handle : mem[g].phase = "closed",
         Good(journal'), m.phase = "failed" => Good(journal' \o m.resid)
  PROVE  GoodInv'
<1>1. mem'[h] = m /\ \A g \in Handle : g # h => mem'[g].phase = "closed"
  BY OthersClosed
<1>2. \A g \in Handle : mem'[g].phase = "failed" => Good(journal' \o mem'[g].resid)
  BY <1>1
<1> QED
  BY <1>2 DEF GoodInv

LEMMA GoodStep ==
  ASSUME TakesTurns, ForeignLine = {}, TypeInv, ViewsInv, TurnsInv,
         ForeignFile = {} => FilesInv, GoodInv, [Next]_vars
  PROVE  GoodInv'
<1>0. Turns /\ journal \in Seq(Line) /\ Good(journal) /\ journal \o << >> = journal
  BY DEF TypeInv, TypeOK, TurnsInv, GoodInv
<1>a. ASSUME NEW h \in Handle
      PROVE  mem[h] \in Memory /\ TurnOk(h) /\ mem[h].resid \in Seq(Line)
  BY MemoryType DEF TypeInv, TurnsInv
<1>b. AfterError = "failed" \/ IoErrors = "none"
  BY StoreAssumption DEF TakesTurns, AfterError
<1>c. ASSUME UNCHANGED <<journal, mem>> PROVE GoodInv'
  BY <1>c DEF GoodInv
<1>d. ASSUME NEW h \in Handle, Becomes(h, Closed), mem[h].phase # "closed", Good(journal')
      PROVE  GoodInv'
  <2>1. Closed.phase = "closed"
    BY DEF Closed
  <2> QED
    BY <1>0, <1>d, <2>1, ClosedType, GoodOf
<1>e. ASSUME NEW h \in Handle, NEW m \in Memory, Becomes(h, m), mem[h].phase # "closed",
             m.phase # "failed", journal' = journal
      PROVE  GoodInv'
  BY <1>0, <1>e, GoodOf
<1>1. ASSUME NEW h \in Handle, NEW lenient \in BOOLEAN, Open(h, lenient)
      PROVE  GoodInv'
  <2> DEFINE m == [Closed EXCEPT !.phase = "repairing", !.lenient = lenient,
                                 !.view = journal']
  <2>1. journal' = journal
    BY <1>0, <1>1, ReplaysAll DEF Open
  <2>2. m \in Memory /\ Becomes(h, m) /\ m.phase = "repairing"
    BY <1>0, <1>1, <2>1, ClosedType DEF Open, Memory, Closed
  <2> HIDE DEF m
  <2>3. \A g \in Handle : mem[g].phase = "closed"
    BY <1>1 DEF Open, TakesTurns
  <2> QED
    BY <1>0, <2>1, <2>2, <2>3, GoodOf
<1>2. ASSUME NEW h \in Handle, FinishOpen(h)
      PROVE  GoodInv'
  <2> DEFINE m == [mem[h] EXCEPT !.phase = "open", !.size = DiskSize]
  <2>1. /\ mem[h].phase = "repairing" /\ journal' = journal
        /\ Becomes(h, m) \/ Becomes(h, Closed)
    BY <1>2 DEF FinishOpen
  <2>2. DiskSize \in Nat \X BOOLEAN
    BY DEF DiskSize, TypeInv, TypeOK
  <2>3. m \in Memory /\ m.phase = "open"
    BY <1>a, <2>2 DEF Memory
  <2> HIDE DEF m
  <2> QED
    BY <1>0, <1>d, <1>e, <2>1, <2>3
<1>3. ASSUME NEW h \in Handle,
             \/ \E n \in Node, p \in Payload, r \in Role : BeginWrite(h, n, p, r)
             \/ \E to \in 1..Len(mem[h].view) : BeginRollback(h, to)
      PROVE  GoodInv'
  <2>1. /\ mem[h].phase = "open" /\ journal' = journal
        /\ \E pend : Becomes(h, [mem[h] EXCEPT !.phase = "appending", !.pend = pend])
    BY <1>3 DEF BeginWrite, BeginRollback, Current, Begin
  <2>2. PICK pend : Becomes(h, [mem[h] EXCEPT !.phase = "appending", !.pend = pend])
    BY <2>1
  <2> DEFINE m == [mem[h] EXCEPT !.phase = "appending", !.pend = pend]
  <2>3. m.phase = "appending"
    BY <1>a DEF Memory
  <2>4. m = mem'[h] /\ mem'[h] \in Memory
    BY <2>2, TypeStep DEF Becomes, TypeInv, TypeOK
  <2> HIDE DEF m
  <2> QED
    BY <1>e, <2>1, <2>2, <2>3, <2>4 DEF m
<1>4. ASSUME NEW h \in Handle, AppendLine(h)
      PROVE  GoodInv'
  <2>1. mem[h].phase = "appending" /\ journal' = Flushed(h, mem[h].pend.line)
    BY <1>4 DEF AppendLine
  <2>2. Good(journal')
    BY <1>0, <2>1, PendingGood
  <2> DEFINE view == Append(mem[h].view, mem[h].pend.line)
             size == <<Len(journal'), FALSE>>
             m == [mem[h] EXCEPT !.phase = "materialising", !.resid = << >>,
                                 !.view = view, !.size = size]
  <2>3. Becomes(h, m)
    BY <1>4 DEF AppendLine
  <2> HIDE DEF view, size
  <2>4. m.phase = "materialising"
    BY <1>a DEF Memory
  <2>5. m = mem'[h] /\ mem'[h] \in Memory
    BY <2>3, TypeStep DEF Becomes, TypeInv, TypeOK
  <2> HIDE DEF m
  <2> QED
    BY <1>0, <2>1, <2>2, <2>3, <2>4, <2>5, GoodOf
<1>5. ASSUME NEW h \in Handle, AppendFails(h)
      PROVE  GoodInv'
  <2> DEFINE line == mem[h].pend.line
             m(r) == [mem[h] EXCEPT !.phase = AfterError, !.pend = NoWrite, !.resid = r]
  <2>1. /\ mem[h].phase = "appending" /\ AfterError = "failed"
    BY <1>5, <1>b DEF AppendFails
  <2>2. /\ line \in Line /\ mem[h].resid = << >> /\ Flushed(h, line) = Append(journal, line)
        /\ Good(Append(journal, line))
    BY <1>0, <2>1, PendingGood
  <2>3. /\ Append(<< >>, line) = <<line>> /\ journal \o <<line>> = Append(journal, line)
        /\ <<line>> \in Seq(Line) /\ << >> \in Seq(Line)
        /\ Append(journal, line) \o << >> = Append(journal, line)
    BY <1>0, <2>2
  <2>4. \/ Becomes(h, m(<<line>>)) /\ journal' = journal
        \/ Becomes(h, m(<< >>)) /\ journal' = Append(journal, line)
    BY <1>5, <2>2, <2>3 DEF AppendFails
  <2>5. ASSUME NEW r \in Seq(Line), Becomes(h, m(r)), Good(journal'), Good(journal' \o r)
        PROVE  GoodInv'
    <3>1. m(r) \in Memory /\ m(r).resid = r
      BY <1>a, <2>1, ClosedType DEF Memory
    <3> HIDE DEF m
    <3> QED
      BY <1>0, <2>1, <2>5, <3>1, GoodOf
  <2> HIDE DEF m, line
  <2> QED
    BY <1>0, <2>2, <2>3, <2>4, <2>5
<1>6. ASSUME NEW h \in Handle, Materialise(h) \/ MaterialiseFails(h)
      PROVE  GoodInv'
  <2> DEFINE m(phase) == [mem[h] EXCEPT !.phase = phase, !.pend = NoWrite]
  <2>1. /\ mem[h].phase = "materialising" /\ journal' = journal
        /\ Becomes(h, m("open")) \/ Becomes(h, m(AfterError))
    BY <1>6 DEF Materialise, MaterialiseFails
  <2>2. mem[h].resid = << >>
    BY <1>a, <2>1 DEF TurnOk
  <2>3. ASSUME NEW phase \in {"open", "failed"}
        PROVE  m(phase) \in Memory /\ m(phase).resid = << >>
    BY <1>a, <2>2, ClosedType DEF Memory
  <2>4. AfterError \in {"open", "failed"}
    BY DEF AfterError
  <2> HIDE DEF m
  <2> QED
    BY <1>0, <2>1, <2>3, <2>4, GoodOf
<1>7. ASSUME NEW h \in Handle, Close(h)
      PROVE  GoodInv'
  <2>1. /\ mem[h].phase \in {"open", "failed"} /\ Becomes(h, Closed)
        /\ journal' = journal \o mem[h].resid
    BY <1>7 DEF Close
  <2>2. CASE mem[h].phase = "open"
    <3>1. mem[h].resid = << >>
      BY <1>a, <2>2 DEF TurnOk
    <3> QED
      BY <1>0, <1>d, <2>1, <3>1
  <2>3. CASE mem[h].phase = "failed"
    BY <1>d, <2>1, <2>3 DEF GoodInv
  <2> QED
    BY <2>1, <2>2, <2>3
<1>8. ASSUME NEW h \in Handle, Crash(h)
      PROVE  GoodInv'
  <2>1. mem[h].phase # "closed" /\ Becomes(h, Closed)
    BY <1>8 DEF Crash
  <2>2. CASE journal' = journal
    BY <1>0, <1>d, <2>1, <2>2
  <2>3. CASE mem[h].phase = "appending" /\ journal' = Flushed(h, mem[h].pend.line)
    <3>1. Good(journal')
      BY <1>0, <2>3, PendingGood
    <3> QED
      BY <1>d, <2>1, <3>1
  <2> QED
    BY <1>8, <2>2, <2>3 DEF Crash
<1>9. ASSUME NEW h \in Handle, NEW n \in Node, RepairFile(h, n)
      PROVE  GoodInv'
  BY <1>9, <1>c DEF RepairFile
<1>10. ASSUME NEW n \in Node, NEW file \in ForeignFile, ForeignEdit(n, file)
       PROVE  GoodInv'
  BY <1>10, <1>c DEF ForeignEdit
<1>11. CASE UNCHANGED vars
  BY <1>11, <1>c DEF vars
<1> QED
  BY <1>1, <1>2, <1>3, <1>4, <1>5, <1>6, <1>7, <1>8, <1>9, <1>10, <1>11 DEF Next

LEMMA GoodCorrect ==
  ASSUME TakesTurns, ForeignLine = {} PROVE Spec => [](TypeInv /\ TurnsInv /\ GoodInv)
<1>1. Init => GoodInv
  <2> SUFFICES ASSUME Init PROVE GoodInv
    OBVIOUS
  <2>1. journal = << >> /\ \A h \in Handle : mem[h].phase = "closed"
    BY DEF Init, Closed
  <2> QED
    BY <2>1 DEF GoodInv, Good, Coherent
<1>2. TypeInv /\ ViewsInv /\ TurnsInv /\ (ForeignFile = {} => FilesInv) /\ GoodInv /\ [Next]_vars
        => GoodInv'
  BY GoodStep
<1>3. Spec => [](TypeInv /\ ViewsInv /\ TurnsInv)
  BY TurnsCorrect
<1>4. CASE ForeignFile = {}
  <2>1. Spec => [](TypeInv /\ TurnsInv /\ FilesInv)
    BY <1>4, FilesCorrect
  <2> QED
    BY <1>1, <1>2, <1>3, <2>1, PTL DEF Spec
<1>5. CASE ForeignFile # {}
  <2>1. TypeInv /\ ViewsInv /\ TurnsInv /\ GoodInv /\ [Next]_vars => GoodInv'
    BY <1>2, <1>5
  <2> QED
    BY <1>1, <1>3, <2>1, PTL DEF Spec
<1> QED
  BY <1>4, <1>5

-----------------------------------------------------------------------------
(* What follows of a store on which processes take turns.                  *)

\* A handle that passes the staleness check answers from the journal on disk, whatever
\* was appended to it, cut from it or left torn between its operations (_assert_current).
THEOREM AnswersAreCurrent == TakesTurns => (Spec => []AnswersFromJournal)
<1> SUFFICES ASSUME TakesTurns PROVE Spec => []AnswersFromJournal
  OBVIOUS
<1>1. TypeInv /\ TurnsInv => AnswersFromJournal
  <2> SUFFICES ASSUME TypeInv, TurnsInv, NEW h \in Handle, Current(h)
               PROVE  mem[h].view = journal
    BY DEF AnswersFromJournal
  <2> QED
    BY CurrentView DEF TurnsInv
<1>2. Spec => [](TypeInv /\ ViewsInv /\ TurnsInv)
  BY TurnsCorrect
<1> QED
  BY <1>1, <1>2, PTL

\* No line whose append returned is ever lost: every open may truncate, and lines the
\* store did not write may follow, but none that an append built on is one replay refuses.
THEOREM StoredStays == TakesTurns => (Spec => []StoredKept)
<1> SUFFICES ASSUME TakesTurns PROVE Spec => []StoredKept
  OBVIOUS
<1>1. TurnsInv => StoredKept
  BY DEF TurnsInv, KeptOk, Placed, StoredKept
<1>2. Spec => [](TypeInv /\ ViewsInv /\ TurnsInv)
  BY TurnsCorrect
<1> QED
  BY <1>1, <1>2, PTL

\* A read is of the journal's newest payload: recovery repaired every file a kill
\* between the append and the replace had left behind, and every file a line that
\* something else appended calls for.
THEOREM ReadsAreNewest == TakesTurns /\ ForeignFile = {} => (Spec => []ReadsAreHeads)
<1> SUFFICES ASSUME TakesTurns, ForeignFile = {} PROVE Spec => []ReadsAreHeads
  OBVIOUS
<1>1. TypeInv /\ TurnsInv /\ FilesInv => ReadsAreHeads
  <2> SUFFICES ASSUME TypeInv, TurnsInv, FilesInv, NEW h \in Handle, Current(h)
               PROVE  FilesMatch(journal, files)
    BY DEF ReadsAreHeads
  <2>1. mem[h].phase = "open" /\ mem[h].view = journal
    BY CurrentView DEF TurnsInv
  <2> QED
    BY <2>1 DEF FilesInv, FileOk
<1>2. Spec => [](TypeInv /\ TurnsInv /\ FilesInv)
  BY FilesCorrect
<1> QED
  BY <1>1, <1>2, PTL

\* The write guard, which reads files, and the divergence check, which reads the
\* journal, agree on every line ever stored.
THEOREM GuardMatchesDivergence ==
  TakesTurns /\ ForeignFile = {} => (Spec => []GuardAgreesWithDivergence)
<1> SUFFICES ASSUME TakesTurns, ForeignFile = {} PROVE Spec => []GuardAgreesWithDivergence
  OBVIOUS
<1>1. TurnsInv /\ FilesInv => GuardAgreesWithDivergence
  <2> SUFFICES ASSUME TurnsInv, FilesInv, NEW s \in stored, s.actor # Nobody
               PROVE  LET i == s.line.rev
                          n == s.line.node
                      IN  /\ Unseen(journal, n, i - 1) => s.actor = OwnerOf[s.line.payload]
                          /\ \A j \in 1 .. i - 1 : IsLast(journal, j, n, i - 1) =>
                                                     s.actor = OwnerOf[journal[j].payload]
    BY DEF GuardAgreesWithDivergence
  <2>1. journal[s.line.rev] = s.line /\ OwnerOk(journal, s.line.rev, s.actor)
    BY DEF TurnsInv, KeptOk, Placed, FilesInv, OwnersOk
  <2> QED
    BY <2>1 DEF OwnerOk
<1>2. Spec => [](TypeInv /\ TurnsInv /\ FilesInv)
  BY FilesCorrect
<1> QED
  BY <1>1, <1>2, PTL

\* The journal stays one that recovery accepts (JournalCoherent): with kills inside an
\* append, writes that raise, re-opens under either policy, and node files that
\* something else changes, which no index is built from.
THEOREM JournalStaysCoherent == TakesTurns /\ ForeignLine = {} => (Spec => []JournalCoherent)
<1> SUFFICES ASSUME TakesTurns, ForeignLine = {} PROVE Spec => []JournalCoherent
  OBVIOUS
<1>1. GoodInv => JournalCoherent
  BY DEF GoodInv, Good, JournalCoherent
<1>2. Spec => [](TypeInv /\ TurnsInv /\ GoodInv)
  BY GoodCorrect
<1> QED
  BY <1>1, <1>2, PTL

\* A node that is an interface changes by rollbacks only, where nothing but the store
\* appends a line or changes the file that the guard reads the kind from.
THEOREM InterfacesAreFixed == Alone => (Spec => []InterfaceOnlyRolledBack)
<1> SUFFICES ASSUME Alone PROVE Spec => []InterfaceOnlyRolledBack
  OBVIOUS
<1>1. GoodInv => InterfaceOnlyRolledBack
  BY DEF Alone, GoodInv, Good, RewriteOk, InterfaceOnlyRolledBack
<1>2. Spec => [](TypeInv /\ TurnsInv /\ GoodInv)
  BY GoodCorrect DEF Alone
<1> QED
  BY <1>1, <1>2, PTL

-----------------------------------------------------------------------------
(* The abstract graph.                                                     *)

\* A line whose quantities all have a unit, or whose payload its node has held.
Fits(line) == line.op = "rollback" \/ line.payload \notin Unitless

\* What a handle is about to append, or still has in its buffer, fits.
PendFits(m) == /\ m.phase = "appending" => Fits(m.pend.line)
               /\ m.phase = "failed" =>
                    m.resid = << >> \/ \E line \in Line : m.resid = <<line>> /\ Fits(line)

FitsInv == \A h \in Handle : PendFits(mem[h])

LEMMA FitsStep ==
  ASSUME TypeInv, FitsInv, NEW h \in Handle, NEW m, Becomes(h, m), PendFits(m)
  PROVE  FitsInv'
<1>1. mem \in [Handle -> Memory]
  BY DEF TypeInv, TypeOK
<1>2. mem'[h] = m /\ \A g \in Handle : g # h => mem'[g] = mem[g]
  BY <1>1 DEF Becomes
<1>3. \A g \in Handle : PendFits(mem'[g])
  BY <1>2 DEF FitsInv
<1> QED
  BY <1>3 DEF FitsInv, PendFits, Fits

LEMMA FitsInvStep ==
  ASSUME Alone, TypeInv, TurnsInv, GoodInv, FitsInv, [Next]_vars PROVE FitsInv'
<1>0. TypeOK
  BY DEF TypeInv
<1>a. ASSUME NEW h \in Handle
      PROVE  mem[h] \in Memory /\ mem[h] \in Held /\ TurnOk(h)
  BY <1>0, MemoryType DEF TurnsInv, TypeInv
<1>b. PendFits(Closed)
  BY DEF PendFits, Closed
<1>c. ASSUME mem' = mem PROVE FitsInv'
  BY <1>c DEF FitsInv, PendFits, Fits
<1>d. ASSUME NEW h \in Handle, NEW m, Becomes(h, m), m.phase \notin {"appending", "failed"}
      PROVE  FitsInv'
  BY <1>d, FitsStep DEF PendFits
<1>e. ASSUME NEW h \in Handle, NEW op, NEW n, NEW version, NEW p, NEW actor,
             Begin(h, op, n, version, p, actor), op = "rollback" \/ p \notin Unitless
      PROVE  FitsInv'
  <2> DEFINE line == [rev |-> Len(mem[h].view) + 1, op |-> op, node |-> n,
                      version |-> version, payload |-> p]
             pend == [op |-> "append", line |-> line, actor |-> actor]
             m == [mem[h] EXCEPT !.phase = "appending", !.pend = pend]
  <2>1. Becomes(h, m)
    BY <1>e DEF Begin
  <2>2. pend.line.op = op /\ pend.line.payload = p
    OBVIOUS
  <2> HIDE DEF pend, line
  <2>3. m.phase = "appending" /\ m.pend = pend
    BY <1>a DEF Memory
  <2> HIDE DEF m
  <2>4. PendFits(m)
    BY <1>e, <2>2, <2>3 DEF PendFits, Fits
  <2> QED
    BY <2>1, <2>4, FitsStep
<1>1. ASSUME NEW h \in Handle, NEW lenient \in BOOLEAN, Open(h, lenient)
      PROVE  FitsInv'
  <2> DEFINE m == [Closed EXCEPT !.phase = "repairing", !.lenient = lenient,
                                 !.view = journal']
  <2>1. m.phase = "repairing" /\ Becomes(h, m)
    BY <1>1 DEF Open, Closed
  <2> HIDE DEF m
  <2> QED
    BY <1>d, <2>1
<1>2. ASSUME NEW h \in Handle, FinishOpen(h)
      PROVE  FitsInv'
  <2> DEFINE m == [mem[h] EXCEPT !.phase = "open", !.size = DiskSize]
  <2>1. m.phase = "open"
    BY <1>a DEF Memory
  <2>2. Becomes(h, m) \/ Becomes(h, Closed)
    BY <1>2 DEF FinishOpen
  <2> HIDE DEF m
  <2> QED
    BY <1>b, <1>d, <2>1, <2>2, FitsStep
<1>3. ASSUME NEW h \in Handle, NEW n \in Node, NEW p \in Payload, NEW r \in Role,
             BeginWrite(h, n, p, r)
      PROVE  FitsInv'
  BY <1>3, <1>e DEF BeginWrite
<1>4. ASSUME NEW h \in Handle, NEW to \in 1..Len(mem[h].view), BeginRollback(h, to)
      PROVE  FitsInv'
  BY <1>4, <1>e DEF BeginRollback
<1>5. ASSUME NEW h \in Handle, AppendLine(h)
      PROVE  FitsInv'
  <2> DEFINE view == Append(mem[h].view, mem[h].pend.line)
             size == <<Len(journal'), FALSE>>
             m == [mem[h] EXCEPT !.phase = "materialising", !.resid = << >>,
                                 !.view = view, !.size = size]
  <2>1. Becomes(h, m)
    BY <1>5 DEF AppendLine
  <2> HIDE DEF view, size
  <2>2. m.phase = "materialising"
    BY <1>a DEF Memory
  <2> HIDE DEF m
  <2> QED
    BY <1>d, <2>1, <2>2
<1>6. ASSUME NEW h \in Handle, AppendFails(h)
      PROVE  FitsInv'
  <2> DEFINE line == mem[h].pend.line
             m(r) == [mem[h] EXCEPT !.phase = AfterError, !.pend = NoWrite, !.resid = r]
  <2>1. /\ AfterError = "failed" /\ line \in Line /\ Fits(line) /\ mem[h].resid = << >>
    BY <1>6, <1>a, StoreAssumption
       DEF AppendFails, Alone, TakesTurns, AfterError, Held, Ready, TurnOk, FitsInv, PendFits
  <2>2. Append(mem[h].resid, line) = <<line>>
    BY <2>1
  <2>3. Becomes(h, m(<<line>>)) \/ Becomes(h, m(<< >>))
    BY <1>6, <2>2 DEF AppendFails
  <2>4. \A r : m(r).phase = AfterError /\ m(r).resid = r
    BY <1>a DEF Memory
  <2> HIDE DEF m, line
  <2>5. PendFits(m(<<line>>)) /\ PendFits(m(<< >>))
    BY <2>1, <2>4 DEF PendFits
  <2> QED
    BY <2>3, <2>5, FitsStep
<1>7. ASSUME NEW h \in Handle, Materialise(h) \/ MaterialiseFails(h)
      PROVE  FitsInv'
  <2> DEFINE m(phase) == [mem[h] EXCEPT !.phase = phase, !.pend = NoWrite]
  <2>1. \/ Becomes(h, m("open"))
        \/ mem[h].phase = "materialising" /\ Becomes(h, m(AfterError))
    BY <1>7 DEF Materialise, MaterialiseFails
  <2>2. \A phase : m(phase).phase = phase /\ m(phase).resid = mem[h].resid
    BY <1>a DEF Memory
  <2> HIDE DEF m
  <2>3. mem[h].phase = "materialising" => mem[h].resid = << >>
    BY <1>a DEF TurnOk
  <2>4. PendFits(m("open")) /\ (mem[h].phase = "materialising" => PendFits(m(AfterError)))
    BY <2>2, <2>3 DEF PendFits, AfterError
  <2> QED
    BY <2>1, <2>4, FitsStep
<1>8. ASSUME NEW h \in Handle, Close(h) \/ Crash(h)
      PROVE  FitsInv'
  BY <1>8, <1>b, FitsStep DEF Close, Crash
<1>9. ASSUME NEW h \in Handle, NEW n \in Node, RepairFile(h, n)
      PROVE  FitsInv'
  BY <1>9, <1>c DEF RepairFile
<1>10. CASE UNCHANGED vars
  BY <1>10, <1>c DEF vars
<1> QED
  BY <1>1, <1>2, <1>3, <1>4, <1>5, <1>6, <1>7, <1>8, <1>9, <1>10 DEF Next, Alone

\* The journal of a store left alone changes only by one good line at its end.
LEMMA JournalGrows ==
  ASSUME Alone, TypeInv, TurnsInv, GoodInv, FitsInv, [Next]_vars
  PROVE  \/ journal' = journal
         \/ \E line \in Line : journal' = Append(journal, line) /\ Fits(line)
<1>0. journal \in Seq(Line)
  BY DEF TypeInv, TypeOK
<1>a. ASSUME NEW h \in Handle
      PROVE  mem[h] \in Memory /\ mem[h] \in Held /\ TurnOk(h) /\ PendFits(mem[h])
  BY MemoryType DEF TurnsInv, TypeInv, FitsInv
<1>b. ASSUME NEW h \in Handle, mem[h].phase = "appending",
             journal' = Flushed(h, mem[h].pend.line)
      PROVE  \E line \in Line : journal' = Append(journal, line) /\ Fits(line)
  <2>1. /\ mem[h].pend.line \in Line /\ Fits(mem[h].pend.line)
        /\ mem[h].resid = << >> /\ ~torn
    BY <1>a, <1>b DEF Held, Ready, TurnOk, PendFits
  <2> QED
    BY <1>b, <2>1 DEF Flushed, Landed
<1>1. ASSUME NEW h \in Handle, NEW lenient \in BOOLEAN, Open(h, lenient)
      PROVE  journal' = journal
  BY <1>0, <1>1, ReplaysAll DEF Open, GoodInv
<1>2. ASSUME NEW h \in Handle, Close(h)
      PROVE  \/ journal' = journal
             \/ \E line \in Line : journal' = Append(journal, line) /\ Fits(line)
  <2>1. journal' = journal \o mem[h].resid /\ mem[h].phase \in {"open", "failed"}
    BY <1>2 DEF Close
  <2>2. mem[h].resid = << >> \/ \E line \in Line : mem[h].resid = <<line>> /\ Fits(line)
    BY <1>a, <2>1 DEF TurnOk, PendFits
  <2>3. journal \o << >> = journal /\ \A line \in Line : journal \o <<line>> = Append(journal, line)
    BY <1>0
  <2> QED
    BY <2>1, <2>2, <2>3
<1>3. ASSUME NEW h \in Handle, AppendLine(h) \/ AppendFails(h) \/ Crash(h)
      PROVE  \/ journal' = journal
             \/ \E line \in Line : journal' = Append(journal, line) /\ Fits(line)
  BY <1>b, <1>3 DEF AppendLine, AppendFails, Crash
<1>4. ASSUME NEW h \in Handle,
             \/ \E n \in Node : RepairFile(h, n)
             \/ FinishOpen(h) \/ Materialise(h) \/ MaterialiseFails(h)
             \/ \E n \in Node, p \in Payload, r \in Role : BeginWrite(h, n, p, r)
             \/ \E to \in 1..Len(mem[h].view) : BeginRollback(h, to)
      PROVE  journal' = journal
  BY <1>4 DEF RepairFile, FinishOpen, BeginWrite, BeginRollback, Materialise, MaterialiseFails
<1>5. CASE UNCHANGED vars
  BY <1>5 DEF vars
<1> QED
  BY <1>1, <1>2, <1>3, <1>4, <1>5 DEF Next, Alone

\* The log a journal is read as, line by line.
LEMMA LogIsSeq ==
  ASSUME NEW J \in Seq(Line)
  PROVE  LET L == [i \in 1..Len(J) |-> [node |-> J[i].node, payload |-> J[i].payload]]
         IN  /\ L \in Seq([node : Node, payload : Payload]) /\ Len(L) = Len(J)
             /\ \A i \in 1..Len(J) : L[i].node = J[i].node /\ L[i].payload = J[i].payload
<1> DEFINE L == [i \in 1..Len(J) |-> [node |-> J[i].node, payload |-> J[i].payload]]
<1>1. Len(J) \in Nat
  OBVIOUS
<1>2. \A i \in 1..Len(J) : [node |-> J[i].node, payload |-> J[i].payload]
                              \in [node : Node, payload : Payload]
  BY LineFields
<1>3. L \in [1..Len(J) -> [node : Node, payload : Payload]]
  BY <1>2
<1>4. L \in Seq([node : Node, payload : Payload]) /\ DOMAIN L = 1..Len(J)
  BY <1>1, <1>3, SeqDef
<1>5. Len(L) = Len(J)
  BY <1>1, <1>4, LenProperties
<1> QED
  BY <1>4, <1>5

\* One good line more is one accepted change more.
LEMMA LineIsChange ==
  ASSUME ForeignFile = {}, journal \in Seq(Line), journal' \in Seq(Line), Good(journal'),
         NEW line \in Line, journal' = Append(journal, line), Fits(line)
  PROVE  Graph!Next
<1> DEFINE n == line.node
           k == Len(journal)
           change == [node |-> line.node, payload |-> line.payload]
<1>1. /\ n \in Node /\ line.payload \in Payload /\ k \in Nat
      /\ Len(journal') = k + 1 /\ journal'[k + 1] = line
      /\ \A i \in 1..k : journal'[i] = journal[i]
  BY DEF Line
<1>2. /\ LogBar \in Seq([node : Node, payload : Payload]) /\ Len(LogBar) = k
      /\ \A i \in 1..k : /\ LogBar[i].node = journal[i].node
                         /\ LogBar[i].payload = journal[i].payload
                         /\ LogBar[i] \in [node : Node, payload : Payload]
  <2>1. /\ LogBar \in Seq([node : Node, payload : Payload]) /\ Len(LogBar) = k
        /\ \A i \in 1..k : /\ LogBar[i].node = journal[i].node
                           /\ LogBar[i].payload = journal[i].payload
    BY LogIsSeq DEF LogBar
  <2> QED
    BY <2>1, ElementOfSeq
<1>3. change \in [node : Node, payload : Payload]
  BY <1>1
<1>4. LogBar' = Append(LogBar, change)
  <2>1. LogBar' \in Seq([node : Node, payload : Payload]) /\ Len(LogBar') = k + 1
    BY <1>1, LogIsSeq DEF LogBar
  <2>2. \A i \in 1..k+1 : LogBar'[i] = [node |-> journal'[i].node, payload |-> journal'[i].payload]
    BY <1>1 DEF LogBar
  <2>3. \A i \in 1..k : LogBar[i] = [node |-> journal[i].node, payload |-> journal[i].payload]
    BY <1>1 DEF LogBar
  <2> DEFINE L == Append(LogBar, change)
  <2>4. /\ L \in Seq([node : Node, payload : Payload]) /\ Len(L) = k + 1
        /\ L[k + 1] = change /\ \A i \in 1..k : L[i] = LogBar[i]
    BY <1>1, <1>2, <1>3
  <2> HIDE DEF L
  <2>5. ASSUME NEW i \in 1..k+1 PROVE LogBar'[i] = L[i]
    <3>1. CASE i = k + 1
      BY <1>1, <2>2, <2>4, <3>1
    <3>2. CASE i \in 1..k
      BY <1>1, <2>2, <2>3, <2>4, <3>2
    <3> QED
      BY <1>1, <3>1, <3>2
  <2>6. LogBar' = L
    BY <2>1, <2>4, <2>5, SeqEqual
  <2> QED
    BY <2>6 DEF L
<1>5. LineOk(journal', k + 1) /\ RewriteOk(journal', k + 1) /\ k + 1 - 1 = k
  BY <1>1 DEF Good, Coherent
<1>6. Unseen(journal', n, k) <=> Graph!IsNewest(0, n)
  BY <1>1, <1>2 DEF Unseen, Graph!IsNewest
<1>7. \A i \in 1..k : IsLast(journal', i, n, k) <=> Graph!IsNewest(i, n)
  BY <1>1, <1>2 DEF IsLast, Graph!IsNewest
<1> HIDE DEF k
<1>8. CASE line.op = "create"
  <2>1. Graph!IsNewest(0, n) /\ 0 \in 0..Len(LogBar)
    BY <1>1, <1>2, <1>5, <1>6, <1>8 DEF LineOk
  <2>2. OwnerOf[line.payload] \in Role /\ line.payload \notin Unitless
    BY <1>1, <1>8, StoreAssumption DEF Fits
  <2>3. Graph!Write(n, line.payload, OwnerOf[line.payload])
    BY <1>4, <2>1, <2>2 DEF Graph!Write
  <2> QED
    BY <1>1, <2>2, <2>3 DEF Graph!Next
<1>9. CASE line.op = "write"
  <2>1. PICK i \in 1..k : IsLast(journal', i, n, k)
    BY <1>1, <1>5, <1>9 DEF LineOk
  <2>2. Graph!IsNewest(i, n) /\ i \in 0..Len(LogBar) /\ i # 0
    BY <1>1, <1>2, <1>7, <2>1
  <2>3. LogBar[i].payload \in Payload
    BY <1>2, <2>1
  <2>4. OwnerOf[LogBar[i].payload] \in Role /\ line.payload \notin Unitless
    BY <1>9, <2>3, StoreAssumption DEF Fits
  <2>5. LogBar[i].payload \notin Interface
    BY <1>1, <1>2, <1>5, <1>9, <2>1 DEF RewriteOk
  <2>6. Graph!Write(n, line.payload, OwnerOf[LogBar[i].payload])
    BY <1>4, <2>2, <2>4, <2>5 DEF Graph!Write
  <2> QED
    BY <1>1, <2>4, <2>6 DEF Graph!Next
<1>10. CASE line.op = "rollback"
  <2>1. PICK j \in 1..k : journal'[j].node = n /\ journal'[j].payload = line.payload
    BY <1>1, <1>5, <1>10 DEF LineOk
  <2>2. j \in 1..Len(LogBar) /\ LogBar[j].node = n /\ LogBar[j].payload = line.payload
    BY <1>1, <1>2, <2>1
  <2>3. LogBar[j] = change
    BY <1>2, <2>2
  <2> QED
    BY <1>4, <2>2, <2>3 DEF Graph!Next, Graph!Rollback
<1> QED
  BY <1>1, <1>5, <1>8, <1>9, <1>10 DEF LineOk

\* A journal, one file per node and processes that take turns on them, are killed and
\* meet write errors, implement one list of accepted changes: every line is a change
\* the rules for owners, interfaces, units and rollbacks allow (write_node, rollback).
THEOREM StoreImplementsGraph == Alone => (Spec => GraphSpec)
<1> SUFFICES ASSUME Alone PROVE Spec => GraphSpec
  OBVIOUS
<1>1. Init => FitsInv /\ Graph!Init
  BY DEF Init, FitsInv, PendFits, Closed, LogBar, Graph!Init
<1>2. TypeInv /\ TurnsInv /\ GoodInv /\ FitsInv /\ [Next]_vars => FitsInv'
  BY FitsInvStep
<1>3. TypeInv /\ TurnsInv /\ GoodInv /\ FitsInv /\ TypeInv' /\ GoodInv' /\ [Next]_vars
        => [Graph!Next]_LogBar
  <2> SUFFICES ASSUME TypeInv, TurnsInv, GoodInv, FitsInv, TypeInv', GoodInv', [Next]_vars
               PROVE  [Graph!Next]_LogBar
    OBVIOUS
  <2>1. CASE journal' = journal
    BY <2>1 DEF LogBar
  <2>2. ASSUME NEW line \in Line, journal' = Append(journal, line), Fits(line)
        PROVE  Graph!Next
    BY <2>2, LineIsChange DEF Alone, TypeInv, TypeOK, GoodInv
  <2> QED
    BY <2>1, <2>2, JournalGrows
<1>4. Spec => [](TypeInv /\ TurnsInv /\ GoodInv)
  BY GoodCorrect DEF Alone
<1>5. Spec => Graph!Init /\ [][Graph!Next]_LogBar
  BY <1>1, <1>2, <1>3, <1>4, PTL DEF Spec
<1> QED
  BY <1>5 DEF GraphSpec, Graph!Spec
=============================================================================
