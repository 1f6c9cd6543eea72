-------------------------- MODULE RunRecordsProofs --------------------------
(***************************************************************************)
(* Proofs about a run's files, for any number of lines, sessions and       *)
(* records: wherever the orchestrator ends, the ledger follows the event   *)
(* log, no record is lost, and what an ended session lists is sealed whole *)
(* and its own.                                                            *)
(***************************************************************************)
EXTENDS RunRecords, TLAPS

\* What is open is whole: a line cut short is there only until the next opening.
NoTornLine == doing # "down" => ~logTorn /\ ~ledTorn

\* The orchestrator handles files only while no session writes them.
BoxStill ==
  /\ alive => doing \in {"session", "down", "project"}
  /\ doing \notin {"emptying", "collect"} => batch = {}
  /\ doing # "collect" => hand = {}
  /\ batch \subseteq outbox /\ hand \subseteq outbox /\ batch \cap hand = {}

\* A session starts on an empty outbox, and only it fills it.
OwnBox ==
  /\ doing = "emptying" => outbox = batch
  /\ doing \in {"session", "collect"} => \A f \in outbox : f.by = n

\* The record of this session with that id is sealed.
SealedAs(r, s) == [id |-> r, by |-> s, at |-> s, whole |-> TRUE]

TakenSealed == \A r \in taken : SealedAs(r, n) \in sealed

RecordsInv ==
  /\ RecordsTypeOK /\ NoTornLine /\ LedgerFollows
  /\ BoxStill /\ OwnBox /\ TakenSealed /\ Conserved /\ ListedSealed

-----------------------------------------------------------------------------
(* Sequences and files.                                                    *)

\* A start that is as long as the whole is the whole.
LEMMA StartWhole ==
  ASSUME NEW S, NEW T, NEW s \in Seq(S), NEW t \in Seq(T), IsStart(s, t), Len(s) = Len(t)
  PROVE  s = t
BY DEF IsStart

\* What comes next can be appended to a start.
LEMMA StartNext ==
  ASSUME NEW S, NEW T, NEW s \in Seq(S), NEW t \in Seq(T), IsStart(s, t), Len(s) < Len(t),
         t[Len(s) + 1] \in S
  PROVE  IsStart(Append(s, t[Len(s) + 1]), t)
BY DEF IsStart

\* A start stays one when the whole grows.
LEMMA StartGrows ==
  ASSUME NEW S, NEW T, NEW s \in Seq(S), NEW t \in Seq(T), IsStart(s, t), NEW x \in T
  PROVE  IsStart(s, Append(t, x))
BY DEF IsStart

LEMMA InLines == ASSUME NEW S, NEW s \in Seq(S), NEW k \in 1 .. Len(s) PROVE s[k] \in S
OBVIOUS

\* Files by their types.
LEMMA FileTypes ==
  ASSUME NEW f \in File, n \in Number, NEW whole \in BOOLEAN
  PROVE  /\ Made(f) \in [id : Record, by : Number]
         /\ Copy(f, whole) \in [id : Record, by : Number, at : Number, whole : BOOLEAN]
         /\ [f EXCEPT !.whole = TRUE] \in File
         /\ f.id \in Record /\ f.by \in Number
         /\ Made(Copy(f, whole)) = Made(f) /\ Made([f EXCEPT !.whole = TRUE]) = Made(f)
BY DEF File, Made, Copy

-----------------------------------------------------------------------------
(* Types.                                                                  *)

\* The types at the start.
LEMMA RecordsTypeInit == RecordsInit => RecordsTypeOK
<1> SUFFICES ASSUME RecordsInit PROVE RecordsTypeOK
  OBVIOUS
<1>1. <<>> \in Seq(Line) /\ Len(<<>>) = 0 /\ <<>> \in Seq(Line \cup {Junk})
      /\ <<>> \in Seq([session : Number, records : SUBSET Record])
  OBVIOUS
<1>2. 0 \in Number /\ 0 <= MaxLines
  BY RecordsAssumption DEF Number
<1> QED
  BY <1>1, <1>2 DEF RecordsInit, RecordsTypeOK

\* Every step keeps the types.
LEMMA RecordsTypeStep == RecordsInv /\ [RecordsNext]_recordsVars => RecordsTypeOK'
<1> SUFFICES ASSUME RecordsTypeOK, NoTornLine, BoxStill, [RecordsNext]_recordsVars
             PROVE  RecordsTypeOK'
  BY DEF RecordsInv
<1> USE DEF eventLog, led, boxes, collection
<1>n. n \in Number /\ outbox \subseteq File /\ batch \subseteq outbox /\ hand \subseteq outbox
  BY DEF RecordsTypeOK, BoxStill
<1>1. CASE Open
  BY <1>1 DEF Open, TailCut, RecordsTypeOK
<1>2. CASE Project
  <2>1. implied[Len(ledger) + 1] \in Line
    <3>1. Len(ledger) + 1 \in 1 .. Len(implied) /\ implied \in Seq(Line)
      BY <1>2 DEF Project, RecordsTypeOK
    <3> QED
      BY <3>1, InLines
  <2>2. ledger' = Append(ledger, implied[Len(ledger) + 1])
    BY <1>2 DEF Project, Landed, NoTornLine
  <2>3. ledger' \in Seq(Line \cup {Junk})
    BY <2>1, <2>2 DEF RecordsTypeOK
  <2> QED
    BY <1>2, <2>3 DEF Project, RecordsTypeOK
<1>3. CASE Projected
  BY <1>3 DEF Projected, RecordsTypeOK
<1>4. ASSUME NEW line \in Line, EmitLine(line) PROVE RecordsTypeOK'
  <2>1. implied' = Append(implied, line)
    BY <1>4 DEF EmitLine, Landed, NoTornLine
  <2>2. implied' \in Seq(Line) /\ Len(implied') <= MaxLines
    BY <1>4, <2>1, RecordsAssumption DEF EmitLine, RecordsTypeOK
  <2> QED
    BY <1>4, <2>2 DEF EmitLine, RecordsTypeOK
<1>5. CASE BeginSession
  <2>1. n + 1 \in Number
    BY <1>5, RecordsAssumption DEF BeginSession, RecordsTypeOK, Number
  <2> QED
    BY <1>5, <2>1 DEF BeginSession, RecordsTypeOK
<1>6. ASSUME NEW f \in batch, DiscardEarlier(f) \/ RefuseFile(f) PROVE RecordsTypeOK'
  <2>1. Made(f) \in [id : Record, by : Number]
    BY <1>n, FileTypes
  <2> QED
    BY <1>6, <2>1 DEF DiscardEarlier, RefuseFile, MoveAside, RecordsTypeOK
<1>7. CASE StartSession
  BY <1>7 DEF StartSession, RecordsTypeOK
<1>8. ASSUME NEW r \in Record, MakeFile(r) PROVE RecordsTypeOK'
  <2>1. [id |-> r, by |-> n, whole |-> FALSE] \in File /\ [id |-> r, by |-> n] \in [id : Record, by : Number]
    BY <1>n DEF File
  <2> QED
    BY <1>8, <2>1 DEF MakeFile, RecordsTypeOK
<1>9. ASSUME NEW f \in outbox, WriteFile(f) PROVE RecordsTypeOK'
  <2>1. [f EXCEPT !.whole = TRUE] \in File
    BY <1>n, FileTypes
  <2> QED
    BY <1>9, <2>1 DEF WriteFile, RecordsTypeOK
<1>10. CASE EndOfSession
  BY <1>10 DEF EndOfSession, RecordsTypeOK
<1>11. ASSUME NEW f \in batch, TakeFile(f) PROVE RecordsTypeOK'
  BY <1>11, <1>n DEF TakeFile, RecordsTypeOK
<1>12. CASE SealPart
  <2>1. PICK f \in hand : sealed' = sealed \cup {Copy(f, FALSE)}
    BY <1>12 DEF SealPart
  <2>2. Copy(f, FALSE) \in [id : Record, by : Number, at : Number, whole : BOOLEAN]
    BY <1>n, FileTypes
  <2> QED
    BY <1>12, <2>1, <2>2 DEF SealPart, RecordsTypeOK
<1>13. CASE SealWhole
  <2>1. PICK f \in hand : sealed' = (sealed \ {Copy(f, FALSE)}) \cup {Copy(f, TRUE)}
    BY <1>13 DEF SealWhole
  <2>2. Copy(f, TRUE) \in [id : Record, by : Number, at : Number, whole : BOOLEAN]
    BY <1>n, FileTypes
  <2> QED
    BY <1>13, <2>1, <2>2 DEF SealWhole, RecordsTypeOK
<1>14. CASE Unlink
  <2>1. PICK f \in hand : outbox' = outbox \ {f} /\ taken' = taken \cup {f.id}
    BY <1>14 DEF Unlink
  <2>2. f.id \in Record
    BY <1>n, FileTypes
  <2> QED
    BY <1>14, <2>1, <2>2 DEF Unlink, RecordsTypeOK
<1>15. CASE EmitEnd
  <2>1. [session |-> n, records |-> taken] \in [session : Number, records : SUBSET Record]
    BY <1>n DEF RecordsTypeOK
  <2>2. ends' \in Seq([session : Number, records : SUBSET Record])
    BY <1>15, <2>1 DEF EmitEnd, RecordsTypeOK
  <2> QED
    BY <1>15, <2>2 DEF EmitEnd, RecordsTypeOK
<1>16. CASE Die
  <2>1. logTorn' \in BOOLEAN /\ ledTorn' \in BOOLEAN
    BY <1>16 DEF Die, RecordsTypeOK
  <2> QED
    BY <1>16, <2>1 DEF Die, RecordsTypeOK
<1>17. CASE UNCHANGED recordsVars
  BY <1>17 DEF recordsVars, RecordsTypeOK
<1> QED
  BY <1>1, <1>2, <1>3, <1>4, <1>5, <1>6, <1>7, <1>8, <1>9, <1>10, <1>11, <1>12, <1>13, <1>14, <1>15, <1>16, <1>17
  DEF RecordsNext, Orchestrator, SessionWrites

-----------------------------------------------------------------------------
(* The event log and the ledger.                                           *)

\* The steps that write the log or the ledger, end the orchestrator or open it.
LEMMA LogSteps ==
  ASSUME [RecordsNext]_recordsVars
  PROVE  \/ Open \/ Project \/ Projected \/ (\E line \in Line : EmitLine(line)) \/ EmitEnd \/ Die
         \/ /\ UNCHANGED <<led, eventLog>>
            /\ \/ doing' = doing
               \/ doing \notin {"down", "project"} /\ doing' \notin {"down", "project"}
BY DEF RecordsNext, recordsVars, Orchestrator, SessionWrites, BeginSession, DiscardEarlier, TakeFile,
   RefuseFile, StartSession, Emptied, MakeFile, WriteFile, EndOfSession, SealPart, SealWhole, Unlink

LEMMA WholeStep == NoTornLine /\ [RecordsNext]_recordsVars => NoTornLine'
<1> SUFFICES ASSUME NoTornLine, [RecordsNext]_recordsVars PROVE NoTornLine'
  OBVIOUS
<1> USE DEF eventLog, led
<1>1. CASE Open
  BY <1>1 DEF Open, TailCut, NoTornLine
<1>2. CASE Project \/ Projected \/ EmitEnd \/ \E line \in Line : EmitLine(line)
  BY <1>2 DEF Project, Projected, EmitLine, EmitEnd, NoTornLine
<1>3. CASE Die
  BY <1>3 DEF Die, NoTornLine
<1>4. CASE /\ UNCHANGED <<led, eventLog>>
           /\ \/ doing' = doing
              \/ doing \notin {"down", "project"} /\ doing' \notin {"down", "project"}
  BY <1>4 DEF NoTornLine
<1> QED
  BY <1>1, <1>2, <1>3, <1>4, LogSteps

\* The ledger is the start of what the log implies, and all of it when the loop goes on.
LEMMA LedgerStep == RecordsInv /\ [RecordsNext]_recordsVars => LedgerFollows'
<1> SUFFICES ASSUME RecordsInv, [RecordsNext]_recordsVars PROVE LedgerFollows'
  OBVIOUS
<1> USE DEF eventLog, led
<1>t. implied \in Seq(Line) /\ ledger \in Seq(Line \cup {Junk})
  BY DEF RecordsInv, RecordsTypeOK
<1>i. IsStart(ledger, implied) /\ (doing \notin {"down", "project"} => ledger = implied)
  BY DEF RecordsInv, LedgerFollows
<1>1. CASE Open
  BY <1>1, <1>i DEF Open, LedgerFollows
<1>2. CASE Project
  <2>1. ledger' = Append(ledger, implied[Len(ledger) + 1]) /\ implied' = implied
    BY <1>2 DEF Project, Landed, RecordsInv, NoTornLine
  <2>2. Len(ledger) < Len(implied)
    BY <1>2 DEF Project
  <2>3. implied[Len(ledger) + 1] \in Line \cup {Junk}
    BY <1>t, <2>2, InLines
  <2>4. IsStart(ledger', implied')
    BY <1>t, <1>i, <2>1, <2>2, <2>3, StartNext
  <2> QED
    BY <1>2, <2>4 DEF Project, LedgerFollows
<1>3. CASE Projected
  <2>1. ledger = implied
    BY <1>3, <1>t, <1>i, StartWhole DEF Projected
  <2> QED
    BY <1>3, <1>i, <2>1 DEF Projected, LedgerFollows
<1>4. ASSUME NEW line \in Line, EmitLine(line) PROVE LedgerFollows'
  <2>1. implied' = Append(implied, line) /\ ledger' = ledger
    BY <1>4 DEF EmitLine, Landed, RecordsInv, NoTornLine
  <2>2. IsStart(ledger', implied')
    BY <1>t, <1>i, <2>1, StartGrows
  <2> QED
    BY <1>4, <2>2 DEF EmitLine, LedgerFollows
<1>5. CASE EmitEnd \/ Die
  BY <1>5, <1>i DEF EmitEnd, Die, LedgerFollows
<1>6. CASE /\ UNCHANGED <<led, eventLog>>
           /\ \/ doing' = doing
              \/ doing \notin {"down", "project"} /\ doing' \notin {"down", "project"}
  BY <1>6, <1>i DEF LedgerFollows
<1> QED
  BY <1>1, <1>2, <1>3, <1>4, <1>5, <1>6, LogSteps

-----------------------------------------------------------------------------
(* The records.                                                            *)

\* The steps that leave the files alone.
NoFiles == UNCHANGED <<boxes, written, n>>

LEMMA FileSteps ==
  ASSUME [RecordsNext]_recordsVars
  PROVE  \/ NoFiles /\ UNCHANGED ends
         \/ BeginSession \/ (\E f \in batch : DiscardEarlier(f) \/ RefuseFile(f))
         \/ (\E r \in Record : MakeFile(r)) \/ (\E f \in outbox : WriteFile(f))
         \/ SealPart \/ SealWhole \/ Unlink \/ EmitEnd
BY DEF RecordsNext, recordsVars, boxes, eventLog, NoFiles, Orchestrator, SessionWrites, Open, Project,
   Projected, EmitLine, StartSession, EndOfSession, TakeFile, Die

\* The orchestrator's lists are of files that are there.
LEMMA BoxStep == BoxStill /\ [RecordsNext]_recordsVars => BoxStill'
<1> SUFFICES ASSUME BoxStill, [RecordsNext]_recordsVars PROVE BoxStill'
  OBVIOUS
<1> USE DEF boxes, collection
<1>1. CASE Open \/ Project \/ Projected \/ EmitEnd \/ \E line \in Line : EmitLine(line)
  BY <1>1 DEF Open, Project, Projected, EmitEnd, EmitLine, BoxStill
<1>2. CASE BeginSession \/ StartSession \/ EndOfSession
  BY <1>2 DEF BeginSession, StartSession, Emptied, EndOfSession, BoxStill
<1>3. ASSUME NEW f \in batch, DiscardEarlier(f) PROVE BoxStill'
  BY <1>3 DEF DiscardEarlier, MoveAside, BoxStill
<1>4. ASSUME NEW f \in batch, RefuseFile(f) PROVE BoxStill'
  BY <1>4 DEF RefuseFile, MoveAside, BoxStill
<1>5. ASSUME NEW f \in batch, TakeFile(f) PROVE BoxStill'
  BY <1>5 DEF TakeFile, BoxStill
<1>6. ASSUME NEW r \in Record, MakeFile(r) PROVE BoxStill'
  BY <1>6 DEF MakeFile, BoxStill
<1>7. ASSUME NEW f \in outbox, WriteFile(f) PROVE BoxStill'
  BY <1>7 DEF WriteFile, BoxStill
<1>8. CASE SealPart \/ SealWhole
  <2>1. UNCHANGED <<doing, alive, outbox, batch, hand>>
    BY <1>8 DEF SealPart, SealWhole
  <2> QED
    BY <2>1 DEF BoxStill
<1>9. CASE Unlink
  BY <1>9 DEF Unlink, BoxStill
<1>10. CASE Die
  BY <1>10 DEF Die, BoxStill
<1>11. CASE UNCHANGED recordsVars
  BY <1>11 DEF recordsVars, BoxStill
<1> QED
  BY <1>1, <1>2, <1>3, <1>4, <1>5, <1>6, <1>7, <1>8, <1>9, <1>10, <1>11
  DEF RecordsNext, Orchestrator, SessionWrites

\* What a session finds in the outbox is its own.
LEMMA OwnStep == BoxStill /\ OwnBox /\ [RecordsNext]_recordsVars => OwnBox'
<1> SUFFICES ASSUME BoxStill, OwnBox, [RecordsNext]_recordsVars PROVE OwnBox'
  OBVIOUS
<1> USE DEF boxes, collection
<1>1. CASE Open \/ Project \/ Projected \/ EmitEnd \/ Die \/ \E line \in Line : EmitLine(line)
  BY <1>1 DEF Open, Project, Projected, EmitEnd, Die, EmitLine, OwnBox
<1>2. CASE BeginSession \/ StartSession \/ EndOfSession
  BY <1>2 DEF BeginSession, StartSession, Emptied, EndOfSession, OwnBox
<1>3. ASSUME NEW f \in batch, DiscardEarlier(f) PROVE OwnBox'
  BY <1>3 DEF DiscardEarlier, MoveAside, OwnBox
<1>4. ASSUME NEW f \in batch, RefuseFile(f) \/ TakeFile(f) PROVE OwnBox'
  BY <1>4 DEF RefuseFile, TakeFile, MoveAside, OwnBox
<1>5. ASSUME NEW r \in Record, MakeFile(r) PROVE OwnBox'
  BY <1>5 DEF MakeFile, BoxStill, OwnBox
<1>6. ASSUME NEW f \in outbox, WriteFile(f) PROVE OwnBox'
  <2>1. [f EXCEPT !.whole = TRUE].by = f.by
    OBVIOUS
  <2>2. doing # "emptying" /\ outbox' = (outbox \ {f}) \cup {[f EXCEPT !.whole = TRUE]}
    BY <1>6 DEF WriteFile, BoxStill
  <2> QED
    BY <1>6, <2>1, <2>2 DEF WriteFile, OwnBox
<1>7. CASE SealPart \/ SealWhole \/ Unlink
  BY <1>7 DEF SealPart, SealWhole, Unlink, OwnBox
<1>8. CASE UNCHANGED recordsVars
  BY <1>8 DEF recordsVars, OwnBox
<1> QED
  BY <1>1, <1>2, <1>3, <1>4, <1>5, <1>6, <1>7, <1>8 DEF RecordsNext, Orchestrator, SessionWrites

\* A sealed file that is whole stays.
LEMMA SealedStays ==
  ASSUME [RecordsNext]_recordsVars, NEW c \in sealed, c.whole = TRUE
  PROVE  c \in sealed'
<1> USE DEF boxes
<1>1. CASE SealWhole
  BY <1>1 DEF SealWhole, Copy
<1>2. CASE sealed \subseteq sealed'
  BY <1>2
<1>3. SealWhole \/ sealed \subseteq sealed'
  BY FileSteps DEF NoFiles, BeginSession, DiscardEarlier, RefuseFile, MakeFile, WriteFile, SealPart,
     Unlink, EmitEnd
<1> QED
  BY <1>1, <1>2, <1>3

\* What this collection has taken is sealed whole.
LEMMA TakenStep == RecordsInv /\ [RecordsNext]_recordsVars => TakenSealed'
<1> SUFFICES ASSUME RecordsInv, [RecordsNext]_recordsVars, NEW r \in taken'
             PROVE  SealedAs(r, n') \in sealed'
  BY DEF TakenSealed
<1> USE DEF boxes, collection
<1>1. CASE r \in taken /\ n' = n
  <2>1. SealedAs(r, n) \in sealed /\ SealedAs(r, n).whole = TRUE
    BY <1>1 DEF RecordsInv, TakenSealed, SealedAs
  <2> QED
    BY <1>1, <2>1, SealedStays
<1>2. ASSUME NEW f \in hand, CopyWhole(f), r = f.id, UNCHANGED <<sealed, n>>, doing = "collect"
      PROVE  SealedAs(r, n') \in sealed'
  <2>1. f.by = n
    BY <1>2 DEF RecordsInv, BoxStill, OwnBox
  <2> QED
    BY <1>2, <2>1 DEF CopyWhole, Copy, SealedAs
<1>3. CASE Unlink
  BY <1>1, <1>2, <1>3 DEF Unlink
<1>4. (taken' \subseteq taken /\ n' = n) \/ taken' = {} \/ Unlink
  BY DEF RecordsNext, recordsVars, Orchestrator, SessionWrites, Open, Project, Projected, EmitLine,
     BeginSession, DiscardEarlier, StartSession, MakeFile, WriteFile, EndOfSession, TakeFile,
     RefuseFile, SealPart, SealWhole, EmitEnd, Die
<1> QED
  BY <1>1, <1>3, <1>4

\* Where a record is.
Kept(w, outside, aside, inside) ==
  \/ w \in aside
  \/ \E f \in outside : Made(f) = w
  \/ \E c \in inside : Made(c) = w /\ c.whole

\* No record is lost by a step.
LEMMA ConservedStep == RecordsInv /\ [RecordsNext]_recordsVars => Conserved'
<1> SUFFICES ASSUME RecordsInv, [RecordsNext]_recordsVars, NEW w \in written'
             PROVE  Kept(w, outbox', setAside', sealed')
  BY DEF Conserved, Kept
<1> USE DEF boxes, collection
<1>t. n \in Number /\ outbox \subseteq File /\ batch \subseteq outbox /\ hand \subseteq outbox
      /\ sealed \subseteq [id : Record, by : Number, at : Number, whole : BOOLEAN]
  BY DEF RecordsInv, RecordsTypeOK, BoxStill
<1>k. w \in written => Kept(w, outbox, setAside, sealed)
  BY DEF RecordsInv, Conserved, Kept
<1>s. \A c \in sealed : c.whole => c \in sealed'
  BY <1>t, SealedStays
<1>1. CASE NoFiles \/ BeginSession \/ EmitEnd
  BY <1>1, <1>k DEF NoFiles, BeginSession, EmitEnd
<1>2. ASSUME NEW f \in batch, DiscardEarlier(f) \/ RefuseFile(f)
      PROVE  Kept(w, outbox', setAside', sealed')
  BY <1>2, <1>k DEF DiscardEarlier, RefuseFile, MoveAside, Kept
<1>3. ASSUME NEW r \in Record, MakeFile(r)
      PROVE  Kept(w, outbox', setAside', sealed')
  <2> DEFINE f == [id |-> r, by |-> n, whole |-> FALSE]
  <2>1. f \in outbox' /\ Made(f) = [id |-> r, by |-> n]
    BY <1>3 DEF MakeFile, Made
  <2>2. outbox \subseteq outbox' /\ UNCHANGED <<setAside, sealed>>
        /\ written' = written \cup {[id |-> r, by |-> n]}
    BY <1>3 DEF MakeFile
  <2> QED
    BY <1>k, <2>1, <2>2 DEF Kept
<1>4. ASSUME NEW f \in outbox, WriteFile(f)
      PROVE  Kept(w, outbox', setAside', sealed')
  <2> DEFINE g == [f EXCEPT !.whole = TRUE]
  <2>1. Made(g) = Made(f)
    BY <1>t, FileTypes
  <2> HIDE DEF g
  <2>2. outbox' = (outbox \ {f}) \cup {g} /\ UNCHANGED <<setAside, sealed, written>>
    BY <1>4 DEF WriteFile, g
  <2> QED
    BY <1>k, <2>1, <2>2 DEF Kept
<1>5. CASE SealPart \/ SealWhole
  <2>1. UNCHANGED <<outbox, setAside, written>>
    BY <1>5 DEF SealPart, SealWhole
  <2> QED
    BY <1>k, <1>s, <2>1 DEF Kept
<1>6. CASE Unlink
  <2>1. PICK f \in hand : CopyWhole(f) /\ outbox' = outbox \ {f}
    BY <1>6 DEF Unlink
  <2>2. Copy(f, TRUE) \in sealed /\ Made(Copy(f, TRUE)) = Made(f) /\ Copy(f, TRUE).whole = TRUE
    BY <2>1 DEF CopyWhole, Copy, Made
  <2>3. UNCHANGED <<setAside, sealed, written>>
    BY <1>6 DEF Unlink
  <2> QED
    BY <1>k, <2>1, <2>2, <2>3 DEF Kept
<1> QED
  BY <1>1, <1>2, <1>3, <1>4, <1>5, <1>6, FileSteps

\* What the ended sessions list stays sealed, and the next one's list is.
LEMMA ListedStep == RecordsInv /\ [RecordsNext]_recordsVars => ListedSealed'
<1> SUFFICES ASSUME RecordsInv, [RecordsNext]_recordsVars,
                    NEW k \in DOMAIN ends', NEW r \in ends'[k].records
             PROVE  SealedAs(r, ends'[k].session) \in sealed'
  BY DEF ListedSealed, SealedAs
<1>1. CASE k \in DOMAIN ends /\ ends'[k] = ends[k]
  <2>1. SealedAs(r, ends[k].session) \in sealed
    BY <1>1 DEF RecordsInv, ListedSealed, SealedAs
  <2>2. SealedAs(r, ends[k].session).whole = TRUE
    BY DEF SealedAs
  <2> QED
    BY <1>1, <2>1, <2>2, SealedStays
<1>2. CASE EmitEnd
  <2> DEFINE last == [session |-> n, records |-> taken]
  <2>1. ends' = Append(ends, last) /\ sealed' = sealed
    BY <1>2 DEF EmitEnd, boxes
  <2>2. ends \in Seq([session : Number, records : SUBSET Record])
    BY DEF RecordsInv, RecordsTypeOK
  <2> HIDE DEF last
  <2>3. (k \in DOMAIN ends /\ ends'[k] = ends[k]) \/ ends'[k] = last
    BY <2>1, <2>2
  <2>4. CASE ends'[k] = last
    BY <2>1, <2>4 DEF last, RecordsInv, TakenSealed
  <2> QED
    BY <1>1, <2>3, <2>4
<1>3. CASE ends' = ends
  BY <1>1, <1>3
<1> QED
  BY <1>2, <1>3, FileSteps DEF BeginSession, DiscardEarlier, RefuseFile, MakeFile, WriteFile, SealPart,
     SealWhole, Unlink, eventLog

-----------------------------------------------------------------------------
\* Everything holds of a run that has no file yet.
LEMMA RecordsInvInit == RecordsInit => RecordsInv
<1> SUFFICES ASSUME RecordsInit PROVE RecordsInv
  OBVIOUS
<1>1. NoTornLine /\ BoxStill /\ OwnBox /\ TakenSealed /\ Conserved
  BY DEF RecordsInit, NoTornLine, BoxStill, OwnBox, TakenSealed, Conserved
<1>2. LedgerFollows
  BY DEF RecordsInit, LedgerFollows, IsStart
<1>3. ListedSealed
  BY DEF RecordsInit, ListedSealed
<1> QED
  BY <1>1, <1>2, <1>3, RecordsTypeInit DEF RecordsInv

LEMMA RecordsInvStep == RecordsInv /\ [RecordsNext]_recordsVars => RecordsInv'
BY RecordsTypeStep, WholeStep, LedgerStep, BoxStep, OwnStep, TakenStep, ConservedStep, ListedStep
DEF RecordsInv

LEMMA RecordsInvCorrect == RecordsSpec => []RecordsInv
BY RecordsInvInit, RecordsInvStep, PTL DEF RecordsSpec

\* Every variable keeps its type, whenever the orchestrator ends and is opened again.
THEOREM RecordsTypes == RecordsSpec => []RecordsTypeOK
<1>1. RecordsInv => RecordsTypeOK
  BY DEF RecordsInv
<1> QED
  BY <1>1, RecordsInvCorrect, PTL

\* The ledger is the start of what the log implies wherever a write was cut, so
\* opening the record again is never refused (require_projection, project_ledger).
THEOREM LedgerFollowsLog == RecordsSpec => []LedgerFollows
<1>1. RecordsInv => LedgerFollows
  BY DEF RecordsInv
<1> QED
  BY <1>1, RecordsInvCorrect, PTL

\* A record a session made is in the outbox, set aside or sealed whole (collect,
\* _write_sealed, empty_outbox).
THEOREM RecordsConserved == RecordsSpec => []Conserved
<1>1. RecordsInv => Conserved
  BY DEF RecordsInv
<1> QED
  BY <1>1, RecordsInvCorrect, PTL

\* What a session's end lists is sealed whole and is that session's (collect, SessionEnded).
THEOREM ListedAreSealed == RecordsSpec => []ListedSealed
<1>1. RecordsInv => ListedSealed
  BY DEF RecordsInv
<1> QED
  BY <1>1, RecordsInvCorrect, PTL
=============================================================================
