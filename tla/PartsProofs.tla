---------------------------- MODULE PartsProofs ----------------------------
(***************************************************************************)
(* Proofs about the parts that MCParts puts side by side: the sentinel's   *)
(* and the reaper's own, and that a behaviour of the parts side by side is *)
(* one of each part, so that what is proved of a part holds there too.     *)
(***************************************************************************)
EXTENDS MCParts, ApprovalQueueProofs, SessionsProofs, RunRecordsProofs, DesktopShellProofs, TLAPS

-----------------------------------------------------------------------------
(* The sentinel, for any number of hooks, of writes by others and of       *)
(* killed hooks: a check nothing interferes with leaves the file as the    *)
(* session found it or the session halted, whatever hooks were killed or   *)
(* raced before it; and, if the orchestrator appends only while no hook is *)
(* at work, no check takes a line of the store's away.                     *)

(* Types.                                                                  *)

LEMMA JournalTypes ==
  ASSUME NEW S, NEW s \in Seq(S), NEW x \in S
  PROVE  /\ Append(s, x) \in Seq(S)
         /\ s # <<>> => [s EXCEPT ![1] = x] \in Seq(S) /\ SubSeq(s, 1, Len(s) - 1) \in Seq(S)
<1>1. Append(s, x) \in Seq(S)
  OBVIOUS
<1>2. ASSUME s # <<>> PROVE [s EXCEPT ![1] = x] \in Seq(S)
  BY <1>2
<1>3. ASSUME s # <<>> PROVE SubSeq(s, 1, Len(s) - 1) \in Seq(S)
  BY <1>3
<1> QED
  BY <1>1, <1>2, <1>3

\* A hook at work goes on, and stays the one at work.
LEMMA GoesType ==
  ASSUME SentinelTypeOK, Busy, NEW here \in Step, Goes(here), here # "idle", holder' = holder
  PROVE  hook' \in [Hook -> Step] /\ \A h \in Hook : hook'[h] # "idle" <=> holder' = h
BY DEF SentinelTypeOK, Busy, Goes

LEMMA StartsTyped == SentinelInit => SentinelTypeOK
<1> SUFFICES ASSUME SentinelInit PROVE SentinelTypeOK
  OBVIOUS
<1>1. First \in Seq({"own", "other"})
  BY DEF First
<1>2. saved \in RecordType /\ base \in RecordType
  BY <1>1 DEF SentinelInit, Baseline, RecordType
<1>3. hook \in [Hook -> Step] /\ \A h \in Hook : hook[h] = "idle" /\ holder # h
  BY SentinelAssumption DEF SentinelInit, Step
<1>4. file \in [holds : {"kept", "changed", "gone"}, sig : Nat]
  BY DEF SentinelInit
<1>5. writes \in 0 .. MaxWrites /\ hookKills \in 0 .. MaxHookKills
  BY SentinelAssumption DEF SentinelInit
<1> QED
  BY <1>1, <1>2, <1>3, <1>4, <1>5 DEF SentinelInit, SentinelTypeOK

\* Every step keeps the types.
LEMMA StaysTyped == SentinelTypeOK /\ [SentinelNext]_sentinelVars => SentinelTypeOK'
<1> SUFFICES ASSUME SentinelTypeOK, [SentinelNext]_sentinelVars PROVE SentinelTypeOK'
  OBVIOUS
<1> USE DEF protected, record, sentinelPast
<1>b. Busy => holder \in Hook
  BY DEF Busy, SentinelTypeOK
<1>1. CASE WritesFile
  <2>1. file' \in [holds : {"kept", "changed", "gone"}, sig : Nat]
    BY <1>1 DEF WritesFile, SentinelTypeOK
  <2>2. writes' \in 0 .. MaxWrites
    BY <1>1, SentinelAssumption DEF WritesFile, SentinelTypeOK
  <2>3. calm' \in BOOLEAN /\ UNCHANGED <<journal, record, holder, hook, fair, owned, hookKills>>
    BY <1>1 DEF WritesFile
  <2> QED
    BY <2>1, <2>2, <2>3 DEF SentinelTypeOK
<1>2. CASE WritesJournal
  <2>1. journal' \in Seq({"own", "other"})
    <3>1. journal \in Seq({"own", "other"}) /\ "other" \in {"own", "other"}
      BY DEF SentinelTypeOK
    <3>2. \/ journal' = Append(journal, "other")
          \/ journal # <<>> /\ journal' = [journal EXCEPT ![1] = "other"]
          \/ journal # <<>> /\ journal' = SubSeq(journal, 1, Len(journal) - 1)
      BY <1>2 DEF WritesJournal
    <3> QED
      BY <3>1, <3>2, JournalTypes
  <2>2. writes' \in 0 .. MaxWrites
    BY <1>2, SentinelAssumption DEF WritesJournal, SentinelTypeOK
  <2> QED
    BY <1>2, <2>1, <2>2 DEF WritesJournal, SentinelTypeOK
<1>3. CASE StoreAppends
  <2>1. journal' \in Seq({"own", "other"})
    BY <1>3, JournalTypes DEF StoreAppends, SentinelTypeOK
  <2>2. writes' \in 0 .. MaxWrites
    BY <1>3, SentinelAssumption DEF StoreAppends, SentinelTypeOK
  <2> QED
    BY <1>3, <2>1, <2>2 DEF StoreAppends, SentinelTypeOK
<1>4. ASSUME NEW h \in Hook, TakeLock(h) PROVE SentinelTypeOK'
  <2>1. hook' \in [Hook -> Step]
    BY <1>4 DEF TakeLock, SentinelTypeOK, Step
  <2>2. \A g \in Hook : hook'[g] # "idle" <=> holder' = g
    BY <1>4, SentinelAssumption DEF TakeLock, SentinelTypeOK
  <2> QED
    BY <1>4, <2>1, <2>2 DEF TakeLock, SentinelTypeOK
<1>5. CASE LookAtFile
  <2>1. \E here \in {"journal", "digest"} : Goes(here)
    BY <1>5 DEF LookAtFile
  <2>2. Busy /\ holder' = holder
    BY <1>5 DEF LookAtFile, At
  <2>3. hook' \in [Hook -> Step] /\ \A h \in Hook : hook'[h] # "idle" <=> holder' = h
    BY <2>1, <2>2, GoesType DEF Step
  <2> QED
    BY <1>5, <2>3 DEF LookAtFile, SentinelTypeOK
<1>6. CASE DigestFile
  <2>1. \E here \in {"verify", "restore"} : Goes(here)
    BY <1>6 DEF DigestFile
  <2>2. Busy /\ holder' = holder
    BY <1>6 DEF DigestFile, At
  <2>3. hook' \in [Hook -> Step] /\ \A h \in Hook : hook'[h] # "idle" <=> holder' = h
    BY <2>1, <2>2, GoesType DEF Step
  <2> QED
    BY <1>6, <2>3 DEF DigestFile, SentinelTypeOK
<1>7. CASE RestoreFile
  <2>1. hook' \in [Hook -> Step] /\ \A h \in Hook : hook'[h] # "idle" <=> holder' = h
    BY <1>7, GoesType DEF RestoreFile, At, Step
  <2>2. file' \in [holds : {"kept", "changed", "gone"}, sig : Nat]
    BY <1>7 DEF RestoreFile, SentinelTypeOK
  <2> QED
    BY <1>7, <2>1, <2>2 DEF RestoreFile, SentinelTypeOK
<1>8. CASE VerifySig
  <2>1. \E here \in {"journal", "bytes"} : Goes(here)
    BY <1>8 DEF VerifySig
  <2>2. Busy /\ holder' = holder
    BY <1>8 DEF VerifySig, At
  <2>3. hook' \in [Hook -> Step] /\ \A h \in Hook : hook'[h] # "idle" <=> holder' = h
    BY <2>1, <2>2, GoesType DEF Step
  <2>4. base' \in RecordType /\ after' \in Nat
    BY <1>8 DEF VerifySig, SentinelTypeOK, RecordType
  <2> QED
    BY <1>8, <2>3, <2>4 DEF VerifySig, SentinelTypeOK
<1>9. CASE VerifyBytes
  <2>1. hook' \in [Hook -> Step] /\ \A h \in Hook : hook'[h] # "idle" <=> holder' = h
    BY <1>9, GoesType DEF VerifyBytes, At, Step
  <2>2. base' \in RecordType
    BY <1>9 DEF VerifyBytes, SentinelTypeOK, RecordType
  <2> QED
    BY <1>9, <2>1, <2>2 DEF VerifyBytes, SentinelTypeOK
<1>10. CASE RecordSig
  <2>1. hook' \in [Hook -> Step] /\ \A h \in Hook : hook'[h] # "idle" <=> holder' = h
    BY <1>10, GoesType DEF RecordSig, At, Step
  <2>2. base' \in RecordType
    BY <1>10 DEF RecordSig, SigVerified, SentinelTypeOK, RecordType
  <2> QED
    BY <1>10, <2>1, <2>2 DEF RecordSig, SentinelTypeOK
<1>11. CASE ReadJournal
  <2>1. \E here \in {"size", "save", "rewrite"} : Goes(here)
    BY <1>11 DEF ReadJournal
  <2>2. Busy /\ holder' = holder
    BY <1>11 DEF ReadJournal, At
  <2>3. hook' \in [Hook -> Step] /\ \A h \in Hook : hook'[h] # "idle" <=> holder' = h
    BY <2>1, <2>2, GoesType DEF Step
  <2> QED
    BY <1>11, <2>3 DEF ReadJournal, SentinelTypeOK
<1>12. CASE RecordSize
  <2>1. hook' \in [Hook -> Step] /\ \A h \in Hook : hook'[h] # "idle" <=> holder' = h
    BY <1>12, GoesType DEF RecordSize, At, Step
  <2>2. Len(journal) \in Nat
    BY DEF SentinelTypeOK
  <2>3. base' \in RecordType
    BY <1>12, <2>2 DEF RecordSize, SentinelTypeOK, RecordType
  <2> QED
    BY <1>12, <2>1, <2>3 DEF RecordSize, SentinelTypeOK
<1>13. CASE RecordText
  <2>1. hook' \in [Hook -> Step] /\ \A h \in Hook : hook'[h] # "idle" <=> holder' = h
    BY <1>13, GoesType DEF RecordText, At, Step
  <2>2. base' \in RecordType
    BY <1>13 DEF RecordText, SentinelTypeOK, RecordType
  <2> QED
    BY <1>13, <2>1, <2>2 DEF RecordText, SentinelTypeOK
<1>14. CASE RestoreJournal
  <2>1. hook' \in [Hook -> Step] /\ \A h \in Hook : hook'[h] # "idle" <=> holder' = h
    BY <1>14, GoesType DEF RestoreJournal, At, Step
  <2>2. journal' \in Seq({"own", "other"})
    BY <1>14 DEF RestoreJournal, SentinelTypeOK, RecordType
  <2> QED
    BY <1>14, <2>1, <2>2 DEF RestoreJournal, SentinelTypeOK
<1>15. CASE Save
  <2>1. hook' \in [Hook -> Step] /\ \A h \in Hook : hook'[h] # "idle" <=> holder' = h
    BY <1>15, GoesType DEF Save, At, Step
  <2> QED
    BY <1>15, <2>1 DEF Save, SentinelTypeOK
<1>16. CASE Unlock \/ KillHook
  <2>1. hook' = [hook EXCEPT ![holder] = "idle"] /\ holder' = NoHook /\ Busy
    BY <1>16 DEF Unlock, KillHook, Goes, At
  <2>2. hook' \in [Hook -> Step] /\ \A h \in Hook : hook'[h] = "idle"
    BY <1>b, <2>1 DEF SentinelTypeOK, Step
  <2>3. \A h \in Hook : hook'[h] # "idle" <=> holder' = h
    BY <2>1, <2>2, SentinelAssumption
  <2>4. hookKills' \in 0 .. MaxHookKills
    BY <1>16, SentinelAssumption DEF Unlock, KillHook, SentinelTypeOK
  <2> QED
    BY <1>16, <2>1, <2>2, <2>3, <2>4 DEF Unlock, KillHook, SentinelTypeOK
<1>17. CASE UNCHANGED sentinelVars
  BY <1>17 DEF sentinelVars, SentinelTypeOK
<1> QED
  BY <1>1, <1>2, <1>3, <1>4, <1>5, <1>6, <1>7, <1>8, <1>9, <1>10, <1>11, <1>12, <1>13, <1>14, <1>15,
     <1>16, <1>17 DEF SentinelNext, Writers, Checks

\* Every variable keeps its type, and the hook at work is the one that holds the lock.
THEOREM SentinelTypes == SentinelSpec => []SentinelTypeOK
BY StartsTyped, StaysTyped, PTL DEF SentinelSpec

-----------------------------------------------------------------------------
(* The file.                                                               *)

\* A signature that was recorded is not of a later write.
SigsPast == saved.sig <= file.sig /\ base.sig <= file.sig /\ after <= file.sig

\* A signature that is recorded, or about to be, is of what must be there.
Vouched(sig) == file.sig = sig => file.holds = "kept"

SigsVouch ==
  /\ ~saved.halted => Vouched(saved.sig)
  /\ ~base.halted => Vouched(base.sig)
  /\ At("record") /\ ~base.halted => Vouched(after)
  /\ At("look") => ~base.halted

\* What a check has done so far stands while nothing else writes.
DoneSoFar ==
  calm =>
    /\ At("verify") \/ At("bytes") => file.holds = "kept"
    /\ At("record") \/ At("journal") \/ At("size") \/ At("text") \/ At("rewrite") \/ At("save") =>
         file.holds = "kept" \/ base.halted
    /\ At("saved") => file.holds = "kept" \/ saved.halted

FileInv == SentinelTypeOK /\ SigsPast /\ SigsVouch /\ DoneSoFar

\* The steps of a hook under way: it is at one and goes to another.
LEMMA WhereItIs ==
  ASSUME SentinelTypeOK, NEW here, NEW next, At(here), Goes(next), holder' = holder
  PROVE  \A other : (At(other) <=> other = here) /\ (At(other)' <=> other = next)
BY DEF SentinelTypeOK, At, Busy, Goes

\* Where the hook at work is does not change with what others do.
LEMMA WhereItStays ==
  ASSUME UNCHANGED <<holder, hook>>
  PROVE  \A here : At(here)' <=> At(here)
BY DEF At, Busy

\* No hook is at work once the lock is free.
LEMMA NobodyIsAt == ASSUME holder' = NoHook PROVE \A here : ~At(here)'
BY DEF At, Busy

LEMMA FileStep == FileInv /\ [SentinelNext]_sentinelVars => FileInv'
<1> SUFFICES ASSUME FileInv, [SentinelNext]_sentinelVars
             PROVE  SigsPast' /\ SigsVouch' /\ DoneSoFar'
  BY StaysTyped DEF FileInv
<1> USE DEF protected, record, sentinelPast
<1>t. /\ file.sig \in Nat /\ saved.sig \in Nat /\ base.sig \in Nat /\ after \in Nat
      /\ saved \in RecordType /\ base \in RecordType
  BY DEF FileInv, SentinelTypeOK, RecordType
<1>i. SentinelTypeOK /\ SigsPast /\ SigsVouch /\ DoneSoFar
  BY DEF FileInv
<1>1. CASE WritesFile
  <2>1. file'.sig = file.sig + 1 /\ calm' = FALSE /\ UNCHANGED <<saved, base, after>>
    BY <1>1 DEF WritesFile
  <2>2. At("look")' => At("look")
    BY <1>1, WhereItStays DEF WritesFile
  <2> QED
    BY <1>t, <1>i, <2>1, <2>2 DEF SigsPast, SigsVouch, Vouched, DoneSoFar
<1>2. CASE WritesJournal \/ StoreAppends
  <2>1. UNCHANGED <<file, saved, base, after, holder, hook>> /\ calm' \in {FALSE, calm}
    BY <1>2 DEF WritesJournal, StoreAppends
  <2>2. \A here : At(here)' <=> At(here)
    BY <2>1, WhereItStays
  <2>3. SigsPast' /\ SigsVouch'
    BY <1>i, <2>1, <2>2 DEF SigsPast, SigsVouch, Vouched
  <2>4. calm' => calm
    BY <2>1
  <2>5. DoneSoFar'
    BY <1>i, <2>1, <2>2, <2>4 DEF DoneSoFar
  <2> QED
    BY <2>3, <2>5
<1>3. ASSUME NEW h \in Hook, TakeLock(h) PROVE SigsPast' /\ SigsVouch' /\ DoneSoFar'
  <2>1. At("look")' /\ ~saved.halted /\ base' = saved /\ UNCHANGED <<file, saved, after>>
    BY <1>3, SentinelAssumption DEF TakeLock, At, Busy, SentinelTypeOK, FileInv
  <2>2. \A here : At(here)' => here = "look"
    BY <2>1 DEF At
  <2> QED
    BY <1>i, <2>1, <2>2 DEF SigsPast, SigsVouch, Vouched, DoneSoFar
<1>4. CASE LookAtFile
  <2>1. PICK next \in {"journal", "digest"} :
          Goes(next) /\ (next = "journal" => file.sig = base.sig)
    BY <1>4 DEF LookAtFile
  <2>2. UNCHANGED <<file, saved, base, after, holder, calm>> /\ At("look")
    BY <1>4 DEF LookAtFile
  <2>3. \A here : (At(here) <=> here = "look") /\ (At(here)' <=> here = next)
    BY <1>i, <2>1, <2>2, WhereItIs
  <2> QED
    BY <1>i, <2>1, <2>2, <2>3 DEF SigsPast, SigsVouch, Vouched, DoneSoFar
<1>5. CASE DigestFile
  <2>1. PICK next \in {"verify", "restore"} :
          Goes(next) /\ (next = "verify" => file.holds = "kept")
    BY <1>5 DEF DigestFile
  <2>2. UNCHANGED <<file, saved, base, after, holder, calm>> /\ At("digest")
    BY <1>5 DEF DigestFile
  <2>3. \A here : (At(here) <=> here = "digest") /\ (At(here)' <=> here = next)
    BY <1>i, <2>1, <2>2, WhereItIs
  <2> QED
    BY <1>i, <2>1, <2>2, <2>3 DEF SigsPast, SigsVouch, Vouched, DoneSoFar
<1>6. CASE RestoreFile
  <2>1. /\ file'.sig = file.sig + 1 /\ file'.holds = "kept"
        /\ UNCHANGED <<saved, base, after, holder, calm>> /\ At("restore") /\ Goes("verify")
    BY <1>6 DEF RestoreFile
  <2>2. \A here : (At(here) <=> here = "restore") /\ (At(here)' <=> here = "verify")
    BY <1>i, <2>1, WhereItIs
  <2> QED
    BY <1>t, <1>i, <2>1, <2>2 DEF SigsPast, SigsVouch, Vouched, DoneSoFar
<1>7. CASE VerifySig /\ file.holds = "gone"
  <2>1. /\ base' = [base EXCEPT !.halted = TRUE] /\ At("verify") /\ Goes("journal")
        /\ UNCHANGED <<file, saved, after, holder, calm>>
    BY <1>7 DEF VerifySig
  <2>2. base'.halted /\ base'.sig = base.sig
    BY <1>t, <2>1 DEF RecordType
  <2>3. \A here : (At(here) <=> here = "verify") /\ (At(here)' <=> here = "journal")
    BY <1>i, <2>1, WhereItIs
  <2> QED
    BY <1>i, <2>1, <2>2, <2>3 DEF SigsPast, SigsVouch, Vouched, DoneSoFar
<1>8. CASE VerifySig /\ file.holds # "gone"
  <2>1. /\ after' = file.sig /\ At("verify") /\ Goes("bytes")
        /\ UNCHANGED <<file, saved, base, holder, calm>>
    BY <1>8 DEF VerifySig
  <2>2. \A here : (At(here) <=> here = "verify") /\ (At(here)' <=> here = "bytes")
    BY <1>i, <2>1, WhereItIs
  <2> QED
    BY <1>t, <1>i, <2>1, <2>2 DEF SigsPast, SigsVouch, Vouched, DoneSoFar
<1>9. CASE VerifyBytes
  <2>1. /\ base' = [base EXCEPT !.halted = file.holds # "kept"] /\ At("bytes") /\ Goes("record")
        /\ UNCHANGED <<file, saved, after, holder, calm>>
    BY <1>9 DEF VerifyBytes
  <2>2. (base'.halted <=> file.holds # "kept") /\ base'.sig = base.sig
    BY <1>t, <2>1 DEF RecordType
  <2>3. \A here : (At(here) <=> here = "bytes") /\ (At(here)' <=> here = "record")
    BY <1>i, <2>1, WhereItIs
  <2> QED
    BY <1>i, <2>1, <2>2, <2>3 DEF SigsPast, SigsVouch, Vouched, DoneSoFar
<1>10. CASE RecordSig
  <2>1. /\ base' = [base EXCEPT !.sig = after] /\ At("record") /\ Goes("journal")
        /\ UNCHANGED <<file, saved, after, holder, calm>>
    BY <1>10 DEF RecordSig, SigVerified
  <2>2. base'.halted = base.halted /\ base'.sig = after
    BY <1>t, <2>1 DEF RecordType
  <2>3. \A here : (At(here) <=> here = "record") /\ (At(here)' <=> here = "journal")
    BY <1>i, <2>1, WhereItIs
  <2> QED
    BY <1>i, <2>1, <2>2, <2>3 DEF SigsPast, SigsVouch, Vouched, DoneSoFar
<1>11. CASE ReadJournal \/ RecordSize \/ RecordText \/ RestoreJournal
  <2>1. PICK here \in {"journal", "size", "text", "rewrite"}, next \in {"size", "save", "rewrite", "text"} :
          At(here) /\ Goes(next)
    BY <1>11 DEF ReadJournal, RecordSize, RecordText, RestoreJournal
  <2>2. UNCHANGED <<file, saved, after, holder, calm>>
    BY <1>11 DEF ReadJournal, RecordSize, RecordText, RestoreJournal
  <2>3. base'.sig = base.sig /\ base'.halted = base.halted
    BY <1>11, <1>t DEF ReadJournal, RecordSize, RecordText, RestoreJournal, RecordType
  <2>4. \A at : (At(at) <=> at = here) /\ (At(at)' <=> at = next)
    BY <1>i, <2>1, <2>2, WhereItIs
  <2> QED
    BY <1>i, <2>1, <2>2, <2>3, <2>4 DEF SigsPast, SigsVouch, Vouched, DoneSoFar
<1>12. CASE Save
  <2>1. At("save") /\ Goes("saved") /\ saved' = base /\ UNCHANGED <<file, base, after, holder, calm>>
    BY <1>12 DEF Save
  <2>2. \A here : (At(here) <=> here = "save") /\ (At(here)' <=> here = "saved")
    BY <1>i, <2>1, WhereItIs
  <2> QED
    BY <1>i, <2>1, <2>2 DEF SigsPast, SigsVouch, Vouched, DoneSoFar
<1>13. CASE Unlock \/ KillHook
  <2>1. UNCHANGED <<file, saved, base, after, calm>> /\ holder' = NoHook
    BY <1>13 DEF Unlock, KillHook
  <2> QED
    BY <1>i, <2>1, NobodyIsAt DEF SigsPast, SigsVouch, Vouched, DoneSoFar
<1>14. CASE UNCHANGED sentinelVars
  <2>1. UNCHANGED <<file, saved, base, after, calm, holder, hook>>
    BY <1>14 DEF sentinelVars
  <2> QED
    BY <1>i, <2>1, WhereItStays DEF SigsPast, SigsVouch, Vouched, DoneSoFar
<1> QED
  BY <1>1, <1>2, <1>3, <1>4, <1>5, <1>6, <1>7, <1>8, <1>9, <1>10, <1>11, <1>12, <1>13, <1>14
  DEF SentinelNext, Writers, Checks

LEMMA FileStart == SentinelInit => FileInv
<1> SUFFICES ASSUME SentinelInit PROVE FileInv
  OBVIOUS
<1>1. \A here : ~At(here)
  BY DEF SentinelInit, At, Busy
<1>2. saved.sig = 0 /\ base.sig = 0 /\ after = 0 /\ file.sig = 0 /\ file.holds = "kept"
  BY DEF SentinelInit, Baseline
<1> QED
  BY <1>1, <1>2, StartsTyped DEF FileInv, SigsPast, SigsVouch, Vouched, DoneSoFar

\* A check nothing interferes with leaves the file as the session found it or halts
\* the session, whatever hook was killed or raced before (_revert, check).
THEOREM FilePutBack == SentinelSpec => []PutBack
<1>1. FileInv => PutBack
  BY DEF FileInv, DoneSoFar, PutBack
<1> QED
  BY <1>1, FileStart, FileStep, PTL DEF SentinelSpec

-----------------------------------------------------------------------------
(* The journal.                                                            *)

\* A journal of that many lines, the store's every one.
Own(m) == [k \in 1 .. m |-> "own"]

\* The start of such a journal is one, and so is a longer one.
LEMMA OwnLines ==
  ASSUME NEW m \in Nat
  PROVE  /\ Own(m) \in Seq({"own", "other"}) /\ Len(Own(m)) = m
         /\ Append(Own(m), "own") = Own(m + 1)
         /\ \A k \in 0 .. m : SubSeq(Own(m), 1, k) = Own(k)
<1>1. Own(m) \in Seq({"own", "other"}) /\ Len(Own(m)) = m
  BY DEF Own
<1>2. Append(Own(m), "own") = Own(m + 1)
  BY DEF Own
<1>3. ASSUME NEW k \in 0 .. m PROVE SubSeq(Own(m), 1, k) = Own(k)
  BY DEF Own
<1> QED
  BY <1>1, <1>2, <1>3

\* A record of the journal's first lines.
FirstLines(r) == r.size <= owned /\ r.text = Own(r.size)

\* While only the store writes the journal, every record is of its first lines,
\* but while the bytes appended are still to be read.
Records ==
  fair =>
    /\ owned \in Nat /\ journal = Own(owned)
    /\ FirstLines(saved)
    /\ Busy /\ ~At("text") => FirstLines(base)
    /\ At("text") => base.size = owned
    /\ ~At("rewrite")

JournalInv == SentinelTypeOK /\ Records

LEMMA JournalStep ==
  ASSUME ~AppendsBeside
  PROVE  JournalInv /\ [SentinelNext]_sentinelVars => JournalInv'
<1> SUFFICES ASSUME JournalInv, [SentinelNext]_sentinelVars, fair' PROVE Records'
  BY StaysTyped DEF JournalInv, Records
<1> USE DEF protected, record, sentinelPast
<1>t. SentinelTypeOK /\ saved \in RecordType /\ base \in RecordType /\ owned \in Nat
      /\ saved.size \in Nat /\ base.size \in Nat
  BY DEF JournalInv, SentinelTypeOK, RecordType
<1>f. fair
  BY DEF SentinelNext, sentinelVars, Writers, Checks, WritesFile, WritesJournal, StoreAppends, TakeLock,
     LookAtFile, DigestFile, RestoreFile, VerifySig, VerifyBytes, RecordSig, ReadJournal, RecordSize,
     RecordText, RestoreJournal, Save, Unlock, KillHook
<1>i. /\ journal = Own(owned) /\ FirstLines(saved)
      /\ Busy /\ ~At("text") => FirstLines(base)
      /\ At("text") => base.size = owned
      /\ ~At("rewrite")
  BY <1>f DEF JournalInv, Records
<1>j. Len(journal) = owned
  BY <1>t, <1>i, OwnLines
<1>1. CASE WritesFile
  <2>1. UNCHANGED <<journal, saved, base, owned, holder, hook>>
    BY <1>1 DEF WritesFile
  <2> QED
    BY <1>t, <1>i, <2>1, WhereItStays DEF Records, FirstLines, Busy
<1>2. CASE StoreAppends
  <2>1. ~Busy /\ journal' = Append(journal, "own") /\ owned' = owned + 1
        /\ UNCHANGED <<saved, base, holder, hook>>
    BY <1>2 DEF StoreAppends
  <2>2. journal' = Own(owned') /\ owned' \in Nat
    <3>1. Append(Own(owned), "own") = Own(owned + 1)
      BY <1>t, OwnLines
    <3> QED
      BY <1>t, <1>i, <2>1, <3>1
  <2>3. ~Busy' /\ \A here : ~At(here)'
    BY <2>1 DEF Busy, At
  <2>4. saved'.size <= owned' /\ saved'.text = Own(saved'.size)
    BY <1>t, <1>i, <2>1 DEF FirstLines
  <2> QED
    BY <2>2, <2>3, <2>4 DEF Records, FirstLines
<1>3. ASSUME NEW h \in Hook, TakeLock(h) PROVE Records'
  <2>1. At("look")' /\ base' = saved /\ UNCHANGED <<journal, saved, owned>>
    BY <1>3, <1>t, SentinelAssumption DEF TakeLock, At, Busy, SentinelTypeOK
  <2>2. \A here : At(here)' => here = "look"
    BY <2>1 DEF At
  <2> QED
    BY <1>t, <1>i, <2>1, <2>2 DEF Records, FirstLines
<1>4. CASE LookAtFile \/ DigestFile \/ RestoreFile \/ VerifySig \/ VerifyBytes \/ RecordSig
  <2>1. PICK here \in {"look", "digest", "restore", "verify", "bytes", "record"},
             next \in {"digest", "restore", "verify", "bytes", "record", "journal"} :
          At(here) /\ Goes(next)
    BY <1>4 DEF LookAtFile, DigestFile, RestoreFile, VerifySig, VerifyBytes, RecordSig
  <2>2. UNCHANGED <<journal, saved, owned, holder>>
    BY <1>4 DEF LookAtFile, DigestFile, RestoreFile, VerifySig, VerifyBytes, RecordSig
  <2>3. base'.size = base.size /\ base'.text = base.text
    BY <1>4, <1>t DEF LookAtFile, DigestFile, RestoreFile, VerifySig, VerifyBytes, RecordSig, RecordType
  <2>4. \A at : (At(at) <=> at = here) /\ (At(at)' <=> at = next)
    BY <1>t, <2>1, <2>2, WhereItIs
  <2>5. Busy
    BY <2>1 DEF At
  <2> QED
    BY <1>t, <1>i, <2>1, <2>2, <2>3, <2>4, <2>5 DEF Records, FirstLines
<1>5. CASE ReadJournal
  <2>1. At("journal") /\ UNCHANGED <<journal, saved, base, owned, holder>>
    BY <1>5 DEF ReadJournal
  <2>2. Busy /\ ~At("text")
    BY <2>1 DEF At
  <2>3. HeadStands
    <3>1. base.size \in 0 .. owned /\ base.text = Own(base.size)
      BY <1>t, <1>i, <2>2 DEF FirstLines
    <3>2. SubSeq(Own(owned), 1, base.size) = Own(base.size)
      BY <1>t, <3>1, OwnLines
    <3>3. Len(journal) >= base.size
      BY <1>t, <1>j, <3>1
    <3> QED
      BY <1>i, <3>1, <3>2, <3>3 DEF HeadStands
  <2>4. PICK next \in {"size", "save"} : Goes(next)
    BY <1>5, <2>3 DEF ReadJournal, MayAppend
  <2>5. \A at : (At(at) <=> at = "journal") /\ (At(at)' <=> at = next)
    BY <1>t, <2>1, <2>4, WhereItIs
  <2> QED
    BY <1>t, <1>i, <2>1, <2>2, <2>5 DEF Records, FirstLines
<1>6. CASE RecordSize
  <2>1. At("size") /\ Goes("text") /\ base' = [base EXCEPT !.size = Len(journal)]
        /\ UNCHANGED <<journal, saved, owned, holder>>
    BY <1>6 DEF RecordSize
  <2>2. \A at : (At(at) <=> at = "size") /\ (At(at)' <=> at = "text")
    BY <1>t, <2>1, WhereItIs
  <2>3. base'.size = owned
    BY <1>t, <1>j, <2>1 DEF RecordType
  <2> QED
    BY <1>t, <1>i, <2>1, <2>2, <2>3 DEF Records, FirstLines
<1>7. CASE RecordText
  <2>1. At("text") /\ Goes("save") /\ base' = [base EXCEPT !.text = journal]
        /\ UNCHANGED <<journal, saved, owned, holder>>
    BY <1>7 DEF RecordText
  <2>2. \A at : (At(at) <=> at = "text") /\ (At(at)' <=> at = "save")
    BY <1>t, <2>1, WhereItIs
  <2>3. base'.size = owned /\ base'.text = Own(owned)
    BY <1>t, <1>i, <2>1 DEF RecordType
  <2> QED
    BY <1>t, <1>i, <2>1, <2>2, <2>3 DEF Records, FirstLines
<1>8. CASE RestoreJournal
  BY <1>8, <1>i DEF RestoreJournal
<1>9. CASE Save
  <2>1. At("save") /\ Goes("saved") /\ saved' = base /\ UNCHANGED <<journal, base, owned, holder>>
    BY <1>9 DEF Save
  <2>2. \A at : (At(at) <=> at = "save") /\ (At(at)' <=> at = "saved")
    BY <1>t, <2>1, WhereItIs
  <2>3. FirstLines(base)
    BY <1>i, <2>1, <2>2 DEF At
  <2> QED
    BY <1>t, <1>i, <2>1, <2>2, <2>3 DEF Records, FirstLines
<1>10. CASE Unlock \/ KillHook
  <2>1. UNCHANGED <<journal, saved, owned>> /\ holder' = NoHook
    BY <1>10 DEF Unlock, KillHook
  <2> QED
    BY <1>t, <1>i, <2>1, NobodyIsAt DEF Records, FirstLines, Busy
<1>11. CASE WritesJournal
  BY <1>11 DEF WritesJournal
<1>12. CASE UNCHANGED sentinelVars
  <2>1. UNCHANGED <<journal, saved, base, owned, holder, hook>>
    BY <1>12 DEF sentinelVars
  <2> QED
    BY <1>t, <1>i, <2>1, WhereItStays DEF Records, FirstLines, Busy
<1> QED
  BY <1>1, <1>2, <1>3, <1>4, <1>5, <1>6, <1>7, <1>8, <1>9, <1>10, <1>11, <1>12
  DEF SentinelNext, Writers, Checks

LEMMA JournalStart == SentinelInit => JournalInv
<1> SUFFICES ASSUME SentinelInit PROVE JournalInv
  OBVIOUS
<1>1. First = Own(1)
  BY DEF First, Own
<1>2. \A here : ~At(here)
  BY DEF SentinelInit, At, Busy
<1>3. ~Busy /\ owned = 1 /\ journal = Own(1) /\ saved.size = 1 /\ saved.text = Own(1)
  BY <1>1 DEF SentinelInit, Busy, Baseline
<1> QED
  BY <1>2, <1>3, StartsTyped DEF JournalInv, Records, FirstLines

\* Where the orchestrator appends only while no hook is at work, and only it writes
\* the journal, no check takes a line away (_check_journals, _journal_state).
THEOREM StoreLinesKept == ~AppendsBeside => (SentinelSpec => []AppendsKept)
<1> SUFFICES ASSUME ~AppendsBeside PROVE SentinelSpec => []AppendsKept
  OBVIOUS
<1>1. JournalInv /\ [SentinelNext]_sentinelVars => JournalInv'
  BY JournalStep
<1>2. JournalInv => AppendsKept
  BY DEF JournalInv, Records, AppendsKept, Own
<1> QED
  BY <1>1, <1>2, JournalStart, PTL DEF SentinelSpec

-----------------------------------------------------------------------------
(* The survivor reaper, for any number of processes, rounds and empty      *)
(* rounds that are asked for: what it says is clean is clean, unless the   *)
(* command hopped from pid to pid in every one of the last rounds. Which   *)
(* process a round asks about next makes no difference to this: only that  *)
(* each listed one is asked about.                                         *)

InRound == step \in {"look", "ask", "again", "signal"}

\* The counters are within their bounds while another round may come.
Counts ==
  /\ step = "list" => rounds < MaxRounds
  /\ step # "done" => empty < EmptyRounds
  /\ clean => step = "done" /\ empty = EmptyRounds

\* What is stopped is about to be killed, in the round that stopped it.
StoppedAreFound == (found # {} => any) /\ (step = "list" => found = {})

\* A round in which nothing was stopped and nothing ended has everything that it
\* listed before it still.
QuietRound ==
  InRound /\ ~any /\ ~churn /\ empty \notin left =>
    listing \subseteq running /\ (running # {} => listing # {})

\* In each empty round something ended, unless nothing runs.
EmptyRoundsHop == running # {} => 0 .. empty - 1 \subseteq left

ReaperInv == ReaperTypeOK /\ Counts /\ StoppedAreFound /\ QuietRound /\ EmptyRoundsHop

LEMMA ReaperStart == ReaperInit => ReaperInv
<1> SUFFICES ASSUME ReaperInit PROVE ReaperInv
  OBVIOUS
<1>1. ReaperTypeOK
  <2>1. 1 \in 1 .. MaxPid /\ 0 \in 0 .. EmptyRounds /\ 0 \in 0 .. MaxRounds
    BY ReaperAssumption
  <2> QED
    BY <2>1 DEF ReaperInit, ReaperTypeOK
<1>2. Counts /\ StoppedAreFound /\ QuietRound
  BY ReaperAssumption DEF ReaperInit, Counts, StoppedAreFound, QuietRound, InRound
<1>3. EmptyRoundsHop
  BY DEF ReaperInit, EmptyRoundsHop
<1> QED
  BY <1>1, <1>2, <1>3 DEF ReaperInv

LEMMA ReaperStep == ReaperInv /\ [ReaperNext]_reaperVars => ReaperInv'
<1> SUFFICES ASSUME ReaperInv, [ReaperNext]_reaperVars PROVE ReaperInv'
  OBVIOUS
<1> USE ReaperAssumption DEF tree, round
<1>i. ReaperTypeOK /\ Counts /\ StoppedAreFound /\ QuietRound /\ EmptyRoundsHop
  BY DEF ReaperInv
<1>1. CASE CommandForks
  <2>1. ReaperTypeOK'
    BY <1>1, <1>i DEF CommandForks, ReaperTypeOK
  <2>2. Counts' /\ StoppedAreFound'
    BY <1>1, <1>i DEF CommandForks, Counts, StoppedAreFound
  <2>3. running # {} /\ running \subseteq running' /\ UNCHANGED <<listing, any, churn, empty, left, step>>
    BY <1>1 DEF CommandForks
  <2> QED
    BY <1>i, <2>1, <2>2, <2>3 DEF ReaperInv, QuietRound, InRound, EmptyRoundsHop
<1>2. ASSUME NEW p \in running, Ends(p) PROVE ReaperInv'
  <2>1. ReaperTypeOK'
    BY <1>2, <1>i DEF Ends, ReaperTypeOK
  <2>2. Counts' /\ StoppedAreFound'
    BY <1>2, <1>i DEF Ends, Counts, StoppedAreFound
  <2>3. QuietRound'
    BY <1>2 DEF Ends, QuietRound, InRound
  <2>4. EmptyRoundsHop'
    BY <1>2, <1>i DEF Ends, EmptyRoundsHop
  <2> QED
    BY <2>1, <2>2, <2>3, <2>4 DEF ReaperInv
<1>3. CASE List
  <2>r. rounds' \in 0 .. MaxRounds
    BY <1>3, <1>i DEF List, ReaperTypeOK, Counts
  <2>1. ReaperTypeOK'
    BY <1>3, <1>i, <2>r DEF List, ReaperTypeOK
  <2>2. Counts' /\ StoppedAreFound'
    BY <1>3, <1>i DEF List, Counts, StoppedAreFound
  <2>3. QuietRound' /\ EmptyRoundsHop'
    BY <1>3, <1>i DEF List, QuietRound, EmptyRoundsHop
  <2> QED
    BY <2>1, <2>2, <2>3 DEF ReaperInv
<1>4. CASE Look \/ LookAgain
  <2>1. ReaperTypeOK'
    BY <1>4, <1>i DEF Look, LookAgain, ReaperTypeOK
  <2>2. Counts' /\ StoppedAreFound' /\ EmptyRoundsHop'
    BY <1>4, <1>i DEF Look, LookAgain, Counts, StoppedAreFound, EmptyRoundsHop
  <2>3. /\ UNCHANGED <<running, any, churn, empty, left>> /\ InRound
        /\ \/ listing' = listing
           \/ Newest \notin running /\ listing' = listing \ {Newest}
    BY <1>4 DEF Look, LookAgain, InRound
  <2>4. QuietRound'
    BY <1>i, <2>3 DEF QuietRound
  <2> QED
    BY <2>1, <2>2, <2>4 DEF ReaperInv
<1>5. CASE Ask
  <2>1. ReaperTypeOK'
    BY <1>5, <1>i DEF Ask, ReaperTypeOK
  <2>2. Counts' /\ StoppedAreFound' /\ EmptyRoundsHop'
    BY <1>5, <1>i DEF Ask, Counts, StoppedAreFound, EmptyRoundsHop
  <2>3. QuietRound'
    BY <1>5, <1>i DEF Ask, QuietRound, InRound
  <2> QED
    BY <2>1, <2>2, <2>3 DEF ReaperInv
<1>6. CASE Stop
  <2>1. ReaperTypeOK'
    BY <1>6, <1>i DEF Stop, ReaperTypeOK
  <2>2. Counts' /\ StoppedAreFound' /\ EmptyRoundsHop'
    BY <1>6, <1>i DEF Stop, Counts, StoppedAreFound, EmptyRoundsHop
  <2>3. any' \/ churn'
    BY <1>6 DEF Stop
  <2> QED
    BY <2>1, <2>2, <2>3 DEF ReaperInv, QuietRound
<1>7. CASE EmptyRound
  <2>e. /\ step = "look" /\ listing = {} /\ ~any /\ ~churn /\ empty' = empty + 1
        /\ UNCHANGED <<running, stopped, newest, listing, found, any, churn, rounds, left>>
        /\ empty \in Nat /\ empty < EmptyRounds /\ rounds \in 0 .. MaxRounds
    BY <1>7, <1>i DEF EmptyRound, Counts, ReaperTypeOK
  <2>1. ReaperTypeOK'
    <3>1. clean' \in BOOLEAN /\ step' \in {"list", "done"}
      BY <1>7, <1>i DEF EmptyRound, ReaperTypeOK
    <3> QED
      BY <1>i, <2>e, <3>1 DEF ReaperTypeOK
  <2>2. Counts'
    BY <1>7, <1>i, <2>e DEF EmptyRound, Enough, LastRound, Counts
  <2>3. StoppedAreFound'
    BY <1>i, <2>e DEF StoppedAreFound
  <2>4. QuietRound'
    BY <1>7 DEF EmptyRound, QuietRound, InRound
  <2>5. running # {} => empty \in left
    BY <1>i, <2>e DEF QuietRound, InRound
  <2>6. 0 .. empty' - 1 = (0 .. empty - 1) \cup {empty}
    BY <2>e
  <2>7. EmptyRoundsHop'
    BY <1>i, <2>e, <2>5, <2>6 DEF EmptyRoundsHop
  <2> QED
    BY <2>1, <2>2, <2>3, <2>4, <2>7 DEF ReaperInv
<1>8. CASE KillFound
  <2>1. ReaperTypeOK'
    BY <1>8, <1>i DEF KillFound, ReaperTypeOK
  <2>2. Counts' /\ StoppedAreFound' /\ EmptyRoundsHop'
    BY <1>8, <1>i DEF KillFound, Counts, StoppedAreFound, EmptyRoundsHop
  <2>3. any'
    BY <1>8, <1>i DEF KillFound, StoppedAreFound
  <2> QED
    BY <2>1, <2>2, <2>3 DEF ReaperInv, QuietRound
<1>9. CASE NextRound
  <2>1. ReaperTypeOK'
    BY <1>9, <1>i DEF NextRound, ReaperTypeOK
  <2>2. Counts'
    BY <1>9, <1>i DEF NextRound, LastRound, Counts, ReaperTypeOK
  <2>3. StoppedAreFound' /\ QuietRound' /\ EmptyRoundsHop'
    BY <1>9 DEF NextRound, StoppedAreFound, QuietRound, InRound, EmptyRoundsHop
  <2> QED
    BY <2>1, <2>2, <2>3 DEF ReaperInv
<1>10. CASE UNCHANGED reaperVars
  <2>1. ReaperTypeOK' /\ Counts' /\ StoppedAreFound'
    BY <1>10, <1>i DEF reaperVars, ReaperTypeOK, Counts, StoppedAreFound
  <2>2. QuietRound' /\ EmptyRoundsHop'
    BY <1>10, <1>i DEF reaperVars, QuietRound, InRound, EmptyRoundsHop
  <2> QED
    BY <2>1, <2>2 DEF ReaperInv
<1> QED
  BY <1>1, <1>2, <1>3, <1>4, <1>5, <1>6, <1>7, <1>8, <1>9, <1>10 DEF ReaperNext, Command, Reaps

\* Every variable keeps its type, the rounds their bound among them.
THEOREM ReaperTypes == ReaperSpec => []ReaperTypeOK
<1>1. ReaperInv => ReaperTypeOK
  BY DEF ReaperInv
<1> QED
  BY <1>1, ReaperStart, ReaperStep, PTL DEF ReaperSpec

\* Whatever forks and ends beside it, the reaper says nothing is left only where
\* nothing is, or where something hopped in every one of its last rounds (reap).
THEOREM CleanIsClean == ReaperSpec => []CleanUnlessHopping
<1>1. ReaperInv => CleanUnlessHopping
  BY DEF ReaperInv, Counts, EmptyRoundsHop, CleanUnlessHopping
<1> QED
  BY <1>1, ReaperStart, ReaperStep, PTL DEF ReaperSpec

-----------------------------------------------------------------------------
(* The parts side by side.                                                 *)

\* What the parts do, none does to another: a behaviour of the parts side by side is a
\* behaviour of each, so every property of a part holds in it (PartsNext).
THEOREM PartsStandAlone ==
  PartsSpec => /\ QueueSpec /\ SessionsSpec /\ SentinelSpec
               /\ RecordsSpec /\ ReaperSpec /\ ShellSpec
<1>1. PartsInit => /\ QueueInit /\ SessionsInit /\ SentinelInit
                   /\ RecordsInit /\ ReaperInit /\ ShellInit
  BY DEF PartsInit
<1>2. [PartsNext]_partsVars => /\ [QueueNext]_queueVars /\ [SessionsNext]_sessionsVars
                               /\ [SentinelNext]_sentinelVars /\ [RecordsNext]_recordsVars
                               /\ [ReaperNext]_reaperVars /\ [ShellNext]_shellVars
  BY DEF partsVars, PartsNext, QueueSteps, SessionsSteps, SentinelSteps, RecordsSteps,
     ReaperSteps, DesktopSteps
<1> QED
  BY <1>1, <1>2, PTL DEF PartsSpec, QueueSpec, SessionsSpec, SentinelSpec, RecordsSpec,
     ReaperSpec, ShellSpec

\* Every variable of every part keeps its type, the rounds, the sweeps, the inodes and
\* the servers their bounds among them, whatever any of the parts does.
THEOREM PartsTyped == PartsSpec => []PartsTypeOK
<1>1. QueueTypeOK /\ SessionsTypeOK /\ SentinelTypeOK /\ RecordsTypeOK /\ ReaperTypeOK /\ ShellTypeOK
        => PartsTypeOK
  BY DEF PartsTypeOK
<1> QED
  BY <1>1, PartsStandAlone, QueueTypes, SessionsTypes, SentinelTypes, RecordsTypes, ReaperTypes,
     ShellTypes, PTL
=============================================================================
