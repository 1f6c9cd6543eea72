--------------------------- MODULE SessionsProofs ---------------------------
(***************************************************************************)
(* Proofs about the sessions' processes and records, for any number of     *)
(* sessions, processes, sweeps and kills of the orchestrator: what runs is *)
(* found at a resume, a session runs beside no other, a commit is of a     *)
(* settled session, and no end is marked that is not reported.             *)
(***************************************************************************)
EXTENDS Sessions, TLAPS

Stopping == pc \in {"stop", "signal", "confirm", "check"}
Resuming == pc \in {"reading", "leftovers"} \/ (Stopping /\ todo # {})
AtOne == pc \in {"installed", "held", "running", "settled", "collected"} \/ Stopping

\* What the orchestrator has in mind fits the step it is at.
MindFits ==
  /\ AtOne => cur \in Session
  /\ pc \in {"down", "idle", "installed", "held", "running", "settled", "collected"} =>
       todo = {} /\ report = {}
  /\ pc = "reading" => report = {}
  /\ Stopping => (todo = {} => report = {}) /\ (todo # {} => cur \in todo)
  /\ pc = "ending" => todo \subseteq report
  /\ pc = "report" => todo = {}
  /\ Resuming => (todo \cup report) \cap ended = {} /\ todo \cap report = {}
  /\ pc = "leftovers" \/ (Stopping /\ todo # {}) => todo \subseteq named

\* What has a record, an end or a process had a leader.
HadLeader ==
  /\ \A s \in todo \cup report \cup ended : lead[s] # "none"
  /\ \A s \in Session : rec[s] # "none" => lead[s] # "none"
  /\ \A k \in Kid : kid[k].at # "none" => kid[k].of \in Session /\ lead[kid[k].of] # "none"
  /\ pc \in {"running", "settled", "collected"} \/ Stopping => lead[cur] # "none"
  /\ pc = "installed" => lead[cur] = "none" /\ cur \notin ended
  /\ pc = "held" => lead[cur] = "held" /\ cur \notin ended

\* Nothing of the session runs in its group.
NothingIn(s) == lead[s] # "running" /\ \A k \in Kid : kid[k].at = "in" => kid[k].of # s

\* Whose processes may run, by step.
QuietBut ==
  /\ pc \in {"idle", "installed", "held", "settled", "collected", "ending", "report"} =>
       \A s \in Session : NothingIn(s)
  /\ pc = "running" \/ (Stopping /\ todo = {}) => \A s \in Session \ {cur} : NothingIn(s)
  /\ Resuming => \A s \in Session \ todo : NothingIn(s)
  /\ Stopping => lead[cur] # "running"
  /\ pc = "check" /\ sure => NothingIn(cur)

Gone(k) == kid[k].at = "gone"

\* What the polls saw is gone once the group was swept.
SeenGone ==
  /\ \A k \in seen \cup snap : kid[k].at # "none"
  /\ ~Stopping /\ pc \notin {"settled", "collected"} => swept = 0
  /\ pc = "signal" => swept <= Sweeps /\ \A k \in seen : Gone(k) \/ k \in snap
  /\ pc \in {"confirm", "settled", "collected"} \/ (pc = "stop" /\ swept > 0) \/ (pc = "check" /\ sure) =>
       \A k \in seen : Gone(k)

\* Whose credential is on disk, by step.
Secrets ==
  /\ pc \in {"idle", "settled", "collected", "ending", "report"} => secret = {}
  /\ pc \in {"installed", "held", "running"} \/ (Stopping /\ todo = {}) => secret \subseteq {cur}

SessionsInv ==
  /\ SessionsTypeOK /\ MindFits /\ HadLeader /\ QuietBut /\ SeenGone /\ Secrets
  /\ StillFound /\ EndsReported /\ bystander = "running"

-----------------------------------------------------------------------------
(* The processes.                                                          *)

LEMMA NoneIsNone == Nobodys.at = "none" /\ Nobodys.of = None /\ Nobodys.of \notin Session
BY SessionsAssumption DEF Nobodys

\* A process that was started is one of a session.
LEMMA KidType ==
  ASSUME SessionsTypeOK, NEW k \in Kid
  PROVE  /\ kid[k].at # "none" => kid[k] \in [of : Session, at : Place]
         /\ kid[k].of \in Session => kid[k] \in [of : Session, at : Place]
         /\ kid[k] \in [of : Session, at : Place] =>
              \A at \in Place : /\ [kid[k] EXCEPT !.at = at] \in [of : Session, at : Place]
                                /\ [kid[k] EXCEPT !.at = at].of = kid[k].of
                                /\ [kid[k] EXCEPT !.at = at].at = at
<1>1. kid[k] = Nobodys \/ kid[k] \in [of : Session, at : Place]
  BY DEF SessionsTypeOK
<1> QED
  BY <1>1, NoneIsNone

\* A process goes nowhere but away, or ends.
Wanes(k) ==
  /\ kid'[k].of = kid[k].of
  /\ \/ kid'[k] = kid[k]
     \/ /\ kid[k] \in [of : Session, at : Place]
        /\ kid'[k] \in [of : Session, at : Place]
        /\ kid'[k].at \in {"gone", "away"}
        /\ kid[k].at = "gone" => kid'[k].at = "gone"

KidsWane == kid' \in [Kid -> {Nobodys} \cup [of : Session, at : Place]] /\ \A k \in Kid : Wanes(k)

LEMMA SameKids == ASSUME SessionsTypeOK, kid' = kid PROVE KidsWane
BY DEF SessionsTypeOK, KidsWane, Wanes

\* A leader's end takes processes with it, and leaves those out of its group away.
LEMMA LeaderEndsWane ==
  ASSUME SessionsTypeOK, NEW s \in Session, LeaderEnds(s)
  PROVE  KidsWane /\ lead' = [lead EXCEPT ![s] = "gone"]
<1>1. PICK gone \in SUBSET Of(s, {"in", "out"}) :
        kid' = [k \in Kid |-> CASE k \in gone -> [kid[k] EXCEPT !.at = "gone"]
                                [] k \in Of(s, {"out"}) \ gone -> [kid[k] EXCEPT !.at = "away"]
                                [] OTHER -> kid[k]]
  BY DEF LeaderEnds
<1>2. ASSUME NEW k \in Kid PROVE Wanes(k) /\ kid'[k] \in {Nobodys} \cup [of : Session, at : Place]
  <2>0. kid[k] \in {Nobodys} \cup [of : Session, at : Place]
    BY DEF SessionsTypeOK
  <2>1. CASE k \in gone
    <3>1. kid'[k] = [kid[k] EXCEPT !.at = "gone"] /\ kid[k].of = s
      BY <1>1, <2>1 DEF Of
    <3> QED
      BY <3>1, KidType DEF Wanes, Place
  <2>2. CASE k \in Of(s, {"out"}) \ gone
    <3>1. kid'[k] = [kid[k] EXCEPT !.at = "away"] /\ kid[k].of = s /\ kid[k].at = "out"
      BY <1>1, <2>2 DEF Of
    <3> QED
      BY <3>1, KidType DEF Wanes, Place
  <2>3. CASE k \notin gone /\ k \notin Of(s, {"out"}) \ gone
    <3>1. kid'[k] = kid[k]
      BY <1>1, <2>3
    <3> QED
      BY <2>0, <3>1 DEF Wanes
  <2> QED
    BY <2>1, <2>2, <2>3
<1>3. kid' \in [Kid -> {Nobodys} \cup [of : Session, at : Place]]
  BY <1>1, <1>2
<1> QED
  BY <1>2, <1>3 DEF KidsWane, LeaderEnds

\* A stop that raises kills the group by its id, or nothing.
LEMMA StopRaisesWanes ==
  ASSUME SessionsTypeOK, MindFits, StopRaises
  PROVE  KidsWane /\ (lead' = lead \/ lead' = [lead EXCEPT ![cur] = "gone"])
<1>1. CASE pc = "running"
  <2>1. kid' = [k \in Kid |-> CASE k \in Group(cur) -> [kid[k] EXCEPT !.at = "gone"]
                                [] k \in Of(cur, {"out"}) -> [kid[k] EXCEPT !.at = "away"]
                                [] OTHER -> kid[k]]
    BY <1>1 DEF StopRaises
  <2>2. cur \in Session
    BY <1>1 DEF MindFits, AtOne
  <2>3. ASSUME NEW k \in Kid PROVE Wanes(k) /\ kid'[k] \in {Nobodys} \cup [of : Session, at : Place]
    <3>0. kid[k] \in {Nobodys} \cup [of : Session, at : Place]
      BY DEF SessionsTypeOK
    <3>1. CASE k \in Group(cur)
      <4>1. kid'[k] = [kid[k] EXCEPT !.at = "gone"] /\ kid[k].of = cur
        BY <2>1, <3>1 DEF Group, Of
      <4> QED
        BY <2>2, <4>1, KidType DEF Wanes, Place
    <3>2. CASE k \in Of(cur, {"out"}) /\ k \notin Group(cur)
      <4>1. kid'[k] = [kid[k] EXCEPT !.at = "away"] /\ kid[k].of = cur /\ kid[k].at = "out"
        BY <2>1, <3>2 DEF Of
      <4> QED
        BY <2>2, <4>1, KidType DEF Wanes, Place
    <3>3. CASE k \notin Group(cur) /\ k \notin Of(cur, {"out"})
      <4>1. kid'[k] = kid[k]
        BY <2>1, <3>3
      <4> QED
        BY <3>0, <4>1 DEF Wanes
    <3> QED
      BY <3>1, <3>2, <3>3
  <2>4. kid' \in [Kid -> {Nobodys} \cup [of : Session, at : Place]]
    BY <2>1, <2>3
  <2> QED
    BY <1>1, <2>3, <2>4 DEF KidsWane, StopRaises
<1>2. CASE pc # "running"
  <2>1. UNCHANGED procs
    BY <1>2 DEF StopRaises
  <2> QED
    BY <2>1, SameKids DEF procs
<1> QED
  BY <1>1, <1>2

\* What was found is stopped.
LEMMA StopFoundWanes ==
  ASSUME SessionsTypeOK, SeenGone, StopFound
  PROVE  KidsWane /\ \A k \in snap : kid'[k].at = "gone"
<1>1. kid' = [k \in Kid |-> IF k \in snap THEN [kid[k] EXCEPT !.at = "gone"] ELSE kid[k]]
  BY DEF StopFound, Kill1
<1>2. ASSUME NEW k \in Kid
      PROVE  /\ Wanes(k) /\ kid'[k] \in {Nobodys} \cup [of : Session, at : Place]
             /\ k \in snap => kid'[k].at = "gone"
  <2>1. CASE k \in snap
    <3>1. kid'[k] = [kid[k] EXCEPT !.at = "gone"] /\ kid[k].at # "none"
      BY <1>1, <2>1 DEF SeenGone
    <3> QED
      BY <3>1, KidType DEF Wanes, Place
  <2>2. CASE k \notin snap
    <3>1. kid'[k] = kid[k] /\ kid[k] \in {Nobodys} \cup [of : Session, at : Place]
      BY <1>1, <2>2 DEF SessionsTypeOK
    <3> QED
      BY <2>2, <3>1 DEF Wanes
  <2> QED
    BY <2>1, <2>2
<1>3. snap \subseteq Kid
  BY DEF SessionsTypeOK
<1> QED
  BY <1>1, <1>2, <1>3 DEF KidsWane

LEMMA KidMovesWanes ==
  ASSUME SessionsTypeOK, NEW k \in Kid, KidMoves(k)
  PROVE  KidsWane
<1>1. PICK at \in {"gone", "away"} :
        /\ kid' = [kid EXCEPT ![k].at = at] /\ kid[k].at \in {"in", "out", "away"}
  BY DEF KidMoves
<1>2. kid[k] \in [of : Session, at : Place]
  BY <1>1, KidType
<1>3. kid'[k] = [kid[k] EXCEPT !.at = at] /\ \A j \in Kid \ {k} : kid'[j] = kid[j]
  BY <1>1 DEF SessionsTypeOK
<1>4. kid'[k] \in [of : Session, at : Place] /\ kid'[k].of = kid[k].of /\ kid'[k].at = at
  BY <1>2, <1>3, KidType DEF Place
<1>5. kid' \in [Kid -> {Nobodys} \cup [of : Session, at : Place]]
  BY <1>1, <1>3, <1>4 DEF SessionsTypeOK
<1> QED
  BY <1>1, <1>2, <1>3, <1>4, <1>5 DEF KidsWane, Wanes

\* A leader is there once it was started, and runs only when it is released.
LeadersGoOn ==
  /\ lead' \in [Session -> {"none", "held", "running", "gone"}]
  /\ \A s \in Session : lead[s] # "none" => lead'[s] # "none"
  /\ \A s \in Session : lead'[s] = "running" => lead[s] = "running" \/ (Release /\ s = cur)

\* Apart from a fork, a step lets processes end or go away, and no more.
LEMMA StepWanes ==
  ASSUME SessionsTypeOK, MindFits, SeenGone, [SessionsNext]_sessionsVars
  PROVE  /\ LeadersGoOn
         /\ KidsWane \/ \E s \in Session, k \in Kid : Fork(s, k)
<1> USE DEF mind, procs, disk, sessionLog, sessionPast
<1>1. ASSUME NEW s \in Session, HeldExits(s) \/ OrphanEnds(s)
      PROVE  LeadersGoOn /\ KidsWane
  <2>1. lead' = [lead EXCEPT ![s] = "gone"] /\ KidsWane
    BY <1>1, LeaderEndsWane, SameKids DEF HeldExits, OrphanEnds
  <2> QED
    BY <2>1 DEF LeadersGoOn, SessionsTypeOK
<1>2. ASSUME NEW k \in Kid, KidMoves(k)
      PROVE  LeadersGoOn /\ KidsWane
  <2>1. lead' = lead
    BY <1>2 DEF KidMoves
  <2> QED
    BY <1>2, <2>1, KidMovesWanes DEF LeadersGoOn, SessionsTypeOK
<1>3. CASE SpawnHeld \/ SpawnFails \/ Release
  <2>1. cur \in Session /\ KidsWane
    BY <1>3, SameKids DEF SpawnHeld, SpawnFails, Release, HeldWhileRecorded, MindFits, AtOne
  <2>2. PICK to \in {"held", "gone", "running"} :
          /\ lead' = [lead EXCEPT ![cur] = to] \/ lead' = lead
          /\ to = "running" => Release
    BY <1>3, <2>1 DEF SpawnHeld, SpawnFails, Release, SessionsTypeOK
  <2> QED
    BY <2>1, <2>2 DEF LeadersGoOn, SessionsTypeOK
<1>4. CASE SessionEnds
  <2>1. cur \in Session /\ LeaderEnds(cur)
    BY <1>4 DEF SessionEnds, MindFits, AtOne
  <2>2. lead' = [lead EXCEPT ![cur] = "gone"] /\ KidsWane
    BY <2>1, LeaderEndsWane
  <2> QED
    BY <2>2 DEF LeadersGoOn, SessionsTypeOK
<1>5. CASE StopRaises
  <2>1. cur \in Session
    BY <1>5 DEF StopRaises, MindFits, AtOne, Stopping
  <2> QED
    BY <1>5, <2>1, StopRaisesWanes DEF LeadersGoOn, SessionsTypeOK
<1>6. CASE StopFound
  <2>1. lead' = lead
    BY <1>6 DEF StopFound
  <2> QED
    BY <1>6, <2>1, StopFoundWanes DEF LeadersGoOn, SessionsTypeOK
<1>7. ASSUME NEW s \in Session, StopLeftover(s)
      PROVE  LeadersGoOn /\ KidsWane
  <2>1. CASE lead[s] \in {"held", "running"} /\ NamesOwn(s)
    <3>1. lead' = [lead EXCEPT ![s] = "gone"] /\ KidsWane
      BY <1>7, <2>1, LeaderEndsWane DEF StopLeftover
    <3> QED
      BY <3>1 DEF LeadersGoOn, SessionsTypeOK
  <2>2. CASE ~(lead[s] \in {"held", "running"} /\ NamesOwn(s))
    <3>1. lead' = lead /\ kid' = kid
      BY <1>7, <2>2 DEF StopLeftover
    <3> QED
      BY <3>1, SameKids DEF LeadersGoOn, SessionsTypeOK
  <2> QED
    BY <2>1, <2>2
<1>8. ASSUME UNCHANGED procs
      PROVE  LeadersGoOn /\ KidsWane
  BY <1>8, SameKids DEF LeadersGoOn, SessionsTypeOK
<1>9. ASSUME NEW s \in Session, NEW k \in Kid, Fork(s, k)
      PROVE  LeadersGoOn
  BY <1>9 DEF Fork, LeadersGoOn, SessionsTypeOK
<1>10. \/ UNCHANGED procs
       \/ \E s \in Session : (\E k \in Kid : Fork(s, k)) \/ HeldExits(s) \/ OrphanEnds(s) \/ StopLeftover(s)
       \/ \E k \in Kid : KidMoves(k)
       \/ SpawnHeld \/ SpawnFails \/ Release \/ SessionEnds \/ StopRaises \/ StopFound
  BY DEF SessionsNext, sessionsVars, Processes, Runs, Resumes, Rewrite, Install, LogSpawned, WriteRecord, Poll,
     LookAtGroup, Confirm, CheckAfterStop, Collect, EndSession, RecordEnds, ReadRecords, HonourRecords, SettleLeftover,
     ReadLeftovers, EndLeftover, AllEnded, Kill, Forget
<1> QED
  BY <1>1, <1>2, <1>3, <1>4, <1>5, <1>6, <1>7, <1>8, <1>9, <1>10

\* What a fork adds is of a session that is not quiet.
LEMMA ForkAdds ==
  ASSUME SessionsTypeOK, NEW s \in Session, NEW k \in Kid, Fork(s, k)
  PROVE  /\ ~NothingIn(s) /\ lead' = lead
         /\ kid[k] = Nobodys /\ kid'[k] \in [of : Session, at : Place] /\ kid'[k].of = s
         /\ kid' \in [Kid -> {Nobodys} \cup [of : Session, at : Place]]
         /\ \A j \in Kid \ {k} : kid'[j] = kid[j]
<1>1. PICK at \in {"in", "out", "away"} : kid' = [kid EXCEPT ![k] = [of |-> s, at |-> at]]
  BY DEF Fork
<1>2. [of |-> s, at |-> at] \in [of : Session, at : Place]
  BY DEF Place
<1>3. ~NothingIn(s)
  BY DEF Fork, NothingIn, Group, Of
<1> QED
  BY <1>1, <1>2, <1>3 DEF Fork, SessionsTypeOK

\* What every step keeps of the processes.
KeptOfProcs ==
  /\ \A s \in Session : NothingIn(s) /\ ~(Release /\ s = cur) => NothingIn(s)'
  /\ \A k \in Kid : kid[k].at # "none" => kid'[k].at # "none" /\ kid'[k].of = kid[k].of
  /\ \A k \in Kid : Gone(k) => Gone(k)'
  /\ \A k \in Kid : kid'[k].at # "none" /\ kid[k].at = "none" => \E s \in Session : Fork(s, k) /\ kid'[k].of = s

LEMMA StepKeeps ==
  ASSUME SessionsTypeOK, MindFits, SeenGone, [SessionsNext]_sessionsVars
  PROVE  /\ KeptOfProcs /\ LeadersGoOn
         /\ kid' \in [Kid -> {Nobodys} \cup [of : Session, at : Place]]
<1>0. LeadersGoOn
  BY StepWanes
<1>1. ASSUME KidsWane
      PROVE  KeptOfProcs
  <2>1. \A s \in Session : NothingIn(s) /\ ~(Release /\ s = cur) => NothingIn(s)'
    BY <1>0, <1>1 DEF LeadersGoOn, KidsWane, Wanes, NothingIn
  <2>2. \A k \in Kid : kid[k].at # "none" => kid'[k].at # "none" /\ kid'[k].of = kid[k].of
    BY <1>1 DEF KidsWane, Wanes
  <2>3. \A k \in Kid : kid'[k].at # "none" => kid[k].at # "none"
    BY <1>1, NoneIsNone DEF KidsWane, Wanes, Place
  <2>4. \A k \in Kid : Gone(k) => Gone(k)'
    BY <1>1 DEF KidsWane, Wanes, Gone
  <2> QED
    BY <2>1, <2>2, <2>3, <2>4 DEF KeptOfProcs
<1>2. ASSUME NEW s \in Session, NEW k \in Kid, Fork(s, k)
      PROVE  KeptOfProcs /\ kid' \in [Kid -> {Nobodys} \cup [of : Session, at : Place]]
  <2>f. /\ ~NothingIn(s) /\ lead' = lead
        /\ kid[k] = Nobodys /\ kid'[k].of = s
        /\ \A j \in Kid \ {k} : kid'[j] = kid[j]
        /\ kid' \in [Kid -> {Nobodys} \cup [of : Session, at : Place]]
    BY <1>2, ForkAdds
  <2>1. \A r \in Session : NothingIn(r) => NothingIn(r)'
    BY <2>f DEF NothingIn
  <2>2. \A j \in Kid : kid[j].at # "none" => j # k
    BY <2>f, NoneIsNone
  <2> QED
    BY <1>2, <2>f, <2>1, <2>2 DEF KeptOfProcs, Gone
<1> QED
  BY <1>0, <1>1, <1>2, StepWanes DEF KidsWane

\* What the processes do leaves the orchestrator's mind, its logs and the ends alone.
LEMMA ProcessesLeave ==
  ASSUME Processes
  PROVE  /\ UNCHANGED <<mind, sessionLog, sessionPast, ended, secret>>
         /\ \/ UNCHANGED <<rec, stream>>
            \/ \E s \in Session : Rewrite(s)
BY DEF Processes, Fork, KidMoves, HeldExits, OrphanEnds, Rewrite, disk

-----------------------------------------------------------------------------
(* The orchestrator's steps.                                               *)

LEMMA MindStep == SessionsInv /\ [SessionsNext]_sessionsVars => MindFits'
<1> SUFFICES ASSUME SessionsTypeOK, MindFits, [SessionsNext]_sessionsVars PROVE MindFits'
  BY DEF SessionsInv
<1> USE DEF mind, disk, MindFits, AtOne, Stopping, Resuming
<1>1. CASE Processes
  BY <1>1, ProcessesLeave
<1>2. ASSUME NEW s \in Session, Install(s) PROVE MindFits'
  BY <1>2 DEF Install
<1>3. CASE SpawnHeld \/ LogSpawned \/ WriteRecord \/ SpawnFails \/ Release \/ Poll
  BY <1>3 DEF SpawnHeld, LogSpawned, WriteRecord, SpawnFails, Release, HeldWhileRecorded, Poll, Forget
<1>4. CASE SessionEnds \/ StopRaises \/ LookAtGroup \/ StopFound \/ Confirm
  BY <1>4 DEF SessionEnds, StopRaises, LookAtGroup, StopFound, Confirm
<1>5. CASE CheckAfterStop \/ Collect \/ EndSession \/ RecordEnds
  BY <1>5 DEF CheckAfterStop, Collect, EndSession, RecordEnds, Forget
<1>6. CASE ReadRecords \/ HonourRecords
  BY <1>6 DEF ReadRecords, HonourRecords, Honoured, Leftover, Forget
<1>7. ASSUME NEW s \in Session, StopLeftover(s) PROVE MindFits'
  BY <1>7 DEF StopLeftover, NamesOwn
<1>8. CASE SettleLeftover
  BY <1>8 DEF SettleLeftover, EndedLater, Forget
<1>9. CASE ReadLeftovers \/ AllEnded \/ Kill
  BY <1>9 DEF ReadLeftovers, AllEnded, Kill, Forget
<1>10. ASSUME NEW s \in Session, EndLeftover(s) PROVE MindFits'
  BY <1>10 DEF EndLeftover
<1>11. CASE UNCHANGED sessionsVars
  BY <1>11 DEF sessionsVars
<1> QED
  BY <1>1, <1>2, <1>3, <1>4, <1>5, <1>6, <1>7, <1>8, <1>9, <1>10, <1>11 DEF SessionsNext, Runs, Resumes

\* The types, by where they are kept.
MindTyped ==
  /\ pc \in {"down", "idle", "installed", "held", "running", "stop", "signal", "confirm",
             "check", "settled", "collected", "report", "reading", "leftovers", "ending"}
  /\ cur \in Session \cup {None} /\ aside \in Session \cup {None}
  /\ todo \subseteq Session /\ named \subseteq Session /\ report \subseteq Session
  /\ seen \subseteq Kid /\ snap \subseteq Kid /\ swept \in 0 .. Sweeps + 1 /\ sure \in BOOLEAN

DiskTyped ==
  /\ rec \in [Session -> {"none", "torn", "own", "other"}]
  /\ stream \in [Session -> {"none", "there", "gone"}]
  /\ ended \subseteq Session /\ secret \subseteq Session

PastTyped ==
  /\ spawned \subseteq Session /\ recorded \subseteq Session /\ committed \subseteq Session
  /\ bystander \in {"running", "stopped"} /\ cut \subseteq Session
  /\ kills \in 0 .. MaxKills

ProcsTyped ==
  /\ lead \in [Session -> {"none", "held", "running", "gone"}]
  /\ kid \in [Kid -> {Nobodys} \cup [of : Session, at : Place]]

LEMMA TypedParts == SessionsTypeOK <=> MindTyped /\ DiskTyped /\ PastTyped /\ ProcsTyped
BY DEF SessionsTypeOK, MindTyped, DiskTyped, PastTyped, ProcsTyped

\* Every step keeps the types.
LEMMA ForgetTyped == ASSUME Forget PROVE MindTyped'
<1>1. 0 \in 0 .. Sweeps + 1
  BY SessionsAssumption
<1> QED
  BY <1>1 DEF Forget, MindTyped

LEMMA MindTypeStep == SessionsInv /\ [SessionsNext]_sessionsVars => MindTyped'
<1> SUFFICES ASSUME MindTyped, MindFits, SeenGone, [SessionsNext]_sessionsVars PROVE MindTyped'
  BY TypedParts DEF SessionsInv
<1>c. AtOne => cur \in Session
  BY DEF MindFits
<1>f. CASE Forget
  BY <1>f, ForgetTyped
<1>0. 0 \in 0 .. Sweeps + 1
  BY SessionsAssumption
<1> USE DEF mind, MindTyped, AtOne, Stopping
<1>1. CASE Processes
  BY <1>1, ProcessesLeave
<1>2. ASSUME NEW s \in Session, Install(s) PROVE MindTyped'
  BY <1>2 DEF Install
<1>3. CASE SpawnHeld \/ LogSpawned \/ WriteRecord
  BY <1>3 DEF SpawnHeld, LogSpawned, WriteRecord
<1>4. CASE SpawnFails \/ Kill
  BY <1>f, <1>4 DEF SpawnFails, Kill
<1>5. CASE Release \/ SessionEnds \/ StopRaises \/ Confirm
  <2>1. /\ pc' \in {"running", "stop", "check"} /\ sure' \in BOOLEAN /\ snap' \in {snap, {}}
        /\ UNCHANGED <<cur, todo, named, aside, report, seen, swept>>
    BY <1>5 DEF Release, SessionEnds, StopRaises, Confirm, NoneRunning
  <2> QED
    BY <2>1
<1>6. CASE Poll \/ LookAtGroup
  BY <1>6 DEF Poll, LookAtGroup, Group, Of
<1>7. CASE StopFound
  <2>1. swept' \in 0 .. Sweeps + 1
    BY <1>7, SessionsAssumption DEF StopFound, SeenGone
  <2> QED
    BY <1>7, <2>1 DEF StopFound
<1>8. CASE CheckAfterStop
  BY <1>f, <1>8 DEF CheckAfterStop
<1>9. CASE Collect
  BY <1>f, <1>9 DEF Collect
<1>10. CASE EndSession \/ RecordEnds
  BY <1>0, <1>c, <1>10 DEF EndSession, RecordEnds
<1>11. CASE ReadRecords \/ HonourRecords
  BY <1>f, <1>11 DEF ReadRecords, HonourRecords, Leftover
<1>12. ASSUME NEW s \in Session, StopLeftover(s) \/ EndLeftover(s) PROVE MindTyped'
  BY <1>12 DEF StopLeftover, EndLeftover
<1>13. CASE SettleLeftover
  BY <1>0, <1>c, <1>f, <1>13 DEF SettleLeftover
<1>14. CASE ReadLeftovers
  BY <1>f, <1>14 DEF ReadLeftovers
<1>15. CASE AllEnded
  BY <1>15 DEF AllEnded
<1>16. CASE UNCHANGED sessionsVars
  BY <1>16 DEF sessionsVars
<1> QED
  BY <1>1, <1>2, <1>3, <1>4, <1>5, <1>6, <1>7, <1>8, <1>9, <1>10, <1>11, <1>12, <1>13, <1>14, <1>15, <1>16
  DEF SessionsNext, Runs, Resumes

LEMMA DiskTypeStep == SessionsInv /\ [SessionsNext]_sessionsVars => DiskTyped'
<1> SUFFICES ASSUME DiskTyped, MindTyped, MindFits, [SessionsNext]_sessionsVars PROVE DiskTyped'
  BY TypedParts DEF SessionsInv
<1>c. AtOne => cur \in Session
  BY DEF MindFits
<1> USE DEF disk, DiskTyped, AtOne, Stopping
<1>1. CASE UNCHANGED disk
  BY <1>1
<1>2. ASSUME NEW s \in Session, Rewrite(s) \/ Install(s) \/ EndLeftover(s) PROVE DiskTyped'
  BY <1>2 DEF Rewrite, Install, EndLeftover, MindTyped
<1>3. CASE SpawnHeld \/ WriteRecord \/ CheckAfterStop \/ EndSession
  BY <1>c, <1>3 DEF SpawnHeld, WriteRecord, CheckAfterStop, EndSession
<1>4. CASE SettleLeftover \/ ReadLeftovers
  BY <1>4 DEF SettleLeftover, EndedLater, ReadLeftovers, SecretsGone
<1>5. \/ UNCHANGED disk
      \/ \E s \in Session : Rewrite(s) \/ Install(s) \/ EndLeftover(s)
      \/ SpawnHeld \/ WriteRecord \/ CheckAfterStop \/ EndSession \/ SettleLeftover \/ ReadLeftovers
  BY DEF SessionsNext, sessionsVars, Processes, Runs, Resumes, Fork, KidMoves, HeldExits, OrphanEnds, LogSpawned,
     SpawnFails, Release, Poll, SessionEnds, StopRaises, LookAtGroup, StopFound, Confirm, Collect, RecordEnds,
     ReadRecords, HonourRecords, StopLeftover, AllEnded, Kill
<1> QED
  BY <1>1, <1>2, <1>3, <1>4, <1>5

LEMMA PastTypeStep == SessionsInv /\ [SessionsNext]_sessionsVars => PastTyped'
<1> SUFFICES ASSUME PastTyped, MindTyped, MindFits, [SessionsNext]_sessionsVars PROVE PastTyped'
  BY TypedParts DEF SessionsInv
<1>c. AtOne => cur \in Session
  BY DEF MindFits
<1> USE DEF sessionLog, sessionPast, PastTyped, AtOne, Stopping
<1>1. CASE UNCHANGED <<sessionLog, sessionPast>>
  BY <1>1
<1>2. CASE LogSpawned \/ Collect
  BY <1>c, <1>2 DEF LogSpawned, Collect
<1>3. ASSUME NEW s \in Session, RecordEnds \/ StopLeftover(s) PROVE PastTyped'
  BY <1>3 DEF RecordEnds, StopLeftover, MindTyped
<1>4. CASE Kill
  BY <1>4, SessionsAssumption DEF Kill, MindTyped
<1>5. UNCHANGED <<sessionLog, sessionPast>> \/ LogSpawned \/ Collect \/ Kill
      \/ RecordEnds \/ \E s \in Session : StopLeftover(s)
  BY DEF SessionsNext, sessionsVars, Processes, Runs, Resumes, Fork, KidMoves, HeldExits, OrphanEnds, Rewrite,
     Install, SpawnHeld, WriteRecord, SpawnFails, Release, Poll, SessionEnds, StopRaises, LookAtGroup, StopFound,
     Confirm, CheckAfterStop, EndSession, ReadRecords, HonourRecords, SettleLeftover, ReadLeftovers, EndLeftover,
     AllEnded
<1>6. RecordEnds => PastTyped'
  BY DEF RecordEnds, MindTyped
<1> QED
  BY <1>1, <1>2, <1>3, <1>4, <1>5, <1>6

LEMMA SessionsTypeStep == SessionsInv /\ [SessionsNext]_sessionsVars => SessionsTypeOK'
<1> SUFFICES ASSUME SessionsInv, [SessionsNext]_sessionsVars PROVE SessionsTypeOK'
  OBVIOUS
<1>1. ProcsTyped'
  BY StepKeeps DEF SessionsInv, LeadersGoOn, ProcsTyped
<1>2. MindTyped' /\ DiskTyped' /\ PastTyped'
  BY MindTypeStep, DiskTypeStep, PastTypeStep
<1> QED
  BY <1>1, <1>2 DEF SessionsTypeOK, MindTyped, DiskTyped, PastTyped, ProcsTyped

-----------------------------------------------------------------------------
(* The invariant's other parts.                                            *)

\* A resume stops what the records it read and honoured name, and no other process.
LEMMA BystanderStep == SessionsInv /\ [SessionsNext]_sessionsVars => bystander' = bystander
<1> SUFFICES ASSUME MindFits, [SessionsNext]_sessionsVars PROVE bystander' = bystander
  BY DEF SessionsInv
<1>1. ASSUME NEW s \in Session, StopLeftover(s) PROVE bystander' = bystander
  <2>1. NamesOwn(s)
    BY <1>1 DEF StopLeftover, MindFits, NamesOwn
  <2> QED
    BY <1>1, <2>1 DEF StopLeftover
<1>2. bystander' = bystander \/ \E s \in Session : StopLeftover(s)
  BY DEF SessionsNext, sessionsVars, sessionPast, Processes, Runs, Resumes, Fork, KidMoves, HeldExits, OrphanEnds,
     Rewrite, Install, SpawnHeld, LogSpawned, WriteRecord, SpawnFails, Release, Poll, SessionEnds, StopRaises,
     LookAtGroup, StopFound, Confirm, CheckAfterStop, Collect, EndSession, RecordEnds, ReadRecords, HonourRecords,
     SettleLeftover, ReadLeftovers, EndLeftover, AllEnded, Kill
<1> QED
  BY <1>1, <1>2

\* A credential is on disk only for the session the orchestrator is at.
LEMMA SecretsStep == SessionsInv /\ [SessionsNext]_sessionsVars => Secrets'
<1> SUFFICES ASSUME MindFits, Secrets, [SessionsNext]_sessionsVars PROVE Secrets'
  BY DEF SessionsInv
<1> USE DEF mind, disk, MindFits, Secrets, AtOne, Stopping
<1>1. CASE Processes
  BY <1>1, ProcessesLeave
<1>2. ASSUME NEW s \in Session, Install(s) PROVE Secrets'
  BY <1>2 DEF Install
<1>3. CASE SpawnHeld \/ LogSpawned \/ WriteRecord \/ SpawnFails \/ Release \/ Poll
  BY <1>3 DEF SpawnHeld, LogSpawned, WriteRecord, SpawnFails, Release, HeldWhileRecorded, Poll, Forget
<1>4. CASE SessionEnds \/ StopRaises \/ LookAtGroup \/ StopFound \/ Confirm
  BY <1>4 DEF SessionEnds, StopRaises, LookAtGroup, StopFound, Confirm
<1>5. CASE CheckAfterStop \/ Collect \/ EndSession \/ RecordEnds
  BY <1>5 DEF CheckAfterStop, Collect, EndSession, RecordEnds, Forget
<1>6. CASE ReadRecords \/ HonourRecords \/ \E s \in Session : StopLeftover(s) \/ EndLeftover(s)
  BY <1>6 DEF ReadRecords, HonourRecords, StopLeftover, EndLeftover, Forget
<1>7. CASE SettleLeftover
  BY <1>7 DEF SettleLeftover, Forget
<1>8. CASE ReadLeftovers \/ AllEnded \/ Kill
  BY <1>8 DEF ReadLeftovers, SecretsGone, AllEnded, Kill, Forget
<1>9. CASE UNCHANGED sessionsVars
  BY <1>9 DEF sessionsVars
<1> QED
  BY <1>1, <1>2, <1>3, <1>4, <1>5, <1>6, <1>7, <1>8, <1>9 DEF SessionsNext, Runs, Resumes

\* An end that is marked is recorded, on its way, or cut off.
LEMMA ReportedStep == SessionsInv /\ [SessionsNext]_sessionsVars => EndsReported'
<1> SUFFICES ASSUME MindFits, EndsReported, [SessionsNext]_sessionsVars PROVE EndsReported'
  BY DEF SessionsInv
<1> USE DEF mind, disk, sessionLog, sessionPast, MindFits, EndsReported, AtOne, Stopping, Resuming
<1>1. CASE UNCHANGED <<ended, recorded, report, cut>>
  BY <1>1
<1>2. CASE SpawnFails \/ Kill
  BY <1>2 DEF SpawnFails, Kill, Forget
<1>3. CASE CheckAfterStop \/ Collect
  BY <1>3 DEF CheckAfterStop, Collect, Forget
<1>4. CASE EndSession \/ RecordEnds \/ ReadRecords \/ HonourRecords
  BY <1>4 DEF EndSession, RecordEnds, ReadRecords, HonourRecords, Forget
<1>5. CASE SettleLeftover
  BY <1>5 DEF SettleLeftover, EndedLater, Forget
<1>6. CASE ReadLeftovers
  BY <1>6 DEF ReadLeftovers, Forget
<1>7. ASSUME NEW s \in Session, EndLeftover(s) PROVE EndsReported'
  BY <1>7 DEF EndLeftover
<1>8. \/ UNCHANGED <<ended, recorded, report, cut>> \/ SpawnFails \/ Kill \/ CheckAfterStop \/ Collect
      \/ EndSession \/ RecordEnds \/ ReadRecords \/ HonourRecords \/ SettleLeftover \/ ReadLeftovers
      \/ \E s \in Session : EndLeftover(s)
  BY DEF SessionsNext, sessionsVars, Processes, Runs, Resumes, Fork, KidMoves, HeldExits, OrphanEnds,
     Rewrite, Install, SpawnHeld, LogSpawned, WriteRecord, Release, Poll, SessionEnds, StopRaises,
     LookAtGroup, StopFound, Confirm, StopLeftover, AllEnded
<1> QED
  BY <1>1, <1>2, <1>3, <1>4, <1>5, <1>6, <1>7, <1>8

\* Whose group may still run something, by step.
LEMMA QuietStep == SessionsInv /\ [SessionsNext]_sessionsVars => QuietBut'
<1> SUFFICES ASSUME SessionsInv, [SessionsNext]_sessionsVars PROVE QuietBut'
  OBVIOUS
<1>i. SessionsTypeOK /\ MindFits /\ HadLeader /\ QuietBut /\ StillFound /\ SeenGone
  BY DEF SessionsInv
<1>q. \A s \in Session : NothingIn(s) /\ ~(Release /\ s = cur) => NothingIn(s)'
  BY <1>i, StepKeeps DEF KeptOfProcs
<1>r. \A s \in Session : lead'[s] = "running" => lead[s] = "running" \/ (Release /\ s = cur)
  BY <1>i, StepKeeps DEF LeadersGoOn
<1>c. AtOne => cur \in Session
  BY <1>i DEF MindFits
<1> USE DEF mind, MindFits, QuietBut, AtOne, Stopping, Resuming
<1>1. CASE Processes
  <2>1. UNCHANGED mind /\ ~Release
    BY <1>1, ProcessesLeave DEF Release, HeldWhileRecorded
  <2> QED
    BY <1>i, <1>q, <1>r, <1>c, <2>1
<1>2. ASSUME NEW s \in Session, Install(s) PROVE QuietBut'
  BY <1>2, <1>i, <1>q DEF Install, Release
<1>3. CASE SpawnHeld \/ LogSpawned \/ WriteRecord
  <2>1. pc' = "held" /\ ~Release
    BY <1>3 DEF SpawnHeld, LogSpawned, WriteRecord, Release
  <2> QED
    BY <1>3, <1>i, <1>q, <2>1 DEF SpawnHeld, LogSpawned, WriteRecord
<1>4. CASE pc' = "down"
  BY <1>4
<1>5. CASE Release
  BY <1>5, <1>i, <1>q DEF Release, HeldWhileRecorded
<1>6. CASE Poll
  BY <1>6, <1>i, <1>q DEF Poll, Release
<1>7. CASE SessionEnds
  <2>1. lead'[cur] = "gone" /\ pc = "running" /\ pc' = "stop" /\ UNCHANGED <<cur, todo, sure>> /\ ~Release
    BY <1>7, <1>c, <1>i DEF SessionEnds, LeaderEnds, SessionsTypeOK, Release
  <2> QED
    BY <1>i, <1>q, <2>1
<1>8. CASE StopRaises
  <2>1. pc' = "check" /\ ~sure' /\ UNCHANGED <<cur, todo>> /\ ~Release /\ pc \in {"running", "stop", "signal"}
    BY <1>8 DEF StopRaises, Release
  <2>2. lead'[cur] # "running"
    BY <1>8, <1>c, <1>i, <2>1 DEF StopRaises, SessionsTypeOK, procs
  <2> QED
    BY <1>i, <1>q, <2>1, <2>2
<1>9. CASE LookAtGroup \/ StopFound
  <2>1. Stopping /\ pc' \in {"confirm", "signal", "stop"} /\ UNCHANGED <<cur, todo, lead>> /\ ~Release
    BY <1>9 DEF LookAtGroup, StopFound, Release, procs
  <2> QED
    BY <1>i, <1>q, <2>1
<1>10. CASE Confirm
  <2>1. pc = "confirm" /\ pc' = "check" /\ UNCHANGED <<cur, todo, lead, kid>> /\ ~Release
    BY <1>10 DEF Confirm, Release, procs
  <2>2. sure' => \A k \in Kid : kid[k].at = "in" => kid[k].of # cur
    BY <1>10 DEF Confirm, NoneRunning, Group, Of
  <2>3. sure' => NothingIn(cur)'
    BY <1>i, <2>1, <2>2 DEF NothingIn
  <2> QED
    BY <1>i, <1>q, <2>1, <2>3
<1>11. CASE CheckAfterStop /\ pc' = "settled"
  <2>1. pc = "check" /\ todo = {} /\ sure /\ cur' = cur /\ todo' = todo /\ ~Release
    BY <1>11 DEF CheckAfterStop, Forget, Release
  <2> QED
    BY <1>11, <1>i, <1>q, <2>1
<1>12. CASE Collect \/ EndSession \/ RecordEnds
  <2>1. pc' \in {"down", "collected", "report", "idle"} /\ pc \in {"settled", "collected", "report"} /\ ~Release
    BY <1>12 DEF Collect, EndSession, RecordEnds, Forget, Release
  <2> QED
    BY <1>i, <1>q, <2>1
<1>13. CASE ReadRecords
  <2>1. pc' = "reading" /\ todo' = Leftover /\ lead' = lead /\ kid' = kid
    BY <1>13 DEF ReadRecords, procs
  <2>2. ASSUME NEW s \in Session \ Leftover PROVE NothingIn(s)
    <3>1. ~(s \in spawned /\ rec[s] \in {"own", "other"} /\ s \notin ended)
      BY <2>2 DEF Leftover
    <3>2. lead[s] # "running" /\ Group(s) = {}
      BY <1>i, <3>1 DEF StillFound
    <3> QED
      BY <3>2 DEF NothingIn, Group, Of
  <2> QED
    BY <2>1, <2>2 DEF NothingIn
<1>14. ASSUME NEW s \in Session, StopLeftover(s) PROVE QuietBut'
  <2>0. NamesOwn(s)
    BY <1>14, <1>i DEF StopLeftover, NamesOwn
  <2>1. pc = "leftovers" /\ pc' = "stop" /\ cur' = s /\ s \in todo /\ todo' = todo /\ ~Release
    BY <1>14, <2>0 DEF StopLeftover, Release
  <2>2. lead'[s] # "running"
    BY <1>14, <1>i, <2>0 DEF StopLeftover, LeaderEnds, SessionsTypeOK, procs
  <2> QED
    BY <1>i, <1>q, <2>1, <2>2
<1>15. CASE SettleLeftover /\ pc' = "leftovers"
  <2>1. pc = "check" /\ todo # {} /\ sure /\ todo' = todo \ {cur} /\ ~Release
    BY <1>15 DEF SettleLeftover, Forget, Release
  <2> QED
    BY <1>15, <1>i, <1>q, <2>1
<1>16. CASE ReadLeftovers /\ pc' = "ending"
  <2>1. pc = "leftovers" /\ todo = {} /\ ~Release
    BY <1>16 DEF ReadLeftovers, Release
  <2> QED
    BY <1>16, <1>i, <1>q, <2>1
<1>17. CASE AllEnded \/ \E s \in Session : EndLeftover(s)
  <2>1. pc = "ending" /\ pc' \in {"ending", "report"} /\ ~Release
    BY <1>17 DEF AllEnded, EndLeftover, Release
  <2> QED
    BY <1>i, <1>q, <2>1
<1>18. CASE UNCHANGED sessionsVars
  BY <1>18, <1>i DEF sessionsVars, procs, NothingIn
<1>20. CASE HonourRecords /\ pc' = "leftovers"
  <2>1. pc = "reading" /\ todo' = todo /\ ~Release
    BY <1>20 DEF HonourRecords, Forget, Release
  <2> QED
    BY <1>20, <1>i, <1>q, <2>1
<1>19. /\ CheckAfterStop => pc' \in {"settled", "down"}
       /\ SettleLeftover => pc' \in {"leftovers", "down"}
       /\ ReadLeftovers => pc' \in {"ending", "down"}
       /\ SpawnFails \/ Kill => pc' = "down"
       /\ HonourRecords => pc' \in {"leftovers", "down"}
  BY DEF CheckAfterStop, SettleLeftover, ReadLeftovers, SpawnFails, Kill, HonourRecords, Forget
<1> QED
  BY <1>1, <1>2, <1>3, <1>4, <1>5, <1>6, <1>7, <1>8, <1>9, <1>10, <1>11, <1>12, <1>13, <1>14, <1>15, <1>16,
     <1>17, <1>18, <1>19, <1>20 DEF SessionsNext, Runs, Resumes

\* What has an end, a record or a process had a leader.
LEMMA HadLeaderStep == SessionsInv /\ [SessionsNext]_sessionsVars => HadLeader'
<1> SUFFICES ASSUME SessionsInv, [SessionsNext]_sessionsVars PROVE HadLeader'
  OBVIOUS
<1>i. SessionsTypeOK /\ MindFits /\ HadLeader /\ SeenGone
  BY DEF SessionsInv
<1>k. KeptOfProcs /\ LeadersGoOn
  BY <1>i, StepKeeps
<1>l. \A s \in Session : lead[s] # "none" => lead'[s] # "none"
  BY <1>k DEF LeadersGoOn
<1>c. AtOne => cur \in Session
  BY <1>i DEF MindFits
<1>t. todo \subseteq Session /\ report \subseteq Session /\ ended \subseteq Session
  BY <1>i DEF SessionsTypeOK
<1>1. \A s \in todo' \cup report' \cup ended' : lead'[s] # "none"
  <2>1. todo' \cup report' \cup ended' \subseteq todo \cup report \cup ended
        \/ ReadRecords \/ EndSession \/ SettleLeftover
    BY <1>i DEF SessionsNext, sessionsVars, mind, disk, Processes, Runs, Resumes, Fork, KidMoves, HeldExits, OrphanEnds,
       Rewrite, Install, SpawnHeld, LogSpawned, WriteRecord, SpawnFails, Release, Poll, SessionEnds, StopRaises,
       LookAtGroup, StopFound, Confirm, CheckAfterStop, Collect, RecordEnds, HonourRecords,
       StopLeftover, ReadLeftovers, EndLeftover, AllEnded, Kill, Forget
  <2>2. CASE ReadRecords
    <3>1. /\ todo' = Leftover /\ report' = report /\ ended' = ended
          /\ Leftover \subseteq Session /\ \A s \in Leftover : lead[s] # "none"
      BY <2>2, <1>i DEF ReadRecords, disk, Leftover, HadLeader
    <3> QED
      BY <3>1, <1>i, <1>l, <1>t DEF HadLeader
  <2>3. CASE EndSession
    <3>1. /\ todo' = todo /\ report' = {cur} /\ ended' = ended \cup {cur}
          /\ cur \in Session /\ lead[cur] # "none"
      BY <2>3, <1>c, <1>i DEF EndSession, HadLeader, AtOne
    <3> QED
      BY <3>1, <1>i, <1>l, <1>t DEF HadLeader
  <2>4. CASE SettleLeftover
    <3>1. todo' \cup report' \cup ended' \subseteq todo \cup report \cup ended
      BY <2>4, <1>i DEF SettleLeftover, EndedLater, Forget, MindFits, Stopping
    <3> QED
      BY <3>1, <1>i, <1>l, <1>t DEF HadLeader
  <2> QED
    BY <2>1, <2>2, <2>3, <2>4, <1>i, <1>l, <1>t DEF HadLeader
<1>2. \A k \in Kid : kid'[k].at # "none" => kid'[k].of \in Session /\ lead'[kid'[k].of] # "none"
  <2> TAKE k \in Kid
  <2>1. CASE kid[k].at # "none"
    BY <2>1, <1>i, <1>k, <1>l DEF KeptOfProcs, HadLeader
  <2>2. CASE kid[k].at = "none" /\ kid'[k].at # "none"
    <3>1. PICK s \in Session : Fork(s, k) /\ kid'[k].of = s
      BY <2>2, <1>k DEF KeptOfProcs
    <3>2. lead[s] # "none"
      BY <3>1, <1>i DEF Fork, Group, Of, HadLeader
    <3> QED
      BY <3>1, <3>2, <1>l
  <2> QED
    BY <2>1, <2>2
<1>3. \A s \in Session : rec'[s] # "none" => lead'[s] # "none"
  <2>1. rec' = rec \/ WriteRecord \/ \E s \in Session : Rewrite(s)
    BY DEF SessionsNext, sessionsVars, disk, Processes, Runs, Resumes, Fork, KidMoves, HeldExits, OrphanEnds,
       Install, SpawnHeld, LogSpawned, SpawnFails, Release, Poll, SessionEnds, StopRaises,
       LookAtGroup, StopFound, Confirm, CheckAfterStop, Collect, EndSession, RecordEnds, ReadRecords, HonourRecords, StopLeftover,
       SettleLeftover, ReadLeftovers, EndLeftover, AllEnded, Kill
  <2>2. CASE rec' = rec
    BY <2>2, <1>i, <1>l DEF HadLeader
  <2>3. CASE WriteRecord
    <3>1. lead[cur] # "none" /\ \A s \in Session \ {cur} : rec'[s] = rec[s]
      BY <2>3, <1>i DEF WriteRecord, HadLeader, SessionsTypeOK
    <3> QED
      BY <3>1, <1>i, <1>l DEF HadLeader
  <2>4. ASSUME NEW s \in Session, Rewrite(s) PROVE \A r \in Session : rec'[r] # "none" => lead'[r] # "none"
    <3>1. lead[s] # "none"
      BY <2>4, <1>i DEF Rewrite, Alive, Of, HadLeader
    <3>2. \A r \in Session \ {s} : rec'[r] = rec[r]
      BY <2>4, <1>i DEF Rewrite, SessionsTypeOK
    <3> QED
      BY <3>1, <3>2, <1>i, <1>l DEF HadLeader
  <2> QED
    BY <2>1, <2>2, <2>3, <2>4
<1>4. /\ pc' \in {"running", "settled", "collected"} \/ Stopping' => lead'[cur'] # "none"
      /\ pc' = "installed" => lead'[cur'] = "none" /\ cur' \notin ended'
      /\ pc' = "held" => lead'[cur'] = "held" /\ cur' \notin ended'
  <2> USE DEF mind, disk, AtOne, Stopping
  <2>1. CASE Processes
    <3>1. UNCHANGED mind /\ ended' = ended
      BY <2>1, ProcessesLeave
    <3>2. ASSUME cur \in Session, lead[cur] \in {"none", "held"} PROVE lead'[cur] = lead[cur]
      <4>1. ASSUME NEW s \in Session, HeldExits(s) \/ OrphanEnds(s) PROVE lead'[cur] = lead[cur]
        <5>1. lead' = [lead EXCEPT ![s] = "gone"] /\ cur # s
          BY <4>1 DEF HeldExits, OrphanEnds, LeaderEnds
        <5> QED
          BY <5>1, <3>2, <1>i DEF SessionsTypeOK
      <4>2. lead' = lead \/ \E s \in Session : HeldExits(s) \/ OrphanEnds(s)
        BY <2>1 DEF Processes, Fork, KidMoves, Rewrite, procs
      <4> QED
        BY <4>1, <4>2
    <3> QED
      BY <3>1, <3>2, <1>i, <1>l, <1>c DEF HadLeader
  <2>2. ASSUME NEW s \in Session, Install(s)
        PROVE  pc' = "installed" /\ lead'[cur'] = "none" /\ cur' \notin ended'
    BY <2>2, <1>i DEF Install, procs, HadLeader
  <2>3. CASE SpawnHeld
    BY <2>3, <1>i, <1>c DEF SpawnHeld, HadLeader, SessionsTypeOK
  <2>4. CASE LogSpawned \/ WriteRecord
    BY <2>4, <1>i DEF LogSpawned, WriteRecord, procs, HadLeader
  <2>5. CASE pc' \in {"down", "idle", "report", "reading", "leftovers", "ending"}
    BY <2>5
  <2>6. CASE /\ cur' = cur /\ pc' \in {"running", "settled", "collected", "stop", "signal", "confirm", "check"}
             /\ pc \in {"held", "running", "settled", "stop", "signal", "confirm", "check"}
    BY <2>6, <1>i, <1>l, <1>c DEF HadLeader
  <2>7. ASSUME NEW s \in Session, StopLeftover(s)
        PROVE  pc' \in {"stop", "check"} /\ lead'[cur'] # "none"
    BY <2>7, <1>i, <1>l, <1>t DEF StopLeftover, HadLeader
  <2>8. CASE UNCHANGED sessionsVars
    BY <2>8, <1>i DEF sessionsVars, procs, HadLeader
  <2>9. Release \/ Poll \/ SessionEnds \/ StopRaises \/ LookAtGroup \/ StopFound \/ Confirm \/ CheckAfterStop \/ Collect =>
          \/ pc' = "down"
          \/ /\ cur' = cur /\ pc' \in {"running", "settled", "collected", "stop", "signal", "confirm", "check"}
             /\ pc \in {"held", "running", "settled", "stop", "signal", "confirm", "check"}
    BY DEF Release, HeldWhileRecorded, Poll, SessionEnds, StopRaises, LookAtGroup, StopFound, Confirm, CheckAfterStop,
       Collect, Forget
  <2>10. /\ SpawnFails \/ EndSession \/ RecordEnds \/ ReadRecords \/ HonourRecords \/ SettleLeftover
            \/ ReadLeftovers \/ AllEnded \/ Kill
            => pc' \in {"down", "idle", "report", "reading", "leftovers", "ending"}
         /\ \A s \in Session : EndLeftover(s) => pc' = "ending"
    BY DEF SpawnFails, EndSession, RecordEnds, ReadRecords, HonourRecords, SettleLeftover, ReadLeftovers, AllEnded, Kill, EndLeftover, Forget
  <2> QED
    BY <2>1, <2>2, <2>3, <2>4, <2>5, <2>6, <2>7, <2>8, <2>9, <2>10 DEF SessionsNext, Runs, Resumes
<1> QED
  BY <1>1, <1>2, <1>3, <1>4 DEF HadLeader, Stopping

\* The sweep leaves nothing running of what the polls saw.
LEMMA SeenStep == SessionsInv /\ [SessionsNext]_sessionsVars => SeenGone'
<1> SUFFICES ASSUME SessionsInv, [SessionsNext]_sessionsVars PROVE SeenGone'
  OBVIOUS
<1>i. SessionsTypeOK /\ MindFits /\ SeenGone
  BY DEF SessionsInv
<1>k. /\ \A k \in Kid : kid[k].at # "none" => kid'[k].at # "none"
      /\ \A k \in Kid : Gone(k) => Gone(k)'
  BY <1>i, StepKeeps DEF KeptOfProcs
<1>t. /\ seen \subseteq Kid /\ snap \subseteq Kid /\ swept \in Nat /\ Sweeps \in Nat
      /\ \A k \in Kid : kid[k].at \in {"none", "in", "out", "away", "gone"}
  BY <1>i, SessionsAssumption DEF SessionsTypeOK, Place, Nobodys
<1> USE DEF mind, SeenGone, Stopping
<1>1. CASE Processes
  <2>1. UNCHANGED mind
    BY <1>1, ProcessesLeave
  <2> QED
    BY <2>1, <1>i, <1>k, <1>t
<1>2. ASSUME NEW s \in Session, Install(s) PROVE SeenGone'
  BY <1>2, <1>i, <1>k, <1>t DEF Install
<1>3. CASE SpawnHeld \/ LogSpawned \/ WriteRecord \/ Release
  <2>1. pc \in {"installed", "held"} /\ pc' \in {"held", "running"} /\ UNCHANGED <<seen, snap, swept>>
    BY <1>3 DEF SpawnHeld, LogSpawned, WriteRecord, Release, HeldWhileRecorded
  <2> QED
    BY <2>1, <1>i, <1>k, <1>t
<1>4. CASE Forget
  BY <1>4 DEF Forget
<1>5. CASE Poll
  <2>1. \A k \in Of(cur, {"in", "out"}) : k \in Kid /\ kid[k].at # "none"
    BY DEF Of
  <2>2. pc = "running" /\ pc' = pc /\ seen' = seen \cup Of(cur, {"in", "out"}) /\ UNCHANGED <<snap, swept>>
    BY <1>5 DEF Poll
  <2> QED
    BY <2>1, <2>2, <1>i, <1>k, <1>t
<1>6. CASE SessionEnds \/ \E s \in Session : StopLeftover(s)
  <2>1. pc \in {"running", "leftovers"} /\ pc' = "stop" /\ UNCHANGED <<seen, snap, swept>>
    BY <1>6, <1>i DEF SessionEnds, StopLeftover, NamesOwn, MindFits
  <2> QED
    BY <2>1, <1>i, <1>k, <1>t
<1>7. CASE StopRaises
  <2>1. pc' = "check" /\ ~sure' /\ snap' = {} /\ UNCHANGED <<seen, swept>>
    BY <1>7 DEF StopRaises
  <2> QED
    BY <2>1, <1>i, <1>k, <1>t
<1>8. CASE LookAtGroup
  <2> DEFINE found == Group(cur) \cup
                  IF swept = 0 THEN {k \in seen : kid[k].at \in {"in", "out", "away"}} ELSE {}
  <2>1. /\ pc = "stop" /\ UNCHANGED <<seen, swept, kid>>
        /\ IF found = {} \/ swept > Sweeps THEN pc' = "confirm" /\ snap' = {} ELSE pc' = "signal" /\ snap' = found
    BY <1>8 DEF LookAtGroup, procs
  <2>2. \A k \in found : k \in Kid /\ kid[k].at # "none"
    BY <1>t DEF Group, Of
  <2>3. swept = 0 => \A k \in seen : Gone(k) \/ k \in found
    BY <1>i, <1>t DEF Gone
  <2>4. swept # 0 => \A k \in seen : Gone(k)
    BY <1>i, <1>t, <2>1
  <2>5. CASE found = {} \/ swept > Sweeps
    <3>1. \A k \in seen : Gone(k)
      BY <2>3, <2>4, <2>5, <1>t
    <3> HIDE DEF found
    <3> QED
      BY <3>1, <2>1, <2>5, <1>i, <1>k, <1>t
  <2>6. CASE ~(found = {} \/ swept > Sweeps)
    <3>1. \A k \in seen : Gone(k) \/ k \in found
      BY <2>3, <2>4
    <3> HIDE DEF found
    <3> QED
      BY <3>1, <2>1, <2>2, <2>6, <1>i, <1>k, <1>t
  <2> QED
    BY <2>5, <2>6
<1>9. CASE StopFound
  <2>1. pc = "signal" /\ pc' = "stop" /\ snap' = {} /\ swept' = swept + 1 /\ seen' = seen
    BY <1>9 DEF StopFound
  <2>2. \A k \in snap : Gone(k)'
    BY <1>9, <1>i, StopFoundWanes DEF Gone
  <2> QED
    BY <2>1, <2>2, <1>i, <1>k, <1>t
<1>10. CASE Confirm
  <2>1. pc = "confirm" /\ pc' = "check" /\ UNCHANGED <<seen, snap, swept>>
    BY <1>10 DEF Confirm
  <2> QED
    BY <2>1, <1>i, <1>k, <1>t
<1>11. CASE (CheckAfterStop \/ Collect) /\ ~Forget
  <2>1. /\ (pc = "check" /\ sure) \/ pc = "settled"
        /\ pc' \in {"settled", "collected"} /\ UNCHANGED <<seen, snap, swept>>
    BY <1>11 DEF CheckAfterStop, Collect
  <2> QED
    BY <2>1, <1>i, <1>k, <1>t
<1>12. CASE EndSession
  <2>1. pc' = "report" /\ seen' = {} /\ swept' = 0 /\ snap' = snap
    BY <1>12 DEF EndSession
  <2> QED
    BY <2>1, <1>i, <1>k, <1>t
<1>13. CASE SettleLeftover /\ ~Forget
  <2>1. pc' = "leftovers" /\ swept' = 0 /\ UNCHANGED <<seen, snap>>
    BY <1>13 DEF SettleLeftover
  <2> QED
    BY <2>1, <1>i, <1>k, <1>t
<1>14. CASE (RecordEnds \/ ReadRecords \/ HonourRecords \/ ReadLeftovers \/ AllEnded \/ \E s \in Session : EndLeftover(s)) /\ ~Forget
  <2>1. /\ pc \in {"report", "down", "reading", "leftovers", "ending"}
        /\ pc' \in {"report", "idle", "reading", "leftovers", "ending"}
        /\ UNCHANGED <<seen, snap, swept>>
    BY <1>14 DEF RecordEnds, ReadRecords, HonourRecords, ReadLeftovers, AllEnded, EndLeftover
  <2> QED
    BY <2>1, <1>i, <1>k, <1>t
<1>15. CASE UNCHANGED sessionsVars
  BY <1>15, <1>i, <1>k, <1>t DEF sessionsVars
<1>16. SpawnFails \/ Kill => Forget
  BY DEF SpawnFails, Kill
<1> QED
  BY <1>1, <1>2, <1>3, <1>4, <1>5, <1>6, <1>7, <1>8, <1>9, <1>10, <1>11, <1>12, <1>13, <1>14, <1>15, <1>16
  DEF SessionsNext, Runs, Resumes


Found(s) == s \in spawned /\ rec[s] \in {"own", "other"} /\ s \notin ended

LEMMA FoundUnlessQuiet == StillFound <=> \A s \in Session : NothingIn(s) \/ Found(s)
BY DEF StillFound, NothingIn, Found, Group, Of

\* The record and the log entry of a session that is not quiet stay, and it is not ended.
LEMMA FoundStays ==
  ASSUME SessionsInv, [SessionsNext]_sessionsVars, NEW s \in Session, ~NothingIn(s), Found(s)
  PROVE  Found(s)'
<1>i. SessionsTypeOK /\ MindFits /\ QuietBut
  BY DEF SessionsInv
<1>1. s \in spawned'
  <2>1. spawned \subseteq spawned'
    BY DEF SessionsNext, sessionsVars, sessionLog, Processes, Runs, Resumes, Fork, KidMoves, HeldExits, OrphanEnds,
       Rewrite, Install, SpawnHeld, LogSpawned, WriteRecord, SpawnFails, Release, Poll, SessionEnds, StopRaises,
       LookAtGroup, StopFound, Confirm, CheckAfterStop, Collect, EndSession, RecordEnds, ReadRecords, HonourRecords, StopLeftover,
       SettleLeftover, ReadLeftovers, EndLeftover, AllEnded, Kill
  <2> QED
    BY <2>1 DEF Found
<1>2. rec'[s] \in {"own", "other"}
  <2>1. CASE rec' = rec
    BY <2>1 DEF Found
  <2>2. CASE WriteRecord
    BY <2>2, <1>i DEF WriteRecord, Found, SessionsTypeOK
  <2>3. ASSUME NEW r \in Session, Rewrite(r) PROVE rec'[s] \in {"own", "other"}
    BY <2>3, <1>i DEF Rewrite, Found, SessionsTypeOK
  <2>4. rec' = rec \/ WriteRecord \/ \E r \in Session : Rewrite(r)
    BY DEF SessionsNext, sessionsVars, disk, Processes, Runs, Resumes, Fork, KidMoves, HeldExits, OrphanEnds,
       Install, SpawnHeld, LogSpawned, SpawnFails, Release, Poll, SessionEnds, StopRaises,
       LookAtGroup, StopFound, Confirm, CheckAfterStop, Collect, EndSession, RecordEnds, ReadRecords, HonourRecords, StopLeftover,
       SettleLeftover, ReadLeftovers, EndLeftover, AllEnded, Kill
  <2> QED
    BY <2>1, <2>2, <2>3, <2>4
<1>3. s \notin ended'
  <2>1. EndSession \/ (\E r \in Session : EndLeftover(r)) => pc \in {"collected", "ending"}
    BY DEF EndSession, EndLeftover
  <2>2. pc \notin {"collected", "ending"}
    BY <1>i DEF QuietBut
  <2>3. ended' = ended \/ EndSession \/ \E r \in Session : EndLeftover(r)
    BY DEF SessionsNext, sessionsVars, disk, Processes, Runs, Resumes, Fork, KidMoves, HeldExits, OrphanEnds,
       Rewrite, Install, SpawnHeld, LogSpawned, WriteRecord, SpawnFails, Release, Poll, SessionEnds, StopRaises,
       LookAtGroup, StopFound, Confirm, CheckAfterStop, Collect, RecordEnds, ReadRecords, HonourRecords, StopLeftover,
       SettleLeftover, EndedLater, ReadLeftovers, AllEnded, Kill
  <2> QED
    BY <2>1, <2>2, <2>3 DEF Found
<1> QED
  BY <1>1, <1>2, <1>3 DEF Found

LEMMA FoundStep == SessionsInv /\ [SessionsNext]_sessionsVars => StillFound'
<1> SUFFICES ASSUME SessionsInv, [SessionsNext]_sessionsVars PROVE StillFound'
  OBVIOUS
<1>1. ASSUME NEW s \in Session, ~NothingIn(s)' PROVE Found(s)'
  <2>1. CASE Release /\ s = cur
    BY <2>1 DEF Release, HeldWhileRecorded, SessionsInv, HadLeader, Found, disk, sessionLog
  <2>2. CASE ~(Release /\ s = cur)
    <3>1. ~NothingIn(s)
      BY <1>1, <2>2, StepKeeps DEF SessionsInv, KeptOfProcs
    <3>2. Found(s)
      BY <3>1, FoundUnlessQuiet DEF SessionsInv
    <3> QED
      BY <3>1, <3>2, FoundStays
  <2> QED
    BY <2>1, <2>2
<1> QED
  BY <1>1 DEF StillFound, NothingIn, Found, Group, Of

-----------------------------------------------------------------------------
LEMMA SessionsInitInv == SessionsInit => SessionsInv
<1> SUFFICES ASSUME SessionsInit PROVE SessionsInv
  OBVIOUS
<1>0. 0 \in 0 .. Sweeps + 1 /\ 0 \in 0 .. MaxKills
  BY SessionsAssumption
<1>1. SessionsTypeOK
  BY <1>0 DEF SessionsInit, SessionsTypeOK
<1>2. \A k \in Kid : kid[k].at = "none"
  BY NoneIsNone DEF SessionsInit
<1>3. \A s \in Session : NothingIn(s)
  BY <1>2 DEF SessionsInit, NothingIn
<1> QED
  BY <1>1, <1>2, <1>3, FoundUnlessQuiet DEF SessionsInit, SessionsInv, MindFits, HadLeader, QuietBut, SeenGone, Secrets,
     EndsReported, AtOne, Stopping, Resuming

LEMMA SessionsStepInv == SessionsInv /\ [SessionsNext]_sessionsVars => SessionsInv'
BY SessionsTypeStep, MindStep, HadLeaderStep, QuietStep, SeenStep, SecretsStep, FoundStep, ReportedStep, BystanderStep
DEF SessionsInv

LEMMA SessionsCorrect == SessionsSpec => []SessionsInv
BY SessionsInitInv, SessionsStepInv, PTL DEF SessionsSpec

\* The variables of the sessions' processes, records and orchestrator keep their
\* types (the states of dispatch.py's session and of stop_leftovers).
THEOREM SessionsTypes == SessionsSpec => []SessionsTypeOK
<1>1. SessionsInv => SessionsTypeOK
  BY DEF SessionsInv
<1> QED
  BY <1>1, SessionsCorrect, PTL

\* What of a session runs in its group, a resume finds: spawn_held lets it run only
\* after its record and its log entry, and it is ended only once nothing of it runs.
\* It is of sessions that leave process.json in place and write no ended.json (Rewrite).
THEOREM RunningIsFound == SessionsSpec => []StillFound
<1>1. SessionsInv => StillFound
  BY DEF SessionsInv
<1> QED
  BY <1>1, SessionsCorrect, PTL

\* A session runs beside no other's group: stop_leftovers settles every leftover or
\* goes no further, and a session that could not be settled is found by every resume.
\* Like RunningIsFound it is of sessions that do not hide themselves from a resume.
THEOREM RunsAlone == SessionsSpec => []NoneBeside
<1>1. SessionsInv => NoneBeside
  BY DEF SessionsInv, QuietBut, NoneBeside, NothingIn, Group, Of
<1> QED
  BY <1>1, SessionsCorrect, PTL

\* An attempt is committed only when its group and what the polls saw of its tree
\* are gone: check_after_stop asks still_running after the last sweep.
THEOREM CommitsSettled == SessionsSpec => []CommitSettled
<1>1. SessionsInv => CommitSettled
  <2> SUFFICES ASSUME SessionsInv, pc = "collected"
               PROVE  Group(cur) = {} /\ \A k \in seen : kid[k].at = "gone"
    BY DEF CommitSettled
  <2>1. NothingIn(cur)
    BY DEF SessionsInv, MindFits, AtOne, QuietBut
  <2>2. \A k \in seen : Gone(k)
    BY DEF SessionsInv, SeenGone
  <2> QED
    BY <2>1, <2>2 DEF NothingIn, Gone, Group, Of
<1> QED
  BY <1>1, SessionsCorrect, PTL

\* A resume stops its leftovers and nothing else: stop_leftovers checks and signals
\* what it read once, whatever a record is rewritten to after that.
THEOREM ResumesStopTheirOwn == SessionsSpec => []StopsItsOwn
<1>1. SessionsInv => StopsItsOwn
  <2> SUFFICES ASSUME SessionsInv, pc \in {"leftovers", "ending"}, NEW s \in report
               PROVE  lead[s] # "running" /\ Group(s) = {}
    BY DEF SessionsInv, StopsItsOwn
  <2>1. s \in Session /\ (pc = "leftovers" => s \notin todo)
    BY DEF SessionsInv, SessionsTypeOK, MindFits, Resuming
  <2>2. NothingIn(s)
    BY <2>1 DEF SessionsInv, QuietBut, Resuming
  <2> QED
    BY <2>2 DEF NothingIn, Group, Of
<1> QED
  BY <1>1, SessionsCorrect, PTL

\* A session is let run with no other session's credential on disk: the resume
\* removes all of them, whatever records their sessions left.
THEOREM SecretsRemoved == SessionsSpec => []SecretsOff
<1>1. SessionsInv => SecretsOff
  BY DEF SessionsInv, Secrets, SecretsOff
<1> QED
  BY <1>1, SessionsCorrect, PTL

\* A session marked ended is in the event log, or on its way, or was cut off by a
\* kill: stop_leftovers ends none before every stream is read.
THEOREM EndsAreReported == SessionsSpec => []EndsReported
<1>1. SessionsInv => EndsReported
  BY DEF SessionsInv
<1> QED
  BY <1>1, SessionsCorrect, PTL

=============================================================================
