------------------------------ MODULE Sessions ------------------------------
(***************************************************************************)
(* The life of a session's processes and records (orchestrator/dispatch.py,*)
(* processes.py, reviewers/ending.py) under an orchestrator that can be     *)
(* killed between any two of its steps and resumed.                        *)
(*                                                                         *)
(* A session is a leader and what it starts. A child is "in" the leader's  *)
(* process group, "out" of it while its parents still run, or "away": in   *)
(* no group and no tree the orchestrator can find. A session's end, under  *)
(* its orchestrator or found at a resume, is: stop, sweep the group,       *)
(* confirm, check what it protected, and only then read, commit and end.   *)
(***************************************************************************)
EXTENDS Naturals, FiniteSets

CONSTANTS
  Session,    \* sessions, of attempts that follow one another in any order
  Kid,        \* the processes sessions start
  None,       \* no session
  Sweeps,     \* how often a group is swept again (SWEEPS)
  StopFails,  \* whether the process table can be unreadable during a stop
  MaxKills    \* bound: the orchestrator is killed

ASSUME SessionsAssumption ==
  None \notin Session /\ Sweeps \in Nat /\ StopFails \in BOOLEAN /\ MaxKills \in Nat

VARIABLES
  pc,         \* the orchestrator's step; "down" when none runs
  cur,        \* the session it is at
  todo,       \* the leftovers not settled yet, and after that those not ended
  named,      \* the leftovers whose record, as it was read, names their own process
  aside,      \* the session whose gone stream the operator sets aside
  report,     \* the ended sessions whose ends are not in the event log yet
  seen,       \* the processes a poll found in the tree of cur
  swept,      \* sweeps done
  snap,       \* the group as last read
  sure,       \* whether the stop of cur is confirmed
  lead,       \* each session's leader: "none", "held", "running" or "gone"
  kid,        \* each process: whose it is and where
  rec,        \* process.json: "none", "torn", "own" or "other"
  ended,      \* the sessions that have an ended.json
  secret,     \* the sessions whose credential is on disk
  stream,     \* stdout.jsonl: "none", "there" or "gone"
  spawned,    \* the event log: SessionSpawned
  recorded,   \* the event log: SessionEnded or LeftoverRead
  committed,  \* the attempts committed from a session's worktree
  bystander,  \* the process a rewritten record names, which is no session's
  cut,        \* history: the ends a kill took before they were in the event log
  kills

mind == <<pc, cur, todo, named, aside, report, seen, swept, snap, sure>>
procs == <<lead, kid>>
disk == <<rec, ended, secret, stream>>
sessionLog == <<spawned, recorded>>
sessionPast == <<committed, bystander, cut, kills>>
sessionsVars == <<mind, procs, disk, sessionLog, sessionPast>>

Nobodys == [of |-> None, at |-> "none"]
Of(s, places) == {k \in Kid : kid[k].of = s /\ kid[k].at \in places}
Group(s) == Of(s, {"in"})
Alive(s) == lead[s] = "running" \/ Of(s, {"in", "out", "away"}) # {}
Kill1(gone) == [k \in Kid |-> IF k \in gone THEN [kid[k] EXCEPT !.at = "gone"] ELSE kid[k]]

\* Every record of a session that is not ended (_session_dirs, stop_leftovers).
Leftover == {s \in Session : rec[s] # "none" /\ s \notin ended}

SessionsInit ==
  /\ pc = "down" /\ cur = None /\ todo = {} /\ named = {} /\ aside = None /\ report = {}
  /\ seen = {} /\ swept = 0 /\ snap = {} /\ sure = FALSE
  /\ lead = [s \in Session |-> "none"] /\ kid = [k \in Kid |-> Nobodys]
  /\ rec = [s \in Session |-> "none"] /\ ended = {} /\ secret = {}
  /\ stream = [s \in Session |-> "none"]
  /\ spawned = {} /\ recorded = {}
  /\ committed = {} /\ bystander = "running" /\ cut = {} /\ kills = 0

\* A process that is down keeps nothing in mind.
Forget ==
  /\ pc' = "down" /\ cur' = None /\ todo' = {} /\ named' = {} /\ aside' = None /\ report' = {}
  /\ seen' = {} /\ swept' = 0 /\ snap' = {} /\ sure' = FALSE

-----------------------------------------------------------------------------
(* What sessions do.                                                       *)

\* A session starts a process, in its group or in one of its own.
Fork(s, k) ==
  /\ lead[s] = "running" \/ Group(s) # {}
  /\ kid[k] = Nobodys
  /\ \E at \in {"in"} \cup (IF lead[s] = "running" THEN {"out"} ELSE {"away"}) :
       kid' = [kid EXCEPT ![k] = [of |-> s, at |-> at]]
  /\ UNCHANGED <<mind, lead, disk, sessionLog, sessionPast>>

\* A process ends, or the parent of one outside the group does.
KidMoves(k) ==
  /\ \/ kid[k].at \in {"in", "out", "away"} /\ kid' = [kid EXCEPT ![k].at = "gone"]
     \/ kid[k].at = "out" /\ kid' = [kid EXCEPT ![k].at = "away"]
  /\ UNCHANGED <<mind, lead, disk, sessionLog, sessionPast>>

\* A leader ends. What it started lives on in the group, or away from it; of a
\* stop of its tree, what was started after the tree was read.
LeaderEnds(s) ==
  /\ lead' = [lead EXCEPT ![s] = "gone"]
  /\ \E gone \in SUBSET Of(s, {"in", "out"}) :
       kid' = [k \in Kid |-> CASE k \in gone -> [kid[k] EXCEPT !.at = "gone"]
                               [] k \in Of(s, {"out"}) \ gone -> [kid[k] EXCEPT !.at = "away"]
                               [] OTHER -> kid[k]]

\* A held leader whose orchestrator is gone reads the end of its pipe and exits.
HeldExits(s) ==
  /\ lead[s] = "held" /\ cur # s
  /\ lead' = [lead EXCEPT ![s] = "gone"]
  /\ UNCHANGED <<mind, kid, disk, sessionLog, sessionPast>>

\* A leader whose orchestrator is gone, or at another session, ends by itself.
OrphanEnds(s) ==
  /\ lead[s] = "running" /\ cur # s
  /\ LeaderEnds(s)
  /\ UNCHANGED <<mind, disk, sessionLog, sessionPast>>

\* Without the OS layer a session can write its own record and lose its stream. That it
\* deletes the record, or writes ended.json, is left out: a resume would not look for it.
Rewrite(s) ==
  /\ Alive(s)
  /\ \/ rec' = [rec EXCEPT ![s] = "other"] /\ UNCHANGED stream
     \/ stream' = [stream EXCEPT ![s] = "gone"] /\ UNCHANGED rec
  /\ UNCHANGED <<mind, procs, ended, secret, sessionLog, sessionPast>>

-----------------------------------------------------------------------------
(* A session under its orchestrator.                                       *)

\* The installation: the credential is on disk from here.
Install(s) ==
  /\ pc = "idle" /\ s \notin secret /\ lead[s] = "none"
  /\ pc' = "installed" /\ cur' = s
  /\ secret' = secret \cup {s}
  /\ UNCHANGED <<todo, named, aside, report, seen, swept, snap, sure, procs, rec, ended, stream, sessionLog, sessionPast>>

\* The process is started, and waits to be let run.
SpawnHeld ==
  /\ pc = "installed"
  /\ pc' = "held" /\ lead' = [lead EXCEPT ![cur] = "held"]
  /\ stream' = [stream EXCEPT ![cur] = "there"]
  /\ UNCHANGED <<cur, todo, named, aside, report, seen, swept, snap, sure, kid, rec, ended, secret, sessionLog, sessionPast>>

LogSpawned ==
  /\ pc = "held" /\ cur \notin spawned
  /\ spawned' = spawned \cup {cur}
  /\ UNCHANGED <<mind, procs, disk, recorded, sessionPast>>

\* process.json is created, and then written.
WriteRecord ==
  /\ pc = "held" /\ cur \in spawned
  /\ \/ rec[cur] = "none" /\ rec' = [rec EXCEPT ![cur] = "torn"]
     \/ rec[cur] = "torn" /\ rec' = [rec EXCEPT ![cur] = "own"]
  /\ UNCHANGED <<mind, procs, ended, secret, stream, sessionLog, sessionPast>>

\* The spawn fails while the process is held: it alone is stopped, and the error raised.
SpawnFails ==
  /\ pc \in {"installed", "held"}
  /\ lead' = [lead EXCEPT ![cur] = IF @ = "held" THEN "gone" ELSE @]
  /\ Forget
  /\ UNCHANGED <<kid, disk, sessionLog, sessionPast>>

\* Mutant: the session runs once it is in the event log.
LoggedAtRelease == pc = "held" /\ cur \in spawned

\* The session is let run only when both records of it are there.
HeldWhileRecorded == pc = "held" /\ cur \in spawned /\ rec[cur] = "own"

Release ==
  /\ HeldWhileRecorded
  /\ pc' = "running" /\ lead' = [lead EXCEPT ![cur] = "running"]
  /\ UNCHANGED <<cur, todo, named, aside, report, seen, swept, snap, sure, kid, disk, sessionLog, sessionPast>>

\* The tree is collected while the session runs.
Poll ==
  /\ pc = "running" /\ lead[cur] = "running"
  /\ seen' = seen \cup Of(cur, {"in", "out"})
  /\ UNCHANGED <<pc, cur, todo, named, aside, report, swept, snap, sure, procs, disk, sessionLog, sessionPast>>

\* The session exits, or is stopped with its tree at its wall clock.
SessionEnds ==
  /\ pc = "running" /\ LeaderEnds(cur)
  /\ pc' = "stop"
  /\ UNCHANGED <<cur, todo, named, aside, report, seen, swept, snap, sure, disk, sessionLog, sessionPast>>

\* The process table cannot be read. While the session is not reaped its group is
\* killed by its id; after that nothing is signalled. The stop is not sure.
StopRaises ==
  /\ StopFails
  /\ \/ /\ pc = "running"
        /\ lead' = [lead EXCEPT ![cur] = "gone"]
        /\ kid' = [k \in Kid |-> CASE k \in Group(cur) -> [kid[k] EXCEPT !.at = "gone"]
                                   [] k \in Of(cur, {"out"}) -> [kid[k] EXCEPT !.at = "away"]
                                   [] OTHER -> kid[k]]
     \/ pc \in {"stop", "signal"} /\ UNCHANGED procs
  /\ pc' = "check" /\ sure' = FALSE /\ snap' = {}
  /\ UNCHANGED <<cur, todo, named, aside, report, seen, swept, disk, sessionLog, sessionPast>>

\* The group is read, and with it, the first time, what the polls had seen.
LookAtGroup ==
  /\ pc = "stop"
  /\ LET found == Group(cur) \cup
                  IF swept = 0 THEN {k \in seen : kid[k].at \in {"in", "out", "away"}} ELSE {}
     IN IF found = {} \/ swept > Sweeps
          THEN pc' = "confirm" /\ snap' = {}
          ELSE pc' = "signal" /\ snap' = found
  /\ UNCHANGED <<cur, todo, named, aside, report, seen, swept, sure, procs, disk, sessionLog, sessionPast>>

\* What was read is stopped; what it started meanwhile is not.
StopFound ==
  /\ pc = "signal"
  /\ kid' = Kill1(snap)
  /\ pc' = "stop" /\ snap' = {} /\ swept' = swept + 1
  /\ UNCHANGED <<cur, todo, named, aside, report, seen, sure, lead, disk, sessionLog, sessionPast>>

\* Mutant: the stop's own last word is taken.
TrustsSweeps(s) == TRUE

\* The table is read afresh: nothing of the group runs.
NoneRunning(s) == Group(s) = {}

Confirm ==
  /\ pc = "confirm"
  /\ pc' = "check" /\ sure' = NoneRunning(cur)
  /\ UNCHANGED <<cur, todo, named, aside, report, seen, swept, snap, procs, disk, sessionLog, sessionPast>>

\* The check after the stop runs, and the credential goes whatever it says. It
\* passes, or the attempt is refused and the session stays unended.
CheckAfterStop ==
  /\ pc = "check" /\ todo = {}
  /\ secret' = secret \ {cur}
  /\ \/ sure /\ pc' = "settled"
        /\ UNCHANGED <<cur, todo, named, aside, report, seen, swept, snap, sure>>
     \/ Forget
  /\ UNCHANGED <<procs, rec, ended, stream, sessionLog, sessionPast>>

\* The stream is read and the attempt committed: a stream that is gone raises.
Collect ==
  /\ pc = "settled"
  /\ \/ stream[cur] = "there" /\ pc' = "collected" /\ committed' = committed \cup {cur}
        /\ UNCHANGED <<cur, todo, named, aside, report, seen, swept, snap, sure>>
     \/ Forget /\ UNCHANGED committed
  /\ UNCHANGED <<procs, disk, sessionLog, bystander, cut, kills>>

\* ended.json, then the report to the loop.
EndSession ==
  /\ pc = "collected"
  /\ ended' = ended \cup {cur} /\ report' = {cur}
  /\ pc' = "report" /\ cur' = None /\ seen' = {} /\ swept' = 0 /\ sure' = FALSE
  /\ UNCHANGED <<todo, named, aside, snap, procs, rec, secret, stream, sessionLog, sessionPast>>

\* The loop records the ends one by one, and goes on when all are recorded.
RecordEnds ==
  /\ pc = "report"
  /\ \/ \E s \in report : recorded' = recorded \cup {s} /\ report' = report \ {s} /\ UNCHANGED pc
     \/ report = {} /\ pc' = "idle" /\ UNCHANGED <<report, recorded>>
  /\ UNCHANGED <<cur, todo, named, aside, seen, swept, snap, sure, procs, disk, spawned, sessionPast>>

-----------------------------------------------------------------------------
(* A resume (stop_leftovers).                                              *)

\* The records are read, once: what is checked and what is acted on is what was read.
\* One that is torn, or names another process than the spawn's, is none of the session's.
ReadRecords ==
  /\ pc = "down"
  /\ pc' = "reading" /\ todo' = Leftover /\ named' = {s \in Leftover : rec[s] = "own"}
  /\ aside' \in Session \cup {None}
  /\ UNCHANGED <<cur, report, seen, swept, snap, sure, procs, disk, sessionLog, sessionPast>>

\* A record is honoured that is the one the event log has of the spawn.
Honoured(s) == s \in spawned /\ s \in named

\* Every record is honoured before anything is signalled, or the resume goes no further.
HonourRecords ==
  /\ pc = "reading"
  /\ IF \A s \in todo : Honoured(s)
       THEN pc' = "leftovers" /\ UNCHANGED <<cur, todo, named, aside, report, seen, swept, snap, sure>>
       ELSE Forget
  /\ UNCHANGED <<procs, disk, sessionLog, sessionPast>>

\* Mutant: the record is read again when the session is stopped.
NamesNow(s) == rec[s] = "own"

\* The stop and the sweep are of the process that the record named when it was read.
NamesOwn(s) == s \in named

\* A leftover is stopped with its tree if it runs, and its group is swept. Pointed at
\* another process, the stop, the sweep and the confirmation are all of that one.
StopLeftover(s) ==
  /\ pc = "leftovers" /\ cur = None /\ s \in todo
  /\ cur' = s
  /\ IF NamesOwn(s)
       THEN /\ IF lead[s] \in {"held", "running"} THEN LeaderEnds(s) ELSE UNCHANGED procs
            /\ pc' = "stop" /\ UNCHANGED <<sure, bystander>>
       ELSE /\ bystander' = "stopped"
            /\ pc' = "check" /\ sure' = TRUE /\ UNCHANGED procs
  /\ UNCHANGED <<todo, named, aside, report, seen, swept, snap, disk, sessionLog>>
  /\ UNCHANGED <<committed, cut, kills>>

\* Mutant: a leftover is ended as soon as it is settled.
EndedWhenSettled == ended \cup {cur}

\* Settling ends nothing: its stream is not read yet.
EndedLater == ended

\* Its stop is confirmed and the check passes, or the resume goes no further.
SettleLeftover ==
  /\ pc = "check" /\ todo # {}
  /\ \/ /\ sure
        /\ todo' = todo \ {cur} /\ report' = report \cup {cur}
        /\ cur' = None /\ swept' = 0 /\ sure' = FALSE
        /\ pc' = "leftovers" /\ ended' = EndedLater
        /\ UNCHANGED <<named, aside, seen, snap>>
     \/ Forget /\ UNCHANGED ended
  /\ UNCHANGED <<procs, rec, secret, stream, sessionLog, sessionPast>>

\* Mutant: only the leftovers' credentials are removed.
SecretsOfLeftovers == secret \ report

\* Nothing of the run is running: no session needs its credential.
SecretsGone == {}

\* A stream is read, or is gone and set aside by the operator.
Read(s) == stream[s] = "there" \/ s = aside

\* The credentials are removed, then every stream is read before any session is
\* ended. What is set aside must be a leftover whose stream is gone.
ReadLeftovers ==
  /\ pc = "leftovers" /\ cur = None /\ todo = {}
  /\ secret' = SecretsGone
  /\ \/ /\ \A s \in report : Read(s)
        /\ aside # None => aside \in report /\ stream[aside] # "there"
        /\ pc' = "ending" /\ todo' = report
        /\ UNCHANGED <<cur, named, aside, report, seen, swept, snap, sure>>
     \/ /\ \/ \E s \in report : ~Read(s)
           \/ aside # None /\ ~(aside \in report /\ stream[aside] # "there")
        /\ Forget
  /\ UNCHANGED <<procs, rec, ended, stream, sessionLog, sessionPast>>

EndLeftover(s) ==
  /\ pc = "ending" /\ s \in todo
  /\ ended' = ended \cup {s} /\ todo' = todo \ {s}
  /\ UNCHANGED <<pc, cur, named, aside, report, seen, swept, snap, sure, procs, rec, secret, stream, sessionLog, sessionPast>>

AllEnded ==
  /\ pc = "ending" /\ todo = {}
  /\ pc' = "report" /\ aside' = None /\ named' = {}
  /\ UNCHANGED <<cur, todo, report, seen, swept, snap, sure, procs, disk, sessionLog, sessionPast>>

\* The orchestrator is killed. A report it held is lost with it.
Kill ==
  /\ pc # "down" /\ kills < MaxKills
  /\ kills' = kills + 1
  /\ cut' = cut \cup (report \cap ended)
  /\ Forget
  /\ UNCHANGED <<procs, disk, sessionLog, committed, bystander>>

Processes ==
  \/ \E s \in Session : \/ \E k \in Kid : Fork(s, k)
                         \/ HeldExits(s) \/ OrphanEnds(s) \/ Rewrite(s)
  \/ \E k \in Kid : KidMoves(k)

Runs ==
  \/ \E s \in Session : Install(s)
  \/ SpawnHeld \/ LogSpawned \/ WriteRecord \/ SpawnFails \/ Release
  \/ Poll \/ SessionEnds \/ StopRaises \/ LookAtGroup \/ StopFound \/ Confirm
  \/ CheckAfterStop \/ Collect \/ EndSession \/ RecordEnds

Resumes ==
  \/ ReadRecords \/ HonourRecords
  \/ \E s \in Session : StopLeftover(s) \/ EndLeftover(s)
  \/ SettleLeftover \/ ReadLeftovers \/ AllEnded

SessionsNext == Processes \/ Runs \/ Resumes \/ Kill

SessionsSpec == SessionsInit /\ [][SessionsNext]_sessionsVars

-----------------------------------------------------------------------------
Place == {"in", "out", "away", "gone"}

\* Every variable keeps its type.
SessionsTypeOK ==
  /\ pc \in {"down", "idle", "installed", "held", "running", "stop", "signal", "confirm",
             "check", "settled", "collected", "report", "reading", "leftovers", "ending"}
  /\ cur \in Session \cup {None} /\ aside \in Session \cup {None}
  /\ todo \subseteq Session /\ named \subseteq Session /\ report \subseteq Session
  /\ seen \subseteq Kid /\ snap \subseteq Kid /\ swept \in 0 .. Sweeps + 1 /\ sure \in BOOLEAN
  /\ lead \in [Session -> {"none", "held", "running", "gone"}]
  /\ kid \in [Kid -> {Nobodys} \cup [of : Session, at : Place]]
  /\ rec \in [Session -> {"none", "torn", "own", "other"}]
  /\ stream \in [Session -> {"none", "there", "gone"}]
  /\ ended \subseteq Session /\ secret \subseteq Session
  /\ spawned \subseteq Session /\ recorded \subseteq Session /\ committed \subseteq Session
  /\ bystander \in {"running", "stopped"} /\ cut \subseteq Session
  /\ kills \in 0 .. MaxKills

\* Whatever of a session runs in its group, a resume can find it and hold it to
\* the event log: its spawn is logged, its record is there, and it is not ended.
StillFound ==
  \A s \in Session :
    lead[s] = "running" \/ Group(s) # {} =>
      s \in spawned /\ rec[s] \in {"own", "other"} /\ s \notin ended

\* A session runs beside no other: what was left of every earlier one's group is
\* stopped before a session is let run, through kills and refused resumes.
NoneBeside ==
  pc = "running" => \A s \in Session \ {cur} : lead[s] # "running" /\ Group(s) = {}

\* Nothing is committed while something of the session runs that its group or a
\* poll of its tree shows, even what was started between two sweeps.
CommitSettled ==
  pc = "collected" => Group(cur) = {} /\ \A k \in seen : kid[k].at = "gone"

\* A resume stops its leftovers and nothing else: what it has settled is stopped, and no
\* other process is, though what a leftover left running can rewrite its record between
\* the reading, the check and the stop (stop_leftovers, _honoured, _settle_at_resume).
StopsItsOwn ==
  /\ bystander = "running"
  /\ pc \in {"leftovers", "ending"} => \A s \in report : lead[s] # "running" /\ Group(s) = {}

\* When a session is let run, no other session's credential is on disk, whatever
\* kills came before: of one killed before it had a record too.
SecretsOff == pc \in {"held", "running"} => secret \subseteq {cur}

\* A session is marked as ended only when its end is in the event log, or is on
\* its way there in an orchestrator that lives, or was cut off by a kill.
EndsReported == ended \subseteq recorded \cup report \cup cut
=============================================================================
