------------------------- MODULE DesktopShellProofs -------------------------
(***************************************************************************)
(* Proofs about the desktop shell, for any threads that restart, servers,  *)
(* builds, launches and navigations. First: no server runs that nothing in *)
(* the app would stop, other than those an earlier launch left without a   *)
(* record. No lock is needed for this, as a server is out of one hand only *)
(* when it is in the next. Then, where no stop ran beside a restart: the   *)
(* pid file names the server that is held, and the window shows what runs. *)
(***************************************************************************)
EXTENDS DesktopShell, SequenceTheorems, TLAPS

\* The steps at which a thread has a server in hand.
InHand == {"kill", "end", "unrecord", "record", "wait", "trust", "store", "give up", "forget"}

\* A thread is at work only in an app that is up, or as it launches.
Phases ==
  /\ app = "down" => \A t \in Thread : thread[t] = "idle"
  /\ app = "launching" =>
       /\ thread["main"] \in {"reap", "kill"}
       /\ \A t \in Thread \ {"main"} : thread[t] = "idle"
  /\ app = "up" => \A t \in Thread : thread[t] \notin {"reap", "kill"}

\* Servers are numbered as they start.
Numbered ==
  /\ up \subseteq 1 .. last /\ serving <= last /\ pidFile <= last
  /\ \A t \in Thread : mine[t] <= last

\* A hand is empty outside those steps, and what it forgets has ended.
Hands ==
  \A t \in Thread :
    /\ thread[t] \notin InHand => mine[t] = 0
    /\ thread[t] \in {"unrecord", "forget"} => mine[t] \notin up

\* Who would stop the server: the app that is up, the launch that has read the
\* file, or the file.
WouldStop(s) ==
  IF app = "up" THEN s = serving \/ \E t \in Thread : mine[t] = s
  ELSE IF thread["main"] = "kill" THEN s = mine["main"]
  ELSE s = pidFile

Held == \A s \in up : s \in stranded \/ WouldStop(s)

ShellInv == ShellTypeOK /\ Phases /\ Numbered /\ Hands /\ Held

-----------------------------------------------------------------------------
ThreadStep == StopStep \cup RestartStep \cup
  {"idle", "reap", "kill", "exit", "page", "rebuilt", "drop", "late", "untrust", "say"}
Navigation == [to : 0 .. MaxServers, good : BOOLEAN]

LEMMA Threads == "main" \in Thread /\ "watch" \in Thread /\ Starter \subseteq Thread
BY DEF Thread

LEMMA Bounds == 0 \in 0 .. MaxServers /\ 0 \in 0 .. MaxBuilds /\ 0 \in 0 .. MaxLaunches
BY ShellAssumption

LEMMA OddType == ASSUME ShellTypeOK, ShellNext PROVE odd' \subseteq {"beside", "late"}
BY DEF ShellTypeOK, ShellNext, Met

LEMMA StepTyped ==
  ASSUME ShellTypeOK, NEW t \in Thread, NEW to \in ThreadStep, Moves(t, to)
  PROVE  thread' \in [Thread -> ThreadStep]
BY DEF ShellTypeOK, Moves, ThreadStep

LEMMA AskedTyped ==
  ASSUME ShellTypeOK, NEW nav \in Navigation, Asked(nav)
  PROVE  heading' \in Seq(Navigation)
BY DEF ShellTypeOK, Asked, Navigation

LEMMA GoTyped ==
  ASSUME ShellTypeOK, Go
  PROVE  heading' \in Seq(Navigation) /\ shown' \in BOOLEAN /\ window' \in 0 .. MaxServers
<1>1. [to |-> OwnPage, good |-> TRUE] \in Navigation
  BY Bounds DEF Navigation, OwnPage
<1> QED
  BY <1>1, AskedTyped DEF Go, ShellTypeOK

LEMMA EndRestartTyped ==
  ASSUME ShellTypeOK, NEW t \in Thread, EndRestart(t)
  PROVE  busy' \in Thread \cup {"nobody"} /\ thread' \in [Thread -> ThreadStep]
<1>1. (IF t = "watch" /\ dead # 0 THEN "late" ELSE "idle") \in ThreadStep
  BY DEF ThreadStep
<1> QED
  BY <1>1, StepTyped DEF EndRestart

\* The same types, with the two long sets named.
Typed ==
  /\ app \in {"down", "launching", "up"} /\ launches \in 0 .. MaxLaunches
  /\ thread \in [Thread -> ThreadStep]
  /\ mine \in [Thread -> 0 .. MaxServers] /\ dead \in 0 .. MaxServers
  /\ busy \in Thread \cup {"nobody"} /\ quitting \in BOOLEAN
  /\ serving \in 0 .. MaxServers /\ stamp \in 0 .. MaxBuilds /\ built \in 0 .. MaxBuilds
  /\ trusted \in 0 .. MaxServers
  /\ heading \in Seq(Navigation)
  /\ window \in 0 .. MaxServers /\ shown \in BOOLEAN
  /\ up \subseteq Server /\ last \in 0 .. MaxServers /\ pidFile \in 0 .. MaxServers
  /\ stranded \subseteq Server /\ odd \subseteq {"beside", "late"}

LEMMA SameTypes == ShellTypeOK <=> Typed
BY DEF ShellTypeOK, Typed, ThreadStep, Navigation

LEMMA TypeStart == ShellInit => ShellTypeOK
<1> SUFFICES ASSUME ShellInit PROVE ShellTypeOK
  OBVIOUS
<1>1. thread \in [Thread -> ThreadStep] /\ mine \in [Thread -> 0 .. MaxServers]
  BY Bounds DEF ShellInit, ThreadStep
<1>2. heading \in Seq(Navigation)
  BY DEF ShellInit
<1>3. Typed
  BY <1>1, <1>2, Bounds DEF ShellInit, Typed, OwnPage
<1> QED
  BY <1>3, SameTypes

\* Servers, builds and launches stay within their bounds; the rest moves what
\* is there.
LEMMA TypeOfApp ==
  ASSUME ShellTypeOK, ShellNext, Launch \/ ReadPid \/ KillLeft \/ KillApp \/ Exit
  PROVE  ShellTypeOK'
<1> USE Threads, Bounds DEF life, state, view, servers
<1>o. odd' \subseteq {"beside", "late"}
  BY OddType
<1>t. Typed
  BY SameTypes
<1>1. CASE Launch
  <2>1. thread' \in [Thread -> ThreadStep]
    BY <1>1, StepTyped DEF Launch, ThreadStep
  <2>2. <<[to |-> OwnPage, good |-> TRUE]>> \in Seq(Navigation)
    BY DEF OwnPage, Navigation
  <2>3. launches' \in 0 .. MaxLaunches
    BY <1>1, <1>t, ShellAssumption DEF Launch, Typed
  <2>4. heading' \in Seq(Navigation)
    BY <1>1, <2>2 DEF Launch
  <2> QED
    BY <1>1, <1>o, <1>t, <2>1, <2>3, <2>4 DEF Launch, Typed, ShellTypeOK, ThreadStep, Navigation
<1>2. CASE ReadPid
  <2>1. thread' \in [Thread -> ThreadStep]
    BY <1>2, StepTyped DEF ReadPid, ThreadStep
  <2> QED
    BY <1>2, <1>o, <1>t, <2>1 DEF ReadPid, Typed, ShellTypeOK, ThreadStep, Navigation
<1>3. CASE KillLeft
  <2>1. thread' \in [Thread -> ThreadStep]
    BY <1>3, StepTyped DEF KillLeft, ThreadStep
  <2> QED
    BY <1>3, <1>o, <1>t, <2>1 DEF KillLeft, Typed, ShellTypeOK, ThreadStep, Navigation
<1>4. CASE KillApp \/ Exit
  <2>1. thread' \in [Thread -> ThreadStep] /\ mine' \in [Thread -> 0 .. MaxServers]
    BY <1>4 DEF KillApp, Exit, AppEnds, ThreadStep
  <2>2. heading' \in Seq(Navigation)
    <3>1. heading' = <<>>
      BY <1>4 DEF KillApp, Exit, AppEnds
    <3>2. <<>> \in Seq(Navigation)
      OBVIOUS
    <3> QED
      BY <3>1, <3>2
  <2>3. stranded' \subseteq Server
    BY <1>4, <1>t DEF KillApp, Exit, AppEnds, Typed
  <2>4. /\ app' = "down" /\ busy' = "nobody" /\ quitting' = FALSE /\ shown' = FALSE
        /\ dead' = 0 /\ serving' = 0 /\ stamp' = 0 /\ trusted' = 0 /\ window' = 0
        /\ UNCHANGED <<launches, built, up, last, pidFile>>
    BY <1>4 DEF KillApp, Exit, AppEnds, OwnPage
  <2>5. Typed'
    BY <1>o, <1>t, <2>1, <2>2, <2>3, <2>4 DEF Typed
  <2> QED
    BY <2>5 DEF Typed, ShellTypeOK, ThreadStep, Navigation
<1> QED
  BY <1>1, <1>2, <1>3, <1>4

LEMMA TypeOfStops ==
  ASSUME ShellTypeOK, ShellNext, NEW t \in Thread, Stops(t)
  PROVE  ShellTypeOK'
<1> USE Bounds DEF life, state, view, servers
<1>o. odd' \subseteq {"beside", "late"}
  BY OddType
<1>t. Typed
  BY SameTypes
<1>a. Afterwards(t) \in ThreadStep
  BY DEF Afterwards, ThreadStep, RestartStep
<1>1. CASE ShutGate(t)
  <2>1. thread' \in [Thread -> ThreadStep]
    BY <1>1, StepTyped DEF ShutGate, ThreadStep, StopStep
  <2> QED
    BY <1>1, <1>o, <1>t, <2>1 DEF ShutGate, Typed, ShellTypeOK, ThreadStep, Navigation
<1>2. CASE TakeServer(t)
  <2>0. (IF serving = 0 THEN Afterwards(t) ELSE "end") \in ThreadStep
    BY <1>a DEF ThreadStep, StopStep
  <2>1. thread' \in [Thread -> ThreadStep]
    BY <1>2, <2>0, StepTyped DEF TakeServer
  <2> QED
    BY <1>2, <1>o, <1>t, <2>1 DEF TakeServer, Typed, ShellTypeOK, ThreadStep, Navigation
<1>3. CASE EndProcess(t)
  <2>0. (IF thread[t] = "end" THEN "unrecord" ELSE "forget") \in ThreadStep
    BY DEF ThreadStep, StopStep, RestartStep
  <2>1. thread' \in [Thread -> ThreadStep]
    BY <1>3, <2>0, StepTyped DEF EndProcess
  <2> QED
    BY <1>3, <1>o, <1>t, <2>1 DEF EndProcess, Typed, ShellTypeOK, ThreadStep, Navigation
<1>4. CASE Unrecord(t)
  <2>0. (IF thread[t] = "unrecord" THEN Afterwards(t) ELSE "refused") \in ThreadStep
    BY <1>a DEF ThreadStep, RestartStep
  <2>1. thread' \in [Thread -> ThreadStep]
    BY <1>4, <2>0, StepTyped DEF Unrecord
  <2> QED
    BY <1>4, <1>o, <1>t, <2>1 DEF Unrecord, Typed, ShellTypeOK, ThreadStep, Navigation
<1> QED
  BY <1>1, <1>2, <1>3, <1>4 DEF Stops

LEMMA TypeOfRestarts ==
  ASSUME ShellTypeOK, ShellNext, NEW t \in Thread, Restarts(t)
  PROVE  ShellTypeOK'
<1> USE Bounds DEF life, state, view, servers
<1>o. odd' \subseteq {"beside", "late"}
  BY OddType
<1>t. Typed
  BY SameTypes
<1>1. CASE BeginRestart(t)
  <2>1. thread' \in [Thread -> ThreadStep]
    BY <1>1, StepTyped DEF BeginRestart, ThreadStep, StopStep
  <2> QED
    BY <1>1, <1>o, <1>t, <2>1 DEF BeginRestart, Typed, ShellTypeOK, ThreadStep, Navigation
<1>2. CASE SpawnServer(t)
  <2>1. thread' \in [Thread -> ThreadStep]
    BY <1>2, StepTyped DEF SpawnServer, ThreadStep, RestartStep
  <2>2. last' \in 0 .. MaxServers /\ last' \in Server
    BY <1>2, <1>t, ShellAssumption DEF SpawnServer, Typed, Server
  <2> QED
    BY <1>2, <1>o, <1>t, <2>1, <2>2 DEF SpawnServer, Typed, ShellTypeOK, ThreadStep, Navigation
<1>3. CASE NoEntryPoint(t)
  <2>1. thread' \in [Thread -> ThreadStep]
    BY <1>3, StepTyped DEF NoEntryPoint, ThreadStep, RestartStep
  <2> QED
    BY <1>3, <1>o, <1>t, <2>1 DEF NoEntryPoint, Typed, ShellTypeOK, ThreadStep, Navigation
<1>4. CASE WritePid(t)
  <2>1. thread' \in [Thread -> ThreadStep]
    BY <1>4, StepTyped DEF WritePid, ThreadStep, RestartStep
  <2> QED
    BY <1>4, <1>o, <1>t, <2>1 DEF WritePid, Typed, ShellTypeOK, ThreadStep, Navigation
<1>5. CASE Announced(t)
  <2>1. thread' \in [Thread -> ThreadStep]
    BY <1>5, StepTyped DEF Announced, ThreadStep, RestartStep
  <2> QED
    BY <1>5, <1>o, <1>t, <2>1 DEF Announced, Typed, ShellTypeOK, ThreadStep, Navigation
<1>6. CASE ReadSettings(t)
  <2>1. heading' \in Seq(Navigation) /\ shown' \in BOOLEAN /\ window' \in 0 .. MaxServers
    BY <1>6, GoTyped DEF ReadSettings
  <2>2. busy' \in Thread \cup {"nobody"} /\ thread' \in [Thread -> ThreadStep]
    BY <1>6, <1>t, EndRestartTyped, StepTyped DEF ReadSettings, Typed, ThreadStep, RestartStep
  <2> QED
    BY <1>6, <1>o, <1>t, <2>1, <2>2 DEF ReadSettings, Typed, ShellTypeOK, ThreadStep, Navigation
<1>7. CASE ShowRefusal(t)
  <2>1. heading' \in Seq(Navigation) /\ shown' \in BOOLEAN /\ window' \in 0 .. MaxServers
    BY <1>7, GoTyped DEF ShowRefusal
  <2>2. busy' \in Thread \cup {"nobody"} /\ thread' \in [Thread -> ThreadStep]
    BY <1>7, EndRestartTyped DEF ShowRefusal
  <2> QED
    BY <1>7, <1>o, <1>t, <2>1, <2>2 DEF ShowRefusal, Typed, ShellTypeOK, ThreadStep, Navigation
<1>8. CASE Trust(t)
  <2>1. thread' \in [Thread -> ThreadStep]
    BY <1>8, StepTyped DEF Trust, ThreadStep, RestartStep
  <2>2. heading' \in Seq(Navigation)
    <3>1. Len(heading) \in Nat /\ DOMAIN heading = 1 .. Len(heading)
      BY <1>t DEF Typed
    <3>2. \A i \in 1 .. Len(heading) : heading[i] \in Navigation
      BY <1>t DEF Typed
    <3>3. \A i \in 1 .. Len(heading) : [heading[i] EXCEPT !.good = FALSE] \in Navigation
      BY <3>2 DEF Navigation
    <3>4. heading' \in [1 .. Len(heading) -> Navigation]
      BY <1>8, <3>1, <3>3 DEF Trust
    <3> QED
      BY <3>1, <3>4, SeqDef
  <2> QED
    BY <1>8, <1>o, <1>t, <2>1, <2>2 DEF Trust, Typed, ShellTypeOK, ThreadStep, Navigation
<1>9. CASE Store(t)
  <2>1. [to |-> mine[t], good |-> FALSE] \in Navigation
    BY <1>t DEF Typed, Navigation
  <2>2. heading' \in Seq(Navigation)
    BY <1>9, <2>1, AskedTyped DEF Store
  <2>3. busy' \in Thread \cup {"nobody"} /\ thread' \in [Thread -> ThreadStep]
    BY <1>9, EndRestartTyped DEF Store
  <2> QED
    BY <1>9, <1>o, <1>t, <2>2, <2>3 DEF Store, Typed, ShellTypeOK, ThreadStep, Navigation
<1> QED
  BY <1>1, <1>2, <1>3, <1>4, <1>5, <1>6, <1>7, <1>8, <1>9 DEF Restarts

LEMMA TypeOfRest ==
  ASSUME ShellTypeOK, ShellNext,
         \/ LookAround \/ DropStopped \/ Untrust \/ SayStopped
         \/ DecideNavigation \/ Onboard \/ ShowOnboarding \/ Reload \/ Quit
         \/ (\E s \in up : ServerStops(s)) \/ BuildFinishes
  PROVE  ShellTypeOK'
<1> USE Threads, Bounds DEF life, state, view, servers, threads
<1>o. odd' \subseteq {"beside", "late"}
  BY OddType
<1>t. Typed
  BY SameTypes
<1>1. CASE LookAround
  <2>0. (IF built # 0 /\ built # stamp THEN "rebuilt" ELSE "drop") \in ThreadStep
    BY DEF ThreadStep
  <2>1. thread' \in [Thread -> ThreadStep]
    BY <1>1, <2>0, StepTyped DEF LookAround, ThreadStep
  <2> QED
    BY <1>1, <1>o, <1>t, <2>1 DEF LookAround, Typed, ShellTypeOK, ThreadStep, Navigation
<1>2. CASE DropStopped
  <2>0. (IF thread["watch"] = "drop" THEN "untrust" ELSE "idle") \in ThreadStep
    BY DEF ThreadStep
  <2>1. thread' \in [Thread -> ThreadStep]
    BY <1>2, <2>0, StepTyped DEF DropStopped, ThreadStep
  <2> QED
    BY <1>2, <1>o, <1>t, <2>1 DEF DropStopped, Typed, ShellTypeOK, ThreadStep, Navigation
<1>3. CASE Untrust
  <2>1. thread' \in [Thread -> ThreadStep]
    BY <1>3, StepTyped DEF Untrust, ThreadStep
  <2> QED
    BY <1>3, <1>o, <1>t, <2>1 DEF Untrust, Typed, ShellTypeOK, ThreadStep, Navigation
<1>4. CASE Onboard
  <2>1. thread' \in [Thread -> ThreadStep]
    BY <1>4, StepTyped DEF Onboard, ThreadStep, StopStep
  <2> QED
    BY <1>4, <1>o, <1>t, <2>1 DEF Onboard, Typed, ShellTypeOK, ThreadStep, Navigation
<1>5. CASE Quit
  <2>1. thread' \in [Thread -> ThreadStep]
    BY <1>5, StepTyped DEF Quit, ThreadStep, StopStep
  <2> QED
    BY <1>5, <1>o, <1>t, <2>1 DEF Quit, Typed, ShellTypeOK, ThreadStep, Navigation
<1>6. CASE SayStopped
  <2>1. thread' \in [Thread -> ThreadStep]
    BY <1>6, StepTyped DEF SayStopped, ThreadStep
  <2>2. heading' \in Seq(Navigation) /\ shown' \in BOOLEAN /\ window' \in 0 .. MaxServers
    BY <1>6, GoTyped DEF SayStopped
  <2> QED
    BY <1>6, <1>o, <1>t, <2>1, <2>2 DEF SayStopped, Typed, ShellTypeOK, ThreadStep, Navigation
<1>7. CASE ShowOnboarding
  <2>1. thread' \in [Thread -> ThreadStep]
    BY <1>7, StepTyped DEF ShowOnboarding, ThreadStep
  <2>2. heading' \in Seq(Navigation) /\ shown' \in BOOLEAN /\ window' \in 0 .. MaxServers
    BY <1>7, GoTyped DEF ShowOnboarding
  <2> QED
    BY <1>7, <1>o, <1>t, <2>1, <2>2 DEF ShowOnboarding, Typed, ShellTypeOK, ThreadStep, Navigation
<1>8. CASE Reload
  <2>1. heading' \in Seq(Navigation) /\ shown' \in BOOLEAN /\ window' \in 0 .. MaxServers
    BY <1>8, GoTyped DEF Reload
  <2> QED
    BY <1>8, <1>o, <1>t, <2>1 DEF Reload, Typed, ShellTypeOK, ThreadStep, Navigation
<1>9. CASE DecideNavigation
  <2>1. Head(heading) \in Navigation /\ Tail(heading) \in Seq(Navigation)
    BY <1>9, <1>t DEF DecideNavigation, Typed
  <2>2. Head(heading).to \in 0 .. MaxServers
    BY <2>1 DEF Navigation
  <2> QED
    BY <1>9, <1>o, <1>t, <2>1, <2>2 DEF DecideNavigation, Typed, ShellTypeOK, ThreadStep, Navigation
<1>10. CASE \E s \in up : ServerStops(s)
  BY <1>10, <1>o, <1>t DEF ServerStops, Typed, ShellTypeOK, ThreadStep, Navigation
<1>11. CASE BuildFinishes
  <2>1. built' \in 0 .. MaxBuilds
    BY <1>11, <1>t, ShellAssumption DEF BuildFinishes, Typed
  <2> QED
    BY <1>11, <1>o, <1>t, <2>1 DEF BuildFinishes, Typed, ShellTypeOK, ThreadStep, Navigation
<1> QED
  BY <1>1, <1>2, <1>3, <1>4, <1>5, <1>6, <1>7, <1>8, <1>9, <1>10, <1>11

LEMMA ShellTypeStep == ShellTypeOK /\ [ShellNext]_shellVars => ShellTypeOK'
<1> SUFFICES ASSUME ShellTypeOK, [ShellNext]_shellVars PROVE ShellTypeOK'
  OBVIOUS
<1>1. CASE ShellNext
  BY <1>1, TypeOfApp, TypeOfStops, TypeOfRestarts, TypeOfRest DEF ShellNext, ShellSteps
<1>2. CASE UNCHANGED shellVars
  BY <1>2 DEF shellVars, life, threads, state, view, servers, ShellTypeOK
<1> QED
  BY <1>1, <1>2

\* Every variable keeps its type.
THEOREM ShellTypes == ShellSpec => []ShellTypeOK
BY TypeStart, ShellTypeStep, PTL DEF ShellSpec

-----------------------------------------------------------------------------
LEMMA HeldStart == ShellInit => Phases /\ Numbered /\ Hands /\ Held
BY DEF ShellInit, Phases, Numbered, Hands, Held, WouldStop

\* A thread that goes from one of its own steps to another is one of an app that is up.
LEMMA Working ==
  ASSUME Typed, Phases, NEW t \in Thread, thread[t] \notin {"idle", "reap", "kill"}
  PROVE  app = "up"
BY Threads DEF Typed, Phases

LEMMA GoesOn ==
  ASSUME Typed, Phases, app = "up", app' = app,
         NEW t \in Thread, NEW to \in ThreadStep \ {"reap", "kill"}, Moves(t, to)
  PROVE  Phases'
BY DEF Typed, Phases, Moves

\* A step of thread t that leaves the servers and the hands as they are keeps what
\* is said of them, if the hand is empty where it goes or it goes on with it.
LEMMA KeepsHands ==
  ASSUME Typed, Hands, UNCHANGED mine, up' \subseteq up,
         NEW t \in Thread, NEW to, Moves(t, to),
         to \notin InHand => mine[t] = 0,
         to \in {"unrecord", "forget"} => mine[t] \notin up'
  PROVE  Hands'
BY DEF Typed, Hands, Moves

LEMMA HeldOfApp ==
  ASSUME ShellInv, ShellNext, Launch \/ ReadPid \/ KillLeft \/ KillApp \/ Exit
  PROVE  Phases' /\ Numbered' /\ Hands' /\ Held'
<1> USE Threads DEF life, state, view, servers
<1>t. Typed /\ Phases /\ Numbered /\ Hands /\ Held
  BY SameTypes DEF ShellInv
<1>n. last \in Nat /\ 0 <= last
  BY <1>t, ShellAssumption DEF Typed
<1>1. CASE Launch
  <2>1. thread' = [thread EXCEPT !["main"] = "reap"] /\ thread \in [Thread -> ThreadStep]
    BY <1>1, <1>t DEF Launch, Moves, Typed
  <2>2. Phases' /\ Hands'
    BY <1>1, <1>t, <2>1 DEF Launch, Phases, Hands, InHand
  <2>3. Numbered'
    BY <1>1, <1>t DEF Launch, Numbered
  <2>4. Held'
    BY <1>1, <1>t, <2>1 DEF Launch, Held, WouldStop, Phases
  <2> QED
    BY <2>2, <2>3, <2>4
<1>2. CASE ReadPid
  <2>l. app = "launching"
    BY <1>2, <1>t DEF ReadPid, Phases, Typed
  <2>1. CASE StopsLeft
    <3>1. /\ thread' = [thread EXCEPT !["main"] = "kill"]
          /\ mine' = [mine EXCEPT !["main"] = pidFile]
          /\ app' = app /\ pidFile' = 0 /\ UNCHANGED <<up, last, stranded, serving>>
      BY <1>2, <2>1 DEF ReadPid, Moves
    <3>2. Phases' /\ Hands'
      BY <1>t, <2>l, <3>1 DEF Typed, Phases, Hands, InHand
    <3>3. Numbered'
      BY <1>t, <1>n, <3>1 DEF Typed, Numbered
    <3>4. Held'
      BY <1>2, <1>t, <2>l, <3>1 DEF ReadPid, Typed, Held, WouldStop
    <3> QED
      BY <3>2, <3>3, <3>4
  <2>2. CASE ~StopsLeft
    <3>1. /\ thread' = [thread EXCEPT !["main"] = "idle"] /\ app' = "up"
          /\ pidFile' = 0 /\ UNCHANGED <<mine, up, last, stranded, serving>>
      BY <1>2, <2>2 DEF ReadPid, Moves
    <3>2. Phases' /\ Hands'
      BY <1>2, <1>t, <2>l, <3>1 DEF ReadPid, Typed, Phases, Hands, InHand
    <3>3. Numbered'
      BY <1>t, <1>n, <3>1 DEF Numbered
    <3>4. Held'
      BY <1>2, <1>t, <2>l, <2>2, <3>1 DEF ReadPid, StopsLeft, Held, WouldStop
    <3> QED
      BY <3>2, <3>3, <3>4
  <2> QED
    BY <2>1, <2>2
<1>3. CASE KillLeft
  <2>l. app = "launching"
    BY <1>3, <1>t DEF KillLeft, Phases, Typed
  <2>1. /\ thread' = [thread EXCEPT !["main"] = "idle"] /\ app' = "up"
        /\ mine' = [mine EXCEPT !["main"] = 0] /\ up' = up \ {mine["main"]}
        /\ UNCHANGED <<last, stranded, serving, pidFile>>
    BY <1>3 DEF KillLeft, Moves
  <2>2. Phases' /\ Hands'
    BY <1>t, <2>l, <2>1 DEF Typed, Phases, Hands, InHand
  <2>3. Numbered'
    BY <1>t, <1>n, <2>1 DEF Typed, Numbered
  <2>4. Held'
    BY <1>3, <1>t, <2>l, <2>1 DEF KillLeft, Held, WouldStop
  <2> QED
    BY <2>2, <2>3, <2>4
<1>4. CASE KillApp \/ Exit
  <2>1. AppEnds
    BY <1>4 DEF KillApp, Exit
  <2>2. Phases' /\ Hands'
    BY <2>1 DEF AppEnds, Phases, Hands
  <2>3. Numbered'
    BY <1>t, <1>n, <2>1 DEF AppEnds, Numbered
  <2>4. Held'
    BY <2>1 DEF AppEnds, Held, WouldStop
  <2> QED
    BY <2>2, <2>3, <2>4
<1> QED
  BY <1>1, <1>2, <1>3, <1>4

LEMMA HeldOfStops ==
  ASSUME ShellInv, ShellNext, NEW t \in Thread, Stops(t)
  PROVE  Phases' /\ Numbered' /\ Hands' /\ Held'
<1> USE DEF life, state, view, servers
<1>t. Typed /\ Phases /\ Numbered /\ Hands /\ Held
  BY SameTypes DEF ShellInv
<1>n. last \in Nat /\ 0 <= last
  BY <1>t, ShellAssumption DEF Typed
<1>w. thread[t] \notin {"idle", "reap", "kill"}
  BY DEF Stops, ShutGate, TakeServer, EndProcess, Unrecord
<1>u. app = "up"
  BY <1>t, <1>w, Working
<1>a. Afterwards(t) \in ThreadStep \ (InHand \cup {"reap", "kill"})
  BY DEF Afterwards, ThreadStep, RestartStep, InHand
<1>1. CASE ShutGate(t)
  <2>1. Moves(t, "take") /\ UNCHANGED <<app, mine, up, last, stranded, serving, pidFile>>
    BY <1>1 DEF ShutGate
  <2>2. Phases'
    BY <1>t, <1>u, <2>1, GoesOn DEF ThreadStep, StopStep
  <2>3. Hands'
    <3>1. mine[t] = 0
      BY <1>1, <1>t DEF ShutGate, Hands, InHand
    <3> QED
      BY <1>t, <2>1, <3>1, KeepsHands
  <2>4. Numbered' /\ Held'
    BY <1>t, <1>u, <2>1 DEF Numbered, Held, WouldStop
  <2> QED
    BY <2>2, <2>3, <2>4
<1>2. CASE TakeServer(t)
  <2> DEFINE to == IF serving = 0 THEN Afterwards(t) ELSE "end"
  <2>0. to \in ThreadStep \ {"reap", "kill"}
    BY <1>a DEF ThreadStep, StopStep
  <2>1. /\ Moves(t, to) /\ UNCHANGED <<app, up, last, stranded, pidFile>>
        /\ mine' = [mine EXCEPT ![t] = serving] /\ serving' = 0
    BY <1>2 DEF TakeServer
  <2>2. Phases'
    <3> HIDE DEF to
    <3> QED
      BY <1>t, <1>u, <2>0, <2>1, GoesOn
  <2>3. Hands'
    <3>1. thread' = [thread EXCEPT ![t] = to]
      BY <2>1 DEF Moves
    <3>2. to \notin {"unrecord", "forget"} /\ (to \notin InHand => serving = 0)
      BY <1>a DEF InHand
    <3> HIDE DEF to
    <3> QED
      BY <1>t, <2>1, <3>1, <3>2 DEF Typed, Hands
  <2>4. Numbered'
    BY <1>t, <1>n, <2>1 DEF Typed, Numbered
  <2>5. mine[t] = 0
    BY <1>2, <1>t DEF TakeServer, Hands, InHand
  <2>6. Held'
    <3> SUFFICES ASSUME NEW s \in up, s \notin stranded PROVE WouldStop(s)'
      BY <2>1 DEF Held
    <3>0. s # 0
      BY <1>t, <1>n DEF Numbered
    <3>1. s = serving \/ \E r \in Thread : mine[r] = s
      BY <1>t, <1>u DEF Held, WouldStop
    <3>2. \E r \in Thread : mine'[r] = s
      BY <1>t, <2>1, <2>5, <3>0, <3>1 DEF Typed
    <3> QED
      BY <1>u, <2>1, <3>2 DEF WouldStop
  <2> QED
    BY <2>2, <2>3, <2>4, <2>6
<1>3. CASE EndProcess(t)
  <2> DEFINE to == IF thread[t] = "end" THEN "unrecord" ELSE "forget"
  <2>0. to \in ThreadStep \ {"reap", "kill"}
    BY DEF ThreadStep, StopStep, RestartStep
  <2>1. /\ Moves(t, to) /\ UNCHANGED <<app, mine, last, stranded, serving, pidFile>>
        /\ up' = up \ {mine[t]}
    BY <1>3 DEF EndProcess
  <2>2. Phases'
    <3> HIDE DEF to
    <3> QED
      BY <1>t, <1>u, <2>0, <2>1, GoesOn
  <2>3. Hands'
    <3>1. to \in InHand
      BY DEF InHand
    <3> HIDE DEF to
    <3> QED
      BY <1>t, <2>1, <3>1, KeepsHands
  <2>4. Numbered' /\ Held'
    BY <1>t, <1>u, <2>1 DEF Numbered, Held, WouldStop
  <2> QED
    BY <2>2, <2>3, <2>4
<1>4. CASE Unrecord(t)
  <2> DEFINE to == IF thread[t] = "unrecord" THEN Afterwards(t) ELSE "refused"
  <2>0. to \in ThreadStep \ (InHand \cup {"reap", "kill"})
    BY <1>a DEF ThreadStep, RestartStep, InHand
  <2>1. /\ Moves(t, to) /\ UNCHANGED <<app, up, last, stranded, serving>>
        /\ mine' = [mine EXCEPT ![t] = 0] /\ pidFile' = 0
    BY <1>4 DEF Unrecord
  <2>2. Phases'
    <3> HIDE DEF to
    <3> QED
      BY <1>t, <1>u, <2>0, <2>1, GoesOn
  <2>3. Hands'
    <3>1. thread' = [thread EXCEPT ![t] = to]
      BY <2>1 DEF Moves
    <3>2. to \notin {"unrecord", "forget"}
      BY <2>0 DEF InHand
    <3> HIDE DEF to
    <3> QED
      BY <1>t, <2>1, <3>1, <3>2 DEF Typed, Hands
  <2>4. Numbered'
    BY <1>t, <1>n, <2>1 DEF Typed, Numbered
  <2>5. mine[t] \notin up
    BY <1>4, <1>t DEF Unrecord, Hands
  <2>6. Held'
    <3> SUFFICES ASSUME NEW s \in up, s \notin stranded PROVE WouldStop(s)'
      BY <2>1 DEF Held
    <3>1. s = serving \/ \E r \in Thread : mine[r] = s
      BY <1>t, <1>u DEF Held, WouldStop
    <3>2. s = serving \/ \E r \in Thread : mine'[r] = s
      BY <1>t, <2>1, <2>5, <3>1 DEF Typed
    <3> QED
      BY <1>u, <2>1, <3>2 DEF WouldStop
  <2> QED
    BY <2>2, <2>3, <2>4, <2>6
<1> QED
  BY <1>1, <1>2, <1>3, <1>4 DEF Stops

LEMMA HeldOfRestarts ==
  ASSUME ShellInv, ShellNext, NEW t \in Thread, Restarts(t)
  PROVE  Phases' /\ Numbered' /\ Hands' /\ Held'
<1> USE DEF life, state, view, servers
<1>t. Typed /\ Phases /\ Numbered /\ Hands /\ Held
  BY SameTypes DEF ShellInv
<1>n. last \in Nat /\ 0 <= last
  BY <1>t, ShellAssumption DEF Typed
<1>u. app = "up"
  BY <1>t, Working DEF Restarts, BeginRestart, ReadSettings, SpawnServer, NoEntryPoint,
     WritePid, Announced, ShowRefusal, Trust, Store
\* Where a restart goes without touching a server, a hand or the file.
<1>q. ASSUME UNCHANGED <<app, mine, up, last, stranded, serving, pidFile>>,
             NEW to \in ThreadStep \ {"reap", "kill", "unrecord", "forget"}, Moves(t, to),
             to \notin InHand => mine[t] = 0
      PROVE  Phases' /\ Numbered' /\ Hands' /\ Held'
  <2>1. Phases'
    BY <1>t, <1>u, <1>q, GoesOn
  <2>2. Hands'
    BY <1>t, <1>q, KeepsHands
  <2>3. Numbered' /\ Held'
    BY <1>t, <1>u, <1>q DEF Numbered, Held, WouldStop
  <2> QED
    BY <2>1, <2>2, <2>3
<1>e. ASSUME EndRestart(t) PROVE \E to \in {"late", "idle"} : Moves(t, to)
  BY <1>e DEF EndRestart
<1>1. CASE BeginRestart(t)
  <2>1. mine[t] = 0
    BY <1>1, <1>t DEF BeginRestart, Hands, InHand
  <2> QED
    BY <1>1, <1>q, <2>1 DEF BeginRestart, ThreadStep, StopStep
<1>2. CASE ReadSettings(t)
  <2>1. mine[t] = 0
    BY <1>2, <1>t DEF ReadSettings, Hands, InHand
  <2>2. \E to \in {"late", "idle", "spawn"} : Moves(t, to)
    BY <1>2, <1>e DEF ReadSettings
  <2>3. {"late", "idle", "spawn"} \subseteq ThreadStep \ {"reap", "kill", "unrecord", "forget"}
    BY DEF ThreadStep, RestartStep
  <2> QED
    BY <1>2, <1>q, <2>1, <2>2, <2>3 DEF ReadSettings
<1>3. CASE SpawnServer(t)
  <2>1. /\ Moves(t, "record") /\ UNCHANGED <<app, stranded, serving, pidFile>>
        /\ mine' = [mine EXCEPT ![t] = last + 1]
        /\ last' = last + 1 /\ up' = up \cup {last + 1}
    BY <1>3 DEF SpawnServer
  <2>2. mine[t] = 0
    BY <1>3, <1>t DEF SpawnServer, Hands, InHand
  <2>3. Phases'
    BY <1>t, <1>u, <2>1, GoesOn DEF ThreadStep, RestartStep
  <2>4. Hands'
    <3>1. thread' = [thread EXCEPT ![t] = "record"]
      BY <2>1 DEF Moves
    <3>2. \A r \in Thread : mine[r] # last + 1
      BY <1>t, <1>n DEF Typed, Numbered
    <3> QED
      BY <1>t, <2>1, <3>1, <3>2 DEF Typed, Hands, InHand
  <2>5. Numbered'
    <3>1. up' \subseteq 1 .. last'
      BY <1>t, <1>n, <2>1 DEF Numbered
    <3>2. serving' <= last' /\ pidFile' <= last'
      BY <1>t, <1>n, <2>1, ShellAssumption DEF Typed, Numbered
    <3>3. \A r \in Thread : mine'[r] <= last'
      BY <1>t, <1>n, <2>1, ShellAssumption DEF Typed, Numbered
    <3> QED
      BY <3>1, <3>2, <3>3 DEF Numbered
  <2>6. Held'
    <3> SUFFICES ASSUME NEW s \in up', s \notin stranded PROVE WouldStop(s)'
      BY <2>1 DEF Held
    <3>1. CASE s = last + 1
      <4>1. mine'[t] = s
        BY <1>t, <2>1, <3>1 DEF Typed
      <4> QED
        BY <1>u, <2>1, <4>1 DEF WouldStop
    <3>2. CASE s \in up
      <4>0. s # 0
        BY <1>t, <1>n, <3>2 DEF Numbered
      <4>1. s = serving \/ \E r \in Thread : mine[r] = s
        BY <1>t, <1>u, <3>2 DEF Held, WouldStop
      <4>2. s = serving \/ \E r \in Thread : mine'[r] = s
        BY <1>t, <2>1, <2>2, <4>0, <4>1 DEF Typed
      <4> QED
        BY <1>u, <2>1, <4>2 DEF WouldStop
    <3> QED
      BY <2>1, <3>1, <3>2
  <2> QED
    BY <2>3, <2>4, <2>5, <2>6
<1>4. CASE NoEntryPoint(t)
  <2>1. mine[t] = 0
    BY <1>4, <1>t DEF NoEntryPoint, Hands, InHand
  <2> QED
    BY <1>4, <1>q, <2>1 DEF NoEntryPoint, ThreadStep, RestartStep
<1>5. CASE WritePid(t)
  <2>1. /\ Moves(t, "wait") /\ UNCHANGED <<app, mine, up, last, stranded, serving>>
        /\ pidFile' = mine[t]
    BY <1>5 DEF WritePid
  <2>2. Phases'
    BY <1>t, <1>u, <2>1, GoesOn DEF ThreadStep, RestartStep
  <2>3. Hands'
    BY <1>t, <2>1, KeepsHands DEF InHand
  <2>4. Numbered' /\ Held'
    BY <1>t, <1>u, <2>1 DEF Numbered, Held, WouldStop
  <2> QED
    BY <2>2, <2>3, <2>4
<1>6. CASE Announced(t)
  <2>1. \E to \in {"trust", "give up"} : Moves(t, to)
    BY <1>6 DEF Announced
  <2>2. {"trust", "give up"} \subseteq (ThreadStep \ {"reap", "kill", "unrecord", "forget"}) \cap InHand
    BY DEF ThreadStep, RestartStep, InHand
  <2> QED
    BY <1>6, <1>q, <2>1, <2>2 DEF Announced
<1>7. CASE ShowRefusal(t)
  <2>1. mine[t] = 0
    BY <1>7, <1>t DEF ShowRefusal, Hands, InHand
  <2>2. \E to \in {"late", "idle"} : Moves(t, to)
    BY <1>7, <1>e DEF ShowRefusal
  <2> QED
    BY <1>7, <1>q, <2>1, <2>2 DEF ShowRefusal, ThreadStep
<1>8. CASE Trust(t)
  BY <1>8, <1>q DEF Trust, ThreadStep, RestartStep, InHand
<1>9. CASE Store(t)
  <2>1. /\ UNCHANGED <<app, last, stranded>>
        /\ mine' = [mine EXCEPT ![t] = 0] /\ serving' = mine[t]
        /\ up' = up \ {serving} /\ pidFile' \in {0, pidFile}
    BY <1>9 DEF Store
  <2>2. PICK to \in {"late", "idle"} : Moves(t, to)
    BY <1>9, <1>e DEF Store
  <2>3. Phases'
    BY <1>t, <1>u, <2>1, <2>2, GoesOn DEF ThreadStep
  <2>4. Hands'
    BY <1>t, <2>1, <2>2 DEF Typed, Hands, InHand, Moves
  <2>5. Numbered'
    BY <1>t, <1>n, <2>1 DEF Typed, Numbered
  <2>6. Held'
    <3> SUFFICES ASSUME NEW s \in up', s \notin stranded PROVE WouldStop(s)'
      BY <2>1 DEF Held
    <3>1. \E r \in Thread : mine[r] = s
      BY <1>t, <1>u, <2>1 DEF Held, WouldStop
    <3>2. s = serving' \/ \E r \in Thread : mine'[r] = s
      BY <1>t, <2>1, <3>1 DEF Typed
    <3> QED
      BY <1>u, <2>1, <3>2 DEF WouldStop
  <2> QED
    BY <2>3, <2>4, <2>5, <2>6
<1> QED
  BY <1>1, <1>2, <1>3, <1>4, <1>5, <1>6, <1>7, <1>8, <1>9 DEF Restarts

LEMMA HeldOfRest ==
  ASSUME ShellInv, ShellNext,
         \/ LookAround \/ DropStopped \/ Untrust \/ SayStopped
         \/ DecideNavigation \/ Onboard \/ ShowOnboarding \/ Reload \/ Quit
         \/ (\E s \in up : ServerStops(s)) \/ BuildFinishes
  PROVE  Phases' /\ Numbered' /\ Hands' /\ Held'
<1> USE Threads DEF life, state, view, servers, threads
<1>t. Typed /\ Phases /\ Numbered /\ Hands /\ Held
  BY SameTypes DEF ShellInv
<1>n. last \in Nat /\ 0 <= last
  BY <1>t, ShellAssumption DEF Typed
\* Where a thread with an empty hand goes on to another step without a server.
<1>q. ASSUME UNCHANGED <<app, mine, up, last, stranded>>, app = "up",
             serving' = serving \/ (serving \notin up /\ serving' = 0),
             pidFile' \in {0, pidFile},
             NEW t \in Thread, thread[t] \notin InHand,
             NEW to \in ThreadStep \ (InHand \cup {"reap"}), Moves(t, to)
      PROVE  Phases' /\ Numbered' /\ Hands' /\ Held'
  <2>1. Phases'
    BY <1>t, <1>q, GoesOn DEF InHand
  <2>2. Hands'
    <3>1. mine[t] = 0
      BY <1>t, <1>q DEF Hands
    <3> QED
      BY <1>t, <1>q, <3>1, KeepsHands DEF InHand
  <2>3. Numbered'
    BY <1>t, <1>n, <1>q DEF Numbered
  <2>4. Held'
    BY <1>t, <1>q DEF Held, WouldStop
  <2> QED
    BY <2>1, <2>2, <2>3, <2>4
<1>1. CASE LookAround
  <2> DEFINE to == IF built # 0 /\ built # stamp THEN "rebuilt" ELSE "drop"
  <2>1. Moves("watch", to) /\ thread["watch"] \notin InHand /\ app = "up"
    BY <1>1 DEF LookAround, InHand
  <2>2. to \in ThreadStep \ (InHand \cup {"reap"})
    BY DEF ThreadStep, InHand
  <2>3. UNCHANGED <<app, mine, up, last, stranded, pidFile>>
    BY <1>1 DEF LookAround
  <2>4. serving' = serving \/ (serving \notin up /\ serving' = 0)
    BY <1>1 DEF LookAround
  <2> HIDE DEF to
  <2> QED
    BY <1>q, <2>1, <2>2, <2>3, <2>4
<1>2. CASE DropStopped
  <2> DEFINE to == IF thread["watch"] = "drop" THEN "untrust" ELSE "idle"
  <2>1. Moves("watch", to) /\ thread["watch"] \notin InHand
    BY <1>2 DEF DropStopped, InHand
  <2>2. to \in ThreadStep \ (InHand \cup {"reap"})
    BY DEF ThreadStep, InHand
  <2>3. UNCHANGED <<app, mine, up, last, stranded, serving>> /\ pidFile' = 0
    BY <1>2 DEF DropStopped
  <2>4. app = "up"
    BY <1>2, <1>t, Working DEF DropStopped
  <2> HIDE DEF to
  <2> QED
    BY <1>q, <2>1, <2>2, <2>3, <2>4
<1>3. CASE Untrust \/ SayStopped
  <2>1. \E to \in {"say", "idle"} : Moves("watch", to)
    BY <1>3 DEF Untrust, SayStopped
  <2>2. {"say", "idle"} \subseteq ThreadStep \ (InHand \cup {"reap"})
    BY DEF ThreadStep, InHand
  <2>3. UNCHANGED <<app, mine, up, last, stranded, serving, pidFile>>
    BY <1>3 DEF Untrust, SayStopped
  <2>4. thread["watch"] \in {"untrust", "say"}
    BY <1>3 DEF Untrust, SayStopped
  <2>5. app = "up" /\ thread["watch"] \notin InHand
    BY <1>t, <2>4, Working DEF InHand
  <2> QED
    BY <1>q, <2>1, <2>2, <2>3, <2>5
<1>4. CASE Onboard \/ ShowOnboarding \/ Quit
  <2>1. \E to \in {"gate", "idle"} : Moves("main", to)
    BY <1>4 DEF Onboard, ShowOnboarding, Quit
  <2>2. {"gate", "idle"} \subseteq ThreadStep \ (InHand \cup {"reap"})
    BY DEF ThreadStep, StopStep, InHand
  <2>3. UNCHANGED <<app, mine, up, last, stranded, serving, pidFile>>
    BY <1>4 DEF Onboard, ShowOnboarding, Quit
  <2>4. app = "up" /\ thread["main"] \notin InHand
    BY <1>4, <1>t, Working DEF Onboard, ShowOnboarding, Quit, MainFree, InHand
  <2> QED
    BY <1>q, <2>1, <2>2, <2>3, <2>4
<1>5. CASE \E s \in up : ServerStops(s)
  BY <1>5, <1>t DEF ServerStops, Phases, Numbered, Hands, Held, WouldStop
<1>6. CASE DecideNavigation \/ Reload \/ BuildFinishes
  <2>1. UNCHANGED <<app, thread, mine, up, last, stranded, serving, pidFile>>
    BY <1>6 DEF DecideNavigation, Reload, BuildFinishes
  <2> QED
    BY <1>t, <2>1 DEF Phases, Numbered, Hands, Held, WouldStop
<1> QED
  BY <1>1, <1>2, <1>3, <1>4, <1>5, <1>6

LEMMA ShellStart == ShellInit => ShellInv
BY TypeStart, HeldStart DEF ShellInv

LEMMA ShellStep == ShellInv /\ [ShellNext]_shellVars => ShellInv'
<1> SUFFICES ASSUME ShellInv, [ShellNext]_shellVars PROVE ShellInv'
  OBVIOUS
<1>1. ShellTypeOK'
  BY ShellTypeStep DEF ShellInv
<1>2. CASE ShellNext
  BY <1>1, <1>2, HeldOfApp, HeldOfStops, HeldOfRestarts, HeldOfRest
  DEF ShellNext, ShellSteps, ShellInv
<1>3. CASE UNCHANGED shellVars
  BY <1>1, <1>3 DEF shellVars, life, threads, state, view, servers,
     ShellInv, Phases, Numbered, Hands, Held, WouldStop
<1> QED
  BY <1>2, <1>3

\* Every server that runs is one that the app would stop, or was left by an earlier
\* launch that ended before it had a record.
THEOREM ServersAreHeld == ShellSpec => []EveryServerHeld
<1>1. ShellInv => EveryServerHeld
  BY DEF ShellInv, Held, WouldStop, EveryServerHeld
<1> QED
  BY <1>1, ShellStart, ShellStep, PTL DEF ShellSpec

-----------------------------------------------------------------------------
(* The record of the server. Only the thread in a restart writes the file; *)
(* who removes it has taken the server from the state first; and where no  *)
(* stop meets a restart, no other removes it before the server is stored.  *)

\* A thread in a restart holds the lock; the main thread only ever stops.
Locked ==
  /\ busy # "main"
  /\ \A t \in Thread :
       thread[t] \in StopStep \cup RestartStep =>
         busy = t \/ (t = "main" /\ thread[t] \in StopStep)

AtRest == app # "up" => serving = 0 /\ busy = "nobody"

\* In an app that is up, while nothing met: the state is empty in a restart and in
\* a stop that has taken the server, the file names the server that was started,
\* and what the watcher is about to drop it has taken.
Recorded ==
  /\ Met = {}
  /\ \A t \in Thread :
       /\ thread[t] \in RestartStep \cup {"end", "unrecord"} => serving = 0
       /\ thread[t] \in {"wait", "trust", "store"} => pidFile = mine[t]
  /\ thread["watch"] = "drop" => serving = 0
  /\ serving \in up => pidFile = serving

KeptInv == ShellInv /\ Locked /\ AtRest /\ (app = "up" /\ odd = {} => Recorded)

\* What the history says of a state in which nothing has met yet.
LEMMA NothingMet ==
  ASSUME ShellNext, app' = "up", odd' = {}
  PROVE  odd = {} /\ Met' = {}
BY DEF ShellNext

LEMMA Alone ==
  ASSUME Met = {}
  PROVE  /\ busy # "nobody" => ~StopsOutside
         /\ thread["watch"] # "late"
BY DEF Met

LEMMA Names == "nobody" \notin Thread /\ "main" \notin Starter /\ "main" # "watch"
BY ShellAssumption DEF Thread

LEMMA KeptStart == ShellInit => KeptInv
<1> SUFFICES ASSUME ShellInit PROVE KeptInv
  OBVIOUS
<1>1. Locked /\ AtRest /\ app # "up"
  BY DEF ShellInit, Locked, AtRest, StopStep, RestartStep
<1> QED
  BY <1>1, ShellStart DEF KeptInv

LEMMA LockedStep ==
  ASSUME KeptInv, ShellNext
  PROVE  Locked' /\ AtRest'
<1> USE Threads, Names DEF life, threads, state, view, servers
<1>t. Typed /\ Phases /\ Locked /\ AtRest
  BY SameTypes DEF KeptInv, ShellInv
<1>1. CASE Launch \/ ReadPid \/ KillLeft
  <2>1. PICK to \in {"reap", "kill", "idle"} : Moves("main", to)
    BY <1>1 DEF Launch, ReadPid, KillLeft
  <2>2. UNCHANGED <<serving, busy>> /\ app # "up"
    BY <1>1, <1>t DEF Launch, ReadPid, KillLeft, Phases, Typed
  <2> QED
    BY <1>t, <2>1, <2>2 DEF Typed, Locked, AtRest, Moves, StopStep, RestartStep
<1>2. CASE KillApp \/ Exit
  BY <1>2 DEF KillApp, Exit, AppEnds, Locked, AtRest, StopStep, RestartStep
<1>3. ASSUME NEW t \in Thread, Stops(t) PROVE Locked' /\ AtRest'
  <2>1. app = "up"
    BY <1>3, <1>t, Working DEF Stops, ShutGate, TakeServer, EndProcess, Unrecord
  <2>2. UNCHANGED <<app, busy>>
    BY <1>3 DEF Stops, ShutGate, TakeServer, EndProcess, Unrecord
  <2>3. thread[t] \in StopStep \cup RestartStep
    BY <1>3 DEF Stops, ShutGate, TakeServer, EndProcess, Unrecord, StopStep, RestartStep
  <2>4. PICK to : Moves(t, to) /\ (t = "main" => to \in StopStep \cup {"exit", "page"})
    <3>1. CASE ShutGate(t)
      BY <3>1 DEF ShutGate, StopStep
    <3>2. CASE TakeServer(t)
      BY <3>2 DEF TakeServer, Afterwards, StopStep
    <3>3. CASE EndProcess(t)
      BY <3>3, <1>t, <2>3 DEF EndProcess, StopStep, RestartStep, Locked
    <3>4. CASE Unrecord(t)
      BY <3>4, <1>t, <2>3 DEF Unrecord, Afterwards, StopStep, RestartStep, Locked
    <3> QED
      BY <1>3, <3>1, <3>2, <3>3, <3>4 DEF Stops
  <2>5. t = "main" \/ busy = t
    BY <1>t, <2>3 DEF Locked
  <2> QED
    BY <1>t, <2>1, <2>2, <2>4, <2>5 DEF Typed, Locked, AtRest, Moves, StopStep, RestartStep
<1>4. ASSUME NEW t \in Thread, Restarts(t) PROVE Locked' /\ AtRest'
  <2>1. app = "up" /\ app' = "up"
    BY <1>4, <1>t, Working DEF Restarts, BeginRestart, ReadSettings, SpawnServer,
       NoEntryPoint, WritePid, Announced, ShowRefusal, Trust, Store
  <2>2. CASE BeginRestart(t)
    <3>1. busy = "nobody" /\ busy' = t /\ t # "main" /\ Moves(t, "gate")
      BY <2>2 DEF BeginRestart, Free
    <3> QED
      BY <1>t, <2>1, <3>1 DEF Typed, Locked, AtRest, Moves
  <2>3. CASE ~BeginRestart(t)
    <3>1. thread[t] \in RestartStep
      BY <1>4, <2>3 DEF Restarts, ReadSettings, SpawnServer, NoEntryPoint, WritePid,
         Announced, ShowRefusal, Trust, Store, RestartStep
    <3>2. busy = t /\ t # "main"
      BY <1>t, <3>1 DEF Locked, RestartStep, StopStep
    <3>3. \/ busy' = t /\ \E to : Moves(t, to)
          \/ busy' = "nobody" /\ \E to \in {"late", "idle"} : Moves(t, to)
      BY <1>4, <2>3, <3>2 DEF Restarts, ReadSettings, SpawnServer, NoEntryPoint, WritePid,
         Announced, ShowRefusal, Trust, Store, EndRestart
    <3> QED
      BY <1>t, <2>1, <3>2, <3>3 DEF Typed, Locked, AtRest, Moves, StopStep, RestartStep
  <2> QED
    BY <2>2, <2>3
<1>5. CASE LookAround \/ DropStopped \/ Untrust \/ SayStopped
  <2>1. PICK to \in {"rebuilt", "drop", "untrust", "say", "idle"} : Moves("watch", to)
    BY <1>5 DEF LookAround, DropStopped, Untrust, SayStopped
  <2>2. thread["watch"] \in {"idle", "drop", "late", "untrust", "say"} /\ UNCHANGED busy
    BY <1>5 DEF LookAround, DropStopped, Untrust, SayStopped
  <2>3. app' = "up"
    BY <1>5, <1>t, Working DEF LookAround, DropStopped, Untrust, SayStopped
  <2> QED
    BY <1>t, <2>1, <2>2, <2>3 DEF Typed, Locked, AtRest, Moves, StopStep, RestartStep
<1>6. CASE Onboard \/ ShowOnboarding \/ Quit
  <2>1. PICK to \in {"gate", "idle"} : Moves("main", to)
    BY <1>6 DEF Onboard, ShowOnboarding, Quit
  <2>2. UNCHANGED busy /\ app' = "up"
    BY <1>6, <1>t, Working DEF Onboard, ShowOnboarding, Quit, MainFree
  <2> QED
    BY <1>t, <2>1, <2>2 DEF Typed, Locked, AtRest, Moves, StopStep, RestartStep
<1>7. CASE DecideNavigation \/ Reload \/ BuildFinishes \/ \E s \in up : ServerStops(s)
  <2>1. UNCHANGED <<app, thread, busy, serving>>
    BY <1>7 DEF DecideNavigation, Reload, BuildFinishes, ServerStops
  <2> QED
    BY <1>t, <2>1 DEF Locked, AtRest
<1> QED
  BY <1>1, <1>2, <1>3, <1>4, <1>5, <1>6, <1>7 DEF ShellNext, ShellSteps

\* A stop in an app that is up. At the steps that have taken the server the state is
\* empty, and no other thread is in a restart then.
LEMMA RecordedByStops ==
  ASSUME KeptInv, NEW t \in Thread, Stops(t), app = "up", odd = {}, Met' = {}
  PROVE  Recorded'
<1> USE Threads, Names DEF life, state, view, servers
<1>t. Typed /\ Numbered /\ Locked /\ Recorded
  BY SameTypes DEF KeptInv, ShellInv
<1>n. last \in Nat /\ 0 <= last
  BY <1>t, ShellAssumption DEF Typed
<1>1. CASE ShutGate(t)
  BY <1>1, <1>t DEF ShutGate, Typed, Moves, Recorded, RestartStep
<1>2. CASE TakeServer(t)
  <2>1. serving' = 0 /\ UNCHANGED <<up, pidFile>>
    BY <1>2 DEF TakeServer
  <2>2. PICK to : Moves(t, to) /\ to \notin {"wait", "trust", "store"}
    BY <1>2 DEF TakeServer, Afterwards
  <2>3. mine' = [mine EXCEPT ![t] = serving] /\ thread[t] \notin {"wait", "trust", "store"}
    BY <1>2 DEF TakeServer
  <2>4. 0 \notin up
    BY <1>t, <1>n DEF Numbered
  <2> QED
    BY <1>t, <2>1, <2>2, <2>3, <2>4 DEF Typed, Moves, Recorded
<1>3. CASE EndProcess(t)
  <2>1. PICK to \in {"unrecord", "forget"} : Moves(t, to)
    BY <1>3 DEF EndProcess
  <2>2. UNCHANGED <<mine, serving, pidFile>> /\ up' \subseteq up /\ serving = 0
    BY <1>3, <1>t DEF EndProcess, Recorded, RestartStep
  <2> QED
    BY <1>t, <2>1, <2>2 DEF Typed, Moves, Recorded
<1>4. CASE Unrecord(t)
  <2>0. thread[t] \in RestartStep \cup {"end", "unrecord"} /\ UNCHANGED <<serving, up>>
    BY <1>4 DEF Unrecord, RestartStep
  <2>1. serving = 0 /\ UNCHANGED <<serving, up>> /\ 0 \notin up
    BY <1>t, <1>n, <2>0 DEF Recorded, Numbered
  <2>2. PICK to : Moves(t, to) /\ to \notin {"wait", "trust", "store"}
    BY <1>4 DEF Unrecord, Afterwards
  <2>3. \A r \in Thread : thread[r] \notin {"wait", "trust", "store"}
    <3> SUFFICES ASSUME NEW r \in Thread, thread[r] \in {"wait", "trust", "store"} PROVE FALSE
      OBVIOUS
    <3>1. busy = r
      BY <1>t DEF Locked, RestartStep, StopStep
    <3>2. r # t /\ thread[t] \in StopStep \cup RestartStep
      BY <1>4 DEF Unrecord, StopStep, RestartStep
    <3>3. t = "main" /\ thread[t] \in StopStep
      BY <1>t, <3>1, <3>2 DEF Locked
    <3>4. StopsOutside
      BY <3>3 DEF StopsOutside, StopStep
    <3> QED
      BY <1>t, <3>1, <3>4, Alone DEF Recorded
  <2> QED
    BY <1>t, <2>1, <2>2, <2>3 DEF Typed, Moves, Recorded
<1> QED
  BY <1>1, <1>2, <1>3, <1>4 DEF Stops

\* A restart: the lock keeps others from the file and from the state.
LEMMA RecordedByRestarts ==
  ASSUME KeptInv, NEW t \in Thread, Restarts(t), app = "up", odd = {}, Met' = {}
  PROVE  Recorded'
<1> USE Threads, Names DEF life, state, view, servers
<1>t. Typed /\ Numbered /\ Locked /\ Recorded
  BY SameTypes DEF KeptInv, ShellInv
<1>n. last \in Nat /\ 0 <= last
  BY <1>t, ShellAssumption DEF Typed
<1>1. CASE BeginRestart(t)
  BY <1>1, <1>t DEF BeginRestart, Typed, Moves, Recorded, RestartStep
<1>2. CASE ~BeginRestart(t)
  <2>1. thread[t] \in RestartStep
    BY <1>2 DEF Restarts, ReadSettings, SpawnServer, NoEntryPoint, WritePid,
       Announced, ShowRefusal, Trust, Store, RestartStep
  <2>2. busy = t /\ t # "main" /\ serving = 0
    BY <1>t, <2>1 DEF Locked, Recorded, RestartStep, StopStep
  <2>o. ~StopsOutside /\ thread["watch"] # "drop"
    <3>1. ~StopsOutside
      BY <1>t, <2>2, Alone DEF Recorded
    <3> QED
      BY <3>1 DEF StopsOutside
  \* No other thread has a server, in a restart or in a stop.
  <2>3. \A r \in Thread \ {t} : thread[r] \notin RestartStep \cup {"end", "unrecord"}
    <3> SUFFICES ASSUME NEW r \in Thread \ {t}, thread[r] \in RestartStep \cup {"end", "unrecord"}
                 PROVE  FALSE
      OBVIOUS
    <3>1. r = "main" /\ thread[r] \in StopStep
      BY <1>t, <2>2 DEF Locked, StopStep
    <3> QED
      BY <2>o, <3>1 DEF StopsOutside, StopStep
  <2>z. 0 \notin up
    BY <1>t, <1>n DEF Numbered
  <2>4. CASE ReadSettings(t) \/ NoEntryPoint(t) \/ ShowRefusal(t)
    <3>1. PICK to : Moves(t, to) /\ to \notin {"wait", "trust", "store", "drop"}
      BY <2>4 DEF ReadSettings, NoEntryPoint, ShowRefusal, EndRestart
    <3>2. UNCHANGED <<mine, serving, up, pidFile>>
      BY <2>4 DEF ReadSettings, NoEntryPoint, ShowRefusal
    <3> QED
      BY <1>t, <2>2, <3>1, <3>2 DEF Typed, Moves, Recorded
  <2>5. CASE SpawnServer(t)
    <3>1. Moves(t, "record") /\ UNCHANGED <<serving, pidFile>> /\ up' = up \cup {last + 1}
      BY <2>5 DEF SpawnServer
    <3>2. 0 \notin up' /\ mine' = [mine EXCEPT ![t] = last + 1]
      BY <1>n, <2>5, <2>z DEF SpawnServer
    <3> QED
      BY <1>t, <2>2, <2>3, <3>1, <3>2 DEF Typed, Moves, Recorded, RestartStep
  <2>6. CASE WritePid(t)
    <3>1. Moves(t, "wait") /\ UNCHANGED <<mine, serving, up>> /\ pidFile' = mine[t]
      BY <2>6 DEF WritePid
    <3> QED
      BY <1>t, <2>2, <2>3, <2>z, <3>1 DEF Typed, Moves, Recorded, RestartStep
  <2>7. CASE Announced(t) \/ Trust(t)
    <3>1. PICK to \in {"trust", "give up", "store"} : Moves(t, to)
      BY <2>7 DEF Announced, Trust
    <3>2. UNCHANGED <<mine, serving, up, pidFile>> /\ thread[t] \in {"wait", "trust"}
      BY <2>7 DEF Announced, Trust
    <3> QED
      BY <1>t, <2>2, <3>1, <3>2 DEF Typed, Moves, Recorded
  <2>8. CASE Store(t)
    <3>1. PICK to \in {"late", "idle"} : Moves(t, to)
      BY <2>8 DEF Store, EndRestart
    <3>2. /\ serving' = mine[t] /\ mine' = [mine EXCEPT ![t] = 0]
          /\ pidFile' = pidFile /\ thread[t] = "store"
      BY <2>2, <2>8 DEF Store
    <3>3. pidFile = mine[t]
      BY <1>t, <3>2 DEF Recorded
    <3> QED
      BY <1>t, <2>3, <2>o, <3>1, <3>2, <3>3 DEF Typed, Moves, Recorded, RestartStep
  <2> QED
    BY <1>2, <2>4, <2>5, <2>6, <2>7, <2>8 DEF Restarts
<1> QED
  BY <1>1, <1>2

LEMMA RecordedByRest ==
  ASSUME KeptInv, app = "up", odd = {}, Met' = {},
         \/ LookAround \/ DropStopped \/ Untrust \/ SayStopped
         \/ DecideNavigation \/ Onboard \/ ShowOnboarding \/ Reload \/ Quit
         \/ (\E s \in up : ServerStops(s)) \/ BuildFinishes
  PROVE  Recorded'
<1> USE Threads, Names DEF life, state, view, servers, threads
<1>t. Typed /\ Numbered /\ Locked /\ Recorded
  BY SameTypes DEF KeptInv, ShellInv
<1>n. last \in Nat /\ 0 <= last
  BY <1>t, ShellAssumption DEF Typed
<1>z. 0 \notin up
  BY <1>t, <1>n DEF Numbered
<1>1. CASE LookAround
  <2>1. PICK to \in {"rebuilt", "drop"} :
          Moves("watch", to) /\ (to = "drop" => serving' = 0)
    BY <1>1 DEF LookAround
  <2>2. serving' \in {0, serving} /\ UNCHANGED <<mine, up, pidFile>>
    BY <1>1 DEF LookAround
  <2> QED
    BY <1>t, <1>z, <2>1, <2>2 DEF Typed, Moves, Recorded, RestartStep
<1>2. CASE DropStopped
  <2>1. thread["watch"] = "drop" /\ serving = 0 /\ StopsOutside
    BY <1>2, <1>t, Alone DEF DropStopped, Recorded, StopsOutside
  <2>2. busy = "nobody"
    BY <1>t, <2>1, Alone DEF Recorded
  <2>3. \A r \in Thread : thread[r] \notin {"wait", "trust", "store"}
    BY <1>t, <2>2 DEF Locked, RestartStep, StopStep
  <2>4. Moves("watch", "untrust") /\ UNCHANGED <<mine, serving, up>>
    BY <1>2, <2>1 DEF DropStopped
  <2> QED
    BY <1>t, <1>z, <2>1, <2>3, <2>4 DEF Typed, Moves, Recorded, RestartStep
<1>3. CASE Untrust \/ SayStopped \/ Onboard \/ ShowOnboarding \/ Quit
  <2>1. \E t \in Thread : \E to \in {"say", "idle", "gate"} : Moves(t, to)
    BY <1>3 DEF Untrust, SayStopped, Onboard, ShowOnboarding, Quit
  <2>2. UNCHANGED <<mine, serving, up, pidFile>>
    BY <1>3 DEF Untrust, SayStopped, Onboard, ShowOnboarding, Quit
  <2> QED
    BY <1>t, <2>1, <2>2 DEF Typed, Moves, Recorded, RestartStep
<1>4. CASE DecideNavigation \/ Reload \/ BuildFinishes \/ \E s \in up : ServerStops(s)
  <2>1. UNCHANGED <<thread, mine, serving, pidFile>> /\ up' \subseteq up
    BY <1>4 DEF DecideNavigation, Reload, BuildFinishes, ServerStops
  <2> QED
    BY <1>t, <2>1 DEF Recorded
<1> QED
  BY <1>1, <1>2, <1>3, <1>4

LEMMA KeptStep == KeptInv /\ [ShellNext]_shellVars => KeptInv'
<1> SUFFICES ASSUME KeptInv, [ShellNext]_shellVars PROVE KeptInv'
  OBVIOUS
<1>1. ShellInv'
  BY ShellStep DEF KeptInv
<1>2. CASE ShellNext
  <2>1. Locked' /\ AtRest'
    BY <1>2, LockedStep
  <2>2. ASSUME app' = "up", odd' = {} PROVE Recorded'
    <3>1. odd = {} /\ Met' = {}
      BY <1>2, <2>2, NothingMet
    <3>2. CASE app = "up"
      <4>1. ~(Launch \/ ReadPid \/ KillLeft \/ KillApp \/ Exit)
        BY <2>2, <3>2, Threads
        DEF Launch, ReadPid, KillLeft, KillApp, Exit, AppEnds, KeptInv, ShellInv, Phases
      <4> QED
        BY <1>2, <3>1, <3>2, <4>1, RecordedByStops, RecordedByRestarts, RecordedByRest
        DEF ShellNext, ShellSteps
    <3>3. CASE app # "up"
      \* The setup is over: every thread is idle and there is no server.
      <4>i. Typed /\ Numbered /\ Phases /\ AtRest
        BY SameTypes DEF KeptInv, ShellInv
      <4>1. ~Launch /\ ~KillApp /\ ~Exit
        BY <2>2 DEF Launch, KillApp, Exit, AppEnds
      <4>2. \/ \E t \in Thread : thread[t] \notin {"idle", "reap", "kill"}
            \/ ReadPid \/ KillLeft \/ UNCHANGED app
        BY <1>2, <4>1 DEF ShellNext, ShellSteps, Stops, ShutGate, TakeServer, EndProcess,
           Unrecord, Restarts, BeginRestart, ReadSettings, SpawnServer, NoEntryPoint, WritePid,
           Announced, ShowRefusal, Trust, Store, LookAround, DropStopped, Untrust, SayStopped,
           DecideNavigation, Onboard, ShowOnboarding, Reload, Quit, ServerStops,
           BuildFinishes, life
      <4>3. ReadPid \/ KillLeft
        BY <2>2, <3>3, <4>2, <4>i, Working
      <4>a. app = "launching"
        BY <3>3, <4>3, <4>i, Threads DEF ReadPid, KillLeft, Typed, Phases
      <4>b. serving' = serving /\ up' \subseteq up
        BY <4>3 DEF ReadPid, KillLeft, state
      <4>c. Moves("main", "idle")
        BY <2>2, <3>3, <4>3 DEF ReadPid, KillLeft
      <4>4. app = "launching" /\ serving' = 0 /\ up' \subseteq up /\ Moves("main", "idle")
        BY <3>3, <4>a, <4>b, <4>c, <4>i DEF AtRest
      <4>5. \A t \in Thread : thread'[t] = "idle"
        BY <4>4, <4>i DEF Phases, Typed, Moves
      <4>6. 0 \notin up'
        <5>1. last \in Nat
          BY <4>i, ShellAssumption DEF Typed
        <5> QED
          BY <4>4, <4>i, <5>1 DEF Numbered
      <4> QED
        BY <3>1, <4>4, <4>5, <4>6, Threads DEF Recorded, RestartStep
    <3> QED
      BY <3>2, <3>3
  <2> QED
    BY <1>1, <2>1, <2>2 DEF KeptInv
<1>3. CASE UNCHANGED shellVars
  BY <1>1, <1>3 DEF shellVars, life, threads, state, view, servers,
     KeptInv, Locked, AtRest, Recorded, Met, StopsOutside
<1> QED
  BY <1>2, <1>3

\* In a launch where no stop ran beside a restart and the watcher restarted with no
\* stopped server in its hand, server.pid names the server while it runs.
THEOREM RecordsAreKept == ShellSpec => []RecordKept
<1>1. KeptInv => RecordKept
  BY DEF KeptInv, Recorded, RecordKept
<1> QED
  BY <1>1, KeptStart, KeptStep, PTL DEF ShellSpec

-----------------------------------------------------------------------------
(* What the window shows. Where no stop runs beside a restart, the gate    *)
(* and the state are changed by one thread at a time, and each thread that *)
(* leaves the gate shut or the state empty asks for a page before it       *)
(* is done.                                                                *)

\* No stop runs beside a restart.
Calm == busy # "nobody" => ~StopsOutside

\* The steps at which the gate may trust a server that the state does not hold.
Parting == {"gate", "store", "rebuilt", "drop", "untrust"}

\* What each thread knows of the gate and of the state at its step.
Gated ==
  /\ Calm
  /\ \A t \in Thread :
       /\ thread[t] = "take" => trusted = 0
       /\ thread[t] \in {"end", "unrecord"} \cup (RestartStep \ {"store"}) =>
            trusted = 0 /\ serving = 0
       /\ thread[t] = "store" => trusted = mine[t] /\ serving = 0
       /\ thread[t] \in {"record", "wait", "trust", "store"} => mine[t] # 0
  /\ thread["main"] = "page" => trusted = 0 /\ serving = 0
  /\ thread["watch"] \in {"drop", "untrust", "say"} => serving = 0
  /\ thread["watch"] = "say" => trusted = 0
  /\ trusted # 0 /\ trusted # serving => serving = 0 /\ \E t \in Thread : thread[t] \in Parting
  /\ trusted = 0 /\ serving # 0 => \E t \in Thread : thread[t] = "take"

\* The page that will be shown, when every navigation asked for is decided.
Page ==
  /\ serving # 0 /\ trusted = serving =>
       window = serving \/ \E i \in 1..Len(heading) : heading[i].to = serving
  /\ serving = 0 /\ trusted = 0 /\ (\A t \in Thread : thread[t] \in {"idle", "late"}) =>
       \/ window = OwnPage
       \/ \E i \in 1..Len(heading) : heading[i].to = OwnPage /\ heading[i].good

ShowsInv ==
  /\ KeptInv
  /\ app # "up" => trusted = 0 /\ window = OwnPage
  /\ app = "up" /\ "beside" \notin odd => Gated /\ Page

\* What a step that is not the end of a launch leaves of the calm.
LEMMA NotBeside ==
  ASSUME ShellNext, app' = "up", "beside" \notin odd'
  PROVE  "beside" \notin odd /\ Calm'
BY DEF ShellNext, Met, Calm

\* While a thread restarts, no other stops, starts or says anything.
LEMMA NoOther ==
  ASSUME Locked, Calm, NEW t \in Thread, busy = t
  PROVE  /\ t # "main"
         /\ \A r \in Thread \ {t} : thread[r] \notin StopStep \cup RestartStep
         /\ thread["main"] # "page" /\ thread["watch"] \notin {"drop", "untrust", "say"}
<1>1. t # "main" /\ t # "nobody"
  BY Names DEF Locked
<1>2. ~StopsOutside
  BY <1>1 DEF Calm
<1>3. ASSUME NEW r \in Thread \ {t}, thread[r] \in StopStep \cup RestartStep PROVE FALSE
  <2>1. r = "main" /\ thread[r] \in StopStep
    BY <1>3 DEF Locked
  <2> QED
    BY <1>2, <2>1 DEF StopsOutside, StopStep
<1> QED
  BY <1>1, <1>2, <1>3 DEF StopsOutside

LEMMA GatedByStops ==
  ASSUME Typed, Locked, Gated, Calm', NEW t \in Thread, Stops(t)
  PROVE  Gated'
<1> USE Threads, Names DEF life, state, view, servers
<1>1. CASE ShutGate(t)
  <2>1. /\ thread[t] = "gate" /\ trusted' = 0 /\ UNCHANGED <<serving, mine>>
        /\ Moves(t, "take")
    BY <1>1 DEF ShutGate
  <2>2. \A r \in Thread : thread[r] # "store"
    <3> SUFFICES ASSUME NEW r \in Thread, thread[r] = "store" PROVE FALSE
      OBVIOUS
    <3>1. busy = r
      BY DEF Locked, RestartStep, StopStep
    <3>2. r # t /\ thread[t] \in StopStep
      BY <2>1 DEF StopStep
    <3> QED
      BY <3>1, <3>2, NoOther DEF Gated
  <2> QED
    BY <2>1, <2>2 DEF Typed, Moves, Gated, RestartStep
<1>2. CASE TakeServer(t)
  <2>1. /\ thread[t] = "take" /\ serving' = 0 /\ trusted' = trusted
        /\ mine' = [mine EXCEPT ![t] = serving]
    BY <1>2 DEF TakeServer
  <2>2. PICK to \in {"end", "settings", "exit", "page"} : Moves(t, to)
    BY <1>2 DEF TakeServer, Afterwards
  <2>3. trusted = 0
    BY <2>1 DEF Gated
  <2> QED
    BY <2>1, <2>2, <2>3 DEF Typed, Moves, Gated, RestartStep
<1>3. CASE EndProcess(t)
  <2>1. UNCHANGED <<serving, mine, trusted>> /\ thread[t] \in {"end", "give up"}
    BY <1>3 DEF EndProcess
  <2>2. PICK to \in {"unrecord", "forget"} : Moves(t, to)
    BY <1>3 DEF EndProcess
  <2>3. trusted = 0 /\ serving = 0
    BY <2>1 DEF Gated, RestartStep
  <2> QED
    BY <2>1, <2>2, <2>3 DEF Typed, Moves, Gated, RestartStep
<1>4. CASE Unrecord(t)
  <2>1. /\ UNCHANGED <<serving, trusted>> /\ thread[t] \in {"unrecord", "forget"}
        /\ mine' = [mine EXCEPT ![t] = 0]
    BY <1>4 DEF Unrecord
  <2>2. PICK to \in {"settings", "exit", "page", "refused"} : Moves(t, to)
    BY <1>4 DEF Unrecord, Afterwards
  <2>3. trusted = 0 /\ serving = 0
    BY <2>1 DEF Gated, RestartStep
  <2> QED
    BY <2>1, <2>2, <2>3 DEF Typed, Moves, Gated, RestartStep
<1> QED
  BY <1>1, <1>2, <1>3, <1>4 DEF Stops

LEMMA GatedByRestarts ==
  ASSUME Typed, Locked, Gated, Calm', NEW t \in Thread, Restarts(t)
  PROVE  Gated'
<1> USE Threads, Names DEF life, state, view, servers
<1>1. CASE BeginRestart(t)
  <2>1. Moves(t, "gate") /\ UNCHANGED <<serving, trusted, mine>> /\ thread[t] \in {"idle", "rebuilt"}
        /\ t # "main"
    BY <1>1 DEF BeginRestart
  <2> QED
    BY <2>1 DEF Typed, Moves, Gated, RestartStep, Parting
<1>2. CASE ~BeginRestart(t)
  <2>1. thread[t] \in RestartStep
    BY <1>2 DEF Restarts, ReadSettings, SpawnServer, NoEntryPoint, WritePid,
       Announced, ShowRefusal, Trust, Store, RestartStep
  <2>2. busy = t /\ t # "main"
    BY <2>1 DEF Locked, RestartStep, StopStep
  <2>3. /\ \A r \in Thread \ {t} : thread[r] \notin StopStep \cup RestartStep
        /\ thread["main"] # "page" /\ thread["watch"] \notin {"drop", "untrust", "say"}
    BY <2>2, NoOther DEF Gated
  <2>4. CASE ReadSettings(t) \/ NoEntryPoint(t) \/ ShowRefusal(t)
    <3>1. PICK to \in {"idle", "late", "spawn", "refused"} : Moves(t, to)
      BY <2>4 DEF ReadSettings, NoEntryPoint, ShowRefusal, EndRestart
    <3>2. UNCHANGED <<mine, serving, trusted>> /\ trusted = 0 /\ serving = 0
      BY <2>1, <2>4 DEF ReadSettings, NoEntryPoint, ShowRefusal, Gated
    <3> QED
      BY <2>3, <3>1, <3>2 DEF Typed, Moves, Gated, RestartStep, StopStep
  <2>5. CASE SpawnServer(t)
    <3>1. Moves(t, "record") /\ UNCHANGED <<serving, trusted>> /\ trusted = 0 /\ serving = 0
      BY <2>1, <2>5 DEF SpawnServer, Gated
    <3>2. mine' = [mine EXCEPT ![t] = last + 1] /\ last + 1 # 0
      BY <2>5, ShellAssumption DEF SpawnServer, Typed
    <3> QED
      BY <2>3, <3>1, <3>2 DEF Typed, Moves, Gated, RestartStep, StopStep
  <2>6. CASE WritePid(t) \/ Announced(t)
    <3>1. PICK to \in {"wait", "trust", "give up"} : Moves(t, to)
      BY <2>6 DEF WritePid, Announced
    <3>2. /\ UNCHANGED <<mine, serving, trusted>> /\ thread[t] \in {"record", "wait"}
          /\ trusted = 0 /\ serving = 0 /\ mine[t] # 0
      BY <2>1, <2>6 DEF WritePid, Announced, Gated
    <3> QED
      BY <2>3, <3>1, <3>2 DEF Typed, Moves, Gated, RestartStep, StopStep
  <2>7. CASE Trust(t)
    <3>1. /\ Moves(t, "store") /\ UNCHANGED <<mine, serving>> /\ trusted' = mine[t]
          /\ serving = 0 /\ mine[t] # 0
      BY <2>1, <2>7 DEF Trust, Gated
    <3> QED
      BY <2>3, <3>1 DEF Typed, Moves, Gated, RestartStep, StopStep, Parting
  <2>8. CASE Store(t)
    <3>1. PICK to \in {"late", "idle"} : Moves(t, to)
      BY <2>8 DEF Store, EndRestart
    <3>2. /\ serving' = mine[t] /\ mine' = [mine EXCEPT ![t] = 0] /\ UNCHANGED trusted
          /\ trusted = mine[t] /\ mine[t] # 0
      BY <2>8 DEF Store, Gated
    <3> QED
      BY <2>3, <3>1, <3>2 DEF Typed, Moves, Gated, RestartStep, StopStep
  <2> QED
    BY <1>2, <2>4, <2>5, <2>6, <2>7, <2>8 DEF Restarts
<1> QED
  BY <1>1, <1>2

LEMMA GatedByRest ==
  ASSUME Typed, Locked, Gated, Calm',
         \/ LookAround \/ DropStopped \/ Untrust \/ SayStopped
         \/ DecideNavigation \/ Onboard \/ ShowOnboarding \/ Reload \/ Quit
         \/ (\E s \in up : ServerStops(s)) \/ BuildFinishes
  PROVE  Gated'
<1> USE Threads, Names DEF life, state, view, servers, threads
<1>1. CASE LookAround
  <2>1. PICK to \in {"rebuilt", "drop"} :
          Moves("watch", to) /\ (to = "drop" => serving' = 0)
    BY <1>1 DEF LookAround
  <2>2. serving' \in {0, serving} /\ UNCHANGED <<mine, trusted>> /\ thread["watch"] = "idle"
    BY <1>1 DEF LookAround
  <2>3. CASE serving' = 0
    BY <2>1, <2>2, <2>3 DEF Typed, Moves, Gated, RestartStep, Parting
  <2>4. CASE serving' = serving
    BY <2>1, <2>2, <2>4 DEF Typed, Moves, Gated, RestartStep, Parting
  <2> QED
    BY <2>2, <2>3, <2>4
<1>2. CASE DropStopped
  <2>1. PICK to \in {"untrust", "idle"} :
          /\ Moves("watch", to)
          /\ IF to = "untrust" THEN thread["watch"] = "drop" ELSE thread["watch"] = "late"
    BY <1>2 DEF DropStopped
  <2>2. UNCHANGED <<mine, serving, trusted>>
    BY <1>2 DEF DropStopped
  <2> QED
    BY <2>1, <2>2 DEF Typed, Moves, Gated, RestartStep, Parting
<1>3. CASE Untrust
  <2>1. /\ thread["watch"] = "untrust" /\ Moves("watch", "say") /\ trusted' = 0
        /\ UNCHANGED <<mine, serving>>
    BY <1>3 DEF Untrust
  <2>2. \A r \in Thread : thread[r] # "store"
    <3> SUFFICES ASSUME NEW r \in Thread, thread[r] = "store" PROVE FALSE
      OBVIOUS
    <3>1. busy = r
      BY DEF Locked, RestartStep, StopStep
    <3> QED
      BY <2>1, <3>1, NoOther DEF Gated
  <2> QED
    BY <2>1, <2>2 DEF Typed, Moves, Gated, RestartStep
<1>4. CASE SayStopped \/ Onboard \/ ShowOnboarding \/ Quit
  <2>1. PICK t \in {"main", "watch"}, to \in {"idle", "gate"} :
          Moves(t, to) /\ thread[t] \in {"idle", "page", "say"}
    BY <1>4 DEF SayStopped, Onboard, ShowOnboarding, Quit, MainFree
  <2>2. UNCHANGED <<mine, serving, trusted>>
    BY <1>4 DEF SayStopped, Onboard, ShowOnboarding, Quit
  <2> QED
    BY <2>1, <2>2 DEF Typed, Moves, Gated, RestartStep, Parting
<1>5. CASE DecideNavigation \/ Reload \/ BuildFinishes \/ \E s \in up : ServerStops(s)
  <2>1. UNCHANGED <<thread, mine, serving, trusted>>
    BY <1>5 DEF DecideNavigation, Reload, BuildFinishes, ServerStops
  <2> QED
    BY <2>1 DEF Gated
<1> QED
  BY <1>1, <1>2, <1>3, <1>4, <1>5

\* A navigation that is asked for comes after those that wait.
LEMMA AskedAfter ==
  ASSUME Typed, NEW nav \in Navigation, Asked(nav)
  PROVE  /\ \A i \in 1..Len(heading) : i \in 1..Len(heading') /\ heading'[i] = heading[i]
         /\ Len(heading) + 1 \in 1..Len(heading') /\ heading'[Len(heading) + 1] = nav
<1>1. heading \in Seq(Navigation) /\ heading' = Append(heading, nav)
  BY DEF Typed, Asked
<1> QED
  BY <1>1

\* A step that asks for nothing, and leaves a thread at work or nothing changed.
LEMMA PageKept ==
  ASSUME Page, UNCHANGED <<heading, window>>,
         serving' = 0 \/ trusted' = 0 \/ UNCHANGED <<serving, trusted>>,
         \/ \E t \in Thread : thread'[t] \notin {"idle", "late"}
         \/ /\ UNCHANGED <<serving, trusted>>
            /\ \A t \in Thread : thread'[t] \in {"idle", "late"} => thread[t] \in {"idle", "late"}
  PROVE  Page'
BY DEF Page

LEMMA PageGo == ASSUME Typed, Page, Go, UNCHANGED <<serving, trusted>> PROVE Page'
<1> DEFINE nav == [to |-> OwnPage, good |-> TRUE]
<1>1. nav \in Navigation /\ nav.to = OwnPage /\ nav.good
  BY Bounds DEF Navigation, OwnPage
<1>2. Asked(nav) /\ window' = window
  BY DEF Go
<1> HIDE DEF nav
<1>3. /\ \A i \in 1..Len(heading) : i \in 1..Len(heading') /\ heading'[i] = heading[i]
      /\ Len(heading) + 1 \in 1..Len(heading') /\ heading'[Len(heading) + 1] = nav
  BY <1>1, <1>2, AskedAfter
<1>4. serving # 0 /\ trusted = serving =>
        window' = serving \/ \E i \in 1..Len(heading') : heading'[i].to = serving
  BY <1>2, <1>3 DEF Page
<1>5. \E i \in 1..Len(heading') : heading'[i].to = OwnPage /\ heading'[i].good
  BY <1>1, <1>3
<1> QED
  BY <1>4, <1>5 DEF Page

LEMMA PageStored ==
  ASSUME Typed, Gated, NEW t \in Thread, Store(t) PROVE Page'
<1> DEFINE nav == [to |-> mine[t], good |-> FALSE]
<1>1. /\ serving' = mine[t] /\ trusted' = trusted /\ trusted = mine[t] /\ mine[t] # 0
      /\ Asked(nav)
  BY DEF Store, Gated
<1>2. nav \in Navigation /\ nav.to = mine[t]
  BY DEF Typed, Navigation
<1> HIDE DEF nav
<1>3. Len(heading) + 1 \in 1..Len(heading') /\ heading'[Len(heading) + 1] = nav
  BY <1>1, <1>2, AskedAfter
<1> QED
  BY <1>1, <1>2, <1>3 DEF Page

\* The navigation decided is the oldest that waits; only one to a page that is meant to
\* be shown is let through.
LEMMA PageDecided ==
  ASSUME Typed, Page, DecideNavigation PROVE Page'
<1> USE DEF life, threads, state, servers
<1>1. /\ UNCHANGED <<thread, serving, trusted>> /\ heading # <<>> /\ heading \in Seq(Navigation)
      /\ window' = IF Allowed(Head(heading)) THEN Head(heading).to ELSE window
      /\ heading' = Tail(heading)
  BY DEF DecideNavigation, Typed
<1>2. /\ Len(heading) # 0 /\ Head(heading) = heading[1]
      /\ \A i \in 2..Len(heading) : i - 1 \in 1..Len(heading') /\ heading'[i - 1] = heading[i]
  BY <1>1
<1> DEFINE nav == heading[1]
<1>3. window' = IF Allowed(nav) THEN nav.to ELSE window
  BY <1>1, <1>2
<1> HIDE DEF nav
<1>4. ASSUME serving # 0, trusted = serving
      PROVE  window' = serving \/ \E i \in 1..Len(heading') : heading'[i].to = serving
  <2>1. window' \in {window, serving} /\ (nav.to = serving => window' = serving)
    BY <1>3, <1>4 DEF Allowed, OwnPage
  <2>2. CASE window = serving
    BY <2>1, <2>2
  <2>3. ASSUME NEW i \in 1..Len(heading), heading[i].to = serving
        PROVE  window' = serving \/ \E j \in 1..Len(heading') : heading'[j].to = serving
    <3>1. CASE i = 1
      BY <2>1, <2>3, <3>1 DEF nav
    <3>2. CASE i # 1
      <4>1. i \in 2..Len(heading)
        BY <3>2
      <4> QED
        BY <1>2, <2>3, <4>1
    <3> QED
      BY <3>1, <3>2
  <2> QED
    BY <1>4, <2>2, <2>3 DEF Page
<1>5. ASSUME serving = 0, trusted = 0, \A t \in Thread : thread[t] \in {"idle", "late"}
      PROVE  \/ window' = OwnPage
             \/ \E i \in 1..Len(heading') : heading'[i].to = OwnPage /\ heading'[i].good
  <2>1. window' \in {window, OwnPage} /\ (nav.to = OwnPage /\ nav.good => window' = OwnPage)
    BY <1>3, <1>5 DEF Allowed, OwnPage
  <2>2. CASE window = OwnPage
    BY <2>1, <2>2
  <2>3. ASSUME NEW i \in 1..Len(heading), heading[i].to = OwnPage, heading[i].good
        PROVE  \/ window' = OwnPage
               \/ \E j \in 1..Len(heading') : heading'[j].to = OwnPage /\ heading'[j].good
    <3>1. CASE i = 1
      BY <2>1, <2>3, <3>1 DEF nav
    <3>2. CASE i # 1
      <4>1. i \in 2..Len(heading)
        BY <3>2
      <4> QED
        BY <1>2, <2>3, <4>1
    <3> QED
      BY <3>1, <3>2
  <2> QED
    BY <1>5, <2>2, <2>3 DEF Page
<1> QED
  BY <1>1, <1>4, <1>5 DEF Page

LEMMA PageStep ==
  ASSUME Typed, Gated, Page, ShellSteps,
         ~(Launch \/ ReadPid \/ KillLeft \/ KillApp \/ Exit)
  PROVE  Page'
<1> USE Threads DEF life, threads, state, view, servers
<1>1. ASSUME NEW t \in Thread, Stops(t) PROVE Page'
  <2>0. Afterwards(t) \notin {"idle", "late"}
    BY DEF Afterwards
  <2>1. PICK to : Moves(t, to) /\ to \notin {"idle", "late"}
    <3>1. CASE ShutGate(t)
      BY <3>1 DEF ShutGate
    <3>4. ASSUME EndProcess(t) PROVE Moves(t, IF thread[t] = "end" THEN "unrecord" ELSE "forget")
      BY <3>4 DEF EndProcess
    <3>2. CASE TakeServer(t)
      BY <2>0, <3>2 DEF TakeServer
    <3>3. CASE Unrecord(t)
      BY <2>0, <3>3 DEF Unrecord
    <3> QED
      BY <1>1, <3>1, <3>2, <3>3, <3>4 DEF Stops
  <2>2. thread'[t] = to
    BY <2>1 DEF Typed, Moves
  <2>3. /\ UNCHANGED <<heading, window>>
        /\ serving' = 0 \/ trusted' = 0 \/ UNCHANGED <<serving, trusted>>
    BY <1>1 DEF Stops, ShutGate, TakeServer, EndProcess, Unrecord
  <2> QED
    BY <2>1, <2>2, <2>3, PageKept
<1>2. ASSUME NEW t \in Thread, Restarts(t) PROVE Page'
  <2>1. CASE BeginRestart(t) \/ SpawnServer(t) \/ NoEntryPoint(t) \/ WritePid(t) \/ Announced(t)
    <3>1. PICK to \in {"gate", "record", "refused", "wait", "trust", "give up"} : Moves(t, to)
      BY <2>1 DEF BeginRestart, SpawnServer, NoEntryPoint, WritePid, Announced
    <3>2. thread'[t] = to
      BY <3>1 DEF Typed, Moves
    <3>3. UNCHANGED <<heading, window, serving, trusted>>
      BY <2>1 DEF BeginRestart, SpawnServer, NoEntryPoint, WritePid, Announced
    <3> QED
      BY <3>2, <3>3, PageKept
  <2>2. CASE ReadSettings(t) \/ ShowRefusal(t)
    <3>1. Go /\ UNCHANGED <<serving, trusted>>
      BY <2>2 DEF ReadSettings, ShowRefusal
    <3> QED
      BY <3>1, PageGo
  <2>3. CASE Trust(t)
    <3>1. thread'[t] = "store" /\ serving' = 0
      BY <2>3 DEF Trust, Typed, Moves, Gated, RestartStep
    <3> QED
      BY <3>1 DEF Page
  <2> QED
    BY <1>2, <2>1, <2>2, <2>3, PageStored DEF Restarts
<1>3. CASE LookAround \/ Untrust \/ Onboard \/ Quit
  <2>1. PICK t \in {"watch", "main"}, to \in {"rebuilt", "drop", "say", "gate"} : Moves(t, to)
    BY <1>3 DEF LookAround, Untrust, Onboard, Quit
  <2>2. thread'[t] = to
    BY <2>1 DEF Typed, Moves
  <2>3. /\ UNCHANGED <<heading, window>>
        /\ serving' = 0 \/ trusted' = 0 \/ UNCHANGED <<serving, trusted>>
    BY <1>3 DEF LookAround, Untrust, Onboard, Quit
  <2> QED
    BY <2>1, <2>2, <2>3, PageKept
<1>4. CASE DropStopped
  <2>1. UNCHANGED <<heading, window, serving, trusted>>
    BY <1>4 DEF DropStopped
  <2>2. thread'["watch"] = "untrust"
        \/ \A t \in Thread : thread'[t] \in {"idle", "late"} => thread[t] \in {"idle", "late"}
    BY <1>4 DEF DropStopped, Typed, Moves
  <2> QED
    BY <2>1, <2>2, PageKept
<1>5. CASE SayStopped \/ ShowOnboarding \/ Reload
  <2>1. Go /\ UNCHANGED <<serving, trusted>>
    BY <1>5 DEF SayStopped, ShowOnboarding, Reload
  <2> QED
    BY <2>1, PageGo
<1>6. CASE BuildFinishes \/ \E s \in up : ServerStops(s)
  <2>1. UNCHANGED <<thread, heading, window, serving, trusted>>
    BY <1>6 DEF BuildFinishes, ServerStops
  <2> QED
    BY <2>1, PageKept
<1> QED
  BY <1>1, <1>2, <1>3, <1>4, <1>5, <1>6, PageDecided DEF ShellSteps

LEMMA ShowsStart == ShellInit => ShowsInv
<1> SUFFICES ASSUME ShellInit PROVE ShowsInv
  OBVIOUS
<1> QED
  BY KeptStart DEF ShellInit, ShowsInv

\* At the end of the setup nothing is under way, and the window is at the app's page.
LEMMA ShowsLaunch ==
  ASSUME ShowsInv, ShellNext, app # "up", app' = "up", Calm' PROVE Gated' /\ Page'
<1> USE Threads DEF life, state, view, servers
<1>t. Typed /\ Phases /\ AtRest /\ trusted = 0 /\ window = OwnPage
  BY SameTypes DEF ShowsInv, KeptInv, ShellInv
<1>1. ~Launch /\ ~KillApp /\ ~Exit
  BY DEF Launch, KillApp, Exit, AppEnds
<1>2. \/ \E t \in Thread : thread[t] \notin {"idle", "reap", "kill"}
      \/ ReadPid \/ KillLeft \/ UNCHANGED app
  BY <1>1 DEF ShellNext, ShellSteps, Stops, ShutGate, TakeServer, EndProcess,
     Unrecord, Restarts, BeginRestart, ReadSettings, SpawnServer, NoEntryPoint, WritePid,
     Announced, ShowRefusal, Trust, Store, LookAround, DropStopped, Untrust, SayStopped,
     DecideNavigation, Onboard, ShowOnboarding, Reload, Quit, ServerStops, BuildFinishes
<1>3. ReadPid \/ KillLeft
  BY <1>2, <1>t, Working
<1>4. app = "launching"
  BY <1>3, <1>t DEF ReadPid, KillLeft, Typed, Phases
<1>5. UNCHANGED <<serving, trusted, window>> /\ Moves("main", "idle")
  BY <1>3 DEF ReadPid, KillLeft
<1>6. serving' = 0 /\ trusted' = 0 /\ window' = OwnPage
  BY <1>5, <1>t DEF AtRest
<1>7. \A t \in Thread : thread'[t] = "idle"
  BY <1>4, <1>5, <1>t DEF Phases, Typed, Moves
<1> QED
  BY <1>6, <1>7 DEF Gated, Page, RestartStep

LEMMA ShowsStep == ShowsInv /\ [ShellNext]_shellVars => ShowsInv'
<1> SUFFICES ASSUME ShowsInv, [ShellNext]_shellVars PROVE ShowsInv'
  OBVIOUS
<1>1. KeptInv'
  BY KeptStep DEF ShowsInv
<1>t. Typed /\ Phases /\ Locked
  BY SameTypes DEF ShowsInv, KeptInv, ShellInv
<1>2. CASE ShellNext
  <2>1. ASSUME app' # "up" PROVE trusted' = 0 /\ window' = OwnPage
    <3>1. CASE KillApp \/ Exit
      BY <3>1 DEF KillApp, Exit, AppEnds
    <3>2. CASE Launch \/ ReadPid \/ KillLeft
      BY <1>t, <3>2, Threads DEF Launch, ReadPid, KillLeft, Typed, Phases, ShowsInv, state, view
    <3>3. CASE ~(Launch \/ ReadPid \/ KillLeft \/ KillApp \/ Exit)
      <4>1. UNCHANGED app
        BY <1>2, <3>3 DEF ShellNext, ShellSteps, Stops, ShutGate, TakeServer, EndProcess,
           Unrecord, Restarts, BeginRestart, ReadSettings, SpawnServer, NoEntryPoint, WritePid,
           Announced, ShowRefusal, Trust, Store, LookAround, DropStopped, Untrust, SayStopped,
           DecideNavigation, Onboard, ShowOnboarding, Reload, Quit, ServerStops,
           BuildFinishes, life
      <4>2. UNCHANGED <<trusted, window>> \/ \E t \in Thread : thread[t] \notin {"idle", "reap", "kill"}
        BY <1>2, <2>1, <3>3, <4>1, Threads DEF ShellNext, ShellSteps, Stops, ShutGate,
           TakeServer, EndProcess, Unrecord, Restarts, BeginRestart, ReadSettings, SpawnServer,
           NoEntryPoint, WritePid, Announced, ShowRefusal, Trust, Store, LookAround, DropStopped,
           Untrust, SayStopped, DecideNavigation, MainFree, Onboard, ShowOnboarding, Reload, Quit,
           ServerStops, BuildFinishes, view
      <4> QED
        BY <1>t, <2>1, <4>1, <4>2, Working DEF ShowsInv
    <3> QED
      BY <3>1, <3>2, <3>3
  <2>2. ASSUME app' = "up", "beside" \notin odd' PROVE Gated' /\ Page'
    <3>1. "beside" \notin odd /\ Calm'
      BY <1>2, <2>2, NotBeside
    <3>2. CASE app = "up"
      <4>1. ~(Launch \/ ReadPid \/ KillLeft \/ KillApp \/ Exit)
        BY <1>t, <2>2, <3>2, Threads DEF Launch, ReadPid, KillLeft, KillApp, Exit, AppEnds, Phases
      <4>2. Gated /\ Page
        BY <3>1, <3>2 DEF ShowsInv
      <4> QED
        BY <1>2, <1>t, <3>1, <4>1, <4>2, GatedByStops, GatedByRestarts, GatedByRest, PageStep
        DEF ShellNext, ShellSteps
    <3>3. CASE app # "up"
      BY <1>2, <2>2, <3>1, <3>3, ShowsLaunch
    <3> QED
      BY <3>2, <3>3
  <2> QED
    BY <1>1, <2>1, <2>2 DEF ShowsInv
<1>3. CASE UNCHANGED shellVars
  BY <1>1, <1>3 DEF shellVars, life, threads, state, view, servers,
     ShowsInv, Gated, Page, Calm, StopsOutside
<1> QED
  BY <1>2, <1>3

LEMMA ShowsWhatIsHeld == ShowsInv => ShowsWhatRuns
<1> SUFFICES ASSUME ShowsInv, Quiet, "beside" \notin odd PROVE trusted = serving /\ window = serving
  BY DEF ShowsWhatRuns
<1>1. Gated /\ Page /\ (\A t \in Thread : thread[t] = "idle") /\ heading = <<>>
  BY DEF ShowsInv, Quiet
<1>2. trusted = serving
  BY <1>1 DEF Gated, Parting
<1> QED
  BY <1>1, <1>2 DEF Page, OwnPage

\* Once no thread is at work and every navigation is decided, the gate trusts the server
\* that is held and no other, and the window shows its page, or one of the app's own
\* when none is held, in a launch where no stop ran beside a restart (Shell::serve,
\* Shell::watch, Shell::onboard, Gate::decide).
THEOREM WindowShowsWhatRuns == ShellSpec => []ShowsWhatRuns
BY ShowsStart, ShowsStep, ShowsWhatIsHeld, PTL DEF ShellSpec
=============================================================================
