---------------------------- MODULE DesktopShell ----------------------------
(***************************************************************************)
(* The desktop shell (desktop/src-tauri/src: shell.rs, server.rs,          *)
(* navigation.rs, main.rs): one window over one operator server. Threads   *)
(* restart the server one at a time; a watcher looks for a finished UI     *)
(* build and for a server that stopped; the main thread decides every      *)
(* navigation and stops the server for the onboarding page and on quitting *)
(* without waiting for a restart that is under way. A file names the       *)
(* server's pid for the launch after one that was killed.                  *)
(*                                                                         *)
(* Asking the window to go somewhere and the decision on it are two steps, *)
(* and the main thread makes the second. The gate's calls are one step     *)
(* each: a decision between its two looks has the result of one before or  *)
(* after the call of the other thread.                                     *)
(***************************************************************************)
EXTENDS Naturals, Sequences

CONSTANTS
  Starter,      \* the threads a person's choices start, each to restart the server
  MaxServers,   \* bound: servers ever started
  MaxBuilds,    \* bound: UI builds finished
  MaxLaunches,  \* bound: launches of the app
  MaxHeading    \* bound: navigations asked for and not decided

ASSUME ShellAssumption ==
  /\ "main" \notin Starter /\ "watch" \notin Starter /\ "nobody" \notin Starter
  /\ MaxServers \in Nat /\ MaxBuilds \in Nat /\ MaxLaunches \in Nat /\ MaxHeading \in Nat

VARIABLES
  app,        \* "down", "launching" or "up"
  launches,
  thread,     \* each thread's next step, "idle" between two calls
  mine,       \* the server each thread has in hand, 0 when none
  dead,       \* the stopped server the watcher took
  busy,       \* the thread in a restart (Shell.restarting), "nobody" when none
  quitting,   \* whether the main thread stops the server in order to quit
  serving,    \* the server the shell's state holds, 0 when none
  stamp,      \* the build the state has seen
  built,      \* the last finished build
  trusted,    \* the server whose origin the gate trusts, 0 when none
  heading,    \* the navigations asked for, each with whether its ticket is good
  window,     \* the server whose page the window shows, 0 for one of the app's own
  shown,      \* whether the app's own page was asked for, so it can be shown again
  up,   \* the servers whose processes run
  last,       \* the last server started
  pidFile,    \* the server named in server.pid, 0 when there is no file
  stranded,   \* history: servers that outlived their launch without a record
  odd     \* history: a stop outside a restart ran beside one, in this launch

threads == <<thread, mine, dead, busy, quitting>>
state == <<serving, stamp>>
view == <<heading, window, shown>>
servers == <<up, last, pidFile>>
life == <<app, launches, stranded>>
shellVars == <<life, threads, state, built, trusted, view, servers, odd>>

Thread == Starter \cup {"watch", "main"}
OwnPage == 0

Moves(t, to) == thread' = [thread EXCEPT ![t] = to]
Asked(nav) == Len(heading) < MaxHeading /\ heading' = Append(heading, nav)

\* Shell.go: a fresh ticket, and the window asked to go to the app's own page.
Go == Asked([to |-> OwnPage, good |-> TRUE]) /\ shown' = TRUE /\ UNCHANGED window

ShellInit ==
  /\ thread = [t \in Thread |-> "idle"] /\ mine = [t \in Thread |-> 0]
  /\ dead = 0 /\ busy = "nobody" /\ quitting = FALSE
  /\ serving = 0 /\ stamp = 0 /\ trusted = 0
  /\ heading = <<>> /\ window = OwnPage /\ shown = FALSE
  /\ app = "down" /\ launches = 0 /\ built = 0
  /\ up = {} /\ last = 0 /\ pidFile = 0 /\ stranded = {} /\ odd = {}

-----------------------------------------------------------------------------
(* A launch, and the end of one.                                           *)

\* The single ticket for the window's first load; then the setup.
Launch ==
  /\ app = "down" /\ launches < MaxLaunches
  /\ app' = "launching" /\ launches' = launches + 1
  /\ heading' = <<[to |-> OwnPage, good |-> TRUE]>>
  /\ Moves("main", "reap")
  /\ UNCHANGED <<stranded, mine, dead, busy, quitting, state, built, trusted, window, shown, servers>>

\* The pid read is still that of a server: the process table says so.
LeavesAll == FALSE
StopsLeft == pidFile \in up

\* The file is removed first, whatever it names.
ReadPid ==
  /\ thread["main"] = "reap"
  /\ pidFile' = 0
  /\ IF StopsLeft
       THEN mine' = [mine EXCEPT !["main"] = pidFile] /\ Moves("main", "kill") /\ UNCHANGED app
       ELSE app' = "up" /\ Moves("main", "idle") /\ UNCHANGED mine
  /\ UNCHANGED <<launches, stranded, dead, busy, quitting, state, built, trusted, view, up, last>>

KillLeft ==
  /\ thread["main"] = "kill"
  /\ up' = up \ {mine["main"]}
  /\ mine' = [mine EXCEPT !["main"] = 0]
  /\ app' = "up" /\ Moves("main", "idle")
  /\ UNCHANGED <<launches, stranded, dead, busy, quitting, state, built, trusted, view, last, pidFile>>

\* Every thread ends where it is, and no server is dropped.
AppEnds ==
  /\ app' = "down"
  /\ stranded' = stranded \cup (up \ {pidFile})
  /\ thread' = [t \in Thread |-> "idle"] /\ mine' = [t \in Thread |-> 0]
  /\ dead' = 0 /\ busy' = "nobody" /\ quitting' = FALSE
  /\ serving' = 0 /\ stamp' = 0 /\ trusted' = 0
  /\ heading' = <<>> /\ window' = OwnPage /\ shown' = FALSE
  /\ UNCHANGED <<launches, built, servers>>

KillApp == app # "down" /\ AppEnds

Exit == thread["main"] = "exit" /\ AppEnds

-----------------------------------------------------------------------------
(* Stopping the server (Shell.stop_server, Drop for Server).               *)

Afterwards(t) == IF t # "main" THEN "settings" ELSE IF quitting THEN "exit" ELSE "page"

ShutGate(t) ==
  /\ thread[t] = "gate"
  /\ trusted' = 0 /\ Moves(t, "take")
  /\ UNCHANGED <<life, mine, dead, busy, quitting, state, built, view, servers>>

TakeServer(t) ==
  /\ thread[t] = "take"
  /\ mine' = [mine EXCEPT ![t] = serving] /\ serving' = 0
  /\ Moves(t, IF serving = 0 THEN Afterwards(t) ELSE "end")
  /\ UNCHANGED <<life, dead, busy, quitting, stamp, built, trusted, view, servers>>

\* An interrupt, up to three seconds, a kill.
EndProcess(t) ==
  /\ thread[t] \in {"end", "give up"}
  /\ up' = up \ {mine[t]}
  /\ Moves(t, IF thread[t] = "end" THEN "unrecord" ELSE "forget")
  /\ UNCHANGED <<life, mine, dead, busy, quitting, state, built, trusted, view, last, pidFile>>

\* The file goes, whichever server it names by now.
Unrecord(t) ==
  /\ thread[t] \in {"unrecord", "forget"}
  /\ pidFile' = 0 /\ mine' = [mine EXCEPT ![t] = 0]
  /\ Moves(t, IF thread[t] = "unrecord" THEN Afterwards(t) ELSE "refused")
  /\ UNCHANGED <<life, dead, busy, quitting, state, built, trusted, view, up, last>>

-----------------------------------------------------------------------------
(* A restart (Shell.restart, Shell.serve, Server::start).                  *)

FreeOrTaken == TRUE
Free == busy = "nobody"

BeginRestart(t) ==
  /\ app = "up" /\ Free
  /\ \/ t \in Starter /\ thread[t] = "idle"
     \/ t = "watch" /\ thread[t] = "rebuilt"
  /\ busy' = t /\ Moves(t, "gate")
  /\ UNCHANGED <<life, mine, dead, quitting, state, built, trusted, view, servers>>

\* The end of a restart. The watcher still has the stopped server it took.
EndRestart(t) ==
  /\ busy' = "nobody"
  /\ Moves(t, IF t = "watch" /\ dead # 0 THEN "late" ELSE "idle")

\* Settings that cannot be read; a page of the app (the onboarding, no checkout, a
\* run folder refused); or a start. The stamp is taken before the choice.
ReadSettings(t) ==
  /\ thread[t] = "settings"
  /\ Go
  /\ \/ UNCHANGED stamp /\ EndRestart(t)
     \/ stamp' = built /\ EndRestart(t)
     \/ stamp' = built /\ Moves(t, "spawn") /\ UNCHANGED busy
  /\ UNCHANGED <<life, mine, dead, quitting, serving, built, trusted, servers>>

SpawnServer(t) ==
  /\ thread[t] = "spawn" /\ last < MaxServers
  /\ last' = last + 1 /\ up' = up \cup {last + 1}
  /\ mine' = [mine EXCEPT ![t] = last + 1]
  /\ Moves(t, "record")
  /\ UNCHANGED <<life, dead, busy, quitting, state, built, trusted, view, pidFile>>

NoEntryPoint(t) == thread[t] = "spawn" /\ Moves(t, "refused") /\ UNCHANGED
  <<life, mine, dead, busy, quitting, state, built, trusted, view, servers>>

WritePid(t) ==
  /\ thread[t] = "record"
  /\ pidFile' = mine[t] /\ Moves(t, "wait")
  /\ UNCHANGED <<life, mine, dead, busy, quitting, state, built, trusted, view, up, last>>

\* It announces a loopback address; or it exits, says another, or takes too long.
Announced(t) ==
  /\ thread[t] = "wait"
  /\ \/ mine[t] \in up /\ Moves(t, "trust")
     \/ Moves(t, "give up")
  /\ UNCHANGED <<life, mine, dead, busy, quitting, state, built, trusted, view, servers>>

ShowRefusal(t) ==
  /\ thread[t] = "refused"
  /\ Go /\ EndRestart(t)
  /\ UNCHANGED <<life, mine, dead, quitting, state, built, trusted, servers>>

\* Trusting a server clears every pending ticket.
Trust(t) ==
  /\ thread[t] = "trust"
  /\ trusted' = mine[t]
  /\ heading' = [i \in DOMAIN heading |-> [heading[i] EXCEPT !.good = FALSE]]
  /\ Moves(t, "store")
  /\ UNCHANGED <<life, mine, dead, busy, quitting, state, built, window, shown, servers>>

\* A server the state already held would be dropped here, its file with it.
Store(t) ==
  /\ thread[t] = "store"
  /\ serving' = mine[t] /\ mine' = [mine EXCEPT ![t] = 0]
  /\ up' = up \ {serving}
  /\ pidFile' = IF serving = 0 THEN pidFile ELSE 0
  /\ Asked([to |-> mine[t], good |-> FALSE])
  /\ EndRestart(t)
  /\ UNCHANGED <<life, dead, quitting, stamp, built, trusted, window, shown, last>>

-----------------------------------------------------------------------------
(* The watcher (Shell.watch).                                              *)

\* One look under the state's lock: a finished build, a server that stopped.
LookAround ==
  /\ app = "up" /\ thread["watch"] = "idle"
  /\ LET gone == serving # 0 /\ serving \notin up
         rebuilt == built # 0 /\ built # stamp
     IN /\ gone \/ rebuilt
        /\ dead' = (IF gone THEN serving ELSE 0)
        /\ serving' = (IF gone THEN 0 ELSE serving)
        /\ Moves("watch", IF rebuilt THEN "rebuilt" ELSE "drop")
  /\ UNCHANGED <<life, mine, busy, quitting, stamp, built, trusted, view, servers>>

\* At once when nothing was rebuilt, at the end of the turn when a restart came first.
DropStopped ==
  /\ thread["watch"] \in {"drop", "late"}
  /\ pidFile' = 0 /\ dead' = 0
  /\ Moves("watch", IF thread["watch"] = "drop" THEN "untrust" ELSE "idle")
  /\ UNCHANGED <<life, mine, busy, quitting, state, built, trusted, view, up, last>>

Untrust ==
  /\ thread["watch"] = "untrust"
  /\ trusted' = 0 /\ Moves("watch", "say")
  /\ UNCHANGED <<life, mine, dead, busy, quitting, state, built, view, servers>>

SayStopped ==
  /\ thread["watch"] = "say"
  /\ Go /\ Moves("watch", "idle")
  /\ UNCHANGED <<life, mine, dead, busy, quitting, state, built, trusted, servers>>

-----------------------------------------------------------------------------
(* The main thread: navigations, the onboarding page, a reload, a quit.    *)

MainFree == app = "up" /\ thread["main"] = "idle"

AllowedByTicket(nav) == IF nav.to = OwnPage THEN nav.good ELSE trusted = nav.to
Allowed(nav) == IF nav.to = OwnPage THEN trusted = 0 /\ nav.good ELSE trusted = nav.to

\* Gate.decide: a navigation that is refused leaves the window where it is.
DecideNavigation ==
  /\ MainFree /\ heading # <<>>
  /\ window' = IF Allowed(Head(heading)) THEN Head(heading).to ELSE window
  /\ heading' = Tail(heading)
  /\ UNCHANGED <<life, threads, state, built, trusted, shown, servers>>

Onboard ==
  /\ MainFree
  /\ Moves("main", "gate")
  /\ UNCHANGED <<life, mine, dead, busy, quitting, state, built, trusted, view, servers>>

ShowOnboarding ==
  /\ thread["main"] = "page"
  /\ Go /\ Moves("main", "idle")
  /\ UNCHANGED <<life, mine, dead, busy, quitting, state, built, trusted, servers>>

\* On the app's own page; a served page reloads by itself or by a restart.
Reload ==
  /\ MainFree /\ window = OwnPage /\ shown
  /\ Go
  /\ UNCHANGED <<life, threads, state, built, trusted, servers>>

Quit ==
  /\ MainFree
  /\ quitting' = TRUE /\ Moves("main", "gate")
  /\ UNCHANGED <<life, mine, dead, busy, state, built, trusted, view, servers>>

-----------------------------------------------------------------------------
(* Around the app.                                                         *)

ServerStops(s) ==
  /\ up' = up \ {s}
  /\ UNCHANGED <<life, threads, state, built, trusted, view, last, pidFile>>

BuildFinishes ==
  /\ built < MaxBuilds /\ built' = built + 1
  /\ UNCHANGED <<life, threads, state, trusted, view, servers>>

Restarts(t) ==
  \/ BeginRestart(t) \/ ReadSettings(t) \/ SpawnServer(t) \/ NoEntryPoint(t)
  \/ WritePid(t) \/ Announced(t) \/ ShowRefusal(t) \/ Trust(t) \/ Store(t)

Stops(t) == ShutGate(t) \/ TakeServer(t) \/ EndProcess(t) \/ Unrecord(t)

ShellSteps ==
  \/ Launch \/ ReadPid \/ KillLeft \/ KillApp \/ Exit
  \/ \E t \in Thread : Stops(t) \/ Restarts(t)
  \/ LookAround \/ DropStopped \/ Untrust \/ SayStopped
  \/ DecideNavigation \/ Onboard \/ ShowOnboarding \/ Reload \/ Quit
  \/ \E s \in up : ServerStops(s)
  \/ BuildFinishes

\* The steps of a stop that no restart makes.
StopsOutside ==
  \/ thread["main"] \in {"gate", "take", "end", "unrecord", "page"}
  \/ thread["watch"] \in {"drop", "untrust", "say"}

\* "beside": such a stop ran beside a restart. "late": the watcher restarted with
\* a stopped server in its hand, which it drops when the restart is over.
Met ==
  (IF busy # "nobody" /\ StopsOutside THEN {"beside"} ELSE {})
    \cup (IF thread["watch"] = "late" THEN {"late"} ELSE {})

ShellNext ==
  /\ ShellSteps
  /\ odd' = IF app' = "down" THEN {} ELSE odd \cup Met'

ShellSpec == ShellInit /\ [][ShellNext]_shellVars

-----------------------------------------------------------------------------
Server == 1 .. MaxServers
RestartStep == {"settings", "spawn", "record", "wait", "give up", "forget",
                "refused", "trust", "store"}
StopStep == {"gate", "take", "end", "unrecord"}

\* Every variable keeps its type.
ShellTypeOK ==
  /\ app \in {"down", "launching", "up"} /\ launches \in 0 .. MaxLaunches
  /\ thread \in [Thread -> StopStep \cup RestartStep \cup
       {"idle", "reap", "kill", "exit", "page", "rebuilt", "drop", "late", "untrust", "say"}]
  /\ mine \in [Thread -> 0 .. MaxServers] /\ dead \in 0 .. MaxServers
  /\ busy \in Thread \cup {"nobody"} /\ quitting \in BOOLEAN
  /\ serving \in 0 .. MaxServers /\ stamp \in 0 .. MaxBuilds /\ built \in 0 .. MaxBuilds
  /\ trusted \in 0 .. MaxServers
  /\ heading \in Seq([to : 0 .. MaxServers, good : BOOLEAN])
  /\ window \in 0 .. MaxServers /\ shown \in BOOLEAN
  /\ up \subseteq Server /\ last \in 0 .. MaxServers /\ pidFile \in 0 .. MaxServers
  /\ stranded \subseteq Server /\ odd \subseteq {"beside", "late"}

\* Every server that runs is held by the state or by the thread that starts or
\* stops it. One of an earlier launch runs on only if no record named it when
\* that launch ended.
EveryServerHeld ==
  app = "up" =>
    up \subseteq {serving, dead} \cup {mine[t] : t \in Thread} \cup stranded

Quiet ==
  /\ app = "up" /\ busy = "nobody" /\ heading = <<>>
  /\ \A t \in Thread : thread[t] = "idle"

\* Once nothing is under way, the gate trusts the server that is held and no
\* other, and the window shows its page, or a page of the app when none is held;
\* in a launch where no stop ran beside a restart.
ShowsWhatRuns ==
  Quiet /\ "beside" \notin odd =>
    trusted = serving /\ window = serving

\* While the server runs that the state holds, server.pid names it, so the next
\* launch can stop it, in a launch where no stop met a restart: at most one
\* thread writes or removes the file, and the last of them wrote it.
RecordKept ==
  app = "up" /\ odd = {} /\ serving \in up => pidFile = serving
=============================================================================
