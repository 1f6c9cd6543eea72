------------------------------- MODULE Reaper -------------------------------
(***************************************************************************)
(* The survivor reaper (oslayer/reaper.py): what a command left running is *)
(* stopped and killed in rounds while it goes on forking. A round lists    *)
(* the pids once and then asks about each, newest first; between any two   *)
(* of its calls a process can fork or end. Processes outside the sandbox   *)
(* or older than the reaper are never its business and are left out.       *)
(***************************************************************************)
EXTENDS Integers, FiniteSets

CONSTANTS
  EmptyRounds,   \* rounds in a row that must find nothing (EMPTY_ROUNDS)
  MaxPid,        \* bound: processes the command ever starts
  MaxRounds      \* rounds at most (MAX_ROUNDS)

ASSUME ReaperAssumption == EmptyRounds \in Nat \ {0} /\ MaxPid \in Nat \ {0} /\ MaxRounds \in Nat \ {0}

VARIABLES
  running,   \* the command's processes that run
  stopped,   \* of these, the ones that are stopped
  newest,    \* the newest pid
  step,      \* "list", "look", "ask", "again", "signal" or "done"
  listing,   \* the pids of this round not asked about yet
  found,     \* the pids stopped in this round, not killed yet
  any,       \* whether this round stopped any
  churn,     \* whether one vanished under its signal in this round
  empty,     \* rounds in a row that found nothing
  rounds,
  clean,     \* the answer: whether nothing is left
  left       \* history: the empty rounds in which a process ended by itself

tree == <<running, stopped, newest>>
round == <<listing, found, any, churn, empty, rounds>>
reaperVars == <<tree, step, round, clean, left>>

Newest == CHOOSE p \in listing : \A q \in listing : q <= p

ReaperInit ==
  /\ running = {1} /\ stopped = {} /\ newest = 1
  /\ step = "list" /\ listing = {} /\ found = {} /\ any = FALSE /\ churn = FALSE
  /\ empty = 0 /\ rounds = 0 /\ clean = FALSE /\ left = {}

-----------------------------------------------------------------------------
(* The processes.                                                          *)

CommandForks ==
  /\ newest < MaxPid /\ running \ stopped # {}
  /\ newest' = newest + 1 /\ running' = running \cup {newest + 1}
  /\ UNCHANGED <<stopped, step, round, clean, left>>

Ends(p) ==
  /\ p \in running \ stopped
  /\ running' = running \ {p}
  /\ left' = IF step = "list" THEN left ELSE left \cup {empty}
  /\ UNCHANGED <<stopped, newest, step, round, clean>>

-----------------------------------------------------------------------------
(* A round.                                                                *)

List ==
  /\ step = "list"
  /\ listing' = running /\ found' = {} /\ any' = FALSE /\ churn' = FALSE
  /\ rounds' = rounds + 1 /\ step' = "look"
  /\ UNCHANGED <<tree, empty, clean, left>>

\* The newest is read: one that is gone by now is passed over.
Look ==
  /\ step = "look" /\ listing # {}
  /\ IF Newest \in running
       THEN step' = "ask" /\ UNCHANGED listing
       ELSE listing' = listing \ {Newest} /\ UNCHANGED step
  /\ UNCHANGED <<tree, found, any, churn, empty, rounds, clean, left>>

\* Signal 0: one gone between its reading and this is a hop under way. One that
\* ended and is not reaped yet takes the signal like one that runs.
Ask ==
  /\ step = "ask"
  /\ \/ step' = "again" /\ UNCHANGED <<listing, churn>>
     \/ Newest \notin running /\ step' = "look" /\ listing' = listing \ {Newest} /\ churn' = TRUE
  /\ UNCHANGED <<tree, found, any, empty, rounds, clean, left>>

\* It is read again, and passed over if it is gone: no hop is noted.
LookAgain ==
  /\ step = "again"
  /\ IF Newest \in running
       THEN step' = "signal" /\ UNCHANGED listing
       ELSE step' = "look" /\ listing' = listing \ {Newest}
  /\ UNCHANGED <<tree, found, any, churn, empty, rounds, clean, left>>

\* SIGSTOP: an unreaped one counts as stopped, and its kill passes it over.
Stop ==
  /\ step = "signal"
  /\ \/ /\ stopped' = stopped \cup ({Newest} \cap running)
        /\ found' = found \cup ({Newest} \cap running) /\ any' = TRUE
        /\ UNCHANGED churn
     \/ Newest \notin running /\ churn' = TRUE /\ UNCHANGED <<stopped, found, any>>
  /\ listing' = listing \ {Newest} /\ step' = "look"
  /\ UNCHANGED <<running, newest, empty, rounds, clean, left>>

\* Mutant: one round that finds nothing is enough.
OneIsEnough == TRUE

\* Enough rounds in a row have found nothing, this one counted.
Enough == empty + 1 = EmptyRounds

\* Mutant: one round more than may be.
PastLastRound == rounds > MaxRounds

LastRound == rounds = MaxRounds

\* A round that found none and noted no hop is an empty one.
EmptyRound ==
  /\ step = "look" /\ listing = {} /\ ~any /\ ~churn
  /\ empty' = empty + 1
  /\ IF Enough THEN step' = "done" /\ clean' = TRUE
     ELSE IF LastRound THEN step' = "done" /\ UNCHANGED clean
     ELSE step' = "list" /\ UNCHANGED clean
  /\ UNCHANGED <<tree, listing, found, any, churn, rounds, left>>

\* What was stopped is killed, one by one.
KillFound ==
  /\ step = "look" /\ listing = {}
  /\ \E p \in found : running' = running \ {p} /\ stopped' = stopped \ {p} /\ found' = found \ {p}
  /\ UNCHANGED <<newest, step, listing, any, churn, empty, rounds, clean, left>>

\* The next round, or the end of the time or of the rounds.
NextRound ==
  /\ step = "look" /\ listing = {} /\ found = {} /\ (any \/ churn)
  /\ empty' = 0 /\ left' = {}
  /\ step' \in IF LastRound THEN {"done"} ELSE {"list", "done"}
  /\ UNCHANGED <<tree, listing, found, any, churn, rounds, clean>>

Command == CommandForks \/ \E p \in running : Ends(p)
Reaps == List \/ Look \/ Ask \/ LookAgain \/ Stop \/ EmptyRound \/ KillFound \/ NextRound

ReaperNext == Command \/ Reaps

ReaperSpec == ReaperInit /\ [][ReaperNext]_reaperVars

-----------------------------------------------------------------------------
\* Every variable keeps its type.
ReaperTypeOK ==
  /\ running \subseteq 1 .. MaxPid /\ stopped \subseteq running /\ newest \in 1 .. MaxPid
  /\ step \in {"list", "look", "ask", "again", "signal", "done"}
  /\ listing \subseteq 1 .. MaxPid /\ found \subseteq stopped
  /\ any \in BOOLEAN /\ churn \in BOOLEAN /\ clean \in BOOLEAN
  /\ empty \in 0 .. EmptyRounds /\ rounds \in 0 .. MaxRounds /\ left \subseteq 0 .. EmptyRounds

\* When the reaper has said that nothing is left, something is left only if the
\* command hopped from pid to pid within every one of the last rounds, after the
\* round's listing: one that hops in one of them only is found (reap).
CleanUnlessHopping == clean /\ running # {} => 0 .. EmptyRounds - 1 \subseteq left
=============================================================================
