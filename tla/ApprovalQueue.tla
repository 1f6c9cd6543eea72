--------------------------- MODULE ApprovalQueue ---------------------------
(***************************************************************************)
(* The approval queue on disk (orchestrator/queue.py) and what the run     *)
(* loop records about it (orchestrator/loop.py). The items file has one    *)
(* writer, the orchestrator. The decisions file is appended to by whoever  *)
(* decides, under a lock on the file they opened; the name can meanwhile   *)
(* be given to another file, so a file is an inode. A decider and the      *)
(* orchestrator are split wherever another can act or a kill land.        *)
(*                                                                         *)
(* A complete line is LineBytes long and a line cut short TornBytes, which *)
(* keeps what the run loop computes with: the size of the file.            *)
(***************************************************************************)
EXTENDS Integers, Sequences

CONSTANTS
  Item, Decider,
  Nobody,       \* no decider holds the lock
  MaxInodes,    \* bound: the name is given to another file fewer times
  MaxSpawns   \* bound: sessions that are spawned

ASSUME QueueAssumption ==
  /\ MaxInodes \in Nat \ {0} /\ MaxSpawns \in Nat
  /\ Nobody \notin Decider

VARIABLES
  items,      \* queue.jsonl: the complete lines
  writer,     \* the orchestrator, which writes the items: "down" or "up"
  name,       \* the inode queue_decisions.jsonl names
  body,       \* each inode's complete lines
  tail,       \* whether a line cut short follows them
  lock,       \* who holds each inode's lock
  dec,        \* what each decider is doing
  session,    \* "none", "spawning" or "running"
  seals,      \* the event log: the decisions as each session started
  acked       \* history: the decisions whose record_decision returned

queueFiles == <<items, name, body, tail>>
deciding == <<lock, dec, acked>>
queueVars == <<queueFiles, writer, deciding, session, seals>>

Inode == 1 .. MaxInodes
LineBytes == 2
TornBytes == 1

Decision == [item : Item, by : Decider]

Idle == [pc |-> "idle"]

-----------------------------------------------------------------------------
(* What the files say.                                                     *)

Listed == {items[k] : k \in DOMAIN items}
ItemsOf(lines) == {lines[k].item : k \in DOMAIN lines}

\* Every line follows from the lines before it: a decision on an open item.
Follows(lines, known) ==
  /\ ItemsOf(lines) \subseteq known
  /\ \A j, k \in DOMAIN lines : lines[j].item = lines[k].item => j = k

\* Mutant: an item is open whether or not it is decided.
OpenIfListed(i, known, lines) == i \in known

\* An item is open: listed, and no decision on it recorded.
OpenItem(i, known, lines) == i \in known /\ i \notin ItemsOf(lines)

Size(n) == LineBytes * Len(body[n]) + IF tail[n] THEN TornBytes ELSE 0

\* Mutant: the torn tail is sealed with the lines.
WithTail(n) == [lines |-> body[n], size |-> Size(n)]

\* What a session starts beside: the whole lines.
WholeLines(n) == [lines |-> body[n], size |-> LineBytes * Len(body[n])]

\* Every prefix sealed is still the file's first bytes.
AsSealed(n) ==
  \A j \in DOMAIN seals :
    /\ seals[j].size <= Size(n)
    /\ Len(seals[j].lines) <= Len(body[n])
    /\ SubSeq(body[n], 1, Len(seals[j].lines)) = seals[j].lines

-----------------------------------------------------------------------------
QueueInit ==
  /\ items = <<>> /\ writer = "up"
  /\ name = 1 /\ body = [n \in Inode |-> <<>>] /\ tail = [n \in Inode |-> FALSE]
  /\ lock = [n \in Inode |-> Nobody] /\ dec = [d \in Decider |-> Idle]
  /\ session = "none" /\ seals = <<>>
  /\ acked = {}

-----------------------------------------------------------------------------
(* The orchestrator: the queue's writer.                                   *)

\* A line is appended that lists an item not listed before.
AddItem ==
  /\ writer = "up" /\ session = "none"
  /\ \E i \in Item \ Listed : items' = Append(items, i)
  /\ UNCHANGED <<name, body, tail, writer, deciding, session, seals>>

\* The spawn stage is recorded.
Spawn ==
  /\ writer = "up" /\ session = "none" /\ Len(seals) < MaxSpawns
  /\ session' = "spawning"
  /\ UNCHANGED <<queueFiles, writer, deciding, seals>>

\* The decisions as the session starts, and the start.
Seal ==
  /\ writer = "up" /\ session = "spawning"
  /\ seals' = Append(seals, WholeLines(name))
  /\ session' = "running"
  /\ UNCHANGED <<queueFiles, writer, deciding>>

\* The session's end is recorded.
SessionOver ==
  /\ writer = "up" /\ session = "running"
  /\ session' = "none"
  /\ UNCHANGED <<queueFiles, writer, deciding, seals>>

WriterDies ==
  /\ writer = "up"
  /\ writer' = "down"
  /\ session' = IF session = "spawning" THEN "none" ELSE session
  /\ UNCHANGED <<queueFiles, deciding, seals>>

\* A resume opens the queue, and stops and reads a session that was left running.
\* It cuts the items' torn line, which nobody reads and no variable holds; a torn
\* decision may be a write in progress, and is left alone.
Reopen ==
  /\ writer = "down"
  /\ writer' = "up"
  /\ session' = "none"
  /\ UNCHANGED <<queueFiles, deciding, seals>>

-----------------------------------------------------------------------------
(* record_decision.                                                        *)

\* The file the name names is opened for appending; only a listed item is shown.
OpenDecisions(d, i) ==
  /\ dec[d] = Idle /\ i \in Listed
  /\ dec' = [dec EXCEPT ![d] = [pc |-> "opened", item |-> i, ino |-> name]]
  /\ UNCHANGED <<queueFiles, writer, lock, acked, session, seals>>

\* Mutant: the lock is taken whoever holds it.
AnyLock(n) == TRUE

FreeLock(n) == lock[n] = Nobody

\* The lock is taken, and the items are read under it.
LockDecisions(d) ==
  /\ dec[d].pc = "opened" /\ FreeLock(dec[d].ino)
  /\ lock' = [lock EXCEPT ![dec[d].ino] = d]
  /\ dec' = [dec EXCEPT ![d] = [pc |-> "locked", item |-> dec[d].item, ino |-> dec[d].ino,
                                known |-> Listed]]
  /\ UNCHANGED <<queueFiles, writer, acked, session, seals>>

\* The descriptor is closed, which releases the lock if it was held: refused,
\* waited too long, done or killed.
Closed(d) ==
  /\ dec' = [dec EXCEPT ![d] = Idle]
  /\ lock' = [n \in Inode |-> IF lock[n] = d THEN Nobody ELSE lock[n]]

WaitsTooLong(d) ==
  /\ dec[d].pc = "opened" /\ ~FreeLock(dec[d].ino)
  /\ Closed(d)
  /\ UNCHANGED <<queueFiles, writer, acked, session, seals>>

\* Mutant: the file read is the one opened, whatever the name names now.
SameFileUnchecked(d) == TRUE

\* The decisions are read by name, and must be the file that is locked.
SameFile(d) == dec[d].ino = name

\* The item is open in what was read; the length of its good lines is kept.
ReadDecisions(d) ==
  /\ dec[d].pc = "locked" /\ SameFile(d)
  /\ Follows(body[name], dec[d].known)
  /\ OpenItem(dec[d].item, dec[d].known, body[name])
  /\ dec' = [dec EXCEPT ![d] = [pc |-> "read", item |-> dec[d].item, ino |-> dec[d].ino,
                                good |-> Len(body[name])]]
  /\ UNCHANGED <<queueFiles, writer, lock, acked, session, seals>>

\* What is read does not allow the decision, the item is no longer as it was
\* shown, or the view cannot carry an approval.
Refuse(d) ==
  /\ dec[d].pc \in {"locked", "read"}
  /\ Closed(d)
  /\ UNCHANGED <<queueFiles, writer, acked, session, seals>>

\* What follows the good lines is cut, and the line is next to be written.
BeginLine(d) ==
  /\ dec[d].pc = "read"
  /\ LET n == dec[d].ino
     IN /\ body' = [body EXCEPT ![n] = SubSeq(@, 1, dec[d].good)]
        /\ tail' = [tail EXCEPT ![n] = FALSE]
  /\ dec' = [dec EXCEPT ![d] = [pc |-> "writing", item |-> dec[d].item, ino |-> dec[d].ino]]
  /\ UNCHANGED <<items, name, writer, lock, acked, session, seals>>

\* A part of the line reaches the file.
PartLine(d) ==
  /\ dec[d].pc = "writing"
  /\ tail' = [tail EXCEPT ![dec[d].ino] = TRUE]
  /\ UNCHANGED <<items, name, body, writer, deciding, session, seals>>

\* The rest of the line is written and synced, and the decision returns.
EndLine(d) ==
  /\ dec[d].pc = "writing"
  /\ LET n == dec[d].ino
         line == [item |-> dec[d].item, by |-> d]
     IN /\ body' = [body EXCEPT ![n] = Append(@, line)]
        /\ acked' = acked \cup {[ino |-> n, at |-> Len(body[n]) + 1, line |-> line]}
        /\ tail' = [tail EXCEPT ![n] = FALSE]
  /\ Closed(d)
  /\ UNCHANGED <<items, name, writer, session, seals>>

DeciderDies(d) ==
  /\ dec[d] # Idle
  /\ Closed(d)
  /\ UNCHANGED <<queueFiles, writer, acked, session, seals>>

-----------------------------------------------------------------------------
\* Something gives the name to another file with the same bytes.
Replace ==
  /\ name < MaxInodes
  /\ name' = name + 1
  /\ body' = [body EXCEPT ![name + 1] = body[name]]
  /\ tail' = [tail EXCEPT ![name + 1] = tail[name]]
  /\ UNCHANGED <<items, writer, deciding, session, seals>>

Orchestrates == AddItem \/ Spawn \/ Seal \/ SessionOver \/ WriterDies \/ Reopen

Decides(d) ==
  \/ \E i \in Item : OpenDecisions(d, i)
  \/ LockDecisions(d) \/ WaitsTooLong(d) \/ Refuse(d)
  \/ ReadDecisions(d) \/ BeginLine(d) \/ PartLine(d) \/ EndLine(d) \/ DeciderDies(d)

QueueNext ==
  \/ Orchestrates
  \/ \E d \in Decider : Decides(d)
  \/ Replace

QueueSpec == QueueInit /\ [][QueueNext]_queueVars

-----------------------------------------------------------------------------
DecState ==
  {Idle}
  \cup [pc : {"opened"}, item : Item, ino : Inode]
  \cup [pc : {"locked"}, item : Item, ino : Inode, known : SUBSET Item]
  \cup [pc : {"read"}, item : Item, ino : Inode, good : Nat]
  \cup [pc : {"writing"}, item : Item, ino : Inode]

\* Every variable keeps its type.
QueueTypeOK ==
  /\ items \in Seq(Item)
  /\ writer \in {"down", "up"}
  /\ name \in Inode /\ body \in [Inode -> Seq(Decision)] /\ tail \in [Inode -> BOOLEAN]
  /\ lock \in [Inode -> Decider \cup {Nobody}] /\ dec \in [Decider -> DecState]
  /\ session \in {"none", "spawning", "running"}
  /\ seals \in Seq([lines : Seq(Decision), size : Nat])
  /\ acked \subseteq [ino : Inode, at : Nat, line : Decision]

\* Two people deciding at once never both find an item open: in every file the
\* name has had, a line decides a listed item that no line before it decides
\* (record_decision, under its lock).
DecidedOnce == \A n \in Inode : Follows(body[n], Listed)

\* A decision that returned stays where it was written: no later decider, and
\* no opening of the queue, cuts or moves it.
AckKept ==
  \A a \in acked : a.at \in DOMAIN body[a.ino] /\ body[a.ino][a.at] = a.line

\* The bytes a session started beside are the file's first bytes ever after,
\* so the run never halts on lines its own deciders wrote (_decisions_as_sealed).
SealsStand == AsSealed(name)

\* The queue is a list of items each decided at most once, whoever dies.
Decided == INSTANCE DecidedItems WITH
  listed <- items,
  decided <- body[name]
DecidedSpec == Decided!Spec
=============================================================================
