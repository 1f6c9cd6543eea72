# Physgate: a specification of its runs

Physgate lets a group of AI roles work on one engineering design. An orchestrator
runs a session per subtask, judges what the session leaves behind (required
reading, changed files, a conservation gate, a reviewer), writes the accepted
design nodes into a versioned store, merges the accepted files into a run branch
and sends what it cannot accept to a person. Everything it knows of a run is in
append-only files, so that it can be killed at any moment and resumed.

The specification is about that: what the files guarantee after kills, failed
writes, other processes and late decisions, and what may still be running. Paths below are
relative to `src/src/physgate/`, and those that begin with `desktop/` or `.docs/` to
`src/`.

## The modules

| Module | Models | Reads |
| --- | --- | --- |
| `VersionedGraph` | what the store promises: one growing list of changes, each allowed to the owner of its node | `state/store.py` |
| `GraphStore` | how the store keeps it: journal, node files, handles, recovery, kills, failing writes, foreign writers | `state/store.py`, `state/divergence.py` |
| `GraphStoreProofs`, `RunLoopProofs` | proofs about `GraphStore` and `RunLoop`, for every value of their constants | |
| `MCGraphStore` | small instances of `GraphStore` for TLC | |
| `RunLoop` | one run: the event log and its replay, the loop over it, the store's journal, the run branch, the queue and its decisions | `orchestrator/loop.py`, `replay.py`, `decisions.py`, `merge.py`, `apply.py`, `queue.py`, `budget.py` |
| `Delivery` | what a run promises of its plan: subtasks in order, whole attempts, persons asked, one verdict | `orchestrator/replay.py` |
| `DeliveryProofs` | the proof that `RunLoop` implements `Delivery`, and what no later step of a run takes back | |
| `DecidedItems` | what the approval queue promises: items listed once, each decided at most once | `orchestrator/queue.py` |
| `ApprovalQueue` | how two files, a lock and deciders that die keep it | `orchestrator/queue.py`, `loop.py` |
| `Sessions` | the sessions' processes, their stop, their records on disk, and the resume that finds them | `orchestrator/dispatch.py`, `processes.py`, `credentials.py`, `reviewers/ending.py` |
| `RunRecords` | event log, task ledger and series records as sessions come and go | `orchestrator/record.py`, `replay.py`, `events.py`, `state/task_ledger.py`, `series/collect.py`, `series/writer.py` |
| `Sentinel` | the hook layer's record of protected paths, under its lock | `hooks/sentinel.py`, `snapshot.py` |
| `Reaper` | the rounds that stop what a command left running | `oslayer/reaper.py` |
| `DesktopShell` | the desktop app's server and window over launches, restarts, stops and kills | `desktop/src-tauri/src/shell.rs`, `server.rs`, `navigation.rs`, `main.rs` |
| `MCParts` | small instances of the six side by side | |
| `ApprovalQueueProofs`, `SessionsProofs`, `RunRecordsProofs`, `DesktopShellProofs` | proofs about four of the six, for every value of their constants | |
| `PartsProofs` | proofs about `Sentinel` and `Reaper`, and about the six side by side | |

`RunLoop` takes the first five of these parts for granted: a session is an outcome,
the ledger is the last line's content, an item is decided once. Their modules are
what it takes for granted, at the granularity at which a kill or another process
can get between. The desktop shell is beside a run: it keeps the operator server
alive through which a person sees the run and decides.

### GraphStore

The state on disk is `journal` (complete lines), `torn` (bytes without a
terminator after them) and `files` (one node file each). The state of a process
is `mem[h]`: the phase its handle is in, the lines its indexes were built from
(`view`), the journal size it last synced (`size`), the line it is writing
(`pend`) and what a failed flush left in its buffer (`resid`). `stored` is a
history variable: the lines whose append returned.

| Action | Code |
| --- | --- |
| `Open`, `RepairFile`, `FinishOpen` | `Store.__init__`, `recover`, the repair of node files, `_quarantine_orphan_node_files` |
| `BeginWrite`, `BeginRollback` | `write_node` and `rollback` up to the append: `_assert_current`, ownership, interface, units |
| `AppendLine`, `AppendFails` | `_append`, with the places where it can raise |
| `Materialise`, `MaterialiseFails` | `_materialise`, `write_node_file` |
| `Close`, `Crash` | `close`; the process is killed anywhere |
| `ForeignAppend`, `ForeignEdit` | something that is not the store writes `journal.jsonl` or `nodes/` |

An operation is cut where another process can act or a kill can land. A kill
inside `AppendLine` leaves the line absent, cut short or complete. Bytes are not
modelled: a line spoilt by a torn prefix is a line of operation `"junk"`, which
replay refuses like a line that does not parse. Three constants name the
assumptions a theorem may need: `Overlap` (others act while a handle is inside an
operation), `IoErrors` (what happens to a handle whose write raised) and
`ForeignLine`/`ForeignFile`.

### RunLoop

The event log is the run's memory, so the variables `sub` to `cleaned` are what
replaying it gives; they change only by a line that `RunState.record` accepts, and
a line it refuses takes the process to `pc = "raised"` (`Emit`, `Raise`).
Outside the log are the store's `journal`, the run `branch`, the queue's `items`,
the `decisions` file, and the history variable `exposed`. The process has a
program counter, the reason of a halt it is about to record, and the length of
the journal as its store handle knows it (`known`).

An effect outside the log and the line that records it are two actions, so a
`Kill` can fall between: `IntendWrite`, `StoreWrite`, `RecordWrite`; `GitMerge`,
`RecordMerge`; `List`, `RecordEscalated`; `SessionEnds`, `Halt`. A command
(`Command`) checks the journal line by line (`CheckLine`, `JournalHolds`), opens
the store (`Hold`) and, for a resume, holds the run branch to its last recorded
merge and takes over the interrupted attempt (`TakeOver`). `next_step` is the
operator `Step`; the actions guarded by `Drives` are the branches of `_drive`. A
person writes a decision at any time (`PersonDecides`); it is taken only at a
boundary (`TakeDecision`, `DecisionMismatch`). What an item shows is
`Consequence`, computed once when it is listed and again when it is decided. What a
decision does is `Effect`: what the item says, except that a fix or a retry whose order
(the note, with the findings it answers) is too long for its reviewer to read whole ends
the subtask instead (`order_too_long`). A decision carries that as `long`, settled when
it is written: the order is built from its note and from findings already recorded.

A session is one outcome (`Ends`) and whether its end shows an incident; the
change check, the gate and the review are verdicts. All are chosen freely, in a
second judgement of the same commit too, except that the gate is skipped exactly
when it is off.

Left out of `RunLoop`: decisions held for confirmation (they need a run whose OS
layer was off, which a run that acts refuses); seals and tampering; leftover
sessions; the judgement backend of an escalation, so an escalation comes from the
rules alone; the lines that change nothing later steps read, the repair of node
files among them (its reopening of the store is in `Hold`); a foreign line that
does not parse; free-text decisions; decisions of an operator after an item's
first; the approval of a blocked review that carries no note, which the queue's writer
refuses; an incident that a review session shows, which halts as one of a working
session does. The incident line and the halt that follows it are one action (`Halt`),
with a kill possible before it; worktrees are removed in one action (`Finish`);
the two infrastructure refusals of a session are one. At most one foreign line is
written in a behaviour.

`Delivery` is a run with no log, process, kill or anything half done: eight actions
on a subtask (`Begin`, `Write`, `Merge`, `Done`, `Ask`, `Answer`, `GiveUp`,
`TakeOut`), `Judge` for the whole design and `Stop` for an incident. It says what a
reader of a finished run may rely on: subtasks begun in plan order, one attempt at a
time, nodes written in order and once, files merged after all of them and once, a
subtask given up only after a person was asked, an attempt past the budget only when
a person ordered it, a verdict only when nothing is open. `RunLoop`'s mapping (`StatusBar`
to `StoppedBar`) reads it off the log: `written` is the journal up to the accounted `head`
and `merged` the run branch up to the last `recorded` merge, so an effect becomes a step
of the plan when it is recorded, be it by the process that made it or by a later one that
finds it; the journal's foreign lines, a halt for infrastructure, retries, reviews
and every restart are steps that change nothing.

### ApprovalQueue

`items` is `queue.jsonl`; `body[n]` and `tail[n]` are the complete lines of the
decisions file with inode `n` and whether a line cut short follows; `name` is the
inode that `queue_decisions.jsonl` names. `lock[n]` is a lock on a file, not on a
name. `dec[d]` is what one call of `record_decision` has done and read.

| Action | Code |
| --- | --- |
| `OpenDecisions` | `_decide` up to `_lock`: the file is opened for appending |
| `LockDecisions`, `WaitsTooLong` | `_lock`, and the items read under it |
| `ReadDecisions`, `Refuse` | the second open, the comparison of the two files, `_parse`, `records.check`, `_require_as_shown`, `_require_bindable` |
| `BeginLine`, `PartLine`, `EndLine` | `ftruncate`, `_write_all` with its partial writes, `fsync` and close |
| `AddItem`, `Reopen` | `ApprovalQueue.add`, `refresh` |
| `Spawn`, `Seal`, `SessionOver` | the lines of `Loop._session` that record where the decisions file stands |
| `WriterDies`, `DeciderDies`, `Replace` | kills; something gives the name to another file |

A file's size is `LineBytes` for each line and `TornBytes` for a torn one, because
the seals compare sizes. `AckKept` is about the file a decision was written to: a
replacement that lands between the check of the two inodes and the write leaves
the decision in a file no name reaches, and nothing can be said about the new one.

### Sessions

A session is a leader (`lead`) and processes it started (`kid`), each in its
group, outside it below a parent that runs, or away from both. On disk are
`process.json` (`rec`: absent, torn, its own, or rewritten), `ended.json`,
the credential and the stream; in the event log `SessionSpawned` and the session's
end. The orchestrator's step is `pc`.

| Action | Code |
| --- | --- |
| `Install`, `SpawnHeld`, `LogSpawned`, `WriteRecord`, `Release`, `SpawnFails` | `_install`, `spawn_held` with its hooks `_spawned` and `while_held`, `write_record` |
| `Poll`, `SessionEnds`, `StopRaises` | the loop of `await_session`, its end, `kill_own` |
| `LookAtGroup`, `StopFound` | `members` and `stop_all`, and the sweeps |
| `Confirm` | `still_running` |
| `CheckAfterStop`, `Collect`, `EndSession`, `RecordEnds` | the rest of `_run_session` in its order, then the loop's line |
| `ReadRecords` | the first loop of `stop_leftovers`: every record is read once |
| `HonourRecords` | `_honoured`: each record is the one the event log has, or nothing is stopped |
| `StopLeftover`, `SettleLeftover` | phase 1, on the record as it was read, and `_settle_at_resume` |
| `ReadLeftovers`, `EndLeftover`, `AllEnded` | phases 2 and 3, phase 4, the return |
| `Fork`, `KidMoves`, `HeldExits`, `OrphanEnds`, `Rewrite`, `Kill` | what processes, sessions and kills do meanwhile |

A resume reads all records in one step (`named`), which loses nothing: a record that is
rewritten between two reads is one that was rewritten before both or after both. What
still runs may rewrite its record at any later step, and what the stop and the sweep act
on is what was read. `bystander` is a process that no session started: a stop by a
record that names it stops it.

A review's session ends by the same `await_session`; its directory and its own
settling are not modelled. Three things that what a session leaves can do are left out.
A session overwrites its `process.json` and loses its stream (`Rewrite`), but it does not
delete `process.json` or write `ended.json`: `stop_leftovers` skips a directory without
the one or with the other (`orchestrator/dispatch.py:1526-1528`), so such a session is no
leftover, and `StillFound` and `NoneBeside`, and the theorems of them, are claims about
sessions that do neither. The event log, to which the records are held, is not rewritten;
`_settle_at_resume` says that without the OS layer a process could rewrite it. And a
leftover's pid that another process was given since is not modelled: the code compares
start times and sweeps nothing then (`orchestrator/dispatch.py:1733-1746`).

### RunRecords

`implied` is the event log seen as the ledger lines it implies, `ends` the lines
that end a session and list its records. `Open` cuts both torn tails and requires
the ledger to be a start of `implied`; `Project` appends one missing line;
`EmitLine` and `EmitEnd` append to the log. `BeginSession` and `DiscardEarlier` are
`empty_outbox`; `MakeFile` and `WriteFile` are the writer inside the session;
`TakeFile`, `RefuseFile`, `SealPart`, `SealWhole` and `Unlink` are the loop of
`collect`. `Die` ends the orchestrator anywhere and may leave the line it was
writing cut short. A session goes on writing after a kill until the resume stops
it (`Projected`), which is what `Sessions` is about.

Whether a record holds is a choice: its content, its producer's code and its
bounds in bytes are not modelled.

### Sentinel

One file stands for the revert roots and one journal for the stores. A write gives
a file a new signature, so a signature is a count. The steps of one `check` are
the values of `hook[h]`: the lock and the record (`TakeLock`), the signatures
(`LookAtFile`), the digest and the restore (`DigestFile`, `RestoreFile`), the
verification and the new signature (`VerifySig`, `VerifyBytes`, `RecordSig`), the
journal (`ReadJournal`, `RecordSize`, `RecordText`, `RestoreJournal`), and `Save`.
Any writer acts between any two of them, and `KillHook` ends the hook at any.

Left out: node files and their repair, halt and log roots, the withheld-file
tripwire, what was added beneath a root (it is quarantined), modes and links.

### Reaper

One round is `List`, then for each pid, newest first, `Look`, `Ask` (signal 0),
`LookAgain` and `Stop`; then `EmptyRound`, or `KillFound` and `NextRound`. The
command's processes fork (`CommandForks`) and end (`Ends`) between any two calls;
a process that ended but is not reaped still takes a signal. The guards before any
signal (sandbox, canary, start time) decide whether there is a reaper at all and
are not modelled.

### DesktopShell

The app has one window and at most one operator server. A thread per menu choice
and the watcher restart the server under `Shell.restarting` (`busy`); the main
thread stops it for the onboarding page and on quitting, without that lock. A
server is a number in the order of starting: `serving` is the one the state holds,
`mine[t]` the one in a thread's hands, `dead` the stopped one the watcher took, `up`
those whose processes run, `trusted` the one whose origin the gate trusts, `window`
the one whose page is shown, `pidFile` the one the file names. The pages of the app
itself are one page, 0. Asking the window to go somewhere (`heading`) and the main
thread's decision on it are two steps. `stranded` and `odd` are histories.

| Action | Code |
| --- | --- |
| `Launch`, `ReadPid`, `KillLeft` | `build_window`, the setup in `main`, `reap` |
| `ShutGate`, `TakeServer`, `EndProcess`, `Unrecord` | `Shell::stop_server`, `stop_child`, `Drop for Server` |
| `BeginRestart`, `ReadSettings` | `Shell::restart`, `opening` |
| `SpawnServer`, `NoEntryPoint`, `WritePid`, `Announced`, `ShowRefusal` | `Server::start` and its ends, in `Shell::serve` |
| `Trust`, `Store` | `Gate::serve`, the state and the navigation, in `Shell::serve` |
| `LookAround`, `DropStopped`, `Untrust`, `SayStopped` | one turn of `Shell::watch` |
| `DecideNavigation`, `Onboard`, `ShowOnboarding`, `Reload`, `Quit`, `Exit` | the main thread: `Gate::decide`, `Shell::onboard`, `reload_target`, `RunEvent::Exit` |
| `KillApp`, `ServerStops`, `BuildFinishes` | the app is killed, a server ends by itself, a UI build is finished |

A ticket belongs to the navigation it was issued for, and trusting a server spoils
those that are pending. A stop by a signal and the onboarding opened from the
read-only notice run on threads of their own and are modelled as the main
thread's: what matters is that none of them takes the restart's lock. Left out: the
one-instance socket (`instance.rs`), settings and worktrees, the engine's sign-in
(`engine.rs`), the updater.

## What the runs check

| Run | Instance | Result |
| --- | --- | --- |
| `store_faults` | 2 handles in turn, 2 nodes, 2 roles, 4 payloads, 3 lines, kills, writes that raise | `TypeOK`, `JournalCoherent`, `ReadsAreHeads`, `StoredKept`, `GuardAgreesWithDivergence`, `InterfaceOnlyRolledBack`, `GraphSpec` hold |
| `store_foreign` | the same, 2 lines, 25 foreign lines, foreign node files | `AnswersFromJournal`, `ViewsCoherent` hold |
| `store_overlap` | handles inside one another's operations | `AnswersFromJournal` violated |
| `store_retry` | a handle used again after a failed append | `JournalCoherent` violated |
| `loop_record` | 2 subtasks, decisions recorded only, 1 kill, 1 foreign line, 1 infrastructure failure | `WriteOnce`, `ForeignNeverAccounted`, `WholeDesign`, `NeverRefused`, `Settles` hold |
| `loop_act` | 1 subtask, decisions act, every outcome, 1 kill, 2 failures | `TypeOK`, `ItemsAsListed`, `OverridesReviewOnly`, `WorktreeKept` hold |
| `loop_act_two` | 2 subtasks, decisions act, no kill | `DeliverySpec`, `DecisionsTaken` hold |
| `parts` | the six parts, each a small instance (below) | 19 invariants and `DecidedSpec` hold |
| `loop_approve_killed` | `loop_act` with a kill during an approved merge | `NeverRefused` violated |
| `loop_off_closed` | gate off, decisions act, no kill | `NeverRefused` violated |
| `loop_rejudged` | 2 nodes per attempt, 1 kill | `WholeOrNotAtAll` violated |
| `loop_incident_lost` | a session whose end shows an incident, 1 kill | `ExposedNotMerged` violated |

`GraphSpec` is refinement: under the mapping that forgets revisions, versions and
operations, every behaviour of the store is one of `VersionedGraph`. A kill that
loses an unacknowledged line is a step that never happened; an append is a
`Write` by the node's owner or a `Rollback`.

`DeliverySpec` is refinement too: in `loop_act_two`, what the log accounts for is a
behaviour of `Delivery`. The reopening of a design by a decision after its skipped
integration call is the case that needs two subtasks. The theorem
`RunImplementsDelivery` is of every instance, kills and foreign lines included.

`parts` chooses one part at the start and leaves the others as they begin, so it
has the states of the six instances and not their product; no part reads or
writes what another has. What it checks:

| Part | Instance | Properties |
| --- | --- | --- |
| `ApprovalQueue` | 2 items, 2 deciders, 2 files of the name, 1 session, any kills | `DecidedOnce`, `AckKept`, `SealsStand`; `DecidedSpec` |
| `Sessions` | 2 sessions, 2 processes, 1 kill, a process table that can fail | `StillFound`, `NoneBeside`, `CommitSettled`, `StopsItsOwn`, `SecretsOff`, `EndsReported` |
| `Sentinel` | 2 hooks, 3 writes by others, 1 killed hook | `PutBack`, `AppendsKept` |
| `RunRecords` | 2 sessions, 2 record ids, 3 log lines, any kills | `LedgerFollows`, `Conserved`, `ListedSealed` |
| `Reaper` | 4 processes, 2 empty rounds, 3 rounds | `CleanUnlessHopping` |
| `DesktopShell` | 1 restarting thread besides the watcher, 2 servers, 1 build, 2 launches, 3 pending navigations, any kills and stops | `EveryServerHeld`, `ShowsWhatRuns`, `RecordKept` |

`PartsTypeOK` is the six type invariants. `DecidedSpec` is refinement: the lines
of the file that the name names now are a history of `DecidedItems`, where a
decision is one step, so a torn line, a cut, a replacement and a death are steps
that change nothing. `DecidedItems` has no lock and no file.

**Bounds.** Three lines are what a rollback to a payload that is no longer the
newest one needs (create, write, rollback), with a second node or a second handle
in between; the foreign instance has lines that repeat, skip, rewind and
re-create, for which two are enough. Two handles are every interference of one
process with another, because the state of a handle that is not acting matters
only by being behind. Two subtasks give the order between them, one finished
before a decision on the other acts. A budget of 2 has an attempt that is
repaired and one that exhausts it, and the fix a person orders lies past it. One
kill reaches every window between two steps; a second kill in the same window is
discussed below. One infrastructure failure past the schedule halts and one
inside it is retried: `MaxInfra` and `Retries` give both.

In `parts`, `Sweeps = 0` where the code has `SWEEPS = 5`: a process that outlives
every sweep needs one fork per sweep, and with two processes one of them can
outlive the single stop, which is the case that `Confirm` is for. Two sessions are
a leftover and the one after it; one kill reaches every step of the first, and what
it leaves is found by the second. `PerSession = 1` makes a record that is over the
session's bound happen. `MaxRounds = 3` lets two empty rounds follow one that was
not, and four processes are a hop in each. The approval queue and `RunRecords` have
no bound on kills; the queue's instance seals one session's start, and a second
seal is a longer prefix of the same file. In the shell, a second server is the one
that is started while the first is being stopped, a second launch is the one that
finds what a kill left, and three navigations are pending at most when the first
load, a "Starting" page and the served page are all undecided. The watcher and one
thread of a menu choice are two threads that restart; a second choice adds a third
that waits for the same lock.

`Alike` permutes items (which are also session and record names) and deciders
(which are also processes and hooks). A behaviour is of one part, and no part
compares or orders them; `DecidedSpec` is a safety property, for which symmetry is
sound.

`CHECK_DEADLOCK FALSE` in the loop's instances: a run that has ended really
stops. In `parts` a queue with nothing left to decide and a reaper that has
answered do. The store's instances are checked for deadlock.

**Fairness.** `FairSpec` is weak fairness of `Process` (whatever the process is
at, it goes on: sessions and reviews are cut off at their own time limits, gate
and git calls end) and strong fairness of `Command("resume")`: an operator keeps
resuming a run that is down. Nothing is assumed of people: a decision need never
be written, and `DecisionsTaken` is about those that are. Without the second
assumption a killed run simply stays down.

## What the violations show

1. `store_overlap`. `_assert_current` compares the journal's size, and the append
   comes later. After it, `_durable_size` is read from the file, so another
   handle's line written in between is absorbed into the size and is not in the
   indexes: the handle goes on to answer from them. `state/README.md:55-58` says
   a handle whose journal moves refuses to answer.
2. `store_retry`. A flush that raises leaves the line in the buffered writer.
   Nothing closes the handle; its next write mints the same revision, and its
   flush writes both lines.
3. `loop_approve_killed`. An approved attempt is not `interrupted()`, so no
   `Resumed` line clears its pending write or its `diff` cursor. A kill between
   `WriteIntended` and the store's write, or between `StageEntered(diff)` and
   `DiffChecked`, leaves a run whose every resume raises.
4. `loop_off_closed`. With the gate off, the integration call is recorded as
   skipped for that reason, and a later decision that makes a subtask active does
   not reopen it. The next line is refused.
5. `loop_rejudged`. A resume judges again an attempt that had begun to be
   applied. If the second judgement refuses, the attempt is rejected with a part
   of its nodes in the store.
6. `loop_incident_lost`. `SessionEnded` is written before the incidents the
   session's end shows. A kill between leaves a session that ended well, and the
   resume judges and merges its work.

What else was met, without a run of its own:

- `DiffChecked` with a divergence, then a kill before the halt: the attempt has a
  diff, so it is not interrupted, and the loop enters `diff` again, which the replay
  refuses; for this reason the instances that check `NeverRefused` have
  `Diverges = FALSE`.
- Two kills between a merge and its record: the first resume's `Resumed` sends the
  attempt back past the checks, the pending commit is no longer found, and the
  second resume halts for a run branch that moved though only the run moved it.
- `ended.json` before the event log. `_run_session` and `stop_leftovers` write
  `ended.json` and return, and only then does the loop record the end. A kill
  between loses it: no resume returns that session, so what it spent and what its
  stream showed is in no line. `Sessions` keeps these ends in `cut`, and
  `EndsReported` is about the others.
- A record cut short. A kill between the creation of `process.json` and its bytes
  leaves a file that `_honoured` refuses, at every resume, although the process was
  held and ran nothing. In the model too, every resume reads that record and goes no further.
- `kill_own` says that what left the group "waits for the resume, which refuses
  while it runs" (`orchestrator/dispatch.py:1350-1351`). A process out of the group whose
  session is gone is in no tree and no group the resume reads (`"away"`), so the
  resume does not see it; `StillFound` and `NoneBeside` are of leaders and groups.
- `_journal_state` reads the journal twice, for its size and for its digest. An
  append between the two makes the next check see a changed head and put the
  journal back to the bytes it kept. With `AppendsBeside = TRUE` the model
  shows it (`AppendsKept` is violated); the orchestrator waits while a session
  runs, so it does not append then.
- The window a decision is made in is measured by `st_size` (`Loop._decisions_bytes`),
  which counts a torn line that the next decision cuts.
- `read_queue` reads the items and then the decisions, so a reader beside a live
  run can see a decision on an item it has not read, and refuses the queue;
  `recorded_ledger` (`orchestrator/replay.py:827-829`) reads the event log and then
  the ledger, with the same shape. Both are refusals that the next read does not repeat.
- A process that ends between the reaper's signal 0 and its second reading is
  passed over without being counted as a hop (`LookAgain`), though `reap` says that
  a round in which a young process vanished does not count as empty.
  `CleanUnlessHopping` therefore needs a process to end in every one of the last
  rounds, and can ask no more.
- When one look of `Shell::watch` finds both a finished build and a stopped server,
  `restart` writes the pid of the server it starts, and the stopped `Server` is
  dropped after it, at the end of the turn; its `Drop` removes the file that names the
  new server (`desktop/src-tauri/src/shell.rs:355-360`, `server.rs:324-329`). If the app
  is then killed, the next launch finds nothing to stop, though `server.rs:235-237`
  says that a server's pid is in the file while it runs. `RecordKept` without its
  condition on `odd` shows it; the condition excludes it as `"late"`.
- `Shell::onboard` and `stop_server` do not take the lock that restarts hold.
  An onboarding page opened from the menu during a start finds no server to stop;
  the start goes on, trusts its server and sends the window to it, or the gate,
  trusting it, refuses the page. A stop that is slow removes the pid file of
  the server started meanwhile. The watcher's `gate.serve(None)` after a restart
  leaves a server that runs and is not trusted. `ShowsWhatRuns` and `RecordKept` are
  of launches in which no such stop ran beside a restart.
- A quit during a start stops no server, as the state does not hold it yet; the
  server runs until the next launch reads its pid. A kill between the spawn and the
  write of the pid leaves one that no file names, and so does a kill inside `reap`,
  which removes the file before it stops the server: `stranded` keeps them, and
  `EveryServerHeld` is about the others.

## What is proved

`GraphStoreProofs` proves, for any handles, nodes, roles, payloads, foreign lines
and bound:

- `TypeCorrect`: `Spec => []TypeOK`, of every instance. `TypeOK` is not inductive
  by itself: an append uses the line its handle holds, so `TypeInv` adds that a
  handle inside an append or a replace holds one (`Held`).
- `ViewsStayCoherent`: the view of every handle is coherent, again of every
  instance: a view is only ever what replaying a journal keeps, or one line more
  that was allowed by it.
- Where processes take turns and a handle whose write raised is only closed
  (`TakesTurns`), whatever else appends lines or changes node files between
  operations: `AnswersAreCurrent` (`AnswersFromJournal`) and `StoredStays`
  (`StoredKept`). The runs `store_overlap` and `store_retry` show that neither half
  of the condition can be dropped.
- With nothing else changing node files (`ForeignFile = {}`), foreign lines or not:
  `ReadsAreNewest` (`ReadsAreHeads`) and `GuardMatchesDivergence`
  (`GuardAgreesWithDivergence`). A file put there behind a handle's back is what
  that handle reads, and the guard with it.
- With nothing else appending lines (`ForeignLine = {}`), foreign files or not:
  `JournalStaysCoherent` (`JournalCoherent`).
- With neither (`Alone`): `InterfacesAreFixed` (`InterfaceOnlyRolledBack`), and
  `StoreImplementsGraph`, that the store implements `VersionedGraph`. A
  line appended to the journal, by the write itself or by the close that flushes
  what a failed one buffered, is one `Write` by the owner of its node or one
  `Rollback`; every other step leaves the list of changes as it is.

They follow from inductive invariants that rest on one another:

- `ViewsInv`: a view is coherent, and so is a view with the line its handle is
  writing. It needs no condition, and the next one takes from it that an
  acknowledged line is one that replay accepts.
- `TurnsInv`: at most one handle is not closed (`Turns`). One inside an operation
  knows the whole journal, which has no torn tail; an open one knows the start of the
  journal that it measured (`TurnOk`), so that the size of the file tells it whether
  the rest is nothing. What was acknowledged is at its place after lines that replay
  accepts (`KeptOk`). `JournalMoves` says that a step either adds to the journal or
  cuts it where replay stops, and `StaysPlaced` that neither moves a placed line.
- `FilesInv`: the node files are what the view calls for while a handle is open or
  appends, all but one of them while it replaces that one (`FileOk`); the line it is
  about to write is its actor's to write by the journal (`WriteOwned`: the guard reads
  files, the divergence check the journal), and stays so (`OwnersOk`).
- `GoodInv`: the journal is coherent and, if the guard read true files, rewrites no
  interface; and so it would be with what a failed flush buffered, so that closing
  keeps it. `PendingGood` gives it from the two before, `ReplaysAll` says that
  recovery of such a journal drops nothing under either policy.

`RunLoopProofs` proves of the run loop, for any subtasks, outcomes, sessions,
kills, foreign lines and modes, and with no condition: `RunTyped`
(`TypeOK`), `WritesOnce` (`WriteOnce`), `ForeignLinesMet` (`ForeignNeverAccounted`),
`OverridesOnlyReviews`
(`OverridesReviewOnly`), `WorktreesKept` (`WorktreeKept`) and `VerdictOnWholeDesign`
(`WholeDesign`). None of the six is inductive: each is about a line, an item or a
worktree that one process left and another one, started after a kill, uses. They
are consequences of one invariant, `LoopInv` (theorem `RunStandsOn`):

- `FrameType`, `RecordType`: the types, split so that a step that leaves the record
  of a run alone says so once;
- `RecordsOk`, `StagesOk`: the outcomes an attempt has recorded rest on the ones
  before them (no review without a gate, no merge without an approval), for the
  attempt in progress and for the ones that ended;
- `PlacesOk`: what the step a process is at says of the subtask it drives, as the
  record stands. This is what a kill loses and `TakeOver` finds again;
- `JournalOk`, `AppliedOk`: of the journal's lines past the accounted `head` at most
  one is the run's own, and it is the one the pending intent is about to account for.
  `WritesOnce` and `ForeignLinesMet` rest on it;
- `BranchOk`, `CleanedOk`: what is on the run branch, and which worktrees are gone,
  follows from the record but for the merge or the removal in progress;
- `ItemsOk`, `TakenOk`: an item of the round to come exists only for a subtask that
  waits for a decision, and says what the record still gives, so that what was
  listed when it was decided is what is done;
- `DesignOk`: a verdict on the whole design is over subtasks that are all done, and
  none of them is opened again.

`LinesNeverRefused` is `Accepting => (Spec => []NeverRefused)`. `Accepting` says that
nothing is killed, or else that no decision acts and no merge may be found divergent,
and that a run that acts on decisions has a gate. Each part is needed: a kill after an
approve is `loop_approve_killed`, a decision taken with the gate off is
`loop_off_closed`, and a kill between a divergent `DiffChecked` and its halt is under
"What else was met". Sessions, reviews, budgets, foreign lines and, in a run that only
records decisions, kills are otherwise free. `AcceptInv` is inductive beside `LoopInv`:

- `FatesOk`: what an attempt's outcomes entitle it to, from the ledger line its merge
  will ask for to the attempt number its subtask goes on with;
- `StandsOk`: the line the process will try next is one its attempt may have, step by
  step; `HaltedOk`, `KnownOk`: the run is not halted, its integration call not made and
  its store handle not behind the accounted head wherever a line will be tried;
- `OthersOk`, `ParkedOk`: an attempt that is not driven, and at the loop's own step the
  one that is, can be gone on with from its next step (`Parked`). Where a kill can have
  stopped the process the attempt is either that or one a resume takes over
  (`MidAttempt`), which `KilledSound` shows of whatever step it was killed at;
- `PendingOk`: an intent is pending only for the write in progress or for the attempt a
  resume will take over, or a line that is not the run's lies before it (`Spoilt`), at
  which every later process halts before it tries a line of its own.

`DeliveryProofs` proves, for any instance and with no condition:

- `RunImplementsDelivery`: `Spec => DeliverySpec`, that a run implements `Delivery`.
  A step is looked at four times, for the four things the mapping reads, and each is a
  lemma of its own: what it does to the subtasks (`PlanStep`: nothing the plan shows, or
  one of the steps that `Changes` lists, a removal or a decision), to the accounted lines and
  merges (`AccountStep`: nothing, or one more), to the halt (`HaltedStep`) and to the
  verdict (`VerdictStep`). `DeliveryStep` puts them together: no step of the loop does two of
  these but a decision, which opens its subtask and the design in one `Answer`. A kill, a
  resume and a refused line are then no step at all, in whatever state they leave the run,
  so the theorem holds also in the runs that can no longer go on (`loop_approve_killed`).
  `LoopInv` is not enough: that an attempt past the budget and the end of a
  subtask follow a person's answer (`AskedOk`), and that no subtask is begun before those
  planned before it are (`OrderOk`), are facts about earlier steps. `PlanInv`, the two
  together, is inductive beside `LoopInv`.
- `SettledStands`: `Spec => [][WhatStands]_vars`. A step never reopens a subtask that is
  done, given up or taken out, never restarts a run stopped over an incident, and never
  removes or replaces a write or a merge the log accounts for. It follows from the
  refinement: the steps of `Delivery` only add (`PlanOnlyAdds`).
- `ListedConsequencesHold`: `Spec => []ItemsAsListed`. That a waiting subtask's item says
  what the record gives (`ShownAsGiven`) follows from `LoopInv`. That the subtask then goes
  where the item said (`GivenAsShown`) does not: `GivenInv` adds that an item is listed and
  decided once and taken after both, and that what a taken decision left its subtask with
  (`Followed`) lasts through the attempts and kills that follow, until it is put to a
  person again.

`ApprovalQueueProofs`, for any items, deciders, number of files and sessions:
`ItemsDecidedOnce`, `DecisionsStay`, `SealedDecisionsStand` and
`QueueImplementsDecisions`. The inductive invariant says of a decider what its
program counter entitles it to: it holds the lock of the file it opened from
`locked` on; what it read of that file is still all of it, as no other can append
without the lock; items only grow, so what was listed when it read them is listed
now; and a file the name has not had yet is empty. For the refinement each action
is one step of `DecidedItems` or a stutter; `EndLine` is a `Decide` when the file is
still the named one, and a stutter when it was replaced.

`SessionsProofs`, for any sessions, processes, sweeps and kills: `RunningIsFound`,
`RunsAlone`, `CommitsSettled`, `ResumesStopTheirOwn`, `SecretsRemoved`,
`EndsAreReported`. None is inductive. `SessionsInv` adds which step the orchestrator
may be at with which session (`MindFits`), that a process has had a leader
(`HadLeader`), which sessions are quiet at which step (`QuietBut`: while one is being
spawned or runs, all others), that what a poll saw is gone once a stop is sure
(`SeenGone`) and where credentials may be (`Secrets`). A process of a session
only goes towards `"gone"`, except by `Fork`, which needs its session not to be
quiet (`StepWanes`, `ForkAdds`): that is the argument that a confirmed stop stays one.

`RunRecordsProofs`, for any lines, records, sessions and bounds: `LedgerFollowsLog`,
`RecordsConserved`, `ListedAreSealed`. The invariant says when a torn tail can
exist (only while the orchestrator is down), that a file in hand is in the outbox,
and that, from the emptied outbox to the collection, every file of the outbox is
the newest session's.

`PartsProofs`: of the sentinel `FilePutBack`, for any hooks, writes and kills, and
`StoreLinesKept`, which is `~AppendsBeside => (SentinelSpec => []AppendsKept)`. The
key of the first: a recorded signature is never newer than the file's, and where they
are equal the file holds what it must (a signature is taken before the bytes
it vouches for are verified).

Of the reaper `CleanIsClean`, for any number of processes and rounds: in a round
in which nothing was stopped and nothing ended, everything listed and not asked
about yet still runs, and something running is listed. Of the six parts side by side,
`PartsStandAlone`: a behaviour of the composition is one of each part's own
specification, because a step of one part leaves the others as they are; every theorem
about a part is therefore one about the composition, as `PartsTyped` (`PartsTypeOK`)
shows for the types.

`DesktopShellProofs`, for any threads, servers, builds, launches and navigations:
`ShellTypes`, `ServersAreHeld`, `RecordsAreKept` and `WindowShowsWhatRuns`. For the first invariant
(`ShellInv`) no lock is needed: a server passes from hand to hand, so it says of each
thread whether its step is one at which it has a server in hand. For the pid file
(`KeptInv`) it is: a thread inside a restart is the one that has the lock (`Locked`), an
app that is not up holds nothing (`AtRest`), and in a launch in which nothing met the
state is empty while a restart runs, the file names the server being started, and
then the one held (`Recorded`). For the window (`ShowsInv`) two more parts are
needed: what each thread, at its step, knows of the gate and of the app's state
(`Gated`), and the page that will be shown once the navigations under way are
decided (`Page`).

The assumptions on the constants are those named in the modules
(`QueueAssumption`, `SessionsAssumption`, ...): bounds are naturals and "nobody" is
nobody.

Every safety property that a passing run checks is stated by a theorem. TLC had
each inductive invariant, `PlanInv` and `WhatStands` among them, as a property of a run
before it was proved. Only model-checked is liveness (`Settles`, `DecisionsTaken`:
fairness and `ENABLED` are out of the prover's reach). What the store keeps with foreign
lines and files is proved above with the condition each property has. `NeverRefused` is
proved where `Accepting` holds, and false outside it.

## The system's parts

| Part | State it keeps | Operations | What is hard | What makes it correct |
| --- | --- | --- | --- | --- |
| State store (`state/store.py`) | journal, node files, indexes of a handle | open, write, rollback, read, diff, close | kills inside a write, failing writes, other writers | `JournalCoherent`, `StoredKept`, `ReadsAreHeads`, `AnswersFromJournal` |
| Divergence check (`state/divergence.py`) | none | compare owners over a diff | it reads the journal, the guard the files | `GuardAgreesWithDivergence` |
| Run loop (`orchestrator/loop.py`) | a program counter | run, resume, the stages of an attempt | kills between an effect and its line | `WriteOnce`, `WholeDesign`, `NeverRefused`, `Settles` |
| Replay (`orchestrator/replay.py`, `events.py`) | the event log | record a line, next step, interrupted | a line must be refused or accepted alike by the writer and every later reader | `NeverRefused` |
| Decisions (`orchestrator/decisions.py`) | none | consequence, effect | shown at one time, done at another | `ItemsAsListed`, `OverridesReviewOnly`, `DecisionsTaken` |
| Merge (`orchestrator/merge.py`, `git.py`) | run branch, worktrees | merge, look for a merge, remove a worktree | a kill after the merge | `WholeDesign`, `WorktreeKept` |
| Apply (`orchestrator/apply.py`) | the store handle | pre-check, write, diff | a stale handle, a part written | `ForeignNeverAccounted`, `WholeOrNotAtAll` |
| Approval queue (`orchestrator/queue.py`) | items file, decisions file, lock | list, decide, read | two deciders, torn lines, a file replaced | `DecidedOnce`, `AckKept`, `SealsStand`, `DecidedSpec` |
| Task ledger (`state/task_ledger.py`, `record.py`) | ledger file | append, project | behind the event log after a kill | `LedgerFollows` |
| Dispatcher (`orchestrator/dispatch.py`, `processes.py`) | session directories, processes | run a session, stop leftovers | processes that outlive their orchestrator | `StillFound`, `NoneBeside`, `CommitSettled`, `StopsItsOwn`, `SecretsOff`, `EndsReported` |
| Escalation judgement (`orchestrator/escalation.py`) | none | judge | a backend that fails or is unsure | not modelled: the rules that force an escalation are in `RunLoop` |
| Hook layer (`hooks/`) | a record of protected paths, under a lock | check at every tool call | parallel calls, an orchestrator that appends | `PutBack`, `AppendsKept` |
| OS layer (`oslayer/`) | a process tree | fence, reap | processes that fork while they are stopped | `CleanUnlessHopping` |
| Series records (`series/`) | outbox, sealed records | collect, seal | a kill between copy and removal | `Conserved`, `ListedSealed` |
| Reviewers (`reviewers/`) | packet and verdict files | review | text | not modelled: one outcome of `Review` |
| Conservation gate (`gate/`) | none | check a revision | arithmetic over reals | not modelled: one outcome of `RunGate` |
| Decomposition (`orchestrator/decompose.py`) | the plan | one model call | text | not modelled: the plan is `Subtask` |
| Desktop shell (`desktop/src-tauri/src/`) | a server's process and pid file, a gate, a window | launch, restart, watch, onboard, navigate, quit | stops that cross a restart, a server that outlives its app | `EveryServerHeld`, `ShowsWhatRuns`, `RecordKept` |
| Knowledge, roles, evaluation, operator interface, command line | files, pages | read, show, promote, measure | no concurrency of their own with a run's state | not modelled |

How they interact: the loop calls the dispatcher, gate and reviewer and waits; it
shares the store's journal with whatever a session might have written (hence
`_journal_clean`), the run branch with git, the queue with the operator interface
and the command line through the decisions file; the hook layer watches the
store's files from inside sessions.

## Not modelled

Text and arithmetic: the content of sessions, packets, verdicts, plans and records,
the conservation gate's checks over reals, the parsers of shell commands and paths.
Presentation: the operator interface and the command line read a
run's files and call `record_decision`, which is modelled. Batch computation:
evaluation, and the experiments under `experiments/`, which are scripts over recorded
data and most of the repository's lines. Knowledge and roles are files a person
changes.

Of the parts that are modelled in part, what is left out is named with each module
above and in the components of `PROJECT.json`.

## What could follow

In this order, the most important behaviour first:

1. `RunLoop` over `GraphStore` in place of its own journal, and over `Sessions` in
   place of one outcome, so that a lost end is a line the replay lacks.
2. Node files, halt and log roots in `Sentinel`; review sessions' own settling in
   `Sessions`; held decisions and their windows in `ApprovalQueue`.
3. The judgement backend of an escalation.
4. The desktop app's other processes: `instance::claim` between two launches, which
   looks for a socket and then binds it, and the engine's sign-in and its cancel.
