------------------------------ MODULE Sentinel ------------------------------
(***************************************************************************)
(* The hook layer's second layer (hooks/sentinel.py, snapshot.py): at every *)
(* hook of every tool call the protected paths are compared with the        *)
(* session's record of them, under a lock, and what moved is put back.      *)
(*                                                                         *)
(* One file of a revert root and the store's journal stand for all. Writers *)
(* act at any time, between a hook's steps too; hooks run in parallel and   *)
(* one can be killed anywhere. Every write gives a file a new signature, so *)
(* a signature is the count of writes to it.                                *)
(***************************************************************************)
EXTENDS Naturals, Sequences

CONSTANTS
  Hook,          \* hooks that can run at once
  NoHook,        \* no hook holds the lock
  AppendsBeside, \* whether the orchestrator appends while a hook is at work
  MaxWrites,     \* bound: writes to the file and the journal by others
  MaxHookKills       \* bound: hooks are killed

ASSUME SentinelAssumption ==
  /\ NoHook \notin Hook /\ AppendsBeside \in BOOLEAN
  /\ MaxWrites \in Nat /\ MaxHookKills \in Nat

VARIABLES
  file,     \* the file's content and signature
  journal,  \* the journal's lines: "own" by the store, "other" by anything else
  saved,    \* baseline.json
  holder,     \* who holds the session's lock
  hook,     \* what each hook is doing
  base,     \* the record as the hook that holds the lock has it
  after,    \* the signature it verified last
  calm,     \* history: nothing else wrote since that hook took the lock
  fair,     \* history: nothing but the store ever wrote the journal
  owned,    \* history: how many lines the store appended
  writes, hookKills

protected == <<file, journal>>
record == <<saved, base, after>>
sentinelPast == <<calm, fair, owned, writes, hookKills>>
sentinelVars == <<protected, record, holder, hook, sentinelPast>>

\* What the journal held when the session started.
First == <<"own">>

Busy == holder # NoHook
At(pc) == Busy /\ hook[holder] = pc
Goes(pc) == hook' = [hook EXCEPT ![holder] = pc]

\* The record: the file's signature when it last held what it must, the size of
\* the journal and the bytes kept of it, which its digest is of.
Baseline(sig, size, text, halted) == [sig |-> sig, size |-> size, text |-> text, halted |-> halted]

SentinelInit ==
  /\ file = [holds |-> "kept", sig |-> 0] /\ journal = First
  /\ saved = Baseline(0, 1, First, FALSE)
  /\ base = saved /\ after = 0
  /\ holder = NoHook /\ hook = [h \in Hook |-> "idle"]
  /\ calm = TRUE /\ fair = TRUE /\ owned = 1 /\ writes = 0 /\ hookKills = 0

-----------------------------------------------------------------------------
(* The writers.                                                            *)

WritesFile ==
  /\ writes < MaxWrites /\ writes' = writes + 1
  /\ \E holds \in {"kept", "changed", "gone"} :
       file' = [holds |-> holds, sig |-> file.sig + 1]
  /\ calm' = FALSE
  /\ UNCHANGED <<journal, record, holder, hook, fair, owned, hookKills>>

\* Something that is not the store appends to the journal, changes or cuts it.
WritesJournal ==
  /\ writes < MaxWrites /\ writes' = writes + 1
  /\ \/ journal' = Append(journal, "other")
     \/ journal # <<>> /\ journal' = [journal EXCEPT ![1] = "other"]
     \/ journal # <<>> /\ journal' = SubSeq(journal, 1, Len(journal) - 1)
  /\ calm' = FALSE /\ fair' = FALSE
  /\ UNCHANGED <<file, record, holder, hook, owned, hookKills>>

\* The orchestrator's store appends.
StoreAppends ==
  /\ writes < MaxWrites /\ writes' = writes + 1
  /\ ~Busy \/ AppendsBeside
  /\ journal' = Append(journal, "own") /\ owned' = owned + 1
  /\ UNCHANGED <<file, record, holder, hook, calm, fair, hookKills>>

-----------------------------------------------------------------------------
(* A hook's check.                                                         *)

\* The lock is taken and the record read; a session that is halted is refused.
TakeLock(h) ==
  /\ hook[h] = "idle" /\ holder = NoHook /\ ~saved.halted
  /\ holder' = h /\ base' = saved
  /\ hook' = [hook EXCEPT ![h] = "look"]
  /\ calm' = TRUE
  /\ UNCHANGED <<protected, saved, after, fair, owned, writes, hookKills>>

\* The file is where it was, with the signature it had: nothing to put back.
LookAtFile ==
  /\ At("look")
  /\ Goes(IF file.sig = base.sig THEN "journal" ELSE "digest")
  /\ UNCHANGED <<protected, record, holder, sentinelPast>>

\* Its signature moved. If its bytes did not, it stays.
DigestFile ==
  /\ At("digest")
  /\ Goes(IF file.holds = "kept" THEN "verify" ELSE "restore")
  /\ UNCHANGED <<protected, record, holder, sentinelPast>>

RestoreFile ==
  /\ At("restore")
  /\ file' = [holds |-> "kept", sig |-> file.sig + 1]
  /\ Goes("verify")
  /\ UNCHANGED <<journal, record, holder, sentinelPast>>

\* Mutant: the signature recorded is of the file once its bytes were verified.
SigWhenSaved == file.sig

\* The signature recorded is the one taken before the bytes were verified.
SigVerified == after

\* The signature is taken, and then the bytes verified.
VerifySig ==
  /\ At("verify")
  /\ IF file.holds = "gone"
       THEN base' = [base EXCEPT !.halted = TRUE] /\ Goes("journal") /\ UNCHANGED after
       ELSE after' = file.sig /\ Goes("bytes") /\ UNCHANGED base
  /\ UNCHANGED <<protected, saved, holder, sentinelPast>>

VerifyBytes ==
  /\ At("bytes")
  /\ base' = [base EXCEPT !.halted = file.holds # "kept"]
  /\ Goes("record")
  /\ UNCHANGED <<protected, saved, after, holder, sentinelPast>>

RecordSig ==
  /\ At("record")
  /\ base' = [base EXCEPT !.sig = SigVerified]
  /\ Goes("journal")
  /\ UNCHANGED <<protected, saved, after, holder, sentinelPast>>

\* The bytes recorded are still the journal's first.
HeadStands == Len(journal) >= base.size /\ SubSeq(journal, 1, base.size) = base.text

\* Mutant: an append is put back like any other change.
NothingAppended == Len(journal) = base.size

\* An append is left to the store's own guard.
MayAppend == TRUE

ReadJournal ==
  /\ At("journal")
  /\ Goes(IF HeadStands /\ MayAppend
            THEN IF Len(journal) > base.size THEN "size" ELSE "save"
            ELSE "rewrite")
  /\ UNCHANGED <<protected, record, holder, sentinelPast>>

\* What was appended is recorded: the size from one read, the bytes from the next.
RecordSize ==
  /\ At("size")
  /\ base' = [base EXCEPT !.size = Len(journal)]
  /\ Goes("text")
  /\ UNCHANGED <<protected, saved, after, holder, sentinelPast>>

RecordText ==
  /\ At("text")
  /\ base' = [base EXCEPT !.text = journal]
  /\ Goes("save")
  /\ UNCHANGED <<protected, saved, after, holder, sentinelPast>>

RestoreJournal ==
  /\ At("rewrite")
  /\ journal' = base.text
  /\ Goes("save")
  /\ UNCHANGED <<file, record, holder, sentinelPast>>

Save ==
  /\ At("save")
  /\ saved' = base
  /\ Goes("saved")
  /\ UNCHANGED <<protected, base, after, holder, sentinelPast>>

Unlock ==
  /\ At("saved")
  /\ holder' = NoHook /\ Goes("idle")
  /\ UNCHANGED <<protected, record, sentinelPast>>

KillHook ==
  /\ Busy /\ hookKills < MaxHookKills
  /\ hookKills' = hookKills + 1
  /\ holder' = NoHook /\ Goes("idle")
  /\ UNCHANGED <<protected, record, calm, fair, owned, writes>>

Writers == WritesFile \/ WritesJournal \/ StoreAppends

Checks ==
  \/ \E h \in Hook : TakeLock(h)
  \/ LookAtFile \/ DigestFile \/ RestoreFile \/ VerifySig \/ VerifyBytes \/ RecordSig
  \/ ReadJournal \/ RecordSize \/ RecordText \/ RestoreJournal
  \/ Save \/ Unlock \/ KillHook

SentinelNext == Writers \/ Checks

SentinelSpec == SentinelInit /\ [][SentinelNext]_sentinelVars

-----------------------------------------------------------------------------
Step == {"idle", "look", "digest", "restore", "verify", "bytes", "record", "journal",
         "size", "text", "rewrite", "save", "saved"}
RecordType == [sig : Nat, size : Nat, text : Seq({"own", "other"}), halted : BOOLEAN]

\* Every variable keeps its type, and only the lock's holder is at work.
SentinelTypeOK ==
  /\ file \in [holds : {"kept", "changed", "gone"}, sig : Nat]
  /\ journal \in Seq({"own", "other"})
  /\ saved \in RecordType /\ base \in RecordType /\ after \in Nat
  /\ holder \in Hook \cup {NoHook} /\ hook \in [Hook -> Step]
  /\ \A h \in Hook : hook[h] # "idle" <=> holder = h
  /\ calm \in BOOLEAN /\ fair \in BOOLEAN /\ owned \in Nat
  /\ writes \in 0 .. MaxWrites /\ hookKills \in 0 .. MaxHookKills

\* A check that nothing interfered with leaves the file as the session found it,
\* or the session halted: also when an earlier check was killed between putting
\* it back and recording that, or raced a writer.
PutBack == At("saved") /\ calm => file.holds = "kept" \/ saved.halted

\* While only the store writes the journal, no check takes a line it appended
\* away, whichever hooks were killed.
AppendsKept == fair => journal = [k \in 1 .. owned |-> "own"]
=============================================================================
