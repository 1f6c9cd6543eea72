----------------------------- MODULE GraphStore -----------------------------
(***************************************************************************)
(* The design-state store (state/store.py): one file per node, derived     *)
(* from an append-only journal. Handles of several processes open, read,   *)
(* write and die on one directory. An operation is split at every point    *)
(* where another process can act or a kill can land: the staleness check   *)
(* and guards, the synced append, the atomic replace of the node file.     *)
(*                                                                         *)
(* Bytes are abstracted: a complete journal line is a record, a write cut  *)
(* short is the flag torn, and the size of the journal is the number of    *)
(* complete lines with that flag.                                          *)
(***************************************************************************)
EXTENDS Integers, Sequences

CONSTANTS
  Handle,       \* store handles, each in a process of its own
  Node, Role,
  Payload,      \* node bodies
  OwnerOf,      \* the owner_role field of each payload
  Interface,    \* the payloads whose kind is "interface"
  Unitless,     \* the payloads with a quantity that has no unit
  NoFile,       \* a node file that does not exist
  Nobody,       \* the actor of a rollback, which names none
  ForeignLine,  \* the journal lines something other than the store may append
  ForeignFile,  \* what something other than the store may leave as a node file
  Overlap,      \* whether others act while a handle is inside an operation
  IoErrors,     \* "none": no write fails in a process that lives on; "stop": the
                \* handle is then only closed; "retry": it is used again
  MaxRev        \* bound: no line is written past this many

ASSUME StoreAssumption ==
  /\ OwnerOf \in [Payload -> Role]
  /\ Interface \subseteq Payload /\ Unitless \subseteq Payload
  /\ Overlap \in BOOLEAN /\ IoErrors \in {"none", "stop", "retry"}
  /\ MaxRev \in Nat /\ Nobody \notin Role

VARIABLES
  journal,  \* the complete lines of journal.jsonl
  torn,     \* whether bytes without a terminator follow them
  files,    \* nodes/<id>.json
  mem,      \* each handle's memory
  stored    \* history: every line an append returned for, with its actor

vars == <<journal, torn, files, mem, stored>>

Line == [rev : Nat, op : {"create", "write", "rollback", "junk"},
         node : Node, version : Nat, payload : Payload]
NodeFile == [rev : Nat, version : Nat, payload : Payload]

ASSUME ForeignAssumption ==
  /\ ForeignLine \subseteq Line
  /\ ForeignFile \subseteq NodeFile \cup {NoFile}
  /\ NoFile \notin NodeFile

-----------------------------------------------------------------------------
(* The rules a replayed line is held to.                                   *)

\* i is the newest line of node n among the first k lines of J.
IsLast(J, i, n, k) == /\ i \in 1..k /\ J[i].node = n
                      /\ \A j \in i + 1 .. k : J[j].node # n

Unseen(J, n, k) == \A j \in 1..k : J[j].node # n

\* Mutant: a rollback is held to the node's newest payload only.
LineOkToNewest(J, i) ==
  /\ J[i].rev = i
  /\ IF Unseen(J, J[i].node, i - 1)
     THEN J[i].op = "create" /\ J[i].version = 1
     ELSE /\ J[i].op \in {"write", "rollback"}
          /\ \E j \in 1 .. i - 1 : /\ IsLast(J, j, J[i].node, i - 1)
                                   /\ J[i].version = J[j].version + 1
                                   /\ J[i].op = "rollback" => J[j].payload = J[i].payload

\* Line i of J is one the store could have written after the lines before it.
LineOk(J, i) ==
  /\ J[i].rev = i
  /\ IF Unseen(J, J[i].node, i - 1)
     THEN J[i].op = "create" /\ J[i].version = 1
     ELSE /\ J[i].op \in {"write", "rollback"}
          /\ \E j \in 1 .. i - 1 : /\ IsLast(J, j, J[i].node, i - 1)
                                   /\ J[i].version = J[j].version + 1
          /\ J[i].op = "rollback" =>
               \E j \in 1 .. i - 1 : /\ J[j].node = J[i].node
                                     /\ J[j].payload = J[i].payload

Coherent(J) == \A i \in 1..Len(J) : LineOk(J, i)

\* Mutant: replay reads every line.
ReplayTakesAll(J, k) == k = Len(J)

\* k is where replay stops: at the end, or before the first line it refuses.
ReplayStops(J, k) == /\ k \in 0..Len(J)
                     /\ \A i \in 1..k : LineOk(J, i)
                     /\ k < Len(J) => ~LineOk(J, k + 1)

\* Mutant: a node file without its revision.
FileUnrevised(line) == [version |-> line.version, payload |-> line.payload]

FileOf(line) == [rev |-> line.rev, version |-> line.version,
                 payload |-> line.payload]

\* Every node of J has the file its newest line calls for.
FilesMatch(J, F) ==
  \A n \in Node, i \in 1..Len(J) : IsLast(J, i, n, Len(J)) => F[n] = FileOf(J[i])

-----------------------------------------------------------------------------
(* Handles.                                                                *)

NoWrite == [op |-> "none"]
Closed == [phase |-> "closed", lenient |-> FALSE, view |-> << >>,
           size |-> <<0, FALSE>>, resid |-> << >>, pend |-> NoWrite]

Becomes(h, memory) == mem' = [mem EXCEPT ![h] = memory]

DiskSize == <<Len(journal), torn>>

\* Mutant: the journal is not held to the size this handle last saw.
CurrentUnchecked(h) == mem[h].phase = "open"

\* _assert_current: the journal is as long as at this handle's last sync.
Current(h) == mem[h].phase = "open" /\ mem[h].size = DiskSize

\* What other processes may do while some handle is inside an operation.
Undisturbed == \/ Overlap
               \/ \A h \in Handle : mem[h].phase \in {"closed", "open", "failed"}

\* Bytes some process left unterminated swallow the next line written.
Spoilt(line) == [rev |-> 0, op |-> "junk", node |-> line.node,
                 version |-> line.version, payload |-> line.payload]
Landed(line) == Append(journal, IF torn THEN Spoilt(line) ELSE line)

\* A flush writes what an earlier failed flush left buffered first, and so
\* completes the line that one cut short.
Flushed(h, line) == IF mem[h].resid = << >> THEN Landed(line)
                    ELSE Append(journal \o mem[h].resid, line)

Room(h) == Len(journal) + Len(mem[h].resid) < MaxRev

Init == /\ journal = << >> /\ torn = FALSE
        /\ files = [n \in Node |-> NoFile]
        /\ mem = [h \in Handle |-> Closed]
        /\ stored = {}

(* Store(root): replay the journal. A line replay refuses ends the open     *)
(* under the default policy; a lenient open drops it and all that follows. *)
(* A torn tail is cut in either case.                                      *)
Open(h, lenient) ==
  /\ mem[h].phase = "closed"
  /\ Overlap \/ \A g \in Handle : mem[g].phase = "closed"
  /\ \E k \in 0..Len(journal) :
       /\ ReplayStops(journal, k)
       /\ k < Len(journal) => lenient
       /\ journal' = SubSeq(journal, 1, k)
  /\ torn' = FALSE
  /\ Becomes(h, [Closed EXCEPT !.phase = "repairing", !.lenient = lenient,
                               !.view = journal'])
  /\ UNCHANGED <<files, stored>>

(* Recovery rewrites one node file that is not what the journal says.      *)
RepairFile(h, n) ==
  /\ mem[h].phase = "repairing"
  /\ \E i \in 1..Len(mem[h].view) :
       /\ IsLast(mem[h].view, i, n, Len(mem[h].view))
       /\ files[n] # FileOf(mem[h].view[i])
       /\ files' = [files EXCEPT ![n] = FileOf(mem[h].view[i])]
  /\ UNCHANGED <<journal, torn, mem, stored>>

\* Mutant: the handle opens before every file is what the journal says.
OpensAnyway(h) == TRUE

AllRepaired(h) == FilesMatch(mem[h].view, files)

(* The end of recovery: files of nodes the journal never named refuse the   *)
(* open, or are moved aside when the handle was opened leniently.          *)
FinishOpen(h) ==
  LET view == mem[h].view
      orphans == {n \in Node : Unseen(view, n, Len(view)) /\ files[n] # NoFile}
  IN  /\ mem[h].phase = "repairing"
      /\ AllRepaired(h)
      /\ \/ /\ orphans = {} \/ mem[h].lenient
            /\ files' = [n \in Node |-> IF n \in orphans THEN NoFile ELSE files[n]]
            /\ Becomes(h, [mem[h] EXCEPT !.phase = "open", !.size = DiskSize])
         \/ /\ orphans # {} /\ ~mem[h].lenient
            /\ Becomes(h, Closed)
            /\ UNCHANGED files
      /\ UNCHANGED <<journal, torn, stored>>

\* Mutant: the next revision is the last one again.
BeginSameRev(h, op, n, version, p, actor) ==
  LET line == [rev |-> Len(mem[h].view), op |-> op, node |-> n,
               version |-> version, payload |-> p]
  IN  Becomes(h, [mem[h] EXCEPT !.phase = "appending",
                    !.pend = [op |-> "append", line |-> line, actor |-> actor]])

\* The append a handle goes on to, with the line its indexes lead it to.
Begin(h, op, n, version, p, actor) ==
  LET line == [rev |-> Len(mem[h].view) + 1, op |-> op, node |-> n,
               version |-> version, payload |-> p]
  IN  Becomes(h, [mem[h] EXCEPT !.phase = "appending",
                    !.pend = [op |-> "append", line |-> line, actor |-> actor]])

\* Mutants: the owner is not compared; the kind is not.
MayRewriteAny(n, r) == files[n] \in NodeFile /\ files[n].payload \notin Interface
MayRewriteInterface(n, r) == files[n] \in NodeFile /\ r = OwnerOf[files[n].payload]

\* The owner and the kind of a known node are read from its file.
MayRewrite(n, r) == /\ files[n] \in NodeFile
                    /\ r = OwnerOf[files[n].payload]
                    /\ files[n].payload \notin Interface

(* write_node up to the append: staleness, ownership, interface, units.     *)
BeginWrite(h, n, p, r) ==
  LET view == mem[h].view IN
  /\ Current(h) /\ Room(h)
  /\ p \notin Unitless
  /\ \/ /\ Unseen(view, n, Len(view))
        /\ r = OwnerOf[p]
        /\ Begin(h, "create", n, 1, p, r)
     \/ \E i \in 1..Len(view) :
          /\ IsLast(view, i, n, Len(view))
          /\ MayRewrite(n, r)
          /\ Begin(h, "write", n, view[i].version + 1, p, r)
  /\ UNCHANGED <<journal, torn, files, stored>>

(* rollback up to the append: `to` names a revision the handle knows, and   *)
(* its payload becomes the new head of the node it belongs to.             *)
BeginRollback(h, to) ==
  LET view == mem[h].view IN
  /\ Current(h) /\ Room(h)
  /\ to \in 1..Len(view)
  /\ \E i \in 1..Len(view) :
       /\ IsLast(view, i, view[to].node, Len(view))
       /\ Begin(h, "rollback", view[to].node, view[i].version + 1,
                view[to].payload, Nobody)
  /\ UNCHANGED <<journal, torn, files, stored>>

(* _append: the line is written, flushed and synced, the indexes follow.   *)
AppendLine(h) ==
  /\ mem[h].phase = "appending"
  /\ journal' = Flushed(h, mem[h].pend.line)
  /\ torn' = FALSE
  /\ Becomes(h, [mem[h] EXCEPT !.phase = "materialising", !.resid = << >>,
                               !.view = Append(@, mem[h].pend.line),
                               !.size = <<Len(journal'), FALSE>>])
  /\ stored' = stored \cup {[line |-> mem[h].pend.line, actor |-> mem[h].pend.actor]}
  /\ UNCHANGED files

\* A handle whose write raised is used again, or is not.
AfterError == IF IoErrors = "retry" THEN "open" ELSE "failed"

(* _append raises: nothing was written, a part of the line was, or all of  *)
(* it was and the sync failed. Unwritten bytes stay in the handle's buffer *)
(* and no index moves.                                                     *)
AppendFails(h) ==
  /\ IoErrors # "none" /\ mem[h].phase = "appending"
  /\ \/ /\ Becomes(h, [mem[h] EXCEPT !.phase = AfterError, !.pend = NoWrite,
                                     !.resid = Append(@, mem[h].pend.line)])
        /\ torn' \in {torn, TRUE}
        /\ UNCHANGED journal
     \/ /\ Becomes(h, [mem[h] EXCEPT !.phase = AfterError, !.pend = NoWrite,
                                     !.resid = << >>])
        /\ journal' = Flushed(h, mem[h].pend.line)
        /\ torn' = FALSE
  /\ UNCHANGED <<files, stored>>

(* _materialise: temporary file, sync, rename.                             *)
Materialise(h) ==
  /\ mem[h].phase = "materialising"
  /\ files' = [files EXCEPT ![mem[h].pend.line.node] = FileOf(mem[h].pend.line)]
  /\ Becomes(h, [mem[h] EXCEPT !.phase = "open", !.pend = NoWrite])
  /\ UNCHANGED <<journal, torn, stored>>

(* The replace raises; the node file is as it was and the handle lives on. *)
MaterialiseFails(h) ==
  /\ IoErrors # "none" /\ mem[h].phase = "materialising"
  /\ Becomes(h, [mem[h] EXCEPT !.phase = AfterError, !.pend = NoWrite])
  /\ UNCHANGED <<journal, torn, files, stored>>

(* close: whatever is still buffered is flushed on the way out.            *)
Close(h) ==
  /\ mem[h].phase \in {"open", "failed"}
  /\ journal' = journal \o mem[h].resid
  /\ torn' = (torn /\ mem[h].resid = << >>)
  /\ Becomes(h, Closed)
  /\ UNCHANGED <<files, stored>>

(* The process of h is killed. Inside an append the line may be absent,    *)
(* cut short, or complete.                                                 *)
Crash(h) ==
  /\ mem[h].phase # "closed"
  /\ Becomes(h, Closed)
  /\ \/ UNCHANGED <<journal, torn>>
     \/ mem[h].phase = "appending" /\ torn' = TRUE /\ UNCHANGED journal
     \/ /\ mem[h].phase = "appending"
        /\ journal' = Flushed(h, mem[h].pend.line) /\ torn' = FALSE
  /\ UNCHANGED <<files, stored>>

(* Something that is not the store appends a line, or changes a node file. *)
ForeignAppend(line) ==
  /\ Undisturbed /\ Len(journal) < MaxRev
  /\ journal' = Landed(line) /\ torn' = FALSE
  /\ UNCHANGED <<files, mem, stored>>

ForeignEdit(n, file) ==
  /\ Undisturbed
  /\ files' = [files EXCEPT ![n] = file]
  /\ UNCHANGED <<journal, torn, mem, stored>>

Next ==
  \/ \E h \in Handle :
       \/ \E lenient \in BOOLEAN : Open(h, lenient)
       \/ \E n \in Node : RepairFile(h, n)
       \/ FinishOpen(h)
       \/ \E n \in Node, p \in Payload, r \in Role : BeginWrite(h, n, p, r)
       \/ \E to \in 1..Len(mem[h].view) : BeginRollback(h, to)
       \/ AppendLine(h) \/ AppendFails(h)
       \/ Materialise(h) \/ MaterialiseFails(h)
       \/ Close(h) \/ Crash(h)
  \/ \E line \in ForeignLine : ForeignAppend(line)
  \/ \E n \in Node, file \in ForeignFile : ForeignEdit(n, file)

Spec == Init /\ [][Next]_vars

-----------------------------------------------------------------------------
(* Properties.                                                             *)

Pend == [op : {"append"}, line : Line, actor : Role \cup {Nobody}] \cup {NoWrite}
Memory == [phase : {"closed", "repairing", "open", "appending", "materialising",
                     "failed"},
           lenient : BOOLEAN, view : Seq(Line), size : Nat \X BOOLEAN,
           resid : Seq(Line), pend : Pend]

\* Every variable has its type.
TypeOK ==
  /\ journal \in Seq(Line) /\ torn \in BOOLEAN
  /\ files \in [Node -> NodeFile \cup {NoFile}]
  /\ mem \in [Handle -> Memory]
  /\ stored \subseteq [line : Line, actor : Role \cup {Nobody}]

\* What the store wrote is what recovery accepts: through kills inside an
\* append and re-opens, revisions and per-node versions stay consecutive and a
\* rollback replays a payload its node has held (recover, and the comment
\* "this package only ever mints consecutive revisions").
JournalCoherent == Coherent(journal)

\* A handle that answers answers from the journal that is on disk: its indexes
\* cover exactly the lines there (_assert_current, and state/README.md: "if the
\* journal moves underneath a handle, that handle refuses to answer").
AnswersFromJournal == \A h \in Handle : Current(h) => mem[h].view = journal

\* A handle that answers a read from a node file answers the journal's newest
\* payload of that node: a kill between the synced line and the replaced file
\* is repaired before the next handle answers.
ReadsAreHeads == \A h \in Handle : Current(h) => FilesMatch(journal, files)

\* A handle only ever builds on lines recovery would accept, however the journal
\* was written and whichever policy opened it.
ViewsCoherent == \A h \in Handle : Coherent(mem[h].view)

\* A line whose append returned is never lost: no later open, under either
\* policy, drops it with a corrupt or torn tail.
StoredKept == \A s \in stored : /\ s.line.rev \in 1..Len(journal)
                                /\ journal[s.line.rev] = s.line

\* The guard, which reads the node's file, and the divergence check, which reads
\* the owner at the node's previous journal revision (at a create, the owner the
\* payload names), agree: no accepted write is later reported as a cross-role
\* write, and none that should be is accepted.
GuardAgreesWithDivergence ==
  \A s \in stored : s.actor # Nobody =>
    LET i == s.line.rev
        n == s.line.node
    IN  /\ Unseen(journal, n, i - 1) => s.actor = OwnerOf[s.line.payload]
        /\ \A j \in 1 .. i - 1 : IsLast(journal, j, n, i - 1) =>
                                   s.actor = OwnerOf[journal[j].payload]

\* A node that has become an interface changes by a rollback only.
InterfaceOnlyRolledBack ==
  \A i \in 1..Len(journal) : journal[i].op = "write" =>
    \A j \in 1 .. i - 1 : IsLast(journal, j, journal[i].node, i - 1)
                            => journal[j].payload \notin Interface

-----------------------------------------------------------------------------
(* The store implements the abstract graph: its log is the journal.        *)

LogBar == [i \in 1..Len(journal) |->
             [node |-> journal[i].node, payload |-> journal[i].payload]]
Graph == INSTANCE VersionedGraph WITH log <- LogBar
GraphSpec == Graph!Spec
=============================================================================
