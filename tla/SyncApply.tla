------------------------------ MODULE SyncApply ------------------------------
(***************************************************************************)
(* The main node's operation engine (src/tim/sync/apply_operation.ts,      *)
(* apply_batch.ts, apply_conflicts.ts).  Every origin node issues a stream *)
(* of operations numbered by localSequence; the transport may present them *)
(* to the main node singly or in batches, in any order and any number of   *)
(* times.  The engine decides each operation once, records the verdict in  *)
(* sync_operation and appends the mutations to the sync_sequence log.      *)
(*                                                                         *)
(* An operation is identified by its slot <<origin, localSequence>>: an    *)
(* origin allocates every slot to one operation UUID.  Payloads are        *)
(* reduced to what the engine branches on: announcing a project, deleting  *)
(* a project, or any other edit of a project, whose verdict depends on     *)
(* plan data that is not modelled and is therefore left open.              *)
(***************************************************************************)
EXTENDS Integers, Sequences, FiniteSets

CONSTANTS
    Nodes,          \* origin nodes
    Projects,       \* project UUIDs an operation may refer to
    Contested,      \* projects whose announced repository another row may have
    MaxOps,         \* bound: localSequence ranges over 0 .. MaxOps - 1
    MaxBatch,       \* bound: operations in one batch
    MaxMutations,   \* bound: sync_sequence rows written by one operation
    NoContent,      \* content of a slot that has not been issued
    NoTxn           \* no applyBatch call is in progress

ASSUME BoundsAssumption ==
    /\ MaxOps \in Nat \ {0}
    /\ MaxBatch \in Nat \ {0}
    /\ MaxMutations \in Nat \ {0}
    /\ Contested \subseteq Projects

Slots == 0 .. MaxOps - 1
Ops == Nodes \X Slots
Origin(op) == op[1]
LocalSequence(op) == op[2]

Kinds == {"upsert", "delete", "edit"}

\* What an operation carries: its kind, its project and the slots first .. last of
\* the frame unit it belongs to (a batch, or the operation alone).
Contents == [kind : Kinds, project : Projects, first : Slots, last : Slots,
             batched : BOOLEAN, atomic : BOOLEAN]

ASSUME NoContentAssumption == NoContent \notin Contents

\* sync_operation.status on the main node; "none" when there is no row.
Terminal == {"applied", "conflict", "rejected", "cleared_rejected"}
RowStatus == {"none", "received"} \cup Terminal

LogEntries == [op : Ops, resolution : BOOLEAN]

\* The tables the engine reads and writes: sync_operation rows, the projects the
\* main node knows, open sync_conflict rows, and sync_sequence in sequence order.
Databases == [row : [Ops -> RowStatus], projects : SUBSET Projects,
              open : SUBSET Ops, log : Seq(LogEntries)]

\* One applyBatch call: the transaction works on its own copy of the tables, which
\* replaces db at commit; "aborted" is the moment between the rollback and the
\* follow-up transaction that persists the rejections.
Txns == [node : Nodes, first : Slots, last : Slots, atomic : BOOLEAN,
         next : 0 .. MaxOps, phase : {"running", "aborted"}, work : Databases]

VARIABLES
    nextSequence, \* [Nodes -> 0 .. MaxOps], tim_node_sequence of each origin
    content,      \* [Ops -> Contents or NoContent], what each origin has issued
    db,           \* the committed tables of the main node
    txn,          \* the applyBatch call in progress, or NoTxn
    told          \* [Ops -> terminal verdicts ever returned for the operation]

vars == <<nextSequence, content, db, txn, told>>

Verdicts == {"applied", "conflict", "rejected"}

TypeOK ==
    /\ nextSequence \in [Nodes -> 0 .. MaxOps]
    /\ content \in [Ops -> Contents \cup {NoContent}]
    /\ db \in Databases
    /\ txn \in Txns \cup {NoTxn}
    /\ told \in [Ops -> SUBSET Verdicts]

-----------------------------------------------------------------------------
(* Issuing: what an origin node puts in its stream.                        *)

\* A unit occupies the next free slots of its origin (allocateLocalSequenceRange).
Issue(n, kinds, p, batched, atomic) ==
    LET first == nextSequence[n]
        last  == first + Len(kinds) - 1
    IN  /\ last < MaxOps
        /\ nextSequence' = [nextSequence EXCEPT ![n] = last + 1]
        /\ content' = [op \in Ops |->
              IF Origin(op) = n /\ LocalSequence(op) \in first .. last
                THEN [kind |-> kinds[LocalSequence(op) - first + 1], project |-> p,
                      first |-> first, last |-> last,
                      batched |-> batched, atomic |-> atomic]
                ELSE content[op]]
        /\ UNCHANGED <<db, txn, told>>

IssueOperation(n) ==
    \E k \in Kinds, p \in Projects : Issue(n, <<k>>, p, FALSE, FALSE)

IssueBatch(n) ==
    \E len \in 2 .. MaxBatch, p \in Projects, atomic \in BOOLEAN :
        \E kinds \in [1 .. len -> Kinds] : Issue(n, kinds, p, TRUE, atomic)

-----------------------------------------------------------------------------
(* Applying one operation inside a transaction.                            *)

SetRow(d, op, status) == [d EXCEPT !.row[op] = status]

\* checkFifo: the terminal rows of the same origin, the operation's own excepted.
Settled(d, op) ==
    {s \in Slots : s # LocalSequence(op) /\ d.row[<<Origin(op), s>>] \in Terminal}

\* checkFifo returns null: the operation is max + 1, or the stream has no terminal
\* row yet and the operation is number 0 or 1.
InTurn(d, op) ==
    LET settled == Settled(d, op)
        s       == LocalSequence(op)
    IN  IF settled = {} THEN s <= 1
        ELSE s - 1 \in settled /\ \A t \in settled : t < s

\* checkFifo throws: a later operation of the origin is already terminal.
Overtaken(d, op) == \E t \in Settled(d, op) : t > LocalSequence(op)

LogMutations(d, op, n) ==
    [d EXCEPT !.log = @ \o [i \in 1 .. n |-> [op |-> op, resolution |-> FALSE]]]

Result(d, status) == [db |-> d, status |-> status]

\* Faulty variant of MarkApplied: the row of the operation is left as it is.
MarkAppliedUnrecorded(d, op, n) == Result(LogMutations(d, op, n), "applied")

\* markOperationApplied after n mutations.
MarkApplied(d, op, n) == Result(LogMutations(SetRow(d, op, "applied"), op, n), "applied")

\* upsertSyncedProject: the project sets an announcement of p may leave.  Its repository
\* may belong to a row with another UUID, which then takes the UUID announced.
Announced(d, p) ==
    {d.projects \cup {p}}
        \cup {(d.projects \ {q}) \cup {p} : q \in IF p \in Contested \ d.projects
                                                  THEN d.projects ELSE {}}

\* applyPayload: the ways the payload of an operation in turn may end.  An announcement
\* is invalid when its UUID and its repository belong to two rows (the second possibly
\* one no operation of this instance names).
Payload(d, op) ==
    LET c == content[op]
    IN  CASE c.kind = "upsert" ->
               {MarkApplied([d EXCEPT !.projects = ps], op, 1) :
                    ps \in Announced(d, c.project)}
               \cup {Result(d, "invalid") : p \in {c.project} \cap Contested \cap d.projects}
          [] c.kind = "delete" ->
               {MarkApplied([d EXCEPT !.projects = @ \ {c.project}], op, 1)}
          [] c.kind = "edit" ->
               {MarkApplied(d, op, n) : n \in 0 .. MaxMutations}
               \cup {Result([SetRow(d, op, "conflict") EXCEPT !.open = @ \cup {op}],
                            "conflict"),
                     Result(SetRow(d, op, "rejected"), "rejected")}

\* Faulty variant of CheckFifo: every operation counts as in turn.
CheckFifoSkipped(d, op) == Payload(d, op)

\* The FIFO check and what follows it.  "invalid" is a validation error that escapes
\* the transaction and rolls it back; a deferred operation keeps its received row.
CheckFifo(d, op) ==
    IF Overtaken(d, op) THEN {Result(d, "invalid")}
    ELSE IF InTurn(d, op) THEN Payload(d, op)
    ELSE {Result(SetRow(d, op, "received"), "deferred")}

\* An operation for a project the main node does not know is decided before the
\* FIFO check, unless it announces the project.
UnknownProject(d, op) ==
    content[op].kind # "upsert" /\ content[op].project \notin d.projects

Unknown(d, op) ==
    IF content[op].kind = "delete" THEN MarkApplied(d, op, 0)
    ELSE Result(SetRow(d, op, "rejected"), "rejected")

\* Faulty variant of Recorded: the status of the row is returned as it is.
RecordedVerbatim(status) == status

\* A cleared rejection is still reported as a rejection.
Recorded(status) == IF status = "cleared_rejected" THEN "rejected" ELSE status

\* Faulty variant of Outcomes: a recorded operation is not recognised.
OutcomesRepeated(d, op) ==
    IF UnknownProject(d, op) THEN {Unknown(d, op)} ELSE CheckFifo(d, op)

\* applyOperationInTransaction: the possible outcomes of one operation.
Outcomes(d, op) ==
    IF d.row[op] \in Terminal THEN {Result(d, Recorded(d.row[op]))}
    ELSE IF UnknownProject(d, op) THEN {Unknown(d, op)}
    ELSE CheckFifo(d, op)

\* Faulty variant of Reported: a deferred operation is reported as rejected.
ReportedDeferral(status) ==
    CASE status \in {"invalid", "deferred"} -> {"rejected"}
      [] status \in Verdicts -> {status}
      [] OTHER -> {}

\* operationResult: the verdict an outcome is reported with, if it is final.
Reported(status) ==
    CASE status = "invalid" -> {"rejected"}
      [] status \in Verdicts -> {status}
      [] OTHER -> {}

-----------------------------------------------------------------------------
(* The entry points of the engine.                                         *)

\* The transaction of one operation ends with outcome r.
Decide(op, r) ==
    /\ db' = IF r.status = "invalid" THEN db ELSE r.db
    /\ told' = [told EXCEPT ![op] = @ \cup Reported(r.status)]

\* applyOperation: one operation in its own transaction.  A transient database
\* error rolls it back and leaves nothing behind, so it is no step of this module.
ApplyOperation(op) ==
    /\ txn = NoTxn
    /\ content[op] # NoContent
    /\ ~content[op].batched
    /\ \E r \in Outcomes(db, op) : Decide(op, r)
    /\ UNCHANGED <<nextSequence, content, txn>>

BatchOps(n, first, last) == {<<n, s>> : s \in first .. last}

\* getBatchReplayResult: every row is terminal, the recorded results are returned.
ReplayBatch(op) ==
    /\ txn = NoTxn
    /\ content[op] # NoContent
    /\ content[op].batched
    /\ LET batch == BatchOps(Origin(op), content[op].first, content[op].last)
       IN  /\ \A o \in batch : db.row[o] \in Terminal
           /\ told' = [o \in Ops |->
                 IF o \in batch THEN told[o] \cup {Recorded(db.row[o])} ELSE told[o]]
    /\ UNCHANGED <<nextSequence, content, db, txn>>

\* applyBatch opens its transaction when none of the rows exists.
BeginBatch(op) ==
    /\ txn = NoTxn
    /\ content[op] # NoContent
    /\ content[op].batched
    /\ LET c == content[op]
       IN  /\ \A o \in BatchOps(Origin(op), c.first, c.last) : db.row[o] = "none"
           /\ txn' = [node |-> Origin(op), first |-> c.first, last |-> c.last,
                      atomic |-> c.atomic, next |-> c.first,
                      phase |-> "running", work |-> db]
    /\ UNCHANGED <<nextSequence, content, db, told>>

Running == txn # NoTxn /\ txn.phase = "running"

\* Faulty variant of Aborts: a conflict never aborts a batch.
AbortsOnRejection(status) == status \in {"rejected", "invalid"}

\* A rejection or, in an atomic batch, a conflict aborts the batch.
Aborts(status) ==
    status \in {"rejected", "invalid"} \/ (txn.atomic /\ status = "conflict")

\* One turn of the loop over the operations of the batch.
StepBatch ==
    /\ Running
    /\ txn.next <= txn.last
    /\ \E r \in Outcomes(txn.work, <<txn.node, txn.next>>) :
          txn' = IF Aborts(r.status)
                   THEN [txn EXCEPT !.phase = "aborted", !.work = db]
                 ELSE IF r.status = "deferred" THEN NoTxn
                 ELSE [txn EXCEPT !.next = @ + 1, !.work = r.db]
    /\ UNCHANGED <<nextSequence, content, db, told>>

\* The transaction commits and the per-operation results are returned.
CommitBatch ==
    /\ Running
    /\ txn.next > txn.last
    /\ db' = txn.work
    /\ txn' = NoTxn
    /\ told' = [op \in Ops |->
          IF op \in BatchOps(txn.node, txn.first, txn.last)
            THEN told[op] \cup {Recorded(txn.work.row[op])} ELSE told[op]]
    /\ UNCHANGED <<nextSequence, content>>

\* persistRolledBackBatchRejections: a follow-up transaction rejects every operation
\* of the batch, and all of them are reported rejected (also for a conflict abort).
PersistRejections ==
    /\ txn # NoTxn
    /\ txn.phase = "aborted"
    /\ LET batch == BatchOps(txn.node, txn.first, txn.last)
       IN  /\ db' = [db EXCEPT !.row = [op \in Ops |->
                        IF op \in batch THEN "rejected" ELSE db.row[op]]]
           /\ told' = [op \in Ops |->
                 IF op \in batch THEN told[op] \cup {"rejected"} ELSE told[op]]
    /\ txn' = NoTxn
    /\ UNCHANGED <<nextSequence, content>>

\* The process dies, or the database fails, before the commit or between the
\* rollback and the follow-up transaction: SQLite keeps the committed tables.
FailBatch ==
    /\ txn # NoTxn
    /\ txn' = NoTxn
    /\ UNCHANGED <<nextSequence, content, db, told>>

\* resolveSyncConflict: discard an open conflict, or apply it with n mutations that
\* are logged under the operation's UUID and the resolver's name.  The command runs
\* in a process of its own, which only an open transaction keeps out.
ResolveConflict(op) ==
    /\ ~Running
    /\ op \in db.open
    /\ \/ db' = [db EXCEPT !.open = @ \ {op}]
       \/ /\ content[op].project \in db.projects
          /\ \E n \in 0 .. MaxMutations :
                db' = [db EXCEPT
                         !.open = @ \ {op},
                         !.log  = @ \o [i \in 1 .. n |-> [op |-> op, resolution |-> TRUE]]]
    /\ UNCHANGED <<nextSequence, content, txn, told>>

\* tim sync clear-rejected.  (The markers it adds as well fill numbers the main node has
\* allocated to its own writes, which are not among Nodes.)
ClearRejected ==
    /\ ~Running
    /\ \E op \in Ops : db.row[op] = "rejected"
    /\ db' = [db EXCEPT !.row = [op \in Ops |->
                 IF db.row[op] = "rejected" THEN "cleared_rejected" ELSE db.row[op]]]
    /\ UNCHANGED <<nextSequence, content, txn, told>>

-----------------------------------------------------------------------------

EmptyDb == [row |-> [op \in Ops |-> "none"], projects |-> {}, open |-> {}, log |-> <<>>]

Init ==
    /\ nextSequence = [n \in Nodes |-> 0]
    /\ content = [op \in Ops |-> NoContent]
    /\ db \in {[EmptyDb EXCEPT !.projects = ps] : ps \in SUBSET Projects}
    /\ txn = NoTxn
    /\ told = [op \in Ops |-> {}]

Next ==
    \/ \E n \in Nodes : IssueOperation(n) \/ IssueBatch(n)
    \/ \E op \in Ops :
          \/ ApplyOperation(op)
          \/ ReplayBatch(op)
          \/ BeginBatch(op)
          \/ ResolveConflict(op)
    \/ StepBatch
    \/ CommitBatch
    \/ PersistRejections
    \/ FailBatch
    \/ ClearRejected

Spec == Init /\ [][Next]_vars

-----------------------------------------------------------------------------
(* Properties.                                                             *)

\* The log replays every origin in the order it issued its operations: whatever is
\* retried, duplicated or reordered by the transport, a direct mutation is never
\* logged after a mutation of a later operation of the same origin.
OriginOrder(d) ==
    \A i, j \in DOMAIN d.log :
        LET a == d.log[i]
            b == d.log[j]
        IN  i < j /\ ~a.resolution /\ ~b.resolution /\ Origin(a.op) = Origin(b.op)
              => LocalSequence(a.op) <= LocalSequence(b.op)

LogInOriginOrder == OriginOrder(db)

\* An operation takes effect by one path only: directly, and then its row says
\* applied, or by the resolution of the conflict it was recorded with, once.
OneEffect ==
    \A i \in DOMAIN db.log :
        LET e == db.log[i]
        IN  IF e.resolution
              THEN /\ db.row[e.op] = "conflict"
                   /\ e.op \notin db.open
                   /\ Cardinality({j \in DOMAIN db.log : db.log[j].op = e.op}) <= MaxMutations
              ELSE db.row[e.op] = "applied"

\* The rows of a batch are decided together, so a retried batch is never found in
\* part; and an atomic batch is applied as a whole or rejected as a whole.
BatchUnity ==
    \A o \in Ops :
        content[o] # NoContent /\ content[o].batched =>
            \A p \in BatchOps(Origin(o), content[o].first, content[o].last) :
                /\ db.row[o] = "none" <=> db.row[p] = "none"
                /\ db.row[o] # "received"
                /\ content[o].atomic => (db.row[o] = "applied" <=> db.row[p] = "applied")
                                        /\ db.row[o] # "conflict"

\* What the origin was ever told agrees with what the main node did: an operation
\* reported applied or in conflict is recorded so, and one reported rejected never
\* takes effect, before or after.  (The announcement of a contested project is the
\* exception: its rejection is rolled back with its transaction, so that a duplicate
\* of it may still succeed.)
Agreement ==
    \A op \in Ops :
        /\ "applied" \in told[op] => db.row[op] = "applied"
        /\ "conflict" \in told[op] => db.row[op] = "conflict"
        /\ "rejected" \in told[op] =>
              \/ \A i \in DOMAIN db.log : db.log[i].op # op
              \/ content[op].kind = "upsert" /\ content[op].project \in Contested

\* Tables e may follow tables d: decided operations keep their verdict, the log keeps
\* what it holds, and what is new in it is either the resolution of a conflict or a
\* mutation of an operation that was not decided before.
Follows(d, e) ==
    /\ \A op \in Ops : d.row[op] \in Terminal =>
          e.row[op] \in Terminal /\ Recorded(e.row[op]) = Recorded(d.row[op])
    /\ Len(d.log) <= Len(e.log)
    /\ \A i \in DOMAIN d.log : e.log[i] = d.log[i]
    /\ \A i \in DOMAIN e.log \ DOMAIN d.log :
          e.log[i].resolution \/ d.row[e.log[i].op] \notin Terminal

\* A decided operation stays decided: no step changes its verdict or logs a direct
\* mutation for it again, and the log only grows.
DecidedOnce == [][Follows(db, db')]_vars

=============================================================================
