--------------------------- MODULE SyncFlushProofs ---------------------------
(***************************************************************************)
(* Proofs about SyncFlush, for any nodes, transports and bounds: what the  *)
(* server of the main node does is what the engine may do, the queue of a  *)
(* node agrees with the main node, and the whole keeps the promise of      *)
(* OpDelivery.  Where every node flushes over its socket only, no row is   *)
(* left in sending.                                                        *)
(***************************************************************************)
EXTENDS SyncFlush, SyncApplyProofs

-----------------------------------------------------------------------------
(* Sets of numbers.                                                        *)

Less == {pair \in Nat \X Nat : pair[1] < pair[2]}

\* A set of numbers that is not empty has a least element.
LEMMA MinOfNaturals ==
    ASSUME NEW S, S \subseteq Nat, S # {}
    PROVE  Min(S) \in S /\ \A x \in S : Min(S) <= x
<1>0. IsWellFoundedOn(Less, Nat)
  BY NatLessThanWellFounded DEF Less, OpToRel
<1>1. PICK x \in S : \A y \in S : ~(<<y, x>> \in Less)
  BY <1>0, WFMin
<1>2. \A y \in S : x <= y
  <2> SUFFICES ASSUME NEW y \in S PROVE x <= y
    OBVIOUS
  <2>1. ~(<<y, x>> \in {pair \in Nat \X Nat : pair[1] < pair[2]})
    BY <1>1 DEF Less
  <2>2. x \in Nat /\ y \in Nat
    OBVIOUS
  <2> HIDE <1>1
  <2> QED
    BY <2>1, <2>2
<1> QED
  BY <1>2 DEF Min

LEMMA MinSlot ==
    ASSUME NEW S, S \subseteq Slots, S # {}
    PROVE  Min(S) \in S /\ \A x \in S : Min(S) <= x
<1>1. S \subseteq Nat
  BY BoundsAssumption DEF Slots
<1> QED
  BY <1>1, MinOfNaturals

-----------------------------------------------------------------------------
(* More about the engine: announcements are never in conflict, what is     *)
(* told is never untold, and a rejection is told of an operation that has  *)
(* not been applied.                                                       *)

\* Only an edit is ever recorded as a conflict.
OnlyEdits(d) == \A op \in Ops : d.row[op] = "conflict" => content[op].kind = "edit"

EditsConflict == OnlyEdits(db) /\ (Running => OnlyEdits(txn.work))

LEMMA OutcomeEdits ==
    ASSUME NEW d \in Databases, OnlyEdits(d), NEW op \in Ops, content[op] \in Contents,
           NEW r \in Outcomes(d, op)
    PROVE  OnlyEdits(r.db)
<1>1. Form(d, op, r)
  BY OutcomeForms
<1>2. CASE Replays(d, op, r) \/ Escapes(d, op, r)
  BY <1>2 DEF Replays, Escapes
<1>3. CASE Records(d, op, r)
  <2>1. /\ d.row[op] \notin Terminal
        /\ \A p \in Ops \ {op} : r.db.row[p] = d.row[p]
        /\ r.db.row[op] = "conflict" => r.status = "conflict"
    BY <1>3 DEF Records
  <2>2. ASSUME r.status = "conflict" PROVE content[op].kind = "edit"
    <3>1. r \in CheckFifo(d, op)
      BY <2>1, <2>2 DEF Outcomes, Unknown, MarkApplied, Result
    <3>2. r \in Payload(d, op)
      BY <2>2, <3>1 DEF CheckFifo, Result
    <3>3. content[op].kind \in Kinds
      BY DEF Contents
    <3>4. ASSUME content[op].kind = "upsert" PROVE FALSE
      <4>1. \/ r = Result(d, "invalid")
            \/ \E ps \in Announced(d, content[op].project) :
                  r = MarkApplied([d EXCEPT !.projects = ps], op, 1)
        BY <3>2, <3>4 DEF Payload
      <4>2. CASE r = Result(d, "invalid")
        BY <2>2, <4>2 DEF Result
      <4>3. CASE \E ps \in Announced(d, content[op].project) :
                    r = MarkApplied([d EXCEPT !.projects = ps], op, 1)
        BY <2>2, <4>3 DEF MarkApplied, Result
      <4> QED
        BY <4>1, <4>2, <4>3
    <3>5. ASSUME content[op].kind = "delete" PROVE FALSE
      BY <2>2, <3>2, <3>5 DEF Payload, MarkApplied, Result
    <3> QED
      BY <3>3, <3>4, <3>5 DEF Kinds
  <2> QED
    BY <2>1, <2>2 DEF OnlyEdits
<1> QED
  BY <1>1, <1>2, <1>3 DEF Form

\* What a step of the engine keeps of the streams, and what it tells.
Grows ==
    /\ \A op \in Ops : content[op] \in Contents => content'[op] = content[op]
    /\ \A op \in Ops : told[op] \subseteq told'[op]

LEMMA StreamsGrow ==
    ASSUME IInv, Batches, [Next]_vars
    PROVE  /\ Grows
           /\ \A op \in Ops : "rejected" \in told'[op] \ told[op] =>
                 db'.row[op] \notin {"applied", "conflict"}
<1>1. db \in Databases /\ TypeOK
  BY DEF IInv, TypeOK
<1> DEFINE Goal == /\ Grows
                   /\ \A op \in Ops : "rejected" \in told'[op] \ told[op] =>
                         db'.row[op] \notin {"applied", "conflict"}
<1>2. ASSUME NEW n \in Nodes, IssueOperation(n) \/ IssueBatch(n) PROVE Goal
  <2>1. PICK first \in Slots, last \in Slots, batched \in BOOLEAN, atomic \in BOOLEAN :
           IssuesUnit(n, first, last, batched, atomic)
    BY <1>1, <1>2, IssueForms
  <2>2. \A op \in Ops : content[op] \in Contents => content'[op] = content[op]
    BY <2>1, IssueKeepsUnits
  <2> QED
    BY <2>1, <2>2 DEF IssuesUnit, Grows
<1>3. ASSUME UNCHANGED <<content, told>> PROVE Goal
  BY <1>3 DEF Grows
<1>4. ASSUME NEW op \in Ops, ApplyOperation(op) PROVE Goal
  <2>1. content[op] \in Contents /\ UNCHANGED content
    BY <1>1, <1>4 DEF ApplyOperation, TypeOK
  <2>2. PICK r \in Outcomes(db, op) :
           /\ db' = IF r.status = "invalid" THEN db ELSE r.db
           /\ told' = [told EXCEPT ![op] = @ \cup Reported(r.status)]
    BY <1>4 DEF ApplyOperation, Decide
  <2>3. Form(db, op, r)
    BY <1>1, <2>1, OutcomeForms
  <2>4. \A o \in Ops : told'[o] = IF o = op THEN told[op] \cup Reported(r.status) ELSE told[o]
    BY <1>1, <2>2 DEF TypeOK
  <2>5. ASSUME "rejected" \in Reported(r.status)
        PROVE  db'.row[op] \notin {"applied", "conflict"}
    <3>1. r.status \in {"invalid", "rejected"}
      BY <2>5 DEF Reported, Verdicts
    <3>2. CASE Replays(db, op, r)
      BY <2>2, <3>1, <3>2 DEF Replays, Recorded, Terminal
    <3>3. CASE Escapes(db, op, r)
      BY <2>2, <3>3 DEF Escapes, Terminal
    <3>4. CASE Records(db, op, r)
      BY <2>2, <3>1, <3>4 DEF Records, Verdicts
    <3> QED
      BY <2>3, <3>2, <3>3, <3>4 DEF Form
  <2> QED
    BY <2>1, <2>4, <2>5 DEF Grows
<1>5. ASSUME NEW op \in Ops, ReplayBatch(op) PROVE Goal
  <2> DEFINE batch == BatchOps(Origin(op), content[op].first, content[op].last)
  <2>1. /\ UNCHANGED <<content, db>>
        /\ told' = [o \in Ops |->
              IF o \in batch THEN told[o] \cup {Recorded(db.row[o])} ELSE told[o]]
    BY <1>5 DEF ReplayBatch
  <2> HIDE DEF batch
  <2> QED
    BY <2>1 DEF Grows, Recorded
<1>6. CASE CommitBatch
  <2> DEFINE batch == BatchOps(txn.node, txn.first, txn.last)
  <2>1. /\ UNCHANGED content /\ db' = txn.work
        /\ told' = [o \in Ops |->
              IF o \in batch THEN told[o] \cup {Recorded(txn.work.row[o])} ELSE told[o]]
    BY <1>6 DEF CommitBatch
  <2> HIDE DEF batch
  <2> QED
    BY <2>1 DEF Grows, Recorded
<1>7. CASE PersistRejections
  <2> DEFINE batch == BatchOps(txn.node, txn.first, txn.last)
             rows == [op \in Ops |-> IF op \in batch THEN "rejected" ELSE db.row[op]]
  <2>1. /\ db' = [db EXCEPT !.row = rows] /\ UNCHANGED content
        /\ told' = [o \in Ops |->
              IF o \in batch THEN told[o] \cup {"rejected"} ELSE told[o]]
    BY <1>7 DEF PersistRejections
  <2>2. rows \in [Ops -> RowStatus] /\ \A op \in Ops : op \in batch => rows[op] = "rejected"
    BY <1>1 DEF Databases, RowStatus, Terminal
  <2> HIDE DEF rows, batch
  <2>3. db'.row = rows
    BY <1>1, <2>1, <2>2, RowsRewritten
  <2> QED
    BY <2>1, <2>2, <2>3 DEF Grows
<1>8. ASSUME NEW op \in Ops, BeginBatch(op) \/ ResolveConflict(op) PROVE Goal
  BY <1>3, <1>8 DEF BeginBatch, ResolveConflict
<1>9. CASE StepBatch \/ FailBatch \/ ClearRejected \/ UNCHANGED vars
  BY <1>3, <1>9 DEF StepBatch, FailBatch, ClearRejected, vars
<1> QED
  BY <1>2, <1>4, <1>5, <1>6, <1>7, <1>8, <1>9 DEF Next

LEMMA EditsConflictStep ==
    ASSUME IInv, Batches, EditsConflict, [Next]_vars
    PROVE  EditsConflict'
<1>1. db \in Databases /\ TypeOK /\ RowsIssued(db) /\ BatchInProgress
  BY DEF IInv, TypeOK, Batches
<1>2. ASSUME UNCHANGED content, OnlyEdits(db'), Running' => OnlyEdits(txn'.work)
      PROVE  EditsConflict'
  BY <1>2 DEF EditsConflict, OnlyEdits
<1>3. ASSUME NEW n \in Nodes, IssueOperation(n) \/ IssueBatch(n) PROVE EditsConflict'
  <2>1. /\ UNCHANGED <<db, txn>>
        /\ \A op \in Ops : content[op] \in Contents => content'[op] = content[op]
    BY <1>1, <1>3, IssueForms, StreamsGrow DEF IssuesUnit, Grows, Next
  <2>2. OnlyEdits(db)'
    BY <1>1, <2>1 DEF EditsConflict, OnlyEdits, RowsIssued
  <2>3. ASSUME Running PROVE OnlyEdits(txn.work)'
    <3>1. txn # NoTxn /\ txn \in Txns
      BY <1>1, <2>3 DEF Running, TypeOK
    <3>2. /\ \A p \in Ops \ BatchOps(txn.node, txn.first, txn.last) :
                txn.work.row[p] = db.row[p]
          /\ \A p \in BatchOps(txn.node, txn.first, txn.last) : content[p] \in Contents
      BY <1>1, <2>3, <3>1, TxnUnit DEF BatchInProgress, Batches
    <3> QED
      BY <1>1, <2>1, <2>3, <3>2 DEF EditsConflict, OnlyEdits, RowsIssued
  <2> QED
    BY <2>1, <2>2, <2>3 DEF EditsConflict, Running
<1>4. ASSUME NEW op \in Ops, ApplyOperation(op) PROVE EditsConflict'
  <2>1. content[op] \in Contents /\ txn' = NoTxn /\ UNCHANGED content
    BY <1>1, <1>4 DEF ApplyOperation, TypeOK
  <2>2. PICK r \in Outcomes(db, op) : db' = IF r.status = "invalid" THEN db ELSE r.db
    BY <1>4 DEF ApplyOperation, Decide
  <2>3. OnlyEdits(r.db)
    BY <1>1, <2>1, OutcomeEdits DEF EditsConflict
  <2>4. OnlyEdits(db')
    BY <2>2, <2>3 DEF EditsConflict
  <2> QED
    BY <1>2, <2>1, <2>4 DEF Running
<1>5. ASSUME NEW op \in Ops, ReplayBatch(op) PROVE EditsConflict'
  <2>1. UNCHANGED <<content, db, txn>>
    BY <1>5 DEF ReplayBatch
  <2> QED
    BY <2>1 DEF EditsConflict, OnlyEdits, Running
<1>6. ASSUME NEW op \in Ops, BeginBatch(op) PROVE EditsConflict'
  <2>1. UNCHANGED <<content, db>> /\ txn'.work = db
    BY <1>6 DEF BeginBatch
  <2> QED
    BY <1>2, <2>1 DEF EditsConflict
<1>7. CASE StepBatch
  <2>1. /\ UNCHANGED <<content, db>> /\ txn \in Txns /\ Running /\ txn # NoTxn
        /\ txn.work \in Databases /\ txn.next <= txn.last
    BY <1>7, BatchTurn DEF Running
  <2> DEFINE op == <<txn.node, txn.next>>
  <2>2. op \in Ops /\ content[op] \in Contents
    BY <1>7, BatchTurn DEF Turn
  <2>3. PICK r \in Outcomes(txn.work, op) :
           txn' = IF Aborts(r.status) THEN [txn EXCEPT !.phase = "aborted", !.work = db]
                  ELSE IF r.status = "deferred" THEN NoTxn
                  ELSE [txn EXCEPT !.next = @ + 1, !.work = r.db]
    BY <1>7 DEF StepBatch
  <2> HIDE DEF op
  <2>4. OnlyEdits(r.db)
    BY <2>1, <2>2, OutcomeEdits DEF EditsConflict
  <2>5. Running' => txn'.work = r.db
    BY <2>1, <2>3 DEF Running, Txns
  <2> QED
    BY <1>2, <2>1, <2>4, <2>5 DEF EditsConflict
<1>8. CASE CommitBatch
  BY <1>2, <1>8 DEF CommitBatch, EditsConflict, Running
<1>9. CASE PersistRejections
  <2> DEFINE rows == [op \in Ops |->
                        IF op \in BatchOps(txn.node, txn.first, txn.last) THEN "rejected"
                        ELSE db.row[op]]
  <2>1. txn' = NoTxn /\ db' = [db EXCEPT !.row = rows] /\ UNCHANGED content
    BY <1>9 DEF PersistRejections
  <2>2. /\ rows \in [Ops -> RowStatus]
        /\ \A op \in Ops : rows[op] = "conflict" => db.row[op] = "conflict"
    BY <1>1 DEF Databases, RowStatus, Terminal
  <2> HIDE DEF rows
  <2>3. db'.row = rows
    BY <1>1, <2>1, <2>2, RowsRewritten
  <2>4. OnlyEdits(db')
    BY <2>2, <2>3 DEF EditsConflict, OnlyEdits
  <2> QED
    BY <1>2, <2>1, <2>4 DEF Running
<1>10. CASE FailBatch
  BY <1>2, <1>10 DEF FailBatch, EditsConflict, Running
<1>11. ASSUME NEW op \in Ops, ResolveConflict(op) PROVE EditsConflict'
  <2>1. /\ ~Running /\ UNCHANGED <<content, txn>> /\ db'.row = db.row
    BY <1>1, <1>11, ResolutionForm
  <2> QED
    BY <2>1 DEF EditsConflict, OnlyEdits, Running
<1>12. CASE ClearRejected
  <2> DEFINE rows == [op \in Ops |-> IF db.row[op] = "rejected" THEN "cleared_rejected"
                                     ELSE db.row[op]]
  <2>1. ~Running /\ db' = [db EXCEPT !.row = rows] /\ UNCHANGED <<content, txn>>
    BY <1>12 DEF ClearRejected
  <2>2. /\ rows \in [Ops -> RowStatus]
        /\ \A op \in Ops : rows[op] = "conflict" => db.row[op] = "conflict"
    BY <1>1 DEF Databases, RowStatus, Terminal
  <2> HIDE DEF rows
  <2>3. db'.row = rows
    BY <1>1, <2>1, <2>2, RowsRewritten
  <2> QED
    BY <2>1, <2>2, <2>3 DEF EditsConflict, OnlyEdits, Running
<1>13. CASE UNCHANGED vars
  BY <1>13 DEF vars, EditsConflict, OnlyEdits, Running
<1> QED
  BY <1>3, <1>4, <1>5, <1>6, <1>7, <1>8, <1>9, <1>10, <1>11, <1>12, <1>13 DEF Next

\* All that is known of the engine.
Engine == IInv /\ Effects /\ ToldTruly /\ Batches /\ EditsConflict

LEMMA EngineInit == Init => Engine
<1> SUFFICES ASSUME Init PROVE Engine
  OBVIOUS
<1>1. PICK ps \in SUBSET Projects : db = [EmptyDb EXCEPT !.projects = ps]
  BY DEF Init
<1>2. EditsConflict
  BY <1>1 DEF EditsConflict, OnlyEdits, EmptyDb, Init, Running
<1> QED
  BY <1>2, InitSound, EffectsInit, ToldInit, BatchesInit DEF Engine

LEMMA EngineStep == Engine /\ [Next]_vars => Engine' /\ Follows(db, db') /\ Grows
BY StepSound, EffectsStep, ToldStep, BatchesStep, EditsConflictStep, StreamsGrow DEF Engine

-----------------------------------------------------------------------------
(* The invariant of the flush.                                             *)

\* The slots of a frame were issued by the node, and are operations that belong to no
\* batch or a whole batch.
WellCut(n, slots) ==
    /\ slots # {}
    /\ \A s \in slots : content[<<n, s>>] \in Contents
    /\ \/ \A s \in slots : ~content[<<n, s>>].batched
       \/ \E s \in slots : /\ content[<<n, s>>].batched
                           /\ slots = content[<<n, s>>].first .. content[<<n, s>>].last

\* A verdict among the results of a frame is one the engine has told.
Truthful(n, reply) == \A s \in Slots : reply[s] \in Verdicts => reply[s] \in told[<<n, s>>]

SoundFrame(f) ==
    /\ WellCut(f.node, f.slots)
    /\ f.to # NoClient => f.node = Node(f.to)

SoundServed ==
    served # NoFrame => SoundFrame(served) /\ Truthful(served.node, served.reply)

\* A batch in progress is the frame being served, and is still to be answered.
TxnIsServed ==
    txn # NoTxn =>
        /\ served # NoFrame
        /\ ServingBatch
        /\ Unanswered # {}
        /\ txn.node = served.node
        /\ txn.first .. txn.last = served.slots

SoundClient(c) ==
    /\ \A s \in client[c].listed \cup client[c].flight : queue[<<Node(c), s>>] # "none"
    /\ client[c].phase = "marking" => client[c].listed \cup client[c].flight # {}
    /\ Truthful(Node(c), client[c].reply)

\* A row of the queue was issued, and a settled one has been told its verdict.
SoundQueue ==
    \A op \in Ops :
        /\ queue[op] # "none" => content[op] \in Contents
        /\ queue[op] = "acked" => "applied" \in told[op]
        /\ queue[op] = "conflict" => "conflict" \in told[op]
        /\ queue[op] = "rejected" => "rejected" \in told[op]

FlushTypes ==
    /\ queue \in [Ops -> QueueStatus]
    /\ client \in [Clients -> Flushes]
    /\ wire \subseteq Frames
    /\ served \in Servings \cup {NoFrame}
    /\ failures \in 0 .. MaxFailures

FlushSound ==
    /\ FlushTypes
    /\ \A f \in wire : SoundFrame(f)
    /\ SoundServed
    /\ TxnIsServed
    /\ \A c \in Clients : SoundClient(c)
    /\ SoundQueue

-----------------------------------------------------------------------------
(* The server does what the engine may do.                                 *)

\* The frame being served.
LEMMA ServedParts ==
    ASSUME Engine, FlushSound, served # NoFrame
    PROVE  /\ served \in Servings /\ served.node \in Nodes /\ served.slots \subseteq Slots
           /\ \A s \in served.slots : /\ <<served.node, s>> \in Ops
                                      /\ content[<<served.node, s>>] \in Contents
                                      /\ ServingBatch <=> content[<<served.node, s>>].batched
           /\ ServingBatch => \A s \in served.slots :
                 /\ content[<<served.node, s>>].first .. content[<<served.node, s>>].last
                       = served.slots
                 /\ Unit(<<served.node, s>>) = {<<served.node, t>> : t \in served.slots}
           /\ Unanswered # {} =>
                 /\ Min(Unanswered) \in served.slots /\ Min(Unanswered) \in Slots
                 /\ ServedOp \in Ops
<1>1. /\ served \in Servings /\ served.node \in Nodes /\ served.slots \subseteq Slots
      /\ WellCut(served.node, served.slots)
  BY DEF FlushSound, FlushTypes, Servings, SoundServed, SoundFrame
<1>2. \A s \in served.slots : /\ <<served.node, s>> \in Ops
                              /\ content[<<served.node, s>>] \in Contents
  BY <1>1 DEF WellCut, Ops
<1>3. Min(served.slots) \in served.slots
  BY <1>1, MinSlot DEF WellCut
<1>4. \A s \in served.slots : Origin(<<served.node, s>>) = served.node
  BY DEF Origin
<1>5. CASE \A s \in served.slots : ~content[<<served.node, s>>].batched
  <2>1. \A s \in served.slots : ServingBatch <=> content[<<served.node, s>>].batched
    BY <1>2, <1>3, <1>5 DEF ServingBatch, Contents
  <2>2. ~ServingBatch
    BY <1>3, <1>5 DEF ServingBatch
  <2>3. Unanswered # {} => /\ Min(Unanswered) \in served.slots /\ Min(Unanswered) \in Slots
                           /\ ServedOp \in Ops
    BY <1>1, <1>2, MinSlot DEF Unanswered, ServedOp
  <2> QED
    BY <1>1, <1>2, <2>1, <2>2, <2>3
<1>6. ASSUME NEW s \in served.slots, content[<<served.node, s>>].batched,
             served.slots = content[<<served.node, s>>].first
                               .. content[<<served.node, s>>].last
      PROVE  \A t \in served.slots :
                /\ content[<<served.node, t>>].batched
                /\ content[<<served.node, t>>].first = content[<<served.node, s>>].first
                /\ content[<<served.node, t>>].last = content[<<served.node, s>>].last
  <2>1. UnitsAgree /\ <<served.node, s>> \in Ops /\ content[<<served.node, s>>] \in Contents
    BY <1>2, <1>6 DEF Engine, Batches
  <2>2. \A t \in served.slots : <<served.node, t>> \in Unit(<<served.node, s>>)
    BY <1>4, <1>6 DEF Unit, BatchOps
  <2> QED
    BY <1>6, <2>1, <2>2 DEF UnitsAgree
<1>7. ASSUME NEW s \in served.slots, content[<<served.node, s>>].batched,
             served.slots = content[<<served.node, s>>].first
                               .. content[<<served.node, s>>].last
      PROVE  /\ \A t \in served.slots : ServingBatch <=> content[<<served.node, t>>].batched
             /\ \A t \in served.slots :
                   /\ content[<<served.node, t>>].first .. content[<<served.node, t>>].last
                         = served.slots
                   /\ Unit(<<served.node, t>>) = {<<served.node, u>> : u \in served.slots}
  <2>1. \A t \in served.slots :
           /\ content[<<served.node, t>>].batched
           /\ content[<<served.node, t>>].first .. content[<<served.node, t>>].last
                 = served.slots
    BY <1>6, <1>7
  <2>2. \A t \in served.slots :
           Unit(<<served.node, t>>) = {<<served.node, u>> : u \in served.slots}
    BY <1>4, <2>1 DEF Unit, BatchOps
  <2>3. ServingBatch
    BY <1>3, <2>1 DEF ServingBatch
  <2> QED
    BY <2>1, <2>2, <2>3
<1>8. Unanswered # {} => /\ Min(Unanswered) \in served.slots /\ Min(Unanswered) \in Slots
                         /\ ServedOp \in Ops
  BY <1>1, <1>2, MinSlot DEF Unanswered, ServedOp
<1> QED
  BY <1>1, <1>2, <1>5, <1>7, <1>8 DEF WellCut

\* One operation of a frame is decided by applyOperation.
LEMMA ServesOperation ==
    ASSUME Engine, FlushSound, ServeOperation
    PROVE  /\ txn = NoTxn /\ ServedOp \in Ops /\ content[ServedOp] \in Contents
           /\ ApplyOperation(ServedOp)
<1>1. /\ served # NoFrame /\ ~ServingBatch /\ Unanswered # {}
      /\ \E r \in Outcomes(db, ServedOp) : Decide(ServedOp, r)
      /\ UNCHANGED <<nextSequence, content, txn>>
  BY DEF ServeOperation
<1>2. txn = NoTxn
  BY <1>1 DEF FlushSound, TxnIsServed
<1>3. ServedOp \in Ops /\ content[ServedOp] \in Contents /\ ~content[ServedOp].batched
  BY <1>1, ServedParts DEF ServedOp
<1> QED
  BY <1>1, <1>2, <1>3, NoContentAssumption DEF ApplyOperation

LEMMA EngineServes ==
    ASSUME Engine, FlushSound, [FlushNext]_allVars
    PROVE  [Next]_vars
<1>1. ASSUME NEW n \in Nodes, Enqueue(n) PROVE Next
  BY <1>1 DEF Enqueue, Next
<1>2. ASSUME NEW c \in Clients,
             \/ Connect(c) \/ ListPending(c) \/ MarkSending(c) \/ SendFirst(c)
             \/ HandleResults(c) \/ FailFlush(c) \/ Disconnect(c) \/ CrashClient(c)
      PROVE  UNCHANGED vars
  BY <1>2 DEF Connect, ListPending, MarkSending, SendFirst, HandleResults, FailFlush,
     Disconnect, CrashClient
<1>3. CASE ReadFrame \/ TransientError \/ Answer
  BY <1>3 DEF ReadFrame, TransientError, Answer
<1>4. CASE ServeOperation
  BY <1>4, ServesOperation DEF Next
<1>5. CASE ServeBatch
  <2>1. ServedOp \in Ops
    BY <1>5, ServedParts DEF ServeBatch
  <2> QED
    BY <1>5, <2>1 DEF ServeBatch, Next
<1>6. CASE CrashMain
  BY <1>6 DEF CrashMain, Next, FailBatch, vars
<1>7. CASE ThrowBatch
  BY <1>7 DEF ThrowBatch, Next
<1>8. CASE MainCommand
  BY <1>8 DEF MainCommand, Next
<1>9. CASE UNCHANGED allVars
  BY <1>9 DEF allVars
<1> QED
  BY <1>1, <1>2, <1>3, <1>4, <1>5, <1>6, <1>7, <1>8, <1>9 DEF FlushNext

-----------------------------------------------------------------------------
(* What is sound stays sound while the streams grow.                       *)

LEMMA CutStays ==
    ASSUME Grows, NEW n \in Nodes, NEW slots \in SUBSET Slots, WellCut(n, slots)
    PROVE  WellCut(n, slots)'
<1>1. \A s \in slots : <<n, s>> \in Ops
  BY DEF Ops
<1>2. \A s \in slots : content'[<<n, s>>] = content[<<n, s>>]
  BY <1>1 DEF Grows, WellCut
<1> QED
  BY <1>2 DEF WellCut

LEMMA TruthStays ==
    ASSUME Grows, NEW n \in Nodes, NEW reply, Truthful(n, reply)
    PROVE  Truthful(n, reply)'
BY DEF Truthful, Grows, Ops

LEMMA FramesStay ==
    ASSUME Grows, NEW f, f.node \in Nodes, f.slots \subseteq Slots, SoundFrame(f)
    PROVE  SoundFrame(f)'
<1>1. WellCut(f.node, f.slots)'
  BY CutStays DEF SoundFrame
<1> QED
  BY <1>1 DEF SoundFrame, WellCut, Node

LEMMA NothingSaid ==
    ASSUME NEW n
    PROVE  NoReply \in Replies /\ Truthful(n, NoReply)
BY DEF NoReply, Replies, Truthful, Verdicts

LEMMA NodeOfClient ==
    ASSUME NEW c \in Clients
    PROVE  Node(c) \in Nodes /\ \A s \in Slots : <<Node(c), s>> \in Ops
BY DEF Clients, Node, Ops

LEMMA IdleIsSound ==
    ASSUME NEW connected \in BOOLEAN
    PROVE  /\ Idle(connected) \in Flushes
           /\ Idle(connected).listed = {} /\ Idle(connected).flight = {}
           /\ Idle(connected).phase = "idle" /\ Idle(connected).reply = NoReply
           /\ Idle(connected).connected = connected
BY NothingSaid DEF Idle, Flushes

-----------------------------------------------------------------------------
(* Steps of a client.                                                      *)

\* A client moves, and the server does not.
LEMMA ClientStep ==
    ASSUME Engine, FlushSound, UNCHANGED <<vars, served, failures>>,
           NEW c \in Clients, NEW x \in Flushes, client' = [client EXCEPT ![c] = x],
           queue' \in [Ops -> QueueStatus], SoundQueue',
           \A op \in Ops : queue[op] # "none" => queue'[op] # "none",
           \A f \in wire' : f \in Frames /\ SoundFrame(f),
           \A s \in x.listed \cup x.flight : queue'[<<Node(c), s>>] # "none",
           x.phase = "marking" => x.listed \cup x.flight # {},
           Truthful(Node(c), x.reply)
    PROVE  FlushSound'
<1>1. UNCHANGED <<content, told, txn, served, failures>>
  BY DEF vars
<1>2. FlushTypes'
  BY <1>1 DEF FlushSound, FlushTypes
<1>3. \A f \in wire' : SoundFrame(f)'
  BY <1>1 DEF SoundFrame, WellCut, Node
<1>4. SoundServed'
  BY <1>1 DEF FlushSound, SoundServed, SoundFrame, WellCut, Truthful, Node
<1>5. TxnIsServed'
  BY <1>1 DEF FlushSound, TxnIsServed, ServingBatch, Unanswered
<1>6. ASSUME NEW k \in Clients PROVE SoundClient(k)'
  <2>1. client[k] \in Flushes /\ SoundClient(k) /\ client \in [Clients -> Flushes]
    BY DEF FlushSound, FlushTypes
  <2>2. CASE k = c
    <3>1. client'[k] = x
      BY <2>1, <2>2
    <3> QED
      BY <1>1, <2>2, <3>1 DEF SoundClient, Truthful, Node
  <2>3. CASE k # c
    <3>1. client'[k] = client[k]
      BY <2>1, <2>3
    <3>2. client[k].listed \cup client[k].flight \subseteq Slots
      BY <2>1 DEF Flushes
    <3>3. \A s \in client'[k].listed \cup client'[k].flight :
             queue'[<<Node(k), s>>] # "none"
      BY <2>1, <3>1, <3>2, NodeOfClient DEF SoundClient
    <3> QED
      BY <1>1, <2>1, <3>1, <3>3 DEF SoundClient, Truthful, Node
  <2> QED
    BY <2>2, <2>3
<1> QED
  BY <1>2, <1>3, <1>4, <1>5, <1>6 DEF FlushSound

\* A row is moved, and not to a settlement.
LEMMA RowsMove ==
    ASSUME FlushSound, UNCHANGED vars, queue' \in [Ops -> QueueStatus],
           \A op \in Ops : queue'[op] # queue[op] =>
              queue[op] # "none" /\ queue'[op] # "none" /\ queue'[op] \notin Settlements
    PROVE  /\ SoundQueue'
           /\ \A op \in Ops : queue[op] # "none" => queue'[op] # "none"
<1>1. UNCHANGED <<content, told>>
  BY DEF vars
<1> QED
  BY <1>1 DEF FlushSound, SoundQueue, Settlements

\* The first frame of the rows in flight is well cut.
LEMMA FirstIsWellCut ==
    ASSUME Engine, NEW c \in Clients, NEW flight \in SUBSET Slots, flight # {},
           \A s \in flight : content[<<Node(c), s>>] \in Contents
    PROVE  /\ FirstFrame(Node(c), flight) \subseteq Slots
           /\ WellCut(Node(c), FirstFrame(Node(c), flight))
<1> DEFINE n == Node(c)
           first == Min(flight)
           head == content[<<n, first>>]
<1>1. n \in Nodes /\ \A s \in Slots : <<n, s>> \in Ops
  BY NodeOfClient
<1>2. first \in flight /\ \A s \in flight : first <= s
  BY MinSlot
<1>3. TypeOK /\ UnitsIssued /\ UnitsAgree
  BY DEF Engine, IInv, Batches
<1>4. <<n, first>> \in Ops /\ head \in Contents /\ first \in Slots
  BY <1>1, <1>2
<1>5. Origin(<<n, first>>) = n /\ LocalSequence(<<n, first>>) = first
  BY DEF Origin, LocalSequence
<1> HIDE DEF n, first
<1>6. CASE head.batched
  <2>1. FirstFrame(n, flight) = head.first .. head.last
    BY <1>6 DEF FirstFrame, first
  <2>2. head.first <= first /\ first <= head.last
    BY <1>3, <1>4, <1>5 DEF UnitsAgree
  <2>3. head.first \in Nat /\ head.last \in Nat /\ first \in Nat /\ head.last < MaxOps
    BY <1>4, BoundsAssumption DEF Contents, Slots
  <2>4. first \in FirstFrame(n, flight) /\ FirstFrame(n, flight) \subseteq Slots
    BY <2>1, <2>2, <2>3, BoundsAssumption DEF Slots
  <2>5. \A s \in FirstFrame(n, flight) : content[<<n, s>>] \in Contents
    BY <1>3, <1>4, <1>5, <2>1 DEF UnitsIssued, BatchOps
  <2>6. WellCut(n, FirstFrame(n, flight))
    BY <1>6, <2>1, <2>4, <2>5 DEF WellCut
  <2> QED
    BY <2>4, <2>6 DEF n
<1>7. CASE ~head.batched
  <2>1. FirstFrame(n, flight) =
           {s \in flight : \A t \in flight : t <= s => ~content[<<n, t>>].batched}
    BY <1>7 DEF FirstFrame, first
  <2>2. flight \subseteq Nat
    BY BoundsAssumption DEF Slots
  <2>3. \A t \in flight : t <= first => t = first
    BY <1>2, <2>2
  <2>4. first \in FirstFrame(n, flight)
    BY <1>2, <1>7, <2>1, <2>3
  <2>5. ASSUME NEW s \in FirstFrame(n, flight)
        PROVE  s \in flight /\ ~content[<<n, s>>].batched
    <3>1. s \in flight /\ \A t \in flight : t <= s => ~content[<<n, t>>].batched
      BY <2>1, <2>5
    <3>2. s <= s
      BY <2>2, <3>1
    <3> QED
      BY <3>1, <3>2
  <2>6. WellCut(n, FirstFrame(n, flight))
    BY <2>4, <2>5 DEF WellCut, n
  <2> QED
    BY <2>1, <2>6 DEF n
<1> QED
  BY <1>6, <1>7

\* A frame that is sent is sound.
LEMMA SendSound ==
    ASSUME Engine, FlushSound, NEW c \in Clients, NEW flight \in SUBSET Slots, flight # {},
           \A s \in flight : queue[<<Node(c), s>>] # "none", Send(c, flight)
    PROVE  \A f \in wire' : f \in Frames /\ SoundFrame(f)
<1> DEFINE slots == FirstFrame(Node(c), flight)
           frame == [to |-> c, node |-> Node(c), slots |-> slots]
<1>1. \A s \in flight : content[<<Node(c), s>>] \in Contents
  BY NodeOfClient DEF FlushSound, SoundQueue
<1>2. slots \subseteq Slots /\ WellCut(Node(c), slots)
  BY <1>1, FirstIsWellCut
<1>3. wire' = wire \cup {frame}
  BY DEF Send
<1> HIDE DEF slots
<1>4. frame \in Frames /\ SoundFrame(frame)
  BY <1>2, NodeOfClient DEF Frames, SoundFrame
<1> QED
  BY <1>3, <1>4 DEF FlushSound, FlushTypes

LEMMA ConnectSound ==
    ASSUME Engine, FlushSound, NEW c \in Clients, Connect(c)
    PROVE  FlushSound'
<1> DEFINE x == [client[c] EXCEPT !.connected = TRUE]
<1>1. /\ client[c] = Idle(FALSE)
      /\ client' = [client EXCEPT ![c] = x]
      /\ queue' = ResetSending(Node(c))
      /\ UNCHANGED <<vars, wire, served, failures>>
  BY DEF Connect
<1>2. x \in Flushes /\ x.listed = {} /\ x.flight = {} /\ x.phase = "idle" /\ x.reply = NoReply
  BY <1>1, IdleIsSound DEF Flushes
<1> HIDE DEF x
<1>3. queue' \in [Ops -> QueueStatus] /\ SoundQueue'
      /\ \A op \in Ops : queue[op] # "none" => queue'[op] # "none"
  <2>1. queue \in [Ops -> QueueStatus]
    BY DEF FlushSound, FlushTypes
  <2>2. queue' \in [Ops -> QueueStatus]
    BY <1>1, <2>1 DEF ResetSending, QueueStatus
  <2>3. \A op \in Ops : queue'[op] # queue[op] =>
           queue[op] # "none" /\ queue'[op] = "failed_retryable"
    BY <1>1 DEF ResetSending
  <2> QED
    BY <1>1, <2>2, <2>3, RowsMove DEF Settlements
<1>4. \A f \in wire' : f \in Frames /\ SoundFrame(f)
  BY <1>1 DEF FlushSound, FlushTypes
<1>5. Truthful(Node(c), x.reply)
  BY <1>2, NothingSaid
<1> QED
  BY <1>1, <1>2, <1>3, <1>4, <1>5, ClientStep

LEMMA ListPendingSound ==
    ASSUME Engine, FlushSound, NEW c \in Clients, ListPending(c)
    PROVE  FlushSound'
<1> DEFINE pending == {s \in Slots : queue'[<<Node(c), s>>] \in Flushable}
           x == [client[c] EXCEPT !.phase = "marking", !.listed = pending]
<1>1. /\ client[c] = Idle(TRUE)
      /\ queue' = queue \/ queue' = ResetSending(Node(c))
      /\ pending # {}
      /\ client' = [client EXCEPT ![c] = x]
      /\ UNCHANGED <<vars, wire, served, failures>>
  BY DEF ListPending
<1>2. pending \subseteq Slots /\ \A s \in pending : queue'[<<Node(c), s>>] # "none"
  BY DEF Flushable
<1> HIDE DEF pending
<1>3. /\ x \in Flushes /\ x.listed = pending /\ x.flight = {} /\ x.reply = NoReply
  BY <1>1, <1>2, IdleIsSound DEF Flushes
<1> HIDE DEF x
<1>4. queue' \in [Ops -> QueueStatus] /\ SoundQueue'
      /\ \A op \in Ops : queue[op] # "none" => queue'[op] # "none"
  <2>1. queue \in [Ops -> QueueStatus]
    BY DEF FlushSound, FlushTypes
  <2>2. queue' \in [Ops -> QueueStatus]
    BY <1>1, <2>1 DEF ResetSending, QueueStatus
  <2>3. \A op \in Ops : queue'[op] # queue[op] =>
           queue[op] # "none" /\ queue'[op] = "failed_retryable"
    BY <1>1 DEF ResetSending
  <2> QED
    BY <1>1, <2>2, <2>3, RowsMove DEF Settlements
<1>5. \A f \in wire' : f \in Frames /\ SoundFrame(f)
  BY <1>1 DEF FlushSound, FlushTypes
<1>6. Truthful(Node(c), x.reply)
  BY <1>3, NothingSaid
<1> QED
  BY <1>1, <1>2, <1>3, <1>4, <1>5, <1>6, ClientStep

\* What a client holds.
LEMMA ClientParts ==
    ASSUME FlushSound, NEW c \in Clients
    PROVE  /\ client[c] \in Flushes /\ client[c].reply \in Replies
           /\ client[c].listed \subseteq Slots /\ client[c].flight \subseteq Slots
           /\ \A s \in client[c].listed \cup client[c].flight :
                 queue[<<Node(c), s>>] # "none"
           /\ client[c].phase = "marking" => client[c].listed \cup client[c].flight # {}
           /\ Truthful(Node(c), client[c].reply)
BY DEF FlushSound, FlushTypes, SoundClient, Flushes

LEMMA MarkSendingSound ==
    ASSUME Engine, FlushSound, NEW c \in Clients, MarkSending(c)
    PROVE  FlushSound'
<1> DEFINE s  == Min(client[c].listed)
           op == <<Node(c), s>>
<1>1. /\ client[c].phase = "marking" /\ client[c].listed # {}
      /\ UNCHANGED <<vars, wire, served, failures>>
  BY DEF MarkSending
<1>2. s \in client[c].listed /\ s \in Slots /\ op \in Ops /\ queue[op] # "none"
  <2>1. s \in client[c].listed /\ s \in Slots
    BY <1>1, ClientParts, MinSlot
  <2> HIDE DEF s
  <2> QED
    BY <2>1, ClientParts, NodeOfClient
<1>3. queue \in [Ops -> QueueStatus] /\ \A f \in wire' : f \in Frames /\ SoundFrame(f)
  BY <1>1 DEF FlushSound, FlushTypes
<1>4. CASE queue[op] \in Flushable
  <2> DEFINE x == [client[c] EXCEPT !.listed = @ \ {s}, !.flight = @ \cup {s}]
  <2>1. /\ queue' = [queue EXCEPT ![op] = "sending"]
        /\ client' = [client EXCEPT ![c] = x]
    BY <1>4 DEF MarkSending
  <2> HIDE DEF s, op
  <2>2. /\ x \in Flushes /\ x.listed = client[c].listed \ {s}
        /\ x.flight = client[c].flight \cup {s} /\ x.reply = client[c].reply
        /\ x.phase = client[c].phase
    BY <1>2, ClientParts DEF Flushes
  <2> HIDE DEF x
  <2>3. /\ queue' \in [Ops -> QueueStatus]
        /\ \A o \in Ops : queue'[o] # queue[o] => o = op /\ queue'[o] = "sending"
    BY <1>2, <1>3, <2>1 DEF QueueStatus
  <2>4. SoundQueue' /\ \A o \in Ops : queue[o] # "none" => queue'[o] # "none"
    BY <1>1, <1>2, <2>3, RowsMove DEF Settlements
  <2>5. \A t \in x.listed \cup x.flight : queue'[<<Node(c), t>>] # "none"
    BY <1>2, <2>2, <2>4, ClientParts, NodeOfClient DEF op
  <2>6. x.listed \cup x.flight # {} /\ Truthful(Node(c), x.reply)
    BY <2>2, ClientParts
  <2> QED
    BY <1>1, <1>3, <2>1, <2>2, <2>3, <2>4, <2>5, <2>6, ClientStep
<1>5. CASE queue[op] \notin Flushable
  <2> DEFINE x == [client[c] EXCEPT !.listed = {}, !.phase = "failing"]
  <2>1. queue' = queue /\ client' = [client EXCEPT ![c] = x]
    BY <1>5 DEF MarkSending
  <2>2. /\ x \in Flushes /\ x.listed = {} /\ x.flight = client[c].flight
        /\ x.reply = client[c].reply /\ x.phase = "failing"
    BY ClientParts DEF Flushes
  <2> HIDE DEF x, s, op
  <2>3. SoundQueue'
    BY <1>1, <1>3, <2>1, RowsMove
  <2>4. \A t \in x.listed \cup x.flight : queue'[<<Node(c), t>>] # "none"
    BY <2>1, <2>2, ClientParts
  <2>5. Truthful(Node(c), x.reply)
    BY <2>2, ClientParts
  <2> QED
    BY <1>1, <1>3, <2>1, <2>2, <2>3, <2>4, <2>5, ClientStep
<1> QED
  BY <1>4, <1>5

LEMMA SendFirstSound ==
    ASSUME Engine, FlushSound, NEW c \in Clients, SendFirst(c)
    PROVE  FlushSound'
<1> DEFINE flight == client[c].flight
<1>1. /\ client[c].phase = "marking" /\ client[c].listed = {}
      /\ UNCHANGED <<vars, queue, served, failures>>
      /\ queue' \in [Ops -> QueueStatus]
      /\ \A f \in wire : f \in Frames /\ SoundFrame(f)
  BY DEF SendFirst, FlushSound, FlushTypes
<1>2. flight # {} /\ flight \subseteq Slots
  BY <1>1, ClientParts
<1>3. SoundQueue'
  BY <1>1, RowsMove
<1>4. ASSUME NEW phase \in {"sent", "failing"},
             client' = [client EXCEPT ![c].phase = phase],
             \A f \in wire' : f \in Frames /\ SoundFrame(f)
      PROVE  FlushSound'
  <2> DEFINE x == [client[c] EXCEPT !.phase = phase]
  <2>1. client' = [client EXCEPT ![c] = x]
    BY <1>4
  <2>2. /\ x \in Flushes /\ x.listed = {} /\ x.flight = client[c].flight
        /\ x.reply = client[c].reply /\ x.phase # "marking"
    BY <1>1, ClientParts DEF Flushes
  <2> HIDE DEF x
  <2>3. \A t \in x.listed \cup x.flight : queue'[<<Node(c), t>>] # "none"
    BY <1>1, <2>2, ClientParts
  <2>4. Truthful(Node(c), x.reply)
    BY <2>2, ClientParts
  <2> QED
    BY <1>1, <1>3, <1>4, <2>1, <2>2, <2>3, <2>4, ClientStep
<1>5. CASE client[c].connected /\ CompleteBatches(Node(c), flight)
  <2>1. client' = [client EXCEPT ![c].phase = "sent"] /\ Send(c, flight)
    BY <1>5 DEF SendFirst
  <2>2. \A s \in flight : queue[<<Node(c), s>>] # "none"
    BY ClientParts
  <2> HIDE DEF flight
  <2>3. \A f \in wire' : f \in Frames /\ SoundFrame(f)
    BY <1>2, <2>1, <2>2, SendSound
  <2> QED
    BY <1>4, <2>1, <2>3
<1>6. CASE ~(client[c].connected /\ CompleteBatches(Node(c), flight))
  <2>1. client' = [client EXCEPT ![c].phase = "failing"] /\ wire' = wire
    BY <1>6 DEF SendFirst
  <2> QED
    BY <1>1, <1>4, <2>1
<1> QED
  BY <1>5, <1>6

\* What a legal transition makes of a row.
LEMMA LegalTransitions ==
    ASSUME NEW row \in QueueStatus, NEW result \in ResultStatus \cup {"none"},
           LegalTransition(row, result)
    PROVE  LET next == Transition(row, result)
           IN  /\ next \in QueueStatus
               /\ next # row =>
                     /\ row # "none" /\ row \notin Settlements /\ next # "none"
                     /\ \/ next = "acked" /\ result = "applied"
                        \/ next = result /\ result \in {"conflict", "rejected"}
                        \/ next = "failed_retryable"
<1>1. CASE result = "none" \/ row \in Settlements
  BY <1>1 DEF Transition
<1>2. CASE ~(result = "none" \/ row \in Settlements)
  <2>1. row \in {"sending", "failed_retryable"}
    BY <1>2 DEF LegalTransition
  <2>2. \/ result = "applied" /\ Transition(row, result) = "acked"
        \/ result \in {"conflict", "rejected"} /\ Transition(row, result) = result
        \/ Transition(row, result) = "failed_retryable"
    BY <1>2 DEF Transition
  <2> QED
    BY <1>2, <2>1, <2>2 DEF QueueStatus, Settlements
<1> QED
  BY <1>1, <1>2

\* The rows the results of a client have moved.
Handled(c) ==
    [op \in Ops |-> IF Origin(op) = Node(c)
                      THEN Transition(queue[op], client[c].reply[LocalSequence(op)])
                      ELSE queue[op]]

LEMMA HandledRows ==
    ASSUME FlushSound, NEW c \in Clients, UNCHANGED vars, queue' = Handled(c),
           \A s \in Slots : LegalTransition(queue[<<Node(c), s>>], client[c].reply[s])
    PROVE  /\ queue' \in [Ops -> QueueStatus] /\ SoundQueue'
           /\ \A op \in Ops : queue[op] # "none" => queue'[op] # "none"
           /\ \A op \in Ops : queue[op] \in Settlements => queue'[op] = queue[op]
<1>1. queue \in [Ops -> QueueStatus] /\ client[c].reply \in Replies
      /\ Truthful(Node(c), client[c].reply) /\ UNCHANGED <<content, told>>
  BY ClientParts DEF FlushSound, FlushTypes, vars
<1>2. ASSUME NEW op \in Ops
      PROVE  /\ queue'[op] \in QueueStatus
             /\ queue'[op] # queue[op] =>
                   /\ queue[op] # "none" /\ queue[op] \notin Settlements
                   /\ queue'[op] # "none"
                   /\ \/ queue'[op] = "acked" /\ "applied" \in told[op]
                      \/ /\ queue'[op] \in {"conflict", "rejected"}
                         /\ queue'[op] \in told[op]
                      \/ queue'[op] = "failed_retryable"
  <2>1. CASE Origin(op) = Node(c)
    <3> DEFINE s == LocalSequence(op)
               result == client[c].reply[s]
    <3>1. s \in Slots /\ op = <<Node(c), s>>
      BY <2>1, OpParts
    <3>2. result \in ResultStatus \cup {"none"} /\ LegalTransition(queue[op], result)
          /\ (result \in Verdicts => result \in told[op])
      BY <1>1, <3>1 DEF Replies, Truthful
    <3>3. queue'[op] = Transition(queue[op], result) /\ queue[op] \in QueueStatus
      BY <1>1, <2>1 DEF Handled
    <3> HIDE DEF s, result
    <3>4. /\ queue'[op] \in QueueStatus
          /\ queue'[op] # queue[op] =>
                /\ queue[op] # "none" /\ queue[op] \notin Settlements /\ queue'[op] # "none"
                /\ \/ queue'[op] = "acked" /\ result = "applied"
                   \/ queue'[op] = result /\ result \in {"conflict", "rejected"}
                   \/ queue'[op] = "failed_retryable"
      BY <3>2, <3>3, LegalTransitions
    <3> QED
      BY <3>2, <3>4 DEF Verdicts
  <2>2. CASE Origin(op) # Node(c)
    BY <1>1, <2>2 DEF Handled
  <2> QED
    BY <2>1, <2>2
<1>3. queue' \in [Ops -> QueueStatus]
  <2>1. queue' = [op \in Ops |-> queue'[op]]
    BY DEF Handled
  <2> QED
    BY <1>2, <2>1
<1>4. SoundQueue'
  BY <1>1, <1>2 DEF FlushSound, SoundQueue
<1> QED
  BY <1>2, <1>3, <1>4

LEMMA HandleResultsSound ==
    ASSUME Engine, FlushSound, NEW c \in Clients, HandleResults(c)
    PROVE  FlushSound'
<1> DEFINE reply == client[c].reply
           rest == {s \in client[c].flight : reply[s] = "none"}
<1>1. /\ client[c].phase = "answered"
      /\ UNCHANGED <<vars, served, failures>>
      /\ \A f \in wire : f \in Frames /\ SoundFrame(f)
      /\ queue \in [Ops -> QueueStatus]
      /\ rest \subseteq client[c].flight /\ rest \subseteq Slots
  BY ClientParts DEF HandleResults, FlushSound, FlushTypes
<1>2. CASE \A s \in Slots : LegalTransition(queue[<<Node(c), s>>], reply[s])
  <2>1. /\ queue' = Handled(c)
        /\ IF rest = {}
             THEN client' = [client EXCEPT ![c] = Idle(TRUE)] /\ UNCHANGED wire
             ELSE /\ client' = [client EXCEPT ![c].phase = "sent",
                                   ![c].flight = rest, ![c].reply = NoReply]
                  /\ Send(c, rest)
    BY <1>2 DEF HandleResults, Handled
  <2>2. /\ queue' \in [Ops -> QueueStatus] /\ SoundQueue'
        /\ \A op \in Ops : queue[op] # "none" => queue'[op] # "none"
    BY <1>1, <1>2, <2>1, HandledRows
  <2>3. CASE rest = {}
    <3> DEFINE x == Idle(TRUE)
    <3>1. x \in Flushes /\ x.listed \cup x.flight = {} /\ x.phase = "idle"
          /\ Truthful(Node(c), x.reply)
      BY IdleIsSound, NothingSaid
    <3>2. client' = [client EXCEPT ![c] = x] /\ wire' = wire
      BY <2>1, <2>3
    <3> HIDE DEF x, rest
    <3> QED
      BY <1>1, <2>2, <3>1, <3>2, ClientStep
  <2>4. CASE rest # {}
    <3> DEFINE x == [client[c] EXCEPT !.phase = "sent", !.flight = rest, !.reply = NoReply]
    <3>1. client' = [client EXCEPT ![c] = x] /\ Send(c, rest)
      BY <2>1, <2>4
    <3> HIDE DEF rest
    <3>2. /\ x \in Flushes /\ x.listed = client[c].listed /\ x.flight = rest
          /\ x.phase = "sent" /\ Truthful(Node(c), x.reply)
      BY <1>1, ClientParts, NothingSaid DEF Flushes
    <3> HIDE DEF x
    <3>3. \A s \in x.listed \cup x.flight :
             /\ queue[<<Node(c), s>>] # "none"
             /\ queue'[<<Node(c), s>>] # "none"
      BY <1>1, <2>2, <3>2, ClientParts, NodeOfClient
    <3>4. \A f \in wire' : f \in Frames /\ SoundFrame(f)
      BY <1>1, <2>4, <3>1, <3>2, <3>3, SendSound
    <3> QED
      BY <1>1, <2>2, <3>1, <3>2, <3>3, <3>4, ClientStep
  <2> QED
    BY <2>3, <2>4
<1>3. CASE ~ \A s \in Slots : LegalTransition(queue[<<Node(c), s>>], reply[s])
  <2> DEFINE x == [client[c] EXCEPT !.phase = "failing", !.reply = NoReply,
                                    !.connected = ~IsSocket(c)]
  <2>1. client' = [client EXCEPT ![c] = x] /\ UNCHANGED <<queue, wire>>
    BY <1>3 DEF HandleResults
  <2>2. /\ x \in Flushes /\ x.listed = client[c].listed /\ x.flight = client[c].flight
        /\ x.phase = "failing" /\ Truthful(Node(c), x.reply)
    BY ClientParts, NothingSaid DEF Flushes, IsSocket
  <2> HIDE DEF x, rest
  <2>3. SoundQueue'
    BY <1>1, <2>1, RowsMove
  <2>4. \A t \in x.listed \cup x.flight : queue'[<<Node(c), t>>] # "none"
    BY <2>1, <2>2, ClientParts
  <2> QED
    BY <1>1, <2>1, <2>2, <2>3, <2>4, ClientStep
<1> QED
  BY <1>2, <1>3

LEMMA FailFlushSound ==
    ASSUME Engine, FlushSound, NEW c \in Clients, FailFlush(c)
    PROVE  FlushSound'
<1>1. /\ client[c].phase = "failing"
      /\ UNCHANGED <<vars, wire, served, failures>>
      /\ \A f \in wire' : f \in Frames /\ SoundFrame(f)
      /\ queue \in [Ops -> QueueStatus]
  BY DEF FailFlush, FlushSound, FlushTypes
<1>2. CASE client[c].flight = {}
  <2> DEFINE x == Idle(client[c].connected)
  <2>1. client' = [client EXCEPT ![c] = x] /\ UNCHANGED queue
    BY <1>2 DEF FailFlush
  <2>2. client[c].connected \in BOOLEAN
    BY ClientParts DEF Flushes
  <2>3. x \in Flushes /\ x.listed \cup x.flight = {} /\ x.phase = "idle"
        /\ Truthful(Node(c), x.reply)
    BY <2>2, IdleIsSound, NothingSaid
  <2> HIDE DEF x
  <2>4. SoundQueue'
    BY <1>1, <2>1, RowsMove
  <2> QED
    BY <1>1, <2>1, <2>3, <2>4, ClientStep
<1>3. ASSUME NEW flight \in SUBSET client[c].flight,
             client' = [client EXCEPT ![c].flight = flight],
             queue' \in [Ops -> QueueStatus],
             \A op \in Ops : queue'[op] # queue[op] =>
                queue[op] # "none" /\ queue'[op] = "failed_retryable"
      PROVE  FlushSound'
  <2> DEFINE x == [client[c] EXCEPT !.flight = flight]
  <2>1. client' = [client EXCEPT ![c] = x]
    BY <1>3
  <2>2. /\ x \in Flushes /\ x.listed = client[c].listed /\ x.flight = flight
        /\ x.reply = client[c].reply /\ x.phase = "failing"
    BY <1>1, ClientParts DEF Flushes
  <2> HIDE DEF x
  <2>3. SoundQueue' /\ \A op \in Ops : queue[op] # "none" => queue'[op] # "none"
    BY <1>1, <1>3, RowsMove DEF Settlements
  <2>4. \A t \in x.listed \cup x.flight : queue'[<<Node(c), t>>] # "none"
    BY <2>2, <2>3, ClientParts, NodeOfClient
  <2>5. Truthful(Node(c), x.reply)
    BY <2>2, ClientParts
  <2> QED
    BY <1>1, <1>3, <2>1, <2>2, <2>3, <2>4, <2>5, ClientStep
<1>4. CASE client[c].flight # {}
  <2> DEFINE s  == Min(client[c].flight)
             op == <<Node(c), s>>
  <2>1. s \in client[c].flight /\ op \in Ops /\ queue[op] # "none"
    <3>1. s \in client[c].flight
      BY <1>4, ClientParts, MinSlot
    <3> HIDE DEF s
    <3> QED
      BY <3>1, ClientParts, NodeOfClient
  <2>2. CASE queue[op] = "sending"
    <3>1. /\ queue' = [queue EXCEPT ![op] = "failed_retryable"]
          /\ client' = [client EXCEPT ![c].flight = @ \ {s}]
      BY <1>4, <2>2 DEF FailFlush, Settlements
    <3> HIDE DEF s, op
    <3>2. /\ queue' \in [Ops -> QueueStatus]
          /\ \A o \in Ops : queue'[o] # queue[o] => o = op /\ queue'[o] = "failed_retryable"
      BY <1>1, <2>1, <3>1 DEF QueueStatus
    <3>3. client[c].flight \ {s} \in SUBSET client[c].flight
      OBVIOUS
    <3> QED
      BY <1>3, <2>1, <3>1, <3>2, <3>3
  <2>3. CASE queue[op] # "sending"
    <3>1. /\ queue' = queue
          /\ \/ client' = [client EXCEPT ![c].flight = @ \ {s}]
             \/ client' = [client EXCEPT ![c].flight = {}]
      BY <1>4, <2>3 DEF FailFlush
    <3> HIDE DEF s, op
    <3>2. client[c].flight \ {s} \in SUBSET client[c].flight
          /\ {} \in SUBSET client[c].flight
      OBVIOUS
    <3> QED
      BY <1>1, <1>3, <3>1, <3>2
  <2> QED
    BY <2>2, <2>3
<1> QED
  BY <1>2, <1>4

-----------------------------------------------------------------------------
(* Steps of the queue and of the server.                                   *)

\* Rows and clients that do not move stay sound.
LEMMA ClientsStay ==
    ASSUME FlushSound, Grows, UNCHANGED <<queue, client>>
    PROVE  (\A c \in Clients : SoundClient(c)') /\ SoundQueue'
<1>1. ASSUME NEW c \in Clients PROVE SoundClient(c)'
  <2>1. Node(c) \in Nodes /\ client'[c] = client[c] /\ SoundClient(c)
    BY NodeOfClient DEF FlushSound
  <2>2. Truthful(Node(c), client[c].reply)
    BY <2>1 DEF SoundClient
  <2>3. \A s \in Slots : <<Node(c), s>> \in Ops
    BY NodeOfClient
  <2>4. Truthful(Node(c), client[c].reply)'
    BY <2>1, <2>2, <2>3 DEF Truthful, Grows, Node
  <2> QED
    BY <2>1, <2>4 DEF SoundClient, Truthful, Node
<1>2. SoundQueue'
  BY DEF FlushSound, SoundQueue, Grows
<1> QED
  BY <1>1, <1>2

LEMMA WireStays ==
    ASSUME FlushSound, Grows, NEW f \in wire
    PROVE  f \in Frames /\ SoundFrame(f) /\ SoundFrame(f)'
<1>1. f \in Frames /\ SoundFrame(f) /\ f.node \in Nodes /\ f.slots \subseteq Slots
  BY DEF FlushSound, FlushTypes, Frames
<1> QED
  BY <1>1, FramesStay

\* The frame being served, as the streams grow.
LEMMA ServedStays ==
    ASSUME FlushSound, Grows, served # NoFrame
    PROVE  /\ SoundFrame(served) /\ Truthful(served.node, served.reply)
           /\ \A f : f = served => SoundFrame(f)' /\ Truthful(f.node, f.reply)'
           /\ content'[<<served.node, Min(served.slots)>>]
                 = content[<<served.node, Min(served.slots)>>]
<1>1. /\ SoundFrame(served) /\ Truthful(served.node, served.reply)
      /\ served.node \in Nodes /\ served.slots \subseteq Slots
      /\ WellCut(served.node, served.slots)
  BY DEF FlushSound, FlushTypes, Servings, SoundServed, SoundFrame
<1>2. ASSUME NEW f, f = served PROVE SoundFrame(f)' /\ Truthful(f.node, f.reply)'
  <2>1. SoundFrame(f) /\ f.node \in Nodes /\ f.slots \subseteq Slots
        /\ Truthful(f.node, f.reply)
    BY <1>1, <1>2
  <2>2. SoundFrame(f)'
    BY <2>1, FramesStay
  <2> QED
    BY <2>1, <2>2, TruthStays
<1>3. Min(served.slots) \in served.slots
  BY <1>1, MinSlot DEF WellCut
<1>4. <<served.node, Min(served.slots)>> \in Ops
      /\ content[<<served.node, Min(served.slots)>>] \in Contents
  BY <1>1, <1>3 DEF Ops, WellCut
<1> QED
  BY <1>1, <1>2, <1>4 DEF Grows

LEMMA EnqueueSound ==
    ASSUME Engine, FlushSound, NEW n \in Nodes, Enqueue(n)
    PROVE  FlushSound'
<1>1. /\ IssueOperation(n) \/ IssueBatch(n)
      /\ queue' = [op \in Ops |-> IF content[op] # content'[op] THEN "queued" ELSE queue[op]]
      /\ UNCHANGED <<client, wire, served, failures>>
      /\ queue \in [Ops -> QueueStatus]
  BY DEF Enqueue, FlushSound, FlushTypes
<1>2. TypeOK /\ Engine' /\ Grows
  BY <1>1, EngineStep DEF Next, Engine, IInv
<1>3. UNCHANGED <<db, txn, told>>
  BY <1>1, <1>2, IssueForms DEF IssuesUnit
<1>4. \A op \in Ops : content'[op] # content[op] => content'[op] \in Contents
  BY <1>1, <1>2, IssueForms DEF IssuesUnit
<1>5. FlushTypes'
  BY <1>1 DEF FlushSound, FlushTypes, QueueStatus
<1>6. \A f \in wire' : SoundFrame(f)'
  BY <1>1, <1>2, WireStays
<1>7. SoundServed'
  BY <1>1, <1>2, ServedStays DEF SoundServed
<1>8. TxnIsServed'
  <2> SUFFICES ASSUME txn # NoTxn PROVE TxnIsServed'
    BY <1>3 DEF TxnIsServed
  <2>1. TxnIsServed /\ served # NoFrame
    BY DEF FlushSound, TxnIsServed
  <2>2. ServingBatch' = ServingBatch /\ Unanswered' = Unanswered
    BY <1>1, <1>2, <2>1, ServedStays DEF ServingBatch, Unanswered
  <2> QED
    BY <1>1, <1>3, <2>1, <2>2 DEF TxnIsServed
<1>9. \A op \in Ops : queue[op] # "none" => queue'[op] = queue[op]
  BY <1>1, <1>2 DEF FlushSound, SoundQueue, Grows
<1>10. ASSUME NEW c \in Clients PROVE SoundClient(c)'
  <2>1. \A s \in client[c].listed \cup client[c].flight : queue'[<<Node(c), s>>] # "none"
    BY <1>9, ClientParts, NodeOfClient
  <2> QED
    BY <1>1, <1>3, <2>1, ClientParts DEF SoundClient, Truthful, Node
<1>11. SoundQueue'
  BY <1>1, <1>3, <1>4, <1>9 DEF FlushSound, SoundQueue
<1> QED
  BY <1>5, <1>6, <1>7, <1>8, <1>10, <1>11 DEF FlushSound

LEMMA ReadFrameSound ==
    ASSUME FlushSound, ReadFrame
    PROVE  FlushSound'
<1>1. /\ txn = NoTxn /\ UNCHANGED <<vars, queue, client, failures>>
  BY DEF ReadFrame
<1>2. PICK f \in wire :
         /\ served' = [to |-> f.to, node |-> f.node, slots |-> f.slots, reply |-> NoReply]
         /\ wire' = wire \ {f}
  BY DEF ReadFrame
<1>3. Grows /\ UNCHANGED <<content, told, txn>>
  BY <1>1 DEF vars, Grows
<1>4. f \in Frames /\ SoundFrame(f)
  BY <1>3, WireStays
<1>5. FlushTypes'
  BY <1>1, <1>2, <1>4, NothingSaid DEF FlushSound, FlushTypes, Frames, Servings
<1>6. \A g \in wire' : SoundFrame(g)'
  BY <1>2, <1>3, WireStays
<1>7. SoundServed'
  <2>1. SoundFrame(served') /\ Truthful(served'.node, served'.reply)
    BY <1>2, <1>4, NothingSaid DEF SoundFrame
  <2> QED
    BY <1>3, <2>1 DEF SoundServed, SoundFrame, WellCut, Truthful, Node
<1>8. TxnIsServed'
  BY <1>1, <1>3 DEF TxnIsServed
<1> QED
  BY <1>1, <1>3, <1>5, <1>6, <1>7, <1>8, ClientsStay DEF FlushSound

\* The results of the frame being served: it is answered in part, or as a whole.
LEMMA ResultsSound ==
    ASSUME FlushSound, Grows, served # NoFrame, txn' = NoTxn,
           UNCHANGED <<queue, client, wire>>, failures' \in 0 .. MaxFailures,
           NEW reply \in Replies, served' = [served EXCEPT !.reply = reply],
           \A s \in Slots : reply[s] \in Verdicts => reply[s] \in told'[<<served.node, s>>]
    PROVE  FlushSound'
<1>1. /\ served \in Servings /\ SoundFrame(served) /\ \A f : f = served => SoundFrame(f)'
  BY ServedStays DEF FlushSound, FlushTypes
<1>2. /\ served' \in Servings /\ served'.to = served.to /\ served'.node = served.node
      /\ served'.slots = served.slots /\ served'.reply = reply
  BY <1>1 DEF Servings
<1>3. FlushTypes'
  BY <1>2 DEF FlushSound, FlushTypes
<1>4. \A f \in wire' : SoundFrame(f)'
  BY WireStays
<1>5. SoundServed'
  BY <1>1, <1>2 DEF SoundServed, SoundFrame, WellCut, Truthful, Node
<1>6. TxnIsServed'
  BY DEF TxnIsServed
<1> QED
  BY <1>3, <1>4, <1>5, <1>6, ClientsStay DEF FlushSound

\* One operation of a frame is answered.
LEMMA OneResultSound ==
    ASSUME Engine, FlushSound, Grows, served # NoFrame, Unanswered # {}, txn' = NoTxn,
           UNCHANGED <<queue, client, wire>>, failures' \in 0 .. MaxFailures,
           NEW result \in ResultStatus,
           served' = [served EXCEPT !.reply[Min(Unanswered)] = result],
           result \in Verdicts => result \in told'[ServedOp]
    PROVE  FlushSound'
<1> DEFINE s     == Min(Unanswered)
           reply == [served.reply EXCEPT ![s] = result]
<1>1. /\ served \in Servings /\ served.reply \in Replies /\ s \in Slots
      /\ served.node \in Nodes
  BY ServedParts DEF Servings
<1>2. ServedOp = <<served.node, s>> /\ served' = [served EXCEPT !.reply = reply]
  BY DEF ServedOp
<1>3. \A t \in Slots :
         served.reply[t] \in Verdicts => served.reply[t] \in told'[<<served.node, t>>]
  BY <1>1, ServedStays DEF Truthful, Grows, Ops
<1> HIDE DEF s
<1>4. /\ reply \in Replies
      /\ \A t \in Slots : reply[t] = IF t = s THEN result ELSE served.reply[t]
  BY <1>1 DEF Replies
<1> HIDE DEF reply
<1>5. \A t \in Slots : reply[t] \in Verdicts => reply[t] \in told'[<<served.node, t>>]
  BY <1>2, <1>3, <1>4
<1> QED
  BY <1>2, <1>4, <1>5, ResultsSound

LEMMA ServeOperationSound ==
    ASSUME Engine, FlushSound, ServeOperation
    PROVE  FlushSound'
<1>1. /\ served # NoFrame /\ Unanswered # {}
      /\ UNCHANGED <<nextSequence, content, txn, queue, client, wire, failures>>
  BY DEF ServeOperation
<1>2. PICK r \in Outcomes(db, ServedOp) :
         /\ Decide(ServedOp, r)
         /\ served' = [served EXCEPT !.reply[Min(Unanswered)] = ResultOf(r.status)]
  BY DEF ServeOperation
<1>3. txn = NoTxn /\ ServedOp \in Ops /\ content[ServedOp] \in Contents
      /\ ApplyOperation(ServedOp)
  BY ServesOperation
<1>4. Grows
  BY <1>3, EngineStep DEF Next
<1>5. db \in Databases /\ SoundDb(db) /\ told \in [Ops -> SUBSET Verdicts]
  BY DEF Engine, IInv, TypeOK
<1>6. r.status \in Verdicts \cup {"invalid", "deferred"}
  BY <1>3, <1>5, OutcomesSound
<1>7. ResultOf(r.status) \in ResultStatus
  BY <1>6 DEF ResultOf, ResultStatus, Verdicts
<1>8. ResultOf(r.status) \in Verdicts => ResultOf(r.status) \in told'[ServedOp]
  <2>1. told'[ServedOp] = told[ServedOp] \cup Reported(r.status)
    BY <1>2, <1>3, <1>5 DEF Decide
  <2>2. ResultOf(r.status) \in Verdicts => ResultOf(r.status) \in Reported(r.status)
    BY <1>6 DEF ResultOf, Reported, Verdicts
  <2> QED
    BY <2>1, <2>2
<1>9. failures' \in 0 .. MaxFailures
  BY <1>1 DEF FlushSound, FlushTypes
<1> QED
  BY <1>1, <1>2, <1>3, <1>4, <1>7, <1>8, <1>9, OneResultSound

LEMMA TransientErrorSound ==
    ASSUME Engine, FlushSound, TransientError
    PROVE  FlushSound'
<1>1. /\ served # NoFrame /\ ~ServingBatch /\ Unanswered # {}
      /\ served' = [served EXCEPT !.reply[Min(Unanswered)] = "failed_retryable"]
      /\ UNCHANGED <<vars, queue, client, wire>>
  BY DEF TransientError
<1>2. txn' = NoTxn /\ Grows
  BY <1>1 DEF FlushSound, TxnIsServed, Grows, vars
<1>3. failures' \in 0 .. MaxFailures
  BY FlushAssumption DEF TransientError, FlushSound, FlushTypes
<1>4. "failed_retryable" \in ResultStatus /\ "failed_retryable" \notin Verdicts
  BY DEF ResultStatus, Verdicts
<1> QED
  BY <1>1, <1>2, <1>3, <1>4, OneResultSound

\* The operations of a batch are answered together.
LEMMA BatchResultsSound ==
    ASSUME Engine, FlushSound, Grows, served # NoFrame, txn' = NoTxn,
           UNCHANGED <<queue, client, wire, failures>>,
           NEW result, AnswerBatch(result),
           \A s \in served.slots :
              /\ result[<<served.node, s>>] \in ResultStatus
              /\ result[<<served.node, s>>] \in Verdicts =>
                    result[<<served.node, s>>] \in told'[<<served.node, s>>]
    PROVE  FlushSound'
<1> DEFINE reply == [s \in Slots |-> IF s \in served.slots THEN result[<<served.node, s>>]
                                     ELSE "none"]
<1>1. served' = [served EXCEPT !.reply = reply]
  BY DEF AnswerBatch
<1>2. reply \in Replies
  BY DEF Replies
<1>3. \A s \in Slots : reply[s] \in Verdicts => reply[s] \in told'[<<served.node, s>>]
  BY DEF Verdicts
<1>4. failures' \in 0 .. MaxFailures
  BY DEF FlushSound, FlushTypes
<1> HIDE DEF reply
<1> QED
  BY <1>1, <1>2, <1>3, <1>4, ResultsSound

\* The batch goes on.
LEMMA BatchGoesOn ==
    ASSUME FlushSound, UNCHANGED <<content, told, queue, client, wire, served, failures>>,
           TxnIsServed'
    PROVE  FlushSound'
<1>1. Grows
  BY DEF Grows
<1>2. \A f \in wire' : SoundFrame(f)'
  BY <1>1, WireStays
<1>3. SoundServed'
  BY <1>1, ServedStays DEF SoundServed
<1>4. FlushTypes'
  BY DEF FlushSound, FlushTypes
<1> QED
  BY <1>1, <1>2, <1>3, <1>4, ClientsStay DEF FlushSound

LEMMA ServeBatchSound ==
    ASSUME Engine, FlushSound, ServeBatch
    PROVE  FlushSound'
<1>1. /\ served # NoFrame /\ ServingBatch /\ Unanswered # {}
      /\ UNCHANGED <<queue, client, wire, failures>>
  BY DEF ServeBatch
<1>2. [Next]_vars /\ Grows
  <2>1. [FlushNext]_allVars
    BY DEF FlushNext
  <2> QED
    BY <2>1, EngineServes, EngineStep
<1>3. ServedOp \in Ops /\ served.slots \subseteq Slots /\ served.node \in Nodes
      /\ Unit(ServedOp) = {<<served.node, t>> : t \in served.slots}
      /\ \A s \in served.slots : <<served.node, s>> \in Ops
  BY <1>1, ServedParts DEF ServedOp
<1>4. db \in Databases /\ IInv /\ TypeOK /\ told \in [Ops -> SUBSET Verdicts]
  BY DEF Engine, IInv, TypeOK
<1>5. \A status \in Terminal : /\ Recorded(status) \in Verdicts
                                /\ Recorded(status) \in ResultStatus
  BY DEF Terminal, Recorded, Verdicts, ResultStatus
<1>6. txn # NoTxn =>
         /\ BatchOps(txn.node, txn.first, txn.last) = {<<served.node, s>> : s \in served.slots}
         /\ txn.node = served.node /\ txn.first .. txn.last = served.slots
         /\ txn \in Txns
  BY <1>4 DEF FlushSound, TxnIsServed, BatchOps, TypeOK
<1>7. CASE ReplayBatch(ServedOp) /\ AnswerBatch([op \in Ops |-> Recorded(db.row[op])])
  <2> DEFINE result == [op \in Ops |-> Recorded(db.row[op])]
  <2>1. /\ txn' = NoTxn /\ AnswerBatch(result)
        /\ \A o \in Unit(ServedOp) : db.row[o] \in Terminal
        /\ told' = [o \in Ops |->
              IF o \in Unit(ServedOp) THEN told[o] \cup {Recorded(db.row[o])} ELSE told[o]]
    BY <1>7 DEF ReplayBatch, Unit
  <2>2. ASSUME NEW s \in served.slots
        PROVE  /\ result[<<served.node, s>>] \in ResultStatus
               /\ result[<<served.node, s>>] \in told'[<<served.node, s>>]
    <3>1. <<served.node, s>> \in Unit(ServedOp) /\ <<served.node, s>> \in Ops
      BY <1>3
    <3> QED
      BY <1>5, <2>1, <3>1
  <2> HIDE DEF result
  <2> QED
    BY <1>1, <1>2, <2>1, <2>2, BatchResultsSound
<1>8. CASE BeginBatch(ServedOp) /\ UNCHANGED served
  <2>1. /\ UNCHANGED <<content, told>>
        /\ txn'.node = Origin(ServedOp) /\ txn'.first = content[ServedOp].first
        /\ txn'.last = content[ServedOp].last
    BY <1>8 DEF BeginBatch
  <2>2. /\ Origin(ServedOp) = served.node
        /\ content[ServedOp].first .. content[ServedOp].last = served.slots
    BY <1>1, ServedParts DEF ServedOp, Origin
  <2>3. TxnIsServed'
    BY <1>1, <1>8, <2>1, <2>2 DEF TxnIsServed, ServingBatch, Unanswered
  <2> QED
    BY <1>1, <1>8, <2>1, <2>3, BatchGoesOn
<1>9. CASE StepBatch /\ IF txn' = NoTxn THEN AnswerBatch([op \in Ops |-> "deferred"])
                        ELSE UNCHANGED served
  <2>1. /\ UNCHANGED <<content, told>> /\ txn # NoTxn /\ txn \in Txns
    BY <1>4, <1>9, BatchTurn DEF Running
  <2>2. CASE txn' = NoTxn
    <3> DEFINE result == [op \in Ops |-> "deferred"]
    <3>1. AnswerBatch(result)
      BY <1>9, <2>2
    <3>2. "deferred" \in ResultStatus /\ "deferred" \notin Verdicts
      BY DEF ResultStatus, Verdicts
    <3>3. \A s \in served.slots : result[<<served.node, s>>] = "deferred"
      BY <1>3
    <3> HIDE DEF result
    <3> QED
      BY <1>1, <1>2, <2>2, <3>1, <3>2, <3>3, BatchResultsSound
  <2>3. CASE txn' # NoTxn
    <3>1. txn'.node = txn.node /\ txn'.first = txn.first /\ txn'.last = txn.last
      BY <1>9, <2>1, <2>3 DEF StepBatch, Txns
    <3>2. UNCHANGED served
      BY <1>9, <2>3
    <3>3. TxnIsServed'
      BY <1>1, <1>6, <2>1, <3>1, <3>2 DEF TxnIsServed, ServingBatch, Unanswered
    <3> QED
      BY <1>1, <2>1, <3>2, <3>3, BatchGoesOn
  <2> QED
    BY <2>2, <2>3
<1>10. CASE CommitBatch /\ AnswerBatch([op \in Ops |-> Recorded(txn.work.row[op])])
  <2> DEFINE result == [op \in Ops |-> Recorded(txn.work.row[op])]
             batch  == BatchOps(txn.node, txn.first, txn.last)
  <2>1. /\ Running /\ txn # NoTxn /\ txn.next > txn.last /\ txn' = NoTxn
        /\ AnswerBatch(result)
        /\ told' = [o \in Ops |->
              IF o \in batch THEN told[o] \cup {Recorded(txn.work.row[o])} ELSE told[o]]
    BY <1>10 DEF CommitBatch, Running
  <2>2. ASSUME NEW s \in served.slots
        PROVE  /\ result[<<served.node, s>>] \in ResultStatus
               /\ result[<<served.node, s>>] \in told'[<<served.node, s>>]
    <3>1. <<served.node, s>> \in batch /\ <<served.node, s>> \in Ops
      BY <1>3, <1>6, <2>1
    <3>2. /\ txn.first \in Nat /\ txn.last \in Nat /\ txn.next \in Nat
          /\ s \in txn.first .. txn.last
      BY <1>6, <2>1, <2>2, BoundsAssumption DEF Txns, Slots
    <3>3. s \in txn.first .. txn.next - 1
      BY <2>1, <3>2
    <3>4. txn.work.row[<<served.node, s>>] \in Terminal
      BY <1>4, <1>6, <2>1, <3>3 DEF IInv, SoundTxn
    <3> HIDE DEF batch
    <3> QED
      BY <1>5, <2>1, <3>1, <3>4
  <2> HIDE DEF result, batch
  <2> QED
    BY <1>1, <1>2, <2>1, <2>2, BatchResultsSound
<1>11. CASE PersistRejections /\ AnswerBatch([op \in Ops |-> "rejected"])
  <2> DEFINE result == [op \in Ops |-> "rejected"]
             batch  == BatchOps(txn.node, txn.first, txn.last)
  <2>1. /\ txn # NoTxn /\ txn' = NoTxn /\ AnswerBatch(result)
        /\ told' = [o \in Ops |-> IF o \in batch THEN told[o] \cup {"rejected"} ELSE told[o]]
    BY <1>11 DEF PersistRejections
  <2>2. ASSUME NEW s \in served.slots
        PROVE  /\ result[<<served.node, s>>] \in ResultStatus
               /\ result[<<served.node, s>>] \in told'[<<served.node, s>>]
    <3>1. <<served.node, s>> \in batch /\ <<served.node, s>> \in Ops
      BY <1>3, <1>6, <2>1
    <3>2. "rejected" \in ResultStatus
      BY DEF ResultStatus, Verdicts
    <3> HIDE DEF batch
    <3> QED
      BY <2>1, <3>1, <3>2
  <2> HIDE DEF result, batch
  <2> QED
    BY <1>1, <1>2, <2>1, <2>2, BatchResultsSound
<1> QED
  BY <1>7, <1>8, <1>9, <1>10, <1>11 DEF ServeBatch

-----------------------------------------------------------------------------
(* Answers and failures.                                                   *)

\* Client c holds the rows it held, and what it was answered is true.
KeepsRows(c) ==
    /\ client'[c].listed = client[c].listed /\ client'[c].flight = client[c].flight
    /\ client'[c].phase = "marking" => client[c].phase = "marking"
    /\ \/ client'[c].reply = client[c].reply
       \/ client'[c].reply = NoReply
       \/ /\ served # NoFrame /\ served.node = Node(c)
          /\ client'[c].reply = served.reply

\* The main node has done with the frame it was serving.
LEMMA ServerRests ==
    ASSUME FlushSound, Grows, UNCHANGED queue, wire' \subseteq wire,
           served' = NoFrame, txn' = NoTxn, failures' \in 0 .. MaxFailures,
           client' \in [Clients -> Flushes], \A c \in Clients : KeepsRows(c)
    PROVE  FlushSound'
<1>1. FlushTypes' /\ SoundServed' /\ TxnIsServed'
  BY DEF FlushSound, FlushTypes, SoundServed, TxnIsServed
<1>2. \A f \in wire' : SoundFrame(f)'
  BY WireStays
<1>3. SoundQueue'
  BY DEF FlushSound, SoundQueue, Grows
<1>4. ASSUME NEW c \in Clients PROVE SoundClient(c)'
  <2>1. /\ \A s \in client[c].listed \cup client[c].flight : queue[<<Node(c), s>>] # "none"
        /\ client[c].phase = "marking" => client[c].listed \cup client[c].flight # {}
        /\ Truthful(Node(c), client[c].reply)
        /\ \A s \in Slots : <<Node(c), s>> \in Ops
    BY ClientParts, NodeOfClient
  <2>2. KeepsRows(c)
    OBVIOUS
  <2>3. \A s \in Slots : client'[c].reply[s] \in Verdicts =>
           client'[c].reply[s] \in told[<<Node(c), s>>]
    <3>1. CASE client'[c].reply = client[c].reply
      BY <2>1, <3>1 DEF Truthful
    <3>2. CASE client'[c].reply = NoReply
      BY <3>2, NothingSaid DEF Truthful
    <3>3. CASE served # NoFrame /\ served.node = Node(c) /\ client'[c].reply = served.reply
      BY <3>3 DEF FlushSound, SoundServed, Truthful
    <3> QED
      BY <2>2, <3>1, <3>2, <3>3 DEF KeepsRows
  <2>4. \A s \in Slots : client'[c].reply[s] \in Verdicts =>
           client'[c].reply[s] \in told'[<<Node(c), s>>]
    BY <2>1, <2>3 DEF Grows
  <2> QED
    BY <2>1, <2>2, <2>4 DEF KeepsRows, SoundClient, Truthful, Node
<1> QED
  BY <1>1, <1>2, <1>3, <1>4 DEF FlushSound

LEMMA AnswerSound ==
    ASSUME FlushSound, Answer
    PROVE  FlushSound'
<1>1. /\ served # NoFrame /\ Unanswered = {} /\ served' = NoFrame
      /\ UNCHANGED <<vars, queue, wire, failures>>
      /\ client' = IF served.to = NoClient THEN client
                   ELSE [client EXCEPT ![served.to].phase = "answered",
                                       ![served.to].reply = served.reply]
  BY DEF Answer
<1>2. txn' = NoTxn /\ Grows
  BY <1>1 DEF FlushSound, TxnIsServed, Grows, vars
<1>3. served \in Servings /\ client \in [Clients -> Flushes] /\ SoundFrame(served)
      /\ failures' \in 0 .. MaxFailures
  BY <1>1 DEF FlushSound, FlushTypes, SoundServed
<1>4. client' \in [Clients -> Flushes] /\ \A c \in Clients : KeepsRows(c)
  <2>1. CASE served.to = NoClient
    BY <1>1, <1>3, <2>1 DEF KeepsRows
  <2>2. CASE served.to # NoClient
    <3> DEFINE k == served.to
               x == [client[k] EXCEPT !.phase = "answered", !.reply = served.reply]
    <3>1. k \in Clients /\ served.node = Node(k) /\ served.reply \in Replies
      BY <1>3, <2>2 DEF Servings, SoundFrame
    <3>2. client' = [client EXCEPT ![k] = x]
      BY <1>1, <2>2
    <3>3. /\ x \in Flushes /\ x.listed = client[k].listed /\ x.flight = client[k].flight
          /\ x.phase = "answered" /\ x.reply = served.reply
      BY <1>3, <3>1 DEF Flushes
    <3> HIDE DEF k, x
    <3> QED
      BY <1>1, <1>3, <3>1, <3>2, <3>3 DEF KeepsRows
  <2> QED
    BY <2>1, <2>2
<1> QED
  BY <1>1, <1>2, <1>3, <1>4, ServerRests

\* A client whose connection is gone.
LEMMA BrokenClient ==
    ASSUME FlushSound, NEW c \in Clients
    PROVE  /\ Broken(c) \in Flushes /\ Broken(c).reply = NoReply
           /\ Broken(c).listed = client[c].listed /\ Broken(c).flight = client[c].flight
           /\ Broken(c).phase = "marking" => client[c].phase = "marking"
           /\ Broken(c).connected = ~IsSocket(c)
<1>1. client[c] \in Flushes
  BY ClientParts
<1> QED
  BY <1>1, NothingSaid DEF Broken, Flushes, IsSocket

\* A client leaves, and its frames are left to themselves.
LEMMA LeaveSound ==
    ASSUME FlushSound, UNCHANGED <<vars, queue>>, failures' \in 0 .. MaxFailures,
           NEW c \in Clients, NEW x \in Flushes, client' = [client EXCEPT ![c] = x],
           Abandon(c), x.listed \subseteq client[c].listed,
           x.flight \subseteq client[c].flight, x.reply = NoReply,
           x.phase = "marking" => x.listed \cup x.flight # {}
    PROVE  FlushSound'
<1>1. UNCHANGED <<content, told, txn>> /\ Grows
  BY DEF vars, Grows
<1>2. client \in [Clients -> Flushes] /\ served \in Servings \cup {NoFrame}
  BY DEF FlushSound, FlushTypes
<1>3. served' = IF served # NoFrame /\ served.to = c THEN [served EXCEPT !.to = NoClient]
                ELSE served
  BY DEF Abandon
<1>4. PICK kept \in SUBSET {f \in wire : f.to = c} :
         wire' = (wire \ {f \in wire : f.to = c})
                    \cup {[f EXCEPT !.to = NoClient] : f \in kept}
  BY DEF Abandon
<1>5. ASSUME NEW f \in wire'
      PROVE  f \in Frames /\ SoundFrame(f)'
  <2>1. CASE f \in wire
    BY <1>1, <2>1, WireStays
  <2>2. ASSUME NEW g \in wire, f = [g EXCEPT !.to = NoClient]
        PROVE  f \in Frames /\ SoundFrame(f)'
    <3>1. g \in Frames /\ SoundFrame(g)'
      BY <1>1, WireStays
    <3>2. f \in Frames /\ f.to = NoClient /\ f.node = g.node /\ f.slots = g.slots
      BY <2>2, <3>1 DEF Frames
    <3> QED
      BY <3>1, <3>2 DEF SoundFrame, WellCut
  <2> QED
    BY <1>4, <2>1, <2>2
<1>6. served # NoFrame =>
         /\ served' \in Servings
         /\ served'.node = served.node /\ served'.slots = served.slots
         /\ served'.reply = served.reply
         /\ served'.to = served.to \/ served'.to = NoClient
  BY <1>2, <1>3 DEF Servings
<1>7. served = NoFrame => served' = NoFrame
  BY <1>3
<1>8. FlushTypes'
  BY <1>5, <1>6, <1>7 DEF FlushSound, FlushTypes
<1>9. SoundServed'
  BY <1>1, <1>6, <1>7 DEF FlushSound, SoundServed, SoundFrame, WellCut, Truthful, Node
<1>10. TxnIsServed'
  <2> SUFFICES ASSUME txn # NoTxn PROVE TxnIsServed'
    BY <1>1 DEF TxnIsServed
  <2>1. TxnIsServed /\ served # NoFrame /\ served \in Servings
    BY <1>2 DEF FlushSound, TxnIsServed
  <2>2. served' # NoFrame
    BY <1>6, <2>1, NoFrameAssumption
  <2> QED
    BY <1>1, <1>6, <2>1, <2>2 DEF TxnIsServed, ServingBatch, Unanswered
<1>11. ASSUME NEW k \in Clients PROVE SoundClient(k)'
  <2>1. CASE k # c
    BY <1>1, <1>2, <2>1, ClientParts DEF SoundClient, Truthful, Node
  <2>2. CASE k = c
    <3>1. client'[k] = x
      BY <1>2, <2>2
    <3> QED
      BY <1>1, <2>2, <3>1, ClientParts, NothingSaid DEF SoundClient, Truthful, Node
  <2> QED
    BY <2>1, <2>2
<1>12. SoundQueue'
  BY <1>1 DEF FlushSound, SoundQueue
<1> QED
  BY <1>5, <1>8, <1>9, <1>10, <1>11, <1>12 DEF FlushSound

LEMMA DisconnectSound ==
    ASSUME FlushSound, NEW c \in Clients, Disconnect(c)
    PROVE  FlushSound'
<1>1. /\ client' = [client EXCEPT ![c] = Broken(c)] /\ Abandon(c)
      /\ UNCHANGED <<vars, queue>>
  BY DEF Disconnect
<1>2. failures' \in 0 .. MaxFailures
  BY FlushAssumption DEF Disconnect, FlushSound, FlushTypes
<1> QED
  BY <1>1, <1>2, BrokenClient, ClientParts, LeaveSound

LEMMA CrashClientSound ==
    ASSUME FlushSound, NEW c \in Clients, CrashClient(c)
    PROVE  FlushSound'
<1> DEFINE x == Idle(~IsSocket(c))
<1>1. client' = [client EXCEPT ![c] = x] /\ Abandon(c) /\ UNCHANGED <<vars, queue>>
  BY DEF CrashClient
<1>2. failures' \in 0 .. MaxFailures
  BY FlushAssumption DEF CrashClient, FlushSound, FlushTypes
<1>3. x \in Flushes /\ x.listed = {} /\ x.flight = {} /\ x.phase = "idle" /\ x.reply = NoReply
  BY IdleIsSound DEF IsSocket
<1> HIDE DEF x
<1> QED
  BY <1>1, <1>2, <1>3, LeaveSound

LEMMA CrashMainSound ==
    ASSUME FlushSound, CrashMain
    PROVE  FlushSound'
<1>1. /\ served' = NoFrame /\ wire' = {} /\ txn' = NoTxn
      /\ client' = [c \in Clients |-> Broken(c)]
      /\ UNCHANGED <<content, told, queue>>
  BY DEF CrashMain
<1>2. failures' \in 0 .. MaxFailures
  BY FlushAssumption DEF CrashMain, FlushSound, FlushTypes
<1>3. client' \in [Clients -> Flushes] /\ \A c \in Clients : KeepsRows(c)
  BY <1>1, BrokenClient DEF KeepsRows
<1> QED
  BY <1>1, <1>2, <1>3, ServerRests DEF Grows

LEMMA ThrowBatchSound ==
    ASSUME FlushSound, ThrowBatch
    PROVE  FlushSound'
<1>1. /\ served # NoFrame /\ served' = NoFrame /\ txn' = NoTxn
      /\ UNCHANGED <<content, told, queue, wire>>
      /\ client' = IF served.to # NoClient /\ ~IsSocket(served.to)
                     THEN [client EXCEPT ![served.to] = Broken(served.to)] ELSE client
  BY DEF ThrowBatch, FailBatch
<1>2. failures' \in 0 .. MaxFailures
  BY FlushAssumption DEF ThrowBatch, FlushSound, FlushTypes
<1>3. served \in Servings /\ client \in [Clients -> Flushes]
  BY <1>1 DEF FlushSound, FlushTypes
<1>4. client' \in [Clients -> Flushes] /\ \A c \in Clients : KeepsRows(c)
  <2>1. CASE client' = client
    BY <1>3, <2>1 DEF KeepsRows
  <2>2. CASE client' = [client EXCEPT ![served.to] = Broken(served.to)]
             /\ served.to # NoClient
    <3>1. served.to \in Clients
      BY <1>3, <2>2 DEF Servings
    <3> QED
      BY <1>3, <2>2, <3>1, BrokenClient DEF KeepsRows
  <2> QED
    BY <1>1, <2>1, <2>2
<1> QED
  BY <1>1, <1>2, <1>4, ServerRests DEF Grows

LEMMA MainCommandSound ==
    ASSUME FlushSound, MainCommand
    PROVE  FlushSound'
<1>1. UNCHANGED <<content, told, txn, queue, client, wire, served, failures>>
  BY DEF MainCommand, ClearRejected, ResolveConflict, flushVars
<1>2. TxnIsServed'
  BY <1>1 DEF FlushSound, TxnIsServed, ServingBatch, Unanswered
<1> QED
  BY <1>1, <1>2, BatchGoesOn

-----------------------------------------------------------------------------
(* The invariant holds.                                                    *)

LEMMA FlushInitSound == FlushInit => FlushSound
<1> SUFFICES ASSUME FlushInit PROVE FlushSound
  OBVIOUS
<1>1. /\ txn = NoTxn /\ wire = {} /\ served = NoFrame /\ failures = 0
      /\ queue = [op \in Ops |-> "none"]
      /\ client = [c \in Clients |-> Idle(~IsSocket(c))]
  BY DEF FlushInit, Init
<1>2. ASSUME NEW c \in Clients PROVE client[c] \in Flushes /\ SoundClient(c)
  BY <1>1, IdleIsSound, NothingSaid DEF SoundClient, IsSocket
<1>3. FlushTypes
  BY <1>1, <1>2, FlushAssumption DEF FlushTypes, QueueStatus
<1> QED
  BY <1>1, <1>2, <1>3 DEF FlushSound, SoundServed, TxnIsServed, SoundQueue

LEMMA FlushStepSound == Engine /\ FlushSound /\ [FlushNext]_allVars => FlushSound'
<1> SUFFICES ASSUME Engine, FlushSound, [FlushNext]_allVars PROVE FlushSound'
  OBVIOUS
<1>1. ASSUME NEW c \in Clients,
             \/ Connect(c) \/ ListPending(c) \/ MarkSending(c) \/ SendFirst(c)
             \/ HandleResults(c) \/ FailFlush(c) \/ Disconnect(c) \/ CrashClient(c)
      PROVE  FlushSound'
  BY <1>1, ConnectSound, ListPendingSound, MarkSendingSound, SendFirstSound,
     HandleResultsSound, FailFlushSound, DisconnectSound, CrashClientSound
<1>2. ASSUME NEW n \in Nodes, Enqueue(n) PROVE FlushSound'
  BY <1>2, EnqueueSound
<1>3. CASE ReadFrame \/ ServeOperation \/ TransientError \/ ServeBatch \/ Answer
  BY <1>3, ReadFrameSound, ServeOperationSound, TransientErrorSound, ServeBatchSound,
     AnswerSound
<1>4. CASE CrashMain \/ ThrowBatch \/ MainCommand
  BY <1>4, CrashMainSound, ThrowBatchSound, MainCommandSound
<1>5. CASE UNCHANGED allVars
  <2>1. UNCHANGED <<content, told, txn, queue, client, wire, served, failures>>
    BY <1>5 DEF allVars, vars, flushVars
  <2>2. TxnIsServed'
    BY <2>1 DEF FlushSound, TxnIsServed, ServingBatch, Unanswered
  <2> QED
    BY <2>1, <2>2, BatchGoesOn
<1> QED
  BY <1>1, <1>2, <1>3, <1>4, <1>5 DEF FlushNext

LEMMA FlushInvariance == FlushSpec => [](Engine /\ FlushSound)
<1>1. FlushInit => Engine /\ FlushSound
  BY EngineInit, FlushInitSound DEF FlushInit
<1>2. Engine /\ FlushSound /\ [FlushNext]_allVars => Engine' /\ FlushSound'
  BY EngineServes, EngineStep, FlushStepSound
<1> QED
  BY <1>1, <1>2, PTL DEF FlushSpec

\* Whatever the transports lose or repeat and whichever process dies, src/tim/sync/server.ts
\* presents to the engine only what the engine expects: single operations to
\* applyOperation and whole batches to applyBatch, one call at a time.  Hence everything
\* proved of SyncApply holds of the main node in SyncFlush.
THEOREM EngineImplemented == FlushSpec => Spec
<1>1. FlushInit => Init
  BY DEF FlushInit
<1>2. Engine /\ FlushSound /\ [FlushNext]_allVars => [Next]_vars
  BY EngineServes
<1> QED
  BY <1>1, <1>2, FlushInvariance, PTL DEF FlushSpec, Spec

\* The types of SyncFlush.
THEOREM FlushTypesHold == FlushSpec => []FlushTypeOK
<1>1. Engine /\ FlushSound => FlushTypeOK
  BY DEF Engine, IInv, FlushSound, FlushTypes, FlushTypeOK
<1> QED
  BY <1>1, FlushInvariance, PTL

\* A row of the queue in src/tim/sync/queue.ts is acked only if the main node applied the
\* operation, in conflict only if that is how it is recorded, and rejected only if it never
\* takes effect: across retries, late frames, crashes and clients that share a queue.
THEOREM QueuesAgree == FlushSpec => []QueueAgreement
<1>1. ToldTruly /\ SoundQueue => QueueAgreement
  BY DEF ToldTruly, BearsOut, Silent, Entries, ContestedUpsert, SoundQueue, QueueAgreement
<1>2. Engine /\ FlushSound => QueueAgreement
  BY <1>1 DEF Engine, FlushSound
<1> QED
  BY <1>2, FlushInvariance, PTL

-----------------------------------------------------------------------------
(* The promise of OpDelivery is kept.                                      *)

\* The fate of an operation, in a state the engine can be in.
LEMMA FateIs ==
    ASSUME Engine, NEW op \in Ops
    PROVE  /\ content[op] \in Contents \/ content[op] = NoContent
           /\ content[op] \notin Contents => Fate(op) = "unissued"
           /\ content[op] \in Contents /\ db.row[op] \in Terminal =>
                 Fate(op) = Recorded(db.row[op])
           /\ content[op] \in Contents /\ db.row[op] \notin Terminal => Fate(op) = "pending"
<1>1. /\ content[op] \in Contents \cup {NoContent}
      /\ db.row[op] # "none" => content[op] \in Contents
  BY DEF Engine, IInv, TypeOK, Batches, RowsIssued
<1> QED
  BY <1>1, NoContentAssumption DEF Fate, Terminal

LEMMA NextFateIs ==
    ASSUME Engine', NEW op \in Ops
    PROVE  /\ content'[op] \in Contents \/ content'[op] = NoContent
           /\ content'[op] \notin Contents => Fate(op)' = "unissued"
           /\ content'[op] \in Contents /\ db'.row[op] \in Terminal =>
                 Fate(op)' = Recorded(db'.row[op])
           /\ content'[op] \in Contents /\ db'.row[op] \notin Terminal =>
                 Fate(op)' = "pending"
<1>1. /\ content'[op] \in Contents \cup {NoContent}
      /\ db'.row[op] # "none" => content'[op] \in Contents
  BY DEF Engine, IInv, TypeOK, Batches, RowsIssued
<1> QED
  BY <1>1, NoContentAssumption DEF Fate, Terminal

\* The main node settles operations, and the queues are left alone.
LEMMA EngineSettles ==
    ASSUME Engine, [Next]_vars, UNCHANGED <<content, queue>>
    PROVE  Delivery!Settle
<1>1. /\ Engine' /\ Follows(db, db') /\ Grows
      /\ \A op \in Ops : "rejected" \in told'[op] \ told[op] =>
            db'.row[op] \notin {"applied", "conflict"}
  BY EngineStep, StreamsGrow DEF Engine
<1>2. \A status \in Terminal : Recorded(status) \in Verdicts
  BY DEF Terminal, Recorded, Verdicts
<1>3. ASSUME NEW op \in Ops, Fate(op)' # Fate(op)
      PROVE  /\ Fate(op) = "pending" /\ Fate(op)' \in Verdicts
             /\ "rejected" \in told[op] => Fate(op)' # "conflict"
  <2>1. content[op] \in Contents
    BY <1>1, <1>3, FateIs, NextFateIs
  <2>2. db.row[op] \notin Terminal
    BY <1>1, <1>3, <2>1, FateIs, NextFateIs DEF Follows
  <2>3. db'.row[op] \in Terminal /\ Fate(op)' = Recorded(db'.row[op])
    BY <1>1, <1>3, <2>1, <2>2, FateIs, NextFateIs
  <2>4. ASSUME "rejected" \in told[op] PROVE db'.row[op] # "conflict"
    <3>1. "rejected" \in told'[op]
      BY <1>1, <2>4 DEF Grows
    <3>2. \/ content'[op].kind = "upsert"
          \/ db'.row[op] # "conflict"
      BY <1>1, <3>1 DEF Engine, ToldTruly, BearsOut, ContestedUpsert, Silent
    <3>3. db'.row[op] = "conflict" => content'[op].kind = "edit"
      BY <1>1 DEF Engine, EditsConflict, OnlyEdits
    <3> QED
      BY <3>2, <3>3
  <2> QED
    BY <1>2, <2>1, <2>2, <2>3, <2>4, FateIs DEF Recorded, Terminal
<1>4. ASSUME NEW op \in Ops, "rejected" \in told'[op] \ told[op]
      PROVE  Fate(op)' \in {"pending", "rejected"}
  <2>1. content'[op] \in Contents
    BY <1>1, <1>4 DEF Engine, ToldTruly
  <2> QED
    BY <1>1, <1>4, <2>1, NextFateIs DEF Terminal, Recorded
<1>5. \A op \in Ops : "rejected" \in told[op] => "rejected" \in told'[op]
  BY <1>1 DEF Grows
<1>6. \A op \in Ops : Known(op)' = Known(op)
  BY DEF Known
<1> QED
  BY <1>3, <1>4, <1>5, <1>6 DEF Delivery!Settle, Delivery!Verdict, Verdicts

\* An origin learns what it was told.
LEMMA QueueLearns ==
    ASSUME Engine, FlushSound', UNCHANGED vars,
           \A op \in Ops : queue[op] \in Settlements => queue'[op] = queue[op]
    PROVE  Delivery!Learn
<1>1. UNCHANGED <<content, db, told>>
  BY DEF vars
<1>2. \A op \in Ops : Fate(op)' = Fate(op)
  BY <1>1 DEF Fate
<1>3. ASSUME NEW op \in Ops, Known(op)' # Known(op)
      PROVE  /\ Known(op) = "unknown" /\ Known(op)' \in Verdicts
             /\ Known(op)' = Fate(op) \/ (Known(op)' = "rejected" /\ "rejected" \in told[op])
  <2>1. queue[op] \notin Settlements
    BY <1>3 DEF Known
  <2>2. Known(op) = "unknown"
    BY <2>1 DEF Known, Settlements
  <2>3. queue'[op] \in Settlements
    BY <1>3, <2>2 DEF Known, Settlements
  <2>4. /\ queue'[op] = "acked" => "applied" \in told[op]
        /\ queue'[op] = "conflict" => "conflict" \in told[op]
        /\ queue'[op] = "rejected" => "rejected" \in told[op]
    BY <1>1 DEF FlushSound, SoundQueue
  <2>5. /\ "applied" \in told[op] => db.row[op] = "applied"
        /\ "conflict" \in told[op] => db.row[op] = "conflict"
        /\ told[op] # {} => content[op] \in Contents
    BY DEF Engine, ToldTruly, BearsOut
  <2>6. CASE queue'[op] = "acked"
    <3>1. Known(op)' = "applied"
      BY <2>6 DEF Known
    <3>2. Fate(op) = "applied"
      BY <2>4, <2>5, <2>6, FateIs DEF Terminal, Recorded
    <3> QED
      BY <2>2, <3>1, <3>2 DEF Verdicts
  <2>7. CASE queue'[op] = "conflict"
    <3>1. Known(op)' = "conflict"
      BY <2>7 DEF Known
    <3>2. Fate(op) = "conflict"
      BY <2>4, <2>5, <2>7, FateIs DEF Terminal, Recorded
    <3> QED
      BY <2>2, <3>1, <3>2 DEF Verdicts
  <2>8. CASE queue'[op] = "rejected"
    <3>1. Known(op)' = "rejected"
      BY <2>8 DEF Known
    <3> QED
      BY <2>2, <2>4, <2>8, <3>1 DEF Verdicts
  <2> QED
    BY <2>3, <2>6, <2>7, <2>8 DEF Settlements
<1> QED
  BY <1>1, <1>2, <1>3 DEF Delivery!Learn, Delivery!Verdict, Verdicts

\* A node puts operations in its queue.
LEMMA EnqueueIssues ==
    ASSUME Engine, FlushSound, NEW n \in Nodes, Enqueue(n)
    PROVE  Delivery!Issue
<1>1. /\ IssueOperation(n) \/ IssueBatch(n)
      /\ queue' = [op \in Ops |-> IF content[op] # content'[op] THEN "queued" ELSE queue[op]]
  BY DEF Enqueue
<1>2. TypeOK /\ Engine' /\ Grows
  BY <1>1, EngineStep DEF Next, Engine, IInv
<1>3. UNCHANGED <<db, told>>
  BY <1>1, <1>2, IssueForms DEF IssuesUnit
<1>4. ASSUME NEW op \in Ops, Fate(op)' # Fate(op)
      PROVE  Fate(op) = "unissued" /\ Fate(op)' = "pending"
  <2>1. content'[op] # content[op]
    BY <1>3, <1>4 DEF Fate
  <2>2. content[op] \notin Contents /\ content'[op] \in Contents
    BY <1>2, <2>1, FateIs, NextFateIs DEF Grows
  <2>3. db.row[op] \notin Terminal
    BY <2>2 DEF Engine, Batches, RowsIssued, Terminal
  <2> QED
    BY <1>2, <1>3, <2>2, <2>3, FateIs, NextFateIs
<1>5. ASSUME NEW op \in Ops PROVE Known(op)' = Known(op)
  <2>1. CASE content'[op] = content[op]
    BY <1>1, <2>1 DEF Known
  <2>2. CASE content'[op] # content[op]
    <3>1. queue[op] = "none"
      BY <1>2, <2>2 DEF FlushSound, SoundQueue, Grows
    <3>2. queue'[op] = "queued"
      BY <1>1, <2>2
    <3> QED
      BY <3>1, <3>2 DEF Known
  <2> QED
    BY <2>1, <2>2
<1> QED
  BY <1>3, <1>4, <1>5 DEF Delivery!Issue

\* A step of the clients leaves every settled row as it is.
LEMMA SettledRowsStay ==
    ASSUME Engine, FlushSound, NEW c \in Clients,
           \/ Connect(c) \/ ListPending(c) \/ MarkSending(c) \/ HandleResults(c)
           \/ FailFlush(c)
    PROVE  /\ UNCHANGED vars
           /\ \A op \in Ops : queue[op] \in Settlements => queue'[op] = queue[op]
<1>1. queue \in [Ops -> QueueStatus]
  BY DEF FlushSound, FlushTypes
<1>2. CASE Connect(c) \/ ListPending(c)
  BY <1>2 DEF Connect, ListPending, ResetSending, Settlements
<1>3. CASE MarkSending(c)
  <2> DEFINE row == <<Node(c), Min(client[c].listed)>>
  <2>1. /\ UNCHANGED vars
        /\ \/ queue' = queue
           \/ queue[row] \in Flushable /\ queue' = [queue EXCEPT ![row] = "sending"]
    BY <1>3 DEF MarkSending
  <2> HIDE DEF row
  <2> QED
    BY <1>1, <2>1 DEF Flushable, Settlements
<1>4. CASE HandleResults(c)
  <2>1. /\ UNCHANGED vars
        /\ \/ queue' = queue
           \/ /\ queue' = Handled(c)
              /\ \A s \in Slots :
                    LegalTransition(queue[<<Node(c), s>>], client[c].reply[s])
    BY <1>4 DEF HandleResults, Handled
  <2> QED
    BY <2>1, HandledRows
<1>5. CASE FailFlush(c)
  <2> DEFINE row == <<Node(c), Min(client[c].flight)>>
  <2>1. /\ UNCHANGED vars
        /\ \/ queue' = queue
           \/ /\ queue[row] = "sending"
              /\ queue' = [queue EXCEPT ![row] = "failed_retryable"]
    <3>1. UNCHANGED vars
      BY <1>5 DEF FailFlush
    <3>2. CASE client[c].flight = {}
      BY <1>5, <3>1, <3>2 DEF FailFlush
    <3>3. CASE client[c].flight # {} /\ queue[row] = "sending"
      BY <1>5, <3>1, <3>3 DEF FailFlush, Settlements
    <3>4. CASE client[c].flight # {} /\ queue[row] # "sending"
      BY <1>5, <3>1, <3>4 DEF FailFlush
    <3> QED
      BY <3>2, <3>3, <3>4
  <2> HIDE DEF row
  <2> QED
    BY <1>1, <2>1 DEF Settlements
<1> QED
  BY <1>2, <1>3, <1>4, <1>5

\* The steps of the main node issue nothing and leave the queues alone.
LEMMA ServeKeepsStreams ==
    ASSUME ServeOperation \/ ServeBatch \/ CrashMain \/ ThrowBatch \/ MainCommand
    PROVE  UNCHANGED <<content, queue>>
BY DEF ServeOperation, ServeBatch, ReplayBatch, BeginBatch, StepBatch, CommitBatch,
   PersistRejections, CrashMain, ThrowBatch, FailBatch, MainCommand, ClearRejected,
   ResolveConflict, flushVars

LEMMA DeliveryStep ==
    ASSUME Engine, FlushSound, [FlushNext]_allVars
    PROVE  Delivery!Next \/ UNCHANGED Delivery!deliveryVars
<1>1. [Next]_vars /\ FlushSound'
  BY EngineServes, FlushStepSound
<1>2. ASSUME UNCHANGED <<vars, queue>> PROVE Delivery!Next
  <2>1. Delivery!Settle
    BY <1>1, <1>2, EngineSettles DEF vars
  <2> QED
    BY <2>1 DEF Delivery!Next
<1>3. ASSUME NEW n \in Nodes, Enqueue(n) PROVE Delivery!Next
  BY <1>3, EnqueueIssues DEF Delivery!Next
<1>4. ASSUME NEW c \in Clients,
             \/ Connect(c) \/ ListPending(c) \/ MarkSending(c) \/ HandleResults(c)
             \/ FailFlush(c)
      PROVE  Delivery!Next
  BY <1>1, <1>4, SettledRowsStay, QueueLearns DEF Delivery!Next
<1>5. ASSUME NEW c \in Clients, SendFirst(c) \/ Disconnect(c) \/ CrashClient(c)
      PROVE  Delivery!Next
  BY <1>2, <1>5 DEF SendFirst, Disconnect, CrashClient
<1>6. CASE ReadFrame \/ TransientError \/ Answer \/ UNCHANGED allVars
  BY <1>2, <1>6 DEF ReadFrame, TransientError, Answer, allVars, flushVars
<1>7. CASE ServeOperation \/ ServeBatch \/ CrashMain \/ ThrowBatch \/ MainCommand
  <2>1. UNCHANGED <<content, queue>>
    BY <1>7, ServeKeepsStreams
  <2> QED
    BY <1>1, <2>1, EngineSettles DEF Delivery!Next
<1> QED
  BY <1>3, <1>4, <1>5, <1>6, <1>7 DEF FlushNext

LEMMA DeliveryInit == FlushInit => Delivery!Init
<1> SUFFICES ASSUME FlushInit PROVE Delivery!Init
  OBVIOUS
<1>1. /\ content = [op \in Ops |-> NoContent] /\ told = [op \in Ops |-> {}]
      /\ queue = [op \in Ops |-> "none"] /\ Engine
  BY EngineInit DEF FlushInit, Init
<1>2. \A op \in Ops : Fate(op) = "unissued" /\ Known(op) = "unknown"
  BY <1>1, NoContentAssumption, FateIs DEF Known
<1> QED
  BY <1>1, <1>2 DEF Delivery!Init

\* The queue, the transports and the engine together keep the promise of OpDelivery: the
\* main node settles an operation once, and its origin is told how.
THEOREM DeliveryIsKept == FlushSpec => DeliveryImplemented
<1>1. FlushInit => Delivery!Init
  BY DeliveryInit
<1>2. Engine /\ FlushSound /\ [FlushNext]_allVars =>
         Delivery!Next \/ UNCHANGED Delivery!deliveryVars
  BY DeliveryStep
<1> QED
  BY <1>1, <1>2, FlushInvariance, PTL DEF FlushSpec, DeliveryImplemented, Delivery!Spec

-----------------------------------------------------------------------------
(* No row is stranded where nodes flush over their sockets only.           *)

Sock(n) == <<n, "socket">>

\* A row in sending is in the flight of its node's socket, unless the socket is down; and
\* a row in flight is in sending.
Sheltered(n) ==
    \A s \in Slots :
        /\ queue[<<n, s>>] = "sending" =>
              s \in client[Sock(n)].flight \/ ~client[Sock(n)].connected
        /\ s \in client[Sock(n)].flight => queue[<<n, s>>] = "sending"

\* A client that waits for a result is connected, and one frame at most is on its way
\* for it.
Awaited ==
    /\ \A c \in Clients : client[c].phase \in {"sent", "answered"} => client[c].connected
    /\ \A f \in wire : f.to # NoClient =>
          /\ client[f.to].phase = "sent"
          /\ served # NoFrame => served.to # f.to
          /\ \A g \in wire : g.to = f.to => g = f
    /\ served # NoFrame /\ served.to # NoClient => client[served.to].phase = "sent"

Held == Awaited /\ \A n \in Nodes : Sheltered(n)

LEMMA SocketsOnly ==
    ASSUME Transports = {"socket"}
    PROVE  /\ \A c \in Clients : IsSocket(c) /\ c = Sock(Node(c)) /\ Node(c) \in Nodes
           /\ \A n \in Nodes : Sock(n) \in Clients /\ Node(Sock(n)) = n
BY DEF Clients, IsSocket, Sock, Node

\* A client that waits for no result moves, with rows of its own node.
LEMMA HeldByClient ==
    ASSUME Transports = {"socket"}, FlushSound, Held, NEW c \in Clients, NEW x \in Flushes,
           client[c].phase # "sent", client' = [client EXCEPT ![c] = x], served' = served,
           \/ wire' = wire
           \/ x.phase = "sent" /\ \E f : f.to = c /\ wire' = wire \cup {f},
           x.phase \in {"sent", "answered"} => x.connected,
           \A op \in Ops : Origin(op) # Node(c) => queue'[op] = queue[op],
           \A s \in Slots :
              /\ queue'[<<Node(c), s>>] = "sending" => s \in x.flight \/ ~x.connected
              /\ s \in x.flight => queue'[<<Node(c), s>>] = "sending"
    PROVE  Held'
<1>1. client \in [Clients -> Flushes] /\ wire \subseteq Frames
      /\ served \in Servings \cup {NoFrame}
  BY DEF FlushSound, FlushTypes
<1>2. client'[c] = x /\ \A k \in Clients : k # c => client'[k] = client[k]
  BY <1>1
<1>3. \A f \in wire : f.to # NoClient => f.to \in Clients /\ f.to # c
  BY <1>1 DEF Held, Awaited, Frames
<1>4. served # NoFrame /\ served.to # NoClient => served.to \in Clients /\ served.to # c
  BY <1>1 DEF Held, Awaited, Servings
<1>5. Awaited'
  <2>1. \A k \in Clients : client'[k].phase \in {"sent", "answered"} => client'[k].connected
    BY <1>2 DEF Held, Awaited
  <2>2. served' # NoFrame /\ served'.to # NoClient => client'[served'.to].phase = "sent"
    BY <1>2, <1>4 DEF Held, Awaited
  <2>3. ASSUME NEW f \in wire', f.to # NoClient
        PROVE  /\ client'[f.to].phase = "sent"
               /\ served' # NoFrame => served'.to # f.to
               /\ \A g \in wire' : g.to = f.to => g = f
    <3>1. CASE f \in wire
      BY <1>2, <1>3, <2>3, <3>1 DEF Held, Awaited
    <3>2. CASE f \notin wire
      <4>1. x.phase = "sent" /\ f.to = c /\ wire' = wire \cup {f}
        BY <2>3, <3>2
      <4> QED
        BY <1>2, <1>3, <1>4, <2>3, <4>1
    <3> QED
      BY <3>1, <3>2
  <2> QED
    BY <2>1, <2>2, <2>3 DEF Awaited
<1>6. ASSUME NEW n \in Nodes PROVE Sheltered(n)'
  <2>1. CASE Sock(n) = c
    <3>1. n = Node(c)
      BY <2>1, SocketsOnly
    <3> QED
      BY <1>2, <2>1, <3>1 DEF Sheltered, Sock
  <2>2. CASE Sock(n) # c
    <3>1. Sock(n) \in Clients /\ n # Node(c)
      BY <2>2, SocketsOnly
    <3>2. client'[Sock(n)] = client[Sock(n)]
      BY <1>2, <2>2, <3>1
    <3>3. \A s \in Slots : <<n, s>> \in Ops /\ Origin(<<n, s>>) = n
      BY DEF Ops, Origin
    <3>4. \A s \in Slots : queue'[<<n, s>>] = queue[<<n, s>>]
      BY <3>1, <3>3
    <3> QED
      BY <3>2, <3>4 DEF Held, Sheltered, Sock
  <2> QED
    BY <2>1, <2>2
<1> QED
  BY <1>5, <1>6 DEF Held

\* What is held for the node of client c.
LEMMA HeldParts ==
    ASSUME Transports = {"socket"}, FlushSound, Held, NEW c \in Clients
    PROVE  /\ IsSocket(c) /\ client[c] \in Flushes /\ queue \in [Ops -> QueueStatus]
           /\ client[c].phase \in {"sent", "answered"} => client[c].connected
           /\ \A s \in Slots :
                 /\ <<Node(c), s>> \in Ops /\ Origin(<<Node(c), s>>) = Node(c)
                 /\ LocalSequence(<<Node(c), s>>) = s
                 /\ queue[<<Node(c), s>>] = "sending" =>
                       s \in client[c].flight \/ ~client[c].connected
                 /\ s \in client[c].flight => queue[<<Node(c), s>>] = "sending"
<1>1. IsSocket(c) /\ c = Sock(Node(c)) /\ Node(c) \in Nodes
  BY SocketsOnly
<1>2. Sheltered(Node(c))
  BY <1>1 DEF Held
<1>3. \A s \in Slots : <<Node(c), s>> \in Ops /\ Origin(<<Node(c), s>>) = Node(c)
                       /\ LocalSequence(<<Node(c), s>>) = s
  BY <1>1 DEF Ops, Origin, LocalSequence
<1>4. client[c] \in Flushes /\ queue \in [Ops -> QueueStatus]
  BY DEF FlushSound, FlushTypes
<1>5. client[c].phase \in {"sent", "answered"} => client[c].connected
  BY DEF Held, Awaited
<1>6. \A s \in Slots :
         /\ queue[<<Node(c), s>>] = "sending" => s \in client[c].flight \/ ~client[c].connected
         /\ s \in client[c].flight => queue[<<Node(c), s>>] = "sending"
  BY <1>1, <1>2 DEF Sheltered
<1> QED
  BY <1>1, <1>3, <1>4, <1>5, <1>6

LEMMA ClientStepsHold ==
    ASSUME Transports = {"socket"}, FlushSound, Held, NEW c \in Clients,
           Connect(c) \/ ListPending(c) \/ MarkSending(c) \/ SendFirst(c)
    PROVE  Held'
<1>1. /\ IsSocket(c) /\ client[c] \in Flushes /\ queue \in [Ops -> QueueStatus]
      /\ served' = served
      /\ client[c].listed \subseteq Slots /\ client[c].flight \subseteq Slots
  BY HeldParts, ClientParts DEF Connect, ListPending, MarkSending, SendFirst
<1>2. CASE Connect(c)
  <2> DEFINE x == [client[c] EXCEPT !.connected = TRUE]
  <2>1. /\ client[c] = Idle(FALSE) /\ client' = [client EXCEPT ![c] = x]
        /\ wire' = wire /\ queue' = ResetSending(Node(c))
    BY <1>2 DEF Connect
  <2>2. /\ x \in Flushes /\ x.phase = "idle" /\ x.flight = {} /\ client[c].phase = "idle"
    BY <2>1, IdleIsSound DEF Flushes
  <2> HIDE DEF x
  <2>3. \A op \in Ops : Origin(op) # Node(c) => queue'[op] = queue[op]
    BY <2>1 DEF ResetSending
  <2>4. \A s \in Slots : queue'[<<Node(c), s>>] # "sending"
    BY <2>1, HeldParts DEF ResetSending
  <2> QED
    BY <1>1, <2>1, <2>2, <2>3, <2>4, HeldByClient
<1>3. CASE ListPending(c)
  <2> DEFINE pending == {s \in Slots : queue'[<<Node(c), s>>] \in Flushable}
             x == [client[c] EXCEPT !.phase = "marking", !.listed = pending]
  <2>1. /\ client[c] = Idle(TRUE) /\ client' = [client EXCEPT ![c] = x]
        /\ wire' = wire /\ queue' = queue
    BY <1>1, <1>3 DEF ListPending
  <2>2. pending \in SUBSET Slots
    OBVIOUS
  <2> HIDE DEF pending
  <2>3. /\ x \in Flushes /\ x.phase = "marking" /\ x.flight = client[c].flight
        /\ x.connected = client[c].connected /\ client[c].phase = "idle"
    BY <2>1, <2>2, IdleIsSound DEF Flushes
  <2> HIDE DEF x
  <2> QED
    BY <1>1, <2>1, <2>3, HeldByClient, HeldParts
<1>4. CASE MarkSending(c)
  <2> DEFINE s  == Min(client[c].listed)
             op == <<Node(c), s>>
  <2>1. client[c].phase = "marking" /\ client[c].listed # {} /\ wire' = wire
    BY <1>4 DEF MarkSending
  <2>2. s \in Slots /\ op \in Ops
    <3>1. s \in Slots
      BY <1>1, <2>1, MinSlot
    <3> HIDE DEF s
    <3> QED
      BY <3>1, HeldParts
  <2>3. CASE queue[op] \in Flushable
    <3> DEFINE x == [client[c] EXCEPT !.listed = @ \ {s}, !.flight = @ \cup {s}]
    <3>1. queue' = [queue EXCEPT ![op] = "sending"] /\ client' = [client EXCEPT ![c] = x]
      BY <1>4, <2>3 DEF MarkSending
    <3>2. \A o \in Ops : queue'[o] = IF o = op THEN "sending" ELSE queue[o]
      BY <1>1, <2>2, <3>1
    <3>3. Origin(op) = Node(c) /\ \A t \in Slots : <<Node(c), t>> = op <=> t = s
      BY DEF Origin
    <3> HIDE DEF s, op
    <3>4. /\ x \in Flushes /\ x.phase = "marking" /\ x.flight = client[c].flight \cup {s}
          /\ x.connected = client[c].connected
      BY <1>1, <2>1, <2>2 DEF Flushes
    <3> HIDE DEF x
    <3>5. \A t \in Slots :
             /\ queue'[<<Node(c), t>>] = "sending" => t \in x.flight \/ ~x.connected
             /\ t \in x.flight => queue'[<<Node(c), t>>] = "sending"
      BY <3>2, <3>3, <3>4, HeldParts
    <3> QED
      BY <1>1, <2>1, <3>1, <3>2, <3>3, <3>4, <3>5, HeldByClient
  <2>4. CASE queue[op] \notin Flushable
    <3> DEFINE x == [client[c] EXCEPT !.listed = {}, !.phase = "failing"]
    <3>1. queue' = queue /\ client' = [client EXCEPT ![c] = x]
      BY <1>4, <2>4 DEF MarkSending
    <3>2. /\ x \in Flushes /\ x.phase = "failing" /\ x.flight = client[c].flight
          /\ x.connected = client[c].connected
      BY <1>1 DEF Flushes
    <3> HIDE DEF x, s, op
    <3> QED
      BY <1>1, <2>1, <3>1, <3>2, HeldByClient, HeldParts
  <2> QED
    BY <2>3, <2>4
<1>5. CASE SendFirst(c)
  <2> DEFINE sends == client[c].connected /\ CompleteBatches(Node(c), client[c].flight)
             phase == IF sends THEN "sent" ELSE "failing"
             x == [client[c] EXCEPT !.phase = phase]
  <2>1. /\ client[c].phase = "marking" /\ queue' = queue
        /\ client' = [client EXCEPT ![c] = x]
        /\ IF sends THEN Send(c, client[c].flight) ELSE wire' = wire
    BY <1>5 DEF SendFirst
  <2>2. sends => client[c].connected
    OBVIOUS
  <2> HIDE DEF sends
  <2>3. /\ x \in Flushes /\ x.flight = client[c].flight
        /\ x.connected = client[c].connected /\ (x.phase = "sent" <=> sends)
        /\ x.phase # "answered"
    BY <1>1 DEF Flushes
  <2>4. \/ wire' = wire
        \/ x.phase = "sent" /\ \E f : f.to = c /\ wire' = wire \cup {f}
    <3>1. CASE ~sends
      BY <2>1, <3>1
    <3>2. CASE sends
      <4> DEFINE f == [to |-> c, node |-> Node(c),
                       slots |-> FirstFrame(Node(c), client[c].flight)]
      <4>1. wire' = wire \cup {f} /\ f.to = c
        BY <2>1, <3>2 DEF Send
      <4> HIDE DEF f, x
      <4> QED
        BY <2>3, <3>2, <4>1
    <3> QED
      BY <3>1, <3>2
  <2> HIDE DEF x
  <2> QED
    BY <1>1, <2>1, <2>2, <2>3, <2>4, HeldByClient, HeldParts
<1> QED
  BY <1>2, <1>3, <1>4, <1>5

LEMMA HandleResultsHolds ==
    ASSUME Transports = {"socket"}, FlushSound, Held, NEW c \in Clients, HandleResults(c)
    PROVE  Held'
<1> DEFINE reply == client[c].reply
           rest == {s \in client[c].flight : reply[s] = "none"}
<1>1. /\ IsSocket(c) /\ client[c] \in Flushes /\ queue \in [Ops -> QueueStatus]
      /\ client[c].phase = "answered" /\ client[c].connected
      /\ served' = served /\ client[c].flight \subseteq Slots
  BY HeldParts, ClientParts DEF HandleResults
<1>2. CASE \A s \in Slots : LegalTransition(queue[<<Node(c), s>>], reply[s])
  <2>1. /\ queue' = Handled(c)
        /\ IF rest = {}
             THEN client' = [client EXCEPT ![c] = Idle(TRUE)] /\ UNCHANGED wire
             ELSE /\ client' = [client EXCEPT ![c].phase = "sent",
                                   ![c].flight = rest, ![c].reply = NoReply]
                  /\ Send(c, rest)
    BY <1>2 DEF HandleResults, Handled
  <2>2. \A op \in Ops : Origin(op) # Node(c) => queue'[op] = queue[op]
    BY <2>1 DEF Handled
  <2>3. ASSUME NEW s \in Slots
        PROVE  queue'[<<Node(c), s>>] = "sending" <=> s \in rest
    <3> DEFINE row == queue[<<Node(c), s>>]
    <3>1. /\ queue'[<<Node(c), s>>] = Transition(row, reply[s])
          /\ LegalTransition(row, reply[s])
          /\ row = "sending" <=> s \in client[c].flight
      BY <1>1, <1>2, <2>1, HeldParts DEF Handled
    <3>2. Transition(row, reply[s]) = "sending" <=> row = "sending" /\ reply[s] = "none"
      BY <3>1 DEF Transition, LegalTransition, Settlements
    <3> QED
      BY <3>1, <3>2
  <2>4. CASE rest = {}
    <3> DEFINE x == Idle(TRUE)
    <3>1. x \in Flushes /\ x.phase = "idle" /\ x.flight = {}
      BY IdleIsSound
    <3>2. client' = [client EXCEPT ![c] = x] /\ wire' = wire
      BY <2>1, <2>4
    <3> HIDE DEF x, rest
    <3> QED
      BY <1>1, <2>2, <2>3, <2>4, <3>1, <3>2, HeldByClient
  <2>5. CASE rest # {}
    <3> DEFINE x == [client[c] EXCEPT !.phase = "sent", !.flight = rest, !.reply = NoReply]
               f == [to |-> c, node |-> Node(c), slots |-> FirstFrame(Node(c), rest)]
    <3>1. client' = [client EXCEPT ![c] = x] /\ wire' = wire \cup {f} /\ f.to = c
      BY <2>1, <2>5 DEF Send
    <3>2. rest \subseteq Slots
      BY <1>1
    <3> HIDE DEF rest, f
    <3>3. x \in Flushes /\ x.phase = "sent" /\ x.flight = rest /\ x.connected
      BY <1>1, <3>2, NothingSaid DEF Flushes
    <3> HIDE DEF x
    <3> QED
      BY <1>1, <2>2, <2>3, <3>1, <3>3, HeldByClient
  <2> QED
    BY <2>4, <2>5
<1>3. CASE ~ \A s \in Slots : LegalTransition(queue[<<Node(c), s>>], reply[s])
  <2> DEFINE x == [client[c] EXCEPT !.phase = "failing", !.reply = NoReply,
                                    !.connected = ~IsSocket(c)]
  <2>1. client' = [client EXCEPT ![c] = x] /\ UNCHANGED <<queue, wire>>
    BY <1>3 DEF HandleResults
  <2>2. /\ x \in Flushes /\ x.flight = client[c].flight /\ x.phase = "failing"
        /\ ~x.connected
    BY <1>1, NothingSaid DEF Flushes
  <2> HIDE DEF x, rest
  <2> QED
    BY <1>1, <2>1, <2>2, HeldByClient, HeldParts
<1> QED
  BY <1>2, <1>3

LEMMA FailFlushHolds ==
    ASSUME Transports = {"socket"}, FlushSound, Held, NEW c \in Clients, FailFlush(c)
    PROVE  Held'
<1>1. /\ client[c] \in Flushes /\ queue \in [Ops -> QueueStatus]
      /\ client[c].phase = "failing" /\ client[c].connected \in BOOLEAN
      /\ served' = served /\ wire' = wire /\ client[c].flight \subseteq Slots
  BY HeldParts, ClientParts DEF FailFlush, Flushes
<1>2. CASE client[c].flight = {}
  <2> DEFINE x == Idle(client[c].connected)
  <2>1. queue' = queue /\ client' = [client EXCEPT ![c] = x]
    BY <1>2 DEF FailFlush
  <2>2. /\ x \in Flushes /\ x.phase = "idle" /\ x.flight = client[c].flight
        /\ x.connected = client[c].connected
    BY <1>1, <1>2, IdleIsSound
  <2> HIDE DEF x
  <2> QED
    BY <1>1, <2>1, <2>2, HeldByClient, HeldParts
<1>3. CASE client[c].flight # {}
  <2> DEFINE s  == Min(client[c].flight)
             op == <<Node(c), s>>
             x  == [client[c] EXCEPT !.flight = @ \ {s}]
  <2>1. s \in client[c].flight
    BY <1>1, <1>3, MinSlot
  <2>2. op \in Ops /\ queue[op] = "sending" /\ Origin(op) = Node(c)
        /\ \A t \in Slots : <<Node(c), t>> = op <=> t = s
    <3> HIDE DEF s
    <3> QED
      BY <1>1, <2>1, HeldParts
  <2>3. /\ queue' = [queue EXCEPT ![op] = "failed_retryable"]
        /\ client' = [client EXCEPT ![c] = x]
    BY <1>3, <2>2 DEF FailFlush, Settlements
  <2> HIDE DEF s, op
  <2>4. \A o \in Ops : queue'[o] = IF o = op THEN "failed_retryable" ELSE queue[o]
    BY <1>1, <2>2, <2>3
  <2>5. /\ x \in Flushes /\ x.phase = "failing" /\ x.flight = client[c].flight \ {s}
        /\ x.connected = client[c].connected
    BY <1>1 DEF Flushes
  <2> HIDE DEF x
  <2>6. \A t \in Slots :
           /\ queue'[<<Node(c), t>>] = "sending" => t \in x.flight \/ ~x.connected
           /\ t \in x.flight => queue'[<<Node(c), t>>] = "sending"
    BY <2>2, <2>4, <2>5, HeldParts
  <2> QED
    BY <1>1, <2>2, <2>3, <2>4, <2>5, <2>6, HeldByClient
<1> QED
  BY <1>2, <1>3

\* The clients and the wire rest, and so does every row in sending.
LEMMA HeldByServer ==
    ASSUME Transports = {"socket"}, FlushSound, Held, UNCHANGED <<client, wire>>,
           served' # NoFrame => served # NoFrame /\ served'.to = served.to,
           \A op \in Ops : queue'[op] = "sending" <=> queue[op] = "sending"
    PROVE  Held'
<1>1. Awaited'
  BY DEF Held, Awaited
<1>2. ASSUME NEW n \in Nodes PROVE Sheltered(n)'
  <2>1. \A s \in Slots : <<n, s>> \in Ops
    BY DEF Ops
  <2> QED
    BY <2>1 DEF Held, Sheltered, Sock
<1> QED
  BY <1>1, <1>2 DEF Held

LEMMA EnqueueHolds ==
    ASSUME Transports = {"socket"}, Engine, FlushSound, Held, NEW n \in Nodes, Enqueue(n)
    PROVE  Held'
<1>1. /\ IssueOperation(n) \/ IssueBatch(n)
      /\ queue' = [op \in Ops |-> IF content[op] # content'[op] THEN "queued" ELSE queue[op]]
      /\ UNCHANGED <<client, wire, served>>
  BY DEF Enqueue
<1>2. Grows
  BY <1>1, EngineStep DEF Next
<1>3. \A op \in Ops : queue[op] # "none" => content'[op] = content[op]
  BY <1>2 DEF FlushSound, SoundQueue, Grows
<1>4. \A op \in Ops : queue'[op] = "sending" <=> queue[op] = "sending"
  BY <1>1, <1>3
<1> QED
  BY <1>1, <1>4, HeldByServer

LEMMA ServerStepsHold ==
    ASSUME Transports = {"socket"}, FlushSound, Held,
           \/ ServeOperation \/ TransientError \/ ServeBatch \/ ThrowBatch \/ MainCommand
           \/ UNCHANGED allVars
    PROVE  Held'
<1>1. served \in Servings \cup {NoFrame}
  BY DEF FlushSound, FlushTypes
<1>2. ASSUME NEW reply, served # NoFrame, served' = [served EXCEPT !.reply = reply]
      PROVE  served'.to = served.to
  <2>1. served \in [to : Clients \cup {NoClient}, node : Nodes, slots : SUBSET Slots,
                    reply : Replies]
    BY <1>1, <1>2 DEF Servings
  <2> QED
    BY <1>2, <2>1
<1>3. CASE ServeOperation \/ TransientError
  <2>1. served # NoFrame /\ UNCHANGED <<client, wire, queue>>
    BY <1>3 DEF ServeOperation, TransientError
  <2>2. \E reply : served' = [served EXCEPT !.reply = reply]
    <3>1. \E result : served' = [served EXCEPT !.reply[Min(Unanswered)] = result]
      BY <1>3 DEF ServeOperation, TransientError
    <3> QED
      BY <3>1
  <2> QED
    BY <1>2, <2>1, <2>2, HeldByServer
<1>4. CASE ServeBatch
  <2>1. served # NoFrame /\ UNCHANGED <<client, wire, queue>>
    BY <1>4 DEF ServeBatch
  <2>2. \/ \E reply : served' = [served EXCEPT !.reply = reply]
        \/ served' = served
    <3>1. ASSUME NEW result, AnswerBatch(result)
          PROVE  \E reply : served' = [served EXCEPT !.reply = reply]
      BY <3>1 DEF AnswerBatch
    <3>2. \/ \E result : AnswerBatch(result)
          \/ served' = served
      BY <1>4 DEF ServeBatch
    <3> QED
      BY <3>1, <3>2
  <2> QED
    BY <1>2, <2>1, <2>2, HeldByServer
<1>5. CASE ThrowBatch
  <2>1. /\ served # NoFrame /\ served' = NoFrame /\ UNCHANGED <<queue, wire>>
        /\ client' = IF served.to # NoClient /\ ~IsSocket(served.to)
                       THEN [client EXCEPT ![served.to] = Broken(served.to)] ELSE client
    BY <1>5 DEF ThrowBatch
  <2>2. served.to # NoClient => IsSocket(served.to)
    BY <1>1, <2>1, SocketsOnly DEF Servings
  <2> QED
    BY <2>1, <2>2, HeldByServer
<1>6. CASE MainCommand \/ UNCHANGED allVars
  BY <1>6, HeldByServer DEF MainCommand, allVars, flushVars
<1> QED
  BY <1>3, <1>4, <1>5, <1>6

LEMMA ReadFrameHolds ==
    ASSUME Transports = {"socket"}, FlushSound, Held, ReadFrame
    PROVE  Held'
<1>1. served = NoFrame /\ UNCHANGED <<queue, client>>
  BY DEF ReadFrame
<1>2. PICK f \in wire :
         /\ served' = [to |-> f.to, node |-> f.node, slots |-> f.slots, reply |-> NoReply]
         /\ wire' = wire \ {f}
  BY DEF ReadFrame
<1>3. served'.to = f.to
  BY <1>2
<1>4. Awaited'
  BY <1>1, <1>2, <1>3 DEF Held, Awaited
<1> QED
  BY <1>1, <1>4 DEF Held, Sheltered, Sock

LEMMA AnswerHolds ==
    ASSUME Transports = {"socket"}, FlushSound, Held, Answer
    PROVE  Held'
<1>1. /\ served # NoFrame /\ served' = NoFrame /\ UNCHANGED <<queue, wire>>
      /\ client' = IF served.to = NoClient THEN client
                   ELSE [client EXCEPT ![served.to].phase = "answered",
                                       ![served.to].reply = served.reply]
      /\ client \in [Clients -> Flushes] /\ served \in Servings
      /\ wire \subseteq Frames
  BY DEF Answer, FlushSound, FlushTypes
<1>2. CASE served.to = NoClient
  BY <1>1, <1>2, HeldByServer
<1>3. CASE served.to # NoClient
  <2> DEFINE k == served.to
             x == [client[k] EXCEPT !.phase = "answered", !.reply = served.reply]
  <2>1. k \in Clients /\ client[k].phase = "sent" /\ client[k].connected
    BY <1>1, <1>3 DEF Servings, Held, Awaited
  <2>2. client' = [client EXCEPT ![k] = x]
    BY <1>1, <1>3
  <2>3. /\ x.phase = "answered" /\ x.flight = client[k].flight
        /\ x.connected = client[k].connected
    BY <1>1, <2>1 DEF Flushes
  <2>4. \A f \in wire : f.to # NoClient => f.to \in Clients /\ f.to # k
    BY <1>1, <1>3 DEF Held, Awaited, Frames
  <2> HIDE DEF k, x
  <2>5. \A c \in Clients : /\ client'[c].flight = client[c].flight
                           /\ client'[c].connected = client[c].connected
                           /\ c # k => client'[c].phase = client[c].phase
    BY <1>1, <2>1, <2>2, <2>3
  <2>6. Awaited'
    BY <1>1, <2>1, <2>4, <2>5 DEF Held, Awaited
  <2>7. ASSUME NEW n \in Nodes PROVE Sheltered(n)'
    <3>1. Sock(n) \in Clients
      BY SocketsOnly
    <3> QED
      BY <1>1, <2>5, <3>1 DEF Held, Sheltered, Sock
  <2> QED
    BY <2>6, <2>7 DEF Held
<1> QED
  BY <1>2, <1>3

\* The socket of client c is down, and the frames it waited for are abandoned.
LEMMA HeldByLeaving ==
    ASSUME Transports = {"socket"}, FlushSound, Held, NEW c \in Clients, NEW x \in Flushes,
           client' = [client EXCEPT ![c] = x], ~x.connected,
           x.phase \notin {"sent", "answered"}, x.flight \subseteq client[c].flight,
           Abandon(c), queue' = queue
    PROVE  Held'
<1>1. client \in [Clients -> Flushes] /\ wire \subseteq Frames
      /\ served \in Servings \cup {NoFrame}
  BY DEF FlushSound, FlushTypes
<1>2. client'[c] = x /\ \A k \in Clients : k # c => client'[k] = client[k]
  BY <1>1
<1>3. \A f \in wire' : f.to # NoClient => f \in wire /\ f.to \in Clients /\ f.to # c
  <2>1. PICK kept \in SUBSET {f \in wire : f.to = c} :
           wire' = (wire \ {f \in wire : f.to = c})
                      \cup {[f EXCEPT !.to = NoClient] : f \in kept}
    BY DEF Abandon
  <2>2. \A f \in kept : [f EXCEPT !.to = NoClient].to = NoClient
    BY <1>1 DEF Frames
  <2> QED
    BY <1>1, <2>1, <2>2 DEF Frames
<1>4. served' # NoFrame /\ served'.to # NoClient =>
         /\ served # NoFrame /\ served'.to = served.to
         /\ served.to \in Clients /\ served.to # c
  <2>1. CASE served # NoFrame /\ served.to = c
    <3>1. served' = [served EXCEPT !.to = NoClient] /\ served \in Servings
      BY <1>1, <2>1 DEF Abandon
    <3>2. served'.to = NoClient
      BY <3>1 DEF Servings
    <3> QED
      BY <3>2
  <2>2. CASE ~(served # NoFrame /\ served.to = c)
    <3>1. served' = served
      BY <2>2 DEF Abandon
    <3> QED
      BY <1>1, <2>2, <3>1 DEF Servings
  <2> QED
    BY <2>1, <2>2
<1>5. Awaited'
  <2>1. \A k \in Clients : client'[k].phase \in {"sent", "answered"} => client'[k].connected
    BY <1>2 DEF Held, Awaited
  <2>2. \A f \in wire' : f.to # NoClient =>
           /\ client'[f.to].phase = "sent"
           /\ served' # NoFrame => served'.to # f.to
           /\ \A g \in wire' : g.to = f.to => g = f
    BY <1>2, <1>3, <1>4 DEF Held, Awaited
  <2>3. served' # NoFrame /\ served'.to # NoClient => client'[served'.to].phase = "sent"
    BY <1>2, <1>4 DEF Held, Awaited
  <2> QED
    BY <2>1, <2>2, <2>3 DEF Awaited
<1>6. ASSUME NEW n \in Nodes PROVE Sheltered(n)'
  <2>1. Sock(n) \in Clients /\ Sheltered(n)
    BY SocketsOnly DEF Held
  <2>2. CASE Sock(n) = c
    BY <1>2, <2>1, <2>2 DEF Sheltered, Sock
  <2>3. CASE Sock(n) # c
    BY <1>2, <2>1, <2>3 DEF Sheltered, Sock
  <2> QED
    BY <2>2, <2>3
<1> QED
  BY <1>5, <1>6 DEF Held

\* A client whose connection is gone waits for nothing.
LEMMA BrokenSocket ==
    ASSUME Transports = {"socket"}, FlushSound, NEW c \in Clients
    PROVE  /\ Broken(c) \in Flushes /\ ~Broken(c).connected
           /\ Broken(c).phase \notin {"sent", "answered"}
           /\ Broken(c).flight = client[c].flight
<1>1. IsSocket(c) /\ client[c] \in Flushes
  BY SocketsOnly DEF FlushSound, FlushTypes
<1>2. Broken(c).phase \notin {"sent", "answered"}
  BY <1>1 DEF Broken, Flushes
<1> QED
  BY <1>1, <1>2, BrokenClient

LEMMA FailuresHold ==
    ASSUME Transports = {"socket"}, FlushSound, Held,
           \/ \E c \in Clients : Disconnect(c) \/ CrashClient(c)
           \/ CrashMain
    PROVE  Held'
<1>1. ASSUME NEW c \in Clients, Disconnect(c) PROVE Held'
  <2>1. client' = [client EXCEPT ![c] = Broken(c)] /\ Abandon(c) /\ queue' = queue
    BY <1>1 DEF Disconnect
  <2>2. Broken(c).flight \subseteq client[c].flight
    BY BrokenSocket
  <2> QED
    BY <2>1, <2>2, BrokenSocket, HeldByLeaving
<1>2. ASSUME NEW c \in Clients, CrashClient(c) PROVE Held'
  <2>1. client' = [client EXCEPT ![c] = Idle(FALSE)] /\ Abandon(c) /\ queue' = queue
    BY <1>2, SocketsOnly DEF CrashClient
  <2>2. /\ Idle(FALSE) \in Flushes /\ ~Idle(FALSE).connected
        /\ Idle(FALSE).phase \notin {"sent", "answered"}
        /\ Idle(FALSE).flight \subseteq client[c].flight
    BY IdleIsSound
  <2> QED
    BY <2>1, <2>2, HeldByLeaving
<1>3. CASE CrashMain
  <2>1. /\ served' = NoFrame /\ wire' = {} /\ queue' = queue
        /\ client' = [c \in Clients |-> Broken(c)]
    BY <1>3 DEF CrashMain
  <2>2. \A c \in Clients : /\ ~client'[c].connected
                           /\ client'[c].phase \notin {"sent", "answered"}
                           /\ client'[c].flight = client[c].flight
    BY <2>1, BrokenSocket
  <2>3. Awaited'
    BY <2>1, <2>2 DEF Awaited
  <2>4. ASSUME NEW n \in Nodes PROVE Sheltered(n)'
    <3>1. Sock(n) \in Clients /\ Sheltered(n)
      BY SocketsOnly DEF Held
    <3> QED
      BY <2>1, <2>2, <3>1 DEF Sheltered, Sock
  <2> QED
    BY <2>3, <2>4 DEF Held
<1> QED
  BY <1>1, <1>2, <1>3

LEMMA HeldStep ==
    ASSUME Transports = {"socket"}, Engine, FlushSound, Held, [FlushNext]_allVars
    PROVE  Held'
BY EnqueueHolds, ClientStepsHold, HandleResultsHolds, FailFlushHolds, ServerStepsHold,
   ReadFrameHolds, AnswerHolds, FailuresHold DEF FlushNext

LEMMA HeldInit ==
    ASSUME Transports = {"socket"}, FlushInit
    PROVE  Held
<1>1. /\ queue = [op \in Ops |-> "none"] /\ wire = {} /\ served = NoFrame
      /\ \A c \in Clients : client[c] = Idle(~IsSocket(c))
  BY DEF FlushInit
<1>2. \A c \in Clients : client[c].phase = "idle" /\ client[c].flight = {}
  <2> SUFFICES ASSUME NEW c \in Clients
               PROVE  client[c].phase = "idle" /\ client[c].flight = {}
    OBVIOUS
  <2>1. client[c] = Idle(FALSE)
    BY <1>1, SocketsOnly
  <2> QED
    BY <2>1, IdleIsSound
<1>3. Awaited
  BY <1>1, <1>2 DEF Awaited
<1>4. ASSUME NEW n \in Nodes PROVE Sheltered(n)
  <2>1. Sock(n) \in Clients /\ \A s \in Slots : <<n, s>> \in Ops
    BY SocketsOnly DEF Ops
  <2> QED
    BY <1>1, <1>2, <2>1 DEF Sheltered
<1> QED
  BY <1>3, <1>4 DEF Held

\* Where every node flushes over its socket only, no row is stranded in sending: a flush
\* of the node's socket holds it, or the socket is yet to be connected, and the hello_ack
\* handler of ws_client.ts resets the rows an earlier process or connection left so.
THEOREM NothingIsStranded ==
    ASSUME Transports = {"socket"}
    PROVE  FlushSpec => []NoStranding
<1>1. FlushInit => Held
  BY HeldInit
<1>2. Engine /\ FlushSound /\ Held /\ [FlushNext]_allVars => Held'
  BY HeldStep
<1>3. Held => NoStranding
  <2> SUFFICES ASSUME Held, NEW op \in Ops, queue[op] = "sending"
               PROVE  \E c \in Clients :
                         /\ Node(c) = Origin(op)
                         /\ \/ LocalSequence(op) \in client[c].flight
                            \/ IsSocket(c) /\ ~client[c].connected
    BY DEF NoStranding
  <2>1. op = <<Origin(op), LocalSequence(op)>> /\ Origin(op) \in Nodes
        /\ LocalSequence(op) \in Slots
    BY OpParts
  <2>2. Sheltered(Origin(op))
    BY <2>1 DEF Held
  <2> DEFINE c == Sock(Origin(op))
  <2>3. c \in Clients /\ Node(c) = Origin(op) /\ IsSocket(c)
    BY <2>1, SocketsOnly
  <2>4. LocalSequence(op) \in client[c].flight \/ ~client[c].connected
    BY <2>1, <2>2 DEF Sheltered
  <2> QED
    BY <2>3, <2>4
<1> QED
  BY <1>1, <1>2, <1>3, FlushInvariance, PTL DEF FlushSpec

=============================================================================
