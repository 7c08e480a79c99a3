------------------------------ MODULE SyncFlush ------------------------------
(***************************************************************************)
(* The way of an operation from the persistent queue of its origin node to *)
(* the main node and of its verdict back (src/tim/sync/queue.ts,           *)
(* ws_client.ts, runner.ts, server.ts).  The web process of a node flushes *)
(* over one long-lived socket; a "tim sync" command flushes over HTTP; the *)
(* two share the node's database.  Connections break, either process may   *)
(* die, and a frame that was sent may arrive late or not at all.           *)
(*                                                                         *)
(* The main node is SyncApply: its engine decides what a frame holds.      *)
(***************************************************************************)
EXTENDS SyncApply, FiniteSetsExt

CONSTANTS
    Transports,     \* the transports in use, a subset of {"socket", "command"}
    BatchErrors,    \* whether a transient database error may hit a batch
    MaxFailures,    \* bound: breaks, crashes and transient errors in a behaviour
    NoClient,       \* nobody waits for the frame any more
    NoFrame         \* the main node is not serving a frame

ASSUME FlushAssumption ==
    /\ Transports \subseteq {"socket", "command"}
    /\ BatchErrors \in BOOLEAN
    /\ MaxFailures \in Nat

\* A client is a node's use of a transport: one process flushing the node's queue.
Clients == Nodes \X Transports
Node(c) == c[1]
IsSocket(c) == c[2] = "socket"

Flushable == {"queued", "failed_retryable"}
Settlements == {"acked", "conflict", "rejected"}
QueueStatus == {"none", "queued", "sending", "failed_retryable"} \cup Settlements

ResultStatus == Verdicts \cup {"deferred", "failed_retryable"}
Replies == [Slots -> ResultStatus \cup {"none"}]
NoReply == [s \in Slots |-> "none"]

\* A flush in progress: the rows listed and still to be marked, the rows marked that no
\* result has been handled for, and the results of the frame being waited for.
Flushes == [phase : {"idle", "marking", "sent", "answered", "failing"},
            connected : BOOLEAN, listed : SUBSET Slots, flight : SUBSET Slots,
            reply : Replies]

Idle(connected) == [phase |-> "idle", connected |-> connected, listed |-> {},
                    flight |-> {}, reply |-> NoReply]

Frames == [to : Clients \cup {NoClient}, node : Nodes, slots : SUBSET Slots]
Servings == [to : Clients \cup {NoClient}, node : Nodes, slots : SUBSET Slots,
             reply : Replies]

ASSUME NoFrameAssumption == NoFrame \notin Servings

VARIABLES
    queue,      \* [Ops -> QueueStatus], sync_operation.status at the origin
    client,     \* [Clients -> Flushes]
    wire,       \* frames sent and not yet read by the main node
    served,     \* the frame the main node is serving, or NoFrame
    failures    \* how many failures have happened

flushVars == <<queue, client, wire, served, failures>>
allVars == <<vars, flushVars>>

FlushTypeOK ==
    /\ TypeOK
    /\ queue \in [Ops -> QueueStatus]
    /\ client \in [Clients -> Flushes]
    /\ wire \subseteq Frames
    /\ served \in Servings \cup {NoFrame}
    /\ failures \in 0 .. MaxFailures

-----------------------------------------------------------------------------
(* The queue of a node.                                                    *)

\* enqueueOperation and enqueueBatch: the rows are inserted by the transaction that
\* allocates their sequence numbers.
Enqueue(n) ==
    /\ IssueOperation(n) \/ IssueBatch(n)
    /\ queue' = [op \in Ops |->
          IF content[op] # content'[op] THEN "queued" ELSE queue[op]]
    /\ UNCHANGED <<client, wire, served, failures>>

\* Faulty variant of ResetSending: the rows stay as an earlier process left them.
ResetSendingNever(n) == queue

\* resetSendingOperations
ResetSending(n) ==
    [op \in Ops |-> IF Origin(op) = n /\ queue[op] = "sending"
                      THEN "failed_retryable" ELSE queue[op]]

-----------------------------------------------------------------------------
(* A client.                                                               *)

\* Every row of a batch that is in flight is in flight.
CompleteBatches(n, flight) ==
    \A s \in flight : content[<<n, s>>].batched =>
        content[<<n, s>>].first .. content[<<n, s>>].last \subseteq flight

\* rowsToFlushFrames: the first frame of the rows still in flight is a whole batch, or
\* the longest run of operations that belong to no batch.
FirstFrame(n, flight) ==
    LET head == content[<<n, Min(flight)>>]
    IN  IF head.batched THEN head.first .. head.last
        ELSE {s \in flight : \A t \in flight : t <= s => ~content[<<n, t>>].batched}

Send(c, flight) ==
    wire' = wire \cup {[to |-> c, node |-> Node(c), slots |-> FirstFrame(Node(c), flight)]}

\* hello_ack: rows left in sending by an earlier process or connection are retryable.
Connect(c) ==
    /\ IsSocket(c)
    /\ client[c] = Idle(FALSE)
    /\ client' = [client EXCEPT ![c].connected = TRUE]
    /\ queue' = ResetSending(Node(c))
    /\ UNCHANGED <<vars, wire, served, failures>>

\* flushPending lists the rows to send; a command may first recover stranded rows.
ListPending(c) ==
    /\ client[c] = Idle(TRUE)
    /\ \/ queue' = queue
       \/ ~IsSocket(c) /\ queue' = ResetSending(Node(c))
    /\ LET pending == {s \in Slots : queue'[<<Node(c), s>>] \in Flushable}
       IN  /\ pending # {}
           /\ client' = [client EXCEPT ![c].phase = "marking", ![c].listed = pending]
    /\ UNCHANGED <<vars, wire, served, failures>>

\* markOperationSending, one row at a time.  A row that another client has taken since
\* it was listed is an illegal transition, which fails the flush.
MarkSending(c) ==
    /\ client[c].phase = "marking"
    /\ client[c].listed # {}
    /\ LET s  == Min(client[c].listed)
           op == <<Node(c), s>>
       IN  IF queue[op] \in Flushable
             THEN /\ queue' = [queue EXCEPT ![op] = "sending"]
                  /\ client' = [client EXCEPT ![c].listed = @ \ {s},
                                              ![c].flight = @ \cup {s}]
             ELSE /\ client' = [client EXCEPT ![c].listed = {}, ![c].phase = "failing"]
                  /\ UNCHANGED queue
    /\ UNCHANGED <<vars, wire, served, failures>>

\* The rows are cut into frames, and the first one is sent.
SendFirst(c) ==
    /\ client[c].phase = "marking"
    /\ client[c].listed = {}
    /\ LET flight == client[c].flight
       IN  IF client[c].connected /\ CompleteBatches(Node(c), flight)
             THEN /\ client' = [client EXCEPT ![c].phase = "sent"]
                  /\ Send(c, flight)
             ELSE /\ client' = [client EXCEPT ![c].phase = "failing"]
                  /\ UNCHANGED wire
    /\ UNCHANGED <<vars, queue, served, failures>>

\* Faulty variants of Transition: the result becomes the status of the row, and every
\* result that is neither a conflict nor a rejection counts as an acknowledgement.
TransitionVerbatim(row, result) ==
    IF result = "none" \/ row \in Settlements THEN row ELSE result

TransitionOptimistic(row, result) ==
    IF result = "none" \/ row \in Settlements THEN row
    ELSE IF result \in {"conflict", "rejected"} THEN result ELSE "acked"

\* What a result does to the row of its operation, whatever the row has become since.
Transition(row, result) ==
    IF result = "none" \/ row \in Settlements THEN row
    ELSE CASE result = "applied" -> "acked"
           [] result \in {"conflict", "rejected"} -> result
           [] OTHER -> "failed_retryable"

\* transitionOperation throws: a verdict for a row that was put back to queued cannot be,
\* and only a row in sending can become failed_retryable.
LegalTransition(row, result) ==
    \/ result = "none" \/ row \in Settlements
    \/ row = "sending"
    \/ row = "failed_retryable" /\ result \in Verdicts

\* handleOperationResults: one transaction moves the rows of every result of the frame;
\* if one of them is illegal, none moves and the flush fails, and so does the socket.
HandleResults(c) ==
    /\ client[c].phase = "answered"
    /\ LET reply == client[c].reply
           row(s) == queue[<<Node(c), s>>]
           rest == {s \in client[c].flight : reply[s] = "none"}
       IN  IF \A s \in Slots : LegalTransition(row(s), reply[s])
             THEN /\ queue' = [op \in Ops |->
                        IF Origin(op) = Node(c)
                          THEN Transition(queue[op], reply[LocalSequence(op)])
                          ELSE queue[op]]
                  /\ IF rest = {}
                       THEN client' = [client EXCEPT ![c] = Idle(TRUE)] /\ UNCHANGED wire
                       ELSE /\ client' = [client EXCEPT ![c].phase = "sent",
                                             ![c].flight = rest, ![c].reply = NoReply]
                            /\ Send(c, rest)
             ELSE /\ client' = [client EXCEPT ![c].phase = "failing", ![c].reply = NoReply,
                                              ![c].connected = ~IsSocket(c)]
                  /\ UNCHANGED <<queue, wire>>
    /\ UNCHANGED <<vars, served, failures>>

\* The catch block of a flush: markOperationFailedRetryable for one row after the other.
\* Settled rows are passed over; a row that is not in sending ends the block early.
FailFlush(c) ==
    /\ client[c].phase = "failing"
    /\ IF client[c].flight = {}
         THEN client' = [client EXCEPT ![c] = Idle(@.connected)] /\ UNCHANGED queue
       ELSE
         LET s  == Min(client[c].flight)
             op == <<Node(c), s>>
         IN  CASE queue[op] = "sending" ->
                    /\ queue' = [queue EXCEPT ![op] = "failed_retryable"]
                    /\ client' = [client EXCEPT ![c].flight = @ \ {s}]
               [] queue[op] \in Settlements ->
                    /\ client' = [client EXCEPT ![c].flight = @ \ {s}]
                    /\ UNCHANGED queue
               [] OTHER ->
                    /\ client' = [client EXCEPT ![c].flight = {}]
                    /\ UNCHANGED queue
    /\ UNCHANGED <<vars, wire, served, failures>>

-----------------------------------------------------------------------------
(* The main node serves one frame at a time, in one synchronous handler.   *)

ReadFrame ==
    /\ served = NoFrame
    /\ txn = NoTxn
    /\ \E f \in wire :
          /\ served' = [to |-> f.to, node |-> f.node, slots |-> f.slots, reply |-> NoReply]
          /\ wire' = wire \ {f}
    /\ UNCHANGED <<vars, queue, client, failures>>

Unanswered == {s \in served.slots : served.reply[s] = "none"}
ServedOp == <<served.node, Min(Unanswered)>>
ServingBatch == content[<<served.node, Min(served.slots)>>].batched

\* operationResult: a validation error is reported as a rejection.
ResultOf(status) == IF status = "invalid" THEN "rejected" ELSE status

\* One operation of an op_batch, in a transaction of its own.
ServeOperation ==
    /\ served # NoFrame
    /\ ~ServingBatch
    /\ Unanswered # {}
    /\ \E r \in Outcomes(db, ServedOp) :
          /\ Decide(ServedOp, r)
          /\ served' = [served EXCEPT !.reply[Min(Unanswered)] = ResultOf(r.status)]
    /\ UNCHANGED <<nextSequence, content, txn, queue, client, wire, failures>>

\* A transient database error: the operation is to be retried, the loop goes on.
TransientError ==
    /\ served # NoFrame
    /\ ~ServingBatch
    /\ Unanswered # {}
    /\ failures < MaxFailures
    /\ failures' = failures + 1
    /\ served' = [served EXCEPT !.reply[Min(Unanswered)] = "failed_retryable"]
    /\ UNCHANGED <<vars, queue, client, wire>>

\* The results of a batch, once applyBatch has returned.
AnswerBatch(result) ==
    served' = [served EXCEPT !.reply =
        [s \in Slots |-> IF s \in served.slots THEN result[<<served.node, s>>] ELSE "none"]]

\* applyBatch on the frame: the batch is replayed, or its transaction runs to the end.
ServeBatch ==
    /\ served # NoFrame
    /\ ServingBatch
    /\ Unanswered # {}
    /\ \/ ReplayBatch(ServedOp) /\ AnswerBatch([op \in Ops |-> Recorded(db.row[op])])
       \/ BeginBatch(ServedOp) /\ UNCHANGED served
       \/ /\ StepBatch
          /\ IF txn' = NoTxn THEN AnswerBatch([op \in Ops |-> "deferred"])
                             ELSE UNCHANGED served
       \/ CommitBatch /\ AnswerBatch([op \in Ops |-> Recorded(txn.work.row[op])])
       \/ PersistRejections /\ AnswerBatch([op \in Ops |-> "rejected"])
    /\ UNCHANGED <<queue, client, wire, failures>>

\* The result frame is sent to whoever still waits for it.
Answer ==
    /\ served # NoFrame
    /\ Unanswered = {}
    /\ served' = NoFrame
    /\ client' = IF served.to = NoClient THEN client
                 ELSE [client EXCEPT ![served.to].phase = "answered",
                                     ![served.to].reply = served.reply]
    /\ UNCHANGED <<vars, queue, wire, failures>>

-----------------------------------------------------------------------------
(* Failures.                                                               *)

\* A client whose connection is gone: the waiters of a flush in progress are rejected.
Broken(c) ==
    [client[c] EXCEPT !.connected = ~IsSocket(c), !.reply = NoReply,
        !.phase = IF @ \in {"sent", "answered"} THEN "failing" ELSE @]

\* The frames c waits for are lost, or reach the main node with nobody to answer to.
Abandon(c) ==
    /\ LET mine == {f \in wire : f.to = c}
       IN  \E kept \in SUBSET mine :
              wire' = (wire \ mine) \cup {[f EXCEPT !.to = NoClient] : f \in kept}
    /\ served' = IF served # NoFrame /\ served.to = c
                   THEN [served EXCEPT !.to = NoClient] ELSE served

\* The connection breaks, or a request of a command fails.
Disconnect(c) ==
    /\ failures < MaxFailures
    /\ failures' = failures + 1
    /\ IF IsSocket(c) THEN client[c].connected ELSE client[c].phase \in {"sent", "answered"}
    /\ client' = [client EXCEPT ![c] = Broken(c)]
    /\ Abandon(c)
    /\ UNCHANGED <<vars, queue>>

\* The process of the client dies: its rows stay as they are.
CrashClient(c) ==
    /\ failures < MaxFailures
    /\ failures' = failures + 1
    /\ client[c].phase # "idle"
    /\ client' = [client EXCEPT ![c] = Idle(~IsSocket(c))]
    /\ Abandon(c)
    /\ UNCHANGED <<vars, queue>>

\* The main node dies while it serves a frame: every connection breaks.
CrashMain ==
    /\ failures < MaxFailures
    /\ failures' = failures + 1
    /\ served # NoFrame
    /\ served' = NoFrame
    /\ wire' = {}
    /\ txn' = NoTxn
    /\ client' = [c \in Clients |-> Broken(c)]
    /\ UNCHANGED <<nextSequence, content, db, told, queue>>

\* A transient database error in applyBatch escapes the handler: a command gets an
\* error response, but nothing is ever sent to a socket, which stays open.
ThrowBatch ==
    /\ BatchErrors
    /\ failures < MaxFailures
    /\ failures' = failures + 1
    /\ served # NoFrame
    /\ ServingBatch
    /\ FailBatch
    /\ served' = NoFrame
    /\ client' = IF served.to # NoClient /\ ~IsSocket(served.to)
                   THEN [client EXCEPT ![served.to] = Broken(served.to)] ELSE client
    /\ UNCHANGED <<queue, wire>>

\* An operator resolves a conflict or clears rejections at the main node meanwhile.
MainCommand ==
    /\ ClearRejected \/ \E op \in Ops : ResolveConflict(op)
    /\ UNCHANGED flushVars

-----------------------------------------------------------------------------

FlushInit ==
    /\ Init
    /\ queue = [op \in Ops |-> "none"]
    /\ client = [c \in Clients |-> Idle(~IsSocket(c))]
    /\ wire = {}
    /\ served = NoFrame
    /\ failures = 0

FlushNext ==
    \/ \E n \in Nodes : Enqueue(n)
    \/ \E c \in Clients :
          \/ Connect(c)
          \/ ListPending(c)
          \/ MarkSending(c)
          \/ SendFirst(c)
          \/ HandleResults(c)
          \/ FailFlush(c)
          \/ Disconnect(c)
          \/ CrashClient(c)
    \/ ReadFrame
    \/ ServeOperation
    \/ TransientError
    \/ ServeBatch
    \/ Answer
    \/ CrashMain
    \/ ThrowBatch
    \/ MainCommand

FlushSpec == FlushInit /\ [][FlushNext]_allVars

\* Reconnecting is retried for ever, a connected client polls its queue every 30 s, and
\* neither event loop stops.  Failures, enqueueing and commands are not fair.
Fairness ==
    /\ \A c \in Clients :
          /\ WF_allVars(IsSocket(c) /\ (Connect(c) \/ ListPending(c)))
          /\ WF_allVars(MarkSending(c) \/ SendFirst(c) \/ HandleResults(c) \/ FailFlush(c))
    /\ WF_allVars(ReadFrame)
    /\ WF_allVars(ServeOperation \/ ServeBatch \/ Answer)

FairFlushSpec == FlushSpec /\ Fairness

-----------------------------------------------------------------------------
(* Properties.                                                             *)

\* What the origin's queue says of an operation is what the main node did with it,
\* across retries, late frames, crashes and two clients flushing the same queue: acked
\* only if applied, in conflict only if recorded so, and rejected only if it never takes
\* effect.  (The announcement of a contested project is the exception, as in Agreement.)
QueueAgreement ==
    \A op \in Ops :
        /\ queue[op] = "acked" => db.row[op] = "applied"
        /\ queue[op] = "conflict" => db.row[op] = "conflict"
        /\ queue[op] = "rejected" =>
              \/ \A i \in DOMAIN db.log : db.log[i].op # op
              \/ content[op].kind = "upsert" /\ content[op].project \in Contested

\* A row is in sending only while something will take it out: a flush holds it, or the
\* socket of the node is yet to be connected, which resets it.
NoStranding ==
    \A op \in Ops : queue[op] = "sending" =>
        \E c \in Clients :
            /\ Node(c) = Origin(op)
            /\ LocalSequence(op) \in client[c].flight \/ (IsSocket(c) /\ ~client[c].connected)

\* A flush sends the operations of a node in the order they were issued, so an operation
\* the main node has decided was preceded by the announcement it relies on.
AnnouncedFirst ==
    \A a, op \in Ops :
        /\ Origin(a) = Origin(op)
        /\ LocalSequence(a) < LocalSequence(op)
        /\ content[a] # NoContent /\ content[op] # NoContent
        /\ content[a].kind = "upsert" /\ content[op].kind = "edit"
        /\ content[a].project = content[op].project
        /\ db.row[op] \in Terminal
        => db.row[a] \in Terminal

\* Every queued operation is settled in the end.
Settles == \A op \in Ops : queue[op] = "queued" ~> queue[op] \in Settlements

\* The fate of an operation as the tables of the main node record it, and as the queue
\* of its origin does.
Fate(op) ==
    CASE content[op] = NoContent -> "unissued"
      [] db.row[op] \in Terminal -> Recorded(db.row[op])
      [] OTHER -> "pending"

Known(op) ==
    CASE queue[op] = "acked" -> "applied"
      [] queue[op] \in {"conflict", "rejected"} -> queue[op]
      [] OTHER -> "unknown"

Delivery == INSTANCE OpDelivery WITH
    Operations <- Ops,
    fate <- [op \in Ops |-> Fate(op)],
    refused <- {op \in Ops : "rejected" \in told[op]},
    known <- [op \in Ops |-> Known(op)]

\* The queue, the transports and the engine together keep the promise of OpDelivery: an
\* operation is settled once, and its origin is told how it was settled.
DeliveryImplemented == Delivery!Spec

=============================================================================
