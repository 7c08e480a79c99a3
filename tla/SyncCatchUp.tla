----------------------------- MODULE SyncCatchUp -----------------------------
(***************************************************************************)
(* How canonical state spreads from the main node to the persistent nodes  *)
(* (src/tim/sync/server.ts, ws_client.ts, runner.ts, result_application.ts, *)
(* retention.ts, bootstrap.ts).  Every change of an entity appends a row   *)
(* to sync_sequence.  The web process of the main node announces its own   *)
(* writes to the connected sockets; a node then fetches snapshots of the   *)
(* entities named, overwrites its copies and advances its cursor.  A node  *)
(* that connects asks for the rows past its cursor.  Old rows are pruned.  *)
(*                                                                         *)
(* An entity is a target key, and its state is the row of the change that  *)
(* produced it; deleting an entity is a change like any other.             *)
(***************************************************************************)
EXTENDS Integers, Sequences, SequencesExt, FiniteSetsExt

CONSTANTS
    Nodes,          \* the persistent nodes
    Keys,           \* the target keys
    ExternalWrites, \* whether other processes write the main node's database
    Commands,       \* whether nodes run "tim sync" commands beside the web process
    TimePruning,    \* whether rows may exceed the retention age
    MaxSequence,    \* bound: rows of sync_sequence
    MaxWrite,       \* bound: rows of one transaction
    MaxFailures     \* bound: breaks and crashes in a behaviour

ASSUME CatchUpAssumption ==
    /\ Nodes # {} /\ IsFiniteSet(Keys)
    /\ {ExternalWrites, Commands, TimePruning} \subseteq BOOLEAN
    /\ MaxSequence \in Nat \ {0}
    /\ MaxWrite \in Nat \ {0}
    /\ MaxFailures \in Nat

Rows == 0 .. MaxSequence
Versions == [Keys -> Rows]

\* A frame from the main node: the keys it names or carries, the sequence the receiver
\* may advance its cursor to, and the snapshots.
ServerFrames == [type : {"hello_ack", "invalidate", "catch_up", "result", "snapshots",
                         "status"},
                 keys : SUBSET Keys, sequence : Rows, values : Versions]

ClientFrames == [type : {"catch_up", "snapshots", "status"},
                 keys : SUBSET Keys, since : Rows]

\* A message handler of the client that awaits the snapshots of keys, and the sequence
\* it advances the cursor to afterwards.
Handlers == [type : {"invalidate", "catch_up", "result"}, sequence : Rows]

\* One socket of a node: both directions in order, the suspended handlers in the order
\* of their requests, and whether a catch-up request is unanswered.
Sockets == [up : BOOLEAN, inbox : Seq(ServerFrames), outbox : Seq(ClientFrames),
            suspended : Seq(Handlers), catchingUp : BOOLEAN]

NoSocket == [up |-> FALSE, inbox |-> <<>>, outbox |-> <<>>, suspended |-> <<>>,
             catchingUp |-> FALSE]

\* A "tim sync" command: the entities it has to fetch, then their snapshots.
RunningCommands == [phase : {"none", "listed", "fetched"}, keys : SUBSET Keys,
                    sequence : Rows, values : Versions]

NoVersions == [k \in Keys |-> 0]
NoCommand == [phase |-> "none", keys |-> {}, sequence |-> 0, values |-> NoVersions]

VARIABLES
    log,        \* the key of every row ever appended to sync_sequence
    pruned,     \* the rows 1 .. pruned have been deleted
    version,    \* [Keys -> Nat], the canonical entities of the main node
    peerCursor, \* [Nodes -> Nat], the cursors the nodes have reported to the main node
    replica,    \* [Nodes -> [Keys -> Nat]], the canonical tables of the nodes
    cursor,     \* [Nodes -> Nat], last_known_sequence_id of the nodes
    socket,     \* [Nodes -> Sockets]
    command,    \* [Nodes -> RunningCommands]
    failures    \* how many failures have happened

mainVars == <<log, pruned, version, peerCursor>>
nodeVars == <<replica, cursor>>
vars == <<log, pruned, version, peerCursor, replica, cursor, socket, command, failures>>

TypeOK ==
    /\ log \in Seq(Keys) /\ Len(log) <= MaxSequence
    /\ pruned \in 0 .. Len(log)
    /\ version \in Versions
    /\ peerCursor \in [Nodes -> Rows]
    /\ replica \in [Nodes -> Versions]
    /\ cursor \in [Nodes -> Rows]
    /\ socket \in [Nodes -> Sockets]
    /\ command \in [Nodes -> RunningCommands]
    /\ failures \in 0 .. MaxFailures

-----------------------------------------------------------------------------
(* The main node.                                                          *)

\* Faulty variant of CurrentSequence: the largest number among the rows that are left.
CurrentSequenceLeft == IF pruned = Len(log) THEN 0 ELSE Len(log)

\* getCurrentSequenceId: the last number given out, whether its row is pruned or not.
CurrentSequence == Len(log)

\* Faulty variant of RowsPast: the first row past the cursor is left out.
RowsPastNext(since) == {i \in DOMAIN log : i > since + 1 /\ i > pruned}

\* The rows that are still there and lie past a cursor.
RowsPast(since) == {i \in DOMAIN log : i > since /\ i > pruned}

ServerFrame(type, keys, sequence, values) ==
    [type |-> type, keys |-> keys, sequence |-> sequence, values |-> values]

\* loadCanonicalSnapshot of every key.
Snapshots(keys) == [k \in Keys |-> IF k \in keys THEN version[k] ELSE 0]

Announce(type, keys, sequence) == ServerFrame(type, keys, sequence, NoVersions)

\* The last row of an entity.
LastRow(rows, k) == Max({i \in DOMAIN rows : rows[i] = k} \cup {0})

\* One transaction changes some entities and appends a row for each.
Change(keys) ==
    /\ Len(log) + Cardinality(keys) <= MaxSequence
    /\ log' = log \o SetToSeq(keys)
    /\ version' = [k \in Keys |-> IF k \in keys THEN LastRow(log', k) ELSE version[k]]
    /\ UNCHANGED <<pruned, peerCursor>>

\* broadcast: an invalidate frame for every authenticated socket but the excluded one.
Broadcast(keys, excluded, result) ==
    socket' = [n \in Nodes |->
        CASE ~socket[n].up -> socket[n]
          [] socket[n].up /\ n = excluded -> [socket[n] EXCEPT !.inbox = Append(@, result)]
          [] OTHER -> [socket[n] EXCEPT
                         !.inbox = Append(@, Announce("invalidate", keys, Len(log')))]]

WriteSets == {keys \in SUBSET Keys : Cardinality(keys) \in 1 .. MaxWrite}

\* A write of the web process: a local one, or an operation of a node not modelled.
MainWrite(keys) ==
    /\ Change(keys)
    /\ Broadcast(keys, "nobody", Announce("result", keys, 0))
    /\ UNCHANGED <<nodeVars, command, failures>>

\* A write of another process of the main node, which has no sockets.
ExternalWrite(keys) ==
    /\ ExternalWrites
    /\ Change(keys)
    /\ UNCHANGED <<nodeVars, socket, command, failures>>

\* An operation node n has flushed over its socket: n gets the result instead.
NodeWrite(n, keys) ==
    /\ socket[n].up
    /\ Change(keys)
    /\ Broadcast(keys, n, Announce("result", keys, 0))
    /\ UNCHANGED <<nodeVars, command, failures>>

\* Faulty variant of PeerCutoff: a node that has never reported a cursor does not count.
PeerCutoffReported ==
    LET reported == {peerCursor[n] : n \in Nodes} \ {0}
    IN  IF reported = {} THEN 0 ELSE Min(reported)

\* pruneSyncSequence: the smallest cursor of a persistent node, a node that has never
\* reported one counting as 0.
PeerCutoff == Min({peerCursor[n] : n \in Nodes})

Prune ==
    /\ \E aged \in {0} \cup (IF TimePruning THEN DOMAIN log ELSE {}) :
          LET cutoff == Max({PeerCutoff, aged + 1})
          IN  /\ cutoff - 1 > pruned
              /\ pruned' = cutoff - 1
    /\ UNCHANGED <<log, version, peerCursor, nodeVars, socket, command, failures>>

\* Faulty variant of Advance: the sequence counts as an increment.
AdvanceBy(current, sequence) == current + sequence

\* updateTimNodeCursor: the cursor never moves back.
Advance(current, sequence) == Max({current, sequence})

\* The main node serves the oldest frame of a socket.
Serve(n) ==
    /\ socket[n].outbox # <<>>
    /\ LET f == Head(socket[n].outbox)
           reply ==
             CASE f.type = "catch_up" ->
                    Announce("catch_up", {log[i] : i \in RowsPast(f.since)}, CurrentSequence)
               [] f.type = "snapshots" -> ServerFrame("snapshots", f.keys, 0, Snapshots(f.keys))
               [] f.type = "status" -> Announce("status", {}, CurrentSequence)
       IN  /\ socket' = [socket EXCEPT ![n].outbox = Tail(@), ![n].inbox = Append(@, reply)]
           /\ peerCursor' = [peerCursor EXCEPT ![n] =
                 IF f.type = "catch_up" THEN Advance(@, f.since) ELSE @]
    /\ UNCHANGED <<log, pruned, version, nodeVars, command, failures>>

-----------------------------------------------------------------------------
(* The socket of a node.                                                   *)

\* The socket opens, the client says hello with its cursor and the main node accepts.
Connect(n) ==
    /\ ~socket[n].up
    /\ socket' = [socket EXCEPT ![n] =
          [NoSocket EXCEPT !.up = TRUE, !.inbox = <<Announce("hello_ack", {}, 0)>>]]
    /\ peerCursor' = [peerCursor EXCEPT ![n] = Advance(@, cursor[n])]
    /\ UNCHANGED <<log, pruned, version, nodeVars, command, failures>>

\* Faulty variant of CatchUpRequest: the cursor is the first row wanted.
CatchUpRequestNext(n) == [type |-> "catch_up", keys |-> {}, since |-> cursor[n] + 1]

CatchUpRequest(n) == [type |-> "catch_up", keys |-> {}, since |-> cursor[n]]
SnapshotRequest(keys) == [type |-> "snapshots", keys |-> keys, since |-> 0]

Received(n, type) == socket[n].inbox # <<>> /\ Head(socket[n].inbox).type = type

\* hello_ack, or a sequence status beyond the cursor while no catch-up is under way.
HandleStatus(n) ==
    /\ Received(n, "hello_ack") \/ Received(n, "status")
    /\ LET f == Head(socket[n].inbox)
           ask == \/ f.type = "hello_ack"
                  \/ ~socket[n].catchingUp /\ f.sequence > cursor[n]
       IN  socket' = [socket EXCEPT
               ![n].inbox = Tail(@),
               ![n].outbox = IF ask THEN Append(@, CatchUpRequest(n)) ELSE @,
               ![n].catchingUp = ask \/ @]
    /\ UNCHANGED <<mainVars, nodeVars, command, failures>>

\* A frame that names entities: the handler asks for their snapshots and is suspended.
\* Frames that arrive meanwhile are handled by handlers of their own.
HandleAnnouncement(n) ==
    /\ Received(n, "invalidate") \/ Received(n, "catch_up") \/ Received(n, "result")
    /\ LET f == Head(socket[n].inbox)
       IN  IF f.keys # {}
             THEN /\ socket' = [socket EXCEPT
                        ![n].inbox = Tail(@),
                        ![n].outbox = Append(@, SnapshotRequest(f.keys)),
                        ![n].suspended =
                            Append(@, [type |-> f.type, sequence |-> f.sequence])]
                  /\ UNCHANGED cursor
             ELSE /\ socket' = [socket EXCEPT ![n].inbox = Tail(@),
                        ![n].catchingUp = @ /\ f.type # "catch_up"]
                  /\ cursor' = [cursor EXCEPT ![n] = Advance(@, f.sequence)]
    /\ UNCHANGED <<mainVars, replica, command, failures>>

\* Faulty variant of Merge: an entity without a snapshot counts as deleted.
MergeAll(copies, keys, values) == values

\* mergeCanonicalRefresh for every snapshot: the copy of the node is overwritten.
Merge(copies, keys, values) ==
    [k \in Keys |-> IF k \in keys THEN values[k] ELSE copies[k]]

\* The snapshots arrive: the oldest handler resumes, merges them and moves the cursor.
HandleSnapshots(n) ==
    /\ Received(n, "snapshots")
    /\ LET f == Head(socket[n].inbox)
           handler == Head(socket[n].suspended)
       IN  /\ replica' = [replica EXCEPT ![n] = Merge(@, f.keys, f.values)]
           /\ cursor' = [cursor EXCEPT ![n] = Advance(@, handler.sequence)]
           /\ socket' = [socket EXCEPT ![n].inbox = Tail(@), ![n].suspended = Tail(@),
                                       ![n].catchingUp = @ /\ handler.type # "catch_up"]
    /\ UNCHANGED <<mainVars, command, failures>>

\* The sequence status loop: a connection that has been quiet for a minute is polled.
\* (A poll when nothing is missing changes nothing and is left out.)
PollStatus(n) ==
    /\ socket[n].up
    /\ socket[n].inbox = <<>> /\ socket[n].outbox = <<>>
    /\ CurrentSequence > cursor[n]
    /\ socket' = [socket EXCEPT ![n].outbox =
          <<[type |-> "status", keys |-> {}, since |-> 0]>>]
    /\ UNCHANGED <<mainVars, nodeVars, command, failures>>

-----------------------------------------------------------------------------
(* Commands of a node, in a process of their own.                          *)

\* runSyncCatchUpOnce, after resetTimNodeCursor if the catch-up is to be full.
CatchUpCommand(n) ==
    /\ Commands
    /\ command[n] = NoCommand
    /\ \E since \in {0, cursor[n]} :
          /\ cursor' = [cursor EXCEPT ![n] = since]
          /\ peerCursor' = [peerCursor EXCEPT ![n] = Advance(@, since)]
          /\ command' = [command EXCEPT ![n] =
                [phase |-> "listed", keys |-> {log[i] : i \in RowsPast(since)},
                 sequence |-> CurrentSequence, values |-> NoVersions]]
    /\ UNCHANGED <<log, pruned, version, replica, socket, failures>>

\* An operation a command of node n has flushed: every socket hears of it, and the
\* command fetches the entities its result names.
CommandWrite(n, keys) ==
    /\ Commands
    /\ command[n] = NoCommand
    /\ Change(keys)
    /\ Broadcast(keys, "nobody", Announce("result", keys, 0))
    /\ command' = [command EXCEPT ![n] =
          [phase |-> "listed", keys |-> keys, sequence |-> 0, values |-> NoVersions]]
    /\ UNCHANGED <<nodeVars, failures>>

\* fetchSnapshotsOverHttp
CommandFetch(n) ==
    /\ command[n].phase = "listed"
    /\ command' = [command EXCEPT ![n].phase = "fetched",
                                  ![n].values = Snapshots(command[n].keys)]
    /\ UNCHANGED <<mainVars, nodeVars, socket, failures>>

CommandMerge(n) ==
    /\ command[n].phase = "fetched"
    /\ replica' = [replica EXCEPT ![n] = Merge(@, command[n].keys, command[n].values)]
    /\ cursor' = [cursor EXCEPT ![n] = Advance(@, command[n].sequence)]
    /\ command' = [command EXCEPT ![n] = NoCommand]
    /\ UNCHANGED <<mainVars, socket, failures>>

-----------------------------------------------------------------------------
(* Failures.                                                               *)

\* The connection breaks, a snapshot times out, or the web process of the node dies:
\* frames on the way are lost and suspended handlers are rejected.
Disconnect(n) ==
    /\ failures < MaxFailures
    /\ failures' = failures + 1
    /\ socket[n].up
    /\ socket' = [socket EXCEPT ![n] = NoSocket]
    /\ UNCHANGED <<mainVars, nodeVars, command>>

\* A request of a command fails, or the command dies.
FailCommand(n) ==
    /\ failures < MaxFailures
    /\ failures' = failures + 1
    /\ command[n] # NoCommand
    /\ command' = [command EXCEPT ![n] = NoCommand]
    /\ UNCHANGED <<mainVars, nodeVars, socket>>

\* The web process of the main node restarts: bootstrapSyncMetadata appends a row for
\* every entity that has none left, unless what was pruned was its deletion.
Unlisted == {k \in Keys : version[k] > 0 /\ \A i \in RowsPast(0) : log[i] # k}

RestartMain ==
    /\ failures < MaxFailures
    /\ failures' = failures + 1
    /\ \E present \in SUBSET Unlisted :
          /\ Len(log) + Cardinality(present) <= MaxSequence
          /\ log' = log \o SetToSeq(present)
    /\ socket' = [n \in Nodes |-> NoSocket]
    /\ UNCHANGED <<pruned, version, peerCursor, nodeVars, command>>

-----------------------------------------------------------------------------

\* The main node starts with some entities from before synchronisation was set up, and
\* bootstrapSyncMetadata has listed them; the nodes have none of them.
Init ==
    /\ \E existing \in SUBSET Keys :
          /\ Cardinality(existing) <= MaxSequence
          /\ log = SetToSeq(existing)
          /\ version = [k \in Keys |-> LastRow(log, k)]
    /\ pruned = 0
    /\ peerCursor = [n \in Nodes |-> 0]
    /\ replica = [n \in Nodes |-> NoVersions]
    /\ cursor = [n \in Nodes |-> 0]
    /\ socket = [n \in Nodes |-> NoSocket]
    /\ command = [n \in Nodes |-> NoCommand]
    /\ failures = 0

Next ==
    \/ \E keys \in WriteSets :
          \/ MainWrite(keys)
          \/ ExternalWrite(keys)
          \/ \E n \in Nodes : NodeWrite(n, keys) \/ CommandWrite(n, keys)
    \/ Prune
    \/ RestartMain
    \/ \E n \in Nodes :
          \/ Serve(n)
          \/ Connect(n)
          \/ HandleStatus(n)
          \/ HandleAnnouncement(n)
          \/ HandleSnapshots(n)
          \/ PollStatus(n)
          \/ CatchUpCommand(n)
          \/ CommandFetch(n)
          \/ CommandMerge(n)
          \/ Disconnect(n)
          \/ FailCommand(n)

Spec == Init /\ [][Next]_vars

\* Both event loops keep handling frames, the client keeps reconnecting and polling, and
\* a command that was started goes on.  Writes, pruning and failures are not fair.
Fairness == \A n \in Nodes :
    /\ WF_vars(Connect(n))
    /\ WF_vars(Serve(n))
    /\ WF_vars(HandleStatus(n) \/ HandleAnnouncement(n) \/ HandleSnapshots(n))
    /\ WF_vars(PollStatus(n))
    /\ WF_vars(CommandFetch(n) \/ CommandMerge(n))

FairSpec == Spec /\ Fairness

-----------------------------------------------------------------------------
(* Properties.                                                             *)

\* The copies of a node never go back in time: no snapshot overwrites a newer one.
NoRegression ==
    [][\A n \in Nodes, k \in Keys : replica'[n][k] >= replica[n][k]]_vars

\* No row a node has yet to learn of is pruned, however far behind the node is.
RetainedForPeers == \A n \in Nodes : pruned <= cursor[n]

\* Row i will still reach node n: a message names or carries its entity, or asks for it.
UnderWay(n, i) ==
    LET s == socket[n]
    IN  \/ \E j \in DOMAIN s.inbox :
              /\ log[i] \in s.inbox[j].keys
              /\ s.inbox[j].type = "snapshots" => s.inbox[j].values[log[i]] >= i
        \/ \E j \in DOMAIN s.outbox :
              \/ s.outbox[j].type = "catch_up" /\ s.outbox[j].since < i
              \/ s.outbox[j].type = "snapshots" /\ log[i] \in s.outbox[j].keys

\* The cursor of a node does not run ahead of what the node has or is about to get: the
\* latest change of an entity that lies within the cursor is there or under way.
CursorIsCovered ==
    \A n \in Nodes, k \in Keys :
        version[k] \in 1 .. cursor[n] => replica[n][k] = version[k] \/ UnderWay(n, version[k])

\* A node never claims more than the main node has: no cursor is ever refused as invalid,
\* pruning of all rows included, and no node has a state the main node did not.
NothingInvented ==
    \A n \in Nodes :
        /\ Max({cursor[n], peerCursor[n], command[n].sequence}) <= CurrentSequence
        /\ \A k \in Keys : replica[n][k] <= version[k]

\* Once the writes and failures are over, every node has what the main node has.
Converges == \A n \in Nodes : <>[](replica[n] = version)

=============================================================================
