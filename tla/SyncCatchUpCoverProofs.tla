----------------------- MODULE SyncCatchUpCoverProofs -----------------------
(***************************************************************************)
(* CursorIsCovered, where every write is announced and nothing breaks: the *)
(* latest change of every entity is at a node or under way to it, unless   *)
(* the node has not been greeted yet.                                      *)
(***************************************************************************)
EXTENDS SyncCatchUpProofs

-----------------------------------------------------------------------------
(* What is under way.                                                      *)

\* Frame f names entity k, or carries it as of row i or later.
Brings(f, k, i) == k \in f.keys /\ (f.type = "snapshots" => f.values[k] >= i)

\* The answer to request g will name row i of entity k, or carry the entity.
AsksFor(g, k, i) ==
    \/ g.type = "catch_up" /\ g.since < i
    \/ g.type = "snapshots" /\ k \in g.keys

Coming(q, k, i) == \E j \in DOMAIN q : Brings(q[j], k, i)
Asked(q, k, i) == \E j \in DOMAIN q : AsksFor(q[j], k, i)

\* A node is about to be greeted, and will then ask for all rows past its cursor.
Unmet(s) == ~s.up \/ (s.inbox # <<>> /\ s.inbox[1].type = "hello_ack")

\* A closed socket is empty, greetings come first, and neither they nor reports of the
\* sequence name entities.
Mannered(s) ==
    /\ ~s.up => s.inbox = <<>> /\ s.outbox = <<>>
    /\ \A j \in DOMAIN s.inbox :
          /\ s.inbox[j].type = "hello_ack" => j = 1
          /\ s.inbox[j].type \in {"hello_ack", "status"} => s.inbox[j].keys = {}

\* Catch-up requests ask for later and later rows, all past the cursor reported.
Upward(q, reported) ==
    \A j \in DOMAIN q : q[j].type = "catch_up" =>
        /\ reported <= q[j].since
        /\ \A i \in DOMAIN q : i > j /\ q[i].type = "catch_up" => q[j].since <= q[i].since

\* Every entity is at the node or under way to it.
Supplied(s, copies, values) ==
    \A k \in Keys : values[k] > 0 =>
        \/ copies[k] = values[k]
        \/ Coming(s.inbox, k, values[k]) \/ Asked(s.outbox, k, values[k])
        \/ Unmet(s)

Listed == \A k \in Keys : version[k] > 0 => version[k] \in DOMAIN log /\ log[version[k]] = k

CoveredNode(n) ==
    /\ pruned <= peerCursor[n]
    /\ Mannered(socket[n])
    /\ Upward(socket[n].outbox, peerCursor[n])
    /\ Unmet(socket[n]) => cursor[n] = 0
    /\ Supplied(socket[n], replica[n], version)

Covered == Listed /\ \A n \in Nodes : CoveredNode(n)

-----------------------------------------------------------------------------
(* Queues.                                                                 *)

LEMMA MoreIsComing ==
    ASSUME NEW S, NEW q \in Seq(S), NEW f \in S, NEW k, NEW i
    PROVE  /\ Coming(q, k, i) \/ Brings(f, k, i) => Coming(Append(q, f), k, i)
           /\ Asked(q, k, i) \/ AsksFor(f, k, i) => Asked(Append(q, f), k, i)
<1>1. /\ Append(q, f)[Len(q) + 1] = f /\ Len(q) + 1 \in DOMAIN Append(q, f)
      /\ \A j \in DOMAIN q : j \in DOMAIN Append(q, f) /\ Append(q, f)[j] = q[j]
  OBVIOUS
<1> QED
  BY <1>1 DEF Coming, Asked

LEMMA LessIsComing ==
    ASSUME NEW S, NEW q \in Seq(S), q # <<>>, NEW k, NEW i
    PROVE  /\ Coming(q, k, i) => Brings(Head(q), k, i) \/ Coming(Tail(q), k, i)
           /\ Asked(q, k, i) => AsksFor(Head(q), k, i) \/ Asked(Tail(q), k, i)
<1>1. /\ Head(q) = q[1]
      /\ \A j \in DOMAIN q : j = 1 \/ (j - 1 \in DOMAIN Tail(q) /\ Tail(q)[j - 1] = q[j])
  OBVIOUS
<1> QED
  BY <1>1 DEF Coming, Asked

LEMMA UpwardShrinks ==
    ASSUME NEW q \in Seq(ClientFrames), q # <<>>, NEW reported, Upward(q, reported)
    PROVE  /\ Upward(Tail(q), reported)
           /\ Head(q).type = "catch_up" =>
                 reported <= Head(q).since /\ Upward(Tail(q), Head(q).since)
<1>1. /\ Head(q) = q[1] /\ 1 \in DOMAIN q
      /\ \A i \in DOMAIN Tail(q) : i + 1 \in DOMAIN q /\ i + 1 > 1 /\ Tail(q)[i] = q[i + 1]
  BY TakingTail
<1>2. \A i, j \in DOMAIN Tail(q) : i > j => i + 1 > j + 1
  OBVIOUS
<1>3. \A i, j \in DOMAIN Tail(q) :
         i > j /\ Tail(q)[j].type = "catch_up" /\ Tail(q)[i].type = "catch_up" =>
            Tail(q)[j].since <= Tail(q)[i].since
  BY <1>1, <1>2 DEF Upward
<1>4. \A j \in DOMAIN Tail(q) : Tail(q)[j].type = "catch_up" =>
         /\ reported <= Tail(q)[j].since
         /\ Head(q).type = "catch_up" => Head(q).since <= Tail(q)[j].since
  BY <1>1 DEF Upward
<1>5. Head(q).type = "catch_up" => reported <= Head(q).since
  BY <1>1 DEF Upward
<1> QED
  BY <1>3, <1>4, <1>5 DEF Upward

LEMMA UpwardGrows ==
    ASSUME NEW q \in Seq(ClientFrames), NEW g \in ClientFrames, NEW reported,
           Upward(q, reported),
           g.type = "catch_up" => reported <= g.since /\ RequestsSound(q, g.since)
    PROVE  Upward(Append(q, g), reported)
<1> DEFINE r == Append(q, g)
<1>1. /\ Len(q) \in Nat /\ DOMAIN q = 1 .. Len(q)
      /\ r[Len(q) + 1] = g
      /\ \A i \in DOMAIN q : i \in DOMAIN r /\ r[i] = q[i]
      /\ \A i \in DOMAIN r : i \in DOMAIN q \/ i = Len(q) + 1
  BY Appending
<1> HIDE DEF r
<1>2. ASSUME NEW j \in DOMAIN r, r[j].type = "catch_up"
      PROVE  /\ reported <= r[j].since
             /\ \A i \in DOMAIN r : i > j /\ r[i].type = "catch_up" => r[j].since <= r[i].since
  <2>1. CASE j = Len(q) + 1
    BY <1>1, <1>2, <2>1
  <2>2. CASE j \in DOMAIN q
    <3>1. r[j] = q[j] /\ reported <= q[j].since
      BY <1>1, <1>2, <2>2 DEF Upward
    <3>2. \A i \in DOMAIN q : i > j /\ r[i].type = "catch_up" => r[j].since <= r[i].since
      BY <1>1, <1>2, <2>2 DEF Upward
    <3>3. g.type = "catch_up" => r[j].since <= g.since
      BY <3>1, <2>2 DEF RequestsSound
    <3> QED
      BY <1>1, <3>1, <3>2, <3>3
  <2> QED
    BY <1>1, <2>1, <2>2
<1>3. Upward(r, reported)
  BY <1>2 DEF Upward
<1> QED
  BY <1>3 DEF r

\* A frame that is no greeting arrives at an open socket.
LEMMA ManneredGrows ==
    ASSUME NEW s \in Sockets, NEW t \in Sockets, Mannered(s), s.up,
           NEW f \in ServerFrames, f.type # "hello_ack", f.type = "status" => f.keys = {},
           t.up = s.up, t.inbox = Append(s.inbox, f)
    PROVE  Mannered(t) /\ (Unmet(t) <=> Unmet(s))
<1> DEFINE q == s.inbox
           r == Append(q, f)
<1>1. q \in Seq(ServerFrames)
  BY DEF Sockets
<1> HIDE DEF q
<1>2. /\ Len(q) \in Nat /\ r # <<>>
      /\ r[Len(q) + 1] = f
      /\ \A i \in DOMAIN q : i \in DOMAIN r /\ r[i] = q[i]
      /\ \A i \in DOMAIN r : i \in DOMAIN q \/ i = Len(q) + 1
      /\ q # <<>> => 1 \in DOMAIN q
      /\ q = <<>> => r[1] = f
  <2>1. /\ Len(q) \in Nat
        /\ r[Len(q) + 1] = f
        /\ \A i \in DOMAIN q : i \in DOMAIN r /\ r[i] = q[i]
        /\ \A i \in DOMAIN r : i \in DOMAIN q \/ i = Len(q) + 1
        /\ Len(r) = Len(q) + 1 /\ r \in Seq(ServerFrames)
    BY <1>1, Appending
  <2>2. q # <<>> => 1 \in DOMAIN q
    BY <1>1
  <2>3. q = <<>> => Len(q) = 0
    OBVIOUS
  <2> HIDE DEF r
  <2>4. r # <<>>
    BY <2>1
  <2> QED
    BY <2>1, <2>2, <2>3, <2>4
<1> HIDE DEF r
<1>3. \A i \in DOMAIN r : /\ r[i].type = "hello_ack" => i = 1
                          /\ r[i].type \in {"hello_ack", "status"} => r[i].keys = {}
  BY <1>2 DEF Mannered, q
<1>4. t.inbox = r /\ s.inbox = q
  BY DEF r, q
<1>5. Mannered(t)
  BY <1>3, <1>4 DEF Mannered
<1>6. Unmet(t) <=> Unmet(s)
  BY <1>2, <1>4 DEF Unmet
<1> QED
  BY <1>5, <1>6

\* The frame at the head of an inbox is taken: the greeting is over.
LEMMA ManneredShrinks ==
    ASSUME NEW s \in Sockets, NEW t \in Sockets, Mannered(s),
           s.inbox # <<>>, t.inbox = Tail(s.inbox), t.up = s.up
    PROVE  Mannered(t) /\ ~Unmet(t) /\ s.up
<1> DEFINE q == s.inbox
<1>1. q \in Seq(ServerFrames) /\ q # <<>>
  BY DEF Sockets
<1>2. s.up
  BY DEF Mannered
<1> HIDE DEF q
<1>3. \A i \in DOMAIN Tail(q) : i + 1 \in DOMAIN q /\ i + 1 # 1 /\ Tail(q)[i] = q[i + 1]
  BY <1>1, TakingTail
<1>4. \A i \in DOMAIN Tail(q) :
         /\ Tail(q)[i].type # "hello_ack"
         /\ Tail(q)[i].type = "status" => Tail(q)[i].keys = {}
  BY <1>3 DEF Mannered, q
<1>5. Tail(q) # <<>> => 1 \in DOMAIN Tail(q)
  BY <1>1, TakingTail
<1> QED
  BY <1>2, <1>4, <1>5 DEF Mannered, Unmet, q

-----------------------------------------------------------------------------
(* Writes and pruning.                                                     *)

LEMMA LastRowHolds ==
    ASSUME NEW rows \in Seq(Keys), NEW k, LastRow(rows, k) > 0
    PROVE  LastRow(rows, k) \in DOMAIN rows /\ rows[LastRow(rows, k)] = k
<1> DEFINE S == {i \in DOMAIN rows : rows[i] = k} \cup {0}
<1>1. S \subseteq Nat /\ S # {} /\ Len(rows) \in Nat /\ \A i \in S : i <= Len(rows)
  OBVIOUS
<1>2. \A i \in S : i > 0 => i \in DOMAIN rows /\ rows[i] = k
  OBVIOUS
<1> HIDE DEF S
<1>3. Max(S) \in S
  BY <1>1, MaxOfNaturals
<1>4. LastRow(rows, k) = Max(S)
  BY DEF LastRow, S
<1> QED
  BY <1>2, <1>3, <1>4

\* A transaction lists what it changes, and leaves the rest alone.
LEMMA ChangeLists ==
    ASSUME IInv, Listed, NEW keys \in SUBSET Keys, Change(keys)
    PROVE  /\ Listed' /\ UNCHANGED <<pruned, peerCursor>>
           /\ \A k \in keys : version'[k] > 0
           /\ \A k \in Keys \ keys : version'[k] = version[k]
<1> DEFINE list == SetToSeq(keys)
<1>1. /\ list \in Seq(Keys) /\ Len(list) \in Nat
      /\ \A k \in keys : \E i \in 1 .. Len(list) : list[i] = k
  <2>1. IsFiniteSet(keys)
    BY CatchUpAssumption, FS_Subset
  <2> HIDE DEF list
  <2>2. list \in Seq(keys) /\ Len(list) = Cardinality(keys) /\ Len(list) \in Nat
        /\ \A k \in keys : \E i \in 1 .. Len(list) : list[i] = k
    BY <2>1, Listing DEF list
  <2> QED
    BY <2>2
<1>2. /\ log' = log \o list
      /\ version' = [k \in Keys |-> IF k \in keys THEN LastRow(log', k) ELSE version[k]]
      /\ UNCHANGED <<pruned, peerCursor>>
  BY DEF Change
<1> HIDE DEF list
<1>3. log \in Seq(Keys) /\ Len(log) \in Nat /\ \A k \in Keys : version[k] \in Nat
  BY Numbers DEF IInv, TypeOK
<1>4. /\ log' \in Seq(Keys)
      /\ \A i \in DOMAIN log : i \in DOMAIN log' /\ log'[i] = log[i]
      /\ \A i \in 1 .. Len(list) :
            Len(log) + i \in DOMAIN log' /\ log'[Len(log) + i] = list[i]
  BY <1>1, <1>2, <1>3
<1>5. ASSUME NEW k \in keys
      PROVE  version'[k] = LastRow(log', k) /\ LastRow(log', k) > 0
  <2>1. PICK i \in 1 .. Len(list) : list[i] = k
    BY <1>1
  <2>2. Len(log) + i <= LastRow(log', k) /\ LastRow(log', k) \in 0 .. Len(log')
    BY <1>4, <2>1, LastRowIsThere
  <2> QED
    BY <1>1, <1>2, <1>3, <1>4, <2>1, <2>2
<1>6. \A k \in Keys \ keys : version'[k] = version[k]
  BY <1>2
<1>7. ASSUME NEW k \in Keys, version'[k] > 0
      PROVE  version'[k] \in DOMAIN log' /\ log'[version'[k]] = k
  <2>1. CASE k \in keys
    BY <1>4, <1>5, <2>1, LastRowHolds
  <2>2. CASE k \notin keys
    BY <1>4, <1>6, <1>7, <2>2 DEF Listed
  <2> QED
    BY <2>1, <2>2
<1>8. Listed'
  BY <1>7 DEF Listed
<1> QED
  BY <1>2, <1>5, <1>6, <1>8

LEMMA CoveredWrite ==
    ASSUME ~Commands, ~ExternalWrites, IInv, Covered, NEW keys \in WriteSets,
           \/ MainWrite(keys) \/ ExternalWrite(keys)
           \/ \E n \in Nodes : NodeWrite(n, keys) \/ CommandWrite(n, keys)
    PROVE  Covered'
<1>1. UNCHANGED <<replica, cursor>> /\ Change(keys) /\ keys \in SUBSET Keys
  BY DEF MainWrite, ExternalWrite, NodeWrite, CommandWrite, nodeVars, WriteSets
<1>2. PICK excluded : Broadcast(keys, excluded, Announce("result", keys, 0))
  BY DEF MainWrite, ExternalWrite, NodeWrite, CommandWrite
<1>3. /\ Listed' /\ UNCHANGED <<pruned, peerCursor>>
      /\ \A k \in keys : version'[k] > 0
      /\ \A k \in Keys \ keys : version'[k] = version[k]
  BY <1>1, ChangeLists DEF Covered
<1>4. Grows /\ Len(log') \in Rows /\ 0 \in Rows
  BY <1>1, ChangeGrows, CatchUpAssumption DEF Grows, Rows
<1>5. ASSUME NEW sequence \in Rows, NEW type \in {"result", "invalidate"}
      PROVE  /\ Announce(type, keys, sequence) \in ServerFrames
             /\ Announce(type, keys, sequence).type \notin {"hello_ack", "status"}
             /\ \A k \in keys : \A i : Brings(Announce(type, keys, sequence), k, i)
  BY <1>1, CatchUpAssumption
  DEF Announce, ServerFrame, ServerFrames, NoVersions, Versions, Rows, Brings
<1> SUFFICES ASSUME NEW n \in Nodes
             PROVE  CoveredNode(n)'
  BY <1>3 DEF Covered
<1>10. ~socket[n].up => socket'[n] = socket[n]
  BY <1>2 DEF Broadcast
<1> DEFINE s == socket[n]
           t == socket'[n]
<1>6. s \in Sockets /\ t \in Sockets /\ s.inbox \in Seq(ServerFrames)
  BY <1>1, <1>2, <1>4, BroadcastIsSound, NodeParts DEF SoundSocket
<1>7. CoveredNode(n)
  BY DEF Covered
<1>8. CASE ~s.up
  <2>1. t = s
    BY <1>8, <1>10
  <2>2. Unmet(t)
    BY <1>8, <2>1 DEF Unmet
  <2> HIDE DEF s, t
  <2>3. Supplied(t, replica'[n], version')
    BY <2>2 DEF Supplied
  <2> QED
    BY <1>1, <1>3, <1>7, <2>1, <2>3 DEF CoveredNode, s, t
<1>9. CASE s.up
  <2>1. \/ t = [s EXCEPT !.inbox = Append(@, Announce("result", keys, 0))]
        \/ t = [s EXCEPT !.inbox = Append(@, Announce("invalidate", keys, Len(log')))]
    BY <1>2, <1>9 DEF Broadcast
  <2>2. PICK f \in ServerFrames :
           /\ f.type \notin {"hello_ack", "status"} /\ \A k \in keys : \A i : Brings(f, k, i)
           /\ t = [s EXCEPT !.inbox = Append(@, f)]
    BY <1>4, <1>5, <2>1
  <2> HIDE DEF s, t
  <2>3. t.inbox = Append(s.inbox, f) /\ t.outbox = s.outbox /\ t.up = s.up
    BY <1>6, <2>2 DEF Sockets
  <2>4. Mannered(t) /\ (Unmet(t) <=> Unmet(s))
    <3>1. Mannered(s) /\ s.up /\ s \in Sockets /\ t \in Sockets
      BY <1>6, <1>7, <1>9 DEF CoveredNode, s
    <3>2. f \in ServerFrames /\ f.type # "hello_ack" /\ f.type # "status"
      BY <2>2
    <3>3. f.type = "status" => f.keys = {}
      BY <3>2
    <3> QED
      BY <2>3, <3>1, <3>2, <3>3, ManneredGrows
  <2>5. Supplied(t, replica[n], version')
    <3> SUFFICES ASSUME NEW k \in Keys, version'[k] > 0
                 PROVE  \/ replica[n][k] = version'[k]
                        \/ Coming(t.inbox, k, version'[k]) \/ Asked(t.outbox, k, version'[k])
                        \/ Unmet(t)
      BY DEF Supplied
    <3>1. CASE k \in keys
      BY <1>6, <2>2, <2>3, <3>1, MoreIsComing
    <3>2. CASE k \notin keys
      <4>1. version'[k] = version[k]
        BY <1>3, <3>2
      <4>2. \/ replica[n][k] = version[k]
            \/ Coming(s.inbox, k, version[k]) \/ Asked(s.outbox, k, version[k])
            \/ Unmet(s)
        BY <1>7, <4>1 DEF CoveredNode, Supplied, s
      <4> QED
        BY <1>6, <2>3, <2>4, <4>1, <4>2, MoreIsComing
    <3> QED
      BY <3>1, <3>2
  <2> QED
    BY <1>1, <1>3, <1>7, <2>3, <2>4, <2>5 DEF CoveredNode, s, t
<1> QED
  BY <1>8, <1>9

LEMMA CoveredPrune ==
    ASSUME ~TimePruning, IInv, Covered, Prune
    PROVE  Covered'
<1>1. \A n \in Nodes : pruned' <= peerCursor[n]
  BY PrunesBehindPeers
<1>2. UNCHANGED <<log, version, peerCursor, replica, cursor, socket>>
  BY DEF Prune, nodeVars
<1> QED
  BY <1>1, <1>2 DEF Covered, Listed, CoveredNode

-----------------------------------------------------------------------------
(* Steps at a socket.                                                      *)

\* Only node n takes part in a step.
LEMMA OthersCovered ==
    ASSUME Covered, UNCHANGED <<log, version, pruned>>, NEW n \in Nodes,
           \A m \in Nodes \ {n} : /\ socket'[m] = socket[m] /\ cursor'[m] = cursor[m]
                                  /\ peerCursor'[m] = peerCursor[m]
                                  /\ replica'[m] = replica[m],
           CoveredNode(n)'
    PROVE  Covered'
<1>1. \A m \in Nodes \ {n} : CoveredNode(m)'
  BY DEF Covered, CoveredNode
<1> QED
  BY <1>1 DEF Covered, Listed

LEMMA CoveredServe ==
    ASSUME ~Commands, IInv, IInv', Covered, NEW n \in Nodes, Serve(n)
    PROVE  Covered'
<1> DEFINE s == socket[n]
           t == socket'[n]
           g == Head(s.outbox)
           listed == {log[i] : i \in RowsPast(g.since)}
           reply == CASE g.type = "catch_up" -> Announce("catch_up", listed, CurrentSequence)
                      [] g.type = "snapshots" ->
                            ServerFrame("snapshots", g.keys, 0, Snapshots(g.keys))
                      [] g.type = "status" -> Announce("status", {}, CurrentSequence)
           reported == IF g.type = "catch_up" THEN Advance(peerCursor[n], g.since)
                                              ELSE peerCursor[n]
<1>1. /\ s.outbox # <<>>
      /\ socket' = [socket EXCEPT ![n].outbox = Tail(@), ![n].inbox = Append(@, reply)]
      /\ peerCursor' = [peerCursor EXCEPT ![n] = reported]
      /\ UNCHANGED <<log, version, pruned, cursor, replica>>
  BY DEF Serve, nodeVars
<1>2. /\ socket \in [Nodes -> Sockets] /\ peerCursor \in [Nodes -> Rows]
      /\ s \in Sockets /\ t \in Sockets
      /\ s.inbox \in Seq(ServerFrames) /\ s.outbox \in Seq(ClientFrames)
      /\ peerCursor[n] \in Rows /\ pruned \in Nat
      /\ CoveredNode(n)
  BY NodeParts, Numbers DEF IInv, TypeOK, Covered
<1>3. g \in ClientFrames
  BY <1>1, <1>2, TakingTail
<1>4. /\ g.keys \in SUBSET Keys /\ g.type \in {"catch_up", "snapshots", "status"}
      /\ g.since \in Rows
  BY <1>3 DEF ClientFrames
<1> HIDE DEF g
<1>5. listed \in SUBSET Keys /\ CurrentSequence \in Rows /\ 0 \in Rows
      /\ NoVersions \in Versions
  BY NodeParts, CatchUpAssumption DEF RowsPast, CurrentSequence, NoVersions, Versions, Rows
<1>6. Snapshots(g.keys) \in Versions /\ \A k \in g.keys : Snapshots(g.keys)[k] = version[k]
  BY <1>4, NodeParts, CatchUpAssumption DEF Snapshots, Versions, Rows
<1>7. g.type = "catch_up" => /\ peerCursor[n] <= g.since
                             /\ Upward(Tail(s.outbox), g.since)
  BY <1>1, <1>2, UpwardShrinks DEF CoveredNode, g
<1>8. Upward(Tail(s.outbox), peerCursor[n])
  BY <1>1, <1>2, UpwardShrinks DEF CoveredNode
<1>9. \A k \in Keys : version[k] > 0 /\ g.type = "catch_up" /\ g.since < version[k] => k \in listed
  <2> SUFFICES ASSUME NEW k \in Keys, version[k] > 0, g.type = "catch_up",
                      g.since < version[k]
               PROVE  k \in listed
    OBVIOUS
  <2>1. version[k] \in DOMAIN log /\ log[version[k]] = k
    BY DEF Covered, Listed
  <2>2. pruned <= peerCursor[n] /\ peerCursor[n] \in Nat /\ g.since \in Nat
        /\ version[k] \in Nat
    BY <1>2, <1>4, NodeParts, CatchUpAssumption DEF CoveredNode, Rows
  <2>3. version[k] > pruned
    BY <1>2, <1>7, <2>2
  <2>4. version[k] \in RowsPast(g.since)
    BY <2>1, <2>2, <2>3 DEF RowsPast
  <2> QED
    BY <2>1, <2>4
<1> HIDE DEF listed
<1>10. /\ reply \in ServerFrames /\ reply.type # "hello_ack"
       /\ reply.type = "status" => reply.keys = {}
       /\ \A k \in Keys : version[k] > 0 /\ AsksFor(g, k, version[k])
                            => Brings(reply, k, version[k])
  <2>1. CASE g.type = "snapshots"
    <3>1. reply = ServerFrame("snapshots", g.keys, 0, Snapshots(g.keys))
      BY <2>1
    <3> HIDE DEF reply
    <3>2. /\ reply.type = "snapshots" /\ reply.keys = g.keys
          /\ reply.values = Snapshots(g.keys) /\ reply \in ServerFrames
      BY <1>4, <1>5, <1>6, <3>1 DEF ServerFrame, ServerFrames
    <3>3. \A k \in Keys : version[k] \in Nat
      BY NodeParts
    <3> QED
      BY <1>6, <2>1, <3>2, <3>3 DEF AsksFor, Brings
  <2>2. CASE g.type = "catch_up"
    <3>1. reply = Announce("catch_up", listed, CurrentSequence)
      BY <2>2
    <3> HIDE DEF reply
    <3>2. reply.type = "catch_up" /\ reply.keys = listed /\ reply \in ServerFrames
      BY <1>5, <3>1 DEF Announce, ServerFrame, ServerFrames
    <3> QED
      BY <1>9, <2>2, <3>2 DEF AsksFor, Brings
  <2>3. CASE g.type = "status"
    <3>1. reply = Announce("status", {}, CurrentSequence)
      BY <2>3
    <3> HIDE DEF reply
    <3>2. reply.type = "status" /\ reply.keys = {} /\ reply \in ServerFrames
      BY <1>5, <3>1 DEF Announce, ServerFrame, ServerFrames
    <3> QED
      BY <2>3, <3>2 DEF AsksFor, Brings
  <2> QED
    BY <1>4, <2>1, <2>2, <2>3
<1> HIDE DEF reply
<1>11. /\ t.inbox = Append(s.inbox, reply) /\ t.outbox = Tail(s.outbox) /\ t.up = s.up
       /\ \A m \in Nodes \ {n} : socket'[m] = socket[m]
  BY <1>1, <1>2 DEF Sockets
<1>12. peerCursor'[n] = reported /\ \A m \in Nodes \ {n} : peerCursor'[m] = peerCursor[m]
  <2> HIDE DEF reported
  <2> QED
    BY <1>1, <1>2
<1>13. pruned <= reported /\ Upward(Tail(s.outbox), reported)
  <2>1. CASE g.type = "catch_up"
    <3>1. reported = Advance(peerCursor[n], g.since)
      BY <2>1
    <3> HIDE DEF reported
    <3>2. reported \in {peerCursor[n], g.since} /\ g.since <= reported
      BY <1>2, <1>4, <3>1, AdvanceForward
    <3>3. reported = g.since /\ pruned <= peerCursor[n]
      BY <1>2, <1>4, <1>7, <2>1, <3>2, CatchUpAssumption DEF Rows, CoveredNode
    <3> QED
      BY <1>2, <1>4, <1>7, <2>1, <3>3, CatchUpAssumption DEF Rows
  <2>2. CASE g.type # "catch_up"
    <3>1. reported = peerCursor[n]
      BY <2>2
    <3> QED
      BY <1>2, <1>8, <3>1 DEF CoveredNode
  <2> QED
    BY <2>1, <2>2
<1> HIDE DEF s, t, reported
<1>14. Mannered(s) /\ s.up
  BY <1>1, <1>2 DEF CoveredNode, Mannered, s
<1>15. Mannered(t) /\ (Unmet(t) <=> Unmet(s))
  BY <1>2, <1>10, <1>11, <1>14, ManneredGrows
<1>16. Supplied(t, replica[n], version)
  <2> SUFFICES ASSUME NEW k \in Keys, version[k] > 0
               PROVE  \/ replica[n][k] = version[k]
                      \/ Coming(t.inbox, k, version[k]) \/ Asked(t.outbox, k, version[k])
                      \/ Unmet(t)
    BY DEF Supplied
  <2>1. \/ replica[n][k] = version[k]
        \/ Coming(s.inbox, k, version[k]) \/ Asked(s.outbox, k, version[k])
        \/ Unmet(s)
    BY <1>2 DEF CoveredNode, Supplied, s
  <2>2. Coming(s.inbox, k, version[k]) => Coming(t.inbox, k, version[k])
    BY <1>2, <1>10, <1>11, MoreIsComing
  <2>3. Asked(s.outbox, k, version[k]) =>
           AsksFor(g, k, version[k]) \/ Asked(t.outbox, k, version[k])
    BY <1>1, <1>2, <1>11, LessIsComing DEF g
  <2>4. AsksFor(g, k, version[k]) => Coming(t.inbox, k, version[k])
    BY <1>2, <1>10, <1>11, MoreIsComing
  <2> QED
    BY <1>15, <2>1, <2>2, <2>3, <2>4
<1>17. CoveredNode(n)'
  BY <1>1, <1>2, <1>11, <1>12, <1>13, <1>15, <1>16 DEF CoveredNode, s, t
<1> QED
  BY <1>1, <1>11, <1>12, <1>17, OthersCovered

LEMMA CoveredConnect ==
    ASSUME IInv, Covered, NEW n \in Nodes, Connect(n)
    PROVE  Covered'
<1> DEFINE hello == Announce("hello_ack", {}, 0)
           t == [NoSocket EXCEPT !.up = TRUE, !.inbox = <<hello>>]
           reported == Advance(peerCursor[n], cursor[n])
<1>1. /\ ~socket[n].up /\ socket' = [socket EXCEPT ![n] = t]
      /\ peerCursor' = [peerCursor EXCEPT ![n] = reported]
      /\ UNCHANGED <<log, version, pruned, cursor, replica>>
  BY DEF Connect, nodeVars
<1>2. hello.type = "hello_ack" /\ hello.keys = {}
  BY DEF Announce, ServerFrame
<1> HIDE DEF hello
<1>3. t.inbox = <<hello>> /\ t.outbox = <<>> /\ t.up
  BY DEF NoSocket
<1> HIDE DEF t, reported
<1>4. socket'[n] = t /\ peerCursor'[n] = reported
      /\ \A m \in Nodes \ {n} : socket'[m] = socket[m] /\ peerCursor'[m] = peerCursor[m]
  BY <1>1 DEF IInv, TypeOK
<1>5. CoveredNode(n) /\ cursor[n] = 0
  BY <1>1 DEF Covered, CoveredNode, Unmet
<1>6. pruned <= reported
  <2>1. peerCursor[n] \in Rows /\ cursor[n] \in Rows /\ pruned \in Nat
    BY NodeParts, Numbers DEF IInv
  <2>2. peerCursor[n] <= reported /\ reported \in Rows
    BY <2>1, AdvanceForward DEF reported
  <2> QED
    BY <1>5, <2>1, <2>2, CatchUpAssumption DEF CoveredNode, Rows
<1>7. Mannered(t) /\ Unmet(t) /\ Upward(t.outbox, reported)
  BY <1>2, <1>3 DEF Mannered, Unmet, Upward
<1>8. CoveredNode(n)'
  BY <1>1, <1>4, <1>5, <1>6, <1>7 DEF CoveredNode, Supplied
<1> QED
  BY <1>1, <1>4, <1>8, OthersCovered

\* What a handler of node n leaves as it is.
LEMMA HandlerStays ==
    ASSUME IInv, Covered, NEW n \in Nodes,
           UNCHANGED <<log, version, pruned, peerCursor>>,
           NEW t, socket'[n] = t, \A m \in Nodes \ {n} : socket'[m] = socket[m],
           NEW c, cursor' = [cursor EXCEPT ![n] = c],
           NEW copies, replica' = [replica EXCEPT ![n] = copies],
           Mannered(t), Upward(t.outbox, peerCursor[n]),
           Unmet(t) => c = 0, Supplied(t, copies, version)
    PROVE  Covered'
<1>1. /\ cursor'[n] = c /\ replica'[n] = copies
      /\ \A m \in Nodes \ {n} : cursor'[m] = cursor[m] /\ replica'[m] = replica[m]
  BY DEF IInv, TypeOK
<1>2. CoveredNode(n)'
  BY <1>1 DEF Covered, CoveredNode
<1> QED
  BY <1>1, <1>2, OthersCovered

LEMMA CoveredStatus ==
    ASSUME IInv, IInv', Retained, Covered, NEW n \in Nodes, HandleStatus(n)
    PROVE  Covered'
<1> DEFINE s == socket[n]
           f == Head(s.inbox)
           g == CatchUpRequest(n)
           asks == \/ f.type = "hello_ack"
                   \/ ~s.catchingUp /\ f.sequence > cursor[n]
           outbox == IF asks THEN Append(s.outbox, g) ELSE s.outbox
           asking == asks \/ s.catchingUp
           t == socket'[n]
<1>1. /\ s.inbox # <<>> /\ f.type \in {"hello_ack", "status"}
      /\ socket' = [socket EXCEPT ![n].inbox = Tail(@), ![n].outbox = outbox,
                                  ![n].catchingUp = asking]
      /\ UNCHANGED <<log, version, pruned, peerCursor, cursor, replica>>
  BY DEF HandleStatus, Received, mainVars, nodeVars
<1>2. /\ socket \in [Nodes -> Sockets] /\ cursor \in [Nodes -> Rows]
      /\ replica \in [Nodes -> Versions] /\ peerCursor[n] \in Rows
      /\ s \in Sockets /\ t \in Sockets
      /\ s.inbox \in Seq(ServerFrames) /\ s.outbox \in Seq(ClientFrames)
      /\ CoveredNode(n)
  BY NodeParts DEF IInv, TypeOK, Covered
<1>3. /\ g \in ClientFrames /\ g.type = "catch_up" /\ g.since = cursor[n]
      /\ peerCursor[n] <= cursor[n] /\ RequestsSound(s.outbox, cursor[n])
  BY <1>2, CatchUpAssumption DEF CatchUpRequest, ClientFrames, Retained
<1> HIDE DEF g
<1>4. outbox = s.outbox \/ outbox = Append(s.outbox, g)
  OBVIOUS
<1>5. f.type = "hello_ack" => outbox = Append(s.outbox, g)
  OBVIOUS
<1> HIDE DEF asks, outbox, asking
<1>6. /\ t.inbox = Tail(s.inbox) /\ t.outbox = outbox /\ t.up = s.up
      /\ \A m \in Nodes \ {n} : socket'[m] = socket[m]
  BY <1>1, <1>2 DEF Sockets
<1>7. f = s.inbox[1] /\ 1 \in DOMAIN s.inbox
  BY <1>1, <1>2, TakingTail
<1>8. f.keys = {}
  BY <1>1, <1>2, <1>7 DEF CoveredNode, Mannered
<1> HIDE DEF f, t, s
<1>9. Mannered(t) /\ ~Unmet(t) /\ s.up
  BY <1>1, <1>2, <1>6, ManneredShrinks DEF CoveredNode, s
<1>10. Upward(t.outbox, peerCursor[n])
  <2>1. Upward(s.outbox, peerCursor[n])
    BY <1>2 DEF CoveredNode, s
  <2>2. Upward(Append(s.outbox, g), peerCursor[n])
    BY <1>2, <1>3, <2>1, UpwardGrows
  <2> QED
    BY <1>4, <1>6, <2>1, <2>2
<1>11. Supplied(t, replica[n], version)
  <2> SUFFICES ASSUME NEW k \in Keys, version[k] > 0
               PROVE  \/ replica[n][k] = version[k]
                      \/ Coming(t.inbox, k, version[k]) \/ Asked(t.outbox, k, version[k])
    BY DEF Supplied
  <2>1. \/ replica[n][k] = version[k]
        \/ Coming(s.inbox, k, version[k]) \/ Asked(s.outbox, k, version[k])
        \/ Unmet(s)
    BY <1>2 DEF CoveredNode, Supplied, s
  <2>2. Coming(s.inbox, k, version[k]) => Coming(t.inbox, k, version[k])
    <3>1. ~Brings(f, k, version[k])
      BY <1>8 DEF Brings
    <3> QED
      BY <1>1, <1>2, <1>6, <3>1, LessIsComing DEF f
  <2>3. Asked(s.outbox, k, version[k]) => Asked(t.outbox, k, version[k])
    BY <1>2, <1>3, <1>4, <1>6, MoreIsComing
  <2>4. Unmet(s) => Asked(t.outbox, k, version[k])
    <3> SUFFICES ASSUME Unmet(s) PROVE Asked(t.outbox, k, version[k])
      OBVIOUS
    <3>1. f.type = "hello_ack" /\ cursor[n] = 0
      BY <1>2, <1>7, <1>9 DEF Unmet, CoveredNode, s
    <3>2. AsksFor(g, k, version[k])
      BY <1>3, <3>1 DEF AsksFor
    <3> QED
      BY <1>2, <1>3, <1>5, <1>6, <3>1, <3>2, MoreIsComing
  <2> QED
    BY <2>1, <2>2, <2>3, <2>4
<1>12. /\ cursor' = [cursor EXCEPT ![n] = cursor[n]]
       /\ replica' = [replica EXCEPT ![n] = replica[n]]
       /\ socket'[n] = t
  BY <1>1, <1>2 DEF t
<1> QED
  BY <1>1, <1>6, <1>9, <1>10, <1>11, <1>12, HandlerStays

LEMMA CoveredAnnouncement ==
    ASSUME IInv, IInv', Covered, NEW n \in Nodes, HandleAnnouncement(n)
    PROVE  Covered'
<1> DEFINE s == socket[n]
           f == Head(s.inbox)
           g == SnapshotRequest(f.keys)
           still == s.catchingUp /\ f.type # "catch_up"
           moved == Advance(cursor[n], f.sequence)
           waiting == Append(s.suspended, [type |-> f.type, sequence |-> f.sequence])
           t == socket'[n]
<1>1. /\ s.inbox # <<>> /\ f.type \in {"invalidate", "catch_up", "result"}
      /\ UNCHANGED <<log, version, pruned, peerCursor, replica>>
  BY DEF HandleAnnouncement, Received, mainVars
<1>2. /\ socket \in [Nodes -> Sockets] /\ cursor \in [Nodes -> Rows]
      /\ replica \in [Nodes -> Versions]
      /\ s \in Sockets /\ t \in Sockets
      /\ s.inbox \in Seq(ServerFrames) /\ s.outbox \in Seq(ClientFrames)
      /\ CoveredNode(n)
  BY NodeParts DEF IInv, TypeOK, Covered
<1>3. g \in ClientFrames /\ g.type = "snapshots" /\ g.keys = f.keys
  BY <1>1, Receives, CatchUpAssumption DEF SnapshotRequest, ClientFrames, Rows
<1>4. \/ /\ f.keys # {}
         /\ socket' = [socket EXCEPT ![n].inbox = Tail(@), ![n].outbox = Append(@, g),
                                     ![n].suspended = waiting]
         /\ cursor' = cursor
      \/ /\ f.keys = {}
         /\ socket' = [socket EXCEPT ![n].inbox = Tail(@), ![n].catchingUp = still]
         /\ cursor' = [cursor EXCEPT ![n] = moved]
  BY DEF HandleAnnouncement
<1> HIDE DEF g, still, moved, waiting
<1>5. \E c : cursor' = [cursor EXCEPT ![n] = c]
  <2>1. cursor' = cursor => cursor' = [cursor EXCEPT ![n] = cursor[n]]
    BY <1>2
  <2> QED
    BY <1>4, <2>1
<1>6. /\ t.inbox = Tail(s.inbox) /\ t.up = s.up
      /\ \/ f.keys # {} /\ t.outbox = Append(s.outbox, g)
         \/ f.keys = {} /\ t.outbox = s.outbox
      /\ \A m \in Nodes \ {n} : socket'[m] = socket[m]
  BY <1>2, <1>4 DEF Sockets
<1> HIDE DEF f, t, s
<1>7. Mannered(t) /\ ~Unmet(t) /\ s.up
  BY <1>1, <1>2, <1>6, ManneredShrinks DEF CoveredNode, s
<1>8. ~Unmet(s)
  <2>1. s.inbox[1] = f
    BY <1>1, <1>2, TakingTail DEF f
  <2> QED
    BY <1>1, <1>7, <2>1 DEF Unmet
<1>9. Upward(t.outbox, peerCursor[n])
  <2>1. Upward(s.outbox, peerCursor[n])
    BY <1>2 DEF CoveredNode, s
  <2>2. Upward(Append(s.outbox, g), peerCursor[n])
    BY <1>2, <1>3, <2>1, UpwardGrows
  <2> QED
    BY <1>6, <2>1, <2>2
<1>10. Supplied(t, replica[n], version)
  <2> SUFFICES ASSUME NEW k \in Keys, version[k] > 0
               PROVE  \/ replica[n][k] = version[k]
                      \/ Coming(t.inbox, k, version[k]) \/ Asked(t.outbox, k, version[k])
    BY DEF Supplied
  <2>1. \/ replica[n][k] = version[k]
        \/ Coming(s.inbox, k, version[k]) \/ Asked(s.outbox, k, version[k])
    BY <1>2, <1>8 DEF CoveredNode, Supplied, s
  <2>2. Coming(s.inbox, k, version[k]) =>
           Brings(f, k, version[k]) \/ Coming(t.inbox, k, version[k])
    BY <1>1, <1>2, <1>6, LessIsComing DEF f
  <2>3. Asked(s.outbox, k, version[k]) => Asked(t.outbox, k, version[k])
    BY <1>2, <1>3, <1>6, MoreIsComing
  <2>4. Brings(f, k, version[k]) => Asked(t.outbox, k, version[k])
    <3> SUFFICES ASSUME Brings(f, k, version[k]) PROVE Asked(t.outbox, k, version[k])
      OBVIOUS
    <3>1. AsksFor(g, k, version[k]) /\ f.keys # {}
      BY <1>3 DEF Brings, AsksFor
    <3> QED
      BY <1>2, <1>3, <1>6, <3>1, MoreIsComing
  <2> QED
    BY <2>1, <2>2, <2>3, <2>4
<1>11. replica' = [replica EXCEPT ![n] = replica[n]] /\ socket'[n] = t
  BY <1>1, <1>2 DEF t
<1> QED
  BY <1>1, <1>5, <1>6, <1>7, <1>9, <1>10, <1>11, HandlerStays

LEMMA CoveredSnapshots ==
    ASSUME IInv, IInv', Ordered, Covered, NEW n \in Nodes, HandleSnapshots(n)
    PROVE  Covered'
<1> DEFINE s == socket[n]
           f == Head(s.inbox)
           handler == Head(s.suspended)
           still == s.catchingUp /\ handler.type # "catch_up"
           moved == Advance(cursor[n], handler.sequence)
           merged == Merge(replica[n], f.keys, f.values)
           t == socket'[n]
<1>1. /\ s.inbox # <<>> /\ f.type = "snapshots"
      /\ UNCHANGED <<log, version, pruned, peerCursor>>
      /\ replica' = [replica EXCEPT ![n] = merged]
      /\ cursor' = [cursor EXCEPT ![n] = moved]
      /\ socket' = [socket EXCEPT ![n].inbox = Tail(@), ![n].suspended = Tail(@),
                                  ![n].catchingUp = still]
  BY DEF HandleSnapshots, Received, mainVars
<1>2. /\ socket \in [Nodes -> Sockets]
      /\ s \in Sockets /\ t \in Sockets
      /\ s.inbox \in Seq(ServerFrames) /\ s.outbox \in Seq(ClientFrames)
      /\ CoveredNode(n) /\ InOrder(s.inbox, replica[n])
  BY NodeParts DEF IInv, TypeOK, Covered, Ordered
<1>3. /\ f = s.inbox[1] /\ 1 \in DOMAIN s.inbox
      /\ f.keys \in SUBSET Keys /\ f.values \in Versions
      /\ \A k \in Keys : f.values[k] <= version[k]
  BY <1>1, <1>2, Receives, TakingTail
<1>4. \A k \in Keys : merged[k] = IF k \in f.keys THEN f.values[k] ELSE replica[n][k]
  BY DEF Merge
<1> HIDE DEF still, moved, merged
<1>5. /\ t.inbox = Tail(s.inbox) /\ t.outbox = s.outbox /\ t.up = s.up
      /\ \A m \in Nodes \ {n} : socket'[m] = socket[m]
  BY <1>1, <1>2 DEF Sockets
<1>6. \A k \in f.keys : replica[n][k] <= f.values[k]
  BY <1>1, <1>2, <1>3 DEF InOrder
<1> HIDE DEF f, t, s
<1>7. Mannered(t) /\ ~Unmet(t) /\ s.up
  BY <1>1, <1>2, <1>5, ManneredShrinks DEF CoveredNode, s
<1>8. ~Unmet(s)
  BY <1>1, <1>3, <1>7 DEF Unmet
<1>9. Supplied(t, merged, version)
  <2> SUFFICES ASSUME NEW k \in Keys, version[k] > 0
               PROVE  \/ merged[k] = version[k]
                      \/ Coming(t.inbox, k, version[k]) \/ Asked(t.outbox, k, version[k])
    BY DEF Supplied
  <2>1. \/ replica[n][k] = version[k]
        \/ Coming(s.inbox, k, version[k]) \/ Asked(s.outbox, k, version[k])
    BY <1>2, <1>8 DEF CoveredNode, Supplied, s
  <2>2. Coming(s.inbox, k, version[k]) =>
           Brings(f, k, version[k]) \/ Coming(t.inbox, k, version[k])
    BY <1>1, <1>2, <1>5, LessIsComing DEF f
  <2>3. /\ version[k] \in Nat /\ replica[n][k] \in Nat /\ f.values[k] \in Nat
        /\ f.values[k] <= version[k]
    BY <1>3, NodeParts, Numbers, CatchUpAssumption DEF IInv, Versions, Rows
  <2>4. Brings(f, k, version[k]) => merged[k] = version[k]
    BY <1>1, <1>4, <2>3 DEF Brings
  <2>5. replica[n][k] = version[k] => merged[k] = version[k]
    BY <1>4, <1>6, <2>3
  <2> QED
    BY <1>5, <2>1, <2>2, <2>4, <2>5
<1>10. socket'[n] = t /\ Upward(t.outbox, peerCursor[n])
  BY <1>2, <1>5 DEF CoveredNode, s, t
<1> QED
  BY <1>1, <1>5, <1>7, <1>9, <1>10, HandlerStays

LEMMA CoveredPoll ==
    ASSUME IInv, Covered, NEW n \in Nodes, PollStatus(n)
    PROVE  Covered'
<1> DEFINE s == socket[n]
           g == [type |-> "status", keys |-> {}, since |-> 0]
           t == [s EXCEPT !.outbox = <<g>>]
<1>1. /\ s.up /\ s.inbox = <<>> /\ s.outbox = <<>>
      /\ socket' = [socket EXCEPT ![n] = t]
      /\ UNCHANGED <<log, version, pruned, peerCursor, cursor, replica>>
  BY DEF PollStatus, mainVars, nodeVars
<1>2. s \in Sockets /\ CoveredNode(n)
  BY NodeParts DEF Covered
<1>3. t.up /\ t.inbox = <<>> /\ t.outbox = <<g>> /\ g.type = "status"
  BY <1>1, <1>2 DEF Sockets
<1> HIDE DEF g, s, t
<1>4. Mannered(t) /\ ~Unmet(t) /\ Upward(t.outbox, peerCursor[n])
  BY <1>3 DEF Mannered, Unmet, Upward
<1>5. Supplied(t, replica[n], version)
  BY <1>1, <1>2 DEF CoveredNode, Supplied, Unmet, Coming, Asked, s
<1>6. /\ socket'[n] = t /\ \A m \in Nodes \ {n} : socket'[m] = socket[m]
      /\ cursor' = [cursor EXCEPT ![n] = cursor[n]]
      /\ replica' = [replica EXCEPT ![n] = replica[n]]
  BY <1>1 DEF IInv, TypeOK
<1> QED
  BY <1>1, <1>4, <1>5, <1>6, HandlerStays

LEMMA CoveredStep ==
    ASSUME ~Commands, ~ExternalWrites, ~TimePruning, MaxFailures = 0,
           IInv, Retained, Ordered, Covered, [Next]_vars
    PROVE  Covered'
<1>1. IInv'
  BY StepSound
<1>2. CASE UNCHANGED vars
  BY <1>2 DEF vars, Covered, Listed, CoveredNode
<1>3. ASSUME NEW keys \in WriteSets,
             \/ MainWrite(keys) \/ ExternalWrite(keys)
             \/ \E n \in Nodes : NodeWrite(n, keys) \/ CommandWrite(n, keys)
      PROVE  Covered'
  BY <1>3, CoveredWrite
<1>4. CASE Prune
  BY <1>4, CoveredPrune
<1>5. ASSUME NEW n \in Nodes,
             \/ Serve(n) \/ Connect(n) \/ HandleStatus(n) \/ HandleAnnouncement(n)
             \/ HandleSnapshots(n) \/ PollStatus(n)
      PROVE  Covered'
  BY <1>1, <1>5, CoveredServe, CoveredConnect, CoveredStatus, CoveredAnnouncement,
     CoveredSnapshots, CoveredPoll
<1>6. ASSUME NEW n \in Nodes,
             CatchUpCommand(n) \/ CommandFetch(n) \/ CommandMerge(n)
      PROVE  FALSE
  <2>1. command[n] = NoCommand /\ NoCommand.phase = "none"
    BY DEF Ordered, NoCommand
  <2> QED
    BY <1>6, <2>1 DEF CatchUpCommand, CommandFetch, CommandMerge
<1>7. ASSUME \/ RestartMain
             \/ \E n \in Nodes : Disconnect(n) \/ FailCommand(n)
      PROVE  FALSE
  <2>1. failures \in 0 .. 0
    BY DEF IInv, TypeOK
  <2> QED
    BY <1>7, <2>1 DEF RestartMain, Disconnect, FailCommand
<1> QED
  BY <1>2, <1>3, <1>4, <1>5, <1>6, <1>7 DEF Next

LEMMA CoveredInit ==
    ASSUME Init
    PROVE  Covered
<1>1. IInv
  BY InitSound
<1>2. log \in Seq(Keys) /\ version = [k \in Keys |-> LastRow(log, k)]
  BY <1>1 DEF Init, IInv, TypeOK
<1>3. Listed
  BY <1>2, LastRowHolds DEF Listed
<1>4. ASSUME NEW n \in Nodes PROVE CoveredNode(n)
  <2>1. /\ pruned = 0 /\ peerCursor[n] = 0 /\ cursor[n] = 0
        /\ socket[n] = NoSocket
    BY DEF Init
  <2>2. ~NoSocket.up /\ NoSocket.inbox = <<>> /\ NoSocket.outbox = <<>>
    BY DEF NoSocket
  <2> QED
    BY <2>1, <2>2 DEF CoveredNode, Mannered, Upward, Unmet, Supplied
<1> QED
  BY <1>3, <1>4 DEF Covered

-----------------------------------------------------------------------------
(* The theorem.                                                            *)

\* Where every write is announced and nothing breaks, the assignment of a cursor
\* (ws_client.ts) never leaves out a change: what lies within the cursor of a node is in
\* its copies or under way to it, however the handlers of the node overlap, for any
\* number of nodes and keys and while rows are pruned by cursor.
THEOREM CursorsAreCovered ==
    ASSUME ~Commands, ~ExternalWrites, ~TimePruning, MaxFailures = 0
    PROVE  Spec => []CursorIsCovered
<1>1. ASSUME Init PROVE Retained /\ Ordered /\ Covered
  <2>1. Retained
    BY <1>1 DEF Init, Retained, RequestsSound, NoSocket
  <2>2. Ordered
    BY <1>1 DEF Init, Ordered, InOrder, NoSocket
  <2> QED
    BY <1>1, <2>1, <2>2, CoveredInit
<1>2. ASSUME IInv, Retained, Ordered, Covered, [Next]_vars
      PROVE  (Retained /\ Ordered /\ Covered)'
  BY <1>2, RetainedStep, ForwardStep, CoveredStep DEF Forward
<1>3. ASSUME IInv, Covered PROVE CursorIsCovered
  <2> SUFFICES ASSUME NEW n \in Nodes, NEW k \in Keys, version[k] \in 1 .. cursor[n]
               PROVE  replica[n][k] = version[k] \/ UnderWay(n, version[k])
    BY DEF CursorIsCovered
  <2>1. cursor[n] # 0 /\ version[k] > 0
    BY <1>3, Numbers DEF IInv
  <2>2. CoveredNode(n) /\ log[version[k]] = k
    BY <1>3, <2>1 DEF Covered, Listed
  <2>3. \/ replica[n][k] = version[k]
        \/ Coming(socket[n].inbox, k, version[k]) \/ Asked(socket[n].outbox, k, version[k])
    BY <2>1, <2>2 DEF CoveredNode, Supplied
  <2> QED
    BY <2>2, <2>3 DEF UnderWay, Coming, Asked, Brings, AsksFor
<1> QED
  BY <1>1, <1>2, <1>3, Invariance, PTL DEF Spec

=============================================================================
