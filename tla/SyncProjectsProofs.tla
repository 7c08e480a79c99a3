------------------------- MODULE SyncProjectsProofs -------------------------
(***************************************************************************)
(* Proofs about SyncProjects, for any nodes, commands and repositories:    *)
(* types, that an edit is refused only for a project that the main node    *)
(* has under another UUID, and that no snapshot takes the main node back.  *)
(***************************************************************************)
EXTENDS SyncProjects, FoldProofs

-----------------------------------------------------------------------------
(* The inductive invariant.  A UUID is made up for one repository, which   *)
(* no variable records: home maps the UUIDs made up so far to theirs.      *)

Homes == [UUIDs -> Repositories \cup {NoProject}]

Minted(u) == u \in UUIDs /\ u[2] <= minted[u[1]]

\* UUID u has been made up for repository r.
Held(home, u, r) == Minted(u) /\ home[u] = r

OnMain(r) == project[Main][r] # NoProject

\* The main node knows of repository r, or will before it applies what host h queues next.
Told(h, r) ==
    \/ OnMain(r)
    \/ h \in Nodes /\ \E i \in DOMAIN queue[h] :
          queue[h][i].kind = "upsert" /\ queue[h][i].repository = r

\* UUID u has reached the main node.
Known(home, u) == Minted(u) /\ home[u] \in Repositories /\ OnMain(home[u])

\* A row of host h: what counts as announced is, and the rest is its own.
RowOK(home, h, r, row) ==
    row # NoProject =>
        /\ Held(home, row.uuid, r)
        /\ row.announced => Told(h, r)
        /\ h \in Nodes /\ ~row.announced => row.uuid[1] = h

RowHolds(home, h, r) == RowOK(home, h, r, project[h][r])

RowsOK(home) == \A h \in Hosts, r \in Repositories : RowHolds(home, h, r)

\* An operation being written finds its project where it was, or the main node knows it.
Backed(d, row) == OnMain(d.repository) \/ (row # NoProject /\ row.uuid = d.uuid)

DraftOK(home, d) ==
    /\ Held(home, d.uuid, d.repository)
    /\ d.host = Main => OnMain(d.repository)
    /\ d.phase = "built" => Backed(d, project[d.host][d.repository])
    /\ d.phase = "unannounced" /\ d.host \in Nodes => d.uuid[1] = d.host
    /\ d.phase \in {"unmarked", "ready"} => Told(d.host, d.repository)

DraftHolds(home, c) == draft[c] # NoDraft => DraftOK(home, draft[c])

DraftsOK(home) == \A c \in Commands : DraftHolds(home, c)

\* What is queued: announcements of UUIDs of one's own, and edits behind them.
QueuedOK(home, n, i) ==
    LET op == queue[n][i]
    IN  /\ Held(home, op.uuid, op.repository)
        /\ op.kind = "upsert" => op.uuid[1] = n
        /\ op.kind = "edit" =>
              \/ OnMain(op.repository)
              \/ \E j \in 1 .. i - 1 :
                    queue[n][j].kind = "upsert" /\ queue[n][j].repository = op.repository

QueuesOK(home) == \A n \in Nodes : \A i \in 1 .. Len(queue[n]) : QueuedOK(home, n, i)

LoggedOK(home, i) == Known(home, log[i])

LogOK(home) == \A i \in 1 .. Len(log) : LoggedOK(home, i)

RequestOK(home, n, i) == \A k \in 1 .. Len(wanted[n][i]) : Known(home, wanted[n][i][k])

WantedOK(home) == \A n \in Nodes : \A i \in 1 .. Len(wanted[n]) : RequestOK(home, n, i)

SnapshotOK(home, s) == Known(home, s.uuid) /\ (~s.deleted => home[s.uuid] = s.repository)

ResponseOK(home, n, i) ==
    \A k \in 1 .. Len(arriving[n][i]) : SnapshotOK(home, arriving[n][i][k])

ArrivingOK(home) ==
    \A n \in Nodes : \A i \in 1 .. Len(arriving[n]) : ResponseOK(home, n, i)

Identity(home) ==
    RowsOK(home) /\ DraftsOK(home) /\ QueuesOK(home) /\ LogOK(home) /\ WantedOK(home)
    /\ ArrivingOK(home)

Inv == TypeOK /\ RefusedOnlyWhenLost /\ \E home \in Homes : Identity(home)

\* What never goes back in a step: the UUIDs made up, what the main node knows and will
\* know, and that a row keeps its UUID as long as the main node does not know better.
Grows ==
    /\ \A u \in UUIDs : Minted(u) => Minted(u)'
    /\ \A r \in Repositories : OnMain(r) => OnMain(r)'
    /\ \A h \in Hosts, r \in Repositories : Told(h, r) => Told(h, r)'
    /\ \A h \in Hosts, r \in Repositories :
          project[h][r] # NoProject =>
             \/ OnMain(r)'
             \/ project'[h][r] # NoProject /\ project'[h][r].uuid = project[h][r].uuid

-----------------------------------------------------------------------------
(* Tables of projects.                                                     *)

\* Row r of the table is the only one that may have UUID u.
OnlyAt(t, u, r) == \A q \in Repositories : t[q] # NoProject /\ t[q].uuid = u => q = r

\* Table new is table t but for repository r, whose project it has with UUID u.
Places(t, u, r, new) ==
    /\ new \in Tables
    /\ \A q \in Repositories : q # r => new[q] = t[q]
    /\ new[r] \in Rows /\ new[r] # NoProject /\ new[r].uuid = u

LEMMA UpsertCases ==
    ASSUME NEW t \in Tables, NEW u \in UUIDs, NEW r \in Repositories, OnlyAt(t, u, r)
    PROVE  Places(t, u, r, UpsertProject(t, u, r))
<1> DEFINE old == IF ByUuid(t, u) # {} THEN ByUuid(t, u) ELSE {r}
           row == t[CHOOSE q \in old : TRUE]
           new == IF t[r] = NoProject
                    THEN [uuid |-> u, announced |-> FALSE, local |-> FALSE]
                    ELSE [t[r] EXCEPT !.uuid = u]
           table == UpsertProject(t, u, r)
<1>1. ByUuid(t, u) \subseteq {r}
  BY DEF ByUuid, OnlyAt
<1>2. old = {r}
  BY <1>1
<1>3. row = t[r]
  BY <1>2
<1>4. table = [q \in Repositories |->
                  CASE q = r -> IF row = NoProject
                                  THEN [uuid |-> u, announced |-> FALSE, local |-> FALSE]
                                  ELSE [row EXCEPT !.uuid = u]
                    [] q # r -> IF q \in old THEN NoProject ELSE t[q]]
  BY DEF UpsertProject
<1> HIDE DEF old, row, table
<1>5. \A q \in Repositories : table[q] = IF q = r THEN new ELSE t[q]
  BY <1>2, <1>3, <1>4
<1>6. t[r] \in Rows \cup {NoProject}
  BY DEF Tables
<1>7. new \in Rows /\ new.uuid = u
  BY <1>6 DEF Rows
<1>8. new # NoProject
  BY <1>7, NoProjectAssumption
<1> HIDE DEF new
<1>9. table = [q \in Repositories |-> IF q = r THEN new ELSE t[q]]
  BY <1>4, <1>5
<1>10. table \in Tables
  BY <1>7, <1>9 DEF Tables
<1> QED
  BY <1>5, <1>7, <1>8, <1>10 DEF table, new, Places

\* Table new is table t, with UUID u marked.
Marks(t, u, new) ==
    /\ new \in Tables
    /\ \A q \in Repositories :
          new[q] = IF t[q] # NoProject /\ t[q].uuid = u
                     THEN [t[q] EXCEPT !.announced = TRUE] ELSE t[q]

LEMMA MarkCases ==
    ASSUME NEW t \in Tables, NEW u
    PROVE  Marks(t, u, MarkAnnounced(t, u))
<1> DEFINE new == MarkAnnounced(t, u)
<1>1. new = [q \in Repositories |-> IF t[q] # NoProject /\ t[q].uuid = u
                                      THEN [t[q] EXCEPT !.announced = TRUE] ELSE t[q]]
  BY DEF MarkAnnounced, ByUuid
<1>2. \A q \in Repositories : t[q] \in Rows \cup {NoProject}
  BY DEF Tables
<1>3. \A row \in Rows : [row EXCEPT !.announced = TRUE] \in Rows
  BY DEF Rows
<1> HIDE DEF new
<1>4. new \in Tables
  BY <1>1, <1>2, <1>3 DEF Tables
<1> QED
  BY <1>1, <1>4 DEF new, Marks

LEMMA RemoveCases ==
    ASSUME NEW t \in Tables, NEW u
    PROVE  /\ RemoveProject(t, u) \in Tables
           /\ \A q \in Repositories : RemoveProject(t, u)[q] =
                 IF t[q] # NoProject /\ t[q].uuid = u THEN NoProject ELSE t[q]
<1> DEFINE new == RemoveProject(t, u)
<1>1. new = [q \in Repositories |-> IF t[q] # NoProject /\ t[q].uuid = u
                                      THEN NoProject ELSE t[q]]
  BY DEF RemoveProject, ByUuid
<1>2. \A q \in Repositories : t[q] \in Rows \cup {NoProject}
  BY DEF Tables
<1> HIDE DEF new
<1>3. new \in Tables
  BY <1>1, <1>2 DEF Tables
<1> QED
  BY <1>1, <1>3 DEF new

\* A snapshot writes one row, whose project is then announced, or removes one.
LEMMA WriteCases ==
    ASSUME NEW t \in Tables, NEW s \in Snapshots,
           ~s.deleted => OnlyAt(t, s.uuid, s.repository)
    PROVE  /\ WriteSnapshot(s, t) \in Tables
           /\ s.deleted => \A q \in Repositories :
                 \/ WriteSnapshot(s, t)[q] = t[q]
                 \/ t[q] # NoProject /\ t[q].uuid = s.uuid
                    /\ WriteSnapshot(s, t)[q] = NoProject
           /\ ~s.deleted => \A q \in Repositories :
                 IF q = s.repository
                   THEN /\ WriteSnapshot(s, t)[q] # NoProject
                        /\ WriteSnapshot(s, t)[q].uuid = s.uuid
                        /\ WriteSnapshot(s, t)[q].announced
                   ELSE WriteSnapshot(s, t)[q] = t[q]
<1>1. s.uuid \in UUIDs /\ s.repository \in Repositories
  BY DEF Snapshots
<1>2. CASE s.deleted
  BY <1>2, RemoveCases DEF WriteSnapshot
<1>3. CASE ~s.deleted
  <2> DEFINE up == UpsertProject(t, s.uuid, s.repository)
             new == MarkAnnounced(up, s.uuid)
  <2>1. /\ up \in Tables
        /\ \A q \in Repositories : q # s.repository => up[q] = t[q]
        /\ up[s.repository] \in Rows /\ up[s.repository] # NoProject
        /\ up[s.repository].uuid = s.uuid
    BY <1>1, <1>3, UpsertCases DEF Places
  <2> HIDE DEF up
  <2>2. /\ new \in Tables
        /\ \A q \in Repositories : new[q] =
              IF up[q] # NoProject /\ up[q].uuid = s.uuid
                THEN [up[q] EXCEPT !.announced = TRUE] ELSE up[q]
    BY <2>1, MarkCases DEF Marks
  <2>3. new = WriteSnapshot(s, t)
    BY <1>3 DEF WriteSnapshot, up
  <2> HIDE DEF new
  <2>4. new[s.repository] = [up[s.repository] EXCEPT !.announced = TRUE]
    BY <1>1, <2>1, <2>2
  <2>5. [up[s.repository] EXCEPT !.announced = TRUE] \in Rows
    BY <2>1 DEF Rows
  <2>6. /\ new[s.repository] # NoProject /\ new[s.repository].uuid = s.uuid
        /\ new[s.repository].announced
    <3>1. new[s.repository] # NoProject
      BY <2>4, <2>5, NoProjectAssumption
    <3>2. new[s.repository].uuid = s.uuid /\ new[s.repository].announced
      BY <2>1, <2>4 DEF Rows
    <3> QED
      BY <3>1, <3>2
  <2>7. \A q \in Repositories : q # s.repository => new[q] = t[q]
    <3> SUFFICES ASSUME NEW q \in Repositories, q # s.repository PROVE new[q] = t[q]
      OBVIOUS
    <3>1. ~(t[q] # NoProject /\ t[q].uuid = s.uuid)
      BY <1>3 DEF OnlyAt
    <3> QED
      BY <2>1, <2>2, <3>1
  <2> QED
    BY <1>3, <2>2, <2>3, <2>6, <2>7
<1> QED
  BY <1>2, <1>3

\* What every snapshot of a response preserves, the whole response does: the merge, a
\* fold, is followed table by table.
LEMMA MergeStays ==
    ASSUME NEW G, NEW Y, NEW ss \in Seq(Y), NEW t0 \in G,
           \A t \in G, s \in Y : WriteSnapshot(s, t) \in G
    PROVE  Merged(t0, ss) \in G
<1> DEFINE N == Len(ss)
           F == [z \in G \X Y |-> WriteSnapshot(z[2], z[1])]
           iter == CHOOSE f : f = [t \in SUBSET (1 .. N) |->
                      IF t = {} THEN t0 ELSE WriteSnapshot(ss[Max(t)], f[t \ {Max(t)}])]
<1>1. Foldable(G, Y, F, t0, N, ss)
  BY DEF Foldable
<1>2. \A x \in G, y \in Y : F[<<x, y>>] = WriteSnapshot(y, x)
  OBVIOUS
<1>3. Merged(t0, ss) = iter[1 .. N]
  <2>1. DOMAIN ss = 1 .. N
    OBVIOUS
  <2>2. Merged(t0, ss) = iter[DOMAIN ss]
    BY <2>1 DEF Merged, FoldLeft, MapThenFoldSet
  <2> QED
    BY <2>1, <2>2
<1> HIDE DEF F, N
<1>4. PICK g : IsFold(G, F, t0, N, ss, g)
  BY <1>1, FoldExists
<1>5. ASSUME NEW t \in SUBSET (1 .. N), t # {}
      PROVE  t \ {Max(t)} \in SUBSET (1 .. N) /\ ss[Max(t)] \in Y
  BY <1>1, <1>5, MaxOfInterval DEF Foldable
<1>6. g = [t \in SUBSET (1 .. N) |->
             IF t = {} THEN t0 ELSE WriteSnapshot(ss[Max(t)], g[t \ {Max(t)}])]
  <2>1. ASSUME NEW t \in SUBSET (1 .. N), t # {}
        PROVE  g[t] = WriteSnapshot(ss[Max(t)], g[t \ {Max(t)}])
    BY <1>2, <1>4, <1>5, <2>1 DEF IsFold
  <2> QED
    BY <1>4, <2>1 DEF IsFold
<1>7. iter = [t \in SUBSET (1 .. N) |->
                IF t = {} THEN t0 ELSE WriteSnapshot(ss[Max(t)], iter[t \ {Max(t)}])]
  BY <1>6
<1> HIDE DEF iter
<1>8. Iterates(G, F, t0, N, ss, iter)
  BY <1>2, <1>5, <1>7 DEF Iterates
<1>9. PICK r : IsRun(G, F, t0, N, ss, r) /\ iter[1 .. N] = r[N]
  BY <1>1, <1>8, FoldSteps
<1> QED
  BY <1>1, <1>3, <1>9 DEF IsRun, Foldable

-----------------------------------------------------------------------------
(* The rows a node is told of.                                             *)

Rank(F, i) == Cardinality({j \in F : j <= i})

\* The k-th of a set of numbers is where k of them have been met.
LEMMA RankExists ==
    ASSUME NEW n \in Nat, NEW F, F \subseteq 1 .. n
    PROVE  /\ IsFiniteSet(F)
           /\ \A k \in 1 .. Cardinality(F) :
                 \E i \in F : Rank(F, i) = k
<1> DEFINE Up(m) == {j \in F : j <= m}
           Good == {m \in 0 .. n : \A k \in 1 .. Cardinality(Up(m)) :
                       \E i \in F : Cardinality(Up(i)) = k}
<1>0. \A j \in F : j \in Nat /\ 1 <= j /\ j <= n
  OBVIOUS
<1>1. IsFiniteSet(F)
  <2>1. IsFiniteSet(1 .. n)
    BY FS_Interval
  <2> QED
    BY <2>1, FS_Subset
<1>2. \A m \in 0 .. n : IsFiniteSet(Up(m)) /\ Cardinality(Up(m)) \in Nat
  BY <1>1, FS_Subset, FS_CardinalityType
<1>3. 0 \in Good
  <2>0. \A j \in F : ~(j <= 0)
    BY <1>0
  <2>1. Up(0) = {}
    BY <2>0
  <2>2. Cardinality(Up(0)) = 0
    BY <2>1, FS_EmptySet
  <2> QED
    BY <2>2
<1>4. ASSUME NEW m \in 1 .. n, m - 1 \in Good PROVE m \in Good
  <2>1. m \in 0 .. n /\ m - 1 \in 0 .. n
    OBVIOUS
  <2>2. CASE m \in F
    <3>0. m \in Nat /\ \A j \in F : j <= m <=> j <= m - 1 \/ j = m
      BY <1>0
    <3>1. Up(m) = Up(m - 1) \cup {m} /\ m \notin Up(m - 1)
      <4>1. Up(m) = Up(m - 1) \cup {m}
        BY <2>2, <3>0
      <4>2. ~(m <= m - 1)
        BY <3>0
      <4> QED
        BY <4>1, <4>2
    <3>2. Cardinality(Up(m)) = Cardinality(Up(m - 1)) + 1
      BY <1>2, <2>1, <3>1, FS_AddElement
    <3>3. ASSUME NEW k \in 1 .. Cardinality(Up(m)) PROVE \E i \in F : Cardinality(Up(i)) = k
      <4> HIDE DEF Up
      <4>1. CASE k = Cardinality(Up(m))
        BY <2>2, <4>1
      <4>2. CASE k # Cardinality(Up(m))
        <5>1. k \in 1 .. Cardinality(Up(m - 1))
          BY <1>2, <2>1, <3>2, <4>2
        <5> QED
          BY <1>4, <5>1
      <4> QED
        BY <4>1, <4>2
    <3> QED
      BY <2>1, <3>3
  <2>3. CASE m \notin F
    <3>0. \A j \in F : j <= m <=> j <= m - 1
      BY <1>0, <2>3
    <3>1. Up(m) = Up(m - 1)
      BY <3>0
    <3> HIDE DEF Up
    <3> QED
      BY <1>4, <2>1, <3>1
  <2> QED
    BY <2>2, <2>3
<1> HIDE DEF Good
<1>5. 0 .. n \subseteq Good
  BY <1>3, <1>4, UpTo
<1>6. n \in Good
  BY <1>5
<1>7. Up(n) = F
  BY <1>0
<1> QED
  BY <1>1, <1>6, <1>7 DEF Good, Rank

\* The rows named are rows of the log.
LEMMA DistinctNames ==
    ASSUME NEW S, NEW s \in Seq(S)
    PROVE  /\ Distinct(s) \in Seq(S)
           /\ \A k \in 1 .. Len(Distinct(s)) : \E i \in 1 .. Len(s) : Distinct(s)[k] = s[i]
<1> DEFINE first == {i \in DOMAIN s : \A j \in 1 .. i - 1 : s[j] # s[i]}
           at(k) == CHOOSE i \in first : Cardinality({j \in first : j <= i}) = k
           new == [k \in 1 .. Cardinality(first) |-> s[at(k)]]
<1>1. first \subseteq 1 .. Len(s) /\ Len(s) \in Nat
  OBVIOUS
<1>2. Distinct(s) = new
  BY DEF Distinct
<1> HIDE DEF first
<1>3. Cardinality(first) \in Nat
  BY <1>1, RankExists, FS_CardinalityType
<1>4. ASSUME NEW k \in 1 .. Cardinality(first) PROVE at(k) \in 1 .. Len(s)
  <2>1. \E i \in first : Rank(first, i) = k
    BY <1>1, RankExists
  <2>2. at(k) \in first
    BY <2>1 DEF Rank
  <2> QED
    BY <1>1, <2>2
<1> HIDE DEF at
<1>5. \A k \in 1 .. Cardinality(first) : s[at(k)] \in S
  BY <1>4
<1>6. new \in Seq(S) /\ Len(new) = Cardinality(first)
  BY <1>3, <1>5
<1> QED
  BY <1>2, <1>4, <1>6

-----------------------------------------------------------------------------
(* Sequences kept for each node.                                           *)

Lines(S) == [Nodes -> Seq(S)]

\* Lines g are lines f with x added for node n.
Appended(S, f, n, x, g) ==
    /\ g \in Lines(S)
    /\ \A m \in Nodes : m # n => g[m] = f[m]
    /\ g[n] = Append(f[n], x) /\ Len(g[n]) = Len(f[n]) + 1 /\ Len(f[n]) \in Nat
    /\ \A i \in 1 .. Len(f[n]) : g[n][i] = f[n][i]
    /\ g[n][Len(f[n]) + 1] = x

LEMMA AppendAt ==
    ASSUME NEW S, NEW f, f \in Lines(S), NEW n \in Nodes, NEW x \in S
    PROVE  Appended(S, f, n, x, [f EXCEPT ![n] = Append(@, x)])
<1>1. f[n] \in Seq(S)
  BY DEF Lines
<1>2. /\ Append(f[n], x) \in Seq(S) /\ Len(f[n]) \in Nat
      /\ Len(Append(f[n], x)) = Len(f[n]) + 1
      /\ \A i \in 1 .. Len(f[n]) : Append(f[n], x)[i] = f[n][i]
      /\ Append(f[n], x)[Len(f[n]) + 1] = x
  BY <1>1
<1> DEFINE g == [f EXCEPT ![n] = Append(@, x)]
<1>3. g \in Lines(S) /\ g[n] = Append(f[n], x) /\ \A m \in Nodes : m # n => g[m] = f[m]
  BY <1>2 DEF Lines
<1> HIDE DEF g
<1> QED
  BY <1>2, <1>3 DEF Appended, g

\* Lines g are lines f without the first for node n.
Dropped(S, f, n, g) ==
    /\ g \in Lines(S)
    /\ \A m \in Nodes : m # n => g[m] = f[m]
    /\ g[n] = Tail(f[n]) /\ Len(f[n]) = Len(g[n]) + 1 /\ Len(g[n]) \in Nat
    /\ \A i \in 1 .. Len(g[n]) : g[n][i] = f[n][i + 1]
    /\ Head(f[n]) = f[n][1] /\ Head(f[n]) \in S /\ 1 \in 1 .. Len(f[n])

LEMMA TailAt ==
    ASSUME NEW S, NEW f, f \in Lines(S), NEW n \in Nodes, f[n] # <<>>
    PROVE  Dropped(S, f, n, [f EXCEPT ![n] = Tail(@)])
<1>1. f[n] \in Seq(S)
  BY DEF Lines
<1>2. /\ Tail(f[n]) \in Seq(S)
      /\ Len(f[n]) = Len(Tail(f[n])) + 1 /\ Len(Tail(f[n])) \in Nat
      /\ \A i \in 1 .. Len(Tail(f[n])) : Tail(f[n])[i] = f[n][i + 1]
      /\ Head(f[n]) = f[n][1] /\ Head(f[n]) \in S /\ 1 \in 1 .. Len(f[n])
  BY <1>1
<1> DEFINE g == [f EXCEPT ![n] = Tail(@)]
<1>3. g \in Lines(S) /\ g[n] = Tail(f[n]) /\ \A m \in Nodes : m # n => g[m] = f[m]
  BY <1>2 DEF Lines
<1> HIDE DEF g
<1> QED
  BY <1>2, <1>3 DEF Dropped, g

-----------------------------------------------------------------------------
(* What a step leaves as it was.                                           *)

\* The UUIDs made up so far keep their repositories.
Extends(home, new) == \A u \in UUIDs : Minted(u) => new[u] = home[u]

LEMMA HeldStays ==
    ASSUME NEW home, NEW new, Grows, Extends(home, new), NEW u, NEW r, Held(home, u, r)
    PROVE  Held(new, u, r)'
<1>1. u \in UUIDs /\ Minted(u) /\ home[u] = r
  BY DEF Held, Minted
<1>2. Minted(u)' /\ new[u] = r
  BY <1>1 DEF Grows, Extends
<1> QED
  BY <1>2 DEF Held

LEMMA KnownStays ==
    ASSUME NEW home, NEW new, Grows, Extends(home, new), NEW u, Known(home, u)
    PROVE  Known(new, u)'
<1>1. u \in UUIDs /\ Minted(u) /\ home[u] \in Repositories /\ OnMain(home[u])
  BY DEF Known, Minted
<1>2. Minted(u)' /\ new[u] = home[u]
  BY <1>1 DEF Grows, Extends
<1>3. OnMain(home[u])'
  BY <1>1 DEF Grows
<1> QED
  BY <1>1, <1>2, <1>3 DEF Known, OnMain

LEMMA SnapshotStays ==
    ASSUME NEW home, NEW new, Grows, Extends(home, new), NEW s, SnapshotOK(home, s)
    PROVE  SnapshotOK(new, s)'
<1> DEFINE u == s.uuid
<1>1. Known(home, u) /\ (~s.deleted => home[u] = s.repository)
  BY DEF SnapshotOK
<1>2. Minted(u) /\ u \in UUIDs
  BY <1>1 DEF Known, Minted
<1> HIDE DEF u
<1>3. Known(new, u)' /\ new[u] = home[u]
  BY <1>1, <1>2, KnownStays DEF Extends
<1>4. ~s.deleted => new[u] = s.repository
  BY <1>1, <1>3
<1> QED
  BY <1>3, <1>4 DEF SnapshotOK, u

LEMMA RowsCarried ==
    ASSUME NEW home, NEW new, Grows, Extends(home, new), RowsOK(home),
           \A h \in Hosts, r \in Repositories :
              project'[h][r] = project[h][r] \/ RowHolds(new, h, r)'
    PROVE  RowsOK(new)'
<1> SUFFICES ASSUME NEW h \in Hosts, NEW r \in Repositories,
                    project'[h][r] = project[h][r]
             PROVE  RowHolds(new, h, r)'
  BY DEF RowsOK
<1> DEFINE row == project[h][r]
<1> SUFFICES ASSUME row # NoProject
             PROVE  /\ Held(new, row.uuid, r)'
                    /\ row.announced => Told(h, r)'
                    /\ h \in Nodes /\ ~row.announced => row.uuid[1] = h
  BY DEF RowHolds, RowOK, Held, Minted
<1>1. /\ Held(home, row.uuid, r)
      /\ row.announced => Told(h, r)
      /\ h \in Nodes /\ ~row.announced => row.uuid[1] = h
  BY DEF RowsOK, RowHolds, RowOK
<1>2. ASSUME NEW u, Held(home, u, r) PROVE Held(new, u, r)'
  BY <1>2, HeldStays
<1>3. Told(h, r) => Told(h, r)'
  BY DEF Grows
<1> QED
  BY <1>1, <1>2, <1>3 DEF Held, Minted

LEMMA DraftsCarried ==
    ASSUME NEW home, NEW new, TypeOK, Grows, Extends(home, new), DraftsOK(home),
           \A c \in Commands : draft'[c] = draft[c] \/ DraftHolds(new, c)'
    PROVE  DraftsOK(new)'
<1> SUFFICES ASSUME NEW c \in Commands, draft'[c] = draft[c], draft[c] # NoDraft
             PROVE  DraftOK(new, draft[c])'
  BY DEF DraftsOK, DraftHolds
<1> DEFINE d == draft[c]
<1>1. d \in Drafts /\ DraftOK(home, d)
  BY DEF TypeOK, DraftsOK, DraftHolds
<1>2. PICK u \in UUIDs, r \in Repositories, h \in Hosts :
         u = d.uuid /\ r = d.repository /\ h = d.host
  BY <1>1 DEF Drafts
<1>3. /\ Held(home, u, r)
      /\ h = Main => OnMain(r)
      /\ d.phase = "built" =>
            OnMain(r) \/ (project[h][r] # NoProject /\ project[h][r].uuid = u)
      /\ d.phase = "unannounced" /\ h \in Nodes => u[1] = h
      /\ d.phase \in {"unmarked", "ready"} => Told(h, r)
  BY <1>1, <1>2 DEF DraftOK, Backed
<1>4. Held(new, u, r)'
  BY <1>3, HeldStays
<1>5. (OnMain(r) => OnMain(r)') /\ (Told(h, r) => Told(h, r)')
  BY DEF Grows
<1>6. d.phase = "built" =>
         OnMain(r)' \/ (project'[h][r] # NoProject /\ project'[h][r].uuid = u)
  BY <1>3, <1>5 DEF Grows
<1>7. d' = d
  OBVIOUS
<1> HIDE DEF d
<1>8. DraftOK(new, d)'
  BY <1>2, <1>3, <1>4, <1>5, <1>6, <1>7 DEF DraftOK, Backed, Held, Minted, OnMain, Told
<1> QED
  BY <1>8 DEF d

LEMMA LogCarried ==
    ASSUME NEW home, NEW new, Grows, Extends(home, new), LogOK(home),
           \A i \in 1 .. Len(log') :
              (i \in 1 .. Len(log) /\ log'[i] = log[i]) \/ LoggedOK(new, i)'
    PROVE  LogOK(new)'
<1> SUFFICES ASSUME NEW i \in 1 .. Len(log), log'[i] = log[i] PROVE LoggedOK(new, i)'
  BY DEF LogOK
<1>1. ASSUME NEW u, Known(home, u) PROVE Known(new, u)'
  BY <1>1, KnownStays
<1>2. Known(home, log[i])
  BY DEF LogOK, LoggedOK
<1> QED
  BY <1>1, <1>2 DEF LoggedOK, Known, Minted, OnMain

LEMMA WantedCarried ==
    ASSUME NEW home, NEW new, Grows, Extends(home, new), WantedOK(home),
           \A n \in Nodes : \A i \in 1 .. Len(wanted'[n]) :
              \/ \E j \in 1 .. Len(wanted[n]) : wanted'[n][i] = wanted[n][j]
              \/ RequestOK(new, n, i)'
    PROVE  WantedOK(new)'
<1> SUFFICES ASSUME NEW n \in Nodes, NEW i \in 1 .. Len(wanted'[n]),
                    NEW j \in 1 .. Len(wanted[n]), wanted'[n][i] = wanted[n][j],
                    NEW k \in 1 .. Len(wanted[n][j])
             PROVE  Known(new, wanted[n][i][k])'
  BY DEF WantedOK, RequestOK
<1>1. ASSUME NEW u, Known(home, u) PROVE Known(new, u)'
  BY <1>1, KnownStays
<1>2. Known(home, wanted[n][j][k])
  BY DEF WantedOK, RequestOK
<1> QED
  BY <1>1, <1>2 DEF Known, Minted, OnMain

LEMMA ArrivingCarried ==
    ASSUME NEW home, NEW new, Grows, Extends(home, new), ArrivingOK(home),
           \A n \in Nodes : \A i \in 1 .. Len(arriving'[n]) :
              \/ \E j \in 1 .. Len(arriving[n]) : arriving'[n][i] = arriving[n][j]
              \/ ResponseOK(new, n, i)'
    PROVE  ArrivingOK(new)'
<1> SUFFICES ASSUME NEW n \in Nodes, NEW i \in 1 .. Len(arriving'[n]),
                    NEW j \in 1 .. Len(arriving[n]), arriving'[n][i] = arriving[n][j],
                    NEW k \in 1 .. Len(arriving[n][j])
             PROVE  SnapshotOK(new, arriving[n][i][k])'
  BY DEF ArrivingOK, ResponseOK
<1>1. ASSUME NEW s, SnapshotOK(home, s) PROVE SnapshotOK(new, s)'
  BY <1>1, SnapshotStays
<1>2. SnapshotOK(home, arriving[n][j][k])
  BY DEF ArrivingOK, ResponseOK
<1> QED
  BY <1>1, <1>2 DEF SnapshotOK, Known, Minted, OnMain

\* The queues, when operations are added at the end.
LEMMA QueuesCarried ==
    ASSUME NEW home, NEW new, TypeOK, Grows, Extends(home, new), QueuesOK(home),
           \A n \in Nodes : \A i \in 1 .. Len(queue'[n]) :
              \/ i \in 1 .. Len(queue[n]) /\ \A j \in 1 .. i : queue'[n][j] = queue[n][j]
              \/ QueuedOK(new, n, i)'
    PROVE  QueuesOK(new)'
<1> SUFFICES ASSUME NEW n \in Nodes, NEW i \in 1 .. Len(queue[n]),
                    \A j \in 1 .. i : queue'[n][j] = queue[n][j]
             PROVE  QueuedOK(new, n, i)'
  BY DEF QueuesOK
<1> DEFINE op == queue[n][i]
<1>0. queue[n] \in Seq(Operations)
  BY DEF TypeOK
<1>1. op \in Operations /\ i \in Nat
  BY <1>0
<1>2. PICK u \in UUIDs, r \in Repositories : u = op.uuid /\ r = op.repository
  BY <1>1 DEF Operations
<1>3. /\ Held(home, u, r)
      /\ op.kind = "upsert" => u[1] = n
      /\ op.kind = "edit" =>
            \/ OnMain(r)
            \/ \E j \in 1 .. i - 1 :
                  queue[n][j].kind = "upsert" /\ queue[n][j].repository = r
  BY <1>2 DEF QueuesOK, QueuedOK
<1>4. Held(new, u, r)' /\ (OnMain(r) => OnMain(r)')
  BY <1>3, HeldStays DEF Grows
<1>5. queue'[n][i] = op /\ \A j \in 1 .. i - 1 : queue'[n][j] = queue[n][j]
  BY <1>1
<1> HIDE DEF op
<1> QED
  BY <1>2, <1>3, <1>4, <1>5 DEF QueuedOK, Held, Minted, OnMain

LEMMA ServedQueue ==
    ASSUME TypeOK, NEW n \in Nodes, queue[n] # <<>>, queue' = [queue EXCEPT ![n] = Tail(@)]
    PROVE  /\ queue' \in [Nodes -> Seq(Operations)] /\ queue'[n] \in Seq(Operations)
           /\ \A m \in Nodes : m # n => queue'[m] = queue[m]
           /\ Len(queue[n]) = Len(queue'[n]) + 1 /\ Len(queue'[n]) \in Nat
           /\ \A i \in 1 .. Len(queue'[n]) : queue'[n][i] = queue[n][i + 1]
           /\ Head(queue[n]) = queue[n][1] /\ Head(queue[n]) \in Operations
<1>1. queue \in Lines(Operations)
  BY DEF TypeOK, Lines
<1> DEFINE g == [queue EXCEPT ![n] = Tail(@)]
<1>2. Dropped(Operations, queue, n, g)
  BY <1>1, TailAt
<1>3. queue' = g
  OBVIOUS
<1> HIDE DEF g
<1> QED
  BY <1>2, <1>3 DEF Lines, Dropped

\* The queues, when the first operation of node n has been applied.
LEMMA QueuesServed ==
    ASSUME NEW home, TypeOK, Grows, Extends(home, home), QueuesOK(home), NEW n \in Nodes,
           queue[n] # <<>>, queue' = [queue EXCEPT ![n] = Tail(@)],
           Head(queue[n]).kind = "upsert" =>
              project'[Main][Head(queue[n]).repository] # NoProject
    PROVE  QueuesOK(home)'
<1>2. /\ \A m \in Nodes : m # n => queue'[m] = queue[m]
      /\ Len(queue[n]) = Len(queue'[n]) + 1 /\ Len(queue'[n]) \in Nat
      /\ \A i \in 1 .. Len(queue'[n]) : queue'[n][i] = queue[n][i + 1]
      /\ Head(queue[n]) = queue[n][1]
  BY ServedQueue
<1>3. ASSUME NEW m \in Nodes, NEW i \in 1 .. Len(queue'[m]), m # n
      PROVE  QueuedOK(home, m, i)'
  <2>1. queue'[m] = queue[m] /\ QueuedOK(home, m, i)
    BY <1>2, <1>3 DEF QueuesOK
  <2>2. queue[m][i] \in Operations
    <3>1. queue[m] \in Seq(Operations) /\ i \in 1 .. Len(queue[m])
      BY <1>3, <2>1 DEF TypeOK
    <3> QED
      BY <3>1
  <2>3. PICK u \in UUIDs, r \in Repositories :
           u = queue[m][i].uuid /\ r = queue[m][i].repository
    BY <2>2 DEF Operations
  <2>4. Held(home, u, r)' /\ (OnMain(r) => OnMain(r)')
    BY <2>1, <2>3, HeldStays DEF Grows, QueuedOK
  <2> QED
    BY <2>1, <2>3, <2>4 DEF QueuedOK, Held, Minted, OnMain
<1>4. ASSUME NEW i \in 1 .. Len(queue'[n]) PROVE QueuedOK(home, n, i)'
  <2> DEFINE op == queue[n][i + 1]
  <2>1. i + 1 \in 1 .. Len(queue[n]) /\ i \in Nat
    BY <1>2
  <2>2. queue[n] \in Seq(Operations)
    BY DEF TypeOK
  <2>3. op \in Operations
    BY <2>1, <2>2
  <2>4. PICK u \in UUIDs, r \in Repositories : u = op.uuid /\ r = op.repository
    BY <2>3 DEF Operations
  <2>5. /\ Held(home, u, r)
        /\ op.kind = "upsert" => u[1] = n
        /\ op.kind = "edit" =>
              \/ OnMain(r)
              \/ \E j \in 1 .. i :
                    queue[n][j].kind = "upsert" /\ queue[n][j].repository = r
    <3>1. QueuedOK(home, n, i + 1) /\ (i + 1) - 1 = i
      BY <2>1 DEF QueuesOK
    <3> QED
      BY <2>4, <3>1 DEF QueuedOK
  <2>6. Held(home, u, r)' /\ (OnMain(r) => OnMain(r)')
    BY <2>5, HeldStays DEF Grows
  <2>7. queue'[n][i] = op
    BY <1>2
  <2> HIDE DEF op
  <2>8. op.kind = "edit" =>
           \/ OnMain(r)'
           \/ \E j \in 1 .. i - 1 :
                 queue'[n][j].kind = "upsert" /\ queue'[n][j].repository = r
    <3> SUFFICES ASSUME NEW j \in 1 .. i, queue[n][j].kind = "upsert",
                        queue[n][j].repository = r
                 PROVE  \/ OnMain(r)'
                        \/ \E k \in 1 .. i - 1 : queue'[n][k].kind = "upsert"
                                                 /\ queue'[n][k].repository = r
      BY <2>5, <2>6
    <3>1. CASE j = 1
      BY <1>2, <3>1 DEF OnMain
    <3>2. CASE j # 1
      <4>1. j - 1 \in 1 .. i - 1 /\ j - 1 \in 1 .. Len(queue'[n]) /\ (j - 1) + 1 = j
        BY <1>2, <2>1, <3>2
      <4>2. queue'[n][j - 1] = queue[n][j]
        BY <1>2, <4>1
      <4> QED
        BY <4>1, <4>2
    <3> QED
      BY <3>1, <3>2
  <2> QED
    BY <2>4, <2>5, <2>6, <2>7, <2>8 DEF QueuedOK, Held, Minted, OnMain
<1> QED
  BY <1>3, <1>4 DEF QueuesOK

\* What was told through the queue is known to the main node when it is applied.
LEMMA ToldServed ==
    ASSUME TypeOK, NEW n \in Nodes, queue[n] # <<>>, queue' = [queue EXCEPT ![n] = Tail(@)],
           \A r \in Repositories : OnMain(r) => OnMain(r)',
           Head(queue[n]).kind = "upsert" =>
              project'[Main][Head(queue[n]).repository] # NoProject,
           NEW h \in Hosts, NEW r \in Repositories, Told(h, r)
    PROVE  Told(h, r)'
<1>2. /\ \A m \in Nodes : m # n => queue'[m] = queue[m]
      /\ Len(queue[n]) = Len(queue'[n]) + 1 /\ Len(queue'[n]) \in Nat
      /\ \A i \in 1 .. Len(queue'[n]) : queue'[n][i] = queue[n][i + 1]
      /\ Head(queue[n]) = queue[n][1]
  BY ServedQueue
<1>3. CASE OnMain(r)
  BY <1>3 DEF Told
<1>4. CASE h # n
  BY <1>2, <1>3, <1>4 DEF Told, OnMain
<1>5. ASSUME h = n, NEW i \in DOMAIN queue[n], queue[n][i].kind = "upsert",
             queue[n][i].repository = r
      PROVE  Told(h, r)'
  <2>0. queue[n] \in Seq(Operations) /\ queue'[n] \in Seq(Operations)
    BY ServedQueue DEF TypeOK
  <2>1. i \in 1 .. Len(queue[n])
    BY <2>0
  <2>2. CASE i = 1
    BY <1>2, <1>5, <2>2 DEF Told, OnMain
  <2>3. CASE i # 1
    <3>1. i - 1 \in 1 .. Len(queue'[n]) /\ (i - 1) + 1 = i
      BY <1>2, <2>1, <2>3
    <3>2. queue'[n][i - 1] = queue[n][i] /\ i - 1 \in DOMAIN queue'[n]
      BY <1>2, <2>0, <3>1
    <3> QED
      BY <1>5, <3>2 DEF Told
  <2> QED
    BY <2>2, <2>3
<1> QED
  BY <1>3, <1>4, <1>5 DEF Told

-----------------------------------------------------------------------------
(* The steps.                                                              *)

Holds(home) == TypeOK /\ RefusedOnlyWhenLost /\ home \in Homes /\ Identity(home)

\* A step keeps the invariant when all that it changes is right.
LEMMA StepHolds ==
    ASSUME NEW home, NEW new, Holds(home), new \in Homes, Extends(home, new), Grows, TypeOK',
           QueuesOK(new)',
           \A h \in Hosts, r \in Repositories :
              project'[h][r] = project[h][r] \/ RowHolds(new, h, r)',
           \A c \in Commands : draft'[c] = draft[c] \/ DraftHolds(new, c)',
           \A i \in 1 .. Len(log') :
              (i \in 1 .. Len(log) /\ log'[i] = log[i]) \/ LoggedOK(new, i)',
           \A n \in Nodes : \A i \in 1 .. Len(wanted'[n]) :
              \/ \E j \in 1 .. Len(wanted[n]) : wanted'[n][i] = wanted[n][j]
              \/ RequestOK(new, n, i)',
           \A n \in Nodes : \A i \in 1 .. Len(arriving'[n]) :
              \/ \E j \in 1 .. Len(arriving[n]) : arriving'[n][i] = arriving[n][j]
              \/ ResponseOK(new, n, i)',
           \A op \in unknown' : op \in unknown \/ project'[Main][op.repository] # NoProject
    PROVE  Holds(new)'
<1>1. /\ TypeOK /\ RefusedOnlyWhenLost /\ RowsOK(home) /\ DraftsOK(home) /\ LogOK(home)
      /\ WantedOK(home) /\ ArrivingOK(home)
  BY DEF Holds, Identity
<1>2. RowsOK(new)'
  BY <1>1, RowsCarried
<1>3. DraftsOK(new)'
  BY <1>1, DraftsCarried
<1>4. LogOK(new)'
  BY <1>1, LogCarried
<1>5. WantedOK(new)'
  BY <1>1, WantedCarried
<1>6. ArrivingOK(new)'
  BY <1>1, ArrivingCarried
<1>7. RefusedOnlyWhenLost'
  <2>1. \A op \in unknown : op.repository \in Repositories
    BY <1>1 DEF TypeOK, Operations
  <2>2. \A op \in unknown : project'[Main][op.repository] # NoProject
    BY <1>1, <2>1 DEF RefusedOnlyWhenLost, Grows, OnMain
  <2> QED
    BY <2>2 DEF RefusedOnlyWhenLost
<1> QED
  BY <1>2, <1>3, <1>4, <1>5, <1>6, <1>7 DEF Holds, Identity

LEMMA ExtendsItself == ASSUME NEW home PROVE Extends(home, home)
  BY DEF Extends

LEMMA GrowsAsIs == ASSUME UNCHANGED <<project, minted, queue>> PROVE Grows
  BY DEF Grows, Minted, OnMain, Told

\* The queues are right as long as nothing leaves them.
LEMMA QueuesAsTheyAre ==
    ASSUME NEW home, NEW new, Holds(home), Extends(home, new), Grows, UNCHANGED queue
    PROVE  QueuesOK(new)'
<1>1. TypeOK /\ QueuesOK(home)
  BY DEF Holds, Identity
<1>2. \A n \in Nodes : \A i \in 1 .. Len(queue'[n]) :
         i \in 1 .. Len(queue[n]) /\ \A j \in 1 .. i : queue'[n][j] = queue[n][j]
  OBVIOUS
<1> QED
  BY <1>1, <1>2, QueuesCarried

\* A step that only writes an operation, or gives up.
LEMMA DraftStep ==
    ASSUME NEW home, Holds(home), NEW c \in Commands, NEW d, d \in Drafts \cup {NoDraft},
           draft' = [draft EXCEPT ![c] = d], d # NoDraft => DraftOK(home, d),
           UNCHANGED <<project, minted, queue, issued, unknown, log, spread>>
    PROVE  Holds(home)'
<1>1. Grows /\ Extends(home, home) /\ home \in Homes
  BY GrowsAsIs, ExtendsItself DEF Holds
<1>2. QueuesOK(home)'
  BY <1>1, QueuesAsTheyAre
<1>3. TypeOK /\ UNCHANGED <<cursor, wanted, arriving, fulls>>
  BY DEF Holds, spread
<1>4. TypeOK'
  BY <1>3 DEF TypeOK
<1>5. ASSUME NEW e \in Commands PROVE draft'[e] = draft[e] \/ DraftHolds(home, e)'
  <2>1. CASE e # c
    BY <1>3, <2>1 DEF TypeOK
  <2>2. CASE e = c
    <3>1. draft'[e] = d
      BY <1>3, <2>2 DEF TypeOK
    <3> QED
      BY <3>1 DEF DraftHolds, DraftOK, Backed, Held, Minted, OnMain, Told
  <2> QED
    BY <2>1, <2>2
<1> QED
  BY <1>1, <1>2, <1>3, <1>4, <1>5, StepHolds

LEMMA BeginEditStep ==
    ASSUME NEW home, Holds(home), NEW c \in Commands, NEW h \in Users, NEW r \in Repositories,
           BeginEdit(c, h, r)
    PROVE  Holds(home)'
<1> DEFINE u == project[h][r].uuid
           d == [host |-> h, uuid |-> u, repository |-> r, phase |-> "built"]
<1>1. h \in Hosts /\ project[h][r] # NoProject
  BY ProjectsAssumption DEF BeginEdit
<1>2. project[h][r] \in Rows
  BY <1>1 DEF Holds, TypeOK, Tables
<1>3. u \in UUIDs /\ Held(home, u, r)
  BY <1>1, <1>2 DEF Rows, Holds, Identity, RowsOK, RowHolds, RowOK
<1>4. project[h][r].uuid = u
  OBVIOUS
<1>5. draft' = [draft EXCEPT ![c] = d]
  BY DEF BeginEdit
<1> HIDE DEF u
<1>6. d \in Drafts /\ d.host = h /\ d.uuid = u /\ d.repository = r /\ d.phase = "built"
  BY <1>1, <1>3 DEF Drafts
<1> HIDE DEF d
<1>7. DraftOK(home, d)
  BY <1>1, <1>3, <1>4, <1>6 DEF DraftOK, Backed, OnMain
<1> QED
  BY <1>5, <1>6, <1>7, DraftStep DEF BeginEdit

LEMMA CheckAnnouncedStep ==
    ASSUME NEW home, Holds(home), NEW c \in Commands, CheckAnnounced(c)
    PROVE  Holds(home)'
<1> DEFINE d == draft[c]
           h == d.host
           u == d.uuid
           r == d.repository
           found == Unannounced(h, u)
           phase == IF found = {} THEN "ready" ELSE "unannounced"
           place == IF found = {} THEN r ELSE CHOOSE q \in found : TRUE
           new == [d EXCEPT !.phase = phase, !.repository = place]
<1>1. d # NoDraft /\ d.phase = "built" /\ draft \in [Commands -> Drafts \cup {NoDraft}]
  BY DEF CheckAnnounced, Holds, TypeOK
<1>2. d \in Drafts /\ DraftOK(home, d)
  BY <1>1 DEF Holds, Identity, DraftsOK, DraftHolds
<1>3. h \in Hosts /\ u \in UUIDs /\ r \in Repositories
  BY <1>2 DEF Drafts
<1>4. draft' = [draft EXCEPT ![c] = new]
  <2>1. draft' = [draft EXCEPT ![c].phase = phase, ![c].repository = place]
    BY DEF CheckAnnounced
  <2> HIDE DEF phase, place
  <2> QED
    BY <1>1, <2>1
<1>5. UNCHANGED <<project, minted, queue, issued, unknown, log, spread>>
  BY DEF CheckAnnounced
<1>6. Held(home, u, r) /\ (h = Main => OnMain(r)) /\ Backed(d, project[h][r])
  BY <1>1, <1>2 DEF DraftOK
<1>7. \A q \in found : q = r /\ (h \in Nodes => u[1] = h)
  <2> SUFFICES ASSUME NEW q \in found PROVE q = r /\ (h \in Nodes => u[1] = h)
    OBVIOUS
  <2>1. /\ q \in Repositories /\ project[h][q] # NoProject /\ project[h][q].uuid = u
        /\ ~project[h][q].announced
    BY DEF Unannounced, ByUuid
  <2>2. RowOK(home, h, q, project[h][q])
    BY <1>3, <2>1 DEF Holds, Identity, RowsOK, RowHolds
  <2> QED
    BY <1>6, <2>1, <2>2 DEF RowOK, Held
<1>8. found = {} => Told(h, r)
  <2> SUFFICES ASSUME found = {}, ~OnMain(r) PROVE Told(h, r)
    BY DEF Told
  <2>1. project[h][r] # NoProject /\ project[h][r].uuid = u
    BY <1>6 DEF Backed
  <2>2. project[h][r].announced
    BY <1>3, <2>1 DEF Unannounced, ByUuid
  <2>3. RowOK(home, h, r, project[h][r])
    BY <1>3 DEF Holds, Identity, RowsOK, RowHolds
  <2> QED
    BY <2>1, <2>2, <2>3 DEF RowOK
<1>9. place = r
  BY <1>7
<1>10. phase \in {"ready", "unannounced"}
       /\ (phase = "ready" => Told(h, r))
       /\ (phase = "unannounced" /\ h \in Nodes => u[1] = h)
  BY <1>7, <1>8
<1> HIDE DEF found, phase, place
<1>11. /\ new \in Drafts /\ new.host = h /\ new.uuid = u
       /\ new.repository = r /\ new.phase = phase
  BY <1>2, <1>9, <1>10 DEF Drafts
<1> HIDE DEF new, h, u, r
<1>12. DraftOK(home, new)
  BY <1>6, <1>10, <1>11 DEF DraftOK
<1> QED
  BY <1>4, <1>5, <1>11, <1>12, DraftStep

LEMMA CrashStep ==
    ASSUME NEW home, Holds(home), NEW c \in Commands, Crash(c)
    PROVE  Holds(home)'
  BY DraftStep DEF Crash

\* An operation under way, and what is made of it.
LEMMA DraftAtHand ==
    ASSUME NEW home, Holds(home), NEW c \in Commands, draft[c] # NoDraft,
           NEW kind \in {"upsert", "edit"}
    PROVE  /\ draft[c] \in Drafts /\ DraftOK(home, draft[c])
           /\ draft[c].host \in Hosts /\ draft[c].uuid \in UUIDs
           /\ draft[c].repository \in Repositories
           /\ Operation(kind, c) \in Operations
           /\ Operation(kind, c).kind = kind
           /\ Operation(kind, c).uuid = draft[c].uuid
           /\ Operation(kind, c).repository = draft[c].repository
<1>1. draft[c] \in Drafts /\ DraftOK(home, draft[c])
  BY DEF Holds, TypeOK, Identity, DraftsOK, DraftHolds
<1>2. /\ draft[c].host \in Hosts /\ draft[c].uuid \in UUIDs
      /\ draft[c].repository \in Repositories
  BY <1>1 DEF Drafts
<1> QED
  BY <1>1, <1>2 DEF Operation, Operations

\* The next phase of a draft.
LEMMA PhaseStep ==
    ASSUME NEW home, Holds(home), NEW c \in Commands, draft[c] # NoDraft,
           NEW phase \in {"built", "unannounced", "unmarked", "ready"},
           draft' = [draft EXCEPT ![c].phase = phase]
    PROVE  /\ draft' \in [Commands -> Drafts \cup {NoDraft}]
           /\ draft'[c] # NoDraft
           /\ draft'[c].host = draft[c].host /\ draft'[c].uuid = draft[c].uuid
           /\ draft'[c].repository = draft[c].repository /\ draft'[c].phase = phase
           /\ \A e \in Commands : e # c => draft'[e] = draft[e]
<1> DEFINE d == draft[c]
           new == [d EXCEPT !.phase = phase]
<1>1. d \in Drafts /\ draft \in [Commands -> Drafts \cup {NoDraft}]
  BY DEF Holds, TypeOK
<1>2. /\ new \in Drafts /\ new.host = d.host /\ new.uuid = d.uuid
      /\ new.repository = d.repository /\ new.phase = phase
  BY <1>1 DEF Drafts
<1>3. draft' = [draft EXCEPT ![c] = new]
  BY <1>1
<1>4. new # NoDraft
  BY <1>2, NoDraftAssumption
<1> HIDE DEF new
<1> QED
  BY <1>1, <1>2, <1>3, <1>4

LEMMA AnnounceOnNodeStep ==
    ASSUME NEW home, Holds(home), NEW c \in Commands, AnnounceOnNode(c)
    PROVE  Holds(home)'
<1>0. draft[c] # NoDraft
  BY DEF AnnounceOnNode
<1> PICK h \in Hosts, u \in UUIDs, r \in Repositories, op \in Operations :
       /\ h = draft[c].host /\ u = draft[c].uuid /\ r = draft[c].repository
       /\ op = Operation("upsert", c)
  BY <1>0, DraftAtHand
<1>1. /\ h \in Nodes /\ draft[c].phase = "unannounced"
      /\ draft' = [draft EXCEPT ![c].phase = "unmarked"]
      /\ queue' = [queue EXCEPT ![h] = Append(@, op)]
      /\ issued' = issued + 1 /\ issued < MaxEdits
      /\ UNCHANGED <<project, minted, unknown, log, cursor, wanted, arriving, fulls>>
  BY DEF AnnounceOnNode, spread
<1>2. /\ DraftOK(home, draft[c])
      /\ op.kind = "upsert" /\ op.uuid = u /\ op.repository = r
  BY <1>0, DraftAtHand
<1>3. /\ draft' \in [Commands -> Drafts \cup {NoDraft}]
      /\ draft'[c].host = h /\ draft'[c].uuid = u
      /\ draft'[c].repository = r /\ draft'[c].phase = "unmarked"
      /\ \A e \in Commands : e # c => draft'[e] = draft[e]
  BY <1>0, <1>1, PhaseStep
<1>4. Held(home, u, r) /\ u[1] = h
  BY <1>1, <1>2 DEF DraftOK
<1>5. Appended(Operations, queue, h, op, queue')
  <2>1. queue \in Lines(Operations)
    BY DEF Holds, TypeOK, Lines
  <2> QED
    BY <1>1, <1>2, <2>1, AppendAt
<1>6. \A m \in Nodes : \A i \in DOMAIN queue[m] :
         i \in DOMAIN queue'[m] /\ queue'[m][i] = queue[m][i]
  <2> SUFFICES ASSUME NEW m \in Nodes, NEW i \in DOMAIN queue[m]
               PROVE  i \in DOMAIN queue'[m] /\ queue'[m][i] = queue[m][i]
    OBVIOUS
  <2>1. queue[m] \in Seq(Operations) /\ queue'[m] \in Seq(Operations)
    BY <1>5 DEF Holds, TypeOK, Appended, Lines
  <2>2. i \in 1 .. Len(queue[m])
    BY <2>1
  <2> QED
    BY <1>5, <2>1, <2>2 DEF Appended
<1>7. Told(h, r)'
  <2>1. queue'[h] \in Seq(Operations) /\ Len(queue'[h]) \in 1 .. Len(queue'[h])
    BY <1>1, <1>5 DEF Appended, Lines
  <2>2. /\ Len(queue'[h]) \in DOMAIN queue'[h]
        /\ queue'[h][Len(queue'[h])] = op
    BY <1>5, <2>1 DEF Appended
  <2> QED
    BY <1>1, <1>2, <2>2 DEF Told
<1>8. Grows /\ Extends(home, home) /\ home \in Homes
  <2>1. \A g \in Hosts, q \in Repositories : Told(g, q) => Told(g, q)'
    BY <1>1, <1>6 DEF Told, OnMain
  <2> QED
    BY <1>1, <2>1, ExtendsItself DEF Grows, Minted, OnMain, Holds
<1>9. QueuesOK(home)'
  <2>1. \A n \in Nodes : \A i \in 1 .. Len(queue'[n]) :
           \/ i \in 1 .. Len(queue[n]) /\ \A j \in 1 .. i : queue'[n][j] = queue[n][j]
           \/ QueuedOK(home, n, i)'
    <3> SUFFICES ASSUME NEW n \in Nodes, NEW i \in 1 .. Len(queue'[n])
                 PROVE  \/ /\ i \in 1 .. Len(queue[n])
                           /\ \A j \in 1 .. i : queue'[n][j] = queue[n][j]
                        \/ QueuedOK(home, n, i)'
      OBVIOUS
    <3>1. CASE n # h
      BY <1>5, <3>1 DEF Appended
    <3>2. CASE n = h /\ i # Len(queue[h]) + 1
      BY <1>5, <3>2 DEF Appended
    <3>3. CASE n = h /\ i = Len(queue[h]) + 1
      <4>1. queue'[n][i] = op
        BY <1>5, <3>3 DEF Appended
      <4>2. Held(home, u, r)'
        BY <1>4, <1>8, HeldStays
      <4> QED
        BY <1>2, <1>4, <3>3, <4>1, <4>2 DEF QueuedOK, Held, Minted
    <3> QED
      BY <3>1, <3>2, <3>3
  <2>2. TypeOK /\ QueuesOK(home)
    BY DEF Holds, Identity
  <2> QED
    BY <1>8, <2>1, <2>2, QueuesCarried
<1>10. \A e \in Commands : draft'[e] = draft[e] \/ DraftHolds(home, e)'
  <2> SUFFICES DraftHolds(home, c)'
    BY <1>3
  <2>1. Held(home, u, r)'
    BY <1>4, <1>8, HeldStays
  <2>2. h # Main
    BY <1>1, ProjectsAssumption
  <2> QED
    BY <1>3, <1>7, <2>1, <2>2 DEF DraftHolds, DraftOK, Held, Minted, OnMain, Told
<1>11. TypeOK'
  <2>1. queue' \in [Nodes -> Seq(Operations)]
    BY <1>5 DEF Appended, Lines
  <2>2. issued' \in 0 .. MaxEdits
    BY <1>1, ProjectsAssumption DEF Holds, TypeOK
  <2> QED
    BY <1>1, <1>3, <2>1, <2>2 DEF Holds, TypeOK
<1> QED
  BY <1>1, <1>8, <1>9, <1>10, <1>11, StepHolds

\* A UUID never meets another project on the main node.
LEMMA MainUncontested ==
    ASSUME NEW home, Holds(home), NEW u \in UUIDs, NEW r \in Repositories, Held(home, u, r)
    PROVE  OnlyAt(project[Main], u, r) /\ ~Contested(project[Main], u, r)
<1>1. Main \in Hosts
  BY DEF Hosts
<1>2. OnlyAt(project[Main], u, r)
  <2> SUFFICES ASSUME NEW q \in Repositories, project[Main][q] # NoProject,
                      project[Main][q].uuid = u
               PROVE  q = r
    BY DEF OnlyAt
  <2>1. RowOK(home, Main, q, project[Main][q])
    BY <1>1 DEF Holds, Identity, RowsOK, RowHolds
  <2> QED
    BY <2>1 DEF RowOK, Held
<1>3. ~Contested(project[Main], u, r)
  BY <1>2 DEF Contested, ByUuid, OnlyAt
<1> QED
  BY <1>2, <1>3

\* The main node takes over UUID u for repository r.
TakesOver(home, u, r) ==
    /\ project' \in [Hosts -> Tables]
    /\ project'[Main][r] # NoProject /\ project'[Main][r].uuid = u
    /\ \A q \in Repositories : OnMain(q) => OnMain(q)'
    /\ \A h \in Hosts, q \in Repositories :
          \/ project'[h][q] = project[h][q]
          \/ h = Main /\ q = r /\ RowHolds(home, h, q)'

LEMMA MainUpserts ==
    ASSUME NEW home, Holds(home), NEW u \in UUIDs, NEW r \in Repositories, Held(home, u, r),
           project' = [project EXCEPT ![Main] = UpsertProject(@, u, r)], UNCHANGED minted
    PROVE  TakesOver(home, u, r)
<1> DEFINE new == UpsertProject(project[Main], u, r)
<1>1. /\ project \in [Hosts -> Tables] /\ Main \in Hosts /\ Main \notin Nodes
      /\ project[Main] \in Tables
  BY ProjectsAssumption DEF Holds, TypeOK, Hosts
<1>2. Places(project[Main], u, r, new)
  BY <1>1, MainUncontested, UpsertCases
<1>3. project' = [project EXCEPT ![Main] = new]
  OBVIOUS
<1> HIDE DEF new
<1>4. /\ project' \in [Hosts -> Tables]
      /\ project'[Main] = new /\ \A h \in Hosts : h # Main => project'[h] = project[h]
  BY <1>1, <1>2, <1>3 DEF Places
<1>5. /\ \A q \in Repositories : q # r => project'[Main][q] = project[Main][q]
      /\ project'[Main][r] # NoProject /\ project'[Main][r].uuid = u
  BY <1>2, <1>4 DEF Places
<1>6. RowHolds(home, Main, r)'
  <2>1. Held(home, u, r)'
    BY DEF Held, Minted
  <2> QED
    BY <1>1, <1>5, <2>1 DEF RowHolds, RowOK, Told, OnMain, Held, Minted
<1>7. \A h \in Hosts, q \in Repositories :
         \/ project'[h][q] = project[h][q]
         \/ h = Main /\ q = r /\ RowHolds(home, h, q)'
  BY <1>4, <1>5, <1>6
<1> QED
  BY <1>4, <1>5, <1>7 DEF OnMain, TakesOver

LEMMA AnnounceOnMainStep ==
    ASSUME NEW home, Holds(home), NEW c \in Commands, AnnounceOnMain(c)
    PROVE  Holds(home)'
<1>0. draft[c] # NoDraft
  BY DEF AnnounceOnMain
<1> PICK h \in Hosts, u \in UUIDs, r \in Repositories :
       /\ h = draft[c].host /\ u = draft[c].uuid /\ r = draft[c].repository
  BY <1>0, DraftAtHand
<1>1. DraftOK(home, draft[c]) /\ Held(home, u, r) /\ h = Main /\ home[u] = r
  BY <1>0, DraftAtHand DEF DraftOK, AnnounceOnMain, Held
<1>2. ~Contested(project[Main], u, r)
  BY <1>1, MainUncontested
<1>3. /\ draft' = [draft EXCEPT ![c].phase = "unmarked"]
      /\ project' = [project EXCEPT ![Main] = UpsertProject(@, u, r)]
      /\ log' = Append(log, u)
      /\ issued' = issued + 1 /\ issued < MaxEdits
      /\ UNCHANGED <<minted, queue, unknown, cursor, wanted, arriving, fulls>>
  BY <1>2 DEF AnnounceOnMain, spread
<1>4. /\ project' \in [Hosts -> Tables]
      /\ project'[Main][r] # NoProject
      /\ \A q \in Repositories : OnMain(q) => OnMain(q)'
      /\ \A g \in Hosts, q \in Repositories :
            \/ project'[g][q] = project[g][q]
            \/ g = Main /\ q = r /\ RowHolds(home, g, q)'
  <2>1. TakesOver(home, u, r)
    BY <1>1, <1>3, MainUpserts
  <2> QED
    BY <2>1 DEF TakesOver
<1>5. /\ draft' \in [Commands -> Drafts \cup {NoDraft}]
      /\ draft'[c].host = h /\ draft'[c].uuid = u
      /\ draft'[c].repository = r /\ draft'[c].phase = "unmarked"
      /\ \A e \in Commands : e # c => draft'[e] = draft[e]
  BY <1>0, <1>3, PhaseStep
<1>6. Grows /\ Extends(home, home) /\ home \in Homes
  <2>1. \A g \in Hosts, q \in Repositories : Told(g, q) => Told(g, q)'
    BY <1>3, <1>4 DEF Told
  <2>2. \A g \in Hosts, q \in Repositories :
           project[g][q] # NoProject =>
              \/ OnMain(q)'
              \/ project'[g][q] # NoProject /\ project'[g][q].uuid = project[g][q].uuid
    BY <1>4 DEF OnMain
  <2>3. \A v \in UUIDs : Minted(v) => Minted(v)'
    BY <1>3 DEF Minted
  <2> QED
    BY <1>4, <2>1, <2>2, <2>3, ExtendsItself DEF Grows, Holds
<1>7. QueuesOK(home)'
  BY <1>3, <1>6, QueuesAsTheyAre
<1>8. Held(home, u, r)'
  BY <1>1, <1>6, HeldStays
<1>9. \A e \in Commands : draft'[e] = draft[e] \/ DraftHolds(home, e)'
  <2> SUFFICES DraftHolds(home, c)'
    BY <1>5
  <2> QED
    BY <1>1, <1>4, <1>5, <1>8 DEF DraftHolds, DraftOK, Held, Minted, OnMain, Told
<1>10. log \in Seq(UUIDs) /\ Len(log) \in Nat
  BY DEF Holds, TypeOK
<1>11. /\ log' \in Seq(UUIDs) /\ Len(log') = Len(log) + 1 /\ log'[Len(log) + 1] = u
       /\ \A i \in 1 .. Len(log) : log'[i] = log[i]
  BY <1>3, <1>10
<1>12. \A i \in 1 .. Len(log') :
          (i \in 1 .. Len(log) /\ log'[i] = log[i]) \/ LoggedOK(home, i)'
  <2> SUFFICES ASSUME NEW i \in 1 .. Len(log'), i \notin 1 .. Len(log)
               PROVE  LoggedOK(home, i)'
    BY <1>11
  <2>1. log'[i] = u
    BY <1>10, <1>11
  <2> QED
    BY <1>1, <1>4, <1>8, <2>1 DEF LoggedOK, Known, Held, Minted, OnMain
<1>13. TypeOK'
  <2>1. issued' \in 0 .. MaxEdits
    BY <1>3, ProjectsAssumption DEF Holds, TypeOK
  <2>2. cursor' \in [Nodes -> 0 .. Len(log')]
    BY <1>3, <1>10, <1>11 DEF Holds, TypeOK
  <2> QED
    BY <1>3, <1>4, <1>5, <1>11, <2>1, <2>2 DEF Holds, TypeOK
<1> QED
  BY <1>3, <1>4, <1>6, <1>7, <1>9, <1>12, <1>13, StepHolds

LEMMA MarkStep ==
    ASSUME NEW home, Holds(home), NEW c \in Commands, Mark(c)
    PROVE  Holds(home)'
<1>0. draft[c] # NoDraft
  BY DEF Mark
<1> PICK h \in Hosts, u \in UUIDs, r \in Repositories :
       /\ h = draft[c].host /\ u = draft[c].uuid /\ r = draft[c].repository
  BY <1>0, DraftAtHand
<1>1. /\ draft' = [draft EXCEPT ![c].phase = "ready"] /\ draft[c].phase = "unmarked"
      /\ project' = [project EXCEPT ![h] = MarkAnnounced(@, u)]
      /\ UNCHANGED <<minted, queue, issued, unknown, log, cursor, wanted, arriving, fulls>>
  BY DEF Mark, spread
<1>2. /\ DraftOK(home, draft[c]) /\ Held(home, u, r) /\ Told(h, r) /\ home[u] = r
      /\ (h = Main => OnMain(r))
  BY <1>0, <1>1, DraftAtHand DEF DraftOK, Held
<1>3. /\ draft' \in [Commands -> Drafts \cup {NoDraft}]
      /\ draft'[c].host = h /\ draft'[c].uuid = u
      /\ draft'[c].repository = r /\ draft'[c].phase = "ready"
      /\ \A e \in Commands : e # c => draft'[e] = draft[e]
  BY <1>0, <1>1, PhaseStep
<1>4. project \in [Hosts -> Tables] /\ project[h] \in Tables /\ Main \in Hosts
  BY DEF Holds, TypeOK, Hosts
<1> DEFINE new == MarkAnnounced(project[h], u)
<1>5. /\ new \in Tables
      /\ \A q \in Repositories : new[q] =
            IF project[h][q] # NoProject /\ project[h][q].uuid = u
              THEN [project[h][q] EXCEPT !.announced = TRUE] ELSE project[h][q]
  <2>1. Marks(project[h], u, new)
    BY <1>4, MarkCases
  <2> QED
    BY <2>1 DEF Marks
<1>6. project' = [project EXCEPT ![h] = new]
  BY <1>1
<1> HIDE DEF new
<1>7. /\ project' \in [Hosts -> Tables] /\ project'[h] = new
      /\ \A g \in Hosts : g # h => project'[g] = project[g]
  BY <1>4, <1>5, <1>6
<1>8. ASSUME NEW q \in Repositories, project[h][q] # NoProject
      PROVE  /\ project'[h][q] # NoProject /\ project'[h][q].uuid = project[h][q].uuid
             /\ project'[h][q] = project[h][q] \/ project[h][q].uuid = u
  <2>1. project[h][q] \in Rows
    BY <1>4, <1>8 DEF Tables
  <2>2. /\ [project[h][q] EXCEPT !.announced = TRUE] \in Rows
        /\ [project[h][q] EXCEPT !.announced = TRUE].uuid = project[h][q].uuid
    BY <2>1 DEF Rows
  <2> QED
    BY <1>5, <1>7, <1>8, <2>2, NoProjectAssumption
<1>9. ASSUME NEW q \in Repositories, project[h][q] = NoProject
      PROVE  project'[h][q] = NoProject
  BY <1>5, <1>7, <1>9
<1>10. \A g \in Hosts, q \in Repositories :
          project[g][q] # NoProject =>
             project'[g][q] # NoProject /\ project'[g][q].uuid = project[g][q].uuid
  BY <1>7, <1>8
<1>11. Grows /\ Extends(home, home) /\ home \in Homes
  <2>1. \A q \in Repositories : OnMain(q) => OnMain(q)'
    BY <1>4, <1>10 DEF OnMain
  <2>2. \A g \in Hosts, q \in Repositories : Told(g, q) => Told(g, q)'
    BY <1>1, <2>1 DEF Told
  <2>3. \A v \in UUIDs : Minted(v) => Minted(v)'
    BY <1>1 DEF Minted
  <2> QED
    BY <1>10, <2>1, <2>2, <2>3, ExtendsItself DEF Grows, Holds
<1>12. \A g \in Hosts, q \in Repositories :
          project'[g][q] = project[g][q] \/ RowHolds(home, g, q)'
  <2> SUFFICES ASSUME NEW q \in Repositories, project'[h][q] # project[h][q]
               PROVE  RowHolds(home, h, q)'
    BY <1>7
  <2>1. project[h][q] # NoProject
    BY <1>9
  <2>2. project'[h][q].uuid = u /\ project[h][q].uuid = u
    BY <1>8, <2>1
  <2>3. q = r
    <3>1. RowOK(home, h, q, project[h][q])
      BY DEF Holds, Identity, RowsOK, RowHolds
    <3> QED
      BY <1>2, <2>1, <2>2, <3>1 DEF RowOK, Held
  <2>4. Held(home, u, r)' /\ Told(h, r)'
    BY <1>2, <1>11, HeldStays DEF Grows
  <2>5. project'[h][q].announced
    <3>1. project'[h][q] = [project[h][q] EXCEPT !.announced = TRUE]
      BY <1>5, <1>7, <2>1, <2>2
    <3>2. project[h][q] \in Rows
      BY <1>4, <2>1 DEF Tables
    <3> QED
      BY <3>1, <3>2 DEF Rows
  <2> QED
    BY <2>2, <2>3, <2>4, <2>5 DEF RowHolds, RowOK, Held, Minted
<1>13. QueuesOK(home)'
  BY <1>1, <1>11, QueuesAsTheyAre
<1>14. \A e \in Commands : draft'[e] = draft[e] \/ DraftHolds(home, e)'
  <2> SUFFICES DraftHolds(home, c)'
    BY <1>3
  <2>1. Held(home, u, r)' /\ Told(h, r)' /\ (h = Main => OnMain(r)')
    BY <1>2, <1>11, HeldStays DEF Grows
  <2> QED
    BY <1>3, <2>1 DEF DraftHolds, DraftOK, Held, Minted, OnMain, Told
<1>15. TypeOK'
  BY <1>1, <1>3, <1>7 DEF Holds, TypeOK
<1> QED
  BY <1>1, <1>11, <1>12, <1>13, <1>14, <1>15, StepHolds

LEMMA WriteEditStep ==
    ASSUME NEW home, Holds(home), NEW c \in Commands, WriteEdit(c)
    PROVE  Holds(home)'
<1>0. draft[c] # NoDraft
  BY DEF WriteEdit
<1> PICK h \in Hosts, u \in UUIDs, r \in Repositories, op \in Operations :
       /\ h = draft[c].host /\ u = draft[c].uuid /\ r = draft[c].repository
       /\ op = Operation("edit", c)
  BY <1>0, DraftAtHand
<1>1. /\ draft[c].phase = "ready" /\ draft' = [draft EXCEPT ![c] = NoDraft]
      /\ issued' = issued + 1 /\ issued < MaxEdits
      /\ UNCHANGED <<project, minted, log, cursor, wanted, arriving, fulls>>
      /\ h = Main => unknown' = unknown \cup Refused(op) /\ UNCHANGED queue
      /\ h # Main => queue' = [queue EXCEPT ![h] = Append(@, op)] /\ UNCHANGED unknown
  BY DEF WriteEdit, spread
<1>2. /\ DraftOK(home, draft[c])
      /\ op.kind = "edit" /\ op.uuid = u /\ op.repository = r
  BY <1>0, DraftAtHand
<1>3. Held(home, u, r) /\ Told(h, r) /\ (h = Main => OnMain(r))
  BY <1>1, <1>2 DEF DraftOK
<1>4. draft' \in [Commands -> Drafts \cup {NoDraft}] /\ draft'[c] = NoDraft
      /\ \A e \in Commands : e # c => draft'[e] = draft[e]
  BY <1>1 DEF Holds, TypeOK
<1>5. \A e \in Commands : draft'[e] = draft[e] \/ DraftHolds(home, e)'
  BY <1>4 DEF DraftHolds
<1>6. issued' \in 0 .. MaxEdits
  BY <1>1, ProjectsAssumption DEF Holds, TypeOK
<1>7. CASE h = Main
  <2>1. Grows /\ Extends(home, home) /\ home \in Homes
    BY <1>1, <1>7, GrowsAsIs, ExtendsItself DEF Holds
  <2>2. QueuesOK(home)'
    BY <1>1, <1>7, <2>1, QueuesAsTheyAre
  <2>3. unknown' \subseteq unknown \cup {op}
    BY <1>1, <1>7 DEF Refused
  <2>4. \A o \in unknown' : o \in unknown \/ project'[Main][o.repository] # NoProject
    BY <1>1, <1>2, <1>3, <1>7, <2>3 DEF OnMain
  <2>5. TypeOK'
    BY <1>1, <1>4, <1>6, <1>7, <2>3 DEF Holds, TypeOK
  <2> QED
    BY <1>1, <1>5, <2>1, <2>2, <2>4, <2>5, StepHolds
<1>8. CASE h # Main
  <2>0. h \in Nodes
    BY <1>8 DEF Hosts
  <2>1. Appended(Operations, queue, h, op, queue')
    <3>1. queue \in Lines(Operations)
      BY DEF Holds, TypeOK, Lines
    <3> QED
      BY <1>1, <1>8, <2>0, <3>1, AppendAt
  <2>2. \A m \in Nodes : \A i \in DOMAIN queue[m] :
           i \in DOMAIN queue'[m] /\ queue'[m][i] = queue[m][i]
    <3> SUFFICES ASSUME NEW m \in Nodes, NEW i \in DOMAIN queue[m]
                 PROVE  i \in DOMAIN queue'[m] /\ queue'[m][i] = queue[m][i]
      OBVIOUS
    <3>1. queue[m] \in Seq(Operations) /\ queue'[m] \in Seq(Operations)
      BY <2>1 DEF Holds, TypeOK, Appended, Lines
    <3>2. i \in 1 .. Len(queue[m])
      BY <3>1
    <3> QED
      BY <2>1, <3>1, <3>2 DEF Appended
  <2>3. Grows /\ Extends(home, home) /\ home \in Homes
    <3>1. \A g \in Hosts, q \in Repositories : Told(g, q) => Told(g, q)'
      BY <1>1, <2>2 DEF Told, OnMain
    <3> QED
      BY <1>1, <3>1, ExtendsItself DEF Grows, Minted, OnMain, Holds
  <2>4. QueuesOK(home)'
    <3>1. \A n \in Nodes : \A i \in 1 .. Len(queue'[n]) :
             \/ i \in 1 .. Len(queue[n]) /\ \A j \in 1 .. i : queue'[n][j] = queue[n][j]
             \/ QueuedOK(home, n, i)'
      <4> SUFFICES ASSUME NEW n \in Nodes, NEW i \in 1 .. Len(queue'[n])
                   PROVE  \/ /\ i \in 1 .. Len(queue[n])
                             /\ \A j \in 1 .. i : queue'[n][j] = queue[n][j]
                          \/ QueuedOK(home, n, i)'
        OBVIOUS
      <4>1. CASE n # h
        BY <2>1, <4>1 DEF Appended
      <4>2. CASE n = h /\ i # Len(queue[h]) + 1
        BY <2>1, <4>2 DEF Appended
      <4>3. CASE n = h /\ i = Len(queue[h]) + 1
        <5>1. queue'[n][i] = op /\ Len(queue[h]) \in Nat /\ i - 1 = Len(queue[h])
          BY <2>1, <4>3 DEF Appended
        <5>2. Held(home, u, r)' /\ (OnMain(r) => OnMain(r)')
          BY <1>3, <2>3, HeldStays DEF Grows
        <5>3. \/ OnMain(r)
              \/ \E j \in 1 .. i - 1 :
                    queue'[n][j].kind = "upsert" /\ queue'[n][j].repository = r
          <6> SUFFICES ASSUME NEW j \in DOMAIN queue[h], queue[h][j].kind = "upsert",
                              queue[h][j].repository = r
                       PROVE  \E k \in 1 .. i - 1 : queue'[n][k].kind = "upsert"
                                                    /\ queue'[n][k].repository = r
            BY <1>3 DEF Told
          <6>1. queue[h] \in Seq(Operations)
            BY <2>0 DEF Holds, TypeOK
          <6>2. j \in 1 .. i - 1 /\ queue'[n][j] = queue[h][j]
            BY <2>1, <4>3, <5>1, <6>1 DEF Appended
          <6> QED
            BY <6>2
        <5> QED
          BY <1>2, <5>1, <5>2, <5>3 DEF QueuedOK, Held, Minted, OnMain
      <4> QED
        BY <4>1, <4>2, <4>3
    <3>2. TypeOK /\ QueuesOK(home)
      BY DEF Holds, Identity
    <3> QED
      BY <2>3, <3>1, <3>2, QueuesCarried
  <2>5. TypeOK'
    <3>1. queue' \in [Nodes -> Seq(Operations)]
      BY <2>1 DEF Appended, Lines
    <3> QED
      BY <1>1, <1>4, <1>6, <1>8, <3>1 DEF Holds, TypeOK
  <2> QED
    BY <1>1, <1>5, <1>8, <2>3, <2>4, <2>5, StepHolds
<1> QED
  BY <1>7, <1>8

-----------------------------------------------------------------------------
(* The main node applies, and the nodes ask.                               *)

\* What node n queues first.
LEMMA FirstQueued ==
    ASSUME NEW home, Holds(home), NEW n \in Nodes, queue[n] # <<>>
    PROVE  /\ Head(queue[n]) \in Operations /\ n \in Hosts
           /\ Held(home, Head(queue[n]).uuid, Head(queue[n]).repository)
           /\ Head(queue[n]).kind = "upsert" => Head(queue[n]).uuid[1] = n
           /\ Head(queue[n]).kind = "edit" => OnMain(Head(queue[n]).repository)
<1>1. queue[n] \in Seq(Operations) /\ n \in Hosts
  BY DEF Holds, TypeOK, Hosts
<1>2. 1 \in 1 .. Len(queue[n]) /\ Head(queue[n]) = queue[n][1] /\ queue[n][1] \in Operations
  BY <1>1
<1>3. QueuedOK(home, n, 1)
  BY <1>2 DEF Holds, Identity, QueuesOK
<1>4. ~\E j \in 1 .. 1 - 1 :
         queue[n][j].kind = "upsert" /\ queue[n][j].repository = queue[n][1].repository
  OBVIOUS
<1> QED
  BY <1>1, <1>2, <1>3, <1>4 DEF QueuedOK

\* A request added for node n is right when all it names is known to the main node.
LEMMA RequestAdded ==
    ASSUME NEW home, NEW n \in Nodes, NEW request,
           Appended(Seq(UUIDs), wanted, n, request, wanted'),
           \A k \in 1 .. Len(request) : Known(home, request[k])'
    PROVE  \A m \in Nodes : \A i \in 1 .. Len(wanted'[m]) :
              \/ \E j \in 1 .. Len(wanted[m]) : wanted'[m][i] = wanted[m][j]
              \/ RequestOK(home, m, i)'
<1> SUFFICES ASSUME NEW m \in Nodes, NEW i \in 1 .. Len(wanted'[m])
             PROVE  \/ \E j \in 1 .. Len(wanted[m]) : wanted'[m][i] = wanted[m][j]
                    \/ RequestOK(home, m, i)'
  OBVIOUS
<1>1. CASE m # n
  BY <1>1 DEF Appended
<1>2. CASE m = n /\ i # Len(wanted[n]) + 1
  <2>1. i \in 1 .. Len(wanted[n])
    BY <1>2 DEF Appended
  <2> QED
    BY <1>2, <2>1 DEF Appended
<1>3. CASE m = n /\ i = Len(wanted[n]) + 1
  <2>1. wanted'[m][i] = request
    BY <1>3 DEF Appended
  <2> QED
    BY <2>1 DEF RequestOK
<1> QED
  BY <1>1, <1>2, <1>3

LEMMA ApplyUpsertStep ==
    ASSUME NEW home, Holds(home), NEW n \in Nodes, ApplyUpsert(n)
    PROVE  Holds(home)'
<1>0. queue[n] # <<>> /\ Head(queue[n]).kind = "upsert"
  BY DEF ApplyUpsert
<1> PICK u \in UUIDs, r \in Repositories :
       u = Head(queue[n]).uuid /\ r = Head(queue[n]).repository
  BY <1>0, FirstQueued DEF Operations
<1>1. Held(home, u, r) /\ home[u] = r
  BY <1>0, FirstQueued DEF Held
<1>2. /\ project' = [project EXCEPT ![Main] = UpsertProject(@, u, r)]
      /\ log' = Append(log, u)
      /\ wanted' = [wanted EXCEPT ![n] = Append(@, <<u>>)]
      /\ queue' = [queue EXCEPT ![n] = Tail(@)]
      /\ UNCHANGED <<minted, draft, issued, unknown, cursor, arriving, fulls>>
  BY DEF ApplyUpsert
<1>3. TakesOver(home, u, r)
  BY <1>1, <1>2, MainUpserts
<1>4. /\ project' \in [Hosts -> Tables]
      /\ project'[Main][r] # NoProject
      /\ \A q \in Repositories : OnMain(q) => OnMain(q)'
      /\ \A g \in Hosts, q \in Repositories :
            \/ project'[g][q] = project[g][q]
            \/ g = Main /\ q = r /\ RowHolds(home, g, q)'
  BY <1>3 DEF TakesOver
<1>5. TypeOK /\ QueuesOK(home) /\ home \in Homes
  BY DEF Holds, Identity
<1>6. Grows /\ Extends(home, home)
  <2>1. \A g \in Hosts, q \in Repositories : Told(g, q) => Told(g, q)'
    BY <1>0, <1>2, <1>4, <1>5, ToldServed
  <2>2. \A g \in Hosts, q \in Repositories :
           project[g][q] # NoProject =>
              \/ OnMain(q)'
              \/ project'[g][q] # NoProject /\ project'[g][q].uuid = project[g][q].uuid
    BY <1>4 DEF OnMain
  <2>3. \A v \in UUIDs : Minted(v) => Minted(v)'
    BY <1>2 DEF Minted
  <2> QED
    BY <1>4, <2>1, <2>2, <2>3, ExtendsItself DEF Grows
<1>7. QueuesOK(home)'
  BY <1>0, <1>2, <1>4, <1>5, <1>6, QueuesServed
<1>8. Held(home, u, r)'
  BY <1>1, <1>6, HeldStays
<1>9. Known(home, u)'
  BY <1>1, <1>4, <1>8 DEF Known, Held, Minted, OnMain
<1>10. log \in Seq(UUIDs) /\ Len(log) \in Nat
  BY <1>5 DEF TypeOK
<1>11. /\ log' \in Seq(UUIDs) /\ Len(log') = Len(log) + 1 /\ log'[Len(log) + 1] = u
       /\ \A i \in 1 .. Len(log) : log'[i] = log[i]
  BY <1>2, <1>10
<1>12. \A i \in 1 .. Len(log') :
          (i \in 1 .. Len(log) /\ log'[i] = log[i]) \/ LoggedOK(home, i)'
  <2> SUFFICES ASSUME NEW i \in 1 .. Len(log'), i \notin 1 .. Len(log)
               PROVE  LoggedOK(home, i)'
    BY <1>11
  <2>1. log'[i] = u
    BY <1>10, <1>11
  <2> QED
    BY <1>9, <2>1 DEF LoggedOK, Known, Minted, OnMain
<1>13. Appended(Seq(UUIDs), wanted, n, <<u>>, wanted')
  <2>1. wanted \in Lines(Seq(UUIDs)) /\ <<u>> \in Seq(UUIDs)
    BY <1>5 DEF TypeOK, Lines
  <2> QED
    BY <1>2, <2>1, AppendAt
<1>14. \A m \in Nodes : \A i \in 1 .. Len(wanted'[m]) :
          \/ \E j \in 1 .. Len(wanted[m]) : wanted'[m][i] = wanted[m][j]
          \/ RequestOK(home, m, i)'
  <2>1. \A k \in 1 .. Len(<<u>>) : Known(home, <<u>>[k])'
    BY <1>9
  <2> QED
    BY <1>13, <2>1, RequestAdded
<1>15. TypeOK'
  <2>1. queue' \in [Nodes -> Seq(Operations)]
    BY <1>0, <1>2, <1>5, ServedQueue
  <2>2. cursor' \in [Nodes -> 0 .. Len(log')]
    BY <1>2, <1>5, <1>10, <1>11 DEF TypeOK
  <2>3. wanted' \in [Nodes -> Seq(Seq(UUIDs))]
    BY <1>13 DEF Appended, Lines
  <2> QED
    BY <1>2, <1>4, <1>5, <1>11, <2>1, <2>2, <2>3 DEF TypeOK
<1> QED
  BY <1>2, <1>4, <1>5, <1>6, <1>7, <1>12, <1>14, <1>15, StepHolds

LEMMA ApplyEditStep ==
    ASSUME NEW home, Holds(home), NEW n \in Nodes, ApplyEdit(n)
    PROVE  Holds(home)'
<1>0. queue[n] # <<>> /\ Head(queue[n]).kind = "edit"
  BY DEF ApplyEdit
<1> PICK op \in Operations : op = Head(queue[n])
  BY <1>0, FirstQueued
<1>1. /\ op.kind = "edit" /\ OnMain(op.repository)
      /\ queue' = [queue EXCEPT ![n] = Tail(@)]
      /\ unknown' = unknown \cup Refused(op)
      /\ UNCHANGED <<project, minted, draft, issued, log, cursor, wanted, arriving, fulls>>
  BY <1>0, FirstQueued DEF ApplyEdit, spread
<1>2. unknown' \subseteq unknown \cup {op}
  BY <1>1 DEF Refused
<1>3. TypeOK /\ QueuesOK(home) /\ home \in Homes
  BY DEF Holds, Identity
<1>4. \A r \in Repositories : OnMain(r) => OnMain(r)'
  BY <1>1 DEF OnMain
<1>5. Head(queue[n]).kind # "upsert"
  BY <1>1
<1>6. Grows /\ Extends(home, home)
  <2>1. \A g \in Hosts, q \in Repositories : Told(g, q) => Told(g, q)'
    BY <1>0, <1>1, <1>3, <1>4, <1>5, ToldServed
  <2> QED
    BY <1>1, <1>4, <2>1, ExtendsItself DEF Grows, Minted
<1>7. QueuesOK(home)'
  BY <1>0, <1>1, <1>3, <1>5, <1>6, QueuesServed
<1>8. \A o \in unknown' : o \in unknown \/ project'[Main][o.repository] # NoProject
  BY <1>1, <1>2 DEF OnMain
<1>9. TypeOK'
  <2>1. queue' \in [Nodes -> Seq(Operations)]
    BY <1>0, <1>1, <1>3, ServedQueue
  <2> QED
    BY <1>1, <1>2, <1>3, <2>1 DEF TypeOK
<1> QED
  BY <1>1, <1>3, <1>6, <1>7, <1>8, <1>9, StepHolds

\* A step that leaves the projects, the local work and the log as they are.
LEMMA SpreadStep ==
    ASSUME NEW home, Holds(home), UNCHANGED <<project, local, unknown, log>>, TypeOK',
           \A n \in Nodes : \A i \in 1 .. Len(wanted'[n]) :
              \/ \E j \in 1 .. Len(wanted[n]) : wanted'[n][i] = wanted[n][j]
              \/ RequestOK(home, n, i)',
           \A n \in Nodes : \A i \in 1 .. Len(arriving'[n]) :
              \/ \E j \in 1 .. Len(arriving[n]) : arriving'[n][i] = arriving[n][j]
              \/ ResponseOK(home, n, i)'
    PROVE  Holds(home)'
<1>1. UNCHANGED <<project, minted, draft, issued, queue, unknown, log>>
  BY DEF local
<1>2. Grows /\ Extends(home, home) /\ home \in Homes
  BY <1>1, GrowsAsIs, ExtendsItself DEF Holds
<1>3. QueuesOK(home)'
  BY <1>1, <1>2, QueuesAsTheyAre
<1> QED
  BY <1>1, <1>2, <1>3, StepHolds

LEMMA LoadCases ==
    ASSUME NEW home, Holds(home), NEW u, Known(home, u)
    PROVE  LoadSnapshot(u) \in Snapshots /\ SnapshotOK(home, LoadSnapshot(u))
<1> DEFINE found == ByUuid(project[Main], u)
           place == CHOOSE r \in Repositories : found = {} \/ r \in found
           s == LoadSnapshot(u)
<1>1. u \in UUIDs /\ home[u] \in Repositories /\ found \subseteq Repositories
  BY DEF Known, Minted, ByUuid
<1>2. place \in Repositories /\ (found = {} \/ place \in found)
  <2>1. \E r \in Repositories : found = {} \/ r \in found
    BY <1>1
  <2> QED
    BY <2>1
<1>3. \A r \in found : home[u] = r
  <2> SUFFICES ASSUME NEW r \in found PROVE home[u] = r
    OBVIOUS
  <2>1. r \in Repositories /\ project[Main][r] # NoProject /\ project[Main][r].uuid = u
    BY DEF ByUuid
  <2>2. RowOK(home, Main, r, project[Main][r])
    BY <2>1 DEF Holds, Identity, RowsOK, RowHolds, Hosts
  <2> QED
    BY <2>1, <2>2 DEF RowOK, Held
<1>4. s = [uuid |-> u, deleted |-> found = {}, repository |-> place]
  BY DEF LoadSnapshot
<1> HIDE DEF found, place, s
<1>5. /\ s \in Snapshots /\ s.uuid = u /\ s.repository = place
      /\ found = {} => s.deleted
  BY <1>1, <1>2, <1>4 DEF Snapshots
<1>6. SnapshotOK(home, s)
  BY <1>2, <1>3, <1>5 DEF SnapshotOK
<1> QED
  BY <1>5, <1>6 DEF s

\* The snapshots of what the main node knows of are right.
LEMMA ResponseCases ==
    ASSUME NEW home, Holds(home), NEW keys \in Seq(UUIDs),
           \A k \in 1 .. Len(keys) : Known(home, keys[k]),
           NEW response, response = [i \in DOMAIN keys |-> LoadSnapshot(keys[i])]
    PROVE  /\ response \in Seq(Snapshots)
           /\ \A k \in 1 .. Len(response) : SnapshotOK(home, response[k])
<1>1. Len(keys) \in Nat /\ DOMAIN keys = 1 .. Len(keys)
  OBVIOUS
<1>2. \A k \in 1 .. Len(keys) :
         LoadSnapshot(keys[k]) \in Snapshots /\ SnapshotOK(home, LoadSnapshot(keys[k]))
  <2> TAKE k \in 1 .. Len(keys)
  <2>1. Known(home, keys[k])
    OBVIOUS
  <2> QED
    BY <2>1, LoadCases
<1>3. response \in [1 .. Len(keys) -> Snapshots]
      /\ \A k \in 1 .. Len(keys) : response[k] = LoadSnapshot(keys[k])
  BY <1>1, <1>2
<1>4. response \in Seq(Snapshots) /\ Len(response) = Len(keys)
  BY <1>1, <1>3
<1> QED
  BY <1>2, <1>3, <1>4

LEMMA ServeSnapshotStep ==
    ASSUME NEW home, Holds(home), NEW n \in Nodes, ServeSnapshot(n)
    PROVE  Holds(home)'
<1>0. wanted[n] # <<>>
  BY DEF ServeSnapshot
<1>1. wanted \in Lines(Seq(UUIDs)) /\ arriving \in Lines(Seq(Snapshots))
  BY DEF Holds, TypeOK, Lines
<1>2. wanted' = [wanted EXCEPT ![n] = Tail(@)]
  BY DEF ServeSnapshot
<1>3. Dropped(Seq(UUIDs), wanted, n, wanted')
  BY <1>0, <1>1, <1>2, TailAt
<1> PICK keys \in Seq(UUIDs) : keys = Head(wanted[n])
  BY <1>3 DEF Dropped
<1>4. \A k \in 1 .. Len(keys) : Known(home, keys[k])
  <2>1. RequestOK(home, n, 1) /\ keys = wanted[n][1]
    BY <1>3 DEF Dropped, Holds, Identity, WantedOK
  <2> QED
    BY <2>1 DEF RequestOK
<1> PICK response : response = [i \in DOMAIN keys |-> LoadSnapshot(keys[i])]
  OBVIOUS
<1>5. /\ arriving' = [arriving EXCEPT ![n] = Append(@, response)]
      /\ UNCHANGED <<project, local, unknown, log, cursor, fulls>>
  BY DEF ServeSnapshot
<1>6. /\ response \in Seq(Snapshots)
      /\ \A k \in 1 .. Len(response) : SnapshotOK(home, response[k])
  BY <1>4, ResponseCases
<1>7. Appended(Seq(Snapshots), arriving, n, response, arriving')
  BY <1>1, <1>5, <1>6, AppendAt
<1>8. \A m \in Nodes : \A i \in 1 .. Len(wanted'[m]) :
         \E j \in 1 .. Len(wanted[m]) : wanted'[m][i] = wanted[m][j]
  <2> SUFFICES ASSUME NEW m \in Nodes, NEW i \in 1 .. Len(wanted'[m])
               PROVE  \E j \in 1 .. Len(wanted[m]) : wanted'[m][i] = wanted[m][j]
    OBVIOUS
  <2>1. CASE m # n
    BY <1>3, <2>1 DEF Dropped
  <2>2. CASE m = n
    <3>1. /\ Len(wanted'[n]) \in Nat /\ Len(wanted[n]) = Len(wanted'[n]) + 1
          /\ i \in 1 .. Len(wanted'[n]) /\ wanted'[n][i] = wanted[n][i + 1]
      BY <1>3, <2>2 DEF Dropped
    <3>2. i + 1 \in 1 .. Len(wanted[n])
      BY <3>1
    <3> QED
      BY <2>2, <3>1, <3>2
  <2> QED
    BY <2>1, <2>2
<1>9. Grows
  BY <1>5, GrowsAsIs DEF local
<1>10. \A m \in Nodes : \A i \in 1 .. Len(arriving'[m]) :
          \/ \E j \in 1 .. Len(arriving[m]) : arriving'[m][i] = arriving[m][j]
          \/ ResponseOK(home, m, i)'
  <2> SUFFICES ASSUME NEW m \in Nodes, NEW i \in 1 .. Len(arriving'[m])
               PROVE  \/ \E j \in 1 .. Len(arriving[m]) : arriving'[m][i] = arriving[m][j]
                      \/ ResponseOK(home, m, i)'
    OBVIOUS
  <2>1. CASE m # n
    BY <1>7, <2>1 DEF Appended
  <2>2. CASE m = n /\ i # Len(arriving[n]) + 1
    <3>1. i \in 1 .. Len(arriving[n])
      BY <1>7, <2>2 DEF Appended
    <3> QED
      BY <1>7, <2>2, <3>1 DEF Appended
  <2>3. CASE m = n /\ i = Len(arriving[n]) + 1
    <3>1. arriving'[m][i] = response
      BY <1>7, <2>3 DEF Appended
    <3>2. \A k \in 1 .. Len(response) : SnapshotOK(home, response[k])'
      <4> TAKE k \in 1 .. Len(response)
      <4>1. SnapshotOK(home, response[k])
        BY <1>6
      <4> QED
        BY <1>9, <4>1, ExtendsItself, SnapshotStays
    <3> QED
      BY <3>1, <3>2 DEF ResponseOK
  <2> QED
    BY <2>1, <2>2, <2>3
<1>11. TypeOK'
  <2>1. wanted' \in [Nodes -> Seq(Seq(UUIDs))] /\ arriving' \in [Nodes -> Seq(Seq(Snapshots))]
    BY <1>3, <1>7 DEF Dropped, Appended, Lines
  <2> QED
    BY <1>5, <2>1 DEF Holds, TypeOK, local
<1> QED
  BY <1>5, <1>8, <1>10, <1>11, SpreadStep

\* The rows of the log from one on, as they are named, are rows of the log.
LEMMA NamedRows ==
    ASSUME TypeOK, NEW from \in 1 .. Len(log) + 1, NEW upTo \in from .. Len(log)
    PROVE  /\ Distinct(SubSeq(log, from, upTo)) \in Seq(UUIDs)
           /\ \A k \in 1 .. Len(Distinct(SubSeq(log, from, upTo))) :
                 \E j \in 1 .. Len(log) : Distinct(SubSeq(log, from, upTo))[k] = log[j]
<1>1. log \in Seq(UUIDs) /\ Len(log) \in Nat
  BY DEF TypeOK
<1> DEFINE rows == SubSeq(log, from, upTo)
<1>2. /\ rows \in Seq(UUIDs) /\ Len(rows) = upTo - from + 1
      /\ \A i \in 1 .. upTo - from + 1 : rows[i] = log[from + i - 1]
  BY <1>1
<1> HIDE DEF rows
<1>3. \A i \in 1 .. upTo - from + 1 : from + i - 1 \in 1 .. Len(log)
  BY <1>1
<1>4. \A i \in 1 .. Len(rows) : \E j \in 1 .. Len(log) : rows[i] = log[j]
  BY <1>2, <1>3
<1>5. /\ Distinct(rows) \in Seq(UUIDs)
      /\ \A k \in 1 .. Len(Distinct(rows)) :
            \E i \in 1 .. Len(rows) : Distinct(rows)[k] = rows[i]
  BY <1>2, DistinctNames
<1> QED
  BY <1>4, <1>5 DEF rows

LEMMA LearnStep ==
    ASSUME NEW home, Holds(home), NEW n \in Nodes, Learn(n)
    PROVE  Holds(home)'
<1> PICK upTo \in cursor[n] + 1 .. Len(log) :
       /\ wanted' = [wanted EXCEPT ![n] =
             Append(@, Distinct(SubSeq(log, cursor[n] + 1, upTo)))]
       /\ cursor' = [cursor EXCEPT ![n] = upTo]
  BY DEF Learn
<1> PICK request : request = Distinct(SubSeq(log, cursor[n] + 1, upTo))
  OBVIOUS
<1>1. /\ TypeOK /\ wanted \in Lines(Seq(UUIDs)) /\ log \in Seq(UUIDs) /\ Len(log) \in Nat
      /\ cursor[n] + 1 \in 1 .. Len(log) + 1 /\ upTo \in 0 .. Len(log)
  BY DEF Holds, TypeOK, Lines
<1>2. UNCHANGED <<project, local, unknown, log, arriving, fulls>>
  BY DEF Learn
<1>3. /\ request \in Seq(UUIDs)
      /\ \A k \in 1 .. Len(request) : \E j \in 1 .. Len(log) : request[k] = log[j]
  BY <1>1, NamedRows
<1>4. \A i \in 1 .. Len(log) : Known(home, log[i])
  BY DEF Holds, Identity, LogOK, LoggedOK
<1>5. Grows
  BY <1>2, GrowsAsIs DEF local
<1>6. \A k \in 1 .. Len(request) : Known(home, request[k])'
  <2> TAKE k \in 1 .. Len(request)
  <2>1. Known(home, request[k])
    BY <1>3, <1>4
  <2> QED
    BY <1>5, <2>1, ExtendsItself, KnownStays
<1>7. Appended(Seq(UUIDs), wanted, n, request, wanted')
  <2>1. Appended(Seq(UUIDs), wanted, n, request, [wanted EXCEPT ![n] = Append(@, request)])
    BY <1>1, <1>3, AppendAt
  <2>2. wanted' = [wanted EXCEPT ![n] = Append(@, request)]
    OBVIOUS
  <2> QED
    BY <2>1, <2>2
<1>8. \A m \in Nodes : \A i \in 1 .. Len(wanted'[m]) :
         \/ \E j \in 1 .. Len(wanted[m]) : wanted'[m][i] = wanted[m][j]
         \/ RequestOK(home, m, i)'
  BY <1>6, <1>7, RequestAdded
<1>9. TypeOK'
  <2>1. wanted' \in [Nodes -> Seq(Seq(UUIDs))]
    BY <1>7 DEF Appended, Lines
  <2>2. cursor' \in [Nodes -> 0 .. Len(log')]
    BY <1>1, <1>2 DEF TypeOK
  <2> QED
    BY <1>1, <1>2, <2>1, <2>2 DEF TypeOK, local
<1>10. \A m \in Nodes : \A i \in 1 .. Len(arriving'[m]) :
          \E j \in 1 .. Len(arriving[m]) : arriving'[m][i] = arriving[m][j]
  BY <1>2
<1> QED
  BY <1>2, <1>8, <1>9, <1>10, SpreadStep

LEMMA FullCatchUpStep ==
    ASSUME NEW home, Holds(home), NEW n \in Nodes, FullCatchUp(n)
    PROVE  Holds(home)'
<1>1. /\ cursor' = [cursor EXCEPT ![n] = 0] /\ fulls' = fulls + 1 /\ fulls < MaxFull
      /\ UNCHANGED <<project, local, unknown, log, wanted, arriving>>
  BY DEF FullCatchUp
<1>2. TypeOK /\ Len(log) \in Nat
  BY DEF Holds, TypeOK
<1>3. TypeOK'
  <2>1. cursor' \in [Nodes -> 0 .. Len(log')]
    BY <1>1, <1>2 DEF TypeOK
  <2>2. fulls' \in 0 .. MaxFull
    BY <1>1, <1>2, ProjectsAssumption DEF TypeOK
  <2> QED
    BY <1>1, <1>2, <2>1, <2>2 DEF TypeOK, local
<1> QED
  BY <1>1, <1>3, SpreadStep

-----------------------------------------------------------------------------
(* A node merges what arrives.                                             *)

\* A table that node n may have on the way from its projects to the merged ones.
Merging(home, n, t) ==
    /\ t \in Tables
    /\ \A q \in Repositories : RowOK(home, n, q, t[q])
    /\ \A q \in Repositories :
          project[n][q] # NoProject =>
             OnMain(q) \/ (t[q] # NoProject /\ t[q].uuid = project[n][q].uuid)

LEMMA WriteMerges ==
    ASSUME NEW home, NEW n \in Nodes, NEW t, Merging(home, n, t),
           NEW s \in Snapshots, SnapshotOK(home, s)
    PROVE  Merging(home, n, WriteSnapshot(s, t))
<1> DEFINE new == WriteSnapshot(s, t)
<1>1. /\ s.uuid \in UUIDs /\ s.repository \in Repositories /\ Known(home, s.uuid)
      /\ ~s.deleted => home[s.uuid] = s.repository
  BY DEF Snapshots, SnapshotOK
<1>2. Minted(s.uuid) /\ OnMain(home[s.uuid])
  BY <1>1 DEF Known
<1>3. \A q \in Repositories : t[q] # NoProject /\ t[q].uuid = s.uuid => home[s.uuid] = q
  BY DEF Merging, RowOK, Held
<1>4. t \in Tables /\ (~s.deleted => OnlyAt(t, s.uuid, s.repository))
  BY <1>1, <1>3 DEF Merging, OnlyAt
<1>5. /\ new \in Tables
      /\ s.deleted => \A q \in Repositories :
            \/ new[q] = t[q]
            \/ t[q] # NoProject /\ t[q].uuid = s.uuid /\ new[q] = NoProject
      /\ ~s.deleted => \A q \in Repositories :
            IF q = s.repository
              THEN new[q] # NoProject /\ new[q].uuid = s.uuid /\ new[q].announced
              ELSE new[q] = t[q]
  BY <1>4, WriteCases
<1> HIDE DEF new
<1>6. ASSUME NEW q \in Repositories, new[q] # t[q]
      PROVE  OnMain(q) /\ RowOK(home, n, q, new[q])
  <2>1. CASE s.deleted
    BY <1>2, <1>3, <1>5, <1>6, <2>1 DEF RowOK
  <2>2. CASE ~s.deleted
    <3>1. q = s.repository /\ new[q].uuid = s.uuid /\ new[q].announced
      BY <1>5, <1>6, <2>2
    <3>2. OnMain(q) /\ Held(home, s.uuid, q)
      BY <1>1, <1>2, <2>2, <3>1 DEF Held
    <3> QED
      BY <3>1, <3>2 DEF RowOK, Told
  <2> QED
    BY <2>1, <2>2
<1>7. \A q \in Repositories : RowOK(home, n, q, new[q])
  BY <1>6 DEF Merging
<1>8. \A q \in Repositories :
         project[n][q] # NoProject =>
            OnMain(q) \/ (new[q] # NoProject /\ new[q].uuid = project[n][q].uuid)
  BY <1>6 DEF Merging
<1> QED
  BY <1>5, <1>7, <1>8 DEF Merging, new

LEMMA MergeMerges ==
    ASSUME NEW home, NEW n \in Nodes, Merging(home, n, project[n]),
           NEW ss \in Seq(Snapshots), \A k \in 1 .. Len(ss) : SnapshotOK(home, ss[k])
    PROVE  Merging(home, n, Merged(project[n], ss))
<1> DEFINE G == {t \in Tables : Merging(home, n, t)}
           Y == {s \in Snapshots : SnapshotOK(home, s)}
<1>1. \A t \in G, s \in Y : WriteSnapshot(s, t) \in G
  <2> TAKE t \in G, s \in Y
  <2>1. Merging(home, n, WriteSnapshot(s, t))
    BY WriteMerges
  <2> QED
    BY <2>1 DEF Merging
<1>2. ss \in Seq(Y)
  <2>1. Len(ss) \in Nat /\ ss \in [1 .. Len(ss) -> Snapshots]
    OBVIOUS
  <2>2. \A k \in 1 .. Len(ss) : ss[k] \in Y
    BY <2>1
  <2> HIDE DEF Y
  <2>3. ss \in [1 .. Len(ss) -> Y]
    BY <2>1, <2>2
  <2> QED
    BY <2>1, <2>3
<1>3. project[n] \in G
  BY DEF Merging
<1>4. \A t \in G : Merging(home, n, t)
  OBVIOUS
<1> HIDE DEF G, Y
<1>5. Merged(project[n], ss) \in G
  BY <1>1, <1>2, <1>3, MergeStays
<1> QED
  BY <1>4, <1>5

LEMMA MergeSnapshotsStep ==
    ASSUME NEW home, Holds(home), NEW n \in Nodes, MergeSnapshots(n)
    PROVE  Holds(home)'
<1>0. /\ arriving \in Lines(Seq(Snapshots)) /\ project \in [Hosts -> Tables]
      /\ n \in Hosts /\ Main \in Hosts /\ n # Main
  BY ProjectsAssumption DEF Holds, TypeOK, Lines, Hosts
<1>1. arriving[n] # <<>> /\ arriving' = [arriving EXCEPT ![n] = Tail(@)]
  BY DEF MergeSnapshots
<1>2. Dropped(Seq(Snapshots), arriving, n, arriving')
  <2>1. Dropped(Seq(Snapshots), arriving, n, [arriving EXCEPT ![n] = Tail(@)])
    BY <1>0, <1>1, TailAt
  <2> QED
    BY <1>1, <2>1
<1> PICK ss \in Seq(Snapshots) : ss = Head(arriving[n])
  BY <1>2 DEF Dropped
<1>3. \A k \in 1 .. Len(ss) : SnapshotOK(home, ss[k])
  <2>1. ResponseOK(home, n, 1) /\ ss = arriving[n][1]
    BY <1>2 DEF Dropped, Holds, Identity, ArrivingOK
  <2> QED
    BY <2>1 DEF ResponseOK
<1> PICK new : new = Merged(project[n], ss)
  OBVIOUS
<1>4. /\ project' = [project EXCEPT ![n] = new]
      /\ UNCHANGED <<minted, draft, issued, queue, unknown, log, cursor, wanted, fulls>>
  BY DEF MergeSnapshots, local
<1>5. Merging(home, n, new)
  <2>1. Merging(home, n, project[n])
    BY <1>0 DEF Holds, Identity, RowsOK, RowHolds, Merging
  <2> QED
    BY <1>3, <2>1, MergeMerges
<1>6. /\ project' \in [Hosts -> Tables] /\ project'[n] = new
      /\ \A g \in Hosts : g # n => project'[g] = project[g]
  BY <1>0, <1>4, <1>5 DEF Merging
<1>7. \A q \in Repositories : OnMain(q) <=> OnMain(q)'
  BY <1>0, <1>6 DEF OnMain
<1>8. Grows /\ Extends(home, home) /\ home \in Homes
  <2>1. \A g \in Hosts, q \in Repositories : Told(g, q) => Told(g, q)'
    BY <1>4, <1>7 DEF Told
  <2>2. \A g \in Hosts, q \in Repositories :
           project[g][q] # NoProject =>
              \/ OnMain(q)'
              \/ project'[g][q] # NoProject /\ project'[g][q].uuid = project[g][q].uuid
    BY <1>5, <1>6, <1>7 DEF Merging
  <2>3. \A v \in UUIDs : Minted(v) => Minted(v)'
    BY <1>4 DEF Minted
  <2> QED
    BY <1>7, <2>1, <2>2, <2>3, ExtendsItself DEF Grows, Holds
<1>9. QueuesOK(home)'
  BY <1>4, <1>8, QueuesAsTheyAre
<1>10. \A g \in Hosts, q \in Repositories :
          project'[g][q] = project[g][q] \/ RowHolds(home, g, q)'
  <2> SUFFICES ASSUME NEW q \in Repositories PROVE RowHolds(home, n, q)'
    BY <1>6
  <2>1. RowOK(home, n, q, new[q])
    BY <1>5 DEF Merging
  <2>2. Told(n, q) => Told(n, q)'
    BY <1>0, <1>8 DEF Grows
  <2> QED
    BY <1>4, <1>6, <2>1, <2>2 DEF RowHolds, RowOK, Held, Minted
<1>11. \A m \in Nodes : \A i \in 1 .. Len(arriving'[m]) :
          \E j \in 1 .. Len(arriving[m]) : arriving'[m][i] = arriving[m][j]
  <2> SUFFICES ASSUME NEW m \in Nodes, NEW i \in 1 .. Len(arriving'[m])
               PROVE  \E j \in 1 .. Len(arriving[m]) : arriving'[m][i] = arriving[m][j]
    OBVIOUS
  <2>1. CASE m # n
    BY <1>2, <2>1 DEF Dropped
  <2>2. CASE m = n
    <3>1. /\ Len(arriving'[n]) \in Nat /\ Len(arriving[n]) = Len(arriving'[n]) + 1
          /\ i \in 1 .. Len(arriving'[n]) /\ arriving'[n][i] = arriving[n][i + 1]
      BY <1>2, <2>2 DEF Dropped
    <3>2. i + 1 \in 1 .. Len(arriving[n])
      BY <3>1
    <3> QED
      BY <2>2, <3>1, <3>2
  <2> QED
    BY <2>1, <2>2
<1>12. TypeOK'
  <2>1. arriving' \in [Nodes -> Seq(Seq(Snapshots))]
    BY <1>2 DEF Dropped, Lines
  <2> QED
    BY <1>4, <1>6, <2>1 DEF Holds, TypeOK
<1>13. \A op \in unknown' : op \in unknown
  BY <1>4
<1>14. /\ \A c \in Commands : draft'[c] = draft[c]
       /\ \A i \in 1 .. Len(log') : i \in 1 .. Len(log) /\ log'[i] = log[i]
       /\ \A m \in Nodes : \A i \in 1 .. Len(wanted'[m]) :
             \E j \in 1 .. Len(wanted[m]) : wanted'[m][i] = wanted[m][j]
  BY <1>4
<1> QED
  BY <1>8, <1>9, <1>10, <1>11, <1>12, <1>13, <1>14, StepHolds

-----------------------------------------------------------------------------
(* A host opens a repository.                                              *)

\* A row is written at host h for repository r that keeps the UUID it may have had.
LEMMA RowStep ==
    ASSUME NEW home, Holds(home), NEW new \in Homes, Extends(home, new),
           NEW h \in Hosts, NEW r \in Repositories, NEW row \in Rows,
           project' = [project EXCEPT ![h][r] = row],
           project[h][r] # NoProject => row.uuid = project[h][r].uuid,
           minted' \in [Hosts -> 0 .. MaxProjects],
           \A v \in UUIDs : Minted(v) => Minted(v)',
           Held(new, row.uuid, r)', row.announced => Told(h, r),
           h \in Nodes /\ ~row.announced => row.uuid[1] = h,
           UNCHANGED <<draft, queue, issued, unknown, log, cursor, wanted, arriving, fulls>>
    PROVE  Holds(new)'
<1>1. TypeOK /\ project \in [Hosts -> Tables]
  BY DEF Holds, TypeOK
<1>2. /\ project' \in [Hosts -> Tables] /\ project'[h][r] = row
      /\ \A g \in Hosts, q \in Repositories :
            g # h \/ q # r => project'[g][q] = project[g][q]
  BY <1>1 DEF Tables
<1>3. row # NoProject
  BY NoProjectAssumption
<1>4. \A q \in Repositories : OnMain(q) => OnMain(q)'
  BY <1>2, <1>3 DEF OnMain, Hosts
<1>5. \A g \in Hosts, q \in Repositories : Told(g, q) => Told(g, q)'
  BY <1>4 DEF Told
<1>6. \A g \in Hosts, q \in Repositories :
         project[g][q] # NoProject =>
            project'[g][q] # NoProject /\ project'[g][q].uuid = project[g][q].uuid
  BY <1>2, <1>3
<1>7. Grows
  BY <1>4, <1>5, <1>6 DEF Grows
<1>8. QueuesOK(new)'
  BY <1>7, QueuesAsTheyAre
<1>9. RowHolds(new, h, r)'
  BY <1>2, <1>5 DEF RowHolds, RowOK, Held, Minted
<1>10. \A g \in Hosts, q \in Repositories :
          project'[g][q] = project[g][q] \/ RowHolds(new, g, q)'
  BY <1>2, <1>9
<1>11. TypeOK'
  BY <1>1, <1>2 DEF TypeOK
<1>12. /\ \A c \in Commands : draft'[c] = draft[c]
       /\ \A i \in 1 .. Len(log') : i \in 1 .. Len(log) /\ log'[i] = log[i]
       /\ \A m \in Nodes : \A i \in 1 .. Len(wanted'[m]) :
             \E j \in 1 .. Len(wanted[m]) : wanted'[m][i] = wanted[m][j]
       /\ \A m \in Nodes : \A i \in 1 .. Len(arriving'[m]) :
             \E j \in 1 .. Len(arriving[m]) : arriving'[m][i] = arriving[m][j]
       /\ \A op \in unknown' : op \in unknown
  OBVIOUS
<1> QED
  BY <1>7, <1>8, <1>10, <1>11, <1>12, StepHolds

LEMMA OpenRepositoryStep ==
    ASSUME NEW home, Holds(home), NEW h \in Users, NEW r \in Repositories,
           OpenRepository(h, r)
    PROVE  \E new \in Homes : Holds(new)'
<1>1. /\ h \in Hosts /\ project \in [Hosts -> Tables]
      /\ minted \in [Hosts -> 0 .. MaxProjects] /\ home \in Homes /\ MaxProjects \in Nat
  BY ProjectsAssumption DEF Holds, TypeOK
<1>2. UNCHANGED <<draft, queue, issued, unknown, log, cursor, wanted, arriving, fulls>>
  BY DEF OpenRepository, spread
<1>3. CASE project[h][r] = NoProject
  <2> PICK k \in Nat : k = minted[h] + 1
    BY <1>1
  <2> PICK u : u = <<h, k>>
    OBVIOUS
  <2> PICK new : new = [home EXCEPT ![u] = r]
    OBVIOUS
  <2>1. /\ k \in 1 .. MaxProjects /\ minted' = [minted EXCEPT ![h] = k]
        /\ project' = [project EXCEPT ![h][r] =
              [uuid |-> u, announced |-> FALSE, local |-> TRUE]]
    BY <1>1, <1>3 DEF OpenRepository
  <2>2. u \in UUIDs /\ u[1] = h /\ u[2] = k
    BY <1>1, <2>1 DEF UUIDs
  <2>3. new \in Homes /\ new[u] = r /\ \A v \in UUIDs : v # u => new[v] = home[v]
    BY <1>1, <2>2 DEF Homes
  <2>4. /\ minted' \in [Hosts -> 0 .. MaxProjects] /\ minted'[h] = k
        /\ \A g \in Hosts : minted[g] <= minted'[g]
    BY <1>1, <2>1
  <2>5. \A v \in UUIDs : Minted(v) => Minted(v)' /\ v # u
    <3> SUFFICES ASSUME NEW v \in UUIDs, Minted(v) PROVE Minted(v)' /\ v # u
      OBVIOUS
    <3>1. v[1] \in Hosts /\ v[2] \in Nat
      BY DEF UUIDs
    <3>2. v[2] <= minted[v[1]] /\ minted[v[1]] \in Nat /\ minted'[v[1]] \in Nat
      BY <1>1, <2>4, <3>1 DEF Minted
    <3>3. v[2] <= minted'[v[1]]
      BY <2>4, <3>1, <3>2
    <3>4. v # u
      BY <1>1, <2>2, <3>2
    <3> QED
      BY <3>3, <3>4 DEF Minted
  <2>6. Extends(home, new)
    BY <2>3, <2>5 DEF Extends
  <2>7. Held(new, u, r)'
    BY <2>2, <2>3, <2>4 DEF Held, Minted
  <2> PICK row : row = [uuid |-> u, announced |-> FALSE, local |-> TRUE]
    OBVIOUS
  <2>8. row \in Rows /\ row.uuid = u /\ ~row.announced
    BY <2>2 DEF Rows
  <2>9. project' = [project EXCEPT ![h][r] = row]
    BY <2>1
  <2>10. Held(new, row.uuid, r)'
    BY <2>7, <2>8 DEF Held, Minted
  <2>11. Holds(new)'
    BY <1>1, <1>2, <1>3, <2>2, <2>3, <2>4, <2>5, <2>6, <2>8, <2>9, <2>10, RowStep
  <2> QED
    BY <2>3, <2>11
<1>4. CASE project[h][r] # NoProject
  <2> PICK row : row = [project[h][r] EXCEPT !.local = TRUE]
    OBVIOUS
  <2>1. project[h][r] \in Rows
    BY <1>1, <1>4 DEF Tables
  <2>2. /\ row \in Rows /\ row.uuid = project[h][r].uuid
        /\ row.announced = project[h][r].announced
    BY <2>1 DEF Rows
  <2>3. project' = [project EXCEPT ![h][r].local = TRUE] /\ UNCHANGED minted
    BY <1>4 DEF OpenRepository
  <2>4. project' = [project EXCEPT ![h][r] = row]
    BY <1>1, <2>3
  <2>5. /\ Held(home, row.uuid, r) /\ (row.announced => Told(h, r))
        /\ (h \in Nodes /\ ~row.announced => row.uuid[1] = h)
    <3>1. RowOK(home, h, r, project[h][r])
      BY <1>1 DEF Holds, Identity, RowsOK, RowHolds
    <3> QED
      BY <1>4, <2>2, <3>1 DEF RowOK
  <2>6. Held(home, row.uuid, r)' /\ \A v \in UUIDs : Minted(v) => Minted(v)'
    BY <2>3, <2>5 DEF Held, Minted
  <2>7. Holds(home)'
    BY <1>1, <1>2, <1>4, <2>2, <2>3, <2>4, <2>5, <2>6, ExtendsItself, RowStep
  <2> QED
    BY <1>1, <2>7
<1> QED
  BY <1>3, <1>4

-----------------------------------------------------------------------------
(* Every step.                                                             *)

LEMMA StutterHolds ==
    ASSUME NEW home, Holds(home), UNCHANGED vars
    PROVE  Holds(home)'
<1>1. UNCHANGED <<project, minted, draft, queue, issued, unknown, log, cursor, wanted,
                  arriving, fulls>>
  BY DEF vars
<1>2. Grows /\ Extends(home, home) /\ home \in Homes
  BY <1>1, GrowsAsIs, ExtendsItself DEF Holds
<1>3. QueuesOK(home)'
  BY <1>1, <1>2, QueuesAsTheyAre
<1>4. TypeOK'
  BY <1>1 DEF Holds, TypeOK
<1>5. /\ \A h \in Hosts, r \in Repositories : project'[h][r] = project[h][r]
      /\ \A c \in Commands : draft'[c] = draft[c]
      /\ \A i \in 1 .. Len(log') : i \in 1 .. Len(log) /\ log'[i] = log[i]
      /\ \A m \in Nodes : \A i \in 1 .. Len(wanted'[m]) :
            \E j \in 1 .. Len(wanted[m]) : wanted'[m][i] = wanted[m][j]
      /\ \A m \in Nodes : \A i \in 1 .. Len(arriving'[m]) :
            \E j \in 1 .. Len(arriving[m]) : arriving'[m][i] = arriving[m][j]
      /\ \A op \in unknown' : op \in unknown
  BY <1>1
<1> QED
  BY <1>2, <1>3, <1>4, <1>5, StepHolds

LEMMA NextHolds ==
    ASSUME NEW home, Holds(home), [Next]_vars
    PROVE  \E new \in Homes : Holds(new)'
<1>1. ASSUME NEW h \in Users, NEW r \in Repositories, OpenRepository(h, r)
      PROVE  \E new \in Homes : Holds(new)'
  BY <1>1, OpenRepositoryStep
<1>2. ASSUME NEW c \in Commands,
             \/ \E h \in Users, r \in Repositories : BeginEdit(c, h, r)
             \/ CheckAnnounced(c)
             \/ AnnounceOnNode(c)
             \/ AnnounceOnMain(c)
             \/ Mark(c)
             \/ WriteEdit(c)
             \/ Crash(c)
      PROVE  Holds(home)'
  BY <1>2, BeginEditStep, CheckAnnouncedStep, AnnounceOnNodeStep, AnnounceOnMainStep, MarkStep,
     WriteEditStep, CrashStep
<1>3. ASSUME NEW n \in Nodes,
             \/ ApplyUpsert(n)
             \/ ApplyEdit(n)
             \/ ServeSnapshot(n)
             \/ Learn(n)
             \/ FullCatchUp(n)
             \/ MergeSnapshots(n)
      PROVE  Holds(home)'
  BY <1>3, ApplyUpsertStep, ApplyEditStep, ServeSnapshotStep, LearnStep, FullCatchUpStep,
     MergeSnapshotsStep
<1>4. ASSUME UNCHANGED vars PROVE Holds(home)'
  BY <1>4, StutterHolds
<1>5. home \in Homes
  BY DEF Holds
<1> QED
  BY <1>1, <1>2, <1>3, <1>4, <1>5 DEF Next

LEMMA InitInv == Init => Inv
<1> SUFFICES ASSUME Init PROVE Inv
  OBVIOUS
<1>1. TypeOK
  <2>1. log \in Seq(UUIDs) /\ cursor \in [Nodes -> 0 .. Len(log)]
    BY DEF Init
  <2>2. /\ project \in [Hosts -> Tables] /\ minted \in [Hosts -> 0 .. MaxProjects]
        /\ draft \in [Commands -> Drafts \cup {NoDraft}]
        /\ issued \in 0 .. MaxEdits /\ fulls \in 0 .. MaxFull /\ unknown \subseteq Operations
    BY ProjectsAssumption DEF Init, Tables
  <2>3. /\ queue \in [Nodes -> Seq(Operations)]
        /\ wanted \in [Nodes -> Seq(Seq(UUIDs))]
        /\ arriving \in [Nodes -> Seq(Seq(Snapshots))]
    BY DEF Init
  <2> QED
    BY <2>1, <2>2, <2>3 DEF TypeOK
<1>2. RefusedOnlyWhenLost
  BY DEF Init, RefusedOnlyWhenLost
<1> PICK home : home = [u \in UUIDs |-> NoProject]
  OBVIOUS
<1>3. home \in Homes
  BY DEF Homes
<1>4. RowsOK(home)
  BY DEF RowsOK, RowHolds, RowOK, Init
<1>5. DraftsOK(home)
  BY DEF DraftsOK, DraftHolds, Init
<1>6. QueuesOK(home) /\ WantedOK(home) /\ ArrivingOK(home)
  BY DEF QueuesOK, WantedOK, ArrivingOK, Init
<1>7. LogOK(home)
  BY DEF LogOK, Init
<1> QED
  BY <1>1, <1>2, <1>3, <1>4, <1>5, <1>6, <1>7 DEF Inv, Identity

LEMMA NextInv == Inv /\ [Next]_vars => Inv'
<1> SUFFICES ASSUME Inv, [Next]_vars PROVE Inv'
  OBVIOUS
<1>1. PICK home \in Homes : Holds(home)
  BY DEF Inv, Holds
<1>2. PICK new \in Homes : Holds(new)'
  BY <1>1, NextHolds
<1> QED
  BY <1>2 DEF Inv, Holds

\* The inductive invariant: types, no edit is refused ahead of its announcement, and every
\* UUID in a table, an operation, a request or a snapshot stands for the one repository it
\* was made up for.
THEOREM Invariance == Spec => []Inv
  BY InitInv, NextInv, PTL DEF Spec

\* The variables keep their types.
THEOREM TypeCorrectness == Spec => []TypeOK
<1>1. Inv => TypeOK
  BY DEF Inv
<1> QED
  BY <1>1, Invariance, PTL

\* Whatever is interleaved with the announcement of a project, its mark and the edit behind
\* it, and wherever a command dies, the main node refuses an edit for an unknown project
\* only when it has the repository under another UUID.
THEOREM NoEditAhead == Spec => []RefusedOnlyWhenLost
<1>1. Inv => RefusedOnlyWhenLost
  BY DEF Inv
<1> QED
  BY <1>1, Invariance, PTL

\* A UUID stands for one project: no table has two rows with it, so that the row found by
\* UUID is the only one, and the announcement the main node applies next never meets the
\* UUID of another project, the validation error that would block the queue of its node.
OneProjectEach ==
    /\ \A h \in Hosts, q, r \in Repositories :
          project[h][q] # NoProject /\ project[h][r] # NoProject
          /\ project[h][q].uuid = project[h][r].uuid => q = r
    /\ \A n \in Nodes :
          queue[n] # <<>> /\ Head(queue[n]).kind = "upsert" =>
             ~Contested(project[Main], Head(queue[n]).uuid, Head(queue[n]).repository)

\* For any nodes, commands and repositories, a UUID is never that of two projects of a host,
\* and no announcement is refused for it.
THEOREM UuidsAreUnique == Spec => []OneProjectEach
<1>1. ASSUME NEW home, Holds(home) PROVE OneProjectEach
  <2>1. ASSUME NEW h \in Hosts, NEW q \in Repositories, NEW r \in Repositories,
               project[h][q] # NoProject, project[h][r] # NoProject,
               project[h][q].uuid = project[h][r].uuid
        PROVE  q = r
    <3>1. RowOK(home, h, q, project[h][q]) /\ RowOK(home, h, r, project[h][r])
      BY <1>1 DEF Holds, Identity, RowsOK, RowHolds
    <3> QED
      BY <2>1, <3>1 DEF RowOK, Held
  <2>2. ASSUME NEW n \in Nodes, queue[n] # <<>>
        PROVE  ~Contested(project[Main], Head(queue[n]).uuid, Head(queue[n]).repository)
    <3>1. /\ Head(queue[n]).uuid \in UUIDs /\ Head(queue[n]).repository \in Repositories
          /\ Held(home, Head(queue[n]).uuid, Head(queue[n]).repository)
      BY <1>1, <2>2, FirstQueued DEF Operations
    <3> QED
      BY <1>1, <3>1, MainUncontested
  <2> QED
    BY <2>1, <2>2 DEF OneProjectEach
<1>2. Inv => OneProjectEach
  BY <1>1 DEF Inv, Holds
<1> QED
  BY <1>2, Invariance, PTL

\* The UUID of a project on the main node changes only when one of its commands announces
\* it or when it applies what the node that made the new one up had queued.
LEMMA MainChanges ==
    ASSUME NEW home, Holds(home), [Next]_vars, NEW r \in Repositories,
           project[Main][r] # NoProject, project'[Main][r].uuid # project[Main][r].uuid
    PROVE  \/ draft' # draft
           \/ \E n \in Nodes : n = project'[Main][r].uuid[1] /\ queue'[n] # queue[n]
<1>0. /\ project \in [Hosts -> Tables] /\ Main \in Hosts /\ Main \notin Nodes
      /\ project[Main][r] \in Rows
  BY ProjectsAssumption DEF Holds, TypeOK, Hosts, Tables
<1>1. project' # project
  OBVIOUS
<1>2. ASSUME NEW h \in Users, NEW q \in Repositories, OpenRepository(h, q) PROVE FALSE
  <2>1. project[h][q] # NoProject \/ h # Main \/ q # r
    OBVIOUS
  <2>2. h \in Hosts
    BY ProjectsAssumption
  <2>3. CASE h # Main \/ q # r
    <3>1. project'[Main][r] = project[Main][r]
      BY <1>0, <1>2, <2>2, <2>3 DEF OpenRepository, Tables
    <3> QED
      BY <3>1
  <2>4. CASE h = Main /\ q = r
    <3>1. project' = [project EXCEPT ![Main][r].local = TRUE]
      BY <1>2, <2>4 DEF OpenRepository
    <3> PICK row : row = [project[Main][r] EXCEPT !.local = TRUE]
      OBVIOUS
    <3>2. row.uuid = project[Main][r].uuid
      BY <1>0 DEF Rows
    <3>3. project'[Main][r] = row
      BY <1>0, <3>1 DEF Tables
    <3> QED
      BY <3>2, <3>3
  <2> QED
    BY <2>3, <2>4
<1>3. ASSUME NEW c \in Commands, AnnounceOnMain(c) \/ Mark(c), draft' = draft PROVE FALSE
  <2>1. draft[c] # NoDraft
    BY <1>3 DEF AnnounceOnMain, Mark
  <2>2. ASSUME NEW phase \in {"ready", "unmarked"}, draft[c].phase # phase,
               draft' = [draft EXCEPT ![c].phase = phase]
        PROVE  FALSE
    <3>1. draft'[c].phase = phase
      BY <2>1, <2>2, PhaseStep
    <3> QED
      BY <1>3, <2>2, <3>1
  <2> QED
    BY <1>3, <2>2 DEF AnnounceOnMain, Mark
<1>4. ASSUME NEW n \in Nodes, ApplyUpsert(n)
      PROVE  n = project'[Main][r].uuid[1] /\ queue'[n] # queue[n]
  <2>0. queue[n] # <<>> /\ Head(queue[n]).kind = "upsert"
    BY <1>4 DEF ApplyUpsert
  <2> PICK u \in UUIDs, q \in Repositories :
         u = Head(queue[n]).uuid /\ q = Head(queue[n]).repository
    BY <2>0, FirstQueued DEF Operations
  <2>1. Held(home, u, q) /\ u[1] = n
    BY <2>0, FirstQueued
  <2>2. /\ project' = [project EXCEPT ![Main] = UpsertProject(@, u, q)]
        /\ queue' = [queue EXCEPT ![n] = Tail(@)] /\ UNCHANGED minted
    BY <1>4 DEF ApplyUpsert
  <2>3. TakesOver(home, u, q)
    BY <2>1, <2>2, MainUpserts
  <2>4. q = r /\ project'[Main][r].uuid = u
    BY <1>0, <2>3 DEF TakesOver
  <2>5. Len(queue[n]) = Len(queue'[n]) + 1 /\ Len(queue'[n]) \in Nat
    BY <2>0, <2>2, ServedQueue DEF Holds
  <2>6. queue'[n] # queue[n]
    BY <2>5
  <2> QED
    BY <2>1, <2>4, <2>6
<1>5. ASSUME NEW n \in Nodes, MergeSnapshots(n) PROVE FALSE
  <2>1. project'[Main] = project[Main]
    BY <1>0, <1>5 DEF MergeSnapshots
  <2> QED
    BY <2>1
<1>6. ASSUME NEW c \in Commands,
             \/ \E h \in Users, q \in Repositories : BeginEdit(c, h, q)
             \/ CheckAnnounced(c) \/ AnnounceOnNode(c) \/ WriteEdit(c) \/ Crash(c)
      PROVE  FALSE
  BY <1>1, <1>6 DEF BeginEdit, CheckAnnounced, AnnounceOnNode, WriteEdit, Crash
<1>7. ASSUME NEW n \in Nodes,
             ApplyEdit(n) \/ ServeSnapshot(n) \/ Learn(n) \/ FullCatchUp(n)
      PROVE  FALSE
  BY <1>1, <1>7 DEF ApplyEdit, ServeSnapshot, Learn, FullCatchUp
<1>8. CASE UNCHANGED vars
  BY <1>1, <1>8 DEF vars
<1>9. CASE Next
  BY <1>2, <1>3, <1>4, <1>5, <1>6, <1>7, <1>9 DEF Next
<1> QED
  BY <1>8, <1>9

\* No snapshot, however late, takes the main node back to a UUID it has left.
THEOREM MainKeepsItsProjects == Spec => NeverTakenBack
<1>1. Inv /\ [Next]_vars =>
         [\A r \in Repositories :
             LET old == project[Main][r]
                 new == project'[Main][r]
             IN  old # NoProject /\ new.uuid # old.uuid /\ new.uuid \in Range(log) =>
                    \/ draft' # draft
                    \/ \E n \in Nodes : n = new.uuid[1] /\ queue'[n] # queue[n]]_vars
  <2> SUFFICES ASSUME Inv, [Next]_vars, NEW r \in Repositories,
                      project[Main][r] # NoProject,
                      project'[Main][r].uuid # project[Main][r].uuid
               PROVE  \/ draft' # draft
                      \/ \E n \in Nodes : n = project'[Main][r].uuid[1]
                                          /\ queue'[n] # queue[n]
    OBVIOUS
  <2>1. PICK home \in Homes : Holds(home)
    BY DEF Inv, Holds
  <2> QED
    BY <2>1, MainChanges
<1> QED
  BY <1>1, Invariance, PTL DEF Spec, NeverTakenBack
=============================================================================
