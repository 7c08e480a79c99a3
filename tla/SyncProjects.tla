---------------------------- MODULE SyncProjects ----------------------------
(***************************************************************************)
(* The identity of a project across nodes.  Every node keys a repository's *)
(* project by a UUID it makes up the first time it sees the repository.    *)
(* A persistent node announces its project to the main node ahead of the   *)
(* first operation on it; the main node matches it by UUID or repository   *)
(* and takes over the announced UUID; the others learn of it from the      *)
(* snapshots they fetch for the rows of sync_sequence                      *)
(* (src/tim/sync/apply_operation.ts, write_router.ts, snapshots.ts,        *)
(* server.ts).  Explicit deletion of a project is not modelled; lost       *)
(* connections and the order in which the cursor and the tables advance    *)
(* are in SyncCatchUp, the retries of the queue in SyncFlush.              *)
(***************************************************************************)
EXTENDS Integers, Sequences, SequencesExt, FiniteSets

CONSTANTS
    Nodes,          \* the persistent nodes
    Main,           \* the main node
    Users,          \* the hosts where somebody opens repositories and edits
    Commands,       \* processes of tim that write operations, each on one host at a time
    Repositories,
    MaxProjects,    \* bound: projects a node makes up
    MaxEdits,       \* bound: operations issued, announcements included
    MaxFull,        \* bound: full catch-ups
    NoProject,      \* there is no row for the repository
    NoDraft         \* no operation is being written

Hosts == Nodes \cup {Main}

ASSUME ProjectsAssumption ==
    /\ Main \notin Nodes
    /\ Users \subseteq Hosts
    /\ {MaxProjects, MaxEdits, MaxFull} \subseteq Nat

UUIDs == Hosts \X (1 .. MaxProjects)

\* A row of the project table: whether the main node has been told of it, and whether
\* it holds state of this machine (workspaces, paths, local plans).
Rows == [uuid : UUIDs, announced : BOOLEAN, local : BOOLEAN]
ASSUME NoProjectAssumption == NoProject \notin Rows

Tables == [Repositories -> Rows \cup {NoProject}]

\* A queued operation: the announcement of a project, or an edit of one of its plans.
Operations == [kind : {"upsert", "edit"}, uuid : UUIDs, repository : Repositories]

\* routeSyncOperation under way: its operation is built, it was found to need an
\* announcement, which is then made, marked, and followed by the operation.
Drafts == [host : Hosts, uuid : UUIDs, repository : Repositories,
           phase : {"built", "unannounced", "unmarked", "ready"}]
ASSUME NoDraftAssumption == NoDraft \notin Drafts

\* A snapshot of the project with a UUID: the project, or that there is none any more.
Snapshots == [uuid : UUIDs, repository : Repositories, deleted : BOOLEAN]

VARIABLES
    project,    \* [Hosts -> Tables]
    minted,     \* [Hosts -> Nat], how many UUIDs a host has made up
    draft,      \* [Commands -> the operation being written, or NoDraft]
    queue,      \* [Nodes -> Seq(Operations)], not yet applied by the main node
    issued,     \* how many operations have been issued
    unknown,    \* the edits the main node has rejected for an unknown project
    log,        \* the project rows of sync_sequence, by UUID
    cursor,     \* [Nodes -> Nat], the rows of log a node has been told of
    wanted,     \* [Nodes -> Seq(Seq(UUIDs))], the snapshot requests of a node
    arriving,   \* [Nodes -> Seq(Seq(Snapshots))], the responses on their way to it
    fulls       \* how many full catch-ups there have been

local == <<minted, draft, issued, queue>>
spread == <<cursor, wanted, arriving, fulls>>
vars == <<project, minted, draft, queue, issued, unknown, log, cursor, wanted, arriving,
          fulls>>

TypeOK ==
    /\ project \in [Hosts -> Tables]
    /\ minted \in [Hosts -> 0 .. MaxProjects]
    /\ draft \in [Commands -> Drafts \cup {NoDraft}]
    /\ queue \in [Nodes -> Seq(Operations)]
    /\ issued \in 0 .. MaxEdits
    /\ unknown \subseteq Operations
    /\ log \in Seq(UUIDs)
    /\ cursor \in [Nodes -> 0 .. Len(log)]
    /\ wanted \in [Nodes -> Seq(Seq(UUIDs))]
    /\ arriving \in [Nodes -> Seq(Seq(Snapshots))]
    /\ fulls \in 0 .. MaxFull

-----------------------------------------------------------------------------
(* upsertSyncedProject, on the main node and, for a snapshot, on any node. *)

\* The repository whose row has a UUID, as a set of at most one.
ByUuid(table, uuid) ==
    {r \in Repositories : table[r] # NoProject /\ table[r].uuid = uuid}

\* The UUID and the repository belong to different rows: a validation error.
Contested(table, uuid, r) == table[r] # NoProject /\ ByUuid(table, uuid) \notin {{}, {r}}

\* The row found by UUID, or else by repository, gets both; otherwise one is inserted.
UpsertProject(table, uuid, r) ==
    LET old == IF ByUuid(table, uuid) # {} THEN ByUuid(table, uuid) ELSE {r}
        row == table[CHOOSE q \in old : TRUE]
    IN  [q \in Repositories |->
            CASE q = r -> IF row = NoProject
                            THEN [uuid |-> uuid, announced |-> FALSE, local |-> FALSE]
                            ELSE [row EXCEPT !.uuid = uuid]
              [] q # r -> IF q \in old THEN NoProject ELSE table[q]]

\* markProjectSyncAnnounced
MarkAnnounced(table, uuid) ==
    [q \in Repositories |-> IF q \in ByUuid(table, uuid)
                              THEN [table[q] EXCEPT !.announced = TRUE] ELSE table[q]]

-----------------------------------------------------------------------------
(* Local work.                                                             *)

\* getOrCreateProject and the registration of a workspace: the host starts to work in a
\* repository it may already have a row for.
OpenRepository(h, r) ==
    /\ IF project[h][r] = NoProject
         THEN /\ minted[h] < MaxProjects
              /\ minted' = [minted EXCEPT ![h] = @ + 1]
              /\ project' = [project EXCEPT ![h][r] =
                    [uuid |-> <<h, minted[h] + 1>>, announced |-> FALSE, local |-> TRUE]]
         ELSE /\ ~project[h][r].local
              /\ project' = [project EXCEPT ![h][r].local = TRUE]
              /\ UNCHANGED minted
    /\ UNCHANGED <<draft, queue, issued, unknown, log, spread>>

\* A command looks the project up and builds its operation.
BeginEdit(c, h, r) ==
    /\ draft[c] = NoDraft
    /\ issued < MaxEdits
    /\ project[h][r] # NoProject
    /\ draft' = [draft EXCEPT ![c] =
          [host |-> h, uuid |-> project[h][r].uuid, repository |-> r, phase |-> "built"]]
    /\ UNCHANGED <<project, minted, queue, issued, unknown, log, spread>>

\* The repository a project of host h still has to be announced with, if any.
Unannounced(h, uuid) == {q \in ByUuid(project[h], uuid) : ~project[h][q].announced}

\* Faulty variant of CheckAnnounced: the project is marked as soon as the announcement is
\* built.
CheckAnnouncedMarks(c) ==
    /\ draft[c] # NoDraft /\ draft[c].phase = "built"
    /\ LET found == Unannounced(draft[c].host, draft[c].uuid)
       IN  /\ draft' = [draft EXCEPT
                 ![c].phase = IF found = {} THEN "ready" ELSE "unannounced",
                 ![c].repository = CHOOSE r \in Repositories : found = {} \/ r \in found]
           /\ project' = [project EXCEPT ![draft[c].host] = MarkAnnounced(@, draft[c].uuid)]
    /\ UNCHANGED <<minted, queue, issued, unknown, log, spread>>

\* buildProjectAnnouncements, for the project the operation refers to.
CheckAnnounced(c) ==
    /\ draft[c] # NoDraft /\ draft[c].phase = "built"
    /\ LET found == Unannounced(draft[c].host, draft[c].uuid)
       IN  draft' = [draft EXCEPT
              ![c].phase = IF found = {} THEN "ready" ELSE "unannounced",
              ![c].repository = IF found = {} THEN @ ELSE CHOOSE r \in found : TRUE]
    /\ UNCHANGED <<project, minted, queue, issued, unknown, log, spread>>

\* Operation of the given kind, of the draft of command c.
Operation(kind, c) == [kind |-> kind, uuid |-> draft[c].uuid, repository |-> draft[c].repository]

\* enqueueProjectAnnouncements, the announcement on a persistent node ...
AnnounceOnNode(c) ==
    /\ draft[c] # NoDraft /\ draft[c].phase = "unannounced" /\ draft[c].host \in Nodes
    /\ issued < MaxEdits
    /\ queue' = [queue EXCEPT ![draft[c].host] = Append(@, Operation("upsert", c))]
    /\ issued' = issued + 1
    /\ draft' = [draft EXCEPT ![c].phase = "unmarked"]
    /\ UNCHANGED <<project, minted, unknown, log, spread>>

\* Faulty variant of AnnounceOnMain: no row of the log tells the nodes.
AnnounceOnMainUnlogged(c) ==
    /\ draft[c] # NoDraft /\ draft[c].phase = "unannounced" /\ draft[c].host = Main
    /\ issued < MaxEdits
    /\ issued' = issued + 1
    /\ draft' = [draft EXCEPT ![c].phase = "unmarked"]
    /\ project' = [project EXCEPT ![Main] =
          UpsertProject(@, draft[c].uuid, draft[c].repository)]
    /\ UNCHANGED <<minted, queue, unknown, log, spread>>

\* ... and on the main node (applyProjectAnnouncementsOnMain), where a failure only warns.
AnnounceOnMain(c) ==
    /\ draft[c] # NoDraft /\ draft[c].phase = "unannounced" /\ draft[c].host = Main
    /\ issued < MaxEdits
    /\ issued' = issued + 1
    /\ IF Contested(project[Main], draft[c].uuid, draft[c].repository)
         THEN /\ draft' = [draft EXCEPT ![c].phase = "ready"]
              /\ UNCHANGED <<project, log>>
         ELSE /\ draft' = [draft EXCEPT ![c].phase = "unmarked"]
              /\ project' = [project EXCEPT ![Main] =
                    UpsertProject(@, draft[c].uuid, draft[c].repository)]
              /\ log' = Append(log, draft[c].uuid)
    /\ UNCHANGED <<minted, queue, unknown, spread>>

\* markProjectSyncAnnounced, after the announcement and in a transaction of its own.
Mark(c) ==
    /\ draft[c] # NoDraft /\ draft[c].phase = "unmarked"
    /\ project' = [project EXCEPT ![draft[c].host] = MarkAnnounced(@, draft[c].uuid)]
    /\ draft' = [draft EXCEPT ![c].phase = "ready"]
    /\ UNCHANGED <<minted, queue, issued, unknown, log, spread>>

\* The edits refused when op is applied on the main node as it is.
Refused(op) == {o \in {op} : ByUuid(project[Main], o.uuid) = {}}

\* The operation itself: queued on a persistent node, applied at once on the main node.
WriteEdit(c) ==
    /\ draft[c] # NoDraft /\ draft[c].phase = "ready"
    /\ issued < MaxEdits
    /\ issued' = issued + 1
    /\ IF draft[c].host = Main
         THEN /\ unknown' = unknown \cup Refused(Operation("edit", c))
              /\ UNCHANGED queue
         ELSE /\ queue' = [queue EXCEPT ![draft[c].host] = Append(@, Operation("edit", c))]
              /\ UNCHANGED unknown
    /\ draft' = [draft EXCEPT ![c] = NoDraft]
    /\ UNCHANGED <<project, minted, log, spread>>

\* The process ends, or an error ends the command, between two of its transactions.
Crash(c) ==
    /\ draft[c] # NoDraft
    /\ draft' = [draft EXCEPT ![c] = NoDraft]
    /\ UNCHANGED <<project, minted, queue, issued, unknown, log, spread>>

-----------------------------------------------------------------------------
(* The main node applies what the nodes have queued, in the order of each. *)

\* An announcement: applied, logged under the announced UUID, and its result tells the
\* node to fetch that project.
ApplyUpsert(n) ==
    /\ queue[n] # <<>>
    /\ LET op == Head(queue[n])
       IN  /\ op.kind = "upsert"
           /\ ~Contested(project[Main], op.uuid, op.repository)
           /\ project' = [project EXCEPT ![Main] = UpsertProject(@, op.uuid, op.repository)]
           /\ log' = Append(log, op.uuid)
           /\ wanted' = [wanted EXCEPT ![n] = Append(@, <<op.uuid>>)]
    /\ queue' = [queue EXCEPT ![n] = Tail(@)]
    /\ UNCHANGED <<minted, draft, issued, unknown, cursor, arriving, fulls>>

\* An edit: rejected when no project has its UUID.
ApplyEdit(n) ==
    /\ queue[n] # <<>>
    /\ LET op == Head(queue[n])
       IN  /\ op.kind = "edit"
           /\ unknown' = unknown \cup Refused(op)
    /\ queue' = [queue EXCEPT ![n] = Tail(@)]
    /\ UNCHANGED <<project, minted, draft, issued, log, spread>>

\* loadProjectSnapshot: a UUID that is in the log and has no row counts as deleted.
LoadSnapshot(uuid) ==
    LET found == ByUuid(project[Main], uuid)
    IN  [uuid |-> uuid, deleted |-> found = {},
         repository |-> CHOOSE r \in Repositories : found = {} \/ r \in found]

ServeSnapshot(n) ==
    /\ wanted[n] # <<>>
    /\ LET keys == Head(wanted[n])
       IN  arriving' = [arriving EXCEPT ![n] =
              Append(@, [i \in DOMAIN keys |-> LoadSnapshot(keys[i])])]
    /\ wanted' = [wanted EXCEPT ![n] = Tail(@)]
    /\ UNCHANGED <<project, local, unknown, log, cursor, fulls>>

-----------------------------------------------------------------------------
(* A node learns of projects.                                              *)

\* An invalidate frame or a catch-up response names the rows past the cursor, the first
\* row of a UUID standing for all of them.
Distinct(s) ==
    LET first == {i \in DOMAIN s : \A j \in 1 .. i - 1 : s[j] # s[i]}
    IN  [k \in 1 .. Cardinality(first) |->
            s[CHOOSE i \in first : Cardinality({j \in first : j <= i}) = k]]

\* Faulty variant of Learn: the cursor is the row to start from next time.
LearnNext(n) ==
    /\ \E upTo \in cursor[n] + 1 .. Len(log) :
          /\ wanted' = [wanted EXCEPT ![n] =
                Append(@, Distinct(SubSeq(log, cursor[n] + 1, upTo)))]
          /\ cursor' = [cursor EXCEPT ![n] = upTo + 1]
    /\ UNCHANGED <<project, local, unknown, log, arriving, fulls>>

\* Any number of those rows: an invalidate stops short of what is appended after it.
Learn(n) ==
    /\ \E upTo \in cursor[n] + 1 .. Len(log) :
          /\ wanted' = [wanted EXCEPT ![n] =
                Append(@, Distinct(SubSeq(log, cursor[n] + 1, upTo)))]
          /\ cursor' = [cursor EXCEPT ![n] = upTo]
    /\ UNCHANGED <<project, local, unknown, log, arriving, fulls>>

\* tim sync catch-up --full starts from the first row again.
FullCatchUp(n) ==
    /\ fulls < MaxFull
    /\ fulls' = fulls + 1
    /\ cursor' = [cursor EXCEPT ![n] = 0]
    /\ UNCHANGED <<project, local, unknown, log, wanted, arriving>>

\* deleteProjectStateInTransaction: the row goes, and with it all that refers to it.
RemoveProject(table, uuid) ==
    [q \in Repositories |-> IF q \in ByUuid(table, uuid) THEN NoProject ELSE table[q]]

\* Faulty variant of WriteSnapshot: the adopted project counts as one to announce.
WriteSnapshotUnmarked(s, table) ==
    IF s.deleted THEN RemoveProject(table, s.uuid)
    ELSE [UpsertProject(table, s.uuid, s.repository) EXCEPT
             ![s.repository].announced = FALSE]

\* writeCanonicalSnapshot, for the two kinds of project snapshots.
WriteSnapshot(s, table) ==
    IF s.deleted THEN RemoveProject(table, s.uuid)
    ELSE MarkAnnounced(UpsertProject(table, s.uuid, s.repository), s.uuid)

\* One snapshot of a response after the other is written, without an await in between.
Merged(table, snapshots) == FoldLeft(LAMBDA t, s : WriteSnapshot(s, t), table, snapshots)

\* A response is merged as soon as it arrives.
MergeSnapshots(n) ==
    /\ arriving[n] # <<>>
    /\ project' = [project EXCEPT ![n] = Merged(@, Head(arriving[n]))]
    /\ arriving' = [arriving EXCEPT ![n] = Tail(@)]
    /\ UNCHANGED <<local, unknown, log, cursor, wanted, fulls>>

-----------------------------------------------------------------------------

Init ==
    /\ project = [h \in Hosts |-> [r \in Repositories |-> NoProject]]
    /\ minted = [h \in Hosts |-> 0]
    /\ draft = [c \in Commands |-> NoDraft]
    /\ queue = [n \in Nodes |-> <<>>]
    /\ issued = 0
    /\ unknown = {}
    /\ log = <<>>
    /\ cursor = [n \in Nodes |-> 0]
    /\ wanted = [n \in Nodes |-> <<>>]
    /\ arriving = [n \in Nodes |-> <<>>]
    /\ fulls = 0

Next ==
    \/ \E h \in Users, r \in Repositories : OpenRepository(h, r)
    \/ \E c \in Commands :
          \/ \E h \in Users, r \in Repositories : BeginEdit(c, h, r)
          \/ CheckAnnounced(c)
          \/ AnnounceOnNode(c)
          \/ AnnounceOnMain(c)
          \/ Mark(c)
          \/ WriteEdit(c)
          \/ Crash(c)
    \/ \E n \in Nodes :
          \/ ApplyUpsert(n)
          \/ ApplyEdit(n)
          \/ ServeSnapshot(n)
          \/ Learn(n)
          \/ FullCatchUp(n)
          \/ MergeSnapshots(n)

Spec == Init /\ [][Next]_vars

\* Whatever is queued, requested or answered gets on; what users do is not fair.
Fairness == \A n \in Nodes :
    WF_vars(ApplyUpsert(n) \/ ApplyEdit(n) \/ ServeSnapshot(n) \/ Learn(n) \/ MergeSnapshots(n))

FairSpec == Spec /\ Fairness

-----------------------------------------------------------------------------
(* Properties.                                                             *)

\* The main node never goes back to a UUID it has left because of a snapshot, however late:
\* what a node has from the main node it never announces.  It does go back when a node
\* announces the UUID it made up twice, which two commands at once or a crash before the
\* mark may do, and when a command of its own announces the UUID it had read before.
NeverTakenBack ==
    [][\A r \in Repositories :
          LET old == project[Main][r]
              new == project'[Main][r]
          IN  old # NoProject /\ new.uuid # old.uuid /\ new.uuid \in Range(log) =>
                 \/ draft' # draft
                 \/ \E n \in Nodes : n = new.uuid[1] /\ queue'[n] # queue[n]]_vars

\* In the end every node that has a project the main node knows of uses the UUID of the
\* main node for it.
SameIdentity ==
    \A n \in Nodes, r \in Repositories :
        <>[](project[Main][r] = NoProject \/ project[n][r] = NoProject
             \/ project[n][r].uuid = project[Main][r].uuid
             \/ ~project[n][r].announced)

\* An edit is refused for an unknown project only because the main node has its repository
\* under another UUID: neither a crash between the announcement, its mark and the edit, nor
\* another command, nor a merge in between lets an edit arrive ahead of any announcement.
RefusedOnlyWhenLost == \A op \in unknown : project[Main][op.repository] # NoProject

\* A full catch-up adopts the project of the main node and keeps what the machine knows of
\* it: no host loses the project of a repository it works in.
LocalProjectKept ==
    [][\A n \in Nodes, r \in Repositories :
          fulls > 0 /\ project[n][r] # NoProject /\ project[n][r].local =>
             project'[n][r] # NoProject /\ project'[n][r].local]_vars

=============================================================================
