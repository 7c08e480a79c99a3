---------------------------- MODULE WorkspaceLock ----------------------------
(***************************************************************************)
(* The locks that keep two runs of tim out of one workspace                *)
(* (src/tim/db/workspace_lock.ts, src/tim/workspace/workspace_lock.ts) and *)
(* the processes that take them: workspace_setup.ts with                   *)
(* workspace_auto_selector.ts, `tim workspace add --reuse`, the commands   *)
(* and buttons of the user, and the clean-up of the web process.           *)
(*                                                                         *)
(* A step is one database transaction or statement; everything a process   *)
(* learnt in an earlier step may be stale when it acts on it.  A process   *)
(* runs once and takes at most one pid lock of a workspace, so that        *)
(* <<process, workspace>> stands for pid and started_at together.          *)
(***************************************************************************)
EXTENDS FiniteSets

CONSTANTS
    Processes,   \* runs of tim, each with a pid of its own
    Workspaces,  \* workspace directories
    Existing,    \* the workspaces recorded at the start; the others can be created
    Modes,       \* how a process may choose its workspace
    User,        \* owner of a lock that no process of ours stands for
    NoLock,      \* no workspace_lock row
    NoWorkspace, \* a process that has not chosen
    Unread,      \* not read in this selection
    Busy,        \* read, and locked persistently
    Excluded     \* lost to another process (excludedWorkspacePaths)

\* --auto-workspace, --workspace <task>, the current directory, workspace add --reuse.
AllModes == {"auto", "named", "here", "reuse"}

ASSUME ModelAssumption ==
    /\ Existing \subseteq Workspaces
    /\ Modes \subseteq AllModes
    /\ User \notin Processes
    /\ NoWorkspace \notin Workspaces
    /\ {Unread, Busy, Excluded} \cap Processes = {}

Locks == [type : {"pid"}, by : Processes] \cup [type : {"persistent"}, by : Processes \cup {User}]

ASSUME NoLockAssumption == NoLock \notin Locks

Phases == {"idle", "selecting", "clearing", "created", "acquiring",
           "setup", "working", "unlocked", "gone"}

VARIABLES
    lock,     \* [Workspaces -> workspace_lock row or NoLock]
    recorded, \* workspaces with a row in the workspace table
    aged,     \* pid locks <<process, workspace>> older than STALE_LOCK_TIMEOUT_MS
    phase,    \* [Processes -> Phases]
    mode,     \* [Processes -> AllModes]
    ws,       \* [Processes -> the workspace chosen]
    fresh,    \* [Processes -> BOOLEAN], isNewWorkspace
    view,     \* [Processes -> [Workspaces -> owner of the pid lock read, or a mark]]
    swept,    \* stale locks the web process has read and not yet deleted
    lost      \* history: processes whose lock was removed while they used the workspace

vars == <<lock, recorded, aged, phase, mode, ws, fresh, view, swept, lost>>
choice == <<mode, ws, fresh, view>>

TypeOK ==
    /\ lock \in [Workspaces -> Locks \cup {NoLock}]
    /\ recorded \in SUBSET Workspaces
    /\ aged \in SUBSET (Processes \X Workspaces)
    /\ phase \in [Processes -> Phases]
    /\ mode \in [Processes -> AllModes]
    /\ ws \in [Processes -> Workspaces \cup {NoWorkspace}]
    /\ fresh \in [Processes -> BOOLEAN]
    /\ view \in [Processes -> [Workspaces -> Processes \cup {Unread, Busy, Excluded}]]
    /\ swept \in SUBSET (Workspaces \X Processes)
    /\ lost \in SUBSET Processes

Init ==
    /\ lock = [w \in Workspaces |-> NoLock]
    /\ recorded = Existing
    /\ aged = {}
    /\ phase = [p \in Processes |-> "idle"]
    /\ mode = [p \in Processes |-> "here"]
    /\ ws = [p \in Processes |-> NoWorkspace]
    /\ fresh = [p \in Processes |-> FALSE]
    /\ view = [p \in Processes |-> [w \in Workspaces |-> Unread]]
    /\ swept = {}
    /\ lost = {}

-----------------------------------------------------------------------------
(* The lock table.                                                         *)

PidLock(p) == [type |-> "pid", by |-> p]
Persistent(o) == [type |-> "persistent", by |-> o]

Alive(p) == phase[p] \notin {"idle", "gone"}

\* A pid lock is stale when its process is dead or it is older than a day; a
\* persistent lock never is.
StalePid(w, p) == phase[p] = "gone" \/ <<p, w>> \in aged

Stale(w) == lock[w] # NoLock /\ lock[w].type = "pid" /\ StalePid(w, lock[w].by)

\* acquireWorkspaceLock inserts a row if there is none or a stale one.
Free(w) == lock[w] = NoLock \/ Stale(w)

\* ... and with allowPersistentToPidTransition turns a persistent lock, whoever took
\* it, into the pid lock of the caller.
Transitions(p, w) == fresh[p] /\ lock[w] # NoLock /\ lock[w].type = "persistent"

\* p works in w on the strength of a lock it acquired.
Uses(p, w) == phase[p] \in {"setup", "working"} /\ ws[p] = w

\* The processes that lose the lock of w when somebody else removes it.
Losers(w, remover) ==
    {p \in Processes \ {remover} : Uses(p, w) /\ lock[w] # NoLock /\ lock[w].by = p}

\* Faulty variant of ReleaseSpecific: whatever row is there now is deleted.
ReleaseSpecificAny(w, p) ==
    /\ lock' = [lock EXCEPT ![w] = NoLock]
    /\ lost' = lost \cup Losers(w, User)

\* releaseSpecificWorkspaceLock: delete the row only if it still is the one of p.
ReleaseSpecific(w, p) ==
    IF lock[w] = PidLock(p)
      THEN /\ lock' = [lock EXCEPT ![w] = NoLock]
           /\ lost' = lost \cup Losers(w, User)
      ELSE UNCHANGED <<lock, lost>>

\* releaseLock with force: delete the row, whoever's it is.
ForceRelease(w, remover) ==
    /\ lock' = [lock EXCEPT ![w] = NoLock]
    /\ lost' = (lost \ {remover}) \cup Losers(w, remover)

\* p is past choosing, and how it chose is of no interest any more.
Settle(p) ==
    /\ mode' = [mode EXCEPT ![p] = "here"]
    /\ fresh' = [fresh EXCEPT ![p] = FALSE]
    /\ view' = [view EXCEPT ![p] = [w \in Workspaces |-> Unread]]

Ends(p) ==
    /\ phase' = [phase EXCEPT ![p] = "gone"]
    /\ ws' = [ws EXCEPT ![p] = NoWorkspace]
    /\ Settle(p)
    /\ aged' = {u \in aged : u[1] # p}

-----------------------------------------------------------------------------
(* Choosing a workspace.                                                   *)

Start(p) ==
    /\ phase[p] = "idle"
    /\ \E m \in Modes :
          /\ mode' = [mode EXCEPT ![p] = m]
          /\ IF m = "here"
               THEN /\ phase' = [phase EXCEPT ![p] = "acquiring"]
                    /\ \E w \in recorded : ws' = [ws EXCEPT ![p] = w]
               ELSE phase' = [phase EXCEPT ![p] = "selecting"] /\ UNCHANGED ws
    /\ UNCHANGED <<lock, recorded, aged, fresh, view, swept, lost>>

\* The view of a selection that begins anew; what was excluded stays so.
Afresh(p) == [w \in Workspaces |-> IF view[p][w] = Excluded THEN Excluded ELSE Unread]

Choose(p, w) ==
    /\ phase' = [phase EXCEPT ![p] = "acquiring"]
    /\ ws' = [ws EXCEPT ![p] = w]
    /\ view' = [view EXCEPT ![p] = Afresh(p)]

\* Faulty variant of ReadLock: the owner of a persistent lock is taken for a process.
ReadLockAnyOwner(p, w) ==
    /\ phase[p] = "selecting" /\ w \in recorded /\ view[p][w] = Unread
    /\ IF lock[w] = NoLock
         THEN Choose(p, w)
         ELSE view' = [view EXCEPT ![p][w] = lock[w].by] /\ UNCHANGED <<phase, ws>>
    /\ UNCHANGED <<lock, recorded, aged, mode, fresh, swept, lost>>

\* getLockInfoIncludingStale of one workspace: it is chosen if it has no lock.
ReadLock(p, w) ==
    /\ phase[p] = "selecting" /\ w \in recorded /\ view[p][w] = Unread
    /\ IF lock[w] = NoLock
         THEN Choose(p, w)
         ELSE /\ view' = [view EXCEPT ![p][w] =
                            IF lock[w].type = "pid" THEN lock[w].by ELSE Busy]
              /\ UNCHANGED <<phase, ws>>
    /\ UNCHANGED <<lock, recorded, aged, mode, fresh, swept, lost>>

AllRead(p) == \A w \in recorded : view[p][w] # Unread

\* After a clean-up p takes the workspace; if the lock was not removed, the modes other
\* than the automatic one look at it again first.
Cleared(p, w, removed) ==
    IF removed \/ mode[p] = "auto"
      THEN Choose(p, w)
      ELSE /\ phase' = [phase EXCEPT ![p] = "selecting"]
           /\ view' = [view EXCEPT ![p][w] = Unread]
           /\ UNCHANGED ws

\* clearStaleLock reads the lock again, and remembers the row if that is stale.
BeginClear(p, w) ==
    /\ phase[p] = "selecting" /\ w \in recorded
    /\ view[p][w] \in Processes /\ StalePid(w, view[p][w])
    /\ mode[p] = "auto" => AllRead(p)
    /\ IF Stale(w)
         THEN /\ phase' = [phase EXCEPT ![p] = "clearing"]
              /\ ws' = [ws EXCEPT ![p] = w]
              /\ view' = [view EXCEPT ![p][w] = lock[w].by]
         ELSE Cleared(p, w, FALSE)
    /\ UNCHANGED <<lock, recorded, aged, mode, fresh, swept, lost>>

RemoveStale(p) ==
    /\ phase[p] = "clearing"
    /\ ReleaseSpecific(ws[p], view[p][ws[p]])
    /\ Cleared(p, ws[p], lock[ws[p]] = PidLock(view[p][ws[p]]))
    /\ UNCHANGED <<recorded, aged, mode, fresh, swept>>

\* A new workspace is asked for at once, or all others are locked (and clearing a
\* stale lock was declined).
WantsNew(p) ==
    /\ phase[p] = "selecting"
    /\ \/ mode[p] \in {"auto", "named"} /\ view[p] = Afresh(p)
       \/ mode[p] = "auto" /\ AllRead(p)

\* createWorkspace up to the row in the workspace table; the directory was built
\* before, and other processes see the workspace from now on.
CreateWorkspace(p, w) ==
    /\ WantsNew(p) /\ w \notin recorded
    /\ recorded' = recorded \cup {w}
    /\ phase' = [phase EXCEPT ![p] = "created"]
    /\ ws' = [ws EXCEPT ![p] = w]
    /\ fresh' = [fresh EXCEPT ![p] = TRUE]
    /\ view' = [view EXCEPT ![p] = Afresh(p)]
    /\ UNCHANGED <<lock, aged, mode, swept, lost>>

\* Creation fails: the run falls back to the current directory.
FallBack(p, w) ==
    /\ WantsNew(p) /\ w \in recorded
    /\ mode' = [mode EXCEPT ![p] = "here"]
    /\ Choose(p, w)
    /\ UNCHANGED <<lock, recorded, aged, fresh, swept, lost>>

\* createWorkspace takes a persistent lock; failing to is only logged.
LockCreated(p) ==
    /\ phase[p] = "created"
    /\ phase' = [phase EXCEPT ![p] = "acquiring"]
    /\ IF Free(ws[p])
         THEN /\ lock' = [lock EXCEPT ![ws[p]] = Persistent(p)]
              /\ lost' = lost \cup Losers(ws[p], p)
         ELSE UNCHANGED <<lock, lost>>
    /\ UNCHANGED <<recorded, aged, mode, ws, fresh, view, swept>>

-----------------------------------------------------------------------------
(* Taking, using and leaving the workspace.                                *)

\* Faulty variant of Acquire: a row that is already there is no obstacle (INSERT OR
\* IGNORE without a look at the result).
AcquireIgnored(p) ==
    LET w == ws[p] IN
    /\ phase[p] = "acquiring"
    /\ lock' = [lock EXCEPT ![w] = IF Free(w) THEN PidLock(p) ELSE @]
    /\ lost' = lost \cup (IF Free(w) THEN Losers(w, p) ELSE {})
    /\ phase' = [phase EXCEPT ![p] = "setup"]
    /\ Settle(p)
    /\ UNCHANGED <<recorded, aged, ws, swept>>

\* acquireWorkspaceLock, one immediate transaction.
Acquire(p) ==
    LET w == ws[p] IN
    /\ phase[p] = "acquiring"
    /\ Free(w) \/ Transitions(p, w)
    /\ lock' = [lock EXCEPT ![w] = IF mode[p] = "reuse" THEN Persistent(p) ELSE PidLock(p)]
    /\ lost' = lost \cup Losers(w, p)
    /\ phase' = [phase EXCEPT ![p] = IF mode[p] = "here" THEN "working" ELSE "setup"]
    /\ IF mode[p] = "reuse" THEN UNCHANGED choice ELSE Settle(p) /\ UNCHANGED ws
    /\ UNCHANGED <<recorded, aged, swept>>

\* p goes on to another workspace than w.
TryAnother(p, w) ==
    /\ phase' = [phase EXCEPT ![p] = "selecting"]
    /\ ws' = [ws EXCEPT ![p] = NoWorkspace]
    /\ view' = [view EXCEPT ![p] = [Afresh(p) EXCEPT ![w] = Excluded]]
    /\ UNCHANGED <<mode, fresh>>

\* Faulty variant of AcquireFails: the run goes on in the workspace it chose.
AcquireFailsIgnored(p) ==
    /\ phase[p] = "acquiring"
    /\ ~(Free(ws[p]) \/ Transitions(p, ws[p]))
    /\ phase' = [phase EXCEPT ![p] = "working"]
    /\ Settle(p)
    /\ UNCHANGED <<lock, recorded, aged, ws, swept, lost>>

\* The workspace was claimed in the meantime.  Automatic selection and reuse try
\* another one, some commands go on in the current directory without a lock.
AcquireFails(p) ==
    LET w == ws[p] IN
    /\ phase[p] = "acquiring"
    /\ ~(Free(w) \/ Transitions(p, w))
    /\ \/ /\ mode[p] = "reuse" \/ (mode[p] = "auto" /\ ~fresh[p])
          /\ TryAnother(p, w)
          /\ UNCHANGED aged
       \/ mode[p] # "reuse" /\ (mode[p] = "auto" => fresh[p]) /\ Ends(p)
       \/ /\ mode[p] = "here"
          /\ phase' = [phase EXCEPT ![p] = "unlocked"]
          /\ UNCHANGED <<aged, mode, ws, fresh, view>>
    /\ UNCHANGED <<lock, recorded, swept, lost>>

\* Checking out, materialising the plan and the update commands succeed.  Reuse ends
\* here and leaves its lock to the user.
FinishSetup(p) ==
    /\ phase[p] = "setup"
    /\ IF mode[p] = "reuse"
         THEN Ends(p) /\ lost' = lost \ {p}
         ELSE /\ phase' = [phase EXCEPT ![p] = "working"]
              /\ UNCHANGED <<aged, lost>> /\ UNCHANGED choice
    /\ UNCHANGED <<lock, recorded, swept>>

\* They fail: the lock is released by force, and a reuse tries another workspace.
FailSetup(p) ==
    /\ phase[p] = "setup"
    /\ ForceRelease(ws[p], p)
    /\ \/ Ends(p)
       \/ mode[p] = "reuse" /\ TryAnother(p, ws[p]) /\ UNCHANGED aged
    /\ UNCHANGED <<recorded, swept>>

\* The exit and signal handlers (setupCleanupHandlers) release a pid lock of p's own.
Exit(p) ==
    /\ Alive(p)
    /\ Ends(p)
    /\ lock' = [w \in Workspaces |-> IF lock[w] = PidLock(p) THEN NoLock ELSE lock[w]]
    /\ lost' = lost \ {p}
    /\ UNCHANGED <<recorded, swept>>

\* The process is killed, or the machine goes down.
Crash(p) ==
    /\ Alive(p)
    /\ Ends(p)
    /\ lost' = lost \ {p}
    /\ UNCHANGED <<lock, recorded, swept>>

-----------------------------------------------------------------------------
(* Everybody else.                                                         *)

\* tim workspace lock, and the button of the web interface.
UserLock(w) ==
    /\ w \in recorded /\ Free(w)
    /\ lock' = [lock EXCEPT ![w] = Persistent(User)]
    /\ lost' = lost \cup Losers(w, User)
    /\ UNCHANGED <<recorded, aged, phase, swept>> /\ UNCHANGED choice

\* tim workspace unlock, and its button, which ask no questions.
UserUnlock(w) ==
    /\ lock[w] # NoLock
    /\ ForceRelease(w, User)
    /\ UNCHANGED <<recorded, aged, phase, swept>> /\ UNCHANGED choice

\* A day passes with the lock in place.
Age(p, w) ==
    /\ lock[w] = PidLock(p) /\ <<p, w>> \notin aged
    /\ aged' = aged \cup {<<p, w>>}
    /\ UNCHANGED <<lock, recorded, phase, swept, lost>> /\ UNCHANGED choice

\* cleanStaleLocks reads and filters the pid locks ...
SweepRead ==
    /\ swept = {}
    /\ swept' = {r \in Workspaces \X Processes : Stale(r[1]) /\ lock[r[1]].by = r[2]}
    /\ swept' # {}
    /\ UNCHANGED <<lock, recorded, aged, phase, lost>> /\ UNCHANGED choice

\* ... and deletes those it found in a transaction, row by row.
Hits == {w \in Workspaces : \E p \in Processes : <<w, p>> \in swept /\ lock[w] = PidLock(p)}

SweepDelete ==
    /\ swept # {}
    /\ lock' = [w \in Workspaces |-> IF w \in Hits THEN NoLock ELSE lock[w]]
    /\ lost' = lost \cup UNION {Losers(w, User) : w \in Hits}
    /\ swept' = {}
    /\ UNCHANGED <<recorded, aged, phase>> /\ UNCHANGED choice

ProcessStep(p) ==
    \/ Start(p) \/ RemoveStale(p) \/ LockCreated(p)
    \/ Acquire(p) \/ AcquireFails(p) \/ FinishSetup(p) \/ FailSetup(p)
    \/ Exit(p) \/ Crash(p)

Next ==
    \/ \E p \in Processes : ProcessStep(p)
    \/ \E p \in Processes, w \in Workspaces :
          ReadLock(p, w) \/ BeginClear(p, w) \/ CreateWorkspace(p, w) \/ FallBack(p, w)
          \/ Age(p, w)
    \/ \E w \in Workspaces : UserLock(w) \/ UserUnlock(w)
    \/ SweepRead \/ SweepDelete

Spec == Init /\ [][Next]_vars

-----------------------------------------------------------------------------
(* Properties.                                                             *)

\* Whoever works in a workspace has its lock, unless the lock was taken from it:
\* taking over stale locks, clearing and sweeping them with an old view of the table,
\* dying and failing at any step never leave a process without.
LockHeld ==
    \A p \in Processes, w \in Workspaces :
        Uses(p, w) /\ p \notin lost => lock[w] # NoLock /\ lock[w].by = p

\* Hence two processes never work in one workspace, if neither has lost its lock.
Exclusive ==
    \A p, q \in Processes, w \in Workspaces :
        p # q /\ Uses(p, w) /\ Uses(q, w) => p \in lost \/ q \in lost

\* Why the lock of p can be gone after a step.
Explained(p) ==
    \/ <<p, ws[p]>> \in aged
    \/ UserUnlock(ws[p])
    \/ \E q \in lost : ws[q] = ws[p] /\ FailSetup(q)
    \/ lock[ws[p]].type = "persistent" /\ \E q \in Processes : fresh[q] /\ Acquire(q)

\* What it takes to lose a lock: a day's age, the user's unlock, a failing set-up of a
\* process that had itself lost the lock of that workspace, or, for the persistent
\* lock of a reuse, the creator of the workspace.  No clean-up removes the lock of a
\* live process that replaced a stale one.
LossExplained == [][\A p \in lost' \ lost : Explained(p)]_vars

=============================================================================
