------------------------- MODULE WorkspaceLockProofs -------------------------
(***************************************************************************)
(* Proofs about WorkspaceLock for any number of processes and workspaces:  *)
(* its types, that whoever works in a workspace holds its lock or has lost *)
(* it, that two processes exclude each other, and how a lock can be lost.  *)
(*                                                                         *)
(* The argument: whoever overwrites or deletes the row of a workspace      *)
(* makes its user a loser, and what a process or the sweep remembers as    *)
(* stale stays stale, because a dead process stays dead and the age of a   *)
(* lock is forgotten only with its process.                                *)
(***************************************************************************)
EXTENDS WorkspaceLock, TLAPS

\* What a step may do to the lock of a workspace keeps the table well typed.
LEMMA LockTypes ==
    ASSUME TypeOK
    PROVE  /\ \A p \in Processes : PidLock(p) \in Locks
           /\ \A o \in Processes \cup {User} : Persistent(o) \in Locks
           /\ \A w \in Workspaces, o \in Processes \cup {User} : Losers(w, o) \subseteq Processes
           /\ \A w \in Workspaces : Stale(w) => lock[w].by \in Processes
           /\ \A p \in Processes, w \in Workspaces :
                 Afresh(p) \in [Workspaces -> Processes \cup {Unread, Busy, Excluded}]
  BY NoLockAssumption DEF TypeOK, Locks, PidLock, Persistent, Losers, Stale, Afresh

\* Settling and ending keep the choice of a process well typed.
LEMMA SettleTypes ==
    ASSUME TypeOK, NEW p \in Processes, Settle(p)
    PROVE  /\ mode' \in [Processes -> AllModes]
           /\ fresh' \in [Processes -> BOOLEAN]
           /\ view' \in [Processes -> [Workspaces -> Processes \cup {Unread, Busy, Excluded}]]
  BY DEF TypeOK, Settle, AllModes

LEMMA EndsTypes ==
    ASSUME TypeOK, NEW p \in Processes, Ends(p)
    PROVE  /\ phase' \in [Processes -> Phases]
           /\ ws' \in [Processes -> Workspaces \cup {NoWorkspace}]
           /\ aged' \in SUBSET (Processes \X Workspaces)
           /\ mode' \in [Processes -> AllModes]
           /\ fresh' \in [Processes -> BOOLEAN]
           /\ view' \in [Processes -> [Workspaces -> Processes \cup {Unread, Busy, Excluded}]]
  <1>1. Settle(p)
    BY DEF Ends
  <1>2. QED
    BY <1>1, SettleTypes DEF Ends, TypeOK, Phases

LEMMA ChooseTypes ==
    ASSUME TypeOK, NEW p \in Processes, NEW w \in Workspaces, Choose(p, w)
    PROVE  /\ phase' \in [Processes -> Phases]
           /\ ws' \in [Processes -> Workspaces \cup {NoWorkspace}]
           /\ view' \in [Processes -> [Workspaces -> Processes \cup {Unread, Busy, Excluded}]]
  BY LockTypes DEF Choose, TypeOK, Phases

LEMMA ClearedTypes ==
    ASSUME TypeOK, NEW p \in Processes, NEW w \in Workspaces,
           NEW removed \in BOOLEAN, Cleared(p, w, removed)
    PROVE  /\ phase' \in [Processes -> Phases]
           /\ ws' \in [Processes -> Workspaces \cup {NoWorkspace}]
           /\ view' \in [Processes -> [Workspaces -> Processes \cup {Unread, Busy, Excluded}]]
  <1>1. \/ Choose(p, w)
        \/ /\ phase' = [phase EXCEPT ![p] = "selecting"]
           /\ view' = [view EXCEPT ![p][w] = Unread]
           /\ UNCHANGED ws
    BY DEF Cleared
  <1>2. CASE Choose(p, w)
    BY <1>2, ChooseTypes
  <1>3. CASE /\ phase' = [phase EXCEPT ![p] = "selecting"]
             /\ view' = [view EXCEPT ![p][w] = Unread]
             /\ UNCHANGED ws
    BY <1>3 DEF TypeOK, Phases
  <1>4. QED
    BY <1>1, <1>2, <1>3

LEMMA TryAnotherTypes ==
    ASSUME TypeOK, NEW p \in Processes, NEW w \in Workspaces, TryAnother(p, w)
    PROVE  /\ phase' \in [Processes -> Phases]
           /\ ws' \in [Processes -> Workspaces \cup {NoWorkspace}]
           /\ view' \in [Processes -> [Workspaces -> Processes \cup {Unread, Busy, Excluded}]]
           /\ UNCHANGED <<mode, fresh>>
  BY LockTypes DEF TryAnother, TypeOK, Phases

LEMMA LockWritten ==
    ASSUME TypeOK, NEW w, NEW o \in Processes \cup {User}
    PROVE  /\ [lock EXCEPT ![w] = NoLock] \in [Workspaces -> Locks \cup {NoLock}]
           /\ [lock EXCEPT ![w] = Persistent(o)] \in [Workspaces -> Locks \cup {NoLock}]
           /\ lost \cup Losers(w, o) \in SUBSET Processes
           /\ (lost \ {o}) \cup Losers(w, o) \in SUBSET Processes
  BY LockTypes DEF TypeOK, Losers

\* A process that has reached a step at a workspace has chosen one.
ChosenAt == {"clearing", "created", "acquiring", "setup", "working", "unlocked"}

HasChosen == \A p \in Processes : phase[p] \in ChosenAt => ws[p] \in Workspaces

-----------------------------------------------------------------------------
(* The inductive invariant.                                                *)

\* What is remembered as stale is stale.
KnownStale ==
    /\ \A p \in Processes :
          phase[p] = "clearing" => /\ view[p][ws[p]] \in Processes
                                   /\ StalePid(ws[p], view[p][ws[p]])
    /\ \A r \in swept : StalePid(r[1], r[2])

IInv == TypeOK /\ HasChosen /\ LockHeld /\ KnownStale

\* The types hold at the start and after every step.
LEMMA InitInv == Init => IInv
  BY ModelAssumption, NoLockAssumption
  DEF Init, IInv, TypeOK, HasChosen, LockHeld, KnownStale, Phases, AllModes, ChosenAt, Uses

LEMMA TypeStep ==
    ASSUME TypeOK, HasChosen, [Next]_vars
    PROVE  TypeOK' /\ HasChosen'
  <1>1. ASSUME NEW p \in Processes, Start(p)
       PROVE  TypeOK' /\ HasChosen'
    <2>1. PICK m \in Modes :
             /\ mode' = [mode EXCEPT ![p] = m]
             /\ IF m = "here"
                  THEN /\ phase' = [phase EXCEPT ![p] = "acquiring"]
                       /\ \E w \in recorded : ws' = [ws EXCEPT ![p] = w]
                  ELSE phase' = [phase EXCEPT ![p] = "selecting"] /\ UNCHANGED ws
      BY <1>1 DEF Start
    <2>2. mode' \in [Processes -> AllModes]
      BY <2>1, ModelAssumption DEF TypeOK
    <2>3. CASE m = "here"
      <3>1. PICK w \in recorded : ws' = [ws EXCEPT ![p] = w]
        BY <2>1, <2>3
      <3>2. QED
        BY <1>1, <2>1, <2>2, <2>3, <3>1 DEF Start, TypeOK, HasChosen, ChosenAt, Phases
    <2>4. CASE m # "here"
      BY <1>1, <2>1, <2>2, <2>4 DEF Start, TypeOK, HasChosen, ChosenAt, Phases
    <2>5. QED
      BY <2>3, <2>4
  <1>2. ASSUME NEW p \in Processes, NEW w \in Workspaces, ReadLock(p, w)
       PROVE  TypeOK' /\ HasChosen'
    <2>1. CASE Choose(p, w)
      BY <1>2, <2>1, ChooseTypes DEF ReadLock, Choose, TypeOK, HasChosen, ChosenAt
    <2>2. CASE /\ lock[w] # NoLock
               /\ view' = [view EXCEPT ![p][w] =
                             IF lock[w].type = "pid" THEN lock[w].by ELSE Busy]
               /\ UNCHANGED <<phase, ws>>
      <3>1. lock[w] \in Locks
        BY <2>2 DEF TypeOK
      <3>2. (IF lock[w].type = "pid" THEN lock[w].by ELSE Busy)
               \in Processes \cup {Unread, Busy, Excluded}
        BY <3>1 DEF Locks
      <3>3. view' \in [Processes -> [Workspaces -> Processes \cup {Unread, Busy, Excluded}]]
        BY <2>2, <3>2 DEF TypeOK
      <3>4. QED
        BY <1>2, <2>2, <3>3 DEF ReadLock, TypeOK, HasChosen
    <2>3. QED
      BY <1>2, <2>1, <2>2 DEF ReadLock
  <1>3. ASSUME NEW p \in Processes, NEW w \in Workspaces, BeginClear(p, w)
       PROVE  TypeOK' /\ HasChosen'
    <2>1. CASE Stale(w)
      <3>1. lock[w].by \in Processes
        BY <2>1, LockTypes
      <3>2. view' = [view EXCEPT ![p][w] = lock[w].by]
        BY <1>3, <2>1 DEF BeginClear
      <3>3. view' \in [Processes -> [Workspaces -> Processes \cup {Unread, Busy, Excluded}]]
        BY <3>1, <3>2 DEF TypeOK
      <3>4. QED
        BY <1>3, <2>1, <3>3 DEF BeginClear, TypeOK, HasChosen, ChosenAt, Phases
    <2>2. CASE ~Stale(w)
      <3>1. Cleared(p, w, FALSE)
        BY <1>3, <2>2 DEF BeginClear
      <3>2. TypeOK'
        BY <1>3, <3>1, ClearedTypes DEF BeginClear, TypeOK
      <3>3. HasChosen'
        BY <3>1 DEF Cleared, Choose, TypeOK, HasChosen, ChosenAt
      <3>4. QED
        BY <3>2, <3>3
    <2>3. QED
      BY <2>1, <2>2
  <1>4. ASSUME NEW p \in Processes, RemoveStale(p)
       PROVE  TypeOK' /\ HasChosen'
    <2>1. ws[p] \in Workspaces
      BY <1>4 DEF RemoveStale, HasChosen, ChosenAt
    <2>2. lock' \in [Workspaces -> Locks \cup {NoLock}] /\ lost' \in SUBSET Processes
      BY <1>4, LockWritten DEF RemoveStale, ReleaseSpecific, TypeOK
    <2>3. PICK removed \in BOOLEAN : Cleared(p, ws[p], removed)
      BY <1>4 DEF RemoveStale
    <2>4. TypeOK'
      BY <1>4, <2>1, <2>2, <2>3, ClearedTypes DEF RemoveStale, TypeOK
    <2>5. HasChosen'
      BY <2>1, <2>3 DEF Cleared, Choose, TypeOK, HasChosen, ChosenAt
    <2>6. QED
      BY <2>4, <2>5
  <1>5. ASSUME NEW p \in Processes, NEW w \in Workspaces, CreateWorkspace(p, w)
       PROVE  TypeOK' /\ HasChosen'
    BY <1>5, LockTypes
    DEF CreateWorkspace, TypeOK, HasChosen, ChosenAt, Phases
  <1>6. ASSUME NEW p \in Processes, NEW w \in Workspaces, FallBack(p, w)
       PROVE  TypeOK' /\ HasChosen'
    BY <1>6, ChooseTypes
    DEF FallBack, Choose, TypeOK, HasChosen, ChosenAt, AllModes
  <1>7. ASSUME NEW p \in Processes, LockCreated(p)
       PROVE  TypeOK' /\ HasChosen'
    <2>1. lock' \in [Workspaces -> Locks \cup {NoLock}] /\ lost' \in SUBSET Processes
      BY <1>7, LockWritten DEF LockCreated, TypeOK
    <2>2. QED
      BY <1>7, <2>1 DEF LockCreated, TypeOK, HasChosen, ChosenAt, Phases
  <1>8. ASSUME NEW p \in Processes, Acquire(p)
       PROVE  TypeOK' /\ HasChosen'
    BY <1>8, LockTypes, SettleTypes
    DEF Acquire, choice, TypeOK, HasChosen, ChosenAt, Phases
  <1>9. ASSUME NEW p \in Processes, AcquireFails(p)
       PROVE  TypeOK' /\ HasChosen'
    BY <1>9, TryAnotherTypes, EndsTypes
    DEF AcquireFails, TryAnother, Ends, TypeOK, HasChosen, ChosenAt, Phases
  <1>10. ASSUME NEW p \in Processes, FinishSetup(p)
       PROVE  TypeOK' /\ HasChosen'
    BY <1>10, EndsTypes
    DEF FinishSetup, Ends, choice, TypeOK, HasChosen, ChosenAt, Phases
  <1>11. ASSUME NEW p \in Processes, FailSetup(p)
       PROVE  TypeOK' /\ HasChosen'
    <2>1. lock' \in [Workspaces -> Locks \cup {NoLock}] /\ lost' \in SUBSET Processes
      BY <1>11, LockWritten DEF FailSetup, ForceRelease
    <2>2. CASE Ends(p)
      BY <1>11, <2>1, <2>2, EndsTypes DEF FailSetup, Ends, TypeOK, HasChosen, ChosenAt
    <2>3. CASE TryAnother(p, ws[p]) /\ UNCHANGED aged
      <3>1. ws[p] \in Workspaces
        BY <1>11 DEF FailSetup, HasChosen, ChosenAt
      <3>2. QED
        BY <1>11, <2>1, <2>3, <3>1, TryAnotherTypes
        DEF FailSetup, TryAnother, TypeOK, HasChosen, ChosenAt
    <2>4. QED
      BY <1>11, <2>2, <2>3 DEF FailSetup
  <1>12. ASSUME NEW p \in Processes, Exit(p)
       PROVE  TypeOK' /\ HasChosen'
    BY <1>12, EndsTypes
    DEF Exit, Ends, TypeOK, HasChosen, ChosenAt
  <1>13. ASSUME NEW p \in Processes, Crash(p)
       PROVE  TypeOK' /\ HasChosen'
    BY <1>13, EndsTypes
    DEF Crash, Ends, TypeOK, HasChosen, ChosenAt
  <1>14. ASSUME NEW w \in Workspaces, UserLock(w)
       PROVE  TypeOK' /\ HasChosen'
    BY <1>14, LockTypes
    DEF UserLock, choice, TypeOK, HasChosen
  <1>15. ASSUME NEW w \in Workspaces, UserUnlock(w)
       PROVE  TypeOK' /\ HasChosen'
    BY <1>15, LockTypes
    DEF UserUnlock, ForceRelease, choice, TypeOK, HasChosen
  <1>16. ASSUME NEW p \in Processes, NEW w \in Workspaces, Age(p, w)
       PROVE  TypeOK' /\ HasChosen'
    BY <1>16
    DEF Age, choice, TypeOK, HasChosen
  <1>17. ASSUME SweepRead
       PROVE  TypeOK' /\ HasChosen'
    BY <1>17
    DEF SweepRead, choice, TypeOK, HasChosen
  <1>18. ASSUME SweepDelete
       PROVE  TypeOK' /\ HasChosen'
    BY <1>18, LockTypes
    DEF SweepDelete, Hits, choice, TypeOK, HasChosen
  <1>19. CASE UNCHANGED vars
    BY <1>19 DEF vars, choice, TypeOK, HasChosen
  <1>20. QED
    BY <1>1, <1>2, <1>3, <1>4, <1>5, <1>6, <1>7, <1>8, <1>9, <1>10, <1>11, <1>12, <1>13,
       <1>14, <1>15, <1>16, <1>17, <1>18, <1>19
    DEF Next, ProcessStep

\* What is stale stays stale: the dead stay dead, and ages are forgotten with them.
LEMMA StaleForever ==
    ASSUME TypeOK, [Next]_vars, NEW v \in Workspaces, NEW q \in Processes, StalePid(v, q)
    PROVE  StalePid(v, q)'
  <1>1. ASSUME NEW p \in Processes, Start(p)
       PROVE  StalePid(v, q)'
    BY <1>1
    DEF Start, StalePid, TypeOK
  <1>2. ASSUME NEW p \in Processes, NEW w \in Workspaces, ReadLock(p, w)
       PROVE  StalePid(v, q)'
    BY <1>2
    DEF ReadLock, Choose, StalePid, TypeOK
  <1>3. ASSUME NEW p \in Processes, NEW w \in Workspaces, BeginClear(p, w)
       PROVE  StalePid(v, q)'
    BY <1>3
    DEF BeginClear, Cleared, Choose, StalePid, TypeOK
  <1>4. ASSUME NEW p \in Processes, RemoveStale(p)
       PROVE  StalePid(v, q)'
    BY <1>4
    DEF RemoveStale, Cleared, Choose, StalePid, TypeOK
  <1>5. ASSUME NEW p \in Processes, NEW w \in Workspaces, CreateWorkspace(p, w)
       PROVE  StalePid(v, q)'
    BY <1>5
    DEF CreateWorkspace, WantsNew, StalePid, TypeOK
  <1>6. ASSUME NEW p \in Processes, NEW w \in Workspaces, FallBack(p, w)
       PROVE  StalePid(v, q)'
    BY <1>6
    DEF FallBack, WantsNew, Choose, StalePid, TypeOK
  <1>7. ASSUME NEW p \in Processes, LockCreated(p)
       PROVE  StalePid(v, q)'
    BY <1>7
    DEF LockCreated, StalePid, TypeOK
  <1>8. ASSUME NEW p \in Processes, Acquire(p)
       PROVE  StalePid(v, q)'
    BY <1>8
    DEF Acquire, choice, StalePid, TypeOK
  <1>9. ASSUME NEW p \in Processes, AcquireFails(p)
       PROVE  StalePid(v, q)'
    BY <1>9
    DEF AcquireFails, TryAnother, Ends, StalePid, TypeOK
  <1>10. ASSUME NEW p \in Processes, FinishSetup(p)
       PROVE  StalePid(v, q)'
    BY <1>10
    DEF FinishSetup, Ends, choice, StalePid, TypeOK
  <1>11. ASSUME NEW p \in Processes, FailSetup(p)
       PROVE  StalePid(v, q)'
    BY <1>11
    DEF FailSetup, TryAnother, Ends, StalePid, TypeOK
  <1>12. ASSUME NEW p \in Processes, Exit(p)
       PROVE  StalePid(v, q)'
    BY <1>12
    DEF Exit, Ends, Alive, StalePid, TypeOK
  <1>13. ASSUME NEW p \in Processes, Crash(p)
       PROVE  StalePid(v, q)'
    BY <1>13
    DEF Crash, Ends, Alive, StalePid, TypeOK
  <1>14. ASSUME NEW w \in Workspaces, UserLock(w)
       PROVE  StalePid(v, q)'
    BY <1>14
    DEF UserLock, choice, StalePid, TypeOK
  <1>15. ASSUME NEW w \in Workspaces, UserUnlock(w)
       PROVE  StalePid(v, q)'
    BY <1>15
    DEF UserUnlock, choice, StalePid, TypeOK
  <1>16. ASSUME NEW p \in Processes, NEW w \in Workspaces, Age(p, w)
       PROVE  StalePid(v, q)'
    BY <1>16
    DEF Age, choice, StalePid, TypeOK
  <1>17. ASSUME SweepRead
       PROVE  StalePid(v, q)'
    BY <1>17
    DEF SweepRead, choice, StalePid, TypeOK
  <1>18. ASSUME SweepDelete
       PROVE  StalePid(v, q)'
    BY <1>18
    DEF SweepDelete, choice, StalePid, TypeOK
  <1>19. CASE UNCHANGED vars
    BY <1>19 DEF vars, choice, StalePid, TypeOK
  <1>20. QED
    BY <1>1, <1>2, <1>3, <1>4, <1>5, <1>6, <1>7, <1>8, <1>9, <1>10, <1>11, <1>12, <1>13,
       <1>14, <1>15, <1>16, <1>17, <1>18, <1>19
    DEF Next, ProcessStep

\* Whoever uses a workspace and is not among the losers when the row of w is written
\* uses another workspace, whose row is as it was.
LEMMA RowKept ==
    ASSUME TypeOK, LockHeld,
           NEW w, NEW o \in Processes \cup {User},
           \A v \in Workspaces \ {w} : lock'[v] = lock[v],
           (lost \ {o}) \cup Losers(w, o) \subseteq lost',
           NEW q \in Processes, NEW v \in Workspaces, q # o, Uses(q, v), q \notin lost'
    PROVE  lock'[v] # NoLock /\ lock'[v].by = q
  <1>1. lock[v] # NoLock /\ lock[v].by = q
    BY DEF LockHeld
  <1>2. v # w
    BY <1>1 DEF Losers
  <1>3. QED
    BY <1>1, <1>2

LEMMA HeldStep ==
    ASSUME TypeOK, HasChosen, LockHeld, [Next]_vars
    PROVE  LockHeld'
  <1> SUFFICES ASSUME NEW q \in Processes, NEW v \in Workspaces, Uses(q, v)', q \notin lost'
               PROVE  lock'[v] # NoLock /\ lock'[v].by = q
    BY DEF LockHeld
  <1>1. ASSUME NEW p \in Processes, Start(p)
       PROVE  lock'[v] # NoLock /\ lock'[v].by = q
    BY <1>1
    DEF Start, Uses, LockHeld, TypeOK
  <1>2. ASSUME NEW p \in Processes, NEW w \in Workspaces, ReadLock(p, w)
       PROVE  lock'[v] # NoLock /\ lock'[v].by = q
    BY <1>2
    DEF ReadLock, Choose, Uses, LockHeld, TypeOK
  <1>3. ASSUME NEW p \in Processes, NEW w \in Workspaces, BeginClear(p, w)
       PROVE  lock'[v] # NoLock /\ lock'[v].by = q
    <2>1. UNCHANGED <<lock, lost>>
      BY <1>3 DEF BeginClear
    <2>2. PICK to \in {"clearing", "acquiring", "selecting"} : phase' = [phase EXCEPT ![p] = to]
      BY <1>3 DEF BeginClear, Cleared, Choose
    <2>3. ws' = [ws EXCEPT ![p] = w] \/ UNCHANGED ws
      BY <1>3 DEF BeginClear, Cleared, Choose
    <2>4. Uses(q, v)
      BY <2>2, <2>3 DEF Uses, TypeOK
    <2>5. QED
      BY <2>1, <2>4 DEF LockHeld
  <1>4. ASSUME NEW p \in Processes, RemoveStale(p)
       PROVE  lock'[v] # NoLock /\ lock'[v].by = q
    <2>1. q # p /\ Uses(q, v)
      <3>1. PICK to \in {"acquiring", "selecting"} : phase' = [phase EXCEPT ![p] = to]
        BY <1>4 DEF RemoveStale, Cleared, Choose
      <3>2. ws' = [ws EXCEPT ![p] = ws[p]] \/ UNCHANGED ws
        BY <1>4 DEF RemoveStale, Cleared, Choose
      <3>3. QED
        BY <3>1, <3>2 DEF Uses, TypeOK
    <2>2. CASE lock[ws[p]] = PidLock(view[p][ws[p]])
      <3>1. q # User
        BY ModelAssumption
      <3>2. QED
        BY <1>4, <2>1, <2>2, <3>1, RowKept DEF RemoveStale, ReleaseSpecific, TypeOK
    <2>3. CASE lock[ws[p]] # PidLock(view[p][ws[p]])
      BY <1>4, <2>1, <2>3 DEF RemoveStale, ReleaseSpecific, LockHeld
    <2>4. QED
      BY <2>2, <2>3
  <1>5. ASSUME NEW p \in Processes, NEW w \in Workspaces, CreateWorkspace(p, w)
       PROVE  lock'[v] # NoLock /\ lock'[v].by = q
    BY <1>5
    DEF CreateWorkspace, Uses, LockHeld, TypeOK
  <1>6. ASSUME NEW p \in Processes, NEW w \in Workspaces, FallBack(p, w)
       PROVE  lock'[v] # NoLock /\ lock'[v].by = q
    BY <1>6
    DEF FallBack, Choose, Uses, LockHeld, TypeOK
  <1>7. ASSUME NEW p \in Processes, LockCreated(p)
       PROVE  lock'[v] # NoLock /\ lock'[v].by = q
    <2>1. q # p /\ Uses(q, v)
      BY <1>7 DEF LockCreated, Uses, TypeOK
    <2>2. CASE Free(ws[p])
      <3>1. lock' = [lock EXCEPT ![ws[p]] = Persistent(p)] /\ lost' = lost \cup Losers(ws[p], p)
        BY <1>7, <2>2 DEF LockCreated
      <3>2. \A u \in Workspaces \ {ws[p]} : lock'[u] = lock[u]
        BY <3>1 DEF TypeOK
      <3>3. QED
        BY <2>1, <3>1, <3>2, RowKept
    <2>3. CASE ~Free(ws[p])
      BY <1>7, <2>1, <2>3 DEF LockCreated, LockHeld
    <2>4. QED
      BY <2>2, <2>3
  <1>8. ASSUME NEW p \in Processes, Acquire(p)
       PROVE  lock'[v] # NoLock /\ lock'[v].by = q
    <2>1. CASE q = p
      BY <1>8, <2>1, NoLockAssumption, LockTypes
      DEF Acquire, Uses, TypeOK, choice, Settle, PidLock, Persistent
    <2>2. CASE q # p
      <3>1. Uses(q, v)
        BY <1>8, <2>2 DEF Acquire, Uses, TypeOK, choice
      <3>2. QED
        BY <1>8, <2>2, <3>1, RowKept DEF Acquire, TypeOK
    <2>3. QED
      BY <2>1, <2>2
  <1>9. ASSUME NEW p \in Processes, AcquireFails(p)
       PROVE  lock'[v] # NoLock /\ lock'[v].by = q
    BY <1>9
    DEF AcquireFails, TryAnother, Ends, Uses, LockHeld, TypeOK
  <1>10. ASSUME NEW p \in Processes, FinishSetup(p)
       PROVE  lock'[v] # NoLock /\ lock'[v].by = q
    BY <1>10
    DEF FinishSetup, Ends, choice, Uses, LockHeld, TypeOK
  <1>11. ASSUME NEW p \in Processes, FailSetup(p)
       PROVE  lock'[v] # NoLock /\ lock'[v].by = q
    <2>1. q # p /\ Uses(q, v)
      BY <1>11 DEF FailSetup, Ends, TryAnother, Uses, TypeOK
    <2>2. /\ lock' = [lock EXCEPT ![ws[p]] = NoLock]
          /\ lost' = (lost \ {p}) \cup Losers(ws[p], p)
      BY <1>11 DEF FailSetup, ForceRelease
    <2>3. \A u \in Workspaces \ {ws[p]} : lock'[u] = lock[u]
      BY <2>2 DEF TypeOK
    <2>4. QED
      BY <2>1, <2>2, <2>3, RowKept
  <1>12. ASSUME NEW p \in Processes, Exit(p)
       PROVE  lock'[v] # NoLock /\ lock'[v].by = q
    <2>1. q # p /\ Uses(q, v)
      BY <1>12 DEF Exit, Ends, Uses, TypeOK
    <2>2. lock[v] # NoLock /\ lock[v].by = q
      BY <1>12, <2>1 DEF Exit, LockHeld
    <2>3. QED
      BY <1>12, <2>1, <2>2 DEF Exit, PidLock
  <1>13. ASSUME NEW p \in Processes, Crash(p)
       PROVE  lock'[v] # NoLock /\ lock'[v].by = q
    BY <1>13
    DEF Crash, Ends, Uses, LockHeld, TypeOK
  <1>14. ASSUME NEW w \in Workspaces, UserLock(w)
       PROVE  lock'[v] # NoLock /\ lock'[v].by = q
    <2>1. q # User /\ Uses(q, v)
      BY <1>14, ModelAssumption DEF UserLock, choice, Uses
    <2>2. QED
      BY <1>14, <2>1, RowKept DEF UserLock, ForceRelease, TypeOK
  <1>15. ASSUME NEW w \in Workspaces, UserUnlock(w)
       PROVE  lock'[v] # NoLock /\ lock'[v].by = q
    <2>1. q # User /\ Uses(q, v)
      BY <1>15, ModelAssumption DEF UserUnlock, choice, Uses
    <2>2. QED
      BY <1>15, <2>1, RowKept DEF UserUnlock, ForceRelease, TypeOK
  <1>16. ASSUME NEW p \in Processes, NEW w \in Workspaces, Age(p, w)
       PROVE  lock'[v] # NoLock /\ lock'[v].by = q
    BY <1>16
    DEF Age, choice, Uses, LockHeld, TypeOK
  <1>17. ASSUME SweepRead
       PROVE  lock'[v] # NoLock /\ lock'[v].by = q
    BY <1>17
    DEF SweepRead, choice, Uses, LockHeld, TypeOK
  <1>18. ASSUME SweepDelete
       PROVE  lock'[v] # NoLock /\ lock'[v].by = q
    <2>1. q # User /\ Uses(q, v)
      BY <1>18, ModelAssumption DEF SweepDelete, choice, Uses
    <2>2. lock[v] # NoLock /\ lock[v].by = q
      BY <1>18, <2>1 DEF SweepDelete, LockHeld
    <2>3. v \notin Hits
      BY <1>18, <2>1, <2>2 DEF SweepDelete, Losers
    <2>4. QED
      BY <1>18, <2>2, <2>3 DEF SweepDelete
  <1>19. CASE UNCHANGED vars
    BY <1>19 DEF vars, choice, Uses, LockHeld
  <1>20. QED
    BY <1>1, <1>2, <1>3, <1>4, <1>5, <1>6, <1>7, <1>8, <1>9, <1>10, <1>11, <1>12, <1>13,
       <1>14, <1>15, <1>16, <1>17, <1>18, <1>19
    DEF Next, ProcessStep

LEMMA KnownStep ==
    ASSUME TypeOK, HasChosen, KnownStale, [Next]_vars
    PROVE  KnownStale'
  <1>1. ASSUME NEW q \in Processes, phase'[q] = "clearing"
        PROVE  /\ view'[q][ws'[q]] \in Processes
               /\ StalePid(ws[q], view[q][ws[q]])'
    <2>1. CASE \E w \in Workspaces : BeginClear(q, w) /\ Stale(w)
      <3>1. PICK w \in Workspaces : BeginClear(q, w) /\ Stale(w)
        BY <2>1
      <3>2. ws'[q] = w /\ view'[q][w] = lock[w].by /\ lock' = lock
        BY <3>1 DEF BeginClear, TypeOK
      <3>3. lock[w].by \in Processes /\ StalePid(w, lock[w].by)
        BY <3>1, LockTypes DEF Stale
      <3>4. StalePid(w, lock[w].by)'
        BY <3>1, <3>3, <3>2 DEF BeginClear, StalePid, TypeOK
      <3>5. QED
        BY <3>2, <3>3, <3>4 DEF StalePid
    <2>2. CASE phase[q] = "clearing" /\ ws'[q] = ws[q] /\ view'[q] = view[q]
      <3>1. ws[q] \in Workspaces
        BY <2>2 DEF HasChosen, ChosenAt
      <3>2. view[q][ws[q]] \in Processes /\ StalePid(ws[q], view[q][ws[q]])
        BY <2>2 DEF KnownStale
      <3>3. ASSUME NEW w \in Workspaces, NEW p \in Processes, StalePid(w, p)
            PROVE  phase'[p] = "gone" \/ <<p, w>> \in aged'
        BY <3>3, StaleForever DEF StalePid
      <3>4. QED
        BY <2>2, <3>1, <3>2, <3>3 DEF StalePid
    <2>3. \/ \E w \in Workspaces : BeginClear(q, w) /\ Stale(w)
          \/ phase[q] = "clearing" /\ ws'[q] = ws[q] /\ view'[q] = view[q]
      <3>1. ASSUME NEW p \in Processes, ProcessStep(p)
            PROVE  phase[q] = "clearing" /\ ws'[q] = ws[q] /\ view'[q] = view[q]
        BY <1>1, <3>1
        DEF ProcessStep, Start, RemoveStale, Cleared, Choose, LockCreated, Acquire, choice,
            AcquireFails, TryAnother, FinishSetup, FailSetup, Exit, Crash, Ends, Settle, TypeOK
      <3>2. ASSUME NEW p \in Processes, NEW w \in Workspaces,
                   ReadLock(p, w) \/ CreateWorkspace(p, w) \/ FallBack(p, w) \/ Age(p, w)
            PROVE  phase[q] = "clearing" /\ ws'[q] = ws[q] /\ view'[q] = view[q]
        BY <1>1, <3>2
        DEF ReadLock, Choose, CreateWorkspace, FallBack, Age, choice, TypeOK
      <3>3. ASSUME NEW p \in Processes, NEW w \in Workspaces, BeginClear(p, w)
            PROVE  \/ BeginClear(q, w) /\ Stale(w)
                   \/ phase[q] = "clearing" /\ ws'[q] = ws[q] /\ view'[q] = view[q]
        <4>1. CASE p = q
          BY <1>1, <3>3, <4>1 DEF BeginClear, Cleared, Choose, TypeOK
        <4>2. CASE p # q
          BY <1>1, <3>3, <4>2 DEF BeginClear, Cleared, Choose, TypeOK
        <4>3. QED
          BY <4>1, <4>2
      <3>4. ASSUME \/ \E w \in Workspaces : UserLock(w) \/ UserUnlock(w)
                   \/ SweepRead \/ SweepDelete \/ UNCHANGED vars
            PROVE  phase[q] = "clearing" /\ ws'[q] = ws[q] /\ view'[q] = view[q]
        BY <1>1, <3>4 DEF UserLock, UserUnlock, SweepRead, SweepDelete, choice, vars
      <3>5. QED
        BY <3>1, <3>2, <3>3, <3>4 DEF Next
    <2>4. QED
      BY <2>1, <2>2, <2>3
  <1>2. ASSUME NEW r \in swept'
        PROVE  StalePid(r[1], r[2])'
    <2>1. CASE r \in swept
      <3>1. r[1] \in Workspaces /\ r[2] \in Processes
        BY <2>1 DEF TypeOK
      <3>2. StalePid(r[1], r[2])
        BY <2>1 DEF KnownStale
      <3>3. QED
        BY <3>1, <3>2, StaleForever
    <2>2. CASE SweepRead
      BY <1>2, <2>2 DEF SweepRead, Stale, StalePid
    <2>3. CASE r \notin swept /\ ~SweepRead
      BY <1>2, <2>3
      DEF Next, ProcessStep, Start, ReadLock, BeginClear, RemoveStale, CreateWorkspace, FallBack,
          LockCreated, Acquire, AcquireFails, FinishSetup, FailSetup, Exit, Crash, UserLock,
          UserUnlock, Age, SweepDelete, vars
    <2>4. QED
      BY <2>1, <2>2, <2>3
  <1>3. QED
    BY <1>1, <1>2 DEF KnownStale, StalePid

LEMMA NextInv == IInv /\ [Next]_vars => IInv'
  BY TypeStep, HeldStep, KnownStep DEF IInv

\* The inductive invariant: the tables are well typed, users hold their locks or are
\* known to have lost them, and what is remembered as stale is stale.
THEOREM Invariance == Spec => []IInv
  BY InitInv, NextInv, PTL DEF Spec

\* The lock table and the processes keep their types: no process takes the owner of a
\* persistent lock for a process it may clear.
THEOREM TypeCorrectness == Spec => []TypeOK
  <1>1. IInv => TypeOK
    BY DEF IInv
  <1>2. QED
    BY <1>1, Invariance, PTL

\* Whoever works in a workspace has its lock or has been deprived of it.
THEOREM LockIsHeld == Spec => []LockHeld
  <1>1. IInv => LockHeld
    BY DEF IInv
  <1>2. QED
    BY <1>1, Invariance, PTL

\* Two processes that both still have their locks never work in one workspace.
THEOREM MutualExclusion == Spec => []Exclusive
  <1>1. IInv => Exclusive
    BY DEF IInv, LockHeld, Exclusive
  <1>2. QED
    BY <1>1, Invariance, PTL

LEMMA LossStep ==
    ASSUME IInv, Next, NEW p \in lost' \ lost
    PROVE  Explained(p)
  <1> USE DEF IInv
  <1>1. ASSUME NEW w \in Workspaces, NEW o, p \in Losers(w, o)
        PROVE  /\ p \in Processes /\ Uses(p, w) /\ ws[p] = w /\ p # o
               /\ lock[w] # NoLock /\ lock[w].by = p /\ phase[p] # "gone"
    BY <1>1 DEF Losers, Uses
  <1>2. ASSUME NEW w \in Workspaces, NEW o, p \in Losers(w, o), Stale(w)
        PROVE  Explained(p)
    BY <1>1, <1>2 DEF Stale, StalePid, Explained
  <1>3. ASSUME NEW q \in Processes, RemoveStale(q)
        PROVE  Explained(p)
    <2>1. ws[q] \in Workspaces
      BY <1>3 DEF RemoveStale, HasChosen, ChosenAt
    <2>2. p \in Losers(ws[q], User) /\ lock[ws[q]] = PidLock(view[q][ws[q]])
      BY <1>3 DEF RemoveStale, ReleaseSpecific
    <2>3. view[q][ws[q]] = p
      BY <1>1, <2>1, <2>2 DEF PidLock
    <2>4. StalePid(ws[q], p)
      BY <1>3, <2>3 DEF RemoveStale, KnownStale
    <2>5. QED
      BY <1>1, <2>1, <2>2, <2>4 DEF StalePid, Explained
  <1>4. ASSUME NEW q \in Processes, LockCreated(q)
        PROVE  Explained(p)
    <2>1. ws[q] \in Workspaces
      BY <1>4 DEF LockCreated, HasChosen, ChosenAt
    <2>2. p \in Losers(ws[q], q) /\ Free(ws[q])
      BY <1>4 DEF LockCreated
    <2>3. QED
      BY <1>1, <1>2, <2>1, <2>2 DEF Free
  <1>5. ASSUME NEW q \in Processes, Acquire(q)
        PROVE  Explained(p)
    <2>1. ws[q] \in Workspaces
      BY <1>5 DEF Acquire, HasChosen, ChosenAt
    <2>2. p \in Losers(ws[q], q)
      BY <1>5 DEF Acquire
    <2>3. CASE Free(ws[q])
      BY <1>1, <1>2, <2>1, <2>2, <2>3 DEF Free
    <2>4. CASE Transitions(q, ws[q])
      BY <1>1, <1>5, <2>1, <2>2, <2>4 DEF Transitions, Explained
    <2>5. QED
      BY <1>5, <2>3, <2>4 DEF Acquire
  <1>6. ASSUME NEW q \in Processes, FailSetup(q)
        PROVE  Explained(p)
    <2>1. ws[q] \in Workspaces
      BY <1>6 DEF FailSetup, HasChosen, ChosenAt
    <2>2. p \in Losers(ws[q], q)
      BY <1>6 DEF FailSetup, ForceRelease
    <2>3. ws[p] = ws[q] /\ p # q /\ lock[ws[q]].by = p
      BY <1>1, <2>1, <2>2
    <2>4. q \in lost
      BY <1>6, <2>1, <2>3 DEF FailSetup, LockHeld, Uses
    <2>5. QED
      BY <1>6, <2>3, <2>4 DEF Explained
  <1>7. ASSUME NEW w \in Workspaces, UserLock(w)
        PROVE  Explained(p)
    <2>1. p \in Losers(w, User) /\ Free(w)
      BY <1>7 DEF UserLock
    <2>2. QED
      BY <1>1, <1>2, <2>1 DEF Free
  <1>8. ASSUME NEW w \in Workspaces, UserUnlock(w)
        PROVE  Explained(p)
    <2>1. p \in Losers(w, User)
      BY <1>8 DEF UserUnlock, ForceRelease
    <2>2. QED
      BY <1>1, <1>8, <2>1 DEF Explained
  <1>9. ASSUME SweepDelete
        PROVE  Explained(p)
    <2>1. PICK w \in Hits : p \in Losers(w, User)
      BY <1>9 DEF SweepDelete
    <2>2. PICK q \in Processes : <<w, q>> \in swept /\ lock[w] = PidLock(q)
      BY DEF Hits
    <2>3. w \in Workspaces /\ q = p
      BY <1>1, <2>1, <2>2 DEF Hits, PidLock
    <2>4. StalePid(w, p)
      BY <2>2, <2>3 DEF KnownStale
    <2>5. QED
      BY <1>1, <2>1, <2>3, <2>4 DEF StalePid, Explained
  <1>10. ASSUME NEW q \in Processes, NEW w \in Workspaces,
                ReadLock(q, w) \/ BeginClear(q, w) \/ CreateWorkspace(q, w)
                \/ FallBack(q, w) \/ Age(q, w)
         PROVE  FALSE
    BY <1>10 DEF ReadLock, BeginClear, CreateWorkspace, FallBack, Age
  <1>11. ASSUME NEW q \in Processes,
                Start(q) \/ AcquireFails(q) \/ FinishSetup(q) \/ Exit(q) \/ Crash(q)
         PROVE  FALSE
    BY <1>11 DEF Start, AcquireFails, FinishSetup, Exit, Crash
  <1>12. ~SweepRead
    BY DEF SweepRead
  <1>13. QED
    BY <1>3, <1>4, <1>5, <1>6, <1>7, <1>8, <1>9, <1>10, <1>11, <1>12 DEF Next, ProcessStep

\* A process loses its lock only to a day's age, to the user, to a failing set-up that
\* had lost the lock before, or as a reuse to the creator of the workspace.
THEOREM LossesAreExplained == Spec => LossExplained
  <1>1. IInv /\ [Next]_vars => [\A p \in lost' \ lost : Explained(p)]_vars
    BY LossStep
  <1>2. QED
    BY <1>1, Invariance, PTL DEF Spec, LossExplained

=============================================================================
