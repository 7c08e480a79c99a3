-------------------------- MODULE SyncApplyProofs --------------------------
(***************************************************************************)
(* Proofs about SyncApply, for every number of nodes, projects, operations *)
(* and mutations: its variables keep their types, the log replays every    *)
(* origin in issue order, a decided operation stays decided, an operation  *)
(* takes effect by one path only, what its origin was told agrees with     *)
(* what was done, and a batch is decided as one.                           *)
(***************************************************************************)
EXTENDS SyncApply, SequenceTheorems, FiniteSetTheorems, TLAPS

-----------------------------------------------------------------------------
(* The inductive invariant.                                                *)

\* A direct mutation is only ever logged by markOperationApplied.
LoggedOnlyApplied(d) ==
    \A i \in DOMAIN d.log : ~d.log[i].resolution => d.row[d.log[i].op] = "applied"

SoundDb(d) == OriginOrder(d) /\ LoggedOnlyApplied(d)

\* Every slot of an issued unit has been issued.
UnitsIssued ==
    \A o \in Ops : content[o] \in Contents =>
        /\ content[o].last < MaxOps
        /\ \A p \in BatchOps(Origin(o), content[o].first, content[o].last) :
              content[p] \in Contents

\* The applyBatch call in progress holds an issued batch of which no row is committed,
\* and its uncommitted tables are sound and follow the committed ones.
SoundTxn ==
    txn # NoTxn =>
        /\ \A p \in BatchOps(txn.node, txn.first, txn.last) :
              content[p] \in Contents /\ db.row[p] = "none"
        /\ txn.first <= txn.next
        /\ Running => /\ SoundDb(txn.work)
                      /\ Follows(db, txn.work)
                      /\ \A s \in txn.first .. txn.next - 1 :
                            txn.work.row[<<txn.node, s>>] \in Terminal

IInv == TypeOK /\ SoundDb(db) /\ UnitsIssued /\ SoundTxn

-----------------------------------------------------------------------------
(* Lemmas about the log and the tables.                                    *)

\* Appending n copies of an entry keeps what the log held.
LEMMA AppendCopies ==
    ASSUME NEW S, NEW s \in Seq(S), NEW n \in Nat, NEW e \in S
    PROVE  LET t == s \o [i \in 1 .. n |-> e]
           IN  /\ t \in Seq(S)
               /\ Len(t) = Len(s) + n
               /\ DOMAIN t = 1 .. Len(s) + n
               /\ \A i \in 1 .. Len(s) : t[i] = s[i]
               /\ \A i \in Len(s) + 1 .. Len(s) + n : t[i] = e
<1> DEFINE c == [i \in 1 .. n |-> e]
           t == s \o c
<1>1. c \in Seq(S)
  <2>1. c \in [1 .. n -> S]
    OBVIOUS
  <2> QED
    BY <2>1, SeqDef
<1>2. Len(c) = n
  <2>1. Len(c) \in Nat /\ DOMAIN c = 1 .. Len(c)
    BY <1>1, LenProperties
  <2>2. DOMAIN c = 1 .. n
    OBVIOUS
  <2>3. \A i \in Int : i \in 1 .. Len(c) <=> i \in 1 .. n
    BY <2>1, <2>2
  <2>4. Len(c) >= n /\ Len(c) <= n
    BY <2>1, <2>3
  <2> QED
    BY <2>1, <2>4
<1>3. \A i \in 1 .. n : c[i] = e
  OBVIOUS
<1> HIDE DEF c
<1>4. /\ t \in Seq(S)
      /\ Len(t) = Len(s) + n
      /\ \A i \in 1 .. Len(s) + n : t[i] = IF i <= Len(s) THEN s[i] ELSE c[i - Len(s)]
  BY <1>1, <1>2, ConcatProperties
<1>5. Len(s) \in Nat /\ DOMAIN t = 1 .. Len(t)
  BY <1>4, LenProperties
<1> HIDE DEF t
<1>6. \A i \in 1 .. Len(s) : t[i] = s[i]
  BY <1>4, <1>5
<1>7. \A i \in Len(s) + 1 .. Len(s) + n : t[i] = e
  BY <1>3, <1>4, <1>5
<1>8. t \in Seq(S) /\ Len(t) = Len(s) + n /\ DOMAIN t = 1 .. Len(s) + n
  BY <1>4, <1>5
<1> QED
  BY <1>6, <1>7, <1>8 DEF t, c

\* An operation is its origin and its local sequence number.
LEMMA OpParts ==
    ASSUME NEW op \in Ops
    PROVE  /\ op = <<Origin(op), LocalSequence(op)>>
           /\ Origin(op) \in Nodes
           /\ LocalSequence(op) \in Slots
           /\ LocalSequence(op) \in Nat
<1>1. op = <<op[1], op[2]>> /\ op[1] \in Nodes /\ op[2] \in Slots
  BY DEF Ops
<1>2. Slots \subseteq Nat
  BY BoundsAssumption DEF Slots
<1> QED
  BY <1>1, <1>2 DEF Origin, LocalSequence

\* The types of the parts of the tables.
LEMMA DatabaseParts ==
    ASSUME NEW d \in Databases
    PROVE  /\ d.row \in [Ops -> RowStatus]
           /\ d.log \in Seq(LogEntries)
           /\ Len(d.log) \in Nat
           /\ DOMAIN d.log = 1 .. Len(d.log)
           /\ \A i \in DOMAIN d.log : /\ d.log[i] \in LogEntries
                                      /\ d.log[i].op \in Ops
                                      /\ d.log[i].resolution \in BOOLEAN
<1>1. d.row \in [Ops -> RowStatus] /\ d.log \in Seq(LogEntries)
  BY DEF Databases
<1>2. Len(d.log) \in Nat /\ DOMAIN d.log = 1 .. Len(d.log)
  BY <1>1, LenProperties
<1>3. \A i \in DOMAIN d.log : d.log[i] \in LogEntries
  BY <1>1, <1>2, ElementOfSeq
<1> QED
  BY <1>1, <1>2, <1>3 DEF LogEntries

\* Tables follow themselves.
LEMMA FollowsReflexive ==
    ASSUME NEW d \in Databases
    PROVE  Follows(d, d)
BY DatabaseParts DEF Follows

\* Following is transitive, so the tables of a batch follow the committed ones.
LEMMA FollowsTransitive ==
    ASSUME NEW d \in Databases, NEW e \in Databases, NEW f \in Databases,
           Follows(d, e), Follows(e, f)
    PROVE  Follows(d, f)
<1>1. /\ Len(d.log) \in Nat /\ DOMAIN d.log = 1 .. Len(d.log)
      /\ Len(e.log) \in Nat /\ DOMAIN e.log = 1 .. Len(e.log)
      /\ Len(f.log) \in Nat /\ DOMAIN f.log = 1 .. Len(f.log)
  BY LenProperties DEF Databases
<1>2. \A i \in DOMAIN f.log : f.log[i] \in LogEntries
  BY <1>1, ElementOfSeq DEF Databases
<1>3. \A op \in Ops : d.row[op] \in Terminal =>
          f.row[op] \in Terminal /\ Recorded(f.row[op]) = Recorded(d.row[op])
  BY DEF Follows
<1>4. Len(d.log) <= Len(f.log)
  BY <1>1 DEF Follows
<1>5. \A i \in DOMAIN d.log : f.log[i] = d.log[i]
  BY <1>1 DEF Follows
<1>6. ASSUME NEW i \in DOMAIN f.log \ DOMAIN d.log
      PROVE  f.log[i].resolution \/ d.row[f.log[i].op] \notin Terminal
  <2>1. CASE i \in DOMAIN e.log
    BY <1>1, <2>1, <1>6 DEF Follows
  <2>2. CASE i \notin DOMAIN e.log
    BY <1>2, <2>2, <1>6 DEF Follows, LogEntries
  <2> QED
    BY <2>1, <2>2
<1> QED
  BY <1>3, <1>4, <1>5, <1>6 DEF Follows

\* Deciding an undecided operation without logging anything.
LEMMA RowChange ==
    ASSUME NEW d \in Databases, NEW e \in Databases, NEW op \in Ops,
           NEW status \in RowStatus, SoundDb(d), d.row[op] \notin Terminal,
           e.row = [d.row EXCEPT ![op] = status], e.log = d.log
    PROVE  SoundDb(e) /\ Follows(d, e)
<1>1. Len(d.log) \in Nat /\ d.row \in [Ops -> RowStatus]
  BY LenProperties DEF Databases
<1>2. \A o \in Ops : d.row[o] \in Terminal => e.row[o] = d.row[o]
  BY <1>1
<1>3. Follows(d, e)
  BY <1>1, <1>2 DEF Follows
<1>4. \A i \in DOMAIN d.log : d.log[i].op \in Ops
  BY DatabaseParts
<1>5. LoggedOnlyApplied(e)
  BY <1>2, <1>4 DEF SoundDb, LoggedOnlyApplied, Terminal
<1> QED
  BY <1>3, <1>5 DEF SoundDb, OriginOrder

\* Moving rows without touching the log or a recorded verdict.
LEMMA SameLog ==
    ASSUME NEW d \in Databases, NEW e \in Databases, SoundDb(d), e.log = d.log,
           \A op \in Ops : d.row[op] \in Terminal =>
              e.row[op] \in Terminal /\ Recorded(e.row[op]) = Recorded(d.row[op])
    PROVE  SoundDb(e) /\ Follows(d, e)
<1>1. \A i \in DOMAIN d.log : d.log[i].op \in Ops
  BY DatabaseParts
<1>2. \A op \in Ops : d.row[op] = "applied" => e.row[op] = "applied"
  BY DEF Terminal, Recorded
<1>3. LoggedOnlyApplied(e)
  BY <1>1, <1>2 DEF SoundDb, LoggedOnlyApplied
<1>4. Follows(d, e)
  BY DatabaseParts DEF Follows
<1> QED
  BY <1>3, <1>4 DEF SoundDb, OriginOrder

\* Applying an undecided operation: in turn if it logs anything.
LEMMA DirectEffect ==
    ASSUME NEW d \in Databases, NEW e \in Databases, NEW op \in Ops, NEW n \in Nat,
           SoundDb(d), d.row[op] \notin Terminal, n = 0 \/ InTurn(d, op),
           e.row = [d.row EXCEPT ![op] = "applied"],
           e.log = d.log \o [i \in 1 .. n |-> [op |-> op, resolution |-> FALSE]]
    PROVE  SoundDb(e) /\ Follows(d, e)
<1> DEFINE entry == [op |-> op, resolution |-> FALSE]
<1>1. /\ Len(d.log) \in Nat /\ DOMAIN d.log = 1 .. Len(d.log)
      /\ d.row \in [Ops -> RowStatus] /\ d.log \in Seq(LogEntries)
  BY LenProperties DEF Databases
<1>2. entry \in LogEntries
  BY DEF LogEntries
<1>3. /\ Len(e.log) = Len(d.log) + n
      /\ DOMAIN e.log = 1 .. Len(d.log) + n
      /\ \A i \in 1 .. Len(d.log) : e.log[i] = d.log[i]
      /\ \A i \in Len(d.log) + 1 .. Len(d.log) + n : e.log[i] = entry
  BY <1>1, <1>2, AppendCopies
<1>4. \A i \in DOMAIN d.log : d.log[i].op \in Ops /\ d.log[i].resolution \in BOOLEAN
  BY DatabaseParts
<1>5. \A o \in Ops : d.row[o] \in Terminal => e.row[o] = d.row[o]
  BY <1>1
<1>6. e.row[op] = "applied"
  BY <1>1
<1>7. Follows(d, e)
  BY <1>1, <1>3, <1>5 DEF Follows
<1>8. LoggedOnlyApplied(e)
  <2> SUFFICES ASSUME NEW i \in DOMAIN e.log, ~e.log[i].resolution
               PROVE  e.row[e.log[i].op] = "applied"
    BY DEF LoggedOnlyApplied
  <2>1. CASE i \in DOMAIN d.log
    <3>1. e.log[i] = d.log[i]
      BY <1>1, <1>3, <2>1
    <3>2. d.row[d.log[i].op] = "applied"
      BY <2>1, <3>1 DEF SoundDb, LoggedOnlyApplied
    <3> QED
      BY <1>4, <1>5, <2>1, <3>1, <3>2 DEF Terminal
  <2>2. CASE i \notin DOMAIN d.log
    BY <1>1, <1>3, <1>6, <2>2
  <2> QED
    BY <2>1, <2>2
<1>9. OriginOrder(e)
  <2> SUFFICES ASSUME NEW i \in DOMAIN e.log, NEW j \in DOMAIN e.log, i < j,
                      ~e.log[i].resolution, ~e.log[j].resolution,
                      Origin(e.log[i].op) = Origin(e.log[j].op)
               PROVE  LocalSequence(e.log[i].op) <= LocalSequence(e.log[j].op)
    BY DEF OriginOrder
  <2>1. CASE j <= Len(d.log)
    <3>1. i \in DOMAIN d.log /\ j \in DOMAIN d.log
          /\ e.log[i] = d.log[i] /\ e.log[j] = d.log[j]
      BY <1>1, <1>3, <2>1
    <3> QED
      BY <3>1 DEF SoundDb, OriginOrder
  <2>2. CASE j > Len(d.log) /\ i > Len(d.log)
    BY <1>1, <1>3, <2>2 DEF LocalSequence, Ops, Slots
  <2>3. CASE j > Len(d.log) /\ i <= Len(d.log)
    <3> DEFINE a == d.log[i].op
    <3>1. /\ i \in DOMAIN d.log /\ e.log[i] = d.log[i] /\ e.log[j] = entry
          /\ InTurn(d, op)
      BY <1>1, <1>3, <2>3
    <3>2. a \in Ops /\ d.row[a] = "applied" /\ Origin(a) = Origin(op)
      BY <1>4, <3>1 DEF SoundDb, LoggedOnlyApplied
    <3>3. a = <<Origin(op), LocalSequence(a)>> /\ LocalSequence(a) \in Slots
      BY <3>2, OpParts
    <3>4. LocalSequence(a) # LocalSequence(op)
      <4>1. a # op
        BY <3>2 DEF Terminal
      <4>2. op = <<Origin(op), LocalSequence(op)>>
        BY OpParts
      <4> HIDE DEF a
      <4> QED
        BY <3>3, <4>1, <4>2
    <3>5. LocalSequence(a) \in Settled(d, op)
      BY <3>2, <3>3, <3>4 DEF Settled, Terminal
    <3>6. LocalSequence(a) < LocalSequence(op)
      BY <3>1, <3>5 DEF InTurn
    <3>7. LocalSequence(op) \in Nat /\ LocalSequence(a) \in Nat
      BY <3>2, OpParts
    <3> QED
      BY <3>1, <3>6, <3>7
  <2> QED
    BY <1>1, <1>3, <2>1, <2>2, <2>3
<1> QED
  BY <1>7, <1>8, <1>9 DEF SoundDb

\* Whatever an operation in hand comes to, it leaves sound tables that follow the ones
\* it found, and it is either final or one of the two outcomes that roll back.
LEMMA OutcomesSound ==
    ASSUME NEW d \in Databases, SoundDb(d), NEW op \in Ops, content[op] \in Contents,
           NEW r \in Outcomes(d, op)
    PROVE  /\ r.db \in Databases
           /\ SoundDb(r.db)
           /\ Follows(d, r.db)
           /\ r.status \in Verdicts \cup {"invalid", "deferred"}
           /\ r.status = "deferred" \/ r.status = "invalid"
              \/ (r.db.row[op] \in Terminal /\ Recorded(r.db.row[op]) = r.status)
<1> DEFINE c == content[op]
<1>1. /\ d.row \in [Ops -> RowStatus] /\ d.log \in Seq(LogEntries)
      /\ d.projects \subseteq Projects /\ d.open \subseteq Ops
      /\ d = [row |-> d.row, projects |-> d.projects, open |-> d.open, log |-> d.log]
  BY DEF Databases
<1>2. c.kind \in Kinds /\ c.project \in Projects
  BY DEF Contents
<1>3. Follows(d, d)
  BY FollowsReflexive
<1>4. CASE d.row[op] \in Terminal
  <2>1. r = Result(d, Recorded(d.row[op]))
    BY <1>4 DEF Outcomes
  <2>2. Recorded(d.row[op]) \in Verdicts
    BY <1>4 DEF Recorded, Terminal, Verdicts
  <2> QED
    BY <1>3, <1>4, <2>1, <2>2 DEF Result
<1>5. CASE d.row[op] \notin Terminal
  <2>1. ASSUME NEW e \in Databases, NEW status \in {"received", "conflict", "rejected"},
               e.row = [d.row EXCEPT ![op] = status], e.log = d.log
        PROVE  SoundDb(e) /\ Follows(d, e) /\ e.row[op] = status
    <3>1. status \in RowStatus
      BY DEF RowStatus, Terminal
    <3> QED
      BY <1>1, <1>5, <2>1, <3>1, RowChange
  <2>2. ASSUME NEW ps \in SUBSET Projects, NEW n \in Nat, n = 0 \/ InTurn(d, op),
               r = MarkApplied([d EXCEPT !.projects = ps], op, n)
        PROVE  /\ r.db \in Databases /\ SoundDb(r.db) /\ Follows(d, r.db)
               /\ r.status = "applied" /\ r.db.row[op] = "applied"
    <3> DEFINE copies == [i \in 1 .. n |-> [op |-> op, resolution |-> FALSE]]
    <3>1. r = [db |-> [row |-> [d.row EXCEPT ![op] = "applied"], projects |-> ps,
                       open |-> d.open, log |-> d.log \o copies],
               status |-> "applied"]
      BY <1>1, <2>2 DEF MarkApplied, Result, LogMutations, SetRow
    <3>2. d.log \o copies \in Seq(LogEntries)
      <4> DEFINE entry == [op |-> op, resolution |-> FALSE]
      <4>1. entry \in LogEntries
        BY DEF LogEntries
      <4>2. ASSUME NEW e \in LogEntries
            PROVE  d.log \o [i \in 1 .. n |-> e] \in Seq(LogEntries)
        BY <1>1, AppendCopies
      <4> QED
        BY <4>1, <4>2, Zenon
    <3>3. [d.row EXCEPT ![op] = "applied"] \in [Ops -> RowStatus]
      BY <1>1 DEF RowStatus, Terminal
    <3>4. r.db \in Databases
      BY <1>1, <3>1, <3>2, <3>3 DEF Databases
    <3>5. r.db.row = [d.row EXCEPT ![op] = "applied"] /\ r.db.log = d.log \o copies
      BY <3>1
    <3>6. SoundDb(r.db) /\ Follows(d, r.db)
      BY <1>5, <2>2, <3>4, <3>5, DirectEffect, Zenon
    <3> QED
      BY <1>1, <3>1, <3>4, <3>6
  <2>3. CASE UnknownProject(d, op)
    <3>1. r = Unknown(d, op)
      BY <1>5, <2>3 DEF Outcomes
    <3>2. CASE c.kind = "delete"
      <4>1. d = [d EXCEPT !.projects = d.projects]
        BY <1>1
      <4>2. r = MarkApplied([d EXCEPT !.projects = d.projects], op, 0)
        BY <3>1, <3>2, <4>1 DEF Unknown
      <4> QED
        BY <1>1, <2>2, <4>2 DEF Verdicts, Terminal, Recorded
    <3>3. CASE c.kind # "delete"
      <4>1. r = Result(SetRow(d, op, "rejected"), "rejected")
        BY <3>1, <3>3 DEF Unknown
      <4>2. r.db \in Databases /\ r.db.row = [d.row EXCEPT ![op] = "rejected"]
            /\ r.db.log = d.log /\ r.status = "rejected"
        BY <1>1, <4>1 DEF Result, SetRow, Databases, RowStatus, Terminal
      <4> QED
        BY <2>1, <4>2 DEF Verdicts, Terminal, Recorded
    <3> QED
      BY <3>2, <3>3
  <2>4. CASE ~UnknownProject(d, op)
    <3>1. r \in CheckFifo(d, op)
      BY <1>5, <2>4 DEF Outcomes
    <3>2. CASE Overtaken(d, op)
      BY <1>3, <3>1, <3>2 DEF CheckFifo, Result
    <3>3. CASE ~Overtaken(d, op) /\ ~InTurn(d, op)
      <4>1. r = Result(SetRow(d, op, "received"), "deferred")
        BY <3>1, <3>3 DEF CheckFifo
      <4>2. r.db \in Databases /\ r.db.row = [d.row EXCEPT ![op] = "received"]
            /\ r.db.log = d.log /\ r.status = "deferred"
        BY <1>1, <4>1 DEF Result, SetRow, Databases, RowStatus
      <4> QED
        BY <2>1, <4>2
    <3>4. CASE ~Overtaken(d, op) /\ InTurn(d, op)
      <4>1. r \in Payload(d, op)
        BY <3>1, <3>4 DEF CheckFifo
      <4>2. CASE c.kind = "upsert"
        <5>1. CASE r = Result(d, "invalid")
          BY <1>3, <5>1 DEF Result
        <5>2. ASSUME NEW ps \in Announced(d, c.project),
                     r = MarkApplied([d EXCEPT !.projects = ps], op, 1)
              PROVE  /\ r.db \in Databases /\ SoundDb(r.db) /\ Follows(d, r.db)
                     /\ r.status = "applied" /\ r.db.row[op] = "applied"
          <6>1. ps \in SUBSET Projects
            BY <1>1, <1>2 DEF Announced
          <6> QED
            BY <2>2, <3>4, <5>2, <6>1 DEF Verdicts, Terminal, Recorded
        <5> QED
          BY <4>1, <4>2, <5>1, <5>2 DEF Payload, Verdicts, Terminal, Recorded
      <4>3. CASE c.kind = "delete"
        <5>1. r = MarkApplied([d EXCEPT !.projects = @ \ {c.project}], op, 1)
          BY <4>1, <4>3 DEF Payload
        <5>2. d.projects \ {c.project} \in SUBSET Projects
          BY <1>1
        <5> QED
          BY <2>2, <3>4, <5>1, <5>2 DEF Verdicts, Terminal, Recorded
      <4>4. CASE c.kind = "edit"
        <5>1. ASSUME NEW n \in 0 .. MaxMutations, r = MarkApplied(d, op, n)
              PROVE  /\ r.db \in Databases /\ SoundDb(r.db) /\ Follows(d, r.db)
                     /\ r.status = "applied" /\ r.db.row[op] = "applied"
          <6>1. d = [d EXCEPT !.projects = d.projects]
            BY <1>1
          <6>2. r = MarkApplied([d EXCEPT !.projects = d.projects], op, n)
            BY <5>1, <6>1
          <6> QED
            BY <1>1, <2>2, <3>4, <6>2
        <5>2. CASE r = Result([SetRow(d, op, "conflict") EXCEPT !.open = @ \cup {op}],
                              "conflict")
          <6>1. r.db \in Databases /\ r.db.row = [d.row EXCEPT ![op] = "conflict"]
                /\ r.db.log = d.log /\ r.status = "conflict"
            BY <1>1, <5>2 DEF Result, SetRow, Databases, RowStatus, Terminal
          <6> QED
            BY <2>1, <6>1 DEF Verdicts, Terminal, Recorded
        <5>3. CASE r = Result(SetRow(d, op, "rejected"), "rejected")
          <6>1. r.db \in Databases /\ r.db.row = [d.row EXCEPT ![op] = "rejected"]
                /\ r.db.log = d.log /\ r.status = "rejected"
            BY <1>1, <5>3 DEF Result, SetRow, Databases, RowStatus, Terminal
          <6> QED
            BY <2>1, <6>1 DEF Verdicts, Terminal, Recorded
        <5> QED
          BY <4>1, <4>4, <5>1, <5>2, <5>3 DEF Payload, Verdicts, Terminal, Recorded
      <4> QED
        BY <1>2, <4>2, <4>3, <4>4 DEF Kinds
    <3> QED
      BY <3>2, <3>3, <3>4
  <2> QED
    BY <2>3, <2>4
<1> QED
  BY <1>4, <1>5

-----------------------------------------------------------------------------
(* The inductive argument.                                                 *)

\* Issuing an operation or a batch keeps the invariant.
LEMMA IssueKeeps ==
    ASSUME IInv, NEW n \in Nodes, NEW len \in Nat \ {0}, NEW kinds \in [1 .. len -> Kinds],
           NEW p \in Projects, NEW batched \in BOOLEAN, NEW atomic \in BOOLEAN,
           Issue(n, kinds, p, batched, atomic), Len(kinds) = len
    PROVE  IInv'
<1> DEFINE first == nextSequence[n]
           last == first + len - 1
           unit == [i \in 1 .. len |-> [kind |-> kinds[i], project |-> p,
                       first |-> first, last |-> last,
                       batched |-> batched, atomic |-> atomic]]
<1>1. /\ first \in Nat /\ first \in 0 .. MaxOps /\ last < MaxOps
      /\ nextSequence' = [nextSequence EXCEPT ![n] = last + 1]
      /\ UNCHANGED <<db, txn, told>>
  BY BoundsAssumption DEF IInv, TypeOK, Issue
<1>2. first \in Slots /\ last \in Slots
  BY <1>1, BoundsAssumption DEF Slots
<1>3. \A i \in 1 .. len : unit[i] \in Contents
  BY <1>2 DEF Contents
<1>4. content' = [op \in Ops |->
          IF Origin(op) = n /\ LocalSequence(op) \in first .. last
            THEN unit[LocalSequence(op) - first + 1] ELSE content[op]]
  <2>1. ASSUME NEW op \in Ops, LocalSequence(op) \in first .. last
        PROVE  LocalSequence(op) - first + 1 \in 1 .. len
    BY <1>1, <2>1, OpParts
  <2> QED
    BY <1>1, <2>1 DEF Issue
<1>5. \A op \in Ops :
          IF Origin(op) = n /\ LocalSequence(op) \in first .. last
            THEN content'[op] \in Contents /\ content'[op].first = first
                 /\ content'[op].last = last
            ELSE content'[op] = content[op]
  <2> SUFFICES ASSUME NEW op \in Ops, Origin(op) = n, LocalSequence(op) \in first .. last
               PROVE  content'[op] \in Contents /\ content'[op].first = first
                      /\ content'[op].last = last
    BY <1>4
  <2>1. LocalSequence(op) - first + 1 \in 1 .. len
    BY <1>1, OpParts
  <2>2. content'[op] = unit[LocalSequence(op) - first + 1]
    BY <1>4
  <2> QED
    BY <1>3, <2>1, <2>2
<1> HIDE DEF unit
<1>6. TypeOK'
  <2>1. nextSequence' \in [Nodes -> 0 .. MaxOps]
    BY <1>1, BoundsAssumption DEF IInv, TypeOK
  <2>2. content' \in [Ops -> Contents \cup {NoContent}]
    BY <1>4, <1>5 DEF IInv, TypeOK
  <2> QED
    BY <1>1, <2>1, <2>2 DEF IInv, TypeOK
<1>7. \A op \in Ops : content[op] \in Contents => content'[op] \in Contents
  BY <1>5
<1>8. UnitsIssued'
  <2> SUFFICES ASSUME NEW o \in Ops, content'[o] \in Contents
               PROVE  /\ content'[o].last < MaxOps
                      /\ \A q \in BatchOps(Origin(o), content'[o].first, content'[o].last) :
                            content'[q] \in Contents
    BY DEF UnitsIssued
  <2>1. CASE Origin(o) = n /\ LocalSequence(o) \in first .. last
    <3>1. content'[o].first = first /\ content'[o].last = last
      BY <1>5, <2>1
    <3>2. ASSUME NEW q \in BatchOps(n, first, last) PROVE content'[q] \in Contents
      <4>1. PICK s \in first .. last : q = <<n, s>>
        BY <3>2 DEF BatchOps
      <4>2. s \in Slots
        BY <1>1, BoundsAssumption DEF Slots
      <4>3. q \in Ops /\ Origin(q) = n /\ LocalSequence(q) = s
        BY <4>1, <4>2 DEF Ops, Origin, LocalSequence
      <4> QED
        BY <1>5, <4>3
    <3> QED
      BY <1>1, <2>1, <3>1, <3>2
  <2>2. CASE ~(Origin(o) = n /\ LocalSequence(o) \in first .. last)
    <3>1. content'[o] = content[o]
      BY <1>5, <2>2
    <3>2. /\ content[o].last < MaxOps
          /\ \A q \in BatchOps(Origin(o), content[o].first, content[o].last) :
                content[q] \in Contents
      BY <3>1 DEF IInv, UnitsIssued
    <3>3. BatchOps(Origin(o), content[o].first, content[o].last) \subseteq Ops
      BY <3>1, OpParts, BoundsAssumption DEF BatchOps, Ops, Slots, Contents
    <3> QED
      BY <1>7, <3>1, <3>2, <3>3
  <2> QED
    BY <2>1, <2>2
<1>9. SoundTxn'
  <2> SUFFICES ASSUME txn # NoTxn
               PROVE  \A q \in BatchOps(txn.node, txn.first, txn.last) :
                          content'[q] \in Contents
    BY <1>1 DEF IInv, SoundTxn, Running, SoundDb, OriginOrder, LoggedOnlyApplied, Follows
  <2>1. txn \in Txns
    BY DEF IInv, TypeOK
  <2>2. BatchOps(txn.node, txn.first, txn.last) \subseteq Ops
    BY <2>1, BoundsAssumption DEF Txns, BatchOps, Ops, Slots
  <2> QED
    BY <1>7, <2>2 DEF IInv, SoundTxn
<1> QED
  BY <1>1, <1>6, <1>8, <1>9 DEF IInv, SoundDb, OriginOrder, LoggedOnlyApplied

\* Steps that leave the issued operations alone: what is left to show of them.
LEMMA ServerKeeps ==
    ASSUME IInv, UNCHANGED <<nextSequence, content>>,
           db' \in Databases, SoundDb(db)', Follows(db, db'),
           txn' \in Txns \cup {NoTxn}, SoundTxn', told' \in [Ops -> SUBSET Verdicts]
    PROVE  IInv' /\ Follows(db, db')
<1>1. TypeOK'
  BY DEF IInv, TypeOK
<1>2. UnitsIssued'
  BY DEF IInv, UnitsIssued
<1> QED
  BY <1>1, <1>2 DEF IInv

\* A step of another process, which keeps the rows that do not exist.
LEMMA IdleTxn ==
    ASSUME IInv, UNCHANGED <<content, txn>>, ~Running,
           \A op \in Ops : db.row[op] = "none" => db'.row[op] = "none"
    PROVE  SoundTxn'
<1> SUFFICES ASSUME txn # NoTxn
             PROVE  \A p \in BatchOps(txn.node, txn.first, txn.last) :
                       content[p] \in Contents /\ db'.row[p] = "none"
  BY DEF IInv, SoundTxn, Running
<1>1. txn \in Txns
  BY DEF IInv, TypeOK
<1>2. BatchOps(txn.node, txn.first, txn.last) \subseteq Ops
  BY <1>1, BoundsAssumption DEF Txns, BatchOps, Ops, Slots
<1> QED
  BY <1>2 DEF IInv, SoundTxn

\* The initial states satisfy the invariant.
LEMMA InitSound == Init => IInv
<1> SUFFICES ASSUME Init PROVE IInv
  OBVIOUS
<1>1. PICK ps \in SUBSET Projects : db = [EmptyDb EXCEPT !.projects = ps]
  BY DEF Init
<1>2. db = [row |-> [op \in Ops |-> "none"], projects |-> ps, open |-> {}, log |-> <<>>]
  BY <1>1 DEF EmptyDb
<1>3. db \in Databases /\ DOMAIN db.log = {}
  BY <1>2 DEF Databases, RowStatus
<1>4. SoundDb(db)
  BY <1>3 DEF SoundDb, OriginOrder, LoggedOnlyApplied
<1>5. TypeOK
  BY <1>3, BoundsAssumption DEF Init, TypeOK
<1>6. UnitsIssued \/ \E o \in Ops : content[o] \in Contents
  BY DEF UnitsIssued
<1>7. ASSUME NEW o \in Ops, content[o] \in Contents, NoContent \in Contents
      PROVE  FALSE
  BY <1>7, NoContentAssumption
<1> QED
  BY <1>4, <1>5, <1>6, <1>7 DEF Init, IInv, SoundTxn

\* Every step keeps the invariant, and the tables it leaves follow those it found.
LEMMA StepSound == IInv /\ [Next]_vars => IInv' /\ Follows(db, db')
<1> SUFFICES ASSUME IInv, [Next]_vars PROVE IInv' /\ Follows(db, db')
  OBVIOUS
<1>1. db \in Databases /\ SoundDb(db) /\ Follows(db, db)
  BY FollowsReflexive DEF IInv, TypeOK
<1>2. ASSUME NEW n \in Nodes, IssueOperation(n) PROVE IInv' /\ Follows(db, db')
  <2>1. PICK k \in Kinds, p \in Projects : Issue(n, <<k>>, p, FALSE, FALSE)
    BY <1>2 DEF IssueOperation
  <2> DEFINE kinds == <<k>>
  <2>0. Issue(n, kinds, p, FALSE, FALSE)
    BY <2>1
  <2>2. kinds \in [1 .. 1 -> Kinds] /\ Len(kinds) = 1 /\ 1 \in Nat \ {0}
    OBVIOUS
  <2> HIDE DEF kinds
  <2>3. IInv'
    BY <2>0, <2>2, IssueKeeps
  <2> QED
    BY <1>1, <2>1, <2>3 DEF Issue
<1>3. ASSUME NEW n \in Nodes, IssueBatch(n) PROVE IInv' /\ Follows(db, db')
  <2>1. PICK len \in 2 .. MaxBatch, p \in Projects, atomic \in BOOLEAN :
           \E kinds \in [1 .. len -> Kinds] : Issue(n, kinds, p, TRUE, atomic)
    BY <1>3 DEF IssueBatch
  <2>0. PICK kinds \in [1 .. len -> Kinds] : Issue(n, kinds, p, TRUE, atomic)
    BY <2>1
  <2>2. len \in Nat \ {0} /\ Len(kinds) = len
    BY BoundsAssumption
  <2>3. IInv'
    BY <2>0, <2>2, IssueKeeps
  <2> QED
    BY <1>1, <2>0, <2>3 DEF Issue
<1>4. ASSUME NEW op \in Ops, ApplyOperation(op) PROVE IInv' /\ Follows(db, db')
  <2>1. content[op] \in Contents
    BY <1>4 DEF ApplyOperation, IInv, TypeOK
  <2>2. PICK r \in Outcomes(db, op) :
           /\ db' = IF r.status = "invalid" THEN db ELSE r.db
           /\ told' = [told EXCEPT ![op] = @ \cup Reported(r.status)]
    BY <1>4 DEF ApplyOperation, Decide
  <2>3. /\ r.db \in Databases /\ SoundDb(r.db) /\ Follows(db, r.db)
        /\ r.status \in Verdicts \cup {"invalid", "deferred"}
    BY <1>1, <2>1, OutcomesSound
  <2>4. db' \in Databases /\ SoundDb(db') /\ Follows(db, db')
    BY <1>1, <2>2, <2>3
  <2>5. Reported(r.status) \subseteq Verdicts
    BY <2>3 DEF Reported, Verdicts
  <2>6. told' \in [Ops -> SUBSET Verdicts]
    BY <2>2, <2>5 DEF IInv, TypeOK
  <2>7. SoundTxn' /\ txn' \in Txns \cup {NoTxn}
    BY <1>4 DEF ApplyOperation, SoundTxn
  <2> QED
    BY <1>4, <2>4, <2>6, <2>7, ServerKeeps DEF ApplyOperation, SoundDb
<1>5. ASSUME NEW op \in Ops, ReplayBatch(op) PROVE IInv' /\ Follows(db, db')
  <2> DEFINE batch == BatchOps(Origin(op), content[op].first, content[op].last)
  <2>1. /\ \A o \in batch : db.row[o] \in Terminal
        /\ told' = [o \in Ops |->
              IF o \in batch THEN told[o] \cup {Recorded(db.row[o])} ELSE told[o]]
    BY <1>5 DEF ReplayBatch
  <2>2. \A o \in batch : Recorded(db.row[o]) \in Verdicts
    BY <2>1 DEF Recorded, Terminal, Verdicts
  <2>3. told' \in [Ops -> SUBSET Verdicts]
    BY <2>1, <2>2 DEF IInv, TypeOK
  <2>4. UNCHANGED <<nextSequence, content, db, txn>>
    BY <1>5 DEF ReplayBatch
  <2>5. SoundTxn' /\ SoundDb(db)'
    BY <1>1, <2>4 DEF IInv, SoundTxn, Running, SoundDb, OriginOrder, LoggedOnlyApplied,
                      Follows
  <2> QED
    BY <1>1, <2>3, <2>4, <2>5, ServerKeeps DEF IInv, TypeOK
<1>6. ASSUME NEW op \in Ops, BeginBatch(op) PROVE IInv' /\ Follows(db, db')
  <2> DEFINE c == content[op]
  <2>1. /\ c \in Contents /\ UNCHANGED <<nextSequence, content, db, told>>
        /\ \A o \in BatchOps(Origin(op), c.first, c.last) : db.row[o] = "none"
        /\ txn' = [node |-> Origin(op), first |-> c.first, last |-> c.last,
                   atomic |-> c.atomic, next |-> c.first,
                   phase |-> "running", work |-> db]
    BY <1>6 DEF BeginBatch, IInv, TypeOK
  <2>2. c.first \in Slots /\ c.last \in Slots /\ c.atomic \in BOOLEAN
    BY <2>1 DEF Contents
  <2>3. c.first \in Nat /\ c.first \in 0 .. MaxOps
    BY <2>2, BoundsAssumption DEF Slots
  <2>4. txn' \in Txns
    BY <1>1, <2>1, <2>2, <2>3, OpParts DEF Txns
  <2>5. \A o \in BatchOps(Origin(op), c.first, c.last) : content[o] \in Contents
    BY <2>1 DEF IInv, UnitsIssued
  <2>6. SoundDb(txn'.work) /\ Follows(db', txn'.work)
    BY <1>1, <2>1 DEF SoundDb, OriginOrder, LoggedOnlyApplied, Follows
  <2>7. SoundTxn'
    <3>1. c.first .. c.first - 1 = {}
      BY <2>3
    <3> QED
      BY <2>1, <2>3, <2>5, <2>6, <3>1 DEF SoundTxn
  <2>8. SoundDb(db)'
    BY <1>1, <2>1 DEF SoundDb, OriginOrder, LoggedOnlyApplied
  <2> QED
    BY <1>1, <2>1, <2>4, <2>7, <2>8, ServerKeeps DEF IInv, TypeOK
<1>7. CASE StepBatch
  <2> DEFINE op == <<txn.node, txn.next>>
  <2>1. /\ txn # NoTxn /\ txn.phase = "running" /\ txn.next <= txn.last
        /\ UNCHANGED <<nextSequence, content, db, told>>
    BY <1>7 DEF StepBatch, Running
  <2>2. txn \in Txns
    BY <2>1 DEF IInv, TypeOK
  <2>3. PICK r \in Outcomes(txn.work, op) :
           txn' = IF Aborts(r.status) THEN [txn EXCEPT !.phase = "aborted", !.work = db]
                  ELSE IF r.status = "deferred" THEN NoTxn
                  ELSE [txn EXCEPT !.next = @ + 1, !.work = r.db]
    BY <1>7 DEF StepBatch
  <2>4. /\ txn.node \in Nodes /\ txn.first \in Slots /\ txn.last \in Slots
        /\ txn.atomic \in BOOLEAN /\ txn.next \in 0 .. MaxOps /\ txn.work \in Databases
    BY <2>2 DEF Txns
  <2>5. txn.first \in Nat /\ txn.last \in Nat /\ txn.next \in Nat /\ txn.last < MaxOps
    BY <2>4, BoundsAssumption DEF Slots
  <2>6. /\ \A p \in BatchOps(txn.node, txn.first, txn.last) :
              content[p] \in Contents /\ db.row[p] = "none"
        /\ txn.first <= txn.next
        /\ SoundDb(txn.work) /\ Follows(db, txn.work)
        /\ \A s \in txn.first .. txn.next - 1 : txn.work.row[<<txn.node, s>>] \in Terminal
    BY <2>1 DEF IInv, SoundTxn, Running
  <2>7. op \in BatchOps(txn.node, txn.first, txn.last) /\ op \in Ops
    BY <2>1, <2>4, <2>5, <2>6, BoundsAssumption DEF BatchOps, Ops, Slots
  <2>8. /\ r.db \in Databases /\ SoundDb(r.db) /\ Follows(txn.work, r.db)
        /\ r.status \in {"deferred", "invalid"} \/ r.db.row[op] \in Terminal
    BY <2>4, <2>6, <2>7, OutcomesSound
  <2>9. Follows(db, r.db)
    BY <1>1, <2>4, <2>6, <2>8, FollowsTransitive
  <2>10. SoundDb(db)'
    BY <1>1, <2>1 DEF SoundDb, OriginOrder, LoggedOnlyApplied
  <2>11. txn' \in Txns \cup {NoTxn} /\ SoundTxn'
    <3>1. CASE txn' = NoTxn
      BY <3>1 DEF SoundTxn
    <3>2. CASE txn' = [txn EXCEPT !.phase = "aborted", !.work = db]
      <4>1. txn' \in Txns
        BY <1>1, <2>2, <3>2 DEF Txns
      <4>2. /\ txn'.node = txn.node /\ txn'.first = txn.first /\ txn'.last = txn.last
            /\ txn'.next = txn.next /\ txn'.phase = "aborted"
        BY <2>2, <3>2 DEF Txns
      <4> QED
        BY <2>1, <2>6, <4>1, <4>2 DEF SoundTxn, Running
    <3>3. CASE ~Aborts(r.status) /\ r.status # "deferred"
               /\ txn' = [txn EXCEPT !.next = @ + 1, !.work = r.db]
      <4>1. txn.next + 1 \in 0 .. MaxOps
        BY <2>1, <2>5, BoundsAssumption
      <4>2. txn' \in Txns
        BY <2>2, <2>8, <3>3, <4>1 DEF Txns
      <4>3. /\ txn'.node = txn.node /\ txn'.first = txn.first /\ txn'.last = txn.last
            /\ txn'.next = txn.next + 1 /\ txn'.work = r.db
        BY <2>2, <3>3 DEF Txns
      <4>4. SoundDb(txn'.work) /\ Follows(db', txn'.work)
        BY <2>1, <2>8, <2>9, <4>3 DEF Follows
      <4>5. ASSUME NEW s \in txn'.first .. txn'.next - 1
            PROVE  txn'.work.row[<<txn'.node, s>>] \in Terminal
        <5>1. CASE s = txn.next
          BY <2>8, <3>3, <4>3, <5>1 DEF Aborts
        <5>2. CASE s # txn.next
          <6>1. s \in txn.first .. txn.next - 1
            BY <2>5, <4>3, <4>5, <5>2
          <6>2. <<txn.node, s>> \in Ops
            BY <2>4, <2>5, <6>1, BoundsAssumption DEF Ops, Slots
          <6> QED
            BY <2>6, <2>8, <4>3, <6>1, <6>2 DEF Follows
        <5> QED
          BY <5>1, <5>2
      <4> QED
        BY <2>1, <2>5, <2>6, <4>2, <4>3, <4>4, <4>5 DEF SoundTxn
    <3> QED
      BY <2>3, <3>1, <3>2, <3>3
  <2> QED
    BY <1>1, <2>1, <2>10, <2>11, ServerKeeps DEF IInv, TypeOK
<1>8. CASE CommitBatch
  <2>1. /\ Running /\ txn # NoTxn /\ txn.next > txn.last
        /\ db' = txn.work /\ txn' = NoTxn
        /\ told' = [op \in Ops |->
              IF op \in BatchOps(txn.node, txn.first, txn.last)
                THEN told[op] \cup {Recorded(txn.work.row[op])} ELSE told[op]]
        /\ UNCHANGED <<nextSequence, content>>
    BY <1>8 DEF CommitBatch, Running
  <2>2. txn \in Txns /\ txn.work \in Databases
    BY <2>1 DEF IInv, TypeOK, Txns
  <2>3. SoundDb(txn.work) /\ Follows(db, txn.work)
    BY <2>1 DEF IInv, SoundTxn
  <2>4. ASSUME NEW op \in BatchOps(txn.node, txn.first, txn.last)
        PROVE  Recorded(txn.work.row[op]) \in Verdicts
    <3>1. PICK s \in txn.first .. txn.last : op = <<txn.node, s>>
      BY <2>4 DEF BatchOps
    <3>2. txn.first \in Nat /\ txn.last \in Nat /\ txn.next \in Nat
      BY <2>2, BoundsAssumption DEF Txns, Slots
    <3>3. txn.work.row[op] \in Terminal
      BY <2>1, <3>1, <3>2 DEF IInv, SoundTxn
    <3> QED
      BY <3>3 DEF Recorded, Terminal, Verdicts
  <2>5. told' \in [Ops -> SUBSET Verdicts]
    BY <2>1, <2>4 DEF IInv, TypeOK
  <2>6. SoundDb(db)' /\ Follows(db, db') /\ SoundTxn'
    BY <2>1, <2>3 DEF SoundDb, OriginOrder, LoggedOnlyApplied, SoundTxn
  <2> QED
    BY <2>1, <2>2, <2>5, <2>6, ServerKeeps
<1>9. CASE PersistRejections
  <2> DEFINE batch == BatchOps(txn.node, txn.first, txn.last)
             e == [db EXCEPT !.row = [op \in Ops |->
                     IF op \in batch THEN "rejected" ELSE db.row[op]]]
  <2>1. /\ txn # NoTxn /\ db' = e /\ txn' = NoTxn
        /\ told' = [op \in Ops |->
              IF op \in batch THEN told[op] \cup {"rejected"} ELSE told[op]]
        /\ UNCHANGED <<nextSequence, content>>
    BY <1>9 DEF PersistRejections
  <2>2. \A op \in batch : db.row[op] = "none"
    BY <2>1 DEF IInv, SoundTxn
  <2>3. /\ e \in Databases /\ e.log = db.log
        /\ \A op \in Ops : e.row[op] = IF op \in batch THEN "rejected" ELSE db.row[op]
    BY <1>1 DEF Databases, RowStatus, Terminal
  <2>4. \A op \in Ops : db.row[op] \in Terminal => e.row[op] = db.row[op]
    BY <2>2, <2>3 DEF Terminal
  <2> HIDE DEF e, batch
  <2>5. SoundDb(e) /\ Follows(db, e)
    BY <1>1, <2>3, <2>4, SameLog
  <2>6. told' \in [Ops -> SUBSET Verdicts]
    BY <2>1 DEF IInv, TypeOK, Verdicts
  <2> QED
    BY <2>1, <2>3, <2>5, <2>6, ServerKeeps DEF SoundTxn
<1>10. CASE FailBatch
  <2>1. UNCHANGED <<nextSequence, content, db, told>> /\ txn' = NoTxn
    BY <1>10 DEF FailBatch
  <2>2. SoundDb(db)' /\ SoundTxn'
    BY <1>1, <2>1 DEF SoundDb, OriginOrder, LoggedOnlyApplied, SoundTxn
  <2> QED
    BY <1>1, <2>1, <2>2, ServerKeeps DEF IInv, TypeOK
<1>11. ASSUME NEW op \in Ops, ResolveConflict(op) PROVE IInv' /\ Follows(db, db')
  <2>1. PICK n \in Nat : /\ db' \in Databases
                         /\ db'.row = db.row
                         /\ db'.log = db.log \o
                               [i \in 1 .. n |-> [op |-> op, resolution |-> TRUE]]
    <3>1. /\ db.row \in [Ops -> RowStatus] /\ db.log \in Seq(LogEntries)
          /\ db.projects \subseteq Projects /\ db.open \subseteq Ops
          /\ db = [row |-> db.row, projects |-> db.projects,
                   open |-> db.open, log |-> db.log]
      BY <1>1 DEF Databases
    <3>2. CASE db' = [db EXCEPT !.open = @ \ {op}]
      <4>1. db' \in Databases /\ db'.row = db.row /\ db'.log = db.log
        BY <3>1, <3>2 DEF Databases
      <4>2. [i \in 1 .. 0 |-> [op |-> op, resolution |-> TRUE]] = << >>
        OBVIOUS
      <4>3. db'.log = db.log \o [i \in 1 .. 0 |-> [op |-> op, resolution |-> TRUE]]
        BY <3>1, <4>1, <4>2, ConcatEmptySeq
      <4> QED
        BY <4>1, <4>3, 0 \in Nat
    <3>3. ASSUME NEW n \in 0 .. MaxMutations,
                 db' = [db EXCEPT !.open = @ \ {op},
                           !.log = @ \o [i \in 1 .. n |-> [op |-> op, resolution |-> TRUE]]]
          PROVE  \E k \in Nat : /\ db' \in Databases
                                /\ db'.row = db.row
                                /\ db'.log = db.log \o
                                      [i \in 1 .. k |-> [op |-> op, resolution |-> TRUE]]
      <4> DEFINE entry == [op |-> op, resolution |-> TRUE]
                 longer == db.log \o [i \in 1 .. n |-> entry]
      <4>1. entry \in LogEntries
        BY DEF LogEntries
      <4>2. ASSUME NEW e \in LogEntries
            PROVE  db.log \o [i \in 1 .. n |-> e] \in Seq(LogEntries)
        BY <3>1, AppendCopies
      <4>3. longer \in Seq(LogEntries)
        BY <4>1, <4>2, Zenon
      <4>4. db' = [db EXCEPT !.open = @ \ {op}, !.log = longer]
        BY <3>3
      <4> HIDE DEF longer
      <4>5. db' \in Databases /\ db'.row = db.row /\ db'.log = longer
        BY <3>1, <4>3, <4>4 DEF Databases
      <4>6. n \in Nat
        BY BoundsAssumption
      <4>7. db'.log = db.log \o [i \in 1 .. n |-> [op |-> op, resolution |-> TRUE]]
        BY <4>5 DEF longer
      <4> WITNESS n \in Nat
      <4> QED
        BY <4>5, <4>6, <4>7
    <3> QED
      BY <1>11, <3>2, <3>3 DEF ResolveConflict
  <2> DEFINE entry == [op |-> op, resolution |-> TRUE]
  <2>2. entry \in LogEntries /\ entry.resolution
    BY DEF LogEntries
  <2>3. /\ db.log \in Seq(LogEntries) /\ Len(db.log) \in Nat
        /\ DOMAIN db.log = 1 .. Len(db.log)
        /\ \A i \in DOMAIN db.log : db.log[i].op \in Ops
    BY <1>1, DatabaseParts
  <2>4. /\ Len(db'.log) = Len(db.log) + n
        /\ DOMAIN db'.log = 1 .. Len(db.log) + n
        /\ \A i \in 1 .. Len(db.log) : db'.log[i] = db.log[i]
        /\ \A i \in Len(db.log) + 1 .. Len(db.log) + n : db'.log[i] = entry
    BY <2>1, <2>2, <2>3, AppendCopies
  <2> HIDE DEF entry
  <2>5. ASSUME NEW i \in DOMAIN db'.log, ~db'.log[i].resolution
        PROVE  i \in DOMAIN db.log /\ db'.log[i] = db.log[i]
    BY <2>2, <2>3, <2>4, <2>5
  <2>6. OriginOrder(db')
    BY <1>1, <2>5 DEF SoundDb, OriginOrder
  <2>7. LoggedOnlyApplied(db')
    BY <1>1, <2>1, <2>5 DEF SoundDb, LoggedOnlyApplied
  <2>8. Follows(db, db')
    BY <2>1, <2>2, <2>3, <2>4 DEF Follows
  <2>9. UNCHANGED <<nextSequence, content, txn, told>> /\ ~Running
    BY <1>11 DEF ResolveConflict
  <2>10. SoundTxn'
    BY <2>1, <2>9, IdleTxn
  <2> QED
    BY <2>1, <2>6, <2>7, <2>8, <2>9, <2>10, ServerKeeps DEF IInv, TypeOK, SoundDb
<1>12. CASE ClearRejected
  <2> DEFINE e == [db EXCEPT !.row = [op \in Ops |->
                     IF db.row[op] = "rejected" THEN "cleared_rejected" ELSE db.row[op]]]
  <2>1. db' = e /\ UNCHANGED <<nextSequence, content, txn, told>> /\ ~Running
    BY <1>12 DEF ClearRejected
  <2>2. /\ e \in Databases /\ e.log = db.log
        /\ \A op \in Ops : e.row[op] = IF db.row[op] = "rejected"
                                         THEN "cleared_rejected" ELSE db.row[op]
    BY <1>1 DEF Databases, RowStatus, Terminal
  <2>3. \A op \in Ops : db.row[op] \in Terminal =>
           e.row[op] \in Terminal /\ Recorded(e.row[op]) = Recorded(db.row[op])
    BY <2>2 DEF Terminal, Recorded
  <2>4. \A op \in Ops : db.row[op] = "none" => e.row[op] = "none"
    BY <2>2
  <2> HIDE DEF e
  <2>5. SoundDb(e) /\ Follows(db, e)
    BY <1>1, <2>2, <2>3, SameLog
  <2>6. SoundTxn'
    BY <2>1, <2>4, IdleTxn
  <2> QED
    BY <2>1, <2>2, <2>5, <2>6, ServerKeeps DEF IInv, TypeOK, SoundDb
<1>13. CASE UNCHANGED vars
  BY <1>1, <1>13 DEF vars, IInv, TypeOK, SoundDb, OriginOrder, LoggedOnlyApplied,
                     UnitsIssued, SoundTxn, Running, Follows
<1> QED
  BY <1>2, <1>3, <1>4, <1>5, <1>6, <1>7, <1>8, <1>9, <1>10, <1>11, <1>12, <1>13 DEF Next

-----------------------------------------------------------------------------
(* What holds of every behaviour.                                          *)

\* In every state the committed log is in order and backed by applied rows, issued batches
\* are complete, and the copy a running batch works on is just as sound and follows the
\* committed tables, so that its commit can only add to them.
THEOREM Invariance == Spec => []IInv
BY InitSound, StepSound, PTL DEF Spec

\* The variables keep their types: every row, verdict and log entry the engine writes is
\* one the tables of src/tim/db/sync_tables.ts allow.
THEOREM TypeCorrectness == Spec => []TypeOK
<1>1. IInv => TypeOK
  BY DEF IInv
<1> QED
  BY <1>1, Invariance, PTL

\* Whatever the transport retries, duplicates or reorders, and wherever a batch fails,
\* sync_sequence replays the direct mutations of every origin in the order it issued them.
THEOREM OrderOfTheLog == Spec => []LogInOriginOrder
<1>1. IInv => LogInOriginOrder
  BY DEF IInv, SoundDb, LogInOriginOrder
<1> QED
  BY <1>1, Invariance, PTL

\* No step of the engine changes a recorded verdict, shortens the log or logs a direct
\* mutation of an operation it has already decided.
THEOREM DecisionsAreFinal == Spec => DecidedOnce
<1>1. IInv /\ [Next]_vars => [Follows(db, db')]_vars
  BY StepSound
<1> QED
  BY <1>1, Invariance, PTL DEF Spec, DecidedOnce

-----------------------------------------------------------------------------
(* What the decision of one operation does to the tables.                  *)

\* The announcement of a project that may fail to match.
ContestedUpsert(op) == content[op].kind = "upsert" /\ content[op].project \in Contested

\* Tables e have, past the log of tables d, only mutations of operation op.
LogsOnly(d, e, op, resolution) ==
    /\ \A i \in DOMAIN d.log : i \in DOMAIN e.log /\ e.log[i] = d.log[i]
    /\ \A i \in DOMAIN e.log \ DOMAIN d.log :
          e.log[i].op = op /\ e.log[i].resolution = resolution

\* A verdict that was recorded before is returned.
Replays(d, op, r) == d.row[op] \in Terminal /\ r.db = d /\ r.status = Recorded(d.row[op])

\* A validation error escapes, and the tables are as they were.
Escapes(d, op, r) ==
    /\ d.row[op] \notin Terminal /\ r.db = d /\ r.status = "invalid"
    /\ Overtaken(d, op) \/ ContestedUpsert(op)

\* The operation is decided, or deferred with a row of its own.
Records(d, op, r) ==
    /\ d.row[op] \notin Terminal
    /\ r.db \in Databases
    /\ \A p \in Ops \ {op} : r.db.row[p] = d.row[p]
    /\ \/ r.db.row[op] \in Verdicts /\ r.status = r.db.row[op]
       \/ r.db.row[op] = "received" /\ r.status = "deferred"
    /\ r.db.row[op] = "conflict" => ~Overtaken(d, op)
    /\ r.db.open = IF r.db.row[op] = "conflict" THEN d.open \cup {op} ELSE d.open
    /\ LogsOnly(d, r.db, op, FALSE)
    /\ DOMAIN r.db.log # DOMAIN d.log => r.db.row[op] = "applied" /\ ~Overtaken(d, op)

Form(d, op, r) == Replays(d, op, r) \/ Escapes(d, op, r) \/ Records(d, op, r)

\* Appending copies of one entry.
LEMMA AppendedLog ==
    ASSUME NEW d \in Databases, NEW e \in Databases, NEW op \in Ops,
           NEW resolution \in BOOLEAN, NEW n \in Nat,
           e.log = d.log \o [i \in 1 .. n |-> [op |-> op, resolution |-> resolution]]
    PROVE  /\ LogsOnly(d, e, op, resolution)
           /\ DOMAIN e.log \ DOMAIN d.log \subseteq Len(d.log) + 1 .. Len(d.log) + n
<1> DEFINE entry == [op |-> op, resolution |-> resolution]
<1>1. d.log \in Seq(LogEntries) /\ Len(d.log) \in Nat /\ DOMAIN d.log = 1 .. Len(d.log)
  BY DatabaseParts
<1>2. entry \in LogEntries /\ entry.op = op /\ entry.resolution = resolution
  BY DEF LogEntries
<1>3. e.log = d.log \o [i \in 1 .. n |-> entry]
  OBVIOUS
<1> HIDE DEF entry
<1>4. /\ DOMAIN e.log = 1 .. Len(d.log) + n
      /\ \A i \in 1 .. Len(d.log) : e.log[i] = d.log[i]
      /\ \A i \in Len(d.log) + 1 .. Len(d.log) + n : e.log[i] = entry
  BY <1>1, <1>2, <1>3, AppendCopies
<1> QED
  BY <1>1, <1>2, <1>4 DEF LogsOnly

\* An operation in turn is not overtaken.
LEMMA InTurnNotOvertaken ==
    ASSUME NEW d \in Databases, NEW op \in Ops, InTurn(d, op)
    PROVE  ~Overtaken(d, op)
<1>1. LocalSequence(op) \in Nat
  BY OpParts
<1>2. Settled(d, op) \subseteq Nat
  BY BoundsAssumption DEF Settled, Slots
<1> QED
  BY <1>1, <1>2 DEF InTurn, Overtaken

\* Every outcome of an operation has one of the three forms.
LEMMA OutcomeForms ==
    ASSUME NEW d \in Databases, NEW op \in Ops, content[op] \in Contents,
           NEW r \in Outcomes(d, op)
    PROVE  Form(d, op, r)
<1> DEFINE c == content[op]
<1>1. /\ d.row \in [Ops -> RowStatus] /\ d.log \in Seq(LogEntries)
      /\ d.projects \subseteq Projects /\ d.open \subseteq Ops
      /\ d = [row |-> d.row, projects |-> d.projects, open |-> d.open, log |-> d.log]
  BY DEF Databases
<1>2. c.kind \in Kinds /\ c.project \in Projects
  BY DEF Contents
<1>3. CASE d.row[op] \in Terminal
  BY <1>3 DEF Outcomes, Result, Form, Replays
<1>4. CASE d.row[op] \notin Terminal
  <2>1. ASSUME NEW e \in Databases, NEW status \in {"received", "rejected"},
               r.db = e, e.row = [d.row EXCEPT ![op] = status], e.log = d.log,
               e.open = d.open,
               r.status = IF status = "received" THEN "deferred" ELSE "rejected"
        PROVE  Form(d, op, r)
    BY <1>1, <1>4, <2>1 DEF Form, Records, LogsOnly, Verdicts
  <2>2. ASSUME NEW ps \in SUBSET Projects, NEW n \in Nat, n = 0 \/ InTurn(d, op),
               r = MarkApplied([d EXCEPT !.projects = ps], op, n)
        PROVE  Form(d, op, r)
    <3> DEFINE copies == [i \in 1 .. n |-> [op |-> op, resolution |-> FALSE]]
    <3>1. r = [db |-> [row |-> [d.row EXCEPT ![op] = "applied"], projects |-> ps,
                       open |-> d.open, log |-> d.log \o copies],
               status |-> "applied"]
      BY <1>1, <2>2 DEF MarkApplied, Result, LogMutations, SetRow
    <3>2. d.log \o copies \in Seq(LogEntries)
      <4> DEFINE entry == [op |-> op, resolution |-> FALSE]
      <4>1. entry \in LogEntries
        BY DEF LogEntries
      <4>2. ASSUME NEW e \in LogEntries
            PROVE  d.log \o [i \in 1 .. n |-> e] \in Seq(LogEntries)
        BY <1>1, AppendCopies
      <4> QED
        BY <4>1, <4>2, Zenon
    <3>3. [d.row EXCEPT ![op] = "applied"] \in [Ops -> RowStatus]
      BY <1>1 DEF RowStatus, Terminal
    <3>4. r.db \in Databases
      BY <1>1, <3>1, <3>2, <3>3 DEF Databases
    <3>5. /\ r.db.row = [d.row EXCEPT ![op] = "applied"] /\ r.db.open = d.open
          /\ r.db.log = d.log \o copies /\ r.status = "applied"
      BY <3>1
    <3> HIDE DEF copies
    <3>6. /\ LogsOnly(d, r.db, op, FALSE)
          /\ DOMAIN r.db.log \ DOMAIN d.log \subseteq Len(d.log) + 1 .. Len(d.log) + n
      <4>1. FALSE \in BOOLEAN
        OBVIOUS
      <4> QED
        BY <3>4, <3>5, <4>1, AppendedLog, Zenon DEF copies
    <3>7. DOMAIN r.db.log # DOMAIN d.log => ~Overtaken(d, op)
      <4>1. CASE n = 0
        <5>1. Len(d.log) \in Nat
          BY DatabaseParts
        <5>2. Len(d.log) + 1 .. Len(d.log) + n = {}
          BY <4>1, <5>1
        <5> QED
          BY <3>6, <5>2 DEF LogsOnly
      <4>2. CASE InTurn(d, op)
        BY <4>2, InTurnNotOvertaken
      <4> QED
        BY <2>2, <4>1, <4>2
    <3> QED
      BY <1>1, <1>4, <3>4, <3>5, <3>6, <3>7 DEF Form, Records, Verdicts
  <2>3. CASE UnknownProject(d, op)
    <3>1. r = Unknown(d, op)
      BY <1>4, <2>3 DEF Outcomes
    <3>2. CASE c.kind = "delete"
      <4>1. d = [d EXCEPT !.projects = d.projects]
        BY <1>1
      <4>2. r = MarkApplied([d EXCEPT !.projects = d.projects], op, 0)
        BY <3>1, <3>2, <4>1 DEF Unknown
      <4> QED
        BY <1>1, <2>2, <4>2
    <3>3. CASE c.kind # "delete"
      <4>1. r = Result(SetRow(d, op, "rejected"), "rejected")
        BY <3>1, <3>3 DEF Unknown
      <4>2. /\ r.db \in Databases /\ r.db.row = [d.row EXCEPT ![op] = "rejected"]
            /\ r.db.log = d.log /\ r.db.open = d.open /\ r.status = "rejected"
        BY <1>1, <4>1 DEF Result, SetRow, Databases, RowStatus, Terminal
      <4> QED
        BY <2>1, <4>2
    <3> QED
      BY <3>2, <3>3
  <2>4. CASE ~UnknownProject(d, op)
    <3>1. r \in CheckFifo(d, op)
      BY <1>4, <2>4 DEF Outcomes
    <3>2. CASE Overtaken(d, op)
      BY <1>4, <3>1, <3>2 DEF CheckFifo, Result, Form, Escapes
    <3>3. CASE ~Overtaken(d, op) /\ ~InTurn(d, op)
      <4>1. r = Result(SetRow(d, op, "received"), "deferred")
        BY <3>1, <3>3 DEF CheckFifo
      <4>2. /\ r.db \in Databases /\ r.db.row = [d.row EXCEPT ![op] = "received"]
            /\ r.db.log = d.log /\ r.db.open = d.open /\ r.status = "deferred"
        BY <1>1, <4>1 DEF Result, SetRow, Databases, RowStatus
      <4> QED
        BY <2>1, <4>2
    <3>4. CASE ~Overtaken(d, op) /\ InTurn(d, op)
      <4>1. r \in Payload(d, op)
        BY <3>1, <3>4 DEF CheckFifo
      <4>2. CASE c.kind = "upsert"
        <5>1. CASE r = Result(d, "invalid") /\ c.project \in Contested
          BY <1>4, <4>2, <5>1 DEF Result, Form, Escapes, ContestedUpsert
        <5>2. ASSUME NEW ps \in Announced(d, c.project),
                     r = MarkApplied([d EXCEPT !.projects = ps], op, 1)
              PROVE  Form(d, op, r)
          <6>1. ps \in SUBSET Projects
            BY <1>1, <1>2 DEF Announced
          <6> QED
            BY <2>2, <3>4, <5>2, <6>1
        <5> QED
          BY <4>1, <4>2, <5>1, <5>2 DEF Payload
      <4>3. CASE c.kind = "delete"
        <5>1. r = MarkApplied([d EXCEPT !.projects = @ \ {c.project}], op, 1)
          BY <4>1, <4>3 DEF Payload
        <5>2. d.projects \ {c.project} \in SUBSET Projects
          BY <1>1
        <5> QED
          BY <2>2, <3>4, <5>1, <5>2
      <4>4. CASE c.kind = "edit"
        <5>1. ASSUME NEW n \in 0 .. MaxMutations, r = MarkApplied(d, op, n)
              PROVE  Form(d, op, r)
          <6>1. d = [d EXCEPT !.projects = d.projects]
            BY <1>1
          <6>2. r = MarkApplied([d EXCEPT !.projects = d.projects], op, n)
            BY <5>1, <6>1
          <6>3. n \in Nat
            BY BoundsAssumption
          <6> QED
            BY <1>1, <2>2, <3>4, <6>2, <6>3
        <5>2. CASE r = Result([SetRow(d, op, "conflict") EXCEPT !.open = @ \cup {op}],
                              "conflict")
          <6>1. /\ r.db \in Databases /\ r.db.row = [d.row EXCEPT ![op] = "conflict"]
                /\ r.db.log = d.log /\ r.db.open = d.open \cup {op}
                /\ r.status = "conflict"
            BY <1>1, <5>2 DEF Result, SetRow, Databases, RowStatus, Terminal
          <6> QED
            BY <1>1, <1>4, <3>4, <6>1 DEF Form, Records, LogsOnly, Verdicts
        <5>3. CASE r = Result(SetRow(d, op, "rejected"), "rejected")
          <6>1. /\ r.db \in Databases /\ r.db.row = [d.row EXCEPT ![op] = "rejected"]
                /\ r.db.log = d.log /\ r.db.open = d.open /\ r.status = "rejected"
            BY <1>1, <5>3 DEF Result, SetRow, Databases, RowStatus, Terminal
          <6> QED
            BY <2>1, <6>1
        <5> QED
          BY <4>1, <4>4, <5>1, <5>2, <5>3 DEF Payload
      <4> QED
        BY <1>2, <4>2, <4>3, <4>4 DEF Kinds
    <3> QED
      BY <3>2, <3>3, <3>4
  <2> QED
    BY <2>3, <2>4
<1> QED
  BY <1>3, <1>4

-----------------------------------------------------------------------------
(* One effect.                                                             *)

\* The rows of the log an operation has.
Entries(d, op) == {i \in DOMAIN d.log : d.log[i].op = op}

\* An open conflict has no effect yet; a resolution belongs to a conflict that is closed,
\* and all it has logged lies within MaxMutations rows.
SoundEffects(d) ==
    /\ \A op \in d.open : d.row[op] = "conflict" /\ Entries(d, op) = {}
    /\ \A i \in DOMAIN d.log : d.log[i].resolution =>
          LET op == d.log[i].op
          IN  /\ d.row[op] = "conflict"
              /\ op \notin d.open
              /\ \E a \in Nat : Entries(d, op) \subseteq a + 1 .. a + MaxMutations

\* An operation that is undecided or rejected has no effect.
LEMMA NoEffect ==
    ASSUME NEW d \in Databases, SoundDb(d), SoundEffects(d), NEW op \in Ops,
           d.row[op] \notin {"applied", "conflict"}
    PROVE  Entries(d, op) = {} /\ op \notin d.open
BY DatabaseParts DEF SoundDb, LoggedOnlyApplied, SoundEffects, Entries

\* The mutations of one operation are no mutations of another.
LEMMA OtherEntries ==
    ASSUME NEW d \in Databases, NEW e \in Databases, NEW op \in Ops, NEW p \in Ops \ {op},
           NEW resolution \in BOOLEAN, LogsOnly(d, e, op, resolution)
    PROVE  Entries(e, p) = Entries(d, p)
BY DEF LogsOnly, Entries

\* Deciding an operation keeps the effects of all operations in order.
LEMMA OutcomeEffects ==
    ASSUME NEW d \in Databases, SoundDb(d), SoundEffects(d), NEW op \in Ops,
           NEW r, Form(d, op, r)
    PROVE  SoundEffects(r.db)
<1>1. CASE Replays(d, op, r) \/ Escapes(d, op, r)
  BY <1>1 DEF Replays, Escapes
<1>2. CASE Records(d, op, r)
  <2> DEFINE e == r.db
  <2>1. /\ e \in Databases /\ \A p \in Ops \ {op} : e.row[p] = d.row[p]
        /\ e.open = IF e.row[op] = "conflict" THEN d.open \cup {op} ELSE d.open
        /\ LogsOnly(d, e, op, FALSE)
        /\ DOMAIN e.log # DOMAIN d.log => e.row[op] = "applied"
    BY <1>2 DEF Records
  <2>2. d.row[op] \notin {"applied", "conflict"}
    BY <1>2 DEF Records, Terminal
  <2>3. Entries(d, op) = {} /\ op \notin d.open
    BY <2>2, NoEffect
  <2>4. \A p \in Ops \ {op} : Entries(e, p) = Entries(d, p)
    BY <2>1, OtherEntries
  <2> HIDE DEF e
  <2>5. ASSUME NEW p \in e.open
        PROVE  e.row[p] = "conflict" /\ Entries(e, p) = {}
    <3>1. CASE p = op
      <4>1. e.row[op] = "conflict"
        BY <2>1, <2>3, <2>5, <3>1
      <4>2. DOMAIN e.log = DOMAIN d.log
        BY <2>1, <4>1
      <4> QED
        BY <2>1, <2>3, <3>1, <4>1, <4>2 DEF LogsOnly, Entries
    <3>2. CASE p # op
      <4>1. p \in d.open /\ p \in Ops
        BY <2>1, <2>5, <3>2 DEF Databases
      <4> QED
        BY <2>1, <2>4, <3>2, <4>1 DEF SoundEffects
    <3> QED
      BY <3>1, <3>2
  <2>6. ASSUME NEW i \in DOMAIN e.log, e.log[i].resolution
        PROVE  /\ e.row[e.log[i].op] = "conflict" /\ e.log[i].op \notin e.open
               /\ \E a \in Nat : Entries(e, e.log[i].op) \subseteq a + 1 .. a + MaxMutations
    <3> DEFINE p == e.log[i].op
    <3>1. i \in DOMAIN d.log /\ e.log[i] = d.log[i]
      BY <2>1, <2>6 DEF LogsOnly
    <3>2. p \in Ops /\ p # op
      BY <2>3, <3>1, DatabaseParts DEF Entries
    <3>3. /\ d.row[p] = "conflict" /\ p \notin d.open
          /\ \E a \in Nat : Entries(d, p) \subseteq a + 1 .. a + MaxMutations
      BY <2>6, <3>1 DEF SoundEffects
    <3>4. Entries(e, p) = Entries(d, p)
      BY <2>4, <3>2
    <3> HIDE DEF p
    <3>5. /\ e.row[p] = "conflict" /\ p \notin e.open
          /\ \E a \in Nat : Entries(e, p) \subseteq a + 1 .. a + MaxMutations
      BY <2>1, <3>2, <3>3, <3>4
    <3> QED
      BY <3>5 DEF p
  <2>7. SoundEffects(e)
    BY <2>5, <2>6 DEF SoundEffects
  <2> QED
    BY <2>7 DEF e
<1> QED
  BY <1>1, <1>2 DEF Form

\* Rows that are rejected or cleared do not upset the effects of others.
LEMMA SameEffects ==
    ASSUME NEW d \in Databases, NEW e \in Databases, SoundEffects(d),
           e.log = d.log, e.open = d.open,
           \A op \in Ops : d.row[op] = "conflict" => e.row[op] = "conflict"
    PROVE  SoundEffects(e)
<1>1. d.open \subseteq Ops /\ \A i \in DOMAIN d.log : d.log[i].op \in Ops
  BY DatabaseParts DEF Databases
<1>2. \A op \in Ops : Entries(e, op) = Entries(d, op)
  BY DEF Entries
<1>3. ASSUME NEW op \in e.open
      PROVE  e.row[op] = "conflict" /\ Entries(e, op) = {}
  BY <1>1, <1>2 DEF SoundEffects
<1>4. ASSUME NEW i \in DOMAIN e.log, e.log[i].resolution
      PROVE  LET op == e.log[i].op
             IN  /\ e.row[op] = "conflict"
                 /\ op \notin e.open
                 /\ \E a \in Nat : Entries(e, op) \subseteq a + 1 .. a + MaxMutations
  <2> DEFINE op == e.log[i].op
  <2>1. op \in Ops /\ op = d.log[i].op /\ i \in DOMAIN d.log /\ d.log[i].resolution
    BY <1>1, <1>4
  <2>2. /\ d.row[op] = "conflict" /\ op \notin d.open
        /\ \E a \in Nat : Entries(d, op) \subseteq a + 1 .. a + MaxMutations
    BY <2>1 DEF SoundEffects
  <2> HIDE DEF op
  <2>3. /\ e.row[op] = "conflict" /\ op \notin e.open
        /\ \E a \in Nat : Entries(e, op) \subseteq a + 1 .. a + MaxMutations
    BY <1>2, <2>1, <2>2
  <2> QED
    BY <2>3 DEF op
<1> QED
  BY <1>3, <1>4 DEF SoundEffects

\* Resolving a conflict gives it its effect.
LEMMA ResolutionEffects ==
    ASSUME NEW d \in Databases, NEW e \in Databases, SoundEffects(d),
           NEW op \in d.open, NEW n \in 0 .. MaxMutations,
           e.row = d.row, e.open = d.open \ {op}, LogsOnly(d, e, op, TRUE),
           DOMAIN e.log \ DOMAIN d.log \subseteq Len(d.log) + 1 .. Len(d.log) + n
    PROVE  SoundEffects(e)
<1>1. /\ op \in Ops /\ d.row[op] = "conflict" /\ Entries(d, op) = {}
      /\ d.open \subseteq Ops
  BY DEF Databases, SoundEffects
<1>2. \A p \in Ops \ {op} : Entries(e, p) = Entries(d, p)
  BY <1>1, OtherEntries
<1>3. Entries(e, op) \subseteq Len(d.log) + 1 .. Len(d.log) + MaxMutations
  <2>1. Entries(e, op) \subseteq DOMAIN e.log \ DOMAIN d.log
    BY <1>1 DEF Entries, LogsOnly
  <2>2. Len(d.log) \in Nat
    BY DatabaseParts
  <2> QED
    BY <2>1, <2>2, BoundsAssumption
<1>4. ASSUME NEW p \in e.open PROVE e.row[p] = "conflict" /\ Entries(e, p) = {}
  BY <1>1, <1>2, <1>4 DEF SoundEffects
<1>5. ASSUME NEW i \in DOMAIN e.log, e.log[i].resolution, NEW p \in Ops, e.log[i].op = p
      PROVE  /\ e.row[p] = "conflict" /\ p \notin e.open
             /\ \E a \in Nat : Entries(e, p) \subseteq a + 1 .. a + MaxMutations
  <2>1. CASE p = op
    <3>1. Len(d.log) \in Nat
      BY DatabaseParts
    <3>2. \E a \in Nat : Entries(e, op) \subseteq a + 1 .. a + MaxMutations
      BY <1>3, <3>1
    <3> QED
      BY <1>1, <2>1, <3>2
  <2>2. CASE p # op
    <3>1. i \in DOMAIN d.log /\ e.log[i] = d.log[i]
      BY <1>5, <2>2 DEF LogsOnly
    <3>2. /\ d.row[p] = "conflict" /\ p \notin d.open
          /\ \E a \in Nat : Entries(d, p) \subseteq a + 1 .. a + MaxMutations
      BY <1>5, <3>1 DEF SoundEffects
    <3> QED
      BY <1>2, <2>2, <3>2
  <2> QED
    BY <2>1, <2>2
<1>6. \A i \in DOMAIN e.log : e.log[i].op \in Ops
  BY DatabaseParts
<1> QED
  BY <1>4, <1>5, <1>6 DEF SoundEffects

\* Both the committed tables and those of a running batch have sound effects.
Effects == SoundEffects(db) /\ (Running => SoundEffects(txn.work))

-----------------------------------------------------------------------------
(* What the actions do, in terms of the forms.                             *)

\* Slots first .. last of node n have been issued as one unit.
IssuesUnit(n, first, last, batched, atomic) ==
    /\ first = nextSequence[n] /\ first <= last
    /\ nextSequence' = [nextSequence EXCEPT ![n] = last + 1]
    /\ UNCHANGED <<db, txn, told>>
    /\ \A op \in Ops :
          IF Origin(op) = n /\ LocalSequence(op) \in first .. last
            THEN /\ content'[op] \in Contents
                 /\ content'[op].first = first /\ content'[op].last = last
                 /\ content'[op].batched = batched /\ content'[op].atomic = atomic
            ELSE content'[op] = content[op]

LEMMA IssueUnit ==
    ASSUME TypeOK, NEW n \in Nodes, NEW len \in Nat \ {0}, NEW kinds \in [1 .. len -> Kinds],
           NEW p \in Projects, NEW batched \in BOOLEAN, NEW atomic \in BOOLEAN,
           Issue(n, kinds, p, batched, atomic), Len(kinds) = len
    PROVE  \E first, last \in Slots : IssuesUnit(n, first, last, batched, atomic)
<1> DEFINE first == nextSequence[n]
           last == first + len - 1
<1>1. /\ first \in Nat /\ last < MaxOps
      /\ nextSequence' = [nextSequence EXCEPT ![n] = last + 1]
      /\ UNCHANGED <<db, txn, told>>
  BY BoundsAssumption DEF TypeOK, Issue
<1>2. first \in Slots /\ last \in Slots /\ first <= last
  BY <1>1, BoundsAssumption DEF Slots
<1>3. ASSUME NEW op \in Ops, Origin(op) = n, LocalSequence(op) \in first .. last
      PROVE  /\ content'[op] \in Contents
             /\ content'[op].first = first /\ content'[op].last = last
             /\ content'[op].batched = batched /\ content'[op].atomic = atomic
  <2>1. LocalSequence(op) - first + 1 \in 1 .. len
    BY <1>1, <1>3, OpParts
  <2>2. content'[op] = [kind |-> kinds[LocalSequence(op) - first + 1], project |-> p,
                        first |-> first, last |-> last,
                        batched |-> batched, atomic |-> atomic]
    BY <1>1, <1>3 DEF Issue
  <2> HIDE DEF first, last
  <2> QED
    BY <1>2, <2>1, <2>2 DEF Contents
<1>4. ASSUME NEW op \in Ops, ~(Origin(op) = n /\ LocalSequence(op) \in first .. last)
      PROVE  content'[op] = content[op]
  BY <1>1, <1>4 DEF Issue
<1>5. IssuesUnit(n, first, last, batched, atomic)
  BY <1>1, <1>2, <1>3, <1>4 DEF IssuesUnit
<1> HIDE DEF first, last
<1> QED
  BY <1>2, <1>5

\* Issuing an operation, or a batch.
LEMMA IssueForms ==
    ASSUME TypeOK, NEW n \in Nodes, IssueOperation(n) \/ IssueBatch(n)
    PROVE  \E first, last \in Slots, batched, atomic \in BOOLEAN :
              IssuesUnit(n, first, last, batched, atomic)
<1>1. CASE IssueOperation(n)
  <2>1. PICK k \in Kinds, p \in Projects : Issue(n, <<k>>, p, FALSE, FALSE)
    BY <1>1 DEF IssueOperation
  <2> DEFINE kinds == <<k>>
  <2>2. Issue(n, kinds, p, FALSE, FALSE)
    BY <2>1
  <2>3. kinds \in [1 .. 1 -> Kinds] /\ Len(kinds) = 1 /\ 1 \in Nat \ {0}
    OBVIOUS
  <2> HIDE DEF kinds
  <2> QED
    BY <2>2, <2>3, IssueUnit
<1>2. CASE IssueBatch(n)
  <2>1. PICK len \in 2 .. MaxBatch, p \in Projects, atomic \in BOOLEAN :
           \E kinds \in [1 .. len -> Kinds] : Issue(n, kinds, p, TRUE, atomic)
    BY <1>2 DEF IssueBatch
  <2>2. PICK kinds \in [1 .. len -> Kinds] : Issue(n, kinds, p, TRUE, atomic)
    BY <2>1
  <2>3. len \in Nat \ {0} /\ Len(kinds) = len
    BY BoundsAssumption
  <2> QED
    BY <2>2, <2>3, IssueUnit
<1> QED
  BY <1>1, <1>2

\* The transaction in progress has a turn on an operation of its batch.
Turn(op, r) ==
    /\ op = <<txn.node, txn.next>>
    /\ Form(txn.work, op, r)
    /\ txn' = IF Aborts(r.status) THEN [txn EXCEPT !.phase = "aborted", !.work = db]
              ELSE IF r.status = "deferred" THEN NoTxn
              ELSE [txn EXCEPT !.next = @ + 1, !.work = r.db]

LEMMA BatchTurn ==
    ASSUME IInv, StepBatch
    PROVE  /\ Running /\ txn \in Txns /\ txn.work \in Databases /\ SoundDb(txn.work)
           /\ txn.next <= txn.last
           /\ UNCHANGED <<nextSequence, content, db, told>>
           /\ \E op \in BatchOps(txn.node, txn.first, txn.last) :
                 op \in Ops /\ content[op] \in Contents /\ \E r : Turn(op, r)
<1> DEFINE op == <<txn.node, txn.next>>
<1>1. /\ Running /\ txn # NoTxn /\ txn.next <= txn.last
      /\ UNCHANGED <<nextSequence, content, db, told>>
  BY DEF StepBatch, Running
<1>2. txn \in Txns
  BY <1>1 DEF IInv, TypeOK
<1>3. /\ txn.node \in Nodes /\ txn.first \in Slots /\ txn.last \in Slots
      /\ txn.next \in 0 .. MaxOps /\ txn.work \in Databases
  BY <1>2 DEF Txns
<1>4. /\ \A p \in BatchOps(txn.node, txn.first, txn.last) : content[p] \in Contents
      /\ txn.first <= txn.next /\ SoundDb(txn.work)
  BY <1>1 DEF IInv, SoundTxn
<1>5. op \in BatchOps(txn.node, txn.first, txn.last) /\ op \in Ops
  BY <1>1, <1>3, <1>4, BoundsAssumption DEF BatchOps, Ops, Slots
<1>6. PICK r \in Outcomes(txn.work, op) :
         txn' = IF Aborts(r.status) THEN [txn EXCEPT !.phase = "aborted", !.work = db]
                ELSE IF r.status = "deferred" THEN NoTxn
                ELSE [txn EXCEPT !.next = @ + 1, !.work = r.db]
  BY DEF StepBatch
<1>7. Form(txn.work, op, r)
  BY <1>3, <1>4, <1>5, OutcomeForms
<1>8. Turn(op, r)
  BY <1>6, <1>7 DEF Turn
<1> HIDE DEF op
<1> QED
  BY <1>1, <1>2, <1>3, <1>4, <1>5, <1>8

\* The tables a turn leaves to the transaction, if it goes on.
LEMMA AfterTurn ==
    ASSUME txn \in Txns, NEW op, NEW r, Turn(op, r), NoTxn # txn', Running'
    PROVE  /\ ~Aborts(r.status) /\ r.status # "deferred"
           /\ txn' = [txn EXCEPT !.next = txn.next + 1, !.work = r.db]
           /\ txn'.work = r.db /\ txn'.next = txn.next + 1
           /\ txn'.node = txn.node /\ txn'.first = txn.first /\ txn'.last = txn.last
           /\ txn'.atomic = txn.atomic
BY DEF Turn, Running, Txns

\* A conflict is resolved.
LEMMA ResolutionForm ==
    ASSUME TypeOK, NEW op \in Ops, ResolveConflict(op)
    PROVE  /\ ~Running /\ op \in db.open /\ db' \in Databases
           /\ UNCHANGED <<nextSequence, content, txn, told>>
           /\ db'.row = db.row /\ db'.open = db.open \ {op}
           /\ LogsOnly(db, db', op, TRUE)
           /\ \E n \in 0 .. MaxMutations :
                 DOMAIN db'.log \ DOMAIN db.log \subseteq Len(db.log) + 1 .. Len(db.log) + n
<1>1. /\ ~Running /\ op \in db.open /\ UNCHANGED <<nextSequence, content, txn, told>>
  BY DEF ResolveConflict
<1>2. /\ db \in Databases
      /\ db.row \in [Ops -> RowStatus] /\ db.log \in Seq(LogEntries)
      /\ db.projects \subseteq Projects /\ db.open \subseteq Ops
      /\ db = [row |-> db.row, projects |-> db.projects, open |-> db.open, log |-> db.log]
  BY DEF TypeOK, Databases
<1>3. CASE db' = [db EXCEPT !.open = @ \ {op}]
  <2>1. db' \in Databases /\ db'.row = db.row /\ db'.open = db.open \ {op}
        /\ db'.log = db.log
    BY <1>2, <1>3 DEF Databases
  <2>2. 0 \in 0 .. MaxMutations
    BY BoundsAssumption
  <2> QED
    BY <1>1, <2>1, <2>2 DEF LogsOnly
<1>4. ASSUME NEW n \in 0 .. MaxMutations,
             db' = [db EXCEPT !.open = @ \ {op},
                       !.log = @ \o [i \in 1 .. n |-> [op |-> op, resolution |-> TRUE]]]
      PROVE  /\ db' \in Databases
             /\ db'.row = db.row /\ db'.open = db.open \ {op}
             /\ LogsOnly(db, db', op, TRUE)
             /\ DOMAIN db'.log \ DOMAIN db.log \subseteq Len(db.log) + 1 .. Len(db.log) + n
  <2> DEFINE entry == [op |-> op, resolution |-> TRUE]
             longer == db.log \o [i \in 1 .. n |-> entry]
  <2>1. entry \in LogEntries
    BY DEF LogEntries
  <2>2. n \in Nat
    BY BoundsAssumption
  <2>3. ASSUME NEW e \in LogEntries
        PROVE  db.log \o [i \in 1 .. n |-> e] \in Seq(LogEntries)
    BY <1>2, <2>2, AppendCopies
  <2>4. longer \in Seq(LogEntries)
    BY <2>1, <2>3, Zenon
  <2>5. db' = [db EXCEPT !.open = @ \ {op}, !.log = longer]
    BY <1>4
  <2> HIDE DEF longer
  <2>6. db' \in Databases /\ db'.row = db.row /\ db'.open = db.open \ {op}
        /\ db'.log = longer
    BY <1>2, <2>4, <2>5 DEF Databases
  <2>7. db'.log = db.log \o [i \in 1 .. n |-> [op |-> op, resolution |-> TRUE]]
    BY <2>6 DEF longer
  <2>8. TRUE \in BOOLEAN
    OBVIOUS
  <2> HIDE DEF entry
  <2> QED
    BY <1>2, <2>2, <2>6, <2>7, <2>8, AppendedLog, Zenon
<1> QED
  BY <1>1, <1>3, <1>4 DEF ResolveConflict

\* The rows that PersistRejections and ClearRejected write.
LEMMA RowsRewritten ==
    ASSUME NEW d \in Databases, NEW rows \in [Ops -> RowStatus]
    PROVE  LET e == [d EXCEPT !.row = rows]
           IN  e \in Databases /\ e.row = rows /\ e.log = d.log /\ e.open = d.open
BY DEF Databases

-----------------------------------------------------------------------------
(* Effects stay sound.                                                     *)

LEMMA EffectsStep ==
    ASSUME IInv, Effects, [Next]_vars
    PROVE  Effects'
<1>1. db \in Databases /\ SoundDb(db) /\ TypeOK
  BY DEF IInv, TypeOK
<1>2. ASSUME UNCHANGED <<db, txn>> PROVE Effects'
  BY <1>2 DEF Effects, Running, SoundEffects, Entries
<1>3. ASSUME NEW n \in Nodes, IssueOperation(n) \/ IssueBatch(n) PROVE Effects'
  BY <1>1, <1>2, <1>3, IssueForms DEF IssuesUnit
<1>4. ASSUME NEW op \in Ops, ApplyOperation(op) PROVE Effects'
  <2>1. content[op] \in Contents /\ txn = NoTxn /\ txn' = NoTxn
    BY <1>1, <1>4 DEF ApplyOperation, TypeOK
  <2>2. PICK r \in Outcomes(db, op) : db' = IF r.status = "invalid" THEN db ELSE r.db
    BY <1>4 DEF ApplyOperation, Decide
  <2>3. SoundEffects(r.db)
    BY <1>1, <2>1, OutcomeForms, OutcomeEffects DEF Effects
  <2>4. SoundEffects(db')
    BY <2>2, <2>3 DEF Effects
  <2> QED
    BY <2>1, <2>4 DEF Effects, Running
<1>5. ASSUME NEW op \in Ops, ReplayBatch(op) PROVE Effects'
  BY <1>2, <1>5 DEF ReplayBatch
<1>6. ASSUME NEW op \in Ops, BeginBatch(op) PROVE Effects'
  <2>1. db' = db /\ txn'.work = db
    BY <1>6 DEF BeginBatch
  <2> QED
    BY <2>1 DEF Effects
<1>7. CASE StepBatch
  <2>1. db' = db /\ Running /\ txn \in Txns /\ SoundDb(txn.work) /\ txn.work \in Databases
    BY <1>7, BatchTurn
  <2>2. PICK op \in Ops : \E r : Turn(op, r)
    BY <1>7, BatchTurn
  <2>3. PICK r : Turn(op, r)
    BY <2>2
  <2>4. SoundEffects(r.db)
    BY <2>1, <2>3, OutcomeEffects DEF Turn, Effects
  <2>5. Running' => SoundEffects(txn'.work)
    BY <2>1, <2>3, <2>4, AfterTurn DEF Running
  <2> QED
    BY <2>1, <2>5 DEF Effects
<1>8. CASE CommitBatch
  BY <1>8 DEF CommitBatch, Effects, Running
<1>9. CASE PersistRejections
  <2> DEFINE rows == [op \in Ops |->
                        IF op \in BatchOps(txn.node, txn.first, txn.last) THEN "rejected"
                        ELSE db.row[op]]
  <2>1. txn # NoTxn /\ txn' = NoTxn /\ db' = [db EXCEPT !.row = rows]
    BY <1>9 DEF PersistRejections
  <2>2. \A op \in BatchOps(txn.node, txn.first, txn.last) : db.row[op] = "none"
    BY <2>1 DEF IInv, SoundTxn
  <2>3. rows \in [Ops -> RowStatus]
    BY <1>1 DEF Databases, RowStatus, Terminal
  <2>4. \A op \in Ops : db.row[op] = "conflict" => rows[op] = "conflict"
    BY <2>2
  <2> HIDE DEF rows
  <2>5. db' \in Databases /\ db'.row = rows /\ db'.log = db.log /\ db'.open = db.open
    BY <1>1, <2>1, <2>3, RowsRewritten
  <2>6. SoundEffects(db')
    BY <1>1, <2>4, <2>5, SameEffects DEF Effects
  <2> QED
    BY <2>1, <2>6 DEF Effects, Running
<1>10. CASE FailBatch
  BY <1>10 DEF FailBatch, Effects, Running
<1>11. ASSUME NEW op \in Ops, ResolveConflict(op) PROVE Effects'
  <2>1. /\ ~Running /\ txn' = txn /\ op \in db.open /\ db' \in Databases
        /\ db'.row = db.row /\ db'.open = db.open \ {op} /\ LogsOnly(db, db', op, TRUE)
    BY <1>1, <1>11, ResolutionForm
  <2>2. PICK n \in 0 .. MaxMutations :
           DOMAIN db'.log \ DOMAIN db.log \subseteq Len(db.log) + 1 .. Len(db.log) + n
    BY <1>1, <1>11, ResolutionForm
  <2>3. SoundEffects(db')
    BY <1>1, <2>1, <2>2, ResolutionEffects DEF Effects
  <2> QED
    BY <2>1, <2>3 DEF Effects, Running
<1>12. CASE ClearRejected
  <2> DEFINE rows == [op \in Ops |-> IF db.row[op] = "rejected" THEN "cleared_rejected"
                                     ELSE db.row[op]]
  <2>1. ~Running /\ txn' = txn /\ db' = [db EXCEPT !.row = rows]
    BY <1>12 DEF ClearRejected
  <2>2. rows \in [Ops -> RowStatus]
    BY <1>1 DEF Databases, RowStatus, Terminal
  <2>3. \A op \in Ops : db.row[op] = "conflict" => rows[op] = "conflict"
    OBVIOUS
  <2> HIDE DEF rows
  <2>4. db' \in Databases /\ db'.row = rows /\ db'.log = db.log /\ db'.open = db.open
    BY <1>1, <2>1, <2>2, RowsRewritten
  <2>5. SoundEffects(db')
    BY <1>1, <2>3, <2>4, SameEffects DEF Effects
  <2> QED
    BY <2>1, <2>5 DEF Effects, Running
<1>13. CASE UNCHANGED vars
  BY <1>2, <1>13 DEF vars
<1> QED
  BY <1>3, <1>4, <1>5, <1>6, <1>7, <1>8, <1>9, <1>10, <1>11, <1>12, <1>13 DEF Next

\* Nothing has had an effect at first.
LEMMA EffectsInit == Init => Effects
<1> SUFFICES ASSUME Init PROVE Effects
  OBVIOUS
<1>1. PICK ps \in SUBSET Projects : db = [EmptyDb EXCEPT !.projects = ps]
  BY DEF Init
<1>2. db.open = {} /\ db.log = <<>> /\ txn = NoTxn
  BY <1>1 DEF EmptyDb, Init
<1> QED
  BY <1>2 DEF Effects, SoundEffects, Running

LEMMA EffectsAreSingle == ASSUME IInv, Effects PROVE OneEffect
<1>1. db \in Databases
  BY DEF IInv, TypeOK
<1>2. ASSUME NEW i \in DOMAIN db.log, db.log[i].resolution, NEW op \in Ops, db.log[i].op = op
      PROVE  /\ db.row[op] = "conflict" /\ op \notin db.open
             /\ Cardinality(Entries(db, op)) <= MaxMutations
  <2>1. PICK a \in Nat : Entries(db, op) \subseteq a + 1 .. a + MaxMutations
    BY <1>2 DEF Effects, SoundEffects
  <2>2. a + 1 \in Int /\ a + MaxMutations \in Int
    BY BoundsAssumption
  <2>3. /\ IsFiniteSet(a + 1 .. a + MaxMutations)
        /\ Cardinality(a + 1 .. a + MaxMutations) = MaxMutations
    BY <2>2, FS_Interval, BoundsAssumption
  <2>4. Cardinality(Entries(db, op)) <= MaxMutations
    BY <2>1, <2>3, FS_Subset
  <2> QED
    BY <1>2, <2>4 DEF Effects, SoundEffects
<1>3. \A i \in DOMAIN db.log : db.log[i].op \in Ops
  BY <1>1, DatabaseParts
<1>4. LoggedOnlyApplied(db)
  BY DEF IInv, SoundDb
<1> QED
  BY <1>2, <1>3, <1>4 DEF OneEffect, Entries, LoggedOnlyApplied

\* Whatever is retried, rolled back or resolved, an operation takes effect directly, and
\* then its row says applied, or through the resolution of its conflict, once: the two
\* paths of src/tim/sync/apply_operation.ts and apply_conflicts.ts exclude each other.
THEOREM EffectsByOnePath == Spec => []OneEffect
<1>1. Init => IInv /\ Effects
  BY InitSound, EffectsInit
<1>2. IInv /\ Effects /\ [Next]_vars => IInv' /\ Effects'
  BY StepSound, EffectsStep
<1>3. IInv /\ Effects => OneEffect
  BY EffectsAreSingle
<1> QED
  BY <1>1, <1>2, <1>3, PTL DEF Spec

-----------------------------------------------------------------------------
(* What origins are told.                                                  *)

\* Every issued slot is below the counter of its origin.
SlotsTaken ==
    \A op \in Ops : content[op] \in Contents => LocalSequence(op) < nextSequence[Origin(op)]

\* The operation has had no effect and will have none: it is decided, and not in conflict,
\* or can never be in turn again.
Silent(d, op) ==
    /\ Entries(d, op) = {} /\ d.row[op] # "conflict"
    /\ d.row[op] \in Terminal \/ Overtaken(d, op)

\* Tables d bear out what the origins were told.
BearsOut(d) ==
    \A op \in Ops :
        /\ "applied" \in told[op] => d.row[op] = "applied"
        /\ "conflict" \in told[op] => d.row[op] = "conflict"
        /\ "rejected" \in told[op] => ContestedUpsert(op) \/ Silent(d, op)

\* Nobody is told of an operation that was not issued, and both the committed tables and
\* those of a running batch bear out what was told.
ToldTruly ==
    /\ SlotsTaken
    /\ \A op \in Ops : told[op] # {} => content[op] \in Contents
    /\ BearsOut(db)
    /\ Running => BearsOut(txn.work)

\* An operation overtaken in tables d is overtaken in tables that follow them.
LEMMA OvertakenFollows ==
    ASSUME NEW d \in Databases, NEW e \in Databases, NEW op \in Ops, Overtaken(d, op),
           \A p \in Ops : d.row[p] \in Terminal => e.row[p] \in Terminal
    PROVE  Overtaken(e, op)
<1>1. PICK t \in Settled(d, op) : t > LocalSequence(op)
  BY DEF Overtaken
<1>2. t \in Slots /\ <<Origin(op), t>> \in Ops
  BY <1>1, OpParts DEF Settled, Ops
<1>3. t \in Settled(e, op)
  BY <1>1, <1>2 DEF Settled
<1> QED
  BY <1>1, <1>3 DEF Overtaken

\* Deciding an operation, this one or another, leaves a silent one silent.
LEMMA SilentStays ==
    ASSUME NEW d \in Databases, NEW op \in Ops, NEW r, Form(d, op, r),
           NEW p \in Ops, Silent(d, p)
    PROVE  Silent(r.db, p)
<1>1. CASE Replays(d, op, r) \/ Escapes(d, op, r)
  BY <1>1 DEF Replays, Escapes
<1>2. CASE Records(d, op, r)
  <2> DEFINE e == r.db
  <2>1. /\ e \in Databases /\ \A q \in Ops \ {op} : e.row[q] = d.row[q]
        /\ d.row[op] \notin Terminal
        /\ LogsOnly(d, e, op, FALSE)
        /\ e.row[op] = "conflict" => ~Overtaken(d, op)
        /\ DOMAIN e.log # DOMAIN d.log => ~Overtaken(d, op)
    BY <1>2 DEF Records
  <2>2. \A q \in Ops : d.row[q] \in Terminal => e.row[q] \in Terminal
    BY <2>1
  <2>3. Overtaken(d, p) => Overtaken(e, p)
    BY <2>1, <2>2, OvertakenFollows
  <2>4. CASE p = op
    <3>1. Overtaken(d, op)
      BY <2>1, <2>4 DEF Silent
    <3>2. DOMAIN e.log = DOMAIN d.log
      BY <2>1, <3>1
    <3>3. Entries(e, p) = {}
      BY <2>1, <2>4, <3>2 DEF LogsOnly, Entries, Silent
    <3> QED
      BY <2>1, <2>3, <2>4, <3>1, <3>3 DEF Silent
  <2>5. CASE p # op
    <3>1. FALSE \in BOOLEAN
      OBVIOUS
    <3>2. Entries(e, p) = Entries(d, p)
      BY <2>1, <2>5, <3>1, OtherEntries
    <3> QED
      BY <2>1, <2>3, <2>5, <3>2 DEF Silent
  <2> QED
    BY <2>4, <2>5
<1> QED
  BY <1>1, <1>2 DEF Form

\* What is recorded is borne out when it is told.
LEMMA RecordedIsTrue ==
    ASSUME NEW d \in Databases, SoundDb(d), SoundEffects(d), NEW op \in Ops,
           d.row[op] \in Terminal
    PROVE  /\ Recorded(d.row[op]) = "applied" => d.row[op] = "applied"
           /\ Recorded(d.row[op]) = "conflict" => d.row[op] = "conflict"
           /\ Recorded(d.row[op]) = "rejected" => Silent(d, op)
<1>1. CASE d.row[op] \in {"rejected", "cleared_rejected"}
  BY <1>1, NoEffect DEF Recorded, Silent
<1>2. CASE d.row[op] \in {"applied", "conflict"}
  BY <1>2 DEF Recorded
<1> QED
  BY <1>1, <1>2 DEF Terminal

\* Tables that follow others, and leave the silent operations silent, bear out the same.
LEMMA StillBorneOut ==
    ASSUME NEW d \in Databases, NEW e \in Databases, BearsOut(d),
           \A op \in Ops : /\ d.row[op] \in {"applied", "conflict"} => e.row[op] = d.row[op]
                           /\ Silent(d, op) => Silent(e, op)
    PROVE  BearsOut(e)
BY DEF BearsOut

\* So do the tables an operation leaves.
LEMMA OutcomeBorneOut ==
    ASSUME NEW d \in Databases, BearsOut(d), NEW op \in Ops, NEW r, Form(d, op, r)
    PROVE  BearsOut(r.db)
<1>1. CASE Replays(d, op, r) \/ Escapes(d, op, r)
  BY <1>1 DEF Replays, Escapes
<1>2. CASE Records(d, op, r)
  <2>1. /\ r.db \in Databases /\ \A p \in Ops \ {op} : r.db.row[p] = d.row[p]
        /\ d.row[op] \notin Terminal
    BY <1>2 DEF Records
  <2>2. \A p \in Ops : d.row[p] \in {"applied", "conflict"} => r.db.row[p] = d.row[p]
    BY <2>1 DEF Terminal
  <2>3. \A p \in Ops : Silent(d, p) => Silent(r.db, p)
    BY SilentStays
  <2> QED
    BY <2>1, <2>2, <2>3, StillBorneOut
<1> QED
  BY <1>1, <1>2 DEF Form

\* Rows that are rejected or cleared leave the silent operations silent.
LEMMA RewrittenBorneOut ==
    ASSUME NEW d \in Databases, NEW e \in Databases, BearsOut(d), e.log = d.log,
           \A op \in Ops : e.row[op] # d.row[op] =>
              /\ d.row[op] \notin {"applied", "conflict"}
              /\ e.row[op] \in {"rejected", "cleared_rejected"}
    PROVE  BearsOut(e)
<1>1. \A op \in Ops : d.row[op] \in Terminal => e.row[op] \in Terminal
  BY DEF Terminal
<1>2. \A op \in Ops : Entries(e, op) = Entries(d, op)
  BY DEF Entries
<1>3. \A op \in Ops : Silent(d, op) => Silent(e, op)
  BY <1>1, <1>2, OvertakenFollows DEF Silent
<1> QED
  BY <1>3, StillBorneOut

\* Verdict v of operation op is true of tables d.
IsTrue(d, op, v) ==
    /\ v = "applied" => d.row[op] = "applied"
    /\ v = "conflict" => d.row[op] = "conflict"
    /\ v = "rejected" => ContestedUpsert(op) \/ Silent(d, op)

\* Telling more that is true.
LEMMA TellTrue ==
    ASSUME BearsOut(db'), UNCHANGED content,
           \A op \in Ops : \A v \in told'[op] : v \in told[op] \/ IsTrue(db', op, v)
    PROVE  BearsOut(db)'
<1>1. \A op \in Ops : \A v \in told'[op] : IsTrue(db', op, v)
  BY DEF BearsOut, IsTrue
<1>2. \A op \in Ops : ContestedUpsert(op)' = ContestedUpsert(op)
  BY DEF ContestedUpsert
<1> QED
  BY <1>1, <1>2 DEF BearsOut, IsTrue, Silent, Entries, Overtaken, Settled

\* A step that tells nothing and issues nothing.
LEMMA TellNothing ==
    ASSUME ToldTruly, UNCHANGED <<nextSequence, content, told>>,
           BearsOut(db'), Running' => BearsOut(txn'.work)
    PROVE  ToldTruly'
<1>1. \A op \in Ops : ContestedUpsert(op)' = ContestedUpsert(op)
  BY DEF ContestedUpsert
<1> QED
  BY <1>1 DEF ToldTruly, SlotsTaken, BearsOut, Silent, Entries, Overtaken, Settled

\* A step after which no batch is running.
LEMMA TellAll ==
    ASSUME ToldTruly, UNCHANGED <<nextSequence, content>>, BearsOut(db)', ~Running',
           \A op \in Ops : told'[op] # {} => content[op] \in Contents
    PROVE  ToldTruly'
BY DEF ToldTruly, SlotsTaken

\* The operations of an issued unit have been issued.
LEMMA UnitsAreOps ==
    ASSUME TypeOK, UnitsIssued, NEW op \in Ops, content[op] \in Contents,
           NEW o \in BatchOps(Origin(op), content[op].first, content[op].last)
    PROVE  o \in Ops /\ content[o] \in Contents
<1>1. content[op].first \in Slots /\ content[op].last \in Slots /\ Origin(op) \in Nodes
  BY OpParts DEF Contents
<1>2. o \in Ops
  BY <1>1, BoundsAssumption DEF BatchOps, Ops, Slots
<1> QED
  BY <1>2 DEF UnitsIssued

LEMMA ToldStep ==
    ASSUME IInv, Effects, ToldTruly, [Next]_vars
    PROVE  ToldTruly'
<1>1. db \in Databases /\ SoundDb(db) /\ TypeOK /\ UnitsIssued /\ SoundEffects(db)
      /\ BearsOut(db)
  BY DEF IInv, TypeOK, Effects, ToldTruly
<1>2. ASSUME NEW n \in Nodes, IssueOperation(n) \/ IssueBatch(n) PROVE ToldTruly'
  <2>1. PICK first \in Slots, last \in Slots, batched \in BOOLEAN, atomic \in BOOLEAN :
           IssuesUnit(n, first, last, batched, atomic)
    BY <1>1, <1>2, IssueForms
  <2>2. /\ first = nextSequence[n] /\ first \in Nat /\ last \in Nat /\ first <= last
        /\ nextSequence' = [nextSequence EXCEPT ![n] = last + 1]
        /\ UNCHANGED <<db, txn, told>>
        /\ \A op \in Ops :
              IF Origin(op) = n /\ LocalSequence(op) \in first .. last
                THEN content'[op] \in Contents ELSE content'[op] = content[op]
    BY <2>1, BoundsAssumption DEF IssuesUnit, Slots
  <2>3. \A op \in Ops : content[op] \in Contents => content'[op] = content[op]
    <3> SUFFICES ASSUME NEW op \in Ops, content[op] \in Contents
                 PROVE  ~(Origin(op) = n /\ LocalSequence(op) \in first .. last)
      BY <2>2
    <3>1. LocalSequence(op) < nextSequence[Origin(op)] /\ LocalSequence(op) \in Nat
      BY OpParts DEF ToldTruly, SlotsTaken
    <3> QED
      BY <2>2, <3>1
  <2>4. SlotsTaken'
    <3> SUFFICES ASSUME NEW op \in Ops, content'[op] \in Contents
                 PROVE  LocalSequence(op) < nextSequence'[Origin(op)]
      BY DEF SlotsTaken
    <3>1. LocalSequence(op) \in Nat /\ Origin(op) \in Nodes
      BY OpParts
    <3>2. nextSequence'[n] = last + 1
          /\ (Origin(op) # n => nextSequence'[Origin(op)] = nextSequence[Origin(op)])
      BY <1>1, <2>2, <3>1 DEF TypeOK
    <3>3. CASE Origin(op) = n /\ LocalSequence(op) \in first .. last
      BY <2>2, <3>1, <3>2, <3>3
    <3>4. CASE ~(Origin(op) = n /\ LocalSequence(op) \in first .. last)
      <4>1. LocalSequence(op) < nextSequence[Origin(op)]
        BY <2>2, <3>4 DEF ToldTruly, SlotsTaken
      <4>2. CASE Origin(op) = n
        BY <2>2, <3>1, <3>2, <4>1, <4>2
      <4>3. CASE Origin(op) # n
        BY <3>2, <4>1, <4>3
      <4> QED
        BY <4>2, <4>3
    <3> QED
      BY <3>3, <3>4
  <2>5. \A op \in Ops : told[op] # {} =>
           content'[op] \in Contents /\ ContestedUpsert(op)' = ContestedUpsert(op)
    BY <2>3 DEF ToldTruly, ContestedUpsert
  <2>6. \A op \in Ops : told'[op] # {} => content'[op] \in Contents
    BY <2>2, <2>5
  <2>7. BearsOut(db)'
    BY <1>1, <2>2, <2>5 DEF BearsOut, Silent, Entries, Overtaken, Settled
  <2>8. Running' => BearsOut(txn.work)'
    BY <2>2, <2>5 DEF ToldTruly, Running, BearsOut, Silent, Entries, Overtaken, Settled
  <2> QED
    BY <2>4, <2>6, <2>7, <2>8 DEF ToldTruly
<1>3. ASSUME NEW op \in Ops, ApplyOperation(op) PROVE ToldTruly'
  <2>1. /\ content[op] \in Contents /\ txn = NoTxn /\ txn' = NoTxn
        /\ UNCHANGED <<nextSequence, content>>
    BY <1>1, <1>3 DEF ApplyOperation, TypeOK
  <2>2. PICK r \in Outcomes(db, op) :
           /\ db' = IF r.status = "invalid" THEN db ELSE r.db
           /\ told' = [told EXCEPT ![op] = @ \cup Reported(r.status)]
    BY <1>3 DEF ApplyOperation, Decide
  <2>3. Form(db, op, r)
    BY <1>1, <2>1, OutcomeForms
  <2>4. BearsOut(db')
    BY <1>1, <2>2, <2>3, OutcomeBorneOut
  <2>5. ASSUME NEW v \in Reported(r.status)
        PROVE  IsTrue(db', op, v)
    <3>1. CASE Replays(db, op, r)
      <4>1. r.db = db /\ db' = db /\ v = Recorded(db.row[op]) /\ db.row[op] \in Terminal
        BY <2>2, <2>5, <3>1 DEF Replays, Recorded, Terminal, Reported, Verdicts
      <4> QED
        BY <1>1, <4>1, RecordedIsTrue DEF IsTrue
    <3>2. CASE Escapes(db, op, r)
      <4>1. /\ db' = db /\ v = "rejected" /\ db.row[op] \notin Terminal
            /\ Overtaken(db, op) \/ ContestedUpsert(op)
        BY <2>2, <2>5, <3>2 DEF Escapes, Reported, Verdicts
      <4>2. Entries(db, op) = {} /\ db.row[op] # "conflict"
        BY <1>1, <4>1, NoEffect DEF Terminal
      <4> QED
        BY <4>1, <4>2 DEF IsTrue, Silent
    <3>3. CASE Records(db, op, r)
      <4>1. v \in Verdicts /\ r.status = v /\ r.db.row[op] = v /\ db' = r.db
        BY <2>2, <2>5, <3>3 DEF Records, Reported, Verdicts
      <4>2. r.db \in Databases /\ SoundDb(r.db)
        BY <1>1, <2>1, OutcomesSound
      <4>3. SoundEffects(r.db)
        BY <1>1, <2>3, OutcomeEffects
      <4>4. r.db.row[op] = "rejected" => Silent(r.db, op)
        BY <4>2, <4>3, RecordedIsTrue DEF Recorded, Terminal
      <4> QED
        BY <4>1, <4>4 DEF IsTrue
    <3> QED
      BY <2>3, <3>1, <3>2, <3>3 DEF Form
  <2>6. \A o \in Ops : told'[o] = IF o = op THEN told[op] \cup Reported(r.status) ELSE told[o]
    BY <1>1, <2>2 DEF TypeOK
  <2>7. BearsOut(db)'
    BY <2>1, <2>4, <2>5, <2>6, TellTrue
  <2>8. \A o \in Ops : told'[o] # {} => content[o] \in Contents
    BY <2>1, <2>6 DEF ToldTruly
  <2> QED
    BY <2>1, <2>7, <2>8, TellAll DEF Running
<1>4. ASSUME NEW op \in Ops, ReplayBatch(op) PROVE ToldTruly'
  <2> DEFINE batch == BatchOps(Origin(op), content[op].first, content[op].last)
  <2>1. /\ txn = NoTxn /\ UNCHANGED <<nextSequence, content, db, txn>>
        /\ \A o \in batch : db.row[o] \in Terminal
        /\ told' = [o \in Ops |->
              IF o \in batch THEN told[o] \cup {Recorded(db.row[o])} ELSE told[o]]
        /\ content[op] \in Contents
    BY <1>1, <1>4 DEF ReplayBatch, TypeOK
  <2>2. \A o \in batch : o \in Ops /\ content[o] \in Contents
    BY <1>1, <2>1, UnitsAreOps
  <2>3. \A o \in batch : IsTrue(db, o, Recorded(db.row[o]))
    BY <1>1, <2>1, <2>2, RecordedIsTrue DEF IsTrue
  <2> HIDE DEF batch
  <2>4. BearsOut(db)'
    BY <1>1, <2>1, <2>3, TellTrue
  <2>5. \A o \in Ops : told'[o] # {} => content[o] \in Contents
    BY <2>1, <2>2 DEF ToldTruly
  <2> QED
    BY <2>1, <2>4, <2>5, TellAll DEF Running
<1>5. ASSUME NEW op \in Ops, BeginBatch(op) PROVE ToldTruly'
  <2>1. UNCHANGED <<nextSequence, content, db, told>> /\ txn'.work = db
    BY <1>5 DEF BeginBatch
  <2> QED
    BY <1>1, <2>1, TellNothing
<1>6. CASE StepBatch
  <2>1. /\ UNCHANGED <<nextSequence, content, db, told>> /\ Running /\ txn \in Txns
        /\ txn.work \in Databases
    BY <1>6, BatchTurn
  <2>2. PICK op \in Ops : \E r : Turn(op, r)
    BY <1>6, BatchTurn
  <2>3. PICK r : Turn(op, r)
    BY <2>2
  <2>4. BearsOut(r.db)
    BY <2>1, <2>3, OutcomeBorneOut DEF Turn, ToldTruly
  <2>5. Running' => BearsOut(txn'.work)
    BY <2>1, <2>3, <2>4, AfterTurn DEF Running
  <2> QED
    BY <1>1, <2>1, <2>5, TellNothing
<1>7. CASE CommitBatch
  <2> DEFINE batch == BatchOps(txn.node, txn.first, txn.last)
  <2>1. /\ Running /\ txn # NoTxn /\ txn.next > txn.last
        /\ db' = txn.work /\ txn' = NoTxn /\ UNCHANGED <<nextSequence, content>>
        /\ told' = [o \in Ops |->
              IF o \in batch THEN told[o] \cup {Recorded(txn.work.row[o])} ELSE told[o]]
    BY <1>7 DEF CommitBatch, Running
  <2>2. txn \in Txns /\ txn.work \in Databases
    BY <2>1 DEF IInv, TypeOK, Txns
  <2>3. /\ SoundDb(txn.work) /\ SoundEffects(txn.work) /\ BearsOut(txn.work)
        /\ \A o \in batch : content[o] \in Contents
        /\ \A s \in txn.first .. txn.next - 1 : txn.work.row[<<txn.node, s>>] \in Terminal
    BY <2>1 DEF IInv, SoundTxn, Effects, ToldTruly
  <2>4. ASSUME NEW o \in batch PROVE o \in Ops /\ txn.work.row[o] \in Terminal
    <3>1. PICK s \in txn.first .. txn.last : o = <<txn.node, s>>
      BY <2>4 DEF BatchOps
    <3>2. /\ txn.first \in Nat /\ txn.last \in Nat /\ txn.next \in Nat /\ txn.last < MaxOps
          /\ txn.node \in Nodes
      BY <2>2, BoundsAssumption DEF Txns, Slots
    <3>3. s \in Slots /\ s \in txn.first .. txn.next - 1
      BY <2>1, <3>1, <3>2, BoundsAssumption DEF Slots
    <3> QED
      BY <2>3, <3>1, <3>2, <3>3 DEF Ops
  <2>5. \A o \in batch : IsTrue(txn.work, o, Recorded(txn.work.row[o]))
    BY <2>2, <2>3, <2>4, RecordedIsTrue DEF IsTrue
  <2> HIDE DEF batch
  <2>6. BearsOut(db)'
    BY <2>1, <2>3, <2>5, TellTrue
  <2>7. \A o \in Ops : told'[o] # {} => content[o] \in Contents
    BY <2>1, <2>3 DEF ToldTruly
  <2> QED
    BY <2>1, <2>6, <2>7, TellAll DEF Running
<1>8. CASE PersistRejections
  <2> DEFINE batch == BatchOps(txn.node, txn.first, txn.last)
             rows == [op \in Ops |-> IF op \in batch THEN "rejected" ELSE db.row[op]]
  <2>1. /\ txn # NoTxn /\ txn' = NoTxn /\ db' = [db EXCEPT !.row = rows]
        /\ UNCHANGED <<nextSequence, content>>
        /\ told' = [o \in Ops |->
              IF o \in batch THEN told[o] \cup {"rejected"} ELSE told[o]]
    BY <1>8 DEF PersistRejections
  <2>2. \A op \in batch : db.row[op] = "none" /\ content[op] \in Contents
    BY <2>1 DEF IInv, SoundTxn
  <2>3. rows \in [Ops -> RowStatus]
    BY <1>1 DEF Databases, RowStatus, Terminal
  <2>4. \A op \in Ops : rows[op] = IF op \in batch THEN "rejected" ELSE db.row[op]
    OBVIOUS
  <2> HIDE DEF rows, batch
  <2>5. db' \in Databases /\ db'.row = rows /\ db'.log = db.log
    BY <1>1, <2>1, <2>3, RowsRewritten
  <2>6. BearsOut(db')
    BY <1>1, <2>2, <2>4, <2>5, RewrittenBorneOut
  <2>7. ASSUME NEW op \in Ops, op \in batch PROVE IsTrue(db', op, "rejected")
    <3>1. Entries(db, op) = {}
      BY <1>1, <2>2, <2>7, NoEffect
    <3> QED
      BY <2>4, <2>5, <2>7, <3>1 DEF IsTrue, Silent, Entries, Terminal
  <2>8. BearsOut(db)'
    BY <2>1, <2>6, <2>7, TellTrue
  <2>9. \A o \in Ops : told'[o] # {} => content[o] \in Contents
    BY <2>1, <2>2 DEF ToldTruly
  <2> QED
    BY <2>1, <2>8, <2>9, TellAll DEF Running
<1>9. CASE FailBatch
  BY <1>1, <1>9, TellNothing DEF FailBatch, Running
<1>10. ASSUME NEW op \in Ops, ResolveConflict(op) PROVE ToldTruly'
  <2>1. /\ ~Running /\ op \in db.open /\ db' \in Databases
        /\ UNCHANGED <<nextSequence, content, txn, told>>
        /\ db'.row = db.row /\ LogsOnly(db, db', op, TRUE)
    BY <1>1, <1>10, ResolutionForm
  <2>2. db.row[op] = "conflict"
    BY <1>1, <2>1 DEF SoundEffects
  <2>3. \A p \in Ops \ {op} : Entries(db', p) = Entries(db, p)
    BY <1>1, <2>1, OtherEntries
  <2>4. \A p \in Ops : Silent(db, p) => Silent(db', p)
    BY <2>1, <2>2, <2>3 DEF Silent, Overtaken, Settled
  <2>5. BearsOut(db')
    BY <1>1, <2>1, <2>4, StillBorneOut
  <2> QED
    BY <2>1, <2>5, TellNothing DEF Running
<1>11. CASE ClearRejected
  <2> DEFINE rows == [op \in Ops |-> IF db.row[op] = "rejected" THEN "cleared_rejected"
                                     ELSE db.row[op]]
  <2>1. /\ ~Running /\ db' = [db EXCEPT !.row = rows]
        /\ UNCHANGED <<nextSequence, content, txn, told>>
    BY <1>11 DEF ClearRejected
  <2>2. rows \in [Ops -> RowStatus]
    BY <1>1 DEF Databases, RowStatus, Terminal
  <2>3. \A op \in Ops : rows[op] # db.row[op] =>
           db.row[op] = "rejected" /\ rows[op] = "cleared_rejected"
    OBVIOUS
  <2> HIDE DEF rows
  <2>4. db' \in Databases /\ db'.row = rows /\ db'.log = db.log
    BY <1>1, <2>1, <2>2, RowsRewritten
  <2>5. BearsOut(db')
    BY <1>1, <2>3, <2>4, RewrittenBorneOut
  <2> QED
    BY <2>1, <2>5, TellNothing DEF Running
<1>12. CASE UNCHANGED vars
  BY <1>1, <1>12, TellNothing DEF vars, Running, ToldTruly
<1> QED
  BY <1>2, <1>3, <1>4, <1>5, <1>6, <1>7, <1>8, <1>9, <1>10, <1>11, <1>12 DEF Next

LEMMA ToldInit == Init => ToldTruly
<1> SUFFICES ASSUME Init PROVE ToldTruly
  OBVIOUS
<1>1. \A op \in Ops : content[op] \notin Contents /\ told[op] = {}
  BY NoContentAssumption DEF Init
<1> QED
  BY <1>1 DEF Init, ToldTruly, SlotsTaken, BearsOut, Running

\* A reported verdict is the one the tables hold, now and later, and an operation reported
\* rejected never takes effect, however its frames are repeated or its batch fails:
\* what applyOperation and applyBatch return can be relied on by the queue of the origin.
THEOREM VerdictsAreTrue == Spec => []Agreement
<1>1. Init => IInv /\ Effects /\ ToldTruly
  BY InitSound, EffectsInit, ToldInit
<1>2. IInv /\ Effects /\ ToldTruly /\ [Next]_vars => IInv' /\ Effects' /\ ToldTruly'
  BY StepSound, EffectsStep, ToldStep
<1>3. ToldTruly => Agreement
  BY DEF ToldTruly, BearsOut, Silent, Entries, ContestedUpsert, Agreement
<1> QED
  BY <1>1, <1>2, <1>3, PTL DEF Spec

-----------------------------------------------------------------------------
(* Batches are whole.                                                      *)

\* The operations issued together with o.
Unit(o) == BatchOps(Origin(o), content[o].first, content[o].last)

\* An operation lies in its unit, below the counter of its origin, and the operations of
\* a unit agree on it.
UnitsAgree ==
    \A o \in Ops : content[o] \in Contents =>
        /\ content[o].first <= LocalSequence(o) /\ LocalSequence(o) <= content[o].last
        /\ content[o].last < nextSequence[Origin(o)]
        /\ \A p \in Unit(o) :
              /\ content[p].first = content[o].first /\ content[p].last = content[o].last
              /\ content[p].batched = content[o].batched
              /\ content[p].atomic = content[o].atomic

\* Rows p and q of one batch go together.
Together(d, p, q, atomic) ==
    /\ d.row[p] = "none" <=> d.row[q] = "none"
    /\ d.row[p] # "received"
    /\ atomic => (d.row[p] = "applied" <=> d.row[q] = "applied") /\ d.row[p] # "conflict"

WholeBatches(d) ==
    \A o \in Ops : content[o] \in Contents /\ content[o].batched =>
        \A p \in Unit(o) : Together(d, o, p, content[o].atomic)

RowsIssued(d) == \A o \in Ops : d.row[o] # "none" => content[o] \in Contents

\* The batch in progress is a unit.  While it is running, its rows are decided up to the
\* operation that is next, and no other row has changed.
BatchInProgress ==
    txn # NoTxn =>
        /\ \A p \in BatchOps(txn.node, txn.first, txn.last) :
              /\ content[p].batched /\ content[p].atomic = txn.atomic
              /\ content[p].first = txn.first /\ content[p].last = txn.last
        /\ Running =>
              /\ \A p \in Ops \ BatchOps(txn.node, txn.first, txn.last) :
                    txn.work.row[p] = db.row[p]
              /\ \A s \in txn.first .. txn.next - 1 :
                    /\ txn.work.row[<<txn.node, s>>] \in {"applied", "conflict"}
                    /\ txn.atomic => txn.work.row[<<txn.node, s>>] = "applied"
              /\ \A s \in txn.next .. txn.last : txn.work.row[<<txn.node, s>>] = "none"

Batches == UnitsAgree /\ RowsIssued(db) /\ WholeBatches(db) /\ BatchInProgress

-----------------------------------------------------------------------------
(* Units.                                                                  *)

LEMMA UnitParts ==
    ASSUME TypeOK, UnitsIssued, UnitsAgree, NEW o \in Ops, content[o] \in Contents
    PROVE  /\ o \in Unit(o)
           /\ \A p \in Unit(o) : /\ p \in Ops /\ content[p] \in Contents
                                 /\ Origin(p) = Origin(o) /\ Unit(p) = Unit(o)
<1>1. /\ content[o].first \in Nat /\ content[o].last \in Nat
      /\ LocalSequence(o) \in Nat /\ o = <<Origin(o), LocalSequence(o)>>
  BY OpParts, BoundsAssumption DEF Contents, Slots
<1>2. o \in Unit(o)
  BY <1>1 DEF Unit, BatchOps, UnitsAgree
<1>3. ASSUME NEW p \in Unit(o)
      PROVE  /\ p \in Ops /\ content[p] \in Contents
             /\ Origin(p) = Origin(o) /\ Unit(p) = Unit(o)
  <2>1. p \in Ops /\ content[p] \in Contents
    BY <1>3, UnitsAreOps DEF Unit
  <2>2. Origin(p) = Origin(o)
    BY <1>3 DEF Unit, BatchOps, Origin
  <2>3. content[p].first = content[o].first /\ content[p].last = content[o].last
    BY <1>3 DEF UnitsAgree
  <2> QED
    BY <2>1, <2>2, <2>3 DEF Unit
<1> QED
  BY <1>2, <1>3

\* The batch in progress is the unit of each of its operations, and no other unit has any
\* of them.
LEMMA TxnUnit ==
    ASSUME IInv, UnitsAgree, BatchInProgress, txn # NoTxn
    PROVE  LET batch == BatchOps(txn.node, txn.first, txn.last)
           IN  /\ \A p \in batch : p \in Ops /\ content[p] \in Contents /\ Unit(p) = batch
               /\ \A o \in Ops : content[o] \in Contents /\ o \notin batch =>
                     \A p \in Unit(o) : p \notin batch
<1> DEFINE batch == BatchOps(txn.node, txn.first, txn.last)
<1>1. txn \in Txns /\ TypeOK /\ UnitsIssued
  BY DEF IInv, TypeOK
<1>2. ASSUME NEW p \in batch
      PROVE  p \in Ops /\ content[p] \in Contents /\ Unit(p) = batch
  <2>1. p \in Ops /\ Origin(p) = txn.node
    BY <1>1, <1>2, BoundsAssumption DEF BatchOps, Ops, Txns, Slots, Origin
  <2>2. content[p] \in Contents
    BY <1>2 DEF IInv, SoundTxn
  <2>3. content[p].first = txn.first /\ content[p].last = txn.last
    BY <1>2 DEF BatchInProgress
  <2> QED
    BY <2>1, <2>2, <2>3 DEF Unit
<1>3. ASSUME NEW o \in Ops, content[o] \in Contents, o \notin batch, NEW p \in Unit(o),
             p \in batch
      PROVE  FALSE
  <2>1. o \in Unit(o) /\ Unit(p) = Unit(o)
    BY <1>1, <1>3, UnitParts
  <2>2. Unit(p) = batch
    BY <1>2, <1>3
  <2> QED
    BY <1>3, <2>1, <2>2
<1> HIDE DEF batch
<1>4. /\ \A p \in batch : p \in Ops /\ content[p] \in Contents /\ Unit(p) = batch
      /\ \A o \in Ops : content[o] \in Contents /\ o \notin batch =>
            \A p \in Unit(o) : p \notin batch
  BY <1>2, <1>3
<1> QED
  BY <1>4 DEF batch

\* Issuing a unit leaves the others as they are.
LEMMA IssueKeepsUnits ==
    ASSUME IInv, Batches, NEW n \in Nodes, NEW first \in Slots, NEW last \in Slots,
           NEW batched \in BOOLEAN, NEW atomic \in BOOLEAN,
           IssuesUnit(n, first, last, batched, atomic)
    PROVE  /\ \A o \in Ops : content[o] \in Contents => content'[o] = content[o]
           /\ \A o \in Ops : content'[o] # content[o] =>
                 /\ Origin(o) = n /\ LocalSequence(o) \in first .. last
                 /\ content[o] \notin Contents
           /\ UnitsAgree'
<1>1. /\ first = nextSequence[n] /\ first \in Nat /\ last \in Nat /\ first <= last
      /\ nextSequence' = [nextSequence EXCEPT ![n] = last + 1]
      /\ \A op \in Ops :
            IF Origin(op) = n /\ LocalSequence(op) \in first .. last
              THEN /\ content'[op] \in Contents
                   /\ content'[op].first = first /\ content'[op].last = last
                   /\ content'[op].batched = batched /\ content'[op].atomic = atomic
              ELSE content'[op] = content[op]
  BY BoundsAssumption DEF IssuesUnit, Slots
<1>2. nextSequence \in [Nodes -> 0 .. MaxOps] /\ TypeOK /\ UnitsIssued /\ UnitsAgree
  BY DEF IInv, TypeOK, Batches
<1>3. ASSUME NEW o \in Ops, content[o] \in Contents
      PROVE  /\ ~(Origin(o) = n /\ LocalSequence(o) \in first .. last)
             /\ content[o].last \in Nat /\ content[o].last < nextSequence[Origin(o)]
  <2>1. /\ LocalSequence(o) <= content[o].last /\ content[o].last < nextSequence[Origin(o)]
        /\ LocalSequence(o) \in Nat /\ content[o].last \in Nat
    BY <1>2, <1>3, OpParts, BoundsAssumption DEF UnitsAgree, Contents, Slots
  <2>2. nextSequence[Origin(o)] \in Nat
    BY <1>2, OpParts
  <2> QED
    BY <1>1, <2>1, <2>2
<1>4. \A o \in Ops : content[o] \in Contents => content'[o] = content[o]
  BY <1>1, <1>3
<1>5. \A o \in Ops : content'[o] # content[o] =>
         /\ Origin(o) = n /\ LocalSequence(o) \in first .. last
         /\ content[o] \notin Contents
  BY <1>1, <1>3
<1>6. UnitsAgree'
  <2> SUFFICES ASSUME NEW o \in Ops, content'[o] \in Contents
               PROVE  /\ content'[o].first <= LocalSequence(o)
                      /\ LocalSequence(o) <= content'[o].last
                      /\ content'[o].last < nextSequence'[Origin(o)]
                      /\ \A p \in BatchOps(Origin(o), content'[o].first, content'[o].last) :
                            /\ content'[p].first = content'[o].first
                            /\ content'[p].last = content'[o].last
                            /\ content'[p].batched = content'[o].batched
                            /\ content'[p].atomic = content'[o].atomic
    BY DEF UnitsAgree, Unit
  <2>1. Origin(o) \in Nodes /\ LocalSequence(o) \in Nat
    BY OpParts
  <2>2. CASE Origin(o) = n /\ LocalSequence(o) \in first .. last
    <3>1. /\ content'[o].first = first /\ content'[o].last = last
          /\ content'[o].batched = batched /\ content'[o].atomic = atomic
          /\ nextSequence'[n] = last + 1
      BY <1>1, <1>2, <2>2
    <3>2. ASSUME NEW p \in BatchOps(n, first, last)
          PROVE  /\ content'[p].first = first /\ content'[p].last = last
                 /\ content'[p].batched = batched /\ content'[p].atomic = atomic
      <4>1. PICK s \in first .. last : p = <<n, s>>
        BY <3>2 DEF BatchOps
      <4>2. s \in Slots
        BY <1>1, <4>1, BoundsAssumption DEF Slots
      <4>3. p \in Ops /\ Origin(p) = n /\ LocalSequence(p) = s
        BY <4>1, <4>2 DEF Ops, Origin, LocalSequence
      <4> QED
        BY <1>1, <4>1, <4>3
    <3> QED
      BY <1>1, <2>1, <2>2, <3>1, <3>2
  <2>3. CASE ~(Origin(o) = n /\ LocalSequence(o) \in first .. last)
    <3>1. content'[o] = content[o]
      BY <1>1, <2>3
    <3>2. content[o].last < nextSequence'[Origin(o)]
      <4>1. /\ content[o].last \in Nat /\ content[o].last < nextSequence[Origin(o)]
        BY <1>3, <3>1
      <4>2. CASE Origin(o) = n
        BY <1>1, <1>2, <2>1, <4>1, <4>2
      <4>3. CASE Origin(o) # n
        BY <1>1, <1>2, <2>1, <4>1, <4>3
      <4> QED
        BY <4>2, <4>3
    <3>3. \A p \in Unit(o) : content'[p] = content[p]
      BY <1>2, <1>4, <3>1, UnitParts
    <3> QED
      BY <1>2, <3>1, <3>2, <3>3 DEF UnitsAgree, Unit
  <2> QED
    BY <2>2, <2>3
<1> QED
  BY <1>4, <1>5, <1>6

-----------------------------------------------------------------------------
(* Batches stay whole.                                                     *)

\* A step that issues nothing: what is left to show of it.
LEMMA RowsChange ==
    ASSUME IInv, Batches, UNCHANGED <<nextSequence, content>>,
           RowsIssued(db'), WholeBatches(db'), BatchInProgress'
    PROVE  Batches'
<1>1. \A o : Unit(o)' = Unit(o)
  BY DEF Unit
<1> QED
  BY <1>1 DEF Batches, UnitsAgree, RowsIssued, WholeBatches, Together

\* Tables that change no row of a batch.
LEMMA SameBatches ==
    ASSUME TypeOK, UnitsIssued, UnitsAgree, NEW d, NEW e, WholeBatches(d),
           \A o \in Ops : content[o] \in Contents /\ content[o].batched => e.row[o] = d.row[o]
    PROVE  WholeBatches(e)
<1> SUFFICES ASSUME NEW o \in Ops, content[o] \in Contents, content[o].batched,
                    NEW p \in Unit(o)
             PROVE  Together(e, o, p, content[o].atomic)
  BY DEF WholeBatches
<1>1. p \in Ops /\ content[p] \in Contents
  BY UnitParts
<1>2. content[p].batched
  BY DEF UnitsAgree
<1> QED
  BY <1>1, <1>2 DEF WholeBatches, Together

\* Tables that decide the batch in progress, as one, and change no other row.
LEMMA BatchDecided ==
    ASSUME IInv, Batches, txn # NoTxn, NEW e \in Databases,
           \A p \in Ops \ BatchOps(txn.node, txn.first, txn.last) : e.row[p] = db.row[p],
           \A p \in BatchOps(txn.node, txn.first, txn.last) :
              /\ e.row[p] \in {"applied", "conflict", "rejected"}
              /\ txn.atomic => e.row[p] # "conflict",
           txn.atomic =>
              \A p, q \in BatchOps(txn.node, txn.first, txn.last) : e.row[p] = e.row[q]
    PROVE  WholeBatches(e) /\ RowsIssued(e)
<1> DEFINE batch == BatchOps(txn.node, txn.first, txn.last)
<1>1. TypeOK /\ UnitsIssued /\ UnitsAgree /\ BatchInProgress /\ WholeBatches(db)
      /\ RowsIssued(db)
  BY DEF IInv, Batches
<1>2. /\ \A p \in batch : p \in Ops /\ content[p] \in Contents /\ Unit(p) = batch
      /\ \A o \in Ops : content[o] \in Contents /\ o \notin batch =>
            \A p \in Unit(o) : p \notin batch
  BY <1>1, TxnUnit
<1>3. \A p \in batch : content[p].atomic = txn.atomic
  BY <1>1 DEF BatchInProgress
<1>4. \A p \in Ops \ batch : e.row[p] = db.row[p]
  OBVIOUS
<1>5. \A p \in batch : /\ e.row[p] \in {"applied", "conflict", "rejected"}
                       /\ txn.atomic => e.row[p] # "conflict"
  OBVIOUS
<1>6. txn.atomic => \A p, q \in batch : e.row[p] = e.row[q]
  OBVIOUS
<1> HIDE DEF batch
<1>7. ASSUME NEW o \in Ops, content[o] \in Contents, content[o].batched, NEW p \in Unit(o)
      PROVE  Together(e, o, p, content[o].atomic)
  <2>1. CASE o \in batch
    <3>1. p \in batch
      BY <1>2, <1>7, <2>1
    <3> QED
      BY <1>3, <1>5, <1>6, <2>1, <3>1 DEF Together
  <2>2. CASE o \notin batch
    <3>1. p \in Ops \ batch
      BY <1>1, <1>2, <1>7, <2>2, UnitParts
    <3> QED
      BY <1>1, <1>4, <1>7, <2>2, <3>1 DEF WholeBatches, Together
  <2> QED
    BY <2>1, <2>2
<1>8. RowsIssued(e)
  BY <1>1, <1>2, <1>4 DEF RowsIssued
<1> QED
  BY <1>7, <1>8 DEF WholeBatches

\* Steps of others while a batch is not running.
LEMMA BatchWaits ==
    ASSUME BatchInProgress, UNCHANGED <<content, txn>>, ~Running
    PROVE  BatchInProgress'
BY DEF BatchInProgress, Running

LEMMA BatchesStep ==
    ASSUME IInv, Batches, [Next]_vars
    PROVE  Batches'
<1>1. /\ db \in Databases /\ TypeOK /\ UnitsIssued /\ UnitsAgree /\ BatchInProgress
      /\ WholeBatches(db) /\ RowsIssued(db)
  BY DEF IInv, TypeOK, Batches
<1>2. ASSUME NEW n \in Nodes, IssueOperation(n) \/ IssueBatch(n) PROVE Batches'
  <2>1. PICK first \in Slots, last \in Slots, batched \in BOOLEAN, atomic \in BOOLEAN :
           IssuesUnit(n, first, last, batched, atomic)
    BY <1>1, <1>2, IssueForms
  <2>2. /\ \A o \in Ops : content[o] \in Contents => content'[o] = content[o]
        /\ \A o \in Ops : content'[o] # content[o] => content[o] \notin Contents
        /\ UnitsAgree'
    BY <2>1, IssueKeepsUnits
  <2>3. UNCHANGED <<db, txn>>
    BY <2>1 DEF IssuesUnit
  <2>4. RowsIssued(db)'
    BY <1>1, <2>2, <2>3 DEF RowsIssued
  <2>5. WholeBatches(db)'
    <3> SUFFICES ASSUME NEW o \in Ops, content'[o] \in Contents, content'[o].batched,
                        NEW p \in Unit(o)'
                 PROVE  Together(db, o, p, content'[o].atomic)
      BY <2>3 DEF WholeBatches, Together
    <3>1. CASE content[o] \in Contents
      <4>1. content'[o] = content[o] /\ Unit(o)' = Unit(o)
        BY <2>2, <3>1 DEF Unit
      <4> QED
        BY <1>1, <3>1, <4>1 DEF WholeBatches
    <3>2. CASE content[o] \notin Contents
      <4>1. TypeOK' /\ UnitsIssued'
        BY StepSound DEF IInv
      <4>2. p \in Ops /\ content'[p] \in Contents /\ Unit(p)' = Unit(o)' /\ o \in Unit(o)'
        <5>1. /\ content'[o].first \in Nat /\ content'[o].last \in Nat
              /\ LocalSequence(o) \in Nat /\ o = <<Origin(o), LocalSequence(o)>>
          BY OpParts, BoundsAssumption DEF Contents, Slots
        <5>2. o \in Unit(o)'
          BY <2>2, <5>1 DEF Unit, BatchOps, UnitsAgree
        <5>3. p \in Ops /\ Origin(p) = Origin(o)
          BY <5>1, OpParts, BoundsAssumption
          DEF Unit, BatchOps, Ops, Slots, Contents, Origin
        <5>4. /\ content'[p].first = content'[o].first
              /\ content'[p].last = content'[o].last
          BY <2>2 DEF UnitsAgree
        <5>5. content'[p] \in Contents
          BY <4>1, <5>1 DEF Unit, UnitsIssued, BatchOps
        <5> QED
          BY <5>2, <5>3, <5>4, <5>5 DEF Unit
      <4>3. content[p] \notin Contents
        <5> SUFFICES ASSUME content[p] \in Contents PROVE FALSE
          OBVIOUS
        <5>1. content'[p] = content[p] /\ Unit(p)' = Unit(p)
          BY <2>2, <4>2 DEF Unit
        <5>2. o \in Unit(p)
          BY <4>2, <5>1
        <5> QED
          BY <1>1, <3>2, <4>2, <5>2, UnitParts
      <4>4. db.row[o] = "none" /\ db.row[p] = "none"
        BY <1>1, <3>2, <4>2, <4>3 DEF RowsIssued
      <4> QED
        BY <4>4 DEF Together
    <3> QED
      BY <3>1, <3>2
  <2>6. BatchInProgress'
    <3>1. txn # NoTxn =>
             \A p \in BatchOps(txn.node, txn.first, txn.last) : content'[p] = content[p]
      BY <1>1, <2>2, TxnUnit
    <3> QED
      BY <1>1, <2>3, <3>1 DEF BatchInProgress, Running
  <2> QED
    BY <2>2, <2>4, <2>5, <2>6 DEF Batches
<1>3. ASSUME NEW op \in Ops, ApplyOperation(op) PROVE Batches'
  <2>1. /\ content[op] \in Contents /\ ~content[op].batched
        /\ UNCHANGED <<nextSequence, content>> /\ txn' = NoTxn
    BY <1>1, <1>3 DEF ApplyOperation, TypeOK
  <2>2. PICK r \in Outcomes(db, op) : db' = IF r.status = "invalid" THEN db ELSE r.db
    BY <1>3 DEF ApplyOperation, Decide
  <2>3. Form(db, op, r)
    BY <1>1, <2>1, OutcomeForms
  <2>4. \A p \in Ops \ {op} : db'.row[p] = db.row[p]
    BY <2>2, <2>3 DEF Form, Replays, Escapes, Records
  <2>5. RowsIssued(db') /\ WholeBatches(db')
    <3>1. RowsIssued(db')
      BY <1>1, <2>1, <2>4 DEF RowsIssued
    <3>2. \A o \in Ops : content[o] \in Contents /\ content[o].batched =>
             db'.row[o] = db.row[o]
      BY <2>1, <2>4
    <3> QED
      BY <1>1, <3>1, <3>2, SameBatches
  <2> QED
    BY <2>1, <2>5, RowsChange DEF BatchInProgress
<1>4. ASSUME NEW op \in Ops, ReplayBatch(op) PROVE Batches'
  <2>1. UNCHANGED <<nextSequence, content, db, txn>>
    BY <1>4 DEF ReplayBatch
  <2>2. BatchInProgress'
    BY <1>1, <2>1 DEF BatchInProgress, Running
  <2> QED
    BY <1>1, <2>1, <2>2, RowsChange
<1>5. ASSUME NEW op \in Ops, BeginBatch(op) PROVE Batches'
  <2> DEFINE c == content[op]
  <2>1. /\ c \in Contents /\ c.batched
        /\ UNCHANGED <<nextSequence, content, db>>
        /\ \A o \in Unit(op) : db.row[o] = "none"
        /\ txn' = [node |-> Origin(op), first |-> c.first, last |-> c.last,
                   atomic |-> c.atomic, next |-> c.first,
                   phase |-> "running", work |-> db]
    BY <1>1, <1>5 DEF BeginBatch, TypeOK, Unit
  <2>2. \A p \in Unit(op) : /\ content[p].batched /\ content[p].atomic = c.atomic
                            /\ content[p].first = c.first /\ content[p].last = c.last
    BY <1>1, <2>1 DEF UnitsAgree
  <2>3. c.first .. c.first - 1 = {} /\ c.first \in Nat
    BY <2>1, BoundsAssumption DEF Contents, Slots
  <2>4. \A s \in c.first .. c.last : db.row[<<Origin(op), s>>] = "none"
    BY <2>1 DEF Unit, BatchOps
  <2>5. BatchInProgress'
    BY <2>1, <2>2, <2>3, <2>4 DEF BatchInProgress, Unit
  <2> QED
    BY <1>1, <2>1, <2>5, RowsChange
<1>6. CASE StepBatch
  <2>1. /\ UNCHANGED <<nextSequence, content, db>> /\ Running /\ txn \in Txns
        /\ txn # NoTxn /\ txn.next <= txn.last
    BY <1>6, BatchTurn DEF Running
  <2>2. PICK op \in BatchOps(txn.node, txn.first, txn.last) :
           op \in Ops /\ \E r : Turn(op, r)
    BY <1>6, BatchTurn
  <2>3. PICK r : Turn(op, r)
    BY <2>2
  <2>4. /\ txn.first \in Nat /\ txn.last \in Nat /\ txn.next \in Nat
        /\ txn.first <= txn.next /\ txn.node \in Nodes /\ txn.last < MaxOps
    BY <2>1, BoundsAssumption DEF Txns, Slots, IInv, SoundTxn
  <2>5. /\ \A p \in Ops \ BatchOps(txn.node, txn.first, txn.last) :
              txn.work.row[p] = db.row[p]
        /\ \A s \in txn.first .. txn.next - 1 :
              /\ txn.work.row[<<txn.node, s>>] \in {"applied", "conflict"}
              /\ txn.atomic => txn.work.row[<<txn.node, s>>] = "applied"
        /\ \A s \in txn.next .. txn.last : txn.work.row[<<txn.node, s>>] = "none"
    BY <1>1, <2>1 DEF BatchInProgress
  <2>6. ASSUME Running', txn' # NoTxn
        PROVE  /\ \A p \in Ops \ {op} : r.db.row[p] = txn.work.row[p]
               /\ r.db.row[op] \in {"applied", "conflict"}
               /\ txn.atomic => r.db.row[op] = "applied"
    <3>1. op = <<txn.node, txn.next>> /\ txn.work.row[op] = "none"
      BY <2>1, <2>3, <2>4, <2>5 DEF Turn
    <3>2. ~Aborts(r.status) /\ r.status # "deferred"
      BY <2>1, <2>3, <2>6, AfterTurn
    <3>3. Records(txn.work, op, r)
      BY <2>3, <3>1, <3>2 DEF Turn, Form, Replays, Escapes, Terminal, Aborts
    <3> QED
      BY <3>2, <3>3 DEF Records, Aborts, Verdicts
  <2>7. BatchInProgress'
    <3> SUFFICES ASSUME txn' # NoTxn PROVE BatchInProgress'
      BY DEF BatchInProgress
    <3>1. /\ txn'.node = txn.node /\ txn'.first = txn.first /\ txn'.last = txn.last
          /\ txn'.atomic = txn.atomic
      BY <2>1, <2>3 DEF Turn, Txns
    <3>2. ASSUME Running'
          PROVE  /\ \A p \in Ops \ BatchOps(txn.node, txn.first, txn.last) :
                       txn'.work.row[p] = db.row[p]
                 /\ \A s \in txn.first .. txn'.next - 1 :
                       /\ txn'.work.row[<<txn.node, s>>] \in {"applied", "conflict"}
                       /\ txn.atomic => txn'.work.row[<<txn.node, s>>] = "applied"
                 /\ \A s \in txn'.next .. txn.last : txn'.work.row[<<txn.node, s>>] = "none"
      <4>1. txn'.work = r.db /\ txn'.next = txn.next + 1
        BY <2>1, <2>3, <3>2, AfterTurn
      <4>2. op = <<txn.node, txn.next>>
        BY <2>3 DEF Turn
      <4>3. /\ \A p \in Ops \ {op} : r.db.row[p] = txn.work.row[p]
            /\ r.db.row[op] \in {"applied", "conflict"}
            /\ txn.atomic => r.db.row[op] = "applied"
        BY <2>6, <3>2
      <4>4. ASSUME NEW s \in txn.first .. txn.last, s # txn.next
            PROVE  r.db.row[<<txn.node, s>>] = txn.work.row[<<txn.node, s>>]
        <5>1. <<txn.node, s>> \in Ops /\ <<txn.node, s>> # op
          BY <2>4, <4>2, <4>4, BoundsAssumption DEF Ops, Slots
        <5> QED
          BY <4>3, <5>1
      <4>5. \A p \in Ops \ BatchOps(txn.node, txn.first, txn.last) :
               txn'.work.row[p] = db.row[p]
        BY <2>2, <2>5, <4>1, <4>3
      <4>6. ASSUME NEW s \in txn.first .. txn'.next - 1
            PROVE  /\ txn'.work.row[<<txn.node, s>>] \in {"applied", "conflict"}
                   /\ txn.atomic => txn'.work.row[<<txn.node, s>>] = "applied"
        <5>1. CASE s = txn.next
          BY <4>1, <4>2, <4>3, <5>1
        <5>2. CASE s # txn.next
          <6>1. s \in txn.first .. txn.next - 1 /\ s \in txn.first .. txn.last
            BY <2>1, <2>4, <4>1, <4>6, <5>2
          <6> QED
            BY <2>5, <4>1, <4>4, <5>2, <6>1
        <5> QED
          BY <5>1, <5>2
      <4>7. ASSUME NEW s \in txn'.next .. txn.last
            PROVE  txn'.work.row[<<txn.node, s>>] = "none"
        <5>1. /\ s \in txn.next .. txn.last /\ s \in txn.first .. txn.last
              /\ s # txn.next
          BY <2>4, <4>1, <4>7
        <5> QED
          BY <2>5, <4>1, <4>4, <5>1
      <4> QED
        BY <4>5, <4>6, <4>7
    <3>3. db' = db /\ content' = content
      BY <2>1
    <3> QED
      BY <1>1, <2>1, <3>1, <3>2, <3>3 DEF BatchInProgress
  <2> QED
    BY <1>1, <2>1, <2>7, RowsChange
<1>7. CASE CommitBatch
  <2> DEFINE batch == BatchOps(txn.node, txn.first, txn.last)
  <2>1. /\ Running /\ txn # NoTxn /\ txn.next > txn.last
        /\ db' = txn.work /\ txn' = NoTxn /\ UNCHANGED <<nextSequence, content>>
    BY <1>7 DEF CommitBatch, Running
  <2>2. txn \in Txns /\ txn.work \in Databases
    BY <1>1, <2>1 DEF TypeOK, Txns
  <2>3. /\ \A p \in Ops \ batch : txn.work.row[p] = db.row[p]
        /\ \A s \in txn.first .. txn.next - 1 :
              /\ txn.work.row[<<txn.node, s>>] \in {"applied", "conflict"}
              /\ txn.atomic => txn.work.row[<<txn.node, s>>] = "applied"
    BY <1>1, <2>1 DEF BatchInProgress
  <2>4. ASSUME NEW p \in batch
        PROVE  /\ txn.work.row[p] \in {"applied", "conflict"}
               /\ txn.atomic => txn.work.row[p] = "applied"
    <3>1. PICK s \in txn.first .. txn.last : p = <<txn.node, s>>
      BY <2>4 DEF BatchOps
    <3>2. txn.first \in Nat /\ txn.last \in Nat /\ txn.next \in Nat
      BY <2>2, BoundsAssumption DEF Txns, Slots
    <3>3. s \in txn.first .. txn.next - 1
      BY <2>1, <3>1, <3>2
    <3> QED
      BY <2>3, <3>1, <3>3
  <2>5. WholeBatches(txn.work) /\ RowsIssued(txn.work)
    BY <2>1, <2>2, <2>3, <2>4, BatchDecided
  <2> QED
    BY <2>1, <2>5, RowsChange DEF BatchInProgress
<1>8. CASE PersistRejections
  <2> DEFINE batch == BatchOps(txn.node, txn.first, txn.last)
             rows == [op \in Ops |-> IF op \in batch THEN "rejected" ELSE db.row[op]]
  <2>1. /\ txn # NoTxn /\ txn' = NoTxn /\ db' = [db EXCEPT !.row = rows]
        /\ UNCHANGED <<nextSequence, content>>
    BY <1>8 DEF PersistRejections
  <2>2. rows \in [Ops -> RowStatus]
    BY <1>1 DEF Databases, RowStatus, Terminal
  <2>3. /\ \A op \in Ops \ batch : rows[op] = db.row[op]
        /\ \A op \in batch : rows[op] = "rejected"
    BY <1>1, <2>1, TxnUnit
  <2> HIDE DEF rows
  <2>4. db' \in Databases /\ db'.row = rows
    BY <1>1, <2>1, <2>2, RowsRewritten
  <2>5. WholeBatches(db') /\ RowsIssued(db')
    BY <2>1, <2>3, <2>4, BatchDecided
  <2> QED
    BY <2>1, <2>5, RowsChange DEF BatchInProgress
<1>9. CASE FailBatch
  <2>1. UNCHANGED <<nextSequence, content, db>> /\ txn' = NoTxn
    BY <1>9 DEF FailBatch
  <2> QED
    BY <1>1, <2>1, RowsChange DEF BatchInProgress
<1>10. ASSUME NEW op \in Ops, ResolveConflict(op) PROVE Batches'
  <2>1. ~Running /\ UNCHANGED <<nextSequence, content, txn>> /\ db'.row = db.row
    BY <1>1, <1>10, ResolutionForm
  <2>2. RowsIssued(db') /\ WholeBatches(db')
    BY <1>1, <2>1 DEF RowsIssued, WholeBatches, Together
  <2> QED
    BY <1>1, <2>1, <2>2, BatchWaits, RowsChange
<1>11. CASE ClearRejected
  <2> DEFINE rows == [op \in Ops |-> IF db.row[op] = "rejected" THEN "cleared_rejected"
                                     ELSE db.row[op]]
  <2>1. /\ ~Running /\ db' = [db EXCEPT !.row = rows]
        /\ UNCHANGED <<nextSequence, content, txn>>
    BY <1>11 DEF ClearRejected
  <2>2. rows \in [Ops -> RowStatus]
    BY <1>1 DEF Databases, RowStatus, Terminal
  <2>3. \A op \in Ops : /\ rows[op] = "none" <=> db.row[op] = "none"
                        /\ rows[op] = "received" <=> db.row[op] = "received"
                        /\ rows[op] = "applied" <=> db.row[op] = "applied"
                        /\ rows[op] = "conflict" <=> db.row[op] = "conflict"
    OBVIOUS
  <2> HIDE DEF rows
  <2>4. db'.row = rows
    BY <1>1, <2>1, <2>2, RowsRewritten
  <2>5. RowsIssued(db')
    BY <1>1, <2>3, <2>4 DEF RowsIssued
  <2>6. WholeBatches(db')
    <3> SUFFICES ASSUME NEW o \in Ops, content[o] \in Contents, content[o].batched,
                        NEW p \in Unit(o)
                 PROVE  Together(db', o, p, content[o].atomic)
      BY DEF WholeBatches
    <3>1. p \in Ops
      BY <1>1, UnitParts
    <3>2. Together(db, o, p, content[o].atomic)
      BY <1>1 DEF WholeBatches
    <3> QED
      BY <2>3, <2>4, <3>1, <3>2 DEF Together
  <2> QED
    BY <1>1, <2>1, <2>5, <2>6, BatchWaits, RowsChange
<1>12. CASE UNCHANGED vars
  <2>1. UNCHANGED <<nextSequence, content, db, txn>>
    BY <1>12 DEF vars
  <2>2. BatchInProgress'
    BY <1>1, <2>1 DEF BatchInProgress, Running
  <2> QED
    BY <1>1, <2>1, <2>2, RowsChange
<1> QED
  BY <1>2, <1>3, <1>4, <1>5, <1>6, <1>7, <1>8, <1>9, <1>10, <1>11, <1>12 DEF Next

LEMMA BatchesInit == Init => Batches
<1> SUFFICES ASSUME Init PROVE Batches
  OBVIOUS
<1>1. \A op \in Ops : content[op] \notin Contents
  BY NoContentAssumption DEF Init
<1>2. PICK ps \in SUBSET Projects : db = [EmptyDb EXCEPT !.projects = ps]
  BY DEF Init
<1>3. \A op \in Ops : db.row[op] = "none"
  BY <1>2 DEF EmptyDb
<1> QED
  BY <1>1, <1>3 DEF Init, Batches, UnitsAgree, RowsIssued, WholeBatches, BatchInProgress

LEMMA BatchesAreUnited == ASSUME IInv, Batches PROVE BatchUnity
<1>1. \A o \in Ops : content[o] # NoContent <=> content[o] \in Contents
  BY NoContentAssumption DEF IInv, TypeOK
<1> QED
  BY <1>1 DEF Batches, WholeBatches, Together, Unit, BatchUnity

\* Wherever an applyBatch call fails and however often the batch is presented, its rows are
\* never found in part, and an atomic batch is applied as a whole or not at all: the
\* "partial batch replay" of src/tim/sync/apply_batch.ts is never the engine's own doing.
THEOREM BatchesAreWhole == Spec => []BatchUnity
<1>1. Init => IInv /\ Batches
  BY InitSound, BatchesInit
<1>2. IInv /\ Batches /\ [Next]_vars => IInv' /\ Batches'
  BY StepSound, BatchesStep
<1>3. IInv /\ Batches => BatchUnity
  BY BatchesAreUnited
<1> QED
  BY <1>1, <1>2, <1>3, PTL DEF Spec
=============================================================================
