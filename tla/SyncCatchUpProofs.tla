------------------------- MODULE SyncCatchUpProofs --------------------------
(***************************************************************************)
(* Proofs about SyncCatchUp for any nodes, entities and bounds: its types, *)
(* that no cursor and no copy is ahead of the main node, and, where no     *)
(* commands run, that copies never go back in time and that pruning by     *)
(* cursor leaves every row a node still needs.                             *)
(***************************************************************************)
EXTENDS SyncCatchUp, FiniteSetTheorems, TLAPS

-----------------------------------------------------------------------------
(* Sets of numbers.                                                        *)

Less == {pair \in Nat \X Nat : pair[1] < pair[2]}

LEMMA MinOfNaturals ==
    ASSUME NEW S, S \subseteq Nat, S # {}
    PROVE  Min(S) \in S /\ \A x \in S : Min(S) <= x
<1>0. IsWellFoundedOn(Less, Nat)
  BY NatLessThanWellFounded DEF Less, OpToRel
<1>1. PICK x \in S : \A y \in S : ~(<<y, x>> \in Less)
  BY <1>0, WFMin
<1>2. \A y \in S : x <= y
  <2> SUFFICES ASSUME NEW y \in S PROVE x <= y
    OBVIOUS
  <2>1. ~(<<y, x>> \in {pair \in Nat \X Nat : pair[1] < pair[2]})
    BY <1>1 DEF Less
  <2>2. x \in Nat /\ y \in Nat
    OBVIOUS
  <2> HIDE <1>1
  <2> QED
    BY <2>1, <2>2
<1> QED
  BY <1>2 DEF Min

LEMMA MaxOfNaturals ==
    ASSUME NEW S, S \subseteq Nat, S # {}, NEW b \in Nat, \A x \in S : x <= b
    PROVE  Max(S) \in S /\ \A x \in S : x <= Max(S)
<1> DEFINE T == {b - x : x \in S}
<1>1. T \subseteq Nat /\ T # {}
  <2>1. \A x \in S : b - x \in Nat
    OBVIOUS
  <2> QED
    BY <2>1
<1>2. Min(T) \in T /\ \A t \in T : Min(T) <= t
  BY <1>1, MinOfNaturals
<1>3. PICK m \in S : Min(T) = b - m
  BY <1>2
<1>4. \A x \in S : m >= x
  <2> SUFFICES ASSUME NEW x \in S PROVE m >= x
    OBVIOUS
  <2>1. b - x \in T
    OBVIOUS
  <2>2. b - m <= b - x /\ m \in Nat /\ x \in Nat
    BY <1>2, <1>3, <2>1
  <2> QED
    BY <2>2
<1>5. /\ \A x \in S : Max(S) >= x
      /\ Max(S) \in S
  BY <1>4 DEF Max
<1> QED
  BY <1>5

LEMMA MaxOfTwo ==
    ASSUME NEW a \in Nat, NEW b \in Nat
    PROVE  /\ Max({a, b}) \in {a, b} /\ Max({a, b}) \in Nat
           /\ a <= Max({a, b}) /\ b <= Max({a, b})
<1>1. a <= a + b /\ b <= a + b /\ a + b \in Nat
  OBVIOUS
<1>2. Max({a, b}) \in {a, b} /\ \A x \in {a, b} : x <= Max({a, b})
  <2>1. \A x \in {a, b} : x <= a + b
    BY <1>1
  <2> QED
    BY <1>1, <2>1, MaxOfNaturals
<1> QED
  BY <1>2

LEMMA MaxOfThree ==
    ASSUME NEW a \in Nat, NEW b \in Nat, NEW c \in Nat
    PROVE  Max({a, b, c}) \in {a, b, c}
<1>1. a + b + c \in Nat /\ \A x \in {a, b, c} : x <= a + b + c
  OBVIOUS
<1> QED
  BY <1>1, MaxOfNaturals

-----------------------------------------------------------------------------
(* Sequences.                                                              *)

LEMMA Appending ==
    ASSUME NEW S, NEW q \in Seq(S), NEW x \in S
    PROVE  /\ Append(q, x) \in Seq(S) /\ Len(Append(q, x)) = Len(q) + 1
           /\ Append(q, x)[Len(q) + 1] = x
           /\ \A i \in DOMAIN q : i \in DOMAIN Append(q, x) /\ Append(q, x)[i] = q[i]
           /\ \A i \in DOMAIN Append(q, x) : i \in DOMAIN q \/ i = Len(q) + 1
  OBVIOUS

LEMMA Concatenating ==
    ASSUME NEW S, NEW p \in Seq(S), NEW q \in Seq(S)
    PROVE  /\ p \o q \in Seq(S) /\ Len(p \o q) = Len(p) + Len(q)
           /\ \A i \in 1 .. Len(q) :
                 Len(p) + i \in DOMAIN (p \o q) /\ (p \o q)[Len(p) + i] = q[i]
  OBVIOUS

LEMMA TakingTail ==
    ASSUME NEW S, NEW q \in Seq(S), q # <<>>
    PROVE  /\ Tail(q) \in Seq(S) /\ Len(Tail(q)) = Len(q) - 1 /\ Len(q) \in Nat \ {0}
           /\ Head(q) = q[1] /\ 1 \in DOMAIN q /\ Head(q) \in S
           /\ \A i \in DOMAIN Tail(q) : i + 1 \in DOMAIN q /\ Tail(q)[i] = q[i + 1]
  OBVIOUS

\* SetToSeq lists every element.
LEMMA Listing ==
    ASSUME NEW S, IsFiniteSet(S)
    PROVE  /\ SetToSeq(S) \in Seq(S) /\ Len(SetToSeq(S)) = Cardinality(S)
           /\ Cardinality(S) \in Nat
           /\ \A x \in S : \E i \in 1 .. Cardinality(S) : SetToSeq(S)[i] = x
<1> DEFINE c == Cardinality(S)
<1>1. c \in Nat /\ ExistsBijection(1 .. c, S)
  BY FS_CardinalityType
<1>2. \E f \in [1 .. c -> S] : IsInjective(f)
  BY <1>1 DEF ExistsBijection, Bijection, Injection
<1>3. SetToSeq(S) \in [1 .. c -> S] /\ IsInjective(SetToSeq(S))
  BY <1>2 DEF SetToSeq
<1>4. SetToSeq(S) \in Injection(1 .. c, S)
  BY <1>3 DEF Injection
<1>5. Cardinality(1 .. c) = c
  BY <1>1, FS_Interval
<1>6. SetToSeq(S) \in Surjection(1 .. c, S)
  BY <1>4, <1>5, FS_Injection
<1>7. \A x \in S : \E i \in 1 .. c : SetToSeq(S)[i] = x
  BY <1>6 DEF Surjection
<1> HIDE DEF c
<1>8. SetToSeq(S) \in Seq(S) /\ Len(SetToSeq(S)) = c
  BY <1>1, <1>3
<1> QED
  BY <1>1, <1>7, <1>8 DEF c

-----------------------------------------------------------------------------
(* Sockets.                                                                *)

\* The frames of q that are about snapshots.
About(q) == {i \in DOMAIN q : q[i].type = "snapshots"}
Count(q) == Cardinality(About(q))

LEMMA CountEmpty == Count(<<>>) = 0
BY FS_EmptySet DEF Count, About

LEMMA AboutIsFinite ==
    ASSUME NEW S, NEW q \in Seq(S)
    PROVE  IsFiniteSet(About(q)) /\ Count(q) \in Nat
<1>1. IsFiniteSet(1 .. Len(q)) /\ About(q) \subseteq 1 .. Len(q)
  BY FS_Interval DEF About
<1> QED
  BY <1>1, FS_Subset, FS_CardinalityType DEF Count

LEMMA CountAppend ==
    ASSUME NEW S, NEW q \in Seq(S), NEW x \in S
    PROVE  Count(Append(q, x)) = Count(q) + (IF x.type = "snapshots" THEN 1 ELSE 0)
<1> DEFINE r == Append(q, x)
<1>1. /\ r[Len(q) + 1] = x
      /\ \A i \in DOMAIN q : i \in DOMAIN r /\ r[i] = q[i]
      /\ \A i \in DOMAIN r : i \in DOMAIN q \/ i = Len(q) + 1
      /\ Len(q) + 1 \in DOMAIN r /\ Len(q) + 1 \notin DOMAIN q
  BY Appending
<1>2. IsFiniteSet(About(q)) /\ Count(q) \in Nat
  BY AboutIsFinite
<1> HIDE DEF r
<1>3. CASE x.type = "snapshots"
  <2>1. About(r) = About(q) \cup {Len(q) + 1} /\ Len(q) + 1 \notin About(q)
    BY <1>1, <1>3 DEF About
  <2> QED
    BY <1>2, <1>3, <2>1, FS_AddElement DEF Count, r
<1>4. CASE x.type # "snapshots"
  <2>1. About(r) = About(q)
    BY <1>1, <1>4 DEF About
  <2> QED
    BY <1>2, <1>4, <2>1 DEF Count, r
<1> QED
  BY <1>3, <1>4

LEMMA CountTail ==
    ASSUME NEW S, NEW q \in Seq(S), q # <<>>
    PROVE  Count(q) = Count(Tail(q)) + (IF Head(q).type = "snapshots" THEN 1 ELSE 0)
<1> DEFINE r == Tail(q)
           shifted == {i + 1 : i \in About(r)}
           shift == [i \in About(r) |-> i + 1]
<1>1. /\ r \in Seq(S) /\ Len(r) = Len(q) - 1 /\ Len(q) \in Nat \ {0}
      /\ Head(q) = q[1] /\ 1 \in DOMAIN q
      /\ \A i \in DOMAIN r : i + 1 \in DOMAIN q /\ r[i] = q[i + 1]
  BY TakingTail
<1> HIDE DEF r
<1>2. IsFiniteSet(About(r)) /\ Count(r) \in Nat
  BY <1>1, AboutIsFinite
<1>3. \A i \in About(r) : i \in Nat /\ i >= 1
  BY <1>1 DEF About
<1>4. IsFiniteSet(shifted) /\ Cardinality(shifted) = Count(r)
  <2>1. shift \in Bijection(About(r), shifted)
    <3>1. shift \in [About(r) -> shifted]
      OBVIOUS
    <3>2. IsInjective(shift)
      BY <1>3 DEF IsInjective
    <3>3. \A t \in shifted : \E s \in About(r) : shift[s] = t
      OBVIOUS
    <3> QED
      BY <3>1, <3>2, <3>3 DEF Bijection, Injection, Surjection
  <2> QED
    BY <1>2, <2>1, FS_Bijection DEF ExistsBijection, Count
<1>5. shifted = About(q) \ {1}
  <2>1. ASSUME NEW j \in About(q), j # 1 PROVE j \in shifted
    <3>1. j \in 1 .. Len(q) /\ q[j].type = "snapshots"
      BY <2>1 DEF About
    <3>2. j - 1 \in DOMAIN r /\ (j - 1) + 1 = j
      BY <1>1, <2>1, <3>1
    <3>3. j - 1 \in About(r)
      BY <1>1, <3>1, <3>2 DEF About
    <3> QED
      BY <3>2, <3>3
  <2>2. ASSUME NEW i \in About(r) PROVE i + 1 \in About(q) \ {1}
    <3>1. i + 1 # 1
      BY <1>3
    <3> QED
      BY <1>1, <3>1 DEF About
  <2> QED
    BY <2>1, <2>2
<1> HIDE DEF shifted, shift
<1>6. 1 \in About(q) <=> Head(q).type = "snapshots"
  BY <1>1 DEF About
<1>7. CASE Head(q).type = "snapshots"
  <2>1. About(q) = shifted \cup {1} /\ 1 \notin shifted
    BY <1>5, <1>6, <1>7
  <2> QED
    BY <1>2, <1>4, <1>7, <2>1, FS_AddElement DEF Count, r
<1>8. CASE Head(q).type # "snapshots"
  <2>1. About(q) = shifted
    BY <1>5, <1>6, <1>8
  <2> QED
    BY <1>2, <1>4, <1>8, <2>1 DEF Count, r
<1> QED
  BY <1>7, <1>8

\* What may be in the queues of a socket while the main node has rows 1 .. rows and the
\* states values: nothing tells of more.
FramesSound(q, rows, values) ==
    \A i \in DOMAIN q : q[i].sequence <= rows /\ \A k \in Keys : q[i].values[k] <= values[k]
RequestsSound(q, rows) == \A i \in DOMAIN q : q[i].since <= rows
HandlersSound(q, rows) == \A i \in DOMAIN q : q[i].sequence <= rows

\* Besides, every suspended handler has its snapshots under way.
SoundSocket(s, rows, values) ==
    /\ s \in Sockets
    /\ FramesSound(s.inbox, rows, values)
    /\ RequestsSound(s.outbox, rows)
    /\ HandlersSound(s.suspended, rows)
    /\ Count(s.inbox) + Count(s.outbox) = Len(s.suspended)

LEMMA QueuesShrink ==
    ASSUME NEW S, NEW q \in Seq(S), q # <<>>, NEW rows, NEW values
    PROVE  /\ FramesSound(q, rows, values) => FramesSound(Tail(q), rows, values)
           /\ RequestsSound(q, rows) => RequestsSound(Tail(q), rows)
           /\ HandlersSound(q, rows) => HandlersSound(Tail(q), rows)
BY TakingTail DEF FramesSound, RequestsSound, HandlersSound

LEMMA QueuesGrow ==
    ASSUME NEW S, NEW q \in Seq(S), NEW x \in S, NEW rows, NEW values
    PROVE  /\ FramesSound(q, rows, values) /\ x.sequence <= rows
                 /\ (\A k \in Keys : x.values[k] <= values[k])
              => FramesSound(Append(q, x), rows, values)
           /\ RequestsSound(q, rows) /\ x.since <= rows => RequestsSound(Append(q, x), rows)
           /\ HandlersSound(q, rows) /\ x.sequence <= rows => HandlersSound(Append(q, x), rows)
<1>1. \A i \in DOMAIN Append(q, x) :
         Append(q, x)[i] = x \/ (i \in DOMAIN q /\ Append(q, x)[i] = q[i])
  BY Appending
<1> QED
  BY <1>1 DEF FramesSound, RequestsSound, HandlersSound

LEMMA NoSocketIsSound ==
    ASSUME NEW rows, NEW values
    PROVE  SoundSocket(NoSocket, rows, values)
BY CountEmpty DEF SoundSocket, NoSocket, Sockets, FramesSound, RequestsSound, HandlersSound

LEMMA SocketParts ==
    ASSUME NEW s \in Sockets
    PROVE  /\ \A i \in DOMAIN s.inbox :
                 /\ s.inbox[i] \in ServerFrames /\ s.inbox[i].sequence \in Nat
                 /\ \A k \in Keys : s.inbox[i].values[k] \in Nat
           /\ \A i \in DOMAIN s.outbox :
                 s.outbox[i] \in ClientFrames /\ s.outbox[i].since \in Nat
           /\ \A i \in DOMAIN s.suspended :
                 s.suspended[i] \in Handlers /\ s.suspended[i].sequence \in Nat
<1>1. /\ \A i \in DOMAIN s.inbox : s.inbox[i] \in ServerFrames
      /\ \A i \in DOMAIN s.outbox : s.outbox[i] \in ClientFrames
      /\ \A i \in DOMAIN s.suspended : s.suspended[i] \in Handlers
  BY DEF Sockets
<1>2. /\ \A f \in ServerFrames : f.sequence \in Nat /\ \A k \in Keys : f.values[k] \in Nat
      /\ \A f \in ClientFrames : f.since \in Nat
      /\ \A f \in Handlers : f.sequence \in Nat
  BY CatchUpAssumption DEF ServerFrames, ClientFrames, Handlers, Versions, Rows
<1> QED
  BY <1>1, <1>2

\* What is sound stays so while the main node goes on.
LEMMA SocketsAge ==
    ASSUME NEW s, NEW rows \in Nat, NEW values \in Versions, SoundSocket(s, rows, values),
           NEW later \in Nat, rows <= later,
           NEW newer \in Versions, \A k \in Keys : values[k] <= newer[k]
    PROVE  SoundSocket(s, later, newer)
<1>1. s \in Sockets
  BY DEF SoundSocket
<1>2. /\ \A i \in DOMAIN s.inbox :
            s.inbox[i].sequence \in Nat /\ \A k \in Keys : s.inbox[i].values[k] \in Nat
      /\ \A i \in DOMAIN s.outbox : s.outbox[i].since \in Nat
      /\ \A i \in DOMAIN s.suspended : s.suspended[i].sequence \in Nat
  BY <1>1, SocketParts
<1>5. \A k \in Keys : values[k] \in Nat /\ newer[k] \in Nat
  BY CatchUpAssumption DEF Versions, Rows
<1>6. \A i \in DOMAIN s.inbox :
         /\ s.inbox[i].sequence <= later
         /\ \A k \in Keys : s.inbox[i].values[k] <= newer[k]
  <2>1. \A i \in DOMAIN s.inbox : s.inbox[i].sequence <= later
    BY <1>2 DEF SoundSocket, FramesSound
  <2>2. \A i \in DOMAIN s.inbox, k \in Keys : s.inbox[i].values[k] <= newer[k]
    BY <1>2, <1>5 DEF SoundSocket, FramesSound
  <2> QED
    BY <2>1, <2>2
<1>7. /\ \A i \in DOMAIN s.outbox : s.outbox[i].since <= later
      /\ \A i \in DOMAIN s.suspended : s.suspended[i].sequence <= later
  BY <1>2 DEF SoundSocket, RequestsSound, HandlersSound
<1> QED
  BY <1>6, <1>7 DEF SoundSocket, FramesSound, RequestsSound, HandlersSound

\* A frame that carries no snapshots arrives.
LEMMA FrameArrives ==
    ASSUME NEW s, NEW rows, NEW values, SoundSocket(s, rows, values),
           NEW f \in ServerFrames, f.type # "snapshots", f.sequence <= rows,
           \A k \in Keys : f.values[k] <= values[k]
    PROVE  SoundSocket([s EXCEPT !.inbox = Append(@, f)], rows, values)
<1> DEFINE s2 == [s EXCEPT !.inbox = Append(@, f)]
<1>1. s \in Sockets /\ s.inbox \in Seq(ServerFrames) /\ s.outbox \in Seq(ClientFrames)
  BY DEF SoundSocket, Sockets
<1>2. /\ s2 \in Sockets
      /\ s2.inbox = Append(s.inbox, f) /\ s2.outbox = s.outbox /\ s2.suspended = s.suspended
  BY <1>1, Appending DEF Sockets
<1> HIDE DEF s2
<1>3. FramesSound(s2.inbox, rows, values)
  BY <1>1, <1>2, QueuesGrow DEF SoundSocket
<1>4. Count(s2.inbox) = Count(s.inbox)
  <2>1. Count(s.inbox) \in Nat
    BY <1>1, AboutIsFinite
  <2> QED
    BY <1>1, <1>2, <2>1, CountAppend
<1>5. SoundSocket(s2, rows, values)
  BY <1>2, <1>3, <1>4 DEF SoundSocket
<1> QED
  BY <1>5 DEF s2

-----------------------------------------------------------------------------
(* The invariant.                                                          *)

\* Node n is behind the main node, or level.
Behind(n) ==
    /\ cursor[n] <= Len(log) /\ peerCursor[n] <= Len(log) /\ command[n].sequence <= Len(log)
    /\ \A k \in Keys : /\ replica[n][k] <= version[k]
                       /\ command[n].values[k] <= version[k]

IInv ==
    /\ TypeOK
    /\ \A k \in Keys : version[k] <= Len(log)
    /\ \A n \in Nodes : Behind(n) /\ SoundSocket(socket[n], Len(log), version)

\* The main node goes on.
Grows ==
    /\ Len(log) <= Len(log') /\ log' \in Seq(Keys) /\ Len(log') <= MaxSequence
    /\ version' \in Versions
    /\ \A k \in Keys : version[k] <= version'[k] /\ version'[k] <= Len(log')

LEMMA Numbers ==
    ASSUME TypeOK
    PROVE  /\ Len(log) \in Nat /\ pruned \in Nat /\ \A k \in Keys : version[k] \in Nat
           /\ \A n \in Nodes :
                 /\ cursor[n] \in Nat /\ peerCursor[n] \in Nat /\ command[n].sequence \in Nat
                 /\ \A k \in Keys : replica[n][k] \in Nat /\ command[n].values[k] \in Nat
BY CatchUpAssumption DEF TypeOK, Rows, Versions, RunningCommands

LEMMA LastRowIsThere ==
    ASSUME NEW rows \in Seq(Keys), NEW k
    PROVE  /\ LastRow(rows, k) \in 0 .. Len(rows)
           /\ \A i \in DOMAIN rows : rows[i] = k => i <= LastRow(rows, k)
<1> DEFINE S == {i \in DOMAIN rows : rows[i] = k} \cup {0}
<1>1. S \subseteq Nat /\ S # {} /\ Len(rows) \in Nat /\ \A i \in S : i <= Len(rows)
  OBVIOUS
<1> HIDE DEF S
<1>2. Max(S) \in S /\ \A i \in S : i <= Max(S)
  BY <1>1, MaxOfNaturals
<1> QED
  BY <1>2 DEF LastRow, S

LEMMA ChangeGrows ==
    ASSUME IInv, NEW keys \in SUBSET Keys, Change(keys)
    PROVE  Grows /\ UNCHANGED <<pruned, peerCursor>>
<1>1. /\ log \in Seq(Keys) /\ Len(log) \in Nat /\ version \in Versions
      /\ \A k \in Keys : version[k] \in Nat /\ version[k] <= Len(log)
  BY Numbers DEF IInv, TypeOK
<1> DEFINE list == SetToSeq(keys)
<1>2. /\ list \in Seq(Keys) /\ Len(list) = Cardinality(keys) /\ Len(list) \in Nat
      /\ \A k \in keys : \E i \in 1 .. Len(list) : list[i] = k
  <2>1. IsFiniteSet(keys)
    BY CatchUpAssumption, FS_Subset
  <2> HIDE DEF list
  <2>2. list \in Seq(keys) /\ Len(list) = Cardinality(keys) /\ Len(list) \in Nat
        /\ \A k \in keys : \E i \in 1 .. Len(list) : list[i] = k
    BY <2>1, Listing DEF list
  <2> QED
    BY <2>2
<1>3. /\ log' = log \o list /\ Len(log) + Len(list) <= MaxSequence
      /\ version' = [k \in Keys |-> IF k \in keys THEN LastRow(log', k) ELSE version[k]]
      /\ UNCHANGED <<pruned, peerCursor>>
  BY <1>2 DEF Change
<1> HIDE DEF list
<1>4. /\ log' \in Seq(Keys) /\ Len(log') = Len(log) + Len(list)
      /\ \A i \in 1 .. Len(list) :
            Len(log) + i \in DOMAIN log' /\ log'[Len(log) + i] = list[i]
  <2>1. log \in Seq(Keys) /\ list \in Seq(Keys)
    BY <1>1, <1>2
  <2>2. log' = log \o list
    BY <1>3
  <2>3. /\ log \o list \in Seq(Keys) /\ Len(log \o list) = Len(log) + Len(list)
        /\ \A i \in 1 .. Len(list) : /\ Len(log) + i \in DOMAIN (log \o list)
                                     /\ (log \o list)[Len(log) + i] = list[i]
    BY <2>1, Concatenating
  <2> QED
    BY <2>2, <2>3
<1>5. ASSUME NEW k \in Keys
      PROVE  version[k] <= version'[k] /\ version'[k] \in 0 .. Len(log')
  <2>1. CASE k \in keys
    <3>1. PICK i \in 1 .. Len(list) : list[i] = k
      BY <1>2, <2>1
    <3>2. Len(log) + i <= LastRow(log', k) /\ LastRow(log', k) \in 0 .. Len(log')
      BY <1>4, <3>1, LastRowIsThere
    <3> QED
      BY <1>1, <1>2, <1>3, <1>4, <2>1, <3>1, <3>2
  <2>2. CASE k \notin keys
    BY <1>1, <1>2, <1>3, <1>4, <2>2
  <2> QED
    BY <2>1, <2>2
<1>6. version' \in Versions
  <2>1. \A k \in Keys : version'[k] \in Rows
    BY <1>1, <1>2, <1>3, <1>4, <1>5, CatchUpAssumption DEF Rows
  <2>2. version' = [k \in Keys |-> version'[k]]
    BY <1>3
  <2> QED
    BY <2>1, <2>2 DEF Versions
<1> QED
  BY <1>1, <1>2, <1>3, <1>4, <1>5, <1>6 DEF Grows

\* Whoever is behind stays behind while the main node goes on.
LEMMA StillBehind ==
    ASSUME IInv, Grows
    PROVE  \A n \in Nodes :
              /\ SoundSocket(socket[n], Len(log'), version')
              /\ cursor[n] <= Len(log') /\ peerCursor[n] <= Len(log')
              /\ command[n].sequence <= Len(log')
              /\ \A k \in Keys : /\ replica[n][k] <= version'[k]
                                 /\ command[n].values[k] <= version'[k]
<1>1. /\ TypeOK /\ Len(log) \in Nat /\ Len(log') \in Nat /\ Len(log) <= Len(log')
      /\ version \in Versions /\ version' \in Versions
      /\ \A k \in Keys : /\ version[k] \in Nat /\ version'[k] \in Nat
                         /\ version[k] <= version'[k]
  BY Numbers, CatchUpAssumption DEF IInv, Grows, Versions, Rows, TypeOK
<1> SUFFICES ASSUME NEW n \in Nodes
             PROVE  /\ SoundSocket(socket[n], Len(log'), version')
                    /\ cursor[n] <= Len(log') /\ peerCursor[n] <= Len(log')
                    /\ command[n].sequence <= Len(log')
                    /\ \A k \in Keys : /\ replica[n][k] <= version'[k]
                                       /\ command[n].values[k] <= version'[k]
  OBVIOUS
<1>2. SoundSocket(socket[n], Len(log'), version')
  BY <1>1, SocketsAge DEF IInv
<1>3. /\ cursor[n] <= Len(log') /\ peerCursor[n] <= Len(log')
      /\ command[n].sequence <= Len(log')
  BY <1>1, Numbers DEF IInv, Behind
<1>4. \A k \in Keys : replica[n][k] <= version'[k] /\ command[n].values[k] <= version'[k]
  BY <1>1, Numbers DEF IInv, Behind
<1> QED
  BY <1>2, <1>3, <1>4

-----------------------------------------------------------------------------
(* Steps of the main node.                                                 *)

LEMMA AnnounceIsSound ==
    ASSUME NEW type \in {"hello_ack", "invalidate", "catch_up", "result", "status"},
           NEW keys \in SUBSET Keys, NEW sequence \in Rows, NEW rows, sequence <= rows,
           NEW values \in Versions
    PROVE  LET f == Announce(type, keys, sequence)
           IN  /\ f \in ServerFrames /\ f.type = type /\ f.keys = keys /\ f.sequence <= rows
               /\ \A k \in Keys : f.values[k] <= values[k]
BY CatchUpAssumption DEF Announce, ServerFrame, ServerFrames, NoVersions, Versions, Rows

LEMMA BroadcastIsSound ==
    ASSUME IInv, Grows, NEW keys \in SUBSET Keys, NEW excluded,
           Broadcast(keys, excluded, Announce("result", keys, 0))
    PROVE  \A n \in Nodes : SoundSocket(socket'[n], Len(log'), version')
<1>1. /\ version' \in Versions /\ Len(log') \in Rows /\ 0 \in Rows /\ 0 <= Len(log')
      /\ Len(log') <= Len(log')
  BY CatchUpAssumption DEF Grows, Rows
<1>2. LET f == Announce("result", keys, 0)
      IN  /\ f \in ServerFrames /\ f.type = "result" /\ f.sequence <= Len(log')
          /\ \A k \in Keys : f.values[k] <= version'[k]
  <2>1. \A k \in Keys : 0 <= version'[k]
    BY <1>1, CatchUpAssumption DEF Versions, Rows
  <2> QED
    BY <1>1, <2>1, CatchUpAssumption
    DEF Announce, ServerFrame, ServerFrames, NoVersions, Versions, Rows
<1>3. LET f == Announce("invalidate", keys, Len(log'))
      IN  /\ f \in ServerFrames /\ f.type = "invalidate" /\ f.sequence <= Len(log')
          /\ \A k \in Keys : f.values[k] <= version'[k]
  <2>1. \A k \in Keys : 0 <= version'[k]
    BY <1>1, CatchUpAssumption DEF Versions, Rows
  <2> QED
    BY <1>1, <2>1, CatchUpAssumption
    DEF Announce, ServerFrame, ServerFrames, NoVersions, Versions, Rows
<1> SUFFICES ASSUME NEW n \in Nodes
             PROVE  SoundSocket(socket'[n], Len(log'), version')
  OBVIOUS
<1>4. SoundSocket(socket[n], Len(log'), version')
  BY StillBehind
<1>5. \/ socket'[n] = socket[n]
      \/ socket'[n] = [socket[n] EXCEPT !.inbox = Append(@, Announce("result", keys, 0))]
      \/ socket'[n] = [socket[n] EXCEPT
                         !.inbox = Append(@, Announce("invalidate", keys, Len(log')))]
  BY DEF Broadcast
<1>6. SoundSocket([socket[n] EXCEPT !.inbox = Append(@, Announce("result", keys, 0))],
                  Len(log'), version')
  BY <1>2, <1>4, FrameArrives
<1>7. SoundSocket([socket[n] EXCEPT
                     !.inbox = Append(@, Announce("invalidate", keys, Len(log')))],
                  Len(log'), version')
  BY <1>3, <1>4, FrameArrives
<1> QED
  BY <1>4, <1>5, <1>6, <1>7

\* A write, whoever makes it and whatever becomes of the commands.
LEMMA WritesAreSound ==
    ASSUME IInv, NEW keys \in WriteSets, Change(keys), UNCHANGED <<nodeVars, failures>>,
           \/ UNCHANGED socket
           \/ \E excluded : Broadcast(keys, excluded, Announce("result", keys, 0)),
           command' \in [Nodes -> RunningCommands],
           \A n \in Nodes :
              \/ command'[n] = command[n]
              \/ command'[n].sequence = 0 /\ \A k \in Keys : command'[n].values[k] = 0
    PROVE  IInv'
<1>1. keys \in SUBSET Keys
  BY DEF WriteSets
<1>2. Grows /\ UNCHANGED <<pruned, peerCursor>>
  BY <1>1, ChangeGrows
<1>3. \A n \in Nodes : SoundSocket(socket'[n], Len(log'), version')
  BY <1>1, <1>2, StillBehind, BroadcastIsSound
<1>4. socket' \in [Nodes -> Sockets]
  <2>1. \A n \in Nodes : socket'[n] \in Sockets
    BY <1>3 DEF SoundSocket
  <2>2. socket' = [n \in Nodes |-> socket'[n]]
    BY DEF Broadcast, IInv, TypeOK
  <2> QED
    BY <2>1, <2>2
<1>5. /\ Len(log) \in Nat /\ Len(log') \in Nat
      /\ \A k \in Keys : version'[k] \in Nat
  BY <1>2, Numbers, CatchUpAssumption DEF IInv, Grows, Versions, Rows
<1>6. TypeOK'
  BY <1>2, <1>4, <1>5 DEF IInv, TypeOK, Grows, nodeVars
<1>7. \A n \in Nodes : Behind(n)'
  <2> SUFFICES ASSUME NEW n \in Nodes PROVE Behind(n)'
    OBVIOUS
  <2>1. /\ cursor'[n] = cursor[n] /\ peerCursor'[n] = peerCursor[n]
        /\ replica'[n] = replica[n]
    BY <1>2 DEF nodeVars
  <2>2. /\ command'[n].sequence <= Len(log')
        /\ \A k \in Keys : command'[n].values[k] <= version'[k]
    BY <1>2, <1>5, StillBehind
  <2> QED
    BY <1>2, <2>1, <2>2, StillBehind DEF Behind
<1> QED
  BY <1>2, <1>3, <1>6, <1>7 DEF IInv, Grows

-----------------------------------------------------------------------------
(* Steps that write nothing.                                               *)

LEMMA AdvanceForward ==
    ASSUME NEW a \in Rows, NEW b \in Rows
    PROVE  /\ Advance(a, b) \in {a, b} /\ Advance(a, b) \in Rows
           /\ a <= Advance(a, b) /\ b <= Advance(a, b)
BY MaxOfTwo, CatchUpAssumption DEF Advance, Rows

\* A step at socket s of node n that moves the cursors of n, or leaves them alone.
LEMMA SocketSteps ==
    ASSUME IInv, UNCHANGED <<log, pruned, version, command>>, NEW n \in Nodes,
           failures' \in 0 .. MaxFailures,
           NEW s, socket' = [socket EXCEPT ![n] = s], SoundSocket(s, Len(log), version),
           NEW p \in Rows, peerCursor' = [peerCursor EXCEPT ![n] = p], p <= Len(log),
           NEW c \in Rows, cursor' = [cursor EXCEPT ![n] = c], c <= Len(log),
           NEW copies \in Versions, replica' = [replica EXCEPT ![n] = copies],
           \A k \in Keys : copies[k] <= version[k]
    PROVE  IInv'
<1>1. s \in Sockets
  BY DEF SoundSocket
<1>2. TypeOK'
  BY <1>1 DEF IInv, TypeOK
<1>3. \A m \in Nodes : SoundSocket(socket'[m], Len(log), version)
  BY DEF IInv, TypeOK
<1>4. ASSUME NEW m \in Nodes PROVE Behind(m)'
  BY DEF IInv, TypeOK, Behind
<1> QED
  BY <1>2, <1>3, <1>4 DEF IInv

\* The head of the outbox is answered.
LEMMA FrameServed ==
    ASSUME NEW s, NEW rows, NEW values, SoundSocket(s, rows, values), s.outbox # <<>>,
           NEW f \in ServerFrames, f.sequence <= rows,
           \A k \in Keys : f.values[k] <= values[k],
           f.type = "snapshots" <=> Head(s.outbox).type = "snapshots"
    PROVE  SoundSocket([s EXCEPT !.outbox = Tail(@), !.inbox = Append(@, f)], rows, values)
<1> DEFINE s2 == [s EXCEPT !.outbox = Tail(@), !.inbox = Append(@, f)]
<1>1. /\ s \in Sockets /\ s.inbox \in Seq(ServerFrames) /\ s.outbox \in Seq(ClientFrames)
      /\ s.suspended \in Seq(Handlers)
  BY DEF SoundSocket, Sockets
<1>2. Append(s.inbox, f) \in Seq(ServerFrames) /\ Tail(s.outbox) \in Seq(ClientFrames)
  BY <1>1, Appending, TakingTail
<1>3. /\ s2 \in Sockets /\ s2.suspended = s.suspended
      /\ s2.inbox = Append(s.inbox, f) /\ s2.outbox = Tail(s.outbox)
  BY <1>1, <1>2 DEF Sockets
<1> HIDE DEF s2
<1>4. FramesSound(s2.inbox, rows, values) /\ RequestsSound(s2.outbox, rows)
  BY <1>1, <1>3, QueuesGrow, QueuesShrink DEF SoundSocket
<1>5. Count(s2.inbox) + Count(s2.outbox) = Count(s.inbox) + Count(s.outbox)
  <2>1. Count(s.inbox) \in Nat /\ Count(s2.outbox) \in Nat
    BY <1>1, <1>2, <1>3, AboutIsFinite
  <2>2. Count(s2.inbox) = Count(s.inbox) + (IF f.type = "snapshots" THEN 1 ELSE 0)
    BY <1>1, <1>3, CountAppend
  <2>3. Count(s.outbox) = Count(s2.outbox)
                           + (IF Head(s.outbox).type = "snapshots" THEN 1 ELSE 0)
    BY <1>1, <1>3, CountTail
  <2> QED
    BY <2>1, <2>2, <2>3
<1>6. SoundSocket(s2, rows, values)
  BY <1>3, <1>4, <1>5 DEF SoundSocket
<1> QED
  BY <1>6 DEF s2

\* A frame without snapshots is handled: it may send a request, and suspends a handler
\* if that is for snapshots.
LEMMA FrameHandled ==
    ASSUME NEW s, NEW rows, NEW values, SoundSocket(s, rows, values), s.inbox # <<>>,
           Head(s.inbox).type # "snapshots",
           NEW s2 \in Sockets, s2.inbox = Tail(s.inbox),
           \/ s2.outbox = s.outbox /\ s2.suspended = s.suspended
           \/ /\ s2.suspended = s.suspended
              /\ \E g \in ClientFrames : /\ s2.outbox = Append(s.outbox, g)
                                         /\ g.type # "snapshots" /\ g.since <= rows
           \/ /\ \E g \in ClientFrames : /\ s2.outbox = Append(s.outbox, g)
                                         /\ g.type = "snapshots" /\ g.since <= rows
              /\ \E h \in Handlers : /\ s2.suspended = Append(s.suspended, h)
                                     /\ h.sequence <= rows
    PROVE  SoundSocket(s2, rows, values)
<1>1. /\ s.inbox \in Seq(ServerFrames) /\ s.outbox \in Seq(ClientFrames)
      /\ s.suspended \in Seq(Handlers)
  BY DEF SoundSocket, Sockets
<1>2. /\ FramesSound(s.inbox, rows, values) /\ RequestsSound(s.outbox, rows)
      /\ HandlersSound(s.suspended, rows)
      /\ Count(s.inbox) + Count(s.outbox) = Len(s.suspended)
  BY DEF SoundSocket
<1>3. Count(s.outbox) \in Nat /\ Count(s.inbox) \in Nat /\ Len(s.suspended) \in Nat
  BY <1>1, AboutIsFinite
<1>4. FramesSound(s2.inbox, rows, values)
  BY <1>1, <1>2, QueuesShrink
<1>5. Count(s2.inbox) = Count(s.inbox)
  <2>1. Tail(s.inbox) \in Seq(ServerFrames)
    BY <1>1, TakingTail
  <2>2. Count(Tail(s.inbox)) \in Nat
    BY <2>1, AboutIsFinite
  <2> QED
    BY <1>1, <2>2, CountTail
<1>6. RequestsSound(s2.outbox, rows)
  BY <1>1, <1>2, QueuesGrow
<1>7. HandlersSound(s2.suspended, rows)
  BY <1>1, <1>2, QueuesGrow
<1>8. Count(s2.outbox) - Count(s.outbox) = Len(s2.suspended) - Len(s.suspended)
  <2>1. CASE s2.outbox = s.outbox /\ s2.suspended = s.suspended
    BY <1>3, <2>1
  <2>2. ASSUME NEW g \in ClientFrames, s2.outbox = Append(s.outbox, g),
               g.type # "snapshots", s2.suspended = s.suspended
        PROVE  Count(s2.outbox) - Count(s.outbox) = Len(s2.suspended) - Len(s.suspended)
    BY <1>1, <1>3, <2>2, CountAppend
  <2>3. ASSUME NEW g \in ClientFrames, s2.outbox = Append(s.outbox, g),
               g.type = "snapshots",
               NEW h \in Handlers, s2.suspended = Append(s.suspended, h)
        PROVE  Count(s2.outbox) - Count(s.outbox) = Len(s2.suspended) - Len(s.suspended)
    <3>1. Len(s2.suspended) = Len(s.suspended) + 1
      BY <1>1, <2>3, Appending
    <3>2. Count(s2.outbox) = Count(s.outbox) + 1
      BY <1>1, <2>3, CountAppend
    <3> QED
      BY <1>3, <3>1, <3>2
  <2> QED
    BY <2>1, <2>2, <2>3
<1>9. Count(s2.outbox) \in Nat /\ Len(s2.suspended) \in Nat
  <2>1. s2.outbox \in Seq(ClientFrames) /\ s2.suspended \in Seq(Handlers)
    BY DEF Sockets
  <2> QED
    BY <2>1, AboutIsFinite
<1>10. Count(s2.inbox) + Count(s2.outbox) = Len(s2.suspended)
  <2> DEFINE a == Count(s.inbox)
             b == Count(s.outbox)
             c == Len(s.suspended)
             d == Count(s2.outbox)
             e == Len(s2.suspended)
  <2>1. /\ a \in Nat /\ b \in Nat /\ c \in Nat /\ d \in Nat /\ e \in Nat
        /\ a + b = c /\ d - b = e - c
    BY <1>2, <1>3, <1>8, <1>9
  <2> HIDE DEF a, b, c, d, e
  <2>2. a + d = e
    BY <2>1
  <2> QED
    BY <1>5, <2>2 DEF a, d, e
<1> QED
  BY <1>4, <1>6, <1>7, <1>10 DEF SoundSocket

\* What the invariant says of the rows and of one node.
LEMMA NodeParts ==
    ASSUME IInv, NEW n \in Nodes
    PROVE  /\ Len(log) \in Nat /\ Len(log) \in Rows /\ log \in Seq(Keys)
           /\ version \in Versions /\ \A k \in Keys : version[k] \in Nat
           /\ socket[n] \in Sockets /\ SoundSocket(socket[n], Len(log), version)
           /\ socket[n].inbox \in Seq(ServerFrames) /\ socket[n].outbox \in Seq(ClientFrames)
           /\ socket[n].suspended \in Seq(Handlers)
           /\ cursor[n] \in Rows /\ cursor[n] <= Len(log)
           /\ peerCursor[n] \in Rows /\ peerCursor[n] <= Len(log)
           /\ replica[n] \in Versions /\ \A k \in Keys : replica[n][k] <= version[k]
           /\ command[n] \in RunningCommands /\ Behind(n)
           /\ failures \in 0 .. MaxFailures
<1>1. TypeOK /\ SoundSocket(socket[n], Len(log), version) /\ Behind(n)
  BY DEF IInv
<1>2. Len(log) \in Nat /\ Len(log) \in Rows /\ \A k \in Keys : version[k] \in Nat
  BY <1>1, Numbers, CatchUpAssumption DEF TypeOK, Rows
<1>3. socket[n] \in Sockets
  BY <1>1 DEF SoundSocket
<1> QED
  BY <1>1, <1>2, <1>3 DEF TypeOK, Behind, Sockets

LEMMA ServeSound ==
    ASSUME IInv, NEW n \in Nodes, Serve(n)
    PROVE  IInv'
<1> DEFINE f == Head(socket[n].outbox)
           listed == {log[i] : i \in RowsPast(f.since)}
           reply == CASE f.type = "catch_up" -> Announce("catch_up", listed, CurrentSequence)
                      [] f.type = "snapshots" ->
                            ServerFrame("snapshots", f.keys, 0, Snapshots(f.keys))
                      [] f.type = "status" -> Announce("status", {}, CurrentSequence)
           s == [socket[n] EXCEPT !.outbox = Tail(@), !.inbox = Append(@, reply)]
           p == IF f.type = "catch_up" THEN Advance(peerCursor[n], f.since)
                                       ELSE peerCursor[n]
<1>1. /\ socket[n].outbox # <<>>
      /\ socket' = [socket EXCEPT ![n] = s] /\ peerCursor' = [peerCursor EXCEPT ![n] = p]
      /\ UNCHANGED <<log, pruned, version, cursor, replica, command, failures>>
  <2>1. /\ socket[n].outbox # <<>>
        /\ socket' = [socket EXCEPT ![n].outbox = Tail(@), ![n].inbox = Append(@, reply)]
        /\ peerCursor' = [peerCursor EXCEPT ![n] =
              IF f.type = "catch_up" THEN Advance(@, f.since) ELSE @]
        /\ UNCHANGED <<log, pruned, version, cursor, replica, command, failures>>
    BY DEF Serve, nodeVars
  <2>2. socket \in [Nodes -> Sockets] /\ peerCursor \in [Nodes -> Rows]
    BY DEF IInv, TypeOK
  <2> HIDE DEF reply, f
  <2> QED
    BY <2>1, <2>2 DEF Sockets
<1>2. f \in ClientFrames /\ f.since \in Rows /\ f.since <= Len(log) /\ f.keys \in SUBSET Keys
  <2>1. 1 \in DOMAIN socket[n].outbox /\ f = socket[n].outbox[1] /\ f \in ClientFrames
    BY <1>1, NodeParts, TakingTail
  <2>2. f.since <= Len(log)
    BY <2>1, NodeParts DEF SoundSocket, RequestsSound
  <2> HIDE DEF f
  <2> QED
    BY <2>1, <2>2 DEF ClientFrames
<1> HIDE DEF f
<1>3. listed \in SUBSET Keys /\ CurrentSequence = Len(log) /\ CurrentSequence \in Rows
      /\ CurrentSequence <= Len(log)
  BY NodeParts DEF RowsPast, CurrentSequence
<1> HIDE DEF listed
<1>4. /\ reply \in ServerFrames /\ reply.sequence <= Len(log)
      /\ \A k \in Keys : reply.values[k] <= version[k]
      /\ reply.type = "snapshots" <=> f.type = "snapshots"
  <2>1. ASSUME NEW type \in {"catch_up", "status"}, NEW keys \in SUBSET Keys,
               reply = Announce(type, keys, CurrentSequence), f.type = type
        PROVE  /\ reply \in ServerFrames /\ reply.sequence <= Len(log)
               /\ \A k \in Keys : reply.values[k] <= version[k]
               /\ reply.type = "snapshots" <=> f.type = "snapshots"
    BY <1>3, <2>1, NodeParts, AnnounceIsSound
  <2>2. CASE f.type = "snapshots"
    <3>1. reply = ServerFrame("snapshots", f.keys, 0, Snapshots(f.keys))
      BY <2>2
    <3>2. Snapshots(f.keys) \in Versions
          /\ \A k \in Keys : Snapshots(f.keys)[k] <= version[k]
      BY NodeParts, CatchUpAssumption DEF Snapshots, Versions, Rows
    <3>3. 0 \in Rows /\ 0 <= Len(log)
      BY NodeParts, CatchUpAssumption DEF Rows
    <3> QED
      BY <1>2, <2>2, <3>1, <3>2, <3>3 DEF ServerFrame, ServerFrames
  <2>3. CASE f.type = "catch_up"
    <3>1. reply = Announce("catch_up", listed, CurrentSequence)
      BY <2>3
    <3> QED
      BY <1>3, <2>1, <2>3, <3>1
  <2>4. CASE f.type = "status"
    <3>1. reply = Announce("status", {}, CurrentSequence)
      BY <2>4
    <3> QED
      BY <2>1, <2>4, <3>1
  <2> QED
    BY <1>2, <2>2, <2>3, <2>4 DEF ClientFrames
<1> HIDE DEF reply
<1>5. SoundSocket(s, Len(log), version)
  BY <1>1, <1>4, FrameServed, NodeParts DEF f
<1>6. p \in Rows /\ p <= Len(log)
  BY <1>2, NodeParts, AdvanceForward
<1>7. /\ cursor' = [cursor EXCEPT ![n] = cursor[n]]
      /\ replica' = [replica EXCEPT ![n] = replica[n]]
  BY <1>1 DEF IInv, TypeOK
<1> HIDE DEF s, p
<1> QED
  BY <1>1, <1>5, <1>6, <1>7, NodeParts, SocketSteps

LEMMA ConnectSound ==
    ASSUME IInv, NEW n \in Nodes, Connect(n)
    PROVE  IInv'
<1> DEFINE hello == Announce("hello_ack", {}, 0)
           open == [NoSocket EXCEPT !.up = TRUE]
           s == [open EXCEPT !.inbox = Append(@, hello)]
           p == Advance(peerCursor[n], cursor[n])
<1>1. /\ socket' = [socket EXCEPT ![n] = s] /\ peerCursor' = [peerCursor EXCEPT ![n] = p]
      /\ UNCHANGED <<log, pruned, version, cursor, replica, command, failures>>
  BY DEF Connect, nodeVars, NoSocket
<1>2. SoundSocket(open, Len(log), version)
  <2>1. /\ open.inbox = <<>> /\ open.outbox = <<>> /\ open.suspended = <<>>
        /\ open \in Sockets
    <3>1. open.inbox = <<>> /\ open.outbox = <<>> /\ open.suspended = <<>>
      BY DEF NoSocket
    <3>2. NoSocket \in Sockets
      BY DEF NoSocket, Sockets
    <3>3. open \in Sockets
      BY <3>2 DEF Sockets
    <3> QED
      BY <3>1, <3>3
  <2> HIDE DEF open
  <2> QED
    BY <2>1, CountEmpty DEF SoundSocket, FramesSound, RequestsSound, HandlersSound
<1>3. /\ hello \in ServerFrames /\ hello.type # "snapshots" /\ hello.sequence <= Len(log)
      /\ \A k \in Keys : hello.values[k] <= version[k]
  <2>1. 0 \in Rows /\ 0 <= Len(log) /\ {} \in SUBSET Keys
    BY NodeParts, CatchUpAssumption DEF Rows
  <2> QED
    BY <2>1, NodeParts, AnnounceIsSound
<1> HIDE DEF open, hello
<1>4. SoundSocket(s, Len(log), version)
  BY <1>2, <1>3, FrameArrives
<1>5. p \in Rows /\ p <= Len(log)
  BY NodeParts, AdvanceForward
<1>6. /\ cursor' = [cursor EXCEPT ![n] = cursor[n]]
      /\ replica' = [replica EXCEPT ![n] = replica[n]]
  BY <1>1 DEF IInv, TypeOK
<1> HIDE DEF s, p
<1> QED
  BY <1>1, <1>4, <1>5, <1>6, NodeParts, SocketSteps

\* The frame at the head of the inbox.
LEMMA Receives ==
    ASSUME IInv, NEW n \in Nodes, socket[n].inbox # <<>>
    PROVE  LET f == Head(socket[n].inbox)
           IN  /\ f \in ServerFrames /\ f.sequence \in Rows /\ f.sequence <= Len(log)
               /\ f.keys \in SUBSET Keys /\ f.values \in Versions
               /\ \A k \in Keys : f.values[k] <= version[k]
<1> DEFINE f == Head(socket[n].inbox)
<1>1. 1 \in DOMAIN socket[n].inbox /\ f = socket[n].inbox[1] /\ f \in ServerFrames
  BY NodeParts, TakingTail
<1>2. f.sequence <= Len(log) /\ \A k \in Keys : f.values[k] <= version[k]
  BY <1>1, NodeParts DEF SoundSocket, FramesSound
<1> HIDE DEF f
<1>3. f.sequence \in Rows /\ f.keys \in SUBSET Keys /\ f.values \in Versions
  BY <1>1 DEF ServerFrames
<1>4. /\ f \in ServerFrames /\ f.sequence \in Rows /\ f.sequence <= Len(log)
      /\ f.keys \in SUBSET Keys /\ f.values \in Versions
      /\ \A k \in Keys : f.values[k] <= version[k]
  BY <1>1, <1>2, <1>3
<1> QED
  BY <1>4 DEF f

LEMMA StatusSound ==
    ASSUME IInv, NEW n \in Nodes, HandleStatus(n)
    PROVE  IInv'
<1> DEFINE s == socket'[n]
<1>1. /\ socket[n].inbox # <<>> /\ Head(socket[n].inbox).type # "snapshots"
      /\ UNCHANGED <<log, pruned, version, peerCursor, replica, cursor, command, failures>>
  BY DEF HandleStatus, Received, mainVars, nodeVars
<1>2. socket \in [Nodes -> Sockets] /\ CatchUpRequest(n) \in ClientFrames
      /\ CatchUpRequest(n).type # "snapshots" /\ CatchUpRequest(n).since <= Len(log)
  BY NodeParts DEF IInv, TypeOK, CatchUpRequest, ClientFrames
<1>3. PICK ask \in BOOLEAN :
         socket' = [socket EXCEPT
             ![n].inbox = Tail(@),
             ![n].outbox = IF ask THEN Append(@, CatchUpRequest(n)) ELSE @,
             ![n].catchingUp = ask \/ @]
  <2> DEFINE f == Head(socket[n].inbox)
             wants == \/ f.type = "hello_ack"
                      \/ ~socket[n].catchingUp /\ f.sequence > cursor[n]
  <2>1. socket' = [socket EXCEPT
             ![n].inbox = Tail(@),
             ![n].outbox = IF wants THEN Append(@, CatchUpRequest(n)) ELSE @,
             ![n].catchingUp = wants \/ @]
    BY DEF HandleStatus
  <2>2. wants \in BOOLEAN
    OBVIOUS
  <2> HIDE DEF wants
  <2> QED
    BY <2>1, <2>2
<1>4. /\ s.inbox = Tail(socket[n].inbox) /\ s.suspended = socket[n].suspended
      /\ s.outbox = (IF ask THEN Append(socket[n].outbox, CatchUpRequest(n))
                            ELSE socket[n].outbox)
      /\ s.up = socket[n].up /\ s.catchingUp = (ask \/ socket[n].catchingUp)
      /\ socket' = [socket EXCEPT ![n] = s]
  BY <1>2, <1>3 DEF Sockets
<1>5. s \in Sockets
  <2>1. Tail(socket[n].inbox) \in Seq(ServerFrames)
    BY <1>1, NodeParts, TakingTail
  <2>2. Append(socket[n].outbox, CatchUpRequest(n)) \in Seq(ClientFrames)
    BY <1>2, NodeParts, Appending
  <2>3. s.outbox \in Seq(ClientFrames)
    BY <1>4, <2>2, NodeParts
  <2> QED
    BY <1>2, <1>3, <2>1, <2>2 DEF Sockets
<1> HIDE DEF s
<1>6. SoundSocket(s, Len(log), version)
  BY <1>1, <1>2, <1>4, <1>5, NodeParts, FrameHandled
<1>7. /\ cursor' = [cursor EXCEPT ![n] = cursor[n]]
      /\ peerCursor' = [peerCursor EXCEPT ![n] = peerCursor[n]]
      /\ replica' = [replica EXCEPT ![n] = replica[n]]
  BY <1>1 DEF IInv, TypeOK
<1> QED
  BY <1>1, <1>4, <1>6, <1>7, NodeParts, SocketSteps

LEMMA AnnouncementSound ==
    ASSUME IInv, NEW n \in Nodes, HandleAnnouncement(n)
    PROVE  IInv'
<1> DEFINE f == Head(socket[n].inbox)
           g == SnapshotRequest(f.keys)
           h == [type |-> f.type, sequence |-> f.sequence]
           s == socket'[n]
<1>1. /\ socket[n].inbox # <<>> /\ f.type \in {"invalidate", "catch_up", "result"}
      /\ UNCHANGED <<log, pruned, version, peerCursor, replica, command, failures>>
  BY DEF HandleAnnouncement, Received, mainVars
<1>2. /\ f.sequence \in Rows /\ f.sequence <= Len(log) /\ f.keys \in SUBSET Keys
      /\ socket \in [Nodes -> Sockets] /\ cursor \in [Nodes -> Rows]
  BY <1>1, Receives DEF IInv, TypeOK
<1>3. \/ /\ socket' = [socket EXCEPT ![n].inbox = Tail(@), ![n].outbox = Append(@, g),
                                     ![n].suspended = Append(@, h)]
         /\ cursor' = cursor
      \/ /\ socket' = [socket EXCEPT ![n].inbox = Tail(@),
                                     ![n].catchingUp = @ /\ f.type # "catch_up"]
         /\ cursor' = [cursor EXCEPT ![n] = Advance(@, f.sequence)]
  BY DEF HandleAnnouncement
<1> HIDE DEF f
<1>4. /\ g \in ClientFrames /\ g.type = "snapshots" /\ g.since <= Len(log)
      /\ h \in Handlers /\ h.sequence <= Len(log)
  <2>1. 0 \in Rows /\ 0 <= Len(log)
    BY NodeParts, CatchUpAssumption DEF Rows
  <2> QED
    BY <1>1, <1>2, <2>1 DEF SnapshotRequest, ClientFrames, Handlers
<1>5. /\ Tail(socket[n].inbox) \in Seq(ServerFrames)
      /\ Append(socket[n].outbox, g) \in Seq(ClientFrames)
      /\ Append(socket[n].suspended, h) \in Seq(Handlers)
  BY <1>1, <1>4, NodeParts, TakingTail, Appending DEF f
<1> HIDE DEF g, h
<1>6. /\ s \in Sockets /\ s.inbox = Tail(socket[n].inbox)
      /\ socket' = [socket EXCEPT ![n] = s]
      /\ \/ s.outbox = socket[n].outbox /\ s.suspended = socket[n].suspended
         \/ /\ s.outbox = Append(socket[n].outbox, g)
            /\ s.suspended = Append(socket[n].suspended, h)
  <2>1. CASE socket' = [socket EXCEPT ![n].inbox = Tail(@), ![n].outbox = Append(@, g),
                                      ![n].suspended = Append(@, h)]
    BY <1>2, <1>5, <2>1 DEF Sockets
  <2>2. CASE socket' = [socket EXCEPT ![n].inbox = Tail(@),
                                      ![n].catchingUp = @ /\ f.type # "catch_up"]
    <3> DEFINE still == socket[n].catchingUp /\ f.type # "catch_up"
    <3>1. still \in BOOLEAN
      OBVIOUS
    <3>2. socket' = [socket EXCEPT ![n].inbox = Tail(@), ![n].catchingUp = still]
      BY <2>2
    <3> HIDE DEF still
    <3> QED
      BY <1>2, <1>5, <3>1, <3>2 DEF Sockets
  <2> QED
    BY <1>3, <2>1, <2>2
<1> HIDE DEF s
<1>7. SoundSocket(s, Len(log), version)
  BY <1>1, <1>4, <1>6, NodeParts, FrameHandled DEF f
<1>8. PICK c \in Rows : c <= Len(log) /\ cursor' = [cursor EXCEPT ![n] = c]
  <2>1. cursor' = cursor \/ cursor' = [cursor EXCEPT ![n] = Advance(cursor[n], f.sequence)]
    BY <1>3
  <2>2. /\ Advance(cursor[n], f.sequence) \in Rows
        /\ Advance(cursor[n], f.sequence) <= Len(log)
    BY <1>2, NodeParts, AdvanceForward
  <2>3. cursor = [cursor EXCEPT ![n] = cursor[n]]
    BY <1>2
  <2> QED
    BY <2>1, <2>2, <2>3, NodeParts
<1>9. /\ peerCursor' = [peerCursor EXCEPT ![n] = peerCursor[n]]
      /\ replica' = [replica EXCEPT ![n] = replica[n]]
  BY <1>1 DEF IInv, TypeOK
<1> QED
  BY <1>1, <1>6, <1>7, <1>8, <1>9, NodeParts, SocketSteps

LEMMA MergeBehind ==
    ASSUME NEW copies \in Versions, NEW values \in Versions, NEW keys,
           NEW canonical, \A k \in Keys : copies[k] <= canonical[k],
           \A k \in Keys : values[k] <= canonical[k]
    PROVE  /\ Merge(copies, keys, values) \in Versions
           /\ \A k \in Keys : Merge(copies, keys, values)[k] <= canonical[k]
BY DEF Merge, Versions

\* When snapshots arrive, a handler waits for them.
LEMMA SomeoneWaits ==
    ASSUME IInv, NEW n \in Nodes, Received(n, "snapshots")
    PROVE  /\ socket[n].suspended # <<>>
           /\ Head(socket[n].suspended) \in Handlers
           /\ Head(socket[n].suspended).sequence \in Rows
           /\ Head(socket[n].suspended).sequence <= Len(log)
           /\ Count(Tail(socket[n].inbox)) + Count(socket[n].outbox)
                 = Len(Tail(socket[n].suspended))
<1> DEFINE t == socket[n]
<1>1. /\ t.inbox \in Seq(ServerFrames) /\ t.inbox # <<>> /\ t.outbox \in Seq(ClientFrames)
      /\ t.suspended \in Seq(Handlers) /\ Head(t.inbox).type = "snapshots"
      /\ HandlersSound(t.suspended, Len(log))
      /\ Count(t.inbox) + Count(t.outbox) = Len(t.suspended)
  BY NodeParts DEF Received, SoundSocket
<1> HIDE DEF t
<1>2. Tail(t.inbox) \in Seq(ServerFrames)
  BY <1>1, TakingTail
<1>3. /\ Count(t.inbox) = Count(Tail(t.inbox)) + 1
      /\ Count(Tail(t.inbox)) \in Nat /\ Count(t.outbox) \in Nat
  BY <1>1, <1>2, CountTail, AboutIsFinite
<1>4. t.suspended # <<>>
  <2>1. Len(t.suspended) # 0
    BY <1>1, <1>3
  <2> QED
    BY <1>1, <2>1
<1>5. /\ Head(t.suspended) = t.suspended[1] /\ 1 \in DOMAIN t.suspended
      /\ Head(t.suspended) \in Handlers
      /\ Len(Tail(t.suspended)) = Len(t.suspended) - 1
  BY <1>1, <1>4, TakingTail
<1>6. Head(t.suspended).sequence \in Rows /\ Head(t.suspended).sequence <= Len(log)
  BY <1>1, <1>5 DEF Handlers, HandlersSound
<1>7. Count(Tail(t.inbox)) + Count(t.outbox) = Len(Tail(t.suspended))
  <2> DEFINE a == Count(Tail(t.inbox))
             b == Count(t.outbox)
             c == Len(t.suspended)
             d == Len(Tail(t.suspended))
             e == Count(t.inbox)
  <2>1. /\ a \in Nat /\ b \in Nat /\ c \in Nat /\ e = a + 1 /\ e + b = c /\ d = c - 1
    BY <1>1, <1>3, <1>5
  <2> HIDE DEF a, b, c, d, e
  <2>2. a + b = d
    BY <2>1
  <2> QED
    BY <2>2 DEF a, b, d
<1> QED
  BY <1>4, <1>5, <1>6, <1>7 DEF t

LEMMA SnapshotsSound ==
    ASSUME IInv, NEW n \in Nodes, HandleSnapshots(n)
    PROVE  IInv'
<1> DEFINE f == Head(socket[n].inbox)
           h == Head(socket[n].suspended)
           s == socket'[n]
           c == Advance(cursor[n], h.sequence)
           copies == Merge(replica[n], f.keys, f.values)
<1>1. /\ Received(n, "snapshots") /\ socket[n].inbox # <<>>
      /\ replica' = [replica EXCEPT ![n] = copies]
      /\ cursor' = [cursor EXCEPT ![n] = c]
      /\ UNCHANGED <<log, pruned, version, peerCursor, command, failures>>
  BY DEF HandleSnapshots, Received, mainVars
<1>2. socket \in [Nodes -> Sockets]
  BY DEF IInv, TypeOK
<1>3. PICK still \in BOOLEAN :
         socket' = [socket EXCEPT ![n].inbox = Tail(@), ![n].suspended = Tail(@),
                                  ![n].catchingUp = still]
  <2> DEFINE wants == socket[n].catchingUp /\ h.type # "catch_up"
  <2>1. socket' = [socket EXCEPT ![n].inbox = Tail(@), ![n].suspended = Tail(@),
                                 ![n].catchingUp = wants]
    BY DEF HandleSnapshots
  <2>2. wants \in BOOLEAN
    OBVIOUS
  <2> HIDE DEF wants
  <2> QED
    BY <2>1, <2>2
<1>4. /\ socket[n].suspended # <<>> /\ h.sequence \in Rows /\ h.sequence <= Len(log)
      /\ Count(Tail(socket[n].inbox)) + Count(socket[n].outbox)
            = Len(Tail(socket[n].suspended))
  BY <1>1, SomeoneWaits
<1>5. copies \in Versions /\ \A k \in Keys : copies[k] <= version[k]
  BY <1>1, Receives, NodeParts, MergeBehind
<1>6. c \in Rows /\ c <= Len(log)
  BY <1>4, NodeParts, AdvanceForward
<1> HIDE DEF f, h, c, copies
<1>7. /\ Tail(socket[n].inbox) \in Seq(ServerFrames)
      /\ Tail(socket[n].suspended) \in Seq(Handlers)
  BY <1>1, <1>4, NodeParts, TakingTail
<1>8. /\ s \in Sockets /\ socket' = [socket EXCEPT ![n] = s]
      /\ s.inbox = Tail(socket[n].inbox) /\ s.outbox = socket[n].outbox
      /\ s.suspended = Tail(socket[n].suspended)
  BY <1>2, <1>3, <1>7 DEF Sockets
<1> HIDE DEF s
<1>9. SoundSocket(s, Len(log), version)
  <2>1. FramesSound(s.inbox, Len(log), version)
    BY <1>1, <1>8, NodeParts, QueuesShrink DEF SoundSocket
  <2>2. HandlersSound(s.suspended, Len(log))
    BY <1>4, <1>8, NodeParts, QueuesShrink DEF SoundSocket
  <2>3. RequestsSound(s.outbox, Len(log))
    BY <1>8, NodeParts DEF SoundSocket
  <2> QED
    BY <1>4, <1>8, <2>1, <2>2, <2>3 DEF SoundSocket
<1>10. peerCursor' = [peerCursor EXCEPT ![n] = peerCursor[n]]
  BY <1>1 DEF IInv, TypeOK
<1> QED
  BY <1>1, <1>5, <1>6, <1>8, <1>9, <1>10, NodeParts, SocketSteps

LEMMA PollSound ==
    ASSUME IInv, NEW n \in Nodes, PollStatus(n)
    PROVE  IInv'
<1> DEFINE g == [type |-> "status", keys |-> {}, since |-> 0]
           s == socket'[n]
<1>1. /\ socket[n].inbox = <<>> /\ socket[n].outbox = <<>>
      /\ socket' = [socket EXCEPT ![n].outbox = <<g>>]
      /\ UNCHANGED <<log, pruned, version, peerCursor, cursor, replica, command, failures>>
  BY DEF PollStatus, mainVars, nodeVars
<1>2. g \in ClientFrames /\ g.type = "status" /\ g.since = 0
  BY CatchUpAssumption DEF ClientFrames, Rows
<1> HIDE DEF g
<1>3. /\ s \in Sockets /\ socket' = [socket EXCEPT ![n] = s] /\ s.outbox = <<g>>
      /\ s.inbox = socket[n].inbox /\ s.suspended = socket[n].suspended
  <2>1. <<g>> \in Seq(ClientFrames)
    BY <1>2
  <2>2. socket \in [Nodes -> Sockets]
    BY DEF IInv, TypeOK
  <2> QED
    BY <1>1, <2>1, <2>2 DEF Sockets
<1> HIDE DEF s
<1>4. Count(<<g>>) = Count(<<>>)
  <2>1. <<>> \in Seq(ClientFrames) /\ Append(<<>>, g) = <<g>>
    BY <1>2
  <2>2. Count(Append(<<>>, g)) = Count(<<>>) + 0
    BY <1>2, <2>1, CountAppend
  <2> QED
    BY <2>1, <2>2, CountEmpty
<1>5. SoundSocket(s, Len(log), version)
  <2>1. RequestsSound(s.outbox, Len(log))
    BY <1>2, <1>3, NodeParts DEF RequestsSound
  <2>2. Count(s.inbox) + Count(s.outbox) = Len(s.suspended)
    BY <1>1, <1>3, <1>4, NodeParts DEF SoundSocket
  <2> QED
    BY <1>3, <2>1, <2>2, NodeParts DEF SoundSocket
<1>6. /\ cursor' = [cursor EXCEPT ![n] = cursor[n]]
      /\ peerCursor' = [peerCursor EXCEPT ![n] = peerCursor[n]]
      /\ replica' = [replica EXCEPT ![n] = replica[n]]
  BY <1>1 DEF IInv, TypeOK
<1> QED
  BY <1>1, <1>3, <1>5, <1>6, NodeParts, SocketSteps

LEMMA DisconnectSound ==
    ASSUME IInv, NEW n \in Nodes, Disconnect(n)
    PROVE  IInv'
<1>1. /\ socket' = [socket EXCEPT ![n] = NoSocket] /\ failures' = failures + 1
      /\ failures < MaxFailures
      /\ UNCHANGED <<log, pruned, version, peerCursor, cursor, replica, command>>
  BY DEF Disconnect, mainVars, nodeVars
<1>2. failures' \in 0 .. MaxFailures
  BY <1>1, NodeParts, CatchUpAssumption
<1>3. /\ cursor' = [cursor EXCEPT ![n] = cursor[n]]
      /\ peerCursor' = [peerCursor EXCEPT ![n] = peerCursor[n]]
      /\ replica' = [replica EXCEPT ![n] = replica[n]]
  BY <1>1 DEF IInv, TypeOK
<1> QED
  BY <1>1, <1>2, <1>3, NodeParts, NoSocketIsSound, SocketSteps

LEMMA RestartSound ==
    ASSUME IInv, RestartMain
    PROVE  IInv'
<1>0. PICK present \in SUBSET Unlisted :
         /\ Len(log) + Cardinality(present) <= MaxSequence
         /\ log' = log \o SetToSeq(present)
  BY DEF RestartMain
<1> DEFINE list == SetToSeq(present)
<1>1. /\ failures < MaxFailures /\ failures' = failures + 1
      /\ Len(log) + Cardinality(present) <= MaxSequence /\ log' = log \o list
      /\ socket' = [n \in Nodes |-> NoSocket]
      /\ UNCHANGED <<pruned, version, peerCursor, replica, cursor, command>>
  BY <1>0 DEF RestartMain, nodeVars
<1>2. /\ log \in Seq(Keys) /\ Len(log) \in Nat /\ pruned \in Nat /\ version \in Versions
      /\ \A k \in Keys : version[k] \in Nat /\ version[k] <= Len(log)
      /\ failures \in 0 .. MaxFailures /\ pruned <= Len(log)
  BY Numbers DEF IInv, TypeOK
<1>3. /\ list \in Seq(Keys) /\ Len(list) = Cardinality(present) /\ Len(list) \in Nat
  <2>1. IsFiniteSet(present) /\ present \subseteq Keys
    BY CatchUpAssumption, FS_Subset DEF Unlisted
  <2> HIDE DEF list
  <2>2. /\ list \in Seq(present) /\ Len(list) = Cardinality(present)
        /\ Cardinality(present) \in Nat
    BY <2>1, Listing DEF list
  <2> QED
    BY <2>1, <2>2
<1> HIDE DEF list
<1>4. log' \in Seq(Keys) /\ Len(log') = Len(log) + Len(list)
  <2>1. log \o list \in Seq(Keys) /\ Len(log \o list) = Len(log) + Len(list)
    BY <1>2, <1>3, Concatenating
  <2> QED
    BY <1>1, <2>1
<1>5. Grows
  BY <1>1, <1>2, <1>3, <1>4 DEF Grows
<1>6. \A n \in Nodes : SoundSocket(socket'[n], Len(log'), version')
  BY <1>1, NoSocketIsSound
<1>7. TypeOK'
  <2>1. NoSocket \in Sockets
    BY DEF NoSocket, Sockets
  <2>2. failures' \in 0 .. MaxFailures /\ pruned' \in 0 .. Len(log')
    BY <1>1, <1>2, <1>3, <1>4, CatchUpAssumption
  <2> QED
    BY <1>1, <1>5, <2>1, <2>2 DEF IInv, TypeOK, Grows
<1>8. \A n \in Nodes : Behind(n)'
  BY <1>1, <1>5, StillBehind DEF Behind
<1> QED
  BY <1>5, <1>6, <1>7, <1>8 DEF IInv, Grows

LEMMA PruneSound ==
    ASSUME IInv, Prune
    PROVE  IInv'
<1>1. PICK aged \in {0} \cup (IF TimePruning THEN DOMAIN log ELSE {}) :
         LET cutoff == Max({PeerCutoff, aged + 1})
         IN  cutoff - 1 > pruned /\ pruned' = cutoff - 1
  BY DEF Prune
<1>2. /\ UNCHANGED <<log, version, peerCursor, replica, cursor, socket, command, failures>>
  BY DEF Prune, nodeVars
<1>3. /\ log \in Seq(Keys) /\ Len(log) \in Nat /\ pruned \in Nat
      /\ \A n \in Nodes : peerCursor[n] \in Nat /\ peerCursor[n] <= Len(log)
  BY Numbers DEF IInv, TypeOK, Behind
<1>4. PeerCutoff \in Nat /\ PeerCutoff <= Len(log)
  <2> DEFINE reported == {peerCursor[n] : n \in Nodes}
  <2>1. reported \subseteq Nat /\ reported # {}
    BY <1>3, CatchUpAssumption
  <2>2. Min(reported) \in reported
    BY <2>1, MinOfNaturals
  <2> QED
    BY <1>3, <2>2 DEF PeerCutoff
<1>5. aged \in Nat /\ aged <= Len(log)
  BY <1>3
<1>6. Max({PeerCutoff, aged + 1}) \in {PeerCutoff, aged + 1}
  BY <1>4, <1>5, MaxOfTwo
<1>7. pruned' \in 0 .. Len(log)
  BY <1>1, <1>3, <1>4, <1>5, <1>6
<1> QED
  BY <1>2, <1>7 DEF IInv, TypeOK, Behind

\* A step of a command of node n that neither writes nor touches a socket.
LEMMA CommandSteps ==
    ASSUME IInv, UNCHANGED <<log, pruned, version, socket>>, NEW n \in Nodes,
           failures' \in 0 .. MaxFailures,
           NEW d \in RunningCommands, command' = [command EXCEPT ![n] = d],
           d.sequence <= Len(log), \A k \in Keys : d.values[k] <= version[k],
           NEW p \in Rows, peerCursor' = [peerCursor EXCEPT ![n] = p], p <= Len(log),
           NEW c \in Rows, cursor' = [cursor EXCEPT ![n] = c], c <= Len(log),
           NEW copies \in Versions, replica' = [replica EXCEPT ![n] = copies],
           \A k \in Keys : copies[k] <= version[k]
    PROVE  IInv'
<1>1. TypeOK'
  BY DEF IInv, TypeOK
<1>2. ASSUME NEW m \in Nodes PROVE Behind(m)'
  BY DEF IInv, TypeOK, Behind
<1> QED
  BY <1>1, <1>2 DEF IInv

LEMMA NoCommandIsSound ==
    /\ NoCommand \in RunningCommands /\ NoCommand.sequence = 0
    /\ \A k \in Keys : NoCommand.values[k] = 0
BY CatchUpAssumption DEF NoCommand, RunningCommands, NoVersions, Versions, Rows

LEMMA CatchUpCommandSound ==
    ASSUME IInv, NEW n \in Nodes, CatchUpCommand(n)
    PROVE  IInv'
<1>1. PICK since \in {0, cursor[n]} :
         /\ cursor' = [cursor EXCEPT ![n] = since]
         /\ peerCursor' = [peerCursor EXCEPT ![n] = Advance(@, since)]
         /\ command' = [command EXCEPT ![n] =
               [phase |-> "listed", keys |-> {log[i] : i \in RowsPast(since)},
                sequence |-> CurrentSequence, values |-> NoVersions]]
  BY DEF CatchUpCommand
<1>2. UNCHANGED <<log, pruned, version, replica, socket, failures>>
  BY DEF CatchUpCommand
<1>3. since \in Rows /\ since <= Len(log)
  BY <1>1, NodeParts, CatchUpAssumption DEF Rows
<1>4. Advance(peerCursor[n], since) \in Rows /\ Advance(peerCursor[n], since) <= Len(log)
  BY <1>3, NodeParts, AdvanceForward
<1> DEFINE listed == {log[i] : i \in RowsPast(since)}
           d == [phase |-> "listed", keys |-> listed,
                 sequence |-> CurrentSequence, values |-> NoVersions]
<1>5. listed \in SUBSET Keys
  BY NodeParts DEF RowsPast
<1>6. NoVersions \in Versions /\ \A k \in Keys : NoVersions[k] <= version[k]
  BY NodeParts, CatchUpAssumption DEF NoVersions, Versions, Rows
<1>7. /\ command' = [command EXCEPT ![n] = d]
      /\ peerCursor' = [peerCursor EXCEPT ![n] = Advance(peerCursor[n], since)]
  BY <1>1
<1> HIDE DEF listed
<1>8. /\ d \in RunningCommands /\ d.sequence <= Len(log)
      /\ \A k \in Keys : d.values[k] <= version[k]
  BY <1>5, <1>6, NodeParts DEF RunningCommands, CurrentSequence
<1>9. replica' = [replica EXCEPT ![n] = replica[n]]
  BY <1>2 DEF IInv, TypeOK
<1>10. failures' \in 0 .. MaxFailures
  BY <1>2, NodeParts
<1> HIDE DEF d
<1> QED
  BY <1>1, <1>2, <1>3, <1>4, <1>7, <1>8, <1>9, <1>10, NodeParts, CommandSteps

LEMMA CommandFetchSound ==
    ASSUME IInv, NEW n \in Nodes, CommandFetch(n)
    PROVE  IInv'
<1> DEFINE d == command'[n]
<1>1. /\ command' = [command EXCEPT ![n].phase = "fetched",
                                    ![n].values = Snapshots(command[n].keys)]
      /\ UNCHANGED <<log, pruned, version, peerCursor, cursor, replica, socket, failures>>
  BY DEF CommandFetch, mainVars, nodeVars
<1>2. Snapshots(command[n].keys) \in Versions
      /\ \A k \in Keys : Snapshots(command[n].keys)[k] <= version[k]
  BY NodeParts, CatchUpAssumption DEF Snapshots, Versions, Rows
<1>3. command \in [Nodes -> RunningCommands]
  BY DEF IInv, TypeOK
<1>4. /\ d \in RunningCommands /\ command' = [command EXCEPT ![n] = d]
      /\ d.sequence = command[n].sequence /\ d.values = Snapshots(command[n].keys)
  BY <1>1, <1>2, <1>3 DEF RunningCommands
<1> HIDE DEF d
<1>5. d.sequence <= Len(log) /\ \A k \in Keys : d.values[k] <= version[k]
  BY <1>2, <1>4, NodeParts DEF Behind
<1>6. /\ cursor' = [cursor EXCEPT ![n] = cursor[n]]
      /\ peerCursor' = [peerCursor EXCEPT ![n] = peerCursor[n]]
      /\ replica' = [replica EXCEPT ![n] = replica[n]]
  BY <1>1 DEF IInv, TypeOK
<1>7. failures' \in 0 .. MaxFailures
  BY <1>1, NodeParts
<1> QED
  BY <1>1, <1>4, <1>5, <1>6, <1>7, NodeParts, CommandSteps

LEMMA CommandMergeSound ==
    ASSUME IInv, NEW n \in Nodes, CommandMerge(n)
    PROVE  IInv'
<1> DEFINE c == Advance(cursor[n], command[n].sequence)
           copies == Merge(replica[n], command[n].keys, command[n].values)
<1>1. /\ command' = [command EXCEPT ![n] = NoCommand]
      /\ cursor' = [cursor EXCEPT ![n] = c] /\ replica' = [replica EXCEPT ![n] = copies]
      /\ UNCHANGED <<log, pruned, version, peerCursor, socket, failures>>
  BY DEF CommandMerge, mainVars
<1>2. /\ command[n].sequence \in Rows /\ command[n].sequence <= Len(log)
      /\ command[n].values \in Versions
      /\ \A k \in Keys : command[n].values[k] <= version[k]
  BY NodeParts DEF Behind, RunningCommands
<1>3. c \in Rows /\ c <= Len(log)
  BY <1>2, NodeParts, AdvanceForward
<1>4. copies \in Versions /\ \A k \in Keys : copies[k] <= version[k]
  BY <1>2, NodeParts, MergeBehind
<1> HIDE DEF c, copies
<1>5. /\ NoCommand \in RunningCommands /\ NoCommand.sequence <= Len(log)
      /\ \A k \in Keys : NoCommand.values[k] <= version[k]
  BY NoCommandIsSound, NodeParts
<1>6. peerCursor' = [peerCursor EXCEPT ![n] = peerCursor[n]]
  BY <1>1 DEF IInv, TypeOK
<1>7. failures' \in 0 .. MaxFailures
  BY <1>1, NodeParts
<1> QED
  BY <1>1, <1>3, <1>4, <1>5, <1>6, <1>7, NodeParts, CommandSteps

LEMMA FailCommandSound ==
    ASSUME IInv, NEW n \in Nodes, FailCommand(n)
    PROVE  IInv'
<1>1. /\ command' = [command EXCEPT ![n] = NoCommand] /\ failures' = failures + 1
      /\ failures < MaxFailures
      /\ UNCHANGED <<log, pruned, version, peerCursor, cursor, replica, socket>>
  BY DEF FailCommand, mainVars, nodeVars
<1>2. failures' \in 0 .. MaxFailures
  BY <1>1, NodeParts, CatchUpAssumption
<1>3. /\ NoCommand \in RunningCommands /\ NoCommand.sequence <= Len(log)
      /\ \A k \in Keys : NoCommand.values[k] <= version[k]
  BY NoCommandIsSound, NodeParts
<1>4. /\ cursor' = [cursor EXCEPT ![n] = cursor[n]]
      /\ peerCursor' = [peerCursor EXCEPT ![n] = peerCursor[n]]
      /\ replica' = [replica EXCEPT ![n] = replica[n]]
  BY <1>1 DEF IInv, TypeOK
<1> QED
  BY <1>1, <1>2, <1>3, <1>4, NodeParts, CommandSteps

LEMMA WriteSound ==
    ASSUME IInv, NEW keys \in WriteSets,
           \/ MainWrite(keys) \/ ExternalWrite(keys)
           \/ \E n \in Nodes : NodeWrite(n, keys) \/ CommandWrite(n, keys)
    PROVE  IInv'
<1>1. Change(keys) /\ UNCHANGED <<nodeVars, failures>>
  BY DEF MainWrite, ExternalWrite, NodeWrite, CommandWrite
<1>2. \/ UNCHANGED socket
      \/ \E excluded : Broadcast(keys, excluded, Announce("result", keys, 0))
  BY DEF MainWrite, ExternalWrite, NodeWrite, CommandWrite
<1>3. /\ command' \in [Nodes -> RunningCommands]
      /\ \A n \in Nodes :
            \/ command'[n] = command[n]
            \/ command'[n].sequence = 0 /\ \A k \in Keys : command'[n].values[k] = 0
  <2>1. command \in [Nodes -> RunningCommands]
    BY DEF IInv, TypeOK
  <2>2. ASSUME NEW n \in Nodes, CommandWrite(n, keys)
        PROVE  <1>3
    <3> DEFINE d == [phase |-> "listed", keys |-> keys, sequence |-> 0,
                     values |-> NoVersions]
    <3>1. command' = [command EXCEPT ![n] = d]
      BY <2>2 DEF CommandWrite
    <3>2. /\ d \in RunningCommands /\ d.sequence = 0
          /\ \A k \in Keys : d.values[k] = 0
      BY CatchUpAssumption DEF RunningCommands, NoVersions, Versions, Rows, WriteSets
    <3> HIDE DEF d
    <3> QED
      BY <2>1, <3>1, <3>2
  <2>3. CASE MainWrite(keys) \/ ExternalWrite(keys) \/ \E n \in Nodes : NodeWrite(n, keys)
    BY <2>1, <2>3 DEF MainWrite, ExternalWrite, NodeWrite
  <2> QED
    BY <2>2, <2>3
<1> QED
  BY <1>1, <1>2, <1>3, WritesAreSound

LEMMA InitSound ==
    ASSUME Init
    PROVE  IInv
<1>1. PICK existing \in SUBSET Keys :
         /\ Cardinality(existing) <= MaxSequence
         /\ log = SetToSeq(existing)
         /\ version = [k \in Keys |-> LastRow(log, k)]
  BY DEF Init
<1>2. log \in Seq(Keys) /\ Len(log) <= MaxSequence /\ Len(log) \in Nat
  <2>1. IsFiniteSet(existing)
    BY CatchUpAssumption, FS_Subset
  <2>2. /\ SetToSeq(existing) \in Seq(existing)
        /\ Len(SetToSeq(existing)) = Cardinality(existing) /\ Cardinality(existing) \in Nat
    BY <2>1, Listing
  <2>3. log \in Seq(existing) /\ Len(log) <= MaxSequence /\ Len(log) \in Nat
    BY <1>1, <2>2
  <2> QED
    BY <2>3
<1>3. \A k \in Keys : version[k] \in 0 .. Len(log)
  BY <1>1, <1>2, LastRowIsThere
<1>4. version \in Versions
  <2>1. \A k \in Keys : LastRow(log, k) \in Rows
    BY <1>2, LastRowIsThere, CatchUpAssumption DEF Rows
  <2> QED
    BY <1>1, <2>1 DEF Versions
<1>5. 0 \in Rows /\ NoVersions \in Versions /\ NoSocket \in Sockets
  BY CatchUpAssumption DEF Rows, NoVersions, Versions, NoSocket, Sockets
<1>6. TypeOK
  BY <1>2, <1>4, <1>5, NoCommandIsSound, CatchUpAssumption DEF Init, TypeOK
<1>7. \A n \in Nodes : SoundSocket(socket[n], Len(log), version)
  BY NoSocketIsSound DEF Init
<1>8. \A n \in Nodes : Behind(n)
  <2>1. \A k \in Keys : 0 <= version[k] /\ NoVersions[k] = 0
    BY <1>3 DEF NoVersions
  <2> QED
    BY <1>2, <2>1, NoCommandIsSound DEF Init, Behind
<1> QED
  BY <1>2, <1>3, <1>6, <1>7, <1>8 DEF IInv

LEMMA StepSound ==
    ASSUME IInv, [Next]_vars
    PROVE  IInv'
<1>1. CASE UNCHANGED vars
  BY <1>1 DEF vars, IInv, TypeOK, Behind
<1>2. ASSUME NEW keys \in WriteSets,
             \/ MainWrite(keys) \/ ExternalWrite(keys)
             \/ \E n \in Nodes : NodeWrite(n, keys) \/ CommandWrite(n, keys)
      PROVE  IInv'
  BY <1>2, WriteSound
<1>3. CASE Prune \/ RestartMain
  BY <1>3, PruneSound, RestartSound
<1>4. ASSUME NEW n \in Nodes,
             \/ Serve(n) \/ Connect(n) \/ HandleStatus(n) \/ HandleAnnouncement(n)
             \/ HandleSnapshots(n) \/ PollStatus(n) \/ Disconnect(n)
      PROVE  IInv'
  BY <1>4, ServeSound, ConnectSound, StatusSound, AnnouncementSound, SnapshotsSound,
     PollSound, DisconnectSound
<1>5. ASSUME NEW n \in Nodes,
             CatchUpCommand(n) \/ CommandFetch(n) \/ CommandMerge(n) \/ FailCommand(n)
      PROVE  IInv'
  BY <1>5, CatchUpCommandSound, CommandFetchSound, CommandMergeSound, FailCommandSound
<1> QED
  BY <1>1, <1>2, <1>3, <1>4, <1>5 DEF Next

-----------------------------------------------------------------------------
(* Without commands.                                                       *)

\* No command runs, the main node knows no later cursor of a node than the node has, nor
\* will learn of one, and what it has pruned the node is past.
Retained ==
    \A n \in Nodes :
        /\ command[n] = NoCommand
        /\ peerCursor[n] <= cursor[n] /\ RequestsSound(socket[n].outbox, cursor[n])
        /\ pruned <= cursor[n]

\* A step in which cursors move on, and no node reports or asks beyond its own.
LEMMA RetainedStays ==
    ASSUME IInv, IInv', Retained, UNCHANGED <<command, pruned>>,
           \A n \in Nodes :
              /\ cursor[n] <= cursor'[n]
              /\ peerCursor'[n] <= cursor[n]
              /\ RequestsSound(socket'[n].outbox, cursor[n])
    PROVE  Retained'
<1> SUFFICES ASSUME NEW n \in Nodes
             PROVE  /\ command'[n] = NoCommand
                    /\ peerCursor'[n] <= cursor'[n]
                    /\ RequestsSound(socket'[n].outbox, cursor'[n])
                    /\ pruned' <= cursor'[n]
  BY DEF Retained
<1>1. /\ cursor[n] \in Nat /\ cursor'[n] \in Nat /\ peerCursor[n] \in Nat
      /\ peerCursor'[n] \in Nat /\ pruned \in Nat
  BY CatchUpAssumption, Numbers DEF IInv, TypeOK, Rows
<1>2. \A i \in DOMAIN socket'[n].outbox : socket'[n].outbox[i].since \in Nat
  BY SocketParts DEF IInv, TypeOK
<1>3. RequestsSound(socket'[n].outbox, cursor'[n])
  BY <1>1, <1>2 DEF RequestsSound
<1>4. peerCursor'[n] <= cursor'[n] /\ pruned' <= cursor'[n] /\ command'[n] = NoCommand
  BY <1>1 DEF Retained
<1> QED
  BY <1>3, <1>4

\* What a step that neither writes nor restarts does to the outbox of a node: it shrinks,
\* or grows by a request from the node's own cursor, or is emptied.
Outboxes ==
    \A m \in Nodes :
        LET q == socket[m].outbox
        IN  \/ socket'[m].outbox = q
            \/ q # <<>> /\ socket'[m].outbox = Tail(q)
            \/ \E g \in ClientFrames : /\ socket'[m].outbox = Append(q, g)
                                       /\ g.since \in {0, cursor[m]}
            \/ socket'[m].outbox = <<>>

LEMMA OutboxesStayBehind ==
    ASSUME IInv, Retained, Outboxes
    PROVE  \A n \in Nodes : RequestsSound(socket'[n].outbox, cursor[n])
<1> SUFFICES ASSUME NEW n \in Nodes
             PROVE  RequestsSound(socket'[n].outbox, cursor[n])
  OBVIOUS
<1> DEFINE q == socket[n].outbox
<1>1. q \in Seq(ClientFrames) /\ RequestsSound(q, cursor[n]) /\ cursor[n] \in Nat
  BY NodeParts, Numbers DEF Retained, IInv
<1>2. \/ socket'[n].outbox = q
      \/ q # <<>> /\ socket'[n].outbox = Tail(q)
      \/ \E g \in ClientFrames : /\ socket'[n].outbox = Append(q, g)
                                 /\ g.since \in {0, cursor[n]}
      \/ socket'[n].outbox = <<>>
  BY DEF Outboxes
<1> HIDE DEF q
<1>3. CASE socket'[n].outbox = q
  BY <1>1, <1>3
<1>4. CASE q # <<>> /\ socket'[n].outbox = Tail(q)
  BY <1>1, <1>4, QueuesShrink
<1>5. ASSUME NEW g \in ClientFrames, socket'[n].outbox = Append(q, g),
             g.since \in {0, cursor[n]}
      PROVE  RequestsSound(socket'[n].outbox, cursor[n])
  BY <1>1, <1>5, QueuesGrow
<1>6. CASE socket'[n].outbox = <<>>
  BY <1>6 DEF RequestsSound
<1> QED
  BY <1>2, <1>3, <1>4, <1>5, <1>6

LEMMA RetainedWrite ==
    ASSUME ~Commands, IInv, IInv', Retained, NEW keys \in WriteSets,
           \/ MainWrite(keys) \/ ExternalWrite(keys)
           \/ \E n \in Nodes : NodeWrite(n, keys) \/ CommandWrite(n, keys)
    PROVE  Retained'
<1>1. UNCHANGED <<command, pruned, peerCursor, cursor>>
  BY DEF MainWrite, ExternalWrite, NodeWrite, CommandWrite, Change, nodeVars
<1>2. \/ UNCHANGED socket
      \/ \E excluded : Broadcast(keys, excluded, Announce("result", keys, 0))
  BY DEF MainWrite, ExternalWrite, NodeWrite, CommandWrite
<1>3. \A n \in Nodes : socket'[n].outbox = socket[n].outbox
  <2>1. ASSUME NEW excluded, Broadcast(keys, excluded, Announce("result", keys, 0)),
               NEW n \in Nodes
        PROVE  socket'[n].outbox = socket[n].outbox
    <3>1. socket[n] \in Sockets
      BY NodeParts
    <3>2. \/ socket'[n] = socket[n]
          \/ socket'[n] = [socket[n] EXCEPT !.inbox = Append(@, Announce("result", keys, 0))]
          \/ socket'[n] = [socket[n] EXCEPT
                             !.inbox = Append(@, Announce("invalidate", keys, Len(log')))]
      BY <2>1 DEF Broadcast
    <3> QED
      BY <3>1, <3>2 DEF Sockets
  <2> QED
    BY <1>2, <2>1
<1>4. \A n \in Nodes : RequestsSound(socket'[n].outbox, cursor[n])
  BY <1>3 DEF Retained
<1>5. \A n \in Nodes : /\ cursor[n] <= cursor'[n] /\ peerCursor'[n] <= cursor[n]
  BY <1>1, Numbers DEF Retained, IInv
<1> QED
  BY <1>1, <1>4, <1>5, RetainedStays

\* Pruning by cursor stops at the smallest cursor reported.
LEMMA PrunesBehindPeers ==
    ASSUME ~TimePruning, IInv, Prune
    PROVE  pruned' \in Int /\ \A n \in Nodes : pruned' <= peerCursor[n]
<1>1. Max({PeerCutoff, 0 + 1}) - 1 > pruned /\ pruned' = Max({PeerCutoff, 0 + 1}) - 1
  BY DEF Prune
<1>2. pruned \in Nat /\ \A n \in Nodes : peerCursor[n] \in Nat
  BY Numbers DEF IInv
<1>3. PeerCutoff \in Nat /\ \A n \in Nodes : PeerCutoff <= peerCursor[n]
  <2> DEFINE reported == {peerCursor[n] : n \in Nodes}
  <2>1. reported \subseteq Nat /\ reported # {}
    BY <1>2, CatchUpAssumption
  <2>2. Min(reported) \in reported /\ \A x \in reported : Min(reported) <= x
    BY <2>1, MinOfNaturals
  <2> QED
    BY <1>2, <2>2 DEF PeerCutoff
<1>4. Max({PeerCutoff, 0 + 1}) \in {PeerCutoff, 0 + 1}
  BY <1>3, MaxOfTwo
<1>5. pruned' <= PeerCutoff /\ pruned' \in Int
  BY <1>1, <1>2, <1>3, <1>4
<1> QED
  BY <1>2, <1>3, <1>5

LEMMA RetainedPrune ==
    ASSUME ~TimePruning, IInv, Retained, Prune
    PROVE  Retained'
<1>1. UNCHANGED <<peerCursor, cursor, socket, command>>
  BY DEF Prune, nodeVars
<1>2. \A n \in Nodes : /\ peerCursor[n] \in Nat /\ cursor[n] \in Nat /\ pruned' \in Int
                        /\ pruned' <= peerCursor[n] /\ peerCursor[n] <= cursor[n]
  BY Numbers, PrunesBehindPeers DEF IInv, Retained
<1> QED
  BY <1>1, <1>2 DEF Retained

\* What else a node and its socket may do.
LEMMA RetainedSocket ==
    ASSUME ~Commands, IInv, IInv', Retained, NEW n \in Nodes,
           \/ Serve(n) \/ Connect(n) \/ HandleStatus(n) \/ HandleAnnouncement(n)
           \/ HandleSnapshots(n) \/ PollStatus(n) \/ Disconnect(n)
    PROVE  Retained'
<1>1. UNCHANGED <<command, pruned>>
  BY DEF Serve, Connect, HandleStatus, HandleAnnouncement, HandleSnapshots, PollStatus,
         Disconnect, mainVars, nodeVars
<1>2. socket \in [Nodes -> Sockets] /\ cursor \in [Nodes -> Rows]
      /\ peerCursor \in [Nodes -> Rows]
  BY DEF IInv, TypeOK
<1>3. \A m \in Nodes \ {n} : /\ socket'[m] = socket[m] /\ cursor'[m] = cursor[m]
                             /\ peerCursor'[m] = peerCursor[m]
  BY <1>2 DEF Serve, Connect, HandleStatus, HandleAnnouncement, HandleSnapshots, PollStatus,
              Disconnect, mainVars, nodeVars
<1>4. cursor[n] <= cursor'[n]
  <2>1. CASE cursor' = cursor
    BY <2>1, Numbers DEF IInv
  <2>2. ASSUME NEW b \in Rows, cursor' = [cursor EXCEPT ![n] = Advance(@, b)]
        PROVE  cursor[n] <= cursor'[n]
    BY <1>2, <2>2, AdvanceForward
  <2>3. CASE HandleAnnouncement(n)
    <3>1. socket[n].inbox # <<>>
      BY <2>3 DEF HandleAnnouncement, Received
    <3>2. Head(socket[n].inbox).sequence \in Rows
      BY <3>1, Receives
    <3>3. cursor' = cursor
          \/ cursor' = [cursor EXCEPT ![n] = Advance(@, Head(socket[n].inbox).sequence)]
      BY <2>3 DEF HandleAnnouncement
    <3> QED
      BY <2>1, <2>2, <3>2, <3>3
  <2>4. CASE HandleSnapshots(n)
    <3>1. Head(socket[n].suspended).sequence \in Rows
      BY <2>4, SomeoneWaits DEF HandleSnapshots
    <3>2. cursor' = [cursor EXCEPT ![n] = Advance(@, Head(socket[n].suspended).sequence)]
      BY <2>4 DEF HandleSnapshots
    <3> QED
      BY <2>2, <3>1, <3>2
  <2>5. CASE Serve(n) \/ Connect(n) \/ HandleStatus(n) \/ PollStatus(n) \/ Disconnect(n)
    <3>1. cursor' = cursor
      BY <2>5 DEF Serve, Connect, HandleStatus, PollStatus, Disconnect, nodeVars
    <3> QED
      BY <2>1, <3>1
  <2> QED
    BY <2>3, <2>4, <2>5
<1>5. peerCursor'[n] <= cursor[n]
  <2>1. peerCursor[n] <= cursor[n]
    BY DEF Retained
  <2>2. CASE peerCursor' = peerCursor
    BY <2>1, <2>2
  <2>3. ASSUME NEW b \in Rows, b <= cursor[n],
               peerCursor' = [peerCursor EXCEPT ![n] = Advance(@, b)]
        PROVE  peerCursor'[n] <= cursor[n]
    BY <1>2, <2>1, <2>3, AdvanceForward
  <2>4. CASE Serve(n)
    <3> DEFINE f == Head(socket[n].outbox)
    <3>1. socket[n].outbox # <<>>
      BY <2>4 DEF Serve
    <3>2. peerCursor' = [peerCursor EXCEPT ![n] =
              IF f.type = "catch_up" THEN Advance(@, f.since) ELSE @]
      BY <2>4 DEF Serve
    <3>3. f \in ClientFrames /\ f.since <= cursor[n]
      <4>1. f = socket[n].outbox[1] /\ 1 \in DOMAIN socket[n].outbox /\ f \in ClientFrames
        BY <3>1, NodeParts, TakingTail
      <4> QED
        BY <4>1 DEF Retained, RequestsSound
    <3> HIDE DEF f
    <3>4. f.since \in Rows
      BY <3>3 DEF ClientFrames
    <3>5. CASE f.type = "catch_up"
      BY <2>3, <3>2, <3>3, <3>4, <3>5
    <3>6. CASE f.type # "catch_up"
      BY <1>2, <2>1, <3>2, <3>6
    <3> QED
      BY <3>5, <3>6
  <2>5. CASE Connect(n)
    <3>1. peerCursor' = [peerCursor EXCEPT ![n] = Advance(@, cursor[n])]
      BY <2>5 DEF Connect
    <3>2. cursor[n] \in Rows /\ cursor[n] <= cursor[n]
      BY NodeParts, Numbers DEF IInv
    <3> QED
      BY <2>3, <3>1, <3>2
  <2>6. CASE \/ HandleStatus(n) \/ HandleAnnouncement(n) \/ HandleSnapshots(n)
             \/ PollStatus(n) \/ Disconnect(n)
    <3>1. peerCursor' = peerCursor
      BY <2>6 DEF HandleStatus, HandleAnnouncement, HandleSnapshots, PollStatus, Disconnect,
                  mainVars
    <3> QED
      BY <2>2, <3>1
  <2> QED
    BY <2>4, <2>5, <2>6
<1>6. Outboxes
  <2> DEFINE q == socket[n].outbox
  <2>1. CASE Serve(n)
    <3>1. q # <<>> /\ socket'[n].outbox = Tail(q)
      BY <1>2, <2>1 DEF Serve, Sockets
    <3> QED
      BY <1>3, <3>1 DEF Outboxes
  <2>2. CASE Connect(n) \/ Disconnect(n)
    <3>1. socket'[n].outbox = <<>>
      <4>1. CASE Connect(n)
        <5> DEFINE hello == <<Announce("hello_ack", {}, 0)>>
        <5>1. socket'[n] = [NoSocket EXCEPT !.up = TRUE, !.inbox = hello]
          BY <1>2, <4>1 DEF Connect
        <5> HIDE DEF hello
        <5>2. [NoSocket EXCEPT !.up = TRUE, !.inbox = hello].outbox = <<>>
          BY DEF NoSocket
        <5> QED
          BY <5>1, <5>2
      <4>2. CASE Disconnect(n)
        BY <1>2, <4>2 DEF Disconnect, NoSocket
      <4> QED
        BY <2>2, <4>1, <4>2
    <3> QED
      BY <1>3, <3>1 DEF Outboxes
  <2>3. CASE HandleSnapshots(n)
    <3>1. socket'[n].outbox = q
      BY <1>2, <2>3 DEF HandleSnapshots, Sockets
    <3> QED
      BY <1>3, <3>1 DEF Outboxes
  <2>4. ASSUME NEW g \in ClientFrames, g.since \in {0, cursor[n]},
               socket'[n].outbox = q \/ socket'[n].outbox = Append(q, g)
        PROVE  Outboxes
    BY <1>3, <2>4 DEF Outboxes
  <2>5. CASE HandleStatus(n)
    <3>1. CatchUpRequest(n) \in ClientFrames /\ CatchUpRequest(n).since = cursor[n]
      BY <1>2 DEF CatchUpRequest, ClientFrames
    <3>2. socket'[n].outbox = q \/ socket'[n].outbox = Append(q, CatchUpRequest(n))
      BY <1>2, <2>5 DEF HandleStatus, Sockets
    <3> QED
      BY <2>4, <3>1, <3>2
  <2>6. CASE HandleAnnouncement(n)
    <3> DEFINE g == SnapshotRequest(Head(socket[n].inbox).keys)
    <3>1. socket[n].inbox # <<>>
      BY <2>6 DEF HandleAnnouncement, Received
    <3>2. g \in ClientFrames /\ g.since = 0
      BY <3>1, Receives, CatchUpAssumption DEF SnapshotRequest, ClientFrames, Rows
    <3>3. socket'[n].outbox = q \/ socket'[n].outbox = Append(q, g)
      BY <1>2, <2>6 DEF HandleAnnouncement, Sockets
    <3> QED
      BY <2>4, <3>2, <3>3
  <2>7. CASE PollStatus(n)
    <3> DEFINE g == [type |-> "status", keys |-> {}, since |-> 0]
    <3>1. g \in ClientFrames /\ g.since = 0
      BY CatchUpAssumption DEF ClientFrames, Rows
    <3> HIDE DEF g
    <3>2. q = <<>> /\ socket'[n].outbox = <<g>>
      BY <1>2, <2>7 DEF PollStatus, Sockets, g
    <3>3. <<g>> = Append(q, g)
      BY <3>1, <3>2
    <3> QED
      BY <2>4, <3>1, <3>2, <3>3
  <2> QED
    BY <2>1, <2>2, <2>3, <2>5, <2>6, <2>7
<1>7. \A m \in Nodes : RequestsSound(socket'[m].outbox, cursor[m])
  BY <1>6, OutboxesStayBehind
<1>8. \A m \in Nodes : cursor[m] <= cursor'[m] /\ peerCursor'[m] <= cursor[m]
  <2> SUFFICES ASSUME NEW m \in Nodes
               PROVE  cursor[m] <= cursor'[m] /\ peerCursor'[m] <= cursor[m]
    OBVIOUS
  <2>1. CASE m = n
    BY <1>4, <1>5, <2>1
  <2>2. CASE m # n
    BY <1>3, <2>2, Numbers DEF Retained, IInv
  <2> QED
    BY <2>1, <2>2
<1> QED
  BY <1>1, <1>7, <1>8, RetainedStays

LEMMA RetainedRestart ==
    ASSUME IInv, IInv', Retained, RestartMain
    PROVE  Retained'
<1>1. UNCHANGED <<command, pruned, peerCursor, cursor>>
      /\ \A n \in Nodes : socket'[n] = NoSocket
  BY DEF RestartMain, nodeVars
<1>2. \A n \in Nodes : RequestsSound(socket'[n].outbox, cursor[n])
  BY <1>1 DEF NoSocket, RequestsSound
<1>3. \A n \in Nodes : cursor[n] <= cursor'[n] /\ peerCursor'[n] <= cursor[n]
  BY <1>1, Numbers DEF Retained, IInv
<1> QED
  BY <1>1, <1>2, <1>3, RetainedStays

LEMMA RetainedStep ==
    ASSUME ~Commands, ~TimePruning, IInv, Retained, [Next]_vars
    PROVE  Retained'
<1>1. IInv'
  BY StepSound
<1>2. CASE UNCHANGED vars
  BY <1>2 DEF vars, Retained
<1>3. ASSUME NEW keys \in WriteSets,
             \/ MainWrite(keys) \/ ExternalWrite(keys)
             \/ \E n \in Nodes : NodeWrite(n, keys) \/ CommandWrite(n, keys)
      PROVE  Retained'
  BY <1>1, <1>3, RetainedWrite
<1>4. CASE Prune \/ RestartMain
  BY <1>1, <1>4, RetainedPrune, RetainedRestart
<1>5. ASSUME NEW n \in Nodes,
             \/ Serve(n) \/ Connect(n) \/ HandleStatus(n) \/ HandleAnnouncement(n)
             \/ HandleSnapshots(n) \/ PollStatus(n) \/ Disconnect(n)
      PROVE  Retained'
  BY <1>1, <1>5, RetainedSocket
<1>6. ASSUME NEW n \in Nodes,
             CatchUpCommand(n) \/ CommandFetch(n) \/ CommandMerge(n) \/ FailCommand(n)
      PROVE  FALSE
  <2>1. command[n] = NoCommand /\ NoCommand.phase = "none"
    BY DEF Retained, NoCommand
  <2> QED
    BY <1>6, <2>1 DEF CatchUpCommand, CommandFetch, CommandMerge, FailCommand
<1> QED
  BY <1>2, <1>3, <1>4, <1>5, <1>6 DEF Next

\* Snapshots arrive in the order in which the main node took them, and none is older than
\* the copies it will overwrite.
InOrder(q, copies) ==
    \A i \in DOMAIN q, k \in Keys :
        q[i].type = "snapshots" /\ k \in q[i].keys =>
            /\ copies[k] <= q[i].values[k]
            /\ \A j \in DOMAIN q :
                  j > i /\ q[j].type = "snapshots" /\ k \in q[j].keys =>
                      q[i].values[k] <= q[j].values[k]

Ordered == \A n \in Nodes : command[n] = NoCommand /\ InOrder(socket[n].inbox, replica[n])

LEMMA InOrderAppend ==
    ASSUME NEW q \in Seq(ServerFrames), NEW f \in ServerFrames, NEW copies,
           InOrder(q, copies),
           f.type = "snapshots" => \A k \in f.keys :
              /\ copies[k] <= f.values[k]
              /\ \A i \in DOMAIN q : q[i].values[k] <= f.values[k]
    PROVE  InOrder(Append(q, f), copies)
<1> DEFINE r == Append(q, f)
<1>1. /\ Len(q) \in Nat /\ DOMAIN q = 1 .. Len(q)
      /\ r[Len(q) + 1] = f
      /\ \A i \in DOMAIN q : i \in DOMAIN r /\ r[i] = q[i]
      /\ \A i \in DOMAIN r : i \in DOMAIN q \/ i = Len(q) + 1
  BY Appending
<1> HIDE DEF r
<1>2. ASSUME NEW i \in DOMAIN r, NEW k \in Keys, r[i].type = "snapshots", k \in r[i].keys
      PROVE  /\ copies[k] <= r[i].values[k]
             /\ \A j \in DOMAIN r : j > i /\ r[j].type = "snapshots" /\ k \in r[j].keys =>
                   r[i].values[k] <= r[j].values[k]
  <2>1. CASE i = Len(q) + 1
    BY <1>1, <1>2, <2>1
  <2>2. CASE i \in DOMAIN q
    <3>1. /\ r[i] = q[i] /\ copies[k] <= q[i].values[k]
          /\ \A j \in DOMAIN q : j > i /\ q[j].type = "snapshots" /\ k \in q[j].keys =>
                q[i].values[k] <= q[j].values[k]
      BY <1>1, <1>2, <2>2 DEF InOrder
    <3> QED
      BY <1>1, <1>2, <2>2, <3>1
  <2> QED
    BY <1>1, <2>1, <2>2
<1>3. InOrder(r, copies)
  BY <1>2 DEF InOrder
<1> QED
  BY <1>3 DEF r

LEMMA InOrderTail ==
    ASSUME NEW q \in Seq(ServerFrames), q # <<>>, NEW copies, InOrder(q, copies)
    PROVE  InOrder(Tail(q), copies)
<1>1. \A i \in DOMAIN Tail(q) : i + 1 \in DOMAIN q /\ Tail(q)[i] = q[i + 1]
  BY TakingTail
<1>2. \A i, j \in DOMAIN Tail(q) : j > i => j + 1 > i + 1
  OBVIOUS
<1> QED
  BY <1>1, <1>2 DEF InOrder

LEMMA InOrderMerge ==
    ASSUME NEW q \in Seq(ServerFrames), q # <<>>, NEW copies \in Versions,
           InOrder(q, copies), Head(q).type = "snapshots"
    PROVE  LET merged == Merge(copies, Head(q).keys, Head(q).values)
           IN  InOrder(Tail(q), merged) /\ \A k \in Keys : copies[k] <= merged[k]
<1> DEFINE f == Head(q)
           merged == Merge(copies, f.keys, f.values)
<1>1. /\ 1 \in DOMAIN q /\ f = q[1]
      /\ \A i \in DOMAIN Tail(q) : i + 1 \in DOMAIN q /\ i + 1 > 1 /\ Tail(q)[i] = q[i + 1]
  BY TakingTail
<1>2. \A k \in Keys : merged[k] = IF k \in f.keys THEN f.values[k] ELSE copies[k]
  BY DEF Merge
<1> HIDE DEF f, merged
<1>3. InOrder(Tail(q), copies)
  BY InOrderTail
<1>4. \A k \in Keys : k \in f.keys =>
         /\ copies[k] <= f.values[k]
         /\ \A j \in DOMAIN q : j > 1 /\ q[j].type = "snapshots" /\ k \in q[j].keys =>
               f.values[k] <= q[j].values[k]
  BY <1>1 DEF InOrder, f
<1>5. \A k \in Keys : copies[k] \in Nat
  BY CatchUpAssumption DEF Versions, Rows
<1>6. \A k \in Keys : copies[k] <= merged[k]
  BY <1>2, <1>4, <1>5
<1>7. \A i \in DOMAIN Tail(q), k \in Keys :
         Tail(q)[i].type = "snapshots" /\ k \in Tail(q)[i].keys =>
            merged[k] <= Tail(q)[i].values[k]
  BY <1>1, <1>2, <1>3, <1>4 DEF InOrder
<1>8. InOrder(Tail(q), merged)
  BY <1>3, <1>7 DEF InOrder
<1> QED
  BY <1>6, <1>8 DEF f, merged

\* Nothing goes back in a step: the copies grow, and what is under way stays in order.
Forward ==
    /\ Ordered'
    /\ \A n \in Nodes, k \in Keys : replica[n][k] <= replica'[n][k]

\* A step that leaves the copies as they are, and takes frames off an inbox or adds one
\* that is in order.
LEMMA OrderedStays ==
    ASSUME IInv, Ordered, UNCHANGED <<command, replica>>,
           \A n \in Nodes :
              LET q == socket[n].inbox
              IN  \/ socket'[n].inbox \in {q, <<>>}
                  \/ q # <<>> /\ socket'[n].inbox = Tail(q)
                  \/ \E f \in ServerFrames :
                        /\ f.type = "snapshots" => \A k \in f.keys : f.values[k] = version[k]
                        /\ socket'[n].inbox = Append(q, f)
    PROVE  Forward
<1>1. \A n \in Nodes, k \in Keys : replica[n][k] <= replica'[n][k]
  BY Numbers DEF IInv
<1>2. ASSUME NEW n \in Nodes
      PROVE  InOrder(socket'[n].inbox, replica[n])
  <2> DEFINE q == socket[n].inbox
  <2>1. /\ q \in Seq(ServerFrames) /\ InOrder(q, replica[n])
        /\ \A i \in DOMAIN q, k \in Keys : q[i].values[k] <= version[k]
        /\ \A k \in Keys : replica[n][k] <= version[k]
    BY NodeParts DEF Ordered, SoundSocket, FramesSound
  <2>2. \/ socket'[n].inbox \in {q, <<>>}
        \/ q # <<>> /\ socket'[n].inbox = Tail(q)
        \/ \E f \in ServerFrames :
              /\ f.type = "snapshots" => \A k \in f.keys : f.values[k] = version[k]
              /\ socket'[n].inbox = Append(q, f)
    OBVIOUS
  <2> HIDE DEF q
  <2>3. CASE socket'[n].inbox = q
    BY <2>1, <2>3
  <2>4. CASE socket'[n].inbox = <<>>
    BY <2>4 DEF InOrder
  <2>5. CASE q # <<>> /\ socket'[n].inbox = Tail(q)
    BY <2>1, <2>5, InOrderTail
  <2>6. ASSUME NEW f \in ServerFrames,
               f.type = "snapshots" => \A k \in f.keys : f.values[k] = version[k],
               socket'[n].inbox = Append(q, f)
        PROVE  InOrder(socket'[n].inbox, replica[n])
    <3>1. f.keys \subseteq Keys
      BY DEF ServerFrames
    <3>2. f.type = "snapshots" => \A k \in f.keys :
             replica[n][k] <= f.values[k] /\ \A i \in DOMAIN q : q[i].values[k] <= f.values[k]
      BY <2>1, <2>6, <3>1
    <3> QED
      BY <2>1, <2>6, <3>2, InOrderAppend
  <2> QED
    BY <2>2, <2>3, <2>4, <2>5, <2>6
<1> QED
  BY <1>1, <1>2 DEF Forward, Ordered

LEMMA ForwardWrite ==
    ASSUME ~Commands, IInv, Ordered, NEW keys \in WriteSets,
           \/ MainWrite(keys) \/ ExternalWrite(keys)
           \/ \E n \in Nodes : NodeWrite(n, keys) \/ CommandWrite(n, keys)
    PROVE  Forward
<1>1. UNCHANGED <<command, replica>> /\ Change(keys) /\ keys \in SUBSET Keys
  BY DEF MainWrite, ExternalWrite, NodeWrite, CommandWrite, nodeVars, WriteSets
<1>2. \/ UNCHANGED socket
      \/ \E excluded : Broadcast(keys, excluded, Announce("result", keys, 0))
  BY DEF MainWrite, ExternalWrite, NodeWrite, CommandWrite
<1>3. Len(log') \in Rows /\ 0 \in Rows
  BY <1>1, ChangeGrows, CatchUpAssumption DEF Grows, Rows
<1>4. ASSUME NEW sequence \in Rows, NEW type \in {"result", "invalidate"}
      PROVE  /\ Announce(type, keys, sequence) \in ServerFrames
             /\ Announce(type, keys, sequence).type # "snapshots"
  BY <1>1, CatchUpAssumption
  DEF Announce, ServerFrame, ServerFrames, NoVersions, Versions, Rows
<1>5. ASSUME NEW excluded, Broadcast(keys, excluded, Announce("result", keys, 0)),
             NEW n \in Nodes
      PROVE  \/ socket'[n].inbox = socket[n].inbox
             \/ \E f \in ServerFrames : /\ f.type # "snapshots"
                                        /\ socket'[n].inbox = Append(socket[n].inbox, f)
  <2>1. \/ socket'[n] = socket[n]
        \/ socket'[n] = [socket[n] EXCEPT !.inbox = Append(@, Announce("result", keys, 0))]
        \/ socket'[n] = [socket[n] EXCEPT
                           !.inbox = Append(@, Announce("invalidate", keys, Len(log')))]
    BY <1>5 DEF Broadcast
  <2>2. socket[n] \in Sockets
    BY NodeParts
  <2>3. \/ socket'[n].inbox = socket[n].inbox
        \/ socket'[n].inbox = Append(socket[n].inbox, Announce("result", keys, 0))
        \/ socket'[n].inbox = Append(socket[n].inbox, Announce("invalidate", keys, Len(log')))
    BY <2>1, <2>2 DEF Sockets
  <2> QED
    BY <1>3, <1>4, <2>3
<1>6. \A n \in Nodes :
         \/ socket'[n].inbox = socket[n].inbox
         \/ \E f \in ServerFrames : /\ f.type # "snapshots"
                                    /\ socket'[n].inbox = Append(socket[n].inbox, f)
  BY <1>2, <1>5
<1> QED
  BY <1>1, <1>6, OrderedStays

LEMMA ForwardSocket ==
    ASSUME IInv, Ordered, NEW n \in Nodes,
           \/ Serve(n) \/ Connect(n) \/ HandleStatus(n) \/ HandleAnnouncement(n)
           \/ PollStatus(n) \/ Disconnect(n)
    PROVE  Forward
<1>1. UNCHANGED <<command, replica>>
  BY DEF Serve, Connect, HandleStatus, HandleAnnouncement, PollStatus, Disconnect,
         mainVars, nodeVars
<1>2. socket \in [Nodes -> Sockets]
  BY DEF IInv, TypeOK
<1>3. \A m \in Nodes \ {n} : socket'[m].inbox = socket[m].inbox
  BY <1>2 DEF Serve, Connect, HandleStatus, HandleAnnouncement, PollStatus, Disconnect
<1> DEFINE q == socket[n].inbox
<1>4. ASSUME NEW f \in ServerFrames, socket'[n].inbox = Append(q, f),
             f.type = "snapshots" => \A k \in f.keys : f.values[k] = version[k]
      PROVE  Forward
  BY <1>1, <1>3, <1>4, OrderedStays
<1>5. CASE Serve(n)
  <2> DEFINE g == Head(socket[n].outbox)
             listed == {log[i] : i \in RowsPast(g.since)}
             reply == CASE g.type = "catch_up" -> Announce("catch_up", listed, CurrentSequence)
                        [] g.type = "snapshots" ->
                              ServerFrame("snapshots", g.keys, 0, Snapshots(g.keys))
                        [] g.type = "status" -> Announce("status", {}, CurrentSequence)
  <2>1. /\ socket[n].outbox # <<>>
        /\ socket' = [socket EXCEPT ![n].outbox = Tail(@), ![n].inbox = Append(@, reply)]
    BY <1>5 DEF Serve
  <2>2. g \in ClientFrames
    BY <2>1, NodeParts, TakingTail
  <2> HIDE DEF g
  <2>3. listed \in SUBSET Keys /\ CurrentSequence \in Rows /\ 0 \in Rows
        /\ NoVersions \in Versions
    BY NodeParts, CatchUpAssumption DEF RowsPast, CurrentSequence, NoVersions, Versions, Rows
  <2>4. g.keys \in SUBSET Keys /\ g.type \in {"catch_up", "snapshots", "status"}
    BY <2>2 DEF ClientFrames
  <2>5. Snapshots(g.keys) \in Versions
        /\ \A k \in g.keys : Snapshots(g.keys)[k] = version[k]
    BY <2>4, NodeParts, CatchUpAssumption DEF Snapshots, Versions, Rows
  <2> HIDE DEF listed
  <2>6. /\ reply \in ServerFrames
        /\ reply.type = "snapshots" => \A k \in reply.keys : reply.values[k] = version[k]
    <3>1. CASE g.type = "snapshots"
      <4>1. reply = ServerFrame("snapshots", g.keys, 0, Snapshots(g.keys))
        BY <3>1
      <4> QED
        BY <2>3, <2>4, <2>5, <4>1 DEF ServerFrame, ServerFrames
    <3>2. CASE g.type = "catch_up"
      <4>1. reply = Announce("catch_up", listed, CurrentSequence)
        BY <3>2
      <4> HIDE DEF reply
      <4> QED
        BY <2>3, <4>1 DEF Announce, ServerFrame, ServerFrames
    <3>3. CASE g.type = "status"
      <4>1. reply = Announce("status", {}, CurrentSequence)
        BY <3>3
      <4> HIDE DEF reply
      <4> QED
        BY <2>3, <4>1 DEF Announce, ServerFrame, ServerFrames
    <3> QED
      BY <2>4, <3>1, <3>2, <3>3
  <2> HIDE DEF reply
  <2>7. socket'[n].inbox = Append(q, reply)
    BY <1>2, <2>1 DEF Sockets
  <2> QED
    BY <1>4, <2>6, <2>7
<1>6. CASE Connect(n)
  <2> DEFINE hello == Announce("hello_ack", {}, 0)
  <2>1. socket'[n] = [NoSocket EXCEPT !.up = TRUE, !.inbox = <<hello>>]
    BY <1>2, <1>6 DEF Connect
  <2>2. hello \in ServerFrames /\ hello.type # "snapshots"
    BY CatchUpAssumption DEF Announce, ServerFrame, ServerFrames, NoVersions, Versions, Rows
  <2> HIDE DEF hello
  <2>3. [NoSocket EXCEPT !.up = TRUE, !.inbox = <<hello>>].inbox = <<hello>>
    BY DEF NoSocket
  <2>4. socket'[n].inbox = <<hello>>
    BY <2>1, <2>3
  <2>5. InOrder(<<hello>>, replica[n])
    BY <2>2 DEF InOrder
  <2>6. Ordered'
    BY <1>1, <1>3, <2>4, <2>5 DEF Ordered
  <2> QED
    BY <1>1, <2>6, Numbers DEF Forward, IInv
<1>7. CASE HandleStatus(n) \/ HandleAnnouncement(n)
  <2> DEFINE f == Head(q)
             wants == \/ f.type = "hello_ack"
                      \/ ~socket[n].catchingUp /\ f.sequence > cursor[n]
             outbox == IF wants THEN Append(socket[n].outbox, CatchUpRequest(n))
                                ELSE socket[n].outbox
             asking == wants \/ socket[n].catchingUp
             still == socket[n].catchingUp /\ f.type # "catch_up"
  <2>1. q # <<>>
    BY <1>7 DEF HandleStatus, HandleAnnouncement, Received
  <2>2. CASE HandleStatus(n)
    <3>1. socket' = [socket EXCEPT ![n].inbox = Tail(@), ![n].outbox = outbox,
                                   ![n].catchingUp = asking]
      BY <2>2 DEF HandleStatus
    <3> HIDE DEF outbox, asking
    <3>2. socket'[n].inbox = Tail(q)
      BY <1>2, <3>1 DEF Sockets
    <3> QED
      BY <1>1, <1>3, <2>1, <3>2, OrderedStays
  <2>3. CASE HandleAnnouncement(n)
    <3>1. \/ socket' = [socket EXCEPT ![n].inbox = Tail(@),
                           ![n].outbox = Append(@, SnapshotRequest(f.keys)),
                           ![n].suspended =
                               Append(@, [type |-> f.type, sequence |-> f.sequence])]
          \/ socket' = [socket EXCEPT ![n].inbox = Tail(@), ![n].catchingUp = still]
      BY <2>3 DEF HandleAnnouncement
    <3> HIDE DEF still
    <3>2. socket'[n].inbox = Tail(q)
      BY <1>2, <3>1 DEF Sockets
    <3> QED
      BY <1>1, <1>3, <2>1, <3>2, OrderedStays
  <2> QED
    BY <1>7, <2>2, <2>3
<1>8. CASE PollStatus(n)
  <2>1. socket'[n].inbox = q
    BY <1>2, <1>8 DEF PollStatus, Sockets
  <2> QED
    BY <1>1, <1>3, <2>1, OrderedStays
<1>9. CASE Disconnect(n)
  <2>1. socket'[n].inbox = <<>>
    BY <1>2, <1>9 DEF Disconnect, NoSocket
  <2> QED
    BY <1>1, <1>3, <2>1, OrderedStays
<1> QED
  BY <1>5, <1>6, <1>7, <1>8, <1>9

LEMMA ForwardStep ==
    ASSUME ~Commands, IInv, Ordered, [Next]_vars
    PROVE  Forward
<1>1. CASE UNCHANGED vars
  BY <1>1, OrderedStays DEF vars
<1>2. ASSUME NEW keys \in WriteSets,
             \/ MainWrite(keys) \/ ExternalWrite(keys)
             \/ \E n \in Nodes : NodeWrite(n, keys) \/ CommandWrite(n, keys)
      PROVE  Forward
  BY <1>2, ForwardWrite
<1>3. CASE Prune
  BY <1>3, OrderedStays DEF Prune, nodeVars
<1>4. CASE RestartMain
  <2>1. /\ UNCHANGED <<command, replica>>
        /\ \A n \in Nodes : socket'[n].inbox = <<>>
    BY <1>4 DEF RestartMain, nodeVars, NoSocket
  <2> QED
    BY <2>1, OrderedStays
<1>5. ASSUME NEW n \in Nodes,
             \/ Serve(n) \/ Connect(n) \/ HandleStatus(n) \/ HandleAnnouncement(n)
             \/ PollStatus(n) \/ Disconnect(n)
      PROVE  Forward
  BY <1>5, ForwardSocket
<1>6. ASSUME NEW n \in Nodes, HandleSnapshots(n)
      PROVE  Forward
  <2> DEFINE q == socket[n].inbox
             merged == Merge(replica[n], Head(q).keys, Head(q).values)
  <2>1. /\ q # <<>> /\ Head(q).type = "snapshots"
        /\ replica' = [replica EXCEPT ![n] = merged]
        /\ UNCHANGED command
    BY <1>6 DEF HandleSnapshots, Received
  <2>2. /\ socket \in [Nodes -> Sockets] /\ replica \in [Nodes -> Versions]
        /\ q \in Seq(ServerFrames) /\ replica[n] \in Versions
        /\ InOrder(q, replica[n])
    BY NodeParts DEF IInv, TypeOK, Ordered
  <2>3. InOrder(Tail(q), merged) /\ \A k \in Keys : replica[n][k] <= merged[k]
    BY <2>1, <2>2, InOrderMerge
  <2> HIDE DEF merged
  <2>4. socket'[n].inbox = Tail(q) /\ \A m \in Nodes \ {n} : socket'[m] = socket[m]
    <3> DEFINE still == socket[n].catchingUp /\ Head(socket[n].suspended).type # "catch_up"
    <3>1. socket' = [socket EXCEPT ![n].inbox = Tail(@), ![n].suspended = Tail(@),
                                   ![n].catchingUp = still]
      BY <1>6 DEF HandleSnapshots
    <3> HIDE DEF still
    <3> QED
      BY <2>2, <3>1 DEF Sockets
  <2>5. replica'[n] = merged /\ \A m \in Nodes \ {n} : replica'[m] = replica[m]
    BY <2>1, <2>2
  <2>6. Ordered'
    BY <2>1, <2>3, <2>4, <2>5 DEF Ordered
  <2>7. \A m \in Nodes, k \in Keys : replica[m][k] <= replica'[m][k]
    BY <2>3, <2>5, Numbers DEF IInv
  <2> QED
    BY <2>6, <2>7 DEF Forward
<1>7. ASSUME NEW n \in Nodes,
             CatchUpCommand(n) \/ CommandFetch(n) \/ CommandMerge(n) \/ FailCommand(n)
      PROVE  FALSE
  <2>1. command[n] = NoCommand /\ NoCommand.phase = "none"
    BY DEF Ordered, NoCommand
  <2> QED
    BY <1>7, <2>1 DEF CatchUpCommand, CommandFetch, CommandMerge, FailCommand
<1> QED
  BY <1>1, <1>2, <1>3, <1>4, <1>5, <1>6, <1>7 DEF Next

-----------------------------------------------------------------------------
(* Theorems.                                                               *)

\* The inductive invariant of the module holds in every reachable state.
THEOREM Invariance == Spec => []IInv
<1> QED
  BY InitSound, StepSound, PTL DEF Spec

\* The variables have their types; in particular a handler is waiting whenever snapshots
\* arrive at a node (ws_client.ts).
THEOREM TypeCorrectness == Spec => []TypeOK
<1>1. IInv => TypeOK
  BY DEF IInv
<1> QED
  BY <1>1, Invariance, PTL

\* Whatever is lost, pruned, restarted or written by whom, no cursor names a row the main
\* node does not have, and no copy is newer than the original.
THEOREM NothingIsInvented == Spec => []NothingInvented
<1>1. ASSUME IInv PROVE NothingInvented
  <2>1. ASSUME NEW n \in Nodes
        PROVE  /\ Max({cursor[n], peerCursor[n], command[n].sequence}) <= Len(log)
               /\ \A k \in Keys : replica[n][k] <= version[k]
    <3>1. /\ cursor[n] \in Nat /\ peerCursor[n] \in Nat /\ command[n].sequence \in Nat
      BY <1>1, Numbers DEF IInv
    <3>2. /\ cursor[n] <= Len(log) /\ peerCursor[n] <= Len(log)
          /\ command[n].sequence <= Len(log)
          /\ \A k \in Keys : replica[n][k] <= version[k]
      BY <1>1 DEF IInv, Behind
    <3>3. Max({cursor[n], peerCursor[n], command[n].sequence})
             \in {cursor[n], peerCursor[n], command[n].sequence}
      BY <3>1, MaxOfThree
    <3> QED
      BY <3>2, <3>3
  <2> QED
    BY <2>1 DEF NothingInvented, CurrentSequence
<1> QED
  BY <1>1, Invariance, PTL

\* Where no "tim sync" command runs beside the web process, and rows are pruned by cursor
\* alone, pruneSyncSequence leaves every row past the cursor of any node, whatever the
\* order of requests, breaks and restarts.
THEOREM NodesKeepTheirRows ==
    ASSUME ~Commands, ~TimePruning
    PROVE  Spec => []RetainedForPeers
<1>1. ASSUME Init PROVE Retained
  BY <1>1 DEF Init, Retained, RequestsSound, NoSocket
<1>2. ASSUME IInv, Retained, [Next]_vars PROVE Retained'
  BY <1>2, RetainedStep
<1>3. ASSUME Retained PROVE RetainedForPeers
  BY <1>3 DEF Retained, RetainedForPeers
<1> QED
  BY <1>1, <1>2, <1>3, Invariance, PTL DEF Spec

\* Where no command runs beside the web process, no snapshot overwrites a newer one,
\* although handlers overlap: each waits for snapshots of its own.
THEOREM CopiesMoveForward ==
    ASSUME ~Commands
    PROVE  Spec => NoRegression
<1>1. ASSUME Init PROVE Ordered
  BY <1>1 DEF Init, Ordered, InOrder, NoSocket
<1>2. ASSUME IInv, Ordered, [Next]_vars
      PROVE  /\ Ordered'
             /\ [\A n \in Nodes, k \in Keys : replica'[n][k] >= replica[n][k]]_vars
  <2>1. Forward
    BY <1>2, ForwardStep
  <2>2. \A n \in Nodes, k \in Keys : replica[n][k] \in Nat /\ replica'[n][k] \in Nat
    <3>1. IInv'
      BY <1>2, StepSound
    <3>2. replica \in [Nodes -> Versions] /\ replica' \in [Nodes -> Versions]
      BY <1>2, <3>1 DEF IInv, TypeOK
    <3> QED
      BY <3>2, CatchUpAssumption DEF Versions, Rows
  <2> QED
    BY <2>1, <2>2 DEF Forward
<1> QED
  BY <1>1, <1>2, Invariance, PTL DEF Spec, NoRegression

=============================================================================
