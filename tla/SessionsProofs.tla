--------------------------- MODULE SessionsProofs ---------------------------
(***************************************************************************)
(* Proofs about Sessions, for any prompts and any limits: types, that no   *)
(* prompt is shown twice or after it is over, and that the first answer to *)
(* a prompt stands.                                                        *)
(***************************************************************************)
EXTENDS Sessions, FoldProofs

-----------------------------------------------------------------------------
(* Streams of frames.                                                      *)

RequestOf(f, p) == f.type = "prompt_request" /\ f.prompt = p
EndingOf(f, p) == f.type \in Endings /\ f.prompt = p

\* The prompts a stream asks, those it ends, and those it leaves open.
AskedIn(q) == {p \in Prompts : \E i \in DOMAIN q : RequestOf(q[i], p)}
EndedIn(q) == {p \in Prompts : \E i \in DOMAIN q : EndingOf(q[i], p)}
OpenIn(q) ==
    {p \in Prompts : \E i \in DOMAIN q :
        RequestOf(q[i], p) /\ \A j \in DOMAIN q : j > i => ~EndingOf(q[j], p)}

\* A stream asks each prompt at most once.
AsksOnce(q) ==
    \A i, j \in DOMAIN q :
        q[i].type = "prompt_request" /\ q[j].type = "prompt_request"
        /\ q[i].prompt = q[j].prompt => i = j

\* The frames that are sent: a request is about a prompt.
SentFrames == {f \in Frames : f.type = "prompt_request" => f.prompt \in Prompts}

\* What the web process has of the stream, and has yet to make a session of.
Stream == conn.pendingMessages \o toWeb

ShownIn(s) == Range(s.activePrompts) \cup Range(s.deferred)
OnceIn(s) == IsInjective(s.activePrompts \o s.deferred)

Fresh == {p \in Prompts : prompt[p] = "new"}

-----------------------------------------------------------------------------
(* The inductive invariant.                                                *)

\* The socket, the tracked connection and the session go together.
Connections ==
    /\ link # "open" => toWeb = <<>>
    /\ link = "down" => conn.pendingMessages = <<>> /\ ~conn.registered
    /\ ~conn.tracked => link = "down"
    /\ agent = "gone" => link # "open"
    /\ conn.registered => conn.pendingMessages = <<>>
    /\ ~conn.registered => session.activePrompts = <<>> /\ session.deferred = <<>>

\* Finitely many prompts are open, which the end of the session answers one by one.
FewPending == IsFiniteSet(PendingPrompts)

\* The history asks a prompt once, and while the agent runs, leaves open only what is
\* pending.
HistoryOK ==
    /\ history \in Seq(SentFrames)
    /\ AsksOnce(history)
    /\ AskedIn(history) \cap Fresh = {}
    /\ agent = "running" => OpenIn(history) \subseteq PendingPrompts

\* So does the stream to the web process, while it lasts.
StreamOK ==
    /\ toWeb \in Seq(SentFrames)
    /\ conn.pendingMessages \in Seq(SentFrames)
    /\ AsksOnce(Stream)
    /\ AskedIn(Stream) \cap Fresh = {}
    /\ agent = "running" /\ link = "open" => OpenIn(Stream) \subseteq PendingPrompts

\* What is shown is shown once, will not be asked again, and is pending or about to end.
ScreenOK ==
    /\ OnceIn(session)
    /\ Shown \cap (Fresh \cup AskedIn(Stream)) = {}
    /\ agent = "running" /\ link = "open" =>
          Shown \subseteq PendingPrompts \cup EndedIn(toWeb)

Inv == TypeOK /\ Connections /\ FewPending /\ HistoryOK /\ StreamOK /\ ScreenOK

-----------------------------------------------------------------------------
(* The folds of the session manager, as runs.                              *)

\* Filtering a list of prompts goes through it one prompt after the other.
LEMMA WithoutRun ==
    ASSUME NEW s \in Seq(Prompts), NEW p
    PROVE  \E r \in [0 .. Len(s) -> Seq(Prompts)] :
              /\ r[0] = <<>>
              /\ \A k \in 1 .. Len(s) :
                    r[k] = IF s[k] = p THEN r[k - 1] ELSE Append(r[k - 1], s[k])
              /\ Without(s, p) = r[Len(s)]
<1> DEFINE X == Seq(Prompts)
           N == Len(s)
           Op(t, q) == IF q = p THEN t ELSE Append(t, q)
           F == [z \in X \X Prompts |-> Op(z[1], z[2])]
           iter == CHOOSE f : f = [t \in SUBSET (1 .. N) |->
                      IF t = {} THEN <<>> ELSE Op(f[t \ {Max(t)}], s[Max(t)])]
<1>1. Foldable(X, Prompts, F, <<>>, N, s)
  BY DEF Foldable
<1>2. \A x \in X, y \in Prompts : F[<<x, y>>] = Op(x, y)
  OBVIOUS
<1>3. Without(s, p) = iter[1 .. N]
  <2>1. DOMAIN s = 1 .. N
    OBVIOUS
  <2>2. Without(s, p) = iter[DOMAIN s]
    BY <2>1 DEF Without, FoldLeft, MapThenFoldSet
  <2> QED
    BY <2>1, <2>2
<1> HIDE DEF F, X, Op, N
<1>4. PICK g : IsFold(X, F, <<>>, N, s, g)
  BY <1>1, FoldExists
<1>5. ASSUME NEW t \in SUBSET (1 .. N), t # {}
      PROVE  t \ {Max(t)} \in SUBSET (1 .. N) /\ s[Max(t)] \in Prompts
  BY <1>1, <1>5, MaxOfInterval DEF Foldable
<1>6. g = [t \in SUBSET (1 .. N) |->
             IF t = {} THEN <<>> ELSE Op(g[t \ {Max(t)}], s[Max(t)])]
  <2>1. ASSUME NEW t \in SUBSET (1 .. N), t # {}
        PROVE  g[t] = Op(g[t \ {Max(t)}], s[Max(t)])
    BY <1>2, <1>4, <1>5, <2>1 DEF IsFold
  <2> QED
    BY <1>4, <2>1 DEF IsFold
<1>7. iter = [t \in SUBSET (1 .. N) |->
                IF t = {} THEN <<>> ELSE Op(iter[t \ {Max(t)}], s[Max(t)])]
  BY <1>6
<1> HIDE DEF iter
<1>8. Iterates(X, F, <<>>, N, s, iter)
  BY <1>2, <1>5, <1>7 DEF Iterates
<1>9. PICK r : IsRun(X, F, <<>>, N, s, r) /\ iter[1 .. N] = r[N]
  BY <1>1, <1>8, FoldSteps
<1>10. ASSUME NEW k \in 1 .. N
       PROVE  r[k] = IF s[k] = p THEN r[k - 1] ELSE Append(r[k - 1], s[k])
  <2>1. r[k - 1] \in X /\ s[k] \in Prompts
    BY <1>1, <1>9 DEF Foldable, IsRun
  <2>2. r[k] = Op(r[k - 1], s[k])
    BY <1>2, <1>9, <2>1 DEF IsRun
  <2> QED
    BY <2>2 DEF Op
<1> QED
  BY <1>3, <1>9, <1>10 DEF IsRun, N, X

\* What is left are the prompts other than p, each once if it was there once.
LEMMA WithoutLeaves ==
    ASSUME NEW s \in Seq(Prompts), NEW p
    PROVE  /\ Without(s, p) \in Seq(Prompts)
           /\ Range(Without(s, p)) = Range(s) \ {p}
           /\ IsInjective(s) => IsInjective(Without(s, p))
<1>0. PICK r \in [0 .. Len(s) -> Seq(Prompts)] :
         /\ r[0] = <<>>
         /\ \A k \in 1 .. Len(s) :
               r[k] = IF s[k] = p THEN r[k - 1] ELSE Append(r[k - 1], s[k])
         /\ Without(s, p) = r[Len(s)]
  BY WithoutRun
<1> DEFINE Left(k) == {s[i] : i \in 1 .. k} \ {p}
           Good == {k \in 0 .. Len(s) :
                      /\ Range(r[k]) = Left(k)
                      /\ IsInjective(s) => IsInjective(r[k])}
<1>1. Len(s) \in Nat /\ DOMAIN s = 1 .. Len(s) /\ \A i \in 1 .. Len(s) : s[i] \in Prompts
  OBVIOUS
<1>2. 0 \in Good
  <2>1. Left(0) = {}
    OBVIOUS
  <2>2. Range(<<>>) = {} /\ IsInjective(<<>>)
    BY DEF Range, IsInjective
  <2> QED
    BY <1>0, <1>1, <2>1, <2>2
<1>3. ASSUME NEW k \in 1 .. Len(s), k - 1 \in Good PROVE k \in Good
  <2>1. k \in 0 .. Len(s) /\ k - 1 \in 0 .. Len(s) /\ r[k - 1] \in Seq(Prompts)
    <3>1. k \in 0 .. Len(s) /\ k - 1 \in 0 .. Len(s)
      BY <1>1
    <3> HIDE DEF Good
    <3> QED
      BY <1>0, <3>1
  <2>2. {s[i] : i \in 1 .. k} = {s[i] : i \in 1 .. k - 1} \cup {s[k]}
    BY <1>1
  <2>3. Range(r[k - 1]) = Left(k - 1) /\ (IsInjective(s) => IsInjective(r[k - 1]))
    BY <1>3
  <2>4. CASE s[k] = p
    <3>1. Left(k) = Left(k - 1) /\ r[k] = r[k - 1]
      BY <1>0, <2>2, <2>4
    <3> QED
      BY <2>1, <2>3, <3>1
  <2>5. CASE s[k] # p
    <3>1. r[k] = Append(r[k - 1], s[k])
      BY <1>0, <2>5
    <3>2. Range(r[k]) = Range(r[k - 1]) \cup {s[k]}
      BY <1>1, <2>1, <3>1, RangeOfAppend
    <3>3. Left(k) = Left(k - 1) \cup {s[k]}
      BY <2>2, <2>5
    <3>4. ASSUME IsInjective(s) PROVE IsInjective(r[k])
      <4>1. \A i \in 1 .. k - 1 : i \in DOMAIN s /\ k \in DOMAIN s /\ i # k
        BY <1>1
      <4>2. s[k] \notin Left(k - 1)
        BY <3>4, <4>1 DEF IsInjective
      <4>3. \A i \in DOMAIN r[k - 1] : r[k - 1][i] # s[k]
        BY <2>3, <4>2 DEF Range
      <4> QED
        BY <2>1, <2>3, <3>1, <3>4, <4>3 DEF IsInjective
    <3> QED
      BY <2>1, <2>3, <3>2, <3>3, <3>4
  <2> QED
    BY <2>4, <2>5
<1> HIDE DEF Good
<1>4. Len(s) \in Good
  <2>1. 0 .. Len(s) \subseteq Good
    BY <1>1, <1>2, <1>3, UpTo
  <2> QED
    BY <1>1, <2>1
<1>5. Left(Len(s)) = Range(s) \ {p}
  BY <1>1 DEF Range
<1> QED
  BY <1>0, <1>1, <1>4, <1>5 DEF Good

-----------------------------------------------------------------------------
(* What a frame makes of a session.                                        *)

\* What a frame f may make of the lists of prompts of s.
MakesOf(s, f, t) ==
    \/ /\ f.type \notin {"prompt_request"} \cup Endings
       /\ t.activePrompts = s.activePrompts
       /\ t.deferred \in {s.deferred, <<>>}
    \/ /\ f.type \notin {"prompt_request"} \cup Endings
       /\ t.activePrompts = s.activePrompts \o s.deferred
       /\ t.deferred = <<>>
    \/ /\ f.type = "prompt_request"
       /\ t.activePrompts = Append(s.activePrompts, f.prompt)
       /\ t.deferred = s.deferred
    \/ /\ f.type = "prompt_request"
       /\ t.activePrompts = s.activePrompts
       /\ t.deferred = Append(s.deferred, f.prompt)
    \/ /\ f.type \in Endings
       /\ t.activePrompts = Without(s.activePrompts, f.prompt)
       /\ t.deferred = Without(s.deferred, f.prompt)

LEMMA HandleCases ==
    ASSUME NEW s \in SessionData, NEW f \in SentFrames
    PROVE  /\ MakesOf(s, f, Handle(s, f))
           /\ \E replaying \in BOOLEAN : \E a, d :
                 Handle(s, f) = [status |-> s.status, isReplaying |-> replaying,
                                 activePrompts |-> a, deferred |-> d]
<1> DEFINE t == Handle(s, f)
           Whole(u) == \E replaying \in BOOLEAN : \E a, d :
                          u = [status |-> s.status, isReplaying |-> replaying,
                               activePrompts |-> a, deferred |-> d]
<1> SUFFICES MakesOf(s, f, t) /\ Whole(t)
  OBVIOUS
<1>0. /\ s.isReplaying \in BOOLEAN
      /\ s = [status |-> s.status, isReplaying |-> s.isReplaying,
              activePrompts |-> s.activePrompts, deferred |-> s.deferred]
  BY DEF SessionData
<1>1. CASE f.type = "replay_start"
  <2>1. t = [s EXCEPT !.isReplaying = TRUE, !.deferred = <<>>]
    BY <1>1 DEF Handle, Endings
  <2> HIDE DEF t
  <2>2. MakesOf(s, f, t)
    BY <1>0, <1>1, <2>1 DEF Endings, MakesOf
  <2>3. Whole(t)
    BY <1>0, <2>1
  <2> QED
    BY <2>2, <2>3
<1>2. CASE f.type = "replay_end"
  <2>1. t = [s EXCEPT !.isReplaying = FALSE, !.activePrompts = s.activePrompts \o s.deferred,
                      !.deferred = <<>>]
    BY <1>0, <1>2 DEF Handle, Promoted, Endings
  <2> HIDE DEF t
  <2>2. MakesOf(s, f, t)
    BY <1>0, <1>2, <2>1 DEF Endings, MakesOf
  <2>3. Whole(t)
    BY <1>0, <2>1
  <2> QED
    BY <2>2, <2>3
<1>3. CASE f.type = "prompt_request"
  <2>1. \/ t = [s EXCEPT !.deferred = Append(s.deferred, f.prompt)]
        \/ t = [s EXCEPT !.activePrompts = Append(s.activePrompts, f.prompt)]
    BY <1>0, <1>3 DEF Handle, Endings
  <2> HIDE DEF t
  <2>2. MakesOf(s, f, t)
    BY <1>0, <1>3, <2>1 DEF Endings, MakesOf
  <2>3. Whole(t)
    BY <1>0, <2>1
  <2> QED
    BY <2>2, <2>3
<1>4. CASE f.type \in Endings
  <2>1. t = [s EXCEPT !.activePrompts = Without(s.activePrompts, f.prompt),
                      !.deferred = Without(s.deferred, f.prompt)]
    BY <1>0, <1>4 DEF Handle, Endings
  <2> HIDE DEF t
  <2>2. MakesOf(s, f, t)
    BY <1>0, <1>4, <2>1 DEF Endings, MakesOf
  <2>3. Whole(t)
    BY <1>0, <2>1
  <2> QED
    BY <2>2, <2>3
<1>5. CASE f.type \notin {"replay_start", "replay_end", "prompt_request"} \cup Endings
  <2>1. t = s
    BY <1>5 DEF Handle, Endings
  <2> HIDE DEF t
  <2>2. MakesOf(s, f, t)
    BY <1>0, <1>5, <2>1 DEF MakesOf
  <2>3. Whole(t)
    BY <1>0, <2>1
  <2> QED
    BY <2>2, <2>3
<1> HIDE DEF t, Whole
<1> QED
  BY <1>1, <1>2, <1>3, <1>4, <1>5

LEMMA HandleType ==
    ASSUME NEW s \in SessionData, NEW f \in SentFrames
    PROVE  Handle(s, f) \in SessionData
<1> DEFINE t == Handle(s, f)
<1>1. /\ s.status \in {"none", "active", "offline"}
      /\ s.activePrompts \in Seq(Prompts) /\ s.deferred \in Seq(Prompts)
      /\ f.type = "prompt_request" => f.prompt \in Prompts
  BY DEF SessionData, SentFrames
<1>2. /\ Without(s.activePrompts, f.prompt) \in Seq(Prompts)
      /\ Without(s.deferred, f.prompt) \in Seq(Prompts)
  BY <1>1, WithoutLeaves
<1>3. PICK replaying \in BOOLEAN : \E a, d :
         t = [status |-> s.status, isReplaying |-> replaying,
              activePrompts |-> a, deferred |-> d]
  BY HandleCases
<1>4. MakesOf(s, f, t)
  BY HandleCases
<1> HIDE DEF t
<1>5. t.activePrompts \in Seq(Prompts) /\ t.deferred \in Seq(Prompts)
  <2>1. s.activePrompts \o s.deferred \in Seq(Prompts) /\ <<>> \in Seq(Prompts)
    BY <1>1
  <2>2. f.type = "prompt_request" =>
           /\ Append(s.activePrompts, f.prompt) \in Seq(Prompts)
           /\ Append(s.deferred, f.prompt) \in Seq(Prompts)
    BY <1>1
  <2> QED
    BY <1>1, <1>2, <1>4, <2>1, <2>2 DEF MakesOf
<1>6. t \in SessionData
  BY <1>1, <1>3, <1>5 DEF SessionData
<1> QED
  BY <1>6 DEF t

\* A request adds its prompt to what is shown, an ending removes it.
LEMMA HandleShown ==
    ASSUME NEW s \in SessionData, NEW f \in SentFrames
    PROVE  /\ f.type \in Endings => ShownIn(Handle(s, f)) \subseteq ShownIn(s) \ {f.prompt}
           /\ f.type = "prompt_request" =>
                 ShownIn(Handle(s, f)) \subseteq ShownIn(s) \cup {f.prompt}
           /\ f.type \notin {"prompt_request"} \cup Endings =>
                 ShownIn(Handle(s, f)) \subseteq ShownIn(s)
<1> DEFINE t == Handle(s, f)
           a == s.activePrompts
           d == s.deferred
<1>1. /\ a \in Seq(Prompts) /\ d \in Seq(Prompts)
      /\ f.type = "prompt_request" => f.prompt \in Prompts
  BY DEF SessionData, SentFrames
<1>2. Range(<<>>) = {}
  BY DEF Range
<1>3. /\ Range(a \o d) = Range(a) \cup Range(d)
      /\ Range(Without(a, f.prompt)) = Range(a) \ {f.prompt}
      /\ Range(Without(d, f.prompt)) = Range(d) \ {f.prompt}
  BY <1>1, WithoutLeaves, RangeOfConcat
<1>4. f.type = "prompt_request" =>
         /\ Range(Append(a, f.prompt)) = Range(a) \cup {f.prompt}
         /\ Range(Append(d, f.prompt)) = Range(d) \cup {f.prompt}
  BY <1>1, RangeOfAppend
<1>5. \/ f.type \notin {"prompt_request"} \cup Endings
         /\ t.activePrompts = a /\ t.deferred \in {d, <<>>}
      \/ f.type \notin {"prompt_request"} \cup Endings
         /\ t.activePrompts = a \o d /\ t.deferred = <<>>
      \/ f.type = "prompt_request"
         /\ t.activePrompts = Append(a, f.prompt) /\ t.deferred = d
      \/ f.type = "prompt_request"
         /\ t.activePrompts = a /\ t.deferred = Append(d, f.prompt)
      \/ f.type \in Endings
         /\ t.activePrompts = Without(a, f.prompt) /\ t.deferred = Without(d, f.prompt)
  BY HandleCases DEF MakesOf
<1>6. ShownIn(s) = Range(a) \cup Range(d)
      /\ ShownIn(t) = Range(t.activePrompts) \cup Range(t.deferred)
  BY DEF ShownIn
<1>7. "prompt_request" \notin Endings
  BY DEF Endings
<1> HIDE DEF t, a, d
<1>8. CASE f.type \in Endings
  BY <1>3, <1>5, <1>6, <1>7, <1>8 DEF t
<1>9. CASE f.type = "prompt_request"
  BY <1>4, <1>5, <1>6, <1>7, <1>9 DEF t
<1>10. CASE f.type \notin {"prompt_request"} \cup Endings
  BY <1>2, <1>3, <1>5, <1>6, <1>10 DEF t
<1> QED
  BY <1>7, <1>8, <1>9, <1>10

\* No prompt is listed twice after a frame that asks for none that is shown.
LEMMA HandleOnce ==
    ASSUME NEW s \in SessionData, NEW f \in SentFrames, OnceIn(s),
           f.type = "prompt_request" => f.prompt \notin ShownIn(s)
    PROVE  OnceIn(Handle(s, f))
<1> DEFINE t == Handle(s, f)
           a == s.activePrompts
           d == s.deferred
<1>1. /\ a \in Seq(Prompts) /\ d \in Seq(Prompts) /\ <<>> \in Seq(Prompts)
      /\ f.type = "prompt_request" => f.prompt \in Prompts
  BY DEF SessionData, SentFrames
<1>2. IsInjective(a) /\ IsInjective(d) /\ Range(a) \cap Range(d) = {}
  BY <1>1, InjectiveConcat DEF OnceIn
<1>3. \/ f.type \notin {"prompt_request"} \cup Endings
         /\ t.activePrompts = a /\ t.deferred \in {d, <<>>}
      \/ f.type \notin {"prompt_request"} \cup Endings
         /\ t.activePrompts = a \o d /\ t.deferred = <<>>
      \/ f.type = "prompt_request"
         /\ t.activePrompts = Append(a, f.prompt) /\ t.deferred = d
      \/ f.type = "prompt_request"
         /\ t.activePrompts = a /\ t.deferred = Append(d, f.prompt)
      \/ f.type \in Endings
         /\ t.activePrompts = Without(a, f.prompt) /\ t.deferred = Without(d, f.prompt)
  BY HandleCases DEF MakesOf
<1>4. t.activePrompts \in Seq(Prompts) /\ t.deferred \in Seq(Prompts)
  BY HandleType DEF SessionData
<1>5. Range(<<>>) = {} /\ IsInjective(<<>>)
  BY DEF Range, IsInjective
<1>6. /\ Range(Without(a, f.prompt)) = Range(a) \ {f.prompt}
      /\ Range(Without(d, f.prompt)) = Range(d) \ {f.prompt}
      /\ IsInjective(Without(a, f.prompt)) /\ IsInjective(Without(d, f.prompt))
  BY <1>1, <1>2, WithoutLeaves
<1>7. IsInjective(a \o d)
  BY DEF OnceIn
<1>8. ASSUME f.type = "prompt_request"
      PROVE  /\ IsInjective(Append(a, f.prompt)) /\ IsInjective(Append(d, f.prompt))
             /\ Range(Append(a, f.prompt)) = Range(a) \cup {f.prompt}
             /\ Range(Append(d, f.prompt)) = Range(d) \cup {f.prompt}
             /\ f.prompt \notin Range(a) \cup Range(d)
  <2>1. f.prompt \notin Range(a) \cup Range(d)
    BY <1>8 DEF ShownIn
  <2>2. \A x \in DOMAIN a : a[x] # f.prompt
    BY <2>1 DEF Range
  <2>3. \A x \in DOMAIN d : d[x] # f.prompt
    BY <2>1 DEF Range
  <2> HIDE DEF a, d
  <2>4. IsInjective(Append(a, f.prompt)) /\ IsInjective(Append(d, f.prompt))
    BY <1>1, <1>2, <2>2, <2>3 DEF IsInjective
  <2> QED
    BY <1>1, <1>8, <2>1, <2>4, RangeOfAppend
<1> HIDE DEF t, a, d
<1>9. /\ IsInjective(t.activePrompts) /\ IsInjective(t.deferred)
      /\ Range(t.activePrompts) \cap Range(t.deferred) = {}
  <2>1. CASE f.type \notin {"prompt_request"} \cup Endings
    BY <1>2, <1>3, <1>5, <1>7, <2>1
  <2>2. CASE f.type = "prompt_request"
    <3>1. f.type \notin Endings
      BY <2>2 DEF Endings
    <3> QED
      BY <1>2, <1>3, <1>8, <2>2, <3>1
  <2>3. CASE f.type \in Endings
    <3>1. f.type # "prompt_request"
      BY <2>3 DEF Endings
    <3> QED
      BY <1>3, <1>2, <1>6, <2>3, <3>1
  <2> QED
    BY <2>1, <2>2, <2>3
<1> QED
  BY <1>4, <1>9, InjectiveConcat DEF OnceIn, t

\* A reconnection makes its session of the buffered frames, one after the other.
LEMMA SessionRun ==
    ASSUME NEW s \in Seq(SentFrames), NEW old \in SessionData
    PROVE  \E r \in [0 .. Len(s) -> SessionData] :
              /\ r[0] = old
              /\ \A k \in 1 .. Len(s) : r[k] = Handle(r[k - 1], s[k])
              /\ FoldLeft(Handle, old, s) = r[Len(s)]
<1> DEFINE X == SessionData
           N == Len(s)
           F == [z \in X \X SentFrames |-> Handle(z[1], z[2])]
           iter == CHOOSE f : f = [t \in SUBSET (1 .. N) |->
                      IF t = {} THEN old ELSE Handle(f[t \ {Max(t)}], s[Max(t)])]
<1>1. Foldable(X, SentFrames, F, old, N, s)
  BY HandleType DEF Foldable
<1>2. \A x \in X, y \in SentFrames : F[<<x, y>>] = Handle(x, y)
  OBVIOUS
<1>3. FoldLeft(Handle, old, s) = iter[1 .. N]
  <2>1. DOMAIN s = 1 .. N
    OBVIOUS
  <2>2. FoldLeft(Handle, old, s) = iter[DOMAIN s]
    BY <2>1 DEF FoldLeft, MapThenFoldSet
  <2> QED
    BY <2>1, <2>2
<1> HIDE DEF F, X, N
<1>4. PICK g : IsFold(X, F, old, N, s, g)
  BY <1>1, FoldExists
<1>5. ASSUME NEW t \in SUBSET (1 .. N), t # {}
      PROVE  t \ {Max(t)} \in SUBSET (1 .. N) /\ s[Max(t)] \in SentFrames
  BY <1>1, <1>5, MaxOfInterval DEF Foldable
<1>6. g = [t \in SUBSET (1 .. N) |->
             IF t = {} THEN old ELSE Handle(g[t \ {Max(t)}], s[Max(t)])]
  <2>1. ASSUME NEW t \in SUBSET (1 .. N), t # {}
        PROVE  g[t] = Handle(g[t \ {Max(t)}], s[Max(t)])
    BY <1>2, <1>4, <1>5, <2>1 DEF IsFold
  <2> QED
    BY <1>4, <2>1 DEF IsFold
<1>7. iter = [t \in SUBSET (1 .. N) |->
                IF t = {} THEN old ELSE Handle(iter[t \ {Max(t)}], s[Max(t)])]
  BY <1>6
<1> HIDE DEF iter
<1>8. Iterates(X, F, old, N, s, iter)
  BY <1>2, <1>5, <1>7 DEF Iterates
<1>9. PICK r : IsRun(X, F, old, N, s, r) /\ iter[1 .. N] = r[N]
  BY <1>1, <1>8, FoldSteps
<1>10. ASSUME NEW k \in 1 .. N PROVE r[k] = Handle(r[k - 1], s[k])
  <2>1. r[k - 1] \in X /\ s[k] \in SentFrames
    BY <1>1, <1>9 DEF Foldable, IsRun
  <2> QED
    BY <1>2, <1>9, <2>1 DEF IsRun
<1> QED
  BY <1>3, <1>9, <1>10 DEF IsRun, N, X

LEMMA NoSessionType == NoSession \in SessionData
<1>1. <<>> \in Seq(Prompts)
  OBVIOUS
<1> QED
  BY <1>1 DEF NoSession, SessionData

LEMMA ConnectedType ==
    /\ Connected \in SessionData
    /\ Connected.activePrompts = <<>> /\ Connected.deferred = <<>>
<1>1. Connected = [NoSession EXCEPT !.status = "active"]
  BY DEF Connected
<1>2. NoSession.activePrompts = <<>> /\ NoSession.deferred = <<>>
  BY DEF NoSession
<1> QED
  BY <1>1, <1>2, NoSessionType DEF SessionData

\* That session shows only what the frames leave open, and no prompt twice.
LEMMA SessionOfFrames ==
    ASSUME NEW s \in Seq(SentFrames)
    PROVE  LET new == FoldLeft(Handle, Connected, s) IN
           /\ new \in SessionData
           /\ ShownIn(new) \subseteq OpenIn(s)
           /\ AsksOnce(s) => OnceIn(new)
<1> DEFINE N == Len(s)
<1>0. /\ Connected \in SessionData
      /\ Connected.activePrompts = <<>> /\ Connected.deferred = <<>>
  BY ConnectedType
<1>1. PICK r \in [0 .. N -> SessionData] :
         /\ r[0] = Connected
         /\ \A k \in 1 .. N : r[k] = Handle(r[k - 1], s[k])
         /\ FoldLeft(Handle, Connected, s) = r[N]
  BY <1>0, SessionRun
<1>2. N \in Nat /\ DOMAIN s = 1 .. N /\ \A i \in 1 .. N : s[i] \in SentFrames
  OBVIOUS
<1> HIDE DEF N
<1> DEFINE Until(k) == {p \in Prompts : \E i \in 1 .. k :
              RequestOf(s[i], p) /\ \A j \in i + 1 .. k : ~EndingOf(s[j], p)}
           Good == {k \in 0 .. N : ShownIn(r[k]) \subseteq Until(k)}
           Single == {k \in 0 .. N : k \in Good /\ OnceIn(r[k])}
<1>3. \A k \in 1 .. N : k \in 0 .. N /\ k - 1 \in 0 .. N /\ r[k - 1] \in SessionData
  <2> TAKE k \in 1 .. N
  <2>1. k \in 0 .. N /\ k - 1 \in 0 .. N
    BY <1>2
  <2> HIDE DEF Good, Single
  <2> QED
    BY <1>1, <2>1
<1>4. 0 \in 0 .. N /\ N \in 0 .. N
  BY <1>2
<1>5. ShownIn(r[0]) = {} /\ OnceIn(r[0])
  <2>1. r[0].activePrompts = <<>> /\ r[0].deferred = <<>>
    BY <1>0, <1>1
  <2>2. <<>> \o <<>> = <<>> /\ DOMAIN <<>> = {}
    OBVIOUS
  <2> QED
    BY <2>1, <2>2 DEF ShownIn, OnceIn, Range, IsInjective
<1>6. ASSUME NEW k \in 1 .. N, k - 1 \in Good PROVE k \in Good
  <2>1. s[k] \in SentFrames /\ r[k - 1] \in SessionData /\ r[k] = Handle(r[k - 1], s[k])
    BY <1>1, <1>2, <1>3
  <2>2. ShownIn(r[k - 1]) \subseteq Until(k - 1)
    BY <1>6
  <2>3. ASSUME NEW p \in Until(k - 1), ~EndingOf(s[k], p) PROVE p \in Until(k)
    <3>1. PICK i \in 1 .. k - 1 : RequestOf(s[i], p)
                /\ \A j \in i + 1 .. k - 1 : ~EndingOf(s[j], p)
      OBVIOUS
    <3>2. i \in 1 .. k /\ \A j \in i + 1 .. k : j \in i + 1 .. k - 1 \/ j = k
      BY <1>2
    <3>3. \A j \in i + 1 .. k : ~EndingOf(s[j], p)
      BY <2>3, <3>1, <3>2
    <3> QED
      BY <3>1, <3>2, <3>3
  <2>4. ASSUME s[k].type = "prompt_request" PROVE s[k].prompt \in Until(k)
    <3>1. s[k].prompt \in Prompts /\ RequestOf(s[k], s[k].prompt)
      BY <2>1, <2>4 DEF SentFrames, RequestOf
    <3>2. k \in 1 .. k /\ \A j \in k + 1 .. k : FALSE
      BY <1>2
    <3> QED
      BY <3>1, <3>2
  <2> HIDE DEF Until
  <2>5. ShownIn(r[k]) \subseteq Until(k)
    <3>1. CASE s[k].type \in Endings
      <4>1. ShownIn(r[k]) \subseteq ShownIn(r[k - 1]) \ {s[k].prompt}
        BY <2>1, <3>1, HandleShown
      <4>2. \A p \in ShownIn(r[k - 1]) \ {s[k].prompt} : ~EndingOf(s[k], p)
        BY DEF EndingOf
      <4> QED
        BY <2>2, <2>3, <4>1, <4>2
    <3>2. CASE s[k].type = "prompt_request"
      <4>1. ShownIn(r[k]) \subseteq ShownIn(r[k - 1]) \cup {s[k].prompt}
        BY <2>1, <3>2, HandleShown
      <4>2. \A p : ~EndingOf(s[k], p)
        BY <3>2 DEF EndingOf, Endings
      <4> QED
        BY <2>2, <2>3, <2>4, <3>2, <4>1, <4>2
    <3>3. CASE s[k].type \notin {"prompt_request"} \cup Endings
      <4>1. ShownIn(r[k]) \subseteq ShownIn(r[k - 1])
        BY <2>1, <3>3, HandleShown
      <4>2. \A p : ~EndingOf(s[k], p)
        BY <3>3 DEF EndingOf
      <4> QED
        BY <2>2, <2>3, <4>1, <4>2
    <3> QED
      BY <3>1, <3>2, <3>3
  <2> QED
    BY <1>3, <2>5
<1>7. ASSUME AsksOnce(s), NEW k \in 1 .. N, k - 1 \in Single PROVE k \in Single
  <2>1. s[k] \in SentFrames /\ r[k - 1] \in SessionData /\ r[k] = Handle(r[k - 1], s[k])
    BY <1>1, <1>2, <1>3
  <2>2. k - 1 \in Good /\ ShownIn(r[k - 1]) \subseteq Until(k - 1) /\ OnceIn(r[k - 1])
    BY <1>7
  <2>3. ASSUME s[k].type = "prompt_request", s[k].prompt \in Until(k - 1) PROVE FALSE
    <3>1. PICK i \in 1 .. k - 1 : RequestOf(s[i], s[k].prompt)
      BY <2>3
    <3>2. i \in DOMAIN s /\ k \in DOMAIN s /\ i # k
      BY <1>2
    <3> QED
      BY <1>7, <2>3, <3>1, <3>2 DEF AsksOnce, RequestOf
  <2>4. OnceIn(r[k])
    BY <2>1, <2>2, <2>3, HandleOnce
  <2> HIDE DEF Good
  <2> QED
    BY <1>3, <1>6, <2>2, <2>4
<1>8. 0 \in Good /\ 0 \in Single
  BY <1>4, <1>5
<1>9. Until(N) \subseteq OpenIn(s)
  <2>1. ASSUME NEW p \in Until(N) PROVE p \in OpenIn(s)
    <3>1. p \in Prompts
      OBVIOUS
    <3>2. PICK i \in 1 .. N : RequestOf(s[i], p) /\ \A j \in i + 1 .. N : ~EndingOf(s[j], p)
      OBVIOUS
    <3>3. \A j \in DOMAIN s : j > i => j \in i + 1 .. N
      BY <1>2
    <3> QED
      BY <1>2, <3>1, <3>2, <3>3 DEF OpenIn
  <2> QED
    BY <2>1
<1>10. N \in Good
  <2> HIDE DEF Good
  <2>1. 0 .. N \subseteq Good
    BY <1>2, <1>6, <1>8, UpTo
  <2> QED
    BY <1>4, <2>1
<1>11. AsksOnce(s) => N \in Single
  <2> HIDE DEF Single
  <2>1. ASSUME AsksOnce(s) PROVE 0 .. N \subseteq Single
    BY <1>2, <1>7, <1>8, <2>1, UpTo
  <2> QED
    BY <1>4, <2>1
<1> QED
  <2>1. r[N] \in SessionData
    BY <1>1, <1>4
  <2> HIDE DEF Until
  <2> QED
    BY <1>1, <1>9, <1>10, <1>11, <2>1

-----------------------------------------------------------------------------
(* Streams that are cut and put together.                                  *)

\* A suffix of a stream asks and leaves open no more than the stream.
LEMMA SuffixOfStream ==
    ASSUME NEW q \in Seq(SentFrames), NEW m \in Nat \ {0}, m <= Len(q) + 1
    PROVE  LET t == SubSeq(q, m, Len(q)) IN
           /\ t \in Seq(SentFrames)
           /\ Len(t) = Len(q) + 1 - m
           /\ AskedIn(t) \subseteq AskedIn(q)
           /\ OpenIn(t) \subseteq OpenIn(q)
           /\ AsksOnce(q) => AsksOnce(t)
<1> DEFINE t == SubSeq(q, m, Len(q))
           at(i) == m + i - 1
<1>1. /\ Len(q) \in Nat /\ DOMAIN q = 1 .. Len(q)
      /\ \A i \in 1 .. Len(q) : q[i] \in SentFrames
  OBVIOUS
<1>2. t \in Seq(SentFrames) /\ Len(t) = Len(q) + 1 - m /\ DOMAIN t = 1 .. Len(t)
  BY <1>1
<1>3. \A i \in DOMAIN t : at(i) \in DOMAIN q /\ t[i] = q[at(i)]
  BY <1>1
<1> HIDE DEF t
<1>4. \A i, j \in DOMAIN t : (at(i) = at(j) => i = j) /\ (i < j <=> at(i) < at(j))
  BY <1>1, <1>2
<1>5. \A j \in DOMAIN q : j >= m => \E i \in DOMAIN t : at(i) = j
  <2> TAKE j \in DOMAIN q
  <2> HAVE j >= m
  <2>1. j - m + 1 \in DOMAIN t /\ at(j - m + 1) = j
    BY <1>1, <1>2
  <2> QED
    BY <2>1
<1>6. AskedIn(t) \subseteq AskedIn(q)
  BY <1>3 DEF AskedIn
<1>7. ASSUME NEW p \in OpenIn(t) PROVE p \in OpenIn(q)
  <2>1. PICK i \in DOMAIN t :
           RequestOf(t[i], p) /\ \A j \in DOMAIN t : j > i => ~EndingOf(t[j], p)
    BY DEF OpenIn
  <2>2. at(i) \in DOMAIN q /\ RequestOf(q[at(i)], p)
    BY <1>3, <2>1
  <2>3. ASSUME NEW k \in DOMAIN q, k > at(i) PROVE ~EndingOf(q[k], p)
    <3>1. k >= m
      BY <1>1, <1>2, <2>3
    <3>2. PICK j \in DOMAIN t : at(j) = k
      BY <1>5, <3>1
    <3>3. j > i
      BY <1>1, <1>2, <2>3, <3>2
    <3> QED
      BY <1>3, <2>1, <3>2, <3>3
  <2>4. p \in Prompts
    BY DEF OpenIn
  <2> HIDE DEF at
  <2> QED
    BY <2>2, <2>3, <2>4 DEF OpenIn
<1>8. ASSUME AsksOnce(q) PROVE AsksOnce(t)
  BY <1>3, <1>4, <1>8 DEF AsksOnce
<1> QED
  BY <1>2, <1>6, <1>7, <1>8 DEF t

\* Of two streams after one another, the second ends what the first left open.
LEMMA ConcatOfStreams ==
    ASSUME NEW q \in Seq(SentFrames), NEW t \in Seq(SentFrames)
    PROVE  /\ q \o t \in Seq(SentFrames)
           /\ AskedIn(q \o t) = AskedIn(q) \cup AskedIn(t)
           /\ EndedIn(q \o t) = EndedIn(q) \cup EndedIn(t)
           /\ OpenIn(q \o t) = (OpenIn(q) \ EndedIn(t)) \cup OpenIn(t)
           /\ AsksOnce(q \o t) <=>
                 AsksOnce(q) /\ AsksOnce(t) /\ AskedIn(q) \cap AskedIn(t) = {}
<1> DEFINE u == q \o t
           n == Len(q)
           at(i) == n + i
<1>1. /\ n \in Nat /\ DOMAIN q = 1 .. n /\ Len(t) \in Nat /\ DOMAIN t = 1 .. Len(t)
      /\ u \in Seq(SentFrames) /\ DOMAIN u = 1 .. n + Len(t)
      /\ \A i \in DOMAIN q : q[i] \in SentFrames
      /\ \A i \in DOMAIN t : t[i] \in SentFrames
  OBVIOUS
<1>2. \A i \in DOMAIN q : i \in DOMAIN u /\ u[i] = q[i]
  OBVIOUS
<1>3. \A i \in DOMAIN t : at(i) \in DOMAIN u /\ u[at(i)] = t[i]
  OBVIOUS
<1> HIDE DEF u, n
<1>4. \A k \in DOMAIN u : k \in DOMAIN q \/ \E i \in DOMAIN t : k = at(i)
  <2> TAKE k \in DOMAIN u
  <2>1. CASE k > n
    <3>1. k - n \in DOMAIN t /\ at(k - n) = k
      BY <1>1, <2>1
    <3> QED
      BY <3>1
  <2>2. CASE ~(k > n)
    BY <1>1, <2>2
  <2> QED
    BY <2>1, <2>2
<1>5. /\ \A i \in DOMAIN q, j \in DOMAIN t : i < at(j)
      /\ \A i, j \in DOMAIN t : (at(i) = at(j) => i = j) /\ (i < j <=> at(i) < at(j))
  BY <1>1
<1>6. \A i \in DOMAIN q, j \in DOMAIN t : ~(i > at(j)) /\ i # at(j)
  BY <1>1
<1> HIDE DEF at
<1>7. AskedIn(u) = AskedIn(q) \cup AskedIn(t)
  <2>1. AskedIn(u) \subseteq AskedIn(q) \cup AskedIn(t)
    BY <1>2, <1>3, <1>4 DEF AskedIn
  <2>2. AskedIn(q) \cup AskedIn(t) \subseteq AskedIn(u)
    BY <1>2, <1>3 DEF AskedIn
  <2> QED
    BY <2>1, <2>2
<1>8. EndedIn(u) = EndedIn(q) \cup EndedIn(t)
  <2>1. EndedIn(u) \subseteq EndedIn(q) \cup EndedIn(t)
    BY <1>2, <1>3, <1>4 DEF EndedIn
  <2>2. EndedIn(q) \cup EndedIn(t) \subseteq EndedIn(u)
    BY <1>2, <1>3 DEF EndedIn
  <2> QED
    BY <2>1, <2>2
<1>9. ASSUME NEW p \in OpenIn(u) PROVE p \in (OpenIn(q) \ EndedIn(t)) \cup OpenIn(t)
  <2>1. PICK k \in DOMAIN u :
           RequestOf(u[k], p) /\ \A j \in DOMAIN u : j > k => ~EndingOf(u[j], p)
    BY DEF OpenIn
  <2>2. p \in Prompts
    BY DEF OpenIn
  <2>3. CASE k \in DOMAIN q
    <3>1. \A j \in DOMAIN q : j > k => ~EndingOf(q[j], p)
      BY <1>2, <2>1
    <3>2. RequestOf(q[k], p)
      BY <1>2, <2>1, <2>3
    <3>3. p \in OpenIn(q)
      BY <2>2, <2>3, <3>1, <3>2 DEF OpenIn
    <3>4. ASSUME NEW j \in DOMAIN t PROVE ~EndingOf(t[j], p)
      <4>1. at(j) > k
        BY <1>1, <1>3, <1>5, <2>3
      <4> QED
        BY <1>3, <2>1, <4>1
    <3> QED
      BY <3>3, <3>4 DEF EndedIn
  <2>4. ASSUME NEW i \in DOMAIN t, k = at(i) PROVE p \in OpenIn(t)
    <3>1. RequestOf(t[i], p)
      BY <1>3, <2>1, <2>4
    <3>2. ASSUME NEW j \in DOMAIN t, j > i PROVE ~EndingOf(t[j], p)
      <4>1. at(j) > k
        BY <1>1, <1>3, <1>5, <2>4, <3>2
      <4> QED
        BY <1>3, <2>1, <4>1
    <3> QED
      BY <2>2, <3>1, <3>2 DEF OpenIn
  <2> QED
    BY <1>4, <2>3, <2>4
<1>10. ASSUME NEW p \in OpenIn(q), p \notin EndedIn(t) PROVE p \in OpenIn(u)
  <2>1. PICK i \in DOMAIN q :
           RequestOf(q[i], p) /\ \A j \in DOMAIN q : j > i => ~EndingOf(q[j], p)
    BY DEF OpenIn
  <2>2. p \in Prompts
    BY DEF OpenIn
  <2>3. \A j \in DOMAIN t : ~EndingOf(t[j], p)
    BY <1>10, <2>2 DEF EndedIn
  <2>4. \A j \in DOMAIN u : j > i => ~EndingOf(u[j], p)
    BY <1>2, <1>3, <1>4, <2>1, <2>3
  <2>5. i \in DOMAIN u /\ RequestOf(u[i], p)
    BY <1>2, <2>1
  <2> QED
    BY <2>2, <2>4, <2>5 DEF OpenIn
<1>11. ASSUME NEW p \in OpenIn(t) PROVE p \in OpenIn(u)
  <2>1. PICK i \in DOMAIN t :
           RequestOf(t[i], p) /\ \A j \in DOMAIN t : j > i => ~EndingOf(t[j], p)
    BY DEF OpenIn
  <2>2. p \in Prompts
    BY DEF OpenIn
  <2>3. ASSUME NEW k \in DOMAIN u, k > at(i) PROVE ~EndingOf(u[k], p)
    <3>1. PICK j \in DOMAIN t : k = at(j)
      BY <1>4, <1>6, <2>3
    <3>2. j > i
      BY <1>1, <1>3, <1>5, <2>3, <3>1
    <3> QED
      BY <1>3, <2>1, <3>1, <3>2
  <2>4. at(i) \in DOMAIN u /\ RequestOf(u[at(i)], p)
    BY <1>3, <2>1
  <2> QED
    BY <2>2, <2>3, <2>4 DEF OpenIn
<1>12. ASSUME AsksOnce(u)
       PROVE  AsksOnce(q) /\ AsksOnce(t) /\ AskedIn(q) \cap AskedIn(t) = {}
  <2>1. AsksOnce(q)
    BY <1>2, <1>12 DEF AsksOnce
  <2>2. AsksOnce(t)
    BY <1>3, <1>5, <1>12 DEF AsksOnce
  <2>3. ASSUME NEW p \in AskedIn(q), p \in AskedIn(t) PROVE FALSE
    <3>1. PICK i \in DOMAIN q, j \in DOMAIN t : RequestOf(q[i], p) /\ RequestOf(t[j], p)
      BY <2>3 DEF AskedIn
    <3> QED
      BY <1>2, <1>3, <1>6, <1>12, <3>1 DEF AsksOnce, RequestOf
  <2> QED
    BY <2>1, <2>2, <2>3
<1>13. ASSUME AsksOnce(q), AsksOnce(t), AskedIn(q) \cap AskedIn(t) = {}
       PROVE  AsksOnce(u)
  <2> SUFFICES ASSUME NEW k \in DOMAIN u, NEW l \in DOMAIN u,
                      u[k].type = "prompt_request", u[l].type = "prompt_request",
                      u[k].prompt = u[l].prompt
               PROVE  k = l
    BY DEF AsksOnce
  <2>1. ASSUME NEW i \in DOMAIN q, NEW j \in DOMAIN t,
               q[i].type = "prompt_request", t[j].type = "prompt_request"
        PROVE  q[i].prompt # t[j].prompt
    <3>1. q[i].prompt \in AskedIn(q) /\ t[j].prompt \in AskedIn(t)
      BY <1>1, <2>1 DEF AskedIn, RequestOf, SentFrames
    <3> QED
      BY <1>13, <3>1
  <2>2. CASE k \in DOMAIN q /\ l \in DOMAIN q
    BY <1>2, <1>13, <2>2 DEF AsksOnce
  <2>3. ASSUME NEW i \in DOMAIN t, k = at(i), NEW j \in DOMAIN t, l = at(j) PROVE k = l
    BY <1>3, <1>13, <2>3 DEF AsksOnce
  <2>4. ASSUME k \in DOMAIN q, NEW j \in DOMAIN t, l = at(j) PROVE FALSE
    BY <1>2, <1>3, <2>1, <2>4
  <2>5. ASSUME l \in DOMAIN q, NEW j \in DOMAIN t, k = at(j) PROVE FALSE
    BY <1>2, <1>3, <2>1, <2>5
  <2> QED
    BY <1>4, <2>2, <2>3, <2>4, <2>5
<1>14. OpenIn(u) = (OpenIn(q) \ EndedIn(t)) \cup OpenIn(t)
  BY <1>9, <1>10, <1>11
<1> QED
  BY <1>1, <1>7, <1>8, <1>12, <1>13, <1>14 DEF u

\* Frames that are no requests.
LEMMA QuietStream ==
    ASSUME NEW q \in Seq(SentFrames), \A i \in DOMAIN q : q[i].type # "prompt_request"
    PROVE  AskedIn(q) = {} /\ OpenIn(q) = {} /\ AsksOnce(q)
  BY DEF AskedIn, OpenIn, AsksOnce, RequestOf

LEMMA OpenIsAsked == ASSUME NEW q PROVE OpenIn(q) \subseteq AskedIn(q)
  BY DEF OpenIn, AskedIn

-----------------------------------------------------------------------------
(* What the agent sends.                                                   *)

\* The limit of the history drops the oldest frames only.
LEMMA TrimmedStream ==
    ASSUME NEW q \in Seq(SentFrames)
    PROVE  /\ Trimmed(q) \in Seq(SentFrames) /\ Len(Trimmed(q)) <= MaxHistory
           /\ AskedIn(Trimmed(q)) \subseteq AskedIn(q)
           /\ OpenIn(Trimmed(q)) \subseteq OpenIn(q)
           /\ AsksOnce(q) => AsksOnce(Trimmed(q))
<1> DEFINE m == IF Len(q) <= MaxHistory THEN 1 ELSE Len(q) - MaxHistory + 1
<1>1. Len(q) \in Nat /\ MaxHistory \in Nat
  BY SessionsAssumption
<1>2. m \in Nat \ {0} /\ m <= Len(q) + 1 /\ Len(q) + 1 - m <= MaxHistory
  BY <1>1
<1>3. Trimmed(q) = SubSeq(q, m, Len(q))
  BY DEF Trimmed
<1> HIDE DEF m
<1> QED
  BY <1>2, <1>3, SuffixOfStream

\* Frames the agent may send in a step: they ask prompts that are new and then pending,
\* and end those that are no longer pending.
Sends(frames) ==
    /\ frames \in Seq(SentFrames) /\ AsksOnce(frames)
    /\ AskedIn(frames) \subseteq Fresh
    /\ Fresh' \subseteq Fresh \ AskedIn(frames)
    /\ agent' = "running" =>
          /\ agent = "running"
          /\ PendingPrompts \subseteq PendingPrompts' \cup EndedIn(frames)
          /\ AskedIn(frames) \subseteq PendingPrompts'

LEMMA EmittedHistory ==
    ASSUME HistoryOK, NEW frames, Sends(frames), history' = Trimmed(history \o frames)
    PROVE  HistoryOK' /\ Len(history') <= MaxHistory
<1> DEFINE q == history \o frames
<1>1. /\ q \in Seq(SentFrames)
      /\ AskedIn(q) = AskedIn(history) \cup AskedIn(frames)
      /\ OpenIn(q) = (OpenIn(history) \ EndedIn(frames)) \cup OpenIn(frames)
      /\ AsksOnce(q)
  <2>1. AskedIn(history) \cap AskedIn(frames) = {}
    BY DEF HistoryOK, Sends
  <2> QED
    BY <2>1, ConcatOfStreams DEF HistoryOK, Sends
<1> HIDE DEF q
<1>2. /\ history' \in Seq(SentFrames) /\ Len(history') <= MaxHistory
      /\ AskedIn(history') \subseteq AskedIn(q)
      /\ OpenIn(history') \subseteq OpenIn(q)
      /\ AsksOnce(history')
  <2>1. history' = Trimmed(q)
    BY DEF q
  <2> QED
    BY <1>1, <2>1, TrimmedStream
<1>3. AskedIn(history') \cap Fresh' = {}
  BY <1>1, <1>2 DEF HistoryOK, Sends
<1>4. agent' = "running" => OpenIn(history') \subseteq PendingPrompts'
  BY <1>1, <1>2, OpenIsAsked DEF HistoryOK, Sends
<1> QED
  BY <1>2, <1>3, <1>4 DEF HistoryOK

\* The history of an agent that says nothing.
LEMMA SilentHistory ==
    ASSUME HistoryOK, UNCHANGED history, Fresh' \subseteq Fresh,
           agent' = "running" => agent = "running" /\ PendingPrompts \subseteq PendingPrompts'
    PROVE  HistoryOK'
  BY DEF HistoryOK

LEMMA BroadcastStream ==
    ASSUME Connections, StreamOK, ScreenOK, NEW frames, Sends(frames), Broadcast(frames),
           UNCHANGED <<link, conn, session>>
    PROVE  StreamOK' /\ ScreenOK'
<1>0. UNCHANGED Shown /\ UNCHANGED <<link, conn.pendingMessages, session>>
  BY DEF Shown
<1>1. CASE link = "open"
  <2>1. toWeb' = toWeb \o frames
    BY <1>1 DEF Broadcast
  <2>2. Stream' = Stream \o frames
    <3>1. Stream' = conn.pendingMessages \o (toWeb \o frames)
      BY <1>0, <2>1 DEF Stream
    <3>2. /\ conn.pendingMessages \in Seq(SentFrames) /\ toWeb \in Seq(SentFrames)
          /\ frames \in Seq(SentFrames)
      BY DEF StreamOK, Sends
    <3>3. conn.pendingMessages \o (toWeb \o frames) = (conn.pendingMessages \o toWeb) \o frames
      <4> DEFINE a == conn.pendingMessages
                 b == toWeb
      <4>1. a \in Seq(SentFrames) /\ b \in Seq(SentFrames) /\ frames \in Seq(SentFrames)
        BY <3>2
      <4> HIDE DEF a, b
      <4>2. a \o (b \o frames) = (a \o b) \o frames
        BY <4>1, ConcatAssociative
      <4> QED
        BY <4>2 DEF a, b
    <3> QED
      BY <3>1, <3>3 DEF Stream
  <2>3. Stream \in Seq(SentFrames)
    BY DEF Stream, StreamOK
  <2>4. AskedIn(Stream) \cap AskedIn(frames) = {}
    BY DEF StreamOK, Sends
  <2>5. /\ AskedIn(Stream') = AskedIn(Stream) \cup AskedIn(frames)
        /\ OpenIn(Stream') = (OpenIn(Stream) \ EndedIn(frames)) \cup OpenIn(frames)
        /\ AsksOnce(Stream')
    BY <2>2, <2>3, <2>4, ConcatOfStreams DEF StreamOK, Sends
  <2>6. toWeb' \in Seq(SentFrames) /\ EndedIn(toWeb') = EndedIn(toWeb) \cup EndedIn(frames)
    BY <2>1, ConcatOfStreams DEF StreamOK, Sends
  <2>7. AskedIn(Stream') \cap Fresh' = {}
    BY <2>5 DEF StreamOK, Sends
  <2>8. agent' = "running" => OpenIn(Stream') \subseteq PendingPrompts'
    BY <1>1, <2>5, OpenIsAsked DEF StreamOK, Sends
  <2>9. conn'.pendingMessages \in Seq(SentFrames)
    BY DEF StreamOK
  <2>10. StreamOK'
    BY <2>5, <2>6, <2>7, <2>8, <2>9 DEF StreamOK
  <2>11. Shown \cap (Fresh' \cup AskedIn(Stream')) = {}
    BY <2>5 DEF ScreenOK, Sends
  <2>12. agent' = "running" => Shown \subseteq PendingPrompts' \cup EndedIn(toWeb')
    BY <1>1, <2>6 DEF ScreenOK, Sends
  <2> QED
    BY <1>0, <2>10, <2>11, <2>12 DEF ScreenOK
<1>2. CASE link # "open"
  <2>1. UNCHANGED toWeb /\ UNCHANGED Stream
    BY <1>0, <1>2 DEF Broadcast, Stream
  <2>2. Fresh' \subseteq Fresh
    BY DEF Sends
  <2>3. StreamOK'
    BY <1>0, <1>2, <2>1, <2>2 DEF StreamOK
  <2> QED
    BY <1>0, <1>2, <2>1, <2>2, <2>3 DEF ScreenOK
<1> QED
  BY <1>1, <1>2

\* A stream that is lost with its socket.
LEMMA CutStream ==
    ASSUME StreamOK, ScreenOK, toWeb' = <<>>, link' # "open",
           UNCHANGED <<prompt, conn, session>>
    PROVE  StreamOK' /\ ScreenOK'
<1>0. UNCHANGED Shown /\ UNCHANGED Fresh /\ UNCHANGED conn.pendingMessages
  BY DEF Shown, Fresh
<1>1. Stream' = conn.pendingMessages
  BY DEF Stream, StreamOK
<1>2. /\ AskedIn(Stream) = AskedIn(conn.pendingMessages) \cup AskedIn(toWeb)
      /\ AsksOnce(Stream) => AsksOnce(conn.pendingMessages)
  BY ConcatOfStreams DEF Stream, StreamOK
<1>3. <<>> \in Seq(SentFrames)
  OBVIOUS
<1>4. StreamOK'
  BY <1>0, <1>1, <1>2, <1>3 DEF StreamOK
<1>5. ScreenOK'
  BY <1>0, <1>1, <1>2 DEF ScreenOK
<1> QED
  BY <1>4, <1>5

\* What single frames ask and end.
LEMMA QuietFrame ==
    ASSUME NEW type \in {"session_info", "replay_start", "replay_end", "session_ended", "line"}
    PROVE  /\ <<Frame(type)>> \in Seq(SentFrames)
           /\ AskedIn(<<Frame(type)>>) = {} /\ EndedIn(<<Frame(type)>>) = {}
           /\ AsksOnce(<<Frame(type)>>)
<1> DEFINE q == <<Frame(type)>>
<1>1. Frame(type) \in SentFrames /\ Frame(type).type = type
  BY DEF Frame, SentFrames, Frames
<1>2. q \in Seq(SentFrames) /\ DOMAIN q = {1} /\ q[1] = Frame(type)
  BY <1>1
<1> HIDE DEF q
<1>3. \A i \in DOMAIN q : q[i].type # "prompt_request" /\ q[i].type \notin Endings
  BY <1>1, <1>2 DEF Endings
<1>4. EndedIn(q) = {}
  BY <1>3 DEF EndedIn, EndingOf
<1> QED
  BY <1>2, <1>3, <1>4, QuietStream DEF q

LEMMA RequestFrame ==
    ASSUME NEW p \in Prompts
    PROVE  LET q == <<About("prompt_request", p)>> IN
           q \in Seq(SentFrames) /\ AskedIn(q) = {p} /\ AsksOnce(q)
<1> DEFINE f == About("prompt_request", p)
           q == <<f>>
<1>1. f \in SentFrames /\ f.type = "prompt_request" /\ f.prompt = p
  BY DEF About, SentFrames, Frames
<1> HIDE DEF f
<1>2. q \in Seq(SentFrames) /\ DOMAIN q = {1} /\ q[1] = f
  BY <1>1
<1> HIDE DEF q
<1>3. AskedIn(q) = {p} /\ AsksOnce(q)
  BY <1>1, <1>2 DEF AskedIn, AsksOnce, RequestOf
<1> QED
  BY <1>2, <1>3 DEF q, f

LEMMA EndingFrame ==
    ASSUME NEW type \in Endings, NEW p \in Prompts
    PROVE  LET q == <<About(type, p)>> IN
           q \in Seq(SentFrames) /\ AskedIn(q) = {} /\ EndedIn(q) = {p} /\ AsksOnce(q)
<1> DEFINE f == About(type, p)
           q == <<f>>
<1>1. f \in SentFrames /\ f.type \in Endings /\ f.prompt = p /\ f.type # "prompt_request"
  BY DEF About, SentFrames, Frames, Endings
<1> HIDE DEF f
<1>2. q \in Seq(SentFrames) /\ DOMAIN q = {1} /\ q[1] = f
  BY <1>1
<1> HIDE DEF q
<1>3. EndedIn(q) = {p}
  BY <1>1, <1>2 DEF EndedIn, EndingOf
<1>4. \A i \in DOMAIN q : q[i].type # "prompt_request"
  BY <1>1, <1>2
<1> QED
  BY <1>2, <1>3, <1>4, QuietStream DEF q, f

\* The endings of all that is pending, in some order.
LEMMA EndingsOfPending ==
    ASSUME IsFiniteSet(PendingPrompts)
    PROVE  LET q == [i \in 1 .. Cardinality(PendingPrompts) |->
                        About("prompt_cancelled", SetToSeq(PendingPrompts)[i])] IN
           q \in Seq(SentFrames) /\ AskedIn(q) = {} /\ EndedIn(q) = PendingPrompts
           /\ AsksOnce(q)
<1> DEFINE n == Cardinality(PendingPrompts)
           order == SetToSeq(PendingPrompts)
           q == [i \in 1 .. n |-> About("prompt_cancelled", order[i])]
<1>1. n \in Nat
  BY FS_CardinalityType
<1>2. Bijection(1 .. n, PendingPrompts) # {}
  <2>1. IsFiniteSet(1 .. n) /\ Cardinality(1 .. n) = n
    BY <1>1, FS_Interval
  <2> QED
    BY <2>1, FS_SameCardinalityBij DEF ExistsBijection
<1>3. order \in [1 .. n -> PendingPrompts] /\ IsInjective(order)
  <2>1. \E f \in [1 .. n -> PendingPrompts] : IsInjective(f)
    BY <1>2 DEF Bijection, Injection
  <2> QED
    BY <2>1 DEF SetToSeq
<1>4. order \in Surjection(1 .. n, PendingPrompts)
  <2>1. order \in Injection(1 .. n, PendingPrompts)
    BY <1>3 DEF Injection
  <2>2. Cardinality(1 .. n) = n
    BY <1>1, FS_Interval
  <2> QED
    BY <2>1, <2>2, FS_Injection
<1> HIDE DEF order, n
<1>5. \A p \in PendingPrompts : p \in Prompts /\ \E i \in 1 .. n : order[i] = p
  BY <1>4 DEF Surjection, PendingPrompts
<1>6. \A i \in 1 .. n :
         /\ About("prompt_cancelled", order[i]) \in SentFrames
         /\ About("prompt_cancelled", order[i]).type = "prompt_cancelled"
         /\ About("prompt_cancelled", order[i]).prompt = order[i]
         /\ order[i] \in PendingPrompts
  BY <1>3, <1>5 DEF About, SentFrames, Frames, Endings
<1>7. q \in Seq(SentFrames) /\ DOMAIN q = 1 .. n
  BY <1>1, <1>6
<1>8. \A i \in DOMAIN q : q[i].type = "prompt_cancelled" /\ q[i].prompt = order[i]
  BY <1>6, <1>7
<1> HIDE DEF q
<1>9. EndedIn(q) = PendingPrompts
  BY <1>5, <1>6, <1>7, <1>8 DEF EndedIn, EndingOf, Endings
<1>10. AskedIn(q) = {} /\ AsksOnce(q)
  BY <1>7, <1>8, QuietStream
<1> QED
  BY <1>7, <1>9, <1>10 DEF q, n, order

LEMMA SentTyped ==
    Seq(SentFrames) \subseteq Seq(Frames)
<1>1. SentFrames \subseteq Frames
  BY DEF SentFrames
<1> QED
  BY <1>1, SeqMonotonic

-----------------------------------------------------------------------------
(* The steps of the agent.                                                 *)

\* A step of the agent that sends frames, and stores them or ends the session.
LEMMA AgentStep ==
    ASSUME Inv, NEW frames, Sends(frames), Broadcast(frames),
           \/ history' = Trimmed(history \o frames)
           \/ UNCHANGED history /\ agent' # "running",
           prompt' \in [Prompts -> {"new", "pending"} \cup Settlements],
           agent' \in {"running", "destroyed"} \/ agent' = agent,
           lines' \in 0 .. MaxLines,
           toAgent' \in Seq(Responses),
           IsFiniteSet(PendingPrompts'),
           UNCHANGED <<pty, infoFile, link, conn, session, failures>>
    PROVE  Inv'
<1> USE DEF Inv
<1>1. HistoryOK' /\ Len(history') <= MaxHistory
  <2>1. CASE history' = Trimmed(history \o frames)
    BY <2>1, EmittedHistory
  <2>2. CASE UNCHANGED history /\ agent' # "running"
    <3>1. Fresh' \subseteq Fresh
      BY DEF Sends
    <3> QED
      BY <2>2, <3>1, SilentHistory DEF TypeOK
  <2> QED
    BY <2>1, <2>2
<1>2. StreamOK' /\ ScreenOK'
  BY BroadcastStream
<1>3. Connections'
  <2>1. link # "open" => toWeb' = toWeb
    BY DEF Broadcast
  <2>2. agent' = "gone" => agent = "gone"
    OBVIOUS
  <2> QED
    BY <2>1, <2>2 DEF Connections
<1>4. FewPending'
  BY DEF FewPending
<1>5. TypeOK'
  <2>1. history' \in Seq(Frames) /\ toWeb' \in Seq(Frames)
    BY <1>1, <1>2, SentTyped DEF HistoryOK, StreamOK
  <2>2. agent' \in {"running", "destroyed", "gone"}
    BY DEF TypeOK
  <2> QED
    BY <1>1, <2>1, <2>2 DEF TypeOK
<1> QED
  BY <1>1, <1>2, <1>3, <1>4, <1>5

\* What becomes of the prompts when one of them changes.
LEMMA PromptChange ==
    ASSUME TypeOK, NEW p \in Prompts, NEW how \in {"pending"} \cup Settlements,
           prompt' = [prompt EXCEPT ![p] = how]
    PROVE  /\ prompt' \in [Prompts -> {"new", "pending"} \cup Settlements]
           /\ Fresh' = Fresh \ {p}
           /\ how = "pending" => PendingPrompts' = PendingPrompts \cup {p}
           /\ how # "pending" => PendingPrompts' = PendingPrompts \ {p}
<1>1. prompt' \in [Prompts -> {"new", "pending"} \cup Settlements]
  BY DEF TypeOK
<1>2. how # "new"
  BY SessionsAssumption DEF Settlements
<1>3. \A q \in Prompts : prompt'[q] = IF q = p THEN how ELSE prompt[q]
  BY DEF TypeOK
<1>4. Fresh' = Fresh \ {p}
  BY <1>2, <1>3 DEF Fresh
<1>5. how = "pending" => PendingPrompts' = PendingPrompts \cup {p}
  BY <1>3 DEF PendingPrompts
<1>6. how # "pending" => PendingPrompts' = PendingPrompts \ {p}
  BY <1>3 DEF PendingPrompts
<1> QED
  BY <1>1, <1>4, <1>5, <1>6

LEMMA PromptsCancelled ==
    ASSUME TypeOK, CancelAll
    PROVE  /\ prompt' \in [Prompts -> {"new", "pending"} \cup Settlements]
           /\ Fresh' = Fresh /\ PendingPrompts' = {}
<1>1. prompt' = [p \in Prompts |-> IF prompt[p] = "pending" THEN "cancelled" ELSE prompt[p]]
  BY DEF CancelAll
<1>2. \A p \in Prompts : prompt[p] \in {"new", "pending"} \cup Settlements
  BY DEF TypeOK
<1>3. prompt' \in [Prompts -> {"new", "pending"} \cup Settlements]
  BY <1>1, <1>2 DEF Settlements
<1>4. Fresh' = Fresh /\ PendingPrompts' = {}
  BY <1>1 DEF Fresh, PendingPrompts
<1> QED
  BY <1>3, <1>4

LEMMA WriteLineStep == ASSUME Inv, WriteLine PROVE Inv'
<1> DEFINE frames == <<Frame("line")>>
<1>1. UNCHANGED Fresh /\ UNCHANGED PendingPrompts
  BY DEF WriteLine, Fresh, PendingPrompts
<1>2. /\ frames \in Seq(SentFrames) /\ AskedIn(frames) = {} /\ EndedIn(frames) = {}
      /\ AsksOnce(frames)
  BY QuietFrame
<1>3. Broadcast(frames) /\ history' = Trimmed(history \o frames)
  BY DEF WriteLine, Emit
<1> HIDE DEF frames
<1>4. Sends(frames)
  BY <1>1, <1>2 DEF Sends, WriteLine
<1>5. lines' \in 0 .. MaxLines
  BY SessionsAssumption DEF Inv, TypeOK, WriteLine
<1> QED
  BY <1>1, <1>3, <1>4, <1>5, AgentStep DEF Inv, TypeOK, FewPending, WriteLine, webVars

LEMMA AskStep == ASSUME Inv, NEW p \in Prompts, Ask(p) PROVE Inv'
<1> DEFINE frames == <<About("prompt_request", p)>>
<1>1. /\ prompt' \in [Prompts -> {"new", "pending"} \cup Settlements]
      /\ Fresh' = Fresh \ {p} /\ PendingPrompts' = PendingPrompts \cup {p}
  BY PromptChange DEF Inv, Ask
<1>2. frames \in Seq(SentFrames) /\ AskedIn(frames) = {p} /\ AsksOnce(frames)
  BY RequestFrame
<1>3. Broadcast(frames) /\ history' = Trimmed(history \o frames)
  BY DEF Ask, Emit
<1>4. p \in Fresh
  BY DEF Ask, Fresh
<1> HIDE DEF frames
<1>5. Sends(frames)
  BY <1>1, <1>2, <1>4 DEF Sends, Ask
<1>6. IsFiniteSet(PendingPrompts')
  BY <1>1, FS_AddElement DEF Inv, FewPending
<1> QED
  BY <1>1, <1>3, <1>5, <1>6, AgentStep DEF Inv, TypeOK, FewPending, Ask, webVars

\* A prompt that is settled, and the frame that says so.
LEMMA Settled ==
    ASSUME Inv, NEW p \in Prompts, NEW how \in Settlements, NEW type \in Endings,
           prompt' = [prompt EXCEPT ![p] = how], prompt[p] = "pending", UNCHANGED agent
    PROVE  /\ Sends(<<About(type, p)>>)
           /\ prompt' \in [Prompts -> {"new", "pending"} \cup Settlements]
           /\ IsFiniteSet(PendingPrompts')
<1> DEFINE frames == <<About(type, p)>>
<1>1. /\ prompt' \in [Prompts -> {"new", "pending"} \cup Settlements]
      /\ Fresh' = Fresh \ {p} /\ PendingPrompts' = PendingPrompts \ {p}
  <2>1. TypeOK /\ how # "pending" /\ how \in {"pending"} \cup Settlements
    BY SessionsAssumption DEF Settlements, Inv
  <2> QED
    BY <2>1, PromptChange
<1>2. /\ frames \in Seq(SentFrames) /\ AskedIn(frames) = {} /\ EndedIn(frames) = {p}
      /\ AsksOnce(frames)
  BY EndingFrame
<1> HIDE DEF frames
<1>3. Sends(frames)
  BY <1>1, <1>2 DEF Sends
<1>4. IsFiniteSet(PendingPrompts')
  BY <1>1, FS_Subset DEF Inv, FewPending
<1> QED
  BY <1>1, <1>3, <1>4 DEF frames

LEMMA AnswerStep == ASSUME Inv, NEW p \in Prompts, AnswerAtTerminal(p) PROVE Inv'
<1>1. PICK how \in Settlements, type \in Endings :
         prompt' = [prompt EXCEPT ![p] = how] /\ Emit(<<About(type, p)>>)
  BY DEF AnswerAtTerminal, Settlements, Endings
<1>2. /\ Sends(<<About(type, p)>>)
      /\ prompt' \in [Prompts -> {"new", "pending"} \cup Settlements]
      /\ IsFiniteSet(PendingPrompts')
  BY <1>1, Settled DEF AnswerAtTerminal
<1> DEFINE frames == <<About(type, p)>>
<1>3. Sends(frames) /\ Broadcast(frames) /\ history' = Trimmed(history \o frames)
  BY <1>1, <1>2 DEF Emit
<1> HIDE DEF frames
<1> QED
  BY <1>2, <1>3, AgentStep DEF Inv, TypeOK, FewPending, AnswerAtTerminal, webVars

\* What is handled next, and what is left on its way to the agent.
LEMMA MessagesLeft ==
    ASSUME Inv, toAgent # <<>>
    PROVE  /\ Head(toAgent) \in Responses /\ Tail(toAgent) \in Seq(Responses)
           /\ Head(toAgent).type = "prompt_response" =>
                 Head(toAgent).prompt \in Prompts /\ Head(toAgent).value \in Values
<1>1. Head(toAgent) \in Responses /\ Tail(toAgent) \in Seq(Responses)
  BY DEF Inv, TypeOK
<1> QED
  BY <1>1 DEF Responses

LEMMA ReceiveResponseStep == ASSUME Inv, ReceiveResponse PROVE Inv'
<1> DEFINE p == Head(toAgent).prompt
           v == Head(toAgent).value
<1>1. p \in Prompts /\ v \in Values /\ toAgent' \in Seq(Responses)
  BY MessagesLeft DEF ReceiveResponse, Arrived
<1>2. CASE prompt[p] = "pending"
  <2> DEFINE frames == <<About("prompt_answered", p)>>
  <2>1. prompt' = [prompt EXCEPT ![p] = v] /\ Emit(frames)
    BY <1>2 DEF ReceiveResponse
  <2>2. v \in Settlements /\ "prompt_answered" \in Endings
    BY <1>1 DEF Settlements, Endings
  <2>3. UNCHANGED agent
    BY DEF ReceiveResponse
  <2> HIDE DEF p, v
  <2>4. /\ Sends(frames)
        /\ prompt' \in [Prompts -> {"new", "pending"} \cup Settlements]
        /\ IsFiniteSet(PendingPrompts')
    BY <1>1, <1>2, <2>1, <2>2, <2>3, Settled
  <2>5. Broadcast(frames) /\ history' = Trimmed(history \o frames)
    BY <2>1 DEF Emit
  <2> HIDE DEF frames
  <2> QED
    BY <1>1, <2>4, <2>5, AgentStep DEF Inv, TypeOK, ReceiveResponse, webVars
<1>3. CASE prompt[p] # "pending"
  <2>1. UNCHANGED <<agent, pty, infoFile, prompt, history, lines, link, toWeb, conn, session,
                    failures>>
    BY <1>3 DEF ReceiveResponse, webVars
  <2>2. /\ UNCHANGED Fresh /\ UNCHANGED PendingPrompts /\ UNCHANGED Shown
        /\ UNCHANGED Stream
    BY <2>1 DEF Fresh, PendingPrompts, Shown, Stream
  <2>3. TypeOK'
    BY <1>1, <2>1 DEF Inv, TypeOK
  <2>4. Connections'
    BY <2>1 DEF Inv, Connections
  <2>5. FewPending'
    BY <2>2 DEF Inv, FewPending
  <2>6. HistoryOK' /\ StreamOK' /\ ScreenOK'
    BY <2>1, <2>2 DEF Inv, HistoryOK, StreamOK, ScreenOK
  <2> QED
    BY <2>3, <2>4, <2>5, <2>6 DEF Inv
<1> QED
  BY <1>2, <1>3

LEMMA ReceiveEndStep == ASSUME Inv, ReceiveEnd PROVE Inv'
<1>1. toAgent' \in Seq(Responses)
  BY MessagesLeft DEF ReceiveEnd, Arrived
<1>2. /\ prompt' \in [Prompts -> {"new", "pending"} \cup Settlements]
      /\ Fresh' = Fresh /\ PendingPrompts' = {}
  BY PromptsCancelled DEF Inv, ReceiveEnd
<1>3. IsFiniteSet(PendingPrompts')
  BY <1>2, FS_EmptySet
<1>4. CASE UNCHANGED agent /\ Emit([i \in 1 .. Cardinality(PendingPrompts) |->
                     About("prompt_cancelled", SetToSeq(PendingPrompts)[i])])
  <2> DEFINE frames == [i \in 1 .. Cardinality(PendingPrompts) |->
                     About("prompt_cancelled", SetToSeq(PendingPrompts)[i])]
  <2>1. /\ frames \in Seq(SentFrames) /\ AskedIn(frames) = {}
        /\ EndedIn(frames) = PendingPrompts /\ AsksOnce(frames)
    BY EndingsOfPending DEF Inv, FewPending
  <2>2. Broadcast(frames) /\ history' = Trimmed(history \o frames) /\ UNCHANGED agent
    BY <1>4 DEF Emit
  <2> HIDE DEF frames
  <2>3. Sends(frames)
    BY <1>2, <2>1, <2>2 DEF Sends
  <2> QED
    BY <1>1, <1>2, <1>3, <2>2, <2>3, AgentStep DEF Inv, TypeOK, ReceiveEnd, webVars
<1>5. CASE agent' = "destroyed" /\ Broadcast(<<Frame("session_ended")>>) /\ UNCHANGED history
  <2> DEFINE frames == <<Frame("session_ended")>>
  <2>1. frames \in Seq(SentFrames) /\ AskedIn(frames) = {} /\ AsksOnce(frames)
    BY QuietFrame
  <2>2. Broadcast(frames)
    BY <1>5
  <2> HIDE DEF frames
  <2>3. Sends(frames)
    BY <1>2, <1>5, <2>1 DEF Sends
  <2> QED
    BY <1>1, <1>2, <1>3, <1>5, <2>2, <2>3, AgentStep DEF Inv, TypeOK, ReceiveEnd, webVars
<1> QED
  BY <1>4, <1>5 DEF ReceiveEnd

LEMMA DestroyStep == ASSUME Inv, Destroy PROVE Inv'
<1>1. /\ prompt' \in [Prompts -> {"new", "pending"} \cup Settlements]
      /\ Fresh' = Fresh /\ PendingPrompts' = {}
  BY PromptsCancelled DEF Inv, Destroy
<1>2. IsFiniteSet(PendingPrompts')
  BY <1>1, FS_EmptySet
<1> DEFINE frames == <<Frame("session_ended")>>
<1>3. frames \in Seq(SentFrames) /\ AskedIn(frames) = {} /\ AsksOnce(frames)
  BY QuietFrame
<1>4. Broadcast(frames)
  BY DEF Destroy
<1> HIDE DEF frames
<1>5. Sends(frames)
  BY <1>1, <1>3 DEF Sends, Destroy
<1> QED
  BY <1>1, <1>2, <1>4, <1>5, AgentStep DEF Inv, TypeOK, FewPending, Destroy, webVars

\* The end of the process, or of the socket alone.
LEMMA SocketEnds ==
    ASSUME Inv, LoseSocket, agent' \in {agent, "gone"}, infoFile' \in BOOLEAN,
           toAgent' \in Seq(Responses), failures' \in 0 .. MaxFailures,
           UNCHANGED <<pty, prompt, history, lines, conn, session>>
    PROVE  Inv'
<1>1. link' \in {"down", "closing"} /\ (link' = "down" <=> link = "down")
  BY DEF LoseSocket, Inv, TypeOK
<1>2. toWeb' = <<>>
  BY DEF LoseSocket
<1>3. UNCHANGED Fresh /\ UNCHANGED PendingPrompts
  BY DEF Fresh, PendingPrompts
<1>4. HistoryOK'
  BY <1>3, SilentHistory DEF Inv
<1>5. StreamOK' /\ ScreenOK'
  BY <1>1, <1>2, CutStream DEF Inv
<1>6. Connections'
  BY <1>1, <1>2 DEF Inv, Connections
<1>7. <<>> \in Seq(Frames)
  OBVIOUS
<1>8. FewPending'
  BY <1>3 DEF Inv, FewPending
<1>9. TypeOK'
  BY <1>1, <1>2, <1>7 DEF Inv, TypeOK
<1> QED
  BY <1>4, <1>5, <1>6, <1>8, <1>9 DEF Inv

\* Of the messages to the agent, the first ones arrive.
LEMMA Arriving == ASSUME Inv, SomeArrives PROVE toAgent' \in Seq(Responses)
<1>1. toAgent \in Seq(Responses)
  BY DEF Inv, TypeOK
<1>2. PICK n \in 0 .. Len(toAgent) : toAgent' = SubSeq(toAgent, 1, n)
  BY DEF SomeArrives
<1> QED
  BY <1>1, <1>2

LEMMA StopStep == ASSUME Inv, Stop PROVE Inv'
<1>1. toAgent' \in Seq(Responses) /\ LoseSocket /\ agent' = "gone"
  BY DEF Stop, AgentEnds
<1> QED
  BY <1>1, SocketEnds DEF Stop, webVars, Inv, TypeOK

LEMMA CrashStep == ASSUME Inv, Crash PROVE Inv'
<1>1. toAgent' \in Seq(Responses) /\ LoseSocket /\ agent' = "gone"
  BY DEF Crash, AgentEnds
<1>2. failures' \in 0 .. MaxFailures
  BY SessionsAssumption DEF Crash, Inv, TypeOK
<1> QED
  BY <1>1, <1>2, SocketEnds DEF Crash, webVars, Inv, TypeOK

LEMMA BreakStep == ASSUME Inv, Break PROVE Inv'
<1>1. failures' \in 0 .. MaxFailures
  BY SessionsAssumption DEF Break, Inv, TypeOK
<1>2. toAgent' \in Seq(Responses) /\ LoseSocket
  BY Arriving DEF Break
<1> QED
  BY <1>1, <1>2, SocketEnds DEF Break, agentVars, webVars, Inv, TypeOK

-----------------------------------------------------------------------------
(* The steps of the web process.                                           *)

\* A step that leaves the agent alone.
LEMMA WebStep ==
    ASSUME Inv, UNCHANGED <<agent, pty, prompt, history, lines>>, infoFile' \in BOOLEAN,
           link' \in {"down", "open", "closing"}, toAgent' \in Seq(Responses),
           conn' \in TrackedConnections, session' \in SessionData,
           failures' \in 0 .. MaxFailures, Connections', StreamOK', ScreenOK'
    PROVE  Inv'
<1>1. UNCHANGED Fresh /\ UNCHANGED PendingPrompts
  BY DEF Fresh, PendingPrompts
<1>2. HistoryOK'
  BY <1>1, SilentHistory DEF Inv
<1>3. FewPending'
  BY <1>1 DEF Inv, FewPending
<1>4. toWeb' \in Seq(Frames)
  BY SentTyped DEF StreamOK
<1>5. TypeOK'
  BY <1>4 DEF Inv, TypeOK
<1> QED
  BY <1>2, <1>3, <1>5 DEF Inv

\* Nothing is shown when the lists are empty.
LEMMA NothingShown ==
    ASSUME session' \in SessionData, session'.activePrompts = <<>>, session'.deferred = <<>>
    PROVE  Shown' = {} /\ OnceIn(session')
<1>1. Range(<<>>) = {}
  BY DEF Range
<1>2. <<>> \o <<>> = <<>> /\ DOMAIN <<>> = {}
  OBVIOUS
<1> QED
  BY <1>1, <1>2 DEF Shown, OnceIn, IsInjective

\* A step after which there is no connection and nothing to show.
LEMMA Emptied ==
    ASSUME Inv, UNCHANGED <<agent, pty, prompt, history, lines>>, infoFile' \in BOOLEAN,
           link' = "down", toWeb' = <<>>, toAgent' \in Seq(Responses),
           conn' \in TrackedConnections, conn'.pendingMessages = <<>>, ~conn'.registered,
           session' \in SessionData, session'.activePrompts = <<>>,
           session'.deferred = <<>>, failures' \in 0 .. MaxFailures
    PROVE  Inv'
<1>1. /\ <<>> \in Seq(SentFrames)
      /\ <<>> \o <<>> = <<>> /\ DOMAIN <<>> = {}
  OBVIOUS
<1>2. Stream' = <<>>
  BY <1>1 DEF Stream
<1>3. AskedIn(<<>>) = {} /\ AsksOnce(<<>>)
  BY <1>1 DEF AskedIn, AsksOnce
<1>4. StreamOK'
  BY <1>1, <1>2, <1>3 DEF StreamOK
<1>5. ScreenOK'
  BY <1>2, <1>3, NothingShown DEF ScreenOK
<1>6. Connections'
  BY DEF Connections
<1> QED
  BY <1>1, <1>4, <1>5, <1>6, WebStep

LEMMA UntrackedType ==
    /\ Untracked \in TrackedConnections
    /\ Untracked.pendingMessages = <<>> /\ ~Untracked.registered /\ ~Untracked.tracked
<1>1. <<>> \in Seq(Frames)
  OBVIOUS
<1> QED
  BY <1>1 DEF Untracked, TrackedConnections

LEMMA DisconnectedType ==
    ASSUME NEW s \in SessionData
    PROVE  /\ Disconnected(s) \in SessionData
           /\ Disconnected(s).activePrompts = <<>> /\ Disconnected(s).deferred = <<>>
<1> DEFINE new == IF s.status = "none" THEN "none" ELSE "offline"
<1>1. new \in {"none", "offline"} /\ Disconnected(s) = [NoSession EXCEPT !.status = new]
  BY DEF Disconnected
<1>2. NoSession.activePrompts = <<>> /\ NoSession.deferred = <<>>
  BY DEF NoSession
<1> HIDE DEF new
<1> QED
  BY <1>1, <1>2, NoSessionType DEF SessionData

\* A session that is left behind by its connection shows nothing.
LEMMA LeftSession ==
    ASSUME Inv, session' = IF conn.registered THEN Disconnected(session) ELSE session
    PROVE  /\ session' \in SessionData
           /\ session'.activePrompts = <<>> /\ session'.deferred = <<>>
<1>1. session \in SessionData
  BY DEF Inv, TypeOK
<1>2. CASE conn.registered
  BY <1>1, <1>2, DisconnectedType
<1>3. CASE ~conn.registered
  BY <1>1, <1>3 DEF Inv, Connections
<1> QED
  BY <1>2, <1>3

LEMMA ForgetStep == ASSUME Inv, Forget PROVE Inv'
<1>1. session' = IF conn.registered THEN Disconnected(session) ELSE session
  BY DEF Forget, Dispose
<1> QED
  BY <1>1, LeftSession, UntrackedType, Emptied DEF Forget, Dispose, Inv, TypeOK

LEMMA RestartWebStep == ASSUME Inv, RestartWeb PROVE Inv'
<1>1. failures' \in 0 .. MaxFailures
  BY SessionsAssumption DEF RestartWeb, Inv, TypeOK
<1>2. NoSession.activePrompts = <<>> /\ NoSession.deferred = <<>>
  BY DEF NoSession
<1>3. toAgent' \in Seq(Responses)
  BY Arriving DEF RestartWeb
<1> QED
  BY <1>1, <1>2, <1>3, NoSessionType, UntrackedType, Emptied
     DEF RestartWeb, agentVars, Inv, TypeOK

LEMMA NoticeCloseStep == ASSUME Inv, NoticeClose PROVE Inv'
<1>1. session' = IF conn.registered THEN Disconnected(session) ELSE session
  BY DEF NoticeClose
<1>2. toWeb' = <<>> /\ toAgent' \in Seq(Responses) /\ link' = "down"
  BY DEF NoticeClose, Inv, Connections, TypeOK
<1>3. conn \in TrackedConnections
  BY DEF Inv, TypeOK
<1>4. <<>> \in Seq(Frames)
  OBVIOUS
<1>5. conn' = [conn EXCEPT !.registered = FALSE, !.pendingMessages = <<>>,
                           !.isReconnect = TRUE]
  BY DEF NoticeClose, Closed
<1>6. conn' \in TrackedConnections /\ conn'.pendingMessages = <<>> /\ ~conn'.registered
  BY <1>3, <1>4, <1>5 DEF TrackedConnections
<1> QED
  BY <1>1, <1>2, <1>6, LeftSession, Emptied DEF NoticeClose, agentVars, Inv, TypeOK

\* A replay asks and leaves open what the history does.
LEMMA ReplayStream ==
    ASSUME HistoryOK
    PROVE  /\ Replay \in Seq(SentFrames) /\ AsksOnce(Replay)
           /\ AskedIn(Replay) \subseteq AskedIn(history)
           /\ OpenIn(Replay) \subseteq OpenIn(history)
<1> DEFINE info == <<Frame("session_info")>>
           start == <<Frame("replay_start")>>
           end == <<Frame("replay_end")>>
           front == info \o start
           body == front \o history
<1>1. /\ info \in Seq(SentFrames) /\ start \in Seq(SentFrames) /\ end \in Seq(SentFrames)
      /\ AskedIn(info) = {} /\ AskedIn(start) = {} /\ AskedIn(end) = {}
      /\ EndedIn(end) = {}
      /\ AsksOnce(info) /\ AsksOnce(start) /\ AsksOnce(end)
  BY QuietFrame
<1>2. OpenIn(info) = {} /\ OpenIn(start) = {} /\ OpenIn(end) = {}
  BY <1>1, OpenIsAsked
<1>3. front = <<Frame("session_info"), Frame("replay_start")>>
  <2>1. Frame("session_info") \in SentFrames /\ Frame("replay_start") \in SentFrames
    BY DEF Frame, SentFrames, Frames
  <2> QED
    BY <2>1, TwoElements
<1> HIDE DEF info, start, end
<1>4. /\ front \in Seq(SentFrames) /\ AskedIn(front) = {} /\ OpenIn(front) = {}
      /\ AsksOnce(front)
  BY <1>1, <1>2, ConcatOfStreams
<1> HIDE DEF front
<1>5. /\ body \in Seq(SentFrames) /\ AskedIn(body) = AskedIn(history)
      /\ OpenIn(body) = OpenIn(history) /\ AsksOnce(body)
  <2>1. history \in Seq(SentFrames) /\ AsksOnce(history)
    BY DEF HistoryOK
  <2>2. /\ body \in Seq(SentFrames)
        /\ AskedIn(body) = AskedIn(front) \cup AskedIn(history)
        /\ OpenIn(body) = (OpenIn(front) \ EndedIn(history)) \cup OpenIn(history)
    BY <1>4, <2>1, ConcatOfStreams
  <2>3. AsksOnce(body)
    BY <1>4, <2>1, ConcatOfStreams
  <2> QED
    BY <1>4, <2>2, <2>3
<1> HIDE DEF body
<1>6. /\ body \o end \in Seq(SentFrames) /\ AskedIn(body \o end) = AskedIn(history)
      /\ OpenIn(body \o end) = OpenIn(history) /\ AsksOnce(body \o end)
  <2>1. /\ body \o end \in Seq(SentFrames)
        /\ AskedIn(body \o end) = AskedIn(body) \cup AskedIn(end)
        /\ OpenIn(body \o end) = (OpenIn(body) \ EndedIn(end)) \cup OpenIn(end)
    BY <1>1, <1>5, ConcatOfStreams
  <2>2. AsksOnce(body \o end)
    BY <1>1, <1>5, ConcatOfStreams
  <2> QED
    BY <1>1, <1>2, <1>5, <2>1, <2>2
<1>7. Replay = IF pty THEN info ELSE body \o end
  BY <1>3 DEF Replay, info, end, body
<1> QED
  BY <1>1, <1>2, <1>6, <1>7

\* A new socket brings a replay, and nothing is shown of the agent before it.
LEMMA Opened ==
    ASSUME Inv, OpenSocket, link = "down", agent # "gone", conn' \in TrackedConnections,
           conn'.tracked, ~conn'.registered, conn'.pendingMessages = <<>>,
           UNCHANGED <<agent, pty, infoFile, prompt, history, lines, session, failures>>
    PROVE  Inv'
<1>1. UNCHANGED Fresh /\ UNCHANGED PendingPrompts
  BY DEF Fresh, PendingPrompts
<1>2. link' = "open" /\ toWeb' = Replay /\ toAgent' \in Seq(Responses)
  BY DEF OpenSocket, Inv, TypeOK
<1>3. /\ Replay \in Seq(SentFrames) /\ AsksOnce(Replay)
      /\ AskedIn(Replay) \subseteq AskedIn(history)
      /\ OpenIn(Replay) \subseteq OpenIn(history)
  BY ReplayStream DEF Inv
<1>4. <<>> \in Seq(SentFrames)
  OBVIOUS
<1>5. Stream' = Replay
  <2> DEFINE R == Replay
  <2>1. R \in Seq(SentFrames) /\ Stream' = <<>> \o R
    BY <1>2, <1>3 DEF Stream
  <2> HIDE DEF R
  <2>2. <<>> \o R = R
    BY <2>1
  <2> QED
    BY <2>1, <2>2 DEF R
<1>6. session'.activePrompts = <<>> /\ session'.deferred = <<>> /\ session' \in SessionData
  BY DEF Inv, Connections, TypeOK
<1>7. StreamOK'
  BY <1>1, <1>2, <1>3, <1>4, <1>5 DEF Inv, HistoryOK, StreamOK
<1>8. ScreenOK'
  BY <1>6, NothingShown DEF ScreenOK
<1>9. Connections'
  BY <1>2, <1>6 DEF Connections
<1> QED
  BY <1>2, <1>4, <1>6, <1>7, <1>8, <1>9, WebStep DEF Inv, TypeOK

LEMMA DiscoverStep == ASSUME Inv, Discover PROVE Inv'
<1>1. link = "down"
  BY DEF Inv, Connections, Discover
<1>2. conn' = [Untracked EXCEPT !.tracked = TRUE, !.isReconnect = (session.status = "offline")]
  BY DEF Discover
<1>3. /\ conn' \in TrackedConnections /\ conn'.tracked /\ ~conn'.registered
      /\ conn'.pendingMessages = <<>>
  BY <1>2, UntrackedType DEF TrackedConnections
<1> QED
  BY <1>1, <1>3, Opened DEF Discover, agentVars

LEMMA ReconnectStep == ASSUME Inv, Reconnect PROVE Inv'
<1>1. conn' = conn
  BY DEF Reconnect, webVars
<1>2. /\ conn' \in TrackedConnections /\ conn'.tracked /\ ~conn'.registered
      /\ conn'.pendingMessages = <<>>
  BY <1>1 DEF Inv, TypeOK, Connections, Reconnect
<1> QED
  BY <1>2, Opened DEF Reconnect, agentVars, webVars

LEMMA DismissStep == ASSUME Inv, Dismiss PROVE Inv'
<1>1. failures' \in 0 .. MaxFailures
  BY SessionsAssumption DEF Dismiss, Inv, TypeOK
<1>2. session' = NoSession
  BY DEF Dismiss
<1>3. session' \in SessionData /\ session'.activePrompts = <<>> /\ session'.deferred = <<>>
  BY <1>2, NoSessionType DEF NoSession
<1>4. UNCHANGED <<agent, pty, infoFile, prompt, history, lines, link, toWeb, toAgent, conn>>
  BY DEF Dismiss, agentVars
<1>5. UNCHANGED Fresh /\ UNCHANGED PendingPrompts /\ UNCHANGED Stream
  BY <1>4 DEF Fresh, PendingPrompts, Stream
<1>6. StreamOK'
  BY <1>4, <1>5 DEF Inv, StreamOK
<1>7. ScreenOK'
  BY <1>3, NothingShown DEF ScreenOK
<1>8. Connections'
  BY <1>3, <1>4 DEF Inv, Connections
<1> QED
  BY <1>1, <1>3, <1>4, <1>6, <1>7, <1>8, WebStep DEF Inv, TypeOK, FewPending

LEMMA EndSessionStep == ASSUME Inv, EndSession PROVE Inv'
<1>1. failures' \in 0 .. MaxFailures
  BY SessionsAssumption DEF EndSession, Inv, TypeOK
<1>2. toAgent' \in Seq(Responses)
  <2>1. [type |-> "end_session"] \in Responses
    BY DEF Responses
  <2> QED
    BY <2>1 DEF EndSession, Inv, TypeOK
<1>3. UNCHANGED <<agent, pty, infoFile, prompt, history, lines, link, toWeb, conn, session>>
  BY DEF EndSession, agentVars, webVars
<1>4. /\ UNCHANGED Fresh /\ UNCHANGED PendingPrompts /\ UNCHANGED Stream
      /\ UNCHANGED Shown
  BY <1>3 DEF Fresh, PendingPrompts, Stream, Shown
<1>5. StreamOK' /\ ScreenOK'
  BY <1>3, <1>4 DEF Inv, StreamOK, ScreenOK
<1>6. link = "open"
  BY DEF EndSession
<1>7. Connections'
  BY <1>3, <1>6 DEF Inv, Connections
<1> QED
  BY <1>1, <1>2, <1>3, <1>5, <1>7, WebStep DEF Inv, TypeOK

LEMMA RespondStep == ASSUME Inv, NEW p \in Prompts, Respond(p) PROVE Inv'
<1> DEFINE a == session.activePrompts
           d == session.deferred
<1>1. session \in SessionData /\ a \in Seq(Prompts) /\ d \in Seq(Prompts)
  BY DEF Inv, TypeOK, SessionData
<1>2. session' = [session EXCEPT !.activePrompts = Without(a, p)]
  BY DEF Respond
<1>3. /\ Without(a, p) \in Seq(Prompts) /\ Range(Without(a, p)) = Range(a) \ {p}
      /\ IsInjective(a) => IsInjective(Without(a, p))
  BY <1>1, WithoutLeaves
<1>4. /\ session' \in SessionData /\ session'.activePrompts = Without(a, p)
      /\ session'.deferred = d
  BY <1>1, <1>2, <1>3 DEF SessionData
<1>5. IsInjective(a) /\ IsInjective(d) /\ Range(a) \cap Range(d) = {}
  BY <1>1, InjectiveConcat DEF Inv, ScreenOK, OnceIn
<1>6. Shown' \subseteq Shown
  BY <1>3, <1>4 DEF Shown
<1>7. OnceIn(session')
  <2>1. Range(Without(a, p)) \cap Range(d) = {} /\ IsInjective(Without(a, p))
    BY <1>3, <1>5
  <2>2. IsInjective(Without(a, p) \o d)
    BY <1>1, <1>3, <1>5, <2>1, InjectiveConcat
  <2> QED
    BY <1>4, <2>2 DEF OnceIn
<1>8. UNCHANGED <<agent, pty, infoFile, prompt, history, lines, link, toWeb, conn, failures>>
  BY DEF Respond, agentVars
<1>9. UNCHANGED Fresh /\ UNCHANGED PendingPrompts /\ UNCHANGED Stream
  BY <1>8 DEF Fresh, PendingPrompts, Stream
<1>10. StreamOK'
  BY <1>8, <1>9 DEF Inv, StreamOK
<1>11. ScreenOK'
  BY <1>6, <1>7, <1>8, <1>9 DEF Inv, ScreenOK
<1>12. toAgent' \in Seq(Responses)
  <2>1. \A v \in Values : Response(p, v) \in Responses
    BY DEF Response, Responses
  <2>2. toAgent \in Seq(Responses)
    BY DEF Inv, TypeOK
  <2>3. UNCHANGED toAgent \/ \E v \in Values : toAgent' = Append(toAgent, Response(p, v))
    BY DEF Respond
  <2> QED
    BY <2>1, <2>2, <2>3
<1>13. Connections'
  BY <1>8, <1>12 DEF Inv, Connections, Respond
<1> QED
  BY <1>4, <1>8, <1>10, <1>11, <1>12, <1>13, WebStep DEF Inv, TypeOK

-----------------------------------------------------------------------------
(* The delivery of a frame.                                                *)

LEMMA OneFrame ==
    ASSUME NEW f \in SentFrames
    PROVE  /\ <<f>> \in Seq(SentFrames)
           /\ AskedIn(<<f>>) = {p \in Prompts : RequestOf(f, p)}
           /\ OpenIn(<<f>>) = {p \in Prompts : RequestOf(f, p)}
           /\ EndedIn(<<f>>) = {p \in Prompts : EndingOf(f, p)}
<1> DEFINE q == <<f>>
<1>1. q \in Seq(SentFrames) /\ DOMAIN q = {1} /\ q[1] = f
  OBVIOUS
<1> HIDE DEF q
<1>2. AskedIn(q) = {p \in Prompts : RequestOf(f, p)}
  BY <1>1 DEF AskedIn
<1>3. OpenIn(q) = {p \in Prompts : RequestOf(f, p)}
  BY <1>1 DEF OpenIn
<1>4. EndedIn(q) = {p \in Prompts : EndingOf(f, p)}
  BY <1>1 DEF EndedIn
<1> QED
  BY <1>1, <1>2, <1>3, <1>4 DEF q

\* The first frame on its way, and the rest.
LEMMA FirstFrame ==
    ASSUME NEW q \in Seq(SentFrames), q # <<>>
    PROVE  /\ Head(q) \in SentFrames /\ Tail(q) \in Seq(SentFrames)
           /\ q = <<Head(q)>> \o Tail(q)
<1>1. Head(q) \in SentFrames /\ Tail(q) \in Seq(SentFrames)
  OBVIOUS
<1>2. q = <<Head(q)>> \o Tail(q)
  <2> DEFINE t == <<Head(q)>> \o Tail(q)
  <2>1. t \in Seq(SentFrames) /\ Len(t) = Len(q)
    BY <1>1
  <2>2. \A i \in 1 .. Len(q) : t[i] = q[i]
    BY <1>1
  <2> HIDE DEF t
  <2>3. t = q
    BY <2>1, <2>2
  <2> QED
    BY <2>3 DEF t
<1> QED
  BY <1>1, <1>2

\* What a session shows after a frame, when it showed what it may before.
LEMMA FrameShown ==
    ASSUME NEW s \in SessionData, NEW f \in SentFrames, NEW t \in Seq(SentFrames),
           NEW pending, OnceIn(s), AsksOnce(<<f>> \o t),
           ShownIn(s) \cap AskedIn(<<f>> \o t) = {}
    PROVE  /\ OnceIn(Handle(s, f))
           /\ ShownIn(Handle(s, f)) \subseteq ShownIn(s) \cup AskedIn(<<f>> \o t)
           /\ ShownIn(Handle(s, f)) \cap AskedIn(t) = {}
           /\ ShownIn(s) \subseteq pending \cup EndedIn(<<f>> \o t)
              /\ OpenIn(<<f>> \o t) \subseteq pending =>
                 ShownIn(Handle(s, f)) \subseteq pending \cup EndedIn(t)
<1> DEFINE q == <<f>> \o t
<1>1. /\ <<f>> \in Seq(SentFrames)
      /\ AskedIn(<<f>>) = {p \in Prompts : RequestOf(f, p)}
      /\ OpenIn(<<f>>) = {p \in Prompts : RequestOf(f, p)}
      /\ EndedIn(<<f>>) = {p \in Prompts : EndingOf(f, p)}
  BY OneFrame
<1> DEFINE g == <<f>>
<1> HIDE DEF g
<1>2. /\ AskedIn(q) = AskedIn(g) \cup AskedIn(t)
      /\ EndedIn(q) = EndedIn(g) \cup EndedIn(t)
      /\ OpenIn(q) = (OpenIn(g) \ EndedIn(t)) \cup OpenIn(t)
      /\ AskedIn(g) \cap AskedIn(t) = {}
  BY <1>1, ConcatOfStreams DEF g
<1>3. AskedIn(g) = {p \in Prompts : RequestOf(f, p)} /\ OpenIn(g) = AskedIn(g)
      /\ EndedIn(g) = {p \in Prompts : EndingOf(f, p)}
  BY <1>1 DEF g
<1>4. ShownIn(s) \cap AskedIn(q) = {}
  OBVIOUS
<1> HIDE DEF q
<1> DEFINE new == Handle(s, f)
<1>5. ShownIn(s) \subseteq Prompts
  <2>1. s.activePrompts \in Seq(Prompts) /\ s.deferred \in Seq(Prompts)
    BY DEF SessionData
  <2> QED
    BY <2>1 DEF ShownIn, Range
<1>6. CASE f.type = "prompt_request"
  <2>1. f.prompt \in Prompts /\ AskedIn(g) = {f.prompt} /\ EndedIn(g) = {}
    BY <1>3, <1>6 DEF SentFrames, RequestOf, EndingOf, Endings
  <2>2. f.prompt \notin ShownIn(s)
    BY <1>2, <1>4, <2>1
  <2>3. OnceIn(new) /\ ShownIn(new) \subseteq ShownIn(s) \cup {f.prompt}
    BY <1>6, <2>2, HandleOnce, HandleShown
  <2> HIDE DEF new
  <2> QED
    BY <1>2, <1>3, <1>4, <2>1, <2>3 DEF new, q
<1>7. CASE f.type \in Endings
  <2>1. f.type # "prompt_request" /\ AskedIn(g) = {} /\ EndedIn(g) \subseteq {f.prompt}
    BY <1>3, <1>7 DEF RequestOf, EndingOf, Endings
  <2>2. OnceIn(new) /\ ShownIn(new) \subseteq ShownIn(s) \ {f.prompt}
    BY <1>7, <2>1, HandleOnce, HandleShown
  <2> HIDE DEF new
  <2> QED
    BY <1>2, <1>4, <2>1, <2>2 DEF new, q
<1>8. CASE f.type \notin {"prompt_request"} \cup Endings
  <2>1. AskedIn(g) = {} /\ EndedIn(g) = {}
    BY <1>3, <1>8 DEF RequestOf, EndingOf
  <2>2. OnceIn(new) /\ ShownIn(new) \subseteq ShownIn(s)
    BY <1>8, HandleOnce, HandleShown
  <2> HIDE DEF new
  <2> QED
    BY <1>2, <1>4, <2>1, <2>2 DEF new, q
<1> QED
  BY <1>6, <1>7, <1>8

LEMMA DeliverRegistered ==
    ASSUME Inv, Deliver, conn.registered
    PROVE  Inv'
<1> DEFINE f == Head(toWeb)
           t == Tail(toWeb)
<1>1. /\ UNCHANGED <<agent, pty, infoFile, prompt, history, lines, failures, conn, link,
                     toAgent>>
      /\ session' = Handle(session, f) /\ toWeb' = t /\ toWeb # <<>> /\ link = "open"
  BY DEF Deliver, agentVars
<1>2. conn.pendingMessages = <<>> /\ session \in SessionData /\ toWeb \in Seq(SentFrames)
  BY DEF Inv, Connections, StreamOK, TypeOK
<1>3. f \in SentFrames /\ t \in Seq(SentFrames) /\ toWeb = <<f>> \o t
  BY <1>1, <1>2, FirstFrame
<1> HIDE DEF f, t
<1>4. Stream = toWeb
  BY <1>2 DEF Stream
<1>5. Stream' = t
  <2>1. Stream' = <<>> \o t
    BY <1>1, <1>2 DEF Stream
  <2> QED
    BY <1>3, <2>1
<1>6. UNCHANGED Fresh /\ UNCHANGED PendingPrompts
  BY <1>1 DEF Fresh, PendingPrompts
<1>7. /\ AsksOnce(toWeb) /\ AskedIn(toWeb) \cap Fresh = {}
      /\ agent = "running" => OpenIn(toWeb) \subseteq PendingPrompts
      /\ OnceIn(session) /\ ShownIn(session) \cap (Fresh \cup AskedIn(toWeb)) = {}
      /\ agent = "running" => ShownIn(session) \subseteq PendingPrompts \cup EndedIn(toWeb)
  BY <1>1, <1>4 DEF Inv, StreamOK, ScreenOK, Shown, ShownIn
<1>8. /\ OnceIn(Handle(session, f))
      /\ ShownIn(Handle(session, f)) \subseteq ShownIn(session) \cup AskedIn(toWeb)
      /\ ShownIn(Handle(session, f)) \cap AskedIn(t) = {}
      /\ agent = "running" =>
            ShownIn(Handle(session, f)) \subseteq PendingPrompts \cup EndedIn(t)
  <2> DEFINE pending == PendingPrompts
  <2>1. /\ AsksOnce(<<f>> \o t) /\ ShownIn(session) \cap AskedIn(<<f>> \o t) = {}
        /\ agent = "running" => OpenIn(<<f>> \o t) \subseteq pending
        /\ agent = "running" => ShownIn(session) \subseteq pending \cup EndedIn(<<f>> \o t)
    BY <1>3, <1>7
  <2> HIDE DEF pending
  <2>2. /\ OnceIn(Handle(session, f))
        /\ ShownIn(Handle(session, f)) \subseteq ShownIn(session) \cup AskedIn(<<f>> \o t)
        /\ ShownIn(Handle(session, f)) \cap AskedIn(t) = {}
        /\ agent = "running" =>
              ShownIn(Handle(session, f)) \subseteq pending \cup EndedIn(t)
    BY <1>2, <1>3, <1>7, <2>1, FrameShown
  <2> QED
    BY <1>3, <2>2 DEF pending
<1>9. /\ AsksOnce(t) /\ AskedIn(t) \subseteq AskedIn(toWeb)
      /\ OpenIn(t) \subseteq OpenIn(toWeb)
  <2>1. <<f>> \in Seq(SentFrames)
    BY <1>3
  <2> DEFINE g == <<f>>
  <2>2. g \in Seq(SentFrames) /\ toWeb = g \o t
    BY <1>3, <2>1
  <2> HIDE DEF g
  <2>3. /\ AskedIn(g \o t) = AskedIn(g) \cup AskedIn(t)
        /\ OpenIn(g \o t) = (OpenIn(g) \ EndedIn(t)) \cup OpenIn(t)
        /\ AsksOnce(g \o t) => AsksOnce(t)
    BY <1>3, <2>2, ConcatOfStreams
  <2> QED
    BY <1>7, <2>2, <2>3
<1>10. Shown' = ShownIn(Handle(session, f))
  BY <1>1 DEF Shown, ShownIn
<1>11. StreamOK'
  BY <1>1, <1>2, <1>3, <1>5, <1>6, <1>7, <1>9 DEF Inv, StreamOK
<1>12. ScreenOK'
  <2>1. OnceIn(session')
    BY <1>1, <1>8
  <2>2. Shown' \cap (Fresh' \cup AskedIn(Stream')) = {}
    BY <1>5, <1>6, <1>7, <1>8, <1>10
  <2>3. agent' = "running" => Shown' \subseteq PendingPrompts' \cup EndedIn(toWeb')
    BY <1>1, <1>6, <1>8, <1>10
  <2> QED
    BY <2>1, <2>2, <2>3 DEF ScreenOK
<1>13. Connections'
  BY <1>1 DEF Inv, Connections
<1>14. session' \in SessionData
  BY <1>1, <1>2, <1>3, HandleType
<1> QED
  BY <1>1, <1>11, <1>12, <1>13, <1>14, WebStep DEF Inv, TypeOK, FewPending

\* Too many frames: the socket is given up.
LEMMA DeliverOverflow ==
    ASSUME Inv, Deliver, ~conn.registered, Len(conn.pendingMessages) >= MaxPending
    PROVE  Inv'
<1>1. LoseSocket /\ UNCHANGED webVars /\ toAgent' \in Seq(Responses)
  BY Arriving DEF Deliver, BufferFrame
<1> QED
  BY <1>1, SocketEnds DEF Deliver, agentVars, webVars, Inv, TypeOK

\* The frame joins those that are buffered, of which a session may be made.
LEMMA DeliverBuffered ==
    ASSUME Inv, Deliver, ~conn.registered, Len(conn.pendingMessages) < MaxPending
    PROVE  Inv'
<1> DEFINE f == Head(toWeb)
           t == Tail(toWeb)
           pending == conn.pendingMessages
           buffered == Append(pending, f)
           register == f.type = (IF conn.isReconnect THEN "replay_end" ELSE "session_info")
           new == FoldLeft(Handle, Connected, buffered)
<1>1. Len(pending) \in Nat /\ MaxPending \in Nat
  <2>1. pending \in Seq(SentFrames)
    BY DEF Inv, StreamOK
  <2> QED
    BY <2>1, SessionsAssumption
<1>2. /\ UNCHANGED <<agent, pty, infoFile, prompt, history, lines, failures, link, toAgent>>
      /\ toWeb' = t /\ toWeb # <<>> /\ link = "open"
      /\ conn' = [conn EXCEPT !.pendingMessages = IF register THEN <<>> ELSE buffered,
                              !.registered = register]
      /\ session' = IF register THEN new ELSE session
  BY <1>1 DEF Deliver, BufferFrame, agentVars
<1>3. pending \in Seq(SentFrames) /\ toWeb \in Seq(SentFrames)
  BY DEF Inv, StreamOK
<1>4. f \in SentFrames /\ t \in Seq(SentFrames) /\ toWeb = <<f>> \o t
  BY <1>2, <1>3, FirstFrame
<1>5. conn \in TrackedConnections /\ session \in SessionData /\ register \in BOOLEAN
      /\ conn.tracked
  BY <1>2 DEF Inv, TypeOK, Connections
<1> HIDE DEF f, t, pending, register
<1>6. buffered \in Seq(SentFrames) /\ Stream = buffered \o t
  <2>1. buffered \in Seq(SentFrames)
    BY <1>3, <1>4
  <2>2. buffered = pending \o <<f>>
    BY <1>3, <1>4
  <2>3. pending \o (<<f>> \o t) = (pending \o <<f>>) \o t
    <3> DEFINE g == <<f>>
    <3>1. g \in Seq(SentFrames)
      BY <1>4
    <3> HIDE DEF g
    <3>2. pending \o (g \o t) = (pending \o g) \o t
      BY <1>3, <1>4, <3>1, ConcatAssociative
    <3> QED
      BY <3>2 DEF g
  <2> QED
    BY <1>4, <2>1, <2>2, <2>3 DEF Stream, pending
<1> HIDE DEF buffered, new
<1>7. UNCHANGED Fresh /\ UNCHANGED PendingPrompts
  BY <1>2 DEF Fresh, PendingPrompts
<1>8. CASE ~register
  <2>1. /\ conn' = [conn EXCEPT !.pendingMessages = buffered, !.registered = FALSE]
        /\ session' = session
    <3>1. register = FALSE
      BY <1>5, <1>8
    <3> QED
      BY <1>2, <3>1
  <2>2. buffered \in Seq(Frames)
    BY <1>6, SentTyped
  <2>3. conn' \in TrackedConnections
    BY <1>5, <2>1, <2>2 DEF TrackedConnections
  <2>4. conn'.pendingMessages = buffered /\ ~conn'.registered /\ conn'.tracked
    BY <1>5, <2>1 DEF TrackedConnections
  <2>5. Stream' = Stream
    BY <1>2, <1>6, <2>4 DEF Stream
  <2>6. StreamOK'
    BY <1>2, <1>4, <1>6, <1>7, <2>4, <2>5 DEF Inv, StreamOK
  <2>7. session'.activePrompts = <<>> /\ session'.deferred = <<>>
    BY <2>1 DEF Inv, Connections
  <2>8. ScreenOK'
    BY <1>5, <2>1, <2>7, NothingShown DEF ScreenOK
  <2>9. Connections'
    BY <1>2, <2>4, <2>7 DEF Inv, Connections
  <2> QED
    BY <1>2, <1>5, <2>1, <2>3, <2>6, <2>8, <2>9, WebStep DEF Inv, TypeOK, FewPending
<1>9. CASE register
  <2>1. /\ conn' = [conn EXCEPT !.pendingMessages = <<>>, !.registered = register]
        /\ session' = new
    BY <1>2, <1>9
  <2>2. <<>> \in Seq(Frames) /\ <<>> \in Seq(SentFrames)
    OBVIOUS
  <2>3. conn' \in TrackedConnections
    BY <1>5, <2>1, <2>2 DEF TrackedConnections
  <2>4. conn'.pendingMessages = <<>> /\ conn'.tracked
    BY <1>5, <2>1 DEF TrackedConnections
  <2>5. conn'.registered
    BY <1>5, <1>9, <2>1 DEF TrackedConnections
  <2>6. Stream' = t
    <3>1. Stream' = <<>> \o t
      BY <1>2, <2>4 DEF Stream
    <3> QED
      BY <1>4, <3>1
  <2>7. /\ AskedIn(Stream) = AskedIn(buffered) \cup AskedIn(t)
        /\ OpenIn(Stream) = (OpenIn(buffered) \ EndedIn(t)) \cup OpenIn(t)
        /\ AsksOnce(Stream) =>
              AsksOnce(buffered) /\ AsksOnce(t) /\ AskedIn(buffered) \cap AskedIn(t) = {}
    BY <1>4, <1>6, ConcatOfStreams
  <2>8. /\ AsksOnce(Stream) /\ AskedIn(Stream) \cap Fresh = {}
        /\ agent = "running" => OpenIn(Stream) \subseteq PendingPrompts
    BY <1>2 DEF Inv, StreamOK
  <2>9. new \in SessionData /\ ShownIn(new) \subseteq OpenIn(buffered) /\ OnceIn(new)
    BY <1>6, <2>7, <2>8, SessionOfFrames DEF new
  <2>10. Shown' = ShownIn(new) /\ ShownIn(new) \subseteq AskedIn(buffered)
    BY <2>1, <2>9, OpenIsAsked DEF Shown, ShownIn
  <2>11. StreamOK'
    BY <1>2, <1>4, <1>7, <2>2, <2>4, <2>6, <2>7, <2>8 DEF StreamOK
  <2>12. ScreenOK'
    <3>1. OnceIn(session')
      BY <2>1, <2>9
    <3>2. Shown' \cap (Fresh' \cup AskedIn(Stream')) = {}
      BY <1>7, <2>6, <2>7, <2>8, <2>10
    <3>3. agent' = "running" => Shown' \subseteq PendingPrompts' \cup EndedIn(toWeb')
      BY <1>2, <1>7, <2>7, <2>8, <2>9, <2>10
    <3> QED
      BY <3>1, <3>2, <3>3 DEF ScreenOK
  <2>13. Connections'
    BY <1>2, <2>4, <2>5 DEF Inv, Connections
  <2> QED
    BY <1>2, <2>1, <2>3, <2>9, <2>11, <2>12, <2>13, WebStep DEF Inv, TypeOK, FewPending
<1> QED
  BY <1>8, <1>9

LEMMA DeliverStep == ASSUME Inv, Deliver PROVE Inv'
<1>1. Len(conn.pendingMessages) \in Nat /\ MaxPending \in Nat
  <2>1. conn.pendingMessages \in Seq(SentFrames)
    BY DEF Inv, StreamOK
  <2> QED
    BY <2>1, SessionsAssumption
<1> QED
  BY <1>1, DeliverRegistered, DeliverOverflow, DeliverBuffered

-----------------------------------------------------------------------------
(* The theorems.                                                           *)

LEMMA InitInv == Init => Inv
<1> SUFFICES ASSUME Init PROVE Inv
  OBVIOUS
<1>1. /\ <<>> \in Seq(Frames) /\ <<>> \in Seq(SentFrames) /\ <<>> \in Seq(Responses)
      /\ Len(<<>>) = 0 /\ <<>> \o <<>> = <<>>
      /\ DOMAIN <<>> = {} /\ Range(<<>>) = {}
  BY DEF Range
<1>2. AskedIn(<<>>) = {} /\ OpenIn(<<>>) = {} /\ EndedIn(<<>>) = {} /\ AsksOnce(<<>>)
  BY <1>1 DEF AskedIn, OpenIn, EndedIn, AsksOnce
<1>3. conn.pendingMessages = <<>> /\ ~conn.registered
  BY DEF Init, Untracked
<1>4. session.activePrompts = <<>> /\ session.deferred = <<>>
  BY DEF Init, NoSession
<1>5. Stream = <<>>
  BY <1>1, <1>3 DEF Stream, Init
<1>6. Shown = {} /\ OnceIn(session)
  BY <1>1, <1>4 DEF Shown, OnceIn, IsInjective
<1>7. PendingPrompts = {} /\ IsFiniteSet(PendingPrompts)
  <2>1. PendingPrompts = {}
    BY DEF Init, PendingPrompts
  <2> QED
    BY <2>1, FS_EmptySet
<1>8. TypeOK
  BY <1>1, NoSessionType, UntrackedType, SessionsAssumption DEF Init, TypeOK
<1>9. Connections
  BY <1>3, <1>4 DEF Init, Connections
<1>10. FewPending
  BY <1>1, <1>7 DEF Init, FewPending
<1>11. HistoryOK
  BY <1>1, <1>2 DEF Init, HistoryOK
<1>12. StreamOK
  BY <1>1, <1>2, <1>3, <1>5 DEF Init, StreamOK
<1>13. ScreenOK
  BY <1>2, <1>5, <1>6 DEF Init, ScreenOK
<1> QED
  BY <1>8, <1>9, <1>10, <1>11, <1>12, <1>13 DEF Inv

LEMMA NextInv == ASSUME Inv, [Next]_vars PROVE Inv'
<1>1. CASE UNCHANGED vars
  <2>1. UNCHANGED <<agent, pty, infoFile, prompt, history, link, toWeb, toAgent, conn, session,
                    lines, failures>>
    BY <1>1 DEF vars
  <2>2. /\ UNCHANGED Fresh /\ UNCHANGED PendingPrompts /\ UNCHANGED Stream
        /\ UNCHANGED Shown
    BY <2>1 DEF Fresh, PendingPrompts, Stream, Shown
  <2>3. StreamOK' /\ ScreenOK' /\ Connections'
    BY <2>1, <2>2 DEF Inv, StreamOK, ScreenOK, Connections
  <2> QED
    BY <2>1, <2>3, WebStep DEF Inv, TypeOK, FewPending
<1>2. ASSUME NEW p \in Prompts, Ask(p) \/ AnswerAtTerminal(p) \/ Respond(p) PROVE Inv'
  BY <1>2, AskStep, AnswerStep, RespondStep
<1>3. CASE WriteLine \/ ReceiveResponse \/ ReceiveEnd \/ Destroy \/ Stop \/ Crash
  BY <1>3, WriteLineStep, ReceiveResponseStep, ReceiveEndStep, DestroyStep, StopStep, CrashStep
<1>4. CASE Discover \/ Reconnect \/ Forget \/ Deliver \/ NoticeClose
  BY <1>4, DiscoverStep, ReconnectStep, ForgetStep, DeliverStep, NoticeCloseStep
<1>5. CASE EndSession \/ Dismiss \/ Break \/ RestartWeb
  BY <1>5, EndSessionStep, DismissStep, BreakStep, RestartWebStep
<1> QED
  BY <1>1, <1>2, <1>3, <1>4, <1>5 DEF Next

\* The invariant holds throughout: what the stream leaves open is pending, and what the
\* screen shows is pending or about to end.
THEOREM Invariance == Spec => []Inv
<1>1. Inv /\ [Next]_vars => Inv'
  BY NextInv
<1> QED
  BY <1>1, InitInv, PTL DEF Spec

\* The variables keep their types, the history its limit, whatever the replay, the
\* buffering and the limits do.
THEOREM TypeCorrectness == Spec => []TypeOK
<1>1. Inv => TypeOK
  BY DEF Inv
<1> QED
  BY <1>1, Invariance, PTL

\* A prompt on the screen is pending, or its end is on the way, or the socket has ended
\* or will with the agent, for any prompts and any limits of history and buffer.
THEOREM NoPromptStale == Spec => []NoStalePrompt
<1>1. ASSUME Inv PROVE NoStalePrompt
  <2> SUFFICES ASSUME NEW p \in Shown,
                      agent # "destroyed", link # "closing", prompt[p] # "pending"
               PROVE  \E i \in DOMAIN toWeb : toWeb[i].type \in Endings /\ toWeb[i].prompt = p
    BY DEF NoStalePrompt
  <2>1. conn.registered
    <3> SUFFICES ASSUME ~conn.registered PROVE FALSE
      OBVIOUS
    <3>1. Range(<<>>) = {}
      BY DEF Range
    <3> QED
      BY <1>1, <3>1 DEF Inv, Connections, Shown
  <2>2. link = "open" /\ agent = "running"
    BY <1>1, <2>1 DEF Inv, Connections, TypeOK
  <2>3. p \in EndedIn(toWeb)
    BY <1>1, <2>2 DEF Inv, ScreenOK, PendingPrompts
  <2> QED
    BY <2>3 DEF EndedIn, EndingOf
<1>2. Inv => NoStalePrompt
  BY <1>1
<1> QED
  BY <1>2, Invariance, PTL

\* No prompt is on the screen twice: neither the replay nor a frame that follows it asks
\* again what is shown.
THEOREM EachShownOnce == Spec => []ShownOnce
<1>1. Inv => ShownOnce
  BY DEF Inv, ScreenOK, OnceIn, ShownOnce
<1> QED
  BY <1>1, Invariance, PTL

\* Once a prompt is settled, by the terminal, a timeout, an answer from the web or the end
\* of the session, no later answer changes how.
THEOREM FirstAnswerStands == Spec => FirstAnswerWins
<1> DEFINE Kept == \A p \in Prompts : prompt[p] \in Settlements => prompt'[p] = prompt[p]
<1>1. ASSUME Inv, [Next]_vars PROVE Kept
  <2>1. prompt \in [Prompts -> {"new", "pending"} \cup Settlements]
    BY <1>1 DEF Inv, TypeOK
  <2>2. "new" \notin Settlements /\ "pending" \notin Settlements
    BY SessionsAssumption DEF Settlements
  <2>3. CASE UNCHANGED prompt
    BY <2>3
  <2>4. CASE CancelAll
    BY <2>2, <2>4 DEF CancelAll
  <2>5. ASSUME NEW p \in Prompts, Ask(p) PROVE Kept
    BY <2>1, <2>2, <2>5 DEF Ask
  <2>6. ASSUME NEW p \in Prompts, AnswerAtTerminal(p) PROVE Kept
    BY <2>1, <2>2, <2>6 DEF AnswerAtTerminal
  <2>7. CASE ReceiveResponse
    BY <2>1, <2>2, <2>7 DEF ReceiveResponse
  <2>8. CASE UNCHANGED vars
    BY <2>3, <2>8 DEF vars
  <2>9. CASE WriteLine \/ ReceiveEnd \/ Destroy \/ Stop \/ Crash
    BY <2>3, <2>4, <2>9 DEF WriteLine, ReceiveEnd, Destroy, Stop, Crash
  <2>10. CASE Discover \/ Reconnect \/ Forget \/ Deliver \/ NoticeClose
    BY <2>3, <2>10 DEF Discover, Reconnect, Forget, Deliver, NoticeClose, agentVars
  <2>11. ASSUME NEW p \in Prompts, Respond(p) PROVE Kept
    BY <2>3, <2>11 DEF Respond, agentVars
  <2>12. CASE EndSession \/ Dismiss \/ Break \/ RestartWeb
    BY <2>3, <2>12 DEF EndSession, Dismiss, Break, RestartWeb, agentVars
  <2> QED
    BY <1>1, <2>5, <2>6, <2>7, <2>8, <2>9, <2>10, <2>11, <2>12 DEF Next
<1>2. Inv /\ [Next]_vars => [Kept]_vars
  BY <1>1
<1>3. [][Next]_vars /\ []Inv => [][Kept]_vars
  BY <1>2, PTL
<1> QED
  BY <1>3, Invariance, PTL DEF Spec, FirstAnswerWins
=============================================================================
