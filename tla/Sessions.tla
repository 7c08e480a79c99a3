------------------------------ MODULE Sessions ------------------------------
(***************************************************************************)
(* A session: a run of tim (the agent) whose output and prompts the web    *)
(* process shows and answers.  The agent serves a socket and keeps a       *)
(* history (src/logging/headless_adapter.ts, src/common/input.ts,          *)
(* src/tim/session_server); the web process finds it by the info file of   *)
(* the agent, connects, and rebuilds the session from the replay           *)
(* (src/lib/server/session_discovery.ts, session_manager.ts).              *)
(*                                                                         *)
(* Sessions do not interact in this code, so the module has one.  A step   *)
(* is one event handled by the agent or by the web process; promise        *)
(* continuations run before the next event.  Output is abstracted to lines *)
(* and prompts; a line stands for any message that is not about a prompt.  *)
(***************************************************************************)
EXTENDS Naturals, Sequences, SequencesExt, FiniteSets

CONSTANTS
    Prompts,    \* what the agent may ask
    Values,     \* what may be answered from the web
    NoPrompt,   \* the prompt of a message that is not about one
    MaxHistory, \* maxBufferBytes of the history, in messages
    MaxPending, \* MAX_PENDING_MESSAGES
    MaxLines,   \* bound: lines of output in a behaviour
    MaxOnWay,   \* bound: messages on the way to the agent at a time
    MaxFailures \* bound: breaks, crashes, restarts of the web process, dismissals, ends

ASSUME SessionsAssumption ==
    /\ NoPrompt \notin Prompts
    /\ Values \cap {"new", "pending", "terminal", "cancelled"} = {}
    /\ {MaxHistory, MaxPending, MaxLines, MaxOnWay, MaxFailures} \subseteq Nat

Endings == {"prompt_answered", "prompt_cancelled"}

Frames == [type : {"session_info", "replay_start", "replay_end", "session_ended", "line",
                   "prompt_request"} \cup Endings,
           prompt : Prompts \cup {NoPrompt}]

Responses ==
    [type : {"prompt_response"}, prompt : Prompts, value : Values] \cup [type : {"end_session"}]

\* A tracked connection of the discovery client.
TrackedConnections == [tracked : BOOLEAN, registered : BOOLEAN, isReconnect : BOOLEAN,
                       pendingMessages : Seq(Frames)]

\* The session of the session manager; "none" is no session.
SessionData == [status : {"none", "active", "offline"}, isReplaying : BOOLEAN,
                activePrompts : Seq(Prompts), deferred : Seq(Prompts)]

VARIABLES
    agent,    \* "running", "destroyed" (still serving) or "gone"
    pty,      \* whether the session is a terminal
    infoFile, \* whether the info file of the agent exists
    prompt,   \* [Prompts -> "new", "pending" or how it was settled: a value came from the web]
    history,  \* the output the agent would replay
    link,     \* "down", "open", or "closing": the web process has yet to notice the end
    toWeb,    \* frames on the way to the web process
    toAgent,  \* messages on the way to the agent, of this socket and of earlier ones
    conn,     \* the tracked connection
    session,  \* the session shown to the user
    lines,    \* how many lines have been written
    failures  \* how many failures have happened

agentVars == <<agent, pty, infoFile, prompt, history, lines>>
webVars == <<conn, session>>
vars == <<agent, pty, infoFile, prompt, history, link, toWeb, toAgent, conn, session,
          lines, failures>>

Settlements == {"terminal", "cancelled"} \cup Values

TypeOK ==
    /\ agent \in {"running", "destroyed", "gone"}
    /\ {pty, infoFile} \subseteq BOOLEAN
    /\ prompt \in [Prompts -> {"new", "pending"} \cup Settlements]
    /\ history \in Seq(Frames) /\ Len(history) <= MaxHistory
    /\ link \in {"down", "open", "closing"}
    /\ toWeb \in Seq(Frames)
    /\ toAgent \in Seq(Responses)
    /\ conn \in TrackedConnections
    /\ session \in SessionData
    /\ lines \in 0 .. MaxLines
    /\ failures \in 0 .. MaxFailures

Frame(type) == [type |-> type, prompt |-> NoPrompt]
About(type, p) == [type |-> type, prompt |-> p]
Response(p, v) == [type |-> "prompt_response", prompt |-> p, value |-> v]

Untracked == [tracked |-> FALSE, registered |-> FALSE, isReconnect |-> FALSE,
              pendingMessages |-> <<>>]

NoSession == [status |-> "none", isReplaying |-> FALSE, activePrompts |-> <<>>,
              deferred |-> <<>>]

Init ==
    /\ agent = "running"
    /\ pty \in BOOLEAN
    /\ infoFile = TRUE
    /\ prompt = [p \in Prompts |-> "new"]
    /\ history = <<>>
    /\ link = "down"
    /\ toWeb = <<>>
    /\ toAgent = <<>>
    /\ conn = Untracked
    /\ session = NoSession
    /\ lines = 0
    /\ failures = 0

-----------------------------------------------------------------------------
(* The agent.                                                              *)

\* Faulty variant of Trimmed: one message too many is kept.
TrimmedLate(s) == SubSeq(s, IF Len(s) <= MaxHistory THEN 1 ELSE Len(s) - MaxHistory, Len(s))

\* Faulty variant of Trimmed: the newest messages are dropped.
TrimmedNewest(s) == SubSeq(s, 1, IF Len(s) < MaxHistory THEN Len(s) ELSE MaxHistory)

\* enforceBufferLimit: the oldest messages are dropped.
Trimmed(s) == SubSeq(s, IF Len(s) <= MaxHistory THEN 1 ELSE Len(s) - MaxHistory + 1, Len(s))

\* What the embedded server broadcasts reaches the web process if it is connected.
Broadcast(frames) == toWeb' = IF link = "open" THEN toWeb \o frames ELSE toWeb

\* enqueueTunnelMessage: output is stored and broadcast, in one turn.
Emit(frames) ==
    /\ history' = Trimmed(history \o frames)
    /\ Broadcast(frames)

WriteLine ==
    /\ agent = "running" /\ lines < MaxLines
    /\ lines' = lines + 1
    /\ Emit(<<Frame("line")>>)
    /\ UNCHANGED <<agent, pty, infoFile, prompt, link, toAgent, webVars, failures>>

\* promptConfirm and its kin: the request is sent and then waited for, in one turn.
Ask(p) ==
    /\ agent = "running" /\ prompt[p] = "new"
    /\ prompt' = [prompt EXCEPT ![p] = "pending"]
    /\ Emit(<<About("prompt_request", p)>>)
    /\ UNCHANGED <<agent, pty, infoFile, lines, link, toAgent, webVars, failures>>

\* raceWithWebSocket: the terminal answers first, or the prompt times out there.
AnswerAtTerminal(p) ==
    /\ agent = "running" /\ prompt[p] = "pending"
    /\ \/ /\ prompt' = [prompt EXCEPT ![p] = "terminal"]
          /\ Emit(<<About("prompt_answered", p)>>)
       \/ /\ prompt' = [prompt EXCEPT ![p] = "cancelled"]
          /\ Emit(<<About("prompt_cancelled", p)>>)
    /\ UNCHANGED <<agent, pty, infoFile, lines, link, toAgent, webVars, failures>>

PendingPrompts == {p \in Prompts : prompt[p] = "pending"}

\* rejectAllPending
CancelAll == prompt' = [p \in Prompts |-> IF prompt[p] = "pending" THEN "cancelled"
                                          ELSE prompt[p]]

\* A message that arrived is handled, also after its socket has ended.
Arrived(type) == agent # "gone" /\ toAgent # <<>> /\ Head(toAgent).type = type

\* Faulty variant of ReceiveResponse: an answer from the web leaves its prompt in
\* pendingPrompts, and the last one counts.
ReceiveResponseLast ==
    /\ Arrived("prompt_response")
    /\ toAgent' = Tail(toAgent)
    /\ LET p == Head(toAgent).prompt
       IN  IF prompt[p] \in {"pending"} \cup Values
             THEN /\ prompt' = [prompt EXCEPT ![p] = Head(toAgent).value]
                  /\ Emit(<<About("prompt_answered", p)>>)
             ELSE UNCHANGED <<prompt, history, toWeb>>
    /\ UNCHANGED <<agent, pty, infoFile, lines, link, webVars, failures>>

\* handleServerMessage, prompt_response: a prompt that is no longer pending, and that of
\* a destroyed agent, is not in pendingPrompts.  A response that carries an error is left
\* out: no code of the repository sends one.
ReceiveResponse ==
    /\ Arrived("prompt_response")
    /\ toAgent' = Tail(toAgent)
    /\ LET p == Head(toAgent).prompt
       IN  IF prompt[p] = "pending"
             THEN /\ prompt' = [prompt EXCEPT ![p] = Head(toAgent).value]
                  /\ Emit(<<About("prompt_answered", p)>>)
             ELSE UNCHANGED <<prompt, history, toWeb>>
    /\ UNCHANGED <<agent, pty, infoFile, lines, link, webVars, failures>>

\* handleServerMessage, end_session: all prompts are cancelled, and say so unless the
\* handler of the command destroys the adapter before they can.
ReceiveEnd ==
    /\ Arrived("end_session")
    /\ toAgent' = Tail(toAgent)
    /\ CancelAll
    /\ \/ /\ Emit([i \in 1 .. Cardinality(PendingPrompts) |->
                     About("prompt_cancelled", SetToSeq(PendingPrompts)[i])])
          /\ UNCHANGED agent
       \/ /\ agent = "running" /\ agent' = "destroyed"
          /\ Broadcast(<<Frame("session_ended")>>)
          /\ UNCHANGED history
    /\ UNCHANGED <<pty, infoFile, lines, link, webVars, failures>>

\* destroy(), up to the wait for the sockets to drain.
Destroy ==
    /\ agent = "running"
    /\ agent' = "destroyed"
    /\ CancelAll
    /\ Broadcast(<<Frame("session_ended")>>)
    /\ UNCHANGED <<pty, infoFile, history, lines, link, toAgent, webVars, failures>>

\* The socket ends, and what was on its way to the web process is lost; of what was sent
\* to the agent, some has arrived, and will be handled.
SomeArrives == \E n \in 0 .. Len(toAgent) : toAgent' = SubSeq(toAgent, 1, n)

LoseSocket ==
    /\ link' = IF link = "open" THEN "closing" ELSE link
    /\ toWeb' = <<>>

\* The agent is gone, and its end of the socket with it.
AgentEnds ==
    /\ agent' = "gone"
    /\ LoseSocket
    /\ toAgent' = <<>>

\* destroy() ends, and with it the process (stopSessionServer).
Stop ==
    /\ agent = "destroyed"
    /\ AgentEnds
    /\ infoFile' = FALSE
    /\ UNCHANGED <<pty, prompt, history, lines, webVars, failures>>

\* The process is killed, and its info file stays behind.
Crash ==
    /\ agent # "gone" /\ failures < MaxFailures
    /\ failures' = failures + 1
    /\ AgentEnds
    /\ UNCHANGED <<pty, infoFile, prompt, history, lines, webVars>>

\* sendReplayToServerClient; a terminal has no structured replay, its screen is left out.
Replay ==
    IF pty
      THEN <<Frame("session_info")>>
      ELSE <<Frame("session_info"), Frame("replay_start")>> \o history
             \o <<Frame("replay_end")>>

-----------------------------------------------------------------------------
(* The session manager.                                                    *)

Without(s, p) == FoldLeft(LAMBDA t, q : IF q = p THEN t ELSE Append(t, q), <<>>, s)

\* Faulty variant of Promoted: the deferred prompts are not cleared.
PromotedKept(s) == [s EXCEPT !.isReplaying = FALSE, !.activePrompts = @ \o s.deferred]

\* Faulty variant of Promoted: the deferred prompts are forgotten.
PromotedNone(s) == [s EXCEPT !.isReplaying = FALSE, !.deferred = <<>>]

\* replay_end: the prompts of the replay are shown.
Promoted(s) ==
    [s EXCEPT !.isReplaying = FALSE, !.activePrompts = @ \o s.deferred, !.deferred = <<>>]

\* handleWebSocketMessage and handleStructuredSideEffects: what frame f makes of the
\* session s.  Prompts of a replay are deferred until it ends.
Handle(s, f) ==
    CASE f.type = "replay_start" -> [s EXCEPT !.isReplaying = TRUE, !.deferred = <<>>]
      [] f.type = "replay_end" -> Promoted(s)
      [] f.type = "prompt_request" ->
            IF s.isReplaying THEN [s EXCEPT !.deferred = Append(@, f.prompt)]
                             ELSE [s EXCEPT !.activePrompts = Append(@, f.prompt)]
      [] f.type \in Endings ->
            [s EXCEPT !.activePrompts = Without(@, f.prompt), !.deferred = Without(@, f.prompt)]
      [] OTHER -> s

\* handleWebSocketConnect: a session of that id, whatever its status, is replaced.
Connected == [NoSession EXCEPT !.status = "active"]

\* handleWebSocketDisconnect
Disconnected(s) == [NoSession EXCEPT !.status = IF s.status = "none" THEN "none" ELSE "offline"]

-----------------------------------------------------------------------------
(* The discovery client.                                                   *)

\* A new socket: the agent sends the replay as soon as it is open.
OpenSocket ==
    /\ link' = "open"
    /\ toWeb' = Replay
    /\ UNCHANGED toAgent

\* disposeTrackedConnection, and forgetting it.
Dispose ==
    /\ conn' = Untracked
    /\ session' = IF conn.registered THEN Disconnected(session) ELSE session
    /\ link' = "down"
    /\ toWeb' = <<>>
    /\ UNCHANGED toAgent

\* A scan of the info files finds an agent that is not tracked yet, and connects.  One
\* that asks for a token, or listens beyond the loopback, it skips: the agent here does not.
Discover ==
    /\ infoFile /\ agent # "gone" /\ ~conn.tracked
    /\ conn' = [Untracked EXCEPT !.tracked = TRUE, !.isReconnect = (session.status = "offline")]
    /\ OpenSocket
    /\ UNCHANGED <<agentVars, session, failures>>

\* The retry timer fires, or after the last retry a scan tries again.
Reconnect ==
    /\ conn.tracked /\ link = "down" /\ agent # "gone"
    /\ OpenSocket
    /\ UNCHANGED <<agentVars, webVars, failures>>

\* A scan or a retry finds that the file is gone, or the process of the file is dead.
Forget ==
    /\ agent = "gone" /\ (conn.tracked \/ infoFile)
    /\ infoFile' = FALSE
    /\ Dispose
    /\ UNCHANGED <<agent, pty, prompt, history, lines, failures>>

\* handleTrackedMessage before registration: frames are buffered.  The first connection
\* registers the session at once, a reconnection when the replay is complete, so that
\* the old session stays in view until then.
BufferFrame(f) ==
    LET buffered == Append(conn.pendingMessages, f)
        register == f.type = (IF conn.isReconnect THEN "replay_end" ELSE "session_info")
    IN  IF Len(conn.pendingMessages) >= MaxPending
          THEN /\ LoseSocket /\ SomeArrives
               /\ UNCHANGED webVars
          ELSE /\ toWeb' = Tail(toWeb)
               /\ conn' = [conn EXCEPT
                     !.pendingMessages = IF register THEN <<>> ELSE buffered,
                     !.registered = register]
               /\ session' = IF register THEN FoldLeft(Handle, Connected, buffered)
                                         ELSE session
               /\ UNCHANGED <<link, toAgent>>

Deliver ==
    /\ toWeb # <<>> /\ link = "open"
    /\ IF conn.registered
         THEN /\ session' = Handle(session, Head(toWeb))
              /\ toWeb' = Tail(toWeb)
              /\ UNCHANGED <<conn, link, toAgent>>
         ELSE BufferFrame(Head(toWeb))
    /\ UNCHANGED <<agentVars, failures>>

\* Faulty variant of Closed: the connection still counts as registered.
ClosedRegistered(c) == [c EXCEPT !.pendingMessages = <<>>, !.isReconnect = TRUE]

Closed(c) == [c EXCEPT !.registered = FALSE, !.pendingMessages = <<>>, !.isReconnect = TRUE]

\* The close event of the socket.
NoticeClose ==
    /\ link = "closing"
    /\ link' = "down"
    /\ session' = IF conn.registered THEN Disconnected(session) ELSE session
    /\ conn' = Closed(conn)
    /\ UNCHANGED <<agentVars, toWeb, toAgent, failures>>

-----------------------------------------------------------------------------
(* The user and failures.                                                  *)

\* sendPromptResponse: the prompt leaves the screen as soon as the answer is sent, on a
\* socket that may be dead without anybody knowing.
Respond(p) ==
    /\ conn.registered /\ p \in Range(session.activePrompts) /\ Len(toAgent) < MaxOnWay
    /\ session' = [session EXCEPT !.activePrompts = Without(@, p)]
    /\ IF link = "open"
         THEN \E v \in Values : toAgent' = Append(toAgent, Response(p, v))
         ELSE UNCHANGED toAgent
    /\ UNCHANGED <<agentVars, link, toWeb, conn, failures>>

EndSession ==
    /\ conn.registered /\ link = "open" /\ failures < MaxFailures /\ Len(toAgent) < MaxOnWay
    /\ failures' = failures + 1
    /\ toAgent' = Append(toAgent, [type |-> "end_session"])
    /\ UNCHANGED <<agentVars, link, toWeb, webVars>>

\* dismissSession
Dismiss ==
    /\ session.status = "offline" /\ failures < MaxFailures
    /\ failures' = failures + 1
    /\ session' = NoSession
    /\ UNCHANGED <<agentVars, link, toWeb, toAgent, conn>>

Break ==
    /\ link = "open" /\ failures < MaxFailures
    /\ failures' = failures + 1
    /\ LoseSocket /\ SomeArrives
    /\ UNCHANGED <<agentVars, webVars>>

RestartWeb ==
    /\ failures < MaxFailures
    /\ failures' = failures + 1
    /\ conn' = Untracked
    /\ session' = NoSession
    /\ link' = "down" /\ toWeb' = <<>> /\ SomeArrives
    /\ UNCHANGED agentVars

Next ==
    \/ \E p \in Prompts : Ask(p) \/ AnswerAtTerminal(p) \/ Respond(p)
    \/ WriteLine \/ ReceiveResponse \/ ReceiveEnd \/ Destroy \/ Stop \/ Crash
    \/ Discover \/ Reconnect \/ Forget \/ Deliver \/ NoticeClose
    \/ EndSession \/ Dismiss \/ Break \/ RestartWeb

Spec == Init /\ [][Next]_vars

\* Both processes handle what arrives, the web process scans and retries for ever, and a
\* shutdown comes to its end.  Nobody need answer, and nothing need fail.
Fairness ==
    /\ WF_vars(Deliver) /\ WF_vars(NoticeClose)
    /\ WF_vars(Discover) /\ WF_vars(Reconnect) /\ WF_vars(Forget)
    /\ WF_vars(ReceiveResponse \/ ReceiveEnd) /\ WF_vars(Stop)

FairSpec == Spec /\ Fairness

-----------------------------------------------------------------------------
(* Properties.                                                             *)

Shown == Range(session.activePrompts) \cup Range(session.deferred)

\* A prompt on the screen waits for an answer, or its end is on the way, or the socket
\* has ended or will with the agent: replay, history limit and live frames never bring
\* back a prompt that is over.
NoStalePrompt ==
    \A p \in Shown :
        \/ prompt[p] = "pending"
        \/ \E i \in DOMAIN toWeb : toWeb[i].type \in Endings /\ toWeb[i].prompt = p
        \/ agent = "destroyed" \/ link = "closing"

\* No prompt is on the screen twice, however it got there.
ShownOnce == IsInjective(session.activePrompts \o session.deferred)

\* The first answer wins: terminal, timeout, any number of answers from the web, some of
\* them late or of another value for a prompt shown again after a break, and the end of
\* the session.
FirstAnswerWins ==
    [][\A p \in Prompts : prompt[p] \in Settlements => prompt'[p] = prompt[p]]_vars

\* Whether the web process can ever take up the agent again after it lost it: the replay
\* of a terminal has no end, and one that is too long for the buffer is cut off.  That
\* exempts terminals altogether.
Resumable == ~pty /\ Len(Replay) <= MaxPending

Replayed(p) == About("prompt_request", p) \in Range(history)

Attended(p) ==
    \/ prompt[p] # "pending" \/ agent # "running"
    \/ ~Resumable \/ ~Replayed(p)
    \/ p \in Range(session.activePrompts)

\* No prompt waits for ever without being shown, also when its answer got lost with the
\* connection, as long as the history still has it.  As everywhere here, the agent is one
\* that discovery accepts.
PromptIsShown == \A p \in Prompts : []<>Attended(p)

\* In the end the session is active if and only if the agent runs: breaks, a crash, a
\* restart of the web process and a shutdown are all noticed.  The agent is one discovery
\* accepts (no token, loopback); one that stays not Resumable is exempt.
FollowsAgent ==
    <>[](~Resumable) \/ <>[](session.status = "active" <=> agent = "running")

=============================================================================
