---------------------------- MODULE AgentSession ----------------------------
(***************************************************************************)
(* AgentSession (packages/coding-agent/src/core/agent-session.ts): what    *)
(* surrounds the runs of an Agent.  A call of prompt() starts a run, and   *)
(* after the run decides whether to retry after a delay, to compact the    *)
(* session and go on, to deliver queued messages or to return.  Meanwhile  *)
(* the owner steers, aborts and records the output of bash commands.       *)
(* A call of compact() unsubscribes the handler that saves the messages,    *)
(* aborts the run, and replaces the transcript by a summary.               *)
(*                                                                         *)
(* The run itself is module AgentLoop, at a coarser grain: one step per    *)
(* message, one for the listener that saves it.  A step of a call of       *)
(* prompt() is the code between two awaits; the continuations that are     *)
(* only microtasks apart (Urgent) run before anything else happens.        *)
(***************************************************************************)
EXTENDS PendingMessageQueue, Subsequences, FiniteSets, SequencesExt

CONSTANTS
    Prompters,        \* concurrent callers of prompt()
    NoOne,            \* none of them
    MaxUserMessages,  \* bound: user messages ever accepted
    MaxBashMessages,  \* bound: results of bash commands ever recorded
    MaxReplies,       \* bound: replies that fail or have tool calls
    MaxRetries,       \* settings.maxRetries
    MaxCompacts,      \* bound: calls of compact()
    Failures,         \* what the model's replies may be besides good
    QueueModes        \* modes the owner may switch the queues between

ASSUME AgentSessionAssumption ==
    /\ IsFiniteSet(Prompters) /\ NoOne \notin Prompters
    /\ MaxUserMessages \in Nat /\ MaxBashMessages \in Nat
    /\ MaxReplies \in Nat /\ MaxRetries \in Nat /\ MaxCompacts \in Nat
    /\ Failures \subseteq {"error", "fatal", "overflow", "silent"}
    /\ QueueModes \subseteq QueueMode

VARIABLES
    \* the session file's current branch, and agent.state.messages
    log, transcript,
    \* the Agent's queues, and the texts of them that are shown to the user
    steeringQueue, followUpQueue, steeringMessages, followUpMessages,
    \* the active run: whose it is, where it is, what it holds, the message
    \* whose message_end is being handled and where the run goes on after it
    owner, aborted, runPc, held, skipPoll, unsaved, afterSave,
    \* AgentSession's fields
    pendingBash, retryAttempt, overflowRecoveryAttempted,
    lastAssistantMessage, retryController,
    \* the calls of prompt(): where each is, in which loop, the message it
    \* sends, the reply it looks at and the compaction it waits for
    pc, phase, sending, msg, compaction,
    \* the call of compact(): where it is and how much it has seen; calls so
    \* far, and the messages that nobody has listened to
    byHand, compacts, unheard,
    \* history: next user and bash message, replies so far, automatic retries
    \* and overflow compactions since the last progress (a user message, bash
    \* output, a good reply or abortRetry()), messages accepted,
    \* messages that clearQueue returned, has a continue() thrown
    nextId, nextBash, replies, recoveries, accepted, cleared, threw

fileVars    == << log, transcript >>
agentQueues == << steeringQueue, followUpQueue >>
shownQueues == << steeringMessages, followUpMessages >>
runVars     == << owner, aborted, runPc, held, skipPoll, unsaved, afterSave >>
retryVars   == << retryAttempt, retryController >>
replyVars   == << overflowRecoveryAttempted, lastAssistantMessage >>
callVars    == << pc, phase, sending, msg, compaction >>
manualVars  == << byHand, compacts, unheard >>
historyVars == << nextId, nextBash, replies, recoveries, accepted, cleared,
                  threw, manualVars >>

vars == << fileVars, agentQueues, shownQueues, runVars, pendingBash, retryVars,
           replyVars, callVars, historyVars >>

-----------------------------------------------------------------------------
(* Messages and session entries *)

UserId == 1..MaxUserMessages

\* Where a run is, but for the handler of a message_end ("save").
RunPC == {"prompts", "turn", "tool", "poll", "pollMore", "pollFollowUps", "end"}

Stop == {"stop", "tools", "aborted", "error", "fatal", "overflow", "silent"}

UserMessage      == [kind : {"user"}, id : UserId,
                     via : {"prompt", "steer", "followUp"}]
BashMessage      == [kind : {"bash"}, id : 1..MaxBashMessages]
AssistantMessage == [kind : {"assistant"}, n : Nat, stop : Stop]
ToolResult       == [kind : {"result"}, n : Nat]
Message == UserMessage \union BashMessage \union AssistantMessage
             \union ToolResult

\* What a session holds: messages, and where it was compacted.
Entry == Message \union [kind : {"compaction"}, keep : Nat \ {0}, after : Nat]

User(id, via)  == [kind |-> "user", id |-> id, via |-> via]
Bash(id)       == [kind |-> "bash", id |-> id]
Reply(n, stop) == [kind |-> "assistant", n |-> n, stop |-> stop]
Result(n)      == [kind |-> "result", n |-> n]
Summary        == [kind |-> "summary"]
Compaction(keep, n) == [kind |-> "compaction", keep |-> keep, after |-> n]
NoMessage      == [kind |-> "none"]
NoCompaction   == [reason |-> "none", seen |-> 0]

\* What the model is shown: messages, and the summary of a compaction.
Shown == Message \union {Summary}

IsReply(m)  == m.kind = "assistant"
\* stopReason "error": retryable, not retryable, or a context overflow.  A
\* silent overflow is a reply with stopReason "stop" (or "length" and no output)
\* that used more than the context window.
IsFailed(m)   == IsReply(m) /\ m.stop \in {"error", "fatal", "overflow"}
IsOverflow(m) == m.stop \in {"overflow", "silent"}

IdsOf(ms) == { ms[i].id : i \in { j \in DOMAIN ms : ms[j].kind = "user" } }
Positions(ms, kinds) == { i \in DOMAIN ms : ms[i].kind \in kinds }

\* buildSessionContext: the last compaction's summary, the entries it kept and
\* those after it.
Messages(entries) == Only(entries, Message)
BuildSessionContext(entries) ==
    LET compactions == Positions(entries, {"compaction"})
    IN  IF compactions = {} THEN entries
        ELSE LET c == Max(compactions)
             IN  << Summary >>
                   \o Messages(SubSeq(entries, entries[c].keep, c - 1))
                   \o SubSeq(entries, c + 1, Len(entries))

\* prepareCompaction: where the kept entries may start (findCutPoint), never
\* at a tool result.  None if the session has just been compacted.
CutPoints(entries) ==
    LET compactions == Positions(entries, {"compaction"})
        start == IF compactions = {} THEN 1
                                     ELSE entries[Max(compactions)].keep
        valid == { i \in Positions(entries, {"user", "assistant", "bash"}) :
                     i >= start }
    IN  IF entries = << >> \/ Last(entries).kind = "compaction" THEN {}
        ELSE IF valid = {} THEN {start} ELSE valid

\* The error message of a failed run leaves the state, not the session.
WithoutLastReply(ms) ==
    IF ms # << >> /\ IsReply(Last(ms)) THEN Front(ms) ELSE ms

-----------------------------------------------------------------------------

\* compact() unsubscribes the handler of the Agent's events until it ends: it
\* waits for the run that it aborts, for its preparation and for its summary.
Disconnected(at, seen) == [at |-> at, seen |-> seen]
connected == byHand.at = "no"

Init ==
    /\ log = << >> /\ transcript = << >>
    /\ steeringQueue = << >> /\ followUpQueue = << >>
    /\ steeringMessages = << >> /\ followUpMessages = << >>
    /\ owner = NoOne /\ aborted = FALSE /\ runPc = "none" /\ held = << >>
    /\ skipPoll = FALSE /\ unsaved = NoMessage /\ afterSave = "none"
    /\ pendingBash = << >> /\ retryAttempt = 0 /\ retryController = NoOne
    /\ overflowRecoveryAttempted = FALSE /\ lastAssistantMessage = NoMessage
    /\ pc = [p \in Prompters |-> "idle"] /\ phase = [p \in Prompters |-> "main"]
    /\ sending = [p \in Prompters |-> 0]
    /\ msg = [p \in Prompters |-> NoMessage]
    /\ compaction = [p \in Prompters |-> NoCompaction]
    /\ nextId = 1 /\ nextBash = 1 /\ replies = 0 /\ recoveries = 0
    /\ accepted = {} /\ cleared = {} /\ threw = FALSE
    /\ byHand = Disconnected("no", 0) /\ compacts = 0 /\ unheard = {}

isStreaming == owner # NoOne

\* A call of prompt() between two awaits that only wait for microtasks.
Urgent == \E p \in Prompters : pc[p] \in {"post", "check", "continue", "return"}

hasQueuedMessages == steeringQueue # << >> \/ followUpQueue # << >>

Goto(p, where) == pc' = [pc EXCEPT ![p] = where]

\* The outcome of a check or a compaction: go on with continue() or not.  The
\* check before a prompt is sent ("before") ends in sending it; the loops after
\* a run ("pre" in prompt() itself, "main" in _runAgentPrompt) look at the
\* queues first.
Proceed(p, goOn) ==
    /\ Goto(p, CASE goOn \/ (phase[p] # "before" /\ hasQueuedMessages) ->
                        "continue"
                 [] ~goOn /\ phase[p] = "before" -> "starting"
                 [] OTHER -> "return")
    /\ phase' = IF goOn /\ phase[p] = "before" THEN [phase EXCEPT ![p] = "pre"]
                                               ELSE phase
    /\ msg' = [msg EXCEPT ![p] = NoMessage]

\* Mutant of FlushPendingBashMessages: the session file is forgotten.
FlushToTranscriptOnly ==
    /\ transcript' = transcript \o pendingBash
    /\ pendingBash' = << >>
    /\ recoveries' = IF pendingBash = << >> THEN recoveries ELSE 0
    /\ UNCHANGED log

FlushPendingBashMessages ==
    /\ transcript' = transcript \o pendingBash
    /\ log' = log \o pendingBash
    /\ pendingBash' = << >>
    /\ recoveries' = IF pendingBash = << >> THEN recoveries ELSE 0

-----------------------------------------------------------------------------
(* A run of the Agent (owner) and the handler of its events *)

\* prompt(), or continue() with drained messages, of the Agent.
BeginRun(p, prompts, skip) ==
    /\ owner' = p /\ aborted' = FALSE
    /\ held' = prompts /\ skipPoll' = skip
    /\ runPc' = "prompts"
    /\ Goto(p, "run")
    /\ UNCHANGED << unsaved, afterSave >>

\* A message enters the transcript; the handler of its message_end is running,
\* unless it is disconnected.
Push(m, next) ==
    /\ transcript' = Append(transcript, m)
    /\ IF connected
       THEN /\ unsaved' = m /\ afterSave' = next /\ runPc' = "save"
            /\ UNCHANGED unheard
       ELSE /\ runPc' = next /\ unheard' = unheard \union {m}
            /\ UNCHANGED << unsaved, afterSave >>
    /\ UNCHANGED << byHand, compacts >>

\* A text leaves a list that is shown.
Without(ids, id) == Only(ids, UserId \ {id})

\* Mutant of Announce: only the list of steering messages is updated.
AnnounceFromSteering ==
    /\ runPc \in {"prompts", "turn"} /\ held # << >>
    /\ Push(Head(held), runPc)
    /\ steeringMessages' = Without(steeringMessages, Head(held).id)
    /\ held' = Tail(held)
    /\ overflowRecoveryAttempted' = FALSE
    /\ recoveries' = 0
    /\ UNCHANGED << log, agentQueues, followUpMessages, owner, aborted,
                    skipPoll, pendingBash, retryVars, lastAssistantMessage,
                    callVars, nextId, nextBash, replies, accepted, cleared,
                    threw >>

\* A prompt or queued message.  The handler of message_start removes it from
\* the list that is shown.
Announce ==
    /\ runPc \in {"prompts", "turn"} /\ held # << >>
    /\ LET m == Head(held) IN
         /\ Push(m, runPc)
         /\ \/ ~connected /\ UNCHANGED shownQueues
            \/ /\ connected /\ Contains(steeringMessages, m.id)
               /\ steeringMessages' = Without(steeringMessages, m.id)
               /\ UNCHANGED followUpMessages
            \/ /\ connected /\ ~Contains(steeringMessages, m.id)
               /\ followUpMessages' = Without(followUpMessages, m.id)
               /\ UNCHANGED steeringMessages
    /\ held' = Tail(held)
    /\ overflowRecoveryAttempted' = (overflowRecoveryAttempted /\ ~connected)
    /\ recoveries' = 0
    /\ UNCHANGED << log, agentQueues, owner, aborted, skipPoll, pendingBash,
                    retryVars, lastAssistantMessage, callVars, nextId, nextBash,
                    replies, accepted, cleared, threw >>

\* The model's reply.  Past the bound it is good and asks for no more tools.
Replies ==
    {"stop"} \union (IF aborted THEN {"aborted"} ELSE {})
             \union (IF replies < MaxReplies THEN Failures \union {"tools"}
                                             ELSE {})

ModelReplies(stop) ==
    /\ runPc = "turn" /\ held = << >>
    /\ Push(Reply(replies + 1, stop),
            CASE stop = "tools"               -> "tool"
              [] stop \in {"stop", "silent"} -> "poll"
              [] OTHER                        -> "end")
    /\ replies' = replies + 1
    /\ UNCHANGED << log, agentQueues, shownQueues, owner, aborted, held,
                    skipPoll, pendingBash, retryVars, replyVars, callVars,
                    nextId, nextBash, recoveries, accepted, cleared, threw >>

ToolEnds ==
    /\ runPc = "tool"
    /\ Push(Result(replies), "pollMore")
    /\ UNCHANGED << log, agentQueues, shownQueues, owner, aborted, held,
                    skipPoll, pendingBash, retryVars, replyVars, callVars,
                    nextId, nextBash, replies, recoveries, accepted, cleared,
                    threw >>

\* Mutant of Save: the messages of an aborted run are not persisted.
SaveUnlessAborted ==
    /\ runPc = "save"
    /\ log' = IF aborted THEN log ELSE Append(log, unsaved)
    /\ runPc' = afterSave /\ afterSave' = "none"
    /\ unsaved' = NoMessage
    /\ UNCHANGED << transcript, agentQueues, shownQueues, owner, aborted, held,
                    skipPoll, pendingBash, retryVars, replyVars, callVars,
                    historyVars >>

\* _handleAgentEvent on message_end, after the extensions have seen it.
Save ==
    /\ runPc = "save"
    /\ log' = Append(log, unsaved)
    /\ runPc' = afterSave /\ afterSave' = "none"
    /\ unsaved' = NoMessage
    /\ IF IsReply(unsaved)
       THEN /\ lastAssistantMessage' = unsaved
            /\ overflowRecoveryAttempted' =
                 (overflowRecoveryAttempted /\ IsFailed(unsaved))
            /\ retryAttempt' = IF IsFailed(unsaved) THEN retryAttempt ELSE 0
            /\ recoveries' = IF IsFailed(unsaved) THEN recoveries ELSE 0
       ELSE UNCHANGED << replyVars, retryAttempt, recoveries >>
    /\ UNCHANGED << transcript, agentQueues, shownQueues, owner, aborted, held,
                    skipPoll, pendingBash, retryController,
                    callVars, nextId, nextBash, replies, accepted, cleared,
                    threw, manualVars >>

PollSteering ==
    /\ runPc \in {"prompts", "poll", "pollMore"} /\ held = << >>
    /\ IF skipPoll THEN UNCHANGED << steeringQueue, held >>
       ELSE \E mode \in QueueModes :
              /\ held' = Drained(steeringQueue, mode)
              /\ steeringQueue' = Remaining(steeringQueue, mode)
    /\ skipPoll' = FALSE
    /\ runPc' = IF runPc # "poll" \/ held' # << >> THEN "turn"
                                                   ELSE "pollFollowUps"
    /\ UNCHANGED << fileVars, followUpQueue, shownQueues, owner, aborted,
                    unsaved, afterSave, pendingBash, retryVars, replyVars,
                    callVars, historyVars >>

PollFollowUps ==
    /\ runPc = "pollFollowUps"
    /\ \E mode \in QueueModes :
         /\ held' = Drained(followUpQueue, mode)
         /\ followUpQueue' = Remaining(followUpQueue, mode)
    /\ runPc' = IF held' # << >> THEN "turn" ELSE "end"
    /\ UNCHANGED << fileVars, steeringQueue, shownQueues, owner, aborted,
                    skipPoll, unsaved, afterSave, pendingBash, retryVars,
                    replyVars, callVars, historyVars >>

\* Mutant of RunEnds: an aborted run never resolves its caller's await.
RunEndsUnlessAborted ==
    /\ runPc = "end"
    /\ owner' = NoOne /\ aborted' = FALSE /\ runPc' = "none"
    /\ IF aborted THEN UNCHANGED pc ELSE Goto(owner, "post")
    /\ UNCHANGED << fileVars, agentQueues, shownQueues, held, skipPoll,
                    unsaved, afterSave, pendingBash, retryVars, replyVars,
                    phase, sending, msg, compaction, historyVars >>

\* Mutant of RunEnds: compact() still waits for the run.
RunEndsUnnoticed ==
    /\ runPc = "end"
    /\ owner' = NoOne /\ aborted' = FALSE /\ runPc' = "none"
    /\ Goto(owner, "post")
    /\ UNCHANGED << fileVars, agentQueues, shownQueues, held, skipPoll,
                    unsaved, afterSave, pendingBash, retryVars, replyVars,
                    phase, sending, msg, compaction, historyVars >>

\* agent_end and finishRun: the caller's await is over, and that of compact().
RunEnds ==
    /\ runPc = "end"
    /\ owner' = NoOne /\ aborted' = FALSE /\ runPc' = "none"
    /\ Goto(owner, "post")
    /\ byHand' = IF byHand.at = "abort" THEN Disconnected("prepare", 0)
                                       ELSE byHand
    /\ UNCHANGED << fileVars, agentQueues, shownQueues, held, skipPoll,
                    unsaved, afterSave, pendingBash, retryVars, replyVars,
                    phase, sending, msg, compaction, nextId, nextBash, replies,
                    recoveries, accepted, cleared, threw, compacts, unheard >>

RunStep ==
    /\ ~Urgent
    /\ \/ Announce \/ \E stop \in Replies : ModelReplies(stop)
       \/ ToolEnds \/ Save \/ PollSteering \/ PollFollowUps \/ RunEnds

-----------------------------------------------------------------------------
(* After a run: _handlePostAgentRun, _prepareRetry, _checkCompaction *)

Retryable(m) == IsReply(m) /\ m.stop = "error"

\* The retry is announced and the failed reply removed; now the delay.
PrepareRetry(p) ==
    /\ pc[p] = "post"
    /\ Retryable(lastAssistantMessage) /\ retryAttempt < MaxRetries
    /\ retryAttempt' = retryAttempt + 1
    /\ transcript' = WithoutLastReply(transcript)
    /\ retryController' = p
    /\ msg' = [msg EXCEPT ![p] = lastAssistantMessage]
    /\ lastAssistantMessage' = NoMessage
    /\ Goto(p, "sleep")
    /\ recoveries' = recoveries + 1
    /\ UNCHANGED << log, agentQueues, shownQueues, runVars, pendingBash,
                    overflowRecoveryAttempted, phase, sending, compaction,
                    nextId, nextBash, replies, accepted, cleared, threw,
                    manualVars >>

\* Every reply of the run went unheard.
NothingHeard(p) ==
    /\ pc[p] = "post" /\ lastAssistantMessage = NoMessage
    /\ Goto(p, "return")
    /\ UNCHANGED << fileVars, agentQueues, shownQueues, runVars, pendingBash,
                    retryVars, replyVars, phase, sending, msg, compaction,
                    historyVars >>

\* No retry: a failure that remains ends the count.
NoRetry(p) ==
    /\ pc[p] = "post" /\ lastAssistantMessage # NoMessage
    /\ ~(Retryable(lastAssistantMessage) /\ retryAttempt < MaxRetries)
    /\ retryAttempt' = IF IsFailed(lastAssistantMessage) THEN 0
                                                         ELSE retryAttempt
    /\ msg' = [msg EXCEPT ![p] = lastAssistantMessage]
    /\ lastAssistantMessage' = NoMessage
    /\ Goto(p, "check")
    /\ UNCHANGED << fileVars, agentQueues, shownQueues, runVars, pendingBash,
                    retryController, overflowRecoveryAttempted, phase, sending,
                    compaction, historyVars >>

SleepEnds(p) ==
    /\ ~Urgent /\ pc[p] = "sleep"
    /\ retryController' = NoOne
    /\ Goto(p, "continue")
    /\ msg' = [msg EXCEPT ![p] = NoMessage]
    /\ UNCHANGED << fileVars, agentQueues, shownQueues, runVars, pendingBash,
                    retryAttempt, replyVars, phase, sending, compaction,
                    historyVars >>

\* Replies that are aborted or older than the last compaction are not checked.
Exempt(p) ==
    LET compactions == Positions(log, {"compaction"})
    IN  \/ phase[p] # "before" /\ msg[p].stop = "aborted"
        \/ compactions # {} /\ msg[p].n <= log[Max(compactions)].after

\* Nothing to compact, or the second overflow in a row.
NoCompactionNeeded(p) ==
    /\ pc[p] = "check"
    /\ \/ Exempt(p) \/ ~IsOverflow(msg[p]) \/ overflowRecoveryAttempted
    /\ Proceed(p, FALSE)
    /\ UNCHANGED << fileVars, agentQueues, shownQueues, runVars, pendingBash,
                    retryVars, replyVars, sending, compaction, historyVars >>

\* _runAutoCompaction up to the model's summary of what the session holds, now
\* or once the credentials of the model have been looked up (getBranch()).
StartCompaction(p, reason) ==
    /\ Goto(p, "compact")
    /\ compaction' = [compaction EXCEPT ![p] = [reason |-> reason,
                                                seen   |-> Len(log)]]
    /\ UNCHANGED << log, agentQueues, shownQueues, runVars, pendingBash,
                    retryVars, lastAssistantMessage, phase, sending, msg,
                    historyVars >>

\* Mutant of RecoverFromOverflow: recovery is tried after every overflow.
RecoverFromEveryOverflow(p) ==
    /\ pc[p] = "check" /\ ~Exempt(p) /\ IsOverflow(msg[p])
    /\ overflowRecoveryAttempted' = TRUE
    /\ transcript' = WithoutLastReply(transcript)
    /\ StartCompaction(p, "overflow")

RecoverFromOverflow(p) ==
    /\ pc[p] = "check" /\ ~Exempt(p)
    /\ IsOverflow(msg[p]) /\ ~overflowRecoveryAttempted
    /\ overflowRecoveryAttempted' = TRUE
    /\ transcript' = WithoutLastReply(transcript)
    /\ StartCompaction(p, "overflow")

\* The size of the context is that of the reply or, if the reply failed, of the
\* last good one, unless there is none since the last compaction.
Measurable(p) ==
    LET good        == { m \in AssistantMessage :
                           ~IsFailed(m) /\ m.stop # "aborted" }
        measured    == Only(transcript, good)
        compactions == Positions(log, {"compaction"})
    IN  IsFailed(msg[p]) =>
          /\ measured # << >>
          /\ compactions # {} =>
               Last(measured).n > log[Max(compactions)].after

\* The context has grown over the threshold.
CompactAtThreshold(p) ==
    /\ pc[p] = "check" /\ ~Exempt(p) /\ ~IsOverflow(msg[p]) /\ Measurable(p)
    /\ StartCompaction(p, "threshold")
    /\ UNCHANGED << transcript, overflowRecoveryAttempted >>

EndCompaction(p) ==
    /\ ~Urgent /\ pc[p] = "compact"
    /\ compaction' = [compaction EXCEPT ![p] = NoCompaction]
    /\ UNCHANGED << agentQueues, shownQueues, runVars, pendingBash, retryVars,
                    replyVars, sending, nextId, nextBash, replies, accepted,
                    cleared, threw, manualVars >>

\* appendCompaction: the first entry kept is one that there was at the start.  A
\* reply is as old as its request.
AppendCompaction(seen) ==
    LET requests == IF runPc = "turn" /\ held = << >> THEN replies + 1
                                                      ELSE replies
    IN  \E keep \in CutPoints(SubSeq(log, 1, seen)) :
           log' = Append(log, Compaction(keep, requests))

CompactionSucceeds(p) ==
    LET context == BuildSessionContext(log')
    IN  /\ EndCompaction(p)
        /\ \E seen \in compaction[p].seen..Len(log) : AppendCompaction(seen)
        /\ IF compaction[p].reason = "overflow"
           THEN /\ transcript' = IF IsFailed(Last(context)) THEN Front(context)
                                                            ELSE context
                /\ recoveries' = recoveries + 1
                /\ Proceed(p, TRUE)
           ELSE /\ transcript' = context
                /\ Proceed(p, hasQueuedMessages)
                /\ UNCHANGED recoveries

\* Nothing to summarise, no model, an error, or cancelled.
CompactionFails(p) ==
    /\ EndCompaction(p)
    /\ Proceed(p, FALSE)
    /\ UNCHANGED << fileVars, recoveries >>

-----------------------------------------------------------------------------
(* agent.continue() and the end of the loop *)

ContinueFrom(p, prompts, skip) ==
    /\ BeginRun(p, prompts, skip)
    /\ UNCHANGED << fileVars, shownQueues, pendingBash, retryVars, replyVars,
                    phase, sending, msg, compaction, historyVars >>

EndsWithReply == transcript # << >> /\ IsReply(Last(transcript))

ContinueTranscript(p) ==
    /\ pc[p] = "continue" /\ ~isStreaming
    /\ transcript # << >> /\ ~EndsWithReply
    /\ ContinueFrom(p, << >>, FALSE)
    /\ UNCHANGED agentQueues

ContinueWithQueue(p) ==
    /\ pc[p] = "continue" /\ ~isStreaming /\ EndsWithReply
    /\ \E mode \in QueueModes :
         IF steeringQueue # << >>
         THEN /\ ContinueFrom(p, Drained(steeringQueue, mode), TRUE)
              /\ steeringQueue' = Remaining(steeringQueue, mode)
              /\ UNCHANGED followUpQueue
         ELSE /\ followUpQueue # << >>
              /\ ContinueFrom(p, Drained(followUpQueue, mode), FALSE)
              /\ followUpQueue' = Remaining(followUpQueue, mode)
              /\ UNCHANGED steeringQueue

\* A run is active, or there is nothing to continue from.  finally flushes the
\* bash messages, and prompt() rejects.
ContinueThrows(p) ==
    /\ pc[p] = "continue"
    /\ \/ isStreaming \/ transcript = << >>
       \/ EndsWithReply /\ ~hasQueuedMessages
    /\ threw' = TRUE
    /\ FlushPendingBashMessages
    /\ Goto(p, "idle")
    /\ sending' = [sending EXCEPT ![p] = 0]
    /\ phase' = [phase EXCEPT ![p] = "main"]
    /\ UNCHANGED << agentQueues, shownQueues, runVars, retryVars, replyVars,
                    msg, compaction, nextId, nextBash, replies, accepted,
                    cleared, manualVars >>

Return(p) ==
    /\ pc[p] = "return"
    /\ FlushPendingBashMessages
    /\ Goto(p, IF phase[p] = "pre" THEN "starting" ELSE "idle")
    /\ UNCHANGED << agentQueues, shownQueues, runVars, retryVars, replyVars,
                    phase, sending, msg, compaction, nextId, nextBash, replies,
                    accepted, cleared, threw, manualVars >>

-----------------------------------------------------------------------------
(* prompt() *)

\* While no run is active: flush, and check the context before sending.  (A
\* prompt during a run is queued: Steer or FollowUp.)
Prompt(p) ==
    LET repliesSoFar == Only(transcript, AssistantMessage)
    IN  /\ pc[p] = "idle" /\ ~isStreaming /\ nextId \in UserId
        /\ sending' = [sending EXCEPT ![p] = nextId]
        /\ nextId' = nextId + 1
        /\ FlushPendingBashMessages
        /\ phase' = [phase EXCEPT ![p] = "before"]
        /\ IF repliesSoFar = << >>
           THEN Goto(p, "starting") /\ UNCHANGED msg
           ELSE /\ Goto(p, "check")
                /\ msg' = [msg EXCEPT ![p] = Last(repliesSoFar)]
        /\ UNCHANGED << agentQueues, shownQueues, runVars, retryVars, replyVars,
                        compaction, nextBash, replies, accepted, cleared, threw,
                        manualVars >>

\* preflightResult(true), then _runAgentPrompt.  The Agent refuses the prompt
\* if a run has begun since prompt() looked: it rejects, after the flush.
Send(p) ==
    /\ ~Urgent /\ pc[p] = "starting"
    /\ accepted' = accepted \union {sending[p]}
    /\ phase' = [phase EXCEPT ![p] = "main"]
    /\ sending' = [sending EXCEPT ![p] = 0]
    /\ IF isStreaming
       THEN /\ FlushPendingBashMessages
            /\ Goto(p, "idle")
            /\ UNCHANGED runVars
       ELSE /\ BeginRun(p, << User(sending[p], "prompt") >>, FALSE)
            /\ UNCHANGED << fileVars, pendingBash, recoveries >>
    /\ UNCHANGED << agentQueues, shownQueues, retryVars, replyVars, msg,
                    compaction, nextId, nextBash, replies, cleared, threw,
                    manualVars >>

CallStep(p) ==
    \/ PrepareRetry(p) \/ NoRetry(p) \/ NothingHeard(p) \/ SleepEnds(p)
    \/ NoCompactionNeeded(p) \/ RecoverFromOverflow(p) \/ CompactAtThreshold(p)
    \/ CompactionSucceeds(p) \/ CompactionFails(p)
    \/ ContinueTranscript(p) \/ ContinueWithQueue(p) \/ ContinueThrows(p)
    \/ Return(p) \/ Send(p)

-----------------------------------------------------------------------------
(* The other operations, at any time *)

Accept(via) ==
    /\ nextId \in UserId
    /\ nextId' = nextId + 1
    /\ accepted' = accepted \union {nextId}
    /\ UNCHANGED << fileVars, runVars, pendingBash, retryVars, replyVars,
                    callVars, nextBash, replies, recoveries, cleared, threw,
                    manualVars >>

\* _queueSteer, _queueFollowUp
Steer ==
    /\ Accept("steer")
    /\ steeringMessages' = Append(steeringMessages, nextId)
    /\ steeringQueue' = Enqueue(steeringQueue, User(nextId, "steer"))
    /\ UNCHANGED << followUpQueue, followUpMessages >>

FollowUp ==
    /\ Accept("followUp")
    /\ followUpMessages' = Append(followUpMessages, nextId)
    /\ followUpQueue' = Enqueue(followUpQueue, User(nextId, "followUp"))
    /\ UNCHANGED << steeringQueue, steeringMessages >>

\* clearQueue: the owner gets the texts that are shown, among them those that a
\* run has taken already and goes on to announce.
ClearQueue ==
    /\ cleared' = cleared \union ToSet(steeringMessages \o followUpMessages)
    /\ steeringMessages' = << >> /\ followUpMessages' = << >>
    /\ steeringQueue' = << >> /\ followUpQueue' = << >>
    /\ UNCHANGED << fileVars, runVars, pendingBash, retryVars, replyVars,
                    callVars, nextId, nextBash, replies, recoveries, accepted,
                    threw, manualVars >>

\* abortRetry: the delay of the latest retry rejects, and its caller goes on
\* without retrying.
AbortRetry ==
    /\ retryController # NoOne
    /\ retryController' = NoOne
    /\ retryAttempt' = 0 /\ recoveries' = 0
    /\ Goto(retryController, "check")
    /\ UNCHANGED << fileVars, agentQueues, shownQueues, runVars, pendingBash,
                    replyVars, phase, sending, msg, compaction, nextId,
                    nextBash, replies, accepted, cleared, threw,
                    manualVars >>

\* abort() aborts a retry and the active run.
Abort ==
    /\ isStreaming /\ ~aborted
    /\ aborted' = TRUE
    /\ IF retryController = NoOne
       THEN UNCHANGED << pc, retryVars >>
       ELSE /\ retryController' = NoOne
            /\ retryAttempt' = 0
            /\ Goto(retryController, "check")
    /\ UNCHANGED << fileVars, agentQueues, shownQueues, owner, runPc, held,
                    skipPoll, unsaved, afterSave, pendingBash, replyVars, phase,
                    sending, msg, compaction, historyVars >>

\* compact(): disconnects, aborts a retry and the active run, ...
Compact ==
    /\ connected /\ compacts < MaxCompacts
    /\ compacts' = compacts + 1
    /\ byHand' = Disconnected(IF isStreaming THEN "abort" ELSE "prepare", 0)
    /\ aborted' = isStreaming
    /\ IF retryController = NoOne
       THEN UNCHANGED << pc, retryVars, recoveries >>
       ELSE /\ retryController' = NoOne
            /\ retryAttempt' = 0 /\ recoveries' = 0
            /\ Goto(retryController, "check")
    /\ UNCHANGED << fileVars, agentQueues, shownQueues, owner, runPc, held,
                    skipPoll, unsaved, afterSave, pendingBash, replyVars, phase,
                    sending, msg, compaction, nextId, nextBash, replies,
                    accepted, cleared, threw, unheard >>

CompactStep ==
    /\ ~Urgent
    /\ UNCHANGED << agentQueues, shownQueues, runVars, pendingBash, retryVars,
                    replyVars, callVars, nextId, nextBash, replies, recoveries,
                    accepted, cleared, threw, compacts, unheard >>

\* ... has a summary made of what the session holds by now, ...
PrepareCompact ==
    /\ CompactStep /\ byHand.at = "prepare"
    /\ CutPoints(log) # {} /\ byHand' = Disconnected("summary", Len(log))
    /\ UNCHANGED fileVars

\* ... saves it, shows it in place of the transcript, and listens again.
CompactSucceeds ==
    /\ CompactStep /\ byHand.at = "summary"
    /\ AppendCompaction(byHand.seen)
    /\ transcript' = BuildSessionContext(log')
    /\ byHand' = Disconnected("no", 0)

\* No model, nothing to compact, an error, or cancelled.
CompactFails ==
    /\ CompactStep /\ byHand.at \in {"prepare", "summary"}
    /\ byHand' = Disconnected("no", 0)
    /\ UNCHANGED fileVars

\* Mutant of RecordBashResult: the output is not deferred.
RecordBashResultAtOnce ==
    /\ nextBash <= MaxBashMessages
    /\ nextBash' = nextBash + 1
    /\ transcript' = Append(transcript, Bash(nextBash))
    /\ log' = Append(log, Bash(nextBash))
    /\ UNCHANGED << agentQueues, shownQueues, runVars, pendingBash, retryVars,
                    replyVars, callVars, nextId, replies, recoveries, accepted,
                    cleared, threw, manualVars >>

\* recordBashResult: not into a run's transcript.
RecordBashResult ==
    /\ nextBash <= MaxBashMessages
    /\ nextBash' = nextBash + 1
    /\ IF isStreaming
       THEN /\ pendingBash' = Append(pendingBash, Bash(nextBash))
            /\ UNCHANGED << fileVars, recoveries >>
       ELSE /\ transcript' = Append(transcript, Bash(nextBash))
            /\ log' = Append(log, Bash(nextBash))
            /\ recoveries' = 0
            /\ UNCHANGED pendingBash
    /\ UNCHANGED << agentQueues, shownQueues, runVars, retryVars, replyVars,
                    callVars, nextId, replies, accepted, cleared, threw,
                    manualVars >>

Operation ==
    /\ ~Urgent
    /\ \/ \E p \in Prompters : Prompt(p)
       \/ Steer \/ FollowUp \/ ClearQueue
       \/ AbortRetry \/ Abort \/ RecordBashResult \/ Compact

Progress ==
    \/ RunStep \/ \E p \in Prompters : CallStep(p)
    \/ PrepareCompact \/ CompactSucceeds \/ CompactFails

Next == Progress \/ Operation

Spec == Init /\ [][Next]_vars

\* The model, the tools and the compaction settle, and delays pass.
FairSpec == Spec /\ WF_vars(Progress)

\* What a step or recovery depends on.  Which messages were accepted and which
\* cleared is a record that no guard reads: states that differ in nothing else
\* behave alike.
RecoveryView ==
    << fileVars, agentQueues, shownQueues, runVars, pendingBash, retryVars,
       replyVars, callVars, nextId, nextBash, replies, recoveries, threw,
       manualVars >>

-----------------------------------------------------------------------------
(* Properties *)

FileTypes ==
    /\ log \in Seq(Entry) /\ transcript \in Seq(Shown)
    /\ pendingBash \in Seq(BashMessage)

QueueTypes ==
    /\ steeringQueue \in Seq(UserMessage) /\ followUpQueue \in Seq(UserMessage)
    /\ steeringMessages \in Seq(UserId) /\ followUpMessages \in Seq(UserId)
    /\ held \in Seq(UserMessage)

RunTypes ==
    /\ owner \in Prompters \union {NoOne} /\ aborted \in BOOLEAN
    /\ runPc \in RunPC \union {"none", "save"}
    /\ skipPoll \in BOOLEAN
    /\ IF runPc = "save" THEN unsaved \in Message /\ afterSave \in RunPC
                         ELSE unsaved = NoMessage /\ afterSave = "none"

FieldTypes ==
    /\ retryAttempt \in 0..MaxRetries
    /\ retryController \in Prompters \union {NoOne}
    /\ overflowRecoveryAttempted \in BOOLEAN
    /\ lastAssistantMessage \in AssistantMessage \union {NoMessage}

CallTypes ==
    /\ pc \in [Prompters -> {"idle", "starting", "run", "post", "sleep",
                             "check", "compact", "continue", "return"}]
    /\ phase \in [Prompters -> {"before", "pre", "main"}]
    /\ sending \in [Prompters -> UserId \union {0}]
    /\ msg \in [Prompters -> AssistantMessage \union {NoMessage}]
    /\ compaction \in [Prompters -> [reason : {"none", "overflow", "threshold"},
                                     seen   : 0..Len(log)]]

ManualTypes ==
    /\ byHand \in [at   : {"no", "abort", "prepare", "summary"},
                   seen : 0..Len(log)]
    /\ byHand.at = "abort" => isStreaming /\ aborted
    /\ compacts \in 0..MaxCompacts /\ unheard \subseteq Message

HistoryTypes ==
    /\ nextId \in 1..(MaxUserMessages + 1)
    /\ nextBash \in 1..(MaxBashMessages + 1)
    /\ replies \in Nat /\ recoveries \in Nat
    /\ accepted \subseteq UserId /\ cleared \subseteq UserId
    /\ threw \in BOOLEAN

\* Every variable has its type.
TypeOK == FileTypes /\ QueueTypes /\ RunTypes /\ FieldTypes /\ CallTypes
            /\ ManualTypes /\ HistoryTypes

\* The user messages that were announced while compact() had disconnected the
\* handler.
UnheardIds == { m.id : m \in { u \in unheard : u.kind = "user" } }

\* What a reload of the session file would show the model is what the Agent
\* shows it now: every way to put a message into the transcript, or to take one
\* out, does the same to the session.  Aside are failed replies and what was not
\* heard, and replies that overflowed silently, which recovery takes for failed.
ReloadShowsTheTranscript ==
    LET Good == { m \in Shown \ unheard :
                    IsReply(m) => ~IsFailed(m) /\ ~IsOverflow(m) }
    IN  runPc # "save" =>
          Only(BuildSessionContext(log), Good) = Only(transcript, Good)

\* The result of a tool call directly follows the call, in the transcript and
\* in the session: bash messages are deferred "to avoid breaking
\* tool_use/tool_result ordering" (recordBashResult).  A result that compact()
\* has kept from the session may be missing, but not come later.
BashNeverSplitsACall ==
    \A ms \in {log, transcript} : \A i \in 1..(Len(ms) - 1) :
      IsReply(ms[i]) /\ ms[i].stop = "tools" =>
        \/ ms[i + 1] = Result(ms[i].n)
        \/ Result(ms[i].n) \in unheard \ ToSet(ms)

\* The lists shown to the user are the Agent's queues, and the messages a run
\* has taken from them and not announced yet.  What was announced unheard is
\* still shown.
ShownQueuesAreTheQueues ==
    LET Ids(ms) == [i \in DOMAIN ms |-> ms[i].id]
        Held(via) == Only(held, { User(id, via) : id \in UserId \ cleared })
        Heard(ids) == Only(ids, UserId \ UnheardIds)
    IN  /\ Heard(steeringMessages) = Ids(Held("steer") \o steeringQueue)
        /\ Heard(followUpMessages) = Ids(Held("followUp") \o followUpQueue)

\* A message that was accepted is in the session, or about to be, or the owner
\* has cleared it ("success: true means the prompt was accepted, queued, or
\* handled immediately", docs/rpc.md).  Only what was announced unheard may be
\* in neither.
AcceptedMessagesAreKept ==
    accepted \subseteq IdsOf(log) \union IdsOf(held) \union IdsOf(<< unsaved >>)
                         \union IdsOf(steeringQueue \o followUpQueue)
                         \union cleared \union UnheardIds

\* Recovery is bounded although replies may fail forever: until a user message,
\* bash output or a good reply enters the transcript (or the owner calls
\* abortRetry()) every retry is spent at most once before and once after the
\* single compaction of an overflow.
RecoveryIsBounded == recoveries <= 2 * MaxRetries + 1

\* Whenever the loop after a run decides to go on, continue() can: a retry, a
\* recovered overflow and queued messages all leave something to answer.
ContinueNeverThrows == ~threw

\* Every call of prompt() returns, whatever the model replies.
PromptReturns ==
    \A p \in Prompters : pc[p] # "idle" ~> pc[p] = "idle"

=============================================================================
