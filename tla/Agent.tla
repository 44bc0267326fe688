-------------------------------- MODULE Agent --------------------------------
(***************************************************************************)
(* The class Agent (packages/agent/src/agent.ts): the public operations    *)
(* that the embedding program may call between any two steps of a run, the *)
(* lifecycle of a run, and what happens when a run throws.                 *)
(***************************************************************************)
EXTENDS AgentLoop

-----------------------------------------------------------------------------
(* Lifecycle *)

Init ==
    /\ messages = << >> /\ streamingMessage = NoMessage
    /\ pendingToolCalls = {} /\ isStreaming = FALSE
    /\ steeringQueue = << >> /\ followUpQueue = << >>
    /\ activeRun = FALSE /\ aborted = FALSE /\ stragglers = {}
    /\ pc = "idle"
    /\ context = << >> /\ newMessages = << >> /\ pendingMessages = << >>
    /\ skipInitialSteeringPoll = FALSE /\ hasMoreToolCalls = FALSE /\ turn = 0
    /\ reply = NoMessage /\ executionMode = "parallel" /\ call = 0
    /\ status = [c \in Call |-> "todo"] /\ terminating = {} /\ nextResult = 1
    /\ nextId = 1 /\ runStart = 0 /\ resetInRun = FALSE /\ discarded = {}
    /\ reported = << >> /\ agentEnded = FALSE

\* runWithLifecycle around runAgentLoop(prompts) or, without prompts,
\* runAgentLoopContinue: up to the first message event.
BeginRun(prompts, skipPoll) ==
    /\ ~activeRun /\ pc = "idle"
    /\ activeRun' = TRUE /\ aborted' = FALSE
    /\ isStreaming' = TRUE /\ streamingMessage' = NoMessage
    /\ context' = messages \o prompts
    /\ newMessages' = prompts
    /\ pendingMessages' = prompts
    /\ skipInitialSteeringPoll' = skipPoll
    /\ hasMoreToolCalls' = TRUE
    /\ runStart' = Len(messages)
    /\ Emit("turn_start")
    /\ pc' = "prompt"
    /\ UNCHANGED << messages, pendingToolCalls, stragglers, turn, batchVars,
                    resetInRun, reported >>

\* The locals of runLoop go out of scope, batch included; after a throw, reply
\* is the message that handleRunFailure makes up.
LeaveLoop(last) ==
    /\ context' = << >> /\ newMessages' = << >> /\ pendingMessages' = << >>
    /\ skipInitialSteeringPoll' = FALSE /\ hasMoreToolCalls' = FALSE
    /\ reply' = last /\ executionMode' = "parallel" /\ call' = 0
    /\ status' = [c \in Call |-> "todo"] /\ terminating' = {}
    /\ nextResult' = 1

\* Mutant of FinishRun: the active run is not cleared after an aborted one.
FinishRunUnlessAborted ==
    /\ pc \in {"settle", "failed"}
    /\ isStreaming' = FALSE /\ streamingMessage' = NoMessage
    /\ pendingToolCalls' = {}
    /\ activeRun' = aborted
    /\ reported' = << >> /\ agentEnded' = FALSE /\ runStart' = 0
    /\ pc' = "idle"
    /\ LeaveLoop(NoMessage)
    /\ UNCHANGED << messages, queueVars, aborted, stragglers, turn, nextId,
                    resetInRun, discarded >>

\* finishRun
FinishRun ==
    /\ pc \in {"settle", "failed"}
    /\ isStreaming' = FALSE /\ streamingMessage' = NoMessage
    /\ pendingToolCalls' = {}
    /\ activeRun' = FALSE
    /\ reported' = << >> /\ agentEnded' = FALSE /\ runStart' = 0
    /\ pc' = "idle"
    /\ LeaveLoop(NoMessage)
    /\ UNCHANGED << messages, queueVars, aborted, stragglers, turn, nextId,
                    resetInRun, discarded >>

-----------------------------------------------------------------------------
(* prompt() and continue(); both throw while a run is active *)

Prompt ==
    /\ nextId \in UserId
    /\ BeginRun(<< User(nextId, "prompt") >>, FALSE)
    /\ nextId' = nextId + 1
    /\ UNCHANGED << queueVars, discarded >>

LastIsAssistant ==
    messages # << >> /\ messages[Len(messages)].role = "assistant"

ContinueTranscript ==
    /\ messages # << >> /\ ~LastIsAssistant
    /\ turn < MaxTurns
    /\ BeginRun(<< >>, FALSE)
    /\ UNCHANGED << queueVars, nextId, discarded >>

ContinueWithSteering ==
    /\ LastIsAssistant /\ steeringQueue # << >>
    /\ \E mode \in QueueModes :
         /\ BeginRun(Drained(steeringQueue, mode), TRUE)
         /\ steeringQueue' = Remaining(steeringQueue, mode)
    /\ UNCHANGED << followUpQueue, nextId, discarded >>

ContinueWithFollowUps ==
    /\ LastIsAssistant /\ steeringQueue = << >> /\ followUpQueue # << >>
    /\ \E mode \in QueueModes :
         /\ BeginRun(Drained(followUpQueue, mode), FALSE)
         /\ followUpQueue' = Remaining(followUpQueue, mode)
    /\ UNCHANGED << steeringQueue, nextId, discarded >>

-----------------------------------------------------------------------------
(* Queueing, abort() and reset(): allowed at any time *)

Steer ==
    /\ nextId \in UserId
    /\ steeringQueue' = Enqueue(steeringQueue, User(nextId, "steer"))
    /\ nextId' = nextId + 1
    /\ UNCHANGED << agentVars, followUpQueue, runVars, pc, loopVars, batchVars,
                    runStart, resetInRun, discarded, reported, agentEnded >>

FollowUp ==
    /\ nextId \in UserId
    /\ followUpQueue' = Enqueue(followUpQueue, User(nextId, "followUp"))
    /\ nextId' = nextId + 1
    /\ UNCHANGED << agentVars, steeringQueue, runVars, pc, loopVars, batchVars,
                    runStart, resetInRun, discarded, reported, agentEnded >>

ClearSteeringQueue ==
    /\ steeringQueue # << >>
    /\ steeringQueue' = << >>
    /\ discarded' = discarded \union IdsOf(steeringQueue)
    /\ UNCHANGED << agentVars, followUpQueue, runVars, pc, loopVars, batchVars,
                    nextId, runStart, resetInRun, reported, agentEnded >>

ClearFollowUpQueue ==
    /\ followUpQueue # << >>
    /\ followUpQueue' = << >>
    /\ discarded' = discarded \union IdsOf(followUpQueue)
    /\ UNCHANGED << agentVars, steeringQueue, runVars, pc, loopVars, batchVars,
                    nextId, runStart, resetInRun, reported, agentEnded >>

Abort ==
    /\ activeRun /\ ~aborted
    /\ aborted' = TRUE
    /\ UNCHANGED << agentVars, queueVars, activeRun, stragglers, pc, loopVars,
                    batchVars, historyVars, agentEnded >>

\* reset() does not look at activeRun: a run in progress goes on with the
\* context it has and fills the emptied transcript.
Reset ==
    /\ messages' = << >> /\ isStreaming' = FALSE
    /\ streamingMessage' = NoMessage /\ pendingToolCalls' = {}
    /\ steeringQueue' = << >> /\ followUpQueue' = << >>
    /\ discarded' = discarded \union IdsOf(messages)
                      \union IdsOf(steeringQueue) \union IdsOf(followUpQueue)
    /\ resetInRun' = activeRun
    /\ UNCHANGED << runVars, pc, loopVars, batchVars, nextId, runStart,
                    reported, agentEnded >>

-----------------------------------------------------------------------------
(* A listener that rejects makes the run throw into handleRunFailure *)

\* The points of a run that directly follow an emitted event, or the calls of
\* convertToLlm, getApiKey and streamFn.  A call that ends has its own action.
AfterEmit ==
    \/ pc \in {"prompt", "promptEnd", "turn", "pendingEnd", "response",
               "streaming", "replyEnd", "replied", "prepare", "resultEnd",
               "steeringPoll"}
    \/ pc = "callDone" /\ status[call] = "ended"
    \/ pc = "result" /\ (nextResult > 1 \/ executionMode = "sequential")
    \/ pc = "agentEnd" /\ reply.stop # "stop"
    \/ pc = "settle"

\* handleRunFailure is told whether the signal was aborted when the run threw.
FailureMessage ==
    Assistant(turn, 0, IF aborted THEN "aborted" ELSE "error")

\* The messages the run had taken out of a queue or was given as prompts and
\* has not announced yet are lost with it.
Fail ==
    /\ ListenersMayThrow
    /\ discarded' = discarded \union IdsOf(pendingMessages)
    /\ LeaveLoop(FailureMessage)
    /\ pc' = "failStart"
    /\ UNCHANGED << queueVars, activeRun, aborted, turn, nextId, runStart,
                    resetInRun, reported >>

RunThrows ==
    /\ AfterEmit /\ Fail
    /\ UNCHANGED << agentVars, stragglers, agentEnded >>

\* An event of an executing call: Promise.all rejects at once, and the other
\* calls of the batch go on without a run to report to.
CallThrows(c) ==
    /\ pc = "running" /\ status[c] = "running"
    /\ Fail
    /\ stragglers' = stragglers \union { CallId(d) : d \in With("running") \ {c} }

\* The listener of the call's tool_execution_end rejects, ...
ToolEndThrows(c) ==
    /\ CallThrows(c)
    /\ ToolExecutionEnd(CallId(c))

\* ... or that of a tool_execution_update, so that the call never ends.
ToolUpdateThrows(c) ==
    /\ CallThrows(c)
    /\ Emit("tool_execution_update")
    /\ UNCHANGED agentVars

\* A straggler's tool_execution_end is reduced into the state, and delivered
\* to the listeners if another run, or the failing one, is active.
StragglerEnds(id) ==
    /\ id \in stragglers
    /\ stragglers' = stragglers \ {id}
    /\ pendingToolCalls' = pendingToolCalls \ {id}
    /\ IF activeRun THEN Emit("tool_execution_end") ELSE UNCHANGED agentEnded
    /\ UNCHANGED << messages, streamingMessage, isStreaming, queueVars,
                    activeRun, aborted, pc, loopVars, batchVars, historyVars >>

\* handleRunFailure: message_start, message_end, turn_end and agent_end
FailStart ==
    /\ pc = "failStart"
    /\ MessageStart(reply)
    /\ pc' = "failEnd"
    /\ UNCHANGED << queueVars, runVars, loopVars, batchVars, historyVars >>

FailEnd ==
    /\ pc = "failEnd"
    /\ MessageEnd(reply)
    /\ pc' = "failTurnEnd"
    /\ UNCHANGED << queueVars, runVars, loopVars, batchVars, historyVars >>

FailTurnEnd ==
    /\ pc = "failTurnEnd"
    /\ TurnEnd
    /\ pc' = "failAgentEnd"
    /\ UNCHANGED << queueVars, runVars, loopVars, batchVars, historyVars >>

\* Mutant of FailAgentEnd: it carries what the loop's agent_end would have.
FailAgentEndOfTheRun ==
    /\ pc = "failAgentEnd"
    /\ AgentEndEvent(SubSeq(messages, runStart + 1, Len(messages)))
    /\ pc' = "failed"
    /\ UNCHANGED << queueVars, runVars, loopVars, batchVars, nextId, runStart,
                    resetInRun, discarded >>

\* It carries the failure message alone, whatever else the run has added.
FailAgentEnd ==
    /\ pc = "failAgentEnd"
    /\ AgentEndEvent(<< reply >>)
    /\ pc' = "failed"
    /\ UNCHANGED << queueVars, runVars, loopVars, batchVars, nextId, runStart,
                    resetInRun, discarded >>

\* A listener that rejects here, too, is not handled: finally runs finishRun.
FailureThrows ==
    /\ ListenersMayThrow
    /\ pc \in {"failEnd", "failTurnEnd", "failAgentEnd"}
    /\ pc' = "failed"
    /\ UNCHANGED << agentVars, queueVars, runVars, loopVars, batchVars,
                    historyVars, agentEnded >>

-----------------------------------------------------------------------------

RunStep ==
    \/ LoopStep \/ FinishRun
    \/ RunThrows
    \/ \E c \in Call : ToolEndThrows(c) \/ ToolUpdateThrows(c)
    \/ FailStart \/ FailEnd \/ FailTurnEnd \/ FailAgentEnd \/ FailureThrows

Operation ==
    \/ Prompt \/ ContinueTranscript
    \/ ContinueWithSteering \/ ContinueWithFollowUps
    \/ Steer \/ FollowUp \/ ClearSteeringQueue \/ ClearFollowUpQueue
    \/ Abort \/ Reset

Next ==
    \/ RunStep
    \/ Operation
    \/ \E id \in stragglers : StragglerEnds(id)

Spec == Init /\ [][Next]_vars

\* Model streams, tools, hooks and listeners settle, and the event loop then
\* resumes the run.
FairSpec == Spec /\ WF_vars(RunStep)

-----------------------------------------------------------------------------
(* Properties *)

PC == {"idle", "prompt", "promptEnd", "turn", "pendingEnd", "response",
       "streaming", "replyEnd", "replied", "prepare", "callDone", "running",
       "result", "resultEnd", "steeringPoll", "followUpPoll", "agentEnd",
       "settle", "failStart", "failEnd", "failTurnEnd", "failAgentEnd",
       "failed"}

FlagTypes ==
    /\ isStreaming \in BOOLEAN /\ activeRun \in BOOLEAN /\ aborted \in BOOLEAN
    /\ skipInitialSteeringPoll \in BOOLEAN /\ hasMoreToolCalls \in BOOLEAN
    /\ resetInRun \in BOOLEAN /\ agentEnded \in BOOLEAN

MessageTypes ==
    /\ messages \in Seq(Message)
    /\ streamingMessage \in Message \union {NoMessage}
    /\ steeringQueue \in Seq(UserMessage) /\ followUpQueue \in Seq(UserMessage)
    /\ context \in Seq(Message) /\ newMessages \in Seq(Message)
    /\ pendingMessages \in Seq(UserMessage) /\ reported \in Seq(Message)

BatchTypes ==
    /\ pc \in PC /\ turn \in Nat
    /\ reply \in AssistantMessage \union {NoMessage}
    /\ executionMode \in {"sequential", "parallel"}
    /\ call \in 0..MaxToolCalls /\ nextResult \in Nat
    /\ status \in [Call -> {"todo", "prepared", "running", "ended"}]
    /\ terminating \in SUBSET Call

CallTypes ==
    /\ pendingToolCalls \in SUBSET (Nat \X Call)
    /\ stragglers \in SUBSET (Nat \X Call)

HistoryTypes ==
    /\ nextId \in 1..(MaxUserMessages + 1) /\ runStart \in Nat
    /\ discarded \in SUBSET UserId

\* Every variable of Agent and of the loop has its type.
TypeOK == FlagTypes /\ MessageTypes /\ BatchTypes /\ CallTypes /\ HistoryTypes

\* The context a request is made from is the transcript the Agent shows its
\* owner: the loop's own copy (runLoop, streamAssistantResponse) and the copy
\* processEvents builds from the events never drift apart, whichever way the
\* messages got there.
RequestSeesTranscript ==
    Requesting /\ ~resetInRun => context = messages

\* The result of call c of a reply stands exactly c places after that reply,
\* in the order of the calls although parallel calls end in any order, and no
\* queued message is ever injected between a reply and its results.
ResultsFollowTheirReply ==
    ~resetInRun =>
      \A j \in DOMAIN messages :
        messages[j].role = "toolResult" =>
          LET i == j - messages[j].call
          IN  /\ i \in DOMAIN messages
              /\ messages[i].role = "assistant" /\ messages[i].stop = "stop"
              /\ messages[i].turn = messages[j].turn
              /\ messages[j].call <= messages[i].calls

\* Unless the run has been aborted, a request is never made while a tool call
\* of this run lacks its result ("Tool calls from the current assistant
\* message are not skipped", getSteeringMessages in types.ts).
NoCallIsSkipped ==
    Requesting /\ ~aborted /\ ~resetInRun =>
      \A i \in (runStart + 1)..Len(messages) :
        messages[i].role = "assistant" /\ messages[i].stop = "stop" =>
          \A c \in 1..messages[i].calls :
            /\ i + c \in DOMAIN messages
            /\ messages[i + c] = Result(messages[i].turn, c)

\* Where the ids of user messages may be.
Places == << IdsOf(messages), IdsOf(pendingMessages), IdsOf(steeringQueue),
             IdsOf(followUpQueue), discarded >>

\* No two user messages of a sequence have one id.
Once(ms) ==
    \A i, j \in DOMAIN ms :
      ms[i].role = "user" /\ ms[j].role = "user" /\ ms[i].id = ms[j].id => i = j

\* A message handed to the Agent is in the transcript, in a queue or held by
\* the run, unless it was cleared, reset or dropped by a run that threw before
\* it was announced, and only one of these is true of it: no poll, no abort
\* and no continue() loses a message or has it in two places or twice in one.
EveryMessageIsInOnePlace ==
    /\ UNION { Places[p] : p \in DOMAIN Places } = 1..(nextId - 1)
    /\ \A p, q \in DOMAIN Places : p # q => Places[p] \intersect Places[q] = {}
    /\ Once(messages) /\ Once(pendingMessages)
    /\ Once(steeringQueue) /\ Once(followUpQueue)

\* What the run has added to the transcript.
Added == SubSeq(messages, runStart + 1, Len(messages))

\* The agent_end events of a run carry, together, exactly what it has added to
\* the transcript, in order and each message once, although the loop collects
\* the messages at other moments than message_end appends them, and although a
\* listener of the first agent_end may reject, so that handleRunFailure emits a
\* second.  Only a run that throws before its loop has come to its end reports
\* less: the failure message, the last that it has added, and nothing else.
AgentEndReportsTheRun ==
    agentEnded /\ ~resetInRun =>
      \/ reported = Added
      \/ /\ pc = "failed" /\ reported = << reply >>
         /\ Added # << >> /\ Added[Len(Added)] = reply

\* A run never ends with a user message as the last of the transcript: what it
\* has injected was put to the model, or its failure was announced after it,
\* so that nothing is left for the owner to continue() but the results of a
\* batch that terminated it.  The exception is a listener that rejects once
\* more while the failure message is announced (handleRunFailure).
InjectedMessagesAreAnswered ==
    [][activeRun /\ ~activeRun' /\ messages # << >> =>
         \/ messages[Len(messages)].role \in {"assistant", "toolResult"}
         \/ pc = "failed" /\ streamingMessage # NoMessage]_vars

\* agent_end is the last event of a run ("`agent_end` is the final emitted
\* event for a run", comment on subscribe, agent.ts:228).  It is not when a
\* listener of it rejects.
AgentEndIsFinal ==
    [][activeRun /\ agentEnded /\ activeRun' => agentEnded']_vars

\* Every run ends, aborted or not, whatever is queued meanwhile, so that
\* waitForIdle() resolves.
RunSettles == []<>~activeRun

-----------------------------------------------------------------------------
(* The Agent implements the delivery of messages by two first-in-first-out *)
(* lanes and one courier (MessageDelivery).                                *)

\* The transcript and the queues as MessageDelivery sees them: a user message
\* is its id, any other message is Other.
Ids(ms) == [i \in DOMAIN ms |-> IF ms[i].role = "user" THEN ms[i].id ELSE 0]

Delivery == INSTANCE MessageDelivery WITH
    Id        <- UserId,
    accepted  <- nextId - 1,
    waiting   <- [steer    |-> Ids(steeringQueue),
                  followUp |-> Ids(followUpQueue)],
    held      <- Ids(pendingMessages),
    delivered <- Ids(messages),
    running   <- activeRun

\* Messages are delivered first in, first out, at most once, and by an active
\* run only; taken messages go out before any other is taken and before the
\* model or a tool answers.
DeliversMessages == Delivery!Spec

==============================================================================
