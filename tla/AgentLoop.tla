------------------------------ MODULE AgentLoop ------------------------------
(***************************************************************************)
(* The agent loop (packages/agent/src/agent-loop.ts) as the class Agent    *)
(* (packages/agent/src/agent.ts) runs it: one run is a coroutine that      *)
(* announces messages, asks the model for a reply, executes the reply's    *)
(* tool calls one by one or concurrently, and polls the two queues.        *)
(*                                                                         *)
(* JavaScript runs the code between two awaits without interruption, so a  *)
(* step of this module is the code between two awaits: pc names the next   *)
(* step of the run, and whatever the embedding program does (module Agent) *)
(* interleaves between steps.  An event is reduced into the Agent's state  *)
(* (processEvents) in the step that emits it; its listeners run in the     *)
(* interval before the next step and may throw there.                      *)
(***************************************************************************)
EXTENDS PendingMessageQueue

CONSTANTS
    MaxUserMessages,   \* bound: user messages ever accepted
    MaxTurns,          \* bound: replies that still may contain tool calls
    MaxToolCalls,      \* bound: tool calls in one reply
    QueueModes,        \* modes the owner may switch the queues between
    ListenersMayThrow  \* whether awaited listeners may reject

ASSUME AgentAssumption ==
    /\ MaxUserMessages \in Nat
    /\ MaxTurns \in Nat
    /\ MaxToolCalls \in Nat
    /\ QueueModes \subseteq QueueMode
    /\ ListenersMayThrow \in BOOLEAN

VARIABLES
    \* AgentState and the queues
    messages, streamingMessage, pendingToolCalls, isStreaming,
    steeringQueue, followUpQueue,
    \* the active run: is there one, is its signal aborted, where is it
    activeRun, aborted, pc,
    \* locals of runLoop
    context, newMessages, pendingMessages, skipInitialSteeringPoll,
    hasMoreToolCalls, turn,
    \* locals of executeToolCalls
    reply, executionMode, call, status, terminating, nextResult,
    \* tool calls still executing although their run has failed
    stragglers,
    \* history: next user message, transcript length at the run's start, was
    \* a run's transcript reset under it, user messages given up, what the
    \* active run's agent_end events have carried, one after the other, and is
    \* agent_end the last event it has emitted
    nextId, runStart, resetInRun, discarded, reported, agentEnded

agentVars   == << messages, streamingMessage, pendingToolCalls, isStreaming >>
queueVars   == << steeringQueue, followUpQueue >>
runVars     == << activeRun, aborted, stragglers >>
loopVars    == << context, newMessages, pendingMessages,
                  skipInitialSteeringPoll, hasMoreToolCalls, turn >>
batchVars   == << reply, executionMode, call, status, terminating, nextResult >>
historyVars == << nextId, runStart, resetInRun, discarded, reported >>

vars == << agentVars, queueVars, runVars, pc, loopVars, batchVars,
           historyVars, agentEnded >>

-----------------------------------------------------------------------------
(* Messages and tool calls *)

UserId == 1..MaxUserMessages
Call   == 1..MaxToolCalls

UserMessage      == [role : {"user"}, id : UserId,
                     via : {"prompt", "steer", "followUp"}]
AssistantMessage == [role : {"assistant"}, turn : Nat, calls : 0..MaxToolCalls,
                     stop : {"partial", "stop", "error", "aborted"}]
ToolResult       == [role : {"toolResult"}, turn : Nat, call : Call]
Message          == UserMessage \union AssistantMessage \union ToolResult
NoMessage        == [role |-> "none"]

User(id, via)        == [role |-> "user", id |-> id, via |-> via]
Assistant(t, n, why) == [role |-> "assistant", turn |-> t, calls |-> n,
                         stop |-> why]
Result(t, c)         == [role |-> "toolResult", turn |-> t, call |-> c]

IdsOf(ms) == { ms[i].id : i \in { j \in DOMAIN ms : ms[j].role = "user" } }

\* The replies the model may give to the current request.  Only an aborted
\* signal makes a provider report "aborted"; the tool calls of a failed reply
\* are never looked at; past MaxTurns the model asks for no more tools.
Replies ==
    { Assistant(turn, n, why) : n \in 0..MaxToolCalls,
                                why \in {"stop", "error", "aborted"} }
Possible(m) ==
    /\ m.stop = "aborted" => aborted
    /\ m.stop # "stop" => m.calls = 0
    /\ m.calls > 0 => turn < MaxTurns

-----------------------------------------------------------------------------
(* processEvents: what an event does to the Agent's state *)

Emit(event) == agentEnded' = (event = "agent_end")

MessageStart(m) ==
    /\ streamingMessage' = m
    /\ Emit("message_start")
    /\ UNCHANGED << messages, pendingToolCalls, isStreaming >>

MessageEnd(m) ==
    /\ streamingMessage' = NoMessage
    /\ messages' = Append(messages, m)
    /\ Emit("message_end")
    /\ UNCHANGED << pendingToolCalls, isStreaming >>

ToolExecutionStart(id) ==
    /\ pendingToolCalls' = pendingToolCalls \union {id}
    /\ Emit("tool_execution_start")
    /\ UNCHANGED << messages, streamingMessage, isStreaming >>

ToolExecutionEnd(id) ==
    /\ pendingToolCalls' = pendingToolCalls \ {id}
    /\ Emit("tool_execution_end")
    /\ UNCHANGED << messages, streamingMessage, isStreaming >>

TurnEnd ==
    /\ Emit("turn_end")
    /\ UNCHANGED agentVars

AgentEndEvent(ms) ==
    /\ streamingMessage' = NoMessage
    /\ Emit("agent_end")
    /\ reported' = reported \o ms
    /\ UNCHANGED << messages, pendingToolCalls, isStreaming >>

-----------------------------------------------------------------------------
(* runAgentLoop: announce the prompts, then poll for steering *)

\* for (const prompt of prompts) emit message_start ...
AnnouncePrompt ==
    /\ pc = "prompt" /\ pendingMessages # << >>
    /\ MessageStart(Head(pendingMessages))
    /\ pc' = "promptEnd"
    /\ UNCHANGED << queueVars, runVars, loopVars, batchVars, historyVars >>

\* ... emit message_end
PromptAnnounced ==
    /\ pc = "promptEnd"
    /\ MessageEnd(Head(pendingMessages))
    /\ pendingMessages' = Tail(pendingMessages)
    /\ pc' = "prompt"
    /\ UNCHANGED << queueVars, runVars, context, newMessages,
                    skipInitialSteeringPoll, hasMoreToolCalls, turn,
                    batchVars, historyVars >>

\* Mutant of InitialSteeringPoll: an aborted run ends before it asks the model.
InitialSteeringPollUnlessAborted ==
    /\ pc = "prompt" /\ pendingMessages = << >>
    /\ skipInitialSteeringPoll' = FALSE
    /\ IF aborted
       THEN pc' = "agentEnd" /\ reply' = Assistant(turn, 0, "aborted")
       ELSE pc' = "turn" /\ UNCHANGED reply
    /\ UNCHANGED << agentVars, queueVars, runVars, context, newMessages,
                    pendingMessages, hasMoreToolCalls, turn, executionMode,
                    call, status, terminating, nextResult, historyVars,
                    agentEnded >>

\* The first getSteeringMessages() of runLoop; continue() may have it skipped.
InitialSteeringPoll ==
    /\ pc = "prompt" /\ pendingMessages = << >>
    /\ IF skipInitialSteeringPoll
       THEN /\ skipInitialSteeringPoll' = FALSE
            /\ UNCHANGED << steeringQueue, pendingMessages >>
       ELSE \E mode \in QueueModes :
              /\ pendingMessages' = Drained(steeringQueue, mode)
              /\ steeringQueue' = Remaining(steeringQueue, mode)
              /\ UNCHANGED skipInitialSteeringPoll
    /\ pc' = "turn"
    /\ UNCHANGED << agentVars, followUpQueue, runVars, context, newMessages,
                    hasMoreToolCalls, turn, batchVars, historyVars, agentEnded >>

-----------------------------------------------------------------------------
(* runLoop: inject the pending messages, then ask for a reply *)

InjectPending ==
    /\ pc = "turn" /\ pendingMessages # << >>
    /\ MessageStart(Head(pendingMessages))
    /\ pc' = "pendingEnd"
    /\ UNCHANGED << queueVars, runVars, loopVars, batchVars, historyVars >>

PendingInjected ==
    /\ pc = "pendingEnd"
    /\ MessageEnd(Head(pendingMessages))
    /\ context' = Append(context, Head(pendingMessages))
    /\ newMessages' = Append(newMessages, Head(pendingMessages))
    /\ pendingMessages' = Tail(pendingMessages)
    /\ pc' = "turn"
    /\ UNCHANGED << queueVars, runVars, skipInitialSteeringPoll,
                    hasMoreToolCalls, turn, batchVars, historyVars >>

Requesting == pc = "turn" /\ pendingMessages = << >>

\* streamAssistantResponse up to the call of streamFn.
Request ==
    /\ Requesting
    /\ turn' = turn + 1
    /\ pc' = "response"
    /\ UNCHANGED << agentVars, queueVars, runVars, context, newMessages,
                    pendingMessages, skipInitialSteeringPoll,
                    hasMoreToolCalls, batchVars, historyVars, agentEnded >>

\* case "start": the partial message enters the context, not the transcript.
\* The update events that follow replace it by a longer partial message.
ResponseStart ==
    LET partial == Assistant(turn, 0, "partial")
    IN  /\ pc = "response"
        /\ context' = Append(context, partial)
        /\ MessageStart(partial)
        /\ pc' = "streaming"
        /\ UNCHANGED << queueVars, runVars, newMessages, pendingMessages,
                        skipInitialSteeringPoll, hasMoreToolCalls, turn,
                        batchVars, historyVars >>

\* Mutant of ResponseEnd: the partial message stays in the context.
ResponseEndKeepsPartial(final) ==
    /\ pc = "streaming" /\ Possible(final)
    /\ context' = Append(context, final)
    /\ reply' = final
    /\ MessageEnd(final)
    /\ pc' = "replied"
    /\ UNCHANGED << queueVars, runVars, newMessages, pendingMessages,
                    skipInitialSteeringPoll, hasMoreToolCalls, turn,
                    executionMode, call, status, terminating, nextResult,
                    historyVars >>

\* case "done" / "error", or the end of the stream, after a "start"
ResponseEnd(final) ==
    /\ pc = "streaming" /\ Possible(final)
    /\ context' = [context EXCEPT ![Len(context)] = final]
    /\ reply' = final
    /\ MessageEnd(final)
    /\ pc' = "replied"
    /\ UNCHANGED << queueVars, runVars, newMessages, pendingMessages,
                    skipInitialSteeringPoll, hasMoreToolCalls, turn,
                    executionMode, call, status, terminating, nextResult,
                    historyVars >>

\* ... or without one: both message events are emitted for the final message
ResponseAtOnce(final) ==
    /\ pc = "response" /\ Possible(final)
    /\ context' = Append(context, final)
    /\ reply' = final
    /\ MessageStart(final)
    /\ pc' = "replyEnd"
    /\ UNCHANGED << queueVars, runVars, newMessages, pendingMessages,
                    skipInitialSteeringPoll, hasMoreToolCalls, turn,
                    executionMode, call, status, terminating, nextResult,
                    historyVars >>

\* Mutant of ReplyEnd: no message_end for a reply that was not streamed.
ReplyEndUnannounced ==
    /\ pc = "replyEnd"
    /\ pc' = "replied"
    /\ UNCHANGED << agentVars, queueVars, runVars, loopVars, batchVars,
                    historyVars, agentEnded >>

ReplyEnd ==
    /\ pc = "replyEnd"
    /\ MessageEnd(reply)
    /\ pc' = "replied"
    /\ UNCHANGED << queueVars, runVars, loopVars, batchVars, historyVars >>

-----------------------------------------------------------------------------
(* runLoop: look at the reply *)

TakeReply(next) ==
    /\ pc = "replied"
    /\ newMessages' = Append(newMessages, reply)
    /\ pc' = next
    /\ UNCHANGED << queueVars, runVars, context, pendingMessages,
                    skipInitialSteeringPoll, turn, reply, historyVars >>

ReplyFailed ==
    /\ TakeReply("agentEnd")
    /\ reply.stop # "stop"
    /\ TurnEnd
    /\ UNCHANGED << hasMoreToolCalls, executionMode, call, status, terminating,
                    nextResult >>

ReplyWithoutCalls ==
    /\ TakeReply("steeringPoll")
    /\ reply.stop = "stop" /\ reply.calls = 0
    /\ hasMoreToolCalls' = FALSE
    /\ TurnEnd
    /\ UNCHANGED << executionMode, call, status, terminating, nextResult >>

\* executeToolCalls: sequential when configured or when one of the tools asks
\* for it, parallel otherwise; the first call is announced.
ReplyWithCalls(mode) ==
    /\ TakeReply("prepare")
    /\ reply.stop = "stop" /\ reply.calls > 0
    /\ hasMoreToolCalls' = FALSE
    /\ executionMode' = mode
    /\ call' = 1
    /\ status' = [c \in Call |-> "todo"]
    /\ terminating' = {}
    /\ nextResult' = 1
    /\ ToolExecutionStart(<< reply.turn, 1 >>)

-----------------------------------------------------------------------------
(* executeToolCallsSequential / executeToolCallsParallel *)

CallId(c) == << reply.turn, c >>
With(value) == { c \in Call : status[c] = value }

\* prepareToolCall: unknown tool, bad arguments, blocked by beforeToolCall or
\* aborted.  The error result is final at once.
PrepareImmediate ==
    /\ pc = "prepare"
    /\ status' = [status EXCEPT ![call] = "ended"]
    /\ ToolExecutionEnd(CallId(call))
    /\ pc' = IF executionMode = "sequential" THEN "result" ELSE "callDone"
    /\ UNCHANGED << queueVars, runVars, loopVars, reply, executionMode, call,
                    terminating, nextResult, historyVars >>

\* prepareToolCall: allowed.  A sequential batch executes the call now, a
\* parallel one after every call has been prepared.
PrepareAllowed ==
    /\ pc = "prepare" /\ ~aborted
    /\ status' = [status EXCEPT
                    ![call] = IF executionMode = "sequential" THEN "running"
                                                              ELSE "prepared"]
    /\ pc' = IF executionMode = "sequential" THEN "running" ELSE "callDone"
    /\ UNCHANGED << agentVars, queueVars, runVars, loopVars, reply,
                    executionMode, call, terminating, nextResult, historyVars,
                    agentEnded >>

\* Mutants of LastCall: one call too many; a steering message skips calls.
LastCallTooLate == aborted \/ call > reply.calls
LastCallWhenSteered ==
    aborted \/ call = reply.calls \/ steeringQueue # << >>

\* The calls after an aborted one are skipped.
LastCall == aborted \/ call = reply.calls

NextCall ==
    /\ pc = "callDone" /\ ~LastCall
    /\ call' = call + 1
    /\ ToolExecutionStart(CallId(call + 1))
    /\ pc' = "prepare"
    /\ UNCHANGED << queueVars, runVars, loopVars, reply, executionMode, status,
                    terminating, nextResult, historyVars >>

\* Promise.all(finalizedCalls.map(...)): every prepared call starts.
ExecutePrepared ==
    /\ pc = "callDone" /\ executionMode = "parallel" /\ LastCall
    /\ status' = [c \in Call |-> IF status[c] = "prepared" THEN "running"
                                                           ELSE status[c]]
    /\ pc' = IF With("prepared") = {} THEN "result" ELSE "running"
    /\ UNCHANGED << agentVars, queueVars, runVars, loopVars, reply,
                    executionMode, call, terminating, nextResult, historyVars,
                    agentEnded >>

\* executePreparedToolCall, finalizeExecutedToolCall and emitToolExecutionEnd
\* of one call: calls of a parallel batch end in any order, and each result
\* may carry the terminate hint.
ToolEnds(c, terminate) ==
    /\ pc = "running" /\ status[c] = "running"
    /\ status' = [status EXCEPT ![c] = "ended"]
    /\ terminating' = IF terminate THEN terminating \union {c} ELSE terminating
    /\ ToolExecutionEnd(CallId(c))
    /\ pc' = IF With("running") = {c} THEN "result" ELSE "running"
    /\ UNCHANGED << queueVars, runVars, loopVars, reply, executionMode, call,
                    nextResult, historyVars >>

\* emitToolResultMessage, in the order of the calls
ResultStart ==
    /\ pc = "result" /\ nextResult <= call
    /\ MessageStart(Result(reply.turn, nextResult))
    /\ pc' = "resultEnd"
    /\ UNCHANGED << queueVars, runVars, loopVars, batchVars, historyVars >>

ResultEnd ==
    /\ pc = "resultEnd"
    /\ MessageEnd(Result(reply.turn, nextResult))
    /\ nextResult' = nextResult + 1
    /\ pc' = IF executionMode = "sequential" THEN "callDone" ELSE "result"
    /\ UNCHANGED << queueVars, runVars, loopVars, reply, executionMode, call,
                    status, terminating, historyVars >>

\* All result messages are out.  They enter the context and newMessages; the
\* batch terminates the loop when every result in it carries the hint
\* (shouldTerminateToolBatch).
BatchResults == [c \in 1..call |-> Result(reply.turn, c)]
TerminateBatch == call > 0 /\ \A c \in 1..call : c \in terminating

FinishBatch ==
    /\ \/ pc = "result" /\ nextResult > call
       \/ pc = "callDone" /\ executionMode = "sequential" /\ LastCall
    /\ context' = context \o BatchResults
    /\ newMessages' = newMessages \o BatchResults
    /\ hasMoreToolCalls' = ~TerminateBatch
    /\ TurnEnd
    /\ pc' = "steeringPoll"
    /\ UNCHANGED << queueVars, runVars, pendingMessages,
                    skipInitialSteeringPoll, turn, batchVars, historyVars >>

-----------------------------------------------------------------------------
(* runLoop: poll the queues and stop *)

\* Mutant of SteeringPoll: what an aborted run polls is dropped.
SteeringPollIgnored ==
    /\ pc = "steeringPoll"
    /\ \E mode \in QueueModes :
         /\ pendingMessages' = IF aborted THEN << >>
                                          ELSE Drained(steeringQueue, mode)
         /\ steeringQueue' = Remaining(steeringQueue, mode)
    /\ pc' = IF hasMoreToolCalls \/ pendingMessages' # << >>
             THEN "turn" ELSE "followUpPoll"
    /\ UNCHANGED << agentVars, followUpQueue, runVars, context, newMessages,
                    skipInitialSteeringPoll, hasMoreToolCalls, turn, batchVars,
                    historyVars, agentEnded >>

SteeringPoll ==
    /\ pc = "steeringPoll"
    /\ \E mode \in QueueModes :
         /\ pendingMessages' = Drained(steeringQueue, mode)
         /\ steeringQueue' = Remaining(steeringQueue, mode)
    /\ pc' = IF hasMoreToolCalls \/ pendingMessages' # << >>
             THEN "turn" ELSE "followUpPoll"
    /\ UNCHANGED << agentVars, followUpQueue, runVars, context, newMessages,
                    skipInitialSteeringPoll, hasMoreToolCalls, turn, batchVars,
                    historyVars, agentEnded >>

FollowUpPoll ==
    /\ pc = "followUpPoll"
    /\ \E mode \in QueueModes :
         /\ pendingMessages' = Drained(followUpQueue, mode)
         /\ followUpQueue' = Remaining(followUpQueue, mode)
    /\ pc' = IF pendingMessages' # << >> THEN "turn" ELSE "agentEnd"
    /\ UNCHANGED << agentVars, steeringQueue, runVars, context, newMessages,
                    skipInitialSteeringPoll, hasMoreToolCalls, turn, batchVars,
                    historyVars, agentEnded >>

AgentEnd ==
    /\ pc = "agentEnd"
    /\ AgentEndEvent(newMessages)
    /\ pc' = "settle"
    /\ UNCHANGED << queueVars, runVars, loopVars, batchVars, nextId, runStart,
                    resetInRun, discarded >>

LoopStep ==
    \/ AnnouncePrompt \/ PromptAnnounced \/ InitialSteeringPoll
    \/ InjectPending \/ PendingInjected \/ Request \/ ResponseStart
    \/ \E m \in Replies : ResponseEnd(m) \/ ResponseAtOnce(m)
    \/ ReplyEnd \/ ReplyFailed \/ ReplyWithoutCalls
    \/ \E mode \in {"sequential", "parallel"} : ReplyWithCalls(mode)
    \/ PrepareImmediate \/ PrepareAllowed \/ NextCall \/ ExecutePrepared
    \/ \E c \in Call, terminate \in BOOLEAN : ToolEnds(c, terminate)
    \/ ResultStart \/ ResultEnd \/ FinishBatch
    \/ SteeringPoll \/ FollowUpPoll \/ AgentEnd

==============================================================================
