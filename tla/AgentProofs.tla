----------------------------- MODULE AgentProofs -----------------------------
(***************************************************************************)
(* Theorems about the class Agent, for every number of user messages,      *)
(* turns and tool calls, both queue modes, and listeners that may reject:  *)
(* its types, the transcript a request sees; what becomes of the messages  *)
(* it is given, none is lost and their delivery implements MessageDelivery;*)
(* and the transcript it builds: what agent_end reports, where the results *)
(* of tool calls stand, that no call is skipped, and that what a run has   *)
(* injected does not stay without an answer.                               *)
(***************************************************************************)
EXTENDS Agent, SequenceTheorems, TLAPS

-----------------------------------------------------------------------------
(* Lemmas about the messages, the calls and the queues *)

\* The three kinds of messages are messages, alone and in sequences.
LEMMA MessageKinds ==
    /\ UserMessage \subseteq Message /\ AssistantMessage \subseteq Message
    /\ ToolResult \subseteq Message
    /\ Seq(UserMessage) \subseteq Seq(Message)
<1>1. UserMessage \subseteq Message /\ AssistantMessage \subseteq Message
        /\ ToolResult \subseteq Message
  BY DEF Message
<1>2. Seq(UserMessage) \subseteq Seq(Message)
  BY <1>1, SeqMonotonic
<1> QED BY <1>1, <1>2

\* drain() and enqueue() (class PendingMessageQueue) deal in messages of the
\* queue only.
LEMMA QueueTypes ==
    ASSUME NEW queue \in Seq(UserMessage)
    PROVE  /\ \A mode : /\ Drained(queue, mode) \in Seq(UserMessage)
                        /\ Remaining(queue, mode) \in Seq(UserMessage)
           /\ \A m \in UserMessage : Enqueue(queue, m) \in Seq(UserMessage)
BY DEF Drained, Remaining, Enqueue

\* streamAssistantResponse overwrites the last message of the context.
LEMMA ReplaceLast ==
    ASSUME NEW S, NEW s \in Seq(S), s # << >>, NEW e \in S
    PROVE  [s EXCEPT ![Len(s)] = e] \in Seq(S)
BY ExceptSeq, LenProperties, EmptySeq

\* The operators that build messages build messages of their kind.
LEMMA BuiltMessages ==
    /\ \A id \in UserId, via \in {"prompt", "steer", "followUp"} :
         User(id, via) \in UserMessage
    /\ \A t \in Nat, n \in 0..MaxToolCalls,
         why \in {"partial", "stop", "error", "aborted"} :
         Assistant(t, n, why) \in AssistantMessage
    /\ \A t \in Nat, c \in Call : Result(t, c) \in ToolResult
BY DEF User, UserMessage, Assistant, AssistantMessage, Result, ToolResult

\* handleRunFailure appends an assistant message.
LEMMA FailureIsAssistant == BatchTypes => FailureMessage \in AssistantMessage
BY AgentAssumption, BuiltMessages
     DEF FailureMessage, BatchTypes, AgentAssumption

\* Only identifiers of user messages are ever collected.
LEMMA IdsAreUserIds ==
    ASSUME NEW ms \in Seq(Message)
    PROVE  IdsOf(ms) \subseteq UserId
<1> SUFFICES ASSUME NEW i \in DOMAIN ms, ms[i].role = "user"
             PROVE  ms[i].id \in UserId
  BY DEF IdsOf
<1>1. ms[i] \in Message
  BY ElementOfSeq
<1>2. ms[i] \in UserMessage
  BY <1>1 DEF Message, AssistantMessage, ToolResult
<1> QED BY <1>2 DEF UserMessage

-----------------------------------------------------------------------------
(* The inductive invariant *)

\* The points of a run at which a batch executes, and those at which reply is
\* an assistant message.
BatchPC == {"prepare", "callDone", "running", "result", "resultEnd"}
ReplyPC == {"replyEnd", "replied", "failStart", "failEnd", "failTurnEnd",
            "failAgentEnd"} \union BatchPC

\* The values of the control variables at the points of a run: while a batch
\* executes, call is the call at hand and nextResult the first result that has
\* not been announced.
Control ==
    /\ activeRun <=> pc # "idle"
    /\ pc \in {"promptEnd", "pendingEnd"} => pendingMessages # << >>
    /\ pc = "streaming" => context # << >>
    /\ pc \in ReplyPC => reply \in AssistantMessage
    /\ pc \in BatchPC => call \in 1..reply.calls
    /\ pc \in BatchPC =>
         IF executionMode = "sequential"
         THEN nextResult = IF pc = "callDone" THEN call + 1 ELSE call
         ELSE CASE pc = "result"    -> nextResult \in 1..(call + 1)
                [] pc = "resultEnd" -> nextResult \in 1..call
                [] OTHER            -> nextResult = 1

\* The types and the control invariant hold at the start, ...
LEMMA InitTypes == Init => TypeOK /\ Control
<1> SUFFICES ASSUME Init PROVE TypeOK /\ Control
  OBVIOUS
<1> USE DEF Init
<1>1. FlagTypes
  BY DEF FlagTypes
<1>2. MessageTypes
  BY EmptySeq DEF MessageTypes
<1>3. BatchTypes
  BY AgentAssumption DEF BatchTypes, PC, AgentAssumption
<1>4. CallTypes
  BY DEF CallTypes
<1>5. HistoryTypes
  BY AgentAssumption DEF HistoryTypes, AgentAssumption
<1>6. Control
  BY DEF Control, BatchPC, ReplyPC
<1> QED BY <1>1, <1>2, <1>3, <1>4, <1>5, <1>6 DEF TypeOK

\* What the control variables say about the batch being executed.
LEMMA BatchFacts ==
    ASSUME BatchTypes, Control, pc \in BatchPC
    PROVE  /\ reply \in AssistantMessage /\ reply.turn \in Nat
           /\ reply.calls \in 0..MaxToolCalls
           /\ call \in Call /\ call <= reply.calls
           /\ ~LastCall => call + 1 \in Call /\ call + 1 <= reply.calls
           /\ \A c \in 1..call : Result(reply.turn, c) \in Message
           /\ \A c \in Call : CallId(c) \in Nat \X Call
           /\ BatchResults \in Seq(Message)
           /\ pc = "resultEnd" => nextResult \in 1..call
           /\ nextResult \in Nat \ {0}
<1>1. reply \in AssistantMessage /\ call \in 1..reply.calls
  BY DEF Control, BatchPC, ReplyPC
<1>2. reply.turn \in Nat /\ reply.calls \in 0..MaxToolCalls
  BY <1>1 DEF AssistantMessage
<1>3. call \in Call /\ call <= reply.calls
  BY <1>1, <1>2, AgentAssumption DEF Call, AgentAssumption
<1>a. call # reply.calls => call + 1 \in Call /\ call + 1 <= reply.calls
  BY <1>2, <1>3, AgentAssumption DEF Call, AgentAssumption
<1>b. ~LastCall => call + 1 \in Call /\ call + 1 <= reply.calls
  BY <1>a DEF LastCall
<1>4. ASSUME NEW c \in 1..call PROVE Result(reply.turn, c) \in Message
  BY <1>2, <1>3, AgentAssumption, BuiltMessages, MessageKinds
     DEF Call, AgentAssumption
<1>5. BatchResults \in Seq(Message)
  BY <1>3, <1>4 DEF BatchResults, Call
<1>6. \A c \in Call : CallId(c) \in Nat \X Call
  BY <1>2 DEF CallId
<1>7. pc = "resultEnd" => nextResult \in 1..call
  BY <1>3 DEF Control, BatchPC, ReplyPC, BatchTypes, Call
<1>8. nextResult \in Nat \ {0}
  BY <1>3 DEF Control, BatchPC, ReplyPC, BatchTypes, Call
<1> QED BY <1>1, <1>2, <1>3, <1>b, <1>4, <1>5, <1>6, <1>7, <1>8

\* The message variables.  Head and Tail are applied to nonempty sequences.
LEMMA MessageTypesPreserved ==
    ASSUME TypeOK, Control, [Next]_vars PROVE MessageTypes'
<1> USE DEF MessageTypes, vars, agentVars, queueVars, runVars, loopVars,
      batchVars, historyVars
<1>0. MessageTypes
  BY DEF TypeOK
<1>a. Assistant(turn, 0, "partial") \in AssistantMessage
  BY AgentAssumption, BuiltMessages DEF TypeOK, BatchTypes, AgentAssumption
<1>b. Replies \subseteq AssistantMessage
  BY BuiltMessages DEF TypeOK, BatchTypes, Replies
<1>c. pc \in {"replyEnd", "replied", "failStart", "failEnd", "failAgentEnd"} =>
        reply \in AssistantMessage
  BY DEF Control, ReplyPC
<1>d. BatchTypes
  BY DEF TypeOK
<1>f. ASSUME NEW m \in AssistantMessage, pc = "streaming"
      PROVE  [context EXCEPT ![Len(context)] = m] \in Seq(Message)
  BY <1>0, <1>f, MessageKinds, ReplaceLast DEF Control
<1>1. CASE AnnouncePrompt
  BY <1>0, <1>1, MessageKinds DEF AnnouncePrompt, MessageStart
<1>2. CASE PromptAnnounced
  BY <1>0, <1>2, MessageKinds DEF PromptAnnounced, MessageEnd, Control
<1>3. CASE InitialSteeringPoll
  BY <1>0, <1>3, EmptySeq, QueueTypes DEF InitialSteeringPoll
<1>4. CASE InjectPending
  BY <1>0, <1>4, MessageKinds DEF InjectPending, MessageStart
<1>5. CASE PendingInjected
  BY <1>0, <1>5, MessageKinds DEF PendingInjected, MessageEnd, Control
<1>6. CASE ResponseStart
  BY <1>0, <1>6, MessageKinds, <1>a DEF ResponseStart, MessageStart
<1>7. ASSUME NEW m \in Replies, ResponseEnd(m) PROVE MessageTypes'
  BY <1>0, <1>7, MessageKinds, <1>b, <1>f DEF ResponseEnd, MessageEnd
<1>8. ASSUME NEW m \in Replies, ResponseAtOnce(m) PROVE MessageTypes'
  BY <1>0, <1>8, MessageKinds, <1>b DEF ResponseAtOnce, MessageStart, Replies
<1>9. CASE ReplyEnd
  BY <1>0, <1>9, MessageKinds, <1>c DEF ReplyEnd, MessageEnd, Control
<1>10. CASE ReplyFailed
  BY <1>0, <1>10, MessageKinds, <1>c
     DEF ReplyFailed, TakeReply, TurnEnd, Control
<1>11. CASE ReplyWithoutCalls
  BY <1>0, <1>11, MessageKinds, <1>c DEF ReplyWithoutCalls, TakeReply, TurnEnd
<1>12. ASSUME NEW mode \in {"sequential", "parallel"}, ReplyWithCalls(mode)
       PROVE MessageTypes'
  BY <1>0, <1>12, MessageKinds, <1>c
     DEF ReplyWithCalls, TakeReply, ToolExecutionStart
<1>13. CASE ResultStart
  BY <1>0, <1>13, BatchFacts, <1>d
     DEF ResultStart, MessageStart, BatchPC, ReplyPC
<1>14. CASE ResultEnd
  BY <1>0, <1>14, BatchFacts, <1>d DEF ResultEnd, MessageEnd, BatchPC, ReplyPC
<1>15. CASE FinishBatch
  BY <1>0, <1>15, BatchFacts, <1>d DEF FinishBatch, TurnEnd, BatchPC, ReplyPC
<1>16. CASE SteeringPoll
  BY <1>0, <1>16, QueueTypes DEF SteeringPoll
<1>17. CASE FollowUpPoll
  BY <1>0, <1>17, QueueTypes DEF FollowUpPoll
<1>18. CASE AgentEnd
  BY <1>0, <1>18 DEF AgentEnd, AgentEndEvent
<1>19. CASE FinishRun
  BY <1>0, <1>19, EmptySeq DEF FinishRun, LeaveLoop
<1>20. CASE RunThrows
  BY <1>0, <1>20, EmptySeq DEF RunThrows, Fail, LeaveLoop
<1>21. ASSUME NEW c \in Call, ToolEndThrows(c) \/ ToolUpdateThrows(c)
       PROVE MessageTypes'
  BY <1>0, <1>21, EmptySeq DEF ToolEndThrows, ToolUpdateThrows,
     CallThrows, Fail, Emit, LeaveLoop, ToolExecutionEnd
<1>22. CASE FailStart
  BY <1>0, <1>22, MessageKinds, <1>c DEF FailStart, MessageStart
<1>23. CASE FailEnd
  BY <1>0, <1>23, MessageKinds, <1>c DEF FailEnd, MessageEnd
<1>24. CASE FailAgentEnd
  <2>1. << reply >> \in Seq(Message)
    BY <1>24, <1>c, MessageKinds DEF FailAgentEnd
  <2> QED BY <1>0, <1>24, <2>1 DEF FailAgentEnd, AgentEndEvent
<1>25. CASE Prompt
  BY <1>0, <1>25, MessageKinds, BuiltMessages DEF Prompt, BeginRun
<1>26. CASE ContinueTranscript
  BY <1>0, <1>26, EmptySeq DEF ContinueTranscript, BeginRun
<1>27. CASE ContinueWithSteering
  BY <1>0, <1>27, MessageKinds, QueueTypes DEF ContinueWithSteering, BeginRun
<1>28. CASE ContinueWithFollowUps
  BY <1>0, <1>28, MessageKinds, QueueTypes DEF ContinueWithFollowUps, BeginRun
<1>29. CASE Steer
  BY <1>0, <1>29, BuiltMessages, QueueTypes DEF Steer
<1>30. CASE FollowUp
  BY <1>0, <1>30, BuiltMessages, QueueTypes DEF FollowUp
<1>31. CASE ClearSteeringQueue
  BY <1>0, <1>31, EmptySeq DEF ClearSteeringQueue
<1>32. CASE ClearFollowUpQueue
  BY <1>0, <1>32, EmptySeq DEF ClearFollowUpQueue
<1>33. CASE Reset
  BY <1>0, <1>33, EmptySeq DEF Reset
<1>34. CASE \/ Request \/ PrepareImmediate \/ PrepareAllowed \/ NextCall
           \/ ExecutePrepared
           \/ (\E c \in Call, terminate \in BOOLEAN : ToolEnds(c, terminate))
           \/ FailTurnEnd \/ FailureThrows \/ Abort
           \/ (\E id \in stragglers : StragglerEnds(id))
  BY <1>0, <1>34 DEF Request, PrepareImmediate, PrepareAllowed, NextCall,
     ExecutePrepared, ToolEnds, FailTurnEnd, FailureThrows, Abort,
     StragglerEnds, Emit, MessageStart, MessageEnd, ToolExecutionStart,
     ToolExecutionEnd, TurnEnd, AgentEndEvent, TakeReply, BeginRun
<1>35. CASE UNCHANGED vars
  BY <1>0, <1>35
<1> QED
  BY <1>1, <1>2, <1>3, <1>4, <1>5, <1>6, <1>7, <1>8, <1>9, <1>10, <1>11,
     <1>12, <1>13, <1>14, <1>15, <1>16, <1>17, <1>18, <1>19, <1>20, <1>21,
     <1>22, <1>23, <1>24, <1>25, <1>26, <1>27, <1>28, <1>29, <1>30, <1>31,
     <1>32, <1>33, <1>34, <1>35 DEF Next, RunStep, LoopStep, Operation

\* The Boolean variables.
LEMMA FlagTypesPreserved ==
    ASSUME TypeOK, Control, [Next]_vars PROVE FlagTypes'
<1> USE DEF FlagTypes, vars, agentVars, queueVars, runVars, loopVars,
      batchVars, historyVars
<1>0. FlagTypes
  BY DEF TypeOK
<1>1. CASE AnnouncePrompt
  BY <1>0, <1>1 DEF AnnouncePrompt, MessageStart, Emit
<1>2. CASE PromptAnnounced
  BY <1>0, <1>2 DEF PromptAnnounced, MessageEnd, Emit
<1>3. CASE InitialSteeringPoll
  BY <1>0, <1>3 DEF InitialSteeringPoll, Emit
<1>4. CASE InjectPending
  BY <1>0, <1>4 DEF InjectPending, MessageStart, Emit
<1>5. CASE PendingInjected
  BY <1>0, <1>5 DEF PendingInjected, MessageEnd, Emit
<1>6. CASE ResponseStart
  BY <1>0, <1>6 DEF ResponseStart, MessageStart, Emit
<1>7. ASSUME NEW m \in Replies, ResponseEnd(m) PROVE FlagTypes'
  BY <1>0, <1>7 DEF ResponseEnd, MessageEnd, Emit
<1>8. ASSUME NEW m \in Replies, ResponseAtOnce(m) PROVE FlagTypes'
  BY <1>0, <1>8 DEF ResponseAtOnce, MessageStart, Emit
<1>9. CASE ReplyEnd
  BY <1>0, <1>9 DEF ReplyEnd, MessageEnd, Emit
<1>10. CASE ReplyFailed
  BY <1>0, <1>10 DEF ReplyFailed, TakeReply, TurnEnd, Emit
<1>11. CASE ReplyWithoutCalls
  BY <1>0, <1>11 DEF ReplyWithoutCalls, TakeReply, TurnEnd, Emit
<1>12. ASSUME NEW mode \in {"sequential", "parallel"}, ReplyWithCalls(mode)
       PROVE FlagTypes'
  BY <1>0, <1>12 DEF ReplyWithCalls, TakeReply, ToolExecutionStart, Emit
<1>13. CASE PrepareImmediate
  BY <1>0, <1>13 DEF PrepareImmediate, ToolExecutionEnd, Emit
<1>14. CASE NextCall
  BY <1>0, <1>14 DEF NextCall, ToolExecutionStart, Emit
<1>15. ASSUME NEW c \in Call, NEW terminate \in BOOLEAN, ToolEnds(c, terminate)
       PROVE FlagTypes'
  BY <1>0, <1>15 DEF ToolEnds, ToolExecutionEnd, Emit
<1>16. CASE ResultStart
  BY <1>0, <1>16 DEF ResultStart, MessageStart, Emit
<1>17. CASE ResultEnd
  BY <1>0, <1>17 DEF ResultEnd, MessageEnd, Emit
<1>18. CASE FinishBatch
  BY <1>0, <1>18 DEF FinishBatch, TurnEnd, Emit
<1>19. CASE AgentEnd
  BY <1>0, <1>19 DEF AgentEnd, AgentEndEvent, Emit
<1>20. CASE FinishRun
  BY <1>0, <1>20 DEF FinishRun, LeaveLoop, Emit
<1>21. CASE RunThrows
  BY <1>0, <1>21 DEF RunThrows, Fail, LeaveLoop, Emit
<1>22. ASSUME NEW c \in Call, ToolEndThrows(c) \/ ToolUpdateThrows(c)
       PROVE FlagTypes'
  BY <1>0, <1>22 DEF ToolEndThrows, ToolUpdateThrows,
     CallThrows, Fail, Emit, LeaveLoop, ToolExecutionEnd, Emit
<1>23. CASE FailStart
  BY <1>0, <1>23 DEF FailStart, MessageStart, Emit
<1>24. CASE FailEnd
  BY <1>0, <1>24 DEF FailEnd, MessageEnd, Emit
<1>25. CASE FailTurnEnd
  BY <1>0, <1>25 DEF FailTurnEnd, TurnEnd, Emit
<1>26. CASE FailAgentEnd
  BY <1>0, <1>26 DEF FailAgentEnd, AgentEndEvent, Emit
<1>27. CASE Prompt
  BY <1>0, <1>27 DEF Prompt, BeginRun, Emit
<1>28. CASE ContinueTranscript
  BY <1>0, <1>28 DEF ContinueTranscript, BeginRun, Emit
<1>29. CASE ContinueWithSteering
  BY <1>0, <1>29 DEF ContinueWithSteering, BeginRun, Emit
<1>30. CASE ContinueWithFollowUps
  BY <1>0, <1>30 DEF ContinueWithFollowUps, BeginRun, Emit
<1>31. CASE Abort
  BY <1>0, <1>31 DEF Abort, Emit
<1>32. CASE Reset
  BY <1>0, <1>32 DEF Reset, Emit
<1>33. ASSUME NEW id \in stragglers, StragglerEnds(id) PROVE FlagTypes'
  BY <1>0, <1>33 DEF StragglerEnds, Emit
<1>34. CASE \/ Request \/ PrepareAllowed \/ ExecutePrepared \/ SteeringPoll
           \/ FollowUpPoll \/ FailureThrows \/ Steer \/ FollowUp
           \/ ClearSteeringQueue \/ ClearFollowUpQueue
  BY <1>0, <1>34 DEF Request, PrepareAllowed, ExecutePrepared, SteeringPoll,
     FollowUpPoll, FailureThrows, Steer, FollowUp, ClearSteeringQueue,
     ClearFollowUpQueue, Emit, MessageStart, MessageEnd, ToolExecutionStart,
     ToolExecutionEnd, TurnEnd, AgentEndEvent, TakeReply, BeginRun
<1>35. CASE UNCHANGED vars
  BY <1>0, <1>35
<1> QED
  BY <1>1, <1>2, <1>3, <1>4, <1>5, <1>6, <1>7, <1>8, <1>9, <1>10, <1>11,
     <1>12, <1>13, <1>14, <1>15, <1>16, <1>17, <1>18, <1>19, <1>20, <1>21,
     <1>22, <1>23, <1>24, <1>25, <1>26, <1>27, <1>28, <1>29, <1>30, <1>31,
     <1>32, <1>33, <1>34, <1>35 DEF Next, RunStep, LoopStep, Operation

\* Where the run is and how far its batch.
LEMMA BatchTypesPreserved ==
    ASSUME TypeOK, Control, [Next]_vars PROVE BatchTypes'
<1> USE DEF BatchTypes, vars, agentVars, queueVars, runVars, loopVars,
      batchVars, historyVars
<1>0. BatchTypes
  BY DEF TypeOK
<1>b. Replies \subseteq AssistantMessage
  BY <1>0, BuiltMessages DEF Replies
<1>c. pc = "replied" => reply \in AssistantMessage
  BY DEF Control, ReplyPC
<1>e. FailureMessage \in AssistantMessage
  BY <1>0, FailureIsAssistant
<1>d. pc = "callDone" /\ ~LastCall => call + 1 \in 0..MaxToolCalls
  BY <1>0, BatchFacts, AgentAssumption
     DEF BatchPC, ReplyPC, Call, AgentAssumption
<1>1. CASE AnnouncePrompt
  BY <1>0, <1>1 DEF AnnouncePrompt, MessageStart, PC
<1>2. CASE PromptAnnounced
  BY <1>0, <1>2 DEF PromptAnnounced, MessageEnd, PC
<1>3. CASE InitialSteeringPoll
  BY <1>0, <1>3 DEF InitialSteeringPoll, PC
<1>4. CASE InjectPending
  BY <1>0, <1>4 DEF InjectPending, MessageStart, PC
<1>5. CASE PendingInjected
  BY <1>0, <1>5 DEF PendingInjected, MessageEnd, PC
<1>6. CASE Request
  BY <1>0, <1>6 DEF Request, PC
<1>7. CASE ResponseStart
  BY <1>0, <1>7 DEF ResponseStart, MessageStart, PC
<1>8. ASSUME NEW m \in Replies, ResponseEnd(m) PROVE BatchTypes'
  BY <1>0, <1>8, <1>b DEF ResponseEnd, MessageEnd, PC
<1>9. ASSUME NEW m \in Replies, ResponseAtOnce(m) PROVE BatchTypes'
  BY <1>0, <1>9, <1>b DEF ResponseAtOnce, MessageStart, PC
<1>10. CASE ReplyEnd
  BY <1>0, <1>10 DEF ReplyEnd, MessageEnd, PC
<1>11. CASE ReplyFailed
  BY <1>0, <1>11 DEF ReplyFailed, TakeReply, TurnEnd, PC
<1>12. CASE ReplyWithoutCalls
  BY <1>0, <1>12 DEF ReplyWithoutCalls, TakeReply, TurnEnd, PC
<1>13. ASSUME NEW mode \in {"sequential", "parallel"}, ReplyWithCalls(mode)
       PROVE BatchTypes'
  BY <1>0, <1>13, AgentAssumption, <1>c DEF ReplyWithCalls, TakeReply,
     ToolExecutionStart, PC, Call, AgentAssumption, AssistantMessage
<1>14. CASE PrepareImmediate
  BY <1>0, <1>14, BatchFacts
     DEF PrepareImmediate, ToolExecutionEnd, PC, BatchPC, ReplyPC
<1>15. CASE PrepareAllowed
  BY <1>0, <1>15, BatchFacts DEF PrepareAllowed, PC, BatchPC, ReplyPC
<1>16. CASE NextCall
  BY <1>0, <1>16, <1>d DEF NextCall, ToolExecutionStart, PC
<1>17. CASE ExecutePrepared
  BY <1>0, <1>17 DEF ExecutePrepared, PC
<1>18. ASSUME NEW c \in Call, NEW terminate \in BOOLEAN, ToolEnds(c, terminate)
       PROVE BatchTypes'
  BY <1>0, <1>18 DEF ToolEnds, ToolExecutionEnd, PC
<1>19. CASE ResultStart
  BY <1>0, <1>19 DEF ResultStart, MessageStart, PC
<1>20. CASE ResultEnd
  BY <1>0, <1>20 DEF ResultEnd, MessageEnd, PC
<1>21. CASE FinishBatch
  BY <1>0, <1>21 DEF FinishBatch, TurnEnd, PC
<1>22. CASE SteeringPoll
  BY <1>0, <1>22 DEF SteeringPoll, PC
<1>23. CASE FollowUpPoll
  BY <1>0, <1>23 DEF FollowUpPoll, PC
<1>24. CASE AgentEnd
  BY <1>0, <1>24 DEF AgentEnd, AgentEndEvent, PC
<1>25. CASE FinishRun
  BY <1>0, <1>25, AgentAssumption DEF FinishRun, LeaveLoop, PC, AgentAssumption
<1>26. CASE RunThrows
  BY <1>0, <1>26, <1>e, AgentAssumption
     DEF RunThrows, Fail, LeaveLoop, PC, AgentAssumption
<1>27. ASSUME NEW c \in Call, ToolEndThrows(c) \/ ToolUpdateThrows(c)
       PROVE BatchTypes'
  BY <1>0, <1>27, <1>e, AgentAssumption DEF ToolEndThrows, ToolUpdateThrows,
     CallThrows, Fail, Emit, LeaveLoop, PC, AgentAssumption
<1>28. CASE FailStart
  BY <1>0, <1>28 DEF FailStart, MessageStart, PC
<1>29. CASE FailEnd
  BY <1>0, <1>29 DEF FailEnd, MessageEnd, PC
<1>30. CASE FailTurnEnd
  BY <1>0, <1>30 DEF FailTurnEnd, TurnEnd, PC
<1>31. CASE FailAgentEnd
  BY <1>0, <1>31 DEF FailAgentEnd, AgentEndEvent, PC
<1>32. CASE FailureThrows
  BY <1>0, <1>32 DEF FailureThrows, PC
<1>33. CASE Prompt
  BY <1>0, <1>33 DEF Prompt, BeginRun, PC
<1>34. CASE ContinueTranscript
  BY <1>0, <1>34 DEF ContinueTranscript, BeginRun, PC
<1>35. CASE ContinueWithSteering
  BY <1>0, <1>35 DEF ContinueWithSteering, BeginRun, PC
<1>36. CASE ContinueWithFollowUps
  BY <1>0, <1>36 DEF ContinueWithFollowUps, BeginRun, PC
<1>37. CASE \/ Steer \/ FollowUp \/ ClearSteeringQueue \/ ClearFollowUpQueue
           \/ Abort \/ Reset
           \/ (\E id \in stragglers : StragglerEnds(id))
  BY <1>0, <1>37 DEF Steer, FollowUp, ClearSteeringQueue, ClearFollowUpQueue,
     Abort, Reset, StragglerEnds, Emit, MessageStart, MessageEnd,
     ToolExecutionStart, ToolExecutionEnd, TurnEnd, AgentEndEvent, TakeReply,
     BeginRun
<1>38. CASE UNCHANGED vars
  BY <1>0, <1>38
<1> QED
  BY <1>1, <1>2, <1>3, <1>4, <1>5, <1>6, <1>7, <1>8, <1>9, <1>10, <1>11,
     <1>12, <1>13, <1>14, <1>15, <1>16, <1>17, <1>18, <1>19, <1>20, <1>21,
     <1>22, <1>23, <1>24, <1>25, <1>26, <1>27, <1>28, <1>29, <1>30, <1>31,
     <1>32, <1>33, <1>34, <1>35, <1>36, <1>37, <1>38 DEF Next, RunStep,
     LoopStep, Operation

\* The identifiers of the calls that execute.
LEMMA CallTypesPreserved ==
    ASSUME TypeOK, Control, [Next]_vars PROVE CallTypes'
<1> USE DEF CallTypes, vars, agentVars, queueVars, runVars, loopVars,
      batchVars, historyVars
<1>0. CallTypes
  BY DEF TypeOK
<1>a. BatchTypes
  BY DEF TypeOK
<1>b. pc = "replied" /\ reply.calls > 0 => << reply.turn, 1 >> \in Nat \X Call
  BY AgentAssumption
     DEF Control, ReplyPC, AssistantMessage, Call, AgentAssumption
<1>c. pc = "callDone" /\ ~LastCall => CallId(call + 1) \in Nat \X Call
  BY <1>a, BatchFacts DEF BatchPC, ReplyPC
<1>d. pc = "running" => \A c \in Call : CallId(c) \in Nat \X Call
  BY <1>a, BatchFacts DEF BatchPC, ReplyPC
<1>1. ASSUME NEW mode \in {"sequential", "parallel"}, ReplyWithCalls(mode)
       PROVE CallTypes'
  BY <1>0, <1>1, <1>b DEF ReplyWithCalls, TakeReply, ToolExecutionStart
<1>2. CASE PrepareImmediate
  BY <1>0, <1>2 DEF PrepareImmediate, ToolExecutionEnd
<1>3. CASE NextCall
  BY <1>0, <1>3, <1>c DEF NextCall, ToolExecutionStart
<1>4. ASSUME NEW c \in Call, NEW terminate \in BOOLEAN, ToolEnds(c, terminate)
       PROVE CallTypes'
  BY <1>0, <1>4 DEF ToolEnds, ToolExecutionEnd
<1>5. CASE FinishRun
  BY <1>0, <1>5 DEF FinishRun
<1>6. ASSUME NEW c \in Call, ToolEndThrows(c) \/ ToolUpdateThrows(c)
       PROVE CallTypes'
  BY <1>0, <1>6, <1>d DEF ToolEndThrows, ToolUpdateThrows,
     CallThrows, Fail, Emit, ToolExecutionEnd, With
<1>7. CASE Reset
  BY <1>0, <1>7 DEF Reset
<1>8. ASSUME NEW id \in stragglers, StragglerEnds(id) PROVE CallTypes'
  BY <1>0, <1>8 DEF StragglerEnds
<1>9. CASE \/ AnnouncePrompt \/ PromptAnnounced \/ InitialSteeringPoll
           \/ InjectPending \/ PendingInjected \/ Request
           \/ ResponseStart \/ (\E m \in Replies : ResponseEnd(m))
           \/ (\E m \in Replies : ResponseAtOnce(m)) \/ ReplyEnd
           \/ ReplyFailed \/ ReplyWithoutCalls \/ PrepareAllowed
           \/ ExecutePrepared \/ ResultStart \/ ResultEnd
           \/ FinishBatch \/ SteeringPoll \/ FollowUpPoll \/ AgentEnd
           \/ RunThrows \/ FailStart \/ FailEnd \/ FailTurnEnd
           \/ FailAgentEnd \/ FailureThrows \/ Prompt
           \/ ContinueTranscript \/ ContinueWithSteering
           \/ ContinueWithFollowUps \/ Steer \/ FollowUp
           \/ ClearSteeringQueue \/ ClearFollowUpQueue \/ Abort
  BY <1>0, <1>9 DEF AnnouncePrompt, PromptAnnounced, InitialSteeringPoll,
     InjectPending, PendingInjected, Request, ResponseStart, ResponseEnd,
     ResponseAtOnce, ReplyEnd, ReplyFailed, ReplyWithoutCalls,
     PrepareAllowed, ExecutePrepared, ResultStart, ResultEnd, FinishBatch,
     SteeringPoll, FollowUpPoll, AgentEnd, RunThrows, Fail, FailStart, FailEnd,
     FailTurnEnd, FailAgentEnd, FailureThrows, Prompt, ContinueTranscript,
     ContinueWithSteering, ContinueWithFollowUps, Steer, FollowUp,
     ClearSteeringQueue, ClearFollowUpQueue, Abort, Emit, MessageStart,
     MessageEnd, ToolExecutionStart, ToolExecutionEnd, TurnEnd,
     AgentEndEvent, TakeReply, BeginRun
<1>10. CASE UNCHANGED vars
  BY <1>0, <1>10
<1> QED
  BY <1>1, <1>2, <1>3, <1>4, <1>5, <1>6, <1>7, <1>8, <1>9, <1>10 DEF Next,
     RunStep, LoopStep, Operation

\* The history variables.
LEMMA HistoryTypesPreserved ==
    ASSUME TypeOK, Control, [Next]_vars PROVE HistoryTypes'
<1> USE DEF HistoryTypes, vars, agentVars, queueVars, runVars, loopVars,
      batchVars, historyVars
<1>0. HistoryTypes
  BY DEF TypeOK
<1>a. /\ MaxUserMessages \in Nat /\ Len(messages) \in Nat
      /\ IdsOf(messages) \subseteq UserId
      /\ IdsOf(pendingMessages) \subseteq UserId
      /\ IdsOf(steeringQueue) \subseteq UserId
      /\ IdsOf(followUpQueue) \subseteq UserId
  BY AgentAssumption, MessageKinds, IdsAreUserIds
     DEF TypeOK, MessageTypes, AgentAssumption
<1>b. nextId \in UserId => nextId + 1 \in 1..(MaxUserMessages + 1)
  BY <1>a DEF UserId
<1>1. CASE FinishRun
  BY <1>0, <1>1, <1>a, <1>b DEF FinishRun, UserId
<1>2. CASE RunThrows
  BY <1>0, <1>2, <1>a, <1>b DEF RunThrows, Fail, UserId
<1>3. ASSUME NEW c \in Call, ToolEndThrows(c) \/ ToolUpdateThrows(c)
       PROVE HistoryTypes'
  BY <1>0, <1>3, <1>a, <1>b DEF ToolEndThrows, ToolUpdateThrows,
     CallThrows, Fail, Emit, UserId
<1>4. CASE Prompt
  BY <1>0, <1>4, <1>a, <1>b DEF Prompt, BeginRun, UserId
<1>5. CASE ContinueTranscript
  BY <1>0, <1>5, <1>a, <1>b DEF ContinueTranscript, BeginRun, UserId
<1>6. CASE ContinueWithSteering
  BY <1>0, <1>6, <1>a, <1>b DEF ContinueWithSteering, BeginRun, UserId
<1>7. CASE ContinueWithFollowUps
  BY <1>0, <1>7, <1>a, <1>b DEF ContinueWithFollowUps, BeginRun, UserId
<1>8. CASE Steer
  BY <1>0, <1>8, <1>a, <1>b DEF Steer, UserId
<1>9. CASE FollowUp
  BY <1>0, <1>9, <1>a, <1>b DEF FollowUp, UserId
<1>10. CASE ClearSteeringQueue
  BY <1>0, <1>10, <1>a, <1>b DEF ClearSteeringQueue, UserId
<1>11. CASE ClearFollowUpQueue
  BY <1>0, <1>11, <1>a, <1>b DEF ClearFollowUpQueue, UserId
<1>12. CASE Reset
  BY <1>0, <1>12, <1>a, <1>b DEF Reset, UserId
<1>13. CASE \/ AnnouncePrompt \/ PromptAnnounced \/ InitialSteeringPoll
           \/ InjectPending \/ PendingInjected \/ Request
           \/ ResponseStart \/ (\E m \in Replies : ResponseEnd(m))
           \/ (\E m \in Replies : ResponseAtOnce(m)) \/ ReplyEnd
           \/ ReplyFailed \/ ReplyWithoutCalls
           \/ (\E mode \in {"sequential", "parallel"} : ReplyWithCalls(mode))
           \/ PrepareImmediate \/ PrepareAllowed \/ NextCall
           \/ ExecutePrepared
           \/ (\E c \in Call, terminate \in BOOLEAN : ToolEnds(c, terminate))
           \/ ResultStart \/ ResultEnd \/ FinishBatch \/ SteeringPoll
           \/ FollowUpPoll \/ AgentEnd \/ FailStart \/ FailEnd
           \/ FailTurnEnd \/ FailAgentEnd \/ FailureThrows \/ Abort
           \/ (\E id \in stragglers : StragglerEnds(id))
  BY <1>0, <1>13 DEF AnnouncePrompt, PromptAnnounced, InitialSteeringPoll,
     InjectPending, PendingInjected, Request, ResponseStart, ResponseEnd,
     ResponseAtOnce, ReplyEnd, ReplyFailed, ReplyWithoutCalls,
     ReplyWithCalls, PrepareImmediate, PrepareAllowed, NextCall,
     ExecutePrepared, ToolEnds, ResultStart, ResultEnd, FinishBatch,
     SteeringPoll, FollowUpPoll, AgentEnd, FailStart, FailEnd, FailTurnEnd,
     FailAgentEnd, FailureThrows, Abort, StragglerEnds, Emit, MessageStart,
     MessageEnd, ToolExecutionStart, ToolExecutionEnd, TurnEnd,
     AgentEndEvent, TakeReply, BeginRun
<1>14. CASE UNCHANGED vars
  BY <1>0, <1>14
<1> QED
  BY <1>1, <1>2, <1>3, <1>4, <1>5, <1>6, <1>7, <1>8, <1>9, <1>10, <1>11,
     <1>12, <1>13, <1>14 DEF Next, RunStep, LoopStep, Operation

\* Control is inductive, given the types.
LEMMA ControlPreserved ==
    ASSUME TypeOK, Control, [Next]_vars PROVE Control'
<1> USE DEF Control, vars, agentVars, queueVars, runVars, loopVars, batchVars,
      historyVars
<1>0. Control
  OBVIOUS
<1>t. BatchTypes
  BY DEF TypeOK
<1>b. Replies \subseteq AssistantMessage
  BY <1>t, BuiltMessages DEF BatchTypes, Replies
<1>r. pc = "replied" /\ reply.calls > 0 =>
        reply \in AssistantMessage /\ 1 \in 1..reply.calls
  BY DEF Control, ReplyPC, AssistantMessage
<1>e. FailureMessage \in AssistantMessage
  BY <1>t, FailureIsAssistant
<1>s. Append(context, Assistant(turn, 0, "partial")) # << >>
  <2> HIDE DEF Control, vars
  <2>1. context \in Seq(Message)
    BY DEF TypeOK, MessageTypes
  <2>2. Assistant(turn, 0, "partial") \in Message
    BY <1>t, AgentAssumption, BuiltMessages, MessageKinds
       DEF BatchTypes, AgentAssumption
  <2> QED BY <2>1, <2>2, AppendProperties
<1>g. pc \in BatchPC =>
        /\ reply \in AssistantMessage /\ call \in 1..reply.calls
        /\ call \in Nat /\ nextResult \in Nat \ {0}
        /\ ~LastCall => call + 1 \in 1..reply.calls
  BY <1>t, BatchFacts DEF Call
<1>1. CASE AnnouncePrompt
  BY <1>0, <1>1, <1>t DEF AnnouncePrompt, MessageStart, BatchPC, ReplyPC
<1>2. CASE PromptAnnounced
  BY <1>0, <1>2, <1>t DEF PromptAnnounced, MessageEnd, BatchPC, ReplyPC
<1>3. CASE InitialSteeringPoll
  BY <1>0, <1>3, <1>t DEF InitialSteeringPoll, BatchPC, ReplyPC
<1>4. CASE InjectPending
  BY <1>0, <1>4, <1>t DEF InjectPending, MessageStart, BatchPC, ReplyPC
<1>5. CASE PendingInjected
  BY <1>0, <1>5, <1>t DEF PendingInjected, MessageEnd, BatchPC, ReplyPC
<1>6. CASE Request
  BY <1>0, <1>6, <1>t DEF Request, Requesting, BatchPC, ReplyPC
<1>7. CASE ResponseStart
  BY <1>0, <1>7, <1>s DEF ResponseStart, MessageStart, BatchPC, ReplyPC
<1>8. ASSUME NEW m \in Replies, ResponseEnd(m) PROVE Control'
  BY <1>0, <1>8, <1>b DEF ResponseEnd, MessageEnd, BatchPC, ReplyPC
<1>9. ASSUME NEW m \in Replies, ResponseAtOnce(m) PROVE Control'
  BY <1>0, <1>9, <1>b DEF ResponseAtOnce, MessageStart, BatchPC, ReplyPC
<1>10. CASE ReplyEnd
  BY <1>0, <1>10, <1>t DEF ReplyEnd, MessageEnd, BatchPC, ReplyPC
<1>11. CASE ReplyFailed
  BY <1>0, <1>11, <1>t DEF ReplyFailed, TakeReply, TurnEnd, BatchPC, ReplyPC
<1>12. CASE ReplyWithoutCalls
  BY <1>0, <1>12, <1>t
     DEF ReplyWithoutCalls, TakeReply, TurnEnd, BatchPC, ReplyPC
<1>13. ASSUME NEW mode \in {"sequential", "parallel"}, ReplyWithCalls(mode)
       PROVE Control'
  BY <1>0, <1>13, <1>r
     DEF ReplyWithCalls, TakeReply, ToolExecutionStart, BatchPC, ReplyPC
<1>14. CASE PrepareImmediate
  BY <1>0, <1>14, <1>t, <1>g
     DEF PrepareImmediate, ToolExecutionEnd, BatchPC, ReplyPC
<1>15. CASE PrepareAllowed
  BY <1>0, <1>15, <1>t, <1>g DEF PrepareAllowed, BatchPC, ReplyPC
<1>16. CASE NextCall
  BY <1>0, <1>16, <1>t, <1>g DEF NextCall, ToolExecutionStart, BatchPC, ReplyPC
<1>17. CASE ExecutePrepared
  BY <1>0, <1>17, <1>t, <1>g DEF ExecutePrepared, BatchPC, ReplyPC
<1>18. ASSUME NEW c \in Call, NEW terminate \in BOOLEAN, ToolEnds(c, terminate)
       PROVE Control'
  BY <1>0, <1>18, <1>t, <1>g DEF ToolEnds, ToolExecutionEnd, BatchPC, ReplyPC
<1>19. CASE ResultStart
  BY <1>0, <1>19, <1>t, <1>g DEF ResultStart, MessageStart, BatchPC, ReplyPC
<1>20. CASE ResultEnd
  BY <1>0, <1>20, <1>t, <1>g DEF ResultEnd, MessageEnd, BatchPC, ReplyPC
<1>21. CASE FinishBatch
  BY <1>0, <1>21, <1>t DEF FinishBatch, TurnEnd, BatchPC, ReplyPC
<1>22. CASE SteeringPoll
  BY <1>0, <1>22, <1>t DEF SteeringPoll, BatchPC, ReplyPC
<1>23. CASE FollowUpPoll
  BY <1>0, <1>23, <1>t DEF FollowUpPoll, BatchPC, ReplyPC
<1>24. CASE AgentEnd
  BY <1>0, <1>24, <1>t DEF AgentEnd, AgentEndEvent, BatchPC, ReplyPC
<1>25. CASE FinishRun
  BY <1>0, <1>25, <1>t DEF FinishRun, LeaveLoop, BatchPC, ReplyPC
<1>26. CASE RunThrows
  BY <1>0, <1>26, <1>t, <1>e
     DEF RunThrows, Fail, AfterEmit, LeaveLoop, BatchPC, ReplyPC
<1>27. ASSUME NEW c \in Call, ToolEndThrows(c) \/ ToolUpdateThrows(c)
       PROVE Control'
  BY <1>0, <1>27, <1>t, <1>e DEF ToolEndThrows, ToolUpdateThrows,
     CallThrows, Fail, Emit, LeaveLoop, ToolExecutionEnd, BatchPC, ReplyPC
<1>28. CASE FailStart
  BY <1>0, <1>28, <1>t DEF FailStart, MessageStart, BatchPC, ReplyPC
<1>29. CASE FailEnd
  BY <1>0, <1>29, <1>t DEF FailEnd, MessageEnd, BatchPC, ReplyPC
<1>30. CASE FailTurnEnd
  BY <1>0, <1>30, <1>t DEF FailTurnEnd, TurnEnd, BatchPC, ReplyPC
<1>31. CASE FailAgentEnd
  BY <1>0, <1>31, <1>t DEF FailAgentEnd, AgentEndEvent, BatchPC, ReplyPC
<1>32. CASE FailureThrows
  BY <1>0, <1>32, <1>t DEF FailureThrows, BatchPC, ReplyPC
<1>33. CASE Prompt
  BY <1>0, <1>33, <1>t DEF Prompt, BeginRun, BatchPC, ReplyPC
<1>34. CASE ContinueTranscript
  BY <1>0, <1>34, <1>t DEF ContinueTranscript, BeginRun, BatchPC, ReplyPC
<1>35. CASE ContinueWithSteering
  BY <1>0, <1>35, <1>t DEF ContinueWithSteering, BeginRun, BatchPC, ReplyPC
<1>36. CASE ContinueWithFollowUps
  BY <1>0, <1>36, <1>t DEF ContinueWithFollowUps, BeginRun, BatchPC, ReplyPC
<1>37. CASE \/ Steer \/ FollowUp \/ ClearSteeringQueue \/ ClearFollowUpQueue
           \/ Abort \/ Reset
           \/ (\E id \in stragglers : StragglerEnds(id))
  BY <1>0, <1>37 DEF Steer, FollowUp, ClearSteeringQueue, ClearFollowUpQueue,
     Abort, Reset, StragglerEnds, Emit, MessageStart, MessageEnd,
     ToolExecutionStart, ToolExecutionEnd, TurnEnd, AgentEndEvent, TakeReply,
     BeginRun
<1>38. CASE UNCHANGED vars
  BY <1>0, <1>38
<1> QED
  BY <1>1, <1>2, <1>3, <1>4, <1>5, <1>6, <1>7, <1>8, <1>9, <1>10, <1>11,
     <1>12, <1>13, <1>14, <1>15, <1>16, <1>17, <1>18, <1>19, <1>20, <1>21,
     <1>22, <1>23, <1>24, <1>25, <1>26, <1>27, <1>28, <1>29, <1>30, <1>31,
     <1>32, <1>33, <1>34, <1>35, <1>36, <1>37, <1>38 DEF Next, RunStep,
     LoopStep, Operation

-----------------------------------------------------------------------------
(* The context mirrors the transcript *)

\* The results of the batch that have been announced.
Announced == [c \in 1..(nextResult - 1) |-> Result(reply.turn, c)]

\* How the loop's context and the transcript are related at every point of a
\* run: the context is ahead by the prompts still to announce or by the reply,
\* and behind by the results of the batch at hand.
Mirror ==
    ~resetInRun =>
      /\ pc \in {"prompt", "promptEnd"} => context = messages \o pendingMessages
      /\ pc \in {"turn", "pendingEnd", "response", "replied", "steeringPoll",
                 "followUpPoll"} => context = messages
      /\ pc = "streaming" => \E m \in Message : context = Append(messages, m)
      /\ pc = "replyEnd" => context = Append(messages, reply)
      /\ pc \in BatchPC => messages = context \o Announced

\* Moving the head of one sequence to the end of another.
LEMMA MoveHead ==
    ASSUME NEW S, NEW s \in Seq(S), NEW t \in Seq(S), t # << >>
    PROVE  Append(s, Head(t)) \o Tail(t) = s \o t
OBVIOUS

\* Overwriting the message that was appended last.
LEMMA ReplaceAppended ==
    ASSUME NEW S, NEW s \in Seq(S), NEW m \in S, NEW e \in S
    PROVE  [Append(s, m) EXCEPT ![Len(Append(s, m))] = e] = Append(s, e)
<1> DEFINE t == Append(s, m)
           u == [t EXCEPT ![Len(t)] = e]
<1>1. /\ t \in Seq(S) /\ t # << >> /\ Len(t) = Len(s) + 1
      /\ \A i \in 1..Len(s) : t[i] = s[i]
  BY AppendProperties
<1>2. /\ Append(s, e) \in Seq(S) /\ Len(Append(s, e)) = Len(s) + 1
      /\ \A i \in 1..Len(s) : Append(s, e)[i] = s[i]
      /\ Append(s, e)[Len(s) + 1] = e
  BY AppendProperties
<1>3. /\ u \in Seq(S) /\ Len(u) = Len(t) /\ u[Len(t)] = e
      /\ \A i \in 1..Len(s) : u[i] = t[i]
  <2>1. Len(t) \in 1..Len(t)
    BY <1>1, LenProperties
  <2>2. Len(s) \in Nat
    BY LenProperties
  <2> HIDE DEF t
  <2> QED BY <1>1, <2>1, <2>2, ExceptSeq
<1>4. Len(s) \in Nat
  BY LenProperties
<1> HIDE DEF t, u
<1>5. \A i \in 1..Len(u) : u[i] = Append(s, e)[i]
  BY <1>1, <1>2, <1>3, <1>4
<1>6. u = Append(s, e)
  BY <1>1, <1>2, <1>3, <1>5, SeqEqual
<1> QED BY <1>6 DEF u, t

\* Appending at the end of a concatenation.
LEMMA AppendConcat ==
    ASSUME NEW s \in Seq(Message), NEW t \in Seq(Message), NEW e \in Message
    PROVE  Append(s \o t, e) = s \o Append(t, e)
OBVIOUS

\* The mirror is inductive, given the types and the control state.
LEMMA MirrorPreserved ==
    ASSUME TypeOK, Control, Mirror, [Next]_vars PROVE Mirror'
<1> USE DEF Mirror, vars, agentVars, queueVars, runVars, loopVars, batchVars,
      historyVars
<1>0. Mirror
  OBVIOUS
<1>a. MessageTypes /\ BatchTypes
  BY DEF TypeOK
<1>b. /\ messages \in Seq(Message) /\ context \in Seq(Message)
      /\ pendingMessages \in Seq(Message)
  BY <1>a, MessageKinds DEF MessageTypes
<1>c. Replies \subseteq Message
  BY <1>a, BuiltMessages, MessageKinds DEF BatchTypes, Replies
<1>d. Assistant(turn, 0, "partial") \in Message
  BY <1>a, AgentAssumption, BuiltMessages, MessageKinds
     DEF BatchTypes, AgentAssumption
<1>e. pc \in {"promptEnd", "pendingEnd"} => pendingMessages # << >>
  BY DEF Control
<1>f. ASSUME NEW m \in Message, NEW n \in Message, context = Append(messages,
      n)
      PROVE  [context EXCEPT ![Len(context)] = m] = Append(messages, m)
  BY <1>b, <1>f, ReplaceAppended
<1>g. pc = "resultEnd" =>
        [c \in 1..nextResult |-> Result(reply.turn, c)]
          = Append(Announced, Result(reply.turn, nextResult))
  <2> SUFFICES ASSUME pc = "resultEnd"
               PROVE  [c \in 1..nextResult |-> Result(reply.turn, c)]
                        = Append(Announced, Result(reply.turn, nextResult))
    OBVIOUS
  <2>1. nextResult \in Nat \ {0} /\ nextResult \in 1..call
    BY <1>a, BatchFacts DEF BatchPC, ReplyPC
  <2> QED BY <2>1 DEF Announced
<1>h. nextResult' = 1 => messages = messages \o Announced'
  BY <1>b, ConcatEmptySeq DEF Announced
<1>i. ASSUME pc = "resultEnd", messages = context \o Announced
      PROVE  Append(messages, Result(reply.turn, nextResult))
               = context \o [c \in 1..nextResult |-> Result(reply.turn, c)]
  <2>1. /\ nextResult \in 1..call /\ call \in Nat
        /\ \A c \in 1..call : Result(reply.turn, c) \in Message
    BY <1>a, <1>i, BatchFacts DEF BatchPC, ReplyPC, Call
  <2>2. Announced \in Seq(Message)
    BY <2>1 DEF Announced
  <2>3. Result(reply.turn, nextResult) \in Message
    BY <2>1
  <2>4. Append(context \o Announced, Result(reply.turn, nextResult))
          = context \o Append(Announced, Result(reply.turn, nextResult))
    BY <1>b, <2>2, <2>3, AppendConcat
  <2> QED BY <1>g, <1>i, <2>4
<1>l. pc = "resultEnd" /\ nextResult' = nextResult + 1 /\ reply' = reply =>
        Announced' = [c \in 1..nextResult |-> Result(reply.turn, c)]
  <2>1. nextResult \in Nat
    BY <1>a DEF BatchTypes
  <2> QED BY <2>1 DEF Announced
<1>j. FinishBatch => Announced = BatchResults
  <2> SUFFICES ASSUME FinishBatch PROVE nextResult = call + 1
    BY <1>a, BatchFacts
     DEF FinishBatch, BatchPC, ReplyPC, Announced, BatchResults, Call
  <2>1. call \in Nat /\ nextResult \in Nat
    BY <1>a, BatchFacts DEF FinishBatch, BatchPC, ReplyPC, Call
  <2> QED BY <2>1 DEF FinishBatch, Control, BatchPC, ReplyPC
<1>k. pc = "idle" \/ activeRun
  BY DEF Control
<1>1. CASE AnnouncePrompt
  BY <1>0, <1>1 DEF AnnouncePrompt, MessageStart, BatchPC, ReplyPC
<1>2. CASE PromptAnnounced
  BY <1>0, <1>2, <1>b, <1>e, MoveHead
     DEF PromptAnnounced, MessageEnd, BatchPC, ReplyPC
<1>3. CASE InitialSteeringPoll
  BY <1>0, <1>3, <1>b, ConcatEmptySeq DEF InitialSteeringPoll, BatchPC, ReplyPC
<1>4. CASE InjectPending
  BY <1>0, <1>4 DEF InjectPending, MessageStart, BatchPC, ReplyPC
<1>5. CASE PendingInjected
  BY <1>0, <1>5, <1>b, <1>e, MoveHead
     DEF PendingInjected, MessageEnd, BatchPC, ReplyPC
<1>6. CASE Request
  BY <1>0, <1>6 DEF Request, Requesting, BatchPC, ReplyPC
<1>7. CASE ResponseStart
  BY <1>0, <1>7, <1>d DEF ResponseStart, MessageStart, BatchPC, ReplyPC
<1>8. ASSUME NEW m \in Replies, ResponseEnd(m) PROVE Mirror'
  BY <1>0, <1>8, <1>c, <1>f DEF ResponseEnd, MessageEnd, BatchPC, ReplyPC
<1>9. ASSUME NEW m \in Replies, ResponseAtOnce(m) PROVE Mirror'
  BY <1>0, <1>9 DEF ResponseAtOnce, MessageStart, BatchPC, ReplyPC
<1>10. CASE ReplyEnd
  BY <1>0, <1>10 DEF ReplyEnd, MessageEnd, BatchPC, ReplyPC
<1>11. CASE ReplyFailed
  BY <1>0, <1>11 DEF ReplyFailed, TakeReply, TurnEnd, BatchPC, ReplyPC
<1>12. CASE ReplyWithoutCalls
  BY <1>0, <1>12 DEF ReplyWithoutCalls, TakeReply, TurnEnd, BatchPC, ReplyPC
<1>13. ASSUME NEW mode \in {"sequential", "parallel"}, ReplyWithCalls(mode)
       PROVE Mirror'
  BY <1>0, <1>13, <1>b, <1>h
     DEF ReplyWithCalls, TakeReply, ToolExecutionStart, BatchPC, ReplyPC
<1>14. CASE PrepareImmediate
  BY <1>0, <1>14
     DEF PrepareImmediate, ToolExecutionEnd, BatchPC, ReplyPC, Announced
<1>15. CASE PrepareAllowed
  BY <1>0, <1>15 DEF PrepareAllowed, BatchPC, ReplyPC, Announced
<1>16. CASE NextCall
  BY <1>0, <1>16 DEF NextCall, ToolExecutionStart, BatchPC, ReplyPC, Announced
<1>17. CASE ExecutePrepared
  BY <1>0, <1>17 DEF ExecutePrepared, BatchPC, ReplyPC, Announced
<1>18. ASSUME NEW c \in Call, NEW terminate \in BOOLEAN, ToolEnds(c, terminate)
       PROVE Mirror'
  BY <1>0, <1>18 DEF ToolEnds, ToolExecutionEnd, BatchPC, ReplyPC, Announced
<1>19. CASE ResultStart
  BY <1>0, <1>19 DEF ResultStart, MessageStart, BatchPC, ReplyPC, Announced
<1>20. CASE ResultEnd
  BY <1>0, <1>20, <1>i, <1>l DEF ResultEnd, MessageEnd, BatchPC, ReplyPC
<1>21. CASE FinishBatch
  BY <1>0, <1>21, <1>j DEF FinishBatch, TurnEnd, BatchPC, ReplyPC
<1>22. CASE SteeringPoll
  BY <1>0, <1>22 DEF SteeringPoll, BatchPC, ReplyPC
<1>23. CASE FollowUpPoll
  BY <1>0, <1>23 DEF FollowUpPoll, BatchPC, ReplyPC
<1>24. CASE AgentEnd
  BY <1>0, <1>24 DEF AgentEnd, AgentEndEvent, BatchPC, ReplyPC
<1>25. CASE FinishRun
  BY <1>0, <1>25 DEF FinishRun, LeaveLoop, BatchPC, ReplyPC
<1>26. CASE RunThrows
  BY <1>0, <1>26 DEF RunThrows, Fail, LeaveLoop, BatchPC, ReplyPC
<1>27. ASSUME NEW c \in Call, ToolEndThrows(c) \/ ToolUpdateThrows(c)
       PROVE Mirror'
  BY <1>0, <1>27 DEF ToolEndThrows, ToolUpdateThrows,
     CallThrows, Fail, Emit, LeaveLoop, ToolExecutionEnd, BatchPC, ReplyPC
<1>28. CASE FailStart
  BY <1>0, <1>28 DEF FailStart, MessageStart, BatchPC, ReplyPC
<1>29. CASE FailEnd
  BY <1>0, <1>29 DEF FailEnd, MessageEnd, BatchPC, ReplyPC
<1>30. CASE FailTurnEnd
  BY <1>0, <1>30 DEF FailTurnEnd, TurnEnd, BatchPC, ReplyPC
<1>31. CASE FailAgentEnd
  BY <1>0, <1>31 DEF FailAgentEnd, AgentEndEvent, BatchPC, ReplyPC
<1>32. CASE FailureThrows
  BY <1>0, <1>32 DEF FailureThrows, BatchPC, ReplyPC
<1>33. CASE Prompt
  BY <1>0, <1>33 DEF Prompt, BeginRun, BatchPC, ReplyPC
<1>34. CASE ContinueTranscript
  BY <1>0, <1>34 DEF ContinueTranscript, BeginRun, BatchPC, ReplyPC
<1>35. CASE ContinueWithSteering
  BY <1>0, <1>35 DEF ContinueWithSteering, BeginRun, BatchPC, ReplyPC
<1>36. CASE ContinueWithFollowUps
  BY <1>0, <1>36 DEF ContinueWithFollowUps, BeginRun, BatchPC, ReplyPC
<1>37. CASE Reset
  BY <1>0, <1>37, <1>k DEF Reset, BatchPC, ReplyPC
<1>38. CASE \/ Steer \/ FollowUp \/ ClearSteeringQueue \/ ClearFollowUpQueue
           \/ Abort \/ (\E id \in stragglers : StragglerEnds(id))
  BY <1>0, <1>38
     DEF Announced, Steer, FollowUp, ClearSteeringQueue, ClearFollowUpQueue,
     Abort, StragglerEnds, Emit, MessageStart, MessageEnd,
     ToolExecutionStart, ToolExecutionEnd, TurnEnd, AgentEndEvent, TakeReply,
     BeginRun
<1>39. CASE UNCHANGED vars
  BY <1>0, <1>39 DEF Announced
<1> QED
  BY <1>1, <1>2, <1>3, <1>4, <1>5, <1>6, <1>7, <1>8, <1>9, <1>10, <1>11,
     <1>12, <1>13, <1>14, <1>15, <1>16, <1>17, <1>18, <1>19, <1>20, <1>21,
     <1>22, <1>23, <1>24, <1>25, <1>26, <1>27, <1>28, <1>29, <1>30, <1>31,
     <1>32, <1>33, <1>34, <1>35, <1>36, <1>37, <1>38, <1>39 DEF Next,
     RunStep, LoopStep, Operation

-----------------------------------------------------------------------------
(* Theorems *)

\* The types hold in every reachable state, and with them what the control
\* state says about the locals of the run.
THEOREM TypeCorrect == Spec => [](TypeOK /\ Control)
<1>1. Init => TypeOK /\ Control
  BY InitTypes
<1>2. TypeOK /\ Control /\ [Next]_vars => (TypeOK /\ Control)'
  BY FlagTypesPreserved, MessageTypesPreserved, BatchTypesPreserved,
     CallTypesPreserved, HistoryTypesPreserved, ControlPreserved DEF TypeOK
<1> QED BY <1>1, <1>2, PTL DEF Spec

\* Every request is made from the very messages that the Agent's owner sees as
\* the transcript, whatever the owner, the model, the tools and the listeners
\* have done before.
THEOREM RequestsSeeTranscript == Spec => []RequestSeesTranscript
<1>1. Init => Mirror
  BY DEF Init, Mirror, BatchPC, ReplyPC
<1>2. TypeOK /\ Control /\ Mirror /\ [Next]_vars => Mirror'
  BY MirrorPreserved
<1>3. Mirror => RequestSeesTranscript
  BY DEF Mirror, RequestSeesTranscript, Requesting
<1> QED BY <1>1, <1>2, <1>3, TypeCorrect, PTL DEF Spec

-----------------------------------------------------------------------------
(* Lemmas about the ids of the messages in a sequence *)

\* message_end (processEvents) adds the message's id, if it has one.
LEMMA IdsOfAppend ==
    ASSUME NEW s \in Seq(Message), NEW m \in Message
    PROVE  IdsOf(Append(s, m)) =
             IdsOf(s) \union (IF m.role = "user" THEN {m.id} ELSE {})
<1> DEFINE t == Append(s, m)
           users(ms) == { j \in DOMAIN ms : ms[j].role = "user" }
<1>1. /\ DOMAIN s = 1..Len(s) /\ DOMAIN t = 1..(Len(s) + 1) /\ Len(s) \in Nat
      /\ \A i \in 1..Len(s) : t[i] = s[i]
      /\ t[Len(s) + 1] = m
  BY AppendProperties, LenProperties
<1> HIDE DEF t
<1>2. users(t) = users(s) \union (IF m.role = "user" THEN {Len(s) + 1} ELSE {})
  BY <1>1
<1>3. \A i \in users(s) : t[i] = s[i]
  BY <1>1
<1>4. IdsOf(t) = { t[i].id : i \in users(t) }
        /\ IdsOf(s) = { s[i].id : i \in users(s) }
  BY DEF IdsOf
<1> HIDE DEF users
<1> QED BY <1>1, <1>2, <1>3, <1>4 DEF t

\* In a queue every message has an id.
LEMMA IdsOfQueue ==
    ASSUME NEW q \in Seq(UserMessage)
    PROVE  IdsOf(q) = { q[i].id : i \in 1..Len(q) }
<1>1. DOMAIN q = 1..Len(q)
  BY LenProperties
<1>2. \A i \in 1..Len(q) : q[i].role = "user"
  <2>1. \A i \in 1..Len(q) : q[i] \in UserMessage
    BY ElementOfSeq
  <2> QED BY <2>1 DEF UserMessage
<1> QED BY <1>1, <1>2 DEF IdsOf

\* No messages, no ids.
LEMMA IdsOfNothing == IdsOf(<< >>) = {}
BY DEF IdsOf

\* The oldest message of a queue and the others.
LEMMA IdsOfHeadAndTail ==
    ASSUME NEW q \in Seq(UserMessage), q # << >>
    PROVE  /\ IdsOf(q) = {Head(q).id} \union IdsOf(Tail(q))
           /\ Head(q) \in UserMessage
<1>1. /\ Head(q) \in UserMessage /\ Tail(q) \in Seq(UserMessage)
      /\ Len(Tail(q)) = Len(q) - 1 /\ Len(q) \in Nat \ {0}
      /\ \A i \in 1..(Len(q) - 1) : Tail(q)[i] = q[i + 1]
      /\ Head(q) = q[1]
  BY HeadTailProperties, EmptySeq
<1>2. IdsOf(q) = { q[i].id : i \in 1..Len(q) }
  BY IdsOfQueue
<1>3. IdsOf(Tail(q)) = { Tail(q)[i].id : i \in 1..(Len(q) - 1) }
  BY <1>1, IdsOfQueue
<1>4. ASSUME NEW i \in 1..Len(q)
      PROVE  q[i].id \in {Head(q).id} \union IdsOf(Tail(q))
  <2>1. CASE i = 1
    BY <1>1, <2>1
  <2>2. CASE i # 1
    <3>1. i - 1 \in 1..(Len(q) - 1) /\ (i - 1) + 1 = i
      BY <1>1, <2>2
    <3>2. Tail(q)[i - 1] = q[i]
      BY <1>1, <3>1
    <3> QED BY <1>3, <3>1, <3>2
  <2> QED BY <2>1, <2>2
<1>5. ASSUME NEW i \in 1..(Len(q) - 1)
      PROVE  Tail(q)[i].id \in IdsOf(q)
  <2>1. i + 1 \in 1..Len(q) /\ Tail(q)[i] = q[i + 1]
    BY <1>1
  <2> QED BY <1>2, <2>1
<1>6. Head(q).id \in IdsOf(q)
  <2>1. 1 \in 1..Len(q)
    BY <1>1
  <2> QED BY <1>1, <1>2, <2>1
<1> QED BY <1>1, <1>2, <1>3, <1>4, <1>5, <1>6

\* One message, one id.
LEMMA IdsOfOne ==
    ASSUME NEW m \in UserMessage
    PROVE  << m >> \in Seq(UserMessage) /\ IdsOf(<< m >>) = {m.id}
<1>1. << m >> \in Seq(UserMessage) /\ Len(<< m >>) = 1 /\ << m >>[1] = m
  OBVIOUS
<1> DEFINE q == << m >>
<1>2. q \in Seq(UserMessage) /\ Len(q) = 1 /\ q[1] = m
  BY <1>1
<1> HIDE DEF q
<1>3. IdsOf(q) = { q[i].id : i \in 1..1 }
  BY <1>2, IdsOfQueue
<1>4. IdsOf(q) = {m.id}
  BY <1>2, <1>3
<1> QED BY <1>2, <1>4 DEF q

\* drain() neither loses nor invents a message.
LEMMA IdsOfDrained ==
    ASSUME NEW q \in Seq(UserMessage), NEW mode
    PROVE  IdsOf(q) = IdsOf(Drained(q, mode)) \union IdsOf(Remaining(q, mode))
<1>1. CASE mode = "all" \/ q = << >>
  BY <1>1, IdsOfNothing DEF Drained, Remaining
<1>2. CASE ~(mode = "all" \/ q = << >>)
  <2>1. /\ IdsOf(q) = {Head(q).id} \union IdsOf(Tail(q))
        /\ Head(q) \in UserMessage
    BY <1>2, IdsOfHeadAndTail
  <2>3. IdsOf(<< Head(q) >>) = {Head(q).id}
    BY <2>1, IdsOfOne
  <2> QED BY <1>2, <2>1, <2>3 DEF Drained, Remaining
<1> QED BY <1>1, <1>2
-----------------------------------------------------------------------------
(* What a step does to the user messages *)

\* The points of a run at which it may hold messages that it has taken out of
\* a queue or was given as prompts.
HoldingPC == {"prompt", "promptEnd", "turn", "pendingEnd"}

\* A run that does anything else has announced every message it held.
HandsEmpty == pc \notin HoldingPC => pendingMessages = << >>

deliveryState == << messages, pendingMessages, steeringQueue, followUpQueue,
                    nextId, discarded, activeRun >>

\* message_end for the message at hand.
Delivered ==
    /\ activeRun /\ pendingMessages # << >>
    /\ messages' = Append(messages, Head(pendingMessages))
    /\ pendingMessages' = Tail(pendingMessages)
    /\ UNCHANGED << queueVars, nextId, discarded, activeRun >>

\* message_end for a reply, a tool result or the message of a failed run.
AnsweredBy(m) ==
    /\ activeRun /\ pendingMessages = << >>
    /\ messages' = Append(messages, m)
    /\ UNCHANGED << pendingMessages, queueVars, nextId, discarded, activeRun >>

\* A poll, or continue() with what a queue holds.
TookSteering(mode) ==
    /\ pendingMessages = << >> /\ activeRun'
    /\ pendingMessages' = Drained(steeringQueue, mode)
    /\ steeringQueue' = Remaining(steeringQueue, mode)
    /\ UNCHANGED << messages, followUpQueue, nextId, discarded >>

TookFollowUps(mode) ==
    /\ pendingMessages = << >> /\ activeRun'
    /\ pendingMessages' = Drained(followUpQueue, mode)
    /\ followUpQueue' = Remaining(followUpQueue, mode)
    /\ UNCHANGED << messages, steeringQueue, nextId, discarded >>

\* prompt(), and continue() with what the transcript holds.
Prompted ==
    /\ pendingMessages = << >> /\ ~activeRun /\ activeRun'
    /\ nextId \in UserId /\ nextId' = nextId + 1
    /\ pendingMessages' = << User(nextId, "prompt") >>
    /\ UNCHANGED << messages, queueVars, discarded >>

Continued ==
    /\ pendingMessages = << >> /\ ~activeRun /\ activeRun'
    /\ UNCHANGED << messages, pendingMessages, queueVars, nextId, discarded >>

\* A run throws, a run ends.
Dropped ==
    /\ activeRun
    /\ pendingMessages' = << >>
    /\ discarded' = discarded \union IdsOf(pendingMessages)
    /\ UNCHANGED << messages, queueVars, nextId, activeRun >>

Finished ==
    /\ pendingMessages = << >> /\ activeRun /\ activeRun' = FALSE
    /\ UNCHANGED << messages, pendingMessages, queueVars, nextId, discarded >>

\* Every step of the Agent is one of these, or an operation on a queue or on
\* the transcript, or does nothing to the user messages.
DeliveryStep ==
    \/ Delivered
    \/ \E m \in AssistantMessage \union ToolResult : AnsweredBy(m)
    \/ \E mode : TookSteering(mode) \/ TookFollowUps(mode)
    \/ Prompted \/ Continued \/ Dropped \/ Finished
    \/ Steer \/ FollowUp \/ ClearSteeringQueue \/ ClearFollowUpQueue \/ Reset
    \/ UNCHANGED deliveryState

\* The step of each action of the Agent; what the run holds is inductive.
LEMMA DeliverySteps ==
    ASSUME TypeOK, Control, HandsEmpty, [Next]_vars
    PROVE  DeliveryStep /\ HandsEmpty'
<1> USE DEF HandsEmpty, HoldingPC, vars, agentVars, queueVars, runVars,
      loopVars, batchVars, historyVars
<1>0. HandsEmpty /\ MessageTypes /\ BatchTypes
  BY DEF TypeOK
<1>a. pc \in {"promptEnd", "pendingEnd"} => pendingMessages # << >>
  BY DEF Control
<1>b. pc \in {"replyEnd", "failEnd"} => reply \in AssistantMessage
  BY DEF Control, ReplyPC
<1>c. Replies \subseteq AssistantMessage
  BY <1>0, BuiltMessages DEF BatchTypes, Replies
<1>d. pc = "resultEnd" => Result(reply.turn, nextResult) \in ToolResult
  <2> SUFFICES ASSUME pc = "resultEnd"
               PROVE  Result(reply.turn, nextResult) \in ToolResult
    OBVIOUS
  <2>1. reply.turn \in Nat /\ nextResult \in 1..call /\ call \in Call
    BY <1>0, BatchFacts DEF BatchPC, ReplyPC
  <2>2. nextResult \in Call
    BY <2>1, AgentAssumption DEF Call, AgentAssumption
  <2> QED BY <2>1, <2>2, BuiltMessages
<1>e. activeRun <=> pc # "idle"
  BY DEF Control
<1>1. CASE PromptAnnounced \/ PendingInjected
  BY <1>0, <1>1, <1>a, <1>e
     DEF PromptAnnounced, PendingInjected, MessageEnd, DeliveryStep, Delivered
<1>2. CASE InitialSteeringPoll
  BY <1>0, <1>2, <1>e
     DEF InitialSteeringPoll, DeliveryStep, TookSteering, deliveryState
<1>3. CASE SteeringPoll
  BY <1>0, <1>3, <1>e DEF SteeringPoll, DeliveryStep, TookSteering
<1>4. CASE FollowUpPoll
  BY <1>0, <1>4, <1>e DEF FollowUpPoll, DeliveryStep, TookFollowUps
<1>5. ASSUME NEW m \in Replies, ResponseEnd(m)
      PROVE  DeliveryStep /\ HandsEmpty'
  BY <1>0, <1>5, <1>c, <1>e
     DEF ResponseEnd, MessageEnd, DeliveryStep, AnsweredBy
<1>6. CASE ReplyEnd \/ FailEnd
  BY <1>0, <1>6, <1>b, <1>e
     DEF ReplyEnd, FailEnd, MessageEnd, DeliveryStep, AnsweredBy
<1>7. CASE ResultEnd
  BY <1>0, <1>7, <1>d, <1>e
     DEF ResultEnd, MessageEnd, DeliveryStep, AnsweredBy
<1>8. CASE FinishRun
  BY <1>0, <1>8, <1>e DEF FinishRun, LeaveLoop, DeliveryStep, Finished
<1>9. CASE RunThrows
  BY <1>0, <1>9, <1>e
     DEF RunThrows, AfterEmit, Fail, LeaveLoop, DeliveryStep, Dropped
<1>10. ASSUME NEW c \in Call, ToolEndThrows(c) \/ ToolUpdateThrows(c)
       PROVE  DeliveryStep /\ HandsEmpty'
  BY <1>0, <1>10, <1>e DEF ToolEndThrows, ToolUpdateThrows, CallThrows, Fail,
     LeaveLoop, ToolExecutionEnd, DeliveryStep, Dropped
<1>11. CASE Prompt
  BY <1>0, <1>11, <1>e DEF Prompt, BeginRun, DeliveryStep, Prompted
<1>12. CASE ContinueTranscript
  BY <1>0, <1>12, <1>e
     DEF ContinueTranscript, BeginRun, DeliveryStep, Continued
<1>13. CASE ContinueWithSteering
  BY <1>0, <1>13, <1>e
     DEF ContinueWithSteering, BeginRun, DeliveryStep, TookSteering
<1>14. CASE ContinueWithFollowUps
  BY <1>0, <1>14, <1>e
     DEF ContinueWithFollowUps, BeginRun, DeliveryStep, TookFollowUps
<1>15. CASE \/ Steer \/ FollowUp \/ ClearSteeringQueue \/ ClearFollowUpQueue
           \/ Reset
  BY <1>0, <1>15 DEF Steer, FollowUp, ClearSteeringQueue, ClearFollowUpQueue,
     Reset, DeliveryStep
<1>16. CASE \/ AnnouncePrompt \/ InjectPending \/ Request \/ ResponseStart
           \/ (\E m \in Replies : ResponseAtOnce(m))
           \/ ReplyFailed \/ ReplyWithoutCalls
           \/ (\E mode \in {"sequential", "parallel"} : ReplyWithCalls(mode))
  BY <1>0, <1>16 DEF AnnouncePrompt, InjectPending, Request, Requesting,
     ResponseStart, ResponseAtOnce, ReplyFailed, ReplyWithoutCalls,
     ReplyWithCalls, TakeReply, MessageStart, ToolExecutionStart, TurnEnd,
     DeliveryStep, deliveryState
<1>17. CASE \/ PrepareImmediate \/ PrepareAllowed \/ NextCall
           \/ ExecutePrepared
           \/ (\E c \in Call, terminate \in BOOLEAN : ToolEnds(c, terminate))
           \/ ResultStart \/ FinishBatch \/ AgentEnd
  BY <1>0, <1>17 DEF PrepareImmediate, PrepareAllowed, NextCall,
     ExecutePrepared, ToolEnds, ResultStart, FinishBatch, AgentEnd,
     MessageStart, ToolExecutionStart, ToolExecutionEnd, TurnEnd,
     AgentEndEvent, DeliveryStep, deliveryState
<1>18. CASE \/ FailStart \/ FailTurnEnd \/ FailAgentEnd \/ FailureThrows
           \/ Abort \/ (\E id \in stragglers : StragglerEnds(id))
           \/ UNCHANGED vars
  BY <1>0, <1>18 DEF FailStart, FailTurnEnd, FailAgentEnd, FailureThrows,
     Abort, StragglerEnds, MessageStart, TurnEnd, AgentEndEvent,
     DeliveryStep, deliveryState
<1> QED
  BY <1>1, <1>2, <1>3, <1>4, <1>5, <1>6, <1>7, <1>8, <1>9, <1>10, <1>11,
     <1>12, <1>13, <1>14, <1>15, <1>16, <1>17, <1>18 DEF Next, RunStep,
     LoopStep, Operation

-----------------------------------------------------------------------------
(* No message is lost *)

\* Five sets of which no two have an element in common.
Apart(A, B, C, D, E) ==
    /\ A \intersect B = {} /\ A \intersect C = {} /\ A \intersect D = {}
    /\ A \intersect E = {} /\ B \intersect C = {} /\ B \intersect D = {}
    /\ B \intersect E = {} /\ C \intersect D = {} /\ C \intersect E = {}
    /\ D \intersect E = {}

\* The places, one by one.
InFivePlaces ==
    /\ IdsOf(messages) \union IdsOf(pendingMessages)
         \union IdsOf(steeringQueue) \union IdsOf(followUpQueue)
         \union discarded = 1..(nextId - 1)
    /\ Apart(IdsOf(messages), IdsOf(pendingMessages), IdsOf(steeringQueue),
             IdsOf(followUpQueue), discarded)
    /\ Once(messages) /\ Once(pendingMessages)
    /\ Once(steeringQueue) /\ Once(followUpQueue)

\* It says the same, ...
LEMMA FivePlaces == EveryMessageIsInOnePlace <=> InFivePlaces
<1>1. /\ DOMAIN Places = {1, 2, 3, 4, 5}
      /\ Places[1] = IdsOf(messages) /\ Places[2] = IdsOf(pendingMessages)
      /\ Places[3] = IdsOf(steeringQueue) /\ Places[4] = IdsOf(followUpQueue)
      /\ Places[5] = discarded
  BY DEF Places
<1>2. UNION { Places[p] : p \in DOMAIN Places }
        = IdsOf(messages) \union IdsOf(pendingMessages)
            \union IdsOf(steeringQueue) \union IdsOf(followUpQueue)
            \union discarded
  BY <1>1
<1>3. (\A p, q \in DOMAIN Places :
         p # q => Places[p] \intersect Places[q] = {})
      <=> Apart(IdsOf(messages), IdsOf(pendingMessages), IdsOf(steeringQueue),
                IdsOf(followUpQueue), discarded)
  BY <1>1 DEF Apart
<1> QED BY <1>2, <1>3 DEF EveryMessageIsInOnePlace, InFivePlaces

\* ... also of the next state.
LEMMA FivePlacesNext == EveryMessageIsInOnePlace' <=> InFivePlaces'
BY FivePlaces, PTL

\* What a step moves from one set to another is in no third.
LEMMA ApartMoves ==
    ASSUME NEW A, NEW B, NEW C, NEW D, NEW E
    PROVE  /\ \A x : Apart(A, {x} \union B, C, D, E) /\ x \notin B
                       => Apart(A \union {x}, B, C, D, E)
           /\ \A x : /\ Apart(A, B, C, D, E)
                     /\ x \notin A \union B \union C \union D \union E
                     => /\ B = {} => Apart(A, {x}, C, D, E)
                        /\ Apart(A, B, C \union {x}, D, E)
                        /\ Apart(A, B, C, D \union {x}, E)
           /\ \A X, Y : X \intersect Y = {} =>
                /\ Apart(A, {}, X \union Y, D, E) => Apart(A, X, Y, D, E)
                /\ Apart(A, {}, C, X \union Y, E) => Apart(A, X, C, Y, E)
           /\ Apart(A, B, C, D, E) =>
                /\ Apart(A, {}, C, D, E \union B)
                /\ Apart(A, B, {}, D, E \union C)
                /\ Apart(A, B, C, {}, E \union D)
                /\ Apart({}, B, {}, {}, E \union A \union C \union D)
<1>1. ASSUME NEW x, Apart(A, {x} \union B, C, D, E), x \notin B
      PROVE  Apart(A \union {x}, B, C, D, E)
  BY <1>1 DEF Apart
<1>2. ASSUME NEW x, Apart(A, B, C, D, E),
             x \notin A \union B \union C \union D \union E
      PROVE  /\ B = {} => Apart(A, {x}, C, D, E)
             /\ Apart(A, B, C \union {x}, D, E)
             /\ Apart(A, B, C, D \union {x}, E)
  BY <1>2 DEF Apart
<1>3. ASSUME NEW X, NEW Y, X \intersect Y = {}
      PROVE  /\ Apart(A, {}, X \union Y, D, E) => Apart(A, X, Y, D, E)
             /\ Apart(A, {}, C, X \union Y, E) => Apart(A, X, C, Y, E)
  BY <1>3 DEF Apart
<1>4. ASSUME Apart(A, B, C, D, E)
      PROVE  /\ Apart(A, {}, C, D, E \union B)
             /\ Apart(A, B, {}, D, E \union C)
             /\ Apart(A, B, C, {}, E \union D)
             /\ Apart({}, B, {}, {}, E \union A \union C \union D)
  BY <1>4 DEF Apart
<1> QED BY <1>1, <1>2, <1>3, <1>4

\* A message that enters a sequence of others is not in it twice.
LEMMA OnceOfAppend ==
    ASSUME NEW s \in Seq(Message), NEW m \in Message, Once(s),
           m.role = "user" => m.id \notin IdsOf(s)
    PROVE  Once(Append(s, m))
<1> DEFINE t == Append(s, m)
<1>1. /\ DOMAIN s = 1..Len(s) /\ DOMAIN t = 1..(Len(s) + 1) /\ Len(s) \in Nat
      /\ \A i \in 1..Len(s) : t[i] = s[i]
      /\ t[Len(s) + 1] = m
  BY AppendProperties, LenProperties
<1> HIDE DEF t
<1>2. SUFFICES ASSUME NEW i \in DOMAIN t, NEW j \in DOMAIN t,
                      t[i].role = "user", t[j].role = "user", t[i].id = t[j].id
               PROVE  i = j
  BY DEF Once, t
<1>3. \A k \in 1..Len(s) : s[k].role = "user" => s[k].id \in IdsOf(s)
  BY <1>1 DEF IdsOf
<1>4. CASE i \in 1..Len(s) /\ j \in 1..Len(s)
  BY <1>1, <1>2, <1>4 DEF Once
<1>5. CASE i \in 1..Len(s) /\ j = Len(s) + 1
  BY <1>1, <1>2, <1>3, <1>5
<1>6. CASE i = Len(s) + 1 /\ j \in 1..Len(s)
  BY <1>1, <1>2, <1>3, <1>6
<1> QED BY <1>1, <1>4, <1>5, <1>6

\* The oldest message of a queue is not among the others.
LEMMA OnceOfHeadAndTail ==
    ASSUME NEW q \in Seq(UserMessage), q # << >>, Once(q)
    PROVE  Once(Tail(q)) /\ Head(q).id \notin IdsOf(Tail(q))
<1>1. /\ Tail(q) \in Seq(UserMessage) /\ Len(Tail(q)) = Len(q) - 1
      /\ Len(q) \in Nat \ {0} /\ Head(q) = q[1]
      /\ \A i \in 1..(Len(q) - 1) : Tail(q)[i] = q[i + 1]
  BY HeadTailProperties, EmptySeq
<1>2. DOMAIN q = 1..Len(q) /\ DOMAIN Tail(q) = 1..(Len(q) - 1)
  BY <1>1, LenProperties
<1>3. \A i \in 1..Len(q) : q[i].role = "user"
  <2>1. \A i \in 1..Len(q) : q[i] \in UserMessage
    BY ElementOfSeq
  <2> QED BY <2>1 DEF UserMessage
<1>4. \A i, j \in 1..Len(q) : q[i].id = q[j].id => i = j
  BY <1>2, <1>3 DEF Once
<1>5. \A i \in 1..(Len(q) - 1) : i + 1 \in 1..Len(q) /\ i + 1 # 1
  BY <1>1
<1>6. Once(Tail(q))
  <2> SUFFICES ASSUME NEW i \in 1..(Len(q) - 1), NEW j \in 1..(Len(q) - 1),
                      Tail(q)[i].id = Tail(q)[j].id
               PROVE  i = j
    BY <1>2 DEF Once
  <2>1. i + 1 = j + 1
    BY <1>1, <1>4, <1>5
  <2> QED BY <2>1
<1>7. IdsOf(Tail(q)) = { Tail(q)[i].id : i \in 1..(Len(q) - 1) }
  BY <1>1, IdsOfQueue
<1>8. 1 \in 1..Len(q)
  BY <1>1
<1> QED BY <1>1, <1>4, <1>5, <1>6, <1>7, <1>8

\* One message is there once.
LEMMA OnceOfOne == Once(<< >>) /\ \A m : Once(<< m >>)
BY DEF Once

\* drain() takes out of a queue what it does not leave in it.
LEMMA OnceOfDrained ==
    ASSUME NEW q \in Seq(UserMessage), NEW mode, Once(q)
    PROVE  /\ Once(Drained(q, mode)) /\ Once(Remaining(q, mode))
           /\ IdsOf(Drained(q, mode)) \intersect IdsOf(Remaining(q, mode)) = {}
<1>1. CASE mode = "all" \/ q = << >>
  BY <1>1, IdsOfNothing, OnceOfOne DEF Drained, Remaining
<1>2. CASE ~(mode = "all" \/ q = << >>)
  <2>1. /\ Once(Tail(q)) /\ Head(q).id \notin IdsOf(Tail(q))
        /\ Head(q) \in UserMessage
    BY <1>2, OnceOfHeadAndTail, IdsOfHeadAndTail
  <2>2. IdsOf(<< Head(q) >>) = {Head(q).id}
    BY <2>1, IdsOfOne
  <2> QED BY <1>2, <2>1, <2>2, OnceOfOne DEF Drained, Remaining
<1> QED BY <1>1, <1>2

\* A step of any kind leaves every message in one place.
LEMMA OnePlacePreserved ==
    ASSUME TypeOK, EveryMessageIsInOnePlace, DeliveryStep
    PROVE  EveryMessageIsInOnePlace'
<1> DEFINE T == IdsOf(messages)
           P == IdsOf(pendingMessages)
           S == IdsOf(steeringQueue)
           F == IdsOf(followUpQueue)
           D == discarded
           Accepted == T \union P \union S \union F \union D
<1>a. /\ messages \in Seq(Message) /\ pendingMessages \in Seq(UserMessage)
      /\ steeringQueue \in Seq(UserMessage)
      /\ followUpQueue \in Seq(UserMessage) /\ nextId \in Nat \ {0}
  BY AgentAssumption DEF TypeOK, MessageTypes, HistoryTypes, AgentAssumption
<1>b. nextId' = nextId + 1
        => 1..(nextId' - 1) = (1..(nextId - 1)) \union {nextId}
  BY <1>a
<1>c. \A via \in {"prompt", "steer", "followUp"} : nextId \in UserId =>
        User(nextId, via) \in UserMessage /\ User(nextId, via).id = nextId
          /\ User(nextId, via).role = "user"
  BY BuiltMessages DEF User
<1>d. UserMessage \subseteq Message /\ Seq(UserMessage) \subseteq Seq(Message)
  BY MessageKinds
<1>e. /\ Accepted = 1..(nextId - 1) /\ Apart(T, P, S, F, D)
      /\ Once(messages) /\ Once(pendingMessages)
      /\ Once(steeringQueue) /\ Once(followUpQueue)
  BY FivePlaces DEF InFivePlaces
<1>f. nextId \notin Accepted
  BY <1>a, <1>e
<1>g. /\ IdsOf(<< >>) = {} /\ Once(<< >>)
      /\ \A m \in UserMessage : Once(<< m >>) /\ IdsOf(<< m >>) = {m.id}
  BY IdsOfNothing, OnceOfOne, IdsOfOne
<1> SUFFICES /\ Accepted' = 1..(nextId' - 1) /\ Apart(T', P', S', F', D')
             /\ Once(messages') /\ Once(pendingMessages')
             /\ Once(steeringQueue') /\ Once(followUpQueue')
  BY FivePlacesNext DEF InFivePlaces
<1> HIDE DEF T, P, S, F, D
<1> USE DEF queueVars
<1>1. CASE Delivered
  <2>1. /\ P = {Head(pendingMessages).id} \union P'
        /\ Head(pendingMessages) \in UserMessage
        /\ Once(pendingMessages') /\ Head(pendingMessages).id \notin P'
    BY <1>1, <1>a, <1>e, IdsOfHeadAndTail, OnceOfHeadAndTail DEF Delivered, P
  <2>2. Head(pendingMessages).role = "user"
    BY <2>1 DEF UserMessage
  <2>3. T' = T \union {Head(pendingMessages).id}
    BY <1>1, <1>a, <1>d, <2>1, <2>2, IdsOfAppend DEF Delivered, T
  <2>4. Head(pendingMessages).id \notin T
    BY <1>e, <2>1 DEF Apart
  <2>5. Once(messages')
    BY <1>1, <1>a, <1>d, <1>e, <2>1, <2>4, OnceOfAppend DEF Delivered, T
  <2>6. S' = S /\ F' = F /\ D' = D /\ nextId' = nextId
    BY <1>1 DEF Delivered, S, F, D
  <2>7. Apart(T', P', S, F, D)
    BY <1>e, <2>1, <2>3, ApartMoves
  <2> QED BY <1>1, <1>e, <2>1, <2>3, <2>5, <2>6, <2>7 DEF Delivered
<1>2. ASSUME NEW m \in AssistantMessage \union ToolResult, AnsweredBy(m)
      PROVE  /\ Accepted' = 1..(nextId' - 1) /\ Apart(T', P', S', F', D')
             /\ Once(messages') /\ Once(pendingMessages')
             /\ Once(steeringQueue') /\ Once(followUpQueue')
  <2>1. m \in Message
    BY MessageKinds
  <2>2. m.role # "user"
    BY DEF AssistantMessage, ToolResult
  <2>3. T' = T /\ Once(messages')
    BY <1>2, <1>a, <1>e, <2>1, <2>2, IdsOfAppend, OnceOfAppend
       DEF AnsweredBy, T
  <2>4. P' = P /\ S' = S /\ F' = F /\ D' = D /\ nextId' = nextId
    BY <1>2 DEF AnsweredBy, P, S, F, D
  <2> QED BY <1>2, <1>e, <2>3, <2>4 DEF AnsweredBy
<1>3. ASSUME NEW mode, TookSteering(mode)
      PROVE  /\ Accepted' = 1..(nextId' - 1) /\ Apart(T', P', S', F', D')
             /\ Once(messages') /\ Once(pendingMessages')
             /\ Once(steeringQueue') /\ Once(followUpQueue')
  <2>1. /\ S = P' \union S' /\ P' \intersect S' = {} /\ P = {}
        /\ Once(pendingMessages') /\ Once(steeringQueue')
    BY <1>3, <1>a, <1>e, <1>g, IdsOfDrained, OnceOfDrained
       DEF TookSteering, P, S
  <2>2. T' = T /\ F' = F /\ D' = D /\ nextId' = nextId
    BY <1>3 DEF TookSteering, T, F, D
  <2>3. Apart(T, P', S', F, D)
    BY <1>e, <2>1, ApartMoves
  <2> QED BY <1>3, <1>e, <2>1, <2>2, <2>3 DEF TookSteering
<1>4. ASSUME NEW mode, TookFollowUps(mode)
      PROVE  /\ Accepted' = 1..(nextId' - 1) /\ Apart(T', P', S', F', D')
             /\ Once(messages') /\ Once(pendingMessages')
             /\ Once(steeringQueue') /\ Once(followUpQueue')
  <2>1. /\ F = P' \union F' /\ P' \intersect F' = {} /\ P = {}
        /\ Once(pendingMessages') /\ Once(followUpQueue')
    BY <1>4, <1>a, <1>e, <1>g, IdsOfDrained, OnceOfDrained
       DEF TookFollowUps, P, F
  <2>2. T' = T /\ S' = S /\ D' = D /\ nextId' = nextId
    BY <1>4 DEF TookFollowUps, T, S, D
  <2>3. Apart(T, P', S, F', D)
    BY <1>e, <2>1, ApartMoves
  <2> QED BY <1>4, <1>e, <2>1, <2>2, <2>3 DEF TookFollowUps
<1>5. CASE Prompted
  <2>1. P' = {nextId} /\ Once(pendingMessages') /\ P = {}
    BY <1>5, <1>c, <1>g DEF Prompted, P
  <2>2. T' = T /\ S' = S /\ F' = F /\ D' = D /\ nextId' = nextId + 1
    BY <1>5 DEF Prompted, T, S, F, D
  <2>3. Apart(T, P', S, F, D)
    BY <1>e, <1>f, <2>1, ApartMoves
  <2> QED BY <1>5, <1>b, <1>e, <2>1, <2>2, <2>3 DEF Prompted
<1>6. CASE Continued \/ Finished
  BY <1>e, <1>6 DEF Continued, Finished, T, P, S, F, D
<1>7. CASE Dropped
  <2>1. P' = {} /\ D' = D \union P /\ Once(pendingMessages')
    BY <1>7, <1>g DEF Dropped, P, D
  <2>2. T' = T /\ S' = S /\ F' = F /\ nextId' = nextId
    BY <1>7 DEF Dropped, T, S, F
  <2>3. Apart(T, P', S, F, D')
    BY <1>e, <2>1, ApartMoves
  <2> QED BY <1>7, <1>e, <2>1, <2>2, <2>3 DEF Dropped
<1>8. CASE Steer
  <2>1. /\ nextId' = nextId + 1
        /\ steeringQueue' = Append(steeringQueue, User(nextId, "steer"))
        /\ User(nextId, "steer") \in UserMessage
        /\ User(nextId, "steer").id = nextId
        /\ User(nextId, "steer").role = "user"
    BY <1>8, <1>c DEF Steer, Enqueue
  <2>2. S' = S \union {nextId} /\ Once(steeringQueue')
    BY <1>a, <1>d, <1>e, <1>f, <2>1, IdsOfAppend, OnceOfAppend DEF S
  <2>3. T' = T /\ P' = P /\ F' = F /\ D' = D
    BY <1>8 DEF Steer, agentVars, loopVars, T, P, F, D
  <2>4. Apart(T, P, S', F, D)
    BY <1>e, <1>f, <2>2, ApartMoves
  <2> QED BY <1>8, <1>b, <1>e, <2>1, <2>2, <2>3, <2>4
       DEF Steer, agentVars, loopVars
<1>9. CASE FollowUp
  <2>1. /\ nextId' = nextId + 1
        /\ followUpQueue' = Append(followUpQueue, User(nextId, "followUp"))
        /\ User(nextId, "followUp") \in UserMessage
        /\ User(nextId, "followUp").id = nextId
        /\ User(nextId, "followUp").role = "user"
    BY <1>9, <1>c DEF FollowUp, Enqueue
  <2>2. F' = F \union {nextId} /\ Once(followUpQueue')
    BY <1>a, <1>d, <1>e, <1>f, <2>1, IdsOfAppend, OnceOfAppend DEF F
  <2>3. T' = T /\ P' = P /\ S' = S /\ D' = D
    BY <1>9 DEF FollowUp, agentVars, loopVars, T, P, S, D
  <2>4. Apart(T, P, S, F', D)
    BY <1>e, <1>f, <2>2, ApartMoves
  <2> QED BY <1>9, <1>b, <1>e, <2>1, <2>2, <2>3, <2>4
       DEF FollowUp, agentVars, loopVars
<1>10. CASE ClearSteeringQueue
  <2>1. S' = {} /\ D' = D \union S /\ Once(steeringQueue')
    BY <1>10, <1>g DEF ClearSteeringQueue, S, D
  <2>2. T' = T /\ P' = P /\ F' = F /\ nextId' = nextId
    BY <1>10 DEF ClearSteeringQueue, agentVars, loopVars, T, P, F
  <2>3. Apart(T, P, S', F, D')
    BY <1>e, <2>1, ApartMoves
  <2> QED BY <1>10, <1>e, <2>1, <2>2, <2>3
       DEF ClearSteeringQueue, agentVars, loopVars
<1>11. CASE ClearFollowUpQueue
  <2>1. F' = {} /\ D' = D \union F /\ Once(followUpQueue')
    BY <1>11, <1>g DEF ClearFollowUpQueue, F, D
  <2>2. T' = T /\ P' = P /\ S' = S /\ nextId' = nextId
    BY <1>11 DEF ClearFollowUpQueue, agentVars, loopVars, T, P, S
  <2>3. Apart(T, P, S, F', D')
    BY <1>e, <2>1, ApartMoves
  <2> QED BY <1>11, <1>e, <2>1, <2>2, <2>3
       DEF ClearFollowUpQueue, agentVars, loopVars
<1>12. CASE Reset
  <2>1. /\ T' = {} /\ S' = {} /\ F' = {}
        /\ D' = D \union T \union S \union F
        /\ Once(messages') /\ Once(steeringQueue') /\ Once(followUpQueue')
    BY <1>12, <1>g DEF Reset, T, S, F, D
  <2>2. P' = P /\ nextId' = nextId /\ pendingMessages' = pendingMessages
    BY <1>12 DEF Reset, loopVars, P
  <2>3. Apart(T', P, S', F', D')
    BY <1>e, <2>1, ApartMoves
  <2> QED BY <1>e, <2>1, <2>2, <2>3
<1>13. CASE UNCHANGED deliveryState
  BY <1>13, <1>e DEF deliveryState, T, P, S, F, D
<1> QED
  BY <1>1, <1>2, <1>3, <1>4, <1>5, <1>6, <1>7, <1>8, <1>9, <1>10, <1>11,
     <1>12, <1>13 DEF DeliveryStep

\* The run never holds a message when it does something else than announce it.
LEMMA HandsAreEmpty == Spec => []HandsEmpty
<1>1. Init => HandsEmpty
  BY DEF Init, HandsEmpty
<1>2. TypeOK /\ Control /\ HandsEmpty /\ [Next]_vars => HandsEmpty'
  BY DeliverySteps
<1> QED BY <1>1, <1>2, TypeCorrect, PTL DEF Spec

\* Every message the Agent has accepted is in the transcript, held by the run
\* or in a queue, unless the owner has cleared it or its run has thrown, and in
\* one of these places only and there once: no poll, no abort and no end of a
\* run loses one or delivers it twice.
THEOREM NoMessageIsLost == Spec => []EveryMessageIsInOnePlace
<1>1. Init => EveryMessageIsInOnePlace
  <2> SUFFICES ASSUME Init PROVE EveryMessageIsInOnePlace
    OBVIOUS
  <2>1. /\ IdsOf(messages) = {} /\ IdsOf(pendingMessages) = {}
        /\ IdsOf(steeringQueue) = {} /\ IdsOf(followUpQueue) = {}
        /\ discarded = {} /\ 1..(nextId - 1) = {}
    BY IdsOfNothing DEF Init
  <2>2. /\ Once(messages) /\ Once(pendingMessages)
        /\ Once(steeringQueue) /\ Once(followUpQueue)
    BY OnceOfOne DEF Init
  <2> QED BY <2>1, <2>2, FivePlaces DEF Apart, InFivePlaces
<1>2. /\ TypeOK /\ Control /\ HandsEmpty
      /\ EveryMessageIsInOnePlace /\ [Next]_vars
      => EveryMessageIsInOnePlace'
  BY DeliverySteps, OnePlacePreserved
<1> QED BY <1>1, <1>2, TypeCorrect, HandsAreEmpty, PTL DEF Spec

-----------------------------------------------------------------------------
(* The Agent implements MessageDelivery *)

\* How MessageDelivery sees one message.
Entry(m) == IF m.role = "user" THEN m.id ELSE 0

\* A sequence of messages, seen so.
LEMMA IdsAreASequence ==
    ASSUME NEW s \in Seq(Message)
    PROVE  /\ Ids(s) \in Seq(Nat) /\ Len(Ids(s)) = Len(s) /\ Len(s) \in Nat
           /\ \A i \in 1..Len(s) : Ids(s)[i] = Entry(s[i])
           /\ Ids(s) = << >> <=> s = << >>
<1>1. DOMAIN s = 1..Len(s) /\ Len(s) \in Nat
  BY LenProperties
<1>2. Ids(s) = [i \in 1..Len(s) |-> Entry(s[i])]
  BY <1>1 DEF Ids, Entry
<1>3. \A m \in Message : Entry(m) \in Nat
  BY AgentAssumption DEF Entry, Message, UserMessage, AssistantMessage,
     ToolResult, UserId, AgentAssumption
<1>4. \A i \in 1..Len(s) : Entry(s[i]) \in Nat
  BY <1>3, ElementOfSeq
<1>5. Ids(s) \in Seq(Nat) /\ Len(Ids(s)) = Len(s)
  BY <1>1, <1>2, <1>4
<1>6. Ids(s) = << >> <=> s = << >>
  BY <1>1, <1>5, EmptySeq
<1> QED BY <1>1, <1>2, <1>5, <1>6

\* Appending a message, ...
LEMMA IdsOfLonger ==
    ASSUME NEW s \in Seq(Message), NEW m \in Message
    PROVE  Ids(Append(s, m)) = Append(Ids(s), Entry(m))
<1> DEFINE t == Append(s, m)
<1>1. /\ t \in Seq(Message) /\ Len(t) = Len(s) + 1 /\ t[Len(s) + 1] = m
      /\ \A i \in 1..Len(s) : t[i] = s[i]
  BY AppendProperties
<1>2. Entry(m) \in Nat
  BY AgentAssumption DEF Entry, Message, UserMessage, AssistantMessage,
     ToolResult, UserId, AgentAssumption
<1> DEFINE u == Append(Ids(s), Entry(m))
<1>3. /\ Ids(s) \in Seq(Nat) /\ Len(Ids(s)) = Len(s) /\ Len(s) \in Nat
      /\ \A i \in 1..Len(s) : Ids(s)[i] = Entry(s[i])
  BY IdsAreASequence
<1>4. /\ u \in Seq(Nat) /\ Len(u) = Len(s) + 1 /\ u[Len(s) + 1] = Entry(m)
      /\ \A i \in 1..Len(s) : u[i] = Entry(s[i])
  BY <1>2, <1>3, AppendProperties
<1> HIDE DEF t, u
<1>5. /\ Ids(t) \in Seq(Nat) /\ Len(Ids(t)) = Len(s) + 1
      /\ \A i \in 1..(Len(s) + 1) : Ids(t)[i] = Entry(t[i])
  BY <1>1, IdsAreASequence
<1>6. ASSUME NEW i \in 1..(Len(s) + 1) PROVE Ids(t)[i] = u[i]
  <2>1. CASE i = Len(s) + 1
    BY <1>1, <1>4, <1>5, <2>1
  <2>2. CASE i # Len(s) + 1
    <3>1. i \in 1..Len(s)
      BY <1>3, <2>2
    <3> QED BY <1>1, <1>4, <1>5, <3>1
  <2> QED BY <2>1, <2>2
<1>7. Ids(t) = u
  BY <1>3, <1>4, <1>5, <1>6, SeqEqual
<1> QED BY <1>7 DEF t, u

\* ... and a part of a sequence.
LEMMA IdsOfPart ==
    ASSUME NEW s \in Seq(Message), NEW a \in 1..(Len(s) + 1),
           NEW b \in 0..Len(s)
    PROVE  Ids(SubSeq(s, a, b)) = SubSeq(Ids(s), a, b)
<1> DEFINE t == SubSeq(s, a, b)
           u == SubSeq(Ids(s), a, b)
           n == IF a <= b THEN b - a + 1 ELSE 0
<1>1. Len(s) \in Nat /\ a \in Int /\ b \in Int /\ n \in Nat
  BY LenProperties
<1>2. /\ Ids(s) \in Seq(Nat) /\ Len(Ids(s)) = Len(s)
      /\ \A i \in 1..Len(s) : Ids(s)[i] = Entry(s[i])
  BY IdsAreASequence
<1>3. /\ \A i \in a..b : i \in 1..Len(s)
      /\ \A i \in 1..n : i \in 1..(b - a + 1) /\ a + i - 1 \in 1..Len(s)
  BY <1>1
<1>4. \A i \in a..b : s[i] \in Message /\ Ids(s)[i] \in Nat
  BY <1>2, <1>3, ElementOfSeq
<1>5. /\ t \in Seq(Message) /\ Len(t) = n
      /\ \A i \in 1..(b - a + 1) : t[i] = s[a + i - 1]
  BY <1>1, <1>4, SubSeqProperties
<1>6. /\ u \in Seq(Nat) /\ Len(u) = n
      /\ \A i \in 1..(b - a + 1) : u[i] = Ids(s)[a + i - 1]
  BY <1>1, <1>4, SubSeqProperties
<1> HIDE DEF t, u, n
<1>7. /\ Ids(t) \in Seq(Nat) /\ Len(Ids(t)) = n
      /\ \A i \in 1..n : Ids(t)[i] = Entry(t[i])
  BY <1>5, IdsAreASequence
<1>8. \A i \in 1..n : Ids(t)[i] = u[i]
  BY <1>2, <1>3, <1>5, <1>6, <1>7
<1>9. Ids(t) = u
  BY <1>6, <1>7, <1>8, SeqEqual
<1> QED BY <1>9 DEF t, u

\* drain() hands out a part from the front of a queue that is not empty.
LEMMA IdsOfDrain ==
    ASSUME NEW q \in Seq(UserMessage), q # << >>, NEW mode
    PROVE  \E n \in 1..Len(Ids(q)) :
             /\ Ids(Drained(q, mode)) = SubSeq(Ids(q), 1, n)
             /\ Ids(Remaining(q, mode)) = SubSeq(Ids(q), n + 1, Len(Ids(q)))
<1>1. q \in Seq(Message) /\ Len(q) \in Nat \ {0} /\ Len(Ids(q)) = Len(q)
  BY MessageKinds, EmptySeq, IdsAreASequence
<1>2. CASE mode = "all"
  <2>1. Drained(q, mode) = SubSeq(q, 1, Len(q))
    BY <1>2, SubSeqFull DEF Drained
  <2>2. Remaining(q, mode) = SubSeq(q, Len(q) + 1, Len(q))
    BY <1>1, <1>2, SubSeqEmpty DEF Remaining
  <2>3. /\ Len(q) \in 1..Len(Ids(q)) /\ Len(q) \in 0..Len(q)
        /\ 1 \in 1..(Len(q) + 1) /\ Len(q) + 1 \in 1..(Len(q) + 1)
    BY <1>1
  <2>4. /\ Ids(Drained(q, mode)) = SubSeq(Ids(q), 1, Len(q))
        /\ Ids(Remaining(q, mode)) = SubSeq(Ids(q), Len(q) + 1, Len(Ids(q)))
    BY <1>1, <2>1, <2>2, <2>3, IdsOfPart
  <2> QED BY <2>3, <2>4
<1>3. CASE mode # "all"
  <2>1. Drained(q, mode) = SubSeq(q, 1, 1)
    <3>1. 1 \in 1..Len(q)
      BY <1>1
    <3>2. SubSeq(q, 1, 1) = << q[1] >> \o SubSeq(q, 2, 1)
            /\ SubSeq(q, 2, 1) = << >>
      BY <3>1, SubSeqRecursiveFirst, SubSeqEmpty
    <3>3. q[1] \in UserMessage /\ Head(q) = q[1]
      BY <3>1, ElementOfSeq
    <3>4. << q[1] >> \o << >> = << q[1] >>
      BY <3>3
    <3> QED BY <1>3, <3>2, <3>3, <3>4 DEF Drained
  <2>2. Remaining(q, mode) = SubSeq(q, 2, Len(q))
    BY <1>3, TailIsSubSeq DEF Remaining
  <2>3. 1 \in 1..Len(Ids(q)) /\ 2 \in 1..(Len(q) + 1) /\ 1 + 1 = 2
          /\ 1 \in 1..(Len(q) + 1) /\ 1 \in 0..Len(q) /\ Len(q) \in 0..Len(q)
    BY <1>1
  <2>4. /\ Ids(Drained(q, mode)) = SubSeq(Ids(q), 1, 1)
        /\ Ids(Remaining(q, mode)) = SubSeq(Ids(q), 1 + 1, Len(Ids(q)))
    BY <1>1, <2>1, <2>2, <2>3, IdsOfPart
  <2> QED BY <2>3, <2>4
<1> QED BY <1>2, <1>3

\* The message a run announces next.
LEMMA IdsOfHand ==
    ASSUME NEW q \in Seq(UserMessage), q # << >>
    PROVE  /\ Head(Ids(q)) = Entry(Head(q)) /\ Ids(q) # << >>
           /\ Tail(Ids(q)) = Ids(Tail(q)) /\ Head(q) \in Message
<1>1. /\ q \in Seq(Message) /\ Len(q) \in Nat \ {0} /\ Len(Ids(q)) = Len(q)
      /\ Ids(q) \in Seq(Nat) /\ Ids(q) # << >> /\ Ids(q)[1] = Entry(q[1])
  BY MessageKinds, EmptySeq, IdsAreASequence
<1>2. Head(q) \in Message /\ Head(q) = q[1] /\ Head(Ids(q)) = Ids(q)[1]
  BY <1>1, HeadTailProperties
<1>3. Tail(q) = SubSeq(q, 2, Len(q)) /\ Tail(Ids(q)) = SubSeq(Ids(q), 2, Len(q))
  BY <1>1, TailIsSubSeq
<1>4. 2 \in 1..(Len(q) + 1) /\ Len(q) \in 0..Len(q)
  BY <1>1
<1> QED BY <1>1, <1>2, <1>3, <1>4, IdsOfPart

\* Taking the first n messages out of the lane of steering messages, ...
LEMMA SteeringTaken ==
    ASSUME NEW a, NEW b, NEW n
    PROVE  [[steer |-> a, followUp |-> b]
              EXCEPT !["steer"] = SubSeq(@, n + 1, Len(@))]
             = [steer |-> SubSeq(a, n + 1, Len(a)), followUp |-> b]
<1> DEFINE w == [steer |-> a, followUp |-> b]
<1>1. w["steer"] = a /\ w["followUp"] = b
  OBVIOUS
<1>2. \A c : [w EXCEPT !["steer"] = c] = [steer |-> c, followUp |-> b]
  OBVIOUS
<1> HIDE DEF w
<1>3. [w EXCEPT !["steer"] = SubSeq(@, n + 1, Len(@))]
        = [steer |-> SubSeq(a, n + 1, Len(a)), followUp |-> b]
  BY <1>1, <1>2, Zenon
<1> QED BY <1>3 DEF w

\* ... and out of the lane of follow-up messages.
LEMMA FollowUpsTaken ==
    ASSUME NEW a, NEW b, NEW n
    PROVE  [[steer |-> a, followUp |-> b]
              EXCEPT !["followUp"] = SubSeq(@, n + 1, Len(@))]
             = [steer |-> a, followUp |-> SubSeq(b, n + 1, Len(b))]
<1> DEFINE w == [steer |-> a, followUp |-> b]
<1>1. w["steer"] = a /\ w["followUp"] = b
  OBVIOUS
<1>2. \A c : [w EXCEPT !["followUp"] = c] = [steer |-> a, followUp |-> c]
  OBVIOUS
<1> HIDE DEF w
<1>3. [w EXCEPT !["followUp"] = SubSeq(@, n + 1, Len(@))]
        = [steer |-> a, followUp |-> SubSeq(b, n + 1, Len(b))]
  BY <1>1, <1>2, Zenon
<1> QED BY <1>3 DEF w

\* Every step of the Agent is a step of MessageDelivery, or does nothing to
\* what it speaks of.
LEMMA DeliveryRefined ==
    ASSUME TypeOK, DeliveryStep
    PROVE  Delivery!Next \/ UNCHANGED Delivery!deliveryVars
<1> USE DEF queueVars
<1>a. /\ messages \in Seq(Message) /\ pendingMessages \in Seq(UserMessage)
      /\ steeringQueue \in Seq(UserMessage)
      /\ followUpQueue \in Seq(UserMessage) /\ nextId \in Nat \ {0}
  BY AgentAssumption DEF TypeOK, MessageTypes, HistoryTypes, AgentAssumption
<1>b. Seq(UserMessage) \subseteq Seq(Message) /\ UserMessage \subseteq Message
  BY MessageKinds
<1>c. Ids(<< >>) = << >>
  BY DEF Ids
<1>d. ASSUME NEW via \in {"prompt", "steer", "followUp"}, nextId \in UserId
      PROVE  /\ User(nextId, via) \in UserMessage
             /\ Entry(User(nextId, via)) = nextId
             /\ Ids(<< User(nextId, via) >>) = << nextId >>
  <2>1. User(nextId, via) \in UserMessage /\ Entry(User(nextId, via)) = nextId
    BY <1>d, BuiltMessages DEF User, Entry
  <2>2. << User(nextId, via) >> = Append(<< >>, User(nextId, via))
    OBVIOUS
  <2>3. Ids(<< User(nextId, via) >>) = Append(<< >>, nextId)
    BY <1>b, <1>c, <2>1, <2>2, EmptySeq, IdsOfLonger
  <2> QED BY <2>1, <2>3
<1>e. (nextId' = nextId + 1) => (nextId - 1)' = (nextId - 1) + 1
  BY <1>a
<1>f. (nextId - 1) + 1 = nextId
  BY <1>a
<1>1. CASE Delivered
  <2>1. /\ Ids(pendingMessages) # << >>
        /\ Ids(pendingMessages') = Tail(Ids(pendingMessages))
        /\ Head(pendingMessages) \in Message
        /\ Entry(Head(pendingMessages)) = Head(Ids(pendingMessages))
    BY <1>1, <1>a, IdsOfHand DEF Delivered
  <2>2. Ids(messages') = Append(Ids(messages), Head(Ids(pendingMessages)))
    BY <1>1, <1>a, <2>1, IdsOfLonger DEF Delivered
  <2>3. Delivery!Deliver
    BY <1>1, <2>1, <2>2 DEF Delivered, Delivery!Deliver
  <2> QED BY <2>3 DEF Delivery!Next
<1>2. ASSUME NEW m \in AssistantMessage \union ToolResult, AnsweredBy(m)
      PROVE  Delivery!Next
  <2>1. m \in Message /\ Entry(m) = 0
    BY MessageKinds DEF Entry, AssistantMessage, ToolResult
  <2>2. Ids(messages') = Append(Ids(messages), 0)
    BY <1>2, <1>a, <2>1, IdsOfLonger DEF AnsweredBy
  <2>3. Delivery!Answer
    BY <1>2, <1>c, <2>2 DEF AnsweredBy, Delivery!Answer, Delivery!Other
  <2> QED BY <2>3 DEF Delivery!Next
<1>3. ASSUME NEW mode, TookSteering(mode)
      PROVE  Delivery!Next \/ UNCHANGED Delivery!deliveryVars
  <2>1. CASE steeringQueue = << >>
    <3>1. pendingMessages' = << >> /\ steeringQueue' = << >>
      BY <1>3, <2>1 DEF TookSteering, Drained, Remaining
    <3>2. CASE activeRun
      BY <1>3, <2>1, <3>1, <3>2 DEF TookSteering, Delivery!deliveryVars
    <3>3. CASE ~activeRun
      <4>1. Delivery!Start
        BY <1>3, <1>c, <2>1, <3>1, <3>3 DEF TookSteering, Delivery!Start
      <4> QED BY <4>1 DEF Delivery!Next
    <3> QED BY <3>2, <3>3
  <2>2. CASE steeringQueue # << >>
    <3>1. PICK n \in 1..Len(Ids(steeringQueue)) :
            /\ Ids(pendingMessages') = SubSeq(Ids(steeringQueue), 1, n)
            /\ Ids(steeringQueue')
                 = SubSeq(Ids(steeringQueue), n + 1, Len(Ids(steeringQueue)))
      BY <1>3, <1>a, <2>2, IdsOfDrain DEF TookSteering
    <3>2. Delivery!TakeFrom("steer", n)
      <4> DEFINE w == [steer    |-> Ids(steeringQueue),
                       followUp |-> Ids(followUpQueue)]
                 rest == SubSeq(Ids(steeringQueue), n + 1,
                                Len(Ids(steeringQueue)))
      <4>1. Ids(followUpQueue') = Ids(followUpQueue)
        BY <1>3 DEF TookSteering
      <4>2. Ids(steeringQueue') = rest
        BY <3>1
      <4>3. [w EXCEPT !["steer"] = SubSeq(@, n + 1, Len(@))]
              = [steer |-> rest, followUp |-> Ids(followUpQueue)]
        BY SteeringTaken, Zenon
      <4>4. Ids(pendingMessages') = SubSeq(w["steer"], 1, n)
        BY <3>1
      <4>5. (nextId - 1)' = nextId - 1 /\ Ids(messages') = Ids(messages)
        BY <1>3 DEF TookSteering
      <4> HIDE DEF rest
      <4>6. [w EXCEPT !["steer"] = SubSeq(@, n + 1, Len(@))]
              = [steer    |-> Ids(steeringQueue'),
                 followUp |-> Ids(followUpQueue')]
        BY <4>1, <4>2, <4>3
      <4> QED BY <4>4, <4>5, <4>6, Zenon DEF Delivery!TakeFrom
    <3>3. "steer" \in Delivery!Lane
      BY DEF Delivery!Lane
    <3>4. [steer    |-> Ids(steeringQueue),
           followUp |-> Ids(followUpQueue)]["steer"] = Ids(steeringQueue)
      OBVIOUS
    <3>5. CASE activeRun
      <4>1. Delivery!Take
        BY <1>3, <1>c, <3>1, <3>2, <3>3, <3>4, <3>5
           DEF TookSteering, Delivery!Take
      <4> QED BY <4>1 DEF Delivery!Next
    <3>6. CASE ~activeRun
      <4>1. Delivery!Start
        BY <1>3, <3>1, <3>2, <3>3, <3>4, <3>6 DEF TookSteering, Delivery!Start
      <4> QED BY <4>1 DEF Delivery!Next
    <3> QED BY <3>5, <3>6
  <2> QED BY <2>1, <2>2
<1>4. ASSUME NEW mode, TookFollowUps(mode)
      PROVE  Delivery!Next \/ UNCHANGED Delivery!deliveryVars
  <2>1. CASE followUpQueue = << >>
    <3>1. pendingMessages' = << >> /\ followUpQueue' = << >>
      BY <1>4, <2>1 DEF TookFollowUps, Drained, Remaining
    <3>2. CASE activeRun
      BY <1>4, <2>1, <3>1, <3>2 DEF TookFollowUps, Delivery!deliveryVars
    <3>3. CASE ~activeRun
      <4>1. Delivery!Start
        BY <1>4, <1>c, <2>1, <3>1, <3>3 DEF TookFollowUps, Delivery!Start
      <4> QED BY <4>1 DEF Delivery!Next
    <3> QED BY <3>2, <3>3
  <2>2. CASE followUpQueue # << >>
    <3>1. PICK n \in 1..Len(Ids(followUpQueue)) :
            /\ Ids(pendingMessages') = SubSeq(Ids(followUpQueue), 1, n)
            /\ Ids(followUpQueue')
                 = SubSeq(Ids(followUpQueue), n + 1, Len(Ids(followUpQueue)))
      BY <1>4, <1>a, <2>2, IdsOfDrain DEF TookFollowUps
    <3>2. Delivery!TakeFrom("followUp", n)
      <4> DEFINE w == [steer    |-> Ids(steeringQueue),
                       followUp |-> Ids(followUpQueue)]
                 rest == SubSeq(Ids(followUpQueue), n + 1,
                                Len(Ids(followUpQueue)))
      <4>1. Ids(steeringQueue') = Ids(steeringQueue)
        BY <1>4 DEF TookFollowUps
      <4>2. Ids(followUpQueue') = rest
        BY <3>1
      <4>3. [w EXCEPT !["followUp"] = SubSeq(@, n + 1, Len(@))]
              = [steer |-> Ids(steeringQueue), followUp |-> rest]
        BY FollowUpsTaken, Zenon
      <4>4. Ids(pendingMessages') = SubSeq(w["followUp"], 1, n)
        BY <3>1
      <4>5. (nextId - 1)' = nextId - 1 /\ Ids(messages') = Ids(messages)
        BY <1>4 DEF TookFollowUps
      <4> HIDE DEF rest
      <4>6. [w EXCEPT !["followUp"] = SubSeq(@, n + 1, Len(@))]
              = [steer    |-> Ids(steeringQueue'),
                 followUp |-> Ids(followUpQueue')]
        BY <4>1, <4>2, <4>3
      <4> QED BY <4>4, <4>5, <4>6, Zenon DEF Delivery!TakeFrom
    <3>3. "followUp" \in Delivery!Lane
      BY DEF Delivery!Lane
    <3>4. [steer    |-> Ids(steeringQueue),
           followUp |-> Ids(followUpQueue)]["followUp"] = Ids(followUpQueue)
      OBVIOUS
    <3>5. CASE activeRun
      <4>1. Delivery!Take
        BY <1>4, <1>c, <3>1, <3>2, <3>3, <3>4, <3>5
           DEF TookFollowUps, Delivery!Take
      <4> QED BY <4>1 DEF Delivery!Next
    <3>6. CASE ~activeRun
      <4>1. Delivery!Start
        BY <1>4, <3>1, <3>2, <3>3, <3>4, <3>6 DEF TookFollowUps, Delivery!Start
      <4> QED BY <4>1 DEF Delivery!Next
    <3> QED BY <3>5, <3>6
  <2> QED BY <2>1, <2>2
<1>5. CASE Prompted
  <2>1. Delivery!Start
    BY <1>5, <1>d, <1>e, <1>f
       DEF Prompted, Delivery!Start, Delivery!Accept, Delivery!Fresh
  <2> QED BY <2>1 DEF Delivery!Next
<1>6. CASE Continued
  <2>1. Delivery!Start
    BY <1>6, <1>c DEF Continued, Delivery!Start
  <2> QED BY <2>1 DEF Delivery!Next
<1>7. CASE Finished
  <2>1. Delivery!Stop
    BY <1>7, <1>c DEF Finished, Delivery!Stop
  <2> QED BY <2>1 DEF Delivery!Next
<1>8. CASE Dropped
  <2>1. CASE pendingMessages = << >>
    BY <1>8, <2>1 DEF Dropped, Delivery!deliveryVars
  <2>2. CASE pendingMessages # << >>
    <3>1. Ids(pendingMessages) # << >>
      BY <1>a, <2>2, IdsOfHand
    <3>2. Delivery!Drop
      BY <1>8, <1>c, <3>1 DEF Dropped, Delivery!Drop
    <3> QED BY <3>2 DEF Delivery!Next
  <2> QED BY <2>1, <2>2
<1>9. CASE Steer
  <2>1. Ids(steeringQueue') = Append(Ids(steeringQueue), nextId)
    BY <1>9, <1>a, <1>b, <1>d, IdsOfLonger DEF Steer, Enqueue
  <2>2. Delivery!Submit("steer")
    BY <1>9, <1>e, <1>f, <2>1 DEF Steer, agentVars, runVars, loopVars,
       Delivery!Submit, Delivery!Accept, Delivery!Fresh
  <2> QED BY <2>2 DEF Delivery!Next, Delivery!Lane
<1>10. CASE FollowUp
  <2>1. Ids(followUpQueue') = Append(Ids(followUpQueue), nextId)
    BY <1>10, <1>a, <1>b, <1>d, IdsOfLonger DEF FollowUp, Enqueue
  <2>2. Delivery!Submit("followUp")
    BY <1>10, <1>e, <1>f, <2>1 DEF FollowUp, agentVars, runVars, loopVars,
       Delivery!Submit, Delivery!Accept, Delivery!Fresh
  <2> QED BY <2>2 DEF Delivery!Next, Delivery!Lane
<1>11. CASE ClearSteeringQueue
  <2>1. Delivery!Clear("steer")
    BY <1>11, <1>c DEF ClearSteeringQueue, agentVars, runVars, loopVars,
       Delivery!Clear
  <2> QED BY <2>1 DEF Delivery!Next, Delivery!Lane
<1>12. CASE ClearFollowUpQueue
  <2>1. Delivery!Clear("followUp")
    BY <1>12, <1>c DEF ClearFollowUpQueue, agentVars, runVars, loopVars,
       Delivery!Clear
  <2> QED BY <2>1 DEF Delivery!Next, Delivery!Lane
<1>13. CASE Reset
  <2>1. Delivery!Forget
    BY <1>13, <1>c DEF Reset, runVars, loopVars, Delivery!Forget,
       Delivery!Lane
  <2> QED BY <2>1 DEF Delivery!Next
<1>14. CASE UNCHANGED deliveryState
  BY <1>14 DEF deliveryState, Delivery!deliveryVars
<1> QED
  BY <1>1, <1>2, <1>3, <1>4, <1>5, <1>6, <1>7, <1>8, <1>9, <1>10, <1>11,
     <1>12, <1>13, <1>14 DEF DeliveryStep

\* The Agent delivers what it is given as MessageDelivery promises: first in,
\* first out in either lane, at most once, only while a run is active, and
\* before the model or a tool answers.
THEOREM AgentDelivers == Spec => DeliversMessages
<1>1. Init => Delivery!Init
  <2> SUFFICES ASSUME Init PROVE Delivery!Init
    OBVIOUS
  <2>1. Ids(<< >>) = << >>
    BY DEF Ids
  <2> QED BY <2>1 DEF Init, Delivery!Init, Delivery!Lane
<1>2. TypeOK /\ Control /\ HandsEmpty /\ [Next]_vars
        => [Delivery!Next]_(Delivery!deliveryVars)
  BY DeliverySteps, DeliveryRefined
<1> QED BY <1>1, <1>2, TypeCorrect, HandsAreEmpty, PTL
        DEF Spec, DeliversMessages, Delivery!Spec

-----------------------------------------------------------------------------
(* The points of a run *)

\* The points of a run that has thrown.
ThrownPC == {"failStart", "failEnd", "failTurnEnd", "failAgentEnd", "failed"}

\* The points of a run at which newMessages is up to date.
UpToDatePC == {"turn", "pendingEnd", "response", "streaming", "replyEnd",
               "steeringPoll", "followUpPoll", "agentEnd", "settle"}

-----------------------------------------------------------------------------
(* agent_end reports what the run has added to the transcript *)

\* How newMessages and the transcript are related at every point of a run:
\* newMessages has the prompts before they are announced, and gets a reply and
\* the results of its calls after they are announced.
Report ==
    ~resetInRun =>
      /\ pc # "idle" => runStart <= Len(messages)
      /\ pc \in {"prompt", "promptEnd"} =>
           newMessages = Added \o pendingMessages
      /\ pc \in UpToDatePC => newMessages = Added
      /\ pc = "replied" => Added = Append(newMessages, reply)
      /\ pc \in BatchPC => Added = newMessages \o Announced

\* What the agent_end events of the run have carried.  When a run has thrown,
\* they have carried all that it had added by then, or nothing.
ReportedSoFar ==
    /\ pc \notin ThrownPC \union {"settle"} => reported = << >>
    /\ agentEnded => pc \in {"settle", "failStart", "failed"}
    /\ ~resetInRun =>
         /\ pc = "settle" => reported = Added
         /\ pc \in {"failStart", "failEnd"} => reported \in {<< >>, Added}
         /\ pc = "failStart" /\ agentEnded => reported = Added
         /\ pc \in {"failTurnEnd", "failAgentEnd"} =>
              /\ Added # << >> /\ Added[Len(Added)] = reply
              /\ reported = << >> \/ Added = Append(reported, reply)
         /\ pc = "failed" => AgentEndReportsTheRun

\* The tail of a sequence that gets longer.
LEMMA TailGrows ==
    ASSUME NEW s \in Seq(Message), NEW m \in Message, NEW k \in 0..Len(s)
    PROVE  SubSeq(Append(s, m), k + 1, Len(Append(s, m)))
             = Append(SubSeq(s, k + 1, Len(s)), m)
<1> DEFINE t == Append(s, m)
           a == SubSeq(t, k + 1, Len(t))
           b == SubSeq(s, k + 1, Len(s))
           c == Append(b, m)
<1>1. Len(s) \in Nat /\ k \in Nat /\ k <= Len(s)
  BY LenProperties
<1>2. /\ t \in Seq(Message) /\ Len(t) = Len(s) + 1 /\ t[Len(s) + 1] = m
      /\ \A i \in 1..Len(s) : t[i] = s[i]
  BY AppendProperties
<1> HIDE DEF t
<1>3. /\ b \in Seq(Message) /\ Len(b) = Len(s) - k
      /\ \A i \in 1..(Len(s) - k) : b[i] = s[k + i]
  <2>1. \A i \in (k + 1)..Len(s) : s[i] \in Message
    BY <1>1, ElementOfSeq
  <2>2. /\ b \in Seq(Message)
        /\ Len(b) = IF k + 1 <= Len(s) THEN Len(s) - (k + 1) + 1 ELSE 0
        /\ \A i \in 1..(Len(s) - (k + 1) + 1) : b[i] = s[(k + 1) + i - 1]
    BY <1>1, <2>1, SubSeqProperties
  <2> HIDE DEF b
  <2> QED BY <1>1, <2>2, SMTT(30)
<1>4. /\ a \in Seq(Message) /\ Len(a) = Len(s) + 1 - k
      /\ \A i \in 1..(Len(s) + 1 - k) : a[i] = t[k + i]
  <2>1. \A i \in (k + 1)..Len(t) : t[i] \in Message
    BY <1>1, <1>2, ElementOfSeq
  <2>2. /\ a \in Seq(Message)
        /\ Len(a) = IF k + 1 <= Len(t) THEN Len(t) - (k + 1) + 1 ELSE 0
        /\ \A i \in 1..(Len(t) - (k + 1) + 1) : a[i] = t[(k + 1) + i - 1]
    BY <1>1, <1>2, <2>1, SubSeqProperties
  <2> HIDE DEF a
  <2> QED BY <1>1, <1>2, <2>2
<1> HIDE DEF a, b
<1>5. /\ c \in Seq(Message) /\ Len(c) = Len(s) - k + 1
      /\ \A i \in 1..(Len(s) - k) : c[i] = s[k + i]
      /\ c[Len(s) - k + 1] = m
  BY <1>3, AppendProperties
<1> HIDE DEF c
<1>6. ASSUME NEW i \in 1..(Len(s) + 1 - k) PROVE a[i] = c[i]
  <2>1. CASE i = Len(s) - k + 1
    <3>1. k + i = Len(s) + 1
      BY <1>1, <2>1
    <3> QED BY <1>2, <1>4, <1>5, <2>1, <3>1
  <2>2. CASE i # Len(s) - k + 1
    <3>1. i \in 1..(Len(s) - k) /\ k + i \in 1..Len(s)
      BY <1>1, <2>2
    <3> QED BY <1>2, <1>4, <1>5, <3>1
  <2> QED BY <2>1, <2>2
<1>7. Len(a) = Len(c)
  BY <1>1, <1>4, <1>5
<1>8. a = c
  BY <1>4, <1>5, <1>6, <1>7, SeqEqual
<1> QED BY <1>8 DEF a, b, c, t

\* What message_end does to what the run has added.
LEMMA AddedGrows ==
    ASSUME TypeOK, NEW m \in Message, runStart <= Len(messages),
           messages' = Append(messages, m), runStart' = runStart
    PROVE  /\ Added' = Append(Added, m) /\ runStart' <= Len(messages')
           /\ Added \in Seq(Message)
<1>1. messages \in Seq(Message) /\ runStart \in Nat
  BY DEF TypeOK, MessageTypes, HistoryTypes
<1>2. Len(messages) \in Nat /\ Len(messages') = Len(messages) + 1
  BY <1>1, AppendProperties, LenProperties
<1>3. runStart \in 0..Len(messages)
  BY <1>1, <1>2
<1>4. \A i \in (runStart + 1)..Len(messages) : messages[i] \in Message
  BY <1>1, <1>2, ElementOfSeq
<1>5. Added \in Seq(Message)
  BY <1>1, <1>2, <1>4, SubSeqProperties DEF Added
<1>6. Added' = Append(Added, m)
  BY <1>1, <1>3, TailGrows DEF Added
<1> QED BY <1>1, <1>2, <1>5, <1>6

\* The report is inductive, given the types and the control state.
LEMMA ReportPreserved ==
    ASSUME TypeOK, Control, Report, [Next]_vars PROVE Report'
<1> USE DEF Report, UpToDatePC, ThrownPC, BatchPC, ReplyPC, vars, agentVars,
      queueVars, runVars, loopVars, batchVars, historyVars
<1>0. Report
  OBVIOUS
<1>a. /\ MessageTypes /\ BatchTypes /\ messages \in Seq(Message)
      /\ pendingMessages \in Seq(Message) /\ newMessages \in Seq(Message)
      /\ runStart \in Nat /\ Len(messages) \in Nat
  BY MessageKinds, LenProperties DEF TypeOK, MessageTypes, HistoryTypes
<1>b. pc \in {"promptEnd", "pendingEnd"} =>
        pendingMessages # << >> /\ Head(pendingMessages) \in Message
  BY <1>a, HeadTailProperties DEF Control
<1>c. Replies \subseteq Message
  BY <1>a, BuiltMessages, MessageKinds DEF BatchTypes, Replies
<1>d. pc = "replyEnd" => reply \in Message
  BY MessageKinds DEF Control
<1>i. pc = "failEnd" => reply \in Message
  BY MessageKinds DEF Control
<1>e. Added \in Seq(Message)
  <2>1. \A i \in (runStart + 1)..Len(messages) : messages[i] \in Message
    BY <1>a, ElementOfSeq
  <2> QED BY <1>a, <2>1, SubSeqProperties DEF Added
<1>f. activeRun <=> pc # "idle"
  BY DEF Control
<1>g. ASSUME UNCHANGED << messages, runStart >> PROVE Added' = Added
  BY <1>g DEF Added
<1>1. CASE \/ Prompt \/ ContinueTranscript
           \/ ContinueWithSteering \/ ContinueWithFollowUps
  <2>1. /\ messages' = messages /\ runStart' = Len(messages)
        /\ newMessages' = pendingMessages' /\ pc' = "prompt"
    BY <1>1 DEF Prompt, ContinueTranscript, ContinueWithSteering,
       ContinueWithFollowUps, BeginRun
  <2>2. Added' = << >>
    BY <1>a, <2>1, SubSeqEmpty DEF Added
  <2>3. pendingMessages' \in Seq(Message)
    BY MessageTypesPreserved, MessageKinds DEF MessageTypes
  <2> QED BY <1>a, <2>1, <2>2, <2>3, ConcatEmptySeq
<1>2. CASE PromptAnnounced
  <2> SUFFICES ASSUME ~resetInRun PROVE Report'
    BY <1>2 DEF PromptAnnounced
  <2>1. /\ Added' = Append(Added, Head(pendingMessages))
        /\ runStart' <= Len(messages')
    BY <1>0, <1>2, <1>b, AddedGrows DEF PromptAnnounced, MessageEnd
  <2>2. Added' \o Tail(pendingMessages) = Added \o pendingMessages
    BY <1>2, <1>a, <1>b, <1>e, <2>1, MoveHead DEF PromptAnnounced
  <2> QED BY <1>0, <1>2, <2>1, <2>2 DEF PromptAnnounced
<1>3. CASE InitialSteeringPoll
  BY <1>0, <1>3, <1>e, <1>g, ConcatEmptySeq DEF InitialSteeringPoll
<1>4. CASE PendingInjected
  <2> SUFFICES ASSUME ~resetInRun PROVE Report'
    BY <1>4 DEF PendingInjected
  <2>1. /\ Added' = Append(Added, Head(pendingMessages))
        /\ runStart' <= Len(messages')
    BY <1>0, <1>4, <1>b, AddedGrows DEF PendingInjected, MessageEnd
  <2> QED BY <1>0, <1>4, <2>1 DEF PendingInjected
<1>5. ASSUME NEW m \in Replies, ResponseEnd(m) PROVE Report'
  <2> SUFFICES ASSUME ~resetInRun PROVE Report'
    BY <1>5 DEF ResponseEnd
  <2>1. Added' = Append(Added, m) /\ runStart' <= Len(messages')
    BY <1>0, <1>5, <1>c, AddedGrows DEF ResponseEnd, MessageEnd
  <2> QED BY <1>0, <1>5, <2>1 DEF ResponseEnd
<1>6. CASE ReplyEnd
  <2> SUFFICES ASSUME ~resetInRun PROVE Report'
    BY <1>6 DEF ReplyEnd
  <2>1. Added' = Append(Added, reply) /\ runStart' <= Len(messages')
    BY <1>0, <1>6, <1>d, AddedGrows DEF ReplyEnd, MessageEnd
  <2> QED BY <1>0, <1>6, <2>1 DEF ReplyEnd
<1>7. CASE ReplyFailed \/ ReplyWithoutCalls
  BY <1>0, <1>7, <1>g DEF ReplyFailed, ReplyWithoutCalls, TakeReply, TurnEnd
<1>8. ASSUME NEW mode \in {"sequential", "parallel"}, ReplyWithCalls(mode)
      PROVE Report'
  <2>1. /\ newMessages' = Append(newMessages, reply) /\ nextResult' = 1
        /\ UNCHANGED << messages, runStart, resetInRun >>
        /\ pc = "replied" /\ pc' = "prepare"
    BY <1>8 DEF ReplyWithCalls, TakeReply, ToolExecutionStart
  <2>2. Announced' = << >>
    BY <2>1 DEF Announced
  <2>3. Added = Added \o << >>
    BY <1>e, ConcatEmptySeq
  <2> QED BY <1>0, <1>g, <2>1, <2>2, <2>3
<1>9. CASE ResultEnd
  <2> SUFFICES ASSUME ~resetInRun PROVE Report'
    BY <1>9 DEF ResultEnd
  <2> DEFINE result == Result(reply.turn, nextResult)
  <2>1. /\ pc = "resultEnd" /\ nextResult \in 1..call /\ call \in Call
        /\ nextResult \in Nat \ {0}
        /\ \A c \in 1..call : Result(reply.turn, c) \in Message
    BY <1>9, <1>a, BatchFacts DEF ResultEnd
  <2>2. Added' = Append(Added, result) /\ runStart' <= Len(messages')
    BY <1>0, <1>9, <2>1, AddedGrows DEF ResultEnd, MessageEnd
  <2>3. Announced \in Seq(Message)
    BY <2>1 DEF Announced, Call
  <2>4. Announced' = Append(Announced, result)
    BY <1>9, <2>1 DEF ResultEnd, Announced
  <2>5. Append(newMessages \o Announced, result)
          = newMessages \o Append(Announced, result)
    BY <1>a, <2>1, <2>3, AppendConcat
  <2> QED BY <1>0, <1>9, <2>2, <2>4, <2>5 DEF ResultEnd
<1>10. CASE FinishBatch
  <2>1. nextResult = call + 1
    <3>1. call \in Nat /\ nextResult \in Nat
      BY <1>10, <1>a, BatchFacts DEF FinishBatch, Call
    <3> QED BY <1>10, <3>1 DEF FinishBatch, Control
  <2>2. call \in Nat
    BY <1>10, <1>a, BatchFacts DEF FinishBatch, Call
  <2>3. Announced = BatchResults
    BY <2>1, <2>2 DEF Announced, BatchResults
  <2> QED BY <1>0, <1>10, <1>g, <2>3 DEF FinishBatch, TurnEnd
<1>11. CASE Reset
  BY <1>11, <1>f DEF Reset
<1>12. CASE \/ FinishRun \/ RunThrows
            \/ (\E c \in Call : ToolEndThrows(c) \/ ToolUpdateThrows(c))
            \/ FailStart \/ FailTurnEnd \/ FailAgentEnd \/ FailureThrows
  <2>1. pc # "idle" /\ UNCHANGED << messages, resetInRun >>
    BY <1>12 DEF FinishRun, RunThrows, AfterEmit, ToolEndThrows,
       ToolUpdateThrows, CallThrows, Fail, FailStart, FailTurnEnd,
       FailAgentEnd, FailureThrows, ToolExecutionEnd, MessageStart, TurnEnd,
       AgentEndEvent
  <2>2. \/ pc' = "idle"
        \/ /\ runStart' = runStart
           /\ pc' \in {"failStart", "failEnd", "failAgentEnd", "failed"}
    BY <1>12 DEF FinishRun, RunThrows, ToolEndThrows, ToolUpdateThrows,
       CallThrows, Fail, FailStart, FailTurnEnd, FailAgentEnd, FailureThrows
  <2> QED BY <1>0, <2>1, <2>2
<1>16. CASE FailEnd
  <2> SUFFICES ASSUME ~resetInRun PROVE Report'
    BY <1>16 DEF FailEnd
  <2>1. runStart' <= Len(messages')
    BY <1>0, <1>16, <1>i, AddedGrows DEF FailEnd, MessageEnd
  <2> QED BY <1>16, <2>1 DEF FailEnd
<1>13. CASE \/ PrepareImmediate \/ PrepareAllowed \/ NextCall
            \/ ExecutePrepared
            \/ (\E c \in Call, terminate \in BOOLEAN : ToolEnds(c, terminate))
            \/ ResultStart
  BY <1>0, <1>13, <1>g DEF PrepareImmediate, PrepareAllowed, NextCall,
     ExecutePrepared, ToolEnds, ResultStart, ToolExecutionStart,
     ToolExecutionEnd, MessageStart, Announced
<1>14. CASE \/ AnnouncePrompt \/ InjectPending \/ Request \/ ResponseStart
            \/ (\E m \in Replies : ResponseAtOnce(m))
            \/ SteeringPoll \/ FollowUpPoll \/ AgentEnd
  BY <1>0, <1>14, <1>g DEF AnnouncePrompt, InjectPending, Request, Requesting,
     ResponseStart, ResponseAtOnce, SteeringPoll, FollowUpPoll, AgentEnd,
     MessageStart, AgentEndEvent
<1>15. CASE \/ Steer \/ FollowUp \/ ClearSteeringQueue \/ ClearFollowUpQueue
            \/ Abort \/ (\E id \in stragglers : StragglerEnds(id))
            \/ UNCHANGED vars
  BY <1>0, <1>15, <1>g DEF Steer, FollowUp, ClearSteeringQueue,
     ClearFollowUpQueue, Abort, StragglerEnds, Announced
<1> QED
  BY <1>1, <1>2, <1>3, <1>4, <1>5, <1>6, <1>7, <1>8, <1>9, <1>10, <1>11,
     <1>12, <1>13, <1>14, <1>15, <1>16 DEF Next, RunStep, LoopStep, Operation

\* So is what has been reported, given what the run has added.
LEMMA ReportedPreserved ==
    ASSUME TypeOK, Control, Report, ReportedSoFar, [Next]_vars
    PROVE  ReportedSoFar'
<1> USE DEF ReportedSoFar, UpToDatePC, ThrownPC, vars, agentVars, queueVars,
      runVars, loopVars, batchVars, historyVars, Emit
<1>0. ReportedSoFar /\ Report
  OBVIOUS
<1>a. /\ MessageTypes /\ messages \in Seq(Message)
      /\ newMessages \in Seq(Message) /\ reported \in Seq(Message)
      /\ runStart \in Nat /\ Len(messages) \in Nat
  BY LenProperties DEF TypeOK, MessageTypes, HistoryTypes
<1>b. pc \in {"failEnd", "failAgentEnd"} => reply \in Message
  BY MessageKinds DEF Control, ReplyPC
<1>c. Added \in Seq(Message)
  <2>1. \A i \in (runStart + 1)..Len(messages) : messages[i] \in Message
    BY <1>a, ElementOfSeq
  <2> QED BY <1>a, <2>1, SubSeqProperties DEF Added
<1>d. activeRun <=> pc # "idle"
  BY DEF Control
<1>e. ASSUME UNCHANGED << messages, runStart >> PROVE Added' = Added
  BY <1>e DEF Added
<1>1. CASE AgentEnd
  <2>1. /\ pc = "agentEnd" /\ reported' = reported \o newMessages
        /\ pc' = "settle" /\ Added' = Added /\ resetInRun' = resetInRun
    BY <1>1, <1>e DEF AgentEnd, AgentEndEvent
  <2>2. reported' = newMessages
    BY <1>0, <1>a, <2>1, ConcatEmptySeq
  <2>3. ~resetInRun => newMessages = Added
    BY <1>0, <2>1 DEF Report
  <2> QED BY <2>1, <2>2, <2>3
<1>2. CASE RunThrows
  <2>1. /\ pc \notin ThrownPC /\ pc' = "failStart" /\ Added' = Added
        /\ UNCHANGED << reported, agentEnded, resetInRun >>
    BY <1>2, <1>e DEF RunThrows, AfterEmit, Fail
  <2> QED BY <1>0, <2>1
<1>3. ASSUME NEW c \in Call, ToolEndThrows(c) \/ ToolUpdateThrows(c)
      PROVE  ReportedSoFar'
  <2>1. /\ pc = "running" /\ pc' = "failStart" /\ Added' = Added
        /\ UNCHANGED << reported, resetInRun >> /\ agentEnded' = FALSE
    BY <1>3, <1>e DEF ToolEndThrows, ToolUpdateThrows, CallThrows, Fail,
       ToolExecutionEnd
  <2> QED BY <1>0, <2>1
<1>4. CASE FailStart
  <2>1. /\ pc = "failStart" /\ pc' = "failEnd" /\ Added' = Added
        /\ UNCHANGED << reported, resetInRun >> /\ agentEnded' = FALSE
    BY <1>4, <1>e DEF FailStart, MessageStart
  <2> QED BY <1>0, <2>1
<1>5. CASE FailEnd
  <2>1. /\ pc = "failEnd" /\ pc' = "failTurnEnd"
        /\ UNCHANGED << reported, resetInRun, reply >> /\ agentEnded' = FALSE
        /\ messages' = Append(messages, reply) /\ runStart' = runStart
    BY <1>5 DEF FailEnd, MessageEnd
  <2> SUFFICES ASSUME ~resetInRun PROVE ReportedSoFar'
    BY <2>1
  <2>2. Added' = Append(Added, reply)
    BY <1>0, <1>b, <2>1, AddedGrows DEF Report
  <2>3. Added' # << >> /\ Added'[Len(Added')] = reply
    BY <1>b, <1>c, <2>1, <2>2, AppendProperties
  <2>4. reported = << >> \/ Added' = Append(reported, reply)
    BY <1>0, <2>1, <2>2
  <2> QED BY <2>1, <2>3, <2>4
<1>6. CASE FailTurnEnd
  <2>1. /\ pc = "failTurnEnd" /\ pc' = "failAgentEnd" /\ Added' = Added
        /\ UNCHANGED << reported, resetInRun, reply >> /\ agentEnded' = FALSE
    BY <1>6, <1>e DEF FailTurnEnd, TurnEnd
  <2> QED BY <1>0, <2>1
<1>7. CASE FailAgentEnd
  <2>1. /\ pc = "failAgentEnd" /\ pc' = "failed" /\ Added' = Added
        /\ UNCHANGED << resetInRun, reply >>
        /\ reported' = reported \o << reply >> /\ reply \in Message
    BY <1>7, <1>b, <1>e DEF FailAgentEnd, AgentEndEvent
  <2>2. reported = << >> => reported' = << reply >>
    BY <2>1
  <2>3. reported' = Append(reported, reply)
    BY <1>a, <2>1
  <2>4. ~resetInRun' => AgentEndReportsTheRun'
    BY <1>0, <2>1, <2>2, <2>3 DEF AgentEndReportsTheRun
  <2> QED BY <2>1, <2>4
<1>8. CASE FailureThrows
  <2>1. pc' = "failed" /\ pc \in {"failEnd", "failTurnEnd", "failAgentEnd"}
        /\ agentEnded' = agentEnded
    BY <1>8 DEF FailureThrows
  <2>2. ~agentEnded'
    BY <1>0, <2>1
  <2> QED BY <2>1, <2>2 DEF AgentEndReportsTheRun
<1>9. CASE FinishRun
  BY <1>9 DEF FinishRun
<1>10. CASE \/ Prompt \/ ContinueTranscript
            \/ ContinueWithSteering \/ ContinueWithFollowUps
  BY <1>0, <1>10 DEF Prompt, ContinueTranscript, ContinueWithSteering,
     ContinueWithFollowUps, BeginRun
<1>11. CASE Reset
  BY <1>0, <1>11, <1>d DEF Reset
<1>12. CASE \/ Steer \/ FollowUp \/ ClearSteeringQueue \/ ClearFollowUpQueue
            \/ Abort \/ (\E id \in stragglers : StragglerEnds(id))
            \/ UNCHANGED vars
  <2> HIDE DEF ReportedSoFar
  <2>1. UNCHANGED << messages, runStart, reply >>
    BY <1>12 DEF Steer, FollowUp, ClearSteeringQueue,
       ClearFollowUpQueue, Abort, StragglerEnds
  <2>2. UNCHANGED << pc, reported, resetInRun >>
    BY <1>12 DEF Steer, FollowUp, ClearSteeringQueue,
       ClearFollowUpQueue, Abort, StragglerEnds
  <2>3. agentEnded' => agentEnded
    BY <1>12 DEF Steer, FollowUp, ClearSteeringQueue,
       ClearFollowUpQueue, Abort, StragglerEnds
  <2>4. Added' = Added
    BY <1>e, <2>1
  <2> QED
    BY <1>0, <2>1, <2>2, <2>3, <2>4 DEF ReportedSoFar, AgentEndReportsTheRun
<1>13. CASE \/ AnnouncePrompt \/ PromptAnnounced \/ InitialSteeringPoll
            \/ InjectPending \/ PendingInjected \/ Request \/ ResponseStart
            \/ (\E m \in Replies : ResponseEnd(m) \/ ResponseAtOnce(m))
            \/ ReplyEnd \/ ReplyFailed \/ ReplyWithoutCalls
            \/ (\E mode \in {"sequential", "parallel"} : ReplyWithCalls(mode))
  <2> HIDE DEF ReportedSoFar
  <2>1. /\ pc \notin ThrownPC \union {"settle"}
        /\ pc' \notin ThrownPC \union {"settle"}
    BY <1>13 DEF AnnouncePrompt, PromptAnnounced, InitialSteeringPoll,
       InjectPending, PendingInjected, Request, Requesting, ResponseStart,
       ResponseEnd, ResponseAtOnce, ReplyEnd, ReplyFailed, ReplyWithoutCalls,
       ReplyWithCalls, TakeReply
  <2>2. reported' = reported
    BY <1>13 DEF AnnouncePrompt, PromptAnnounced, InitialSteeringPoll,
       InjectPending, PendingInjected, Request, Requesting, ResponseStart,
       ResponseEnd, ResponseAtOnce, ReplyEnd, ReplyFailed, ReplyWithoutCalls,
       ReplyWithCalls, TakeReply
  <2>3. agentEnded' => agentEnded
    BY <1>13 DEF AnnouncePrompt, PromptAnnounced, InitialSteeringPoll,
       InjectPending, PendingInjected, Request, Requesting, ResponseStart,
       ResponseEnd, ResponseAtOnce, ReplyEnd, ReplyFailed, ReplyWithoutCalls,
       ReplyWithCalls, TakeReply, MessageStart, MessageEnd,
       ToolExecutionStart, TurnEnd
  <2> QED BY <1>0, <2>1, <2>2, <2>3 DEF ReportedSoFar
<1>14. CASE \/ PrepareImmediate \/ PrepareAllowed \/ NextCall
            \/ ExecutePrepared
            \/ (\E c \in Call, terminate \in BOOLEAN : ToolEnds(c, terminate))
            \/ ResultStart \/ ResultEnd \/ FinishBatch
            \/ SteeringPoll \/ FollowUpPoll
  <2> HIDE DEF ReportedSoFar
  <2>1. /\ pc \notin ThrownPC \union {"settle"}
        /\ pc' \notin ThrownPC \union {"settle"}
    BY <1>14 DEF PrepareImmediate, PrepareAllowed, NextCall, ExecutePrepared,
       ToolEnds, ResultStart, ResultEnd, FinishBatch, SteeringPoll,
       FollowUpPoll
  <2>2. reported' = reported
    BY <1>14 DEF PrepareImmediate, PrepareAllowed, NextCall, ExecutePrepared,
       ToolEnds, ResultStart, ResultEnd, FinishBatch, SteeringPoll,
       FollowUpPoll
  <2>3. agentEnded' => agentEnded
    BY <1>14 DEF PrepareImmediate, PrepareAllowed, NextCall, ExecutePrepared,
       ToolEnds, ResultStart, ResultEnd, FinishBatch, SteeringPoll,
       FollowUpPoll, MessageStart, MessageEnd, ToolExecutionStart,
       ToolExecutionEnd, TurnEnd
  <2> QED BY <1>0, <2>1, <2>2, <2>3 DEF ReportedSoFar
<1> QED
  BY <1>1, <1>2, <1>3, <1>4, <1>5, <1>6, <1>7, <1>8, <1>9, <1>10, <1>11,
     <1>12, <1>13, <1>14 DEF Next, RunStep, LoopStep, Operation

\* The agent_end events of a run carry, in order and each once, all that the
\* run has added to the transcript, also if a listener of the first one rejects
\* and a second follows; after a run that threw before its first, only the
\* failure message.  The owner may have reset the transcript under the run.
THEOREM AgentEndIsARecord == Spec => []AgentEndReportsTheRun
<1>1. Init => Report /\ ReportedSoFar
  BY DEF Init, Report, ReportedSoFar, UpToDatePC, ThrownPC, BatchPC
<1>2. TypeOK /\ Control /\ Report /\ ReportedSoFar /\ [Next]_vars
        => (Report /\ ReportedSoFar)'
  BY ReportPreserved, ReportedPreserved
<1>3. ReportedSoFar => AgentEndReportsTheRun
  BY DEF ReportedSoFar, AgentEndReportsTheRun
<1> QED BY <1>1, <1>2, <1>3, TypeCorrect, PTL DEF Spec

-----------------------------------------------------------------------------
(* Results follow their reply, and no call is skipped *)

\* Where the reply stands whose calls are being executed.
ReplyAt == Len(messages) - (nextResult - 1)

\* The reply at hand is the last message but the results announced for it.
Placed ==
    ~resetInRun =>
      /\ pc = "replied" =>
           Len(messages) \in DOMAIN messages /\ messages[Len(messages)] = reply
      /\ pc \in BatchPC =>
           /\ reply.stop = "stop"
           /\ ReplyAt \in DOMAIN messages /\ messages[ReplyAt] = reply

\* Every call of the reply at place i has its result, at its place.
Complete(i) ==
    \A c \in 1..messages[i].calls :
      /\ i + c \in DOMAIN messages
      /\ messages[i + c] = Result(messages[i].turn, c)

\* In a run that has not been aborted every reply of the run is complete but
\* the one at hand, whose announced results stand behind it.
Answered ==
    ~resetInRun /\ ~aborted /\ pc \notin ThrownPC \union {"idle"} =>
      /\ pc \in {"running", "result", "resultEnd"}
           /\ executionMode = "parallel" => call = reply.calls
      /\ pc \in BatchPC =>
           \A c \in 1..(nextResult - 1) :
             messages[ReplyAt + c] = Result(reply.turn, c)
      /\ \A i \in (runStart + 1)..Len(messages) :
           messages[i].role = "assistant" /\ messages[i].stop = "stop" =>
             \/ Complete(i)
             \/ pc = "replied" /\ i = Len(messages)
             \/ pc \in BatchPC /\ i = ReplyAt

\* message_end leaves the messages before it where they are.
LEMMA AppendKeeps ==
    ASSUME NEW s \in Seq(Message), NEW m \in Message
    PROVE  /\ Len(s) \in Nat /\ DOMAIN s = 1..Len(s)
           /\ Len(Append(s, m)) = Len(s) + 1
           /\ DOMAIN Append(s, m) = 1..(Len(s) + 1)
           /\ \A i \in 1..Len(s) : Append(s, m)[i] = s[i]
           /\ Append(s, m)[Len(s) + 1] = m
BY AppendProperties, LenProperties

\* A message that is no result leaves the results behind their replies.
LEMMA ResultsStay ==
    ASSUME TypeOK, ResultsFollowTheirReply, NEW m \in Message,
           m.role # "toolResult", messages' = Append(messages, m),
           resetInRun' = resetInRun
    PROVE  ResultsFollowTheirReply'
<1> SUFFICES ASSUME ~resetInRun, NEW j \in DOMAIN messages',
                    messages'[j].role = "toolResult"
             PROVE  LET i == j - messages'[j].call
                    IN  /\ i \in DOMAIN messages'
                        /\ messages'[i].role = "assistant"
                        /\ messages'[i].stop = "stop"
                        /\ messages'[i].turn = messages'[j].turn
                        /\ messages'[j].call <= messages'[i].calls
  BY DEF ResultsFollowTheirReply
<1>1. messages \in Seq(Message)
  BY DEF TypeOK, MessageTypes
<1>2. /\ Len(messages) \in Nat /\ DOMAIN messages = 1..Len(messages)
      /\ DOMAIN messages' = 1..(Len(messages) + 1)
      /\ \A i \in 1..Len(messages) : messages'[i] = messages[i]
      /\ messages'[Len(messages) + 1] = m
  BY <1>1, AppendKeeps
<1>3. j \in DOMAIN messages /\ messages'[j] = messages[j]
  BY <1>2
<1> DEFINE i == j - messages[j].call
<1>4. /\ i \in DOMAIN messages
      /\ messages[i].role = "assistant" /\ messages[i].stop = "stop"
      /\ messages[i].turn = messages[j].turn
      /\ messages[j].call <= messages[i].calls
  BY <1>3 DEF ResultsFollowTheirReply
<1> HIDE DEF i
<1>5. i \in DOMAIN messages' /\ messages'[i] = messages[i]
  BY <1>2, <1>4
<1>6. /\ i \in DOMAIN messages'
      /\ messages'[i].role = "assistant" /\ messages'[i].stop = "stop"
      /\ messages'[i].turn = messages'[j].turn
      /\ messages'[j].call <= messages'[i].calls
  BY <1>3, <1>4, <1>5
<1> QED BY <1>3, <1>6 DEF i

\* The next result goes behind the results announced before it.
LEMMA ResultPlaced ==
    ASSUME TypeOK, Control, Placed, ~resetInRun, ResultEnd
    PROVE  /\ ReplyAt' = ReplyAt /\ ReplyAt \in 1..Len(messages)
           /\ ReplyAt + nextResult = Len(messages) + 1
           /\ messages'[ReplyAt] = reply
           /\ messages'[Len(messages) + 1] = Result(reply.turn, nextResult)
           /\ Len(messages') = Len(messages) + 1 /\ Len(messages) \in Nat
           /\ DOMAIN messages' = 1..(Len(messages) + 1)
           /\ DOMAIN messages = 1..Len(messages)
           /\ \A i \in 1..Len(messages) : messages'[i] = messages[i]
           /\ nextResult \in 1..call /\ nextResult \in Nat
           /\ call <= reply.calls /\ call \in Nat /\ reply.calls \in Nat
<1>1. /\ pc = "resultEnd" /\ nextResult \in 1..call /\ call \in Call
      /\ call <= reply.calls /\ reply.calls \in 0..MaxToolCalls
      /\ nextResult \in Nat \ {0}
      /\ \A c \in 1..call : Result(reply.turn, c) \in Message
  BY BatchFacts DEF TypeOK, BatchPC, ResultEnd
<1>2. /\ messages \in Seq(Message) /\ nextResult' = nextResult + 1
      /\ messages' = Append(messages, Result(reply.turn, nextResult))
  BY DEF ResultEnd, MessageEnd, TypeOK, MessageTypes
<1>3. /\ Len(messages) \in Nat /\ DOMAIN messages = 1..Len(messages)
      /\ DOMAIN messages' = 1..(Len(messages) + 1)
      /\ Len(messages') = Len(messages) + 1
      /\ \A i \in 1..Len(messages) : messages'[i] = messages[i]
      /\ messages'[Len(messages) + 1] = Result(reply.turn, nextResult)
  BY <1>1, <1>2, AppendKeeps
<1>4. ReplyAt \in 1..Len(messages) /\ messages[ReplyAt] = reply
  BY <1>1, <1>3 DEF Placed, BatchPC
<1>5. ReplyAt' = ReplyAt /\ ReplyAt + nextResult = Len(messages) + 1
  BY <1>1, <1>2, <1>3 DEF ReplyAt
<1>6. call \in Nat /\ reply.calls \in Nat
  BY <1>1 DEF Call
<1> QED BY <1>1, <1>3, <1>4, <1>5, <1>6

\* What the provider may answer is a message of the model.
LEMMA RepliesTyped == BatchTypes => Replies \subseteq AssistantMessage
BY BuiltMessages DEF BatchTypes, Replies

\* The places are inductive, given the types and the control state.
LEMMA PlacedPreserved ==
    ASSUME TypeOK, Control, Placed, ResultsFollowTheirReply, [Next]_vars
    PROVE  Placed' /\ ResultsFollowTheirReply'
<1> USE DEF Placed, BatchPC, ReplyPC, vars, agentVars, queueVars, runVars,
      loopVars, batchVars, historyVars
<1>0. Placed /\ ResultsFollowTheirReply
  OBVIOUS
<1>a. /\ BatchTypes /\ messages \in Seq(Message)
      /\ Len(messages) \in Nat
  BY LenProperties DEF TypeOK, MessageTypes
<1>b. pc \in {"promptEnd", "pendingEnd"} =>
        /\ Head(pendingMessages) \in Message
        /\ Head(pendingMessages).role # "toolResult"
  <2> SUFFICES ASSUME pc \in {"promptEnd", "pendingEnd"}
               PROVE  Head(pendingMessages) \in UserMessage
    BY MessageKinds DEF UserMessage
  <2> QED BY HeadTailProperties DEF TypeOK, MessageTypes, Control
<1>c. \A m \in Replies : m \in Message /\ m.role # "toolResult"
  <2>1. Replies \subseteq AssistantMessage
    BY <1>a, RepliesTyped
  <2> QED BY <2>1, MessageKinds DEF AssistantMessage
<1>d. pc \in {"replyEnd", "failEnd"} =>
        reply \in Message /\ reply.role # "toolResult"
  BY MessageKinds DEF Control, AssistantMessage
<1>f. activeRun <=> pc # "idle"
  BY DEF Control
<1>g. messages' = messages /\ resetInRun' = resetInRun =>
        ResultsFollowTheirReply'
  BY <1>0 DEF ResultsFollowTheirReply
<1>h. UNCHANGED << messages, nextResult >> => ReplyAt' = ReplyAt
  BY DEF ReplyAt
<1>1. CASE PromptAnnounced \/ PendingInjected
  BY <1>0, <1>1, <1>b, ResultsStay
     DEF PromptAnnounced, PendingInjected, MessageEnd
<1>2. ASSUME NEW m \in Replies, ResponseEnd(m)
      PROVE  Placed' /\ ResultsFollowTheirReply'
  <2>1. /\ messages' = Append(messages, m) /\ resetInRun' = resetInRun
        /\ reply' = m /\ pc' = "replied"
    BY <1>2 DEF ResponseEnd, MessageEnd
  <2>2. /\ Len(messages') = Len(messages) + 1
        /\ DOMAIN messages' = 1..(Len(messages) + 1)
        /\ messages'[Len(messages) + 1] = m
    BY <2>1, <1>a, <1>c, AppendKeeps
  <2> QED BY <2>1, <2>2, <1>a, <1>c, ResultsStay
<1>3. CASE ReplyEnd
  <2>1. /\ messages' = Append(messages, reply) /\ resetInRun' = resetInRun
        /\ reply' = reply /\ pc' = "replied" /\ pc = "replyEnd"
    BY <1>3 DEF ReplyEnd, MessageEnd
  <2>2. /\ Len(messages') = Len(messages) + 1
        /\ DOMAIN messages' = 1..(Len(messages) + 1)
        /\ messages'[Len(messages) + 1] = reply
    BY <2>1, <1>a, <1>d, AppendKeeps
  <2> QED BY <2>1, <2>2, <1>a, <1>d, ResultsStay
<1>4. CASE FailEnd
  <2>1. /\ messages' = Append(messages, reply) /\ resetInRun' = resetInRun
        /\ pc' = "failTurnEnd" /\ pc = "failEnd"
    BY <1>4 DEF FailEnd, MessageEnd
  <2> QED BY <2>1, <1>d, ResultsStay
<1>5. CASE ResultEnd
  <2> SUFFICES ASSUME ~resetInRun PROVE Placed' /\ ResultsFollowTheirReply'
    BY <1>5 DEF ResultEnd, ResultsFollowTheirReply
  <2>1. /\ ReplyAt' = ReplyAt /\ ReplyAt \in 1..Len(messages)
        /\ ReplyAt + nextResult = Len(messages) + 1
        /\ messages'[ReplyAt] = reply
        /\ messages'[Len(messages) + 1] = Result(reply.turn, nextResult)
        /\ DOMAIN messages' = 1..(Len(messages) + 1)
        /\ DOMAIN messages = 1..Len(messages)
        /\ \A i \in 1..Len(messages) : messages'[i] = messages[i]
        /\ nextResult \in 1..call /\ nextResult \in Nat
        /\ call <= reply.calls /\ call \in Nat /\ reply.calls \in Nat
    BY <1>0, <1>5, ResultPlaced
  <2>2. /\ pc = "resultEnd" /\ reply' = reply /\ resetInRun' = resetInRun
        /\ reply \in AssistantMessage /\ reply.stop = "stop"
        /\ pc' # "replied"
    BY <1>0, <1>5 DEF ResultEnd, Control
  <2>3. Placed'
    BY <1>a, <2>1, <2>2
  <2>4. ASSUME NEW j \in DOMAIN messages', messages'[j].role = "toolResult"
        PROVE  LET i == j - messages'[j].call
               IN  /\ i \in DOMAIN messages'
                   /\ messages'[i].role = "assistant"
                   /\ messages'[i].stop = "stop"
                   /\ messages'[i].turn = messages'[j].turn
                   /\ messages'[j].call <= messages'[i].calls
    <3>1. CASE j = Len(messages) + 1
      <4>1. /\ messages'[j].turn = reply.turn
            /\ messages'[j].call = nextResult
        BY <2>1, <3>1 DEF Result
      <4>2. j - messages'[j].call = ReplyAt
        BY <1>a, <2>1, <3>1, <4>1
      <4>3. ReplyAt \in DOMAIN messages'
        BY <1>a, <2>1
      <4>4. reply.role = "assistant" /\ nextResult <= reply.calls
        BY <2>1, <2>2 DEF AssistantMessage
      <4> QED BY <2>1, <2>2, <4>1, <4>2, <4>3, <4>4
    <3>2. CASE j # Len(messages) + 1
      <4>1. j \in DOMAIN messages /\ messages'[j] = messages[j]
        BY <1>a, <2>1, <3>2
      <4> DEFINE i == j - messages[j].call
      <4>2. /\ i \in DOMAIN messages
            /\ messages[i].role = "assistant" /\ messages[i].stop = "stop"
            /\ messages[i].turn = messages[j].turn
            /\ messages[j].call <= messages[i].calls
        BY <1>0, <2>4, <4>1 DEF ResultsFollowTheirReply
      <4> HIDE DEF i
      <4>3. i \in DOMAIN messages' /\ messages'[i] = messages[i]
        BY <1>a, <2>1, <4>2
      <4>4. /\ i \in DOMAIN messages'
            /\ messages'[i].role = "assistant" /\ messages'[i].stop = "stop"
            /\ messages'[i].turn = messages'[j].turn
            /\ messages'[j].call <= messages'[i].calls
        BY <4>1, <4>2, <4>3
      <4> QED BY <4>1, <4>4 DEF i
    <3> QED BY <3>1, <3>2
  <2> QED BY <2>3, <2>4 DEF ResultsFollowTheirReply
<1>6. ASSUME NEW mode \in {"sequential", "parallel"}, ReplyWithCalls(mode)
      PROVE Placed' /\ ResultsFollowTheirReply'
  <2>1. /\ pc = "replied" /\ pc' = "prepare" /\ reply.stop = "stop"
        /\ nextResult' = 1 /\ UNCHANGED << messages, reply, resetInRun >>
    BY <1>6 DEF ReplyWithCalls, TakeReply, ToolExecutionStart
  <2>2. ReplyAt' = Len(messages)
    BY <1>a, <2>1 DEF ReplyAt
  <2> QED BY <1>0, <1>g, <2>1, <2>2
<1>7. CASE Reset
  <2>1. DOMAIN << >> = {}
    OBVIOUS
  <2> QED BY <1>7, <1>f, <2>1 DEF Reset, ResultsFollowTheirReply
<1>8. CASE \/ Prompt \/ ContinueTranscript
           \/ ContinueWithSteering \/ ContinueWithFollowUps
  BY <1>8, <1>g DEF Prompt, ContinueTranscript, ContinueWithSteering,
     ContinueWithFollowUps, BeginRun
<1>9. CASE \/ FinishRun \/ RunThrows
           \/ (\E c \in Call : ToolEndThrows(c) \/ ToolUpdateThrows(c))
           \/ FailStart \/ FailTurnEnd \/ FailAgentEnd \/ FailureThrows
  BY <1>9, <1>g DEF FinishRun, RunThrows, ToolEndThrows, ToolUpdateThrows,
     CallThrows, ToolExecutionEnd, Fail, FailStart, FailTurnEnd, FailAgentEnd,
     FailureThrows, MessageStart, TurnEnd, AgentEndEvent
<1>10. CASE \/ PrepareImmediate \/ PrepareAllowed \/ NextCall
            \/ ExecutePrepared
            \/ (\E c \in Call, terminate \in BOOLEAN : ToolEnds(c, terminate))
            \/ ResultStart
  BY <1>0, <1>10, <1>g, <1>h DEF PrepareImmediate, PrepareAllowed, NextCall,
     ExecutePrepared, ToolEnds, ResultStart, ToolExecutionStart,
     ToolExecutionEnd, MessageStart
<1>11. CASE \/ AnnouncePrompt \/ InitialSteeringPoll \/ InjectPending
            \/ Request \/ ResponseStart
            \/ (\E m \in Replies : ResponseAtOnce(m))
            \/ ReplyFailed \/ ReplyWithoutCalls \/ FinishBatch
            \/ SteeringPoll \/ FollowUpPoll \/ AgentEnd
  BY <1>11, <1>g DEF AnnouncePrompt, InitialSteeringPoll, InjectPending,
     Request, ResponseStart, ResponseAtOnce, ReplyFailed,
     ReplyWithoutCalls, TakeReply, FinishBatch, SteeringPoll, FollowUpPoll,
     AgentEnd, MessageStart, TurnEnd, AgentEndEvent
<1>12. CASE \/ Steer \/ FollowUp \/ ClearSteeringQueue \/ ClearFollowUpQueue
            \/ Abort \/ (\E id \in stragglers : StragglerEnds(id))
            \/ UNCHANGED vars
  BY <1>0, <1>12, <1>g, <1>h DEF Steer, FollowUp, ClearSteeringQueue,
     ClearFollowUpQueue, Abort, StragglerEnds
<1> QED
  BY <1>1, <1>2, <1>3, <1>4, <1>5, <1>6, <1>7, <1>8, <1>9, <1>10, <1>11,
     <1>12 DEF Next, RunStep, LoopStep, Operation

\* Each tool result stands behind the reply that called for it, as many
\* places as its call has in that reply, although parallel calls end in any
\* order and messages are queued and runs throw meanwhile.
THEOREM ResultsStandByTheirReply == Spec => []ResultsFollowTheirReply
<1>1. Init => Placed /\ ResultsFollowTheirReply
  BY DEF Init, Placed, BatchPC, ResultsFollowTheirReply
<1>2. /\ TypeOK /\ Control /\ Placed /\ ResultsFollowTheirReply
      /\ [Next]_vars
      => (Placed /\ ResultsFollowTheirReply)'
  BY PlacedPreserved
<1> QED BY <1>1, <1>2, TypeCorrect, PTL DEF Spec

\* A complete reply stays complete when the transcript grows.
LEMMA CompleteStays ==
    ASSUME TypeOK, NEW m \in Message, messages' = Append(messages, m),
           NEW i \in 1..Len(messages), Complete(i)
    PROVE  Complete(i)'
<1>1. messages \in Seq(Message)
  BY DEF TypeOK, MessageTypes
<1>2. /\ Len(messages) \in Nat /\ DOMAIN messages = 1..Len(messages)
      /\ DOMAIN messages' = 1..(Len(messages) + 1)
      /\ \A k \in 1..Len(messages) : messages'[k] = messages[k]
  BY <1>1, AppendKeeps
<1>3. messages'[i] = messages[i]
  BY <1>2
<1>4. ASSUME NEW c \in 1..messages[i].calls
      PROVE  /\ i + c \in DOMAIN messages'
             /\ messages'[i + c] = Result(messages[i].turn, c)
  <2>1. /\ i + c \in DOMAIN messages
        /\ messages[i + c] = Result(messages[i].turn, c)
    BY DEF Complete
  <2> HIDE DEF Complete
  <2> DEFINE k == i + c
  <2>2. k \in 1..Len(messages)
    BY <1>2, <2>1
  <2> HIDE DEF k
  <2>3. k \in DOMAIN messages' /\ messages'[k] = messages[k]
    BY <1>2, <2>2
  <2> QED BY <2>1, <2>3 DEF k
<1> QED BY <1>3, <1>4 DEF Complete

\* A message that is no reply leaves the replies of the run complete.
LEMMA AnsweredStay ==
    ASSUME TypeOK, NEW m \in Message, m.role # "assistant",
           messages' = Append(messages, m), runStart' = runStart,
           \A i \in (runStart + 1)..Len(messages) :
             messages[i].role = "assistant" /\ messages[i].stop = "stop" =>
               Complete(i)
    PROVE  \A i \in (runStart' + 1)..Len(messages') :
             messages'[i].role = "assistant" /\ messages'[i].stop = "stop" =>
               Complete(i)'
<1> SUFFICES ASSUME NEW i \in (runStart + 1)..Len(messages'),
                    messages'[i].role = "assistant",
                    messages'[i].stop = "stop"
             PROVE  Complete(i)'
  OBVIOUS
<1>1. messages \in Seq(Message) /\ runStart \in Nat
  BY DEF TypeOK, MessageTypes, HistoryTypes
<1>2. /\ Len(messages) \in Nat /\ Len(messages') = Len(messages) + 1
      /\ \A k \in 1..Len(messages) : messages'[k] = messages[k]
      /\ messages'[Len(messages) + 1] = m
  BY <1>1, AppendKeeps
<1>3. i # Len(messages) + 1
  BY <1>2
<1>4. i \in (runStart + 1)..Len(messages) /\ i \in 1..Len(messages)
  BY <1>1, <1>2, <1>3
<1>5. Complete(i)
  BY <1>2, <1>4
<1> QED BY <1>4, <1>5, CompleteStays

\* So is a run's progress through the calls of its replies.
LEMMA AnsweredPreserved ==
    ASSUME TypeOK, Control, Placed, Answered, [Next]_vars
    PROVE  Answered'
<1> USE DEF Answered, ThrownPC, BatchPC, ReplyPC, vars, agentVars, queueVars,
      runVars, loopVars, batchVars, historyVars
<1>0. Answered
  OBVIOUS
<1>a. /\ BatchTypes /\ messages \in Seq(Message) /\ runStart \in Nat
      /\ Len(messages) \in Nat
  BY LenProperties DEF TypeOK, MessageTypes, HistoryTypes
<1>b. pc \in {"promptEnd", "pendingEnd"} =>
        /\ Head(pendingMessages) \in Message
        /\ Head(pendingMessages).role # "assistant"
  <2> SUFFICES ASSUME pc \in {"promptEnd", "pendingEnd"}
               PROVE  Head(pendingMessages) \in UserMessage
    BY MessageKinds DEF UserMessage
  <2> QED BY HeadTailProperties DEF TypeOK, MessageTypes, Control
<1>c. Replies \subseteq Message
  BY <1>a, BuiltMessages, MessageKinds DEF BatchTypes, Replies
<1>d. pc = "replyEnd" => reply \in Message
  BY MessageKinds DEF Control
<1>f. activeRun <=> pc # "idle"
  BY DEF Control
<1>g. ASSUME UNCHANGED << messages, runStart >>
      PROVE  /\ \A i : Complete(i)' = Complete(i)
             /\ nextResult' = nextResult => ReplyAt' = ReplyAt
  BY <1>g DEF Complete, ReplyAt
<1>1. CASE PromptAnnounced \/ PendingInjected
  <2> SUFFICES ASSUME ~resetInRun, ~aborted PROVE Answered'
    BY <1>1 DEF PromptAnnounced, PendingInjected
  <2>1. /\ messages' = Append(messages, Head(pendingMessages))
        /\ runStart' = runStart /\ pc' \in {"prompt", "turn"}
        /\ pc \in {"promptEnd", "pendingEnd"}
    BY <1>1 DEF PromptAnnounced, PendingInjected, MessageEnd
  <2>2. \A i \in (runStart' + 1)..Len(messages') :
          messages'[i].role = "assistant" /\ messages'[i].stop = "stop" =>
            Complete(i)'
    BY <1>0, <1>b, <2>1, AnsweredStay
  <2> QED BY <2>1, <2>2
<1>2. ASSUME NEW m \in Message, messages' = Append(messages, m),
             pc \in {"streaming", "replyEnd"}, pc' = "replied",
             UNCHANGED << runStart, resetInRun, aborted >>
      PROVE  Answered'
  <2> SUFFICES ASSUME ~resetInRun, ~aborted,
                      NEW i \in (runStart + 1)..Len(messages'),
                      messages'[i].role = "assistant",
                      messages'[i].stop = "stop"
               PROVE  Complete(i)' \/ i = Len(messages')
    BY <1>2
  <2>1. /\ Len(messages') = Len(messages) + 1
        /\ \A k \in 1..Len(messages) : messages'[k] = messages[k]
    BY <1>a, <1>2, AppendKeeps
  <2>2. CASE i = Len(messages) + 1
    BY <2>1, <2>2
  <2>3. CASE i # Len(messages) + 1
    <3>1. i \in (runStart + 1)..Len(messages) /\ i \in 1..Len(messages)
      BY <1>a, <2>1, <2>3
    <3>2. Complete(i)
      BY <1>0, <1>2, <2>1, <3>1
    <3> QED BY <1>2, <3>1, <3>2, CompleteStays
  <2> QED BY <2>2, <2>3
<1>3. ASSUME NEW m \in Replies, ResponseEnd(m) PROVE Answered'
  BY <1>2, <1>3, <1>c DEF ResponseEnd, MessageEnd
<1>4. CASE ReplyEnd
  BY <1>2, <1>4, <1>d DEF ReplyEnd, MessageEnd
<1>5. CASE ReplyFailed \/ ReplyWithoutCalls
  <2> SUFFICES ASSUME ~resetInRun, ~aborted,
                      NEW i \in (runStart + 1)..Len(messages),
                      messages[i].role = "assistant",
                      messages[i].stop = "stop"
               PROVE  Complete(i)
    BY <1>5, <1>g
       DEF ReplyFailed, ReplyWithoutCalls, TakeReply, TurnEnd
  <2>1. CASE i = Len(messages)
    <3>1. messages[i] = reply /\ (reply.stop # "stop" \/ reply.calls = 0)
      BY <1>5, <2>1
         DEF ReplyFailed, ReplyWithoutCalls, TakeReply, Placed
    <3> QED BY <3>1 DEF Complete
  <2>2. CASE i # Len(messages)
    BY <1>0, <1>5, <2>2 DEF ReplyFailed, ReplyWithoutCalls, TakeReply
  <2> QED BY <2>1, <2>2
<1>6. ASSUME NEW mode \in {"sequential", "parallel"}, ReplyWithCalls(mode)
      PROVE Answered'
  <2>1. /\ pc = "replied" /\ pc' = "prepare" /\ nextResult' = 1
        /\ UNCHANGED << messages, runStart, resetInRun, aborted, reply >>
    BY <1>6 DEF ReplyWithCalls, TakeReply, ToolExecutionStart
  <2>2. ReplyAt' = Len(messages)
    BY <1>a, <2>1 DEF ReplyAt
  <2> QED BY <1>0, <1>g, <2>1, <2>2
<1>7. CASE ResultEnd
  <2> SUFFICES ASSUME ~resetInRun, ~aborted PROVE Answered'
    BY <1>7 DEF ResultEnd
  <2>1. /\ ReplyAt' = ReplyAt /\ ReplyAt \in 1..Len(messages)
        /\ ReplyAt + nextResult = Len(messages) + 1
        /\ messages'[Len(messages) + 1] = Result(reply.turn, nextResult)
        /\ Len(messages') = Len(messages) + 1
        /\ \A i \in 1..Len(messages) : messages'[i] = messages[i]
        /\ nextResult \in 1..call /\ nextResult \in Nat /\ call \in Nat
    BY <1>7, ResultPlaced
  <2>2. /\ pc = "resultEnd" /\ pc' \in {"callDone", "result"}
        /\ executionMode = "parallel" => pc' = "result"
        /\ nextResult' = nextResult + 1
        /\ messages' = Append(messages, Result(reply.turn, nextResult))
        /\ UNCHANGED << reply, call, executionMode, runStart, resetInRun,
                        aborted >>
        /\ Result(reply.turn, nextResult) \in Message
    BY <1>7, <1>a, <2>1, BatchFacts DEF ResultEnd, MessageEnd
  <2>3. pc' \in {"running", "result", "resultEnd"}
          /\ executionMode' = "parallel" => call' = reply'.calls
    BY <1>0, <2>2
  <2>4. ASSUME NEW c \in 1..nextResult
        PROVE  messages'[ReplyAt + c] = Result(reply.turn, c)
    <3>1. CASE c = nextResult
      BY <2>1, <3>1
    <3>2. CASE c # nextResult
      <4>1. c \in 1..(nextResult - 1) /\ ReplyAt + c \in 1..Len(messages)
        BY <1>a, <2>1, <3>2
      <4>2. messages[ReplyAt + c] = Result(reply.turn, c)
        BY <1>0, <2>2, <4>1
      <4> QED BY <2>1, <4>1, <4>2
    <3> QED BY <3>1, <3>2
  <2>5. ASSUME NEW i \in (runStart + 1)..Len(messages'),
               messages'[i].role = "assistant", messages'[i].stop = "stop"
        PROVE  Complete(i)' \/ i = ReplyAt'
    <3>1. i # Len(messages) + 1
      BY <2>1, <2>5 DEF Result
    <3>2. i \in (runStart + 1)..Len(messages) /\ i \in 1..Len(messages)
      BY <1>a, <2>1, <3>1
    <3>3. Complete(i) \/ i = ReplyAt
      BY <1>0, <2>1, <2>2, <2>5, <3>2
    <3> QED BY <2>1, <2>2, <3>2, <3>3, CompleteStays
  <2>6. nextResult' - 1 = nextResult
    BY <2>1, <2>2
  <2> QED BY <2>1, <2>2, <2>3, <2>4, <2>5, <2>6
<1>8. CASE FinishBatch
  <2> SUFFICES ASSUME ~resetInRun, ~aborted PROVE Answered'
    BY <1>8 DEF FinishBatch
  <2>1. /\ pc \in {"result", "callDone"} /\ pc' = "steeringPoll"
        /\ UNCHANGED << messages, runStart, resetInRun, aborted >>
    BY <1>8 DEF FinishBatch, TurnEnd
  <2>2. /\ call \in Nat /\ call \in Call /\ nextResult \in Nat
        /\ reply.calls \in Nat
    <3>1. /\ call \in Call /\ nextResult \in Nat \ {0}
          /\ reply.calls \in 0..MaxToolCalls
      BY <1>a, <2>1, BatchFacts
    <3> QED BY <3>1 DEF Call
  <2>3. nextResult = call + 1
    BY <1>8, <2>2 DEF FinishBatch, Control
  <2>4. call = reply.calls
    BY <1>0, <1>8, <1>a, <2>2 DEF FinishBatch, Control, LastCall, BatchTypes
  <2>5. ReplyAt \in 1..Len(messages) /\ messages[ReplyAt] = reply
    BY <1>a, <2>1, LenProperties DEF Placed
  <2>6. ReplyAt = Len(messages) - call
    BY <1>a, <2>2, <2>3 DEF ReplyAt
  <2>7. \A c \in 1..call : ReplyAt + c \in 1..Len(messages)
    BY <1>a, <2>2, <2>5, <2>6
  <2>8. \A c \in 1..call : messages[ReplyAt + c] = Result(reply.turn, c)
    BY <1>0, <2>1, <2>2, <2>3
  <2>9. DOMAIN messages = 1..Len(messages)
    BY <1>a, LenProperties
  <2>10. Complete(ReplyAt)
    BY <2>4, <2>5, <2>7, <2>8, <2>9 DEF Complete
  <2> QED BY <1>0, <1>g, <2>1, <2>10
<1>9. CASE Reset
  BY <1>9, <1>f DEF Reset
<1>10. CASE \/ Prompt \/ ContinueTranscript
            \/ ContinueWithSteering \/ ContinueWithFollowUps
  <2>1. pc' = "prompt" /\ runStart' = Len(messages) /\ messages' = messages
    BY <1>10 DEF Prompt, ContinueTranscript, ContinueWithSteering,
       ContinueWithFollowUps, BeginRun
  <2>2. (runStart' + 1)..Len(messages') = {}
    BY <1>a, <2>1
  <2> QED BY <2>1, <2>2
<1>11. CASE \/ FinishRun \/ RunThrows
            \/ (\E c \in Call : ToolEndThrows(c) \/ ToolUpdateThrows(c))
            \/ FailStart \/ FailEnd \/ FailTurnEnd \/ FailAgentEnd
            \/ FailureThrows
  BY <1>11 DEF FinishRun, RunThrows, ToolEndThrows, ToolUpdateThrows,
     CallThrows, Fail, FailStart, FailEnd, FailTurnEnd, FailAgentEnd,
     FailureThrows
<1>12. CASE PrepareImmediate \/ PrepareAllowed \/ NextCall \/ ResultStart
  BY <1>0, <1>12, <1>g DEF PrepareImmediate, PrepareAllowed, NextCall,
     ResultStart, ToolExecutionStart, ToolExecutionEnd, MessageStart
<1>13. CASE ExecutePrepared
           \/ (\E c \in Call, terminate \in BOOLEAN : ToolEnds(c, terminate))
  BY <1>0, <1>13, <1>g
     DEF ExecutePrepared, LastCall, ToolEnds, ToolExecutionEnd
<1>14. CASE \/ AnnouncePrompt \/ InitialSteeringPoll \/ InjectPending
            \/ Request \/ ResponseStart
            \/ (\E m \in Replies : ResponseAtOnce(m))
            \/ SteeringPoll \/ FollowUpPoll \/ AgentEnd
  BY <1>0, <1>14, <1>g DEF AnnouncePrompt, InitialSteeringPoll,
     InjectPending, Request, Requesting, ResponseStart, ResponseAtOnce,
     SteeringPoll, FollowUpPoll, AgentEnd, MessageStart, AgentEndEvent
<1>15. CASE \/ Steer \/ FollowUp \/ ClearSteeringQueue \/ ClearFollowUpQueue
            \/ Abort \/ (\E id \in stragglers : StragglerEnds(id))
            \/ UNCHANGED vars
  BY <1>0, <1>15, <1>g DEF Steer, FollowUp, ClearSteeringQueue,
     ClearFollowUpQueue, Abort, StragglerEnds
<1> QED
  BY <1>1, <1>3, <1>4, <1>5, <1>6, <1>7, <1>8, <1>9, <1>10, <1>11, <1>12,
     <1>13, <1>14, <1>15 DEF Next, RunStep, LoopStep, Operation

\* Unless it has been aborted, a run asks the model again only when every call
\* of every reply of the run has its result in the transcript, whatever has
\* been queued meanwhile.
THEOREM CallsAreNotSkipped == Spec => []NoCallIsSkipped
<1>1. Init => Placed /\ Answered /\ ResultsFollowTheirReply
  BY DEF Init, Placed, Answered, BatchPC, ResultsFollowTheirReply
<1>2. /\ TypeOK /\ Control /\ Placed /\ ResultsFollowTheirReply /\ Answered
      /\ [Next]_vars
      => (Placed /\ ResultsFollowTheirReply /\ Answered)'
  BY PlacedPreserved, AnsweredPreserved
<1>3. Answered => NoCallIsSkipped
  BY DEF Answered, ThrownPC, BatchPC, NoCallIsSkipped, Requesting, Complete
<1> QED BY <1>1, <1>2, <1>3, TypeCorrect, PTL DEF Spec

-----------------------------------------------------------------------------
(* What a run has injected gets an answer *)

\* The points at which the last word may be a user's: a run that asks, a
\* failing run that has not announced its message, and no run.
AskingPC == {"prompt", "promptEnd", "turn", "pendingEnd", "response",
             "streaming", "replyEnd", "failStart", "failEnd", "idle"}

\* Was the failing run's own message cut off while it was announced?
CutOff == pc = "failed" /\ streamingMessage # NoMessage

\* Everywhere else the model, a tool or the failure has had the last word.
LastWord ==
    pc \notin AskingPC /\ ~CutOff /\ messages # << >> =>
      messages[Len(messages)].role \in {"assistant", "toolResult"}

\* The last message of a transcript that has grown.
LEMMA LastAppended ==
    ASSUME TypeOK, NEW m \in Message, messages' = Append(messages, m)
    PROVE  messages'[Len(messages')] = m
<1>1. messages \in Seq(Message)
  BY DEF TypeOK, MessageTypes
<1> QED BY <1>1, AppendKeeps

\* A message that is announced is one.
LEMMA NoMessageIsNone == NoMessage \notin AssistantMessage
BY DEF NoMessage, AssistantMessage

\* What a failing run is announcing when its listener rejects again.
Announcing == pc = "failEnd" /\ messages # << >> => streamingMessage # NoMessage

\* It is inductive.
LEMMA LastWordPreserved ==
    ASSUME TypeOK, Control, LastWord, Announcing, [Next]_vars
    PROVE  LastWord' /\ Announcing'
<1> USE DEF LastWord, Announcing, AskingPC, CutOff, vars, agentVars,
      queueVars, runVars, loopVars, batchVars, historyVars, Emit
<1>1. LastWord /\ Announcing /\ BatchTypes
  BY DEF TypeOK
<1>a. /\ \A m \in AssistantMessage : m \in Message /\ m.role = "assistant"
      /\ \A m \in ToolResult : m \in Message /\ m.role = "toolResult"
  BY MessageKinds DEF AssistantMessage, ToolResult
<1>b. Replies \subseteq AssistantMessage
  BY <1>1, RepliesTyped
<1>c. pc \in {"replyEnd", "failStart", "failEnd"} => reply \in AssistantMessage
  BY DEF Control, ReplyPC
<1>d. pc = "resultEnd" => Result(reply.turn, nextResult) \in ToolResult
  <2> SUFFICES ASSUME pc = "resultEnd"
               PROVE  Result(reply.turn, nextResult) \in ToolResult
    OBVIOUS
  <2>1. reply.turn \in Nat /\ nextResult \in 1..call /\ call \in Call
    BY <1>1, BatchFacts DEF BatchPC
  <2>2. nextResult \in Call
    BY <2>1, AgentAssumption DEF Call, AgentAssumption
  <2> QED BY <2>1, <2>2, BuiltMessages
<1>2. CASE PromptAnnounced \/ PendingInjected
  BY <1>1, <1>2 DEF PromptAnnounced, PendingInjected, MessageEnd
<1>3. ASSUME NEW m \in Replies, ResponseEnd(m) PROVE LastWord' /\ Announcing'
  <2>1. messages'[Len(messages')] = m
    BY <1>3, <1>a, <1>b, LastAppended DEF ResponseEnd, MessageEnd
  <2> QED BY <1>1, <1>3, <1>a, <1>b, <2>1 DEF ResponseEnd, MessageEnd
<1>4. CASE ReplyEnd
  <2>1. messages'[Len(messages')] = reply
    BY <1>4, <1>a, <1>c, LastAppended DEF ReplyEnd, MessageEnd
  <2> QED BY <1>1, <1>4, <1>a, <1>c, <2>1 DEF ReplyEnd, MessageEnd
<1>5. CASE ResultEnd
  <2>1. messages'[Len(messages')] = Result(reply.turn, nextResult)
    BY <1>5, <1>a, <1>d, LastAppended DEF ResultEnd, MessageEnd
  <2> QED BY <1>1, <1>5, <1>a, <1>d, <2>1 DEF ResultEnd, MessageEnd
<1>6. CASE \/ AnnouncePrompt \/ InjectPending \/ ResponseStart
           \/ (\E m \in Replies : ResponseAtOnce(m))
  BY <1>1, <1>6 DEF AnnouncePrompt, InjectPending, ResponseStart,
     ResponseAtOnce, MessageStart
<1>7. CASE InitialSteeringPoll \/ Request
  BY <1>1, <1>7 DEF InitialSteeringPoll, Request, Requesting
<1>8. CASE \/ ReplyFailed \/ ReplyWithoutCalls
           \/ (\E mode \in {"sequential", "parallel"} : ReplyWithCalls(mode))
  BY <1>1, <1>8 DEF ReplyFailed, ReplyWithoutCalls, ReplyWithCalls, TakeReply,
     TurnEnd, ToolExecutionStart
<1>9. CASE \/ PrepareImmediate \/ NextCall \/ ResultStart
           \/ (\E c \in Call, terminate \in BOOLEAN : ToolEnds(c, terminate))
  BY <1>1, <1>9 DEF PrepareImmediate, NextCall, ToolEnds, ResultStart,
     ToolExecutionStart, ToolExecutionEnd, MessageStart
<1>10. CASE PrepareAllowed \/ ExecutePrepared
  BY <1>1, <1>10 DEF PrepareAllowed, ExecutePrepared
<1>11. CASE FinishBatch \/ AgentEnd
  BY <1>1, <1>11 DEF FinishBatch, AgentEnd, TurnEnd, AgentEndEvent
<1>12. CASE SteeringPoll \/ FollowUpPoll
  BY <1>1, <1>12 DEF SteeringPoll, FollowUpPoll
<1>13. CASE FinishRun
  BY <1>1, <1>13 DEF FinishRun
<1>14. CASE \/ RunThrows
            \/ (\E c \in Call : ToolEndThrows(c) \/ ToolUpdateThrows(c))
  BY <1>1, <1>14 DEF RunThrows, ToolEndThrows, ToolUpdateThrows, CallThrows,
     Fail
<1>15. CASE FailStart
  BY <1>1, <1>15, <1>c, NoMessageIsNone DEF FailStart, MessageStart
<1>16. CASE FailEnd
  <2>1. messages'[Len(messages')] = reply
    BY <1>16, <1>a, <1>c, LastAppended DEF FailEnd, MessageEnd
  <2> QED BY <1>1, <1>16, <1>a, <1>c, <2>1 DEF FailEnd, MessageEnd
<1>17. CASE FailTurnEnd \/ FailAgentEnd
  BY <1>1, <1>17 DEF FailTurnEnd, FailAgentEnd, TurnEnd, AgentEndEvent
<1>18. CASE FailureThrows
  BY <1>1, <1>18 DEF FailureThrows
<1>19. CASE \/ Prompt \/ ContinueTranscript
            \/ ContinueWithSteering \/ ContinueWithFollowUps
  BY <1>1, <1>19 DEF Prompt, ContinueTranscript, ContinueWithSteering,
     ContinueWithFollowUps, BeginRun
<1>20. CASE \/ Steer \/ FollowUp \/ ClearSteeringQueue \/ ClearFollowUpQueue
            \/ Abort \/ Reset \/ (\E id \in stragglers : StragglerEnds(id))
            \/ UNCHANGED vars
  BY <1>1, <1>20 DEF Steer, FollowUp, ClearSteeringQueue,
     ClearFollowUpQueue, Abort, Reset, StragglerEnds
<1> QED
  BY <1>1, <1>2, <1>3, <1>4, <1>5, <1>6, <1>7, <1>8, <1>9, <1>10, <1>11,
     <1>12, <1>13, <1>14, <1>15, <1>16, <1>17, <1>18, <1>19, <1>20
     DEF Next, RunStep, LoopStep, Operation

\* A run ends with finishRun, and an active run is somewhere.
LEMMA OnlyFinishRunEnds ==
    ASSUME Control, [Next]_vars, activeRun, ~activeRun'
    PROVE  pc \in {"settle", "failed"}
<1> USE DEF vars, agentVars, queueVars, runVars, loopVars, batchVars,
      historyVars
<1>1. CASE FinishRun
  BY <1>1 DEF FinishRun
<1>2. CASE LoopStep
  BY <1>2 DEF LoopStep, AnnouncePrompt, PromptAnnounced, InitialSteeringPoll,
     InjectPending, PendingInjected, Request, Requesting, ResponseStart,
     ResponseEnd, ResponseAtOnce, ReplyEnd, ReplyFailed, ReplyWithoutCalls,
     ReplyWithCalls, TakeReply, PrepareImmediate, PrepareAllowed, NextCall,
     ExecutePrepared, ToolEnds, ResultStart, ResultEnd, FinishBatch,
     SteeringPoll, FollowUpPoll, AgentEnd
<1>3. CASE RunStep /\ ~LoopStep /\ ~FinishRun
  BY <1>3 DEF RunStep, RunThrows, Fail, ToolEndThrows, ToolUpdateThrows,
     CallThrows, FailStart, FailEnd, FailTurnEnd, FailAgentEnd, FailureThrows
<1>4. CASE Operation
  BY <1>4 DEF Operation, Prompt, ContinueTranscript, ContinueWithSteering,
     ContinueWithFollowUps, BeginRun, Steer, FollowUp, ClearSteeringQueue,
     ClearFollowUpQueue, Abort, Reset
<1>5. CASE (\E id \in stragglers : StragglerEnds(id)) \/ UNCHANGED vars
  BY <1>5 DEF StragglerEnds
<1> QED BY <1>1, <1>2, <1>3, <1>4, <1>5 DEF Next, RunStep

\* What has been injected has been put to the model, or answered by a failure,
\* when a run ends: the transcript does not end with a user message, unless
\* the announcement of the failure itself was cut off.
THEOREM InjectedMessagesGetAnswers == Spec => InjectedMessagesAreAnswered
<1>1. Init => LastWord /\ Announcing
  BY DEF Init, LastWord, Announcing, AskingPC
<1>2. TypeOK /\ Control /\ LastWord /\ Announcing /\ [Next]_vars
        => (LastWord /\ Announcing)'
  BY LastWordPreserved
<1>3. TypeOK /\ Control /\ LastWord /\ [Next]_vars
        => [activeRun /\ ~activeRun' /\ messages # << >> =>
              \/ messages[Len(messages)].role \in {"assistant", "toolResult"}
              \/ pc = "failed" /\ streamingMessage # NoMessage]_vars
  BY OnlyFinishRunEnds DEF LastWord, AskingPC, CutOff
<1> QED BY <1>1, <1>2, <1>3, TypeCorrect, PTL
        DEF Spec, InjectedMessagesAreAnswered

==============================================================================
