------------------------- MODULE AgentSessionProofs -------------------------
(***************************************************************************)
(* Theorems about AgentSession, for any number of callers, messages,       *)
(* replies, retries and compactions: its types, the queues it shows, and   *)
(* the messages it accepts.  AgentSessionContextProofs goes on to the      *)
(* model's context and the reload.                                         *)
(***************************************************************************)
EXTENDS AgentSession, SubsequencesProofs

-----------------------------------------------------------------------------
(* Lemmas about messages, the session's entries and the queues *)

CompactionEntry == [kind : {"compaction"}, keep : Nat \ {0}, after : Nat]

\* The kinds tell the entries apart.
LEMMA Kinds ==
  /\ \A m \in Message : m.kind \in {"user", "bash", "assistant", "result"}
  /\ \A m \in Message : m.kind = "user" <=> m \in UserMessage
  /\ \A m \in Message : IsReply(m) <=> m \in AssistantMessage
  /\ \A m \in Message : m.kind = "bash" <=> m \in BashMessage
  /\ \A m \in Message : m.kind = "result" <=> m \in ToolResult
  /\ \A e \in Entry : e.kind = "compaction" <=> e \in CompactionEntry
  /\ \A e \in Entry : e.kind # "compaction" <=> e \in Message
  /\ Summary.kind = "summary" /\ Summary \notin Message
BY SMTT(30) DEF Message, UserMessage, BashMessage, AssistantMessage,
  ToolResult, Entry,
   CompactionEntry, IsReply, Summary

\* Messages are entries, and are shown, alone and in sequences.
LEMMA Subtypes ==
  /\ UserMessage \subseteq Message /\ BashMessage \subseteq Message
  /\ AssistantMessage \subseteq Message /\ ToolResult \subseteq Message
  /\ Message \subseteq Entry /\ Message \subseteq Shown /\ Summary \in Shown
  /\ Seq(UserMessage) \subseteq Seq(Message)
  /\ Seq(BashMessage) \subseteq Seq(Message)
  /\ Seq(Message) \subseteq Seq(Entry) /\ Seq(Message) \subseteq Seq(Shown)
<1>1. /\ UserMessage \subseteq Message /\ BashMessage \subseteq Message
      /\ AssistantMessage \subseteq Message /\ ToolResult \subseteq Message
  BY DEF Message
<1>2. Message \subseteq Entry /\ Message \subseteq Shown /\ Summary \in Shown
  BY DEF Entry, Shown
<1> QED
  BY <1>1, <1>2, SeqMonotonic

\* The operators that build messages build messages of their kind.
LEMMA BuiltMessages ==
  /\ \A id \in UserId, via \in {"prompt", "steer", "followUp"} :
       User(id, via) \in UserMessage
  /\ \A id \in 1..MaxBashMessages : Bash(id) \in BashMessage
  /\ \A n \in Nat, stop \in Stop : Reply(n, stop) \in AssistantMessage
  /\ \A n \in Nat : Result(n) \in ToolResult
  /\ \A keep \in Nat \ {0}, n \in Nat :
       Compaction(keep, n) \in CompactionEntry /\ Compaction(keep, n) \in Entry
BY DEF User, Bash, Reply, Result, Compaction, UserMessage, BashMessage,
   AssistantMessage, ToolResult, CompactionEntry, Entry

\* Where an entry of some kinds stands.
LEMMA PositionsAre ==
  ASSUME NEW T, NEW s \in Seq(T), NEW kinds
  PROVE  /\ Positions(s, kinds) \in SUBSET (1..Len(s))
         /\ Positions(s, kinds) # {} =>
              /\ Max(Positions(s, kinds)) \in 1..Len(s)
              /\ s[Max(Positions(s, kinds))] \in T
              /\ s[Max(Positions(s, kinds))].kind \in kinds
<1>1. Positions(s, kinds) \in SUBSET (1..Len(s)) /\ Len(s) \in Nat
  BY LenProperties DEF Positions
<1>2. ASSUME Positions(s, kinds) # {}
      PROVE  Max(Positions(s, kinds)) \in Positions(s, kinds)
  BY <1>1, <1>2, MaxIsOne
<1> QED
  BY <1>1, <1>2, ElementOfSeq DEF Positions

\* The last element, and the sequence without it.
LEMMA FrontIs ==
  ASSUME NEW T, NEW s \in Seq(T)
  PROVE  /\ Front(s) \in Seq(T)
         /\ s # << >> =>
              /\ Last(s) \in T /\ Len(Front(s)) = Len(s) - 1
              /\ \A i \in 1..(Len(s) - 1) : Front(s)[i] = s[i]
<1> DEFINE n == Len(s) - 1
<1>1. n \in Int /\ \A i \in 1..n : s[i] \in T
  BY LenProperties, ElementOfSeq
<1>2. s # << >> => n \in Nat /\ Len(s) = n + 1 /\ Len(s) \in 1..Len(s)
  BY EmptySeq
<1> HIDE DEF n
<1>3. /\ SubSeq(s, 1, n) \in Seq(T)
      /\ s # << >> => Len(SubSeq(s, 1, n)) = n
      /\ \A i \in 1..n : SubSeq(s, 1, n)[i] = s[i]
  <2>1. /\ SubSeq(s, 1, n) \in Seq(T)
        /\ Len(SubSeq(s, 1, n)) = IF 1 <= n THEN n - 1 + 1 ELSE 0
        /\ \A i \in 1..(n - 1 + 1) : SubSeq(s, 1, n)[i] = s[1 + i - 1]
    BY <1>1, SubSeqProperties
  <2> QED
    BY <1>1, <1>2, <2>1
<1> QED
  BY <1>1, <1>2, <1>3, ElementOfSeq DEF Last, Front, n

\* The last compaction of a session, and what is kept from there on.
LastCompaction(entries) == Max(Positions(entries, {"compaction"}))
Kept(entries) == SubSeq(entries, entries[LastCompaction(entries)].keep,
                        LastCompaction(entries) - 1)
Later(entries) == SubSeq(entries, LastCompaction(entries) + 1, Len(entries))

\* The parts of a compacted session have their types.
LEMMA PartsTyped ==
  ASSUME NEW entries \in Seq(Entry), Positions(entries, {"compaction"}) # {}
  PROVE  /\ LastCompaction(entries) \in 1..Len(entries)
         /\ entries[LastCompaction(entries)] \in CompactionEntry
         /\ Kept(entries) \in Seq(Entry) /\ Later(entries) \in Seq(Message)
<1> DEFINE c == LastCompaction(entries)
<1>1. c \in 1..Len(entries) /\ entries[c] \in CompactionEntry
  BY PositionsAre, Kinds DEF LastCompaction
<1>2. entries[c].keep \in Nat \ {0} /\ Len(entries) \in Nat
  BY <1>1 DEF CompactionEntry
<1> HIDE DEF c
<1>3. Kept(entries) \in Seq(Entry)
  <2>1. \A i \in (entries[c].keep)..(c - 1) : i \in 1..Len(entries)
    BY <1>1, <1>2
  <2>2. \A i \in (entries[c].keep)..(c - 1) : entries[i] \in Entry
    BY <2>1, ElementOfSeq
  <2>3. c - 1 \in Int /\ entries[c].keep \in Int
    BY <1>1, <1>2
  <2>4. SubSeq(entries, entries[c].keep, c - 1) \in Seq(Entry)
    BY <2>2, <2>3, SubSeqProperties
  <2> QED
    BY <2>4 DEF Kept, c
<1>4. Later(entries) \in Seq(Message)
  <2>1. ASSUME NEW i \in (c + 1)..Len(entries) PROVE entries[i] \in Message
    <3>1. i \in 1..Len(entries) /\ c < i
      BY <1>1
    <3>2. entries[i] \in Entry
      BY <3>1, ElementOfSeq
    <3>3. ASSUME entries[i].kind = "compaction" PROVE FALSE
      <4> DEFINE S == Positions(entries, {"compaction"})
      <4>1. S \in SUBSET Nat /\ i \in S /\ S # {}
              /\ S \in SUBSET (1..Len(entries))
        BY <3>1, <3>3 DEF Positions
      <4> HIDE DEF S
      <4>2. \A s \in S : s <= Max(S)
        BY <4>1, <1>2, MaxIsOne
      <4> QED
        BY <4>1, <4>2, <3>1, <1>1, <1>2 DEF c, LastCompaction, S
    <3> QED
      BY <3>2, <3>3, Kinds
  <2>2. c + 1 \in Int /\ Len(entries) \in Int
    BY <1>1, <1>2
  <2>3. SubSeq(entries, c + 1, Len(entries)) \in Seq(Message)
    BY <2>1, <2>2, SubSeqProperties
  <2> QED
    BY <2>3 DEF Later, c
<1> QED
  BY <1>1, <1>3, <1>4 DEF c

\* buildSessionContext: what the model is shown.
LEMMA ContextIs ==
  ASSUME NEW entries \in Seq(Entry)
  PROVE  /\ Positions(entries, {"compaction"}) = {} =>
              /\ entries \in Seq(Message)
              /\ BuildSessionContext(entries) = entries
         /\ Positions(entries, {"compaction"}) # {} =>
              /\ BuildSessionContext(entries)
                   = << Summary >> \o Messages(Kept(entries)) \o Later(entries)
              /\ Messages(Kept(entries)) \in Seq(Message)
         /\ BuildSessionContext(entries) \in Seq(Shown)
<1>1. CASE Positions(entries, {"compaction"}) = {}
  <2>1. ASSUME NEW i \in 1..Len(entries) PROVE entries[i] \in Message
    <3>1. entries[i] \in Entry /\ entries[i].kind # "compaction"
      BY <1>1, ElementOfSeq DEF Positions
    <3> QED
      BY <3>1, Kinds
  <2>2. entries \in Seq(Message)
    <3>1. Len(entries) \in Nat /\ entries \in [1..Len(entries) -> Entry]
      BY LenProperties
    <3>2. entries \in [1..Len(entries) -> Message]
      BY <3>1, <2>1
    <3> QED
      BY <3>1, <3>2, SeqDef
  <2> QED
    BY <1>1, <2>2, Subtypes DEF BuildSessionContext
<1>2. CASE Positions(entries, {"compaction"}) # {}
  <2>1. Messages(Kept(entries)) \in Seq(Message)
          /\ Later(entries) \in Seq(Message)
    BY <1>2, PartsTyped, OnlyType DEF Messages
  <2>2. BuildSessionContext(entries)
          = << Summary >> \o Messages(Kept(entries)) \o Later(entries)
    BY <1>2 DEF BuildSessionContext, Kept, Later, LastCompaction
  <2>3. /\ << Summary >> \in Seq(Shown)
        /\ Messages(Kept(entries)) \in Seq(Shown)
        /\ Later(entries) \in Seq(Shown)
    BY <2>1, Subtypes
  <2> HIDE DEF Shown
  <2>4. << Summary >> \o Messages(Kept(entries)) \o Later(entries)
          \in Seq(Shown)
    BY <2>3, ConcatProperties
  <2> QED
    BY <1>2, <2>1, <2>2, <2>4
<1> QED
  BY <1>1, <1>2

\* prepareCompaction: what is kept starts at an entry.
LEMMA CutPointsAre ==
  ASSUME NEW entries \in Seq(Entry)
  PROVE  CutPoints(entries) \in SUBSET (Nat \ {0})
<1> DEFINE compactions == Positions(entries, {"compaction"})
           start == IF compactions = {} THEN 1
                                        ELSE entries[Max(compactions)].keep
<1>1. start \in Nat \ {0}
  <2>1. compactions # {} => entries[Max(compactions)] \in CompactionEntry
    BY PositionsAre, Kinds
  <2> QED
    BY <2>1 DEF CompactionEntry
<1>2. Positions(entries, {"user", "assistant", "bash"}) \in SUBSET (Nat \ {0})
  BY PositionsAre
<1> QED
  BY <1>1, <1>2 DEF CutPoints

\* appendCompaction appends a compaction.
LEMMA AppendCompactionIs ==
  ASSUME NEW seen \in 0..Len(log), log \in Seq(Entry), replies \in Nat,
         AppendCompaction(seen)
  PROVE  /\ \E c \in CompactionEntry : log' = Append(log, c)
         /\ log' \in Seq(Entry) /\ Len(log') = Len(log) + 1
<1>1. SubSeq(log, 1, seen) \in Seq(Entry)
  <2>1. Len(log) \in Nat /\ \A i \in 1..seen : log[i] \in Entry
    BY LenProperties, ElementOfSeq
  <2> QED
    BY <2>1, SubSeqProperties
<1>2. PICK keep \in CutPoints(SubSeq(log, 1, seen)), n \in Nat :
        log' = Append(log, Compaction(keep, n))
  BY DEF AppendCompaction
<1>3. keep \in Nat \ {0}
  BY <1>1, CutPointsAre
<1>4. Compaction(keep, n) \in CompactionEntry /\ Compaction(keep, n) \in Entry
  BY <1>2, <1>3, BuiltMessages
<1> QED
  BY <1>2, <1>4, AppendProperties

\* drain() and enqueue() deal in messages of the queue only.
LEMMA QueuesAre ==
  ASSUME NEW T, NEW queue \in Seq(T)
  PROVE  /\ \A mode : /\ Drained(queue, mode) \in Seq(T)
                      /\ Remaining(queue, mode) \in Seq(T)
                      /\ Drained(queue, mode) \o Remaining(queue, mode) = queue
         /\ \A m \in T : Enqueue(queue, m) \in Seq(T)
<1>1. \A mode : /\ Drained(queue, mode) \in Seq(T)
                /\ Remaining(queue, mode) \in Seq(T)
  BY DEF Drained, Remaining
<1>2. ASSUME NEW mode
      PROVE  Drained(queue, mode) \o Remaining(queue, mode) = queue
  <2>1. CASE mode = "all" \/ queue = << >>
    BY <2>1 DEF Drained, Remaining
  <2>2. CASE ~(mode = "all" \/ queue = << >>)
    <3>1. << Head(queue) >> \o Tail(queue) = queue
      BY <2>2
    <3> QED
      BY <2>2, <3>1 DEF Drained, Remaining
  <2> QED
    BY <2>1, <2>2
<1> QED
  BY <1>1, <1>2 DEF Enqueue

-----------------------------------------------------------------------------
(* The types of the variables *)

\* What the control variables say about a call of prompt(), ...
CallOK(p) ==
    /\ pc[p] = "run" <=> owner = p
    /\ pc[p] = "idle" => phase[p] = "main"
    /\ pc[p] = "starting" => phase[p] # "main"
    /\ phase[p] = "before" => pc[p] \in {"starting", "check", "compact"}
    /\ phase[p] # "main" => sending[p] \in UserId
    /\ retryController = p => pc[p] = "sleep"
    /\ pc[p] \in {"sleep", "check", "compact"} => msg[p] # NoMessage

\* ... and about the run: it holds messages only where it announces them.
RunOK ==
    /\ runPc = "none" <=> owner = NoOne
    /\ aborted => owner # NoOne
    /\ held # << >> =>
         \/ runPc \in {"prompts", "turn"}
         \/ runPc = "save" /\ afterSave \in {"prompts", "turn"}

Control == RunOK /\ \A p \in Prompters : CallOK(p)

\* The values that the steps give to the variables have their types.
LEMMA ValuesAre ==
  ASSUME TypeOK, Control
  PROVE  /\ \A m \in Message : /\ Append(transcript, m) \in Seq(Shown)
                               /\ Append(log, m) \in Seq(Entry)
                               /\ Len(Append(log, m)) = Len(log) + 1
         /\ Len(log) \in Nat
         /\ held # << >> => /\ Head(held) \in UserMessage
                            /\ Head(held) \in Message
                            /\ Tail(held) \in Seq(UserMessage)
         /\ \A stop \in Replies : /\ Reply(replies + 1, stop) \in Message
                                  /\ Reply(replies + 1, stop).kind = "assistant"
         /\ Result(replies) \in Message
         /\ runPc = "save" => unsaved \in Message
         /\ WithoutLastReply(transcript) \in Seq(Shown)
         /\ transcript \o pendingBash \in Seq(Shown)
         /\ log \o pendingBash \in Seq(Entry)
         /\ Len(log \o pendingBash) >= Len(log)
         /\ Len(log \o pendingBash) \in Nat
         /\ nextBash <= MaxBashMessages => Bash(nextBash) \in BashMessage
         /\ nextId \in UserId => /\ User(nextId, "steer") \in UserMessage
                                 /\ User(nextId, "followUp") \in UserMessage
         /\ \A p \in Prompters : pc[p] = "starting" =>
              /\ sending[p] \in UserId
              /\ << User(sending[p], "prompt") >> \in Seq(UserMessage)
<1> USE DEF TypeOK
<1>1. ASSUME NEW m \in Message
      PROVE  /\ Append(transcript, m) \in Seq(Shown)
             /\ Append(log, m) \in Seq(Entry)
             /\ Len(Append(log, m)) = Len(log) + 1
  BY Subtypes, AppendProperties DEF FileTypes
<1>2. Len(log) \in Nat
  BY LenProperties DEF FileTypes
<1>3. held # << >> => /\ Head(held) \in UserMessage
                      /\ Head(held) \in Message
                      /\ Tail(held) \in Seq(UserMessage)
  BY Subtypes, HeadTailProperties DEF QueueTypes
<1>4. ASSUME NEW stop \in Replies
      PROVE  /\ Reply(replies + 1, stop) \in Message
             /\ Reply(replies + 1, stop).kind = "assistant"
  <2>1. stop \in Stop /\ replies + 1 \in Nat
    BY AgentSessionAssumption
       DEF HistoryTypes, Replies, Stop, AgentSessionAssumption
  <2>2. Reply(replies + 1, stop) \in AssistantMessage
    BY <2>1, BuiltMessages
  <2> QED
    BY <2>2, Subtypes DEF AssistantMessage
<1>5. Result(replies) \in Message
  BY BuiltMessages, Subtypes DEF HistoryTypes
<1>6. runPc = "save" => unsaved \in Message
  BY DEF RunTypes
<1>7. WithoutLastReply(transcript) \in Seq(Shown)
  BY FrontIs DEF WithoutLastReply, FileTypes
<1>8. transcript \o pendingBash \in Seq(Shown)
  BY Subtypes, ConcatProperties DEF FileTypes
<1>9. /\ log \o pendingBash \in Seq(Entry)
      /\ Len(log \o pendingBash) >= Len(log)
      /\ Len(log \o pendingBash) \in Nat
  <2>1. log \in Seq(Entry) /\ pendingBash \in Seq(Entry)
    BY Subtypes DEF FileTypes
  <2>2. Len(log) \in Nat /\ Len(pendingBash) \in Nat
    BY <2>1, LenProperties
  <2>3. /\ log \o pendingBash \in Seq(Entry)
        /\ Len(log \o pendingBash) = Len(log) + Len(pendingBash)
    BY <2>1, ConcatProperties
  <2> QED
    BY <2>2, <2>3
<1>10. nextBash <= MaxBashMessages => Bash(nextBash) \in BashMessage
  BY AgentSessionAssumption, BuiltMessages
     DEF HistoryTypes, AgentSessionAssumption
<1>11. nextId \in UserId => /\ User(nextId, "steer") \in UserMessage
                            /\ User(nextId, "followUp") \in UserMessage
  BY BuiltMessages
<1>12. ASSUME NEW p \in Prompters, pc[p] = "starting"
       PROVE  /\ sending[p] \in UserId
              /\ << User(sending[p], "prompt") >> \in Seq(UserMessage)
  <2>1. sending[p] \in UserId
    BY <1>12 DEF Control, CallOK
  <2>2. User(sending[p], "prompt") \in UserMessage
    BY <2>1, BuiltMessages
  <2> QED
    BY <2>1, <2>2
<1> QED
  BY <1>1, <1>2, <1>3, <1>4, <1>5, <1>6, <1>7, <1>8, <1>9, <1>10, <1>11, <1>12

\* The session, the transcript and the bash messages that wait.
LEMMA FileTypesPreserved ==
  ASSUME TypeOK, Control, [Next]_vars PROVE FileTypes'
<1> USE DEF vars, fileVars, agentQueues, shownQueues, runVars, retryVars,
      replyVars, callVars, manualVars, historyVars
<1> USE DEF FileTypes
<1>0. FileTypes /\ << >> \in Seq(BashMessage)
  BY DEF TypeOK
<1>v. TypeOK /\ Control
  OBVIOUS
<1>1. CASE Announce
  BY <1>0, <1>1, <1>v, ValuesAre DEF Announce, Push, connected, Without
<1>2. ASSUME NEW stop \in Replies, ModelReplies(stop) PROVE FileTypes'
  BY <1>0, <1>2, <1>v, ValuesAre DEF ModelReplies, Push, connected
<1>3. CASE ToolEnds
  BY <1>0, <1>3, <1>v, ValuesAre DEF ToolEnds, Push, connected
<1>4. CASE Save
  BY <1>0, <1>4, <1>v, ValuesAre DEF Save
<1>5. ASSUME NEW p \in Prompters, PrepareRetry(p) PROVE FileTypes'
  BY <1>0, <1>5, <1>v, ValuesAre DEF PrepareRetry, Goto
<1>6. ASSUME NEW p \in Prompters, RecoverFromOverflow(p) PROVE FileTypes'
  BY <1>0, <1>6, <1>v, ValuesAre DEF RecoverFromOverflow, StartCompaction, Goto
<1>7. ASSUME NEW p \in Prompters, CompactionSucceeds(p) PROVE FileTypes'
  <2>1. compaction[p].seen \in 0..Len(log) /\ replies \in Nat
    BY DEF TypeOK, CallTypes, HistoryTypes
  <2>2. log' \in Seq(Entry) /\ UNCHANGED pendingBash
    BY <1>0, <1>7, <2>1, AppendCompactionIs
       DEF CompactionSucceeds, EndCompaction
  <2>3. BuildSessionContext(log') \in Seq(Shown)
    BY <2>2, ContextIs
  <2>4. Front(BuildSessionContext(log')) \in Seq(Shown)
    BY <2>3, FrontIs
  <2>5. transcript' \in Seq(Shown)
    BY <1>7, <2>3, <2>4 DEF CompactionSucceeds
  <2> QED
    BY <1>0, <2>2, <2>5
<1>8. ASSUME NEW p \in Prompters, ContinueThrows(p) PROVE FileTypes'
  BY <1>0, <1>8, <1>v, ValuesAre DEF ContinueThrows, FlushPendingBashMessages,
       Goto
<1>9. ASSUME NEW p \in Prompters, Return(p) PROVE FileTypes'
  BY <1>0, <1>9, <1>v, ValuesAre DEF Return, FlushPendingBashMessages, Goto
<1>10. ASSUME NEW p \in Prompters, Send(p) PROVE FileTypes'
  BY <1>0, <1>10, <1>v, ValuesAre DEF Send, FlushPendingBashMessages, BeginRun,
       Goto
<1>11. CASE CompactSucceeds
  <2>1. byHand.seen \in 0..Len(log) /\ replies \in Nat
    BY DEF TypeOK, ManualTypes, HistoryTypes
  <2>2. log' \in Seq(Entry) /\ UNCHANGED pendingBash
    BY <1>0, <1>11, <2>1, AppendCompactionIs
       DEF CompactSucceeds, CompactStep
  <2>3. BuildSessionContext(log') \in Seq(Shown)
    BY <2>2, ContextIs
  <2> QED
    BY <1>0, <1>11, <2>2, <2>3 DEF CompactSucceeds
<1>12. ASSUME NEW p \in Prompters, Prompt(p) PROVE FileTypes'
  BY <1>0, <1>12, <1>v, ValuesAre DEF Prompt, FlushPendingBashMessages, Goto
<1>13. CASE RecordBashResult
  <2>1. /\ nextBash <= MaxBashMessages /\ Bash(nextBash) \in BashMessage
        /\ Bash(nextBash) \in Message
    BY <1>v, <1>13, ValuesAre, Subtypes DEF RecordBashResult
  <2>2. Append(pendingBash, Bash(nextBash)) \in Seq(BashMessage)
    BY <1>0, <2>1, AppendProperties
  <2>3. /\ Append(transcript, Bash(nextBash)) \in Seq(Shown)
        /\ Append(log, Bash(nextBash)) \in Seq(Entry)
    BY <1>v, <2>1, ValuesAre
  <2> QED
    BY <1>0, <1>13, <2>2, <2>3 DEF RecordBashResult
<1>14. CASE \/ PollSteering \/ PollFollowUps \/ RunEnds
            \/ (\E p \in Prompters : NoRetry(p))
            \/ (\E p \in Prompters : NothingHeard(p))
            \/ (\E p \in Prompters : SleepEnds(p))
            \/ (\E p \in Prompters : NoCompactionNeeded(p))
            \/ (\E p \in Prompters : CompactAtThreshold(p))
            \/ (\E p \in Prompters : CompactionFails(p))
            \/ (\E p \in Prompters : ContinueTranscript(p))
            \/ (\E p \in Prompters : ContinueWithQueue(p)) \/ PrepareCompact
            \/ CompactFails \/ Steer \/ FollowUp \/ ClearQueue \/ AbortRetry
            \/ Abort \/ Compact
  BY <1>0, <1>14, <1>v, ValuesAre DEF PollSteering, PollFollowUps, RunEnds,
       Goto, Disconnected, NoRetry, NothingHeard, SleepEnds, NoCompactionNeeded,
       Proceed, CompactAtThreshold, StartCompaction, CompactionFails,
       EndCompaction, ContinueTranscript, ContinueFrom, BeginRun,
       ContinueWithQueue, PrepareCompact, CompactStep, CompactFails, Steer,
       Accept, FollowUp, ClearQueue, AbortRetry, Abort, Compact, connected
<1>15. CASE UNCHANGED vars
  BY <1>0, <1>15
<1> QED
  BY <1>1, <1>2, <1>3, <1>4, <1>5, <1>6, <1>7, <1>8, <1>9, <1>10, <1>11, <1>12,
       <1>13, <1>14, <1>15 DEF Next, Progress, RunStep, CallStep, Operation

\* The queues, what is shown of them and what a run holds.
LEMMA QueueTypesPreserved ==
  ASSUME TypeOK, Control, [Next]_vars PROVE QueueTypes'
<1> USE DEF vars, fileVars, agentQueues, shownQueues, runVars, retryVars,
      replyVars, callVars, manualVars, historyVars
<1> USE DEF QueueTypes
<1>0. QueueTypes
  BY DEF TypeOK
<1>e. << >> \in Seq(UserMessage) /\ << >> \in Seq(UserId)
  BY EmptySeq
<1>v. TypeOK /\ Control
  OBVIOUS
<1>w. \A id : /\ Without(steeringMessages, id) \in Seq(UserId)
              /\ Without(followUpMessages, id) \in Seq(UserId)
  <2> SUFFICES ASSUME NEW id
               PROVE  /\ Without(steeringMessages, id) \in Seq(UserId)
                      /\ Without(followUpMessages, id) \in Seq(UserId)
    OBVIOUS
  <2>1. /\ Only(steeringMessages, UserId \ {id}) \in Seq(UserId \ {id})
        /\ Only(followUpMessages, UserId \ {id}) \in Seq(UserId \ {id})
    BY <1>0, OnlyType
  <2>2. Seq(UserId \ {id}) \subseteq Seq(UserId)
    BY SeqMonotonic
  <2> QED
    BY <2>1, <2>2 DEF Without
<1>q. ASSUME NEW mode
      PROVE  /\ Drained(steeringQueue, mode) \in Seq(UserMessage)
             /\ Remaining(steeringQueue, mode) \in Seq(UserMessage)
             /\ Drained(followUpQueue, mode) \in Seq(UserMessage)
             /\ Remaining(followUpQueue, mode) \in Seq(UserMessage)
  BY <1>0, QueuesAre
<1>i. nextId \in UserId =>
        /\ Append(steeringMessages, nextId) \in Seq(UserId)
        /\ Append(followUpMessages, nextId) \in Seq(UserId)
        /\ Enqueue(steeringQueue, User(nextId, "steer")) \in Seq(UserMessage)
        /\ Enqueue(followUpQueue, User(nextId, "followUp")) \in Seq(UserMessage)
  BY <1>v, <1>0, ValuesAre, QueuesAre, AppendProperties
<1>1. CASE Announce
  <2>1. Tail(held) \in Seq(UserMessage)
    BY <1>v, <1>1, ValuesAre DEF Announce
  <2> QED
    BY <1>0, <1>1, <2>1, <1>w DEF Announce
<1>2. CASE PollSteering
  BY <1>0, <1>2, <1>q DEF PollSteering
<1>3. CASE PollFollowUps
  BY <1>0, <1>3, <1>q DEF PollFollowUps
<1>4. ASSUME NEW p \in Prompters, ContinueTranscript(p) PROVE QueueTypes'
  BY <1>0, <1>4, <1>e DEF ContinueTranscript, ContinueFrom, BeginRun, Goto
<1>5. ASSUME NEW p \in Prompters, ContinueWithQueue(p) PROVE QueueTypes'
  BY <1>0, <1>5, <1>q DEF ContinueWithQueue, ContinueFrom, BeginRun, Goto
<1>6. ASSUME NEW p \in Prompters, Send(p) PROVE QueueTypes'
  BY <1>0, <1>6, <1>v, ValuesAre DEF Send, FlushPendingBashMessages, BeginRun,
       Goto
<1>7. CASE Steer
  BY <1>0, <1>7, <1>i DEF Steer, Accept
<1>8. CASE FollowUp
  BY <1>0, <1>8, <1>i DEF FollowUp, Accept
<1>9. CASE ClearQueue
  BY <1>0, <1>9, <1>e DEF ClearQueue
<1>10. CASE \/ (\E stop \in Replies : ModelReplies(stop)) \/ ToolEnds \/ Save
            \/ RunEnds \/ (\E p \in Prompters : PrepareRetry(p))
            \/ (\E p \in Prompters : NoRetry(p))
            \/ (\E p \in Prompters : NothingHeard(p))
            \/ (\E p \in Prompters : SleepEnds(p))
            \/ (\E p \in Prompters : NoCompactionNeeded(p))
            \/ (\E p \in Prompters : RecoverFromOverflow(p))
            \/ (\E p \in Prompters : CompactAtThreshold(p))
            \/ (\E p \in Prompters : CompactionSucceeds(p))
            \/ (\E p \in Prompters : CompactionFails(p))
            \/ (\E p \in Prompters : ContinueThrows(p))
            \/ (\E p \in Prompters : Return(p)) \/ PrepareCompact
            \/ CompactSucceeds \/ CompactFails
            \/ (\E p \in Prompters : Prompt(p)) \/ AbortRetry \/ Abort
            \/ RecordBashResult \/ Compact
  BY <1>0, <1>10 DEF ModelReplies, Push, connected, ToolEnds, Save, RunEnds,
       Goto, Disconnected, PrepareRetry, NoRetry, NothingHeard, SleepEnds,
       NoCompactionNeeded, Proceed, RecoverFromOverflow, StartCompaction,
       CompactAtThreshold, CompactionSucceeds, EndCompaction, CompactionFails,
       ContinueThrows, FlushPendingBashMessages, Return, PrepareCompact,
       CompactStep, CompactSucceeds, CompactFails, Prompt, AbortRetry, Abort,
       RecordBashResult, Compact
<1>11. CASE UNCHANGED vars
  BY <1>0, <1>11
<1> QED
  BY <1>1, <1>2, <1>3, <1>4, <1>5, <1>6, <1>7, <1>8, <1>9, <1>10, <1>11 DEF
       Next, Progress, RunStep, CallStep, Operation

\* The run.
LEMMA RunTypesPreserved ==
  ASSUME TypeOK, Control, [Next]_vars PROVE RunTypes'
<1> USE DEF vars, fileVars, agentQueues, shownQueues, runVars, retryVars,
      replyVars, callVars, manualVars, historyVars
<1> USE DEF RunTypes
<1>0. RunTypes
  BY DEF TypeOK
<1>v. TypeOK /\ Control
  OBVIOUS
<1>n. runPc = "none" <=> owner = NoOne
  BY DEF Control, RunOK, isStreaming
<1>b. owner = NoOne => unsaved = NoMessage /\ afterSave = "none"
  BY <1>0, <1>n
<1>c. aborted => isStreaming
  BY DEF Control, RunOK, isStreaming
<1>1. CASE Announce
  BY <1>0, <1>1, <1>v, ValuesAre DEF Announce, Push, connected, Without, RunPC
<1>2. ASSUME NEW stop \in Replies, ModelReplies(stop) PROVE RunTypes'
  BY <1>0, <1>2, <1>v, ValuesAre DEF ModelReplies, Push, connected, RunPC
<1>3. CASE ToolEnds
  BY <1>0, <1>3, <1>v, ValuesAre DEF ToolEnds, Push, connected, RunPC
<1>4. CASE Save
  BY <1>0, <1>4 DEF Save, RunPC
<1>5. CASE PollSteering
  BY <1>0, <1>5 DEF PollSteering, RunPC
<1>6. CASE PollFollowUps
  BY <1>0, <1>6 DEF PollFollowUps, RunPC
<1>7. CASE RunEnds
  BY <1>0, <1>7 DEF RunEnds, Goto, Disconnected, RunPC
<1>8. ASSUME NEW p \in Prompters, ContinueTranscript(p) PROVE RunTypes'
  BY <1>0, <1>8, <1>n, <1>b DEF ContinueTranscript, ContinueFrom, BeginRun,
       Goto, RunPC, isStreaming
<1>9. ASSUME NEW p \in Prompters, ContinueWithQueue(p) PROVE RunTypes'
  BY <1>0, <1>9, <1>n, <1>b DEF ContinueWithQueue, ContinueFrom, BeginRun, Goto,
       RunPC, isStreaming
<1>10. ASSUME NEW p \in Prompters, Send(p) PROVE RunTypes'
  BY <1>0, <1>10, <1>n, <1>b DEF Send, FlushPendingBashMessages, BeginRun, Goto,
       RunPC, isStreaming
<1>11. CASE Abort
  BY <1>0, <1>11 DEF Abort, Goto, isStreaming
<1>12. CASE Compact
  BY <1>0, <1>12 DEF Compact, Goto, connected, Disconnected, isStreaming
<1>13. CASE \/ (\E p \in Prompters : PrepareRetry(p))
            \/ (\E p \in Prompters : NoRetry(p))
            \/ (\E p \in Prompters : NothingHeard(p))
            \/ (\E p \in Prompters : SleepEnds(p))
            \/ (\E p \in Prompters : NoCompactionNeeded(p))
            \/ (\E p \in Prompters : RecoverFromOverflow(p))
            \/ (\E p \in Prompters : CompactAtThreshold(p))
            \/ (\E p \in Prompters : CompactionSucceeds(p))
            \/ (\E p \in Prompters : CompactionFails(p))
            \/ (\E p \in Prompters : ContinueThrows(p))
            \/ (\E p \in Prompters : Return(p)) \/ PrepareCompact
            \/ CompactSucceeds \/ CompactFails
            \/ (\E p \in Prompters : Prompt(p)) \/ Steer \/ FollowUp
            \/ ClearQueue \/ AbortRetry \/ RecordBashResult
  BY <1>0, <1>13 DEF PrepareRetry, Goto, NoRetry, NothingHeard, SleepEnds,
       NoCompactionNeeded, Proceed, RecoverFromOverflow, StartCompaction,
       CompactAtThreshold, CompactionSucceeds, EndCompaction, CompactionFails,
       ContinueThrows, FlushPendingBashMessages, Return, PrepareCompact,
       CompactStep, Disconnected, CompactSucceeds, CompactFails, Prompt, Steer,
       Accept, FollowUp, ClearQueue, AbortRetry, RecordBashResult
<1>14. CASE UNCHANGED vars
  BY <1>0, <1>14
<1> QED
  BY <1>1, <1>2, <1>3, <1>4, <1>5, <1>6, <1>7, <1>8, <1>9, <1>10, <1>11, <1>12,
       <1>13, <1>14 DEF Next, Progress, RunStep, CallStep, Operation

\* The fields of AgentSession.
LEMMA FieldTypesPreserved ==
  ASSUME TypeOK, Control, [Next]_vars PROVE FieldTypes'
<1> USE DEF vars, fileVars, agentQueues, shownQueues, runVars, retryVars,
      replyVars, callVars, manualVars, historyVars
<1> USE DEF FieldTypes
<1>0. FieldTypes /\ MaxRetries \in Nat
  BY AgentSessionAssumption DEF TypeOK, AgentSessionAssumption
<1>r. runPc = "save" /\ IsReply(unsaved) => unsaved \in AssistantMessage
  BY Kinds DEF TypeOK, RunTypes
<1>1. CASE Announce
  BY <1>0, <1>1 DEF Announce, Push, connected, Without
<1>2. CASE Save
  <2>1. retryAttempt' \in 0..MaxRetries /\ UNCHANGED retryController
    BY <1>0, <1>2 DEF Save
  <2>2. overflowRecoveryAttempted' \in BOOLEAN
    <3>1. CASE IsReply(unsaved)
      BY <1>0, <1>2, <3>1, Zenon DEF Save
    <3>2. CASE ~IsReply(unsaved)
      BY <1>0, <1>2, <3>2 DEF Save
    <3> QED
      BY <3>1, <3>2
  <2>3. lastAssistantMessage' \in AssistantMessage \union {NoMessage}
    BY <1>0, <1>2, <1>r DEF Save
  <2> QED
    BY <1>0, <2>1, <2>2, <2>3
<1>3. ASSUME NEW p \in Prompters, PrepareRetry(p) PROVE FieldTypes'
  BY <1>0, <1>3 DEF PrepareRetry, Goto
<1>4. ASSUME NEW p \in Prompters, NoRetry(p) PROVE FieldTypes'
  BY <1>0, <1>4 DEF NoRetry, Goto
<1>5. ASSUME NEW p \in Prompters, SleepEnds(p) PROVE FieldTypes'
  BY <1>0, <1>5 DEF SleepEnds, Goto
<1>6. ASSUME NEW p \in Prompters, RecoverFromOverflow(p) PROVE FieldTypes'
  BY <1>0, <1>6 DEF RecoverFromOverflow, StartCompaction, Goto
<1>7. CASE AbortRetry
  BY <1>0, <1>7 DEF AbortRetry, Goto
<1>8. CASE Abort
  BY <1>0, <1>8 DEF Abort, Goto
<1>9. CASE Compact
  BY <1>0, <1>9 DEF Compact, Goto, connected, Disconnected, isStreaming
<1>10. CASE \/ (\E stop \in Replies : ModelReplies(stop)) \/ ToolEnds
            \/ PollSteering \/ PollFollowUps \/ RunEnds
            \/ (\E p \in Prompters : NothingHeard(p))
            \/ (\E p \in Prompters : NoCompactionNeeded(p))
            \/ (\E p \in Prompters : CompactAtThreshold(p))
            \/ (\E p \in Prompters : CompactionSucceeds(p))
            \/ (\E p \in Prompters : CompactionFails(p))
            \/ (\E p \in Prompters : ContinueTranscript(p))
            \/ (\E p \in Prompters : ContinueWithQueue(p))
            \/ (\E p \in Prompters : ContinueThrows(p))
            \/ (\E p \in Prompters : Return(p))
            \/ (\E p \in Prompters : Send(p)) \/ PrepareCompact
            \/ CompactSucceeds \/ CompactFails
            \/ (\E p \in Prompters : Prompt(p)) \/ Steer \/ FollowUp
            \/ ClearQueue \/ RecordBashResult
  BY <1>0, <1>10 DEF ModelReplies, Push, connected, ToolEnds, PollSteering,
       PollFollowUps, RunEnds, Goto, Disconnected, NothingHeard,
       NoCompactionNeeded, Proceed, CompactAtThreshold, StartCompaction,
       CompactionSucceeds, EndCompaction, CompactionFails, ContinueTranscript,
       ContinueFrom, BeginRun, ContinueWithQueue, ContinueThrows,
       FlushPendingBashMessages, Return, Send, PrepareCompact, CompactStep,
       CompactSucceeds, CompactFails, Prompt, Steer, Accept, FollowUp,
       ClearQueue, RecordBashResult
<1>11. CASE UNCHANGED vars
  BY <1>0, <1>11
<1> QED
  BY <1>1, <1>2, <1>3, <1>4, <1>5, <1>6, <1>7, <1>8, <1>9, <1>10, <1>11 DEF
       Next, Progress, RunStep, CallStep, Operation

\* The session is extended, or stays.
Extended == \E t \in Seq(Entry) : log' = log \o t

\* The session only grows.
LEMMA SessionIsExtended ==
  ASSUME TypeOK, Control, [Next]_vars PROVE Extended
<1> USE DEF vars, fileVars, agentQueues, shownQueues, runVars, retryVars,
      replyVars, callVars, manualVars, historyVars
<1>0. log \in Seq(Entry) /\ pendingBash \in Seq(Entry)
  BY Subtypes, SeqMonotonic DEF TypeOK, FileTypes
<1>v. TypeOK /\ Control
  OBVIOUS
<1>n. UNCHANGED log => Extended
  BY <1>0, ConcatEmptySeq, EmptySeq DEF Extended
<1>a. \A e \in Entry : log' = Append(log, e) => Extended
  <2>1. ASSUME NEW e \in Entry PROVE Append(log, e) = log \o << e >>
    BY <1>0, AppendIsConcat
  <2>2. ASSUME NEW e \in Entry PROVE << e >> \in Seq(Entry)
    OBVIOUS
  <2> QED
    BY <2>1, <2>2 DEF Extended
<1>b. FlushPendingBashMessages => Extended
  BY <1>0 DEF FlushPendingBashMessages, Extended
<1>1. CASE Save
  <2>1. unsaved \in Message /\ Message \subseteq Entry
    BY <1>v, <1>1, ValuesAre, Subtypes DEF Save
  <2> QED
    BY <1>a, <1>1, <2>1 DEF Save
<1>2. ASSUME NEW p \in Prompters, CompactionSucceeds(p) PROVE Extended
  <2>1. compaction[p].seen \in 0..Len(log) /\ replies \in Nat
    BY DEF TypeOK, CallTypes, HistoryTypes
  <2>2. \E c \in CompactionEntry : log' = Append(log, c)
    BY <1>0, <1>2, <2>1, AppendCompactionIs DEF CompactionSucceeds
  <2>3. CompactionEntry \subseteq Entry
    BY DEF CompactionEntry, Entry
  <2> QED
    BY <1>a, <2>2, <2>3
<1>3. ASSUME NEW p \in Prompters, ContinueThrows(p) PROVE Extended
  BY <1>b, <1>3 DEF ContinueThrows
<1>4. ASSUME NEW p \in Prompters, Return(p) PROVE Extended
  BY <1>b, <1>4 DEF Return
<1>5. ASSUME NEW p \in Prompters, Send(p) PROVE Extended
  <2>1. isStreaming => FlushPendingBashMessages
    BY <1>5 DEF Send
  <2>2. ~isStreaming => UNCHANGED log
    BY <1>5 DEF Send
  <2> QED
    BY <1>n, <1>b, <2>1, <2>2
<1>6. CASE CompactSucceeds
  <2>1. byHand.seen \in 0..Len(log) /\ replies \in Nat
    BY DEF TypeOK, ManualTypes, HistoryTypes
  <2>2. \E c \in CompactionEntry : log' = Append(log, c)
    BY <1>0, <1>6, <2>1, AppendCompactionIs DEF CompactSucceeds
  <2>3. CompactionEntry \subseteq Entry
    BY DEF CompactionEntry, Entry
  <2> QED
    BY <1>a, <2>2, <2>3
<1>7. ASSUME NEW p \in Prompters, Prompt(p) PROVE Extended
  BY <1>b, <1>7 DEF Prompt
<1>8. CASE RecordBashResult
  <2>1. CASE isStreaming
    BY <1>n, <1>8, <2>1 DEF RecordBashResult
  <2>2. CASE ~isStreaming
    <3>1. nextBash <= MaxBashMessages /\ log' = Append(log, Bash(nextBash))
      BY <1>8, <2>2 DEF RecordBashResult
    <3>2. Bash(nextBash) \in Entry
      BY <1>v, <3>1, ValuesAre, Subtypes
    <3> QED
      BY <1>a, <3>1, <3>2
  <2> QED
    BY <2>1, <2>2
<1>9. CASE \/ Announce \/ (\E stop \in Replies : ModelReplies(stop))
           \/ ToolEnds \/ PollSteering \/ PollFollowUps \/ RunEnds
           \/ (\E p \in Prompters : PrepareRetry(p))
           \/ (\E p \in Prompters : NoRetry(p))
           \/ (\E p \in Prompters : NothingHeard(p))
           \/ (\E p \in Prompters : SleepEnds(p))
           \/ (\E p \in Prompters : NoCompactionNeeded(p))
           \/ (\E p \in Prompters : RecoverFromOverflow(p))
           \/ (\E p \in Prompters : CompactAtThreshold(p))
           \/ (\E p \in Prompters : CompactionFails(p))
           \/ (\E p \in Prompters : ContinueTranscript(p))
           \/ (\E p \in Prompters : ContinueWithQueue(p)) \/ PrepareCompact
           \/ CompactFails \/ Steer \/ FollowUp \/ ClearQueue \/ AbortRetry
           \/ Abort \/ Compact
  BY <1>n, <1>9 DEF Announce, Push, connected, Without, ModelReplies, ToolEnds,
       PollSteering, PollFollowUps, RunEnds, Goto, Disconnected, PrepareRetry,
       NoRetry, NothingHeard, SleepEnds, NoCompactionNeeded, Proceed,
       RecoverFromOverflow, StartCompaction, CompactAtThreshold,
       CompactionFails, EndCompaction, ContinueTranscript, ContinueFrom,
       BeginRun, ContinueWithQueue, PrepareCompact, CompactStep, CompactFails,
       Steer, Accept, FollowUp, ClearQueue, AbortRetry, Abort, Compact
<1>10. CASE UNCHANGED vars
  BY <1>n, <1>10
<1> QED
  BY <1>1, <1>2, <1>3, <1>4, <1>5, <1>6, <1>7, <1>8, <1>9, <1>10 DEF Next,
       Progress, RunStep, CallStep, Operation

\* What a compaction has seen of the session stays within it.
LEMMA LogGrows ==
  ASSUME TypeOK, Control, [Next]_vars
  PROVE  Len(log') \in Nat /\ Len(log') >= Len(log)
<1>1. PICK t \in Seq(Entry) : log' = log \o t
  BY SessionIsExtended DEF Extended
<1>2. log \in Seq(Entry)
  BY DEF TypeOK, FileTypes
<1> QED
  BY <1>1, <1>2, ConcatProperties, LenProperties

\* What a compaction has seen of the session is there.
SeenTypes ==
  /\ compaction \in [Prompters -> [reason : {"none", "overflow", "threshold"},
                                   seen   : 0..Len(log)]]
  /\ byHand \in [at : {"no", "abort", "prepare", "summary"}, seen : 0..Len(log)]

\* What the compactions have seen.
LEMMA SeenPreserved ==
  ASSUME TypeOK, Control, [Next]_vars PROVE SeenTypes'
<1> USE DEF vars, fileVars, agentQueues, shownQueues, runVars, retryVars,
      replyVars, callVars, manualVars, historyVars
<1> USE DEF SeenTypes
<1>0. /\ SeenTypes /\ Len(log) \in Nat /\ Len(log') \in Nat
      /\ Len(log) <= Len(log')
  BY LogGrows, LenProperties DEF TypeOK, CallTypes, ManualTypes, FileTypes
<1>s. 0..Len(log) \subseteq 0..Len(log') /\ 0 \in 0..Len(log')
      /\ Len(log) \in 0..Len(log')
  BY <1>0
<1>g. /\ compaction
          \in [Prompters -> [reason : {"none", "overflow", "threshold"},
                                       seen   : 0..Len(log')]]
      /\ byHand \in [at : {"no", "abort", "prepare", "summary"},
                     seen : 0..Len(log')]
  BY <1>0, <1>s
<1>1. CASE RunEnds
  BY <1>0, <1>1, <1>s, <1>g DEF RunEnds, Goto, Disconnected
<1>2. ASSUME NEW p \in Prompters, RecoverFromOverflow(p) PROVE SeenTypes'
  BY <1>0, <1>2, <1>s, <1>g DEF RecoverFromOverflow, StartCompaction, Goto
<1>3. ASSUME NEW p \in Prompters, CompactAtThreshold(p) PROVE SeenTypes'
  BY <1>0, <1>3, <1>s, <1>g DEF CompactAtThreshold, StartCompaction, Goto
<1>4. ASSUME NEW p \in Prompters, CompactionSucceeds(p) PROVE SeenTypes'
  BY <1>0, <1>4, <1>s, <1>g DEF CompactionSucceeds, EndCompaction, Proceed,
       Goto, NoCompaction
<1>5. ASSUME NEW p \in Prompters, CompactionFails(p) PROVE SeenTypes'
  BY <1>0, <1>5, <1>s, <1>g DEF CompactionFails, EndCompaction, Proceed, Goto,
       NoCompaction
<1>6. CASE PrepareCompact
  BY <1>0, <1>6, <1>s, <1>g DEF PrepareCompact, CompactStep, Disconnected
<1>7. CASE CompactSucceeds
  BY <1>0, <1>7, <1>s, <1>g DEF CompactSucceeds, CompactStep, Disconnected
<1>8. CASE CompactFails
  BY <1>0, <1>8, <1>s, <1>g DEF CompactFails, CompactStep, Disconnected
<1>9. CASE Compact
  BY <1>0, <1>9, <1>s, <1>g DEF Compact, Goto, connected, Disconnected
<1>10. CASE \/ Announce \/ (\E stop \in Replies : ModelReplies(stop))
            \/ ToolEnds \/ Save \/ PollSteering \/ PollFollowUps
            \/ (\E p \in Prompters : PrepareRetry(p))
            \/ (\E p \in Prompters : NoRetry(p))
            \/ (\E p \in Prompters : NothingHeard(p))
            \/ (\E p \in Prompters : SleepEnds(p))
            \/ (\E p \in Prompters : NoCompactionNeeded(p))
            \/ (\E p \in Prompters : ContinueTranscript(p))
            \/ (\E p \in Prompters : ContinueWithQueue(p))
            \/ (\E p \in Prompters : ContinueThrows(p))
            \/ (\E p \in Prompters : Return(p))
            \/ (\E p \in Prompters : Send(p))
            \/ (\E p \in Prompters : Prompt(p)) \/ Steer \/ FollowUp
            \/ ClearQueue \/ AbortRetry \/ Abort \/ RecordBashResult
  BY <1>0, <1>10, <1>s, <1>g DEF Announce, Push, connected, Without,
       ModelReplies, ToolEnds, Save, PollSteering, PollFollowUps, PrepareRetry,
       Goto, NoRetry, NothingHeard, SleepEnds, NoCompactionNeeded, Proceed,
       ContinueTranscript, ContinueFrom, BeginRun, ContinueWithQueue,
       ContinueThrows, FlushPendingBashMessages, Return, Send, Prompt, Steer,
       Accept, FollowUp, ClearQueue, AbortRetry, Abort, RecordBashResult,
       BeginRun
<1>11. CASE UNCHANGED vars
  BY <1>0, <1>g, <1>11
<1> QED
  BY <1>1, <1>2, <1>3, <1>4, <1>5, <1>6, <1>7, <1>8, <1>9, <1>10, <1>11 DEF
       Next, Progress, RunStep, CallStep, Operation

\* The calls of prompt().
LEMMA CallTypesPreserved ==
  ASSUME TypeOK, Control, [Next]_vars PROVE CallTypes'
<1> USE DEF vars, fileVars, agentQueues, shownQueues, runVars, retryVars,
      replyVars, callVars, manualVars, historyVars
<1> USE DEF CallTypes
<1>0. CallTypes
  BY DEF TypeOK
<1>c. SeenTypes'
  BY SeenPreserved
<1>o. runPc # "none" => owner \in Prompters
  BY DEF TypeOK, RunTypes, Control, RunOK
<1>r. retryController # NoOne => retryController \in Prompters
  BY DEF TypeOK, FieldTypes
<1>m. lastAssistantMessage \in AssistantMessage \union {NoMessage}
  BY DEF TypeOK, FieldTypes
<1>1. CASE RunEnds
  BY <1>0, <1>1, <1>c, <1>o DEF RunEnds, Goto, Disconnected, SeenTypes
<1>2. ASSUME NEW p \in Prompters, PrepareRetry(p) PROVE CallTypes'
  BY <1>0, <1>2, <1>c, <1>m DEF PrepareRetry, Goto, SeenTypes
<1>3. ASSUME NEW p \in Prompters, NoRetry(p) PROVE CallTypes'
  BY <1>0, <1>3, <1>c, <1>m DEF NoRetry, Goto, SeenTypes
<1>4. ASSUME NEW p \in Prompters, NothingHeard(p) PROVE CallTypes'
  BY <1>0, <1>4, <1>c DEF NothingHeard, Goto, SeenTypes
<1>5. ASSUME NEW p \in Prompters, SleepEnds(p) PROVE CallTypes'
  BY <1>0, <1>5, <1>c DEF SleepEnds, Goto, SeenTypes
<1>6. ASSUME NEW p \in Prompters, NoCompactionNeeded(p) PROVE CallTypes'
  BY <1>0, <1>6, <1>c DEF NoCompactionNeeded, Proceed, Goto, SeenTypes
<1>7. ASSUME NEW p \in Prompters, RecoverFromOverflow(p) PROVE CallTypes'
  BY <1>0, <1>7, <1>c DEF RecoverFromOverflow, StartCompaction, Goto, SeenTypes
<1>8. ASSUME NEW p \in Prompters, CompactAtThreshold(p) PROVE CallTypes'
  BY <1>0, <1>8, <1>c DEF CompactAtThreshold, StartCompaction, Goto, SeenTypes
<1>9. ASSUME NEW p \in Prompters, CompactionSucceeds(p) PROVE CallTypes'
  <2>1. PICK goOn \in BOOLEAN : Proceed(p, goOn)
    BY <1>9 DEF CompactionSucceeds, hasQueuedMessages
  <2>2. /\ pc' \in [Prompters -> {"idle", "starting", "run", "post", "sleep",
                           "check", "compact", "continue", "return"}]
        /\ phase' \in [Prompters -> {"before", "pre", "main"}]
        /\ msg' \in [Prompters -> AssistantMessage \union {NoMessage}]
    BY <1>0, <2>1 DEF Proceed, Goto
  <2>3. UNCHANGED sending
    BY <1>9 DEF CompactionSucceeds, EndCompaction
  <2> QED
    BY <1>0, <1>c, <2>2, <2>3 DEF SeenTypes
<1>10. ASSUME NEW p \in Prompters, CompactionFails(p) PROVE CallTypes'
  BY <1>0, <1>10, <1>c DEF CompactionFails, EndCompaction, Proceed, Goto,
       SeenTypes
<1>11. ASSUME NEW p \in Prompters, ContinueTranscript(p) PROVE CallTypes'
  BY <1>0, <1>11, <1>c DEF ContinueTranscript, ContinueFrom, BeginRun, Goto,
       SeenTypes
<1>12. ASSUME NEW p \in Prompters, ContinueWithQueue(p) PROVE CallTypes'
  BY <1>0, <1>12, <1>c DEF ContinueWithQueue, ContinueFrom, BeginRun, Goto,
       SeenTypes
<1>13. ASSUME NEW p \in Prompters, ContinueThrows(p) PROVE CallTypes'
  BY <1>0, <1>13, <1>c DEF ContinueThrows, FlushPendingBashMessages, Goto,
       SeenTypes
<1>14. ASSUME NEW p \in Prompters, Return(p) PROVE CallTypes'
  BY <1>0, <1>14, <1>c DEF Return, FlushPendingBashMessages, Goto, SeenTypes
<1>15. ASSUME NEW p \in Prompters, Send(p) PROVE CallTypes'
  BY <1>0, <1>15, <1>c DEF Send, FlushPendingBashMessages, BeginRun, Goto,
       SeenTypes
<1>16. ASSUME NEW p \in Prompters, Prompt(p) PROVE CallTypes'
  <2>1. Only(transcript, AssistantMessage) \in Seq(AssistantMessage)
    BY OnlyType DEF TypeOK, FileTypes
  <2>2. Only(transcript, AssistantMessage) # << >> =>
          Last(Only(transcript, AssistantMessage)) \in AssistantMessage
    BY <2>1, FrontIs
  <2>3. sending' \in [Prompters -> UserId \union {0}]
    BY <1>0, <1>16 DEF Prompt
  <2>4. /\ pc' \in [Prompters -> {"idle", "starting", "run", "post", "sleep",
                           "check", "compact", "continue", "return"}]
        /\ phase' \in [Prompters -> {"before", "pre", "main"}]
    BY <1>0, <1>16 DEF Prompt, Goto
  <2>5. msg' \in [Prompters -> AssistantMessage \union {NoMessage}]
    BY <1>0, <1>16, <2>2 DEF Prompt
  <2> QED
    BY <1>c, <2>3, <2>4, <2>5 DEF SeenTypes
<1>17. CASE AbortRetry
  BY <1>0, <1>17, <1>c, <1>r DEF AbortRetry, Goto, SeenTypes
<1>18. CASE Abort
  BY <1>0, <1>18, <1>c, <1>r DEF Abort, Goto, SeenTypes
<1>19. CASE Compact
  BY <1>0, <1>19, <1>c, <1>r DEF Compact, Goto, connected, Disconnected,
       SeenTypes
<1>20. CASE \/ Announce \/ (\E stop \in Replies : ModelReplies(stop))
            \/ ToolEnds \/ Save \/ PollSteering \/ PollFollowUps
            \/ PrepareCompact \/ CompactSucceeds \/ CompactFails \/ Steer
            \/ FollowUp \/ ClearQueue \/ RecordBashResult
  BY <1>0, <1>20, <1>c DEF Announce, Push, connected, Without, ModelReplies,
       ToolEnds, Save, PollSteering, PollFollowUps, PrepareCompact, CompactStep,
       Disconnected, CompactSucceeds, CompactFails, Steer, Accept, FollowUp,
       ClearQueue, RecordBashResult, SeenTypes
<1>21. CASE UNCHANGED vars
  BY <1>0, <1>c, <1>21 DEF SeenTypes
<1> QED
  BY <1>1, <1>2, <1>3, <1>4, <1>5, <1>6, <1>7, <1>8, <1>9, <1>10, <1>11, <1>12,
       <1>13, <1>14, <1>15, <1>16, <1>17, <1>18, <1>19, <1>20, <1>21 DEF Next,
       Progress, RunStep, CallStep, Operation

\* The call of compact().
LEMMA ManualTypesPreserved ==
  ASSUME TypeOK, Control, [Next]_vars PROVE ManualTypes'
<1> USE DEF vars, fileVars, agentQueues, shownQueues, runVars, retryVars,
      replyVars, callVars, manualVars, historyVars
<1> USE DEF ManualTypes, isStreaming
<1>0. ManualTypes /\ MaxCompacts \in Nat
  BY AgentSessionAssumption DEF TypeOK, AgentSessionAssumption
<1>c. SeenTypes'
  BY SeenPreserved
<1>v. TypeOK /\ Control
  OBVIOUS
<1>n. NoOne \notin Prompters
  BY AgentSessionAssumption DEF AgentSessionAssumption
<1>1. CASE Announce
  BY <1>0, <1>1, <1>c, <1>v, ValuesAre DEF Announce, Push, connected, Without,
       SeenTypes
<1>2. ASSUME NEW stop \in Replies, ModelReplies(stop) PROVE ManualTypes'
  BY <1>0, <1>2, <1>c, <1>v, ValuesAre DEF ModelReplies, Push, connected,
       SeenTypes
<1>3. CASE ToolEnds
  BY <1>0, <1>3, <1>c, <1>v, ValuesAre DEF ToolEnds, Push, connected, SeenTypes
<1>4. CASE RunEnds
  BY <1>0, <1>4, <1>c DEF RunEnds, Goto, Disconnected, SeenTypes
<1>5. ASSUME NEW p \in Prompters, ContinueTranscript(p) PROVE ManualTypes'
  BY <1>0, <1>5, <1>c, <1>n DEF ContinueTranscript, ContinueFrom, BeginRun,
       Goto, SeenTypes
<1>6. ASSUME NEW p \in Prompters, ContinueWithQueue(p) PROVE ManualTypes'
  BY <1>0, <1>6, <1>c, <1>n DEF ContinueWithQueue, ContinueFrom, BeginRun, Goto,
       SeenTypes
<1>7. ASSUME NEW p \in Prompters, Send(p) PROVE ManualTypes'
  BY <1>0, <1>7, <1>c, <1>n DEF Send, FlushPendingBashMessages, BeginRun, Goto,
       SeenTypes
<1>8. CASE PrepareCompact
  BY <1>0, <1>8, <1>c DEF PrepareCompact, CompactStep, Disconnected, SeenTypes
<1>9. CASE CompactSucceeds
  BY <1>0, <1>9, <1>c DEF CompactSucceeds, CompactStep, Disconnected, SeenTypes
<1>10. CASE CompactFails
  BY <1>0, <1>10, <1>c DEF CompactFails, CompactStep, Disconnected, SeenTypes
<1>11. CASE Abort
  BY <1>0, <1>11, <1>c DEF Abort, Goto, SeenTypes
<1>12. CASE Compact
  <2>1. compacts' \in 0..MaxCompacts
    BY <1>0, <1>12 DEF Compact
  <2>2. byHand'.at = "abort" => owner # NoOne
    BY <1>12 DEF Compact, Disconnected
  <2>3. owner # NoOne => aborted'
    BY <1>12 DEF Compact
  <2>4. UNCHANGED << owner, unheard >>
    BY <1>12 DEF Compact
  <2> QED
    BY <1>0, <1>c, <2>1, <2>2, <2>3, <2>4 DEF SeenTypes
<1>13. CASE \/ Save \/ PollSteering \/ PollFollowUps
            \/ (\E p \in Prompters : PrepareRetry(p))
            \/ (\E p \in Prompters : NoRetry(p))
            \/ (\E p \in Prompters : NothingHeard(p))
            \/ (\E p \in Prompters : SleepEnds(p))
            \/ (\E p \in Prompters : NoCompactionNeeded(p))
            \/ (\E p \in Prompters : RecoverFromOverflow(p))
            \/ (\E p \in Prompters : CompactAtThreshold(p))
            \/ (\E p \in Prompters : CompactionSucceeds(p))
            \/ (\E p \in Prompters : CompactionFails(p))
            \/ (\E p \in Prompters : ContinueThrows(p))
            \/ (\E p \in Prompters : Return(p))
            \/ (\E p \in Prompters : Prompt(p)) \/ Steer \/ FollowUp
            \/ ClearQueue \/ AbortRetry \/ RecordBashResult
  BY <1>0, <1>13, <1>c DEF Save, PollSteering, PollFollowUps, PrepareRetry,
       Goto, NoRetry, NothingHeard, SleepEnds, NoCompactionNeeded, Proceed,
       RecoverFromOverflow, StartCompaction, CompactAtThreshold,
       CompactionSucceeds, EndCompaction, CompactionFails, ContinueThrows,
       FlushPendingBashMessages, Return, Prompt, Steer, Accept, FollowUp,
       ClearQueue, AbortRetry, RecordBashResult, SeenTypes
<1>14. CASE UNCHANGED vars
  BY <1>0, <1>c, <1>14 DEF SeenTypes
<1> QED
  BY <1>1, <1>2, <1>3, <1>4, <1>5, <1>6, <1>7, <1>8, <1>9, <1>10, <1>11, <1>12,
       <1>13, <1>14 DEF Next, Progress, RunStep, CallStep, Operation

\* The counters and the history.
LEMMA HistoryTypesPreserved ==
  ASSUME TypeOK, Control, [Next]_vars PROVE HistoryTypes'
<1> USE DEF vars, fileVars, agentQueues, shownQueues, runVars, retryVars,
      replyVars, callVars, manualVars, historyVars
<1> USE DEF HistoryTypes
<1>0. HistoryTypes
  BY DEF TypeOK
<1>v. TypeOK /\ Control
  OBVIOUS
<1>i. /\ MaxUserMessages \in Nat /\ MaxBashMessages \in Nat
      /\ nextId \in UserId => nextId + 1 \in 1..(MaxUserMessages + 1)
      /\ nextBash <= MaxBashMessages
          => nextBash + 1 \in 1..(MaxBashMessages + 1)
  BY <1>0, AgentSessionAssumption DEF AgentSessionAssumption, UserId
<1>u. ToSet(steeringMessages \o followUpMessages) \subseteq UserId
  <2>1. steeringMessages \o followUpMessages \in Seq(UserId)
    BY ConcatProperties DEF TypeOK, QueueTypes
  <2> QED
    BY <2>1, LenProperties, ElementOfSeq DEF ToSet
<1>1. CASE Announce
  BY <1>0, <1>1 DEF Announce, Push, connected, Without
<1>2. ASSUME NEW stop \in Replies, ModelReplies(stop) PROVE HistoryTypes'
  BY <1>0, <1>2 DEF ModelReplies, Push, connected
<1>3. CASE Save
  BY <1>0, <1>3 DEF Save
<1>4. ASSUME NEW p \in Prompters, PrepareRetry(p) PROVE HistoryTypes'
  BY <1>0, <1>4 DEF PrepareRetry, Goto
<1>5. ASSUME NEW p \in Prompters, CompactionSucceeds(p) PROVE HistoryTypes'
  BY <1>0, <1>5 DEF CompactionSucceeds, EndCompaction, Proceed, Goto
<1>6. ASSUME NEW p \in Prompters, ContinueThrows(p) PROVE HistoryTypes'
  BY <1>0, <1>6 DEF ContinueThrows, FlushPendingBashMessages, Goto
<1>7. ASSUME NEW p \in Prompters, Send(p) PROVE HistoryTypes'
  BY <1>0, <1>7, <1>v, ValuesAre DEF Send, FlushPendingBashMessages, BeginRun,
       Goto
<1>8. ASSUME NEW p \in Prompters, Prompt(p) PROVE HistoryTypes'
  BY <1>0, <1>8, <1>i DEF Prompt, FlushPendingBashMessages, Goto
<1>9. CASE Steer
  BY <1>0, <1>9, <1>i DEF Steer, Accept
<1>10. CASE FollowUp
  BY <1>0, <1>10, <1>i DEF FollowUp, Accept
<1>11. CASE ClearQueue
  BY <1>0, <1>11, <1>u DEF ClearQueue
<1>12. CASE AbortRetry
  BY <1>0, <1>12 DEF AbortRetry, Goto
<1>13. CASE RecordBashResult
  BY <1>0, <1>13, <1>i DEF RecordBashResult
<1>14. CASE Compact
  BY <1>0, <1>14 DEF Compact, Goto, connected, Disconnected
<1>15. CASE \/ ToolEnds \/ PollSteering \/ PollFollowUps \/ RunEnds
            \/ (\E p \in Prompters : NoRetry(p))
            \/ (\E p \in Prompters : NothingHeard(p))
            \/ (\E p \in Prompters : SleepEnds(p))
            \/ (\E p \in Prompters : NoCompactionNeeded(p))
            \/ (\E p \in Prompters : RecoverFromOverflow(p))
            \/ (\E p \in Prompters : CompactAtThreshold(p))
            \/ (\E p \in Prompters : CompactionFails(p))
            \/ (\E p \in Prompters : ContinueTranscript(p))
            \/ (\E p \in Prompters : ContinueWithQueue(p))
            \/ (\E p \in Prompters : Return(p)) \/ PrepareCompact
            \/ CompactSucceeds \/ CompactFails \/ Abort
  BY <1>0, <1>15 DEF ToolEnds, Push, connected, PollSteering, PollFollowUps,
       RunEnds, Goto, Disconnected, NoRetry, NothingHeard, SleepEnds,
       NoCompactionNeeded, Proceed, RecoverFromOverflow, StartCompaction,
       CompactAtThreshold, CompactionFails, EndCompaction, ContinueTranscript,
       ContinueFrom, BeginRun, ContinueWithQueue, Return,
       FlushPendingBashMessages, PrepareCompact, CompactStep, CompactSucceeds,
       CompactFails, Abort
<1>16. CASE UNCHANGED vars
  BY <1>0, <1>16
<1> QED
  BY <1>1, <1>2, <1>3, <1>4, <1>5, <1>6, <1>7, <1>8, <1>9, <1>10, <1>11, <1>12,
       <1>13, <1>14, <1>15, <1>16 DEF Next, Progress, RunStep, CallStep,
       Operation

\* What the control variables say about the run ...
LEMMA RunPreserved ==
  ASSUME TypeOK, Control, [Next]_vars PROVE RunOK'
<1> USE DEF vars, fileVars, agentQueues, shownQueues, runVars, retryVars,
      replyVars, callVars, manualVars, historyVars
<1> USE DEF RunOK
<1>0. RunOK /\ NoOne \notin Prompters
  BY AgentSessionAssumption DEF Control, AgentSessionAssumption
<1>t. /\ owner \in Prompters \union {NoOne}
      /\ runPc \in RunPC \union {"none", "save"}
      /\ runPc = "save" => afterSave \in RunPC
  BY DEF TypeOK, RunTypes
<1>1. CASE Announce
  BY <1>0, <1>1, <1>t DEF Announce, Push, connected, Without, RunPC, isStreaming
<1>2. ASSUME NEW stop \in Replies, ModelReplies(stop) PROVE RunOK'
  BY <1>0, <1>2, <1>t DEF ModelReplies, Push, connected, RunPC, isStreaming
<1>3. CASE ToolEnds
  BY <1>0, <1>3, <1>t DEF ToolEnds, Push, connected, RunPC, isStreaming
<1>4. CASE Save
  BY <1>0, <1>4, <1>t DEF Save, RunPC, isStreaming
<1>5. CASE PollSteering
  BY <1>0, <1>5, <1>t DEF PollSteering, RunPC, isStreaming
<1>6. CASE PollFollowUps
  BY <1>0, <1>6, <1>t DEF PollFollowUps, RunPC, isStreaming
<1>7. CASE RunEnds
  BY <1>0, <1>7, <1>t DEF RunEnds, Goto, Disconnected, RunPC, isStreaming
<1>8. ASSUME NEW p \in Prompters, ContinueTranscript(p) PROVE RunOK'
  BY <1>0, <1>8, <1>t DEF ContinueTranscript, ContinueFrom, BeginRun, Goto,
       RunPC, isStreaming
<1>9. ASSUME NEW p \in Prompters, ContinueWithQueue(p) PROVE RunOK'
  BY <1>0, <1>9, <1>t DEF ContinueWithQueue, ContinueFrom, BeginRun, Goto,
       RunPC, isStreaming
<1>10. ASSUME NEW p \in Prompters, Send(p) PROVE RunOK'
  BY <1>0, <1>10, <1>t DEF Send, FlushPendingBashMessages, BeginRun, Goto,
       RunPC, isStreaming
<1>11. CASE Abort
  BY <1>0, <1>11, <1>t DEF Abort, Goto, RunPC, isStreaming
<1>12. CASE Compact
  BY <1>0, <1>12, <1>t DEF Compact, Goto, connected, Disconnected, RunPC,
       isStreaming
<1>13. CASE \/ (\E p \in Prompters : PrepareRetry(p))
            \/ (\E p \in Prompters : NoRetry(p))
            \/ (\E p \in Prompters : NothingHeard(p))
            \/ (\E p \in Prompters : SleepEnds(p))
            \/ (\E p \in Prompters : NoCompactionNeeded(p))
            \/ (\E p \in Prompters : RecoverFromOverflow(p))
            \/ (\E p \in Prompters : CompactAtThreshold(p))
            \/ (\E p \in Prompters : CompactionSucceeds(p))
            \/ (\E p \in Prompters : CompactionFails(p))
            \/ (\E p \in Prompters : ContinueThrows(p))
            \/ (\E p \in Prompters : Return(p)) \/ PrepareCompact
            \/ CompactSucceeds \/ CompactFails
            \/ (\E p \in Prompters : Prompt(p)) \/ Steer \/ FollowUp
            \/ ClearQueue \/ AbortRetry \/ RecordBashResult
  BY <1>0, <1>13, <1>t DEF PrepareRetry, Goto, NoRetry, NothingHeard, SleepEnds,
       NoCompactionNeeded, Proceed, RecoverFromOverflow, StartCompaction,
       CompactAtThreshold, CompactionSucceeds, EndCompaction, CompactionFails,
       ContinueThrows, FlushPendingBashMessages, Return, PrepareCompact,
       CompactStep, Disconnected, CompactSucceeds, CompactFails, Prompt, Steer,
       Accept, FollowUp, ClearQueue, AbortRetry, RecordBashResult
<1>14. CASE UNCHANGED vars
  BY <1>0, <1>14
<1> QED
  BY <1>1, <1>2, <1>3, <1>4, <1>5, <1>6, <1>7, <1>8, <1>9, <1>10, <1>11, <1>12,
       <1>13, <1>14 DEF Next, Progress, RunStep, CallStep, Operation

\* _checkCompaction ends: go on, send the prompt or return.
LEMMA ProceedOK ==
  ASSUME NEW p \in Prompters, NEW q \in Prompters, NEW goOn \in BOOLEAN,
         CallTypes, CallOK(p), CallOK(q), pc[p] \in {"check", "compact"},
         Proceed(p, goOn), UNCHANGED << owner, sending, retryController >>
  PROVE  CallOK(q)'
<1>1. \E where \in {"continue", "starting", "return"} :
        /\ pc' = [pc EXCEPT ![p] = where]
        /\ where = "starting" => phase[p] = "before" /\ phase' = phase
        /\ where = "return" => phase[p] # "before" /\ phase' = phase
        /\ where = "continue" =>
             \/ phase[p] # "before" /\ phase' = phase
             \/ phase[p] = "before" /\ phase' = [phase EXCEPT ![p] = "pre"]
  <2>1. CASE goOn
    <3>1. /\ pc' = [pc EXCEPT ![p] = "continue"]
          /\ \/ phase[p] # "before" /\ phase' = phase
             \/ phase[p] = "before" /\ phase' = [phase EXCEPT ![p] = "pre"]
      BY <2>1 DEF Proceed, Goto
    <3> QED
      BY <3>1
  <2>2. CASE ~goOn /\ phase[p] = "before"
    BY <2>2 DEF Proceed, Goto
  <2>3. CASE ~goOn /\ phase[p] # "before" /\ hasQueuedMessages
    BY <2>3 DEF Proceed, Goto
  <2>4. CASE ~goOn /\ phase[p] # "before" /\ ~hasQueuedMessages
    BY <2>4 DEF Proceed, Goto
  <2> QED
    BY <2>1, <2>2, <2>3, <2>4
<1>2. msg' = [msg EXCEPT ![p] = NoMessage]
  BY DEF Proceed
<1>3. CASE p = q
  BY <1>1, <1>2, <1>3 DEF CallTypes, CallOK
<1>4. CASE p # q
  BY <1>1, <1>2, <1>4 DEF CallTypes, CallOK
<1> QED
  BY <1>3, <1>4

\* ... and about the calls.
LEMMA CallsPreserved ==
  ASSUME TypeOK, Control, [Next]_vars PROVE \A p \in Prompters : CallOK(p)'
<1> USE DEF vars, fileVars, agentQueues, shownQueues, runVars, retryVars,
      replyVars, callVars, manualVars, historyVars
<1> SUFFICES ASSUME NEW q \in Prompters PROVE CallOK(q)'
  OBVIOUS
<1> USE DEF CallOK
<1>0. CallOK(q) /\ CallTypes /\ NoOne \notin Prompters
  BY AgentSessionAssumption DEF TypeOK, AgentSessionAssumption, Control
<1>t. /\ owner \in Prompters \union {NoOne}
      /\ runPc = "none" <=> owner = NoOne
      /\ runPc # "none" => owner \in Prompters /\ CallOK(owner)
  BY DEF TypeOK, RunTypes, Control, RunOK
<1>r. /\ retryController \in Prompters \union {NoOne}
      /\ retryController # NoOne => CallOK(retryController)
  BY DEF TypeOK, FieldTypes, Control
<1>p. \A p \in Prompters : CallOK(p)
  BY DEF Control
<1>1. CASE RunEnds
  BY <1>0, <1>1, <1>t, <1>r DEF RunEnds, Goto, Disconnected, CallTypes,
       isStreaming
<1>2. ASSUME NEW p \in Prompters, PrepareRetry(p) PROVE CallOK(q)'
  BY <1>0, <1>2, <1>p DEF PrepareRetry, Goto, CallTypes, Retryable, IsReply,
       NoMessage
<1>3. ASSUME NEW p \in Prompters, NoRetry(p) PROVE CallOK(q)'
  BY <1>0, <1>3, <1>p DEF NoRetry, Goto, CallTypes
<1>4. ASSUME NEW p \in Prompters, NothingHeard(p) PROVE CallOK(q)'
  BY <1>0, <1>4, <1>p DEF NothingHeard, Goto, CallTypes
<1>5. ASSUME NEW p \in Prompters, SleepEnds(p) PROVE CallOK(q)'
  BY <1>0, <1>5, <1>p DEF SleepEnds, Goto, CallTypes
<1>6. ASSUME NEW p \in Prompters, NoCompactionNeeded(p) PROVE CallOK(q)'
  <2>1. /\ pc[p] = "check" /\ Proceed(p, FALSE)
        /\ UNCHANGED << owner, sending, retryController >>
    BY <1>6 DEF NoCompactionNeeded
  <2> QED
    BY <1>0, <1>p, <2>1, ProceedOK DEF CallTypes
<1>7. ASSUME NEW p \in Prompters, RecoverFromOverflow(p) PROVE CallOK(q)'
  BY <1>0, <1>7, <1>p DEF RecoverFromOverflow, StartCompaction, Goto, CallTypes
<1>8. ASSUME NEW p \in Prompters, CompactAtThreshold(p) PROVE CallOK(q)'
  BY <1>0, <1>8, <1>p DEF CompactAtThreshold, StartCompaction, Goto, CallTypes
<1>9. ASSUME NEW p \in Prompters, CompactionSucceeds(p) PROVE CallOK(q)'
  <2>1. PICK goOn \in BOOLEAN : Proceed(p, goOn)
    BY <1>9 DEF CompactionSucceeds, hasQueuedMessages
  <2>2. pc[p] = "compact" /\ UNCHANGED << owner, sending, retryController >>
    BY <1>9 DEF CompactionSucceeds, EndCompaction
  <2> QED
    BY <1>0, <1>p, <2>1, <2>2, ProceedOK DEF CallTypes
<1>10. ASSUME NEW p \in Prompters, CompactionFails(p) PROVE CallOK(q)'
  <2>1. /\ pc[p] = "compact" /\ Proceed(p, FALSE)
        /\ UNCHANGED << owner, sending, retryController >>
    BY <1>10 DEF CompactionFails, EndCompaction
  <2> QED
    BY <1>0, <1>p, <2>1, ProceedOK DEF CallTypes
<1>11. ASSUME NEW p \in Prompters, ContinueTranscript(p) PROVE CallOK(q)'
  BY <1>0, <1>11, <1>t, <1>p DEF ContinueTranscript, ContinueFrom, BeginRun,
       Goto, CallTypes, isStreaming
<1>12. ASSUME NEW p \in Prompters, ContinueWithQueue(p) PROVE CallOK(q)'
  BY <1>0, <1>12, <1>t, <1>p DEF ContinueWithQueue, ContinueFrom, BeginRun,
       Goto, CallTypes, isStreaming
<1>13. ASSUME NEW p \in Prompters, ContinueThrows(p) PROVE CallOK(q)'
  BY <1>0, <1>13, <1>p DEF ContinueThrows, FlushPendingBashMessages, Goto,
       CallTypes
<1>14. ASSUME NEW p \in Prompters, Return(p) PROVE CallOK(q)'
  BY <1>0, <1>14, <1>p DEF Return, FlushPendingBashMessages, Goto, CallTypes
<1>15. ASSUME NEW p \in Prompters, Send(p) PROVE CallOK(q)'
  BY <1>0, <1>15, <1>t, <1>p DEF Send, FlushPendingBashMessages, BeginRun, Goto,
       CallTypes, isStreaming
<1>16. ASSUME NEW p \in Prompters, Prompt(p) PROVE CallOK(q)'
  <2>1. \/ pc' = [pc EXCEPT ![p] = "starting"] /\ UNCHANGED msg
        \/ /\ pc' = [pc EXCEPT ![p] = "check"]
           /\ msg' = [msg EXCEPT
                        ![p] = Last(Only(transcript, AssistantMessage))]
           /\ Only(transcript, AssistantMessage) # << >>
    BY <1>16 DEF Prompt, Goto
  <2>2. Only(transcript, AssistantMessage) # << >> =>
          Last(Only(transcript, AssistantMessage)) # NoMessage
    <3>1. Only(transcript, AssistantMessage) \in Seq(AssistantMessage)
      BY OnlyType DEF TypeOK, FileTypes
    <3>2. \A m \in AssistantMessage : m # NoMessage
      BY DEF AssistantMessage, NoMessage
    <3> QED
      BY <3>1, <3>2, FrontIs
  <2>3. /\ pc[p] = "idle" /\ phase' = [phase EXCEPT ![p] = "before"]
        /\ sending' = [sending EXCEPT ![p] = nextId] /\ nextId \in UserId
        /\ UNCHANGED << owner, retryController >>
    BY <1>16 DEF Prompt
  <2>4. CASE p = q
    BY <1>0, <1>p, <2>1, <2>2, <2>3, <2>4 DEF CallTypes
  <2>5. CASE p # q
    BY <1>0, <1>p, <2>1, <2>3, <2>5 DEF CallTypes
  <2> QED
    BY <2>4, <2>5
<1>17. CASE AbortRetry
  BY <1>0, <1>17, <1>t, <1>r DEF AbortRetry, Goto, CallTypes, isStreaming
<1>18. CASE Abort
  BY <1>0, <1>18, <1>t, <1>r DEF Abort, Goto, CallTypes, isStreaming
<1>19. CASE Compact
  BY <1>0, <1>19, <1>t, <1>r DEF Compact, Goto, connected, Disconnected,
       CallTypes, isStreaming
<1>20. CASE \/ Announce \/ (\E stop \in Replies : ModelReplies(stop))
            \/ ToolEnds \/ Save \/ PollSteering \/ PollFollowUps
            \/ PrepareCompact \/ CompactSucceeds \/ CompactFails \/ Steer
            \/ FollowUp \/ ClearQueue \/ RecordBashResult
  BY <1>0, <1>20 DEF Announce, Push, connected, Without, ModelReplies, ToolEnds,
       Save, PollSteering, PollFollowUps, PrepareCompact, CompactStep,
       Disconnected, CompactSucceeds, CompactFails, Steer, Accept, FollowUp,
       ClearQueue, RecordBashResult
<1>21. CASE UNCHANGED vars
  BY <1>0, <1>21
<1> QED
  BY <1>1, <1>2, <1>3, <1>4, <1>5, <1>6, <1>7, <1>8, <1>9, <1>10, <1>11, <1>12,
       <1>13, <1>14, <1>15, <1>16, <1>17, <1>18, <1>19, <1>20, <1>21 DEF Next,
       Progress, RunStep, CallStep, Operation

\* The types and the control invariant hold at the start, ...
LEMMA InitTypes == Init => TypeOK /\ Control
<1> SUFFICES ASSUME Init PROVE TypeOK /\ Control
  OBVIOUS
<1> USE DEF Init
<1>0. /\ MaxUserMessages \in Nat /\ MaxBashMessages \in Nat
      /\ MaxRetries \in Nat /\ MaxCompacts \in Nat /\ NoOne \notin Prompters
  BY AgentSessionAssumption DEF AgentSessionAssumption
<1>1. FileTypes
  BY EmptySeq DEF FileTypes
<1>2. QueueTypes
  BY EmptySeq DEF QueueTypes
<1>3. RunTypes
  BY DEF RunTypes, RunPC
<1>9. FieldTypes
  <2>1. 0 \in 0..MaxRetries
    BY <1>0
  <2> QED
    BY <2>1 DEF FieldTypes
<1>4. CallTypes
  <2>1. log = << >> /\ Len(<< >>) = 0
    BY EmptySeq
  <2>2. 0 \in 0..Len(log)
    BY <2>1
  <2>3. [reason |-> "none", seen |-> 0]
          \in [reason : {"none", "overflow", "threshold"}, seen : 0..Len(log)]
    BY <2>2
  <2> HIDE DEF Init
  <2>4. /\ pc = [p \in Prompters |-> "idle"]
        /\ phase = [p \in Prompters |-> "main"]
        /\ sending = [p \in Prompters |-> 0]
        /\ msg = [p \in Prompters |-> NoMessage]
        /\ compaction = [p \in Prompters |-> [reason |-> "none", seen |-> 0]]
    BY DEF Init, NoCompaction
  <2> QED
    BY <2>3, <2>4 DEF CallTypes
<1>5. ManualTypes
  BY <1>0, EmptySeq DEF ManualTypes, Disconnected
<1>6. HistoryTypes
  <2>1. 1 \in 1..(MaxUserMessages + 1) /\ 1 \in 1..(MaxBashMessages + 1)
    BY <1>0
  <2> QED
    BY <2>1 DEF HistoryTypes
<1>7. RunOK
  BY <1>0 DEF RunOK
<1>8. ASSUME NEW p \in Prompters PROVE CallOK(p)
  <2> HIDE DEF Init
  <2>1. /\ owner = NoOne /\ retryController = NoOne /\ p # NoOne
        /\ pc[p] = "idle" /\ phase[p] = "main"
    BY <1>0 DEF Init
  <2> QED
    BY <2>1 DEF CallOK
<1> QED
  BY <1>1, <1>2, <1>3, <1>4, <1>5, <1>6, <1>7, <1>8, <1>9
     DEF TypeOK, Control

\* ... every step preserves them, ...
LEMMA TypesPreserved ==
  ASSUME TypeOK, Control, [Next]_vars PROVE TypeOK' /\ Control'
<1>1. FileTypes' /\ QueueTypes' /\ RunTypes' /\ FieldTypes'
  BY FileTypesPreserved, QueueTypesPreserved, RunTypesPreserved,
     FieldTypesPreserved
<1>2. CallTypes' /\ ManualTypes' /\ HistoryTypes'
  BY CallTypesPreserved, ManualTypesPreserved, HistoryTypesPreserved
<1>3. Control'
  BY RunPreserved, CallsPreserved DEF Control
<1> QED
  BY <1>1, <1>2, <1>3 DEF TypeOK

\* ... and so they always hold.
LEMMA TypesAlways == Spec => [](TypeOK /\ Control)
<1>1. TypeOK /\ Control /\ [Next]_vars => (TypeOK /\ Control)'
  BY TypesPreserved
<1> QED
  BY <1>1, InitTypes, PTL DEF Spec

\* Every variable of AgentSession has its type.
THEOREM TypeCorrect == Spec => []TypeOK
BY TypesAlways, PTL

-----------------------------------------------------------------------------
(* Where the user messages are *)

\* The identifiers of some user messages, and that no two have the same.
Among(ms) == { ms[i].id : i \in 1..Len(ms) }
Apart(ms) == \A i, j \in 1..Len(ms) : ms[i].id = ms[j].id => i = j

\* The identifiers in no message, in one, ...
LEMMA AmongNone == Among(<< >>) = {} /\ Apart(<< >>)
<1>1. Len(<< >>) = 0
  BY EmptySeq
<1> QED
  BY <1>1 DEF Among, Apart

\* ... one ...
LEMMA AmongOne == ASSUME NEW m PROVE Among(<< m >>) = {m.id} /\ Apart(<< m >>)
<1>1. Len(<< m >>) = 1 /\ << m >>[1] = m
  OBVIOUS
<1> QED
  BY <1>1 DEF Among, Apart

\* ... in all messages but the first ...
LEMMA AmongTail ==
  ASSUME NEW T, NEW ms \in Seq(T), ms # << >>, Apart(ms)
  PROVE  /\ Apart(Tail(ms)) /\ Among(Tail(ms)) \subseteq Among(ms)
         /\ Head(ms).id \in Among(ms) /\ Head(ms).id \notin Among(Tail(ms))
<1>1. /\ Len(ms) \in Nat \ {0} /\ Head(ms) = ms[1]
      /\ Len(Tail(ms)) = Len(ms) - 1
      /\ \A i \in 1..Len(Tail(ms)) : Tail(ms)[i] = ms[i + 1]
  BY EmptySeq, HeadTailProperties
<1>2. /\ 1 \in 1..Len(ms) /\ Len(Tail(ms)) \in Nat
      /\ \A i \in 1..Len(Tail(ms)) : i + 1 \in 1..Len(ms) /\ i + 1 # 1
  BY <1>1
<1>3. Among(Tail(ms)) \subseteq Among(ms) /\ Head(ms).id \in Among(ms)
  BY <1>1, <1>2 DEF Among
<1>4. ASSUME NEW i \in 1..Len(Tail(ms)), NEW j \in 1..Len(Tail(ms)),
             Tail(ms)[i].id = Tail(ms)[j].id
      PROVE  i = j
  <2>1. i + 1 = j + 1
    BY <1>1, <1>2, <1>4 DEF Apart
  <2> QED
    BY <2>1
<1>5. ASSUME NEW i \in 1..Len(Tail(ms)) PROVE Tail(ms)[i].id # Head(ms).id
  BY <1>1, <1>2 DEF Apart
<1> QED
  BY <1>3, <1>4, <1>5 DEF Among, Apart

\* ... and in one message more.
LEMMA AmongAppend ==
  ASSUME NEW T, NEW ms \in Seq(T), NEW m \in T
  PROVE  /\ Among(Append(ms, m)) = Among(ms) \union {m.id}
         /\ Apart(ms) /\ m.id \notin Among(ms) => Apart(Append(ms, m))
<1>1. /\ Len(Append(ms, m)) = Len(ms) + 1 /\ Len(ms) \in Nat
      /\ Append(ms, m)[Len(ms) + 1] = m
      /\ \A i \in 1..Len(ms) : Append(ms, m)[i] = ms[i]
  BY AppendProperties, LenProperties
<1>2. \A i \in 1..(Len(ms) + 1) : i = Len(ms) + 1 \/ i \in 1..Len(ms)
  BY <1>1
<1>3. Len(ms) + 1 \in 1..(Len(ms) + 1)
      /\ \A i \in 1..Len(ms) : i \in 1..(Len(ms) + 1)
  BY <1>1
<1>4. Among(Append(ms, m)) = Among(ms) \union {m.id}
  <2>1. Among(Append(ms, m)) \subseteq Among(ms) \union {m.id}
    BY <1>1, <1>2 DEF Among
  <2>2. Among(ms) \union {m.id} \subseteq Among(Append(ms, m))
    BY <1>1, <1>3 DEF Among
  <2> QED
    BY <2>1, <2>2
<1>5. ASSUME Apart(ms), m.id \notin Among(ms) PROVE Apart(Append(ms, m))
  <2> SUFFICES ASSUME NEW i \in 1..(Len(ms) + 1), NEW j \in 1..(Len(ms) + 1),
                      Append(ms, m)[i].id = Append(ms, m)[j].id
               PROVE  i = j
    BY <1>1 DEF Apart
  <2>1. \A k \in 1..Len(ms) : ms[k].id # m.id
    BY <1>5 DEF Among
  <2> QED
    BY <1>1, <1>2, <1>5, <2>1 DEF Apart
<1> QED
  BY <1>4, <1>5

\* What drain() hands out and what it leaves.
LEMMA AmongDrained ==
  ASSUME NEW T, NEW queue \in Seq(T), Apart(queue), NEW mode
  PROVE  /\ Apart(Drained(queue, mode)) /\ Apart(Remaining(queue, mode))
         /\ Among(Drained(queue, mode)) \subseteq Among(queue)
         /\ Among(Remaining(queue, mode)) \subseteq Among(queue)
         /\ Among(Drained(queue, mode)) \intersect Among(Remaining(queue, mode))
              = {}
<1>1. CASE mode = "all" \/ queue = << >>
  BY <1>1, AmongNone DEF Drained, Remaining
<1>2. CASE ~(mode = "all" \/ queue = << >>)
  BY <1>2, AmongTail, AmongOne DEF Drained, Remaining
<1> QED
  BY <1>1, <1>2

\* The identifiers given so far.
Known == 1..(nextId - 1)
Sent(via) == { User(id, via) : id \in Known \ cleared }

\* What is queued or shown has been accepted and not been returned to the owner.
Placed ==
  /\ steeringQueue \in Seq(Sent("steer"))
  /\ followUpQueue \in Seq(Sent("followUp"))
  /\ steeringMessages \in Seq(Known \ cleared)
  /\ followUpMessages \in Seq(Known \ cleared)
  /\ Among(held) \subseteq Known /\ UnheardIds \subseteq Known
  /\ cleared \subseteq Known
  /\ \A p \in Prompters : sending[p] \in Known \union {0}

\* No message is at two places.
Distinct ==
  /\ Apart(held) /\ Apart(steeringQueue) /\ Apart(followUpQueue)
  /\ Among(held) \intersect Among(steeringQueue) = {}
  /\ Among(held) \intersect Among(followUpQueue) = {}
  /\ Among(steeringQueue) \intersect Among(followUpQueue) = {}
  /\ ToSet(steeringMessages) \intersect ToSet(followUpMessages) = {}
  /\ \A p \in Prompters :
       sending[p] \notin Among(steeringQueue) \union Among(followUpQueue)

\* What is announced while the handler is disconnected has not been heard.
LEMMA UnheardIs ==
  /\ \A m \in UserMessage :
       unheard' = unheard \union {m} => UnheardIds' = UnheardIds \union {m.id}
  /\ \A m : m.kind # "user" /\ unheard' = unheard \union {m} =>
       UnheardIds' = UnheardIds
  /\ UNCHANGED unheard => UNCHANGED UnheardIds
BY DEF UnheardIds, UserMessage

\* Messages that were sent are user messages that were not cleared.
LEMMA SentIs ==
  ASSUME TypeOK, NEW via \in {"prompt", "steer", "followUp"}
  PROVE  /\ Known \subseteq UserId /\ Sent(via) \subseteq UserMessage
         /\ \A m \in Sent(via) : /\ m.id \in Known \ cleared /\ m.via = via
                                 /\ m = User(m.id, via)
         /\ nextId \notin Known
<1>1. Known \subseteq UserId /\ nextId \notin Known
  BY AgentSessionAssumption
     DEF Known, UserId, TypeOK, HistoryTypes, AgentSessionAssumption
<1>2. ASSUME NEW id \in Known \ cleared
      PROVE  User(id, via) \in UserMessage /\ User(id, via).id = id
             /\ User(id, via).via = via
  BY <1>1, BuiltMessages DEF User
<1> QED
  BY <1>1, <1>2 DEF Sent

\* The identifiers in the queues and in the lists that are shown.
LEMMA SentAmong ==
  ASSUME TypeOK, Placed
  PROVE  /\ Among(steeringQueue) \subseteq Known \ cleared
         /\ Among(followUpQueue) \subseteq Known \ cleared
         /\ ToSet(steeringMessages) \subseteq Known \ cleared
         /\ ToSet(followUpMessages) \subseteq Known \ cleared
<1>1. ASSUME NEW i \in 1..Len(steeringQueue)
      PROVE  steeringQueue[i].id \in Known \ cleared
  <2>1. steeringQueue[i] \in Sent("steer")
    BY ElementOfSeq DEF Placed
  <2> QED
    BY <2>1, SentIs
<1>2. ASSUME NEW i \in 1..Len(followUpQueue)
      PROVE  followUpQueue[i].id \in Known \ cleared
  <2>1. followUpQueue[i] \in Sent("followUp")
    BY ElementOfSeq DEF Placed
  <2> QED
    BY <2>1, SentIs
<1>3. /\ ToSet(steeringMessages) \subseteq Known \ cleared
      /\ ToSet(followUpMessages) \subseteq Known \ cleared
  BY LenProperties, ElementOfSeq DEF Placed, ToSet
<1> QED
  BY <1>1, <1>2, <1>3 DEF Among

\* Every step keeps that.
LEMMA PlacedPreserved ==
  ASSUME TypeOK, Control, Placed, Distinct, [Next]_vars
  PROVE  Placed'
<1> USE DEF vars, fileVars, agentQueues, shownQueues, runVars, retryVars,
      replyVars, callVars, manualVars, historyVars
<1>0. Placed /\ Distinct /\ TypeOK /\ Control
  OBVIOUS
<1>t. /\ held \in Seq(UserMessage) /\ steeringMessages \in Seq(UserId)
      /\ followUpMessages \in Seq(UserId)
  BY DEF TypeOK, QueueTypes
<1>s. ASSUME UNCHANGED << nextId, cleared >>
      PROVE  /\ Known' = Known /\ Sent("steer")' = Sent("steer")
             /\ Sent("followUp")' = Sent("followUp")
  BY <1>s DEF Known, Sent
<1>a. ASSUME nextId \in UserId, nextId' = nextId + 1, UNCHANGED cleared
      PROVE  /\ Known' = Known \union {nextId}
             /\ nextId \in Known' \ cleared' /\ cleared' \subseteq Known'
             /\ Seq(Known \ cleared) \subseteq Seq(Known' \ cleared')
             /\ Seq(Sent("steer")) \subseteq Seq(Sent("steer")')
             /\ Seq(Sent("followUp")) \subseteq Seq(Sent("followUp")')
             /\ User(nextId, "steer") \in Sent("steer")'
             /\ User(nextId, "followUp") \in Sent("followUp")'
  <2>1. Known' = Known \union {nextId}
    BY <1>a, AgentSessionAssumption
       DEF Known, UserId, AgentSessionAssumption
  <2>2. nextId \notin cleared /\ cleared \subseteq Known
    BY SentIs DEF Placed
  <2>3. /\ Sent("steer") \subseteq Sent("steer")'
        /\ Sent("followUp") \subseteq Sent("followUp")'
        /\ User(nextId, "steer") \in Sent("steer")'
        /\ User(nextId, "followUp") \in Sent("followUp")'
    BY <1>a, <2>1, <2>2 DEF Sent
  <2>4. Known \ cleared \subseteq Known' \ cleared'
    BY <1>a, <2>1
  <2>5. /\ Seq(Known \ cleared) \subseteq Seq(Known' \ cleared')
        /\ Seq(Sent("steer")) \subseteq Seq(Sent("steer")')
        /\ Seq(Sent("followUp")) \subseteq Seq(Sent("followUp")')
    BY <2>3, <2>4, SeqMonotonic
  <2> QED
    BY <1>a, <2>1, <2>2, <2>3, <2>5
<1>h. held # << >> => /\ Head(held) \in UserMessage /\ Head(held).id \in Known
                      /\ Among(Tail(held)) \subseteq Known
  BY <1>0, <1>t, ValuesAre, AmongTail DEF Placed, Distinct
<1>w. \A id : /\ Without(steeringMessages, id) \in Seq(Known \ cleared)
              /\ Without(followUpMessages, id) \in Seq(Known \ cleared)
  BY OnlyKeeps DEF Placed, Without
<1>q. ASSUME NEW mode
      PROVE  /\ Drained(steeringQueue, mode) \in Seq(Sent("steer"))
             /\ Remaining(steeringQueue, mode) \in Seq(Sent("steer"))
             /\ Drained(followUpQueue, mode) \in Seq(Sent("followUp"))
             /\ Remaining(followUpQueue, mode) \in Seq(Sent("followUp"))
             /\ Among(Drained(steeringQueue, mode)) \subseteq Known
             /\ Among(Drained(followUpQueue, mode)) \subseteq Known
  BY <1>0, QueuesAre, AmongDrained, SentAmong DEF Placed, Distinct
<1>p. \A p \in Prompters : sending[p] \in Known \union {0}
  BY DEF Placed
<1>c. sending \in [Prompters -> UserId \union {0}]
  BY DEF TypeOK, CallTypes
<1>1. CASE Announce
  <2>1. UNCHANGED << nextId, cleared, sending, steeringQueue, followUpQueue >>
    BY <1>1 DEF Announce
  <2>2. /\ steeringMessages' \in Seq(Known \ cleared)
        /\ followUpMessages' \in Seq(Known \ cleared)
    BY <1>0, <1>w, <1>1 DEF Announce, Placed
  <2>3. Among(held') \subseteq Known
    BY <1>h, <1>1 DEF Announce
  <2>4. UnheardIds' \subseteq Known
    <3>1. UNCHANGED unheard \/ unheard' = unheard \union {Head(held)}
      BY <1>1 DEF Announce, Push
    <3>2. held # << >>
      BY <1>1 DEF Announce
    <3> QED
      BY <1>0, <1>h, <3>1, <3>2, UnheardIs DEF Placed
  <2> QED
    BY <1>0, <1>s, <2>1, <2>2, <2>3, <2>4 DEF Placed
<1>2. ASSUME NEW stop \in Replies, ModelReplies(stop) PROVE Placed'
  <2>1. UNCHANGED << nextId, cleared, sending, steeringQueue, followUpQueue,
                     steeringMessages, followUpMessages, held >>
    BY <1>2 DEF ModelReplies
  <2>2. UNCHANGED UnheardIds
    <3>1. UNCHANGED unheard
            \/ unheard' = unheard \union {Reply(replies + 1, stop)}
      BY <1>2 DEF ModelReplies, Push
    <3>2. Reply(replies + 1, stop).kind # "user"
      BY DEF Reply
    <3> QED
      BY <3>1, <3>2, UnheardIs
  <2> QED
    BY <1>0, <1>s, <2>1, <2>2 DEF Placed
<1>3. CASE ToolEnds
  <2>1. UNCHANGED << nextId, cleared, sending, steeringQueue, followUpQueue,
                     steeringMessages, followUpMessages, held >>
    BY <1>3 DEF ToolEnds
  <2>2. UNCHANGED UnheardIds
    <3>1. UNCHANGED unheard \/ unheard' = unheard \union {Result(replies)}
      BY <1>3 DEF ToolEnds, Push
    <3>2. Result(replies).kind # "user"
      BY DEF Result
    <3> QED
      BY <3>1, <3>2, UnheardIs
  <2> QED
    BY <1>0, <1>s, <2>1, <2>2 DEF Placed
<1>4. CASE PollSteering
  <2>1. UNCHANGED << nextId, cleared, sending, steeringMessages,
                     followUpMessages, UnheardIds >>
    BY <1>4, UnheardIs DEF PollSteering
  <2>2. /\ steeringQueue' \in Seq(Sent("steer"))
        /\ followUpQueue' \in Seq(Sent("followUp"))
        /\ Among(held') \subseteq Known
    BY <1>0, <1>q, <1>4 DEF PollSteering, Placed
  <2> QED
    BY <1>0, <1>s, <2>1, <2>2 DEF Placed
<1>5. CASE PollFollowUps
  <2>1. UNCHANGED << nextId, cleared, sending, steeringMessages,
                     followUpMessages, UnheardIds >>
    BY <1>5, UnheardIs DEF PollFollowUps
  <2>2. /\ steeringQueue' \in Seq(Sent("steer"))
        /\ followUpQueue' \in Seq(Sent("followUp"))
        /\ Among(held') \subseteq Known
    BY <1>0, <1>q, <1>5 DEF PollFollowUps, Placed
  <2> QED
    BY <1>0, <1>s, <2>1, <2>2 DEF Placed
<1>6. ASSUME NEW p \in Prompters, ContinueTranscript(p) PROVE Placed'
  <2>1. UNCHANGED << nextId, cleared, sending, steeringMessages, steeringQueue,
                     followUpQueue, followUpMessages, UnheardIds >>
    BY <1>6, UnheardIs DEF ContinueTranscript, ContinueFrom
  <2>2. Among(held') \subseteq Known
    BY <1>6, AmongNone DEF ContinueTranscript, ContinueFrom, BeginRun
  <2> QED
    BY <1>0, <1>s, <2>1, <2>2 DEF Placed
<1>7. ASSUME NEW p \in Prompters, ContinueWithQueue(p) PROVE Placed'
  <2>1. UNCHANGED << nextId, cleared, sending, steeringMessages,
                     followUpMessages, UnheardIds >>
    BY <1>7, UnheardIs DEF ContinueWithQueue, ContinueFrom, BeginRun
  <2>2. /\ steeringQueue' \in Seq(Sent("steer"))
        /\ followUpQueue' \in Seq(Sent("followUp"))
        /\ Among(held') \subseteq Known
    BY <1>0, <1>q, <1>7 DEF ContinueWithQueue, ContinueFrom, BeginRun, Placed
  <2> QED
    BY <1>0, <1>s, <2>1, <2>2 DEF Placed
<1>8. ASSUME NEW p \in Prompters, ContinueThrows(p) PROVE Placed'
  <2>1. UNCHANGED << nextId, cleared, steeringMessages, steeringQueue,
                     followUpQueue, followUpMessages, UnheardIds, held >>
    BY <1>8, UnheardIs DEF ContinueThrows
  <2>2. \A q \in Prompters : sending'[q] \in Known \union {0}
    BY <1>p, <1>c, <1>8 DEF ContinueThrows
  <2> QED
    BY <1>0, <1>s, <2>1, <2>2 DEF Placed
<1>9. ASSUME NEW p \in Prompters, Send(p) PROVE Placed'
  <2>1. UNCHANGED << nextId, cleared, steeringMessages, steeringQueue,
                     followUpQueue, followUpMessages, UnheardIds >>
    BY <1>9, UnheardIs DEF Send
  <2>2. \A q \in Prompters : sending'[q] \in Known \union {0}
    BY <1>p, <1>c, <1>9 DEF Send
  <2>3. Among(held') \subseteq Known
    <3>1. pc[p] = "starting" /\ sending[p] \in UserId
      BY <1>0, <1>9, ValuesAre DEF Send
    <3>2. sending[p] \in Known
      BY <1>p, <3>1 DEF UserId
    <3>3. User(sending[p], "prompt").id = sending[p]
      BY DEF User
    <3>4. \/ UNCHANGED held
          \/ held' = << User(sending[p], "prompt") >>
      BY <1>9 DEF Send, BeginRun
    <3> QED
      BY <1>0, <3>2, <3>3, <3>4, AmongOne DEF Placed
  <2> QED
    BY <1>0, <1>s, <2>1, <2>2, <2>3 DEF Placed
<1>10. ASSUME NEW p \in Prompters, Prompt(p) PROVE Placed'
  <2>1. /\ nextId \in UserId /\ nextId' = nextId + 1
        /\ UNCHANGED << cleared, steeringMessages, steeringQueue, followUpQueue,
                        followUpMessages, UnheardIds, held >>
    BY <1>10, UnheardIs DEF Prompt
  <2>2. \A q \in Prompters : sending'[q] \in Known' \union {0}
    BY <1>p, <1>c, <1>a, <2>1, <1>10 DEF Prompt
  <2> QED
    BY <1>0, <1>a, <2>1, <2>2 DEF Placed
<1>11. CASE Steer
  <2>1. /\ nextId \in UserId /\ nextId' = nextId + 1
        /\ UNCHANGED << cleared, followUpMessages, followUpQueue, UnheardIds,
                        held,
                        sending >>
    BY <1>11, UnheardIs DEF Steer, Accept
  <2>2. steeringMessages' \in Seq(Known' \ cleared')
    <3>1. steeringMessages \in Seq(Known' \ cleared')
      BY <1>0, <1>a, <2>1 DEF Placed
    <3> QED
      BY <1>a, <2>1, <3>1, <1>11, AppendProperties DEF Steer
  <2>3. steeringQueue' \in Seq(Sent("steer")')
    <3>1. steeringQueue \in Seq(Sent("steer")')
      BY <1>0, <1>a, <2>1 DEF Placed
    <3> QED
      BY <1>a, <2>1, <3>1, <1>11, QueuesAre DEF Steer
  <2> QED
    BY <1>0, <1>a, <2>1, <2>2, <2>3 DEF Placed
<1>12. CASE FollowUp
  <2>1. /\ nextId \in UserId /\ nextId' = nextId + 1
        /\ UNCHANGED << cleared, steeringMessages, steeringQueue, UnheardIds,
                        held,
                        sending >>
    BY <1>12, UnheardIs DEF FollowUp, Accept
  <2>2. followUpMessages' \in Seq(Known' \ cleared')
    <3>1. followUpMessages \in Seq(Known' \ cleared')
      BY <1>0, <1>a, <2>1 DEF Placed
    <3> QED
      BY <1>a, <2>1, <3>1, <1>12, AppendProperties DEF FollowUp
  <2>3. followUpQueue' \in Seq(Sent("followUp")')
    <3>1. followUpQueue \in Seq(Sent("followUp")')
      BY <1>0, <1>a, <2>1 DEF Placed
    <3> QED
      BY <1>a, <2>1, <3>1, <1>12, QueuesAre DEF FollowUp
  <2> QED
    BY <1>0, <1>a, <2>1, <2>2, <2>3 DEF Placed
<1>13. CASE ClearQueue
  <2>1. /\ steeringQueue' = << >> /\ followUpQueue' = << >>
        /\ steeringMessages' = << >> /\ followUpMessages' = << >>
        /\ UNCHANGED << nextId, sending, held, UnheardIds >>
    BY <1>13, UnheardIs DEF ClearQueue
  <2>2. cleared' \subseteq Known
    <3>1. steeringMessages \o followUpMessages \in Seq(Known \ cleared)
      BY <1>0, ConcatProperties DEF Placed
    <3>2. ToSet(steeringMessages \o followUpMessages) \subseteq Known
      BY <3>1, LenProperties, ElementOfSeq DEF ToSet
    <3> QED
      BY <1>0, <3>2, <1>13 DEF ClearQueue, Placed
  <2>3. Known' = Known
    BY <2>1 DEF Known
  <2> QED
    BY <1>0, <2>1, <2>2, <2>3, EmptySeq DEF Placed
<1>14. CASE \/ Save \/ RunEnds \/ (\E p \in Prompters : PrepareRetry(p))
            \/ (\E p \in Prompters : NoRetry(p))
            \/ (\E p \in Prompters : NothingHeard(p))
            \/ (\E p \in Prompters : SleepEnds(p))
            \/ (\E p \in Prompters : NoCompactionNeeded(p))
            \/ (\E p \in Prompters : RecoverFromOverflow(p))
            \/ (\E p \in Prompters : CompactAtThreshold(p))
            \/ (\E p \in Prompters : CompactionSucceeds(p))
            \/ (\E p \in Prompters : CompactionFails(p))
            \/ (\E p \in Prompters : Return(p)) \/ PrepareCompact
            \/ CompactSucceeds \/ CompactFails \/ AbortRetry \/ Abort
            \/ RecordBashResult \/ Compact
  <2>1. UNCHANGED << nextId, cleared, sending, steeringMessages, steeringQueue,
                     followUpQueue, followUpMessages, unheard, held >>
    BY <1>14 DEF Save, RunEnds, Goto, Disconnected, PrepareRetry, NoRetry,
         NothingHeard, SleepEnds, NoCompactionNeeded, Proceed,
         RecoverFromOverflow, StartCompaction, CompactAtThreshold,
         CompactionSucceeds, EndCompaction, CompactionFails, Return,
         FlushPendingBashMessages, PrepareCompact, CompactStep, CompactSucceeds,
         CompactFails, AbortRetry, Abort, RecordBashResult, Compact, connected
  <2> QED
    BY <1>0, <1>s, <2>1, UnheardIs DEF Placed
<1>15. CASE UNCHANGED vars
  BY <1>0, <1>15, <1>s, UnheardIs DEF Placed
<1> QED
  BY <1>1, <1>2, <1>3, <1>4, <1>5, <1>6, <1>7, <1>8, <1>9, <1>10, <1>11, <1>12,
       <1>13, <1>14, <1>15 DEF Next, Progress, RunStep, CallStep, Operation

\* The elements that are left were there.
LEMMA SeqOfItself == ASSUME NEW T, NEW s \in Seq(T) PROVE s \in Seq(ToSet(s))
<1>1. Len(s) \in Nat /\ s \in [1..Len(s) -> T] /\ DOMAIN s = 1..Len(s)
  BY LenProperties
<1>2. s \in [1..Len(s) -> ToSet(s)]
  BY <1>1 DEF ToSet
<1> QED
  BY <1>1, <1>2, SeqDef

\* A subsequence has no other elements.
LEMMA ToSetOnly ==
  ASSUME NEW T, NEW s \in Seq(T), NEW S
  PROVE  ToSet(Only(s, S)) \subseteq ToSet(s)
<1>1. Only(s, S) \in Seq(ToSet(s))
  BY SeqOfItself, OnlyKeeps
<1>2. \A r \in Seq(ToSet(s)) : \A i \in DOMAIN r : r[i] \in ToSet(s)
  BY LenProperties, ElementOfSeq
<1> QED
  BY <1>1, <1>2 DEF ToSet

\* No step puts a message at a second place.
LEMMA DistinctPreserved ==
  ASSUME TypeOK, Control, Placed, Distinct, [Next]_vars
  PROVE  Distinct'
<1> USE DEF vars, fileVars, agentQueues, shownQueues, runVars, retryVars,
      replyVars, callVars, manualVars, historyVars
<1>0. Placed /\ Distinct /\ TypeOK /\ Control
  OBVIOUS
<1>t. /\ held \in Seq(UserMessage) /\ steeringMessages \in Seq(UserId)
      /\ followUpMessages \in Seq(UserId)
      /\ steeringQueue \in Seq(UserMessage)
      /\ followUpQueue \in Seq(UserMessage)
  BY DEF TypeOK, QueueTypes
<1>w. \A id : /\ ToSet(Without(steeringMessages, id)) \subseteq
                   ToSet(steeringMessages)
              /\ ToSet(Without(followUpMessages, id)) \subseteq
                   ToSet(followUpMessages)
  BY <1>t, ToSetOnly DEF Without
<1>h. held # << >>
        => Apart(Tail(held)) /\ Among(Tail(held)) \subseteq Among(held)
  BY <1>t, AmongTail DEF Distinct
<1>d. ASSUME NEW mode
      PROVE  /\ Apart(Drained(steeringQueue, mode))
             /\ Apart(Remaining(steeringQueue, mode))
             /\ Among(Drained(steeringQueue, mode))
                 \subseteq Among(steeringQueue)
             /\ Among(Remaining(steeringQueue, mode)) \subseteq
                  Among(steeringQueue)
             /\ Among(Drained(steeringQueue, mode)) \intersect
                  Among(Remaining(steeringQueue, mode)) = {}
  BY <1>t, AmongDrained DEF Distinct
<1>f. ASSUME NEW mode
      PROVE  /\ Apart(Drained(followUpQueue, mode))
             /\ Apart(Remaining(followUpQueue, mode))
             /\ Among(Drained(followUpQueue, mode))
                 \subseteq Among(followUpQueue)
             /\ Among(Remaining(followUpQueue, mode)) \subseteq
                  Among(followUpQueue)
             /\ Among(Drained(followUpQueue, mode)) \intersect
                  Among(Remaining(followUpQueue, mode)) = {}
  BY <1>t, AmongDrained DEF Distinct
<1>p. \A p \in Prompters :
        sending[p] \notin Among(steeringQueue) \union Among(followUpQueue)
  BY DEF Distinct
<1>c. sending \in [Prompters -> UserId \union {0}]
  BY DEF TypeOK, CallTypes
<1>k. /\ Among(steeringQueue) \subseteq Known
      /\ Among(followUpQueue) \subseteq Known
      /\ ToSet(steeringMessages) \subseteq Known
      /\ ToSet(followUpMessages) \subseteq Known /\ Among(held) \subseteq Known
      /\ \A p \in Prompters : sending[p] \in Known \union {0}
      /\ nextId \notin Known /\ 0 \notin Known /\ nextId # 0
  <2>1. nextId \notin Known /\ 0 \notin Known /\ nextId # 0
    BY SentIs DEF TypeOK, HistoryTypes, Known
  <2> QED
    BY <2>1, SentAmong DEF Placed
<1>1. CASE Announce
  <2>1. UNCHANGED << sending, steeringQueue, followUpQueue >>
    BY <1>1 DEF Announce
  <2>2. Apart(held') /\ Among(held') \subseteq Among(held)
    BY <1>h, <1>1 DEF Announce
  <2>3. /\ ToSet(steeringMessages') \subseteq ToSet(steeringMessages)
        /\ ToSet(followUpMessages') \subseteq ToSet(followUpMessages)
    BY <1>w, <1>1 DEF Announce
  <2> QED
    BY <1>0, <2>1, <2>2, <2>3 DEF Distinct
<1>2. CASE PollSteering
  <2>1. UNCHANGED << sending, steeringMessages, followUpMessages >>
    BY <1>2 DEF PollSteering
  <2>2. \/ UNCHANGED << held, steeringQueue, followUpQueue >>
        \/ \E mode : /\ held' = Drained(steeringQueue, mode)
                     /\ steeringQueue' = Remaining(steeringQueue, mode)
                     /\ UNCHANGED followUpQueue
        \/ \E mode : /\ held' = Drained(followUpQueue, mode)
                     /\ followUpQueue' = Remaining(followUpQueue, mode)
                     /\ UNCHANGED steeringQueue
    BY <1>2 DEF PollSteering
  <2>3. /\ Apart(held') /\ Apart(steeringQueue') /\ Apart(followUpQueue')
        /\ Among(steeringQueue') \subseteq Among(steeringQueue)
        /\ Among(followUpQueue') \subseteq Among(followUpQueue)
        /\ Among(held') \intersect Among(steeringQueue') = {}
        /\ Among(held') \intersect Among(followUpQueue') = {}
    BY <1>0, <1>d, <1>f, <2>2 DEF Distinct
  <2> QED
    BY <1>0, <2>1, <2>3 DEF Distinct
<1>3. CASE PollFollowUps
  <2>1. UNCHANGED << sending, steeringMessages, followUpMessages >>
    BY <1>3 DEF PollFollowUps
  <2>2. \/ UNCHANGED << held, steeringQueue, followUpQueue >>
        \/ \E mode : /\ held' = Drained(steeringQueue, mode)
                     /\ steeringQueue' = Remaining(steeringQueue, mode)
                     /\ UNCHANGED followUpQueue
        \/ \E mode : /\ held' = Drained(followUpQueue, mode)
                     /\ followUpQueue' = Remaining(followUpQueue, mode)
                     /\ UNCHANGED steeringQueue
    BY <1>3 DEF PollFollowUps
  <2>3. /\ Apart(held') /\ Apart(steeringQueue') /\ Apart(followUpQueue')
        /\ Among(steeringQueue') \subseteq Among(steeringQueue)
        /\ Among(followUpQueue') \subseteq Among(followUpQueue)
        /\ Among(held') \intersect Among(steeringQueue') = {}
        /\ Among(held') \intersect Among(followUpQueue') = {}
    BY <1>0, <1>d, <1>f, <2>2 DEF Distinct
  <2> QED
    BY <1>0, <2>1, <2>3 DEF Distinct
<1>4. ASSUME NEW p \in Prompters, ContinueTranscript(p) PROVE Distinct'
  <2>1. /\ UNCHANGED << sending, steeringMessages, steeringQueue, followUpQueue,
                        followUpMessages >>
        /\ held' = << >>
    BY <1>4 DEF ContinueTranscript, ContinueFrom, BeginRun
  <2> QED
    BY <1>0, <2>1, AmongNone DEF Distinct
<1>5. ASSUME NEW p \in Prompters, ContinueWithQueue(p) PROVE Distinct'
  <2>1. UNCHANGED << sending, steeringMessages, followUpMessages >>
    BY <1>5 DEF ContinueWithQueue, ContinueFrom, BeginRun
  <2>2. \/ UNCHANGED << held, steeringQueue, followUpQueue >>
        \/ \E mode : /\ held' = Drained(steeringQueue, mode)
                     /\ steeringQueue' = Remaining(steeringQueue, mode)
                     /\ UNCHANGED followUpQueue
        \/ \E mode : /\ held' = Drained(followUpQueue, mode)
                     /\ followUpQueue' = Remaining(followUpQueue, mode)
                     /\ UNCHANGED steeringQueue
    BY <1>5 DEF ContinueWithQueue, ContinueFrom, BeginRun
  <2>3. /\ Apart(held') /\ Apart(steeringQueue') /\ Apart(followUpQueue')
        /\ Among(steeringQueue') \subseteq Among(steeringQueue)
        /\ Among(followUpQueue') \subseteq Among(followUpQueue)
        /\ Among(held') \intersect Among(steeringQueue') = {}
        /\ Among(held') \intersect Among(followUpQueue') = {}
    BY <1>0, <1>d, <1>f, <2>2 DEF Distinct
  <2> QED
    BY <1>0, <2>1, <2>3 DEF Distinct
<1>6. ASSUME NEW p \in Prompters, ContinueThrows(p) PROVE Distinct'
  <2>1. UNCHANGED << steeringMessages, steeringQueue, followUpQueue,
                     followUpMessages, held >>
    BY <1>6 DEF ContinueThrows
  <2>2. \A q \in Prompters :
          sending'[q] \notin Among(steeringQueue) \union Among(followUpQueue)
    BY <1>p, <1>c, <1>k, <1>6 DEF ContinueThrows
  <2> QED
    BY <1>0, <2>1, <2>2 DEF Distinct
<1>7. ASSUME NEW p \in Prompters, Send(p) PROVE Distinct'
  <2>1. UNCHANGED << steeringMessages, steeringQueue, followUpQueue,
                     followUpMessages >>
    BY <1>7 DEF Send
  <2>2. \A q \in Prompters :
          sending'[q] \notin Among(steeringQueue) \union Among(followUpQueue)
    BY <1>p, <1>c, <1>k, <1>7 DEF Send
  <2>3. /\ Apart(held')
        /\ Among(held') \intersect Among(steeringQueue) = {}
        /\ Among(held') \intersect Among(followUpQueue) = {}
    <3>1. User(sending[p], "prompt").id = sending[p]
      BY DEF User
    <3>2. \/ UNCHANGED held
          \/ held' = << User(sending[p], "prompt") >>
      BY <1>7 DEF Send, BeginRun
    <3> QED
      BY <1>0, <1>p, <3>1, <3>2, AmongOne DEF Distinct
  <2> QED
    BY <1>0, <2>1, <2>2, <2>3 DEF Distinct
<1>8. ASSUME NEW p \in Prompters, Prompt(p) PROVE Distinct'
  <2>1. UNCHANGED << steeringMessages, steeringQueue, followUpQueue,
                     followUpMessages, held >>
    BY <1>8 DEF Prompt
  <2>2. \A q \in Prompters :
          sending'[q] \notin Among(steeringQueue) \union Among(followUpQueue)
    BY <1>p, <1>c, <1>k, <1>8 DEF Prompt
  <2> QED
    BY <1>0, <2>1, <2>2 DEF Distinct
<1>9. CASE Steer
  <2>1. /\ nextId \in UserId
        /\ UNCHANGED << followUpMessages, followUpQueue, held, sending >>
        /\ steeringMessages' = Append(steeringMessages, nextId)
        /\ steeringQueue' = Append(steeringQueue, User(nextId, "steer"))
    BY <1>9 DEF Steer, Accept, Enqueue
  <2>2. User(nextId, "steer") \in UserMessage
          /\ User(nextId, "steer").id = nextId
    BY <2>1, BuiltMessages DEF User
  <2>3. /\ Among(steeringQueue') = Among(steeringQueue) \union {nextId}
        /\ Apart(steeringQueue')
    BY <1>0, <1>t, <1>k, <2>1, <2>2, AmongAppend DEF Distinct
  <2>4. ToSet(steeringMessages')
          \subseteq ToSet(steeringMessages) \union {nextId}
    <3>1. /\ Len(steeringMessages') = Len(steeringMessages) + 1
          /\ steeringMessages'[Len(steeringMessages) + 1] = nextId
          /\ \A i \in 1..Len(steeringMessages) :
              steeringMessages'[i] = steeringMessages[i]
          /\ DOMAIN steeringMessages' = 1..(Len(steeringMessages) + 1)
          /\ DOMAIN steeringMessages = 1..Len(steeringMessages)
          /\ Len(steeringMessages) \in Nat
      BY <1>t, <2>1, AppendProperties, LenProperties
    <3>2. \A i \in 1..(Len(steeringMessages) + 1) :
            i = Len(steeringMessages) + 1 \/ i \in 1..Len(steeringMessages)
      BY <3>1
    <3> QED
      BY <3>1, <3>2 DEF ToSet
  <2> QED
    BY <1>0, <1>k, <2>1, <2>3, <2>4 DEF Distinct
<1>10. CASE FollowUp
  <2>1. /\ nextId \in UserId
        /\ UNCHANGED << steeringMessages, steeringQueue, held, sending >>
        /\ followUpMessages' = Append(followUpMessages, nextId)
        /\ followUpQueue' = Append(followUpQueue, User(nextId, "followUp"))
    BY <1>10 DEF FollowUp, Accept, Enqueue
  <2>2. User(nextId, "followUp") \in UserMessage
          /\ User(nextId, "followUp").id = nextId
    BY <2>1, BuiltMessages DEF User
  <2>3. /\ Among(followUpQueue') = Among(followUpQueue) \union {nextId}
        /\ Apart(followUpQueue')
    BY <1>0, <1>t, <1>k, <2>1, <2>2, AmongAppend DEF Distinct
  <2>4. ToSet(followUpMessages')
          \subseteq ToSet(followUpMessages) \union {nextId}
    <3>1. /\ Len(followUpMessages') = Len(followUpMessages) + 1
          /\ followUpMessages'[Len(followUpMessages) + 1] = nextId
          /\ \A i \in 1..Len(followUpMessages) :
              followUpMessages'[i] = followUpMessages[i]
          /\ DOMAIN followUpMessages' = 1..(Len(followUpMessages) + 1)
          /\ DOMAIN followUpMessages = 1..Len(followUpMessages)
          /\ Len(followUpMessages) \in Nat
      BY <1>t, <2>1, AppendProperties, LenProperties
    <3>2. \A i \in 1..(Len(followUpMessages) + 1) :
            i = Len(followUpMessages) + 1 \/ i \in 1..Len(followUpMessages)
      BY <3>1
    <3> QED
      BY <3>1, <3>2 DEF ToSet
  <2> QED
    BY <1>0, <1>k, <2>1, <2>3, <2>4 DEF Distinct
<1>11. CASE ClearQueue
  <2>1. /\ steeringQueue' = << >> /\ followUpQueue' = << >>
        /\ steeringMessages' = << >> /\ followUpMessages' = << >>
        /\ UNCHANGED << sending, held >>
    BY <1>11 DEF ClearQueue
  <2>2. ToSet(<< >>) = {}
    BY DEF ToSet
  <2> QED
    BY <1>0, <2>1, <2>2, AmongNone DEF Distinct
<1>12. CASE \/ (\E stop \in Replies : ModelReplies(stop)) \/ ToolEnds \/ Save
            \/ RunEnds \/ (\E p \in Prompters : PrepareRetry(p))
            \/ (\E p \in Prompters : NoRetry(p))
            \/ (\E p \in Prompters : NothingHeard(p))
            \/ (\E p \in Prompters : SleepEnds(p))
            \/ (\E p \in Prompters : NoCompactionNeeded(p))
            \/ (\E p \in Prompters : RecoverFromOverflow(p))
            \/ (\E p \in Prompters : CompactAtThreshold(p))
            \/ (\E p \in Prompters : CompactionSucceeds(p))
            \/ (\E p \in Prompters : CompactionFails(p))
            \/ (\E p \in Prompters : Return(p)) \/ PrepareCompact
            \/ CompactSucceeds \/ CompactFails \/ AbortRetry \/ Abort
            \/ RecordBashResult \/ Compact
  <2>1. UNCHANGED << sending, steeringMessages, steeringQueue, followUpQueue,
                     followUpMessages, held >>
    BY <1>12 DEF ModelReplies, Push, connected, ToolEnds, Save, RunEnds, Goto,
         Disconnected, PrepareRetry, NoRetry, NothingHeard, SleepEnds,
         NoCompactionNeeded, Proceed, RecoverFromOverflow, StartCompaction,
         CompactAtThreshold, CompactionSucceeds, EndCompaction, CompactionFails,
         Return, FlushPendingBashMessages, PrepareCompact, CompactStep,
         CompactSucceeds, CompactFails, AbortRetry, Abort, RecordBashResult,
         Compact
  <2> QED
    BY <1>0, <2>1 DEF Distinct
<1>13. CASE UNCHANGED vars
  BY <1>0, <1>13 DEF Distinct
<1> QED
  BY <1>1, <1>2, <1>3, <1>4, <1>5, <1>6, <1>7, <1>8, <1>9, <1>10, <1>11, <1>12,
       <1>13 DEF Next, Progress, RunStep, CallStep, Operation

-----------------------------------------------------------------------------
(* The queues that are shown *)

\* The parts of ShownQueuesAreTheQueues.
TheIds(ms) == [i \in DOMAIN ms |-> ms[i].id]
Uncleared(via) == { User(id, via) : id \in UserId \ cleared }
HeldBy(via) == Only(held, Uncleared(via))
HeardOf(ids) == Only(ids, UserId \ UnheardIds)

\* ShownQueuesAreTheQueues is the conjunction of its parts.
LEMMA ShownIs ==
  ShownQueuesAreTheQueues <=>
    /\ HeardOf(steeringMessages) = TheIds(HeldBy("steer") \o steeringQueue)
    /\ HeardOf(followUpMessages) = TheIds(HeldBy("followUp") \o followUpQueue)
BY DEF ShownQueuesAreTheQueues, TheIds, HeldBy, HeardOf, Uncleared

HaveIds(T, S) == \A m \in T : m.id \in S

\* The identifiers in a sequence of messages, ...
LEMMA TheIdsAre ==
  ASSUME NEW S, NEW T, HaveIds(T, S),
         NEW s \in Seq(T), NEW t \in Seq(T)
  PROVE  /\ TheIds(s) \in Seq(S) /\ Len(TheIds(s)) = Len(s)
         /\ \A i \in 1..Len(s) : TheIds(s)[i] = s[i].id
         /\ TheIds(s \o t) = TheIds(s) \o TheIds(t)
<1>1. ASSUME NEW r \in Seq(T)
      PROVE  /\ TheIds(r) \in Seq(S) /\ Len(TheIds(r)) = Len(r)
             /\ Len(r) \in Nat /\ \A i \in 1..Len(r) : TheIds(r)[i] = r[i].id
  <2>1. /\ Len(r) \in Nat /\ DOMAIN r = 1..Len(r)
        /\ \A i \in 1..Len(r) : r[i] \in T
    BY LenProperties, ElementOfSeq
  <2>2. TheIds(r) = [i \in 1..Len(r) |-> r[i].id]
    BY <2>1 DEF TheIds
  <2>3. \A i \in 1..Len(r) : r[i].id \in S
    BY <2>1 DEF HaveIds
  <2> HIDE DEF TheIds
  <2>4. TheIds(r) \in [1..Len(r) -> S]
    BY <2>2, <2>3
  <2>5. TheIds(r) \in Seq(S)
    BY <2>1, <2>4, SeqDef
  <2>6. Len(TheIds(r)) = Len(r)
    BY <2>1, <2>4, <2>5, LenProperties
  <2> QED
    BY <2>1, <2>2, <2>5, <2>6
<1>2. /\ s \o t \in Seq(T) /\ Len(s \o t) = Len(s) + Len(t)
      /\ \A i \in 1..(Len(s) + Len(t)) :
           (s \o t)[i] = IF i <= Len(s) THEN s[i] ELSE t[i - Len(s)]
  BY ConcatProperties
<1>3. /\ TheIds(s) \o TheIds(t) \in Seq(S)
      /\ Len(TheIds(s) \o TheIds(t)) = Len(s) + Len(t)
      /\ \A i \in 1..(Len(s) + Len(t)) : (TheIds(s) \o TheIds(t))[i] =
           IF i <= Len(s) THEN TheIds(s)[i] ELSE TheIds(t)[i - Len(s)]
  <2> DEFINE a == TheIds(s)
             b == TheIds(t)
  <2>1. a \in Seq(S) /\ b \in Seq(S) /\ Len(a) = Len(s) /\ Len(b) = Len(t)
    BY <1>1
  <2> HIDE DEF a, b
  <2>2. /\ a \o b \in Seq(S) /\ Len(a \o b) = Len(a) + Len(b)
        /\ \A i \in 1..(Len(a) + Len(b)) :
             (a \o b)[i] = IF i <= Len(a) THEN a[i] ELSE b[i - Len(a)]
    BY <2>1, ConcatProperties
  <2> QED
    BY <2>1, <2>2 DEF a, b
<1>4. ASSUME NEW i \in 1..(Len(s) + Len(t))
      PROVE  TheIds(s \o t)[i] = (TheIds(s) \o TheIds(t))[i]
  <2>1. TheIds(s \o t)[i] = (s \o t)[i].id
    BY <1>1, <1>2
  <2>2. CASE i <= Len(s)
    <3>1. i \in 1..Len(s)
      BY <1>1, <2>2
    <3> QED
      BY <1>1, <1>2, <1>3, <2>1, <2>2, <3>1
  <2>3. CASE ~(i <= Len(s))
    <3>1. i - Len(s) \in 1..Len(t)
      BY <1>1, <2>3
    <3> QED
      BY <1>1, <1>2, <1>3, <2>1, <2>3, <3>1
  <2> QED
    BY <2>2, <2>3
<1>5. TheIds(s \o t) \in Seq(S) /\ Len(TheIds(s \o t)) = Len(s) + Len(t)
  BY <1>1, <1>2
<1>6. TheIds(s \o t) = TheIds(s) \o TheIds(t)
  BY <1>3, <1>4, <1>5, SeqEqual
<1> QED
  BY <1>1, <1>6

\* ... of user messages, ...
LEMMA TheIdsConcat ==
  ASSUME NEW s \in Seq(UserMessage), NEW t \in Seq(UserMessage)
  PROVE  /\ TheIds(s) \in Seq(UserId) /\ Len(TheIds(s)) = Len(s)
         /\ \A i \in 1..Len(s) : TheIds(s)[i] = s[i].id
         /\ TheIds(s \o t) = TheIds(s) \o TheIds(t)
<1>1. HaveIds(UserMessage, UserId)
  BY DEF UserMessage, HaveIds
<1> QED
  BY <1>1, TheIdsAre

\* ... and in one message.
LEMMA TheIdsOne == ASSUME NEW m PROVE TheIds(<< m >>) = << m.id >>
<1>1. DOMAIN << m >> = {1} /\ << m >>[1] = m
  OBVIOUS
<1>2. TheIds(<< m >>) = [i \in {1} |-> m.id]
        /\ << m.id >> = [i \in {1} |-> m.id]
  BY <1>1 DEF TheIds
<1> QED
  BY <1>2

\* What is not heard or is not shown any more is missing from the list.
Leaves(id, ids, U, ids2, V) ==
    \/ ids2 = Without(ids, id) /\ V = U
    \/ id \notin ToSet(ids) /\ ids2 = ids /\ V = U
    \/ ids2 = ids /\ V = U \union {id}

\* One identifier is missing from what is heard of a list.
LEMMA Missing ==
  ASSUME NEW ids \in Seq(UserId), NEW id, NEW ids2, NEW U, NEW V,
         Leaves(id, ids, U, ids2, V)
  PROVE  Only(ids2, UserId \ V) = Only(Only(ids, UserId \ U), UserId \ {id})
<1>1. Only(Only(ids, UserId \ U), UserId \ {id})
        = Only(ids, (UserId \ U) \intersect (UserId \ {id}))
  BY OnlyTwice
<1>2. CASE ids2 = Without(ids, id) /\ V = U
  <2>1. Only(ids2, UserId \ V)
          = Only(ids, (UserId \ {id}) \intersect (UserId \ U))
    BY <1>2, OnlyTwice DEF Without
  <2>2. (UserId \ {id}) \intersect (UserId \ U)
          = (UserId \ U) \intersect (UserId \ {id})
    OBVIOUS
  <2> QED
    BY <1>1, <2>1, <2>2
<1>3. CASE id \notin ToSet(ids) /\ ids2 = ids /\ V = U
  <2>1. ids \in Seq(UserId \ {id})
    <3>1. ids \in Seq(ToSet(ids))
      BY SeqOfItself
    <3>2. ToSet(ids) \subseteq UserId \ {id}
      BY <1>3, LenProperties, ElementOfSeq DEF ToSet
    <3> QED
      BY <3>1, <3>2, SeqMonotonic
  <2>2. Only(ids, UserId \ U) \in Seq(UserId \ {id})
    BY <2>1, OnlyKeeps
  <2>3. Only(Only(ids, UserId \ U), UserId \ {id}) = Only(ids, UserId \ U)
    BY <2>2, OnlyAll
  <2> QED
    BY <1>3, <2>3
<1>4. CASE ids2 = ids /\ V = U \union {id}
  <2>1. UserId \ V = (UserId \ U) \intersect (UserId \ {id})
    BY <1>4
  <2> QED
    BY <1>1, <1>4, <2>1
<1> QED
  BY <1>2, <1>3, <1>4 DEF Leaves

\* A message that is announced leaves the messages held and the list.
LEMMA Announced ==
  ASSUME NEW via, NEW queue \in Seq(UserMessage), NEW ids,
         held \in Seq(UserMessage), held # << >>, Apart(held),
         Among(held) \intersect Among(queue) = {},
         ids = TheIds(HeldBy(via) \o queue),
         held' = Tail(held), UNCHANGED cleared
  PROVE  Only(ids, UserId \ {Head(held).id}) = TheIds(HeldBy(via)' \o queue)
<1> DEFINE m == Head(held)
           Other == { u \in UserMessage : u.id \in UserId \ {m.id} }
           one == << m >>
<1>1. /\ m \in UserMessage /\ Tail(held) \in Seq(UserMessage)
      /\ m.id \in Among(held) /\ m.id \notin Among(Tail(held))
      /\ m.id \in UserId
  <2>1. m \in UserMessage /\ Tail(held) \in Seq(UserMessage)
    BY HeadTailProperties
  <2>2. m.id \in Among(held) /\ m.id \notin Among(Tail(held))
    BY AmongTail
  <2> HIDE DEF m
  <2> QED
    BY <2>1, <2>2 DEF UserMessage
<1>0. \A u \in UserMessage : u.id \in UserId
  BY DEF UserMessage
<1>2. Tail(held) \in Seq(Other) /\ queue \in Seq(Other)
  <2>1. ASSUME NEW s \in Seq(UserMessage), m.id \notin Among(s)
        PROVE  s \in Seq(Other)
    <3>1. s \in Seq(ToSet(s))
      BY SeqOfItself
    <3>2. ToSet(s) \subseteq Other
      BY <1>0, <2>1, LenProperties, ElementOfSeq DEF ToSet, Among
    <3> QED
      BY <3>1, <3>2, SeqMonotonic
  <2>2. m.id \notin Among(queue)
    BY <1>1
  <2> QED
    BY <1>1, <2>1, <2>2
<1>3. HeldBy(via)' = Only(Tail(held), Uncleared(via))
  BY DEF HeldBy, Uncleared
<1>4. HeldBy(via)' \in Seq(Other)
  BY <1>2, <1>3, OnlyKeeps
<1> HIDE DEF m
<1>5. HeldBy(via) = (IF m \in Uncleared(via) THEN << m >> ELSE << >>)
                      \o HeldBy(via)'
  BY <1>3, OnlyHead DEF HeldBy, m
<1> DEFINE rest == HeldBy(via)' \o queue
<1>6. rest \in Seq(Other) /\ TheIds(rest) \in Seq(UserId \ {m.id})
  <2>1. rest \in Seq(Other)
    BY <1>2, <1>4, ConcatProperties
  <2> HIDE DEF rest
  <2>2. HaveIds(Other, UserId \ {m.id})
    BY DEF HaveIds
  <2> HIDE DEF Other
  <2> QED
    BY <2>1, <2>2, TheIdsAre
<1>7. Only(TheIds(rest), UserId \ {m.id}) = TheIds(rest)
  <2> HIDE DEF rest
  <2> QED
    BY <1>6, OnlyAll
<1>8. CASE m \in Uncleared(via)
  <2>1. HeldBy(via) \o queue = << m >> \o rest
    <3>1. /\ << m >> \in Seq(UserMessage) /\ HeldBy(via)' \in Seq(UserMessage)
          /\ HeldBy(via) = << m >> \o HeldBy(via)'
      <4>1. Other \subseteq UserMessage
        OBVIOUS
      <4>2. HeldBy(via)' \in Seq(UserMessage)
        BY <1>4, <4>1, SeqMonotonic
      <4> QED
        BY <1>1, <1>5, <1>8, <4>2 DEF m
    <3>2. (<< m >> \o HeldBy(via)') \o queue
            = << m >> \o (HeldBy(via)' \o queue)
      BY <3>1, ConcatAssociative
    <3> QED
      BY <3>1, <3>2
  <2>2. ids = << m.id >> \o TheIds(rest)
    <3>1. << m >> \in Seq(UserMessage) /\ rest \in Seq(UserMessage)
      <4>1. Other \subseteq UserMessage
        OBVIOUS
      <4> HIDE DEF rest
      <4>2. rest \in Seq(UserMessage)
        BY <1>6, <4>1, SeqMonotonic
      <4> QED
        BY <1>1, <4>2 DEF m
    <3>4. one \in Seq(UserMessage)
      BY <3>1
    <3> HIDE DEF rest, one
    <3>3. TheIds(one \o rest) = TheIds(one) \o TheIds(rest)
      BY <3>1, <3>4, TheIdsConcat
    <3>5. TheIds(one) = << m.id >>
      BY TheIdsOne DEF one
    <3> QED
      BY <2>1, <3>3, <3>5 DEF one
  <2>3. /\ << m.id >> \in Seq(UserId) /\ TheIds(rest) \in Seq(UserId)
        /\ Only(<< m.id >>, UserId \ {m.id}) = << >>
    <3>1. Seq(UserId \ {m.id}) \subseteq Seq(UserId)
      BY SeqMonotonic
    <3> QED
      BY <1>1, <1>6, <3>1, OnlyOne DEF m
  <2> DEFINE a == << m.id >>
             b == TheIds(rest)
             S == UserId \ {m.id}
  <2>6. a \in Seq(UserId) /\ b \in Seq(UserId)
    BY <2>3
  <2> HIDE DEF a, b, S
  <2>7. Only(a \o b, S) = Only(a, S) \o Only(b, S)
    BY <2>6, OnlyConcat
  <2>4. Only(ids, UserId \ {m.id})
          = Only(<< m.id >>, UserId \ {m.id})
              \o Only(TheIds(rest), UserId \ {m.id})
    BY <2>2, <2>7 DEF a, b, S
  <2> HIDE DEF rest
  <2>5. Only(ids, UserId \ {m.id}) = TheIds(rest)
    BY <1>7, <2>3, <2>4, ConcatEmptySeq
  <2> QED
    BY <2>5 DEF rest, m
<1>9. CASE m \notin Uncleared(via)
  <2>1. HeldBy(via) = HeldBy(via)'
    BY <1>4, <1>5, <1>9, ConcatEmptySeq
  <2>2. ids = TheIds(rest)
    BY <2>1
  <2> QED
    BY <1>7, <2>2 DEF m
<1> QED
  BY <1>8, <1>9

\* A run takes messages from a queue when it holds none.
LEMMA Taken ==
  ASSUME TypeOK, Placed, held = << >>, UNCHANGED cleared,
         NEW via \in {"steer", "followUp"}, NEW other \in {"steer", "followUp"},
         via # other, NEW queue \in Seq(Sent(via)), NEW mode,
         held' = Drained(queue, mode)
  PROVE  /\ HeldBy(via)' \o Remaining(queue, mode) = HeldBy(via) \o queue
         /\ HeldBy(other)' = HeldBy(other)
<1>1. HeldBy(via) = << >> /\ HeldBy(other) = << >>
  BY OnlyNil DEF HeldBy
<1>2. /\ Drained(queue, mode) \in Seq(Sent(via))
      /\ Drained(queue, mode) \o Remaining(queue, mode) = queue
  BY QueuesAre
<1>3. /\ HeldBy(via)' = Only(Drained(queue, mode), Uncleared(via))
      /\ HeldBy(other)' = Only(Drained(queue, mode), Uncleared(other))
  BY DEF HeldBy, Uncleared
<1>4. Sent(via) \subseteq Uncleared(via)
  BY SentIs DEF Sent, Uncleared
<1>5. \A m \in Sent(via) : m \notin Uncleared(other)
  BY DEF Sent, Uncleared, User
<1>6. HeldBy(via)' = Drained(queue, mode)
  <2>1. Drained(queue, mode) \in Seq(Uncleared(via))
    BY <1>2, <1>4, SeqMonotonic
  <2> QED
    BY <1>3, <2>1, OnlyAll
<1>7. HeldBy(other)' = << >>
  BY <1>2, <1>3, <1>5, OnlyNone
<1> QED
  BY <1>1, <1>2, <1>6, <1>7, ConcatEmptySeq

\* The elements of both parts.
LEMMA ToSetConcat ==
  ASSUME NEW T, NEW s \in Seq(T), NEW t \in Seq(T)
  PROVE  ToSet(s) \subseteq ToSet(s \o t) /\ ToSet(t) \subseteq ToSet(s \o t)
<1>1. /\ Len(s) \in Nat /\ Len(t) \in Nat
      /\ DOMAIN s = 1..Len(s) /\ DOMAIN t = 1..Len(t)
      /\ DOMAIN (s \o t) = 1..(Len(s) + Len(t))
      /\ \A i \in 1..(Len(s) + Len(t)) :
           (s \o t)[i] = IF i <= Len(s) THEN s[i] ELSE t[i - Len(s)]
  BY LenProperties, ConcatProperties
<1>2. ASSUME NEW i \in 1..Len(s) PROVE s[i] \in ToSet(s \o t)
  <2>1. i \in 1..(Len(s) + Len(t)) /\ i <= Len(s)
    BY <1>1
  <2> QED
    BY <1>1, <2>1 DEF ToSet
<1>3. ASSUME NEW i \in 1..Len(t) PROVE t[i] \in ToSet(s \o t)
  <2>1. /\ i + Len(s) \in 1..(Len(s) + Len(t)) /\ ~(i + Len(s) <= Len(s))
        /\ (i + Len(s)) - Len(s) = i
    BY <1>1
  <2> QED
    BY <1>1, <2>1 DEF ToSet
<1> QED
  BY <1>1, <1>2, <1>3 DEF ToSet

\* Every step keeps the lists what they are.
LEMMA ShownPreserved ==
  ASSUME TypeOK, Control, Placed, Distinct, ShownQueuesAreTheQueues, [Next]_vars
  PROVE  ShownQueuesAreTheQueues'
<1> USE DEF vars, fileVars, agentQueues, shownQueues, runVars, retryVars,
      replyVars, callVars, manualVars, historyVars
<1>0. Placed /\ Distinct /\ TypeOK /\ Control
  OBVIOUS
<1>t. /\ held \in Seq(UserMessage) /\ steeringMessages \in Seq(UserId)
      /\ followUpMessages \in Seq(UserId)
      /\ steeringQueue \in Seq(UserMessage)
      /\ followUpQueue \in Seq(UserMessage)
  BY DEF TypeOK, QueueTypes
<1>e. /\ HeardOf(steeringMessages) = TheIds(HeldBy("steer") \o steeringQueue)
      /\ HeardOf(followUpMessages) = TheIds(HeldBy("followUp") \o followUpQueue)
  BY ShownIs
<1> DEFINE Goal ==
      /\ Only(steeringMessages', UserId \ UnheardIds')
           = TheIds(HeldBy("steer")' \o steeringQueue')
      /\ Only(followUpMessages', UserId \ UnheardIds')
           = TheIds(HeldBy("followUp")' \o followUpQueue')
<1>k. ASSUME UNCHANGED << steeringMessages, followUpMessages, cleared,
                          UnheardIds >>,
             HeldBy("steer")' \o steeringQueue'
               = HeldBy("steer") \o steeringQueue,
             HeldBy("followUp")' \o followUpQueue'
               = HeldBy("followUp") \o followUpQueue
      PROVE  Goal
  <2>1. /\ Only(steeringMessages, UserId \ UnheardIds)
             = TheIds(HeldBy("steer") \o steeringQueue)
        /\ Only(followUpMessages, UserId \ UnheardIds)
             = TheIds(HeldBy("followUp") \o followUpQueue)
    BY <1>e DEF HeardOf
  <2> QED
    BY <1>k, <2>1
<1>h. UNCHANGED << held, cleared >> =>
        /\ HeldBy("steer")' = HeldBy("steer")
        /\ HeldBy("followUp")' = HeldBy("followUp")
  BY DEF HeldBy, Uncleared
<1>n. ASSUME owner = NoOne \/ runPc = "pollFollowUps" PROVE held = << >>
  BY <1>0, <1>n DEF Control, RunOK
<1>p. /\ steeringQueue \in Seq(Sent("steer"))
      /\ followUpQueue \in Seq(Sent("followUp"))
  BY DEF Placed
<1>s. ASSUME held = << >>, NEW mode, held' = Drained(steeringQueue, mode),
             steeringQueue' = Remaining(steeringQueue, mode),
             UNCHANGED << steeringMessages, followUpMessages, cleared,
                          UnheardIds,
                          followUpQueue >>
      PROVE  Goal
  <2>1. /\ HeldBy("steer")' \o Remaining(steeringQueue, mode)
             = HeldBy("steer") \o steeringQueue
        /\ HeldBy("followUp")' = HeldBy("followUp")
    BY <1>0, <1>p, <1>s, Taken
  <2> HIDE DEF Goal
  <2> QED
    BY <1>k, <1>s, <2>1
<1>f. ASSUME held = << >>, NEW mode, held' = Drained(followUpQueue, mode),
             followUpQueue' = Remaining(followUpQueue, mode),
             UNCHANGED << steeringMessages, followUpMessages, cleared,
                          UnheardIds,
                          steeringQueue >>
      PROVE  Goal
  <2>1. /\ HeldBy("followUp")' \o Remaining(followUpQueue, mode)
             = HeldBy("followUp") \o followUpQueue
        /\ HeldBy("steer")' = HeldBy("steer")
    BY <1>0, <1>p, <1>f, Taken
  <2> HIDE DEF Goal
  <2> QED
    BY <1>k, <1>f, <2>1
<1>u. ASSUME UNCHANGED << steeringMessages, followUpMessages, cleared,
                          UnheardIds,
                          steeringQueue, followUpQueue, held >>
      PROVE  Goal
  <2> HIDE DEF Goal
  <2> QED
    BY <1>h, <1>k, <1>u
<1> SUFFICES Goal
  BY DEF Goal, ShownQueuesAreTheQueues, TheIds, HeldBy, Uncleared
<1> HIDE DEF Goal
<1>1. CASE Announce
  <2> DEFINE id == Head(held).id
  <2>1. /\ held # << >> /\ held' = Tail(held)
        /\ UNCHANGED << cleared, steeringQueue, followUpQueue >>
    BY <1>1 DEF Announce
  <2>2. Head(held) \in UserMessage
    BY <1>t, <2>1, HeadTailProperties
  <2>3. \/ ~connected /\ UnheardIds' = UnheardIds \union {id}
        \/ connected /\ UnheardIds' = UnheardIds
    BY <1>1, <2>2, UnheardIs DEF Announce, Push
  <2>c. Contains(steeringMessages, id) <=> id \in ToSet(steeringMessages)
    BY <1>t, LenProperties DEF Contains, ToSet
  <2> HIDE DEF id
  <2>4. Leaves(id, steeringMessages, UnheardIds, steeringMessages', UnheardIds')
    BY <1>1, <2>3, <2>c DEF Announce, Leaves, id
  <2>5. Leaves(id, followUpMessages, UnheardIds, followUpMessages', UnheardIds')
    <3>1. id \notin ToSet(steeringMessages) \/ id \notin ToSet(followUpMessages)
      BY DEF Distinct
    <3> QED
      BY <1>1, <2>3, <2>c, <3>1 DEF Announce, Leaves, id
  <2>6. Only(steeringMessages', UserId \ UnheardIds')
          = Only(HeardOf(steeringMessages), UserId \ {id})
    BY <1>t, <2>4, Missing DEF HeardOf
  <2>7. Only(followUpMessages', UserId \ UnheardIds')
          = Only(HeardOf(followUpMessages), UserId \ {id})
    BY <1>t, <2>5, Missing DEF HeardOf
  <2>8. /\ Apart(held) /\ Among(held) \intersect Among(steeringQueue) = {}
        /\ Among(held) \intersect Among(followUpQueue) = {}
    BY DEF Distinct
  <2>9. Only(HeardOf(steeringMessages), UserId \ {id})
          = TheIds(HeldBy("steer")' \o steeringQueue)
    BY <1>t, <1>e, <2>1, <2>8, Announced DEF id
  <2>10. Only(HeardOf(followUpMessages), UserId \ {id})
           = TheIds(HeldBy("followUp")' \o followUpQueue)
    BY <1>t, <1>e, <2>1, <2>8, Announced DEF id
  <2> QED
    BY <2>1, <2>6, <2>7, <2>9, <2>10 DEF Goal
<1>2. ASSUME NEW stop \in Replies, ModelReplies(stop) PROVE Goal
  <2>1. UNCHANGED << cleared, steeringQueue, followUpQueue, steeringMessages,
                     followUpMessages, held >>
    BY <1>2 DEF ModelReplies
  <2>2. UNCHANGED UnheardIds
    <3>1. UNCHANGED unheard
            \/ unheard' = unheard \union {Reply(replies + 1, stop)}
      BY <1>2 DEF ModelReplies, Push
    <3>2. Reply(replies + 1, stop).kind # "user"
      BY DEF Reply
    <3> QED
      BY <3>1, <3>2, UnheardIs
  <2> QED
    BY <1>u, <2>1, <2>2
<1>3. CASE ToolEnds
  <2>1. UNCHANGED << cleared, steeringQueue, followUpQueue, steeringMessages,
                     followUpMessages, held >>
    BY <1>3 DEF ToolEnds
  <2>2. UNCHANGED UnheardIds
    <3>1. UNCHANGED unheard \/ unheard' = unheard \union {Result(replies)}
      BY <1>3 DEF ToolEnds, Push
    <3>2. Result(replies).kind # "user"
      BY DEF Result
    <3> QED
      BY <3>1, <3>2, UnheardIs
  <2> QED
    BY <1>u, <2>1, <2>2
<1>4. CASE PollSteering
  <2>1. /\ held = << >>
        /\ UNCHANGED << steeringMessages, followUpMessages, cleared, UnheardIds,
                        followUpQueue >>
    BY <1>4, UnheardIs DEF PollSteering
  <2>2. CASE skipPoll
    BY <1>4, <1>u, <2>1, <2>2 DEF PollSteering
  <2>3. CASE ~skipPoll
    <3>1. PICK mode \in QueueModes :
            /\ held' = Drained(steeringQueue, mode)
            /\ steeringQueue' = Remaining(steeringQueue, mode)
      BY <1>4, <2>3 DEF PollSteering
    <3> QED
      BY <1>s, <2>1, <3>1
  <2> QED
    BY <2>2, <2>3
<1>5. CASE PollFollowUps
  <2>1. /\ held = << >>
        /\ UNCHANGED << steeringMessages, followUpMessages, cleared, UnheardIds,
                        steeringQueue >>
    BY <1>5, <1>n, UnheardIs DEF PollFollowUps
  <2>2. PICK mode \in QueueModes :
          /\ held' = Drained(followUpQueue, mode)
          /\ followUpQueue' = Remaining(followUpQueue, mode)
    BY <1>5 DEF PollFollowUps
  <2> QED
    BY <1>f, <2>1, <2>2
<1>6. ASSUME NEW p \in Prompters, ContinueTranscript(p) PROVE Goal
  <2>1. /\ held = << >> /\ held' = << >>
        /\ UNCHANGED << steeringMessages, followUpMessages, cleared, UnheardIds,
                        steeringQueue, followUpQueue >>
    BY <1>6, <1>n, UnheardIs
       DEF ContinueTranscript, ContinueFrom, BeginRun, isStreaming
  <2> QED
    BY <1>u, <2>1
<1>7. ASSUME NEW p \in Prompters, ContinueWithQueue(p) PROVE Goal
  <2>1. /\ held = << >>
        /\ UNCHANGED << steeringMessages, followUpMessages, cleared,
                        UnheardIds >>
    BY <1>7, <1>n, UnheardIs
       DEF ContinueWithQueue, ContinueFrom, isStreaming
  <2>2. CASE steeringQueue # << >>
    <3>1. PICK mode \in QueueModes :
            /\ held' = Drained(steeringQueue, mode)
            /\ steeringQueue' = Remaining(steeringQueue, mode)
            /\ UNCHANGED followUpQueue
      BY <1>7, <2>2 DEF ContinueWithQueue, ContinueFrom, BeginRun
    <3> QED
      BY <1>s, <2>1, <3>1
  <2>3. CASE steeringQueue = << >>
    <3>1. PICK mode \in QueueModes :
            /\ held' = Drained(followUpQueue, mode)
            /\ followUpQueue' = Remaining(followUpQueue, mode)
            /\ UNCHANGED steeringQueue
      BY <1>7, <2>3 DEF ContinueWithQueue, ContinueFrom, BeginRun
    <3> QED
      BY <1>f, <2>1, <3>1
  <2> QED
    BY <2>2, <2>3
<1>8. ASSUME NEW p \in Prompters, Send(p) PROVE Goal
  <2>1. UNCHANGED << steeringMessages, followUpMessages, cleared, UnheardIds,
                     steeringQueue, followUpQueue >>
    BY <1>8, UnheardIs DEF Send
  <2>2. CASE isStreaming
    BY <1>8, <1>u, <2>1, <2>2 DEF Send
  <2>3. CASE ~isStreaming
    <3>1. held = << >> /\ held' = << User(sending[p], "prompt") >>
      BY <1>8, <1>n, <2>3 DEF Send, BeginRun, isStreaming
    <3>2. /\ HeldBy("steer") = << >> /\ HeldBy("followUp") = << >>
      BY <3>1, OnlyNil DEF HeldBy
    <3>3. /\ User(sending[p], "prompt") \notin Uncleared("steer")'
          /\ User(sending[p], "prompt") \notin Uncleared("followUp")'
      BY DEF User, Uncleared
    <3>4. /\ HeldBy("steer")' = << >> /\ HeldBy("followUp")' = << >>
      BY <3>1, <3>3, OnlyOne DEF HeldBy
    <3> QED
      BY <1>k, <2>1, <3>2, <3>4
  <2> QED
    BY <2>2, <2>3
<1>9. CASE Steer
  <2>1. /\ nextId \in UserId /\ UNCHANGED << followUpMessages, followUpQueue >>
        /\ UNCHANGED << held, cleared, UnheardIds >>
        /\ steeringMessages' = Append(steeringMessages, nextId)
        /\ steeringQueue' = Append(steeringQueue, User(nextId, "steer"))
    BY <1>9, UnheardIs DEF Steer, Accept, Enqueue
  <2>2. /\ HeldBy("steer")' = HeldBy("steer")
        /\ HeldBy("followUp")' = HeldBy("followUp")
    BY <1>h, <2>1
  <2>3. nextId \in UserId \ UnheardIds
    BY <1>0, <2>1, SentIs DEF Placed
  <2>4. Only(steeringMessages', UserId \ UnheardIds')
          = Append(HeardOf(steeringMessages), nextId)
    <3>1. Only(Append(steeringMessages, nextId), UserId \ UnheardIds)
            = OneMore(HeardOf(steeringMessages), nextId, UserId \ UnheardIds)
      BY <1>t, <2>1, OnlyAppend DEF HeardOf
    <3> QED
      BY <2>1, <2>3, <3>1 DEF OneMore
  <2> DEFINE m == User(nextId, "steer")
             h == HeldBy("steer")
  <2>5. m \in UserMessage /\ m.id = nextId
    BY <2>1, BuiltMessages DEF User
  <2>6. h \in Seq(UserMessage) /\ << m >> \in Seq(UserMessage)
    <3>1. h \in Seq(UserMessage)
      BY <1>t, OnlyKeeps DEF HeldBy
    <3> HIDE DEF m
    <3> QED
      BY <2>5, <3>1
  <2> HIDE DEF h, m
  <2>7. h \o steeringQueue' = (h \o steeringQueue) \o << m >>
    <3>1. steeringQueue' = steeringQueue \o << m >>
      BY <1>t, <2>1, <2>6, AppendIsConcat DEF m
    <3> QED
      BY <1>t, <2>6, <3>1, ConcatAssociative
  <2>8. h \o steeringQueue \in Seq(UserMessage)
    BY <1>t, <2>6, ConcatProperties
  <2>9. /\ TheIds((h \o steeringQueue) \o << m >>)
             = TheIds(h \o steeringQueue) \o TheIds(<< m >>)
        /\ TheIds(h \o steeringQueue) \in Seq(UserId)
    BY <2>6, <2>8, TheIdsConcat
  <2>10. TheIds(<< m >>) = << nextId >>
    BY <2>5, TheIdsOne
  <2>11. TheIds(h \o steeringQueue) = HeardOf(steeringMessages)
    BY <1>e DEF h
  <2>12. Append(HeardOf(steeringMessages), nextId)
           = HeardOf(steeringMessages) \o << nextId >>
    BY <2>1, <2>9, <2>11, AppendIsConcat
  <2>13. Only(steeringMessages', UserId \ UnheardIds')
           = TheIds(h \o steeringQueue')
    BY <2>4, <2>7, <2>9, <2>10, <2>11, <2>12
  <2>14. Only(followUpMessages', UserId \ UnheardIds')
           = TheIds(HeldBy("followUp")' \o followUpQueue')
    <3>1. Only(followUpMessages, UserId \ UnheardIds)
            = TheIds(HeldBy("followUp") \o followUpQueue)
      BY <1>e DEF HeardOf
    <3> QED
      BY <2>1, <2>2, <3>1
  <2> QED
    BY <2>2, <2>13, <2>14 DEF Goal, h
<1>10. CASE FollowUp
  <2>1. /\ nextId \in UserId /\ UNCHANGED << steeringMessages, steeringQueue >>
        /\ UNCHANGED << held, cleared, UnheardIds >>
        /\ followUpMessages' = Append(followUpMessages, nextId)
        /\ followUpQueue' = Append(followUpQueue, User(nextId, "followUp"))
    BY <1>10, UnheardIs DEF FollowUp, Accept, Enqueue
  <2>2. /\ HeldBy("steer")' = HeldBy("steer")
        /\ HeldBy("followUp")' = HeldBy("followUp")
    BY <1>h, <2>1
  <2>3. nextId \in UserId \ UnheardIds
    BY <1>0, <2>1, SentIs DEF Placed
  <2>4. Only(followUpMessages', UserId \ UnheardIds')
          = Append(HeardOf(followUpMessages), nextId)
    <3>1. Only(Append(followUpMessages, nextId), UserId \ UnheardIds)
            = OneMore(HeardOf(followUpMessages), nextId, UserId \ UnheardIds)
      BY <1>t, <2>1, OnlyAppend DEF HeardOf
    <3> QED
      BY <2>1, <2>3, <3>1 DEF OneMore
  <2> DEFINE m == User(nextId, "followUp")
             h == HeldBy("followUp")
  <2>5. m \in UserMessage /\ m.id = nextId
    BY <2>1, BuiltMessages DEF User
  <2>6. h \in Seq(UserMessage) /\ << m >> \in Seq(UserMessage)
    <3>1. h \in Seq(UserMessage)
      BY <1>t, OnlyKeeps DEF HeldBy
    <3> HIDE DEF m
    <3> QED
      BY <2>5, <3>1
  <2> HIDE DEF h, m
  <2>7. h \o followUpQueue' = (h \o followUpQueue) \o << m >>
    <3>1. followUpQueue' = followUpQueue \o << m >>
      BY <1>t, <2>1, <2>6, AppendIsConcat DEF m
    <3> QED
      BY <1>t, <2>6, <3>1, ConcatAssociative
  <2>8. h \o followUpQueue \in Seq(UserMessage)
    BY <1>t, <2>6, ConcatProperties
  <2>9. /\ TheIds((h \o followUpQueue) \o << m >>)
             = TheIds(h \o followUpQueue) \o TheIds(<< m >>)
        /\ TheIds(h \o followUpQueue) \in Seq(UserId)
    BY <2>6, <2>8, TheIdsConcat
  <2>10. TheIds(<< m >>) = << nextId >>
    BY <2>5, TheIdsOne
  <2>11. TheIds(h \o followUpQueue) = HeardOf(followUpMessages)
    BY <1>e DEF h
  <2>12. Append(HeardOf(followUpMessages), nextId)
           = HeardOf(followUpMessages) \o << nextId >>
    BY <2>1, <2>9, <2>11, AppendIsConcat
  <2>13. Only(followUpMessages', UserId \ UnheardIds')
           = TheIds(h \o followUpQueue')
    BY <2>4, <2>7, <2>9, <2>10, <2>11, <2>12
  <2>14. Only(steeringMessages', UserId \ UnheardIds')
           = TheIds(HeldBy("steer")' \o steeringQueue')
    <3>1. Only(steeringMessages, UserId \ UnheardIds)
            = TheIds(HeldBy("steer") \o steeringQueue)
      BY <1>e DEF HeardOf
    <3> QED
      BY <2>1, <2>2, <3>1
  <2> QED
    BY <2>2, <2>13, <2>14 DEF Goal, h
<1>11. CASE ClearQueue
  <2>1. /\ steeringQueue' = << >> /\ followUpQueue' = << >>
        /\ steeringMessages' = << >> /\ followUpMessages' = << >>
        /\ UNCHANGED << held, UnheardIds >> /\ cleared \subseteq cleared'
    BY <1>11, UnheardIs DEF ClearQueue
  <2>2. /\ ToSet(steeringMessages) \subseteq cleared'
        /\ ToSet(followUpMessages) \subseteq cleared'
    <3>1. ToSet(steeringMessages \o followUpMessages) \subseteq cleared'
      BY <1>11 DEF ClearQueue
    <3> QED
      BY <1>t, <3>1, ToSetConcat
  <2>3. HeldBy("steer")' = << >>
    <3> DEFINE T == { u \in UserMessage : u \notin Uncleared("steer")' }
    <3>1. ASSUME NEW i \in 1..Len(held), held[i] \in Uncleared("steer")'
          PROVE  FALSE
      <4>1. held[i] \in Uncleared("steer") /\ held[i].id \notin cleared'
        BY <3>1, <2>1 DEF Uncleared, User
      <4>2. PICK j \in 1..Len(HeldBy("steer")) : HeldBy("steer")[j] = held[i]
        BY <1>t, <4>1, OnlyHas DEF HeldBy
      <4> DEFINE h == HeldBy("steer")
      <4>3. h \in Seq(UserMessage)
        BY <1>t, OnlyKeeps DEF HeldBy
      <4> HIDE DEF h
      <4>4. /\ h \o steeringQueue \in Seq(UserMessage)
            /\ j \in 1..Len(h \o steeringQueue)
            /\ (h \o steeringQueue)[j] = held[i]
        BY <1>t, <4>2, <4>3, ConcatProperties, LenProperties DEF h
      <4>5. /\ j \in 1..Len(HeardOf(steeringMessages))
            /\ HeardOf(steeringMessages)[j] = held[i].id
        BY <1>e, <4>4, TheIdsConcat DEF h
      <4>6. held[i].id \in ToSet(steeringMessages)
        <5>1. /\ HeardOf(steeringMessages) \in Seq(UserId)
              /\ ToSet(HeardOf(steeringMessages))
                   \subseteq ToSet(steeringMessages)
          BY <1>t, OnlyKeeps, ToSetOnly DEF HeardOf
        <5>2. held[i].id \in ToSet(HeardOf(steeringMessages))
          BY <4>5, <5>1, LenProperties DEF ToSet
        <5> QED
          BY <5>1, <5>2
      <4> QED
        BY <2>2, <4>1, <4>6
    <3>2. held \in Seq(T)
      <4>1. held \in [1..Len(held) -> UserMessage] /\ Len(held) \in Nat
        BY <1>t, LenProperties
      <4>2. held \in [1..Len(held) -> T]
        BY <3>1, <4>1
      <4> QED
        BY <4>1, <4>2, SeqDef
    <3>3. \A u \in T : u \notin Uncleared("steer")'
      OBVIOUS
    <3> HIDE DEF T
    <3>4. Only(held, Uncleared("steer")') = << >>
      BY <3>2, <3>3, OnlyNone
    <3> QED
      BY <2>1, <3>4 DEF HeldBy
  <2>4. HeldBy("followUp")' = << >>
    <3> DEFINE T == { u \in UserMessage : u \notin Uncleared("followUp")' }
    <3>1. ASSUME NEW i \in 1..Len(held), held[i] \in Uncleared("followUp")'
          PROVE  FALSE
      <4>1. held[i] \in Uncleared("followUp") /\ held[i].id \notin cleared'
        BY <3>1, <2>1 DEF Uncleared, User
      <4>2. PICK j \in 1..Len(HeldBy("followUp")) :
                 HeldBy("followUp")[j] = held[i]
        BY <1>t, <4>1, OnlyHas DEF HeldBy
      <4> DEFINE h == HeldBy("followUp")
      <4>3. h \in Seq(UserMessage)
        BY <1>t, OnlyKeeps DEF HeldBy
      <4> HIDE DEF h
      <4>4. /\ h \o followUpQueue \in Seq(UserMessage)
            /\ j \in 1..Len(h \o followUpQueue)
            /\ (h \o followUpQueue)[j] = held[i]
        BY <1>t, <4>2, <4>3, ConcatProperties, LenProperties DEF h
      <4>5. /\ j \in 1..Len(HeardOf(followUpMessages))
            /\ HeardOf(followUpMessages)[j] = held[i].id
        BY <1>e, <4>4, TheIdsConcat DEF h
      <4>6. held[i].id \in ToSet(followUpMessages)
        <5>1. /\ HeardOf(followUpMessages) \in Seq(UserId)
              /\ ToSet(HeardOf(followUpMessages))
                   \subseteq ToSet(followUpMessages)
          BY <1>t, OnlyKeeps, ToSetOnly DEF HeardOf
        <5>2. held[i].id \in ToSet(HeardOf(followUpMessages))
          BY <4>5, <5>1, LenProperties DEF ToSet
        <5> QED
          BY <5>1, <5>2
      <4> QED
        BY <2>2, <4>1, <4>6
    <3>2. held \in Seq(T)
      <4>1. held \in [1..Len(held) -> UserMessage] /\ Len(held) \in Nat
        BY <1>t, LenProperties
      <4>2. held \in [1..Len(held) -> T]
        BY <3>1, <4>1
      <4> QED
        BY <4>1, <4>2, SeqDef
    <3>3. \A u \in T : u \notin Uncleared("followUp")'
      OBVIOUS
    <3> HIDE DEF T
    <3>4. Only(held, Uncleared("followUp")') = << >>
      BY <3>2, <3>3, OnlyNone
    <3> QED
      BY <2>1, <3>4 DEF HeldBy
  <2>5. Only(<< >>, UserId \ UnheardIds') = << >> /\ TheIds(<< >>) = << >>
    BY OnlyNil DEF TheIds
  <2> QED
    BY <2>1, <2>3, <2>4, <2>5 DEF Goal
<1>12. CASE \/ Save \/ RunEnds \/ (\E p \in Prompters : PrepareRetry(p))
            \/ (\E p \in Prompters : NoRetry(p))
            \/ (\E p \in Prompters : NothingHeard(p))
            \/ (\E p \in Prompters : SleepEnds(p))
            \/ (\E p \in Prompters : NoCompactionNeeded(p))
            \/ (\E p \in Prompters : RecoverFromOverflow(p))
            \/ (\E p \in Prompters : CompactAtThreshold(p))
            \/ (\E p \in Prompters : CompactionSucceeds(p))
            \/ (\E p \in Prompters : CompactionFails(p))
            \/ (\E p \in Prompters : ContinueThrows(p))
            \/ (\E p \in Prompters : Return(p)) \/ PrepareCompact
            \/ CompactSucceeds \/ CompactFails
            \/ (\E p \in Prompters : Prompt(p)) \/ AbortRetry \/ Abort
            \/ RecordBashResult \/ Compact
  <2>1. UNCHANGED << cleared, steeringMessages, steeringQueue, followUpQueue,
                     followUpMessages, unheard, held >>
    BY <1>12 DEF Save, RunEnds, Goto, Disconnected, PrepareRetry, NoRetry,
         NothingHeard, SleepEnds, NoCompactionNeeded, Proceed,
         RecoverFromOverflow, StartCompaction, CompactAtThreshold,
         CompactionSucceeds, EndCompaction, CompactionFails, ContinueThrows,
         FlushPendingBashMessages, Return, PrepareCompact, CompactStep,
         CompactSucceeds, CompactFails, Prompt, AbortRetry, Abort,
         RecordBashResult, Compact, connected
  <2> QED
    BY <1>u, <2>1, UnheardIs
<1>13. CASE UNCHANGED vars
  BY <1>13, <1>u, UnheardIs
<1> QED
  BY <1>1, <1>2, <1>3, <1>4, <1>5, <1>6, <1>7, <1>8, <1>9, <1>10, <1>11, <1>12,
       <1>13 DEF Next, Progress, RunStep, CallStep, Operation, Goal

\* At the start nothing is queued, held or shown.
LEMMA InitQueues == Init => Placed /\ Distinct /\ ShownQueuesAreTheQueues
<1> SUFFICES ASSUME Init PROVE Placed /\ Distinct /\ ShownQueuesAreTheQueues
  OBVIOUS
<1>1. /\ steeringQueue = << >> /\ followUpQueue = << >> /\ held = << >>
      /\ steeringMessages = << >> /\ followUpMessages = << >>
      /\ cleared = {} /\ nextId = 1 /\ unheard = {}
      /\ \A p \in Prompters : sending[p] = 0
  BY DEF Init
<1>2. Known = {} /\ UnheardIds = {}
  BY <1>1 DEF Known, UnheardIds
<1> DEFINE nil == << >>
<1>3. /\ nil \in Seq(Sent("steer")) /\ nil \in Seq(Sent("followUp"))
      /\ nil \in Seq(Known \ cleared) /\ Among(nil) = {} /\ Apart(nil)
      /\ ToSet(nil) = {} /\ TheIds(nil) = nil
      /\ \A S : Only(nil, S) = nil
  BY AmongNone, OnlyNil DEF ToSet, TheIds
<1> HIDE DEF nil
<1>4. Placed
  BY <1>1, <1>2, <1>3 DEF Placed, nil
<1>5. Distinct
  BY <1>1, <1>3 DEF Distinct, nil
<1>6. ShownQueuesAreTheQueues
  <2>1. HeldBy("steer") = nil /\ HeldBy("followUp") = nil
    BY <1>1, <1>3 DEF HeldBy, nil
  <2>2. nil \o nil = nil
    BY DEF nil
  <2> QED
    BY <1>1, <1>3, <2>1, <2>2, ShownIs DEF HeardOf, nil
<1> QED
  BY <1>4, <1>5, <1>6

\* The types, where everybody is, and where the messages are, all hold always.
LEMMA QueuesAlways ==
  Spec => [](TypeOK /\ Control /\ Placed /\ Distinct /\ ShownQueuesAreTheQueues)
<1>1. TypeOK /\ Control /\ Placed /\ Distinct /\ ShownQueuesAreTheQueues
        /\ [Next]_vars
      => (TypeOK /\ Control /\ Placed /\ Distinct /\ ShownQueuesAreTheQueues)'
  BY TypesPreserved, PlacedPreserved, DistinctPreserved, ShownPreserved
<1> QED
  BY <1>1, InitTypes, InitQueues, PTL DEF Spec

\* The lists that are shown to the user are what the queues of the Agent and the
\* active run hold, whatever runs, compacts or aborts, and however many calls of
\* prompt() there are.
THEOREM QueuesAreShown == Spec => []ShownQueuesAreTheQueues
BY QueuesAlways, PTL

-----------------------------------------------------------------------------
(* The messages that were accepted *)

\* Only one caller of prompt() at a time.
OnePrompter == \A p, q \in Prompters : p = q

\* The user messages in two sequences, ...
LEMMA IdsOfConcat ==
  ASSUME NEW T, NEW s \in Seq(T), NEW t \in Seq(T)
  PROVE  IdsOf(s \o t) = IdsOf(s) \union IdsOf(t)
<1>1. /\ Len(s) \in Nat /\ Len(t) \in Nat
      /\ DOMAIN s = 1..Len(s) /\ DOMAIN t = 1..Len(t)
      /\ DOMAIN (s \o t) = 1..(Len(s) + Len(t))
      /\ \A i \in 1..(Len(s) + Len(t)) :
           (s \o t)[i] = IF i <= Len(s) THEN s[i] ELSE t[i - Len(s)]
  BY LenProperties, ConcatProperties
<1>2. ASSUME NEW i \in 1..Len(s)
      PROVE i \in DOMAIN (s \o t) /\ (s \o t)[i] = s[i]
  <2>1. i \in 1..(Len(s) + Len(t)) /\ i <= Len(s)
    BY <1>1
  <2> QED
    BY <1>1, <2>1
<1>3. ASSUME NEW i \in 1..Len(t)
      PROVE  i + Len(s) \in DOMAIN (s \o t) /\ (s \o t)[i + Len(s)] = t[i]
  <2>1. /\ i + Len(s) \in 1..(Len(s) + Len(t)) /\ ~(i + Len(s) <= Len(s))
        /\ (i + Len(s)) - Len(s) = i
    BY <1>1
  <2> QED
    BY <1>1, <2>1
<1>4. ASSUME NEW i \in DOMAIN (s \o t)
      PROVE  \/ i \in 1..Len(s) /\ (s \o t)[i] = s[i]
             \/ i - Len(s) \in 1..Len(t) /\ (s \o t)[i] = t[i - Len(s)]
  BY <1>1
<1>5. ASSUME NEW id \in IdsOf(s) PROVE id \in IdsOf(s \o t)
  BY <1>1, <1>2 DEF IdsOf
<1>6. ASSUME NEW id \in IdsOf(t) PROVE id \in IdsOf(s \o t)
  <2>1. PICK i \in DOMAIN t : t[i].kind = "user" /\ t[i].id = id
    BY DEF IdsOf
  <2> QED
    BY <1>1, <1>3, <2>1 DEF IdsOf
<1>7. ASSUME NEW id \in IdsOf(s \o t) PROVE id \in IdsOf(s) \union IdsOf(t)
  <2>1. PICK i \in DOMAIN (s \o t) :
          (s \o t)[i].kind = "user" /\ (s \o t)[i].id = id
    BY DEF IdsOf
  <2> QED
    BY <1>1, <1>4, <2>1 DEF IdsOf
<1> QED
  BY <1>5, <1>6, <1>7

\* ... in a single entry ...
LEMMA IdsOfOne ==
  ASSUME NEW m
  PROVE  IdsOf(<< m >>) = IF m.kind = "user" THEN {m.id} ELSE {}
<1> DEFINE s == << m >>
<1>1. DOMAIN s = {1} /\ s[1] = m
  OBVIOUS
<1> HIDE DEF s
<1>2. { j \in DOMAIN s : s[j].kind = "user" }
        = IF m.kind = "user" THEN {1} ELSE {}
  BY <1>1
<1>3. IdsOf(s) = IF m.kind = "user" THEN {s[1].id} ELSE {}
  <2> DEFINE P == { j \in DOMAIN s : s[j].kind = "user" }
  <2>1. IdsOf(s) = { s[i].id : i \in P }
    BY DEF IdsOf
  <2>2. P = IF m.kind = "user" THEN {1} ELSE {}
    BY <1>2
  <2> HIDE DEF P
  <2>3. CASE m.kind = "user"
    <3>1. P = {1}
      BY <2>2, <2>3
    <3> QED
      BY <2>1, <2>3, <3>1
  <2>4. CASE m.kind # "user"
    <3>1. P = {}
      BY <2>2, <2>4
    <3> QED
      BY <2>1, <2>4, <3>1
  <2> QED
    BY <2>3, <2>4
<1> QED
  BY <1>1, <1>3 DEF s

\* ... and in a sequence of user messages.
LEMMA IdsOfUsers ==
  ASSUME NEW s \in Seq(UserMessage) PROVE IdsOf(s) = Among(s)
<1>1. DOMAIN s = 1..Len(s) /\ \A i \in 1..Len(s) : s[i] \in UserMessage
  BY LenProperties, ElementOfSeq
<1>2. \A m \in UserMessage : m.kind = "user"
  BY DEF UserMessage
<1>3. { j \in DOMAIN s : s[j].kind = "user" } = 1..Len(s)
  BY <1>1, <1>2
<1> QED
  BY <1>1, <1>3 DEF IdsOf, Among

\* The places where an accepted message may be.
Waiting == Among(held) \union Among(steeringQueue) \union Among(followUpQueue)
Gone    == cleared \union UnheardIds
AnyPlace    == IdsOf(log) \union IdsOf(<< unsaved >>) \union Waiting \union Gone

AllPlaced == accepted \subseteq AnyPlace

\* AcceptedMessagesAreKept, by the places, ...
LEMMA PlaceIs == TypeOK => (AcceptedMessagesAreKept <=> AllPlaced)
<1> SUFFICES ASSUME TypeOK
             PROVE  AcceptedMessagesAreKept <=> AllPlaced
  OBVIOUS
<1>1. /\ held \in Seq(UserMessage) /\ steeringQueue \in Seq(UserMessage)
      /\ followUpQueue \in Seq(UserMessage)
  BY DEF TypeOK, QueueTypes
<1>2. IdsOf(steeringQueue \o followUpQueue)
        = IdsOf(steeringQueue) \union IdsOf(followUpQueue)
  BY <1>1, IdsOfConcat
<1>3. /\ IdsOf(held) = Among(held)
      /\ IdsOf(steeringQueue) = Among(steeringQueue)
      /\ IdsOf(followUpQueue) = Among(followUpQueue)
  BY <1>1, IdsOfUsers
<1> QED
  BY <1>2, <1>3 DEF AcceptedMessagesAreKept, AllPlaced, AnyPlace, Waiting, Gone

\* ... also after a step.
LEMMA PlaceIsNext ==
  TypeOK' => (AcceptedMessagesAreKept' <=> AllPlaced')
BY PlaceIs, PTL

\* What is in a queue is shown.
LEMMA QueuedIsShown ==
  ASSUME TypeOK, ShownQueuesAreTheQueues
  PROVE  /\ Among(steeringQueue) \subseteq ToSet(steeringMessages)
         /\ Among(followUpQueue) \subseteq ToSet(followUpMessages)
<1>1. ASSUME NEW ids \in Seq(UserId), NEW h \in Seq(UserMessage),
             NEW queue \in Seq(UserMessage), HeardOf(ids) = TheIds(h \o queue)
      PROVE  Among(queue) \subseteq ToSet(ids)
  <2>1. /\ TheIds(h) \in Seq(UserId) /\ TheIds(queue) \in Seq(UserId)
        /\ Len(TheIds(queue)) = Len(queue)
        /\ \A i \in 1..Len(queue) : TheIds(queue)[i] = queue[i].id
        /\ HeardOf(ids) = TheIds(h) \o TheIds(queue)
    BY <1>1, TheIdsConcat
  <2>2. ToSet(TheIds(queue)) \subseteq ToSet(HeardOf(ids))
    BY <2>1, ToSetConcat
  <2>3. ToSet(HeardOf(ids)) \subseteq ToSet(ids)
    BY ToSetOnly DEF HeardOf
  <2>4. ASSUME NEW i \in 1..Len(queue)
        PROVE queue[i].id \in ToSet(TheIds(queue))
    BY <2>1, LenProperties DEF ToSet
  <2> QED
    BY <2>2, <2>3, <2>4 DEF Among
<1>2. /\ HeldBy("steer") \in Seq(UserMessage)
      /\ HeldBy("followUp") \in Seq(UserMessage)
  BY OnlyKeeps DEF HeldBy, TypeOK, QueueTypes
<1>3. /\ HeardOf(steeringMessages) = TheIds(HeldBy("steer") \o steeringQueue)
      /\ HeardOf(followUpMessages) = TheIds(HeldBy("followUp") \o followUpQueue)
      /\ steeringQueue \in Seq(UserMessage)
      /\ followUpQueue \in Seq(UserMessage)
      /\ steeringMessages \in Seq(UserId) /\ followUpMessages \in Seq(UserId)
  BY ShownIs DEF TypeOK, QueueTypes
<1> QED
  BY <1>1, <1>2, <1>3

\* What drain() hands out and what it leaves is what there was.
LEMMA AmongParts ==
  ASSUME NEW queue \in Seq(UserMessage), NEW mode
  PROVE  Among(queue) \subseteq
           Among(Drained(queue, mode)) \union Among(Remaining(queue, mode))
<1>1. /\ Drained(queue, mode) \in Seq(UserMessage)
      /\ Remaining(queue, mode) \in Seq(UserMessage)
      /\ Drained(queue, mode) \o Remaining(queue, mode) = queue
  BY QueuesAre
<1> DEFINE d == Drained(queue, mode)
           r == Remaining(queue, mode)
<1> HIDE DEF d, r
<1>2. d \in Seq(UserMessage) /\ r \in Seq(UserMessage) /\ d \o r = queue
  BY <1>1 DEF d, r
<1>3. IdsOf(d \o r) = IdsOf(d) \union IdsOf(r)
  BY <1>2, IdsOfConcat
<1>4. /\ IdsOf(d) = Among(d) /\ IdsOf(r) = Among(r)
      /\ IdsOf(queue) = Among(queue)
  BY <1>2, IdsOfUsers
<1> QED
  BY <1>2, <1>3, <1>4 DEF d, r

\* The first message.
LEMMA AmongHead ==
  ASSUME NEW ms \in Seq(UserMessage), ms # << >>
  PROVE  Among(ms) \subseteq {Head(ms).id} \union Among(Tail(ms))
<1>1. /\ Len(ms) \in Nat \ {0} /\ Head(ms) = ms[1]
      /\ Len(Tail(ms)) = Len(ms) - 1
      /\ \A i \in 1..Len(Tail(ms)) : Tail(ms)[i] = ms[i + 1]
  BY EmptySeq, HeadTailProperties
<1>2. ASSUME NEW i \in 1..Len(ms), i # 1
      PROVE  i - 1 \in 1..Len(Tail(ms)) /\ Tail(ms)[i - 1] = ms[i]
  <2>1. i - 1 \in 1..Len(Tail(ms)) /\ (i - 1) + 1 = i
    BY <1>1, <1>2
  <2> QED
    BY <1>1, <2>1
<1> QED
  BY <1>1, <1>2 DEF Among

\* Every step keeps what was accepted.
LEMMA AcceptedPreserved ==
  ASSUME OnePrompter, TypeOK, Control, ShownQueuesAreTheQueues,
         AcceptedMessagesAreKept, [Next]_vars
  PROVE  AcceptedMessagesAreKept'
<1> USE DEF vars, fileVars, agentQueues, shownQueues, runVars, retryVars,
      replyVars, callVars, manualVars, historyVars
<1>0. TypeOK /\ Control /\ TypeOK'
  BY TypesPreserved
<1>t. /\ held \in Seq(UserMessage) /\ steeringQueue \in Seq(UserMessage)
      /\ followUpQueue \in Seq(UserMessage)
      /\ runPc # "save" => unsaved = NoMessage
  BY DEF TypeOK, QueueTypes, RunTypes
<1>a. accepted \subseteq AnyPlace
  BY <1>0, PlaceIs DEF AllPlaced
<1> SUFFICES accepted' \subseteq AnyPlace'
  BY <1>0, PlaceIsNext DEF AllPlaced
<1>l. IdsOf(log) \subseteq IdsOf(log')
  <2>1. PICK t \in Seq(Entry) : log' = log \o t
    BY SessionIsExtended DEF Extended
  <2>2. log \in Seq(Entry)
    BY DEF TypeOK, FileTypes
  <2> QED
    BY <2>1, <2>2, IdsOfConcat
<1>n. IdsOf(<< NoMessage >>) = {}
  BY IdsOfOne DEF NoMessage
<1>h. ASSUME owner = NoOne \/ runPc = "pollFollowUps" PROVE held = << >>
  BY <1>0, <1>h DEF Control, RunOK
<1>e. Among(<< >>) = {}
  BY AmongNone
<1>k. ASSUME accepted' \subseteq accepted,
             IdsOf(<< unsaved >>) \subseteq AnyPlace',
             Among(held) \subseteq AnyPlace',
               Among(steeringQueue) \subseteq AnyPlace',
             Among(followUpQueue) \subseteq AnyPlace', Gone \subseteq AnyPlace'
      PROVE  accepted' \subseteq AnyPlace'
  BY <1>a, <1>k, <1>l DEF AnyPlace, Waiting
<1>u. ASSUME UNCHANGED << held, unsaved, steeringQueue, followUpQueue, cleared,
                          UnheardIds, accepted >>
      PROVE  accepted' \subseteq AnyPlace'
  BY <1>a, <1>u, <1>l DEF AnyPlace, Waiting, Gone
<1>1. CASE Announce
  <2> DEFINE id == Head(held).id
  <2>1. /\ held # << >> /\ held' = Tail(held) /\ unsaved = NoMessage
        /\ UNCHANGED << cleared, steeringQueue, followUpQueue, accepted >>
    BY <1>1, <1>t DEF Announce
  <2>2. Head(held) \in UserMessage
    BY <1>t, <2>1, HeadTailProperties
  <2>3. \/ ~connected /\ UnheardIds' = UnheardIds \union {id}
        \/ unsaved' = Head(held) /\ UnheardIds' = UnheardIds
    BY <1>1, <2>2, UnheardIs DEF Announce, Push
  <2>4. IdsOf(<< Head(held) >>) = {id}
    BY <2>2, IdsOfOne DEF UserMessage
  <2>5. Among(held) \subseteq {id} \union Among(Tail(held))
    BY <1>t, <2>1, AmongHead
  <2> HIDE DEF id
  <2> QED
    BY <1>a, <1>l, <1>n, <2>1, <2>3, <2>4, <2>5 DEF AnyPlace, Waiting, Gone
<1>2. ASSUME NEW stop \in Replies, ModelReplies(stop)
      PROVE accepted' \subseteq AnyPlace'
  <2>1. /\ UNCHANGED << held, steeringQueue, followUpQueue, cleared, accepted >>
        /\ unsaved = NoMessage
    BY <1>2, <1>t DEF ModelReplies, connected
  <2>2. UNCHANGED UnheardIds
    <3>1. UNCHANGED unheard
            \/ unheard' = unheard \union {Reply(replies + 1, stop)}
      BY <1>2 DEF ModelReplies, Push
    <3>2. Reply(replies + 1, stop).kind # "user"
      BY DEF Reply
    <3> QED
      BY <3>1, <3>2, UnheardIs
  <2> QED
    BY <1>a, <1>l, <1>n, <2>1, <2>2 DEF AnyPlace, Waiting, Gone
<1>3. CASE ToolEnds
  <2>1. /\ UNCHANGED << held, steeringQueue, followUpQueue, cleared, accepted >>
        /\ unsaved = NoMessage
    BY <1>3, <1>t DEF ToolEnds, connected
  <2>2. UNCHANGED UnheardIds
    <3>1. UNCHANGED unheard \/ unheard' = unheard \union {Result(replies)}
      BY <1>3 DEF ToolEnds, Push
    <3>2. Result(replies).kind # "user"
      BY DEF Result
    <3> QED
      BY <3>1, <3>2, UnheardIs
  <2> QED
    BY <1>a, <1>l, <1>n, <2>1, <2>2 DEF AnyPlace, Waiting, Gone
<1>4. CASE Save
  <2>1. /\ UNCHANGED << held, steeringQueue, followUpQueue, cleared, accepted,
                        UnheardIds >>
        /\ log' = Append(log, unsaved) /\ unsaved \in Message
    BY <1>0, <1>4, ValuesAre, UnheardIs DEF Save
  <2>2. /\ log \in Seq(Entry) /\ << unsaved >> \in Seq(Entry)
        /\ log' = log \o << unsaved >>
    <3>1. log \in Seq(Entry) /\ unsaved \in Entry
      BY <2>1, Subtypes DEF TypeOK, FileTypes
    <3>2. Append(log, unsaved) = log \o << unsaved >>
      BY <3>1, AppendIsConcat
    <3>3. << unsaved >> \in Seq(Entry)
      BY <3>1
    <3> QED
      BY <2>1, <3>1, <3>2, <3>3
  <2> DEFINE u == << unsaved >>
  <2> HIDE DEF u
  <2>3. log \in Seq(Entry) /\ u \in Seq(Entry) /\ log' = log \o u
    BY <2>2 DEF u
  <2>4. IdsOf(log') = IdsOf(log) \union IdsOf(u)
    BY <2>3, IdsOfConcat
  <2> QED
    BY <1>a, <2>1, <2>4 DEF u, AnyPlace, Waiting, Gone
<1>5. CASE PollSteering
  <2>1. /\ held = << >>
        /\ UNCHANGED << unsaved, cleared, UnheardIds, followUpQueue, accepted >>
    BY <1>5, UnheardIs DEF PollSteering
  <2>2. CASE skipPoll
    BY <1>5, <1>u, <2>1, <2>2 DEF PollSteering
  <2>3. CASE ~skipPoll
    <3>1. PICK mode \in QueueModes :
            /\ held' = Drained(steeringQueue, mode)
            /\ steeringQueue' = Remaining(steeringQueue, mode)
      BY <1>5, <2>3 DEF PollSteering
    <3>2. Among(steeringQueue)
            \subseteq Among(held') \union Among(steeringQueue')
      BY <1>t, <3>1, AmongParts
    <3> QED
      BY <1>a, <1>l, <1>e, <2>1, <3>2 DEF AnyPlace, Waiting, Gone
  <2> QED
    BY <2>2, <2>3
<1>6. CASE PollFollowUps
  <2>1. /\ held = << >>
        /\ UNCHANGED << unsaved, cleared, UnheardIds, steeringQueue, accepted >>
    BY <1>6, <1>h, UnheardIs DEF PollFollowUps
  <2>2. PICK mode \in QueueModes :
          /\ held' = Drained(followUpQueue, mode)
          /\ followUpQueue' = Remaining(followUpQueue, mode)
    BY <1>6 DEF PollFollowUps
  <2>3. Among(followUpQueue) \subseteq Among(held') \union Among(followUpQueue')
    BY <1>t, <2>2, AmongParts
  <2> QED
    BY <1>a, <1>l, <1>e, <2>1, <2>3 DEF AnyPlace, Waiting, Gone
<1>7. ASSUME NEW p \in Prompters, ContinueTranscript(p)
      PROVE accepted' \subseteq AnyPlace'
  <2>1. /\ held = << >> /\ held' = << >>
        /\ UNCHANGED << unsaved, cleared, UnheardIds, steeringQueue,
                        followUpQueue, accepted >>
    BY <1>7, <1>h, UnheardIs
       DEF ContinueTranscript, ContinueFrom, BeginRun, isStreaming
  <2> QED
    BY <1>u, <2>1
<1>8. ASSUME NEW p \in Prompters, ContinueWithQueue(p)
      PROVE accepted' \subseteq AnyPlace'
  <2>1. /\ held = << >>
        /\ UNCHANGED << unsaved, cleared, UnheardIds, accepted >>
    BY <1>8, <1>h, UnheardIs
       DEF ContinueWithQueue, ContinueFrom, BeginRun, isStreaming
  <2>2. CASE steeringQueue # << >>
    <3>0. UNCHANGED followUpQueue
      BY <1>8, <2>2 DEF ContinueWithQueue
    <3>1. PICK mode \in QueueModes :
            /\ held' = Drained(steeringQueue, mode)
            /\ steeringQueue' = Remaining(steeringQueue, mode)
      BY <1>8, <2>2 DEF ContinueWithQueue, ContinueFrom, BeginRun
    <3>2. Among(steeringQueue)
            \subseteq Among(held') \union Among(steeringQueue')
      BY <1>t, <3>1, AmongParts
    <3> QED
      BY <1>a, <1>l, <1>e, <2>1, <3>0, <3>2 DEF AnyPlace, Waiting, Gone
  <2>3. CASE steeringQueue = << >>
    <3>0. UNCHANGED steeringQueue
      BY <1>8, <2>3 DEF ContinueWithQueue
    <3>1. PICK mode \in QueueModes :
            /\ held' = Drained(followUpQueue, mode)
            /\ followUpQueue' = Remaining(followUpQueue, mode)
      BY <1>8, <2>3 DEF ContinueWithQueue, ContinueFrom, BeginRun
    <3>2. Among(followUpQueue)
            \subseteq Among(held') \union Among(followUpQueue')
      BY <1>t, <3>1, AmongParts
    <3> QED
      BY <1>a, <1>l, <1>e, <2>1, <3>0, <3>2 DEF AnyPlace, Waiting, Gone
  <2> QED
    BY <2>2, <2>3
<1>9. ASSUME NEW p \in Prompters, Send(p) PROVE accepted' \subseteq AnyPlace'
  <2>1. /\ held = << >> /\ ~isStreaming /\ sending[p] \in UserId
    <3>1. pc[p] = "starting"
      BY <1>9 DEF Send
    <3>2. owner = NoOne
      <4>1. owner \in Prompters \union {NoOne}
        BY DEF TypeOK, RunTypes
      <4>2. owner # p
        BY <1>0, <3>1 DEF Control, CallOK
      <4> QED
        BY <4>1, <4>2 DEF OnePrompter
    <3> QED
      BY <1>0, <1>h, <3>1, <3>2 DEF Control, CallOK, isStreaming
  <2>2. /\ held' = << User(sending[p], "prompt") >>
        /\ accepted' = accepted \union {sending[p]}
        /\ UNCHANGED << unsaved, cleared, UnheardIds, steeringQueue,
                        followUpQueue >>
    BY <1>9, <2>1, UnheardIs DEF Send, BeginRun
  <2>3. Among(held') = {sending[p]}
    BY <2>2, AmongOne DEF User
  <2> QED
    BY <1>a, <1>l, <1>e, <2>1, <2>2, <2>3 DEF AnyPlace, Waiting, Gone
<1>10. CASE Steer
  <2>1. /\ nextId \in UserId /\ accepted' = accepted \union {nextId}
        /\ UNCHANGED << held, unsaved, cleared, UnheardIds, followUpQueue >>
        /\ steeringQueue' = Append(steeringQueue, User(nextId, "steer"))
    BY <1>10, UnheardIs DEF Steer, Accept, Enqueue
  <2>2. Among(steeringQueue') = Among(steeringQueue) \union {nextId}
    <3>1. User(nextId, "steer") \in UserMessage
            /\ User(nextId, "steer").id = nextId
      BY <2>1, BuiltMessages DEF User
    <3> QED
      BY <1>t, <2>1, <3>1, AmongAppend
  <2> QED
    BY <1>a, <1>l, <2>1, <2>2 DEF AnyPlace, Waiting, Gone
<1>11. CASE FollowUp
  <2>1. /\ nextId \in UserId /\ accepted' = accepted \union {nextId}
        /\ UNCHANGED << held, unsaved, cleared, UnheardIds, steeringQueue >>
        /\ followUpQueue' = Append(followUpQueue, User(nextId, "followUp"))
    BY <1>11, UnheardIs DEF FollowUp, Accept, Enqueue
  <2>2. Among(followUpQueue') = Among(followUpQueue) \union {nextId}
    <3>1. User(nextId, "followUp") \in UserMessage
            /\ User(nextId, "followUp").id = nextId
      BY <2>1, BuiltMessages DEF User
    <3> QED
      BY <1>t, <2>1, <3>1, AmongAppend
  <2> QED
    BY <1>a, <1>l, <2>1, <2>2 DEF AnyPlace, Waiting, Gone
<1>12. CASE ClearQueue
  <2>1. /\ steeringQueue' = << >> /\ followUpQueue' = << >>
        /\ UNCHANGED << held, unsaved, UnheardIds, accepted >>
        /\ cleared' = cleared \union ToSet(steeringMessages \o followUpMessages)
    BY <1>12, UnheardIs DEF ClearQueue
  <2>2. /\ Among(steeringQueue) \subseteq ToSet(steeringMessages)
        /\ Among(followUpQueue) \subseteq ToSet(followUpMessages)
    BY QueuedIsShown
  <2>3. /\ ToSet(steeringMessages) \subseteq cleared'
        /\ ToSet(followUpMessages) \subseteq cleared'
    <3>1. /\ steeringMessages \in Seq(UserId)
          /\ followUpMessages \in Seq(UserId)
      BY DEF TypeOK, QueueTypes
    <3> QED
      BY <2>1, <3>1, ToSetConcat
  <2> QED
    BY <1>a, <1>l, <2>1, <2>2, <2>3 DEF AnyPlace, Waiting, Gone
<1>13. CASE \/ RunEnds \/ (\E p \in Prompters : PrepareRetry(p))
            \/ (\E p \in Prompters : NoRetry(p))
            \/ (\E p \in Prompters : NothingHeard(p))
            \/ (\E p \in Prompters : SleepEnds(p))
            \/ (\E p \in Prompters : NoCompactionNeeded(p))
            \/ (\E p \in Prompters : RecoverFromOverflow(p))
            \/ (\E p \in Prompters : CompactAtThreshold(p))
            \/ (\E p \in Prompters : CompactionSucceeds(p))
            \/ (\E p \in Prompters : CompactionFails(p))
            \/ (\E p \in Prompters : ContinueThrows(p))
            \/ (\E p \in Prompters : Return(p)) \/ PrepareCompact
            \/ CompactSucceeds \/ CompactFails
            \/ (\E p \in Prompters : Prompt(p)) \/ AbortRetry \/ Abort
            \/ RecordBashResult \/ Compact
  <2>1. UNCHANGED << held, unsaved, steeringQueue, followUpQueue, cleared,
                     unheard,
                     accepted >>
    BY <1>13 DEF RunEnds, Goto, Disconnected, PrepareRetry, NoRetry,
         NothingHeard, SleepEnds, NoCompactionNeeded, Proceed,
         RecoverFromOverflow, StartCompaction, CompactAtThreshold,
         CompactionSucceeds, EndCompaction, CompactionFails, ContinueThrows,
         FlushPendingBashMessages, Return, PrepareCompact, CompactStep,
         CompactSucceeds, CompactFails, Prompt, AbortRetry, Abort,
         RecordBashResult, Compact, connected
  <2> QED
    BY <1>u, <2>1, UnheardIs
<1>14. CASE UNCHANGED vars
  BY <1>14, <1>u, UnheardIs
<1> QED
  BY <1>1, <1>2, <1>3, <1>4, <1>5, <1>6, <1>7, <1>8, <1>9, <1>10, <1>11, <1>12,
       <1>13, <1>14 DEF Next, Progress, RunStep, CallStep, Operation

\* At the start nothing has been accepted.
LEMMA InitAccepted == Init => AcceptedMessagesAreKept
BY DEF Init, AcceptedMessagesAreKept

\* Every message that was accepted is in the session or on its way there, or was
\* returned to the owner, or was announced while compact() did not listen, if
\* no two calls of prompt() are ever active.
THEOREM NothingAcceptedIsLost ==
  ASSUME OnePrompter PROVE Spec => []AcceptedMessagesAreKept
<1>1. TypeOK /\ Control /\ ShownQueuesAreTheQueues /\ AcceptedMessagesAreKept
        /\ [Next]_vars
      => AcceptedMessagesAreKept'
  BY AcceptedPreserved
<1> QED
  BY <1>1, InitAccepted, QueuesAlways, PTL DEF Spec

=============================================================================
