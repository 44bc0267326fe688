# TLA+ models of oa

`oa` is a coding agent: a loop that sends a transcript to a language model,
executes the tool calls of its replies and goes on until there is nothing left
to do, wrapped in a session that is saved, retried, compacted and driven by a
user interface. This directory models the parts of it whose correctness depends
on the order in which things happen. Everything runs in one JavaScript thread:
a step of the models is the code between two `await`s, and what other callers
may do in between is interleaved.

## 1. Inventory

| Component | State | Operations | Talks to | Hard behaviour | What makes it correct |
|---|---|---|---|---|---|
| **Agent loop** `packages/agent/src/agent-loop.ts` | locals of a run: context, new messages, pending messages, the batch of tool calls | prompt / continue a run, stream a reply, run a batch sequentially or in parallel, poll the queues | model stream, tools, hooks, event sink | parallel calls, abort at any await, steering while tools run | context = transcript; results follow their reply; no call is skipped |
| **Agent** `packages/agent/src/agent.ts` | transcript, two queues, active run, abort signal, pending calls | `prompt`, `continue`, `steer`, `followUp`, clears, `abort`, `reset`, event reduction, failure path | loop (both ways), listeners it awaits | listeners that reject, stragglers of a failed batch, queue drains | messages delivered in order, once; each run ends and reports what it did |
| **AgentSession** `coding-agent/src/core/agent-session.ts` | session branch, shown queues, deferred bash output, retry counter, recovery flag, compaction and retry controllers | `prompt`, `steer`, `followUp`, `clearQueue`, `abort`, `abortRetry`, bash output, automatic retry and compaction, manual `compact`; also tree navigation, model changes | Agent, SessionManager, extensions | a prompt is several runs with sleeps and model calls between them, during which the agent looks idle | file = transcript; accepted messages kept; recovery bounded; `prompt()` returns |
| **SessionManager** `core/session-manager.ts` | entries, tree, leaf, labels, flushed flag, file | append, label, branch, fork, load, build context | disk | torn lines, first flush, restart | what is loaded is what was appended; a branch keeps its context |
| **Compaction** `core/compaction/`, overflow detection `packages/ai/src/utils/overflow.ts` | none | cut point, summary | model | cut between a call and its result | context stays well formed |
| **File mutation queue** `core/tools/file-mutation-queue.ts` with `write.ts`, `edit.ts` | map of promise chains, registration chain | `withFileMutationQueue` | disk, tools | parallel calls, links, files created meanwhile | one mutation per file, none lost, nothing leaked |
| **EventStream, providers** `packages/ai` | queue, waiters, final result | push, end, iterate, `result()` | network | end without result | every waiter is answered |
| **MCP manager** `core/mcp/manager.ts`, `connection.ts` | configuration, one connection per server name, attempts under way; of a connection its client, state and idle timer | `callTool`, `readResource`, `refreshServer`, `disconnect`, `reloadConfig`, `disposeAll`; idle timer, `onclose` | servers, tool calls of one batch | calls that share an attempt; reload, close and death of the server at any await; one automatic repetition | no server is lost or runs for ever; the right one is asked; a live server executes a call once; every call ends |
| **Subagents** `core/subagents/` | runs, status files | foreground, chains, background runs | child processes | fan-out failure, stale runs | each task settles |
| **Auth storage** `core/auth-storage.ts` | `auth.json`, its lock, a copy in each process, `loadError` | `reload`, `set`, `remove`, `login`, `logout`, `getApiKey` with the refresh of an expired token | disk, `proper-lockfile`, OAuth provider | several processes, two rules for stale locks, death at any point, tokens that work once | refreshes exclude each other; no saved credential is overwritten; the stored token still works |
| Permission system, goal and plan mode, extensions, modes (RPC, print, TUI), agent harness, settings, packages | configuration and display | | | little concurrency of their own | see `PROJECT.json` |

`AgentSession.prompt()` calls `Agent.prompt()`, which runs the loop; the loop
calls back with events, which `Agent` reduces into its state and hands to its
listeners, one after the other, waiting for each; the first listener is the
handler of `AgentSession`, which saves messages (except while `compact()` has
unsubscribed it). Owners call `steer`, `abort`
and so on between any two of these steps. Tools that write files enter the file
mutation queue from parallel calls of one batch; MCP tools share the
connections of the MCP manager. The API key of each model request comes from
the auth storage, which is the one part that several processes share.

## 2. Modules

| Module | Models |
|---|---|
| `PendingMessageQueue` | the class of that name: `enqueue`, `drain` in both modes |
| `AgentLoop` | a run, one step per await; `pc` names the next step |
| `Agent` (extends it) | the public operations, the life cycle, failing listeners; all properties of the pair |
| `MessageDelivery` | abstract specification: two FIFO lanes and a courier |
| `AgentProofs` | theorems about `Agent`, the refinement among them |
| `AgentSession` | the session around the runs; the run at a coarser grain |
| `AgentSessionProofs` | theorems about it: types and control, the shown queues, accepted messages |
| `AgentSessionContextProofs` (extends it) | what the model reads: calls and their results, reload, and how often a session recovers |
| `SessionManager` | the tree of entries and the file, line by line, with interrupted writes |
| `SessionManagerProofs` | theorems about it |
| `Subsequences` | `Only`, the elements of a sequence that are in a set, which both session modules read with |
| `SubsequencesProofs` | facts about `Only`, and the induction they rest on |
| `FileMutationQueue`, `MCFileMutationQueue` | the queue and the two tools; a file and a link to it |
| `FileMutationQueueProofs` | theorems about the queue |
| `McpManager` | the manager and its connections, one server name, clients as they come and go |
| `McpManagerProofs` | theorems about `McpManager` |
| `AuthStorage` | processes on one `auth.json`: the file, the lock, the provider, deaths |
| `AuthStorageProofs` | theorems about `AuthStorage` |

### State and code

*Agent.* `messages`, `streamingMessage`, `pendingToolCalls`, `isStreaming` are
`AgentState`; `context`, `newMessages`, `pendingMessages`, `hasMoreToolCalls`
and the batch variables are the locals of `runLoop` and `executeToolCalls*`,
reset by `LeaveLoop` when they go out of scope. An event changes the state in
the step that emits it (`MessageStart`, `MessageEnd`, ... are the cases of
`processEvents`); the listeners run before the next step and may reject there
(`AfterEmit`, `RunThrows`, `CallThrows`), which leads to the four events of
`handleRunFailure`. A `straggler` is a call of a failed batch that still
executes. A message is its role, its number and what the properties need: the
lane of a user message, the number of calls and the stop reason of a reply, the
position of a result. The model's reply is any of `Replies`; `beforeToolCall`,
validation and unknown tools decide between `PrepareImmediate` and
`PrepareAllowed`. `resetInRun`, `runStart`, `discarded`, `agentEnded` and
`reported` are history; `reported` are the messages that the `agent_end` events
of the run have carried, both of them if the failure path emits a second.

`AgentEndReportsTheRun` holds for both: if a listener of the loop's `agent_end`
rejects, the second one, which carries the failure message, completes the first.
A run that throws before that emits one `agent_end` only, with the failure
message and nothing of what the run has added before it
(`handleRunFailure`, `agent.ts:491`); the property says so.
`InjectedMessagesAreAnswered` excepts a listener that rejects once more while
the failure message is announced: then nothing follows the message that was
injected.

*AgentSession.* `log` is the branch of the session that `buildSessionContext`
reads, `transcript` is `agent.state.messages`. `runPc` is where the active run
is, `owner` the call of `prompt()` that waits for it. `pc[p]` is where such a
call is: `starting` (waiting for the extensions before it sends), `run`, `post`
(`_handlePostAgentRun`), `sleep` (retry delay), `check` (`_checkCompaction`),
`compact`, `continue`, `return`. `phase[p]` tells the three loops apart that
share this code: the check before sending, the loop after a successful one, and
the loop in `_runAgentPrompt`. Continuations that are only microtasks apart are
`Urgent`: timers, I/O and owners wait for them. A reply is `stop` (good),
`tools`, `aborted`, `error` (retryable), `fatal` (not), `overflow` (an error
that is an overflow) or `silent` (a reply that is no error, of a context larger
than the window). Sizes
are a free choice: any check may find the threshold passed, provided the code
has something to measure (`Measurable`), and any cut that `findValidCutPoints`
allows may be the one taken.

`clearQueue` returns the texts that are shown, among them those that a run has
already drained and not announced yet (`agent-session.ts:1440-1448`): these are
returned to the owner and delivered all the same. `cleared` is history, what
was returned, and `ShownQueuesAreTheQueues` excepts it for what the run holds.
`recoveries` is history too: the automatic retries and overflow compactions
since the conversation last moved on, that is since a user message, recorded
bash output or a good reply entered the transcript, or `abortRetry()` was
called.

`byHand` is the call of `compact()`: it has unsubscribed the handler and waits
for the run it aborted (`abort`), then prepares (`prepare`), then waits for the
summary of the first `seen` entries (`summary`). `prompt()` is not refused
meanwhile (only the interactive mode holds messages back while `isCompacting`),
so that a run may begin, and end, unheard. `unheard` is history: the messages
that entered the transcript while nobody listened. They are not saved, stay in
the lists that are shown, and vanish from the transcript when the compaction
succeeds. The four safety properties of the session except exactly these
messages (`ReloadShowsTheTranscript` also excepts failed replies, and silent
overflows, which recovery removes although they are good and which stay away if
the compaction then fails). Without the exception TLC violates each of them: a
prompt that is sent just before `compact()` is announced unheard and then is in
the transcript only, and after the compaction nowhere, although "`success:
true` means the prompt was accepted, queued, or handled immediately"
(`docs/rpc.md:76`); a queued message stays in the shown lists, although
"`queue_update` emits the full pending steering and follow-up queues whenever
they change" (`docs/json.md:23`); and a saved tool call may stay without its
result. Announcing and hearing a message is one step here, so that a
`message_start` that is heard and a `message_end` that is not are not told
apart.

*SessionManager.* The variables are the fields of the class; the header, which
the code keeps as the first of `fileEntries`, is left to the file. `files` are
the lines of each file. Every operation is synchronous and therefore one step,
or it is interrupted in the middle of a write: by a crash, after which nothing
is in memory (`Nowhere`), or by an error that the caller sees, after which an
appended entry stays in memory although it is not in the file (`CutOff`,
`FileExists`). What a torn write leaves is any number of whole lines and half a
line, or one that lacks only its newline and parses (`Unended`); the next append
continues it and the result is malformed. A caller
whose `createBranchedSession` or `forkFrom` throws drops the manager it had
opened for it. `saved` is history: the entries whose write was reported as done;
`spoilt` are the files whose header lacked its newline when an entry was
appended, which makes the header unreadable and the next start truncate the
whole file. The properties except these files (and, in `FilesOnlyGrow`, the one
entry whose line never ended): the code checks for a header but not for the end
of its line.
`setting` stands for the entries the model is not shown (model and thinking
changes, names, extension data); custom messages count as `user`.

*McpManager.* Names do not touch each other, so there is one name. `connection`
and `inflight` are the entries of the two maps for it, `mcp[n]` the fields of
the n-th `McpConnection`, `life[k]` the k-th client: it starts, is open, is
being closed, or is gone, and its number is then used again. `call[c].pc` is
the await a call is at, `joined` that it waits for the attempt of another call.
`Quiet` says that the continuations of settled promises run before the next
event of the event loop. `since`, `late` and `overtaken` are history: the
configurations a call has lived through; a connection dropped while an attempt
was under way; a connection whose `close()` ended after a new client had
connected. The properties except the last two where they say so. Both are
reachable. A reload during an attempt leaves the attempt running: it connects a
client for a connection that the manager has forgotten, a server that only its
idle timer stops, while the comment at `manager.ts:31` says that the manager is
shared "instead of orphaning stdio child processes".

*AuthStorage.* `proc[p]` is one process: its copy of the credentials (`data`),
`loadError`, where its synchronous operation is (`pc`, with the change `op`)
and where its `getApiKey` is (`ref`, with what it will write in `next`).
Between `create` and the end of a synchronous operation other processes run,
but not the event loop of this one (`Idle`). `lock` is the lock directory, with
its holder and the kind of operation that took it; `lockOld` says whether it is
more than ten seconds old, which is enough for `lockSync` to take it, while
`lock` wants thirty seconds and a live holder touches the lock every fifteen:
hence the lock of a slow refresh can be taken by a synchronous operation, and
only the lock of a dead process by another refresh. `release()` removes the
lock directory, whose ever it is, unless the process knows that it was
compromised (`mine`, `noticed`). The provider accepts a refresh token once
(`live`). `faults` is history, one name per event that no code here can undo:
`stolen` (the lock of a slow refresh was taken), `recreated`
(`ensureFileExists` looked before another process created the file, and
overwrites it), `torn` (a process died in `writeFileSync`, or
before it released the lock), `rotationLost` (the
provider rotated the token and the answer did not arrive, or came when the lock
was known to be lost). `OneAtATime` excepts the first; `StoredTokenIsUsable`
the first and the last; `SavedCredentialsAreKept` the first three. Each
exception is needed: TLC violates the property without it.

*FileMutationQueue.* Calls are numbered in call order. `next` is the turn of
the registration chain; `fileMutationQueues[k]` names the last call chained to
key `k`; `currentQueue[c]` is what call `c` waits for. The content of a file is
the set of calls whose change it shows: `write` shows only itself, `edit` what
it has read and itself.

## 3. Runs

| Run | Asks | Shows |
|---|---|---|
| `agent` | `TypeOK`, `RequestSeesTranscript`, `ResultsFollowTheirReply`, `NoCallIsSkipped`, `EveryMessageIsInOnePlace`, `AgentEndReportsTheRun`, `InjectedMessagesAreAnswered`, `DeliversMessages`, `RunSettles` with listeners that may reject anywhere | hold |
| `agent_end` | `AgentEndIsFinal` with listeners that may reject | violated, finding 5 |
| `session` | `TypeOK`, `ReloadShowsTheTranscript`, `BashNeverSplitsACall`, `ShownQueuesAreTheQueues`, `AcceptedMessagesAreKept`, one prompt at a time, with retries, overflows, compactions at the threshold and one by hand | hold |
| `session_recovery` | `RecoveryIsBounded`, `PromptReturns` | hold |
| `session_continue` | `ContinueNeverThrows` | violated, finding 1 |
| `session_accepted` | `AcceptedMessagesAreKept` with two prompts at once | violated, finding 2 |
| `session_file` | `TypeOK`, `ReloadIsTheSession`, `RepliesAreInASession`, `TornLinesLoseOneEntry`, `ParentsComeFirst`, `FilesOnlyGrow`, `UnlabelledBranchIsKept` | hold |
| `session_branched` | `BranchedSessionShowsTheBranch` | violated, finding 4 |
| `file_queue` | `TypeOK`, `OneMutationPerFile`, `AsIfOneByOne`, `NoQueueIsLeaked`, `CallsSettle` for an existing file and a link to it | hold |
| `file_queue_new` | `OneMutationPerPath` when the first call creates the file | violated, finding 3 |
| `mcp` | `TypeOK`, `ServersAreReachable`, `CallsUseTheirConfig`, `OnlyLostCallsAreRepeated`, `CallsSettle`, `IdleServersAreClosed` while the server dies, is disconnected, idles out or gets another configuration | hold |
| `auth` | `TypeOK`, `OneAtATime`, `SavedCredentialsAreKept`, `StoredTokenIsUsable`, `GetApiKeySettles` for two processes, one of which may die anywhere | hold |

`DeliversMessages` is the refinement: `Agent`, seen through the identities of
its user messages, implements `MessageDelivery`. Held messages are
`pendingMessages`, so that taking a message out of a queue, announcing it and
dropping it with a failing run are separate abstract steps.

### Findings

1. An overflow that shows only in the usage of a reply (`stopReason` "stop", or
   "length" without output) is never retried. Recovery takes the reply out of
   the transcript as if it were an error and compacts; the context rebuilt from
   the session ends with the same reply, which is kept because its `stopReason`
   is not "error", and `continue()` throws unless messages are queued. A second
   way to the same exception, which TLC finds with `Failures = {"error",
   "overflow"}`, is a retried error followed by an overflow error: the rebuilt
   context holds *both* failed replies and only the last is dropped.
   `docs/rpc.md` promises a retry.
2. Two prompts sent at once can both be reported as accepted; the second is
   then refused by the Agent and its message is gone without an event.
3. Two calls for a file that does not exist yet, one through a link, use
   different keys, and calls of one path may then run at the same time.
4. A branched session (`/fork`, `/clone`, forked subagents) loses context if a
   label was put on the branch: `createBranchedSession` takes the label entries
   out of the path and leaves the `parentId` of their children pointing at
   them, so the walk to the root ends there. Without labels the context is kept
   (`UnlabelledBranchIsKept`).
5. `agent_end` is not the last event of a run if a listener of it rejects:
   `handleRunFailure` emits a failure message, `turn_end` and a second
   `agent_end`. The comment on `subscribe` calls it the final one
   (`agent.ts:228`).

The proof of `RecoveryIsBounded` changed what the property says. Bash output
recorded during a run is deferred; if it is flushed after recovery has given up,
the transcript no longer ends with the failed reply, and the next prompt, whose
check of the context compacts at the threshold and finds a queued follow-up,
goes on from there: a fourth recovery with `maxRetries = 1` and no user message
or good reply in between (TLC finds it with three user messages, one bash
result and six failing replies, beyond the bounds of the run). Nothing is
unbounded about it, since each such round needs new output of a command;
`recoveries` therefore starts again when bash output enters the transcript, at
the flush and not when it is recorded.

Two observations have no run of their own; the properties except them by a
history variable: what happens while `compact()` has the handler unsubscribed
(`unheard`), and the server that a reload during an attempt leaves behind
(`late`). Both are described above.

### Bounds

All unbounded inputs are counted, and the counters appear in guards only:
`MaxUserMessages` (messages ever accepted), `MaxTurns` (replies that may still
ask for tools, then the model is content), `MaxToolCalls` (per reply),
`MaxBashMessages`, `MaxReplies` (replies that fail or ask for tools),
`MaxCalls`, `MaxCompacts`. `MaxRetries` is a setting. Two calls per batch
suffice to end out of order, to have one throw while the other goes on and to
mix immediate and executed results; two turns to steer between batches and to
continue after one; two messages to order a lane, or to have one in a lane and
one in the run. In `agent` the first message starts the run, so that a drain
rarely finds two; the two queue modes come fully apart only with a third
message, for which the instance is too large (9.6 million states with two turns
and one call), and in the proofs, which bound nothing. `agent_end` needs one
prompt and one reply. One retry gives the sequences error-retry-error,
error-overflow and overflow-error; four failing replies outnumber what recovery
can answer with `MaxRetries = 1`. Three file calls give a queue with a middle.
`session` has one compaction by hand, one bash result, and one reply that fails
or asks for tools: the compaction may come at any moment and multiplies the
states, so that longer sequences of failures are left to `session_recovery`,
where there is none. Two such replies were also checked, with overflows only:
3.4 million states, no error. `session_recovery` identifies states that differ
in `accepted` and `cleared` only (`RecoveryView`): no guard and neither property
of the run reads these two records, so that such states have the same steps and
the same future. `MaxEntries`, `MaxFiles` and `MaxFaults` bound
the entries, the files and the interrupted writes. In `session_file` three
entries give a branch with a side branch, a compaction with a kept entry, a
label that is removed again, and a saved line, the torn one and the one glued
to it; two files give a session and the one it is forked or branched into; one
fault, since the loss per fault is what is bounded (two faults were checked
once: 753,000 states, no error). `session_branched` takes five entries without
faults, enough for messages on both sides of a label. `QueueModes` is what the
owner may switch between; the mode is chosen at each drain, which includes
switching at any moment. `mcp` has two calls, one that connects and one that
joins, finds the connection or comes after it was lost; one reload (or the end
of the session), hence two connections; and as many clients at a time as two
connections can have starting, open or closing (`MaxClients` is four: a
connection that needed a fifth would wait in the guard of `StartClient`,
`\E k : Unused(k)`). `auth` has two
processes, three tokens (the one stored, one from a login, one from a refresh,
or two refreshes in a row), one key, one change and one death. Two changes were
also checked, without liveness: 2.06 million states, no error.

### Fairness

`Agent!FairSpec` is weak fairness of `RunStep`: streams, tools, hooks and
listeners settle and the event loop resumes the run. Nothing is fair about the
owner. `AgentSession!FairSpec` is weak fairness of the same progress, timers
and compactions included; a stray step of another call cannot starve it because
the bounds make those finite. `FileMutationQueue!FairSpec` is weak fairness of
the registration chain and of each mutation: promise reactions run and file
operations settle. `McpManager!Spec` has three conditions: continuations,
requests and starts of clients end (all have timeouts), closing clients stop
(the SDK kills them), and set idle timers fire. Nothing is fair about reloads,
disconnects or the death of a server. `AuthStorage!Spec` is weak fairness, for
each process, of its synchronous operation (which gives up after ten attempts)
and of its refresh (`lock` gives up after ten retries, the provider answers or
the request fails); time and deaths are not fair. Deadlock is not checked: an
idle agent whose owner has no messages left stops.

## 4. Proofs

Every safety property of the passing runs, invariants, action properties and the
refinement, is a theorem of the specification it is checked for, for all values
of the constants that meet the assumptions of its module (`...Assumption`: the
bounds are natural numbers, the sets finite where the code counts them). No
theorem needs a bound to be small. Hypotheses beyond these assumptions are named
below; each holds in the run that checks the property. Each invariant was run
through TLC, exhaustively or by simulation, before it was proved.

The lemmas come first in each module, what the operators of the model return
before what the steps keep; a step lemma has one step per action.

### `AgentProofs`

Any number of messages, turns and calls, any queue modes.

* `TypeCorrect`: `Spec => [](TypeOK /\ Control)`. `Control` says what the flags
  and locals are at each `pc`; typing alone is not inductive, since for
  instance `MessageEnd(reply)` appends whatever `reply` is.
* `RequestsSeeTranscript`. The context and the transcript differ in the middle
  of most steps; the invariant `Mirror` states by exactly which message they
  differ at each `pc`.
* `NoMessageIsLost`, with `HandsEmpty` (messages are held only where they are
  announced): the two queues, the hands of the run, the transcript and what was
  discarded (cleared, reset, or drained by a run that threw before announcing
  it) are pairwise disjoint, none has a message twice, and together they are
  all messages.
* `AgentDelivers`: `Spec => DeliversMessages`. `DeliveryStep` lists the steps of
  `MessageDelivery` that a step of `Agent` may be; one lemma per group of
  actions shows which it is, or that nothing abstract changes.
* `AgentEndIsARecord`. `Report` follows the run's own list of new messages
  against the part of the transcript added since `runStart` (`Added`), and
  `ReportedSoFar` what has been reported against both, through failures of
  listeners and the failure path.
* `ResultsStandByTheirReply` and `CallsAreNotSkipped`. `Placed` says where the
  reply of the batch stands while its results come in, `Answered` that earlier
  replies are complete before the model is asked.
* `InjectedMessagesGetAnswers`, also for listeners that reject. `LastWord` says
  at which `pc` the transcript may end with a user message: only where the
  model, or the announcement of a failure, is still to come.

### `AgentSessionProofs`, `AgentSessionContextProofs`

Any number of messages, replies, retries and compactions, any failures.

* `TypeCorrect`, for any number of callers, with `Control` (`CallOK` of each
  call, `RunOK` of the run): who waits for the run, in which loop a call may be
  where, and that messages are held only where they are announced. That the
  session only grows (`SessionIsExtended`) keeps what a compaction has seen
  within it.
* `QueuesAreShown`, for any number of callers. `Placed` says that
  what is queued or shown was accepted and not returned to the owner, `Distinct`
  that no message is at two places; without this the removal of one text from a
  shown list could hide another.

The rest assumes one caller of `prompt()` at a time (`OnePrompter`). The code
does not enforce it (finding 2), and for overlapping calls
`AcceptedMessagesAreKept` is violated and a flush may put bash output into the
run of the other call. `RecoveryIsBounded` was not found violated with two
callers (27 million states of random behaviours), and is not claimed for them.

* `NothingAcceptedIsLost`: with one caller the Agent never refuses a prompt, so
  that every accepted message stays in some place (`AllPlaced`).
* `CallsKeepTheirResults`. `Closed` says that every call but the last message is
  followed by its result, `Ended` that the last one has none open; `OpenOK`
  states for transcript and session which of them may be open, and only while a
  tool runs or its result is being saved. `SaveOK` ties the message being saved
  to the end of the transcript, `ResultsOK` keeps numbers of results apart.
  `Fine` is what compaction, cutting and flushing preserve: `ClosedContext`
  shows that a rebuilt context never begins between a call and its result.
* `ReloadIsFaithful`. `InStep` is the property with the message being saved
  added; `HeardOK`, `LatestOK` and `CheckedOK` say that the reply which a retry
  or a recovery removes from the transcript is one that the property excepts.
  `ContextOfMore` says how the rebuilt context grows with the session.
* `RecoveryEnds`: `Spec => []RecoveryIsBounded`. `BudgetOK`: as many retries as
  `retryAttempt` counts, and `Spare` of them, plus the compaction itself, after
  an overflow was recovered; or all of them are spent and the session is
  `Settled`: both records end with a reply, so that `continue()` has nothing to
  go on from but a queued message, whose announcement starts a new count.
  `FailureOK` says why it is settled when recovery gives up (a failed reply ends
  its run and is the last in transcript and session), `KeepsSome` and
  `ContextEnds` why compactions at the threshold and by hand leave it so (every
  compaction keeps a message, so the context still ends with the last one),
  and `OverflowOK` that a compaction under way for an overflow is the only one.

### `SessionManagerProofs`

Any number of entries, files, restarts and faults. `SInv` is inductive
(`Invariance`): `Names` (flags, numbers and the file of the session), `Memory`
(a tree in ascending order, `Tree`), `Disk` (what each file holds, `FileInv`),
`Headed` (a file that was flushed has its header) and `InStep` (without a fault
the file is what is in memory). `FileInv` counts: the entries reported as
written that a load would miss are at most as many as the faults, fewer if the
last line is still open, since the next append completes the damage of that
line. From it follow `TypeCorrect`, `ParentsStandFirst`, `RepliesAreKept`,
`ReloadGivesTheSession` and `OneEntryIsLost`, and with one more step each the
action properties `FilesAreAppendedTo` and `BranchesAreShown`; the last needs
that a walk from an entry gives the same branch in the session made of it
(`IsBranch`, `Chained`, `Labelled`).

`Only` and the walks to the root are recursive functions. A fact about all their
values is proved from the least counterexample: a set of naturals that is not
empty has a least element (`Least`), and a set of sequences that holds the empty
one and grows by `Append` holds all (`SeqInduct`).

### `FileMutationQueueProofs`

Any number of calls, paths and links.

* `TypeCorrect`, `QueuesAreForgotten`: from `IInv`. Registration goes by turns
  (`Turns`), each call of a key waits for the call registered before it with
  that key (`InOrder`, `WaitsForItsKey`), and the map names the last of them.
* `Serialized` and `EditsAddUp` assume that links lead to files that exist from
  the start (`AliasesHaveFiles`); run `file_queue_new` shows that the assumption
  is needed. `KeysAreFiles`: the key of a call is then the real path of its
  file. `Changes` says what each file shows and what each edit has read.

### `McpManagerProofs`

Any number of calls, clients and configurations. One inductive invariant,
`Inv`: connections and calls are numbered as they begin, the attempt under way
belongs to the connection of the map or to one dropped under it (`Manager`), a
client belongs to one connection (`Clients`), and what each call knows of its
connection at each await (`CallOK`). It gives `TypeCorrect` and
`NoServerIsLost`; the action properties `CallsAreAnsweredFromTheirConfig` and
`LiveServersAreAskedOnce` follow from one step more. Most steps only take
connections and clients away (`McpKept`, `LifeKept`), and what that preserves
is proved once.

### `AuthStorageProofs`

Any number of processes, tokens, keys, changes and deaths, in four layers:

* `TypeCorrect`, from `IInv`, which adds to the types what the fields of one
  process say of each other (`Consistent`).
* `MutualExclusion`: `Spec => []OneAtATime`, inductive once `IInv` is known.
* `StoredTokens`: `Spec => []StoredTokenIsUsable`. A token travels from the
  file into `next`, from there to the provider and back; `TokenInv` says that a
  token in the file, or on its way to it, is live, and that a login that is
  still to be written is nowhere else yet (`Fresh`), so that a refresh cannot
  spend it.
* `SavedCredentials`: `Spec => []SavedCredentialsAreKept`. `SavedInv` says that
  what the holder of the lock has read is what was saved last.

The last two rest on `MutualExclusion`: what one process read stays true because
no other may write.

### What is only model-checked

Liveness (`RunSettles`, `PromptReturns`, both `CallsSettle`,
`IdleServersAreClosed`, `GetApiKeySettles`): the prover has no rules for
`ENABLED` and fairness. The violations of section 3 are single behaviours, which
TLC shows.

## 5. What is not modelled

* The text of messages, images, token counts, prices, wording of errors.
* What the transcript shows after `reset()` during a run, or after a failed run
  whose stragglers still execute, beyond what the properties claim.
* In `AgentSession`: tree navigation, model changes, custom and `nextTurn`
  messages, extension commands, settings that switch retry or compaction off.
  Queued texts are distinct; two equal texts could be removed from the wrong
  shown list. A message whose handler is still running is in the transcript and
  not yet in the file (`runPc = "save"`). No handler and no run throws in the
  middle of a save (`agent.ts:467-474`; `Agent` has those).
* Inside `_runAutoCompaction`, assigning the rebuilt messages, the awaited
  `session_compact` event and dropping the failed reply
  (`agent-session.ts:2059-2087`) are one step.
* Of `compact()` by hand: more than one call, a second one that overlaps, and
  the extension handlers that are awaited after the compaction.
* In `McpManager`: the metadata cache and the pid that the exit handler kills,
  statuses, authorization beyond failing, an
  abort signal other than as a request that fails, and servers that report
  progress without end.
* In `AuthStorage`: the backend in memory; overrides and fallbacks, which never
  reach the file; two refreshes of one process at a time; two paths of one file
  (the synchronous lock does not resolve links); a suspended machine, on which
  even a live lock grows stale for a refresh, and races inside
  `proper-lockfile`. A process that lives writes the file and releases the lock
  in one step (`auth-storage.ts:113-120, 158-166`); only a death falls between
  the two. That `login()` after a failed load is kept in memory only
  is in the model, and no property is about it.
* A write that fails half-way leaves the file `damaged`: nothing is claimed
  about it afterwards.
* In `SessionManager`: sessions in memory only, migration of files of an older
  version, listing, and two processes on one file. The order of the labels that
  a branched session gets.
* The components listed as `not_modelled` in `PROJECT.json`, with reasons.

## 6. Plan

Models, in order:

1. `SessionManager`: sessions in memory only, migration of old files, and an
   abstract specification (a log of entries of which an interrupted write loses
   at most the last) for the module to implement; its compaction entries
   composed with `AgentSession`.
2. The other operations of `AgentSession` (`navigateTree`, custom and `nextTurn`
   messages, model changes) and a finer grain for the handler of events.
3. `EventStream` and its consumers; the stream of `AgentLoop` as its abstract
   specification.
4. `MapConcurrent` and the status files of background subagents.
5. Compaction cut points as operators against a reference definition.

Done since the first version: `compact()` by hand, `McpManager`, `AuthStorage`.

Proofs: every invariant and every action property that a passing run checks is a
theorem. What is left is to prove more of what has no run yet: the abstract
specification of `SessionManager` and its refinement, the operations of
`AgentSession` that are still to be modelled, and, for several callers of
`prompt()` at once, what remains true of the four properties that are proved for
one.
