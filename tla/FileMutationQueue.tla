-------------------------- MODULE FileMutationQueue --------------------------
(***************************************************************************)
(* withFileMutationQueue (packages/coding-agent/src/core/tools/            *)
(* file-mutation-queue.ts) and the tools that run inside it, write.ts and  *)
(* edit.ts.  Tool calls run in parallel; the calls that mutate the same    *)
(* file queue up behind a key, the real path of a file that exists or the  *)
(* path as it was given.                                                   *)
(*                                                                         *)
(* Calls are numbered in the order in which withFileMutationQueue is       *)
(* called.  The promise chain registrationQueue registers them one by one  *)
(* in that order: next is the call whose turn it is.  A promise of the map *)
(* fileMutationQueues is named by the call that chained it; it is resolved *)
(* when that call has ended (0: Promise.resolve()).                        *)
(***************************************************************************)
EXTENDS Naturals, FiniteSets

CONSTANTS
    MaxCalls,      \* bound: calls ever made
    Paths,         \* resolved paths that tools are called with
    Canonical,     \* the real path of each, if there is a file
    InitialFiles   \* the real paths of the files that exist at the start

ASSUME FileMutationQueueAssumption ==
    /\ MaxCalls \in Nat
    /\ Canonical \in [Paths -> Paths]
    /\ \A path \in Paths : Canonical[Canonical[path]] = Canonical[path]
    /\ InitialFiles \subseteq Paths

VARIABLES
    exists,    \* the files there are, by real path
    content,   \* of each file: the calls whose change it shows
    calls, next,
    kind, path, key, currentQueue, snapshot, pc,  \* of each call
    fileMutationQueues,  \* of each key: the last call in the queue, or 0
    applied, damaged     \* history: calls that have written, files half written

diskVars == << exists, content >>
callVars == << kind, path >>
history  == << applied, damaged >>
vars == << diskVars, calls, next, callVars, key, currentQueue, snapshot, pc,
           fileMutationQueues, history >>

Call == 1..MaxCalls
File(c) == Canonical[path[c]]

Mutating(c) == pc[c] \in {"begun", "read", "writing"}
Queued(c)   == pc[c] = "registered" \/ Mutating(c)

Init ==
    /\ exists = InitialFiles
    /\ content = [f \in Paths |-> {}]
    /\ calls = 0 /\ next = 1
    /\ kind = [c \in Call |-> "write"]
    /\ path \in { [c \in Call |-> p] : p \in Paths }  \* set by each call
    /\ key = path
    /\ currentQueue = [c \in Call |-> 0]
    /\ snapshot = [c \in Call |-> {}]
    /\ pc = [c \in Call |-> "none"]
    /\ fileMutationQueues = [k \in Paths |-> 0]
    /\ applied = {} /\ damaged = {}

\* withFileMutationQueue(path, fn): the registration is queued.
WithFileMutationQueue(tool, p) ==
    /\ calls + 1 \in Call
    /\ calls' = calls + 1
    /\ kind' = [kind EXCEPT ![calls + 1] = tool]
    /\ path' = [path EXCEPT ![calls + 1] = p]
    /\ pc' = [pc EXCEPT ![calls + 1] = "called"]
    /\ UNCHANGED << diskVars, next, key, currentQueue, snapshot,
                    fileMutationQueues, history >>

\* Mutant of GetMutationQueueKey: symbolic links are not resolved.
GetMutationQueueKeyAsGiven ==
    /\ next \in Call /\ pc[next] = "called"
    /\ key' = [key EXCEPT ![next] = path[next]]
    /\ pc' = [pc EXCEPT ![next] = "resolved"]
    /\ UNCHANGED << diskVars, calls, next, callVars, currentQueue, snapshot,
                    fileMutationQueues, history >>

\* getMutationQueueKey: realpath looks at the disk, ...
GetMutationQueueKey ==
    /\ next \in Call /\ pc[next] = "called"
    /\ key' = [key EXCEPT ![next] = IF File(next) \in exists THEN File(next)
                                                             ELSE path[next]]
    /\ pc' = [pc EXCEPT ![next] = "resolved"]
    /\ UNCHANGED << diskVars, calls, next, callVars, currentQueue, snapshot,
                    fileMutationQueues, history >>

\* Mutants of GetMutationQueueKeyThrows: the registration queue advances twice,
\* or the registrations after this one are lost.
GetMutationQueueKeyThrowsTwice ==
    /\ next \in Call /\ pc[next] = "called"
    /\ pc' = [pc EXCEPT ![next] = "rejected"]
    /\ next' = next + 2
    /\ UNCHANGED << diskVars, calls, callVars, key, currentQueue, snapshot,
                    fileMutationQueues, history >>
GetMutationQueueKeyThrowsForAll ==
    /\ next \in Call /\ pc[next] = "called"
    /\ pc' = [pc EXCEPT ![next] = "rejected"]
    /\ UNCHANGED << diskVars, calls, next, callVars, key, currentQueue,
                    snapshot, fileMutationQueues, history >>

\* ... or fails, and the call rejects; the next one is registered all the same.
GetMutationQueueKeyThrows ==
    /\ next \in Call /\ pc[next] = "called"
    /\ pc' = [pc EXCEPT ![next] = "rejected"]
    /\ next' = next + 1
    /\ UNCHANGED << diskVars, calls, callVars, key, currentQueue, snapshot,
                    fileMutationQueues, history >>

\* The rest of the registration: behind the queue of the key.
Register ==
    /\ next \in Call /\ pc[next] = "resolved"
    /\ currentQueue' = [currentQueue EXCEPT
                          ![next] = fileMutationQueues[key[next]]]
    /\ fileMutationQueues' = [fileMutationQueues EXCEPT ![key[next]] = next]
    /\ pc' = [pc EXCEPT ![next] = "registered"]
    /\ next' = next + 1
    /\ UNCHANGED << diskVars, calls, callVars, key, snapshot, history >>

\* await currentQueue
Begin(c) ==
    /\ pc[c] = "registered"
    /\ currentQueue[c] # 0 => pc[currentQueue[c]] = "done"
    /\ pc' = [pc EXCEPT ![c] = "begun"]
    /\ UNCHANGED << diskVars, calls, next, callVars, key, currentQueue,
                    snapshot, fileMutationQueues, history >>

\* Mutants of Release: the queue is forgotten with calls in it, or never.
ReleaseForgets(c) ==
    /\ pc' = [pc EXCEPT ![c] = "done"]
    /\ fileMutationQueues' = [fileMutationQueues EXCEPT ![key[c]] = 0]
    /\ UNCHANGED << calls, next, callVars, key, currentQueue >>
ReleaseKeeps(c) ==
    /\ pc' = [pc EXCEPT ![c] = "done"]
    /\ UNCHANGED << fileMutationQueues, calls, next, callVars, key,
                    currentQueue >>

\* finally: release the next call, forget the queue if this was its last one.
Release(c) ==
    /\ pc' = [pc EXCEPT ![c] = "done"]
    /\ fileMutationQueues' =
         [fileMutationQueues EXCEPT ![key[c]] = IF @ = c THEN 0 ELSE @]
    /\ UNCHANGED << calls, next, callVars, key, currentQueue >>

\* edit.ts: access and readFile
Read(c) ==
    /\ pc[c] = "begun" /\ kind[c] = "edit" /\ File(c) \in exists
    /\ snapshot' = [snapshot EXCEPT ![c] = content[File(c)]]
    /\ pc' = [pc EXCEPT ![c] = "read"]
    /\ UNCHANGED << diskVars, calls, next, callVars, key, currentQueue,
                    fileMutationQueues, history >>

\* writeFile creates or truncates the file ...
WriteStart(c) ==
    /\ pc[c] = IF kind[c] = "edit" THEN "read" ELSE "begun"
    /\ exists' = exists \union {File(c)}
    /\ content' = [content EXCEPT ![File(c)] = {}]
    /\ pc' = [pc EXCEPT ![c] = "writing"]
    /\ UNCHANGED << calls, next, callVars, key, currentQueue, snapshot,
                    fileMutationQueues, history >>

\* ... and fills it.  Whether the call is reported as aborted then or not, it
\* has changed the file.
WriteEnd(c) ==
    /\ pc[c] = "writing"
    /\ content' = [content EXCEPT ![File(c)] = snapshot[c] \union {c}]
    /\ applied' = applied \union {c}
    /\ Release(c)
    /\ UNCHANGED << exists, snapshot, damaged >>

WriteThrows(c) ==
    /\ pc[c] = "writing"
    /\ damaged' = damaged \union {File(c)}
    /\ Release(c)
    /\ UNCHANGED << diskVars, snapshot, applied >>

\* Aborted between two file operations, no such file, no access, or the text to
\* replace is not there.
Throws(c) ==
    /\ pc[c] \in {"begun", "read"}
    /\ Release(c)
    /\ UNCHANGED << diskVars, snapshot, history >>

Registration == GetMutationQueueKey \/ GetMutationQueueKeyThrows \/ Register

Mutation(c) ==
    Begin(c) \/ Read(c) \/ WriteStart(c) \/ WriteEnd(c) \/ WriteThrows(c)
      \/ Throws(c)

Next ==
    \/ \E tool \in {"write", "edit"}, p \in Paths : WithFileMutationQueue(tool, p)
    \/ Registration
    \/ \E c \in Call : Mutation(c)

Spec == Init /\ [][Next]_vars

\* Promise reactions run and file operations settle.
FairSpec == Spec /\ WF_vars(Registration) /\ \A c \in Call : WF_vars(Mutation(c))

-----------------------------------------------------------------------------
(* Properties *)

\* Every variable has its type.
TypeOK ==
    /\ exists \in SUBSET Paths /\ content \in [Paths -> SUBSET Call]
    /\ calls \in 0..MaxCalls /\ next \in 1..(MaxCalls + 1)
    /\ kind \in [Call -> {"write", "edit"}]
    /\ path \in [Call -> Paths] /\ key \in [Call -> Paths]
    /\ currentQueue \in [Call -> 0..MaxCalls]
    /\ snapshot \in [Call -> SUBSET Call]
    /\ pc \in [Call -> {"none", "called", "resolved", "registered", "begun",
                        "read", "writing", "done", "rejected"}]
    /\ fileMutationQueues \in [Paths -> 0..MaxCalls]
    /\ applied \in SUBSET Call /\ damaged \in SUBSET Paths

\* "Serialize file mutation operations targeting the same file"
\* (withFileMutationQueue): two calls are never inside their mutation of one
\* file, whichever paths they were given.
OneMutationPerFile ==
    \A c, d \in Call : c # d /\ Mutating(c) /\ Mutating(d) => File(c) # File(d)

\* The same for one path: two calls that were given the same path are never
\* inside their mutations at the same time.
OneMutationPerPath ==
    \A c, d \in Call : c # d /\ Mutating(c) /\ Mutating(d) => path[c] # path[d]

\* A file that nobody is mutating is what the calls make of it one by one in
\* the order in which they were made: the last write and the edits after it.
\* None of two parallel edits is lost.
AsIfOneByOne ==
    \A f \in Paths \ damaged :
      (\A c \in Call : Mutating(c) => File(c) # f) =>
        LET here   == { c \in applied : File(c) = f }
            writes == { c \in here : kind[c] = "write" }
        IN  content[f] = { c \in here : \A w \in writes : w <= c }

\* The map forgets every queue: an entry names a call that is still in it, so
\* that nothing is left when every call has settled.
NoQueueIsLeaked ==
    \A k \in Paths :
      LET last == fileMutationQueues[k]
      IN  last # 0 => Queued(last) /\ key[last] = k

\* Every call settles, although those in front of it may throw.
CallsSettle ==
    \A c \in Call : pc[c] = "called" ~> pc[c] \in {"done", "rejected"}

=============================================================================
