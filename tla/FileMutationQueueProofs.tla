---------------------- MODULE FileMutationQueueProofs ----------------------
(***************************************************************************)
(* Proofs about FileMutationQueue, for every number of calls, paths and    *)
(* files: the calls of one key run one at a time, the map of queues names  *)
(* only queued calls, and, where every alias leads to a file that exists,  *)
(* the calls of one file run one at a time and none of their edits is      *)
(* lost.                                                                   *)
(***************************************************************************)
EXTENDS FileMutationQueue, TLAPS

\* The registration chain: the calls before next have been registered or
\* rejected, those after it wait.
Turns ==
    \A c \in Call :
      /\ c < next => pc[c] \in {"registered", "begun", "read", "writing",
                                "done", "rejected"}
      /\ c = next => pc[c] \in {"none", "called", "resolved"}
      /\ c > next => pc[c] \in {"none", "called"}
      /\ c > calls => pc[c] = "none"

\* The map names the last queued call of every key.
LastIsNamed ==
    \A c \in Call : Queued(c) => c <= fileMutationQueues[key[c]]

\* A queued call waits for a call of its key that is not in front of any other
\* queued one.
WaitsForItsKey ==
    \A d \in Call : Queued(d) =>
      /\ currentQueue[d] # 0 =>
           currentQueue[d] < d /\ key[currentQueue[d]] = key[d]
      /\ \A c \in Call : Queued(c) /\ c < d /\ key[c] = key[d] =>
           c <= currentQueue[d]

\* A call that has begun, or ended, leaves no earlier call of its key behind.
InOrder ==
    \A c, d \in Call :
      c < d /\ key[c] = key[d] /\ Queued(c) => ~(Mutating(d) \/ pc[d] = "done")

IInv == TypeOK /\ Turns /\ LastIsNamed /\ NoQueueIsLeaked /\ WaitsForItsKey
          /\ InOrder

\* The invariant holds at the start.
LEMMA InitIInv == Init => IInv
  BY FileMutationQueueAssumption
     DEF FileMutationQueueAssumption, Init, IInv, TypeOK, Turns, LastIsNamed,
         NoQueueIsLeaked, WaitsForItsKey, InOrder, Queued, Mutating, Call

\* Every step preserves the types, ...
LEMMA TypeStep == ASSUME TypeOK, [Next]_vars PROVE TypeOK'
<1> USE FileMutationQueueAssumption
    DEF FileMutationQueueAssumption, TypeOK, diskVars, callVars, history
<1>1. ASSUME NEW tool \in {"write", "edit"}, NEW p \in Paths,
             WithFileMutationQueue(tool, p)
      PROVE  TypeOK'
  <2>1. /\ calls' \in 0..MaxCalls
        /\ kind' \in [Call -> {"write", "edit"}] /\ path' \in [Call -> Paths]
    BY <1>1 DEF WithFileMutationQueue, Call
  <2>2. pc' = [pc EXCEPT ![calls + 1] = "called"]
    BY <1>1 DEF WithFileMutationQueue
  <2> QED
    BY <1>1, <2>1, <2>2 DEF WithFileMutationQueue
<1>2. CASE GetMutationQueueKey
  BY <1>2 DEF GetMutationQueueKey, File
<1>3. CASE GetMutationQueueKeyThrows
  BY <1>3, SMTT(30) DEF GetMutationQueueKeyThrows, Call
<1>4. CASE Register
  BY <1>4 DEF Register, Call
<1>5. ASSUME NEW c \in Call, Begin(c) PROVE TypeOK'
  BY <1>5 DEF Begin
<1>6. ASSUME NEW c \in Call, Read(c) PROVE TypeOK'
  <2>1. File(c) \in Paths
    BY DEF File
  <2>2. content[File(c)] \in SUBSET Call
    BY <2>1
  <2>3. snapshot' \in [Call -> SUBSET Call]
    BY <1>6, <2>2 DEF Read
  <2>4. pc' = [pc EXCEPT ![c] = "read"]
    BY <1>6 DEF Read
  <2> QED
    BY <1>6, <2>3, <2>4 DEF Read
<1>7. ASSUME NEW c \in Call, WriteStart(c) PROVE TypeOK'
  <2>1. File(c) \in Paths
    BY DEF File
  <2>2. /\ exists' \in SUBSET Paths /\ content' \in [Paths -> SUBSET Call]
        /\ pc' = [pc EXCEPT ![c] = "writing"]
    BY <1>7, <2>1 DEF WriteStart
  <2> QED
    BY <1>7, <2>2 DEF WriteStart
<1>8. ASSUME NEW c \in Call, WriteEnd(c) PROVE TypeOK'
  <2>1. File(c) \in Paths /\ snapshot[c] \union {c} \in SUBSET Call
    BY DEF File
  <2>2. content' \in [Paths -> SUBSET Call] /\ applied' \in SUBSET Call
    BY <1>8, <2>1 DEF WriteEnd
  <2>3. /\ fileMutationQueues' \in [Paths -> 0..MaxCalls]
        /\ pc' = [pc EXCEPT ![c] = "done"]
    BY <1>8 DEF WriteEnd, Release
  <2> QED
    BY <1>8, <2>2, <2>3 DEF WriteEnd, Release
<1>9. ASSUME NEW c \in Call, WriteThrows(c) PROVE TypeOK'
  BY <1>9 DEF WriteThrows, Release, File
<1>10. ASSUME NEW c \in Call, Throws(c) PROVE TypeOK'
  BY <1>10 DEF Throws, Release
<1>11. CASE UNCHANGED vars
  BY <1>11 DEF vars
<1> QED
  BY <1>1, <1>2, <1>3, <1>4, <1>5, <1>6, <1>7, <1>8, <1>9, <1>10, <1>11
     DEF Next, Registration, Mutation

\* A step of a call inside its mutation that does not end it leaves the queues
\* as they are.
LEMMA MutationStays ==
  ASSUME IInv, TypeOK', NEW c \in Call, Read(c) \/ WriteStart(c)
  PROVE  IInv'
<1>1. /\ Mutating(c)
      /\ pc' \in {[pc EXCEPT ![c] = "read"], [pc EXCEPT ![c] = "writing"]}
      /\ UNCHANGED << calls, next, key, currentQueue, fileMutationQueues >>
  BY DEF Read, WriteStart, Mutating, callVars, diskVars, history
<1>2. /\ \A d \in Call : Queued(d)' <=> Queued(d)
      /\ \A d \in Call : Mutating(d)' <=> Mutating(d)
      /\ \A d \in Call : d # c => pc'[d] = pc[d]
      /\ pc'[c] \in {"read", "writing"}
  BY <1>1 DEF IInv, TypeOK, Queued, Mutating
<1>3. Turns'
  BY <1>1, <1>2 DEF IInv, TypeOK, Turns, Mutating, Call
<1>4. LastIsNamed' /\ WaitsForItsKey'
  BY <1>1, <1>2 DEF IInv, LastIsNamed, WaitsForItsKey
<1>5. NoQueueIsLeaked'
  BY <1>1, <1>2 DEF IInv, TypeOK, NoQueueIsLeaked, Queued, Mutating, Call
<1>6. InOrder'
  BY <1>1, <1>2 DEF IInv, InOrder
<1> QED
  BY <1>3, <1>4, <1>5, <1>6 DEF IInv

\* The end of a mutation: nobody of its key is in front of it, so the map names
\* it only if nobody is behind it either.
LEMMA MutationEnds ==
  ASSUME IInv, TypeOK', NEW c \in Call, Mutating(c), Release(c)
  PROVE  IInv'
<1>1. /\ pc' = [pc EXCEPT ![c] = "done"]
      /\ fileMutationQueues' =
           [fileMutationQueues EXCEPT ![key[c]] = IF @ = c THEN 0 ELSE @]
      /\ UNCHANGED << calls, next, key, currentQueue >>
  BY DEF Release, callVars
<1>2. /\ \A d \in Call : d # c => (Queued(d)' <=> Queued(d))
      /\ \A d \in Call : d # c => (Mutating(d)' <=> Mutating(d))
      /\ \A d \in Call : d # c => pc'[d] = pc[d]
      /\ pc'[c] = "done" /\ ~Queued(c)' /\ ~Mutating(c)' /\ Queued(c)
  BY <1>1 DEF IInv, TypeOK, Queued, Mutating
<1>3. Turns'
  BY <1>1, <1>2 DEF IInv, TypeOK, Turns, Mutating, Call
<1>4. LastIsNamed'
  <2> SUFFICES ASSUME NEW d \in Call, Queued(d)'
               PROVE  d <= fileMutationQueues'[key'[d]]
    BY DEF LastIsNamed
  <2>1. d # c /\ Queued(d) /\ d <= fileMutationQueues[key[d]]
    BY <1>2 DEF IInv, LastIsNamed
  <2>2. CASE key[d] = key[c] /\ fileMutationQueues[key[c]] = c
    BY <1>2, <2>1, <2>2 DEF IInv, InOrder, Call
  <2>3. CASE ~(key[d] = key[c] /\ fileMutationQueues[key[c]] = c)
    BY <1>1, <2>1, <2>3 DEF IInv, TypeOK
  <2> QED
    BY <2>2, <2>3
<1>5. NoQueueIsLeaked'
  BY <1>1, <1>2 DEF IInv, TypeOK, NoQueueIsLeaked, Call
<1>6. WaitsForItsKey'
  BY <1>1, <1>2 DEF IInv, WaitsForItsKey
<1>7. InOrder'
  BY <1>1, <1>2 DEF IInv, InOrder
<1> QED
  BY <1>3, <1>4, <1>5, <1>6, <1>7 DEF IInv

\* ... the invariant of the chains, ...
LEMMA IInvStep == ASSUME IInv, [Next]_vars PROVE IInv'
<1>t. TypeOK /\ TypeOK'
  BY TypeStep DEF IInv
<1>p. \A c \in Call : pc[c] \notin {"none", "called", "resolved"} => c < next
  BY <1>t DEF IInv, Turns, TypeOK, Call
<1>1. ASSUME NEW tool \in {"write", "edit"}, NEW p \in Paths,
             WithFileMutationQueue(tool, p)
      PROVE  IInv'
  <2>1. /\ calls + 1 \in Call /\ calls' = calls + 1
        /\ pc' = [pc EXCEPT ![calls + 1] = "called"]
        /\ pc[calls + 1] = "none"
        /\ UNCHANGED << next, key, currentQueue, fileMutationQueues >>
    BY <1>1, <1>t DEF WithFileMutationQueue, IInv, Turns, TypeOK, Call
  <2>2. /\ \A d \in Call : Queued(d)' <=> Queued(d)
        /\ \A d \in Call : Mutating(d)' <=> Mutating(d)
        /\ \A d \in Call : d # calls + 1 => pc'[d] = pc[d]
        /\ pc'[calls + 1] = "called"
    BY <1>t, <2>1 DEF TypeOK, Queued, Mutating
  <2>3. Turns'
    BY <1>t, <2>1, <2>2 DEF IInv, TypeOK, Turns, Call
  <2>4. LastIsNamed' /\ WaitsForItsKey'
    BY <2>1, <2>2 DEF IInv, LastIsNamed, WaitsForItsKey
  <2>5. NoQueueIsLeaked'
    BY <1>t, <2>1, <2>2 DEF IInv, TypeOK, NoQueueIsLeaked, Queued, Mutating,
      Call
  <2>6. InOrder'
    BY <2>1, <2>2 DEF IInv, InOrder
  <2> QED
    BY <1>t, <2>3, <2>4, <2>5, <2>6 DEF IInv
<1>2. CASE GetMutationQueueKey
  <2>1. /\ next \in Call /\ pc[next] = "called"
        /\ pc' = [pc EXCEPT ![next] = "resolved"]
        /\ \A d \in Call : d # next => key'[d] = key[d]
        /\ UNCHANGED << calls, next, currentQueue, fileMutationQueues >>
    BY <1>2, <1>t DEF GetMutationQueueKey, TypeOK
  <2>2. /\ \A d \in Call : Queued(d)' <=> Queued(d)
        /\ \A d \in Call : Mutating(d)' <=> Mutating(d)
        /\ \A d \in Call : d # next => pc'[d] = pc[d]
        /\ pc'[next] = "resolved"
        /\ \A d \in Call :
            Queued(d) \/ Mutating(d) \/ pc[d] = "done" => d < next
    BY <1>t, <1>p, <2>1 DEF TypeOK, Queued, Mutating
  <2>3. Turns'
    BY <1>t, <2>1, <2>2 DEF IInv, TypeOK, Turns, Call
  <2>4. LastIsNamed'
    BY <1>t, <2>1, <2>2 DEF IInv, LastIsNamed, TypeOK, Call
  <2>5. NoQueueIsLeaked'
    BY <1>t, <2>1, <2>2 DEF IInv, TypeOK, NoQueueIsLeaked, Queued, Mutating,
      Call
  <2>6. WaitsForItsKey'
    BY <1>t, <2>1, <2>2 DEF IInv, WaitsForItsKey, TypeOK, Call
  <2>7. InOrder'
    BY <1>t, <2>1, <2>2 DEF IInv, InOrder, Mutating, Queued, TypeOK, Call
  <2> QED
    BY <1>t, <2>3, <2>4, <2>5, <2>6, <2>7 DEF IInv
<1>3. CASE GetMutationQueueKeyThrows
  <2>1. /\ next \in Call /\ pc[next] = "called" /\ next' = next + 1
        /\ pc' = [pc EXCEPT ![next] = "rejected"]
        /\ UNCHANGED << calls, key, currentQueue, fileMutationQueues >>
    BY <1>3 DEF GetMutationQueueKeyThrows, callVars
  <2>2. /\ \A d \in Call : Queued(d)' <=> Queued(d)
        /\ \A d \in Call : Mutating(d)' <=> Mutating(d)
        /\ \A d \in Call : d # next => pc'[d] = pc[d]
        /\ pc'[next] = "rejected"
    BY <1>t, <2>1 DEF TypeOK, Queued, Mutating
  <2>3. Turns'
    BY <1>t, <2>1, <2>2 DEF IInv, TypeOK, Turns, Call
  <2>4. LastIsNamed' /\ WaitsForItsKey'
    BY <2>1, <2>2 DEF IInv, LastIsNamed, WaitsForItsKey
  <2>5. NoQueueIsLeaked'
    BY <1>t, <2>1, <2>2 DEF IInv, TypeOK, NoQueueIsLeaked, Queued, Mutating,
      Call
  <2>6. InOrder'
    BY <2>1, <2>2 DEF IInv, InOrder
  <2> QED
    BY <1>t, <2>3, <2>4, <2>5, <2>6 DEF IInv
<1>4. CASE Register
  <2>1. /\ next \in Call /\ pc[next] = "resolved" /\ next' = next + 1
        /\ pc' = [pc EXCEPT ![next] = "registered"]
        /\ currentQueue' = [currentQueue EXCEPT
                              ![next] = fileMutationQueues[key[next]]]
        /\ fileMutationQueues' = [fileMutationQueues EXCEPT ![key[next]] = next]
        /\ UNCHANGED << calls, key >>
    BY <1>4 DEF Register, callVars
  <2>p. /\ \A d \in Call : d # next => pc'[d] = pc[d]
        /\ pc'[next] = "registered" /\ pc[next] = "resolved"
    BY <1>t, <2>1 DEF TypeOK
  <2>2. /\ \A d \in Call : d # next => (Queued(d)' <=> Queued(d))
        /\ \A d \in Call : Mutating(d)' <=> Mutating(d)
        /\ \A d \in Call : d # next => pc'[d] = pc[d]
        /\ pc'[next] = "registered" /\ pc[next] = "resolved"
    BY <2>1, <2>p DEF Queued, Mutating
  <2>e. \A d \in Call : Queued(d) \/ Mutating(d) \/ pc[d] = "done" => d < next
    BY <1>p DEF Queued, Mutating
  <2>3. Turns'
    BY <1>t, <2>1, <2>2, <2>e DEF IInv, TypeOK, Turns, Call
  <2>4. LastIsNamed'
    BY <1>t, <2>1, <2>2, <2>e DEF IInv, LastIsNamed, TypeOK, Call
  <2>5. NoQueueIsLeaked'
    BY <1>t, <2>1, <2>2, <2>e DEF IInv, TypeOK, NoQueueIsLeaked, Queued,
      Mutating, Call
  <2>6. WaitsForItsKey'
    <3> SUFFICES ASSUME NEW d \in Call, Queued(d)'
                 PROVE  /\ currentQueue'[d] # 0 =>
                             /\ currentQueue'[d] < d
                             /\ key'[currentQueue'[d]] = key'[d]
                        /\ \A c \in Call :
                             Queued(c)' /\ c < d /\ key'[c] = key'[d] =>
                               c <= currentQueue'[d]
      BY DEF WaitsForItsKey
    <3>1. CASE d # next
      BY <1>t, <2>1, <2>2, <2>e, <3>1 DEF IInv, WaitsForItsKey, TypeOK, Call
    <3>2. CASE d = next
      <4>1. currentQueue'[d] = fileMutationQueues[key[d]]
        BY <1>t, <2>1, <3>2 DEF TypeOK
      <4>2. currentQueue'[d] # 0 =>
              currentQueue'[d] < d /\ key'[currentQueue'[d]] = key'[d]
        BY <1>t, <2>1, <2>2, <2>e, <3>2, <4>1 DEF IInv, NoQueueIsLeaked,
          TypeOK, Call
      <4>3. \A c \in Call : Queued(c)' /\ c < d /\ key'[c] = key'[d] =>
                              c <= currentQueue'[d]
        BY <1>t, <2>1, <2>2, <2>e, <3>2, <4>1 DEF IInv, LastIsNamed, Call
      <4> QED
        BY <4>2, <4>3
    <3> QED
      BY <3>1, <3>2
  <2>7. InOrder'
    BY <1>t, <2>1, <2>2, <2>e DEF IInv, InOrder, TypeOK, Call
  <2> QED
    BY <1>t, <2>3, <2>4, <2>5, <2>6, <2>7 DEF IInv
<1>5. ASSUME NEW d \in Call, Begin(d) PROVE IInv'
  <2>1. /\ pc[d] = "registered" /\ pc' = [pc EXCEPT ![d] = "begun"]
        /\ currentQueue[d] # 0 => pc[currentQueue[d]] = "done"
        /\ UNCHANGED << calls, next, key, currentQueue, fileMutationQueues >>
    BY <1>5 DEF Begin, callVars
  <2>2. /\ \A c \in Call : Queued(c)' <=> Queued(c)
        /\ \A c \in Call : c # d => (Mutating(c)' <=> Mutating(c))
        /\ \A c \in Call : c # d => pc'[c] = pc[c]
        /\ pc'[d] = "begun" /\ Queued(d)
    BY <1>t, <2>1 DEF TypeOK, Queued, Mutating
  <2>3. Turns'
    BY <1>t, <2>1, <2>2 DEF IInv, TypeOK, Turns, Call
  <2>4. LastIsNamed' /\ WaitsForItsKey'
    BY <2>1, <2>2 DEF IInv, LastIsNamed, WaitsForItsKey
  <2>5. NoQueueIsLeaked'
    BY <1>t, <2>1, <2>2 DEF IInv, TypeOK, NoQueueIsLeaked, Queued, Mutating,
      Call
  <2>6. ASSUME NEW c \in Call, c < d, key[c] = key[d], Queued(c) PROVE FALSE
    <3> DEFINE b == currentQueue[d]
    <3>1. c <= b /\ (b # 0 => b < d /\ key[b] = key[d])
      BY <2>2, <2>6 DEF IInv, WaitsForItsKey
    <3>2. b \in Call /\ pc[b] = "done" /\ key[b] = key[c]
      BY <1>t, <2>1, <2>6, <3>1 DEF TypeOK, Call
    <3>3. c < b
      BY <1>t, <2>6, <3>1, <3>2, SMTT(30) DEF Queued, Mutating, TypeOK, Call
    <3> QED
      BY <2>6, <3>2, <3>3 DEF IInv, InOrder
  <2>7. InOrder'
    <3> SUFFICES ASSUME NEW c \in Call, NEW e \in Call, c < e,
                        key[c] = key[e], Queued(c)
                 PROVE  ~(Mutating(e)' \/ pc'[e] = "done")
      BY <2>1, <2>2 DEF InOrder
    <3>1. e # d
      BY <2>6
    <3> QED
      BY <2>2, <3>1 DEF IInv, InOrder
  <2> QED
    BY <1>t, <2>3, <2>4, <2>5, <2>7 DEF IInv
<1>6. ASSUME NEW c \in Call, Read(c) \/ WriteStart(c) PROVE IInv'
  BY <1>6, <1>t, MutationStays
<1>7. ASSUME NEW c \in Call, WriteEnd(c) \/ WriteThrows(c) \/ Throws(c)
      PROVE  IInv'
  <2>1. Mutating(c) /\ Release(c)
    BY <1>7 DEF WriteEnd, WriteThrows, Throws, Mutating
  <2> QED
    BY <1>t, <2>1, MutationEnds
<1>8. CASE UNCHANGED vars
  BY <1>t, <1>8
     DEF vars, IInv, Turns, LastIsNamed, NoQueueIsLeaked, WaitsForItsKey,
         InOrder, Queued, Mutating
<1> QED
  BY <1>1, <1>2, <1>3, <1>4, <1>5, <1>6, <1>7, <1>8
     DEF Next, Registration, Mutation

\* ... and so both always hold.
LEMMA Inductive == Spec => []IInv
  BY InitIInv, IInvStep, PTL DEF Spec

\* Every variable of the queue has its type, however many calls, paths and
\* files there are.
THEOREM TypeCorrect == Spec => []TypeOK
<1>1. IInv => TypeOK
  BY DEF IInv
<1> QED
  BY <1>1, Inductive, PTL

\* The map fileMutationQueues never keeps the queue of a key that no call waits
\* in, whatever throws.
THEOREM QueuesAreForgotten == Spec => []NoQueueIsLeaked
<1>1. IInv => NoQueueIsLeaked
  BY DEF IInv
<1> QED
  BY <1>1, Inductive, PTL

-----------------------------------------------------------------------------
(* One file, one key: the keys of the calls are the real paths when every  *)
(* alias leads to a file that exists from the start.                       *)

AliasesHaveFiles ==
    \A p \in Paths : Canonical[p] = p \/ Canonical[p] \in InitialFiles

KeysAreFiles ==
    /\ InitialFiles \subseteq exists
    /\ \A c \in Call : Queued(c) \/ pc[c] = "resolved" => key[c] = File(c)

\* Every step keeps the keys with their files.
LEMMA KeysStep ==
  ASSUME AliasesHaveFiles, IInv, KeysAreFiles, [Next]_vars
  PROVE  KeysAreFiles'
<1>t. TypeOK
  BY DEF IInv
<1>1. ASSUME NEW tool \in {"write", "edit"}, NEW p \in Paths,
             WithFileMutationQueue(tool, p)
      PROVE  KeysAreFiles'
  <2>1. /\ calls + 1 \in Call /\ pc'[calls + 1] = "called"
        /\ \A c \in Call : c # calls + 1 => pc'[c] = pc[c] /\ path'[c] = path[c]
        /\ UNCHANGED << exists, key >>
    BY <1>1, <1>t DEF WithFileMutationQueue, diskVars, TypeOK
  <2> QED
    BY <2>1 DEF KeysAreFiles, Queued, Mutating, File
<1>2. CASE GetMutationQueueKey
  <2>1. /\ next \in Call /\ path' = path /\ exists' = exists
        /\ key'[next] = IF File(next) \in exists THEN File(next) ELSE path[next]
        /\ \A c \in Call : c # next => key'[c] = key[c] /\ pc'[c] = pc[c]
    BY <1>2, <1>t DEF GetMutationQueueKey, diskVars, callVars, TypeOK
  <2>2. key'[next] = File(next)
    BY <1>t, <2>1 DEF KeysAreFiles, AliasesHaveFiles, File, TypeOK
  <2> QED
    BY <2>1, <2>2 DEF KeysAreFiles, Queued, Mutating, File
<1>3. CASE GetMutationQueueKeyThrows \/ Register
  BY <1>3, <1>t
     DEF GetMutationQueueKeyThrows, Register, diskVars, callVars, KeysAreFiles,
         Queued, Mutating, File, TypeOK
<1>4. ASSUME NEW c \in Call, Mutation(c) PROVE KeysAreFiles'
  <2>1. /\ exists \subseteq exists' /\ UNCHANGED << key, path >>
        /\ Queued(c) /\ \A d \in Call : d # c => pc'[d] = pc[d]
    BY <1>4, <1>t
       DEF Mutation, Begin, Read, WriteStart, WriteEnd, WriteThrows, Throws,
           Release, diskVars, callVars, Queued, Mutating, TypeOK
  <2> QED
    BY <2>1 DEF KeysAreFiles, Queued, Mutating, File
<1>5. CASE UNCHANGED vars
  BY <1>5 DEF vars, diskVars, callVars, KeysAreFiles, Queued, Mutating, File
<1> QED
  BY <1>1, <1>2, <1>3, <1>4, <1>5 DEF Next, Registration

\* One mutation of a file at a time, under the assumption on keys.
LEMMA OneByOne ==
  ASSUME IInv, KeysAreFiles PROVE OneMutationPerFile
<1> SUFFICES ASSUME NEW c \in Call, NEW d \in Call,
                    c # d, Mutating(c), Mutating(d), File(c) = File(d)
             PROVE  FALSE
  BY DEF OneMutationPerFile
<1>1. key[c] = key[d] /\ Queued(c) /\ Queued(d)
  BY DEF KeysAreFiles, Queued
<1>2. c < d \/ d < c
  BY DEF Call
<1> QED
  BY <1>1, <1>2 DEF IInv, InOrder

\* Calls that mutate the same file run one at a time, whichever of its paths
\* they were given and whatever order the registrations, the file operations
\* and the failures come in.
THEOREM Serialized ==
  ASSUME AliasesHaveFiles
  PROVE  Spec => []OneMutationPerFile
<1>1. Init => KeysAreFiles
  BY DEF Init, KeysAreFiles, Queued, Mutating
<1>2. IInv /\ KeysAreFiles => OneMutationPerFile
  BY OneByOne
<1>3. IInv /\ KeysAreFiles /\ [Next]_vars => KeysAreFiles'
  BY KeysStep
<1> QED
  BY <1>1, <1>2, <1>3, Inductive, PTL DEF Spec

-----------------------------------------------------------------------------
(* What the files show.                                                     *)

\* The calls whose change a file shows when they ran one by one.
Shown(f) ==
    { c \in applied :
        /\ File(c) = f
        /\ \A w \in applied : File(w) = f /\ kind[w] = "write" => w <= c }

Reading(c) == pc[c] = "read" \/ (pc[c] = "writing" /\ kind[c] = "edit")

\* What a call has read is what its file shows until it writes it.
Changes ==
    /\ \A c \in applied : pc[c] = "done" /\ key[c] = File(c)
    /\ \A c \in Call :
         /\ pc[c] = "none" \/ kind[c] = "write" => snapshot[c] = {}
         /\ pc[c] = "read" => kind[c] = "edit"
         /\ Reading(c) /\ File(c) \notin damaged => snapshot[c] = Shown(File(c))
    /\ \A f \in Paths \ damaged :
         (\A c \in Call : pc[c] = "writing" => File(c) # f)
           => content[f] = Shown(f)

FilesInv == IInv /\ KeysAreFiles /\ Changes

\* A step that applies nothing, and changes neither the files nor what was
\* read, keeps the contents.
LEMMA ChangesQuiet ==
  ASSUME TypeOK, Changes,
         UNCHANGED << content, snapshot, applied, damaged >>,
         \A c \in applied : kind'[c] = kind[c] /\ path'[c] = path[c]
                              /\ key'[c] = key[c] /\ pc'[c] = pc[c],
         \A c \in Call : /\ kind'[c] = "write" /\ kind[c] # "write"
                              => pc[c] = "none"
                         /\ pc'[c] = "none" => pc[c] = "none",
         \A c \in Call : Reading(c)' \/ pc'[c] \in {"read", "writing"}
                            => /\ pc'[c] = pc[c] /\ kind'[c] = kind[c]
                               /\ path'[c] = path[c],
         \A c \in Call : pc[c] = "writing" => pc'[c] = pc[c]
                                              /\ path'[c] = path[c]
  PROVE  Changes'
<1>1. \A c \in applied : File(c)' = File(c)
  BY DEF File
<1>2. \A f \in Paths : Shown(f)' = Shown(f)
  BY <1>1 DEF Shown
<1>3. \A c \in applied' : pc'[c] = "done" /\ key'[c] = File(c)'
  BY <1>1 DEF Changes
<1>4. ASSUME NEW c \in Call
      PROVE  /\ pc'[c] = "none" \/ kind'[c] = "write" => snapshot'[c] = {}
             /\ pc'[c] = "read" => kind'[c] = "edit"
             /\ Reading(c)' /\ File(c)' \notin damaged'
                  => snapshot'[c] = Shown(File(c))'
  <2>1. pc'[c] = "none" \/ kind'[c] = "write" => snapshot'[c] = {}
    BY DEF Changes
  <2>2. pc'[c] = "read" => kind'[c] = "edit"
    BY DEF Changes
  <2>3. ASSUME Reading(c)', File(c)' \notin damaged'
        PROVE  snapshot'[c] = Shown(File(c))'
    <3>1. Reading(c) /\ File(c)' = File(c) /\ File(c) \in Paths
      BY <2>3, FileMutationQueueAssumption
         DEF Reading, File, TypeOK, FileMutationQueueAssumption
    <3>2. snapshot[c] = Shown(File(c))
      BY <2>3, <3>1 DEF Changes
    <3>3. Shown(File(c))' = Shown(File(c))
      BY <1>1, <3>1 DEF Shown
    <3> QED
      BY <3>2, <3>3
  <2> QED
    BY <2>1, <2>2, <2>3
<1>5. ASSUME NEW f \in Paths \ damaged',
             \A c \in Call : pc'[c] = "writing" => File(c)' # f
      PROVE  content'[f] = Shown(f)'
  <2>1. \A c \in Call : pc[c] = "writing" => File(c) # f
    BY <1>5 DEF File
  <2>2. content[f] = Shown(f)
    BY <2>1 DEF Changes
  <2> QED
    BY <2>2, <1>2
<1> QED
  BY <1>3, <1>4, <1>5 DEF Changes

\* The end of a write: every call applied to the file came before it.
LEMMA ChangesApplied ==
  ASSUME FilesInv, NEW c \in Call, WriteEnd(c) PROVE Changes'
<1>t. TypeOK /\ OneMutationPerFile /\ Changes /\ Mutating(c)
  BY OneByOne DEF FilesInv, IInv, WriteEnd, Mutating
<1>1. /\ pc[c] = "writing" /\ pc' = [pc EXCEPT ![c] = "done"]
      /\ content' = [content EXCEPT ![File(c)] = snapshot[c] \union {c}]
      /\ applied' = applied \union {c}
      /\ UNCHANGED << kind, path, key, snapshot, damaged >>
  BY DEF WriteEnd, Release, callVars
<1>2. File(c) \in Paths /\ key[c] = File(c) /\ Queued(c) /\ c \notin applied
  BY <1>1, <1>t, FileMutationQueueAssumption
     DEF File, TypeOK, FileMutationQueueAssumption, FilesInv, KeysAreFiles,
         Queued, Changes
<1>3. \A d \in Call : File(d)' = File(d)
  BY <1>1 DEF File
<1>4. \A d \in applied : d \in Call /\ pc[d] = "done" /\ key[d] = File(d)
  BY <1>t DEF Changes, TypeOK
<1>5. \A d \in applied : File(d) = File(c) => d < c
  <2> SUFFICES ASSUME NEW d \in applied, File(d) = File(c), ~(d < c)
               PROVE  FALSE
    OBVIOUS
  <2>1. d \in Call /\ c < d
    BY <1>2, <1>4 DEF Call
  <2> QED
    BY <2>1, <1>2, <1>4 DEF FilesInv, IInv, InOrder
<1>6. pc'[c] = "done" /\ \A d \in Call : d # c => pc'[d] = pc[d]
  BY <1>1, <1>t DEF TypeOK
<1>7. \A f \in Paths : f # File(c) => Shown(f)' = Shown(f)
  BY <1>1, <1>3, <1>4 DEF Shown
<1>8. File(c) \notin damaged => Shown(File(c))' = snapshot[c] \union {c}
  <2> SUFFICES ASSUME File(c) \notin damaged
               PROVE  Shown(File(c))' = snapshot[c] \union {c}
    OBVIOUS
  <2>s. Shown(File(c))' =
          { d \in applied \union {c} :
              /\ File(d) = File(c)
              /\ \A w \in applied \union {c} :
                   File(w) = File(c) /\ kind[w] = "write" => w <= d }
    BY <1>1, <1>3, <1>4 DEF Shown
  <2>1. CASE kind[c] = "write"
    <3>1. snapshot[c] = {}
      BY <2>1, <1>t DEF Changes
    <3>2. \A d \in applied : File(d) = File(c) => ~(c <= d)
      BY <1>4, <1>5 DEF Call
    <3>3. \A d \in applied : File(d) = File(c) => d <= c
      BY <1>4, <1>5 DEF Call
    <3>4. c <= c
      BY DEF Call
    <3> QED
      BY <2>s, <3>1, <3>2, <3>3, <3>4, <2>1
  <2>2. CASE kind[c] = "edit"
    <3>1. snapshot[c] = Shown(File(c))
      BY <2>2, <1>1, <1>t DEF Changes, Reading
    <3>2. \A d \in applied : File(d) = File(c) => d <= c
      BY <1>4, <1>5 DEF Call
    <3> QED
      BY <2>s, <3>1, <3>2, <2>2 DEF Shown
  <2> QED
    BY <2>1, <2>2, <1>t DEF TypeOK
<1>9. \A d \in applied' : pc'[d] = "done" /\ key'[d] = File(d)'
  BY <1>1, <1>2, <1>3, <1>4, <1>6
<1>10. ASSUME NEW d \in Call
       PROVE  /\ pc'[d] = "none" \/ kind'[d] = "write" => snapshot'[d] = {}
              /\ pc'[d] = "read" => kind'[d] = "edit"
              /\ Reading(d)' /\ File(d)' \notin damaged'
                   => snapshot'[d] = Shown(File(d))'
  <2>1. /\ pc'[d] = "none" \/ kind'[d] = "write" => snapshot'[d] = {}
        /\ pc'[d] = "read" => kind'[d] = "edit"
    BY <1>1, <1>6, <1>t DEF Changes
  <2>2. ASSUME Reading(d)', File(d)' \notin damaged'
        PROVE  snapshot'[d] = Shown(File(d))'
    <3>1. d # c /\ Reading(d) /\ Mutating(d)
      BY <2>2, <1>1, <1>6 DEF Reading, Mutating
    <3>2. File(d) # File(c) /\ File(d) \in Paths
      BY <3>1, <1>t, FileMutationQueueAssumption
         DEF OneMutationPerFile, File, TypeOK, FileMutationQueueAssumption
    <3>3. snapshot[d] = Shown(File(d))
      BY <2>2, <3>1, <1>1, <1>3, <1>t DEF Changes
    <3>4. Shown(File(d))' = Shown(File(d))
      BY <1>1, <1>3, <1>4, <3>2 DEF Shown
    <3> QED
      BY <3>3, <3>4, <1>1
  <2> QED
    BY <2>1, <2>2
<1>11. ASSUME NEW f \in Paths \ damaged',
              \A d \in Call : pc'[d] = "writing" => File(d)' # f
       PROVE  content'[f] = Shown(f)'
  <2>1. CASE f = File(c)
    <3>1. content'[f] = snapshot[c] \union {c}
      BY <2>1, <1>1, <1>2, <1>t DEF TypeOK
    <3>2. Shown(f)' = Shown(File(c))'
      BY <2>1, <1>3 DEF Shown
    <3> QED
      BY <2>1, <3>1, <3>2, <1>1, <1>8
  <2>2. CASE f # File(c)
    <3>1. \A d \in Call : pc[d] = "writing" => File(d) # f
      BY <2>2, <1>11, <1>3, <1>6
    <3>2. content[f] = Shown(f)
      BY <3>1, <1>1, <1>t DEF Changes
    <3>3. content'[f] = content[f]
      BY <2>2, <1>1, <1>2, <1>t DEF TypeOK
    <3> QED
      BY <2>2, <3>2, <3>3, <1>7
  <2> QED
    BY <2>1, <2>2
<1> QED
  BY <1>9, <1>10, <1>11 DEF Changes

\* Reading takes what the file shows: nobody is writing it.
LEMMA ChangesRead ==
  ASSUME FilesInv, NEW c \in Call, Read(c) PROVE Changes'
<1>t. TypeOK /\ OneMutationPerFile /\ Changes /\ Mutating(c)
  BY OneByOne DEF FilesInv, IInv, Read, Mutating
<1>1. /\ pc[c] = "begun" /\ kind[c] = "edit" /\ pc' = [pc EXCEPT ![c] = "read"]
      /\ snapshot' = [snapshot EXCEPT ![c] = content[File(c)]]
      /\ UNCHANGED << content, kind, path, key, applied, damaged >>
  BY DEF Read, callVars, diskVars, history
<1>2. /\ pc'[c] = "read" /\ snapshot'[c] = content[File(c)]
      /\ \A d \in Call : d # c => pc'[d] = pc[d] /\ snapshot'[d] = snapshot[d]
  BY <1>1, <1>t DEF TypeOK
<1>3. File(c) \in Paths
  BY <1>t, FileMutationQueueAssumption
     DEF File, TypeOK, FileMutationQueueAssumption
<1>4. \A d \in Call : File(d)' = File(d) /\ Shown(File(d))' = Shown(File(d))
  BY <1>1, <1>t DEF File, Shown, TypeOK
<1>5. \A f \in Paths : Shown(f)' = Shown(f)
  BY <1>1, <1>t DEF File, Shown, TypeOK
<1>6. c \notin applied
  BY <1>1, <1>t DEF Changes
<1>7. \A d \in applied' : pc'[d] = "done" /\ key'[d] = File(d)'
  BY <1>1, <1>2, <1>4, <1>6, <1>t DEF Changes, TypeOK
<1>8. File(c) \notin damaged => content[File(c)] = Shown(File(c))
  <2>1. \A d \in Call : pc[d] = "writing" => File(d) # File(c)
    BY <1>1, <1>t DEF OneMutationPerFile, Mutating
  <2> QED
    BY <2>1, <1>3, <1>t DEF Changes
<1>9. ASSUME NEW d \in Call
      PROVE  /\ pc'[d] = "none" \/ kind'[d] = "write" => snapshot'[d] = {}
             /\ pc'[d] = "read" => kind'[d] = "edit"
             /\ Reading(d)' /\ File(d)' \notin damaged'
                  => snapshot'[d] = Shown(File(d))'
  <2>1. CASE d = c
    BY <2>1, <1>1, <1>2, <1>4, <1>8
  <2>2. CASE d # c
    BY <2>2, <1>1, <1>2, <1>4, <1>t DEF Changes, Reading
  <2> QED
    BY <2>1, <2>2
<1>10. ASSUME NEW f \in Paths \ damaged',
              \A d \in Call : pc'[d] = "writing" => File(d)' # f
       PROVE  content'[f] = Shown(f)'
  <2>1. \A d \in Call : pc[d] = "writing" => File(d) # f
    BY <1>10, <1>1, <1>2, <1>4
  <2> QED
    BY <2>1, <1>1, <1>5, <1>t DEF Changes
<1> QED
  BY <1>7, <1>9, <1>10 DEF Changes

\* A write that starts makes the file its own: nobody else has read it and not
\* written yet.
LEMMA ChangesStarted ==
  ASSUME FilesInv, NEW c \in Call, WriteStart(c) PROVE Changes'
<1>t. TypeOK /\ OneMutationPerFile /\ Changes /\ Mutating(c)
  BY OneByOne DEF FilesInv, IInv, WriteStart, Mutating
<1>1. /\ pc[c] = IF kind[c] = "edit" THEN "read" ELSE "begun"
      /\ pc' = [pc EXCEPT ![c] = "writing"]
      /\ content' = [content EXCEPT ![File(c)] = {}]
      /\ UNCHANGED << snapshot, kind, path, key, applied, damaged >>
  BY DEF WriteStart, callVars, diskVars, history
<1>2. /\ pc'[c] = "writing" /\ \A d \in Call : d # c => pc'[d] = pc[d]
      /\ \A f \in Paths : f # File(c) => content'[f] = content[f]
  BY <1>1, <1>t DEF TypeOK
<1>4. \A d \in Call : File(d)' = File(d) /\ Shown(File(d))' = Shown(File(d))
  BY <1>1, <1>t DEF File, Shown, TypeOK
<1>5. \A f \in Paths : Shown(f)' = Shown(f)
  BY <1>1, <1>t DEF File, Shown, TypeOK
<1>6. c \notin applied
  BY <1>1, <1>t DEF Changes
<1>7. \A d \in applied' : pc'[d] = "done" /\ key'[d] = File(d)'
  BY <1>1, <1>2, <1>4, <1>6, <1>t DEF Changes, TypeOK
<1>9. ASSUME NEW d \in Call
      PROVE  /\ pc'[d] = "none" \/ kind'[d] = "write" => snapshot'[d] = {}
             /\ pc'[d] = "read" => kind'[d] = "edit"
             /\ Reading(d)' /\ File(d)' \notin damaged'
                  => snapshot'[d] = Shown(File(d))'
  <2>1. Reading(d)' => Reading(d)
    BY <1>1, <1>2 DEF Reading
  <2>2. pc'[d] = "none" => pc[d] = "none"
    BY <1>2
  <2>3. pc'[d] = "read" => pc[d] = "read"
    BY <1>2
  <2> QED
    BY <2>1, <2>2, <2>3, <1>1, <1>4, <1>t DEF Changes
<1>10. ASSUME NEW f \in Paths \ damaged',
              \A d \in Call : pc'[d] = "writing" => File(d)' # f
       PROVE  content'[f] = Shown(f)'
  <2>1. f # File(c) /\ \A d \in Call : pc[d] = "writing" => File(d) # f
    BY <1>10, <1>1, <1>2, <1>4
  <2> QED
    BY <2>1, <1>1, <1>2, <1>5, <1>t DEF Changes
<1> QED
  BY <1>7, <1>9, <1>10 DEF Changes

\* A write that throws leaves a file that is damaged from then on.
LEMMA ChangesThrown ==
  ASSUME FilesInv, NEW c \in Call, WriteThrows(c) PROVE Changes'
<1>t. TypeOK /\ Changes
  BY DEF FilesInv, IInv
<1>1. /\ pc[c] = "writing" /\ pc' = [pc EXCEPT ![c] = "done"]
      /\ damaged' = damaged \union {File(c)}
      /\ UNCHANGED << content, snapshot, kind, path, key, applied >>
  BY DEF WriteThrows, Release, callVars, diskVars
<1>2. pc'[c] = "done" /\ \A d \in Call : d # c => pc'[d] = pc[d]
  BY <1>1, <1>t DEF TypeOK
<1>4. \A d \in Call : File(d)' = File(d) /\ Shown(File(d))' = Shown(File(d))
  BY <1>1, <1>t DEF File, Shown, TypeOK
<1>5. \A f \in Paths : Shown(f)' = Shown(f)
  BY <1>1, <1>t DEF File, Shown, TypeOK
<1>7. \A d \in applied' : pc'[d] = "done" /\ key'[d] = File(d)'
  BY <1>1, <1>2, <1>4, <1>t DEF Changes, TypeOK
<1>9. ASSUME NEW d \in Call
      PROVE  /\ pc'[d] = "none" \/ kind'[d] = "write" => snapshot'[d] = {}
             /\ pc'[d] = "read" => kind'[d] = "edit"
             /\ Reading(d)' /\ File(d)' \notin damaged'
                  => snapshot'[d] = Shown(File(d))'
  <2>1. Reading(d)' => Reading(d)
    BY <1>1, <1>2 DEF Reading
  <2>2. pc'[d] = "none" => pc[d] = "none"
    BY <1>2
  <2>3. pc'[d] = "read" => pc[d] = "read"
    BY <1>2
  <2> QED
    BY <2>1, <2>2, <2>3, <1>1, <1>4, <1>t DEF Changes
<1>10. ASSUME NEW f \in Paths \ damaged',
              \A d \in Call : pc'[d] = "writing" => File(d)' # f
       PROVE  content'[f] = Shown(f)'
  <2>1. f # File(c) /\ f \notin damaged
    BY <1>1
  <2>2. \A d \in Call : pc[d] = "writing" => File(d) # f
    BY <2>1, <1>10, <1>1, <1>2, <1>4
  <2> QED
    BY <2>1, <2>2, <1>1, <1>5, <1>t DEF Changes
<1> QED
  BY <1>7, <1>9, <1>10 DEF Changes

\* Every step preserves what is known of the changes.
LEMMA ChangesStep == ASSUME FilesInv, [Next]_vars PROVE Changes'
<1>t. TypeOK /\ Changes /\ \A c \in applied : c \in Call /\ pc[c] = "done"
  BY DEF FilesInv, IInv, TypeOK, Changes
<1>1. ASSUME NEW tool \in {"write", "edit"}, NEW p \in Paths,
             WithFileMutationQueue(tool, p)
      PROVE  Changes'
  <2>1. /\ calls + 1 \in Call /\ pc[calls + 1] = "none"
        /\ UNCHANGED << content, snapshot, applied, damaged, key >>
    BY <1>1, <1>t
       DEF WithFileMutationQueue, FilesInv, IInv, Turns, TypeOK, Call, diskVars,
           history
  <2>2. /\ pc'[calls + 1] = "called"
        /\ \A c \in Call : c # calls + 1 =>
             pc'[c] = pc[c] /\ kind'[c] = kind[c] /\ path'[c] = path[c]
    BY <1>1, <2>1, <1>t DEF WithFileMutationQueue, TypeOK
  <2>3. /\ \A c \in applied : c # calls + 1
        /\ \A c \in Call : pc[c] = "writing" => c # calls + 1
    BY <2>1, <1>t
  <2>4. \A c \in Call : Reading(c)' \/ pc'[c] \in {"read", "writing"}
                           => c # calls + 1
    BY <2>2 DEF Reading
  <2> QED
    BY <2>1, <2>2, <2>3, <2>4, <1>t, ChangesQuiet
<1>2. CASE GetMutationQueueKey \/ GetMutationQueueKeyThrows \/ Register
  <2>1. /\ next \in Call /\ pc[next] \in {"called", "resolved"}
        /\ pc'[next] \in {"resolved", "rejected", "registered"}
        /\ \A c \in Call : c # next => pc'[c] = pc[c] /\ key'[c] = key[c]
        /\ UNCHANGED << content, snapshot, applied, damaged, kind, path >>
    BY <1>2, <1>t DEF GetMutationQueueKey, GetMutationQueueKeyThrows, Register,
                      TypeOK, diskVars, callVars, history
  <2>2. \A c \in applied : c # next
    BY <2>1, <1>t
  <2>3. \A c \in Call : Reading(c)' \/ pc'[c] \in {"read", "writing"}
                           => c # next
    BY <2>1 DEF Reading
  <2> QED
    BY <2>1, <2>2, <2>3, <1>t, ChangesQuiet
<1>3. ASSUME NEW c \in Call, Begin(c) \/ Throws(c) PROVE Changes'
  <2>1. /\ pc[c] \in {"registered", "begun", "read"}
        /\ pc'[c] \in {"begun", "done"}
        /\ \A d \in Call : d # c => pc'[d] = pc[d]
        /\ UNCHANGED << content, snapshot, applied, damaged, kind, path, key >>
    BY <1>3, <1>t DEF Begin, Throws, Release, TypeOK, diskVars, callVars,
                      history
  <2>2. \A d \in applied : d # c
    BY <2>1, <1>t
  <2>3. \A d \in Call : Reading(d)' \/ pc'[d] \in {"read", "writing"} => d # c
    BY <2>1 DEF Reading
  <2> QED
    BY <2>1, <2>2, <2>3, <1>t, ChangesQuiet
<1>4. ASSUME NEW c \in Call,
             Read(c) \/ WriteStart(c) \/ WriteEnd(c) \/ WriteThrows(c)
      PROVE  Changes'
  BY <1>4, ChangesRead, ChangesStarted, ChangesApplied, ChangesThrown
<1>5. CASE UNCHANGED vars
  <2>1. UNCHANGED << content, snapshot, applied, damaged, kind, path, key, pc >>
    BY <1>5 DEF vars, diskVars, callVars, history
  <2> QED
    BY <2>1, <1>t, ChangesQuiet
<1> QED
  BY <1>1, <1>2, <1>3, <1>4, <1>5 DEF Next, Registration, Mutation

\* A file that nobody is mutating, and no write was cut off in, shows the last
\* write and every edit after it, in the order in which the tools were called:
\* no edit is lost, because what edit.ts has read is still what the file shows
\* when it writes.
THEOREM EditsAddUp ==
  ASSUME AliasesHaveFiles
  PROVE  Spec => []AsIfOneByOne
<1>1. Init => FilesInv
  <2>1. Init => KeysAreFiles
    BY DEF Init, KeysAreFiles, Queued, Mutating
  <2>2. Init => Changes
    BY DEF Init, Changes, Shown, Reading
  <2> QED
    BY <2>1, <2>2, InitIInv DEF FilesInv
<1>2. FilesInv /\ [Next]_vars => FilesInv'
  BY IInvStep, KeysStep, ChangesStep DEF FilesInv
<1>3. FilesInv => AsIfOneByOne
  <2> SUFFICES ASSUME FilesInv, NEW f \in Paths \ damaged,
                      \A c \in Call : Mutating(c) => File(c) # f
               PROVE  content[f] =
                        { c \in { b \in applied : File(b) = f } :
                            \A w \in { v \in { b \in applied : File(b) = f } :
                                         kind[v] = "write" } : w <= c }
    BY DEF AsIfOneByOne
  <2>1. content[f] = Shown(f)
    BY DEF FilesInv, Changes, Mutating
  <2> QED
    BY <2>1 DEF Shown
<1> QED
  BY <1>1, <1>2, <1>3, PTL DEF Spec

=============================================================================
