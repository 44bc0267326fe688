-------------------------- MODULE AuthStorageProofs --------------------------
(***************************************************************************)
(* Theorems about AuthStorage, for any number of processes, tokens, keys,  *)
(* changes and crashes.  The argument has four layers, each inductive on   *)
(* top of the one before: what a process holds is consistent; the lock has *)
(* one holder; the tokens on their way to the file are live; and what the  *)
(* holder read is what was last saved.                                     *)
(***************************************************************************)
EXTENDS AuthStorage, TLAPS

-----------------------------------------------------------------------------
(* The type invariant *)

\* What a synchronous operation carries: a credential of the provider it is
\* for.
OpOK(op) ==
    \/ op = NoOp
    \/ op.kind = "oauth" /\ op.cred \in Token
    \/ op.kind = "key" /\ op.cred \in Key

\* What one process holds is typed, and its parts agree: only a refresh has a
\* lock to release, a getApiKey that reloads is in the middle of reload(),
\* and what is being written is a change.
Consistent(s) ==
    /\ s \in ProcessState
    /\ s.mine => s.ref \in {"refreshing", "writing"}
    /\ s.ref = "reloading" => s.pc # "idle"
    /\ ~s.up => s = Stopped
    /\ OpOK(s.op)
    /\ s.pc = "writing" => s.op # NoOp

\* The types of what the processes share.
SharedTypes ==
    /\ file \in File
    /\ lock \in {Free, Dead} \cup ({"sync", "async"} \X Processes)
    /\ lockOld \in BOOLEAN
    /\ issued \in Token /\ live \subseteq 1..issued
    /\ expired \subseteq 1..issued
    /\ changes \in 0..MaxChanges /\ crashes \in 0..MaxCrashes
    /\ saved \in Credentials
    /\ faults \subseteq {"stolen", "recreated", "torn", "rotationLost"}

\* The inductive invariant behind the type invariant.
IInv ==
    /\ SharedTypes
    /\ proc \in [Processes -> ProcessState]
    /\ \A p \in Processes : Consistent(proc[p])
    /\ \A p \in Processes : lock = << "sync", p >> => proc[p].pc = "writing"

\* The constants, and the values that are written down in the module.
LEMMA Sorts ==
    /\ MaxTokens \in Nat \ {0} /\ MaxKeys \in Nat
    /\ MaxChanges \in Nat /\ MaxCrashes \in Nat
    /\ 0 \in Token /\ 1 \in Token /\ 0 \in Key
    /\ NoCredentials \in Credentials
    /\ \A d \in Credentials : Whole(d) \in File
    /\ Stopped \in ProcessState
  BY AuthStorageAssumption
     DEF AuthStorageAssumption, Token, Key, NoCredentials, Credentials, Whole,
         File, Stopped, NoOp, ProcessState

\* It holds before any process has started.
LEMMA InitIInv == Init => IInv
<1> SUFFICES ASSUME Init PROVE IInv
  OBVIOUS
<1>1. SharedTypes
  <2>1. file \in File /\ saved \in Credentials
    BY Sorts DEF Init, File, Credentials, NoCredentials, Whole
  <2>2. live \subseteq 1..issued /\ expired \subseteq 1..issued
    BY DEF Init
  <2>3. lock = Free /\ lockOld \in BOOLEAN /\ issued \in Token
    BY Sorts DEF Init
  <2>4. changes \in 0..MaxChanges /\ crashes \in 0..MaxCrashes /\ faults = {}
    BY Sorts DEF Init
  <2> QED
    BY <2>1, <2>2, <2>3, <2>4 DEF SharedTypes
<1>2. Consistent(Stopped)
  BY Sorts DEF Consistent, Stopped, OpOK
<1>3. \A p \in Processes : lock # << "sync", p >>
  BY DEF Init, Free
<1> QED
  BY <1>1, <1>2, <1>3, Sorts DEF Init, IInv

\* A step of one process.
LEMMA OneProcess ==
    ASSUME IInv, NEW p \in Processes, NEW s, Consistent(s),
           proc' = [proc EXCEPT ![p] = s],
           SharedTypes',
           \A q \in Processes : lock' = << "sync", q >> =>
              IF q = p THEN s.pc = "writing" ELSE lock = << "sync", q >>
    PROVE  IInv'
<1>1. s \in ProcessState
  BY DEF Consistent
<1>2. \A q \in Processes : proc'[q] = IF q = p THEN s ELSE proc[q]
  BY DEF IInv
<1> QED
  BY <1>1, <1>2 DEF IInv

\* AuthStorage.create.
LEMMA StartStep == ASSUME IInv, NEW p \in Processes, Start(p) PROVE IInv'
<1> DEFINE s == [Stopped EXCEPT !.up = TRUE, !.pc = FirstStep]
<1>1. FirstStep \in {"create", "lock"}
  BY DEF FirstStep
<1>2. Consistent(s)
  BY <1>1, Sorts DEF Consistent, Stopped, OpOK, ProcessState, NoOp
<1>3. proc' = [proc EXCEPT ![p] = s] /\ proc[p].pc # "writing"
  BY DEF Start, IInv, Consistent, Stopped
<1>4. SharedTypes' /\ lock' = lock
  BY DEF Start, IInv, SharedTypes, provider, bounded
<1> QED
  BY <1>2, <1>3, <1>4, OneProcess DEF IInv

\* getApiKey with an expired token.
LEMMA GetApiKeyStep ==
    ASSUME IInv, NEW p \in Processes, GetApiKey(p) PROVE IInv'
<1> DEFINE s == [proc[p] EXCEPT !.ref = FirstStep]
<1>1. FirstStep \in {"create", "lock"}
  BY DEF FirstStep
<1>2. Consistent(proc[p])
  BY DEF IInv
<1>3. Consistent(s)
  BY <1>1, <1>2 DEF Consistent, OpOK, ProcessState, GetApiKey, Idle, Stopped
<1>4. proc' = [proc EXCEPT ![p] = s] /\ s.pc = proc[p].pc
  BY <1>2 DEF GetApiKey, IInv, Consistent, ProcessState
<1>5. SharedTypes' /\ lock' = lock
  BY DEF GetApiKey, IInv, SharedTypes, provider, bounded
<1> QED
  BY <1>3, <1>4, <1>5, OneProcess DEF IInv

\* set(), remove() and login(): whatever the change is.
LEMMA ChangeStep ==
  ASSUME IInv, NEW p \in Processes, NEW kind \in {"oauth", "key"}, NEW cred,
         kind = "oauth" => cred \in Token, kind = "key" => cred \in Key,
         Change(p, kind, cred), SharedTypes'
  PROVE IInv'
<1> DEFINE op == [NoOp EXCEPT !.kind = kind, !.cred = cred]
           data == [proc[p].data EXCEPT ![kind] = cred]
           s == Changed(proc[p], kind, cred)
<1>1. FirstStep \in {"create", "lock"}
  BY DEF FirstStep
<1>2. Consistent(proc[p]) /\ proc[p] \in ProcessState
  BY DEF IInv
<1>3. proc[p].up /\ proc[p].ref # "reloading" /\ proc[p].pc = "idle"
  BY <1>2 DEF Change, Idle, Consistent
<1>4. op \in [kind : {"reload", "oauth", "key"}, cred : Token \cup Key,
      all : Credentials] /\ OpOK(op)
  BY Sorts DEF NoOp, OpOK
<1>5. data \in Credentials
  <2>1. proc[p].data \in Credentials
    BY <1>2 DEF ProcessState
  <2>2. CASE kind = "oauth"
    BY <2>1, <2>2 DEF Credentials
  <2>3. CASE kind = "key"
    BY <2>1, <2>3 DEF Credentials
  <2> QED
    BY <2>2, <2>3
<1>6. Consistent([proc[p] EXCEPT !.data = data])
  BY <1>2, <1>3, <1>5 DEF Consistent, ProcessState
<1>7. Consistent([[proc[p] EXCEPT !.data = data] EXCEPT !.op = op,
      !.pc = FirstStep])
  BY <1>1, <1>2, <1>3, <1>4, <1>6 DEF Consistent, ProcessState
<1>8. Consistent(s)
  BY <1>2, <1>6, <1>7 DEF Changed, ProcessState
<1>9. s.pc # "writing"
  BY <1>1, <1>2, <1>3 DEF Changed, ProcessState
<1>10. proc' = [proc EXCEPT ![p] = s]
  BY DEF Change
<1> QED
  BY <1>3, <1>8, <1>9, <1>10, OneProcess DEF IInv, Change

\* A process stays consistent when its synchronous operation returns.
LEMMA Returned ==
    ASSUME NEW s, Consistent(s), s.up
    PROVE  /\ Consistent(Return(s)) /\ Return(s).up
           /\ Return(s).pc = "idle" /\ Return(s).op = NoOp
           /\ Return(s).mine = s.mine
           /\ Return(s).mine => Return(s).ref \in {"refreshing", "writing"}
           /\ Return(s).ref # "reloading"
           /\ Return(s) \in ProcessState
<1>1. s \in ProcessState
  BY DEF Consistent
<1>2. NoOp \in [kind : {"reload", "oauth", "key"}, cred : Token \cup Key,
      all : Credentials]
  BY Sorts DEF NoOp
<1>3. Return(s) \in ProcessState /\ Return(s).up /\ Return(s).pc = "idle"
      /\ Return(s).op = NoOp
      /\ Return(s).mine = s.mine
      /\ Return(s).ref = IF s.ref = "reloading" THEN "idle" ELSE s.ref
  BY <1>1, <1>2 DEF Return, ProcessState
<1>4. s.mine => s.ref \in {"refreshing", "writing"}
  BY DEF Consistent
<1> QED
  BY <1>3, <1>4 DEF Consistent, OpOK

\* A process that is in the middle of something runs.
LEMMA Running ==
    ASSUME NEW s, Consistent(s), s.pc # "idle" \/ s.ref # "idle" PROVE s.up
  BY DEF Consistent, Stopped

\* The end of acquireLockSyncWithRetry without a lock.
LEMMA LockSyncFailsStep ==
    ASSUME IInv, NEW p \in Processes, LockSyncFails(p) PROVE IInv'
<1> DEFINE r == Return(proc[p])
           s == IF proc[p].op = NoOp THEN [r EXCEPT !.loadError = TRUE] ELSE r
<1>1. Consistent(proc[p]) /\ proc[p].up
  BY Running DEF LockSyncFails, IInv
<1>2. Consistent(r) /\ r.up /\ r \in ProcessState
  BY <1>1, Returned
<1>3. Consistent([r EXCEPT !.loadError = TRUE])
  BY <1>2 DEF Consistent, ProcessState
<1>4. proc' = [proc EXCEPT ![p] = s]
  BY DEF LockSyncFails
<1>6. Consistent(s)
  BY <1>2, <1>3
<1>7. proc[p].pc = "lock"
  BY DEF LockSyncFails
<1>5. SharedTypes' /\ lock' = lock
  BY DEF LockSyncFails, IInv, SharedTypes, provider, bounded
<1> QED
  BY <1>4, <1>5, <1>6, <1>7, OneProcess DEF IInv

\* Taking the lock disturbs nothing of an operation.
LEMMA LockingKeeps ==
    ASSUME IInv, NEW p \in Processes, proc[p].pc = "lock"
    PROVE  /\ Consistent(Locking(p)) /\ Locking(p).up
           /\ Locking(p) \in ProcessState
           /\ Locking(p).op = proc[p].op
           /\ Locking(p).pc = "lock" /\ Locking(p).ref = proc[p].ref
<1>1. Consistent(proc[p]) /\ proc[p].up
  BY Running DEF IInv
<1>2. Consistent([proc[p] EXCEPT !.mine = FALSE])
  BY <1>1 DEF Consistent, ProcessState
<1> QED
  BY <1>1, <1>2 DEF Locking, Consistent, ProcessState

\* reload() with the lock.
LEMMA ReadForReloadStep ==
    ASSUME IInv, NEW p \in Processes, ReadForReload(p) PROVE IInv'
<1> DEFINE r == Return(Locking(p))
           s == IF file.status = "torn"
                  THEN [r EXCEPT !.loadError = TRUE]
                  ELSE [r EXCEPT !.loadError = FALSE, !.data = file.data]
<1>2. Consistent(r) /\ r.up /\ r \in ProcessState
  BY LockingKeeps, Returned DEF ReadForReload, LockedSync
<1>3. file.data \in Credentials
  BY DEF IInv, SharedTypes, File
<1>5. Consistent(s)
  BY <1>2, <1>3 DEF Consistent, ProcessState
<1>6. proc' = [proc EXCEPT ![p] = s]
  BY DEF ReadForReload
<1>7. SharedTypes' /\ lock' = Free
  BY DEF ReadForReload, LockedSync, IInv, SharedTypes, provider, bounded
<1> QED
  BY <1>5, <1>6, <1>7, OneProcess DEF Free

\* persistProviderChange writes credentials.
LEMMA MergedType ==
    ASSUME IInv, NEW p \in Processes, proc[p].op # NoOp
    PROVE  Merged(p) \in Credentials
<1>1. file.data \in Credentials
  BY DEF IInv, SharedTypes, File
<1>2. OpOK(proc[p].op)
  BY DEF IInv, Consistent
<1>3. CASE proc[p].op.kind = "oauth" /\ proc[p].op.cred \in Token
  <2>1. Merged(p) = [file.data EXCEPT !["oauth"] = proc[p].op.cred]
    BY <1>3 DEF Merged
  <2> QED
    BY <1>1, <1>3, <2>1 DEF Credentials
<1>4. CASE proc[p].op.kind = "key" /\ proc[p].op.cred \in Key
  <2>1. Merged(p) = [file.data EXCEPT !["key"] = proc[p].op.cred]
    BY <1>4 DEF Merged
  <2> QED
    BY <1>1, <1>4, <2>1 DEF Credentials
<1> QED
  BY <1>2, <1>3, <1>4 DEF OpOK

\* The first half of a change, ...
LEMMA ReadForChangeStep ==
    ASSUME IInv, NEW p \in Processes, ReadForChange(p) PROVE IInv'
<1> DEFINE l == Locking(p)
           s == [l EXCEPT !.pc = "writing", !.op.all = Merged(p)]
<1>1. Consistent(l) /\ l.up /\ l \in ProcessState /\ l.op = proc[p].op
  BY LockingKeeps DEF ReadForChange, LockedSync
<1>2. Consistent(Return(l))
  BY <1>1, Returned
<1>3. lock' = Free \/ lock' = << "sync", p >>
  BY DEF ReadForChange
<1>4. SharedTypes'
  <2>1. file' \in File /\ lockOld' = FALSE
    BY Sorts DEF ReadForChange, LockedSync, IInv, SharedTypes
  <2>2. faults' \subseteq {"stolen", "recreated", "torn", "rotationLost"}
    BY DEF ReadForChange, LockedSync, IInv, SharedTypes
  <2>3. UNCHANGED << issued, live, expired, changes, crashes, saved >>
    BY DEF ReadForChange, provider, bounded
  <2>4. lock' \in {Free, Dead} \cup ({"sync", "async"} \X Processes)
    BY <1>3
  <2> QED
    BY <2>1, <2>2, <2>3, <2>4 DEF IInv, SharedTypes
<1>5. CASE proc' = [proc EXCEPT ![p] = Return(l)] /\ lock' = Free
  BY <1>2, <1>4, <1>5, OneProcess DEF Free
<1>6. CASE proc' = [proc EXCEPT ![p] = s] /\ lock' = << "sync", p >>
  <2>1. proc[p].op # NoOp /\ Merged(p) \in Credentials
    BY MergedType DEF ReadForChange
  <2>2. s \in ProcessState /\ s.pc = "writing" /\ s.up
        /\ s.op.kind = l.op.kind /\ s.op.cred = l.op.cred
        /\ s.mine = l.mine /\ s.ref = l.ref
    BY <1>1, <2>1 DEF ProcessState
  <2>3. OpOK(s.op) /\ s.op # NoOp
    BY <1>1, <2>1, <2>2 DEF Consistent, OpOK, NoOp
  <2>4. Consistent(s)
    BY <1>1, <2>2, <2>3 DEF Consistent
  <2> QED
    BY <1>4, <1>6, <2>2, <2>4, OneProcess
<1> QED
  BY <1>5, <1>6 DEF ReadForChange

\* ... and the second.
LEMMA WriteChangeStep ==
    ASSUME IInv, NEW p \in Processes, WriteChange(p) PROVE IInv'
<1>1. Consistent(proc[p]) /\ proc[p].up
  BY Running DEF WriteChange, IInv
<1>2. Consistent(Return(proc[p]))
  BY <1>1, Returned
<1>3. proc[p].op.all \in Credentials
  BY <1>1 DEF Consistent, ProcessState
<1>4. OpOK(proc[p].op) /\ proc[p].op # NoOp
  BY <1>1 DEF WriteChange, Consistent
<1>5. saved' \in Credentials
  <2>1. CASE proc[p].op.kind = "oauth" /\ proc[p].op.cred \in Token
    <3>1. saved' = [saved EXCEPT !["oauth"] = proc[p].op.cred]
      BY <2>1 DEF WriteChange
    <3> QED
      BY <2>1, <3>1 DEF Credentials, IInv, SharedTypes
  <2>2. CASE proc[p].op.kind = "key" /\ proc[p].op.cred \in Key
    <3>1. saved' = [saved EXCEPT !["key"] = proc[p].op.cred]
      BY <2>2 DEF WriteChange
    <3> QED
      BY <2>2, <3>1 DEF Credentials, IInv, SharedTypes
  <2> QED
    BY <1>4, <2>1, <2>2 DEF OpOK
<1>6. SharedTypes'
  BY <1>3, <1>5, Sorts DEF WriteChange, IInv, SharedTypes, provider, bounded
<1>7. \A q \in Processes : lock' # << "sync", q >>
  BY DEF WriteChange, Free
<1>8. proc' = [proc EXCEPT ![p] = Return(proc[p])]
  BY DEF WriteChange
<1> QED
  BY <1>2, <1>6, <1>7, <1>8, OneProcess

\* ensureFileExists, of either kind of operation.
LEMMA CreateFileStep ==
    ASSUME IInv, NEW p \in Processes,
           CreateFile(p, "pc") \/ CreateFile(p, "ref")
    PROVE  IInv'
<1>1. SharedTypes' /\ lock' = lock
  BY Sorts DEF CreateFile, IInv, SharedTypes, provider, bounded
<1>2. Consistent(proc[p])
  BY DEF IInv
<1>3. CASE CreateFile(p, "pc")
  <2> DEFINE s == [proc[p] EXCEPT !.pc = "lock"]
  <2>1. proc[p].pc = "create" /\ proc' = [proc EXCEPT ![p] = s]
    BY <1>3 DEF CreateFile, IInv, ProcessState
  <2>2. Consistent(s)
    BY <1>2, <2>1, Running DEF Consistent, ProcessState
  <2> QED
    BY <1>1, <2>1, <2>2, OneProcess DEF IInv
<1>4. CASE CreateFile(p, "ref")
  <2> DEFINE s == [proc[p] EXCEPT !.ref = "lock"]
  <2>1. proc[p].ref = "create" /\ proc' = [proc EXCEPT ![p] = s]
    BY <1>4 DEF CreateFile, IInv, ProcessState
  <2>2. Consistent(s) /\ s.pc = proc[p].pc
    BY <1>2, <2>1, Running DEF Consistent, ProcessState
  <2> QED
    BY <1>1, <2>1, <2>2, OneProcess DEF IInv
<1> QED
  BY <1>3, <1>4

\* A process stays consistent when its refresh throws.
LEMMA FailedConsistent ==
    ASSUME NEW s, Consistent(s), s.up, s.pc = "idle"
    PROVE  Consistent(Failed(s)) /\ Failed(s).pc \in {"create", "lock"}
           /\ Failed(s) \in ProcessState /\ Failed(s).up
<1>1. FirstStep \in {"create", "lock"}
  BY DEF FirstStep
<1> QED
  BY <1>1, Sorts DEF Consistent, Failed, ProcessState

\* lockfile.lock, and the second look at the file.
LEMMA LockStep ==
    ASSUME IInv, NEW p \in Processes, Lock(p) PROVE IInv'
<1> DEFINE s == [proc[p] EXCEPT !.ref = "idle", !.data = file.data,
      !.loadError = FALSE]
<1>1. Consistent(proc[p]) /\ proc[p].up /\ proc[p].pc = "idle"
      /\ proc[p].ref = "lock"
  BY DEF Lock, Idle, IInv
<1>2. file.data \in Credentials
  BY DEF IInv, SharedTypes, File
<1>3. Consistent(Failed(proc[p]))
  BY <1>1, FailedConsistent
<1>4. Consistent(s)
  BY <1>1, <1>2 DEF Consistent, ProcessState
<1>5. Consistent(Acquired(proc[p]))
  BY <1>1, <1>2 DEF Consistent, ProcessState, Acquired
<1>6. lock' = Free \/ lock' = << "async", p >>
  BY DEF Lock
<1>7. SharedTypes'
  <2>1. UNCHANGED << file, issued, live, expired, changes, crashes, saved,
        faults >>
        /\ lockOld' = FALSE
    BY DEF Lock, provider, bounded
  <2>2. lock' \in {Free, Dead} \cup ({"sync", "async"} \X Processes)
    BY <1>6
  <2> QED
    BY <2>1, <2>2 DEF IInv, SharedTypes
<1>8. \A q \in Processes : lock' # << "sync", q >>
  BY <1>6 DEF Free
<1>9. \/ proc' = [proc EXCEPT ![p] = Failed(proc[p])]
      \/ proc' = [proc EXCEPT ![p] = s]
      \/ proc' = [proc EXCEPT ![p] = Acquired(proc[p])]
  BY DEF Lock, IInv, ProcessState
<1> QED
  BY <1>3, <1>4, <1>5, <1>7, <1>8, <1>9, OneProcess

\* lockfile.lock without success.
LEMMA LockFailsStep ==
    ASSUME IInv, NEW p \in Processes, LockFails(p) PROVE IInv'
<1>1. Consistent(Failed(proc[p])) /\ proc[p].pc = "idle"
  BY FailedConsistent DEF LockFails, Idle, IInv
<1>2. SharedTypes' /\ lock' = lock
  BY DEF LockFails, IInv, SharedTypes, provider, bounded
<1> QED
  BY <1>1, <1>2, OneProcess DEF LockFails, IInv

\* The holder touches its lock, or finds that it has lost it.
LEMMA UpdateLockStep ==
    ASSUME IInv, NEW p \in Processes, UpdateLock(p) PROVE IInv'
<1> DEFINE s == [proc[p] EXCEPT !.noticed = TRUE, !.mine = FALSE]
<1>1. Consistent(proc[p]) /\ proc[p].up /\ proc[p].pc = "idle"
  BY DEF UpdateLock, Idle, IInv
<1>2. Consistent(s)
  BY <1>1 DEF Consistent, ProcessState
<1>3. SharedTypes' /\ lock' = lock
  BY DEF UpdateLock, IInv, SharedTypes, provider, bounded
<1>4. proc' = [proc EXCEPT ![p] = proc[p]] \/ proc' = [proc EXCEPT ![p] = s]
  BY DEF UpdateLock, IInv, ProcessState
<1> QED
  BY <1>1, <1>2, <1>3, <1>4, OneProcess DEF IInv

\* The provider issues tokens up to the bound.
LEMMA RotateTypes ==
    ASSUME IInv, NEW t, Rotate(t)
    PROVE  /\ issued' \in Token /\ live' \subseteq 1..issued'
           /\ expired' \subseteq 1..issued' /\ issued' = issued + 1
<1>1. issued \in Nat /\ issued' = issued + 1 /\ issued' \in Token
  BY Sorts DEF Rotate, IInv, SharedTypes, Token
<1>2. 1..issued \subseteq 1..issued' /\ issued' \in 1..issued'
  BY <1>1
<1> QED
  BY <1>1, <1>2 DEF Rotate, IInv, SharedTypes

\* The provider answers.
LEMMA RefreshSucceedsStep ==
    ASSUME IInv, NEW p \in Processes, RefreshSucceeds(p) PROVE IInv'
<1> DEFINE merged == [proc[p].next EXCEPT !.oauth = issued + 1]
           w == [proc[p] EXCEPT !.ref = "writing", !.data = merged,
                 !.next = merged]
           f == [Failed(proc[p]) EXCEPT !.data = merged]
<1>1. Consistent(proc[p]) /\ proc[p].up /\ proc[p].pc = "idle"
      /\ proc[p].ref = "refreshing"
  BY DEF RefreshSucceeds, Idle, IInv
<1>2. Rotate(proc[p].next.oauth)
  BY DEF RefreshSucceeds
<1>3. merged \in Credentials
  BY <1>1, <1>2 DEF Rotate, Credentials, Consistent, ProcessState
<1>4. Consistent(w)
  BY <1>1, <1>3 DEF Consistent, ProcessState
<1>5. Consistent(Failed(proc[p])) /\ Failed(proc[p]) \in ProcessState
      /\ Failed(proc[p]).up
  BY <1>1, FailedConsistent
<1>6. Consistent(f)
  BY <1>3, <1>5 DEF Consistent, ProcessState
<1>7. proc' = [proc EXCEPT ![p] = w] \/ proc' = [proc EXCEPT ![p] = f]
  BY DEF RefreshSucceeds, IInv, ProcessState
<1>8. lock' = lock
  BY DEF RefreshSucceeds
<1>9. SharedTypes'
  <2>1. file' \in File /\ lockOld' = lockOld /\ changes' = changes
        /\ crashes' = crashes /\ saved' = saved
    BY Sorts DEF RefreshSucceeds, IInv, SharedTypes, bounded
  <2>2. faults' \subseteq {"stolen", "recreated", "torn", "rotationLost"}
    BY DEF RefreshSucceeds, IInv, SharedTypes
  <2> QED
    BY <1>2, <1>8, <2>1, <2>2, RotateTypes DEF IInv, SharedTypes
<1> QED
  BY <1>1, <1>4, <1>6, <1>7, <1>8, <1>9, OneProcess DEF IInv

\* release() leaves the lock as it was, or free.
LEMMA ReleaseTypes ==
    ASSUME IInv, NEW p \in Processes, Release(p)
    PROVE  (lock' = lock \/ lock' = Free) /\ lockOld' \in BOOLEAN
  BY DEF Release, IInv, SharedTypes

\* The provider does not answer, or refuses.
LEMMA RefreshFailsStep ==
    ASSUME IInv, NEW p \in Processes, RefreshFails(p) PROVE IInv'
<1>1. Consistent(proc[p]) /\ proc[p].up /\ proc[p].pc = "idle"
  BY DEF RefreshFails, Idle, IInv
<1>2. Consistent(Failed(proc[p]))
  BY <1>1, FailedConsistent
<1>3. (lock' = lock \/ lock' = Free) /\ lockOld' \in BOOLEAN
  BY ReleaseTypes DEF RefreshFails
<1>4. SharedTypes'
  <2>1. UNCHANGED << file, changes, crashes, saved >>
    BY DEF RefreshFails, bounded
  <2>2. faults' \subseteq {"stolen", "recreated", "torn", "rotationLost"}
    BY DEF RefreshFails, IInv, SharedTypes
  <2>3. UNCHANGED provider \/ Rotate(proc[p].next.oauth)
    BY DEF RefreshFails
  <2> QED
    BY <1>3, <2>1, <2>2, <2>3, RotateTypes DEF IInv, SharedTypes, provider
<1>5. \A q \in Processes : lock' = << "sync", q >> => lock = << "sync", q >>
  BY <1>3 DEF Free
<1>6. proc' = [proc EXCEPT ![p] = Failed(proc[p])]
  BY DEF RefreshFails
<1>7. lock # << "sync", p >>
  BY <1>1 DEF IInv
<1> QED
  BY <1>2, <1>4, <1>5, <1>6, <1>7, OneProcess

\* The refreshed token is written.
LEMMA WriteRefreshedStep ==
    ASSUME IInv, NEW p \in Processes, WriteRefreshed(p) PROVE IInv'
<1> DEFINE s == [proc[p] EXCEPT !.ref = "idle", !.mine = FALSE,
      !.next = NoCredentials]
<1>1. Consistent(proc[p]) /\ proc[p].up
  BY Running DEF WriteRefreshed, IInv
<1>2. Consistent(s) /\ s.pc = proc[p].pc
  BY <1>1, Sorts DEF Consistent, ProcessState
<1>3. (lock' = lock \/ lock' = Free) /\ lockOld' \in BOOLEAN
  BY ReleaseTypes DEF WriteRefreshed
<1>4. SharedTypes'
  <2>1. proc[p].next \in Credentials
    BY <1>1 DEF Consistent, ProcessState
  <2>2. file' \in File
    BY <2>1, Sorts DEF WriteRefreshed
  <2>3. saved' \in Credentials
    BY <2>1 DEF WriteRefreshed, IInv, SharedTypes, Credentials
  <2> QED
    BY <1>3, <2>2, <2>3 DEF WriteRefreshed, IInv, SharedTypes, provider, bounded
<1>5. \A q \in Processes : lock' = << "sync", q >> => lock = << "sync", q >>
  BY <1>3 DEF Free
<1>6. proc' = [proc EXCEPT ![p] = s]
  BY DEF WriteRefreshed, IInv, ProcessState
<1> QED
  BY <1>2, <1>4, <1>5, <1>6, OneProcess DEF IInv

\* A process dies.
LEMMA CrashStep ==
    ASSUME IInv, NEW p \in Processes, Crash(p) PROVE IInv'
<1>1. Consistent(Stopped)
  BY Sorts DEF Consistent, Stopped, OpOK
<1>2. proc' = [proc EXCEPT ![p] = Stopped]
  BY DEF Crash
<1>3. lock' = Dead \/ (lock' = lock /\ lock # << "sync", p >>)
  BY DEF Crash
<1>4. SharedTypes'
  <2>0. Whole(Written(p)) \in File
    BY Sorts DEF Written, IInv, ProcessState
  <2>1. file' \in File
    BY <2>0 DEF Crash, IInv, SharedTypes, File
  <2>2. faults' \subseteq {"stolen", "recreated", "torn", "rotationLost"}
    BY DEF Crash, IInv, SharedTypes
  <2>3. crashes' \in 0..MaxCrashes
    BY Sorts DEF Crash, IInv, SharedTypes
  <2>4. UNCHANGED << lockOld, issued, live, expired, changes, saved >>
    BY DEF Crash, provider
  <2> QED
    BY <1>3, <2>1, <2>2, <2>3, <2>4 DEF IInv, SharedTypes
<1>5. \A q \in Processes : lock' = << "sync", q >> =>
         q # p /\ lock = << "sync", q >>
  BY <1>3 DEF Dead
<1> QED
  BY <1>1, <1>2, <1>4, <1>5, OneProcess

\* Time passes, or nothing happens.
LEMMA EnvironmentStep ==
    ASSUME IInv,
           (\E t \in Token : TokenExpires(t)) \/ LockAges \/ UNCHANGED vars
    PROVE  IInv'
<1>1. proc' = proc /\ lock' = lock
  BY DEF TokenExpires, LockAges, vars
<1>2. SharedTypes'
  BY DEF TokenExpires, LockAges, vars, IInv, SharedTypes, provider, bounded
<1> QED
  BY <1>1, <1>2 DEF IInv

\* The steps that begin a change keep the types of what is shared, ...
LEMMA ChangesTypes ==
    ASSUME IInv, NEW p \in Processes,
           (\E key \in Key : SetKey(p, key)) \/ Logout(p) \/ Login(p)
    PROVE  SharedTypes'
<1>1. changes' \in 0..MaxChanges
  BY Sorts DEF SetKey, Logout, Login, Change, IInv, SharedTypes
<1>2. UNCHANGED << file, lock, lockOld, expired, crashes, saved, faults >>
  BY DEF SetKey, Logout, Login, Change
<1>3. issued' \in Token /\ live' \subseteq 1..issued'
      /\ expired \subseteq 1..issued'
  <2>1. CASE UNCHANGED << issued, live >>
    BY <2>1 DEF IInv, SharedTypes
  <2>2. CASE Login(p)
    <3>1. issued \in Nat /\ issued' = issued + 1 /\ issued' \in Token
      BY <2>2, Sorts DEF Login, IInv, SharedTypes, Token
    <3>2. 1..issued \subseteq 1..issued' /\ issued' \in 1..issued'
      BY <3>1
    <3> QED
      BY <2>2, <3>1, <3>2 DEF Login, IInv, SharedTypes
  <2> QED
    BY <2>1, <2>2 DEF SetKey, Logout
<1> QED
  BY <1>1, <1>2, <1>3 DEF IInv, SharedTypes

\* ... and the invariant.
LEMMA OwnerStep ==
    ASSUME IInv, NEW p \in Processes,
           (\E key \in Key : SetKey(p, key)) \/ Logout(p) \/ Login(p)
    PROVE  IInv'
<1>1. SharedTypes'
  BY ChangesTypes
<1>2. CASE \E key \in Key : SetKey(p, key)
  BY <1>1, <1>2, ChangeStep DEF SetKey
<1>3. CASE Logout(p)
  BY <1>1, <1>3, ChangeStep, Sorts DEF Logout
<1>4. CASE Login(p)
  BY <1>1, <1>4, ChangeStep DEF Login
<1> QED
  BY <1>2, <1>3, <1>4

\* Every step preserves the inductive invariant.
LEMMA IInvStep == ASSUME IInv, [Next]_vars PROVE IInv'
  BY StartStep, GetApiKeyStep, CrashStep, CreateFileStep, LockSyncFailsStep,
     ReadForReloadStep, ReadForChangeStep, WriteChangeStep, LockStep,
     LockFailsStep, RefreshSucceedsStep, RefreshFailsStep, WriteRefreshedStep,
     UpdateLockStep, OwnerStep, EnvironmentStep
     DEF Next, Sync, Refresh

\* It implies the type invariant.
LEMMA IInvImpliesTypeOK == IInv => TypeOK
  BY DEF IInv, SharedTypes, TypeOK, Consistent

\* The variables keep their types, and a process that believes to hold the
\* lock is in one of the places that the lock protects: for any number of
\* processes, tokens, keys, changes and crashes.
THEOREM TypeCorrect == Spec => []TypeOK
<1>1. Init => IInv
  BY InitIInv
<1>2. IInv /\ [Next]_vars => IInv'
  BY IInvStep
<1>3. IInv => TypeOK
  BY IInvImpliesTypeOK
<1> QED
  BY <1>1, <1>2, <1>3, PTL DEF Spec

-----------------------------------------------------------------------------
(* One holder of the lock *)

\* A process in the middle of refreshOAuthTokenWithLock, under the lock.
Spends(s) == s.ref \in {"refreshing", "writing"}

\* A step of one process, after which the lock is the one it needs, and which
\* takes no lock away from another.
LEMMA OneHolder ==
    ASSUME IInv, OneAtATime, NEW p \in Processes, NEW s,
           proc' = [proc EXCEPT ![p] = s], faults \subseteq faults',
           "stolen" \notin faults' =>
             /\ lock' # lock => \A q \in Processes \ {p} :
                  ~Spends(proc[q]) /\ proc[q].pc # "writing"
             /\ Spends(s) => lock' = << "async", p >>
             /\ s.pc = "writing" => lock' = << "sync", p >>
    PROVE  OneAtATime'
<1> SUFFICES ASSUME "stolen" \notin faults', NEW q \in Processes
             PROVE  /\ Spends(proc'[q]) => lock' = << "async", q >>
                    /\ proc'[q].pc = "writing" => lock' = << "sync", q >>
  BY DEF OneAtATime, Spends
<1>1. proc'[q] = IF q = p THEN s ELSE proc[q]
  BY DEF IInv
<1> QED
  BY <1>1 DEF OneAtATime, Spends

\* Nobody holds a lock that is free, or whose holder has died.
LEMMA NobodyHolds ==
    ASSUME OneAtATime, "stolen" \notin faults, lock \in {Free, Dead}
    PROVE  \A q \in Processes : ~Spends(proc[q]) /\ proc[q].pc # "writing"
  BY DEF OneAtATime, Spends, Free, Dead

\* Steps that leave the lock alone and hold no more than before.
LEMMA LockUntouched ==
    ASSUME IInv, OneAtATime, NEW p \in Processes, NEW s,
           proc' = [proc EXCEPT ![p] = s], faults \subseteq faults',
           lock' = lock,
           Spends(s) => Spends(proc[p]),
           s.pc = "writing" => proc[p].pc = "writing"
    PROVE  OneAtATime'
  BY OneHolder DEF OneAtATime, Spends

\* A synchronous operation takes a lock that is free or dead, or faults says
\* so.
LEMMA SyncOneHolder ==
    ASSUME IInv, OneAtATime, NEW p \in Processes, Sync(p) PROVE OneAtATime'
<1>1. CASE CreateFile(p, "pc")
  <2> DEFINE s == [proc[p] EXCEPT !.pc = "lock"]
  <2>1. proc' = [proc EXCEPT ![p] = s] /\ lock' = lock
        /\ faults \subseteq faults'
    BY <1>1 DEF CreateFile, IInv, ProcessState
  <2>2. s.pc = "lock" /\ s.ref = proc[p].ref
    BY DEF IInv, ProcessState
  <2> QED
    BY <2>1, <2>2, LockUntouched DEF Spends
<1>2. CASE LockSyncFails(p)
  <2> DEFINE r == Return(proc[p])
             s == IF proc[p].op = NoOp THEN [r EXCEPT !.loadError = TRUE] ELSE r
  <2>1. proc' = [proc EXCEPT ![p] = s] /\ lock' = lock /\ faults' = faults
    BY <1>2 DEF LockSyncFails
  <2>2. s.pc = "idle" /\ (Spends(s) => Spends(proc[p]))
    BY DEF IInv, ProcessState, Return, Spends
  <2> QED
    BY <2>1, <2>2, LockUntouched
<1>3. CASE LockedSync(p)
      /\ lock \in {Free, Dead} \cup ({"sync", "async"} \X Processes)
           /\ (ReadForReload(p) \/ ReadForChange(p))
  <2>1. faults \subseteq faults'
    BY <1>3 DEF LockedSync
  <2>2. ASSUME "stolen" \notin faults'
        PROVE  lock \in {Free, Dead} /\ "stolen" \notin faults
    BY <1>3, <2>2 DEF LockedSync
  <2>3. Locking(p) \in ProcessState /\ Locking(p).ref = proc[p].ref
        /\ Locking(p).pc = "lock"
    BY <1>3, LockingKeeps DEF LockedSync
  <2>4. \E s : /\ proc' = [proc EXCEPT ![p] = s]
               /\ Spends(s) => Spends(proc[p])
               /\ s.pc = "writing" => lock' = << "sync", p >>
    <3> DEFINE r == Return(Locking(p))
               s1 == IF file.status = "torn"
                     THEN [r EXCEPT !.loadError = TRUE]
                     ELSE [r EXCEPT !.loadError = FALSE, !.data = file.data]
               s2 == [Locking(p) EXCEPT !.pc = "writing", !.op.all = Merged(p)]
    <3>1. /\ Spends(r) => Spends(proc[p])
          /\ r.pc = "idle" /\ s1.ref = r.ref /\ s1.pc = "idle"
      BY <2>3 DEF Return, ProcessState, Spends
    <3>2. s2.ref = proc[p].ref
      BY <2>3 DEF ProcessState
    <3>3. CASE ReadForReload(p)
      <4>1. proc' = [proc EXCEPT ![p] = s1]
        BY <3>3 DEF ReadForReload
      <4> QED
        BY <3>1, <4>1 DEF Spends
    <3>4. CASE ReadForChange(p)
      <4>1. \/ proc' = [proc EXCEPT ![p] = r]
            \/ proc' = [proc EXCEPT ![p] = s2] /\ lock' = << "sync", p >>
        BY <3>4 DEF ReadForChange
      <4> QED
        BY <3>1, <3>2, <4>1 DEF Spends
    <3> QED
      BY <1>3, <3>3, <3>4
  <2> QED
    BY <2>1, <2>2, <2>4, OneHolder, NobodyHolds
<1>4. CASE WriteChange(p)
  <2> DEFINE s == Return(proc[p])
  <2>1. proc' = [proc EXCEPT ![p] = s] /\ faults' = faults
        /\ proc[p].pc = "writing"
    BY <1>4 DEF WriteChange
  <2>2. s.pc = "idle" /\ (Spends(s) => Spends(proc[p]))
    BY DEF IInv, ProcessState, Return, Spends
  <2>3. "stolen" \notin faults => lock = << "sync", p >>
    BY <2>1 DEF OneAtATime
  <2>4. "stolen" \notin faults =>
          /\ ~Spends(proc[p])
          /\ \A q \in Processes \ {p} : ~Spends(proc[q])
                /\ proc[q].pc # "writing"
    BY <2>3 DEF OneAtATime, Spends
  <2> QED
    BY <2>1, <2>2, <2>4, OneHolder
<1> QED
  BY <1>1, <1>2, <1>3, <1>4 DEF Sync, ReadForReload, ReadForChange, IInv,
        SharedTypes

\* Who releases the lock holds nothing any more, and nobody else did.
LEMMA ReleaseOneHolder ==
    ASSUME IInv, OneAtATime, NEW p \in Processes, NEW s, Spends(proc[p]),
           Release(p), proc' = [proc EXCEPT ![p] = s], faults \subseteq faults',
           ~Spends(s), s.pc = "writing" => proc[p].pc = "writing"
    PROVE  OneAtATime'
<1>1. "stolen" \notin faults =>
        /\ proc[p].pc # "writing"
        /\ \A q \in Processes \ {p} : ~Spends(proc[q]) /\ proc[q].pc # "writing"
  BY DEF OneAtATime, Spends
<1> QED
  BY <1>1, OneHolder

\* A refresh takes a lock that nobody holds, and keeps it until it is
\* written.
LEMMA RefreshOneHolder ==
    ASSUME IInv, OneAtATime, NEW p \in Processes, Refresh(p) PROVE OneAtATime'
<1>0. proc[p] \in ProcessState
  BY DEF IInv
<1>1. CASE CreateFile(p, "ref")
  <2> DEFINE s == [proc[p] EXCEPT !.ref = "lock"]
  <2>1. proc' = [proc EXCEPT ![p] = s] /\ lock' = lock
        /\ faults \subseteq faults'
    BY <1>1 DEF CreateFile, IInv, ProcessState
  <2>2. s.ref = "lock" /\ s.pc = proc[p].pc
    BY <1>0 DEF ProcessState
  <2> QED
    BY <2>1, <2>2, LockUntouched DEF Spends
<1>2. CASE Lock(p)
  <2> DEFINE s == [proc[p] EXCEPT !.ref = "idle", !.data = file.data,
        !.loadError = FALSE]
  <2>1. /\ lock \in {Free, Dead} /\ faults' = faults /\ proc[p].pc = "idle"
    BY <1>2 DEF Lock, Available, Idle
  <2>2. Failed(proc[p]).ref = "reloading" /\ Failed(proc[p]).pc # "writing"
        /\ s.ref = "idle" /\ s.pc = proc[p].pc
        /\ Acquired(proc[p]).pc = proc[p].pc
    BY <1>0 DEF Failed, Acquired, ProcessState, FirstStep
  <2>3. \/ proc' = [proc EXCEPT ![p] = Failed(proc[p])]
        \/ proc' = [proc EXCEPT ![p] = s]
        \/ proc' = [proc EXCEPT ![p] = Acquired(proc[p])]
              /\ lock' = << "async", p >>
    BY <1>2 DEF Lock, IInv, ProcessState
  <2> QED
    BY <2>1, <2>2, <2>3, OneHolder, NobodyHolds DEF Spends
<1>3. CASE LockFails(p)
  <2>1. Failed(proc[p]).ref = "reloading" /\ Failed(proc[p]).pc # "writing"
    BY <1>0 DEF Failed, ProcessState, FirstStep
  <2> QED
    BY <1>3, <2>1, LockUntouched DEF LockFails, Spends
<1>4. CASE RefreshSucceeds(p)
  <2> DEFINE merged == [proc[p].next EXCEPT !.oauth = issued + 1]
             w == [proc[p] EXCEPT !.ref = "writing", !.data = merged,
                   !.next = merged]
             f == [Failed(proc[p]) EXCEPT !.data = merged]
  <2>1. proc[p].ref = "refreshing" /\ lock' = lock /\ faults \subseteq faults'
    BY <1>4 DEF RefreshSucceeds
  <2>2. proc' = [proc EXCEPT ![p] = w] \/ proc' = [proc EXCEPT ![p] = f]
    BY <1>4 DEF RefreshSucceeds, IInv, ProcessState
  <2>3. w.pc = proc[p].pc /\ f.pc # "writing"  /\ Spends(proc[p])
    BY <1>0, <2>1 DEF ProcessState, Failed, FirstStep, Spends
  <2>4. f.ref = "reloading"
    BY <1>0 DEF ProcessState, Failed
  <2> QED
    BY <2>1, <2>2, <2>3, <2>4, LockUntouched
<1>5. CASE RefreshFails(p)
  <2>1. Failed(proc[p]).ref = "reloading" /\ Failed(proc[p]).pc # "writing"
    BY <1>0 DEF Failed, ProcessState, FirstStep
  <2>2. faults \subseteq faults' /\ Spends(proc[p]) /\ Release(p)
        /\ proc' = [proc EXCEPT ![p] = Failed(proc[p])]
    BY <1>5 DEF RefreshFails, Spends
  <2>3. ~Spends(Failed(proc[p]))
    BY <2>1 DEF Spends
  <2> QED
    BY <2>1, <2>2, <2>3, ReleaseOneHolder
<1>6. CASE WriteRefreshed(p)
  <2> DEFINE s == [proc[p] EXCEPT !.ref = "idle", !.mine = FALSE,
        !.next = NoCredentials]
  <2>1. s.ref = "idle" /\ s.pc = proc[p].pc
    BY <1>0 DEF ProcessState
  <2>2. faults' = faults /\ Spends(proc[p]) /\ Release(p)
        /\ proc' = [proc EXCEPT ![p] = s]
    BY <1>6 DEF WriteRefreshed, Spends, IInv, ProcessState
  <2>3. ~Spends(s)
    BY <2>1 DEF Spends
  <2> QED
    BY <2>1, <2>2, <2>3, ReleaseOneHolder
<1> QED
  BY <1>1, <1>2, <1>3, <1>4, <1>5, <1>6 DEF Refresh

\* A process that starts, calls getApiKey or begins a change holds nothing
\* yet.
LEMMA OwnerOneHolder ==
    ASSUME IInv, OneAtATime, NEW p \in Processes,
           Start(p) \/ GetApiKey(p) \/ Login(p) \/ Logout(p)
             \/ \E key \in Key : SetKey(p, key)
    PROVE  OneAtATime'
<1>0. proc[p] \in ProcessState /\ FirstStep \in {"create", "lock"}
  BY DEF IInv, FirstStep
<1>1. lock' = lock /\ faults' = faults
  BY DEF Start, GetApiKey, Login, Logout, SetKey, Change
<1>2. CASE Start(p)
  <2> DEFINE s == [Stopped EXCEPT !.up = TRUE, !.pc = FirstStep]
  <2>1. proc' = [proc EXCEPT ![p] = s]
    BY <1>2 DEF Start
  <2>2. s.ref = "idle" /\ s.pc # "writing"
    BY <1>0 DEF Stopped
  <2> QED
    BY <1>1, <2>1, <2>2, LockUntouched DEF Spends
<1>3. CASE GetApiKey(p)
  <2> DEFINE s == [proc[p] EXCEPT !.ref = FirstStep]
  <2>1. proc' = [proc EXCEPT ![p] = s]
    BY <1>3 DEF GetApiKey, IInv, ProcessState
  <2>2. s.pc = proc[p].pc /\ ~Spends(s)
    BY <1>0 DEF ProcessState, Spends
  <2> QED
    BY <1>1, <2>1, <2>2, LockUntouched
<1>4. ASSUME NEW kind, NEW cred, Change(p, kind, cred) PROVE OneAtATime'
  <2> DEFINE s == Changed(proc[p], kind, cred)
  <2>1. proc' = [proc EXCEPT ![p] = s] /\ proc[p].pc = "idle"
    BY <1>4 DEF Change, Idle
  <2>2. s.ref = proc[p].ref /\ s.pc # "writing"
    BY <1>0, <2>1 DEF ProcessState, Changed
  <2> QED
    BY <1>1, <2>1, <2>2, LockUntouched DEF Spends
<1> QED
  BY <1>2, <1>3, <1>4 DEF Login, Logout, SetKey

\* A process that dies leaves a lock that is nobody's; time takes nothing
\* away.
LEMMA OtherOneHolder ==
    ASSUME IInv, OneAtATime,
           \/ \E p \in Processes : Crash(p) \/ UpdateLock(p)
           \/ (\E t \in Token : TokenExpires(t)) \/ LockAges
           \/ UNCHANGED vars
    PROVE  OneAtATime'
<1>1. ASSUME NEW p \in Processes, Crash(p) PROVE OneAtATime'
  <2>1. proc' = [proc EXCEPT ![p] = Stopped] /\ faults \subseteq faults'
    BY <1>1 DEF Crash
  <2>2. ~Spends(Stopped) /\ Stopped.pc # "writing"
    BY DEF Stopped, Spends
  <2>3. lock' # lock => lock \in {<< "sync", p >>, << "async", p >>}
    BY <1>1 DEF Crash
  <2>4. lock' # lock /\ "stolen" \notin faults =>
          \A q \in Processes \ {p} : ~Spends(proc[q]) /\ proc[q].pc # "writing"
    BY <2>3 DEF OneAtATime, Spends
  <2> QED
    BY <2>1, <2>2, <2>4, OneHolder
<1>2. ASSUME NEW p \in Processes, UpdateLock(p) PROVE OneAtATime'
  <2> DEFINE s == [proc[p] EXCEPT !.noticed = TRUE, !.mine = FALSE]
  <2>1. lock' = lock /\ faults' = faults
        /\ (proc' = [proc EXCEPT ![p] = proc[p]] \/ proc' = [proc EXCEPT ![p] = s])
    BY <1>2 DEF UpdateLock, IInv, ProcessState
  <2>2. s.ref = proc[p].ref /\ s.pc = proc[p].pc
    BY DEF IInv, ProcessState
  <2> QED
    BY <2>1, <2>2, LockUntouched DEF Spends
<1>3. CASE (\E t \in Token : TokenExpires(t)) \/ LockAges \/ UNCHANGED vars
  BY <1>3 DEF TokenExpires, LockAges, vars, OneAtATime
<1> QED
  BY <1>1, <1>2, <1>3

\* OneAtATime is inductive, given the consistency of each process.
LEMMA OneAtATimeStep ==
    ASSUME IInv, OneAtATime, [Next]_vars PROVE OneAtATime'
  BY SyncOneHolder, RefreshOneHolder, OwnerOneHolder, OtherOneHolder DEF Next

\* Refreshes and changes of all processes exclude each other: two processes
\* never spend the same refresh token, and none reads or writes auth.json
\* under another's lock, unless a synchronous operation took it from a slow
\* refresh.
THEOREM MutualExclusion == Spec => []OneAtATime
<1>1. Init => IInv /\ OneAtATime
  BY InitIInv DEF Init, OneAtATime, Stopped
<1>2. IInv /\ OneAtATime /\ [Next]_vars => IInv' /\ OneAtATime'
  BY IInvStep, OneAtATimeStep
<1> QED
  BY <1>1, <1>2, PTL DEF Spec

-----------------------------------------------------------------------------
(* Tokens are live *)

\* The tokens under way in a process: what its change will add, what it is
\* writing, and what its refresh was sent, or will write.
Adds(s)   == IF s.op.kind = "oauth" THEN s.op.cred ELSE 0
Writes(s) == IF s.pc = "writing" THEN s.op.all.oauth ELSE 0
Renews(s) == IF Spends(s) THEN s.next.oauth ELSE 0

\* A token that a login has just obtained is nowhere else yet: no refresh can
\* spend it before it is in the file.
Fresh(token, p) ==
    /\ token # file.data.oauth
    /\ \A q \in Processes :
         /\ token # Renews(proc[q])
         /\ q # p => token # Writes(proc[q]) /\ token # Adds(proc[q])

\* Wherever a token is on its way to the file, the provider still accepts it.
TokensAreLive ==
    /\ file.data.oauth \in live \cup {0}
    /\ \A p \in Processes :
         /\ Writes(proc[p]) \in live \cup {0}
         /\ Renews(proc[p]) \in live \cup {0}
         /\ Adds(proc[p]) \in live \cup {0}
         /\ Adds(proc[p]) # 0 => Fresh(Adds(proc[p]), p)

\* The faults that StoredTokenIsUsable excuses.
Lost(f) == "stolen" \in f \/ "rotationLost" \in f

\* The strengthening of StoredTokenIsUsable.
TokenInv == Lost(faults) \/ TokensAreLive

\* A step of one process that only passes on live tokens, and spends none.
LEMMA TokensFlow ==
    ASSUME IInv, TokensAreLive, NEW p \in Processes, NEW s,
           proc' = [proc EXCEPT ![p] = s],
           live \subseteq live',
           \/ file'.data.oauth \in {0, file.data.oauth, Renews(proc[p])}
           \/ file'.data.oauth = Writes(proc[p]) /\ Adds(s) = 0,
           Writes(s) \in {0, Writes(proc[p]), file.data.oauth, Adds(proc[p])},
           Renews(s) \in {0, Renews(proc[p]), file.data.oauth},
           Adds(s) \in {0, Adds(proc[p])}
    PROVE  TokensAreLive'
<1> DEFINE old == proc[p]
<1>1. \A q \in Processes : proc'[q] = IF q = p THEN s ELSE proc[q]
  BY DEF IInv
<1>2. 0 \notin live
  BY DEF IInv, SharedTypes
<1>3. file'.data.oauth \in live' \cup {0}
  BY DEF TokensAreLive
<1>4. \A q \in Processes : /\ Writes(proc'[q]) \in live' \cup {0}
                           /\ Renews(proc'[q]) \in live' \cup {0}
                           /\ Adds(proc'[q]) \in live' \cup {0}
  BY <1>1 DEF TokensAreLive
<1>5. ASSUME NEW q \in Processes, Adds(proc'[q]) # 0
      PROVE  Fresh(Adds(proc[q]), q)'
  <2> DEFINE token == Adds(proc'[q])
  <2>1. token = Adds(proc[q]) /\ Fresh(token, q)
    BY <1>1, <1>5 DEF TokensAreLive
  <2>2. token # file'.data.oauth
    BY <1>1, <1>5, <2>1 DEF Fresh
  <2>3. ASSUME NEW r \in Processes
        PROVE  /\ token # Renews(proc'[r])
               /\ r # q => token # Writes(proc'[r]) /\ token # Adds(proc'[r])
    BY <1>1, <1>5, <2>1 DEF Fresh
  <2> QED
    BY <2>2, <2>3 DEF Fresh
<1> QED
  BY <1>3, <1>4, <1>5 DEF TokensAreLive

\* What an unfinished change adds, writes and renews once it has returned, ...
LEMMA ReturnTokens ==
    ASSUME NEW s \in ProcessState
    PROVE  /\ Adds(Return(s)) = 0 /\ Writes(Return(s)) = 0
           /\ Renews(Return(s)) \in {0, Renews(s)}
<1>1. /\ Return(s).op = NoOp /\ Return(s).pc = "idle"
      /\ Return(s).ref = IF s.ref = "reloading" THEN "idle" ELSE s.ref
      /\ Return(s).next = s.next
  BY DEF Return, ProcessState
<1> QED
  BY <1>1 DEF Adds, Writes, Renews, Spends, NoOp

\* ... and a refresh once it has failed.
LEMMA FailedTokens ==
    ASSUME NEW s \in ProcessState
    PROVE  /\ Adds(Failed(s)) = Adds(s) /\ Writes(Failed(s)) = 0
           /\ Renews(Failed(s)) = 0
<1>1. /\ Failed(s).op = s.op /\ Failed(s).pc = FirstStep
      /\ Failed(s).ref = "reloading"
  BY DEF Failed, ProcessState
<1> QED
  BY <1>1 DEF Adds, Writes, Renews, Spends, FirstStep

\* A synchronous operation passes tokens between its process and the file.
LEMMA SyncTokens ==
    ASSUME IInv, TokensAreLive, NEW p \in Processes, Sync(p)
    PROVE  TokensAreLive'
<1>0. proc[p] \in ProcessState
  BY DEF IInv
<1>1. CASE CreateFile(p, "pc")
  <2> DEFINE s == [proc[p] EXCEPT !.pc = "lock"]
  <2>1. proc' = [proc EXCEPT ![p] = s] /\ live' = live /\ file'.data.oauth = 0
    BY <1>1 DEF CreateFile, IInv, ProcessState, provider, Whole, NoCredentials
  <2>2. s.pc = "lock" /\ s.ref = proc[p].ref /\ s.op = proc[p].op
        /\ s.next = proc[p].next
    BY <1>0 DEF ProcessState
  <2>3. Adds(s) = Adds(proc[p]) /\ Writes(s) = 0 /\ Renews(s) = Renews(proc[p])
    BY <2>2 DEF Adds, Writes, Renews, Spends
  <2> QED
    BY <2>1, <2>3, TokensFlow
<1>2. CASE LockSyncFails(p)
  <2> DEFINE r == Return(proc[p])
             s == IF proc[p].op = NoOp THEN [r EXCEPT !.loadError = TRUE] ELSE r
  <2>1. proc' = [proc EXCEPT ![p] = s] /\ live' = live /\ file' = file
    BY <1>2 DEF LockSyncFails, provider
  <2>2. s.op = r.op /\ s.pc = r.pc /\ s.ref = r.ref /\ s.next = r.next
    BY <1>0 DEF Return, ProcessState
  <2>3. Adds(s) = Adds(r) /\ Writes(s) = Writes(r) /\ Renews(s) = Renews(r)
    BY <2>2 DEF Adds, Writes, Renews, Spends
  <2> QED
    BY <1>0, <2>1, <2>3, TokensFlow, ReturnTokens
<1>3. CASE ReadForReload(p)
  <2> DEFINE l == Locking(p)
             r == Return(l)
             s == IF file.status = "torn"
                  THEN [r EXCEPT !.loadError = TRUE]
                  ELSE [r EXCEPT !.loadError = FALSE, !.data = file.data]
  <2>1. proc' = [proc EXCEPT ![p] = s] /\ live' = live /\ file' = file
    BY <1>3 DEF ReadForReload, provider
  <2>2. l \in ProcessState /\ l.ref = proc[p].ref /\ l.next = proc[p].next
    BY <1>0, ZenonT(40) DEF Locking, ProcessState
  <2>3. s.op = r.op /\ s.pc = r.pc /\ s.ref = r.ref /\ s.next = r.next
    BY <2>2 DEF Return, ProcessState
  <2>4. Adds(s) = Adds(r) /\ Writes(s) = Writes(r) /\ Renews(s) = Renews(r)
    BY <2>3 DEF Adds, Writes, Renews, Spends
  <2>5. Renews(l) = Renews(proc[p])
    BY <2>2 DEF Renews, Spends
  <2> QED
    BY <2>1, <2>2, <2>4, <2>5, TokensFlow, ReturnTokens
<1>4. CASE ReadForChange(p)
  <2> DEFINE l == Locking(p)
             w == [l EXCEPT !.pc = "writing", !.op.all = Merged(p)]
  <2>1. live' = live
    BY <1>4 DEF ReadForChange, provider
  <2>2. /\ l \in ProcessState /\ l.ref = proc[p].ref /\ l.next = proc[p].next
        /\ l.op = proc[p].op
    BY <1>0, ZenonT(40) DEF Locking, ProcessState
  <2>3. Renews(l) = Renews(proc[p])
    BY <2>2 DEF Renews, Spends
  <2>4. CASE proc' = [proc EXCEPT ![p] = Return(l)] /\ file' = file
    BY <2>1, <2>2, <2>3, <2>4, TokensFlow, ReturnTokens
  <2>5. CASE proc' = [proc EXCEPT ![p] = w] /\ file' = Whole(NoCredentials)
             /\ proc[p].op # NoOp
    <3>1. /\ w.pc = "writing" /\ w.ref = proc[p].ref /\ w.next = proc[p].next
          /\ w.op.kind = proc[p].op.kind /\ w.op.cred = proc[p].op.cred
          /\ w.op.all = Merged(p)
      BY <2>2 DEF ProcessState
    <3>2. Adds(w) = Adds(proc[p]) /\ Renews(w) = Renews(proc[p])
      BY <3>1 DEF Adds, Renews, Spends
    <3>3. Merged(p).oauth \in {file.data.oauth, Adds(proc[p])}
      <4>1. file.data \in Credentials /\ OpOK(proc[p].op)
        BY DEF IInv, SharedTypes, File, Consistent
      <4>2. CASE proc[p].op.kind = "oauth"
        <5>1. Merged(p) = [file.data EXCEPT !["oauth"] = proc[p].op.cred]
          BY <4>2 DEF Merged
        <5> QED
          BY <4>1, <4>2, <5>1 DEF Adds, Credentials
      <4>3. CASE proc[p].op.kind = "key"
        <5>1. Merged(p) = [file.data EXCEPT !["key"] = proc[p].op.cred]
          BY <4>3 DEF Merged
        <5> QED
          BY <4>1, <5>1 DEF Credentials
      <4> QED
        BY <2>5, <4>1, <4>2, <4>3 DEF OpOK
    <3>4. Writes(w) \in {file.data.oauth, Adds(proc[p])}
      BY <3>1, <3>3 DEF Writes
    <3>5. file'.data.oauth = 0
      BY <2>5 DEF Whole, NoCredentials
    <3> QED
      BY <2>1, <2>5, <3>2, <3>4, <3>5, TokensFlow
  <2> QED
    BY <1>4, <2>4, <2>5 DEF ReadForChange
<1>5. CASE WriteChange(p)
  <2>1. proc' = [proc EXCEPT ![p] = Return(proc[p])] /\ live' = live
    BY <1>5 DEF WriteChange, provider
  <2>2. file'.data.oauth = Writes(proc[p])
    BY <1>5 DEF WriteChange, Writes, Whole
  <2> QED
    BY <1>0, <2>1, <2>2, TokensFlow, ReturnTokens
<1> QED
  BY <1>1, <1>2, <1>3, <1>4, <1>5 DEF Sync

\* The provider has replaced the token that p spends, and p goes on to write
\* the new one: since p is the only one that holds anything, no other token has
\* changed hands.
LEMMA RotationTokens ==
    ASSUME IInv, OneAtATime, TokensAreLive, NEW p \in Processes,
           "stolen" \notin faults, proc[p].ref = "refreshing",
           Rotate(proc[p].next.oauth), file'.data.oauth = 0,
           NEW s, proc' = [proc EXCEPT ![p] = s],
           Renews(s) = issued + 1, Writes(s) = 0, Adds(s) = Adds(proc[p])
    PROVE  TokensAreLive'
<1> DEFINE t == proc[p].next.oauth
<1>1. \A q \in Processes : proc'[q] = IF q = p THEN s ELSE proc[q]
  BY DEF IInv
<1>2. live' = (live \ {t}) \cup {issued + 1}
  BY DEF Rotate
<1>3. live \subseteq Nat /\ 0 \notin live /\ issued + 1 \notin live
  BY Sorts DEF IInv, SharedTypes, Token
<1>4. issued + 1 # 0
  BY Sorts DEF IInv, SharedTypes, Token
<1>5. \A q \in Processes \ {p} : Renews(proc[q]) = 0 /\ Writes(proc[q]) = 0
  BY DEF OneAtATime, Spends, Renews, Writes
<1>6. Renews(proc[p]) = t
  BY DEF Renews, Spends
<1>7. ASSUME NEW q \in Processes
      PROVE  Adds(proc'[q]) = Adds(proc[q])
  BY <1>1
<1>8. ASSUME NEW q \in Processes, Adds(proc[q]) # 0
      PROVE  Adds(proc[q]) \in live' /\ Adds(proc[q]) # issued + 1
  BY <1>2, <1>3, <1>6, <1>8 DEF TokensAreLive, Fresh
<1>9. \A q \in Processes : /\ Writes(proc'[q]) \in live' \cup {0}
                           /\ Renews(proc'[q]) \in live' \cup {0}
                           /\ Adds(proc'[q]) \in live' \cup {0}
  BY <1>1, <1>2, <1>5, <1>7, <1>8
<1>10. ASSUME NEW q \in Processes, Adds(proc'[q]) # 0
       PROVE  Fresh(Adds(proc[q]), q)'
  <2> DEFINE token == Adds(proc'[q])
  <2>1. token = Adds(proc[q]) /\ Fresh(token, q) /\ token # issued + 1
    BY <1>7, <1>8, <1>10 DEF TokensAreLive
  <2>2. ASSUME NEW r \in Processes
        PROVE  /\ token # Renews(proc'[r])
               /\ r # q => token # Writes(proc'[r]) /\ token # Adds(proc'[r])
    BY <1>1, <1>5, <1>10, <2>1 DEF Fresh
  <2> QED
    BY <1>10, <2>2 DEF Fresh
<1> QED
  BY <1>9, <1>10 DEF TokensAreLive

\* A refresh spends the token in the file, and passes on the one it got for
\* it.
LEMMA RefreshTokens ==
    ASSUME IInv, OneAtATime, TokensAreLive, NEW p \in Processes, Refresh(p)
    PROVE  Lost(faults') \/ TokensAreLive'
<1>0. proc[p] \in ProcessState
  BY DEF IInv
<1>1. CASE CreateFile(p, "ref")
  <2> DEFINE s == [proc[p] EXCEPT !.ref = "lock"]
  <2>1. proc' = [proc EXCEPT ![p] = s] /\ live' = live /\ file'.data.oauth = 0
    BY <1>1 DEF CreateFile, IInv, ProcessState, provider, Whole, NoCredentials
  <2>2. s.ref = "lock" /\ s.pc = proc[p].pc /\ s.op = proc[p].op
    BY <1>0 DEF ProcessState
  <2>3. Adds(s) = Adds(proc[p]) /\ Writes(s) = Writes(proc[p]) /\ Renews(s) = 0
    BY <2>2 DEF Adds, Writes, Renews, Spends
  <2> QED
    BY <2>1, <2>3, TokensFlow
<1>2. CASE Lock(p)
  <2> DEFINE s == [proc[p] EXCEPT !.ref = "idle", !.data = file.data,
        !.loadError = FALSE]
             a == Acquired(proc[p])
  <2>1. live' = live /\ file' = file
    BY <1>2 DEF Lock, provider
  <2>2. \/ proc' = [proc EXCEPT ![p] = Failed(proc[p])]
        \/ proc' = [proc EXCEPT ![p] = s]
        \/ proc' = [proc EXCEPT ![p] = a]
    BY <1>2 DEF Lock, IInv, ProcessState
  <2>3. /\ s.ref = "idle" /\ s.pc = proc[p].pc /\ s.op = proc[p].op
        /\ a.pc = proc[p].pc /\ a.op = proc[p].op /\ a.next = file.data
    BY <1>0 DEF ProcessState, Acquired
  <2>4. /\ Adds(s) = Adds(proc[p]) /\ Writes(s) = Writes(proc[p])
        /\ Renews(s) = 0
        /\ Adds(a) = Adds(proc[p]) /\ Writes(a) = Writes(proc[p])
        /\ Renews(a) \in {0, file.data.oauth}
    BY <2>3 DEF Adds, Writes, Renews, Spends
  <2>5. CASE proc' = [proc EXCEPT ![p] = Failed(proc[p])]
    BY <1>0, <2>1, <2>5, FailedTokens, TokensFlow
  <2>6. CASE proc' = [proc EXCEPT ![p] = s]
    BY <2>1, <2>4, <2>6, TokensFlow
  <2>7. CASE proc' = [proc EXCEPT ![p] = a]
    BY <2>1, <2>4, <2>7, TokensFlow
  <2> QED
    BY <2>2, <2>5, <2>6, <2>7
<1>3. CASE LockFails(p)
  <2>1. proc' = [proc EXCEPT ![p] = Failed(proc[p])] /\ live' = live
        /\ file' = file
    BY <1>3 DEF LockFails, provider
  <2> QED
    BY <1>0, <2>1, FailedTokens, TokensFlow
<1>4. CASE RefreshSucceeds(p)
  <2> DEFINE merged == [proc[p].next EXCEPT !.oauth = issued + 1]
             w == [proc[p] EXCEPT !.ref = "writing", !.data = merged,
                   !.next = merged]
  <2>1. CASE "rotationLost" \in faults' \/ "stolen" \in faults'
    BY <2>1 DEF Lost
  <2>2. CASE "rotationLost" \notin faults' /\ "stolen" \notin faults'
    <3>1. proc' = [proc EXCEPT ![p] = w] /\ file' = Whole(NoCredentials)
          /\ faults' = faults
      BY <1>4, <2>2 DEF RefreshSucceeds, IInv, ProcessState
    <3>2. /\ proc[p].ref = "refreshing" /\ proc[p].pc = "idle"
          /\ Rotate(proc[p].next.oauth)
      BY <1>4 DEF RefreshSucceeds, Idle
    <3>3. file'.data.oauth = 0
      BY <3>1 DEF Whole, NoCredentials
    <3>4. merged.oauth = issued + 1
      BY <1>0 DEF ProcessState, Credentials
    <3>5. w.ref = "writing" /\ w.pc = proc[p].pc /\ w.op = proc[p].op
          /\ w.next = merged
      BY <1>0 DEF ProcessState
    <3>6. Renews(w) = issued + 1 /\ Writes(w) = 0 /\ Adds(w) = Adds(proc[p])
      <4> HIDE DEF w, merged
      <4> QED
        BY <3>2, <3>4, <3>5 DEF Renews, Writes, Adds, Spends
    <3> QED
      BY <2>2, <3>1, <3>2, <3>3, <3>6, RotationTokens
  <2> QED
    BY <2>1, <2>2
<1>5. CASE RefreshFails(p)
  <2>1. CASE "rotationLost" \in faults'
    BY <2>1 DEF Lost
  <2>2. CASE "rotationLost" \notin faults'
    <3>1. proc' = [proc EXCEPT ![p] = Failed(proc[p])] /\ live' = live
          /\ file' = file
      BY <1>5, <2>2 DEF RefreshFails, provider
    <3> QED
      BY <1>0, <3>1, FailedTokens, TokensFlow
  <2> QED
    BY <2>1, <2>2
<1>6. CASE WriteRefreshed(p)
  <2> DEFINE s == [proc[p] EXCEPT !.ref = "idle", !.mine = FALSE,
        !.next = NoCredentials]
  <2>1. proc' = [proc EXCEPT ![p] = s] /\ live' = live
    BY <1>6 DEF WriteRefreshed, provider, IInv, ProcessState
  <2>2. file'.data.oauth = Renews(proc[p])
    BY <1>6 DEF WriteRefreshed, Renews, Spends, Whole
  <2>3. s.ref = "idle" /\ s.pc = proc[p].pc /\ s.op = proc[p].op
    BY <1>0 DEF ProcessState
  <2>4. Adds(s) = Adds(proc[p]) /\ Writes(s) = Writes(proc[p]) /\ Renews(s) = 0
    BY <2>3 DEF Adds, Writes, Renews, Spends
  <2> QED
    BY <2>1, <2>2, <2>4, TokensFlow
<1> QED
  BY <1>1, <1>2, <1>3, <1>4, <1>5, <1>6 DEF Refresh

\* A login adds a token that nobody else has; other changes remove one or none.
LEMMA OwnerTokens ==
    ASSUME IInv, TokensAreLive, NEW p \in Processes,
           Start(p) \/ GetApiKey(p) \/ Login(p) \/ Logout(p)
             \/ \E key \in Key : SetKey(p, key)
    PROVE  TokensAreLive'
<1>0. /\ proc[p] \in ProcessState /\ FirstStep \in {"create", "lock"}
      /\ file' = file
  BY DEF IInv, FirstStep, Start, GetApiKey, Login, Logout, SetKey, Change
<1>1. CASE Start(p)
  <2> DEFINE s == [Stopped EXCEPT !.up = TRUE, !.pc = FirstStep]
  <2>1. proc' = [proc EXCEPT ![p] = s] /\ live' = live
    BY <1>1 DEF Start, provider
  <2>2. s.ref = "idle" /\ s.pc # "writing" /\ s.op = NoOp
    BY <1>0 DEF Stopped
  <2>3. Adds(s) = 0 /\ Writes(s) = 0 /\ Renews(s) = 0
    BY <2>2 DEF Adds, Writes, Renews, Spends, NoOp
  <2> QED
    BY <1>0, <2>1, <2>3, TokensFlow
<1>2. CASE GetApiKey(p)
  <2> DEFINE s == [proc[p] EXCEPT !.ref = FirstStep]
  <2>1. proc' = [proc EXCEPT ![p] = s] /\ live' = live
    BY <1>2 DEF GetApiKey, IInv, ProcessState, provider
  <2>2. s.pc = proc[p].pc /\ s.op = proc[p].op /\ ~Spends(s)
    BY <1>0 DEF ProcessState, Spends
  <2>3. Adds(s) = Adds(proc[p]) /\ Writes(s) = Writes(proc[p]) /\ Renews(s) = 0
    BY <2>2 DEF Adds, Writes, Renews
  <2> QED
    BY <1>0, <2>1, <2>3, TokensFlow
<1>3. ASSUME NEW kind \in {"oauth", "key"}, NEW cred, Change(p, kind, cred)
      PROVE  LET s == Changed(proc[p], kind, cred)
             IN  /\ proc' = [proc EXCEPT ![p] = s]
                 /\ Writes(s) = 0 /\ Renews(s) = Renews(proc[p])
                 /\ Adds(s) \in {Adds(proc[p]),
                       IF kind = "oauth" THEN cred ELSE 0}
  <2> DEFINE s == Changed(proc[p], kind, cred)
  <2>1. proc' = [proc EXCEPT ![p] = s] /\ proc[p].pc = "idle"
    BY <1>3 DEF Change, Idle
  <2>2. /\ s.ref = proc[p].ref /\ s.next = proc[p].next /\ s.pc # "writing"
        /\ s.op = proc[p].op \/ s.op = [NoOp EXCEPT !.kind = kind,
              !.cred = cred]
    BY <1>0, <2>1 DEF ProcessState, Changed
  <2>3. Adds(s) \in {Adds(proc[p]), IF kind = "oauth" THEN cred ELSE 0}
    BY <2>2 DEF Adds, NoOp
  <2> QED
    BY <2>1, <2>2, <2>3 DEF Writes, Renews, Spends
<1>4. CASE Logout(p)
  <2>1. live' = live
    BY <1>4 DEF Logout
  <2> QED
    BY <1>0, <1>3, <1>4, <2>1, TokensFlow DEF Logout
<1>5. CASE \E key \in Key : SetKey(p, key)
  <2> PICK key \in Key : SetKey(p, key)
    BY <1>5
  <2>1. live' = live /\ Change(p, "key", key)
    BY DEF SetKey
  <2> QED
    BY <1>0, <1>3, <2>1, TokensFlow
<1>6. CASE Login(p)
  <2> DEFINE new == issued + 1
             s == Changed(proc[p], "oauth", new)
  <2>1. /\ proc' = [proc EXCEPT ![p] = s]
        /\ Writes(s) = 0 /\ Renews(s) = Renews(proc[p])
        /\ Adds(s) \in {Adds(proc[p]), new}
    BY <1>3, <1>6 DEF Login
  <2>2. live' = live \cup {new}
    BY <1>6 DEF Login
  <2>3. CASE Adds(s) = Adds(proc[p])
    BY <1>0, <2>1, <2>2, <2>3, TokensFlow
  <2>4. CASE Adds(s) = new
    <3>1. new \notin live \cup {0} /\ 0 \notin live
      BY Sorts DEF IInv, SharedTypes, Token
    <3>2. \A q \in Processes : proc'[q] = IF q = p THEN s ELSE proc[q]
      BY <2>1 DEF IInv
    <3>3. \A q \in Processes : /\ Writes(proc'[q]) \in live \cup {0}
                               /\ Renews(proc'[q]) \in live \cup {0}
                               /\ q # p => Adds(proc'[q]) \in live \cup {0}
      BY <2>1, <3>2 DEF TokensAreLive
    <3>4. ASSUME NEW q \in Processes, Adds(proc'[q]) # 0
          PROVE  Fresh(Adds(proc[q]), q)'
      <4>1. CASE q = p
        BY <1>0, <2>4, <3>1, <3>2, <3>3, <4>1 DEF Fresh, TokensAreLive
      <4>2. CASE q # p
        <5>1. Adds(proc'[q]) = Adds(proc[q]) /\ Fresh(Adds(proc[q]), q)
          BY <3>2, <3>4, <4>2 DEF TokensAreLive
        <5>2. Adds(proc[q]) # new
          BY <3>1, <3>3, <4>2, <5>1
        <5>3. ASSUME NEW r \in Processes
              PROVE  /\ Adds(proc'[q]) # Renews(proc'[r])
                     /\ r # q => /\ Adds(proc'[q]) # Writes(proc'[r])
                                 /\ Adds(proc'[q]) # Adds(proc'[r])
          BY <2>1, <2>4, <3>2, <3>4, <5>1, <5>2 DEF Fresh
        <5> QED
          BY <1>0, <5>1, <5>3 DEF Fresh
      <4> QED
        BY <4>1, <4>2
    <3>5. Adds(proc'[p]) \in live'
      BY <2>2, <2>4, <3>2
    <3>6. file'.data.oauth \in live' \cup {0}
      BY <1>0, <2>2 DEF TokensAreLive
    <3>7. \A q \in Processes : Adds(proc'[q]) \in live' \cup {0}
      BY <2>2, <3>3, <3>5
    <3> QED
      BY <2>2, <3>3, <3>4, <3>6, <3>7 DEF TokensAreLive
  <2> QED
    BY <2>1, <2>3, <2>4
<1> QED
  BY <1>1, <1>2, <1>4, <1>5, <1>6

\* A process that dies forgets its tokens; time spends none.
LEMMA OtherTokens ==
    ASSUME IInv, TokensAreLive,
           \/ \E p \in Processes : Crash(p) \/ UpdateLock(p)
           \/ (\E t \in Token : TokenExpires(t)) \/ LockAges
           \/ UNCHANGED vars
    PROVE  TokensAreLive'
<1>1. ASSUME NEW p \in Processes, Crash(p) PROVE TokensAreLive'
  <2>1. proc' = [proc EXCEPT ![p] = Stopped] /\ live' = live
    BY <1>1 DEF Crash, provider
  <2>2. \/ file'.data = file.data
        \/ Writing(p) /\ file'.data = Written(p)
    BY <1>1 DEF Crash, Whole, IInv, SharedTypes, File
  <2>3. Writing(p) => Written(p).oauth \in {Writes(proc[p]), Renews(proc[p])}
    BY DEF Writing, Written, Writes, Renews, Spends
  <2>4. Adds(Stopped) = 0 /\ Writes(Stopped) = 0 /\ Renews(Stopped) = 0
    BY DEF Stopped, NoOp, Adds, Writes, Renews, Spends
  <2> QED
    BY <2>1, <2>2, <2>3, <2>4, TokensFlow
<1>2. ASSUME NEW p \in Processes, UpdateLock(p) PROVE TokensAreLive'
  <2> DEFINE s == [proc[p] EXCEPT !.noticed = TRUE, !.mine = FALSE]
  <2>1. live' = live /\ file' = file
        /\ (proc' = [proc EXCEPT ![p] = proc[p]] \/ proc' = [proc EXCEPT ![p] = s])
    BY <1>2 DEF UpdateLock, IInv, ProcessState, provider
  <2>2. /\ s.ref = proc[p].ref /\ s.pc = proc[p].pc /\ s.op = proc[p].op
        /\ s.next = proc[p].next
    BY DEF IInv, ProcessState
  <2>3. Adds(s) = Adds(proc[p]) /\ Writes(s) = Writes(proc[p])
        /\ Renews(s) = Renews(proc[p])
    BY <2>2 DEF Adds, Writes, Renews, Spends
  <2> QED
    BY <2>1, <2>3, TokensFlow
<1>3. CASE (\E t \in Token : TokenExpires(t)) \/ LockAges \/ UNCHANGED vars
  <2>1. proc' = proc /\ file' = file /\ live' = live
    BY <1>3 DEF TokenExpires, LockAges, vars, provider
  <2> QED
    BY <2>1 DEF TokensAreLive, Fresh
<1> QED
  BY <1>1, <1>2, <1>3

\* Faults are never forgotten.
LEMMA FaultsStay == ASSUME [Next]_vars, Lost(faults) PROVE Lost(faults')
<1>1. faults \subseteq faults'
  BY ZenonT(40)
  DEF Next, Sync, Refresh, vars, Start, GetApiKey, Crash, CreateFile,
     LockSyncFails, ReadForReload, ReadForChange, LockedSync, WriteChange,
     Lock, LockFails, RefreshSucceeds, RefreshFails, WriteRefreshed,
     UpdateLock, Login, Logout, SetKey, Change, TokenExpires, LockAges
<1> QED
  BY <1>1 DEF Lost

\* TokenInv is inductive, given mutual exclusion.
LEMMA TokenInvStep ==
    ASSUME IInv, OneAtATime, TokenInv, [Next]_vars PROVE TokenInv'
<1>1. CASE Lost(faults)
  BY <1>1, FaultsStay DEF TokenInv
<1>2. CASE TokensAreLive
  BY <1>2, SyncTokens, RefreshTokens, OwnerTokens, OtherTokens DEF Next,
        TokenInv
<1> QED
  BY <1>1, <1>2 DEF TokenInv

\* The token in auth.json can be refreshed, whichever processes refreshed,
\* logged in or died: no rotation is forgotten or overwritten by an older
\* one, unless a lock was taken away or an answer of the provider was lost.
THEOREM StoredTokens == Spec => []StoredTokenIsUsable
<1>1. Init => IInv /\ OneAtATime /\ TokenInv
  <2> SUFFICES ASSUME Init PROVE IInv /\ OneAtATime /\ TokenInv
    OBVIOUS
  <2>1. IInv /\ OneAtATime
    BY InitIInv DEF Init, OneAtATime, Stopped
  <2>2. \A p \in Processes : Adds(proc[p]) = 0 /\ Writes(proc[p]) = 0
        /\ Renews(proc[p]) = 0
    BY DEF Init, Stopped, NoOp, Adds, Writes, Renews, Spends
  <2>3. file.data.oauth \in {0, 1} /\ live = {1}
    BY DEF Init, NoCredentials, Whole
  <2> QED
    BY <2>1, <2>2, <2>3 DEF TokenInv, TokensAreLive
<1>2. IInv /\ OneAtATime /\ TokenInv /\ [Next]_vars => IInv' /\ OneAtATime'
      /\ TokenInv'
  BY IInvStep, OneAtATimeStep, TokenInvStep
<1>3. TokenInv => StoredTokenIsUsable
  BY DEF TokenInv, Lost, TokensAreLive, StoredTokenIsUsable
<1> QED
  BY <1>1, <1>2, <1>3, PTL DEF Spec

-----------------------------------------------------------------------------
(* What was saved is kept *)

\* A process that is writing the file.
Writer(s) == s.pc = "writing" \/ s.ref = "writing"

\* What a process read under the lock is still what was last saved, when it
\* writes it back with its own change.
KnowsSaved(s) ==
    /\ s.pc = "writing" => s.op.all = [saved EXCEPT ![s.op.kind] = s.op.cred]
    /\ s.ref = "refreshing" => s.next = saved
    /\ s.ref = "writing" => s.next = [saved EXCEPT !.oauth = s.next.oauth]

\* What the file holds is what was last saved, or is being replaced by
\* someone who knows what that was.
FileIsSaved ==
    /\ (\A p \in Processes : ~Writer(proc[p])) => file.data = saved
    /\ \A p \in Processes : KnowsSaved(proc[p])
    /\ file.status = "missing" => file.data = NoCredentials

\* The faults that SavedCredentialsAreKept excuses.
Broken(f) == "stolen" \in f \/ "recreated" \in f \/ "torn" \in f

\* The strengthening of SavedCredentialsAreKept.
SavedInv == Broken(faults) \/ FileIsSaved

\* A step that neither writes nor begins to.
LEMMA NothingWritten ==
    ASSUME IInv, FileIsSaved, NEW p \in Processes, NEW s,
           proc' = [proc EXCEPT ![p] = s], saved' = saved,
           file' = file \/ (file'.data = file.data /\ file'.status # "missing"),
           Writer(proc[p]) => Writer(s), KnowsSaved(s)
    PROVE  FileIsSaved'
<1>1. \A q \in Processes : proc'[q] = IF q = p THEN s ELSE proc[q]
  BY DEF IInv
<1>2. \A q \in Processes : KnowsSaved(proc[q])'
  <2> SUFFICES ASSUME NEW q \in Processes PROVE KnowsSaved(proc[q])'
    OBVIOUS
  <2>1. CASE q = p
    BY <1>1, <2>1 DEF KnowsSaved
  <2>2. CASE q # p
    <3>1. proc'[q] = proc[q] /\ KnowsSaved(proc[q])
      BY <1>1, <2>2 DEF FileIsSaved
    <3> QED
      BY <3>1 DEF KnowsSaved
  <2> QED
    BY <2>1, <2>2
<1>3. (\A q \in Processes : ~Writer(proc'[q]))
      => \A q \in Processes : ~Writer(proc[q])
  BY <1>1
<1>4. (\A q \in Processes : ~Writer(proc[q]))' => file.data = saved
  BY <1>3 DEF FileIsSaved, Writer
<1> QED
  BY <1>2, <1>4 DEF FileIsSaved

\* While p holds the lock, nobody else knows, reads or writes anything.
LEMMA SoleHolder ==
    ASSUME IInv, OneAtATime, "stolen" \notin faults, NEW p \in Processes,
           Spends(proc[p]) \/ proc[p].pc = "writing" \/ lock \in {Free, Dead}
    PROVE  \A q \in Processes \ {p} : ~Spends(proc[q]) /\ proc[q].pc # "writing"
  BY NobodyHolds DEF OneAtATime, Spends

\* A step of the only holder after which it writes: what is in the file does not
\* matter.
LEMMA WriteBegins ==
    ASSUME IInv, FileIsSaved, NEW p \in Processes, NEW s,
           proc' = [proc EXCEPT ![p] = s], saved' = saved,
           Writer(s), KnowsSaved(s), file'.status # "missing"
    PROVE  FileIsSaved'
<1>1. \A q \in Processes : proc'[q] = IF q = p THEN s ELSE proc[q]
  BY DEF IInv
<1>2. \A q \in Processes : KnowsSaved(proc[q])'
  <2> SUFFICES ASSUME NEW q \in Processes PROVE KnowsSaved(proc[q])'
    OBVIOUS
  <2>1. CASE q = p
    BY <1>1, <2>1 DEF KnowsSaved
  <2>2. CASE q # p
    <3>1. proc'[q] = proc[q] /\ KnowsSaved(proc[q])
      BY <1>1, <2>2 DEF FileIsSaved
    <3> QED
      BY <3>1 DEF KnowsSaved
  <2> QED
    BY <2>1, <2>2
<1> QED
  BY <1>1, <1>2 DEF FileIsSaved, Writer

\* The only holder has written.
LEMMA WriteEnds ==
    ASSUME IInv, NEW p \in Processes, NEW s,
           \A q \in Processes \ {p} : ~Spends(proc[q])
                 /\ proc[q].pc # "writing",
           proc' = [proc EXCEPT ![p] = s],
           file'.data = saved', file'.status # "missing",
           ~Spends(s), s.pc # "writing"
    PROVE  FileIsSaved'
<1>1. \A q \in Processes : proc'[q] = IF q = p THEN s ELSE proc[q]
  BY DEF IInv
<1>2. \A q \in Processes : ~Spends(proc'[q]) /\ proc'[q].pc # "writing"
  BY <1>1
<1>3. \A q \in Processes : KnowsSaved(proc[q])'
  BY <1>2 DEF KnowsSaved, Spends
<1> QED
  BY <1>3 DEF FileIsSaved

\* Whoever creates the missing file knows that nothing is saved.
LEMMA CreateSaves ==
    ASSUME IInv, FileIsSaved, NEW p \in Processes,
           CreateFile(p, "pc") \/ CreateFile(p, "ref")
    PROVE  Broken(faults') \/ FileIsSaved'
<1>0. proc[p] \in ProcessState /\ KnowsSaved(proc[p])
  BY DEF IInv, FileIsSaved
<1>1. CASE file.status # "missing"
  BY <1>1 DEF CreateFile, Broken
<1>2. CASE file.status = "missing"
  <2>1. file'.data = file.data /\ file'.status # "missing" /\ saved' = saved
    BY <1>2 DEF CreateFile, Whole, FileIsSaved
  <2>2. PICK s : /\ proc' = [proc EXCEPT ![p] = s]
                 /\ KnowsSaved(s) /\ (Writer(proc[p]) => Writer(s))
    <3>1. CASE CreateFile(p, "pc")
      <4> DEFINE s == [proc[p] EXCEPT !.pc = "lock"]
      <4>1. proc' = [proc EXCEPT ![p] = s] /\ proc[p].pc = "create"
        BY <3>1 DEF CreateFile, IInv
      <4>2. s.pc = "lock" /\ s.ref = proc[p].ref /\ s.next = proc[p].next
        BY <1>0 DEF ProcessState
      <4> QED
        BY <1>0, <4>1, <4>2 DEF KnowsSaved, Writer
    <3>2. CASE CreateFile(p, "ref")
      <4> DEFINE s == [proc[p] EXCEPT !.ref = "lock"]
      <4>1. proc' = [proc EXCEPT ![p] = s] /\ proc[p].ref = "create"
        BY <3>2 DEF CreateFile, IInv
      <4>2. s.ref = "lock" /\ s.pc = proc[p].pc /\ s.op = proc[p].op
        BY <1>0 DEF ProcessState
      <4> QED
        BY <1>0, <4>1, <4>2 DEF KnowsSaved, Writer
    <3> QED
      BY <3>1, <3>2
  <2> QED
    BY <2>1, <2>2, NothingWritten
<1> QED
  BY <1>1, <1>2

\* A change reads the file and writes it under one lock; a reload writes
\* nothing.
LEMMA SyncSaves ==
    ASSUME IInv, OneAtATime, FileIsSaved, NEW p \in Processes, Sync(p)
    PROVE  Broken(faults') \/ FileIsSaved'
<1>0. proc[p] \in ProcessState /\ KnowsSaved(proc[p])
  BY DEF IInv, FileIsSaved
<1>1. CASE LockSyncFails(p)
  <2> DEFINE r == Return(proc[p])
             s == IF proc[p].op = NoOp THEN [r EXCEPT !.loadError = TRUE] ELSE r
  <2>1. /\ proc' = [proc EXCEPT ![p] = s] /\ saved' = saved /\ file' = file
        /\ proc[p].pc = "lock"
    BY <1>1 DEF LockSyncFails
  <2>2. /\ s.pc = "idle" /\ s.next = proc[p].next
        /\ s.ref = IF proc[p].ref = "reloading" THEN "idle" ELSE proc[p].ref
    BY <1>0 DEF Return, ProcessState
  <2>3. KnowsSaved(s) /\ (Writer(proc[p]) => Writer(s))
    BY <1>0, <2>1, <2>2 DEF KnowsSaved, Writer
  <2> QED
    BY <2>1, <2>3, NothingWritten
<1>2. CASE ReadForReload(p)
  <2> DEFINE l == Locking(p)
             r == Return(l)
             s == IF file.status = "torn"
                  THEN [r EXCEPT !.loadError = TRUE]
                  ELSE [r EXCEPT !.loadError = FALSE, !.data = file.data]
  <2>1. /\ proc' = [proc EXCEPT ![p] = s] /\ saved' = saved /\ file' = file
        /\ proc[p].pc = "lock"
    BY <1>2 DEF ReadForReload, LockedSync
  <2>2. l \in ProcessState /\ l.ref = proc[p].ref /\ l.next = proc[p].next
    BY <1>0, ZenonT(40) DEF Locking, ProcessState
  <2>3. /\ s.pc = "idle" /\ s.next = proc[p].next
        /\ s.ref = IF proc[p].ref = "reloading" THEN "idle" ELSE proc[p].ref
    BY <2>2 DEF Return, ProcessState
  <2>4. KnowsSaved(s) /\ (Writer(proc[p]) => Writer(s))
    BY <1>0, <2>1, <2>3 DEF KnowsSaved, Writer
  <2> QED
    BY <2>1, <2>4, NothingWritten
<1>3. CASE ReadForChange(p)
  <2> DEFINE l == Locking(p)
             w == [l EXCEPT !.pc = "writing", !.op.all = Merged(p)]
  <2>1. saved' = saved /\ proc[p].pc = "lock"
    BY <1>3 DEF ReadForChange, LockedSync
  <2>2. /\ l \in ProcessState /\ l.ref = proc[p].ref /\ l.next = proc[p].next
        /\ l.op = proc[p].op
    BY <1>0, ZenonT(40) DEF Locking, ProcessState
  <2>3. CASE proc' = [proc EXCEPT ![p] = Return(l)] /\ file' = file
    <3>1. /\ Return(l).pc = "idle" /\ Return(l).next = proc[p].next
          /\ Return(l).ref = IF proc[p].ref
              = "reloading" THEN "idle" ELSE proc[p].ref
      BY <2>2 DEF Return, ProcessState
    <3>2. KnowsSaved(Return(l)) /\ (Writer(proc[p]) => Writer(Return(l)))
      BY <1>0, <2>1, <3>1 DEF KnowsSaved, Writer
    <3> QED
      BY <2>1, <2>3, <3>2, NothingWritten
  <2>4. CASE proc' = [proc EXCEPT ![p] = w] /\ file' = Whole(NoCredentials)
             /\ "stolen" \notin faults'
    <3>1. lock \in {Free, Dead} /\ "stolen" \notin faults
      BY <1>3, <2>4 DEF ReadForChange, LockedSync
    <3>2. \A q \in Processes : ~Spends(proc[q]) /\ proc[q].pc # "writing"
      BY <3>1, NobodyHolds
    <3>3. file.data = saved
      BY <3>2 DEF FileIsSaved, Writer, Spends
    <3>4. /\ w.pc = "writing" /\ w.ref = proc[p].ref
          /\ w.op.kind = proc[p].op.kind /\ w.op.cred = proc[p].op.cred
          /\ w.op.all = Merged(p)
      BY <2>2 DEF ProcessState
    <3>5. KnowsSaved(w) /\ Writer(w)
      BY <3>2, <3>3, <3>4 DEF KnowsSaved, Writer, Spends, Merged
    <3>6. file'.status # "missing"
      BY <2>4 DEF Whole
    <3> QED
      BY <2>1, <2>4, <3>5, <3>6, WriteBegins
  <2> QED
    BY <1>3, <2>3, <2>4 DEF ReadForChange, Broken
<1>4. CASE WriteChange(p)
  <2>1. CASE "stolen" \in faults
    BY <1>4, <2>1 DEF WriteChange, Broken
  <2>2. CASE "stolen" \notin faults
    <3>1. /\ proc' = [proc EXCEPT ![p] = Return(proc[p])]
          /\ proc[p].pc = "writing"
          /\ saved' = [saved EXCEPT ![proc[p].op.kind] = proc[p].op.cred]
          /\ file' = Whole(proc[p].op.all)
      BY <1>4 DEF WriteChange
    <3>2. file'.data = saved' /\ file'.status # "missing"
      BY <1>0, <3>1 DEF Whole, KnowsSaved
    <3>3. \A q \in Processes \ {p} : ~Spends(proc[q]) /\ proc[q].pc # "writing"
      BY <2>2, <3>1, SoleHolder
    <3>4. ~Spends(proc[p])
      BY <2>2, <3>1 DEF OneAtATime, Spends
    <3>5. Return(proc[p]).pc = "idle" /\ ~Spends(Return(proc[p]))
      BY <1>0, <3>4 DEF Return, ProcessState, Spends
    <3> QED
      BY <3>1, <3>2, <3>3, <3>5, WriteEnds
  <2> QED
    BY <2>1, <2>2
<1>5. CASE CreateFile(p, "pc")
  BY <1>5, CreateSaves
<1> QED
  BY <1>1, <1>2, <1>3, <1>4, <1>5 DEF Sync

\* So does a refresh, though it waits for the provider in between.
LEMMA RefreshSaves ==
    ASSUME IInv, OneAtATime, FileIsSaved, NEW p \in Processes, Refresh(p)
    PROVE  Broken(faults') \/ FileIsSaved'
<1>0. proc[p] \in ProcessState /\ KnowsSaved(proc[p])
  BY DEF IInv, FileIsSaved
<1> DEFINE f == Failed(proc[p])
<1>f. KnowsSaved(f)
  <2>1. f.pc \in {"create", "lock"} /\ f.ref = "reloading"
    BY <1>0 DEF Failed, FirstStep, ProcessState
  <2> QED
    BY <2>1 DEF KnowsSaved
<1>1. CASE CreateFile(p, "ref")
  BY <1>1, CreateSaves
<1>2. CASE Lock(p)
  <2>1. /\ proc[p].pc = "idle" /\ proc[p].ref = "lock" /\ ~Writer(proc[p])
        /\ saved' = saved /\ file' = file /\ faults' = faults
        /\ lock \in {Free, Dead}
    BY <1>2 DEF Lock, Idle, Writer, Available
  <2>2. CASE proc' = [proc EXCEPT ![p] = f]
    BY <2>1, <2>2, <1>f, NothingWritten
  <2>3. CASE proc' = [proc EXCEPT ![p].ref = "idle", ![p].data = file.data,
                                  ![p].loadError = FALSE]
    <3> DEFINE s == [proc[p] EXCEPT !.ref = "idle", !.data = file.data,
                                    !.loadError = FALSE]
    <3>1. proc' = [proc EXCEPT ![p] = s]
      BY <2>3 DEF IInv
    <3>2. s.pc = "idle" /\ s.ref = "idle"
      BY <1>0, <2>1 DEF ProcessState
    <3>3. KnowsSaved(s)
      BY <3>2 DEF KnowsSaved
    <3> QED
      BY <2>1, <3>1, <3>3, NothingWritten
  <2>4. CASE proc' = [proc EXCEPT ![p] = Acquired(@)]
    <3> DEFINE s == Acquired(proc[p])
    <3>1. proc' = [proc EXCEPT ![p] = s]
      BY <2>4
    <3>2. s.pc = "idle" /\ s.ref = "refreshing" /\ s.next = file.data
      BY <1>0, <2>1 DEF Acquired, ProcessState
    <3>3. CASE "stolen" \in faults
      BY <2>1, <3>3 DEF Broken
    <3>4. CASE "stolen" \notin faults
      <4>1. \A q \in Processes : ~Spends(proc[q]) /\ proc[q].pc # "writing"
        BY <2>1, <3>4, NobodyHolds
      <4>2. file.data = saved
        BY <4>1 DEF FileIsSaved, Writer, Spends
      <4>3. KnowsSaved(s)
        BY <3>2, <4>2 DEF KnowsSaved
      <4> QED
        BY <2>1, <3>1, <4>3, NothingWritten
    <3> QED
      BY <3>3, <3>4
  <2> QED
    BY <1>2, <2>2, <2>3, <2>4 DEF Lock
<1>3. CASE LockFails(p)
  <2>1. /\ proc' = [proc EXCEPT ![p] = f] /\ ~Writer(proc[p])
        /\ saved' = saved /\ file' = file
    BY <1>3 DEF LockFails, Idle, Writer
  <2> QED
    BY <2>1, <1>f, NothingWritten
<1>4. CASE RefreshSucceeds(p)
  <2> DEFINE merged == [proc[p].next EXCEPT !.oauth = issued + 1]
             w == [proc[p] EXCEPT !.ref = "writing", !.data = merged,
                                  !.next = merged]
             g == [f EXCEPT !.data = merged]
  <2>1. /\ proc[p].pc = "idle" /\ proc[p].ref = "refreshing"
        /\ ~Writer(proc[p]) /\ saved' = saved
    BY <1>4 DEF RefreshSucceeds, Idle, Writer
  <2>2. CASE proc' = [proc EXCEPT ![p] = g] /\ file' = file
    <3>1. g.pc \in {"create", "lock"} /\ g.ref = "reloading"
      BY <1>0 DEF Failed, FirstStep, ProcessState
    <3>2. KnowsSaved(g)
      BY <3>1 DEF KnowsSaved
    <3> QED
      BY <2>1, <2>2, <3>2, NothingWritten
  <2>3. CASE /\ proc' = [proc EXCEPT ![p].ref = "writing", ![p].data = merged,
                                      ![p].next = merged]
             /\ file' = Whole(NoCredentials)
    <3>1. proc' = [proc EXCEPT ![p] = w]
      BY <2>3 DEF IInv
    <3>2. w.pc = "idle" /\ w.ref = "writing" /\ w.next = merged
      BY <1>0, <2>1 DEF ProcessState
    <3>3. proc[p].next = saved /\ saved \in Credentials
      BY <1>0, <2>1 DEF KnowsSaved, IInv, SharedTypes
    <3>4. merged = [saved EXCEPT !.oauth = merged.oauth]
      BY <3>3 DEF Credentials
    <3>5. KnowsSaved(w) /\ Writer(w)
      BY <3>2, <3>4 DEF KnowsSaved, Writer
    <3>6. file'.status # "missing"
      BY <2>3 DEF Whole
    <3> QED
      BY <2>1, <3>1, <3>5, <3>6, WriteBegins
  <2> QED
    BY <1>4, <2>2, <2>3 DEF RefreshSucceeds
<1>5. CASE RefreshFails(p)
  <2>1. /\ proc' = [proc EXCEPT ![p] = f] /\ ~Writer(proc[p])
        /\ saved' = saved /\ file' = file
    BY <1>5 DEF RefreshFails, Idle, Writer
  <2> QED
    BY <2>1, <1>f, NothingWritten
<1>6. CASE WriteRefreshed(p)
  <2> DEFINE s == [proc[p] EXCEPT !.ref = "idle", !.mine = FALSE,
                                  !.next = NoCredentials]
  <2>1. /\ proc[p].ref = "writing" /\ faults' = faults
        /\ saved' = [saved EXCEPT !.oauth = proc[p].next.oauth]
        /\ file' = Whole(proc[p].next)
    BY <1>6 DEF WriteRefreshed
  <2>2. proc' = [proc EXCEPT ![p] = s]
    BY <1>6 DEF WriteRefreshed, IInv
  <2>3. CASE "stolen" \in faults
    BY <2>1, <2>3 DEF Broken
  <2>4. CASE "stolen" \notin faults
    <3>1. file'.data = saved' /\ file'.status # "missing"
      BY <1>0, <2>1 DEF Whole, KnowsSaved
    <3>2. Spends(proc[p])
      BY <2>1 DEF Spends
    <3>3. \A q \in Processes \ {p} : ~Spends(proc[q]) /\ proc[q].pc # "writing"
      BY <2>4, <3>2, SoleHolder
    <3>4. lock = << "async", p >>
      BY <2>4, <3>2 DEF OneAtATime, Spends
    <3>5. proc[p].pc # "writing"
      BY <2>4, <3>4 DEF OneAtATime
    <3>6. ~Spends(s) /\ s.pc # "writing"
      BY <1>0, <3>5 DEF ProcessState, Spends
    <3> QED
      BY <2>2, <3>1, <3>3, <3>6, WriteEnds
  <2> QED
    BY <2>3, <2>4
<1> QED
  BY <1>1, <1>2, <1>3, <1>4, <1>5, <1>6 DEF Refresh

\* A process that starts, or dies, knows nothing.
LEMMA OwnerSaves ==
    ASSUME IInv, FileIsSaved, NEW p \in Processes,
           \/ Start(p) \/ GetApiKey(p) \/ Crash(p) \/ UpdateLock(p)
           \/ Login(p) \/ Logout(p) \/ \E key \in Key : SetKey(p, key)
    PROVE  Broken(faults') \/ FileIsSaved'
<1>0. proc[p] \in ProcessState /\ KnowsSaved(proc[p])
  BY DEF IInv, FileIsSaved
<1>1. CASE Start(p)
  <2> DEFINE s == [Stopped EXCEPT !.up = TRUE, !.pc = FirstStep]
  <2>1. /\ proc' = [proc EXCEPT ![p] = s] /\ saved' = saved /\ file' = file
        /\ ~proc[p].up
    BY <1>1 DEF Start
  <2>2. ~Writer(proc[p])
    BY <2>1 DEF IInv, Consistent, Writer, Stopped
  <2>3. s.pc \in {"create", "lock"} /\ s.ref = "idle"
    BY DEF Stopped, FirstStep
  <2>4. KnowsSaved(s)
    BY <2>3 DEF KnowsSaved
  <2> QED
    BY <2>1, <2>2, <2>4, NothingWritten
<1>2. CASE GetApiKey(p)
  <2> DEFINE s == [proc[p] EXCEPT !.ref = FirstStep]
  <2>1. /\ proc' = [proc EXCEPT ![p] = s] /\ saved' = saved /\ file' = file
        /\ ~Writer(proc[p]) /\ proc[p].pc = "idle"
    BY <1>2 DEF GetApiKey, Idle, Writer, IInv
  <2>2. s.pc = "idle" /\ s.ref \in {"create", "lock"}
    BY <1>0, <2>1 DEF ProcessState, FirstStep
  <2>3. KnowsSaved(s)
    BY <2>2 DEF KnowsSaved
  <2> QED
    BY <2>1, <2>3, NothingWritten
<1>3. CASE Crash(p)
  <2>1. proc' = [proc EXCEPT ![p] = Stopped] /\ saved' = saved
    BY <1>3 DEF Crash
  <2>2. CASE Writing(p)
    BY <1>3, <2>2 DEF Crash, Broken
  <2>3. CASE ~Writing(p)
    <3>1. file' = file /\ ~Writer(proc[p])
      BY <1>3, <2>3 DEF Crash, Writing, Writer
    <3>2. KnowsSaved(Stopped)
      BY DEF KnowsSaved, Stopped
    <3> QED
      BY <2>1, <3>1, <3>2, NothingWritten
  <2> QED
    BY <2>2, <2>3
<1>4. CASE UpdateLock(p)
  <2>1. saved' = saved /\ file' = file /\ ~Writer(proc[p])
    BY <1>4 DEF UpdateLock, Idle, Writer
  <2>2. CASE proc' = proc
    BY <2>1, <2>2 DEF FileIsSaved, KnowsSaved
  <2>3. CASE proc' = [proc EXCEPT ![p].noticed = TRUE, ![p].mine = FALSE]
    <3> DEFINE s == [proc[p] EXCEPT !.noticed = TRUE, !.mine = FALSE]
    <3>1. proc' = [proc EXCEPT ![p] = s]
      BY <2>3 DEF IInv
    <3>2. /\ s.pc = proc[p].pc /\ s.ref = proc[p].ref /\ s.next = proc[p].next
          /\ s.op = proc[p].op
      BY <1>0 DEF ProcessState
    <3>3. KnowsSaved(s)
      BY <1>0, <3>2 DEF KnowsSaved
    <3> QED
      BY <2>1, <3>1, <3>3, NothingWritten
  <2> QED
    BY <1>4, <2>2, <2>3 DEF UpdateLock
<1>5. ASSUME NEW kind \in {"oauth", "key"}, NEW cred, Change(p, kind, cred)
      PROVE  FileIsSaved'
  <2> DEFINE s == Changed(proc[p], kind, cred)
  <2>1. /\ proc' = [proc EXCEPT ![p] = s] /\ saved' = saved /\ file' = file
        /\ ~Writer(proc[p]) /\ proc[p].pc = "idle"
    BY <1>5 DEF Change, Idle, Writer
  <2>2. s.pc # "writing" /\ s.ref = proc[p].ref /\ s.next = proc[p].next
    BY <1>0, <2>1 DEF Changed, ProcessState, FirstStep
  <2>3. KnowsSaved(s)
    BY <1>0, <2>2 DEF KnowsSaved
  <2> QED
    BY <2>1, <2>3, NothingWritten
<1>6. CASE Login(p)
  BY <1>5, <1>6 DEF Login
<1>7. CASE Logout(p)
  BY <1>5, <1>7 DEF Logout
<1>8. CASE \E key \in Key : SetKey(p, key)
  BY <1>5, <1>8 DEF SetKey
<1> QED
  BY <1>1, <1>2, <1>3, <1>4, <1>6, <1>7, <1>8

\* SavedInv is inductive, given mutual exclusion.
LEMMA SavedInvStep ==
    ASSUME IInv, OneAtATime, SavedInv, [Next]_vars
    PROVE  SavedInv'
<1>1. CASE Broken(faults)
  BY <1>1, ZenonT(40)
  DEF SavedInv, Broken, Next, Sync, Refresh, vars, provider, bounded,
     Start, GetApiKey, Crash, CreateFile, LockedSync, LockSyncFails,
     ReadForReload, ReadForChange, WriteChange, Lock, LockFails,
     RefreshSucceeds, RefreshFails, WriteRefreshed, UpdateLock, Login, Logout,
     SetKey, Change, TokenExpires, LockAges
<1>2. CASE FileIsSaved
  <2>1. ASSUME NEW p \in Processes, Sync(p) \/ Refresh(p)
        PROVE  Broken(faults') \/ FileIsSaved'
    BY <1>2, <2>1, SyncSaves, RefreshSaves
  <2>2. CASE (\E t \in Token : TokenExpires(t)) \/ LockAges \/ UNCHANGED vars
    <3>1. file' = file /\ saved' = saved /\ proc' = proc
      BY <2>2 DEF TokenExpires, LockAges, vars
    <3>2. \A p \in Processes : KnowsSaved(proc[p])'
      <4>1. \A p \in Processes : KnowsSaved(proc[p])
        BY <1>2 DEF FileIsSaved
      <4> QED
        BY <3>1, <4>1 DEF KnowsSaved
    <3>3. FileIsSaved'
      BY <1>2, <3>1, <3>2 DEF FileIsSaved
    <3> QED
      BY <3>3 DEF SavedInv
  <2> QED
    BY <1>2, <2>1, <2>2, OwnerSaves DEF Next, SavedInv
<1> QED
  BY <1>1, <1>2 DEF SavedInv

\* No update of auth.json is lost: while nobody writes, the file holds what
\* was last reported as saved for each provider, unless a lock was taken
\* away, two processes created the file, or one died while it wrote.
THEOREM SavedCredentials == Spec => []SavedCredentialsAreKept
<1>1. Init => IInv /\ OneAtATime /\ SavedInv
  <2> SUFFICES ASSUME Init PROVE IInv /\ OneAtATime /\ SavedInv
    OBVIOUS
  <2>1. IInv
    BY InitIInv
  <2>2. \A p \in Processes : proc[p] = Stopped
    BY DEF Init
  <2>3. OneAtATime
    BY <2>2 DEF OneAtATime, Stopped
  <2>4. file.data = saved
    BY DEF Init, NoCredentials, Whole
  <2>5. file.status = "missing" => file.data = NoCredentials
    BY DEF Init, Whole
  <2>6. \A p \in Processes : KnowsSaved(proc[p])
    BY <2>2 DEF KnowsSaved, Stopped
  <2> QED
    BY <2>1, <2>3, <2>4, <2>5, <2>6 DEF SavedInv, FileIsSaved
<1>2. /\ IInv /\ OneAtATime /\ SavedInv /\ [Next]_vars
      => IInv' /\ OneAtATime' /\ SavedInv'
  BY IInvStep, OneAtATimeStep, SavedInvStep
<1>3. SavedInv => SavedCredentialsAreKept
  BY DEF SavedInv, Broken, FileIsSaved, Writer, Writing, SavedCredentialsAreKept
<1> QED
  BY <1>1, <1>2, <1>3, PTL DEF Spec
=============================================================================
