------------------------------ MODULE AuthStorage ------------------------------
(***************************************************************************)
(* AuthStorage with its FileAuthStorageBackend (packages/coding-agent/src/ *)
(* core/auth-storage.ts): several processes share the credentials of       *)
(* auth.json.  Changes by set(), remove() and login() and every reload()   *)
(* are synchronous and block the process; the refresh of an expired OAuth  *)
(* token awaits the network.  Both take the lock of proper-lockfile, a     *)
(* directory beside the file (external).                                   *)
(*                                                                         *)
(* There is one OAuth provider, whose tokens are numbered as they are      *)
(* issued, and one with API keys; 0 stands for no credential.  A refresh   *)
(* token can be used once: live are the tokens the provider would still    *)
(* accept.                                                                 *)
(***************************************************************************)
EXTENDS Naturals, FiniteSets

CONSTANTS
    Processes,       \* running the coding agent on one auth.json
    MaxTokens,       \* bound: tokens ever issued
    MaxKeys,         \* API keys there are
    MaxChanges,      \* bound: changes made by set(), remove() and login()
    MaxCrashes       \* bound: processes that die

ASSUME AuthStorageAssumption ==
    /\ MaxTokens \in Nat \ {0} /\ MaxKeys \in Nat
    /\ MaxChanges \in Nat /\ MaxCrashes \in Nat

VARIABLES
    file,           \* auth.json
    lock, lockOld,  \* its lock, and whether it looks stale to lockSync
    issued, live, expired,  \* the provider (external), and time
    proc,           \* of each process: its AuthStorage and where it is
    changes, crashes,
    saved, faults   \* history

provider == << issued, live, expired >>
bounded  == << changes, crashes >>
vars == << file, lock, lockOld, provider, proc, bounded, saved, faults >>

Token == 0..MaxTokens
Key   == 0..MaxKeys
Credentials   == [oauth : Token, key : Key]
NoCredentials == [oauth |-> 0, key |-> 0]

\* An empty file is parsed like one without credentials.
File   == [status : {"missing", "whole", "torn"}, data : Credentials]
Whole(d) == [status |-> "whole", data |-> d]

Free == << "free", "nobody" >>
Dead == << "dead", "nobody" >>  \* left behind by a process that died

NoOp == [kind |-> "reload", cred |-> 0, all |-> NoCredentials]

\* pc: where a synchronous operation is; ref: where getApiKey is.
\* op: the change under way, and all that is written for it; next: the same of
\* a refresh; mine: release() will remove the lock;
\* noticed: onCompromised was called.
Stopped == [up |-> FALSE, data |-> NoCredentials, loadError |-> FALSE,
            pc |-> "idle", op |-> NoOp,
            ref |-> "idle", next |-> NoCredentials,
            mine |-> FALSE, noticed |-> FALSE]

\* The event loop of a process runs one thing at a time.
Idle(p) == /\ proc[p].up /\ proc[p].pc = "idle"
           /\ proc[p].ref \notin {"create", "writing"}

Writing(p) == proc[p].pc = "writing" \/ proc[p].ref = "writing"

Init ==
    /\ \E oauth \in {0, 1} :
          /\ file = IF oauth = 0
                    THEN [status |-> "missing", data |-> NoCredentials]
                    ELSE Whole([oauth |-> 1, key |-> 0])
          /\ saved = [oauth |-> oauth, key |-> 0]
    /\ lock = Free /\ lockOld = FALSE
    /\ issued = 1 /\ live = {1} /\ expired = {}
    /\ proc = [p \in Processes |-> Stopped]
    /\ changes = 0 /\ crashes = 0 /\ faults = {}
-----------------------------------------------------------------------------
\* ensureFileExists looks, without the lock, ...
FirstStep == IF file.status = "missing" THEN "create" ELSE "lock"

\* Mutant of Return: the getApiKey that reloads does not go on.
ReturnOnly(s) == [s EXCEPT !.pc = "idle", !.op = NoOp]

\* A synchronous operation has ended; so has a getApiKey that ran it.
Return(s) == [s EXCEPT !.pc = "idle", !.op = NoOp,
                       !.ref = IF @ = "reloading" THEN "idle" ELSE @]

\* AuthStorage.create: the constructor reloads.
Start(p) ==
    /\ ~proc[p].up
    /\ proc' = [proc EXCEPT ![p] =
                  [Stopped EXCEPT !.up = TRUE, !.pc = FirstStep]]
    /\ UNCHANGED << file, lock, lockOld, provider, bounded, saved, faults >>

\* set(), remove() and login(): the copy in memory changes at once, the file
\* only if it could be read when it was last tried.
Changed(s, kind, cred) ==
    LET unsaved == [s EXCEPT !.data[kind] = cred]
    IN  IF s.loadError THEN unsaved
        ELSE [unsaved EXCEPT !.op = [NoOp EXCEPT !.kind = kind, !.cred = cred],
                             !.pc = FirstStep]

Change(p, kind, cred) ==
    /\ Idle(p)
    /\ changes < MaxChanges /\ changes' = changes + 1
    /\ proc[p].data[kind] # cred
    /\ proc' = [proc EXCEPT ![p] = Changed(@, kind, cred)]
    /\ UNCHANGED << file, lock, lockOld, expired, crashes, saved, faults >>

SetKey(p, key) == Change(p, "key", key) /\ UNCHANGED << issued, live >>

Logout(p) == Change(p, "oauth", 0) /\ UNCHANGED << issued, live >>

Login(p) ==
    /\ issued + 1 \in Token
    /\ issued' = issued + 1 /\ live' = live \cup {issued + 1}
    /\ Change(p, "oauth", issued + 1)

\* getApiKey with an expired token: refreshOAuthTokenWithLock.
GetApiKey(p) ==
    /\ Idle(p) /\ proc[p].ref = "idle"
    /\ proc[p].data.oauth \in expired
    /\ proc' = [proc EXCEPT ![p].ref = FirstStep]
    /\ UNCHANGED << file, lock, lockOld, provider, bounded, saved, faults >>

\* ... and creates what was missing, whatever is there by now; at is "pc" or
\* "ref".
CreateFile(p, at) ==
    /\ proc[p][at] = "create"
    /\ file' = Whole(NoCredentials)
    /\ proc' = [proc EXCEPT ![p][at] = "lock"]
    /\ faults' = IF file.status = "missing" THEN faults
                                            ELSE faults \cup {"recreated"}
    /\ UNCHANGED << lock, lockOld, provider, bounded, saved >>
-----------------------------------------------------------------------------
\* acquireLockSyncWithRetry: a lock that is 10 seconds old counts as stale, so
\* it also takes the lock of a process that has died, or of a slow refresh.
LockedSync(p) ==
    /\ proc[p].pc = "lock"
    /\ lock = Free \/ lockOld
    /\ lockOld' = FALSE
    /\ faults' = IF lock \in {Free, Dead} THEN faults
                                          ELSE faults \cup {"stolen"}

\* A process that takes the lock of its own refresh will not release it again.
Locking(p) == IF lock = << "async", p >> THEN [proc[p] EXCEPT !.mine = FALSE]
                                         ELSE proc[p]

\* Ten attempts have failed.  A reload remembers it, a change stays in memory.
LockSyncFails(p) ==
    /\ proc[p].pc = "lock"
    /\ lock # Free /\ ~lockOld
    /\ proc' = [proc EXCEPT ![p] =
                  IF @.op = NoOp THEN [Return(@) EXCEPT !.loadError = TRUE]
                                 ELSE Return(@)]
    /\ UNCHANGED << file, lock, lockOld, provider, bounded, saved, faults >>

\* reload().
ReadForReload(p) ==
    /\ LockedSync(p) /\ proc[p].op = NoOp
    /\ lock' = Free
    /\ proc' = [proc EXCEPT ![p] =
                  IF file.status = "torn"
                  THEN [Return(Locking(p)) EXCEPT !.loadError = TRUE]
                  ELSE [Return(Locking(p)) EXCEPT !.loadError = FALSE,
                                                  !.data = file.data]]
    /\ UNCHANGED << file, provider, bounded, saved >>

\* Mutant of Merged: what the process has in memory is written.
MergedFromMemory(p) ==
    [proc[p].data EXCEPT ![proc[p].op.kind] = proc[p].op.cred]

\* persistProviderChange: the change, merged into what the file holds.
Merged(p) == [file.data EXCEPT ![proc[p].op.kind] = proc[p].op.cred]

\* writeFileSync truncates before it writes.
ReadForChange(p) ==
    /\ LockedSync(p) /\ proc[p].op # NoOp
    /\ \/ /\ file.status = "torn"
          /\ proc' = [proc EXCEPT ![p] = Return(Locking(p))]
          /\ lock' = Free
          /\ UNCHANGED file
       \/ /\ file.status # "torn"
          /\ proc' = [proc EXCEPT ![p] = [Locking(p) EXCEPT !.pc = "writing",
                                                     !.op.all = Merged(p)]]
          /\ file' = Whole(NoCredentials)
          /\ lock' = << "sync", p >>
    /\ UNCHANGED << provider, bounded, saved >>

WriteChange(p) ==
    /\ proc[p].pc = "writing"
    /\ file' = Whole(proc[p].op.all)
    /\ saved' = [saved EXCEPT ![proc[p].op.kind] = proc[p].op.cred]
    /\ proc' = [proc EXCEPT ![p] = Return(@)]
    /\ lock' = Free /\ lockOld' = FALSE
    /\ UNCHANGED << provider, bounded, faults >>
-----------------------------------------------------------------------------
\* release() of lockfile.lock removes the lock, whose ever it is by now, unless
\* the process knows that it has lost it.
Release(p) == IF proc[p].mine THEN lock' = Free /\ lockOld' = FALSE
                              ELSE UNCHANGED << lock, lockOld >>

\* The refresh threw; getApiKey reads the file once more.
Failed(s) == [s EXCEPT !.ref = "reloading", !.pc = FirstStep,
                       !.next = NoCredentials,
                       !.mine = FALSE, !.noticed = FALSE]

\* Mutant of Available: stale after ten seconds, as for lockSync.
AvailableIfOld == lock = Free \/ lockOld

\* lockfile.lock takes a free lock, or one that nobody has touched for thirty
\* seconds: a live holder touches its lock every fifteen.
Available == lock = Free \/ (lock = Dead /\ lockOld)

\* Mutant of Acquired: the token is refreshed without a look at the file.
AcquiredWithoutReading(s) ==
    [s EXCEPT !.ref = "refreshing", !.next = s.data, !.mine = TRUE]

\* The token in the file has expired: what the file holds is also kept in
\* memory, and the request is sent.
Acquired(s) ==
    [s EXCEPT !.ref = "refreshing", !.next = file.data, !.mine = TRUE,
              !.data = file.data, !.loadError = FALSE]

\* The file is read again under the lock.  It cannot be parsed, or it shows
\* a token that another process has refreshed meanwhile, or none.
Lock(p) ==
    /\ Idle(p) /\ proc[p].ref = "lock"
    /\ Available
    /\ lockOld' = FALSE
    /\ \/ /\ file.status = "torn"
          /\ proc' = [proc EXCEPT ![p] = Failed(@)]
          /\ lock' = Free
       \/ /\ file.status # "torn" /\ file.data.oauth \notin expired
          /\ proc' = [proc EXCEPT ![p].ref = "idle", ![p].data = file.data,
                                  ![p].loadError = FALSE]
          /\ lock' = Free
       \/ /\ file.status # "torn" /\ file.data.oauth \in expired
          /\ proc' = [proc EXCEPT ![p] = Acquired(@)]
          /\ lock' = << "async", p >>
    /\ UNCHANGED << file, provider, bounded, saved, faults >>

\* Mutant of LockFails: lockfile.lock waits for a dead holder without end.
LockFailsIfAlive(p) ==
    /\ Idle(p) /\ proc[p].ref = "lock"
    /\ lock \notin {Free, Dead}
    /\ proc' = [proc EXCEPT ![p] = Failed(@)]
    /\ UNCHANGED << file, lock, lockOld, provider, bounded, saved, faults >>

\* Ten retries have failed.
LockFails(p) ==
    /\ Idle(p) /\ proc[p].ref = "lock"
    /\ lock # Free
    /\ proc' = [proc EXCEPT ![p] = Failed(@)]
    /\ UNCHANGED << file, lock, lockOld, provider, bounded, saved, faults >>

\* The holder touches its lock every fifteen seconds, if it still has it.
UpdateLock(p) ==
    /\ Idle(p) /\ proc[p].ref = "refreshing" /\ ~proc[p].noticed
    /\ \/ /\ lock = << "async", p >>
          /\ lockOld' = FALSE
          /\ UNCHANGED proc
       \/ /\ lock # << "async", p >>
          /\ proc' = [proc EXCEPT ![p].noticed = TRUE, ![p].mine = FALSE]
          /\ UNCHANGED lockOld
    /\ UNCHANGED << file, lock, provider, bounded, saved, faults >>

\* The provider accepts the token and issues another.
Rotate(t) ==
    /\ t \in live /\ issued + 1 \in Token
    /\ issued' = issued + 1
    /\ live' = (live \ {t}) \cup {issued + 1}
    /\ UNCHANGED expired

\* The new token is merged into what was read under the lock and written,
\* unless the lock is known to be lost.
RefreshSucceeds(p) ==
    /\ Idle(p) /\ proc[p].ref = "refreshing"
    /\ Rotate(proc[p].next.oauth)
    /\ LET merged == [proc[p].next EXCEPT !.oauth = issued + 1]
       IN  \/ /\ ~proc[p].noticed
              /\ file' = Whole(NoCredentials)
              /\ proc' = [proc EXCEPT ![p].ref = "writing", ![p].data = merged,
                                      ![p].next = merged]
              /\ UNCHANGED << lock, lockOld, faults >>
           \/ /\ proc[p].noticed
              /\ faults' = faults \cup {"rotationLost"}
              /\ proc' = [proc EXCEPT ![p] = [Failed(@) EXCEPT !.data = merged]]
              /\ UNCHANGED << file, lock, lockOld >>
    /\ UNCHANGED << bounded, saved >>

\* No answer, or a refusal; the provider may have issued a token all the same.
RefreshFails(p) ==
    /\ Idle(p) /\ proc[p].ref = "refreshing"
    /\ \/ UNCHANGED << provider, faults >>
       \/ Rotate(proc[p].next.oauth) /\ faults' = faults \cup {"rotationLost"}
    /\ Release(p)
    /\ proc' = [proc EXCEPT ![p] = Failed(@)]
    /\ UNCHANGED << file, bounded, saved >>

WriteRefreshed(p) ==
    /\ proc[p].ref = "writing"
    /\ file' = Whole(proc[p].next)
    /\ saved' = [saved EXCEPT !.oauth = proc[p].next.oauth]
    /\ Release(p)
    /\ proc' = [proc EXCEPT ![p].ref = "idle", ![p].mine = FALSE,
                            ![p].next = NoCredentials]
    /\ UNCHANGED << provider, bounded, faults >>
-----------------------------------------------------------------------------
\* Time passes: an access token expires; a lock that is not touched looks old.
TokenExpires(t) ==
    /\ t \in live \ expired
    /\ expired' = expired \cup {t}
    /\ UNCHANGED << file, lock, lockOld, issued, live, proc, bounded, saved,
                    faults >>

LockAges ==
    /\ lock = Dead \/ \E p \in Processes : lock = << "async", p >>
    /\ ~lockOld /\ lockOld' = TRUE
    /\ UNCHANGED << file, lock, provider, proc, bounded, saved, faults >>

\* What p is writing.
Written(p) == IF proc[p].pc = "writing" THEN proc[p].op.all ELSE proc[p].next

\* A process dies anywhere.  Its lock stays; what it was writing is empty, a
\* beginning that cannot be parsed, or complete, the lock not yet released.
Crash(p) ==
    /\ proc[p].up /\ crashes < MaxCrashes
    /\ crashes' = crashes + 1
    /\ proc' = [proc EXCEPT ![p] = Stopped]
    /\ lock' = IF lock \in {"sync", "async"} \X {p} THEN Dead ELSE lock
    /\ \/ UNCHANGED file
       \/ Writing(p) /\ file' \in {[file EXCEPT !.status = "torn"],
                                   Whole(Written(p))}
    /\ faults' = IF Writing(p) THEN faults \cup {"torn"} ELSE faults
    /\ UNCHANGED << lockOld, provider, changes, saved >>

Sync(p) ==
    \/ CreateFile(p, "pc") \/ LockSyncFails(p)
    \/ ReadForReload(p) \/ ReadForChange(p) \/ WriteChange(p)

Refresh(p) ==
    \/ CreateFile(p, "ref") \/ Lock(p) \/ LockFails(p)
    \/ RefreshSucceeds(p) \/ RefreshFails(p) \/ WriteRefreshed(p)

Next ==
    \/ \E p \in Processes :
          \/ Start(p) \/ GetApiKey(p) \/ Crash(p)
          \/ Sync(p) \/ Refresh(p) \/ UpdateLock(p)
          \/ Login(p) \/ Logout(p) \/ \E key \in Key : SetKey(p, key)
    \/ \E t \in Token : TokenExpires(t)
    \/ LockAges

\* Operations go on: synchronous ones by themselves, lockfile.lock stops trying
\* after ten retries, and a request to the provider ends.
Fairness == \A p \in Processes : WF_vars(Sync(p)) /\ WF_vars(Refresh(p))

Spec == Init /\ [][Next]_vars /\ Fairness
-----------------------------------------------------------------------------
\* What a process holds, one field per piece of the code's state.
ProcessState ==
    [up : BOOLEAN, data : Credentials, loadError : BOOLEAN,
     pc : {"idle", "create", "lock", "writing"},
     op : [kind : {"reload", "oauth", "key"}, cred : Token \cup Key,
           all : Credentials],
     ref : {"idle", "create", "lock", "refreshing", "writing", "reloading"},
     next : Credentials, mine : BOOLEAN, noticed : BOOLEAN]

\* The variables have their types, and a process that believes to hold the lock
\* is in one of the places that the lock protects.
TypeOK ==
    /\ file \in File
    /\ lock \in {Free, Dead} \cup ({"sync", "async"} \X Processes)
    /\ lockOld \in BOOLEAN
    /\ issued \in Token /\ live \subseteq 1..issued
    /\ expired \subseteq 1..issued
    /\ proc \in [Processes -> ProcessState]
    /\ changes \in 0..MaxChanges /\ crashes \in 0..MaxCrashes
    /\ saved \in Credentials
    /\ faults \subseteq {"stolen", "recreated", "torn", "rotationLost"}
    /\ \A p \in Processes :
          /\ proc[p].mine => proc[p].ref \in {"refreshing", "writing"}
          /\ proc[p].ref = "reloading" => proc[p].pc # "idle"
          /\ lock = << "sync", p >> => proc[p].pc = "writing"

\* Two processes never spend the same refresh token, and no process reads or
\* writes the file under another's lock - except after a synchronous operation
\* took the lock from a refresh that was slow.
OneAtATime ==
    "stolen" \in faults \/
    \A p \in Processes :
        /\ proc[p].ref \in {"refreshing", "writing"} => lock = << "async", p >>
        /\ proc[p].pc = "writing" => lock = << "sync", p >>

\* No update is lost: while nobody is writing, the file holds what was last
\* reported as saved for each provider, whichever process saved it.  It may not
\* after a lock was taken away, after two processes created the file, or after a
\* process died while it wrote.
SavedCredentialsAreKept ==
    \/ faults \cap {"stolen", "recreated", "torn"} # {}
    \/ \E p \in Processes : Writing(p)
    \/ file.data = saved

\* The token in the file can be refreshed: no rotation is forgotten, and none
\* overwritten by an older one, by whichever process and wherever processes die.
\* The exceptions are a lock that was taken away, and answers of the provider
\* that are lost, or come when the lock is known to be gone.
StoredTokenIsUsable ==
    \/ faults \cap {"stolen", "rotationLost"} # {}
    \/ \E p \in Processes : Writing(p)
    \/ file.data.oauth \in live \cup {0}

\* Every getApiKey ends, though other processes may refresh, hold the lock, die
\* with it, or leave the file torn.
GetApiKeySettles == \A p \in Processes : []<>(proc[p].ref = "idle")
=============================================================================
