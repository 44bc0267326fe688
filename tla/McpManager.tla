------------------------------ MODULE McpManager ------------------------------
(***************************************************************************)
(* McpManager and McpConnection (packages/coding-agent/src/core/mcp,       *)
(* manager.ts and connection.ts): the connections to MCP servers that tool *)
(* calls share.  Servers are keyed by name and do not touch each other, so *)
(* the model has one name.  Its configuration may change (/reload), its    *)
(* connection may be closed by the user, by the idle timer or by the end   *)
(* of the session, and its server may die, all while calls are under way.  *)
(*                                                                         *)
(* A connection starts a new client (a server process, or a session with a *)
(* remote server) each time it connects.  Connections and clients are      *)
(* numbered as they are created; 0 stands for undefined.  Every await of   *)
(* the code is a place where another action may come between.              *)
(***************************************************************************)
EXTENDS Naturals, FiniteSets

CONSTANTS
    MaxCalls,     \* bound: calls ever made
    MaxReloads,   \* bound: reloads, and the end of the session
    MaxClients,   \* bound: clients at one time
    Entries,      \* configurations of the server
    HttpEntries,  \* those with a url; the others start a command
    Kinds,        \* what calls ask for
    IdleTimeout   \* is idleTimeoutMs above zero?

NoEntry == "no entry"

ASSUME McpManagerAssumption ==
    /\ MaxCalls \in Nat /\ MaxReloads \in Nat /\ MaxClients \in Nat
    /\ HttpEntries \subseteq Entries
    /\ NoEntry \notin Entries
    /\ Kinds \subseteq {"callTool", "readResource", "refresh"}
    /\ IdleTimeout \in BOOLEAN

VARIABLES
    config, reloads, disposed,  \* McpManager: the entry in force
    connection, inflight,       \* its two maps, for the one name
    mcp,                        \* McpConnections: entry, state, client, timer
    life,                       \* of each client (external)
    closes,                     \* close() calls that await the client
    call                        \* what each call asks for, and how far it is

managerVars == << config, reloads, disposed >>
mapVars     == << connection, inflight >>
vars == << managerVars, mapVars, mcp, life, closes, call >>

\* A connection is created when there is none, at first and after each change of
\* the configuration or the end of the session.  A client that is gone and
\* that nothing refers to is as good as new: its number is used again.
Call   == 1..MaxCalls
Conn   == 1..(MaxReloads + 1)
Client == 1..MaxClients

Starting   == {"starting", "startingSse"}
Listing    == {"listTools", "listResources"}
Connecting == {"dropping"} \cup Starting \cup Listing
Over       == {"done", "failed"}
Active(c)  == call[c].pc \notin Over \cup {"none"}

\* A call that does not run has no locals.  since is history: the entries in
\* force since the call began.
Idle(pc) == [pc |-> pc, kind |-> "none", conn |-> 0, request |-> 0,
             tries |-> 0, since |-> {}]

\* late and overtaken are history: dropped while an attempt was under way, and
\* closed by a close() that began before its present client was connected.
NewMcp(e) == [entry |-> e, state |-> "disconnected", client |-> 0,
              timer |-> FALSE, late |-> FALSE, overtaken |-> FALSE]

IsConnected(n) == mcp[n].state = "connected" /\ mcp[n].client # 0
NewConnection  ==
    1 + Cardinality({n \in Conn : mcp[n].entry # NoEntry})
Unused(k) ==
    /\ life[k] = "gone"
    /\ \A n \in Conn : mcp[n].client # k
    /\ \A r \in closes : r.client # k
    /\ \A c \in Call : call[c].request # k
NewClient == CHOOSE k \in Client : Unused(k)
Closing(k) == IF life[k] = "gone" THEN "gone" ELSE "closing"

Init ==
    /\ config \in Entries
    /\ reloads = 0 /\ disposed = FALSE
    /\ connection = 0 /\ inflight = 0
    /\ mcp = [n \in Conn |-> NewMcp(NoEntry)]
    /\ life = [k \in Client |-> "gone"]
    /\ closes = {}
    /\ call = [c \in Call |-> Idle("none")]
-----------------------------------------------------------------------------
\* McpConnection.startClient: this.client is set only when it has connected.
StartClient(n, locals) ==
    /\ \E k \in Client : Unused(k)  \* the bound MaxClients
    /\ life' = [life EXCEPT ![NewClient] = "starting"]
    /\ call' = [call EXCEPT ![inflight'] =
                  [locals EXCEPT !.conn = n, !.request = NewClient,
                                 !.pc = "starting"]]

\* McpConnection.connect up to its first await: what is left of an earlier
\* client is closed before a new one starts.
Connect(n, e, locals) ==
    \/ /\ mcp[n].client = 0
       /\ StartClient(n, locals)
       /\ mcp' = [mcp EXCEPT ![n].entry = IF @ = NoEntry THEN e ELSE @,
                             ![n].state = "connecting"]
    \/ LET k == mcp[n].client
       IN  /\ k # 0
           /\ life' = [life EXCEPT ![k] = Closing(k)]
           /\ mcp' = [mcp EXCEPT ![n].client = 0]
           /\ call' = [call EXCEPT ![inflight'] =
                         [locals EXCEPT !.conn = n, !.request = k,
                                        !.pc = "dropping"]]

\* McpManager.ensureConnected up to its first await: the live connection, the
\* attempt of another call, or an attempt of its own.
EnsureConnected(c, locals) ==
    \/ /\ config = NoEntry  \* throws: unknown server
       /\ call' = [call EXCEPT ![c] = Idle("failed")]
       /\ UNCHANGED << mapVars, mcp, life >>
    \/ /\ config # NoEntry
       /\ connection # 0 /\ IsConnected(connection)
       /\ call' = [call EXCEPT ![c] =
                     [locals EXCEPT !.pc = "connected", !.conn = connection,
                                    !.request = 0]]
       /\ UNCHANGED << mapVars, mcp, life >>
    \/ /\ config # NoEntry
       /\ connection # 0 => ~IsConnected(connection)
       /\ inflight # 0
       /\ call' = [call EXCEPT ![c] =
                     [locals EXCEPT !.pc = "joined", !.conn = 0,
                                    !.request = 0]]
       /\ UNCHANGED << mapVars, mcp, life >>
    \/ /\ config # NoEntry
       /\ connection # 0 => ~IsConnected(connection)
       /\ inflight = 0 /\ inflight' = c
       /\ connection' = IF connection # 0 THEN connection ELSE NewConnection
       /\ Connect(connection', config, locals)

\* callTool, readResource or refreshServer (ensureConnected by itself is the
\* beginning of each).
Begin(c, kind) ==
    /\ ~disposed
    /\ c = 1 + Cardinality({d \in Call : call[d].pc # "none"})
    /\ EnsureConnected(c, [Idle("none") EXCEPT !.kind = kind, !.tries = 1,
                                               !.since = {config}])
    /\ UNCHANGED << managerVars, closes >>

\* Mutants of Settle: a failed attempt stays in inflightConnects; the calls
\* that joined the attempt are not told.
SettleKeepsFailed(c, ok) ==
    /\ inflight' = IF ok THEN 0 ELSE inflight
    /\ call' = [d \in Call |->
                  IF d # c /\ call[d].pc # "joined" THEN call[d]
                  ELSE IF ~ok THEN Idle("failed")
                  ELSE [call[d] EXCEPT !.pc = "connected",
                                       !.conn = call[c].conn, !.request = 0]]
SettleForOwner(c, ok) ==
    /\ inflight' = 0
    /\ call' = [call EXCEPT ![c] =
                  IF ok THEN [@ EXCEPT !.pc = "connected", !.request = 0]
                        ELSE Idle("failed")]

\* The promise of an attempt settles: its owner takes it out of
\* inflightConnects, and every call that joined it goes on with it.
Settle(c, ok) ==
    /\ inflight' = 0
    /\ call' = [d \in Call |->
                  IF d # c /\ call[d].pc # "joined" THEN call[d]
                  ELSE IF ~ok THEN Idle("failed")
                  ELSE [call[d] EXCEPT !.pc = "connected",
                                       !.conn = call[c].conn, !.request = 0]]
-----------------------------------------------------------------------------
\* McpConnection.connect: the earlier client is closed, the new one starts.
Dropped(c) ==
    /\ call[c].pc = "dropping" /\ life[call[c].request] = "gone"
    /\ UNCHANGED inflight
    /\ StartClient(call[c].conn, call[c])
    /\ mcp' = [mcp EXCEPT ![call[c].conn].state = "connecting"]
    /\ UNCHANGED << managerVars, connection, closes >>

\* McpConnection.touch: the idle timer starts again.
Touched(n) == [mcp EXCEPT ![n].timer = IdleTimeout]

\* The client is connected; refreshMetadata asks for the tools.
ConnectSucceeds(c) ==
    /\ call[c].pc \in Starting
    /\ LET n == call[c].conn
           k == call[c].request
       IN  /\ life' = [life EXCEPT ![k] = "open"]
           /\ mcp' = [mcp EXCEPT ![n].client = k, ![n].state = "connected",
                                 ![n].timer = IdleTimeout,
                                 ![n].overtaken = FALSE]
    /\ call' = [call EXCEPT ![c].pc = "listTools"]
    /\ UNCHANGED << managerVars, mapVars, closes >>

\* connectHttp: a remote server that does not speak streamable HTTP (and did
\* not answer 401) is tried once more over SSE, with a client of its own.
FallBackToSse(c) ==
    /\ call[c].pc = "starting" /\ mcp[call[c].conn].entry \in HttpEntries
    /\ call' = [call EXCEPT ![c].pc = "startingSse"]
    /\ UNCHANGED << managerVars, mapVars, mcp, life, closes >>

\* The client does not connect (its own connect closes it); connect() and with
\* it the attempt fails.
ConnectFails(c) ==
    /\ call[c].pc \in Starting
    /\ life' = [life EXCEPT ![call[c].request] = "gone"]
    /\ mcp' = [mcp EXCEPT ![call[c].conn].state = "error"]
    /\ Settle(c, FALSE)
    /\ UNCHANGED << managerVars, connection, closes >>

\* refreshMetadata is over: inside an attempt, which then settles, or at the
\* end of a call of refreshServer.
RefreshEnds(c, ok) ==
    \/ inflight = c /\ Settle(c, ok)
    \/ /\ inflight # c
       /\ call' = [call EXCEPT ![c] = Idle(IF ok THEN "done" ELSE "failed")]
       /\ UNCHANGED inflight

\* A client may still answer while it is being closed.
Answers(c) == life[call[c].request] \in {"open", "closing"}

\* listTools has all its pages, listResources begins (if there is a client).
ListToolsEnds(c) ==
    /\ call[c].pc = "listTools" /\ Answers(c)
    /\ mcp' = Touched(call[c].conn)
    /\ LET k == mcp[call[c].conn].client
       IN  \/ /\ k # 0
              /\ call' = [call EXCEPT ![c].request = k,
                                      ![c].pc = "listResources"]
              /\ UNCHANGED inflight
           \/ k = 0 /\ RefreshEnds(c, FALSE)
    /\ UNCHANGED << managerVars, connection, life, closes >>

\* A server without resources answers with MethodNotFound, which counts as an
\* empty list but does not start the idle timer again.
ListResourcesEnds(c) ==
    /\ call[c].pc = "listResources" /\ Answers(c)
    /\ mcp' = Touched(call[c].conn) \/ UNCHANGED mcp
    /\ RefreshEnds(c, TRUE)
    /\ UNCHANGED << managerVars, connection, life, closes >>

\* Either request fails: error, timeout, abort, or the client has gone.
ListFails(c) ==
    /\ call[c].pc \in Listing
    /\ RefreshEnds(c, FALSE)
    /\ UNCHANGED << managerVars, connection, mcp, life, closes >>
-----------------------------------------------------------------------------
\* The caller has its connection: the request goes to the client it has now.
Request(c) ==
    LET k == mcp[call[c].conn].client
    IN  /\ call[c].pc = "connected"
        /\ k # 0
        /\ call' = [call EXCEPT ![c].request = k,
                                ![c].pc = IF call[c].kind = "refresh"
                                          THEN "listTools" ELSE "requesting"]
        /\ mcp' = Touched(call[c].conn)
        /\ UNCHANGED << managerVars, mapVars, life, closes >>

RequestAnswered(c) ==
    /\ call[c].pc = "requesting" /\ Answers(c)
    /\ mcp' = Touched(call[c].conn)
    /\ call' = [call EXCEPT ![c] = Idle("done")]
    /\ UNCHANGED << managerVars, mapVars, life, closes >>

\* The request throws: error, timeout, abort, no client or a client that has
\* gone.
RequestThrows(c) ==
    \/ call[c].pc = "requesting"
    \/ /\ call[c].pc = "connected"
       /\ mcp[call[c].conn].client = 0

\* Mutant of MayRepeat: every error is taken for a lost connection.
MayRepeatEveryError(c) == call[c].kind = "callTool" /\ call[c].tries = 1

\* callTool tries once more if the connection has gone, ...
MayRepeat(c) ==
    /\ call[c].kind = "callTool" /\ call[c].tries = 1
    /\ ~IsConnected(call[c].conn)

RepeatCall(c) ==
    /\ RequestThrows(c) /\ MayRepeat(c)
    /\ EnsureConnected(c, [call[c] EXCEPT !.tries = 2])
    /\ UNCHANGED << managerVars, closes >>

\* ... and else throws.  The caller's signal may have been aborted at any time;
\* then callTool throws in any case.
CallFails(c) ==
    /\ RequestThrows(c)
    /\ call' = [call EXCEPT ![c] = Idle("failed")]
    /\ UNCHANGED << managerVars, mapVars, mcp, life, closes >>
-----------------------------------------------------------------------------
\* McpConnection.setState("disconnected") at the end of close().
Disconnected(m) == IF m.state = "error" THEN m
                   ELSE [m EXCEPT !.state = "disconnected"]

\* McpConnection.close up to its await; late: it is dropped under an attempt.
Close(n, late) ==
    LET k == mcp[n].client
        m == [mcp[n] EXCEPT !.timer = FALSE, !.client = 0,
                            !.late = @ \/ late]
    IN  \/ /\ k = 0
           /\ mcp' = [mcp EXCEPT ![n] = Disconnected(m)]
           /\ UNCHANGED << life, closes >>
        \/ /\ k # 0
           /\ mcp' = [mcp EXCEPT ![n] = m]
           /\ life' = [life EXCEPT ![k] = Closing(k)]
           /\ closes' = closes \cup {[conn |-> n, client |-> k]}

\* Mutant of Closed: the idle timer is cleared after the await.
ClosedWithTimer(m) ==
    [Disconnected(m) EXCEPT !.overtaken = @ \/ m.client # 0, !.timer = FALSE]

\* The rest of close: the state is set, whatever has become of the connection.
Closed(m) == [Disconnected(m) EXCEPT !.overtaken = @ \/ m.client # 0]

CloseReturns(r) ==
    /\ r \in closes /\ life[r.client] = "gone"
    /\ closes' = closes \ {r}
    /\ mcp' = [mcp EXCEPT ![r.conn] = Closed(@)]
    /\ UNCHANGED << managerVars, mapVars, life, call >>

\* McpManager.disconnect.
Disconnect ==
    /\ connection # 0
    /\ Close(connection, FALSE)
    /\ UNCHANGED << managerVars, mapVars, call >>

\* The idle timer of McpConnection.resetIdleTimer.
IdleTimerFires(n) ==
    /\ mcp[n].timer
    /\ Close(n, FALSE)
    /\ UNCHANGED << managerVars, mapVars, call >>

\* Mutants of Drop: the connection is dropped but not closed; it stays, with
\* the entry it had.
DropOnlyForgets ==
    /\ connection' = 0
    /\ UNCHANGED << mcp, life, closes >>
DropNothing == UNCHANGED << connection, mcp, life, closes >>

\* The connection, if there is one, leaves the map and is closed.
Drop ==
    /\ connection' = 0
    /\ \/ connection # 0 /\ Close(connection, inflight # 0)
       \/ connection = 0 /\ UNCHANGED << mcp, life, closes >>

\* McpManager.reloadConfig finds another entry, or none.
ReloadConfig(e) ==
    /\ ~disposed /\ reloads < MaxReloads /\ e # config
    /\ config' = e /\ reloads' = reloads + 1
    /\ Drop
    /\ call' = [c \in Call |->
                  IF Active(c) THEN [call[c] EXCEPT !.since = @ \cup {e}]
                               ELSE call[c]]
    /\ UNCHANGED << disposed, inflight >>

\* McpManager.disposeAll, when the session ends: no new calls begin.
DisposeAll ==
    /\ ~disposed /\ reloads < MaxReloads
    /\ disposed' = TRUE /\ reloads' = reloads + 1
    /\ Drop
    /\ UNCHANGED << config, inflight, call >>
-----------------------------------------------------------------------------
\* The client has closed (the SDK stops a server that does not end by itself).
ServerStops(k) ==
    /\ life[k] = "closing"
    /\ life' = [life EXCEPT ![k] = "gone"]
    /\ UNCHANGED << managerVars, mapVars, mcp, closes, call >>

\* The server dies, and the onclose handler of startClient runs: it forgets the
\* client of a connection that counts as connected.
ServerDies(k) ==
    /\ life[k] = "open"
    /\ life' = [life EXCEPT ![k] = "gone"]
    /\ mcp' = [n \in Conn |->
                 IF mcp[n].client = k /\ mcp[n].state = "connected"
                 THEN [Disconnected(mcp[n]) EXCEPT !.client = 0] ELSE mcp[n]]
    /\ UNCHANGED << managerVars, mapVars, closes, call >>

\* JavaScript runs the continuations of promises that have settled before it
\* takes the next event.
Quiet ==
    /\ \A r \in closes : life[r.client] # "gone"
    /\ \A c \in Call :
          /\ call[c].pc # "connected"
          /\ call[c].pc = "dropping" => life[call[c].request] # "gone"

Continuation(c) ==
    Dropped(c) \/ Request(c) \/ RepeatCall(c) \/ CallFails(c) \/ ListFails(c)

Connects(c) ==
    Quiet /\ (ConnectSucceeds(c) \/ FallBackToSse(c) \/ ConnectFails(c))

Ends(c) ==
    Quiet /\ (ListToolsEnds(c) \/ ListResourcesEnds(c) \/ RequestAnswered(c))

Next ==
    \/ \E c \in Call : Continuation(c) \/ Connects(c) \/ Ends(c)
    \/ \E r \in closes : CloseReturns(r)
    \/ Quiet /\ \E c \in Call, kind \in Kinds : Begin(c, kind)
    \/ Quiet /\ Disconnect
    \/ Quiet /\ \E n \in Conn : IdleTimerFires(n)
    \/ Quiet /\ \E e \in Entries \cup {NoEntry} : ReloadConfig(e)
    \/ Quiet /\ DisposeAll
    \/ Quiet /\ \E k \in Client : ServerStops(k) \/ ServerDies(k)

\* Every request and every start of a client has a timeout, the SDK kills a
\* server that does not stop, and a timer that is set fires.  Some call, client
\* or timer goes on as long as any can.
Fairness ==
    /\ WF_vars(\/ \E r \in closes : CloseReturns(r)
               \/ \E c \in Call : Continuation(c) \/ Connects(c) \/ Ends(c))
    /\ WF_vars(Quiet /\ \E k \in Client : ServerStops(k))
    /\ WF_vars(Quiet /\ \E n \in Conn : IdleTimerFires(n))

Spec == Init /\ [][Next]_vars /\ Fairness
-----------------------------------------------------------------------------
\* The variables have their types; the connection of the map has the entry in
\* force, an attempt belongs to the call that is connecting, calls wait for an
\* attempt only while there is one, and while a client starts its connection
\* has no other.
TypeOK ==
    /\ config \in Entries \cup {NoEntry}
    /\ reloads \in 0..MaxReloads /\ disposed \in BOOLEAN
    /\ connection \in Conn \cup {0} /\ inflight \in Call \cup {0}
    /\ mcp \in [Conn ->
         [entry : Entries \cup {NoEntry}, client : Client \cup {0},
          state : {"disconnected", "connecting", "connected", "error"},
          timer : BOOLEAN, late : BOOLEAN, overtaken : BOOLEAN]]
    /\ life \in [Client -> {"gone", "starting", "open", "closing"}]
    /\ closes \subseteq [conn : Conn, client : Client]
    /\ call \in [Call ->
         [pc : {"none", "joined", "connected", "requesting"}
               \cup Connecting \cup Over,
          kind : Kinds \cup {"none"}, conn : Conn \cup {0},
          request : Client \cup {0}, tries : 0..2,
          since : SUBSET (Entries \cup {NoEntry})]]
    /\ connection # 0 => mcp[connection].entry = config
    /\ inflight # 0 => call[inflight].pc \in Connecting
    /\ \A c \in Call :
          /\ call[c].pc \in {"dropping"} \cup Starting =>
                inflight = c /\ mcp[call[c].conn].client = 0
          /\ call[c].pc = "joined" => inflight # 0

\* No server is lost: a client that is open belongs to the connection of the
\* map, where the next call and disconnect find it (and the exit handler, until
\* disposeAll removes it: a call made after that connects without one).  The
\* one exception are connections dropped while an attempt was under way, which
\* goes on and connects them all the same.
ServersAreReachable ==
    \A k \in Client : life[k] = "open" =>
        \E n \in Conn : /\ mcp[n].client = k
                        /\ n = connection \/ mcp[n].late

\* A call is answered by a server that was started from an entry in force at
\* some time since the call began, and never from one that had been replaced by
\* then; again except through an attempt that a reload has overtaken.
CallsUseTheirConfig ==
    [][\A c \in Call : Active(c) /\ call'[c].pc = "done" =>
          LET m == mcp[call[c].conn]
          IN  m.entry \in call[c].since \/ m.late]_vars

\* A tool call that was sent once is sent again only if the client it was sent
\* to is gone, or being closed: while a client is open, its server is not given
\* the same call twice.  (The process of a stdio server ends with its client; a
\* remote server may live on and have executed the call.)  The exception are
\* connections on which a close() ended after a new client had connected: they
\* count as disconnected while their client is open.
OnlyLostCallsAreRepeated ==
    [][\A c \in Call :
          call[c].pc = "requesting" /\ call'[c].tries = 2 /\ call[c].tries = 1 =>
             \/ life[call[c].request] \in {"closing", "gone"}
             \/ mcp[call[c].conn].overtaken]_vars

\* Every call ends, whoever connects for it and whatever is closed meanwhile.
CallsSettle == []<>(\A c \in Call : ~Active(c))

\* With an idle timeout no server runs for ever once the calls have ended, not
\* even the server of a connection that the manager has forgotten.
IdleServersAreClosed ==
    IdleTimeout => []<>(\A k \in Client : life[k] # "open")
=============================================================================
