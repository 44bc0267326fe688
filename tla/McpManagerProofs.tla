--------------------------- MODULE McpManagerProofs ---------------------------
(***************************************************************************)
(* Proofs about McpManager, for any number of calls, reloads and clients,  *)
(* any entries and either idle timeout: the type invariant, that no server *)
(* is lost (ServersAreReachable), and the two action properties.           *)
(*                                                                         *)
(* They rest on one inductive invariant, Inv.  It numbers connections and  *)
(* calls in the order they are created, ties the attempt in inflight to    *)
(* the connection of the map or to one dropped under it, and says of every *)
(* call what it knows of its connection and its client.  Most steps only   *)
(* take things away from the connections and the clients (McpKept,         *)
(* LifeKept); what follows from that alone is proved once.                 *)
(***************************************************************************)
EXTENDS McpManager, TLAPS, FiniteSetTheorems

\* What the fields of a connection and of a call may be.
Mcps == [entry : Entries \cup {NoEntry}, client : Client \cup {0},
         state : {"disconnected", "connecting", "connected", "error"},
         timer : BOOLEAN, late : BOOLEAN, overtaken : BOOLEAN]
Calls == [pc : {"none", "joined", "connected", "requesting"}
               \cup Connecting \cup Over,
          kind : Kinds \cup {"none"}, conn : Conn \cup {0},
          request : Client \cup {0}, tries : 0..2,
          since : SUBSET (Entries \cup {NoEntry})]

\* Connections are numbered in the order they are created, ...
Used == {n \in Conn : mcp[n].entry # NoEntry}
Numbered ==
    /\ Used = 1..Cardinality(Used) /\ Cardinality(Used) \in Nat
    /\ Cardinality(Used) <= reloads + 1
    /\ connection = 0 => Cardinality(Used) <= reloads

\* ... the manager's variables have their types, its connection has the entry
\* in force, and an attempt is made for that connection or for one that was
\* dropped under it, ...
Manager ==
    /\ config \in Entries \cup {NoEntry}
    /\ reloads \in 0..MaxReloads /\ disposed \in BOOLEAN
    /\ connection \in Conn \cup {0} /\ inflight \in Call \cup {0}
    /\ closes \subseteq [conn : Conn, client : Client]
    /\ connection # 0 => config # NoEntry /\ mcp[connection].entry = config
    /\ inflight # 0 =>
         /\ call[inflight].pc \in Connecting
         /\ \/ call[inflight].conn = connection
            \/ mcp[call[inflight].conn].late

\* ... a client that a connection refers to has started, and the connection
\* counts as connected unless a close has overtaken it, ...
Clients ==
    /\ mcp \in [Conn -> Mcps]
    /\ life \in [Client -> {"gone", "starting", "open", "closing"}]
    /\ \A n \in Conn : mcp[n].client # 0 =>
          /\ life[mcp[n].client] # "starting"
          /\ mcp[n].state = "connected" \/ mcp[n].overtaken
          /\ mcp[n].entry # NoEntry

\* ... and a call knows its connection, which has an entry that was in force
\* since the call began or was dropped under an attempt; the client it starts
\* is starting, and the one it has asked is that of its connection still, or
\* lost.
HasConnection == {"connected", "requesting"} \cup Connecting
CallOK(c) ==
    /\ call[c] \in Calls
    /\ Active(c) => config \in call[c].since
    /\ call[c].pc = "joined" => inflight # 0
    /\ call[c].pc \in HasConnection =>
          /\ call[c].conn \in Conn
          /\ mcp[call[c].conn].entry # NoEntry
          /\ \/ mcp[call[c].conn].entry \in call[c].since
             \/ mcp[call[c].conn].late
    /\ call[c].pc \in HasConnection \ {"connected"} =>
          call[c].request \in Client
    /\ call[c].pc \in {"dropping"} \cup Starting =>
          inflight = c /\ mcp[call[c].conn].client = 0
    /\ call[c].pc \in Starting => life[call[c].request] = "starting"
    /\ call[c].pc = "requesting" =>
          \/ life[call[c].request] \in {"closing", "gone"}
          \/ mcp[call[c].conn].client = call[c].request

\* Calls are numbered as they begin.
Begun == {c \in Call : call[c].pc # "none"}
InOrder == Begun = 1..Cardinality(Begun) /\ Cardinality(Begun) \in Nat

Inv == /\ Numbered /\ Manager /\ Clients /\ ServersAreReachable
       /\ InOrder /\ call \in [Call -> Calls] /\ \A c \in Call : CallOK(c)
-----------------------------------------------------------------------------
\* The sets of numbers the model draws from, and 0, which stands for undefined.
LEMMA Numbers ==
    /\ Conn \subseteq Nat /\ 0 \notin Conn
    /\ Call \subseteq Nat /\ 0 \notin Call
    /\ Client \subseteq Nat /\ 0 \notin Client
    /\ IdleTimeout \in BOOLEAN /\ NoEntry \notin Entries
    /\ Kinds \subseteq {"callTool", "readResource", "refresh"}
BY McpManagerAssumption DEF McpManagerAssumption, Conn, Call, Client

\* The invariant contains the type invariant.
LEMMA InvImpliesTypeOK == Inv => TypeOK
BY DEF Inv, TypeOK, Manager, Clients, CallOK, Mcps, Calls, Connecting,
     Starting, Over, Listing

\* What most steps do to the connections: ...
McpKept ==
    /\ mcp' \in [Conn -> Mcps]
    /\ \A n \in Conn :
          /\ mcp[n].entry # NoEntry => mcp'[n].entry = mcp[n].entry
          /\ mcp[n].late => mcp'[n].late
          /\ mcp'[n].client \in {0, mcp[n].client}
          /\ mcp'[n].client # 0 => mcp'[n].state = "connected"
               \/ mcp'[n].overtaken

\* ... and to the clients.
LifeKept ==
    /\ life' \in [Client -> {"gone", "starting", "open", "closing"}]
    /\ \A k \in Client :
          /\ life'[k] = "open" =>
                /\ life[k] = "open"
                /\ \A n \in Conn : mcp[n].client = k => mcp'[n].client = k
          /\ life'[k] = "starting" => life[k] = "starting" \/ Unused(k)

\* A client that is open after such a step belonged to its connection before,
\* which is still that of the map, or late.
LEMMA ReachKept == ASSUME ServersAreReachable, McpKept, LifeKept,
           \A n \in Conn : n = connection => n = connection'
               \/ mcp'[n].client = 0,
    NEW k \in Client, life'[k] = "open"
    PROVE \E n \in Conn :
              /\ mcp'[n].client = k
              /\ n = connection' \/ mcp'[n].late
<1>1. PICK n \in Conn : mcp[n].client = k /\ (n = connection \/ mcp[n].late)
   BY DEF ServersAreReachable, LifeKept
<1>2. mcp'[n].client = k /\ k # 0
  BY <1>1, Numbers DEF LifeKept
<1> QED BY <1>1, <1>2, Numbers DEF McpKept

\* A client that a connection still refers to has not become one that starts.
LEMMA ClientTyped ==
  ASSUME Clients, McpKept, LifeKept, NEW n \in Conn, mcp'[n].client # 0
   PROVE life'[mcp'[n].client] # "starting" /\ mcp'[n].entry # NoEntry
          /\ (mcp'[n].state = "connected" \/ mcp'[n].overtaken)
<1>1. mcp'[n].client = mcp[n].client /\ mcp[n].client \in Client
      BY Numbers DEF McpKept, Clients, Mcps
<1>2. life[mcp[n].client] # "starting"
  BY <1>1, Numbers DEF Clients
<1>3. ~ Unused(mcp[n].client)
  BY DEF Unused
<1>4. life'[mcp[n].client] # "starting"
  BY <1>1, <1>2, <1>3 DEF LifeKept
<1> QED BY <1>1, <1>4 DEF McpKept, Clients

\* Such a step keeps Clients and ServersAreReachable, if the connection of the
\* map is replaced only by one without a client.
LEMMA ClientsKept ==
    ASSUME Clients, ServersAreReachable, McpKept, LifeKept,
           \A n \in Conn : n = connection => n = connection'
               \/ mcp'[n].client = 0
    PROVE  Clients' /\ ServersAreReachable'
<1>1. mcp' \in [Conn -> Mcps] /\ life' \in [Client -> {"gone", "starting",
      "open", "closing"}]
  BY DEF McpKept, LifeKept
<1>2. Clients'
  BY <1>1, ClientTyped DEF Clients
<1>3. \A k \in Client : life'[k] = "open" => \E n \in Conn :
              /\ mcp'[n].client = k
              /\ n = connection' \/ mcp'[n].late
  BY ReachKept
<1>4. ServersAreReachable'
  BY <1>3 DEF ServersAreReachable, Client, Conn
<1> QED BY <1>2, <1>4

\* The client that a call has asked stays that of its connection, or is lost.
LEMMA AskedKept ==
  ASSUME NEW d \in Call, CallOK(d), McpKept, LifeKept, Clients,
         call[d].pc = "requesting"
  PROVE  life'[call[d].request] \in {"closing", "gone"}
         \/ mcp'[call[d].conn].client = call[d].request
<1> DEFINE n == call[d].conn
           k == call[d].request
<1>1. n \in Conn /\ k \in Client /\ ~Unused(k)
  BY DEF CallOK, HasConnection, Unused
<1>2. life[k] \in {"closing", "gone"} \/ mcp[n].client = k
  BY DEF CallOK
<1>3. CASE life'[k] = "open"
  BY <1>1, <1>2, <1>3 DEF LifeKept
<1>4. CASE life'[k] = "starting"
  <2>1. mcp[n].client = k => life[k] # "starting"
    BY <1>1, Numbers DEF Clients
  <2> QED BY <1>1, <1>2, <1>4, <2>1 DEF LifeKept
<1> QED BY <1>1, <1>3, <1>4 DEF LifeKept

\* Such a step keeps CallOK of a call it leaves alone.
LEMMA CallKept ==
    ASSUME NEW d \in Call, CallOK(d), McpKept, LifeKept, Clients,
           call'[d] = call[d], config' = config,
           call[d].pc = "joined" => inflight' # 0,
           call[d].pc \in {"dropping"} \cup Starting => inflight' = d,
           call[d].pc \in Starting => life'[call[d].request] = "starting"
    PROVE  CallOK(d)'
<1> DEFINE n == call[d].conn
           k == call[d].request
<1>1. call[d] \in Calls /\ Active(d)' = Active(d) /\ (Active(d) =>
      config \in call[d].since)
  BY DEF CallOK, Active
<1>2. ASSUME call[d].pc \in HasConnection PROVE
          /\ n \in Conn
          /\ mcp'[n].entry # NoEntry
          /\ mcp'[n].entry \in call[d].since \/ mcp'[n].late
  BY <1>2 DEF CallOK, McpKept
<1>3. ASSUME call[d].pc \in {"dropping"} \cup Starting
      PROVE  mcp'[n].client = 0 /\ k \in Client
  BY <1>2, <1>3 DEF CallOK, McpKept, HasConnection, Connecting, Starting
<1>4. ASSUME call[d].pc = "requesting"
      PROVE  life'[k] \in {"closing", "gone"} \/ mcp'[n].client = k
  BY <1>4, AskedKept
<1> QED BY <1>1, <1>2, <1>3, <1>4, Zenon DEF CallOK

\* A step that leaves mcp alone is one of those steps, ...
LEMMA McpSame == Clients /\ UNCHANGED mcp => McpKept
BY DEF Clients, McpKept, Mcps

\* ... and so is one that leaves the clients alone as well, ...
LEMMA LifeSame == Clients /\ McpKept /\ UNCHANGED << mcp, life >> => LifeKept
BY DEF Clients, McpKept, LifeKept

\* ... or only what refers to them.
LEMMA ClientSame ==
  ASSUME Clients, McpKept, UNCHANGED life,
         \A n \in Conn : mcp'[n].client = mcp[n].client
  PROVE  LifeKept
BY DEF Clients, McpKept, LifeKept

\* One connection is updated.
LEMMA McpUpdate ==
   ASSUME Clients, NEW n \in Conn, NEW m \in Mcps,
          mcp' = [mcp EXCEPT ![n] = m],
          mcp[n].entry # NoEntry => m.entry = mcp[n].entry,
          mcp[n].late => m.late, m.client \in {0, mcp[n].client},
          m.client # 0 => m.state = "connected" \/ m.overtaken
   PROVE McpKept /\ mcp'[n] = m /\ \A i \in Conn \ {n} : mcp'[i] = mcp[i]
BY DEF Clients, McpKept

\* McpConnection.touch keeps the connections, ...
LEMMA TouchKept ==
   ASSUME Clients, NEW n \in Conn, mcp' = Touched(n)
   PROVE McpKept /\ \A i \in Conn : mcp'[i].client = mcp[i].client
<1> DEFINE m == [mcp[n] EXCEPT !.timer = IdleTimeout]
<1>1. mcp' = [mcp EXCEPT ![n] = m] /\ mcp[n] \in Mcps
  BY DEF Touched, Clients
<1>2. m \in Mcps
  BY <1>1, Numbers DEF Mcps
<1>3. m.entry = mcp[n].entry /\ m.late = mcp[n].late
      /\ m.client = mcp[n].client
     /\ m.state = mcp[n].state /\ m.overtaken = mcp[n].overtaken
  BY <1>1 DEF Mcps
<1> HIDE DEF m
<1>a. m.client # 0 => m.state = "connected" \/ m.overtaken
  BY <1>3 DEF Clients
<1>4. McpKept /\ mcp'[n] = m /\ \A i \in Conn \ {n} : mcp'[i] = mcp[i]
  <2>1. mcp' = [mcp EXCEPT ![n] = m]
    BY <1>1
  <2>2. mcp[n].entry # NoEntry => m.entry = mcp[n].entry
    BY <1>3
  <2>3. mcp[n].late => m.late
    BY <1>3
  <2>4. m.client \in {0, mcp[n].client}
    BY <1>3
  <2> QED BY <2>1, <2>2, <2>3, <2>4, <1>2, <1>a, McpUpdate, Zenon
<1> QED BY <1>3, <1>4

\* ... and so does setState, while there is no client, ...
LEMMA StateKept ==
   ASSUME Clients, NEW n \in Conn, mcp[n].client = 0, NEW s \in {"connecting",
          "error"}, mcp' = [mcp EXCEPT ![n].state = s]
   PROVE McpKept /\ \A i \in Conn : mcp'[i].client = mcp[i].client
          /\ mcp'[i].entry = mcp[i].entry
<1> DEFINE m == [mcp[n] EXCEPT !.state = s]
<1>1. mcp' = [mcp EXCEPT ![n] = m] /\ mcp[n] \in Mcps
  BY DEF Clients
<1>2. m \in Mcps
  BY <1>1, Numbers DEF Mcps
<1>3. m.entry = mcp[n].entry /\ m.late = mcp[n].late
      /\ m.client = mcp[n].client
  BY <1>1 DEF Mcps
<1> HIDE DEF m
<1>a. m.client # 0 => m.state = "connected" \/ m.overtaken
  BY <1>3 DEF Clients
<1>4. McpKept /\ mcp'[n] = m /\ \A i \in Conn \ {n} : mcp'[i] = mcp[i]
  <2>1. mcp' = [mcp EXCEPT ![n] = m]
    BY <1>1
  <2>2. mcp[n].entry # NoEntry => m.entry = mcp[n].entry
    BY <1>3
  <2>3. mcp[n].late => m.late
    BY <1>3
  <2>4. m.client \in {0, mcp[n].client}
    BY <1>3
  <2> QED BY <2>1, <2>2, <2>3, <2>4, <1>2, <1>a, McpUpdate, Zenon
<1> QED BY <1>3, <1>4

\* ... the beginning of client.close(), ...
LEMMA ClosingKept ==
   ASSUME Clients, NEW k \in Client, McpKept,
          life' = [life EXCEPT ![k] = Closing(k)],
          \A n \in Conn : mcp[n].client # k => mcp'[n].client = mcp[n].client,
          NEW n \in Conn, mcp[n].client = k
   PROVE  LifeKept /\ \A j \in Client : life[j] = "starting" =>
          life'[j] = "starting"
<1>1. life'[k] \in {"closing", "gone"} /\ life[k] # "starting"
  BY Numbers DEF Clients, Closing
<1> QED BY <1>1 DEF Clients, LifeKept

\* ... setState("disconnected"), ...
LEMMA DisconnectedTyped ==
   ASSUME NEW m \in Mcps
   PROVE  /\ Disconnected(m) \in Mcps
          /\ Disconnected(m).entry = m.entry /\ Disconnected(m).late = m.late
          /\ Disconnected(m).client = m.client
               /\ Disconnected(m).overtaken = m.overtaken
<1>1. [m EXCEPT !.state = "disconnected"] \in Mcps
  BY DEF Mcps
<1>2. LET d == [m EXCEPT !.state = "disconnected"] IN
          /\ d.entry = m.entry /\ d.late = m.late
          /\ d.client = m.client /\ d.overtaken = m.overtaken
  BY DEF Mcps
<1> QED BY <1>1, <1>2 DEF Disconnected

\* ... close() up to its await, ...
LEMMA CloseKept ==
   ASSUME Clients, NEW n \in Conn, NEW late \in BOOLEAN, Close(n, late),
          closes \subseteq [conn : Conn, client : Client]
   PROVE  /\ McpKept /\ LifeKept
          /\ mcp'[n].client = 0 /\ (late => mcp'[n].late)
          /\ \A i \in Conn : mcp'[i].entry = mcp[i].entry
          /\ closes' \subseteq [conn : Conn, client : Client]
          /\ \A k \in Client : life[k] = "starting" => life'[k] = "starting"
<1> DEFINE k == mcp[n].client
           m == [mcp[n] EXCEPT !.timer = FALSE, !.client = 0, !.late = @
               \/ late]
<1>1. mcp[n] \in Mcps /\ k \in Client \cup {0}
  BY DEF Clients, Mcps
<1>2. m \in Mcps
  BY <1>1 DEF Mcps
<1>3. m.entry = mcp[n].entry /\ m.client = 0 /\ m.late = (mcp[n].late \/ late)
  BY <1>1 DEF Mcps
<1>4. \/ k = 0 /\ mcp' = [mcp EXCEPT ![n] = Disconnected(m)]
         /\ UNCHANGED << life, closes >>
      \/ k # 0 /\ mcp' = [mcp EXCEPT ![n] = m]
           /\ life' = [life EXCEPT ![k] = Closing(k)]
               /\ closes' = closes \cup {[conn |-> n, client |-> k]}
  BY DEF Close
<1> HIDE DEF m
<1>5. CASE k = 0
  <2>1. /\ McpKept /\ mcp'[n] = Disconnected(m)
           /\ \A i \in Conn \ {n} : mcp'[i] = mcp[i]
    <3> DEFINE d == Disconnected(m)
    <3>1. d \in Mcps /\ d.entry = m.entry /\ d.late = m.late
          /\ d.client = m.client
      BY <1>2, DisconnectedTyped
    <3>2. mcp' = [mcp EXCEPT ![n] = d]
      BY <1>4, <1>5
    <3> HIDE DEF d
    <3>3. McpKept /\ mcp'[n] = d /\ \A i \in Conn \ {n} : mcp'[i] = mcp[i]
      BY <1>3, <3>1, <3>2, McpUpdate
    <3> QED BY <3>3 DEF d
  <2>2. mcp'[n].entry = mcp[n].entry /\ mcp'[n].client = 0
        /\ mcp'[n].late = (mcp[n].late \/ late)
    BY <1>2, <1>3, <2>1, DisconnectedTyped
  <2>3. \A i \in Conn : mcp'[i].client = mcp[i].client
    BY <1>5, <2>1, <2>2
  <2>4. LifeKept
    BY <1>4, <1>5, <2>1, <2>3, ClientSame
  <2> QED BY <1>4, <1>5, <2>1, <2>2, <2>4
<1>6. CASE k # 0
  <2>1. /\ McpKept /\ mcp'[n] = m /\ \A i \in Conn \ {n} : mcp'[i] = mcp[i]
    BY <1>2, <1>3, <1>4, <1>6, McpUpdate
  <2>2. LifeKept /\ \A j \in Client : life[j] = "starting" =>
        life'[j] = "starting"
    BY <1>1, <1>4, <1>6, <2>1, ClosingKept
  <2>3. closes' \subseteq [conn : Conn, client : Client]
    BY <1>1, <1>4, <1>6
  <2> QED BY <1>3, <2>1, <2>2, <2>3
<1> QED BY <1>5, <1>6

\* ... the rest of it, ...
LEMMA ClosedKept ==
   ASSUME Clients, NEW n \in Conn, mcp' = [mcp EXCEPT ![n] = Closed(@)]
   PROVE  McpKept /\ \A i \in Conn : mcp'[i].client = mcp[i].client
          /\ mcp'[i].entry = mcp[i].entry
<1> DEFINE d == Disconnected(mcp[n])
           m == [d EXCEPT !.overtaken = @ \/ mcp[n].client # 0]
<1>1. mcp[n] \in Mcps /\ mcp' = [mcp EXCEPT ![n] = m]
  BY DEF Clients, Closed
<1>2. /\ d \in Mcps /\ d.entry = mcp[n].entry /\ d.late = mcp[n].late
      /\ d.client = mcp[n].client /\ d.overtaken = mcp[n].overtaken
  BY <1>1, DisconnectedTyped
<1> HIDE DEF d
<1>3. m \in Mcps
  BY <1>2 DEF Mcps
<1>4. m.entry = d.entry /\ m.late = d.late /\ m.client = d.client
      /\ (m.overtaken <=> d.overtaken \/ mcp[n].client # 0)
  BY <1>2 DEF Mcps
<1> HIDE DEF m
<1>a. m.entry = mcp[n].entry /\ m.late = mcp[n].late
      /\ m.client = mcp[n].client
  BY <1>2, <1>4
<1>b. m.client # 0 => m.state = "connected" \/ m.overtaken
  BY <1>a, <1>4
<1>5. McpKept /\ mcp'[n] = m /\ \A i \in Conn \ {n} : mcp'[i] = mcp[i]
  <2>1. mcp' = [mcp EXCEPT ![n] = m]
    BY <1>1
  <2>2. mcp[n].entry # NoEntry => m.entry = mcp[n].entry
    BY <1>a
  <2>3. mcp[n].late => m.late
    BY <1>a
  <2>4. m.client \in {0, mcp[n].client}
    BY <1>a
  <2> QED BY <2>1, <2>2, <2>3, <2>4, <1>3, <1>b, McpUpdate, Zenon
<1> QED BY <1>a, <1>5

\* ... and the onclose handler of a server that dies.
LEMMA DiesKept ==
   ASSUME Clients, NEW k \in Client, ServerDies(k)
   PROVE  /\ McpKept /\ LifeKept
          /\ \A i \in Conn : mcp'[i].entry = mcp[i].entry
          /\ \A j \in Client : life[j] = "starting" => life'[j] = "starting"
<1> DEFINE m(n) == [Disconnected(mcp[n]) EXCEPT !.client = 0]
<1>1. \A n \in Conn : m(n) \in Mcps /\ m(n).entry = mcp[n].entry
      /\ m(n).late = mcp[n].late /\ m(n).client = 0
  <2> SUFFICES ASSUME NEW n \in Conn
               PROVE m(n) \in Mcps /\ m(n).entry = mcp[n].entry
                      /\ m(n).late = mcp[n].late /\ m(n).client = 0
    OBVIOUS
  <2> DEFINE d == Disconnected(mcp[n])
  <2>1. d \in Mcps /\ d.entry = mcp[n].entry /\ d.late = mcp[n].late
    BY DisconnectedTyped DEF Clients
  <2> HIDE DEF d
  <2>2. [d EXCEPT !.client = 0] \in Mcps
    BY <2>1 DEF Mcps
  <2>3. LET e == [d EXCEPT !.client = 0] IN e.entry = d.entry
        /\ e.late = d.late /\ e.client = 0
    BY <2>1 DEF Mcps
  <2> QED BY <2>1, <2>2, <2>3 DEF d
<1> HIDE DEF m
<1>2. /\ mcp' = [n \in Conn |->
                  IF mcp[n].client = k /\ mcp[n].state = "connected"
                  THEN m(n) ELSE mcp[n]]
      /\ life[k] = "open" /\ life' = [life EXCEPT ![k] = "gone"]
  BY DEF ServerDies, m
<1>3. McpKept
  BY <1>1, <1>2 DEF Clients, McpKept
<1>4. LifeKept
  BY <1>1, <1>2, <1>3 DEF Clients, LifeKept
<1> QED BY <1>1, <1>2, <1>3, <1>4 DEF Clients

\* No connection is created: they stay numbered.
LEMMA NumberedKept ==
   ASSUME Numbered, \A n \in Conn : mcp'[n].entry = mcp[n].entry,
          reloads \in Nat, reloads' \in Nat,
          \/ UNCHANGED << reloads, connection >>
          \/ reloads' = reloads + 1
   PROVE  Numbered'
<1>1. Used' = Used
  BY DEF Used
<1> DEFINE u == Cardinality(Used)
<1>2. u' = u /\ u \in Nat /\ Used = 1..u /\ u <= reloads + 1
      /\ (connection = 0 => u <= reloads)
  BY <1>1 DEF Numbered
<1>3. u <= reloads' + 1 /\ (connection' = 0 => u <= reloads')
  <2> HIDE DEF u
  <2> QED BY <1>2
<1> QED BY <1>1, <1>2, <1>3 DEF Numbered

\* No call begins: they stay in order.
LEMMA InOrderKept ==
   ASSUME InOrder, \A c \in Call : call'[c].pc = "none" <=> call[c].pc = "none"
   PROVE  InOrder'
<1>1. Begun' = Begun
  BY DEF Begun
<1> QED BY <1>1 DEF InOrder

\* A call that has ended.
LEMMA IdleOK ==
   ASSUME NEW d \in Call, NEW pc \in Over, call'[d] = Idle(pc)
   PROVE  CallOK(d)' /\ call'[d].pc # "none"
BY DEF CallOK, Idle, Calls, Over, Active, HasConnection, Connecting, Starting,
     Listing

\* A call that has got its connection.
Obtained(q, n) == [q EXCEPT !.pc = "connected", !.conn = n, !.request = 0]

\* What is obtained from a connection has its type.
LEMMA ObtainedTyped ==
  ASSUME NEW q \in Calls, NEW n \in Conn
  PROVE  /\ Obtained(q, n) \in Calls /\ Obtained(q, n).pc = "connected"
         /\ Obtained(q, n).conn = n /\ Obtained(q, n).since = q.since
BY Numbers DEF Calls, Obtained

\* A call that waited for an attempt gets the connection.
LEMMA Waiting ==
  ASSUME NEW d \in Call, CallOK(d), call[d].pc = "joined", NEW n \in Conn,
    config' = config, McpKept, mcp[n].entry # NoEntry,
        mcp[n].entry = config \/ mcp[n].late,
         call'[d] = [call[d] EXCEPT !.pc = "connected", !.conn = n,
             !.request = 0]
  PROVE  CallOK(d)' /\ call'[d].pc # "none"
<1>1. call'[d] \in Calls /\ call'[d].pc = "connected" /\ call'[d].conn = n
      /\ call'[d].since = call[d].since
  <2>1. call'[d] = Obtained(call[d], n) /\ call[d] \in Calls
    BY DEF Obtained, CallOK
  <2> QED BY <2>1, ObtainedTyped
<1>2. config \in call[d].since
  BY DEF CallOK, Active, Over
<1>3. mcp'[n].entry # NoEntry /\ (mcp'[n].entry = config \/ mcp'[n].late)
  BY DEF McpKept
<1> QED BY <1>1, <1>2, <1>3 DEF CallOK, Active, HasConnection, Connecting,
      Starting, Listing

\* What the invariant says of the call that owns the attempt.
LEMMA Owner ==
  ASSUME Inv, inflight # 0
  PROVE  LET r == call[inflight]
         IN  /\ inflight \in Call /\ r.pc \in Connecting /\ r.conn \in Conn
             /\ mcp[r.conn].entry # NoEntry
             /\ mcp[r.conn].entry = config \/ mcp[r.conn].late
BY Numbers DEF Inv, Manager, CallOK, HasConnection

\* The attempt settles: its owner and the calls that joined it are well.
LEMMA Settled ==
  ASSUME Inv, NEW c \in Call, inflight = c, NEW ok \in BOOLEAN, Settle(c, ok),
      McpKept, LifeKept, config' = config
  PROVE /\ call' \in [Call -> Calls] /\ \A d \in Call : CallOK(d)'
        /\ \A d \in Call : call'[d].pc = "none" <=> call[d].pc = "none"
        /\ inflight' = 0
<1>1. ASSUME NEW d \in Call
      PROVE  CallOK(d)' /\ (call'[d].pc = "none" <=> call[d].pc = "none")
  <2>1. CASE d # c /\ call[d].pc # "joined"
    <3>1. call'[d] = call[d]
      BY <2>1 DEF Settle
    <3>2. CallOK(d) /\ Clients /\ call[d].pc \notin {"dropping"} \cup Starting
      BY <2>1 DEF Inv, CallOK
    <3> QED BY <2>1, <3>1, <3>2, CallKept
  <2>2. CASE ~ok /\ (d = c \/ call[d].pc = "joined")
    <3>1. call'[d] = Idle("failed") /\ call[d].pc # "none"
      BY <2>2, Owner, Numbers DEF Settle, Connecting, Starting, Listing
    <3> QED BY <3>1, IdleOK DEF Over
  <2>3. CASE ok /\ d = c
    <3>1. call'[c] = Obtained(call[c], call[c].conn)
      BY <2>3 DEF Settle, Obtained
    <3>2. call[c] \in Calls /\ CallOK(c) /\ call[c].pc \in Connecting
          /\ call[c].conn \in Conn
      BY Owner, Numbers DEF Inv, CallOK
    <3>3. call'[c] \in Calls /\ call'[c].pc = "connected"
          /\ call'[c].conn = call[c].conn /\ call'[c].since = call[c].since
      BY <3>1, <3>2, ObtainedTyped
    <3> DEFINE n == call[c].conn
    <3>4. n \in Conn /\ mcp[n].entry # NoEntry
          /\ (mcp[n].entry \in call[c].since \/ mcp[n].late)
          /\ config \in call[c].since
      BY <3>2 DEF CallOK, HasConnection, Connecting, Starting, Listing, Active,
           Over
    <3>5. mcp'[n].entry # NoEntry /\ (mcp'[n].entry \in call[c].since
          \/ mcp'[n].late)
      BY <3>4 DEF McpKept
    <3>6. call[c].pc # "none"
      BY <3>2 DEF Connecting, Starting, Listing
    <3> QED BY <2>3, <3>3, <3>4, <3>5, <3>6 DEF CallOK, Starting
  <2>4. CASE ok /\ d # c /\ call[d].pc = "joined"
    <3>1. call'[d] = [call[d] EXCEPT !.pc = "connected", !.conn = call[c].conn,
          !.request = 0]
      BY <2>4 DEF Settle
    <3> DEFINE n == call[c].conn
    <3>2. CallOK(d) /\ n \in Conn /\ mcp[n].entry # NoEntry
          /\ (mcp[n].entry = config \/ mcp[n].late)
      BY Owner, Numbers DEF Inv
    <3> HIDE DEF n
    <3> QED BY <2>4, <3>1, <3>2, Waiting DEF n
  <2> QED BY <2>1, <2>2, <2>3, <2>4
<1>2. inflight' = 0
  BY DEF Settle
<1>3. call' \in [Call -> Calls]
  <2>1. \A d \in Call : call'[d] \in Calls
    BY <1>1 DEF CallOK
  <2>2. call' = [d \in Call |-> call'[d]]
    BY Zenon DEF Settle
  <2> QED BY <2>1, <2>2
<1> QED BY <1>1, <1>2, <1>3

\* The other calls, when one call moves on.
LEMMA OthersKept ==
  ASSUME Inv, NEW c \in Call, call' \in [Call -> Calls],
         \A d \in Call \ {c} : call'[d] = call[d],
         McpKept, LifeKept, config' = config, CallOK(c)',
         inflight' = inflight,
         \A k \in Client : life[k] = "starting" => life'[k] = "starting"
  PROVE \A d \in Call : CallOK(d)'
<1>1. ASSUME NEW d \in Call, d # c PROVE CallOK(d)'
  <2>1. CallOK(d) /\ Clients /\ call'[d] = call[d]
    BY <1>1 DEF Inv
  <2>2. call[d].pc \in Starting => life'[call[d].request] = "starting"
    BY <2>1 DEF CallOK, HasConnection, Connecting, Starting
  <2>3. call[d].pc \in {"dropping"} \cup Starting => inflight' = d
    BY <2>1 DEF CallOK
  <2>4. call[d].pc = "joined" => inflight' # 0
    BY <2>1 DEF CallOK
  <2> QED BY <2>1, <2>2, <2>3, <2>4, CallKept
<1> QED BY <1>1

\* All calls, when none moves on.
LEMMA NoCallMoves ==
  ASSUME Inv, UNCHANGED << config, inflight, call >>, McpKept, LifeKept,
         \A k \in Client : life[k] = "starting" => life'[k] = "starting"
  PROVE /\ call' \in [Call -> Calls] /\ \A d \in Call : CallOK(d)'
        /\ \A d \in Call : call'[d].pc = "none" <=> call[d].pc = "none"
<1>1. ASSUME NEW d \in Call PROVE CallOK(d)'
  <2>1. CallOK(d) /\ Clients /\ call'[d] = call[d]
    BY <1>1 DEF Inv
  <2>2. call[d].pc \in Starting => life'[call[d].request] = "starting"
    BY <2>1 DEF CallOK, HasConnection, Connecting, Starting
  <2>3. call[d].pc \in {"dropping"} \cup Starting => inflight' = d
    BY <2>1 DEF CallOK
  <2>4. call[d].pc = "joined" => inflight' # 0
    BY <2>1 DEF CallOK
  <2> QED BY <2>1, <2>2, <2>3, <2>4, CallKept
<1> QED BY <1>1 DEF Inv

\* The manager, when a step leaves its variables alone, ...
LEMMA ManagerKept ==
  ASSUME Inv, UNCHANGED << managerVars, mapVars >>, McpKept,
         closes' \subseteq [conn : Conn, client : Client],
     inflight # 0 => call'[inflight].pc \in Connecting
         /\ call'[inflight].conn = call[inflight].conn
  PROVE Manager'
<1>1. Manager /\ Numbers!1
  BY Numbers DEF Inv
<1>2. connection # 0 => mcp'[connection].entry = config
  BY Numbers DEF Inv, Manager, McpKept
<1>3. inflight # 0 => call[inflight].conn = connection
      \/ mcp'[call[inflight].conn].late
  BY Owner DEF Inv, Manager, McpKept
<1> QED BY <1>1, <1>2, <1>3 DEF managerVars, mapVars, Manager

\* ... and when the attempt has settled.
LEMMA ManagerSettled ==
  ASSUME Inv, UNCHANGED << managerVars, connection >>, McpKept,
         closes' \subseteq [conn : Conn, client : Client],
     inflight' = 0
  PROVE Manager'
<1>1. Manager
  BY DEF Inv
<1>2. connection # 0 => mcp'[connection].entry = config
  BY Numbers DEF Inv, Manager, McpKept
<1> QED BY <1>1, <1>2 DEF managerVars, Manager

\* The client of an attempt has connected: the connection had none, for all the
\* attempt was the only one, and is that of the map or late.
LEMMA ConnectSucceedsInv ==
  ASSUME Inv, NEW c \in Call, ConnectSucceeds(c)
  PROVE  Inv'
<1> DEFINE n == call[c].conn
           k == call[c].request
           m == [mcp[n] EXCEPT !.client = k, !.state = "connected",
               !.timer = IdleTimeout, !.overtaken = FALSE]
<1>0. /\ Clients /\ ServersAreReachable /\ Manager /\ CallOK(c)
         /\ call[c].pc \in Starting
      /\ Numbered /\ InOrder /\ call \in [Call -> Calls]
  BY DEF Inv, ConnectSucceeds
<1>1. /\ n \in Conn /\ k \in Client /\ mcp[n].client = 0
         /\ mcp[n].entry # NoEntry /\ life[k] = "starting"
      /\ inflight = c /\ (n = connection \/ mcp[n].late) /\ mcp[n] \in Mcps
  BY <1>0, Numbers DEF CallOK, HasConnection, Connecting, Starting, Manager,
       Clients
<1>2. m \in Mcps
  BY <1>1, Numbers DEF Mcps
<1>3. /\ m.entry = mcp[n].entry /\ m.late = mcp[n].late /\ m.client = k
         /\ m.state = "connected"
  BY <1>1 DEF Mcps
<1>4. /\ mcp' = [mcp EXCEPT ![n] = m] /\ life' = [life EXCEPT ![k] = "open"]
      /\ call' = [call EXCEPT ![c] = [call[c] EXCEPT !.pc = "listTools"]]
      /\ UNCHANGED << managerVars, mapVars, closes >>
  BY <1>0 DEF ConnectSucceeds, Clients
<1> HIDE DEF m
<1>5. /\ mcp' \in [Conn -> Mcps] /\ mcp'[n] = m
         /\ \A i \in Conn \ {n} : mcp'[i] = mcp[i]
  BY <1>0, <1>1, <1>2, <1>4 DEF Clients
<1>6. /\ \A i \in Conn : mcp'[i].entry = mcp[i].entry
         /\ mcp'[i].late = mcp[i].late
  BY <1>3, <1>5
<1>7. /\ life' \in [Client -> {"gone", "starting", "open", "closing"}]
      /\ life'[k] = "open" /\ \A j \in Client \ {k} : life'[j] = life[j]
  BY <1>0, <1>1, <1>4 DEF Clients
<1>8. /\ call'[c] \in Calls /\ call' \in [Call -> Calls]
         /\ call'[c].pc = "listTools" /\ call'[c].conn = n
      /\ call'[c].request = k /\ call'[c].since = call[c].since
      /\ \A d \in Call \ {c} : call'[d] = call[d]
  <2>1. call[c] \in Calls
    BY <1>0
  <2> DEFINE r == [call[c] EXCEPT !.pc = "listTools"]
  <2>2. r \in Calls
    BY <2>1 DEF Calls, Connecting, Listing
  <2>3. r.pc = "listTools" /\ r.conn = n /\ r.request = k
        /\ r.since = call[c].since
    BY <2>1 DEF Calls
  <2> HIDE DEF r
  <2>4. call' = [call EXCEPT ![c] = r]
    BY <1>4 DEF r
  <2> QED BY <1>0, <2>2, <2>3, <2>4
<1> HIDE DEF n, k
<1>11. Clients'
  <2> SUFFICES ASSUME NEW i \in Conn, mcp'[i].client # 0
               PROVE /\ life'[mcp'[i].client] # "starting"
                     /\ mcp'[i].state = "connected" \/ mcp'[i].overtaken
                     /\ mcp'[i].entry # NoEntry
    BY <1>5, <1>7 DEF Clients
  <2>1. CASE i = n
    BY <1>1, <1>3, <1>5, <1>7, <2>1
  <2>2. CASE i # n
    <3>1. mcp'[i] = mcp[i] /\ mcp[i].client \in Client
      BY <1>0, <1>5, <2>2 DEF Clients, Mcps
    <3> QED BY <1>0, <1>7, <3>1 DEF Clients
  <2> QED BY <2>1, <2>2
<1>12. ServersAreReachable'
  <2> SUFFICES ASSUME NEW j \in Client, life'[j] = "open"
               PROVE \E i \in Conn : /\ mcp'[i].client = j
                                     /\ i = connection' \/ mcp'[i].late
    BY DEF ServersAreReachable
  <2>0. connection' = connection
    BY <1>4 DEF mapVars
  <2>1. CASE j = k
    BY <1>1, <1>3, <1>5, <2>0, <2>1
  <2>2. CASE j # k
    <3>1. PICK i \in Conn : mcp[i].client = j /\ (i = connection
          \/ mcp[i].late)
      BY <1>0, <1>7, <2>2 DEF ServersAreReachable
    <3>2. i # n
      BY <1>1, <3>1, Numbers
    <3> QED BY <1>5, <2>0, <3>1, <3>2
  <2> QED BY <2>1, <2>2
<1>13. Manager'
  <2>1. connection # 0 => mcp'[connection].entry = config
    BY <1>0, <1>6 DEF Manager
  <2>2. inflight = c /\ c # 0 /\ (n = connection \/ mcp'[n].late)
    BY <1>1, <1>6, Numbers
  <2>3. call'[c].pc \in Connecting
    BY <1>8 DEF Connecting, Listing
  <2> QED BY <1>0, <1>4, <1>8, <2>1, <2>2, <2>3 DEF Manager, managerVars,
        mapVars
<1>14. Numbered'
  BY <1>0, <1>4, <1>6, NumberedKept DEF managerVars, mapVars, Manager
<1>15. InOrder'
  <2>1. \A d \in Call : call'[d].pc = "none" <=> call[d].pc = "none"
    BY <1>0, <1>8 DEF Starting
  <2> QED BY <1>0, <2>1, InOrderKept
<1>16. ASSUME NEW d \in Call PROVE CallOK(d)'
  <2>0. CallOK(d) /\ config' = config /\ inflight' = inflight
    BY <1>4 DEF Inv, managerVars, mapVars
  <2>1. CASE d = c
    <3>1. mcp'[n].entry # NoEntry /\ (mcp'[n].entry \in call[c].since
          \/ mcp'[n].late) /\ config \in call[c].since
      BY <1>0, <1>1, <1>6 DEF CallOK, HasConnection, Connecting, Starting,
           Active, Over, n
    <3> QED BY <1>1, <1>8, <2>0, <2>1, <3>1 DEF CallOK, Starting
  <2>2. CASE d # c
    <3>1. call'[d] = call[d] /\ call[d].pc \notin {"dropping"} \cup Starting
      BY <1>1, <1>8, <2>0, <2>2 DEF CallOK
    <3>2. ASSUME call[d].pc = "requesting"
          PROVE  \/ life'[call[d].request] \in {"closing", "gone"}
                 \/ mcp'[call[d].conn].client = call[d].request
      <4>1. /\ call[d].conn \in Conn /\ call[d].request \in Client
            /\ \/ life[call[d].request] \in {"closing", "gone"}
               \/ mcp[call[d].conn].client = call[d].request
        BY <2>0, <3>2 DEF CallOK, HasConnection
      <4>2. call[d].request # k
        BY <1>0, <1>1, <4>1, Numbers DEF Clients
      <4> QED BY <1>1, <1>5, <1>7, <4>1, <4>2, Numbers
    <3>3. ASSUME call[d].pc \in HasConnection
          PROVE  /\ call[d].conn \in Conn
                 /\ mcp'[call[d].conn].entry # NoEntry
                 /\ \/ mcp'[call[d].conn].entry \in call[d].since
                    \/ mcp'[call[d].conn].late
      BY <1>6, <2>0, <3>3 DEF CallOK
    <3> QED BY <2>0, <3>1, <3>2, <3>3 DEF CallOK, Active
  <2> QED BY <2>1, <2>2
<1> QED BY <1>8, <1>11, <1>12, <1>13, <1>14, <1>15, <1>16 DEF Inv

\* No connection gets another entry, and a client that starts goes on.
EntriesKept == \A n \in Conn : mcp'[n].entry = mcp[n].entry
StartingKept == \A k \in Client : life[k] = "starting" => life'[k] = "starting"

\* A step that moves no call and keeps the connections preserves the invariant, ...
LEMMA NoCallStep ==
  ASSUME Inv, McpKept, LifeKept, EntriesKept, StartingKept,
         UNCHANGED << managerVars, mapVars, call >>,
         closes' \subseteq [conn : Conn, client : Client]
  PROVE  Inv'
<1>1. Clients' /\ ServersAreReachable'
  BY ClientsKept DEF Inv, mapVars
<1>2. Manager'
  BY ManagerKept, Owner DEF Inv, mapVars, managerVars
<1>3. Numbered'
  BY NumberedKept DEF Inv, EntriesKept, managerVars, mapVars, Manager
<1>4. /\ call' \in [Call -> Calls] /\ \A d \in Call : CallOK(d)'
      /\ \A d \in Call : call'[d].pc = "none" <=> call[d].pc = "none"
  BY NoCallMoves DEF managerVars, mapVars, StartingKept
<1>5. InOrder'
  BY <1>4, InOrderKept DEF Inv
<1> QED BY <1>1, <1>2, <1>3, <1>4, <1>5 DEF Inv

\* ... so does one that moves one call, ...
LEMMA OneCallStep ==
  ASSUME Inv, McpKept, LifeKept, EntriesKept, StartingKept,
         UNCHANGED << managerVars, mapVars, closes >>,
         NEW c \in Call, call' \in [Call -> Calls],
             \A d \in Call \ {c} : call'[d] = call[d],
         CallOK(c)', call'[c].pc # "none", call[c].pc # "none",
         inflight = c => call'[c].pc \in Connecting
             /\ call'[c].conn = call[c].conn
  PROVE  Inv'
<1>1. Clients' /\ ServersAreReachable'
  BY ClientsKept DEF Inv, mapVars
<1>2. Manager'
  <2>1. inflight # 0 => call'[inflight].pc \in Connecting
        /\ call'[inflight].conn = call[inflight].conn
    BY Owner
  <2>2. closes' \subseteq [conn : Conn, client : Client]
    BY DEF Inv, Manager
  <2> QED BY <2>1, <2>2, ManagerKept
<1>3. Numbered'
  BY NumberedKept DEF Inv, EntriesKept, managerVars, mapVars, Manager
<1>4. /\ \A d \in Call : CallOK(d)'
      /\ \A d \in Call : call'[d].pc = "none" <=> call[d].pc = "none"
  BY OthersKept DEF managerVars, mapVars, StartingKept
<1>5. InOrder'
  BY <1>4, InOrderKept DEF Inv
<1> QED BY <1>1, <1>2, <1>3, <1>4, <1>5 DEF Inv

\* ... and one that settles the attempt.
LEMMA SettleStep ==
  ASSUME Inv, McpKept, LifeKept, EntriesKept,
         UNCHANGED << managerVars, connection, closes >>,
         NEW c \in Call, inflight = c, NEW ok \in BOOLEAN, Settle(c, ok)
  PROVE  Inv'
<1>1. Clients' /\ ServersAreReachable'
  BY ClientsKept DEF Inv
<1>2. /\ call' \in [Call -> Calls] /\ \A d \in Call : CallOK(d)'
      /\ \A d \in Call : call'[d].pc = "none" <=> call[d].pc = "none"
      /\ inflight' = 0
  BY Settled DEF managerVars
<1>3. Manager'
  BY <1>2, ManagerSettled DEF Inv, Manager
<1>4. Numbered'
  BY NumberedKept DEF Inv, EntriesKept, managerVars, Manager
<1>5. InOrder'
  BY <1>2, InOrderKept DEF Inv
<1> QED BY <1>1, <1>2, <1>3, <1>4, <1>5 DEF Inv

\* A step that leaves connections and clients alone keeps them.
LEMMA SameKept ==
  ASSUME Inv, UNCHANGED << mcp, life >>
  PROVE  McpKept /\ LifeKept /\ EntriesKept /\ StartingKept
BY McpSame, LifeSame DEF Inv, EntriesKept, StartingKept

\* The steps of the user, the timers and the servers preserve the invariant.
LEMMA OutsideSteps ==
  ASSUME Inv,
         \/ \E r \in closes : CloseReturns(r)
         \/ Disconnect
         \/ \E n \in Conn : IdleTimerFires(n)
         \/ \E k \in Client : ServerStops(k) \/ ServerDies(k)
  PROVE  Inv'
<1>0. Clients /\ Manager /\ closes \subseteq [conn : Conn, client : Client]
  BY DEF Inv, Manager
<1>1. ASSUME NEW r \in closes, CloseReturns(r) PROVE Inv'
  <2>1. r.conn \in Conn
    BY <1>0
  <2>2. McpKept /\ \A i \in Conn : mcp'[i].client = mcp[i].client
        /\ mcp'[i].entry = mcp[i].entry
    BY <1>0, <1>1, <2>1, ClosedKept DEF CloseReturns
  <2>3. LifeKept
    BY <1>0, <1>1, <2>2, ClientSame DEF CloseReturns
  <2> QED
    BY <1>0, <1>1, <2>2, <2>3, NoCallStep DEF CloseReturns, EntriesKept,
         StartingKept
<1>2. ASSUME NEW n \in Conn, Close(n, FALSE), UNCHANGED << managerVars,
      mapVars, call >>
      PROVE  Inv'
  BY <1>0, <1>2, CloseKept, NoCallStep DEF EntriesKept, StartingKept
<1>3. ASSUME Disconnect PROVE Inv'
  BY <1>0, <1>2, <1>3, Numbers DEF Disconnect, Manager
<1>4. ASSUME NEW n \in Conn, IdleTimerFires(n) PROVE Inv'
  BY <1>2, <1>4 DEF IdleTimerFires
<1>5. ASSUME NEW k \in Client, ServerStops(k) PROVE Inv'
  <2>1. McpKept /\ EntriesKept
    BY <1>0, <1>5, McpSame DEF ServerStops, EntriesKept
  <2>2. LifeKept /\ StartingKept
    BY <1>0, <1>5 DEF ServerStops, LifeKept, StartingKept, Clients
  <2> QED BY <1>0, <1>5, <2>1, <2>2, NoCallStep DEF ServerStops
<1>6. ASSUME NEW k \in Client, ServerDies(k) PROVE Inv'
  <2>1. McpKept /\ LifeKept /\ EntriesKept /\ StartingKept
    BY <1>0, <1>6, DiesKept DEF EntriesKept, StartingKept
  <2> QED BY <1>0, <1>6, <2>1, NoCallStep DEF ServerDies
<1> QED BY <1>1, <1>3, <1>4, <1>5, <1>6

\* A call that does not own the attempt ends.
LEMMA CallEnds ==
  ASSUME Inv, McpKept, LifeKept, EntriesKept, StartingKept,
         UNCHANGED << managerVars, mapVars, closes >>,
         NEW c \in Call, call[c].pc # "none", inflight # c,
         NEW pc \in Over, call' = [call EXCEPT ![c] = Idle(pc)]
  PROVE  Inv'
<1>1. call \in [Call -> Calls] /\ Idle(pc) \in Calls
  BY DEF Inv, Idle, Calls, Over
<1>2. call' \in [Call -> Calls] /\ call'[c] = Idle(pc)
      /\ \A d \in Call \ {c} : call'[d] = call[d]
  BY <1>1
<1>3. CallOK(c)' /\ call'[c].pc # "none"
  BY <1>2, IdleOK
<1> QED BY <1>2, <1>3, OneCallStep

\* refreshMetadata ends, inside an attempt or outside.
LEMMA RefreshEndsInv ==
  ASSUME Inv, McpKept, LifeKept, EntriesKept, StartingKept,
         UNCHANGED << managerVars, connection, closes >>,
         NEW c \in Call, call[c].pc # "none", NEW ok \in BOOLEAN,
             RefreshEnds(c, ok)
  PROVE  Inv'
<1>1. CASE inflight = c /\ Settle(c, ok)
  BY <1>1, SettleStep
<1>2. CASE inflight # c /\ call' = [call EXCEPT ![c] = Idle(IF ok
      THEN "done" ELSE "failed")] /\ UNCHANGED inflight
  <2> DEFINE pc == IF ok THEN "done" ELSE "failed"
  <2>1. pc \in Over
    BY DEF Over
  <2> HIDE DEF pc
  <2>2. call' = [call EXCEPT ![c] = Idle(pc)]
    BY <1>2 DEF pc
  <2> QED BY <1>2, <2>1, <2>2, CallEnds DEF mapVars
<1> QED BY <1>1, <1>2 DEF RefreshEnds

\* A call that does not connect does not own the attempt.
LEMMA NotOwner ==
  ASSUME Inv, NEW c \in Call, call[c].pc \notin Connecting
  PROVE  inflight # c
BY Owner, Numbers

\* The connection of a call is touched.
LEMMA TouchStep ==
  ASSUME Inv, NEW c \in Call, call[c].pc \in HasConnection,
         mcp' = Touched(call[c].conn), UNCHANGED life
  PROVE McpKept /\ LifeKept /\ EntriesKept /\ StartingKept
         /\ \A i \in Conn : mcp'[i].client = mcp[i].client
<1>1. Clients /\ call[c].conn \in Conn
  BY DEF Inv, CallOK
<1>2. McpKept /\ \A i \in Conn : mcp'[i].client = mcp[i].client
  BY <1>1, TouchKept
<1>3. EntriesKept
  BY <1>1 DEF Touched, EntriesKept, Clients, Mcps
<1>4. LifeKept
  BY <1>1, <1>2, ClientSame
<1> QED BY <1>2, <1>3, <1>4 DEF StartingKept

\* A call asks the client of its connection.
LEMMA Asks ==
  ASSUME Inv, NEW c \in Call,
         call[c].pc \in HasConnection \ ({"dropping"} \cup Starting), McpKept,
         LifeKept, EntriesKept, StartingKept,
       \A i \in Conn : mcp'[i].client = mcp[i].client,
       UNCHANGED << managerVars, mapVars, closes >>,
       NEW k \in Client, k = mcp[call[c].conn].client,
       NEW pc \in {"listTools", "listResources", "requesting"},
       call' = [call EXCEPT ![c].request = k, ![c].pc = pc],
       inflight = c => pc # "requesting"
  PROVE Inv'
<1> DEFINE r == [call[c] EXCEPT !.request = k, !.pc = pc]
<1>1. CallOK(c) /\ call \in [Call -> Calls] /\ call[c] \in Calls /\ Clients
  BY DEF Inv
<1>2. r \in Calls /\ r.pc = pc /\ r.conn = call[c].conn /\ r.request = k
      /\ r.since = call[c].since
  BY <1>1 DEF Calls, Connecting, Listing
<1>3. call' = [call EXCEPT ![c] = r]
  BY <1>1
<1> HIDE DEF r
<1>4. call' \in [Call -> Calls] /\ call'[c] = r
      /\ \A d \in Call \ {c} : call'[d] = call[d]
  BY <1>1, <1>2, <1>3
<1>5. CallOK(c)'
  <2>1. config \in call[c].since /\ call[c].conn \in Conn
        /\ mcp[call[c].conn].entry # NoEntry
        /\ (mcp[call[c].conn].entry \in call[c].since
             \/ mcp[call[c].conn].late)
    BY <1>1 DEF CallOK, HasConnection, Connecting, Starting, Listing, Active,
         Over
  <2>2. mcp'[call[c].conn].entry # NoEntry
        /\ (mcp'[call[c].conn].entry \in call[c].since
             \/ mcp'[call[c].conn].late)
        /\ mcp'[call[c].conn].client = k
    BY <2>1 DEF McpKept
  <2>3. config' = config
    BY DEF managerVars
  <2>4. call'[c].pc \notin {"joined", "dropping"} \cup Starting
    BY <1>2, <1>4 DEF Starting
  <2>5. config' \in call'[c].since
    BY <1>2, <1>4, <2>1, <2>3
  <2>6. call'[c] \in Calls /\ call'[c].request = k
        /\ call'[c].conn = call[c].conn /\ call'[c].since = call[c].since
    BY <1>2, <1>4
  <2> QED BY <2>1, <2>2, <2>4, <2>5, <2>6 DEF CallOK
<1>6. call[c].pc # "none" /\ call'[c].pc # "none"
  BY <1>2, <1>4 DEF HasConnection, Connecting, Starting, Listing
<1>7. inflight = c => call'[c].pc \in Connecting
      /\ call'[c].conn = call[c].conn
  BY <1>2, <1>4 DEF Connecting, Listing
<1> QED BY <1>4, <1>5, <1>6, <1>7, OneCallStep

\* The attempt goes on over SSE.
LEMMA FallBackInv == ASSUME Inv, NEW c \in Call, FallBackToSse(c) PROVE Inv'
<1> DEFINE r == [call[c] EXCEPT !.pc = "startingSse"]
<1>1. CallOK(c) /\ call \in [Call -> Calls] /\ call[c] \in Calls
      /\ call[c].pc = "starting"
  BY DEF Inv, FallBackToSse
<1>2. r \in Calls /\ r.pc = "startingSse" /\ r.conn = call[c].conn
      /\ r.request = call[c].request /\ r.since = call[c].since
  BY <1>1 DEF Calls, Connecting, Starting
<1>3. call' = [call EXCEPT ![c] = r]
  BY <1>1 DEF FallBackToSse
<1> HIDE DEF r
<1>4. call' \in [Call -> Calls] /\ call'[c] = r
      /\ \A d \in Call \ {c} : call'[d] = call[d]
  BY <1>1, <1>2, <1>3
<1>5. UNCHANGED << managerVars, mapVars, mcp, life, closes >>
  BY DEF FallBackToSse
<1>6. CallOK(c)'
  BY <1>1, <1>2, <1>4, <1>5 DEF CallOK, HasConnection, Connecting, Starting,
       Active, Over, managerVars, mapVars
<1>7. inflight = c => call'[c].pc \in Connecting
      /\ call'[c].conn = call[c].conn
  BY <1>2, <1>4 DEF Connecting, Starting
<1> QED BY <1>1, <1>2, <1>4, <1>5, <1>6, <1>7, OneCallStep, SameKept

\* The attempt fails.
LEMMA ConnectFailsInv == ASSUME Inv, NEW c \in Call, ConnectFails(c) PROVE Inv'
<1> DEFINE n == call[c].conn
           k == call[c].request
<1>1. Clients /\ CallOK(c) /\ call[c].pc \in Starting
  BY DEF Inv, ConnectFails
<1>2. n \in Conn /\ k \in Client /\ mcp[n].client = 0 /\ inflight = c
      /\ life[k] = "starting"
  BY <1>1 DEF CallOK, HasConnection, Connecting, Starting
<1>3. McpKept /\ \A i \in Conn : mcp'[i].client = mcp[i].client
      /\ mcp'[i].entry = mcp[i].entry
  BY <1>1, <1>2, StateKept DEF ConnectFails
<1>4. LifeKept
  BY <1>1, <1>2, <1>3 DEF ConnectFails, LifeKept, Clients
<1> QED BY <1>2, <1>3, <1>4, SettleStep DEF ConnectFails, EntriesKept

\* The requests of refreshMetadata end.
LEMMA ListSteps ==
  ASSUME Inv, NEW c \in Call, ListToolsEnds(c) \/ ListResourcesEnds(c)
         \/ ListFails(c)
  PROVE  Inv'
<1>1. CASE ListToolsEnds(c)
  <2>1. call[c].pc = "listTools"
        /\ call[c].pc \in HasConnection \ ({"dropping"} \cup Starting)
        /\ CallOK(c) /\ Clients
    BY <1>1 DEF ListToolsEnds, HasConnection, Connecting, Starting, Listing,
         Inv
  <2>2. McpKept /\ LifeKept /\ EntriesKept /\ StartingKept
        /\ \A i \in Conn : mcp'[i].client = mcp[i].client
    BY <1>1, <2>1, TouchStep DEF ListToolsEnds
  <2> DEFINE k == mcp[call[c].conn].client
  <2>3. k \in Client \cup {0}
    BY <2>1 DEF CallOK, Clients, Mcps
  <2>4. CASE k # 0
    BY <1>1, <2>1, <2>2, <2>3, <2>4, Asks DEF ListToolsEnds, mapVars
  <2>5. CASE k = 0
    BY <1>1, <2>1, <2>2, <2>5, RefreshEndsInv DEF ListToolsEnds
  <2> QED BY <2>4, <2>5
<1>2. CASE ListResourcesEnds(c)
  <2>1. call[c].pc \in HasConnection /\ call[c].pc # "none"
    BY <1>2 DEF ListResourcesEnds, HasConnection, Connecting, Starting, Listing
  <2>2. CASE UNCHANGED mcp
    BY <1>2, <2>1, <2>2, SameKept, RefreshEndsInv DEF ListResourcesEnds
  <2>3. CASE mcp' = Touched(call[c].conn)
    <3>1. McpKept /\ LifeKept /\ EntriesKept /\ StartingKept
      BY <1>2, <2>1, <2>3, TouchStep DEF ListResourcesEnds
    <3> QED BY <1>2, <2>1, <3>1, RefreshEndsInv DEF ListResourcesEnds
  <2> QED BY <1>2, <2>2, <2>3 DEF ListResourcesEnds
<1>3. CASE ListFails(c)
  <2>1. call[c].pc # "none"
    BY <1>3 DEF ListFails, Listing
  <2> QED BY <1>3, <2>1, SameKept, RefreshEndsInv DEF ListFails
<1> QED BY <1>1, <1>2, <1>3

\* The request of a call is sent, is answered, or throws.
LEMMA RequestSteps ==
  ASSUME Inv, NEW c \in Call, Request(c) \/ RequestAnswered(c) \/ CallFails(c)
  PROVE  Inv'
<1>1. CASE Request(c)
  <2>1. call[c].pc = "connected"
        /\ call[c].pc \in HasConnection \ ({"dropping"} \cup Starting)
        /\ CallOK(c) /\ Clients
    BY <1>1 DEF Request, HasConnection, Starting, Inv
  <2>2. McpKept /\ LifeKept /\ EntriesKept /\ StartingKept
        /\ \A i \in Conn : mcp'[i].client = mcp[i].client
    BY <1>1, <2>1, TouchStep DEF Request
  <2> DEFINE k == mcp[call[c].conn].client
             pc == IF call[c].kind = "refresh" THEN "listTools"
                 ELSE "requesting"
  <2>3. k \in Client
    BY <1>1, <2>1 DEF Request, CallOK, Clients, Mcps
  <2>4. inflight # c
    BY <2>1, NotOwner DEF Connecting, Starting, Listing
  <2>5. pc \in {"listTools", "listResources", "requesting"}
    OBVIOUS
  <2>6. call' = [call EXCEPT ![c].request = k, ![c].pc = pc]
        /\ UNCHANGED << managerVars, mapVars, closes >>
    BY <1>1 DEF Request
  <2> HIDE DEF pc, k
  <2> QED BY <2>1, <2>2, <2>3, <2>4, <2>5, <2>6, Asks DEF k
<1>2. CASE RequestAnswered(c)
  <2>1. call[c].pc \in HasConnection /\ call[c].pc # "none"
    BY <1>2 DEF RequestAnswered, HasConnection
  <2>2. McpKept /\ LifeKept /\ EntriesKept /\ StartingKept
    BY <1>2, <2>1, TouchStep DEF RequestAnswered
  <2>3. inflight # c
    BY <1>2, NotOwner DEF Connecting, Starting, Listing, RequestAnswered
  <2>4. "done" \in Over
    BY DEF Over
  <2> QED BY <1>2, <2>1, <2>2, <2>3, <2>4, CallEnds DEF RequestAnswered
<1>3. CASE CallFails(c)
  <2>1. call[c].pc # "none" /\ call[c].pc \notin Connecting
        /\ "failed" \in Over
    BY <1>3 DEF CallFails, RequestThrows, Connecting, Starting, Listing, Over
  <2> QED BY <1>3, <2>1, NotOwner, SameKept, CallEnds DEF CallFails
<1> QED BY <1>1, <1>2, <1>3

\* A new client has a number that nothing refers to.
LEMMA NewClientUnused ==
  ASSUME NEW k \in Client, Unused(k)
  PROVE NewClient \in Client /\ Unused(NewClient)
BY DEF NewClient

\* A client starts for the attempt of c, the only call that connects.
LEMMA Starts ==
  ASSUME Inv, NEW c \in Call, NEW n \in Conn, NEW locals \in Calls,
         StartClient(n, locals), inflight' = c,
         McpKept, \A i \in Conn : mcp'[i].client = mcp[i].client,
             mcp'[n].entry # NoEntry,
         mcp[n].client = 0, config' = config, config \in locals.since,
         mcp'[n].entry \in locals.since \/ mcp'[n].late,
         \A d \in Call : call[d].pc \in {"dropping"} \cup Starting => d = c
  PROVE  /\ LifeKept /\ call' \in [Call -> Calls]
         /\ call'[c].pc = "starting" /\ call'[c].conn = n
              /\ \A d \in Call \ {c} : call'[d] = call[d]
         /\ \A d \in Call : CallOK(d)'
<1>1. PICK k \in Client : Unused(k) /\ k = NewClient
  BY NewClientUnused DEF StartClient
<1> DEFINE r == [locals EXCEPT !.conn = n, !.request = k, !.pc = "starting"]
<1>2. r \in Calls /\ r.conn = n /\ r.request = k /\ r.pc = "starting"
      /\ r.since = locals.since
  BY DEF Calls, Connecting, Starting
<1>3. call' = [call EXCEPT ![c] = r] /\ life' = [life EXCEPT ![k] = "starting"]
  BY <1>1 DEF StartClient
<1> HIDE DEF r
<1>4. Clients /\ call \in [Call -> Calls]
  BY DEF Inv
<1>5. call' \in [Call -> Calls] /\ call'[c] = r
      /\ \A d \in Call \ {c} : call'[d] = call[d]
  BY <1>2, <1>3, <1>4
<1>6. LifeKept /\ life'[k] = "starting"
  BY <1>1, <1>3, <1>4 DEF LifeKept, Clients
<1>7. CallOK(c)'
  <2>1. mcp'[n].client = 0
    OBVIOUS
  <2> QED BY <1>2, <1>5, <1>6, <2>1 DEF CallOK, HasConnection, Connecting,
        Starting, Active, Over
<1>8. ASSUME NEW d \in Call, d # c PROVE CallOK(d)'
  <2>1. CallOK(d) /\ call'[d] = call[d]
        /\ call[d].pc \notin {"dropping"} \cup Starting
    BY <1>5, <1>8 DEF Inv
  <2>2. inflight' # 0
    BY Numbers
  <2> QED BY <1>4, <1>6, <2>1, <2>2, CallKept
<1> QED BY <1>2, <1>5, <1>6, <1>7, <1>8

\* The earlier client has closed: the new one starts.
LEMMA DroppedInv == ASSUME Inv, NEW c \in Call, Dropped(c) PROVE Inv'
<1> DEFINE n == call[c].conn
<1>1. Clients /\ CallOK(c) /\ call[c].pc = "dropping" /\ call[c] \in Calls
  BY DEF Inv, Dropped
<1>2. n \in Conn /\ mcp[n].client = 0 /\ inflight = c /\ mcp[n].entry # NoEntry
      /\ (mcp[n].entry \in call[c].since \/ mcp[n].late)
           /\ config \in call[c].since
  BY <1>1 DEF CallOK, HasConnection, Connecting, Active, Over, Starting,
       Listing
<1>3. McpKept /\ \A i \in Conn : mcp'[i].client = mcp[i].client
      /\ mcp'[i].entry = mcp[i].entry
  BY <1>1, <1>2, StateKept DEF Dropped
<1>4. mcp'[n].entry # NoEntry /\ (mcp'[n].entry \in call[c].since
      \/ mcp'[n].late)
  BY <1>2, <1>3 DEF McpKept
<1>5. UNCHANGED << managerVars, mapVars, closes >> /\ StartClient(n, call[c])
  BY DEF Dropped, mapVars
<1>6. \A d \in Call : call[d].pc \in {"dropping"} \cup Starting => d = c
  BY <1>2 DEF Inv, CallOK
<1>7. /\ LifeKept /\ call' \in [Call -> Calls]
      /\ call'[c].pc = "starting" /\ call'[c].conn = n
           /\ \A d \in Call \ {c} : call'[d] = call[d]
      /\ \A d \in Call : CallOK(d)'
  BY <1>1, <1>2, <1>3, <1>4, <1>5, <1>6, Starts DEF managerVars, mapVars
<1>8. Clients' /\ ServersAreReachable'
  BY <1>3, <1>5, <1>7, ClientsKept DEF Inv, mapVars
<1>9. Manager'
  <2>1. closes' \subseteq [conn : Conn, client : Client]
    BY <1>5 DEF Inv, Manager
  <2>2. call'[c].pc \in Connecting
    BY <1>7 DEF Connecting, Starting
  <2> QED BY <1>2, <1>3, <1>5, <1>7, <2>1, <2>2, ManagerKept
<1>10. Numbered'
  BY <1>3, <1>5, NumberedKept DEF Inv, managerVars, mapVars, Manager
<1>11. InOrder'
  <2>1. \A d \in Call : call'[d].pc = "none" <=> call[d].pc = "none"
    BY <1>1, <1>7
  <2> QED BY <2>1, InOrderKept DEF Inv
<1> QED BY <1>7, <1>8, <1>9, <1>10, <1>11 DEF Inv

\* The provers do not see this by themselves where counts are involved.
LEMMA Commutes == \A i \in Nat : 1 + i = i + 1
OBVIOUS

\* The connection of a new attempt: the one of the map, or a new one, whose
\* number has not been used.
LEMMA AttemptConnection ==
  ASSUME Inv, NEW n, n = IF connection # 0 THEN connection ELSE NewConnection,
         config # NoEntry
  PROVE  /\ n \in Conn /\ mcp[n].entry \in {NoEntry, config}
         /\ mcp[n].entry = NoEntry => n = Cardinality(Used) + 1
              /\ mcp[n].client = 0 /\ connection = 0
         /\ mcp[n].entry # NoEntry => connection # 0
<1>1. Numbered /\ Manager /\ Clients
  BY DEF Inv
<1>2. CASE connection # 0
  BY <1>1, <1>2 DEF Manager
<1>3. CASE connection = 0
  <2> DEFINE u == Cardinality(Used)
  <2>0. u \in Nat
    BY <1>1 DEF Numbered
  <2>1. n = u + 1
    <3>1. n = 1 + u
      BY <1>3 DEF NewConnection, Used
    <3> QED BY <2>0, <3>1, Commutes
  <2>2. Used = 1..u /\ u \in Nat /\ u <= reloads
        /\ reloads \in 0..MaxReloads /\ MaxReloads \in Nat
    BY <1>1, <1>3, McpManagerAssumption DEF Numbered, Manager,
         McpManagerAssumption
  <2> HIDE DEF u
  <2>3. n \in Conn /\ n \notin Used
    <3>1. u \in Nat /\ u + 1 \in 1..(MaxReloads + 1) /\ u + 1 \notin 1..u
      BY <2>2
    <3> QED BY <2>1, <2>2, <3>1 DEF Conn
  <2>4. mcp[n].entry = NoEntry
    BY <2>3 DEF Used
  <2> QED BY <1>1, <1>3, <2>1, <2>3, <2>4 DEF Clients, u
<1> QED BY <1>2, <1>3

\* A connection is created: they stay numbered.
LEMMA NumberedMore ==
  ASSUME Numbered, NEW n \in Conn, n = Cardinality(Used) + 1,
         mcp'[n].entry # NoEntry,
         \A i \in Conn \ {n} : mcp'[i].entry = mcp[i].entry,
             mcp[n].entry = NoEntry,
         connection = 0, connection' = n, reloads' = reloads, reloads \in Nat
  PROVE  Numbered'
<1> DEFINE u == Cardinality(Used)
<1>1. Used = 1..u /\ u \in Nat /\ u <= reloads
  BY DEF Numbered
<1>2. Used' = Used \cup {n}
  BY DEF Used
<1>3. Used \cup {n} = 1..(u + 1)
  <2> HIDE DEF u
  <2>1. n = u + 1
    BY DEF u
  <2> QED BY <1>1, <2>1
<1>4. Cardinality(1..(u + 1)) = u + 1
  <2> HIDE DEF u
  <2>1. Cardinality(1..(u + 1)) = IF 1 > u + 1 THEN 0 ELSE (u + 1) - 1 + 1
    BY <1>1, FS_Interval
  <2> QED BY <1>1, <2>1
<1>5. u' = u + 1
  BY <1>2, <1>3, <1>4
<1>6. connection' # 0 /\ u + 1 \in Nat /\ u + 1 <= reloads + 1
  <2> HIDE DEF u
  <2> QED BY <1>1, Numbers
<1> QED BY <1>2, <1>3, <1>5, <1>6 DEF Numbered

\* How c begins an attempt.
AttemptBegins(c, locals) ==
  /\ config # NoEntry /\ inflight = 0 /\ inflight' = c
  /\ connection' = IF connection # 0 THEN connection ELSE NewConnection
  /\ Connect(connection', config, locals)
  /\ UNCHANGED << managerVars, closes >>

\* A new attempt keeps the connections numbered.
LEMMA AttemptNumbered ==
  ASSUME Inv, NEW c \in Call, NEW locals, AttemptBegins(c, locals), McpKept,
         NEW n \in Conn, n = connection', mcp'[n].entry = config,
             \A i \in Conn \ {n} : mcp'[i] = mcp[i]
  PROVE  Numbered'
<1>1. Numbered /\ Manager /\ config # NoEntry /\ reloads' = reloads
      /\ reloads \in Nat
  BY McpManagerAssumption DEF Inv, Manager, AttemptBegins, managerVars,
       McpManagerAssumption
<1>2. /\ mcp[n].entry \in {NoEntry, config}
      /\ mcp[n].entry = NoEntry => n = Cardinality(Used) + 1 /\ connection = 0
      /\ mcp[n].entry # NoEntry => connection # 0
  BY AttemptConnection DEF AttemptBegins
<1>3. CASE mcp[n].entry = NoEntry
  BY <1>1, <1>2, <1>3, NumberedMore
<1>4. CASE mcp[n].entry # NoEntry
  <2>1. \A i \in Conn : mcp'[i].entry = mcp[i].entry
    BY <1>2, <1>4
  <2>2. connection' = connection
    BY <1>2, <1>4 DEF AttemptBegins
  <2> QED BY <1>1, <2>1, <2>2, NumberedKept
<1> QED BY <1>3, <1>4

\* An attempt that starts its client at once.
LEMMA AttemptStarts ==
  ASSUME Inv, NEW c \in Call, NEW locals \in Calls, config \in locals.since,
         AttemptBegins(c, locals), NEW n \in Conn, n = connection',
             mcp[n].client = 0,
         StartClient(n, locals),
         mcp' = [mcp EXCEPT ![n].entry = IF @ = NoEntry THEN config ELSE @,
             ![n].state = "connecting"]
  PROVE  /\ McpKept /\ LifeKept /\ call' \in [Call -> Calls]
         /\ mcp'[n].entry = config /\ \A i \in Conn \ {n} : mcp'[i] = mcp[i]
         /\ call'[c].pc \in Connecting /\ call'[c].conn = n
              /\ \A d \in Call \ {c} : call'[d] = call[d]
         /\ \A d \in Call : CallOK(d)'
<1> DEFINE m == [mcp[n] EXCEPT !.entry = IF @ = NoEntry THEN config ELSE @,
      !.state = "connecting"]
<1>1. Clients /\ Manager /\ mcp[n] \in Mcps /\ config # NoEntry
      /\ mcp[n].entry \in {NoEntry, config}
  BY AttemptConnection DEF Inv, AttemptBegins, Clients
<1>2. m \in Mcps
  BY <1>1 DEF Mcps, Manager
<1>3. m.entry = config /\ m.late = mcp[n].late /\ m.client = 0
  BY <1>1 DEF Mcps
<1>4. mcp' = [mcp EXCEPT ![n] = m]
  BY <1>1 DEF Clients
<1> HIDE DEF m
<1>5. McpKept /\ mcp'[n] = m /\ \A i \in Conn \ {n} : mcp'[i] = mcp[i]
  <2>1. mcp[n].entry # NoEntry => m.entry = mcp[n].entry
    BY <1>1, <1>3
  <2>2. mcp[n].late => m.late
    BY <1>3
  <2>3. m.client \in {0, mcp[n].client}
    BY <1>3
  <2>4. m.client # 0 => m.state = "connected" \/ m.overtaken
    BY <1>3
  <2>5. mcp' = [mcp EXCEPT ![n] = m] /\ n \in Conn /\ Clients
    BY <1>1, <1>4
  <2> QED BY <1>2, <2>1, <2>2, <2>3, <2>4, <2>5, McpUpdate, Zenon
<1>6. \A i \in Conn : mcp'[i].client = mcp[i].client
  BY <1>3, <1>5
<1>7. config' = config /\ inflight' = c
      /\ \A d \in Call : call[d].pc \notin {"dropping"} \cup Starting
  BY Numbers DEF AttemptBegins, managerVars, Inv, CallOK
<1>8. /\ LifeKept /\ call' \in [Call -> Calls]
      /\ call'[c].pc = "starting" /\ call'[c].conn = n
           /\ \A d \in Call \ {c} : call'[d] = call[d]
      /\ \A d \in Call : CallOK(d)'
  BY <1>1, <1>3, <1>5, <1>6, <1>7, Starts
<1> QED BY <1>3, <1>5, <1>8 DEF Connecting, Starting

\* An attempt that closes an earlier client first.
LEMMA AttemptDrops ==
  ASSUME Inv, NEW c \in Call, NEW locals \in Calls, config \in locals.since,
         AttemptBegins(c, locals), NEW n \in Conn, n = connection',
             NEW k \in Client, k = mcp[n].client,
         life' = [life EXCEPT ![k] = Closing(k)],
             mcp' = [mcp EXCEPT ![n].client = 0],
         call' = [call EXCEPT ![c] = [locals EXCEPT !.conn = n, !.request = k,
             !.pc = "dropping"]]
  PROVE  /\ McpKept /\ LifeKept /\ call' \in [Call -> Calls]
         /\ mcp'[n].entry = config /\ \A i \in Conn \ {n} : mcp'[i] = mcp[i]
         /\ call'[c].pc \in Connecting /\ call'[c].conn = n
              /\ \A d \in Call \ {c} : call'[d] = call[d]
         /\ \A d \in Call : CallOK(d)'
<1> DEFINE m == [mcp[n] EXCEPT !.client = 0]
           r == [locals EXCEPT !.conn = n, !.request = k, !.pc = "dropping"]
<1>1. Clients /\ Manager /\ mcp[n] \in Mcps /\ config # NoEntry
      /\ mcp[n].entry = config /\ k # 0
      /\ call \in [Call -> Calls]
  BY AttemptConnection, Numbers DEF Inv, AttemptBegins, Clients
<1>2. m \in Mcps
  BY <1>1 DEF Mcps
<1>3. m.entry = mcp[n].entry /\ m.late = mcp[n].late /\ m.client = 0
  BY <1>1 DEF Mcps
<1>4. r \in Calls /\ r.conn = n /\ r.request = k /\ r.pc = "dropping"
      /\ r.since = locals.since
  BY DEF Calls, Connecting
<1>5. mcp' = [mcp EXCEPT ![n] = m] /\ call' = [call EXCEPT ![c] = r]
  BY <1>1 DEF Clients
<1> HIDE DEF m, r
<1>6. McpKept /\ mcp'[n] = m /\ \A i \in Conn \ {n} : mcp'[i] = mcp[i]
  <2>1. mcp[n].entry # NoEntry => m.entry = mcp[n].entry
    BY <1>3
  <2>2. mcp[n].late => m.late
    BY <1>3
  <2>3. m.client \in {0, mcp[n].client}
    BY <1>3
  <2>4. m.client # 0 => m.state = "connected" \/ m.overtaken
    BY <1>3
  <2>5. mcp' = [mcp EXCEPT ![n] = m] /\ n \in Conn /\ Clients
    BY <1>1, <1>5
  <2> QED BY <1>2, <2>1, <2>2, <2>3, <2>4, <2>5, McpUpdate, Zenon
<1>7. LifeKept /\ StartingKept
  BY <1>1, <1>6, ClosingKept DEF StartingKept
<1>8. call' \in [Call -> Calls] /\ call'[c] = r
      /\ \A d \in Call \ {c} : call'[d] = call[d]
  BY <1>1, <1>4, <1>5
<1>9. config' = config /\ inflight' = c /\ c # 0
      /\ \A d \in Call : call[d].pc \notin {"dropping"} \cup Starting
  BY Numbers DEF AttemptBegins, managerVars, Inv, CallOK
<1>10. CallOK(c)'
  BY <1>1, <1>3, <1>4, <1>6, <1>8, <1>9 DEF CallOK, HasConnection, Connecting,
       Starting, Active, Over
<1>11. ASSUME NEW d \in Call, d # c PROVE CallOK(d)'
  <2>1. CallOK(d) /\ call'[d] = call[d]
    BY <1>8, <1>11 DEF Inv
  <2> QED BY <1>1, <1>6, <1>7, <1>9, <2>1, CallKept
<1> QED BY <1>1, <1>3, <1>4, <1>6, <1>7, <1>8, <1>10, <1>11 DEF Connecting

\* A new attempt preserves the parts of the invariant.
LEMMA AttemptInv ==
  ASSUME Inv, NEW c \in Call, NEW locals \in Calls, config \in locals.since,
         AttemptBegins(c, locals)
  PROVE  /\ Numbered' /\ Manager' /\ Clients' /\ ServersAreReachable'
            /\ call' \in [Call -> Calls]
         /\ \A d \in Call : CallOK(d)'
         /\ call'[c].pc # "none" /\ \A d \in Call \ {c} : call'[d] = call[d]
<1> DEFINE n == connection'
           k == mcp[n].client
<1>1. n \in Conn /\ k \in Client \cup {0} /\ Clients /\ Manager
  BY AttemptConnection DEF AttemptBegins, Inv, Clients, Mcps
<1>2. /\ McpKept /\ LifeKept /\ call' \in [Call -> Calls]
      /\ mcp'[n].entry = config /\ \A i \in Conn \ {n} : mcp'[i] = mcp[i]
      /\ call'[c].pc \in Connecting /\ call'[c].conn = n
           /\ \A d \in Call \ {c} : call'[d] = call[d]
      /\ \A d \in Call : CallOK(d)'
  <2>1. CASE k = 0
    <3>1. /\ StartClient(n, locals)
          /\ mcp' = [mcp EXCEPT ![n].entry = IF @ = NoEntry THEN config ELSE @,
               ![n].state = "connecting"]
      BY <2>1 DEF AttemptBegins, Connect
    <3> QED BY <1>1, <2>1, <3>1, AttemptStarts
  <2>2. CASE k # 0
    <3>1. /\ life' = [life EXCEPT ![k] = Closing(k)]
             /\ mcp' = [mcp EXCEPT ![n].client = 0]
          /\ call' = [call EXCEPT ![c] = [locals EXCEPT !.conn = n,
               !.request = k, !.pc = "dropping"]]
      BY <2>2 DEF AttemptBegins, Connect
    <3>2. k \in Client
      BY <1>1, <2>2
    <3> HIDE DEF k
    <3> QED BY <1>1, <3>1, <3>2, AttemptDrops DEF k
  <2> QED BY <2>1, <2>2
<1>3. Clients' /\ ServersAreReachable'
  <2>1. \A i \in Conn : i = connection => i = connection' \/ mcp'[i].client = 0
    BY Numbers DEF AttemptBegins
  <2> QED BY <1>2, <2>1, ClientsKept DEF Inv
<1>4. Numbered'
  BY <1>1, <1>2, AttemptNumbered
<1>5. Manager'
  BY <1>1, <1>2, Numbers DEF AttemptBegins, Manager, managerVars
<1>6. call'[c].pc # "none"
  BY <1>2 DEF Connecting, Starting, Listing
<1> QED BY <1>2, <1>3, <1>4, <1>5, <1>6

\* ensureConnected preserves the parts of the invariant.
LEMMA EnsureInv ==
  ASSUME Inv, NEW c \in Call, NEW locals \in Calls, config \in locals.since,
         inflight # c,
         EnsureConnected(c, locals), UNCHANGED << managerVars, closes >>
  PROVE  /\ Numbered' /\ Manager' /\ Clients' /\ ServersAreReachable'
            /\ call' \in [Call -> Calls]
         /\ \A d \in Call : CallOK(d)'
         /\ call'[c].pc # "none" /\ \A d \in Call \ {c} : call'[d] = call[d]
<1>0. Numbered /\ Manager /\ Clients /\ ServersAreReachable
      /\ call \in [Call -> Calls]
  BY DEF Inv
<1>1. ASSUME NEW r \in Calls, call' = [call EXCEPT ![c] = r], CallOK(c)',
      r.pc # "none",
             UNCHANGED << mapVars, mcp, life >>
      PROVE  /\ Numbered' /\ Manager' /\ Clients' /\ ServersAreReachable'
                /\ call' \in [Call -> Calls]
             /\ \A d \in Call : CallOK(d)'
             /\ call'[c].pc # "none"
                  /\ \A d \in Call \ {c} : call'[d] = call[d]
  <2>1. call' \in [Call -> Calls] /\ call'[c] = r
        /\ \A d \in Call \ {c} : call'[d] = call[d]
    BY <1>0, <1>1
  <2>2. McpKept /\ LifeKept /\ EntriesKept /\ StartingKept
    BY <1>1, SameKept
  <2>3. \A d \in Call : CallOK(d)'
    BY <1>1, <2>1, <2>2, OthersKept DEF managerVars, mapVars, StartingKept
  <2>4. Clients' /\ ServersAreReachable'
    BY <1>0, <1>1, <2>2, ClientsKept DEF mapVars
  <2>5. Manager'
    <3>1. inflight # 0 => call'[inflight].pc \in Connecting
          /\ call'[inflight].conn = call[inflight].conn
      BY <2>1, Owner
    <3>2. closes' \subseteq [conn : Conn, client : Client]
      BY <1>0 DEF Manager
    <3> QED BY <1>1, <2>2, <3>1, <3>2, ManagerKept
  <2>6. Numbered'
    BY <1>0, <1>1, <2>2, NumberedKept, McpManagerAssumption DEF EntriesKept,
         managerVars, mapVars, Manager, McpManagerAssumption
  <2> QED BY <1>1, <2>1, <2>3, <2>4, <2>5, <2>6
<1>2. CASE config = NoEntry /\ call' = [call EXCEPT ![c] = Idle("failed")]
      /\ UNCHANGED << mapVars, mcp, life >>
  <2>1. Idle("failed") \in Calls /\ Idle("failed").pc = "failed"
        /\ "failed" \in Over
    BY DEF Idle, Calls, Over
  <2>2. call'[c] = Idle("failed")
    BY <1>0, <1>2
  <2> QED BY <1>1, <1>2, <2>1, <2>2, IdleOK
<1>3. CASE /\ config # NoEntry
           /\ connection # 0 /\ IsConnected(connection)
           /\ call' = [call EXCEPT ![c] = [locals EXCEPT !.pc = "connected",
                !.conn = connection, !.request = 0]]
           /\ UNCHANGED << mapVars, mcp, life >>
  <2> DEFINE r == [locals EXCEPT !.pc = "connected", !.conn = connection,
        !.request = 0]
  <2>1. connection \in Conn /\ mcp[connection].entry = config
    BY <1>0, <1>3 DEF Manager
  <2>2. r \in Calls /\ r.pc = "connected" /\ r.conn = connection
        /\ r.since = locals.since
    BY <2>1 DEF Calls
  <2>3. call' = [call EXCEPT ![c] = r]
    BY <1>3
  <2> HIDE DEF r
  <2>4. call'[c] = r
    BY <1>0, <2>3
  <2>5. CallOK(c)'
    BY <1>3, <2>1, <2>2, <2>4 DEF CallOK, HasConnection, Connecting, Starting,
         managerVars
  <2> QED BY <1>1, <1>3, <2>2, <2>3, <2>5
<1>4. CASE /\ inflight # 0
           /\ call' = [call EXCEPT ![c] = [locals EXCEPT !.pc = "joined",
                !.conn = 0, !.request = 0]]
           /\ UNCHANGED << mapVars, mcp, life >>
  <2> DEFINE r == [locals EXCEPT !.pc = "joined", !.conn = 0, !.request = 0]
  <2>2. r \in Calls /\ r.pc = "joined" /\ r.since = locals.since
    BY DEF Calls
  <2>3. call' = [call EXCEPT ![c] = r]
    BY <1>4
  <2> HIDE DEF r
  <2>4. call'[c] = r
    BY <1>0, <2>3
  <2>5. CallOK(c)'
    BY <1>4, <2>2, <2>4 DEF CallOK, HasConnection, Connecting, Starting,
         Listing, managerVars, mapVars
  <2> QED BY <1>1, <1>4, <2>2, <2>3, <2>5
<1>5. CASE AttemptBegins(c, locals)
  BY <1>5, AttemptInv
<1> QED BY <1>2, <1>3, <1>4, <1>5 DEF EnsureConnected, AttemptBegins

\* callTool tries once more.
LEMMA RepeatCallInv ==
  ASSUME Inv, NEW c \in Call, RepeatCall(c)
  PROVE  Inv' /\ \A d \in Call \ {c} : call'[d] = call[d]
<1> DEFINE r == [call[c] EXCEPT !.tries = 2]
<1>1. CallOK(c) /\ call[c] \in Calls /\ call[c].pc \in {"requesting",
      "connected"}
  BY DEF Inv, RepeatCall, RequestThrows
<1>2. r \in Calls /\ r.since = call[c].since /\ config \in call[c].since
  BY <1>1 DEF Calls, CallOK, Active, Over
<1>3. inflight # c
  BY <1>1, NotOwner DEF Connecting, Starting, Listing
<1>4. EnsureConnected(c, r) /\ UNCHANGED << managerVars, closes >>
  BY DEF RepeatCall
<1> HIDE DEF r
<1>5. /\ Numbered' /\ Manager' /\ Clients' /\ ServersAreReachable'
         /\ call' \in [Call -> Calls]
      /\ \A d \in Call : CallOK(d)'
      /\ call'[c].pc # "none" /\ \A d \in Call \ {c} : call'[d] = call[d]
  BY <1>2, <1>3, <1>4, EnsureInv
<1>6. InOrder'
  <2>1. \A d \in Call : call'[d].pc = "none" <=> call[d].pc = "none"
    BY <1>1, <1>5
  <2> QED BY <2>1, InOrderKept DEF Inv
<1> QED BY <1>5, <1>6 DEF Inv

\* The locals of a call that begins have their types.
LEMMA FreshCall ==
  ASSUME NEW kind \in Kinds, NEW e \in Entries \cup {NoEntry}
  PROVE  LET j == [Idle("none") EXCEPT !.kind = kind, !.tries = 1,
         !.since = {e}]
         IN  j \in Calls /\ e \in j.since
<1> DEFINE i == Idle("none")
<1>1. i \in Calls
  BY DEF Idle, Calls
<1> HIDE DEF i
<1>2. [i EXCEPT !.kind = kind] \in Calls
  BY <1>1 DEF Calls
<1>3. \A j \in Calls : [j EXCEPT !.tries = 1] \in Calls
  BY DEF Calls
<1>5. ASSUME NEW s \in SUBSET (Entries \cup {NoEntry}), NEW j \in Calls
      PROVE  [j EXCEPT !.since = s] \in Calls
             /\ [j EXCEPT !.since = s].since = s
  BY DEF Calls
<1>4. {e} \in SUBSET (Entries \cup {NoEntry}) /\ e \in {e}
  OBVIOUS
<1> QED BY <1>2, <1>3, <1>4, <1>5 DEF i

\* A call begins.
LEMMA BeginInv ==
  ASSUME Inv, NEW c \in Call, NEW kind \in Kinds, Begin(c, kind)
  PROVE  Inv' /\ call[c].pc = "none"
         /\ \A d \in Call \ {c} : call'[d] = call[d]
<1> DEFINE r == [Idle("none") EXCEPT !.kind = kind, !.tries = 1,
      !.since = {config}]
           u == Cardinality(Begun)
<1>1. InOrder /\ u \in Nat /\ Begun = 1..u
  BY DEF Inv, InOrder
<1>2. c = u + 1
  <2>1. c = 1 + u
    BY DEF Begin, Begun
  <2> QED BY <1>1, <2>1, Commutes
<1>3. call[c].pc = "none"
  <2>1. c \notin Begun
    <3> HIDE DEF u
    <3> QED BY <1>1, <1>2
  <2> QED BY <2>1 DEF Begun
<1>4. r \in Calls /\ config \in r.since
  <2>1. config \in Entries \cup {NoEntry}
    BY DEF Inv, Manager
  <2> QED BY <2>1, FreshCall
<1>5. inflight # c
  BY <1>3, NotOwner DEF Connecting, Starting, Listing
<1>6. EnsureConnected(c, r) /\ UNCHANGED << managerVars, closes >>
  BY DEF Begin
<1> HIDE DEF r
<1>7. /\ Numbered' /\ Manager' /\ Clients' /\ ServersAreReachable'
         /\ call' \in [Call -> Calls]
      /\ \A d \in Call : CallOK(d)'
      /\ call'[c].pc # "none" /\ \A d \in Call \ {c} : call'[d] = call[d]
  BY <1>4, <1>5, <1>6, EnsureInv
<1>8. InOrder'
  <2>1. Begun' = Begun \cup {c}
    BY <1>7 DEF Begun
  <2>2. Begun \cup {c} = 1..(u + 1)
    <3> HIDE DEF u
    <3> QED BY <1>1, <1>2
  <2>3. Cardinality(1..(u + 1)) = u + 1
    <3> HIDE DEF u
    <3>1. Cardinality(1..(u + 1)) = IF 1 > u + 1 THEN 0 ELSE (u + 1) - 1 + 1
      BY <1>1, FS_Interval
    <3> QED BY <1>1, <3>1
  <2>4. u' = u + 1 /\ u + 1 \in Nat
    <3>1. u' = Cardinality(1..(u + 1))
      BY <2>1, <2>2
    <3> HIDE DEF u
    <3> QED BY <1>1, <2>3, <3>1
  <2> QED BY <2>1, <2>2, <2>4 DEF InOrder
<1> QED BY <1>3, <1>7, <1>8 DEF Inv

\* The connection leaves the map and is closed, late if there is an attempt.
LEMMA Drops ==
  ASSUME Inv, Drop
  PROVE  /\ McpKept /\ LifeKept /\ StartingKept /\ EntriesKept
         /\ closes' \subseteq [conn : Conn, client : Client]
         /\ connection' = 0
         /\ \A n \in Conn : n = connection => mcp'[n].client = 0
              /\ (inflight # 0 => mcp'[n].late)
<1>0. Clients /\ Manager /\ closes \subseteq [conn : Conn, client : Client]
      /\ (inflight # 0) \in BOOLEAN
  BY DEF Inv, Manager
<1>1. CASE connection # 0 /\ Close(connection, inflight # 0)
  <2>1. connection \in Conn
    BY <1>0, <1>1 DEF Manager
  <2> DEFINE late == inflight # 0
  <2>2. late \in BOOLEAN /\ Close(connection, late)
    BY <1>1
  <2> HIDE DEF late
  <2>3. /\ McpKept /\ LifeKept
        /\ mcp'[connection].client = 0 /\ (late => mcp'[connection].late)
        /\ \A i \in Conn : mcp'[i].entry = mcp[i].entry
        /\ closes' \subseteq [conn : Conn, client : Client]
        /\ \A k \in Client : life[k] = "starting" => life'[k] = "starting"
    BY <1>0, <2>1, <2>2, CloseKept
  <2> QED BY <2>3 DEF late, Drop, EntriesKept, StartingKept
<1>2. CASE connection = 0 /\ UNCHANGED << mcp, life, closes >>
  BY <1>0, <1>2, SameKept, Numbers DEF Drop
<1> QED BY <1>1, <1>2 DEF Drop

\* After that the invariant holds, if the calls are well.
LEMMA DropInv ==
  ASSUME Inv, Drop, UNCHANGED inflight, reloads < MaxReloads,
         reloads' = reloads + 1,
         config' \in Entries \cup {NoEntry}, disposed' \in BOOLEAN,
         call' \in [Call -> Calls], \A d \in Call : CallOK(d)',
         \A d \in Call : call'[d].pc = call[d].pc
             /\ call'[d].conn = call[d].conn
  PROVE  Inv'
<1>0. Clients /\ Manager /\ ServersAreReachable /\ Numbered /\ InOrder
  BY DEF Inv
<1>1. Clients' /\ ServersAreReachable'
  BY <1>0, Drops, ClientsKept
<1>2. reloads \in Nat /\ reloads' \in 0..MaxReloads
  BY <1>0, McpManagerAssumption DEF Manager, McpManagerAssumption
<1>3. Numbered'
  BY <1>0, <1>2, Drops, NumberedKept DEF EntriesKept
<1>4. Manager'
  <2>1. inflight # 0 => /\ call[inflight].pc \in Connecting
        /\ call[inflight].conn \in Conn
                        /\ mcp'[call[inflight].conn].late
    BY <1>0, Owner, Drops DEF Manager, McpKept
  <2>2. inflight # 0 => call'[inflight].pc \in Connecting
        /\ mcp'[call'[inflight].conn].late
    BY <2>1, Owner
  <2> QED BY <1>0, <1>2, <2>2, Drops DEF Manager
<1>5. InOrder'
  BY <1>0, InOrderKept
<1> QED BY <1>1, <1>3, <1>4, <1>5 DEF Inv

\* The end of the session.
LEMMA DisposeInv == ASSUME Inv, DisposeAll PROVE Inv'
<1>1. Drop /\ UNCHANGED << config, inflight, call >>
      /\ reloads < MaxReloads /\ reloads' = reloads + 1 /\ disposed' = TRUE
  BY DEF DisposeAll
<1>2. call' \in [Call -> Calls] /\ \A d \in Call : CallOK(d)'
  BY <1>1, Drops, NoCallMoves DEF StartingKept
<1>3. config' \in Entries \cup {NoEntry}
  BY <1>1 DEF Inv, Manager
<1> QED BY <1>1, <1>2, <1>3, DropInv

\* A reload: the entry in force changes, for the calls under way too.
LEMMA ReloadInv ==
  ASSUME Inv, NEW e \in Entries \cup {NoEntry}, ReloadConfig(e)
  PROVE  Inv'
<1>1. Drop /\ UNCHANGED << disposed, inflight >> /\ reloads < MaxReloads
      /\ reloads' = reloads + 1 /\ config' = e
      /\ disposed' \in BOOLEAN
  BY DEF ReloadConfig, Inv, Manager
<1>0. McpKept /\ LifeKept /\ StartingKept
  BY <1>1, Drops
<1>2. ASSUME NEW d \in Call
      PROVE /\ call'[d] \in Calls /\ call'[d].pc = call[d].pc
               /\ call'[d].conn = call[d].conn
            /\ call'[d].request = call[d].request
            /\ call[d].since \subseteq call'[d].since /\ (Active(d) =>
                 e \in call'[d].since)
  <2>1. call[d] \in Calls
    BY DEF Inv
  <2>2. CASE Active(d)
    <3> DEFINE r == [call[d] EXCEPT !.since = @ \cup {e}]
    <3>1. call'[d] = r
      BY <2>2 DEF ReloadConfig
    <3>2. r \in Calls
      BY <2>1 DEF Calls
    <3>3. r.pc = call[d].pc /\ r.conn = call[d].conn
          /\ r.request = call[d].request
          /\ r.since = call[d].since \cup {e}
      BY <2>1 DEF Calls
    <3> HIDE DEF r
    <3> QED BY <3>1, <3>2, <3>3
  <2>3. CASE ~Active(d)
    BY <2>1, <2>3 DEF ReloadConfig
  <2> QED BY <2>2, <2>3
<1>3. call' \in [Call -> Calls]
  <2>1. call' = [d \in Call |-> call'[d]]
    BY Zenon DEF ReloadConfig
  <2> QED BY <1>2, <2>1
<1>4. ASSUME NEW d \in Call PROVE CallOK(d)'
  <2>1. CallOK(d) /\ Clients
    BY DEF Inv
  <2>2. ASSUME call[d].pc \in HasConnection
        PROVE  /\ call[d].conn \in Conn
               /\ mcp'[call[d].conn].entry # NoEntry
               /\ mcp'[call[d].conn].entry \in call'[d].since
                    \/ mcp'[call[d].conn].late
    BY <1>2, <2>1, <2>2, <1>0 DEF CallOK, McpKept
  <2>3. call[d].pc \in {"dropping"} \cup Starting => inflight' = d
        /\ mcp'[call[d].conn].client = 0
    <3>1. call[d].pc \in {"dropping"} \cup Starting =>
            /\ inflight = d /\ mcp[call[d].conn].client = 0
                 /\ call[d].conn \in Conn
      BY <2>1 DEF CallOK, HasConnection, Connecting
    <3> QED BY <1>0, <1>1, <3>1 DEF McpKept
  <2>4. call[d].pc \in HasConnection \ {"connected"} =>
        call'[d].request \in Client
    BY <1>2, <2>1 DEF CallOK
  <2>5. call[d].pc \in Starting => life'[call[d].request] = "starting"
    <3>1. call[d].pc \in Starting => call[d].request \in Client
          /\ life[call[d].request] = "starting"
      BY <2>1 DEF CallOK, HasConnection, Connecting, Starting
    <3> QED BY <1>0, <3>1 DEF StartingKept
  <2>6. call[d].pc = "requesting" =>
           life'[call[d].request] \in {"closing", "gone"}
               \/ mcp'[call[d].conn].client = call[d].request
    BY <1>0, <2>1, AskedKept
  <2> QED BY <1>1, <1>2, <2>1, <2>2, <2>3, <2>4, <2>5, <2>6 DEF CallOK, Active
<1> QED BY <1>1, <1>2, <1>3, <1>4, DropInv

\* The invariant holds at first, ...
LEMMA InitInv == Init => Inv
<1> SUFFICES ASSUME Init PROVE Inv
  OBVIOUS
<1>1. Used = {} /\ Begun = {} /\ Cardinality({}) = 0 /\ 1..0 = {}
  BY FS_EmptySet DEF Init, Used, Begun, NewMcp, Idle
<1>2. Numbered /\ InOrder
  BY <1>1, McpManagerAssumption DEF Numbered, InOrder, Init,
       McpManagerAssumption
<1>3. NewMcp(NoEntry) \in Mcps /\ Idle("none") \in Calls
      /\ Idle("none").pc = "none" /\ NewMcp(NoEntry).client = 0
  BY DEF NewMcp, Mcps, Idle, Calls
<1>4. Clients
  BY <1>3 DEF Init, Clients
<1>5. Manager
  <2>1. 0 \in 0..MaxReloads
    BY McpManagerAssumption DEF McpManagerAssumption
  <2> QED BY <2>1 DEF Init, Manager
<1>6. \A c \in Call : CallOK(c) /\ call[c] \in Calls
  BY <1>3 DEF Init, CallOK, Active, Over, HasConnection, Connecting, Starting,
       Listing
<1>7. ServersAreReachable
  BY DEF Init, ServersAreReachable
<1>8. call \in [Call -> Calls]
  BY <1>3 DEF Init
<1> QED BY <1>2, <1>4, <1>5, <1>6, <1>7, <1>8 DEF Inv

\* ... every step preserves it, ...
LEMMA NextInv == Inv /\ [Next]_vars => Inv'
<1> SUFFICES ASSUME Inv, [Next]_vars PROVE Inv'
  OBVIOUS
<1>1. ASSUME NEW c \in Call, Continuation(c) PROVE Inv'
  BY <1>1, DroppedInv, RequestSteps, RepeatCallInv, ListSteps DEF Continuation
<1>2. ASSUME NEW c \in Call, Connects(c) PROVE Inv'
  BY <1>2, ConnectSucceedsInv, FallBackInv, ConnectFailsInv DEF Connects
<1>3. ASSUME NEW c \in Call, Ends(c) PROVE Inv'
  BY <1>3, ListSteps, RequestSteps DEF Ends
<1>4. CASE UNCHANGED vars
  <2>1. McpKept /\ LifeKept /\ EntriesKept /\ StartingKept
    BY <1>4, SameKept DEF vars
  <2>2. closes' \subseteq [conn : Conn, client : Client]
    BY <1>4 DEF vars, Inv, Manager
  <2> QED BY <1>4, <2>1, <2>2, NoCallStep DEF vars
<1> QED
  BY <1>1, <1>2, <1>3, <1>4, OutsideSteps, BeginInv, ReloadInv, DisposeInv
       DEF Next

\* ... and so it always holds.
LEMMA InvCorrect == Spec => []Inv
BY InitInv, NextInv, PTL DEF Spec

\* The variables of McpManager have their types; an attempt belongs to the call
\* that is connecting, calls wait only while there is one, and a connection has
\* no client while one starts for it.
THEOREM TypeCorrect == Spec => []TypeOK
BY InvCorrect, InvImpliesTypeOK, PTL

\* A server that runs is the one of the connection in the map, so that the next
\* call and disconnect find it, or its connection was dropped while an attempt
\* was under way, and the manager does not know it any more.
THEOREM NoServerIsLost == Spec => []ServersAreReachable
<1>1. Inv => ServersAreReachable
  BY DEF Inv
<1> QED BY <1>1, InvCorrect, PTL

\* What a step may do to a call
CallMove(d) ==
  \/ call'[d].tries = call[d].tries /\ (call'[d].pc = "done" =>
       call[d].pc = "done")
  \/ call'[d] = Idle("failed")
  \/ call'[d] = Idle("done") /\ call[d].pc \in HasConnection
  \/ RepeatCall(d)
  \/ call[d].pc = "none"

\* The settling of an attempt is one of those, ...
LEMMA SettleMoves ==
  ASSUME Inv, NEW c \in Call, call[c].pc \in Connecting, NEW ok \in BOOLEAN,
         Settle(c, ok), NEW d \in Call
  PROVE CallMove(d)
<1>1. CASE d # c /\ call[d].pc # "joined"
  BY <1>1 DEF Settle, CallMove
<1>2. CASE ~ok /\ (d = c \/ call[d].pc = "joined")
  BY <1>2 DEF Settle, CallMove
<1>3. CASE ok /\ (d = c \/ call[d].pc = "joined")
  <2>1. call'[d] = [call[d] EXCEPT !.pc = "connected", !.conn = call[c].conn,
        !.request = 0] /\ call[d] \in Calls
    BY <1>3 DEF Settle, Inv
  <2>2. call'[d].tries = call[d].tries /\ call'[d].pc = "connected"
    BY <2>1 DEF Calls
  <2> QED BY <2>2 DEF CallMove
<1> QED BY <1>1, <1>2, <1>3

\* ... the end of refreshMetadata, ...
LEMMA RefreshMoves ==
  ASSUME Inv, NEW c \in Call, call[c].pc \in Connecting, NEW ok \in BOOLEAN,
         RefreshEnds(c, ok), NEW d \in Call
  PROVE CallMove(d)
<1>1. CASE Settle(c, ok)
  BY <1>1, SettleMoves
<1>2. CASE call' = [call EXCEPT ![c] = Idle(IF ok THEN "done" ELSE "failed")]
  BY <1>2 DEF Inv, CallMove, HasConnection
<1> QED BY <1>1, <1>2 DEF RefreshEnds

\* ... and every step.
LEMMA CallMoves ==
  ASSUME Inv, [Next]_vars, NEW d \in Call PROVE CallMove(d)
<1>1. CASE UNCHANGED call
  BY <1>1 DEF CallMove
<1>2. ASSUME NEW c \in Call, Dropped(c) PROVE CallMove(d)
  <2>1. call' = [call EXCEPT ![c] = [call[c] EXCEPT !.conn = call[c].conn,
        !.request = NewClient, !.pc = "starting"]]
        /\ call[d] \in Calls /\ call \in [Call -> Calls]
    BY <1>2 DEF Dropped, StartClient, Inv, CallOK
  <2>2. call'[d].tries = call[d].tries /\ (call'[d].pc = "done" =>
        call[d].pc = "done")
    BY <2>1 DEF Calls
  <2> QED BY <2>2 DEF CallMove
<1>3. ASSUME NEW c \in Call, ConnectSucceeds(c) \/ FallBackToSse(c)
      PROVE  CallMove(d)
  <2>1. PICK pc \in {"listTools",
        "startingSse"} : call' = [call EXCEPT ![c].pc = pc]
    BY <1>3 DEF ConnectSucceeds, FallBackToSse
  <2>2. call \in [Call -> Calls]
    BY DEF Inv
  <2>3. call'[d].tries = call[d].tries /\ (call'[d].pc = "done" =>
        call[d].pc = "done")
    BY <2>1, <2>2 DEF Calls
  <2> QED BY <2>3 DEF CallMove
<1>4. ASSUME NEW c \in Call, ConnectFails(c) PROVE CallMove(d)
  BY <1>4, SettleMoves DEF ConnectFails, Connecting
<1>5. ASSUME NEW c \in Call, NEW k, NEW pc \in {"listTools", "listResources",
      "requesting"},
             call' = [call EXCEPT ![c].request = k, ![c].pc = pc]
      PROVE  CallMove(d)
  <2>1. call \in [Call -> Calls]
    BY DEF Inv
  <2>2. call'[d].tries = call[d].tries /\ (call'[d].pc = "done" =>
        call[d].pc = "done")
    BY <1>5, <2>1 DEF Calls
  <2> QED BY <2>2 DEF CallMove
<1>6. ASSUME NEW c \in Call, ListToolsEnds(c) PROVE CallMove(d)
  BY <1>5, <1>6, RefreshMoves DEF ListToolsEnds, Connecting, Listing
<1>7. ASSUME NEW c \in Call, ListResourcesEnds(c) \/ ListFails(c)
      PROVE  CallMove(d)
  BY <1>7, RefreshMoves DEF ListResourcesEnds, ListFails, Connecting, Listing
<1>8. ASSUME NEW c \in Call, Request(c) PROVE CallMove(d)
  <2> DEFINE pc == IF call[c].kind = "refresh" THEN "listTools"
        ELSE "requesting"
  <2>1. pc \in {"listTools", "listResources", "requesting"}
    OBVIOUS
  <2>2. call' = [call EXCEPT ![c].request = mcp[call[c].conn].client,
        ![c].pc = pc]
    BY <1>8 DEF Request
  <2> HIDE DEF pc
  <2> QED BY <1>5, <2>1, <2>2
<1>9. ASSUME NEW c \in Call, RequestAnswered(c) \/ CallFails(c)
      PROVE  CallMove(d)
  BY <1>9 DEF RequestAnswered, CallFails, Inv, CallMove, HasConnection
<1>10. ASSUME NEW c \in Call, RepeatCall(c) PROVE CallMove(d)
  BY <1>10, RepeatCallInv DEF CallMove
<1>11. ASSUME NEW c \in Call, NEW kind \in Kinds, Begin(c, kind)
       PROVE  CallMove(d)
  BY <1>11, BeginInv DEF CallMove
<1>12. ASSUME NEW e \in Entries \cup {NoEntry}, ReloadConfig(e)
       PROVE  CallMove(d)
  <2>1. call[d] \in Calls /\ (call'[d] = call[d]
        \/ call'[d] = [call[d] EXCEPT !.since = @ \cup {e}])
    BY <1>12 DEF Inv, ReloadConfig
  <2>2. call'[d].tries = call[d].tries /\ call'[d].pc = call[d].pc
    BY <2>1 DEF Calls
  <2> QED BY <2>2 DEF CallMove
<1> QED
  BY <1>1, <1>2, <1>3, <1>4, <1>6, <1>7, <1>8, <1>9, <1>10, <1>11, <1>12
     DEF Next, vars, Continuation, Connects, Ends, CloseReturns, Disconnect,
          IdleTimerFires, DisposeAll, ServerStops, ServerDies

\* A call is answered by a server started from an entry that was in force at
\* some time since the call began, unless a reload overtook the attempt.
THEOREM CallsAreAnsweredFromTheirConfig == Spec => CallsUseTheirConfig
<1>1. ASSUME Inv, [Next]_vars, NEW c \in Call, Active(c), call'[c].pc = "done"
      PROVE  mcp[call[c].conn].entry \in call[c].since
             \/ mcp[call[c].conn].late
  <2>1. CallMove(c) /\ call[c].pc \notin {"done", "none"}
        /\ Idle("failed").pc = "failed"
    BY <1>1, CallMoves DEF Active, Over, Idle
  <2>2. CASE RepeatCall(c)
    BY <1>1, <2>2 DEF RepeatCall, RequestThrows, Inv, CallOK, HasConnection
  <2>3. CASE call[c].pc \in HasConnection
    BY <1>1, <2>3 DEF Inv, CallOK
  <2> QED BY <1>1, <2>1, <2>2, <2>3 DEF CallMove
<1>2. Inv /\ [Next]_vars =>
        [\A c \in Call : Active(c) /\ call'[c].pc = "done" =>
          LET m == mcp[call[c].conn]
          IN  m.entry \in call[c].since \/ m.late]_vars
  BY <1>1
<1> QED BY <1>2, InvCorrect, PTL DEF CallsUseTheirConfig, Spec

\* callTool sends a call again only if the client it was sent to is gone or is
\* being closed, unless a close has overtaken the connection: then a client that
\* is open is asked twice.
THEOREM LiveServersAreAskedOnce == Spec => OnlyLostCallsAreRepeated
<1>1. ASSUME Inv, [Next]_vars, NEW c \in Call,
             call[c].pc = "requesting", call'[c].tries = 2, call[c].tries = 1
      PROVE  \/ life[call[c].request] \in {"closing", "gone"}
             \/ mcp[call[c].conn].overtaken
  <2>1. RepeatCall(c)
    BY <1>1, CallMoves DEF CallMove, Idle
  <2>2. CallOK(c) /\ Clients /\ ~IsConnected(call[c].conn)
    BY <1>1, <2>1 DEF Inv, RepeatCall, MayRepeat
  <2>3. call[c].conn \in Conn /\ call[c].request \in Client
    BY <1>1, <2>2 DEF CallOK, HasConnection
  <2> QED BY <1>1, <2>2, <2>3, Numbers DEF CallOK, Clients, IsConnected
<1>2. Inv /\ [Next]_vars =>
        [\A c \in Call :
          call[c].pc = "requesting" /\ call'[c].tries = 2
              /\ call[c].tries = 1 =>
             \/ life[call[c].request] \in {"closing", "gone"}
             \/ mcp[call[c].conn].overtaken]_vars
  BY <1>1
<1> QED BY <1>2, InvCorrect, PTL DEF OnlyLostCallsAreRepeated, Spec
===============================================================================
