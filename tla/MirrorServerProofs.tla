------------------------ MODULE MirrorServerProofs ------------------------
(***************************************************************************)
(* Proofs about MirrorServer, for any number of clients and hosts: servers *)
(* are deleted once, and the directory lists what is served.               *)
(***************************************************************************)
EXTENDS MirrorServer, SequenceTheorems, TLAPS

---------------------------------------------------------------------------
(* The inductive invariant *)

Serving == {"starting", "polling", "sending", "removing", "closed"}
Leaving == {"closed", "ending", "ended"}
Killing == listener.pc \in {"kill", "joinKilled", "forget"}
Joining == listener.pc \in {"join", "lastJoin"}

\* What the listener is about to join, and the one server it is killing.
ListenerInv ==
  /\ ~Killing /\ ~Joining => listener.todo = {}
  /\ listener.pc \notin {"joinKilled", "forget"} => listener.victim = {}
  /\ listener.pc \in {"joinKilled", "forget"} =>
       \E v \in listener.todo : /\ listener.victim = {v}
                                /\ deletions[v] = IF listener.pc = "forget" THEN 1 ELSE 0
  /\ Joining => listener.todo \cap exiting = {}

\* Which sets have a server, by where its thread is.
ServerInv(c) ==
  /\ thread[c] = "none" => c \notin Registered /\ deletions[c] = 0
  /\ thread[c] \in Serving =>
       /\ c \notin exiting /\ deletions[c] = 0
       /\ c \in active \/ c \in listener.todo
       /\ c \in listener.todo => Killing
  /\ thread[c] \in {"ending", "ended"} =>
       c \notin active /\ (deletions[c] = 0 => c \in Registered)
  /\ deletions[c] # 0 =>
       /\ deletions[c] = 1 /\ thread[c] = "ended"
       /\ c \in exiting \cup listener.todo => c \in listener.victim

ServersTyped ==
  /\ thread \in [Clients -> ThreadPcs]
  /\ listener \in [pc : ListenerPcs, todo : SUBSET Clients, victim : SUBSET Clients,
                   exit : BOOLEAN]
  /\ active \subseteq Clients /\ exiting \subseteq Clients
  /\ deletions \in [Clients -> Nat]

ServersInv == ServersTyped /\ ListenerInv /\ \A c \in Clients : ServerInv(c)

USE DEF Serving, Leaving

LEMMA ServersInit == Init => ServersInv
BY DEF Init, ServersInv, ServersTyped, ListenerInv, ServerInv, Registered, Killing, Joining,
       ThreadPcs, ListenerPcs

\* A thread that goes on without being registered anew leaves the sets as they are.
LEMMA ThreadGoesOn ==
  ASSUME ServersInv, NEW c \in Clients, NEW pc \in Serving, thread[c] \in Serving,
         thread' = [thread EXCEPT ![c] = pc], UNCHANGED listenerVars
  PROVE  ServersInv'
BY DEF ServersInv, ServersTyped, ListenerInv, ServerInv, Registered, Killing, Joining,
       ThreadPcs, ListenerPcs, listenerVars

LEMMA ServersUnchanged ==
  ASSUME ServersInv, UNCHANGED <<thread, listenerVars>>
  PROVE  ServersInv'
BY DEF ServersInv, ServersTyped, ListenerInv, ServerInv, Registered, Killing, Joining,
       ThreadPcs, ListenerPcs, listenerVars

\* A server thread takes a step.
LEMMA ServersThread ==
  ASSUME ServersInv, NEW c \in Clients, ServerStep(c) \/ PollFails(c)
  PROVE  ServersInv'
<1>1. CASE OnConnection(c) \/ ProcessUpdate(c) \/ SendUpdate(c) \/ OnClose(c) \/ Closed(c)
           \/ PollFails(c)
  <2>1. PICK pc \in Serving : thread' = [thread EXCEPT ![c] = pc]
    <3>1. thread = [thread EXCEPT ![c] = thread[c]]
      BY DEF ServersInv, ServersTyped
    <3> QED
      BY <1>1, <3>1 DEF OnConnection, ProcessUpdate, SendUpdate, OnClose, Closed, PollFails
  <2>2. thread[c] \in Serving /\ UNCHANGED listenerVars
    BY <1>1 DEF OnConnection, ProcessUpdate, SendUpdate, OnClose, Closed, PollFails, Readable
  <2> QED
    BY <2>1, <2>2, ThreadGoesOn
<1>2. CASE ProcessMemoryInfo(c) \/ ReadRunt(c)
  BY <1>2, ServersUnchanged DEF ProcessMemoryInfo, ReadRunt, serverVars
<1>3. CASE RequestDestruction(c)
  BY <1>3 DEF RequestDestruction, ServersInv, ServersTyped, ListenerInv, ServerInv, Registered,
              Killing, Joining, ThreadPcs, ListenerPcs
<1>4. CASE ThreadEnds(c)
  BY <1>4 DEF ThreadEnds, ServersInv, ServersTyped, ListenerInv, ServerInv, Registered,
              Killing, Joining, ThreadPcs, ListenerPcs, listenerVars
<1> QED
  BY <1>1, <1>2, <1>3, <1>4 DEF ServerStep

\* The listener takes a step.
LEMMA ServersListener ==
  ASSUME ServersInv, ListenerStep \/ RequestExit \/ ListenerPollFails
  PROVE  ServersInv'
<1> USE DEF ServersInv, ServersTyped, ListenerInv, ServerInv, Registered, Killing, Joining,
            ThreadPcs, ListenerPcs, serverVars, listenerVars
<1>1. CASE PollTimesOut \/ RequestExit \/ ListenerPollFails
  BY <1>1, ZenonT(60) DEF PollTimesOut, RequestExit, ListenerPollFails
<1>2. CASE ReapClients
  <2>1. /\ listener.pc \in {"reap", "lastReap"} /\ listener'.pc \in {"join", "lastJoin"}
        /\ listener'.todo = exiting /\ listener'.victim = listener.victim
        /\ listener' \in [pc : ListenerPcs, todo : SUBSET Clients, victim : SUBSET Clients,
                          exit : BOOLEAN]
    BY <1>2 DEF ReapClients
  <2>2. exiting' = {} /\ UNCHANGED <<thread, active, deletions>>
    BY <1>2 DEF ReapClients
  <2>3. \A c \in Clients : ServerInv(c)'
    BY <2>1, <2>2
  <2> QED
    BY <2>1, <2>2, <2>3
<1>3. CASE Reaped
  BY <1>3 DEF Reaped
<1>4. CASE KillallClients
  BY <1>4 DEF KillallClients
<1>5. CASE ForgetKilled
  <2>1. PICK v \in listener.todo : listener.victim = {v} /\ deletions[v] = 1
    BY <1>5 DEF ForgetKilled
  <2>2. /\ listener'.pc = "kill" /\ listener'.todo = listener.todo \ {v}
        /\ listener'.victim = {} /\ exiting' = exiting \ {v}
        /\ listener' \in [pc : ListenerPcs, todo : SUBSET Clients, victim : SUBSET Clients,
                          exit : BOOLEAN]
    BY <1>5, <2>1 DEF ForgetKilled
  <2>3. listener.pc = "forget" /\ UNCHANGED <<thread, active, deletions>>
    BY <1>5 DEF ForgetKilled
  <2>4. \A c \in Clients : ServerInv(c)'
    BY <2>1, <2>2, <2>3
  <2> QED
    BY <2>2, <2>3, <2>4
<1>6. CASE Killed
  BY <1>6 DEF Killed
<1>7. ASSUME NEW c \in Clients, StartServer(c)
      PROVE  ServersInv'
  BY <1>7 DEF StartServer
<1>8. ASSUME NEW c \in Clients, ReapOne(c)
      PROVE  ServersInv'
  BY <1>8 DEF ReapOne, Joinable
<1>9. ASSUME NEW c \in Clients, KillOne(c)
      PROVE  ServersInv'
  BY <1>9 DEF KillOne
<1>10. ASSUME NEW c \in Clients, JoinKilled(c)
       PROVE  ServersInv'
  BY <1>10 DEF JoinKilled, Joinable
<1> QED
  BY <1>1, <1>2, <1>3, <1>4, <1>5, <1>6, <1>7, <1>8, <1>9, <1>10 DEF ListenerStep

LEMMA ServersStep == ServersInv /\ [Next]_vars => ServersInv'
<1> SUFFICES ASSUME ServersInv, [Next]_vars
             PROVE  ServersInv'
  OBVIOUS
<1>1. ASSUME NEW c \in Clients,
             ViewerStep(c) \/ ClientStep(c) \/ Die(c) \/ RequestUpdate(c)
      PROVE  ServersInv'
  BY <1>1, ServersUnchanged
     DEF ViewerStep, GetSpecTclMemory, LookAgain, ClientStep, AlreadyMirroring, Connect,
         UpdateFails, Die, RequestUpdate, serverVars
<1>2. CASE UNCHANGED vars
  BY <1>2, ServersUnchanged DEF vars, serverVars
<1> QED
  BY <1>1, <1>2, ServersThread, ServersListener DEF Next, Others

\* A server is deleted once, when its thread has ended, and stays in one of the sets until
\* then, whatever the order in which clients go, the listener reaps and kills, and
\* polls fail (reapClients, killallClients, requestDestruction).
THEOREM ServersDeletedOnce == Spec => []DeletedOnce
<1>1. ServersInv => DeletedOnce
  BY DEF ServersInv, ServersTyped, ListenerInv, ServerInv, DeletedOnce, Registered, Killing,
         ThreadPcs, ListenerPcs
<1> QED
  BY <1>1, ServersInit, ServersStep, PTL DEF Spec

---------------------------------------------------------------------------
(* Clients, their connections and the directory *)

Requests == {<<>>, <<"key">>, <<"key", "update">>, <<"update">>}

ClientsTyped ==
  /\ host \in [Clients -> Hosts \cup {NoHost}]
  /\ viewer \in [Clients -> [pc : ViewerPcs, tries : 0 .. Retries]]
  /\ client \in [Clients -> ClientPcs] /\ updates \in 0 .. MaxUpdates
  /\ request \in [Clients -> Requests]
  /\ thread \in [Clients -> ThreadPcs]
  /\ shut \subseteq Clients /\ exitRequest \subseteq Clients

\* A client has a connection only when its viewer has started it, and at most one update
\* of it is asked for and not answered.
ConnectionInv(c) ==
  /\ viewer[c].pc = "idle" => client[c] = "none"
  /\ viewer[c].pc # "idle" => host[c] \in Hosts
  /\ viewer[c].pc \in {"idle", "waiting"} => viewer[c].tries < Retries
  /\ client[c] \in {"none", "new", "create"} => request[c] = <<>> /\ thread[c] = "none"
  /\ client[c] = "idle" => request[c] \in {<<>>, <<"key">>}
  /\ thread[c] = "sending" => client[c] \in {"requested", "dead"} /\ request[c] = <<>>

ClientsInv == ClientsTyped /\ \A c \in Clients : ConnectionInv(c)

LEMMA ClientsInit == Init => ClientsInv
BY MirrorAssumption
   DEF Init, ClientsInv, ClientsTyped, ConnectionInv, Requests, ViewerPcs, ClientPcs, ThreadPcs

LEMMA RequestTail ==
  /\ Append(<<>>, "update") = <<"update">> /\ Append(<<"key">>, "update") = <<"key", "update">>
  /\ Tail(<<"key">>) = <<>> /\ Tail(<<"update">>) = <<>>
  /\ Tail(<<"key", "update">>) = <<"update">>
  /\ Head(<<"key", "update">>) = "key" /\ Head(<<"key">>) = "key" /\ Head(<<"update">>) = "update"
  /\ <<>> # <<"key">> /\ <<>> # <<"update">> /\ <<>> # <<"key", "update">>
<1>1. Append(<<>>, "update") = <<"update">>
  OBVIOUS
<1>2. Append(<<"key">>, "update") = <<"key", "update">>
  <2>1. <<"key">> \in Seq({"key", "update"}) /\ Append(<<"key">>, "update") \in Seq({"key", "update"})
    OBVIOUS
  <2>2. <<"key", "update">> \in Seq({"key", "update"}) /\ Len(<<"key", "update">>) = 2
    OBVIOUS
  <2>3. Len(Append(<<"key">>, "update")) = 2
    BY <2>1
  <2>4. \A i \in 1 .. 2 : Append(<<"key">>, "update")[i] = <<"key", "update">>[i]
    BY <2>1
  <2> QED
    BY <2>1, <2>2, <2>3, <2>4, SeqEqual
<1>3. Tail(<<"key">>) = <<>> /\ Tail(<<"update">>) = <<>>
  OBVIOUS
<1>4. Tail(<<"key", "update">>) = <<"update">>
  OBVIOUS
<1>5. Head(<<"key", "update">>) = "key" /\ Head(<<"key">>) = "key" /\ Head(<<"update">>) = "update"
  OBVIOUS
<1>6. <<>> # <<"key">> /\ <<>> # <<"update">> /\ <<>> # <<"key", "update">>
  OBVIOUS
<1> QED
  BY <1>1, <1>2, <1>3, <1>4, <1>5, <1>6

LEMMA ClientsViewer ==
  ASSUME ClientsInv, NEW v \in Clients, ViewerStep(v)
  PROVE  ClientsInv'
<1> USE MirrorAssumption
    DEF ClientsInv, ClientsTyped, ConnectionInv, Requests, ViewerPcs, ClientPcs, ThreadPcs,
        connection, serverVars
<1>1. CASE GetSpecTclMemory(v)
  <2>1. PICK h \in Hosts : host' = [host EXCEPT ![v] = h]
    BY <1>1 DEF GetSpecTclMemory
  <2>2. /\ viewer[v].pc = "idle" /\ UNCHANGED <<updates, request, thread, shut, exitRequest>>
        /\ \/ viewer' = [viewer EXCEPT ![v].pc = "mapped"] /\ UNCHANGED client
           \/ /\ viewer' = [viewer EXCEPT ![v].pc = "waiting"]
              /\ client' = [client EXCEPT ![v] = "new"]
    BY <1>1 DEF GetSpecTclMemory
  <2>3. client[v] = "none" /\ request[v] = <<>> /\ thread[v] = "none"
    BY <2>2
  <2>4. viewer[v].tries < Retries
    BY <2>2
  <2>5. ClientsTyped'
    <3>1. host' \in [Clients -> Hosts \cup {NoHost}] /\ client' \in [Clients -> ClientPcs]
      BY <2>1, <2>2
    <3>2. viewer' \in [Clients -> [pc : ViewerPcs, tries : 0 .. Retries]]
      <4>1. PICK pc \in {"mapped", "waiting"} : viewer' = [viewer EXCEPT ![v].pc = pc]
        BY <2>2
      <4>2. viewer[v] \in [pc : ViewerPcs, tries : 0 .. Retries]
        OBVIOUS
      <4>3. [viewer[v] EXCEPT !.pc = pc] \in [pc : ViewerPcs, tries : 0 .. Retries]
        BY <4>2
      <4> QED
        BY <4>1, <4>3
    <3> QED
      BY <2>2, <3>1, <3>2
  <2>6. ConnectionInv(v)'
    <3>1. viewer'[v].pc \in {"mapped", "waiting"} /\ viewer'[v].tries = viewer[v].tries
      BY <2>2
    <3>2. host'[v] \in Hosts /\ client'[v] \in {"none", "new"}
      BY <2>1, <2>2, <2>3
    <3>3. request'[v] = <<>> /\ thread'[v] = "none"
      BY <2>2, <2>3
    <3> QED
      BY <2>4, <3>1, <3>2, <3>3
  <2>7. \A c \in Clients \ {v} : ConnectionInv(c)'
    BY <2>1, <2>2
  <2> QED
    BY <2>5, <2>6, <2>7
<1>2. CASE LookAgain(v)
  BY <1>2 DEF LookAgain
<1> QED
  BY <1>1, <1>2 DEF ViewerStep

LEMMA ClientsClient ==
  ASSUME ClientsInv, NEW c \in Clients, ClientStep(c) \/ Die(c) \/ RequestUpdate(c)
  PROVE  ClientsInv'
<1> USE DEF ClientsInv, ClientsTyped, ConnectionInv, Requests, ViewerPcs, ClientPcs, ThreadPcs,
        connection, serverVars
<1>1. CASE AlreadyMirroring(c)
  BY <1>1 DEF AlreadyMirroring
<1>2. CASE Connect(c)
  BY <1>2, ZenonT(60) DEF Connect
<1>3. CASE UpdateFails(c) \/ Die(c)
  BY <1>3 DEF UpdateFails, Die
<1>4. CASE RequestUpdate(c)
  <2>1. /\ client[c] = "idle" /\ client' = [client EXCEPT ![c] = "requested"]
        /\ request' = [request EXCEPT ![c] = Append(request[c], "update")]
        /\ updates' \in 0 .. MaxUpdates
        /\ UNCHANGED <<host, viewer, thread, shut, exitRequest>>
    BY <1>4, MirrorAssumption DEF RequestUpdate
  <2>2. request'[c] \in Requests
    BY <2>1, RequestTail
  <2> QED
    BY <2>1, <2>2
<1> QED
  BY <1>1, <1>2, <1>3, <1>4 DEF ClientStep

LEMMA ClientsThread ==
  ASSUME ClientsInv, NEW c \in Clients, ServerStep(c) \/ PollFails(c)
  PROVE  ClientsInv'
<1> USE DEF ClientsInv, ClientsTyped, ConnectionInv, Requests, ViewerPcs, ClientPcs, ThreadPcs,
        clientVars, connection, serverVars
<1>1. CASE OnConnection(c)
  BY <1>1 DEF OnConnection
<1>2. CASE ProcessMemoryInfo(c)
  <2>1. /\ thread[c] = "polling" /\ request[c] # <<>> /\ Head(request[c]) = "key"
        /\ request' = [request EXCEPT ![c] = Tail(request[c])]
        /\ shut' \subseteq Clients
        /\ UNCHANGED <<host, viewer, client, updates, thread, exitRequest>>
    BY <1>2 DEF ProcessMemoryInfo, Readable
  <2>2. request'[c] \in {<<>>, <<"update">>} /\ (client[c] = "idle" => request'[c] = <<>>)
    BY <2>1, RequestTail
  <2> QED
    BY <2>1, <2>2
<1>3. CASE ProcessUpdate(c)
  BY <1>3, RequestTail DEF ProcessUpdate, Readable
<1>4. CASE SendUpdate(c)
  BY <1>4 DEF SendUpdate, Dead
<1>5. CASE ReadRunt(c)
  BY <1>5 DEF ReadRunt
<1>6. CASE OnClose(c) \/ Closed(c) \/ PollFails(c)
  BY <1>6 DEF OnClose, Closed, PollFails
<1>7. CASE RequestDestruction(c) \/ ThreadEnds(c)
  BY <1>7 DEF RequestDestruction, ThreadEnds
<1> QED
  BY <1>1, <1>2, <1>3, <1>4, <1>5, <1>6, <1>7 DEF ServerStep

LEMMA ClientsListener ==
  ASSUME ClientsInv, ListenerStep \/ RequestExit \/ ListenerPollFails
  PROVE  ClientsInv'
<1> USE DEF ClientsInv, ClientsTyped, ConnectionInv, Requests, ViewerPcs, ClientPcs, ThreadPcs,
        clientVars, connection, serverVars
<1>1. CASE PollTimesOut \/ RequestExit \/ ListenerPollFails \/ ReapClients \/ Reaped
           \/ KillallClients \/ ForgetKilled \/ Killed
           \/ \E c \in Clients : ReapOne(c) \/ KillOne(c) \/ JoinKilled(c)
  BY <1>1 DEF PollTimesOut, RequestExit, ListenerPollFails, ReapClients, Reaped, KillallClients,
              ForgetKilled, Killed, ReapOne, KillOne, JoinKilled
<1>2. ASSUME NEW c \in Clients, StartServer(c)
      PROVE  ClientsInv'
  BY <1>2 DEF StartServer
<1> QED
  BY <1>1, <1>2 DEF ListenerStep

LEMMA ClientsStep == ClientsInv /\ [Next]_vars => ClientsInv'
<1> SUFFICES ASSUME ClientsInv, [Next]_vars
             PROVE  ClientsInv'
  OBVIOUS
<1>1. CASE UNCHANGED vars
  BY <1>1 DEF vars, clientVars, connection, serverVars, ClientsInv, ClientsTyped, ConnectionInv
<1> QED
  BY <1>1, ClientsViewer, ClientsClient, ClientsThread, ClientsListener DEF Next, Others

---------------------------------------------------------------------------
(* The directory *)

\* A thread knows its peer, or will not read its client's requests.
PeerInv(c) ==
  /\ thread[c] \in {"none", "starting"} => peer[c] = NoHost /\ c \notin entered
  /\ thread[c] \notin {"none", "starting"} =>
       peer[c] = host[c] \/ (peer[c] = NoHost /\ c \in shut)
  /\ c \in entered => peer[c] = host[c]

\* No other connection of its host can remove the entry of a client that is alone.
AloneInv(c) ==
  c \in alone =>
    /\ c \in entered
    /\ \A k \in Clients \ {c} : peer[k] = host[c] => thread[k] \in Leaving

DirectoryTyped ==
  /\ peer \in [Clients -> Hosts \cup {NoHost}]
  /\ DOMAIN directory \subseteq Hosts /\ \A h \in DOMAIN directory : directory[h] \in Clients
  /\ entered \subseteq Clients /\ alone \subseteq Clients /\ unclosed \subseteq Clients

DirectoryInv ==
  /\ DirectoryTyped
  /\ \A c \in Clients : PeerInv(c) /\ AloneInv(c)
  /\ EntryServed /\ ServedListed

LEMMA DirectoryInit == Init => DirectoryInv
BY DEF Init, DirectoryInv, DirectoryTyped, PeerInv, AloneInv, EntryServed, ServedListed

\* What the steps before the thread's first and after its last do to hosts.
LEMMA HostKnown ==
  ASSUME ClientsInv, NEW c \in Clients, thread[c] # "none"
  PROVE  host[c] \in Hosts /\ host[c] # NoHost /\ viewer[c].pc # "idle"
BY MirrorAssumption DEF ClientsInv, ClientsTyped, ConnectionInv

\* A viewer takes a step: the hosts of the clients that have a thread stay.
LEMMA DirectoryViewer ==
  ASSUME ClientsInv, DirectoryInv, NEW v \in Clients, ViewerStep(v)
  PROVE  DirectoryInv'
<1>1. UNCHANGED <<thread, peer, shut, directory, entered, alone, unclosed>>
  BY DEF ViewerStep, GetSpecTclMemory, LookAgain, connection, serverVars, history
<1>2. \A c \in Clients : thread[c] # "none" => host'[c] = host[c]
  BY HostKnown DEF ViewerStep, GetSpecTclMemory, LookAgain, ClientsInv, ClientsTyped
<1>3. \A c \in entered \cup alone : c \in Clients /\ thread[c] # "none"
  BY DEF DirectoryInv, DirectoryTyped, PeerInv, AloneInv
<1>4. \A c \in Clients : PeerInv(c)' /\ AloneInv(c)'
  BY <1>1, <1>2, <1>3 DEF DirectoryInv, DirectoryTyped, PeerInv, AloneInv
<1>5. EntryServed' /\ ServedListed'
  BY <1>1, <1>2, <1>3 DEF DirectoryInv, DirectoryTyped, EntryServed, ServedListed, InService
<1> QED
  BY <1>1, <1>4, <1>5 DEF DirectoryInv, DirectoryTyped

\* Clients and the listener do not touch what the directory rests on, but for a new thread.
LEMMA DirectoryUnchanged ==
  ASSUME DirectoryInv, UNCHANGED <<host, thread, peer, directory, history>>, shut \subseteq shut'
  PROVE  DirectoryInv'
BY DEF DirectoryInv, DirectoryTyped, PeerInv, AloneInv, EntryServed, ServedListed, InService,
       history

\* A thread moves between states in which it does the same for the directory.
LEMMA DirectoryGoesOn ==
  ASSUME ClientsInv, DirectoryInv, NEW c \in Clients, NEW pc \in ThreadPcs,
         thread' = [thread EXCEPT ![c] = pc],
         \/ thread[c] = "none" /\ pc = "starting"
         \/ thread[c] \in {"polling", "sending"} /\ pc \in {"polling", "sending", "removing"}
         \/ thread[c] \in Leaving /\ pc \in Leaving,
         UNCHANGED <<host, peer, directory, history>>, shut \subseteq shut'
  PROVE  DirectoryInv'
<1>1. thread'[c] = pc /\ \A k \in Clients \ {c} : thread'[k] = thread[k]
  BY DEF ClientsInv, ClientsTyped
<1>2. \A k \in Clients : PeerInv(k)' /\ AloneInv(k)'
  BY <1>1 DEF DirectoryInv, DirectoryTyped, PeerInv, AloneInv, history
<1>3. EntryServed' /\ ServedListed'
  BY <1>1 DEF DirectoryInv, DirectoryTyped, EntryServed, ServedListed, InService, PeerInv, AloneInv, history
<1> QED
  BY <1>2, <1>3 DEF DirectoryInv, DirectoryTyped, history

LEMMA DirectoryOnConnection ==
  ASSUME ClientsInv, DirectoryInv, NEW c \in Clients, OnConnection(c), thread'[c] = "polling"
  PROVE  DirectoryInv'
<1>1. /\ thread[c] = "starting" /\ thread' = [thread EXCEPT ![c] = "polling"]
      /\ \/ /\ peer' = [peer EXCEPT ![c] = host[c]]
            /\ alone' = {k \in alone : host[k] # host[c]} /\ UNCHANGED shut
         \/ shut' = shut \cup {c} /\ UNCHANGED <<peer, alone>>
      /\ UNCHANGED <<host, directory, entered, unclosed>>
  BY DEF OnConnection, clientVars
<1>2. thread'[c] = "polling" /\ \A k \in Clients \ {c} : thread'[k] = thread[k]
  BY <1>1 DEF ClientsInv, ClientsTyped
<1>3. c \notin entered /\ c \notin alone /\ peer[c] = NoHost
  BY <1>1 DEF DirectoryInv, PeerInv, AloneInv
<1>4. host[c] \in Hosts /\ host[c] # NoHost
  BY <1>1, HostKnown
<1>5. DirectoryTyped'
  BY <1>1, <1>4 DEF DirectoryInv, DirectoryTyped
<1>6. \A k \in Clients : PeerInv(k)'
  BY <1>1, <1>2, <1>3 DEF DirectoryInv, DirectoryTyped, PeerInv
<1>7. \A k \in Clients : AloneInv(k)'
  <2> SUFFICES ASSUME NEW k \in alone', NEW j \in Clients \ {k}, peer'[j] = host[k]
               PROVE  k \in entered /\ thread'[j] \in Leaving
    BY <1>1 DEF DirectoryInv, DirectoryTyped, AloneInv
  <2>1. k \in alone /\ k \in Clients /\ k # c /\ k \in entered
    BY <1>1, <1>3 DEF DirectoryInv, DirectoryTyped, AloneInv
  <2>2. thread[k] # "none"
    BY <2>1 DEF DirectoryInv, PeerInv
  <2>3. host[k] # NoHost
    BY <2>1, <2>2, HostKnown
  <2>4. j # c
    BY <1>1, <1>3, <2>3 DEF DirectoryInv, DirectoryTyped
  <2>5. peer[j] = host[k]
    BY <1>1, <2>4 DEF DirectoryInv, DirectoryTyped
  <2> QED
    BY <1>2, <2>1, <2>4, <2>5 DEF DirectoryInv, AloneInv
<1>8. EntryServed' /\ ServedListed'
  BY <1>1, <1>2, <1>3 DEF DirectoryInv, DirectoryTyped, EntryServed, ServedListed, InService
<1> QED
  BY <1>5, <1>6, <1>7, <1>8 DEF DirectoryInv

LEMMA DirectoryMemoryInfo ==
  ASSUME ClientsInv, DirectoryInv, NEW c \in Clients, ProcessMemoryInfo(c)
  PROVE  DirectoryInv'
<1>1. thread[c] = "polling" /\ c \notin shut /\ UNCHANGED <<host, thread, peer, unclosed>>
  BY DEF ProcessMemoryInfo, Readable, clientVars, serverVars
<1>2. peer[c] = host[c] /\ host[c] \in Hosts
  BY <1>1, HostKnown DEF DirectoryInv, PeerInv
<1>3. CASE ~Accepts(peer[c])
  <2>1. shut' = shut \cup {c} /\ UNCHANGED <<directory, history>>
    BY <1>3 DEF ProcessMemoryInfo, history
  <2> QED
    BY <1>1, <2>1, DirectoryUnchanged
<1>4. CASE Accepts(peer[c])
  <2>1. /\ host[c] \notin DOMAIN directory
        /\ directory' = [k \in DOMAIN directory \cup {host[c]} |->
                           IF k = host[c] THEN c ELSE directory[k]]
        /\ entered' = entered \cup {c} /\ UNCHANGED shut
        /\ alone' = IF OnlyOf(host[c], c) THEN alone \cup {c} ELSE alone
    BY <1>2, <1>4 DEF ProcessMemoryInfo, Accepts, Put
  <2>2. DirectoryTyped'
    BY <1>1, <1>2, <2>1 DEF DirectoryInv, DirectoryTyped
  <2>3. \A k \in Clients : PeerInv(k)'
    BY <1>1, <1>2, <2>1 DEF DirectoryInv, PeerInv
  <2>4. \A k \in Clients : AloneInv(k)'
    BY <1>1, <2>1 DEF DirectoryInv, AloneInv, OnlyOf
  <2>5. EntryServed'
    BY <1>1, <2>1 DEF DirectoryInv, EntryServed, InService
  <2>6. ServedListed'
    BY <1>1, <2>1 DEF DirectoryInv, DirectoryTyped, ServedListed, InService
  <2> QED
    BY <2>2, <2>3, <2>4, <2>5, <2>6 DEF DirectoryInv
<1> QED
  BY <1>3, <1>4

\* The loop of a thread has ended and its host's entry goes.
LEMMA DirectoryClosed ==
  ASSUME ClientsInv, DirectoryInv, NEW c \in Clients, Closed(c)
  PROVE  DirectoryInv'
<1>1. /\ thread[c] = "removing" /\ thread' = [thread EXCEPT ![c] = "closed"]
      /\ directory' = [k \in DOMAIN directory \ {peer[c]} |-> directory[k]]
      /\ shut' = shut \cup {c} /\ UNCHANGED <<host, peer, entered, alone, unclosed>>
  BY DEF Closed, Remove, clientVars, history
<1>2. thread'[c] = "closed" /\ \A k \in Clients \ {c} : thread'[k] = thread[k]
  BY <1>1 DEF ClientsInv, ClientsTyped
<1>3. DirectoryTyped'
  BY <1>1 DEF DirectoryInv, DirectoryTyped
<1>4. \A k \in Clients : PeerInv(k)' /\ AloneInv(k)'
  BY <1>1, <1>2 DEF DirectoryInv, DirectoryTyped, PeerInv, AloneInv
<1>5. EntryServed'
  BY <1>1, <1>2 DEF DirectoryInv, DirectoryTyped, EntryServed, InService, PeerInv
<1>6. ServedListed'
  <2> SUFFICES ASSUME NEW k \in alone, k # c, InService(k)
               PROVE  host[k] \in DOMAIN directory' /\ directory'[host[k]] = k
    BY <1>1, <1>2 DEF DirectoryInv, DirectoryTyped, ServedListed, InService
  <2>1. peer[c] # host[k]
    BY <1>1 DEF DirectoryInv, DirectoryTyped, AloneInv
  <2> QED
    BY <1>1, <2>1 DEF DirectoryInv, ServedListed
<1> QED
  BY <1>3, <1>4, <1>5, <1>6 DEF DirectoryInv

LEMMA DirectoryPollFails ==
  ASSUME ClientsInv, DirectoryInv, NEW c \in Clients, PollFails(c)
  PROVE  DirectoryInv'
<1>1. /\ thread[c] = "polling" /\ thread' = [thread EXCEPT ![c] = "closed"]
      /\ shut' = shut \cup {c} /\ unclosed' = unclosed \cup {c}
      /\ UNCHANGED <<host, peer, directory, entered, alone>>
  BY DEF PollFails, clientVars, sharedVars
<1>2. thread'[c] = "closed" /\ \A k \in Clients \ {c} : thread'[k] = thread[k]
  BY <1>1 DEF ClientsInv, ClientsTyped
<1>3. \A k \in Clients : PeerInv(k)' /\ AloneInv(k)'
  BY <1>1, <1>2 DEF DirectoryInv, DirectoryTyped, PeerInv, AloneInv
<1>4. EntryServed' /\ ServedListed'
  BY <1>1, <1>2 DEF DirectoryInv, DirectoryTyped, EntryServed, ServedListed, InService
<1> QED
  BY <1>1, <1>3, <1>4 DEF DirectoryInv, DirectoryTyped

LEMMA DirectoryThread ==
  ASSUME ClientsInv, DirectoryInv, NEW c \in Clients, ServerStep(c) \/ PollFails(c)
  PROVE  DirectoryInv'
<1>1. CASE ProcessUpdate(c) \/ SendUpdate(c) \/ OnClose(c)
  <2>1. PICK pc \in {"polling", "sending", "removing"} : thread' = [thread EXCEPT ![c] = pc]
    BY <1>1 DEF ProcessUpdate, SendUpdate, OnClose
  <2>2. thread[c] \in {"polling", "sending"}
    BY <1>1 DEF ProcessUpdate, SendUpdate, OnClose, Readable
  <2>3. UNCHANGED <<host, peer, directory, history>> /\ shut \subseteq shut'
    BY <1>1 DEF ProcessUpdate, SendUpdate, OnClose, clientVars, connection, sharedVars
  <2>4. pc \in ThreadPcs
    BY DEF ThreadPcs
  <2> QED
    BY <2>1, <2>2, <2>3, <2>4, DirectoryGoesOn
<1>2. CASE RequestDestruction(c) \/ ThreadEnds(c)
  BY <1>2, DirectoryGoesOn
     DEF RequestDestruction, ThreadEnds, clientVars, connection, sharedVars, ThreadPcs
<1>3. CASE ReadRunt(c)
  BY <1>3, DirectoryUnchanged DEF ReadRunt, clientVars, serverVars, sharedVars
<1>4. CASE OnConnection(c) /\ thread'[c] # "polling"
  <2>1. UNCHANGED <<thread, shut, peer, alone>>
    BY <1>4 DEF OnConnection, ClientsInv, ClientsTyped
  <2> QED
    BY <1>4, <2>1, DirectoryUnchanged DEF OnConnection, clientVars, history
<1> QED
  BY <1>1, <1>2, <1>3, <1>4, DirectoryOnConnection, DirectoryMemoryInfo, DirectoryClosed,
     DirectoryPollFails DEF ServerStep

LEMMA DirectoryListener ==
  ASSUME ClientsInv, DirectoryInv, ListenerStep \/ RequestExit \/ ListenerPollFails
  PROVE  DirectoryInv'
<1>1. CASE PollTimesOut \/ RequestExit \/ ListenerPollFails \/ ReapClients \/ Reaped
           \/ KillallClients \/ ForgetKilled \/ Killed
           \/ \E c \in Clients : ReapOne(c) \/ KillOne(c) \/ JoinKilled(c)
  BY <1>1, DirectoryUnchanged
     DEF PollTimesOut, RequestExit, ListenerPollFails, ReapClients, Reaped, KillallClients,
         ForgetKilled, Killed, ReapOne, KillOne, JoinKilled, clientVars, connection, serverVars,
         sharedVars
<1>2. ASSUME NEW c \in Clients, StartServer(c)
      PROVE  DirectoryInv'
  <2>1. thread[c] = "none" /\ thread' = [thread EXCEPT ![c] = "starting"]
    BY <1>2 DEF StartServer
  <2>2. UNCHANGED <<host, peer, directory, history>> /\ shut \subseteq shut'
    BY <1>2 DEF StartServer, clientVars, connection, sharedVars
  <2> QED
    BY <2>1, <2>2, DirectoryGoesOn DEF ThreadPcs
<1> QED
  BY <1>1, <1>2 DEF ListenerStep

LEMMA DirectoryStep == ClientsInv /\ DirectoryInv /\ [Next]_vars => DirectoryInv'
<1> SUFFICES ASSUME ClientsInv, DirectoryInv, [Next]_vars
             PROVE  DirectoryInv'
  OBVIOUS
<1>1. ASSUME NEW c \in Clients, ClientStep(c) \/ Die(c) \/ RequestUpdate(c)
      PROVE  DirectoryInv'
  <2>1. UNCHANGED <<host, thread, peer, directory, history, shut>>
    BY <1>1 DEF ClientStep, AlreadyMirroring, Connect, UpdateFails, Die, RequestUpdate,
                connection, serverVars, sharedVars
  <2> QED
    BY <2>1 DEF DirectoryInv, DirectoryTyped, PeerInv, AloneInv, EntryServed, ServedListed,
                InService, history
<1>2. CASE UNCHANGED vars
  BY <1>2, DirectoryUnchanged DEF vars, clientVars, connection, serverVars, sharedVars
<1> QED
  BY <1>1, <1>2, DirectoryViewer, DirectoryThread, DirectoryListener DEF Next, Others

\* An entry of the directory is that of a client of its host whose thread has not left its
\* loop, or left it on an error of poll (MirrorDirectory::put and remove, onClose).
THEOREM EntriesServed == Spec => []EntryServed
<1>1. ClientsInv /\ DirectoryInv => EntryServed
  BY DEF DirectoryInv
<1> QED
  BY <1>1, ClientsInit, ClientsStep, DirectoryInit, DirectoryStep, PTL DEF Spec

\* A client that is served and the only connection of its host is listed
\* (processMemoryInfo, onClose).
THEOREM ServedAreListed == Spec => []ServedListed
<1>1. ClientsInv /\ DirectoryInv => ServedListed
  BY DEF DirectoryInv
<1> QED
  BY <1>1, ClientsInit, ClientsStep, DirectoryInit, DirectoryStep, PTL DEF Spec

---------------------------------------------------------------------------
(* Types *)

UndefinedTyped == undefined \in BOOLEAN

LEMMA UndefinedStep == UndefinedTyped /\ [Next]_vars => UndefinedTyped'
<1> SUFFICES ASSUME undefined \in BOOLEAN, [Next]_vars
             PROVE  undefined' \in BOOLEAN
  BY DEF UndefinedTyped
<1>1. CASE UseDirectory
  BY <1>1, Zenon DEF UseDirectory
<1>2. ASSUME NEW c \in Clients, ViewerStep(c) \/ ClientStep(c) \/ Die(c) \/ RequestUpdate(c)
      PROVE  UseDirectory \/ UNCHANGED undefined
  BY <1>2 DEF ViewerStep, GetSpecTclMemory, LookAgain, ClientStep, AlreadyMirroring, Connect,
              UpdateFails, Die, RequestUpdate, sharedVars
<1>3. ASSUME NEW c \in Clients, ServerStep(c) \/ PollFails(c)
      PROVE  UseDirectory \/ UNCHANGED undefined \/ undefined' = TRUE
  BY <1>3 DEF ServerStep, OnConnection, ProcessMemoryInfo, ProcessUpdate, SendUpdate, ReadRunt,
              OnClose, Closed, RequestDestruction, ThreadEnds, PollFails, sharedVars
<1>4. CASE ListenerStep \/ RequestExit \/ ListenerPollFails \/ UNCHANGED vars
  BY <1>4 DEF ListenerStep, PollTimesOut, RequestExit, ListenerPollFails, ReapClients, Reaped,
              KillallClients, ForgetKilled, Killed, StartServer, ReapOne, KillOne, JoinKilled,
              sharedVars, vars
<1> QED
  BY <1>1, <1>2, <1>3, <1>4 DEF Next, Others

\* The values of the variables; a connection has at most one update that is not answered
\* (requestUpdate, processUpdate).
THEOREM MirrorTypesCorrect == Spec => []TypeOK
<1>1. ServersInv /\ ClientsInv /\ DirectoryInv /\ UndefinedTyped => TypeOK
  BY DEF ServersInv, ServersTyped, ClientsInv, ClientsTyped, DirectoryInv, DirectoryTyped,
         TypeOK, Requests, UndefinedTyped
<1>2. Init => UndefinedTyped
  BY DEF Init, UndefinedTyped
<1> QED
  BY <1>1, <1>2, ServersInit, ServersStep, ClientsInit, ClientsStep, DirectoryInit,
     DirectoryStep, UndefinedStep, PTL DEF Spec
===========================================================================
