----------------------------- MODULE MirrorServer ----------------------------
(***************************************************************************)
(* Mirrors of the display memory in other hosts: the threaded server       *)
(* (Core/AbstractThreadedServer.cpp) with its listener and one thread per  *)
(* connection, what those threads do for a mirror (Core/MirrorServer.cpp), *)
(* the directory of mirrors they share with the main thread                *)
(* (Core/MirrorDirectory.cpp), and the other end of the connection: the    *)
(* mirrorclient program and the viewers that start it                      *)
(* (mirrorclient/SpecTclMirrorClient.cpp, mirrorclientscript.tcl,          *)
(* MirrorCommand.cpp, MirrorClient.cpp).                                   *)
(*                                                                         *)
(* A viewer maps the mirror it finds in SpecTcl's list or starts a         *)
(* mirrorclient and looks again.  The listener starts a thread for each    *)
(* client, reaps the threads that have ended and, asked to exit, ends and  *)
(* joins the others.  A client sends its memory key, which enters its host *)
(* in the directory, and then asks for updates.  Whose turn it is matters  *)
(* here, not what an update holds.                                         *)
(***************************************************************************)
EXTENDS Naturals, Sequences, FiniteSets, FiniteSetsExt

CONSTANTS
  Clients,       \* viewers; the mirrorclient a viewer starts has its name
  Hosts,         \* their hosts, numbers in the order of the host names
  NoHost,        \* m_peer before getPeer has set it
  Retries,       \* MAP_RETRIES
  MaxLooks,      \* bound on the times viewers look again
  MaxUpdates,    \* bound on the updates that clients ask for
  MaxPollErrors  \* bound on the polls that fail

ASSUME MirrorAssumption ==
  /\ Hosts \subseteq Nat /\ Hosts # {} /\ NoHost \notin Hosts
  /\ Retries \in Nat \ {0} /\ MaxLooks \in Nat /\ MaxUpdates \in Nat /\ MaxPollErrors \in Nat

VARIABLES
  \* viewers and clients
  host,       \* the host a viewer and its client run in
  viewer,     \* [pc, tries]: where a viewer is in getSpecTclMemory
  client,     \* where its mirrorclient is
  updates,    \* how many updates were asked for
  \* connections
  request,    \* what the client sent and the server has not read
  shut,       \* connections the server has shut down
  \* server threads
  thread,     \* where the server thread of a client is
  peer,       \* m_peer
  exitRequest, \* threads asked to exit
  listener,   \* [pc, todo, victim, exit]: the listener's loop
  active,     \* m_activeClients
  exiting,    \* m_exitingClients
  \* shared by the threads
  directory,  \* m_directory: the client whose key a host has
  undefined,  \* did unsynchronised accesses spoil the directory, or an exception end SpecTcl?
  \* history
  deletions,  \* how often a server was deleted
  entered,    \* clients the directory accepted
  alone,      \* of those, the ones that have been the only connection of their host
  unclosed    \* clients whose thread ended on an error of poll

clientVars == <<host, viewer, client, updates>>
connection == <<request, shut>>
serverVars == <<thread, peer, exitRequest>>
listenerVars == <<listener, active, exiting, deletions>>
sharedVars == <<directory, undefined>>
history == <<entered, alone, unclosed>>
vars == <<clientVars, connection, serverVars, listenerVars, sharedVars, history>>

---------------------------------------------------------------------------
(* Helpers *)

Dead(c) == client[c] = "dead"
PollErrors == Cardinality(unclosed) + (IF listener.pc = "failed" THEN 1 ELSE 0)

\* The entries a client made or a viewer reads are a snapshot: list, put and get
\* lock the directory.  remove does not: whoever else uses the directory while
\* a thread is inside remove may spoil it.
Removing == {c \in Clients : thread[c] = "removing"}
UseDirectory == undefined' \in {FALSE, Removing # {}}

\* MirrorDirectory::put: does the directory take the host's key?
Accepts(h) == h \notin DOMAIN directory
Put(h, c) == directory' = [k \in DOMAIN directory \cup {h} |->
                             IF k = h THEN c ELSE directory[k]]
\* variant: as remove(const char*), which removes the entry of an empty name
RemoveEmpty(h) == directory' = [k \in DOMAIN directory \ {NoHost} |-> directory[k]]
\* MirrorDirectory::remove: without an entry, a no-op.
Remove(h) == directory' = [k \in DOMAIN directory \ {h} |-> directory[k]]

\* MapMemory finds a memory by its key in the viewer's own host.
Mappable(k, h) == host[k] = h /\ ~Dead(k)
\* mapExistingMirror: `if (gottenhostname, item.m_host.c_str())' holds for any item,
\* so the key of the first is mapped, whatever its host.
FirstHost == CHOOSE h \in DOMAIN directory : \A k \in DOMAIN directory : h <= k
MapsExisting(h) == DOMAIN directory # {} /\ Mappable(directory[FirstHost], h)

---------------------------------------------------------------------------
(* Viewers: getSpecTclMemory and startMirroring *)

\* A viewer looks for a mirror; if it cannot map one it forks a mirrorclient.
GetSpecTclMemory(v) ==
  /\ viewer[v].pc = "idle"
  /\ UseDirectory
  /\ \E h \in Hosts :
       /\ host' = [host EXCEPT ![v] = h]
       /\ IF MapsExisting(h)
          THEN viewer' = [viewer EXCEPT ![v].pc = "mapped"] /\ UNCHANGED client
          ELSE /\ viewer' = [viewer EXCEPT ![v].pc = "waiting"]
               /\ client' = [client EXCEPT ![v] = "new"]
  /\ UNCHANGED <<updates, connection, serverVars, listenerVars, directory, history>>

\* One turn of startMirroring's loop; the last that fails reports MIRROR_SETUPFAILED.
Looks == MapThenSumSet(LAMBDA v : viewer[v].tries, Clients)
LookAgain(v) ==
  /\ viewer[v].pc = "waiting" /\ Looks < MaxLooks
  /\ UseDirectory
  /\ viewer' = [viewer EXCEPT ![v] =
       [tries |-> @.tries + 1,
        pc |-> IF MapsExisting(host[v]) THEN "mapped"
               ELSE IF @.tries + 1 = Retries THEN "failed" ELSE "waiting"]]
  /\ UNCHANGED <<host, client, updates, connection, serverVars, listenerVars,
                 directory, history>>

---------------------------------------------------------------------------
(* The mirrorclient program *)

\* alreadyMirroring: it exits if its host is in the list.
AlreadyMirroring(c) ==
  /\ client[c] = "new"
  /\ UseDirectory
  /\ client' = [client EXCEPT ![c] =
                  IF host[c] \in DOMAIN directory THEN "dead" ELSE "create"]
  /\ UNCHANGED <<host, viewer, updates, connection, serverVars, listenerVars,
                 directory, history>>

\* Mirror::mirror create: the memory, the connection and the key.  A listener that
\* has closed its socket refuses the connection.
Connect(c) ==
  /\ client[c] = "create"
  /\ IF listener.pc = "done"
     THEN client' = [client EXCEPT ![c] = "dead"] /\ UNCHANGED request
     ELSE /\ client' = [client EXCEPT ![c] = "idle"]
          /\ request' = [request EXCEPT ![c] = <<"key">>]
  /\ UNCHANGED <<host, viewer, updates, shut, serverVars, listenerVars,
                 sharedVars, history>>

\* MirrorClient::requestUpdate
RequestUpdate(c) ==
  /\ client[c] = "idle" /\ updates < MaxUpdates
  /\ c \notin shut
  /\ client' = [client EXCEPT ![c] = "requested"]
  /\ updates' = updates + 1
  /\ request' = [request EXCEPT ![c] = Append(@, "update")]
  /\ UNCHANGED <<host, viewer, shut, serverVars, listenerVars,
                 sharedVars, history>>

\* The end of a client: an update fails on a connection that was shut or never
\* accepted, or somebody ends the program.
Lost(c) ==
  /\ client[c] \in {"idle", "requested"}
  /\ c \in shut \/ (thread[c] = "none" /\ listener.pc = "done")
Die(c) ==
  /\ client[c] \in {"create", "idle", "requested"}
  /\ client' = [client EXCEPT ![c] = "dead"]
  /\ UNCHANGED <<host, viewer, updates, connection, serverVars, listenerVars,
                 sharedVars, history>>
UpdateFails(c) == Lost(c) /\ Die(c)

---------------------------------------------------------------------------
(* A server thread: AbstractClientServer::operator() *)

\* variant: a failing getPeer is not noticed
OnConnectionUnchecked(c) ==
  /\ thread[c] = "starting"
  /\ thread' = [thread EXCEPT ![c] = "polling"]
  /\ \/ peer' = [peer EXCEPT ![c] = host[c]]
     \/ Dead(c) /\ UNCHANGED peer
  /\ UNCHANGED <<clientVars, connection, exitRequest, listenerVars, sharedVars, history>>
\* onConnection: getPeer may fail when the client has gone, and the socket is shut.  Shutdown
\* throws if the connection is lost already; nothing in the thread catches that.
OnConnection(c) ==
  /\ thread[c] = "starting"
  /\ \/ /\ thread' = [thread EXCEPT ![c] = "polling"] /\ UNCHANGED undefined
        /\ \/ /\ peer' = [peer EXCEPT ![c] = host[c]]
              /\ alone' = {k \in alone : host[k] # host[c]}
              /\ UNCHANGED shut
           \/ Dead(c) /\ shut' = shut \cup {c} /\ UNCHANGED <<peer, alone>>
     \/ Dead(c) /\ undefined' = TRUE /\ UNCHANGED <<thread, shut, peer, alone>>
  /\ UNCHANGED <<clientVars, request, exitRequest, listenerVars, directory, entered, unclosed>>

\* The thread polls, its socket is readable and not hung up: onReadable.
Readable(c, message) ==
  /\ thread[c] = "polling" /\ c \notin shut /\ c \notin exitRequest
  /\ request[c] # <<>> /\ Head(request[c]) = message

\* No thread but c's serves the host h.
OnlyOf(h, c) ==
  \A k \in Clients \ {c} : peer[k] = h =>
                             thread[k] \in {"closed", "ending", "ended"}

\* processMemoryInfo.  The exception of put shuts the connection.
ProcessMemoryInfo(c) ==
  LET h == peer[c]
  IN /\ Readable(c, "key")
     /\ request' = [request EXCEPT ![c] = Tail(@)]
     /\ UseDirectory
     /\ IF Accepts(h)
        THEN /\ Put(h, c) /\ entered' = entered \cup {c}
             /\ alone' = IF OnlyOf(h, c) THEN alone \cup {c} ELSE alone
             /\ UNCHANGED shut
        ELSE shut' = shut \cup {c} /\ UNCHANGED <<directory, entered, alone>>
     /\ UNCHANGED <<clientVars, serverVars, listenerVars, unclosed>>

\* processUpdate writes a header and as much of the display memory as is used, which
\* the client reads; the write fails when the client has gone.
ProcessUpdate(c) ==
  /\ Readable(c, "update")
  /\ request' = [request EXCEPT ![c] = Tail(@)]
  /\ thread' = [thread EXCEPT ![c] = "sending"]
  /\ UNCHANGED <<clientVars, shut, peer, exitRequest, listenerVars, sharedVars, history>>

SendUpdate(c) ==
  /\ thread[c] = "sending"
  /\ thread' = [thread EXCEPT ![c] = "polling"]
  /\ IF Dead(c)
     THEN shut' = shut \cup {c} /\ UNCHANGED client
     ELSE client' = [client EXCEPT ![c] = "idle"] /\ UNCHANGED shut
  /\ UNCHANGED <<host, viewer, updates, request, peer, exitRequest, listenerVars,
                 sharedVars, history>>

\* The client has closed the connection: onReadable reads a runt.
ReadRunt(c) ==
  /\ thread[c] = "polling" /\ c \notin shut /\ c \notin exitRequest
  /\ Dead(c) /\ request[c] = <<>>
  /\ shut' = shut \cup {c}
  /\ UNCHANGED <<clientVars, request, serverVars, listenerVars, sharedVars, history>>

\* The loop ends, on POLLHUP or because the thread was asked to exit, and onClose
\* begins to remove the peer's entry.
OnClose(c) ==
  /\ thread[c] = "polling"
  /\ c \in shut \/ c \in exitRequest
  /\ UseDirectory
  /\ thread' = [thread EXCEPT ![c] = "removing"]
  /\ UNCHANGED <<clientVars, connection, peer, exitRequest, listenerVars, directory, history>>

Closed(c) ==
  /\ thread[c] = "removing"
  /\ Remove(peer[c])
  /\ shut' = shut \cup {c}
  /\ thread' = [thread EXCEPT ![c] = "closed"]
  /\ UNCHANGED <<clientVars, request, peer, exitRequest, listenerVars, undefined, history>>

\* Any error of poll but EINTR ends the thread at once.
PollFails(c) ==
  /\ thread[c] = "polling" /\ PollErrors < MaxPollErrors
  /\ thread' = [thread EXCEPT ![c] = "closed"]
  /\ shut' = shut \cup {c}
  /\ unclosed' = unclosed \cup {c}
  /\ UNCHANGED <<clientVars, request, peer, exitRequest, listenerVars, sharedVars, entered,
                 alone>>

\* exitHandler: ServerListener::requestDestruction, under the listener's lock.
RequestDestruction(c) ==
  /\ thread[c] = "closed"
  /\ active' = active \ {c}
  /\ exiting' = exiting \cup {c}
  /\ thread' = [thread EXCEPT ![c] = "ending"]
  /\ UNCHANGED <<clientVars, connection, peer, exitRequest, listener, deletions, sharedVars, history>>

\* variant: the entry is removed once more at the end of the thread
ThreadEndsRemoving(c) ==
  /\ thread[c] = "ending"
  /\ Remove(peer[c])
  /\ thread' = [thread EXCEPT ![c] = "ended"]
  /\ UNCHANGED <<clientVars, connection, peer, exitRequest, listenerVars, undefined, history>>
ThreadEnds(c) ==
  /\ thread[c] = "ending"
  /\ thread' = [thread EXCEPT ![c] = "ended"]
  /\ UNCHANGED <<clientVars, connection, peer, exitRequest, listenerVars, sharedVars, history>>

---------------------------------------------------------------------------
(* The listener thread: ServerListener::operator() *)

\* Accept and startServer: the server is recorded, then started.
StartServer(c) ==
  /\ listener.pc = "poll" /\ ~listener.exit
  /\ request[c] # <<>> /\ thread[c] = "none"
  /\ active' = active \cup {c}
  /\ thread' = [thread EXCEPT ![c] = "starting"]
  /\ listener' = [listener EXCEPT !.pc = "reap"]
  /\ UNCHANGED <<clientVars, connection, peer, exitRequest, exiting, deletions, sharedVars, history>>

\* The poll times out; a turn that finds nothing to reap changes nothing.
PollTimesOut ==
  /\ listener.pc = "poll" /\ ~listener.exit /\ exiting # {}
  /\ listener' = [listener EXCEPT !.pc = "reap"]
  /\ UNCHANGED <<clientVars, connection, serverVars, active, exiting, deletions,
                 sharedVars, history>>

ListenerPollFails ==
  /\ listener.pc = "poll" /\ ~listener.exit /\ PollErrors < MaxPollErrors
  /\ listener' = [listener EXCEPT !.pc = "failed"]
  /\ UNCHANGED <<clientVars, connection, serverVars, active, exiting, deletions,
                 sharedVars, history>>

\* reapClients copies and clears m_exitingClients under the lock ...
ReapClients ==
  /\ listener.pc \in {"reap", "lastReap"}
  /\ listener' = [listener EXCEPT !.todo = exiting,
                    !.pc = IF @ = "reap" THEN "join" ELSE "lastJoin"]
  /\ exiting' = {}
  /\ UNCHANGED <<clientVars, connection, serverVars, active, deletions, sharedVars, history>>

\* ... and joins and deletes what it copied.
Joinable(c) == thread[c] = "ended"
ReapOne(c) ==
  /\ listener.pc \in {"join", "lastJoin"}
  /\ c \in listener.todo /\ Joinable(c)
  /\ deletions' = [deletions EXCEPT ![c] = @ + 1]
  /\ listener' = [listener EXCEPT !.todo = @ \ {c}]
  /\ UNCHANGED <<clientVars, connection, serverVars, active, exiting, sharedVars, history>>

Reaped ==
  /\ listener.pc \in {"join", "lastJoin"} /\ listener.todo = {}
  /\ listener' = [listener EXCEPT !.pc = IF @ = "join" THEN "poll" ELSE "done"]
  /\ UNCHANGED <<clientVars, connection, serverVars, active, exiting, deletions,
                 sharedVars, history>>

\* Somebody wants the listener to end.
RequestExit ==
  /\ ~listener.exit
  /\ listener' = [listener EXCEPT !.exit = TRUE]
  /\ UNCHANGED <<clientVars, connection, serverVars, active, exiting, deletions,
                 sharedVars, history>>

\* killallClients copies and clears m_activeClients under the lock, asks each of the
\* copy to exit, joins and deletes it, and takes it from m_exitingClients.
KillallClients ==
  /\ listener.pc = "poll" /\ listener.exit
  /\ listener' = [listener EXCEPT !.todo = active, !.pc = "kill"]
  /\ active' = {}
  /\ UNCHANGED <<clientVars, connection, serverVars, exiting, deletions, sharedVars, history>>

\* variant: the thread is joined without being asked to exit
KillOneUnasked(c) ==
  /\ listener.pc = "kill" /\ c \in listener.todo
  /\ listener' = [listener EXCEPT !.pc = "joinKilled", !.victim = {c}]
  /\ UNCHANGED <<clientVars, connection, serverVars, active, exiting, deletions, sharedVars,
                 history>>
KillOne(c) ==
  /\ listener.pc = "kill" /\ c \in listener.todo
  /\ exitRequest' = exitRequest \cup {c}
  /\ listener' = [listener EXCEPT !.pc = "joinKilled", !.victim = {c}]
  /\ UNCHANGED <<clientVars, connection, thread, peer, active, exiting, deletions, sharedVars,
                 history>>

JoinKilled(c) ==
  /\ listener.pc = "joinKilled" /\ c \in listener.victim /\ Joinable(c)
  /\ deletions' = [deletions EXCEPT ![c] = @ + 1]
  /\ listener' = [listener EXCEPT !.pc = "forget"]
  /\ UNCHANGED <<clientVars, connection, serverVars, active, exiting, sharedVars, history>>

\* variant: what requestDestruction put into m_exitingClients stays there
ForgetKilledNot ==
  /\ listener.pc = "forget"
  /\ listener' = [listener EXCEPT !.pc = "kill", !.victim = {},
                                  !.todo = @ \ listener.victim]
  /\ UNCHANGED <<clientVars, connection, serverVars, active, exiting, deletions,
                 sharedVars, history>>
ForgetKilled ==
  /\ listener.pc = "forget"
  /\ exiting' = exiting \ listener.victim
  /\ listener' = [listener EXCEPT !.pc = "kill", !.victim = {},
                                  !.todo = @ \ listener.victim]
  /\ UNCHANGED <<clientVars, connection, serverVars, active, deletions, sharedVars, history>>

Killed ==
  /\ listener.pc = "kill" /\ listener.todo = {}
  /\ listener' = [listener EXCEPT !.pc = "lastReap"]
  /\ UNCHANGED <<clientVars, connection, serverVars, active, exiting, deletions,
                 sharedVars, history>>

---------------------------------------------------------------------------
Init ==
  /\ host = [c \in Clients |-> NoHost]
  /\ viewer = [c \in Clients |-> [pc |-> "idle", tries |-> 0]]
  /\ client = [c \in Clients |-> "none"] /\ updates = 0
  /\ request = [c \in Clients |-> <<>>] /\ shut = {}
  /\ thread = [c \in Clients |-> "none"]
  /\ peer = [c \in Clients |-> NoHost] /\ exitRequest = {}
  /\ listener = [pc |-> "poll", todo |-> {}, victim |-> {}, exit |-> FALSE]
  /\ active = {} /\ exiting = {}
  /\ directory = <<>> /\ undefined = FALSE
  /\ deletions = [c \in Clients |-> 0]
  /\ entered = {} /\ alone = {} /\ unclosed = {}

ViewerStep(c) == GetSpecTclMemory(c) \/ LookAgain(c)
ClientStep(c) == AlreadyMirroring(c) \/ Connect(c) \/ UpdateFails(c)
ServerStep(c) ==
  \/ OnConnection(c) \/ ProcessMemoryInfo(c) \/ ProcessUpdate(c)
  \/ SendUpdate(c) \/ ReadRunt(c) \/ OnClose(c) \/ Closed(c)
  \/ RequestDestruction(c) \/ ThreadEnds(c)
ListenerStep ==
  \/ PollTimesOut \/ ReapClients \/ Reaped \/ KillallClients \/ ForgetKilled \/ Killed
  \/ \E c \in Clients : StartServer(c) \/ ReapOne(c) \/ KillOne(c) \/ JoinKilled(c)
Others ==
  \/ RequestExit \/ ListenerPollFails
  \/ \E c \in Clients : Die(c) \/ RequestUpdate(c) \/ PollFails(c)

\* A directory spoilt by unsynchronised accesses is undefined behaviour, and an exception
\* of a thread ends the program: nothing is said from there on.
Next ==
  /\ ~undefined
  /\ \/ \E c \in Clients : ViewerStep(c) \/ ClientStep(c) \/ ServerStep(c)
     \/ ListenerStep
     \/ Others

Spec == Init /\ [][Next]_vars

\* Threads and clients that can go on do; viewers, users and poll errors are free.
FairSpec ==
  /\ Spec
  /\ \A c \in Clients : WF_vars(~undefined /\ ClientStep(c))
                        /\ WF_vars(~undefined /\ ServerStep(c))
  /\ WF_vars(~undefined /\ ListenerStep)

---------------------------------------------------------------------------
(* Properties *)

ViewerPcs == {"idle", "waiting", "mapped", "failed"}
ClientPcs == {"none", "new", "create", "idle", "requested", "dead"}
ThreadPcs == {"none", "starting", "polling", "sending", "removing", "closed",
              "ending", "ended"}
ListenerPcs == {"poll", "reap", "join", "kill", "joinKilled", "forget", "lastReap",
                "lastJoin", "done", "failed"}

\* The values of the variables; the requests of a connection are a key and then updates,
\* at most one of which is not answered.
TypeOK ==
  /\ host \in [Clients -> Hosts \cup {NoHost}]
  /\ viewer \in [Clients -> [pc : ViewerPcs, tries : 0 .. Retries]]
  /\ client \in [Clients -> ClientPcs] /\ updates \in 0 .. MaxUpdates
  /\ request \in [Clients -> {<<>>, <<"key">>, <<"key", "update">>, <<"update">>}]
  /\ thread \in [Clients -> ThreadPcs]
  /\ peer \in [Clients -> Hosts \cup {NoHost}]
  /\ listener \in [pc : ListenerPcs, todo : SUBSET Clients, victim : SUBSET Clients,
                   exit : BOOLEAN]
  /\ DOMAIN directory \subseteq Hosts /\ \A h \in DOMAIN directory : directory[h] \in Clients
  /\ undefined \in BOOLEAN
  /\ deletions \in [Clients -> Nat]
  /\ \A set \in {shut, exitRequest, active, exiting, entered, alone, unclosed} : set \subseteq Clients

\* A server is deleted once, when its thread has ended, and the listener has no use for
\* it afterwards; until then one of its sets has it, so that it will be deleted
\* (reapClients against killallClients against requestDestruction).
Registered == active \cup exiting \cup listener.todo
DeletedOnce ==
  \A c \in Clients :
    /\ deletions[c] <= 1
    /\ deletions[c] = 1 => /\ thread[c] = "ended"
                           /\ c \notin (active \cup listener.todo) \ listener.victim
                           /\ c \notin exiting \ listener.victim
    /\ thread[c] # "none" /\ deletions[c] = 0 => c \in Registered

\* An entry of the directory is that of a client of this host whose server thread has not
\* left its loop, or left it on an error of poll, which skips onClose.
InService(c) == thread[c] \in {"polling", "sending", "removing"}
EntryServed ==
  \A h \in DOMAIN directory :
    LET c == directory[h]
    IN host[c] = h /\ c \in entered /\ (InService(c) \/ c \in unclosed)

\* A client whose key the directory took is listed as long as it is served, unless
\* another connection of its host is made, whose onClose removes this one's entry.
ServedListed ==
  \A c \in alone : InService(c) =>
    host[c] \in DOMAIN directory /\ directory[host[c]] = c

\* What can go wrong for good: undefined behaviour, an exception that ends the program, a
\* listener or a thread that ended on an error of poll.
Broken == undefined \/ listener.pc = "failed" \/ unclosed # {}

\* A client that has ended is forgotten: its server is joined and deleted and the
\* directory does not list it, so that its host can be mirrored again.
Forgotten(c) == deletions[c] = 1 /\ \A h \in DOMAIN directory : directory[h] # c

\* A listener that is asked to exit ends, with all its servers joined and deleted.
ListenerStops ==
  listener.exit ~> \/ Broken
                   \/ /\ listener.pc = "done"
                      /\ \A c \in Clients : thread[c] # "none" => deletions[c] = 1

\* A viewer gives up only when its host has no mirror in the list
\* (mapExistingMirror: "Maps an existing mirror, if it really does exist.").
MirrorOf(h) == h \in DOMAIN directory /\ Mappable(directory[h], h)
ExistingMapped ==
  [][\A v \in Clients : viewer[v].pc = "waiting" /\ viewer'[v].pc = "failed" =>
       ~MirrorOf(host[v])]_vars
=============================================================================
