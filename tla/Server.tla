-------------------------------- MODULE Server --------------------------------
(***************************************************************************)
(* The life of the server: the accept loop of server/sockets.c with its    *)
(* count of connection threads, the threads of each connection, the locks  *)
(* of server/locks.c that implement the thread models, quit, and the       *)
(* shutdown of main: cleanup and unload of the chain of backends.          *)
(*                                                                         *)
(* A connection is named by its connection thread, its leader.  With the   *)
(* parallel thread model the other threads it owns are its pool of         *)
(* workers.  What a request does is the business of module Connection.     *)
(***************************************************************************)
EXTENDS Integers, FiniteSets

CONSTANTS
    Threads,    \* the threads that may call the backends
    Owner,      \* the connection each thread belongs to
    NoThread,   \* the holder of a lock that is free
    Models,     \* the thread models this instance may settle on
    Backends    \* the length of the chain: the plugin and its filters

SERIALIZE_CONNECTIONS == 0
SERIALIZE_ALL_REQUESTS == 1
SERIALIZE_REQUESTS == 2
PARALLEL == 3

Conns == {Owner[t] : t \in Threads}
Pool(c) == {t \in Threads : Owner[t] = c /\ t # c}

ASSUME OwnerAssumption == Owner \in [Threads -> Threads] /\ \A c \in Conns : Owner[c] = c
ASSUME ThreadsAssumption == IsFiniteSet(Threads)
ASSUME NoThreadAssumption == NoThread \notin Threads
ASSUME ModelsAssumption == Models \subseteq SERIALIZE_CONNECTIONS..PARALLEL
ASSUME BackendsAssumption == Backends \in Nat \ {0}

VARIABLES
    thread_model,       \* fixed by lock_init_thread_model
    quit,               \* server/quit.c
    main,               \* where the main thread is
    unloaded,           \* how many backends of the chain have been unloaded
    top,                \* top # NULL
    count,              \* connection threads counted by start_thread
    at,                 \* where each thread is
    job,                \* what it takes the request locks for
    handle,             \* conn->top_context of each connection
    over,               \* conn->status <= STATUS_CLIENT_DONE
    client,             \* "here" or "gone"
    connection_lock, all_requests_lock, request_lock,  \* their holders
    readers, writer     \* unload_prevention_lock

vars == <<thread_model, quit, main, unloaded, top, count, at, job, handle, over,
          client, connection_lock, all_requests_lock, request_lock, readers, writer>>

process == <<thread_model, quit, main, unloaded, top>>
locks == <<connection_lock, all_requests_lock, request_lock, readers, writer>>
conns == <<handle, over, client>>

Locations ==
    {"none", "created", "lock_connection", "check", "preconnect", "lock_all",
     "lock_conn", "lock_unload", "callback", "serve", "create", "join", "loop", "recv",
     "free", "unlock", "leaving", "exit"}
Jobs == {"handshake", "request", "finalize", "close"}

(* filter_thread_model takes the most serialized model of the chain.       *)
Init ==
    /\ thread_model \in Models
    /\ quit = FALSE /\ main = "poll" /\ unloaded = 0 /\ top = TRUE /\ count = 0
    /\ at = [t \in Threads |-> "none"]
    /\ job = [t \in Threads |-> "handshake"]
    /\ handle = [c \in Conns |-> "none"]
    /\ over = [c \in Conns |-> FALSE]
    /\ client = [c \in Conns |-> "here"]
    /\ connection_lock = NoThread /\ all_requests_lock = NoThread
    /\ request_lock = [c \in Conns |-> NoThread]
    /\ readers = {} /\ writer = FALSE

Goto(t, there) == at' = [at EXCEPT ![t] = there]

-----------------------------------------------------------------------------
(* main and accept_incoming_connections *)

set_quit ==
    /\ ~quit /\ quit' = TRUE
    /\ UNCHANGED <<thread_model, main, unloaded, top, count, at, job, conns, locks>>

(* poll in check_sockets_and_quit_fd returns with a listening socket.      *)
PollReady ==
    /\ main = "poll" /\ ~quit /\ main' = "accept"
    /\ UNCHANGED <<thread_model, quit, unloaded, top, count, at, job, conns, locks>>

(* accept_connection creates the thread, which will count itself.  Another *)
(* listening socket may be ready, and is served before quit is looked at.  *)
accept_connection(c) ==
    /\ main = "accept" /\ at[c] = "none"
    /\ main' \in {"accept", "poll"} /\ Goto(c, "created")
    /\ UNCHANGED <<thread_model, quit, unloaded, top, count, job, conns, locks>>

(* accept or pthread_create fails. *)
AcceptFails ==
    /\ main = "accept" /\ main' = "poll"
    /\ UNCHANGED <<thread_model, quit, unloaded, top, count, at, job, conns, locks>>

StopAccepting ==
    /\ main = "poll" /\ quit /\ main' = "wait"
    /\ UNCHANGED <<thread_model, quit, unloaded, top, count, at, job, conns, locks>>

(* Mutant: the loop that waits for the connection threads ends one early. *)
WaitForThreadsButOne ==
    /\ main = "wait" /\ count <= 1 /\ main' = "cleanup"
    /\ UNCHANGED <<thread_model, quit, unloaded, top, count, at, job, conns, locks>>

WaitForThreads ==
    /\ main = "wait" /\ count = 0 /\ main' = "cleanup"
    /\ UNCHANGED <<thread_model, quit, unloaded, top, count, at, job, conns, locks>>

Cleanup ==
    /\ main = "cleanup" /\ main' = "unload"
    /\ UNCHANGED <<thread_model, quit, unloaded, top, count, at, job, conns, locks>>

(* top->free unloads the chain from the plugin outwards, each backend      *)
(* under the write side of unload_prevention_lock.                         *)
(* Mutant: lock_unload takes the read side. *)
lock_unload_shared ==
    /\ main = "unload" /\ main' = "unloading"
    /\ writer' = TRUE
    /\ UNCHANGED <<thread_model, quit, unloaded, top, count, at, job, conns,
                   connection_lock, all_requests_lock, request_lock, readers>>

lock_unload ==
    /\ main = "unload" /\ readers = {}
    /\ main' = "unloading" /\ writer' = TRUE
    /\ UNCHANGED <<thread_model, quit, unloaded, top, count, at, job, conns,
                   connection_lock, all_requests_lock, request_lock, readers>>

unlock_unload ==
    /\ main = "unloading"
    /\ unloaded' = unloaded + 1 /\ writer' = FALSE
    /\ main' = IF unloaded + 1 = Backends THEN "freed" ELSE "unload"
    /\ UNCHANGED <<thread_model, quit, top, count, at, job, conns,
                   connection_lock, all_requests_lock, request_lock, readers>>

(* top = NULL; the process then ends, and its threads with it.             *)
ClearTop ==
    /\ main = "freed" /\ top /\ top' = FALSE
    /\ UNCHANGED <<thread_model, quit, main, unloaded, count, at, job, conns, locks>>

Exit ==
    /\ main = "freed" /\ ~top /\ main' = "done"
    /\ UNCHANGED <<thread_model, quit, unloaded, top, count, at, job, conns, locks>>

-----------------------------------------------------------------------------
(* lock_request takes three locks in order; unlock_request releases them.  *)

EnterLocks(t, what) == Goto(t, "lock_all") /\ job' = [job EXCEPT ![t] = what]

(* Mutant: the comparison with the thread model is off by one. *)
LockAllOffByOne(t) ==
    /\ at[t] = "lock_all"
    /\ IF thread_model < SERIALIZE_ALL_REQUESTS
       THEN all_requests_lock = NoThread /\ all_requests_lock' = t
       ELSE UNCHANGED all_requests_lock
    /\ Goto(t, "lock_conn")
    /\ UNCHANGED <<process, count, job, conns, connection_lock, request_lock, readers, writer>>

LockAll(t) ==
    /\ at[t] = "lock_all"
    /\ IF thread_model <= SERIALIZE_ALL_REQUESTS
       THEN all_requests_lock = NoThread /\ all_requests_lock' = t
       ELSE UNCHANGED all_requests_lock
    /\ Goto(t, "lock_conn")
    /\ UNCHANGED <<process, count, job, conns, connection_lock, request_lock, readers, writer>>

LockConn(t) ==
    /\ at[t] = "lock_conn"
    /\ IF thread_model <= SERIALIZE_REQUESTS
       THEN /\ request_lock[Owner[t]] = NoThread
            /\ request_lock' = [request_lock EXCEPT ![Owner[t]] = t]
       ELSE UNCHANGED request_lock
    /\ Goto(t, "lock_unload")
    /\ UNCHANGED <<process, count, job, conns, connection_lock, all_requests_lock,
                   readers, writer>>

LockUnload(t) ==
    /\ at[t] = "lock_unload" /\ ~writer
    /\ readers' = readers \cup {t}
    /\ Goto(t, "callback")
    /\ UNCHANGED <<process, count, job, conns, connection_lock, all_requests_lock,
                   request_lock, writer>>

unlock_request(t) ==
    /\ readers' = readers \ {t}
    /\ request_lock' = IF thread_model <= SERIALIZE_REQUESTS
                       THEN [request_lock EXCEPT ![Owner[t]] = NoThread] ELSE request_lock
    /\ all_requests_lock' = IF thread_model <= SERIALIZE_ALL_REQUESTS
                            THEN NoThread ELSE all_requests_lock

-----------------------------------------------------------------------------
(* start_thread and handle_single_connection, run by the leader c *)

CountUp(c) ==
    /\ at[c] = "created" /\ count' = count + 1
    /\ Goto(c, "lock_connection")
    /\ UNCHANGED <<process, job, conns, locks>>

lock_connection(c) ==
    /\ at[c] = "lock_connection"
    /\ IF thread_model <= SERIALIZE_CONNECTIONS
       THEN connection_lock = NoThread /\ connection_lock' = c
       ELSE UNCHANGED connection_lock
    /\ Goto(c, "check")
    /\ UNCHANGED <<process, count, job, conns, all_requests_lock, request_lock, readers, writer>>

(* The test of top, and new_connection, which may fail. *)
CheckTop(c) ==
    /\ at[c] = "check"
    /\ \/ top /\ Goto(c, "preconnect")
       \/ Goto(c, "unlock")
    /\ UNCHANGED <<process, count, job, conns, locks>>

(* top->preconnect is called without the request locks. *)
Preconnect(c) ==
    /\ at[c] = "preconnect"
    /\ \/ EnterLocks(c, "handshake")
       \/ Goto(c, "free") /\ UNCHANGED job
    /\ UNCHANGED <<process, count, conns, locks>>

(* protocol_handshake, which opens the handle and may then still fail.     *)
(* It takes the client's cooperation, or its departure.                    *)
Handshake(c) ==
    /\ at[c] = "callback" /\ job[c] = "handshake"
    /\ \/ /\ client[c] = "here" /\ handle' = [handle EXCEPT ![c] = "open"]
          /\ Goto(c, "serve")
       \/ /\ \E h \in {"none", "open"} : handle' = [handle EXCEPT ![c] = h]
          /\ Goto(c, "free")
    /\ unlock_request(c)
    /\ UNCHANGED <<process, count, job, over, client, connection_lock, writer>>

(* With the parallel model a pool of workers is started, one by one; the   *)
(* calloc of the pool, or the creation of a worker, may fail.              *)
Serve(c) ==
    /\ at[c] = "serve"
    /\ IF thread_model = PARALLEL /\ Pool(c) # {}
       THEN \E there \in {"create", "free"} : Goto(c, there)
       ELSE Goto(c, "loop")
    /\ UNCHANGED <<process, count, job, conns, locks>>

CreateWorker(c) ==
    /\ at[c] = "create"
    /\ \E t \in Pool(c) : at[t] = "none" /\ Goto(t, "loop")
    /\ UNCHANGED <<process, count, job, conns, locks>>

(* All are created, or one of them cannot be. *)
PoolStarted(c) ==
    /\ at[c] = "create" /\ Goto(c, "join")
    /\ over' = [over EXCEPT ![c] = @ \/ \E t \in Pool(c) : at[t] = "none"]
    /\ UNCHANGED <<process, count, job, handle, client, locks>>

(* Mutant: the connection thread does not wait for its pool. *)
JoinAtOnce(c) ==
    /\ at[c] = "join"
    /\ EnterLocks(c, "finalize")
    /\ UNCHANGED <<process, count, conns, locks>>

Join(c) ==
    /\ at[c] = "join" /\ \A t \in Pool(c) : at[t] \in {"none", "exit"}
    /\ EnterLocks(c, "finalize")
    /\ UNCHANGED <<process, count, conns, locks>>

Finalize(c) ==
    /\ at[c] = "callback" /\ job[c] = "finalize"
    /\ Goto(c, "free")
    /\ unlock_request(c)
    /\ UNCHANGED <<process, count, job, conns, connection_lock, writer>>

(* Mutant: free_connection does not call backend_close. *)
FreeLeaks(c) ==
    /\ at[c] = "free"
    /\ Goto(c, "unlock")
    /\ UNCHANGED <<process, count, job, conns, locks>>

(* free_connection does not call the plugin when quit is set. *)
Free(c) ==
    /\ at[c] = "free"
    /\ IF quit THEN Goto(c, "unlock") /\ UNCHANGED job ELSE EnterLocks(c, "close")
    /\ UNCHANGED <<process, count, conns, locks>>

Close(c) ==
    /\ at[c] = "callback" /\ job[c] = "close"
    /\ handle' = [handle EXCEPT ![c] = IF @ = "open" THEN "closed" ELSE @]
    /\ Goto(c, "unlock")
    /\ unlock_request(c)
    /\ UNCHANGED <<process, count, job, over, client, connection_lock, writer>>

unlock_connection(c) ==
    /\ at[c] = "unlock"
    /\ connection_lock' = IF thread_model <= SERIALIZE_CONNECTIONS
                          THEN NoThread ELSE connection_lock
    /\ Goto(c, "leaving")
    /\ UNCHANGED <<process, count, job, conns, all_requests_lock, request_lock, readers, writer>>

CountDown(c) ==
    /\ at[c] = "leaving" /\ count' = count - 1
    /\ Goto(c, "exit")
    /\ UNCHANGED <<process, job, conns, locks>>

-----------------------------------------------------------------------------
(* The request loop, of the leader or of a worker *)

Loop(t) ==
    /\ at[t] = "loop"
    /\ IF ~quit /\ ~over[Owner[t]] THEN Goto(t, "recv") /\ UNCHANGED job ELSE
       IF t = Owner[t] THEN EnterLocks(t, "finalize")
                       ELSE Goto(t, "exit") /\ UNCHANGED job
    /\ UNCHANGED <<process, count, conns, locks>>

(* A request is performed only if quit is not set. *)
RecvRequest(t) ==
    /\ at[t] = "recv" /\ client[Owner[t]] = "here"
    /\ IF quit THEN Goto(t, "loop") /\ UNCHANGED job ELSE EnterLocks(t, "request")
    /\ UNCHANGED <<process, count, conns, locks>>

RecvEnd(t) ==
    /\ at[t] = "recv" /\ client[Owner[t]] = "gone"
    /\ over' = [over EXCEPT ![Owner[t]] = TRUE]
    /\ Goto(t, "loop")
    /\ UNCHANGED <<process, count, job, handle, client, locks>>

(* A request that asks for a disconnection, or whose reply cannot be sent, *)
(* ends the connection.                                                    *)
Request(t) ==
    /\ at[t] = "callback" /\ job[t] = "request"
    /\ Goto(t, "loop")
    /\ \E ends \in BOOLEAN : over' = [over EXCEPT ![Owner[t]] = @ \/ ends]
    /\ unlock_request(t)
    /\ UNCHANGED <<process, count, job, handle, client, connection_lock, writer>>

ClientLeaves(c) ==
    /\ client[c] = "here" /\ client' = [client EXCEPT ![c] = "gone"]
    /\ UNCHANGED <<process, count, at, job, handle, over, locks>>

-----------------------------------------------------------------------------
LockStep(t) == LockAll(t) \/ LockConn(t) \/ LockUnload(t)

LeaderStep(c) ==
    \/ CountUp(c) \/ lock_connection(c) \/ CheckTop(c) \/ Preconnect(c)
    \/ Serve(c) \/ CreateWorker(c) \/ PoolStarted(c) \/ Join(c) \/ Finalize(c) \/ Free(c) \/ Close(c)
    \/ unlock_connection(c) \/ CountDown(c)

(* The steps a thread takes without the client. *)
ThreadStep(t) ==
    /\ main # "done"
    /\ \/ LockStep(t) \/ Loop(t) \/ RecvEnd(t) \/ Request(t)
       \/ t \in Conns /\ (LeaderStep(t) \/ (client[t] = "gone" /\ Handshake(t)))

MainStep ==
    \/ PollReady \/ AcceptFails \/ (\E c \in Conns : accept_connection(c))
    \/ StopAccepting \/ WaitForThreads \/ Cleanup
    \/ lock_unload \/ unlock_unload \/ ClearTop \/ Exit

ClientStep ==
    /\ main # "done"
    /\ \/ \E c \in Conns : Handshake(c) \/ ClientLeaves(c)
       \/ \E t \in Threads : RecvRequest(t)

Next == set_quit \/ MainStep \/ ClientStep \/ (\E t \in Threads : ThreadStep(t))

(* Main and every thread run when they can, and a mutex that is free again *)
(* and again is obtained in the end.  A client may stall.                  *)
Fairness ==
    /\ WF_vars(MainStep)
    /\ \A t \in Threads : WF_vars(ThreadStep(t)) /\ SF_vars(main # "done" /\ LockStep(t))
    /\ \A c \in Conns : SF_vars(main # "done" /\ lock_connection(c))

Spec == Init /\ [][Next]_vars
FairSpec == Spec /\ Fairness

-----------------------------------------------------------------------------
(* Properties *)

(* Type correctness of the server's state, its locks and its threads. *)
TypeOK ==
    /\ thread_model \in SERIALIZE_CONNECTIONS..PARALLEL
    /\ quit \in BOOLEAN /\ top \in BOOLEAN /\ writer \in BOOLEAN
    /\ main \in {"poll", "accept", "wait", "cleanup", "unload", "unloading", "freed", "done"}
    /\ unloaded \in 0..Backends /\ count \in 0..Cardinality(Conns)
    /\ at \in [Threads -> Locations] /\ job \in [Threads -> Jobs]
    /\ handle \in [Conns -> {"none", "open", "closed"}]
    /\ over \in [Conns -> BOOLEAN] /\ client \in [Conns -> {"here", "gone"}]
    /\ connection_lock \in Threads \cup {NoThread}
    /\ all_requests_lock \in Threads \cup {NoThread}
    /\ request_lock \in [Conns -> Threads \cup {NoThread}]
    /\ readers \in SUBSET Threads

(* The thread models: the plugin has one handle at a time in use, or one   *)
(* callback at a time, or one callback at a time for each handle, however  *)
(* many connections there are.                                             *)
InUse(c) == handle[c] = "open" /\ at[c] \notin {"leaving", "exit"}
InCallback(t) == at[t] = "callback"
ThreadModelRespected ==
    /\ thread_model <= SERIALIZE_CONNECTIONS =>
          \A c, d \in Conns : InUse(c) /\ InUse(d) => c = d
    /\ thread_model <= SERIALIZE_ALL_REQUESTS =>
          \A t, u \in Threads : InCallback(t) /\ InCallback(u) => t = u
    /\ thread_model <= SERIALIZE_REQUESTS =>
          \A t, u \in Threads :
              InCallback(t) /\ InCallback(u) /\ Owner[t] = Owner[u] => t = u

(* While .unload runs no thread is in a callback that is protected by the  *)
(* request locks, even one that main did not wait for.                     *)
UnloadExcludesCallbacks ==
    main = "unloading" => \A t \in Threads : ~InCallback(t)

(* The handle of a connection is closed only when none of the threads of   *)
(* its pool can use it any more.                                           *)
CloseAfterPool ==
    \A c \in Conns : handle[c] = "closed" =>
        \A t \in Pool(c) : at[t] \in {"none", "exit"}

(* While the server runs, a connection thread that ends has closed the     *)
(* handle it opened, whichever of the ways out it took.                    *)
HandlesClosed ==
    [][\A c \in Conns : at[c] # "exit" /\ at'[c] = "exit" /\ ~quit => handle[c] # "open"]_vars

(* After quit, and once the clients have left, the server unloads its      *)
(* backends and ends: no thread waits for ever for a lock, and main is not *)
(* left waiting for a connection thread.                                   *)
ServerEnds == quit /\ (\A c \in Conns : client[c] = "gone") ~> main = "done"

(* main leaves its wait only when every connection thread that was counted *)
(* has ended: the count never loses a thread, whichever way it ends.       *)
CountedThreadsAwaited ==
    [][main = "wait" /\ main' = "cleanup" =>
          \A c \in Conns : at[c] \in {"none", "created", "exit"}]_vars

(* "unload-time actions happen with no connections open" (the comment on   *)
(* count in server/sockets.c).                                             *)
UnloadWithNoConnections ==
    main \in {"cleanup", "unload", "unloading"} => \A c \in Conns : ~InUse(c)

(* "The server will wait for any currently running plugin callbacks to     *)
(* finish, call C<.close> on those connections, then call the C<.cleanup>  *)
(* and C<.unload> callbacks" (docs/nbdkit-plugin.pod): when main has waited *)
(* for every connection, and goes on to .cleanup, no handle is left open.  *)
ClosedBeforeCleanup ==
    main = "wait" /\ (\A c \in Conns : at[c] \in {"none", "exit"}) =>
        \A c \in Conns : handle[c] # "open"
=============================================================================
