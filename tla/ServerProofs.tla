----------------------------- MODULE ServerProofs -----------------------------
(***************************************************************************)
(* Proofs about Server, for any finite set of threads, any grouping of     *)
(* them into connections and any chain of backends.                        *)
(*                                                                         *)
(* The thread models hold because a thread in a callback holds exactly the *)
(* locks its model asks for; HoldInv says which lock is held where.        *)
(* CountInv says that count is the number of the threads that have counted *)
(* themselves and not yet left, HandleInv when a handle is open.           *)
(***************************************************************************)
EXTENDS Server, FiniteSetTheorems, TLAPS

(* The part of TypeOK that does not need the count. *)
Typed ==
    /\ thread_model \in SERIALIZE_CONNECTIONS..PARALLEL
    /\ quit \in BOOLEAN /\ top \in BOOLEAN /\ writer \in BOOLEAN
    /\ main \in {"poll", "accept", "wait", "cleanup", "unload", "unloading", "freed", "done"}
    /\ unloaded \in 0..Backends
    /\ main \in {"poll", "accept", "wait", "cleanup", "unload", "unloading"} => unloaded < Backends
    /\ at \in [Threads -> Locations] /\ job \in [Threads -> Jobs]
    /\ handle \in [Conns -> {"none", "open", "closed"}]
    /\ over \in [Conns -> BOOLEAN] /\ client \in [Conns -> {"here", "gone"}]
    /\ connection_lock \in Threads \cup {NoThread}
    /\ all_requests_lock \in Threads \cup {NoThread}
    /\ request_lock \in [Conns -> Threads \cup {NoThread}]
    /\ readers \in SUBSET Threads

Outside == {"none", "created", "lock_connection", "leaving", "exit"}
Unopened == {"none", "created", "lock_connection"}

(* Which lock a thread holds at each place. *)
HoldInv ==
    /\ thread_model <= SERIALIZE_CONNECTIONS =>
          \A c \in Conns : at[c] \notin Outside => connection_lock = c
    /\ thread_model <= SERIALIZE_ALL_REQUESTS =>
          \A t \in Threads : at[t] \in {"lock_conn", "lock_unload", "callback"} =>
              all_requests_lock = t
    /\ thread_model <= SERIALIZE_REQUESTS =>
          \A t \in Threads : at[t] \in {"lock_unload", "callback"} =>
              request_lock[Owner[t]] = t
    /\ \A t \in Threads : t \in readers <=> at[t] = "callback"
    /\ \A c \in Conns : at[c] \in Unopened => handle[c] = "none"
    /\ \A c \in Conns : handle[c] = "closed" => at[c] \in {"unlock", "leaving", "exit"}
    /\ main = "unloading" => writer /\ readers = {}
    /\ writer => main = "unloading"

(* A worker is only where a worker can be, and runs only between the time  *)
(* its leader starts it and the time its leader has joined it.             *)
Early(c) ==
    \/ at[c] \in {"none", "created", "lock_connection", "check", "preconnect", "serve"}
    \/ /\ at[c] \in {"lock_all", "lock_conn", "lock_unload", "callback"}
       /\ job[c] = "handshake"
RoleInv ==
    \A t \in Threads : t \notin Conns =>
        /\ at[t] \in {"none", "lock_all", "lock_conn", "lock_unload", "callback",
                      "loop", "recv", "exit"}
        /\ at[t] \in {"lock_all", "lock_conn", "lock_unload", "callback"} => job[t] = "request"
        /\ Early(Owner[t]) => at[t] = "none"
        /\ at[Owner[t]] \notin {"create", "join"} => at[t] \in {"none", "exit"}

Counted == {c \in Conns : at[c] \notin {"none", "created", "exit"}}
CountInv == count = Cardinality(Counted)

IndInv == Typed /\ HoldInv /\ RoleInv

LEMMA OwnerFacts ==
    /\ Conns \subseteq Threads
    /\ \A t \in Threads : Owner[t] \in Conns
    /\ \A c \in Conns : c \in Threads /\ Owner[c] = c
BY OwnerAssumption DEF Conns

LEMMA InitInd == Init => IndInv
<1> SUFFICES ASSUME Init PROVE IndInv
    OBVIOUS
<1>1. Typed
  <2>1. thread_model \in SERIALIZE_CONNECTIONS..PARALLEL
    BY ModelsAssumption DEF Init
  <2>2. 0 \in 0..Backends /\ 0 < Backends
    BY BackendsAssumption
  <2> QED BY <2>1, <2>2 DEF Init, Typed, Locations, Jobs
<1>2. HoldInv
    BY OwnerFacts DEF Init, HoldInv, Outside, Unopened
<1>3. RoleInv
    BY DEF Init, RoleInv, Early
<1> QED BY <1>1, <1>2, <1>3 DEF IndInv

LEMMA set_quit_Ind ==
    ASSUME IndInv, set_quit PROVE IndInv'
<1> USE OwnerFacts
<1>1. Typed'
    BY BackendsAssumption DEF IndInv, Typed, Locations, Jobs, set_quit, Goto, process,
       locks, conns
<1>2. HoldInv'
    BY NoThreadAssumption DEF IndInv, Typed, HoldInv, RoleInv, Early, Outside, Unopened,
       SERIALIZE_CONNECTIONS, SERIALIZE_ALL_REQUESTS, SERIALIZE_REQUESTS, set_quit,
       Goto, process, locks, conns
<1>3. RoleInv'
    BY DEF IndInv, Typed, RoleInv, Early, set_quit, Goto, process, locks, conns
<1> QED BY <1>1, <1>2, <1>3 DEF IndInv

LEMMA PollReadyInd ==
    ASSUME IndInv, PollReady PROVE IndInv'
<1> USE OwnerFacts
<1>1. Typed'
    BY BackendsAssumption DEF IndInv, Typed, Locations, Jobs, PollReady, Goto, process,
       locks, conns
<1>2. HoldInv'
    BY NoThreadAssumption DEF IndInv, Typed, HoldInv, RoleInv, Early, Outside, Unopened,
       SERIALIZE_CONNECTIONS, SERIALIZE_ALL_REQUESTS, SERIALIZE_REQUESTS, PollReady,
       Goto, process, locks, conns
<1>3. RoleInv'
    BY DEF IndInv, Typed, RoleInv, Early, PollReady, Goto, process, locks, conns
<1> QED BY <1>1, <1>2, <1>3 DEF IndInv

LEMMA AcceptFailsInd ==
    ASSUME IndInv, AcceptFails PROVE IndInv'
<1> USE OwnerFacts
<1>1. Typed'
    BY BackendsAssumption DEF IndInv, Typed, Locations, Jobs, AcceptFails, Goto,
       process, locks, conns
<1>2. HoldInv'
    BY NoThreadAssumption DEF IndInv, Typed, HoldInv, RoleInv, Early, Outside, Unopened,
       SERIALIZE_CONNECTIONS, SERIALIZE_ALL_REQUESTS, SERIALIZE_REQUESTS, AcceptFails,
       Goto, process, locks, conns
<1>3. RoleInv'
    BY DEF IndInv, Typed, RoleInv, Early, AcceptFails, Goto, process, locks, conns
<1> QED BY <1>1, <1>2, <1>3 DEF IndInv

LEMMA StopAcceptingInd ==
    ASSUME IndInv, StopAccepting PROVE IndInv'
<1> USE OwnerFacts
<1>1. Typed'
    BY BackendsAssumption DEF IndInv, Typed, Locations, Jobs, StopAccepting, Goto,
       process, locks, conns
<1>2. HoldInv'
    BY NoThreadAssumption DEF IndInv, Typed, HoldInv, RoleInv, Early, Outside, Unopened,
       SERIALIZE_CONNECTIONS, SERIALIZE_ALL_REQUESTS, SERIALIZE_REQUESTS, StopAccepting,
       Goto, process, locks, conns
<1>3. RoleInv'
    BY DEF IndInv, Typed, RoleInv, Early, StopAccepting, Goto, process, locks, conns
<1> QED BY <1>1, <1>2, <1>3 DEF IndInv

LEMMA WaitForThreadsInd ==
    ASSUME IndInv, WaitForThreads PROVE IndInv'
<1> USE OwnerFacts
<1>1. Typed'
    BY BackendsAssumption DEF IndInv, Typed, Locations, Jobs, WaitForThreads, Goto,
       process, locks, conns
<1>2. HoldInv'
    BY NoThreadAssumption DEF IndInv, Typed, HoldInv, RoleInv, Early, Outside, Unopened,
       SERIALIZE_CONNECTIONS, SERIALIZE_ALL_REQUESTS, SERIALIZE_REQUESTS,
       WaitForThreads, Goto, process, locks, conns
<1>3. RoleInv'
    BY DEF IndInv, Typed, RoleInv, Early, WaitForThreads, Goto, process, locks, conns
<1> QED BY <1>1, <1>2, <1>3 DEF IndInv

LEMMA CleanupInd ==
    ASSUME IndInv, Cleanup PROVE IndInv'
<1> USE OwnerFacts
<1>1. Typed'
    BY BackendsAssumption DEF IndInv, Typed, Locations, Jobs, Cleanup, Goto, process,
       locks, conns
<1>2. HoldInv'
    BY NoThreadAssumption DEF IndInv, Typed, HoldInv, RoleInv, Early, Outside, Unopened,
       SERIALIZE_CONNECTIONS, SERIALIZE_ALL_REQUESTS, SERIALIZE_REQUESTS, Cleanup, Goto,
       process, locks, conns
<1>3. RoleInv'
    BY DEF IndInv, Typed, RoleInv, Early, Cleanup, Goto, process, locks, conns
<1> QED BY <1>1, <1>2, <1>3 DEF IndInv

LEMMA lock_unload_Ind ==
    ASSUME IndInv, lock_unload PROVE IndInv'
<1> USE OwnerFacts
<1>1. Typed'
    BY BackendsAssumption DEF IndInv, Typed, Locations, Jobs, lock_unload, Goto,
       process, locks, conns
<1>2. HoldInv'
    BY NoThreadAssumption DEF IndInv, Typed, HoldInv, RoleInv, Early, Outside, Unopened,
       SERIALIZE_CONNECTIONS, SERIALIZE_ALL_REQUESTS, SERIALIZE_REQUESTS, lock_unload,
       Goto, process, locks, conns
<1>3. RoleInv'
    BY DEF IndInv, Typed, RoleInv, Early, lock_unload, Goto, process, locks, conns
<1> QED BY <1>1, <1>2, <1>3 DEF IndInv

LEMMA unlock_unload_Ind ==
    ASSUME IndInv, unlock_unload PROVE IndInv'
<1> USE OwnerFacts
<1>1. Typed'
  <2>1. unloaded + 1 \in 0..Backends /\ (unloaded + 1 # Backends => unloaded + 1 < Backends)
    BY BackendsAssumption DEF IndInv, Typed, unlock_unload
  <2>2. unloaded' \in 0..Backends
    BY <2>1 DEF unlock_unload
  <2>3. main' \in {"freed", "unload"} /\ (main' = "unload" => unloaded' < Backends)
    BY <2>1 DEF unlock_unload
  <2> QED BY <2>2, <2>3 DEF IndInv, Typed, unlock_unload, Goto, process, locks, conns
<1>2. HoldInv'
    BY NoThreadAssumption DEF IndInv, Typed, HoldInv, RoleInv, Early, Outside, Unopened,
       SERIALIZE_CONNECTIONS, SERIALIZE_ALL_REQUESTS, SERIALIZE_REQUESTS, unlock_unload,
       Goto, process, locks, conns
<1>3. RoleInv'
    BY DEF IndInv, Typed, RoleInv, Early, unlock_unload, Goto, process, locks, conns
<1> QED BY <1>1, <1>2, <1>3 DEF IndInv

LEMMA ClearTopInd ==
    ASSUME IndInv, ClearTop PROVE IndInv'
<1> USE OwnerFacts
<1>1. Typed'
    BY BackendsAssumption DEF IndInv, Typed, Locations, Jobs, ClearTop, Goto, process,
       locks, conns
<1>2. HoldInv'
    BY NoThreadAssumption DEF IndInv, Typed, HoldInv, RoleInv, Early, Outside, Unopened,
       SERIALIZE_CONNECTIONS, SERIALIZE_ALL_REQUESTS, SERIALIZE_REQUESTS, ClearTop,
       Goto, process, locks, conns
<1>3. RoleInv'
    BY DEF IndInv, Typed, RoleInv, Early, ClearTop, Goto, process, locks, conns
<1> QED BY <1>1, <1>2, <1>3 DEF IndInv

LEMMA ExitInd ==
    ASSUME IndInv, Exit PROVE IndInv'
<1> USE OwnerFacts
<1>1. Typed'
    BY BackendsAssumption DEF IndInv, Typed, Locations, Jobs, Exit, Goto, process,
       locks, conns
<1>2. HoldInv'
    BY NoThreadAssumption DEF IndInv, Typed, HoldInv, RoleInv, Early, Outside, Unopened,
       SERIALIZE_CONNECTIONS, SERIALIZE_ALL_REQUESTS, SERIALIZE_REQUESTS, Exit, Goto,
       process, locks, conns
<1>3. RoleInv'
    BY DEF IndInv, Typed, RoleInv, Early, Exit, Goto, process, locks, conns
<1> QED BY <1>1, <1>2, <1>3 DEF IndInv

LEMMA LockAllInd ==
    ASSUME NEW t \in Threads, IndInv, LockAll(t) PROVE IndInv'
<1> USE OwnerFacts
<1>1. Typed'
    BY BackendsAssumption DEF IndInv, Typed, Locations, Jobs, LockAll, Goto, process,
       locks, conns
<1>2. HoldInv'
    BY NoThreadAssumption DEF IndInv, Typed, HoldInv, RoleInv, Early, Outside, Unopened,
       SERIALIZE_CONNECTIONS, SERIALIZE_ALL_REQUESTS, SERIALIZE_REQUESTS, LockAll, Goto,
       process, locks, conns
<1>3. RoleInv'
    BY DEF IndInv, Typed, RoleInv, Early, LockAll, Goto, process, locks, conns
<1> QED BY <1>1, <1>2, <1>3 DEF IndInv

LEMMA LockConnInd ==
    ASSUME NEW t \in Threads, IndInv, LockConn(t) PROVE IndInv'
<1> USE OwnerFacts
<1>1. Typed'
    BY BackendsAssumption DEF IndInv, Typed, Locations, Jobs, LockConn, Goto, process,
       locks, conns
<1>2. HoldInv'
    BY NoThreadAssumption DEF IndInv, Typed, HoldInv, RoleInv, Early, Outside, Unopened,
       SERIALIZE_CONNECTIONS, SERIALIZE_ALL_REQUESTS, SERIALIZE_REQUESTS, LockConn,
       Goto, process, locks, conns
<1>3. RoleInv'
    BY DEF IndInv, Typed, RoleInv, Early, LockConn, Goto, process, locks, conns
<1> QED BY <1>1, <1>2, <1>3 DEF IndInv

LEMMA LockUnloadInd ==
    ASSUME NEW t \in Threads, IndInv, LockUnload(t) PROVE IndInv'
<1> USE OwnerFacts
<1>1. Typed'
    BY BackendsAssumption DEF IndInv, Typed, Locations, Jobs, LockUnload, Goto, process,
       locks, conns
<1>2. HoldInv'
    BY NoThreadAssumption DEF IndInv, Typed, HoldInv, RoleInv, Early, Outside, Unopened,
       SERIALIZE_CONNECTIONS, SERIALIZE_ALL_REQUESTS, SERIALIZE_REQUESTS, LockUnload,
       Goto, process, locks, conns
<1>3. RoleInv'
    BY DEF IndInv, Typed, RoleInv, Early, LockUnload, Goto, process, locks, conns
<1> QED BY <1>1, <1>2, <1>3 DEF IndInv

LEMMA LoopInd ==
    ASSUME NEW t \in Threads, IndInv, Loop(t) PROVE IndInv'
<1> USE OwnerFacts
<1>1. Typed'
    BY BackendsAssumption DEF IndInv, Typed, Locations, Jobs, Loop, Goto, EnterLocks,
       process, locks, conns
<1>2. HoldInv'
    BY NoThreadAssumption DEF IndInv, Typed, HoldInv, RoleInv, Early, Outside, Unopened,
       SERIALIZE_CONNECTIONS, SERIALIZE_ALL_REQUESTS, SERIALIZE_REQUESTS, Loop, Goto,
       EnterLocks, process, locks, conns
<1>3. RoleInv'
    BY DEF IndInv, Typed, RoleInv, Early, Loop, Goto, EnterLocks, process, locks, conns
<1> QED BY <1>1, <1>2, <1>3 DEF IndInv

LEMMA RecvRequestInd ==
    ASSUME NEW t \in Threads, IndInv, RecvRequest(t) PROVE IndInv'
<1> USE OwnerFacts
<1>1. Typed'
    BY BackendsAssumption DEF IndInv, Typed, Locations, Jobs, RecvRequest, Goto,
       EnterLocks, process, locks, conns
<1>2. HoldInv'
    BY NoThreadAssumption DEF IndInv, Typed, HoldInv, RoleInv, Early, Outside, Unopened,
       SERIALIZE_CONNECTIONS, SERIALIZE_ALL_REQUESTS, SERIALIZE_REQUESTS, RecvRequest,
       Goto, EnterLocks, process, locks, conns
<1>3. RoleInv'
    BY DEF IndInv, Typed, RoleInv, Early, RecvRequest, Goto, EnterLocks, process, locks,
       conns
<1> QED BY <1>1, <1>2, <1>3 DEF IndInv

LEMMA RecvEndInd ==
    ASSUME NEW t \in Threads, IndInv, RecvEnd(t) PROVE IndInv'
<1> USE OwnerFacts
<1>1. Typed'
    BY BackendsAssumption DEF IndInv, Typed, Locations, Jobs, RecvEnd, Goto, process,
       locks, conns
<1>2. HoldInv'
    BY NoThreadAssumption DEF IndInv, Typed, HoldInv, RoleInv, Early, Outside, Unopened,
       SERIALIZE_CONNECTIONS, SERIALIZE_ALL_REQUESTS, SERIALIZE_REQUESTS, RecvEnd, Goto,
       process, locks, conns
<1>3. RoleInv'
    BY DEF IndInv, Typed, RoleInv, Early, RecvEnd, Goto, process, locks, conns
<1> QED BY <1>1, <1>2, <1>3 DEF IndInv

LEMMA RequestInd ==
    ASSUME NEW t \in Threads, IndInv, Request(t) PROVE IndInv'
<1> USE OwnerFacts
<1>1. Typed'
    BY BackendsAssumption DEF IndInv, Typed, Locations, Jobs, Request, Goto,
       unlock_request, process, locks, conns
<1>2. HoldInv'
    BY NoThreadAssumption DEF IndInv, Typed, HoldInv, RoleInv, Early, Outside, Unopened,
       SERIALIZE_CONNECTIONS, SERIALIZE_ALL_REQUESTS, SERIALIZE_REQUESTS, Request, Goto,
       unlock_request, process, locks, conns
<1>3. RoleInv'
    BY DEF IndInv, Typed, RoleInv, Early, Request, Goto, unlock_request, process, locks,
       conns
<1> QED BY <1>1, <1>2, <1>3 DEF IndInv

LEMMA accept_connection_Ind ==
    ASSUME NEW c \in Conns, IndInv, accept_connection(c) PROVE IndInv'
<1> USE OwnerFacts
<1>1. Typed'
    BY BackendsAssumption DEF IndInv, Typed, Locations, Jobs, accept_connection, Goto,
       process, locks, conns
<1>2. HoldInv'
    BY NoThreadAssumption DEF IndInv, Typed, HoldInv, RoleInv, Early, Outside, Unopened,
       SERIALIZE_CONNECTIONS, SERIALIZE_ALL_REQUESTS, SERIALIZE_REQUESTS,
       accept_connection, Goto, process, locks, conns
<1>3. RoleInv'
    BY DEF IndInv, Typed, RoleInv, Early, accept_connection, Goto, process, locks, conns
<1> QED BY <1>1, <1>2, <1>3 DEF IndInv

LEMMA CountUpInd ==
    ASSUME NEW c \in Conns, IndInv, CountUp(c) PROVE IndInv'
<1> USE OwnerFacts
<1>1. Typed'
    BY BackendsAssumption DEF IndInv, Typed, Locations, Jobs, CountUp, Goto, process,
       locks, conns
<1>2. HoldInv'
    BY NoThreadAssumption DEF IndInv, Typed, HoldInv, RoleInv, Early, Outside, Unopened,
       SERIALIZE_CONNECTIONS, SERIALIZE_ALL_REQUESTS, SERIALIZE_REQUESTS, CountUp, Goto,
       process, locks, conns
<1>3. RoleInv'
    BY DEF IndInv, Typed, RoleInv, Early, CountUp, Goto, process, locks, conns
<1> QED BY <1>1, <1>2, <1>3 DEF IndInv

LEMMA lock_connection_Ind ==
    ASSUME NEW c \in Conns, IndInv, lock_connection(c) PROVE IndInv'
<1> USE OwnerFacts
<1>1. Typed'
    BY BackendsAssumption DEF IndInv, Typed, Locations, Jobs, lock_connection, Goto,
       process, locks, conns
<1>2. HoldInv'
    BY NoThreadAssumption DEF IndInv, Typed, HoldInv, RoleInv, Early, Outside, Unopened,
       SERIALIZE_CONNECTIONS, SERIALIZE_ALL_REQUESTS, SERIALIZE_REQUESTS,
       lock_connection, Goto, process, locks, conns
<1>3. RoleInv'
    BY DEF IndInv, Typed, RoleInv, Early, lock_connection, Goto, process, locks, conns
<1> QED BY <1>1, <1>2, <1>3 DEF IndInv

LEMMA CheckTopInd ==
    ASSUME NEW c \in Conns, IndInv, CheckTop(c) PROVE IndInv'
<1> USE OwnerFacts
<1>1. Typed'
    BY BackendsAssumption DEF IndInv, Typed, Locations, Jobs, CheckTop, Goto, process,
       locks, conns
<1>2. HoldInv'
    BY NoThreadAssumption DEF IndInv, Typed, HoldInv, RoleInv, Early, Outside, Unopened,
       SERIALIZE_CONNECTIONS, SERIALIZE_ALL_REQUESTS, SERIALIZE_REQUESTS, CheckTop,
       Goto, process, locks, conns
<1>3. RoleInv'
    BY DEF IndInv, Typed, RoleInv, Early, CheckTop, Goto, process, locks, conns
<1> QED BY <1>1, <1>2, <1>3 DEF IndInv

LEMMA PreconnectInd ==
    ASSUME NEW c \in Conns, IndInv, Preconnect(c) PROVE IndInv'
<1> USE OwnerFacts
<1>1. Typed'
    BY BackendsAssumption DEF IndInv, Typed, Locations, Jobs, Preconnect, Goto,
       EnterLocks, process, locks, conns
<1>2. HoldInv'
    BY NoThreadAssumption DEF IndInv, Typed, HoldInv, RoleInv, Early, Outside, Unopened,
       SERIALIZE_CONNECTIONS, SERIALIZE_ALL_REQUESTS, SERIALIZE_REQUESTS, Preconnect,
       Goto, EnterLocks, process, locks, conns
<1>3. RoleInv'
    BY DEF IndInv, Typed, RoleInv, Early, Preconnect, Goto, EnterLocks, process, locks,
       conns
<1> QED BY <1>1, <1>2, <1>3 DEF IndInv

LEMMA HandshakeInd ==
    ASSUME NEW c \in Conns, IndInv, Handshake(c) PROVE IndInv'
<1> USE OwnerFacts
<1>1. Typed'
    BY BackendsAssumption DEF IndInv, Typed, Locations, Jobs, Handshake, Goto,
       unlock_request, process, locks, conns
<1>2. HoldInv'
    BY NoThreadAssumption DEF IndInv, Typed, HoldInv, RoleInv, Early, Outside, Unopened,
       SERIALIZE_CONNECTIONS, SERIALIZE_ALL_REQUESTS, SERIALIZE_REQUESTS, Handshake,
       Goto, unlock_request, process, locks, conns
<1>3. RoleInv'
    BY DEF IndInv, Typed, RoleInv, Early, Handshake, Goto, unlock_request, process,
       locks, conns
<1> QED BY <1>1, <1>2, <1>3 DEF IndInv

LEMMA ServeInd ==
    ASSUME NEW c \in Conns, IndInv, Serve(c) PROVE IndInv'
<1> USE OwnerFacts
<1>1. Typed'
    BY BackendsAssumption DEF IndInv, Typed, Locations, Jobs, Serve, Goto, Pool,
       process, locks, conns
<1>2. HoldInv'
    BY NoThreadAssumption DEF IndInv, Typed, HoldInv, RoleInv, Early, Outside, Unopened,
       SERIALIZE_CONNECTIONS, SERIALIZE_ALL_REQUESTS, SERIALIZE_REQUESTS, Serve, Goto,
       Pool, process, locks, conns
<1>3. RoleInv'
    BY DEF IndInv, Typed, RoleInv, Early, Serve, Goto, Pool, process, locks, conns
<1> QED BY <1>1, <1>2, <1>3 DEF IndInv

LEMMA CreateWorkerInd ==
    ASSUME NEW c \in Conns, IndInv, CreateWorker(c) PROVE IndInv'
<1> USE OwnerFacts
<1>1. Typed'
    BY BackendsAssumption DEF IndInv, Typed, Locations, Jobs, CreateWorker, Goto, Pool,
       process, locks, conns
<1>2. HoldInv'
    BY NoThreadAssumption DEF IndInv, Typed, HoldInv, RoleInv, Early, Outside, Unopened,
       SERIALIZE_CONNECTIONS, SERIALIZE_ALL_REQUESTS, SERIALIZE_REQUESTS, CreateWorker,
       Goto, Pool, process, locks, conns
<1>3. RoleInv'
    BY DEF IndInv, Typed, RoleInv, Early, CreateWorker, Goto, Pool, process, locks, conns
<1> QED BY <1>1, <1>2, <1>3 DEF IndInv

LEMMA PoolStartedInd ==
    ASSUME NEW c \in Conns, IndInv, PoolStarted(c) PROVE IndInv'
<1> USE OwnerFacts
<1>1. Typed'
    BY BackendsAssumption DEF IndInv, Typed, Locations, Jobs, PoolStarted, Goto, Pool,
       process, locks, conns
<1>2. HoldInv'
    BY NoThreadAssumption DEF IndInv, Typed, HoldInv, RoleInv, Early, Outside, Unopened,
       SERIALIZE_CONNECTIONS, SERIALIZE_ALL_REQUESTS, SERIALIZE_REQUESTS, PoolStarted,
       Goto, Pool, process, locks, conns
<1>3. RoleInv'
    BY DEF IndInv, Typed, RoleInv, Early, PoolStarted, Goto, Pool, process, locks, conns
<1> QED BY <1>1, <1>2, <1>3 DEF IndInv

LEMMA JoinInd ==
    ASSUME NEW c \in Conns, IndInv, Join(c) PROVE IndInv'
<1> USE OwnerFacts
<1>1. Typed'
    BY BackendsAssumption DEF IndInv, Typed, Locations, Jobs, Join, Goto, EnterLocks,
       Pool, process, locks, conns
<1>2. HoldInv'
    BY NoThreadAssumption DEF IndInv, Typed, HoldInv, RoleInv, Early, Outside, Unopened,
       SERIALIZE_CONNECTIONS, SERIALIZE_ALL_REQUESTS, SERIALIZE_REQUESTS, Join, Goto,
       EnterLocks, Pool, process, locks, conns
<1>3. RoleInv'
    BY DEF IndInv, Typed, RoleInv, Early, Join, Goto, EnterLocks, Pool, process, locks,
       conns
<1> QED BY <1>1, <1>2, <1>3 DEF IndInv

LEMMA FinalizeInd ==
    ASSUME NEW c \in Conns, IndInv, Finalize(c) PROVE IndInv'
<1> USE OwnerFacts
<1>1. Typed'
    BY BackendsAssumption DEF IndInv, Typed, Locations, Jobs, Finalize, Goto,
       unlock_request, process, locks, conns
<1>2. HoldInv'
    BY NoThreadAssumption DEF IndInv, Typed, HoldInv, RoleInv, Early, Outside, Unopened,
       SERIALIZE_CONNECTIONS, SERIALIZE_ALL_REQUESTS, SERIALIZE_REQUESTS, Finalize,
       Goto, unlock_request, process, locks, conns
<1>3. RoleInv'
    BY DEF IndInv, Typed, RoleInv, Early, Finalize, Goto, unlock_request, process,
       locks, conns
<1> QED BY <1>1, <1>2, <1>3 DEF IndInv

LEMMA FreeInd ==
    ASSUME NEW c \in Conns, IndInv, Free(c) PROVE IndInv'
<1> USE OwnerFacts
<1>1. Typed'
    BY BackendsAssumption DEF IndInv, Typed, Locations, Jobs, Free, Goto, EnterLocks,
       process, locks, conns
<1>2. HoldInv'
    BY NoThreadAssumption DEF IndInv, Typed, HoldInv, RoleInv, Early, Outside, Unopened,
       SERIALIZE_CONNECTIONS, SERIALIZE_ALL_REQUESTS, SERIALIZE_REQUESTS, Free, Goto,
       EnterLocks, process, locks, conns
<1>3. RoleInv'
    BY DEF IndInv, Typed, RoleInv, Early, Free, Goto, EnterLocks, process, locks, conns
<1> QED BY <1>1, <1>2, <1>3 DEF IndInv

LEMMA CloseInd ==
    ASSUME NEW c \in Conns, IndInv, Close(c) PROVE IndInv'
<1> USE OwnerFacts
<1>1. Typed'
    BY BackendsAssumption DEF IndInv, Typed, Locations, Jobs, Close, Goto,
       unlock_request, process, locks, conns
<1>2. HoldInv'
    BY NoThreadAssumption DEF IndInv, Typed, HoldInv, RoleInv, Early, Outside, Unopened,
       SERIALIZE_CONNECTIONS, SERIALIZE_ALL_REQUESTS, SERIALIZE_REQUESTS, Close, Goto,
       unlock_request, process, locks, conns
<1>3. RoleInv'
    BY DEF IndInv, Typed, RoleInv, Early, Close, Goto, unlock_request, process, locks, conns
<1> QED BY <1>1, <1>2, <1>3 DEF IndInv

LEMMA unlock_connection_Ind ==
    ASSUME NEW c \in Conns, IndInv, unlock_connection(c) PROVE IndInv'
<1> USE OwnerFacts
<1>1. Typed'
    BY BackendsAssumption DEF IndInv, Typed, Locations, Jobs, unlock_connection, Goto,
       process, locks, conns
<1>2. HoldInv'
    BY NoThreadAssumption DEF IndInv, Typed, HoldInv, RoleInv, Early, Outside, Unopened,
       SERIALIZE_CONNECTIONS, SERIALIZE_ALL_REQUESTS, SERIALIZE_REQUESTS,
       unlock_connection, Goto, process, locks, conns
<1>3. RoleInv'
    BY DEF IndInv, Typed, RoleInv, Early, unlock_connection, Goto, process, locks, conns
<1> QED BY <1>1, <1>2, <1>3 DEF IndInv

LEMMA CountDownInd ==
    ASSUME NEW c \in Conns, IndInv, CountDown(c) PROVE IndInv'
<1> USE OwnerFacts
<1>1. Typed'
    BY BackendsAssumption DEF IndInv, Typed, Locations, Jobs, CountDown, Goto, process,
       locks, conns
<1>2. HoldInv'
    BY NoThreadAssumption DEF IndInv, Typed, HoldInv, RoleInv, Early, Outside, Unopened,
       SERIALIZE_CONNECTIONS, SERIALIZE_ALL_REQUESTS, SERIALIZE_REQUESTS, CountDown,
       Goto, process, locks, conns
<1>3. RoleInv'
    BY DEF IndInv, Typed, RoleInv, Early, CountDown, Goto, process, locks, conns
<1> QED BY <1>1, <1>2, <1>3 DEF IndInv

LEMMA ClientLeavesInd ==
    ASSUME NEW c \in Conns, IndInv, ClientLeaves(c) PROVE IndInv'
<1> USE OwnerFacts
<1>1. Typed'
    BY BackendsAssumption DEF IndInv, Typed, Locations, Jobs, ClientLeaves, Goto,
       process, locks, conns
<1>2. HoldInv'
    BY NoThreadAssumption DEF IndInv, Typed, HoldInv, RoleInv, Early, Outside, Unopened,
       SERIALIZE_CONNECTIONS, SERIALIZE_ALL_REQUESTS, SERIALIZE_REQUESTS, ClientLeaves,
       Goto, process, locks, conns
<1>3. RoleInv'
    BY DEF IndInv, Typed, RoleInv, Early, ClientLeaves, Goto, process, locks, conns
<1> QED BY <1>1, <1>2, <1>3 DEF IndInv

LEMMA NextInd == IndInv /\ [Next]_vars => IndInv'
<1> SUFFICES ASSUME IndInv, [Next]_vars PROVE IndInv'
    OBVIOUS
<1>1. CASE set_quit
    BY <1>1, set_quit_Ind
<1>2. CASE MainStep
    BY <1>2, PollReadyInd, AcceptFailsInd, accept_connection_Ind, StopAcceptingInd,
       WaitForThreadsInd, CleanupInd, lock_unload_Ind, unlock_unload_Ind, ClearTopInd, ExitInd
       DEF MainStep
<1>3. CASE ClientStep
    BY <1>3, HandshakeInd, ClientLeavesInd, RecvRequestInd DEF ClientStep
<1>4. ASSUME NEW t \in Threads, ThreadStep(t) PROVE IndInv'
  <2>1. CASE LockStep(t) \/ Loop(t) \/ RecvEnd(t) \/ Request(t)
    BY <2>1, LockAllInd, LockConnInd, LockUnloadInd, LoopInd, RecvEndInd, RequestInd
       DEF LockStep
  <2>2. CASE t \in Conns /\ (LeaderStep(t) \/ Handshake(t))
    BY <2>2, CountUpInd, lock_connection_Ind, CheckTopInd, PreconnectInd, HandshakeInd,
       ServeInd, CreateWorkerInd, PoolStartedInd, JoinInd, FinalizeInd, FreeInd,
       CloseInd, unlock_connection_Ind, CountDownInd
       DEF LeaderStep
  <2> QED BY <1>4, <2>1, <2>2 DEF ThreadStep
<1>5. CASE UNCHANGED vars
    BY <1>5 DEF vars, IndInv, Typed, HoldInv, RoleInv, Early
<1> QED BY <1>1, <1>2, <1>3, <1>4, <1>5 DEF Next

(* IndInv is inductive, so it holds in every reachable state. *)
THEOREM Inductive == Spec => []IndInv
BY InitInd, NextInd, PTL DEF Spec

(* The thread model the server has settled on is respected: one connection *)
(* in use, one callback, or one callback for each connection at a time.    *)
THEOREM ThreadModels == Spec => []ThreadModelRespected
<1>1. IndInv => ThreadModelRespected
  <2> SUFFICES ASSUME IndInv PROVE ThreadModelRespected
    OBVIOUS
  <2>1. ASSUME thread_model <= SERIALIZE_CONNECTIONS,
               NEW c \in Conns, NEW d \in Conns, InUse(c), InUse(d)
        PROVE  c = d
    BY <2>1 DEF IndInv, HoldInv, InUse, Outside, Unopened
  <2>2. ASSUME thread_model <= SERIALIZE_ALL_REQUESTS,
               NEW t \in Threads, NEW u \in Threads, InCallback(t), InCallback(u)
        PROVE  t = u
    BY <2>2 DEF IndInv, HoldInv, InCallback
  <2>3. ASSUME thread_model <= SERIALIZE_REQUESTS,
               NEW t \in Threads, NEW u \in Threads, InCallback(t), InCallback(u),
               Owner[t] = Owner[u]
        PROVE  t = u
    BY <2>3 DEF IndInv, HoldInv, InCallback
  <2> QED BY <2>1, <2>2, <2>3 DEF ThreadModelRespected
<1> QED BY <1>1, Inductive, PTL

(* No callback that takes the request locks runs during .unload. *)
THEOREM UnloadExclusion == Spec => []UnloadExcludesCallbacks
<1>1. IndInv => UnloadExcludesCallbacks
    BY DEF IndInv, HoldInv, UnloadExcludesCallbacks, InCallback
<1> QED BY <1>1, Inductive, PTL

(* .close runs only after the last worker of the connection has ended. *)
THEOREM CloseIsLast == Spec => []CloseAfterPool
<1>1. IndInv => CloseAfterPool
    BY OwnerFacts DEF IndInv, HoldInv, RoleInv, CloseAfterPool, Pool
<1> QED BY <1>1, Inductive, PTL

-----------------------------------------------------------------------------
(* The count of connection threads *)

LEMMA CountedFinite == IsFiniteSet(Conns) /\ IsFiniteSet(Counted)
BY ThreadsAssumption, OwnerFacts, FS_Subset DEF Counted

LEMMA CountedSame ==
    ASSUME CountInv, UNCHANGED count,
           \A c \in Conns : at'[c] \in {"none", "created", "exit"}
                                <=> at[c] \in {"none", "created", "exit"}
    PROVE  CountInv'
<1>1. Counted' = Counted
    BY DEF Counted
<1> QED BY <1>1 DEF CountInv

LEMMA CountNext == IndInv /\ CountInv /\ [Next]_vars => CountInv'
<1> SUFFICES ASSUME IndInv, CountInv, [Next]_vars PROVE CountInv'
    OBVIOUS
<1> USE OwnerFacts
<1> DEFINE Still == UNCHANGED count /\ \A c \in Conns :
                        at'[c] \in {"none", "created", "exit"}
                            <=> at[c] \in {"none", "created", "exit"}
<1>0. Still => CountInv'
    BY CountedSame
<1>1. CASE set_quit \/ UNCHANGED vars
  <2>1. Still
    BY <1>1 DEF set_quit, vars
  <2> QED BY <2>1, <1>0
<1>2. CASE MainStep
  <2>1. Still
    BY <1>2 DEF MainStep, PollReady, AcceptFails, accept_connection, StopAccepting,
       WaitForThreads,
       Cleanup, lock_unload, unlock_unload, ClearTop, Exit, Goto, IndInv, Typed
  <2> QED BY <2>1, <1>0
<1>3. CASE ClientStep
  <2>1. Still
    BY <1>3 DEF ClientStep, Handshake, ClientLeaves, RecvRequest, Goto, EnterLocks,
       IndInv, Typed
  <2> QED BY <2>1, <1>0
<1>4. ASSUME NEW t \in Threads, LockStep(t) \/ Loop(t) \/ RecvEnd(t) \/ Request(t)
      PROVE  CountInv'
  <2>1. Still
    BY <1>4 DEF LockStep, LockAll, LockConn, LockUnload, Loop, RecvEnd, Request, Goto,
       EnterLocks, IndInv, Typed
  <2> QED BY <2>1, <1>0
<1>5. ASSUME NEW t \in Conns, CountUp(t) PROVE CountInv'
  <2>1. t \notin Counted /\ Counted' = Counted \cup {t}
    BY <1>5 DEF CountUp, Goto, Counted, IndInv, Typed
  <2>2. Cardinality(Counted') = Cardinality(Counted) + 1
    BY <2>1, CountedFinite, FS_AddElement
  <2> QED BY <1>5, <2>2 DEF CountUp, CountInv
<1>6. ASSUME NEW t \in Conns, CountDown(t) PROVE CountInv'
  <2>1. t \in Counted /\ Counted' = Counted \ {t}
    BY <1>6 DEF CountDown, Goto, Counted, IndInv, Typed
  <2>2. Cardinality(Counted') = Cardinality(Counted) - 1
    BY <2>1, CountedFinite, FS_RemoveElement
  <2> QED BY <1>6, <2>2 DEF CountDown, CountInv
<1>7. ASSUME NEW t \in Conns,
             \/ lock_connection(t) \/ CheckTop(t) \/ Preconnect(t) \/ Serve(t) \/ Join(t)
             \/ CreateWorker(t) \/ PoolStarted(t)
             \/ Finalize(t) \/ Free(t) \/ Close(t) \/ unlock_connection(t) \/ Handshake(t)
      PROVE  CountInv'
  <2>1. CASE CreateWorker(t)
    <3>1. \A u \in Pool(t) : u \in Threads /\ u \notin Conns
        BY DEF Pool
    <3>2. Still
        BY <2>1, <3>1 DEF CreateWorker, Goto, IndInv, Typed
    <3> QED BY <3>2, <1>0
  <2>2. CASE lock_connection(t) \/ CheckTop(t) \/ Preconnect(t) \/ Join(t) \/ Free(t)
           \/ Serve(t) \/ PoolStarted(t)
    <3>1. Still
        BY <2>2 DEF lock_connection, CheckTop, Preconnect, Join, Free, Serve,
           PoolStarted, Goto, EnterLocks, IndInv, Typed
    <3> QED BY <3>1, <1>0
  <2>3. CASE Finalize(t) \/ Close(t) \/ unlock_connection(t) \/ Handshake(t)
    <3>1. Still
        BY <2>3 DEF Finalize, Close, unlock_connection, Handshake, Goto, IndInv, Typed
    <3> QED BY <3>1, <1>0
  <2> QED BY <1>7, <2>1, <2>2, <2>3
<1> QED BY <1>1, <1>2, <1>3, <1>4, <1>5, <1>6, <1>7 DEF Next, ThreadStep, LeaderStep

LEMMA CountHolds == Spec => []CountInv
<1>1. Init => CountInv
  <2> SUFFICES ASSUME Init PROVE CountInv
    OBVIOUS
  <2>1. Counted = {}
    BY OwnerFacts DEF Init, Counted
  <2> QED BY <2>1, FS_EmptySet DEF CountInv, Init
<1> QED BY <1>1, CountNext, Inductive, PTL DEF Spec

(* The type invariant; the bounds of count need its meaning. *)
THEOREM TypeCorrect == Spec => []TypeOK
<1>1. IndInv /\ CountInv => TypeOK
  <2> SUFFICES ASSUME IndInv, CountInv PROVE TypeOK
    OBVIOUS
  <2>1. Cardinality(Counted) \in Nat /\ Cardinality(Conns) \in Nat
    BY CountedFinite, FS_CardinalityType
  <2>2. Cardinality(Counted) <= Cardinality(Conns)
    BY CountedFinite, FS_Subset DEF Counted
  <2>3. count \in 0..Cardinality(Conns)
    BY <2>1, <2>2 DEF CountInv
  <2> QED BY <2>3 DEF IndInv, Typed, TypeOK
<1> QED BY <1>1, Inductive, CountHolds, PTL

(* accept_incoming_connections returns only when no thread that has        *)
(* counted itself is left.                                                 *)
THEOREM WaitIsComplete == Spec => CountedThreadsAwaited
<1> DEFINE Awaited == main = "wait" /\ main' = "cleanup" =>
                          \A c \in Conns : at[c] \in {"none", "created", "exit"}
<1>1. CountInv /\ IndInv /\ [Next]_vars => [Awaited]_vars
  <2> SUFFICES ASSUME CountInv, IndInv, Next, main = "wait", main' = "cleanup"
               PROVE  \A c \in Conns : at[c] \in {"none", "created", "exit"}
    BY DEF vars
  <2>1. WaitForThreads
    BY OwnerFacts DEF Next, set_quit, MainStep, PollReady, AcceptFails,
       accept_connection, StopAccepting,
       Cleanup, lock_unload, unlock_unload, ClearTop, Exit, ClientStep, Handshake,
       ClientLeaves, RecvRequest, ThreadStep, LockStep, LockAll, LockConn, LockUnload, Loop,
       RecvEnd, Request, LeaderStep, CountUp, lock_connection, CheckTop, Preconnect,
       Serve, CreateWorker, PoolStarted, Join, Finalize, Free, Close, unlock_connection, CountDown, process
  <2>2. Cardinality(Counted) = 0
    BY <2>1 DEF WaitForThreads, CountInv
  <2>3. Counted = {}
    BY <2>2, CountedFinite, FS_EmptySet
  <2> QED BY <2>3 DEF Counted
<1>2. CountInv /\ IndInv /\ [Next]_vars =>
          [main = "wait" /\ main' = "cleanup" =>
             \A c \in Conns : at[c] \in {"none", "created", "exit"}]_vars
    BY <1>1
<1> QED BY <1>2, Inductive, CountHolds, PTL DEF Spec, CountedThreadsAwaited

-----------------------------------------------------------------------------
(* A handle is open only after the handshake, and past free_connection it  *)
(* is not open any more, unless quit was set there.                        *)
HandleInv ==
    \A c \in Conns :
        /\ Early(c) /\ at[c] # "serve" => handle[c] = "none"
        /\ at[c] \in {"unlock", "leaving", "exit"} /\ ~quit => handle[c] # "open"

(* What a step may not do to the connection c. *)
Apart(c) ==
    /\ Early(c)' /\ at'[c] # "serve" => Early(c) /\ at[c] # "serve"
    /\ at'[c] \in {"unlock", "leaving", "exit"} =>
          \/ at[c] \in {"unlock", "leaving", "exit"}
          \/ Early(c) /\ at[c] # "serve"
          \/ at[c] = "free" /\ quit
LEMMA HandleSame ==
    ASSUME HandleInv, UNCHANGED handle, quit => quit', \A c \in Conns : Apart(c)
    PROVE  HandleInv'
BY DEF HandleInv, Apart

LEMMA HandleNext == IndInv /\ HandleInv /\ [Next]_vars => HandleInv'
<1> SUFFICES ASSUME IndInv, HandleInv, [Next]_vars PROVE HandleInv'
    OBVIOUS
<1> USE OwnerFacts
<1> DEFINE Still == UNCHANGED handle /\ (quit => quit') /\ \A c \in Conns : Apart(c)
<1>0. Still => HandleInv'
    BY HandleSame
<1>1. CASE set_quit \/ UNCHANGED vars
  <2>1. Still
    BY <1>1 DEF set_quit, vars, conns, Apart, Early
  <2> QED BY <2>1, <1>0
<1>2. CASE MainStep
  <2>1. Still
    BY <1>2 DEF MainStep, PollReady, AcceptFails, accept_connection, StopAccepting,
       WaitForThreads, Cleanup, lock_unload, unlock_unload, ClearTop, Exit, Goto, conns,
       IndInv, Typed, Apart, Early
  <2> QED BY <2>1, <1>0
<1>3. ASSUME NEW t \in Threads,
             LockStep(t) \/ Loop(t) \/ RecvEnd(t) \/ Request(t) \/ RecvRequest(t)
      PROVE  HandleInv'
  <2>1. Still
    BY <1>3 DEF LockStep, LockAll, LockConn, LockUnload, Loop, RecvEnd, Request, RecvRequest,
       Goto, EnterLocks, process, conns, IndInv, Typed, Apart, Early
  <2> QED BY <2>1, <1>0
<1>4. ASSUME NEW t \in Conns,
             \/ CountUp(t) \/ lock_connection(t) \/ CheckTop(t) \/ Preconnect(t) \/ Serve(t)
             \/ CreateWorker(t) \/ PoolStarted(t) \/ Join(t) \/ Finalize(t) \/ Free(t)
             \/ unlock_connection(t) \/ CountDown(t) \/ ClientLeaves(t)
      PROVE  HandleInv'
  <2>1. CASE CreateWorker(t)
    <3>1. \A u \in Pool(t) : u \in Threads /\ u \notin Conns
        BY DEF Pool
    <3>2. Still
        BY <2>1, <3>1 DEF CreateWorker, Goto, process, conns, IndInv, Typed, Apart, Early
    <3> QED BY <3>2, <1>0
  <2>2. CASE CountUp(t) \/ lock_connection(t) \/ CheckTop(t) \/ Preconnect(t) \/ Serve(t)
    <3>1. Still
        BY <2>2 DEF CountUp, lock_connection, CheckTop, Preconnect, Serve, Goto, EnterLocks,
           process, conns, IndInv, Typed, Apart, Early
    <3> QED BY <3>1, <1>0
  <2>3. CASE PoolStarted(t) \/ Join(t) \/ Finalize(t) \/ Free(t)
    <3>1. Still
        BY <2>3 DEF PoolStarted, Join, Finalize, Free, Goto, EnterLocks,
           process, conns, IndInv, Typed, Apart, Early
    <3> QED BY <3>1, <1>0
  <2>4. CASE unlock_connection(t) \/ CountDown(t) \/ ClientLeaves(t)
    <3>1. Still
        BY <2>4 DEF unlock_connection, CountDown, ClientLeaves, Goto,
           process, conns, IndInv, Typed, Apart, Early
    <3> QED BY <3>1, <1>0
  <2> QED BY <1>4, <2>1, <2>2, <2>3, <2>4
<1>5. ASSUME NEW t \in Conns, Handshake(t) PROVE HandleInv'
    BY <1>5 DEF Handshake, Goto, process, IndInv, Typed, HandleInv, Early
<1>6. ASSUME NEW t \in Conns, Close(t) PROVE HandleInv'
    BY <1>6 DEF Close, Goto, process, IndInv, Typed, HandleInv, Early
<1> QED BY <1>1, <1>2, <1>3, <1>4, <1>5, <1>6 DEF Next, ClientStep, ThreadStep, LeaderStep

(* While the server runs, start_thread ends with the handle closed,        *)
(* whichever way handle_single_connection was left.                        *)
THEOREM HandlesAreClosed == Spec => HandlesClosed
<1>1. Init => HandleInv
    BY OwnerFacts DEF Init, HandleInv
<1>2. HandleInv /\ IndInv /\ [Next]_vars =>
          [\A c \in Conns : at[c] # "exit" /\ at'[c] = "exit" /\ ~quit => handle[c] # "open"]_vars
  <2> SUFFICES ASSUME HandleInv, IndInv, Next, NEW c \in Conns,
                      at[c] # "exit", at'[c] = "exit", ~quit
               PROVE  handle[c] # "open"
    BY DEF vars
  <2>1. at[c] = "leaving"
    <3>1. ~set_quit /\ ~MainStep
      BY OwnerFacts DEF set_quit, MainStep, PollReady, AcceptFails, accept_connection,
         StopAccepting, WaitForThreads, Cleanup, lock_unload, unlock_unload, ClearTop, Exit,
         Goto, IndInv, Typed
    <3>2. ~ClientStep
      BY OwnerFacts DEF ClientStep, Handshake, ClientLeaves, RecvRequest, Goto, EnterLocks,
         IndInv, Typed
    <3>3. PICK t \in Threads : ThreadStep(t)
      BY <3>1, <3>2 DEF Next
    <3>4. ~ (LockStep(t) \/ Loop(t) \/ RecvEnd(t) \/ Request(t))
      BY OwnerFacts DEF LockStep, LockAll, LockConn, LockUnload, Loop, RecvEnd, Request, Goto,
         EnterLocks, IndInv, Typed
    <3>5. t \in Conns /\ (LeaderStep(t) \/ Handshake(t))
      BY <3>3, <3>4 DEF ThreadStep
    <3>6. ~CreateWorker(t)
      <4>1. \A u \in Pool(t) : u # c
        BY OwnerFacts DEF Pool
      <4> QED BY <4>1, OwnerFacts DEF CreateWorker, Goto, IndInv, Typed
    <3>7. ~ (\/ CountUp(t) \/ lock_connection(t) \/ CheckTop(t) \/ Preconnect(t) \/ Serve(t)
             \/ PoolStarted(t) \/ Join(t))
      BY OwnerFacts DEF CountUp, lock_connection, CheckTop, Preconnect, Serve, PoolStarted,
         Join, Goto, EnterLocks, IndInv, Typed
    <3>8. ~ (Finalize(t) \/ Free(t) \/ Close(t) \/ unlock_connection(t) \/ Handshake(t))
      BY OwnerFacts DEF Finalize, Free, Close, unlock_connection, Handshake, Goto, EnterLocks,
         IndInv, Typed
    <3>9. CountDown(t)
      BY <3>5, <3>6, <3>7, <3>8 DEF LeaderStep
    <3> QED BY <3>9, OwnerFacts DEF CountDown, Goto, IndInv, Typed
  <2> QED BY <2>1 DEF HandleInv
<1> QED BY <1>1, <1>2, HandleNext, Inductive, PTL DEF Spec, HandlesClosed
=============================================================================
