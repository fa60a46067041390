------------------------------- MODULE Timeout -------------------------------
(***************************************************************************)
(* The handshake timeout (server/timeout.c): each connection arms a timer  *)
(* before its handshake and cancels it after.  A timer that expires runs   *)
(* connection_timeout in a thread of its own, concurrently with the thread *)
(* of the connection it holds a pointer to.                                *)
(***************************************************************************)
EXTENDS Naturals

CONSTANTS
    Conns,          \* connections
    NoConn,         \* the holder of connection_lock when it is free
    Models          \* thread models, 0 is SERIALIZE_CONNECTIONS

VARIABLES
    thread_model,
    connection_lock,    \* <<c, "conn">> or <<c, "timer">>, or NoConn
    at,                 \* the thread of each connection
    timer,              \* the timer of each connection, then its thread
    timer_set,          \* conn->timer_set
    active,             \* conn->status = STATUS_ACTIVE
    sockout,            \* "open", "shut" by shutdown, or "closed" (-1)
    alive               \* the connection structure has not been freed

vars == <<thread_model, connection_lock, at, timer, timer_set, active, sockout, alive>>

Init ==
    /\ thread_model \in Models /\ connection_lock = NoConn
    /\ at = [c \in Conns |-> "lock"]
    /\ timer = [c \in Conns |-> "off"]
    /\ timer_set = [c \in Conns |-> FALSE]
    /\ active = [c \in Conns |-> TRUE]
    /\ sockout = [c \in Conns |-> "open"]
    /\ alive = [c \in Conns |-> TRUE]

Goto(c, there) == at' = [at EXCEPT ![c] = there]
TimerGoto(c, there) == timer' = [timer EXCEPT ![c] = there]

lock_connection(who) ==
    IF thread_model = 0 THEN connection_lock = NoConn /\ connection_lock' = who
                        ELSE UNCHANGED connection_lock
unlock_connection == connection_lock' = IF thread_model = 0 THEN NoConn ELSE connection_lock

-----------------------------------------------------------------------------
(* handle_single_connection *)

LockConnection(c) ==
    /\ at[c] = "lock" /\ lock_connection(<<c, "conn">>) /\ Goto(c, "start")
    /\ UNCHANGED <<thread_model, timer, timer_set, active, sockout, alive>>

(* The timer may expire as soon as it is armed, before timer_set is set. *)
start_timeout(c) ==
    /\ at[c] = "start"
    /\ \/ TimerGoto(c, "armed") /\ Goto(c, "armed")
       \/ Goto(c, "free") /\ UNCHANGED timer
    /\ UNCHANGED <<thread_model, connection_lock, timer_set, active, sockout, alive>>

TimerIsSet(c) ==
    /\ at[c] = "armed" /\ Goto(c, "handshake")
    /\ timer_set' = [timer_set EXCEPT ![c] = TRUE]
    /\ UNCHANGED <<thread_model, connection_lock, timer, active, sockout, alive>>

(* The handshake completes if the client takes part in it ... *)
HandshakeComplete(c) ==
    /\ at[c] = "handshake" /\ sockout[c] = "open" /\ Goto(c, "cancel")
    /\ UNCHANGED <<thread_model, connection_lock, timer, timer_set, active, sockout, alive>>

(* ... and fails when the socket has been shut down, or the client leaves. *)
HandshakeFails(c) ==
    /\ at[c] = "handshake" /\ Goto(c, "free")
    /\ UNCHANGED <<thread_model, connection_lock, timer, timer_set, active, sockout, alive>>

(* timer_delete does not wait for a thread that is already running.        *)
cancel_timeout(c) ==
    /\ timer' = [timer EXCEPT ![c] = IF @ = "armed" /\ timer_set[c] THEN "off" ELSE @]
    /\ timer_set' = [timer_set EXCEPT ![c] = FALSE]

CancelTimeout(c) ==
    /\ at[c] = "cancel" /\ cancel_timeout(c) /\ Goto(c, "serve")
    /\ UNCHANGED <<thread_model, connection_lock, active, sockout, alive>>

(* The request loop ends with the client or with the socket. *)
Serve(c) ==
    /\ at[c] = "serve" /\ active' = [active EXCEPT ![c] = FALSE]
    /\ Goto(c, "free")
    /\ UNCHANGED <<thread_model, connection_lock, timer, timer_set, sockout, alive>>

(* free_connection cancels the timeout, closes the socket ... *)
CloseSocket(c) ==
    /\ at[c] = "free" /\ cancel_timeout(c)
    /\ sockout' = [sockout EXCEPT ![c] = "closed"]
    /\ Goto(c, "freeing")
    /\ UNCHANGED <<thread_model, connection_lock, active, alive>>

(* ... and frees the connection, before connection_lock is released.       *)
FreeConnection(c) ==
    /\ at[c] = "freeing" /\ alive' = [alive EXCEPT ![c] = FALSE]
    /\ Goto(c, "unlock")
    /\ UNCHANGED <<thread_model, connection_lock, timer, timer_set, active, sockout>>

UnlockConnection(c) ==
    /\ at[c] = "unlock" /\ unlock_connection /\ Goto(c, "done")
    /\ UNCHANGED <<thread_model, timer, timer_set, active, sockout, alive>>

-----------------------------------------------------------------------------
(* connection_timeout *)

Expire(c) ==
    /\ timer[c] = "armed" /\ TimerGoto(c, "lock")
    /\ UNCHANGED <<thread_model, connection_lock, at, timer_set, active, sockout, alive>>

TimerLock(c) ==
    /\ timer[c] = "lock" /\ lock_connection(<<c, "timer">>) /\ TimerGoto(c, "test")
    /\ UNCHANGED <<thread_model, at, timer_set, active, sockout, alive>>

(* Mutant: the test forgets timer_set. *)
TimerTestUnset(c) ==
    /\ timer[c] = "test"
    /\ IF alive[c] /\ active[c] /\ sockout[c] # "closed"
       THEN TimerGoto(c, "shutdown") ELSE TimerGoto(c, "unlock")
    /\ UNCHANGED <<thread_model, connection_lock, at, timer_set, active, sockout, alive>>

(* The test of magic, timer_set, status and sockout; the magic number of a *)
(* connection that has been freed may read as anything.                    *)
TimerTest(c) ==
    /\ timer[c] = "test"
    /\ \/ ~alive[c] /\ \E there \in {"shutdown", "unlock"} : TimerGoto(c, there)
       \/ /\ alive[c]
          /\ IF timer_set[c] /\ active[c] /\ sockout[c] # "closed"
             THEN TimerGoto(c, "shutdown") ELSE TimerGoto(c, "unlock")
    /\ UNCHANGED <<thread_model, connection_lock, at, timer_set, active, sockout, alive>>

TimerShutdown(c) ==
    /\ timer[c] = "shutdown"
    /\ sockout' = [sockout EXCEPT ![c] = IF @ = "open" THEN "shut" ELSE @]
    /\ TimerGoto(c, "dead")
    /\ UNCHANGED <<thread_model, connection_lock, at, timer_set, active, alive>>

TimerSetsDead(c) ==
    /\ timer[c] = "dead" /\ active' = [active EXCEPT ![c] = FALSE]
    /\ TimerGoto(c, "unlock")
    /\ UNCHANGED <<thread_model, connection_lock, at, timer_set, sockout, alive>>

TimerUnlock(c) ==
    /\ timer[c] = "unlock" /\ unlock_connection /\ TimerGoto(c, "off")
    /\ UNCHANGED <<thread_model, at, timer_set, active, sockout, alive>>

-----------------------------------------------------------------------------
(* What the connection's thread does without its client. *)
ConnStep(c) ==
    \/ LockConnection(c) \/ start_timeout(c) \/ TimerIsSet(c)
    \/ (sockout[c] # "open" /\ (HandshakeFails(c) \/ Serve(c)))
    \/ CancelTimeout(c) \/ CloseSocket(c) \/ FreeConnection(c) \/ UnlockConnection(c)

TimerStep(c) ==
    \/ Expire(c) \/ TimerLock(c) \/ TimerTest(c) \/ TimerShutdown(c)
    \/ TimerSetsDead(c) \/ TimerUnlock(c)

Next ==
    \E c \in Conns :
        ConnStep(c) \/ TimerStep(c) \/ HandshakeComplete(c) \/ HandshakeFails(c) \/ Serve(c)

(* Threads run, timers expire, and connection_lock is obtained in the end. *)
FairSpec ==
    /\ Init /\ [][Next]_vars
    /\ \A c \in Conns : /\ WF_vars(ConnStep(c)) /\ WF_vars(TimerStep(c))
                        /\ SF_vars(LockConnection(c)) /\ SF_vars(TimerLock(c))

-----------------------------------------------------------------------------
(* A timer that expires late does not decide to drop a client that has     *)
(* completed its handshake: once cancel_timeout has run, the test finds    *)
(* timer_set false (server/timeout.c).                                     *)
EstablishedKept ==
    [][\A c \in Conns : timer[c] = "test" /\ timer'[c] = "shutdown" /\ alive[c] =>
          at[c] \notin {"serve", "freeing"}]_vars

(* "If the timeout is exceeded during this negotiation, the connection is  *)
(* dropped" (docs/nbdkit.pod): a client that stalls in the handshake does  *)
(* not keep its connection for ever.  A timer so short that it expires     *)
(* before start_timeout has set timer_set is not counted, and neither are  *)
(* serialized connections, where connection_timeout waits for the lock     *)
(* that the stalled connection holds.                                      *)
StalledIsDropped ==
    \A c \in Conns :
        thread_model # 0 /\ at[c] = "handshake" /\ timer[c] = "armed" ~> at[c] # "handshake"

(* "we'll take that lock and check that conn->magic is valid (to ensure it *)
(* hasn't been freed already)" (server/timeout.c): whenever the thread of  *)
(* the timer reads the connection, the connection has not been freed.      *)
TimerFindsConnection ==
    \A c \in Conns : timer[c] \in {"test", "shutdown", "dead"} => alive[c]
=============================================================================
