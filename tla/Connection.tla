------------------------------ MODULE Connection ------------------------------
(***************************************************************************)
(* One NBD connection after the handshake: the pool of worker threads of   *)
(* server/connections.c, each running protocol_recv_request_send_reply of  *)
(* server/protocol.c in a loop, the connection status they share, the      *)
(* read and write locks that keep the two directions of the socket in      *)
(* step, and the connection thread that creates and joins the workers.     *)
(*                                                                         *)
(* A message of the client is one member of AllMessages; its position in   *)
(* the stream is its cookie.  A write request and its payload are one      *)
(* message: the payload is read before read_lock is released.  A reply is  *)
(* the sequence of conn->send calls that the code makes for it.            *)
(***************************************************************************)
EXTENDS Naturals, Sequences, FiniteSets

CONSTANTS
    Workers,             \* the worker threads (one of them: serial processing)
    NoThread,            \* the holder of a lock that is free
    Messages,            \* the messages this instance's client may send
    MaxMessages,         \* bound: length of the client's stream
    structured_replies,  \* negotiated in the handshake
    Transport            \* conn->send: raw_send_socket, raw_send_other, crypto_send

STATUS_DEAD == 0
STATUS_CLIENT_DONE == 1
STATUS_SHUTDOWN == 2
STATUS_ACTIVE == 3

(* INVALID: refused by validate_request.  HUGE_WRITE: refused, and too     *)
(* large for skip_over_write_buffer.  CUT_HEADER, CUT_WRITE: the client    *)
(* closes in the middle of a header or of a payload.                       *)
Requests == {"READ", "WRITE", "FLUSH", "BLOCK_STATUS", "INVALID", "INVALID_WRITE"}
Fatal == {"HUGE_WRITE", "CUT_HEADER", "CUT_WRITE", "BAD_MAGIC"}
AllMessages == Requests \cup Fatal \cup {"DISC"}
Cut == {"CUT_HEADER", "CUT_WRITE"}

Errors == {"none", "plugin", "ESHUTDOWN", "EINVAL", "ENOMEM"}

ASSUME WorkersAssumption == NoThread \notin Workers
ASSUME MessagesAssumption == Messages \subseteq AllMessages
ASSUME BoundAssumption == MaxMessages \in Nat
ASSUME FlagsAssumption ==
    /\ structured_replies \in BOOLEAN
    /\ Transport \in {"socket", "other", "tls"}

VARIABLES
    sent,       \* what the client has written to its socket
    client,     \* "open"; "closed": no more input; "gone": nor any reading
    consumed,   \* how many messages the server has taken from the socket
    desync,     \* bytes were taken from under the TLS session
    quit,       \* server/quit.c
    status,     \* conn->status
    status_pipe,\* conn->status_pipe has been written
    sockin, sockout,  \* conn->sockin is open, conn->sockout >= 0
    read_lock, write_lock,  \* their holders
    pc,         \* where each worker is
    msg,        \* the message each worker has read, and its cookie
    cs,         \* the worker's copy of the status
    error,      \* the worker's error variable
    part,       \* the conn->send call the worker makes next
    wire,       \* the chunks written to sockout
    executed,   \* the cookies of the requests given to the plugin
    main        \* where the connection thread is

vars == <<sent, client, consumed, desync, quit, status, status_pipe, sockin,
          sockout, read_lock, write_lock, pc, msg, cs, error, part, wire,
          executed, main>>

environment == <<sent, client, quit>>
stream == <<consumed, desync>>
socks == <<sockin, sockout>>
locals == <<msg, cs, error, part>>

Locations ==
    {"off", "loop", "lock_read", "recv", "parse", "perform", "handle", "sleep",
     "slept", "disc_close", "reply", "lock_write", "send", "close_wr", "exit",
     "abort"}

NoMessage == [kind |-> "EOF", cookie |-> 0]

Init ==
    /\ sent = <<>> /\ client = "open" /\ consumed = 0 /\ desync = FALSE
    /\ quit = FALSE
    /\ status = STATUS_ACTIVE /\ status_pipe = FALSE
    /\ sockin = TRUE /\ sockout = TRUE
    /\ read_lock = NoThread /\ write_lock = NoThread
    /\ pc = [w \in Workers |-> "off"]
    /\ msg = [w \in Workers |-> NoMessage]
    /\ cs = [w \in Workers |-> STATUS_ACTIVE]
    /\ error = [w \in Workers |-> "none"]
    /\ part = [w \in Workers |-> 1]
    /\ wire = <<>> /\ executed = {}
    /\ main = "create"

-----------------------------------------------------------------------------
(* The client, and the operator of the server. *)

ClientSend(m) ==
    /\ client = "open" /\ Len(sent) < MaxMessages
    /\ sent' = Append(sent, m)
    /\ client' = IF m \in Cut THEN "closed" ELSE client
    /\ UNCHANGED <<quit, status, status_pipe, stream, socks, read_lock, write_lock,
                   pc, locals, wire, executed, main>>

ClientClose(how) ==
    /\ client # "gone" /\ client # how
    /\ client' = how
    /\ UNCHANGED <<sent, quit, status, status_pipe, stream, socks, read_lock,
                   write_lock, pc, locals, wire, executed, main>>

SetQuit ==
    /\ ~quit /\ quit' = TRUE
    /\ UNCHANGED <<sent, client, status, status_pipe, stream, socks, read_lock,
                   write_lock, pc, locals, wire, executed, main>>

-----------------------------------------------------------------------------
(* connection_set_status only lowers the status.  It writes the status pipe *)
(* when the connection stops taking requests and has a pool of workers, and *)
(* tells the one caller that killed the connection to shut down the socket. *)
Pooled == \E v, w \in Workers : v # w

LowerStatus(value) == IF value < status THEN value ELSE status

(* Mutant: every caller that asks for STATUS_DEAD is told to shut down.    *)
ShouldShutdownAgain(value) == value < STATUS_CLIENT_DONE

ShouldShutdown(value) ==
    /\ value < status
    /\ status >= STATUS_CLIENT_DONE /\ value < STATUS_CLIENT_DONE

connection_set_status(value) ==
    /\ status' = LowerStatus(value)
    /\ status_pipe' = (status_pipe \/ (Pooled /\ value < status /\ status > STATUS_CLIENT_DONE
                                        /\ value <= STATUS_CLIENT_DONE))

(* protocol_recv_request_send_reply returns to the loop of the worker,     *)
(* through close (SHUT_WR) if it returns true.                             *)
ReturnTo(w, shutdown) == pc' = [pc EXCEPT ![w] = IF shutdown THEN "close_wr" ELSE "loop"]

(* conn->close (SHUT_WR).  A second call of raw_close finds sockout = -1   *)
(* and takes the branch that closes sockin; crypto_close sends a second    *)
(* goodbye.                                                                *)
close_wr ==
    /\ sockout' = FALSE
    /\ sockin' = (sockin /\ (sockout \/ Transport = "tls"))

-----------------------------------------------------------------------------
(* connection_worker.  The locals of protocol_recv_request_send_reply start *)
(* afresh with each call.                                                   *)

WorkerLoop(w) ==
    /\ pc[w] = "loop"
    /\ pc' = [pc EXCEPT ![w] = IF ~quit /\ status > STATUS_CLIENT_DONE
                               THEN "lock_read" ELSE "exit"]
    /\ msg' = [msg EXCEPT ![w] = NoMessage]
    /\ cs' = [cs EXCEPT ![w] = STATUS_ACTIVE]
    /\ error' = [error EXCEPT ![w] = "none"]
    /\ part' = [part EXCEPT ![w] = 1]
    /\ UNCHANGED <<environment, stream, status, status_pipe, socks, read_lock,
                   write_lock, wire, executed, main>>

CloseWrite(w) ==
    /\ pc[w] \in {"close_wr", "disc_close"}
    /\ write_lock = NoThread
    /\ close_wr
    /\ pc' = [pc EXCEPT ![w] = IF @ = "close_wr" THEN "loop" ELSE "handle"]
    /\ UNCHANGED <<environment, stream, status, status_pipe, read_lock, write_lock,
                   locals, wire, executed, main>>

-----------------------------------------------------------------------------
(* protocol_recv_request_send_reply, under read_lock *)

AcquireReadLock(w) ==
    /\ pc[w] = "lock_read" /\ read_lock = NoThread
    /\ read_lock' = w
    /\ pc' = [pc EXCEPT ![w] = "recv"]
    /\ UNCHANGED <<environment, stream, status, status_pipe, socks, write_lock,
                   locals, wire, executed, main>>

(* conn->recv of the header: blocks until there is a message, the end of   *)
(* the stream, or an error.                                                *)
Recv(w) ==
    /\ pc[w] = "recv"
    /\ \/ /\ ~desync /\ consumed < Len(sent)
          /\ consumed' = consumed + 1
          /\ msg' = [msg EXCEPT ![w] = [kind |-> sent[consumed + 1], cookie |-> consumed + 1]]
       \/ /\ ~desync /\ consumed = Len(sent) /\ client # "open"
          /\ msg' = [msg EXCEPT ![w] = NoMessage]
          /\ UNCHANGED consumed
       \/ /\ client = "gone" \/ (desync /\ (consumed < Len(sent) \/ client # "open"))
          /\ msg' = [msg EXCEPT ![w] = [kind |-> "ERROR", cookie |-> 0]]
          /\ UNCHANGED consumed
    /\ pc' = [pc EXCEPT ![w] = "parse"]
    /\ UNCHANGED <<environment, desync, status, status_pipe, socks, read_lock,
                   write_lock, cs, error, part, wire, executed, main>>

(* Somebody else has ended the connection: what was read is dropped.       *)
ParseDropped(w) ==
    /\ pc[w] = "parse" /\ status <= STATUS_CLIENT_DONE
    /\ read_lock' = NoThread
    /\ ReturnTo(w, FALSE)
    /\ UNCHANGED <<environment, stream, status, status_pipe, socks, write_lock,
                   locals, wire, executed, main>>

ParseFatal(w) ==
    /\ pc[w] = "parse" /\ status > STATUS_CLIENT_DONE
    /\ msg[w].kind \in Fatal \cup {"ERROR"}
    /\ connection_set_status(STATUS_DEAD)
    /\ read_lock' = NoThread
    /\ ReturnTo(w, ShouldShutdown(STATUS_DEAD))
    /\ UNCHANGED <<environment, stream, socks, write_lock, locals, wire, executed, main>>

ParseDisconnect(w) ==
    /\ pc[w] = "parse" /\ status > STATUS_CLIENT_DONE
    /\ msg[w].kind \in {"EOF", "DISC"}
    /\ connection_set_status(STATUS_CLIENT_DONE)
    /\ read_lock' = NoThread
    /\ ReturnTo(w, ShouldShutdown(STATUS_CLIENT_DONE))
    /\ UNCHANGED <<environment, stream, socks, write_lock, locals, wire, executed, main>>

(* A refused request, or one whose buffer or extents list cannot be        *)
(* allocated.  The payload of a write is skipped with read(2) on the       *)
(* socket itself, whatever conn->recv is.                                  *)
ParseRefused(w) ==
    /\ pc[w] = "parse" /\ status > STATUS_CLIENT_DONE
    /\ \/ /\ msg[w].kind \in {"INVALID", "INVALID_WRITE"}
          /\ error' = [error EXCEPT ![w] = "EINVAL"]
       \/ /\ msg[w].kind \in {"READ", "WRITE", "BLOCK_STATUS"}
          /\ error' = [error EXCEPT ![w] = "ENOMEM"]
    /\ desync' = (desync \/ (Transport = "tls" /\ msg[w].kind \in {"WRITE", "INVALID_WRITE"}))
    /\ cs' = [cs EXCEPT ![w] = status]
    /\ read_lock' = NoThread
    /\ pc' = [pc EXCEPT ![w] = "reply"]
    /\ UNCHANGED <<environment, consumed, status, status_pipe, socks, write_lock,
                   msg, part, wire, executed, main>>

(* Mutant: the status is not looked at after conn->recv. *)
ParseRequestUnchecked(w) ==
    /\ pc[w] = "parse" /\ msg[w].kind \in {"READ", "WRITE", "FLUSH", "BLOCK_STATUS"}
    /\ read_lock' = NoThread
    /\ pc' = [pc EXCEPT ![w] = "perform"]
    /\ UNCHANGED <<environment, stream, status, status_pipe, socks, write_lock,
                   locals, wire, executed, main>>

ParseRequest(w) ==
    /\ pc[w] = "parse" /\ status > STATUS_CLIENT_DONE
    /\ msg[w].kind \in {"READ", "WRITE", "FLUSH", "BLOCK_STATUS"}
    /\ cs' = [cs EXCEPT ![w] = status]
    /\ read_lock' = NoThread
    /\ pc' = [pc EXCEPT ![w] = "perform"]
    /\ UNCHANGED <<environment, stream, status, status_pipe, socks, write_lock,
                   msg, error, part, wire, executed, main>>

-----------------------------------------------------------------------------
(* Performing the request *)

Perform(w) ==
    /\ pc[w] = "perform"
    /\ IF quit \/ cs[w] < STATUS_ACTIVE
       THEN /\ error' = [error EXCEPT ![w] = "ESHUTDOWN"]
            /\ pc' = [pc EXCEPT ![w] = "reply"]
            /\ UNCHANGED executed
       ELSE /\ executed' = executed \cup {msg[w].cookie}
            /\ pc' = [pc EXCEPT ![w] = "handle"]
            /\ UNCHANGED error
    /\ UNCHANGED <<environment, stream, status, status_pipe, socks, read_lock,
                   write_lock, msg, cs, part, wire, main>>

(* handle_request returns: the plugin has succeeded or failed. *)
HandleRequest(w) ==
    /\ pc[w] \in {"handle", "slept"}
    /\ \E e \in {"none", "plugin"} : error' = [error EXCEPT ![w] = e]
    /\ pc' = [pc EXCEPT ![w] = "reply"]
    /\ UNCHANGED <<environment, stream, status, status_pipe, socks, read_lock,
                   write_lock, msg, cs, part, wire, executed, main>>

(* nbdkit_disconnect called by the plugin.  Only a call that lowers the    *)
(* status is a step.                                                       *)
nbdkit_disconnect(w, force) ==
    /\ pc[w] = "handle"
    /\ LET value == IF force THEN STATUS_DEAD ELSE STATUS_SHUTDOWN IN
        /\ value < status
        /\ connection_set_status(value)
        /\ pc' = [pc EXCEPT ![w] = IF ShouldShutdown(value) THEN "disc_close" ELSE @]
    /\ UNCHANGED <<environment, stream, socks, read_lock, write_lock, locals, wire,
                   executed, main>>

(* nbdkit_nanosleep called by the plugin, at most once per request.  The   *)
(* sleep ends early on quit, on the status pipe, or when the client hangs  *)
(* up; what the plugin makes of that error is its own affair.              *)
nbdkit_nanosleep(w) ==
    /\ pc[w] = "handle"
    /\ pc' = [pc EXCEPT ![w] = "sleep"]
    /\ UNCHANGED <<environment, stream, status, status_pipe, socks, read_lock,
                   write_lock, locals, wire, executed, main>>

SleepExpires(w) ==
    /\ pc[w] = "sleep"
    /\ pc' = [pc EXCEPT ![w] = "slept"]
    /\ UNCHANGED <<environment, stream, status, status_pipe, socks, read_lock,
                   write_lock, locals, wire, executed, main>>

SleepAborted(w) ==
    /\ pc[w] = "sleep"
    /\ quit \/ status_pipe \/ client # "open"
    /\ pc' = [pc EXCEPT ![w] = "slept"]
    /\ UNCHANGED <<environment, stream, status, status_pipe, socks, read_lock,
                   write_lock, locals, wire, executed, main>>

-----------------------------------------------------------------------------
(* Sending the reply, under write_lock *)

(* Mutant: no reply is sent once the client is done. *)
CheckReplyStrict(w) ==
    /\ pc[w] = "reply"
    /\ pc' = [pc EXCEPT ![w] = IF status <= STATUS_CLIENT_DONE THEN "loop" ELSE "lock_write"]
    /\ UNCHANGED <<environment, stream, status, status_pipe, socks, read_lock,
                   write_lock, locals, wire, executed, main>>

CheckReply(w) ==
    /\ pc[w] = "reply"
    /\ pc' = [pc EXCEPT ![w] = IF status < STATUS_CLIENT_DONE THEN "loop" ELSE "lock_write"]
    /\ UNCHANGED <<environment, stream, status, status_pipe, socks, read_lock,
                   write_lock, locals, wire, executed, main>>

(* Mutant: the reply is sent without waiting for write_lock. *)
AcquireWriteLockUnguarded(w) ==
    /\ pc[w] = "lock_write"
    /\ write_lock' = w
    /\ pc' = [pc EXCEPT ![w] = "send"]
    /\ UNCHANGED <<environment, stream, status, status_pipe, socks, read_lock,
                   locals, wire, executed, main>>

AcquireWriteLock(w) ==
    /\ pc[w] = "lock_write" /\ write_lock = NoThread
    /\ write_lock' = w
    /\ pc' = [pc EXCEPT ![w] = "send"]
    /\ UNCHANGED <<environment, stream, status, status_pipe, socks, read_lock,
                   locals, wire, executed, main>>

(* How many conn->send calls the reply takes.  A block status reply has    *)
(* one block descriptor here.                                              *)
Chunks(w) ==
    IF structured_replies /\ msg[w].kind \in {"READ", "BLOCK_STATUS"}
    THEN IF error[w] = "none" THEN 3 ELSE 2
    ELSE IF error[w] = "none" /\ msg[w].kind = "READ" THEN 2 ELSE 1

Sending(w) == pc[w] = "send" /\ write_lock = w

SendChunk(w) ==
    /\ Sending(w) /\ sockout /\ client # "gone"
    /\ wire' = Append(wire, [cookie |-> msg[w].cookie, part |-> part[w],
                             last |-> part[w] = Chunks(w), error |-> error[w]])
    /\ part' = [part EXCEPT ![w] = @ + 1]
    /\ IF part[w] = Chunks(w)
       THEN /\ write_lock' = NoThread
            /\ ReturnTo(w, FALSE)
       ELSE UNCHANGED <<write_lock, pc>>
    /\ UNCHANGED <<environment, stream, status, status_pipe, socks, read_lock,
                   msg, cs, error, executed, main>>

(* conn->send fails: the client no longer reads, or sockout is -1 (EBADF   *)
(* from raw_send_socket, an error from gnutls after the goodbye).  The     *)
(* block descriptors may also fail to be allocated, before anything is     *)
(* sent.                                                                   *)
CannotSend(w) ==
    /\ Sending(w)
    /\ \/ sockout /\ client = "gone"
       \/ ~sockout /\ Transport # "other"
       \/ part[w] = 1 /\ msg[w].kind = "BLOCK_STATUS" /\ Chunks(w) = 3

(* Mutant: a reply that cannot be sent is forgotten. *)
SendFailsIgnored(w) ==
    /\ CannotSend(w)
    /\ write_lock' = NoThread
    /\ ReturnTo(w, FALSE)
    /\ UNCHANGED <<environment, stream, status, status_pipe, socks, read_lock,
                   locals, wire, executed, main>>

(* Mutant: the return on a failed send leaves write_lock held. *)
SendFailsKeepsLock(w) ==
    /\ CannotSend(w)
    /\ connection_set_status(STATUS_DEAD)
    /\ ReturnTo(w, ShouldShutdown(STATUS_DEAD))
    /\ UNCHANGED <<environment, stream, socks, read_lock, write_lock, locals, wire,
                   executed, main>>

SendFails(w) ==
    /\ CannotSend(w)
    /\ connection_set_status(STATUS_DEAD)
    /\ write_lock' = NoThread
    /\ ReturnTo(w, ShouldShutdown(STATUS_DEAD))
    /\ UNCHANGED <<environment, stream, socks, read_lock, locals, wire, executed, main>>

(* assert (sock >= 0) in raw_send_other: the process aborts.               *)
SendAborts(w) ==
    /\ Sending(w) /\ ~sockout /\ Transport = "other"
    /\ pc' = [pc EXCEPT ![w] = "abort"]
    /\ UNCHANGED <<environment, stream, status, status_pipe, socks, read_lock,
                   write_lock, locals, wire, executed, main>>

-----------------------------------------------------------------------------
(* handle_single_connection: the connection thread *)

CreateWorker(w) ==
    /\ main = "create" /\ pc[w] = "off"
    /\ pc' = [pc EXCEPT ![w] = "loop"]
    /\ main' = IF \A v \in Workers \ {w} : pc[v] # "off" THEN "join" ELSE "create"
    /\ UNCHANGED <<environment, stream, status, status_pipe, socks, read_lock,
                   write_lock, locals, wire, executed>>

(* A worker cannot be created: the result of connection_set_status is      *)
(* ignored and the workers already running are joined.                     *)
CreateWorkerFails ==
    /\ main = "create" /\ Pooled
    /\ connection_set_status(STATUS_DEAD)
    /\ main' = "join"
    /\ UNCHANGED <<environment, stream, socks, read_lock, write_lock, pc, locals,
                   wire, executed>>

JoinWorkers ==
    /\ main = "join"
    /\ \A w \in Workers : pc[w] \in {"off", "exit"}
    /\ main' = "finalize"
    /\ UNCHANGED <<environment, stream, status, status_pipe, socks, read_lock,
                   write_lock, pc, locals, wire, executed>>

(* backend_finalize, then free_connection, which closes both directions.   *)
FreeConnection ==
    /\ main = "finalize"
    /\ sockin' = FALSE /\ sockout' = FALSE
    /\ main' = "done"
    /\ UNCHANGED <<environment, stream, status, status_pipe, read_lock, write_lock,
                   pc, locals, wire, executed>>

-----------------------------------------------------------------------------
(* A failed assertion takes the whole process down. *)
Alive == \A w \in Workers : pc[w] # "abort"

ServeStep(w) ==
    \/ WorkerLoop(w) \/ CloseWrite(w)
    \/ AcquireReadLock(w) \/ Recv(w)
    \/ ParseDropped(w) \/ ParseFatal(w) \/ ParseDisconnect(w)
    \/ ParseRefused(w) \/ ParseRequest(w)
    \/ Perform(w) \/ HandleRequest(w) \/ SleepAborted(w)
    \/ CheckReply(w) \/ AcquireWriteLock(w)
    \/ SendChunk(w) \/ SendFails(w) \/ SendAborts(w)

PluginCall(w) ==
    \/ \E force \in BOOLEAN : nbdkit_disconnect(w, force)
    \/ nbdkit_nanosleep(w) \/ SleepExpires(w)

WorkerStep(w) == Alive /\ ServeStep(w)

MainStep ==
    /\ Alive
    /\ \/ \E w \in Workers : CreateWorker(w)
       \/ CreateWorkerFails \/ JoinWorkers \/ FreeConnection

Environment ==
    \/ \E m \in Messages : ClientSend(m)
    \/ \E how \in {"closed", "gone"} : ClientClose(how)
    \/ SetQuit

Next ==
    \/ Environment \/ MainStep
    \/ \E w \in Workers : WorkerStep(w) \/ (Alive /\ PluginCall(w))

(* Every thread of the server that can run, runs.  Nothing is assumed of   *)
(* the client.                                                             *)
Fairness == WF_vars(MainStep) /\ \A w \in Workers : WF_vars(WorkerStep(w))

Spec == Init /\ [][Next]_vars
FairSpec == Spec /\ Fairness

-----------------------------------------------------------------------------
(* Properties *)

Chunk == [cookie : Nat, part : Nat \ {0}, last : BOOLEAN, error : Errors]

(* Type correctness of the connection's state and of the workers' locals. *)
TypeOK ==
    /\ sent \in Seq(AllMessages) /\ client \in {"open", "closed", "gone"}
    /\ consumed \in Nat /\ desync \in BOOLEAN /\ quit \in BOOLEAN
    /\ status \in STATUS_DEAD..STATUS_ACTIVE /\ status_pipe \in BOOLEAN
    /\ sockin \in BOOLEAN /\ sockout \in BOOLEAN
    /\ read_lock \in Workers \cup {NoThread}
    /\ write_lock \in Workers \cup {NoThread}
    /\ pc \in [Workers -> Locations]
    /\ msg \in [Workers -> [kind : AllMessages \cup {"EOF", "ERROR"}, cookie : Nat]]
    /\ cs \in [Workers -> STATUS_DEAD..STATUS_ACTIVE]
    /\ error \in [Workers -> Errors]
    /\ part \in [Workers -> Nat \ {0}]
    /\ wire \in Seq(Chunk)
    /\ executed \in SUBSET Nat
    /\ main \in {"create", "join", "finalize", "done"}

(* The chunks of a reply are contiguous and in order on the wire, however  *)
(* the workers are scheduled: each sender holds write_lock for its whole   *)
(* reply, and after a reply was cut short nothing more is written.         *)
FollowsWell(i) ==
    IF wire[i].part = 1
    THEN i = 1 \/ wire[i - 1].last
    ELSE /\ i > 1
         /\ wire[i - 1].cookie = wire[i].cookie
         /\ wire[i - 1].part + 1 = wire[i].part
         /\ ~wire[i - 1].last
RepliesNotInterleaved == \A i \in 1..Len(wire) : FollowsWell(i)

(* close (SHUT_WR) runs at most once, because connection_set_status tells  *)
(* only the thread that killed the connection to shut down; a second call  *)
(* of raw_close would close sockin under the workers that read it, and     *)
(* free_connection would then close the descriptor again.                  *)
SockinOpenForWorkers == main # "done" => sockin

(* No request that follows NBD_CMD_DISC in the client's stream is given to *)
(* the plugin, although other workers may be between reading a request and *)
(* performing it when the DISC is read.                                    *)
NothingAfterDisc ==
    \A i \in 1..Len(sent), c \in executed : sent[i] = "DISC" => c < i

(* The connection thread frees a connection that never died only after     *)
(* every request taken from it has its whole reply on the wire: NBD_CMD_   *)
(* DISC, the end of the stream, and quit do not lose replies.              *)
GracefulEnd ==
    main = "done" /\ status >= STATUS_CLIENT_DONE =>
        \A i \in 1..consumed :
            sent[i] \in Requests /\ (\A j \in 1..i : sent[j] # "DISC") =>
                \E k \in 1..Len(wire) : wire[k].cookie = i /\ wire[k].last

(* The connection keeps the promise of module Replies: the requests in     *)
(* flight are those of the workers between parsing and the end of sending, *)
(* the answers are the replies whose last chunk is on the wire.            *)
InFlight ==
    {msg[w].cookie : w \in {v \in Workers :
        pc[v] \notin {"off", "loop", "lock_read", "recv", "parse", "close_wr", "exit"}}}
Answered == {<<i, wire[i].cookie>> : i \in {j \in 1..Len(wire) : wire[j].last}}
Promise == INSTANCE Replies WITH
    last <- consumed,
    pending <- InFlight,
    answers <- Answered,
    dead <- status = STATUS_DEAD
KeepsPromise == Promise!Spec

(* Once the client has stopped sending, every worker leaves its loop and   *)
(* the connection is freed, whatever the plugin's sleeps.                  *)
ConnectionEnds == client # "open" ~> main = "done"

(* No worker stays for ever between taking a message and being ready for   *)
(* the next one, except in a sleep of the plugin: the locks are always     *)
(* released and never waited for in a cycle.                               *)
WorkersReturn ==
    \A w \in Workers : pc[w] = "parse" ~> pc[w] \in {"loop", "sleep", "exit"}

(* After nbdkit_disconnect (force) has shut down the socket, no request is  *)
(* given to the plugin any more: "the next callback for the current        *)
(* connection should be C<.close>" (docs/nbdkit_shutdown.pod).  The client *)
(* is still there, so that it is the plugin that ended the connection.     *)
NextCallbackIsClose ==
    [][client = "open" /\ ~sockout => executed' = executed]_vars

(* The assertion of raw_send_other: sockout is open whenever it is called. *)
SendOtherAssertion == \A w \in Workers : pc[w] # "abort"

(* conn->recv fails only if the client broke the connection: refusing a    *)
(* write request leaves the stream at the next request, since the socket   *)
(* is only read through conn->recv ("Don't call these raw socket functions *)
(* directly.  Use conn->recv etc.", server/connections.c).                 *)
RecvFailsOnlyIfClientGone ==
    \A w \in Workers : msg[w].kind = "ERROR" => client = "gone"
=============================================================================
