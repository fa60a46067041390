--------------------------- MODULE ConnectionProofs ---------------------------
(***************************************************************************)
(* Proofs about module Connection, for any set of workers, any stream of   *)
(* the client and every transport.                                         *)
(***************************************************************************)
EXTENDS Connection, TLAPS

USE DEF STATUS_DEAD, STATUS_CLIENT_DONE, STATUS_SHUTDOWN, STATUS_ACTIVE

-----------------------------------------------------------------------------
(* Every step of the connection, of its environment or of a thread, keeps  *)
(* the state well typed.                                                   *)
LEMMA TypeOK_Init == Init => TypeOK
  <1> SUFFICES ASSUME Init PROVE TypeOK
    OBVIOUS
  <1>1. NoMessage \in [kind : AllMessages \cup {"EOF", "ERROR"}, cookie : Nat]
    BY DEF NoMessage
  <1>2. sent \in Seq(AllMessages) /\ wire \in Seq(Chunk)
    BY DEF Init
  <1>3. /\ pc \in [Workers -> Locations] /\ error \in [Workers -> Errors]
        /\ part \in [Workers -> Nat \ {0}]
        /\ cs \in [Workers -> STATUS_DEAD..STATUS_ACTIVE]
    BY DEF Init, Locations, Errors
  <1>4. msg \in [Workers -> [kind : AllMessages \cup {"EOF", "ERROR"}, cookie : Nat]]
    BY <1>1 DEF Init
  <1>5. /\ client \in {"open", "closed", "gone"} /\ consumed \in Nat
        /\ status \in STATUS_DEAD..STATUS_ACTIVE
    BY DEF Init
  <1>7. /\ desync \in BOOLEAN /\ quit \in BOOLEAN /\ status_pipe \in BOOLEAN
        /\ sockin \in BOOLEAN /\ sockout \in BOOLEAN
    BY Zenon DEF Init
  <1>6. /\ read_lock \in Workers \cup {NoThread} /\ write_lock \in Workers \cup {NoThread}
        /\ executed \in SUBSET Nat /\ main \in {"create", "join", "finalize", "done"}
    BY DEF Init
  <1>. QED  BY <1>2, <1>3, <1>4, <1>5, <1>6, <1>7 DEF TypeOK

LEMMA TypeOK_Environment == TypeOK /\ Environment => TypeOK'
  <1> SUFFICES ASSUME TypeOK, Environment PROVE TypeOK'
    OBVIOUS
  <1>1. ASSUME NEW m \in Messages, ClientSend(m) PROVE TypeOK'
    <2>1. m \in AllMessages
      BY MessagesAssumption
    <2>. QED  BY <1>1, <2>1 DEF TypeOK, ClientSend, stream, socks, locals
  <1>2. ASSUME NEW how \in {"closed", "gone"}, ClientClose(how) PROVE TypeOK'
    BY <1>2 DEF TypeOK, ClientClose, stream, socks, locals
  <1>3. CASE SetQuit
    BY <1>3 DEF TypeOK, SetQuit, stream, socks, locals
  <1>. QED  BY <1>1, <1>2, <1>3 DEF Environment

LEMMA TypeOK_Main == TypeOK /\ MainStep => TypeOK'
  <1> SUFFICES ASSUME TypeOK, MainStep PROVE TypeOK'
    OBVIOUS
  <1>. USE DEF environment, stream, socks, locals
  <1>1. ASSUME NEW w \in Workers, CreateWorker(w) PROVE TypeOK'
    BY <1>1 DEF TypeOK, CreateWorker, Locations
  <1>2. CASE CreateWorkerFails
    BY <1>2 DEF TypeOK, CreateWorkerFails, connection_set_status, LowerStatus
  <1>3. CASE JoinWorkers
    BY <1>3 DEF TypeOK, JoinWorkers
  <1>4. CASE FreeConnection
    BY <1>4 DEF TypeOK, FreeConnection
  <1>. QED  BY <1>1, <1>2, <1>3, <1>4 DEF MainStep

LEMMA TypeOK_Serve == ASSUME TypeOK, NEW w \in Workers, ServeStep(w) PROVE TypeOK'
  <1>. USE DEF environment, stream, socks, locals
  <1>1. CASE WorkerLoop(w)
    BY <1>1 DEF TypeOK, WorkerLoop, Locations, NoMessage, AllMessages, Errors
  <1>2. CASE CloseWrite(w)
    BY <1>2 DEF TypeOK, CloseWrite, close_wr, Locations
  <1>3. CASE AcquireReadLock(w)
    BY <1>3 DEF TypeOK, AcquireReadLock, Locations
  <1>4. CASE Recv(w)
    <2>. DEFINE M == [kind : AllMessages \cup {"EOF", "ERROR"}, cookie : Nat]
    <2>1. /\ consumed' \in Nat
          /\ \E m \in M : msg' = [msg EXCEPT ![w] = m]
      <3>1. consumed \in Nat /\ sent \in Seq(AllMessages)
        BY DEF TypeOK
      <3>2. consumed < Len(sent) =>
               [kind |-> sent[consumed + 1], cookie |-> consumed + 1] \in M
        BY <3>1
      <3>3. NoMessage \in M /\ [kind |-> "ERROR", cookie |-> 0] \in M
        BY DEF NoMessage
      <3>. QED  BY <1>4, <3>1, <3>2, <3>3 DEF Recv
    <2>2. msg' \in [Workers -> M]
      BY <2>1 DEF TypeOK
    <2>. QED  BY <1>4, <2>1, <2>2 DEF TypeOK, Recv, Locations
  <1>5. CASE ParseDropped(w)
    BY <1>5 DEF TypeOK, ParseDropped, ReturnTo, Locations
  <1>6. CASE ParseFatal(w)
    BY <1>6 DEF TypeOK, ParseFatal, ReturnTo, connection_set_status, LowerStatus, Locations
  <1>7. CASE ParseDisconnect(w)
    BY <1>7
       DEF TypeOK, ParseDisconnect, ReturnTo, connection_set_status, LowerStatus, Locations
  <1>8. CASE ParseRefused(w)
    BY <1>8 DEF TypeOK, ParseRefused, Locations, Errors
  <1>9. CASE ParseRequest(w)
    BY <1>9 DEF TypeOK, ParseRequest, Locations
  <1>10. CASE Perform(w)
    <2>1. msg[w].cookie \in Nat
      BY DEF TypeOK
    <2>2. executed' \in SUBSET Nat
      BY <1>10, <2>1 DEF TypeOK, Perform
    <2>3. pc' \in [Workers -> Locations] /\ error' \in [Workers -> Errors]
      BY <1>10 DEF TypeOK, Perform, Locations, Errors
    <2>. QED  BY <1>10, <2>2, <2>3 DEF TypeOK, Perform
  <1>11. CASE HandleRequest(w)
    BY <1>11 DEF TypeOK, HandleRequest, Locations, Errors
  <1>12. CASE SleepAborted(w)
    BY <1>12 DEF TypeOK, SleepAborted, Locations, Errors
  <1>13. CASE CheckReply(w)
    BY <1>13 DEF TypeOK, CheckReply, Locations
  <1>14. CASE AcquireWriteLock(w)
    BY <1>14 DEF TypeOK, AcquireWriteLock, Locations
  <1>15. CASE SendChunk(w)
    <2>. DEFINE new == [cookie |-> msg[w].cookie, part |-> part[w],
                        last |-> part[w] = Chunks(w), error |-> error[w]]
    <2>1. new \in Chunk
      BY DEF TypeOK, Chunk
    <2>2. wire' \in Seq(Chunk)
      <3>1. wire' = Append(wire, new)
        BY <1>15 DEF SendChunk
      <3>. QED  BY <2>1, <3>1 DEF TypeOK
    <2>3. part' \in [Workers -> Nat \ {0}]
      BY <1>15 DEF TypeOK, SendChunk
    <2>. QED  BY <1>15, <2>2, <2>3 DEF TypeOK, SendChunk, ReturnTo, Locations
  <1>16. CASE SendFails(w)
    BY <1>16 DEF TypeOK, SendFails, ReturnTo, connection_set_status, LowerStatus, Locations
  <1>17. CASE SendAborts(w)
    BY <1>17 DEF TypeOK, SendAborts, Locations
  <1>. QED
    BY <1>1, <1>2, <1>3, <1>4, <1>5, <1>6, <1>7, <1>8, <1>9, <1>10, <1>11, <1>12,
       <1>13, <1>14, <1>15, <1>16, <1>17 DEF ServeStep

LEMMA TypeOK_Plugin == ASSUME TypeOK, NEW w \in Workers, PluginCall(w) PROVE TypeOK'
  <1>. USE DEF environment, stream, socks, locals
  <1>1. ASSUME NEW force \in BOOLEAN, nbdkit_disconnect(w, force) PROVE TypeOK'
    BY <1>1 DEF TypeOK, nbdkit_disconnect, connection_set_status, LowerStatus, Locations
  <1>2. CASE nbdkit_nanosleep(w)
    BY <1>2 DEF TypeOK, nbdkit_nanosleep, Locations
  <1>3. CASE SleepExpires(w)
    BY <1>3 DEF TypeOK, SleepExpires, Locations
  <1>. QED  BY <1>1, <1>2, <1>3 DEF PluginCall

(* The connection's state is well typed in every reachable state. *)
THEOREM TypeCorrect == Spec => []TypeOK
  <1>1. ASSUME TypeOK, [Next]_vars PROVE TypeOK'
    <2>1. CASE Next
      BY <1>1, <2>1, TypeOK_Environment, TypeOK_Main, TypeOK_Serve, TypeOK_Plugin
      DEF Next, WorkerStep
    <2>2. CASE UNCHANGED vars
      BY <1>1, <2>2 DEF TypeOK, vars
    <2>. QED  BY <1>1, <2>1, <2>2
  <1>. QED  BY <1>1, TypeOK_Init, PTL DEF Spec

-----------------------------------------------------------------------------
(* The inductive invariant behind the safety theorems, in parts.           *)

(* A lock is held by the worker that is in its critical section. *)
LocksInv ==
    \A w \in Workers : /\ pc[w] \in {"recv", "parse"} <=> read_lock = w
                       /\ pc[w] \in {"send", "abort"} <=> write_lock = w

(* The connection thread goes on only when all the workers have exited. *)
JoinInv == main \in {"finalize", "done"} => \A w \in Workers : pc[w] \in {"off", "exit"}

(* One thread at most is about to shut down the write side, it is the one  *)
(* that killed the connection, and the write side is still open.           *)
Closing(w) == pc[w] \in {"close_wr", "disc_close"}
CloseInv ==
    /\ main # "done" => sockin
    /\ main # "done" /\ ~sockout => status = STATUS_DEAD
    /\ \A w \in Workers : Closing(w) => status = STATUS_DEAD /\ sockout
    /\ \A v, w \in Workers : Closing(v) /\ Closing(w) => v = w

(* A reply has as many chunks as Chunks says, and starts with the first.   *)
PartInv ==
    \A w \in Workers :
        /\ pc[w] = "send" => part[w] <= Chunks(w)
        /\ pc[w] \notin {"send", "loop", "exit", "close_wr", "abort", "off"} => part[w] = 1

(* The end of the wire is the end of a reply, or belongs to the reply that *)
(* is being sent, or nothing can be sent any more.                         *)
Stuck == client = "gone" \/ ~sockout
Between == wire = <<>> \/ wire[Len(wire)].last \/ Stuck
WireInv ==
    /\ RepliesNotInterleaved
    /\ (\A w \in Workers : pc[w] # "send") => Between
    /\ \A w \in Workers : pc[w] = "send" =>
          \/ part[w] = 1 /\ Between
          \/ /\ part[w] > 1 /\ wire # <<>>
             /\ wire[Len(wire)].cookie = msg[w].cookie
             /\ wire[Len(wire)].part + 1 = part[w]
             /\ ~wire[Len(wire)].last

(* The requests accepted so far come before every NBD_CMD_DISC; once one   *)
(* has been read, the connection has stopped taking requests, or its       *)
(* reader still holds read_lock.                                           *)
Accepted == {"perform", "handle", "sleep", "slept", "disc_close", "reply",
             "lock_write", "send"}
BeforeDisc(c) == c <= consumed /\ \A i \in 1..Len(sent) : sent[i] = "DISC" => c < i
StreamInv ==
    /\ consumed <= Len(sent)
    /\ \A w \in Workers :
          /\ pc[w] \in Accepted => BeforeDisc(msg[w].cookie)
          /\ pc[w] = "parse" =>
                \/ msg[w].kind \in {"EOF", "ERROR"}
                \/ msg[w] = [kind |-> sent[consumed], cookie |-> consumed] /\ consumed > 0
    /\ \A c \in executed : BeforeDisc(c)
    /\ \A i \in 1..consumed : sent[i] = "DISC" =>
          \/ status <= STATUS_CLIENT_DONE
          \/ i = consumed /\ \E w \in Workers : pc[w] = "parse" /\ msg[w].kind = "DISC"

IndInv == TypeOK /\ LocksInv /\ JoinInv /\ CloseInv /\ PartInv /\ WireInv /\ StreamInv

-----------------------------------------------------------------------------
(* What connection_set_status (STATUS_DEAD) and (STATUS_SHUTDOWN) do. *)
LEMMA Killing ==
    ASSUME TypeOK
    PROVE  /\ ShouldShutdown(STATUS_DEAD) <=> status # STATUS_DEAD
           /\ LowerStatus(STATUS_DEAD) = STATUS_DEAD
           /\ ~ShouldShutdown(STATUS_SHUTDOWN)
           /\ LowerStatus(STATUS_CLIENT_DONE) <= STATUS_CLIENT_DONE
           /\ \A value \in 0..3 : LowerStatus(value) <= status
  BY DEF TypeOK, ShouldShutdown, LowerStatus

(* The steps that may kill the connection: the one that does becomes the  *)
(* only closer.                                                            *)
LEMMA CloseInv_Kills ==
    ASSUME TypeOK, JoinInv, CloseInv, NEW w \in Workers,
           \/ ParseFatal(w) \/ SendFails(w)
           \/ \E force \in BOOLEAN : nbdkit_disconnect(w, force)
    PROVE  CloseInv'
  <1>. DEFINE Killed(there) == status # STATUS_DEAD /\ status' = STATUS_DEAD
                                /\ pc' = [pc EXCEPT ![w] = there]
              Else(there) == (status = STATUS_DEAD => status' = STATUS_DEAD)
                                /\ pc' = [pc EXCEPT ![w] = there]
  <1>1. pc \in [Workers -> Locations] /\ status \in 0..3
    BY DEF TypeOK
  <1>2. UNCHANGED <<sockin, sockout, main>> /\ pc[w] \in {"parse", "send", "handle"}
    BY DEF ParseFatal, SendFails, CannotSend, Sending, nbdkit_disconnect, socks
  <1>3. main # "done" /\ ~Closing(w)
    BY <1>2 DEF JoinInv, Closing
  <1>4. Killed("close_wr") \/ Killed("disc_close") \/ Else("loop") \/ Else("handle")
    <2>1. CASE ParseFatal(w)
      <3>1. status # STATUS_DEAD
        BY <1>1, <2>1 DEF ParseFatal
      <3>2. status' = STATUS_DEAD
        BY <2>1, Killing DEF ParseFatal, connection_set_status
      <3>3. pc' = [pc EXCEPT ![w] = "close_wr"]
        BY <2>1, <3>1, Killing DEF ParseFatal, ReturnTo
      <3>. QED  BY <3>1, <3>2, <3>3
    <2>2. CASE SendFails(w)
      <3>1. status' = STATUS_DEAD
        BY <2>2, Killing DEF SendFails, connection_set_status
      <3>2. pc' = [pc EXCEPT ![w] = IF status # STATUS_DEAD THEN "close_wr" ELSE "loop"]
        BY <2>2, Killing DEF SendFails, ReturnTo
      <3>. QED  BY <3>1, <3>2
    <2>3. CASE nbdkit_disconnect(w, TRUE)
      <3>1. status # STATUS_DEAD
        BY <1>1, <2>3 DEF nbdkit_disconnect
      <3>2. status' = STATUS_DEAD
        BY <2>3, Killing DEF nbdkit_disconnect, connection_set_status
      <3>3. pc' = [pc EXCEPT ![w] = "disc_close"]
        BY <2>3, <3>1, Killing DEF nbdkit_disconnect
      <3>. QED  BY <3>1, <3>2, <3>3
    <2>4. CASE nbdkit_disconnect(w, FALSE)
      <3>1. status # STATUS_DEAD /\ pc[w] = "handle"
        BY <1>1, <2>4 DEF nbdkit_disconnect
      <3>2. pc' = [pc EXCEPT ![w] = pc[w]]
        BY <2>4, Killing DEF nbdkit_disconnect
      <3>. QED  BY <3>1, <3>2
    <2>. QED  BY <2>1, <2>2, <2>3, <2>4
  <1>5. CASE status = STATUS_DEAD
    BY <1>1, <1>2, <1>3, <1>4, <1>5 DEF CloseInv, Closing
  <1>6. CASE status # STATUS_DEAD
    <2>1. sockin /\ sockout /\ \A v \in Workers : ~Closing(v)
      BY <1>3, <1>6 DEF CloseInv
    <2>. QED  BY <1>1, <1>2, <1>3, <1>4, <2>1 DEF CloseInv, Closing
  <1>. QED  BY <1>5, <1>6

(* A chunk continues the reply at the end of the wire, or starts a new one *)
(* where the wire is between replies.                                      *)
LEMMA WireInv_SendChunk ==
    ASSUME TypeOK, LocksInv, PartInv, WireInv, NEW w \in Workers, SendChunk(w)
    PROVE  WireInv'
  <1>. DEFINE new == [cookie |-> msg[w].cookie, part |-> part[w],
                      last |-> part[w] = Chunks(w), error |-> error[w]]
  <1>1. PICK n \in Nat : n = Len(wire)
    BY DEF TypeOK
  <1>2. /\ wire' = Append(wire, new) /\ sockout /\ client # "gone" /\ pc[w] = "send"
        /\ part' = [part EXCEPT ![w] = part[w] + 1]
        /\ UNCHANGED <<sockout, client, msg>>
    BY DEF SendChunk, Sending, environment, socks
  <1>3. wire \in Seq(Chunk) /\ part \in [Workers -> Nat \ {0}] /\ pc \in [Workers -> Locations]
    BY DEF TypeOK
  <1>4. Len(wire') = n + 1
    BY <1>1, <1>2, <1>3
  <1>5. \A i \in 1..n : wire'[i] = wire[i]
    BY <1>1, <1>2, <1>3
  <1>6. /\ wire'[n + 1].cookie = msg[w].cookie /\ wire'[n + 1].part = part[w]
        /\ wire'[n + 1].last <=> part[w] = Chunks(w)
    <2>1. wire'[n + 1] = new
      BY <1>1, <1>2, <1>3
    <2>2. new.cookie = msg[w].cookie /\ new.part = part[w]
      OBVIOUS
    <2>3. new.last <=> part[w] = Chunks(w)
      BY Zenon
    <2>. QED  BY <2>1, <2>2, <2>3
  <1>7. \/ part[w] = 1 /\ (wire = <<>> \/ wire[n].last)
        \/ /\ part[w] > 1 /\ wire # <<>>
           /\ wire[n].cookie = msg[w].cookie /\ wire[n].part + 1 = part[w] /\ ~wire[n].last
    BY <1>1, <1>2 DEF WireInv, Between, Stuck
  <1>8. n = 0 <=> wire = <<>>
    BY <1>1, <1>3
  <1>9. FollowsWell(n + 1)'
    <2>1. (n + 1) - 1 = n /\ (n + 1 = 1 <=> wire = <<>>) /\ (n + 1 > 1 <=> wire # <<>>)
      BY <1>4, <1>8
    <2>2. wire # <<>> => wire'[n] = wire[n]
      BY <1>4, <1>5, <1>8
    <2>3. CASE part[w] = 1
      BY <1>6, <1>7, <2>1, <2>2, <2>3 DEF FollowsWell
    <2>4. CASE part[w] > 1
      BY <1>6, <1>7, <2>1, <2>2, <2>4 DEF FollowsWell
    <2>. QED  BY <1>7, <2>3, <2>4
  <1>10. \A i \in 1..n : FollowsWell(i)'
    <2>. TAKE i \in 1..n
    <2>1. FollowsWell(i) /\ wire'[i] = wire[i] /\ (i > 1 => wire'[i - 1] = wire[i - 1])
      BY <1>1, <1>5 DEF WireInv, RepliesNotInterleaved
    <2>2. CASE i = 1
      BY <2>1, <2>2 DEF FollowsWell
    <2>3. CASE i > 1
      BY <2>1, <2>3 DEF FollowsWell
    <2>. QED  BY <1>4, <2>2, <2>3
  <1>11. RepliesNotInterleaved'
    <2>1. \A i \in 1..(n + 1) : i \in 1..n \/ i = n + 1
      BY <1>4
    <2>. QED  BY <1>4, <1>9, <1>10, <2>1 DEF RepliesNotInterleaved
  <1>12. \A v \in Workers : pc[v] = "send" => v = w
    BY <1>2 DEF LocksInv
  <1>13. wire' # <<>>
    BY <1>2, <1>3
  <1>14. CASE part[w] = Chunks(w)
    <2>1. pc' = [pc EXCEPT ![w] = "loop"]
      BY <1>14 DEF SendChunk, ReturnTo
    <2>2. \A v \in Workers : pc'[v] # "send"
      BY <1>3, <1>12, <2>1
    <2>3. wire'[Len(wire')].last
      BY <1>4, <1>6, <1>14
    <2>. QED  BY <1>11, <2>2, <2>3 DEF WireInv, Between
  <1>15. CASE part[w] # Chunks(w)
    <2>1. pc' = pc
      BY <1>15 DEF SendChunk
    <2>2. /\ wire'[Len(wire')].cookie = msg'[w].cookie /\ ~wire'[Len(wire')].last
          /\ wire'[Len(wire')].part + 1 = part'[w] /\ part'[w] > 1
      BY <1>2, <1>3, <1>4, <1>6, <1>15
    <2>. QED  BY <1>2, <1>11, <1>12, <1>13, <2>1, <2>2 DEF WireInv
  <1>. QED  BY <1>14, <1>15

(* A step that writes nothing and neither starts nor ends a reply.         *)
WireFrame ==
    /\ UNCHANGED wire /\ (Stuck => Stuck')
    /\ \A v \in Workers :
          /\ pc'[v] = "send" <=> pc[v] = "send"
          /\ pc[v] = "send" => part'[v] = part[v] /\ msg'[v] = msg[v]

LEMMA WireInv_Frame == ASSUME WireInv, WireFrame PROVE WireInv'
  <1>1. wire' = wire
    BY DEF WireFrame
  <1>2. RepliesNotInterleaved'
    BY <1>1 DEF WireInv, RepliesNotInterleaved, FollowsWell
  <1>3. Between => Between'
    BY <1>1 DEF WireFrame, Between
  <1>. QED  BY <1>1, <1>2, <1>3 DEF WireInv, WireFrame

(* The first to take write_lock finds the wire between two replies.         *)
LEMMA WireInv_Lock ==
    ASSUME TypeOK, LocksInv, PartInv, WireInv, NEW w \in Workers, AcquireWriteLock(w)
    PROVE  WireInv'
  <1>1. pc \in [Workers -> Locations]
    BY DEF TypeOK
  <1>2. \A v \in Workers : pc[v] # "send"
    BY WorkersAssumption DEF LocksInv, AcquireWriteLock
  <1>3. /\ UNCHANGED <<wire, client, sockout, part, msg>>
        /\ pc' = [pc EXCEPT ![w] = "send"] /\ part[w] = 1
    BY DEF AcquireWriteLock, PartInv, environment, socks, locals
  <1>4. Between'
    BY <1>2, <1>3 DEF WireInv, Between, Stuck
  <1>5. RepliesNotInterleaved'
    BY <1>3 DEF WireInv, RepliesNotInterleaved, FollowsWell
  <1>6. \A v \in Workers : pc'[v] = "send" => part'[v] = 1
    BY <1>1, <1>2, <1>3
  <1>. QED  BY <1>4, <1>5, <1>6 DEF WireInv

(* After a send that failed nothing can be sent: at the wire's end there is *)
(* a whole reply, or the client is gone, or the write side is shut.         *)
LEMMA WireInv_Unsent ==
    ASSUME TypeOK, LocksInv, PartInv, CloseInv, WireInv, NEW w \in Workers,
           SendFails(w) \/ SendAborts(w)
    PROVE  WireInv'
  <1>1. pc \in [Workers -> Locations] /\ part \in [Workers -> Nat \ {0}]
    BY DEF TypeOK
  <1>2. pc[w] = "send" /\ UNCHANGED <<wire, client, sockout, part, msg>>
    BY DEF SendFails, CannotSend, SendAborts, Sending, environment, socks, locals
  <1>3. PICK there \in {"loop", "close_wr", "abort"} : pc' = [pc EXCEPT ![w] = there]
    BY DEF SendFails, SendAborts, ReturnTo
  <1>4. \A v \in Workers : pc'[v] # "send"
    BY <1>1, <1>2, <1>3 DEF LocksInv
  <1>5. Stuck \/ part[w] = 1
    BY DEF SendFails, CannotSend, SendAborts, Stuck
  <1>6. Between'
    BY <1>1, <1>2, <1>5 DEF WireInv, Between, Stuck
  <1>7. RepliesNotInterleaved'
    BY <1>2 DEF WireInv, RepliesNotInterleaved, FollowsWell
  <1>. QED  BY <1>4, <1>6, <1>7 DEF WireInv

(* What the client sends later does not come before what was accepted.     *)
LEMMA StreamInv_Environment ==
    ASSUME TypeOK, StreamInv, Environment PROVE StreamInv'
  <1>1. /\ consumed \in Nat /\ executed \subseteq Nat /\ sent \in Seq(AllMessages)
        /\ \A w \in Workers : msg[w].cookie \in Nat
    BY DEF TypeOK
  <1>2. Len(sent) \in Nat
    BY <1>1
  <1>3. /\ UNCHANGED <<consumed, pc, msg, executed, status>>
        /\ UNCHANGED sent \/ \E m \in Messages : sent' = Append(sent, m)
    BY DEF Environment, ClientSend, ClientClose, SetQuit, locals, stream
  <1>4. /\ Len(sent') \in Nat /\ Len(sent) <= Len(sent')
        /\ \A i \in 1..Len(sent) : sent'[i] = sent[i]
    BY <1>1, <1>3
  <1>5. \A c \in Nat : BeforeDisc(c) => BeforeDisc(c)'
    <2>. SUFFICES ASSUME NEW c \in Nat, BeforeDisc(c), NEW i \in 1..Len(sent'), sent'[i] = "DISC"
                  PROVE  c <= consumed' /\ c < i
      BY <1>3 DEF BeforeDisc, StreamInv
    <2>1. c <= consumed /\ consumed <= Len(sent) /\ consumed' = consumed
      BY <1>3 DEF BeforeDisc, StreamInv
    <2>2. CASE i \in 1..Len(sent)
      BY <1>4, <2>1, <2>2 DEF BeforeDisc
    <2>3. CASE i > Len(sent)
      BY <1>1, <1>2, <2>1, <2>3
    <2>. QED  BY <1>2, <1>4, <2>2, <2>3
  <1>6. consumed <= Len(sent) /\ consumed <= Len(sent')
    BY <1>1, <1>2, <1>4 DEF StreamInv
  <1>7. \A i \in 1..consumed : sent'[i] = sent[i]
    BY <1>1, <1>2, <1>4, <1>6
  <1>8. ASSUME NEW w \in Workers
        PROVE  /\ pc[w] \in Accepted => BeforeDisc(msg[w].cookie)'
               /\ pc[w] = "parse" =>
                    \/ msg[w].kind \in {"EOF", "ERROR"}
                    \/ msg[w] = [kind |-> sent'[consumed], cookie |-> consumed] /\ consumed > 0
    <2>1. pc[w] \in Accepted => BeforeDisc(msg[w].cookie)'
      BY <1>1, <1>5, <1>3 DEF StreamInv
    <2>2. consumed > 0 => sent'[consumed] = sent[consumed]
      BY <1>1, <1>7
    <2>. QED  BY <2>1, <2>2 DEF StreamInv
  <1>9. \A c \in executed : BeforeDisc(c)'
    BY <1>1, <1>5 DEF StreamInv
  <1>10. \A i \in 1..consumed : sent'[i] = "DISC" =>
            \/ status <= STATUS_CLIENT_DONE
            \/ i = consumed /\ \E w \in Workers : pc[w] = "parse" /\ msg[w].kind = "DISC"
    BY <1>7 DEF StreamInv
  <1>. QED  BY <1>3, <1>6, <1>8, <1>9, <1>10 DEF StreamInv

(* The reader of a message holds read_lock, so no other DISC is at parse.   *)
LEMMA StreamInv_Recv ==
    ASSUME TypeOK, LocksInv, StreamInv, NEW w \in Workers, Recv(w) PROVE StreamInv'
  <1>1. /\ consumed \in Nat /\ executed \subseteq Nat /\ sent \in Seq(AllMessages)
        /\ Len(sent) \in Nat /\ pc \in [Workers -> Locations]
        /\ msg \in [Workers -> [kind : AllMessages \cup {"EOF", "ERROR"}, cookie : Nat]]
    BY DEF TypeOK
  <1>2. /\ UNCHANGED <<sent, status, executed>> /\ pc[w] = "recv"
        /\ pc' = [pc EXCEPT ![w] = "parse"]
    BY DEF Recv, environment
  <1>3. /\ \A v \in Workers \ {w} : pc'[v] = pc[v] /\ pc[v] # "parse" /\ msg'[v] = msg[v]
        /\ pc'[w] = "parse" /\ pc[w] # "parse"
    BY <1>1, <1>2 DEF LocksInv, Recv
  <1>4. CASE UNCHANGED consumed
    <2>1. msg'[w].kind \in {"EOF", "ERROR"}
      BY <1>1, <1>4 DEF Recv, NoMessage
    <2>2. \A c : BeforeDisc(c)' <=> BeforeDisc(c)
      BY <1>2, <1>4 DEF BeforeDisc
    <2>3. \A i \in 1..consumed : sent[i] = "DISC" => status <= STATUS_CLIENT_DONE
      BY <1>2, <1>3 DEF StreamInv
    <2>. QED  BY <1>2, <1>3, <1>4, <2>1, <2>2, <2>3 DEF StreamInv, Accepted
  <1>5. CASE ~UNCHANGED consumed
    <2>1. /\ consumed < Len(sent) /\ consumed' = consumed + 1
          /\ msg'[w] = [kind |-> sent[consumed + 1], cookie |-> consumed + 1]
      BY <1>1, <1>5 DEF Recv
    <2>2. \A c \in Nat : BeforeDisc(c) => BeforeDisc(c)'
      BY <1>1, <1>2, <2>1 DEF BeforeDisc
    <2>3. \A i \in 1..consumed' : sent[i] = "DISC" =>
             \/ status <= STATUS_CLIENT_DONE
             \/ i = consumed' /\ pc'[w] = "parse" /\ msg'[w].kind = "DISC"
      <3>. TAKE i \in 1..consumed'
      <3>1. CASE i \in 1..consumed
        BY <1>2, <1>3, <3>1 DEF StreamInv
      <3>2. CASE i = consumed + 1
        BY <1>3, <2>1, <3>2
      <3>. QED  BY <1>1, <2>1, <3>1, <3>2
    <2>4. ASSUME NEW v \in Workers, pc'[v] \in Accepted PROVE BeforeDisc(msg[v].cookie)'
      <3>1. v # w
        BY <1>3, <2>4 DEF Accepted
      <3>2. BeforeDisc(msg[v].cookie) /\ msg[v].cookie \in Nat
        BY <1>1, <1>3, <2>4, <3>1 DEF StreamInv
      <3>. QED  BY <1>3, <2>2, <3>1, <3>2
    <2>5. \A c \in executed : BeforeDisc(c)'
      BY <1>1, <2>2 DEF StreamInv
    <2>6. consumed' <= Len(sent) /\ consumed' > 0
      BY <1>1, <2>1
    <2>7. \A v \in Workers : pc'[v] = "parse" =>
             msg'[v] = [kind |-> sent'[consumed'], cookie |-> consumed']
      BY <1>2, <1>3, <2>1
    <2>. QED  BY <1>2, <2>3, <2>4, <2>5, <2>6, <2>7 DEF StreamInv
  <1>. QED  BY <1>4, <1>5

(* A step that reads no message and gives none to the plugin.              *)
StreamFrame ==
    /\ UNCHANGED <<sent, consumed, executed>> /\ status' <= status
    /\ \A v \in Workers :
          /\ pc'[v] = "parse" <=> pc[v] = "parse"
          /\ pc'[v] = "parse" => msg'[v] = msg[v]
          /\ pc'[v] \in Accepted => pc[v] \in Accepted /\ msg'[v] = msg[v]

LEMMA StreamInv_Frame == ASSUME TypeOK, TypeOK', StreamInv, StreamFrame PROVE StreamInv'
  <1>1. status \in 0..3 /\ status' \in 0..3
    BY DEF TypeOK
  <1>2. \A c : BeforeDisc(c)' <=> BeforeDisc(c)
    BY DEF StreamFrame, BeforeDisc
  <1>3. \A v \in Workers : pc'[v] \in Accepted => BeforeDisc(msg'[v].cookie)
    BY DEF StreamFrame, StreamInv
  <1>4. \A i \in 1..consumed : sent[i] = "DISC" =>
            \/ status' <= STATUS_CLIENT_DONE
            \/ i = consumed /\ \E w \in Workers : pc'[w] = "parse" /\ msg'[w].kind = "DISC"
    BY <1>1 DEF StreamFrame, StreamInv
  <1>. QED  BY <1>2, <1>3, <1>4 DEF StreamFrame, StreamInv

(* A reader that ends the stream, or finds that it has ended.              *)
LEMMA StreamInv_Ends ==
    ASSUME TypeOK, StreamInv, NEW w \in Workers,
           ParseDropped(w) \/ ParseFatal(w) \/ ParseDisconnect(w)
    PROVE  StreamInv'
  <1>1. status \in 0..3 /\ pc \in [Workers -> Locations]
    BY DEF TypeOK
  <1>2. UNCHANGED <<sent, consumed, msg, executed>>
    BY DEF ParseDropped, ParseFatal, ParseDisconnect, environment, stream, locals
  <1>3. status' <= STATUS_CLIENT_DONE
    <2>1. CASE ParseDropped(w)
      BY <2>1 DEF ParseDropped
    <2>2. CASE ParseFatal(w)
      <3>1. status' = LowerStatus(STATUS_DEAD)
        BY <2>2 DEF ParseFatal, connection_set_status
      <3>. QED  BY <3>1, Killing
    <2>3. CASE ParseDisconnect(w)
      <3>1. status' = LowerStatus(STATUS_CLIENT_DONE)
        BY <2>3 DEF ParseDisconnect, connection_set_status
      <3>. QED  BY <3>1, Killing
    <2>. QED  BY <2>1, <2>2, <2>3
  <1>4. PICK there \in {"loop", "close_wr"} : pc' = [pc EXCEPT ![w] = there]
    BY DEF ParseDropped, ParseFatal, ParseDisconnect, ReturnTo
  <1>5. \A v \in Workers : pc'[v] = pc[v] \/ pc'[v] \notin Accepted \cup {"parse"}
    BY <1>1, <1>4 DEF Accepted
  <1>6. \A c : BeforeDisc(c)' <=> BeforeDisc(c)
    BY <1>2 DEF BeforeDisc
  <1>. QED  BY <1>2, <1>3, <1>5, <1>6 DEF StreamInv

(* A request that is accepted has been read after no NBD_CMD_DISC: the     *)
(* status would have been lowered when that was read.                      *)
LEMMA StreamInv_Accepts ==
    ASSUME TypeOK, LocksInv, StreamInv, NEW w \in Workers, ParseRefused(w) \/ ParseRequest(w)
    PROVE  StreamInv'
  <1>1. /\ consumed \in Nat /\ Len(sent) \in Nat /\ status \in 0..3
        /\ pc \in [Workers -> Locations]
    BY DEF TypeOK
  <1>2. /\ pc[w] = "parse" /\ status > STATUS_CLIENT_DONE
        /\ msg[w].kind \notin {"EOF", "ERROR", "DISC"}
        /\ UNCHANGED <<sent, consumed, status, msg, executed>>
    BY DEF ParseRefused, ParseRequest, environment, stream
  <1>3. PICK there \in {"reply", "perform"} : pc' = [pc EXCEPT ![w] = there]
    BY DEF ParseRefused, ParseRequest
  <1>4. msg[w] = [kind |-> sent[consumed], cookie |-> consumed] /\ consumed > 0
    BY <1>2 DEF StreamInv
  <1>5. \A v \in Workers : pc[v] = "parse" => v = w
    BY <1>2 DEF LocksInv
  <1>6. \A i \in 1..consumed : sent[i] # "DISC"
    BY <1>1, <1>2, <1>5 DEF StreamInv
  <1>7. BeforeDisc(msg[w].cookie)
    <2>1. msg[w].cookie = consumed
      BY <1>4
    <2>. QED  BY <1>1, <1>6, <2>1 DEF BeforeDisc
  <1>8. \A c : BeforeDisc(c)' <=> BeforeDisc(c)
    BY <1>2 DEF BeforeDisc
  <1>9. \A v \in Workers : pc'[v] \in Accepted => BeforeDisc(msg[v].cookie)
    BY <1>1, <1>3, <1>7 DEF StreamInv, Accepted
  <1>10. \A v \in Workers : pc'[v] # "parse"
    BY <1>1, <1>3, <1>5
  <1>. QED  BY <1>2, <1>6, <1>8, <1>9, <1>10 DEF StreamInv

LEMMA StreamInv_Perform ==
    ASSUME TypeOK, StreamInv, NEW w \in Workers, Perform(w) PROVE StreamInv'
  <1>1. pc \in [Workers -> Locations]
    BY DEF TypeOK
  <1>2. pc[w] = "perform" /\ UNCHANGED <<sent, consumed, status, msg>>
    BY DEF Perform, environment, stream
  <1>3. PICK there \in {"reply", "handle"} : pc' = [pc EXCEPT ![w] = there]
    BY DEF Perform
  <1>4. BeforeDisc(msg[w].cookie)
    BY <1>2 DEF StreamInv, Accepted
  <1>5. \A c \in executed' : BeforeDisc(c)
    BY <1>4 DEF Perform, StreamInv
  <1>6. \A c : BeforeDisc(c)' <=> BeforeDisc(c)
    BY <1>2 DEF BeforeDisc
  <1>7. \A v \in Workers : /\ pc'[v] \in Accepted <=> pc[v] \in Accepted
                           /\ pc'[v] = "parse" <=> pc[v] = "parse"
    BY <1>1, <1>2, <1>3 DEF Accepted
  <1>. QED  BY <1>2, <1>5, <1>6, <1>7 DEF StreamInv

(* Every step of the server keeps a lock with the worker that is in its    *)
(* critical section.                                                       *)
LEMMA LocksInv_Step == ASSUME TypeOK, LocksInv, Next PROVE LocksInv'
  <1>. USE WorkersAssumption DEF environment, stream, socks, locals, TypeOK, LocksInv
  <1>1. CASE Environment
    BY <1>1 DEF Environment, ClientSend, ClientClose, SetQuit
  <1>2. ASSUME NEW w \in Workers, CreateWorker(w) PROVE LocksInv'
    BY <1>2 DEF CreateWorker
  <1>3. CASE CreateWorkerFails
    BY <1>3 DEF CreateWorkerFails, connection_set_status, LowerStatus
  <1>4. CASE JoinWorkers \/ FreeConnection
    BY <1>4 DEF JoinWorkers, FreeConnection
  <1>5. ASSUME NEW w \in Workers, WorkerLoop(w) PROVE LocksInv'
    BY <1>5 DEF WorkerLoop
  <1>6. ASSUME NEW w \in Workers, CloseWrite(w) PROVE LocksInv'
    BY <1>6 DEF CloseWrite, close_wr
  <1>7. ASSUME NEW w \in Workers, AcquireReadLock(w) PROVE LocksInv'
    BY <1>7 DEF AcquireReadLock
  <1>8. ASSUME NEW w \in Workers, Recv(w) PROVE LocksInv'
    BY <1>8 DEF Recv
  <1>9. ASSUME NEW w \in Workers, ParseDropped(w) PROVE LocksInv'
    BY <1>9 DEF ParseDropped, ReturnTo
  <1>10. ASSUME NEW w \in Workers, ParseFatal(w) PROVE LocksInv'
    BY <1>10 DEF ParseFatal, ReturnTo, connection_set_status, LowerStatus, ShouldShutdown
  <1>11. ASSUME NEW w \in Workers, ParseDisconnect(w) PROVE LocksInv'
    BY <1>11
       DEF ParseDisconnect, ReturnTo, connection_set_status, LowerStatus, ShouldShutdown
  <1>12. ASSUME NEW w \in Workers, ParseRefused(w) PROVE LocksInv'
    BY <1>12 DEF ParseRefused
  <1>13. ASSUME NEW w \in Workers, ParseRequest(w) PROVE LocksInv'
    BY <1>13 DEF ParseRequest
  <1>14. ASSUME NEW w \in Workers, Perform(w) PROVE LocksInv'
    BY <1>14 DEF Perform
  <1>15. ASSUME NEW w \in Workers, HandleRequest(w) PROVE LocksInv'
    BY <1>15 DEF HandleRequest
  <1>16. ASSUME NEW w \in Workers, SleepAborted(w) PROVE LocksInv'
    BY <1>16 DEF SleepAborted
  <1>17. ASSUME NEW w \in Workers, CheckReply(w) PROVE LocksInv'
    BY <1>17 DEF CheckReply
  <1>18. ASSUME NEW w \in Workers, AcquireWriteLock(w) PROVE LocksInv'
    BY <1>18 DEF AcquireWriteLock
  <1>19. ASSUME NEW w \in Workers, SendChunk(w) PROVE LocksInv'
    BY <1>19 DEF SendChunk, Sending, ReturnTo
  <1>20. ASSUME NEW w \in Workers, SendFails(w) PROVE LocksInv'
    BY <1>20 DEF SendFails, CannotSend, Sending, ReturnTo, connection_set_status,
       LowerStatus, ShouldShutdown
  <1>21. ASSUME NEW w \in Workers, SendAborts(w) PROVE LocksInv'
    BY <1>21 DEF SendAborts, Sending
  <1>22. ASSUME NEW w \in Workers, nbdkit_nanosleep(w) PROVE LocksInv'
    BY <1>22 DEF nbdkit_nanosleep
  <1>23. ASSUME NEW w \in Workers, SleepExpires(w) PROVE LocksInv'
    BY <1>23 DEF SleepExpires
  <1>24. ASSUME NEW w \in Workers, NEW force \in BOOLEAN, nbdkit_disconnect(w, force) PROVE LocksInv'
    BY <1>24 DEF nbdkit_disconnect, connection_set_status, LowerStatus, ShouldShutdown
  <1>. HIDE DEF TypeOK, LocksInv
  <1>. QED
    BY <1>1, <1>2, <1>3, <1>4, <1>5, <1>6, <1>7, <1>8, <1>9, <1>10, <1>11,
       <1>12, <1>13, <1>14, <1>15, <1>16, <1>17, <1>18, <1>19, <1>20, <1>21,
       <1>22, <1>23, <1>24
    DEF Next, MainStep, WorkerStep, ServeStep, PluginCall

(* No worker runs again after the connection thread has joined them.       *)
LEMMA JoinInv_Step == ASSUME TypeOK, JoinInv, Next PROVE JoinInv'
  <1>. USE DEF environment, stream, socks, locals, TypeOK, JoinInv
  <1>1. CASE Environment
    BY <1>1 DEF Environment, ClientSend, ClientClose, SetQuit
  <1>2. ASSUME NEW w \in Workers, CreateWorker(w) PROVE JoinInv'
    BY <1>2 DEF CreateWorker
  <1>3. CASE CreateWorkerFails
    BY <1>3 DEF CreateWorkerFails, connection_set_status, LowerStatus
  <1>4. CASE JoinWorkers \/ FreeConnection
    BY <1>4 DEF JoinWorkers, FreeConnection
  <1>5. ASSUME NEW w \in Workers, WorkerLoop(w) PROVE JoinInv'
    BY <1>5 DEF WorkerLoop
  <1>6. ASSUME NEW w \in Workers, CloseWrite(w) PROVE JoinInv'
    BY <1>6 DEF CloseWrite, close_wr
  <1>7. ASSUME NEW w \in Workers, AcquireReadLock(w) PROVE JoinInv'
    BY <1>7 DEF AcquireReadLock
  <1>8. ASSUME NEW w \in Workers, Recv(w) PROVE JoinInv'
    BY <1>8 DEF Recv
  <1>9. ASSUME NEW w \in Workers, ParseDropped(w) PROVE JoinInv'
    BY <1>9 DEF ParseDropped, ReturnTo
  <1>10. ASSUME NEW w \in Workers, ParseFatal(w) PROVE JoinInv'
    BY <1>10 DEF ParseFatal, ReturnTo, connection_set_status, LowerStatus, ShouldShutdown
  <1>11. ASSUME NEW w \in Workers, ParseDisconnect(w) PROVE JoinInv'
    BY <1>11
       DEF ParseDisconnect, ReturnTo, connection_set_status, LowerStatus, ShouldShutdown
  <1>12. ASSUME NEW w \in Workers, ParseRefused(w) PROVE JoinInv'
    BY <1>12 DEF ParseRefused
  <1>13. ASSUME NEW w \in Workers, ParseRequest(w) PROVE JoinInv'
    BY <1>13 DEF ParseRequest
  <1>14. ASSUME NEW w \in Workers, Perform(w) PROVE JoinInv'
    BY <1>14 DEF Perform
  <1>15. ASSUME NEW w \in Workers, HandleRequest(w) PROVE JoinInv'
    BY <1>15 DEF HandleRequest
  <1>16. ASSUME NEW w \in Workers, SleepAborted(w) PROVE JoinInv'
    BY <1>16 DEF SleepAborted
  <1>17. ASSUME NEW w \in Workers, CheckReply(w) PROVE JoinInv'
    BY <1>17 DEF CheckReply
  <1>18. ASSUME NEW w \in Workers, AcquireWriteLock(w) PROVE JoinInv'
    BY <1>18 DEF AcquireWriteLock
  <1>19. ASSUME NEW w \in Workers, SendChunk(w) PROVE JoinInv'
    BY <1>19 DEF SendChunk, Sending, ReturnTo
  <1>20. ASSUME NEW w \in Workers, SendFails(w) PROVE JoinInv'
    BY <1>20 DEF SendFails, CannotSend, Sending, ReturnTo, connection_set_status,
       LowerStatus, ShouldShutdown
  <1>21. ASSUME NEW w \in Workers, SendAborts(w) PROVE JoinInv'
    BY <1>21 DEF SendAborts, Sending
  <1>22. ASSUME NEW w \in Workers, nbdkit_nanosleep(w) PROVE JoinInv'
    BY <1>22 DEF nbdkit_nanosleep
  <1>23. ASSUME NEW w \in Workers, SleepExpires(w) PROVE JoinInv'
    BY <1>23 DEF SleepExpires
  <1>24. ASSUME NEW w \in Workers, NEW force \in BOOLEAN, nbdkit_disconnect(w, force) PROVE JoinInv'
    BY <1>24 DEF nbdkit_disconnect, connection_set_status, LowerStatus, ShouldShutdown
  <1>. HIDE DEF TypeOK, JoinInv
  <1>. QED
    BY <1>1, <1>2, <1>3, <1>4, <1>5, <1>6, <1>7, <1>8, <1>9, <1>10, <1>11,
       <1>12, <1>13, <1>14, <1>15, <1>16, <1>17, <1>18, <1>19, <1>20, <1>21,
       <1>22, <1>23, <1>24
    DEF Next, MainStep, WorkerStep, ServeStep, PluginCall

(* The write side is shut down once, by the thread that killed the         *)
(* connection.                                                             *)
LEMMA CloseInv_Step == ASSUME TypeOK, CloseInv, JoinInv, Next PROVE CloseInv'
  <1>. USE DEF environment, stream, socks, locals, TypeOK, JoinInv, CloseInv, Closing
  <1>1. CASE Environment
    BY <1>1 DEF Environment, ClientSend, ClientClose, SetQuit
  <1>2. ASSUME NEW w \in Workers, CreateWorker(w) PROVE CloseInv'
    BY <1>2 DEF CreateWorker
  <1>3. CASE CreateWorkerFails
    BY <1>3 DEF CreateWorkerFails, connection_set_status, LowerStatus
  <1>4. CASE JoinWorkers \/ FreeConnection
    BY <1>4 DEF JoinWorkers, FreeConnection
  <1>5. ASSUME NEW w \in Workers, WorkerLoop(w) PROVE CloseInv'
    BY <1>5 DEF WorkerLoop
  <1>6. ASSUME NEW w \in Workers, CloseWrite(w) PROVE CloseInv'
    BY <1>6 DEF CloseWrite, close_wr
  <1>7. ASSUME NEW w \in Workers, AcquireReadLock(w) PROVE CloseInv'
    BY <1>7 DEF AcquireReadLock
  <1>8. ASSUME NEW w \in Workers, Recv(w) PROVE CloseInv'
    BY <1>8 DEF Recv
  <1>9. ASSUME NEW w \in Workers, ParseDropped(w) PROVE CloseInv'
    BY <1>9 DEF ParseDropped, ReturnTo
  <1>10. ASSUME NEW w \in Workers, ParseFatal(w) PROVE CloseInv'
    <2>. HIDE DEF TypeOK, JoinInv, CloseInv, Closing
    <2>. QED  BY <1>10, CloseInv_Kills
  <1>11. ASSUME NEW w \in Workers, ParseDisconnect(w) PROVE CloseInv'
    BY <1>11
       DEF ParseDisconnect, ReturnTo, connection_set_status, LowerStatus, ShouldShutdown
  <1>12. ASSUME NEW w \in Workers, ParseRefused(w) PROVE CloseInv'
    BY <1>12 DEF ParseRefused
  <1>13. ASSUME NEW w \in Workers, ParseRequest(w) PROVE CloseInv'
    BY <1>13 DEF ParseRequest
  <1>14. ASSUME NEW w \in Workers, Perform(w) PROVE CloseInv'
    BY <1>14 DEF Perform
  <1>15. ASSUME NEW w \in Workers, HandleRequest(w) PROVE CloseInv'
    BY <1>15 DEF HandleRequest
  <1>16. ASSUME NEW w \in Workers, SleepAborted(w) PROVE CloseInv'
    BY <1>16 DEF SleepAborted
  <1>17. ASSUME NEW w \in Workers, CheckReply(w) PROVE CloseInv'
    BY <1>17 DEF CheckReply
  <1>18. ASSUME NEW w \in Workers, AcquireWriteLock(w) PROVE CloseInv'
    BY <1>18 DEF AcquireWriteLock
  <1>19. ASSUME NEW w \in Workers, SendChunk(w) PROVE CloseInv'
    BY <1>19 DEF SendChunk, Sending, ReturnTo
  <1>20. ASSUME NEW w \in Workers, SendFails(w) PROVE CloseInv'
    <2>. HIDE DEF TypeOK, JoinInv, CloseInv, Closing
    <2>. QED  BY <1>20, CloseInv_Kills
  <1>21. ASSUME NEW w \in Workers, SendAborts(w) PROVE CloseInv'
    BY <1>21 DEF SendAborts, Sending
  <1>22. ASSUME NEW w \in Workers, nbdkit_nanosleep(w) PROVE CloseInv'
    BY <1>22 DEF nbdkit_nanosleep
  <1>23. ASSUME NEW w \in Workers, SleepExpires(w) PROVE CloseInv'
    BY <1>23 DEF SleepExpires
  <1>24. ASSUME NEW w \in Workers, NEW force \in BOOLEAN, nbdkit_disconnect(w, force) PROVE CloseInv'
    <2>. HIDE DEF TypeOK, JoinInv, CloseInv, Closing
    <2>. QED  BY <1>24, CloseInv_Kills
  <1>. HIDE DEF TypeOK, JoinInv, CloseInv, Closing
  <1>. QED
    BY <1>1, <1>2, <1>3, <1>4, <1>5, <1>6, <1>7, <1>8, <1>9, <1>10, <1>11,
       <1>12, <1>13, <1>14, <1>15, <1>16, <1>17, <1>18, <1>19, <1>20, <1>21,
       <1>22, <1>23, <1>24
    DEF Next, MainStep, WorkerStep, ServeStep, PluginCall

(* A worker counts the chunks of its reply from the first to the last.     *)
LEMMA PartInv_Step == ASSUME TypeOK, PartInv, Next PROVE PartInv'
  <1>. USE DEF environment, stream, socks, locals, TypeOK, PartInv, Chunks
  <1>1. CASE Environment
    BY <1>1 DEF Environment, ClientSend, ClientClose, SetQuit
  <1>2. ASSUME NEW w \in Workers, CreateWorker(w) PROVE PartInv'
    BY <1>2 DEF CreateWorker
  <1>3. CASE CreateWorkerFails
    BY <1>3 DEF CreateWorkerFails, connection_set_status, LowerStatus
  <1>4. CASE JoinWorkers \/ FreeConnection
    BY <1>4 DEF JoinWorkers, FreeConnection
  <1>5. ASSUME NEW w \in Workers, WorkerLoop(w) PROVE PartInv'
    BY <1>5 DEF WorkerLoop
  <1>6. ASSUME NEW w \in Workers, CloseWrite(w) PROVE PartInv'
    BY <1>6 DEF CloseWrite, close_wr
  <1>7. ASSUME NEW w \in Workers, AcquireReadLock(w) PROVE PartInv'
    BY <1>7 DEF AcquireReadLock
  <1>8. ASSUME NEW w \in Workers, Recv(w) PROVE PartInv'
    BY <1>8 DEF Recv
  <1>9. ASSUME NEW w \in Workers, ParseDropped(w) PROVE PartInv'
    BY <1>9 DEF ParseDropped, ReturnTo
  <1>10. ASSUME NEW w \in Workers, ParseFatal(w) PROVE PartInv'
    BY <1>10 DEF ParseFatal, ReturnTo, connection_set_status, LowerStatus, ShouldShutdown
  <1>11. ASSUME NEW w \in Workers, ParseDisconnect(w) PROVE PartInv'
    BY <1>11
       DEF ParseDisconnect, ReturnTo, connection_set_status, LowerStatus, ShouldShutdown
  <1>12. ASSUME NEW w \in Workers, ParseRefused(w) PROVE PartInv'
    BY <1>12 DEF ParseRefused
  <1>13. ASSUME NEW w \in Workers, ParseRequest(w) PROVE PartInv'
    BY <1>13 DEF ParseRequest
  <1>14. ASSUME NEW w \in Workers, Perform(w) PROVE PartInv'
    BY <1>14 DEF Perform
  <1>15. ASSUME NEW w \in Workers, HandleRequest(w) PROVE PartInv'
    BY <1>15 DEF HandleRequest
  <1>16. ASSUME NEW w \in Workers, SleepAborted(w) PROVE PartInv'
    BY <1>16 DEF SleepAborted
  <1>17. ASSUME NEW w \in Workers, CheckReply(w) PROVE PartInv'
    BY <1>17 DEF CheckReply
  <1>18. ASSUME NEW w \in Workers, AcquireWriteLock(w) PROVE PartInv'
    BY <1>18 DEF AcquireWriteLock
  <1>19. ASSUME NEW w \in Workers, SendChunk(w) PROVE PartInv'
    BY <1>19 DEF SendChunk, Sending, ReturnTo
  <1>20. ASSUME NEW w \in Workers, SendFails(w) PROVE PartInv'
    BY <1>20 DEF SendFails, CannotSend, Sending, ReturnTo, connection_set_status,
       LowerStatus, ShouldShutdown
  <1>21. ASSUME NEW w \in Workers, SendAborts(w) PROVE PartInv'
    BY <1>21 DEF SendAborts, Sending
  <1>22. ASSUME NEW w \in Workers, nbdkit_nanosleep(w) PROVE PartInv'
    BY <1>22 DEF nbdkit_nanosleep
  <1>23. ASSUME NEW w \in Workers, SleepExpires(w) PROVE PartInv'
    BY <1>23 DEF SleepExpires
  <1>24. ASSUME NEW w \in Workers, NEW force \in BOOLEAN, nbdkit_disconnect(w, force) PROVE PartInv'
    BY <1>24 DEF nbdkit_disconnect, connection_set_status, LowerStatus, ShouldShutdown
  <1>. HIDE DEF TypeOK, PartInv, Chunks
  <1>. QED
    BY <1>1, <1>2, <1>3, <1>4, <1>5, <1>6, <1>7, <1>8, <1>9, <1>10, <1>11,
       <1>12, <1>13, <1>14, <1>15, <1>16, <1>17, <1>18, <1>19, <1>20, <1>21,
       <1>22, <1>23, <1>24
    DEF Next, MainStep, WorkerStep, ServeStep, PluginCall

(* A worker interrupts no reply of another one.                            *)
LEMMA WireInv_Step == ASSUME TypeOK, LocksInv, PartInv, CloseInv, WireInv, Next PROVE WireInv'
  <1>. USE DEF environment, stream, socks, locals
  <1>0. pc \in [Workers -> Locations] /\ status \in 0..3
    BY DEF TypeOK
  <1>1. ASSUME Environment PROVE WireFrame
    <2>1. UNCHANGED <<wire, pc, part, msg, sockout>>
      BY <1>1 DEF Environment, ClientSend, ClientClose, SetQuit
    <2>2. client = "gone" => client' = "gone"
      BY <1>1 DEF Environment, ClientSend, ClientClose, SetQuit, Cut
    <2>. QED  BY <2>1, <2>2 DEF WireFrame, Stuck
  <1>2. ASSUME NEW w \in Workers, CreateWorker(w) PROVE WireFrame
    BY <1>0, <1>2 DEF CreateWorker, WireFrame, Stuck
  <1>3. ASSUME CreateWorkerFails PROVE WireFrame
    BY <1>0, <1>3, Killing DEF CreateWorkerFails, connection_set_status, WireFrame, Stuck
  <1>4. ASSUME JoinWorkers \/ FreeConnection PROVE WireFrame
    BY <1>0, <1>4 DEF JoinWorkers, FreeConnection, WireFrame, Stuck
  <1>5. ASSUME NEW w \in Workers, WorkerLoop(w) PROVE WireFrame
    BY <1>0, <1>5 DEF WorkerLoop, WireFrame, Stuck
  <1>6. ASSUME NEW w \in Workers, CloseWrite(w) PROVE WireFrame
    BY <1>0, <1>6 DEF CloseWrite, close_wr, WireFrame, Stuck
  <1>7. ASSUME NEW w \in Workers, AcquireReadLock(w) PROVE WireFrame
    BY <1>0, <1>7 DEF AcquireReadLock, WireFrame, Stuck
  <1>8. ASSUME NEW w \in Workers, Recv(w) PROVE WireFrame
    <2>1. \A v \in Workers \ {w} : msg'[v] = msg[v]
      BY <1>8 DEF TypeOK, Recv
    <2>. QED  BY <1>0, <1>8, <2>1 DEF Recv, WireFrame, Stuck
  <1>9. ASSUME NEW w \in Workers, ParseDropped(w) PROVE WireFrame
    BY <1>0, <1>9 DEF ParseDropped, ReturnTo, WireFrame, Stuck
  <1>10. ASSUME NEW w \in Workers, ParseFatal(w) PROVE WireFrame
    BY <1>0, <1>10, Killing
       DEF ParseFatal, ReturnTo, connection_set_status, WireFrame, Stuck
  <1>11. ASSUME NEW w \in Workers, ParseDisconnect(w) PROVE WireFrame
    BY <1>0, <1>11, Killing
       DEF ParseDisconnect, ReturnTo, connection_set_status, WireFrame, Stuck
  <1>12. ASSUME NEW w \in Workers, ParseRefused(w) PROVE WireFrame
    BY <1>0, <1>12 DEF ParseRefused, WireFrame, Stuck
  <1>13. ASSUME NEW w \in Workers, ParseRequest(w) PROVE WireFrame
    BY <1>0, <1>13 DEF ParseRequest, WireFrame, Stuck
  <1>14. ASSUME NEW w \in Workers, Perform(w) PROVE WireFrame
    BY <1>0, <1>14 DEF Perform, WireFrame, Stuck
  <1>15. ASSUME NEW w \in Workers, HandleRequest(w) PROVE WireFrame
    BY <1>0, <1>15 DEF HandleRequest, WireFrame, Stuck
  <1>16. ASSUME NEW w \in Workers, SleepAborted(w) PROVE WireFrame
    BY <1>0, <1>16 DEF SleepAborted, WireFrame, Stuck
  <1>17. ASSUME NEW w \in Workers, CheckReply(w) PROVE WireFrame
    BY <1>0, <1>17 DEF CheckReply, WireFrame, Stuck
  <1>18. ASSUME NEW w \in Workers, AcquireWriteLock(w) PROVE WireInv'
    BY <1>18, WireInv_Lock
  <1>19. ASSUME NEW w \in Workers, SendChunk(w) PROVE WireInv'
    BY <1>19, WireInv_SendChunk
  <1>20. ASSUME NEW w \in Workers, SendFails(w) PROVE WireInv'
    BY <1>20, WireInv_Unsent
  <1>21. ASSUME NEW w \in Workers, SendAborts(w) PROVE WireInv'
    BY <1>21, WireInv_Unsent
  <1>22. ASSUME NEW w \in Workers, nbdkit_nanosleep(w) PROVE WireFrame
    BY <1>0, <1>22 DEF nbdkit_nanosleep, WireFrame, Stuck
  <1>23. ASSUME NEW w \in Workers, SleepExpires(w) PROVE WireFrame
    BY <1>0, <1>23 DEF SleepExpires, WireFrame, Stuck
  <1>24. ASSUME NEW w \in Workers, NEW force \in BOOLEAN, nbdkit_disconnect(w, force) PROVE WireFrame
    BY <1>0, <1>24, Killing DEF nbdkit_disconnect, connection_set_status, WireFrame, Stuck
  <1>. QED
    BY WireInv_Frame, <1>1, <1>2, <1>3, <1>4, <1>5, <1>6, <1>7, <1>8, <1>9,
       <1>10, <1>11, <1>12, <1>13, <1>14, <1>15, <1>16, <1>17, <1>18, <1>19,
       <1>20, <1>21, <1>22, <1>23, <1>24
    DEF Next, MainStep, WorkerStep, ServeStep, PluginCall

(* A NBD_CMD_DISC ends the requests that are accepted.                     *)
LEMMA StreamInv_Step == ASSUME TypeOK, TypeOK', LocksInv, StreamInv, Next PROVE StreamInv'
  <1>. USE DEF environment, stream, socks, locals
  <1>0. pc \in [Workers -> Locations] /\ status \in 0..3
    BY DEF TypeOK
  <1>1. ASSUME Environment PROVE StreamInv'
    BY <1>1, StreamInv_Environment
  <1>2. ASSUME NEW w \in Workers, CreateWorker(w) PROVE StreamFrame
    BY <1>0, <1>2 DEF CreateWorker, StreamFrame, Accepted
  <1>3. ASSUME CreateWorkerFails PROVE StreamFrame
    BY <1>0, <1>3, Killing
       DEF CreateWorkerFails, connection_set_status, StreamFrame, Accepted
  <1>4. ASSUME JoinWorkers \/ FreeConnection PROVE StreamFrame
    BY <1>0, <1>4 DEF JoinWorkers, FreeConnection, StreamFrame, Accepted
  <1>5. ASSUME NEW w \in Workers, WorkerLoop(w) PROVE StreamFrame
    BY <1>0, <1>5 DEF WorkerLoop, StreamFrame, Accepted
  <1>6. ASSUME NEW w \in Workers, CloseWrite(w) PROVE StreamFrame
    BY <1>0, <1>6 DEF CloseWrite, close_wr, StreamFrame, Accepted
  <1>7. ASSUME NEW w \in Workers, AcquireReadLock(w) PROVE StreamFrame
    BY <1>0, <1>7 DEF AcquireReadLock, StreamFrame, Accepted
  <1>8. ASSUME NEW w \in Workers, Recv(w) PROVE StreamInv'
    BY <1>8, StreamInv_Recv
  <1>9. ASSUME NEW w \in Workers, ParseDropped(w) PROVE StreamInv'
    BY <1>9, StreamInv_Ends
  <1>10. ASSUME NEW w \in Workers, ParseFatal(w) PROVE StreamInv'
    BY <1>10, StreamInv_Ends
  <1>11. ASSUME NEW w \in Workers, ParseDisconnect(w) PROVE StreamInv'
    BY <1>11, StreamInv_Ends
  <1>12. ASSUME NEW w \in Workers, ParseRefused(w) PROVE StreamInv'
    BY <1>12, StreamInv_Accepts
  <1>13. ASSUME NEW w \in Workers, ParseRequest(w) PROVE StreamInv'
    BY <1>13, StreamInv_Accepts
  <1>14. ASSUME NEW w \in Workers, Perform(w) PROVE StreamInv'
    BY <1>14, StreamInv_Perform
  <1>15. ASSUME NEW w \in Workers, HandleRequest(w) PROVE StreamFrame
    BY <1>0, <1>15 DEF HandleRequest, StreamFrame, Accepted
  <1>16. ASSUME NEW w \in Workers, SleepAborted(w) PROVE StreamFrame
    BY <1>0, <1>16 DEF SleepAborted, StreamFrame, Accepted
  <1>17. ASSUME NEW w \in Workers, CheckReply(w) PROVE StreamFrame
    BY <1>0, <1>17 DEF CheckReply, StreamFrame, Accepted
  <1>18. ASSUME NEW w \in Workers, AcquireWriteLock(w) PROVE StreamFrame
    BY <1>0, <1>18 DEF AcquireWriteLock, StreamFrame, Accepted
  <1>19. ASSUME NEW w \in Workers, SendChunk(w) PROVE StreamFrame
    BY <1>0, <1>19 DEF SendChunk, Sending, ReturnTo, StreamFrame, Accepted
  <1>20. ASSUME NEW w \in Workers, SendFails(w) PROVE StreamFrame
    <2>1. status' <= status
      <3>1. status' = LowerStatus(STATUS_DEAD)
        BY <1>20 DEF SendFails, connection_set_status
      <3>. QED  BY <3>1, Killing
    <2>2. PICK there \in {"loop", "close_wr"} : pc' = [pc EXCEPT ![w] = there]
      BY <1>20 DEF SendFails, ReturnTo
    <2>. QED  BY <1>0, <1>20, <2>1, <2>2 DEF SendFails, CannotSend, Sending, StreamFrame, Accepted
  <1>21. ASSUME NEW w \in Workers, SendAborts(w) PROVE StreamFrame
    BY <1>0, <1>21 DEF SendAborts, Sending, StreamFrame, Accepted
  <1>22. ASSUME NEW w \in Workers, nbdkit_nanosleep(w) PROVE StreamFrame
    BY <1>0, <1>22 DEF nbdkit_nanosleep, StreamFrame, Accepted
  <1>23. ASSUME NEW w \in Workers, SleepExpires(w) PROVE StreamFrame
    BY <1>0, <1>23 DEF SleepExpires, StreamFrame, Accepted
  <1>24. ASSUME NEW w \in Workers, NEW force \in BOOLEAN, nbdkit_disconnect(w, force) PROVE StreamFrame
    BY <1>0, <1>24, Killing
       DEF nbdkit_disconnect, connection_set_status, StreamFrame, Accepted
  <1>. QED
    BY StreamInv_Frame, <1>1, <1>2, <1>3, <1>4, <1>5, <1>6, <1>7, <1>8, <1>9,
       <1>10, <1>11, <1>12, <1>13, <1>14, <1>15, <1>16, <1>17, <1>18, <1>19,
       <1>20, <1>21, <1>22, <1>23, <1>24
    DEF Next, MainStep, WorkerStep, ServeStep, PluginCall

-----------------------------------------------------------------------------
LEMMA IndInv_Init == Init => IndInv
  <1>. SUFFICES ASSUME Init PROVE IndInv
    OBVIOUS
  <1>1. TypeOK
    BY TypeOK_Init
  <1>2. LocksInv /\ JoinInv /\ PartInv /\ StreamInv
    BY WorkersAssumption DEF Init, LocksInv, JoinInv, PartInv, StreamInv, Accepted
  <1>3. CloseInv
    BY DEF Init, CloseInv, Closing
  <1>4. WireInv
    BY DEF Init, WireInv, Between, RepliesNotInterleaved
  <1>. QED  BY <1>1, <1>2, <1>3, <1>4 DEF IndInv

(* The conjunction is inductive. *)
THEOREM Inductive == Spec => []IndInv
  <1>1. ASSUME IndInv, [Next]_vars PROVE IndInv'
    <2>1. CASE Next
      <3>1. TypeOK'
        BY <1>1, <2>1, TypeOK_Environment, TypeOK_Main, TypeOK_Serve, TypeOK_Plugin
        DEF IndInv, Next, WorkerStep
      <3>. QED
        BY <1>1, <2>1, <3>1, LocksInv_Step, JoinInv_Step, CloseInv_Step, PartInv_Step,
           WireInv_Step, StreamInv_Step DEF IndInv
    <2>2. CASE UNCHANGED vars
      <3>. USE <1>1, <2>2 DEF vars, IndInv
      <3>1. TypeOK'
        BY DEF TypeOK
      <3>2. LocksInv' /\ JoinInv' /\ CloseInv' /\ PartInv'
        BY DEF LocksInv, JoinInv, CloseInv, Closing, PartInv, Chunks
      <3>3. WireInv'
        BY DEF WireInv, Between, Stuck, RepliesNotInterleaved, FollowsWell
      <3>4. StreamInv'
        BY DEF StreamInv, BeforeDisc
      <3>. QED  BY <3>1, <3>2, <3>3, <3>4
    <2>. QED  BY <1>1, <2>1, <2>2
  <1>. QED  BY <1>1, IndInv_Init, PTL DEF Spec

(* For any number of workers, any stream and every transport, close        *)
(* (SHUT_WR) never closes sockin while the connection is in use.           *)
THEOREM CloseOnce == Spec => []SockinOpenForWorkers
  <1>1. IndInv => SockinOpenForWorkers
    BY DEF IndInv, CloseInv, SockinOpenForWorkers
  <1>. QED  BY <1>1, Inductive, PTL

(* For any number of workers, the replies are never interleaved on the     *)
(* wire, and nothing follows a reply that was cut short.                   *)
THEOREM WholeReplies == Spec => []RepliesNotInterleaved
  <1>1. IndInv => RepliesNotInterleaved
    BY DEF IndInv, WireInv
  <1>. QED  BY <1>1, Inductive, PTL

(* For any number of workers, no request after NBD_CMD_DISC reaches the    *)
(* plugin.                                                                 *)
THEOREM DiscEndsStream == Spec => []NothingAfterDisc
  <1>1. IndInv => NothingAfterDisc
    BY DEF IndInv, StreamInv, BeforeDisc, NothingAfterDisc
  <1>. QED  BY <1>1, Inductive, PTL
=============================================================================
