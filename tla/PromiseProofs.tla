----------------------------- MODULE PromiseProofs -----------------------------
(***************************************************************************)
(* The workers of a connection implement module Replies, and a connection  *)
(* that ends without dying has answered what it took.                      *)
(***************************************************************************)
EXTENDS ConnectionProofs

USE DEF STATUS_DEAD, STATUS_CLIENT_DONE, STATUS_SHUTDOWN, STATUS_ACTIVE

-----------------------------------------------------------------------------
(* The worker has accepted a request and has not finished with it.         *)
Held == Accepted \cup {"abort"}
Taken(w) == pc[w] \in Held

Nothing == {"EOF", "ERROR"}
Fresh(c) ==
    /\ \A v \in Workers : Taken(v) => msg[v].cookie # c
    /\ \A i \in 1..Len(wire) : wire[i].last => wire[i].cookie # c

(* Two workers never hold the same request, none holds one that has been   *)
(* answered, and the message that is being parsed is new.                  *)
FlightInv ==
    /\ \A w \in Workers : Taken(w) =>
          /\ msg[w].cookie \in 1..consumed
          /\ \A v \in Workers \ {w} : Taken(v) => msg[v].cookie # msg[w].cookie
          /\ \A i \in 1..Len(wire) : wire[i].last => wire[i].cookie # msg[w].cookie
    /\ \A i \in 1..Len(wire) : wire[i].cookie \in 1..consumed
    /\ \A w \in Workers : pc[w] = "parse" /\ msg[w].kind \notin Nothing => Fresh(consumed)

(* The abstract pending requests are the cookies of the workers' requests. *)
LEMMA InFlightIs ==
    ASSUME TypeOK
    PROVE  \A c : c \in InFlight <=> \E w \in Workers : Taken(w) /\ c = msg[w].cookie
BY DEF TypeOK, InFlight, Taken, Held, Accepted, Locations

LEMMA InFlightWillBe ==
    ASSUME TypeOK'
    PROVE  \A c : c \in InFlight' <=> \E w \in Workers : pc'[w] \in Held /\ c = msg'[w].cookie
BY DEF TypeOK, InFlight, Held, Accepted, Locations

-----------------------------------------------------------------------------
(* A step that neither takes a message, nor accepts, answers or drops a    *)
(* request; it may kill the connection.                                    *)
Same(v) ==
    /\ pc'[v] \in Held <=> Taken(v)
    /\ Taken(v) => msg'[v].cookie = msg[v].cookie
Parsed(v) ==
    pc'[v] = "parse" => msg'[v].kind \in Nothing \/ (pc[v] = "parse" /\ msg'[v] = msg[v])
Quiet ==
    /\ UNCHANGED <<consumed, wire>>
    /\ \A v \in Workers : Same(v) /\ Parsed(v)
    /\ status = STATUS_DEAD => status' = STATUS_DEAD

LEMMA Quiet_Step ==
    ASSUME TypeOK, TypeOK', FlightInv, Quiet
    PROVE  FlightInv' /\ (UNCHANGED Promise!vars \/ Promise!Die)
<1> USE DEF Quiet, Same, Parsed, Taken
<1>1. FlightInv'
  <2>1. \A c : Fresh(c) => Fresh(c)'
    BY DEF Fresh
  <2>2. ASSUME NEW v \in Workers, pc'[v] = "parse", msg'[v].kind \notin Nothing
        PROVE  Fresh(consumed)'
    BY <2>1, <2>2 DEF FlightInv
  <2> QED BY <2>2 DEF FlightInv
<1>2. InFlight' = InFlight
  BY InFlightIs, InFlightWillBe
<1>3. Answered' = Answered
  BY DEF Answered
<1> QED BY <1>1, <1>2, <1>3 DEF Promise!vars, Promise!Die

(* A worker gives up its request on a connection that is dead then.        *)
LEMMA Drop_Step ==
    ASSUME TypeOK, TypeOK', FlightInv, NEW w \in Workers,
           UNCHANGED <<consumed, wire>>, status' = STATUS_DEAD,
           Taken(w), pc'[w] \notin Held \cup {"parse"},
           \A v \in Workers \ {w} : Same(v) /\ Parsed(v)
    PROVE  FlightInv' /\ Promise!Drop
<1> USE DEF Same, Parsed, Taken
<1>1. FlightInv'
  BY DEF FlightInv, Fresh
<1>2. msg[w].cookie \in InFlight
  BY InFlightIs
<1>3. InFlight' = InFlight \ {msg[w].cookie}
  <2>1. \A v \in Workers : pc'[v] \in Held <=> Taken(v) /\ v # w
    OBVIOUS
  <2>2. \A v \in Workers \ {w} : Taken(v) =>
           msg'[v].cookie = msg[v].cookie /\ msg[v].cookie # msg[w].cookie
    BY DEF FlightInv
  <2> HIDE DEF Same, Parsed, Taken
  <2> QED BY <2>1, <2>2, InFlightIs, InFlightWillBe
<1>4. Answered' = Answered
  BY DEF Answered
<1> QED BY <1>1, <1>2, <1>3, <1>4 DEF Promise!Drop

-----------------------------------------------------------------------------
(* conn->recv takes the next message: its position is new.                 *)
LEMMA Take_Step ==
    ASSUME TypeOK, TypeOK', FlightInv, NEW w \in Workers, Recv(w), consumed' = consumed + 1
    PROVE  FlightInv' /\ Promise!Take
<1>1. /\ pc \in [Workers -> Locations] /\ consumed \in Nat /\ wire \in Seq(Chunk)
      /\ \A v \in Workers : msg[v].cookie \in Nat
  BY DEF TypeOK
<1>2. UNCHANGED <<wire, status>> /\ pc[w] = "recv" /\ pc' = [pc EXCEPT ![w] = "parse"]
  BY DEF Recv
<1>3. \A v \in Workers \ {w} : msg'[v] = msg[v]
  BY DEF Recv, TypeOK
<1>4. \A v \in Workers : Same(v)
  BY <1>1, <1>2, <1>3 DEF Same, Taken, Held, Accepted
<1>5. FlightInv'
  BY <1>1, <1>2, <1>4 DEF FlightInv, Fresh, Same, Taken
<1>6. InFlight' = InFlight
  BY <1>4, InFlightIs, InFlightWillBe DEF Same, Taken
<1>7. Answered' = Answered
  BY <1>2 DEF Answered
<1> QED BY <1>2, <1>5, <1>6, <1>7 DEF Promise!Take

(* A request that is accepted, to be performed or refused, is the last one *)
(* taken, and nobody has it.                                               *)
LEMMA Accept_Step ==
    ASSUME IndInv, TypeOK', FlightInv, NEW w \in Workers, ParseRefused(w) \/ ParseRequest(w)
    PROVE  FlightInv' /\ Promise!Accept
<1> DEFINE c == consumed
<1>1. /\ pc \in [Workers -> Locations] /\ consumed \in Nat
      /\ status \in STATUS_DEAD..STATUS_ACTIVE
  BY DEF IndInv, TypeOK
<1>2. PICK there \in {"reply", "perform"} : pc' = [pc EXCEPT ![w] = there]
  BY DEF ParseRefused, ParseRequest
<1>3. /\ UNCHANGED <<consumed, wire, msg, status>> /\ pc[w] = "parse"
      /\ status > STATUS_CLIENT_DONE /\ msg[w].kind \notin Nothing
  BY DEF ParseRefused, ParseRequest, stream, environment, Nothing
<1>4. msg[w].cookie = c /\ c > 0
  BY <1>3 DEF IndInv, StreamInv, Nothing
<1>5. Fresh(c) /\ ~Taken(w)
  BY <1>3 DEF FlightInv, Taken, Held, Accepted
<1>6. \A v \in Workers \ {w} : pc[v] # "parse" /\ pc'[v] = pc[v]
  BY <1>1, <1>2, <1>3 DEF IndInv, LocksInv
<1>7. pc'[w] \in Held \ {"parse"}
  BY <1>1, <1>2 DEF Held, Accepted
<1> HIDE DEF c
<1>8. FlightInv'
  BY <1>1, <1>3, <1>4, <1>5, <1>6, <1>7 DEF FlightInv, Fresh, Taken, c
<1>9. c \notin InFlight /\ InFlight' = InFlight \cup {c}
  BY <1>3, <1>4, <1>5, <1>6, <1>7, InFlightIs, InFlightWillBe DEF Fresh, Taken, IndInv
<1>10. Answered' = Answered /\ \A a \in Answered : a[2] # c
  BY <1>3, <1>5 DEF Answered, Fresh
<1> QED BY <1>1, <1>3, <1>4, <1>8, <1>9, <1>10 DEF Promise!Accept, c

(* A chunk that is not the last of its reply answers nothing yet; the last *)
(* one is the answer to the request of its sender.                         *)
LEMMA Send_Step ==
    ASSUME IndInv, TypeOK', FlightInv, NEW w \in Workers, SendChunk(w)
    PROVE  FlightInv' /\ (UNCHANGED Promise!vars \/ Promise!Answer)
<1> DEFINE c == msg[w].cookie
           n == Len(wire) + 1
           done == part[w] = Chunks(w)
           chunk == [cookie |-> c, part |-> part[w], last |-> done, error |-> error[w]]
<1>1. /\ pc \in [Workers -> Locations] /\ consumed \in Nat /\ wire \in Seq(Chunk)
  BY DEF IndInv, TypeOK
<1>2. /\ UNCHANGED <<consumed, msg, status>> /\ pc[w] = "send"
      /\ wire' = Append(wire, chunk)
      /\ pc' = IF done THEN [pc EXCEPT ![w] = "loop"] ELSE pc
  BY DEF SendChunk, Sending, ReturnTo, stream, environment
<1>3. /\ Len(wire') = n /\ n \in Nat /\ wire'[n].cookie = c /\ (wire'[n].last <=> done)
      /\ \A i \in 1..Len(wire) : wire'[i] = wire[i]
  <2>1. chunk.cookie = c /\ (chunk.last <=> done)
    BY Zenon
  <2> HIDE DEF c, done, chunk
  <2> QED BY <1>1, <1>2, <2>1
<1>4. 1..Len(wire') = 1..Len(wire) \cup {n} /\ n \notin 1..Len(wire)
  <2>1. Len(wire) \in Nat /\ Len(wire') = Len(wire) + 1
    BY <1>1, <1>3
  <2> QED BY <2>1
<1>5. Taken(w) /\ c \in 1..consumed
  BY <1>2 DEF FlightInv, Taken, Held, Accepted
<1>6. \A v \in Workers \ {w} : pc'[v] = pc[v] /\ (Taken(v) => msg[v].cookie # c)
  BY <1>1, <1>2, <1>5 DEF FlightInv
<1>7. \A v \in Workers : pc'[v] = "parse" /\ msg[v].kind \notin Nothing =>
         v # w /\ Fresh(consumed) /\ c # consumed
  BY <1>1, <1>2, <1>5 DEF FlightInv, Fresh
<1>8. CASE done
  <2>1. pc'[w] \notin Held
    BY <1>1, <1>2, <1>8 DEF Held, Accepted
  <2>2. FlightInv'
    <3> HIDE DEF c, n, done, chunk
    <3>1. \A i \in 1..Len(wire') : wire'[i].cookie \in 1..consumed
      BY <1>3, <1>4, <1>5 DEF FlightInv
    <3>2. ASSUME NEW d, Fresh(d), d # c PROVE Fresh(d)'
      <4>1. \A v \in Workers : pc'[v] \in Held => msg'[v].cookie # d
        BY <1>2, <1>6, <2>1, <3>2 DEF Fresh, Taken
      <4>2. \A i \in 1..Len(wire') : wire'[i].last => wire'[i].cookie # d
        BY <1>3, <1>4, <3>2 DEF Fresh
      <4> QED BY <4>1, <4>2 DEF Fresh, Taken
    <3>3. ASSUME NEW v \in Workers, pc'[v] \in Held
          PROVE  \A i \in 1..Len(wire') : wire'[i].last => wire'[i].cookie # msg[v].cookie
      BY <1>3, <1>4, <1>6, <2>1, <3>3 DEF FlightInv, Taken
    <3>4. ASSUME NEW v \in Workers, pc'[v] \in Held
          PROVE  /\ msg[v].cookie \in 1..consumed
                 /\ \A u \in Workers \ {v} : pc'[u] \in Held => msg[u].cookie # msg[v].cookie
      BY <1>6, <2>1, <3>4 DEF FlightInv, Taken
    <3> QED BY <1>2, <1>7, <3>1, <3>2, <3>3, <3>4 DEF FlightInv, Taken
  <2>3. c \in InFlight /\ InFlight' = InFlight \ {c}
    BY <1>2, <1>5, <1>6, <2>1, InFlightIs, InFlightWillBe DEF Taken, IndInv
  <2>4. Answered' = Answered \cup {<<n, c>>}
    <3> HIDE DEF n, c, done
    <3>1. {j \in 1..Len(wire') : wire'[j].last} = {j \in 1..Len(wire) : wire[j].last} \cup {n}
      BY <1>3, <1>8, <1>4
    <3> QED BY <1>3, <1>4, <3>1 DEF Answered
  <2>5. \A b \in Answered : b[1] < n
    BY <1>1 DEF Answered
  <2> HIDE DEF c, n
  <2>6. Promise!Answer
    BY <1>2, <2>3, <2>4, <2>5 DEF Promise!Answer
  <2> QED BY <2>2, <2>6
<1>9. CASE ~done
  <2>1. UNCHANGED <<pc, msg, consumed, status>>
    BY <1>2, <1>9
  <2>2. FlightInv'
    <3> HIDE DEF n, c, done
    <3>1. \A i \in 1..Len(wire') : /\ wire'[i].cookie \in 1..consumed
                                   /\ wire'[i].last => i \in 1..Len(wire) /\ wire[i].last
      BY <1>3, <1>5, <1>9, <1>4 DEF FlightInv
    <3>2. \A d : Fresh(d) => Fresh(d)'
      BY <1>3, <1>4, <2>1, <3>1 DEF Fresh, Taken
    <3> QED BY <1>3, <1>4, <2>1, <3>1, <3>2 DEF FlightInv, Taken
  <2>3. InFlight' = InFlight
    BY <2>1 DEF InFlight
  <2>4. Answered' = Answered
    <3> HIDE DEF n, c, done
    <3>1. {j \in 1..Len(wire') : wire'[j].last} = {j \in 1..Len(wire) : wire[j].last}
      BY <1>3, <1>9, <1>4
    <3> QED BY <1>3, <3>1 DEF Answered
  <2> QED BY <2>1, <2>2, <2>3, <2>4 DEF Promise!vars
<1> QED BY <1>8, <1>9

(* A reply that cannot be sent, or that is not sent because the connection *)
(* has died, is dropped.                                                   *)
LEMMA Lost_Step ==
    ASSUME IndInv, TypeOK', FlightInv, NEW w \in Workers,
           SendFails(w) \/ (CheckReply(w) /\ status < STATUS_CLIENT_DONE)
    PROVE  FlightInv' /\ Promise!Drop
<1>1. TypeOK /\ pc \in [Workers -> Locations] /\ status \in STATUS_DEAD..STATUS_ACTIVE
  BY DEF IndInv, TypeOK
<1>2. UNCHANGED <<consumed, wire, msg>> /\ pc[w] \in {"send", "reply"}
  BY DEF SendFails, CannotSend, Sending, CheckReply, stream, locals
<1>3. PICK there \in {"loop", "close_wr"} : pc' = [pc EXCEPT ![w] = there]
  BY DEF SendFails, CheckReply, ReturnTo
<1>4. status' = STATUS_DEAD
  BY <1>1, Killing DEF SendFails, CheckReply, connection_set_status
<1>5. Taken(w) /\ pc'[w] \notin Held \cup {"parse"}
  BY <1>1, <1>2, <1>3 DEF Taken, Held, Accepted
<1>6. \A v \in Workers \ {w} : Same(v) /\ Parsed(v)
  BY <1>1, <1>2, <1>3 DEF Same, Parsed, Taken
<1> QED BY <1>1, <1>2, <1>4, <1>5, <1>6, Drop_Step

-----------------------------------------------------------------------------
(* Every other step is a step of the promise that changes nothing, or the  *)
(* death of the connection.                                                *)
LEMMA Quiet_Environment == ASSUME TypeOK, Environment PROVE Quiet
BY DEF Quiet, Same, Parsed, Taken, Environment, ClientSend, ClientClose, SetQuit, stream,
   locals

LEMMA Quiet_Main == ASSUME TypeOK, MainStep PROVE Quiet
<1> USE DEF Quiet, Same, Parsed, Taken, stream, locals
<1>1. pc \in [Workers -> Locations] /\ status \in STATUS_DEAD..STATUS_ACTIVE
  BY DEF TypeOK
<1>2. ASSUME NEW w \in Workers, CreateWorker(w) PROVE Quiet
  BY <1>1, <1>2 DEF CreateWorker, Held, Accepted
<1>3. ASSUME CreateWorkerFails PROVE Quiet
  BY <1>3, Killing DEF CreateWorkerFails, connection_set_status
<1>4. ASSUME JoinWorkers \/ FreeConnection PROVE Quiet
  BY <1>4 DEF JoinWorkers, FreeConnection
<1> QED BY <1>2, <1>3, <1>4 DEF MainStep

LEMMA Quiet_Plugin == ASSUME TypeOK, NEW w \in Workers, PluginCall(w) PROVE Quiet
<1> USE DEF Quiet, Same, Parsed, Taken, stream, locals, Held, Accepted
<1>1. pc \in [Workers -> Locations] /\ status \in STATUS_DEAD..STATUS_ACTIVE
  BY DEF TypeOK
<1>2. ASSUME nbdkit_nanosleep(w) \/ SleepExpires(w) PROVE Quiet
  BY <1>1, <1>2 DEF nbdkit_nanosleep, SleepExpires
<1>3. ASSUME NEW force \in BOOLEAN, nbdkit_disconnect(w, force) PROVE Quiet
  <2>1. PICK there \in {"disc_close", "handle"} : pc' = [pc EXCEPT ![w] = there]
    BY <1>1, <1>3 DEF nbdkit_disconnect
  <2>2. UNCHANGED <<consumed, wire, msg>> /\ pc[w] = "handle" /\ status' <= status
        /\ status' \in Nat
    BY <1>1, <1>3, Killing DEF nbdkit_disconnect, connection_set_status, LowerStatus
  <2> QED BY <1>1, <2>1, <2>2
<1> QED BY <1>2, <1>3 DEF PluginCall

LEMMA Quiet_Worker ==
    ASSUME TypeOK, TypeOK', NEW w \in Workers,
           \/ WorkerLoop(w) \/ CloseWrite(w) \/ AcquireReadLock(w)
           \/ ParseDropped(w) \/ ParseFatal(w) \/ ParseDisconnect(w)
           \/ Perform(w) \/ HandleRequest(w) \/ SleepAborted(w)
           \/ (CheckReply(w) /\ status >= STATUS_CLIENT_DONE)
           \/ AcquireWriteLock(w) \/ SendAborts(w)
    PROVE  Quiet
<1> USE DEF stream, locals, environment
<1>1. pc \in [Workers -> Locations] /\ status \in STATUS_DEAD..STATUS_ACTIVE
  BY DEF TypeOK
<1>2. UNCHANGED <<consumed, wire>> /\ status' <= status /\ status' \in STATUS_DEAD..STATUS_ACTIVE
  <2>1. ASSUME ParseFatal(w) \/ ParseDisconnect(w) PROVE status' <= status
    <3>1. PICK value \in {STATUS_DEAD, STATUS_CLIENT_DONE} : status' = LowerStatus(value)
      BY <2>1 DEF ParseFatal, ParseDisconnect, connection_set_status
    <3> QED BY <1>1, <3>1 DEF LowerStatus
  <2>2. status' \in STATUS_DEAD..STATUS_ACTIVE
    BY DEF TypeOK
  <2>3. CASE ParseFatal(w) \/ ParseDisconnect(w)
    BY <2>1, <2>2, <2>3 DEF ParseFatal, ParseDisconnect
  <2>4. CASE ~(ParseFatal(w) \/ ParseDisconnect(w))
    <3>1. UNCHANGED <<consumed, wire, status>>
      BY <2>4 DEF WorkerLoop, CloseWrite, AcquireReadLock, ParseDropped, Perform,
          HandleRequest, SleepAborted, CheckReply, AcquireWriteLock, SendAborts
    <3> QED BY <1>1, <3>1
  <2> QED BY <2>3, <2>4
<1>3. pc[w] \in Held => msg'[w] = msg[w]
  BY DEF WorkerLoop, CloseWrite, AcquireReadLock, ParseDropped, ParseFatal, ParseDisconnect,
        Perform, HandleRequest, SleepAborted, CheckReply, AcquireWriteLock, SendAborts, Held,
        Accepted
<1>4. \A v \in Workers \ {w} : msg'[v] = msg[v] /\ pc'[v] = pc[v]
  BY DEF TypeOK, WorkerLoop, CloseWrite, AcquireReadLock, ParseDropped, ParseFatal,
        ParseDisconnect, Perform, HandleRequest, SleepAborted, CheckReply, AcquireWriteLock,
        SendAborts, ReturnTo
<1>5. pc'[w] # "parse" /\ (pc'[w] \in Held <=> pc[w] \in Held)
  <2> USE <1>1 DEF Held, Accepted
  <2>1. CASE WorkerLoop(w) \/ AcquireReadLock(w)
    BY <2>1 DEF WorkerLoop, AcquireReadLock
  <2>2. CASE CloseWrite(w)
    BY <2>2 DEF CloseWrite
  <2>3. CASE ParseDropped(w) \/ ParseFatal(w) \/ ParseDisconnect(w)
    BY <2>3 DEF ParseDropped, ParseFatal, ParseDisconnect, ReturnTo
  <2>4. CASE Perform(w) \/ HandleRequest(w) \/ SleepAborted(w)
    BY <2>4 DEF Perform, HandleRequest, SleepAborted
  <2>5. CASE CheckReply(w) /\ status >= STATUS_CLIENT_DONE
    BY <2>5 DEF CheckReply
  <2>6. CASE AcquireWriteLock(w) \/ SendAborts(w)
    BY <2>6 DEF AcquireWriteLock, SendAborts, Sending
  <2> QED BY <2>1, <2>2, <2>3, <2>4, <2>5, <2>6
<1>6. \A v \in Workers : Same(v) /\ Parsed(v)
  BY <1>3, <1>4, <1>5 DEF Same, Parsed, Taken
<1>7. status = STATUS_DEAD => status' = STATUS_DEAD
  BY <1>1, <1>2
<1> QED BY <1>2, <1>6, <1>7 DEF Quiet

(* conn->recv that finds the end of the stream, or fails.                  *)
LEMMA Quiet_Recv ==
    ASSUME TypeOK, NEW w \in Workers, Recv(w), consumed' # consumed + 1 PROVE Quiet
<1>1. PICK m \in {NoMessage, [kind |-> "ERROR", cookie |-> 0]} : msg' = [msg EXCEPT ![w] = m]
  BY DEF Recv
<1>2. pc \in [Workers -> Locations] /\ msg'[w] = m
      /\ \A v \in Workers \ {w} : msg'[v] = msg[v]
  BY <1>1 DEF TypeOK
<1>3. m.kind \in Nothing
  BY DEF NoMessage, Nothing
<1>4. UNCHANGED <<consumed, wire, status>> /\ pc[w] = "recv"
      /\ pc' = [pc EXCEPT ![w] = "parse"]
  BY DEF Recv
<1>5. \A v \in Workers : Same(v) /\ Parsed(v)
  BY <1>2, <1>3, <1>4 DEF Same, Parsed, Taken, Held, Accepted
<1> QED BY <1>4, <1>5 DEF Quiet

-----------------------------------------------------------------------------
(* One step of the connection is one step of the promise, or none.         *)
LEMMA Next_Promise ==
    ASSUME IndInv, TypeOK', FlightInv, [Next]_vars
    PROVE  FlightInv' /\ [Promise!Next]_Promise!vars
<1>1. TypeOK
  BY DEF IndInv
<1>2. ASSUME Quiet PROVE FlightInv' /\ [Promise!Next]_Promise!vars
  BY <1>1, <1>2, Quiet_Step DEF Promise!Next
<1>3. CASE UNCHANGED vars
  <2>1. Quiet
    BY <1>3 DEF vars, Quiet, Same, Parsed, Taken
  <2> QED BY <1>2, <2>1
<1>4. CASE Environment \/ MainStep \/ \E w \in Workers : PluginCall(w)
  BY <1>1, <1>2, <1>4, Quiet_Environment, Quiet_Main, Quiet_Plugin
<1>5. ASSUME NEW w \in Workers, ServeStep(w)
      PROVE  FlightInv' /\ [Promise!Next]_Promise!vars
  <2>1. CASE Recv(w)
    BY <1>1, <1>2, <2>1, Take_Step, Quiet_Recv DEF Promise!Next
  <2>2. CASE ParseRefused(w) \/ ParseRequest(w)
    BY <2>2, Accept_Step DEF Promise!Next
  <2>3. CASE SendChunk(w)
    BY <2>3, Send_Step DEF Promise!Next
  <2>4. CASE SendFails(w) \/ (CheckReply(w) /\ status < STATUS_CLIENT_DONE)
    BY <2>4, Lost_Step DEF Promise!Next
  <2>5. CASE \/ WorkerLoop(w) \/ CloseWrite(w) \/ AcquireReadLock(w)
             \/ ParseDropped(w) \/ ParseFatal(w) \/ ParseDisconnect(w)
             \/ Perform(w) \/ HandleRequest(w) \/ SleepAborted(w)
             \/ (CheckReply(w) /\ status >= STATUS_CLIENT_DONE)
             \/ AcquireWriteLock(w) \/ SendAborts(w)
    BY <1>1, <1>2, <2>5, Quiet_Worker
  <2>6. status < STATUS_CLIENT_DONE \/ status >= STATUS_CLIENT_DONE
    BY <1>1 DEF TypeOK
  <2> QED BY <1>5, <2>1, <2>2, <2>3, <2>4, <2>5, <2>6 DEF ServeStep
<1> QED BY <1>3, <1>4, <1>5 DEF Next, WorkerStep

(* KeepsPromise for any number of workers, any stream and every transport: *)
(* the threads, locks and chunks of protocol_recv_request_send_reply       *)
(* answer every request at most once and with a whole reply, and let one   *)
(* go without an answer only when the connection is dead.                  *)
THEOREM PromiseKept == Spec => KeepsPromise
<1>1. Init => Promise!Init /\ FlightInv
  <2> SUFFICES ASSUME Init PROVE Promise!Init /\ FlightInv
    OBVIOUS
  <2>1. TypeOK
    BY TypeOK_Init
  <2>2. InFlight = {}
    BY <2>1, InFlightIs DEF Init, Taken, Held, Accepted
  <2>3. Answered = {}
    BY DEF Init, Answered
  <2>4. FlightInv
    BY DEF Init, FlightInv, Fresh, Taken, Held, Accepted
  <2> QED BY <2>2, <2>3, <2>4 DEF Init, Promise!Init
<1>2. IndInv /\ IndInv' /\ FlightInv /\ [Next]_vars =>
          FlightInv' /\ [Promise!Next]_Promise!vars
  BY Next_Promise DEF IndInv
<1>3. Spec => []IndInv
  BY Inductive
<1> QED BY <1>1, <1>2, <1>3, PTL DEF Spec, KeepsPromise, Promise!Spec

-----------------------------------------------------------------------------
(* GracefulEnd.  A request that is taken is answered or with a worker, as  *)
(* long as the connection is not dead; what is dropped came after a        *)
(* disconnection; and when the connection thread frees the connection no   *)
(* worker holds anything.                                                  *)

(* While the connection has not died, every request that was taken before  *)
(* an NBD_CMD_DISC is answered or with a worker.  It has stopped taking    *)
(* requests only for an NBD_CMD_DISC, or because the client has closed and *)
(* everything it sent was taken.                                           *)
Busy(w) == Taken(w) \/ (pc[w] = "parse" /\ msg[w].kind \notin Nothing)
Replied(i) == \E k \in 1..Len(wire) : wire[k].cookie = i /\ wire[k].last
Owed(i) == sent[i] \in Requests /\ \A j \in 1..i : sent[j] # "DISC"
Looked(i) == Replied(i) \/ \E w \in Workers : Busy(w) /\ msg[w].cookie = i
Ended ==
    \/ \E j \in 1..consumed : sent[j] = "DISC"
    \/ /\ consumed = Len(sent) /\ client # "open"
       /\ \A w \in Workers : pc[w] = "parse" => msg[w].kind \in Nothing
GraceInv ==
    /\ status >= STATUS_CLIENT_DONE => \A i \in 1..consumed : Owed(i) => Looked(i)
    /\ status = STATUS_CLIENT_DONE => Ended
    /\ \A w \in Workers : pc[w] = "parse" /\ msg[w].kind = "EOF" =>
          consumed = Len(sent) /\ client # "open"

(* Of a connection that is dead nothing is asked.                          *)
LEMMA Grace_Dead ==
    ASSUME GraceInv, status' = STATUS_DEAD, UNCHANGED <<sent, client, consumed>>,
           \A v \in Workers : pc'[v] = "parse" => pc[v] = "parse" /\ msg'[v] = msg[v]
    PROVE  GraceInv'
BY DEF GraceInv

(* A step that leaves the message that is being parsed where it is.        *)
Kept(v) == /\ pc[v] = "parse" <=> pc'[v] = "parse"
           /\ pc[v] = "parse" => msg'[v] = msg[v]
LEMMA Grace_Frame ==
    ASSUME TypeOK, TypeOK', GraceInv, Quiet, UNCHANGED sent,
           client # "open" => client' # "open",
           status' = status \/ (status' = STATUS_SHUTDOWN /\ status > STATUS_SHUTDOWN),
           \A v \in Workers : Kept(v)
    PROVE  GraceInv'
<1>1. \A v \in Workers : Busy(v) => Busy(v)' /\ msg'[v].cookie = msg[v].cookie
  BY DEF Quiet, Same, Kept, Busy, Taken
<1>2. \A i : Looked(i) => Looked(i)'
  BY <1>1 DEF Looked, Replied, Quiet
<1>3. Ended => Ended'
  BY DEF Ended, Quiet, Kept
<1>4. \A i : Owed(i)' <=> Owed(i)
  BY DEF Owed
<1>5. consumed' = consumed /\ status \in 0..3
  BY DEF Quiet, TypeOK
<1>6. /\ status' >= STATUS_CLIENT_DONE => status >= STATUS_CLIENT_DONE
      /\ status' = STATUS_CLIENT_DONE => status = STATUS_CLIENT_DONE
  BY <1>5
<1> QED BY <1>2, <1>3, <1>4, <1>5, <1>6 DEF GraceInv, Kept

(* The client sends one more message, closes, or quit is set.              *)
LEMMA Grace_Environment ==
    ASSUME IndInv, TypeOK', GraceInv, Environment PROVE GraceInv'
<1>1. TypeOK /\ consumed <= Len(sent) /\ Len(sent) \in Nat /\ consumed \in Nat
  <2>1. TypeOK /\ StreamInv
    BY DEF IndInv
  <2>2. sent \in Seq(AllMessages) /\ consumed \in Nat
    BY <2>1 DEF TypeOK
  <2> QED BY <2>1, <2>2 DEF StreamInv
<1>2. ASSUME NEW m \in Messages, ClientSend(m) PROVE GraceInv'
  <2>1. client = "open" /\ sent' = Append(sent, m) /\ sent \in Seq(AllMessages)
        /\ UNCHANGED <<consumed, wire, pc, msg, status>>
    BY <1>2 DEF ClientSend, TypeOK, IndInv, stream, locals
  <2>2. \A j \in 1..consumed : sent'[j] = sent[j]
    BY <1>1, <2>1
  <2>3. \A i \in 1..consumed : Owed(i)' => Owed(i)
    BY <1>1, <2>2 DEF Owed
  <2>4. \A i : Looked(i) => Looked(i)'
    BY <2>1 DEF Looked, Replied, Busy, Taken
  <2>5. Ended => Ended'
    BY <2>1, <2>2 DEF Ended
  <2> QED BY <2>1, <2>3, <2>4, <2>5 DEF GraceInv
<1>3. ASSUME UNCHANGED <<sent, status, pc, msg>>, client # "open" => client' # "open"
      PROVE  GraceInv'
  <2>1. Quiet
    BY <1>1, Quiet_Environment
  <2> QED BY <1>1, <1>3, <2>1, Grace_Frame DEF Kept
<1>4. ASSUME NEW how \in {"closed", "gone"}, ClientClose(how) PROVE GraceInv'
  BY <1>3, <1>4 DEF ClientClose, locals
<1>5. ASSUME SetQuit PROVE GraceInv'
  BY <1>3, <1>5 DEF SetQuit, locals
<1> QED BY <1>2, <1>4, <1>5 DEF Environment

LEMMA Grace_Main == ASSUME TypeOK, TypeOK', GraceInv, MainStep PROVE GraceInv'
<1>1. Quiet
  BY Quiet_Main
<1>2. ASSUME NEW w \in Workers, CreateWorker(w) PROVE GraceInv'
  BY <1>1, <1>2, Grace_Frame DEF CreateWorker, environment, locals, Kept, TypeOK
<1>3. ASSUME JoinWorkers \/ FreeConnection PROVE GraceInv'
  BY <1>1, <1>3, Grace_Frame DEF JoinWorkers, FreeConnection, environment, locals, Kept
<1>4. ASSUME CreateWorkerFails PROVE GraceInv'
  BY <1>4, Killing, Grace_Dead DEF CreateWorkerFails, connection_set_status, environment,
       locals, stream
<1> QED BY <1>2, <1>3, <1>4 DEF MainStep

LEMMA Grace_Plugin ==
    ASSUME TypeOK, TypeOK', GraceInv, NEW w \in Workers, PluginCall(w) PROVE GraceInv'
<1>1. Quiet /\ pc \in [Workers -> Locations]
  BY Quiet_Plugin DEF TypeOK
<1>2. ASSUME nbdkit_nanosleep(w) \/ SleepExpires(w) PROVE GraceInv'
  BY <1>1, <1>2, Grace_Frame DEF nbdkit_nanosleep, SleepExpires, environment, locals, Kept
<1>3. ASSUME NEW force \in BOOLEAN, nbdkit_disconnect(w, force) PROVE GraceInv'
  <2>1. UNCHANGED <<sent, client, consumed, msg>> /\ pc[w] = "handle" /\ pc'[w] # "parse"
        /\ \A v \in Workers \ {w} : pc'[v] = pc[v]
    BY <1>1, <1>3 DEF nbdkit_disconnect, environment, locals, stream
  <2>2. \/ status' = STATUS_DEAD
        \/ status' = STATUS_SHUTDOWN /\ status > STATUS_SHUTDOWN
    BY <1>3 DEF nbdkit_disconnect, connection_set_status, LowerStatus, TypeOK
  <2> QED BY <1>1, <2>1, <2>2, Grace_Dead, Grace_Frame DEF Kept
<1> QED BY <1>2, <1>3 DEF PluginCall

(* The steps of a worker that neither read nor parse nor send.             *)
LEMMA Grace_Worker ==
    ASSUME TypeOK, TypeOK', GraceInv, NEW w \in Workers,
           \/ WorkerLoop(w) \/ CloseWrite(w) \/ AcquireReadLock(w)
           \/ Perform(w) \/ HandleRequest(w) \/ SleepAborted(w)
           \/ (CheckReply(w) /\ status >= STATUS_CLIENT_DONE)
           \/ AcquireWriteLock(w) \/ SendAborts(w)
    PROVE  GraceInv'
<1>1. Quiet
  BY Quiet_Worker
<1>2. UNCHANGED <<sent, client, status>> /\ pc[w] # "parse"
  BY DEF WorkerLoop, CloseWrite, AcquireReadLock, Perform, HandleRequest, SleepAborted,
         CheckReply, AcquireWriteLock, SendAborts, Sending, environment
<1>3. pc'[w] # "parse" /\ \A v \in Workers \ {w} : msg'[v] = msg[v] /\ pc'[v] = pc[v]
  BY DEF TypeOK, WorkerLoop, CloseWrite, AcquireReadLock, Perform, HandleRequest,
         SleepAborted, CheckReply, AcquireWriteLock, SendAborts, locals
<1> QED BY <1>1, <1>2, <1>3, Grace_Frame DEF Kept

(* conn->recv: a message that is taken is with the worker that took it.    *)
LEMMA Grace_Recv ==
    ASSUME IndInv, TypeOK', FlightInv, GraceInv, NEW w \in Workers, Recv(w) PROVE GraceInv'
<1>1. TypeOK /\ pc \in [Workers -> Locations] /\ consumed \in Nat
      /\ msg \in [Workers -> [kind : AllMessages \cup Nothing, cookie : Nat]]
      /\ sent \in Seq(AllMessages)
  BY DEF IndInv, TypeOK, Nothing
<1>2. UNCHANGED <<sent, client, status, wire>> /\ pc[w] = "recv"
      /\ pc' = [pc EXCEPT ![w] = "parse"]
  BY DEF Recv, environment
<1>3. \A v \in Workers \ {w} : msg'[v] = msg[v] /\ pc'[v] = pc[v] /\ pc[v] # "parse"
  BY <1>1, <1>2 DEF Recv, IndInv, LocksInv
<1>9. \A i : Looked(i) => Looked(i)'
  <2>1. \A v \in Workers : Busy(v) => v # w
    BY <1>2 DEF Busy, Taken, Held, Accepted
  <2>2. \A v \in Workers : Busy(v) => Busy(v)' /\ msg'[v] = msg[v]
    BY <1>3, <2>1 DEF Busy, Taken
  <2>3. \A i : Replied(i) => Replied(i)'
    BY <1>2 DEF Replied
  <2> QED BY <2>2, <2>3 DEF Looked
<1>4. CASE consumed' # consumed + 1
  <2>1. consumed' = consumed
        /\ (\/ msg'[w] = NoMessage /\ consumed = Len(sent) /\ client # "open"
            \/ msg'[w] = [kind |-> "ERROR", cookie |-> 0])
    BY <1>1, <1>4 DEF Recv
  <2>2. msg'[w].kind \in Nothing /\ (msg'[w].kind = "EOF" => consumed = Len(sent) /\ client # "open")
    BY <2>1 DEF NoMessage, Nothing
  <2>3. Ended => Ended'
    BY <1>2, <1>3, <2>1, <2>2 DEF Ended
  <2>4. \A i : Owed(i)' <=> Owed(i)
    BY <1>2 DEF Owed
  <2> QED BY <1>2, <1>3, <1>9, <2>1, <2>2, <2>3, <2>4 DEF GraceInv
<1>5. CASE consumed' = consumed + 1
  <2>1. consumed < Len(sent) /\ msg'[w] = [kind |-> sent[consumed'], cookie |-> consumed']
    <3>1. consumed' # consumed
      BY <1>1, <1>5
    <3>2. /\ consumed < Len(sent)
          /\ msg' = [msg EXCEPT ![w] = [kind |-> sent[consumed + 1], cookie |-> consumed + 1]]
      BY <3>1 DEF Recv
    <3> QED BY <1>1, <1>5, <3>2
  <2>2. sent[consumed'] \in AllMessages
    BY <1>1, <1>5, <2>1
  <2>3. msg'[w].cookie = consumed' /\ msg'[w].kind \notin Nothing
    BY <2>1, <2>2 DEF AllMessages, Requests, Fatal, Nothing
  <2>4. \A i : i = consumed' => Looked(i)'
    <3>1. pc'[w] = "parse"
      BY <1>1, <1>2
    <3> QED BY <2>3, <3>1 DEF Looked, Busy
  <2>6. \A i \in 1..consumed' : Owed(i)' => i = consumed' \/ (i \in 1..consumed /\ Owed(i))
    BY <1>1, <1>2, <1>5 DEF Owed
  <2>7. Ended => Ended'
    BY <1>1, <1>2, <1>5, <2>1 DEF Ended
  <2>8. \A v \in Workers : pc'[v] = "parse" => v = w
    BY <1>3
  <2>9. msg'[w].kind # "EOF"
    BY <2>3 DEF Nothing
  <2>10. (status >= STATUS_CLIENT_DONE =>
            \A i \in 1..consumed' : Owed(i)' => Looked(i)')
    BY <1>9, <2>4, <2>6 DEF GraceInv
  <2> QED BY <1>2, <2>7, <2>8, <2>9, <2>10 DEF GraceInv
<1> QED BY <1>4, <1>5

(* ... and stays with it when the request is accepted.                     *)
LEMMA Grace_Accepts ==
    ASSUME IndInv, TypeOK', FlightInv, GraceInv, NEW w \in Workers,
           ParseRefused(w) \/ ParseRequest(w)
    PROVE  GraceInv'
<1>1. /\ pc \in [Workers -> Locations] /\ consumed \in Nat
      /\ status \in STATUS_DEAD..STATUS_ACTIVE
  BY DEF IndInv, TypeOK
<1>2. PICK there \in {"reply", "perform"} : pc' = [pc EXCEPT ![w] = there]
  BY DEF ParseRefused, ParseRequest
<1>3. /\ UNCHANGED <<sent, client, consumed, wire, msg, status>> /\ pc[w] = "parse"
      /\ status > STATUS_CLIENT_DONE
  BY DEF ParseRefused, ParseRequest, stream, environment
<1>4. \A v \in Workers : Busy(v) => Busy(v)'
  BY <1>1, <1>2, <1>3 DEF Busy, Taken, Held, Accepted
<1>5. \A i : (Looked(i) => Looked(i)') /\ (Owed(i)' => Owed(i))
  BY <1>3, <1>4 DEF Looked, Replied, Owed
<1>6. \A v \in Workers : pc'[v] = "parse" => pc[v] = "parse"
  BY <1>1, <1>2
<1> QED BY <1>1, <1>3, <1>5, <1>6 DEF GraceInv

(* The end of the stream, or a message that is dropped because the         *)
(* connection has stopped taking requests: no request that is owed an      *)
(* answer goes.                                                            *)
LEMMA Grace_Ends ==
    ASSUME IndInv, TypeOK', FlightInv, GraceInv, NEW w \in Workers,
           ParseDropped(w) \/ ParseDisconnect(w)
    PROVE  GraceInv'
<1>1. /\ pc \in [Workers -> Locations] /\ consumed \in Nat
      /\ status \in STATUS_DEAD..STATUS_ACTIVE
  BY DEF IndInv, TypeOK
<1>2. PICK there \in {"loop", "close_wr"} : pc' = [pc EXCEPT ![w] = there]
  BY DEF ParseDropped, ParseDisconnect, ReturnTo
<1>3. /\ UNCHANGED <<sent, client, consumed, wire, msg>> /\ pc[w] = "parse"
      /\ status' = IF status > STATUS_CLIENT_DONE THEN STATUS_CLIENT_DONE ELSE status
  <2>1. CASE ParseDropped(w)
    BY <1>1, <2>1 DEF ParseDropped, stream, environment, locals
  <2>2. CASE ParseDisconnect(w)
    <3>1. status' = LowerStatus(STATUS_CLIENT_DONE) /\ status > STATUS_CLIENT_DONE
      BY <2>2 DEF ParseDisconnect, connection_set_status
    <3>2. UNCHANGED <<sent, client, consumed, wire, msg>> /\ pc[w] = "parse"
      BY <2>2 DEF ParseDisconnect, stream, environment, locals
    <3> QED BY <1>1, <3>1, <3>2 DEF LowerStatus
  <2> QED BY <2>1, <2>2
<1>4. \A v \in Workers \ {w} : pc'[v] = pc[v] /\ pc[v] # "parse"
  BY <1>1, <1>2, <1>3 DEF IndInv, LocksInv
<1>5. msg[w].kind \in Nothing \/ (msg[w].kind = sent[consumed] /\ msg[w].cookie = consumed
                                    /\ consumed > 0)
  BY <1>3 DEF IndInv, StreamInv, Nothing
<1>6. Ended \/ status = STATUS_DEAD \/ status > STATUS_CLIENT_DONE
  BY <1>1 DEF GraceInv
<1>7. status' # STATUS_DEAD =>
         Ended' /\ (msg[w].kind \in Nothing \/ ~Owed(consumed))
  <2>1. CASE status > STATUS_CLIENT_DONE
    <3>0. ~(status =< STATUS_CLIENT_DONE)
      BY <1>1, <2>1
    <3>1. msg[w].kind \in {"EOF", "DISC"}
      BY <3>0 DEF ParseDropped, ParseDisconnect
    <3>2. CASE msg[w].kind = "DISC"
      <4>1. sent[consumed] = "DISC" /\ consumed \in 1..consumed
        BY <1>1, <1>5, <3>2 DEF Nothing
      <4> QED BY <1>3, <4>1 DEF Ended, Owed, Requests
    <3>3. CASE msg[w].kind = "EOF"
      <4>1. consumed = Len(sent) /\ client # "open"
        BY <1>3, <3>3 DEF GraceInv
      <4>2. \A v \in Workers : pc'[v] # "parse"
        BY <1>1, <1>2, <1>4
      <4> QED BY <1>3, <3>3, <4>1, <4>2 DEF Ended, Nothing
    <3> QED BY <3>1, <3>2, <3>3
  <2>2. CASE status = STATUS_CLIENT_DONE
    <3>1. Ended
      BY <1>6, <2>2
    <3>2. \A v \in Workers : pc'[v] # "parse"
      BY <1>1, <1>2, <1>4
    <3>3. CASE \E j \in 1..consumed : sent[j] = "DISC"
      BY <1>3, <3>3 DEF Ended, Owed
    <3>4. CASE /\ consumed = Len(sent) /\ client # "open"
               /\ \A v \in Workers : pc[v] = "parse" => msg[v].kind \in Nothing
      BY <1>3, <3>2, <3>4 DEF Ended
    <3> QED BY <3>1, <3>3, <3>4 DEF Ended
  <2> QED BY <1>1, <1>3, <2>1, <2>2
<1>8. \A v \in Workers : Busy(v) => Busy(v)' \/ v = w
  BY <1>4 DEF Busy, Taken
<1>9. ASSUME status' # STATUS_DEAD, NEW i \in 1..consumed, Owed(i), Looked(i) PROVE Looked(i)'
  <2>1. CASE Replied(i)
    BY <1>3, <2>1 DEF Looked, Replied
  <2>2. CASE \E v \in Workers : Busy(v) /\ msg[v].cookie = i
    <3>1. PICK v \in Workers : Busy(v) /\ msg[v].cookie = i
      BY <2>2
    <3>2. v # w
      BY <1>3, <1>5, <1>7, <1>9, <3>1 DEF Busy, Taken, Held, Accepted
    <3> QED BY <1>3, <1>8, <3>1, <3>2 DEF Looked
  <2> QED BY <1>9, <2>1, <2>2 DEF Looked
<1>10. \A i : Owed(i)' <=> Owed(i)
  BY <1>3 DEF Owed
<1>11. /\ status' # STATUS_DEAD => status >= STATUS_CLIENT_DONE
       /\ \A v \in Workers : pc'[v] # "parse"
  BY <1>1, <1>2, <1>3, <1>4
<1>12. status' >= STATUS_CLIENT_DONE => status' # STATUS_DEAD
  OBVIOUS
<1> QED BY <1>3, <1>7, <1>9, <1>10, <1>11, <1>12 DEF GraceInv

(* sendreply: the last chunk answers the request, the others leave it with *)
(* its worker.                                                             *)
LEMMA Grace_Send ==
    ASSUME IndInv, TypeOK', GraceInv, NEW w \in Workers, SendChunk(w)
    PROVE  GraceInv'
<1> DEFINE c == msg[w].cookie
           n == Len(wire) + 1
           done == part[w] = Chunks(w)
           chunk == [cookie |-> c, part |-> part[w], last |-> done, error |-> error[w]]
<1>1. pc \in [Workers -> Locations] /\ wire \in Seq(Chunk)
  BY DEF IndInv, TypeOK
<1>2. /\ UNCHANGED <<sent, client, consumed, msg, status>> /\ pc[w] = "send"
      /\ wire' = Append(wire, chunk)
      /\ pc' = IF done THEN [pc EXCEPT ![w] = "loop"] ELSE pc
  BY DEF SendChunk, Sending, ReturnTo, stream, environment
<1>3. chunk.cookie = c /\ (chunk.last <=> done)
  BY Zenon
<1> HIDE DEF c, done, chunk
<1>4. Len(wire) \in Nat /\ Len(wire') = n
      /\ wire'[n] = chunk /\ \A i \in 1..Len(wire) : wire'[i] = wire[i]
  BY <1>1, <1>2
<1>5. 1..Len(wire') = 1..Len(wire) \cup {n}
  BY <1>4
<1> HIDE DEF n
<1>6. \A i : Replied(i) => Replied(i)'
  BY <1>4, <1>5 DEF Replied
<1>7. done => \A i : i = c => Replied(i)'
  BY <1>3, <1>4, <1>5 DEF Replied
<1>8. \A v \in Workers : (pc'[v] = "parse" <=> pc[v] = "parse") /\ (pc'[v] = pc[v] \/ (done /\ v = w))
  BY <1>1, <1>2
<1>9. ASSUME NEW i, Looked(i) PROVE Looked(i)'
  <2>1. CASE Replied(i)
    BY <1>6, <2>1 DEF Looked
  <2>2. CASE \E v \in Workers : Busy(v) /\ msg[v].cookie = i
    <3>1. PICK v \in Workers : Busy(v) /\ msg[v].cookie = i
      BY <2>2
    <3>2. CASE pc'[v] = pc[v]
      BY <1>2, <3>1, <3>2 DEF Looked, Busy, Taken
    <3>3. CASE done /\ v = w
      BY <1>7, <3>1, <3>3 DEF Looked, c
    <3> QED BY <1>8, <3>2, <3>3
  <2> QED BY <1>9, <2>1, <2>2 DEF Looked
<1>10. \A i : Owed(i)' <=> Owed(i)
  BY <1>2 DEF Owed
<1>11. Ended => Ended'
  BY <1>2, <1>8 DEF Ended
<1> QED BY <1>2, <1>8, <1>9, <1>10, <1>11 DEF GraceInv

(* A connection that dies owes nothing.                                    *)
LEMMA Grace_Dies ==
    ASSUME IndInv, TypeOK', GraceInv, NEW w \in Workers,
           \/ ParseFatal(w) \/ SendFails(w)
           \/ (CheckReply(w) /\ status < STATUS_CLIENT_DONE)
    PROVE  GraceInv'
<1>1. TypeOK /\ pc \in [Workers -> Locations] /\ status \in 0..3
  BY DEF IndInv, TypeOK
<1>2. status' = STATUS_DEAD
  <2>1. CASE ParseFatal(w) \/ SendFails(w)
    BY <1>1, <2>1, Killing DEF ParseFatal, SendFails, connection_set_status
  <2>2. CASE CheckReply(w) /\ status < STATUS_CLIENT_DONE
    BY <1>1, <2>2 DEF CheckReply, STATUS_DEAD, STATUS_CLIENT_DONE, environment
  <2> QED BY <2>1, <2>2
<1>3. UNCHANGED <<sent, client, consumed, msg>>
  BY DEF ParseFatal, SendFails, CheckReply, environment, stream, locals
<1>4. \A v \in Workers : pc'[v] = "parse" => pc[v] = "parse"
  BY <1>1 DEF ParseFatal, SendFails, CheckReply, ReturnTo
<1> QED BY <1>2, <1>3, <1>4, Grace_Dead

LEMMA Next_Grace ==
    ASSUME IndInv, TypeOK', FlightInv, GraceInv, [Next]_vars PROVE GraceInv'
<1>1. TypeOK
  BY DEF IndInv
<1>2. CASE UNCHANGED vars
  BY <1>2 DEF vars, GraceInv, Owed, Looked, Replied, Busy, Taken, Ended
<1>3. CASE Environment \/ MainStep \/ \E w \in Workers : PluginCall(w)
  BY <1>1, <1>3, Grace_Environment, Grace_Main, Grace_Plugin
<1>4. ASSUME NEW w \in Workers, ServeStep(w) PROVE GraceInv'
  <2>1. CASE Recv(w)
    BY <2>1, Grace_Recv
  <2>2. CASE ParseRefused(w) \/ ParseRequest(w)
    BY <2>2, Grace_Accepts
  <2>3. CASE ParseDropped(w) \/ ParseDisconnect(w)
    BY <2>3, Grace_Ends
  <2>4. CASE SendChunk(w)
    BY <2>4, Grace_Send
  <2>5. CASE \/ ParseFatal(w) \/ SendFails(w)
             \/ (CheckReply(w) /\ status < STATUS_CLIENT_DONE)
    BY <2>5, Grace_Dies
  <2>6. CASE \/ WorkerLoop(w) \/ CloseWrite(w) \/ AcquireReadLock(w)
             \/ Perform(w) \/ HandleRequest(w) \/ SleepAborted(w)
             \/ (CheckReply(w) /\ status >= STATUS_CLIENT_DONE)
             \/ AcquireWriteLock(w) \/ SendAborts(w)
    BY <1>1, <2>6, Grace_Worker
  <2>7. status < STATUS_CLIENT_DONE \/ status >= STATUS_CLIENT_DONE
    BY <1>1 DEF TypeOK
  <2> QED BY <1>4, <2>1, <2>2, <2>3, <2>4, <2>5, <2>6, <2>7 DEF ServeStep
<1> QED BY <1>2, <1>3, <1>4 DEF Next, WorkerStep

(* GracefulEnd for any number of workers, any stream and every transport:  *)
(* handle_single_connection frees a connection that never died only after  *)
(* every request it took before the disconnection has its whole reply.     *)
THEOREM Graceful == Spec => []GracefulEnd
<1>1. Init => FlightInv /\ GraceInv
  <2> SUFFICES ASSUME Init PROVE FlightInv /\ GraceInv
    OBVIOUS
  <2>1. FlightInv
    BY DEF Init, FlightInv, Fresh, Taken, Held, Accepted
  <2>2. GraceInv
    BY DEF Init, GraceInv
  <2> QED BY <2>1, <2>2
<1>2. IndInv /\ IndInv' /\ FlightInv /\ GraceInv /\ [Next]_vars => FlightInv' /\ GraceInv'
  BY Next_Promise, Next_Grace DEF IndInv
<1>3. IndInv /\ GraceInv => GracefulEnd
  <2> SUFFICES ASSUME IndInv, GraceInv, main = "done", status >= STATUS_CLIENT_DONE,
                      NEW i \in 1..consumed, Owed(i)
               PROVE  Replied(i)
    BY DEF GracefulEnd, Owed, Replied
  <2>1. \A w \in Workers : ~Busy(w)
    BY DEF IndInv, JoinInv, Busy, Taken, Held, Accepted
  <2> QED BY <2>1 DEF GraceInv, Looked
<1>4. Spec => []IndInv
  BY Inductive
<1> QED BY <1>1, <1>2, <1>3, <1>4, PTL DEF Spec
=============================================================================
