------------------------------ MODULE MCEndings ------------------------------
(***************************************************************************)
(* Instances of the parts of the server that must come to an end: a        *)
(* connection and its workers, the server and its threads, nbdkit from its *)
(* command line to its exit (Startup), the handshake, its timer and the    *)
(* contexts of its chain (Setup), and the loops of nbdkit_extents_full and *)
(* nbdkit_extents_aligned.  Each behaviour is one of a single part, chosen *)
(* at first; the others stay in one initial state.                         *)
(***************************************************************************)
EXTENDS Startup, Setup, SequencesExt

CONSTANTS Parts, Workers, NoThread

VARIABLES
    part,
    \* Connection
    sent, client, consumed, desync, c_quit, status, status_pipe, sockin, c_sockout,
    read_lock, write_lock, c_pc, msg, cs, error, chunk, wire, executed, main,
    \* Server
    s_model, s_quit, s_main, unloaded, top, count, s_at, job, handle, over,
    clients, s_connection_lock, all_requests_lock, request_lock, readers, writer,
    \* ExtentQueries
    disk, fn, first, last, q_pc, exts, offset

\* The command lines of Startup: a plugin under one filter.
Line(flags, params, magic, has_config) ==
    [flags |-> flags, params |-> params, magic |-> magic, config |-> has_config,
     models |-> [b \in 0 .. 2 |-> 3 - b]]
Flags == {"port", "unix", "stdin", "run", "vsock", "activated", "f", "help", "dump"}
MCLines ==
    {Line(fs, <<"key">>, FALSE, TRUE) : fs \in SUBSET Flags}
    \cup {Line({"info"}, <<>>, FALSE, TRUE)}
    \cup {Line({"f"}, ps, m, c) : m, c \in BOOLEAN,
             ps \in {<<>>, <<"bare">>, <<"bare", "bare">>, <<"key", "bare">>}}

C == INSTANCE Connection WITH part <- chunk, pc <- c_pc, quit <- c_quit,
        sockout <- c_sockout, Messages <- {"READ", "BAD_MAGIC", "DISC"},
        MaxMessages <- 2, structured_replies <- TRUE, Transport <- "socket"
S == INSTANCE Server WITH thread_model <- s_model, quit <- s_quit, main <- s_main,
        at <- s_at, client <- clients, connection_lock <- s_connection_lock,
        Threads <- Connections, Owner <- [c \in Connections |-> c], Backends <- 1
Q == INSTANCE ExtentQueries WITH pc <- q_pc, Half <- 16, MAX_EXTENTS <- 4,
        DiskSize <- 6, DiskTypes <- {{"hole"}, {"zero"}}, Align <- 2,
        Calls <- {"full", "aligned"}

connection == <<sent, client, consumed, desync, c_quit, status, status_pipe, sockin,
    c_sockout, read_lock, write_lock, c_pc, msg, cs, error, chunk, wire, executed, main>>
server == <<s_model, s_quit, s_main, unloaded, top, count, s_at, job, handle,
    over, clients, s_connection_lock, all_requests_lock, request_lock, readers, writer>>
timers == <<t_model, connection_lock, at, timer, timer_set, active, sockout, alive>>
handshake == <<newstyle, tls, no_sr, no_mc, phase, fixed, unread, nr_options,
    list_seen, using_tls, structured_replies, set_name, meta, top_context, df,
    export, granted, handled, listed>>
contexts == <<present, state, c_next, finalized, b_pc, b_lvl, closer, after, gave_up>>
queries == <<disk, fn, first, last, q_pc, exts, offset>>
everything == <<part, connection, server, vars, timers, handshake, contexts, queries>>

-----------------------------------------------------------------------------
PartInit ==
    /\ part \in Parts
    /\ part # "server" => s_model = 0
    /\ part # "startup" => opt = Line({"info"}, <<>>, FALSE, TRUE)
    /\ part # "timeout" => t_model = 0
    /\ part # "handshake" => /\ newstyle = TRUE /\ tls = 0
                             /\ no_sr = FALSE /\ no_mc = FALSE
    /\ part # "queries" => /\ disk = [b \in 0 .. 5 |-> {"hole"}]
                           /\ fn = "full" /\ first = 0 /\ last = 6
    /\ C!Init /\ S!Init /\ Init /\ T!Init /\ H!Init /\ B!Init /\ Q!Init

ConnectionNext ==
    /\ part = "connection" /\ C!Next
    /\ UNCHANGED <<part, server, vars, timers, handshake, contexts, queries>>
ServerNext ==
    /\ part = "server" /\ S!Next
    /\ UNCHANGED <<part, connection, vars, timers, handshake, contexts, queries>>
StartupNext ==
    /\ part = "startup" /\ Next
    /\ UNCHANGED <<part, connection, server, timers, handshake, contexts, queries>>
TimeoutNext ==
    /\ part = "timeout" /\ T!Next
    /\ UNCHANGED <<part, connection, server, vars, handshake, contexts, queries>>
HandshakeNext ==
    /\ part = "handshake" /\ H!Next
    /\ UNCHANGED <<part, connection, server, vars, timers, contexts, queries>>
BackendNext ==
    /\ part = "contexts" /\ B!Next
    /\ UNCHANGED <<part, connection, server, vars, timers, handshake, queries>>
QueriesNext ==
    /\ part = "queries" /\ Q!Next
    /\ UNCHANGED <<part, connection, server, vars, timers, handshake, contexts>>
PartNext ==
    \/ ConnectionNext \/ ServerNext \/ StartupNext \/ TimeoutNext \/ HandshakeNext
    \/ BackendNext \/ QueriesNext

(* The fairness of each part, as its module states it.  As the part never  *)
(* changes, fairness of a disjunction of steps of different parts is that  *)
(* of each of them.                                                        *)
Worker == SetToSeq(Workers)
Conn == SetToSeq(Connections)
In(p) == part = p /\ part' = p
its == CASE part = "connection" -> connection
         [] part = "server" -> server
         [] part = "startup" -> vars
         [] part = "timeout" -> timers
         [] part = "handshake" -> handshake
         [] part = "contexts" -> contexts
         [] part = "queries" -> queries
PartFairness ==
    /\ WF_its(\/ In("connection") /\ C!MainStep
              \/ In("server") /\ S!MainStep
              \/ In("startup") /\ Parent
              \/ In("handshake") /\ H!Next
              \/ In("queries") /\ Q!Next)
    /\ \A i \in 1 .. 2 :
          /\ WF_its(\/ In("connection") /\ C!WorkerStep(Worker[i])
                    \/ In("server") /\ S!ThreadStep(Conn[i])
                    \/ In("timeout") /\ T!ConnStep(Conn[i])
                    \/ In("startup") /\ Step(<<"nbdkit", "server">>[i]))
          /\ WF_its(\/ In("timeout") /\ T!TimerStep(Conn[i])
                    \/ In("startup") /\ ConnectionEnds(<<"c1", "command">>[i]))
          /\ SF_its(In("server") /\ s_main # "done" /\ S!LockStep(Conn[i]))
          /\ SF_its(In("server") /\ s_main # "done" /\ S!lock_connection(Conn[i]))
    /\ WF_its(In("startup") /\ CommandExits)

PartSpec == PartInit /\ [][PartNext]_everything /\ PartFairness

-----------------------------------------------------------------------------
\* Once the client has stopped sending, the workers of its connection leave
\* their loops and the connection is freed; after quit, and once the clients
\* have left, the server unloads its backends and ends; a server process that
\* is told to quit exits; a client that goes on sending options cannot stay in
\* the handshake; and a query of extents comes to an end (connections.c, main.c,
\* locks.c, quit.c, sockets.c, protocol-handshake-newstyle.c, extents.c).
HasToEnd == CASE part = "connection" -> client # "open"
              [] part = "server" -> s_quit /\ \A c \in Connections : clients[c] = "gone"
              [] part = "startup" -> quit["server"]
              [] part \in {"handshake", "queries"} -> TRUE
              [] OTHER -> FALSE
HasEnded == CASE part = "connection" -> main = "done"
              [] part = "server" -> s_main = "done"
              [] part = "startup" -> exit["server"] # ""
              [] part = "handshake" -> phase \in {"ready", "freed"}
              [] part = "queries" -> q_pc = "done"
              [] OTHER -> FALSE
EverythingEnds == HasToEnd ~> HasEnded

\* No worker stays for ever between taking a message and being ready for the
\* next one, except in a sleep of the plugin; a client that stalls in the
\* handshake is dropped unless connections are serialized; the process that
\* was started exits after quit when it serves by itself, and when the command
\* of --run has ended (connections.c, timeout.c, main.c, captive.c).
Waits(i) == CASE part = "connection" -> c_pc[Worker[i]] = "parse"
              [] part = "timeout" -> /\ t_model # 0 /\ at[Conn[i]] = "handshake"
                                     /\ timer[Conn[i]] = "armed"
              [] part = "startup" -> IF i = 1 THEN quit["nbdkit"] /\ ~Has("run")
                                     ELSE command \in {"done", "failed"}
              [] OTHER -> FALSE
GoesOn(i) == CASE part = "connection" -> c_pc[Worker[i]] \in {"loop", "sleep", "exit"}
               [] part = "timeout" -> at[Conn[i]] # "handshake"
               [] part = "startup" -> exit["nbdkit"] # ""
               [] OTHER -> FALSE
NobodyIsStuck == \A i \in 1 .. 2 : Waits(i) ~> GoesOn(i)
=============================================================================
