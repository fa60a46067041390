------------------------------- MODULE Startup -------------------------------
(***************************************************************************)
(* The processes of nbdkit from main to exit: loading and configuring the  *)
(* plugin (backend 0) and its filters (1 .. Top), the sockets, the captive *)
(* command of --run, the fork into the background, the accept loop and     *)
(* shutdown.  "nbdkit" is the process that is started; "server" the one it *)
(* forks, if any, which then does the serving.                             *)
(***************************************************************************)
EXTENDS Integers, Sequences, FiniteSets

CONSTANTS
    Top,            \* index of the outermost filter
    CommandLines,   \* command lines: see the operators of opt below
    Clients         \* clients that connect, other than the command of --run

VARIABLES
    opt,            \* the command line
    pc, lvl,        \* what each process is doing; the backend reached
    arg,            \* the parameter reached
    stage,          \* the last callback of each backend
    thread_model,
    handlers,       \* set_up_signals is done, for forked processes too
    quit, quit_fd,  \* per process; the pipe is shared, TRUE when it has data
    backlog,        \* connections not accepted yet
    connections,    \* those being served
    command,        \* the command of --run
    exit            \* exit status of each process, "" while it runs

vars == <<opt, pc, lvl, arg, stage, thread_model, handlers, quit, quit_fd,
          backlog, connections, command, exit>>
outside == <<quit, quit_fd, backlog, connections, command>>

Processes == {"nbdkit", "server"}
Index == 0 .. Top
Stages == <<"none", "loaded", "configured", "complete", "ready", "forked",
            "cleaned", "unloaded">>
Rank(s) == CHOOSE i \in 1 .. Len(Stages) : Stages[i] = s

\* Calls that a filter makes before it passes them on start at the top.
Downwards == {"config", "complete", "cleanup"}
Goto(p, there) ==
    /\ pc' = [pc EXCEPT ![p] = there]
    /\ lvl' = IF there \in Downwards THEN Top ELSE 0
Exit(p, status) ==
    /\ pc' = [pc EXCEPT ![p] = "exited"]
    /\ exit' = [exit EXCEPT ![p] = status]
\* exit (EXIT_FAILURE), without unloading anything
Fail(p) ==
    /\ Exit(p, "failure")
    /\ UNCHANGED <<opt, lvl, arg, stage, thread_model, handlers, outside>>
Called(b, s) == stage' = [stage EXCEPT ![b] = s]

-----------------------------------------------------------------------------
(* main: options.  opt.flags is the set of those that matter here.         *)

Has(flag) == flag \in opt.flags
socket_activation == Has("activated")
Conflict ==
    \/ Cardinality(opt.flags \cap {"port", "unix", "stdin"}) > 1
    \/ Has("stdin") /\ (Has("run") \/ Has("dump") \/ Has("vsock"))
    \/ Has("vsock") /\ Has("unix")
    \/ /\ socket_activation
       /\ opt.flags \cap {"port", "unix", "stdin", "run"} # {}
service_mode ==
    CASE socket_activation -> "activated"
      [] Has("stdin") -> "stdin"
      [] Has("unix") \/ (Has("run") /\ ~Has("port") /\ ~Has("vsock")) -> "unix"
      [] Has("vsock") -> "vsock"
      [] OTHER -> "tcp"
Binds == service_mode \in {"unix", "vsock", "tcp"}
foreground == Has("f") \/ Has("run")

Init ==
    /\ opt \in CommandLines
    /\ pc = [p \in Processes |-> IF p = "nbdkit" THEN "options" ELSE "none"]
    /\ lvl = 0 /\ arg = 1 /\ stage = [b \in Index |-> "none"]
    /\ thread_model = -1 /\ handlers = FALSE
    /\ quit = [p \in Processes |-> FALSE] /\ quit_fd = FALSE
    /\ backlog = <<>> /\ connections = {} /\ command = "none"
    /\ exit = [p \in Processes |-> ""]

\* An option may be wrong by itself, or (--dump-config and others) end nbdkit.
main_options(p) ==
    /\ pc[p] = "options"
    /\ \/ Fail(p)
       \/ /\ Has("info") /\ Exit(p, "success")
          /\ UNCHANGED <<opt, lvl, arg, stage, thread_model, handlers, outside>>
       \/ /\ ~Has("info") /\ ~Conflict /\ Goto(p, "load")
          /\ UNCHANGED <<opt, arg, stage, thread_model, handlers, outside, exit>>

\* A call of every backend, from the plugin up, that may fail.
Upwards(p, call, s, there) ==
    /\ pc[p] = call
    /\ \/ Fail(p)
       \/ /\ Called(lvl, s)
          /\ IF lvl = Top THEN Goto(p, there)
             ELSE lvl' = lvl + 1 /\ UNCHANGED pc
          /\ UNCHANGED <<opt, arg, thread_model, handlers, outside, exit>>

backend_load(p) ==
    Upwards(p, "load", "loaded", IF Has("help") THEN "free" ELSE "config")
open_plugin_so(p) == lvl = 0 /\ backend_load(p)
open_filter_so(p) == lvl > 0 /\ backend_load(p)

\* A filter keeps a parameter or passes it on.
config(p) ==
    LET last == arg > Len(opt.params)
        bare == ~opt.magic /\ opt.params[arg] = "bare" /\ arg > 1
    IN  /\ pc[p] = "config"
        /\ \/ /\ last /\ Goto(p, IF Has("dump") THEN "free" ELSE "complete")
              /\ UNCHANGED <<stage, arg>>
           \/ /\ ~last /\ ~bare /\ Called(lvl, "configured")
              /\ \/ (lvl > 0 \/ opt.config) /\ arg' = arg + 1 /\ lvl' = Top
                 \/ lvl > 0 /\ lvl' = lvl - 1 /\ UNCHANGED arg
              /\ UNCHANGED pc
        /\ UNCHANGED <<opt, thread_model, handlers, outside, exit>>
config_fails(p) == pc[p] = "config" /\ arg <= Len(opt.params) /\ Fail(p)

config_complete(p) ==
    /\ pc[p] = "complete"
    /\ \/ Fail(p)
       \/ /\ Called(lvl, "complete")
          /\ IF lvl = 0 THEN Goto(p, "model") ELSE lvl' = lvl - 1 /\ UNCHANGED pc
          /\ UNCHANGED <<opt, arg, thread_model, handlers, outside, exit>>

\* The strictest of the models: each filter lowers what is below it.
filter_thread_model ==
    CHOOSE m \in {opt.models[b] : b \in Index} : \A b \in Index : m <= opt.models[b]
lock_init_thread_model(p) ==
    /\ pc[p] = "model"
    /\ \/ Fail(p)
       \/ /\ thread_model' = filter_thread_model
          /\ Goto(p, "ready")
          /\ UNCHANGED <<opt, arg, stage, handlers, outside, exit>>

get_ready(p) == Upwards(p, "ready", "ready", "signals")

-----------------------------------------------------------------------------
(* start_serving *)

\* The pipe and the handlers are there before any fork.
set_up_signals(p) ==
    /\ pc[p] = "signals"
    /\ \/ Fail(p)
       \/ /\ handlers' = TRUE
          /\ Goto(p, "bind")
          /\ UNCHANGED <<opt, arg, stage, thread_model, outside, exit>>

Bound(p, mode) ==
    /\ pc[p] = "bind" /\ service_mode = mode
    /\ \/ Fail(p)
       \/ /\ Goto(p, IF Has("run") THEN "run" ELSE "user")
          /\ UNCHANGED <<opt, arg, stage, thread_model, handlers, outside, exit>>
bind_unix_socket(p) == Bound(p, "unix")
bind_vsock(p) == Bound(p, "vsock")
bind_tcpip_socket(p) == Bound(p, "tcp")
\* Sockets that were passed to nbdkit, or none
no_bind(p) ==
    /\ pc[p] = "bind" /\ ~Binds
    /\ Goto(p, "user")
    /\ UNCHANGED <<opt, arg, stage, thread_model, handlers, outside, exit>>

\* The parent of a captive nbdkit runs the command.
run_command(p) ==
    /\ pc[p] = "run"
    /\ \/ Fail(p)
       \/ /\ pc' = [pc EXCEPT !["nbdkit"] = "command", !["server"] = "user"]
          /\ quit' = [quit EXCEPT !["server"] = quit["nbdkit"]]
          /\ command' = "running" /\ lvl' = 0
          /\ UNCHANGED <<opt, arg, stage, thread_model, handlers, quit_fd,
                         backlog, connections, exit>>

change_user(p) ==
    /\ pc[p] = "user"
    /\ \/ Fail(p)
       \/ /\ Goto(p, IF Binds /\ ~foreground THEN "background" ELSE "pidfile")
          /\ UNCHANGED <<opt, arg, stage, thread_model, handlers, outside, exit>>

fork_into_background(p) ==
    /\ pc[p] = "background"
    /\ \/ Fail(p)
       \/ /\ pc' = [pc EXCEPT !["nbdkit"] = "exited", !["server"] = "pidfile"]
          /\ exit' = [exit EXCEPT !["nbdkit"] = "success"]
          /\ quit' = [quit EXCEPT !["server"] = quit["nbdkit"]]
          /\ UNCHANGED <<opt, lvl, arg, stage, thread_model, handlers, quit_fd,
                         backlog, connections, command>>

write_pidfile(p) ==
    /\ pc[p] = "pidfile"
    /\ \/ Fail(p)
       \/ /\ Goto(p, "fork")
          /\ UNCHANGED <<opt, arg, stage, thread_model, handlers, outside, exit>>

after_fork(p) ==
    Upwards(p, "fork", "forked",
            IF service_mode = "stdin" THEN "single" ELSE "loop")

\* accept_incoming_connections: quit is tested, then poll waits.
QuitTest(p) ==
    /\ pc[p] = "loop"
    /\ Goto(p, IF quit[p] THEN "wait" ELSE "poll")
    /\ UNCHANGED <<opt, arg, stage, thread_model, handlers, outside, exit>>
check_sockets_and_quit_fd(p) ==
    /\ pc[p] = "poll" /\ (quit_fd \/ backlog # <<>>)
    /\ Goto(p, "loop")
    /\ IF quit_fd THEN UNCHANGED <<backlog, connections, command>>
       ELSE /\ backlog' = Tail(backlog)
            /\ connections' = connections \cup {Head(backlog)}
            /\ command' = IF Head(backlog) = "command" THEN "served" ELSE command
    /\ UNCHANGED <<opt, arg, stage, thread_model, handlers, quit, quit_fd, exit>>
wait_for_none(p) ==
    /\ pc[p] = "wait"
    /\ Goto(p, "cleanup")
    /\ UNCHANGED <<opt, arg, stage, thread_model, handlers, outside, exit>>
wait_for_threads(p) ==
    /\ pc[p] = "wait" /\ connections = {}
    /\ Goto(p, "cleanup")
    /\ UNCHANGED <<opt, arg, stage, thread_model, handlers, outside, exit>>
\* handle_single_connection on stdin and stdout
SingleConnection(p) ==
    /\ pc[p] = "single"
    /\ Goto(p, "cleanup")
    /\ UNCHANGED <<opt, arg, stage, thread_model, handlers, outside, exit>>

\* A filter cleans up before what is below it, and is unloaded after it.
cleanup(p) ==
    /\ pc[p] = "cleanup"
    /\ Called(lvl, "cleaned")
    /\ IF lvl = 0 THEN Goto(p, "free") ELSE lvl' = lvl - 1 /\ UNCHANGED pc
    /\ UNCHANGED <<opt, arg, thread_model, handlers, outside, exit>>
backend_unload(p) ==
    /\ pc[p] = "free"
    /\ Called(lvl, "unloaded")
    /\ IF lvl = Top THEN Exit(p, "success") /\ UNCHANGED lvl
       ELSE lvl' = lvl + 1 /\ UNCHANGED <<pc, exit>>
    /\ UNCHANGED <<opt, arg, thread_model, handlers, outside>>

-----------------------------------------------------------------------------
(* run_command in the parent: system, then waitpid. *)

\* waitpid with WNOHANG
ReapOrKill ==
    LET r == IF command = "failed" THEN "failure" ELSE "success"
    IN  /\ pc["nbdkit"] = "command" /\ command \in {"done", "failed"}
        /\ IF exit["server"] # ""
           THEN /\ Exit("nbdkit", IF exit["server"] = "killed" THEN "killed"
                                  ELSE IF r = "success" THEN exit["server"] ELSE r)
                /\ UNCHANGED <<quit, quit_fd>>
           ELSE /\ pc' = [pc EXCEPT !["nbdkit"] = "waitpid"]
                /\ quit' = [quit EXCEPT !["server"] = TRUE] /\ quit_fd' = TRUE
                /\ UNCHANGED exit
        /\ UNCHANGED <<opt, lvl, arg, stage, thread_model, handlers, backlog,
                       connections, command>>
WaitpidReturns ==
    /\ pc["nbdkit"] = "waitpid" /\ exit["server"] # ""
    /\ Exit("nbdkit", IF command = "failed" THEN "failure" ELSE "success")
    /\ UNCHANGED <<opt, lvl, arg, stage, thread_model, handlers, outside>>

\* The command may connect, and waits for the server then.
CommandConnects ==
    /\ command = "running"
    /\ command' = "waiting" /\ backlog' = Append(backlog, "command")
    /\ UNCHANGED <<opt, pc, lvl, arg, stage, thread_model, handlers, quit,
                   quit_fd, connections, exit>>
CommandExits ==
    /\ command \in {"running", "served"}
    /\ command' \in {"done", "failed"}
    /\ UNCHANGED <<opt, pc, lvl, arg, stage, thread_model, handlers, quit,
                   quit_fd, backlog, connections, exit>>

-----------------------------------------------------------------------------
(* The world outside. *)

\* The parent of a captive nbdkit has the sockets open too.
Listening ==
    \E p \in Processes :
       pc[p] \in {"run", "user", "background", "pidfile", "fork", "loop", "poll",
                 "wait", "command", "waitpid"}
Connect(c) ==
    /\ Listening /\ service_mode # "stdin"
    /\ \A i \in 1 .. Len(backlog) : backlog[i] # c
    /\ c \notin connections
    /\ backlog' = Append(backlog, c)
    /\ UNCHANGED <<opt, pc, lvl, arg, stage, thread_model, handlers, quit,
                   quit_fd, connections, command, exit>>
ConnectionEnds(c) ==
    /\ c \in connections
    /\ c = "command" => command \in {"done", "failed"}
    /\ connections' = connections \ {c}
    /\ UNCHANGED <<opt, pc, lvl, arg, stage, thread_model, handlers, quit,
                   quit_fd, backlog, command, exit>>
handle_quit_without_pipe(p) ==
    /\ pc[p] \notin {"none", "exited"} /\ ~quit[p] /\ handlers
    /\ quit' = [quit EXCEPT ![p] = TRUE]
    /\ UNCHANGED <<opt, pc, lvl, arg, stage, thread_model, handlers, quit_fd,
                   backlog, connections, command, exit>>
\* SIGTERM; before the handlers are set up it kills.
handle_quit(p) ==
    /\ pc[p] \notin {"none", "exited"} /\ ~quit[p]
    /\ IF handlers
       THEN /\ quit' = [quit EXCEPT ![p] = TRUE] /\ quit_fd' = TRUE
            /\ UNCHANGED <<pc, exit>>
       ELSE Exit(p, "killed") /\ UNCHANGED <<quit, quit_fd>>
    /\ UNCHANGED <<opt, lvl, arg, stage, thread_model, handlers, backlog,
                   connections, command>>

Step(p) ==
    \/ main_options(p) \/ open_plugin_so(p) \/ open_filter_so(p)
    \/ config(p) \/ config_fails(p)
    \/ config_complete(p) \/ lock_init_thread_model(p) \/ get_ready(p)
    \/ set_up_signals(p) \/ bind_unix_socket(p) \/ bind_vsock(p)
    \/ bind_tcpip_socket(p) \/ no_bind(p) \/ run_command(p) \/ change_user(p)
    \/ fork_into_background(p) \/ write_pidfile(p) \/ after_fork(p)
    \/ QuitTest(p) \/ check_sockets_and_quit_fd(p) \/ wait_for_threads(p)
    \/ SingleConnection(p) \/ cleanup(p) \/ backend_unload(p)
Parent == ReapOrKill \/ WaitpidReturns
Next ==
    \/ \E p \in Processes : Step(p) \/ handle_quit(p)
    \/ Parent \/ CommandConnects \/ CommandExits
    \/ \E c \in Clients : Connect(c)
    \/ \E c \in connections : ConnectionEnds(c)

\* Processes run, clients go away, and the command ends unless it waits for
\* the server.
Fairness ==
    /\ \A p \in Processes : WF_vars(Step(p))
    /\ WF_vars(Parent) /\ WF_vars(CommandExits)
    /\ \A c \in Clients \cup {"command"} : WF_vars(ConnectionEnds(c))
Spec == Init /\ [][Next]_vars /\ Fairness

-----------------------------------------------------------------------------
Reached(b, s) == Rank(stage[b]) >= Rank(s)
Forked == pc["server"] # "none"
\* A filter gets ready after what is below it, and cleans up before it; the
\* fork is between .get_ready and .after_fork; connections are served between
\* .after_fork and .cleanup; nothing is unloaded that still has to clean up;
\* and a captive nbdkit has done all of this when its parent exits.
StartupIsOrdered ==
    /\ \A b \in 1 .. Top, s \in {"ready", "forked"} :
          Reached(b, s) => Reached(b - 1, s)
    /\ \A b \in 1 .. Top : stage[b - 1] = "cleaned" => stage[b] = "cleaned"
    /\ Forked => \A b \in Index : Reached(b, "ready")
    /\ \A b \in Index : stage[b] = "forked" =>
          Forked \/ ~(Has("run") \/ (Binds /\ ~foreground))
    /\ connections # {} => \A b \in Index : stage[b] = "forked"
    /\ (\E b \in Index : stage[b] = "unloaded") =>
          \/ \A b \in Index : Reached(b, "cleaned")
          \/ \A b \in Index : stage[b] \in {"loaded", "configured", "unloaded"}
    /\ \A b \in Index : Reached(b, "ready") => thread_model <= opt.models[b]
    /\ Has("run") /\ Forked /\ exit["nbdkit"] # "" =>
          \/ exit["server"] = "success" /\ \A b \in Index : stage[b] = "unloaded"
          \/ exit["server"] = "failure"
\* A server that is told to quit exits, and so does nbdkit when the command of
\* --run has ended.
StartupEnds ==
    /\ quit["server"] ~> exit["server"] # ""
    /\ (quit["nbdkit"] /\ ~Has("run")) ~> exit["nbdkit"] # ""
    /\ command \in {"done", "failed"} ~> exit["nbdkit"] # ""
\* "SIGTERM: The server exits cleanly" (docs/nbdkit.pod): the process that was
\* started, the server, or both.
SignalExits == quit["nbdkit"] ~> \E p \in Processes : exit[p] # ""
=============================================================================
