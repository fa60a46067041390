--------------------------- MODULE FilterThreads ----------------------------
(***************************************************************************)
(* Filters that order, count, delay or repeat the calls of several threads.*)
(* Here are what they have in common, the filters that count connections   *)
(* and those that hold requests back; the modules MultiConn, Retry and     *)
(* Prefetch extend this one.  A behaviour is one of one filter, which the  *)
(* configuration names.                                                    *)
(***************************************************************************)
EXTENDS Integers, FiniteSets, Sequences, TLC, FiniteSetsExt, SequencesExt

CONSTANTS
    Conns,       \* client connections; each has one request in hand at a time
    FConfigs     \* configurations: filter, its parameters, the plugin below

VARIABLES
    conf,        \* the configuration in force
    conn,        \* connection -> where it is in its life
    th,          \* connection or background thread -> what it is doing
    g,           \* the globals of the filter
    h,           \* the handles of the filter
    env          \* the world outside the filter, and what was observed

fvars == <<conf, conn, th, g, h, env>>

(* The life of a connection, as the server drives it: .preconnect, the     *)
(* handshake with .open and .prepare, requests, .finalize and .close.       *)
Life == {"new", "preconnected", "open", "closed"}
Open == {c \in Conns : conn[c] = "open"}
Becomes(c, state) == conn' = [conn EXCEPT ![c] = state]
At(t, pc) == th[t].pc = pc
To(t, pc) == th' = [th EXCEPT ![t].pc = pc]
Thread(pc) == [pc |-> pc]

-----------------------------------------------------------------------------
(***************************************************************************)
(* Filters that count connections: limit refuses more than so many,        *)
(* exitlast shuts the server down after the last one, exitwhen shuts it    *)
(* down when an event has happened and nobody is connected.                *)
(***************************************************************************)
(* Connections that the server has accepted and not yet opened may go away. *)
ClientLeaves(c) ==
    /\ conn[c] = "preconnected"
    /\ Becomes(c, "closed")
    /\ UNCHANGED <<th, g, h, env>>
(***************************************************************************)
(* limit.  The count is checked early, in preconnect, and made in open.    *)
(***************************************************************************)
limit_reached == conf.limit > 0 /\ g.connections >= conf.limit
limit_preconnect(c) ==
    /\ conn[c] = "new"
    /\ \E next \in BOOLEAN :
         Becomes(c, IF next /\ ~limit_reached THEN "preconnected" ELSE "closed")
    /\ UNCHANGED <<th, g, h, env>>
limit_open(c) ==
    /\ conn[c] = "preconnected"
    /\ \E next \in BOOLEAN :
         IF next /\ ~limit_reached
         THEN Becomes(c, "open") /\ g' = [g EXCEPT !.connections = @ + 1]
         ELSE Becomes(c, "closed") /\ UNCHANGED g
    /\ UNCHANGED <<th, h, env>>
limit_close(c) ==
    /\ conn[c] = "open"
    /\ Becomes(c, "closed")
    /\ g' = [g EXCEPT !.connections = @ - 1]
    /\ UNCHANGED <<th, h, env>>
(***************************************************************************)
(* exitlast.  The count is atomic; the shutdown that follows is not part   *)
(* of the same step.                                                       *)
(***************************************************************************)
Connect(c) ==
    /\ conn[c] = "new" /\ ~env.quit
    /\ Becomes(c, "preconnected")
    /\ UNCHANGED <<th, g, h, env>>
exitlast_open(c) ==
    /\ conn[c] = "preconnected"
    /\ \E next \in BOOLEAN :
         IF next THEN Becomes(c, "open") /\ g' = [g EXCEPT !.connections = @ + 1]
                 ELSE Becomes(c, "closed") /\ UNCHANGED g
    /\ UNCHANGED <<th, h, env>>
exitlast_close(c) ==
    \/ /\ conn[c] = "open" /\ At(c, "idle")
       /\ g' = [g EXCEPT !.connections = @ - 1]
       /\ IF g.connections = 1 THEN To(c, "shutdown") /\ UNCHANGED conn
                               ELSE Becomes(c, "closed") /\ UNCHANGED th
       /\ UNCHANGED <<h, env>>
    \/ /\ At(c, "shutdown")
       /\ env' = [env EXCEPT !.quit = TRUE]
       /\ Becomes(c, "closed") /\ To(c, "idle")
       /\ UNCHANGED <<g, h>>
(***************************************************************************)
(* exitwhen.  The lock is held over every function, so each is one step.   *)
(* A file may come and go; a process that has exited and a pipe that is    *)
(* closed stay so.  A check that fails with an error sees nothing.         *)
(***************************************************************************)
exitwhen_config(e) == e \in {"file-created", "file-deleted", "process-exits",
                             "pipe-closed", "script"}
Lasting(e) == e \in {"process-exits", "pipe-closed"}
EventHappens ==
    /\ \E e \in conf.events :
         env' = [env EXCEPT !.happened =
                     IF e \notin @ THEN @ \cup {e} ELSE IF Lasting(e) THEN @ ELSE @ \ {e}]
    /\ UNCHANGED <<conn, th, g, h>>
(* check_for_event: the values `exiting` may have after it. *)
check_for_event == IF g.exiting \/ env.happened = {} THEN {g.exiting}
                   ELSE IF env.errors < conf.errors THEN BOOLEAN ELSE {TRUE}
Checked(exiting, connections, quit) ==
    /\ g' = [connections |-> connections, exiting |-> exiting]
    /\ env' = [env EXCEPT !.quit = quit,
                          !.errors = IF env.happened # {} /\ ~exiting THEN @ + 1 ELSE @]
(* Before it serves anyone, nbdkit exits if the event has happened. *)
exitwhen_get_ready ==
    /\ At("poll", "starting")
    /\ \E exiting \in check_for_event :
         /\ Checked(exiting, 0, exiting)
         /\ To("poll", IF exiting THEN "exited" ELSE "polling")
    /\ UNCHANGED <<conn, h>>
polling_thread ==
    /\ At("poll", "polling")
    /\ g.connections = 0
    /\ \E exiting \in check_for_event : Checked(exiting, 0, env.quit \/ exiting)
    /\ UNCHANGED <<conn, th, h>>
exitwhen_preconnect(c) ==
    /\ conn[c] = "new" /\ At("poll", "polling") /\ ~env.quit
    /\ \E exiting \in check_for_event, next \in BOOLEAN :
         /\ Checked(exiting, g.connections, FALSE)
         /\ Becomes(c, IF next /\ ~exiting THEN "preconnected" ELSE "closed")
    /\ UNCHANGED <<th, h>>
exitwhen_open(c) ==
    /\ conn[c] = "preconnected"
    /\ \E next \in BOOLEAN :
         IF next THEN Becomes(c, "open") /\ g' = [g EXCEPT !.connections = @ + 1]
                 ELSE Becomes(c, "closed") /\ UNCHANGED g
    /\ UNCHANGED <<th, h, env>>
(* Mutant: any connection that closes shuts the server down. *)
exitwhen_close_any(c) ==
    /\ conn[c] = "open"
    /\ \E exiting \in check_for_event : Checked(exiting, g.connections - 1, env.quit \/ exiting)
    /\ Becomes(c, "closed")
    /\ UNCHANGED <<th, h>>
exitwhen_close(c) ==
    /\ conn[c] = "open"
    /\ \E exiting \in check_for_event :
         Checked(exiting, g.connections - 1, env.quit \/ (exiting /\ g.connections = 1))
    /\ Becomes(c, "closed")
    /\ UNCHANGED <<th, h>>

AdmissionInit ==
    /\ conf.filter \in {"limit", "exitlast", "exitwhen"}
    /\ conf.filter = "exitwhen" => \A e \in conf.events : exitwhen_config(e)
    /\ conn = [c \in Conns |-> "new"]
    /\ g = [connections |-> 0, exiting |-> FALSE]
    /\ h = << >>
    /\ env = [quit |-> FALSE, errors |-> 0, happened |-> {}]
    /\ th = [t \in Conns \cup {"poll"} |->
                Thread(IF t = "poll" THEN "starting" ELSE "idle")]
AdmissionConn(c) ==
    \/ /\ conf.filter = "limit"
       /\ limit_preconnect(c) \/ limit_open(c) \/ ClientLeaves(c) \/ limit_close(c)
    \/ /\ conf.filter = "exitlast"
       /\ Connect(c) \/ exitlast_open(c) \/ ClientLeaves(c) \/ exitlast_close(c)
    \/ /\ conf.filter = "exitwhen"
       /\ exitwhen_preconnect(c) \/ exitwhen_open(c) \/ ClientLeaves(c) \/ exitwhen_close(c)
AdmissionPoll ==
    /\ conf.filter = "exitwhen"
    /\ exitwhen_get_ready \/ polling_thread
AdmissionNext ==
    /\ (\E c \in Conns : AdmissionConn(c)) \/ AdmissionPoll
       \/ (conf.filter = "exitwhen" /\ EventHappens)
    /\ UNCHANGED conf

-----------------------------------------------------------------------------
(***************************************************************************)
(* Filters that hold requests back: pause stops them on command, rate      *)
(* makes them wait for tokens, time-limit refuses them when the connection *)
(* is too old.                                                             *)
(***************************************************************************)
CONSTANT NoOwner   \* a mutex that nobody holds
(***************************************************************************)
(* pause.  The mutex `paused` is held by the control thread from p to r.   *)
(* The filter has no .flush: flush requests pass it by.                    *)
(***************************************************************************)
PauseRequest(c) ==
    /\ At(c, "idle")
    /\ \E cmd \in {"data", "flush"} :
         th' = [th EXCEPT ![c] = [pc |-> IF cmd = "flush" THEN "next" ELSE "begin", cmd |-> cmd]]
    /\ UNCHANGED <<conn, g, h, env>>
begin_request(c) ==
    /\ At(c, "begin")
    /\ g.paused = NoOwner
    /\ g' = [g EXCEPT !.count_requests = @ + 1]
    /\ To(c, "next")
    /\ UNCHANGED <<conn, h, env>>
(* The plugin returns, and end_request signals the control thread. *)
end_request(c) ==
    /\ At(c, "next")
    /\ g' = IF th[c].cmd = "flush" THEN g ELSE [g EXCEPT !.count_requests = @ - 1]
    /\ To(c, "idle")
    /\ UNCHANGED <<conn, h, env>>

(* Mutant: the answer does not wait for the requests in the plugin. *)
do_pause_at_once ==
    /\ At("control", "p")
    /\ g' = [g EXCEPT !.paused = "control", !.is_paused = TRUE]
    /\ To("control", "answer P")
    /\ UNCHANGED <<conn, h, env>>
(* control_socket_thread: a command is one byte, the answer too.  White     *)
(* space is skipped, an unknown command is answered with X.                 *)
do_pause ==
    \/ /\ At("control", "p")
       /\ IF g.is_paused
          THEN To("control", "answer P") /\ UNCHANGED g
          ELSE /\ g.paused = NoOwner
               /\ g' = [g EXCEPT !.paused = "control", !.is_paused = TRUE]
               /\ To("control", "waiting")
       /\ UNCHANGED <<conn, h, env>>
    \/ /\ At("control", "waiting")
       /\ g.count_requests = 0
       /\ To("control", "answer P")
       /\ UNCHANGED <<conn, g, h, env>>
do_resume ==
    /\ At("control", "r")
    /\ g' = IF g.is_paused THEN [g EXCEPT !.is_paused = FALSE, !.paused = NoOwner] ELSE g
    /\ To("control", "answer R")
    /\ UNCHANGED <<conn, h, env>>
control_socket_thread ==
    \/ /\ At("control", "read")
       /\ \E c \in {"p", "r", " ", "?"} :
            To("control", CASE c = " " -> "read"
                            [] c = "?" -> "answer X"
                            [] OTHER -> c)
       /\ UNCHANGED <<conn, g, h, env>>
    \/ do_pause \/ do_resume
    \* The answer is written, or the socket fails and the next is accepted.
    \/ /\ th["control"].pc \in {"answer P", "answer R", "answer X"}
       /\ env' = [env EXCEPT !.told = IF At("control", "answer X") THEN @ ELSE th["control"].pc]
       /\ To("control", "read")
       /\ UNCHANGED <<conn, g, h>>

PauseInit ==
    /\ conf.filter = "pause"
    /\ conn = [c \in Conns |-> "open"]
    /\ g = [paused |-> NoOwner, is_paused |-> FALSE, count_requests |-> 0]
    /\ h = << >>
    /\ env = [told |-> "answer R"]
    /\ th = [t \in Conns \cup {"control"} |->
                Thread(IF t = "control" THEN "read" ELSE "idle")]
PauseConn(c) == begin_request(c) \/ end_request(c)
(***************************************************************************)
(* rate: token buckets, one for all connections and one for each, for      *)
(* reads and for writes apart.  Unit ticks of the clock are a second.      *)
(***************************************************************************)
bucket_init(rate) == [rate |-> rate, capacity |-> rate * conf.burst,
                      level |-> rate * conf.burst, tv |-> 0]
bucket_adjust_rate(b, rate) ==
    [b EXCEPT !.rate = rate, !.capacity = rate * conf.burst, !.level = Min({@, rate * conf.burst})]
(* bucket_run returns the tokens still missing and how long to sleep. *)
bucket_run(b, n, now) ==
    LET usec == Max({now - b.tv, 0})
        add == Min({(b.rate * usec) \div conf.unit, b.capacity - b.level})
        level == b.level + add
    IN  IF b.rate = 0 THEN [bucket |-> b, missing |-> 0, sleep |-> 0, taken |-> 0]
        ELSE IF level >= n
        THEN [bucket |-> [b EXCEPT !.level = level - n, !.tv = now],
              missing |-> 0, sleep |-> 0, taken |-> n]
        ELSE [bucket |-> [b EXCEPT !.level = 0, !.tv = now],
              missing |-> n - level, sleep |-> (conf.unit * (n - level)) \div b.rate,
              taken |-> level]

Buckets == {"read", "write"} \X (Conns \cup {"global"})
RateRequest(c) ==
    /\ At(c, "idle")
    /\ env.requests < conf.requests
    /\ env' = [env EXCEPT !.requests = @ + 1]
    /\ \E dir \in {"read", "write"}, bits \in conf.bits :
         th' = [th EXCEPT ![c] = [pc |-> "adjust", dir |-> dir, bits |-> bits, missing |-> bits,
                                  scope |-> "global", wake |-> 0]]
    /\ UNCHANGED <<conn, g, h>>
(* maybe_adjust: the rate file is absent, unreadable, or has a new rate. *)
maybe_adjust(c) ==
    LET b == <<th[c].dir, th[c].scope>>
    IN  /\ At(c, "adjust")
        /\ \/ UNCHANGED g
           \/ \E rate \in conf.rates : g' = [g EXCEPT ![b] = bucket_adjust_rate(@, rate)]
        /\ To(c, "run")
        /\ UNCHANGED <<conn, h, env>>
(* maybe_sleep: the bucket is run under its lock, the sleep is outside it   *)
(* and may last longer than asked, or be cut short with an error.           *)
maybe_sleep(c) ==
    LET b == <<th[c].dir, th[c].scope>>
        r == bucket_run(g[b], th[c].missing, env.clock)
    IN  \/ /\ At(c, "run")
           /\ g' = [g EXCEPT ![b] = r.bucket]
           /\ env' = [env EXCEPT !.taken[b] = @ + r.taken]
           /\ th' = [th EXCEPT ![c] =
                IF r.missing > 0
                THEN [@ EXCEPT !.pc = "sleep", !.missing = r.missing,
                               !.wake = env.clock + r.sleep]
                ELSE IF th[c].scope = "global"
                THEN [@ EXCEPT !.pc = "adjust", !.scope = c, !.missing = th[c].bits]
                ELSE [@ EXCEPT !.pc = "next"]]
           /\ UNCHANGED <<conn, h>>
        \/ /\ At(c, "sleep")
           /\ \/ env.clock >= th[c].wake /\ To(c, "run")
              \/ To(c, "failed")
           /\ UNCHANGED <<conn, g, h, env>>
(* The plugin is called and the request answered. *)
rate_next(c) ==
    /\ th[c].pc \in {"next", "failed"}
    /\ env' = IF At(c, "next") THEN [env EXCEPT !.passed[th[c].dir] = @ + th[c].bits] ELSE env
    /\ th' = [th EXCEPT ![c] = Thread("idle")]
    /\ UNCHANGED <<conn, g, h>>
Tick ==
    /\ env.clock < conf.ticks
    /\ env' = [env EXCEPT !.clock = @ + 1]
    /\ UNCHANGED <<conn, th, g, h>>

RateInit ==
    /\ conf.filter = "rate"
    /\ conn = [c \in Conns |-> "open"]
    /\ g = [b \in Buckets |->
               bucket_init(IF b[2] = "global" THEN conf.rate ELSE conf.connection_rate)]
    /\ h = << >>
    /\ env = [clock |-> 0, requests |-> 0, taken |-> [b \in Buckets |-> 0],
              passed |-> [dir \in {"read", "write"} |-> 0]]
    /\ th = [c \in Conns |-> Thread("idle")]
RateConn(c) == maybe_adjust(c) \/ maybe_sleep(c) \/ rate_next(c)
(***************************************************************************)
(* time-limit: a request more than so long after .open is refused and the  *)
(* connection dropped.  The limit is computed in 32 bits.                  *)
(***************************************************************************)
time_limit_config_complete == (conf.secs * conf.unit) % conf.u32
time_limit_open(c) ==
    /\ conn[c] = "preconnected"
    /\ h' = [h EXCEPT ![c] = env.clock]
    /\ \E next \in {"open", "closed"} : Becomes(c, next)
    /\ UNCHANGED <<th, g, env>>
check_time_limit(c) ==
    LET usecs == time_limit_config_complete
    IN  /\ conn[c] = "open" /\ At(c, "idle")
        /\ IF usecs > 0 /\ env.clock - h[c] > usecs
           THEN /\ Becomes(c, "closed")
                /\ env' = [env EXCEPT !.refused[c] = env.clock - h[c]]
                /\ UNCHANGED th
           ELSE /\ To(c, "next")
                /\ env' = [env EXCEPT !.served[c] = env.clock - h[c]]
                /\ UNCHANGED conn
        /\ UNCHANGED <<g, h>>
time_limit_done(c) ==
    /\ At(c, "next")
    /\ To(c, "idle")
    /\ UNCHANGED <<conn, g, h, env>>

TimeLimitInit ==
    /\ conf.filter = "time-limit"
    /\ conn = [c \in Conns |-> "preconnected"]
    /\ g = << >>
    /\ h = [c \in Conns |-> 0]
    /\ env = [clock |-> 0, refused |-> [c \in Conns |-> -1], served |-> [c \in Conns |-> -1]]
    /\ th = [c \in Conns |-> Thread("idle")]

GatesInit == PauseInit \/ RateInit \/ TimeLimitInit
GatesConn(c) ==
    \/ conf.filter = "pause" /\ (PauseRequest(c) \/ PauseConn(c))
    \/ conf.filter = "rate" /\ (RateRequest(c) \/ RateConn(c))
    \/ conf.filter = "time-limit" /\ (time_limit_open(c) \/ check_time_limit(c) \/ time_limit_done(c))
GatesNext ==
    /\ \/ \E c \in Conns : GatesConn(c)
       \/ conf.filter = "pause" /\ control_socket_thread
       \/ conf.filter \in {"rate", "time-limit"} /\ Tick
    /\ UNCHANGED conf
=============================================================================
