--------------------------- MODULE MCFilterThreads ---------------------------
(***************************************************************************)
(* The filters that order, count, delay or repeat calls, each with the     *)
(* configurations below.  Every behaviour is one of one filter.            *)
(***************************************************************************)
EXTENDS FilterThreads, MultiConn, Retry, Prefetch

CONSTANTS c1, c2

Limit(n) == [filter |-> "limit", limit |-> n]
Exitwhen(events) == [filter |-> "exitwhen", events |-> events, errors |-> 1]
Rate(rate, connection_rate, rates, bits) ==
    [filter |-> "rate", rate |-> rate, connection_rate |-> connection_rate, burst |-> 2,
     unit |-> 2, rates |-> rates, bits |-> bits, requests |-> 2, ticks |-> 4]
TimeLimit(secs) == [filter |-> "time-limit", secs |-> secs, unit |-> 2, u32 |-> 8, ticks |-> 5]
MultiConnOf(mode, track, multi, fua, byname, ops) ==
    [filter |-> "multi-conn", mode |-> mode, track |-> track, can_multi_conn |-> multi,
     can_fua |-> fua, can_flush |-> TRUE, byname |-> byname, thread_model |-> "PARALLEL",
     exportname |-> (c1 :> "a" @@ c2 :> "b"), ops |-> ops, patient |-> track # "OFF"]
RetryOf(filter, retries, readonly, exponential, ops) ==
    [filter |-> filter, retries |-> retries, readonly |-> readonly, exponential |-> exponential,
     delay |-> [sec |-> 1, nsec |-> 3], second |-> 4, user |-> c1, ops |-> ops,
     layers |-> {[size |-> 2, can |-> {"write", "trim", "flush", "zero", "fast_zero", "extents",
                                       "cache", "fua"}],
                 [size |-> 1, can |-> {"write", "zero", "flush"}]}]
Readahead(can_cache) ==
    [filter |-> "readahead", thread_model |-> "PARALLEL", can_cache |-> can_cache, size |-> 4,
     counts |-> {1}, READAHEAD_MIN |-> 1, READAHEAD_MAX |-> 2, ops |-> 3, failures |-> FALSE]
Scan(ahead, clock, forever, size, ops) ==
    [filter |-> "scan", thread_model |-> "PARALLEL", can_cache |-> "native", size |-> size,
     counts |-> {1, 2}, ops |-> ops, failures |-> FALSE, default_export |-> TRUE, scan_size |-> 2,
     scan_ahead |-> ahead, scan_clock |-> clock, scan_forever |-> forever]
MCConfigs ==
    {Limit(0), Limit(1), [filter |-> "exitlast"], [filter |-> "pause"],
     Exitwhen({"process-exits"}), Exitwhen({"file-created", "pipe-closed"}),
     Rate(2, 0, {}, {3, 5}), Rate(3, 2, {}, {3}), Rate(2, 0, {1}, {5}), TimeLimit(0), TimeLimit(1),
     MultiConnOf("AUTO", "CONN", FALSE, "NATIVE", FALSE, 4),
     MultiConnOf("EMULATE", "FAST", FALSE, "EMULATE", FALSE, 3),
     MultiConnOf("EMULATE", "OFF", FALSE, "NONE", TRUE, 3),
     MultiConnOf("EMULATE", "OFF", FALSE, "EMULATE", FALSE, 3),
     MultiConnOf("AUTO", "CONN", TRUE, "NATIVE", FALSE, 3),
     MultiConnOf("PLUGIN", "FAST", TRUE, "NATIVE", FALSE, 3),
     MultiConnOf("DISABLE", "CONN", FALSE, "NATIVE", FALSE, 3),
     MultiConnOf("UNSAFE", "CONN", FALSE, "NONE", FALSE, 3),
     [MultiConnOf("EMULATE", "CONN", FALSE, "NONE", FALSE, 3) EXCEPT !.can_flush = FALSE],
     [MultiConnOf("AUTO", "OFF", FALSE, "NONE", FALSE, 3)
         EXCEPT !.thread_model = "SERIALIZE_CONNECTIONS"],
     RetryOf("retry", 0, FALSE, FALSE, 2), RetryOf("retry", 2, FALSE, TRUE, 2),
     RetryOf("retry", 1, TRUE, FALSE, 2), RetryOf("retry-request", 2, FALSE, FALSE, 2),
     Readahead("native"), Readahead("none"),
     [Readahead("native") EXCEPT !.failures = TRUE, !.ops = 1],
     Scan(TRUE, TRUE, FALSE, 5, 1), Scan(FALSE, FALSE, TRUE, 3, 0), Scan(TRUE, TRUE, TRUE, 3, 1),
     [Scan(FALSE, FALSE, FALSE, 3, 0) EXCEPT !.failures = TRUE],
     [Scan(TRUE, FALSE, FALSE, 3, 1) EXCEPT !.default_export = FALSE]}

Init ==
    /\ conf \in FConfigs
    /\ AdmissionInit \/ GatesInit \/ MultiConnInit \/ RetryInit \/ PrefetchInit
Next == AdmissionNext \/ GatesNext \/ MultiConnNext \/ RetryNext \/ PrefetchStep
(* Every thread of the server goes on when it can; clients need not ask,    *)
(* leave or come.                                                           *)
Fairness ==
    /\ WF_fvars(conf.filter = "exitwhen" /\ AdmissionPoll /\ UNCHANGED conf)
    /\ WF_fvars(conf.filter = "pause" /\ control_socket_thread /\ UNCHANGED conf)
    /\ \A c \in Conns :
         /\ WF_fvars(conf.filter = "exitlast" /\ At(c, "shutdown") /\ exitlast_close(c)
                     /\ UNCHANGED conf)
         /\ WF_fvars(conf.filter = "pause" /\ PauseConn(c) /\ UNCHANGED conf)
         /\ WF_fvars(conf.filter \in {"readahead", "scan"} /\ PrefetchThread(c) /\ UNCHANGED conf)
         /\ WF_fvars(conf.filter \in {"readahead", "scan"} /\ At(c, "join") /\ PrefetchClose(c)
                     /\ UNCHANGED conf)
Spec == Init /\ [][Next]_fvars /\ Fairness

(***************************************************************************)
(* Properties.                                                             *)
(***************************************************************************)
(* The count is the number of open connections, whatever order they come    *)
(* and go in, and never more than the limit, although it is checked before  *)
(* the handshake and again when the connection opens.  (limit_preconnect,   *)
(* limit_open, limit_close, exitlast_open, exitwhen_open)                   *)
CountIsRight ==
    conf.filter \in {"limit", "exitlast", "exitwhen"} =>
        /\ g.connections = Cardinality({c \in Open : ~At(c, "shutdown")})
        /\ conf.filter = "limit" /\ conf.limit > 0 => Cardinality(Open) <= conf.limit

(* exitwhen shuts the server down only while nobody is connected, and after *)
(* that nobody new gets in except who was on the way.  (polling_thread,     *)
(* exitwhen_close, exitwhen_preconnect)                                     *)
ExitsWhenAlone ==
    [][conf.filter = "exitwhen" =>
          /\ env'.quit /\ ~env.quit => Open' = {} /\ g'.exiting
          /\ \A c \in Conns : conn[c] = "new" /\ conn'[c] = "preconnected" => ~g'.exiting]_fvars

(* From the answer P until the next command r is obeyed, no request that     *)
(* the filter sees is inside the plugin.  (begin_request, do_pause)          *)
PausedMeansQuiet ==
    conf.filter = "pause" /\ env.told = "answer P" /\ ~At("control", "answer R") =>
        \A c \in Conns : At(c, "next") => th[c].cmd = "flush"

(* rate: over any time since the start, a bucket gives out no more than a    *)
(* full bucket and what the rate makes in that time, for all threads         *)
(* together, and never goes below zero or over its capacity.  time-limit:    *)
(* no request is served after the limit, none refused before.  (bucket_run,  *)
(* maybe_sleep, check_time_limit)                                            *)
GatesHold ==
    /\ conf.filter = "rate" =>
         \A b \in Buckets :
            LET rates == conf.rates \cup {conf.rate, conf.connection_rate}
            IN  /\ g[b].level \in 0 .. g[b].capacity
                /\ env.taken[b] * conf.unit <= Max(rates) * (conf.burst * conf.unit + env.clock)
                /\ b[2] = "global" /\ conf.rate > 0 => env.passed[b[1]] <= env.taken[b]
    /\ conf.filter = "time-limit" /\ conf.secs > 0 =>
         \A c \in Conns : /\ env.served[c] <= conf.secs * conf.unit
                          /\ env.refused[c] # -1 => env.refused[c] > conf.secs * conf.unit

(* The filters that let requests in, or connections, keep their count,       *)
(* their limit, their pause and their rate, whatever the threads do.         *)
AdmissionHolds == CountIsRight /\ PausedMeansQuiet /\ GatesHold

(* A flush that succeeds has made durable every write that was answered       *)
(* before it was sent: those of its connection, and those of the group where  *)
(* the client was told that it may count on it; so has FUA for its own write. *)
(* A read sent after that answer sees them.  (multi_conn_flush, mark_dirty)   *)
FlushCovers ==
    conf.filter = "multi-conn" =>
        \A c \in Conns :
            At(c, "done") =>
                LET shared == h[c].mode # "UNSAFE" /\ multi_conn_can_multi_conn(c)
                    covered == {w[3] : w \in {v \in th[c].promised :
                                   v[1] = h[c].group /\ (shared \/ v[2] = c)}}
                IN  /\ th[c].cmd = "flush" => covered \subseteq env.backing
                    /\ th[c].cmd = "read" => covered \subseteq th[c].data
                    /\ th[c].cmd = "write_fua" => th[c].write \in env.backing

(* A request fails only when it has failed once more than the retries that    *)
(* were asked for, and with an error; the waits are the initial delay,        *)
(* doubled each time if so asked.  The plugin is only ever called on an open  *)
(* connection and within what it offers since the last reopen, which          *)
(* backend.c asserts.  (do_retry, retry_pread ... retry_cache, RETRY_START)   *)
RetryIsHonest ==
    conf.filter \in {"retry", "retry-request"} =>
        \A c \in Conns : ~At(c, "idle") =>
            /\ At(c, "failed") => th[c].failures = conf.retries + 1 /\ th[c].err # "0"
            /\ th[c].pc \in {"given up", "interrupted"} => th[c].err # "0"
            /\ conf.exponential /\ th[c].retry > 0 =>
                 LET units(d) == d.sec * conf.second + d.nsec
                 IN  units(th[c].slept) = units(conf.delay) * 2 ^ (th[c].retry - 1)
            /\ At(c, "done") => h.open /\ h.context = "connected"
            /\ At(c, "done") /\ th[c].req.cmd # "open" /\ conf.filter = "retry" =>
                 /\ env.called.layer = h.next
                 /\ th[c].req.cmd # "flush" => th[c].req.end <= h.next.size
                 /\ RetryNeeds(th[c].req) \subseteq h.next.can

(* A background thread prefetches only what is inside the disk, on a          *)
(* connection that is not closed; and a scan that ends by itself has left no  *)
(* gap but what the client read first or another connection scanned.          *)
(* (readahead_pread, scan_thread, backend_cache)                              *)
PrefetchIsValid ==
    conf.filter \in {"readahead", "scan"} =>
        \A c \in Conns :
            /\ Prefetching(c) => /\ h[c].count > 0
                                 /\ h[c].offset + h[c].count <= conf.size
                                 /\ conn[c] = "open"
            /\ Bg(c, "finished") => 0 .. conf.size - 1 \subseteq env.cached[c]

(* A pause is answered: once p has come, the requests in the plugin return     *)
(* and no new one gets in before the answer.  A server with exitwhen exits     *)
(* once a process or a pipe is gone, unless somebody is connected.  A client   *)
(* that leaves does not wait for ever for its background thread, while the     *)
(* server is alive.  (do_pause, polling_thread, readahead_close, scan_finalize) *)
NobodyWaitsForEver ==
    /\ (conf.filter = "pause" /\ At("control", "p")) ~> (conf.filter = "pause" /\ At("control", "answer P"))
    /\ (conf.filter = "exitwhen" /\ (\E e \in env.happened : Lasting(e)))
            ~> (conf.filter = "exitwhen" /\ (env.quit \/ Open # {}))
    /\ (conf.filter = "exitlast" /\ (\E c \in Conns : At(c, "shutdown")))
            ~> (conf.filter = "exitlast" /\ env.quit)
    /\ \A c \in Conns : (conf.filter \in {"readahead", "scan"} /\ At(c, "join"))
                            ~> (conf.filter \in {"readahead", "scan"} /\ (conn[c] = "closed" \/ env.crashed))
=============================================================================
