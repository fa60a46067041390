------------------------------ MODULE Prefetch ------------------------------
(***************************************************************************)
(* The readahead and scan filters: a background thread for each connection *)
(* asks the plugin to cache what the client will read next.                *)
(***************************************************************************)
EXTENDS FilterThreads

QUIT == [type |-> "QUIT"]
send_command_to_background_thread(c, cmd) == [h EXCEPT ![c].cmds = Append(@, cmd)]
Bg(c, pc) == h[c].bg = pc
(* The call of next->cache by a background thread.  It passes no place for  *)
(* an error: the plugin's failure to cache is a write through NULL.         *)
Prefetching(c) == Bg(c, "cache")
CacheReturns(c, pc, step) ==
    \/ /\ h' = [h EXCEPT ![c].bg = pc, ![c].offset = @ + step]
       /\ env' = [env EXCEPT !.cached[c] = @ \cup (h[c].offset .. (h[c].offset + h[c].count - 1))]
    \/ /\ conf.failures
       /\ env' = [env EXCEPT !.crashed = TRUE]
       /\ UNCHANGED h
(***************************************************************************)
(* readahead.  The window and the last offsets are those of all            *)
(* connections, under their own lock.                                      *)
(***************************************************************************)
filter_working(c) == h[c].can_cache = "native" /\ conf.thread_model = "PARALLEL"
readahead_open(c) ==
    /\ conn[c] = "new"
    /\ Becomes(c, "open")
    /\ h' = [h EXCEPT ![c].bg = "wait"]
    /\ UNCHANGED <<th, g, env>>
readahead_can_cache(c) ==
    /\ conn[c] = "open" /\ h[c].can_cache = "unknown"
    /\ h' = [h EXCEPT ![c].can_cache = conf.can_cache]
    /\ UNCHANGED <<conn, th, g, env>>
PrefetchRead(c) ==
    /\ conn[c] = "open" /\ At(c, "idle")
    /\ conf.filter = "readahead" => h[c].can_cache # "unknown"
    /\ env.ops < conf.ops
    /\ env' = [env EXCEPT !.ops = @ + 1]
    /\ \E offset \in 0 .. conf.size - 1, count \in conf.counts :
         /\ offset + count <= conf.size
         /\ th' = [th EXCEPT ![c] = [pc |-> "pread", offset |-> offset, count |-> count]]
    /\ UNCHANGED <<conn, g, h>>
NextWindow(offset) ==
    CASE g.last_readahead < offset -> Min({g.window * 2, conf.READAHEAD_MAX})
      [] g.last_readahead >= offset /\ g.last_offset < offset -> g.window
      [] OTHER -> conf.READAHEAD_MIN
readahead_pread(c) ==
    LET ahead == th[c].offset + th[c].count
        count == IF ahead < conf.size THEN Min({g.window, conf.size - ahead}) ELSE 0
    IN  /\ At(c, "pread")
        /\ IF filter_working(c)
           THEN /\ g' = [window |-> NextWindow(th[c].offset), last_offset |-> th[c].offset,
                         last_readahead |-> ahead + count]
                /\ th' = [th EXCEPT ![c] = IF count = 0 THEN Thread("next")
                                           ELSE [pc |-> "send", cmd |-> [type |-> "CACHE",
                                                     offset |-> ahead, count |-> count]]]
           ELSE To(c, "next") /\ UNCHANGED g
        /\ UNCHANGED <<conn, h, env>>
readahead_send(c) ==
    /\ At(c, "send")
    /\ h' = send_command_to_background_thread(c, th[c].cmd)
    /\ To(c, "next")
    /\ UNCHANGED <<conn, g, env>>
readahead_thread(c) ==
    \/ /\ Bg(c, "wait") /\ h[c].cmds # << >>
       /\ LET cmd == Head(h[c].cmds)
          IN  h' = [h EXCEPT ![c] = IF cmd = QUIT THEN [@ EXCEPT !.cmds = Tail(@), !.bg = "exited"]
                                    ELSE [@ EXCEPT !.cmds = Tail(@), !.bg = "cache",
                                                   !.offset = cmd.offset, !.count = cmd.count]]
       /\ UNCHANGED <<conn, th, g, env>>
    \/ /\ Bg(c, "cache")
       /\ CacheReturns(c, "wait", 0)
       /\ UNCHANGED <<conn, th, g>>
(***************************************************************************)
(* scan.  The clock, the furthest offset of any connection, has a lock.    *)
(***************************************************************************)
scan_prepare(c) ==
    /\ conn[c] = "new"
    /\ Becomes(c, "open")
    /\ IF conf.default_export /\ conf.thread_model = "PARALLEL" /\ conf.can_cache = "native"
       THEN h' = [h EXCEPT ![c].bg = "get_size", ![c].running = TRUE]
       ELSE UNCHANGED h
    /\ UNCHANGED <<th, g, env>>
scan_pread(c) ==
    /\ At(c, "pread")
    /\ h' = IF conf.scan_ahead /\ h[c].running
            THEN send_command_to_background_thread(c,
                     [type |-> "NOTIFY_PREAD", offset |-> th[c].offset + th[c].count])
            ELSE h
    /\ env' = [env EXCEPT !.cached[c] = @ \cup (0 .. th[c].offset + th[c].count - 1)]
    /\ To(c, "next")
    /\ UNCHANGED <<conn, g>>
get_starting_offset == IF conf.scan_clock THEN g.clock ELSE 0
(* Mutants: a block too far ahead; QUIT is taken off the queue and forgotten. *)
CommandsTooFar(c) ==
    IF QUIT \in ToSet(h[c].cmds) THEN [h EXCEPT ![c].bg = "exited", ![c].cmds = << >>]
    ELSE [h EXCEPT ![c].bg = "clock", ![c].cmds = << >>,
                   ![c].offset = Max({@} \cup {cmd.offset + 1 : cmd \in ToSet(h[c].cmds)})]
CommandsWithoutQuit(c) == [h EXCEPT ![c].bg = "clock", ![c].cmds = << >>]
(* Every command in the queue, with the lock held: a QUIT ends the thread,  *)
(* the others move it ahead of the client.                                  *)
Commands(c) ==
    LET cmds == ToSet(h[c].cmds)
        ahead == Max({h[c].offset} \cup {cmd.offset : cmd \in cmds \ {QUIT}})
    IN  IF QUIT \in cmds THEN [h EXCEPT ![c].bg = "exited", ![c].cmds = << >>]
        ELSE [h EXCEPT ![c].bg = "clock", ![c].cmds = << >>, ![c].offset = ahead]
adjust_clock(offset) == [g EXCEPT !.clock = Max({@, offset})]
reset_clock == [g EXCEPT !.clock = 0]
scan_thread(c) ==
    \/ /\ Bg(c, "get_size")
       /\ \E pc \in {"start", "failed"} : h' = [h EXCEPT ![c].bg = pc]
       /\ UNCHANGED <<conn, th, g, env>>
    \/ /\ Bg(c, "start")
       /\ h' = [h EXCEPT ![c].bg = "loop", ![c].offset = get_starting_offset]
       /\ env' = [env EXCEPT !.cached[c] = @ \cup (0 .. get_starting_offset - 1)]
       /\ UNCHANGED <<conn, th, g>>
    \/ /\ Bg(c, "loop") /\ h[c].offset < conf.size
       /\ h' = Commands(c)
       /\ UNCHANGED <<conn, th, g, env>>
    \/ /\ Bg(c, "clock")
       /\ g' = adjust_clock(h[c].offset)
       /\ h' = [h EXCEPT ![c] =
                  IF @.offset < conf.size
                  THEN [@ EXCEPT !.bg = "cache", !.count = Min({conf.scan_size, conf.size - h[c].offset})]
                  ELSE [@ EXCEPT !.bg = "loop", !.offset = @ + conf.scan_size]]
       /\ UNCHANGED <<conn, th, env>>
    \/ /\ Bg(c, "cache")
       /\ CacheReturns(c, "loop", conf.scan_size)
       /\ UNCHANGED <<conn, th, g>>
    \/ /\ Bg(c, "loop") /\ h[c].offset >= conf.size
       /\ IF conf.scan_forever THEN /\ g' = reset_clock
                                    /\ h' = [h EXCEPT ![c].bg = "start"]
                               ELSE /\ h' = [h EXCEPT ![c].bg = "finished"]
                                    /\ UNCHANGED g
       /\ UNCHANGED <<conn, th, env>>
(***************************************************************************)
(* Both: the read itself, and the end of the connection, which sends QUIT  *)
(* and waits for the thread.  readahead does so in .close, scan in         *)
(* .finalize if the thread was started.                                    *)
(***************************************************************************)
PrefetchNext(c) ==
    /\ At(c, "next")
    /\ th' = [th EXCEPT ![c] = Thread("idle")]
    /\ UNCHANGED <<conn, g, h, env>>
Ended(c) == h[c].bg \in {"none", "exited", "finished", "failed"}
PrefetchClose(c) ==
    \/ /\ conn[c] = "open" /\ At(c, "idle")
       /\ IF conf.filter = "scan" /\ ~h[c].running
          THEN Becomes(c, "closed") /\ UNCHANGED <<th, h>>
          ELSE /\ h' = send_command_to_background_thread(c, QUIT)
               /\ To(c, "join")
               /\ UNCHANGED conn
       /\ UNCHANGED <<g, env>>
    \/ /\ At(c, "join") /\ Ended(c)
       /\ h' = [h EXCEPT ![c].cmds = << >>, ![c].running = FALSE]
       /\ To(c, "idle") /\ Becomes(c, "closed")
       /\ UNCHANGED <<g, env>>

PrefetchInit ==
    /\ conf.filter \in {"readahead", "scan"}
    /\ conn = [c \in Conns |-> "new"]
    /\ g = IF conf.filter = "scan" THEN [clock |-> 0]
           ELSE [window |-> conf.READAHEAD_MIN, last_offset |-> 0, last_readahead |-> 0]
    /\ h = [c \in Conns |-> [bg |-> "none", cmds |-> << >>, running |-> FALSE, offset |-> 0,
                             count |-> 0, can_cache |-> "unknown"]]
    /\ env = [ops |-> 0, cached |-> [c \in Conns |-> {}], crashed |-> FALSE]
    /\ th = [c \in Conns |-> Thread("idle")]
PrefetchThread(c) ==
    \/ conf.filter = "readahead" /\ readahead_thread(c)
    \/ conf.filter = "scan" /\ scan_thread(c)
PrefetchConn(c) ==
    \/ /\ conf.filter = "readahead"
       /\ readahead_open(c) \/ readahead_can_cache(c) \/ readahead_pread(c) \/ readahead_send(c)
    \/ conf.filter = "scan" /\ (scan_prepare(c) \/ scan_pread(c))
    \/ PrefetchRead(c) \/ PrefetchNext(c) \/ PrefetchClose(c)
PrefetchStep ==
    /\ conf.filter \in {"readahead", "scan"}
    /\ ~env.crashed
    /\ \E c \in Conns : PrefetchThread(c) \/ PrefetchConn(c)
    /\ UNCHANGED conf
=============================================================================
