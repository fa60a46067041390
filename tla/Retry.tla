-------------------------------- MODULE Retry --------------------------------
(***************************************************************************)
(* The retry filter, which closes and reopens the plugin when a request    *)
(* fails, and retry-request, which only repeats the request.               *)
(*                                                                         *)
(* A layer is what the plugin offers on one opening: its size and what it  *)
(* can do.  After a reopen it may offer less.                              *)
(***************************************************************************)
EXTENDS FilterThreads

CONSTANT NoContext   \* there is no context of the next layer

RetryCmds == {"pread", "pwrite", "trim", "flush", "zero", "extents", "cache"}
RetryFeature == [pwrite |-> "write", trim |-> "trim", flush |-> "flush", zero |-> "zero",
                 extents |-> "extents", cache |-> "cache"]
RetryNeeds(r) == (IF r.cmd = "pread" THEN {} ELSE {RetryFeature[r.cmd]})
                 \cup (IF r.fua THEN {"fua"} ELSE {})
RetryWrites(cmd) == cmd \in {"pwrite", "trim", "zero"}
(* What the server lets through, given what was offered at the start. *)
RetryRequests ==
    {r \in [cmd : RetryCmds, end : 1 .. h.offered.size, fua : BOOLEAN, fast : BOOLEAN] :
        /\ RetryNeeds(r) \subseteq h.offered.can
        /\ r.fua => RetryWrites(r.cmd)
        /\ r.fast => r.cmd = "zero" /\ "fast_zero" \in h.offered.can
        /\ r.end = 1 \/ (r.end = h.offered.size /\ r.cmd # "flush")}
(***************************************************************************)
(* retry                                                                   *)
(***************************************************************************)
(* Mutant: a plugin that came back smaller is not noticed. *)
valid_range_always(layer, r) == TRUE
valid_range(layer, r) == r.end <= layer.size
(* The error that a request gets before the plugin is called, or 0. *)
RefusedWith(layer, r) ==
    CASE r.cmd # "flush" /\ ~valid_range(layer, r) ->
           IF RetryWrites(r.cmd) THEN "ENOSPC" ELSE "EIO"
      [] r.cmd # "pread" /\ RetryFeature[r.cmd] \notin layer.can ->
           IF RetryWrites(r.cmd) THEN "EROFS" ELSE "EIO"
      [] r.fua /\ "fua" \notin layer.can -> "EIO"
      [] OTHER -> "0"
(* Nothing is written again once the plugin was reopened read-only, and a   *)
(* fast zero is not retried where it is not fast.                           *)
GivesUpWith(r) ==
    CASE RetryWrites(r.cmd) /\ h.reopens > 0 /\ conf.readonly -> "EROFS"
      [] r.fast /\ (~h.open \/ "fast_zero" \notin h.next.can) -> "EOPNOTSUPP"
      [] OTHER -> "0"
(* One pass from `again:' of retry_pread ... retry_cache: the request is    *)
(* given up, refused here, or passed on; then it fails or it is done.       *)
retry_request(c) ==
    LET r == th[c].req
        giveup == GivesUpWith(r)
        refused == IF h.open THEN RefusedWith(h.next, r) ELSE "0"
        fails(err) == [th[c] EXCEPT !.pc = "do_retry", !.failures = @ + 1, !.err = err]
    IN  /\ At(c, "again")
        /\ IF giveup # "0"
           THEN /\ th' = [th EXCEPT ![c].pc = "given up", ![c].err = giveup]
                /\ UNCHANGED env
           ELSE IF ~h.open \/ refused # "0"
           THEN /\ th' = [th EXCEPT ![c] = fails(IF h.open THEN refused ELSE @.err)]
                /\ UNCHANGED env
           ELSE /\ env' = [env EXCEPT !.called = [layer |-> h.next, context |-> h.context]]
                /\ \/ th' = [th EXCEPT ![c].pc = "done"]
                   \/ th' = [th EXCEPT ![c] = fails("EPLUGIN")]
        /\ UNCHANGED <<conn, g, h>>
(* The delay doubles, in seconds and units of a second that carry over. *)
exponential_backoff(d) ==
    IF ~conf.exponential THEN d
    ELSE IF d.nsec * 2 > conf.second
    THEN [sec |-> d.sec * 2 + 1, nsec |-> d.nsec * 2 - conf.second]
    ELSE [sec |-> d.sec * 2, nsec |-> d.nsec * 2]
(* do_retry, one turn of its loop: sleep, close what is open, open again.   *)
(* A context whose .finalize has failed is not closed, and fails again.     *)
do_retry(c) ==
    LET again(failures) == [th[c] EXCEPT !.retry = @ + 1, !.slept = th[c].delay, !.err = "ESHUTDOWN",
                                !.delay = exponential_backoff(@), !.failures = @ + failures]
        reopened == [h EXCEPT !.reopens = Min({@ + 1, 2}), !.open = FALSE]
    IN  /\ At(c, "do_retry")
        /\ \/ /\ th[c].retry >= conf.retries
              /\ To(c, "failed")
              /\ UNCHANGED h
           \/ /\ th[c].retry < conf.retries
              /\ \/ \* the sleep is cut short, the server is going down
                    /\ th' = [th EXCEPT ![c].pc = "interrupted",
                                        ![c].err = IF @ = "0" THEN "ESHUTDOWN" ELSE @]
                    /\ UNCHANGED h
                 \/ \* .finalize fails
                    /\ h.context # NoContext
                    /\ h' = [reopened EXCEPT !.context = "failed"]
                    /\ th' = [th EXCEPT ![c] = again(1)]
                 \/ \* .open or .prepare fails
                    /\ h.context # "failed"
                    /\ h' = [reopened EXCEPT !.context = NoContext]
                    /\ th' = [th EXCEPT ![c] = again(1)]
                 \/ /\ h.context # "failed"
                    /\ \E layer \in conf.layers :
                         h' = [reopened EXCEPT !.context = "connected", !.next = layer,
                                               !.open = TRUE,
                                               !.offered = IF th[c].req.cmd = "open" THEN layer ELSE @]
                    /\ th' = [th EXCEPT ![c] = [again(0) EXCEPT
                                 !.pc = IF th[c].req.cmd = "open" THEN "done" ELSE "again",
                                 !.err = th[c].err]]
        /\ UNCHANGED <<conn, g, env>>

RetryThread(pc, r) ==
    [pc |-> pc, req |-> r, retry |-> 0, failures |-> 0, err |-> "0",
     delay |-> conf.delay, slept |-> [sec |-> 0, nsec |-> 0]]
RetryUser(c) == c = conf.user
OpenRequest == [cmd |-> "open", end |-> 0, fua |-> FALSE, fast |-> FALSE]
retry_open(c) ==
    /\ conn[c] = "new"
    /\ Becomes(c, "open")
    /\ \/ \E layer \in conf.layers :
            /\ h' = [h EXCEPT !.open = TRUE, !.context = "connected", !.next = layer,
                              !.offered = layer]
            /\ th' = [th EXCEPT ![c] = RetryThread("done", OpenRequest)]
       \/ /\ th' = [th EXCEPT ![c] = [RetryThread("do_retry", OpenRequest)
                                         EXCEPT !.err = "ESHUTDOWN", !.failures = 1]]
          /\ UNCHANGED h
    /\ UNCHANGED <<g, env>>
RetryRequest(c) ==
    /\ conn[c] = "open" /\ At(c, "idle")
    /\ env.ops < conf.ops
    /\ env' = [env EXCEPT !.ops = @ + 1]
    /\ \E r \in RetryRequests : th' = [th EXCEPT ![c] = RetryThread("again", r)]
    /\ UNCHANGED <<conn, g, h>>
(* The answer.  A failed open closes the connection. *)
RetryReply(c) ==
    /\ th[c].pc \in {"done", "failed", "interrupted", "given up"}
    /\ IF th[c].req.cmd = "open" /\ ~At(c, "done") THEN Becomes(c, "closed") ELSE UNCHANGED conn
    /\ th' = [th EXCEPT ![c] = Thread("idle")]
    /\ UNCHANGED <<g, h, env>>
retry_close(c) ==
    /\ conn[c] = "open" /\ At(c, "idle")
    /\ Becomes(c, "closed")
    /\ UNCHANGED <<th, g, h, env>>
(***************************************************************************)
(* retry-request: RETRY_START ... RETRY_END around .open, .get_size and     *)
(* every request.                                                          *)
(***************************************************************************)
RETRY_START(c) ==
    /\ At(c, "again") \/ At(c, "do_retry")
    /\ \/ /\ At(c, "do_retry") /\ th[c].retry < conf.retries
          /\ th' = [th EXCEPT ![c].pc = "interrupted"]
          /\ UNCHANGED env
       \/ /\ At(c, "do_retry") => th[c].retry < conf.retries
          /\ env' = [env EXCEPT !.called = [layer |-> h.next, context |-> h.context]]
          /\ LET i == IF At(c, "do_retry") THEN th[c].retry + 1 ELSE 0
             IN  \/ th' = [th EXCEPT ![c].pc = "done", ![c].retry = i]
                 \/ th' = [th EXCEPT ![c] = [@ EXCEPT !.pc = "do_retry", !.retry = i,
                                               !.failures = @ + 1, !.err = "EPLUGIN"]]
       \/ /\ At(c, "do_retry") /\ th[c].retry >= conf.retries
          /\ To(c, "failed")
          /\ UNCHANGED env
    /\ UNCHANGED <<conn, g, h>>
retry_request_open(c) ==
    /\ conn[c] = "new"
    /\ Becomes(c, "open")
    /\ th' = [th EXCEPT ![c] = RetryThread("again", OpenRequest)]
    /\ \E layer \in conf.layers :
         h' = [h EXCEPT !.open = TRUE, !.context = "connected", !.next = layer, !.offered = layer]
    /\ UNCHANGED <<g, env>>

NoLayer == [size |-> 0, can |-> {}]
RetryInit ==
    /\ conf.filter \in {"retry", "retry-request"}
    /\ conn = [c \in Conns |-> IF RetryUser(c) THEN "new" ELSE "closed"]
    /\ g = << >>
    /\ h = [open |-> FALSE, reopens |-> 0, context |-> NoContext, next |-> NoLayer,
            offered |-> NoLayer]
    /\ env = [ops |-> 0, called |-> [layer |-> NoLayer, context |-> "connected"]]
    /\ th = [c \in Conns |-> Thread("idle")]
RetryNext ==
    /\ \E c \in Conns :
         \/ /\ conf.filter = "retry"
            /\ retry_open(c) \/ retry_request(c) \/ do_retry(c)
         \/ /\ conf.filter = "retry-request"
            /\ retry_request_open(c) \/ RETRY_START(c)
         \/ /\ conf.filter \in {"retry", "retry-request"}
            /\ RetryRequest(c) \/ RetryReply(c) \/ retry_close(c)
    /\ UNCHANGED conf
=============================================================================
