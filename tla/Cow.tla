--------------------------------- MODULE Cow ---------------------------------
(***************************************************************************)
(* The copy-on-write filter (filters/cow).  Writes go to a temporary file, *)
(* the overlay, and a bitmap says for each block whether to read it from   *)
(* the overlay, as zeroes, or from the plugin.  `lock` protects the bitmap *)
(* only; `rmw_lock` is held over the read-modify-write of a partial block. *)
(* Taking a lock is part of the first step under it, releasing it part of  *)
(* the last.                                                               *)
(***************************************************************************)
EXTENDS BlockFilters

NOT_ALLOCATED == "not allocated"
ALLOCATED == "allocated"
TRIMMED == "trimmed"

(* cow_config: the block size is a power of 2 of at least MinBlk. *)
cow_config(c, MinBlk) == c.bs >= MinBlk /\ \E k \in 0 .. 30 : c.bs = 2 ^ k

(* blk_init and blk_set_size, which cow_prepare calls for every connection  *)
(* with the same size: an empty overlay, nothing allocated.                 *)
CowState == [overlay |-> [b \in Blocks(config.bs) |->
                             [i \in BlockBytes(b, config.bs) |-> Zero]],
             bm |-> [b \in Blocks(config.bs) |-> NOT_ALLOCATED]]
CowLocks == [lock |-> NoThread, rmw_lock |-> NoThread]

(* cow_on_read: with a path, whether the file exists at this moment. *)
cow_on_read == CASE config.cor = "ON" -> {TRUE}
                 [] config.cor = "OFF" -> {FALSE}
                 [] config.cor = "PATH" -> BOOLEAN
(***************************************************************************)
(* The loops of the callbacks over head, whole blocks and tail: the step   *)
(* that is due at offset off with cnt bytes left.                          *)
(***************************************************************************)
cow_pread(off, cnt) == "state"
cow_pwrite(off, cnt) == IF Partial(off, cnt, config.bs) THEN "state" ELSE "write"
cow_zero(off, cnt) == IF Partial(off, cnt, config.bs) THEN "state" ELSE "write"
cow_trim(off, cnt) == IF Partial(off, cnt, config.bs) THEN "state" ELSE "set"
CowNext(cmd, off, cnt) ==
    IF cnt = 0 THEN "done"
    ELSE CASE cmd = "read" -> cow_pread(off, cnt)
           [] cmd = "write" -> cow_pwrite(off, cnt)
           [] cmd = "zero" -> cow_zero(off, cnt)
           [] cmd = "trim" -> cow_trim(off, cnt)
           [] cmd \in {"cache", "extents"} -> cmd
CowAdvance(t, n, data) ==
    LET left == IF n > th[t].cnt THEN 0 ELSE th[t].cnt - n
    IN  [pc |-> CowNext(req[t].cmd, th[t].off + n, left), ok |-> TRUE,
         off |-> th[t].off + n, cnt |-> left, data |-> data]
CowUnlock(t) == lk' = [l \in DOMAIN lk |-> IF lk[l] = t THEN NoThread ELSE lk[l]]
CowFail(t) == Fault /\ Fail(t) /\ CowUnlock(t) /\ UNCHANGED st

(* A callback is entered.  A fast zero is refused, a flush is ignored, the  *)
(* range of cache and extents is rounded out to blocks.                     *)
CowBegin(t, r) ==
    LET bs == config.bs
        end == ROUND_UP(r.off + r.cnt, bs)
        out == [r EXCEPT !.off = ROUND_DOWN(@, bs),
                         !.cnt = end - ROUND_DOWN(r.off, bs)]
        from == IF r.cmd \in {"cache", "extents"} THEN out ELSE r
    IN  Begin(t, r,
            CASE r.cmd = "flush" -> Working("done", r)
              [] r.cmd = "zero" /\ "fast" \in r.flags -> [Working("done", r) EXCEPT !.ok = FALSE]
              [] OTHER -> Working(CowNext(r.cmd, from.off, from.cnt), from))
(***************************************************************************)
(* blk_read_multiple.  The state of a run of blocks is looked up under the *)
(* lock, and the blocks are read after it is released.                     *)
(***************************************************************************)
CowRun(b, nr) ==
    CHOOSE n \in 1 .. nr :
        /\ \A i \in 0 .. n - 1 : st.bm[b + i] = st.bm[b]
        /\ n < nr => st.bm[b + n] # st.bm[b]
(* Mutant: the block is read without rmw_lock. *)
CowLookupUnlocked(t) ==
    LET b == BlkOf(th[t].off, config.bs)
        nr == IF Partial(th[t].off, th[t].cnt, config.bs) \/ req[t].cmd # "read"
              THEN 1 ELSE th[t].cnt \div config.bs
    IN  /\ th[t].pc = "state"
        /\ lk.lock = NoThread
        /\ \E cor \in cow_on_read :
             With(t, "data", [state |-> st.bm[b], run |-> CowRun(b, nr), cor |-> cor])
        /\ UNCHANGED <<st, lk, plugin, faults>>
CowLookup(t) ==
    LET b == BlkOf(th[t].off, config.bs)
        nr == IF Partial(th[t].off, th[t].cnt, config.bs) \/ req[t].cmd # "read"
              THEN 1 ELSE th[t].cnt \div config.bs
    IN  /\ th[t].pc = "state"
        /\ lk.lock = NoThread
        /\ IF req[t].cmd = "read" THEN UNCHANGED lk
           ELSE /\ lk.rmw_lock = NoThread
                /\ lk' = [lk EXCEPT !.rmw_lock = t]
        /\ \E cor \in cow_on_read :
             With(t, "data", [state |-> st.bm[b], run |-> CowRun(b, nr), cor |-> cor])
        /\ UNCHANGED <<st, plugin, faults>>

(* The run as read from where the lookup said.  A block that reaches past   *)
(* the end of the plugin has a tail of zeroes.                              *)
CowRunBytes(t) == Span(ROUND_DOWN(th[t].off, config.bs), th[t].run * config.bs)
CowBlocks(t) == {BlkOf(i, config.bs) : i \in CowRunBytes(t)}
CowBuffer(t) ==
    [i \in CowRunBytes(t) |->
        CASE th[t].state = NOT_ALLOCATED -> IF i \in Bytes THEN disk[i] ELSE Zero
          [] th[t].state = ALLOCATED -> st.overlay[BlkOf(i, config.bs)][i]
          [] th[t].state = TRIMMED -> Zero]

(* What the caller does with a run: a read takes the bytes it wants and     *)
(* goes on, a read-modify-write changes its bytes and writes the block.     *)
CowUse(t, buf) ==
    LET r == req[t]
        mine == Span(r.off, r.cnt) \cap DOMAIN buf
    IN  IF r.cmd = "read"
        THEN CowAdvance(t, Min({th[t].cnt, Max(DOMAIN buf) + 1 - th[t].off}),
                        [i \in mine |-> buf[i]] @@ th[t].data)
        ELSE [buf |-> [i \in DOMAIN buf |-> IF i \in mine THEN r.val ELSE buf[i]]]
             @@ [th[t] EXCEPT !.pc = "write"]
CowRead(t) ==
    /\ th[t].pc = "data"
    /\ \/ /\ th[t].state # TRIMMED
          /\ CowFail(t)
       \/ /\ IF th[t].state = NOT_ALLOCATED /\ th[t].cor
             THEN With(t, "cor_write", [buf |-> CowBuffer(t)])
             ELSE th' = [th EXCEPT ![t] = CowUse(t, CowBuffer(t))]
          /\ UNCHANGED <<st, lk, faults>>
    /\ UNCHANGED plugin

(* cow-on-read: the run is copied to the overlay, then the bitmap is        *)
(* changed, without the lock.  Four blocks share a byte of the bitmap, so   *)
(* the bits of the others are those that were read with it.                 *)
CowOnReadWrite(t) ==
    /\ th[t].pc = "cor_write"
    /\ \/ CowFail(t)
       \/ /\ st' = [st EXCEPT !.overlay = [b \in DOMAIN @ |->
                IF b \in CowBlocks(t) THEN [i \in DOMAIN @[b] |-> th[t].buf[i]] ELSE @[b]]]
          /\ Goto(t, "cor_get")
          /\ UNCHANGED <<lk, faults>>
    /\ UNCHANGED plugin
CowOnReadGet(t) ==
    /\ th[t].pc = "cor_get"
    /\ With(t, "cor_set", [bits |-> st.bm])
    /\ UNCHANGED <<st, lk, faults, plugin>>
CowOnReadSet(t) ==
    /\ th[t].pc = "cor_set"
    /\ st' = [st EXCEPT !.bm = [b \in DOMAIN @ |->
          IF b \in CowBlocks(t) THEN ALLOCATED
          ELSE IF \E c \in CowBlocks(t) : b \div 4 = c \div 4 THEN th[t].bits[b]
          ELSE @[b]]]
    /\ th' = [th EXCEPT ![t] = CowUse(t, th[t].buf)]
    /\ UNCHANGED <<lk, faults, plugin>>
(***************************************************************************)
(* blk_write and blk_trim: the overlay first, then the bitmap.             *)
(***************************************************************************)
CowWrite(t) ==
    LET b == BlkOf(th[t].off, config.bs)
        block == IF "buf" \in DOMAIN th[t] THEN th[t].buf
                 ELSE [i \in BlockBytes(b, config.bs) |-> req[t].val]
    IN  /\ th[t].pc = "write"
        /\ \/ CowFail(t)
           \/ /\ st' = [st EXCEPT !.overlay[b] = block]
              /\ Goto(t, "set")
              /\ UNCHANGED <<lk, faults>>
        /\ UNCHANGED plugin
CowSet(t) ==
    LET b == BlkOf(th[t].off, config.bs)
        part == Partial(th[t].off, th[t].cnt, config.bs)
    IN  /\ th[t].pc = "set"
        /\ lk.lock = NoThread
        /\ st' = [st EXCEPT !.bm[b] =
              IF req[t].cmd = "trim" /\ ~part THEN TRIMMED ELSE ALLOCATED]
        /\ th' = [th EXCEPT ![t] =
              CowAdvance(t, Segment(th[t].off, th[t].cnt, config.bs), th[t].data)]
        /\ CowUnlock(t)
        /\ UNCHANGED <<faults, plugin>>
(***************************************************************************)
(* cow_cache and blk_cache, one block at a time with the lock held: what   *)
(* happens depends on what the plugin can do and on cow-on-cache.          *)
(***************************************************************************)
cow_cache_mode == IF config.onCache THEN "COW"
                  ELSE CASE config.canCache = "none" -> "IGNORE"
                         [] config.canCache = "emulate" -> "READ"
                         [] config.canCache = "native" -> "PASSTHROUGH"
CowCache(t) ==
    LET bs == config.bs
        b == BlkOf(th[t].off, bs)
        absent == st.bm[b] = NOT_ALLOCATED
    IN  /\ th[t].pc = "cache"
        /\ lk.lock = NoThread
        /\ \/ /\ IF absent THEN cow_cache_mode # "IGNORE" ELSE st.bm[b] = ALLOCATED
              /\ CowFail(t)
           \/ /\ IF absent /\ cow_cache_mode = "COW"
                 THEN /\ With(t, "cache_write", [buf |-> [i \in BlockBytes(b, bs) |->
                                    IF i \in Bytes THEN disk[i] ELSE Zero]])
                      /\ lk' = [lk EXCEPT !.lock = t]
                 ELSE /\ th' = [th EXCEPT ![t] = CowAdvance(t, bs, th[t].data)]
                      /\ UNCHANGED lk
              /\ UNCHANGED <<st, faults>>
        /\ UNCHANGED plugin
CowCacheWrite(t) ==
    LET b == BlkOf(th[t].off, config.bs)
    IN  /\ th[t].pc = "cache_write"
        /\ \/ CowFail(t)
           \/ /\ st' = [st EXCEPT !.overlay[b] = th[t].buf]
              /\ Goto(t, "cache_set")
              /\ UNCHANGED <<lk, faults>>
        /\ UNCHANGED plugin
CowCacheSet(t) ==
    /\ th[t].pc = "cache_set"
    /\ st' = [st EXCEPT !.bm[BlkOf(th[t].off, config.bs)] = ALLOCATED]
    /\ th' = [th EXCEPT ![t] = CowAdvance(t, config.bs, th[t].data)]
    /\ CowUnlock(t)
    /\ UNCHANGED <<faults, plugin>>
(***************************************************************************)
(* cow_extents: an extent for each block of the overlay, and for a run of  *)
(* blocks that are not in it what the plugin says of the whole run.  The   *)
(* list drops what lies outside the request.                               *)
(***************************************************************************)
CowTell(t, range, type, n) ==
    LET told == [i \in range \cap Span(req[t].off, req[t].cnt) |-> type[i]]
        next == CowAdvance(t, n, told @@ th[t].data)
    IN  th' = [th EXCEPT ![t] = IF "one" \in req[t].flags /\ next.data # << >>
                                THEN [next EXCEPT !.pc = "done"] ELSE next]
CowExtents(t) ==
    LET b == BlkOf(th[t].off, config.bs)
        type == [i \in Bytes |-> IF st.bm[b] = TRIMMED THEN "zero" ELSE "data"]
    IN  /\ th[t].pc = "extents"
        /\ lk.lock = NoThread
        /\ IF st.bm[b] = NOT_ALLOCATED /\ config.canExtents
           THEN With(t, "extents_run", [run |-> 1])
           ELSE CowTell(t, BlockBytes(b, config.bs), type, config.bs)
        /\ UNCHANGED <<st, lk, faults, plugin>>
(* blk_status of the next block, until it is present, the request ends, or  *)
(* the range would not fit 32 bits.                                         *)
CowExtentsRun(t) ==
    LET bs == config.bs
        n == th[t].run
        b == BlkOf(th[t].off, bs) + n
    IN  /\ th[t].pc = "extents_run"
        /\ IF n * bs = th[t].cnt
           THEN Goto(t, "extents_ask")
           ELSE /\ lk.lock = NoThread
                /\ IF st.bm[b] # NOT_ALLOCATED \/ n * bs >= config.u32 - bs + 1
                   THEN Goto(t, "extents_ask")
                   ELSE With(t, "extents_run", [run |-> n + 1])
        /\ UNCHANGED <<st, lk, faults, plugin>>
CowExtentsAsk(t) ==
    LET type == [i \in Bytes |-> IF i \in config.holes THEN "zero" ELSE "data"]
    IN  /\ th[t].pc = "extents_ask"
        /\ \/ CowFail(t)
           \/ /\ CowTell(t, CowRunBytes(t) \cap Bytes, type, th[t].run * config.bs)
              /\ UNCHANGED <<st, lk, faults>>
        /\ UNCHANGED plugin

CowStep(t) ==
    /\ \/ CowLookup(t) \/ CowRead(t)
       \/ CowOnReadWrite(t) \/ CowOnReadGet(t) \/ CowOnReadSet(t)
       \/ CowWrite(t) \/ CowSet(t)
       \/ CowCache(t) \/ CowCacheWrite(t) \/ CowCacheSet(t)
       \/ CowExtents(t) \/ CowExtentsRun(t) \/ CowExtentsAsk(t)
    /\ UNCHANGED <<config, req, ops, reference>>

(* What the client keeps to.  Two writes in flight do not overlap, because  *)
(* rmw_lock is not taken for whole blocks; and with cow-on-read or          *)
(* cow-on-cache, which write the overlay and the bitmap of blocks that a    *)
(* write may be changing, a write is sent when nothing else is in flight.   *)
CowOrdered(r) ==
    \A u \in Threads :
        req[u] # NoRequest /\ (Writes(req[u]) \/ Writes(r))
            => /\ config.cor = "OFF" /\ ~config.onCache
               /\ Writes(req[u]) /\ Writes(r)
                    => Span(r.off, r.cnt) \cap Span(req[u].off, req[u].cnt) = {}
=============================================================================
