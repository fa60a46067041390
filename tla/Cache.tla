-------------------------------- MODULE Cache --------------------------------
(***************************************************************************)
(* The cache filter (filters/cache).  Every blk_* function is called with  *)
(* the lock held and nothing else touches the cache or, below it, the      *)
(* plugin, so a stretch under the lock is one step.  The state of the      *)
(* cache and of the plugin is a record w that the functions transform;     *)
(* `bad` says which call, if any, fails in this step.                      *)
(***************************************************************************)
EXTENDS BlockFilters, SequencesExt

NOT_CACHED == "not cached"
CLEAN == "clean"
DIRTY == "dirty"
NOT_RECLAIMING == "not reclaiming"
RECLAIMING_LRU == "lru"
RECLAIMING_ANY == "any"

(* cache_config and cache_config_complete. *)
cache_config(c, MinBlk) ==
    /\ c.bs >= MinBlk /\ \E k \in 0 .. 30 : c.bs = 2 ^ k
    /\ c.mode \in {"writeback", "writethrough", "unsafe"}
    /\ c.lo > 0 /\ c.hi > 0
    /\ c.max_size # -1 => c.lo < c.hi

(* blk_init, and blk_set_size as cache_prepare calls it. *)
CacheState == [file |-> [b \in Blocks(config.bs) |->
                            [i \in BlockBytes(b, config.bs) |-> Zero]],
               alloc |-> {},         \* blocks the file has space for
               bm |-> [b \in Blocks(config.bs) |-> NOT_CACHED],
               lru |-> << {}, {} >>, \* the bitmaps of lru.c
               reclaiming |-> NOT_RECLAIMING,
               reclaim_blk |-> 0]
World == st @@ [disk |-> disk, stable |-> stable, ok |-> TRUE, data |-> << >>]

cache_on_read == CASE config.cor = "ON" -> {TRUE}
                   [] config.cor = "OFF" -> {FALSE}
                   [] config.cor = "PATH" -> BOOLEAN
cache_can_fua == IF config.mode = "unsafe" THEN "native" ELSE config.canFua

(* bitmap_next: the first block from b that is in the cache, or -1. *)
bitmap_next(bm, b) ==
    LET found == {c \in DOMAIN bm : c >= b /\ bm[c] # NOT_CACHED}
    IN  IF found = {} THEN -1 ELSE Min(found)
(***************************************************************************)
(* lru.c: the first set collects blocks until it has half the number that  *)
(* count as recent, then it becomes the second.                            *)
(***************************************************************************)
lru_set_recently_accessed(w, b) ==
    LET first == w.lru[1] \cup {b}
    IN  IF b \in w.lru[1] THEN w
        ELSE [w EXCEPT !.lru = IF Cardinality(first) >= config.recent \div 2
                               THEN << {}, first >> ELSE << first, w.lru[2] >>]
lru_has_been_recently_accessed(w, b) == b \in w.lru[1] \cup w.lru[2]
(***************************************************************************)
(* reclaim.c: up to two blocks are dropped whenever the file is too big.   *)
(***************************************************************************)
reclaim_block(w) ==
    LET b == w.reclaim_blk
    IN  IF b = -1 THEN w
        ELSE [w EXCEPT !.file[b] = [i \in DOMAIN @ |-> Zero],
                       !.alloc = @ \ {b},
                       !.bm[b] = NOT_CACHED]
reclaim_any(w) ==
    LET n == bitmap_next(w.bm, w.reclaim_blk + 1)
    IN  reclaim_block([w EXCEPT !.reclaim_blk = IF n = -1 THEN bitmap_next(w.bm, 0) ELSE n])
reclaim_lru(w) ==
    LET first == bitmap_next(w.bm, w.reclaim_blk + 1)
        cached == {b \in DOMAIN w.bm : w.bm[b] # NOT_CACHED}
        old == {b \in cached : ~lru_has_been_recently_accessed(w, b)}
        \* how far b is from first when the search wraps around at the end
        distance(b) == IF b >= first THEN b - first ELSE b - first + Cardinality(DOMAIN w.bm)
    IN  IF first = -1 THEN [w EXCEPT !.reclaim_blk = -1]
        ELSE IF old = {}
        THEN reclaim_any([w EXCEPT !.reclaim_blk = first, !.reclaiming = RECLAIMING_ANY])
        ELSE reclaim_block([w EXCEPT !.reclaim_blk =
                 CHOOSE b \in old : \A c \in old : distance(b) <= distance(c)])
reclaim_one(w) == IF w.reclaiming = RECLAIMING_LRU THEN reclaim_lru(w) ELSE reclaim_any(w)
reclaim(w) ==
    LET size == Cardinality(w.alloc) * config.bs
        limit(percent) == (config.max_size * percent) \div 100
    IN  IF config.max_size = -1 THEN w
        ELSE IF w.reclaiming # NOT_RECLAIMING /\ size < limit(config.lo)
        THEN [w EXCEPT !.reclaiming = NOT_RECLAIMING]
        ELSE IF w.reclaiming = NOT_RECLAIMING /\ size < limit(config.hi) THEN w
        ELSE reclaim_one(reclaim_one([w EXCEPT !.reclaiming =
                 IF @ = NOT_RECLAIMING THEN RECLAIMING_LRU ELSE @]))
(***************************************************************************)
(* blk.c.  A run of blocks that are not in the cache is read at once, so   *)
(* it succeeds or fails as a whole; the runs before a failure are done.    *)
(***************************************************************************)
FileWrite(w, b, block) == [w EXCEPT !.file[b] = block, !.alloc = @ \cup {b}]
PluginBlock(w, b) == [i \in BlockBytes(b, config.bs) |->
                         IF i \in Bytes THEN w.disk[i] ELSE Zero]
Failed(w) == [w EXCEPT !.ok = FALSE]
InRun(w, b, bad) ==
    \A c \in Min({b, bad.blk}) .. Max({b, bad.blk}) :
        (w.bm[c] = NOT_CACHED) = (w.bm[b] = NOT_CACHED)
blk_read_one(w, b, cor, bad) ==
    LET block == IF w.bm[b] = NOT_CACHED THEN PluginBlock(w, b) ELSE w.file[b]
        got == [w EXCEPT !.data = block @@ @]
    IN  IF ~w.ok THEN w
        ELSE IF bad.call = "read" /\ InRun(w, b, bad) THEN Failed(w)
        ELSE IF w.bm[b] # NOT_CACHED THEN lru_set_recently_accessed(got, b)
        ELSE IF ~cor THEN got
        ELSE IF bad.call = "file" /\ InRun(w, b, bad) THEN Failed(w)
        ELSE lru_set_recently_accessed([FileWrite(got, b, block) EXCEPT !.bm[b] = CLEAN], b)
blk_read_multiple(w, b, nr, cor, bad) ==
    FoldLeft(LAMBDA u, i : blk_read_one(u, b + i - 1, cor, bad),
             reclaim(w), [i \in 1 .. nr |-> i])
blk_cache(w, b, bad) ==
    LET u == reclaim(w)
    IN  IF w.bm[b] = NOT_CACHED
        THEN IF bad.call \in {"read", "file"} THEN Failed(u)
             ELSE lru_set_recently_accessed(
                      [FileWrite(u, b, PluginBlock(u, b)) EXCEPT !.bm[b] = CLEAN], b)
        ELSE IF bad.call = "file" THEN Failed(u)
        ELSE lru_set_recently_accessed(u, b)
\* u is the cache after reclaim.
WriteThrough(u, b, block, fua, bad) ==
    LET at(d, yes) == [i \in Bytes |-> IF yes /\ i \in DOMAIN block THEN block[i] ELSE d[i]]
    IN  IF bad = [call |-> "file", blk |-> b] THEN Failed(u)
        ELSE IF bad = [call |-> "write", blk |-> b] THEN Failed(FileWrite(u, b, block))
        ELSE lru_set_recently_accessed(
                 [FileWrite(u, b, block) EXCEPT !.disk = at(@, TRUE), !.stable = at(@, fua),
                                                !.bm[b] = CLEAN], b)
WriteBack(u, b, block, bad) ==
    IF bad = [call |-> "file", blk |-> b] THEN Failed(u)
    ELSE lru_set_recently_accessed([FileWrite(u, b, block) EXCEPT !.bm[b] = DIRTY], b)
blk_writethrough(w, b, block, fua, bad) == WriteThrough(reclaim(w), b, block, fua, bad)
blk_write(w, b, block, fua, bad) ==
    IF config.mode = "writethrough" \/ (config.mode = "writeback" /\ fua)
    THEN blk_writethrough(w, b, block, fua, bad)
    ELSE WriteBack(reclaim(w), b, block, bad)
(***************************************************************************)
(* cache.c.  A request with FUA is done without it and followed by a flush *)
(* when the plugin can only emulate FUA or the mode is unsafe.             *)
(***************************************************************************)
NeedFlush(r) == "fua" \in r.flags /\ (config.mode = "unsafe" \/ config.canFua = "emulate")
CacheNext(r, cnt) ==
    IF r.cmd \in {"trim", "extents"} THEN "next"
    ELSE IF cnt > 0 THEN "segment"
    ELSE IF config.mode # "unsafe" /\ (r.cmd = "flush" \/ NeedFlush(r)) THEN "flush"
    ELSE "done"
CacheBegin(t, r) ==
    LET bs == config.bs
        out == [r EXCEPT !.off = ROUND_DOWN(@, bs),
                         !.cnt = ROUND_UP(@ + (r.off % bs), bs)]
        from == IF r.cmd = "cache" THEN out ELSE r
    IN  Begin(t, r, IF r.cmd = "zero" /\ "fast" \in r.flags
                    THEN [Working("done", r) EXCEPT !.ok = FALSE]
                    ELSE Working(CacheNext(r, from.cnt), from))

(* What the next stretch under the lock does to w: a head or a tail is read *)
(* and modified, whole blocks are read all at once and written one by one.  *)
CacheBlk(t) == BlkOf(th[t].off, config.bs)
CachePart(t) == Partial(th[t].off, th[t].cnt, config.bs)
CacheFua(t) == "fua" \in req[t].flags /\ ~NeedFlush(req[t])
cache_pread(t, w, cor, bad) ==
    blk_read_multiple(w, CacheBlk(t), IF CachePart(t) THEN 1 ELSE th[t].cnt \div config.bs, cor, bad)
ModifyWrite(t, read, bad) ==
    IF ~read.ok THEN read
    ELSE blk_write(read, CacheBlk(t),
                   [i \in BlockBytes(CacheBlk(t), config.bs) |->
                      IF i \in Span(th[t].off, th[t].cnt) THEN req[t].val ELSE read.data[i]],
                   CacheFua(t), bad)
ReadModifyWrite(t, w, cor, bad) ==
    ModifyWrite(t, blk_read_multiple(w, CacheBlk(t), 1, cor, bad), bad)
WriteBlock(t, w, v, bad) ==
    blk_write(w, CacheBlk(t), [i \in BlockBytes(CacheBlk(t), config.bs) |-> v], CacheFua(t), bad)
cache_pwrite(t, w, cor, bad) ==
    IF CachePart(t) THEN ReadModifyWrite(t, w, cor, bad) ELSE WriteBlock(t, w, req[t].val, bad)
cache_zero(t, w, cor, bad) ==
    IF CachePart(t) THEN ReadModifyWrite(t, w, cor, bad) ELSE WriteBlock(t, w, Zero, bad)
cache_cache(t, w, bad) == blk_cache(w, CacheBlk(t), bad)
CacheDo(t, w, cor, bad) ==
    CASE req[t].cmd = "read" -> cache_pread(t, w, cor, bad)
      [] req[t].cmd = "cache" -> cache_cache(t, w, bad)
      [] req[t].cmd = "write" -> cache_pwrite(t, w, cor, bad)
      [] req[t].cmd = "zero" -> cache_zero(t, w, cor, bad)
CacheApply(w) ==
    /\ st' = [f \in DOMAIN st |-> w[f]]
    /\ disk' = w.disk
    /\ stable' = w.stable
Bad(t) == [call : {"read", "file", "write"},
           blk : {BlkOf(i, config.bs) : i \in Span(th[t].off, th[t].cnt)}]
SegmentLength(t) ==
    IF req[t].cmd = "read" /\ ~CachePart(t) THEN ROUND_DOWN(th[t].cnt, config.bs)
    ELSE Segment(th[t].off, th[t].cnt, config.bs)
AfterSegment(t, n, w) ==
    [pc |-> CacheNext(req[t], th[t].cnt - n), ok |-> TRUE,
     off |-> th[t].off + n, cnt |-> th[t].cnt - n,
     data |-> IF req[t].cmd = "read"
              THEN [i \in DOMAIN w.data \cap Span(req[t].off, req[t].cnt) |-> w.data[i]]
                   @@ th[t].data
              ELSE << >>]
Stretch(t, bad, w) ==
    /\ CacheApply(w)
    /\ (bad.call = "none") = w.ok
    /\ IF w.ok THEN th' = [th EXCEPT ![t] = AfterSegment(t, SegmentLength(t), w)] ELSE Fail(t)
NoFault == [call |-> "none", blk |-> 0]
CacheSegment(t) ==
    /\ th[t].pc = "segment"
    /\ \E cor \in cache_on_read :
         \/ /\ Stretch(t, NoFault, CacheDo(t, World, cor, NoFault))
            /\ UNCHANGED faults
         \/ /\ \E bad \in Bad(t) : Stretch(t, bad, CacheDo(t, World, cor, bad))
            /\ Fault
    /\ UNCHANGED lk

(* for_each_dirty_block and flush_dirty_block: read and write through every *)
(* dirty block, going on after an error.                                    *)
(* Mutant: dirty blocks are marked clean and not written. *)
FlushBlockLost(w, b, cor, bad) == [w EXCEPT !.bm[b] = IF @ = DIRTY THEN CLEAN ELSE @]
WriteRead(read, b, bad) ==
    IF ~read.ok THEN read
    ELSE blk_writethrough(read, b, [i \in BlockBytes(b, config.bs) |-> read.data[i]],
                          FALSE, bad)
FlushBlock(w, b, cor, bad) ==
    IF w.bm[b] # DIRTY THEN w
    ELSE [WriteRead(blk_read_multiple([w EXCEPT !.ok = TRUE], b, 1, cor, bad), b, bad)
            EXCEPT !.ok = w.ok /\ @, !.data = << >>]
for_each_dirty_block(cor, bad) ==
    FoldLeft(LAMBDA w, i : FlushBlock(w, i - 1, cor, bad), World,
             [i \in 1 .. NrBlocks(config.bs) |-> i])
Flushed(t, bad, w) ==
    /\ CacheApply(w)
    /\ (bad.call = "none") = w.ok
    /\ th' = [th EXCEPT ![t].pc = "flush_plugin", ![t].ok = w.ok]
CacheFlush(t) ==
    /\ th[t].pc = "flush"
    /\ \E cor \in cache_on_read :
         \/ /\ Flushed(t, NoFault, for_each_dirty_block(cor, NoFault))
            /\ UNCHANGED faults
         \/ /\ \E bad \in [call : {"read", "file", "write"}, blk : Blocks(config.bs)] :
                 Flushed(t, bad, for_each_dirty_block(cor, bad))
            /\ Fault
    /\ UNCHANGED lk
CacheFlushPlugin(t) ==
    /\ th[t].pc = "flush_plugin"
    /\ \/ /\ PluginFlush
          /\ Goto(t, "done")
          /\ UNCHANGED faults
       \/ /\ Fault
          /\ Fail(t)
          /\ UNCHANGED plugin
    /\ UNCHANGED <<st, lk>>

(* The filter has no .trim and no .extents: the plugin answers. *)
CachePassOn(t) ==
    LET r == req[t]
        range == Span(r.off, r.cnt)
    IN  /\ th[t].pc = "next"
        /\ \/ /\ r.cmd = "extents"
              /\ With(t, "done", [data |-> [i \in range |->
                     IF disk[i] = Zero THEN "zero" ELSE "data"]])
              /\ UNCHANGED <<plugin, faults>>
           \/ /\ r.cmd = "trim"
              /\ \E discard \in BOOLEAN :
                   PluginWrite(range, [i \in range |-> IF discard THEN Zero ELSE disk[i]],
                               "fua" \in r.flags /\ config.canFua = "native")
              /\ Goto(t, "done")
              /\ UNCHANGED faults
           \/ /\ Fault
              /\ Fail(t)
              /\ UNCHANGED plugin
        /\ UNCHANGED <<st, lk>>

CacheStep(t) ==
    /\ CacheSegment(t) \/ CachePassOn(t) \/ CacheFlush(t) \/ CacheFlushPlugin(t)
    /\ UNCHANGED <<config, req, ops, reference>>
=============================================================================
