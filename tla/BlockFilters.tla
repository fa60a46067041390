---------------------------- MODULE BlockFilters ----------------------------
(***************************************************************************)
(* What the filters that work in blocks have in common: cow, cache and     *)
(* blocksize.  A client sends requests for any range of bytes; the filter  *)
(* turns them into operations on whole blocks, with an unaligned head and  *)
(* an unaligned tail that are read, modified and written back.             *)
(*                                                                         *)
(* Here are the request in the hands of each thread, the layer below (the  *)
(* "plugin"), a reference (for every byte, the values a client may find    *)
(* there) and the steps of blocksize; the modules Cow and Cache extend this*)
(* one with the steps of the other two.                                    *)
(***************************************************************************)
EXTENDS Integers, FiniteSets, Sequences, TLC, FiniteSetsExt

CONSTANTS
    Threads,     \* threads that serve requests, of any connections
    NoThread,    \* no owner of a lock
    Configs,     \* configurations: parameters of the filter, the plugin below
    Requests(_), \* Requests(c): the requests sent with configuration c
    MaxOps,      \* bound: requests in a behaviour
    MaxFaults    \* bound: calls of the plugin or of the file that fail

VARIABLES
    config,      \* the configuration in force
    disk,        \* contents of the plugin, byte by byte
    stable,      \* the part of it that would survive a crash
    req,         \* the request in the hands of each thread
    th,          \* where each thread is, and its local variables
    st,          \* the state of the filter
    lk,          \* the locks of the filter: name -> owner
    ops, faults, \* how many requests and faults so far
    cur,         \* reference: what each byte may read as
    allowed,     \* reference: what the request of a thread may return or leave
    before       \* reference: what a write in flight replaces

plugin == <<disk, stable>>
reference == <<cur, allowed, before>>
vars == <<config, plugin, req, th, st, lk, ops, faults, reference>>

Zero == 0         \* a byte that reads as zero
Initial == -1     \* a byte of the plugin that nobody has written
NoRequest == [cmd |-> "none"]
Idle == [pc |-> "idle"]

Size == config.size
Bytes == 0 .. Size - 1
Span(off, cnt) == off .. off + cnt - 1
Writes(r) == r.cmd \in {"write", "zero", "trim"}
(***************************************************************************)
(* Blocks.  A request is worked off from its offset: a head up to the next *)
(* block boundary, whole blocks, and a tail.                               *)
(***************************************************************************)
BlkOf(off, bs) == off \div bs
ROUND_DOWN(n, bs) == (n \div bs) * bs
ROUND_UP(n, bs) == ROUND_DOWN(n + bs - 1, bs)
Partial(off, cnt, bs) == off % bs # 0 \/ cnt < bs
Segment(off, cnt, bs) ==
    IF off % bs # 0 THEN Min({bs - (off % bs), cnt})
    ELSE IF cnt >= bs THEN bs ELSE cnt
NrBlocks(bs) == ROUND_UP(Size, bs) \div bs
Blocks(bs) == 0 .. NrBlocks(bs) - 1
BlockBytes(b, bs) == Span(b * bs, bs)
(***************************************************************************)
(* The layer below.  Reading past its end is never asked for.  FUA is      *)
(* native when it makes the range stable at once.                          *)
(***************************************************************************)
PluginWrite(range, data, fua) ==
    /\ disk' = [b \in Bytes |-> IF b \in range THEN data[b] ELSE disk[b]]
    /\ stable' = [b \in Bytes |-> IF b \in range /\ fua THEN data[b]
                                  ELSE stable[b]]
PluginFlush == /\ stable' = disk
               /\ UNCHANGED disk
Fault == /\ faults < MaxFaults
         /\ faults' = faults + 1
(***************************************************************************)
(* The reference.  A write in flight may or may not be seen; when it has   *)
(* returned, the values it replaces are gone: those present when it began, *)
(* except the ones of writes still in flight.  A write that fails leaves   *)
(* both, and so does a trim, which promises nothing about the contents.    *)
(***************************************************************************)
InFlight(b) == {req[u].val : u \in {u \in Threads : /\ req[u] # NoRequest
                                                    /\ Writes(req[u])
                                                    /\ b \in Span(req[u].off, req[u].cnt)}}
Begin(t, r, thread) ==
    LET v == IF r.cmd = "write" THEN ops + 1 ELSE Zero
        written == IF Writes(r) THEN Span(r.off, r.cnt) ELSE {}
        mine(b) == IF r.cmd \in {"write", "zero"}
                   THEN IF b \in written THEN {v} \cup (cur[b] \cap InFlight(b))
                        ELSE {}
                   ELSE cur[b] \cup (IF b \in written THEN {v} ELSE {})
    IN  /\ req[t] = NoRequest
        /\ ops < MaxOps
        /\ ops' = ops + 1
        /\ req' = [req EXCEPT ![t] = [cmd |-> r.cmd, off |-> r.off, cnt |-> r.cnt,
                                      flags |-> r.flags, val |-> v]]
        /\ cur' = [b \in Bytes |-> cur[b] \cup (IF b \in written THEN {v} ELSE {})]
        /\ allowed' = [u \in Threads |-> [b \in Bytes |->
               IF u = t THEN mine(b)
               ELSE IF req[u] # NoRequest /\ b \in written
                    THEN allowed[u][b] \cup {v} ELSE allowed[u][b]]]
        /\ before' = [u \in Threads |-> [b \in Bytes |->
               IF b \notin written THEN IF u = t THEN {} ELSE before[u][b]
               ELSE IF u # t THEN before[u][b] \ {v}
               ELSE IF r.cmd = "trim" THEN {} ELSE cur[b] \ InFlight(b)]]
        /\ th' = [th EXCEPT ![t] = thread]
        /\ UNCHANGED <<config, plugin, st, lk, faults>>

(* The callback returns and the request is answered. *)
Return(t) ==
    /\ th[t].pc = "done"
    /\ cur' = [b \in Bytes |-> IF th[t].ok THEN cur[b] \ (before[t][b] \ {req[t].val})
                               ELSE cur[b]]
    /\ req' = [req EXCEPT ![t] = NoRequest]
    /\ th' = [th EXCEPT ![t] = Idle]
    /\ allowed' = [allowed EXCEPT ![t] = [b \in Bytes |-> {}]]
    /\ before' = [before EXCEPT ![t] = [b \in Bytes |-> {}]]
    /\ UNCHANGED <<config, plugin, st, lk, ops, faults>>

BaseInit ==
    /\ config \in Configs
    /\ disk = [b \in Bytes |-> IF b \in config.holes THEN Zero ELSE Initial]
    /\ stable = disk
    /\ req = [t \in Threads |-> NoRequest]
    /\ th = [t \in Threads |-> Idle]
    /\ ops = 0
    /\ faults = 0
    /\ cur = [b \in Bytes |-> {disk[b]}]
    /\ allowed = [t \in Threads |-> [b \in Bytes |-> {}]]
    /\ before = [t \in Threads |-> [b \in Bytes |-> {}]]

(* A thread at work on request r at this offset, with this much left. *)
Working(pc, r) == [pc |-> pc, off |-> r.off, cnt |-> r.cnt, ok |-> TRUE,
                   data |-> << >>]
Goto(t, pc) == th' = [th EXCEPT ![t].pc = pc]
With(t, pc, fields) == th' = [th EXCEPT ![t] = fields @@ [@ EXCEPT !.pc = pc]]
Fail(t) == th' = [th EXCEPT ![t].pc = "done", ![t].ok = FALSE]

-----------------------------------------------------------------------------
(***************************************************************************)
(* The blocksize filter (filters/blocksize): any request becomes requests  *)
(* that are aligned to minblock and not larger than maxdata or maxlen.     *)
(* Parts of a block go through one bounce buffer under the write side of a *)
(* lock; aligned writes take the read side, aligned reads take nothing.    *)
(* A reader's stretch is a single call of the plugin, so lk.lock names the *)
(* writer only.                                                            *)
(***************************************************************************)
(* blocksize_config and blocksize_config_complete.  A value of 0 is unset.  *)
blocksize_config(c, MinLimit) ==
    /\ c.minblock # 0 => /\ \E k \in 0 .. 30 : c.minblock = 2 ^ k
                         /\ c.minblock <= MinLimit
                         /\ c.maxdata % c.minblock = 0
                         /\ c.maxlen % c.minblock = 0

(* blocksize_prepare: the limits of this handle, from the configuration and *)
(* from the constraints of the plugin (0 when it has none).                 *)
blocksize_prepare(c) ==
    LET minblock == Max({c.minblock, 1, c.minimum})
        data == IF c.maxdata # 0 THEN c.maxdata
                ELSE IF c.maxlen # 0 THEN Min({c.maxlen, c.default_maxdata})
                ELSE c.default_maxdata
        clamped == IF c.maximum # 0 THEN Min({data, c.maximum}) ELSE data
    IN  [minblock |-> minblock,
         maxdata |-> ROUND_DOWN(clamped, minblock),
         maxlen |-> IF c.maxlen = 0 THEN c.u32 + 1 - minblock
                    ELSE ROUND_DOWN(c.maxlen, minblock)]
(* The size offered to the client. *)
blocksize_get_size(c) == ROUND_DOWN(c.size, blocksize_prepare(c).minblock)

BlocksizeState == [h |-> blocksize_prepare(config), bounce |-> << >>]
BlocksizeLocks == [lock |-> NoThread]

NeedsFlush(r) == "fua" \in r.flags /\ config.canFua = "emulate"
PassFua(r) == "fua" \in r.flags /\ config.canFua = "native"
BlocksizeNext(r, off, cnt) ==
    IF cnt = 0 THEN IF NeedsFlush(r) THEN "flush" ELSE "done"
    ELSE IF Partial(off, cnt, st.h.minblock) THEN "bounce" ELSE "body"
BlocksizeAdvance(t, n, data) ==
    th' = [th EXCEPT ![t] = [pc |-> BlocksizeNext(req[t], @.off + n, @.cnt - n), ok |-> TRUE,
                             off |-> @.off + n, cnt |-> @.cnt - n, data |-> data]]

(* A callback is entered: trim drops the unaligned ends, cache and extents  *)
(* round them out, a fast zero that would be split is refused.              *)
blocksize_trim(r) ==
    LET mb == st.h.minblock
        head == IF r.off % mb = 0 THEN 0 ELSE Min({mb - (r.off % mb), r.cnt})
    IN  [r EXCEPT !.off = @ + head, !.cnt = ROUND_DOWN(@ - head, mb)]
blocksize_cache(r) ==
    LET mb == st.h.minblock
    IN  [r EXCEPT !.off = ROUND_DOWN(@, mb), !.cnt = ROUND_UP(@ + (r.off % mb), mb)]
blocksize_extents(r) ==
    LET mb == st.h.minblock
    IN  [r EXCEPT !.off = ROUND_DOWN(@, mb), !.cnt = Min({ROUND_UP(@, mb), st.h.maxlen})]
blocksize_zero_refused(r) ==
    /\ "fast" \in r.flags
    /\ r.off % st.h.minblock # 0 \/ r.cnt % st.h.minblock # 0 \/ r.cnt > st.h.maxlen
BlocksizeBegin(t, r) ==
    LET from == CASE r.cmd = "trim" -> blocksize_trim(r)
                  [] r.cmd = "cache" -> blocksize_cache(r)
                  [] r.cmd = "extents" -> blocksize_extents(r)
                  [] OTHER -> r
    IN  Begin(t, r,
            CASE r.cmd = "zero" /\ blocksize_zero_refused(r) ->
                     [Working("done", r) EXCEPT !.ok = FALSE]
              [] r.cmd = "flush" -> Working("flush", r)
              [] OTHER -> Working(BlocksizeNext(r, from.off, from.cnt), from))
BlocksizeFail(t) == Fault /\ Fail(t) /\ lk' = BlocksizeLocks /\ UNCHANGED <<plugin, st>>

(* Head or tail: the block is read into the bounce buffer with the lock     *)
(* held for writing.                                                        *)
BlocksizeBounce(t) ==
    LET b == BlkOf(th[t].off, st.h.minblock)
    IN  /\ th[t].pc = "bounce"
        /\ lk.lock = NoThread
        /\ \/ BlocksizeFail(t)
           \/ /\ lk' = [lk EXCEPT !.lock = t]
              /\ st' = [st EXCEPT !.bounce = [i \in BlockBytes(b, st.h.minblock) |-> disk[i]]]
              /\ Goto(t, "bounced")
              /\ UNCHANGED <<plugin, faults>>
(* A read takes its part of the buffer, a write or zero changes its part    *)
(* and writes the block.                                                    *)
BlocksizeBounced(t) ==
    LET r == req[t]
        n == Segment(th[t].off, th[t].cnt, st.h.minblock)
        mine == Span(th[t].off, n)
        bounce == [i \in DOMAIN st.bounce |-> IF i \in mine THEN r.val ELSE st.bounce[i]]
    IN  /\ th[t].pc = "bounced"
        /\ \/ /\ r.cmd = "read"
              /\ BlocksizeAdvance(t, n, [i \in mine |-> st.bounce[i]] @@ th[t].data)
              /\ lk' = BlocksizeLocks
              /\ UNCHANGED <<plugin, st, faults>>
           \/ /\ r.cmd \in {"write", "zero"}
              /\ PluginWrite(DOMAIN bounce, bounce, PassFua(r))
              /\ st' = [st EXCEPT !.bounce = bounce]
              /\ BlocksizeAdvance(t, n, << >>)
              /\ lk' = BlocksizeLocks
              /\ UNCHANGED faults
           \/ r.cmd # "read" /\ BlocksizeFail(t)

(* The aligned body, in pieces the plugin accepts. *)
BlocksizeBody(t) ==
    LET r == req[t]
        h == st.h
        keep == Min({IF r.cmd \in {"trim", "zero"} THEN h.maxlen ELSE h.maxdata,
                     ROUND_DOWN(th[t].cnt, h.minblock)})
        range == Span(th[t].off, keep)
        hole(i) == \A j \in BlockBytes(BlkOf(i, h.minblock), h.minblock) : disk[j] = Zero
    IN  /\ th[t].pc = "body"
        /\ r.cmd \in {"write", "trim", "zero"} => lk.lock = NoThread
        /\ \/ /\ r.cmd = "read"
              /\ BlocksizeAdvance(t, keep, [i \in range |-> disk[i]] @@ th[t].data)
              /\ UNCHANGED plugin
           \/ /\ r.cmd \in {"write", "zero"}
              /\ PluginWrite(range, [i \in range |-> r.val], PassFua(r))
              /\ BlocksizeAdvance(t, keep, << >>)
           \/ /\ r.cmd = "trim"
              /\ \E discard \in BOOLEAN :
                   PluginWrite(range, [i \in range |-> IF discard THEN Zero ELSE disk[i]],
                               PassFua(r))
              /\ BlocksizeAdvance(t, keep, << >>)
           \/ /\ r.cmd = "cache"
              /\ BlocksizeAdvance(t, keep, << >>)
              /\ UNCHANGED plugin
           \/ /\ r.cmd = "extents"
              /\ BlocksizeAdvance(t, th[t].cnt, [i \in Span(th[t].off, th[t].cnt)
                                                       \cap Span(r.off, r.cnt) |->
                                                   IF hole(i) THEN "zero" ELSE "data"])
              /\ UNCHANGED plugin
        /\ UNCHANGED <<st, lk, faults>>
BlocksizeBodyFails(t) ==
    /\ th[t].pc = "body"
    /\ req[t].cmd \in {"write", "trim", "zero"} => lk.lock = NoThread
    /\ Fault
    /\ Fail(t)
    /\ UNCHANGED <<plugin, st, lk>>
(* The flush a client asked for, or the one that replaces FUA. *)
BlocksizeFlush(t) ==
    /\ th[t].pc = "flush"
    /\ \/ /\ PluginFlush
          /\ Goto(t, "done")
          /\ UNCHANGED faults
       \/ /\ Fault
          /\ Fail(t)
          /\ UNCHANGED plugin
    /\ UNCHANGED <<st, lk>>

BlocksizeStep(t) ==
    /\ \/ BlocksizeBounce(t) \/ BlocksizeBounced(t)
       \/ BlocksizeBody(t) \/ BlocksizeBodyFails(t) \/ BlocksizeFlush(t)
    /\ UNCHANGED <<config, req, ops, reference>>
=============================================================================
