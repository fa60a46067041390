------------------------------- MODULE Checks -------------------------------
(***************************************************************************)
(* Filters that check, refuse, corrupt or describe what passes through:    *)
(* protect, checkwrite, ddrescue, error, evil, extentlist, cacheextents;   *)
(* filters that look at requests without changing them: log, stats, delay  *)
(* and spinning; and tls-fallback, which answers itself on a connection    *)
(* without TLS (directories of the same names under filters/).             *)
(***************************************************************************)
EXTENDS Layers

-----------------------------------------------------------------------------
(* protect: l.protect, a sequence of [start, end, not] *)

INT64_MAX == Half - 1
PRange(start, end) == [start |-> start, end |-> end]

\* "START-END" is one range, "~START-END" up to two.
parse_range(p) ==
    IF ~p.not THEN <<PRange(p.start, p.end)>>
    ELSE (IF p.start > 0 THEN <<PRange(0, p.start - 1)>> ELSE <<>>)
      \o (IF p.end < INT64_MAX THEN <<PRange(p.end + 1, INT64_MAX)>>
          ELSE <<>>)

protect_config(l) ==
    \A i \in 1 .. Len(l.protect) : l.protect[i].start <= l.protect[i].end

\* An adjacent or overlapping range is merged: its end becomes the end.
Combine(a, r) ==
    IF a # <<>> /\ Last(a).end + 1 >= r.start
    THEN [a EXCEPT ![Len(a)].end = r.end] ELSE Append(a, r)

\* The whole address space as protected and unprotected regions.
protect_config_complete(l) ==
    LET ranges == FoldLeft(LAMBDA a, p : a \o parse_range(p), <<>>, l.protect)
        merged == FoldLeft(LAMBDA a, r : Combine(a, r), <<>>,
                    SortSeq(ranges, LAMBDA x, y : x.start < y.start))
        pad(rs, start) == IF start > virtual_size(rs)
                          THEN append_region_end(rs, start - 1, 0, 0, "data",
                                                 FALSE)
                          ELSE rs
        regions == FoldLeft(LAMBDA rs, r :
                              append_region_end(pad(rs, r.start), r.end, 0, 0,
                                                "data", TRUE),
                            <<>>, merged)
    IN  IF virtual_size(regions) < INT64_MAX
        THEN append_region_end(regions, INT64_MAX, 0, 0, "data", FALSE)
        ELSE regions

\* check_write goes through the regions of the request and compares what it
\* reads in the protected ones with what is to be written.  For trim and
\* zero the buffer is NULL, and no longer NULL after the first region: the
\* comparison then reads memory that is not there.
check_write(f, r) ==
    LET rs == M(f).regions
        pos == IF f.pc = "in" THEN f.off ELSE f.x.off + f.x.n
        left == {u \in pos .. (f.off + f.n - 1) : find_region(rs, u).u}
        u == CHOOSE v \in left : \A v2 \in left : v <= v2
        n == MIN(find_region(rs, u).end - u + 1, f.off + f.n - u)
        want == IF f.op = "pwrite"
                THEN SubSeq(f.data, f.x.off - f.off + 1,
                            f.x.off - f.off + f.x.n)
                ELSE Zeroes(f.x.n)
    IN  IF f.pc = "compare" /\ r.err # "" THEN {Return(r)}
        ELSE IF f.pc = "compare" /\ r.buf # want THEN {Fail("EPERM")}
        ELSE IF left = {} THEN {Pass(f)}
        ELSE IF f.op # "pwrite" /\ u # f.off THEN {Abort("memcmp")}
        ELSE Allocating(Invoke(
               [f EXCEPT !.pc = "compare", !.x = [off |-> u, n |-> n]],
               [f EXCEPT !.op = "pread", !.off = u, !.n = n, !.flags = {},
                         !.data = <<>>]))

\* protect_pwrite, protect_trim, protect_zero
protect_op(f, r) == check_write(f, r)

-----------------------------------------------------------------------------
(* checkwrite *)

checkwrite_open == TRUE     \* the next layer is opened read-only
checkwrite_flush == {Ok}

MAX_REQUEST_SIZE == 2       \* 64 MB, in units

checkwrite_answers(nx) ==
    [nx EXCEPT !.can_write = 1, !.can_flush = 1, !.can_fua = NATIVE,
               !.can_trim = 1, !.can_zero = NATIVE, !.can_fast_zero = 1,
               !.can_multi_conn = 1]

checkwrite_pwrite(f, r) ==
    IF f.pc = "in"
    THEN Allocating(Invoke([f EXCEPT !.pc = "compare"],
                           [f EXCEPT !.op = "pread", !.flags = {},
                                     !.data = <<>>]))
    ELSE IF r.err # "" THEN {Return(r)}
    ELSE {IF r.buf = f.data THEN Ok ELSE Fail("EIO")}

\* nbdkit_extents_full: ask until the list covers the request.
FullQuery(f, ret) ==
    LET start == IF ret.list = <<>> THEN f.off ELSE ret.next
    IN  Invoke([f EXCEPT !.pc = "full", !.x = ret],
               [f EXCEPT !.op = "extents", !.off = start, !.flags = {},
                         !.n = f.off + f.n - start,
                         !.exts = nbdkit_extents_new(start, f.off + f.n)])

\* Mutant: the loop does not move on.
ReadBackStuck(f, ret, pos) ==
    IF f.n = 1 THEN {Ok}
    ELSE {Invoke([f EXCEPT !.pc = "check", !.x = [ret |-> ret, pos |-> pos]],
                 [f EXCEPT !.op = "pread", !.off = pos, !.n = 1,
                           !.flags = {}])}

\* Read the first unit from pos on that is not known to be zero.
ReadBack(f, ret, pos) ==
    LET data == {u \in pos .. (f.off + f.n - 1) :
                   \E i \in 1 .. Len(ret.list) :
                      /\ u \in Units(ret.list[i].offset, ret.list[i].length)
                      /\ "zero" \notin ret.list[i].type}
        u == CHOOSE v \in data : \A v2 \in data : v <= v2
        e == CHOOSE e \in ToSet(ret.list) : u \in Units(e.offset, e.length)
        n == MIN(MIN(MAX_REQUEST_SIZE, f.off + f.n - u),
                 e.offset + e.length - u)
    IN  IF data = {} THEN {Ok}
        ELSE IF "FAST_ZERO" \in f.flags THEN {Fail("ENOTSUP")}
        ELSE Allocating(Invoke(
               [f EXCEPT !.pc = "check", !.x = [ret |-> ret, pos |-> u + n]],
               [f EXCEPT !.op = "pread", !.off = u, !.n = n, !.flags = {}]))

checkwrite_trim_zero(f, r) ==
    LET all == CopyExtents(f.x, r.exts, 0).exts
    IN  IF f.pc = "in"
        THEN IF caps[f.lvl + 1].can_extents # 0
             THEN {FullQuery(f, nbdkit_extents_new(f.off, f.off + f.n))}
             ELSE ReadBack(f, [list |-> <<Extent(f.off, f.n, {})>>], f.off)
        ELSE IF r.err # "" THEN {Return(r)}
        ELSE IF f.pc = "full"
        THEN IF all.next < f.off + f.n THEN {FullQuery(f, all)}
             ELSE ReadBack(f, all, f.off)
        ELSE IF ~IsZero(r.buf) THEN {Fail("EIO")}
        ELSE ReadBack(f, f.x.ret, f.x.pos)

-----------------------------------------------------------------------------
(* ddrescue: l.map, the ranges of the map file that are marked '+' *)

parse_mapfile(l) == \A m \in ToSet(l.map) : m.offset >= 0 /\ m.length >= 0
ddrescue_answers(nx) == [nx EXCEPT !.can_write = 0, !.can_cache = NONE]
ddrescue_pread(f) ==
    IF \E m \in ToSet(L(f).map) : /\ f.off \in Units(m.offset, m.length)
                                  /\ f.off + f.n <= m.offset + m.length
    THEN {Pass(f)} ELSE {Fail("EIO")}

-----------------------------------------------------------------------------
(* error: l.rate: operation -> "never", "sometimes", "always"; l.file: a   *)
(* trigger file is configured, which comes and goes; l.error.              *)

error_config(l) ==
    l.error \in {"EPERM", "EIO", "ENOMEM", "EINVAL", "ENOSPC", "ESHUTDOWN"}

random_error(l, op) ==
    LET rate == IF op \in DOMAIN l.rate THEN l.rate[op] ELSE "never"
    IN  CASE rate = "never" -> {FALSE}
          [] rate = "always" /\ ~l.file -> {TRUE}
          [] OTHER -> {TRUE, FALSE}

\* error_pread ... error_cache
error_op(f) ==
    {IF e THEN Fail(L(f).error) ELSE Pass(f) : e \in random_error(L(f), f.op)}

-----------------------------------------------------------------------------
(* evil: l.mode, l.all (P > MAXP), l.block (the block size), l.random: for *)
(* each seed the random numbers, a sequence of [gap, bit], the distance to *)
(* the next corrupted unit and the value it is stuck at (-1: not stuck).   *)

evil_config(l) == l.mode \in {"cosmic-rays", "stuck-bits", "stuck-wires"}
evil_thread_model(l) ==
    IF l.mode = "cosmic-rays" THEN "SERIALIZE_REQUESTS" ELSE "PARALLEL"

corrupt_one_bit(v, bit) == IF bit = -1 THEN v ELSE bit

corrupt_all_bits(buf, rnd) ==
    [i \in 1 .. Len(buf) |-> corrupt_one_bit(buf[i], rnd[i].bit)]

\* Walk from the start of the block, so that the same units are hit
\* whatever part of the block is read.
corrupt_buffer(l, buf, rnd, offset_in_block) ==
    LET step(a, x) == LET p == a.offs + x.gap
                          i == p - offset_in_block
                      IN  IF i < 0 \/ i >= Len(buf) THEN [a EXCEPT !.offs = p]
                          ELSE [offs |-> p,
                                buf |-> [a.buf EXCEPT ![i + 1] =
                                           corrupt_one_bit(@, x.bit)]]
    IN  IF l.all THEN corrupt_all_bits(buf, rnd)
        ELSE FoldLeft(step, [offs |-> 0, buf |-> buf], rnd).buf

\* The request is split at the blocks; the seed is the start of the block.
StuckBits(l, buf, off) ==
    LET piece(b) == LET from == IF b > off THEN b ELSE off
                        to == MIN(b + l.block, off + Len(buf))
                    IN  corrupt_buffer(l, SubSeq(buf, from - off + 1, to - off),
                                       l.random[b], from - b)
        first == ROUND_DOWN(off, l.block)
        count == (ROUND_UP(off + Len(buf), l.block) - first) \div l.block
    IN  FoldLeft(LAMBDA a, b : a \o piece(b), <<>>,
                 [k \in 1 .. count |-> first + (k - 1) * l.block])

evil_pread(f, r) ==
    LET l == L(f)
    IN  IF f.pc = "in" THEN {Invoke([f EXCEPT !.pc = "corrupt"], f)}
        ELSE IF r.err # "" THEN {Return(r)}
        ELSE CASE l.mode = "stuck-bits" -> {OkBuf(StuckBits(l, r.buf, f.off))}
               [] l.mode = "stuck-wires" ->
                    {OkBuf(corrupt_buffer(l, r.buf, l.random[0], 0))}
               [] l.mode = "cosmic-rays" ->
                    {OkBuf([i \in 1 .. f.n |-> IF i \in hit THEN 1 - r.buf[i]
                                               ELSE r.buf[i]]) :
                       hit \in SUBSET (1 .. f.n)}

-----------------------------------------------------------------------------
(* extentlist: l.list, the extents of the file *)

UINT64_MAX == Wrap - 1
HOLE == {"hole", "zero"}

\* Sorted, without the empty ones.
ParsedList(l) ==
    SortSeq(SelectSeq(l.list, LAMBDA e : e.length > 0),
            LAMBDA a, b : a.offset < b.offset)

extentlist_ok(l) ==
    LET s == ParsedList(l)
    IN  \A i \in 1 .. (Len(s) - 1) :
          s[i].offset + s[i].length <= s[i + 1].offset

FillGap(a, e) ==
    IF a.end < e.offset
    THEN [list |-> a.list \o <<Extent(a.end, e.offset - a.end, HOLE), e>>,
          end |-> e.offset + e.length]
    ELSE [list |-> Append(a.list, e), end |-> e.offset + e.length]

\* parse_extentlist: the gaps, also before and after, are holes.
parse_extentlist(l) ==
    LET a == FoldLeft(LAMBDA x, e : FillGap(x, e),
                      [list |-> <<>>, end |-> 0], ParsedList(l))
    IN  IF a.end < UINT64_MAX
        THEN Append(a.list, Extent(a.end, UINT64_MAX - a.end, HOLE))
        ELSE a.list

extentlist_extents(f) ==
    LET from(e) == IF e.offset > f.off THEN e.offset ELSE f.off
        hit == SelectSeq(M(f).list, LAMBDA e : e.offset + e.length > f.off
                                               /\ e.offset < f.off + f.n)
        a == FoldLeft(LAMBDA x, e :
                        nbdkit_add_extent(x.exts, from(e),
                          e.offset + e.length - from(e), e.type),
                      [exts |-> f.exts, r |-> 0], hit)
    IN  {OkExts(a.exts)}

-----------------------------------------------------------------------------
(* cacheextents: the global state is [lock, exts, start, end], exts is     *)
(* <<>> when there is no cache.  The lock is held while the plugin is      *)
(* asked.                                                                  *)

NoCache == [lock |-> 0, exts |-> <<>>, start |-> 0, end |-> 0]

fill(exts) ==
    LET first == exts.list[1]
        final == Last(exts.list)
        start == first.offset
        end == final.offset + final.length
    IN  [lock |-> 0, start |-> start, end |-> end,
         exts |-> CopyExtents(nbdkit_extents_new(start, end), exts, 0).exts]

cacheextents_extents(f, r) ==
    LET c == M(f)
    IN  IF f.pc = "in" /\ c.lock # 0 THEN {Wait}
        ELSE IF f.pc = "in" /\ c.exts # <<>> /\ f.off >= c.start
                /\ f.off < c.end
        THEN {ReturnCopy(f.exts, c.exts, 0)}
        ELSE IF f.pc = "in"
        THEN {Keep(Invoke([f EXCEPT !.pc = "fill"],
                          [f EXCEPT !.flags = @ \ {"REQ_ONE"}]),
                   [c EXCEPT !.lock = f.t])}
        ELSE IF r.err # "" THEN {Keep(Return(r), [c EXCEPT !.lock = 0])}
        ELSE IF r.exts.list = <<>> THEN {Abort("nbdkit_get_extent")}
        ELSE {Keep(Return(r), fill(r.exts))}

\* cacheextents_pwrite, cacheextents_trim, cacheextents_zero: kill the
\* cache, then pass the request on.
cacheextents_pwrite(f) ==
    IF M(f).lock # 0 THEN {Wait}
    ELSE {Keep(Pass(f), [M(f) EXCEPT !.exts = <<>>])}

-----------------------------------------------------------------------------
(* log: the handle is [id, open], the last transaction number and the      *)
(* transactions of which the end has not been logged.                      *)

\* log_prepare asks everything and gives up on any error.
log_prepare(nx) == nx.get_size >= 0

\* log_pread ... log_cache: the LOG macro logs the end when it returns.
log_op(f, r) ==
    LET h == M(f)
    IN  IF f.pc = "in"
        THEN {Keep(Invoke([f EXCEPT !.pc = "leave", !.x = h.id + 1], f),
                   [id |-> h.id + 1, open |-> h.open \cup {h.id + 1}])}
        ELSE {Keep(Return(r), [h EXCEPT !.open = @ \ {f.x}])}

-----------------------------------------------------------------------------
(* stats: the global state is [ops, bytes, hist, full]: per operation the  *)
(* requests and units, the histogram of sizes, and out_of_memory.          *)

NoStats == [ops |-> [o \in {} |-> 0], bytes |-> [o \in {} |-> 0],
            hist |-> {}, full |-> FALSE]
Add(c, op, n) == (op :> (IF op \in DOMAIN c THEN c[op] + n ELSE n)) @@ c

\* The histogram needs memory, which may run out.
record_stat(st, op, n, off) ==
    LET counted == [st EXCEPT !.ops = Add(@, op, 1), !.bytes = Add(@, op, n)]
        bits == CHOOSE b \in 0 .. 30 : 2 ^ b <= n /\ n < 2 ^ (b + 1)
    IN  IF st.full \/ n = 0 THEN {counted}
        ELSE {[counted EXCEPT !.hist = @ \cup {<<op, bits, off % 2>>}]}
             \cup (IF conf.nomem THEN {[counted EXCEPT !.full = TRUE]} ELSE {})

\* stats_pread ... stats_cache
stats_op(f, r) ==
    IF f.pc = "in" THEN {Invoke([f EXCEPT !.pc = "record"], f)}
    ELSE IF r.err # "" THEN {Return(r)}
    ELSE {Keep(Return(r), st) :
            st \in record_stat(M(f), f.op, IF f.op = "flush" THEN 0 ELSE f.n,
                               f.off)}

-----------------------------------------------------------------------------
(* delay: l.zero (delay-zero is set), l.fast (delay-fast-zero) *)

delay_can_fast_zero(l, nx) ==
    IF l.zero /\ ~l.fast THEN 1 ELSE nx.can_fast_zero

\* nbdkit_nanosleep is cut short when the server or the connection ends.
delay(o) == IF conf.quits THEN {o, Fail("ESHUTDOWN")} ELSE {o}

\* delay_pread, delay_pwrite, delay_trim, delay_extents, delay_cache
delay_op(f) == delay(Pass(f))

delay_zero(f) ==
    IF "FAST_ZERO" \in f.flags /\ L(f).zero /\ ~L(f).fast
    THEN {Fail("ENOTSUP")} ELSE delay(Pass(f))

-----------------------------------------------------------------------------
(* spinning: l.heads, l.separate; the handle is a sequence of heads        *)
(* [start, end, pos, lock].                                                *)

\* The disk is split over the heads, the last one takes the remainder.
spinning_prepare(l, size) ==
    LET n == MIN(l.heads, size)
        step == IF n = 0 THEN 0 ELSE size \div n
    IN  [k \in 1 .. n |->
           [start |-> (k - 1) * step, pos |-> (k - 1) * step, lock |-> 0,
            end |-> IF k = n THEN size ELSE k * step]]

find_range(h, pos) ==
    CHOOSE k \in 1 .. Len(h) : h[k].start <= pos /\ pos < h[k].end

\* do_seek: the head moves under its lock, or all of them under the lock of
\* the first, and the lock is held while the seek takes its time.
do_seek(f) ==
    LET h == M(f)
        k == find_range(h, f.off)
        lock == IF L(f).separate THEN k ELSE 1
        moved == IF L(f).separate THEN [h EXCEPT ![k].pos = f.off]
                 ELSE [i \in 1 .. Len(h) |->
                         [h[i] EXCEPT !.pos = h[i].start + f.off - h[k].start]]
    IN  IF f.pc = "in" /\ h[lock].lock # 0 THEN {Wait}
        ELSE IF f.pc = "in"
        THEN {Keep(Stay([f EXCEPT !.pc = "seeking"]),
                   [moved EXCEPT ![lock].lock = f.t])}
        ELSE {Keep(Pass(f), [h EXCEPT ![lock].lock = 0])}

-----------------------------------------------------------------------------
(* tls-fallback: l.tls, whether this connection uses TLS.  If not, the     *)
(* layers below are not open; the export is a message of l.size units.     *)

tls_fallback_answers(l, nx) ==
    IF l.tls THEN nx
    ELSE [q \in Questions |->
            CASE q = "get_size" -> l.size
              [] q = "block_size" -> <<0, 0, 0>>
              [] q \in {"can_write", "can_flush", "is_rotational",
                        "can_extents", "can_multi_conn", "can_cache"} -> 0
              [] OTHER -> nx[q]]

tls_fallback_pread(f) ==
    IF L(f).tls THEN {Pass(f)} ELSE {OkBuf([i \in 1 .. f.n |-> 1])}
=============================================================================
