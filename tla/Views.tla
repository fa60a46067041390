------------------------------- MODULE Views --------------------------------
(***************************************************************************)
(* Filters that show the client another disk than the plugin's: offset     *)
(* (filters/offset), partition (filters/partition), truncate               *)
(* (filters/truncate) and swab (filters/swab).  A unit is a byte for swab  *)
(* and truncate and a sector for partition.  The partition table is a      *)
(* record of the layer's configuration, the data the plugin holds where    *)
(* the filter looks for it.                                                *)
(***************************************************************************)
EXTENDS Layers

-----------------------------------------------------------------------------
(* offset: l.offset, l.range (-1 if not set) *)

offset_config(l) == l.offset >= 0 /\ l.range >= -1

offset_get_size(l, real) ==
    IF l.range >= 0
    THEN IF l.offset > real - l.range THEN -1 ELSE l.range
    ELSE IF l.offset > real THEN -1 ELSE real - l.offset

\* Shift a request into the plugin's disk; also what partition does.
Shift(f, d) == Pass([f EXCEPT !.off = @ + d])

\* Mutant: the request is not moved.
offset_opUnmoved(f) == {Pass(f)}

\* offset_pread ... offset_zero, offset_cache
offset_op(f) == {Shift(f, L(f).offset)}

\* The extents beyond the window are cut off by the second list.
ShiftedExtents(f, d, end) ==
    Invoke([f EXCEPT !.pc = "copy"],
           [f EXCEPT !.off = @ + d,
                     !.exts = nbdkit_extents_new(f.off + d, end)])

offset_extents(f, r) ==
    LET l == L(f)
        end == IF l.range >= 0 THEN l.offset + l.range
               ELSE caps[f.lvl + 1].get_size
    IN  IF f.pc = "in" THEN Allocating(ShiftedExtents(f, l.offset, end))
        ELSE IF r.err # "" THEN {Return(r)}
        ELSE {ReturnCopy(f.exts, r.exts, l.offset)}

-----------------------------------------------------------------------------
(* partition: l.partnum, l.sector (the size of a sector), l.table *)

partition_config(l) == l.partnum >= 1

NotFound == [offset |-> -1, range |-> -1]

\* l.table.entries: the GPT entries, l.table.per of them in a sector.
get_gpt_header(t) == t.lba = 2
find_gpt_partition(l, size) ==
    LET t == l.table
        e == t.entries[l.partnum]
    IN  IF \/ ~get_gpt_header(t)
           \/ l.partnum > Len(t.entries)
           \/ ~t.entry_size_ok
           \/ size * t.per < (3 * t.per + 2 * Len(t.entries)) * l.sector
           \/ ~e.used
        THEN NotFound
        ELSE [offset |-> e.first * l.sector,
              range |-> (1 + e.last - e.first) * l.sector]

is_extended(p) == p.type = "extended"

\* Walk the chain of extended boot records, which must go up.
find_logical(l, size, ep) ==
    LET t == l.table
        walk[i \in 5 .. (5 + size), ebr \in 0 .. size] ==
          IF ebr < l.sector \/ ebr >= size - l.sector \/ ebr \notin DOMAIN t.ebr
          THEN NotFound
          ELSE LET first == t.ebr[ebr].first
                   link == t.ebr[ebr].link
                   offset == ebr + first.start * l.sector
                   range == first.n * l.sector
                   up == (ep.start + link.start) * l.sector
               IN  IF l.partnum = i
                   THEN IF \/ offset <= ebr
                           \/ offset + range > (ep.start + ep.n) * l.sector
                        THEN NotFound
                        ELSE [offset |-> offset, range |-> range]
                   ELSE IF (link.start = 0 /\ link.n = 0) \/ up <= ebr
                           \/ up > size
                   THEN NotFound
                   ELSE walk[i + 1, up]
    IN  IF ep.start * l.sector > size THEN NotFound
        ELSE walk[5, ep.start * l.sector]

\* l.table.primary: the four entries of the MBR.
find_mbr_partition(l, size) ==
    LET ps == l.table.primary
        extended == {i \in 1 .. 4 : ps[i].n > 0 /\ is_extended(ps[i])}
    IN  IF l.partnum > 4
        THEN IF extended = {} THEN NotFound
             ELSE find_logical(l, size,
                    ps[CHOOSE i \in extended : \A j \in extended : i <= j])
        ELSE LET p == ps[l.partnum]
             IN  IF p.n > 0 /\ p.type = "data"
                 THEN [offset |-> p.start * l.sector,
                       range |-> p.n * l.sector]
                 ELSE NotFound

\* A GPT table counts only on a disk with room for one.
partition_prepare(l, size) ==
    LET gpt == l.table.kind = "gpt" /\ size >= (3 + l.table.room) * l.sector
        p == IF gpt THEN find_gpt_partition(l, size)
             ELSE IF l.table.kind = "mbr" THEN find_mbr_partition(l, size)
             ELSE NotFound
    IN  IF \/ size < 2 * l.sector
           \/ p.offset < 0 \/ p.range < 0 \/ p.offset + p.range > size
        THEN [ok |-> FALSE] ELSE [ok |-> TRUE, h |-> p]

partition_get_size(h) == h.range

\* partition_pread ... partition_zero, partition_cache
partition_op(f) == {Shift(f, M(f).offset)}

partition_extents(f, r) ==
    LET h == M(f)
    IN  IF f.pc = "in"
        THEN Allocating(ShiftedExtents(f, h.offset, h.offset + h.range))
        ELSE IF r.err # "" THEN {Return(r)}
        ELSE {ReturnCopy(f.exts, r.exts, h.offset)}

-----------------------------------------------------------------------------
(* truncate: l.size (-1 if not set), l.up, l.down (0 if not set) *)

truncate_config(l) == l.size >= -1 /\ l.up >= 0 /\ l.down >= 0

truncate_prepare(l, real) ==
    LET cut == IF l.size >= 0 THEN l.size ELSE real
        up == IF l.up > 0 THEN ROUND_UP(cut, l.up) ELSE cut
        down == IF l.down > 0 THEN ROUND_DOWN(up, l.down) ELSE up
    IN  [ok |-> TRUE, h |-> [real_size |-> real, size |-> down]]

truncate_get_size(h) == h.size

\* The part of a request that lies on the plugin's disk.
Inside(f) == MIN(f.n, M(f).real_size - f.off)
Cut(f) == [f EXCEPT !.n = Inside(f)]

truncate_pread(f, r) ==
    IF f.pc = "in"
    THEN IF f.off < M(f).real_size
         THEN {Invoke([f EXCEPT !.pc = "pad"], Cut(f))}
         ELSE {OkBuf(Zeroes(f.n))}
    ELSE IF r.err # "" THEN {Return(r)}
    ELSE {OkBuf(r.buf \o Zeroes(f.n - Inside(f)))}

\* Only zeroes can be written beyond the plugin's disk; the rest of the
\* request has been written by then.
truncate_pwrite(f, r) ==
    LET n == IF f.off < M(f).real_size THEN Inside(f) ELSE 0
        rest == SubSeq(f.data, n + 1, f.n)
    IN  IF f.pc = "in" /\ n > 0
        THEN {Invoke([f EXCEPT !.pc = "tail"],
                     [Cut(f) EXCEPT !.data = SubSeq(@, 1, n)])}
        ELSE IF f.pc = "tail" /\ r.err # "" THEN {Return(r)}
        ELSE IF IsZero(rest) THEN {Ok} ELSE {Fail("ENOSPC")}

truncate_trim(f) == {IF f.off < M(f).real_size THEN Pass(Cut(f)) ELSE Ok}
truncate_cache(f) == truncate_trim(f)

truncate_zero(f) ==
    IF f.off >= M(f).real_size THEN {Ok}
    ELSE IF "FAST_ZERO" \in f.flags /\ caps[f.lvl + 1].can_fast_zero = 0
    THEN {Fail("ENOTSUP")}
    ELSE {Pass(Cut(f))}

\* truncate_size is -1 when only round-up is given: the subtraction wraps
\* and the extent is cut at the end of the list.
truncate_extents(f, r) ==
    LET real == M(f).real_size
        hole == nbdkit_add_extent(f.exts, real, (L(f).size - real) % Wrap,
                                  {"hole", "zero"})
    IN  IF f.pc = "copy"
        THEN {IF r.err # "" THEN Return(r) ELSE ReturnCopy(f.exts, r.exts, 0)}
        ELSE IF f.off >= real
        THEN {IF hole.r = -1 THEN Fail("ERANGE") ELSE OkExts(hole.exts)}
        ELSE Allocating(Invoke([f EXCEPT !.pc = "copy"],
               [Cut(f) EXCEPT !.exts = nbdkit_extents_new(f.off, real)]))

-----------------------------------------------------------------------------
(* swab: l.bits; w is the number of bytes of a word *)

swab_config(l) == l.bits \in {8, 16, 32, 64}
w(f) == L(f).bits \div 8

swab_get_size(l, real) == ROUND_DOWN(real, l.bits \div 8)
is_aligned(f) == IS_ALIGNED(f.n, w(f)) /\ IS_ALIGNED(f.off, w(f))

buf_bswap(buf, k) ==
    [i \in 1 .. Len(buf) |-> buf[ROUND_DOWN(i - 1, k) + k - ((i - 1) % k)]]

swab_pread(f, r) ==
    IF ~is_aligned(f) THEN {Fail("EINVAL")}
    ELSE IF f.pc = "in" THEN {Invoke([f EXCEPT !.pc = "swap"], f)}
    ELSE IF r.err # "" THEN {Return(r)}
    ELSE {OkBuf(buf_bswap(r.buf, w(f)))}

\* Mutant: the data is written as it came.
swab_pwriteStraight(f) ==
    IF ~is_aligned(f) THEN {Fail("EINVAL")} ELSE {Pass(f)}

\* With 8 bits buf_bswap does nothing, and the freshly allocated block is
\* written uninitialized: any bytes at all.
swab_pwrite(f) ==
    IF ~is_aligned(f) THEN {Fail("EINVAL")}
    ELSE IF w(f) = 1
    THEN UNION {Allocating(Pass([f EXCEPT !.data = junk])) :
                  junk \in [1 .. f.n -> {0, 9}]}
    ELSE Allocating(Pass([f EXCEPT !.data = buf_bswap(@, w(f))]))

\* swab_trim, swab_zero, swab_cache
swab_op(f) == {IF is_aligned(f) THEN Pass(f) ELSE Fail("EINVAL")}

\* Mutant: the types of the merged extents are joined.
GatheredAny(list, align) ==
    FoldLeft(LAMBDA e, e2 : IF e.length >= align THEN e
                            ELSE Extent(e.offset, e.length + e2.length,
                                        e.type \cup e2.type),
             Head(list), Tail(list))

\* nbdkit_extents_aligned: add extents to the first one until it is a word
\* long, keeping only the type bits they share.
Gathered(list, align) ==
    FoldLeft(LAMBDA e, e2 : IF e.length >= align THEN e
                            ELSE Extent(e.offset, e.length + e2.length,
                                        e.type \cap e2.type),
             Head(list), Tail(list))
Until(exts, e) == [exts EXCEPT !.list = <<e>>, !.next = e.offset + e.length]

\* One word is complete, or the rest of it has to be asked for.
GatherStep(f, exts, align) ==
    LET e == Gathered(exts.list, align)
    IN  IF e.length >= align
        THEN {OkExts(Until(exts, [e EXCEPT !.length = align]))}
        ELSE {Invoke([f EXCEPT !.pc = "more", !.x = Until(exts, e)],
                     [f EXCEPT !.off = f.off + e.length,
                               !.n = align - e.length,
                               !.flags = @ \ {"REQ_ONE"},
                               !.exts = nbdkit_extents_new(
                                 e.offset + e.length, f.off + align)])}

nbdkit_extents_aligned(f, r, align) ==
    LET list == r.exts.list
        odd == {i \in 1 .. Len(list) : ~IS_ALIGNED(list[i].length, align)}
        i == CHOOSE k \in odd : \A j \in odd : k <= j
        short == ROUND_DOWN(list[i].length, align)
        kept == IF short = 0 THEN SubSeq(list, 1, i - 1)
                ELSE [SubSeq(list, 1, i) EXCEPT ![i].length = short]
    IN  IF f.pc = "in" THEN {Invoke([f EXCEPT !.pc = "first"], f)}
        ELSE IF r.err # "" THEN {Return(r)}
        ELSE IF f.pc = "more"
        THEN IF list = <<>> \/ list[1].offset # f.x.next
             THEN {Abort("e2->offset == e->offset + e->length")}
             ELSE GatherStep(f, [r.exts EXCEPT !.list = f.x.list \o list,
                                               !.start = f.exts.start,
                                               !.end = f.exts.end], align)
        ELSE IF odd = {} THEN {OkExts(r.exts)}
        ELSE IF list[i].offset + list[i].length > f.off + align
        THEN {OkExts([r.exts EXCEPT !.list = kept,
                                    !.next = list[i].offset + short])}
        ELSE IF i # 1 THEN {Abort("i == 0")}
        ELSE GatherStep(f, r.exts, align)

swab_extents(f, r) ==
    IF ~is_aligned(f) THEN {Fail("EINVAL")}
    ELSE nbdkit_extents_aligned(f, r, w(f))

-----------------------------------------------------------------------------
(***************************************************************************)
(* Filters that change what a layer may be asked: nozero, nocache,         *)
(* noextents, readonly, fua, rotational and blocksize-policy (directories  *)
(* of the same names under filters/).  <filter>_answers maps the answers   *)
(* of the layer below to those of the filter; <filter>_prepare says        *)
(* whether the connection is accepted.  A unit is 512 bytes.               *)
(***************************************************************************)
-----------------------------------------------------------------------------
(* nozero: l.zeromode, l.fastzeromode *)

nozero_config(l) ==
    /\ l.zeromode \in {"none", "emulate", "notrim", "plugin"}
    /\ l.fastzeromode \in {"default", "none", "slow", "ignore"}

NeedsZero(l) == l.zeromode \in {"notrim", "plugin"}
nozero_prepare(l, nx) == NeedsZero(l) => nx.can_zero # NONE

nozero_can_zero(l, nx) ==
    CASE l.zeromode = "none" -> NONE
      [] l.zeromode = "emulate" -> EMULATE
      [] OTHER -> nx.can_zero

\* Mutant: fast zeroing is announced although it would be passed on.
nozero_can_fast_zeroAlways(l, nx) ==
    IF l.zeromode = "none" THEN 0
    ELSE IF l.fastzeromode # "none" THEN 1 ELSE 0

nozero_can_fast_zero(l, nx) ==
    IF l.zeromode = "none" THEN 0
    ELSE IF l.zeromode # "emulate" /\ l.fastzeromode = "default"
    THEN nx.can_fast_zero
    ELSE IF l.fastzeromode # "none" THEN 1 ELSE 0

nozero_zero(f) ==
    LET l == L(f)
        fast == "FAST_ZERO" \in f.flags
        dropped == (IF l.fastzeromode = "ignore" THEN {"FAST_ZERO"} ELSE {})
              \cup (IF l.zeromode = "notrim" THEN {"MAY_TRIM"} ELSE {})
    IN  IF l.zeromode \in {"none", "emulate"} THEN {Abort("zeromode")}
        ELSE IF fast /\ l.fastzeromode = "none" THEN {Abort("fastzeromode")}
        ELSE IF fast /\ l.fastzeromode = "slow" THEN {Fail("ENOTSUP")}
        ELSE {Pass([f EXCEPT !.flags = @ \ dropped])}

-----------------------------------------------------------------------------
(* nocache, noextents, rotational *)

nocache_config(l) == l.cachemode \in {"none", "emulate", "nop"}
nocache_can_cache(l) ==
    CASE l.cachemode = "none" -> NONE
      [] l.cachemode = "emulate" -> EMULATE
      [] l.cachemode = "nop" -> NATIVE
nocache_cache(f) ==
    IF L(f).cachemode = "nop" THEN {Ok} ELSE {Abort("cachemode")}

noextents_can_extents == 0
rotational_is_rotational(l) == l.rotational

-----------------------------------------------------------------------------
(* readonly: l.file, whether readonly-file was given *)

\* Without a file the next layer is opened for writing.
readonly_open(l, ro) == l.file /\ ro
readonly_can_write(l, nx) == IF l.file THEN nx.can_write ELSE 0

\* The file may appear and disappear at any time.
is_readonly_mode(l) == IF l.file THEN {TRUE, FALSE} ELSE {TRUE}

\* readonly_pwrite, readonly_trim, readonly_zero
readonly_op(f) ==
    {IF ro THEN Fail("EROFS") ELSE Pass(f) : ro \in is_readonly_mode(L(f))}

-----------------------------------------------------------------------------
(* fua: l.fuamode *)

\* "none" is the default but fua_config does not know the word.
fua_config(l) ==
    l.fuamode \in {"default", "emulate", "native", "force", "pass", "discard"}

fua_prepare(l, nx) ==
    CASE l.fuamode = "emulate" -> nx.can_flush # 0
      [] l.fuamode \in {"native", "force"} -> nx.can_fua # NONE
      [] OTHER -> TRUE

fua_can_flush(l, nx) ==
    IF l.fuamode \in {"force", "discard"} THEN 1 ELSE nx.can_flush

fua_can_fua(l, nx) ==
    CASE l.fuamode = "default" -> NONE
      [] l.fuamode = "emulate" -> EMULATE
      [] l.fuamode \in {"native", "force", "discard"} -> NATIVE
      [] l.fuamode = "pass" -> nx.can_fua

\* Mutant: an emulated FUA request is not followed by a flush.
fua_pwriteNoFlush(f, r) == {Pass([f EXCEPT !.flags = @ \ {"FUA"}])}

\* fua_pwrite, fua_trim, fua_zero
fua_pwrite(f, r) ==
    LET fua == "FUA" \in f.flags
        mode == L(f).fuamode
        bare == [f EXCEPT !.flags = @ \ {"FUA"}]
    IN  CASE f.pc = "flush" ->
               {IF r.err # "" THEN Return(r)
                ELSE Pass([f EXCEPT !.op = "flush", !.flags = {}, !.data = <<>>])}
          [] f.pc = "in" /\ mode = "default" ->
               {IF fua THEN Abort("fuamode none") ELSE Pass(f)}
          [] f.pc = "in" /\ mode = "emulate" ->
               {IF fua THEN Invoke([f EXCEPT !.pc = "flush"], bare)
                ELSE Pass(f)}
          [] f.pc = "in" /\ mode = "force" ->
               {Pass([f EXCEPT !.flags = @ \cup {"FUA"}])}
          [] f.pc = "in" /\ mode = "discard" -> {Pass(bare)}
          [] OTHER -> {Pass(f)}

\* fua_trim and fua_zero do the same with their own operation.
fua_trim(f, r) == fua_pwrite(f, r)

fua_flush(f) ==
    {IF L(f).fuamode \in {"force", "discard"} THEN Ok ELSE Pass(f)}

-----------------------------------------------------------------------------
(* blocksize-policy: l.policy, l.min, l.pref, l.max, l.disc (0 if not set); *)
(* the sizes of the plugin and of the filter are <<minimum, preferred,      *)
(* maximum>>, <<0, 0, 0>> if there are none.                                *)

MaxBlock == 2 ^ 23 - 1      \* 0xffffffff bytes, in units

\* The test that the maximum is a multiple of the minimum divides the
\* maximum by itself, and so refuses nothing.
policy_config_complete(l) ==
    /\ l.min > 0 => is_power_of_2(l.min) /\ l.min <= 128
    /\ l.pref > 0 => is_power_of_2(l.pref) /\ l.pref <= 65536
    /\ (l.min > 0 /\ l.max > 0 /\ l.max # MaxBlock) => l.max % l.max = 0
    /\ (l.min > 0 /\ l.pref > 0) => l.min <= l.pref
    /\ (l.pref > 0 /\ l.max > 0) => l.pref <= l.max
    /\ (l.min > 0 /\ l.disc > 0) => l.disc > l.min

Given(value, default) == IF value > 0 THEN value ELSE default

policy_block_size(l, bs) ==
    LET min == Given(l.min, IF bs = NoBlockSize THEN 1 ELSE bs[1])
        pref == Given(l.pref, IF bs = NoBlockSize THEN 8 ELSE bs[2])
        max == Given(l.max,
                 IF bs # NoBlockSize THEN bs[3]
                 ELSE IF l.disc > 0 THEN ROUND_DOWN(l.disc, min)
                 ELSE MaxBlock)
    IN  IF l.min > 0 /\ l.pref > 0 /\ l.max > 0
        THEN <<l.min, l.pref, l.max>>
        ELSE IF l.min = 0 /\ l.pref = 0 /\ l.max = 0 THEN bs
        ELSE IF min > pref \/ pref > max THEN BadBlockSize
        ELSE <<min, pref, max>>

check_policy(f) ==
    LET bs == policy_block_size(L(f), M(f).bs)
    IN  \/ L(f).policy = "allow"
        \/ bs = NoBlockSize
        \/ /\ bs # BadBlockSize
           /\ f.n >= bs[1]
           /\ f.op \in {"pread", "pwrite"} => f.n <= bs[3]
           /\ f.n % bs[1] = 0 /\ f.off % bs[1] = 0

\* policy_pread ... policy_extents
policy_op(f) == {IF check_policy(f) THEN Pass(f) ELSE Fail("EINVAL")}

\* An oversize write disconnects the client.
policy_pwrite(f) ==
    IF L(f).disc > 0 /\ f.n > L(f).disc
    THEN {Keep(Fail("ESHUTDOWN"), [M(f) EXCEPT !.gone = TRUE])}
    ELSE policy_op(f)
=============================================================================
