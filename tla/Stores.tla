------------------------------- MODULE Stores -------------------------------
(***************************************************************************)
(* Plugins that need nothing outside the process: memory and data on an    *)
(* allocator, sparse-random, and null, ones, full, zero, pattern, random.  *)
(***************************************************************************)
EXTENDS Layers, DataFormat

-----------------------------------------------------------------------------
(* plugins/memory on common/allocators.  The handle holds the allocator a, *)
(* the threads r that share its lock and the thread w that has it alone.   *)

NoLock == 0
memory_config_complete(l) ==
    l.size >= 0 /\ register_allocator(l.allocator)
memory_get_ready(l) ==
    [a |-> create_allocator(l, l.size), r |-> {}, w |-> NoLock]
memory_has == {"pwrite", "zero", "trim", "flush", "extents"}
memory_answers(l) ==
    ("get_size" :> l.size) @@ ("block_size" :> <<1, Page, 128>>)
    @@ ("can_fua" :> NATIVE) @@ ("can_multi_conn" :> 1)
    @@ ("can_cache" :> NATIVE) @@ ("can_fast_zero" :> 1)

Unlocked(m, t) ==
    [m EXCEPT !.r = @ \ {t}, !.w = IF @ = t THEN NoLock ELSE @]
Position(f) == IF f.x = <<>> THEN f.off ELSE f.x[1]
End(f) == f.off + f.n

\* The writes that a failed allocation leaves behind: some pages, in order.
OutOfMemory(f, m) ==
    {Keep(Fail("ENOMEM"),
          Unlocked([m EXCEPT !.a = do_write(@, f.off, SubSeq(f.data, 1, k))],
                   f.t)) :
       k \in {i \in 0 .. (f.n - 1) :
                /\ i = 0 \/ (f.off + i) % Page = 0
                /\ lookup(m.a, f.off + i) = <<>>
                /\ conf.nomem}}

\* One page while the lock is shared: FALSE if that needs the lock alone.
SharedWrite(a, p) == lookup(a, p.pos) # <<>>
SharedZero(a, p) ==
    \/ lookup(a, p.pos) = <<>>
    \/ p.n < Page /\ ~IsZero(lookup(do_write(a, p.pos, Zeroes(p.n)), p.pos))

\* sparse_array_write and sparse_array_zero: a page at a time with the lock
\* shared, and all over again with the lock alone if a page has to be
\* allocated or freed.
sparse_array_step(f) ==
    LET m == M(f)
        p == Head(Pieces(Position(f), End(f) - Position(f)))
        writing == f.op = "pwrite"
        data == IF writing THEN SubSeq(f.data, p.pos - f.off + 1,
                                       p.pos - f.off + p.n)
                ELSE Zeroes(p.n)
        there == lookup(m.a, p.pos) # <<>>
        shared == IF writing THEN SharedWrite(m.a, p) ELSE SharedZero(m.a, p)
        \* A part of a page is cleared before the page is looked at.
        cleared == IF there /\ (writing \/ p.n < Page)
                   THEN do_write(m.a, p.pos, data) ELSE m.a
    IN  CASE f.pc \in {"in", "go"} ->
               IF m.w # NoLock THEN {Wait}
               ELSE {Keep(Stay([f EXCEPT !.pc = "shared", !.x = <<f.off>>]),
                          [m EXCEPT !.r = @ \cup {f.t}])}
          [] f.pc = "shared" /\ Position(f) = End(f) ->
               {Keep(Ok, Unlocked(m, f.t))}
          [] f.pc = "shared" /\ shared ->
               {Keep(Stay([f EXCEPT !.x = <<p.pos + p.n>>]),
                     [m EXCEPT !.a = cleared])}
          [] f.pc = "shared" ->
               {Keep(Stay([f EXCEPT !.pc = "restart"]),
                     Unlocked([m EXCEPT !.a = cleared], f.t))}
          [] f.pc = "restart" ->
               IF m.w # NoLock \/ m.r # {} THEN {Wait}
               ELSE {Keep(Stay([f EXCEPT !.pc = "alone"]),
                          [m EXCEPT !.w = f.t])}
          [] f.pc = "alone" ->
               {Keep(Ok, Unlocked([m EXCEPT !.a =
                    IF writing THEN do_write(@, f.off, f.data)
                    ELSE do_zero(@, f.off, f.n)], f.t))}
               \cup (IF writing THEN OutOfMemory(f, m) ELSE {})

\* The other allocators hold their lock for the whole operation.
memory_pwrite(f) ==
    LET l == L(f)
        m == M(f)
        a == IF f.op = "pwrite" THEN a_write(l, m.a, f.off, f.data)
             ELSE a_zero(l, m.a, f.off, f.n)
    IN  IF l.allocator = "sparse" THEN sparse_array_step(f)
        ELSE {Keep(Ok, [m EXCEPT !.a = a])}

memory_pread(f) ==
    IF M(f).w # NoLock THEN {Wait}
    ELSE {OkBuf(a_read(L(f), M(f).a, f.off, f.n))}

memory_extents(f) ==
    LET l == L(f)
        a == M(f).a
    IN  IF M(f).w # NoLock THEN {Wait}
        ELSE CASE l.allocator = "sparse" ->
                    {OkExts(sparse_array_extents(a, f.exts, f.off, f.n))}
               [] l.allocator = "malloc" ->
                    {OkExts(m_alloc_extents(f.exts, f.off, f.n).exts)}
               [] ZstdUninitialised(a, f.off) -> {Abort("l2_entry")}
               [] OTHER -> {OkExts(zstd_array_extents(a, f.exts, f.off, f.n))}

memory_op(f) ==
    CASE f.op = "pread" -> memory_pread(f)
      [] f.op \in Writers -> memory_pwrite(f)
      [] f.op = "extents" -> memory_extents(f)
      [] OTHER -> {Ok}

-----------------------------------------------------------------------------
(* plugins/data: a memory disk that starts with the data of a parameter.   *)

\* Exactly one of raw, base64 and data; $VARs only with data.
data_config_complete(l) ==
    l.seen \in {"raw", "base64", "data"} /\ (l.seen # "data" => ~l.extra)
read_base64(l, data) ==
    [ok |-> data # Nothing, a |-> a_write(l, Fresh(l, <<>>).a, 0, data),
     size |-> Len(data)]
ReadParameter(l) ==
    CASE l.seen = "raw" ->
           [ok |-> TRUE, a |-> a_write(l, Fresh(l, <<>>).a, 0, l.bytes),
            size |-> Len(l.bytes)]
      [] l.seen = "base64" -> read_base64(l, l.bytes)
      [] OTHER -> read_data_format(l, l.tokens)
\* p is what ReadParameter gives; the size parameter comes first.
SizedData(l, p, n) ==
    [ok |-> p.ok, size |-> n, r |-> {}, w |-> NoLock,
     a |-> IF p.ok /\ l.allocator = "malloc" THEN extend(p.a, n, l.mlock) ELSE p.a]
WithData(l, p) == SizedData(l, p, IF l.size = -1 THEN p.size ELSE l.size)
data_get_ready(l) == WithData(l, ReadParameter(l))
data_answers(h) ==
    ("get_size" :> h.size) @@ ("block_size" :> <<1, Page, 128>>)
    @@ ("can_fua" :> NATIVE) @@ ("can_multi_conn" :> 1)
    @@ ("can_cache" :> NATIVE) @@ ("can_fast_zero" :> 1)

-----------------------------------------------------------------------------
(* plugins/sparse-random: blocks of data from a random generator, and      *)
(* holes.  A write is accepted when it changes nothing.                    *)

RandomBlock == 2
\* xsrandom and xrandom: some numbers that depend on the seed alone.
xrandom(seed, i) == 1 + ((seed * 5 + i * 3) % 7)

\* The runs of holes and data a random walk leaves in the bitmap.
sparse_random_get_ready(l) ==
    {b \in 0 .. ((l.size - 1) \div RandomBlock) : l.runs[b + 1]}
sparse_random_has == {"pwrite", "zero", "trim", "flush", "extents"}
sparse_random_answers(l) ==
    ("get_size" :> l.size) @@ ("block_size" :> <<1, RandomBlock, 128>>)
    @@ ("can_multi_conn" :> 1) @@ ("can_cache" :> NATIVE)

read_block(l, bm, blknum, offset) ==
    [i \in 1 .. RandomBlock |->
       IF blknum \notin bm THEN 0
       ELSE IF l.content THEN xrandom(l.seed + offset, i)
       ELSE xrandom(l.seed + offset, 1)]

BlockPieces(off, n) == Pieces(off, n)
BlockData(l, bm, p) ==
    SubSeq(read_block(l, bm, p.pos \div RandomBlock, p.pos), (p.pos % RandomBlock) + 1,
           (p.pos % RandomBlock) + p.n)
sparse_random_pread(l, bm, off, n) ==
    FlattenSeq([i \in 1 .. Len(BlockPieces(off, n)) |->
                  BlockData(l, bm, BlockPieces(off, n)[i])])
sparse_random_pwrite(l, bm, f) ==
    IF sparse_random_pread(l, bm, f.off, f.n) = f.data THEN {Ok}
    ELSE {Fail("EIO")}
Blocks(f) == {u \div RandomBlock : u \in Units(f.off, f.n)}
sparse_random_trim_zero(bm, f) ==
    {IF Blocks(f) \cap bm # {} THEN Fail("EIO") ELSE Ok}
sparse_random_extents(bm, f) ==
    {OkExts(FoldLeft(LAMBDA e, p :
        nbdkit_add_extent(e, p.pos, p.n,
          IF p.pos \div RandomBlock \in bm THEN {} ELSE {"hole", "zero"}).exts,
        f.exts, BlockPieces(f.off, f.n)))}

sparse_random_op(f) ==
    CASE f.op = "pread" ->
           Allocating(OkBuf(sparse_random_pread(L(f), M(f), f.off, f.n)))
      [] f.op = "pwrite" -> sparse_random_pwrite(L(f), M(f), f)
      [] f.op \in Writers -> sparse_random_trim_zero(M(f), f)
      [] f.op = "extents" -> sparse_random_extents(M(f), f)
      [] OTHER -> {Ok}

-----------------------------------------------------------------------------
(* The plugins without state. *)

\* pattern: every word of Word units is its own offset, big endian.
Word == 2
Digit(number, k) == (number \div (4 ^ (Word - 1 - k))) % 4
pattern_pread(f) ==
    {OkBuf([k \in 1 .. f.n |->
        LET o == f.off + k - 1 IN Digit(ROUND_DOWN(o, Word), o % Word)])}

\* random: reading gives the same numbers again, writing checks them.
RandomUnit(l, o) == xrandom(l.seed + o, 1)
RandomData(f) == [k \in 1 .. f.n |-> RandomUnit(L(f), f.off + k - 1)]
random_pread(f) == {OkBuf(RandomData(f))}
random_pwrite(f) == {IF f.data = RandomData(f) THEN Ok ELSE Fail("EIO")}
random_trim_zero == {Fail("EIO")}
random_op(f) ==
    CASE f.op = "pread" -> random_pread(f)
      [] f.op = "pwrite" -> random_pwrite(f)
      [] f.op \in Writers -> random_trim_zero
      [] OTHER -> {Ok}

\* One extent for the whole disk.
WholeExtent(f, type) ==
    {OkExts(nbdkit_add_extent(f.exts, 0, L(f).size, type).exts)}
null_op(f) ==
    CASE f.op = "pread" -> {OkBuf(Zeroes(f.n))}
      [] f.op = "extents" -> WholeExtent(f, {"hole", "zero"})
      [] OTHER -> {Ok}
ones_op(f) ==
    CASE f.op = "pread" -> {OkBuf([k \in 1 .. f.n |-> L(f).byte])}
      [] f.op = "extents" -> WholeExtent(f, {})
      [] OTHER -> {Ok}
full_op(f) ==
    CASE f.op = "pread" -> {OkBuf(Zeroes(f.n))}
      [] f.op \in {"pwrite", "trim"} -> {Fail("ENOSPC")}
      [] f.op = "extents" -> WholeExtent(f, {"hole", "zero"})
      [] OTHER -> {Ok}

Cacheable == ("can_cache" :> NATIVE) @@ ("can_multi_conn" :> 1)
null_answers == Cacheable @@ ("can_fast_zero" :> 1) @@ ("can_fua" :> NATIVE)

-----------------------------------------------------------------------------
(* By name. *)

StorePlugins == {"memory", "data", "sparse-random", "pattern", "random",
                 "null", "ones", "full", "zero"}
StoreHas(l) ==
    CASE l.filter \in {"memory", "data"} -> memory_has
      [] l.filter = "sparse-random" -> sparse_random_has
      [] l.filter = "random" -> {"pwrite", "zero", "trim"}
      [] l.filter \in {"null", "ones"} ->
           {"pwrite", "zero", "trim", "flush", "extents"}
      [] l.filter = "full" -> {"pwrite", "trim", "extents"}
      [] OTHER -> {}
StoreGiven(l, h) ==
    CASE l.filter = "memory" -> memory_answers(l)
      [] l.filter = "data" -> data_answers(h)
      [] l.filter = "sparse-random" -> sparse_random_answers(l)
      [] l.filter \in {"null", "ones"} -> null_answers @@ ("get_size" :> l.size)
      [] l.filter = "zero" -> Cacheable @@ ("get_size" :> 0)
      [] OTHER -> Cacheable @@ ("get_size" :> l.size)
StoreAnswers(l, h) == plugin_answers(StoreHas(l), StoreGiven(l, h))
StoreAccepted(l) ==
    CASE l.filter = "memory" -> memory_config_complete(l)
      [] l.filter = "data" -> data_config_complete(l)
      [] l.filter = "full" -> l.size >= 0
      [] OTHER -> TRUE
ReadyWith(h) == [ok |-> h.ok, h |-> h]
StoreReady(l) ==
    CASE l.filter = "memory" -> [ok |-> TRUE, h |-> memory_get_ready(l)]
      [] l.filter = "data" ->
           ReadyWith(data_get_ready(l))
      [] l.filter = "sparse-random" ->
           [ok |-> TRUE, h |-> sparse_random_get_ready(l)]
      [] OTHER -> [ok |-> TRUE, h |-> <<>>]
StoreOp(f) ==
    CASE L(f).filter \in {"memory", "data"} -> memory_op(f)
      [] L(f).filter = "sparse-random" -> sparse_random_op(f)
      [] L(f).filter = "pattern" -> pattern_pread(f)
      [] L(f).filter = "random" -> random_op(f)
      [] L(f).filter = "ones" -> ones_op(f)
      [] L(f).filter = "full" -> full_op(f)
      [] OTHER -> null_op(f)
StoreIdle(l, h) ==
    l.filter \in {"memory", "data"} => h.r = {} /\ h.w = NoLock
=============================================================================
