----------------------------- MODULE Allocators -----------------------------
(***************************************************************************)
(* common/allocators: the three ways to keep a disk in memory.  An         *)
(* operation maps the state of an allocator to the next one; the locks     *)
(* around them are in Stores.  A page has Page units and an L2 directory   *)
(* L2_SIZE pages; no disk has more than MaxPages.  A page that is not     *)
(* there is <<>>.                                                          *)
(***************************************************************************)
EXTENDS Layers

Page == 2
L2_SIZE == 2
L2Span == Page * L2_SIZE
MaxPages == 10

MAX(a, b) == IF a >= b THEN a ELSE b

\* The parts of a range that lie in one page each, in order.
Pieces(off, n) ==
    LET first == off \div Page
        last == (off + n - 1) \div Page
        piece(p) == LET lo == MAX(off, p * Page)
                    IN  [pos |-> lo, n |-> MIN(off + n, (p + 1) * Page) - lo]
    IN  IF n = 0 THEN <<>>
        ELSE [i \in 1 .. (last - first + 1) |-> piece(first + i - 1)]

Rest(offset) == Page - (offset % Page)

-----------------------------------------------------------------------------
(* sparse.c: a directory of directories of pages.  dirs are the numbers of *)
(* the L2 directories in the (sorted) L1 directory, pages the pages of     *)
(* all of them.                                                            *)

NoPages == [dirs |-> {}, pages |-> [k \in 0 .. (MaxPages - 1) |-> <<>>]]

l1_dir_search(sa, offset) == (offset \div L2Span) \in sa.dirs
insert_l1_entry(sa, pages) ==
    [sa EXCEPT !.dirs = @ \cup {(k * Page) \div L2Span : k \in pages}]

lookup(sa, offset) ==
    IF l1_dir_search(sa, offset) THEN sa.pages[offset \div Page] ELSE <<>>

PageOrZero(page) == IF page = <<>> THEN Zeroes(Page) ELSE page
PageNumbers(off, n) == {u \div Page : u \in Units(off, n)}
At(sa, off, n) ==
    [k \in 1 .. n |->
       PageOrZero(lookup(sa, off + k - 1))[((off + k - 1) % Page) + 1]]

sparse_array_read(sa, off, n) == At(sa, off, n)

\* A page with some of its units replaced.
Patch(page, number, off, data) ==
    [k \in 1 .. Page |->
       LET i == (number * Page) + k - 1 - off
       IN  IF i \in 0 .. (Len(data) - 1) THEN data[i + 1]
           ELSE PageOrZero(page)[k]]
do_write(sa, off, data) ==
    LET written == PageNumbers(off, Len(data))
    IN  [insert_l1_entry(sa, written) EXCEPT !.pages =
           [k \in DOMAIN @ |-> IF k \in written
                               THEN Patch(@[k], k, off, data) ELSE @[k]]]

FreeIfZero(sa, numbers) ==
    [sa EXCEPT !.pages =
       [k \in DOMAIN @ |-> IF k \in numbers /\ IsZero(@[k]) THEN <<>> ELSE @[k]]]
\* Only pages that are there are cleared, and freed when all zero.
do_zero(sa, off, n) ==
    LET there == {k \in PageNumbers(off, n) : sa.pages[k] # <<>>}
        cleared == [sa EXCEPT !.pages =
                      [k \in DOMAIN @ |-> IF k \in there
                                          THEN Patch(@[k], k, off, Zeroes(n))
                                          ELSE @[k]]]
    IN  FreeIfZero(cleared, there)

sparse_array_fill(sa, c, off, n) ==
    IF c = 0 THEN do_zero(sa, off, n)
    ELSE do_write(sa, off, [i \in 1 .. n |-> c])

\* Blit: pages that become zero are freed again.
sparse_array_blit(sa, off, data) ==
    FreeIfZero(do_write(sa, off, data), PageNumbers(off, Len(data)))

\* From the offset to the end of its page, even past the end of the request.
AddExtents(exts, off, n, type) ==
    FoldLeft(LAMBDA e, p : nbdkit_add_extent(e, p.pos, Rest(p.pos),
                                             type[p.pos]).exts,
             exts, Pieces(off, n))
sparse_array_extents(sa, exts, off, n) ==
    AddExtents(exts, off, n,
        [o \in off .. (off + n - 1) |->
            IF lookup(sa, o) = <<>> THEN {"hole", "zero"}
            ELSE IF IsZero(At(sa, o, Rest(o))) THEN {"zero"} ELSE {}])

-----------------------------------------------------------------------------
(* malloc.c: an array that is extended when something is written past its  *)
(* end.  A unit that realloc returned and nobody initialised is Unknown.   *)

\* calculate_capacity and generic_vector_reserve, also the page aligned one.
Capacity(cap, n, mlock) ==
    IF mlock THEN ROUND_UP(cap + n, Page)
    ELSE MAX(cap + n, cap + ((cap + 1) \div 2))

extend(ma, new_size, mlock) ==
    LET cap == Len(ma)
        newcap == Capacity(cap, new_size - cap, mlock)
    IN  IF cap >= new_size THEN ma
        ELSE [i \in 1 .. newcap |-> IF i <= cap THEN ma[i]
                                    ELSE IF i <= new_size THEN 0 ELSE Unknown]

m_alloc_read(ma, off, n) ==
    [k \in 1 .. n |-> IF off + k <= Len(ma) THEN ma[off + k] ELSE 0]
m_alloc_write(ma, off, data, mlock) ==
    LET big == extend(ma, off + Len(data), mlock)
    IN  [i \in 1 .. Len(big) |->
           IF i - off \in 1 .. Len(data) THEN data[i - off] ELSE big[i]]
m_alloc_fill(ma, c, off, n, mlock) ==
    m_alloc_write(ma, off, [i \in 1 .. n |-> c], mlock)
\* Beyond the end of the array it reads as zeroes anyway.
m_alloc_zero(ma, off, n) ==
    [i \in 1 .. Len(ma) |-> IF i - off \in 1 .. n THEN 0 ELSE ma[i]]
m_alloc_blit(ma, off, data, mlock) == m_alloc_write(ma, off, data, mlock)
m_alloc_extents(exts, off, n) == nbdkit_add_extent(exts, off, n, {})

-----------------------------------------------------------------------------
(* zstd.c: as sparse.c, with compressed pages.                             *)

Compressed(page) == [zstd |-> page]
lookup_decompress(za, offset) ==
    LET page == lookup(za, offset)
    IN  IF page = <<>> THEN Zeroes(Page) ELSE page.zstd
compress(za, number, buf) ==
    [insert_l1_entry(za, {number}) EXCEPT !.pages[number] = Compressed(buf)]

zstd_array_read(za, off, n) ==
    [k \in 1 .. n |->
       lookup_decompress(za, off + k - 1)[((off + k - 1) % Page) + 1]]
zstd_array_write(za, off, data) ==
    LET written == PageNumbers(off, Len(data))
    IN  [insert_l1_entry(za, written) EXCEPT !.pages =
           [k \in DOMAIN @ |->
              IF k \notin written THEN @[k]
              ELSE Compressed(Patch(lookup_decompress(za, k * Page), k, off,
                                    data))]]

\* l2 is the page l2_entry points to, or -1: it keeps its value when there
\* is no L1 entry.  A compressed page is never all zeroes.
ZstdZeroPiece(s, p) ==
    LET number == p.pos \div Page
        l2 == IF l1_dir_search(s.za, p.pos) THEN number ELSE s.l2
        buf == Patch(lookup_decompress(s.za, p.pos), number, p.pos, Zeroes(p.n))
    IN  [l2 |-> l2,
         za |-> IF l2 = -1 THEN s.za
                ELSE IF s.za.pages[l2] = <<>> THEN s.za
                ELSE IF p.n >= Page THEN [s.za EXCEPT !.pages[l2] = <<>>]
                ELSE compress(s.za, number, buf)]
zstd_array_zero(za, off, n) ==
    FoldLeft(ZstdZeroPiece, [za |-> za, l2 |-> -1], Pieces(off, n)).za

zstd_array_fill(za, c, off, n) ==
    IF c = 0 THEN zstd_array_zero(za, off, n)
    ELSE zstd_array_write(za, off, [i \in 1 .. n |-> c])
zstd_array_blit(za, off, data) == zstd_array_write(za, off, data)

zstd_array_extents(za, exts, off, n) ==
    AddExtents(exts, off, n,
        [o \in off .. (off + n - 1) |->
            IF lookup(za, o) = <<>> THEN {"hole", "zero"}
            ELSE IF IsZero(zstd_array_read(za, o, Rest(o))) THEN {"zero"} ELSE {}])

\* zstd_array_extents reads l2_entry before anything has set it when the
\* first page has no L1 entry.
ZstdUninitialised(za, off) == ~l1_dir_search(za, off)

-----------------------------------------------------------------------------
(* allocator.c: the allocator a parameter asks for. *)

AllocatorTypes == {"sparse", "malloc", "zstd"}
register_allocator(type) == type \in AllocatorTypes
create_allocator(l, size) ==
    IF l.allocator = "malloc" THEN extend(<<>>, size, l.mlock) ELSE NoPages

a_read(l, a, off, n) ==
    CASE l.allocator = "sparse" -> sparse_array_read(a, off, n)
      [] l.allocator = "malloc" -> m_alloc_read(a, off, n)
      [] OTHER -> zstd_array_read(a, off, n)
a_write(l, a, off, data) ==
    CASE l.allocator = "sparse" -> do_write(a, off, data)
      [] l.allocator = "malloc" -> m_alloc_write(a, off, data, l.mlock)
      [] OTHER -> zstd_array_write(a, off, data)
a_fill(l, a, c, off, n) ==
    CASE l.allocator = "sparse" -> sparse_array_fill(a, c, off, n)
      [] l.allocator = "malloc" -> m_alloc_fill(a, c, off, n, l.mlock)
      [] OTHER -> zstd_array_fill(a, c, off, n)
a_zero(l, a, off, n) ==
    CASE l.allocator = "sparse" -> do_zero(a, off, n)
      [] l.allocator = "malloc" -> m_alloc_zero(a, off, n)
      [] OTHER -> zstd_array_zero(a, off, n)
a_blit(l, a, off, data) ==
    CASE l.allocator = "sparse" -> sparse_array_blit(a, off, data)
      [] l.allocator = "malloc" -> m_alloc_blit(a, off, data, l.mlock)
      [] OTHER -> zstd_array_blit(a, off, data)
=============================================================================
