------------------------------ MODULE Formats -------------------------------
(***************************************************************************)
(* Filters that find the exported disk inside something else: an entry of  *)
(* a tar file, a compressed file (gzip, bzip2, xz, lzip), or a disk image  *)
(* (qcow2dec, luks, ext2).  The fields of the container's headers are in   *)
(* the configuration of the layer; the data and the compressed blocks are  *)
(* units of the plugin.  The libraries are external: a compressed unit     *)
(* stands for the two units of Inflate.                                    *)
(***************************************************************************)
EXTENDS Layers

Inflate(buf) ==
    [k \in 1 .. 2 * Len(buf) |-> IF k % 2 = 1 THEN buf[(k + 1) \div 2] % 3
                                 ELSE buf[k \div 2] \div 3]
Refuse == [ok |-> FALSE, h |-> <<>>]
Handle(h) == [ok |-> TRUE, h |-> h]

\* The callback returns -1 and leaves *err alone, which is 0 when the server
\* made the call: the assertion of backend_pread fails.
FailUnset == Abort("*err")

\* The answers of the filters that only let the client read.
ReadOnlyAnswers(nx, size, extents) ==
    [nx EXCEPT !.get_size = size, !.can_write = 0, !.can_multi_conn = 1,
               !.can_extents = extents, !.can_cache = EMULATE]

-----------------------------------------------------------------------------
(* tar: l.entry is <<>> or <<block, size>>, the line tar -t prints.  tar    *)
(* only sees the first copysize units of the plugin.                        *)

calculate_offset_of_entry(l, size) ==
    LET copysize == IF l.limit > 0 THEN MIN(size, l.limit) ELSE size
    IN  IF l.eio \/ l.entry = <<>> THEN Refuse
        ELSE IF l.entry[1] >= copysize THEN Refuse
        ELSE Handle([offset |-> l.entry[1] + 1, size |-> l.entry[2]])

tar_prepare(l, size) == calculate_offset_of_entry(l, size)
tar_get_size(h) == h.size
tar_op(f) == {Pass([f EXCEPT !.off = @ + M(f).offset])}
tar_extents(f, r) ==
    LET d == M(f).offset
    IN  IF f.pc = "in"
        THEN Allocating(Invoke([f EXCEPT !.pc = "copy"],
               [f EXCEPT !.off = @ + d,
                         !.exts = nbdkit_extents_new(f.off + d,
                                                     d + M(f).size)]))
        ELSE {IF r.err # "" THEN Return(r) ELSE ReturnCopy(f.exts, r.exts, d)}

-----------------------------------------------------------------------------
(* gzip and bzip2: the first connection uncompresses the whole plugin into *)
(* a temporary file.  l.ended: the stream has an end.                      *)

do_uncompress(l) ==
    IF l.eio \/ ~l.ended THEN Refuse
    ELSE Handle([compressed_size |-> Cardinality(DOMAIN conf.disk),
                 data |-> Inflate([k \in 1 .. Cardinality(DOMAIN conf.disk) |->
                                     conf.disk[k - 1]])])

gzip_prepare(l) == do_uncompress(l)
gzip_get_size(h, size) ==
    IF size # h.compressed_size THEN -1 ELSE Len(h.data)
gzip_answers(nx, h) ==
    ReadOnlyAnswers(nx, gzip_get_size(h, nx.get_size), 0)

gzip_pread(f) ==
    LET read == OkBuf(SubSeq(M(f).data, f.off + 1, f.off + f.n))
    IN  IF L(f).tmpfails THEN {read, FailUnset} ELSE {read}

\* Without its end BZ2_bzDecompress asks for more input for ever.
Endless(l) == l.filter = "bzip2" /\ ~l.ended /\ ~l.eio
bzip2_prepare(l) == do_uncompress(l)
bzip2_answers(nx, h) == gzip_answers(nx, h)
bzip2_pread(f) == gzip_pread(f)

-----------------------------------------------------------------------------
(* The cache of uncompressed blocks of xz and lzip. *)

new_blkcache(l) == <<>>

Hits(c, offset) ==
    {i \in 1 .. Len(c) : c[i].start <= offset
                         /\ offset < c[i].start + Len(c[i].data)}

\* The block found changes places with the first one.
get_block(c, offset) ==
    LET i == CHOOSE i \in Hits(c, offset) :
                \A j \in Hits(c, offset) : i <= j
    IN  [c EXCEPT ![1] = c[i], ![i] = c[1]]

put_block(c, maxdepth, start, data) ==
    <<[start |-> start, data |-> data]>>
      \o SubSeq(c, 1, MIN(Len(c), maxdepth - 1))

\* Copy from block b what the request wants of it, and go on or return.
FromBlock(f, c, b, out) ==
    LET pos == f.off + Len(out)
        n == MIN(b.start + Len(b.data) - pos, f.off + f.n - pos)
        all == out \o SubSeq(b.data, pos - b.start + 1, pos - b.start + n)
        m == [M(f) EXCEPT !.cache = c]
    IN  Keep(IF Len(all) = f.n THEN OkBuf(all)
             ELSE Stay([f EXCEPT !.pc = "block", !.x = all]), m)

-----------------------------------------------------------------------------
(* xz: l.streams, each [padding, footer, header, blocks], is the file from  *)
(* its start; a block is [start, csize, usize, good].                       *)

\* From the last stream to the first: padding is skipped, header and footer
\* must be there and be equal.
parse_indexes(l) ==
    FoldRight(LAMBDA s, a :
                IF ~a.ok \/ ~s.footer \/ ~s.header THEN [ok |-> FALSE]
                ELSE [ok |-> TRUE, idx |-> s.blocks \o a.idx],
              l.streams, [ok |-> TRUE, idx |-> <<>>])

UncompressedSize(idx) == FoldLeft(LAMBDA n, b : n + b.usize, 0, idx)
iter_indexes(idx) ==
    FoldLeft(LAMBDA n, b : IF b.usize > n THEN b.usize ELSE n, 0, idx)

xzfile_open(l) ==
    LET p == parse_indexes(l)
    IN  IF l.eio \/ ~l.magic \/ ~p.ok THEN Refuse
        ELSE Handle([idx |-> p.idx, cache |-> new_blkcache(l)])
xz_prepare(l) ==
    LET x == xzfile_open(l)
    IN  IF x.ok /\ l.maxblock >= iter_indexes(x.h.idx) THEN x ELSE Refuse
xz_answers(nx, h) == ReadOnlyAnswers(nx, UncompressedSize(h.idx), 0)

\* lzma_index_iter_locate: the block that contains an offset.
Locate(idx, offset) ==
    CHOOSE i \in 1 .. Len(idx) :
       LET s == UncompressedSize(SubSeq(idx, 1, i - 1))
       IN  s <= offset /\ offset < s + idx[i].usize

\* The header of the block, then its data.
xzfile_read_block(f, r, out) ==
    LET pos == f.off + Len(out)
        i == Locate(M(f).idx, pos)
        b == M(f).idx[i]
        start == UncompressedSize(SubSeq(M(f).idx, 1, i - 1))
        data == Inflate(r.buf)
        c == put_block(M(f).cache, L(f).maxdepth, start, data)
    IN  CASE f.pc \in {"in", "block"} ->
               Invoke([f EXCEPT !.pc = "header", !.x = out],
                      [f EXCEPT !.off = b.start, !.n = 1])
          [] r.err # "" -> Return(r)
          [] f.pc = "header" /\ ~b.good -> FailUnset
          [] f.pc = "header" ->
               Invoke([f EXCEPT !.pc = "data", !.x = out],
                      [f EXCEPT !.off = b.start + 1, !.n = b.csize])
          [] OTHER -> FromBlock(f, c, c[1], out)

xz_pread(f, r) ==
    LET out == IF f.pc = "in" THEN <<>> ELSE f.x
        c == M(f).cache
        pos == f.off + Len(out)
        hit == get_block(c, pos)
    IN  IF f.pc \in {"in", "block"} /\ Hits(c, pos) # {}
        THEN {FromBlock(f, hit, hit[1], out)}
        ELSE {xzfile_read_block(f, r, out)}

-----------------------------------------------------------------------------
(* lzip: l.members, each [start, size, usize, magic], from the start of    *)
(* the file; the index holds them from the end of the file, as they are    *)
(* found.                                                                  *)

setup_index(l) ==
    [ok |-> \A i \in 1 .. Len(l.members) : l.members[i].magic,
     idx |-> Reverse(l.members)]

\* When all members but the last have one size, the search is a division.
\* The first member found, which is the last of the file, is not looked at.
lzip_index_finalize(idx) ==
    LET n == Len(idx)
        first == idx[n].usize
    IN  IF \A i \in 2 .. (n - 1) : idx[i].usize = first THEN first ELSE 0

DataOffset(idx, i) == UncompressedSize(SubSeq(idx, i + 1, Len(idx)))
lzip_index_search(idx, offset) ==
    LET k == lzip_index_finalize(idx)
    IN  IF k # 0 THEN Len(idx) - (offset \div k)
        ELSE CHOOSE i \in 1 .. Len(idx) :
                /\ DataOffset(idx, i) <= offset
                /\ offset < DataOffset(idx, i) + idx[i].usize

get_max_uncompressed_block_size(idx) ==
    IF lzip_index_finalize(idx) # 0 THEN lzip_index_finalize(idx)
    ELSE iter_indexes(idx)

lzipfile_open(l) ==
    LET s == setup_index(l)
    IN  IF l.eio \/ ~s.ok THEN Refuse
        ELSE Handle([idx |-> s.idx, cache |-> new_blkcache(l)])
lzip_prepare(l) ==
    LET x == lzipfile_open(l)
    IN  IF x.ok /\ l.maxblock >= get_max_uncompressed_block_size(x.h.idx)
        THEN x ELSE Refuse
lzip_answers(nx, h) == ReadOnlyAnswers(nx, UncompressedSize(h.idx), 0)

\* When the last member is the longest the quotient is too large and the
\* search returns an element in front of the array.
lzipfile_read_block(f, r, out) ==
    LET pos == f.off + Len(out)
        i == lzip_index_search(M(f).idx, pos)
        b == M(f).idx[i]
        c == put_block(M(f).cache, L(f).maxdepth, DataOffset(M(f).idx, i),
                       Inflate(r.buf))
    IN  CASE i < 1 -> Abort("members.ptr[-1]")
          [] f.pc \in {"in", "block"} ->
               Invoke([f EXCEPT !.pc = "data", !.x = out],
                      [f EXCEPT !.off = b.start, !.n = b.size])
          [] r.err # "" -> Return(r)
          [] OTHER -> FromBlock(f, c, c[1], out)

lzip_pread(f, r) ==
    LET out == IF f.pc = "in" THEN <<>> ELSE f.x
        c == M(f).cache
        pos == f.off + Len(out)
        hit == get_block(c, pos)
    IN  IF f.pc \in {"in", "block"} /\ Hits(c, pos) # {}
        THEN {FromBlock(f, hit, hit[1], out)}
        ELSE {lzipfile_read_block(f, r, out)}

-----------------------------------------------------------------------------
(***************************************************************************)
(* Filters that decode a disk image: qcow2dec, luks and ext2.              *)
(*                                                                         *)
(* A cluster of qcow2, a sector of LUKS and a block of ext2 are two units. *)
(* The ciphers of GnuTLS never fail here; how a sector is encrypted        *)
(* depends on its number.  libext2fs is external: it keeps one block of    *)
(* the open file in a buffer.                                              *)
(***************************************************************************)
Block == 2
do_encrypt(buf, sector) == [k \in DOMAIN buf |-> (buf[k] + sector + 1) % 4]
do_decrypt(buf, sector) == [k \in DOMAIN buf |-> (buf[k] - sector - 1) % 4]

\* The part of [off, off + n) from pos to the end of its block.
PartFrom(f, pos) == MIN(Block - (pos % Block), f.off + f.n - pos)
IsPart(f, pos) == PartFrom(f, pos) < Block

-----------------------------------------------------------------------------
(* qcow2dec: l.hdr is the header.  An entry of an L2 table is one unit:    *)
(* the offset of the cluster, plus 1 when it reads as zeroes, plus 32 for  *)
(* reserved bits, or 64 plus the offset of a compressed cluster.           *)

L2Entries == Block
IsCompressed(e) == e >= 64
Reserved(e) == e % 64 >= 32
OffsetOf(e) == ROUND_DOWN(e % 32, 2)
ReadsZero(e) == e % 2 = 1 \/ OffsetOf(e) = 0
InsideFile(off, size) ==
    off >= Block /\ off % Block = 0 /\ off <= size - Block

\* The L1 table is looked for inside the virtual size, not the file.
get_qcow2_metadata(l, size) ==
    LET h == l.hdr
    IN  IF \/ l.eio \/ ~h.magic \/ h.version \notin {2, 3} \/ h.backing
           \/ h.cluster_bits \notin 9 .. 21 \/ h.crypt \/ h.snapshots > 0
           \/ h.version = 3 /\ h.header_length \notin 104 .. 511
           \/ h.version = 3 /\ h.extended
           \/ h.l1_offset < 1 \/ h.l1_offset >= h.size
           \/ h.l1_offset + h.l1_size > h.size
        THEN Refuse
        ELSE Handle([l1 |-> [i \in 1 .. h.l1_size |->
                               conf.disk[h.l1_offset + i - 1]],
                     l2 |-> [i \in 1 .. h.l1_size |-> <<>>],
                     lock |-> [i \in 1 .. h.l1_size |-> 0],
                     qcow2_size |-> size, size |-> h.size])
qcow2dec_prepare(l, size) == get_qcow2_metadata(l, size)
qcow2dec_get_size(h, size) == IF size # h.qcow2_size THEN -1 ELSE h.size
qcow2dec_answers(nx, h) ==
    ReadOnlyAnswers(nx, qcow2dec_get_size(h, nx.get_size), 1)

\* The L2 table of an offset, once loaded; the first reader loads it while
\* it holds the table's lock.
L1Index(offset) == (offset \div (Block * L2Entries)) + 1
L2Entry(f, offset) ==
    M(f).l2[L1Index(offset)][((offset \div Block) % L2Entries) + 1]
L2Present(f, offset) == M(f).l1[L1Index(offset)] # 0
BadL1(f, offset) == L1Index(offset) > Len(M(f).l1)
L2Known(f, offset) ==
    ~L2Present(f, offset) \/ M(f).l2[L1Index(offset)] # <<>>

\* read_l2_entry for an entry that is not in memory; x is the caller's
\* state.  The flags of the request go with the read.
read_l2_entry(f, r, offset, x) ==
    LET i == L1Index(offset)
        free == [M(f) EXCEPT !.lock[i] = 0]
        l2_offset == M(f).l1[i]
        read == Invoke([f EXCEPT !.pc = "table", !.x = x],
                       [f EXCEPT !.op = "pread", !.off = l2_offset,
                                 !.n = Block])
    IN  IF f.pc = "table"
        THEN {IF r.err # "" THEN Keep(Return(r), free)
              ELSE Keep(Stay([f EXCEPT !.pc = "loop", !.x = x]),
                        [free EXCEPT !.l2[i] = r.buf])}
        ELSE IF M(f).lock[i] # 0 THEN {Wait}
        ELSE IF ~InsideFile(l2_offset, M(f).qcow2_size) THEN {Fail("ERANGE")}
        ELSE {Keep(o, [M(f) EXCEPT !.lock[i] =
                         IF o.do = "call" THEN f.t ELSE 0]) :
                o \in Allocating(read)}

\* The cluster at the current position: zeroes, a compressed cluster or a
\* cluster of the file.
ClusterPart(f, pos, data) ==
    SubSeq(data, (pos % Block) + 1, (pos % Block) + PartFrom(f, pos))
read_compressed_cluster(f, e, x) ==
    Invoke([f EXCEPT !.pc = "inflate", !.x = x],
           [f EXCEPT !.off = e - 64, !.n = 1])
read_cluster(f, pos, x) ==
    LET e == L2Entry(f, ROUND_DOWN(pos, Block))
    IN  CASE ~L2Present(f, ROUND_DOWN(pos, Block)) ->
               Stay([f EXCEPT !.pc = "loop",
                       !.x = x \o ClusterPart(f, pos, Zeroes(Block))])
          [] IsCompressed(e) -> read_compressed_cluster(f, e, x)
          [] Reserved(e) -> Fail("ERANGE")
          [] ReadsZero(e) ->
               Stay([f EXCEPT !.pc = "loop",
                       !.x = x \o ClusterPart(f, pos, Zeroes(Block))])
          [] ~InsideFile(OffsetOf(e), M(f).qcow2_size) -> Fail("ERANGE")
          [] OTHER -> Invoke([f EXCEPT !.pc = "data", !.x = x],
                             [f EXCEPT !.off = OffsetOf(e), !.n = Block])

\* An unaligned head, whole clusters, an unaligned tail.
qcow2dec_pread(f, r) ==
    LET out == IF f.pc = "in" THEN <<>> ELSE f.x
        pos == f.off + Len(out)
        cluster == ROUND_DOWN(pos, Block)
        got == IF f.pc = "inflate" THEN Inflate(r.buf) ELSE r.buf
    IN  CASE f.pc \in {"data", "inflate"} ->
               {IF r.err # "" THEN Return(r)
                ELSE Stay([f EXCEPT !.pc = "loop",
                             !.x = out \o ClusterPart(f, pos, got)])}
          [] f.pc # "table" /\ Len(out) = f.n -> {OkBuf(out)}
          [] BadL1(f, cluster) -> {Abort("l1_index")}
          [] f.pc = "table" \/ ~L2Known(f, cluster) ->
               read_l2_entry(f, r, cluster, out)
          [] OTHER -> {read_cluster(f, pos, out)}

\* Whole clusters around the request; the list drops what is before it.
qcow2dec_extents(f, r) ==
    LET x == IF f.pc = "in"
             THEN [pos |-> ROUND_DOWN(f.off, Block), exts |-> f.exts] ELSE f.x
        e == L2Entry(f, x.pos)
        hole == ~L2Present(f, x.pos) \/ (~IsCompressed(e) /\ ReadsZero(e))
        a == nbdkit_add_extent(x.exts, x.pos, Block,
                               IF hole THEN {"hole", "zero"} ELSE {})
        more == [pos |-> x.pos + Block, exts |-> a.exts]
    IN  CASE f.pc # "table" /\ x.pos >= ROUND_UP(f.off + f.n, Block) ->
               {OkExts(x.exts)}
          [] BadL1(f, x.pos) -> {Abort("l1_index")}
          [] f.pc = "table" \/ ~L2Known(f, x.pos) ->
               read_l2_entry(f, r, x.pos, x)
          [] L2Present(f, x.pos) /\ ~IsCompressed(e) /\ Reserved(e) ->
               {Fail("ERANGE")}
          [] a.r = -1 -> {Fail("ERANGE")}
          [] "REQ_ONE" \in f.flags /\ a.exts.list # <<>> -> {OkExts(a.exts)}
          [] OTHER -> {Stay([f EXCEPT !.pc = "loop", !.x = more])}

-----------------------------------------------------------------------------
(* luks: l.pass is the passphrase, l.hdr the header: [magic, version,      *)
(* payload, iterations, keylen, cipher, mode, ivgen, hash, slots], a slot  *)
(* is [active, stripes, iterations, start, pass].  Lengths are in sectors. *)

KeySlotAlign == 2       \* LUKS_ALIGN_KEYSLOTS / LUKS_SECTOR_SIZE

key_material_length_in_sectors(h, s) ==
    ROUND_UP((h.keylen * s.stripes + 511) \div 512, KeySlotAlign)

lookup_cipher_mode == {"ecb", "cbc", "xts", "ctr"}
lookup_ivgen == {"plain", "plain64"}
lookup_hash ==
    {"md5", "sha1", "sha224", "sha256", "sha384", "sha512", "ripemd160"}
\* The bits of the AES key, or 0; XTS takes two keys.
lookup_cipher_alg(h) ==
    LET bytes == IF h.mode = "xts" THEN h.keylen \div 2 ELSE h.keylen
    IN  IF h.cipher = "aes" /\ bytes \in {16, 24, 32} THEN bytes * 8 ELSE 0

\* The strings of the header, and a cipher that GnuTLS has for the mode.
parse_cipher_strings(h) ==
    /\ h.mode \in lookup_cipher_mode /\ h.hash \in lookup_hash
    /\ h.ivgen \in lookup_ivgen
    /\ \/ h.mode = "xts" /\ lookup_cipher_alg(h) \in {128, 256}
       \/ h.mode = "cbc" /\ lookup_cipher_alg(h) \in {128, 192, 256}

GoodSlot(h, s, size) ==
    LET len == key_material_length_in_sectors(h, s)
    IN  \/ s.active = "disabled"
        \/ /\ s.active = "enabled"
           /\ s.stripes \in 1 .. 9999 /\ s.iterations > 0 /\ len <= 4096
           /\ (s.start + len) * Block < size

\* The key slots are tried in order; 1 when the passphrase opens the slot.
try_passphrase_in_keyslot(l, s) == s.active = "enabled" /\ s.pass = l.pass

load_header(l, size) ==
    LET h == l.hdr
    IN  IF /\ ~l.eio /\ h.magic /\ h.version = 1
           /\ h.payload < size \div Block /\ h.iterations > 0
           /\ h.keylen <= 1024
           /\ \A i \in 1 .. Len(h.slots) : GoodSlot(h, h.slots[i], size)
           /\ parse_cipher_strings(h)
           /\ \E i \in 1 .. Len(h.slots) :
                 try_passphrase_in_keyslot(l, h.slots[i])
        THEN Handle([payload |-> h.payload * Block, lock |-> 0])
        ELSE Refuse
luks_prepare(l, size) == load_header(l, size)
luks_get_size(h, size) == IF size < h.payload THEN -1 ELSE size - h.payload
luks_block_size(bs) ==
    IF bs = <<0, 0, 0>> THEN <<Block, Block, 2 ^ 23 - 1>>
    ELSE LET min == IF bs[1] > Block THEN bs[1] ELSE Block
         IN  <<min, IF bs[2] > min THEN bs[2] ELSE min, bs[3]>>
luks_answers(nx, h) ==
    [nx EXCEPT !.get_size = luks_get_size(h, @), !.can_extents = 0,
               !.can_trim = 0, !.can_zero = EMULATE, !.can_fast_zero = 0,
               !.can_cache = EMULATE, !.block_size = luks_block_size(@)]

\* The sector that holds position pos of the disk.
Sector(f, pos) == [f EXCEPT !.off = ROUND_DOWN(pos, Block) + M(f).payload,
                            !.n = Block]

\* Head, body and tail read, decrypt and copy a sector at a time.
luks_pread(f, r) ==
    LET out == IF f.pc = "in" THEN <<>> ELSE f.x
        pos == f.off + Len(out)
        all == out \o ClusterPart(f, pos, do_decrypt(r.buf, pos \div Block))
    IN  CASE f.pc = "sector" /\ r.err # "" -> {Return(r)}
          [] f.pc = "sector" /\ Len(all) = f.n -> {OkBuf(all)}
          [] f.pc = "sector" -> {Stay([f EXCEPT !.pc = "next", !.x = all])}
          [] OTHER ->
               LET read == Invoke([f EXCEPT !.pc = "sector", !.x = out],
                                  Sector(f, pos))
               IN  IF f.pc = "in" THEN Allocating(read) ELSE {read}

\* A part of a sector is read, changed and encrypted again while the lock
\* is held; it is not decrypted in between.  The flags go with every call.
Patched(f, pos, sector) ==
    [k \in 1 .. Block |->
       LET i == ROUND_DOWN(pos, Block) + k - 1
       IN  IF i >= pos /\ i < pos + PartFrom(f, pos)
           THEN f.data[i - f.off + 1] ELSE sector[k]]
luks_pwrite(f, r) ==
    LET pos == IF f.pc = "in" THEN f.off ELSE f.x[1]
        start == Stay([f EXCEPT !.pc = "next", !.x = <<pos>>])
        free == [M(f) EXCEPT !.lock = 0]
        after == pos + PartFrom(f, pos)
        release(o) == IF IsPart(f, pos) THEN Keep(o, free) ELSE o
        write(sector) ==
          Invoke([f EXCEPT !.pc = "write", !.x = <<pos>>],
                 [Sector(f, pos) EXCEPT
                    !.data = do_encrypt(Patched(f, pos, sector), pos \div Block)])
        read == Invoke([f EXCEPT !.pc = "read", !.x = <<pos>>],
                       [Sector(f, pos) EXCEPT !.op = "pread", !.data = <<>>])
    IN  CASE f.pc = "in" -> Allocating(start)
          [] f.pc \in {"read", "write"} /\ r.err # "" -> {release(Return(r))}
          [] f.pc = "read" -> {write(r.buf)}
          [] f.pc = "write" ->
               {release(IF after = f.off + f.n THEN Ok
                        ELSE Stay([f EXCEPT !.pc = "next", !.x = <<after>>]))}
          [] IsPart(f, pos) /\ M(f).lock # 0 -> {Wait}
          [] IsPart(f, pos) -> {Keep(read, [M(f) EXCEPT !.lock = f.t])}
          [] OTHER -> {write(Zeroes(Block))}

-----------------------------------------------------------------------------
(* ext2: l.file is <<>> if ext2file is not a file of the filesystem, or    *)
(* the numbers of its blocks.  The buffer of the open file is [block,      *)
(* data, dirty], block 0 when it is empty.                                 *)

NoBuffer == [block |-> 0, data |-> <<>>, dirty |-> FALSE]
ext2_config_complete(l) == l.absolute
ext2_open == FALSE          \* the next layer is opened for writing
ext2_prepare(l) ==
    IF l.eio \/ l.file = <<>> THEN Refuse ELSE Handle(NoBuffer)
ext2_get_size(l) == Len(l.file) * Block
ext2_answers(l, nx) ==
    [nx EXCEPT !.get_size = ext2_get_size(l), !.can_fua = NATIVE,
               !.can_cache = EMULATE, !.can_multi_conn = 0, !.can_flush = 1,
               !.can_zero = EMULATE, !.can_trim = 0]

raw_read_blk(f, block) ==
    [f EXCEPT !.op = "pread", !.off = block * Block, !.n = Block,
              !.flags = {}, !.data = <<>>]
raw_write_blk(f, b) ==
    [f EXCEPT !.op = "pwrite", !.off = b.block * Block, !.n = Block,
              !.flags = {}, !.data = b.data]

\* Write the buffer when it is dirty and another block is wanted.
WriteBuffer(f, x) ==
    Invoke([f EXCEPT !.pc = "written", !.x = x], raw_write_blk(f, M(f)))
FillBuffer(f, x, block) ==
    Invoke([f EXCEPT !.pc = "filled", !.x = x], raw_read_blk(f, block))

ext2_pread(f, r) ==
    LET out == IF f.pc = "in" THEN <<>> ELSE f.x
        pos == f.off + Len(out)
        block == L(f).file[(pos \div Block) + 1]
        all == out \o ClusterPart(f, pos, M(f).data)
    IN  CASE f.pc \in {"written", "filled"} /\ r.err # "" -> {Return(r)}
          [] f.pc = "written" ->
               {Keep(Stay([f EXCEPT !.pc = "next"]), NoBuffer)}
          [] f.pc = "filled" ->
               {Keep(Stay([f EXCEPT !.pc = "next"]),
                     [block |-> block, data |-> r.buf, dirty |-> FALSE])}
          [] M(f).block # block /\ M(f).dirty -> {WriteBuffer(f, out)}
          [] M(f).block # block -> {FillBuffer(f, out, block)}
          [] Len(all) = f.n -> {OkBuf(all)}
          [] OTHER -> {Stay([f EXCEPT !.pc = "next", !.x = all])}

\* With FUA, and for ext2_flush, the library writes its buffer; it does not
\* flush the device.
ext2_pwrite(f, r) ==
    LET pos == IF f.pc = "in" THEN f.off ELSE f.x[1]
        block == L(f).file[(pos \div Block) + 1]
        whole == ~IsPart(f, pos)
        old == IF whole THEN Zeroes(Block) ELSE M(f).data
        after == pos + PartFrom(f, pos)
        put == [block |-> block, data |-> Patched(f, pos, old), dirty |-> TRUE]
    IN  CASE f.pc \in {"written", "filled", "fua"} /\ r.err # "" -> {Return(r)}
          [] f.pc = "written" ->
               {Keep(Stay([f EXCEPT !.pc = "next"]), NoBuffer)}
          [] f.pc = "filled" ->
               {Keep(Stay([f EXCEPT !.pc = "next"]),
                     [block |-> block, data |-> r.buf, dirty |-> FALSE])}
          [] f.pc = "fua" -> {Keep(Ok, [M(f) EXCEPT !.dirty = FALSE])}
          [] pos = f.off + f.n /\ "FUA" \in f.flags /\ M(f).dirty ->
               {[WriteBuffer(f, <<pos>>) EXCEPT !.self.pc = "fua"]}
          [] pos = f.off + f.n -> {Ok}
          [] M(f).block # block /\ M(f).dirty -> {WriteBuffer(f, <<pos>>)}
          [] M(f).block # block /\ ~whole -> {FillBuffer(f, <<pos>>, block)}
          [] OTHER -> {Keep(Stay([f EXCEPT !.pc = "next", !.x = <<after>>]), put)}

ext2_flush(f, r) ==
    CASE f.pc = "in" /\ M(f).dirty -> {WriteBuffer(f, <<>>)}
      [] f.pc = "in" -> {Ok}
      [] r.err # "" -> {Return(r)}
      [] OTHER -> {Keep(Ok, [M(f) EXCEPT !.dirty = FALSE])}

-----------------------------------------------------------------------------
(* The callbacks of these filters, by name. *)

Decompressors == {"gzip", "bzip2", "xz", "lzip"}
ImageFilters == Decompressors \cup {"tar", "qcow2dec", "luks", "ext2"}

ImageAccepted(l) == l.filter = "ext2" => ext2_config_complete(l)
ImagePrepare(l, size) ==
    CASE l.filter = "tar" -> tar_prepare(l, size)
      [] l.filter = "gzip" -> gzip_prepare(l)
      [] l.filter = "bzip2" -> bzip2_prepare(l)
      [] l.filter = "xz" -> xz_prepare(l)
      [] l.filter = "lzip" -> lzip_prepare(l)
      [] l.filter = "qcow2dec" -> qcow2dec_prepare(l, size)
      [] l.filter = "luks" -> luks_prepare(l, size)
      [] l.filter = "ext2" -> ext2_prepare(l)

ImageAnswers(l, nx, h) ==
    CASE l.filter = "tar" -> [nx EXCEPT !.get_size = tar_get_size(h)]
      [] l.filter = "gzip" -> gzip_answers(nx, h)
      [] l.filter = "bzip2" -> bzip2_answers(nx, h)
      [] l.filter = "xz" -> xz_answers(nx, h)
      [] l.filter = "lzip" -> lzip_answers(nx, h)
      [] l.filter = "qcow2dec" -> qcow2dec_answers(nx, h)
      [] l.filter = "luks" -> luks_answers(nx, h)
      [] l.filter = "ext2" -> ext2_answers(l, nx)

ImageSilent(l) ==
    CASE l.filter \in Decompressors \cup {"qcow2dec"} ->
           {"can_write", "can_multi_conn", "can_extents", "can_cache"}
      [] l.filter = "luks" -> {"can_extents", "can_trim", "can_zero",
                               "can_fast_zero", "can_cache"}
      [] l.filter = "ext2" -> {"can_fua", "can_cache", "can_multi_conn"}
      [] OTHER -> {}
ImageAsks(l) ==
    IF l.filter = "ext2" THEN {"get_size", "can_write"} ELSE {"get_size"}

ImageCallback(f, r) ==
    LET name == L(f).filter
        op == f.op
    IN  CASE name = "tar" /\ op = "extents" -> tar_extents(f, r)
          [] name = "tar" /\ op # "flush" -> tar_op(f)
          [] name = "gzip" /\ op = "pread" -> gzip_pread(f)
          [] name = "bzip2" /\ op = "pread" -> bzip2_pread(f)
          [] name = "xz" /\ op = "pread" -> xz_pread(f, r)
          [] name = "lzip" /\ op = "pread" -> lzip_pread(f, r)
          [] name = "qcow2dec" /\ op = "pread" -> qcow2dec_pread(f, r)
          [] name = "qcow2dec" /\ op = "extents" -> qcow2dec_extents(f, r)
          [] name = "luks" /\ op = "pread" -> luks_pread(f, r)
          [] name = "luks" /\ op = "pwrite" -> luks_pwrite(f, r)
          [] name = "ext2" /\ op = "pread" -> ext2_pread(f, r)
          [] name = "ext2" /\ op = "pwrite" -> ext2_pwrite(f, r)
          [] name = "ext2" /\ op = "flush" -> ext2_flush(f, r)
          [] OTHER -> {Pass(f)}
=============================================================================
