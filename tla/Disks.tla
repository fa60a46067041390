------------------------------- MODULE Disks --------------------------------
(***************************************************************************)
(* Plugins that put a disk around files: partitioning and linuxdisk with a *)
(* partition table, iso with what a program makes.  A disk is a list of    *)
(* regions.  What is in a table is kept beside the regions: a region in    *)
(* memory has values of which only equality matters.                       *)
(***************************************************************************)
EXTENDS Files

SECTOR_SIZE == 2            \* 512
MAX_ALIGNMENT == 8          \* 2048 sectors
MAX_LBA == 60               \* UINT32_MAX
GPT_MIN_PARTITIONS == 2     \* 128, in as many sectors as here two units are
DIV_ROUND_UP(n, k) == (n + k - 1) \div k

\* The loops over regions of the pread and pwrite callbacks.
RegionPart(h, pos) ==
    LET r == find_region(h.regions, pos)
    IN  CASE r.type = "file" -> FilePart(h.bases[r.u] + pos - r.start, r.end - pos + 1)
          [] r.type = "data" -> MemoryPart(SubSeq(r.u, pos - r.start + 1, r.len))
          [] r.type = "zero" -> MemoryPart(Zeroes(r.end - pos + 1))
region_pread(f, r) ==
    io_loop(f, r, RegionPart(M(f), Reached(f)), OkBuf(ReadSoFar(f, r)))

\* What a table holds is no number of the disk: one value for each table.
Table(k, n) == [i \in 1 .. n |-> 100 + k]

-----------------------------------------------------------------------------
(* plugins/partitioning: l.files, each [size, alignment, opens], and       *)
(* l.parttype.                                                             *)

partitioning_config(l) ==
    \A i \in 1 .. Len(l.files) :
       LET g == l.files[i]
       IN  /\ g.opens /\ g.size > 0
           /\ g.alignment >= SECTOR_SIZE /\ g.alignment <= MAX_ALIGNMENT
           /\ IS_ALIGNED(g.alignment, SECTOR_SIZE)

MAX_MBR_DISK_SIZE == MAX_LBA * SECTOR_SIZE - 5 * MAX_ALIGNMENT
needs_gpt(l) == SplitSize(l.files) > MAX_MBR_DISK_SIZE
Parttype(l) ==
    IF l.parttype # "unset" THEN l.parttype
    ELSE IF needs_gpt(l) \/ Len(l.files) > 4 THEN "gpt" ELSE "mbr"
partitioning_config_complete(l) ==
    l.files # <<>> /\ ~(l.parttype = "mbr" /\ needs_gpt(l))

GPT_PTA_SIZE(n) == ROUND_UP(n, GPT_MIN_PARTITIONS)
GPT_PTA_LBAs(n) == GPT_PTA_SIZE(n) \div SECTOR_SIZE

\* The first three partitions of five or more are primary ones, the others
\* are logical, each after a boot record of its own.
HasEbr(l, i) == Parttype(l) = "mbr" /\ Len(l.files) > 4 /\ i >= 4
Ebr(i) == Table(i, SECTOR_SIZE)
create_virtual_disk_layout(l) ==
    LET n == Len(l.files)
        gpt == Parttype(l) = "gpt"
        start == append_region_len(<<>>,
                   IF gpt THEN (2 + GPT_PTA_LBAs(n)) * SECTOR_SIZE
                   ELSE SECTOR_SIZE, 0, 0, "data",
                   Table(0, (2 + GPT_PTA_LBAs(n)) * SECTOR_SIZE))
        one(rs, i) ==
          LET before == IF HasEbr(l, i)
                        THEN append_region_len(rs, SECTOR_SIZE, 0, 0, "data", Ebr(i))
                        ELSE rs
          IN  IF ~IS_ALIGNED(virtual_size(rs), SECTOR_SIZE) THEN Broken
              ELSE append_region_len(before, l.files[i].size,
                     l.files[i].alignment, SECTOR_SIZE, "file", i)
        parts == FoldLeft(one, start, [i \in 1 .. n |-> i])
    IN  IF gpt THEN append_region_len(parts, (GPT_PTA_LBAs(n) + 1) * SECTOR_SIZE,
                      0, 0, "data", Table(n + 1, (GPT_PTA_LBAs(n) + 1) * SECTOR_SIZE))
        ELSE parts

find_file_region(rs, i) ==
    rs[CHOOSE k \in 1 .. Len(rs) : rs[k].type = "file" /\ rs[k].u = i]
find_ebr_region(rs, i) ==
    rs[CHOOSE k \in 1 .. Len(rs) : rs[k].type = "data" /\ rs[k].u = Ebr(i)]

\* An entry that does not fit into 32 bits, or is not aligned, is aborted.
NoEntry == [type |-> "empty", start |-> 0, n |-> 0]
BadEntry == [type |-> "abort", start |-> 0, n |-> 0]
create_mbr_partition_table_entry(type, start, len) ==
    LET first == start \div SECTOR_SIZE
        n == DIV_ROUND_UP(len, SECTOR_SIZE)
    IN  IF ~IS_ALIGNED(start, SECTOR_SIZE) \/ first > MAX_LBA \/ n > MAX_LBA
        THEN BadEntry ELSE [type |-> type, start |-> first, n |-> n]
FileEntry(rs, i) ==
    LET r == find_file_region(rs, i)
    IN  create_mbr_partition_table_entry("data", r.start, r.len)

\* The link of a boot record is relative to the extended partition, its
\* first entry to the record itself.
create_mbr_layout(l, rs) ==
    LET n == Len(l.files)
        first == find_ebr_region(rs, 4).start
        record(i) ==
          LET r == find_file_region(rs, i)
              e == find_ebr_region(rs, i)
              next == find_ebr_region(rs, i + 1)
              last == find_file_region(rs, i + 1).end
          IN  [first |-> create_mbr_partition_table_entry("data",
                           r.start - e.start, r.len),
               link |-> IF i = n THEN NoEntry
                        ELSE create_mbr_partition_table_entry("extended",
                               next.start - first, last - next.start + 1)]
    IN  IF n <= 4
        THEN [kind |-> "mbr", ebr |-> <<>>,
              primary |-> [i \in 1 .. 4 |-> IF i <= n THEN FileEntry(rs, i)
                                            ELSE NoEntry]]
        ELSE [kind |-> "mbr",
              primary |-> [i \in 1 .. 4 |->
                 IF i <= 3 THEN FileEntry(rs, i)
                 ELSE create_mbr_partition_table_entry("extended", first,
                        virtual_size(rs) - first)],
              ebr |-> [at \in {find_ebr_region(rs, i).start : i \in 4 .. n} |->
                 record(CHOOSE i \in 4 .. n : find_ebr_region(rs, i).start = at)]]

create_gpt_partition_table_entry(r) ==
    [used |-> TRUE, first |-> r.start \div SECTOR_SIZE,
     last |-> r.end \div SECTOR_SIZE]
NoGptEntry == [used |-> FALSE, first |-> 0, last |-> 0]
create_gpt_partition_table(rs, n) ==
    LET files == SelectSeq(rs, LAMBDA r : r.type = "file")
    IN  [i \in 1 .. n |-> IF i <= Len(files)
                          THEN create_gpt_partition_table_entry(files[i])
                          ELSE NoGptEntry]
\* Both headers; lbas is the number of sectors of the array of entries.
create_gpt_partition_header(rs, lbas, primary) ==
    LET nr == virtual_size(rs) \div SECTOR_SIZE
    IN  [current |-> IF primary THEN 1 ELSE nr - 1,
         backup |-> IF primary THEN nr - 1 ELSE 1,
         first_usable |-> 2 + lbas, last_usable |-> nr - lbas - 2,
         entries |-> IF primary THEN 2 ELSE nr - lbas - 1]
create_gpt_protective_mbr(rs) ==
    LET last == MIN(virtual_size(rs) - 1, MAX_LBA * SECTOR_SIZE)
    IN  create_mbr_partition_table_entry("protective", SECTOR_SIZE,
          last - SECTOR_SIZE + 1)
create_gpt_layout(rs, n) ==
    [kind |-> "gpt", lba |-> 2, per |-> SECTOR_SIZE, entry_size_ok |-> TRUE,
     room |-> 1, entries |-> create_gpt_partition_table(rs, n),
     protective |-> create_gpt_protective_mbr(rs),
     header |-> create_gpt_partition_header(rs, n \div SECTOR_SIZE, TRUE),
     second |-> create_gpt_partition_header(rs, n \div SECTOR_SIZE, FALSE)]

Aborted(table) ==
    IF table.kind = "gpt" THEN table.protective = BadEntry
    ELSE \/ BadEntry \in ToSet(table.primary)
         \/ \E e \in DOMAIN table.ebr :
               BadEntry \in {table.ebr[e].first, table.ebr[e].link}

\* A disk is ready; an assertion has failed in its regions or in its table.
DiskMade(ok, misplaced, rs, table, bases) ==
    [ok |-> ok, aborts |-> ok /\ (IsBroken(rs) \/ misplaced \/ Aborted(table)),
     h |-> [regions |-> rs, table |-> table, bases |-> bases]]
Misplaced(l, rs) ==
    \E k \in 1 .. Len(rs) :
       /\ rs[k].type = "file"
       /\ ~IS_ALIGNED(rs[k].start, l.files[rs[k].u].alignment)
create_partition_tables(l, rs) ==
    IF Parttype(l) = "gpt" THEN create_gpt_layout(rs, GPT_PTA_SIZE(Len(l.files)))
    ELSE create_mbr_layout(l, rs)
PartitioningOf(l, rs) ==
    DiskMade(TRUE, Misplaced(l, rs), rs, create_partition_tables(l, rs),
             [i \in 1 .. Len(l.files) |-> SplitStart(l.files, i)])
partitioning_get_ready(l) == PartitioningOf(l, create_virtual_disk_layout(l))

partitioning_has == {"pwrite", "flush"}
DiskAnswers(h) ==
    ("get_size" :> virtual_size(h.regions)) @@ ("can_multi_conn" :> 1)
    @@ ("can_cache" :> EMULATE)
partitioning_pread(f, r) == region_pread(f, r)
partitioning_pwrite(f, r) ==
    io_loop(f, r, RegionPart(M(f), Reached(f)), Ok)
\* One fdatasync for each file.
partitioning_flush(f, r) ==
    LET fs == L(f).files
        i == IF f.x = <<>> THEN 1 ELSE f.x[1]
    IN  IF f.pc = "synced" /\ r.err # "" THEN {Return(r)}
        ELSE IF i > Len(fs) THEN {Ok}
        ELSE {Syscall([f EXCEPT !.pc = "synced", !.x = <<i + 1>>], f,
                      "fdatasync", SplitStart(fs, i), fs[i].size, <<>>)}
partitioning_op(f, r) ==
    CASE f.op = "pread" -> partitioning_pread(f, r)
      [] f.op = "pwrite" -> partitioning_pwrite(f, r)
      [] f.op = "flush" -> partitioning_flush(f, r)

-----------------------------------------------------------------------------
(* plugins/linuxdisk: l.estimate is what du says, or -1; l.mke2fs whether  *)
(* the program succeeds; l.size and l.add are the size parameter.          *)

linuxdisk_config(l) == l.dir = "once" /\ l.type \in {"ext2", "ext3", "ext4"}
MinimumSize == 2
JournalSize == 3
estimate_size(l) == l.estimate
mke2fs(l) == l.mke2fs
create_filesystem(l) ==
    LET e == estimate_size(l)
        most == LET a == (e * 6) \div 5 IN IF a > MinimumSize THEN a ELSE MinimumSize
        estimate == most + (IF l.type = "ext2" THEN 0 ELSE JournalSize)
        size == IF l.size = 0 THEN estimate
                ELSE IF l.add THEN l.size + estimate ELSE l.size
    IN  [ok |-> mke2fs(l) /\ ((l.size = 0 \/ l.add) => e # -1),
         size |-> ROUND_UP(size, SECTOR_SIZE)]
LinuxPTA == 1               \* 32 sectors of entries
create_regions(size) ==
    LET data(rs, n, k) == append_region_len(rs, n * SECTOR_SIZE, 0, 0, "data",
                                            Table(k, n * SECTOR_SIZE))
        start == data(data(data(<<>>, 1, 1), 1, 2), LinuxPTA, 3)
        part == append_region_len(start, size, MAX_ALIGNMENT, 0, "file", 1)
        second == append_region_len(part, LinuxPTA * SECTOR_SIZE, SECTOR_SIZE,
                                    0, "data", Table(3, LinuxPTA * SECTOR_SIZE))
    IN  data(second, 1, 4)
\* The same GPT, with one entry.
create_partition_table(rs) == create_gpt_layout(rs, LinuxPTA * SECTOR_SIZE)
LinuxdiskOf(ok, rs) == DiskMade(ok, FALSE, rs, create_partition_table(rs), <<0>>)
linuxdisk_get_ready(l) ==
    LinuxdiskOf(create_filesystem(l).ok, create_regions(create_filesystem(l).size))
linuxdisk_pread(f, r) == region_pread(f, r)

-----------------------------------------------------------------------------
(* plugins/iso *)

iso_config(l) == l.dirs > 0
make_iso(l) == l.isoprog
iso_answers(l) ==
    ("get_size" :> l.size) @@ ("block_size" :> <<1, 8, 1024>>)
    @@ ("can_multi_conn" :> 1) @@ ("can_cache" :> EMULATE)
iso_pread(f, r) ==
    io_loop(f, r, FilePart(Reached(f), f.n), OkBuf(ReadSoFar(f, r)))

-----------------------------------------------------------------------------
(* What the table says of each file is where the file is: the partition    *)
(* filter finds partition p at the region of its file.                     *)

PartNumber(table, n, i) ==
    IF table.kind = "mbr" /\ n > 4 /\ i >= 4 THEN i + 1 ELSE i
EntriesAt(rs, lba) == find_region(rs, lba * SECTOR_SIZE)
GptIsSound(h) ==
    LET t == h.table
        last == virtual_size(h.regions) \div SECTOR_SIZE - 1
    IN  /\ t.header.current = 1 /\ t.header.backup = last
        /\ t.second.current = last /\ t.second.backup = 1
        /\ EntriesAt(h.regions, t.second.entries).type = "data"
        /\ t.second.entries * SECTOR_SIZE
             = EntriesAt(h.regions, t.second.entries).start
        /\ \A i \in 1 .. Len(t.entries) : t.entries[i].used =>
              /\ t.header.first_usable <= t.entries[i].first
              /\ t.entries[i].last <= t.header.last_usable
=============================================================================
