------------------------------- MODULE Floppy -------------------------------
(***************************************************************************)
(* plugins/floppy: a FAT filesystem around the files of a directory.  The  *)
(* host's directory is l.tree, a list in the order of readdir.  An entry   *)
(* has a kind and a name: what the short name would be, and the characters *)
(* of the long one.  A directory entry and a FAT entry take one unit; what *)
(* they and the boot sectors hold is written on the disk as numbers.       *)
(***************************************************************************)
EXTENDS Disks

CLUSTER_SIZE == 8
SECTORS_PER_CLUSTER == CLUSTER_SIZE \div SECTOR_SIZE
PartStart == 4              \* sector 2048
ReservedSectors == 8        \* 32: boot, info, 1 free, backup, 4 free
DataAfter == PartStart + ReservedSectors
LfnChars == 2               \* 13 characters in one entry
MaxLfn == 6                 \* 819
MaxClusters == 40           \* 28 bits
MaxFileSize == 30           \* UINT32_MAX
EOC == 99                   \* end of a chain of clusters
Media == 98

-----------------------------------------------------------------------------
(* visit: the lists of directories and files. *)

NewDir == [name |-> [short |-> "", long |-> <<>>], pdi |-> 0, subdirs |-> <<>>, fileidxs |-> <<>>,
           table |-> <<>>, first_cluster |-> 0, nr_clusters |-> 0]
visit_file(e, di, fl) ==
    IF e.size >= MaxFileSize THEN [fl EXCEPT !.ok = FALSE]
    ELSE [fl EXCEPT
            !.files = Append(@, [name |-> e.name, size |-> e.size,
                                 base |-> e.base, first_cluster |-> 0,
                                 nr_clusters |-> 0]),
            !.dirs[di].fileidxs = Append(@, Len(fl.files) + 1)]

RECURSIVE visit(_, _)
\* The name and the parent are known only after the visit.
visit_subdirectory(e, di, fl) ==
    LET sdi == Len(fl.dirs) + 1
        v == visit(e.entries, fl)
    IN  IF ~v.ok THEN v
        ELSE [v EXCEPT !.dirs = [k \in 1 .. Len(@) |->
                IF k = sdi THEN [@[k] EXCEPT !.name = e.name, !.pdi = di]
                ELSE IF k = di
                THEN [@[k] EXCEPT !.subdirs = Append(@, sdi)]
                ELSE @[k]]]
visit(tree, fl) ==
    LET di == Len(fl.dirs) + 1
        one(a, e) ==
          CASE ~a.ok -> a
            [] e.kind = "unreadable" -> [a EXCEPT !.ok = FALSE]
            [] e.kind = "dir" -> visit_subdirectory(e, di, a)
            [] e.kind = "file" -> visit_file(e, di, a)
            [] OTHER -> a
    IN  FoldLeft(one, [fl EXCEPT !.dirs = Append(@, NewDir)], tree)

-----------------------------------------------------------------------------
(* directory-lfn.c: the table of one directory. *)

Label == [kind |-> "label"]
Dot(k) == [kind |-> k, dir |-> TRUE, cluster |-> 0]

\* A duplicate gets its place in the directory as a suffix.
convert_long_file_names(names) ==
    [i \in 1 .. Len(names) |->
       [lfn |-> names[i].long,
        short |-> <<names[i].short,
                    IF \E j \in 1 .. (i - 1) : names[j].short = names[i].short
                    THEN i - 1 ELSE 0>>]]
lfn_checksum(short) == short

\* Long name entries come before the short one, the last part first.
LfnEntry(n, seq, last) ==
    LET from == (seq - 1) * LfnChars
        s == [j \in 1 .. LfnChars |-> IF from + j <= Len(n.lfn)
                                      THEN n.lfn[from + j] ELSE 0]
    IN  [kind |-> "lfn", seq |-> seq, last |-> last, s |-> s,
         checksum |-> lfn_checksum(n.short)]
add_directory_entry(n, dir, size) ==
    LET k == 1 + (Len(n.lfn) \div LfnChars)
    IN  [i \in 1 .. k |-> LfnEntry(n, k - i + 1, i = 1)]
        \o <<[kind |-> "short", short |-> n.short, dir |-> dir, size |-> size,
              cluster |-> 0]>>
create_directory(fl, di) ==
    LET d == fl.dirs[di]
        nr_subdirs == Len(d.subdirs)
        names == [i \in 1 .. nr_subdirs |-> fl.dirs[d.subdirs[i]].name]
                 \o [i \in 1 .. Len(d.fileidxs) |-> fl.files[d.fileidxs[i]].name]
        lfns == convert_long_file_names(names)
        entry(i) == IF i <= nr_subdirs
                    THEN add_directory_entry(lfns[i], TRUE, 0)
                    ELSE add_directory_entry(lfns[i], FALSE,
                           fl.files[d.fileidxs[i - nr_subdirs]].size)
    IN  (IF di = 1 THEN <<Label>> ELSE <<Dot("."), Dot("..")>>)
        \o FlattenSeq([i \in 1 .. Len(names) |-> entry(i)])
LongNames(fl) ==
    /\ \A i \in 1 .. Len(fl.dirs) : Len(fl.dirs[i].name.long) <= MaxLfn
    /\ \A i \in 1 .. Len(fl.files) : Len(fl.files[i].name.long) <= MaxLfn

\* The clusters were not known when the table was made; the entries are in
\* the order of the subdirectories, then the files.
update_directory_first_cluster(fl, di) ==
    LET d == fl.dirs[di]
        nth(j) == Cardinality({k \in 1 .. j : d.table[k].kind = "short"})
        first(i) == IF i <= Len(d.subdirs) THEN fl.dirs[d.subdirs[i]].first_cluster
                    ELSE fl.files[d.fileidxs[i - Len(d.subdirs)]].first_cluster
    IN  [j \in 1 .. Len(d.table) |->
           LET e == d.table[j]
           IN  CASE e.kind = "short" -> [e EXCEPT !.cluster = first(nth(j))]
                 [] e.kind = "." -> [e EXCEPT !.cluster = d.first_cluster]
                 [] e.kind = ".." ->
                      [e EXCEPT !.cluster = fl.dirs[d.pdi].first_cluster]
                 [] OTHER -> e]

-----------------------------------------------------------------------------
(* virtual-floppy.c: where everything is. *)

Clusters(bytes) == DIV_ROUND_UP(bytes, CLUSTER_SIZE)
\* Directories from cluster 2 on, then the files.
assign_clusters(fl) ==
    LET sizes == [i \in 1 .. Len(fl.dirs) |-> Len(fl.dirs[i].table)]
                 \o [i \in 1 .. Len(fl.files) |-> fl.files[i].size]
        first(k) == FoldLeft(LAMBDA a, n : a + Clusters(n), 2,
                             SubSeq(sizes, 1, k - 1))
        at(x, k) == [x EXCEPT !.first_cluster = first(k),
                              !.nr_clusters = Clusters(sizes[k])]
    IN  [fl EXCEPT !.dirs = [i \in 1 .. Len(@) |-> at(@[i], i)],
                   !.files = [i \in 1 .. Len(@) |-> at(@[i], Len(fl.dirs) + i)],
                   !.used = first(Len(sizes) + 1) - 2]

\* With a size parameter the FATs are sized from what is left after the
\* reserved sectors, and come off it.
FloppySize(l, fl) ==
    LET all == l.size - DataAfter * SECTOR_SIZE
    IN  IF l.size = 0 THEN fl.used * CLUSTER_SIZE
        ELSE all - 2 * Clusters((all \div CLUSTER_SIZE) + 2) * CLUSTER_SIZE
create_mbr(fl) ==
    [start |-> PartStart,
     n |-> fl.data_start + fl.data_clusters * SECTORS_PER_CLUSTER - PartStart]
create_partition_boot_sector(fl) ==
    [reserved |-> ReservedSectors, nr_fats |-> 2, root |-> 2, fsinfo |-> 1, backup |-> 3,
     nr_sectors |-> fl.data_start + fl.data_clusters * SECTORS_PER_CLUSTER - PartStart,
     sectors_per_fat |-> fl.fat_clusters * SECTORS_PER_CLUSTER]
create_fsinfo(fl) ==
    [free |-> fl.data_clusters - fl.used, last_free |-> 2 + fl.used]

write_fat_file(x, c) == IF c = x.first_cluster + x.nr_clusters - 1 THEN EOC ELSE c + 1
\* fat[1] is entry 0.
create_fat(fl) ==
    LET all == fl.dirs \o fl.files
        owner(c) == {i \in 1 .. Len(all) : all[i].first_cluster <= c
                        /\ c < all[i].first_cluster + all[i].nr_clusters}
    IN  [k \in 1 .. (fl.data_clusters + 2) |->
           CASE k = 1 -> Media
             [] k = 2 -> EOC
             [] owner(k - 1) = {} -> 0
             [] OTHER -> write_fat_file(all[CHOOSE i \in owner(k - 1) : TRUE],
                                        k - 1)]

\* The table of directory di on the disk: a number for each entry.
EntryCode(di, j) == 1000 * di + j
\* The sectors before the FATs: how many, with which padding, of which type.
ReservedRegions ==
    <<[n |-> 1, pad |-> PartStart * SECTOR_SIZE, type |-> "data", k |-> 1],
      [n |-> 1, pad |-> 0, type |-> "data", k |-> 2],
      [n |-> 1, pad |-> 0, type |-> "data", k |-> 3],
      [n |-> 1, pad |-> 0, type |-> "zero", k |-> 0],
      [n |-> 1, pad |-> 0, type |-> "data", k |-> 2],
      [n |-> 4, pad |-> 0, type |-> "zero", k |-> 0]>>
append_reserved ==
    FoldLeft(LAMBDA rs, s :
               append_region_len(rs, s.n * SECTOR_SIZE, 0, s.pad, s.type,
                                 Table(s.k, s.n * SECTOR_SIZE)),
             <<>>, ReservedRegions)
\* Each FAT has to be where the boot sector says.
append_fat(rs, fl, end) ==
    LET after == append_region_len(rs, Len(fl.fat), 0, CLUSTER_SIZE, "data", fl.fat)
    IN  IF virtual_size(after) # end * SECTOR_SIZE THEN Broken ELSE after
append_dirs(rs, fl) ==
    FoldLeft(LAMBDA a, di :
               append_region_len(a, Len(fl.dirs[di].table), 0, CLUSTER_SIZE,
                 "data", [j \in 1 .. Len(fl.dirs[di].table) |-> EntryCode(di, j)]),
             rs, [di \in 1 .. Len(fl.dirs) |-> di])
append_files(rs, fl) ==
    FoldLeft(LAMBDA a, i :
               IF fl.files[i].size = 0 THEN a
               ELSE append_region_len(a, fl.files[i].size, 0, CLUSTER_SIZE,
                                      "file", i),
             rs, [i \in 1 .. Len(fl.files) |-> i])
append_free(rs, free) ==
    IF free = 0 THEN rs ELSE append_region_len(rs, free, 0, CLUSTER_SIZE, "zero", 0)
FloppyRegions(fl) ==
    append_free(append_files(append_dirs(
      append_fat(append_fat(append_reserved, fl, fl.fat2_start), fl, fl.data_start),
      fl), fl), (fl.data_clusters - fl.used) * CLUSTER_SIZE)

NoFloppy == [ok |-> TRUE, dirs |-> <<>>, files |-> <<>>, fat |-> <<>>, used |-> 0,
             data_clusters |-> 0, fat_clusters |-> 0, fat2_start |-> 0,
             data_start |-> 0]
\* The steps of create_virtual_floppy, each from what the last one made.
create_directories(fl) ==
    [fl EXCEPT !.dirs = [i \in 1 .. Len(@) |->
       [@[i] EXCEPT !.table = create_directory(fl, i)]]]
place_fats(fl, clusters) ==
    LET fat_clusters == Clusters(clusters + 2)
        fat2 == DataAfter + fat_clusters * SECTORS_PER_CLUSTER
    IN  [fl EXCEPT !.data_clusters = clusters, !.fat_clusters = fat_clusters,
                   !.fat2_start = fat2,
                   !.data_start = fat2 + fat_clusters * SECTORS_PER_CLUSTER]
link_clusters(fl) ==
    [fl EXCEPT !.dirs = [i \in 1 .. Len(@) |->
                  [@[i] EXCEPT !.table = update_directory_first_cluster(fl, i)]],
               !.fat = create_fat(fl)]
Fits(l, fl) ==
    /\ l.size > 0 => fl.used * CLUSTER_SIZE <= FloppySize(l, fl)
    /\ fl.data_clusters < MaxClusters
FloppyOf(l, fl, rs) ==
    IF ~fl.ok \/ ~LongNames(fl) \/ ~Fits(l, fl)
    THEN [ok |-> FALSE, aborts |-> FALSE, h |-> <<>>]
    ELSE [ok |-> TRUE,
          aborts |-> IsBroken(rs) \/ (l.size > 0 /\ virtual_size(rs) # l.size),
          h |-> [regions |-> rs, floppy |-> fl, mbr |-> create_mbr(fl),
                 bootsect |-> create_partition_boot_sector(fl),
                 fsinfo |-> create_fsinfo(fl),
                 bases |-> [i \in 1 .. Len(fl.files) |-> fl.files[i].base]]]
FloppyAt(l, fl) == FloppyOf(l, fl, FloppyRegions(fl))
FloppyPlaced(l, fl) ==
    FloppyAt(l, link_clusters(place_fats(fl, FloppySize(l, fl) \div CLUSTER_SIZE)))
create_virtual_floppy(l) ==
    FloppyPlaced(l, assign_clusters(create_directories(visit(l.tree, NoFloppy))))

floppy_config(l) == l.dir = "once"
floppy_get_ready(l) == create_virtual_floppy(l)
floppy_answers(h) == DiskAnswers(h) @@ ("block_size" :> <<1, SECTOR_SIZE, 1024>>)
\* Each read opens the file of the host again.
floppy_pread(f, r) == region_pread(f, r)

-----------------------------------------------------------------------------
(* By name. *)

DiskPlugins == {"partitioning", "linuxdisk", "iso", "floppy"}
DiskAccepted(l) ==
    CASE l.filter = "partitioning" ->
           partitioning_config(l) /\ partitioning_config_complete(l)
      [] l.filter = "linuxdisk" -> linuxdisk_config(l)
      [] l.filter = "iso" -> iso_config(l)
      [] l.filter = "floppy" -> floppy_config(l)
DiskReady(l) ==
    CASE l.filter = "partitioning" -> partitioning_get_ready(l)
      [] l.filter = "linuxdisk" -> linuxdisk_get_ready(l)
      [] l.filter = "iso" -> [ok |-> make_iso(l), aborts |-> FALSE, h |-> <<>>]
      [] l.filter = "floppy" -> floppy_get_ready(l)
DiskGiven(l, h) ==
    CASE l.filter = "iso" -> plugin_answers({}, iso_answers(l))
      [] l.filter = "floppy" -> plugin_answers({}, floppy_answers(h))
      [] l.filter = "partitioning" -> plugin_answers(partitioning_has, DiskAnswers(h))
      [] OTHER -> plugin_answers({}, DiskAnswers(h))
DiskOp(f, r) ==
    CASE L(f).filter = "partitioning" -> partitioning_op(f, r)
      [] L(f).filter = "linuxdisk" -> linuxdisk_pread(f, r)
      [] L(f).filter = "iso" -> iso_pread(f, r)
      [] L(f).filter = "floppy" -> floppy_pread(f, r)

-----------------------------------------------------------------------------
(* What a reader of the filesystem finds, from the disk alone.             *)

DiskAt(h, o) ==
    LET r == find_region(h.regions, o)
    IN  CASE r.type = "zero" -> 0
          [] r.type = "data" -> r.u[o - r.start + 1]
          [] r.type = "file" -> disk[h.bases[r.u] + o - r.start]
FatStart(h) == (h.mbr.start + h.bootsect.reserved) * SECTOR_SIZE
FatAt(h, copy, c) ==
    DiskAt(h, FatStart(h) + copy * h.bootsect.sectors_per_fat * SECTOR_SIZE + c)
ClusterAt(h, c) ==
    FatStart(h) + h.bootsect.nr_fats * h.bootsect.sectors_per_fat * SECTOR_SIZE
    + (c - 2) * CLUSTER_SIZE
\* A cycle of the FAT shows as a chain of too many clusters.
Contents(h, first) ==
    LET read[k \in 0 .. MaxClusters, c \in 0 .. EOC] ==
          IF c \in {0, EOC} \/ k = 0 THEN <<>>
          ELSE [i \in 1 .. CLUSTER_SIZE |-> DiskAt(h, ClusterAt(h, c) + i - 1)]
               \o read[k - 1, FatAt(h, 0, c)]
    IN  read[MaxClusters, first]

\* The entries of a directory end at the first zero.  A long name counts if
\* its parts are complete and belong to the short name after them.
Entries(h, first) ==
    LET units == Contents(h, first)
        end == CHOOSE k \in 0 .. Len(units) :
                 /\ k = Len(units) \/ units[k + 1] = 0
                 /\ \A i \in 1 .. k : units[i] # 0
    IN  [k \in 1 .. end |-> h.floppy.dirs[units[k] \div 1000].table[units[k] % 1000]]
LongName(es, j) ==
    LET parts == CHOOSE m \in 0 .. (j - 1) :
                   /\ \A i \in 1 .. m : es[j - i].kind = "lfn"
                   /\ m + 1 < j => es[j - m - 1].kind # "lfn"
        sound == \A m \in 1 .. parts : /\ es[j - m].seq = m
                                       /\ es[j - m].checksum = es[j].short
                                       /\ es[j - m].last = (m = parts)
        chars == FlattenSeq([m \in 1 .. parts |-> es[j - m].s])
    IN  IF sound THEN SelectSeq(chars, LAMBDA c : c # 0) ELSE <<-1>>

RECURSIVE TreeOf(_, _, _, _)
FloppyTree(h, first, parent) == TreeOf(h, first, parent, Entries(h, first))
TreeOf(h, first, parent, es) ==
    LET shorts == {j \in 1 .. Len(es) : es[j].kind = "short"}
        dots == {es[j].cluster : j \in {k \in 1 .. Len(es) : es[k].kind = ".."}}
    IN  [unique |-> \A i, j \in shorts : es[i].short = es[j].short => i = j,
         parent |-> dots \subseteq {parent},
         entries |-> {[name |-> LongName(es, j),
                       kind |-> IF es[j].dir THEN "dir" ELSE "file",
                       data |-> IF es[j].dir THEN <<>>
                                ELSE SubSeq(IF es[j].size = 0 THEN <<>>
                                            ELSE Contents(h, es[j].cluster),
                                            1, es[j].size),
                       sub |-> IF es[j].dir
                               THEN FloppyTree(h, es[j].cluster, first) ELSE <<>>] :
                      j \in shorts}]
RECURSIVE HostTree(_)
HostTree(tree) ==
    [unique |-> TRUE, parent |-> TRUE,
     entries |-> {[name |-> e.name.long, kind |-> e.kind,
                   data |-> IF e.kind = "dir" THEN <<>>
                            ELSE [k \in 1 .. e.size |-> disk[e.base + k - 1]],
                   sub |-> IF e.kind = "dir" THEN HostTree(e.entries) ELSE <<>>] :
                  e \in {x \in ToSet(tree) : x.kind \in {"dir", "file"}}}]
FloppyIsSound(l, h) ==
    /\ FloppyTree(h, h.bootsect.root, 0) = HostTree(l.tree)
    /\ \A c \in 0 .. (h.floppy.data_clusters + 1) : FatAt(h, 0, c) = FatAt(h, 1, c)
    /\ h.fsinfo.free = Cardinality({c \in 2 .. (h.floppy.data_clusters + 1) :
                                      FatAt(h, 0, c) = 0})
    /\ (h.mbr.start + h.mbr.n) * SECTOR_SIZE = virtual_size(h.regions)
    /\ h.bootsect.nr_sectors = h.mbr.n
    /\ \A s \in {0, h.bootsect.backup} :
          DiskAt(h, (h.mbr.start + s) * SECTOR_SIZE) = 102
    /\ DiskAt(h, (h.mbr.start + h.bootsect.fsinfo) * SECTOR_SIZE) = 103
=============================================================================
