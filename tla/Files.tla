------------------------------- MODULE Files --------------------------------
(***************************************************************************)
(* Plugins that serve local files: file, tmpdisk and ondemand one file,    *)
(* split several.  The store below the plugin is the file system: a system *)
(* call is a call of the store, which may fail with any of conf.fails, and *)
(* lseek looks at the disk.  Each file has a place in the store (base) and *)
(* room to grow there.                                                     *)
(***************************************************************************)
EXTENDS Layers

Syscall(self, f, op, off, n, data) ==
    Invoke(self, [f EXCEPT !.op = op, !.off = off, !.n = n, !.flags = {},
                           !.data = data])

\* A loop of pread or pwrite calls: the position reached, and what was read.
Reached(f) == IF f.x = <<>> THEN f.off ELSE f.x[1]
ReadSoFar(f, r) ==
    CASE f.pc = "rest" -> f.x[2] \o r.buf
      [] f.pc = "skipped" -> f.x[2]
      [] OTHER -> <<>>

\* A part of the disk: of a file, or in memory with its data.
FilePart(at, n) == [kind |-> "file", at |-> at, n |-> n]
MemoryPart(data) == [kind |-> "memory", data |-> data, n |-> Len(data)]

\* pread and pwrite may do less than they are asked to.  What is in memory
\* cannot be changed.  The loop is at the part p, and ends with done.
io_loop(f, r, p, done) ==
    LET pos == Reached(f)
        got == ReadSoFar(f, r)
        n == MIN(p.n, f.off + f.n - pos)
        writing == f.op = "pwrite"
        data(k) == IF writing THEN SubSeq(f.data, pos - f.off + 1, pos - f.off + k)
                   ELSE <<>>
        skip(more) == Stay([f EXCEPT !.pc = "skipped",
                                     !.x = <<pos + n, got \o more>>])
    IN  IF f.pc = "rest" /\ r.err # "" THEN {Fail(r.err)}
        ELSE IF pos = f.off + f.n THEN {done}
        ELSE IF p.kind = "file"
        THEN {Syscall([f EXCEPT !.pc = "rest", !.x = <<pos + k, got>>],
                      f, f.op, p.at, k, data(k)) : k \in {1, n}}
        ELSE IF ~writing THEN {skip(SubSeq(p.data, 1, n))}
        ELSE {IF SubSeq(p.data, 1, n) = data(n) THEN skip(<<>>)
              ELSE Fail("EIO")}

-----------------------------------------------------------------------------
(* lseek (SEEK_DATA) and lseek (SEEK_HOLE) in a file of a given size, and  *)
(* do_extents of file and split, which asks for one and the other.         *)

IsHole(i) == conf.sparse /\ disk[i] = 0
ENXIO == -1
SeekData(base, size, off) ==
    LET at == {i \in off .. (size - 1) : ~IsHole(base + i)}
    IN  IF at = {} THEN ENXIO ELSE CHOOSE i \in at : \A k \in at : i <= k
SeekHole(base, size, off) ==
    LET at == {i \in off .. (size - 1) : IsHole(base + i)} \cup {size}
    IN  CHOOSE i \in at : \A k \in at : i <= k

\* One lseek of do_extents for the file part p, at f.x[1] of the disk; the
\* scan of the file ends at f.x[2].  Both are offsets of the disk.
Scan(f, p) ==
    LET from == f.x[1] - p.start
        end == f.x[2] - p.start
        data == SeekData(p.base, p.size, from)
        pos == IF f.pc = "hole" THEN SeekHole(p.base, p.size, from)
               ELSE IF data = ENXIO THEN end ELSE data
        type == IF f.pc = "hole" THEN {} ELSE {"hole", "zero"}
        add == nbdkit_add_extent(f.exts, f.x[1], pos - from, type)
    IN  IF pos = from THEN [ok |-> TRUE, exts |-> f.exts, pos |-> f.x[1],
                            stop |-> FALSE]
        ELSE [ok |-> add.r # -1, exts |-> add.exts, pos |-> p.start + pos,
              stop |-> "REQ_ONE" \in f.flags]
do_extents(f, p, done) ==
    LET s == Scan(f, p)
    IN  IF ~s.ok THEN {Keep(Fail("ERANGE"), [M(f) EXCEPT !.lseek_lock = 0])}
        ELSE {Keep(Fail(e), [M(f) EXCEPT !.lseek_lock = 0]) :
                e \in conf.fails \ NotSupported}
             \cup {IF s.stop \/ s.pos >= f.x[2] THEN done
                   ELSE Stay([f EXCEPT !.exts = s.exts,
                                       !.x = <<s.pos, f.x[2]>>,
                                       !.pc = IF @ = "data" THEN "hole"
                                              ELSE "data"])}
\* Every lseek is under lseek_lock.
StartScan(f, from, to) ==
    IF M(f).lseek_lock # 0 THEN {Wait}
    ELSE {Keep(Stay([f EXCEPT !.pc = "data", !.x = <<from, to>>]),
               [M(f) EXCEPT !.lseek_lock = f.t])}

-----------------------------------------------------------------------------
(* plugins/file *)

\* One of file, dir, fd or dirfd, of the right kind; 0, 1 and 2 are not for
\* the fd.
file_config(l) == l.mode # "twice" /\ (l.mode \in {"fd", "dirfd"} => l.fd > 2)
file_config_complete(l) ==
    CASE l.mode \in {"filename", "fd"} -> l.kind \in {"regular", "block"}
      [] l.mode \in {"directory", "dirfd"} -> l.kind = "directory"
      [] OTHER -> FALSE

\* A file that cannot be opened for writing is opened for reading.
open_file_by_name(l, ro) ==
    [ok |-> l.export # "" /\ l.perms # {}, can_write |-> ~ro /\ "w" \in l.perms]
file_open(l, ro) ==
    LET named == open_file_by_name(l, ro)
        opened == CASE l.mode = "filename" ->
                         open_file_by_name([l EXCEPT !.export = "file"], ro)
                    [] l.mode = "fd" ->
                         [ok |-> TRUE, can_write |-> ~ro /\ "w" \in l.perms]
                    [] OTHER -> [named EXCEPT !.ok = @ /\ l.export # "a/b"]
        block == l.is = "block"
    IN  [ok |-> opened.ok /\ l.is \in {"regular", "block"},
         h |-> [can_write |-> opened.can_write, block |-> block,
                sector_size |-> IF block THEN l.sector ELSE 8,
                can_punch_hole |-> TRUE, can_zero_range |-> TRUE,
                can_fallocate |-> TRUE, can_zeroout |-> block,
                lseek_lock |-> 0, window |-> <<>>]]

\* The kernel's sizes of a block device are used when they make sense; 2
\* units stand for 512 and 8 for 4096.
file_sizes(l) ==
    LET opt == IF l.blkioopt = 0 THEN IF l.blkiomin > 8 THEN l.blkiomin ELSE 8
               ELSE l.blkioopt
    IN  IF /\ l.is = "block" /\ l.blkiomin >= 2 /\ is_power_of_2(l.blkiomin)
           /\ opt >= l.blkiomin /\ is_power_of_2(opt)
        THEN <<l.blkiomin, opt, 1024>> ELSE NoBlockSize
file_has == {"pwrite", "flush", "trim", "zero", "extents", "cache"}
file_answers(l, h) ==
    ("get_size" :> l.size) @@ ("block_size" :> file_sizes(l))
    @@ ("can_write" :> Bit(h.can_write)) @@ ("can_multi_conn" :> 1)
    @@ ("can_trim" :> 1) @@ ("can_fua" :> NATIVE) @@ ("can_cache" :> NATIVE)
    @@ ("can_extents" :> Bit(l.seeks)) @@ ("is_rotational" :> Bit(l.rotational))

file_flush(f) == Syscall([f EXCEPT !.pc = "synced"], f, "flush", 0, 0, <<>>)
FinishWrite(f) == IF "FUA" \in f.flags THEN file_flush(f) ELSE Ok

\* cache=none: the window that leaves the queue is written out and dropped
\* from the page cache; the new one is on its way.
NR_WINDOWS == 2
evict_writes(q, off, n) ==
    LET all == Append(q, [off |-> off, n |-> n])
    IN  IF Len(all) > NR_WINDOWS THEN Tail(all) ELSE all

file_pread(f, r) ==
    io_loop(f, r, FilePart(Reached(f), f.n), OkBuf(ReadSoFar(f, r)))
file_pwrite(f, r) ==
    LET evict(o) == IF L(f).cache_none
                    THEN Keep(o, [M(f) EXCEPT !.window =
                                    evict_writes(@, f.off, f.n)])
                    ELSE o
    IN  IF f.pc = "synced"
        THEN {IF r.err # "" THEN Return(r) ELSE evict(Ok)}
        ELSE io_loop(f, r, FilePart(Reached(f), f.n),
                     IF "FUA" \in f.flags THEN file_flush(f) ELSE evict(Ok))

\* The ways to zero a range, in the order they are tried.  Each is one call,
\* or two: punch a hole, then allocate it again.
Aligned(f, h) ==
    IS_ALIGNED(f.off, h.sector_size) /\ IS_ALIGNED(f.n, h.sector_size)
ZeroWays == <<"punch", "zero_range", "punch2", "zeroout">>
Possible(f, h, way) ==
    CASE way = "punch" -> h.can_punch_hole /\ "MAY_TRIM" \in f.flags
      [] way = "zero_range" -> h.can_zero_range
      [] way = "punch2" -> h.can_punch_hole /\ h.can_fallocate
      [] way = "zeroout" -> h.can_zeroout /\ Aligned(f, h)
TryZero(f, h, after) ==
    LET ways == {i \in (after + 1) .. 4 : Possible(f, h, ZeroWays[i])}
        i == CHOOSE k \in ways : \A m \in ways : k <= m
        op == IF ZeroWays[i] \in {"punch", "punch2"} THEN "trim" ELSE "zero"
    IN  IF ways = {} THEN Fail("EOPNOTSUPP")
        ELSE Syscall([f EXCEPT !.pc = ZeroWays[i]], f, op, f.off, f.n, <<>>)
\* A way that the file system does not have is not tried again; the ioctl
\* says so with ENOTTY.
Missing(way, e) == IF way = "zeroout" THEN e = "ENOTTY" ELSE e \in NotSupported
Disabled(h, way) ==
    CASE way \in {"punch", "punch2"} -> [h EXCEPT !.can_punch_hole = FALSE]
      [] way = "zero_range" -> [h EXCEPT !.can_zero_range = FALSE]
      [] way = "allocate" -> [h EXCEPT !.can_fallocate = FALSE]
      [] way = "zeroout" -> [h EXCEPT !.can_zeroout = FALSE]
RetryZero(f, way) ==
    LET h == Disabled(M(f), way)
        after == IF way = "allocate" THEN 3
                 ELSE CHOOSE i \in 1 .. 4 : ZeroWays[i] = way
    IN  Keep(TryZero(f, h, after), h)
file_zero(f, r) ==
    CASE f.pc \in {"in", "go"} -> {TryZero(f, M(f), 0)}
      [] f.pc = "synced" -> {Return(r)}
      [] r.err = "" /\ f.pc = "punch2" ->
           {Syscall([f EXCEPT !.pc = "allocate"], f, "cache", f.off, f.n, <<>>)}
      [] r.err = "" -> {FinishWrite(f)}
      [] Missing(f.pc, r.err) -> {RetryZero(f, f.pc)}
      [] OTHER -> {Return(r)}

\* Trim is advisory: only EIO and EPERM are reported; any other error ends
\* the punching of holes.
file_trim(f, r) ==
    CASE f.pc \in {"in", "go"} ->
           {IF M(f).can_punch_hole
            THEN Syscall([f EXCEPT !.pc = "punch"], f, "trim", f.off, f.n, <<>>)
            ELSE FinishWrite(f)}
      [] f.pc = "synced" \/ r.err \in {"EPERM", "EIO"} -> {Return(r)}
      [] r.err = "" -> {FinishWrite(f)}
      [] OTHER -> {Keep(FinishWrite(f), Disabled(M(f), "punch"))}

file_extents(f) ==
    LET p == [start |-> 0, base |-> 0, size |-> L(f).size]
    IN  IF f.pc \in {"in", "go"} THEN StartScan(f, f.off, f.off + f.n)
        ELSE do_extents(f, p, Keep(OkExts(Scan(f, p).exts),
                                   [M(f) EXCEPT !.lseek_lock = 0]))

\* posix_fadvise; its failure is one of the request.
file_cache(f) == {Pass(f)}

file_op(f, r) ==
    CASE f.op = "pread" -> file_pread(f, r)
      [] f.op = "pwrite" -> file_pwrite(f, r)
      [] f.op = "zero" -> file_zero(f, r)
      [] f.op = "trim" -> file_trim(f, r)
      [] f.op = "extents" -> file_extents(f)
      [] f.op = "cache" -> file_cache(f)
      [] f.pc = "synced" -> {Return(r)}
      [] OTHER -> {file_flush(f)}

-----------------------------------------------------------------------------
(* plugins/tmpdisk and plugins/ondemand: a file that a command creates.    *)

\* Any other key becomes a variable of the shell.
is_shell_variable(key) == key # "no variable"
tmpdisk_config(keys) == \A k \in keys : k # "disk" /\ is_shell_variable(k)
tmpdisk_config_complete(keys) == "size" \in keys
ondemand_config(keys) == tmpdisk_config(keys)
ondemand_config_complete(keys) == {"dir", "size"} \subseteq keys
run_command(l) == l.command = "exit 0"
tmpdisk_open(l, ro) ==
    [ok |-> run_command(l) /\ l.made,
     h |-> [can_punch_hole |-> TRUE, lseek_lock |-> 0]]

is_valid_exportname(name) == name \notin {"", ".hidden", "a/b"}
ondemand_default_export(name) == IF name = "" THEN "default" ELSE name
\* With the wait parameter open waits for the lock of another client.
lock_export(l) == l.locked => l.waitlock
ondemand_open(l, ro) ==
    [ok |-> /\ is_valid_exportname(ondemand_default_export(l.export))
            /\ l.exists \/ (run_command(l) /\ l.made)
            /\ l.share \/ lock_export(l),
     h |-> [can_punch_hole |-> TRUE, lseek_lock |-> 0]]
ondemand_has == {"pwrite", "flush", "trim"}
ondemand_answers(l) ==
    ("get_size" :> l.size) @@ ("can_multi_conn" :> 0) @@ ("can_trim" :> 1)
    @@ ("can_fua" :> NATIVE)
ondemand_pread(f, r) ==
    io_loop(f, r, FilePart(Reached(f), f.n), OkBuf(ReadSoFar(f, r)))
ondemand_pwrite(f, r) ==
    IF f.pc = "synced" THEN {Return(r)}
    ELSE io_loop(f, r, FilePart(Reached(f), f.n), FinishWrite(f))
ondemand_flush(f, r) == {IF f.pc = "synced" THEN Return(r) ELSE file_flush(f)}
ondemand_trim(f, r) == file_trim(f, r)
ondemand_op(f, r) ==
    CASE f.op = "pread" -> ondemand_pread(f, r)
      [] f.op = "pwrite" -> ondemand_pwrite(f, r)
      [] f.op = "trim" -> ondemand_trim(f, r)
      [] OTHER -> ondemand_flush(f, r)

\* All disks are temporary: flush and FUA do nothing.
tmpdisk_pread(f, r) == ondemand_pread(f, r)
tmpdisk_pwrite(f, r) == ondemand_pwrite([f EXCEPT !.flags = {}], r)
tmpdisk_trim(f, r) == file_trim([f EXCEPT !.flags = {}], r)
tmpdisk_op(f, r) ==
    CASE f.op = "pread" -> tmpdisk_pread(f, r)
      [] f.op = "pwrite" -> tmpdisk_pwrite(f, r)
      [] f.op = "trim" -> tmpdisk_trim(f, r)
      [] OTHER -> {Ok}

-----------------------------------------------------------------------------
(* plugins/split: files one after the other.                               *)

SplitStart(fs, i) == FoldLeft(LAMBDA a, g : a + g.size, 0, SubSeq(fs, 1, i - 1))
SplitSize(fs) == SplitStart(fs, Len(fs) + 1)
\* The files are apart in the store, so that each can grow.
split_open(l) ==
    [ok |-> \A i \in 1 .. Len(l.files) : l.files[i].opens,
     h |-> [lseek_lock |-> 0,
            files |-> [i \in 1 .. Len(l.files) |->
                         [start |-> SplitStart(l.files, i),
                          size |-> l.files[i].size,
                          base |-> (i - 1) * SplitSize(l.files),
                          can_extents |-> l.files[i].seeks]]]]
split_has == {"pwrite", "extents", "cache"}
split_answers(l) ==
    ("get_size" :> SplitSize(l.files)) @@ ("can_cache" :> NATIVE)

\* bsearch finds no file past the end of the last.
NoFile == [start |-> -1]
get_file(h, offset) ==
    LET found == {i \in 1 .. Len(h.files) :
                    /\ h.files[i].start <= offset
                    /\ offset < h.files[i].start + h.files[i].size}
    IN  IF found = {} THEN NoFile ELSE h.files[CHOOSE i \in found : TRUE]
FileLeft(g, offset) == g.size - (offset - g.start)
split_pread(f, r) ==
    LET pos == Reached(f)
        g == get_file(M(f), pos)
    IN  io_loop(f, r, FilePart(g.base + pos - g.start, FileLeft(g, pos)),
                OkBuf(ReadSoFar(f, r)))
\* The call is given the offset in the disk, not the one in the file.
split_pwrite(f, r) ==
    LET pos == Reached(f)
        g == get_file(M(f), pos)
    IN  io_loop(f, r, FilePart(g.base + pos, FileLeft(g, pos)), Ok)
\* The loop goes on by the result of posix_fadvise, which is 0.
split_cache(f, r) ==
    LET g == get_file(M(f), f.off)
    IN  IF f.pc = "again" /\ r.err # "" THEN {Return(r)}
        ELSE {Syscall([f EXCEPT !.pc = "again"], f, "cache", g.base + f.off,
                      MIN(FileLeft(g, f.off), f.n), <<>>)}
\* A scan may go past the end of the request: the count that is left then
\* wraps around, and the loop goes on to the end of the last file.
split_extents(f) ==
    LET at == Reached(f)
        last == f.off + f.n
        g == get_file(M(f), at)
        left == IF at < last THEN MIN(FileLeft(g, at), last - at)
                ELSE FileLeft(g, at)
        over == f.pc = "next" /\ ("REQ_ONE" \in f.flags \/ at = last)
        add == nbdkit_add_extent(f.exts, at, left, {})
    IN  CASE f.pc \in {"data", "hole"} ->
               LET s == Scan(f, g)
               IN  do_extents(f, g, Keep(Stay([f EXCEPT !.pc = "next",
                                            !.exts = s.exts, !.x = <<s.pos>>]),
                                         [M(f) EXCEPT !.lseek_lock = 0]))
          [] over -> {OkExts(f.exts)}
          [] g = NoFile -> {Abort("get_file")}
          [] g.can_extents -> StartScan(f, at, at + left)
          [] add.r = -1 -> {Fail("ERANGE")}
          [] OTHER -> {Stay([f EXCEPT !.pc = "next", !.exts = add.exts,
                                      !.x = <<at + left>>])}
split_op(f, r) ==
    CASE f.op = "pread" -> split_pread(f, r)
      [] f.op = "pwrite" -> split_pwrite(f, r)
      [] f.op = "cache" -> split_cache(f, r)
      [] f.op = "extents" -> split_extents(f)

-----------------------------------------------------------------------------
(* By name. *)

FilePlugins == {"file", "tmpdisk", "ondemand", "split"}
FileAccepted(l) ==
    CASE l.filter = "file" -> file_config(l) /\ file_config_complete(l)
      [] l.filter = "tmpdisk" ->
           tmpdisk_config(l.params) /\ tmpdisk_config_complete(l.params)
      [] l.filter = "ondemand" ->
           ondemand_config(l.params) /\ ondemand_config_complete(l.params)
      [] OTHER -> TRUE
FileOpen(l, ro) ==
    CASE l.filter = "file" -> file_open(l, ro)
      [] l.filter = "tmpdisk" -> tmpdisk_open(l, ro)
      [] l.filter = "ondemand" -> ondemand_open(l, ro)
      [] l.filter = "split" -> split_open(l)
FileAnswers(l, h) ==
    CASE l.filter = "file" -> plugin_answers(file_has, file_answers(l, h))
      [] l.filter = "tmpdisk" -> plugin_answers(ondemand_has, ondemand_answers(l))
      [] l.filter = "ondemand" -> plugin_answers(ondemand_has, ondemand_answers(l))
      [] l.filter = "split" -> plugin_answers(split_has, split_answers(l))
FileOp(f, r) ==
    CASE L(f).filter = "file" -> file_op(f, r)
      [] L(f).filter = "tmpdisk" -> tmpdisk_op(f, r)
      [] L(f).filter = "ondemand" -> ondemand_op(f, r)
      [] L(f).filter = "split" -> split_op(f, r)
=============================================================================
