----------------------------- MODULE LayerStack -----------------------------
(***************************************************************************)
(* Chains of filters at work: the configuration is accepted or refused,    *)
(* the connection is negotiated from the plugin up, and requests go down   *)
(* the chain and come back.  Each layer of conf.layers is a record with    *)
(* the name of the filter and its parameters.  A configuration also states *)
(* what the client should find: conf.view, its disk at the start, and      *)
(* conf.window, the units of the plugin that may ever change.              *)
(***************************************************************************)
EXTENDS Views, Checks, Formats, Stores, Floppy

\* <filter>_config and <filter>_config_complete of a layer.
Accepted(l) ==
    CASE l.filter = "offset" -> offset_config(l)
      [] l.filter = "partition" -> partition_config(l)
      [] l.filter = "truncate" -> truncate_config(l)
      [] l.filter = "swab" -> swab_config(l)
      [] l.filter = "nozero" -> nozero_config(l)
      [] l.filter = "nocache" -> nocache_config(l)
      [] l.filter = "fua" -> fua_config(l)
      [] l.filter = "policy" -> policy_config_complete(l)
      [] l.filter = "protect" -> protect_config(l)
      [] l.filter = "ddrescue" -> parse_mapfile(l)
      [] l.filter = "error" -> error_config(l)
      [] l.filter = "evil" -> evil_config(l)
      [] l.filter = "extentlist" -> extentlist_ok(l)
      [] l.filter \in ImageFilters -> ImageAccepted(l)
      [] l.filter \in StorePlugins -> StoreAccepted(l)
      [] l.filter \in FilePlugins -> FileAccepted(l)
      [] l.filter \in DiskPlugins -> DiskAccepted(l)
      [] OTHER -> TRUE

\* <filter>_open and <filter>_prepare: whether the connection goes on, and
\* the handle.
Prepared(ok) == [ok |-> ok, h |-> <<>>]
Prepare(l, nx, ro) ==
    CASE l.filter = "partition" -> partition_prepare(l, nx.get_size)
      [] l.filter = "truncate" -> truncate_prepare(l, nx.get_size)
      [] l.filter = "nozero" ->
           Prepared(ro \/ nozero_prepare(l, nx))
      [] l.filter = "fua" -> Prepared(ro \/ fua_prepare(l, nx))
      [] l.filter = "policy" ->
           [ok |-> TRUE, h |-> [bs |-> nx.block_size, gone |-> FALSE]]
      [] l.filter = "protect" ->
           [ok |-> TRUE, h |-> [regions |-> protect_config_complete(l)]]
      [] l.filter = "extentlist" ->
           [ok |-> TRUE, h |-> [list |-> parse_extentlist(l)]]
      [] l.filter = "cacheextents" -> [ok |-> TRUE, h |-> NoCache]
      [] l.filter = "log" ->
           [ok |-> log_prepare(nx), h |-> [id |-> 0, open |-> {}]]
      [] l.filter = "stats" -> [ok |-> TRUE, h |-> NoStats]
      [] l.filter = "spinning" ->
           [ok |-> TRUE, h |-> spinning_prepare(l, nx.get_size)]
      [] l.filter \in ImageFilters -> ImagePrepare(l, nx.get_size)
      [] l.filter \in StorePlugins -> StoreReady(l)
      [] l.filter \in FilePlugins -> FileOpen(l, ro)
      [] l.filter \in DiskPlugins -> DiskReady(l)
      [] OTHER -> Prepared(TRUE)

\* What a filter answers to its caller, given the answers of the next layer.
Answers(l, nx, h) ==
    CASE l.filter = "offset" ->
           [nx EXCEPT !.get_size = offset_get_size(l, @)]
      [] l.filter = "partition" ->
           [nx EXCEPT !.get_size = partition_get_size(h)]
      [] l.filter = "truncate" ->
           [nx EXCEPT !.get_size = truncate_get_size(h), !.can_extents = 1,
                      !.can_fast_zero = 1]
      [] l.filter = "swab" -> [nx EXCEPT !.get_size = swab_get_size(l, @)]
      [] l.filter = "nozero" ->
           [nx EXCEPT !.can_zero = nozero_can_zero(l, nx),
                      !.can_fast_zero = nozero_can_fast_zero(l, nx)]
      [] l.filter = "nocache" -> [nx EXCEPT !.can_cache = nocache_can_cache(l)]
      [] l.filter = "noextents" ->
           [nx EXCEPT !.can_extents = noextents_can_extents]
      [] l.filter = "rotational" ->
           [nx EXCEPT !.is_rotational = rotational_is_rotational(l)]
      [] l.filter = "readonly" ->
           [nx EXCEPT !.can_write = readonly_can_write(l, nx)]
      [] l.filter = "fua" ->
           [nx EXCEPT !.can_flush = fua_can_flush(l, nx),
                      !.can_fua = fua_can_fua(l, nx)]
      [] l.filter = "policy" ->
           [nx EXCEPT !.block_size = policy_block_size(l, @)]
      [] l.filter = "checkwrite" -> checkwrite_answers(nx)
      [] l.filter = "ddrescue" -> ddrescue_answers(nx)
      [] l.filter = "extentlist" -> [nx EXCEPT !.can_extents = 1]
      [] l.filter = "delay" ->
           [nx EXCEPT !.can_fast_zero = delay_can_fast_zero(l, nx)]
      [] l.filter = "spinning" -> [nx EXCEPT !.is_rotational = 1, !.can_multi_conn = 0]
      [] l.filter = "tls-fallback" -> tls_fallback_answers(l, nx)
      [] l.filter \in ImageFilters -> ImageAnswers(l, nx, h)
      [] l.filter \in StorePlugins -> StoreAnswers(l, h)
      [] l.filter \in FilePlugins -> FileAnswers(l, h)
      [] l.filter \in DiskPlugins -> DiskGiven(l, h)
      [] OTHER -> nx

\* The questions a filter answers without asking the next layer ...
Silent(l) ==
    CASE l.filter = "partition" -> {"get_size"}
      [] l.filter = "nozero" ->
           (IF l.zeromode \in {"none", "emulate"} THEN {"can_zero"} ELSE {})
           \cup (IF NeedsZero(l) /\ l.fastzeromode = "default" THEN {}
                 ELSE {"can_fast_zero"})
      [] l.filter = "nocache" -> {"can_cache"}
      [] l.filter = "noextents" -> {"can_extents"}
      [] l.filter = "rotational" -> {"is_rotational"}
      [] l.filter = "readonly" -> IF l.file THEN {} ELSE {"can_write"}
      [] l.filter = "fua" ->
           (IF l.fuamode \in {"force", "discard"} THEN {"can_flush"} ELSE {})
           \cup (IF l.fuamode = "pass" THEN {} ELSE {"can_fua"})
      [] l.filter = "checkwrite" ->
           {"can_write", "can_flush", "can_fua", "can_trim", "can_zero",
            "can_fast_zero", "can_multi_conn"}
      [] l.filter = "ddrescue" -> {"can_write", "can_cache"}
      [] l.filter = "extentlist" -> {"can_extents"}
      [] l.filter = "delay" ->
           IF l.zero /\ ~l.fast THEN {"can_fast_zero"} ELSE {}
      [] l.filter = "spinning" -> {"is_rotational", "can_multi_conn"}
      [] l.filter \in ImageFilters -> ImageSilent(l)
      [] OTHER -> {}

\* ... and those it asks in <filter>_prepare or before it relies on them.
AsksFirst(l, ro) ==
    CASE l.filter \in {"partition", "truncate", "spinning"} -> {"get_size"}
      [] l.filter = "nozero" /\ ~ro /\ NeedsZero(l) ->
           {"can_zero"}
      [] l.filter = "fua" /\ ~ro ->
           CASE l.fuamode = "emulate" -> {"can_flush"}
             [] l.fuamode \in {"native", "force"} -> {"can_fua"}
             [] OTHER -> {}
      [] l.filter = "log" -> Questions
      [] l.filter \in ImageFilters -> ImageAsks(l)
      [] l.filter \in StorePlugins \cup FilePlugins \cup DiskPlugins -> Questions
      [] OTHER -> {}

Closed(l) == l.filter = "tls-fallback" /\ ~l.tls

-----------------------------------------------------------------------------
(* The connection is prepared from the plugin up; then the server asks the *)
(* questions of the handshake from the top.                                *)

\* backend_open: a layer opened read-only is never asked whether it can
\* write; <filter>_open may change the flag for the next layer.
Readonly ==
    LET down[i \in 1 .. Plugin] ==
          IF i = 1 THEN conf.readonly
          ELSE LET l == conf.layers[i - 1]
               IN  CASE l.filter = "checkwrite" -> checkwrite_open
                     [] l.filter \in Decompressors -> TRUE
                     [] l.filter = "ext2" -> ext2_open
                     [] l.filter = "readonly" -> readonly_open(l, down[i - 1])
                     [] OTHER -> down[i - 1]
    IN  down
Opened(ans, ro) == Cached(IF ro THEN [ans EXCEPT !.can_write = 0] ELSE ans)

Serving(h, ans) == [ok |-> ans.get_size >= 0, h |-> h, ans |-> ans]
Above(l, nx, p, ro) ==
    IF ~nx.ok \/ ~p.ok THEN [ok |-> FALSE, ans |-> nx.ans]
    ELSE Serving(p.h, Opened(Answers(l, nx.ans, p.h), ro))
OnTop(l, nx, ro) == Above(l, nx, Prepare(l, nx.ans, ro), ro)
Chain ==
    LET up[i \in 1 .. Plugin] ==
          IF i = Plugin
          THEN [ok |-> TRUE, h |-> <<>>, ans |-> Opened(conf.plugin, Readonly[i])]
          ELSE OnTop(conf.layers[i], up[i + 1], Readonly[i])
    IN  up

Asked(chain) ==
    LET down[i \in 1 .. Plugin] ==
          IF i = 1 THEN Questions
          ELSE LET l == conf.layers[i - 1]
                   passed == {q \in down[i - 1] \ Silent(l) :
                                ~RuledOut(chain[i - 1].ans, q)}
               IN  IF Closed(l) THEN {}
                   ELSE UNION {Implied(q) :
                          q \in passed \cup AsksFirst(l, Readonly[i - 1])}
    IN  down

Accepting == \A i \in 1 .. Len(conf.layers) : Accepted(conf.layers[i])

\* An assertion of a plugin that builds a disk before it serves fails.
GetReadyAborts ==
    \E i \in 1 .. Len(conf.layers) :
       conf.layers[i].filter \in DiskPlugins /\ DiskReady(conf.layers[i]).aborts

RefuseClient == phase' = "refused" /\ UNCHANGED <<mem, caps>>
Serve(chain, asked) ==
    /\ phase' = "serving"
    /\ mem' = [i \in 1 .. Plugin |-> chain[i].h]
    /\ caps' = [i \in 1 .. Plugin |-> [q \in Questions |->
         IF q \in asked[i] THEN chain[i].ans[q] ELSE -1]]
Negotiate(chain) == IF chain[1].ok THEN Serve(chain, Asked(chain)) ELSE RefuseClient
Connect ==
    /\ phase = "start"
    /\ \A i \in 1 .. Len(conf.layers) : ~Endless(conf.layers[i])
    /\ crash' = IF Accepting /\ GetReadyAborts THEN "get_ready" ELSE ""
    /\ IF Accepting /\ crash' = "" THEN Negotiate(Chain) ELSE RefuseClient
    /\ UNCHANGED <<conf, frames, result, req, ops, disk, dirty, touched, view>>

-----------------------------------------------------------------------------
(* Callbacks of a filter; an operation it does not have goes to the next   *)
(* layer.                                                                  *)

Mapped == {"pread", "pwrite", "trim", "zero", "cache"}

Callback(f, r) ==
    LET l == L(f)
        op == f.op
    IN  CASE l.filter = "offset" /\ op \in Mapped -> offset_op(f)
          [] l.filter = "offset" /\ op = "extents" -> offset_extents(f, r)
          [] l.filter = "partition" /\ op \in Mapped -> partition_op(f)
          [] l.filter = "partition" /\ op = "extents" ->
               partition_extents(f, r)
          [] l.filter = "truncate" /\ op = "pread" -> truncate_pread(f, r)
          [] l.filter = "truncate" /\ op = "pwrite" -> truncate_pwrite(f, r)
          [] l.filter = "truncate" /\ op = "trim" -> truncate_trim(f)
          [] l.filter = "truncate" /\ op = "cache" -> truncate_cache(f)
          [] l.filter = "truncate" /\ op = "zero" -> truncate_zero(f)
          [] l.filter = "truncate" /\ op = "extents" -> truncate_extents(f, r)
          [] l.filter = "swab" /\ op = "pread" -> swab_pread(f, r)
          [] l.filter = "swab" /\ op = "pwrite" -> swab_pwrite(f)
          [] l.filter = "swab" /\ op \in {"trim", "zero", "cache"} ->
               swab_op(f)
          [] l.filter = "swab" /\ op = "extents" -> swab_extents(f, r)
          [] l.filter = "nozero" /\ op = "zero" -> nozero_zero(f)
          [] l.filter = "nocache" /\ op = "cache" -> nocache_cache(f)
          [] l.filter = "readonly" /\ op \in Writers -> readonly_op(f)
          [] l.filter = "fua" /\ op = "pwrite" -> fua_pwrite(f, r)
          [] l.filter = "fua" /\ op \in {"trim", "zero"} -> fua_trim(f, r)
          [] l.filter = "fua" /\ op = "flush" -> fua_flush(f)
          [] l.filter = "policy" /\ op = "pwrite" -> policy_pwrite(f)
          [] l.filter = "policy" /\ op \in Mapped \cup {"extents"} ->
               policy_op(f)
          [] l.filter = "protect" /\ op \in Writers -> protect_op(f, r)
          [] l.filter = "checkwrite" /\ op = "pwrite" ->
               checkwrite_pwrite(f, r)
          [] l.filter = "checkwrite" /\ op = "flush" -> checkwrite_flush
          [] l.filter = "checkwrite" /\ op \in {"trim", "zero"} ->
               checkwrite_trim_zero(f, r)
          [] l.filter = "ddrescue" /\ op = "pread" -> ddrescue_pread(f)
          [] l.filter = "error" /\ op # "flush" -> error_op(f)
          [] l.filter = "evil" /\ op = "pread" -> evil_pread(f, r)
          [] l.filter = "extentlist" /\ op = "extents" ->
               extentlist_extents(f)
          [] l.filter = "cacheextents" /\ op = "extents" ->
               cacheextents_extents(f, r)
          [] l.filter = "cacheextents" /\ op \in Writers ->
               cacheextents_pwrite(f)
          [] l.filter = "log" -> log_op(f, r)
          [] l.filter = "stats" -> stats_op(f, r)
          [] l.filter = "delay" /\ op = "zero" -> delay_zero(f)
          [] l.filter = "delay" /\ op # "flush" -> delay_op(f)
          [] l.filter = "spinning" /\ op \in {"pread", "pwrite", "zero"} ->
               do_seek(f)
          [] l.filter = "tls-fallback" /\ op = "pread" ->
               tls_fallback_pread(f)
          [] l.filter \in ImageFilters -> ImageCallback(f, r)
          [] l.filter \in StorePlugins ->
               IF Wrapping(f) THEN plugin_wrapper(f, r) ELSE StoreOp(f)
          [] l.filter \in FilePlugins ->
               IF Wrapping(f) THEN plugin_wrapper(f, r) ELSE FileOp(f, r)
          [] l.filter \in DiskPlugins ->
               IF Wrapping(f) THEN plugin_wrapper(f, r) ELSE DiskOp(f, r)
          [] OTHER -> {Pass(f)}

\* One step of the callback at the top of a thread's stack.
Step(t) ==
    /\ frames[t] # <<>> /\ crash = ""
    /\ LET f == Top(t)
       IN  IF Unasked(f) THEN \E o \in Wrapper(f) : Do(t, o)
           ELSE f.lvl < Plugin /\ \E o \in Callback(f, result[t]) : Do(t, o)

\* The client has sent what it wanted to send, or nobody serves it.
Finished ==
    /\ \/ phase = "refused" \/ crash # ""
       \/ phase = "serving" /\ \A t \in Threads : req[t] = NoRequest
    /\ UNCHANGED vars

Init ==
    /\ conf \in Configs
    /\ phase = "start"
    /\ caps = <<>> /\ mem = <<>>
    /\ frames = [t \in Threads |-> <<>>]
    /\ result = [t \in Threads |-> NoResult]
    /\ req = [t \in Threads |-> NoRequest]
    /\ ops = 0
    /\ disk = conf.disk
    /\ dirty = {}
    /\ touched = [t \in Threads |-> {}]
    /\ view = conf.view
    /\ crash = ""

Next ==
    \/ Connect \/ Finished
    \/ \E t \in Threads : \/ Receive(t) \/ Step(t) \/ CallPlugin(t)
                          \/ Reply(t)

Spec == Init /\ [][Next]_vars

\* Every callback takes its next step, every plugin call returns.
Fairness ==
    \A t \in Threads : WF_vars(Step(t)) /\ WF_vars(CallPlugin(t))
                       /\ WF_vars(Reply(t))
FairSpec == Spec /\ Fairness

-----------------------------------------------------------------------------
Alone == Cardinality(conf.threads) = 1

\* When no request is in progress no filter holds a lock, and the log
\* filter has logged the end of every transaction.
Idle(i) ==
    CASE conf.layers[i].filter = "cacheextents" -> mem[i].lock = 0
      [] conf.layers[i].filter = "log" -> mem[i].open = {}
      [] conf.layers[i].filter = "luks" -> mem[i].lock = 0
      [] conf.layers[i].filter = "qcow2dec" ->
           \A k \in 1 .. Len(mem[i].lock) : mem[i].lock[k] = 0
      [] conf.layers[i].filter = "spinning" ->
           \A k \in 1 .. Len(mem[i]) : mem[i][k].lock = 0
      [] conf.layers[i].filter \in StorePlugins ->
           StoreIdle(conf.layers[i], mem[i])
      [] conf.layers[i].filter \in FilePlugins -> mem[i].lseek_lock = 0
      [] OTHER -> TRUE
NothingHeld ==
    (phase = "serving" /\ \A t \in Threads : frames[t] = <<>>) =>
       \A i \in 1 .. Len(conf.layers) : Idle(i)

\* No assertion of backend.c, or of a filter, fails: whatever the chain and
\* whatever was negotiated, a layer is only called inside its size, with
\* flags it supports, for operations it has said it can do and after having
\* been asked (backend.c:462-868); and every callback leaves its layer free.
LayersKeepContract == crash = "" /\ NothingHeld

\* A read that succeeds returns what the client last wrote, or what the
\* exported disk held, through every translation of offsets, padding and
\* byte order, and also after requests that failed half-way.
ReadsMatchWrites ==
    \A t \in Threads :
       (Replying(t) /\ Succeeds(t) /\ req[t].op = "pread" /\ Alone
          /\ ~conf.lies) =>
         \A i \in Units(req[t].off, req[t].n) :
            view[i] \in {Unknown, result[t].buf[i - req[t].off + 1]}

\* Nothing the client does changes a unit of the plugin that the chain puts
\* out of its reach: outside the window of offset, partition or truncate,
\* in a range of the protect filter, or anywhere on a read-only export.
OnlyTheWindowChanges ==
    \A i \in DOMAIN disk : disk[i] # conf.disk[i] => i \in conf.window

\* What a block status reply calls zeroes reads as zeroes, and the reply
\* starts where the request does.
ExtentsAreSafe ==
    \A t \in Threads :
       (Replying(t) /\ Succeeds(t) /\ req[t].op = "extents" /\ Alone) =>
         /\ result[t].exts.list # <<>>
         /\ result[t].exts.list[1].offset = req[t].off
         /\ \A i \in SaidZero(t) : view[i] \in {Unknown, 0}

\* The disk a plugin builds from its parameters is what they mean.  For the
\* data plugin: what the optimizer does to the tree, and the allocator the
\* tree is written to, change neither the data nor the size, and refuse
\* nothing that is valid.
HasData(l, h, data) ==
    LET size == IF l.size = -1 THEN Len(data) ELSE l.size
    IN  data # Nothing =>
          /\ phase = "serving"
          /\ h.size = size
          /\ a_read(l, h.a, 0, size)
               = [k \in 1 .. size |-> IF k <= Len(data) THEN data[k] ELSE 0]
DataAsGiven(l, h) ==
    HasData(l, h, IF l.seen = "data" THEN MeaningOf(l.tokens) ELSE l.bytes)
\* For partitioning and linuxdisk: the partition filter finds each file by
\* its number, at its place and with its size in whole sectors.
PartitionsAsGiven(n, h) ==
    /\ \A i \in 1 .. n :
         LET r == find_file_region(h.regions, i)
         IN  partition_prepare([partnum |-> PartNumber(h.table, n, i),
                                sector |-> SECTOR_SIZE, table |-> h.table],
                               virtual_size(h.regions))
               = [ok |-> TRUE, h |-> [offset |-> r.start,
                                      range |-> ROUND_UP(r.len, SECTOR_SIZE)]]
    /\ h.table.kind = "gpt" => GptIsSound(h)
\* For floppy: a reader of the FAT filesystem finds the tree of the host,
\* with its names and data (data.c, virtual-disk.c, virtual-floppy.c).
DiskIsWhatWasGiven ==
    \A i \in 1 .. Len(conf.layers) :
       LET l == conf.layers[i]
       IN  (ops = 0 /\ phase # "start" /\ crash = "" /\ Accepted(l)) =>
             CASE l.filter = "data" ->
                    DataAsGiven(l, IF phase = "serving" THEN mem[i] ELSE <<>>)
               [] l.filter = "partitioning" ->
                    phase = "serving" /\ PartitionsAsGiven(Len(l.files), mem[i])
               [] l.filter = "linuxdisk" /\ phase = "serving" ->
                    PartitionsAsGiven(1, mem[i])
               [] l.filter = "floppy" /\ phase = "serving" ->
                    FloppyIsSound(l, mem[i])
               [] OTHER -> TRUE

\* After a flush nothing is left in the plugin's cache, and a request with
\* the FUA flag has none of its own data there, through filters that
\* forward, emulate or force the flag.
FlushIsDurable ==
    \A t \in Threads :
       (Replying(t) /\ Succeeds(t) /\ Alone /\ ~conf.volatile) =>
         /\ req[t].op = "flush" => dirty = {}
         /\ "FUA" \in req[t].flags => touched[t] \cap dirty = {}

\* "Any changes to the data needs to clean the cache" (cacheextents.c:158):
\* when no request is in progress, what the cacheextents filter remembers
\* as zeroes is zero on the disk.
CacheIsFresh ==
    (phase = "serving" /\ \A t \in Threads : frames[t] = <<>>) =>
       \A i \in 1 .. Len(conf.layers) :
          (conf.layers[i].filter = "cacheextents" /\ mem[i].exts # <<>>) =>
             \A e \in ToSet(mem[i].exts.list) :
                "zero" \in e.type =>
                   \A u \in Units(e.offset, e.length) : disk[u] = 0

\* Every request is answered: no filter waits for ever for a lock and no
\* loop over extents or regions runs for ever.
RequestsAnswered ==
    \A t \in Threads : (req[t] # NoRequest) ~> (req[t] = NoRequest \/ crash # "")
=============================================================================
