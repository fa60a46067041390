------------------------------- MODULE Layers -------------------------------
(***************************************************************************)
(* The chain of filters above a plugin, as one request walks through it    *)
(* (server/backend.c, server/filters.c).  Layer 1 is the filter next to    *)
(* the client, the last layer is the plugin.  Each worker thread has a     *)
(* stack of frames, one for each callback that has not returned; a         *)
(* callback that ends in `return next->op (...)' is replaced by the frame  *)
(* of that call, as its result is returned unchanged.                      *)
(*                                                                         *)
(* The filters and plugins are in modules of their own: a callback is an   *)
(* operator that maps its frame, and the result of the call it was waiting *)
(* for, to what it does next (Pass, Invoke, Return, Fail, Abort, Wait).    *)
(* LayerStack puts them together.  Offsets count small units; a unit has a *)
(* value, of which only equality and being zero matter.                    *)
(***************************************************************************)
EXTENDS FiniteSets, SequencesExt, ExtentList

CONSTANTS
    Threads,        \* worker threads
    Configs,        \* chains of filters, plugins and disks considered
    MaxOps,         \* requests sent on one connection, unless conf.steps differs
    Unknown         \* a value of the client's disk it cannot know

VARIABLES
    conf,       \* the configuration
    phase,      \* "start", "refused", "serving"
    caps,       \* per layer: the answers cached in struct context, -1 if none
    mem,        \* per layer: the handle and the globals of the filter
    frames,     \* per thread: callbacks that have not returned
    result,     \* per thread: what the last callback returned
    req,        \* per thread: the request of the client
    ops,        \* requests sent so far
    disk,       \* the plugin's data
    dirty,      \* the plugin's units not on stable storage
    touched,    \* per thread: the plugin's units its request has changed
    view,       \* the client's disk as far as the client knows it
    crash       \* the assertion that failed

vars == <<conf, phase, caps, mem, frames, result, req, ops, disk, dirty,
          touched, view, crash>>

NONE == 0
EMULATE == 1
NATIVE == 2

Questions == {"get_size", "can_write", "can_flush", "can_trim", "can_zero",
              "can_fast_zero", "can_fua", "can_cache", "can_extents",
              "is_rotational", "can_multi_conn", "block_size"}
Writers == {"pwrite", "trim", "zero"}
Plugin == Len(conf.layers) + 1
L(f) == conf.layers[f.lvl]
M(f) == mem[f.lvl]
Top(t) == Last(frames[t])

NoBlockSize == <<0, 0, 0>>
BadBlockSize == <<-1, -1, -1>>
NoRequest == [op |-> "none"]
NoResult == [err |-> "", buf |-> <<>>, exts |-> <<>>]
Zeroes(n) == [i \in 1 .. n |-> 0]
IsZero(buf) == \A i \in 1 .. Len(buf) : buf[i] = 0
Units(off, n) == off .. (off + n - 1)
MIN(a, b) == IF a <= b THEN a ELSE b
ROUND_DOWN(n, k) == n - (n % k)
ROUND_UP(n, k) == ROUND_DOWN(n + k - 1, k)
IS_ALIGNED(n, k) == n % k = 0
is_power_of_2(n) == \E k \in 0 .. 30 : n = 2 ^ k

Frame(r, t) ==
    [t |-> t, lvl |-> 1, op |-> r.op, off |-> r.off, n |-> r.n, flags |-> r.flags,
     data |-> r.data, pc |-> "in", x |-> <<>>,
     exts |-> IF r.op = "extents"
              THEN nbdkit_extents_new(r.off, caps[1].get_size) ELSE <<>>]

-----------------------------------------------------------------------------
(* What a callback does next. *)

Outcome == [do |-> "wait", self |-> <<>>, next |-> <<>>, r |-> NoResult,
            set |-> FALSE, mem |-> <<>>, crash |-> ""]
Wait == Outcome
Pass(f) == [Outcome EXCEPT !.do = "tail",
                           !.next = [f EXCEPT !.lvl = @ + 1, !.pc = "in",
                                              !.x = <<>>]]
Invoke(self, f) ==
    [Outcome EXCEPT !.do = "call", !.self = self,
                    !.next = [f EXCEPT !.lvl = @ + 1, !.pc = "in",
                                       !.x = <<>>]]
Stay(self) == [Outcome EXCEPT !.do = "stay", !.self = self]
Return(r) == [Outcome EXCEPT !.do = "return", !.r = r]
Ok == Return(NoResult)
OkBuf(buf) == Return([NoResult EXCEPT !.buf = buf])
OkExts(exts) == Return([NoResult EXCEPT !.exts = exts])
Fail(e) == Return([NoResult EXCEPT !.err = e])
Abort(a) == [Outcome EXCEPT !.do = "return", !.crash = a]
Keep(o, m) == [o EXCEPT !.set = TRUE, !.mem = m]

\* A callback that allocates memory: malloc may fail.
Allocating(o) == IF conf.nomem THEN {o, Fail("ENOMEM")} ELSE {o}

\* Copy the extents of a list into the list of the caller, each moved by d.
CopyExtents(exts, from, d) ==
    FoldLeft(LAMBDA a, e : IF a.r = -1 THEN a
                           ELSE nbdkit_add_extent(a.exts, e.offset - d,
                                                  e.length, e.type),
             [exts |-> exts, r |-> 0], from.list)
ReturnCopy(exts, from, d) ==
    LET a == CopyExtents(exts, from, d)
    IN  IF a.r = -1 THEN Fail("ERANGE") ELSE OkExts(a.exts)

-----------------------------------------------------------------------------
(* server/backend.c: what a layer's wrapper does around a callback. *)

\* Some answers are known without asking the layer.
RuledOut(a, q) ==
    \/ q \in {"can_trim", "can_zero", "can_fua", "can_fast_zero"}
          /\ a.can_write # 1
    \/ q = "can_fast_zero" /\ a.can_zero < EMULATE
Cached(a) ==
    LET z == IF RuledOut(a, "can_zero") THEN [a EXCEPT !.can_zero = 0] ELSE a
    IN  [q \in Questions |-> IF RuledOut(z, q) THEN 0 ELSE z[q]]

\* The questions a wrapper asks its own layer on the way.
Implied(q) ==
    CASE q = "can_fast_zero" -> {q, "can_zero", "can_write"}
      [] q \in {"can_trim", "can_zero", "can_fua"} -> {q, "can_write"}
      [] OTHER -> {q}

valid_range(c, f) ==
    c.get_size >= 0 /\ f.n > 0 /\ f.off >= 0 /\ f.off + f.n <= c.get_size

AllowedFlags(op) ==
    CASE op \in {"pwrite", "trim"} -> {"FUA"}
      [] op = "zero" -> {"MAY_TRIM", "FUA", "FAST_ZERO"}
      [] op = "extents" -> {"REQ_ONE"}
      [] OTHER -> {}

\* The assertion of backend_pread ... backend_cache a call breaks, or "".
Assertion(f) ==
    LET c == caps[f.lvl]
    IN  IF f.op # "flush" /\ ~valid_range(c, f) THEN "valid_range"
        ELSE IF ~(f.flags \subseteq AllowedFlags(f.op)) THEN "flags"
        ELSE IF f.op \in Writers /\ c.can_write # 1 THEN "can_write"
        ELSE IF f.op = "flush" /\ c.can_flush # 1 THEN "can_flush"
        ELSE IF f.op = "trim" /\ c.can_trim # 1 THEN "can_trim"
        ELSE IF f.op = "zero" /\ c.can_zero <= NONE THEN "can_zero"
        ELSE IF f.op = "cache" /\ c.can_cache <= NONE THEN "can_cache"
        ELSE IF f.op = "extents" /\ c.can_extents < 0 THEN "can_extents"
        ELSE IF "FUA" \in f.flags /\ c.can_fua <= NONE THEN "can_fua"
        ELSE IF "FAST_ZERO" \in f.flags /\ c.can_fast_zero # 1
             THEN "can_fast_zero"
        ELSE ""

\* backend_zero and backend_cache emulate with backend_pwrite and
\* backend_pread what the layer does not do natively.
Emulate(f) ==
    LET c == caps[f.lvl]
    IN  IF f.op = "zero" /\ c.can_zero = EMULATE /\ "FAST_ZERO" \notin f.flags
        THEN [f EXCEPT !.op = "pwrite", !.flags = @ \cap {"FUA"},
                       !.data = Zeroes(f.n)]
        ELSE IF f.op = "cache" /\ c.can_cache = EMULATE
        THEN [f EXCEPT !.op = "pread"]
        ELSE f

\* What a wrapper answers without calling the layer.
Unasked(f) ==
    LET c == caps[f.lvl]
    IN  f.pc = "in" /\ \/ f.op = "zero" /\ c.can_zero = EMULATE
                       \/ f.op = "extents" /\ c.can_extents = 0
Wrapper(f) ==
    IF f.op = "zero" THEN {Fail("ENOTSUP")}
    ELSE LET a == nbdkit_add_extent(f.exts, f.off, f.n, {})
         IN  {IF a.r = -1 THEN Fail("ERANGE") ELSE OkExts(a.exts)}

-----------------------------------------------------------------------------
(* Steps. *)

Do(t, o) ==
    LET f == Top(t)
        called == o.do \in {"tail", "call"}
        outer == \/ Len(frames[t]) = 1
                 \/ frames[t][Len(frames[t]) - 1].lvl # f.lvl
        slow == o.do = "return" /\ outer /\ f.op = "zero"
                /\ "FAST_ZERO" \notin f.flags
    IN  /\ o.do # "wait"
        /\ frames' = [frames EXCEPT ![t] =
              CASE o.do = "tail" -> Append(Front(@), Emulate(o.next))
                [] o.do = "call" -> Front(@) \o <<o.self, Emulate(o.next)>>
                [] o.do = "stay" -> Append(Front(@), o.self)
                [] o.do = "return" -> Front(@)]
        /\ result' = IF o.do = "return" THEN [result EXCEPT ![t] = o.r]
                     ELSE result
        /\ mem' = IF o.set THEN [mem EXCEPT ![f.lvl] = o.mem] ELSE mem
        /\ crash' = IF o.crash # "" THEN o.crash
                    ELSE IF called /\ o.next.lvl # f.lvl
                    THEN Assertion(o.next)
                    ELSE IF slow /\ o.r.err = "ENOTSUP" THEN "slow zero"
                    ELSE ""
        /\ UNCHANGED <<conf, phase, caps, req, ops, disk, dirty, touched,
                       view>>

\* The type the plugin reports for a unit.
UnitType(i) ==
    IF conf.sparse /\ disk[i] = 0 THEN {"hole", "zero"} ELSE {}

PluginExtents(f) ==
    FoldLeft(LAMBDA e, i : nbdkit_add_extent(e, i, 1, UnitType(i)).exts,
             f.exts, [k \in 1 .. f.n |-> f.off + k - 1])

\* The plugin carries out a call, or fails it.  Below a plugin that is
\* modelled, fdatasync is the call that flushes one file.
PluginDoes(t, e) ==
    LET f == Top(t)
        units == Units(f.off, f.n)
        done == e = "" /\ f.op \in Writers
    IN  /\ disk' = IF ~done THEN disk
                   ELSE [i \in DOMAIN disk |->
                           IF i \notin units THEN disk[i]
                           ELSE IF f.op = "pwrite" THEN f.data[i - f.off + 1]
                           ELSE 0]
        /\ dirty' = IF done THEN IF "FUA" \in f.flags THEN dirty \ units
                                 ELSE dirty \cup units
                    ELSE IF e = "" /\ f.op = "flush" THEN {}
                    ELSE IF e = "" /\ f.op = "fdatasync" THEN dirty \ units
                    ELSE dirty
        /\ touched' = IF done THEN [touched EXCEPT ![t] = @ \cup units]
                      ELSE touched
        /\ result' = [result EXCEPT ![t] =
              [err |-> e,
               buf |-> IF e = "" /\ f.op = "pread"
                       THEN [k \in 1 .. f.n |-> disk[f.off + k - 1]]
                       ELSE <<>>,
               exts |-> IF e = "" /\ f.op = "extents" THEN PluginExtents(f)
                        ELSE <<>>]]
        /\ frames' = [frames EXCEPT ![t] = Front(@)]
        /\ UNCHANGED <<conf, phase, caps, mem, req, ops, view, crash>>

CallPlugin(t) ==
    /\ frames[t] # <<>> /\ crash = ""
    /\ Top(t).lvl = Plugin /\ ~Unasked(Top(t))
    /\ \E e \in {""} \cup conf.fails : PluginDoes(t, e)

\* What the eflags of the connection allow the client to send.
Advertised(r) ==
    LET c == caps[1]
    IN  /\ r.op \in Writers => c.can_write = 1
        /\ r.op = "trim" => c.can_trim = 1
        /\ r.op = "zero" => c.can_zero > NONE
        /\ r.op = "cache" => c.can_cache > NONE
        /\ r.op = "flush" => c.can_flush = 1
        /\ "FUA" \in r.flags => c.can_fua > NONE
        /\ "FAST_ZERO" \in r.flags => c.can_fast_zero = 1
        /\ r.op # "flush" => valid_range(c, r)

\* A filter has called nbdkit_disconnect.
Disconnected ==
    \E i \in 1 .. Len(conf.layers) :
       conf.layers[i].filter = "policy" /\ mem[i].gone

\* A request that validate_request has accepted.
Receive(t) ==
    /\ phase = "serving" /\ crash = "" /\ ops < conf.steps /\ ~Disconnected
    /\ t \in conf.threads /\ req[t] = NoRequest
    /\ \E r \in conf.requests :
          /\ Advertised(r)
          /\ req' = [req EXCEPT ![t] = r]
          /\ frames' = [frames EXCEPT ![t] = <<Emulate(Frame(r, t))>>]
          /\ crash' = Assertion(Frame(r, t))
    /\ ops' = ops + 1
    /\ touched' = [touched EXCEPT ![t] = {}]
    /\ UNCHANGED <<conf, phase, caps, mem, result, disk, dirty, view>>

Replying(t) == req[t] # NoRequest /\ frames[t] = <<>>
Succeeds(t) == result[t].err = ""

\* Where the reply to a block status request says that units read as zeroes.
SaidZero(t) ==
    UNION {Units(e.offset, e.length) :
             e \in {x \in ToSet(result[t].exts.list) : "zero" \in x.type}}

\* What the client knows after the reply.  With several requests in flight,
\* or when the filter is there to corrupt data, it knows nothing.
Learn(t) ==
    LET r == req[t]
        units == Units(r.off, r.n)
        known(i) ==
          CASE i \notin units -> view[i]
            [] r.op \in Writers /\ (~Succeeds(t) \/ conf.blurs) -> Unknown
            [] r.op = "pwrite" -> r.data[i - r.off + 1]
            [] r.op = "zero" -> 0
            [] r.op = "trim" -> Unknown
            [] r.op = "pread" /\ Succeeds(t) -> result[t].buf[i - r.off + 1]
            [] r.op = "extents" /\ Succeeds(t) /\ i \in SaidZero(t) -> 0
            [] OTHER -> view[i]
    IN  [i \in DOMAIN view |-> known(i)]

Reply(t) ==
    /\ Replying(t) /\ crash = ""
    /\ view' = IF Cardinality(conf.threads) = 1 /\ req[t].op # "flush"
               THEN Learn(t) ELSE view
    /\ req' = [req EXCEPT ![t] = NoRequest]
    /\ UNCHANGED <<conf, phase, caps, mem, frames, result, ops, disk, dirty,
                   touched, crash>>

-----------------------------------------------------------------------------
(***************************************************************************)
(* server/plugins.c around the callbacks of one plugin.  A plugin is the   *)
(* last entry of conf.layers; what it stands on (a file, a server, the     *)
(* memory of the process) is the level below.  The wrappers that emulate   *)
(* FUA and zeroes call the plugin's own callback in a frame of the same    *)
(* level, which starts at "go".                                            *)
(***************************************************************************)
Bit(b) == IF b THEN 1 ELSE 0
NotSupported == {"ENOTSUP", "EOPNOTSUPP"}

\* The sizes a plugin gives are checked; here 16 units stand for 64K, 2 for
\* 512 and 1024 for 32M.
plugin_block_size(bs) ==
    IF \/ bs = NoBlockSize
       \/ /\ bs[1] \in 1 .. 16 /\ is_power_of_2(bs[1])
          /\ bs[2] \in 2 .. 1024 /\ is_power_of_2(bs[2])
          /\ bs[3] % bs[1] = 0
          /\ bs[1] <= bs[2] /\ bs[2] <= bs[3]
    THEN bs ELSE BadBlockSize

\* What plugins.c answers for a plugin: given is what the plugin's own
\* can_* callbacks say, has the set of the other callbacks it has.
plugin_answers(has, given) ==
    LET zero == IF "can_zero" \in DOMAIN given
                THEN IF given["can_zero"] # 0 THEN NATIVE ELSE EMULATE
                ELSE IF "zero" \in has THEN NATIVE ELSE EMULATE
        default(q) ==
          CASE q = "can_write" -> Bit("pwrite" \in has)
            [] q = "can_flush" -> Bit("flush" \in has)
            [] q = "can_trim" -> Bit("trim" \in has)
            [] q = "can_extents" -> Bit("extents" \in has)
            [] q = "can_fast_zero" -> Bit("zero" \notin has \/ zero = 0)
            [] q = "can_fua" -> IF "flush" \in has THEN EMULATE ELSE NONE
            [] q = "can_cache" -> IF "cache" \in has THEN NATIVE ELSE NONE
            [] q \in {"is_rotational", "can_multi_conn"} -> 0
            [] q = "block_size" -> NoBlockSize
    IN  [q \in Questions |->
           IF q = "can_zero" THEN zero
           ELSE IF q = "block_size" /\ q \in DOMAIN given
           THEN plugin_block_size(given[q])
           ELSE IF q \in DOMAIN given THEN given[q] ELSE default(q)]

\* A call of a callback of the same plugin.
Again(self, f) ==
    [Outcome EXCEPT !.do = "call", !.self = self,
                    !.next = [f EXCEPT !.pc = "go", !.x = <<>>]]

NeedFlush(f) == "FUA" \in f.flags /\ caps[f.lvl].can_fua # NATIVE
Stripped(f) == IF NeedFlush(f) THEN [f EXCEPT !.flags = @ \ {"FUA"}] ELSE f
plugin_flush(f) ==
    Again([f EXCEPT !.pc = "flushed"],
          [f EXCEPT !.op = "flush", !.flags = {}, !.data = <<>>])

\* Zero natively, or by writing when the plugin says that it cannot.
plugin_zero(f, r) ==
    CASE f.pc = "in" -> {Again([f EXCEPT !.pc = "zeroed"], Stripped(f))}
      [] r.err \in NotSupported /\ "FAST_ZERO" \in f.flags ->
           {Fail("EOPNOTSUPP")}
      [] r.err \in NotSupported ->
           {Again([f EXCEPT !.pc = "done"],
                  [Stripped(f) EXCEPT !.op = "pwrite", !.flags = @ \cap {"FUA"},
                                      !.data = Zeroes(f.n)])}
      [] r.err = "" /\ NeedFlush(f) -> {plugin_flush(f)}
      [] OTHER -> {Return(r)}

\* A callback may only succeed with an extent.
plugin_extents(f, r) ==
    IF f.pc = "in" THEN {Again([f EXCEPT !.pc = "done"], f)}
    ELSE {IF r.err = "" /\ r.exts.list = <<>> THEN Fail("EINVAL")
          ELSE Return(r)}

\* Does the wrapper act, or the plugin's own callback?
Wrapping(f) ==
    \/ f.pc \in {"zeroed", "done", "flushed"}
    \/ f.pc = "in" /\ (NeedFlush(f) \/ f.op \in {"zero", "extents"})

plugin_pwrite(f, r) ==
    CASE f.pc = "in" -> {Again([f EXCEPT !.pc = "done"], Stripped(f))}
      [] r.err = "" /\ NeedFlush(f) -> {plugin_flush(f)}
      [] OTHER -> {Return(r)}

plugin_wrapper(f, r) ==
    CASE f.pc = "flushed" -> {Return(r)}
      [] f.op = "extents" -> plugin_extents(f, r)
      [] f.op = "zero" /\ f.pc \in {"in", "zeroed"} -> plugin_zero(f, r)
      [] OTHER -> plugin_pwrite(f, r)

-----------------------------------------------------------------------------
(***************************************************************************)
(* struct regions (common/regions): a virtual disk cut into contiguous     *)
(* regions in ascending order, each of a file, of data in memory, or of    *)
(* padding.  The protect filter and the partitioning, floppy and linuxdisk *)
(* plugins build their disks with it.                                      *)
(***************************************************************************)
\* end is the last byte of the region; u is the file or the data.
Region(start, end, type, u) ==
    [start |-> start, len |-> end - start + 1, end |-> end, type |-> type,
     u |-> u]

virtual_size(rs) == IF rs = <<>> THEN 0 ELSE rs[Len(rs)].end + 1

\* The binary search needs the regions ordered; NoRegion if there is none.
NoRegion == [type |-> "none"]
find_region(rs, offset) ==
    LET found == {i \in 1 .. Len(rs) : rs[i].start <= offset
                                       /\ offset <= rs[i].end}
    IN  IF found = {} THEN NoRegion ELSE rs[CHOOSE i \in found : TRUE]

\* An assertion of append_one_region that fails leaves the list Broken.
Broken == <<Region(1, 0, "broken", 0)>>
IsBroken(rs) == rs # <<>> /\ rs[1].type = "broken"
append_one_region(rs, r) ==
    IF IsBroken(rs) \/ r.start # virtual_size(rs) \/ r.len <= 0
    THEN Broken ELSE Append(rs, r)

append_padding(rs, alignment) ==
    LET start == virtual_size(rs)
    IN  IF IsBroken(rs) \/ alignment = 0 \/ start % alignment = 0 THEN rs
        ELSE append_one_region(rs, Region(start,
               (start - (start % alignment)) + alignment - 1, "zero", 0))

append_after(rs, len, post, type, u) ==
    append_padding(append_one_region(rs,
      Region(virtual_size(rs), virtual_size(rs) + len - 1, type, u)), post)
append_region_len(rs, len, pre, post, type, u) ==
    append_after(append_padding(rs, pre), len, post, type, u)

append_region_end(rs, end, pre, post, type, u) ==
    append_region_len(rs, end - virtual_size(rs) + 1, pre, post, type, u)
=============================================================================
