------------------------------ MODULE Requests ------------------------------
(***************************************************************************)
(* From negotiated capabilities to plugin callbacks: what a connection     *)
(* learns about its export when it is opened (protocol_common_open and the *)
(* backend_can_* caches), which requests validate_request lets through,    *)
(* what the backend_* functions assert about those, and how the backend    *)
(* and the plugin layer emulate what the plugin does not do itself: zeroes *)
(* by writes, forced unit access (FUA) by flushes, caching by reads.       *)
(*                                                                         *)
(* One request is served at a time; concurrency between requests is the    *)
(* subject of Connection and Server.  A byte of the export is a number in  *)
(* 0 .. ExportSize - 1, and data is not modelled: what matters is which    *)
(* bytes a request has reached, and which of them are on stable storage.   *)
(***************************************************************************)
EXTENDS Integers, Sequences

CONSTANTS
    ExportSize,     \* what .get_size returned
    MaxRequest,     \* MAX_REQUEST_SIZE, also the size of the zero buffers
    Wrap,           \* 2^64: offsets are added modulo this
    Plugins,        \* the plugins considered (PluginTypes below)
    RequestSet(_),  \* the requests a client may send to a plugin
    Errnos          \* the errors a callback may set

\* The export size is an off_t, so it is below 2^63; a count has 32 bits.
ASSUME SizeAssumption ==
    /\ Wrap \in Nat /\ ExportSize \in Nat /\ 2 * ExportSize < Wrap
    /\ MaxRequest \in Nat \ {0} /\ 2 * MaxRequest < Wrap

VARIABLES
    plugin,     \* struct nbdkit_plugin: callbacks present and their answers
    structured, \* conn->structured_replies
    meta,       \* conn->meta_context_base_allocation
    asked,      \* how many of the questions of protocol_common_open are done
    caps,       \* the can_* fields of struct context; -1 is "not asked yet"
    eflags,     \* conn->eflags
    phase,      \* "ask", "refused", "ready", "call", "replied" or "crashed"
    req,        \* the request being served
    todo,       \* plugin callbacks still to be made by the current function
    loop,       \* the emulation loop that produces them
    done,       \* bytes this request has reached
    stable,     \* those of them that are on stable storage
    reply,      \* the error sent to the client
    crash       \* the assertion that failed

vars == <<plugin, structured, meta, asked, caps, eflags, phase, req, todo,
          loop, done, stable, reply, crash>>
negotiated == <<plugin, structured, meta, asked, caps, eflags>>

NoCallback == -2
NONE == 0       \* NBDKIT_ZERO_NONE, _FUA_NONE and _CACHE_NONE
EMULATE == 1
NATIVE == 2

Questions == <<"can_write", "can_zero", "can_fast_zero", "can_trim",
               "can_fua", "can_flush", "advisory", "can_cache",
               "can_extents">>
Caps == {Questions[i] : i \in 1 .. Len(Questions)}
NotSupported == {"ENOTSUP", "EOPNOTSUPP"}
NoLoop == [kind |-> "none", offset |-> 0, count |-> 0, flags |-> {},
           need_flush |-> FALSE]

NoRequest == [cmd |-> "none", flags |-> {}, offset |-> 0, count |-> 0]

Bytes(offset, count) == offset .. (offset + count - 1)
MIN(a, b) == IF a <= b THEN a ELSE b
Bit(b) == IF b THEN 1 ELSE 0

Ranged == {"READ", "CACHE", "WRITE", "TRIM", "WRITE_ZEROES", "BLOCK_STATUS"}
Writers == {"WRITE", "TRIM", "WRITE_ZEROES"}
Commands == Ranged \cup {"FLUSH", "unknown"}
Flags == {"FUA", "NO_HOLE", "DF", "REQ_ONE", "FAST_ZERO", "unknown"}

PluginType ==
    [pwrite : BOOLEAN, flush : BOOLEAN, trim : BOOLEAN, zero : BOOLEAN,
     extents : BOOLEAN, cache : BOOLEAN, api : {1, 2},
     can_write : -2 .. 1, can_flush : -2 .. 1, can_trim : -2 .. 1,
     can_zero : -2 .. 1, can_fast_zero : -2 .. 1, can_extents : -2 .. 1,
     advisory : -2 .. 1, can_fua : -2 .. 2, can_cache : -2 .. 2]
RequestType ==
    [cmd : Commands, flags : SUBSET Flags, offset : 0 .. (Wrap - 1),
     count : 0 .. (Wrap - 1)]

\* The tri-state and truth value answers a callback may give.
ASSUME InputAssumption ==
    /\ Plugins \subseteq PluginType
    /\ \A p \in Plugins : RequestSet(p) \subseteq RequestType

\* A callback that fails without saying why fails with EIO (get_error).
ASSUME ErrnoAssumption == "OK" \notin Errnos

(***************************************************************************)
(* Questions to the plugin.  `advisory' stands for is_rotational and       *)
(* can_multi_conn, whose answers the server only passes on to the client.  *)
(***************************************************************************)
normalize_bool(r) == IF r \in {-1, 0} THEN r ELSE 1

plugin_can_zero ==
    IF plugin.can_zero # NoCallback
    THEN IF plugin.can_zero = -1 THEN -1
         ELSE IF plugin.can_zero # 0 THEN NATIVE ELSE EMULATE
    ELSE IF plugin.zero THEN NATIVE ELSE EMULATE

\* _zero_v1 is a different field: the test for .zero fails for an API 1 plugin.
plugin_can_fast_zero ==
    IF plugin.can_fast_zero # NoCallback
    THEN normalize_bool(plugin.can_fast_zero)
    ELSE Bit(~(plugin.zero /\ plugin.api = 2) \/ caps["can_zero"] = 0)

plugin_can_fua ==
    IF plugin.can_fua # NoCallback
    THEN IF plugin.can_fua > EMULATE /\ plugin.api = 1
         THEN EMULATE ELSE plugin.can_fua
    ELSE IF plugin.flush THEN EMULATE ELSE NONE

plugin_can_cache ==
    IF plugin.can_cache # NoCallback THEN plugin.can_cache
    ELSE IF plugin.cache THEN NATIVE ELSE NONE

\* The questions whose answer is a normalised truth value, by default whether
\* the callback exists.
plugin_can_bool(answer, callback) ==
    IF answer # NoCallback THEN normalize_bool(answer) ELSE Bit(callback)

plugin_can(q) ==
    CASE q = "can_write"     -> plugin_can_bool(plugin.can_write, plugin.pwrite)
      [] q = "can_flush"     -> plugin_can_bool(plugin.can_flush, plugin.flush)
      [] q = "can_trim"      -> plugin_can_bool(plugin.can_trim, plugin.trim)
      [] q = "can_extents"   -> plugin_can_bool(plugin.can_extents,
                                                plugin.extents)
      [] q = "advisory"      -> plugin_can_bool(plugin.advisory, FALSE)
      [] q = "can_zero"      -> plugin_can_zero
      [] q = "can_fast_zero" -> plugin_can_fast_zero
      [] q = "can_fua"       -> plugin_can_fua
      [] q = "can_cache"     -> plugin_can_cache

(***************************************************************************)
(* The backend_can_* wrappers: ask once, and do not ask at all when an     *)
(* answer already known rules the feature out.  When they are called the   *)
(* question they depend on has been answered, so it comes from the cache.  *)
(***************************************************************************)
RuledOut(q) ==
    \/ q \in {"can_trim", "can_zero", "can_fua"} /\ caps["can_write"] # 1
    \/ q = "can_fast_zero" /\ caps["can_zero"] < EMULATE

backend_can(q) ==
    IF caps[q] # -1 THEN caps[q]
    ELSE IF RuledOut(q) THEN NONE
    ELSE plugin_can(q)

EflagOf(q, fl) ==
    CASE q = "can_write" /\ fl = 0     -> {"READ_ONLY"}
      [] q = "can_zero" /\ fl # 0      -> {"SEND_WRITE_ZEROES"}
      [] q = "can_fast_zero" /\ fl # 0 -> {"SEND_FAST_ZERO"}
      [] q = "can_trim" /\ fl # 0      -> {"SEND_TRIM"}
      [] q = "can_fua" /\ fl # 0       -> {"SEND_FUA"}
      [] q = "can_flush" /\ fl # 0     -> {"SEND_FLUSH"}
      [] q = "can_cache" /\ fl # 0     -> {"SEND_CACHE"}
      [] OTHER                         -> {}

\* One question of protocol_common_open.  An error refuses the export; after
\* the last question the connection is ready to serve.
protocol_common_open ==
    /\ phase = "ask"
    /\ LET q == Questions[asked + 1]
           fl == backend_can(q)
       IN  /\ caps' = [caps EXCEPT ![q] = fl]
           /\ asked' = asked + 1
           /\ eflags' = IF fl = -1 THEN eflags
                        ELSE eflags \cup EflagOf(q, fl)
           /\ phase' = IF fl = -1 THEN "refused"
                       ELSE IF asked + 1 = Len(Questions) THEN "ready"
                       ELSE "ask"
    /\ UNCHANGED <<plugin, structured, meta, req, todo, loop, done, stable,
                   reply, crash>>

\* backend_open: nothing is known about the export, except that a server
\* started with -r does not ask whether it can be written.  The handshake
\* negotiates the meta context only after structured replies.
Init ==
    /\ plugin \in Plugins
    /\ structured \in BOOLEAN /\ meta \in BOOLEAN /\ (meta => structured)
    /\ asked = 0
    /\ \E readonly \in BOOLEAN :
           caps = [q \in Caps |-> IF q = "can_write" /\ readonly
                                  THEN 0 ELSE -1]
    /\ eflags = {}
    /\ phase = "ask"
    /\ req = NoRequest
    /\ todo = <<>> /\ loop = NoLoop
    /\ done = {} /\ stable = {}
    /\ reply = "none" /\ crash = "none"

(***************************************************************************)
(* Validation.                                                             *)
(***************************************************************************)

\* The export size is below Wrap / 2, so the sum cannot wrap once the offset
\* is known not to exceed it.
backend_valid_range(offset, count) ==
    /\ count > 0
    /\ offset <= ExportSize
    /\ (offset + count) % Wrap <= ExportSize

ReadOnly(r) == "READ_ONLY" \in eflags /\ r.cmd \in Writers

BadRange(r) ==
    \/ r.cmd \in Ranged /\ ~backend_valid_range(r.offset, r.count)
    \/ r.cmd = "FLUSH" /\ (r.offset # 0 \/ r.count # 0)
    \/ r.cmd = "unknown"

\* Mutant: whether FUA was advertised is not looked at.
BadFlagsNoFua(r) ==
    \/ "unknown" \in r.flags
    \/ r.flags \cap {"NO_HOLE", "FAST_ZERO"} # {} /\ r.cmd # "WRITE_ZEROES"
    \/ "DF" \in r.flags /\ (r.cmd # "READ" \/ ~structured)
    \/ "REQ_ONE" \in r.flags /\ r.cmd # "BLOCK_STATUS"

BadFlags(r) ==
    \/ "unknown" \in r.flags
    \/ r.flags \cap {"NO_HOLE", "FAST_ZERO"} # {} /\ r.cmd # "WRITE_ZEROES"
    \/ "DF" \in r.flags /\ (r.cmd # "READ" \/ ~structured)
    \/ "REQ_ONE" \in r.flags /\ r.cmd # "BLOCK_STATUS"
    \/ "FUA" \in r.flags /\ "SEND_FUA" \notin eflags

TooLarge(r) == r.cmd \in {"READ", "WRITE"} /\ r.count > MaxRequest

NotAllowed(r) ==
    \/ r.cmd = "FLUSH" /\ "SEND_FLUSH" \notin eflags
    \/ r.cmd = "TRIM" /\ "SEND_TRIM" \notin eflags
    \/ r.cmd = "WRITE_ZEROES" /\ "SEND_WRITE_ZEROES" \notin eflags
    \/ r.cmd = "CACHE" /\ "SEND_CACHE" \notin eflags
    \/ r.cmd = "BLOCK_STATUS" /\ ~(structured /\ meta)

\* The error of the first check that fails, in the order of the code.
validate_request(r) ==
    IF ReadOnly(r) THEN "EROFS"
    ELSE IF BadRange(r)
         THEN IF r.cmd \in {"WRITE", "WRITE_ZEROES"} THEN "ENOSPC"
              ELSE "EINVAL"
    ELSE IF BadFlags(r) THEN "EINVAL"
    ELSE IF TooLarge(r) THEN "ENOMEM"
    ELSE IF NotAllowed(r) THEN "EINVAL"
    ELSE "OK"

nbd_errno(error, flags) ==
    CASE error = "OK" -> "SUCCESS"
      [] error \in {"EROFS", "EPERM"} -> "EPERM"
      [] error \in {"EDQUOT", "EFBIG", "ENOSPC"} -> "ENOSPC"
      [] error \in {"EIO", "ENOMEM", "ESHUTDOWN"} -> error
      [] error \in NotSupported /\ "FAST_ZERO" \in flags -> "ENOTSUP"
      [] error = "EOVERFLOW" /\ "DF" \in flags -> "EOVERFLOW"
      [] OTHER -> "EINVAL"

(***************************************************************************)
(* Dispatch.                                                               *)
(***************************************************************************)
\* The NBDKIT_FLAG_* that handle_request passes on.
handle_request_flags(r) ==
    (IF r.cmd \in Writers THEN r.flags \cap {"FUA"} ELSE {})
      \cup (IF r.cmd = "WRITE_ZEROES"
            THEN (r.flags \cap {"FAST_ZERO"}) \cup
                 (IF "NO_HOLE" \in r.flags THEN {} ELSE {"MAY_TRIM"})
            ELSE {})
      \cup (IF r.cmd = "BLOCK_STATUS" THEN r.flags \cap {"REQ_ONE"} ELSE {})

\* The assertions at the head of backend_pread, backend_pwrite, ... that do
\* not hold for this request.
Assertions(r) ==
    {a \in {"valid_range", "can_write", "can_fua", "can_trim", "can_zero",
            "can_fast_zero", "can_flush", "can_cache", "can_extents"} :
       ~ CASE a = "valid_range" ->
                 r.cmd \in Ranged => backend_valid_range(r.offset, r.count)
           [] a = "can_write" -> r.cmd \in Writers => caps["can_write"] = 1
           [] a = "can_fua" ->
                 "FUA" \in handle_request_flags(r) => caps["can_fua"] > NONE
           [] a = "can_trim" -> r.cmd = "TRIM" => caps["can_trim"] = 1
           [] a = "can_zero" ->
                 r.cmd = "WRITE_ZEROES" => caps["can_zero"] > NONE
           [] a = "can_fast_zero" ->
                 "FAST_ZERO" \in handle_request_flags(r)
                   => caps["can_fast_zero"] = 1
           [] a = "can_flush" -> r.cmd = "FLUSH" => caps["can_flush"] = 1
           [] a = "can_cache" -> r.cmd = "CACHE" => caps["can_cache"] > NONE
           [] a = "can_extents" ->
                 r.cmd = "BLOCK_STATUS" => caps["can_extents"] >= 0}

Call(fn, offset, count, flags) ==
    [fn |-> fn, offset |-> offset, count |-> count, flags |-> flags]

\* Mutant: the flush comes before the write.
FlushFirst(fn, offset, count, flags) ==
    IF "FUA" \in flags /\ caps["can_fua"] # NATIVE
    THEN <<Call("flush", 0, 0, {}), Call(fn, offset, count, flags \ {"FUA"})>>
    ELSE <<Call(fn, offset, count, flags)>>

\* plugin_pwrite and plugin_trim: a plugin that cannot do FUA by itself is
\* called without the flag, and then flushed.
WithFua(fn, offset, count, flags) ==
    IF "FUA" \in flags /\ caps["can_fua"] # NATIVE
    THEN <<Call(fn, offset, count, flags \ {"FUA"}), Call("flush", 0, 0, {})>>
    ELSE <<Call(fn, offset, count, flags)>>

\* The plugin callbacks a request starts with, and the loop it runs.
plugin_zero(r, f) ==
    /\ todo' = <<Call("zero", r.offset, r.count,
                      IF caps["can_fua"] = NATIVE THEN f ELSE f \ {"FUA"})>>
    /\ loop' = [NoLoop EXCEPT !.need_flush =
                   "FUA" \in f /\ caps["can_fua"] # NATIVE]

EmulateZero(r, f) ==
    /\ todo' = <<>>
    /\ loop' = [kind |-> "backend_zero", offset |-> r.offset,
                count |-> r.count,
                flags |-> IF caps["can_fua"] = NATIVE
                          THEN f \cap {"FUA"} ELSE {},
                need_flush |-> "FUA" \in f /\ caps["can_fua"] = EMULATE]

backend_cache(r) ==
    IF caps["can_cache"] = EMULATE
    THEN /\ todo' = <<>>
         /\ loop' = [NoLoop EXCEPT !.kind = "backend_cache",
                                   !.offset = r.offset, !.count = r.count]
    ELSE /\ todo' = <<Call("cache", r.offset, r.count, {})>>
         /\ loop' = NoLoop

Direct(r, f) ==
    /\ todo' = CASE r.cmd = "READ" -> <<Call("pread", r.offset, r.count, {})>>
                 [] r.cmd = "WRITE" -> WithFua("pwrite", r.offset, r.count, f)
                 [] r.cmd = "TRIM" -> WithFua("trim", r.offset, r.count, f)
                 [] r.cmd = "FLUSH" -> <<Call("flush", 0, 0, {})>>
                 [] r.cmd = "BLOCK_STATUS" ->
                       <<Call("extents", r.offset, r.count, f)>>
    /\ loop' = NoLoop

\* A request ends.  backend_zero asserts that only a fast zero may fail for
\* lack of support, on the path through the plugin's .zero.
Finish(e) ==
    LET bad == /\ req.cmd = "WRITE_ZEROES" /\ caps["can_zero"] = NATIVE
               /\ "FAST_ZERO" \notin req.flags /\ e \in NotSupported
    IN  /\ phase' = IF bad THEN "crashed" ELSE "replied"
        /\ crash' = IF bad THEN "zero_error" ELSE crash
        /\ reply' = IF bad THEN reply ELSE nbd_errno(e, req.flags)
        /\ todo' = <<>>

-----------------------------------------------------------------------------
Receive(r) ==
    /\ phase = "ready"
    /\ req' = r
    /\ stable' = {}
    /\ UNCHANGED negotiated

\* A request that does not validate is answered with the error.
Reject(r) ==
    /\ Receive(r)
    /\ validate_request(r) # "OK"
    /\ phase' = "replied"
    /\ reply' = nbd_errno(validate_request(r), r.flags)
    /\ todo' = <<>> /\ loop' = NoLoop /\ done' = {}
    /\ UNCHANGED crash

\* A valid request for which an assertion of the backend does not hold.
AssertionFails(r) ==
    /\ Receive(r)
    /\ validate_request(r) = "OK"
    /\ crash' \in Assertions(r)
    /\ phase' = "crashed"
    /\ UNCHANGED <<todo, loop, done, reply>>

\* A fast zero that would have to be emulated fails at once.
FastZeroEmulated(r) ==
    /\ Receive(r)
    /\ validate_request(r) = "OK" /\ Assertions(r) = {}
    /\ r.cmd = "WRITE_ZEROES" /\ "FAST_ZERO" \in r.flags
    /\ caps["can_zero"] = EMULATE
    /\ phase' = "replied" /\ reply' = nbd_errno("ENOTSUP", r.flags)
    /\ todo' = <<>> /\ loop' = NoLoop /\ done' = {}
    /\ UNCHANGED crash

\* handle_request and the backend_* function it calls.  An export without
\* extents is reported as allocated without asking the plugin.
handle_request(r) ==
    LET f == handle_request_flags(r)
        no_extents == r.cmd = "BLOCK_STATUS" /\ caps["can_extents"] = 0
    IN  /\ Receive(r)
        /\ validate_request(r) = "OK" /\ Assertions(r) = {}
        /\ phase' = "call"
        /\ done' = IF no_extents THEN Bytes(r.offset, r.count) ELSE {}
        /\ \/ r.cmd = "WRITE_ZEROES" /\ caps["can_zero"] = NATIVE
              /\ plugin_zero(r, f)
           \/ r.cmd = "WRITE_ZEROES" /\ caps["can_zero"] = EMULATE
              /\ "FAST_ZERO" \notin f /\ EmulateZero(r, f)
           \/ r.cmd = "CACHE" /\ backend_cache(r)
           \/ no_extents /\ todo' = <<>> /\ loop' = NoLoop
           \/ r.cmd \notin {"WRITE_ZEROES", "CACHE"} /\ ~no_extents
              /\ Direct(r, f)
        /\ UNCHANGED <<reply, crash>>

\* The flags of one write of the loop in backend_zero: with an emulated FUA
\* only the last write carries the flag.
LastFlags(limit) ==
    IF limit = loop.count /\ loop.need_flush THEN {"FUA"} ELSE loop.flags

\* Mutant: no loop, one buffer is written.
IterateOnce ==
    LET limit == MIN(loop.count, MaxRequest)
    IN  /\ phase = "call" /\ todo = <<>> /\ loop.count > 0
        /\ todo' = <<Call("pwrite", loop.offset, limit, loop.flags)>>
        /\ loop' = [loop EXCEPT !.count = 0]
        /\ UNCHANGED <<negotiated, phase, req, done, stable, reply, crash>>

\* An iteration of the loops of backend_zero, backend_cache and plugin_zero.
\* The loop of plugin_zero does not advance the offset.
Iterate ==
    LET limit == MIN(loop.count, MaxRequest)
    IN  /\ phase = "call" /\ todo = <<>> /\ loop.count > 0
        /\ todo' = CASE loop.kind = "backend_zero" ->
                          WithFua("pwrite", loop.offset, limit,
                                  LastFlags(limit))
                     [] loop.kind = "backend_cache" ->
                          <<Call("pread", loop.offset, limit, {})>>
                     [] loop.kind = "plugin_zero" ->
                          WithFua("pwrite", loop.offset, limit, loop.flags)
        /\ loop' = [loop EXCEPT
                      !.offset = IF loop.kind = "plugin_zero"
                                 THEN loop.offset ELSE loop.offset + limit,
                      !.count = loop.count - limit]
        /\ UNCHANGED <<negotiated, phase, req, done, stable, reply, crash>>

\* The end of plugin_zero: flush if FUA had to be emulated.
FinalFlush ==
    /\ phase = "call" /\ todo = <<>> /\ loop.count = 0
    /\ loop.kind # "backend_zero" /\ loop.need_flush
    /\ todo' = <<Call("flush", 0, 0, {})>>
    /\ loop' = [loop EXCEPT !.need_flush = FALSE]
    /\ UNCHANGED <<negotiated, phase, req, done, stable, reply, crash>>

Succeed ==
    /\ phase = "call" /\ todo = <<>> /\ loop.count = 0
    /\ loop.kind = "backend_zero" \/ ~loop.need_flush
    /\ Finish("OK")
    /\ UNCHANGED <<negotiated, req, loop, done, stable>>

\* The plugin has the callback; .zero of an API 1 plugin has no flags.
Present(c) ==
    CASE c.fn = "pread" -> TRUE
      [] c.fn = "pwrite" -> plugin.pwrite
      [] c.fn = "flush" -> plugin.flush
      [] c.fn = "trim" -> plugin.trim
      [] c.fn = "zero" ->
           plugin.zero /\ (plugin.api = 1 => "FAST_ZERO" \notin c.flags)
      [] c.fn = "extents" -> plugin.extents
      [] c.fn = "cache" -> TRUE     \* a missing .cache does nothing

\* The plugin's callback succeeds.
CallbackSucceeds ==
    /\ phase = "call" /\ todo # <<>>
    /\ LET c == Head(todo)
           bytes == IF c.fn = "flush" THEN {} ELSE Bytes(c.offset, c.count)
       IN  /\ Present(c)
           /\ done' = done \cup bytes
           /\ stable' = IF c.fn = "flush" THEN done
                        ELSE IF "FUA" \in c.flags THEN stable \cup bytes
                        ELSE stable \ bytes
    /\ todo' = Tail(todo)
    /\ UNCHANGED <<negotiated, phase, req, loop, reply, crash>>

CallbackErrors(c) ==
    IF Present(c) THEN IF c.fn = "cache" /\ ~plugin.cache THEN {} ELSE Errnos
    ELSE CASE c.fn = "pwrite" -> {"EROFS"}
           [] c.fn = "zero" -> {"EOPNOTSUPP"}
           [] OTHER -> {"EINVAL"}

\* Mutant: a fast zero falls back to writing as well.
FallsBackAlways(c, e) == c.fn = "zero" /\ e \in NotSupported

\* plugin_zero writes zeroes when .zero does not support the request.
FallsBack(c, e) ==
    c.fn = "zero" /\ e \in NotSupported /\ "FAST_ZERO" \notin c.flags

\* The plugin's callback fails, or is missing.
CallbackFails ==
    /\ phase = "call" /\ todo # <<>>
    /\ LET c == Head(todo)
       IN  \E e \in CallbackErrors(c) :
             \/ /\ FallsBack(c, e)
                /\ loop' = [kind |-> "plugin_zero", offset |-> c.offset,
                            count |-> c.count,
                            flags |-> c.flags \ {"MAY_TRIM"},
                            need_flush |-> loop.need_flush]
                /\ todo' = <<>>
                /\ UNCHANGED <<phase, reply, crash>>
             \/ /\ ~FallsBack(c, e)
                /\ Finish(IF c.fn = "zero" /\ e \in NotSupported
                          THEN "EOPNOTSUPP" ELSE e)
                /\ UNCHANGED loop
    /\ UNCHANGED <<negotiated, req, done, stable>>

\* The worker goes on to the next request.
NextRequest ==
    /\ phase = "replied"
    /\ phase' = "ready" /\ req' = NoRequest /\ reply' = "none"
    /\ loop' = NoLoop /\ done' = {} /\ stable' = {}
    /\ UNCHANGED <<negotiated, todo, crash>>

Next ==
    \/ protocol_common_open
    \/ \E r \in RequestSet(plugin) :
          Reject(r) \/ AssertionFails(r) \/ FastZeroEmulated(r)
            \/ handle_request(r)
    \/ Iterate \/ FinalFlush \/ Succeed
    \/ CallbackSucceeds \/ CallbackFails \/ NextRequest

Spec == Init /\ [][Next]_vars

-----------------------------------------------------------------------------
\* Every variable has its type; the loop stays inside the export, and a
\* connection is served only when every question has been answered without
\* an error (the comment in protocol_common_open: "prime the cache and make
\* later request validation easier").
TypeOK ==
    /\ structured \in BOOLEAN /\ meta \in BOOLEAN
    /\ asked \in 0 .. Len(Questions)
    /\ DOMAIN caps = Caps /\ \A q \in Caps : caps[q] \in -1 .. 2
    /\ phase \in {"ask", "refused", "ready", "call", "replied", "crashed"}
    /\ loop.kind \in {"none", "backend_zero", "backend_cache", "plugin_zero"}
    /\ loop.count \in 0 .. ExportSize /\ loop.offset \in 0 .. ExportSize
    /\ loop.offset + loop.count <= ExportSize
    /\ done \subseteq 0 .. (ExportSize - 1) /\ stable \subseteq done
    /\ phase \in {"ready", "call", "replied"} =>
          \A q \in Caps : caps[q] # -1

\* No assertion of the backend_* functions fails for a request that
\* validate_request let through, whatever the plugin answered, except for
\* those about fast zeroes and about the error of .zero (FastZeroAssertion
\* and ZeroErrorAssertion below).
AssertionsHold == crash \in {"none", "can_fast_zero", "zero_error"}

\* "Note that the request fields have been validated already in
\* 'validate_request' so we don't have to check them again" (protocol.c):
\* a validated request with the fast zero flag satisfies
\* assert (c->can_fast_zero == 1) in backend_zero.
FastZeroAssertion == crash # "can_fast_zero"

\* backend_zero asserts that a zero request fails with ENOTSUP or EOPNOTSUPP
\* only if it was a fast zero.
ZeroErrorAssertion == crash # "zero_error"

Succeeded == phase = "replied" /\ reply = "SUCCESS"

\* A request answered with success has reached every byte of its range and
\* no other, through the emulation loops of backend_zero and backend_cache
\* as well as directly.
WholeRangeDone ==
    Succeeded /\ loop.kind # "plugin_zero" /\ req.cmd # "FLUSH"
      => done = Bytes(req.offset, req.count)

\* The same for the fallback of plugin_zero: ".pwrite will be used as an
\* automatic fallback" (nbdkit-plugin.pod) for the whole of the request.
FallbackZeroesAll ==
    Succeeded /\ loop.kind = "plugin_zero"
      => done = Bytes(req.offset, req.count)

\* When a request with the FUA flag is answered with success, what it wrote
\* is on stable storage, whether the plugin does FUA by itself or the server
\* emulates it with one flush after the last write.
FuaIsStable ==
    Succeeded /\ req.cmd \in Writers /\ "FUA" \in req.flags => done = stable

\* A fast zero request never turns into writes: it fails instead.
FastZeroNeverWrites ==
    "FAST_ZERO" \in req.flags =>
        \A i \in 1 .. Len(todo) : todo[i].fn # "pwrite"

\* "If omitted, then nbdkit returns true if .zero is absent or .can_zero
\* returns false" (nbdkit-plugin.pod, .can_fast_zero), for an export whose
\* zero requests are served at all.
FastZeroDefault ==
    phase = "ready" /\ plugin.can_fast_zero = NoCallback
      /\ caps["can_zero"] # NONE /\ (~plugin.zero \/ plugin.can_zero = 0)
      => caps["can_fast_zero"] = 1
=============================================================================
