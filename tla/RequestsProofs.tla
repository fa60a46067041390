--------------------------- MODULE RequestsProofs ---------------------------
(* Proofs about Requests, for every plugin, export size and request: what  *)
(* validate_request accepts satisfies the assertions of the backend, and   *)
(* the emulations of zeroes, FUA and caching do what the request asked.    *)
EXTENDS Requests, TLAPS

(***************************************************************************)
(* The strengthening: an export flag is set only after the answer it       *)
(* stands for, and answers are never asked for twice.                      *)
(***************************************************************************)
CapsInv ==
    /\ caps \in [Caps -> -1 .. 2]
    /\ plugin \in Plugins /\ plugin \in PluginType
    /\ asked \in 0 .. 9
    /\ phase = "ask" => asked < 9
    /\ "SEND_WRITE_ZEROES" \in eflags => caps["can_zero"] > NONE
    /\ "SEND_TRIM" \in eflags => caps["can_trim"] = 1
    /\ "SEND_FUA" \in eflags => caps["can_fua"] > NONE
    /\ "SEND_FLUSH" \in eflags => caps["can_flush"] = 1
    /\ "SEND_CACHE" \in eflags => caps["can_cache"] > NONE
    /\ asked = 0 => caps["can_write"] \in {-1, 0}
    /\ asked > 0 /\ phase # "refused" =>
          caps["can_write"] = 1 \/ "READ_ONLY" \in eflags
    /\ phase \in {"ready", "call", "replied"} =>
          asked > 0 /\ caps["can_extents"] >= 0
    /\ caps["can_trim"] \in -1 .. 1 /\ caps["can_flush"] \in -1 .. 1
    /\ caps["can_write"] \in -1 .. 1

\* The check of backend_valid_range is exact although it is computed modulo
\* 2^64: a range passes it iff it is not empty and lies inside the export.
THEOREM ValidRangeIsExact ==
    ASSUME NEW offset \in 0 .. (Wrap - 1), NEW count \in Nat,
           2 * count < Wrap
    PROVE  backend_valid_range(offset, count)
             <=> (count > 0 /\ offset + count <= ExportSize)
<1>1. CASE offset <= ExportSize
  <2>1. (offset + count) % Wrap = offset + count
    BY <1>1, SizeAssumption
  <2> QED BY <2>1, <1>1 DEF backend_valid_range
<1>2. CASE ~(offset <= ExportSize)
  BY <1>2, SizeAssumption DEF backend_valid_range
<1> QED BY <1>1, <1>2

LEMMA QuestionList ==
    /\ Len(Questions) = 9
    /\ Questions[1] = "can_write" /\ Questions[2] = "can_zero"
    /\ Questions[3] = "can_fast_zero" /\ Questions[4] = "can_trim"
    /\ Questions[5] = "can_fua" /\ Questions[6] = "can_flush"
    /\ Questions[7] = "advisory" /\ Questions[8] = "can_cache"
    /\ Questions[9] = "can_extents"
BY DEF Questions

LEMMA CapNames ==
    Caps = {"can_write", "can_zero", "can_fast_zero", "can_trim", "can_fua",
            "can_flush", "advisory", "can_cache", "can_extents"}
<1>1. 1 .. 9 = {1, 2, 3, 4, 5, 6, 7, 8, 9}
  OBVIOUS
<1> QED BY <1>1, QuestionList DEF Caps

LEMMA InitCaps == Init => CapsInv
BY CapNames, InputAssumption
   DEF Init, CapsInv, NONE

\* The answers have the ranges the caches expect.
LEMMA Answers ==
    ASSUME CapsInv, NEW q \in Caps
    PROVE  /\ backend_can(q) \in -1 .. 2
           /\ q \in {"can_write", "can_flush", "can_trim"} =>
                 backend_can(q) \in -1 .. 1
           /\ caps[q] # -1 => backend_can(q) = caps[q]
<1>1. caps[q] \in -1 .. 2
  BY DEF CapsInv
<1>2. /\ plugin.can_write \in -2 .. 1 /\ plugin.can_flush \in -2 .. 1
      /\ plugin.can_trim \in -2 .. 1 /\ plugin.can_extents \in -2 .. 1
      /\ plugin.advisory \in -2 .. 1 /\ plugin.can_zero \in -2 .. 1
      /\ plugin.can_fast_zero \in -2 .. 1 /\ plugin.can_fua \in -2 .. 2
      /\ plugin.can_cache \in -2 .. 2
  BY DEF CapsInv, PluginType
<1>3. \A b : \A a \in -2 .. 1 : plugin_can_bool(a, b) \in -1 .. 1
  BY DEF plugin_can_bool, normalize_bool, Bit, NoCallback
<1>4. plugin_can_zero \in -1 .. 2 /\ plugin_can_fast_zero \in -1 .. 2
  BY <1>2 DEF plugin_can_zero, plugin_can_fast_zero, normalize_bool, Bit,
              NoCallback, NATIVE, EMULATE
<1>5. plugin_can_fua \in -1 .. 2 /\ plugin_can_cache \in -1 .. 2
  BY <1>2 DEF plugin_can_fua, plugin_can_cache, NoCallback, NATIVE, EMULATE,
              NONE
<1>6. plugin_can(q) \in -1 .. 2
  <2>1. q \in {"can_write", "can_flush", "can_trim", "can_extents",
                "advisory"} => plugin_can(q) \in -1 .. 1
    BY <1>2, <1>3 DEF plugin_can
  <2>2. q \in {"can_zero", "can_fast_zero", "can_fua", "can_cache"} =>
          plugin_can(q) \in -1 .. 2
    BY <1>4, <1>5 DEF plugin_can
  <2> QED BY <2>1, <2>2, CapNames
<1>7. q \in {"can_write", "can_flush", "can_trim"} =>
        plugin_can(q) \in -1 .. 1
  BY <1>2, <1>3 DEF plugin_can
<1> QED BY <1>1, <1>6, <1>7 DEF backend_can, NONE, CapsInv

LEMMA AskCaps == CapsInv /\ protocol_common_open => CapsInv'
<1> SUFFICES ASSUME CapsInv, protocol_common_open PROVE CapsInv'
  OBVIOUS
<1> DEFINE q == Questions[asked + 1]
           fl == backend_can(q)
<1>1. asked \in 0 .. 8 /\ asked' = asked + 1
  BY DEF protocol_common_open, CapsInv
<1>2. /\ q \in Caps
      /\ asked = 0 <=> q = "can_write"
      /\ asked = 8 <=> q = "can_extents"
  BY <1>1, QuestionList, CapNames
<1>3. /\ caps' = [caps EXCEPT ![q] = fl]
      /\ eflags' = IF fl = -1 THEN eflags ELSE eflags \cup EflagOf(q, fl)
      /\ phase' = IF fl = -1 THEN "refused"
                  ELSE IF asked + 1 = 9 THEN "ready" ELSE "ask"
      /\ phase = "ask" /\ plugin' = plugin
  BY QuestionList DEF protocol_common_open
<1>4. /\ fl \in -1 .. 2
      /\ q \in {"can_write", "can_flush", "can_trim"} => fl \in -1 .. 1
      /\ caps[q] # -1 => fl = caps[q]
  BY <1>2, Answers
<1> HIDE DEF q, fl
<1>5. caps' \in [Caps -> -1 .. 2] /\ plugin' \in Plugins /\ plugin' \in PluginType
  BY <1>3, <1>4, <1>2 DEF CapsInv
<1>6. /\ asked' \in 0 .. 9 /\ asked' > 0
      /\ phase' = "ask" => asked' < 9
      /\ phase' = "ready" => q = "can_extents"
  BY <1>1, <1>2, <1>3
<1>7. \A p \in Caps : caps'[p] = IF p = q THEN fl ELSE caps[p]
  BY <1>2, <1>3 DEF CapsInv
<1>8. \A x : x \in eflags' /\ x \notin eflags => fl # -1 /\ x \in EflagOf(q, fl)
  BY <1>3
<1>9. /\ "SEND_WRITE_ZEROES" \in eflags' => caps'["can_zero"] > NONE
      /\ "SEND_FUA" \in eflags' => caps'["can_fua"] > NONE
      /\ "SEND_CACHE" \in eflags' => caps'["can_cache"] > NONE
  BY <1>4, <1>7, <1>8, CapNames DEF CapsInv, EflagOf, NONE
<1>10. /\ "SEND_TRIM" \in eflags' => caps'["can_trim"] = 1
       /\ "SEND_FLUSH" \in eflags' => caps'["can_flush"] = 1
  BY <1>4, <1>7, <1>8, CapNames DEF CapsInv, EflagOf
<1>11. phase' # "refused" => caps'["can_write"] = 1 \/ "READ_ONLY" \in eflags'
  <2>1. CASE q = "can_write"
    BY <2>1, <1>3, <1>4, <1>7, CapNames DEF EflagOf
  <2>2. CASE q # "can_write"
    BY <2>2, <1>1, <1>2, <1>3, <1>7, CapNames DEF CapsInv
  <2> QED BY <2>1, <2>2
<1>12. phase' \in {"ready", "call", "replied"} => caps'["can_extents"] >= 0
  BY <1>3, <1>4, <1>6, <1>7, CapNames
<1>13. /\ caps'["can_trim"] \in -1 .. 1 /\ caps'["can_flush"] \in -1 .. 1
       /\ caps'["can_write"] \in -1 .. 1
  BY <1>4, <1>7, CapNames DEF CapsInv
<1> QED BY <1>5, <1>6, <1>9, <1>10, <1>11, <1>12, <1>13 DEF CapsInv

\* Serving requests changes none of what was negotiated.
LEMMA ServeCaps ==
    ASSUME CapsInv, UNCHANGED negotiated,
           phase \in {"ready", "call", "replied"},
           phase' \in {"ready", "call", "replied", "crashed"}
    PROVE  CapsInv'
BY DEF CapsInv, negotiated

\* A valid request satisfies every assertion but the one about fast zeroes.
LEMMA ValidatedAssertions ==
    ASSUME CapsInv, phase = "ready", NEW r \in RequestType,
           validate_request(r) = "OK", NEW a \in Assertions(r)
    PROVE  a = "can_fast_zero"
<1>1. /\ ~ReadOnly(r) /\ ~BadRange(r) /\ ~BadFlags(r) /\ ~NotAllowed(r)
  BY DEF validate_request
<1>2. caps["can_write"] = 1 \/ "READ_ONLY" \in eflags
  BY DEF CapsInv
<1>3. r.cmd \in Ranged => backend_valid_range(r.offset, r.count)
  BY <1>1 DEF BadRange
<1>4. r.cmd \in Writers => caps["can_write"] = 1
  BY <1>1, <1>2 DEF ReadOnly
<1>5. "FUA" \in handle_request_flags(r) => caps["can_fua"] > NONE
  BY <1>1 DEF BadFlags, handle_request_flags, CapsInv
<1>6. /\ r.cmd = "TRIM" => caps["can_trim"] = 1
      /\ r.cmd = "WRITE_ZEROES" => caps["can_zero"] > NONE
      /\ r.cmd = "FLUSH" => caps["can_flush"] = 1
      /\ r.cmd = "CACHE" => caps["can_cache"] > NONE
  BY <1>1 DEF NotAllowed, CapsInv
<1>7. r.cmd = "BLOCK_STATUS" => caps["can_extents"] >= 0
  BY DEF CapsInv
<1> QED BY <1>3, <1>4, <1>5, <1>6, <1>7 DEF Assertions

\* The invariant: what was negotiated, and the only assertions that can fail.
IndInv == CapsInv /\ AssertionsHold

LEMMA StepInv == IndInv /\ [Next]_vars => IndInv'
<1> SUFFICES ASSUME IndInv, [Next]_vars PROVE IndInv'
  OBVIOUS
<1>1. CASE protocol_common_open
  <2>1. crash' = crash
    BY <1>1 DEF protocol_common_open
  <2> QED BY <2>1, <1>1, AskCaps DEF IndInv, AssertionsHold
<1>2. ASSUME NEW r \in RequestSet(plugin),
             Reject(r) \/ FastZeroEmulated(r) \/ handle_request(r)
      PROVE  IndInv'
  <2>1. /\ phase = "ready" /\ phase' \in {"call", "replied"}
        /\ UNCHANGED negotiated /\ crash' = crash
    BY <1>2 DEF Reject, FastZeroEmulated, handle_request, Receive
  <2> QED BY <2>1, ServeCaps DEF IndInv, AssertionsHold
<1>3. ASSUME NEW r \in RequestSet(plugin), AssertionFails(r) PROVE IndInv'
  <2>1. /\ phase = "ready" /\ phase' = "crashed" /\ UNCHANGED negotiated
        /\ validate_request(r) = "OK" /\ crash' \in Assertions(r)
    BY <1>3 DEF AssertionFails, Receive
  <2>2. r \in RequestType
    BY InputAssumption DEF IndInv, CapsInv
  <2>3. crash' = "can_fast_zero"
    BY <2>1, <2>2, ValidatedAssertions DEF IndInv
  <2> QED BY <2>1, <2>3, ServeCaps DEF IndInv, AssertionsHold
<1>4. CASE Iterate \/ FinalFlush \/ CallbackSucceeds
  <2>1. /\ phase = "call" /\ phase' = phase
        /\ UNCHANGED negotiated /\ crash' = crash
    BY <1>4 DEF Iterate, FinalFlush, CallbackSucceeds
  <2> QED BY <2>1, ServeCaps DEF IndInv, AssertionsHold
<1>5. CASE Succeed \/ CallbackFails
  <2>1. phase = "call" /\ UNCHANGED negotiated
    BY <1>5 DEF Succeed, CallbackFails
  <2>2. phase' \in {"call", "replied", "crashed"}
    BY <1>5, <2>1 DEF Succeed, CallbackFails, Finish
  <2>3. crash' \in {crash, "zero_error"}
    BY <1>5 DEF Succeed, CallbackFails, Finish
  <2> QED BY <2>1, <2>2, <2>3, ServeCaps DEF IndInv, AssertionsHold
<1>6. CASE NextRequest
  <2>1. /\ phase = "replied" /\ phase' = "ready"
        /\ UNCHANGED negotiated /\ crash' = crash
    BY <1>6 DEF NextRequest
  <2> QED BY <2>1, ServeCaps DEF IndInv, AssertionsHold
<1>7. CASE UNCHANGED vars
  BY <1>7 DEF vars, IndInv, CapsInv, AssertionsHold
<1> QED BY <1>1, <1>2, <1>3, <1>4, <1>5, <1>6, <1>7 DEF Next

\* For every plugin, export and request: no assertion at the head of a
\* backend_* function fails for a request validate_request accepted, apart
\* from the one about fast zeroes.
THEOREM RequestsSatisfyAssertions == Spec => []AssertionsHold
<1>1. Init => IndInv
  BY InitCaps DEF IndInv, Init, AssertionsHold
<1>2. IndInv => AssertionsHold
  BY DEF IndInv
<1> QED BY <1>1, <1>2, StepInv, PTL DEF Spec

-----------------------------------------------------------------------------
(***************************************************************************)
(* What a request that is being served has done, and what is left of it.   *)
(***************************************************************************)

\* What the callbacks of a request still have to reach.
Reach(calls) == UNION {Bytes(calls[i].offset, calls[i].count) : i \in 1 .. Len(calls)}
FlushCall == Call("flush", 0, 0, {})
Fua == req.cmd \in Writers /\ "FUA" \in req.flags
Fast == "FAST_ZERO" \in req.flags
Loops == {"none", "backend_zero", "backend_cache", "plugin_zero"}
Fns == {"pread", "pwrite", "trim", "zero", "flush", "extents", "cache"}

IsCall(c) ==
    /\ c.fn \in Fns /\ c.offset \in Nat /\ c.count \in Nat
    /\ c.fn = "flush" => c.count = 0

\* A function of the backend has at most two callbacks to make, and the
\* second is a flush; .zero comes alone and before any loop.
Shape ==
    \/ todo = <<>>
    \/ \E c : /\ IsCall(c) /\ todo = <<c>>
              /\ c.fn = "zero" => loop.kind = "none" /\ req.cmd = "WRITE_ZEROES"
    \/ \E c : IsCall(c) /\ todo = <<c, FlushCall>> /\ c.fn # "zero"

\* A loop starts where nothing is done and advances over the range.
LoopInv ==
    /\ loop.kind \in Loops /\ loop.offset \in Nat /\ loop.count \in Nat
    /\ DOMAIN loop = DOMAIN NoLoop
    /\ loop.kind = "none" => loop.count = 0
    /\ loop.kind = "backend_cache" => req.cmd = "CACHE"

RangeInv ==
    loop.kind # "plugin_zero" /\ req.cmd # "FLUSH" =>
        done \cup Reach(todo) \cup Bytes(loop.offset, loop.count)
          = Bytes(req.offset, req.count)

\* Native FUA: everything is done with the flag.
NativeInv ==
    /\ stable = done /\ ~loop.need_flush
    /\ \A i \in 1 .. Len(todo) : "FUA" \in todo[i].flags
    /\ loop.kind # "none" => "FUA" \in loop.flags

\* Emulated FUA: a flush comes after everything else.
EmulateInv ==
    \/ loop.kind = "backend_zero" /\ loop.need_flush /\ loop.count > 0
    \/ loop.kind # "backend_zero" /\ loop.need_flush
    \/ todo # <<>> /\ todo[Len(todo)].fn = "flush" /\ loop.count = 0
    \/ todo = <<>> /\ loop.count = 0 /\ done = stable

FuaInv ==
    Fua => \/ caps["can_fua"] = NATIVE /\ NativeInv
           \/ caps["can_fua"] = EMULATE /\ EmulateInv

FastInv ==
    Fast => /\ loop.kind = "none"
            /\ \A i \in 1 .. Len(todo) :
                  /\ todo[i].fn # "pwrite"
                  /\ todo[i].fn = "zero" => "FAST_ZERO" \in todo[i].flags

ServeInv ==
    /\ phase # "call" => todo = <<>>
    /\ phase = "call" =>
          /\ req.offset \in Nat /\ req.count \in Nat
          /\ Shape /\ LoopInv /\ RangeInv /\ FuaInv /\ FastInv
    /\ WholeRangeDone /\ FuaIsStable

LEMMA CallFields ==
    \A fn, o, n, fl : /\ Call(fn, o, n, fl).fn = fn /\ Call(fn, o, n, fl).offset = o
                      /\ Call(fn, o, n, fl).count = n /\ Call(fn, o, n, fl).flags = fl
BY DEF Call

LEMMA FlushFields == IsCall(FlushCall) /\ FlushCall.fn = "flush" /\ FlushCall.count = 0
                     /\ FlushCall.offset = 0
BY CallFields DEF FlushCall, IsCall, Fns

LEMMA ReachOf ==
    /\ Reach(<<>>) = {}
    /\ \A c : Reach(<<c>>) = Bytes(c.offset, c.count)
    /\ \A c : Reach(<<c, FlushCall>>) = Bytes(c.offset, c.count)
<1>1. Reach(<<>>) = {}
  BY DEF Reach
<1>2. ASSUME NEW c PROVE Reach(<<c>>) = Bytes(c.offset, c.count)
  BY DEF Reach
<1>3. ASSUME NEW c PROVE Reach(<<c, FlushCall>>) = Bytes(c.offset, c.count)
  <2>1. Bytes(FlushCall.offset, FlushCall.count) = {}
    BY FlushFields DEF Bytes
  <2>2. 1 .. Len(<<c, FlushCall>>) = {1, 2}
    OBVIOUS
  <2>3. <<c, FlushCall>>[1] = c /\ <<c, FlushCall>>[2] = FlushCall
    OBVIOUS
  <2> HIDE DEF FlushCall
  <2> QED BY <2>1, <2>2, <2>3 DEF Reach
<1> QED BY <1>1, <1>2, <1>3

\* What a function of the plugin layer that emulates FUA has to call.
FuaCalls(calls, fn, o, n, fl) ==
    /\ \E c : IsCall(c) /\ c.fn = fn /\ (calls = <<c>> \/ calls = <<c, FlushCall>>)
    /\ Reach(calls) = Bytes(o, n)
    /\ "FUA" \in fl /\ caps["can_fua"] = NATIVE =>
          \A i \in 1 .. Len(calls) : "FUA" \in calls[i].flags
    /\ "FUA" \in fl /\ caps["can_fua"] # NATIVE =>
          calls # <<>> /\ calls[Len(calls)].fn = "flush"

LEMMA WithFuaCalls ==
    ASSUME NEW fn \in Fns \ {"zero", "flush"}, NEW o \in Nat, NEW n \in Nat, NEW fl
    PROVE  FuaCalls(WithFua(fn, o, n, fl), fn, o, n, fl)
<1> DEFINE calls == WithFua(fn, o, n, fl)
<1>1. CASE "FUA" \in fl /\ caps["can_fua"] # NATIVE
  <2>1. PICK c : c = Call(fn, o, n, fl \ {"FUA"})
    OBVIOUS
  <2>2. calls = <<c, FlushCall>>
    BY <1>1, <2>1 DEF WithFua, FlushCall
  <2>3. c.fn = fn /\ c.offset = o /\ c.count = n
    BY <2>1, CallFields
  <2>4. Len(calls) = 2 /\ calls[1] = c /\ calls[2] = FlushCall /\ calls # <<>>
    BY <2>2
  <2>5. IsCall(c)
    BY <2>3 DEF IsCall
  <2>6. Reach(calls) = Bytes(o, n)
    BY <2>2, <2>3, ReachOf
  <2> HIDE DEF calls
  <2>7. FuaCalls(calls, fn, o, n, fl)
    BY <1>1, <2>2, <2>3, <2>4, <2>5, <2>6, FlushFields DEF FuaCalls
  <2> QED BY <2>7 DEF calls
<1>2. CASE ~("FUA" \in fl /\ caps["can_fua"] # NATIVE)
  <2>1. PICK c : c = Call(fn, o, n, fl)
    OBVIOUS
  <2>2. calls = <<c>>
    BY <1>2, <2>1 DEF WithFua
  <2>3. c.fn = fn /\ c.offset = o /\ c.count = n /\ c.flags = fl
    BY <2>1, CallFields
  <2>4. Len(calls) = 1 /\ calls[1] = c
    BY <2>2
  <2>5. IsCall(c)
    BY <2>3 DEF IsCall
  <2>6. Reach(calls) = Bytes(o, n)
    BY <2>2, <2>3, ReachOf
  <2> HIDE DEF calls
  <2>7. FuaCalls(calls, fn, o, n, fl)
    BY <1>2, <2>2, <2>3, <2>4, <2>5, <2>6 DEF FuaCalls
  <2> QED BY <2>7 DEF calls
<1> QED BY <1>1, <1>2

\* The replies that are not success.
LEMMA ErrorReplies ==
    ASSUME NEW e, e # "OK", NEW flags PROVE nbd_errno(e, flags) # "SUCCESS"
BY DEF nbd_errno, NotSupported

LEMMA EmptyBytes == \A o \in Nat : Bytes(o, 0) = {}
BY DEF Bytes

LEMMA SplitBytes ==
    ASSUME NEW o \in Nat, NEW n \in Nat, NEW m \in Nat, m <= n
    PROVE  Bytes(o, n) = Bytes(o, m) \cup Bytes(o + m, n - m)
BY DEF Bytes

\* What NoLoop and a loop that starts look like.
LEMMA LoopFields ==
    /\ DOMAIN NoLoop = {"kind", "offset", "count", "flags", "need_flush"}
    /\ NoLoop.kind = "none" /\ NoLoop.offset = 0 /\ NoLoop.count = 0 /\ ~NoLoop.need_flush
BY Zenon DEF NoLoop

\* A request that validates, as the callbacks see it.
LEMMA Validated ==
    ASSUME CapsInv, NEW r \in RequestType, validate_request(r) = "OK",
           NEW f, f = handle_request_flags(r)
    PROVE  /\ r.offset \in Nat /\ r.count \in Nat
           /\ r.cmd \in Ranged => r.count > 0
           /\ r.cmd \in Ranged \cup {"FLUSH"}
           /\ r.cmd \in Writers /\ "FUA" \in r.flags =>
                 "FUA" \in f /\ caps["can_fua"] \in {EMULATE, NATIVE}
           /\ "FAST_ZERO" \in r.flags => r.cmd = "WRITE_ZEROES" /\ "FAST_ZERO" \in f
<1>1. ~BadRange(r) /\ ~BadFlags(r)
  BY DEF validate_request
<1>2. r.offset \in Nat /\ r.count \in Nat /\ r.cmd \in Commands
  BY SizeAssumption DEF RequestType
<1>3. r.cmd \in Ranged => r.count > 0
  BY <1>1 DEF BadRange, backend_valid_range
<1>4. r.cmd # "unknown"
  BY <1>1 DEF BadRange
<1>5. "FUA" \in r.flags => caps["can_fua"] \in {EMULATE, NATIVE}
  BY <1>1, CapNames DEF BadFlags, CapsInv, NONE, EMULATE, NATIVE
<1>6. r.cmd \in Writers /\ "FUA" \in r.flags => "FUA" \in f
  BY DEF handle_request_flags
<1>7. "FAST_ZERO" \in r.flags => r.cmd = "WRITE_ZEROES"
  BY <1>1 DEF BadFlags
<1>8. "FAST_ZERO" \in r.flags => "FAST_ZERO" \in f
  BY <1>7 DEF handle_request_flags
<1> QED BY <1>2, <1>3, <1>4, <1>5, <1>6, <1>7, <1>8 DEF Commands

\* handle_request starts what the invariant says.
LEMMA Serve_Handle ==
    ASSUME CapsInv, NEW r \in RequestType, handle_request(r)
    PROVE  ServeInv'
<1> DEFINE f == handle_request_flags(r)
           no_extents == r.cmd = "BLOCK_STATUS" /\ caps["can_extents"] = 0
<1>1. /\ validate_request(r) = "OK" /\ req' = r /\ stable' = {} /\ caps' = caps
      /\ phase' = "call" /\ done' = IF no_extents THEN Bytes(r.offset, r.count) ELSE {}
  BY DEF handle_request, Receive, negotiated
<1>2. PICK g : g = f
  OBVIOUS
<1>3. /\ r.offset \in Nat /\ r.count \in Nat
      /\ r.cmd \in Ranged => r.count > 0
      /\ r.cmd \in Ranged \cup {"FLUSH"}
      /\ r.cmd \in Writers /\ "FUA" \in r.flags =>
            "FUA" \in g /\ caps["can_fua"] \in {EMULATE, NATIVE}
      /\ "FAST_ZERO" \in r.flags => r.cmd = "WRITE_ZEROES" /\ "FAST_ZERO" \in g
  BY <1>1, <1>2, Validated
<1>4. \/ r.cmd = "WRITE_ZEROES" /\ plugin_zero(r, g)
      \/ r.cmd = "WRITE_ZEROES" /\ "FAST_ZERO" \notin g /\ EmulateZero(r, g)
      \/ r.cmd = "CACHE" /\ backend_cache(r)
      \/ no_extents /\ todo' = <<>> /\ loop' = NoLoop
      \/ r.cmd \notin {"WRITE_ZEROES", "CACHE"} /\ ~no_extents /\ Direct(r, g)
  BY <1>2 DEF handle_request
<1> HIDE DEF f
<1>5. ASSUME Shape', LoopInv', RangeInv', FuaInv', FastInv' PROVE ServeInv'
  BY <1>1, <1>3, <1>5 DEF ServeInv, WholeRangeDone, FuaIsStable, Succeeded
<1>6. Bytes(0, 0) = {}
  BY EmptyBytes
<1>7. CASE r.cmd = "WRITE_ZEROES" /\ plugin_zero(r, g)
  <2>1. PICK c : c = Call("zero", r.offset, r.count,
                          IF caps["can_fua"] = NATIVE THEN g ELSE g \ {"FUA"})
    OBVIOUS
  <2>2. todo' = <<c>> /\ done' = {}
    BY <1>1, <1>7, <2>1 DEF plugin_zero
  <2>3. c.fn = "zero" /\ c.offset = r.offset /\ c.count = r.count
        /\ c.flags = IF caps["can_fua"] = NATIVE THEN g ELSE g \ {"FUA"}
    BY <2>1, CallFields
  <2>4. loop'.kind = "none" /\ loop'.offset = 0 /\ loop'.count = 0
        /\ DOMAIN loop' = DOMAIN NoLoop
    BY <1>7 DEF plugin_zero, NoLoop
  <2>5. loop'.need_flush <=> "FUA" \in g /\ caps["can_fua"] # NATIVE
    BY <1>7, Zenon DEF plugin_zero, NoLoop
  <2>6. Len(todo') = 1 /\ todo'[1] = c
    BY <2>2
  <2>7. Shape'
    BY <1>1, <1>3, <1>7, <2>2, <2>3, <2>4 DEF Shape, IsCall, Fns
  <2>8. LoopInv'
    BY <2>4 DEF LoopInv, Loops
  <2>9. RangeInv'
    BY <1>1, <1>6, <2>2, <2>3, <2>4, ReachOf DEF RangeInv
  <2>10. FuaInv'
    BY <1>1, <1>3, <2>2, <2>3, <2>4, <2>5, <2>6
       DEF FuaInv, Fua, NativeInv, EmulateInv, NATIVE, EMULATE
  <2>11. FastInv'
    BY <1>1, <1>3, <2>3, <2>4, <2>6 DEF FastInv, Fast
  <2> QED BY <1>5, <2>7, <2>8, <2>9, <2>10, <2>11
<1>8. CASE r.cmd = "WRITE_ZEROES" /\ "FAST_ZERO" \notin g /\ EmulateZero(r, g)
  <2>1. todo' = <<>> /\ done' = {} /\ r.count > 0
    BY <1>1, <1>3, <1>8 DEF EmulateZero, Ranged
  <2>2. /\ loop'.kind = "backend_zero" /\ loop'.offset = r.offset
        /\ loop'.count = r.count /\ DOMAIN loop' = DOMAIN NoLoop
        /\ loop'.flags = IF caps["can_fua"] = NATIVE THEN g \cap {"FUA"} ELSE {}
    BY <1>8 DEF EmulateZero, NoLoop
  <2>3. loop'.need_flush <=> "FUA" \in g /\ caps["can_fua"] = EMULATE
    BY <1>8, Zenon DEF EmulateZero
  <2>4. Shape' /\ LoopInv'
    BY <1>3, <2>1, <2>2 DEF Shape, LoopInv, Loops
  <2>5. RangeInv'
    BY <1>1, <2>1, <2>2, ReachOf DEF RangeInv
  <2>6. FuaInv'
    BY <1>1, <1>3, <2>1, <2>2, <2>3
       DEF FuaInv, Fua, NativeInv, EmulateInv, NATIVE, EMULATE
  <2>7. FastInv'
    BY <1>1, <1>3, <1>8 DEF FastInv, Fast
  <2> QED BY <1>5, <2>4, <2>5, <2>6, <2>7
<1>9. ~(r.cmd = "WRITE_ZEROES") => FastInv'
  BY <1>1, <1>3 DEF FastInv, Fast
<1>10. r.cmd \notin Writers => FuaInv'
  BY <1>1 DEF FuaInv, Fua
<1>11. CASE r.cmd = "CACHE" /\ backend_cache(r)
  <2>1. CASE caps["can_cache"] = EMULATE
    <3>1. todo' = <<>> /\ done' = {}
      BY <1>1, <1>11, <2>1 DEF backend_cache
    <3>2. /\ loop'.kind = "backend_cache" /\ loop'.offset = r.offset
          /\ loop'.count = r.count /\ DOMAIN loop' = DOMAIN NoLoop
      BY <1>11, <2>1 DEF backend_cache, NoLoop
    <3>3. Shape' /\ LoopInv'
      BY <1>1, <1>3, <1>11, <3>1, <3>2 DEF Shape, LoopInv, Loops
    <3>4. RangeInv'
      BY <1>1, <3>1, <3>2, ReachOf DEF RangeInv
    <3> QED BY <1>5, <1>9, <1>10, <1>11, <3>3, <3>4 DEF Writers
  <2>2. CASE caps["can_cache"] # EMULATE
    <3>1. PICK c : c = Call("cache", r.offset, r.count, {})
      OBVIOUS
    <3>2. todo' = <<c>> /\ loop' = NoLoop /\ done' = {}
      BY <1>1, <1>11, <2>2, <3>1 DEF backend_cache
    <3>3. c.fn = "cache" /\ c.offset = r.offset /\ c.count = r.count
      BY <3>1, CallFields
    <3>4. Shape' /\ LoopInv'
      BY <1>3, <3>2, <3>3, LoopFields DEF Shape, LoopInv, Loops, IsCall, Fns
    <3>5. RangeInv'
      BY <1>1, <1>6, <3>2, <3>3, ReachOf, LoopFields DEF RangeInv
    <3> QED BY <1>5, <1>9, <1>10, <1>11, <3>4, <3>5 DEF Writers
  <2> QED BY <2>1, <2>2
<1>12. CASE no_extents /\ todo' = <<>> /\ loop' = NoLoop
  <2>1. done' = Bytes(r.offset, r.count)
    BY <1>1, <1>12
  <2>2. Shape' /\ LoopInv'
    BY <1>12, LoopFields DEF Shape, LoopInv, Loops
  <2>3. RangeInv'
    BY <1>1, <1>6, <1>12, <2>1, ReachOf, LoopFields DEF RangeInv
  <2> QED BY <1>5, <1>9, <1>10, <1>12, <2>2, <2>3 DEF Writers
<1>13. CASE r.cmd \notin {"WRITE_ZEROES", "CACHE"} /\ ~no_extents /\ Direct(r, g)
  <2>1. loop' = NoLoop /\ done' = {} /\ LoopInv'
    BY <1>1, <1>13, LoopFields DEF Direct, LoopInv, Loops
  <2>2. ASSUME NEW fn \in {"pwrite", "trim"}, r.cmd \in {"WRITE", "TRIM"},
               todo' = WithFua(fn, r.offset, r.count, g)
        PROVE  ServeInv'
    <3>0. fn \in Fns \ {"zero", "flush"}
      BY DEF Fns
    <3>2. FuaCalls(todo', fn, r.offset, r.count, g)
      BY <1>3, <2>2, <3>0, WithFuaCalls
    <3>3. Shape'
      BY <3>2, <2>2 DEF Shape, FuaCalls
    <3>4. RangeInv'
      BY <1>1, <1>6, <2>1, <3>2, LoopFields DEF RangeInv, FuaCalls
    <3>5. FuaInv'
      BY <1>1, <1>3, <2>1, <3>2, LoopFields
         DEF FuaCalls, FuaInv, Fua, NativeInv, EmulateInv, NATIVE, EMULATE
    <3> QED BY <1>5, <1>9, <1>13, <2>1, <3>3, <3>4, <3>5
  <2>3. ASSUME NEW fn \in {"pread", "extents"}, NEW fl, r.cmd \in {"READ", "BLOCK_STATUS"},
               todo' = <<Call(fn, r.offset, r.count, fl)>>
        PROVE  ServeInv'
    <3>1. PICK c : c = Call(fn, r.offset, r.count, fl)
      OBVIOUS
    <3>2. todo' = <<c>> /\ c.fn = fn /\ c.offset = r.offset /\ c.count = r.count
      BY <2>3, <3>1, CallFields
    <3>3. Shape'
      BY <1>3, <3>2 DEF Shape, IsCall, Fns
    <3>4. RangeInv'
      BY <1>1, <1>6, <2>1, <3>2, ReachOf, LoopFields DEF RangeInv
    <3> QED BY <1>5, <1>9, <1>10, <1>13, <2>1, <2>3, <3>3, <3>4 DEF Writers
  <2>4. CASE r.cmd = "FLUSH" /\ todo' = <<FlushCall>>
    <3>1. Shape'
      BY <2>4, FlushFields DEF Shape
    <3>2. RangeInv'
      BY <1>1, <2>4 DEF RangeInv
    <3> QED BY <1>5, <1>9, <1>10, <1>13, <2>1, <2>4, <3>1, <3>2 DEF Writers
  <2>5. r.cmd \in {"READ", "WRITE", "TRIM", "FLUSH", "BLOCK_STATUS"}
    BY <1>3, <1>13 DEF Ranged
  <2>6. /\ r.cmd = "READ" => todo' = <<Call("pread", r.offset, r.count, {})>>
        /\ r.cmd = "WRITE" => todo' = WithFua("pwrite", r.offset, r.count, g)
        /\ r.cmd = "TRIM" => todo' = WithFua("trim", r.offset, r.count, g)
        /\ r.cmd = "FLUSH" => todo' = <<FlushCall>>
        /\ r.cmd = "BLOCK_STATUS" => todo' = <<Call("extents", r.offset, r.count, g)>>
    BY <1>13 DEF Direct, FlushCall
  <2> QED BY <2>2, <2>3, <2>4, <2>5, <2>6
<1> QED BY <1>4, <1>7, <1>8, <1>11, <1>12, <1>13

\* An iteration of a loop: a piece of what is left is called for.
LEMMA Serve_Iterate == ASSUME ServeInv, Iterate PROVE ServeInv'
<1> DEFINE limit == MIN(loop.count, MaxRequest)
<1>1. /\ phase = "call" /\ todo = <<>> /\ loop.count > 0 /\ caps' = caps
      /\ UNCHANGED <<phase, req, done, stable, reply>>
  BY DEF Iterate, negotiated
<1>2. /\ req.offset \in Nat /\ req.count \in Nat
      /\ Shape /\ LoopInv /\ RangeInv /\ FuaInv /\ FastInv
  BY <1>1 DEF ServeInv
<1>3. /\ loop.kind \in {"backend_zero", "backend_cache", "plugin_zero"}
      /\ loop.offset \in Nat /\ loop.count \in Nat
      /\ loop.kind = "backend_cache" => req.cmd = "CACHE"
  BY <1>1, <1>2 DEF LoopInv, Loops
<1>4. limit \in Nat /\ 0 < limit /\ limit <= loop.count
  BY <1>1, <1>3, SizeAssumption DEF MIN
<1>5. loop' = [loop EXCEPT !.offset = IF loop.kind = "plugin_zero"
                                      THEN loop.offset ELSE loop.offset + limit,
                           !.count = loop.count - limit]
  BY DEF Iterate
<1>6. PICK fl : fl = IF loop.kind = "backend_zero" THEN LastFlags(limit) ELSE loop.flags
  OBVIOUS
<1>7. /\ loop.kind = "backend_cache" =>
            todo' = <<Call("pread", loop.offset, limit, {})>>
      /\ loop.kind # "backend_cache" =>
            todo' = WithFua("pwrite", loop.offset, limit, fl)
  BY <1>3, <1>6 DEF Iterate
<1> HIDE DEF limit
<1>8. /\ loop'.kind = loop.kind /\ loop'.flags = loop.flags
      /\ loop'.need_flush = loop.need_flush /\ DOMAIN loop' = DOMAIN NoLoop
      /\ loop'.count = loop.count - limit
      /\ loop'.offset = IF loop.kind = "plugin_zero" THEN loop.offset ELSE loop.offset + limit
  BY <1>2, <1>5, LoopFields DEF LoopInv
<1>9. LoopInv'
  BY <1>1, <1>3, <1>4, <1>8, LoopFields DEF LoopInv, Loops
<1>10. /\ \E c : IsCall(c) /\ c.fn # "zero" /\ (todo' = <<c>> \/ todo' = <<c, FlushCall>>)
       /\ Reach(todo') = Bytes(loop.offset, limit)
       /\ loop.kind # "backend_cache" /\ "FUA" \in fl /\ caps["can_fua"] = NATIVE =>
             \A i \in 1 .. Len(todo') : "FUA" \in todo'[i].flags
       /\ loop.kind # "backend_cache" /\ "FUA" \in fl /\ caps["can_fua"] # NATIVE =>
             todo' # <<>> /\ todo'[Len(todo')].fn = "flush"
  <2>1. CASE loop.kind = "backend_cache"
    <3>1. PICK c : c = Call("pread", loop.offset, limit, {})
      OBVIOUS
    <3>2. todo' = <<c>> /\ c.fn = "pread" /\ c.offset = loop.offset /\ c.count = limit
      BY <1>7, <2>1, <3>1, CallFields
    <3>3. IsCall(c)
      BY <1>3, <1>4, <3>2 DEF IsCall, Fns
    <3> QED BY <2>1, <3>2, <3>3, ReachOf
  <2>2. CASE loop.kind # "backend_cache"
    <3>1. /\ loop.offset \in Nat /\ limit \in Nat /\ "pwrite" \in Fns \ {"zero", "flush"}
          /\ todo' = WithFua("pwrite", loop.offset, limit, fl)
      BY <1>3, <1>4, <1>7, <2>2 DEF Fns
    <3>2. FuaCalls(todo', "pwrite", loop.offset, limit, fl)
      BY <3>1, WithFuaCalls
    <3> QED BY <3>2 DEF FuaCalls
  <2> QED BY <2>1, <2>2
<1>11. Shape'
  BY <1>10 DEF Shape
<1>12. RangeInv'
  <2>1. CASE loop.kind # "plugin_zero" /\ req.cmd # "FLUSH"
    <3>1. done \cup Bytes(loop.offset, loop.count) = Bytes(req.offset, req.count)
      BY <1>1, <1>2, <2>1, ReachOf DEF RangeInv
    <3>2. Bytes(loop.offset, loop.count)
            = Bytes(loop.offset, limit) \cup Bytes(loop.offset + limit, loop.count - limit)
      BY <1>3, <1>4, SplitBytes
    <3>3. Bytes(loop'.offset, loop'.count) = Bytes(loop.offset + limit, loop.count - limit)
      BY <1>8, <2>1
    <3> QED BY <1>1, <1>10, <3>1, <3>2, <3>3 DEF RangeInv
  <2>2. CASE ~(loop.kind # "plugin_zero" /\ req.cmd # "FLUSH")
    BY <1>1, <1>8, <2>2 DEF RangeInv
  <2> QED BY <2>1, <2>2
<1>13. FuaInv'
  <2> SUFFICES ASSUME Fua PROVE FuaInv'
    BY <1>1 DEF FuaInv, Fua
  <2>1. loop.kind # "backend_cache"
    BY <1>3 DEF Fua, Writers
  <2>2. CASE caps["can_fua"] = NATIVE /\ NativeInv
    <3>1. ~loop.need_flush /\ "FUA" \in loop.flags /\ stable = done
      BY <1>3, <2>2 DEF NativeInv
    <3>2. "FUA" \in fl
      BY <1>6, <3>1 DEF LastFlags
    <3>3. \A i \in 1 .. Len(todo') : "FUA" \in todo'[i].flags
      BY <1>10, <2>1, <2>2, <3>2
    <3> QED BY <1>1, <1>8, <2>2, <3>1, <3>3 DEF FuaInv, NativeInv
  <2>3. CASE caps["can_fua"] = EMULATE /\ EmulateInv
    <3>1. loop.need_flush
      BY <1>1, <2>3 DEF EmulateInv
    <3>2. CASE loop.kind = "backend_zero" /\ limit = loop.count
      <4>1. "FUA" \in fl
        BY <1>6, <3>1, <3>2 DEF LastFlags
      <4>2. todo' # <<>> /\ todo'[Len(todo')].fn = "flush"
        BY <1>10, <2>1, <2>3, <4>1 DEF EMULATE, NATIVE
      <4> QED BY <1>1, <1>3, <1>8, <2>3, <3>2, <4>2 DEF FuaInv, EmulateInv
    <3>3. CASE loop.kind = "backend_zero" /\ limit # loop.count
      <4>1. loop.count - limit > 0
        BY <1>3, <1>4, <3>3
      <4> QED BY <1>1, <1>8, <2>3, <3>1, <3>3, <4>1 DEF FuaInv, EmulateInv
    <3>4. CASE loop.kind # "backend_zero"
      BY <1>1, <1>8, <2>3, <3>1, <3>4 DEF FuaInv, EmulateInv
    <3> QED BY <3>2, <3>3, <3>4
  <2> QED BY <1>2, <2>2, <2>3 DEF FuaInv
<1>14. FastInv'
  BY <1>1, <1>2, <1>3 DEF FastInv, Fast
<1> QED BY <1>1, <1>2, <1>9, <1>11, <1>12, <1>13, <1>14
        DEF ServeInv, WholeRangeDone, FuaIsStable, Succeeded

\* The flush at the end of plugin_zero.
LEMMA Serve_Flush == ASSUME ServeInv, FinalFlush PROVE ServeInv'
<1>1. /\ phase = "call" /\ todo = <<>> /\ loop.count = 0 /\ caps' = caps
      /\ loop.need_flush /\ todo' = <<FlushCall>>
      /\ UNCHANGED <<phase, req, done, stable, reply>>
      /\ loop' = [loop EXCEPT !.need_flush = FALSE]
  BY DEF FinalFlush, negotiated, FlushCall
<1>2. /\ req.offset \in Nat /\ req.count \in Nat
      /\ Shape /\ LoopInv /\ RangeInv /\ FuaInv /\ FastInv
  BY <1>1 DEF ServeInv
<1>3. /\ loop'.kind = loop.kind /\ loop'.offset = loop.offset /\ loop'.count = loop.count
      /\ loop'.flags = loop.flags /\ DOMAIN loop' = DOMAIN NoLoop
  BY <1>1, <1>2, LoopFields DEF LoopInv
<1>4. Len(todo') = 1 /\ todo'[1] = FlushCall
  BY <1>1
<1>5. Shape' /\ LoopInv'
  BY <1>1, <1>2, <1>3, FlushFields DEF Shape, LoopInv
<1>6. Reach(todo') = {} /\ Reach(todo) = {}
  BY <1>1, ReachOf, FlushFields, EmptyBytes
<1>7. RangeInv'
  BY <1>1, <1>2, <1>3, <1>6 DEF RangeInv
<1>8. FuaInv'
  <2>1. Fua => caps["can_fua"] = EMULATE
    BY <1>1, <1>2 DEF FuaInv, NativeInv
  <2>2. EmulateInv'
    BY <1>1, <1>3, <1>4, FlushFields DEF EmulateInv
  <2> QED BY <1>1, <2>1, <2>2 DEF FuaInv, Fua
<1>9. FastInv'
  BY <1>1, <1>2, <1>3, <1>4, FlushFields DEF FastInv, Fast
<1> QED BY <1>1, <1>2, <1>5, <1>7, <1>8, <1>9
        DEF ServeInv, WholeRangeDone, FuaIsStable, Succeeded

\* A callback that succeeds has reached its bytes.
LEMMA Serve_Callback == ASSUME ServeInv, CallbackSucceeds PROVE ServeInv'
<1> DEFINE c == Head(todo)
           bytes == IF c.fn = "flush" THEN {} ELSE Bytes(c.offset, c.count)
<1>1. /\ phase = "call" /\ todo # <<>> /\ caps' = caps /\ todo' = Tail(todo)
      /\ UNCHANGED <<phase, req, loop, reply>>
      /\ done' = done \cup bytes
      /\ stable' = IF c.fn = "flush" THEN done
                   ELSE IF "FUA" \in c.flags THEN stable \cup bytes ELSE stable \ bytes
  BY DEF CallbackSucceeds, negotiated
<1>2. /\ req.offset \in Nat /\ req.count \in Nat
      /\ Shape /\ LoopInv /\ RangeInv /\ FuaInv /\ FastInv
  BY <1>1 DEF ServeInv
<1>3. /\ IsCall(c)
      /\ \/ todo = <<c>> /\ todo' = <<>>
         \/ todo = <<c, FlushCall>> /\ todo' = <<FlushCall>> /\ c.fn # "zero"
  <2>1. ASSUME NEW d, IsCall(d), todo = <<d>> PROVE c = d /\ todo' = <<>>
    BY <1>1, <2>1
  <2>2. ASSUME NEW d, IsCall(d), todo = <<d, FlushCall>> PROVE c = d /\ todo' = <<FlushCall>>
    BY <1>1, <2>2
  <2> HIDE DEF c
  <2> QED BY <1>1, <1>2, <2>1, <2>2 DEF Shape
<1>4. bytes = Bytes(c.offset, c.count) /\ (c.fn = "flush" => bytes = {})
  BY <1>3, EmptyBytes DEF IsCall
<1> HIDE DEF c, bytes
<1>5. Reach(todo) = bytes /\ Reach(todo') = {}
  BY <1>3, <1>4, ReachOf, FlushFields, EmptyBytes
<1>6. Shape' /\ LoopInv'
  BY <1>1, <1>2, <1>3, FlushFields DEF Shape, LoopInv
<1>7. RangeInv'
  BY <1>1, <1>2, <1>5 DEF RangeInv
<1>8. /\ todo[1] = c /\ Len(todo) \in {1, 2} /\ (Len(todo) = 2 => todo[2] = FlushCall)
      /\ Len(todo) = 1 => todo' = <<>>
      /\ Len(todo) = 2 => todo' = <<FlushCall>>
  BY <1>3
<1>9. FuaInv'
  <2> SUFFICES ASSUME Fua PROVE FuaInv'
    BY <1>1 DEF FuaInv, Fua
  <2>1. CASE caps["can_fua"] = NATIVE /\ NativeInv
    <3>1. "FUA" \in c.flags /\ stable = done
      BY <1>8, <2>1 DEF NativeInv
    <3>2. FlushCall.flags = {}
      BY CallFields DEF FlushCall
    <3>3. todo' = <<>>
      BY <1>8, <2>1, <3>2 DEF NativeInv
    <3>4. stable' = done'
      BY <1>1, <1>4, <3>1
    <3> QED BY <1>1, <2>1, <3>3, <3>4 DEF FuaInv, NativeInv
  <2>2. CASE caps["can_fua"] = EMULATE /\ EmulateInv
    <3>1. CASE \/ loop.kind = "backend_zero" /\ loop.need_flush /\ loop.count > 0
               \/ loop.kind # "backend_zero" /\ loop.need_flush
      BY <1>1, <2>2, <3>1 DEF FuaInv, EmulateInv
    <3>2. CASE todo[Len(todo)].fn = "flush" /\ loop.count = 0
      <4>1. CASE Len(todo) = 1
        <5>1. stable' = done' /\ todo' = <<>>
          BY <1>1, <1>4, <1>8, <3>2, <4>1
        <5> QED BY <1>1, <2>2, <3>2, <5>1 DEF FuaInv, EmulateInv
      <4>2. CASE Len(todo) = 2
        <5>1. todo' = <<FlushCall>>
          BY <1>8, <4>2
        <5>2. todo' # <<>> /\ todo'[Len(todo')].fn = "flush"
          BY <5>1, FlushFields
        <5> QED BY <1>1, <2>2, <3>2, <5>2 DEF FuaInv, EmulateInv
      <4> QED BY <1>8, <4>1, <4>2
    <3> QED BY <1>1, <2>2, <3>1, <3>2 DEF EmulateInv
  <2> QED BY <1>2, <2>1, <2>2 DEF FuaInv
<1>10. FastInv'
  <2>1. \A i \in 1 .. Len(todo') : todo'[i] = FlushCall
    BY <1>8
  <2> QED BY <1>1, <1>2, <2>1, FlushFields DEF FastInv, Fast
<1> QED BY <1>1, <1>2, <1>6, <1>7, <1>9, <1>10
        DEF ServeInv, WholeRangeDone, FuaIsStable, Succeeded

\* A request that ends with an error, or crashes the server.
LEMMA Serve_Error ==
    ASSUME phase' \in {"replied", "crashed"}, todo' = <<>>,
           phase' = "replied" => reply' # "SUCCESS"
    PROVE  ServeInv'
BY DEF ServeInv, WholeRangeDone, FuaIsStable, Succeeded

\* A callback that fails ends the request, or plugin_zero starts to write.
LEMMA Serve_Fails == ASSUME ServeInv, CallbackFails PROVE ServeInv'
<1> DEFINE c == Head(todo)
<1>1. /\ phase = "call" /\ todo # <<>> /\ caps' = caps
      /\ UNCHANGED <<req, done, stable>>
  BY DEF CallbackFails, negotiated
<1>2. /\ req.offset \in Nat /\ req.count \in Nat
      /\ Shape /\ LoopInv /\ RangeInv /\ FuaInv /\ FastInv
  BY <1>1 DEF ServeInv
<1>3. /\ IsCall(c) /\ todo[1] = c /\ Len(todo) \in {1, 2}
      /\ Len(todo) = 2 => c.fn # "zero"
      /\ c.fn = "zero" => loop.kind = "none" /\ req.cmd = "WRITE_ZEROES"
  BY <1>1, <1>2 DEF Shape
<1>4. PICK e \in CallbackErrors(c) :
        \/ /\ FallsBack(c, e)
           /\ loop' = [kind |-> "plugin_zero", offset |-> c.offset, count |-> c.count,
                       flags |-> c.flags \ {"MAY_TRIM"}, need_flush |-> loop.need_flush]
           /\ todo' = <<>> /\ UNCHANGED <<phase, reply>>
        \/ Finish(IF c.fn = "zero" /\ e \in NotSupported THEN "EOPNOTSUPP" ELSE e)
  BY DEF CallbackFails
<1>5. e # "OK"
  BY <1>4, ErrnoAssumption DEF CallbackErrors
<1> HIDE DEF c
<1>6. CASE Finish(IF c.fn = "zero" /\ e \in NotSupported THEN "EOPNOTSUPP" ELSE e)
  <2>1. PICK x : x # "OK" /\ Finish(x)
    BY <1>5, <1>6
  <2>2. /\ phase' \in {"replied", "crashed"} /\ todo' = <<>>
        /\ phase' = "replied" => reply' = nbd_errno(x, req.flags)
    BY <2>1 DEF Finish
  <2>3. nbd_errno(x, req.flags) # "SUCCESS"
    BY <2>1, ErrorReplies
  <2> QED BY <2>2, <2>3, Serve_Error
<1>7. CASE FallsBack(c, e) /\ ~Finish(IF c.fn = "zero" /\ e \in NotSupported
                                      THEN "EOPNOTSUPP" ELSE e)
  <2>1. c.fn = "zero" /\ "FAST_ZERO" \notin c.flags
    BY <1>7 DEF FallsBack
  <2>2. /\ loop'.kind = "plugin_zero" /\ loop'.offset = c.offset
        /\ loop'.count = c.count /\ loop'.flags = c.flags \ {"MAY_TRIM"}
        /\ DOMAIN loop' = DOMAIN NoLoop
    BY <1>4, <1>7, LoopFields
  <2>3. loop'.need_flush = loop.need_flush /\ todo' = <<>> /\ UNCHANGED <<phase, reply>>
    BY <1>4, <1>7
  <2>4. Shape' /\ LoopInv' /\ RangeInv'
    BY <1>3, <2>2, <2>3 DEF Shape, LoopInv, Loops, IsCall, RangeInv
  <2>5. ~Fast
    BY <1>2, <1>3, <2>1 DEF FastInv
  <2>6. FuaInv'
    <3> SUFFICES ASSUME Fua PROVE FuaInv'
      BY <1>1 DEF FuaInv, Fua
    <3>1. CASE caps["can_fua"] = NATIVE /\ NativeInv
      <4>1. "FUA" \in c.flags
        BY <1>3, <3>1 DEF NativeInv
      <4> QED BY <1>1, <2>2, <2>3, <3>1, <4>1 DEF FuaInv, NativeInv
    <3>2. CASE caps["can_fua"] = EMULATE /\ EmulateInv
      <4>1. Len(todo) = 1 /\ todo[Len(todo)].fn = "zero" /\ loop.kind = "none"
        BY <1>3, <2>1
      <4>2. loop.need_flush
        BY <1>1, <3>2, <4>1 DEF EmulateInv
      <4> QED BY <1>1, <2>2, <2>3, <3>2, <4>2 DEF FuaInv, EmulateInv
    <3> QED BY <1>2, <3>1, <3>2 DEF FuaInv
  <2>7. FastInv'
    BY <1>1, <2>5 DEF FastInv, Fast
  <2> QED BY <1>1, <1>2, <2>3, <2>4, <2>6, <2>7
          DEF ServeInv, WholeRangeDone, FuaIsStable, Succeeded
<1> QED BY <1>4, <1>6, <1>7

\* Success: nothing is left to call, to loop over or to flush.
LEMMA Serve_Succeed == ASSUME ServeInv, Succeed PROVE ServeInv'
<1>1. /\ phase = "call" /\ todo = <<>> /\ loop.count = 0
      /\ loop.kind = "backend_zero" \/ ~loop.need_flush
      /\ UNCHANGED <<req, loop, done, stable>>
      /\ phase' \in {"replied", "crashed"} /\ todo' = <<>>
  BY DEF Succeed, Finish
<1>2. /\ req.offset \in Nat /\ req.count \in Nat
      /\ Shape /\ LoopInv /\ RangeInv /\ FuaInv /\ FastInv
  BY <1>1 DEF ServeInv
<1>3. WholeRangeDone'
  <2>1. Reach(todo) = {} /\ Bytes(loop.offset, loop.count) = {}
    BY <1>1, <1>2, ReachOf, EmptyBytes DEF LoopInv
  <2> QED BY <1>1, <1>2, <2>1 DEF WholeRangeDone, RangeInv
<1>4. Fua => done = stable
  <2>1. CASE caps["can_fua"] = NATIVE /\ NativeInv
    BY <2>1 DEF NativeInv
  <2>2. CASE caps["can_fua"] = EMULATE /\ EmulateInv
    BY <1>1, <2>2 DEF EmulateInv
  <2> QED BY <1>2, <2>1, <2>2 DEF FuaInv
<1>5. FuaIsStable'
  BY <1>1, <1>4 DEF FuaIsStable, Fua
<1> QED BY <1>1, <1>3, <1>5 DEF ServeInv

LEMMA StepServe == CapsInv /\ ServeInv /\ [Next]_vars => ServeInv'
<1> SUFFICES ASSUME CapsInv, ServeInv, [Next]_vars PROVE ServeInv'
  OBVIOUS
<1>1. CASE protocol_common_open
  <2>1. /\ phase = "ask" /\ phase' \in {"ask", "refused", "ready"} /\ todo' = todo
    BY <1>1 DEF protocol_common_open
  <2> QED BY <2>1 DEF ServeInv, WholeRangeDone, FuaIsStable, Succeeded
<1>2. ASSUME NEW r \in RequestSet(plugin),
             Reject(r) \/ AssertionFails(r) \/ FastZeroEmulated(r) \/ handle_request(r)
      PROVE  ServeInv'
  <2>1. r \in RequestType
    BY InputAssumption DEF CapsInv
  <2>2. CASE Reject(r)
    <3>1. /\ phase' = "replied" /\ todo' = <<>> /\ validate_request(r) # "OK"
          /\ reply' = nbd_errno(validate_request(r), r.flags)
      BY <2>2 DEF Reject
    <3>2. nbd_errno(validate_request(r), r.flags) # "SUCCESS"
      BY <3>1, ErrorReplies
    <3> QED BY <3>1, <3>2, Serve_Error
  <2>3. CASE AssertionFails(r)
    <3>1. phase = "ready" /\ phase' = "crashed" /\ todo' = todo
      BY <2>3 DEF AssertionFails, Receive
    <3> QED BY <3>1, Serve_Error DEF ServeInv
  <2>4. CASE FastZeroEmulated(r)
    <3>1. phase' = "replied" /\ todo' = <<>> /\ reply' = nbd_errno("ENOTSUP", r.flags)
      BY <2>4 DEF FastZeroEmulated
    <3>2. nbd_errno("ENOTSUP", r.flags) # "SUCCESS"
      BY ErrorReplies
    <3> QED BY <3>1, <3>2, Serve_Error
  <2>5. CASE handle_request(r)
    BY <2>1, <2>5, Serve_Handle
  <2> QED BY <1>2, <2>2, <2>3, <2>4, <2>5
<1>3. CASE Iterate \/ FinalFlush \/ Succeed \/ CallbackSucceeds \/ CallbackFails
  BY <1>3, Serve_Iterate, Serve_Flush, Serve_Succeed, Serve_Callback, Serve_Fails
<1>4. CASE NextRequest
  <2>1. phase = "replied" /\ phase' = "ready" /\ todo' = todo
    BY <1>4 DEF NextRequest
  <2> QED BY <2>1 DEF ServeInv, WholeRangeDone, FuaIsStable, Succeeded
<1>5. CASE UNCHANGED vars
  BY <1>5 DEF vars, ServeInv, Shape, LoopInv, RangeInv, FuaInv, Fua, NativeInv, EmulateInv,
              FastInv, Fast, WholeRangeDone, FuaIsStable, Succeeded
<1> QED BY <1>1, <1>2, <1>3, <1>4, <1>5 DEF Next

LEMMA Serving == Spec => []ServeInv
<1>1. Init => IndInv /\ ServeInv
  <2>1. Init => ServeInv
    BY DEF Init, ServeInv, WholeRangeDone, FuaIsStable, Succeeded
  <2> QED BY <2>1, InitCaps DEF IndInv, Init, AssertionsHold
<1>2. IndInv => CapsInv
  BY DEF IndInv
<1> QED BY <1>1, <1>2, StepInv, StepServe, PTL DEF Spec

\* Whatever the plugin can do and whatever its callbacks answer, a request
\* answered with success has reached its whole range, piece by piece or at
\* once, except through the fallback of plugin_zero.
THEOREM RangeIsDone == Spec => []WholeRangeDone
<1>1. ServeInv => WholeRangeDone
  BY DEF ServeInv
<1> QED BY <1>1, Serving, PTL

\* For every plugin and size: a write answered with success under FUA is on
\* stable storage, natively or by the one flush that backend_zero's last
\* write, plugin_zero's end or plugin_pwrite brings.
THEOREM FuaStable == Spec => []FuaIsStable
<1>1. ServeInv => FuaIsStable
  BY DEF ServeInv
<1> QED BY <1>1, Serving, PTL

\* No fast zero is ever turned into writes, by backend_zero or plugin_zero.
THEOREM FastZeroFails == Spec => []FastZeroNeverWrites
<1>1. ServeInv => FastZeroNeverWrites
  <2> SUFFICES ASSUME ServeInv, Fast, NEW i \in 1 .. Len(todo) PROVE todo[i].fn # "pwrite"
    BY DEF FastZeroNeverWrites, Fast
  <2>1. todo # <<>>
    OBVIOUS
  <2> QED BY <2>1 DEF ServeInv, FastInv
<1> QED BY <1>1, Serving, PTL
=============================================================================
