--------------------------- MODULE MCBlockFilters ---------------------------
(***************************************************************************)
(* The three filters over the same requests and the same reference.  Every *)
(* behaviour is one of one filter, the one its configuration names.        *)
(***************************************************************************)
EXTENDS Cow, Cache, BlockFilters

CONSTANTS t1, t2
Symmetry == Permutations(Threads)

(***************************************************************************)
(* The instance.  Blocks of 2 bytes; three bytes make a whole block and    *)
(* one that reaches past the end of the plugin.                            *)
(***************************************************************************)
CowConfig(cor, onCache, canCache, canExtents) ==
    [filter |-> "cow", bs |-> 2, size |-> 3, holes |-> {0, 1}, cor |-> cor,
     onCache |-> onCache, canCache |-> canCache, canExtents |-> canExtents, u32 |-> 4]
CacheConfig(mode, cor, canFua, max_size) ==
    [filter |-> "cache", bs |-> 2, size |-> 3, holes |-> {0}, mode |-> mode, cor |-> cor,
     canFua |-> canFua, max_size |-> max_size, lo |-> 50, hi |-> 100, recent |-> 2]
BlocksizeConfig(minblock, maxdata, maxlen, minimum, canFua) ==
    [filter |-> "blocksize", size |-> 5, holes |-> {0, 1, 2}, minblock |-> minblock,
     maxdata |-> maxdata, maxlen |-> maxlen, minimum |-> minimum, maximum |-> 4,
     default_maxdata |-> 4, u32 |-> 7, canFua |-> canFua]
MCConfigs ==
    {CowConfig("OFF", FALSE, "emulate", TRUE), CowConfig("OFF", FALSE, "none", FALSE),
     CowConfig("ON", FALSE, "native", TRUE), CowConfig("PATH", TRUE, "native", TRUE),
     CacheConfig("writeback", "OFF", "emulate", -1),
     CacheConfig("writeback", "PATH", "native", -1),
     CacheConfig("unsafe", "ON", "emulate", -1),
     CacheConfig("writethrough", "ON", "native", 2),
     CacheConfig("writethrough", "ON", "emulate", 4),
     BlocksizeConfig(2, 2, 2, 1, "emulate"), BlocksizeConfig(0, 0, 0, 2, "native")}

Request(cmd, off, cnt, flags) == [cmd |-> cmd, off |-> off, cnt |-> cnt, flags |-> flags]
MCRequests(c) ==
    {Request("read", 0, 3, {}), Request("write", 0, 2, {}), Request("write", 1, 2, {"fua"}),
     Request("zero", 1, 1, {}), Request("write", 0, 1, {}), Request("zero", 0, 2, {"fast"}),
     Request("trim", 0, 3, {}),
     Request("cache", 1, 2, {}), Request("flush", 0, 0, {})}
    \cup (IF c.filter = "cache" /\ c.mode # "writethrough" THEN {}
          ELSE {Request("extents", 0, 3, {}), Request("extents", 1, 2, {"one"})})

Init ==
    /\ BaseInit
    /\ \/ /\ config.filter = "cow"
          /\ cow_config(config, 2)
          /\ st = CowState
          /\ lk = CowLocks
       \/ /\ config.filter = "cache"
          /\ cache_config(config, 2)
          /\ st = CacheState
          /\ lk = << >>
       \/ /\ config.filter = "blocksize"
          /\ blocksize_config(config, 4)
          /\ st = BlocksizeState
          /\ lk = BlocksizeLocks

NextOf(t) ==
    \/ /\ config.filter = "cow"
       /\ \/ \E r \in Requests(config) : CowOrdered(r) /\ CowBegin(t, r)
          \/ CowStep(t)
    \/ /\ config.filter = "cache"
       /\ \/ \E r \in Requests(config) : CacheBegin(t, r)
          \/ CacheStep(t)
    \/ /\ config.filter = "blocksize"
       /\ \/ \E r \in Requests(config) : BlocksizeBegin(t, r)
          \/ BlocksizeStep(t)
    \/ Return(t)
(* Every request has been answered and no more are sent. *)
Finished ==
    /\ ops = MaxOps
    /\ \A t \in Threads : req[t] = NoRequest
    /\ UNCHANGED vars
Next == (\E t \in Threads : NextOf(t)) \/ Finished
Spec == Init /\ [][Next]_vars

(***************************************************************************)
(* Properties.                                                             *)
(***************************************************************************)
(* A request that succeeds returns, for every byte, a value that was there  *)
(* at some moment between its start and its end: the last one written, or   *)
(* one of a write that was in flight.  No write that was answered is lost   *)
(* to a stale block, to a read-modify-write of its neighbours, or to the    *)
(* bounce buffer of another thread.  Nor is a byte told to be zero that     *)
(* cannot be.  (cow_pread, cache_pread, blocksize_pread, cow_extents)       *)
ReadsAreCurrent ==
    \A t \in Threads :
        th[t].pc = "done" /\ th[t].ok =>
            /\ req[t].cmd = "read" =>
                 \A b \in Span(req[t].off, req[t].cnt) : th[t].data[b] \in allowed[t][b]
            /\ req[t].cmd = "extents" =>
                 /\ req[t].off \in DOMAIN th[t].data
                 /\ \A b \in DOMAIN th[t].data :
                      th[t].data[b] = "zero" => Zero \in allowed[t][b]

(* A flush that succeeds, and a write or zero with FUA that succeeds, leave *)
(* the bytes they are about on stable storage: what would survive a crash   *)
(* is not older than the request.  cow and cache=unsafe promise no such     *)
(* thing.  (cache_flush, cache_pwrite, blocksize_pwrite, need_flush)        *)
AnsweredIsDurable ==
    \A t \in Threads :
        /\ th[t].pc = "done" /\ th[t].ok
        /\ config.filter # "cow"
        /\ config.filter = "cache" => config.mode # "unsafe"
        => LET r == req[t]
               promised == CASE r.cmd = "flush" -> Bytes
                             [] r.cmd \in {"write", "zero"} /\ "fua" \in r.flags ->
                                  Span(r.off, r.cnt)
                             [] OTHER -> {}
           IN  \A b \in promised : stable[b] \in allowed[t][b]
=============================================================================
