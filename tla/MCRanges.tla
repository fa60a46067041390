------------------------------ MODULE MCRanges ------------------------------
(***************************************************************************)
(* Instances of the two places where a request for a range is cut up: the  *)
(* server and its fallbacks for a plugin (Requests), and the filters that  *)
(* work in blocks (BlockFilters, Cow, Cache).  Each behaviour is one of one*)
(* part, chosen at first; the other stays in one initial state.            *)
(***************************************************************************)
EXTENDS Requests, TLC

CONSTANTS Parts, Threads, NoThread, MaxOps, MaxFaults, t1, t2

VARIABLES
    part,
    config, disk, b_stable, b_req, th, st, lk, ops, faults, cur, allowed, before

-----------------------------------------------------------------------------
(* Requests.  A plugin is described by the callbacks it has and by what    *)
(* they answer; a full product would be far too large, so each set varies  *)
(* the callbacks that are looked at together.                              *)

\* A plugin that has every callback and leaves every question to its default.
Basic == [pwrite |-> TRUE, flush |-> TRUE, trim |-> TRUE, zero |-> TRUE,
          extents |-> TRUE, cache |-> TRUE, api |-> 2,
          can_write |-> NoCallback, can_flush |-> NoCallback,
          can_trim |-> NoCallback, can_zero |-> NoCallback,
          can_fast_zero |-> NoCallback, can_extents |-> NoCallback,
          advisory |-> NoCallback, can_fua |-> NoCallback,
          can_cache |-> NoCallback]

\* Writing, zeroing and forced unit access.
ZeroPlugins ==
    {[Basic EXCEPT !.pwrite = pw, !.flush = fl, !.zero = z, !.api = a,
                   !.can_zero = cz, !.can_fast_zero = cf, !.can_fua = fua] :
       pw, fl, z \in BOOLEAN, a \in {1, 2}, cz, cf \in -2 .. 1,
       fua \in -2 .. 2}

\* Everything else.
OtherPlugins ==
    {[Basic EXCEPT !.pwrite = pw, !.can_write = cw, !.flush = fl,
                   !.can_flush = fl2, !.trim = tr, !.can_trim = ct,
                   !.can_fua = fua] :
       pw, fl, tr \in BOOLEAN, cw, fl2, ct \in -2 .. 1, fua \in {-2, 2}}
      \cup
    {[Basic EXCEPT !.cache = ca, !.can_cache = cc, !.extents = ex,
                   !.can_extents = ce, !.advisory = ad] :
       ca, ex \in BOOLEAN, cc \in -2 .. 2, ce, ad \in -2 .. 1}

\* The plugins of the range runs: those that differ in how a range is served.
RangePlugins ==
    {[Basic EXCEPT !.zero = z, !.can_fua = fua, !.can_cache = cc] :
       z \in BOOLEAN, fua, cc \in {1, 2}}

AllPlugins == ZeroPlugins \cup OtherPlugins \cup RangePlugins

FlagSets == {{f} : f \in Flags} \cup
            {{}, {"FUA", "NO_HOLE"}, {"FUA", "FAST_ZERO"}}

\* Every command with every flag, on one good range, plus an empty range.
FlagRequests ==
    [cmd : Commands, flags : FlagSets, offset : {0}, count : {1}] \cup
    [cmd : {"FLUSH"}, flags : {{}, {"FUA"}}, offset : {0}, count : {0}]

\* Every range, the offsets that wrap included.
RangeRequests ==
    [cmd : Ranged, flags : {{}, {"FUA"}}, offset : 0 .. (Wrap - 1),
     count : 0 .. (ExportSize + 1)]

\* In one run: every plugin gets every flag, a few get every range.
MixedRequests(p) ==
    IF p \in RangePlugins THEN FlagRequests \cup RangeRequests ELSE FlagRequests

\* Zeroing, of one byte and of more than fits in one buffer.
ZeroRequests(p) ==
    [cmd : {"WRITE_ZEROES"}, flags : {{}, {"FUA"}, {"FAST_ZERO"}},
     offset : {0}, count : {1, ExportSize}]

-----------------------------------------------------------------------------
NoRequests(c) == {}
I == INSTANCE MCBlockFilters WITH stable <- b_stable, req <- b_req,
        Configs <- {}, Requests <- NoRequests
BlockRequests(c) == I!MCRequests(c)
B == INSTANCE MCBlockFilters WITH stable <- b_stable, req <- b_req,
        Configs <- I!MCConfigs, Requests <- BlockRequests

blocks == <<config, disk, b_stable, b_req, th, st, lk, ops, faults, cur, allowed, before>>
everything == <<part, vars, blocks>>
Symmetry == Permutations(Threads)

PartInit ==
    /\ part \in Parts
    /\ part # "requests" => /\ plugin = Basic /\ structured = FALSE
                            /\ caps = [q \in Caps |-> -1]
    /\ part # "blocks" => config = I!CowConfig("OFF", FALSE, "none", FALSE)
    /\ Init /\ B!Init
RequestsNext ==
    /\ part = "requests" /\ Next
    /\ UNCHANGED <<part, blocks>>
\* The client is refused, or sends no more.
RequestsEnd ==
    /\ part = "requests" /\ phase \in {"refused", "crashed", "ready"}
    /\ UNCHANGED everything
BlocksNext ==
    /\ part = "blocks" /\ B!Next
    /\ UNCHANGED <<part, vars>>
PartSpec == PartInit /\ [][RequestsNext \/ RequestsEnd \/ BlocksNext]_everything

-----------------------------------------------------------------------------
\* A read through cow, cache or blocksize returns what was there during the
\* read, and no answered write is lost (module MCBlockFilters).
ReadsAreCurrent == B!ReadsAreCurrent
\* A flush, and a write with FUA, leave their bytes on stable storage.
AnsweredIsDurable == B!AnsweredIsDurable
=============================================================================
