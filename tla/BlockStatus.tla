---------------------------- MODULE BlockStatus ----------------------------
(***************************************************************************)
(* One block status request: the plugin's .extents callback fills a list   *)
(* by calling nbdkit_add_extent, with whatever arguments it likes and      *)
(* whatever comes back, and the server turns the list into the block       *)
(* descriptors of the reply (extents_to_block_descriptors).                *)
(***************************************************************************)
EXTENDS ExtentList

CONSTANTS
    DiskSize,   \* the end of the range that plugins are asked about
    U32,        \* UINT32_MAX, the largest count and block length
    MaxSum,     \* the largest offset + length a plugin passes
    MaxCalls    \* how many extents a plugin adds

ASSUME SizeAssumption ==
    /\ DiskSize \in Nat \ {0} /\ DiskSize < Half
    /\ U32 \in Nat \ {0} /\ MaxSum \in Nat /\ MaxCalls \in Nat

VARIABLES
    req,        \* the request: offset, count and the REQ_ONE flag
    exts,       \* the list
    told,       \* the type the plugin last gave for a byte; NotTold if none
    calls,      \* calls made to nbdkit_add_extent
    phase,      \* "fill", "convert", "replied", "error" or "crashed"
    blocks      \* the block descriptors of the reply

vars == <<req, exts, told, calls, phase, blocks>>

NotTold == {"not told"}
Disk == 0 .. (DiskSize - 1)
MIN(a, b) == IF a <= b THEN a ELSE b

\* A request validate_request has accepted; the list extends to the end of
\* the export, beyond the range that was asked for.
Init ==
    /\ req \in {r \in [offset : Disk, count : 1 .. U32, req_one : BOOLEAN] :
                  r.offset + r.count <= DiskSize}
    /\ exts = nbdkit_extents_new(req.offset, DiskSize)
    /\ told = [b \in Disk |-> NotTold]
    /\ calls = 0 /\ phase = "fill" /\ blocks = <<>>

\* The plugin adds an extent.  It may go on after an error.
Add(offset, length, type) ==
    LET a == nbdkit_add_extent(exts, offset, length, type)
    IN  /\ phase = "fill" /\ calls < MaxCalls
        /\ calls' = calls + 1
        /\ exts' = a.exts
        /\ told' = [b \in Disk |->
                      IF a.r = 0 /\ b \in offset .. (offset + length - 1)
                      THEN type ELSE told[b]]
        /\ UNCHANGED <<req, phase, blocks>>

\* plugin_extents: the callback fails, or left the list empty.
plugin_extents_error ==
    /\ phase = "fill"
    /\ phase' = "error"
    /\ UNCHANGED <<req, exts, told, calls, blocks>>

plugin_extents ==
    /\ phase = "fill" /\ exts.list # <<>>
    /\ phase' = "convert"
    /\ UNCHANGED <<req, exts, told, calls, blocks>>

\* With REQ_ONE there is one block, no longer than the request.
ConvertOne ==
    /\ phase = "convert" /\ req.req_one
    /\ blocks' = <<[length |-> MIN(exts.list[1].length, req.count),
                    type |-> exts.list[1].type]>>
    /\ phase' = "replied"
    /\ UNCHANGED <<req, exts, told, calls>>

\* Mutant: the block that reaches the end of the request is not the last.
LastBlockNever(pos) == FALSE

\* The block that goes beyond the end of the request is the last one.
LastBlock(pos) == pos > req.offset + req.count

\* One iteration of the loop: a block is the extent, cut to 32 bits.
ConvertNext ==
    LET i == Len(blocks) + 1
        e == exts.list[i]
        length == MIN(e.length, U32)
        pos == e.offset + length
    IN  /\ phase = "convert" /\ ~req.req_one
        /\ blocks' = Append(blocks, [length |-> length, type |-> e.type])
        /\ phase' = IF LastBlock(pos) THEN "replied"
                    ELSE IF e.length > length THEN "crashed"
                    ELSE IF i = Len(exts.list) THEN "replied"
                    ELSE "convert"
        /\ UNCHANGED <<req, exts, told, calls>>

Next ==
    \/ \E offset \in 0 .. MaxSum, length \in 0 .. MaxSum, type \in Types :
          offset + length <= MaxSum /\ Add(offset, length, type)
    \/ plugin_extents_error \/ plugin_extents
    \/ ConvertOne \/ ConvertNext

Spec == Init /\ [][Next]_vars

-----------------------------------------------------------------------------
\* Every variable has its type, and the list is well formed whatever the
\* plugin passes to nbdkit_add_extent: it starts at the offset asked for, has
\* no gap, stays inside the export and below MAX_EXTENTS.
ListIsWellFormed ==
    /\ \A i \in 1 .. Len(exts.list) :
          /\ exts.list[i].offset \in Disk
          /\ exts.list[i].type \in Types
    /\ exts.next \in -Half .. (Half - 1)
    /\ WellFormed(exts)

\* Every byte the list covers has the type the plugin gave for it: cutting,
\* ignoring and coalescing extents lose or move nothing.
ListIsWhatPluginTold ==
    \A i \in 1 .. Len(exts.list) :
       LET e == exts.list[i]
       IN  \A b \in e.offset .. (e.offset + e.length - 1) :
              told[b] = e.type

\* Where the blocks of a reply start: they are contiguous.
StartsAt(start) ==
    /\ start[1] = req.offset
    /\ \A i \in 1 .. (Len(blocks) - 1) : start[i + 1] = start[i] + blocks[i].length

\* The reply describes what the plugin told, block after block from the
\* offset of the request; only the last block goes beyond the request, and
\* with REQ_ONE none does ("Must not exceed count of the original request").
ReplyIsFaithful ==
    phase = "replied" =>
       /\ blocks # <<>>
       /\ \E start \in [1 .. Len(blocks) -> Disk] :
             /\ StartsAt(start)
             /\ \A i \in 1 .. Len(blocks) :
                   /\ blocks[i].length \in 1 .. U32
                   /\ start[i] <= req.offset + req.count
                   /\ \A b \in start[i] .. (start[i] + blocks[i].length - 1) :
                         told[b] = blocks[i].type
       /\ req.req_one => Len(blocks) = 1 /\ blocks[1].length <= req.count

\* What the client reads is what the plugin said, in the list and in the
\* blocks made from it.
ReplyIsTrue == ReplyIsFaithful /\ ListIsWhatPluginTold

\* "If we reach here then we must have consumed this whole extent"
\* (extents_to_block_descriptors): assert (e.length <= length) holds.
WholeExtentConsumed == phase # "crashed"

\* "Extents must be added in strictly ascending, contiguous order"
\* (nbdkit_add_extent), for whatever 64 bit lengths the plugin passes.
AlwaysContiguous == WellFormed(exts)
=============================================================================
