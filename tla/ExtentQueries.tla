--------------------------- MODULE ExtentQueries ---------------------------
(***************************************************************************)
(* The two helpers filters use to query the extents of the next layer      *)
(* (server/extents.c): nbdkit_extents_full, which repeats the query until  *)
(* the whole range is covered, and nbdkit_extents_aligned, which makes     *)
(* every extent a multiple of a block size.  The next layer knows the type *)
(* of every byte and answers with the extents of any non-empty prefix of   *)
(* what it was asked for.                                                  *)
(***************************************************************************)
EXTENDS ExtentList

CONSTANTS
    DiskSize,   \* the size of the export, a multiple of Align
    Align,      \* the alignment asked for, a power of 2 (is_power_of_2, rounding.h)
    DiskTypes,  \* the types the bytes of the disk may have
    Calls       \* the functions called: a subset of {"full", "aligned"}

VARIABLES
    disk,           \* the type of each byte
    fn,             \* the function called
    first, last,    \* its range: from first up to and not including last
    pc,             \* "query", "scan", "merge", "done" or "crashed"
    exts,           \* the list of extents of the caller
    offset          \* how far nbdkit_extents_full has come

vars == <<disk, fn, first, last, pc, exts, offset>>
call == <<disk, fn, first, last>>
Disk == 0 .. (DiskSize - 1)
Aligned(n) == n % Align = 0

\* The caller of nbdkit_extents_full allocates nothing; the one of
\* nbdkit_extents_aligned passes a list that may extend beyond the range.
Init ==
    /\ disk \in [Disk -> DiskTypes]
    /\ fn \in Calls
    /\ first \in Disk /\ last \in 1 .. DiskSize /\ first < last
    /\ fn = "aligned" => Aligned(first) /\ Aligned(last)
    /\ pc = "query"
    /\ \E end \in last .. DiskSize :
          /\ fn = "full" => end = last
          /\ exts = nbdkit_extents_new(first, end)
    /\ offset = first

\* The next layer's answer about from .. (to - 1) in a list made for the
\* range up to end: it adds the extents one byte at a time.
Answer(from, to, end) ==
    LET Add[n \in from .. to] ==
          IF n = from THEN nbdkit_extents_new(from, end)
          ELSE nbdkit_add_extent(Add[n - 1], n - 1, 1, disk[n - 1]).exts
    IN  Add[to]

\* nbdkit_add_extent for the first n extents of list t.
AddAll(ret, t) ==
    LET Add[n \in 0 .. Len(t)] ==
          IF n = 0 THEN ret
          ELSE nbdkit_add_extent(Add[n - 1], t[n].offset, t[n].length,
                                 t[n].type).exts
    IN  Add[Len(t)]

EndOf(list) == list[Len(list)].offset + list[Len(list)].length

-----------------------------------------------------------------------------
(* nbdkit_extents_full *)

MoreToAsk(upto) == upto < last

\* One iteration: ask about the rest of the range and append the answer.
nbdkit_extents_full ==
    /\ fn = "full" /\ pc = "query"
    /\ \E to \in (offset + 1) .. last :
         LET t == Answer(offset, to, last)
         IN  /\ exts' = AddAll(exts, t.list)
             /\ offset' = EndOf(t.list)
             /\ pc' = IF MoreToAsk(EndOf(t.list)) THEN "query" ELSE "done"
    /\ UNCHANGED call

-----------------------------------------------------------------------------
(* nbdkit_extents_aligned *)

\* The initial query.
QueryAligned ==
    /\ fn = "aligned" /\ pc = "query"
    /\ \E to \in (first + 1) .. exts.end :
          exts' = Answer(first, to, exts.end)
    /\ pc' = "scan"
    /\ UNCHANGED <<call, offset>>

\* The first extent whose length is not aligned; 0 if there is none.
FirstUnaligned ==
    LET bad == {i \in 1 .. Len(exts.list) : ~Aligned(exts.list[i].length)}
    IN  IF bad = {} THEN 0 ELSE CHOOSE i \in bad : \A j \in bad : i <= j

AllAligned ==
    /\ pc = "scan" /\ FirstUnaligned = 0
    /\ pc' = "done"
    /\ UNCHANGED <<call, exts, offset>>

ROUND_DOWN(n) == n - (n % Align)

\* An extent cut down to nothing is dropped.
KeptExtent(e) == IF e.length = 0 THEN <<>> ELSE <<e>>

\* Beyond the first aligned block: truncate the list there.
Truncate ==
    LET i == FirstUnaligned
        e == exts.list[i]
        length == ROUND_DOWN(e.length)
        kept == SubSeq(exts.list, 1, i - 1)
    IN  /\ pc = "scan" /\ i # 0
        /\ e.offset + e.length > first + Align
        /\ exts' = [exts EXCEPT
                      !.list = kept \o
                               KeptExtent([e EXCEPT !.length = length]),
                      !.next = e.offset + length]
        /\ pc' = "done"
        /\ UNCHANGED <<call, offset>>

\* Otherwise the first block has to be put together from several extents.
\* The code asserts that nothing precedes it.
StartMerge ==
    /\ pc = "scan" /\ FirstUnaligned # 0
    /\ exts.list[FirstUnaligned].offset + exts.list[FirstUnaligned].length
         <= first + Align
    /\ pc' = IF FirstUnaligned = 1 THEN "merge" ELSE "crashed"
    /\ UNCHANGED <<call, exts, offset>>

\* Mutant: the merged extent keeps the type of its first part.
IntersectFirst(t1, t2) == t1

Intersect(t1, t2) == t1 \cap t2

\* Merge with the second extent of the list.
MergeNext ==
    LET e == exts.list[1]
        e2 == exts.list[2]
        merged == [e EXCEPT !.length = @ + e2.length,
                            !.type = Intersect(@, e2.type)]
    IN  /\ pc = "merge" /\ e.length < Align /\ Len(exts.list) > 1
        /\ exts' = [exts EXCEPT !.list = <<merged>> \o SubSeq(@, 3, Len(@))]
        /\ UNCHANGED <<call, pc, offset>>

\* The list is used up: ask for the rest of the block, and put what came so
\* far in front of the answer.
MergeQuery ==
    LET e == exts.list[1]
        from == e.offset + e.length
    IN  /\ pc = "merge" /\ e.length < Align /\ Len(exts.list) = 1
        /\ \E to \in (from + 1) .. (first + Align) :
             LET t == Answer(from, to, first + Align)
                 e2 == t.list[1]
             IN  exts' = [exts EXCEPT
                   !.list = <<Extent(e.offset, e2.length + e.length,
                                     Intersect(e2.type, e.type))>>
                            \o Tail(t.list)]
        /\ UNCHANGED <<call, pc, offset>>

MergedLength(e) == Align

MergeDone ==
    LET e == exts.list[1]
    IN  /\ pc = "merge" /\ e.length >= Align
        /\ exts' = [exts EXCEPT
                      !.list = <<[e EXCEPT !.length = MergedLength(e)]>>,
                      !.next = e.offset + Align]
        /\ pc' = "done"
        /\ UNCHANGED <<call, offset>>

Next ==
    \/ nbdkit_extents_full \/ QueryAligned \/ AllAligned \/ Truncate
    \/ StartMerge \/ MergeNext \/ MergeQuery \/ MergeDone

\* The next layer answers every query, and the helpers are plain loops.
Spec == Init /\ [][Next]_vars /\ WF_vars(Next)

-----------------------------------------------------------------------------
\* The list of the caller is well formed after every step of both helpers,
\* the fields the code overwrites by hand included; it starts at the offset
\* asked for and is never left empty.
ListWellFormed ==
    /\ WellFormed(exts)
    /\ pc \in {"query", "scan", "merge", "done"}
    /\ pc = "done" => exts.list # <<>>

\* nbdkit_extents_aligned returns extents of aligned lengths only.
ResultAligned ==
    pc = "done" /\ fn = "aligned" =>
        \A i \in 1 .. Len(exts.list) : Aligned(exts.list[i].length)

\* No extent claims a hole or zeroes for a byte that is not one ("returning
\* '0' is the safe default"), and only a merged block says less than the
\* next layer did.
TypesAreSafe ==
    pc = "done" =>
        \A i \in 1 .. Len(exts.list) :
           LET e == exts.list[i]
           IN  \A b \in e.offset .. (e.offset + e.length - 1) :
                  /\ e.type \subseteq disk[b]
                  /\ e.length > Align \/ fn = "full" => e.type = disk[b]

\* nbdkit_extents_full returns "a complete set of extents covering the region
\* [offset..offset+count-1]".
FullCovers ==
    pc = "done" /\ fn = "full" => exts.list # <<>> /\ EndOf(exts.list) = last

\* Both helpers end: every query makes progress.
QueriesEnd == <>(pc = "done")
=============================================================================
