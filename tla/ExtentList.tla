----------------------------- MODULE ExtentList -----------------------------
(***************************************************************************)
(* struct nbdkit_extents and nbdkit_add_extent (server/extents.c): the     *)
(* list of extents a plugin builds to answer a block status request.       *)
(* Offsets and lengths are unsigned 64 bit numbers, computed modulo Wrap;  *)
(* the field `next' is signed.  The type of an extent is the set of its    *)
(* bits, a subset of {"hole", "zero"}.                                     *)
(***************************************************************************)
EXTENDS Integers, Sequences

CONSTANTS
    Half,           \* 2^63
    MAX_EXTENTS     \* a list does not grow beyond this

ASSUME ExtentAssumption ==
    Half \in Nat \ {0} /\ MAX_EXTENTS \in Nat \ {0}

Wrap == 2 * Half
Types == SUBSET {"hole", "zero"}
Extent(offset, length, type) ==
    [offset |-> offset, length |-> length, type |-> type]

\* The caller has checked that start <= end < 2^63.
nbdkit_extents_new(start, end) ==
    [start |-> start, end |-> end, next |-> -1, list |-> <<>>]

Signed(n) == IF n < Half THEN n ELSE n - Wrap

\* Extents must be added in ascending, contiguous order.
OutOfOrder(exts, offset) == exts.next >= 0 /\ exts.next # offset

\* Mutant: the test for a full list is off by one.
IgnoredLate(exts, offset, length) ==
    \/ length = 0
    \/ offset >= exts.end
    \/ Len(exts.list) > MAX_EXTENTS

\* Zero-length extents, extents beyond the end of the range, and extents for
\* which there is no room, are ignored.
Ignored(exts, offset, length) ==
    \/ length = 0
    \/ offset >= exts.end
    \/ Len(exts.list) >= MAX_EXTENTS

\* The end of the extent, cut at the end of the range.
Shorten(exts, offset, length) ==
    LET sum == (offset + length) % Wrap
    IN  IF sum > exts.end THEN (length - (sum - exts.end)) % Wrap ELSE length

LastOf(exts) == exts.list[Len(exts.list)]

\* Coalesce with the last extent if the types agree, else append.
Push(exts, e) ==
    IF exts.list # <<>> /\ LastOf(exts).type = e.type
    THEN [exts EXCEPT !.list[Len(exts.list)].length = @ + e.length]
    ELSE [exts EXCEPT !.list = Append(@, e)]

\* nbdkit_add_extent: the new list, and the value returned.  `next' moves
\* even when the extent is ignored.
nbdkit_add_extent(exts, offset, length, type) ==
    LET moved == [exts EXCEPT !.next = Signed((offset + length) % Wrap)]
        len == Shorten(exts, offset, length)
        before == exts.list = <<>> /\ (offset + len) % Wrap <= exts.start
        late == exts.list = <<>> /\ offset > exts.start
        overlap == IF exts.list = <<>> THEN exts.start - offset ELSE 0
    IN  IF OutOfOrder(exts, offset) THEN [exts |-> exts, r |-> -1]
        ELSE IF Ignored(exts, offset, length) \/ before
             THEN [exts |-> moved, r |-> 0]
        ELSE IF late THEN [exts |-> moved, r |-> -1]
        ELSE [exts |-> Push(moved, Extent(offset + overlap, len - overlap,
                                          type)),
              r |-> 0]

\* What holds of a list: it starts where the range starts, leaves no gap,
\* stays inside the range, and has no more extents than it may.
WellFormed(exts) ==
    LET n == Len(exts.list)
    IN  /\ n <= MAX_EXTENTS
        /\ n > 0 => exts.list[1].offset = exts.start
        /\ \A i \in 1 .. n :
              /\ exts.list[i].length > 0
              /\ exts.list[i].offset + exts.list[i].length <= exts.end
        /\ \A i \in 1 .. (n - 1) :
              exts.list[i].offset + exts.list[i].length
                = exts.list[i + 1].offset
=============================================================================
