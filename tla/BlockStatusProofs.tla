-------------------------- MODULE BlockStatusProofs --------------------------
(* Proofs about BlockStatus: whatever a plugin passes to nbdkit_add_extent, *)
(* as long as its extents end below 2^63, the list stays well formed and   *)
(* the reply to the client says what the plugin told.                      *)
EXTENDS BlockStatus, TLAPS

ExtentType == [offset : Nat, length : Nat, type : Types]
ListType ==
    [start : Nat, end : Nat, next : Int, list : Seq(ExtentType)]
EndOf(x) == LastOf(x).offset + LastOf(x).length

\* Why the order check is enough: `next' never lies inside the list, and the
\* list can grow only when it ends exactly there.
NextInv(x) ==
    x.list # <<>> =>
       /\ x.next >= EndOf(x)
       /\ x.next = EndOf(x) \/ EndOf(x) = x.end \/ Len(x.list) = MAX_EXTENTS

ListInv(x) ==
    /\ x \in ListType
    /\ x.start < Half /\ x.end < Half
    /\ x.next \in -1 .. (Half - 1)
    /\ WellFormed(x) /\ NextInv(x)

LEMMA SmallMod ==
    ASSUME NEW a \in Nat, NEW b \in Nat, a < b
    PROVE  a % b = a
OBVIOUS

LEMMA BelowWrap ==
    ASSUME NEW a \in Nat, a < Half
    PROVE  a % Wrap = a
<1>1. Wrap \in Nat /\ a < Wrap
  BY ExtentAssumption DEF Wrap
<1> QED BY <1>1, SmallMod

\* Coalescing lengthens the last extent only.
LEMMA Coalesced ==
    ASSUME NEW x \in ListType, x.list # <<>>, NEW len \in Nat
    PROVE  LET n == Len(x.list)
               y == [x EXCEPT !.list[n].length = @ + len]
           IN  /\ y \in ListType /\ Len(y.list) = n /\ n > 0
               /\ y.start = x.start /\ y.end = x.end /\ y.next = x.next
               /\ y.list[n].offset = x.list[n].offset
               /\ y.list[n].length = x.list[n].length + len
               /\ y.list[n].type = x.list[n].type
               /\ \A i \in 1 .. (n - 1) : y.list[i] = x.list[i]
<1> DEFINE n == Len(x.list)
           e == [x.list[n] EXCEPT !.length = @ + len]
           s == [x.list EXCEPT ![n] = e]
<1>1. x.list \in Seq(ExtentType) /\ n \in Nat /\ n > 0
  BY DEF ListType
<1>2. x.list[n] \in ExtentType
  BY <1>1
<1>3. /\ e \in ExtentType /\ e.offset = x.list[n].offset
      /\ e.length = x.list[n].length + len /\ e.type = x.list[n].type
  BY <1>2 DEF ExtentType
<1>4. s \in Seq(ExtentType) /\ Len(s) = n /\ s[n] = e
      /\ \A i \in 1 .. (n - 1) : s[i] = x.list[i]
  BY <1>1, <1>3
<1>5. [x EXCEPT !.list[n].length = @ + len] = [x EXCEPT !.list = s]
  BY DEF ListType
<1>6. [x EXCEPT !.list = s] \in ListType
  BY <1>4 DEF ListType
<1>7. /\ [x EXCEPT !.list = s].list = s
      /\ [x EXCEPT !.list = s].start = x.start
      /\ [x EXCEPT !.list = s].end = x.end
      /\ [x EXCEPT !.list = s].next = x.next
  BY DEF ListType
<1> HIDE DEF s, e, n
<1> QED BY <1>1, <1>3, <1>4, <1>5, <1>6, <1>7 DEF n

\* Pushing an extent that continues the list keeps it well formed.
LEMMA PushKeeps ==
    ASSUME NEW x \in ListType, NEW e \in ExtentType, WellFormed(x),
           Len(x.list) < MAX_EXTENTS, e.length > 0,
           e.offset + e.length <= x.end,
           x.list = <<>> => e.offset = x.start,
           x.list # <<>> => e.offset = EndOf(x)
    PROVE  /\ Push(x, e) \in ListType /\ WellFormed(Push(x, e))
           /\ Push(x, e).start = x.start /\ Push(x, e).end = x.end
           /\ Push(x, e).next = x.next /\ Push(x, e).list # <<>>
           /\ EndOf(Push(x, e)) = e.offset + e.length
<1> DEFINE n == Len(x.list)
<1>0. x.list \in Seq(ExtentType) /\ n \in Nat /\ MAX_EXTENTS \in Nat
  BY ExtentAssumption DEF ListType
<1>1. CASE x.list # <<>> /\ LastOf(x).type = e.type
  <2> DEFINE y == [x EXCEPT !.list[n].length = @ + e.length]
  <2>1. Push(x, e) = y
    BY <1>1 DEF Push
  <2>2. /\ y \in ListType /\ Len(y.list) = n /\ n > 0
        /\ y.start = x.start /\ y.end = x.end /\ y.next = x.next
        /\ y.list[n].offset = x.list[n].offset
        /\ y.list[n].length = x.list[n].length + e.length
        /\ \A i \in 1 .. (n - 1) : y.list[i] = x.list[i]
    BY <1>1, Coalesced DEF ExtentType
  <2> HIDE DEF y
  <2>3. x.list[n].offset \in Nat /\ x.list[n].length \in Nat
    <3>1. n \in 1 .. n
      BY <1>0, <2>2
    <3>2. x.list[n] \in ExtentType
      BY <3>1, <1>0
    <3> QED BY <3>2 DEF ExtentType
  <2>4. EndOf(y) = e.offset + e.length
    BY <1>1, <2>2, <2>3 DEF EndOf, LastOf, ExtentType
  <2>5. y.list[1].offset = x.start
    <3>1. x.list[1].offset = x.start
      BY <2>2 DEF WellFormed
    <3>2. 1 = n \/ 1 \in 1 .. (n - 1)
      <4>1. n \in Nat /\ n > 0
        BY <1>0, <2>2
      <4> HIDE DEF n
      <4> QED BY <4>1
    <3> QED BY <3>1, <3>2, <2>2
  <2>6. \A i \in 1 .. n :
           y.list[i].length > 0 /\ y.list[i].offset + y.list[i].length <= x.end
    <3>1. \A i \in 1 .. n : i = n \/ i \in 1 .. (n - 1)
      BY <1>0
    <3>2. \A i \in 1 .. n :
             x.list[i].length > 0 /\ x.list[i].offset + x.list[i].length <= x.end
      BY DEF WellFormed
    <3>3. e.length \in Nat
      BY DEF ExtentType
    <3>4. y.list[n].offset + y.list[n].length = e.offset + e.length
      BY <2>2, <2>4 DEF EndOf, LastOf
    <3>5. y.list[n].length > 0
      BY <3>3, <2>2, <2>3
    <3> QED BY <3>1, <3>2, <3>4, <3>5, <2>2
  <2>7. \A i \in 1 .. (n - 1) :
           y.list[i].offset + y.list[i].length = y.list[i + 1].offset
    <3> SUFFICES ASSUME NEW i \in 1 .. (n - 1)
                 PROVE  y.list[i].offset + y.list[i].length
                          = y.list[i + 1].offset
      OBVIOUS
    <3>1. i \in 1 .. n /\ (i + 1 = n \/ i + 1 \in 1 .. (n - 1))
      BY <1>0
    <3>2. x.list[i].offset + x.list[i].length = x.list[i + 1].offset
      BY <1>0 DEF WellFormed
    <3>3. y.list[i + 1].offset = x.list[i + 1].offset
      BY <3>1, <2>2
    <3> QED BY <3>2, <3>3, <2>2
  <2>8. WellFormed(y)
    BY <1>0, <2>2, <2>4, <2>5, <2>6, <2>7 DEF WellFormed, EndOf
  <2>9. y.list # <<>>
    BY <2>2
  <2> QED BY <2>1, <2>2, <2>4, <2>8, <2>9
<1>2. CASE ~(x.list # <<>> /\ LastOf(x).type = e.type)
  <2> DEFINE s == Append(x.list, e)
             y == [x EXCEPT !.list = s]
  <2>1. Push(x, e) = y
    BY <1>2 DEF Push
  <2>2. /\ s \in Seq(ExtentType) /\ Len(s) = n + 1 /\ s[n + 1] = e
        /\ \A i \in 1 .. n : s[i] = x.list[i]
    BY <1>0
  <2>3. /\ y \in ListType /\ y.list = s /\ y.start = x.start
        /\ y.end = x.end /\ y.next = x.next
    BY <2>2 DEF ListType
  <2> HIDE DEF y, s
  <2>4. EndOf(y) = e.offset + e.length
    BY <2>2, <2>3 DEF EndOf, LastOf
  <2>5. s[1].offset = x.start
    <3>1. CASE n = 0
      BY <3>1, <1>0, <2>2
    <3>2. CASE n > 0
      BY <3>2, <1>0, <2>2 DEF WellFormed
    <3> QED BY <3>1, <3>2, <1>0
  <2>6. \A i \in 1 .. (n + 1) :
           s[i].length > 0 /\ s[i].offset + s[i].length <= x.end
    BY <1>0, <2>2 DEF WellFormed
  <2>7. \A i \in 1 .. n : s[i].offset + s[i].length = s[i + 1].offset
    <3> SUFFICES ASSUME NEW i \in 1 .. n
                 PROVE  s[i].offset + s[i].length = s[i + 1].offset
      OBVIOUS
    <3>1. CASE i = n
      <4>1. x.list # <<>>
        BY <1>0, <3>1
      <4>2. e.offset = x.list[n].offset + x.list[n].length
        BY <4>1 DEF EndOf, LastOf
      <4> QED BY <4>2, <3>1, <2>2
    <3>2. CASE i # n
      <4>1. i \in 1 .. (n - 1) /\ i + 1 \in 1 .. n
        BY <3>2, <1>0
      <4>2. x.list[i].offset + x.list[i].length = x.list[i + 1].offset
        BY <4>1 DEF WellFormed
      <4> QED BY <4>1, <4>2, <2>2
    <3> QED BY <3>1, <3>2
  <2>8. WellFormed(y)
    BY <1>0, <2>2, <2>3, <2>4, <2>5, <2>6, <2>7 DEF WellFormed, EndOf
  <2>9. y.list # <<>>
    BY <2>2, <2>3, <1>0
  <2> QED BY <2>1, <2>3, <2>4, <2>8, <2>9
<1> QED BY <1>1, <1>2

\* The bytes of a list have the types T gives them, and none lies beyond the
\* end of the last extent.
Tells(x, T) ==
    \A i \in 1 .. Len(x.list) :
       /\ x.list[i].offset + x.list[i].length <= EndOf(x)
       /\ \A b \in x.list[i].offset .. (x.list[i].offset + x.list[i].length - 1) :
             T[b] = x.list[i].type

\* The two facts about intervals the list proofs need.
LEMMA Split ==
    ASSUME NEW a \in Nat, NEW l \in Nat, NEW k \in Nat, NEW b \in a .. (a + l + k - 1)
    PROVE  b \in a .. (a + l - 1) \/ b \in (a + l) .. (a + l + k - 1)
OBVIOUS

LEMMA Within ==
    ASSUME NEW a \in Nat, NEW l \in Nat, NEW m \in Nat, a + l <= m,
           NEW b \in a .. (a + l - 1)
    PROVE  b \in 0 .. (m - 1) /\ b < m
OBVIOUS

\* Pushing an extent that T describes keeps it so.
LEMMA PushTells ==
    ASSUME NEW x \in ListType, NEW e \in ExtentType, NEW T, Tells(x, T),
           x.list # <<>> => e.offset = EndOf(x),
           \A b \in e.offset .. (e.offset + e.length - 1) : T[b] = e.type
    PROVE  Tells(Push(x, e), T)
<1> DEFINE n == Len(x.list)
<1>0. x.list \in Seq(ExtentType) /\ n \in Nat /\ e.offset \in Nat /\ e.length \in Nat
  BY DEF ListType, ExtentType
<1>1. \A i \in 1 .. n : x.list[i].offset \in Nat /\ x.list[i].length \in Nat
  <2>1. \A i \in 1 .. n : x.list[i] \in ExtentType
    BY <1>0
  <2> QED BY <2>1 DEF ExtentType
<1>2. CASE x.list # <<>> /\ LastOf(x).type = e.type
  <2> DEFINE y == [x EXCEPT !.list[n].length = @ + e.length]
  <2>1. Push(x, e) = y
    BY <1>2 DEF Push
  <2>2. /\ Len(y.list) = n /\ n > 0
        /\ y.list[n].offset = x.list[n].offset
        /\ y.list[n].length = x.list[n].length + e.length
        /\ y.list[n].type = x.list[n].type
        /\ \A i \in 1 .. (n - 1) : y.list[i] = x.list[i]
    BY <1>0, <1>2, Coalesced
  <2> HIDE DEF y
  <2>3. n \in 1 .. n /\ x.list[n].offset \in Nat /\ x.list[n].length \in Nat
    BY <1>0, <1>1, <2>2
  <2>4. /\ EndOf(x) = x.list[n].offset + x.list[n].length /\ x.list[n].type = e.type
        /\ e.offset = EndOf(x) /\ EndOf(y) = EndOf(x) + e.length
    BY <1>0, <1>2, <2>2, <2>3 DEF EndOf, LastOf
  <2>5. ASSUME NEW i \in 1 .. n
        PROVE  /\ y.list[i].offset + y.list[i].length <= EndOf(y)
               /\ \A b \in y.list[i].offset .. (y.list[i].offset + y.list[i].length - 1) :
                     T[b] = y.list[i].type
    <3>1. /\ x.list[i].offset + x.list[i].length <= EndOf(x)
          /\ \A b \in x.list[i].offset .. (x.list[i].offset + x.list[i].length - 1) :
                T[b] = x.list[i].type
      BY DEF Tells
    <3>2. CASE i = n
      <4> HIDE DEF n
      <4>1. y.list[n].offset + y.list[n].length = EndOf(y)
        BY <1>0, <2>2, <2>3, <2>4
      <4>2. ASSUME NEW b \in y.list[n].offset .. (y.list[n].offset + y.list[n].length - 1)
            PROVE  T[b] = e.type
        <5>1. y.list[n].offset + y.list[n].length = e.offset + e.length
          BY <2>4, <4>1
        <5>2. \/ b \in x.list[n].offset .. (x.list[n].offset + x.list[n].length - 1)
              \/ b \in e.offset .. (e.offset + e.length - 1)
          <6>1. b \in x.list[n].offset .. (x.list[n].offset + x.list[n].length + e.length - 1)
            <7> HIDE DEF y
            <7>1. /\ y.list[n].offset = x.list[n].offset
                  /\ y.list[n].length = x.list[n].length + e.length
              BY <2>2
            <7>2. /\ x.list[n].offset \in Nat /\ x.list[n].length \in Nat
                  /\ e.length \in Nat
              BY <1>0, <2>3
            <7> QED BY <7>1, <7>2
          <6> QED BY <1>0, <2>3, <2>4, <6>1, Split
        <5> QED BY <2>4, <3>1, <3>2, <5>2
      <4>3. EndOf(y) \in Nat
        BY <1>0, <2>3, <2>4
      <4> QED BY <2>2, <2>4, <3>2, <4>1, <4>2, <4>3
    <3>3. CASE i # n
      <4>1. i \in 1 .. (n - 1)
        BY <1>0, <3>3
      <4>2. y.list[i] = x.list[i] /\ EndOf(x) \in Nat
        <5> HIDE DEF n
        <5> QED BY <2>2, <2>3, <2>4, <4>1
      <4>3. x.list[i].offset \in Nat /\ x.list[i].length \in Nat
        BY <1>1
      <4>4. y.list[i].offset + y.list[i].length <= EndOf(y)
        BY <1>0, <2>4, <3>1, <4>2, <4>3
      <4> QED BY <3>1, <4>2, <4>4
    <3> QED BY <3>2, <3>3
  <2> QED BY <2>1, <2>2, <2>5 DEF Tells
<1>3. CASE ~(x.list # <<>> /\ LastOf(x).type = e.type)
  <2> DEFINE s == Append(x.list, e)
             y == [x EXCEPT !.list = s]
  <2>1. Push(x, e) = y
    BY <1>3 DEF Push
  <2>2. /\ Len(s) = n + 1 /\ s[n + 1] = e /\ \A i \in 1 .. n : s[i] = x.list[i]
    BY <1>0
  <2>3. y.list = s
    BY DEF ListType
  <2> HIDE DEF y, s
  <2>4. EndOf(y) = e.offset + e.length
    BY <2>2, <2>3 DEF EndOf, LastOf
  <2>5. ASSUME NEW i \in 1 .. (n + 1)
        PROVE  /\ s[i].offset + s[i].length <= EndOf(y)
               /\ \A b \in s[i].offset .. (s[i].offset + s[i].length - 1) : T[b] = s[i].type
    <3>1. CASE i = n + 1
      BY <1>0, <2>2, <2>4, <3>1
    <3>2. CASE i \in 1 .. n
      <4>1. /\ x.list[i].offset + x.list[i].length <= EndOf(x)
            /\ \A b \in x.list[i].offset .. (x.list[i].offset + x.list[i].length - 1) :
                  T[b] = x.list[i].type
        BY <3>2 DEF Tells
      <4>2. s[i] = x.list[i] /\ e.offset = EndOf(x)
        BY <1>0, <2>2, <3>2
      <4> QED BY <1>0, <1>1, <2>4, <3>2, <4>1, <4>2
    <3> QED BY <1>0, <3>1, <3>2
  <2>6. Len(y.list) = n + 1
    BY <2>2, <2>3
  <2> QED BY <2>1, <2>3, <2>5, <2>6 DEF Tells
<1> QED BY <1>2, <1>3

\* The list after nbdkit_add_extent, below 2^63: it is well formed, and says
\* of every byte what was said last, U, where T is what was said before.
LEMMA AddKeeps ==
    ASSUME NEW x, ListInv(x), NEW offset \in Nat, NEW length \in Nat,
           NEW type \in Types, offset + length < Half, NEW T, NEW U, Tells(x, T),
           \A b \in 0 .. (x.end - 1) :
              U[b] = IF /\ nbdkit_add_extent(x, offset, length, type).r = 0
                        /\ b \in offset .. (offset + length - 1)
                     THEN type ELSE T[b]
    PROVE  /\ ListInv(nbdkit_add_extent(x, offset, length, type).exts)
           /\ Tells(nbdkit_add_extent(x, offset, length, type).exts, U)
<1> DEFINE sum == offset + length
           moved == [x EXCEPT !.next = Signed(sum % Wrap)]
           len == Shorten(x, offset, length)
           over == IF x.list = <<>> THEN x.start - offset ELSE 0
           e == Extent(offset + over, len - over, type)
<1>1. /\ x \in ListType /\ x.start \in Nat /\ x.end \in Nat
      /\ x.start < Half /\ x.end < Half /\ Half \in Nat
      /\ Len(x.list) \in Nat /\ x.list \in Seq(ExtentType)
      /\ x.next \in -1 .. (Half - 1) /\ WellFormed(x) /\ NextInv(x)
  BY ExtentAssumption DEF ListInv, ListType
<1>2. sum % Wrap = sum /\ Signed(sum) = sum
  BY <1>1, BelowWrap DEF Signed
<1>3. /\ moved \in ListType /\ moved.start = x.start /\ moved.end = x.end
      /\ moved.list = x.list /\ moved.next = sum
  BY <1>1, <1>2 DEF ListType
<1> HIDE DEF moved
<1>4. WellFormed(moved)
  BY <1>1, <1>3 DEF WellFormed, LastOf
<1>5. len = IF sum > x.end THEN (length - (sum - x.end)) % Wrap ELSE length
  BY <1>2 DEF Shorten
<1>6. ASSUME ~OutOfOrder(x, offset), x.list # <<>>
      PROVE  offset = x.next /\ sum >= EndOf(x) /\ EndOf(x) \in Nat
  <2>1. LastOf(x) \in ExtentType
    BY <1>1, <1>6 DEF LastOf
  <2>2. EndOf(x) \in Nat
    BY <2>1 DEF EndOf, ExtentType
  <2>3. x.next >= EndOf(x)
    BY <1>1, <1>6 DEF NextInv
  <2>4. offset = x.next
    BY <2>2, <2>3, <1>1, <1>6 DEF OutOfOrder
  <2> QED BY <2>2, <2>3, <2>4
<1>11. ASSUME NEW i \in 1 .. Len(x.list),
              NEW b \in x.list[i].offset .. (x.list[i].offset + x.list[i].length - 1)
       PROVE  b \in 0 .. (x.end - 1) /\ b < EndOf(x) /\ T[b] = x.list[i].type
  <2>1. x.list[i] \in ExtentType
    BY <1>1
  <2>2. /\ x.list[i].offset + x.list[i].length <= EndOf(x) /\ T[b] = x.list[i].type
        /\ x.list[i].offset + x.list[i].length <= x.end
    BY <1>1 DEF Tells, WellFormed
  <2>3. EndOf(x) \in Nat
    <3>1. LastOf(x) \in ExtentType
      BY <1>1 DEF LastOf
    <3> QED BY <3>1 DEF EndOf, ExtentType
  <2>4. x.list[i].offset \in Nat /\ x.list[i].length \in Nat
    BY <2>1 DEF ExtentType
  <2>5. x.end \in Nat
    BY <1>1
  <2> QED BY <2>2, <2>3, <2>4, <2>5, Within
<1>7. CASE OutOfOrder(x, offset)
  <2>1. /\ nbdkit_add_extent(x, offset, length, type).exts = x
        /\ nbdkit_add_extent(x, offset, length, type).r = -1
    BY <1>7 DEF nbdkit_add_extent
  <2>2. \A b \in 0 .. (x.end - 1) : U[b] = T[b]
    BY <2>1
  <2>3. Tells(x, U)
    BY <1>11, <2>2 DEF Tells
  <2> QED BY <2>1, <2>3
<1>12. ASSUME ~OutOfOrder(x, offset) PROVE Tells(moved, U)
  <2>1. ASSUME NEW i \in 1 .. Len(x.list),
               NEW b \in x.list[i].offset .. (x.list[i].offset + x.list[i].length - 1)
        PROVE  U[b] = T[b]
    <3>1. b \in 0 .. (x.end - 1) /\ b < EndOf(x)
      BY <1>11
    <3>2. x.list # <<>>
      BY <1>1
    <3>3. offset = x.next /\ EndOf(x) \in Nat /\ x.next >= EndOf(x)
      BY <1>1, <1>6, <1>12, <3>2 DEF NextInv
    <3>4. b \notin offset .. (offset + length - 1)
      BY <1>1, <3>1, <3>3
    <3> QED BY <3>1, <3>4
  <2>2. EndOf(moved) = EndOf(x)
    BY <1>3 DEF EndOf, LastOf
  <2> QED BY <1>3, <1>11, <2>1, <2>2 DEF Tells
<1>8. ASSUME ~OutOfOrder(x, offset), x.list = <<>> \/ Ignored(x, offset, length)
      PROVE  ListInv(moved) /\ Tells(moved, U)
  <2>1. moved.next \in -1 .. (Half - 1)
    BY <1>1, <1>3
  <2>2. NextInv(moved)
    <3> SUFFICES ASSUME x.list # <<>>
                 PROVE  /\ moved.next >= EndOf(moved)
                        /\ \/ moved.next = EndOf(moved)
                           \/ EndOf(moved) = moved.end
                           \/ Len(moved.list) = MAX_EXTENTS
      BY <1>3 DEF NextInv
    <3>1. EndOf(moved) = EndOf(x)
      BY <1>3 DEF EndOf, LastOf
    <3>2. offset = x.next /\ sum >= EndOf(x) /\ EndOf(x) \in Nat
      BY <1>6, <1>8
    <3>3. Len(x.list) <= MAX_EXTENTS /\ EndOf(x) <= x.end
      BY <1>1 DEF WellFormed, EndOf, LastOf
    <3>4. x.next = EndOf(x) \/ EndOf(x) = x.end \/ Len(x.list) = MAX_EXTENTS
      BY <1>1 DEF NextInv
    <3>5. length = 0 \/ offset >= x.end \/ Len(x.list) >= MAX_EXTENTS
      BY <1>8 DEF Ignored
    <3> QED BY <3>1, <3>2, <3>3, <3>4, <3>5, <1>1, <1>3, ExtentAssumption
  <2> QED BY <1>1, <1>3, <1>4, <1>8, <1>12, <2>1, <2>2 DEF ListInv
<1>9. ASSUME ~OutOfOrder(x, offset), ~Ignored(x, offset, length),
             ~(x.list = <<>> /\ (offset + len) % Wrap <= x.start),
             ~(x.list = <<>> /\ offset > x.start)
      PROVE  ListInv(Push(moved, e)) /\ Tells(Push(moved, e), U)
  <2>1. /\ length > 0 /\ offset < x.end /\ Len(x.list) < MAX_EXTENTS
    BY <1>1, <1>9, ExtentAssumption DEF Ignored
  <2>2. /\ len \in Nat /\ len > 0
        /\ offset + len = IF sum > x.end THEN x.end ELSE sum
    <3>1. CASE sum > x.end
      <4>1. length - (sum - x.end) = x.end - offset
        BY <1>1
      <4>2. (x.end - offset) % Wrap = x.end - offset
        BY <1>1, <2>1, BelowWrap
      <4>3. len = x.end - offset
        BY <1>5, <3>1, <4>1, <4>2
      <4> QED BY <3>1, <4>3, <2>1, <1>1
    <3>2. CASE ~(sum > x.end)
      BY <1>5, <3>2, <2>1
    <3> QED BY <3>1, <3>2
  <2> HIDE DEF len
  <2>3. (offset + len) % Wrap = offset + len
    BY <1>1, <2>2, BelowWrap
  <2>4. /\ over \in Nat /\ over < len
        /\ x.list = <<>> => offset + over = x.start
        /\ x.list # <<>> => over = 0
    BY <1>1, <1>9, <2>2, <2>3
  <2> HIDE DEF over
  <2>5. /\ e \in ExtentType /\ e.offset = offset + over
        /\ e.length = len - over /\ e.length > 0 /\ e.type = type
        /\ e.offset + e.length = offset + len
    BY <2>2, <2>4 DEF Extent, ExtentType
  <2> HIDE DEF e
  <2>6. x.list # <<>> => offset = EndOf(x)
    BY <1>1, <1>6, <1>9, <2>1 DEF NextInv
  <2>7. /\ moved.list = <<>> => e.offset = moved.start
        /\ moved.list # <<>> => e.offset = EndOf(moved)
    BY <1>3, <2>4, <2>5, <2>6 DEF EndOf, LastOf
  <2>8. e.offset + e.length <= moved.end
    BY <1>1, <1>3, <2>2, <2>5
  <2>9. /\ Push(moved, e) \in ListType /\ WellFormed(Push(moved, e))
        /\ Push(moved, e).start = x.start /\ Push(moved, e).end = x.end
        /\ Push(moved, e).next = sum /\ Push(moved, e).list # <<>>
        /\ EndOf(Push(moved, e)) = offset + len
    BY <1>3, <1>4, <2>1, <2>5, <2>7, <2>8, PushKeeps
  <2> HIDE DEF sum
  <2>10. NextInv(Push(moved, e))
    BY <2>2, <2>9, <1>1 DEF NextInv, sum
  <2>11. nbdkit_add_extent(x, offset, length, type).r = 0
    BY <1>9 DEF nbdkit_add_extent, len
  <2>12. \A b \in e.offset .. (e.offset + e.length - 1) : U[b] = e.type
    <3> SUFFICES ASSUME NEW b \in e.offset .. (e.offset + e.length - 1) PROVE U[b] = type
      BY <2>5
    <3>1. offset + len <= offset + length
      BY <1>1, <2>2 DEF sum
    <3>2. /\ b \in Int /\ offset <= b /\ b <= offset + len - 1
      BY <1>1, <2>2, <2>4, <2>5
    <3>3. b \in offset .. (offset + length - 1)
      BY <1>1, <2>2, <3>1, <3>2
    <3>4. b \in 0 .. (x.end - 1)
      BY <1>1, <1>3, <2>2, <2>5, <2>8, <3>2
    <3> QED BY <2>11, <3>3, <3>4
  <2>13. Tells(Push(moved, e), U)
    BY <1>3, <1>9, <1>12, <2>5, <2>7, <2>12, PushTells
  <2> QED BY <1>1, <2>9, <2>10, <2>13 DEF ListInv, sum
<1> HIDE DEF len, over, e
<1>10. nbdkit_add_extent(x, offset, length, type).exts =
         IF OutOfOrder(x, offset) THEN x
         ELSE IF \/ Ignored(x, offset, length)
                 \/ x.list = <<>> /\ (offset + len) % Wrap <= x.start
                 \/ x.list = <<>> /\ offset > x.start
         THEN moved ELSE Push(moved, e)
  BY DEF nbdkit_add_extent, moved, len, over, e
<1> QED BY <1>1, <1>7, <1>8, <1>9, <1>10 DEF ListInv

\* The blocks made so far are the first extents of the list, uncut, and all
\* but the last one end inside the request.
Copied(m) ==
    \A i \in 1 .. m :
       /\ blocks[i].length = exts.list[i].length /\ blocks[i].type = exts.list[i].type
       /\ exts.list[i].offset + exts.list[i].length <= req.offset + req.count
       /\ exts.list[i].length <= U32

ReplyInv ==
    /\ req.offset \in Disk /\ req.count \in 1 .. U32
    /\ blocks \in Seq([length : Nat, type : Types])
    /\ phase = "fill" => blocks = <<>>
    /\ phase = "convert" => Len(blocks) < Len(exts.list) /\ Copied(Len(blocks))
    /\ ReplyIsFaithful

IndInv ==
    /\ ListInv(exts) /\ exts.end = DiskSize /\ exts.start = req.offset
    /\ Tells(exts, told)
    /\ ReplyInv

LEMMA IndInvInit == Init => IndInv
<1> SUFFICES ASSUME Init PROVE IndInv
  OBVIOUS
<1>1. /\ req.offset \in 0 .. (DiskSize - 1) /\ req.count \in 1 .. U32
      /\ exts = nbdkit_extents_new(req.offset, DiskSize)
  BY DEF Init, Disk
<1>2. /\ exts.start = req.offset /\ exts.end = DiskSize /\ exts.next = -1
      /\ exts.list = <<>> /\ exts \in ListType
  BY <1>1, SizeAssumption DEF nbdkit_extents_new, ListType
<1>3. WellFormed(exts)
  BY <1>2, ExtentAssumption DEF WellFormed
<1>4. -1 \in -1 .. (Half - 1)
  BY ExtentAssumption
<1>5. ListInv(exts)
  BY <1>1, <1>2, <1>3, <1>4, SizeAssumption, ExtentAssumption DEF ListInv, NextInv
<1>6. Tells(exts, told)
  BY <1>2 DEF Tells
<1>7. ReplyInv
  BY <1>1 DEF Init, ReplyInv, ReplyIsFaithful, Disk
<1> QED BY <1>2, <1>5, <1>6, <1>7 DEF IndInv

\* The types of what the invariant is about.
LEMMA ListFacts ==
    ASSUME IndInv
    PROVE  /\ exts.list \in Seq(ExtentType) /\ Len(exts.list) \in Nat
           /\ \A i \in 1 .. Len(exts.list) :
                 /\ exts.list[i].offset \in Nat /\ exts.list[i].length \in Nat \ {0}
                 /\ exts.list[i].type \in Types
                 /\ exts.list[i].offset + exts.list[i].length <= DiskSize
                 /\ exts.list[i].offset \in Disk
           /\ exts.list # <<>> => exts.list[1].offset = req.offset
           /\ \A i \in 1 .. (Len(exts.list) - 1) :
                 exts.list[i].offset + exts.list[i].length = exts.list[i + 1].offset
<1>1. exts.list \in Seq(ExtentType) /\ WellFormed(exts)
  BY DEF IndInv, ListInv, ListType
<1>2. \A i \in 1 .. Len(exts.list) : exts.list[i] \in ExtentType
  BY <1>1
<1>3. \A i \in 1 .. Len(exts.list) :
         /\ exts.list[i].length > 0
         /\ exts.list[i].offset + exts.list[i].length <= DiskSize
  BY <1>1 DEF WellFormed, IndInv
<1>4. \A i \in 1 .. Len(exts.list) :
         /\ exts.list[i].offset \in Nat /\ exts.list[i].length \in Nat
         /\ exts.list[i].type \in Types
  BY <1>2 DEF ExtentType
<1>5. \A i \in 1 .. Len(exts.list) : exts.list[i].offset \in Disk
  BY <1>3, <1>4, SizeAssumption DEF Disk
<1>6. exts.list # <<>> => exts.list[1].offset = req.offset
  BY <1>1 DEF WellFormed, IndInv
<1> QED BY <1>1, <1>3, <1>4, <1>5, <1>6 DEF WellFormed

LEMMA AddStep ==
    ASSUME MaxSum < Half, IndInv, NEW offset \in 0 .. MaxSum, NEW length \in 0 .. MaxSum,
           NEW type \in Types, offset + length <= MaxSum, Add(offset, length, type)
    PROVE  IndInv'
<1>1. offset \in Nat /\ length \in Nat /\ offset + length < Half
  BY SizeAssumption, ExtentAssumption
<1>2. /\ exts' = nbdkit_add_extent(exts, offset, length, type).exts
      /\ UNCHANGED <<req, phase, blocks>> /\ phase = "fill"
      /\ told' = [b \in Disk |->
                    IF /\ nbdkit_add_extent(exts, offset, length, type).r = 0
                       /\ b \in offset .. (offset + length - 1)
                    THEN type ELSE told[b]]
  BY DEF Add
<1>3. \A b \in 0 .. (exts.end - 1) :
         told'[b] = IF /\ nbdkit_add_extent(exts, offset, length, type).r = 0
                       /\ b \in offset .. (offset + length - 1)
                    THEN type ELSE told[b]
  BY <1>2 DEF IndInv, Disk
<1>4. ListInv(exts) /\ Tells(exts, told)
  BY DEF IndInv
<1> HIDE DEF IndInv
<1>5. ListInv(exts') /\ Tells(exts', told')
  BY <1>1, <1>2, <1>3, <1>4, AddKeeps
<1>6. exts'.end = exts.end /\ exts'.start = exts.start
  BY <1>2, <1>4 DEF nbdkit_add_extent, Push, ListInv, ListType
<1>7. ReplyInv'
  BY <1>2 DEF IndInv, ReplyInv, ReplyIsFaithful
<1> QED BY <1>2, <1>5, <1>6, <1>7 DEF IndInv

\* A block made from the front of an extent is told what the extent was.
LEMMA Front ==
    ASSUME IndInv, NEW i \in 1 .. Len(exts.list), NEW n \in Nat, n <= exts.list[i].length
    PROVE  \A b \in exts.list[i].offset .. (exts.list[i].offset + n - 1) :
              told[b] = exts.list[i].type
<1>1. exts.list[i].offset \in Nat /\ exts.list[i].length \in Nat
  BY ListFacts
<1>2. \A b \in exts.list[i].offset .. (exts.list[i].offset + exts.list[i].length - 1) :
         told[b] = exts.list[i].type
  BY DEF IndInv, Tells
<1> QED BY <1>1, <1>2

LEMMA OneStep == ASSUME IndInv, ConvertOne PROVE IndInv'
<1> DEFINE m == MIN(exts.list[1].length, req.count)
           block == [length |-> m, type |-> exts.list[1].type]
<1>1. /\ phase = "convert" /\ phase' = "replied" /\ UNCHANGED <<req, exts, told>>
      /\ blocks' = <<block>>
  BY DEF ConvertOne
<1>2. req.offset \in Disk /\ req.count \in 1 .. U32 /\ blocks \in Seq([length : Nat, type : Types])
      /\ Len(blocks) < Len(exts.list)
  BY <1>1 DEF IndInv, ReplyInv
<1>3. 1 \in 1 .. Len(exts.list) /\ exts.list # <<>>
  BY <1>2, ListFacts
<1>4. /\ exts.list[1].offset = req.offset /\ exts.list[1].length \in Nat \ {0}
      /\ exts.list[1].type \in Types
  BY <1>3, ListFacts
<1>5. m \in 1 .. U32 /\ m <= req.count /\ m <= exts.list[1].length /\ m \in Nat
  BY <1>2, <1>4, SizeAssumption DEF MIN
<1> HIDE DEF m
<1>6. block \in [length : Nat, type : Types] /\ block.length = m
      /\ block.type = exts.list[1].type
  BY <1>4, <1>5
<1> HIDE DEF block
<1>7. \A b \in req.offset .. (req.offset + m - 1) : told[b] = exts.list[1].type
  BY <1>3, <1>4, <1>5, Front
<1>8. Len(blocks') = 1 /\ blocks'[1] = block /\ blocks' # <<>>
      /\ blocks' \in Seq([length : Nat, type : Types])
  BY <1>1, <1>6
<1>9. ReplyIsFaithful'
  <2> DEFINE start == [i \in 1 .. 1 |-> req.offset]
  <2>1. start \in [1 .. 1 -> Disk] /\ start[1] = req.offset
    BY <1>2
  <2>2. /\ start[1] = req'.offset
        /\ \A i \in 1 .. (Len(blocks') - 1) : start[i + 1] = start[i] + blocks'[i].length
    BY <1>1, <1>8, <2>1
  <2>3. req.offset <= req.offset + req.count
    BY <1>2, SizeAssumption DEF Disk
  <2> HIDE DEF start
  <2>4. /\ \A i \in 1 .. 1 :
              /\ blocks'[i].length \in 1 .. U32 /\ start[i] <= req'.offset + req'.count
              /\ \A b \in start[i] .. (start[i] + blocks'[i].length - 1) :
                    told'[b] = blocks'[i].type
        /\ blocks'[1].length <= req'.count
    BY <1>1, <1>5, <1>6, <1>7, <1>8, <2>1, <2>3
  <2>5. start \in [1 .. Len(blocks') -> Disk]
    BY <1>8, <2>1
  <2> QED BY <1>8, <2>2, <2>4, <2>5 DEF ReplyIsFaithful, StartsAt
<1>10. ReplyInv'
  BY <1>1, <1>2, <1>8, <1>9 DEF ReplyInv, Disk
<1> QED BY <1>1, <1>10 DEF IndInv

LEMMA NextStep == ASSUME IndInv, ConvertNext PROVE IndInv'
<1> DEFINE n == Len(blocks) + 1
           m == MIN(exts.list[n].length, U32)
           block == [length |-> m, type |-> exts.list[n].type]
<1>1. /\ phase = "convert" /\ ~req.req_one /\ UNCHANGED <<req, exts, told>>
      /\ blocks' = Append(blocks, block)
      /\ phase' \in {"replied", "crashed", "convert"}
      /\ phase' = "convert" =>
            /\ ~ (exts.list[n].offset + m > req.offset + req.count)
            /\ ~ (exts.list[n].length > m) /\ n # Len(exts.list)
  BY DEF ConvertNext, LastBlock
<1>2. /\ req.offset \in Disk /\ req.count \in 1 .. U32
      /\ blocks \in Seq([length : Nat, type : Types])
      /\ Len(blocks) < Len(exts.list) /\ Copied(Len(blocks))
  BY <1>1 DEF IndInv, ReplyInv
<1>3. /\ Len(blocks) \in Nat /\ Len(exts.list) \in Nat /\ n \in 1 .. Len(exts.list)
      /\ 1 \in 1 .. Len(exts.list) /\ exts.list # <<>> /\ n \in Nat
  <2>1. Len(blocks) \in Nat /\ Len(exts.list) \in Nat
    BY <1>2, ListFacts
  <2> QED BY <1>2, <2>1
<1>4. /\ exts.list[n].offset \in Nat /\ exts.list[n].length \in Nat \ {0}
      /\ exts.list[n].type \in Types
  BY <1>3, ListFacts
<1>5. m \in 1 .. U32 /\ m <= exts.list[n].length /\ m \in Nat
  BY <1>4, SizeAssumption DEF MIN
<1>6. req.offset \in Nat /\ req.count \in Nat
  BY <1>2, SizeAssumption DEF Disk
<1> HIDE DEF m
<1>7. /\ block \in [length : Nat, type : Types] /\ block.length = m
      /\ block.type = exts.list[n].type
  BY <1>4, <1>5
<1> HIDE DEF block
<1>8. /\ blocks' \in Seq([length : Nat, type : Types]) /\ Len(blocks') = n
      /\ blocks'[n] = block /\ \A i \in 1 .. Len(blocks) : blocks'[i] = blocks[i]
  BY <1>1, <1>2, <1>7
<1>9. \A i \in 1 .. n : i = n \/ i \in 1 .. Len(blocks)
  BY <1>3
<1>10. 1 .. n \subseteq 1 .. Len(exts.list)
  BY <1>3
<1> HIDE DEF n
<1>11. \A i \in 1 .. n :
          /\ blocks'[i].length \in 1 .. U32 /\ blocks'[i].length \in Nat
          /\ blocks'[i].length <= exts.list[i].length
          /\ blocks'[i].type = exts.list[i].type
  <2> SUFFICES ASSUME NEW i \in 1 .. n
               PROVE  /\ blocks'[i].length \in 1 .. U32 /\ blocks'[i].length \in Nat
                      /\ blocks'[i].length <= exts.list[i].length
                      /\ blocks'[i].type = exts.list[i].type
    OBVIOUS
  <2>1. CASE i = n
    BY <1>5, <1>7, <1>8, <2>1
  <2>2. CASE i \in 1 .. Len(blocks)
    <3>1. /\ blocks'[i].length = exts.list[i].length /\ blocks'[i].type = exts.list[i].type
          /\ exts.list[i].length <= U32
      BY <1>2, <1>8, <2>2 DEF Copied
    <3>2. exts.list[i].length \in Nat \ {0}
      BY <1>10, ListFacts
    <3> QED BY <3>1, <3>2, SizeAssumption
  <2> QED BY <1>9, <2>1, <2>2
<1>12. CASE phase' = "convert"
  <2>1. exts.list[n].length = m /\ exts.list[n].offset + m <= req.offset + req.count
        /\ m <= U32 /\ n < Len(exts.list)
    <3>1. /\ ~ (exts.list[n].offset + m > req.offset + req.count)
          /\ ~ (exts.list[n].length > m) /\ n # Len(exts.list)
      BY <1>1, <1>12
    <3>2. n < Len(exts.list)
      BY <1>3, <3>1
    <3>3. exts.list[n].length = m /\ m <= U32
      BY <1>4, <1>5, <3>1, SizeAssumption
    <3>4. exts.list[n].offset + m <= req.offset + req.count
      BY <1>4, <1>5, <1>6, <3>1
    <3> QED BY <3>2, <3>3, <3>4
  <2>2. \A i \in 1 .. n :
           /\ blocks'[i].length = exts.list[i].length
           /\ blocks'[i].type = exts.list[i].type
           /\ exts.list[i].offset + exts.list[i].length <= req.offset + req.count
           /\ exts.list[i].length <= U32
    BY <1>2, <1>7, <1>8, <1>9, <2>1 DEF Copied
  <2>3. Len(blocks') < Len(exts'.list) /\ \A i : i = Len(blocks') => Copied(i)'
    BY <1>1, <1>8, <2>1, <2>2 DEF Copied
  <2>4. ReplyInv'
    BY <1>1, <1>2, <1>8, <1>12, <2>2, <2>3 DEF ReplyInv, ReplyIsFaithful, Copied, Disk
  <2> QED BY <1>1, <2>4 DEF IndInv
<1>13. CASE phase' = "replied"
  <2> DEFINE start == [i \in 1 .. n |-> exts.list[i].offset]
  <2>1. start \in [1 .. n -> Disk] /\ \A i \in 1 .. n : start[i] = exts.list[i].offset
    BY <1>10, ListFacts
  <2> HIDE DEF start
  <2>2. /\ start[1] = req.offset /\ 1 \in 1 .. n
        /\ \A i \in 1 .. (n - 1) : i \in 1 .. n /\ i + 1 \in 1 .. n
        /\ \A i \in 1 .. (n - 1) : i \in 1 .. Len(blocks)
        /\ \A i \in 1 .. (n - 1) : i \in 1 .. (Len(exts.list) - 1)
    <3>1. 1 \in 1 .. n
      BY <1>3
    <3> QED BY <1>3, <2>1, <3>1, ListFacts DEF n
  <2>3. \A i \in 1 .. (n - 1) :
           /\ start[i + 1] = start[i] + blocks'[i].length
           /\ start[i + 1] <= req.offset + req.count
    <3> SUFFICES ASSUME NEW i \in 1 .. (n - 1)
                 PROVE  /\ start[i + 1] = start[i] + blocks'[i].length
                        /\ start[i + 1] <= req.offset + req.count
      OBVIOUS
    <3>1. start[i + 1] = exts.list[i + 1].offset /\ start[i] = exts.list[i].offset
      BY <2>1, <2>2
    <3>2. exts.list[i].offset + exts.list[i].length = exts.list[i + 1].offset
      BY <2>2, ListFacts
    <3>3. /\ blocks'[i].length = exts.list[i].length
          /\ exts.list[i].offset + exts.list[i].length <= req.offset + req.count
      BY <1>2, <1>8, <2>2 DEF Copied
    <3> QED BY <3>1, <3>2, <3>3
  <2>4. \A i \in 1 .. n : start[i] <= req.offset + req.count
    <3> SUFFICES ASSUME NEW i \in 1 .. n PROVE start[i] <= req.offset + req.count
      OBVIOUS
    <3>1. CASE i = 1
      BY <1>6, <2>2, <3>1
    <3>2. CASE i # 1
      <4>1. i - 1 \in 1 .. (n - 1) /\ (i - 1) + 1 = i
        BY <1>3, <3>2
      <4> QED BY <2>3, <4>1
    <3> QED BY <3>1, <3>2
  <2>5. \A i \in 1 .. n : \A b \in start[i] .. (start[i] + blocks'[i].length - 1) :
           told[b] = blocks'[i].type
    <3> SUFFICES ASSUME NEW i \in 1 .. n
                 PROVE  \A b \in start[i] .. (start[i] + blocks'[i].length - 1) :
                           told[b] = exts.list[i].type
      BY <1>11
    <3>1. i \in 1 .. Len(exts.list) /\ start[i] = exts.list[i].offset
      BY <1>10, <2>1
    <3>2. blocks'[i].length \in Nat /\ blocks'[i].length <= exts.list[i].length
      BY <1>11
    <3> QED BY <3>1, <3>2, Front
  <2>6. start \in [1 .. Len(blocks') -> Disk] /\ blocks' # <<>>
    BY <1>3, <1>8, <2>1
  <2>7. ReplyIsFaithful'
    BY <1>1, <1>8, <1>11, <2>2, <2>3, <2>4, <2>5, <2>6 DEF ReplyIsFaithful, StartsAt
  <2>8. ReplyInv'
    BY <1>1, <1>2, <1>8, <1>13, <2>7 DEF ReplyInv, Disk
  <2> QED BY <1>1, <2>8 DEF IndInv
<1>14. CASE phase' = "crashed"
  <2>1. ReplyInv'
    BY <1>1, <1>2, <1>8, <1>14 DEF ReplyInv, ReplyIsFaithful, Disk
  <2> QED BY <1>1, <2>1 DEF IndInv
<1> QED BY <1>1, <1>12, <1>13, <1>14

LEMMA IndInvNext ==
    ASSUME MaxSum < Half
    PROVE  IndInv /\ [Next]_vars => IndInv'
<1> SUFFICES ASSUME IndInv, [Next]_vars PROVE IndInv'
  OBVIOUS
<1>1. ASSUME NEW offset \in 0 .. MaxSum, NEW length \in 0 .. MaxSum,
             NEW type \in Types, offset + length <= MaxSum,
             Add(offset, length, type)
      PROVE  IndInv'
  BY <1>1, AddStep
<1>2. CASE plugin_extents_error
  <2>1. UNCHANGED <<req, exts, told, blocks>> /\ phase' = "error"
    BY <1>2 DEF plugin_extents_error
  <2> QED BY <2>1 DEF IndInv, ReplyInv, ReplyIsFaithful
<1>3. CASE plugin_extents
  <2>1. /\ UNCHANGED <<req, exts, told, blocks>> /\ phase = "fill" /\ phase' = "convert"
        /\ exts.list # <<>>
    BY <1>3 DEF plugin_extents
  <2>2. Len(blocks) = 0 /\ exts.list \in Seq(ExtentType)
    BY <2>1, ListFacts DEF IndInv, ReplyInv
  <2>3. Len(blocks) < Len(exts.list)
    BY <2>1, <2>2
  <2> QED BY <2>1, <2>2, <2>3 DEF IndInv, ReplyInv, ReplyIsFaithful, Copied
<1>4. CASE ConvertOne
  BY <1>4, OneStep
<1>5. CASE ConvertNext
  BY <1>5, NextStep
<1>6. CASE UNCHANGED vars
  BY <1>6 DEF vars, IndInv, ReplyInv, ReplyIsFaithful, StartsAt, Copied
<1> QED BY <1>1, <1>2, <1>3, <1>4, <1>5, <1>6 DEF Next

\* For every export size, every MAX_EXTENTS and every sequence of calls whose
\* extents end below 2^63, the list nbdkit_add_extent builds is well formed.
THEOREM ListAlwaysWellFormed ==
    ASSUME MaxSum < Half
    PROVE  Spec => []ListIsWellFormed
<1>1. IndInv => ListIsWellFormed
  <2> SUFFICES ASSUME IndInv PROVE ListIsWellFormed
    OBVIOUS
  <2>1. /\ exts.list \in Seq(ExtentType) /\ WellFormed(exts)
        /\ exts.next \in -1 .. (Half - 1)
    BY DEF IndInv, ListInv, ListType
  <2>2. exts.next \in -Half .. (Half - 1)
    BY <2>1, ExtentAssumption
  <2>3. \A i \in 1 .. Len(exts.list) :
           exts.list[i].offset \in Disk /\ exts.list[i].type \in Types
    <3> SUFFICES ASSUME NEW i \in 1 .. Len(exts.list)
                 PROVE  exts.list[i].offset \in Disk
                          /\ exts.list[i].type \in Types
      OBVIOUS
    <3>1. exts.list[i] \in ExtentType
      BY <2>1
    <3>2. /\ exts.list[i].offset \in Nat /\ exts.list[i].length \in Nat
          /\ exts.list[i].type \in Types
      BY <3>1 DEF ExtentType
    <3>3. /\ exts.list[i].length > 0
          /\ exts.list[i].offset + exts.list[i].length <= DiskSize
      BY <2>1 DEF WellFormed, IndInv
    <3> QED BY <3>2, <3>3, SizeAssumption DEF Disk
  <2> QED BY <2>1, <2>2, <2>3 DEF ListIsWellFormed
<1> QED BY <1>1, IndInvInit, IndInvNext, PTL DEF Spec

\* For the same calls, what the client reads in the reply is what the plugin
\* told: the list loses and moves nothing, and the blocks made from it are
\* contiguous from the offset of the request, each of the type the plugin gave
\* for every byte of it, and only the last one goes beyond the request.
THEOREM ReplyAlwaysTrue ==
    ASSUME MaxSum < Half
    PROVE  Spec => []ReplyIsTrue
<1>1. IndInv => ReplyIsTrue
  BY DEF IndInv, ReplyInv, Tells, ReplyIsTrue, ListIsWhatPluginTold
<1> QED BY <1>1, IndInvInit, IndInvNext, PTL DEF Spec
=============================================================================
