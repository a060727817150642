----------------------------- MODULE LayoutProofs -----------------------------
(***************************************************************************)
(* What Layout computes, for inputs, traces and decoders of any length:    *)
(* the rows of a gap, the rows the events add one after the other, and     *)
(* that together they show every byte.  History, the user interface and    *)
(* the --quick output rest on these facts.                                 *)
(***************************************************************************)
EXTENDS Layout, WellFoundedInduction, TLAPS

-----------------------------------------------------------------------------
(* Numbers and sequences.                                                  *)

\* A bounded set of numbers has a least one.
LEMMA LeastOf ==
    ASSUME NEW bound \in Nat, NEW T, T # {}, T \subseteq 0 .. bound
    PROVE  \E x \in T : \A y \in T : x <= y
<1>1. \A x, y \in Nat : x < y => <<x, y>> \in OpToRel(<, Nat)
  BY DEF OpToRel
<1>2. T \subseteq Nat
  OBVIOUS
<1>3. \E x \in T : \A y \in T : ~(<<y, x>> \in OpToRel(<, Nat))
  BY <1>2, NatLessThanWellFounded, WFMin, Zenon
<1>4. PICK x \in T : \A y \in T : ~(y < x)
  BY <1>1, <1>2, <1>3, Zenon
<1>5. \A y \in T : x <= y
  BY <1>2, <1>4
<1> QED
  BY <1>5

\* And a greatest one.
LEMMA GreatestOf ==
    ASSUME NEW bound \in Nat, NEW T, T # {}, T \subseteq 0 .. bound
    PROVE  \E x \in T : \A y \in T : y <= x
<1> DEFINE U == { bound - x : x \in T }
<1>1. U # {} /\ U \subseteq 0 .. bound
  <2>1. \A x \in T : bound - x \in 0 .. bound
    OBVIOUS
  <2>2. PICK x \in T : TRUE
    OBVIOUS
  <2>3. bound - x \in U
    OBVIOUS
  <2> QED
    BY <2>1, <2>3
<1>2. PICK u \in U : \A v \in U : u <= v
  <2> HIDE DEF U
  <2> QED
    BY <1>1, LeastOf, Zenon
<1>3. PICK x \in T : u = bound - x
  OBVIOUS
<1>4. \A y \in T : bound - x <= bound - y
  BY <1>2, <1>3
<1> QED
  BY <1>4

\* Induction up to a bound.
LEMMA UpTo ==
    ASSUME NEW bound \in Nat, NEW S, 0 \in S,
           \A n \in 1 .. bound : n - 1 \in S => n \in S
    PROVE  0 .. bound \subseteq S
<1> DEFINE T == (0 .. bound) \ S
<1> SUFFICES ASSUME T # {} PROVE FALSE
  OBVIOUS
<1>1. T \subseteq 0 .. bound
  OBVIOUS
<1>2. PICK x \in T : \A y \in T : x <= y
  BY <1>1, LeastOf, Zenon
<1>3. x \in 1 .. bound /\ x \notin S /\ x - 1 \notin T
  BY <1>2
<1> QED
  BY <1>3

\* Induction from a bound downwards.
LEMMA DownFrom ==
    ASSUME NEW bound \in Nat, NEW S, bound \in S,
           \A x \in 0 .. bound - 1 : (\A y \in x + 1 .. bound : y \in S) => x \in S
    PROVE  0 .. bound \subseteq S
<1> DEFINE T == (0 .. bound) \ S
<1> SUFFICES ASSUME T # {} PROVE FALSE
  OBVIOUS
<1>1. T \subseteq 0 .. bound
  OBVIOUS
<1>2. PICK x \in T : \A y \in T : y <= x
  BY <1>1, GreatestOf, Zenon
<1>3. x \in 0 .. bound - 1 /\ x \notin S
  BY <1>2
<1>4. \A y \in x + 1 .. bound : y \in S
  BY <1>2, <1>3
<1> QED
  BY <1>3, <1>4

\* A sequence of anything.
IsSeq(q) == q \in Seq({ q[i] : i \in DOMAIN q })

\* A sequence over a set, and one given position by position.
LEMMA SeqFacts ==
    /\ \A q : IsSeq(q) => Len(q) \in Nat /\ DOMAIN q = 1 .. Len(q)
    /\ \A q, S : q \in Seq(S) => IsSeq(q) /\ \A i \in 1 .. Len(q) : q[i] \in S
<1>1. \A q : IsSeq(q) => Len(q) \in Nat /\ DOMAIN q = 1 .. Len(q)
  BY DEF IsSeq
<1>2. ASSUME NEW q, NEW S, q \in Seq(S)
      PROVE  IsSeq(q) /\ \A i \in 1 .. Len(q) : q[i] \in S
  <2>1. Len(q) \in Nat /\ q \in [1 .. Len(q) -> S]
    BY <1>2
  <2>2. q \in [1 .. Len(q) -> { q[i] : i \in DOMAIN q }]
    BY <2>1
  <2> QED
    BY <2>1, <2>2 DEF IsSeq
<1> QED
  BY <1>1, <1>2

\* A function over the first n positions is a sequence of that length.
LEMMA Listed ==
    ASSUME NEW q, NEW n \in Nat, q = [ i \in 1 .. n |-> q[i] ]
    PROVE  IsSeq(q) /\ Len(q) = n
<1> DEFINE S == { q[i] : i \in 1 .. n }
<1>1. DOMAIN q = 1 .. n /\ q \in [1 .. n -> S]
  OBVIOUS
<1>2. q \in Seq(S) /\ Len(q) = n
  BY <1>1
<1> QED
  BY <1>1, <1>2 DEF IsSeq

-----------------------------------------------------------------------------
(* Functions that are defined from the end.                                *)

\* A function that appends to each place what it is at a later one.
Descends(to, head, cut, f) ==
    f = [ x \in 0 .. to |-> IF x = to THEN <<>> ELSE head[x] \o f[cut[x]] ]

\* A function that is defined from the end of its domain towards the beginning.
LEMMA FromTheEnd ==
    ASSUME NEW to \in Nat, NEW head, NEW cut,
           \A x \in 0 .. to - 1 : cut[x] \in x + 1 .. to
    PROVE  \E f : Descends(to, head, cut, f)
<1> DEFINE Body(f, x) == IF x = to THEN <<>> ELSE head[x] \o f[cut[x]]
           S == { n \in Nat : \E f : f = [ x \in to - n .. to |-> Body(f, x) ] }
<1>1. 0 \in S
  <2> DEFINE f == [ x \in to - 0 .. to |-> <<>> ]
  <2>1. f = [ x \in to - 0 .. to |-> Body(f, x) ]
    OBVIOUS
  <2>2. \E h : h = [ x \in to - 0 .. to |-> Body(h, x) ]
    <3> HIDE DEF Body, f
    <3> QED
      BY <2>1
  <2> QED
    BY <2>2, Zenon
<1>2. ASSUME NEW n \in 1 .. to, n - 1 \in S PROVE n \in S
  <2>1. PICK f : f = [ x \in to - (n - 1) .. to |-> Body(f, x) ]
    BY <1>2
  <2> DEFINE g == [ x \in to - n .. to |-> IF x = to - n THEN Body(f, x) ELSE f[x] ]
  <2>2. ASSUME NEW x \in to - n .. to PROVE g[x] = Body(g, x)
    <3>1. CASE x = to
      <4>1. x # to - n /\ x \in to - (n - 1) .. to
        BY <3>1
      <4>2. g[x] = f[x] /\ f[x] = Body(f, x)
        BY <2>1, <4>1
      <4> QED
        BY <3>1, <4>2
    <3>2. CASE x # to
      <4>1. cut[x] \in x + 1 .. to
        BY <3>2
      <4>2. cut[x] \in to - (n - 1) .. to /\ cut[x] # to - n /\ cut[x] \in to - n .. to
        BY <4>1
      <4>3. g[cut[x]] = f[cut[x]]
        BY <4>2
      <4>4. g[x] = Body(f, x)
        <5>1. CASE x = to - n
          BY <5>1
        <5>2. CASE x # to - n
          <6>1. x \in to - (n - 1) .. to
            BY <5>2
          <6>2. f[x] = Body(f, x)
            BY <2>1, <6>1
          <6> QED
            BY <5>2, <6>2
        <5> QED
          BY <5>1, <5>2
      <4> QED
        BY <3>2, <4>3, <4>4
    <3> QED
      BY <3>1, <3>2
  <2>3. g = [ x \in to - n .. to |-> g[x] ]
    OBVIOUS
  <2> HIDE DEF g
  <2>4. g = [ x \in to - n .. to |-> Body(g, x) ]
    BY <2>2, <2>3
  <2>5. \E h : h = [ x \in to - n .. to |-> Body(h, x) ]
    <3> HIDE DEF Body
    <3> QED
      BY <2>4
  <2>6. n \in Nat
    OBVIOUS
  <2> QED
    BY <2>5, <2>6, Zenon
<1>3. to \in S
  <2> HIDE DEF S
  <2>1. 0 .. to \subseteq S
    BY <1>1, <1>2, UpTo, Zenon
  <2> QED
    BY <2>1
<1>4. PICK f : f = [ x \in to - to .. to |-> Body(f, x) ]
  BY <1>3
<1>5. to - to = 0
  OBVIOUS
<1>6. Descends(to, head, cut, f)
  BY <1>4, <1>5 DEF Descends
<1> QED
  BY <1>6

\* Joining rows.
LEMMA Joined ==
    ASSUME NEW R, NEW top \in Seq(R), NEW tail \in Seq(R)
    PROVE  /\ top \o tail \in Seq(R) /\ Len(top \o tail) = Len(top) + Len(tail)
           /\ Len(top) \in Nat /\ Len(tail) \in Nat
           /\ \A i \in 1 .. Len(top) : (top \o tail)[i] = top[i]
           /\ \A i \in 1 .. Len(tail) : (top \o tail)[Len(top) + i] = tail[i]
  OBVIOUS

\* Where a static row ends: behind its decode, at the next event or with the gap.
LEMMA CutExists ==
    ASSUME NEW events, NEW from \in Nat, NEW to \in Nat, from < to,
           NEW end \in Nat, from < end
    PROVE  \E b \in from + 1 .. to :
             /\ b <= end
             /\ b = to \/ b = end \/ StartsEvent(events, b)
             /\ \A c \in from + 1 .. b - 1 : ~StartsEvent(events, c)
<1> DEFINE T == { b \in from + 1 .. to : b = to \/ b = end \/ StartsEvent(events, b) }
<1>1. T # {} /\ T \subseteq 0 .. to
  <2>1. to \in T
    OBVIOUS
  <2> QED
    BY <2>1
<1>2. PICK b \in T : \A c \in T : b <= c
  <2> HIDE DEF T
  <2> QED
    BY <1>1, LeastOf, Zenon
<1>3. b <= end
  <2>1. CASE end <= to
    <3>1. end \in T
      BY <2>1
    <3> QED
      BY <1>2, <3>1
  <2>2. CASE ~(end <= to)
    BY <1>2, <2>2
  <2> QED
    BY <2>1, <2>2
<1>4. \A c \in from + 1 .. b - 1 : ~StartsEvent(events, c)
  BY <1>2
<1> QED
  BY <1>2, <1>3, <1>4

\* fill_gap makes static rows only, and at least one if the gap begins with a byte

-----------------------------------------------------------------------------
(* The rows of a gap.                                                      *)

\* Where a static row that begins at from ends: Gap's Cut.
IsCut(size, events, lengths, from, to, b) ==
    /\ b \in from + 1 .. to
    /\ b <= from + RowLength(size, lengths, from)
    /\ b = to \/ b = from + RowLength(size, lengths, from) \/ StartsEvent(events, b)
    /\ \A c \in from + 1 .. b - 1 : ~StartsEvent(events, c)

\* The static row between two places.
StaticAt(size, lengths, from, b) ==
    [ offset |-> from, length |-> b - from, event |-> 0,
      kind   |-> IF b = from + RowLength(size, lengths, from) THEN "NotReached" ELSE "Data" ]

\* What a gap shows at its first place.
GapHead(size, events, lengths, from, b) ==
    IF StartsEvent(events, from) THEN <<>> ELSE <<StaticAt(size, lengths, from, b)>>

\* A row is a piece of the input.
LEMMA RowLengthFits ==
    ASSUME NEW size \in Nat, NEW lengths \in [0 .. size - 1 -> Nat], NEW offset \in 0 .. size - 1
    PROVE  /\ RowLength(size, lengths, offset) \in Nat
           /\ RowLength(size, lengths, offset) > 0
           /\ offset + RowLength(size, lengths, offset) <= size
  BY DEF RowLength

\* There is one such end.
LEMMA OneCut ==
    ASSUME NEW size \in Nat, NEW events, NEW lengths \in [0 .. size - 1 -> Nat],
           NEW to \in 0 .. size, NEW from \in 0 .. to - 1
    PROVE  /\ \E b \in from + 1 .. to : IsCut(size, events, lengths, from, to, b)
           /\ \A b, c \in from + 1 .. to :
                IsCut(size, events, lengths, from, to, b) /\ IsCut(size, events, lengths, from, to, c)
                  => b = c
<1> DEFINE end == from + RowLength(size, lengths, from)
<1>1. end \in Nat /\ from < end /\ from \in Nat /\ to \in Nat /\ from < to
  <2>1. from \in 0 .. size - 1
    OBVIOUS
  <2> QED
    BY <2>1, RowLengthFits, SMTT(30)
<1> HIDE DEF end
<1>2. \E b \in from + 1 .. to :
             /\ b <= end
             /\ b = to \/ b = end \/ StartsEvent(events, b)
             /\ \A c \in from + 1 .. b - 1 : ~StartsEvent(events, c)
  BY <1>1, CutExists
<1>3. \E b \in from + 1 .. to : IsCut(size, events, lengths, from, to, b)
  BY <1>2 DEF IsCut, end
<1>4. ASSUME NEW b \in from + 1 .. to, NEW c \in from + 1 .. to, b < c,
             IsCut(size, events, lengths, from, to, b), IsCut(size, events, lengths, from, to, c)
      PROVE  FALSE
  <2>1. b # to /\ b # end
    BY <1>1, <1>4 DEF IsCut, end
  <2>2. StartsEvent(events, b)
    BY <1>4, <2>1 DEF IsCut, end
  <2>3. b \in from + 1 .. c - 1
    BY <1>1, <1>4
  <2> QED
    BY <1>4, <2>2, <2>3 DEF IsCut
<1>5. ASSUME NEW b \in from + 1 .. to, NEW c \in from + 1 .. to,
             IsCut(size, events, lengths, from, to, b), IsCut(size, events, lengths, from, to, c)
      PROVE  b = c
  <2>1. ~(b < c) /\ ~(c < b)
    BY <1>4, <1>5
  <2> QED
    BY <1>1, <2>1
<1> QED
  BY <1>3, <1>5

\* fill_gap shows what stands at the first place and goes on behind it.
LEMMA GapUnfolds ==
    ASSUME NEW size \in Nat, NEW events, NEW lengths \in [0 .. size - 1 -> Nat],
           NEW to \in 0 .. size, NEW first \in 0 .. to - 1, NEW b \in first + 1 .. to,
           IsCut(size, events, lengths, first, to, b)
    PROVE  Gap(size, events, lengths, first, to) =
             GapHead(size, events, lengths, first, b) \o Gap(size, events, lengths, b, to)
<1> DEFINE End(from) == from + RowLength(size, lengths, from)
           Cut(from)  == CHOOSE c \in from + 1 .. to :
                          /\ c <= End(from)
                          /\ c = to \/ c = End(from) \/ StartsEvent(events, c)
                          /\ \A d \in from + 1 .. c - 1 : ~StartsEvent(events, d)
           Row(from)  == [ offset |-> from, length |-> Cut(from) - from, event |-> 0,
                        kind   |-> IF Cut(from) = End(from) THEN "NotReached" ELSE "Data" ]
           First(from) == IF StartsEvent(events, from) THEN <<>> ELSE <<Row(from)>>
           Body(f, x) == IF x = to THEN <<>> ELSE First(x) \o f[Cut(x)]
           After == CHOOSE f : f = [ x \in 0 .. to |-> Body(f, x) ]
<1>1. to \in Nat
  OBVIOUS
<1>2. ASSUME NEW x \in 0 .. to - 1
      PROVE  Cut(x) \in x + 1 .. to /\ IsCut(size, events, lengths, x, to, Cut(x))
  <2>1. \E c \in x + 1 .. to : IsCut(size, events, lengths, x, to, c)
    BY OneCut
  <2>2. \E c \in x + 1 .. to :
           /\ c <= End(x)
           /\ c = to \/ c = End(x) \/ StartsEvent(events, c)
           /\ \A d \in x + 1 .. c - 1 : ~StartsEvent(events, d)
    BY <2>1 DEF IsCut
  <2> HIDE DEF End
  <2>3. /\ Cut(x) \in x + 1 .. to
        /\ Cut(x) <= End(x)
        /\ Cut(x) = to \/ Cut(x) = End(x) \/ StartsEvent(events, Cut(x))
        /\ \A d \in x + 1 .. Cut(x) - 1 : ~StartsEvent(events, d)
    BY <2>2
  <2> HIDE DEF Cut
  <2> QED
    BY <2>3 DEF IsCut, End
<1> HIDE DEF Cut
<1>3. After = [ x \in 0 .. to |-> Body(After, x) ]
  <2> HIDE DEF Row
  <2> DEFINE cut  == [ x \in 0 .. to - 1 |-> Cut(x) ]
             head == [ x \in 0 .. to - 1 |-> First(x) ]
  <2>1. \A x \in 0 .. to - 1 : cut[x] \in x + 1 .. to
    BY <1>2
  <2>2. \A x \in 0 .. to - 1 : cut[x] = Cut(x) /\ head[x] = First(x)
    OBVIOUS
  <2> HIDE DEF cut, head
  <2>3. PICK f : f = [ x \in 0 .. to |-> IF x = to THEN <<>> ELSE head[x] \o f[cut[x]] ]
    <3>1. PICK f : Descends(to, head, cut, f)
      BY <1>1, <2>1, FromTheEnd
    <3> QED
      BY <3>1 DEF Descends
  <2> HIDE DEF First
  <2>4. f = [ x \in 0 .. to |-> Body(f, x) ]
    <3>1. \A x \in 0 .. to : Body(f, x) = IF x = to THEN <<>> ELSE head[x] \o f[cut[x]]
      BY <1>1, <2>2
    <3> QED
      BY <2>3, <3>1
  <2> HIDE DEF Body
  <2> QED
    BY <2>4
<1>4. \A x \in 0 .. to : Gap(size, events, lengths, x, to) = IF x < to THEN After[x] ELSE <<>>
  BY DEF Gap, Cut, Row, First
<1> HIDE DEF First, After, Row
<1>5. \A x \in 0 .. to : After[x] = Body(After, x)
  BY <1>3
<1>6. Cut(first) = b
  BY <1>2, OneCut
<1>7. After[first] = First(first) \o After[b]
  <2>1. first \in 0 .. to /\ first # to
    OBVIOUS
  <2> QED
    BY <1>5, <1>6, <2>1
<1>8. First(first) = GapHead(size, events, lengths, first, b)
  BY <1>6 DEF First, Row, GapHead, StaticAt
<1>9. b \in 0 .. to /\ first \in 0 .. to /\ first < to
  BY <1>1
<1>10. After[b] = Gap(size, events, lengths, b, to)
  <2>1. CASE b = to
    BY <1>4, <1>5, <1>9, <2>1
  <2>2. CASE b # to
    BY <1>1, <1>4, <1>9, <2>2
  <2> QED
    BY <2>1, <2>2
<1> QED
  BY <1>4, <1>7, <1>8, <1>9, <1>10

\* There is nothing to show in an empty gap.
LEMMA GapEmpty ==
    ASSUME NEW size, NEW events, NEW lengths, NEW first, NEW to, ~(first < to)
    PROVE  Gap(size, events, lengths, first, to) = <<>>
  BY DEF Gap

StaticRows(size) ==
    { r \in [ offset : 0 .. size - 1, length : Nat, event : {0}, kind : {"NotReached", "Data"} ] :
        r.length > 0 /\ r.offset + r.length <= size }

\* fill_gap makes static rows only, and at least one if the gap begins with a byte
\* that no event has shown.
LEMMA GapRows ==
    ASSUME NEW size \in Nat, NEW events, NEW lengths \in [0 .. size - 1 -> Nat],
           NEW first \in Nat, NEW to \in 0 .. size
    PROVE  /\ Gap(size, events, lengths, first, to) \in Seq(StaticRows(size))
           /\ first < to /\ ~StartsEvent(events, first) =>
                Gap(size, events, lengths, first, to) # <<>>
<1> DEFINE R == StaticRows(size)
           Rest(x) == Gap(size, events, lengths, x, to)
           S == { x \in 0 .. to : Rest(x) \in Seq(R) }
<1>1. ASSUME NEW x \in 0 .. to - 1, NEW b \in x + 1 .. to
      PROVE  StaticAt(size, lengths, x, b) \in R
  BY DEF StaticAt, StaticRows
<1> HIDE DEF R
<1>2. ASSUME NEW x \in 0 .. to - 1
      PROVE  \E b \in x + 1 .. to : /\ GapHead(size, events, lengths, x, b) \in Seq(R)
                                     /\ Rest(x) = GapHead(size, events, lengths, x, b) \o Rest(b)
  <2>1. PICK b \in x + 1 .. to : IsCut(size, events, lengths, x, to, b)
    BY OneCut
  <2>2. Rest(x) = GapHead(size, events, lengths, x, b) \o Rest(b)
    BY <2>1, GapUnfolds
  <2>3. GapHead(size, events, lengths, x, b) \in Seq(R)
    BY <1>1 DEF GapHead
  <2> QED
    BY <2>2, <2>3
<1>3. \A x \in Nat : ~(x < to) => Rest(x) = <<>>
  BY GapEmpty
<1>4. to \in S
  <2>1. to \in Nat /\ ~(to < to) /\ to \in 0 .. to
    OBVIOUS
  <2>2. Rest(to) = <<>> /\ <<>> \in Seq(R)
    BY <1>3, <2>1
  <2> QED
    BY <2>1, <2>2
<1> HIDE DEF Rest
<1>5. ASSUME NEW x \in 0 .. to - 1, \A y \in x + 1 .. to : y \in S PROVE x \in S
  <2>1. PICK b \in x + 1 .. to : /\ GapHead(size, events, lengths, x, b) \in Seq(R)
                                 /\ Rest(x) = GapHead(size, events, lengths, x, b) \o Rest(b)
    BY <1>2
  <2>2. Rest(b) \in Seq(R)
    BY <1>5
  <2>3. Rest(x) \in Seq(R)
    BY <2>1, <2>2, Joined, ZenonT(40)
  <2> QED
    BY <2>3
<1>6. 0 .. to \subseteq S
  <2>1. to \in Nat
    OBVIOUS
  <2> HIDE DEF S
  <2> QED
    BY <1>4, <1>5, <2>1, DownFrom, Zenon
<1>7. Rest(first) \in Seq(R)
  <2>1. CASE first < to
    BY <1>6, <2>1
  <2>2. CASE ~(first < to)
    <3>1. Rest(first) = <<>> /\ <<>> \in Seq(R)
      BY <1>3, <2>2
    <3> QED
      BY <3>1
  <2> QED
    BY <2>1, <2>2
<1>8. ASSUME first < to, ~StartsEvent(events, first) PROVE Rest(first) # <<>>
  <2>1. first \in 0 .. to - 1
    BY <1>8
  <2>2. PICK b \in first + 1 .. to :
           /\ GapHead(size, events, lengths, first, b) \in Seq(R)
           /\ Rest(first) = GapHead(size, events, lengths, first, b) \o Rest(b)
    BY <1>2, <2>1
  <2>3. Rest(b) \in Seq(R)
    BY <1>6, <2>1
  <2> DEFINE top == GapHead(size, events, lengths, first, b)
             tail == Rest(b)
  <2>4. top \in Seq(R) /\ tail \in Seq(R) /\ Len(top) = 1
    BY <1>8, <2>2, <2>3 DEF GapHead
  <2>5. Rest(first) = top \o tail
    BY <2>2
  <2> HIDE DEF top, tail
  <2>6. Len(top \o tail) = Len(top) + Len(tail) /\ Len(tail) \in Nat
    BY <2>4, Joined, Zenon
  <2> QED
    BY <2>4, <2>5, <2>6
<1> QED
  BY <1>7, <1>8 DEF R, Rest

\* A byte is on some row.
ShownIn(rows, o) ==
    \E i \in 1 .. Len(rows) : o \in rows[i].offset .. rows[i].offset + rows[i].length - 1

\* A byte belongs to what the decoder says of an instruction that was executed.
UnderEvent(size, events, lengths, o) ==
    \E k \in 1 .. Len(events) :
        /\ events[k].offset \in 0 .. size - 1
        /\ o \in events[k].offset .. events[k].offset + RowLength(size, lengths, events[k].offset) - 1

\* A byte that is shown stays shown when rows are added around it.
LEMMA ShownStays ==
    ASSUME NEW R, NEW top \in Seq(R), NEW tail \in Seq(R), NEW o,
           ShownIn(top, o) \/ ShownIn(tail, o)
    PROVE  ShownIn(top \o tail, o)
<1>1. /\ Len(top \o tail) = Len(top) + Len(tail)
      /\ Len(top) \in Nat /\ Len(tail) \in Nat
      /\ \A i \in 1 .. Len(top) : (top \o tail)[i] = top[i]
      /\ \A i \in 1 .. Len(tail) : (top \o tail)[Len(top) + i] = tail[i]
  BY Joined
<1> DEFINE all == top \o tail
<1> HIDE DEF all
<1>2. CASE ShownIn(top, o)
  <2>1. PICK i \in 1 .. Len(top) : o \in top[i].offset .. top[i].offset + top[i].length - 1
    BY <1>2 DEF ShownIn
  <2>2. i \in 1 .. Len(all) /\ all[i] = top[i]
    BY <1>1 DEF all
  <2>3. ShownIn(all, o)
    BY <2>1, <2>2 DEF ShownIn
  <2> QED
    BY <2>3 DEF all
<1>3. CASE ShownIn(tail, o)
  <2>1. PICK i \in 1 .. Len(tail) : o \in tail[i].offset .. tail[i].offset + tail[i].length - 1
    BY <1>3 DEF ShownIn
  <2>2. Len(top) + i \in 1 .. Len(all) /\ all[Len(top) + i] = tail[i]
    BY <1>1 DEF all
  <2>3. ShownIn(all, o)
    BY <2>1, <2>2 DEF ShownIn
  <2> QED
    BY <2>3 DEF all
<1> QED
  BY <1>2, <1>3

\* fill_gap leaves out only the bytes that belong to an executed instruction.
LEMMA GapShows ==
    ASSUME NEW size \in Nat, NEW events, NEW lengths \in [0 .. size - 1 -> Nat],
           Len(events) \in Nat, NEW first \in Nat, NEW to \in 0 .. size
    PROVE  \A o \in first .. to - 1 :
             \/ ShownIn(Gap(size, events, lengths, first, to), o)
             \/ UnderEvent(size, events, lengths, o)
<1> DEFINE R == StaticRows(size)
           Rest(x) == Gap(size, events, lengths, x, to)
           Good(x) == \A o \in x .. to - 1 :
                        ShownIn(Rest(x), o) \/ UnderEvent(size, events, lengths, o)
           S == { x \in 0 .. to : Good(x) }
<1>1. to \in Nat /\ to \in 0 .. to
  OBVIOUS
<1>2. to \in S
  <2>1. to .. to - 1 = {}
    BY <1>1
  <2>2. Good(to)
    BY <2>1
  <2> QED
    BY <1>1, <2>2
<1>3. ASSUME NEW x \in 0 .. to - 1, \A y \in x + 1 .. to : y \in S PROVE x \in S
  <2>1. PICK b \in x + 1 .. to : IsCut(size, events, lengths, x, to, b)
    BY OneCut
  <2> DEFINE top == GapHead(size, events, lengths, x, b)
             tail == Rest(b)
  <2>2. Rest(x) = top \o tail
    BY <2>1, GapUnfolds
  <2>3. b \in Nat /\ x \in Nat /\ x \in 0 .. to /\ x \in 0 .. size - 1
    OBVIOUS
  <2>4. tail \in Seq(R)
    BY <2>3, GapRows
  <2>5. top \in Seq(R)
    <3>1. StaticAt(size, lengths, x, b) \in R
      BY DEF StaticAt, StaticRows
    <3> HIDE DEF R
    <3> QED
      BY <3>1 DEF GapHead
  <2>6. Good(b)
    BY <1>3
  <2>7. ASSUME NEW o \in x .. to - 1
        PROVE  ShownIn(Rest(x), o) \/ UnderEvent(size, events, lengths, o)
    <3>1. CASE o \in b .. to - 1
      <4>1. ShownIn(tail, o) \/ UnderEvent(size, events, lengths, o)
        BY <2>6, <3>1
      <4> HIDE DEF top, tail, R
      <4>2. ShownIn(tail, o) => ShownIn(top \o tail, o)
        BY <2>4, <2>5, ShownStays, Zenon
      <4> QED
        BY <2>2, <4>1, <4>2
    <3>2. CASE o \in x .. b - 1
      <4>1. CASE StartsEvent(events, x)
        <5>1. PICK k \in 1 .. Len(events) : events[k].offset = x
          BY <4>1 DEF StartsEvent
        <5>2. RowLength(size, lengths, x) \in Nat /\ b <= x + RowLength(size, lengths, x)
          BY <2>1, <2>3, RowLengthFits DEF IsCut
        <5>3. o \in x .. x + RowLength(size, lengths, x) - 1
          BY <3>2, <5>2
        <5> QED
          BY <2>3, <5>1, <5>3 DEF UnderEvent
      <4>2. CASE ~StartsEvent(events, x)
        <5>1. /\ top = <<StaticAt(size, lengths, x, b)>>
              /\ StaticAt(size, lengths, x, b).offset = x
              /\ StaticAt(size, lengths, x, b).length = b - x
          BY <4>2 DEF GapHead, StaticAt
        <5>2. Len(top) = 1 /\ top[1].offset = x /\ top[1].length = b - x
          BY <5>1
        <5>3. o \in x .. x + (b - x) - 1
          BY <3>2
        <5>4. ShownIn(top, o)
          BY <5>2, <5>3 DEF ShownIn
        <5> HIDE DEF top, tail, R
        <5>5. ShownIn(top \o tail, o)
          BY <2>4, <2>5, <5>4, ShownStays, Zenon
        <5> QED
          BY <2>2, <5>5
      <4> QED
        BY <4>1, <4>2
    <3> QED
      BY <3>1, <3>2
  <2> QED
    BY <2>3, <2>7
<1>4. 0 .. to \subseteq S
  <2> HIDE DEF S
  <2> QED
    BY <1>1, <1>2, <1>3, DownFrom, Zenon
<1> QED
  BY <1>4

-----------------------------------------------------------------------------
(* The rows of a layout.                                                   *)

AnyRow(size) ==
    { r \in [ offset : 0 .. size - 1, length : Nat, event : Nat,
              kind : {"Reached", "Faulted", "NotReached", "Data"} ] :
        r.length > 0 /\ r.offset + r.length <= size }

\* The row of an instruction that was executed or faulted.
Ran(row) == row.kind \in {"Reached", "Faulted"}

\* The executed rows are those of the events 1 .. n, each once and in their order.
InOrder(rows, n) ==
    /\ \A i \in 1 .. Len(rows) :
          rows[i].event \in 0 .. n /\ (Ran(rows[i]) <=> rows[i].event # 0)
    /\ \A i, j \in 1 .. Len(rows) :
          i < j /\ rows[i].event # 0 /\ rows[j].event # 0 => rows[i].event < rows[j].event
    /\ \A e \in 1 .. n : \E i \in 1 .. Len(rows) : rows[i].event = e

GoodRows(size, rows, n) == rows \in Seq(AnyRow(size)) /\ InOrder(rows, n)

\* Static rows belong to no event and are ordinary rows.
LEMMA StaticAreRows ==
    ASSUME NEW size \in Nat, NEW gap \in Seq(StaticRows(size))
    PROVE  /\ gap \in Seq(AnyRow(size))
           /\ \A i \in 1 .. Len(gap) : gap[i].event = 0 /\ ~Ran(gap[i])
<1>1. StaticRows(size) \subseteq AnyRow(size)
  BY DEF StaticRows, AnyRow
<1>2. \A r \in StaticRows(size) : r.event = 0 /\ ~Ran(r)
  BY DEF StaticRows, Ran
<1> HIDE DEF StaticRows
<1>3. \A i \in 1 .. Len(gap) : gap[i] \in StaticRows(size)
  OBVIOUS
<1>4. gap \in [1 .. Len(gap) -> AnyRow(size)] /\ Len(gap) \in Nat
  BY <1>1, <1>3
<1>5. gap \in Seq(AnyRow(size))
  BY <1>4
<1> QED
  BY <1>2, <1>3, <1>5

\* Where the rows of a joined list come from.
LEMMA JoinedPlaces ==
    ASSUME NEW R, NEW top \in Seq(R), NEW tail \in Seq(R), NEW i \in 1 .. Len(top \o tail)
    PROVE  \/ i \in 1 .. Len(top) /\ (top \o tail)[i] = top[i]
           \/ i - Len(top) \in 1 .. Len(tail) /\ (top \o tail)[i] = tail[i - Len(top)]
  OBVIOUS

\* fill_gap keeps the events in order.
LEMMA GapKeepsOrder ==
    ASSUME NEW size \in Nat, NEW n \in Nat, NEW rows, GoodRows(size, rows, n),
           NEW gap \in Seq(StaticRows(size))
    PROVE  GoodRows(size, rows \o gap, n)
<1> DEFINE R == AnyRow(size)
           all == rows \o gap
<1>1. /\ rows \in Seq(R) /\ gap \in Seq(R)
      /\ \A i \in 1 .. Len(gap) : gap[i].event = 0 /\ ~Ran(gap[i])
  BY StaticAreRows DEF GoodRows
<1> HIDE DEF R
<1>2. /\ all \in Seq(R)
      /\ Len(all) = Len(rows) + Len(gap)
      /\ Len(rows) \in Nat
      /\ Len(gap) \in Nat
      /\ \A i \in 1 .. Len(rows) : all[i] = rows[i]
  BY <1>1, Joined, Zenon
<1>3. \A i \in 1 .. Len(all) : \/ i \in 1 .. Len(rows) /\ all[i] = rows[i]
                               \/ all[i].event = 0 /\ ~Ran(all[i]) /\ i > Len(rows)
  <2> SUFFICES ASSUME NEW i \in 1 .. Len(all)
               PROVE  \/ i \in 1 .. Len(rows) /\ all[i] = rows[i]
                      \/ all[i].event = 0 /\ ~Ran(all[i]) /\ i > Len(rows)
    OBVIOUS
  <2>1. \/ i \in 1 .. Len(rows) /\ all[i] = rows[i]
        \/ i - Len(rows) \in 1 .. Len(gap) /\ all[i] = gap[i - Len(rows)]
    BY <1>1, JoinedPlaces, Zenon
  <2> HIDE DEF all
  <2>2. CASE i - Len(rows) \in 1 .. Len(gap) /\ all[i] = gap[i - Len(rows)]
    <3>1. i > Len(rows)
      BY <1>2, <2>2
    <3>2. all[i].event = 0 /\ ~Ran(all[i])
      BY <1>1, <2>2, Zenon
    <3> QED
      BY <3>1, <3>2
  <2> QED
    BY <2>1, <2>2
<1> HIDE DEF all
<1>4. \A i \in 1 .. Len(rows) : i \in 1 .. Len(all)
  BY <1>2
<1>5. InOrder(rows, n)
  BY DEF GoodRows
<1>6. InOrder(all, n)
  <2>1. ASSUME NEW i \in 1 .. Len(all)
        PROVE  all[i].event \in 0 .. n /\ (Ran(all[i]) <=> all[i].event # 0)
    <3>1. CASE i \in 1 .. Len(rows) /\ all[i] = rows[i]
      BY <1>5, <3>1 DEF InOrder
    <3>2. CASE all[i].event = 0 /\ ~Ran(all[i])
      BY <3>2
    <3> QED
      BY <1>3, <3>1, <3>2
  <2>2. ASSUME NEW i \in 1 .. Len(all), NEW j \in 1 .. Len(all), i < j,
               all[i].event # 0, all[j].event # 0
        PROVE  all[i].event < all[j].event
    BY <1>3, <1>5, <2>2 DEF InOrder
  <2>3. ASSUME NEW e \in 1 .. n PROVE \E i \in 1 .. Len(all) : all[i].event = e
    BY <1>2, <1>4, <1>5 DEF InOrder
  <2> QED
    BY <2>1, <2>2, <2>3 DEF InOrder
<1> QED
  BY <1>2, <1>6 DEF GoodRows, all, R

\* The row of the next event is the next executed row.
LEMMA EventKeepsOrder ==
    ASSUME NEW size \in Nat, NEW n \in Nat, NEW rows, GoodRows(size, rows, n),
           NEW row \in AnyRow(size), row.event = n + 1, Ran(row)
    PROVE  GoodRows(size, rows \o <<row>>, n + 1)
<1> DEFINE R == AnyRow(size)
           all == rows \o <<row>>
<1>1. rows \in Seq(R) /\ row \in R
  BY DEF GoodRows
<1> HIDE DEF R
<1>2. <<row>> \in Seq(R) /\ Len(<<row>>) = 1 /\ <<row>>[1] = row
  BY <1>1
<1>3. /\ all \in Seq(R) /\ Len(all) = Len(rows) + 1 /\ Len(rows) \in Nat
      /\ \A i \in 1 .. Len(rows) : all[i] = rows[i]
      /\ all[Len(rows) + 1] = row
  BY <1>1, <1>2
<1> HIDE DEF all
<1>4. \A i \in 1 .. Len(all) : \/ i \in 1 .. Len(rows) /\ all[i] = rows[i]
                               \/ i = Len(rows) + 1 /\ all[i] = row
  BY <1>3
<1>5. InOrder(rows, n)
  BY DEF GoodRows
<1>6. InOrder(all, n + 1)
  <2>1. ASSUME NEW i \in 1 .. Len(all)
        PROVE  all[i].event \in 0 .. n + 1 /\ (Ran(all[i]) <=> all[i].event # 0)
    <3>1. CASE i \in 1 .. Len(rows) /\ all[i] = rows[i]
      <4>1. rows[i].event \in 0 .. n /\ (Ran(rows[i]) <=> rows[i].event # 0)
        BY <1>5, <3>1 DEF InOrder
      <4>2. 0 .. n \subseteq 0 .. n + 1
        OBVIOUS
      <4> QED
        BY <3>1, <4>1, <4>2
    <3>2. CASE all[i] = row
      BY <3>2
    <3> QED
      BY <1>4, <3>1, <3>2
  <2>2. ASSUME NEW i \in 1 .. Len(all), NEW j \in 1 .. Len(all), i < j,
               all[i].event # 0, all[j].event # 0
        PROVE  all[i].event < all[j].event
    <3>1. i \in 1 .. Len(rows) /\ all[i] = rows[i]
      BY <1>3, <1>4, <2>2
    <3>2. rows[i].event \in 0 .. n
      BY <1>5, <3>1 DEF InOrder
    <3>3. CASE j \in 1 .. Len(rows) /\ all[j] = rows[j]
      BY <1>5, <2>2, <3>1, <3>3 DEF InOrder
    <3>4. CASE all[j] = row
      BY <3>1, <3>2, <3>4
    <3> QED
      BY <1>4, <3>3, <3>4
  <2>3. ASSUME NEW e \in 1 .. n + 1 PROVE \E i \in 1 .. Len(all) : all[i].event = e
    <3>1. CASE e \in 1 .. n
      <4>1. PICK i \in 1 .. Len(rows) : rows[i].event = e
        BY <1>5, <3>1 DEF InOrder
      <4> QED
        BY <1>3, <4>1
    <3>2. CASE e = n + 1
      BY <1>3, <3>2
    <3> QED
      BY <3>1, <3>2
  <2> QED
    BY <2>1, <2>2, <2>3 DEF InOrder
<1> QED
  BY <1>3, <1>6 DEF GoodRows, all, R

-----------------------------------------------------------------------------
(* The layout.                                                             *)

\* The events of a trace: only the last can be outside the input.
GoodEvents(size, events) ==
    /\ Len(events) \in Nat
    /\ \A k \in 1 .. Len(events) - 1 : events[k].offset \in 0 .. size - 1

\* How many of them have a row.
Inside(size, events) ==
    IF Len(events) > 0 /\ events[Len(events)].offset \notin 0 .. size - 1
    THEN Len(events) - 1 ELSE Len(events)

\* The row of an event.
RowOf(size, events, lengths, k) ==
    [ offset |-> events[k].offset, event |-> k,
      length |-> RowLength(size, lengths, events[k].offset),
      kind   |-> IF events[k].kind = "Completed" THEN "Reached" ELSE "Faulted" ]

\* The rows of the first k events, as Layout accumulates them.
LaidNext(size, events, lengths, k, so_far) ==
    LET row == RowOf(size, events, lengths, k)
        end == row.offset + row.length
    IN  IF events[k].offset \notin 0 .. size - 1 THEN so_far
        ELSE [ rows   |-> so_far.rows \o Gap(size, events, lengths, so_far.linear, row.offset)
                          \o <<row>>,
               linear |-> IF end > so_far.linear THEN end ELSE so_far.linear ]

Accumulates(size, events, lengths, f) ==
    f = [ k \in 0 .. Len(events) |->
            IF k = 0 THEN [ rows |-> <<>>, linear |-> 0 ]
            ELSE LaidNext(size, events, lengths, k, f[k - 1]) ]

LaidBy(size, events, lengths) == CHOOSE f : Accumulates(size, events, lengths, f)

\* Layout accumulates the rows event by event and then shows the rest.
LEMMA LayoutAccumulates ==
    ASSUME NEW size, NEW events, NEW lengths, Len(events) \in Nat
    PROVE  LET laid == LaidBy(size, events, lengths)
           IN  /\ laid[0] = [ rows |-> <<>>, linear |-> 0 ]
               /\ \A k \in 1 .. Len(events) :
                     laid[k] = LaidNext(size, events, lengths, k, laid[k - 1])
               /\ Layout(size, events, lengths) =
                     laid[Len(events)].rows
                     \o Gap(size, events, lengths, laid[Len(events)].linear, size)
<1> DEFINE Empty == [ rows |-> <<>>, linear |-> 0 ]
           Body(f, k) == IF k = 0 THEN Empty
                         ELSE LaidNext(size, events, lengths, k, f[k - 1])
           S == { n \in Nat : \E f : f = [ k \in 0 .. n |-> Body(f, k) ] }
           Laid == CHOOSE f : f = [ k \in 0 .. Len(events) |-> Body(f, k) ]
<1> HIDE DEF Empty
<1>1. 0 \in S
  <2> DEFINE f == [ k \in 0 .. 0 |-> Empty ]
  <2>1. f = [ k \in 0 .. 0 |-> Body(f, k) ]
    OBVIOUS
  <2>2. \E h : h = [ k \in 0 .. 0 |-> Body(h, k) ]
    <3> HIDE DEF Body, f
    <3> QED
      BY <2>1
  <2> QED
    BY <2>2, Zenon
<1>2. ASSUME NEW n \in 1 .. Len(events), n - 1 \in S PROVE n \in S
  <2>1. PICK f : f = [ k \in 0 .. n - 1 |-> Body(f, k) ]
    BY <1>2
  <2> DEFINE g == [ k \in 0 .. n |-> IF k < n THEN f[k] ELSE Body(f, k) ]
  <2>2. ASSUME NEW k \in 0 .. n PROVE g[k] = Body(g, k)
    <3>1. g[k] = Body(f, k)
      <4>1. CASE k < n
        <5>1. k \in 0 .. n - 1
          BY <4>1
        <5>2. f[k] = Body(f, k)
          BY <2>1, <5>1
        <5> QED
          BY <4>1, <5>2
      <4>2. CASE ~(k < n)
        BY <4>2
      <4> QED
        BY <4>1, <4>2
    <3>2. k # 0 => k - 1 \in 0 .. n /\ k - 1 < n /\ g[k - 1] = f[k - 1]
      OBVIOUS
    <3> HIDE DEF g
    <3> QED
      BY <3>1, <3>2
  <2>3. g = [ k \in 0 .. n |-> g[k] ]
    OBVIOUS
  <2> HIDE DEF g
  <2>4. g = [ k \in 0 .. n |-> Body(g, k) ]
    BY <2>2, <2>3
  <2>5. \E h : h = [ k \in 0 .. n |-> Body(h, k) ]
    <3> HIDE DEF Body
    <3> QED
      BY <2>4
  <2>6. n \in Nat
    OBVIOUS
  <2> QED
    BY <2>5, <2>6, Zenon
<1>3. Len(events) \in S
  <2> HIDE DEF S
  <2>1. 0 .. Len(events) \subseteq S
    BY <1>1, <1>2, UpTo, Zenon
  <2> QED
    BY <2>1
<1>4. Laid = [ k \in 0 .. Len(events) |-> Body(Laid, k) ]
  BY <1>3
<1>5. Layout(size, events, lengths) =
        Laid[Len(events)].rows \o Gap(size, events, lengths, Laid[Len(events)].linear, size)
  BY DEF Layout, Empty, LaidNext, RowOf
<1>6. LaidBy(size, events, lengths) = Laid
  BY DEF LaidBy, Accumulates, Empty
<1> HIDE DEF Laid
<1>7. ASSUME NEW k \in 0 .. Len(events) PROVE Laid[k] = Body(Laid, k)
  BY <1>4, Zenon
<1>8. 0 \in 0 .. Len(events) /\ \A k \in 1 .. Len(events) : k \in 0 .. Len(events) /\ k # 0
  OBVIOUS
<1>9. Laid[0] = Empty
  BY <1>7, <1>8
<1>10. \A k \in 1 .. Len(events) : Laid[k] = LaidNext(size, events, lengths, k, Laid[k - 1])
  BY <1>7, <1>8
<1> QED
  BY <1>5, <1>6, <1>9, <1>10 DEF Empty

\* Every executed row is the row of its event.
Placed(size, events, lengths, rows) ==
    \A i \in 1 .. Len(rows) :
        rows[i].event # 0 => rows[i] = RowOf(size, events, lengths, rows[i].event)

\* Every byte up to a place is on a row, or belongs to an instruction that was executed.
ShownUpTo(size, events, lengths, rows, place) ==
    \A o \in 0 .. place - 1 : ShownIn(rows, o) \/ UnderEvent(size, events, lengths, o)

\* Adding the rows of a gap, or of an event, keeps the executed rows in their place.
LEMMA PlacedJoins ==
    ASSUME NEW size \in Nat, NEW events, NEW lengths,
           NEW top \in Seq(AnyRow(size)), NEW tail \in Seq(AnyRow(size)),
           Placed(size, events, lengths, top), Placed(size, events, lengths, tail)
    PROVE  Placed(size, events, lengths, top \o tail)
<1> DEFINE all == top \o tail
<1> SUFFICES ASSUME NEW i \in 1 .. Len(all), all[i].event # 0
             PROVE  all[i] = RowOf(size, events, lengths, all[i].event)
  BY DEF Placed
<1>1. \/ i \in 1 .. Len(top) /\ all[i] = top[i]
      \/ i - Len(top) \in 1 .. Len(tail) /\ all[i] = tail[i - Len(top)]
  BY JoinedPlaces, Zenon
<1> HIDE DEF all
<1> QED
  BY <1>1 DEF Placed

\* One event inside the input adds the rows before it and its own.
LEMMA LaidStep ==
    ASSUME NEW size \in Nat, NEW events, GoodEvents(size, events),
           NEW lengths \in [0 .. size - 1 -> Nat],
           NEW k \in 1 .. Len(events), events[k].offset \in 0 .. size - 1,
           NEW so_far, GoodRows(size, so_far.rows, k - 1), so_far.linear \in Nat,
           Placed(size, events, lengths, so_far.rows),
           ShownUpTo(size, events, lengths, so_far.rows, so_far.linear)
    PROVE  LET laid == LaidNext(size, events, lengths, k, so_far)
           IN  /\ GoodRows(size, laid.rows, k) /\ laid.linear \in Nat
               /\ Placed(size, events, lengths, laid.rows)
               /\ ShownUpTo(size, events, lengths, laid.rows, laid.linear)
<1> DEFINE offset == events[k].offset
           row == RowOf(size, events, lengths, k)
           gap == Gap(size, events, lengths, so_far.linear, offset)
           end == row.offset + row.length
           laid == LaidNext(size, events, lengths, k, so_far)
           R == AnyRow(size)
<1>1. offset \in 0 .. size /\ k - 1 \in Nat /\ k - 1 + 1 = k /\ k \in Nat /\ Len(events) \in Nat
  BY DEF GoodEvents
<1>2. /\ RowLength(size, lengths, offset) \in Nat
      /\ RowLength(size, lengths, offset) > 0
      /\ offset + RowLength(size, lengths, offset) <= size
  BY RowLengthFits
<1>3. /\ laid.rows = so_far.rows \o gap \o <<row>>
      /\ laid.linear = IF end > so_far.linear THEN end ELSE so_far.linear
  BY DEF LaidNext, RowOf
<1>4. row \in R /\ row.event = k /\ Ran(row) /\ end \in Nat
  BY <1>1, <1>2 DEF AnyRow, Ran, RowOf
<1>5. gap \in Seq(StaticRows(size))
  BY <1>1, GapRows
<1>6. \A o \in offset .. end - 1 : UnderEvent(size, events, lengths, o)
  <2>1. end = offset + RowLength(size, lengths, offset)
    BY DEF RowOf
  <2> SUFFICES ASSUME NEW o \in offset .. end - 1
               PROVE  UnderEvent(size, events, lengths, o)
    OBVIOUS
  <2> HIDE DEF row, end
  <2>2. o \in events[k].offset
                .. events[k].offset + RowLength(size, lengths, events[k].offset) - 1
    BY <1>1, <1>2, <1>4, <2>1
  <2> QED
    BY <2>2, Zenon DEF UnderEvent
<1>7. \A o \in so_far.linear .. offset - 1 :
         ShownIn(gap, o) \/ UnderEvent(size, events, lengths, o)
  BY <1>1, GapShows
<1> HIDE DEF row, gap, end, laid
<1>8. GoodRows(size, so_far.rows \o gap, k - 1)
  BY <1>1, <1>5, GapKeepsOrder
<1>9. GoodRows(size, so_far.rows \o gap \o <<row>>, k - 1 + 1)
  BY <1>1, <1>4, <1>8, EventKeepsOrder
<1>10. /\ so_far.rows \in Seq(R) /\ so_far.rows \o gap \in Seq(R)
       /\ gap \in Seq(R) /\ <<row>> \in Seq(R)
  <2>1. so_far.rows \in Seq(R) /\ so_far.rows \o gap \in Seq(R)
    BY <1>8 DEF GoodRows
  <2>2. gap \in Seq(R)
    BY <1>5, StaticAreRows
  <2>3. <<row>> \in Seq(R)
    <3> HIDE DEF R
    <3> QED
      BY <1>4
  <2> QED
    BY <2>1, <2>2, <2>3
<1>11. Placed(size, events, lengths, gap) /\ Placed(size, events, lengths, <<row>>)
  <2>1. \A i \in 1 .. Len(gap) : gap[i].event = 0
    BY <1>5, StaticAreRows
  <2>2. Len(<<row>>) = 1 /\ <<row>>[1] = RowOf(size, events, lengths, row.event)
    BY <1>4 DEF row
  <2> QED
    BY <2>1, <2>2 DEF Placed
<1>12. Placed(size, events, lengths, so_far.rows \o gap)
  BY <1>10, <1>11, PlacedJoins
<1>13. Placed(size, events, lengths, so_far.rows \o gap \o <<row>>)
  BY <1>10, <1>11, <1>12, PlacedJoins
<1>14. ASSUME NEW o \in 0 .. laid.linear - 1
       PROVE  ShownIn(laid.rows, o) \/ UnderEvent(size, events, lengths, o)
  <2>1. \/ o \in 0 .. so_far.linear - 1
        \/ o \in so_far.linear .. offset - 1
        \/ o \in offset .. end - 1
    <3>1. laid.linear = end \/ laid.linear = so_far.linear
      BY <1>3
    <3> HIDE DEF offset
    <3> QED
      BY <1>1, <1>4, <3>1, SMTT(30)
  <2>2. \/ ShownIn(so_far.rows, o) \/ ShownIn(gap, o) \/ UnderEvent(size, events, lengths, o)
    BY <1>6, <1>7, <2>1 DEF ShownUpTo
  <2> HIDE DEF R
  <2>3. ShownIn(so_far.rows, o) \/ ShownIn(gap, o) => ShownIn(so_far.rows \o gap, o)
    BY <1>10, ShownStays, Zenon
  <2>4. ShownIn(so_far.rows \o gap, o) => ShownIn(so_far.rows \o gap \o <<row>>, o)
    BY <1>10, ShownStays, Zenon
  <2> QED
    BY <1>3, <2>2, <2>3, <2>4
<1>15. laid.linear \in Nat
  BY <1>3, <1>4
<1> QED
  BY <1>1, <1>3, <1>9, <1>13, <1>14, <1>15 DEF laid, ShownUpTo

\* The layout of any trace by any decoder: rows of the input, at least one, in which
\* the executed ones are the events inside the input in their order and in their
\* place; and every byte of the input is on some row.
LEMMA LayoutGood ==
    ASSUME NEW size \in Nat \ {0}, NEW events, GoodEvents(size, events),
           NEW lengths \in [0 .. size - 1 -> Nat]
    PROVE  /\ GoodRows(size, Layout(size, events, lengths), Inside(size, events))
           /\ Layout(size, events, lengths) # <<>>
           /\ Placed(size, events, lengths, Layout(size, events, lengths))
           /\ \A o \in 0 .. size - 1 : ShownIn(Layout(size, events, lengths), o)
<1> DEFINE len == Len(events)
           n   == Inside(size, events)
           f   == LaidBy(size, events, lengths)
<1>1. len \in Nat
  BY DEF GoodEvents
<1>2. /\ f[0] = [ rows |-> <<>>, linear |-> 0 ]
      /\ \A k \in 1 .. len : f[k] = LaidNext(size, events, lengths, k, f[k - 1])
      /\ Layout(size, events, lengths) =
                       f[len].rows \o Gap(size, events, lengths, f[len].linear, size)
  BY <1>1, LayoutAccumulates
<1> HIDE DEF f
<1>4. /\ n \in 0 .. len /\ (n = len \/ n = len - 1)
      /\ \A k \in 1 .. n : events[k].offset \in 0 .. size - 1
      /\ n # len => n = len - 1 /\ len > 0 /\ events[len].offset \notin 0 .. size - 1
  BY <1>1 DEF Inside, GoodEvents
<1> DEFINE Good(k) == /\ GoodRows(size, f[k].rows, k) /\ f[k].linear \in Nat
                      /\ Placed(size, events, lengths, f[k].rows)
                      /\ ShownUpTo(size, events, lengths, f[k].rows, f[k].linear)
           S == { k \in Nat : Good(k) }
<1>5. 0 \in S
  <2>1. f[0].rows = <<>> /\ f[0].linear = 0
    BY <1>2
  <2>2. <<>> \in Seq(AnyRow(size)) /\ Len(<<>>) = 0
    OBVIOUS
  <2>3. /\ GoodRows(size, <<>>, 0) /\ Placed(size, events, lengths, <<>>)
        /\ ShownUpTo(size, events, lengths, <<>>, 0)
    BY <2>2 DEF GoodRows, InOrder, Placed, ShownUpTo
  <2> QED
    BY <2>1, <2>3
<1>6. ASSUME NEW k \in 1 .. n, k - 1 \in S PROVE k \in S
  <2>1. k \in 1 .. len /\ events[k].offset \in 0 .. size - 1 /\ k \in Nat /\ k - 1 \in Nat
    BY <1>1, <1>4
  <2>2. Good(k - 1)
    BY <1>6
  <2>3. f[k] = LaidNext(size, events, lengths, k, f[k - 1])
    BY <1>2, <2>1
  <2>4. Good(k)
    BY <2>1, <2>2, <2>3, LaidStep
  <2> QED
    BY <2>1, <2>4
<1>7. Good(n)
  <2>1. 0 .. n \subseteq S /\ n \in Nat
    <3> HIDE DEF S
    <3>1. n \in Nat
      BY <1>1, <1>4
    <3> HIDE DEF n
    <3> QED
      BY <1>5, <1>6, <3>1, UpTo, Zenon
  <2> QED
    BY <2>1
<1>8. f[len] = f[n]
  <2>1. CASE n = len
    BY <2>1
  <2>2. CASE n # len
    <3>1. len \in 1 .. len /\ n = len - 1 /\ events[len].offset \notin 0 .. size - 1
      BY <1>1, <1>4, <2>2
    <3>2. f[len] = LaidNext(size, events, lengths, len, f[len - 1])
      BY <1>2, <3>1
    <3> QED
      BY <3>1, <3>2 DEF LaidNext
  <2> QED
    BY <2>1, <2>2
<1> DEFINE linear == f[n].linear
           gap == Gap(size, events, lengths, linear, size)
           all == f[n].rows \o gap
<1>9. Layout(size, events, lengths) = all
  BY <1>2, <1>8
<1>10. /\ gap \in Seq(StaticRows(size))
       /\ linear < size /\ ~StartsEvent(events, linear) => gap # <<>>
  BY <1>7, GapRows
<1>11. n \in Nat
  BY <1>1, <1>4
<1> HIDE DEF n, gap
<1>12. GoodRows(size, all, n)
  BY <1>7, <1>10, <1>11, GapKeepsOrder
<1>13. all # <<>>
  <2>1. CASE n > 0
    <3>1. n \in 1 .. n
      BY <1>11, <2>1
    <3>2. \E i \in 1 .. Len(all) : all[i].event = n
      BY <1>12, <3>1 DEF GoodRows, InOrder
    <3> HIDE DEF all
    <3> QED
      BY <3>2
  <2>2. CASE n = 0
    <3>1. f[n].rows = <<>> /\ linear = 0
      BY <1>2, <2>2
    <3>2. ~StartsEvent(events, 0)
      BY <1>1, <1>4, <2>2 DEF StartsEvent
    <3>3. gap # <<>>
      BY <1>10, <3>1, <3>2
    <3>4. <<>> \o gap = gap
      BY <1>10
    <3> QED
      BY <3>1, <3>3, <3>4
  <2> QED
    BY <1>11, <2>1, <2>2
<1>14. f[n].rows \in Seq(AnyRow(size)) /\ gap \in Seq(AnyRow(size))
  BY <1>7, <1>10, StaticAreRows DEF GoodRows
<1>15. Placed(size, events, lengths, all)
  <2>1. \A i \in 1 .. Len(gap) : gap[i].event = 0
    BY <1>10, StaticAreRows
  <2>2. Placed(size, events, lengths, gap)
    BY <2>1 DEF Placed
  <2> QED
    BY <1>7, <1>14, <2>2, PlacedJoins
<1>16. ASSUME NEW o \in 0 .. size - 1 PROVE ShownIn(all, o)
  <2>1. linear \in Nat /\ size \in 0 .. size
    BY <1>7
  <2>2. \/ o \in 0 .. linear - 1
        \/ o \in linear .. size - 1
    BY <2>1
  <2>3. \A p \in linear .. size - 1 : ShownIn(gap, p) \/ UnderEvent(size, events, lengths, p)
    BY <1>1, <2>1, GapShows DEF gap
  <2>4. \/ ShownIn(f[n].rows, o) \/ ShownIn(gap, o) \/ UnderEvent(size, events, lengths, o)
    BY <1>7, <2>2, <2>3 DEF ShownUpTo
  <2>5. CASE ShownIn(f[n].rows, o) \/ ShownIn(gap, o)
    BY <1>14, <2>5, ShownStays, Zenon
  <2>6. CASE UnderEvent(size, events, lengths, o)
    <3>1. PICK k \in 1 .. len :
             /\ events[k].offset \in 0 .. size - 1
             /\ o \in events[k].offset
                      .. events[k].offset + RowLength(size, lengths, events[k].offset) - 1
      BY <2>6 DEF UnderEvent
    <3>2. k \in 1 .. n
      BY <1>1, <1>4, <3>1
    <3> HIDE DEF all
    <3>3. PICK i \in 1 .. Len(all) : all[i].event = k
      BY <1>12, <3>2 DEF GoodRows, InOrder
    <3>4. k # 0
      BY <1>1, <3>1
    <3>5. all[i] = RowOf(size, events, lengths, k)
      BY <1>15, <3>3, <3>4 DEF Placed
    <3>6. /\ all[i].offset = events[k].offset
          /\ all[i].length = RowLength(size, lengths, events[k].offset)
      BY <3>5 DEF RowOf
    <3> QED
      BY <3>1, <3>3, <3>6 DEF ShownIn
  <2> QED
    BY <2>4, <2>5, <2>6
<1> QED
  BY <1>9, <1>12, <1>13, <1>15, <1>16 DEF n
===============================================================================
