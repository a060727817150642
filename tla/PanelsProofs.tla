----------------------------- MODULE PanelsProofs -----------------------------
(***************************************************************************)
(* Proofs about the register panels, for any number of registers, any      *)
(* viewport and any batch of events between two drawings, and about the    *)
(* seed fields they hold, for any texts written to them in any order.      *)
(***************************************************************************)
EXTENDS Panels, Seeds, LayoutProofs, FiniteSetTheorems, SequenceTheorems

-----------------------------------------------------------------------------
(* Sequences, whatever their elements are, and sums over them.             *)

\* Joining two sequences.
LEMMA Appended ==
    ASSUME NEW a, NEW b, IsSeq(a), IsSeq(b)
    PROVE  /\ IsSeq(a \o b) /\ Len(a \o b) = Len(a) + Len(b)
           /\ \A i \in 1 .. Len(a) : (a \o b)[i] = a[i]
           /\ \A i \in 1 .. Len(b) : (a \o b)[Len(a) + i] = b[i]
           /\ \A i \in 1 .. Len(a \o b) :
                 (i \in 1 .. Len(a)) \/ (i - Len(a) \in 1 .. Len(b) /\ (a \o b)[i] = b[i - Len(a)])
<1> DEFINE S == { a[i] : i \in DOMAIN a } \cup { b[i] : i \in DOMAIN b }
<1>1. a \in Seq(S) /\ b \in Seq(S)
  <2>1. /\ Len(a) \in Nat /\ DOMAIN a = 1 .. Len(a) /\ a \in [1 .. Len(a) -> S]
        /\ Len(b) \in Nat /\ DOMAIN b = 1 .. Len(b) /\ b \in [1 .. Len(b) -> S]
    BY DEF IsSeq
  <2> QED
    BY <2>1
<1> HIDE DEF S
<1>2. a \o b \in Seq(S) /\ Len(a \o b) = Len(a) + Len(b) /\ Len(a) \in Nat /\ Len(b) \in Nat
  BY <1>1
<1>3. IsSeq(a \o b)
  BY <1>2, SeqFacts
<1>4. /\ \A i \in 1 .. Len(a) : (a \o b)[i] = a[i]
      /\ \A i \in 1 .. Len(b) : (a \o b)[Len(a) + i] = b[i]
      /\ \A i \in 1 .. Len(a \o b) :
            (i \in 1 .. Len(a)) \/ (i - Len(a) \in 1 .. Len(b) /\ (a \o b)[i] = b[i - Len(a)])
  BY <1>1, <1>2
<1> QED
  BY <1>2, <1>3, <1>4

\* FlattenSeq satisfies the equations of its recursive definition.
LEMMA Flattened ==
    ASSUME NEW seqs, IsSeq(seqs), Len(seqs) > 0
    PROVE  \E f : /\ f = [ i \in 1 .. Len(seqs) |->
                             IF i = 1 THEN seqs[i] ELSE f[i - 1] \o seqs[i] ]
                  /\ FlattenSeq(seqs) = f[Len(seqs)]
<1> DEFINE Body(f, i) == IF i = 1 THEN seqs[i] ELSE f[i - 1] \o seqs[i]
           S == { n \in Nat : \E f : f = [ i \in 1 .. n |-> Body(f, i) ] }
           flatten == CHOOSE f : f = [ i \in 1 .. Len(seqs) |-> Body(f, i) ]
<1>1. Len(seqs) \in Nat
  BY SeqFacts
<1>2. 0 \in S
  <2> DEFINE f == [ i \in 1 .. 0 |-> 0 ]
  <2>1. f = [ i \in 1 .. 0 |-> Body(f, i) ]
    OBVIOUS
  <2> QED
    BY <2>1
<1>3. ASSUME NEW n \in 1 .. Len(seqs), n - 1 \in S PROVE n \in S
  <2>1. PICK f : f = [ i \in 1 .. n - 1 |-> Body(f, i) ]
    BY <1>3
  <2> DEFINE g == [ i \in 1 .. n |-> IF i < n THEN f[i] ELSE Body(f, i) ]
  <2>2. ASSUME NEW i \in 1 .. n PROVE g[i] = Body(g, i)
    <3>1. CASE i = 1
      BY <2>1, <3>1
    <3>2. CASE i # 1
      <4>1. i - 1 \in 1 .. n /\ i - 1 < n /\ g[i - 1] = f[i - 1]
        BY <3>2
      <4>2. CASE i < n
        <5>1. i \in 1 .. n - 1
          BY <4>2
        <5>2. f[i] = Body(f, i)
          BY <2>1, <5>1
        <5> QED
          BY <3>2, <4>1, <4>2, <5>2
      <4>3. CASE ~(i < n)
        BY <3>2, <4>1, <4>3
      <4> QED
        BY <4>2, <4>3
    <3> QED
      BY <3>1, <3>2
  <2>3. g = [ i \in 1 .. n |-> g[i] ]
    OBVIOUS
  <2> HIDE DEF g
  <2>4. g = [ i \in 1 .. n |-> Body(g, i) ]
    BY <2>2, <2>3
  <2>5. \E h : h = [ i \in 1 .. n |-> Body(h, i) ]
    <3> HIDE DEF Body
    <3> QED
      BY <2>4
  <2>6. n \in Nat
    BY <1>1
  <2> QED
    BY <2>5, <2>6, Zenon
<1>4. Len(seqs) \in S
  <2> HIDE DEF S
  <2>1. 0 .. Len(seqs) \subseteq S
    BY <1>1, <1>2, <1>3, UpTo, Zenon
  <2> QED
    BY <1>1, <2>1
<1>5. flatten = [ i \in 1 .. Len(seqs) |-> Body(flatten, i) ]
  BY <1>4
<1>6. FlattenSeq(seqs) = flatten[Len(seqs)]
  BY DEF FlattenSeq
<1> QED
  BY <1>5, <1>6

-----------------------------------------------------------------------------
(* What the rows of a panel hold.                                          *)

\* Value cells have a text that can be extended.
GoodRow(r) ==
    /\ IsSeq(r["cells"]) /\ IsSeq(r["names"])
    /\ \A k \in 1 .. Len(r["cells"]) : \E a, b : r["cells"][k].text = <<a, b>>

PanelRows(rows) == IsSeq(rows) /\ \A i \in 1 .. Len(rows) : GoodRow(rows[i])

\* A running count of the boxes of the rows stays within the bound.
Counts(rows, parts, c, bound) ==
    /\ c \in [0 .. Len(rows) -> Nat]
    /\ c[0] = 0 /\ c[Len(rows)] <= bound
    /\ \A i \in 1 .. Len(rows) : c[i - 1] + Len(rows[i][parts]) <= c[i]

Fits(rows, parts, bound) == \E c : Counts(rows, parts, c, bound)

Panel(rows, cells, names) ==
    PanelRows(rows) /\ Fits(rows, "cells", cells) /\ Fits(rows, "names", names)

\* Two running counts make one.
LEMMA FitsJoined ==
    ASSUME NEW a, NEW b, IsSeq(a), IsSeq(b), NEW parts, NEW m \in Nat, NEW n \in Nat,
           Fits(a, parts, m), Fits(b, parts, n),
           \A i \in 1 .. Len(a) : Len(a[i][parts]) \in Nat,
           \A i \in 1 .. Len(b) : Len(b[i][parts]) \in Nat
    PROVE  Fits(a \o b, parts, m + n)
<1>1. PICK c : Counts(a, parts, c, m)
  BY DEF Fits
<1>2. PICK d : Counts(b, parts, d, n)
  BY DEF Fits
<1> DEFINE ab == a \o b
           e  == [ i \in 0 .. Len(ab) |->
                     IF i <= Len(a) THEN c[i] ELSE c[Len(a)] + d[i - Len(a)] ]
<1>3. /\ Len(a) \in Nat /\ Len(b) \in Nat /\ Len(ab) = Len(a) + Len(b)
      /\ \A i \in 1 .. Len(a) : ab[i] = a[i]
      /\ \A i \in 1 .. Len(b) : ab[Len(a) + i] = b[i]
  BY Appended, SeqFacts
<1>4. /\ c \in [0 .. Len(a) -> Nat] /\ c[0] = 0 /\ c[Len(a)] <= m
      /\ \A i \in 1 .. Len(a) : c[i - 1] + Len(a[i][parts]) <= c[i]
  BY <1>1 DEF Counts
<1>5. /\ d \in [0 .. Len(b) -> Nat] /\ d[0] = 0 /\ d[Len(b)] <= n
      /\ \A i \in 1 .. Len(b) : d[i - 1] + Len(b[i][parts]) <= d[i]
  BY <1>2 DEF Counts
<1>nat. /\ \A i \in 0 .. Len(a) : c[i] \in Nat
        /\ \A i \in 0 .. Len(b) : d[i] \in Nat
  BY <1>4, <1>5
<1> HIDE DEF ab
<1>6. e \in [0 .. Len(ab) -> Nat] /\ e[0] = 0 /\ e[Len(ab)] <= m + n
  <2>1. ASSUME NEW i \in 0 .. Len(ab) PROVE e[i] \in Nat
    <3>1. CASE i <= Len(a)
      BY <1>3, <1>4, <3>1
    <3>2. CASE ~(i <= Len(a))
      <4>1. i - Len(a) \in 0 .. Len(b)
        BY <1>3, <3>2
      <4>2. c[Len(a)] \in Nat /\ d[i - Len(a)] \in Nat
        BY <1>3, <1>nat, <4>1
      <4> QED
        BY <3>2, <4>2
    <3> QED
      BY <3>1, <3>2
  <2>2. e[0] = 0
    BY <1>3, <1>4
  <2>3. e[Len(ab)] <= m + n
    <3>1. CASE Len(b) = 0
      <4>1. Len(ab) = Len(a)
        BY <1>3, <3>1
      <4>2. e[Len(ab)] = c[Len(a)] /\ c[Len(a)] \in Nat
        BY <1>3, <1>4, <4>1
      <4> QED
        BY <1>4, <4>2
    <3>2. CASE Len(b) # 0
      <4>1. ~(Len(ab) <= Len(a)) /\ Len(ab) - Len(a) = Len(b)
        BY <1>3, <3>2
      <4>2. /\ e[Len(ab)] = c[Len(a)] + d[Len(b)]
            /\ c[Len(a)] \in Nat /\ d[Len(b)] \in Nat
        BY <1>3, <1>4, <1>5, <4>1
      <4> QED
        BY <1>4, <1>5, <4>2
    <3> QED
      BY <3>1, <3>2
  <2> QED
    BY <2>1, <2>2, <2>3
<1>7. ASSUME NEW i \in 1 .. Len(ab) PROVE e[i - 1] + Len(ab[i][parts]) <= e[i]
  <2>1. CASE i <= Len(a)
    <3>1. i \in 1 .. Len(a) /\ e[i] = c[i] /\ e[i - 1] = c[i - 1] /\ ab[i] = a[i]
      BY <1>3, <2>1
    <3> QED
      BY <1>4, <3>1
  <2>2. CASE ~(i <= Len(a))
    <3> DEFINE j == i - Len(a)
    <3>1. j \in 1 .. Len(b) /\ i = Len(a) + j
      BY <1>3, <2>2
    <3>2. ab[i] = b[j] /\ e[i] = c[Len(a)] + d[j] /\ c[Len(a)] \in Nat
      BY <1>3, <1>4, <2>2, <3>1
    <3>3. e[i - 1] = c[Len(a)] + d[j - 1]
      <4>1. CASE j = 1
        <5>1. i - 1 = Len(a) /\ i - 1 \in 0 .. Len(ab)
          BY <1>3, <3>1, <4>1
        <5>2. e[i - 1] = c[Len(a)] /\ d[j - 1] = 0
          BY <1>3, <1>5, <4>1, <5>1
        <5> QED
          BY <3>2, <5>2
      <4>2. CASE j # 1
        <5>1. ~(i - 1 <= Len(a)) /\ i - 1 \in 0 .. Len(ab) /\ (i - 1) - Len(a) = j - 1
          BY <1>3, <3>1, <4>2
        <5> QED
          BY <5>1
      <4> QED
        BY <4>1, <4>2
    <3>4. /\ d[j - 1] + Len(b[j][parts]) <= d[j] /\ Len(b[j][parts]) \in Nat
          /\ d[j - 1] \in Nat /\ d[j] \in Nat
      <4>1. j - 1 \in 0 .. Len(b) /\ j \in 0 .. Len(b)
        BY <1>3, <3>1
      <4> QED
        BY <1>5, <1>nat, <3>1, <4>1
    <3> HIDE DEF j, e
    <3> QED
      BY <3>2, <3>3, <3>4, SMTT(30)
  <2> QED
    BY <2>1, <2>2
<1> HIDE DEF e
<1>8. Counts(ab, parts, e, m + n)
  BY <1>6, <1>7 DEF Counts
<1> QED
  BY <1>8 DEF Fits, ab

\* The number of elements of a row's parts.
LEMMA PartSizes ==
    ASSUME NEW rows, PanelRows(rows)
    PROVE  \A i \in 1 .. Len(rows) : /\ Len(rows[i]["cells"]) \in Nat
                                     /\ Len(rows[i]["names"]) \in Nat
  BY SeqFacts DEF PanelRows, GoodRow

\* Panels put below each other.
LEMMA PanelsJoined ==
    ASSUME NEW a, NEW b, NEW c1 \in Nat, NEW c2 \in Nat, NEW n1 \in Nat, NEW n2 \in Nat,
           Panel(a, c1, n1), Panel(b, c2, n2)
    PROVE  Panel(a \o b, c1 + c2, n1 + n2)
<1>1. IsSeq(a) /\ IsSeq(b) /\ PanelRows(a) /\ PanelRows(b)
  BY DEF Panel, PanelRows
<1>2. Fits(a \o b, "cells", c1 + c2) /\ Fits(a \o b, "names", n1 + n2)
  BY <1>1, PartSizes, FitsJoined DEF Panel
<1>3. PanelRows(a \o b)
  <2>1. /\ IsSeq(a \o b)
        /\ \A i \in 1 .. Len(a) : (a \o b)[i] = a[i]
        /\ \A i \in 1 .. Len(a \o b) :
              (i \in 1 .. Len(a)) \/ (i - Len(a) \in 1 .. Len(b) /\ (a \o b)[i] = b[i - Len(a)])
    BY <1>1, Appended
  <2> QED
    BY <1>1, <2>1 DEF PanelRows
<1> QED
  BY <1>2, <1>3 DEF Panel

\* No rows at all.
LEMMA NoRows == Panel(<<>>, 0, 0)
<1>1. IsSeq(<<>>) /\ Len(<<>>) = 0
  BY DEF IsSeq
<1>2. \A parts : Fits(<<>>, parts, 0)
  <2> DEFINE c == [ i \in 0 .. 0 |-> 0 ]
  <2>1. \A parts : Counts(<<>>, parts, c, 0)
    BY <1>1 DEF Counts
  <2> QED
    BY <2>1 DEF Fits
<1> QED
  BY <1>1, <1>2 DEF Panel, PanelRows

\* One row.
LEMMA OneRow ==
    ASSUME NEW r, GoodRow(r)
    PROVE  Panel(<<r>>, Len(r["cells"]), Len(r["names"]))
<1>1. Len(r["cells"]) \in Nat /\ Len(r["names"]) \in Nat
  BY SeqFacts DEF GoodRow
<1>2. <<r>> \in Seq({r}) /\ Len(<<r>>) = 1 /\ <<r>>[1] = r
  OBVIOUS
<1>3. PanelRows(<<r>>)
  <2>1. IsSeq(<<r>>)
    BY <1>2, SeqFacts, Zenon
  <2> QED
    BY <1>2, <2>1 DEF PanelRows
<1>4. ASSUME NEW parts, Len(r[parts]) \in Nat PROVE Fits(<<r>>, parts, Len(r[parts]))
  <2> DEFINE c == [ i \in 0 .. 1 |-> IF i = 0 THEN 0 ELSE Len(r[parts]) ]
  <2>1. Counts(<<r>>, parts, c, Len(r[parts]))
    BY <1>2, <1>4 DEF Counts
  <2> QED
    BY <2>1 DEF Fits
<1> QED
  BY <1>1, <1>3, <1>4 DEF Panel

\* A bound may be taken larger.
LEMMA PanelGrown ==
    ASSUME NEW a, NEW c1 \in Nat, NEW c2 \in Nat, NEW n1 \in Nat, NEW n2 \in Nat,
           Panel(a, c1, n1), c1 <= c2, n1 <= n2
    PROVE  Panel(a, c2, n2)
<1>1. ASSUME NEW parts, NEW x \in Nat, NEW y \in Nat, Fits(a, parts, x), x <= y
      PROVE  Fits(a, parts, y)
  <2>1. PICK c : Counts(a, parts, c, x)
    BY <1>1 DEF Fits
  <2>2. Len(a) \in Nat
    BY SeqFacts DEF Panel, PanelRows
  <2>3. Counts(a, parts, c, y)
    BY <1>1, <2>1, <2>2, SMTT(30) DEF Counts
  <2> QED
    BY <2>3 DEF Fits
<1> QED
  BY <1>1 DEF Panel

\* Many panels of at most so many boxes each.
LEMMA PanelsFlattened ==
    ASSUME NEW seqs, IsSeq(seqs), NEW c \in Nat, NEW n \in Nat,
           \A i \in 1 .. Len(seqs) : Panel(seqs[i], c, n)
    PROVE  Panel(FlattenSeq(seqs), Len(seqs) * c, Len(seqs) * n)
<1>1. Len(seqs) \in Nat
  BY SeqFacts
<1>2. CASE Len(seqs) = 0
  <2>1. FlattenSeq(seqs) = <<>>
    <3>1. seqs = <<>>
      BY <1>2 DEF IsSeq
    <3> QED
      BY <1>2, <3>1 DEF FlattenSeq
  <2>2. Len(seqs) * c = 0 /\ Len(seqs) * n = 0
    BY <1>2
  <2> QED
    BY <2>1, <2>2, NoRows
<1>3. CASE Len(seqs) > 0
  <2>1. PICK f : /\ f = [ i \in 1 .. Len(seqs) |->
                            IF i = 1 THEN seqs[i] ELSE f[i - 1] \o seqs[i] ]
                 /\ FlattenSeq(seqs) = f[Len(seqs)]
    BY <1>3, Flattened
  <2>2. \A i \in 1 .. Len(seqs) : f[i] = IF i = 1 THEN seqs[i] ELSE f[i - 1] \o seqs[i]
    BY <2>1
  <2> DEFINE S == { k \in Nat : k = 0 \/ Panel(f[k], k * c, k * n) }
  <2>3. 0 \in S
    OBVIOUS
  <2>4. ASSUME NEW k \in 1 .. Len(seqs), k - 1 \in S PROVE k \in S
    <3>1. k \in Nat
      BY <1>1
    <3>2. CASE k = 1
      <4>1. f[k] = seqs[k] /\ k * c = c /\ k * n = n
        BY <2>2, <3>2
      <4>2. Panel(f[k], k * c, k * n)
        BY <4>1
      <4> QED
        BY <3>1, <4>2
    <3>3. CASE k # 1
      <4> DEFINE j == k - 1
      <4>1. /\ j \in Nat \ {0} /\ j * c \in Nat /\ j * n \in Nat
            /\ k * c = j * c + c /\ k * n = j * n + n
        BY <3>1, <3>3
      <4>2. Panel(f[j], j * c, j * n)
        BY <2>4, <4>1
      <4>3. f[k] = f[j] \o seqs[k]
        BY <2>2, <3>3
      <4> HIDE DEF j
      <4>4. Panel(f[j] \o seqs[k], j * c + c, j * n + n)
        BY <4>1, <4>2, PanelsJoined
      <4>5. Panel(f[k], k * c, k * n)
        BY <4>1, <4>3, <4>4
      <4> QED
        BY <3>1, <4>5
    <3> QED
      BY <3>2, <3>3
  <2> HIDE DEF S
  <2>5. 0 .. Len(seqs) \subseteq S
    BY <1>1, <2>3, <2>4, UpTo, Zenon
  <2>6. Len(seqs) \in S
    BY <1>1, <2>5
  <2> QED
    BY <1>3, <2>1, <2>6 DEF S
<1> QED
  BY <1>1, <1>2, <1>3

-----------------------------------------------------------------------------
(* The rows that the three renderers make.                                 *)

\* Short lists.
LEMMA ShortLists ==
    /\ IsSeq(<<>>) /\ Len(<<>>) = 0
    /\ \A x : IsSeq(<<x>>) /\ Len(<<x>>) = 1
    /\ \A x, y : <<x>> \o <<y>> = <<x, y>>
<1>1. ASSUME NEW x PROVE IsSeq(<<x>>) /\ Len(<<x>>) = 1
  <2>1. <<x>> \in Seq({x}) /\ Len(<<x>>) = 1
    OBVIOUS
  <2> QED
    BY <2>1, SeqFacts, Zenon
<1>2. ASSUME NEW x, NEW y PROVE <<x>> \o <<y>> = <<x, y>>
  <2> DEFINE p == <<x>> \o <<y>>
             q == <<x, y>>
  <2>1. p \in Seq({x, y}) /\ Len(p) = 2 /\ p[1] = x /\ p[2] = y
    OBVIOUS
  <2>2. q \in Seq({x, y}) /\ Len(q) = 2 /\ q[1] = x /\ q[2] = y
    OBVIOUS
  <2> HIDE DEF p, q
  <2>3. \A i \in 1 .. 2 : p[i] = q[i]
    <3>1. \A i \in 1 .. 2 : i = 1 \/ i = 2
      OBVIOUS
    <3> QED
      BY <2>1, <2>2, <3>1
  <2>4. p = q
    BY <2>1, <2>2, <2>3
  <2> QED
    BY <2>4 DEF p, q
<1> QED
  BY <1>1, <1>2 DEF IsSeq

\* A row of a renderer; its cells count once there is a trace.
LEMMA RowPanel ==
    ASSUME NEW names, NEW cells, NEW c \in Nat, NEW n \in Nat,
           IsSeq(names), IsSeq(cells), Len(cells) <= c, Len(names) <= n,
           \A k \in 1 .. Len(cells) : \E a, b : cells[k].text = <<a, b>>
    PROVE  Panel(<<Row(names, cells)>>, c, n)
<1> DEFINE r == Row(names, cells)
<1>1. r["names"] = names /\ r["cells"] \in {cells, <<>>}
  BY DEF Row
<1> HIDE DEF r
<1>2. GoodRow(r) /\ Len(r["cells"]) <= c /\ Len(r["cells"]) \in Nat /\ Len(names) \in Nat
  <2>1. CASE r["cells"] = cells
    BY <1>1, <2>1, SeqFacts DEF GoodRow
  <2>2. CASE r["cells"] = <<>>
    BY <1>1, <2>2, SeqFacts, ShortLists DEF GoodRow
  <2> QED
    BY <1>1, <2>1, <2>2
<1>3. Panel(<<r>>, Len(r["cells"]), Len(r["names"]))
  BY <1>2, OneRow
<1>4. Panel(<<r>>, c, n)
  BY <1>1, <1>2, <1>3, PanelGrown
<1> QED
  BY <1>4 DEF r

\* A row with one value cell.
LEMMA CellRow ==
    ASSUME NEW names, IsSeq(names), NEW n \in Nat, Len(names) <= n, NEW what, NEW address
    PROVE  Panel(<<Row(names, <<Cell(what, address)>>)>>, 1, n)
<1> DEFINE cells == <<Cell(what, address)>>
<1>1. IsSeq(cells) /\ Len(cells) = 1
  BY ShortLists
<1>2. \A k \in 1 .. Len(cells) : \E a, b : cells[k].text = <<a, b>>
  BY DEF Cell
<1> HIDE DEF cells
<1>3. Len(cells) <= 1 /\ 1 \in Nat
  BY <1>1
<1>4. Panel(<<Row(names, cells)>>, 1, n)
  BY <1>1, <1>2, <1>3, RowPanel, Zenon
<1> QED
  BY <1>4 DEF cells

\* The same without a name cell.
LEMMA UnnamedCell ==
    ASSUME NEW what, NEW address
    PROVE  Panel(<<Row(<<>>, <<Cell(what, address)>>)>>, 1, 0)
<1> DEFINE names == <<>>
<1>1. IsSeq(names) /\ Len(names) <= 0 /\ 0 \in Nat
  BY ShortLists
<1> HIDE DEF names
<1>2. Panel(<<Row(names, <<Cell(what, address)>>)>>, 1, 0)
  BY <1>1, CellRow, Zenon
<1> QED
  BY <1>2 DEF names

\* A row that is there or not.
LEMMA MaybeRow ==
    ASSUME NEW p, NEW a, NEW c \in Nat, NEW n \in Nat, Panel(a, c, n)
    PROVE  Panel(IF p THEN a ELSE <<>>, c, n)
  BY NoRows, PanelGrown

\* The tree of one general register.
LEMMA TreePanel ==
    ASSUME NEW g
    PROVE  Panel(GprTree(g), 5, 3)
<1> DEFINE Node(level, part) ==
             Row(IF level < 3 THEN <<[ reg |-> g, level |-> level ]>> ELSE <<>>,
                 <<Cell(<<g, part>>, level = 0)>>)
           depth == gpr_depth[g]
           t0 == <<Node(0, "full")>>
           t1 == IF depth >= 1 THEN <<Node(1, "dword")>> ELSE <<>>
           t2 == IF depth >= 2 THEN <<Node(2, "word")>> ELSE <<>>
           t3 == IF depth >= 3 /\ g \in Legacy THEN <<Node(3, "byte_high")>> ELSE <<>>
           t4 == IF depth >= 3 THEN <<Node(3, "byte_low")>> ELSE <<>>
<1>1. GprTree(g) = (((t0 \o t1) \o t2) \o t3) \o t4
  BY DEF GprTree
<1>2. ASSUME NEW level \in 0 .. 2, NEW part PROVE Panel(<<Node(level, part)>>, 1, 1)
  <2> DEFINE names == IF level < 3 THEN <<[ reg |-> g, level |-> level ]>> ELSE <<>>
  <2>1. IsSeq(names) /\ Len(names) <= 1
    BY ShortLists
  <2> HIDE DEF names
  <2>2. Panel(<<Row(names, <<Cell(<<g, part>>, level = 0)>>)>>, 1, 1)
    BY <2>1, CellRow
  <2> QED
    BY <2>2 DEF names
<1>3. ASSUME NEW part PROVE Panel(<<Node(3, part)>>, 1, 0)
  <2> DEFINE names == IF 3 < 3 THEN <<[ reg |-> g, level |-> 3 ]>> ELSE <<>>
  <2>1. IsSeq(names) /\ Len(names) <= 0
    BY ShortLists
  <2> HIDE DEF names
  <2>2. Panel(<<Row(names, <<Cell(<<g, part>>, 3 = 0)>>)>>, 1, 0)
    BY <2>1, CellRow
  <2> QED
    BY <2>2 DEF names
<1>4. Panel(t0, 1, 1)
  BY <1>2
<1>5. Panel(t1, 1, 1) /\ Panel(t2, 1, 1)
  <2>1. Panel(<<Node(1, "dword")>>, 1, 1) /\ Panel(<<Node(2, "word")>>, 1, 1)
    BY <1>2
  <2> HIDE DEF Node
  <2> QED
    BY <2>1, MaybeRow
<1>6. Panel(t3, 1, 0) /\ Panel(t4, 1, 0)
  <2>1. Panel(<<Node(3, "byte_high")>>, 1, 0) /\ Panel(<<Node(3, "byte_low")>>, 1, 0)
    BY <1>3
  <2> HIDE DEF Node
  <2> QED
    BY <2>1, MaybeRow
<1> HIDE DEF t0, t1, t2, t3, t4
<1>7. Panel(t0 \o t1, 1 + 1, 1 + 1)
  BY <1>4, <1>5, PanelsJoined
<1>8. Panel((t0 \o t1) \o t2, 2 + 1, 2 + 1)
  BY <1>5, <1>7, PanelsJoined
<1>9. Panel(((t0 \o t1) \o t2) \o t3, 3 + 1, 3 + 0)
  BY <1>6, <1>8, PanelsJoined
<1>10. Panel((((t0 \o t1) \o t2) \o t3) \o t4, 4 + 1, 3 + 0)
  BY <1>6, <1>9, PanelsJoined
<1> QED
  BY <1>1, <1>10

\* A register without a tree.
LEMMA FlatPanel ==
    ASSUME NEW r
    PROVE  Panel(<<Flat(r)>>, 1, 0)
  BY UnnamedCell DEF Flat

\* The general registers.
LEMMA RegistersPanel == Panel(render_registers, GPR_COUNT * 5, (GPR_COUNT - 1) * 3)
<1> DEFINE n     == Len(Gprs)
           trees == [ i \in 1 .. n |-> GprTree(Gprs[i]) ]
           flats == <<Flat("RSP"), Flat("RFLAGS")>>
<1>1. n \in Nat
  BY PanelsAssumption
<1>2. IsSeq(trees) /\ Len(trees) = n /\ \A i \in 1 .. Len(trees) : Panel(trees[i], 5, 3)
  <2>1. Len(trees) = n /\ DOMAIN trees = 1 .. n
    BY <1>1
  <2>2. IsSeq(trees)
    BY <1>1, <2>1 DEF IsSeq
  <2>3. \A i \in 1 .. n : trees[i] = GprTree(Gprs[i])
    OBVIOUS
  <2> HIDE DEF trees
  <2> QED
    BY <2>1, <2>2, <2>3, TreePanel
<1>3. Panel(flats, 1 + 1, 0 + 0)
  <2>1. Panel(<<Flat("RSP")>> \o <<Flat("RFLAGS")>>, 1 + 1, 0 + 0)
    BY FlatPanel, PanelsJoined
  <2>2. <<Flat("RSP")>> \o <<Flat("RFLAGS")>> = flats
    BY ShortLists
  <2> QED
    BY <2>1, <2>2
<1>4. render_registers = (<<Flat("RIP")>> \o FlattenSeq(trees)) \o flats
  BY DEF render_registers
<1> HIDE DEF trees, flats, n
<1>5. Panel(FlattenSeq(trees), n * 5, n * 3)
  BY <1>2, PanelsFlattened
<1>6. n * 5 \in Nat /\ n * 3 \in Nat
  BY <1>1
<1>7. Panel(<<Flat("RIP")>> \o FlattenSeq(trees), 1 + n * 5, 0 + n * 3)
  BY <1>5, <1>6, FlatPanel, PanelsJoined
<1>8. 1 + n * 5 \in Nat /\ 0 + n * 3 \in Nat
  BY <1>6
<1>9. Panel(render_registers, (1 + n * 5) + (1 + 1), (0 + n * 3) + (0 + 0))
  <2> DEFINE a == <<Flat("RIP")>> \o FlattenSeq(trees)
  <2> HIDE DEF a
  <2>1. Panel(a, 1 + n * 5, 0 + n * 3)
    BY <1>7 DEF a
  <2>2. Panel(a \o flats, (1 + n * 5) + (1 + 1), (0 + n * 3) + (0 + 0))
    BY <1>3, <1>8, <2>1, PanelsJoined
  <2> QED
    BY <1>4, <2>2 DEF a
<1>10. /\ (1 + n * 5) + (1 + 1) <= GPR_COUNT * 5 /\ (0 + n * 3) + (0 + 0) <= (GPR_COUNT - 1) * 3
       /\ (1 + n * 5) + (1 + 1) \in Nat /\ (0 + n * 3) + (0 + 0) \in Nat
       /\ GPR_COUNT * 5 \in Nat /\ (GPR_COUNT - 1) * 3 \in Nat
  BY <1>1 DEF GPR_COUNT, n
<1> QED
  BY <1>9, <1>10, PanelGrown

\* Lanes of a vector register.
LEMMA LanesRow ==
    ASSUME NEW register, NEW kind, NEW n \in Nat
    PROVE  Panel(<<Row(<<>>, Lanes(register, kind, n))>>, n, 0)
<1> DEFINE cells == Lanes(register, kind, n)
<1>1. cells = [ k \in 1 .. n |-> Cell(<<register, kind, k>>, FALSE) ]
  BY DEF Lanes
<1>2. cells = [ k \in 1 .. n |-> cells[k] ]
  BY <1>1
<1>3. \A k \in 1 .. n : \E a, b : cells[k].text = <<a, b>>
  BY <1>1 DEF Cell
<1> HIDE DEF cells
<1>4. IsSeq(cells) /\ Len(cells) = n
  BY <1>2, Listed
<1>5. Panel(<<Row(<<>>, cells)>>, n, 0)
  BY <1>3, <1>4, ShortLists, RowPanel
<1> QED
  BY <1>5 DEF cells

\* One XMM register.
LEMMA XmmPanel ==
    ASSUME NEW i
    PROVE  Panel(XmmRows(i), 7, 1)
<1> DEFINE t0 == <<Row(<<[ reg |-> i, level |-> 0 ]>>, <<Cell(<<i, "hex">>, FALSE)>>)>>
           t1 == IF has_trace THEN <<Row(<<>>, Lanes(i, "f64x2", 2))>> ELSE <<>>
           t2 == IF has_trace /\ xmm_expand[i] THEN <<Row(<<>>, Lanes(i, "f32x4", 4))>> ELSE <<>>
<1>1. XmmRows(i) = (t0 \o t1) \o t2
  BY DEF XmmRows
<1>2. Panel(t0, 1, 1)
  <2> DEFINE names == <<[ reg |-> i, level |-> 0 ]>>
  <2>1. IsSeq(names) /\ Len(names) <= 1
    BY ShortLists
  <2> HIDE DEF names
  <2>2. Panel(<<Row(names, <<Cell(<<i, "hex">>, FALSE)>>)>>, 1, 1)
    BY <2>1, CellRow
  <2> QED
    BY <2>2 DEF names
<1>3. Panel(t1, 2, 0)
  BY LanesRow, MaybeRow
<1>4. Panel(t2, 4, 0)
  BY LanesRow, MaybeRow
<1> HIDE DEF t0, t1, t2
<1>5. Panel(t0 \o t1, 1 + 2, 1 + 0)
  BY <1>2, <1>3, PanelsJoined
<1>6. Panel((t0 \o t1) \o t2, 3 + 4, 1 + 0)
  BY <1>4, <1>5, PanelsJoined
<1> QED
  BY <1>1, <1>6

\* The lines of decoded control words hold no boxes.
LEMMA DecodedPanel ==
    ASSUME NEW n \in Nat
    PROVE  Panel(Decoded(n), 0, 0)
<1> DEFINE m == IF has_trace THEN n ELSE 0
           r == Row(<<>>, <<>>)
           d == [ k \in 1 .. m |-> r ]
           c == [ k \in 0 .. m |-> 0 ]
<1>1. m \in Nat /\ Decoded(n) = d
  BY DEF Decoded
<1>2. r["names"] = <<>> /\ r["cells"] = <<>>
  BY DEF Row
<1> HIDE DEF m, r
<1>3. Len(d) = m /\ DOMAIN d = 1 .. m /\ \A k \in 1 .. m : d[k] = r
  BY <1>1
<1>4. IsSeq(d)
  BY <1>1, <1>3, SMTT(30) DEF IsSeq
<1>5. GoodRow(r)
  BY <1>2, ShortLists DEF GoodRow
<1> HIDE DEF d
<1>6. PanelRows(d)
  BY <1>3, <1>4, <1>5 DEF PanelRows
<1>7. Counts(d, "cells", c, 0) /\ Counts(d, "names", c, 0)
  BY <1>1, <1>2, <1>3, ShortLists DEF Counts
<1> HIDE DEF c
<1> QED
  BY <1>1, <1>6, <1>7 DEF Panel, Fits

\* A table of n registers, a control register and its decoded lines.
LEMMA TablePanel ==
    ASSUME NEW n \in Nat, NEW c \in Nat, NEW table, IsSeq(table), Len(table) = n,
           \A i \in 1 .. n : Panel(table[i], c, 1), NEW what
    PROVE  Panel(FlattenSeq(table) \o <<Row(<<>>, <<Cell(what, FALSE)>>)>> \o Decoded(DecodeRows),
                 n * c + 1, n)
<1> DEFINE t0 == FlattenSeq(table)
           t1 == <<Row(<<>>, <<Cell(what, FALSE)>>)>>
           t2 == Decoded(DecodeRows)
<1>1. Panel(t0, n * c, n * 1) /\ n * c \in Nat /\ n * 1 = n
  <2>1. 1 \in Nat /\ \A i \in 1 .. Len(table) : Panel(table[i], c, 1)
    OBVIOUS
  <2>2. Panel(t0, Len(table) * c, Len(table) * 1)
    BY <2>1, PanelsFlattened, Zenon
  <2> QED
    BY <2>2
<1>2. Panel(t1, 1, 0)
  BY UnnamedCell
<1>3. Panel(t2, 0, 0)
  BY PanelsAssumption, DecodedPanel
<1> HIDE DEF t0, t1, t2
<1>4. Panel(t0 \o t1, n * c + 1, n + 0)
  BY <1>1, <1>2, PanelsJoined
<1>5. Panel((t0 \o t1) \o t2, (n * c + 1) + 0, (n + 0) + 0)
  <2>1. n * c + 1 \in Nat /\ n + 0 \in Nat
    BY <1>1
  <2> QED
    BY <1>3, <1>4, <2>1, PanelsJoined
<1>6. (n * c + 1) + 0 = n * c + 1 /\ (n + 0) + 0 = n
  BY <1>1
<1>7. Panel((t0 \o t1) \o t2, n * c + 1, n)
  BY <1>5, <1>6
<1> QED
  BY <1>7 DEF t0, t1, t2

\* The XMM registers.
LEMMA VectorPanel == Panel(render_xmm, XmmCount * 7 + 1, XmmCount)
<1> DEFINE table == [ i \in 1 .. XmmCount |-> XmmRows(i) ]
<1>1. XmmCount \in Nat
  BY PanelsAssumption
<1>2. Len(table) = XmmCount /\ DOMAIN table = 1 .. XmmCount
  BY <1>1
<1>3. IsSeq(table)
  BY <1>1, <1>2 DEF IsSeq
<1>4. \A i \in 1 .. XmmCount : Panel(table[i], 7, 1)
  BY XmmPanel
<1>5. render_xmm = FlattenSeq(table) \o <<Row(<<>>, <<Cell(<<"MXCSR">>, FALSE)>>)>>
                     \o Decoded(DecodeRows)
  BY DEF render_xmm
<1> HIDE DEF table
<1> QED
  BY <1>1, <1>2, <1>3, <1>4, <1>5, TablePanel

\* One x87 register.
LEMMA StPanel ==
    ASSUME NEW i
    PROVE  Panel(StRows(i), 3, 1)
<1> DEFINE occupied == has_trace /\ i \in state.occupied
           value == IF occupied THEN <<Cell(<<i, "value">>, FALSE)>> ELSE <<>>
           raw   == <<Cell(<<i, "raw">>, FALSE)>>
           names == <<[ reg |-> i, level |-> 0 ]>>
           t0 == <<Row(names, value \o raw)>>
           t1 == IF occupied /\ st_expand[i] THEN <<Row(<<>>, <<Cell(<<i, "f32">>, FALSE)>>)>>
                 ELSE <<>>
<1>1. StRows(i) = t0 \o t1
  BY DEF StRows
<1>2. /\ IsSeq(value) /\ Len(value) <= 1
      /\ \A k \in 1 .. Len(value) : \E a, b : value[k].text = <<a, b>>
  <2>1. CASE occupied
    <3>1. value = <<Cell(<<i, "value">>, FALSE)>>
      BY <2>1
    <3>2. \E a, b : Cell(<<i, "value">>, FALSE).text = <<a, b>>
      BY DEF Cell
    <3>3. IsSeq(value) /\ Len(value) = 1 /\ value[1] = Cell(<<i, "value">>, FALSE)
      BY <3>1, ShortLists
    <3>4. \A k \in 1 .. 1 : k = 1
      OBVIOUS
    <3> HIDE DEF value
    <3>5. \A k \in 1 .. Len(value) : value[k] = Cell(<<i, "value">>, FALSE)
      BY <3>3, <3>4
    <3>6. \A k \in 1 .. Len(value) : \E a, b : value[k].text = <<a, b>>
      BY <3>2, <3>5, Zenon
    <3>7. Len(value) <= 1
      BY <3>3
    <3> QED
      BY <3>3, <3>6, <3>7
  <2>2. CASE ~occupied
    <3>1. value = <<>>
      BY <2>2
    <3> HIDE DEF value
    <3> QED
      BY <3>1, ShortLists
  <2> QED
    BY <2>1, <2>2
<1>3. /\ IsSeq(raw) /\ Len(raw) = 1
      /\ \A k \in 1 .. Len(raw) : \E a, b : raw[k].text = <<a, b>>
  <2>1. \E a, b : Cell(<<i, "raw">>, FALSE).text = <<a, b>>
    BY DEF Cell
  <2>2. IsSeq(raw) /\ Len(raw) = 1 /\ raw[1] = Cell(<<i, "raw">>, FALSE)
    BY ShortLists
  <2>3. \A k \in 1 .. 1 : k = 1
    OBVIOUS
  <2> HIDE DEF raw
  <2> QED
    BY <2>1, <2>2, <2>3
<1>4. IsSeq(names) /\ Len(names) <= 1
  BY ShortLists
<1>5. Panel(t1, 1, 0)
  BY UnnamedCell, MaybeRow
<1> HIDE DEF value, raw, names, t1
<1>6. Panel(t0, 2, 1)
  <2> DEFINE cells == value \o raw
  <2>1. IsSeq(cells) /\ Len(cells) <= 2
    <3>1. IsSeq(cells) /\ Len(cells) = Len(value) + Len(raw)
      BY <1>2, <1>3, Appended, Zenon
    <3>2. Len(value) \in Nat /\ Len(raw) \in Nat
      BY <1>2, <1>3, SeqFacts
    <3> QED
      BY <1>2, <1>3, <3>1, <3>2
  <2>2. \A k \in 1 .. Len(cells) : \E a, b : cells[k].text = <<a, b>>
    <3>1. /\ \A k \in 1 .. Len(value) : cells[k] = value[k]
          /\ \A k \in 1 .. Len(cells) :
                (k \in 1 .. Len(value)) \/ (k - Len(value) \in 1 .. Len(raw)
                                              /\ cells[k] = raw[k - Len(value)])
      BY <1>2, <1>3, Appended
    <3> HIDE DEF cells
    <3> QED
      BY <1>2, <1>3, <3>1
  <2> HIDE DEF cells
  <2>3. Panel(<<Row(names, cells)>>, 2, 1)
    BY <1>4, <2>1, <2>2, RowPanel
  <2> QED
    BY <2>3 DEF cells
<1> HIDE DEF t0
<1>7. Panel(t0 \o t1, 2 + 1, 1 + 0)
  BY <1>5, <1>6, PanelsJoined
<1> QED
  BY <1>1, <1>7

\* The x87 registers.
LEMMA FloatPanel == Panel(render_x87, StCount * 3 + 1, StCount)
<1> DEFINE table == [ i \in 1 .. StCount |-> StRows(i) ]
<1>1. StCount \in Nat
  BY PanelsAssumption
<1>2. Len(table) = StCount /\ DOMAIN table = 1 .. StCount
  BY <1>1
<1>3. IsSeq(table)
  BY <1>1, <1>2 DEF IsSeq
<1>4. \A i \in 1 .. StCount : Panel(table[i], 3, 1)
  BY StPanel
<1>5. render_x87 = FlattenSeq(table) \o <<Row(<<>>, <<Cell(<<"control word">>, FALSE)>>)>>
                     \o Decoded(DecodeRows)
  BY DEF render_x87
<1> HIDE DEF table
<1> QED
  BY <1>1, <1>2, <1>3, <1>4, <1>5, TablePanel

\* Whatever is unfolded and occupied, no renderer makes more boxes than it reserves.
LEMMA RowsPanel ==
    ASSUME NEW tab \in Tabs
    PROVE  Panel(Rows(tab), CopyReserve(tab), NameReserve(tab))
<1> USE DEF GPR, SSE, X87
<1>1. tab \in {0, 1, 2}
  BY DEF Tabs
<1>2. CASE tab = 0
  BY <1>2, RegistersPanel DEF Rows, CopyReserve, NameReserve
<1>3. CASE tab = 1
  BY <1>3, VectorPanel DEF Rows, CopyReserve, NameReserve
<1>4. CASE tab = 2
  BY <1>4, FloatPanel DEF Rows, CopyReserve, NameReserve
<1> QED
  BY <1>1, <1>2, <1>3, <1>4

-----------------------------------------------------------------------------
(* The boxes of a drawing.                                                 *)

\* There are as many boxes as parts, and each belongs to a part of a row.
LEMMA BoxesCounted ==
    ASSUME NEW rows, IsSeq(rows), NEW dy, NEW parts, NEW bound \in Nat,
           \A i \in 1 .. Len(rows) : IsSeq(rows[i][parts]), Fits(rows, parts, bound)
    PROVE  LET boxes == Boxes(rows, dy, parts)
           IN  /\ IsSeq(boxes) /\ Len(boxes) <= bound
               /\ \A k \in 1 .. Len(boxes) :
                    \E i \in 1 .. Len(rows) : \E m \in 1 .. Len(rows[i][parts]) :
                       boxes[k].part = rows[i][parts][m]
<1> DEFINE Box(i, k) == [ place |-> <<i - dy, k>>, in_sight |-> i - dy \in 0 .. Height - 1,
                          part |-> rows[i][parts][k] ]
           seqs  == [ i \in 1 .. Len(rows) |-> [ k \in 1 .. Len(rows[i][parts]) |-> Box(i, k) ] ]
           boxes == Boxes(rows, dy, parts)
           Of(q) == \A k \in 1 .. Len(q) :
                      \E i \in 1 .. Len(rows) : \E m \in 1 .. Len(rows[i][parts]) :
                         q[k].part = rows[i][parts][m]
<1>1. boxes = FlattenSeq(seqs)
  BY DEF Boxes
<1>2. Len(rows) \in Nat /\ \A i \in 1 .. Len(rows) : Len(rows[i][parts]) \in Nat
  BY SeqFacts
<1>3. IsSeq(seqs) /\ Len(seqs) = Len(rows)
  <2>1. seqs = [ i \in 1 .. Len(rows) |-> seqs[i] ]
    OBVIOUS
  <2> HIDE DEF seqs
  <2> QED
    BY <1>2, <2>1, Listed
<1>4. ASSUME NEW i \in 1 .. Len(rows)
      PROVE  IsSeq(seqs[i]) /\ Len(seqs[i]) = Len(rows[i][parts]) /\ Of(seqs[i])
  <2> DEFINE q == seqs[i]
  <2>1. q = [ k \in 1 .. Len(rows[i][parts]) |-> Box(i, k) ]
    OBVIOUS
  <2>2. \A k \in 1 .. Len(rows[i][parts]) : q[k].part = rows[i][parts][k]
    BY <2>1
  <2>3. q = [ k \in 1 .. Len(rows[i][parts]) |-> q[k] ]
    BY <2>1
  <2> HIDE DEF q
  <2>4. IsSeq(q) /\ Len(q) = Len(rows[i][parts])
    BY <1>2, <2>3, Listed
  <2>5. Of(q)
    BY <2>2, <2>4
  <2> QED
    BY <2>4, <2>5 DEF q
<1>5. PICK c : Counts(rows, parts, c, bound)
  BY DEF Fits
<1>6. /\ c[0] = 0 /\ c[Len(rows)] <= bound
      /\ \A i \in 0 .. Len(rows) : c[i] \in Nat
      /\ \A i \in 1 .. Len(rows) : c[i - 1] + Len(rows[i][parts]) <= c[i]
  BY <1>5 DEF Counts
<1> HIDE DEF seqs, boxes
<1>7. CASE Len(rows) = 0
  <2>1. boxes = <<>>
    <3>1. seqs = <<>>
      BY <1>3, <1>7 DEF IsSeq
    <3> QED
      BY <1>1, <1>3, <1>7, <3>1 DEF FlattenSeq
  <2>2. IsSeq(boxes) /\ Len(boxes) = 0
    BY <2>1, ShortLists
  <2> QED
    BY <2>2 DEF boxes
<1>8. CASE Len(rows) > 0
  <2>1. PICK f : /\ f = [ i \in 1 .. Len(seqs) |->
                            IF i = 1 THEN seqs[i] ELSE f[i - 1] \o seqs[i] ]
                 /\ FlattenSeq(seqs) = f[Len(seqs)]
    BY <1>3, <1>8, Flattened
  <2>2. \A i \in 1 .. Len(rows) : f[i] = IF i = 1 THEN seqs[i] ELSE f[i - 1] \o seqs[i]
    BY <1>3, <2>1
  <2> DEFINE S == { k \in Nat : k = 0 \/ (IsSeq(f[k]) /\ Len(f[k]) <= c[k] /\ Of(f[k])) }
  <2> HIDE DEF Of
  <2>3. 0 \in S
    OBVIOUS
  <2>4. ASSUME NEW k \in 1 .. Len(rows), k - 1 \in S PROVE k \in S
    <3>1. k \in Nat /\ k \in 0 .. Len(rows) /\ k - 1 \in 0 .. Len(rows)
      BY <1>2
    <3>2. /\ IsSeq(seqs[k]) /\ Len(seqs[k]) = Len(rows[k][parts]) /\ Of(seqs[k])
          /\ c[k - 1] + Len(rows[k][parts]) <= c[k] /\ c[k] \in Nat /\ c[k - 1] \in Nat
          /\ Len(rows[k][parts]) \in Nat
      BY <1>2, <1>4, <1>6, <3>1
    <3>3. CASE k = 1
      <4>1. f[k] = seqs[k] /\ c[k - 1] = 0
        BY <1>6, <2>2, <3>3
      <4> QED
        BY <3>1, <3>2, <4>1
    <3>4. CASE k # 1
      <4> DEFINE g == f[k - 1]
      <4>1. IsSeq(g) /\ Len(g) <= c[k - 1] /\ Of(g)
        BY <2>4, <3>4
      <4>2. f[k] = g \o seqs[k]
        BY <2>2, <3>4
      <4> DEFINE h == seqs[k]
      <4>3. IsSeq(h) /\ Of(h) /\ Len(h) = Len(rows[k][parts])
        BY <3>2
      <4> HIDE DEF g, h
      <4>4. /\ IsSeq(g \o h) /\ Len(g \o h) = Len(g) + Len(h)
            /\ \A i \in 1 .. Len(g) : (g \o h)[i] = g[i]
            /\ \A i \in 1 .. Len(g \o h) :
                  (i \in 1 .. Len(g)) \/ (i - Len(g) \in 1 .. Len(h) /\ (g \o h)[i] = h[i - Len(g)])
        BY <4>1, <4>3, Appended
      <4>5. Len(g \o h) <= c[k]
        <5>1. Len(g) \in Nat
          BY <4>1, SeqFacts
        <5> QED
          BY <3>2, <4>1, <4>3, <4>4, <5>1
      <4>6. Of(g \o h)
        <5> DEFINE p == g \o h
        <5>1. /\ \A i \in 1 .. Len(g) : p[i] = g[i]
              /\ \A i \in 1 .. Len(p) :
                    (i \in 1 .. Len(g)) \/ (i - Len(g) \in 1 .. Len(h) /\ p[i] = h[i - Len(g)])
          BY <4>4
        <5> HIDE DEF p
        <5>2. ASSUME NEW i \in 1 .. Len(p)
              PROVE  \E x \in 1 .. Len(rows) : \E m \in 1 .. Len(rows[x][parts]) :
                        p[i].part = rows[x][parts][m]
          <6>1. CASE i \in 1 .. Len(g)
            <7>1. p[i] = g[i]
              BY <5>1, <6>1
            <7> QED
              BY <4>1, <6>1, <7>1 DEF Of
          <6>2. CASE i - Len(g) \in 1 .. Len(h) /\ p[i] = h[i - Len(g)]
            BY <4>3, <6>2 DEF Of
          <6> QED
            BY <5>1, <6>1, <6>2
        <5>3. Of(p)
          BY <5>2 DEF Of
        <5> QED
          BY <5>3 DEF p
      <4>7. f[k] = g \o h
        BY <4>2 DEF h
      <4> QED
        BY <3>1, <4>4, <4>5, <4>6, <4>7
    <3> QED
      BY <3>3, <3>4
  <2> HIDE DEF S
  <2>5. 0 .. Len(rows) \subseteq S
    BY <1>2, <2>3, <2>4, UpTo, Zenon
  <2>6. Len(rows) \in S
    BY <1>2, <2>5
  <2>7. IsSeq(boxes) /\ Len(boxes) <= c[Len(rows)] /\ Of(boxes)
    <3>1. IsSeq(f[Len(rows)]) /\ Len(f[Len(rows)]) <= c[Len(rows)] /\ Of(f[Len(rows)])
      BY <1>8, <2>6 DEF S
    <3>2. boxes = f[Len(rows)]
      BY <1>1, <1>3, <2>1
    <3> QED
      BY <3>1, <3>2, Zenon
  <2>8. Len(boxes) <= bound
    <3>1. Len(boxes) \in Nat /\ c[Len(rows)] \in Nat
      BY <1>2, <1>6, <2>7, SeqFacts
    <3> QED
      BY <1>6, <2>7, <3>1
  <2> QED
    BY <2>7, <2>8 DEF boxes, Of
<1> QED
  BY <1>2, <1>7, <1>8

\* What a drawing leaves in the vectors.
LEMMA Drawn ==
    ASSUME NEW tab \in Tabs, NEW dy
    PROVE  /\ Len(Rows(tab)) \in Nat
           /\ IsSeq(Boxes(Rows(tab), dy, "cells"))
           /\ Len(Boxes(Rows(tab), dy, "cells")) <= CopyReserve(tab)
           /\ Len(Boxes(Rows(tab), dy, "names")) <= NameReserve(tab)
           /\ \A k \in 1 .. Len(Boxes(Rows(tab), dy, "cells")) :
                \E a, b : Boxes(Rows(tab), dy, "cells")[k].part.text = <<a, b>>
<1> DEFINE rows == Rows(tab)
<1>1. /\ PanelRows(rows) /\ Fits(rows, "cells", CopyReserve(tab))
      /\ Fits(rows, "names", NameReserve(tab))
  BY RowsPanel DEF Panel
<1>2. CopyReserve(tab) \in Nat /\ NameReserve(tab) \in Nat
  <2>1. XmmCount \in Nat /\ StCount \in Nat /\ Len(Gprs) \in Nat
    BY PanelsAssumption
  <2> QED
    BY <2>1 DEF Tabs, GPR, SSE, X87, CopyReserve, NameReserve, GPR_COUNT
<1> HIDE DEF rows
<1>3. IsSeq(rows) /\ Len(rows) \in Nat
  BY <1>1, SeqFacts DEF PanelRows
<1>4. \A i \in 1 .. Len(rows) : /\ IsSeq(rows[i]["cells"]) /\ IsSeq(rows[i]["names"])
                                /\ \A k \in 1 .. Len(rows[i]["cells"]) :
                                     \E a, b : rows[i]["cells"][k].text = <<a, b>>
  BY <1>1 DEF PanelRows, GoodRow
<1> DEFINE cells == Boxes(rows, dy, "cells")
           names == Boxes(rows, dy, "names")
<1>5. /\ IsSeq(cells) /\ Len(cells) <= CopyReserve(tab)
      /\ \A k \in 1 .. Len(cells) :
           \E i \in 1 .. Len(rows) : \E m \in 1 .. Len(rows[i]["cells"]) :
              cells[k].part = rows[i]["cells"][m]
  BY <1>1, <1>2, <1>3, <1>4, BoxesCounted
<1>6. Len(names) <= NameReserve(tab)
  BY <1>1, <1>2, <1>3, <1>4, BoxesCounted
<1> HIDE DEF cells, names
<1>7. \A k \in 1 .. Len(cells) : \E a, b : cells[k].part.text = <<a, b>>
  BY <1>4, <1>5
<1> QED
  BY <1>3, <1>5, <1>6, <1>7 DEF rows, cells, names

-----------------------------------------------------------------------------
(* The picture and the vectors.                                            *)

\* The vectors are those of the picture, and every value cell has its text.
DrawnInv ==
    /\ register_tab \in Tabs
    /\ IsSeq(copy_hits) /\ screen.cells = InSight(copy_hits)
    /\ \A k \in 1 .. Len(copy_hits) : \E a, b : copy_hits[k].part.text = <<a, b>>
    /\ BoxesFit

\* Every step is a drawing or the handling of an event, which draws nothing.
LEMMA DrawOrEvent ==
    ASSUME Next
    PROVE  Draw \/ UNCHANGED drawing
<1>1. ASSUME NEW name, Event(name) PROVE UNCHANGED drawing
  BY <1>1 DEF Event
<1>2. ASSUME NEW place, NEW control, ClickValue(place, control) PROVE UNCHANGED drawing
  BY <1>1, <1>2 DEF ClickValue
<1>3. CASE ClickName \/ LeaveField \/ EnterField
  BY <1>1, <1>3 DEF ClickName, LeaveField, EnterField
<1>4. CASE ChangeRegisterTab \/ ShowState \/ ResetPanels
  BY <1>1, <1>4 DEF ChangeRegisterTab, ShowState, ResetPanels
<1>5. CASE Wheel(-1) \/ Wheel(1)
  BY <1>1, <1>5 DEF Wheel
<1> QED
  BY <1>2, <1>3, <1>4, <1>5 DEF Next

\* The tab in front is always one of the three.
LEMMA TabStep ==
    ASSUME register_tab \in Tabs, [Next]_vars
    PROVE  register_tab' \in Tabs
  BY DEF Next, vars, Draw, ClickValue, ClickName, LeaveField, EnterField, Wheel,
         ChangeRegisterTab, ShowState, ResetPanels, Tabs

\* Before the first picture there are no boxes.
LEMMA DrawnInit == Init => DrawnInv
<1> SUFFICES ASSUME Init PROVE DrawnInv
  OBVIOUS
<1>1. /\ register_tab = 0 /\ copy_hits = <<>> /\ screen = Blank
  BY DEF Init, GPR
<1>2. IsSeq(copy_hits) /\ Len(copy_hits) = 0
  BY <1>1, ShortLists
<1>3. screen.cells = {} /\ InSight(copy_hits) = {}
  BY <1>1, <1>2 DEF Blank, InSight
<1> QED
  BY <1>1, <1>2, <1>3 DEF DrawnInv, BoxesFit, Tabs, GPR

\* Only a drawing changes the vectors, and it makes picture and vectors together.
LEMMA DrawnStep == DrawnInv /\ [Next]_vars => DrawnInv'
<1> SUFFICES ASSUME DrawnInv, [Next]_vars PROVE DrawnInv'
  OBVIOUS
<1>1. register_tab' \in Tabs
  BY TabStep DEF DrawnInv
<1>2. CASE UNCHANGED drawing
  BY <1>1, <1>2 DEF DrawnInv, BoxesFit, drawing
<1>3. CASE Draw
  <2> DEFINE tab == register_tab
             rows == Rows(tab)
  <2>1. PICK dy : /\ copy_hits' = Boxes(rows, dy, "cells")
                  /\ name_hits' = Boxes(rows, dy, "names")
                  /\ screen' = [ tab |-> tab, offset |-> dy, cells |-> InSight(copy_hits') ]
    BY <1>3 DEF Draw
  <2>2. screen'.tab = tab /\ screen'.cells = InSight(copy_hits')
    BY <2>1
  <2>3. /\ IsSeq(copy_hits') /\ Len(copy_hits') <= CopyReserve(tab)
        /\ Len(name_hits') <= NameReserve(tab)
        /\ \A k \in 1 .. Len(copy_hits') : \E a, b : copy_hits'[k].part.text = <<a, b>>
    <3>1. tab \in Tabs
      BY DEF DrawnInv
    <3> HIDE DEF tab
    <3> QED
      BY <2>1, <3>1, Drawn
  <2>4. /\ Len(copy_hits') <= CopyReserve(screen'.tab)
        /\ Len(name_hits') <= NameReserve(screen'.tab)
    BY <2>2, <2>3
  <2>5. BoxesFit'
    BY <2>4 DEF BoxesFit
  <2> QED
    BY <1>1, <2>2, <2>3, <2>5 DEF DrawnInv
<1>4. CASE UNCHANGED vars
  BY <1>2, <1>4 DEF vars, drawing
<1> QED
  BY <1>2, <1>3, <1>4, DrawOrEvent

\* However stale the boxes a handler looks at, and whatever it unfolds with them, no
\* vector of hit boxes outgrows what was reserved for it while elements refer into it.
THEOREM BoxesAlwaysFit == Spec => []BoxesFit
<1>1. DrawnInv => BoxesFit
  BY DEF DrawnInv
<1> QED
  BY <1>1, DrawnInit, DrawnStep, PTL DEF Spec

\* A click copies the text that the picture shows at that place, however the
\* registers, the tab or the unfolding have changed since it was drawn.
THEOREM ClickCopiesPicture == Spec => CopiesWhatIsShown
<1> DEFINE A == copied' # Nothing =>
                  \E cell \in screen.cells :
                     /\ cell.place = copied'.place
                     /\ copied'.text \in {cell.part.text, Append(cell.part.text, "normalized")}
<1>1. DrawnInv /\ [Next]_vars => [A]_vars
  <2> SUFFICES ASSUME DrawnInv, Next PROVE A
    OBVIOUS
  <2>1. ASSUME NEW place, NEW control, ClickValue(place, control) PROVE A
    <3> DEFINE found == { k \in 1 .. Len(copy_hits) :
                            copy_hits[k].in_sight /\ copy_hits[k].place = place }
               m     == Min(found)
               hit   == copy_hits[m]
    <3>1. Len(copy_hits) \in Nat
      BY SeqFacts DEF DrawnInv
    <3>2. found # {} /\ found \subseteq 0 .. Len(copy_hits)
      BY <2>1, <3>1 DEF ClickValue
    <3>3. m \in found
      <4>1. \E x \in found : \A y \in found : x <= y
        BY <3>1, <3>2, LeastOf
      <4> HIDE DEF found
      <4> QED
        BY <4>1 DEF Min
    <3>4. /\ copied'.place = place
          /\ copied'.text = CopiedText(hit) \o
                 (IF control /\ hit.part.normalized THEN <<"normalized">> ELSE <<>>)
      BY <2>1 DEF ClickValue
    <3> HIDE DEF m
    <3>5. hit \in screen.cells /\ hit.place = place /\ m \in 1 .. Len(copy_hits)
      BY <3>3 DEF DrawnInv, InSight
    <3>6. PICK a, b : hit.part.text = <<a, b>>
      BY <3>5 DEF DrawnInv
    <3>7. copied'.text \in {hit.part.text, Append(hit.part.text, "normalized")}
      <4>1. <<a, b>> \in Seq({a, b, "normalized"})
        OBVIOUS
      <4>2. /\ <<a, b>> \o <<>> = <<a, b>>
            /\ <<a, b>> \o <<"normalized">> = Append(<<a, b>>, "normalized")
        BY <4>1
      <4> QED
        BY <3>4, <3>6, <4>2 DEF CopiedText
    <3> HIDE DEF hit
    <3> QED
      BY <3>4, <3>5, <3>7
  <2>2. ASSUME \A place, control : ~ClickValue(place, control) PROVE copied' = Nothing
    BY <2>2 DEF Next, Draw, ClickName, LeaveField, EnterField, Wheel, ChangeRegisterTab,
                ShowState, ResetPanels
  <2> QED
    BY <2>1, <2>2
<1> QED
  BY <1>1, DrawnInit, DrawnStep, PTL DEF Spec, CopiesWhatIsShown

-----------------------------------------------------------------------------
(* The wheel.                                                              *)

\* The last row from which the viewport is filled.
LastOffset(rows) == Larger(0, rows + 1 - Height)

\* Where one event of the wheel leaves the wanted offset.
Turned(events, offset) ==
    IF events = <<"up">> THEN Larger(0, offset - 1)
    ELSE IF events = <<"down">> THEN offset + 1 ELSE offset

\* While the wheel is the only thing that has moved, the wanted offset is the one
\* on the screen, turned; and the one on the screen is one the view can have.
AtRest ==
    ~real_focus[register_tab] /\ register_tab = screen.tab
    /\ batch \in {<<>>, <<"up">>, <<"down">>} =>
         /\ screen.offset \in 0 .. LastOffset(Len(Rows(register_tab)))
         /\ register_scroll[register_tab] = Turned(batch, screen.offset)

EventNames == {"click", "other", "up", "down"}

WheelInv ==
    /\ register_tab \in Tabs
    /\ register_scroll \in [Tabs -> Nat]
    /\ real_focus \in [Tabs -> BOOLEAN]
    /\ batch \in Seq(EventNames)
    /\ AtRest

\* The clamp of the viewport.
LEMMA Clamp ==
    ASSUME NEW rows \in Nat, NEW offset \in Nat
    PROVE  /\ SetBox(rows + 1, offset) = Smaller(offset, LastOffset(rows))
           /\ SetBox(rows + 1, offset) \in 0 .. LastOffset(rows)
           /\ LastOffset(rows) \in Nat
<1>1. Height \in Nat \ {0}
  BY PanelsAssumption
<1> QED
  BY <1>1 DEF SetBox, LastOffset, Larger, Smaller

\* What the rows are made of.
LEMMA RowsKept ==
    ASSUME UNCHANGED <<has_trace, state, unfolded>>, NEW tab \in Tabs
    PROVE  Rows(tab)' = Rows(tab)
<1>1. UNCHANGED <<has_trace, state, gpr_depth, xmm_expand, st_expand>>
  BY DEF unfolded
<1>2. render_registers' = render_registers
  BY <1>1 DEF render_registers, Flat, GprTree, Row, Cell
<1>3. render_xmm' = render_xmm
  BY <1>1 DEF render_xmm, XmmRows, Lanes, Decoded, Row, Cell
<1>4. render_x87' = render_x87
  BY <1>1 DEF render_x87, StRows, Decoded, Row, Cell
<1> QED
  BY <1>2, <1>3, <1>4 DEF Rows

\* Nothing is on the screen, so nothing is asked of it.
LEMMA WheelInit == Init => WheelInv
<1> SUFFICES ASSUME Init PROVE WheelInv
  OBVIOUS
<1>1. /\ register_tab \in Tabs /\ screen = Blank /\ batch = <<>>
      /\ register_scroll = [ t \in Tabs |-> 0 ] /\ real_focus = [ t \in Tabs |-> FALSE ]
  BY DEF Init, Tabs
<1>2. screen.tab = -1
  BY <1>1 DEF Blank
<1>3. register_tab # screen.tab
  BY <1>1, <1>2 DEF Tabs, GPR, SSE, X87
<1> QED
  BY <1>1, <1>3 DEF WheelInv, AtRest

\* What the events other than the wheel leave behind is no turn of the wheel, and a
\* turn is one only if nothing came before it.
LEMMA Batches ==
    ASSUME NEW b \in Seq(EventNames), NEW name \in EventNames
    PROVE  /\ Append(b, name) \in Seq(EventNames) /\ Append(b, name) # <<>>
           /\ \A x \in EventNames : Append(b, name) = <<x>> => b = <<>> /\ name = x
<1>1. Append(b, name) \in Seq(EventNames) /\ Len(Append(b, name)) = Len(b) + 1 /\ Len(b) \in Nat
  OBVIOUS
<1>2. Append(b, name)[Len(b) + 1] = name
  OBVIOUS
<1>3. Append(b, name) # <<>>
  BY <1>1
<1>4. ASSUME NEW x \in EventNames, Append(b, name) = <<x>> PROVE b = <<>> /\ name = x
  <2>1. Len(<<x>>) = 1 /\ <<x>>[1] = x
    OBVIOUS
  <2>2. Len(b) = 0
    BY <1>1, <1>4, <2>1
  <2>3. name = x
    BY <1>2, <1>4, <2>1, <2>2
  <2> QED
    BY <2>2, <2>3
<1> QED
  BY <1>1, <1>3, <1>4

\* Where a drawing puts the view, and what it writes back.
LEMMA DrawPlaces ==
    ASSUME WheelInv, Draw
    PROVE  /\ register_scroll' \in [Tabs -> Nat]
           /\ batch' = <<>> /\ UNCHANGED <<register_tab, real_focus>>
           /\ UNCHANGED <<has_trace, state, unfolded>>
           /\ screen'.tab = register_tab
           /\ ~real_focus[register_tab] =>
                /\ screen'.offset = SetBox(Len(Rows(register_tab)) + 1,
                                           register_scroll[register_tab])
                /\ register_scroll'[register_tab] = screen'.offset
<1> DEFINE tab  == register_tab
           rows == Rows(tab)
<1>1. tab \in Tabs /\ register_scroll \in [Tabs -> Nat]
  BY DEF WheelInv
<1>2. Len(rows) \in Nat
  BY <1>1, Drawn
<1>3. /\ screen'.tab = tab
      /\ real_focus[tab] => register_scroll' = register_scroll
      /\ ~real_focus[tab] =>
           /\ screen'.offset = SetBox(Len(rows) + 1, register_scroll[tab])
           /\ register_scroll' = [ register_scroll EXCEPT ![tab] = screen'.offset ]
  <2>1. CASE real_focus[tab]
    <3>1. PICK dy : /\ screen' = [ tab |-> tab, offset |-> dy, cells |-> InSight(copy_hits') ]
                    /\ register_scroll' = register_scroll
      BY <2>1 DEF Draw
    <3> QED
      BY <2>1, <3>1
  <2>2. CASE ~real_focus[tab]
    <3> DEFINE to == SetBox(Len(rows) + 1, register_scroll[tab])
    <3>1. /\ screen' = [ tab |-> tab, offset |-> to, cells |-> InSight(copy_hits') ]
          /\ register_scroll' = [ register_scroll EXCEPT ![tab] = to ]
      BY <2>2 DEF Draw, WriteBack
    <3> QED
      BY <2>2, <3>1
  <2> QED
    BY <2>1, <2>2
<1>4. /\ batch' = <<>> /\ UNCHANGED <<register_tab, real_focus>>
      /\ UNCHANGED <<has_trace, state, unfolded>>
  BY DEF Draw
<1> HIDE DEF tab, rows
<1>5. CASE real_focus[tab]
  BY <1>1, <1>3, <1>4, <1>5 DEF tab
<1>6. CASE ~real_focus[tab]
  <2> DEFINE dy == screen'.offset
  <2>1. register_scroll[tab] \in Nat
    BY <1>1
  <2>2. dy \in 0 .. LastOffset(Len(rows)) /\ LastOffset(Len(rows)) \in Nat
    BY <1>2, <1>3, <1>6, <2>1, Clamp
  <2>3. dy \in Nat
    BY <2>2
  <2>4. register_scroll' \in [Tabs -> Nat] /\ register_scroll'[tab] = dy
    BY <1>1, <1>3, <1>6, <2>3
  <2> QED
    BY <1>3, <1>4, <1>6, <2>4 DEF tab, rows
<1> QED
  BY <1>5, <1>6

\* A drawing puts view and wanted offset together, a turn of the wheel moves the
\* wanted one by a row, and every other event says that it was there.
LEMMA WheelStep == WheelInv /\ [Next]_vars => WheelInv'
<1> SUFFICES ASSUME WheelInv, [Next]_vars PROVE WheelInv'
  OBVIOUS
<1> DEFINE tab  == register_tab
           rows == Rows(tab)
<1>1. register_tab' \in Tabs
  BY TabStep DEF WheelInv
<1>2. /\ tab \in Tabs /\ register_scroll \in [Tabs -> Nat] /\ real_focus \in [Tabs -> BOOLEAN]
      /\ batch \in Seq(EventNames) /\ Len(rows) \in Nat
  BY Drawn DEF WheelInv
<1>3. ASSUME NEW name \in EventNames, Event(name)
      PROVE  /\ batch' = Append(batch, name) /\ batch' \in Seq(EventNames) /\ screen' = screen
             /\ name \notin {"up", "down"} => batch' \notin {<<>>, <<"up">>, <<"down">>}
             /\ batch' # <<>>
             /\ \A x \in EventNames : batch' = <<x>> => batch = <<>> /\ name = x
  <2>1. batch' = Append(batch, name) /\ screen' = screen
    BY <1>3 DEF Event, drawing
  <2>2. /\ batch' \in Seq(EventNames) /\ batch' # <<>>
        /\ \A x \in EventNames : batch' = <<x>> => batch = <<>> /\ name = x
    BY <1>2, <2>1, Batches
  <2>3. ASSUME name \notin {"up", "down"} PROVE batch' \notin {<<>>, <<"up">>, <<"down">>}
    BY <2>2, <2>3 DEF EventNames
  <2> QED
    BY <2>1, <2>2, <2>3
<1>4. CASE Draw
  <2>1. /\ register_scroll' \in [Tabs -> Nat]
        /\ batch' = <<>> /\ UNCHANGED <<register_tab, real_focus>>
        /\ UNCHANGED <<has_trace, state, unfolded>>
        /\ screen'.tab = tab
        /\ ~real_focus[tab] =>
                /\ screen'.offset = SetBox(Len(rows) + 1, register_scroll[tab])
                /\ register_scroll'[tab] = screen'.offset
    BY <1>4, DrawPlaces
  <2>2. Rows(tab)' = Rows(tab)
    BY <1>2, <2>1, RowsKept
  <2>3. AtRest'
    <3> SUFFICES ASSUME ~real_focus[tab]
                 PROVE  /\ screen'.offset \in 0 .. LastOffset(Len(rows))
                        /\ register_scroll'[tab] = Turned(batch', screen'.offset)
      BY <2>1, <2>2 DEF AtRest
    <3>1. register_scroll[tab] \in Nat
      BY <1>2
    <3>2. screen'.offset \in 0 .. LastOffset(Len(rows))
      BY <1>2, <2>1, <3>1, Clamp
    <3>3. Turned(batch', screen'.offset) = screen'.offset
      BY <2>1 DEF Turned
    <3> QED
      BY <2>1, <3>2, <3>3
  <2> QED
    BY <1>1, <1>2, <2>1, <2>3 DEF WheelInv
<1>5. ASSUME NEW by \in {-1, 1}, Wheel(by) PROVE WheelInv'
  <2> DEFINE name == IF by < 0 THEN "up" ELSE "down"
  <2>1. /\ Event(name) /\ UNCHANGED <<has_trace, state, register_tab, unfolded, real_focus>>
        /\ register_scroll' = IF real_focus[tab] THEN register_scroll
                              ELSE [ register_scroll EXCEPT ![tab] = Larger(0, @ + by) ]
    BY <1>5 DEF Wheel
  <2>2. name \in EventNames /\ (name = "up" => by = -1) /\ (name = "down" => by = 1)
    <3>1. CASE by = -1
      BY <3>1 DEF EventNames
    <3>2. CASE by = 1
      BY <3>2 DEF EventNames
    <3> QED
      BY <1>5, <3>1, <3>2
  <2> HIDE DEF name
  <2>3. /\ batch' \in Seq(EventNames) /\ screen' = screen /\ batch' # <<>>
        /\ \A x \in EventNames : batch' = <<x>> => batch = <<>> /\ name = x
    BY <1>3, <2>1, <2>2
  <2>4. register_scroll[tab] \in Nat /\ Larger(0, register_scroll[tab] + by) \in Nat
    BY <1>2, <1>5 DEF Larger
  <2>5. register_scroll' \in [Tabs -> Nat]
    BY <1>2, <2>1, <2>4
  <2>6. Rows(tab)' = Rows(tab)
    BY <1>2, <2>1, RowsKept
  <2>7. AtRest'
    <3> SUFFICES ASSUME ~real_focus[tab], tab = screen.tab, batch' \in {<<"up">>, <<"down">>}
                 PROVE  /\ screen.offset \in 0 .. LastOffset(Len(rows))
                        /\ register_scroll'[tab] = Turned(batch', screen.offset)
      BY <2>1, <2>3, <2>6 DEF AtRest
    <3>1. batch = <<>> /\ batch' = <<name>> /\ name \in {"up", "down"}
      BY <2>3
    <3>2. /\ screen.offset \in 0 .. LastOffset(Len(rows))
          /\ register_scroll[tab] = Turned(batch, screen.offset)
      BY <3>1 DEF WheelInv, AtRest
    <3>3. Turned(batch, screen.offset) = screen.offset
      BY <3>1 DEF Turned
    <3>4. register_scroll'[tab] = Larger(0, screen.offset + by)
      BY <1>2, <2>1, <3>2, <3>3
    <3>5. screen.offset \in Nat
      BY <2>4, <3>2, <3>3
    <3>6. CASE name = "up"
      BY <2>2, <3>1, <3>2, <3>4, <3>5, <3>6 DEF Turned
    <3>7. CASE name = "down"
      <4>1. Larger(0, screen.offset + 1) = screen.offset + 1
        BY <3>5 DEF Larger
      <4> QED
        BY <2>2, <3>1, <3>2, <3>4, <3>7, <4>1 DEF Turned
    <3> QED
      BY <3>1, <3>6, <3>7
  <2> QED
    BY <1>1, <1>2, <2>1, <2>3, <2>5, <2>7 DEF WheelInv
<1>6. ASSUME NEW name \in {"click", "other"}, Event(name),
             register_scroll' \in [Tabs -> Nat], real_focus' \in [Tabs -> BOOLEAN]
      PROVE  WheelInv'
  <2>1. name \in EventNames /\ name \notin {"up", "down"}
    BY <1>6 DEF EventNames
  <2>2. batch' \in Seq(EventNames) /\ batch' \notin {<<>>, <<"up">>, <<"down">>}
    BY <1>3, <1>6, <2>1
  <2>3. AtRest'
    BY <2>2, Zenon DEF AtRest
  <2> QED
    BY <1>1, <1>6, <2>2, <2>3 DEF WheelInv
<1>7. ASSUME NEW place, NEW control, ClickValue(place, control) PROVE WheelInv'
  BY <1>2, <1>6, <1>7 DEF ClickValue
<1>8. CASE ClickName \/ LeaveField \/ EnterField
  <2>1. real_focus' \in [Tabs -> BOOLEAN] /\ register_scroll' = register_scroll
    BY <1>2, <1>8 DEF ClickName, LeaveField, EnterField, Defocus
  <2>2. Event("click") \/ Event("other")
    BY <1>8 DEF ClickName, LeaveField, EnterField
  <2> QED
    BY <1>2, <1>6, <2>1, <2>2
<1>9. CASE ChangeRegisterTab \/ ShowState \/ ResetPanels
  <2>1. real_focus' = real_focus /\ register_scroll' \in [Tabs -> Nat]
    BY <1>2, <1>9 DEF ChangeRegisterTab, ShowState, ResetPanels
  <2>2. Event("other")
    BY <1>9 DEF ChangeRegisterTab, ShowState, ResetPanels
  <2> QED
    BY <1>2, <1>6, <2>1, <2>2
<1>10. CASE UNCHANGED vars
  <2>1. UNCHANGED <<has_trace, state, unfolded>> /\ register_tab' = register_tab
    BY <1>10 DEF vars, unfolded
  <2>2. Rows(tab)' = Rows(tab)
    BY <1>2, <2>1, RowsKept
  <2> QED
    BY <1>1, <1>2, <1>10, <2>1, <2>2 DEF WheelInv, AtRest, vars
<1> QED
  BY <1>4, <1>5, <1>7, <1>8, <1>9, <1>10 DEF Next

\* One notch of the wheel moves the view by one row at once, unless the view is at
\* an end or a field has the focus: the offset never stands where the view cannot.
THEOREM WheelAlwaysMoves == Spec => WheelMovesView
<1> DEFINE A == batch # <<>> /\ batch' = <<>> /\ ~real_focus[register_tab]
                /\ register_tab = screen.tab =>
                  /\ batch = <<"up">> => screen'.offset = Larger(0, screen.offset - 1)
                  /\ batch = <<"down">> =>
                       screen'.offset = Smaller(screen.offset + 1,
                                                Larger(0, Len(Rows(register_tab)) + 1 - Height))
<1>1. WheelInv /\ [Next]_vars => [A]_vars
  <2> SUFFICES ASSUME WheelInv, Next, batch # <<>>, batch' = <<>>, ~real_focus[register_tab],
                      register_tab = screen.tab, batch \in {<<"up">>, <<"down">>}
               PROVE  A
    OBVIOUS
  <2> DEFINE rows == Len(Rows(register_tab))
             dy   == screen.offset
             last == LastOffset(rows)
  <2>1. Draw
    <3>1. ASSUME NEW name \in EventNames, Event(name) PROVE FALSE
      BY <3>1, Batches DEF Event, WheelInv
    <3> USE DEF EventNames
    <3>2. ASSUME NEW place, NEW control, ClickValue(place, control) PROVE FALSE
      BY <3>1, <3>2 DEF ClickValue
    <3>3. ~(ClickName \/ LeaveField \/ EnterField)
      BY <3>1 DEF ClickName, LeaveField, EnterField
    <3>4. ~(ChangeRegisterTab \/ ShowState \/ ResetPanels)
      BY <3>1 DEF ChangeRegisterTab, ShowState, ResetPanels
    <3>5. ~(Wheel(-1) \/ Wheel(1))
      BY <3>1 DEF Wheel
    <3> QED
      BY <3>2, <3>3, <3>4, <3>5 DEF Next
  <2>2. screen'.offset = SetBox(rows + 1, register_scroll[register_tab])
    BY <2>1, DrawPlaces
  <2>3. dy \in 0 .. last /\ register_scroll[register_tab] = Turned(batch, dy)
    BY DEF WheelInv, AtRest
  <2>4. rows \in Nat /\ register_scroll[register_tab] \in Nat
    BY Drawn DEF WheelInv
  <2>5. screen'.offset = Smaller(Turned(batch, dy), last) /\ last \in Nat
    BY <2>2, <2>3, <2>4, Clamp
  <2> HIDE DEF rows, dy, last
  <2>6. CASE batch = <<"up">>
    <3>1. <<"up">> # <<"down">>
      OBVIOUS
    <3>2. Smaller(Larger(0, dy - 1), last) = Larger(0, dy - 1)
      BY <2>3, <2>5 DEF Smaller, Larger
    <3> QED
      BY <2>5, <2>6, <3>1, <3>2 DEF Turned, dy
  <2>7. CASE batch = <<"down">>
    <3>1. <<"up">> # <<"down">>
      OBVIOUS
    <3>2. screen'.offset = Smaller(dy + 1, last)
      BY <2>5, <2>7, <3>1 DEF Turned
    <3> QED
      BY <2>7, <3>1, <3>2 DEF dy, last, rows, LastOffset
  <2> QED
    BY <2>6, <2>7
<1> QED
  BY <1>1, WheelInit, WheelStep, PTL DEF Spec, WheelMovesView

-----------------------------------------------------------------------------
(* What was written last.                                                  *)

Targets == Fields \cup FlagTargets \cup { <<"click", f, "">> : f \in StatusFlags }
Logs    == Seq([ target : Targets, text : Text ])

\* One more entry: its target has its text, every other target what it had.
LEMMA LastOfAppend ==
    ASSUME NEW log \in Logs, NEW e \in [ target : Targets, text : Text ], NEW target
    PROVE  LastText(Append(log, e), target) =
              IF e.target = target THEN e.text ELSE LastText(log, target)
<1> DEFINE n  == Len(log)
           l2 == Append(log, e)
           At(l) == { i \in 1 .. Len(l) : l[i].target = target }
<1>1. n \in Nat /\ Len(l2) = n + 1 /\ l2[n + 1] = e /\ \A i \in 1 .. n : l2[i] = log[i]
  BY DEF Logs
<1>2. At(l2) = IF e.target = target THEN At(log) \cup {n + 1} ELSE At(log)
  <2> HIDE DEF l2
  <2> QED
    BY <1>1
<1>3. At(log) \subseteq 1 .. n
  OBVIOUS
<1> HIDE DEF l2
<1>4. CASE e.target = target
  <2>1. n + 1 \in At(l2) /\ \A y \in At(l2) : y \in Int /\ n + 1 >= y
    BY <1>1, <1>2, <1>3, <1>4
  <2> DEFINE x == Max(At(l2))
  <2> HIDE DEF At
  <2>2. x \in At(l2) /\ \A y \in At(l2) : x >= y
    BY <2>1 DEF Max
  <2> HIDE DEF x
  <2>3. x = n + 1
    <3>1. x \in Int /\ n + 1 >= x /\ x >= n + 1
      BY <2>1, <2>2
    <3> QED
      BY <1>1, <3>1
  <2>4. LastText(l2, target) = l2[x].text
    BY <2>1, Zenon DEF LastText, x, At
  <2> QED
    BY <1>1, <1>4, <2>3, <2>4 DEF l2
<1>5. CASE e.target # target
  <2>1. At(l2) = At(log)
    BY <1>2, <1>5
  <2> HIDE DEF At
  <2>2. CASE At(log) = {}
    BY <1>5, <2>1, <2>2, Zenon DEF LastText, At, l2
  <2>3. CASE At(log) # {}
    <3> DEFINE x == Max(At(log))
    <3>1. x \in At(log)
      <4>1. At(log) \subseteq 0 .. n
        BY <1>1, <1>3
      <4>2. PICK m \in At(log) : \A y \in At(log) : y <= m
        BY <1>1, <2>3, <4>1, GreatestOf, Zenon
      <4>3. \A y \in At(log) : m >= y
        BY <1>1, <4>1, <4>2
      <4> QED
        BY <4>3 DEF Max
    <3>2. LastText(log, target) = log[x].text /\ LastText(l2, target) = l2[Max(At(l2))].text
      BY <2>1, <2>3, Zenon DEF LastText, x, At
    <3> HIDE DEF x
    <3>3. l2[x] = log[x]
      BY <1>1, <1>3, <3>1
    <3> QED
      BY <1>5, <2>1, <3>2, <3>3 DEF l2, x
  <2> QED
    BY <2>2, <2>3
<1> QED
  BY <1>4, <1>5

-----------------------------------------------------------------------------
(* The general registers.                                                  *)

\* Which bytes a slice covers, and how wide it is.
LEMMA SliceBytes ==
    ASSUME NEW i \in 1 .. 8
    PROVE  /\ i \in Covers("full")
           /\ i \in Covers("dword") <=> i <= 4
           /\ i \in Covers("word") <=> i <= 2
           /\ i \in Covers("byte_high") <=> i = 2
           /\ i \in Covers("byte_low") <=> i = 1
           /\ Width["full"] = 8 /\ Width["dword"] = 4 /\ Width["word"] = 2
           /\ Width["byte_high"] = 1 /\ Width["byte_low"] = 1
<1>1. /\ Low["full"] = 0 /\ Low["dword"] = 0 /\ Low["word"] = 0
      /\ Low["byte_high"] = 1 /\ Low["byte_low"] = 0
  BY DEF Low, Slices
<1>2. /\ Width["full"] = 8 /\ Width["dword"] = 4 /\ Width["word"] = 2
      /\ Width["byte_high"] = 1 /\ Width["byte_low"] = 1
  BY DEF Width
<1> QED
  BY <1>1, <1>2 DEF Covers

\* Of the slices over one byte, no two are equally wide.
LEMMA Narrowest ==
    ASSUME NEW i \in 1 .. 8, NEW over \in SUBSET Slices, \A s \in over : i \in Covers(s),
           NEW n \in over, \A t \in over : Width[n] <= Width[t]
    PROVE  (CHOOSE s \in over : \A t \in over : Width[s] <= Width[t]) = n
<1> DEFINE c == CHOOSE s \in over : \A t \in over : Width[s] <= Width[t]
<1>1. c \in over /\ \A t \in over : Width[c] <= Width[t]
  OBVIOUS
<1> HIDE DEF c
<1>2. Width[c] <= Width[n] /\ Width[n] <= Width[c]
  BY <1>1
<1>3. c \in Slices /\ n \in Slices /\ i \in Covers(c) /\ i \in Covers(n)
  BY <1>1
<1>4. c = n
  BY <1>2, <1>3, SliceBytes DEF Slices
<1> QED
  BY <1>4 DEF c

\* A slice that counts: there is a text, and it parses.
Given(text) == text.kind # "empty" /\ parse_seed(text) # Invalid

\* One overlay, byte by byte.
LEMMA OverlayByte ==
    ASSUME NEW result, NEW text, NEW s, NEW i \in 1 .. 8
    PROVE  overlay(result, text, s)[i] =
              IF Given(text) /\ i \in Covers(s) THEN parse_seed(text)[i - Low[s]] ELSE result[i]
<1> DEFINE value == parse_seed(text)
<1> HIDE DEF value
<1>1. overlay(result, text, s) =
         IF text.kind = "empty" \/ value = Invalid THEN result
         ELSE [ j \in 1 .. 8 |-> IF j \in Covers(s) THEN value[j - Low[s]] ELSE result[j] ]
  BY Zenon DEF overlay, value
<1>2. Given(text) <=> ~(text.kind = "empty" \/ value = Invalid)
  BY Zenon DEF Given, value
<1>3. CASE Given(text)
  <2>1. overlay(result, text, s) =
           [ j \in 1 .. 8 |-> IF j \in Covers(s) THEN value[j - Low[s]] ELSE result[j] ]
    BY <1>1, <1>2, <1>3
  <2> QED
    BY <1>3, <2>1 DEF value
<1>4. CASE ~Given(text)
  BY <1>1, <1>2, <1>4
<1> QED
  BY <1>3, <1>4

\* The five overlays of compose_gpr_seed, byte by byte: the last one that counts.
LEMMA ComposedByte ==
    ASSUME NEW r, NEW i \in 1 .. 8
    PROVE  LET T(s)  == TextOf(<<"gpr", r, s>>)
               On(s) == Given(T(s)) /\ i \in Covers(s)
               V(s)  == parse_seed(T(s))[i - Low[s]]
           IN  compose_gpr_seed(r)[i] =
                  IF On("byte_low") THEN V("byte_low")
                  ELSE IF On("byte_high") THEN V("byte_high")
                  ELSE IF On("word") THEN V("word")
                  ELSE IF On("dword") THEN V("dword")
                  ELSE IF On("full") THEN V("full") ELSE 0
<1> DEFINE T(s)  == TextOf(<<"gpr", r, s>>)
           On(s) == Given(T(s)) /\ i \in Covers(s)
           V(s)  == parse_seed(T(s))[i - Low[s]]
           O(q, s) == overlay(q, T(s), s)
           q1 == O(Zero(8), "full")
           q2 == O(q1, "dword")
           q3 == O(q2, "word")
           q4 == O(q3, "byte_high")
           q5 == O(q4, "byte_low")
<1>1. compose_gpr_seed(r) = q5
  <2>1. /\ OverlayOrder[1] = "full" /\ OverlayOrder[2] = "dword" /\ OverlayOrder[3] = "word"
        /\ OverlayOrder[4] = "byte_high" /\ OverlayOrder[5] = "byte_low"
    BY DEF OverlayOrder
  <2> QED
    BY <2>1, Zenon DEF compose_gpr_seed
<1>2. Zero(8)[i] = 0
  BY DEF Zero, Pad
<1>3. \A q, s : O(q, s)[i] = IF On(s) THEN V(s) ELSE q[i]
  BY OverlayByte, Zenon
<1> HIDE DEF O, On, V
<1>4. /\ q1[i] = IF On("full") THEN V("full") ELSE Zero(8)[i]
      /\ q2[i] = IF On("dword") THEN V("dword") ELSE q1[i]
      /\ q3[i] = IF On("word") THEN V("word") ELSE q2[i]
      /\ q4[i] = IF On("byte_high") THEN V("byte_high") ELSE q3[i]
      /\ q5[i] = IF On("byte_low") THEN V("byte_low") ELSE q4[i]
  BY <1>3, Zenon
<1> HIDE DEF q1, q2, q3, q4, q5
<1>5. compose_gpr_seed(r)[i] =
         IF On("byte_low") THEN V("byte_low")
         ELSE IF On("byte_high") THEN V("byte_high")
         ELSE IF On("word") THEN V("word")
         ELSE IF On("dword") THEN V("dword")
         ELSE IF On("full") THEN V("full") ELSE 0
  BY <1>1, <1>2, <1>4
<1> QED
  BY <1>5, Zenon DEF On, V

\* The fields hold what was written last to them.
Holds(log) == \A t \in Fields : field[t] = LastText(log, t)

\* Every byte of a composed register is the one the narrowest seeded slice gives.
LEMMA RegisterAsWritten ==
    ASSUME NEW log, Holds(log), NEW r \in Regs, NEW i \in 1 .. 8
    PROVE  compose_gpr_seed(r)[i] = IF r = "RSP" THEN 0 ELSE ReferenceByte(log, r, i)
<1> DEFINE T(s)  == TextOf(<<"gpr", r, s>>)
           On(s) == Given(T(s)) /\ i \in Covers(s)
           V(s)  == parse_seed(T(s))[i - Low[s]]
           over  == { s \in SlicesOf(r) : i \in Covers(s) /\ Seeded(log, <<"gpr", r, s>>) }
<1>1. compose_gpr_seed(r)[i] =
         IF On("byte_low") THEN V("byte_low")
         ELSE IF On("byte_high") THEN V("byte_high")
         ELSE IF On("word") THEN V("word")
         ELSE IF On("dword") THEN V("dword")
         ELSE IF On("full") THEN V("full") ELSE 0
  BY ComposedByte, Zenon
<1>2. \A s \in Slices : <<"gpr", r, s>> \in Fields <=> r # "RSP" /\ s \in SlicesOf(r)
  BY DEF Fields, GprTargets, EnvTargets, XmmTargets, StTargets
<1>3. ~Given(Empty)
  BY DEF Given, Empty
<1>4. /\ "full" \in Slices /\ "dword" \in Slices /\ "word" \in Slices
      /\ "byte_high" \in Slices /\ "byte_low" \in Slices
  BY DEF Slices
<1>5. CASE r = "RSP"
  <2>1. \A s \in Slices : ~On(s)
    BY <1>2, <1>3, <1>5, Zenon DEF TextOf
  <2> HIDE DEF On, V
  <2> QED
    BY <1>1, <1>4, <1>5, <2>1
<1>6. CASE r # "RSP"
  <2>1. \A s \in SlicesOf(r) : s \in Slices
    BY DEF SlicesOf
  <2>2. \A s \in SlicesOf(r) : T(s) = LastText(log, <<"gpr", r, s>>)
    BY <1>2, <1>6, <2>1, Zenon DEF TextOf, Holds
  <2>3. \A s, text : Parsed(<<"gpr", r, s>>, text) = parse_seed(text)
    BY DEF Parsed
  <2>4. \A s \in SlicesOf(r) : Seeded(log, <<"gpr", r, s>>) <=> Given(T(s))
    BY <2>2, <2>3, Zenon DEF Seeded, Given
  <2>5. \A s \in Slices : On(s) <=> s \in over
    BY <1>2, <1>3, <1>6, <2>1, <2>4, Zenon DEF TextOf
  <2>6. ReferenceByte(log, r, i) =
           IF over = {} THEN 0
           ELSE LET c == CHOOSE s \in over : \A t \in over : Width[s] <= Width[t]
                IN  Parsed(<<"gpr", r, c>>, LastText(log, <<"gpr", r, c>>))[i - Low[c]]
    BY Zenon DEF ReferenceByte
  <2>7. over \in SUBSET Slices /\ \A s \in over : i \in Covers(s) /\ s \in SlicesOf(r)
    BY <2>1
  <2> HIDE DEF over
  <2>8. ASSUME NEW n \in over, \A t \in over : Width[n] <= Width[t]
        PROVE  ReferenceByte(log, r, i) = V(n)
    <3>1. (CHOOSE s \in over : \A t \in over : Width[s] <= Width[t]) = n
      BY <2>7, <2>8, Narrowest, Zenon
    <3>2. ReferenceByte(log, r, i)
             = Parsed(<<"gpr", r, n>>, LastText(log, <<"gpr", r, n>>))[i - Low[n]]
      BY <2>6, <3>1, Zenon
    <3> QED
      BY <2>2, <2>3, <2>7, <3>2, Zenon
  <2>9. over = {} => ReferenceByte(log, r, i) = 0
    BY <2>6, Zenon
  <2>10. \A s \in over : s \in {"full", "dword", "word", "byte_high", "byte_low"}
    BY <2>7 DEF Slices
  <2> HIDE DEF On, V
  <2>11. CASE "byte_low" \in over
    <3>1. \A t \in over : Width["byte_low"] <= Width[t]
      BY <2>10, SliceBytes
    <3> QED
      BY <1>1, <1>4, <1>6, <2>5, <2>8, <2>11, <3>1
  <2>12. CASE "byte_low" \notin over /\ "byte_high" \in over
    <3>1. \A t \in over : Width["byte_high"] <= Width[t]
      BY <2>10, SliceBytes
    <3> QED
      BY <1>1, <1>4, <1>6, <2>5, <2>8, <2>12, <3>1
  <2>13. CASE "byte_low" \notin over /\ "byte_high" \notin over /\ "word" \in over
    <3>1. \A t \in over : Width["word"] <= Width[t]
      BY <2>10, <2>13, SliceBytes
    <3> QED
      BY <1>1, <1>4, <1>6, <2>5, <2>8, <2>13, <3>1
  <2>14. CASE /\ "byte_low" \notin over /\ "byte_high" \notin over /\ "word" \notin over
              /\ "dword" \in over
    <3>1. \A t \in over : Width["dword"] <= Width[t]
      BY <2>10, <2>14, SliceBytes
    <3> QED
      BY <1>1, <1>4, <1>6, <2>5, <2>8, <2>14, <3>1
  <2>15. CASE /\ "byte_low" \notin over /\ "byte_high" \notin over /\ "word" \notin over
              /\ "dword" \notin over
    <3>1. \A t \in over : t = "full"
      BY <2>10, <2>15
    <3>2. CASE "full" \in over
      <4>1. \A t \in over : Width["full"] <= Width[t]
        BY <3>1, SliceBytes
      <4> QED
        BY <1>1, <1>4, <1>6, <2>5, <2>8, <2>15, <3>2, <4>1
    <3>3. CASE "full" \notin over
      <4>1. over = {}
        BY <3>1, <3>3
      <4> QED
        BY <1>1, <1>4, <1>6, <2>5, <2>9, <2>15, <3>3, <4>1
    <3> QED
      BY <3>2, <3>3
  <2> QED
    BY <2>11, <2>12, <2>13, <2>14, <2>15
<1> QED
  BY <1>5, <1>6

-----------------------------------------------------------------------------
(* The flags.                                                              *)

\* A flag's value sets it unless it is zero.
LEMMA FlagValue ==
    ASSUME NEW text \in Text, Given(text)
    PROVE  parse_seed(text) # Zero(8) <=> ~FitsIn(text.bytes, 0)
<1> DEFINE b == text.bytes
<1>1. b \in Seq(Byte) /\ Len(b) \in Nat /\ \A i \in 1 .. Len(b) : b[i] \in Byte
  BY DEF Text
<1>2. FitsIn(b, 8) /\ parse_seed(text) = Pad(b, 8)
  BY DEF Given, parse_seed
<1> HIDE DEF b
<1>3. Pad(b, 8) = Zero(8) <=> \A i \in 1 .. 8 : Pad(b, 8)[i] = Zero(8)[i]
  BY DEF Pad, Zero
<1>4. \A i \in 1 .. 8 : Pad(b, 8)[i] = (IF i <= Len(b) THEN b[i] ELSE 0) /\ Zero(8)[i] = 0
  BY DEF Pad, Zero
<1>5. Pad(b, 8) = Zero(8) <=> \A i \in 1 .. 8 : i <= Len(b) => b[i] = 0
  BY <1>3, <1>4
<1>6. (\A i \in 1 .. 8 : i <= Len(b) => b[i] = 0) <=> FitsIn(b, 0)
  BY <1>1, <1>2 DEF FitsIn
<1> QED
  BY <1>2, <1>5, <1>6 DEF b

\* One more entry changes the clicks of a flag only if it is a click of that flag.
LEMMA ClicksOfAppend ==
    ASSUME NEW log \in Logs, NEW e \in [ target : Targets, text : Text ], NEW f
    PROVE  /\ IsFiniteSet(Clicks(log, f)) /\ Cardinality(Clicks(log, f)) \in Nat
           /\ e.target # <<"click", f, "">> => Clicks(Append(log, e), f) = Clicks(log, f)
           /\ e.target = <<"click", f, "">> =>
                Cardinality(Clicks(Append(log, e), f)) = Cardinality(Clicks(log, f)) + 1
<1> DEFINE n  == Len(log)
           l2 == Append(log, e)
           click == <<"click", f, "">>
           C  == Clicks(log, f)
<1>1. n \in Nat /\ Len(l2) = n + 1 /\ l2[n + 1] = e /\ \A i \in 1 .. n : l2[i] = log[i]
  BY DEF Logs
<1> HIDE DEF l2, click
<1>2. Clicks(l2, f) = { i \in 1 .. Len(l2) : l2[i].target = click }
      /\ C = { i \in 1 .. n : log[i].target = click }
  BY DEF Clicks, click
<1>3. Clicks(l2, f) = IF e.target = click THEN C \cup {n + 1} ELSE C
  BY <1>1, <1>2
<1>4. C \subseteq 1 .. n /\ n + 1 \notin C
  BY <1>1, <1>2
<1> HIDE DEF C
<1>5. IsFiniteSet(C) /\ Cardinality(C) \in Nat
  <2>1. IsFiniteSet(1 .. n)
    BY <1>1, FS_Interval
  <2>2. IsFiniteSet(C)
    BY <1>4, <2>1, FS_Subset
  <2> QED
    BY <2>2, FS_CardinalityType
<1>6. Cardinality(C \cup {n + 1}) = Cardinality(C) + 1
  BY <1>4, <1>5, FS_AddElement
<1> QED
  BY <1>3, <1>5, <1>6 DEF C, l2, click

\* The flag that was written, and how often it was clicked.
FlagSet(log, f) ==
    Seeded(log, <<"flag", f, "">>) /\ ~FitsIn(LastText(log, <<"flag", f, "">>).bytes, 0)
Odd(log, f) == Cardinality(Clicks(log, f)) % 2 = 1

\* What one more entry does to a flag: a value for it sets or clears it while it
\* has not been clicked, a click of it turns it over, anything else leaves it.
LEMMA FlagOfAppend ==
    ASSUME NEW log \in Logs, NEW e \in [ target : Targets, text : Text ], NEW f
    PROVE  LET flag == <<"flag", f, "">>
           IN  /\ e.target # flag /\ e.target # <<"click", f, "">> =>
                    ReferenceFlag(Append(log, e), f) = ReferenceFlag(log, f)
               /\ e.target = <<"click", f, "">> =>
                    ReferenceFlag(Append(log, e), f) = ~ReferenceFlag(log, f)
               /\ e.target = flag /\ Clicks(log, f) = {} /\ Given(e.text) =>
                    (ReferenceFlag(Append(log, e), f) <=> parse_seed(e.text) # Zero(8))
<1> DEFINE l2   == Append(log, e)
           flag == <<"flag", f, "">>
           click == <<"click", f, "">>
<1>1. LastText(l2, flag) = IF e.target = flag THEN e.text ELSE LastText(log, flag)
  BY LastOfAppend, Zenon
<1>2. /\ Cardinality(Clicks(log, f)) \in Nat
      /\ e.target # click => Clicks(l2, f) = Clicks(log, f)
      /\ e.target = click => Cardinality(Clicks(l2, f)) = Cardinality(Clicks(log, f)) + 1
  BY ClicksOfAppend
<1>3. flag # click
  OBVIOUS
<1>4. \A text : Parsed(flag, text) = parse_seed(text)
  BY DEF Parsed
<1> HIDE DEF l2, flag, click
<1>5. \A l : ReferenceFlag(l, f) = (FlagSet(l, f) # Odd(l, f))
  BY Zenon DEF ReferenceFlag, FlagSet, Odd, flag
<1>6. \A l : FlagSet(l, f) \in BOOLEAN /\ Odd(l, f) \in BOOLEAN
  BY DEF FlagSet, Odd, Seeded
<1>7. e.target # click => Odd(l2, f) = Odd(log, f)
  BY <1>2, Zenon DEF Odd
<1>8. e.target = click => Odd(l2, f) = ~Odd(log, f)
  BY <1>2 DEF Odd
<1>9. e.target # flag => FlagSet(l2, f) = FlagSet(log, f)
  BY <1>1, Zenon DEF FlagSet, Seeded, flag
<1>10. ASSUME e.target = flag, Given(e.text) PROVE FlagSet(l2, f) <=> parse_seed(e.text) # Zero(8)
  <2>1. LastText(l2, flag) = e.text /\ e.text \in Text
    BY <1>1, <1>10
  <2>2. Seeded(l2, flag)
    BY <1>4, <1>10, <2>1, Zenon DEF Seeded, Given
  <2>3. FlagSet(l2, f) <=> ~FitsIn(e.text.bytes, 0)
    BY <2>1, <2>2, Zenon DEF FlagSet, flag
  <2> QED
    BY <1>10, <2>1, <2>3, FlagValue
<1>11. Clicks(log, f) = {} => ~Odd(log, f)
  BY FS_EmptySet DEF Odd
<1>12. e.target # flag /\ e.target # click => ReferenceFlag(l2, f) = ReferenceFlag(log, f)
  BY <1>5, <1>7, <1>9
<1>13. e.target = click => ReferenceFlag(l2, f) = ~ReferenceFlag(log, f)
  BY <1>3, <1>5, <1>6, <1>8, <1>9
<1>14. e.target = flag /\ Clicks(log, f) = {} /\ Given(e.text) =>
          (ReferenceFlag(l2, f) <=> parse_seed(e.text) # Zero(8))
  BY <1>3, <1>5, <1>6, <1>7, <1>10, <1>11
<1> QED
  BY <1>12, <1>13, <1>14, Zenon DEF l2, flag, click

-----------------------------------------------------------------------------
(* The composed seed.                                                      *)

\* A seed that holds what a history says, and the fields that history leaves malformed.
AsWritten(seed, log) ==
    /\ \A r \in Regs, i \in 1 .. 8 :
         seed.gpr[r][i] = IF r = "RSP" THEN 0 ELSE ReferenceByte(log, r, i)
    /\ seed.flags = { f \in StatusFlags : ReferenceFlag(log, f) }
    /\ seed.tags = { i \in STs : Seeded(log, <<"st", i, "">>) }
Malformed(log) == { t \in Fields : Parsed(t, LastText(log, t)) = Invalid }

\* What the fields and the flags of a history compose to.
LEMMA ComposedAsWritten ==
    ASSUME NEW log, Holds(log), seed_flags = { f \in StatusFlags : ReferenceFlag(log, f) }
    PROVE  AsWritten(compose_seed, log) /\ compose_errors = Malformed(log)
<1> DEFINE G == [ r \in Regs |-> compose_gpr_seed(r) ]
           T == { i \in STs : LET text == TextOf(<<"st", i, "">>)
                              IN  text.kind # "empty" /\ compose_st_seed(text) # Invalid }
<1>1. compose_seed.gpr = G /\ compose_seed.flags = seed_flags /\ compose_seed.tags = T
  BY DEF compose_seed
<1>2. ASSUME NEW r \in Regs, NEW i \in 1 .. 8
      PROVE  compose_seed.gpr[r][i] = IF r = "RSP" THEN 0 ELSE ReferenceByte(log, r, i)
  <2>1. compose_seed.gpr[r] = compose_gpr_seed(r)
    BY <1>1
  <2> QED
    BY <2>1, RegisterAsWritten, Zenon
<1>3. T = { i \in STs : Seeded(log, <<"st", i, "">>) }
  <2>1. ASSUME NEW i \in STs
        PROVE  LET text == TextOf(<<"st", i, "">>)
               IN  (text.kind # "empty" /\ compose_st_seed(text) # Invalid)
                      <=> Seeded(log, <<"st", i, "">>)
    <3> DEFINE st == <<"st", i, "">>
    <3>1. st \in Fields
      BY DEF Fields, StTargets
    <3>2. \A text : Parsed(st, text) = compose_st_seed(text)
      BY DEF Parsed
    <3> HIDE DEF st
    <3>3. TextOf(st) = LastText(log, st)
      BY <3>1, Zenon DEF TextOf, Holds
    <3> QED
      BY <3>2, <3>3, Zenon DEF Seeded, st
  <2> QED
    BY <2>1, Zenon
<1>4. compose_errors = Malformed(log)
  BY DEF compose_errors, Malformed, Holds
<1> HIDE DEF G, T
<1> QED
  BY <1>1, <1>2, <1>3, <1>4, Zenon DEF AsWritten

\* The platform changes only RSP, RDI and RSI of it.
LEMMA InstalledElsewhere ==
    ASSUME NEW pointers, NEW r \in Regs \ {"RSP", "RDI", "RSI"}
    PROVE  Installed(compose_seed, pointers).gpr[r] = compose_seed.gpr[r]
<1> DEFINE seed == compose_seed
           P(x) == CASE x = "RSP" -> InitialRSP
                     [] x \in {"RDI", "RSI"} /\ pointers /\ seed.gpr[x] = Zero(8) -> DataBase
                     [] OTHER -> seed.gpr[x]
<1>1. "gpr" \in DOMAIN seed
  BY DEF compose_seed
<1> HIDE DEF seed
<1>2. Installed(seed, pointers) = [ seed EXCEPT !.gpr = [ x \in Regs |-> P(x) ] ]
  BY Zenon DEF Installed
<1>3. P(r) = seed.gpr[r]
  OBVIOUS
<1> HIDE DEF P
<1>4. Installed(seed, pointers).gpr = [ x \in Regs |-> P(x) ]
  BY <1>1, <1>2
<1> QED
  BY <1>3, <1>4 DEF seed

\* The kinds of field.
LEMMA FieldKinds == ASSUME NEW t \in Fields PROVE t[1] \in {"gpr", "env", "xmm", "st"}
<1>1. CASE t \in GprTargets
  <2>1. PICK r \in Regs, s \in Slices : t = <<"gpr", r, s>>
    BY <1>1 DEF GprTargets
  <2> QED
    BY <2>1
<1>2. CASE t = <<"env", "mxcsr", "">>
  BY <1>2
<1>3. CASE t = <<"env", "control_word", "">>
  BY <1>3
<1>4. CASE t \in XmmTargets
  <2>1. PICK i \in XMMs : t = <<"xmm", i, "">>
    BY <1>4 DEF XmmTargets
  <2> QED
    BY <2>1
<1>5. CASE t \in StTargets
  <2>1. PICK i \in STs : t = <<"st", i, "">>
    BY <1>5 DEF StTargets
  <2> QED
    BY <2>1
<1>6. t \in GprTargets \cup EnvTargets \cup XmmTargets \cup StTargets
  BY DEF Fields
<1> QED
  BY <1>1, <1>2, <1>3, <1>4, <1>5, <1>6 DEF EnvTargets

\* A flag target names its flag.
LEMMA FlagParts ==
    ASSUME NEW t \in FlagTargets
    PROVE  /\ t[2] \in StatusFlags /\ t = <<"flag", t[2], "">>
           /\ \A text : Parsed(t, text) = parse_seed(text)
<1>1. PICK f \in StatusFlags : t = <<"flag", f, "">>
  BY DEF FlagTargets
<1>2. t[2] = f /\ t[1] = "flag"
  BY <1>1
<1>3. \A text : Parsed(t, text) = parse_seed(text)
  BY <1>2 DEF Parsed
<1> QED
  BY <1>1, <1>2, <1>3

\* The targets about a flag are no fields, and about no other flag.
About(t, f) == t = <<"flag", f, "">> \/ t = <<"click", f, "">>

\* They tell the flags, and the two kinds, apart.
LEMMA AboutOne ==
    ASSUME NEW t, NEW f, About(t, f)
    PROVE  /\ t \notin Fields
           /\ \A g : g # f => ~About(t, g)
           /\ ~(t = <<"flag", f, "">> /\ t = <<"click", f, "">>)
<1>1. t[1] \in {"flag", "click"} /\ t[2] = f
  <2>1. CASE t = <<"flag", f, "">>
    BY <2>1
  <2>2. CASE t = <<"click", f, "">>
    BY <2>2
  <2> QED
    BY <2>1, <2>2 DEF About
<1>2. t \notin Fields
  <2> SUFFICES ASSUME t \in Fields PROVE FALSE
    OBVIOUS
  <2>1. t[1] \in {"gpr", "env", "xmm", "st"}
    BY FieldKinds
  <2> QED
    BY <1>1, <2>1
<1>3. ASSUME NEW g, g # f, About(t, g) PROVE FALSE
  <2>1. CASE t = <<"flag", g, "">>
    BY <1>1, <1>3, <2>1
  <2>2. CASE t = <<"click", g, "">>
    BY <1>1, <1>3, <2>2
  <2> QED
    BY <1>3, <2>1, <2>2 DEF About
<1>4. ASSUME t = <<"flag", f, "">> PROVE t # <<"click", f, "">>
  BY <1>4
<1> QED
  BY <1>2, <1>3, <1>4

\* An empty field is well formed.
LEMMA EmptyParses == \A t \in Fields : Parsed(t, Empty) # Invalid
<1> TAKE t \in Fields
<1>1. Empty.kind = "empty" /\ Empty.bytes = <<>> /\ Empty.extended = <<>>
  BY DEF Empty
<1>2. \A w \in {2, 8, 10, 16} : \A b : Pad(b, w) # Invalid
  <2> SUFFICES ASSUME NEW w \in {2, 8, 10, 16}, NEW b PROVE Pad(b, w) # Invalid
    OBVIOUS
  <2>1. DOMAIN Pad(b, w) = 1 .. w /\ 1 \in 1 .. w
    BY DEF Pad
  <2>2. DOMAIN Invalid = {}
    BY DEF Invalid
  <2> QED
    BY <2>1, <2>2
<1>3. parse_seed(Empty) = Zero(8) /\ parse_seed(Empty) # Invalid
  BY <1>1, <1>2 DEF parse_seed, Zero
<1>4. parse_word_seed(Empty) # Invalid
  <2>1. FitsIn(Zero(8), 2)
    BY DEF FitsIn, Zero, Pad
  <2> QED
    BY <1>2, <1>3, <2>1 DEF parse_word_seed
<1>5. compose_xmm_seed(Empty) # Invalid /\ compose_st_seed(Empty) # Invalid
  BY <1>1, <1>2 DEF compose_xmm_seed, compose_st_seed
<1>6. t[1] \in {"gpr", "env", "xmm", "st"}
  BY FieldKinds
<1> QED
  BY <1>3, <1>4, <1>5, <1>6 DEF Parsed

-----------------------------------------------------------------------------
(* The invariant.                                                          *)

\* The fields and the flags are what was written so far; clicks come after the
\* command line; and until the user can type, every field parses.
SeedsInv ==
    /\ quick \in BOOLEAN
    /\ pc \in {"cli", "edit", "compose", "done", "rejected"}
    /\ quick => pc # "edit"
    /\ field \in [ Fields -> Text ]
    /\ written \in Logs
    /\ Holds(written)
    /\ seed_flags = { f \in StatusFlags : ReferenceFlag(written, f) }
    /\ pc = "cli" => \A f \in StatusFlags : Clicks(written, f) = {}
    /\ quick \/ pc = "cli" => \A t \in Fields : Parsed(t, field[t]) # Invalid
    /\ AsWritten(requested, configured)
    /\ errors = Malformed(configured)
    /\ \A r \in Regs \ {"RSP", "RDI", "RSI"} : actual.gpr[r] = requested.gpr[r]

\* Before anything is written.
LEMMA NothingWritten ==
    /\ <<>> \in Logs
    /\ \A t : LastText(<<>>, t) = Empty
    /\ \A f : Clicks(<<>>, f) = {} /\ ~ReferenceFlag(<<>>, f)
<1>1. <<>> \in Logs
  BY DEF Logs
<1>2. \A t : LastText(<<>>, t) = Empty
  BY DEF LastText
<1>3. \A f : Clicks(<<>>, f) = {}
  BY DEF Clicks
<1>4. \A t : ~Seeded(<<>>, t)
  BY <1>2 DEF Seeded, Empty
<1>5. ASSUME NEW f PROVE ~ReferenceFlag(<<>>, f)
  <2>1. Cardinality(Clicks(<<>>, f)) % 2 # 1
    BY <1>3, FS_EmptySet
  <2> QED
    BY <1>4, <2>1, Zenon DEF ReferenceFlag
<1> QED
  BY <1>1, <1>2, <1>3, <1>5

\* The invariant holds before the command line is read.
LEMMA SeedsStart == SeedsInit => SeedsInv
<1> SUFFICES ASSUME SeedsInit PROVE SeedsInv
  OBVIOUS
<1>1. /\ quick \in BOOLEAN /\ pc = "cli" /\ written = <<>> /\ configured = <<>>
      /\ field = [ t \in Fields |-> Empty ] /\ seed_flags = {} /\ errors = {}
      /\ requested = compose_seed /\ actual = Installed(requested, TRUE)
  BY DEF SeedsInit
<1>2. Empty \in Text
  BY DEF Empty, Text
<1>3. field \in [ Fields -> Text ] /\ \A t \in Fields : field[t] = Empty
  BY <1>1, <1>2
<1>4. Holds(written)
  BY <1>1, <1>3, NothingWritten, Zenon DEF Holds
<1>5. seed_flags = { f \in StatusFlags : ReferenceFlag(written, f) }
  BY <1>1, NothingWritten
<1>6. AsWritten(requested, configured) /\ compose_errors = Malformed(configured)
  BY <1>1, <1>4, <1>5, ComposedAsWritten
<1>7. \A t \in Fields : Parsed(t, field[t]) # Invalid
  BY <1>3, EmptyParses, Zenon
<1>8. errors = Malformed(configured)
  BY <1>1, <1>6, <1>7 DEF compose_errors
<1>9. \A r \in Regs \ {"RSP", "RDI", "RSI"} : actual.gpr[r] = requested.gpr[r]
  BY <1>1, InstalledElsewhere, Zenon
<1> QED
  BY <1>1, <1>3, <1>4, <1>5, <1>6, <1>7, <1>8, <1>9, NothingWritten DEF SeedsInv

\* A text written to a field: the field holds it and no flag changes.
LEMMA FieldWritten ==
    ASSUME SeedsInv, NEW e, e.target \in Fields, e.text \in Text, Write(e.target, e.text),
           field' = [ field EXCEPT ![e.target] = e.text ], UNCHANGED seed_flags
    PROVE  /\ field' \in [ Fields -> Text ] /\ written' \in Logs /\ Holds(written)'
           /\ seed_flags' = { f \in StatusFlags : ReferenceFlag(written', f) }
           /\ \A f \in StatusFlags : Clicks(written', f) = Clicks(written, f)
<1> DEFINE w == [ target |-> e.target, text |-> e.text ]
<1>1. /\ written \in Logs /\ field \in [ Fields -> Text ] /\ Holds(written)
      /\ seed_flags = { f \in StatusFlags : ReferenceFlag(written, f) }
  BY DEF SeedsInv
<1>2. /\ written' = Append(written, w) /\ w \in [ target : Targets, text : Text ]
      /\ w.target = e.target /\ w.text = e.text
  BY DEF Write, Targets
<1> HIDE DEF w
<1>3. written' \in Logs
  BY <1>1, <1>2 DEF Logs
<1>4. \A t : LastText(written', t) = IF e.target = t THEN e.text ELSE LastText(written, t)
  BY <1>1, <1>2, LastOfAppend, ZenonT(40)
<1>5. Holds(written)'
  BY <1>1, <1>4 DEF Holds
<1>6. ASSUME NEW f PROVE w.target # <<"flag", f, "">> /\ w.target # <<"click", f, "">>
  <2>1. ~About(w.target, f)
    BY <1>2, AboutOne
  <2> QED
    BY <2>1, Zenon DEF About
<1>7. \A f : Clicks(written', f) = Clicks(written, f)
  BY <1>1, <1>2, <1>6, ClicksOfAppend, Zenon
<1>8. \A f : ReferenceFlag(written', f) = ReferenceFlag(written, f)
  BY <1>1, <1>2, <1>6, FlagOfAppend, ZenonT(40)
<1>9. seed_flags' = { f \in StatusFlags : ReferenceFlag(written', f) }
  BY <1>1, <1>8
<1> QED
  BY <1>1, <1>3, <1>5, <1>7, <1>9

\* A value for a flag or a click of it: the flag is what the history says and the
\* fields hold what they held.
LEMMA FlagWritten ==
    ASSUME SeedsInv, NEW w \in [ target : Targets, text : Text ], NEW f \in StatusFlags,
           written' = Append(written, w), UNCHANGED field,
           \/ /\ w.target = <<"click", f, "">>
              /\ seed_flags' = IF f \in seed_flags THEN seed_flags \ {f} ELSE seed_flags \cup {f}
           \/ /\ w.target = <<"flag", f, "">> /\ Given(w.text) /\ Clicks(written, f) = {}
              /\ seed_flags' = IF parse_seed(w.text) # Zero(8) THEN seed_flags \cup {f}
                               ELSE seed_flags \ {f}
    PROVE  /\ written' \in Logs /\ Holds(written)'
           /\ seed_flags' = { g \in StatusFlags : ReferenceFlag(written', g) }
<1>1. /\ written \in Logs /\ field \in [ Fields -> Text ] /\ Holds(written)
      /\ seed_flags = { g \in StatusFlags : ReferenceFlag(written, g) }
  BY DEF SeedsInv
<1>2. written' \in Logs
  BY <1>1, AppendProperties DEF Logs
<1>3. /\ About(w.target, f) /\ w.target \notin Fields
      /\ \A g : g # f => ~About(w.target, g)
      /\ ~(w.target = <<"flag", f, "">> /\ w.target = <<"click", f, "">>)
  <2>1. About(w.target, f)
    BY Zenon DEF About
  <2> QED
    BY <2>1, AboutOne, Zenon
<1>4. \A t \in Fields : LastText(written', t) = LastText(written, t)
  BY <1>1, <1>3, LastOfAppend, Zenon
<1>5. Holds(written)'
  BY <1>1, <1>4 DEF Holds
<1>6. ASSUME NEW g \in StatusFlags, g # f
      PROVE  ReferenceFlag(written', g) = ReferenceFlag(written, g)
  <2>1. w.target # <<"flag", g, "">> /\ w.target # <<"click", g, "">>
    BY <1>3, <1>6, Zenon DEF About
  <2> QED
    BY <1>1, <2>1, FlagOfAppend, Zenon
<1>7. f \in seed_flags' <=> ReferenceFlag(written', f)
  <2>1. CASE w.target = <<"click", f, "">>
    <3>1. ReferenceFlag(written', f) = ~ReferenceFlag(written, f)
      BY <1>1, <2>1, FlagOfAppend, Zenon
    <3>2. w.target # <<"flag", f, "">>
      BY <1>3, <2>1, Zenon
    <3>3. seed_flags' = IF f \in seed_flags THEN seed_flags \ {f} ELSE seed_flags \cup {f}
      BY <3>2, Zenon
    <3> QED
      BY <1>1, <3>1, <3>3
  <2>2. CASE w.target = <<"flag", f, "">> /\ Given(w.text) /\ Clicks(written, f) = {}
    <3>1. ReferenceFlag(written', f) <=> parse_seed(w.text) # Zero(8)
      BY <1>1, <2>2, FlagOfAppend, Zenon
    <3>2. w.target # <<"click", f, "">>
      BY <1>3, <2>2, Zenon
    <3>3. seed_flags' = IF parse_seed(w.text) # Zero(8) THEN seed_flags \cup {f}
                        ELSE seed_flags \ {f}
      BY <3>2, Zenon
    <3> QED
      BY <3>1, <3>3
  <2> QED
    BY <2>1, <2>2, Zenon
<1>8. \A g \in StatusFlags : g # f => (g \in seed_flags' <=> g \in seed_flags)
  OBVIOUS
<1>9. seed_flags' \subseteq StatusFlags
  BY <1>1
<1> QED
  BY <1>1, <1>2, <1>5, <1>6, <1>7, <1>8, <1>9

\* What holds of the last run stays while there is no run.
LEMMA LastRunStays ==
    ASSUME SeedsInv, UNCHANGED runVars
    PROVE  /\ AsWritten(requested', configured') /\ errors' = Malformed(configured')
           /\ \A r \in Regs \ {"RSP", "RDI", "RSI"} : actual'.gpr[r] = requested'.gpr[r]
<1>1. requested' = requested /\ errors' = errors /\ actual' = actual /\ configured' = configured
  BY DEF runVars
<1> QED
  BY <1>1, Zenon DEF SeedsInv

\* Every entry, edit, click and run preserves it.
LEMMA SeedsStep == SeedsInv /\ [SeedsNext]_seedvars => SeedsInv'
<1> SUFFICES ASSUME SeedsInv, [SeedsNext]_seedvars PROVE SeedsInv'
  OBVIOUS
<1> USE DEF Targets
<1>1. ASSUME UNCHANGED seedvars PROVE SeedsInv'
  BY <1>1 DEF SeedsInv, seedvars, Holds, AsWritten, Malformed
<1>2. ASSUME NEW e \in Entries, AcceptEntry(e) PROVE SeedsInv'
  <2>1. /\ e.text \in Text /\ e.text.kind # "empty" /\ Parsed(e.target, e.text) # Invalid
        /\ e.target \in Fields \cup FlagTargets /\ pc = "cli" /\ pc' = pc /\ quick' = quick
        /\ Write(e.target, e.text) /\ UNCHANGED runVars
    BY <1>2, SeedsAssumption DEF AcceptEntry, Accepted
  <2>2. /\ AsWritten(requested', configured') /\ errors' = Malformed(configured')
        /\ \A r \in Regs \ {"RSP", "RDI", "RSI"} : actual'.gpr[r] = requested'.gpr[r]
    BY <2>1, LastRunStays
  <2>3. CASE e.target \in Fields
    <3>1. field' = [ field EXCEPT ![e.target] = e.text ] /\ UNCHANGED seed_flags
      BY <1>2, <2>3 DEF AcceptEntry
    <3>2. /\ field' \in [ Fields -> Text ] /\ written' \in Logs /\ Holds(written)'
          /\ seed_flags' = { f \in StatusFlags : ReferenceFlag(written', f) }
          /\ \A f \in StatusFlags : Clicks(written', f) = Clicks(written, f)
      BY <2>1, <2>3, <3>1, FieldWritten, Zenon
    <3>3. \A t \in Fields : Parsed(t, field'[t]) # Invalid
      BY <2>1, <2>3, <3>1 DEF SeedsInv
    <3> QED
      BY <2>1, <2>2, <3>2, <3>3 DEF SeedsInv
  <2>4. CASE e.target \notin Fields
    <3> DEFINE f == e.target[2]
               w == [ target |-> e.target, text |-> e.text ]
    <3>1. /\ f \in StatusFlags /\ e.target = <<"flag", f, "">>
          /\ Parsed(e.target, e.text) = parse_seed(e.text)
      BY <2>1, <2>4, FlagParts
    <3>2. /\ w \in [ target : Targets, text : Text ] /\ written' = Append(written, w)
          /\ w.target = e.target /\ w.text = e.text
      BY <2>1 DEF Write
    <3>3. /\ seed_flags' = IF parse_seed(e.text) # Zero(8) THEN seed_flags \cup {f}
                           ELSE seed_flags \ {f}
          /\ UNCHANGED field
      BY <1>2, <2>4 DEF AcceptEntry
    <3>4. Given(e.text) /\ Clicks(written, f) = {}
      BY <2>1, <3>1 DEF Given, SeedsInv
    <3> HIDE DEF f, w
    <3>5. /\ written' \in Logs /\ Holds(written)'
          /\ seed_flags' = { g \in StatusFlags : ReferenceFlag(written', g) }
      BY <3>1, <3>2, <3>3, <3>4, FlagWritten, Zenon
    <3>6. ASSUME NEW g \in StatusFlags PROVE Clicks(written', g) = {}
      <4>1. e.target # <<"click", g, "">>
        <5> DEFINE t == e.target
        <5>1. t = <<"flag", f, "">>
          BY <3>1
        <5> HIDE DEF t
        <5>2. t # <<"click", g, "">>
          BY <5>1
        <5> QED
          BY <5>2 DEF t
      <4>2. Clicks(written', g) = Clicks(written, g)
        BY <3>2, <4>1, ClicksOfAppend, Zenon DEF SeedsInv
      <4> QED
        BY <2>1, <4>2 DEF SeedsInv
    <3> QED
      BY <2>1, <2>2, <3>3, <3>5, <3>6 DEF SeedsInv
  <2> QED
    BY <2>3, <2>4
<1>3. ASSUME UNCHANGED <<quick, field, seed_flags, written, runVars>>,
             \/ pc = "cli" /\ pc' = "rejected"
             \/ pc = "cli" /\ pc' = IF quick THEN "compose" ELSE "edit"
             \/ pc = "edit" /\ pc' = "edit"
      PROVE  SeedsInv'
  <2>1. /\ AsWritten(requested', configured') /\ errors' = Malformed(configured')
        /\ \A r \in Regs \ {"RSP", "RDI", "RSI"} : actual'.gpr[r] = requested'.gpr[r]
    BY <1>3, LastRunStays
  <2>2. Holds(written)'
    BY <1>3 DEF SeedsInv, Holds
  <2> QED
    BY <1>3, <2>1, <2>2 DEF SeedsInv
<1>4. ASSUME NEW e \in Entries, EditField(e) PROVE SeedsInv'
  <2>1. /\ e.text \in Text /\ e.target \in Fields /\ pc = "edit" /\ pc' = pc /\ quick' = quick
        /\ Write(e.target, e.text) /\ UNCHANGED runVars
        /\ field' = [ field EXCEPT ![e.target] = e.text ] /\ UNCHANGED seed_flags
    BY <1>4, SeedsAssumption DEF EditField
  <2>2. /\ AsWritten(requested', configured') /\ errors' = Malformed(configured')
        /\ \A r \in Regs \ {"RSP", "RDI", "RSI"} : actual'.gpr[r] = requested'.gpr[r]
    BY <2>1, LastRunStays
  <2>3. /\ field' \in [ Fields -> Text ] /\ written' \in Logs /\ Holds(written)'
        /\ seed_flags' = { f \in StatusFlags : ReferenceFlag(written', f) }
    BY <2>1, FieldWritten, Zenon
  <2> QED
    BY <2>1, <2>2, <2>3 DEF SeedsInv
<1>5. ASSUME NEW f \in StatusFlags, ClickFlag(f) PROVE SeedsInv'
  <2> DEFINE w == [ target |-> <<"click", f, "">>, text |-> Empty ]
  <2>1. /\ pc = "edit" /\ pc' = pc /\ quick' = quick /\ UNCHANGED field /\ UNCHANGED runVars
        /\ seed_flags' = IF f \in seed_flags THEN seed_flags \ {f} ELSE seed_flags \cup {f}
        /\ written' = Append(written, w)
    BY <1>5 DEF ClickFlag, Write
  <2>2. /\ w \in [ target : Targets, text : Text ] /\ w.target = <<"click", f, "">>
    <3>1. Empty \in Text
      BY DEF Empty, Text
    <3> QED
      BY <3>1
  <2> HIDE DEF w
  <2>3. /\ AsWritten(requested', configured') /\ errors' = Malformed(configured')
        /\ \A r \in Regs \ {"RSP", "RDI", "RSI"} : actual'.gpr[r] = requested'.gpr[r]
    BY <2>1, LastRunStays
  <2>4. /\ written' \in Logs /\ Holds(written)'
        /\ seed_flags' = { g \in StatusFlags : ReferenceFlag(written', g) }
    BY <2>1, <2>2, FlagWritten, Zenon
  <2> QED
    BY <2>1, <2>3, <2>4 DEF SeedsInv
<1>6. CASE RunSeed
  <2>1. /\ requested' = compose_seed /\ errors' = compose_errors /\ configured' = written
        /\ UNCHANGED <<quick, field, seed_flags, written>> /\ pc \in {"edit", "compose"}
    BY <1>6 DEF RunSeed
  <2>2. /\ AsWritten(compose_seed, written) /\ compose_errors = Malformed(written)
    BY ComposedAsWritten DEF SeedsInv
  <2>3. quick => compose_errors = {}
    BY DEF compose_errors, SeedsInv
  <2>4. /\ actual' = Installed(compose_seed, seed_data_pointers)
        /\ pc' = IF ~quick THEN "edit" ELSE "done"
    BY <1>6, <2>1, <2>3 DEF RunSeed
  <2>5. \A r \in Regs \ {"RSP", "RDI", "RSI"} : actual'.gpr[r] = requested'.gpr[r]
    BY <2>1, <2>4, InstalledElsewhere
  <2>6. AsWritten(requested', configured') /\ errors' = Malformed(configured')
    BY <2>1, <2>2
  <2>7. Holds(written)'
    BY <2>1 DEF SeedsInv, Holds
  <2> QED
    BY <2>1, <2>4, <2>5, <2>6, <2>7 DEF SeedsInv
<1>7. CASE Ended
  BY <1>1, <1>7 DEF Ended
<1>8. ASSUME NEW e \in Entries, RejectEntry(e) PROVE SeedsInv'
  BY <1>3, <1>8 DEF RejectEntry
<1>9. CASE EndOfArgument
  BY <1>3, <1>9 DEF EndOfArgument
<1>10. CASE ToggleDataPointers
  BY <1>3, <1>10 DEF ToggleDataPointers
<1> QED
  BY <1>1, <1>2, <1>4, <1>5, <1>6, <1>7, <1>8, <1>9, <1>10 DEF SeedsNext

\* Whatever is written, in whatever order, and however often it is run: the run starts
\* with what was written, for any registers and any texts.
THEOREM SeedsAlwaysAsWritten == SeedsSpec => []SeedsAsWritten
<1>1. SeedsInv => SeedsAsWritten
  <2> SUFFICES ASSUME SeedsInv PROVE SeedsAsWritten
    OBVIOUS
  <2>1. /\ AsWritten(requested, configured) /\ errors = Malformed(configured)
        /\ \A r \in Regs \ {"RSP", "RDI", "RSI"} : actual.gpr[r] = requested.gpr[r]
        /\ pc # "failed"
    BY DEF SeedsInv
  <2> QED
    BY <2>1, Zenon DEF SeedsAsWritten, AsWritten, Malformed
<1> QED
  BY <1>1, SeedsStart, SeedsStep, PTL DEF SeedsSpec
===============================================================================
