---------------------------- MODULE ReadingProofs ----------------------------
(***************************************************************************)
(* What a command reads is what its input says, for every text and every   *)
(* image: the chunks of the image, the blocks and directives that the      *)
(* scanner lifts out of the text, and the diagram the parser makes of what *)
(* is left; and a command for plain diagrams refuses a global one.         *)
(*                                                                         *)
(* ReadingInv says at each stage what the lines before this one have come  *)
(* to.  The scanner's part (ScannedAs) and the parser's (ParsedAs) are     *)
(* stated of one line at a time, with the lines the code has gone over     *)
(* already; WhatIsWritten and ReadDiagram turn them into the reading of    *)
(* the whole text once its end is reached.                                 *)
(***************************************************************************)
EXTENDS PromotionProofs

(* The place of a number among those of a set.                             *)
Rank(ns, n) == Cardinality({m \in ns : m < n})

LEMMA Ranked ==
  ASSUME NEW ns, IsFiniteSet(ns), ns \subseteq Nat
  PROVE  /\ Cardinality(ns) \in Nat
         /\ \A n \in ns : Rank(ns, n) \in 0 .. Cardinality(ns) - 1
         /\ \A n, m \in ns : n < m => Rank(ns, n) < Rank(ns, m)
<1>1. Cardinality(ns) \in Nat
  BY FS_CardinalityType
<1>2. ASSUME NEW n \in ns
      PROVE  /\ IsFiniteSet({m \in ns : m < n}) /\ Rank(ns, n) \in Nat
             /\ IsFiniteSet({m \in ns : m < n} \cup {n}) /\ Cardinality({m \in ns : m < n} \cup {n}) = Rank(ns, n) + 1
  <2> DEFINE T == {m \in ns : m < n}
  <2>1. T \in SUBSET ns /\ n \notin T
    OBVIOUS
  <2> HIDE DEF T
  <2>2. IsFiniteSet(T) /\ Cardinality(T) \in Nat
    BY <2>1, FS_Subset, FS_CardinalityType
  <2>3. IsFiniteSet(T \cup {n}) /\ Cardinality(T \cup {n}) = Cardinality(T) + 1
    BY <2>1, <2>2, FS_AddElement
  <2> QED BY <2>2, <2>3 DEF T, Rank
<1>3. ASSUME NEW n \in ns, NEW S, IsFiniteSet(S), {m \in ns : m < n} \cup {n} \subseteq S
      PROVE  Rank(ns, n) + 1 <= Cardinality(S)
  <2> DEFINE T == {m \in ns : m < n} \cup {n}
  <2>1. T \in SUBSET S
    BY <1>3
  <2>2. Cardinality(T) = Rank(ns, n) + 1
    BY <1>2
  <2> HIDE DEF T
  <2> QED BY <2>1, <2>2, <1>3, FS_Subset
<1>4. ASSUME NEW n \in ns PROVE Rank(ns, n) \in 0 .. Cardinality(ns) - 1
  <2>1. {m \in ns : m < n} \cup {n} \subseteq ns
    OBVIOUS
  <2>2. Rank(ns, n) + 1 <= Cardinality(ns)
    BY <2>1, <1>3
  <2>3. Rank(ns, n) \in Nat
    BY <1>2
  <2> QED BY <2>2, <2>3, <1>1
<1>5. ASSUME NEW n \in ns, NEW m \in ns, n < m PROVE Rank(ns, n) < Rank(ns, m)
  <2>1. ASSUME NEW l \in {k \in ns : k < n} \cup {n} PROVE l \in {k \in ns : k < m}
    BY <1>5
  <2> DEFINE S == {k \in ns : k < m}
  <2>2. {k \in ns : k < n} \cup {n} \subseteq S /\ IsFiniteSet(S) /\ Cardinality(S) = Rank(ns, m)
    BY <2>1, <1>2 DEF Rank
  <2> HIDE DEF S
  <2>3. Rank(ns, n) + 1 <= Rank(ns, m)
    BY <2>2, <1>3
  <2>4. Rank(ns, n) \in Nat /\ Rank(ns, m) \in Nat
    BY <1>2
  <2> QED BY <2>3, <2>4
<1> QED BY <1>1, <1>4, <1>5

(* Every place of the order is taken, by the number of that rank.          *)
LEMMA Ordered ==
  ASSUME NEW ns, IsFiniteSet(ns), ns \subseteq Nat
  PROVE  /\ \A n \in ns : InOrder(ns)[Rank(ns, n) + 1] = n
         /\ \A k \in 1 .. Cardinality(ns) : InOrder(ns)[k] \in ns /\ Rank(ns, InOrder(ns)[k]) = k - 1
<1>1. /\ Cardinality(ns) \in Nat
      /\ \A n \in ns : Rank(ns, n) \in 0 .. Cardinality(ns) - 1
      /\ \A n, m \in ns : n < m => Rank(ns, n) < Rank(ns, m)
  BY Ranked
<1>2. \A n, m \in ns : n # m => Rank(ns, n) # Rank(ns, m)
  <2> SUFFICES ASSUME NEW n \in ns, NEW m \in ns, n # m PROVE Rank(ns, n) # Rank(ns, m)
    OBVIOUS
  <2>1. n < m \/ m < n
    OBVIOUS
  <2>2. Rank(ns, n) \in Nat /\ Rank(ns, m) \in Nat
    BY <1>1
  <2> QED BY <2>1, <2>2, <1>1
<1> DEFINE r == [n \in ns |-> Rank(ns, n)]
           T == 0 .. Cardinality(ns) - 1
<1>3. \A t \in T : \E n \in ns : Rank(ns, n) = t
  <2>1. r \in Injection(ns, T)
    BY <1>1, <1>2 DEF Injection, IsInjective
  <2>2. IsFiniteSet(T) /\ Cardinality(T) = Cardinality(ns)
    BY <1>1, FS_Interval
  <2>3. r \in Surjection(ns, T)
    <3> HIDE DEF r, T
    <3> QED BY <2>1, <2>2, FS_Injection
  <2> QED BY <2>3 DEF Surjection
<1>4. ASSUME NEW k \in 1 .. Cardinality(ns)
      PROVE  InOrder(ns)[k] \in ns /\ Rank(ns, InOrder(ns)[k]) = k - 1
  <2>1. k - 1 \in T
    BY <1>1
  <2>2. \E n \in ns : Rank(ns, n) = k - 1
    <3> HIDE DEF T
    <3> QED BY <2>1, <1>3
  <2>3. InOrder(ns)[k] = CHOOSE n \in ns : Rank(ns, n) = k - 1
    BY DEF InOrder, Rank
  <2> QED BY <2>2, <2>3
<1>5. ASSUME NEW n \in ns PROVE InOrder(ns)[Rank(ns, n) + 1] = n
  <2>1. Rank(ns, n) + 1 \in 1 .. Cardinality(ns) /\ Rank(ns, n) + 1 - 1 = Rank(ns, n)
    BY <1>1
  <2> DEFINE k == Rank(ns, n) + 1
  <2> HIDE DEF k
  <2>2. InOrder(ns)[k] \in ns /\ Rank(ns, InOrder(ns)[k]) = k - 1
    BY <2>1, <1>4 DEF k
  <2>3. k - 1 = Rank(ns, n)
    <3>1. Rank(ns, n) \in Nat
      BY <1>1
    <3> QED BY <3>1 DEF k
  <2> QED BY <2>2, <2>3, <1>2 DEF k
<1> QED BY <1>4, <1>5

(* What lines say, when there is one more line after them: one more is     *)
(* said, in the end.                                                       *)
LEMMA OneMore ==
  ASSUME NEW ns, IsFiniteSet(ns), ns \subseteq Nat, NEW n \in Nat, \A m \in ns : m < n, NEW f
  PROVE  [k \in 1 .. Cardinality(ns \cup {n}) |-> f[InOrder(ns \cup {n})[k]]] =
           Append([k \in 1 .. Cardinality(ns) |-> f[InOrder(ns)[k]]], f[n])
<1> DEFINE more == ns \cup {n}
<1>1. n \notin ns
  OBVIOUS
<1>2. IsFiniteSet(more) /\ Cardinality(more) = Cardinality(ns) + 1 /\ Cardinality(ns) \in Nat
  BY <1>1, FS_AddElement, FS_CardinalityType
<1>3. more \subseteq Nat
  OBVIOUS
<1>4. Rank(more, n) = Cardinality(ns)
  <2>1. ~ (n < n)
    OBVIOUS
  <2>2. {l \in more : l < n} = ns
    BY <2>1, Zenon
  <2> QED BY <2>2 DEF Rank
<1>5. \A m \in ns : Rank(more, m) = Rank(ns, m)
  <2> SUFFICES ASSUME NEW m \in ns PROVE Rank(more, m) = Rank(ns, m)
    OBVIOUS
  <2>1. {k \in more : k < m} = {k \in ns : k < m}
    OBVIOUS
  <2> QED BY <2>1 DEF Rank
<1>6. \A m \in ns : m \in more
  OBVIOUS
<1>7. n \in more
  OBVIOUS
<1> HIDE DEF more
<1>8. InOrder(more)[Cardinality(ns) + 1] = n
  BY <1>2, <1>3, <1>4, <1>7, Ordered
<1>9. ASSUME NEW k \in 1 .. Cardinality(ns) PROVE InOrder(more)[k] = InOrder(ns)[k]
  <2>1. InOrder(ns)[k] \in ns /\ Rank(ns, InOrder(ns)[k]) = k - 1
    BY Ordered
  <2>2. InOrder(more)[Rank(more, InOrder(ns)[k]) + 1] = InOrder(ns)[k]
    BY <1>2, <1>3, <1>6, <2>1, Ordered
  <2>3. Rank(more, InOrder(ns)[k]) = k - 1
    BY <2>1, <1>5
  <2>4. k - 1 + 1 = k
    BY <1>2
  <2> QED BY <2>2, <2>3, <2>4
<1> DEFINE s == [k \in 1 .. Cardinality(ns) |-> f[InOrder(ns)[k]]]
           t == [k \in 1 .. Cardinality(more) |-> f[InOrder(more)[k]]]
           X == {f[m] : m \in more}
<1>10. s \in Seq(X) /\ Len(s) = Cardinality(ns)
  <2>1. \A k \in 1 .. Cardinality(ns) : f[InOrder(ns)[k]] \in X
    BY <1>6, Ordered
  <2> HIDE DEF X
  <2> QED BY <2>1, <1>2, IsASeq, LenProperties
<1>11. t \in Seq(X) /\ Len(t) = Cardinality(ns) + 1
  <2>1. \A k \in 1 .. Cardinality(more) : f[InOrder(more)[k]] \in X
    BY <1>2, <1>3, Ordered
  <2> HIDE DEF X
  <2> QED BY <2>1, <1>2, IsASeq, LenProperties
<1>12. f[n] \in X
  BY <1>7
<1>13. \A k \in 1 .. Cardinality(ns) : t[k] = s[k]
  BY <1>2, <1>9
<1>14. t[Cardinality(ns) + 1] = f[n]
  BY <1>2, <1>8
<1>15. t = Append(s, f[n])
  <2> HIDE DEF s, t, X
  <2>1. /\ Append(s, f[n]) \in Seq(X) /\ Len(Append(s, f[n])) = Cardinality(ns) + 1
        /\ \A k \in 1 .. Cardinality(ns) : Append(s, f[n])[k] = s[k]
        /\ Append(s, f[n])[Cardinality(ns) + 1] = f[n]
    BY <1>2, <1>10, <1>12
  <2>2. \A k \in 1 .. Cardinality(ns) + 1 : k \in 1 .. Cardinality(ns) \/ k = Cardinality(ns) + 1
    BY <1>2
  <2>3. \A k \in 1 .. Cardinality(ns) + 1 : t[k] = Append(s, f[n])[k]
    BY <2>1, <2>2, <1>13, <1>14
  <2> QED BY <2>1, <2>3, <1>11, SeqEqual
<1> QED BY <1>15 DEF more

LEMMA NoMore == ASSUME NEW f PROVE [k \in 1 .. Cardinality({}) |-> f[InOrder({})[k]]] = << >>
<1>1. 1 .. Cardinality({}) = {}
  BY FS_EmptySet
<1> QED BY <1>1, EmptyDomain

-----------------------------------------------------------------------------
(* The largest of some numbers.                                            *)
LEMMA Largest ==
  ASSUME NEW ns, ns \subseteq Nat, NEW n \in ns, \A m \in ns : n >= m
  PROVE  Max(ns) = n
<1>1. \E x \in ns : \A y \in ns : x >= y
  OBVIOUS
<1>2. Max(ns) \in ns /\ \A y \in ns : Max(ns) >= y
  BY <1>1 DEF Max
<1>3. Max(ns) \in Nat /\ n \in Nat
  BY <1>2
<1>4. Max(ns) >= n /\ n >= Max(ns)
  BY <1>2
<1> QED BY <1>3, <1>4

LEMMA LargestOfOne == ASSUME NEW n \in Nat PROVE Max({n}) = n
<1>1. {n} \subseteq Nat /\ n \in {n} /\ \A m \in {n} : n >= m
  OBVIOUS
<1> QED BY <1>1, Largest

LEMMA LargestBelow ==
  ASSUME NEW b \in Nat, NEW ns, ns \subseteq 1 .. b, ns # {}
  PROVE  Max(ns) \in ns /\ \A m \in ns : Max(ns) >= m
<1> DEFINE T == {b - m : m \in ns}
<1>1. T \subseteq Nat /\ T # {}
  OBVIOUS
<1>2. PICK t \in T : \A u \in T : t <= u
  <2> HIDE DEF T
  <2> QED BY <1>1, LeastNat
<1>3. PICK n \in ns : t = b - n
  OBVIOUS
<1>4. ASSUME NEW m \in ns PROVE n >= m
  <2>1. b - n <= b - m
    BY <1>2, <1>3
  <2> QED BY <2>1
<1>5. ns \subseteq Nat
  OBVIOUS
<1> QED BY <1>3, <1>4, <1>5, Largest

LEMMA BoundedLines ==
  ASSUME NEW b \in Nat, NEW ns, ns \subseteq 1 .. b
  PROVE  IsFiniteSet(ns) /\ ns \subseteq Nat
<1>1. IsFiniteSet(1 .. b) /\ 1 .. b \subseteq Nat
  BY FS_Interval
<1> QED BY <1>1, FS_Subset

-----------------------------------------------------------------------------
OutsideBlocks(n) == \A p \in 1 .. n : ~ InBlock(n, p)

LEMMA LinesAre ==
  ASSUME IsText(source)
  PROVE  /\ Len(source) \in Nat /\ DOMAIN source = 1 .. Len(source)
         /\ \A n \in 1 .. Len(source) : IsLine(source[n]) /\ n \in Nat
         /\ \A n, kinds : Is(n, kinds) => n \in 1 .. Len(source)
<1>1. Len(source) \in Nat /\ DOMAIN source = 1 .. Len(source)
  BY Sequential DEF IsText
<1> QED BY <1>1, TextOfLines DEF Is

(* A note goes on until it ends.                                           *)
LEMMA NextInNote ==
  ASSUME NEW n \in Nat \ {0}
  PROVE  InNote(n + 1) <=>
           input.tool = "promote" /\ (Is(n, {"note"}) \/ (InNote(n) /\ ~ Is(n, {"endnote"})))
<1>1. ASSUME input.tool = "promote", Is(n, {"note"}) PROVE InNote(n + 1)
  <2>1. n \in 1 .. n + 1 - 1 /\ n + 1 .. n + 1 - 1 = {}
    OBVIOUS
  <2> QED BY <1>1, <2>1 DEF InNote, Between
<1>2. ASSUME InNote(n), ~ Is(n, {"endnote"}) PROVE InNote(n + 1)
  <2>1. PICK k \in 1 .. n - 1 : Is(k, {"note"}) /\ \A j \in Between(k, n) : ~ Is(j, {"endnote"})
    BY <1>2 DEF InNote
  <2>2. k \in 1 .. n + 1 - 1 /\ \A j \in k + 1 .. n + 1 - 1 : j \in k + 1 .. n - 1 \/ j = n
    OBVIOUS
  <2> QED BY <1>2, <2>1, <2>2 DEF InNote, Between
<1>3. ASSUME InNote(n + 1), ~ Is(n, {"note"}) PROVE InNote(n) /\ ~ Is(n, {"endnote"})
  <2>1. PICK k \in 1 .. n + 1 - 1 : Is(k, {"note"}) /\ \A j \in Between(k, n + 1) : ~ Is(j, {"endnote"})
    BY <1>3 DEF InNote
  <2>2. k \in 1 .. n - 1
    BY <1>3, <2>1
  <2>3. n \in k + 1 .. n + 1 - 1 /\ \A j \in k + 1 .. n - 1 : j \in k + 1 .. n + 1 - 1
    BY <2>2
  <2> QED BY <1>3, <2>1, <2>2, <2>3 DEF InNote, Between
<1>4. InNote(n + 1) => input.tool = "promote"
  BY DEF InNote
<1> QED BY <1>1, <1>2, <1>3, <1>4

LEMMA OutsideNotes ==
  ASSUME NEW n \in Nat \ {0}, NEW m \in Nat, n <= m, ~ InNote(n), \A k \in n .. m - 1 : ~ Is(k, {"note"})
  PROVE  ~ InNote(m)
<1> SUFFICES ASSUME InNote(m) PROVE FALSE
  OBVIOUS
<1>1. PICK k \in 1 .. m - 1 : Is(k, {"note"}) /\ \A j \in Between(k, m) : ~ Is(j, {"endnote"})
  BY DEF InNote
<1>2. k \in 1 .. n - 1
  BY <1>1
<1>3. \A j \in k + 1 .. n - 1 : j \in k + 1 .. m - 1
  BY <1>2
<1> QED BY <1>1, <1>2, <1>3 DEF InNote, Between

(* Inside the note that begins at n, nothing is drawn.                     *)
LEMMA InsideNote ==
  ASSUME IsText(source), input.tool = "promote", NEW n \in DOMAIN source, Is(n, {"note"}), Terminated(n)
  PROVE  /\ EndOfNote(n) \in n + 1 .. Len(source) /\ Is(EndOfNote(n), {"endnote"})
         /\ \A k \in n + 1 .. EndOfNote(n) : InNote(k)
         /\ \A k \in n + 1 .. EndOfNote(n) - 1 : ~ Is(k, {"endnote"})
         /\ ~ InNote(EndOfNote(n) + 1)
<1>1. n \in Nat \ {0} /\ Len(source) \in Nat
  BY LinesAre, TextOfLines
<1>2. /\ EndOfNote(n) \in n + 1 .. Len(source) /\ Is(EndOfNote(n), {"endnote"})
      /\ \A k \in n + 1 .. EndOfNote(n) - 1 : ~ Is(k, {"endnote"})
  BY EndOfNoteFound DEF Is, IsKind
<1>3. ASSUME NEW k \in n + 1 .. EndOfNote(n) PROVE InNote(k)
  <2>1. n \in 1 .. k - 1 /\ \A j \in n + 1 .. k - 1 : j \in n + 1 .. EndOfNote(n) - 1
    BY <1>1, <1>2
  <2> QED BY <2>1, <1>2 DEF InNote, Between
<1>4. ~ InNote(EndOfNote(n) + 1)
  <2>1. EndOfNote(n) \in Nat \ {0} /\ ~ Is(EndOfNote(n), {"note"})
    BY <1>1, <1>2 DEF Is
  <2> QED BY <2>1, <1>2, NextInNote
<1> QED BY <1>2, <1>3, <1>4

(* A body goes on with empty lines and includes.                           *)
LEMMA NextOutsideBlocks ==
  ASSUME NEW n \in Nat \ {0}
  PROVE  OutsideBlocks(n + 1) <=> /\ ~ (Drawn(n, {"promote"}) /\ source[n].body)
                                  /\ OutsideBlocks(n) \/ ~ Is(n, {"blank", "include"})
<1>1. ASSUME Drawn(n, {"promote"}), source[n].body PROVE ~ OutsideBlocks(n + 1)
  <2>1. n \in 1 .. n + 1 /\ n < n + 1 /\ n + 1 .. n + 1 - 1 = {}
    OBVIOUS
  <2>2. InBlock(n + 1, n)
    BY <1>1, <2>1 DEF InBlock, Between
  <2> QED BY <2>1, <2>2 DEF OutsideBlocks
<1>2. ASSUME ~ OutsideBlocks(n), Is(n, {"blank", "include"}) PROVE ~ OutsideBlocks(n + 1)
  <2>1. PICK p \in 1 .. n : InBlock(n, p)
    BY <1>2 DEF OutsideBlocks
  <2>2. p \in 1 .. n + 1 /\ p < n + 1 /\ \A j \in p + 1 .. n + 1 - 1 : j \in p + 1 .. n - 1 \/ j = n
    OBVIOUS
  <2>3. InBlock(n + 1, p)
    BY <1>2, <2>1, <2>2 DEF InBlock, Between
  <2> QED BY <2>2, <2>3 DEF OutsideBlocks
<1>3. ASSUME NEW p \in 1 .. n + 1, InBlock(n + 1, p), p # n
      PROVE  InBlock(n, p) /\ p \in 1 .. n /\ Is(n, {"blank", "include"})
  <2>1. p < n + 1 /\ \A j \in p + 1 .. n + 1 - 1 : Is(j, {"blank", "include"})
    BY <1>3 DEF InBlock, Between
  <2>2. p < n /\ p \in 1 .. n /\ n \in p + 1 .. n + 1 - 1 /\ \A j \in p + 1 .. n - 1 : j \in p + 1 .. n + 1 - 1
    BY <1>3, <2>1
  <2> QED BY <1>3, <2>1, <2>2 DEF InBlock, Between
<1>4. InBlock(n + 1, n) => Drawn(n, {"promote"}) /\ source[n].body
  BY DEF InBlock
<1> QED BY <1>1, <1>2, <1>3, <1>4 DEF OutsideBlocks

(* A line is in one block at most, and a composite state begins in none.   *)
LEMMA OneBlock ==
  ASSUME NEW n \in Nat \ {0}, NEW p \in Nat, NEW q \in Nat, InBlock(n, p)
  PROVE  /\ InBlock(n, q) => p = q
         /\ Drawn(q, {"composite"}) /\ q < n => q < p
<1>1. p < n /\ Drawn(p, {"promote"}) /\ \A j \in p + 1 .. n - 1 : Is(j, {"blank", "include"})
  BY DEF InBlock, Between
<1>2. ASSUME InBlock(n, q) PROVE p = q
  <2>1. q < n /\ Drawn(q, {"promote"}) /\ \A j \in q + 1 .. n - 1 : Is(j, {"blank", "include"})
    BY <1>2 DEF InBlock, Between
  <2>2. q \notin p + 1 .. n - 1 /\ p \notin q + 1 .. n - 1
    BY <1>1, <2>1 DEF Drawn, Is
  <2> QED BY <1>1, <2>1, <2>2
<1>3. ASSUME Drawn(q, {"composite"}), q < n PROVE q < p
  <2>1. q # p /\ q \notin p + 1 .. n - 1
    BY <1>1, <1>3 DEF Drawn, Is
  <2> QED BY <1>3, <2>1
<1> QED BY <1>2, <1>3

(* A composite state is left by a brace that closes no block.              *)
Leaves(j) == Drawn(j, {"close"}) /\ OutsideBlocks(j)

LEMMA AroundAre ==
  ASSUME IsText(source), NEW n \in Nat
  PROVE  CompositesAround(n) =
           {c \in 1 .. n - 1 : Drawn(c, {"composite"}) /\ \A j \in Between(c, n) : ~ Leaves(j)}
<1>1. ASSUME NEW c \in 1 .. n - 1, Drawn(c, {"composite"}), NEW j \in Between(c, n)
      PROVE  (\E p \in Between(c, j) : InBlock(j, p)) <=> ~ OutsideBlocks(j)
  <2>1. j \in Nat \ {0} /\ c < j
    BY DEF Between
  <2>2. \A p \in c + 1 .. j - 1 : p \in 1 .. j
    BY <2>1
  <2>3. ASSUME NEW p \in 1 .. j, InBlock(j, p) PROVE p \in c + 1 .. j - 1
    <3>3. p \in Nat /\ c \in Nat
      OBVIOUS
    <3>1. c < p
      BY <2>1, <2>3, <1>1, <3>3, OneBlock
    <3>2. p < j
      BY <2>3 DEF InBlock
    <3> QED BY <2>1, <3>1, <3>2, <3>3
  <2> QED BY <2>2, <2>3 DEF OutsideBlocks, Between
<1> QED BY <1>1 DEF CompositesAround, Leaves

LEMMA NextAround ==
  ASSUME IsText(source), NEW n \in Nat \ {0}
  PROVE  /\ Drawn(n, {"composite"}) => CompositesAround(n + 1) = CompositesAround(n) \cup {n}
         /\ Leaves(n) => CompositesAround(n + 1) = {}
<1>1. /\ CompositesAround(n) =
           {c \in 1 .. n - 1 : Drawn(c, {"composite"}) /\ \A j \in Between(c, n) : ~ Leaves(j)}
      /\ CompositesAround(n + 1) =
           {c \in 1 .. n + 1 - 1 : Drawn(c, {"composite"}) /\ \A j \in Between(c, n + 1) : ~ Leaves(j)}
  BY AroundAre
<1>2. ASSUME Drawn(n, {"composite"}) PROVE CompositesAround(n + 1) = CompositesAround(n) \cup {n}
  <2>1. ~ Leaves(n)
    BY <1>2 DEF Leaves, Drawn, Is
  <2>2. ASSUME NEW c \in 1 .. n - 1
        PROVE  (\A j \in Between(c, n + 1) : ~ Leaves(j)) <=> \A j \in Between(c, n) : ~ Leaves(j)
    <3>1. \A j : j \in c + 1 .. n + 1 - 1 <=> j \in c + 1 .. n - 1 \/ j = n
      OBVIOUS
    <3> QED BY <2>1, <3>1 DEF Between
  <2>3. \A j \in Between(n, n + 1) : FALSE
    BY DEF Between
  <2>4. \A c : c \in 1 .. n + 1 - 1 <=> c \in 1 .. n - 1 \/ c = n
    OBVIOUS
  <2> QED BY <1>1, <1>2, <2>2, <2>3, <2>4
<1>3. ASSUME Leaves(n) PROVE CompositesAround(n + 1) = {}
  <2> SUFFICES ASSUME NEW c \in CompositesAround(n + 1) PROVE FALSE
    OBVIOUS
  <2>1. c \in 1 .. n + 1 - 1 /\ Drawn(c, {"composite"}) /\ \A j \in Between(c, n + 1) : ~ Leaves(j)
    BY <1>1
  <2>2. c # n
    BY <1>3, <2>1 DEF Leaves, Drawn, Is
  <2>3. n \in c + 1 .. n + 1 - 1
    BY <2>1, <2>2
  <2> QED BY <1>3, <2>1, <2>3 DEF Between
<1> QED BY <1>2, <1>3

LEMMA SameAround ==
  ASSUME IsText(source), NEW n \in Nat \ {0}, NEW m \in Nat, n <= m,
         \A k \in n .. m - 1 : ~ Drawn(k, {"composite"}) /\ ~ Leaves(k)
  PROVE  CompositesAround(m) = CompositesAround(n)
<1>1. /\ CompositesAround(n) =
           {c \in 1 .. n - 1 : Drawn(c, {"composite"}) /\ \A j \in Between(c, n) : ~ Leaves(j)}
      /\ CompositesAround(m) =
           {c \in 1 .. m - 1 : Drawn(c, {"composite"}) /\ \A j \in Between(c, m) : ~ Leaves(j)}
  BY AroundAre
<1>2. ASSUME NEW c \in 1 .. n - 1
      PROVE  (\A j \in Between(c, m) : ~ Leaves(j)) <=> \A j \in Between(c, n) : ~ Leaves(j)
  <2>1. \A j : j \in c + 1 .. m - 1 <=> j \in c + 1 .. n - 1 \/ j \in n .. m - 1
    OBVIOUS
  <2> QED BY <2>1 DEF Between
<1>3. \A c : c \in 1 .. m - 1 <=> c \in 1 .. n - 1 \/ c \in n .. m - 1
  OBVIOUS
<1> QED BY <1>1, <1>2, <1>3

-----------------------------------------------------------------------------
(* What the scanner has made of the lines before m.                        *)
DrawnBefore(m, kinds) == {n \in 1 .. m - 1 : Drawn(n, kinds)}

Dropped(m) == {n \in DrawnBefore(m, {"include"}) : OutsideBlocks(n)}

NotesAt(n) == {k \in 1 .. n - 1 : Drawn(k, {"note"}) /\ \A j \in Between(k, n) : Is(j, {"blank"})}

NotedBefore(m, kind) == {n \in 1 .. m - 1 : Is(n, {kind}) /\ NotesAt(n) # {}}

AnchorAt(n) == source[Max(NotesAt(n))].anchor

SyncHeard(n)      == SyncAt(n, AnchorAt(n))
ConstrainHeard(n) == ConstrainAt(n, AnchorAt(n))

LiftedAs(m, g, ds) ==
  /\ g.promotes = AsWritten(DrawnBefore(m, {"promote"}), BlockAsWritten)
  /\ g.syncs = AsWritten(NotedBefore(m, "sync"), SyncHeard)
  /\ g.constrains = AsWritten(NotedBefore(m, "constrain"), ConstrainHeard)
  /\ ds = {Info("dropped", n) : n \in Dropped(m)} \cup {Warning("misspelt", n) : n \in NotedBefore(m, "misspelt")}

Hidden(n) ==
  \/ InNote(n) \/ ~ OutsideBlocks(n) \/ Drawn(n, Lifted \ {"composite"})
  \/ Drawn(n, {"close"}) /\ CompositesAround(n) # {}

OutLine(n) ==
  IF Hidden(n) THEN Blank
  ELSE IF Is(n, {"composite"}) THEN Flattened(source[n])
  ELSE source[n]

Closed(n) == \E c \in DOMAIN source : Leaves(c) /\ n \in CompositesAround(c)

NoteSound(n) ==
  \E m \in DOMAIN source :
    /\ n < m /\ Is(m, {"endnote"}) /\ \A j \in Between(n, m) : ~ Is(j, {"endnote"})
    /\ \A k \in Between(n, m) : Is(k, Directives) /\ (\A j \in Between(n, k) : Is(j, {"blank"})) =>
         source[k].wellFormed /\ \A j \in Between(k, m) : ~ Is(j, Directives)

ScannedLine(n, m) ==
  /\ Drawn(n, {"promote"}) => BlockLegible(n)
  /\ Drawn(n, {"composite"}) => CompositesAround(n) = {} /\ (n \in CompositesAround(m) \/ Closed(n))
  /\ Drawn(n, {"note"}) => NoteSound(n)

ScannedAs(m, text, in, g, ds) ==
  /\ input.tool = "promote"
  /\ Len(text) = m - 1 /\ m \in 1 .. Len(source) + 1
  /\ ~ InNote(m) /\ OutsideBlocks(m)
  /\ CompositesAround(m) = {} => in = ""
  /\ \A c \in CompositesAround(m) : CompositesAround(m) = {c} /\ source[c].id = in
  /\ \A n \in 1 .. m - 1 : text[n] = OutLine(n) /\ ScannedLine(n, m)
  /\ LiftedAs(m, g, ds)

-----------------------------------------------------------------------------
(* One more line says one thing more.                                      *)
LEMMA SaysMore ==
  ASSUME NEW n \in Nat \ {0}, NEW ns, ns \subseteq 1 .. n - 1
  PROVE  /\ AsWritten(ns \cup {n}, BlockAsWritten) = Append(AsWritten(ns, BlockAsWritten), BlockAsWritten(n))
         /\ AsWritten(ns \cup {n}, SyncHeard) = Append(AsWritten(ns, SyncHeard), SyncHeard(n))
         /\ AsWritten(ns \cup {n}, ConstrainHeard) = Append(AsWritten(ns, ConstrainHeard), ConstrainHeard(n))
         /\ AsWritten(ns \cup {n}, VariableAt) = Append(AsWritten(ns, VariableAt), VariableAt(n))
<1> DEFINE more == ns \cup {n}
<1>1. IsFiniteSet(ns) /\ ns \subseteq Nat /\ \A m \in ns : m < n
  <2>1. n - 1 \in Nat /\ \A m \in 1 .. n - 1 : m < n
    OBVIOUS
  <2> QED BY <2>1, BoundedLines
<1>2. IsFiniteSet(more) /\ more \subseteq Nat
  <2>1. more \subseteq 1 .. n
    OBVIOUS
  <2> HIDE DEF more
  <2> QED BY <2>1, BoundedLines
<1>3. \A k \in 1 .. Cardinality(ns) : InOrder(ns)[k] \in more
  BY <1>1, Ordered
<1>4. n \in more
  OBVIOUS
<1>5. \A f : [k \in 1 .. Cardinality(more) |-> f[InOrder(more)[k]]] =
                Append([k \in 1 .. Cardinality(ns) |-> f[InOrder(ns)[k]]], f[n])
  BY <1>1, OneMore
<1> HIDE DEF more
<1>6. \A k \in 1 .. Cardinality(more) : InOrder(more)[k] \in more
  BY <1>2, Ordered
<1>7. AsWritten(more, BlockAsWritten) = Append(AsWritten(ns, BlockAsWritten), BlockAsWritten(n))
  <2> DEFINE f == [m \in more |-> BlockAsWritten(m)]
  <2>1. \A m \in more : f[m] = BlockAsWritten(m)
    OBVIOUS
  <2> HIDE DEF f
  <2>2. AsWritten(more, BlockAsWritten) = [k \in 1 .. Cardinality(more) |-> f[InOrder(more)[k]]]
    BY <2>1, <1>6 DEF AsWritten
  <2>3. AsWritten(ns, BlockAsWritten) = [k \in 1 .. Cardinality(ns) |-> f[InOrder(ns)[k]]]
    BY <2>1, <1>3 DEF AsWritten
  <2> QED BY <2>1, <2>2, <2>3, <1>4, <1>5
<1>8. AsWritten(more, SyncHeard) = Append(AsWritten(ns, SyncHeard), SyncHeard(n))
  <2> DEFINE f == [m \in more |-> SyncHeard(m)]
  <2>1. \A m \in more : f[m] = SyncHeard(m)
    OBVIOUS
  <2> HIDE DEF f
  <2>2. AsWritten(more, SyncHeard) = [k \in 1 .. Cardinality(more) |-> f[InOrder(more)[k]]]
    BY <2>1, <1>6 DEF AsWritten
  <2>3. AsWritten(ns, SyncHeard) = [k \in 1 .. Cardinality(ns) |-> f[InOrder(ns)[k]]]
    BY <2>1, <1>3 DEF AsWritten
  <2> QED BY <2>1, <2>2, <2>3, <1>4, <1>5
<1>9. AsWritten(more, ConstrainHeard) = Append(AsWritten(ns, ConstrainHeard), ConstrainHeard(n))
  <2> DEFINE f == [m \in more |-> ConstrainHeard(m)]
  <2>1. \A m \in more : f[m] = ConstrainHeard(m)
    OBVIOUS
  <2> HIDE DEF f
  <2>2. AsWritten(more, ConstrainHeard) = [k \in 1 .. Cardinality(more) |-> f[InOrder(more)[k]]]
    BY <2>1, <1>6 DEF AsWritten
  <2>3. AsWritten(ns, ConstrainHeard) = [k \in 1 .. Cardinality(ns) |-> f[InOrder(ns)[k]]]
    BY <2>1, <1>3 DEF AsWritten
  <2> QED BY <2>1, <2>2, <2>3, <1>4, <1>5
<1>10. AsWritten(more, VariableAt) = Append(AsWritten(ns, VariableAt), VariableAt(n))
  <2> DEFINE f == [m \in more |-> VariableAt(m)]
  <2>1. \A m \in more : f[m] = VariableAt(m)
    OBVIOUS
  <2> HIDE DEF f
  <2>2. AsWritten(more, VariableAt) = [k \in 1 .. Cardinality(more) |-> f[InOrder(more)[k]]]
    BY <2>1, <1>6 DEF AsWritten
  <2>3. AsWritten(ns, VariableAt) = [k \in 1 .. Cardinality(ns) |-> f[InOrder(ns)[k]]]
    BY <2>1, <1>3 DEF AsWritten
  <2> QED BY <2>1, <2>2, <2>3, <1>4, <1>5
<1> QED BY <1>7, <1>8, <1>9, <1>10 DEF more

LEMMA SaysNothing ==
  /\ AsWritten({}, BlockAsWritten) = << >> /\ AsWritten({}, SyncHeard) = << >>
  /\ AsWritten({}, ConstrainHeard) = << >> /\ AsWritten({}, VariableAt) = << >>
<1>1. 1 .. Cardinality({}) = {}
  BY FS_EmptySet
<1> QED BY <1>1, EmptyDomain DEF AsWritten

-----------------------------------------------------------------------------
(* What is lifted out of the lines from n up to m.                         *)
LEMMA NextDrawn ==
  ASSUME NEW n \in Nat \ {0}, NEW m \in Nat, n <= m, NEW kinds
  PROVE  DrawnBefore(m, kinds) = DrawnBefore(n, kinds) \cup {k \in n .. m - 1 : Drawn(k, kinds)}
<1>1. \A k : k \in 1 .. m - 1 <=> k \in 1 .. n - 1 \/ k \in n .. m - 1
  OBVIOUS
<1> QED BY <1>1 DEF DrawnBefore

LEMMA NextNoted ==
  ASSUME NEW n \in Nat \ {0}, NEW m \in Nat, n <= m, NEW kind
  PROVE  NotedBefore(m, kind) = NotedBefore(n, kind) \cup {k \in n .. m - 1 : Is(k, {kind}) /\ NotesAt(k) # {}}
<1>1. \A k : k \in 1 .. m - 1 <=> k \in 1 .. n - 1 \/ k \in n .. m - 1
  OBVIOUS
<1> QED BY <1>1 DEF NotedBefore

LEMMA NotedInNotes ==
  ASSUME input.tool = "promote", NEW n, NotesAt(n) # {} PROVE InNote(n)
<1>1. PICK k \in 1 .. n - 1 : Drawn(k, {"note"}) /\ \A j \in Between(k, n) : Is(j, {"blank"})
  BY DEF NotesAt
<1> QED BY <1>1 DEF InNote, Drawn, Is

(* The lines from n up to m hold no directive, and h and es come of them.  *)
LiftsBlocks(n, m, g, ds, h, es) ==
  /\ n \in Nat \ {0} /\ m \in Nat /\ n <= m
  /\ \A k \in n .. m - 1 : NotesAt(k) = {}
  /\ h.syncs = g.syncs /\ h.constrains = g.constrains
  /\ h.promotes = AsWritten(DrawnBefore(m, {"promote"}), BlockAsWritten)
  /\ es = ds \cup {Info("dropped", k) : k \in {k \in n .. m - 1 : Drawn(k, {"include"}) /\ OutsideBlocks(k)}}

LEMMA LiftedMore ==
  ASSUME NEW n, NEW g, NEW ds, LiftedAs(n, g, ds), NEW m, NEW h, NEW es, LiftsBlocks(n, m, g, ds, h, es)
  PROVE  LiftedAs(m, h, es)
<1>0. /\ n \in Nat \ {0} /\ m \in Nat /\ n <= m
      /\ \A k \in n .. m - 1 : NotesAt(k) = {}
      /\ h.syncs = g.syncs /\ h.constrains = g.constrains
      /\ h.promotes = AsWritten(DrawnBefore(m, {"promote"}), BlockAsWritten)
      /\ es = ds \cup {Info("dropped", k) : k \in {k \in n .. m - 1 : Drawn(k, {"include"}) /\ OutsideBlocks(k)}}
  BY DEF LiftsBlocks
<1>1. \A kind : NotedBefore(m, kind) = NotedBefore(n, kind)
  <2> SUFFICES ASSUME NEW kind PROVE NotedBefore(m, kind) = NotedBefore(n, kind)
    OBVIOUS
  <2>1. {k \in n .. m - 1 : Is(k, {kind}) /\ NotesAt(k) # {}} = {}
    BY <1>0
  <2>2. NotedBefore(m, kind) = NotedBefore(n, kind) \cup {k \in n .. m - 1 : Is(k, {kind}) /\ NotesAt(k) # {}}
    BY <1>0, NextNoted
  <2> QED BY <2>1, <2>2
<1>2. DrawnBefore(m, {"include"}) = DrawnBefore(n, {"include"}) \cup {k \in n .. m - 1 : Drawn(k, {"include"})}
  BY <1>0, NextDrawn
<1>3. Dropped(m) = Dropped(n) \cup {k \in n .. m - 1 : Drawn(k, {"include"}) /\ OutsideBlocks(k)}
  BY <1>2 DEF Dropped
<1> QED BY <1>0, <1>1, <1>3 DEF LiftedAs

(* Several lines more are scanned.                                         *)
Further(n, m, text, more, into) ==
  /\ m \in n .. Len(source) + 1 /\ Len(more) = m - 1
  /\ \A k \in 1 .. n - 1 : more[k] = text[k]
  /\ \A k \in n .. m - 1 : more[k] = OutLine(k) /\ ScannedLine(k, m)
  /\ \A c \in CompositesAround(n) : c \in CompositesAround(m) \/ Closed(c)
  /\ ~ InNote(m) /\ OutsideBlocks(m)
  /\ CompositesAround(m) = {} => into = ""
  /\ \A c \in CompositesAround(m) : CompositesAround(m) = {c} /\ source[c].id = into

LEMMA ScannedFurther ==
  ASSUME Len(source) \in Nat, NEW n, NEW text, NEW in, NEW g, NEW ds, ScannedAs(n, text, in, g, ds),
         NEW m, NEW more, NEW into, Further(n, m, text, more, into), NEW h, NEW es, LiftedAs(m, h, es)
  PROVE  ScannedAs(m, more, into, h, es)
<1>0. n \in 1 .. Len(source) + 1 /\ input.tool = "promote"
  BY DEF ScannedAs
<1>7. Len(source) \in Nat /\ m \in n .. Len(source) + 1
  BY DEF Further
<1>8. /\ Len(more) = m - 1 /\ ~ InNote(m) /\ OutsideBlocks(m) /\ (CompositesAround(m) = {} => into = "")
      /\ \A c \in CompositesAround(m) : CompositesAround(m) = {c} /\ source[c].id = into
      /\ \A c \in CompositesAround(n) : c \in CompositesAround(m) \/ Closed(c)
      /\ \A k \in 1 .. n - 1 : more[k] = text[k]
      /\ \A k \in n .. m - 1 : more[k] = OutLine(k) /\ ScannedLine(k, m)
  BY DEF Further
<1>1. n \in Nat \ {0} /\ \A k \in 1 .. m - 1 : k \in 1 .. n - 1 \/ k \in n .. m - 1
  BY ONLY <1>0, <1>7
<1>2. \A k \in 1 .. n - 1 : text[k] = OutLine(k) /\ ScannedLine(k, n)
  BY DEF ScannedAs
<1>3. ASSUME NEW k \in 1 .. n - 1 PROVE more[k] = OutLine(k) /\ ScannedLine(k, m)
  <2>1. more[k] = OutLine(k)
    BY <1>2, <1>8
  <2>2. k \in CompositesAround(n) \/ Closed(k) => k \in CompositesAround(m) \/ Closed(k)
    BY <1>8
  <2>3. ScannedLine(k, n)
    BY <1>2
  <2>4. ScannedLine(k, m)
    BY <2>2, <2>3, Zenon DEF ScannedLine
  <2> QED BY <2>1, <2>4
<1>4. \A k \in 1 .. m - 1 : more[k] = OutLine(k) /\ ScannedLine(k, m)
  BY <1>1, <1>3, <1>8
<1>5. m \in 1 .. Len(source) + 1 /\ input.tool = "promote"
  BY ONLY <1>0, <1>7
<1>6. LiftedAs(m, h, es)
  OBVIOUS
<1> QED BY ONLY <1>4, <1>5, <1>6, <1>8, Zenon DEF ScannedAs

-----------------------------------------------------------------------------
(* After finds the only line there is to be found.                         *)
LEMMA AfterIs ==
  ASSUME IsText(source), NEW n \in 1 .. Len(source) + 1, NEW kinds, NEW m \in n .. Len(source),
         \A k \in n .. m - 1 : source[k].kind \in kinds, source[m].kind \notin kinds
  PROVE  After(n, kinds) = m
<1> DEFINE a == After(n, kinds)
<1>1. /\ a \in n .. Len(source) + 1 /\ Len(source) \in Nat
      /\ \A k \in n .. a - 1 : source[k].kind \in kinds
      /\ a <= Len(source) => source[a].kind \notin kinds
  BY AfterFound, LinesAre
<1> HIDE DEF a
<1>2. ~ (a < m)
  <2>1. a < m => a \in n .. m - 1 /\ a <= Len(source)
    BY <1>1
  <2> QED BY <2>1, <1>1
<1>3. ~ (m < a)
  <2>1. m < a => m \in n .. a - 1
    BY <1>1
  <2> QED BY <2>1, <1>1
<1>4. a = m
  BY <1>1, <1>2, <1>3
<1> QED BY <1>4 DEF a

(* The block at n, up to its brace.                                        *)
LEMMA BlockLines ==
  ASSUME IsText(source), NEW n \in DOMAIN source, Drawn(n, {"promote"}), source[n].body, Laid(n)
  PROVE  /\ CloseOf(n) \in n + 1 .. Len(source) /\ BodyOf(n) \in n + 1 .. CloseOf(n) - 1
         /\ \A k \in n + 1 .. CloseOf(n) : InBlock(k, n) /\ ~ InNote(k) /\ Is(k, {"blank", "include", "close"})
         /\ ~ InNote(CloseOf(n) + 1) /\ OutsideBlocks(CloseOf(n) + 1)
         /\ {j \in DOMAIN source : Is(j, {"include"}) /\ InBlock(j, n)} = {BodyOf(n)}
<1>1. n \in Nat \ {0} /\ Len(source) \in Nat /\ DOMAIN source = 1 .. Len(source) /\ n \in 1 .. Len(source)
  BY LinesAre, TextOfLines
<1>2. /\ BodyOf(n) \in n + 1 .. Len(source) /\ CloseOf(n) \in BodyOf(n) + 1 .. Len(source)
      /\ CloseOf(n) \in Nat /\ CloseOf(n) > n
      /\ IsKind(BodyOf(n), "include") /\ IsKind(CloseOf(n), "close")
      /\ \A k \in n + 1 .. CloseOf(n) - 1 : k = BodyOf(n) \/ source[k].kind = "blank"
  BY LaidLines
<1> DEFINE b == BodyOf(n)
           e == CloseOf(n)
<1> HIDE DEF b, e
<1>3. /\ b \in Nat /\ b \in n + 1 .. e - 1 /\ e \in n + 1 .. Len(source) /\ e \in Nat \ {0}
      /\ Is(b, {"include"}) /\ Is(e, {"close"})
  BY <1>1, <1>2 DEF b, e, Is, IsKind
<1>4. ASSUME NEW k \in n + 1 .. e - 1 PROVE k = b \/ Is(k, {"blank"})
  <2>1. k \in DOMAIN source
    BY <1>1, <1>3
  <2> QED BY <2>1, <1>2 DEF b, e, Is
<1>5. \A k \in n + 1 .. e - 1 : Is(k, {"blank", "include"})
  BY <1>3, <1>4 DEF Is
<1>6. ASSUME NEW k \in n + 1 .. e PROVE InBlock(k, n)
  <2>1. n < k /\ \A j \in n + 1 .. k - 1 : j \in n + 1 .. e - 1
    BY <1>1, <1>3
  <2> QED BY <2>1, <1>5 DEF InBlock, Between
<1>7. ~ InNote(n) /\ ~ Is(n, {"note"}) /\ Is(n, {"promote"})
  BY DEF Drawn, Is
<1>8. \A k \in n + 1 .. e : Is(k, {"blank", "include", "close"})
  <2>1. \A k \in n + 1 .. e : k \in n + 1 .. e - 1 \/ k = e
    BY <1>3
  <2> QED BY <2>1, <1>3, <1>5 DEF Is
<1>9. \A k \in n .. e : ~ Is(k, {"note"})
  <2>1. \A k \in n .. e : k \in n + 1 .. e \/ k = n
    BY <1>1, <1>3
  <2> QED BY <2>1, <1>7, <1>8 DEF Is
<1>10. ASSUME NEW k \in n + 1 .. e + 1 PROVE ~ InNote(k)
  <2>1. n <= k /\ k \in Nat /\ \A j \in n .. k - 1 : j \in n .. e
    BY <1>1, <1>3
  <2> QED BY <2>1, <1>1, <1>7, <1>9, OutsideNotes
<1>11. OutsideBlocks(e + 1)
  <2>1. ~ Drawn(e, {"promote"}) /\ ~ Is(e, {"blank", "include"})
    BY <1>3 DEF Drawn, Is
  <2> QED BY <2>1, <1>3, NextOutsideBlocks
<1>12. ASSUME NEW j \in DOMAIN source, Is(j, {"include"}), InBlock(j, n) PROVE j = b
  <2>1. n < j /\ \A i \in n + 1 .. j - 1 : Is(i, {"blank", "include"})
    BY <1>12 DEF InBlock, Between
  <2>2. e \notin n + 1 .. j - 1 /\ j # e
    BY <1>3, <1>12, <2>1 DEF Is
  <2>3. j \in n + 1 .. e - 1
    BY <1>1, <1>3, <2>1, <2>2
  <2>4. ~ Is(j, {"blank"})
    BY <1>12 DEF Is
  <2> QED BY <2>3, <2>4, <1>4
<1>13. b \in DOMAIN source /\ InBlock(b, n)
  <2>1. b \in n + 1 .. e
    BY <1>1, <1>3
  <2> QED BY <2>1, <1>3, <1>6 DEF Is
<1>14. {j \in DOMAIN source : Is(j, {"include"}) /\ InBlock(j, n)} = {b}
  BY <1>3, <1>12, <1>13
<1>15. e + 1 \in n + 1 .. e + 1 /\ \A k \in n + 1 .. e : k \in n + 1 .. e + 1
  BY <1>1, <1>3
<1> QED BY <1>3, <1>6, <1>8, <1>10, <1>11, <1>14, <1>15 DEF b, e

(* The block is laid out as it has to be exactly if the scanner reads it.  *)
LEMMA LaidIsLegible ==
  ASSUME IsText(source), NEW n \in DOMAIN source
  PROVE  BlockLegible(n) <=> source[n].titled /\ (source[n].body => Laid(n))
<1>1. n \in Nat \ {0} /\ Len(source) \in Nat /\ DOMAIN source = 1 .. Len(source) /\ n \in 1 .. Len(source)
  BY LinesAre, TextOfLines
<1>2. ASSUME Laid(n)
      PROVE  \E i, c \in DOMAIN source : /\ n < i /\ i < c /\ Is(i, {"include"}) /\ Is(c, {"close"})
                                         /\ \A j \in Between(n, c) \ {i} : Is(j, {"blank"})
  <2>1. /\ BodyOf(n) \in n + 1 .. Len(source) /\ CloseOf(n) \in BodyOf(n) + 1 .. Len(source)
        /\ CloseOf(n) \in Nat /\ CloseOf(n) > n
        /\ IsKind(BodyOf(n), "include") /\ IsKind(CloseOf(n), "close")
        /\ \A k \in n + 1 .. CloseOf(n) - 1 : k = BodyOf(n) \/ source[k].kind = "blank"
    BY <1>2, LaidLines
  <2> DEFINE b == BodyOf(n)
             e == CloseOf(n)
  <2> HIDE DEF b, e
  <2>2. b \in DOMAIN source /\ e \in DOMAIN source /\ n < b /\ b < e /\ Is(b, {"include"}) /\ Is(e, {"close"})
    BY <2>1, <1>1 DEF b, e, Is, IsKind
  <2>3. ASSUME NEW j \in n + 1 .. e - 1, j # b PROVE Is(j, {"blank"})
    <3>1. j \in DOMAIN source
      BY <1>1, <2>2
    <3> QED BY <3>1, <2>1, <2>3 DEF b, e, Is
  <2> QED BY <2>2, <2>3 DEF Between
<1>3. ASSUME NEW i \in DOMAIN source, NEW c \in DOMAIN source,
             n < i, i < c, Is(i, {"include"}), Is(c, {"close"}),
             \A j \in Between(n, c) \ {i} : Is(j, {"blank"})
      PROVE  Laid(n)
  <2>1. /\ n + 1 \in 1 .. Len(source) + 1 /\ i \in n + 1 .. Len(source)
        /\ i + 1 \in 1 .. Len(source) + 1 /\ c \in i + 1 .. Len(source)
    BY <1>1, <1>3
  <2>2. ASSUME NEW j \in n + 1 .. c - 1, j # i PROVE source[j].kind \in {"blank"}
    BY <1>3, <2>2 DEF Between, Is
  <2>3. \A j \in n + 1 .. i - 1 : source[j].kind \in {"blank"}
    BY <1>1, <1>3, <2>2
  <2>4. \A j \in i + 1 .. c - 1 : source[j].kind \in {"blank"}
    BY <1>1, <1>3, <2>2
  <2>5. source[i].kind \notin {"blank"} /\ source[c].kind \notin {"blank"}
    BY <1>3 DEF Is
  <2>6. BodyOf(n) = i
    BY <2>1, <2>3, <2>5, AfterIs DEF BodyOf
  <2>7. CloseOf(n) = c
    BY <2>1, <2>4, <2>5, <2>6, AfterIs DEF CloseOf
  <2> QED BY <2>6, <2>7, <1>3 DEF Laid, IsKind, Is
<1> QED BY <1>2, <1>3, Zenon DEF BlockLegible

(* The scanner sees a block where it was written.                          *)
LEMMA BlockSeen ==
  ASSUME IsText(source), NEW n \in DOMAIN source, Drawn(n, {"promote"}), source[n].body => Laid(n), NEW in,
         CompositesAround(n) = {} => in = "",
         \A c \in CompositesAround(n) : CompositesAround(n) = {c} /\ source[c].id = in
  PROVE  BlockAt(n, in) = BlockAsWritten(n)
<1>1. n \in Nat /\ DOMAIN source = 1 .. Len(source) /\ Len(source) \in Nat
  BY LinesAre, TextOfLines
<1> DEFINE around   == CompositesAround(n)
           includes == {j \in DOMAIN source : Is(j, {"include"}) /\ InBlock(j, n)}
<1>2. (IF in = "" THEN None ELSE in) = IF around = {} THEN None ELSE source[Max(around)].id
  <2>1. CASE around = {}
    BY <2>1
  <2>2. CASE around # {}
    <3>1. PICK c \in around : TRUE
      BY <2>2
    <3>2. around = {c} /\ source[c].id = in
      BY <3>1
    <3>3. c \in 1 .. n - 1 /\ Drawn(c, {"composite"})
      BY <3>1 DEF CompositesAround
    <3>7. c \in Nat
      BY ONLY <3>3, <1>1
    <3>4. Max({c}) = c
      BY <3>7, LargestOfOne
    <3>5. c \in DOMAIN source /\ source[c].kind = "composite"
      BY <3>3 DEF Drawn, Is
    <3>6. in # ""
      BY <3>2, <3>5, TextOfLines DEF IsLine
    <3> QED BY <2>2, <3>2, <3>4, <3>6
  <2> QED BY <2>1, <2>2
<1>3. (IF source[n].body THEN source[BodyOf(n)].path ELSE None) = IF includes = {} THEN None ELSE source[Max(includes)].path
  <2>1. CASE source[n].body
    <3>1. includes = {BodyOf(n)} /\ BodyOf(n) \in n + 1 .. CloseOf(n) - 1
      BY <2>1, BlockLines
    <3>2. CloseOf(n) \in n + 1 .. Len(source)
      BY <2>1, BlockLines
    <3>5. CloseOf(n) \in Nat
      BY ONLY <3>2, <1>1
    <3>6. BodyOf(n) \in n + 1 .. CloseOf(n) - 1
      BY <3>1
    <3>3. BodyOf(n) \in Nat
      BY ONLY <3>5, <3>6, <1>1
    <3>4. Max({BodyOf(n)}) = BodyOf(n)
      BY <3>3, LargestOfOne
    <3> HIDE DEF includes
    <3> QED BY <2>1, <3>1, <3>4
  <2>2. CASE ~ source[n].body
    <3>1. includes = {}
      BY <2>2 DEF InBlock
    <3> QED BY <2>2, <3>1
  <2> QED BY <2>1, <2>2
<1> DEFINE place == IF around = {} THEN None ELSE source[Max(around)].id
           file  == IF includes = {} THEN None ELSE source[Max(includes)].path
<1>4. BlockAsWritten(n) =
        [map |-> source[n].map, idParam |-> source[n].idParam, type |-> source[n].type, alias |-> source[n].alias, line |-> n,
         in |-> place, path |-> file]
  BY Zenon DEF BlockAsWritten
<1> HIDE DEF around, includes
<1>5. BlockAt(n, in) =
        [map |-> source[n].map, idParam |-> source[n].idParam, type |-> source[n].type, alias |-> source[n].alias,
         path |-> file, in |-> place, line |-> n]
  <2> HIDE DEF place, file
  <2>1. (IF in = "" THEN None ELSE in) = place /\ (IF source[n].body THEN source[BodyOf(n)].path ELSE None) = file
    BY <1>2, <1>3 DEF place, file
  <2> QED BY <2>1, Zenon DEF BlockAt
<1> HIDE DEF place, file
<1> QED BY <1>4, <1>5

(* The note at n is heard at its first line that is not empty, and only    *)
(* there.                                                                  *)
LEMMA NoteLines ==
  ASSUME IsText(source), input.tool = "promote", NEW n \in DOMAIN source, Drawn(n, {"note"}), Terminated(n)
  PROVE  LET first == After(n + 1, {"blank"})
         IN  /\ first \in n + 1 .. EndOfNote(n) /\ ~ Is(first, {"blank"})
             /\ \A j \in Between(n, first) : Is(j, {"blank"})
             /\ \A k \in n + 1 .. EndOfNote(n) : n \in NotesAt(k) <=> \A j \in Between(n, k) : Is(j, {"blank"})
             /\ NotesAt(first) = {n}
             /\ \A k \in n + 1 .. EndOfNote(n) : ~ Is(k, {"blank"}) /\ k # first => NotesAt(k) = {}
<1> DEFINE first == After(n + 1, {"blank"})
           e == EndOfNote(n)
<1>1. n \in Nat \ {0} /\ Len(source) \in Nat /\ DOMAIN source = 1 .. Len(source) /\ n \in 1 .. Len(source)
  BY LinesAre, TextOfLines
<1>2. Is(n, {"note"})
  BY DEF Drawn
<1>3. /\ e \in n + 1 .. Len(source) /\ Is(e, {"endnote"}) /\ \A k \in n + 1 .. e : InNote(k)
  BY <1>2, InsideNote
<1>4. /\ first \in n + 1 .. Len(source) + 1
      /\ \A k \in n + 1 .. first - 1 : source[k].kind \in {"blank"}
      /\ first <= Len(source) => source[first].kind \notin {"blank"}
  BY <1>1, AfterFound
<1> HIDE DEF first, e
<1>5. first \in n + 1 .. e
  <2>1. source[e].kind \notin {"blank"}
    BY <1>3 DEF Is
  <2>2. e \notin n + 1 .. first - 1
    BY <2>1, <1>4
  <2> QED BY <2>2, <1>1, <1>3, <1>4
<1>6. ~ Is(first, {"blank"})
  BY <1>1, <1>3, <1>4, <1>5 DEF Is
<1>7. \A j \in n + 1 .. first - 1 : Is(j, {"blank"})
  BY <1>1, <1>3, <1>4, <1>5 DEF Is
<1>8. ASSUME NEW k \in n + 1 .. e PROVE n \in NotesAt(k) <=> \A j \in Between(n, k) : Is(j, {"blank"})
  <2>1. n \in 1 .. k - 1
    BY <1>1, <1>3
  <2> QED BY <2>1 DEF NotesAt
<1>9. ASSUME NEW k \in n + 1 .. e, NEW q \in NotesAt(k) PROVE q = n
  <2>1. q \in 1 .. k - 1 /\ Drawn(q, {"note"}) /\ \A j \in q + 1 .. k - 1 : Is(j, {"blank"})
    BY DEF NotesAt, Between
  <2>2. ~ InNote(q)
    BY <2>1 DEF Drawn
  <2>3. q \notin n + 1 .. e
    BY <2>2, <1>3
  <2>4. ~ Is(n, {"blank"})
    BY <1>2 DEF Is
  <2>5. n \notin q + 1 .. k - 1
    BY <2>1, <2>4
  <2> QED BY <2>1, <2>3, <2>5, <1>1, <1>3
<1>10. n \in NotesAt(first)
  BY <1>5, <1>7, <1>8 DEF Between
<1>11. NotesAt(first) = {n}
  BY <1>5, <1>9, <1>10
<1>12. ASSUME NEW k \in n + 1 .. e, ~ Is(k, {"blank"}), k # first PROVE NotesAt(k) = {}
  <2> SUFFICES ASSUME n \in NotesAt(k) PROVE FALSE
    BY <1>9
  <2>1. \A j \in n + 1 .. k - 1 : Is(j, {"blank"})
    BY <1>8 DEF Between
  <2>2. first \notin n + 1 .. k - 1
    BY <2>1, <1>6
  <2>3. k \notin n + 1 .. first - 1
    BY <1>7, <1>12
  <2> QED BY <2>2, <2>3, <1>1, <1>3, <1>5, <1>12
<1> QED BY <1>5, <1>6, <1>7, <1>8, <1>11, <1>12 DEF first, e, Between

-----------------------------------------------------------------------------
(* The scanner knows by its parent whether it is in a composite state.     *)
LEMMA ParentIsAround ==
  ASSUME IsText(source), NEW n, NEW text, NEW in, NEW g, NEW ds, ScannedAs(n, text, in, g, ds)
  PROVE  CompositesAround(n) = {} <=> in = ""
<1> SUFFICES ASSUME NEW c \in CompositesAround(n) PROVE in # ""
  BY DEF ScannedAs
<1>1. source[c].id = in
  BY DEF ScannedAs
<1>2. c \in DOMAIN source /\ source[c].kind = "composite"
  BY DEF CompositesAround, Drawn, Is
<1> QED BY <1>1, <1>2, TextOfLines DEF IsLine

(* A line that is neither a note nor a block is scanned.                   *)
LEMMA LineScanned ==
  ASSUME IsText(source), NEW n \in DOMAIN source, NEW text, NEW in, NEW g, NEW ds, ScannedAs(n, text, in, g, ds),
         ~ Is(n, {"note", "promote"}), Is(n, {"composite"}) => in = "",
         NEW more, Len(more) = n, \A k \in 1 .. n - 1 : more[k] = text[k], more[n] = OutLine(n),
         NEW into, into = IF Is(n, {"composite"}) THEN source[n].id ELSE IF Leaves(n) THEN "" ELSE in,
         NEW es, es = IF Is(n, {"include"}) THEN ds \cup {Info("dropped", n)} ELSE ds
  PROVE  ScannedAs(n + 1, more, into, g, es)
<1>1. n \in Nat \ {0} /\ Len(source) \in Nat /\ DOMAIN source = 1 .. Len(source) /\ n \in 1 .. Len(source)
  BY LinesAre, TextOfLines
<1>2. /\ input.tool = "promote" /\ ~ InNote(n) /\ OutsideBlocks(n)
      /\ \A c \in CompositesAround(n) : CompositesAround(n) = {c} /\ source[c].id = in
      /\ CompositesAround(n) = {} <=> in = ""
      /\ LiftedAs(n, g, ds)
  BY ParentIsAround DEF ScannedAs
<1>3. \A kinds : Drawn(n, kinds) <=> Is(n, kinds)
  BY <1>2 DEF Drawn
<1>4. ~ InNote(n + 1)
  <2>1. ~ Is(n, {"note"})
    BY DEF Is
  <2> QED BY <1>1, <1>2, <2>1, NextInNote
<1>5. OutsideBlocks(n + 1)
  <2>1. ~ Drawn(n, {"promote"})
    BY DEF Drawn, Is
  <2> QED BY <1>1, <1>2, <2>1, NextOutsideBlocks
<1>6. /\ Is(n, {"composite"}) => CompositesAround(n + 1) = {n}
      /\ Leaves(n) => CompositesAround(n + 1) = {}
      /\ ~ Is(n, {"composite"}) /\ ~ Leaves(n) => CompositesAround(n + 1) = CompositesAround(n)
  <2>1. Is(n, {"composite"}) => CompositesAround(n + 1) = {n}
    BY <1>1, <1>2, <1>3, NextAround
  <2>2. Leaves(n) => CompositesAround(n + 1) = {}
    BY <1>1, NextAround
  <2>3. ASSUME ~ Is(n, {"composite"}), ~ Leaves(n) PROVE CompositesAround(n + 1) = CompositesAround(n)
    <3>1. n + 1 \in Nat /\ n <= n + 1
      BY ONLY <1>1
    <3>2. \A k \in n .. n + 1 - 1 : k = n
      BY ONLY <1>1
    <3>3. ~ Drawn(n, {"composite"})
      BY <1>3, <2>3
    <3>4. \A k \in n .. n + 1 - 1 : ~ Drawn(k, {"composite"}) /\ ~ Leaves(k)
      BY ONLY <3>2, <3>3, <2>3
    <3> QED BY ONLY <1>1, <3>1, <3>4, SameAround, IsText(source)
  <2> QED BY <2>1, <2>2, <2>3
<1>7. Leaves(n) => ~ Is(n, {"composite"})
  BY DEF Leaves, Drawn, Is
<1>8. Is(n, {"composite"}) => source[n].id # ""
  BY TextOfLines DEF IsLine, Is
<1>9. /\ CompositesAround(n + 1) = {} => into = ""
      /\ \A c \in CompositesAround(n + 1) : CompositesAround(n + 1) = {c} /\ source[c].id = into
  <2>1. CASE Is(n, {"composite"})
    BY <2>1, <1>6
  <2>2. CASE Leaves(n)
    BY <2>2, <1>6, <1>7
  <2>3. CASE ~ Is(n, {"composite"}) /\ ~ Leaves(n)
    BY <2>3, <1>2, <1>6
  <2> QED BY <2>1, <2>2, <2>3
<1>10. \A c \in CompositesAround(n) : c \in CompositesAround(n + 1) \/ Closed(c)
  <2>1. CASE Is(n, {"composite"})
    BY <2>1, <1>2
  <2>2. CASE Leaves(n)
    BY <2>2 DEF Closed
  <2>3. CASE ~ Is(n, {"composite"}) /\ ~ Leaves(n)
    BY <2>3, <1>6
  <2> QED BY <2>1, <2>2, <2>3
<1>11. ScannedLine(n, n + 1)
  <2>1. ~ Drawn(n, {"promote"}) /\ ~ Drawn(n, {"note"})
    BY DEF Drawn, Is
  <2>2. Drawn(n, {"composite"}) => CompositesAround(n) = {} /\ n \in CompositesAround(n + 1)
    BY <1>2, <1>3, <1>6
  <2> QED BY <2>1, <2>2 DEF ScannedLine
<1>12. LiftedAs(n + 1, g, es)
  <2>1. n + 1 \in Nat /\ n <= n + 1 /\ \A k : k \in n .. n + 1 - 1 <=> k = n
    BY ONLY <1>1
  <2>2. \A k \in n .. n + 1 - 1 : NotesAt(k) = {}
    BY <2>1, <1>2, NotedInNotes
  <2>3. DrawnBefore(n + 1, {"promote"}) = DrawnBefore(n, {"promote"})
    <3> DEFINE kinds == {"promote"}
    <3>1. ~ Drawn(n, kinds)
      BY DEF Drawn, Is
    <3> HIDE DEF kinds
    <3>2. DrawnBefore(n + 1, kinds) = DrawnBefore(n, kinds) \cup {k \in n .. n + 1 - 1 : Drawn(k, kinds)}
      BY ONLY <1>1, <2>1, NextDrawn
    <3>3. {k \in n .. n + 1 - 1 : Drawn(k, kinds)} = {}
      BY <2>1, <3>1
    <3>4. DrawnBefore(n + 1, kinds) = DrawnBefore(n, kinds)
      BY <3>2, <3>3
    <3> QED BY <3>4 DEF kinds
  <2>4. g.promotes = AsWritten(DrawnBefore(n + 1, {"promote"}), BlockAsWritten)
    <3>1. g.promotes = AsWritten(DrawnBefore(n, {"promote"}), BlockAsWritten)
      BY <1>2 DEF LiftedAs
    <3> QED BY <2>3, <3>1
  <2>5. es = ds \cup {Info("dropped", k) : k \in {k \in n .. n + 1 - 1 : Drawn(k, {"include"}) /\ OutsideBlocks(k)}}
    <3>1. CASE Is(n, {"include"})
      <4>1. {k \in n .. n + 1 - 1 : Drawn(k, {"include"}) /\ OutsideBlocks(k)} = {n}
        BY <2>1, <3>1, <1>2, <1>3
      <4> QED BY <3>1, <4>1
    <3>2. CASE ~ Is(n, {"include"})
      <4>1. {k \in n .. n + 1 - 1 : Drawn(k, {"include"}) /\ OutsideBlocks(k)} = {}
        BY <2>1, <3>2, <1>3
      <4> QED BY <3>2, <4>1
    <3> QED BY <3>1, <3>2
  <2>6. g.syncs = g.syncs /\ g.constrains = g.constrains
    OBVIOUS
  <2>7. LiftsBlocks(n, n + 1, g, ds, g, es)
    BY ONLY <1>1, <2>1, <2>2, <2>4, <2>5, <2>6 DEF LiftsBlocks
  <2> QED BY <1>2, <2>7, LiftedMore
<1>13. n + 1 \in n .. Len(source) + 1 /\ Len(more) = n + 1 - 1
  BY ONLY <1>1, Len(more) = n
<1>16. \A k \in 1 .. n - 1 : more[k] = text[k]
  OBVIOUS
<1>17. PICK m : m = n + 1
  OBVIOUS
<1>18. Further(n, m, text, more, into)
  <2>1. m \in n .. Len(source) + 1 /\ Len(more) = m - 1
    BY ONLY <1>13, <1>17
  <2>2. \A k \in n .. m - 1 : more[k] = OutLine(k) /\ ScannedLine(k, m)
    <3>1. \A k \in n .. m - 1 : k = n
      BY ONLY <1>1, <1>17
    <3>2. more[n] = OutLine(n) /\ ScannedLine(n, m)
      BY ONLY <1>11, <1>17, more[n] = OutLine(n)
    <3> QED BY ONLY <3>1, <3>2
  <2>3. \A c \in CompositesAround(n) : c \in CompositesAround(m) \/ Closed(c)
    BY ONLY <1>10, <1>17
  <2>4. ~ InNote(m) /\ OutsideBlocks(m)
    BY ONLY <1>4, <1>5, <1>17
  <2>5. /\ CompositesAround(m) = {} => into = ""
        /\ \A c \in CompositesAround(m) : CompositesAround(m) = {c} /\ source[c].id = into
    BY ONLY <1>9, <1>17
  <2> QED BY ONLY <1>16, <2>1, <2>2, <2>3, <2>4, <2>5, Zenon DEF Further
<1> QED BY <1>1, <1>12, <1>17, <1>18, ScannedFurther

Scanned == ScannedAs(at, out, parent, global, diags)
ScannedNext == ScannedAs(at', out', parent', global', diags')

(* A line that is added to what is left of the text.                       *)
LEMMA LineAdded ==
  ASSUME IsText(out), NEW l, IsLine(l), out' = Append(out, l)
  PROVE  Len(out') = Len(out) + 1 /\ out'[Len(out) + 1] = l /\ \A k \in 1 .. Len(out) : out'[k] = out[k]
<1>1. Len(out) \in Nat /\ out \in Seq(ToSet(out) \cup {l})
  BY Sequential DEF IsText, IsSequence
<1> QED BY <1>1

LEMMA LineBlanked ==
  ASSUME IsText(out), blank(1)
  PROVE  Len(out') = Len(out) + 1 /\ out'[Len(out) + 1] = Blank /\ \A k \in 1 .. Len(out) : out'[k] = out[k]
<1>1. /\ Len(out') = Len(out) + 1 /\ \A k \in 1 .. Len(out) : out'[k] = out[k]
      /\ \A k \in Len(out) + 1 .. Len(out) + 1 : out'[k] = Blank
  BY BlankedText DEF blank
<1>2. Len(out) \in Nat
  BY Sequential DEF IsText
<1> QED BY <1>1, <1>2

(* What is said of a single line makes the step of the scanner.            *)
LEMMA LinesScanned ==
  ASSUME TextsInv, Scanned, readComposite \/ CloseComposite \/ readPreprocessor \/ CopyLine, ~ Fail
  PROVE  ScannedNext
<1>1. IsText(source) /\ IsText(out)
  BY DEF TextsInv
<1>2. /\ at \in DOMAIN source /\ UNCHANGED global /\ at' = at + 1
      /\ source[at].kind \notin {"note", "promote"}
  BY DEF readComposite, CloseComposite, readPreprocessor, CopyLine, Scanning, ScannedTo, Lifted, scanVars
<1>3. at \in Nat \ {0} /\ Len(source) \in Nat /\ DOMAIN source = 1 .. Len(source) /\ IsLine(source[at])
  BY <1>1, <1>2, LinesAre, TextOfLines
<1>4. /\ ~ InNote(at) /\ OutsideBlocks(at) /\ (CompositesAround(at) = {} <=> parent = "") /\ Len(out) = at - 1
  BY <1>1, ParentIsAround DEF Scanned, ScannedAs
<1>20. Len(out) = at - 1 /\ at \in Nat
  BY ONLY <1>3, <1>4, Zenon
<1>21. Len(out) + 1 = at
  BY ONLY <1>20
<1>5. \A kinds : Is(at, kinds) <=> source[at].kind \in kinds
  BY <1>2 DEF Is
<1>6. \A kinds : Drawn(at, kinds) <=> source[at].kind \in kinds
  BY <1>4, <1>5 DEF Drawn
<1>7. Leaves(at) <=> source[at].kind = "close"
  BY <1>4, <1>6 DEF Leaves
<1>8. Hidden(at) <=> \/ source[at].kind \in Lifted \ {"composite"}
                     \/ source[at].kind = "close" /\ parent # ""
  BY <1>4, <1>6 DEF Hidden
<1>9. OutLine(at) = IF Hidden(at) THEN Blank
                    ELSE IF source[at].kind = "composite" THEN Flattened(source[at]) ELSE source[at]
  BY <1>5 DEF OutLine
<1>10. ASSUME NEW l, IsLine(l), out' = Append(out, l), l = OutLine(at)
       PROVE  Len(out') = at /\ out'[at] = OutLine(at) /\ \A k \in 1 .. at - 1 : out'[k] = out[k]
  <2>1. Len(out') = Len(out) + 1 /\ out'[Len(out) + 1] = l /\ \A k \in 1 .. Len(out) : out'[k] = out[k]
    BY <1>1, <1>10, LineAdded
  <2>3. Len(out') = at /\ out'[at] = l /\ \A k \in 1 .. at - 1 : out'[k] = out[k]
    BY ONLY <1>20, <1>21, <2>1
  <2> QED BY ONLY <1>10, <2>3
<1>11. ASSUME blank(1), Hidden(at)
       PROVE  Len(out') = at /\ out'[at] = OutLine(at) /\ \A k \in 1 .. at - 1 : out'[k] = out[k]
  <2>1. Len(out') = Len(out) + 1 /\ out'[Len(out) + 1] = Blank /\ \A k \in 1 .. Len(out) : out'[k] = out[k]
    BY <1>1, <1>11, LineBlanked
  <2>3. Len(out') = at /\ out'[at] = Blank /\ \A k \in 1 .. at - 1 : out'[k] = out[k]
    BY ONLY <1>20, <1>21, <2>1
  <2>4. OutLine(at) = Blank
    BY <1>9, <1>11
  <2> QED BY ONLY <2>3, <2>4
<1>12. /\ Len(out') = at /\ out'[at] = OutLine(at) /\ \A k \in 1 .. at - 1 : out'[k] = out[k]
       /\ parent' = IF source[at].kind = "composite" THEN source[at].id
                    ELSE IF source[at].kind = "close" THEN "" ELSE parent
       /\ diags' = IF source[at].kind = "include" THEN diags \cup {Info("dropped", at)} ELSE diags
       /\ source[at].kind = "composite" => parent = ""
  <2>1. CASE readComposite
    <3>1. /\ source[at].kind = "composite" /\ parent = "" /\ parent' = source[at].id /\ diags' = diags
          /\ out' = Append(out, Flattened(source[at]))
      BY <2>1 DEF readComposite, Scanning
    <3>2. IsLine(Flattened(source[at]))
      BY <1>3, <3>1 DEF IsLine, Flattened
    <3>3. ~ Hidden(at)
      BY <1>8, <3>1
    <3>4. Flattened(source[at]) = OutLine(at)
      BY <1>9, <3>1, <3>3
    <3> QED BY <1>10, <3>1, <3>2, <3>4
  <2>2. CASE CloseComposite
    <3>1. source[at].kind = "close" /\ parent # "" /\ parent' = "" /\ diags' = diags /\ blank(1)
      BY <2>2 DEF CloseComposite, Scanning
    <3> QED BY <1>8, <1>11, <3>1
  <2>3. CASE readPreprocessor
    <3>1. /\ source[at].kind \in {"include", "macro"} /\ parent' = parent /\ blank(1)
          /\ diags' = IF source[at].kind = "include" THEN diags \cup {Info("dropped", at)} ELSE diags
      BY <1>2, <2>3 DEF readPreprocessor, Scanning, IsKind
    <3>2. Hidden(at)
      BY <1>8, <3>1 DEF Lifted
    <3> QED BY <1>11, <3>1, <3>2
  <2>4. CASE CopyLine
    <3>1. /\ source[at].kind \notin Lifted /\ ~ (source[at].kind = "close" /\ parent # "")
          /\ out' = Append(out, source[at]) /\ UNCHANGED <<parent, diags>>
      BY <2>4 DEF CopyLine, scanVars
    <3>2. ~ Hidden(at) /\ source[at].kind \notin {"composite", "include"}
      BY <1>8, <3>1 DEF Lifted
    <3>3. source[at] = OutLine(at)
      BY <1>9, <3>2
    <3>4. Len(out') = at /\ out'[at] = OutLine(at) /\ \A k \in 1 .. at - 1 : out'[k] = out[k]
      BY <1>3, <1>10, <3>1, <3>3
    <3> QED BY <3>1, <3>2, <3>4
  <2> QED BY <2>1, <2>2, <2>3, <2>4
<1>13. ScannedAs(at + 1, out', parent', global, diags')
  <2>1. ~ Is(at, {"note", "promote"}) /\ (Is(at, {"composite"}) => parent = "")
    BY <1>2, <1>5, <1>12
  <2>2. parent' = IF Is(at, {"composite"}) THEN source[at].id ELSE IF Leaves(at) THEN "" ELSE parent
    BY <1>5, <1>7, <1>12
  <2>3. diags' = IF Is(at, {"include"}) THEN diags \cup {Info("dropped", at)} ELSE diags
    BY <1>5, <1>12
  <2> QED BY <1>1, <1>2, <1>12, <2>1, <2>2, <2>3, LineScanned DEF Scanned
<1> QED BY <1>2, <1>13 DEF ScannedNext

-----------------------------------------------------------------------------
(* The lines of the block at n, up to e.                                   *)
EndOfBlock(n) == IF source[n].body THEN CloseOf(n) ELSE n

LEMMA LinesOfBlock ==
  ASSUME IsText(source), NEW n \in DOMAIN source, Drawn(n, {"promote"}), OutsideBlocks(n), BlockLegible(n)
  PROVE  /\ EndOfBlock(n) \in n .. Len(source) /\ EndOfBlock(n) \in Nat
         /\ \A k \in n + 1 .. EndOfBlock(n) : ~ OutsideBlocks(k) /\ ~ Is(k, {"promote", "composite", "note"})
         /\ \A k \in n .. EndOfBlock(n) : ~ InNote(k) /\ Hidden(k)
         /\ ~ InNote(EndOfBlock(n) + 1) /\ OutsideBlocks(EndOfBlock(n) + 1)
<1> DEFINE e == EndOfBlock(n)
<1>1. n \in Nat \ {0} /\ Len(source) \in Nat /\ DOMAIN source = 1 .. Len(source) /\ n \in 1 .. Len(source)
  BY LinesAre, TextOfLines
<1>2. Is(n, {"promote"}) /\ ~ InNote(n) /\ ~ Is(n, {"note", "blank", "include"}) /\ ~ Is(n, {"note"}) /\ Hidden(n)
  BY DEF Drawn, Is, Hidden, Lifted
<1>3. CASE source[n].body
  <2>1. Laid(n)
    BY <1>3, LaidIsLegible
  <2>2. e = CloseOf(n)
    BY <1>3 DEF EndOfBlock
  <2>3. /\ e \in n + 1 .. Len(source)
        /\ \A k \in n + 1 .. e : InBlock(k, n) /\ ~ InNote(k) /\ Is(k, {"blank", "include", "close"})
        /\ ~ InNote(e + 1) /\ OutsideBlocks(e + 1)
    BY <1>3, <2>1, <2>2, BlockLines
  <2> HIDE DEF e
  <2>4. e \in n .. Len(source) /\ e \in Nat
    BY <1>1, <2>3
  <2>5. ASSUME NEW k \in n + 1 .. e PROVE ~ OutsideBlocks(k) /\ ~ Is(k, {"promote", "composite", "note"}) /\ Hidden(k)
    <3>1. InBlock(k, n) /\ Is(k, {"blank", "include", "close"})
      BY <2>3
    <3>2. n \in 1 .. k
      BY <1>1
    <3>3. ~ OutsideBlocks(k)
      BY <3>1, <3>2 DEF OutsideBlocks
    <3> QED BY <3>1, <3>3 DEF Is, Hidden
  <2>6. ASSUME NEW k \in n .. e PROVE ~ InNote(k) /\ Hidden(k)
    <3>1. k = n \/ k \in n + 1 .. e
      BY <1>1, <2>4
    <3> QED BY <3>1, <1>2, <2>3, <2>5
  <2> QED BY <2>3, <2>4, <2>5, <2>6 DEF e
<1>4. CASE ~ source[n].body
  <2>1. e = n
    BY <1>4 DEF EndOfBlock
  <2>2. ~ InNote(n + 1)
    BY <1>1, <1>2, NextInNote
  <2>3. OutsideBlocks(n + 1)
    BY <1>1, <1>4, NextOutsideBlocks
  <2>4. n + 1 .. n = {} /\ \A k \in n .. n : k = n
    BY <1>1
  <2> HIDE DEF e
  <2> QED BY <1>1, <1>2, <2>1, <2>2, <2>3, <2>4 DEF e
<1> QED BY <1>3, <1>4

(* A block is scanned.                                                     *)
LEMMA BlockScanned ==
  ASSUME IsText(source), NEW n \in DOMAIN source, NEW text, NEW in, NEW g, NEW ds, ScannedAs(n, text, in, g, ds),
         Is(n, {"promote"}), BlockLegible(n), NEW e, e = EndOfBlock(n),
         NEW more, Len(more) = e, \A k \in 1 .. n - 1 : more[k] = text[k], \A k \in n .. e : more[k] = Blank,
         NEW h, h.promotes = Append(g.promotes, BlockAt(n, in)), h.syncs = g.syncs, h.constrains = g.constrains
  PROVE  ScannedAs(e + 1, more, in, h, ds)
<1>1. n \in Nat \ {0} /\ Len(source) \in Nat /\ DOMAIN source = 1 .. Len(source) /\ n \in 1 .. Len(source)
  BY LinesAre, TextOfLines
<1>2. /\ input.tool = "promote" /\ ~ InNote(n) /\ OutsideBlocks(n)
      /\ CompositesAround(n) = {} => in = ""
      /\ \A c \in CompositesAround(n) : CompositesAround(n) = {c} /\ source[c].id = in
      /\ LiftedAs(n, g, ds)
  BY DEF ScannedAs
<1>3. Drawn(n, {"promote"})
  BY <1>2 DEF Drawn
<1>4. PICK m : m = e + 1
  OBVIOUS
<1>5. /\ e \in n .. Len(source) /\ e \in Nat
      /\ \A k \in n + 1 .. e : ~ OutsideBlocks(k) /\ ~ Is(k, {"promote", "composite", "note"})
      /\ \A k \in n .. e : ~ InNote(k) /\ Hidden(k)
      /\ ~ InNote(e + 1) /\ OutsideBlocks(e + 1)
  BY <1>2, <1>3, LinesOfBlock
<1>6. m \in Nat \ {0} /\ n <= m /\ m - 1 = e /\ \A k \in n .. m - 1 : k = n \/ k \in n + 1 .. e
  BY ONLY <1>1, <1>4, <1>5
<1>7. ASSUME NEW k \in n + 1 .. e
      PROVE  \A kinds \in {{"promote"}, {"composite"}, {"note"}} : ~ Drawn(k, kinds)
  BY <1>5, <1>7 DEF Drawn, Is
<1>8. ~ Drawn(n, {"composite"}) /\ ~ Drawn(n, {"note"}) /\ ~ Drawn(n, {"include"}) /\ ~ Drawn(n, {"close"})
  BY <1>3 DEF Drawn, Is
<1>9. \A k \in n .. m - 1 : ~ Drawn(k, {"composite"}) /\ ~ Leaves(k)
  BY <1>5, <1>6, <1>7, <1>8 DEF Leaves
<1>10. CompositesAround(m) = CompositesAround(n)
  BY ONLY <1>1, <1>6, <1>9, SameAround, IsText(source)
<1>11. \A k \in n .. m - 1 : more[k] = OutLine(k) /\ ScannedLine(k, m)
  <2> SUFFICES ASSUME NEW k \in n .. m - 1 PROVE more[k] = OutLine(k) /\ ScannedLine(k, m)
    OBVIOUS
  <2>1. more[k] = OutLine(k)
    BY <1>5, <1>6 DEF OutLine
  <2>2. k # n => ~ Drawn(k, {"promote"}) /\ ~ Drawn(k, {"composite"}) /\ ~ Drawn(k, {"note"})
    BY <1>6, <1>7
  <2>3. ScannedLine(k, m)
    BY <1>8, <2>2 DEF ScannedLine
  <2> QED BY <2>1, <2>3
<1>12. h.promotes = AsWritten(DrawnBefore(m, {"promote"}), BlockAsWritten)
  <2> DEFINE kinds == {"promote"}
             old   == DrawnBefore(n, kinds)
  <2>1. Drawn(n, kinds) /\ \A k \in n + 1 .. e : ~ Drawn(k, kinds)
    BY <1>3, <1>7
  <2> HIDE DEF kinds
  <2>2. DrawnBefore(m, kinds) = old \cup {k \in n .. m - 1 : Drawn(k, kinds)}
    BY ONLY <1>1, <1>6, NextDrawn
  <2>3. n \in n .. m - 1
    BY ONLY <1>1, <1>5, <1>6
  <2>4. {k \in n .. m - 1 : Drawn(k, kinds)} = {n}
    BY <2>1, <2>3, <1>6
  <2>5. DrawnBefore(m, kinds) = old \cup {n}
    BY <2>2, <2>4
  <2>6. old \subseteq 1 .. n - 1
    BY DEF DrawnBefore
  <2>7. g.promotes = AsWritten(old, BlockAsWritten)
    BY <1>2 DEF LiftedAs, kinds
  <2> HIDE DEF old
  <2>8. AsWritten(old \cup {n}, BlockAsWritten) = Append(AsWritten(old, BlockAsWritten), BlockAsWritten(n))
    BY <1>1, <2>6, SaysMore
  <2>9. BlockAt(n, in) = BlockAsWritten(n)
    <3>1. source[n].body => Laid(n)
      BY LaidIsLegible
    <3> QED BY <1>2, <1>3, <3>1, BlockSeen
  <2>10. h.promotes = AsWritten(DrawnBefore(m, kinds), BlockAsWritten)
    BY <2>5, <2>7, <2>8, <2>9
  <2> QED BY <2>10 DEF kinds
<1>13. LiftsBlocks(n, m, g, ds, h, ds)
  <2>1. \A k \in n .. m - 1 : NotesAt(k) = {}
    BY <1>2, <1>5, <1>6, NotedInNotes
  <2>2. {k \in n .. m - 1 : Drawn(k, {"include"}) /\ OutsideBlocks(k)} = {}
    BY <1>5, <1>6, <1>8
  <2>3. ds = ds \cup {Info("dropped", k) : k \in {k \in n .. m - 1 : Drawn(k, {"include"}) /\ OutsideBlocks(k)}}
    BY <2>2
  <2> QED BY <1>1, <1>6, <1>12, <2>1, <2>3 DEF LiftsBlocks
<1>14. LiftedAs(m, h, ds)
  BY <1>2, <1>13, LiftedMore
<1>15. \A k \in 1 .. n - 1 : more[k] = text[k]
  OBVIOUS
<1>16. m \in n .. Len(source) + 1 /\ Len(more) = m - 1
  BY <1>1, <1>5, <1>6
<1>17. ~ InNote(m) /\ OutsideBlocks(m)
  BY <1>4, <1>5
<1>18. \A c \in CompositesAround(n) : c \in CompositesAround(m) \/ Closed(c)
  BY <1>10
<1>19. /\ CompositesAround(m) = {} => in = ""
       /\ \A c \in CompositesAround(m) : CompositesAround(m) = {c} /\ source[c].id = in
  BY <1>2, <1>10
<1>20. Further(n, m, text, more, in)
  BY ONLY <1>11, <1>15, <1>16, <1>17, <1>18, <1>19, Zenon DEF Further
<1> QED BY <1>1, <1>4, <1>14, <1>20, ScannedFurther

(* The scanner reads a block.                                              *)
LEMMA ScansBlock ==
  ASSUME TextsInv, ListsInv, Scanned, readPromote, ~ Fail
  PROVE  ScannedNext
<1> DEFINE e == EndOfBlock(at)
<1>1. /\ at \in DOMAIN source /\ source[at].kind = "promote" /\ source[at].titled
      /\ source[at].body => Laid(at)
      /\ global' = [global EXCEPT !.promotes = Append(@, BlockAt(at, parent))]
      /\ blank(e - at + 1) /\ at' = e + 1 /\ UNCHANGED <<source, diags, parent>>
  BY DEF readPromote, Scanning, EndOfBlock, ScannedTo
<1>2. IsText(source) /\ IsText(out) /\ at \in Nat \ {0}
  BY DEF TextsInv
<1>3. BlockLegible(at) /\ Is(at, {"promote"})
  BY <1>1, <1>2, LaidIsLegible DEF Is
<1>4. ~ InNote(at) /\ OutsideBlocks(at) /\ Len(out) = at - 1
  BY DEF Scanned, ScannedAs
<1>5. e \in at .. Len(source) /\ e \in Nat
  BY <1>1, <1>2, <1>3, <1>4, LinesOfBlock DEF Drawn
<1> HIDE DEF e
<1>6. e - at + 1 \in Nat /\ at - 1 + (e - at + 1) = e /\ at - 1 + 1 = at
  BY ONLY <1>2, <1>5
<1>7. /\ Len(out') = Len(out) + (e - at + 1) /\ \A k \in 1 .. Len(out) : out'[k] = out[k]
      /\ \A k \in Len(out) + 1 .. Len(out) + (e - at + 1) : out'[k] = Blank
  BY <1>1, <1>2, <1>6, BlankedText DEF blank
<1>8. Len(out') = e /\ (\A k \in 1 .. at - 1 : out'[k] = out[k]) /\ \A k \in at .. e : out'[k] = Blank
  BY ONLY <1>4, <1>6, <1>7
<1>9. /\ global'.promotes = Append(global.promotes, BlockAt(at, parent))
      /\ global'.syncs = global.syncs /\ global'.constrains = global.constrains
  <2>1. global = [vars |-> global.vars, edges |-> global.edges, promotes |-> global.promotes,
                  syncs |-> global.syncs, constrains |-> global.constrains]
    BY DEF ListsInv
  <2> QED BY <1>1, <2>1
<1>10. ScannedAs(e + 1, out', parent, global', diags)
  BY <1>1, <1>2, <1>3, <1>8, <1>9, BlockScanned DEF Scanned, e
<1> QED BY <1>1, <1>10 DEF ScannedNext

-----------------------------------------------------------------------------
(* What the note at n says, if its first line says something.              *)
HeardAt(n) == After(n + 1, {"blank"})

Heard(n, g, ds, h, es) ==
  /\ h.promotes = g.promotes
  /\ h.syncs = IF Is(HeardAt(n), {"sync"}) THEN Append(g.syncs, SyncAt(HeardAt(n), source[n].anchor)) ELSE g.syncs
  /\ h.constrains = IF Is(HeardAt(n), {"constrain"}) THEN Append(g.constrains, ConstrainAt(HeardAt(n), source[n].anchor))
                    ELSE g.constrains
  /\ es = IF Is(HeardAt(n), {"misspelt"}) THEN ds \cup {Warning("misspelt", HeardAt(n))} ELSE ds

LEMMA LinesOfNote ==
  ASSUME IsText(source), input.tool = "promote", NEW n \in DOMAIN source, Drawn(n, {"note"}), Terminated(n)
  PROVE  /\ EndOfNote(n) \in n + 1 .. Len(source) /\ EndOfNote(n) \in Nat
         /\ \A k \in n + 1 .. EndOfNote(n) : InNote(k)
         /\ \A k \in n .. EndOfNote(n) : Hidden(k) /\ ~ Drawn(k, {"promote", "composite", "include", "close"})
         /\ ~ InNote(EndOfNote(n) + 1) /\ OutsideBlocks(EndOfNote(n) + 1)
<1> DEFINE e == EndOfNote(n)
<1>1. n \in Nat \ {0} /\ Len(source) \in Nat /\ DOMAIN source = 1 .. Len(source) /\ n \in 1 .. Len(source)
  BY LinesAre, TextOfLines
<1>2. /\ Is(n, {"note"}) /\ ~ Is(n, {"promote"}) /\ ~ Is(n, {"blank", "include"}) /\ ~ InNote(n)
      /\ ~ Is(n, {"promote", "composite", "include", "close"})
  BY DEF Drawn, Is
<1>3. e \in n + 1 .. Len(source) /\ (\A k \in n + 1 .. e : InNote(k)) /\ ~ InNote(e + 1)
  BY <1>2, InsideNote
<1> HIDE DEF e
<1>4. e \in Nat
  BY <1>1, <1>3
<1>5. \A k \in n + 1 .. e : \A kinds : ~ Drawn(k, kinds)
  BY <1>3 DEF Drawn
<1>6. \A k \in n .. e : k = n \/ k \in n + 1 .. e
  BY <1>1, <1>4
<1>7. ASSUME NEW k \in n .. e PROVE Hidden(k) /\ ~ Drawn(k, {"promote", "composite", "include", "close"})
  <2>1. CASE k = n
    <3>1. Drawn(n, Lifted \ {"composite"})
      BY DEF Drawn, Is, Lifted
    <3>2. Hidden(n) /\ ~ Drawn(n, {"promote", "composite", "include", "close"})
      BY <1>2, <3>1 DEF Hidden, Drawn
    <3> QED BY <2>1, <3>2
  <2>2. CASE k \in n + 1 .. e
    BY <2>2, <1>3, <1>5 DEF Hidden
  <2> QED BY <1>6, <2>1, <2>2
<1>8. OutsideBlocks(e + 1)
  <2>5. PICK m : m = e + 1
    OBVIOUS
  <2> SUFFICES ASSUME NEW p \in 1 .. m, InBlock(m, p) PROVE FALSE
    BY <2>5 DEF OutsideBlocks
  <2>6. p < m /\ Drawn(p, {"promote"}) /\ \A j \in p + 1 .. m - 1 : Is(j, {"blank", "include"})
    BY DEF InBlock, Between
  <2>1. p \in Nat /\ p < e + 1 /\ Drawn(p, {"promote"}) /\ \A j \in p + 1 .. e + 1 - 1 : Is(j, {"blank", "include"})
    BY <1>4, <2>5, <2>6
  <2>2. p \notin n + 1 .. e /\ p # n
    BY <1>2, <1>5, <2>1 DEF Drawn
  <2>3. n \in p + 1 .. e + 1 - 1
    BY <1>1, <1>3, <1>4, <2>1, <2>2
  <2>4. Is(n, {"blank", "include"})
    BY <2>1, <2>3
  <2> QED BY <2>4, <1>2
<1> QED BY <1>3, <1>4, <1>7, <1>8 DEF e

(* A note that the scanner accepts is sound.                               *)
LEMMA SoundNote ==
  ASSUME IsText(source), input.tool = "promote", NEW n \in DOMAIN source, Drawn(n, {"note"})
  PROVE  NoteSound(n) <=> Terminated(n) /\ ~ BadNote(n)
<1>1. n \in Nat \ {0} /\ Len(source) \in Nat /\ DOMAIN source = 1 .. Len(source) /\ n \in 1 .. Len(source)
  BY LinesAre, TextOfLines
<1>2. NoteSound(n) => Terminated(n)
  <2> SUFFICES ASSUME NEW m \in DOMAIN source, n < m, Is(m, {"endnote"}) PROVE Terminated(n)
    BY DEF NoteSound
  <2>1. m \in n + 1 .. Len(source) /\ IsKind(m, "endnote")
    BY <1>1 DEF Is, IsKind
  <2> QED BY <2>1 DEF Terminated
<1>3. ASSUME Terminated(n) PROVE NoteSound(n) <=> ~ BadNote(n)
  <2> DEFINE e == EndOfNote(n)
             first == HeardAt(n)
  <2>1. /\ first \in n + 1 .. e /\ ~ Is(first, {"blank"})
        /\ \A j \in Between(n, first) : Is(j, {"blank"})
    BY <1>3, NoteLines DEF HeardAt
  <2>2. /\ e \in n + 1 .. Len(source) /\ Is(e, {"endnote"}) /\ \A k \in n + 1 .. e - 1 : ~ Is(k, {"endnote"})
    BY <1>3, InsideNote DEF Drawn
  <2>3. BadNote(n) <=> /\ source[first].kind \in Directives
                       /\ \/ ~ source[first].wellFormed
                          \/ \E k \in first + 1 .. e - 1 : source[k].kind \in Directives
    BY DEF BadNote, HeardAt
  <2> HIDE DEF e, first
  <2>4. e \in Nat /\ first \in Nat /\ first \in DOMAIN source
    BY <1>1, <2>1, <2>2
  <2>5. Is(first, Directives) <=> source[first].kind \in Directives
    BY <2>4 DEF Is
  <2>6. Is(first, Directives) => first # e
    BY <2>2 DEF Is, Directives
  <2>7. \A k \in first + 1 .. e - 1 : Is(k, Directives) <=> source[k].kind \in Directives
    BY <1>1, <2>1, <2>2, <2>4 DEF Is
  <2>8. BadNote(n) <=> Is(first, Directives) /\ (~ source[first].wellFormed \/ \E k \in Between(first, e) : Is(k, Directives))
    BY <2>3, <2>5, <2>7 DEF Between
  <2>9. ASSUME NEW m \in DOMAIN source, n < m, Is(m, {"endnote"}), \A j \in Between(n, m) : ~ Is(j, {"endnote"})
        PROVE  m = e
    <3>1. m \in Nat
      BY <1>1
    <3>2. e \notin n + 1 .. m - 1 /\ m \notin n + 1 .. e - 1
      BY <2>2, <2>9 DEF Between
    <3> QED BY <1>1, <2>2, <2>4, <2>9, <3>1, <3>2
  <2>10. ASSUME NEW k \in n + 1 .. e - 1, \A j \in Between(n, k) : Is(j, {"blank"}), Is(k, Directives)
         PROVE  k = first
    <3>1. first \notin n + 1 .. k - 1 /\ k \notin n + 1 .. first - 1
      <4>1. ~ Is(k, {"blank"})
        BY <2>10 DEF Is, Directives
      <4> QED BY <4>1, <2>1, <2>10 DEF Between
    <3> QED BY <1>1, <2>1, <2>4, <3>1
  <2>11. Is(first, Directives) => first \in n + 1 .. e - 1
    BY <1>1, <2>1, <2>4, <2>6
  <2>12. ASSUME ~ BadNote(n) PROVE NoteSound(n)
    <3>1. \A k \in Between(n, e) : Is(k, Directives) /\ (\A j \in Between(n, k) : Is(j, {"blank"})) =>
             source[k].wellFormed /\ \A j \in Between(k, e) : ~ Is(j, Directives)
      BY <2>8, <2>10, <2>12 DEF Between
    <3>2. e \in DOMAIN source /\ n < e /\ \A j \in Between(n, e) : ~ Is(j, {"endnote"})
      BY <1>1, <2>2, <2>4 DEF Between
    <3> QED BY <2>2, <3>1, <3>2 DEF NoteSound
  <2>13. ASSUME NoteSound(n), BadNote(n) PROVE FALSE
    <3>1. PICK m \in DOMAIN source :
            /\ n < m /\ Is(m, {"endnote"}) /\ \A j \in Between(n, m) : ~ Is(j, {"endnote"})
            /\ \A k \in Between(n, m) : Is(k, Directives) /\ (\A j \in Between(n, k) : Is(j, {"blank"})) =>
                 source[k].wellFormed /\ \A j \in Between(k, m) : ~ Is(j, Directives)
      BY <2>13 DEF NoteSound
    <3>2. m = e
      BY <2>9, <3>1
    <3>3. Is(first, Directives) /\ first \in Between(n, e)
      BY <2>8, <2>11, <2>13 DEF Between
    <3> QED BY <2>1, <2>8, <2>13, <3>1, <3>2, <3>3
  <2> QED BY <2>12, <2>13
<1> QED BY <1>2, <1>3

(* The directives that are heard up to the end of the note.                *)
LEMMA NoteHeard ==
  ASSUME IsText(source), input.tool = "promote", NEW n \in DOMAIN source, Drawn(n, {"note"}), Terminated(n),
         NEW kind, kind # "blank", kind # "note"
  PROVE  /\ HeardAt(n) \in n + 1 .. EndOfNote(n) /\ HeardAt(n) \in Nat \ {0} /\ AnchorAt(HeardAt(n)) = source[n].anchor
         /\ NotedBefore(n, kind) \subseteq 1 .. HeardAt(n) - 1
         /\ NotedBefore(EndOfNote(n) + 1, kind) =
              IF Is(HeardAt(n), {kind}) THEN NotedBefore(n, kind) \cup {HeardAt(n)} ELSE NotedBefore(n, kind)
<1> DEFINE e == EndOfNote(n)
           first == HeardAt(n)
<1>1. n \in Nat \ {0} /\ Len(source) \in Nat
  BY LinesAre, TextOfLines
<1>2. e \in n + 1 .. Len(source) /\ e \in Nat
  BY LinesOfNote
<1>3. /\ first \in n + 1 .. e /\ NotesAt(first) = {n}
      /\ \A k \in n + 1 .. e : ~ Is(k, {"blank"}) /\ k # first => NotesAt(k) = {}
  BY NoteLines DEF HeardAt
<1> HIDE DEF e, first
<1>4. first \in Nat \ {0} /\ first > n /\ e + 1 \in Nat /\ n <= e + 1 /\ e + 1 - 1 = e
  BY ONLY <1>1, <1>2, <1>3
<1>5. NotesAt(n) = {}
  BY NotedInNotes DEF Drawn
<1>6. AnchorAt(first) = source[n].anchor
  BY <1>1, <1>3, LargestOfOne DEF AnchorAt
<1>7. NotedBefore(n, kind) \subseteq 1 .. first - 1
  <2>1. 1 .. n - 1 \subseteq 1 .. first - 1
    BY ONLY <1>1, <1>4
  <2>2. NotedBefore(n, kind) \subseteq 1 .. n - 1
    BY DEF NotedBefore
  <2> QED BY ONLY <2>1, <2>2
<1>13. PICK m : m = e + 1
  OBVIOUS
<1>14. m \in Nat /\ n <= m /\ m - 1 = e
  BY ONLY <1>1, <1>2, <1>4, <1>13
<1>15. NotedBefore(m, kind) = NotedBefore(n, kind) \cup {k \in n .. m - 1 : Is(k, {kind}) /\ NotesAt(k) # {}}
  BY ONLY <1>1, <1>14, NextNoted
<1>8. NotedBefore(m, kind) = NotedBefore(n, kind) \cup {k \in n .. e : Is(k, {kind}) /\ NotesAt(k) # {}}
  <2>1. n .. m - 1 = n .. e
    BY ONLY <1>14
  <2> DEFINE heard(k) == Is(k, {kind}) /\ NotesAt(k) # {}
  <2>2. NotedBefore(m, kind) = NotedBefore(n, kind) \cup {k \in n .. m - 1 : heard(k)}
    BY ONLY <1>15
  <2> HIDE DEF heard
  <2>3. {k \in n .. m - 1 : heard(k)} = {k \in n .. e : heard(k)}
    BY ONLY <2>1
  <2>4. NotedBefore(m, kind) = NotedBefore(n, kind) \cup {k \in n .. e : heard(k)}
    BY ONLY <2>2, <2>3
  <2> QED BY ONLY <2>4 DEF heard
<1>9. ASSUME NEW k \in n .. e, Is(k, {kind}), NotesAt(k) # {} PROVE k = first
  <2>1. ~ Is(k, {"blank"})
    BY <1>9 DEF Is
  <2>2. k # n
    BY <1>5, <1>9
  <2>3. k \in n + 1 .. e
    BY ONLY <1>1, <1>2, <2>2, k \in n .. e
  <2> QED BY <1>3, <1>9, <2>1, <2>3
<1>10. first \in n .. e /\ NotesAt(first) # {}
  BY <1>1, <1>3, <1>4
<1>11. {k \in n .. e : Is(k, {kind}) /\ NotesAt(k) # {}} = IF Is(first, {kind}) THEN {first} ELSE {}
  BY <1>9, <1>10
<1>12. NotedBefore(m, kind) = IF Is(first, {kind}) THEN NotedBefore(n, kind) \cup {first} ELSE NotedBefore(n, kind)
  BY <1>8, <1>11
<1> QED BY <1>3, <1>4, <1>6, <1>7, <1>12, <1>13 DEF e, first

(* What is lifted, once a note was heard.                                  *)
LEMMA NoteLifted ==
  ASSUME IsText(source), input.tool = "promote", NEW n \in DOMAIN source, Drawn(n, {"note"}), Terminated(n),
         NEW g, NEW ds, LiftedAs(n, g, ds), NEW h, NEW es, Heard(n, g, ds, h, es)
  PROVE  LiftedAs(EndOfNote(n) + 1, h, es)
<1> DEFINE first == HeardAt(n)
<1>1. n \in Nat \ {0} /\ Len(source) \in Nat
  BY LinesAre, TextOfLines
<1>2. PICK m : m = EndOfNote(n) + 1
  OBVIOUS
<1>3. /\ EndOfNote(n) \in n + 1 .. Len(source) /\ EndOfNote(n) \in Nat
      /\ \A k \in n .. EndOfNote(n) : ~ Drawn(k, {"promote", "composite", "include", "close"})
  BY LinesOfNote
<1>4. m \in Nat /\ n <= m /\ \A k \in n .. m - 1 : k \in n .. EndOfNote(n)
  BY ONLY <1>1, <1>2, <1>3
<1>5. \A k \in n .. m - 1 : ~ Drawn(k, {"promote"}) /\ ~ Drawn(k, {"include"})
  BY <1>3, <1>4 DEF Drawn, Is
<1>6. ASSUME NEW kinds, \A k \in n .. m - 1 : ~ Drawn(k, kinds) PROVE DrawnBefore(m, kinds) = DrawnBefore(n, kinds)
  <2>1. DrawnBefore(m, kinds) = DrawnBefore(n, kinds) \cup {k \in n .. m - 1 : Drawn(k, kinds)}
    BY ONLY <1>1, <1>4, NextDrawn
  <2> QED BY <1>6, <2>1
<1>7. DrawnBefore(m, {"promote"}) = DrawnBefore(n, {"promote"}) /\ DrawnBefore(m, {"include"}) = DrawnBefore(n, {"include"})
  BY <1>5, <1>6
<1>8. Dropped(m) = Dropped(n)
  BY <1>7 DEF Dropped
<1>9. first \in Nat \ {0} /\ AnchorAt(first) = source[n].anchor
  BY NoteHeard
<1>10. ASSUME NEW kind \in {"sync", "constrain", "misspelt"}
       PROVE  /\ NotedBefore(n, kind) \subseteq 1 .. first - 1
              /\ NotedBefore(m, kind) = IF Is(first, {kind}) THEN NotedBefore(n, kind) \cup {first} ELSE NotedBefore(n, kind)
  BY <1>2, NoteHeard
<1> HIDE DEF first
<1>11. h.promotes = AsWritten(DrawnBefore(m, {"promote"}), BlockAsWritten)
  BY <1>7 DEF LiftedAs, Heard
<1>12. h.syncs = AsWritten(NotedBefore(m, "sync"), SyncHeard)
  <2> DEFINE old == NotedBefore(n, "sync")
  <2>1. g.syncs = AsWritten(old, SyncHeard)
    BY DEF LiftedAs
  <2>2. h.syncs = IF Is(first, {"sync"}) THEN Append(g.syncs, SyncAt(first, source[n].anchor)) ELSE g.syncs
    BY DEF Heard, first
  <2>3. SyncHeard(first) = SyncAt(first, source[n].anchor)
    BY <1>9 DEF SyncHeard
  <2>4. old \subseteq 1 .. first - 1 /\ NotedBefore(m, "sync") = IF Is(first, {"sync"}) THEN old \cup {first} ELSE old
    BY <1>10
  <2> HIDE DEF old
  <2>5. AsWritten(old \cup {first}, SyncHeard) = Append(AsWritten(old, SyncHeard), SyncHeard(first))
    BY <1>9, <2>4, SaysMore
  <2> QED BY <2>1, <2>2, <2>3, <2>4, <2>5
<1>13. h.constrains = AsWritten(NotedBefore(m, "constrain"), ConstrainHeard)
  <2> DEFINE old == NotedBefore(n, "constrain")
  <2>1. g.constrains = AsWritten(old, ConstrainHeard)
    BY DEF LiftedAs
  <2>2. h.constrains = IF Is(first, {"constrain"}) THEN Append(g.constrains, ConstrainAt(first, source[n].anchor))
                       ELSE g.constrains
    BY DEF Heard, first
  <2>3. ConstrainHeard(first) = ConstrainAt(first, source[n].anchor)
    BY <1>9 DEF ConstrainHeard
  <2>4. /\ old \subseteq 1 .. first - 1
        /\ NotedBefore(m, "constrain") = IF Is(first, {"constrain"}) THEN old \cup {first} ELSE old
    BY <1>10
  <2> HIDE DEF old
  <2>5. AsWritten(old \cup {first}, ConstrainHeard) = Append(AsWritten(old, ConstrainHeard), ConstrainHeard(first))
    BY <1>9, <2>4, SaysMore
  <2> QED BY <2>1, <2>2, <2>3, <2>4, <2>5
<1>14. es = {Info("dropped", k) : k \in Dropped(m)} \cup {Warning("misspelt", k) : k \in NotedBefore(m, "misspelt")}
  <2> DEFINE old == NotedBefore(n, "misspelt")
  <2>1. ds = {Info("dropped", k) : k \in Dropped(n)} \cup {Warning("misspelt", k) : k \in old}
    BY DEF LiftedAs
  <2>2. es = IF Is(first, {"misspelt"}) THEN ds \cup {Warning("misspelt", first)} ELSE ds
    BY DEF Heard, first
  <2>3. NotedBefore(m, "misspelt") = IF Is(first, {"misspelt"}) THEN old \cup {first} ELSE old
    BY <1>10
  <2> HIDE DEF old
  <2> QED BY <1>8, <2>1, <2>2, <2>3
<1>15. LiftedAs(m, h, es)
  BY <1>11, <1>12, <1>13, <1>14 DEF LiftedAs
<1> QED BY <1>2, <1>15

(* A note is scanned.                                                      *)
LEMMA NoteScanned ==
  ASSUME IsText(source), NEW n \in DOMAIN source, NEW text, NEW in, NEW g, NEW ds, ScannedAs(n, text, in, g, ds),
         Is(n, {"note"}), NoteSound(n), NEW e, e = EndOfNote(n),
         NEW more, Len(more) = e, \A k \in 1 .. n - 1 : more[k] = text[k], \A k \in n .. e : more[k] = Blank,
         NEW h, NEW es, Heard(n, g, ds, h, es)
  PROVE  ScannedAs(e + 1, more, in, h, es)
<1>1. n \in Nat \ {0} /\ Len(source) \in Nat /\ DOMAIN source = 1 .. Len(source) /\ n \in 1 .. Len(source)
  BY LinesAre, TextOfLines
<1>2. /\ input.tool = "promote" /\ ~ InNote(n)
      /\ CompositesAround(n) = {} => in = ""
      /\ \A c \in CompositesAround(n) : CompositesAround(n) = {c} /\ source[c].id = in
      /\ LiftedAs(n, g, ds)
  BY DEF ScannedAs
<1>3. Drawn(n, {"note"})
  BY <1>2 DEF Drawn
<1>4. Terminated(n)
  BY <1>2, <1>3, SoundNote
<1>5. PICK m : m = e + 1
  OBVIOUS
<1>6. /\ e \in n + 1 .. Len(source) /\ e \in Nat /\ (\A k \in n + 1 .. e : InNote(k))
      /\ \A k \in n .. e : Hidden(k) /\ ~ Drawn(k, {"promote", "composite", "include", "close"})
      /\ ~ InNote(m) /\ OutsideBlocks(m)
  BY <1>2, <1>3, <1>4, <1>5, LinesOfNote
<1>7. m \in Nat \ {0} /\ n <= m /\ m - 1 = e /\ \A k \in n .. m - 1 : k \in n .. e /\ (k = n \/ k \in n + 1 .. e)
  BY ONLY <1>1, <1>5, <1>6
<1>8. \A k \in n .. m - 1 : ~ Drawn(k, {"composite"}) /\ ~ Drawn(k, {"close"}) /\ ~ Drawn(k, {"promote"})
  BY <1>6, <1>7 DEF Drawn, Is
<1>9. CompositesAround(m) = CompositesAround(n)
  <2>1. \A k \in n .. m - 1 : ~ Drawn(k, {"composite"}) /\ ~ Leaves(k)
    BY <1>8 DEF Leaves
  <2> QED BY ONLY <1>1, <1>7, <2>1, SameAround, IsText(source)
<1>10. \A k \in n .. m - 1 : more[k] = OutLine(k) /\ ScannedLine(k, m)
  <2> SUFFICES ASSUME NEW k \in n .. m - 1 PROVE more[k] = OutLine(k) /\ ScannedLine(k, m)
    OBVIOUS
  <2>1. more[k] = OutLine(k)
    BY <1>6, <1>7 DEF OutLine
  <2>2. k # n => ~ Drawn(k, {"note"})
    BY <1>6, <1>7 DEF Drawn
  <2>3. ScannedLine(k, m)
    BY <1>8, <2>2 DEF ScannedLine
  <2> QED BY <2>1, <2>3
<1>11. LiftedAs(m, h, es)
  BY <1>2, <1>3, <1>4, <1>5, NoteLifted
<1>12. \A k \in 1 .. n - 1 : more[k] = text[k]
  OBVIOUS
<1>13. m \in n .. Len(source) + 1 /\ Len(more) = m - 1
  BY <1>1, <1>5, <1>6, <1>7
<1>14. \A c \in CompositesAround(n) : c \in CompositesAround(m) \/ Closed(c)
  BY <1>9
<1>15. /\ CompositesAround(m) = {} => in = ""
       /\ \A c \in CompositesAround(m) : CompositesAround(m) = {c} /\ source[c].id = in
  BY <1>2, <1>9
<1>16. ~ InNote(m) /\ OutsideBlocks(m)
  BY <1>6
<1>17. Further(n, m, text, more, in)
  BY ONLY <1>10, <1>12, <1>13, <1>14, <1>15, <1>16, Zenon DEF Further
<1> QED BY <1>1, <1>5, <1>11, <1>17, ScannedFurther

(* The scanner reads a note.                                               *)
LEMMA ScansNote ==
  ASSUME TextsInv, ListsInv, Scanned, readNote, ~ Fail
  PROVE  ScannedNext
<1> DEFINE e == EndOfNote(at)
           first == HeardAt(at)
<1>1. /\ at \in DOMAIN source /\ source[at].kind = "note" /\ Terminated(at) /\ ~ BadNote(at)
      /\ readDirective(first, source[at].anchor)
      /\ blank(e - at + 1) /\ at' = e + 1 /\ UNCHANGED <<source, parent>>
  BY DEF readNote, Scanning, ScannedTo, HeardAt
<1>2. IsText(source) /\ IsText(out) /\ at \in Nat \ {0} /\ Len(source) \in Nat /\ DOMAIN source = 1 .. Len(source)
  BY LinesAre DEF TextsInv
<1>3. ~ InNote(at) /\ Len(out) = at - 1 /\ input.tool = "promote"
  BY DEF Scanned, ScannedAs
<1>4. Is(at, {"note"}) /\ Drawn(at, {"note"})
  BY <1>1, <1>3 DEF Is, Drawn
<1>5. NoteSound(at)
  BY <1>1, <1>2, <1>3, <1>4, SoundNote
<1>6. e \in at + 1 .. Len(source) /\ e \in Nat
  BY <1>1, <1>2, <1>3, <1>4, LinesOfNote
<1>7. first \in DOMAIN source
  BY <1>1, <1>2, <1>3, <1>4, <1>6, NoteLines DEF HeardAt
<1> HIDE DEF e, first
<1>8. e - at + 1 \in Nat /\ at - 1 + (e - at + 1) = e /\ at - 1 + 1 = at
  BY ONLY <1>2, <1>6
<1>9. /\ Len(out') = Len(out) + (e - at + 1) /\ \A k \in 1 .. Len(out) : out'[k] = out[k]
      /\ \A k \in Len(out) + 1 .. Len(out) + (e - at + 1) : out'[k] = Blank
  BY <1>1, <1>2, <1>8, BlankedText DEF blank
<1>10. Len(out') = e /\ (\A k \in 1 .. at - 1 : out'[k] = out[k]) /\ \A k \in at .. e : out'[k] = Blank
  BY ONLY <1>3, <1>8, <1>9
<1>11. \A kind : IsKind(first, kind) <=> Is(first, {kind})
  BY DEF IsKind, Is
<1>12. global = [vars |-> global.vars, edges |-> global.edges, promotes |-> global.promotes,
                 syncs |-> global.syncs, constrains |-> global.constrains]
  BY DEF ListsInv
<1>13. /\ diags' = IF Is(first, {"misspelt"}) THEN diags \cup {Warning("misspelt", first)} ELSE diags
       /\ global' = CASE Is(first, {"sync"}) -> [global EXCEPT !.syncs = Append(@, SyncAt(first, source[at].anchor))]
                      [] Is(first, {"constrain"}) ->
                           [global EXCEPT !.constrains = Append(@, ConstrainAt(first, source[at].anchor))]
                      [] OTHER -> global
  BY <1>1, <1>11 DEF readDirective
<1>14. /\ global'.promotes = global.promotes
       /\ global'.syncs = IF Is(first, {"sync"}) THEN Append(global.syncs, SyncAt(first, source[at].anchor)) ELSE global.syncs
       /\ global'.constrains = IF Is(first, {"constrain"}) THEN Append(global.constrains, ConstrainAt(first, source[at].anchor))
                               ELSE global.constrains
  <2>1. ~ (Is(first, {"sync"}) /\ Is(first, {"constrain"}))
    BY DEF Is
  <2>2. CASE Is(first, {"sync"})
    <3>1. global' = [global EXCEPT !.syncs = Append(@, SyncAt(first, source[at].anchor))]
      BY <1>13, <2>1, <2>2
    <3> QED BY <1>12, <2>1, <2>2, <3>1
  <2>3. CASE Is(first, {"constrain"})
    <3>1. global' = [global EXCEPT !.constrains = Append(@, ConstrainAt(first, source[at].anchor))]
      BY <1>13, <2>1, <2>3
    <3> QED BY <1>12, <2>1, <2>3, <3>1
  <2>4. CASE ~ Is(first, {"sync"}) /\ ~ Is(first, {"constrain"})
    <3>1. global' = global
      BY <1>13, <2>4
    <3> QED BY <2>4, <3>1
  <2> QED BY <2>2, <2>3, <2>4
<1>15. Heard(at, global, diags, global', diags')
  BY <1>13, <1>14 DEF Heard, first
<1>16. ScannedAs(e + 1, out', parent, global', diags')
  BY <1>1, <1>2, <1>4, <1>5, <1>10, <1>15, NoteScanned DEF Scanned, e
<1> QED BY <1>1, <1>16 DEF ScannedNext

-----------------------------------------------------------------------------
(* Before its first line nothing is made of a text.                        *)
LEMMA ScanStarts ==
  IsText(source) /\ input.tool = "promote" => ScannedAs(1, << >>, "", Nothing, {})
<1> SUFFICES ASSUME IsText(source), input.tool = "promote" PROVE ScannedAs(1, << >>, "", Nothing, {})
  OBVIOUS
<1>1. Len(source) \in Nat /\ 1 .. 1 - 1 = {} /\ Len(<< >>) = 1 - 1
  BY LinesAre
<1>2. ~ InNote(1) /\ CompositesAround(1) = {}
  BY <1>1 DEF InNote, CompositesAround
<1>3. OutsideBlocks(1)
  <2>1. \A p \in 1 .. 1 : ~ (p < 1)
    OBVIOUS
  <2> QED BY <2>1 DEF OutsideBlocks, InBlock
<1>4. LiftedAs(1, Nothing, {})
  <2>1. \A kinds : DrawnBefore(1, kinds) = {}
    BY <1>1 DEF DrawnBefore
  <2>2. \A kind : NotedBefore(1, kind) = {}
    BY <1>1 DEF NotedBefore
  <2>3. Dropped(1) = {}
    BY <2>1 DEF Dropped
  <2>4. Nothing.promotes = << >> /\ Nothing.syncs = << >> /\ Nothing.constrains = << >>
    BY DEF Nothing
  <2> QED BY <2>1, <2>2, <2>3, <2>4, SaysNothing DEF LiftedAs
<1>5. 1 \in 1 .. Len(source) + 1
  BY <1>1
<1> QED BY <1>1, <1>2, <1>3, <1>4, <1>5 DEF ScannedAs

(* The author's rules for notes and composite states are the scanner's.    *)
LEMMA LegibleNotes ==
  ASSUME IsText(source), NEW n, Written(n, {"note"}) PROVE NoteLegible(n) <=> NoteSound(n)
<1>1. ASSUME NEW m \in DOMAIN source, NEW k \in Between(n, m), n < m
      PROVE  n \in NotesStartingAt(k) <=> \A j \in Between(n, k) : Is(j, {"blank"})
  <2>1. n \in DOMAIN source
    BY DEF Written, Drawn, Is
  <2>2. n \in Nat \ {0} /\ m \in Nat \ {0}
    BY <2>1, TextOfLines
  <2>3. n \in 1 .. k - 1
    BY <2>2 DEF Between
  <2> QED BY <2>3 DEF NotesStartingAt
<1> QED BY <1>1 DEF NoteLegible, NoteSound

LEMMA LegibleComposites ==
  ASSUME NEW n
  PROVE  CompositeLegible(n) <=> /\ ~ \E k \in 1 .. n - 1 : Written(k, {"end"})
                                 /\ CompositesAround(n) = {} /\ Closed(n)
<1>1. \A c \in DOMAIN source : Leaves(c) <=> Drawn(c, {"close"}) /\ ~ \E p \in 1 .. c : InBlock(c, p)
  BY DEF Leaves, OutsideBlocks
<1> QED BY <1>1 DEF CompositeLegible, Closed

(* What the scanner refuses is not legible.                                *)
LEMMA ScanRefuses ==
  ASSUME TextsInv, Scanned, scan, Fail, Tidy, Legible PROVE FALSE
<1>1. IsText(source) /\ at \in Nat \ {0} /\ Len(source) \in Nat /\ DOMAIN source = 1 .. Len(source)
  BY LinesAre DEF TextsInv
<1>2. /\ input.tool = "promote" /\ ~ InNote(at) /\ (CompositesAround(at) = {} <=> parent = "") /\ at \in 1 .. Len(source) + 1
  BY <1>1, ParentIsAround DEF Scanned, ScannedAs
<1>3. ASSUME NEW n \in DOMAIN source, NEW kind \in Lifted, Drawn(n, {kind}) PROVE Written(n, {kind})
  <2>1. Drawn(n, Lifted \cup {"close"})
    BY <1>3 DEF Drawn, Is
  <2> QED BY <1>2, <1>3, <2>1 DEF Tidy, Written
<1>4. stage' = "unreadable"
  BY DEF Fail, Unreadable
<1>5. ASSUME NEW kind, Scanning({kind}) PROVE at \in DOMAIN source /\ Drawn(at, {kind})
  BY <1>2, <1>5 DEF Scanning, Drawn, Is
<1>6. CASE readPromote
  <2>1. Scanning({"promote"}) /\ (~ source[at].titled \/ (source[at].body /\ ~ Laid(at)))
    BY <1>4, <1>6 DEF readPromote, Scanning, ScannedTo
  <2>2. at \in DOMAIN source /\ Written(at, {"promote"})
    BY <1>3, <1>5, <2>1 DEF Lifted
  <2>3. BlockLegible(at)
    BY <2>2 DEF Legible
  <2> QED BY <1>1, <2>1, <2>2, <2>3, LaidIsLegible
<1>7. CASE readComposite
  <2>1. Scanning({"composite"}) /\ parent # ""
    BY <1>4, <1>7 DEF readComposite, Scanning, ScannedTo
  <2>2. at \in DOMAIN source /\ Written(at, {"composite"})
    BY <1>3, <1>5, <2>1 DEF Lifted
  <2>3. CompositesAround(at) = {}
    BY <2>2 DEF Legible, CompositeLegible
  <2> QED BY <1>2, <2>1, <2>3
<1>8. CASE readNote
  <2>1. Scanning({"note"}) /\ (~ Terminated(at) \/ BadNote(at))
    BY <1>4, <1>8 DEF readNote, Scanning, ScannedTo
  <2>2. at \in DOMAIN source /\ Drawn(at, {"note"}) /\ Written(at, {"note"})
    BY <1>3, <1>5, <2>1 DEF Lifted
  <2>3. NoteSound(at)
    BY <1>1, <2>2, LegibleNotes DEF Legible
  <2> QED BY <1>1, <1>2, <2>1, <2>2, <2>3, SoundNote
<1>9. CASE EndScan
  <2>1. at > Len(source) /\ parent # ""
    BY <1>4, <1>9 DEF EndScan
  <2>11. at > Len(source) /\ at \in 1 .. Len(source) + 1 /\ Len(source) \in Nat
    BY ONLY <1>1, <1>2, <2>1, Zenon
  <2>2. at = Len(source) + 1
    BY ONLY <2>11
  <2>3. PICK c \in CompositesAround(at) : TRUE
    BY <1>2, <2>1
  <2>4. c \in 1 .. at - 1 /\ Drawn(c, {"composite"}) /\ \A j \in Between(c, at) : ~ Leaves(j)
    BY <1>1, <2>3, AroundAre
  <2>5. c \in DOMAIN source
    BY <1>1, <2>2, <2>4
  <2>6. Written(c, {"composite"})
    BY <1>3, <2>4, <2>5 DEF Lifted
  <2>7. Closed(c)
    BY <2>5, <2>6, LegibleComposites DEF Legible
  <2>8. PICK d \in DOMAIN source : Leaves(d) /\ c \in CompositesAround(d)
    BY <2>7 DEF Closed
  <2>9. c \in 1 .. d - 1
    BY <2>8 DEF CompositesAround
  <2>10. d \in Between(c, at)
    BY <1>1, <2>2, <2>9 DEF Between
  <2> QED BY <2>4, <2>8, <2>10
<1>10. ~ CloseComposite /\ ~ readPreprocessor /\ ~ CopyLine
  BY <1>4 DEF CloseComposite, readPreprocessor, CopyLine, Scanning, ScannedTo
<1> QED BY <1>6, <1>7, <1>8, <1>9, <1>10 DEF scan

(* A line or several, or the end: so the scanner goes on.                  *)
LEMMA ScanGoesOn ==
  ASSUME TextsInv, ListsInv, Scanned, scan, ~ Fail
  PROVE  \/ ScannedNext /\ stage' = "scanning"
         \/ /\ ScannedAs(Len(source) + 1, out, "", global, diags) /\ parent = "" /\ at' = 1 /\ stage' = "parsing"
            /\ UNCHANGED <<out, parent, global, diags>>
<1>1. CASE EndScan
  <2>1. /\ at > Len(source) /\ parent = "" /\ at' = 1 /\ stage' = "parsing"
        /\ UNCHANGED <<out, parent, global, diags>>
    BY <1>1 DEF EndScan, scanVars
  <2>2. at > Len(source) /\ at \in 1 .. Len(source) + 1 /\ Len(source) \in Nat
    BY <2>1, LinesAre DEF TextsInv, Scanned, ScannedAs
  <2>3. at = Len(source) + 1
    BY ONLY <2>2
  <2> QED BY <2>1, <2>3 DEF Scanned
<1>2. CASE ~ EndScan
  <2>1. stage' = "scanning"
    BY <1>2 DEF scan, readPromote, readComposite, CloseComposite, readPreprocessor, readNote, CopyLine, Scanning, ScannedTo
  <2>2. ScannedNext
    BY <1>2, LinesScanned, ScansBlock, ScansNote DEF scan
  <2> QED BY <2>1, <2>2
<1> QED BY <1>1, <1>2

-----------------------------------------------------------------------------
(* The diagram that some lines make: states are declared in S, variables   *)
(* in V, edges in E, and the start and end edges are T and U.              *)
DeclaredAt(S, id) == Max({n \in S : source[n].id = id})
VarsIn(S, V, id) == {k \in V : k > DeclaredAt(S, id) /\ source[k].state = id}
StateOf(S, V, id) == [line |-> DeclaredAt(S, id), vars |-> AsWritten(VarsIn(S, V, id), VariableAt)]
StatesOf(S, V) == [id \in {source[n].id : n \in S} |-> StateOf(S, V, id)]
EdgesOf(E) == {[line |-> n, edge |-> source[n].edge] : n \in E}
TargetIn(T) == IF T = {} THEN "" ELSE source[Max(T)].id

DiagramOf(S, V, E, T, U) ==
  [states |-> StatesOf(S, V), edges |-> EdgesOf(E), start |-> TargetIn(T), end |-> TargetIn(U)]

(* What the parser does with a line that declares a state, or a variable.  *)
WithState(states, n) ==
  [i \in DOMAIN states \cup {source[n].id} |->
     IF i = source[n].id THEN [line |-> n, vars |-> << >>] ELSE states[i]]

WithVariable(states, n) ==
  [states EXCEPT ![source[n].state].vars = Append(@, [name |-> source[n].name, type |-> source[n].type])]

(* One more state: it is declared anew.                                    *)
LEMMA StateGrows ==
  ASSUME NEW m \in Nat \ {0}, NEW S, S \subseteq 1 .. m - 1, NEW V, V \subseteq 1 .. m - 1
  PROVE  StatesOf(S \cup {m}, V) = WithState(StatesOf(S, V), m)
<1> DEFINE id == source[m].id
           more == S \cup {m}
<1>1. DeclaredAt(more, id) = m
  <2> DEFINE T == {n \in more : source[n].id = id}
  <2>1. more \subseteq Nat /\ m \in more /\ \A n \in more : m >= n
    OBVIOUS
  <2> HIDE DEF more, id
  <2>3. T \subseteq Nat /\ m \in T /\ \A n \in T : m >= n
    BY <2>1 DEF id
  <2>4. DeclaredAt(more, id) = Max(T)
    BY DEF DeclaredAt
  <2> HIDE DEF T
  <2> QED BY <2>3, <2>4, Largest
<1>2. VarsIn(more, V, id) = {}
  <2>1. \A k \in V : ~ (k > m)
    OBVIOUS
  <2> QED BY <1>1, <2>1 DEF VarsIn
<1>3. StateOf(more, V, id) = [line |-> m, vars |-> << >>]
  BY <1>1, <1>2, SaysNothing DEF StateOf
<1>4. ASSUME NEW i, i # id PROVE StateOf(more, V, i) = StateOf(S, V, i)
  <2>1. {n \in more : source[n].id = i} = {n \in S : source[n].id = i}
    BY <1>4
  <2>2. DeclaredAt(more, i) = DeclaredAt(S, i)
    BY <2>1 DEF DeclaredAt
  <2>3. VarsIn(more, V, i) = VarsIn(S, V, i)
    BY <2>2 DEF VarsIn
  <2> QED BY <2>2, <2>3 DEF StateOf
<1>5. {source[n].id : n \in more} = {id} \cup {source[n].id : n \in S}
  OBVIOUS
<1> DEFINE old == StatesOf(S, V)
           new == [line |-> m, vars |-> << >>]
<1>6. DOMAIN old = {source[n].id : n \in S} /\ \A i \in DOMAIN old : old[i] = StateOf(S, V, i)
  BY DEF StatesOf
<1>7. StatesOf(more, V) = [i \in {source[n].id : n \in more} |-> StateOf(more, V, i)]
  BY DEF StatesOf
<1> HIDE DEF old, new, more, id
<1>8. StatesOf(more, V) = [i \in DOMAIN old \cup {id} |-> IF i = id THEN new ELSE old[i]]
  <2>1. {source[n].id : n \in more} = DOMAIN old \cup {id}
    BY <1>5, <1>6
  <2>2. \A i \in DOMAIN old \cup {id} : StateOf(more, V, i) = IF i = id THEN new ELSE old[i]
    BY <1>3, <1>4, <1>6 DEF new
  <2> QED BY <1>7, <2>1, <2>2
<1> QED BY <1>8 DEF more, id, old, new, WithState

(* One more variable, of a state that was declared.                        *)
LEMMA VarGrows ==
  ASSUME NEW m \in Nat \ {0}, NEW S, S \subseteq 1 .. m - 1, NEW V, V \subseteq 1 .. m - 1,
         NEW d \in S, source[d].id = source[m].state
  PROVE  StatesOf(S, V \cup {m}) = WithVariable(StatesOf(S, V), m)
<1> DEFINE id == source[m].state
           more == V \cup {m}
           var == [name |-> source[m].name, type |-> source[m].type]
           old == StatesOf(S, V)
<1>1. DeclaredAt(S, id) \in 1 .. m - 1
  <2> DEFINE T == {n \in S : source[n].id = id}
  <2>3. DeclaredAt(S, id) = Max(T)
    BY DEF DeclaredAt
  <2>4. T \subseteq S /\ d \in T
    OBVIOUS
  <2>5. m - 1 \in Nat
    OBVIOUS
  <2> HIDE DEF T
  <2>1. T \subseteq 1 .. m - 1 /\ T # {} /\ m - 1 \in Nat /\ DeclaredAt(S, id) = Max(T)
    BY <2>3, <2>4, <2>5
  <2>2. Max(T) \in T
    BY <2>1, LargestBelow
  <2> QED BY <2>1, <2>2
<1>2. VarsIn(S, more, id) = VarsIn(S, V, id) \cup {m} /\ VarsIn(S, V, id) \subseteq 1 .. m - 1
  <2>1. m > DeclaredAt(S, id)
    BY <1>1
  <2>2. VarsIn(S, V, id) \subseteq 1 .. m - 1
    BY DEF VarsIn
  <2> HIDE DEF id
  <2>3. VarsIn(S, more, id) = VarsIn(S, V, id) \cup {m}
    BY <2>1 DEF VarsIn, id
  <2> QED BY <2>2, <2>3
<1>3. StateOf(S, more, id) = [line |-> DeclaredAt(S, id), vars |-> Append(StateOf(S, V, id).vars, var)]
  <2> DEFINE vs == VarsIn(S, V, id)
  <2>1. vs \subseteq 1 .. m - 1
    BY <1>2
  <2>2. StateOf(S, V, id).vars = AsWritten(vs, VariableAt)
    BY DEF StateOf
  <2>3. StateOf(S, more, id) = [line |-> DeclaredAt(S, id), vars |-> AsWritten(vs \cup {m}, VariableAt)]
    BY <1>2 DEF StateOf
  <2> HIDE DEF vs
  <2>4. AsWritten(vs \cup {m}, VariableAt) = Append(AsWritten(vs, VariableAt), VariableAt(m))
    BY <2>1, SaysMore
  <2> QED BY <2>2, <2>3, <2>4 DEF VariableAt
<1>4. ASSUME NEW i, i # id PROVE StateOf(S, more, i) = StateOf(S, V, i)
  <2>1. VarsIn(S, more, i) = VarsIn(S, V, i)
    BY <1>4 DEF VarsIn
  <2> QED BY <2>1 DEF StateOf
<1>5. id \in DOMAIN old /\ DOMAIN old = {source[n].id : n \in S} /\ \A i \in DOMAIN old : old[i] = StateOf(S, V, i)
  BY DEF StatesOf
<1>6. StatesOf(S, more) = [i \in DOMAIN old |-> StateOf(S, more, i)]
  BY <1>5 DEF StatesOf
<1>7. old = [i \in DOMAIN old |-> old[i]]
  BY DEF StatesOf
<1>8. StateOf(S, V, id) = [line |-> DeclaredAt(S, id), vars |-> StateOf(S, V, id).vars]
  BY DEF StateOf
<1> DEFINE s == StateOf(S, V, id)
           t == [line |-> DeclaredAt(S, id), vars |-> Append(s.vars, var)]
<1>9. [s EXCEPT !.vars = Append(@, var)] = t
  <2> HIDE DEF s, var
  <2> QED BY <1>8 DEF s
<1>10. [old EXCEPT ![id].vars = Append(@, var)] = [i \in DOMAIN old |-> IF i = id THEN [old[id] EXCEPT !.vars = Append(@, var)] ELSE old[i]]
  <2> HIDE DEF old, id, var
  <2> QED BY <1>7
<1>11. [old EXCEPT ![id].vars = Append(@, var)] = [i \in DOMAIN old |-> IF i = id THEN t ELSE StateOf(S, V, i)]
  <2>1. old[id] = s
    BY <1>5
  <2> HIDE DEF old, id, var, s, t
  <2> QED BY <1>5, <1>9, <1>10, <2>1
<1>12. StatesOf(S, more) = [i \in DOMAIN old |-> IF i = id THEN t ELSE StateOf(S, V, i)]
  <2>1. \A i \in DOMAIN old : StateOf(S, more, i) = IF i = id THEN t ELSE StateOf(S, V, i)
    <3> HIDE DEF old, more, id, t
    <3>1. StateOf(S, more, id) = t
      BY <1>3 DEF t, s
    <3> QED BY <1>4, <3>1
  <2> HIDE DEF old, more, id, t
  <2> QED BY <1>6, <2>1
<1> HIDE DEF t
<1>13. StatesOf(S, more) = [old EXCEPT ![id].vars = Append(@, var)]
  BY <1>11, <1>12
<1> QED BY <1>13 DEF WithVariable

(* A start edge or an end edge takes the place of the one before.          *)
LEMMA TargetGrows ==
  ASSUME NEW m \in Nat \ {0}, NEW T, T \subseteq 1 .. m - 1
  PROVE  TargetIn(T \cup {m}) = source[m].id
<1> DEFINE U == T \cup {m}
<1>1. U \subseteq Nat /\ m \in U /\ (\A n \in U : m >= n) /\ U # {}
  OBVIOUS
<1> HIDE DEF U
<1>2. Max(U) = m
  BY <1>1, Largest
<1>3. TargetIn(U) = source[m].id
  BY <1>1, <1>2 DEF TargetIn
<1> QED BY <1>3 DEF U

LEMMA TargetEmpty ==
  ASSUME IsText(source), NEW m \in Nat, NEW T, T \subseteq 1 .. m,
         \A n \in T : n \in DOMAIN source /\ source[n].kind = "end"
  PROVE  TargetIn(T) = "" <=> T = {}
<1> SUFFICES ASSUME T # {} PROVE TargetIn(T) # ""
  BY DEF TargetIn
<1>1. Max(T) \in T
  BY LargestBelow
<1>2. IsLine(source[Max(T)]) /\ source[Max(T)].kind = "end"
  BY <1>1, TextOfLines
<1> QED BY <1>2 DEF IsLine, TargetIn

-----------------------------------------------------------------------------
(* What is left of the lines, for the parser.                              *)
CoreKinds == {"startuml", "var"} \cup Trivia \cup {"ignore"} \cup Declarations

ForParser == CoreKinds \cup {"enduml"}

Lost(n) ==
  /\ input.tool = "promote"
  /\ \/ Is(n, Lifted \ {"composite"})
     \/ Is(n, {"close"}) /\ (CompositesAround(n) # {} \/ ~ OutsideBlocks(n))

LineLeft(n) ==
  /\ out[n].kind \notin {"blank", "state"} => ~ InNote(n) /\ out[n] = source[n]
  /\ out[n].kind = "state" =>
       /\ Drawn(n, {"state", "composite"}) /\ out[n].id = source[n].id
       /\ Is(n, {"composite"}) => input.tool = "promote"
  /\ out[n].kind = "blank" => InNote(n) \/ Is(n, {"blank"}) \/ Lost(n)
  /\ Drawn(n, ForParser) => out[n].kind = source[n].kind
  /\ out[n].kind \in Lifted \cup {"close"} =>
       input.tool = "parse" \/ (Is(n, {"close"}) /\ CompositesAround(n) = {} /\ OutsideBlocks(n))

Left == Len(out) = Len(source) /\ \A n \in 1 .. Len(source) : LineLeft(n)

(* A text that is parsed as it is, and one that was scanned.               *)
LEMMA PlainLeft ==
  ASSUME IsText(source), input.tool = "parse", out = source
  PROVE  Left
<1> SUFFICES ASSUME NEW n \in 1 .. Len(source) PROVE LineLeft(n)
  BY DEF Left
<1>1. n \in DOMAIN source /\ ~ InNote(n)
  BY LinesAre DEF InNote
<1>2. \A kinds : (Is(n, kinds) <=> source[n].kind \in kinds) /\ (Drawn(n, kinds) <=> source[n].kind \in kinds)
  BY <1>1 DEF Is, Drawn
<1> QED BY <1>1, <1>2 DEF LineLeft

LEMMA ScannedLeft ==
  ASSUME IsText(source), NEW in, NEW g, NEW ds, ScannedAs(Len(source) + 1, out, in, g, ds)
  PROVE  Left
<1>1. /\ Len(out) = Len(source) /\ Len(source) \in Nat /\ input.tool = "promote"
      /\ \A n \in 1 .. Len(source) : out[n] = OutLine(n) /\ (Drawn(n, {"promote"}) => BlockLegible(n))
  <2>1. PICK m : m = Len(source) + 1
    OBVIOUS
  <2>2. Len(source) \in Nat /\ m - 1 = Len(source)
    BY <2>1, LinesAre
  <2>3. Len(out) = m - 1 /\ input.tool = "promote"
    BY <2>1 DEF ScannedAs
  <2>4. \A n \in 1 .. m - 1 : out[n] = OutLine(n) /\ (Drawn(n, {"promote"}) => BlockLegible(n))
    BY <2>1 DEF ScannedAs, ScannedLine
  <2> QED BY <2>2, <2>3, <2>4
<1> SUFFICES ASSUME NEW n \in 1 .. Len(source) PROVE LineLeft(n)
  BY <1>1 DEF Left
<1>2. n \in DOMAIN source /\ n \in Nat \ {0}
  BY <1>1, LinesAre
<1>3. /\ \A kinds : Is(n, kinds) <=> source[n].kind \in kinds
      /\ \A kinds : Drawn(n, kinds) <=> ~ InNote(n) /\ source[n].kind \in kinds
  BY <1>2 DEF Is, Drawn
<1>4. ~ OutsideBlocks(n) => source[n].kind \in {"blank", "include", "close"}
  <2> SUFFICES ASSUME NEW p \in 1 .. n, InBlock(n, p) PROVE source[n].kind \in {"blank", "include", "close"}
    BY DEF OutsideBlocks
  <2>1. /\ p < n /\ Drawn(p, {"promote"}) /\ source[p].body /\ \A j \in Between(p, n) : Is(j, {"blank", "include"})
    BY DEF InBlock
  <2>2. p \in DOMAIN source /\ p \in 1 .. Len(source)
    BY <2>1, LinesAre DEF Drawn
  <2>3. Laid(p)
    BY <1>1, <2>1, <2>2, LaidIsLegible
  <2>4. CloseOf(p) \in p + 1 .. Len(source) /\ \A k \in p + 1 .. CloseOf(p) : Is(k, {"blank", "include", "close"})
    BY <2>1, <2>2, <2>3, BlockLines
  <2>5. IsKind(CloseOf(p), "close")
    BY <2>3 DEF Laid
  <2>6. CloseOf(p) \notin p + 1 .. n - 1
    BY <2>1, <2>5 DEF Between, Is, IsKind
  <2>7. CloseOf(p) \in Nat
    BY <1>1, <2>4
  <2>8. n \in p + 1 .. CloseOf(p)
    BY <1>1, <1>2, <2>1, <2>4, <2>6, <2>7
  <2> QED BY <2>4, <2>8 DEF Is
<1>5. CASE Hidden(n)
  <2>1. out[n].kind = "blank"
    BY <1>1, <1>5 DEF OutLine, Blank
  <2>2. InNote(n) \/ Is(n, {"blank"}) \/ Lost(n)
    BY <1>1, <1>3, <1>4, <1>5 DEF Hidden, Lost, Lifted
  <2>3. Drawn(n, ForParser) => source[n].kind = "blank"
    BY <1>3, <1>4, <1>5 DEF Hidden, Lifted, ForParser, CoreKinds, Trivia, Declarations
  <2> QED BY <2>1, <2>2, <2>3 DEF LineLeft, Lifted
<1>6. CASE ~ Hidden(n) /\ source[n].kind = "composite"
  <2>4. out[n] = Flattened(source[n])
    BY <1>1, <1>3, <1>6 DEF OutLine
  <2>1. out[n].kind = "state" /\ out[n].id = source[n].id
    BY <2>4 DEF Flattened
  <2>2. ~ InNote(n)
    BY <1>6 DEF Hidden
  <2>3. Drawn(n, {"state", "composite"}) /\ ~ Drawn(n, ForParser)
    BY <1>3, <1>6, <2>2 DEF ForParser, CoreKinds, Trivia, Declarations
  <2> QED BY <1>1, <2>1, <2>3 DEF LineLeft, Lifted
<1>7. CASE ~ Hidden(n) /\ source[n].kind # "composite"
  <2>1. out[n] = source[n]
    BY <1>1, <1>3, <1>7 DEF OutLine
  <2>2. ~ InNote(n) /\ OutsideBlocks(n) /\ source[n].kind \notin Lifted
        /\ (source[n].kind = "close" => CompositesAround(n) = {})
    BY <1>3, <1>7 DEF Hidden, Lifted
  <2> QED BY <1>3, <1>7, <2>1, <2>2 DEF LineLeft
<1> QED BY <1>5, <1>6, <1>7

-----------------------------------------------------------------------------
(* Before line n the parser is in an ignored region.                       *)
Region(n) ==
  \E k \in 1 .. n - 1 : Drawn(k, {"ignore"}) /\ \A j \in Between(k, n) : ~ Drawn(j, {"unignore"})

LEMMA NextRegion ==
  ASSUME NEW n \in Nat \ {0}
  PROVE  /\ Ignored(n) <=> Region(n) \/ Drawn(n, {"ignore"})
         /\ Region(n + 1) <=> Drawn(n, {"ignore"}) \/ (Region(n) /\ ~ Drawn(n, {"unignore"}))
         /\ ~ Region(1)
<1>1. Ignored(n) => Region(n) \/ Drawn(n, {"ignore"})
  <2>1. \A k \in 1 .. n : k \in 1 .. n - 1 \/ k = n
    OBVIOUS
  <2> QED BY <2>1 DEF Region, Ignored
<1>2. Region(n) => Ignored(n)
  <2>1. \A k \in 1 .. n - 1 : k \in 1 .. n
    OBVIOUS
  <2> QED BY <2>1 DEF Region, Ignored
<1>3. Drawn(n, {"ignore"}) => Ignored(n)
  <2>1. n \in 1 .. n /\ n + 1 .. n - 1 = {}
    OBVIOUS
  <2> QED BY <2>1 DEF Ignored, Between
<1>4. PICK m : m = n + 1
  OBVIOUS
<1>5. m \in Nat /\ m - 1 = n
  BY <1>4
<1>6. Drawn(n, {"ignore"}) => Region(m)
  <2>1. n \in 1 .. m - 1 /\ n + 1 .. m - 1 = {}
    BY <1>5
  <2> QED BY <2>1 DEF Region, Between
<1>7. Region(n) /\ ~ Drawn(n, {"unignore"}) => Region(m)
  <2>1. \A k \in 1 .. n - 1 : k \in 1 .. m - 1 /\ \A j \in k + 1 .. m - 1 : j \in k + 1 .. n - 1 \/ j = n
    BY <1>5
  <2> QED BY <2>1 DEF Region, Between
<1>8. Region(m) => Drawn(n, {"ignore"}) \/ (Region(n) /\ ~ Drawn(n, {"unignore"}))
  <2> SUFFICES ASSUME NEW k \in 1 .. m - 1, Drawn(k, {"ignore"}), \A j \in Between(k, m) : ~ Drawn(j, {"unignore"}), k # n
               PROVE  Region(n) /\ ~ Drawn(n, {"unignore"})
    BY DEF Region
  <2>1. k \in 1 .. n - 1 /\ n \in k + 1 .. m - 1 /\ \A j \in k + 1 .. n - 1 : j \in k + 1 .. m - 1
    BY <1>5
  <2> QED BY <2>1 DEF Region, Between
<1>9. ~ Region(1)
  <2>1. 1 .. 1 - 1 = {}
    OBVIOUS
  <2> QED BY <2>1 DEF Region
<1> QED BY <1>1, <1>2, <1>3, <1>4, <1>6, <1>7, <1>8, <1>9

-----------------------------------------------------------------------------
(* What the parser has made of the lines before m.                         *)
Shown(m, kinds) == {n \in 1 .. m - 1 : Drawn(n, kinds) /\ ~ Ignored(n)}

Stated == {"state", "composite"}
Declared == Declarations \cup {"composite"}
Diagrammed == Declared \cup {"var"}

DiagramBefore(m) ==
  DiagramOf(Shown(m, Stated), Shown(m, {"var"}), Shown(m, {"edge"}), Shown(m, {"start"}), Shown(m, {"end"}))

DeclaringAt(m, id) == \E k \in Shown(m, Stated) : source[k].id = id /\ \A j \in Shown(m, Declared) : j <= k

Unclosed(m) == \A n \in 1 .. m - 1 : ~ Ending(n)

ParsedLine(n) ==
  /\ ~ Ending(n)
  /\ ~ InNote(n) /\ ~ Ignored(n) => InPlace(n)
  /\ Drawn(n, {"composite"}) /\ ~ Ignored(n) => ~ \E k \in 1 .. n - 1 : Written(k, {"end"})
  /\ Drawn(n, Lifted \cup {"close"}) /\ ~ Ignored(n) => input.tool = "promote"

ParsedAs(m, c, d, i) ==
  /\ m \in 1 .. Len(source) + 1
  /\ i \in BOOLEAN /\ (i <=> Region(m))
  /\ c = DiagramBefore(m)
  /\ \A id : id # "" => (d = id <=> DeclaringAt(m, id))
  /\ \A n \in 1 .. m - 1 : ParsedLine(n)
  /\ m > 1 => Is(1, {"startuml"})

-----------------------------------------------------------------------------
(* One more line is shown, or not.                                         *)
LEMMA NextShown ==
  ASSUME NEW m \in Nat \ {0}, NEW l, l = m + 1, NEW kinds
  PROVE  /\ Shown(m, kinds) \subseteq 1 .. m - 1
         /\ Drawn(m, kinds) /\ ~ Ignored(m) => Shown(l, kinds) = Shown(m, kinds) \cup {m}
         /\ ~ Drawn(m, kinds) \/ Ignored(m) => Shown(l, kinds) = Shown(m, kinds)
<1>1. \A n : n \in 1 .. l - 1 <=> n \in 1 .. m - 1 \/ n = m
  OBVIOUS
<1> QED BY <1>1, Zenon DEF Shown

(* Before the end of the diagram, what is shown is what is written.        *)
LEMMA WrittenIsShown ==
  ASSUME NEW m \in Nat, Unclosed(m), NEW n \in 1 .. m - 1, NEW kinds
  PROVE  ~ Beyond(n) /\ (Written(n, kinds) <=> n \in Shown(m, kinds))
<1>1. \A k \in 1 .. n - 1 : k \in 1 .. m - 1
  OBVIOUS
<1>2. ~ Beyond(n)
  BY <1>1 DEF Beyond, Unclosed
<1> QED BY <1>2 DEF Written, Shown

(* A variable belongs to the state that is being declared.                 *)
LEMMA BelongsIs ==
  ASSUME NEW m \in Nat, Unclosed(m)
  PROVE  VarBelongs(m) <=> DeclaringAt(m, source[m].state)
<1>1. ASSUME NEW k \in 1 .. m - 1
      PROVE  (\A j \in Between(k, m) : ~ Written(j, Declared)) <=> \A j \in Shown(m, Declared) : j <= k
  <2>1. \A j \in 1 .. m - 1 : j \in k + 1 .. m - 1 <=> ~ (j <= k)
    OBVIOUS
  <2>2. \A j \in k + 1 .. m - 1 : j \in 1 .. m - 1
    OBVIOUS
  <2>3. \A j \in 1 .. m - 1 : Written(j, Declared) <=> j \in Shown(m, Declared)
    BY WrittenIsShown
  <2>4. Shown(m, Declared) \subseteq 1 .. m - 1
    BY DEF Shown
  <2> QED BY <2>1, <2>2, <2>3, <2>4 DEF Between
<1>2. \A k \in 1 .. m - 1 : Declares(k, source[m].state) <=> k \in Shown(m, Stated) /\ source[k].id = source[m].state
  BY WrittenIsShown DEF Declares, Stated
<1>3. Shown(m, Stated) \subseteq 1 .. m - 1
  BY DEF Shown
<1> QED BY <1>1, <1>2, <1>3 DEF VarBelongs, DeclaringAt, Declared

(* The end of the diagram was declared, or not yet.                        *)
LEMMA UnendedIs ==
  ASSUME IsText(source), NEW m \in Nat, Unclosed(m)
  PROVE  TargetIn(Shown(m, {"end"})) = "" <=> ~ \E k \in 1 .. m - 1 : Written(k, {"end"})
<1> DEFINE T == Shown(m, {"end"})
<1>1. T \subseteq 1 .. m
  BY DEF Shown
<1>2. \A n \in T : n \in DOMAIN source /\ source[n].kind = "end"
  BY DEF Shown, Drawn, Is
<1>3. \A k \in 1 .. m - 1 : Written(k, {"end"}) <=> k \in T
  BY WrittenIsShown
<1>4. T \subseteq 1 .. m - 1
  BY DEF Shown
<1> HIDE DEF T
<1>5. TargetIn(T) = "" <=> T = {}
  BY <1>1, <1>2, TargetEmpty
<1>6. TargetIn(T) = "" <=> ~ \E k \in 1 .. m - 1 : Written(k, {"end"})
  BY <1>3, <1>4, <1>5
<1> QED BY <1>6 DEF T

-----------------------------------------------------------------------------
(* Lines that leave the diagram as it is.                                  *)
LEMMA SameDiagram ==
  ASSUME NEW m \in Nat \ {0}, NEW l, l = m + 1, ~ Drawn(m, Diagrammed) \/ Ignored(m)
  PROVE  DiagramBefore(l) = DiagramBefore(m) /\ \A id : DeclaringAt(l, id) <=> DeclaringAt(m, id)
<1>1. ASSUME NEW kinds, kinds \subseteq Diagrammed PROVE Shown(l, kinds) = Shown(m, kinds)
  <2>1. ~ Drawn(m, kinds) \/ Ignored(m)
    BY <1>1 DEF Drawn, Is
  <2> QED BY <2>1, NextShown
<1>2. /\ Shown(l, Stated) = Shown(m, Stated) /\ Shown(l, Declared) = Shown(m, Declared)
      /\ Shown(l, {"var"}) = Shown(m, {"var"}) /\ Shown(l, {"edge"}) = Shown(m, {"edge"})
      /\ Shown(l, {"start"}) = Shown(m, {"start"}) /\ Shown(l, {"end"}) = Shown(m, {"end"})
  <2>1. /\ Stated \subseteq Diagrammed /\ Declared \subseteq Diagrammed /\ {"var"} \subseteq Diagrammed
        /\ {"edge"} \subseteq Diagrammed /\ {"start"} \subseteq Diagrammed /\ {"end"} \subseteq Diagrammed
    BY DEF Stated, Declared, Diagrammed, Declarations
  <2> QED BY <1>1, <2>1
<1> QED BY <1>2 DEF DiagramBefore, DeclaringAt

(* One line more is parsed.                                                *)
LEMMA ParsedFurther ==
  ASSUME IsText(source), NEW m, NEW c, NEW d, NEW i, ParsedAs(m, c, d, i), m \in DOMAIN source, ParsedLine(m),
         m = 1 => Is(1, {"startuml"}), NEW l, l = m + 1,
         NEW cc, cc = DiagramBefore(l), NEW dd, \A id : id # "" => (dd = id <=> DeclaringAt(l, id)),
         NEW ii \in BOOLEAN, ii <=> Region(l)
  PROVE  ParsedAs(l, cc, dd, ii)
<1>1. m \in 1 .. Len(source) /\ Len(source) \in Nat
  BY LinesAre
<1>2. l \in 1 .. Len(source) + 1 /\ l > 1 /\ \A n \in 1 .. l - 1 : n \in 1 .. m - 1 \/ n = m
  BY ONLY <1>1, l = m + 1
<1>3. \A n \in 1 .. l - 1 : ParsedLine(n)
  BY <1>2 DEF ParsedAs
<1>4. Is(1, {"startuml"})
  <2>1. m = 1 \/ m > 1
    BY ONLY <1>1
  <2> QED BY <2>1 DEF ParsedAs
<1> QED BY <1>2, <1>3, <1>4 DEF ParsedAs

-----------------------------------------------------------------------------
(* One more line of the diagram.                                           *)
OneMoreShown(m, l, kind) == m \in Nat \ {0} /\ l = m + 1 /\ Drawn(m, {kind}) /\ ~ Ignored(m)

LEMMA KindShown ==
  ASSUME NEW m, NEW l, NEW kind, OneMoreShown(m, l, kind), NEW kinds
  PROVE  /\ Shown(m, kinds) \subseteq 1 .. m - 1
         /\ Shown(l, kinds) = IF kind \in kinds THEN Shown(m, kinds) \cup {m} ELSE Shown(m, kinds)
<1>1. m \in Nat \ {0} /\ l = m + 1 /\ ~ Ignored(m) /\ (Drawn(m, kinds) <=> kind \in kinds)
  BY DEF OneMoreShown, Drawn, Is
<1> QED BY <1>1, NextShown

(* The diagram grows by that line.                                         *)
LEMMA StateShown ==
  ASSUME NEW m, NEW l, NEW kind \in Stated, OneMoreShown(m, l, kind), NEW c, c = DiagramBefore(m)
  PROVE  /\ DiagramBefore(l) = [c EXCEPT !.states = WithState(c.states, m)]
         /\ \A id : DeclaringAt(l, id) <=> id = source[m].id
<1> DEFINE S == Shown(m, Stated)
           V == Shown(m, {"var"})
           new == WithState(c.states, m)
<1>1. m \in Nat \ {0}
  BY DEF OneMoreShown
<1>2. S \subseteq 1 .. m - 1 /\ V \subseteq 1 .. m - 1
  BY KindShown
<1>3. /\ Shown(l, Stated) = S \cup {m} /\ Shown(l, {"var"}) = V /\ Shown(l, {"edge"}) = Shown(m, {"edge"})
      /\ Shown(l, {"start"}) = Shown(m, {"start"}) /\ Shown(l, {"end"}) = Shown(m, {"end"})
      /\ Shown(l, Declared) = Shown(m, Declared) \cup {m}
  <2>1. kind \in Declared /\ kind \notin {"var"} /\ kind \notin {"edge"} /\ kind \notin {"start"} /\ kind \notin {"end"}
    BY DEF Declared, Stated, Declarations
  <2> QED BY <2>1, KindShown
<1>4. c = [states |-> StatesOf(S, V), edges |-> c.edges, start |-> c.start, end |-> c.end]
  BY DEF DiagramBefore, DiagramOf
<1>5. DiagramBefore(l) = [states |-> StatesOf(S \cup {m}, V), edges |-> c.edges, start |-> c.start, end |-> c.end]
  BY <1>3 DEF DiagramBefore, DiagramOf
<1> HIDE DEF S, V
<1>6. StatesOf(S \cup {m}, V) = new
  <2>1. StatesOf(S \cup {m}, V) = WithState(StatesOf(S, V), m)
    BY <1>1, <1>2, StateGrows
  <2>2. c.states = StatesOf(S, V)
    BY <1>4
  <2> QED BY <2>1, <2>2
<1> HIDE DEF new
<1>7. [c EXCEPT !.states = new] = [states |-> new, edges |-> c.edges, start |-> c.start, end |-> c.end]
  BY <1>4
<1>8. DiagramBefore(l) = [c EXCEPT !.states = new]
  BY <1>5, <1>6, <1>7
<1>9. ASSUME NEW id PROVE DeclaringAt(l, id) <=> id = source[m].id
  <2>1. Shown(m, Declared) \subseteq 1 .. m - 1
    BY KindShown
  <2>2. \A j \in Shown(m, Declared) \cup {m} : j <= m
    BY <1>1, <2>1
  <2>3. \A k \in S : ~ (m <= k)
    BY <1>1, <1>2
  <2> QED BY <1>3, <2>2, <2>3 DEF DeclaringAt
<1> QED BY <1>8, <1>9 DEF new

LEMMA VarShown ==
  ASSUME NEW m, NEW l, OneMoreShown(m, l, "var"), NEW c, c = DiagramBefore(m), DeclaringAt(m, source[m].state)
  PROVE  /\ DiagramBefore(l) = [c EXCEPT !.states = WithVariable(c.states, m)]
         /\ \A id : DeclaringAt(l, id) <=> DeclaringAt(m, id)
<1> DEFINE S == Shown(m, Stated)
           V == Shown(m, {"var"})
           new == WithVariable(c.states, m)
<1>1. m \in Nat \ {0}
  BY DEF OneMoreShown
<1>2. S \subseteq 1 .. m - 1 /\ V \subseteq 1 .. m - 1
  BY KindShown
<1>3. /\ Shown(l, Stated) = S /\ Shown(l, {"var"}) = V \cup {m} /\ Shown(l, {"edge"}) = Shown(m, {"edge"})
      /\ Shown(l, {"start"}) = Shown(m, {"start"}) /\ Shown(l, {"end"}) = Shown(m, {"end"})
      /\ Shown(l, Declared) = Shown(m, Declared)
  <2>1. "var" \notin Declared /\ "var" \notin Stated /\ "var" \in {"var"} /\ "var" \notin {"edge"}
        /\ "var" \notin {"start"} /\ "var" \notin {"end"}
    BY DEF Declared, Stated, Declarations
  <2> QED BY <2>1, KindShown
<1>4. c = [states |-> StatesOf(S, V), edges |-> c.edges, start |-> c.start, end |-> c.end]
  BY DEF DiagramBefore, DiagramOf
<1>5. DiagramBefore(l) = [states |-> StatesOf(S, V \cup {m}), edges |-> c.edges, start |-> c.start, end |-> c.end]
  BY <1>3 DEF DiagramBefore, DiagramOf
<1>6. PICK d \in S : source[d].id = source[m].state
  BY DEF DeclaringAt
<1> HIDE DEF S, V
<1>7. StatesOf(S, V \cup {m}) = new
  <2>1. StatesOf(S, V \cup {m}) = WithVariable(StatesOf(S, V), m)
    BY <1>1, <1>2, <1>6, VarGrows
  <2>2. c.states = StatesOf(S, V)
    BY <1>4
  <2> QED BY <2>1, <2>2
<1> HIDE DEF new
<1>8. [c EXCEPT !.states = new] = [states |-> new, edges |-> c.edges, start |-> c.start, end |-> c.end]
  BY <1>4
<1>9. \A i : DeclaringAt(l, i) <=> DeclaringAt(m, i)
  BY <1>3 DEF DeclaringAt, S
<1>10. DiagramBefore(l) = [c EXCEPT !.states = new]
  BY <1>5, <1>7, <1>8
<1> QED BY <1>9, <1>10 DEF new

LEMMA EdgeShown ==
  ASSUME NEW m, NEW l, NEW kind \in {"start", "edge", "end"}, OneMoreShown(m, l, kind), NEW c, c = DiagramBefore(m)
  PROVE  /\ kind = "start" => DiagramBefore(l) = [c EXCEPT !.start = source[m].id]
         /\ kind = "end" => DiagramBefore(l) = [c EXCEPT !.end = source[m].id]
         /\ kind = "edge" => DiagramBefore(l) = [c EXCEPT !.edges = @ \cup {[line |-> m, edge |-> source[m].edge]}]
         /\ \A id : ~ DeclaringAt(l, id)
<1> DEFINE S == Shown(m, Stated)
           V == Shown(m, {"var"})
           E == Shown(m, {"edge"})
           T == Shown(m, {"start"})
           U == Shown(m, {"end"})
<1>1. m \in Nat \ {0}
  BY DEF OneMoreShown
<1>2. S \subseteq 1 .. m - 1 /\ T \subseteq 1 .. m - 1 /\ U \subseteq 1 .. m - 1
  BY KindShown
<1>3. /\ Shown(l, Stated) = S /\ Shown(l, {"var"}) = V /\ Shown(l, Declared) = Shown(m, Declared) \cup {m}
      /\ Shown(l, {"edge"}) = IF kind = "edge" THEN E \cup {m} ELSE E
      /\ Shown(l, {"start"}) = IF kind = "start" THEN T \cup {m} ELSE T
      /\ Shown(l, {"end"}) = IF kind = "end" THEN U \cup {m} ELSE U
  <2>1. kind \in Declared /\ kind \notin Stated /\ kind \notin {"var"}
    BY DEF Declared, Stated, Declarations
  <2>2. ASSUME NEW kinds
        PROVE  Shown(l, kinds) = IF kind \in kinds THEN Shown(m, kinds) \cup {m} ELSE Shown(m, kinds)
    BY KindShown
  <2>3. /\ Shown(l, {"edge"}) = IF kind = "edge" THEN E \cup {m} ELSE E
        /\ Shown(l, {"start"}) = IF kind = "start" THEN T \cup {m} ELSE T
        /\ Shown(l, {"end"}) = IF kind = "end" THEN U \cup {m} ELSE U
    BY ONLY <2>2
  <2>4. Shown(l, Stated) = S /\ Shown(l, {"var"}) = V /\ Shown(l, Declared) = Shown(m, Declared) \cup {m}
    BY ONLY <2>1, <2>2
  <2> QED BY <2>3, <2>4
<1>4. c = [states |-> StatesOf(S, V), edges |-> EdgesOf(E), start |-> TargetIn(T), end |-> TargetIn(U)]
  BY DEF DiagramBefore, DiagramOf
<1>5. DiagramBefore(l) =
        [states |-> StatesOf(S, V), edges |-> EdgesOf(Shown(l, {"edge"})), start |-> TargetIn(Shown(l, {"start"})),
         end |-> TargetIn(Shown(l, {"end"}))]
  BY <1>3 DEF DiagramBefore, DiagramOf
<1>6. EdgesOf(E \cup {m}) = EdgesOf(E) \cup {[line |-> m, edge |-> source[m].edge]}
  BY DEF EdgesOf
<1> HIDE DEF S, V, E, T, U
<1>7. TargetIn(T \cup {m}) = source[m].id /\ TargetIn(U \cup {m}) = source[m].id
  BY <1>1, <1>2, TargetGrows
<1>8. ASSUME kind = "start" PROVE DiagramBefore(l) = [c EXCEPT !.start = source[m].id]
  <2>1. DiagramBefore(l) = [states |-> StatesOf(S, V), edges |-> EdgesOf(E), start |-> source[m].id, end |-> TargetIn(U)]
    BY <1>3, <1>5, <1>7, <1>8
  <2>2. [c EXCEPT !.start = source[m].id] =
          [states |-> StatesOf(S, V), edges |-> EdgesOf(E), start |-> source[m].id, end |-> TargetIn(U)]
    BY <1>4
  <2> QED BY <2>1, <2>2
<1>9. ASSUME kind = "end" PROVE DiagramBefore(l) = [c EXCEPT !.end = source[m].id]
  <2>1. DiagramBefore(l) = [states |-> StatesOf(S, V), edges |-> EdgesOf(E), start |-> TargetIn(T), end |-> source[m].id]
    BY <1>3, <1>5, <1>7, <1>9
  <2>2. [c EXCEPT !.end = source[m].id] =
          [states |-> StatesOf(S, V), edges |-> EdgesOf(E), start |-> TargetIn(T), end |-> source[m].id]
    BY <1>4
  <2> QED BY <2>1, <2>2
<1>10. ASSUME kind = "edge"
       PROVE  DiagramBefore(l) = [c EXCEPT !.edges = @ \cup {[line |-> m, edge |-> source[m].edge]}]
  <2> DEFINE x == [line |-> m, edge |-> source[m].edge]
  <2>1. DiagramBefore(l) = [states |-> StatesOf(S, V), edges |-> EdgesOf(E) \cup {x}, start |-> TargetIn(T), end |-> TargetIn(U)]
    BY <1>3, <1>5, <1>6, <1>10
  <2> HIDE DEF x
  <2>2. [c EXCEPT !.edges = @ \cup {x}] =
          [states |-> StatesOf(S, V), edges |-> EdgesOf(E) \cup {x}, start |-> TargetIn(T), end |-> TargetIn(U)]
    BY <1>4
  <2> QED BY <2>1, <2>2 DEF x
<1>11. \A id : ~ DeclaringAt(l, id)
  <2>1. \A k \in S : ~ (m <= k)
    BY <1>1, <1>2
  <2> QED BY <1>3, <2>1 DEF DeclaringAt
<1> QED BY <1>8, <1>9, <1>10, <1>11

-----------------------------------------------------------------------------
(* The steps of the parser.                                                *)
ParsedSoFar == ParsedAs(at, core, declaring, ignoring)
ParsedNext == ParsedAs(at', core', declaring', ignoring')

(* The next line of what is left is a line of the text.                    *)
LEMMA LineToParse ==
  ASSUME TextsInv, Left, ParsedSoFar, at <= Len(out)
  PROVE  /\ at \in DOMAIN source /\ at \in Nat \ {0} /\ LineLeft(at) /\ IsLine(source[at]) /\ Unclosed(at)
         /\ \A kinds : Is(at, kinds) <=> source[at].kind \in kinds
         /\ \A kinds : Drawn(at, kinds) <=> ~ InNote(at) /\ source[at].kind \in kinds
<1>1. at \in 1 .. Len(source) + 1 /\ Len(out) = Len(source) /\ IsText(source)
  BY DEF ParsedSoFar, ParsedAs, Left, TextsInv
<1>2. Len(source) \in Nat /\ DOMAIN source = 1 .. Len(source)
  BY <1>1, LinesAre
<1>3. at \in 1 .. Len(source)
  BY ONLY <1>1, <1>2, at <= Len(out)
<1>4. at \in DOMAIN source /\ LineLeft(at)
  BY <1>2, <1>3, Zenon DEF Left
<1>5. IsLine(source[at]) /\ at \in Nat \ {0}
  BY <1>1, <1>4, TextOfLines
<1>6. Unclosed(at)
  BY DEF ParsedSoFar, ParsedAs, ParsedLine, Unclosed
<1>7. /\ \A kinds : Is(at, kinds) <=> source[at].kind \in kinds
      /\ \A kinds : Drawn(at, kinds) <=> ~ InNote(at) /\ source[at].kind \in kinds
  BY <1>4 DEF Is, Drawn
<1> QED BY <1>4, <1>5, <1>6, <1>7

(* The parser ignores a line as the text tells it to.                      *)
LEMMA LineIgnored ==
  ASSUME TextsInv, Left, ParsedSoFar, at <= Len(out), NEW l, l = at + 1
  PROVE  /\ Ignored(at) <=> ignoring \/ Drawn(at, {"ignore"})
         /\ Region(l) <=> Drawn(at, {"ignore"}) \/ (ignoring /\ ~ Drawn(at, {"unignore"}))
         /\ ignoring => at > 1
<1>1. at \in Nat \ {0}
  BY LineToParse
<1>2. ignoring <=> Region(at)
  BY DEF ParsedSoFar, ParsedAs
<1>3. /\ Ignored(at) <=> Region(at) \/ Drawn(at, {"ignore"})
      /\ Region(l) <=> Drawn(at, {"ignore"}) \/ (Region(at) /\ ~ Drawn(at, {"unignore"}))
      /\ ~ Region(1)
  BY <1>1, NextRegion
<1>4. at = 1 \/ at > 1
  BY ONLY <1>1
<1> QED BY <1>2, <1>3, <1>4

(* A line that the parser passes over.                                     *)
LEMMA PassedOver ==
  ASSUME TextsInv, Left, ParsedSoFar, at <= Len(out), at' = at + 1, UNCHANGED <<core, declaring>>,
         ~ Drawn(at, Diagrammed) \/ Ignored(at), ParsedLine(at), at = 1 => Is(1, {"startuml"}),
         ignoring' \in BOOLEAN,
         ignoring' <=> Drawn(at, {"ignore"}) \/ (ignoring /\ ~ Drawn(at, {"unignore"}))
  PROVE  ParsedNext
<1>1. at \in DOMAIN source /\ at \in Nat \ {0}
  BY LineToParse
<1> DEFINE l == at'
<1>2. l = at + 1
  OBVIOUS
<1>3. core' = core /\ declaring' = declaring
  OBVIOUS
<1> HIDE DEF l
<1>4. ignoring' <=> Region(l)
  BY <1>2, LineIgnored
<1>5. DiagramBefore(l) = DiagramBefore(at) /\ \A id : DeclaringAt(l, id) <=> DeclaringAt(at, id)
  BY <1>1, <1>2, SameDiagram
<1>6. core' = DiagramBefore(l) /\ \A id : id # "" => (declaring' = id <=> DeclaringAt(l, id))
  BY <1>3, <1>5 DEF ParsedSoFar, ParsedAs
<1>7. IsText(source)
  BY DEF TextsInv
<1>8. ParsedAs(l, core', declaring', ignoring')
  BY <1>1, <1>2, <1>4, <1>6, <1>7, ParsedFurther DEF ParsedSoFar
<1> QED BY <1>8 DEF l, ParsedNext

(* The first line, and the lines that are skipped.                         *)
LEMMA OpeningParsed ==
  ASSUME TextsInv, Left, ParsedSoFar, ParseOpening, ~ ParseError
  PROVE  ParsedNext
<1>1. at = 1 /\ Len(out) > 1 /\ out[1].kind = "startuml" /\ at' = at + 1 /\ UNCHANGED <<core, declaring, ignoring>>
  BY DEF ParseOpening, Parsed
<1>2. at <= Len(out)
  BY ONLY <1>1, TextsInv, LinesAre DEF TextsInv
<1>3. /\ ~ InNote(at) /\ source[at].kind = "startuml"
      /\ \A kinds : Is(at, kinds) <=> source[at].kind \in kinds
      /\ \A kinds : Drawn(at, kinds) <=> source[at].kind \in kinds
  BY <1>1, <1>2, LineToParse DEF LineLeft
<1>4. ~ ignoring /\ ignoring \in BOOLEAN
  <2>1. ~ (at > 1)
    BY <1>1
  <2>2. ignoring \in BOOLEAN
    BY DEF ParsedSoFar, ParsedAs
  <2> QED BY <1>2, <2>1, <2>2, LineIgnored
<1>5. ~ Drawn(at, Diagrammed) /\ ~ Drawn(at, {"ignore"})
  BY <1>3 DEF Diagrammed, Declared, Declarations
<1>6. ParsedLine(at)
  <2>1. InPlace(at)
    BY <1>1, <1>3 DEF InPlace
  <2>2. ~ Ending(at) /\ ~ Drawn(at, {"composite"}) /\ ~ Drawn(at, Lifted \cup {"close"})
    BY <1>3 DEF Ending, Lifted
  <2> QED BY <2>1, <2>2 DEF ParsedLine
<1>7. Is(1, {"startuml"})
  BY <1>1, <1>3
<1> QED BY <1>1, <1>2, <1>4, <1>5, <1>6, <1>7, PassedOver

LEMMA RegionParsed ==
  ASSUME TextsInv, Left, ParsedSoFar, skipIgnoreRegion
  PROVE  ParsedNext
<1>1. at <= Len(out) /\ ignoring /\ ignoring' = (out[at].kind # "unignore") /\ at' = at + 1 /\ UNCHANGED <<core, declaring>>
  BY DEF skipIgnoreRegion, Parsed
<1>2. LineLeft(at) /\ \A kinds : Drawn(at, kinds) <=> ~ InNote(at) /\ source[at].kind \in kinds
  BY <1>1, LineToParse
<1>3. Ignored(at) /\ ~ (at = 1)
  BY <1>1, LineIgnored
<1>4. out[at].kind = "unignore" <=> Drawn(at, {"unignore"})
  BY <1>2 DEF LineLeft, ForParser, CoreKinds, Trivia
<1>5. ParsedLine(at)
  BY <1>3 DEF ParsedLine, Ending
<1>6. ignoring' \in BOOLEAN /\ (ignoring' <=> ~ Drawn(at, {"unignore"}))
  BY <1>1, <1>4, Zenon
<1>7. Drawn(at, {"ignore"}) => ~ Drawn(at, {"unignore"})
  BY <1>2
<1> QED BY <1>1, <1>3, <1>5, <1>6, <1>7, PassedOver

LEMMA TriviaParsed ==
  ASSUME TextsInv, Left, ParsedSoFar, skipTrivia
  PROVE  ParsedNext
<1>1. /\ at \in 2 .. Len(out) /\ ~ ignoring /\ out[at].kind \in Trivia \cup {"ignore"}
      /\ ignoring' = (out[at].kind = "ignore") /\ at' = at + 1 /\ UNCHANGED <<core, declaring>>
  BY DEF skipTrivia, Parsing, Parsed
<1>2. at <= Len(out) /\ at # 1
  BY ONLY <1>1
<1>3. /\ LineLeft(at) /\ \A kinds : Is(at, kinds) <=> source[at].kind \in kinds
      /\ \A kinds : Drawn(at, kinds) <=> ~ InNote(at) /\ source[at].kind \in kinds
  BY <1>2, LineToParse
<1>4. Ignored(at) <=> Drawn(at, {"ignore"})
  BY <1>1, <1>2, LineIgnored
<1>5. CASE out[at].kind = "blank"
  <2>1. InNote(at) \/ Is(at, {"blank"}) \/ Lost(at)
    BY <1>3, <1>5 DEF LineLeft
  <2>2. Drawn(at, ForParser) => source[at].kind = "blank"
    BY <1>3, <1>5 DEF LineLeft
  <2>3. ~ Drawn(at, {"ignore"}) /\ ~ Ending(at) /\ ~ Drawn(at, {"composite"}) /\ ~ Drawn(at, Diagrammed)
    BY <1>3, <2>1, <2>2 DEF ForParser, CoreKinds, Trivia, Declarations, Diagrammed, Declared, Ending, Lost, Lifted
  <2>4. ~ InNote(at) => InPlace(at)
    <3>1. CASE Is(at, {"blank"})
      BY <1>3, <3>1 DEF InPlace, Trivia
    <3>2. CASE Is(at, Lifted \ {"composite"})
      BY <1>3, <3>2 DEF InPlace, Lifted
    <3>3. CASE Is(at, {"close"}) /\ (CompositesAround(at) # {} \/ ~ OutsideBlocks(at))
      <4>1. CompositesAround(at) # {} \/ \E p \in 1 .. at : InBlock(at, p)
        BY <3>3 DEF OutsideBlocks
      <4>2. /\ source[at].kind = "close"
        BY <1>3, <3>3
      <4> QED BY <1>3, <4>1, <4>2 DEF InPlace
    <3> QED BY <2>1, <3>1, <3>2, <3>3 DEF Lost
  <2>5. Drawn(at, Lifted \cup {"close"}) => input.tool = "promote"
    BY <1>3, <2>1 DEF Lost, Lifted
  <2>6. ParsedLine(at)
    BY <2>3, <2>4, <2>5 DEF ParsedLine
  <2>7. ignoring' \in BOOLEAN /\ ~ ignoring'
    BY <1>1, <1>5
  <2> QED BY <1>1, <1>2, <2>3, <2>6, <2>7, PassedOver
<1>6. CASE out[at].kind # "blank"
  <2>1. ~ InNote(at) /\ source[at].kind = out[at].kind
    BY <1>1, <1>3, <1>6 DEF LineLeft, Trivia
  <2>2. ~ Drawn(at, Diagrammed)
    BY <1>1, <1>3, <2>1 DEF Diagrammed, Declared, Declarations, Trivia
  <2>3. ParsedLine(at)
    <3>1. ~ Ignored(at) => InPlace(at)
      BY <1>1, <1>3, <1>4, <2>1 DEF InPlace, Trivia
    <3>2. ~ Ending(at) /\ ~ Drawn(at, {"composite"}) /\ ~ Drawn(at, Lifted \cup {"close"})
      BY <1>1, <1>3, <2>1 DEF Ending, Lifted, Trivia
    <3> QED BY <3>1, <3>2 DEF ParsedLine
  <2>4. ignoring' <=> Drawn(at, {"ignore"})
    BY <1>1, <1>3, <2>1
  <2>5. ignoring' \in BOOLEAN
    BY <1>1
  <2> QED BY <1>1, <1>2, <2>2, <2>3, <2>4, <2>5, PassedOver
<1> QED BY <1>5, <1>6

-----------------------------------------------------------------------------
(* A line that is more than trivia is shown.                               *)
LEMMA LineUsed ==
  ASSUME TextsInv, Left, ParsedSoFar, NEW kinds, Parsing(kinds), "blank" \notin kinds, "ignore" \notin kinds
  PROVE  /\ at <= Len(out) /\ at # 1 /\ ~ ignoring /\ out[at].kind \in kinds
         /\ ~ InNote(at) /\ ~ Ignored(at) /\ (out[at].kind # "state" => out[at] = source[at])
         /\ out[at].kind = "state" =>
              source[at].kind \in Stated /\ out[at].id = source[at].id /\ (source[at].kind = "composite" => input.tool = "promote")
<1>1. at \in 2 .. Len(out) /\ ~ ignoring /\ out[at].kind \in kinds
  BY DEF Parsing
<1>2. at <= Len(out) /\ at # 1
  BY ONLY <1>1
<1>3. /\ LineLeft(at) /\ \A ks : Is(at, ks) <=> source[at].kind \in ks
      /\ \A ks : Drawn(at, ks) <=> ~ InNote(at) /\ source[at].kind \in ks
  BY <1>2, LineToParse
<1>4. out[at].kind # "blank" /\ out[at].kind # "ignore"
  BY <1>1
<1>5. CASE out[at].kind = "state"
  <2>1. /\ ~ InNote(at) /\ source[at].kind \in Stated /\ out[at].id = source[at].id
        /\ source[at].kind = "composite" => input.tool = "promote"
    BY <1>3, <1>5 DEF LineLeft, Stated
  <2>2. ~ Drawn(at, {"ignore"})
    BY <1>3, <2>1 DEF Stated
  <2> QED BY <1>1, <1>2, <1>5, <2>1, <2>2, LineIgnored
<1>6. CASE out[at].kind # "state"
  <2>1. ~ InNote(at) /\ out[at] = source[at]
    BY <1>3, <1>4, <1>6 DEF LineLeft
  <2>2. ~ Drawn(at, {"ignore"})
    BY <1>3, <1>4, <2>1
  <2> QED BY <1>1, <1>2, <1>6, <2>1, <2>2, LineIgnored
<1> QED BY <1>5, <1>6

(* A line that the diagram grows by.                                       *)
LEMMA GrownParsed ==
  ASSUME TextsInv, Left, ParsedSoFar, at <= Len(out), at # 1, UNCHANGED ignoring, ~ ignoring, ~ Ignored(at),
         ParsedLine(at), NEW l, l = at + 1, at' = l, core' = DiagramBefore(l),
         \A id : id # "" => (declaring' = id <=> DeclaringAt(l, id))
  PROVE  ParsedNext
<1>1. at \in DOMAIN source
  BY LineToParse
<1>2. ~ Region(l) /\ ignoring \in BOOLEAN
  BY LineIgnored DEF ParsedSoFar, ParsedAs
<1>3. IsText(source)
  BY DEF TextsInv
<1>4. ParsedAs(l, core', declaring', ignoring')
  BY <1>1, <1>2, <1>3, ParsedFurther DEF ParsedSoFar
<1> QED BY <1>4 DEF ParsedNext

(* It has no end yet.                                                      *)
LEMMA EndNotSeen ==
  ASSUME TextsInv, Left, ParsedSoFar, at <= Len(out)
  PROVE  Unended <=> ~ \E k \in 1 .. at - 1 : Written(k, {"end"})
<1>1. at \in Nat /\ Unclosed(at) /\ IsText(source)
  BY LineToParse DEF TextsInv
<1>2. core.end = TargetIn(Shown(at, {"end"}))
  BY DEF ParsedSoFar, ParsedAs, DiagramBefore, DiagramOf
<1> QED BY <1>1, <1>2, UnendedIs DEF Unended

LEMMA StateParsed ==
  ASSUME TextsInv, Left, ParsedSoFar, parseState
  PROVE  ParsedNext
<1>1. /\ Parsing({"state"}) /\ Unended /\ at' = at + 1 /\ UNCHANGED ignoring /\ declaring' = out[at].id
      /\ core' = [core EXCEPT !.states =
                    [id \in DOMAIN core.states \cup {out[at].id} |->
                       IF id = out[at].id THEN [line |-> at, vars |-> << >>] ELSE core.states[id]]]
  BY DEF parseState, Parsed
<1>2. /\ at <= Len(out) /\ at # 1 /\ ~ ignoring /\ ~ InNote(at) /\ ~ Ignored(at)
      /\ source[at].kind \in Stated /\ out[at].id = source[at].id
      /\ source[at].kind = "composite" => input.tool = "promote"
  BY <1>1, LineUsed
<1>3. /\ at \in Nat \ {0} /\ IsLine(source[at])
      /\ \A kinds : Is(at, kinds) <=> source[at].kind \in kinds
      /\ \A kinds : Drawn(at, kinds) <=> source[at].kind \in kinds
  BY <1>2, LineToParse
<1> DEFINE l == at'
           kind == source[at].kind
<1>4. OneMoreShown(at, l, kind)
  BY <1>1, <1>2, <1>3 DEF OneMoreShown
<1>5. core = DiagramBefore(at)
  BY DEF ParsedSoFar, ParsedAs
<1>6. l = at + 1 /\ kind \in Stated
  BY <1>1, <1>2
<1> HIDE DEF l, kind
<1>7. DiagramBefore(l) = [core EXCEPT !.states = WithState(core.states, at)] /\ \A id : DeclaringAt(l, id) <=> id = source[at].id
  BY <1>4, <1>5, <1>6, StateShown
<1>8. core' = DiagramBefore(l)
  BY <1>1, <1>2, <1>7 DEF WithState
<1>9. ParsedLine(at)
  <2>1. ~ \E k \in 1 .. at - 1 : Written(k, {"end"})
    BY <1>1, <1>2, EndNotSeen
  <2>2. InPlace(at)
    <3>1. source[at].kind = "state" \/ source[at].kind = "composite"
      BY <1>2 DEF Stated
    <3> QED BY <1>3, <2>1, <3>1 DEF InPlace, Lifted
  <2>3. ~ Ending(at) /\ (Drawn(at, Lifted \cup {"close"}) => input.tool = "promote")
    BY <1>2, <1>3 DEF Ending, Stated, Lifted
  <2> QED BY <2>1, <2>2, <2>3 DEF ParsedLine
<1>10. \A id : id # "" => (declaring' = id <=> DeclaringAt(l, id))
  BY <1>1, <1>2, <1>7
<1>11. at' = l
  BY DEF l
<1> QED BY <1>1, <1>2, <1>6, <1>8, <1>9, <1>10, <1>11, GrownParsed

LEMMA VarParsed ==
  ASSUME TextsInv, Left, ParsedSoFar, parseStateVar
  PROVE  ParsedNext
<1>1. /\ Parsing({"var"}) /\ out[at].state = declaring /\ at' = at + 1 /\ UNCHANGED <<declaring, ignoring>>
      /\ core' = [core EXCEPT !.states[declaring].vars = Append(@, [name |-> out[at].name, type |-> out[at].type])]
  BY DEF parseStateVar, Parsed
<1>2. /\ at <= Len(out) /\ at # 1 /\ ~ ignoring /\ ~ InNote(at) /\ ~ Ignored(at) /\ out[at] = source[at]
      /\ source[at].kind = "var"
  BY <1>1, LineUsed
<1>3. /\ at \in Nat \ {0} /\ IsLine(source[at]) /\ Unclosed(at)
      /\ \A kinds : Is(at, kinds) <=> source[at].kind \in kinds
      /\ \A kinds : Drawn(at, kinds) <=> source[at].kind \in kinds
  BY <1>2, LineToParse
<1>4. declaring = source[at].state /\ source[at].state # ""
  BY <1>1, <1>2, <1>3 DEF IsLine
<1>5. DeclaringAt(at, source[at].state) /\ core = DiagramBefore(at)
  BY <1>4 DEF ParsedSoFar, ParsedAs
<1> DEFINE l == at'
<1>6. OneMoreShown(at, l, "var")
  BY <1>1, <1>2, <1>3 DEF OneMoreShown
<1> HIDE DEF l
<1>7. /\ DiagramBefore(l) = [core EXCEPT !.states = WithVariable(core.states, at)]
      /\ \A id : DeclaringAt(l, id) <=> DeclaringAt(at, id)
  BY <1>5, <1>6, VarShown
<1>8. core' = DiagramBefore(l)
  <2>1. core' = [core EXCEPT !.states[source[at].state].vars = Append(@, [name |-> source[at].name, type |-> source[at].type])]
    BY <1>1, <1>2, <1>4
  <2> QED BY <1>7, <2>1 DEF WithVariable
<1>9. ParsedLine(at)
  <2>1. VarBelongs(at)
    BY <1>3, <1>5, BelongsIs
  <2>2. InPlace(at)
    BY <1>2, <1>3, <2>1 DEF InPlace
  <2>3. ~ Ending(at) /\ ~ Drawn(at, {"composite"}) /\ ~ Drawn(at, Lifted \cup {"close"})
    BY <1>2, <1>3 DEF Ending, Lifted
  <2> QED BY <2>2, <2>3 DEF ParsedLine
<1>10. \A id : id # "" => (declaring' = id <=> DeclaringAt(l, id))
  BY <1>1, <1>7 DEF ParsedSoFar, ParsedAs
<1>11. at' = l /\ l = at + 1
  BY <1>1 DEF l
<1> QED BY <1>1, <1>2, <1>8, <1>9, <1>10, <1>11, GrownParsed

LEMMA EdgeParsed ==
  ASSUME TextsInv, Left, ParsedSoFar, parseStartEdge \/ parseEdge \/ parseEndEdge
  PROVE  ParsedNext
<1>1. PICK kind \in {"start", "edge", "end"} :
        /\ Parsing({kind}) /\ Unended /\ at' = at + 1 /\ UNCHANGED ignoring /\ declaring' = ""
        /\ kind = "start" => core' = [core EXCEPT !.start = out[at].id]
        /\ kind = "end" => core' = [core EXCEPT !.end = out[at].id]
        /\ kind = "edge" => core' = [core EXCEPT !.edges = @ \cup {[line |-> at, edge |-> out[at].edge]}]
  <2>1. CASE parseStartEdge
    BY <2>1 DEF parseStartEdge, Parsed
  <2>2. CASE parseEdge
    BY <2>2 DEF parseEdge, Parsed
  <2>3. CASE parseEndEdge
    BY <2>3 DEF parseEndEdge, Parsed
  <2> QED BY <2>1, <2>2, <2>3
<1>2. /\ at <= Len(out) /\ at # 1 /\ ~ ignoring /\ ~ InNote(at) /\ ~ Ignored(at) /\ out[at] = source[at]
      /\ source[at].kind = kind
  <2>1. "blank" \notin {kind} /\ "ignore" \notin {kind} /\ kind # "state"
    OBVIOUS
  <2>2. Parsing({kind})
    BY <1>1
  <2> HIDE <1>1
  <2>3. /\ at <= Len(out) /\ at # 1 /\ ~ ignoring /\ ~ InNote(at) /\ ~ Ignored(at)
        /\ out[at].kind \in {kind} /\ (out[at].kind # "state" => out[at] = source[at])
    BY <2>1, <2>2, LineUsed
  <2> QED BY <2>1, <2>3
<1>3. /\ at \in Nat \ {0} /\ IsLine(source[at])
      /\ \A kinds : Is(at, kinds) <=> source[at].kind \in kinds
      /\ \A kinds : Drawn(at, kinds) <=> source[at].kind \in kinds
  BY <1>2, LineToParse
<1> DEFINE l == at'
<1>4. OneMoreShown(at, l, kind)
  BY <1>1, <1>2, <1>3 DEF OneMoreShown
<1>5. core = DiagramBefore(at)
  BY DEF ParsedSoFar, ParsedAs
<1> HIDE DEF l
<1>7. /\ kind = "start" => DiagramBefore(l) = [core EXCEPT !.start = source[at].id]
      /\ kind = "end" => DiagramBefore(l) = [core EXCEPT !.end = source[at].id]
      /\ kind = "edge" => DiagramBefore(l) = [core EXCEPT !.edges = @ \cup {[line |-> at, edge |-> source[at].edge]}]
      /\ \A id : ~ DeclaringAt(l, id)
  BY <1>4, <1>5, EdgeShown
<1>8. core' = DiagramBefore(l)
  BY <1>1, <1>2, <1>7
<1>9. ParsedLine(at)
  <2>1. ~ \E k \in 1 .. at - 1 : Written(k, {"end"})
    BY <1>1, <1>2, EndNotSeen
  <2>2. InPlace(at)
    BY <1>2, <1>3, <2>1 DEF InPlace
  <2>3. ~ Ending(at) /\ ~ Drawn(at, {"composite"}) /\ ~ Drawn(at, Lifted \cup {"close"})
    BY <1>2, <1>3 DEF Ending, Lifted
  <2> QED BY <2>2, <2>3 DEF ParsedLine
<1>10. \A id : id # "" => (declaring' = id <=> DeclaringAt(l, id))
  BY <1>1, <1>7
<1>11. at' = l /\ l = at + 1
  BY <1>1 DEF l
<1> QED BY <1>1, <1>2, <1>8, <1>9, <1>10, <1>11, GrownParsed

-----------------------------------------------------------------------------
(* Before its first line nothing is parsed of a text.                      *)
LEMMA ParseStarts ==
  IsText(source) => ParsedAs(1, EmptyDiagram, "", FALSE)
<1> SUFFICES ASSUME IsText(source) PROVE ParsedAs(1, EmptyDiagram, "", FALSE)
  OBVIOUS
<1>1. Len(source) \in Nat /\ 1 .. 1 - 1 = {} /\ ~ (1 > 1)
  BY LinesAre
<1>2. 1 \in 1 .. Len(source) + 1
  BY <1>1
<1>3. \A kinds : Shown(1, kinds) = {}
  BY <1>1 DEF Shown
<1>4. ~ Region(1)
  BY <1>1 DEF Region
<1>5. \A id : ~ DeclaringAt(1, id)
  BY <1>3 DEF DeclaringAt
<1>6. EmptyDiagram = DiagramBefore(1)
  <2>1. \A V : StatesOf({}, V) = << >>
    <3>1. ASSUME NEW V PROVE StatesOf({}, V) = << >>
      <4> DEFINE f == StatesOf({}, V)
      <4>1. f = [id \in DOMAIN f |-> f[id]] /\ DOMAIN f = {}
        BY DEF StatesOf
      <4> HIDE DEF f
      <4>2. f = << >>
        BY <4>1, EmptyDomain
      <4> QED BY <4>2 DEF f
    <3> QED BY <3>1
  <2>2. EdgesOf({}) = {} /\ TargetIn({}) = ""
    BY DEF EdgesOf, TargetIn
  <2> QED BY <1>3, <2>1, <2>2 DEF EmptyDiagram, DiagramBefore, DiagramOf
<1> QED BY <1>1, <1>2, <1>4, <1>5, <1>6 DEF ParsedAs

(* What follows the end is not read.                                       *)
LEMMA ParseEnds ==
  ASSUME TextsInv, Left, ParsedSoFar, ParseClosing
  PROVE  Ending(at) /\ at > 1 /\ stage' = "read" /\ UNCHANGED <<input, source, at, out, core, declaring, ignoring>>
<1>1. Parsing({"enduml"}) /\ stage' = "read" /\ UNCHANGED <<input, source, at, out, core, declaring, ignoring>>
  BY DEF ParseClosing
<1>2. /\ at <= Len(out) /\ ~ InNote(at) /\ ~ Ignored(at) /\ out[at].kind = "enduml"
      /\ (out[at].kind # "state" => out[at] = source[at])
  BY <1>1, LineUsed
<1>3. Ending(at)
  BY <1>2, LineToParse DEF Ending
<1>4. at > 1
  BY <1>1 DEF Parsing
<1> QED BY <1>1, <1>3, <1>4

-----------------------------------------------------------------------------
(* What the parser refuses is not legible.                                 *)
LEMMA OpeningRefused ==
  ASSUME TextsInv, Left, ParseOpening, ParseError, Legible PROVE FALSE
<1>1. stage = "parsing" /\ stage' = "unreadable"
  BY DEF ParseOpening, ParseError
<1>2. ~ (Len(out) > 1 /\ out[1].kind = "startuml")
  BY <1>1 DEF ParseOpening, Parsed
<1>3. Len(out) = Len(source) /\ Len(source) \in Nat /\ DOMAIN source = 1 .. Len(source)
  BY LinesAre DEF Left, TextsInv
<1>4. Is(1, {"startuml"}) /\ 1 \in 1 .. Len(source)
  BY <1>3 DEF Legible, Is
<1>5. out[1].kind = "startuml"
  <2>1. 1 .. 1 - 1 = {}
    OBVIOUS
  <2>2. ~ InNote(1)
    BY <2>1 DEF InNote
  <2>3. Drawn(1, ForParser)
    BY <1>4, <2>2 DEF Drawn, Is, ForParser, CoreKinds
  <2> QED BY <1>4, <2>3 DEF Left, LineLeft, Is
<1>6. PICK n \in DOMAIN source : Ending(n)
  BY DEF Legible
<1>7. n # 1
  BY <1>4, <1>6 DEF Ending, Drawn, Is
<1> QED BY <1>2, <1>3, <1>5, <1>6, <1>7

LEMMA UnterminatedRefused ==
  ASSUME TextsInv, Left, ParsedSoFar, Unterminated, Legible PROVE FALSE
<1>1. PICK n \in DOMAIN source : Ending(n)
  BY DEF Legible
<1>2. Len(out) = Len(source) /\ Len(source) \in Nat /\ DOMAIN source = 1 .. Len(source)
  BY LinesAre DEF Left, TextsInv
<1>3. at > Len(out) /\ at \in 1 .. Len(source) + 1 /\ \A k \in 1 .. at - 1 : ~ Ending(k)
  BY DEF Unterminated, ParsedSoFar, ParsedAs, ParsedLine
<1>4. n \in 1 .. at - 1
  BY ONLY <1>1, <1>2, <1>3
<1> QED BY <1>1, <1>3, <1>4

(* A line that is neither in a note nor in an ignored region is in place.  *)
LEMMA LineInPlace ==
  ASSUME TextsInv, Left, ParsedSoFar, at <= Len(out), Legible, ~ InNote(at), ~ Ignored(at)
  PROVE  InPlace(at) /\ ~ Beyond(at) /\ \A kinds : Written(at, kinds) <=> source[at].kind \in kinds
<1>1. at \in DOMAIN source /\ Unclosed(at) /\ \A kinds : Drawn(at, kinds) <=> source[at].kind \in kinds
  BY LineToParse
<1>2. ~ Beyond(at)
  BY <1>1 DEF Beyond, Unclosed
<1> QED BY <1>1, <1>2 DEF Legible, Written

LEMMA UnexpectedRefused ==
  ASSUME TextsInv, Left, ParsedSoFar, Unexpected, Legible PROVE FALSE
<1>1. CASE Parsing(Declarations) /\ ~ Unended
  <2>0. "blank" \notin Declarations /\ "ignore" \notin Declarations
    BY DEF Declarations
  <2>1. /\ at <= Len(out) /\ out[at].kind \in Declarations
        /\ ~ InNote(at) /\ ~ Ignored(at) /\ (out[at].kind # "state" => out[at] = source[at])
        /\ out[at].kind = "state" => source[at].kind \in Stated
    BY <1>1, <2>0, LineUsed
  <2>2. \E k \in 1 .. at - 1 : Written(k, {"end"})
    BY <1>1, <2>1, EndNotSeen
  <2>3. at \in DOMAIN source /\ \A kinds : Is(at, kinds) <=> source[at].kind \in kinds
    BY <2>1, LineToParse
  <2>4. InPlace(at) /\ \A kinds : Written(at, kinds) <=> source[at].kind \in kinds
    BY <2>1, LineInPlace
  <2>5. source[at].kind \notin {"state", "start", "edge", "end"}
    BY <2>2, <2>3, <2>4 DEF InPlace
  <2>6. source[at].kind # "composite"
    BY <2>2, <2>3, <2>4 DEF Legible, CompositeLegible
  <2> QED BY <2>1, <2>5, <2>6 DEF Declarations, Stated
<1>2. CASE Parsing({"var"}) /\ out[at].state # declaring
  <2>1. at <= Len(out) /\ source[at].kind = "var" /\ out[at] = source[at] /\ ~ InNote(at) /\ ~ Ignored(at)
    BY <1>2, LineUsed
  <2>2. at \in Nat /\ Unclosed(at) /\ IsLine(source[at]) /\ \A kinds : Is(at, kinds) <=> source[at].kind \in kinds
    BY <2>1, LineToParse
  <2>3. InPlace(at)
    BY <2>1, LineInPlace
  <2>4. VarBelongs(at)
    BY <2>1, <2>2, <2>3 DEF InPlace
  <2>5. DeclaringAt(at, source[at].state) /\ source[at].state # ""
    BY <2>1, <2>2, <2>4, BelongsIs DEF IsLine
  <2> QED BY <1>2, <2>1, <2>5 DEF ParsedSoFar, ParsedAs
<1>3. CASE /\ stage = "parsing" /\ at > 1 /\ at <= Len(out) /\ ~ ignoring
           /\ out[at].kind \notin Trivia \cup {"ignore", "var", "enduml"} \cup Declarations
  <2> DEFINE kinds == {out[at].kind}
  <2>1. at \in 2 .. Len(out)
    <3>1. at \in Nat /\ Len(out) \in Nat
      BY LinesAre DEF TextsInv, Left
    <3>2. at > 1 /\ at <= Len(out)
      BY <1>3
    <3> QED BY ONLY <3>1, <3>2
  <2>2. Parsing(kinds) /\ "blank" \notin kinds /\ "ignore" \notin kinds
    BY <1>3, <2>1 DEF Parsing, Trivia
  <2>3. out[at].kind # "state"
    BY <1>3 DEF Declarations
  <2>4. at <= Len(out) /\ at # 1 /\ ~ InNote(at) /\ ~ Ignored(at) /\ out[at] = source[at]
    <3> HIDE DEF kinds
    <3> QED BY <2>2, <2>3, LineUsed
  <2>5. at \in DOMAIN source /\ LineLeft(at) /\ \A ks : Is(at, ks) <=> source[at].kind \in ks
    BY <2>4, LineToParse
  <2>6. InPlace(at) /\ \A ks : Written(at, ks) <=> source[at].kind \in ks
    BY <2>4, LineInPlace
  <2>7. source[at].kind \notin Lifted \cup {"close"}
    <3> SUFFICES ASSUME source[at].kind \in Lifted \cup {"close"} PROVE FALSE
      OBVIOUS
    <3>1. input.tool = "promote"
      BY <2>5, <2>6 DEF Legible
    <3>2. source[at].kind = "close" /\ CompositesAround(at) = {} /\ OutsideBlocks(at)
      BY <2>4, <2>5, <3>1 DEF LineLeft
    <3> QED BY <2>5, <2>6, <3>2 DEF InPlace, OutsideBlocks
  <2>8. source[at].kind \notin Trivia \cup {"ignore", "var", "enduml"} \cup Declarations
    BY <1>3, <2>4
  <2>9. source[at].kind # "startuml"
    BY <2>4, <2>5, <2>6 DEF InPlace
  <2> QED BY <2>5, <2>6, <2>7, <2>8, <2>9 DEF InPlace, Declarations
<1> QED BY <1>1, <1>2, <1>3 DEF Unexpected

-----------------------------------------------------------------------------
(* A text that was read to its end.                                        *)
ReadTo(m) == Ending(m) /\ m > 1 /\ ParsedAs(m, core, declaring, ignoring)

LEMMA WhatIsWritten ==
  ASSUME IsText(source), NEW m, ReadTo(m)
  PROVE  /\ m \in DOMAIN source /\ m \in Nat \ {0} /\ Unclosed(m)
         /\ \A n \in DOMAIN source : Beyond(n) <=> n > m
         /\ \A kinds : "enduml" \notin kinds => WrittenLines(kinds) = Shown(m, kinds)
<1>1. m \in DOMAIN source /\ Drawn(m, {"enduml"}) /\ source[m].kind = "enduml" /\ ~ Ignored(m)
  BY DEF ReadTo, Ending, Drawn, Is
<1>2. m \in Nat \ {0} /\ Len(source) \in Nat /\ DOMAIN source = 1 .. Len(source)
  BY <1>1, LinesAre, TextOfLines
<1>3. Unclosed(m)
  BY DEF ReadTo, ParsedAs, ParsedLine, Unclosed
<1>4. ASSUME NEW n \in DOMAIN source PROVE Beyond(n) <=> n > m
  <2>1. n > m => m \in 1 .. n - 1
    BY <1>2
  <2>2. ~ (n > m) => \A k \in 1 .. n - 1 : k \in 1 .. m - 1
    BY <1>2
  <2>3. Ending(m)
    BY DEF ReadTo
  <2> QED BY <1>3, <2>1, <2>2, <2>3 DEF Beyond, Unclosed
<1>5. ASSUME NEW kinds, "enduml" \notin kinds PROVE WrittenLines(kinds) = Shown(m, kinds)
  <2>1. ASSUME NEW n \in DOMAIN source, Written(n, kinds) PROVE n \in Shown(m, kinds)
    <3>1. ~ (n > m) /\ n # m /\ Drawn(n, kinds) /\ ~ Ignored(n)
      BY <1>1, <1>4, <1>5, <2>1 DEF Written, Drawn, Is
    <3>2. n \in 1 .. m - 1
      BY <1>2, <3>1
    <3> QED BY <3>1, <3>2 DEF Shown
  <2>2. ASSUME NEW n \in Shown(m, kinds) PROVE n \in DOMAIN source /\ Written(n, kinds)
    <3>1. n \in 1 .. m - 1 /\ n \in DOMAIN source
      BY DEF Shown, Drawn, Is
    <3> QED BY <1>2, <1>3, <3>1, WrittenIsShown
  <2> QED BY <2>1, <2>2 DEF WrittenLines
<1> QED BY <1>1, <1>2, <1>3, <1>4, <1>5

(* The diagram is the one that was written.                                *)
LEMMA ReadDiagram ==
  ASSUME IsText(source), NEW m, ReadTo(m) PROVE core = DiagramAsWritten
<1>1. core = DiagramBefore(m)
  BY DEF ReadTo, ParsedAs
<1>2. \A kinds : "enduml" \notin kinds => WrittenLines(kinds) = Shown(m, kinds)
  BY WhatIsWritten
<1>3. /\ WrittenLines(Stated) = Shown(m, Stated) /\ WrittenLines({"var"}) = Shown(m, {"var"})
      /\ WrittenLines({"edge"}) = Shown(m, {"edge"}) /\ WrittenLines({"start"}) = Shown(m, {"start"})
      /\ WrittenLines({"end"}) = Shown(m, {"end"})
  BY <1>2 DEF Stated
<1> DEFINE S == WrittenLines(Stated)
           V == WrittenLines({"var"})
<1>4. ASSUME NEW id PROVE StateAsWritten(id) = StateOf(S, V, id)
  <2>1. {n \in DOMAIN source : Declares(n, id)} = {n \in S : source[n].id = id}
    BY DEF Declares, WrittenLines, Stated
  <2>2. Max({n \in DOMAIN source : Declares(n, id)}) = DeclaredAt(S, id)
    BY <2>1 DEF DeclaredAt
  <2>3. {k \in V : k > DeclaredAt(S, id) /\ source[k].state = id} = VarsIn(S, V, id)
    BY DEF VarsIn
  <2> QED BY <2>2, <2>3 DEF StateAsWritten, StateOf
<1>5. {source[n].id : n \in WrittenLines({"state", "composite"})} = {source[n].id : n \in S}
  BY DEF Stated
<1> HIDE DEF S, V
<1>6. [id \in {source[n].id : n \in WrittenLines({"state", "composite"})} |-> StateAsWritten(id)] = StatesOf(S, V)
  BY <1>4, <1>5 DEF StatesOf
<1>7. /\ TargetOf("start") = TargetIn(WrittenLines({"start"})) /\ TargetOf("end") = TargetIn(WrittenLines({"end"}))
      /\ {[line |-> n, edge |-> source[n].edge] : n \in WrittenLines({"edge"})} = EdgesOf(WrittenLines({"edge"}))
  BY DEF TargetOf, TargetIn, EdgesOf
<1>8. DiagramAsWritten = DiagramOf(S, V, WrittenLines({"edge"}), WrittenLines({"start"}), WrittenLines({"end"}))
  BY <1>6, <1>7 DEF DiagramAsWritten, DiagramOf
<1> QED BY <1>1, <1>3, <1>8 DEF DiagramBefore, S, V

-----------------------------------------------------------------------------
(* A text that the scanner went through.                                   *)
WasScanned == ScannedAs(Len(source) + 1, out, "", global, diags)

LEMMA ScannedThrough ==
  ASSUME IsText(source), WasScanned, NEW n \in DOMAIN source
  PROVE  /\ Drawn(n, {"promote"}) => BlockLegible(n)
         /\ Drawn(n, {"composite"}) => CompositesAround(n) = {} /\ Closed(n)
         /\ Drawn(n, {"note"}) => NoteSound(n)
<1>1. PICK m : m = Len(source) + 1
  OBVIOUS
<1>2. ScannedAs(m, out, "", global, diags)
  BY <1>1 DEF WasScanned
<1>3. Len(source) \in Nat /\ DOMAIN source = 1 .. Len(source)
  BY LinesAre
<1>4. n \in 1 .. m - 1
  BY ONLY <1>1, <1>3, n \in DOMAIN source
<1>5. CompositesAround(m) = {}
  BY <1>2, ParentIsAround
<1>6. ScannedLine(n, m)
  BY <1>2, <1>4 DEF ScannedAs
<1> QED BY <1>5, <1>6 DEF ScannedLine

(* A text is legible when it was read, as a plain or as a global diagram.  *)
LEMMA ReadIsLegible ==
  ASSUME IsText(source), NEW m, ReadTo(m), input.tool = "parse" \/ WasScanned, Tidy PROVE Legible
<1>1. /\ m \in DOMAIN source /\ m \in Nat \ {0} /\ Unclosed(m) /\ Len(source) \in Nat
      /\ DOMAIN source = 1 .. Len(source)
      /\ \A n \in DOMAIN source : Beyond(n) <=> n > m
  BY WhatIsWritten, LinesAre
<1>2. Ending(m) /\ m > 1 /\ source[m].kind = "enduml" /\ Is(1, {"startuml"}) /\ \A n \in 1 .. m - 1 : ParsedLine(n)
  BY DEF ReadTo, Ending, Drawn, Is, ParsedAs
<1>3. ASSUME NEW n \in DOMAIN source, ~ Beyond(n), n # m PROVE n \in 1 .. m - 1
  <2>1. ~ (n > m)
    BY <1>1, <1>3
  <2> QED BY <1>1, <1>3, <2>1
<1>4. ASSUME NEW n \in DOMAIN source, ~ InNote(n), ~ Ignored(n), ~ Beyond(n) PROVE InPlace(n)
  <2>1. CASE n = m
    BY <1>2, <2>1 DEF InPlace, Is
  <2>2. CASE n # m
    BY <1>2, <1>3, <1>4, <2>2 DEF ParsedLine
  <2> QED BY <2>1, <2>2
<1>5. ASSUME NEW n \in DOMAIN source, NEW kinds, Written(n, kinds), "enduml" \notin kinds
      PROVE  ParsedLine(n) /\ Drawn(n, kinds) /\ ~ Ignored(n)
  <2>1. n # m /\ ~ Beyond(n) /\ Drawn(n, kinds) /\ ~ Ignored(n)
    BY <1>2, <1>5 DEF Written, Drawn, Is
  <2> QED BY <1>2, <1>3, <2>1
<1>6. ASSUME NEW n \in DOMAIN source, Written(n, Lifted \cup {"close"}) PROVE input.tool = "promote"
  <2>1. "enduml" \notin Lifted \cup {"close"}
    BY DEF Lifted
  <2> QED BY <1>5, <1>6, <2>1 DEF ParsedLine
<1>7. ASSUME NEW n \in DOMAIN source, NEW kind \in Lifted, Written(n, {kind}) PROVE WasScanned
  <2>1. Written(n, Lifted \cup {"close"})
    BY <1>7 DEF Written, Drawn, Is
  <2> QED BY <1>6, <2>1
<1>8. ASSUME NEW n \in DOMAIN source, Written(n, {"promote"}) PROVE BlockLegible(n)
  <2>1. WasScanned /\ Drawn(n, {"promote"})
    BY <1>5, <1>7, <1>8 DEF Lifted
  <2> QED BY <2>1, ScannedThrough
<1>9. ASSUME NEW n \in DOMAIN source, Written(n, {"composite"}) PROVE CompositeLegible(n)
  <2>1. WasScanned /\ Drawn(n, {"composite"})
    BY <1>5, <1>7, <1>9 DEF Lifted
  <2>2. CompositesAround(n) = {} /\ Closed(n)
    BY <2>1, ScannedThrough
  <2>3. ~ \E k \in 1 .. n - 1 : Written(k, {"end"})
    BY <1>5, <1>9 DEF ParsedLine
  <2> QED BY <2>2, <2>3, LegibleComposites
<1>10. ASSUME NEW n \in DOMAIN source, Written(n, {"note"}) PROVE NoteLegible(n)
  <2>1. WasScanned /\ Drawn(n, {"note"})
    BY <1>5, <1>7, <1>10 DEF Lifted
  <2> QED BY <1>10, <2>1, ScannedThrough, LegibleNotes
<1> QED BY <1>1, <1>2, <1>4, <1>6, <1>8, <1>9, <1>10 DEF Legible

(* The directives are those that were written.                             *)
LEMMA ReadDirectives ==
  ASSUME IsText(source), WasScanned, Tidy PROVE DirectivesAsWritten
<1>1. PICK m : m = Len(source) + 1
  OBVIOUS
<1>2. Len(source) \in Nat /\ DOMAIN source = 1 .. Len(source) /\ input.tool = "promote"
  BY LinesAre DEF WasScanned, ScannedAs
<1>3. 1 .. m - 1 = DOMAIN source
  BY ONLY <1>1, <1>2
<1>4. LiftedAs(m, global, diags)
  BY <1>1 DEF WasScanned, ScannedAs
<1>5. ASSUME NEW n, NEW kind \in Lifted PROVE Drawn(n, {kind}) <=> Written(n, {kind})
  <2>1. Drawn(n, {kind}) => n \in DOMAIN source /\ Drawn(n, Lifted \cup {"close"})
    BY DEF Drawn, Is
  <2> QED BY <1>2, <2>1 DEF Tidy, Written
<1>6. ASSUME NEW n PROVE NotesAt(n) = NotesStartingAt(n)
  <2>1. \A k : Drawn(k, {"note"}) <=> Written(k, {"note"})
    BY <1>5 DEF Lifted
  <2> QED BY <2>1 DEF NotesAt, NotesStartingAt
<1>7. ASSUME NEW kind PROVE NotedBefore(m, kind) = DirectiveLines(kind)
  BY <1>3, <1>6 DEF NotedBefore, DirectiveLines
<1>8. ASSUME NEW kind \in Lifted PROVE DrawnBefore(m, {kind}) = WrittenLines({kind})
  BY <1>3, <1>5 DEF DrawnBefore, WrittenLines
<1>9. /\ \A n : SyncHeard(n) = SyncAsWritten(n)
      /\ \A n : ConstrainHeard(n) = ConstrainAsWritten(n)
  BY <1>6 DEF SyncHeard, SyncAsWritten, ConstrainHeard, ConstrainAsWritten, AnchorAt, AnchorAsWritten
<1>10. global.promotes = AsWritten(WrittenLines({"promote"}), BlockAsWritten)
  BY <1>4, <1>8 DEF LiftedAs, Lifted
<1>11. global.syncs = AsWritten(DirectiveLines("sync"), SyncAsWritten)
  <2>1. global.syncs = AsWritten(DirectiveLines("sync"), SyncHeard)
    BY <1>4, <1>7 DEF LiftedAs
  <2> QED BY <1>9, <2>1 DEF AsWritten
<1>12. global.constrains = AsWritten(DirectiveLines("constrain"), ConstrainAsWritten)
  <2>1. global.constrains = AsWritten(DirectiveLines("constrain"), ConstrainHeard)
    BY <1>4, <1>7 DEF LiftedAs
  <2> QED BY <1>9, <2>1 DEF AsWritten
<1>13. Dropped(m) = {n \in WrittenLines({"include"}) : ~ \E p \in 1 .. n : InBlock(n, p)}
  BY <1>8 DEF Dropped, OutsideBlocks, Lifted
<1>14. diags = {Info("dropped", n) : n \in {n \in WrittenLines({"include"}) : ~ \E p \in 1 .. n : InBlock(n, p)}}
               \cup {Warning("misspelt", n) : n \in DirectiveLines("misspelt")}
  BY <1>4, <1>7, <1>13 DEF LiftedAs
<1> QED BY <1>10, <1>11, <1>12, <1>14 DEF DirectivesAsWritten

-----------------------------------------------------------------------------
(* As long as the text is the same, so is what it says.                    *)
SameText == UNCHANGED <<input, source>>

LEMMA SameLines ==
  ASSUME SameText
  PROVE  /\ \A n, kinds : Is(n, kinds)' <=> Is(n, kinds)
         /\ \A n : InNote(n)' <=> InNote(n)
         /\ \A n, kinds : Drawn(n, kinds)' <=> Drawn(n, kinds)
<1>1. \A n, kinds : Is(n, kinds)' <=> Is(n, kinds)
  BY DEF Is, SameText
<1>2. \A n : InNote(n)' <=> InNote(n)
  BY <1>1 DEF InNote, Between, SameText
<1> QED BY <1>1, <1>2 DEF Drawn

LEMMA SameShape ==
  ASSUME SameText
  PROVE  /\ \A n : Ignored(n)' <=> Ignored(n)
         /\ \A n : Region(n)' <=> Region(n)
         /\ \A n : Ending(n)' <=> Ending(n)
         /\ \A n : Beyond(n)' <=> Beyond(n)
         /\ \A n, kinds : Written(n, kinds)' <=> Written(n, kinds)
         /\ \A kinds : WrittenLines(kinds)' = WrittenLines(kinds)
<1>1. \A n : Ignored(n)' <=> Ignored(n)
  BY SameLines DEF Ignored, Between
<1>2. \A n : Region(n)' <=> Region(n)
  BY SameLines DEF Region, Between
<1>3. \A n : Ending(n)' <=> Ending(n)
  BY <1>1, SameLines DEF Ending
<1>4. \A n : Beyond(n)' <=> Beyond(n)
  BY <1>3 DEF Beyond
<1>5. \A n, kinds : Written(n, kinds)' <=> Written(n, kinds)
  BY <1>1, <1>4, SameLines DEF Written
<1>6. \A kinds : WrittenLines(kinds)' = WrittenLines(kinds)
  BY <1>5 DEF WrittenLines, SameText
<1> QED BY <1>1, <1>2, <1>3, <1>4, <1>5, <1>6

LEMMA SamePlaces ==
  ASSUME SameText
  PROVE  /\ \A n, p : InBlock(n, p)' <=> InBlock(n, p)
         /\ \A n : OutsideBlocks(n)' <=> OutsideBlocks(n)
         /\ \A n : CompositesAround(n)' = CompositesAround(n)
         /\ \A n : Leaves(n)' <=> Leaves(n)
         /\ \A n : Closed(n)' <=> Closed(n)
         /\ \A n : NotesAt(n)' = NotesAt(n)
         /\ \A n : NotesStartingAt(n)' = NotesStartingAt(n)
<1>1. \A n, p : InBlock(n, p)' <=> InBlock(n, p)
  BY SameLines DEF InBlock, Between, SameText
<1>2. \A n : OutsideBlocks(n)' <=> OutsideBlocks(n)
  BY <1>1 DEF OutsideBlocks
<1>3. \A n : CompositesAround(n)' = CompositesAround(n)
  BY <1>1, SameLines DEF CompositesAround, Between
<1>4. \A n : Leaves(n)' <=> Leaves(n)
  BY <1>2, SameLines DEF Leaves
<1>5. \A n : Closed(n)' <=> Closed(n)
  BY <1>3, <1>4 DEF Closed, SameText
<1>6. \A n : NotesAt(n)' = NotesAt(n)
  BY SameLines DEF NotesAt, Between
<1>7. \A n : NotesStartingAt(n)' = NotesStartingAt(n)
  BY SameLines, SameShape DEF NotesStartingAt, Between
<1> QED BY <1>1, <1>2, <1>3, <1>4, <1>5, <1>6, <1>7

(* Its grammar.                                                            *)
LEMMA SameGrammar ==
  ASSUME SameText
  PROVE  /\ \A n : BlockLegible(n)' <=> BlockLegible(n)
         /\ \A n : CompositeLegible(n)' <=> CompositeLegible(n)
         /\ \A n : NoteLegible(n)' <=> NoteLegible(n)
         /\ \A n : NoteSound(n)' <=> NoteSound(n)
         /\ \A n : InPlace(n)' <=> InPlace(n)
         /\ Legible' <=> Legible
         /\ Tidy' <=> Tidy
<1>1. \A n : BlockLegible(n)' <=> BlockLegible(n)
  BY SameLines DEF BlockLegible, Between, SameText
<1>2. \A n : CompositeLegible(n)' <=> CompositeLegible(n)
  BY SameLines, SameShape, SamePlaces DEF CompositeLegible, SameText
<1>3. \A n : NoteLegible(n)' <=> NoteLegible(n)
  BY SameLines, SamePlaces DEF NoteLegible, Between, SameText
<1>4. \A n : NoteSound(n)' <=> NoteSound(n)
  BY SameLines DEF NoteSound, Between, SameText
<1>5. \A n, id : Declares(n, id)' <=> Declares(n, id)
  BY SameShape DEF Declares, SameText
<1>6. \A n : VarBelongs(n)' <=> VarBelongs(n)
  BY <1>5, SameShape DEF VarBelongs, Between, SameText
<1>7. \A n : InPlace(n)' <=> InPlace(n)
  BY <1>6, SameLines, SameShape, SamePlaces DEF InPlace
<1>8. Legible' <=> Legible
  BY <1>1, <1>2, <1>3, <1>7, SameLines, SameShape DEF Legible, SameText
<1>9. Tidy' <=> Tidy
  BY SameLines, SameShape DEF Tidy, SameText
<1> QED BY <1>1, <1>2, <1>3, <1>4, <1>7, <1>8, <1>9

(* What the scanner makes of it.                                           *)
LEMMA SameLifting ==
  ASSUME SameText
  PROVE  \A m, g, ds : LiftedAs(m, g, ds)' <=> LiftedAs(m, g, ds)
<1>1. \A m, kinds : DrawnBefore(m, kinds)' = DrawnBefore(m, kinds)
  BY SameLines DEF DrawnBefore
<1>2. \A m : Dropped(m)' = Dropped(m)
  BY <1>1, SamePlaces DEF Dropped
<1>3. \A m, kind : NotedBefore(m, kind)' = NotedBefore(m, kind)
  BY SameLines, SamePlaces DEF NotedBefore
<1>4. \A n : AnchorAt(n)' = AnchorAt(n)
  BY SamePlaces DEF AnchorAt, SameText
<1>5. /\ \A n : SyncHeard(n)' = SyncHeard(n)
      /\ \A n : ConstrainHeard(n)' = ConstrainHeard(n)
  BY <1>4 DEF SyncHeard, ConstrainHeard, SyncAt, ConstrainAt, SameText
<1>6. \A n : BlockAsWritten(n)' = BlockAsWritten(n)
  <2> SUFFICES ASSUME NEW n PROVE BlockAsWritten(n)' = BlockAsWritten(n)
    OBVIOUS
  <2> DEFINE includes == {j \in DOMAIN source : Is(j, {"include"}) /\ InBlock(j, n)}
             around   == CompositesAround(n)
             In       == IF around = {} THEN None ELSE source[Max(around)].id
             Path     == IF includes = {} THEN None ELSE source[Max(includes)].path
             b        == source[n]
  <2>1. includes' = includes /\ around' = around /\ b' = b /\ source' = source
    BY SameLines, SamePlaces DEF SameText
  <2>2. BlockAsWritten(n) = [map |-> b.map, idParam |-> b.idParam, type |-> b.type, alias |-> b.alias, line |-> n,
                             in |-> In, path |-> Path]
    BY DEF BlockAsWritten
  <2>3. BlockAsWritten(n)' = [map |-> b.map, idParam |-> b.idParam, type |-> b.type, alias |-> b.alias, line |-> n,
                              in |-> In, path |-> Path]'
    BY DEF BlockAsWritten
  <2> HIDE DEF includes, around, b
  <2>4. In' = In /\ Path' = Path
    BY <2>1
  <2> HIDE DEF In, Path
  <2> QED BY <2>1, <2>2, <2>3, <2>4
<1>7. \A m : AsWritten(DrawnBefore(m, {"promote"}), BlockAsWritten)' = AsWritten(DrawnBefore(m, {"promote"}), BlockAsWritten)
  BY <1>1, <1>6 DEF AsWritten
<1>8. \A m : AsWritten(NotedBefore(m, "sync"), SyncHeard)' = AsWritten(NotedBefore(m, "sync"), SyncHeard)
  BY <1>3, <1>5 DEF AsWritten
<1>9. \A m : AsWritten(NotedBefore(m, "constrain"), ConstrainHeard)' = AsWritten(NotedBefore(m, "constrain"), ConstrainHeard)
  BY <1>3, <1>5 DEF AsWritten
<1> QED BY <1>2, <1>3, <1>7, <1>8, <1>9 DEF LiftedAs

LEMMA SameScanning ==
  ASSUME SameText
  PROVE  /\ \A m, text, in, g, ds : ScannedAs(m, text, in, g, ds)' <=> ScannedAs(m, text, in, g, ds)
         /\ Scanned' <=> ScannedNext
<1>1. \A n : Hidden(n)' <=> Hidden(n)
  BY SameLines, SamePlaces DEF Hidden
<1>2. \A n : OutLine(n)' = OutLine(n)
  BY <1>1, SameLines DEF OutLine, SameText
<1>3. \A n, m : ScannedLine(n, m)' <=> ScannedLine(n, m)
  BY SameLines, SamePlaces, SameGrammar DEF ScannedLine
<1>4. \A m, text, in, g, ds : ScannedAs(m, text, in, g, ds)' <=> ScannedAs(m, text, in, g, ds)
  <2> SUFFICES ASSUME NEW m, NEW text, NEW in, NEW g, NEW ds
               PROVE  ScannedAs(m, text, in, g, ds)' <=> ScannedAs(m, text, in, g, ds)
    OBVIOUS
  <2>1. input' = input /\ source' = source /\ (InNote(m)' <=> InNote(m)) /\ (OutsideBlocks(m)' <=> OutsideBlocks(m))
    BY SameLines, SamePlaces DEF SameText
  <2>2. CompositesAround(m)' = CompositesAround(m) /\ (LiftedAs(m, g, ds)' <=> LiftedAs(m, g, ds))
    BY SamePlaces, SameLifting
  <2>3. (\A n \in 1 .. m - 1 : text[n] = OutLine(n) /\ ScannedLine(n, m))' <=>
          \A n \in 1 .. m - 1 : text[n] = OutLine(n) /\ ScannedLine(n, m)
    BY <1>2, <1>3
  <2> QED BY <2>1, <2>2, <2>3 DEF ScannedAs
<1>5. Scanned' <=> ScannedNext
  BY <1>4 DEF Scanned, ScannedNext
<1> QED BY <1>4, <1>5

(* What the parser makes of it.                                            *)
LEMMA SameParsing ==
  ASSUME SameText
  PROVE  /\ \A m, c, d, i : ParsedAs(m, c, d, i)' <=> ParsedAs(m, c, d, i)
         /\ ParsedSoFar' <=> ParsedNext
<1>1. \A m, kinds : Shown(m, kinds)' = Shown(m, kinds)
  BY SameLines, SameShape DEF Shown
<1>2. /\ \A S, V : StatesOf(S, V)' = StatesOf(S, V)
      /\ \A E : EdgesOf(E)' = EdgesOf(E)
      /\ \A T : TargetIn(T)' = TargetIn(T)
  <2>1. \A S, id : DeclaredAt(S, id)' = DeclaredAt(S, id)
    BY DEF DeclaredAt, SameText
  <2>2. \A S, V, id : VarsIn(S, V, id)' = VarsIn(S, V, id)
    BY <2>1 DEF VarsIn, SameText
  <2>3. \A n : VariableAt(n)' = VariableAt(n)
    BY DEF VariableAt, SameText
  <2>4. \A S, V, id : StateOf(S, V, id)' = StateOf(S, V, id)
    BY <2>1, <2>2, <2>3 DEF StateOf, AsWritten
  <2>5. \A S, V : StatesOf(S, V)' = StatesOf(S, V)
    BY <2>4 DEF StatesOf, SameText
  <2>6. \A E : EdgesOf(E)' = EdgesOf(E)
    BY DEF EdgesOf, SameText
  <2>7. \A T : TargetIn(T)' = TargetIn(T)
    BY DEF TargetIn, SameText
  <2> QED BY <2>5, <2>6, <2>7
<1>3. \A m : DiagramBefore(m)' = DiagramBefore(m)
  BY <1>1, <1>2 DEF DiagramBefore, DiagramOf
<1>4. \A m, id : DeclaringAt(m, id)' <=> DeclaringAt(m, id)
  BY <1>1 DEF DeclaringAt, SameText
<1>5. \A n : ParsedLine(n)' <=> ParsedLine(n)
  BY SameLines, SameShape, SameGrammar DEF ParsedLine, SameText
<1>6. \A m, c, d, i : ParsedAs(m, c, d, i)' <=> ParsedAs(m, c, d, i)
  BY <1>3, <1>4, <1>5, SameLines, SameShape DEF ParsedAs, SameText
<1>7. ParsedSoFar' <=> ParsedNext
  BY <1>6 DEF ParsedSoFar, ParsedNext
<1> QED BY <1>6, <1>7

LEMMA SameImage == ASSUME SameText PROVE SourceAsWritten' <=> SourceAsWritten
  BY DEF SourceAsWritten, SameText

-----------------------------------------------------------------------------
(* What is true while a text is found, scanned and parsed.                 *)
Unparsed == core = EmptyDiagram /\ declaring = "" /\ ignoring = FALSE
Unlifted == global = Nothing /\ diags = {} /\ parent = ""

Clear(b) ==
  /\ input.chunks[b].typ # "IEND"
  /\ input.chunks[b].typ \in TextTypes => input.chunks[b].keyword # "plantuml"

TextKept == (input.tool = "parse" /\ out = source) \/ WasScanned

ReadingInv ==
  /\ stage \in {"extracting", "scanning", "parsing", "read", "unreadable"}
  /\ stage = "extracting" => Unparsed /\ Unlifted /\ (input.png => \A b \in 1 .. at - 1 : Clear(b))
  /\ stage \in {"scanning", "parsing", "read"} => SourceAsWritten
  /\ stage = "scanning" => Unparsed /\ Scanned
  /\ stage \in {"parsing", "read"} => TextKept /\ ParsedSoFar
  /\ stage = "read" => ReadTo(at)
  /\ stage = "unreadable" => source = << >> \/ (Tidy => ~ Legible)

LEMMA KeptIsLeft == ASSUME IsText(source), TextKept PROVE Left
  BY PlainLeft, ScannedLeft DEF TextKept, WasScanned

-----------------------------------------------------------------------------
(* The text that is found is the one that the image holds.                 *)
LEMMA FoundText ==
  ASSUME input \in Inputs, ReadingInv, stage = "extracting", NEW text, IsText(text), Extracted(text),
         UNCHANGED <<global, diags, parent>>,
         input.png => at \in DOMAIN input.chunks /\ input.chunks[at].keyword = "plantuml" /\ input.chunks[at].text = text
  PROVE  ReadingInv'
<1>1. /\ input' = input /\ source' = text /\ at' = 1 /\ UNCHANGED <<core, declaring, ignoring, global, diags, parent>>
      /\ input.tool = "promote" => stage' = "scanning" /\ out' = << >>
      /\ input.tool # "promote" => stage' = "parsing" /\ out' = text
  BY DEF Extracted
<1>2. input.tool \in {"parse", "promote"}
  BY ReaderAssumption DEF IsInput
<1>3. Unparsed /\ Unlifted /\ (input.png => \A b \in 1 .. at - 1 : Clear(b))
  BY DEF ReadingInv
<1>4. SourceAsWritten'
  BY <1>1, <1>3 DEF SourceAsWritten, Clear
<1>5. IsText(source)'
  BY <1>1
<1>6. Unparsed'
  BY <1>1, <1>3 DEF Unparsed
<1>7. CASE input.tool = "promote"
  <2>1. (IsText(source) /\ input.tool = "promote" => ScannedAs(1, << >>, "", Nothing, {}))'
    BY ScanStarts, PTL
  <2>2. (input.tool = "promote")'
    BY <1>1, <1>7
  <2>3. ScannedAs(1, << >>, "", Nothing, {})'
    BY <1>5, <2>1, <2>2
  <2>4. at' = 1 /\ out' = << >> /\ parent' = "" /\ global' = Nothing /\ diags' = {}
    BY <1>1, <1>3, <1>7 DEF Unlifted
  <2>5. Scanned'
    BY <2>3, <2>4 DEF Scanned
  <2> QED BY <1>1, <1>4, <1>6, <1>7, <2>5 DEF ReadingInv
<1>8. CASE input.tool = "parse"
  <2>1. (IsText(source) => ParsedAs(1, EmptyDiagram, "", FALSE))'
    BY ParseStarts, PTL
  <2>2. ParsedAs(1, EmptyDiagram, "", FALSE)'
    BY <1>5, <2>1
  <2>3. at' = 1 /\ core' = EmptyDiagram /\ declaring' = "" /\ ignoring' = FALSE
    BY <1>1, <1>3 DEF Unparsed
  <2>4. ParsedSoFar'
    BY <2>2, <2>3 DEF ParsedSoFar
  <2>5. TextKept' /\ stage' = "parsing"
    BY <1>1, <1>8 DEF TextKept
  <2> QED BY <1>4, <2>4, <2>5 DEF ReadingInv
<1> QED BY <1>2, <1>7, <1>8

LEMMA ExtractionReads ==
  ASSUME input \in Inputs, TextsInv, ReadingInv, stage = "extracting", TextNext, UNCHANGED <<global, diags, parent>>
  PROVE  ReadingInv'
<1>1. IsInput(input) /\ source = << >>
  BY ReaderAssumption DEF TextsInv
<1>2. CASE Unreadable
  <2>1. stage' = "unreadable" /\ source' = << >>
    BY <1>1, <1>2 DEF Unreadable
  <2> QED BY <2>1 DEF ReadingInv
<1>3. CASE ExtractText
  BY <1>1, <1>3, FoundText DEF ExtractText, IsInput
<1>4. CASE ExtractChunk /\ ~ Unreadable
  <2> DEFINE c == input.chunks[at]
  <2>1. IsSequence(input.chunks) /\ at \in DOMAIN input.chunks /\ input.png
    BY <1>1, <1>4, Sequential DEF IsInput, ExtractChunk, TextsInv
  <2>2. IsText(c.text) /\ c.coding \in {"plain", "deflated", "malformed"}
    BY <1>1, <1>4, <2>1, Sequential DEF IsInput, ExtractChunk
  <2>3. c.typ # "IEND" /\ \/ c.typ \in TextTypes /\ c.keyword = "plantuml" /\ decode(c).ok /\ Extracted(decode(c).text)
                          \/ /\ ~ (c.typ \in TextTypes /\ c.keyword = "plantuml")
                             /\ at' = at + 1 /\ UNCHANGED <<input, stage, source, out, core, declaring, ignoring, hinted>>
    BY <1>4 DEF ExtractChunk
  <2>4. CASE c.typ \in TextTypes /\ c.keyword = "plantuml" /\ decode(c).ok /\ Extracted(decode(c).text)
    <3>1. decode(c).text = c.text
      <4> HIDE DEF c
      <4> QED BY <2>2, <2>4, Decoded
    <3> QED BY <2>1, <2>2, <2>4, <3>1, FoundText
  <2>5. CASE /\ ~ (c.typ \in TextTypes /\ c.keyword = "plantuml")
             /\ at' = at + 1 /\ UNCHANGED <<input, stage, source, out, core, declaring, ignoring, hinted>>
    <3>1. Clear(at)
      BY <2>3, <2>5 DEF Clear
    <3>2. \A b \in 1 .. at' - 1 : b \in 1 .. at - 1 \/ b = at
      BY <2>5 DEF TextsInv
    <3>3. \A b \in 1 .. at' - 1 : Clear(b)
      BY <2>1, <3>1, <3>2 DEF ReadingInv
    <3>4. \A b : Clear(b)' <=> Clear(b)
      BY <2>5 DEF Clear
    <3>5. Unparsed' /\ Unlifted' /\ stage' = "extracting"
      BY <2>5 DEF ReadingInv, Unparsed, Unlifted
    <3> QED BY <3>3, <3>4, <3>5 DEF ReadingInv
  <2> QED BY <2>3, <2>4, <2>5
<1>5. CASE NoChunk
  BY <1>2, <1>5 DEF NoChunk
<1> QED BY <1>2, <1>3, <1>4, <1>5 DEF TextNext, ParseOpening, skipTrivia, skipIgnoreRegion,
     parseState, parseStateVar, parseStartEdge, parseEdge, parseEndEdge, ParseClosing, ParseFails, Parsing, Unexpected, Unterminated

(* The scanner goes on as it should, and refuses what is not legible.      *)
LEMMA ScanReads ==
  ASSUME TextsInv, ListsInv, ReadingInv, scan PROVE ReadingInv'
<1>1. stage = "scanning" /\ SameText /\ UNCHANGED <<core, declaring, ignoring>>
  BY DEF scan, readPromote, readComposite, CloseComposite, readPreprocessor, readNote, CopyLine,
     EndScan, Scanning, ScannedTo, Fail, Unreadable, SameText
<1>2. SourceAsWritten /\ Unparsed /\ Scanned /\ IsText(source)
  BY <1>1 DEF ReadingInv, TextsInv
<1>3. SourceAsWritten' /\ Unparsed'
  BY <1>1, <1>2, SameImage DEF Unparsed
<1>4. CASE Fail
  <2>1. stage' = "unreadable"
    BY <1>4 DEF Fail, Unreadable
  <2>2. Tidy => ~ Legible
    BY <1>2, <1>4, ScanRefuses
  <2>3. (Tidy => ~ Legible)'
    BY <1>1, <2>2, SameGrammar
  <2> QED BY <2>1, <2>3 DEF ReadingInv
<1>5. CASE ~ Fail
  <2>1. CASE ScannedNext /\ stage' = "scanning"
    <3>1. Scanned'
      BY <1>1, <2>1, SameScanning
    <3> QED BY <1>3, <2>1, <3>1 DEF ReadingInv
  <2>2. CASE /\ WasScanned /\ at' = 1 /\ stage' = "parsing" /\ UNCHANGED <<out, parent, global, diags>>
    <3>1. WasScanned'
      <4>1. \A m, text, in, g, ds : ScannedAs(m, text, in, g, ds)' <=> ScannedAs(m, text, in, g, ds)
        BY <1>1, SameScanning
      <4>2. source' = source /\ out' = out /\ global' = global /\ diags' = diags
        BY <1>1, <2>2 DEF SameText
      <4> QED BY <2>2, <4>1, <4>2 DEF WasScanned
    <3>2. ParsedAs(1, EmptyDiagram, "", FALSE)
      BY <1>2, ParseStarts
    <3>3. core' = EmptyDiagram /\ declaring' = "" /\ ignoring' = FALSE /\ at' = 1
      BY <1>3, <2>2 DEF Unparsed
    <3>4. ParsedSoFar'
      BY <1>1, <3>2, <3>3, SameParsing DEF ParsedNext
    <3> QED BY <1>3, <2>2, <3>1, <3>4 DEF ReadingInv, TextKept
  <2> QED BY <1>2, <1>5, <2>1, <2>2, ScanGoesOn DEF WasScanned
<1> QED BY <1>4, <1>5

(* So does the parser.                                                     *)
LEMMA ParseReads ==
  ASSUME TextsInv, ReadingInv, stage = "parsing", TextNext, UNCHANGED <<global, diags, parent>>
  PROVE  ReadingInv'
<1>1. IsText(source) /\ SourceAsWritten /\ TextKept /\ ParsedSoFar
  BY DEF ReadingInv, TextsInv
<1>2. Left
  BY <1>1, KeptIsLeft
<1>3. SameText /\ UNCHANGED out
  BY DEF TextNext, ExtractText, ExtractChunk, NoChunk, ParseOpening, skipTrivia, skipIgnoreRegion, parseState,
     parseStateVar, parseStartEdge, parseEdge, parseEndEdge, ParseClosing, ParseFails, Parsed, ParseError, SameText
<1>4. SourceAsWritten'
  BY <1>1, <1>3, SameImage
<1>5. TextKept'
  <2>1. \A m, text, in, g, ds : ScannedAs(m, text, in, g, ds)' <=> ScannedAs(m, text, in, g, ds)
    BY <1>3, SameScanning
  <2>2. source' = source /\ out' = out /\ global' = global /\ diags' = diags /\ input' = input
    BY <1>3 DEF SameText
  <2> QED BY <1>1, <2>1, <2>2 DEF TextKept, WasScanned
<1>6. ASSUME ParsedNext, stage' = "parsing" PROVE ReadingInv'
  <2>1. ParsedSoFar'
    BY <1>3, <1>6, SameParsing
  <2> QED BY <1>4, <1>5, <1>6, <2>1 DEF ReadingInv
<1>7. ASSUME ParseError, ~ Legible PROVE ReadingInv'
  <2>1. stage' = "unreadable" /\ ~ Legible'
    BY <1>3, <1>7, SameGrammar DEF ParseError
  <2> QED BY <2>1 DEF ReadingInv
<1>8. CASE ParseOpening
  <2>1. CASE ParseError
    BY <1>2, <1>7, <1>8, <2>1, OpeningRefused
  <2>2. CASE ~ ParseError
    <3>1. stage' = "parsing"
      BY <1>8, <2>2 DEF ParseOpening, Parsed
    <3> QED BY <1>1, <1>2, <1>6, <1>8, <2>2, <3>1, OpeningParsed
  <2> QED BY <2>1, <2>2
<1>9. CASE skipTrivia \/ skipIgnoreRegion \/ parseState \/ parseStateVar \/ parseStartEdge \/ parseEdge \/ parseEndEdge
  <2>1. stage' = "parsing"
    BY <1>9 DEF skipTrivia, skipIgnoreRegion, parseState, parseStateVar, parseStartEdge, parseEdge, parseEndEdge, Parsed
  <2>2. ParsedNext
    BY <1>1, <1>2, <1>9, TriviaParsed, RegionParsed, StateParsed, VarParsed, EdgeParsed
  <2> QED BY <1>6, <2>1, <2>2
<1>10. CASE ParseClosing
  <2>1. Ending(at) /\ at > 1 /\ stage' = "read" /\ UNCHANGED <<input, source, at, out, core, declaring, ignoring>>
    BY <1>1, <1>2, <1>10, ParseEnds
  <2>2. ParsedNext
    BY <1>1, <2>1 DEF ParsedSoFar, ParsedNext
  <2>3. ParsedSoFar'
    BY <1>3, <2>2, SameParsing
  <2>4. Ending(at)' /\ (at > 1)'
    BY <1>3, <2>1, SameShape
  <2>5. ReadTo(at)'
    BY <2>3, <2>4 DEF ReadTo, ParsedSoFar
  <2> QED BY <1>4, <1>5, <2>1, <2>3, <2>5 DEF ReadingInv
<1>11. CASE ParseFails
  <2>1. ParseError /\ ~ Legible
    BY <1>1, <1>2, <1>11, UnexpectedRefused, UnterminatedRefused DEF ParseFails
  <2> QED BY <1>7, <2>1
<1> QED BY <1>8, <1>9, <1>10, <1>11 DEF TextNext, ExtractText, ExtractChunk, NoChunk

-----------------------------------------------------------------------------
(* The invariant says that the text was read as it was written.            *)
LEMMA ReadingFollows ==
  ASSUME ReaderInv, phase = "unread" => ReadingInv PROVE ReadAsWritten
<1>1. CASE phase = "unread"
  <2>1. IsText(source) /\ ReadingInv
    BY <1>1 DEF ReaderInv, TextsInv
  <2>2. stage = "unreadable" /\ source # << >> /\ Tidy => ~ Legible
    BY <2>1 DEF ReadingInv
  <2>3. ASSUME stage = "read"
        PROVE  /\ SourceAsWritten
               /\ Tidy => /\ Legible
                          /\ core = DiagramAsWritten
                          /\ input.tool = "promote" => DirectivesAsWritten
    <3>1. SourceAsWritten /\ ReadTo(at) /\ TextKept
      BY <2>1, <2>3 DEF ReadingInv
    <3>2. core = DiagramAsWritten
      BY <2>1, <3>1, ReadDiagram
    <3>3. Tidy => Legible
      BY <2>1, <3>1, ReadIsLegible DEF TextKept
    <3>4. Tidy /\ input.tool = "promote" => DirectivesAsWritten
      BY <2>1, <3>1, ReadDirectives DEF TextKept
    <3> QED BY <3>1, <3>2, <3>3, <3>4
  <2> QED BY <2>2, <2>3 DEF ReadAsWritten
<1>2. CASE phase # "unread"
  <2>1. stage = "read"
    BY <1>2 DEF ReaderInv
  <2> QED BY <1>2, <2>1 DEF ReadAsWritten
<1> QED BY <1>1, <1>2

(* It is an invariant.                                                     *)
LEMMA ReadingInductive == ReaderSpec => [](phase = "unread" => ReadingInv)
<1> DEFINE Reading == phase = "unread" => ReadingInv
<1>1. ReaderInit \/ CallerInit => Reading
  <2>1. ASSUME ReaderInit PROVE ReadingInv
    <3>1. /\ stage = "extracting" /\ source = << >> /\ at = 1 /\ Unparsed /\ Unlifted
      BY <2>1 DEF ReaderInit, TextInit, Unparsed, Unlifted
    <3>2. 1 .. at - 1 = {}
      BY <3>1
    <3> QED BY <3>1, <3>2 DEF ReadingInv
  <2>2. CallerInit => phase # "unread"
    BY DEF CallerInit, Init
  <2> QED BY <2>1, <2>2
<1>2. ReaderInv /\ Reading /\ [ReaderNext]_readerVars => Reading'
  <2> SUFFICES ASSUME ReaderInv, Reading, [ReaderNext]_readerVars, phase' = "unread" PROVE ReadingInv'
    OBVIOUS
  <2>1. CASE TextNext /\ UNCHANGED <<vars, parent>>
    <3>1. phase = "unread" /\ UNCHANGED <<global, diags, parent>>
      BY <2>1 DEF vars
    <3>2. input \in Inputs /\ TextsInv /\ ReadingInv
      BY <3>1 DEF ReaderInv
    <3>3. stage = "extracting" \/ stage = "parsing"
      BY <2>1 DEF TextNext, ExtractText, ExtractChunk, NoChunk, ParseOpening, skipTrivia, skipIgnoreRegion, parseState,
         parseStateVar, parseStartEdge, parseEdge, parseEndEdge, ParseClosing, ParseFails, Unexpected, Unterminated, Parsing
    <3> QED BY <2>1, <3>1, <3>2, <3>3, ExtractionReads, ParseReads
  <2>2. CASE scan /\ UNCHANGED expandVars
    <3>1. phase = "unread"
      BY <2>2 DEF expandVars
    <3> QED BY <2>2, <3>1, ScanReads DEF ReaderInv
  <2>3. CASE ParseGlobal
    BY <2>3 DEF ParseGlobal
  <2>4. CASE Next /\ UNCHANGED <<textVars, parent>>
    <3>1. phase # "unread"
      BY <2>4, Expanding
    <3>2. IInv'
      BY <2>4, <3>1, StepKeeps DEF ReaderInv
    <3>3. phase' \in {"blocks", "load", "locals", "refused"} \cup Checked
      BY <3>2 DEF IInv, ControlInv
    <3>4. "unread" \notin {"blocks", "load", "locals", "refused"} \cup Checked
      BY DEF Checked
    <3> QED BY <3>3, <3>4
  <2>5. CASE UNCHANGED readerVars
    <3>1. /\ phase = "unread" /\ SameText /\ UNCHANGED <<stage, at, out, core, declaring, ignoring, global, diags, parent>>
      BY <2>5 DEF readerVars, vars, textVars, SameText
    <3>2. ReadingInv
      BY <3>1
    <3>3. /\ SourceAsWritten' <=> SourceAsWritten
          /\ Scanned' <=> ScannedNext
          /\ ParsedSoFar' <=> ParsedNext
          /\ Legible' <=> Legible
          /\ Tidy' <=> Tidy
          /\ \A n : Ending(n)' <=> Ending(n)
          /\ \A m, text, in, g, ds : ScannedAs(m, text, in, g, ds)' <=> ScannedAs(m, text, in, g, ds)
      BY <3>1, SameImage, SameScanning, SameParsing, SameGrammar, SameShape
    <3>4. (Scanned <=> ScannedNext) /\ (ParsedSoFar <=> ParsedNext)
      BY <3>1 DEF Scanned, ScannedNext, ParsedSoFar, ParsedNext
    <3>5. Unparsed' = Unparsed /\ Unlifted' = Unlifted /\ \A b : Clear(b)' <=> Clear(b)
      BY <3>1 DEF Unparsed, Unlifted, Clear, SameText
    <3>6. TextKept' <=> TextKept
      BY <3>1, <3>3 DEF TextKept, WasScanned, SameText
    <3>7. ReadTo(at)' <=> ReadTo(at)
      BY <3>1, <3>3, <3>4 DEF ReadTo, ParsedSoFar
    <3> QED BY <3>1, <3>2, <3>3, <3>4, <3>5, <3>6, <3>7 DEF ReadingInv, SameText
  <2> QED BY <2>1, <2>2, <2>3, <2>4, <2>5 DEF ReaderNext
<1> HIDE DEF Reading
<1>3. ReaderSpec => []Reading
  BY <1>1, <1>2, ReaderInductive, PTL DEF ReaderSpec
<1> QED BY <1>3 DEF Reading

(* Whatever text or image a command is given, it is refused only if the    *)
(* grammar has no reading for it, and what is read of it is what its lines *)
(* say (pngsrc, the scanner of promote/parse.go, csdf.Parser): the states, *)
(* edges and variables with the numbers of their own lines, and each block *)
(* and directive with the state and the note it was written in.            *)
THEOREM ReadsAsWritten == ReaderSpec => []ReadAsWritten
<1> DEFINE Reading == phase = "unread" => ReadingInv
<1>1. ReaderInv /\ Reading => ReadAsWritten
  BY ReadingFollows
<1>2. ReaderSpec => []Reading
  BY ReadingInductive
<1> HIDE DEF Reading
<1> QED BY <1>1, <1>2, ReaderInductive, PTL

-----------------------------------------------------------------------------
(* Without notes, a line is what it seems to be.                           *)
LEMMA DrawnAsIs ==
  ASSUME input.tool = "parse", IsText(source), NEW n, NEW kinds
  PROVE  /\ Drawn(n, kinds) <=> Is(n, kinds)
         /\ Ignored(n) <=> \E k \in 1 .. n : Is(k, {"ignore"}) /\ \A j \in Between(k, n) : ~ Is(j, {"unignore"})
<1>1. \A m : ~ InNote(m)
  BY DEF InNote
<1>2. \A m, ks : Drawn(m, ks) <=> Is(m, ks)
  BY <1>1 DEF Drawn
<1> QED BY <1>2 DEF Ignored

(* What the hint looks for is what the author wrote, unless it takes for a *)
(* marker what the parser does not.                                        *)
LEMMA HintFollows ==
  ASSUME input.tool = "parse", IsText(source), NEW n \in DOMAIN source, DirectiveAt(n),
         \A k \in 1 .. n : ~ Is(k, {"bareignore"})
  PROVE  holdsPromotionDirectives(source)
<1> DEFINE shown == withoutIgnoreRegions(source)
<1>0. n \in Nat /\ DOMAIN source \subseteq Nat
  BY Sequential DEF IsText
<1>1. ASSUME NEW i \in DOMAIN source, i <= n, ~ Ignored(i), ~ ClosesRegion(source[i])
      PROVE  i \in DOMAIN shown /\ shown[i] = source[i]
  <2>1. i \in Nat /\ \A k \in 1 .. i : k \in 1 .. n /\ k \in DOMAIN source
    BY <1>0, <1>1, Sequential DEF IsText
  <2>2. ~ \E k \in 1 .. i : OpensRegion(source[k]) /\ \A j \in k .. i - 1 : ~ ClosesRegion(source[j])
    <3> SUFFICES ASSUME NEW k \in 1 .. i, OpensRegion(source[k]), \A j \in k .. i - 1 : ~ ClosesRegion(source[j])
                 PROVE  FALSE
      OBVIOUS
    <3>1. Is(k, {"ignore"})
      BY <2>1 DEF Is, OpensRegion
    <3>2. \A j \in Between(k, i) : ~ Is(j, {"unignore"})
      BY <2>1 DEF Between, Is, ClosesRegion
    <3> QED BY <3>1, <3>2, <1>1, DrawnAsIs
  <2> QED BY <2>2, <1>1 DEF withoutIgnoreRegions
<1> HIDE DEF shown
<1>2. \/ Written(n, {"promote"})
      \/ Is(n, Directives) /\ NotesStartingAt(n) # {}
  BY DEF DirectiveAt
<1>3. CASE Written(n, {"promote"})
  <2>1. ~ Ignored(n) /\ source[n].kind = "promote"
    BY <1>3 DEF Written, Drawn, Is
  <2>2. HasKind(shown, "promote")
    BY <1>0, <1>1, <2>1 DEF HasKind, ClosesRegion
  <2> QED BY <2>2 DEF holdsPromotionDirectives, shown
<1>4. CASE Is(n, Directives) /\ NotesStartingAt(n) # {}
  <2>1. PICK k \in 1 .. n - 1 : Written(k, {"note"}) /\ \A j \in Between(k, n) : Is(j, {"blank"})
    BY <1>4 DEF NotesStartingAt
  <2>2. k \in DOMAIN source /\ source[k].kind = "note" /\ ~ Ignored(k)
    BY <2>1 DEF Written, Drawn, Is
  <2>3. ~ Ignored(n)
    <3> SUFFICES ASSUME NEW i \in 1 .. n, Is(i, {"ignore"}), \A j \in Between(i, n) : ~ Is(j, {"unignore"})
                 PROVE  FALSE
      BY DrawnAsIs
    <3>1. n \in Nat /\ k \in Nat
      BY Sequential DEF IsText
    <3>2. i # n /\ i # k /\ i \notin Between(k, n)
      BY <1>4, <2>1, <2>2 DEF Is, Directives
    <3>3. i \in 1 .. k /\ \A j \in Between(i, k) : j \in Between(i, n)
      BY <3>1, <3>2 DEF Between
    <3> QED BY <3>3, <2>2, DrawnAsIs
  <2>4. HasKind(shown, "note") /\ (HasKind(shown, "sync") \/ HasKind(shown, "constrain"))
    <3>1. source[n].kind \in {"sync", "constrain"}
      BY <1>4 DEF Is, Directives
    <3>2. n <= n /\ k <= n
      BY <1>0
    <3>3. n \in DOMAIN shown /\ shown[n] = source[n]
      BY <1>1, <2>3, <3>1, <3>2 DEF ClosesRegion
    <3>4. k \in DOMAIN shown /\ shown[k] = source[k]
      BY <1>1, <2>2, <3>2 DEF ClosesRegion
    <3> QED BY <2>2, <3>1, <3>3, <3>4 DEF HasKind
  <2> QED BY <2>4 DEF holdsPromotionDirectives, shown
<1> QED BY <1>2, <1>3, <1>4

(* The error of a command for plain diagrams tells of directives.          *)
HintedInv ==
  input.tool = "parse" =>
    /\ phase = "unread"
    /\ stage = "unreadable" => source = << >> \/ (holdsPromotionDirectives(source) => hinted)

LEMMA HintKeeps ==
  ASSUME ReaderInv, phase = "unread" => ReadingInv, HintedInv, [ReaderNext]_readerVars PROVE HintedInv'
<1> SUFFICES ASSUME input'.tool = "parse"
             PROVE  /\ phase' = "unread"
                    /\ stage' = "unreadable" => source' = << >> \/ (holdsPromotionDirectives(source') => hinted')
  BY DEF HintedInv
<1>1. CASE TextNext /\ UNCHANGED <<vars, parent>>
  <2>1. phase' = phase /\ input' = input
    BY <1>1 DEF vars, TextNext, ExtractText, ExtractChunk, NoChunk, Extracted, Unreadable, ParseOpening, skipTrivia,
       skipIgnoreRegion, parseState, parseStateVar, parseStartEdge, parseEdge, parseEndEdge, ParseClosing,
       ParseFails, Parsed, ParseError
  <2>2. phase = "unread" /\ TextsInv /\ ReadingInv
    BY <2>1 DEF HintedInv, ReaderInv
  <2>3. \/ stage = "extracting" /\ (Unreadable \/ stage' # "unreadable")
        \/ stage = "parsing" /\ (ParseError \/ stage' # "unreadable")
    BY <1>1 DEF TextNext, ExtractText, ExtractChunk, NoChunk, Extracted, ParseOpening, skipTrivia,
       skipIgnoreRegion, parseState, parseStateVar, parseStartEdge, parseEdge, parseEndEdge, ParseClosing,
       ParseFails, Unexpected, Unterminated, Parsing, Parsed
  <2>4. CASE stage = "extracting" /\ Unreadable
    BY <2>1, <2>2, <2>4 DEF TextsInv, Unreadable
  <2>5. CASE stage = "parsing" /\ ParseError
    <3>1. out = source
      BY <2>1, <2>2, <2>5 DEF ReadingInv, TextKept, WasScanned, ScannedAs
    <3> QED BY <2>1, <2>2, <2>5, <3>1 DEF ParseError
  <2> QED BY <2>1, <2>2, <2>3, <2>4, <2>5
<1>2. CASE scan /\ UNCHANGED expandVars
  <2>1. stage = "scanning" /\ input' = input /\ phase' = phase
    BY <1>2 DEF expandVars, scan, readPromote, readComposite, CloseComposite, readPreprocessor, readNote, CopyLine,
       EndScan, Scanning, ScannedTo, Fail, Unreadable
  <2>2. Scanned
    BY <2>1 DEF HintedInv, ReadingInv
  <2> QED BY <2>1, <2>2 DEF Scanned, ScannedAs
<1>3. CASE ParseGlobal
  BY <1>3 DEF ParseGlobal, textVars
<1>4. CASE Next /\ UNCHANGED <<textVars, parent>>
  BY <1>4, Expanding DEF textVars, HintedInv
<1>5. CASE UNCHANGED readerVars
  BY <1>5 DEF readerVars, vars, textVars, HintedInv
<1> QED BY <1>1, <1>2, <1>3, <1>4, <1>5 DEF ReaderNext

(* The invariants imply that global diagrams are refused.                  *)
LEMMA RefusedAsPlain ==
  ASSUME ReaderInv, phase = "unread" => ReadingInv, HintedInv PROVE GlobalIsRefusedAsPlain
<1> SUFFICES ASSUME input.tool = "parse", NEW n \in DOMAIN source, DirectiveAt(n)
             PROVE  /\ stage # "read"
                    /\ stage = "unreadable" /\ (\A k \in 1 .. n : ~ Is(k, {"bareignore"})) => hinted
  BY DEF GlobalIsRefusedAsPlain
<1>1. ReadingInv /\ IsText(source)
  BY DEF HintedInv, ReaderInv, TextsInv
<1>2. source # << >>
  BY EmptyDomain
<1>3. stage # "read"
  <2> SUFFICES ASSUME stage = "read" PROVE FALSE
    OBVIOUS
  <2>1. ReadTo(at)
    BY <1>1 DEF ReadingInv
  <2>2. ASSUME NEW m, NEW kind \in {"promote", "note"}, Written(m, {kind}) PROVE FALSE
    <3>1. m \in WrittenLines({kind})
      BY <2>2 DEF WrittenLines, Written, Drawn, Is
    <3>2. m \in Shown(at, {kind})
      BY <1>1, <2>1, <3>1, WhatIsWritten
    <3>3. m \in 1 .. at - 1 /\ Drawn(m, Lifted \cup {"close"}) /\ ~ Ignored(m)
      BY <3>2 DEF Shown, Drawn, Is, Lifted
    <3> QED BY <2>1, <3>3 DEF ReadTo, ParsedAs, ParsedLine
  <2> QED BY <2>2 DEF DirectiveAt, NotesStartingAt
<1>4. stage = "unreadable" /\ (\A k \in 1 .. n : ~ Is(k, {"bareignore"})) => hinted
  BY <1>1, <1>2, HintFollows DEF HintedInv
<1> QED BY <1>3, <1>4

(* A command for plain diagrams never reads a text that holds a promote    *)
(* block or a note with a directive, whatever else the text is, and its    *)
(* error then tells of promotion (withHint), unless a line that only the   *)
(* hint takes for the start of a region comes before the directive.        *)
THEOREM RefusesGlobals == ReaderSpec => []GlobalIsRefusedAsPlain
<1> DEFINE Reading == phase = "unread" => ReadingInv
<1>1. ReaderInit \/ CallerInit => HintedInv
  <2>1. ReaderInit => HintedInv
    BY DEF ReaderInit, TextInit, HintedInv
  <2>2. CallerInit => input = [tool |-> "none"]
    BY Zenon DEF CallerInit
  <2>3. input = [tool |-> "none"] => HintedInv
    BY DEF HintedInv
  <2> QED BY <2>1, <2>2, <2>3
<1>2. ReaderInv /\ Reading /\ HintedInv /\ [ReaderNext]_readerVars => HintedInv'
  BY HintKeeps
<1>3. ReaderInv /\ Reading /\ HintedInv => GlobalIsRefusedAsPlain
  BY RefusedAsPlain
<1>4. ReaderSpec => []Reading
  BY ReadingInductive
<1> HIDE DEF Reading
<1> QED BY <1>1, <1>2, <1>3, <1>4, ReaderInductive, PTL DEF ReaderSpec

=============================================================================
