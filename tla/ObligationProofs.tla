--------------------------- MODULE ObligationProofs ---------------------------
(***************************************************************************)
(* What csdflivelockfree and csdfrefinement write, whatever the diagrams,  *)
(* the hash and the number of ids.                                         *)
(*                                                                         *)
(* The placeholder of a predicate stands for the predicates it is meant to *)
(* stand for.                                                              *)
(*                                                                         *)
(* The two backends write the same theory up to spelling.  What they write *)
(* comes apart into the same parts in the same order; each part is shown   *)
(* to be the same list of declarations in both, part by part, and the      *)
(* parts are put together again as WriteAll does it.                       *)
(*                                                                         *)
(* A diagram diverges exactly if a theorem that its theory leaves to be    *)
(* proved is false.  Names can be read back, so what a prover looks up in  *)
(* the text is what was written under that name, once; the relations it    *)
(* finds are those of the diagram with its states renamed.                 *)
(***************************************************************************)
EXTENDS Obligations, FiniteSetTheorems, SequenceTheorems, Recursion, TLAPS

-----------------------------------------------------------------------------
(* The two maps of the set are inverse to each other, up to the names of   *)
(* arguments, and every id handed out is the one of its occurrence.        *)
Handed ==
  /\ name \in Seq(DOMAIN m)
  /\ at = Len(name) + 1
  /\ \A i \in DOMAIN name : Signature(Occurrences[i]) \in DOMAIN id
                              /\ name[i] = id[Signature(Occurrences[i])]

MutuallyInverse ==
  /\ \A s \in DOMAIN id : id[s] \in DOMAIN m /\ Signature(m[id[s]]) = s
  /\ \A s, t \in DOMAIN id : id[s] = id[t] => s = t

PlaceholderInv == Handed /\ MutuallyInverse

(* What Signature compares is what makes predicates the same.              *)
LEMMA SignatureIsMeaning ==
  ASSUME NEW p, NEW q
  PROVE  Signature(p) = Signature(q) <=> SameMeaning(p, q)
<1> DEFINE types(x) == [i \in DOMAIN x.args |-> x.args[i].type]
<1>1. Signature(p) = Signature(q) <=> p.text = q.text /\ types(p) = types(q)
  BY DEF Signature
<1>2. ASSUME types(p) = types(q)
      PROVE  /\ DOMAIN p.args = DOMAIN q.args
             /\ \A i \in DOMAIN p.args : p.args[i].type = q.args[i].type
  <2>1. DOMAIN types(p) = DOMAIN p.args /\ DOMAIN types(q) = DOMAIN q.args
    OBVIOUS
  <2>2. \A i \in DOMAIN p.args : types(p)[i] = p.args[i].type
    OBVIOUS
  <2>3. \A i \in DOMAIN q.args : types(q)[i] = q.args[i].type
    OBVIOUS
  <2> QED BY <1>2, <2>1, <2>2, <2>3
<1>3. ASSUME DOMAIN p.args = DOMAIN q.args,
             \A i \in DOMAIN p.args : p.args[i].type = q.args[i].type
      PROVE  types(p) = types(q)
  BY <1>3
<1> QED BY <1>1, <1>2, <1>3 DEF SameMeaning

(* PredicateSet starts empty.                                              *)
LEMMA StartsInverse == BuildInitial => PlaceholderInv
<1> SUFFICES ASSUME BuildInitial PROVE PlaceholderInv
  OBVIOUS
<1>1. DOMAIN id = {} /\ DOMAIN m = {} /\ name = << >> /\ at = 1
  BY DEF BuildInitial, Empty
<1>2. Handed
  BY <1>1 DEF Handed
<1>3. MutuallyInverse
  BY <1>1 DEF MutuallyInverse
<1> QED BY <1>2, <1>3 DEF PlaceholderInv

(* A signature met before gets the id it has.                              *)
LEMMA KnownKeepsInverse ==
  ASSUME PlaceholderInv, at <= Len(Occurrences), AddKnown, at' = at + 1, job' = job
  PROVE  PlaceholderInv'
<1> DEFINE s == Signature(Occurrences[at])
<1>1. s \in DOMAIN id /\ name' = Append(name, id[s]) /\ id' = id /\ m' = m
  BY DEF AddKnown
<1>2. Occurrences' = Occurrences
  BY DEF Occurrences
<1>3. id[s] \in DOMAIN m /\ name \in Seq(DOMAIN m) /\ at = Len(name) + 1
  BY <1>1 DEF PlaceholderInv, Handed, MutuallyInverse
<1>4. name' \in Seq(DOMAIN m') /\ at' = Len(name') + 1
  BY <1>1, <1>3
<1>5. ASSUME NEW i \in DOMAIN name'
      PROVE  Signature(Occurrences[i]) \in DOMAIN id /\ name'[i] = id[Signature(Occurrences[i])]
  <2>1. CASE i \in DOMAIN name
    BY <1>1, <1>3, <2>1 DEF PlaceholderInv, Handed
  <2>2. CASE i = at
    BY <1>1, <1>3, <2>2
  <2> QED BY <1>1, <1>3, <1>5, <2>1, <2>2
<1>6. Handed'
  <2>1. \A i \in DOMAIN name' : (Signature(Occurrences[i]))' = Signature(Occurrences[i])
    BY <1>2 DEF Signature
  <2> QED BY <1>1, <1>2, <1>4, <1>5 DEF Handed, Signature
<1>7. MutuallyInverse'
  BY <1>1 DEF PlaceholderInv, MutuallyInverse, Signature
<1> QED BY <1>6, <1>7 DEF PlaceholderInv

(* A new signature gets an id that nothing has: whatever was handed out    *)
(* before stays as it is.                                                  *)
LEMMA NewKeepsInverse ==
  ASSUME PlaceholderInv, at <= Len(Occurrences), AddNew, at' = at + 1, job' = job
  PROVE  PlaceholderInv'
<1> DEFINE p == Occurrences[at]
           s == Signature(p)
<1>1. s \notin DOMAIN id
  BY DEF AddNew
<1>2. PICK k \in 0 .. IdSpace - 1 :
        /\ FreeProbe(s, k)
        /\ id' = [t \in DOMAIN id \cup {s} |-> IF t = s THEN Probe(s, k) ELSE id[t]]
        /\ m' = [i \in DOMAIN m \cup {Probe(s, k)} |-> IF i = Probe(s, k) THEN p ELSE m[i]]
        /\ name' = Append(name, Probe(s, k))
  BY DEF AddNew
<1> DEFINE new == Probe(s, k)
<1>3. new \notin DOMAIN m
  BY <1>2 DEF FreeProbe
<1> HIDE DEF new, s, p
<1>4. /\ id' = [t \in DOMAIN id \cup {s} |-> IF t = s THEN new ELSE id[t]]
      /\ m' = [i \in DOMAIN m \cup {new} |-> IF i = new THEN p ELSE m[i]]
      /\ name' = Append(name, new)
  BY <1>2 DEF new
<1>5. s = Signature(p) /\ p = Occurrences[at] /\ Occurrences' = Occurrences
  BY DEF s, p, Occurrences
<1>6. /\ \A t \in DOMAIN id : t \in DOMAIN id' /\ id'[t] = id[t]
      /\ s \in DOMAIN id' /\ id'[s] = new
      /\ DOMAIN id' = DOMAIN id \cup {s}
  BY <1>1, <1>4
<1>7. /\ \A i \in DOMAIN m : i \in DOMAIN m' /\ m'[i] = m[i]
      /\ new \in DOMAIN m' /\ m'[new] = p
      /\ DOMAIN m' = DOMAIN m \cup {new}
  BY <1>3, <1>4
<1>8. name \in Seq(DOMAIN m') /\ at = Len(name) + 1
  <2>1. name \in Seq(DOMAIN m) /\ at = Len(name) + 1
    BY DEF PlaceholderInv, Handed
  <2>2. DOMAIN m \subseteq DOMAIN m'
    BY <1>7
  <2> QED BY <2>1, <2>2
<1>9. name' \in Seq(DOMAIN m') /\ at' = Len(name') + 1
  BY <1>4, <1>7, <1>8
<1>10. ASSUME NEW i \in DOMAIN name'
       PROVE  Signature(Occurrences[i]) \in DOMAIN id' /\ name'[i] = id'[Signature(Occurrences[i])]
  <2>1. CASE i \in DOMAIN name
    <3>1. name'[i] = name[i]
      BY <1>4, <1>8, <2>1
    <3>2. Signature(Occurrences[i]) \in DOMAIN id /\ name[i] = id[Signature(Occurrences[i])]
      BY <2>1 DEF PlaceholderInv, Handed
    <3> QED BY <1>6, <3>1, <3>2
  <2>2. CASE i = at
    <3>1. name'[i] = new
      BY <1>4, <1>8, <2>2
    <3> QED BY <1>5, <1>6, <2>2, <3>1
  <2>3. i \in DOMAIN name \/ i = at
    BY <1>4, <1>8, <1>10
  <2> QED BY <2>1, <2>2, <2>3
<1>11. Handed'
  BY <1>5, <1>9, <1>10 DEF Handed, Signature
<1>12. ASSUME NEW t \in DOMAIN id'
       PROVE  id'[t] \in DOMAIN m' /\ Signature(m'[id'[t]]) = t
  <2>1. CASE t \in DOMAIN id
    <3>1. id[t] \in DOMAIN m /\ Signature(m[id[t]]) = t
      BY <2>1 DEF PlaceholderInv, MutuallyInverse
    <3> QED BY <1>6, <1>7, <2>1, <3>1
  <2>2. CASE t = s
    BY <1>5, <1>6, <1>7, <2>2
  <2> QED BY <1>6, <1>12, <2>1, <2>2
<1>13. ASSUME NEW t \in DOMAIN id', NEW u \in DOMAIN id', id'[t] = id'[u]
       PROVE  t = u
  <2>1. ASSUME NEW v \in DOMAIN id PROVE id'[v] # new
    <3>1. id[v] \in DOMAIN m
      BY DEF PlaceholderInv, MutuallyInverse
    <3> QED BY <1>3, <1>6, <3>1
  <2>2. CASE t \in DOMAIN id /\ u \in DOMAIN id
    BY <1>6, <1>13, <2>2 DEF PlaceholderInv, MutuallyInverse
  <2>3. CASE t = s \/ u = s
    BY <1>6, <1>13, <2>1, <2>3
  <2> QED BY <1>6, <2>2, <2>3
<1>14. MutuallyInverse'
  BY <1>12, <1>13 DEF MutuallyInverse, Signature
<1> QED BY <1>11, <1>14 DEF PlaceholderInv

LEMMA StepsKeepInverse == PlaceholderInv /\ [Add]_buildVars => PlaceholderInv'
<1> SUFFICES ASSUME PlaceholderInv, [Add]_buildVars PROVE PlaceholderInv'
  OBVIOUS
<1>1. CASE Add
  <2>1. at <= Len(Occurrences) /\ at' = at + 1 /\ job' = job
    BY <1>1 DEF Add
  <2>2. CASE AddKnown
    BY <2>1, <2>2, KnownKeepsInverse
  <2>3. CASE AddNew
    BY <2>1, <2>3, NewKeepsInverse
  <2> QED BY <1>1, <2>2, <2>3 DEF Add
<1>2. CASE UNCHANGED buildVars
  <2>1. UNCHANGED <<job, at, id, m, name>> /\ Occurrences' = Occurrences
    BY <1>2 DEF buildVars, Occurrences
  <2>2. Handed'
    BY <2>1 DEF PlaceholderInv, Handed, Signature
  <2>3. MutuallyInverse'
    BY <2>1 DEF PlaceholderInv, MutuallyInverse, Signature
  <2> QED BY <2>2, <2>3 DEF PlaceholderInv
<1> QED BY <1>1, <1>2

LEMMA InverseIsFaithful == PlaceholderInv => PlaceholdersFaithful
<1> SUFFICES ASSUME PlaceholderInv PROVE PlaceholdersFaithful
  OBVIOUS
<1>1. \A i \in DOMAIN name : /\ Signature(Occurrences[i]) \in DOMAIN id
                             /\ name[i] = id[Signature(Occurrences[i])]
  BY DEF PlaceholderInv, Handed
<1>2. ASSUME NEW i \in DOMAIN name, NEW j \in DOMAIN name
      PROVE  name[i] = name[j] <=> SameMeaning(Occurrences[i], Occurrences[j])
  <2>1. name[i] = name[j] <=> Signature(Occurrences[i]) = Signature(Occurrences[j])
    BY <1>1 DEF PlaceholderInv, MutuallyInverse
  <2> QED BY <2>1, SignatureIsMeaning
<1>3. ASSUME NEW i \in DOMAIN name
      PROVE  name[i] \in DOMAIN m /\ SameMeaning(m[name[i]], Occurrences[i])
  <2>1. name[i] \in DOMAIN m /\ Signature(m[name[i]]) = Signature(Occurrences[i])
    BY <1>1 DEF PlaceholderInv, MutuallyInverse
  <2> QED BY <2>1, SignatureIsMeaning
<1> QED BY <1>2, <1>3 DEF PlaceholdersFaithful

(* PredicateSet.Add hands out faithful placeholders, whatever the hash is  *)
(* and however few ids there are.                                          *)
THEOREM ProbingIsFaithful == BuildSpec => []PlaceholdersFaithful
<1>1. BuildInitial => PlaceholderInv
  BY StartsInverse
<1>2. PlaceholderInv /\ [Add]_buildVars => PlaceholderInv'
  BY StepsKeepInverse
<1>3. PlaceholderInv => PlaceholdersFaithful
  BY InverseIsFaithful
<1> QED BY <1>1, <1>2, <1>3, PTL DEF BuildSpec

-----------------------------------------------------------------------------
(* The generators take what they share from Theory, which is one module    *)
(* for both.                                                               *)
LEMMA SameFlatten ==
  ASSUME NEW s
  PROVE  Isabelle!FlattenSeq(s) = T!FlattenSeq(s) /\ Lean!FlattenSeq(s) = T!FlattenSeq(s)
  BY DEF Isabelle!FlattenSeq, Lean!FlattenSeq, T!FlattenSeq

LEMMA SameMin ==
  ASSUME NEW s
  PROVE  Isabelle!Min(s) = T!Min(s) /\ Lean!Min(s) = T!Min(s)
  BY DEF Isabelle!Min, Lean!Min, T!Min

LEMMA SameWriteAll ==
  ASSUME NEW s
  PROVE  Isabelle!WriteAll(s) = T!WriteAll(s) /\ Lean!WriteAll(s) = T!WriteAll(s)
  BY SameFlatten, SameMin DEF Isabelle!WriteAll, Lean!WriteAll, T!WriteAll, Isabelle!Written, Lean!Written, T!Written

(* The recursive function of FlattenSeq is defined.                        *)
LEMMA FlattenHasValues ==
  ASSUME NEW n \in Nat, n > 0, NEW s
  PROVE  \E f : f = [i \in 1 .. n |-> IF i = 1 THEN s[i] ELSE f[i-1] \o s[i]]
<1> DEFINE Is(f, mm) == f = [i \in 1 .. mm |-> IF i = 1 THEN s[i] ELSE f[i-1] \o s[i]]
           HasFn(mm) == \E f : Is(f, mm)
           TT == {mm \in Nat : mm > 0 => HasFn(mm)}
<1>1. 0 \in TT
  OBVIOUS
<1>2. ASSUME NEW k \in Nat, k \in TT PROVE k + 1 \in TT
  <2> SUFFICES HasFn(k + 1)
    <3> HIDE DEF HasFn
    <3> QED OBVIOUS
  <2>1. CASE k = 0
    <3>1. Is([i \in 1 .. 1 |-> s[1]], 1) /\ k + 1 = 1
      BY <2>1
    <3> HIDE DEF Is
    <3> QED BY <3>1
  <2>2. CASE k > 0
    <3>1. PICK f : Is(f, k)
      BY <1>2, <2>2
    <3> DEFINE g == [i \in 1 .. k + 1 |-> IF i = k + 1 THEN f[k] \o s[k + 1] ELSE f[i]]
    <3>2. ASSUME NEW i \in 1 .. k + 1
          PROVE  g[i] = IF i = 1 THEN s[i] ELSE g[i - 1] \o s[i]
      <4>1. CASE i = k + 1
        <5>1. i # 1 /\ i - 1 = k /\ k \in 1 .. k + 1 /\ k # k + 1
          BY <2>2, <4>1
        <5>2. g[i - 1] = f[k]
          BY <5>1
        <5>3. g[i] = f[k] \o s[k + 1]
          BY <4>1
        <5> QED BY <4>1, <5>1, <5>2, <5>3
      <4>2. CASE i # k + 1
        <5>1. i \in 1 .. k /\ (i # 1 => i - 1 \in 1 .. k /\ i - 1 # k + 1 /\ i - 1 \in 1 .. k + 1)
          BY <4>2
        <5>2. f[i] = IF i = 1 THEN s[i] ELSE f[i - 1] \o s[i]
          BY <3>1, <5>1
        <5> QED BY <4>2, <5>1, <5>2
      <4> QED BY <4>1, <4>2
    <3>3. Is(g, k + 1)
      <4>1. g = [i \in 1 .. k + 1 |-> g[i]]
        OBVIOUS
      <4> HIDE DEF g
      <4> QED BY <3>2, <4>1
    <3> HIDE DEF Is, g
    <3> QED BY <3>3
  <2> HIDE DEF Is
  <2> QED BY <2>1, <2>2
<1> HIDE DEF TT
<1>3. n \in TT
  BY <1>1, <1>2, Induction
<1> QED BY <1>3 DEF TT

(* f[i] is the first i members of s joined.                                *)
Joins(f, s, n) == f[1] = s[1] /\ \A i \in 2 .. n : f[i] = f[i - 1] \o s[i]

(* FlattenSeq joins the n members of s one after the other.                *)
FlattensBy(s, n) == \E f : Joins(f, s, n) /\ T!FlattenSeq(s) = f[n]

(* What FlattenSeq joins, part by part.                                    *)
LEMMA FlattenUnfolds ==
  ASSUME NEW n \in Nat, n > 0, NEW s, Len(s) = n
  PROVE  FlattensBy(s, n)
<1> DEFINE Is(f) == f = [i \in 1 .. n |-> IF i = 1 THEN s[i] ELSE f[i-1] \o s[i]]
           h == CHOOSE f : Is(f)
<1>1. T!FlattenSeq(s) = h[n]
  BY DEF T!FlattenSeq
<1>2. \E f : Is(f)
  BY FlattenHasValues
<1>3. Is(h)
  BY <1>2
<1> HIDE DEF h
<1>4. Joins(h, s, n)
  <2>1. h[1] = s[1]
    BY <1>3
  <2>2. ASSUME NEW i \in 2 .. n PROVE h[i] = h[i - 1] \o s[i]
    <3>1. i \in 1 .. n /\ i # 1
      OBVIOUS
    <3> QED BY <1>3, <3>1
  <2> QED BY <2>1, <2>2 DEF Joins
<1> QED BY <1>1, <1>4 DEF FlattensBy

(* Lists of any elements can be joined.                                    *)
LEMMA ListIs ==
  ASSUME NEW s
  PROVE  IsList(s) <=> \E X : s \in Seq(X)
<1>1. IsList(s) => \E X : s \in Seq(X)
  BY DEF IsList
<1>2. ASSUME NEW X, s \in Seq(X) PROVE IsList(s)
  <2>1. s \in [1 .. Len(s) -> X] /\ Len(s) \in Nat
    BY <1>2
  <2> QED BY <2>1, <1>2 DEF IsList
<1> QED BY <1>1, <1>2

(* Functions on 1 .. n are lists.                                          *)
LEMMA FunctionIsList ==
  ASSUME NEW n \in Nat, NEW s, s = [i \in 1 .. n |-> s[i]]
  PROVE  IsList(s)
<1>1. s \in Seq({s[i] : i \in 1 .. n})
  OBVIOUS
<1> QED BY <1>1, ListIs

LEMMA ListHas ==
  ASSUME NEW s, IsList(s)
  PROVE  /\ Len(s) \in Nat /\ DOMAIN s = 1 .. Len(s)
         /\ s = [i \in 1 .. Len(s) |-> s[i]]
<1>1. PICK X : s \in Seq(X)
  BY DEF IsList
<1> QED BY <1>1

(* A join of lists is a list of the elements of both, in their order.      *)
LEMMA ListJoin ==
  ASSUME NEW p, NEW q, IsList(p), IsList(q)
  PROVE  /\ IsList(p \o q)
         /\ Len(p \o q) = Len(p) + Len(q)
         /\ \A i \in 1 .. Len(p) : (p \o q)[i] = p[i]
         /\ \A i \in 1 .. Len(q) : (p \o q)[Len(p) + i] = q[i]
<1>1. PICK X : p \in Seq(X)
  BY DEF IsList
<1>2. PICK Y : q \in Seq(Y)
  BY DEF IsList
<1>3. PICK Z : Z = X \cup Y
  OBVIOUS
<1>4. p \in Seq(Z) /\ q \in Seq(Z)
  BY <1>1, <1>2, <1>3, SeqMonotonic
<1>5. p \o q \in Seq(Z)
  BY <1>4
<1>6. Len(p \o q) = Len(p) + Len(q) /\ Len(p) \in Nat /\ Len(q) \in Nat
  BY <1>4
<1>7. \A i \in 1 .. Len(p) + Len(q) :
        (p \o q)[i] = IF i <= Len(p) THEN p[i] ELSE q[i - Len(p)]
  BY <1>4, ConcatProperties
<1>8. \A i \in 1 .. Len(p) : (p \o q)[i] = p[i]
  BY <1>6, <1>7
<1>9. \A i \in 1 .. Len(q) : (p \o q)[Len(p) + i] = q[i]
  <2> SUFFICES ASSUME NEW i \in 1 .. Len(q) PROVE (p \o q)[Len(p) + i] = q[i]
    OBVIOUS
  <2>1. Len(p) + i \in 1 .. Len(p) + Len(q) /\ ~ (Len(p) + i <= Len(p)) /\ (Len(p) + i) - Len(p) = i
    BY <1>6
  <2> QED BY <1>7, <2>1
<1> QED BY <1>5, <1>6, <1>8, <1>9, ListIs

(* An index of a join is one of the left or of the right part.             *)
LEMMA JoinIndex ==
  ASSUME NEW p, NEW q, IsList(p), IsList(q)
  PROVE  \A i \in 1 .. Len(p \o q) : i \in 1 .. Len(p) \/ \E j \in 1 .. Len(q) : i = Len(p) + j
<1> SUFFICES ASSUME NEW i \in 1 .. Len(p \o q)
             PROVE  i \in 1 .. Len(p) \/ \E j \in 1 .. Len(q) : i = Len(p) + j
  OBVIOUS
<1>1. Len(p \o q) = Len(p) + Len(q) /\ Len(p) \in Nat /\ Len(q) \in Nat
  BY ListJoin, ListHas
<1>2. CASE i <= Len(p)
  BY <1>1, <1>2
<1>3. CASE ~ (i <= Len(p))
  <2>1. i - Len(p) \in 1 .. Len(q) /\ i = Len(p) + (i - Len(p))
    BY <1>1, <1>3
  <2> QED BY <2>1
<1> QED BY <1>2, <1>3

(* ToSet of a join.                                                        *)
LEMMA JoinSet ==
  ASSUME NEW p, NEW q, IsList(p), IsList(q)
  PROVE  T!ToSet(p \o q) = T!ToSet(p) \cup T!ToSet(q)
<1>1. /\ DOMAIN p = 1 .. Len(p) /\ DOMAIN q = 1 .. Len(q) /\ DOMAIN (p \o q) = 1 .. Len(p \o q)
      /\ Len(p \o q) = Len(p) + Len(q) /\ Len(p) \in Nat /\ Len(q) \in Nat
  BY ListJoin, ListHas
<1>2. ASSUME NEW x \in T!ToSet(p \o q) PROVE x \in T!ToSet(p) \cup T!ToSet(q)
  <2>1. PICK i \in 1 .. Len(p \o q) : x = (p \o q)[i]
    BY <1>1, <1>2 DEF T!ToSet
  <2>2. CASE i \in 1 .. Len(p)
    BY <1>1, <2>1, <2>2, ListJoin DEF T!ToSet
  <2>3. CASE \E j \in 1 .. Len(q) : i = Len(p) + j
    BY <1>1, <2>1, <2>3, ListJoin DEF T!ToSet
  <2> QED BY <2>2, <2>3, JoinIndex
<1>3. ASSUME NEW x \in T!ToSet(p) PROVE x \in T!ToSet(p \o q)
  <2>1. PICK i \in 1 .. Len(p) : x = p[i]
    BY <1>1, <1>3 DEF T!ToSet
  <2>2. i \in 1 .. Len(p \o q) /\ x = (p \o q)[i]
    BY <1>1, <2>1, ListJoin
  <2> QED BY <1>1, <2>2 DEF T!ToSet
<1>4. ASSUME NEW x \in T!ToSet(q) PROVE x \in T!ToSet(p \o q)
  <2>1. PICK i \in 1 .. Len(q) : x = q[i]
    BY <1>1, <1>4 DEF T!ToSet
  <2>2. Len(p) + i \in 1 .. Len(p \o q) /\ x = (p \o q)[Len(p) + i]
    BY <1>1, <2>1, ListJoin
  <2> QED BY <1>1, <2>2 DEF T!ToSet
<1> QED BY <1>2, <1>3, <1>4

(* Lists written out.                                                      *)
LEMMA EmptyIsList == IsList(<< >>) /\ Len(<< >>) = 0 /\ T!ToSet(<< >>) = {}
<1>1. << >> \in Seq({})
  OBVIOUS
<1>2. DOMAIN << >> = {}
  OBVIOUS
<1> QED BY <1>1, <1>2, ListIs DEF T!ToSet

LEMMA OneIsList == ASSUME NEW x PROVE IsList(<< x >>) /\ Len(<< x >>) = 1 /\ << x >>[1] = x /\ T!ToSet(<< x >>) = {x}
<1>1. << x >> \in Seq({x})
  OBVIOUS
<1>2. DOMAIN << x >> = {1} /\ << x >>[1] = x
  OBVIOUS
<1> QED BY <1>1, <1>2, ListIs DEF T!ToSet

LEMMA TwoIsList == ASSUME NEW x, NEW y
  PROVE IsList(<< x, y >>) /\ Len(<< x, y >>) = 2 /\ << x, y >>[1] = x /\ << x, y >>[2] = y /\ T!ToSet(<< x, y >>) = {x, y}
<1>1. << x, y >> \in Seq({x, y})
  OBVIOUS
<1>2. DOMAIN << x, y >> = {1, 2} /\ << x, y >>[1] = x /\ << x, y >>[2] = y
  OBVIOUS
<1> QED BY <1>1, <1>2, ListIs DEF T!ToSet

(* What is flattened is a list of lists.                                   *)
ListOfLists(s, n) ==
  /\ n \in Nat /\ Len(s) = n /\ (n = 0 => s = << >>)
  /\ \A i \in 1 .. n : IsList(s[i])

LEMMA FlattenEmpty == T!FlattenSeq(<< >>) = << >>
  BY DEF T!FlattenSeq

(* Lists are flattened to a list of all their elements.                    *)
LEMMA FlattenIsList ==
  ASSUME NEW n, NEW s, ListOfLists(s, n)
  PROVE  /\ IsList(T!FlattenSeq(s))
         /\ T!ToSet(T!FlattenSeq(s)) = UNION {T!ToSet(s[i]) : i \in 1 .. n}
<1>1. CASE n = 0
  BY <1>1, FlattenEmpty, EmptyIsList DEF ListOfLists
<1>2. CASE n # 0
  <2>0. n \in Nat /\ n > 0 /\ Len(s) = n
    BY <1>2 DEF ListOfLists
  <2>1. FlattensBy(s, n)
    BY <2>0, FlattenUnfolds
  <2>2. PICK f : Joins(f, s, n) /\ T!FlattenSeq(s) = f[n]
    BY <2>1 DEF FlattensBy
  <2> DEFINE Upto(k) == UNION {T!ToSet(s[i]) : i \in 1 .. k}
             TT == {k \in Nat : k \in 1 .. n => IsList(f[k]) /\ T!ToSet(f[k]) = Upto(k)}
  <2>3. 0 \in TT
    OBVIOUS
  <2>4. ASSUME NEW k \in Nat, k \in TT PROVE k + 1 \in TT
    <3> SUFFICES ASSUME k + 1 \in 1 .. n PROVE IsList(f[k + 1]) /\ T!ToSet(f[k + 1]) = Upto(k + 1)
      OBVIOUS
    <3>1. IsList(s[k + 1])
      BY DEF ListOfLists
    <3>2. CASE k = 0
      <4>1. f[k + 1] = s[1] /\ 1 .. k + 1 = {1} /\ k + 1 = 1
        BY <3>2, <2>2 DEF Joins
      <4> QED BY <3>1, <4>1
    <3>3. CASE k # 0
      <4>1. f[k + 1] = f[k] \o s[k + 1]
        <5>1. k + 1 \in 2 .. n /\ (k + 1) - 1 = k
          BY <3>3
        <5> QED BY <2>2, <5>1 DEF Joins
      <4>2. IsList(f[k]) /\ T!ToSet(f[k]) = Upto(k)
        <5>1. k \in 1 .. n
          BY <2>0, <3>3
        <5> HIDE DEF Upto
        <5> QED BY <2>4, <5>1
      <4>3. IsList(f[k + 1]) /\ T!ToSet(f[k + 1]) = Upto(k) \cup T!ToSet(s[k + 1])
        BY <3>1, <4>1, <4>2, ListJoin, JoinSet
      <4>4. 1 .. k + 1 = 1 .. k \cup {k + 1}
        OBVIOUS
      <4> QED BY <4>3, <4>4
    <3> QED BY <3>2, <3>3
  <2> HIDE DEF TT
  <2>5. n \in TT
    BY <2>0, <2>3, <2>4, Induction
  <2>6. n \in 1 .. n
    BY <2>0
  <2> QED BY <2>2, <2>5, <2>6 DEF TT
<1> QED BY <1>1, <1>2

(* What is used, in one spelling.                                          *)
Uses(u) == {Resolved(sym) : sym \in u}

(* Two declarations that are one up to spelling.                           *)
SameDeclaration(d, e) ==
  /\ d.kind = e.kind
  /\ [a \in DOMAIN d.declares |-> Resolved(d.declares[a])]
       = [a \in DOMAIN e.declares |-> Resolved(e.declares[a])]
  /\ Uses(d.uses) = Uses(e.uses)

(* Theories that are the same up to spelling, declaration by declaration.  *)
Mirrored(p, q) ==
  /\ IsList(p) /\ IsList(q) /\ Len(p) = Len(q)
  /\ \A i \in 1 .. Len(p) : SameDeclaration(p[i], q[i])

LEMMA MirroredSkeleton ==
  ASSUME NEW p, NEW q, Mirrored(p, q)
  PROVE  Skeleton(p) = Skeleton(q)
<1>1. DOMAIN p = 1 .. Len(p) /\ DOMAIN q = 1 .. Len(p)
  BY ListHas DEF Mirrored
<1>2. \A i \in 1 .. Len(p) : SameDeclaration(p[i], q[i])
  BY DEF Mirrored
<1> QED BY <1>1, <1>2 DEF Skeleton, SameDeclaration, Uses

LEMMA MirroredSelf == ASSUME NEW p, IsList(p) PROVE Mirrored(p, p)
  BY DEF Mirrored, SameDeclaration

LEMMA MirroredOne ==
  ASSUME NEW d, NEW e, SameDeclaration(d, e) PROVE Mirrored(<< d >>, << e >>)
<1>1. IsList(<< d >>) /\ IsList(<< e >>) /\ Len(<< d >>) = 1 /\ Len(<< e >>) = 1
      /\ << d >>[1] = d /\ << e >>[1] = e
  BY OneIsList
<1>2. \A i \in 1 .. 1 : i = 1
  OBVIOUS
<1> QED BY <1>1, <1>2 DEF Mirrored

LEMMA MirroredTwo ==
  ASSUME NEW d, NEW e, NEW x, NEW y, SameDeclaration(d, e), SameDeclaration(x, y)
  PROVE  Mirrored(<< d, x >>, << e, y >>)
<1>1. IsList(<< d, x >>) /\ IsList(<< e, y >>) /\ Len(<< d, x >>) = 2 /\ Len(<< e, y >>) = 2
      /\ << d, x >>[1] = d /\ << e, y >>[1] = e /\ << d, x >>[2] = x /\ << e, y >>[2] = y
  BY TwoIsList
<1>2. \A i \in 1 .. 2 : i = 1 \/ i = 2
  OBVIOUS
<1> QED BY <1>1, <1>2 DEF Mirrored

LEMMA MirroredJoin ==
  ASSUME NEW p, NEW q, NEW r, NEW s, Mirrored(p, q), Mirrored(r, s)
  PROVE  Mirrored(p \o r, q \o s)
<1>1. IsList(p) /\ IsList(q) /\ IsList(r) /\ IsList(s) /\ Len(p) = Len(q) /\ Len(r) = Len(s)
  BY DEF Mirrored
<1>2. IsList(p \o r) /\ IsList(q \o s) /\ Len(p \o r) = Len(q \o s)
  BY <1>1, ListJoin
<1>3. \A i \in 1 .. Len(p \o r) : i \in 1 .. Len(p) \/ \E j \in 1 .. Len(r) : i = Len(p) + j
  BY <1>1, JoinIndex
<1>4. ASSUME NEW i \in 1 .. Len(p \o r) PROVE SameDeclaration((p \o r)[i], (q \o s)[i])
  <2>1. CASE i \in 1 .. Len(p)
    <3>1. (p \o r)[i] = p[i] /\ (q \o s)[i] = q[i]
      BY <1>1, <2>1, ListJoin
    <3> QED BY <2>1, <3>1 DEF Mirrored
  <2>2. CASE \E j \in 1 .. Len(r) : i = Len(p) + j
    <3>1. PICK j \in 1 .. Len(r) : i = Len(p) + j
      BY <2>2
    <3>2. (p \o r)[i] = r[j] /\ (q \o s)[i] = s[j]
      BY <1>1, <3>1, ListJoin
    <3> QED BY <3>1, <3>2 DEF Mirrored
  <2> QED BY <1>3, <2>1, <2>2
<1> QED BY <1>2, <1>4 DEF Mirrored

(* What is flattened part by part mirrors what its parts mirror.           *)
LEMMA MirroredFlatten ==
  ASSUME NEW n \in Nat, NEW s, NEW t, Len(s) = n, Len(t) = n,
         n = 0 => s = << >> /\ t = << >>,
         \A i \in 1 .. n : Mirrored(s[i], t[i])
  PROVE  Mirrored(T!FlattenSeq(s), T!FlattenSeq(t))
<1>1. CASE n = 0
  BY <1>1, FlattenEmpty, EmptyIsList, MirroredSelf
<1>2. CASE n # 0
  <2>0. n > 0
    BY <1>2
  <2>1. FlattensBy(s, n) /\ FlattensBy(t, n)
    BY <2>0, FlattenUnfolds
  <2>2. PICK f : Joins(f, s, n) /\ T!FlattenSeq(s) = f[n]
    BY <2>1 DEF FlattensBy
  <2>3. PICK g : Joins(g, t, n) /\ T!FlattenSeq(t) = g[n]
    BY <2>1 DEF FlattensBy
  <2> DEFINE TT == {k \in Nat : k \in 1 .. n => Mirrored(f[k], g[k])}
  <2>4. 0 \in TT
    OBVIOUS
  <2>5. ASSUME NEW k \in Nat, k \in TT PROVE k + 1 \in TT
    <3> SUFFICES ASSUME k + 1 \in 1 .. n PROVE Mirrored(f[k + 1], g[k + 1])
      OBVIOUS
    <3>1. Mirrored(s[k + 1], t[k + 1])
      OBVIOUS
    <3>2. CASE k = 0
      <4>1. f[k + 1] = s[k + 1] /\ g[k + 1] = t[k + 1]
        BY <3>2, <2>2, <2>3 DEF Joins
      <4> QED BY <3>1, <4>1
    <3>3. CASE k # 0
      <4>1. f[k + 1] = f[k] \o s[k + 1] /\ g[k + 1] = g[k] \o t[k + 1]
        <5>1. k + 1 \in 2 .. n /\ (k + 1) - 1 = k
          BY <3>3
        <5> QED BY <2>2, <2>3, <5>1 DEF Joins
      <4>2. Mirrored(f[k], g[k])
        BY <2>5, <3>3
      <4> QED BY <3>1, <4>1, <4>2, MirroredJoin
    <3> QED BY <3>2, <3>3
  <2> HIDE DEF TT
  <2>6. n \in TT /\ n \in 1 .. n
    BY <2>0, <2>4, <2>5, Induction
  <2> QED BY <2>2, <2>3, <2>6 DEF TT
<1> QED BY <1>1, <1>2

(* The same for the parts of an output.                                    *)
Alike(w, v) == Mirrored(w.declarations, v.declarations) /\ (w.outcome = "ok" <=> v.outcome = "ok")

(* Writing the parts one after the other stops at the same part.           *)
LEMMA AlikeAll ==
  ASSUME NEW n \in Nat, n > 0, NEW s, NEW t, IsList(s), IsList(t), Len(s) = n, Len(t) = n,
         \A i \in 1 .. n : Alike(s[i], t[i])
  PROVE  Alike(T!WriteAll(s), T!WriteAll(t))
<1>1. DOMAIN s = 1 .. n /\ DOMAIN t = 1 .. n
  BY ListHas
<1> DEFINE failed == {i \in 1 .. n : s[i].outcome # "ok"}
           last == IF failed = {} THEN n ELSE T!Min(failed)
<1>2. failed = {i \in DOMAIN s : s[i].outcome # "ok"} /\ failed = {i \in DOMAIN t : t[i].outcome # "ok"}
  BY <1>1 DEF Alike
<1>3. last \in 1 .. n
  <2>1. CASE failed # {}
    <3>1. \E x \in failed : \A y \in failed : x <= y
      <4>1. failed \subseteq Nat
        OBVIOUS
      <4> HIDE DEF failed
      <4> QED BY <2>1, <4>1, LeastNat
    <3> QED BY <2>1, <3>1 DEF T!Min
  <2> QED BY <2>1
<1>4. T!WriteAll(s) = T!Written(T!FlattenSeq([i \in 1 .. last |-> s[i].declarations]), s[last].outcome)
      /\ T!WriteAll(t) = T!Written(T!FlattenSeq([i \in 1 .. last |-> t[i].declarations]), t[last].outcome)
  BY <1>2 DEF T!WriteAll
<1> HIDE DEF last
<1> DEFINE x == [i \in 1 .. last |-> s[i].declarations]
           y == [i \in 1 .. last |-> t[i].declarations]
<1>5. last \in Nat /\ Len(x) = last /\ Len(y) = last /\ last # 0 /\ \A i \in 1 .. last : i \in 1 .. n
  BY <1>3
<1>6. \A i \in 1 .. last : Mirrored(x[i], y[i])
  BY <1>5 DEF Alike
<1> HIDE DEF x, y
<1>7. Mirrored(T!FlattenSeq(x), T!FlattenSeq(y))
  BY <1>5, <1>6, MirroredFlatten
<1>8. s[last].outcome = "ok" <=> t[last].outcome = "ok"
  BY <1>3 DEF Alike
<1> QED BY <1>4, <1>7, <1>8 DEF Alike, T!Written, x, y

(* Every operator of Theory is the same in both generators.                *)
LEMMA SameCardinality ==
  ASSUME NEW S
  PROVE  /\ Isabelle!Cardinality(S) = Cardinality(S) /\ Lean!Cardinality(S) = Cardinality(S)
         /\ T!Cardinality(S) = Cardinality(S)
  BY DEF Isabelle!Cardinality, Lean!Cardinality, T!Cardinality, Cardinality, IsFiniteSet, Isabelle!IsFiniteSet, Lean!IsFiniteSet, T!IsFiniteSet

LEMMA SameToSet ==
  ASSUME NEW s
  PROVE  Isabelle!ToSet(s) = T!ToSet(s) /\ Lean!ToSet(s) = T!ToSet(s)
  BY DEF Isabelle!ToSet, Lean!ToSet, T!ToSet

LEMMA SameRank ==
  ASSUME NEW key
  PROVE  Isabelle!InOrderOf(key) = T!InOrderOf(key) /\ Lean!InOrderOf(key) = T!InOrderOf(key)
  BY DEF Isabelle!Cardinality, Lean!Cardinality, T!Cardinality, Isabelle!IsFiniteSet, Lean!IsFiniteSet, T!IsFiniteSet, Isabelle!InOrderOf, Lean!InOrderOf, T!InOrderOf

LEMMA SameAmong ==
  ASSUME NEW s, NEW S
  PROVE  Isabelle!Among(s, S) = T!Among(s, S) /\ Lean!Among(s, S) = T!Among(s, S)
  BY DEF Isabelle!Among, Lean!Among, T!Among

LEMMA SameSort ==
  ASSUME NEW states
  PROVE  Isabelle!SortIRStates(states) = T!SortIRStates(states) /\ Lean!SortIRStates(states) = T!SortIRStates(states)
  BY SameRank DEF Isabelle!SortIRStates, Lean!SortIRStates, T!SortIRStates

LEMMA SameTau ==
  ASSUME NEW edges
  PROVE  Isabelle!TauEdges(edges) = T!TauEdges(edges) /\ Lean!TauEdges(edges) = T!TauEdges(edges)
  BY SameAmong, SameToSet DEF Isabelle!TauEdges, Lean!TauEdges, T!TauEdges

LEMMA SamePredicates ==
  ASSUME NEW mm
  PROVE  Isabelle!Predicates(mm) = T!Predicates(mm) /\ Lean!Predicates(mm) = T!Predicates(mm)
  BY SameRank DEF Isabelle!Predicates, Lean!Predicates, T!Predicates

LEMMA SameSetToSeq ==
  ASSUME NEW S
  PROVE  Isabelle!SetToSeq(S) = T!SetToSeq(S) /\ Lean!SetToSeq(S) = T!SetToSeq(S)
  BY SameCardinality DEF Isabelle!SetToSeq, Lean!SetToSeq, T!SetToSeq, Isabelle!IsInjective, Lean!IsInjective, T!IsInjective

LEMMA SameMangle ==
  ASSUME NEW s
  PROVE  Isabelle!Mangle(s) = T!Mangle(s) /\ Lean!Mangle(s) = T!Mangle(s)
  BY SameFlatten DEF Isabelle!Mangle, Lean!Mangle, T!Mangle, Isabelle!Escaped, Lean!Escaped, T!Escaped, Isabelle!Underscore, Lean!Underscore, T!Underscore

LEMMA SameCtor ==
  ASSUME NEW side, NEW s
  PROVE  Isabelle!Ctor(side, s) = T!Ctor(side, s) /\ Lean!Ctor(side, s) = T!Ctor(side, s)
  BY SameMangle DEF Isabelle!Ctor, Lean!Ctor, T!Ctor

LEMMA SameEventCtor ==
  ASSUME NEW e
  PROVE  Isabelle!EventCtor(e) = T!EventCtor(e) /\ Lean!EventCtor(e) = T!EventCtor(e)
  BY SameMangle DEF Isabelle!EventCtor, Lean!EventCtor, T!EventCtor

LEMMA SameVarName ==
  ASSUME NEW n, NEW primed
  PROVE  Isabelle!VarName(n, primed) = T!VarName(n, primed) /\ Lean!VarName(n, primed) = T!VarName(n, primed)
  BY SameMangle DEF Isabelle!VarName, Lean!VarName, T!VarName

LEMMA SameFields ==
  ASSUME NEW states, NEW s
  PROVE  Isabelle!FieldsIn(states, s) = T!FieldsIn(states, s) /\ Lean!FieldsIn(states, s) = T!FieldsIn(states, s)
  BY DEF Isabelle!FieldsIn, Lean!FieldsIn, T!FieldsIn

LEMMA SameFieldVars ==
  ASSUME NEW fields, NEW primed
  PROVE  Isabelle!FieldVars(fields, primed) = T!FieldVars(fields, primed) /\ Lean!FieldVars(fields, primed) = T!FieldVars(fields, primed)
  BY SameVarName DEF Isabelle!FieldVars, Lean!FieldVars, T!FieldVars

LEMMA SameArgVars ==
  ASSUME NEW args
  PROVE  Isabelle!ArgVars(args) = T!ArgVars(args) /\ Lean!ArgVars(args) = T!ArgVars(args)
  BY SameVarName DEF Isabelle!ArgVars, Lean!ArgVars, T!ArgVars

LEMMA SameHasVars ==
  ASSUME NEW states
  PROVE  Isabelle!HasVars(states) = T!HasVars(states) /\ Lean!HasVars(states) = T!HasVars(states)
  BY DEF Isabelle!HasVars, Lean!HasVars, T!HasVars

(* The words that the backends spell differently.                          *)
LEMMA Spellings ==
  ASSUME NEW x
  PROVE  /\ Respelled(<<"word", "Val", x>>) = Respelled(<<"word", "val", x>>)
         /\ Respelled(<<"word", "St", x>>) = Respelled(<<"word", "st", x>>)
         /\ Respelled(<<"word", "Reachable", x>>) = Respelled(<<"word", "reachable", x>>)
         /\ Respelled(<<"word", "tauStep", x>>) = Respelled(<<"word", "tau_step", x>>)
         /\ Respelled(<<"word", "refTfix", x>>) = Respelled(<<"word", "<=T", x>>)
         /\ Respelled(<<"word", "refFfix", x>>) = Respelled(<<"word", "<=F", x>>)
<1> DEFINE words == [Val |-> "val", St |-> "st", Reachable |-> "reachable", tauStep |-> "tau_step",
                     refTfix |-> "<=T", refFfix |-> "<=F"]
           W(w) == << "word", w, x >>
<1>1. DOMAIN words = {"Val", "St", "Reachable", "tauStep", "refTfix", "refFfix"}
      /\ words["Val"] = "val" /\ words["St"] = "st" /\ words["Reachable"] = "reachable"
      /\ words["tauStep"] = "tau_step" /\ words["refTfix"] = "<=T" /\ words["refFfix"] = "<=F"
  OBVIOUS
<1>2. ASSUME NEW w PROVE Respelled(W(w)) = IF w \in DOMAIN words THEN W(words[w]) ELSE W(w)
  <2>1. W(w)[1] = "word" /\ W(w)[2] = w
    OBVIOUS
  <2>2. Respelled(W(w)) = IF w \in DOMAIN words THEN [W(w) EXCEPT ![2] = words[w]] ELSE W(w)
    BY <2>1 DEF Respelled
  <2>3. \A y : [W(w) EXCEPT ![2] = y] = W(y)
    OBVIOUS
  <2> HIDE DEF words, W
  <2> QED BY <2>2, <2>3
<1> HIDE DEF words
<1>3. /\ "val" \notin DOMAIN words /\ "st" \notin DOMAIN words /\ "reachable" \notin DOMAIN words
      /\ "tau_step" \notin DOMAIN words /\ "<=T" \notin DOMAIN words /\ "<=F" \notin DOMAIN words
  BY <1>1
<1> HIDE DEF W
<1>4. /\ Respelled(W("Val")) = Respelled(W("val")) /\ Respelled(W("St")) = Respelled(W("st"))
      /\ Respelled(W("Reachable")) = Respelled(W("reachable"))
      /\ Respelled(W("tauStep")) = Respelled(W("tau_step"))
      /\ Respelled(W("refTfix")) = Respelled(W("<=T")) /\ Respelled(W("refFfix")) = Respelled(W("<=F"))
  BY <1>1, <1>2, <1>3
<1> QED BY <1>4 DEF W

LEMMA ResolvedSym ==
  ASSUME NEW n, NEW k
  PROVE  Resolved(T!Sym(n, k)) = T!Sym(Respelled(n), k)
  BY DEF Resolved, T!Sym

(* Declarations that differ in the spelling of their names only.           *)
LEMMA RespelledDatatype ==
  ASSUME NEW a, NEW b, Respelled(a) = Respelled(b), NEW ctors, IsList(ctors),
         NEW u, NEW v, Uses(u) = Uses(v)
  PROVE  SameDeclaration(Isabelle!Datatype(a, ctors, u), Lean!Datatype(b, ctors, v))
<1> DEFINE p == << T!Sym(a, 0) >> \o ctors
           q == << T!Sym(b, 0) >> \o ctors
<1>1. /\ IsList(<< T!Sym(a, 0) >>) /\ Len(<< T!Sym(a, 0) >>) = 1 /\ << T!Sym(a, 0) >>[1] = T!Sym(a, 0)
      /\ IsList(<< T!Sym(b, 0) >>) /\ Len(<< T!Sym(b, 0) >>) = 1 /\ << T!Sym(b, 0) >>[1] = T!Sym(b, 0)
  BY OneIsList
<1>2. IsList(p) /\ IsList(q) /\ Len(p) = 1 + Len(ctors) /\ Len(q) = 1 + Len(ctors)
  BY <1>1, ListJoin
<1>3. DOMAIN p = 1 .. Len(p) /\ DOMAIN q = 1 .. Len(p)
  BY <1>2, ListHas
<1>4. ASSUME NEW i \in 1 .. Len(p) PROVE Resolved(p[i]) = Resolved(q[i])
  <2>1. CASE i \in 1 .. 1
    <3>1. p[i] = T!Sym(a, 0) /\ q[i] = T!Sym(b, 0)
      BY <1>1, <2>1, ListJoin
    <3> QED BY <3>1, ResolvedSym
  <2>2. CASE \E j \in 1 .. Len(ctors) : i = 1 + j
    BY <1>1, <2>2, ListJoin
  <2> QED BY <1>1, <2>1, <2>2, JoinIndex
<1> HIDE DEF p, q
<1>5. [i \in DOMAIN p |-> Resolved(p[i])] = [i \in DOMAIN q |-> Resolved(q[i])]
  BY <1>3, <1>4
<1> QED BY <1>5 DEF p, q, SameDeclaration, Isabelle!Datatype, Lean!Datatype, Isabelle!Declaration,
  Lean!Declaration, Isabelle!Sym, Lean!Sym, T!Sym

(* Declarations of one name, spelled by each backend its own way.          *)
LEMMA RespelledOne ==
  ASSUME NEW d, NEW e, NEW a, NEW b, NEW k, d.declares = << T!Sym(a, k) >>, e.declares = << T!Sym(b, k) >>,
         Respelled(a) = Respelled(b), d.kind = e.kind,
         Uses(d.uses) = Uses(e.uses)
  PROVE  SameDeclaration(d, e)
<1>1. Resolved(T!Sym(a, k)) = Resolved(T!Sym(b, k))
  BY ResolvedSym
<1>2. DOMAIN << T!Sym(a, k) >> = {1} /\ DOMAIN << T!Sym(b, k) >> = {1}
      /\ << T!Sym(a, k) >>[1] = T!Sym(a, k) /\ << T!Sym(b, k) >>[1] = T!Sym(b, k)
  OBVIOUS
<1>3. [i \in DOMAIN << T!Sym(a, k) >> |-> Resolved(<< T!Sym(a, k) >>[i])]
       = [i \in DOMAIN << T!Sym(b, k) >> |-> Resolved(<< T!Sym(b, k) >>[i])]
  BY <1>1, <1>2
<1> QED BY <1>3 DEF SameDeclaration

(* The same for the names of a side.                                       *)
LEMMA SpellingOf ==
  ASSUME NEW side
  PROVE  /\ Respelled(Lean!Qualify(side, "St")) = Respelled(Isabelle!Qualify(side, "st"))
         /\ Respelled(Lean!Qualify(side, "Reachable")) = Respelled(Isabelle!Qualify(side, "reachable"))
         /\ Respelled(Lean!Qualify(side, "tauStep")) = Respelled(Isabelle!Qualify(side, "tau_step"))
         /\ \A word : Lean!Qualify(side, word) = Isabelle!Qualify(side, word)
  BY Spellings DEF Lean!Qualify, Isabelle!Qualify

(* One symbol used under two spellings.                                    *)
LEMMA ResolvedTwo ==
  ASSUME NEW a, NEW b, NEW k, Respelled(a) = Respelled(b), NEW u
  PROVE  Uses({T!Sym(a, k)} \cup u) = Uses({T!Sym(b, k)} \cup u)
<1>1. Resolved(T!Sym(a, k)) = Resolved(T!Sym(b, k))
  BY ResolvedSym
<1> QED BY <1>1 DEF Uses

LEMMA SameValPrelude == Mirrored(Isabelle!ValPrelude, Lean!ValPrelude)
<1>1. SameDeclaration(Isabelle!Datatype(<<"word", "val", "">>, << >>, {}), Lean!Datatype(<<"word", "Val", "">>, << >>, {}))
  <2>1. Uses({}) = {}
    BY DEF Uses
  <2> QED BY <2>1, Spellings, EmptyIsList, RespelledDatatype
<1> QED BY <1>1, MirroredOne DEF Isabelle!ValPrelude, Lean!ValPrelude

(* A use of the type of values, or none.                                   *)
LEMMA SameValUse ==
  ASSUME NEW k
  PROVE  Uses(Isabelle!ValUse(k)) = Uses(Lean!ValUse(k))
<1>1. Resolved(T!Sym(<<"word", "val", "">>, 0)) = Resolved(T!Sym(<<"word", "Val", "">>, 0))
  <2>1. Respelled(<<"word", "Val", "">>) = Respelled(<<"word", "val", "">>)
    BY Spellings
  <2> QED BY <2>1, ResolvedSym
<1> QED BY <1>1 DEF Uses, Isabelle!ValUse, Lean!ValUse, Isabelle!Sym, Lean!Sym, T!Sym

(* Uses collected over declarations.                                       *)
IsabelleVals(u, X, f) == \A x : x \in u <=> \E i \in X : x \in Isabelle!ValUse(f[i])
LeanVals(u, X, f) == \A x : x \in u <=> \E i \in X : x \in Lean!ValUse(f[i])

LEMMA SameValUses ==
  ASSUME NEW X, NEW f, NEW u, NEW v, IsabelleVals(u, X, f), LeanVals(v, X, f)
  PROVE  Uses(u) = Uses(v)
<1>1. \A k : /\ \A x \in Isabelle!ValUse(k) : \E y \in Lean!ValUse(k) : Resolved(x) = Resolved(y)
             /\ \A y \in Lean!ValUse(k) : \E x \in Isabelle!ValUse(k) : Resolved(x) = Resolved(y)
  <2> TAKE k
  <2>1. Uses(Isabelle!ValUse(k)) = Uses(Lean!ValUse(k))
    BY SameValUse
  <2>2. \A x \in Isabelle!ValUse(k) : Resolved(x) \in Uses(Lean!ValUse(k))
    BY <2>1 DEF Uses
  <2>3. \A y \in Lean!ValUse(k) : Resolved(y) \in Uses(Isabelle!ValUse(k))
    BY <2>1 DEF Uses
  <2> QED BY <2>2, <2>3 DEF Uses
<1>2. \A x \in u : \E y \in v : Resolved(x) = Resolved(y)
  BY <1>1 DEF IsabelleVals, LeanVals
<1>3. \A y \in v : \E x \in u : Resolved(x) = Resolved(y)
  BY <1>1 DEF IsabelleVals, LeanVals
<1> QED BY <1>2, <1>3 DEF Uses

(* What the backends write of a transition is the same data.               *)
LEMMA SameSmall ==
  ASSUME NEW side, NEW x, NEW e, NEW states
  PROVE  /\ Isabelle!WriteInit(side, x) = Lean!WriteInit(side, x)
         /\ Isabelle!WriteEdge(side, e) = Lean!WriteEdge(side, e)
         /\ Isabelle!WriteDisjunct(side, e, states) = Lean!WriteDisjunct(side, e, states)
<1>1. Isabelle!WriteInit(side, x) = Lean!WriteInit(side, x)
  BY DEF Isabelle!WriteInit, Lean!WriteInit, Isabelle!Alias, Lean!Alias, Isabelle!Declaration, Lean!Declaration,
     Isabelle!Qualify, Lean!Qualify, Isabelle!Sym, Lean!Sym, Isabelle!PredicateName, Lean!PredicateName
<1>2. Isabelle!WriteEdge(side, e) = Lean!WriteEdge(side, e)
  BY DEF Isabelle!WriteEdge, Lean!WriteEdge, Isabelle!Alias, Lean!Alias, Isabelle!Declaration, Lean!Declaration,
     Isabelle!GuardName, Lean!GuardName, Isabelle!PostName, Lean!PostName,
     Isabelle!Sym, Lean!Sym, Isabelle!PredicateName, Lean!PredicateName
<1>3. Isabelle!WriteDisjunct(side, e, states) = Lean!WriteDisjunct(side, e, states)
  <2>1. PICK src : src = T!FieldVars(T!FieldsIn(states, e.src), FALSE)
    OBVIOUS
  <2>2. PICK dst : dst = T!FieldVars(T!FieldsIn(states, e.dst), TRUE)
    OBVIOUS
  <2>3. /\ src = Isabelle!FieldVars(Isabelle!FieldsIn(states, e.src), FALSE)
        /\ src = Lean!FieldVars(Lean!FieldsIn(states, e.src), FALSE)
        /\ dst = Isabelle!FieldVars(Isabelle!FieldsIn(states, e.dst), TRUE)
        /\ dst = Lean!FieldVars(Lean!FieldsIn(states, e.dst), TRUE)
    BY <2>1, <2>2, SameFieldVars, SameFields
  <2>4. Isabelle!ToSet(src \o dst) = Lean!ToSet(src \o dst)
    BY SameToSet
  <2> QED
  BY <2>3, <2>4, SameArgVars, SameCtor
  DEF Isabelle!WriteDisjunct, Lean!WriteDisjunct, Isabelle!Term, Lean!Term, Isabelle!GuardName, Lean!GuardName,
      Isabelle!PostName, Lean!PostName
<1> QED BY <1>1, <1>2, <1>3

(* The declarations of a transition system.                                *)
LEMMA MirroredRelation ==
  ASSUME NEW side, NEW a, NEW b, NEW states, NEW edges,
         Respelled(Isabelle!Qualify(side, a)) = Respelled(Lean!Qualify(side, b))
  PROVE  SameDeclaration(Isabelle!WriteRelation(side, a, states, edges),
                         Lean!WriteRelation(side, b, states, edges))
<1> DEFINE x == [i \in DOMAIN edges |-> Isabelle!WriteDisjunct(side, edges[i], states)]
           y == [i \in DOMAIN edges |-> Lean!WriteDisjunct(side, edges[i], states)]
           U(z) == UNION {{T!Sym(t.name, Len(t.vars)) : t \in {w.src, w.dst, w.guard, w.post}} : w \in T!ToSet(z)}
           d == Isabelle!WriteRelation(side, a, states, edges)
           e == Lean!WriteRelation(side, b, states, edges)
<1>1. x = y
  BY SameSmall
<1> HIDE DEF x, y
<1>2. /\ d.declares = << T!Sym(Isabelle!Qualify(side, a), 2) >> /\ d.kind = "relation"
      /\ d.uses = {T!Sym(Isabelle!Qualify(side, "st"), 0)} \cup U(x)
  BY SameToSet DEF x, Isabelle!WriteRelation, Isabelle!Relation, Isabelle!Declaration, Isabelle!Sym, T!Sym,
     Isabelle!SymOf, Isabelle!TermsOf
<1>3. /\ e.declares = << T!Sym(Lean!Qualify(side, b), 2) >> /\ e.kind = "relation"
      /\ e.uses = {T!Sym(Lean!Qualify(side, "St"), 0)} \cup U(y)
  BY SameToSet DEF y, Lean!WriteRelation, Lean!Relation, Lean!Declaration, Lean!Sym, T!Sym,
     Lean!SymOf, Lean!TermsOf
<1> HIDE DEF U, d, e
<1>4. Uses(d.uses) = Uses(e.uses)
  <2>1. Respelled(Lean!Qualify(side, "St")) = Respelled(Isabelle!Qualify(side, "st"))
    BY SpellingOf
  <2>2. \A w : Uses({T!Sym(Isabelle!Qualify(side, "st"), 0)} \cup w)
                = Uses({T!Sym(Lean!Qualify(side, "St"), 0)} \cup w)
    BY <2>1, ResolvedTwo
  <2> QED BY <1>1, <1>2, <1>3, <2>2
<1>5. SameDeclaration(d, e)
  BY <1>2, <1>3, <1>4, RespelledOne
<1> QED BY <1>5 DEF d, e

LEMMA AlikeOk ==
  ASSUME NEW p, NEW q, Mirrored(p, q)
  PROVE  Alike(Isabelle!Ok(p), Lean!Ok(q))
  BY DEF Alike, Isabelle!Ok, Lean!Ok, Isabelle!Written, Lean!Written

LEMMA AlikeReachable ==
  ASSUME NEW side, NEW x, NEW states
  PROVE  Alike(Isabelle!WriteReachable(side, x, states), Lean!WriteReachable(side, x, states))
<1> DEFINE vars_ == T!FieldVars(T!FieldsIn(states, x.dst), FALSE)
           base == [name |-> T!Qualify(side, "init"), vars |-> vars_]
           to == [name |-> T!Ctor(side, x.dst), vars |-> vars_]
           V == {T!Sym(T!Qualify(side, "init"), Len(vars_)), T!Sym(T!Ctor(side, x.dst), Len(vars_)),
                 T!Sym(T!Qualify(side, "step"), 2)}
           d == [kind |-> "reachable", declares |-> << T!Sym(Isabelle!Qualify(side, "reachable"), 1) >>,
                 uses |-> {T!Sym(T!Qualify(side, "init"), Len(vars_)), T!Sym(T!Ctor(side, x.dst), Len(vars_)),
                           T!Sym(T!Qualify(side, "step"), 2), T!Sym(Isabelle!Qualify(side, "st"), 0)},
                 free |-> {}, says |-> [base |-> base, to |-> to, step |-> T!Qualify(side, "step")]]
           e == [kind |-> "reachable", declares |-> << T!Sym(Lean!Qualify(side, "Reachable"), 1) >>,
                 uses |-> {T!Sym(T!Qualify(side, "init"), Len(vars_)), T!Sym(T!Ctor(side, x.dst), Len(vars_)),
                           T!Sym(T!Qualify(side, "step"), 2), T!Sym(Lean!Qualify(side, "St"), 0)},
                 free |-> {}, says |-> [base |-> base, to |-> to, step |-> T!Qualify(side, "step")]]
<1>1. Isabelle!WriteReachable(side, x, states) =
        IF x.dst \notin DOMAIN states THEN Isabelle!Written(<< >>, "error") ELSE Isabelle!Ok(<< d >>)
  BY SameFieldVars, SameFields, SameCtor
  DEF Isabelle!WriteReachable, Isabelle!Declaration, Isabelle!Sym, T!Sym, Isabelle!SymOf, Isabelle!Term,
      Isabelle!Qualify, T!Qualify
<1>2. Lean!WriteReachable(side, x, states) =
        IF x.dst \notin DOMAIN states THEN Lean!Written(<< >>, "error") ELSE Lean!Ok(<< e >>)
  BY SameFieldVars, SameFields, SameCtor
  DEF Lean!WriteReachable, Lean!Declaration, Lean!Sym, T!Sym, Lean!SymOf, Lean!Term,
      Lean!Qualify, T!Qualify
<1>3. d.uses = {T!Sym(Isabelle!Qualify(side, "st"), 0)} \cup V /\ e.uses = {T!Sym(Lean!Qualify(side, "St"), 0)} \cup V
  OBVIOUS
<1>4. d.kind = e.kind /\ d.declares = << T!Sym(Isabelle!Qualify(side, "reachable"), 1) >>
      /\ e.declares = << T!Sym(Lean!Qualify(side, "Reachable"), 1) >>
  OBVIOUS
<1> HIDE DEF d, e, V
<1>5. SameDeclaration(d, e)
  <2>1. Uses(d.uses) = Uses(e.uses)
    <3>1. Respelled(Isabelle!Qualify(side, "st")) = Respelled(Lean!Qualify(side, "St"))
      BY SpellingOf
    <3> QED BY <1>3, <3>1, ResolvedTwo
  <2>2. Respelled(Isabelle!Qualify(side, "reachable")) = Respelled(Lean!Qualify(side, "Reachable"))
    BY SpellingOf
  <2> QED BY <1>4, <2>1, <2>2, RespelledOne
<1>6. CASE x.dst \notin DOMAIN states
  BY <1>1, <1>2, <1>6, EmptyIsList, MirroredSelf DEF Alike, Isabelle!Written, Lean!Written
<1>7. CASE x.dst \in DOMAIN states
  BY <1>1, <1>2, <1>5, <1>7, AlikeOk, MirroredOne
<1> QED BY <1>6, <1>7

(* Outputs of three parts, as WriteTransitionSystem has them.              *)
LEMMA AlikeThree ==
  ASSUME NEW a, NEW b, NEW c, NEW x, NEW y, NEW z, Alike(a, x), Alike(b, y), Alike(c, z)
  PROVE  Alike(Isabelle!WriteAll(<< a, b, c >>), Lean!WriteAll(<< x, y, z >>))
<1>1. IsList(<< a, b, c >>) /\ IsList(<< x, y, z >>)
  <2>1. << a, b, c >> \in Seq({a, b, c}) /\ << x, y, z >> \in Seq({x, y, z})
    OBVIOUS
  <2> QED BY <2>1, ListIs
<1>2. PICK n \in Nat : n = 3 /\ n > 0 /\ \A i \in 1 .. n : i \in {1, 2, 3}
  OBVIOUS
<1>3. \A i \in 1 .. n : Alike(<< a, b, c >>[i], << x, y, z >>[i])
  BY <1>2
<1>4. Len(<< a, b, c >>) = n /\ Len(<< x, y, z >>) = n
  BY <1>2
<1>5. Alike(T!WriteAll(<< a, b, c >>), T!WriteAll(<< x, y, z >>))
  BY <1>1, <1>2, <1>3, <1>4, AlikeAll
<1> QED BY <1>5, SameWriteAll

LEMMA AlikeStateType ==
  ASSUME NEW side, NEW states, IsFiniteSet(DOMAIN states)
  PROVE  Alike(Isabelle!WriteStateTypeDeclaration(side, states), Lean!WriteStateTypeDeclaration(side, states))
<1> DEFINE sorted == T!SortIRStates(states)
           ctor == [i \in DOMAIN sorted |-> T!Sym(T!Ctor(side, sorted[i]), Len(states[sorted[i]].fields))]
           ar == [i \in DOMAIN sorted |-> ctor[i].arity]
           u == UNION {Isabelle!ValUse(ar[i]) : i \in DOMAIN sorted}
           v == UNION {Lean!ValUse(ar[i]) : i \in DOMAIN sorted}
<1>1. \E n \in Nat : DOMAIN sorted = 1 .. n
  <2>1. Cardinality(DOMAIN states) \in Nat
    BY FS_CardinalityType
  <2>2. DOMAIN sorted = 1 .. Cardinality(DOMAIN states)
    BY SameCardinality DEF T!SortIRStates, T!InOrderOf
  <2> QED BY <2>1, <2>2
<1>2. Isabelle!WriteStateTypeDeclaration(side, states) =
        IF sorted = << >> THEN Isabelle!Written(<< >>, "panic")
        ELSE Isabelle!Ok(<< Isabelle!Datatype(Isabelle!Qualify(side, "st"), ctor, u) >>)
  BY SameSort, SameCtor DEF Isabelle!WriteStateTypeDeclaration, Isabelle!Sym, T!Sym
<1>3. Lean!WriteStateTypeDeclaration(side, states) =
        IF sorted = << >> THEN Lean!Written(<< >>, "error")
        ELSE Lean!Ok(<< Lean!Datatype(Lean!Qualify(side, "St"), ctor, v) >>)
  BY SameSort, SameCtor DEF Lean!WriteStateTypeDeclaration, Lean!Sym, T!Sym
<1>4. IsList(ctor)
  <2>1. PICK n \in Nat : DOMAIN sorted = 1 .. n
    BY <1>1
  <2>2. ctor = [i \in 1 .. n |-> ctor[i]]
    BY <2>1
  <2> HIDE DEF ctor
  <2>3. ctor \in Seq({ctor[i] : i \in 1 .. n})
    BY <2>2
  <2> QED BY <2>3, ListIs
<1> HIDE DEF sorted, ctor
<1>5. Uses(u) = Uses(v)
  <2>1. IsabelleVals(u, DOMAIN sorted, ar)
    BY DEF IsabelleVals
  <2>2. LeanVals(v, DOMAIN sorted, ar)
    BY DEF LeanVals
  <2> HIDE DEF u, v, ar
  <2> QED BY <2>1, <2>2, SameValUses
<1> HIDE DEF u, v
<1>6. SameDeclaration(Isabelle!Datatype(Isabelle!Qualify(side, "st"), ctor, u),
                      Lean!Datatype(Lean!Qualify(side, "St"), ctor, v))
  BY <1>4, <1>5, SpellingOf, RespelledDatatype
<1>7. CASE sorted = << >>
  BY <1>2, <1>3, <1>7, EmptyIsList, MirroredSelf DEF Alike, Isabelle!Written, Lean!Written
<1>8. CASE sorted # << >>
  BY <1>2, <1>3, <1>6, <1>8, AlikeOk, MirroredOne
<1> QED BY <1>7, <1>8

LEMMA AlikeRelations ==
  ASSUME NEW side, NEW x, NEW states, NEW edges
  PROVE  Alike(Isabelle!WriteRelations(side, x, states, edges), Lean!WriteRelations(side, x, states, edges))
<1> DEFINE t == T!TauEdges(edges)
<1>1. Isabelle!TauEdges(edges) = t /\ Lean!TauEdges(edges) = t
  BY SameTau
<1> HIDE DEF t
<1>2. Alike(Isabelle!Ok(<< Isabelle!WriteRelation(side, "step", states, edges) >>),
            Lean!Ok(<< Lean!WriteRelation(side, "step", states, edges) >>))
  BY SpellingOf, MirroredRelation, MirroredOne, AlikeOk
<1>3. Alike(Isabelle!Ok(<< Isabelle!WriteRelation(side, "tau_step", states, t) >>),
            Lean!Ok(<< Lean!WriteRelation(side, "tauStep", states, t) >>))
  BY SpellingOf, MirroredRelation, MirroredOne, AlikeOk
<1> QED BY <1>1, <1>2, <1>3, AlikeReachable, AlikeThree DEF Isabelle!WriteRelations, Lean!WriteRelations

(* Two declarations for every edge.                                        *)
LEMMA MirroredEdges ==
  ASSUME NEW side, NEW edges, IsList(edges)
  PROVE  /\ Isabelle!FlattenSeq([i \in DOMAIN edges |-> Isabelle!WriteEdge(side, edges[i])])
              = Lean!FlattenSeq([i \in DOMAIN edges |-> Lean!WriteEdge(side, edges[i])])
         /\ IsList(Lean!FlattenSeq([i \in DOMAIN edges |-> Lean!WriteEdge(side, edges[i])]))
<1> DEFINE s == [i \in DOMAIN edges |-> Isabelle!WriteEdge(side, edges[i])]
           t == [i \in DOMAIN edges |-> Lean!WriteEdge(side, edges[i])]
<1>1. s = t
  BY SameSmall
<1>2. \A i \in DOMAIN edges : IsList(t[i])
  <2>1. ASSUME NEW e PROVE IsList(Lean!WriteEdge(side, e))
    BY TwoIsList DEF Lean!WriteEdge
  <2> QED BY <2>1
<1>3. DOMAIN edges = 1 .. Len(edges) /\ Len(edges) \in Nat
  BY ListHas
<1>4. Len(t) = Len(edges) /\ (Len(edges) = 0 => t = << >>)
  BY <1>3
<1> HIDE DEF s, t
<1>5. ListOfLists(t, Len(edges))
  BY <1>2, <1>3, <1>4 DEF ListOfLists
<1>6. IsList(T!FlattenSeq(t))
  BY <1>5, FlattenIsList
<1>7. Isabelle!FlattenSeq(s) = Lean!FlattenSeq(t) /\ IsList(Lean!FlattenSeq(t))
  BY <1>1, <1>6, SameFlatten
<1> QED BY <1>7 DEF s, t

LEMMA AlikeTransitionSystem ==
  ASSUME NEW side, NEW x, NEW states, NEW edges, IsList(edges)
  PROVE  Alike(Isabelle!WriteTransitionSystem(side, x, states, edges),
               Lean!WriteTransitionSystem(side, x, states, edges))
<1> DEFINE s == Isabelle!FlattenSeq([i \in DOMAIN edges |-> Isabelle!WriteEdge(side, edges[i])])
           t == Lean!FlattenSeq([i \in DOMAIN edges |-> Lean!WriteEdge(side, edges[i])])
<1>1. Alike(Isabelle!Ok(<< Isabelle!WriteInit(side, x) >>), Lean!Ok(<< Lean!WriteInit(side, x) >>))
  BY SameSmall, OneIsList, MirroredSelf, AlikeOk
<1>2. Mirrored(s, t)
  BY MirroredEdges, MirroredSelf
<1> HIDE DEF s, t
<1>3. Alike(Isabelle!Ok(s), Lean!Ok(t))
  BY <1>2, AlikeOk
<1> QED BY <1>1, <1>3, AlikeRelations, AlikeThree DEF s, t, Isabelle!WriteTransitionSystem, Lean!WriteTransitionSystem

LEMMA MirroredLivelockTheorem ==
  ASSUME NEW side, NEW n
  PROVE  SameDeclaration(Isabelle!WriteLivelockTheorem(side, n), Lean!WriteLivelockTheorem(side, n))
<1> DEFINE d == Isabelle!WriteLivelockTheorem(side, n)
           e == Lean!WriteLivelockTheorem(side, n)
<1>1. /\ d.kind = "theorem" /\ d.declares = << T!Sym(n, 0) >>
      /\ d.uses = {T!Sym(Isabelle!Qualify(side, "reachable"), 1), T!Sym(Isabelle!Qualify(side, "tau_step"), 2)}
  BY DEF Isabelle!WriteLivelockTheorem, Isabelle!Theorem, Isabelle!Declaration, Isabelle!Sym, T!Sym
<1>2. /\ e.kind = "theorem" /\ e.declares = << T!Sym(n, 0) >>
      /\ e.uses = {T!Sym(Lean!Qualify(side, "Reachable"), 1), T!Sym(Lean!Qualify(side, "tauStep"), 2)}
  BY DEF Lean!WriteLivelockTheorem, Lean!Theorem, Lean!Declaration, Lean!Sym, T!Sym
<1> HIDE DEF d, e
<1>3. /\ Resolved(T!Sym(Isabelle!Qualify(side, "reachable"), 1)) = Resolved(T!Sym(Lean!Qualify(side, "Reachable"), 1))
      /\ Resolved(T!Sym(Isabelle!Qualify(side, "tau_step"), 2)) = Resolved(T!Sym(Lean!Qualify(side, "tauStep"), 2))
  BY SpellingOf, ResolvedSym
<1>4. Uses(d.uses) = Uses(e.uses)
  BY <1>1, <1>2, <1>3 DEF Uses
<1>5. SameDeclaration(d, e)
  BY <1>1, <1>2, <1>4, RespelledOne
<1> QED BY <1>5 DEF d, e

(* The predicates of the set are declared by both in the order of their    *)
(* ids.                                                                    *)
LEMMA MirroredPredicates ==
  ASSUME NEW mm, IsFiniteSet(DOMAIN mm)
  PROVE  Mirrored(Isabelle!WritePredicates(mm), Lean!WritePredicates(mm))
<1> DEFINE ids == T!Predicates(mm)
           s == [i \in DOMAIN ids |-> T!PredicateDeclaration(ids[i], mm[ids[i]], mm[ids[i]].text = "true")]
<1>1. Isabelle!WritePredicates(mm) = s /\ Lean!WritePredicates(mm) = s
  BY SamePredicates DEF Isabelle!WritePredicates, Lean!WritePredicates,
    Isabelle!PredicateDeclaration, Lean!PredicateDeclaration, T!PredicateDeclaration,
    Isabelle!Declaration, Lean!Declaration, T!Declaration, Isabelle!Sym, Lean!Sym, T!Sym,
    Isabelle!PredicateName, Lean!PredicateName, T!PredicateName
<1>2. Cardinality(DOMAIN mm) \in Nat /\ DOMAIN ids = 1 .. Cardinality(DOMAIN mm)
  BY FS_CardinalityType, SameCardinality DEF T!Predicates, T!InOrderOf
<1>3. PICK n \in Nat : DOMAIN ids = 1 .. n
  BY <1>2
<1>4. s = [i \in 1 .. n |-> s[i]]
  BY <1>3
<1> HIDE DEF s
<1>5. s \in Seq({s[i] : i \in 1 .. n})
  BY <1>4
<1> QED BY <1>1, <1>5, ListIs, MirroredSelf

(* Outputs of five parts, as WriteLivelockFree has them.                   *)
LEMMA AlikeFive ==
  ASSUME NEW a, NEW b, NEW c, NEW d, NEW e, NEW x, NEW y, NEW z, NEW u, NEW v,
         Alike(a, x), Alike(b, y), Alike(c, z), Alike(d, u), Alike(e, v)
  PROVE  Alike(Isabelle!WriteAll(<< a, b, c, d, e >>), Lean!WriteAll(<< x, y, z, u, v >>))
<1>1. IsList(<< a, b, c, d, e >>) /\ IsList(<< x, y, z, u, v >>)
  <2>1. << a, b, c, d, e >> \in Seq({a, b, c, d, e}) /\ << x, y, z, u, v >> \in Seq({x, y, z, u, v})
    OBVIOUS
  <2> QED BY <2>1, ListIs
<1>2. PICK n \in Nat : n = 5 /\ n > 0 /\ \A i \in 1 .. n : i \in {1, 2, 3, 4, 5}
  OBVIOUS
<1>3. \A i \in 1 .. n : Alike(<< a, b, c, d, e >>[i], << x, y, z, u, v >>[i])
  BY <1>2
<1>4. Len(<< a, b, c, d, e >>) = n /\ Len(<< x, y, z, u, v >>) = n
  BY <1>2
<1>5. Alike(T!WriteAll(<< a, b, c, d, e >>), T!WriteAll(<< x, y, z, u, v >>))
  BY <1>1, <1>2, <1>3, <1>4, AlikeAll
<1> QED BY <1>5, SameWriteAll

(* The document of csdflivelockfree, for every representation of finite    *)
(* states.                                                                 *)
LEMMA AlikeLivelockFree ==
  ASSUME NEW ir, IsFiniteSet(DOMAIN ir.states), IsFiniteSet(DOMAIN ir.predicates), IsList(ir.edges)
  PROVE  Alike(Isabelle!WriteLivelockFree(ir), Lean!WriteLivelockFree(ir))
<1>1. CASE ir.structurally
  BY <1>1, EmptyIsList, MirroredSelf, AlikeOk DEF Isabelle!WriteLivelockFree, Lean!WriteLivelockFree
<1>2. CASE ~ ir.structurally
  <2>1. Alike(Isabelle!Ok(IF Isabelle!HasVars(ir.states) THEN Isabelle!ValPrelude ELSE << >>),
              Lean!Ok(IF Lean!HasVars(ir.states) THEN Lean!ValPrelude ELSE << >>))
    <3>1. CASE T!HasVars(ir.states)
      BY <3>1, SameHasVars, SameValPrelude, AlikeOk
    <3>2. CASE ~ T!HasVars(ir.states)
      BY <3>2, SameHasVars, EmptyIsList, MirroredSelf, AlikeOk
    <3> QED BY <3>1, <3>2
  <2>2. Isabelle!SideSingle = Lean!SideSingle
    BY DEF Isabelle!SideSingle, Lean!SideSingle
  <2> DEFINE side == Isabelle!SideSingle
             n == Isabelle!Qualify(side, "livelock_free")
  <2>3. Alike(Isabelle!WriteStateTypeDeclaration(side, ir.states), Lean!WriteStateTypeDeclaration(side, ir.states))
    BY AlikeStateType
  <2>4. Alike(Isabelle!Ok(Isabelle!WritePredicates(ir.predicates)), Lean!Ok(Lean!WritePredicates(ir.predicates)))
    BY MirroredPredicates, AlikeOk
  <2>5. Alike(Isabelle!WriteTransitionSystem(side, ir.init, ir.states, ir.edges),
              Lean!WriteTransitionSystem(side, ir.init, ir.states, ir.edges))
    BY AlikeTransitionSystem
  <2>6. Alike(Isabelle!Ok(<< Isabelle!WriteLivelockTheorem(side, n) >>), Lean!Ok(<< Lean!WriteLivelockTheorem(side, n) >>))
    BY MirroredLivelockTheorem, MirroredOne, AlikeOk
  <2>7. n = Lean!Qualify(side, "livelock_free")
    BY SpellingOf
  <2> HIDE DEF side, n
  <2>8. Isabelle!WriteLivelockFree(ir) = Isabelle!WriteAll(<<
          Isabelle!Ok(IF Isabelle!HasVars(ir.states) THEN Isabelle!ValPrelude ELSE << >>),
          Isabelle!WriteStateTypeDeclaration(side, ir.states),
          Isabelle!Ok(Isabelle!WritePredicates(ir.predicates)),
          Isabelle!WriteTransitionSystem(side, ir.init, ir.states, ir.edges),
          Isabelle!Ok(<< Isabelle!WriteLivelockTheorem(side, n) >>) >>)
    BY <1>2 DEF Isabelle!WriteLivelockFree, side, n
  <2>9. Lean!WriteLivelockFree(ir) = Lean!WriteAll(<<
          Lean!Ok(IF Lean!HasVars(ir.states) THEN Lean!ValPrelude ELSE << >>),
          Lean!WriteStateTypeDeclaration(side, ir.states),
          Lean!Ok(Lean!WritePredicates(ir.predicates)),
          Lean!WriteTransitionSystem(side, ir.init, ir.states, ir.edges),
          Lean!Ok(<< Lean!WriteLivelockTheorem(side, n) >>) >>)
    <3>1. side = Lean!SideSingle
      BY <2>2 DEF side
    <3> QED BY <1>2, <2>7, <3>1 DEF Lean!WriteLivelockFree
  <2> QED BY <2>1, <2>3, <2>4, <2>5, <2>6, <2>8, <2>9, AlikeFive
<1> QED BY <1>1, <1>2

(* The sides of a refinement and the declarations about one.               *)
LEMMA SameSides ==
  ASSUME NEW ir
  PROVE  Isabelle!Sides(ir) = Lean!Sides(ir)
<1>1. \A k \in {1, 2} : Isabelle!HasVars(ir.sides[k].states) = Lean!HasVars(ir.sides[k].states)
       /\ Isabelle!TauEdges(ir.sides[k].edges) = Lean!TauEdges(ir.sides[k].edges)
  BY SameHasVars, SameTau
<1> QED BY <1>1 DEF Isabelle!Sides, Lean!Sides, Isabelle!SideSpec, Lean!SideSpec, Isabelle!SideImpl, Lean!SideImpl,
   Isabelle!SideSpecStates, Lean!SideSpecStates, Isabelle!SideImplStates, Lean!SideImplStates

LEMMA SameSideDeclarations ==
  ASSUME NEW s
  PROVE  /\ Isabelle!WriteSideAliases(s) = Lean!WriteSideAliases(s)
         /\ Isabelle!NameCtors(s) = Lean!NameCtors(s)
         /\ Isabelle!WriteProcDefinition(s) = Lean!WriteProcDefinition(s)
         /\ Isabelle!WriteInitialisableTheorem(s) = Lean!WriteInitialisableTheorem(s)
<1>1. Isabelle!WriteSideAliases(s) = Lean!WriteSideAliases(s)
  <2>1. /\ Isabelle!WriteInit(s.side, s.ir.init) = Lean!WriteInit(s.side, s.ir.init)
        /\ [i \in DOMAIN s.ir.edges |-> Isabelle!WriteEdge(s.side, s.ir.edges[i])]
             = [i \in DOMAIN s.ir.edges |-> Lean!WriteEdge(s.side, s.ir.edges[i])]
    BY SameSmall
  <2>2. [i \in DOMAIN s.ir.end |->
          Isabelle!Alias(Isabelle!GuardName(s.side, s.ir.end[i].line), s.ir.end[i].guardArgs, s.ir.end[i].guard)]
        = [i \in DOMAIN s.ir.end |->
          Lean!Alias(Lean!GuardName(s.side, s.ir.end[i].line), s.ir.end[i].guardArgs, s.ir.end[i].guard)]
    BY DEF Isabelle!Alias, Lean!Alias, Isabelle!GuardName, Lean!GuardName, Isabelle!Declaration, Lean!Declaration,
     Isabelle!Sym, Lean!Sym, Isabelle!PredicateName, Lean!PredicateName
  <2> QED BY <2>1, <2>2, SameFlatten DEF Isabelle!WriteSideAliases, Lean!WriteSideAliases
<1>2. Isabelle!NameCtors(s) = Lean!NameCtors(s)
  BY SameSort, SameCtor DEF Isabelle!NameCtors, Lean!NameCtors, Isabelle!Sym, Lean!Sym
<1>3. Isabelle!WriteProcDefinition(s) = Lean!WriteProcDefinition(s)
  <2>1. PICK x : x = T!FieldVars(T!FieldsIn(s.ir.states, s.ir.init.dst), FALSE)
    OBVIOUS
  <2>2. /\ x = Isabelle!FieldVars(Isabelle!FieldsIn(s.ir.states, s.ir.init.dst), FALSE)
        /\ x = Lean!FieldVars(Lean!FieldsIn(s.ir.states, s.ir.init.dst), FALSE)
    BY <2>1, SameFieldVars, SameFields
  <2>3. Isabelle!Hides(s) = Lean!Hides(s)
    BY SameEventCtor DEF Isabelle!Hides, Lean!Hides, Isabelle!EventTerm, Lean!EventTerm, Isabelle!AlphabetCtor,
       Lean!AlphabetCtor, Isabelle!Sym, Lean!Sym, Isabelle!TauCtor, Lean!TauCtor
  <2> QED BY <2>2, <2>3, SameCtor, ZenonT(60) DEF Isabelle!WriteProcDefinition, Lean!WriteProcDefinition,
      Isabelle!Term, Lean!Term, Isabelle!Qualify, Lean!Qualify, Isabelle!SymOf, Lean!SymOf, Isabelle!Sym, Lean!Sym,
      Isabelle!Declaration, Lean!Declaration, Isabelle!InternalCtor, Lean!InternalCtor
<1>4. Isabelle!WriteInitialisableTheorem(s) = Lean!WriteInitialisableTheorem(s)
  <2>1. PICK x : x = T!FieldVars(T!FieldsIn(s.ir.states, s.ir.init.dst), FALSE)
    OBVIOUS
  <2>2. /\ x = Isabelle!FieldVars(Isabelle!FieldsIn(s.ir.states, s.ir.init.dst), FALSE)
        /\ x = Lean!FieldVars(Lean!FieldsIn(s.ir.states, s.ir.init.dst), FALSE)
    BY <2>1, SameFieldVars, SameFields
  <2> QED BY <2>2 DEF Isabelle!WriteInitialisableTheorem, Lean!WriteInitialisableTheorem,
      Isabelle!Term, Lean!Term, Isabelle!Qualify, Lean!Qualify, Isabelle!SymOf, Lean!SymOf, Isabelle!Sym, Lean!Sym,
      Isabelle!Declaration, Lean!Declaration, Isabelle!Theorem, Lean!Theorem
<1> QED BY <1>1, <1>2, <1>3, <1>4

(* The equation of a process name, branch by branch.                       *)
LEMMA SameBranches ==
  ASSUME NEW s, NEW e, NEW st
  PROVE  /\ Isabelle!WriteEdgeBranch(s, e) = Lean!WriteEdgeBranch(s, e)
         /\ Isabelle!WriteStateBody(s, st) = Lean!WriteStateBody(s, st)
         /\ Isabelle!Equations(s) = Lean!Equations(s)
<1>1. ASSUME NEW f PROVE Isabelle!WriteEdgeBranch(s, f) = Lean!WriteEdgeBranch(s, f)
  <2>1. PICK x : x = T!FieldVars(T!FieldsIn(s.ir.states, f.dst), TRUE)
    OBVIOUS
  <2>2. /\ x = Isabelle!FieldVars(Isabelle!FieldsIn(s.ir.states, f.dst), TRUE)
        /\ x = Lean!FieldVars(Lean!FieldsIn(s.ir.states, f.dst), TRUE)
    BY <2>1, SameFieldVars, SameFields
  <2>3. Isabelle!EventTerm(s, f.event) = Lean!EventTerm(s, f.event)
    BY SameEventCtor DEF Isabelle!EventTerm, Lean!EventTerm, Isabelle!AlphabetCtor,
       Lean!AlphabetCtor, Isabelle!Sym, Lean!Sym, Isabelle!TauCtor, Lean!TauCtor
  <2> QED BY <2>2, <2>3, SameCtor, SameArgVars DEF Isabelle!WriteEdgeBranch, Lean!WriteEdgeBranch,
     Isabelle!EdgeBranch, Lean!EdgeBranch, Isabelle!Term, Lean!Term, Isabelle!GuardName, Lean!GuardName,
     Isabelle!PostName, Lean!PostName
<1>2. ASSUME NEW x PROVE Isabelle!WriteStateBody(s, x) = Lean!WriteStateBody(s, x)
  <2> DEFINE S == {e_1 \in T!ToSet(s.ir.edges) : e_1.src = x}
             R == {e_1 \in T!ToSet(s.ir.end) : e_1.src = x}
  <2>1. PICK out : out = T!Among(s.ir.edges, S)
    OBVIOUS
  <2>2. PICK end : end = T!Among(s.ir.end, R)
    OBVIOUS
  <2>3. /\ S = {e_1 \in Isabelle!ToSet(s.ir.edges) : e_1.src = x}
        /\ S = {e_1 \in Lean!ToSet(s.ir.edges) : e_1.src = x}
        /\ R = {e_1 \in Isabelle!ToSet(s.ir.end) : e_1.src = x}
        /\ R = {e_1 \in Lean!ToSet(s.ir.end) : e_1.src = x}
    BY SameToSet
  <2> HIDE DEF S, R
  <2>4. /\ out = Isabelle!Among(s.ir.edges, S) /\ out = Lean!Among(s.ir.edges, S)
        /\ end = Isabelle!Among(s.ir.end, R) /\ end = Lean!Among(s.ir.end, R)
    BY <2>1, <2>2, SameAmong
  <2>5. PICK edges : /\ edges = [i \in DOMAIN out |-> Isabelle!WriteEdgeBranch(s, out[i])]
                     /\ edges = [i \in DOMAIN out |-> Lean!WriteEdgeBranch(s, out[i])]
    BY <1>1
  <2>6. PICK skips : /\ skips = [i \in DOMAIN end |-> Isabelle!SkipBranch(
                                   Isabelle!Term(Isabelle!GuardName(s.side, end[i].line), Isabelle!ArgVars(end[i].guardArgs)))]
                     /\ skips = [i \in DOMAIN end |-> Lean!SkipBranch(
                                   Lean!Term(Lean!GuardName(s.side, end[i].line), Lean!ArgVars(end[i].guardArgs)))]
    BY SameArgVars DEF Isabelle!SkipBranch, Lean!SkipBranch, Isabelle!GuardName, Lean!GuardName, Isabelle!Term, Lean!Term
  <2>7. Isabelle!WriteStateBody(s, x) = IF edges \o skips = << >> THEN << Isabelle!StopBranch >> ELSE edges \o skips
    BY <2>3, <2>4, <2>5, <2>6 DEF Isabelle!WriteStateBody
  <2>8. Lean!WriteStateBody(s, x) = IF edges \o skips = << >> THEN << Lean!StopBranch >> ELSE edges \o skips
    BY <2>3, <2>4, <2>5, <2>6 DEF Lean!WriteStateBody
  <2> QED BY <2>7, <2>8, SMTT(20) DEF Isabelle!StopBranch, Lean!StopBranch
<1>3. Isabelle!Equations(s) = Lean!Equations(s)
  BY <1>2, SameSort, SameCtor, SameFieldVars DEF Isabelle!Equations, Lean!Equations, Isabelle!Equation, Lean!Equation,
     Isabelle!Term, Lean!Term
<1> QED BY <1>1, <1>2, <1>3

(* The image of a finite set is finite.                                    *)
LEMMA FiniteImage ==
  ASSUME NEW S, IsFiniteSet(S), NEW f, DOMAIN f = S
  PROVE  IsFiniteSet({f[x] : x \in S})
<1> DEFINE R == {f[x] : x \in S}
           g == [x \in S |-> f[x]]
<1>1. g \in Surjection(S, R)
  BY DEF Surjection
<1> HIDE DEF R, g
<1>2. PICK h \in Surjection(S, R) : TRUE
  BY <1>1
<1>3. IsFiniteSet(R)
  BY <1>2, FS_Surjection
<1> QED BY <1>3 DEF R

LEMMA SetToSeqIsList ==
  ASSUME NEW S, IsFiniteSet(S)
  PROVE  IsList(T!SetToSeq(S))
<1>1. PICK n \in Nat : ExistsBijection(1 .. n, S)
  BY FS_NatBijection
<1>2. Cardinality(S) = n
  BY <1>1, FS_CountingElements
<1>3. \E f \in [1 .. n -> S] : T!IsInjective(f)
  BY <1>1 DEF ExistsBijection, Bijection, Injection, IsInjective, T!IsInjective
<1>4. T!SetToSeq(S) \in [1 .. n -> S]
  BY <1>2, <1>3, SameCardinality DEF T!SetToSeq
<1>5. T!SetToSeq(S) \in Seq(S)
  BY <1>4
<1> QED BY <1>5, ListIs

(* The constructors of the event type: those of the alphabet, and the      *)
(* silent one.                                                             *)
LEMMA SameEventCtors ==
  ASSUME NEW alphabet, NEW tau
  PROVE  /\ Isabelle!EventCtors(alphabet, tau) = Lean!EventCtors(alphabet, tau)
         /\ IsFiniteSet(alphabet) => IsFiniteSet(Lean!EventCtors(alphabet, tau))
<1> DEFINE X == {Lean!EventCtor(e) : e \in alphabet}
<1>1. X = {Isabelle!EventCtor(e) : e \in alphabet} /\ Isabelle!TauCtor = Lean!TauCtor
  BY SameEventCtor DEF Isabelle!TauCtor, Lean!TauCtor
<1>2. IsFiniteSet(alphabet) => IsFiniteSet(X)
  <2> DEFINE f == [e \in alphabet |-> Lean!EventCtor(e)]
  <2>1. DOMAIN f = alphabet /\ X = {f[e] : e \in alphabet}
    OBVIOUS
  <2> HIDE DEF f, X
  <2> QED BY <2>1, FiniteImage
<1> HIDE DEF X
<1> DEFINE all == X \cup (IF tau THEN {Lean!TauCtor} ELSE {})
<1>3. Isabelle!EventCtors(alphabet, tau) = (IF all # {} THEN all ELSE {<<"E", "v", "_", "n", "o", "n", "e">>})
  BY <1>1 DEF Isabelle!EventCtors
<1>4. Lean!EventCtors(alphabet, tau) = (IF all # {} THEN all ELSE {<<"E", "v", "_", "n", "o", "n", "e">>})
  BY <1>1 DEF Lean!EventCtors, X
<1>5. IsFiniteSet(alphabet) => IsFiniteSet(all)
  BY <1>2, FS_Union, FS_EmptySet, FS_Singleton
<1> HIDE DEF all
<1>6. IsFiniteSet({<<"E", "v", "_", "n", "o", "n", "e">>})
  BY FS_Singleton
<1>7. CASE all # {}
  BY <1>3, <1>4, <1>5, <1>7
<1>8. CASE all = {}
  BY <1>3, <1>4, <1>6, <1>8
<1> QED BY <1>7, <1>8

LEMMA MirroredEvents ==
  ASSUME NEW alphabet, NEW vars_, NEW tau, IsFiniteSet(alphabet)
  PROVE  Mirrored(Isabelle!WriteEventDatatype(alphabet, vars_, tau), Lean!WriteEventDatatype(alphabet, vars_, tau))
<1> DEFINE E == Lean!EventCtors(alphabet, tau)
           S == {T!Sym(c, 0) : c \in E}
           ctors == T!SetToSeq(S)
           event == <<"word", "event", "">>
           under == <<"word", "alphabet", "">>
           both == << T!Sym(<<"word", "Alphabet", "">>, 1), T!Sym(<<"word", "Internal", "">>, 1) >>
           u == Isabelle!ValUse(1) \cup {T!Sym(under, 0)}
           v == Lean!ValUse(1) \cup {T!Sym(under, 0)}
<1>1. S = {Isabelle!Sym(c, 0) : c \in Isabelle!EventCtors(alphabet, tau)} /\ S = {Lean!Sym(c, 0) : c \in E}
  BY SameEventCtors DEF Isabelle!Sym, Lean!Sym, T!Sym
<1>2. IsFiniteSet(S)
  <2> DEFINE f == [c \in E |-> T!Sym(c, 0)]
  <2>1. DOMAIN f = E /\ S = {f[c] : c \in E}
    OBVIOUS
  <2> HIDE DEF f, S
  <2> QED BY <2>1, FiniteImage, SameEventCtors
<1> HIDE DEF S
<1>3. IsList(ctors) /\ Isabelle!SetToSeq(S) = ctors /\ Lean!SetToSeq(S) = ctors
  BY <1>2, SetToSeqIsList, SameSetToSeq
<1> HIDE DEF ctors
<1>4. Isabelle!WriteEventDatatype(alphabet, vars_, tau) =
        IF vars_ THEN << Isabelle!Datatype(under, ctors, {}), Isabelle!Datatype(event, both, u) >>
                 ELSE << Isabelle!Datatype(event, ctors, {}) >>
  BY <1>1, <1>3 DEF Isabelle!WriteEventDatatype, Isabelle!AlphabetCtor, Isabelle!InternalCtor, Isabelle!Sym, T!Sym
<1>5. Lean!WriteEventDatatype(alphabet, vars_, tau) =
        IF vars_ THEN << Lean!Datatype(under, ctors, {}), Lean!Datatype(event, both, v) >>
                 ELSE << Lean!Datatype(event, ctors, {}) >>
  BY <1>1, <1>3 DEF Lean!WriteEventDatatype, Lean!AlphabetCtor, Lean!InternalCtor, Lean!Sym, T!Sym
<1>6. IsList(both)
  BY TwoIsList
<1>7. Uses(u) = Uses(v)
  <2>1. Uses(Isabelle!ValUse(1)) = Uses(Lean!ValUse(1))
    BY SameValUse
  <2> DEFINE a == Isabelle!ValUse(1)  b == Lean!ValUse(1)  c == {T!Sym(under, 0)}
  <2> HIDE DEF a, b, c
  <2>2. Uses(a) = Uses(b)
    BY <2>1 DEF a, b
  <2>3. Uses(a \cup c) = Uses(a) \cup Uses(c) /\ Uses(b \cup c) = Uses(b) \cup Uses(c)
    BY DEF Uses
  <2>4. Uses(a \cup c) = Uses(b \cup c)
    BY <2>2, <2>3
  <2> QED BY <2>4 DEF a, b, c
<1> HIDE DEF event, under, both, u, v
<1>8. /\ SameDeclaration(Isabelle!Datatype(under, ctors, {}), Lean!Datatype(under, ctors, {}))
      /\ SameDeclaration(Isabelle!Datatype(event, ctors, {}), Lean!Datatype(event, ctors, {}))
      /\ SameDeclaration(Isabelle!Datatype(event, both, u), Lean!Datatype(event, both, v))
  BY <1>3, <1>6, <1>7, RespelledDatatype
<1> QED BY <1>4, <1>5, <1>8, MirroredOne, MirroredTwo

(* Import and theorem of each of the three kinds of refinement.            *)
LEMMA MirroredImport ==
  ASSUME NEW mode
  PROVE  SameDeclaration(Isabelle!RefinementImport(mode), Lean!RefinementImport(mode))
<1> DEFINE a == T!Sym(<<"word", "<=T", "">>, 2)
           b == T!Sym(<<"word", "<=F", "">>, 2)
           x == T!Sym(<<"word", "refTfix", "">>, 2)
           y == T!Sym(<<"word", "refFfix", "">>, 2)
           p == IF mode = "trace" THEN << a >> ELSE << a, b >>
           q == IF mode = "trace" THEN << x >> ELSE << x, y >>
<1>1. Resolved(a) = Resolved(x) /\ Resolved(b) = Resolved(y)
  <2>1. Respelled(<<"word", "refTfix", "">>) = Respelled(<<"word", "<=T", "">>)
        /\ Respelled(<<"word", "refFfix", "">>) = Respelled(<<"word", "<=F", "">>)
    BY Spellings
  <2> QED BY <2>1, ResolvedSym
<1>2. Isabelle!RefinementImport(mode).kind = "import" /\ Isabelle!RefinementImport(mode).declares = p
      /\ Isabelle!RefinementImport(mode).uses = {}
  BY DEF Isabelle!RefinementImport, Isabelle!Declaration, Isabelle!Sym, T!Sym
<1>3. Lean!RefinementImport(mode).kind = "import" /\ Lean!RefinementImport(mode).declares = q
      /\ Lean!RefinementImport(mode).uses = {}
  BY DEF Lean!RefinementImport, Lean!Declaration, Lean!Sym, T!Sym
<1> HIDE DEF a, b, x, y
<1>4. DOMAIN p = DOMAIN q /\ \A i \in DOMAIN p : Resolved(p[i]) = Resolved(q[i])
  BY <1>1
<1> HIDE DEF p, q
<1>5. [i \in DOMAIN p |-> Resolved(p[i])] = [i \in DOMAIN q |-> Resolved(q[i])]
  BY <1>4
<1> QED BY <1>2, <1>3, <1>5 DEF SameDeclaration

LEMMA MirroredRefinementTheorem ==
  ASSUME NEW mode
  PROVE  SameDeclaration(Isabelle!WriteRefinementTheorem(mode), Lean!WriteRefinementTheorem(mode))
<1> DEFINE d == Isabelle!WriteRefinementTheorem(mode)
           e == Lean!WriteRefinementTheorem(mode)
           n == <<"word", IF mode = "trace" THEN "refines_t" ELSE "refines_f", "">>
           a == <<"word", IF mode = "trace" THEN "<=T" ELSE "<=F", "">>
           b == <<"word", IF mode = "trace" THEN "refTfix" ELSE "refFfix", "">>
           u == {T!Sym(<<"word", "SpecProc", "">>, 0), T!Sym(<<"word", "ImplProc", "">>, 0)}
<1>1. /\ d.kind = "theorem" /\ d.declares = << T!Sym(n, 0) >> /\ d.uses = {T!Sym(a, 2)} \cup u
  BY DEF Isabelle!WriteRefinementTheorem, Isabelle!Theorem, Isabelle!Declaration, Isabelle!Sym, T!Sym
<1>2. /\ e.kind = "theorem" /\ e.declares = << T!Sym(n, 0) >> /\ e.uses = {T!Sym(b, 2)} \cup u
  BY DEF Lean!WriteRefinementTheorem, Lean!Theorem, Lean!Declaration, Lean!Sym, T!Sym
<1>3. Respelled(a) = Respelled(b)
  <2>1. Respelled(<<"word", "refTfix", "">>) = Respelled(<<"word", "<=T", "">>)
        /\ Respelled(<<"word", "refFfix", "">>) = Respelled(<<"word", "<=F", "">>)
    BY Spellings
  <2> QED BY <2>1
<1> HIDE DEF d, e, n, a, b, u
<1>4. Uses({T!Sym(a, 2)} \cup u) = Uses({T!Sym(b, 2)} \cup u)
  BY <1>3, ResolvedTwo
<1>5. SameDeclaration(d, e)
  BY <1>1, <1>2, <1>4, RespelledOne
<1> QED BY <1>5 DEF d, e

(* What is written for both sides.                                         *)
LEMMA BothAreList ==
  ASSUME NEW p, NEW q, IsList(p), IsList(q), NEW s, s = [k \in {1, 2} |-> IF k = 1 THEN p ELSE q]
  PROVE  IsList(T!FlattenSeq(s))
<1>1. PICK n \in Nat : n = 2 /\ 1 .. n = {1, 2}
  OBVIOUS
<1>2. s = << p, q >>
  OBVIOUS
<1>3. ListOfLists(s, n)
  BY <1>1, <1>2 DEF ListOfLists
<1> QED BY <1>3, FlattenIsList

LEMMA SideAliasesAreList ==
  ASSUME NEW s, IsList(s.ir.edges), IsList(s.ir.end)
  PROVE  IsList(Lean!WriteSideAliases(s))
<1>1. IsList(<< Lean!WriteInit(s.side, s.ir.init) >>)
  BY OneIsList
<1>2. IsList(Lean!FlattenSeq([i \in DOMAIN s.ir.edges |-> Lean!WriteEdge(s.side, s.ir.edges[i])]))
  BY MirroredEdges
<1> DEFINE e == [i \in DOMAIN s.ir.end |->
          Lean!Alias(Lean!GuardName(s.side, s.ir.end[i].line), s.ir.end[i].guardArgs, s.ir.end[i].guard)]
<1>3. IsList(e)
  <2>1. e = [i \in 1 .. Len(s.ir.end) |-> e[i]] /\ Len(s.ir.end) \in Nat
    BY ListHas
  <2> HIDE DEF e
  <2>2. e \in Seq({e[i] : i \in 1 .. Len(s.ir.end)})
    BY <2>1
  <2> QED BY <2>2, ListIs
<1> HIDE DEF e
<1> QED BY <1>1, <1>2, <1>3, ListJoin DEF Lean!WriteSideAliases, e

LEMMA NameCtorsAreList ==
  ASSUME NEW s, IsFiniteSet(DOMAIN s.ir.states)
  PROVE  IsList(Lean!NameCtors(s))
<1> DEFINE c == Lean!NameCtors(s)
           n == Cardinality(DOMAIN s.ir.states)
<1>1. n \in Nat
  BY FS_CardinalityType
<1>2. DOMAIN T!SortIRStates(s.ir.states) = 1 .. n
  BY SameCardinality DEF T!SortIRStates, T!InOrderOf
<1>3. c = [i \in 1 .. n |-> c[i]]
  BY <1>2, SameSort DEF Lean!NameCtors
<1> HIDE DEF c, n
<1>4. c \in Seq({c[i] : i \in 1 .. n})
  BY <1>1, <1>3
<1>5. IsList(c)
  BY <1>4, ListIs
<1> QED BY <1>5 DEF c

(* A side of a representation that can be written.                         *)
SideCanBeWritten(side) ==
  IsFiniteSet(DOMAIN side.states) /\ IsList(side.edges) /\ IsList(side.end)

LEMMA SidesHave ==
  ASSUME NEW ir
  PROVE  Lean!Sides(ir)[1].ir = ir.sides[1] /\ Lean!Sides(ir)[2].ir = ir.sides[2]
  BY DEF Lean!Sides

(* The type of the process names of both sides, or the same error.         *)
LEMMA AlikeProcessNames ==
  ASSUME NEW ir, SideCanBeWritten(ir.sides[1]), SideCanBeWritten(ir.sides[2])
  PROVE  Alike(Isabelle!WriteProcessNameDatatype(ir), Lean!WriteProcessNameDatatype(ir))
<1> DEFINE f == [k \in {1, 2} |-> Lean!NameCtors(Lean!Sides(ir)[k])]
           ctors == T!FlattenSeq(f)
           ar == [i \in DOMAIN ctors |-> ctors[i].arity]
           u == UNION {Isabelle!ValUse(ar[i]) : i \in DOMAIN ctors}
           v == UNION {Lean!ValUse(ar[i]) : i \in DOMAIN ctors}
<1>1. f = [k \in {1, 2} |-> Isabelle!NameCtors(Isabelle!Sides(ir)[k])]
  BY SameSides, SameSideDeclarations
<1>2. IsList(ctors)
  <2>1. f = [k \in {1, 2} |-> IF k = 1 THEN Lean!NameCtors(Lean!Sides(ir)[1]) ELSE Lean!NameCtors(Lean!Sides(ir)[2])]
    OBVIOUS
  <2>2. IsList(Lean!NameCtors(Lean!Sides(ir)[1])) /\ IsList(Lean!NameCtors(Lean!Sides(ir)[2]))
    BY SidesHave, NameCtorsAreList DEF SideCanBeWritten
  <2> HIDE DEF f
  <2> QED BY <2>1, <2>2, BothAreList
<1>3. Isabelle!FlattenSeq([k \in {1, 2} |-> Isabelle!NameCtors(Isabelle!Sides(ir)[k])]) = ctors
      /\ Lean!FlattenSeq(f) = ctors
  <2> HIDE DEF f
  <2> QED BY <1>1, SameFlatten
<1>4. Isabelle!WriteProcessNameDatatype(ir) =
        IF ctors = << >> THEN Isabelle!Written(<< >>, "panic")
        ELSE Isabelle!Ok(<< Isabelle!Datatype(<<"word", "PN", "">>, ctors, u) >>)
  <2> HIDE DEF ctors, f
  <2>1. u = UNION {Isabelle!ValUse(ctors[i].arity) : i \in DOMAIN ctors}
    OBVIOUS
  <2> QED BY <1>3, <2>1 DEF Isabelle!WriteProcessNameDatatype, Isabelle!ForBoth
<1>5. Lean!WriteProcessNameDatatype(ir) =
        IF ctors = << >> THEN Lean!Written(<< >>, "error")
        ELSE Lean!Ok(<< Lean!Datatype(<<"word", "PN", "">>, ctors, v) >>)
  <2>0. Lean!FlattenSeq([k \in {1, 2} |-> Lean!NameCtors(Lean!Sides(ir)[k])]) = ctors
    BY <1>3
  <2> HIDE DEF ctors, f
  <2>1. v = UNION {Lean!ValUse(ctors[i].arity) : i \in DOMAIN ctors}
    OBVIOUS
  <2> QED BY <2>0, <2>1 DEF Lean!WriteProcessNameDatatype, Lean!ForBoth
<1> HIDE DEF ctors
<1>6. Uses(u) = Uses(v)
  <2>1. IsabelleVals(u, DOMAIN ctors, ar)
    BY DEF IsabelleVals
  <2>2. LeanVals(v, DOMAIN ctors, ar)
    BY DEF LeanVals
  <2> HIDE DEF u, v, ar
  <2> QED BY <2>1, <2>2, SameValUses
<1> HIDE DEF u, v
<1>7. SameDeclaration(Isabelle!Datatype(<<"word", "PN", "">>, ctors, u), Lean!Datatype(<<"word", "PN", "">>, ctors, v))
  BY <1>2, <1>6, RespelledDatatype
<1>8. CASE ctors = << >>
  BY <1>4, <1>5, <1>8, EmptyIsList, MirroredSelf DEF Alike, Isabelle!Written, Lean!Written
<1>9. CASE ctors # << >>
  BY <1>4, <1>5, <1>7, <1>9, AlikeOk, MirroredOne
<1> QED BY <1>8, <1>9

LEMMA SameProcFun ==
  ASSUME NEW ir
  PROVE  Isabelle!WriteProcFun(ir) = Lean!WriteProcFun(ir)
<1> DEFINE eqs == T!FlattenSeq([k \in {1, 2} |-> Lean!Equations(Lean!Sides(ir)[k])])
<1>1. /\ Isabelle!FlattenSeq([k \in {1, 2} |-> Isabelle!Equations(Isabelle!Sides(ir)[k])]) = eqs
      /\ Lean!FlattenSeq([k \in {1, 2} |-> Lean!Equations(Lean!Sides(ir)[k])]) = eqs
  <2>1. [k \in {1, 2} |-> Isabelle!Equations(Isabelle!Sides(ir)[k])]
          = [k \in {1, 2} |-> Lean!Equations(Lean!Sides(ir)[k])]
    BY SameSides, SameBranches
  <2> QED BY <2>1, SameFlatten
<1> HIDE DEF eqs
<1>2. ASSUME NEW x PROVE Isabelle!ToSet(x) = T!ToSet(x) /\ Lean!ToSet(x) = T!ToSet(x)
  BY SameToSet
<1>3. ASSUME NEW b PROVE Isabelle!BranchUses(b) = Lean!BranchUses(b)
  BY DEF Isabelle!BranchUses, Lean!BranchUses, Isabelle!SymOf, Lean!SymOf, Isabelle!BranchTerms, Lean!BranchTerms,
     Isabelle!InternalCtor, Lean!InternalCtor, Isabelle!Sym, Lean!Sym
<1>4. ASSUME NEW b, NEW bound PROVE Isabelle!FreeInBranch(b, bound) = Lean!FreeInBranch(b, bound)
  BY DEF Isabelle!FreeInBranch, Lean!FreeInBranch, Isabelle!ToSet, Lean!ToSet
<1> DEFINE lhs == {[name |-> eq.lhs.name, arity |-> Len(eq.lhs.vars)] : eq \in T!ToSet(eqs)}
           uses == UNION {UNION {Lean!BranchUses(b) : b \in T!ToSet(eq.branches)} : eq \in T!ToSet(eqs)}
           free == UNION {UNION {Lean!FreeInBranch(b, T!ToSet(eq.lhs.vars)) : b \in T!ToSet(eq.branches)} :
                 eq \in T!ToSet(eqs)}
<1>5. Isabelle!WriteProcFun(ir) = Isabelle!Declaration("processes", << Isabelle!Sym(<<"word", "procfun", "">>, 1) >>,
         lhs \cup uses, free, eqs)
  <2>1. lhs = {Isabelle!SymOf(eq.lhs) : eq \in Isabelle!ToSet(eqs)}
    BY <1>2 DEF Isabelle!SymOf, Isabelle!Sym
  <2>2. uses = UNION {UNION {Isabelle!BranchUses(b) : b \in Isabelle!ToSet(eq.branches)} : eq \in Isabelle!ToSet(eqs)}
    BY <1>2, <1>3
  <2>3. free = UNION {UNION {Isabelle!FreeInBranch(b, Isabelle!ToSet(eq.lhs.vars)) : b \in Isabelle!ToSet(eq.branches)} :
                 eq \in Isabelle!ToSet(eqs)}
    BY <1>2, <1>4
  <2> HIDE DEF lhs, uses, free
  <2> QED BY <1>1, <2>1, <2>2, <2>3 DEF Isabelle!WriteProcFun, Isabelle!ForBoth
<1>6. Lean!WriteProcFun(ir) = Lean!Declaration("processes", << Lean!Sym(<<"word", "procfun", "">>, 1) >>,
         lhs \cup uses, free, eqs)
  <2>1. lhs = {Lean!SymOf(eq.lhs) : eq \in Lean!ToSet(eqs)}
    BY <1>2 DEF Lean!SymOf, Lean!Sym
  <2>2. uses = UNION {UNION {Lean!BranchUses(b) : b \in Lean!ToSet(eq.branches)} : eq \in Lean!ToSet(eqs)}
    BY <1>2
  <2>3. free = UNION {UNION {Lean!FreeInBranch(b, Lean!ToSet(eq.lhs.vars)) : b \in Lean!ToSet(eq.branches)} :
                 eq \in Lean!ToSet(eqs)}
    BY <1>2
  <2> HIDE DEF lhs, uses, free
  <2> QED BY <1>1, <2>1, <2>2, <2>3 DEF Lean!WriteProcFun, Lean!ForBoth
<1> QED BY <1>5, <1>6 DEF Isabelle!Declaration, Lean!Declaration, Isabelle!Sym, Lean!Sym

(* The transition system of a side is written again, or left out, by both. *)
LEMMA AlikeLivelockLayer ==
  ASSUME NEW s, SideCanBeWritten(s.ir)
  PROVE  Alike(Isabelle!WriteLivelockLayer(s), Lean!WriteLivelockLayer(s))
<1>1. CASE s.ir.free # << FALSE >>
  BY <1>1, EmptyIsList, MirroredSelf, AlikeOk
  DEF Isabelle!WriteLivelockLayer, Lean!WriteLivelockLayer, Isabelle!NeedsLivelockObligation, Lean!NeedsLivelockObligation
<1>2. CASE s.ir.free = << FALSE >>
  <2> DEFINE n == Isabelle!Qualify(s.side, "livelock_free")
  <2>1. n = Lean!Qualify(s.side, "livelock_free")
    BY SpellingOf
  <2> HIDE DEF n
  <2>2. Alike(Isabelle!WriteStateTypeDeclaration(s.in, s.ir.states), Lean!WriteStateTypeDeclaration(s.in, s.ir.states))
    BY AlikeStateType DEF SideCanBeWritten
  <2>3. Alike(Isabelle!WriteRelations(s.in, s.ir.init, s.ir.states, s.ir.edges),
              Lean!WriteRelations(s.in, s.ir.init, s.ir.states, s.ir.edges))
    BY AlikeRelations
  <2>4. Alike(Isabelle!Ok(<< Isabelle!WriteLivelockTheorem(s.in, n) >>), Lean!Ok(<< Lean!WriteLivelockTheorem(s.in, n) >>))
    BY MirroredLivelockTheorem, MirroredOne, AlikeOk
  <2>5. Isabelle!WriteLivelockLayer(s) = Isabelle!WriteAll(<<
          Isabelle!WriteStateTypeDeclaration(s.in, s.ir.states),
          Isabelle!WriteRelations(s.in, s.ir.init, s.ir.states, s.ir.edges),
          Isabelle!Ok(<< Isabelle!WriteLivelockTheorem(s.in, n) >>) >>)
    BY <1>2 DEF n, Isabelle!WriteLivelockLayer, Isabelle!NeedsLivelockObligation
  <2>6. Lean!WriteLivelockLayer(s) = Lean!WriteAll(<<
          Lean!WriteStateTypeDeclaration(s.in, s.ir.states),
          Lean!WriteRelations(s.in, s.ir.init, s.ir.states, s.ir.edges),
          Lean!Ok(<< Lean!WriteLivelockTheorem(s.in, n) >>) >>)
    BY <1>2, <2>1 DEF Lean!WriteLivelockLayer, Lean!NeedsLivelockObligation
  <2> QED BY <2>2, <2>3, <2>4, <2>5, <2>6, AlikeThree
<1> QED BY <1>1, <1>2

(* Declarations written for both sides.                                    *)
LEMMA MirroredForBoth ==
  ASSUME NEW ir, SideCanBeWritten(ir.sides[1]), SideCanBeWritten(ir.sides[2])
  PROVE  /\ Mirrored(Isabelle!ForBoth(ir, Isabelle!WriteSideAliases), Lean!ForBoth(ir, Lean!WriteSideAliases))
         /\ Mirrored(Isabelle!ForBoth(ir, Isabelle!WriteProcDefinition), Lean!ForBoth(ir, Lean!WriteProcDefinition))
<1> DEFINE f == [k \in {1, 2} |-> Lean!WriteSideAliases(Lean!Sides(ir)[k])]
           g == [k \in {1, 2} |-> Lean!WriteProcDefinition(Lean!Sides(ir)[k])]
<1>1. /\ f = [k \in {1, 2} |-> Isabelle!WriteSideAliases(Isabelle!Sides(ir)[k])]
      /\ g = [k \in {1, 2} |-> Isabelle!WriteProcDefinition(Isabelle!Sides(ir)[k])]
  BY SameSides, SameSideDeclarations
<1>2. IsList(T!FlattenSeq(f))
  <2>1. f = [k \in {1, 2} |-> IF k = 1 THEN Lean!WriteSideAliases(Lean!Sides(ir)[1])
                               ELSE Lean!WriteSideAliases(Lean!Sides(ir)[2])]
    OBVIOUS
  <2>2. IsList(Lean!WriteSideAliases(Lean!Sides(ir)[1])) /\ IsList(Lean!WriteSideAliases(Lean!Sides(ir)[2]))
    BY SidesHave, SideAliasesAreList DEF SideCanBeWritten
  <2> HIDE DEF f
  <2> QED BY <2>1, <2>2, BothAreList
<1>3. IsList(T!FlattenSeq(g))
  <2>1. g = [k \in {1, 2} |-> IF k = 1 THEN Lean!WriteProcDefinition(Lean!Sides(ir)[1])
                               ELSE Lean!WriteProcDefinition(Lean!Sides(ir)[2])]
    OBVIOUS
  <2>2. IsList(Lean!WriteProcDefinition(Lean!Sides(ir)[1])) /\ IsList(Lean!WriteProcDefinition(Lean!Sides(ir)[2]))
    BY OneIsList DEF Lean!WriteProcDefinition
  <2> HIDE DEF g
  <2> QED BY <2>1, <2>2, BothAreList
<1>4. /\ Isabelle!ForBoth(ir, Isabelle!WriteSideAliases) = Isabelle!FlattenSeq(f)
      /\ Isabelle!ForBoth(ir, Isabelle!WriteProcDefinition) = Isabelle!FlattenSeq(g)
  <2> HIDE DEF f, g
  <2> QED BY <1>1 DEF Isabelle!ForBoth
<1>5. /\ Lean!ForBoth(ir, Lean!WriteSideAliases) = Lean!FlattenSeq(f)
      /\ Lean!ForBoth(ir, Lean!WriteProcDefinition) = Lean!FlattenSeq(g)
  BY DEF Lean!ForBoth
<1> HIDE DEF f, g
<1> QED BY <1>2, <1>3, <1>4, <1>5, SameFlatten, MirroredSelf

LEMMA MirroredInitialisable ==
  ASSUME NEW s
  PROVE  Mirrored(Isabelle!WriteInitialisableTheorem(s), Lean!WriteInitialisableTheorem(s))
<1>1. IsList(Lean!WriteInitialisableTheorem(s))
  BY OneIsList, EmptyIsList DEF Lean!WriteInitialisableTheorem
<1> QED BY <1>1, SameSideDeclarations, MirroredSelf

(* The parts of WriteRefinement.                                           *)
Parts(p) ==
  << p[1], p[2], p[3], p[4], p[5], p[6], p[7], p[8], p[9], p[10], p[11], p[12], p[13] >>

LEMMA AlikeThirteen ==
  ASSUME NEW a, NEW b, \A i \in 1 .. 13 : Alike(a[i], b[i])
  PROVE  Alike(Isabelle!WriteAll(Parts(a)), Lean!WriteAll(Parts(b)))
<1> DEFINE p == Parts(a)  q == Parts(b)
<1>1. PICK n \in Nat : n = 13 /\ n > 0
  OBVIOUS
<1>2. Len(p) = n /\ Len(q) = n /\ DOMAIN p = 1 .. n /\ DOMAIN q = 1 .. n
  BY <1>1 DEF Parts
<1>3. ASSUME NEW i \in 1 .. n PROVE p[i] = a[i] /\ q[i] = b[i]
  <2>1. i \in {1, 2, 3, 4, 5, 6, 7, 8, 9, 10, 11, 12, 13}
    BY <1>1
  <2> QED BY <2>1 DEF Parts
<1>4. p = [i \in 1 .. n |-> p[i]] /\ q = [i \in 1 .. n |-> q[i]]
  BY <1>1 DEF Parts
<1> HIDE DEF p, q
<1>6. IsList(p) /\ IsList(q)
  BY <1>4, FunctionIsList
<1>7. \A i \in 1 .. n : Alike(p[i], q[i])
  BY <1>1, <1>3
<1>8. Alike(T!WriteAll(p), T!WriteAll(q))
  BY <1>1, <1>2, <1>6, <1>7, AlikeAll
<1> QED BY <1>8, SameWriteAll DEF p, q

(* The document of csdfrefinement, for every representation of finite      *)
(* states.                                                                 *)
LEMMA AlikeRefinement ==
  ASSUME NEW ir, SideCanBeWritten(ir.sides[1]), SideCanBeWritten(ir.sides[2]),
         IsFiniteSet(ir.alphabet), IsFiniteSet(DOMAIN ir.predicates)
  PROVE  Alike(Isabelle!WriteRefinement(ir), Lean!WriteRefinement(ir))
<1> DEFINE S(k) == Isabelle!Sides(ir)[k]
           a == [i \in 1 .. 13 |->
             CASE i = 1  -> Isabelle!Ok(<< Isabelle!RefinementImport(ir.mode) >>)
               [] i = 2  -> Isabelle!Ok(IF S(1).vars THEN Isabelle!ValPrelude ELSE << >>)
               [] i = 3  -> Isabelle!Ok(Isabelle!WriteEventDatatype(ir.alphabet, S(1).vars, S(1).tau))
               [] i = 4  -> Isabelle!Ok(Isabelle!WritePredicates(ir.predicates))
               [] i = 5  -> Isabelle!Ok(Isabelle!ForBoth(ir, Isabelle!WriteSideAliases))
               [] i = 6  -> Isabelle!WriteProcessNameDatatype(ir)
               [] i = 7  -> Isabelle!Ok(<< Isabelle!WriteProcFun(ir) >>)
               [] i = 8  -> Isabelle!Ok(Isabelle!ForBoth(ir, Isabelle!WriteProcDefinition))
               [] i = 9  -> Isabelle!WriteLivelockLayer(S(1))
               [] i = 10 -> Isabelle!Ok(Isabelle!WriteInitialisableTheorem(S(1)))
               [] i = 11 -> Isabelle!WriteLivelockLayer(S(2))
               [] i = 12 -> Isabelle!Ok(Isabelle!WriteInitialisableTheorem(S(2)))
               [] i = 13 -> Isabelle!Ok(<< Isabelle!WriteRefinementTheorem(ir.mode) >>)]
           b == [i \in 1 .. 13 |->
             CASE i = 1  -> Lean!Ok(<< Lean!RefinementImport(ir.mode) >>)
               [] i = 2  -> Lean!Ok(IF S(1).vars THEN Lean!ValPrelude ELSE << >>)
               [] i = 3  -> Lean!Ok(Lean!WriteEventDatatype(ir.alphabet, S(1).vars, S(1).tau))
               [] i = 4  -> Lean!Ok(Lean!WritePredicates(ir.predicates))
               [] i = 5  -> Lean!Ok(Lean!ForBoth(ir, Lean!WriteSideAliases))
               [] i = 6  -> Lean!WriteProcessNameDatatype(ir)
               [] i = 7  -> Lean!Ok(<< Lean!WriteProcFun(ir) >>)
               [] i = 8  -> Lean!Ok(Lean!ForBoth(ir, Lean!WriteProcDefinition))
               [] i = 9  -> Lean!WriteLivelockLayer(S(1))
               [] i = 10 -> Lean!Ok(Lean!WriteInitialisableTheorem(S(1)))
               [] i = 11 -> Lean!WriteLivelockLayer(S(2))
               [] i = 12 -> Lean!Ok(Lean!WriteInitialisableTheorem(S(2)))
               [] i = 13 -> Lean!Ok(<< Lean!WriteRefinementTheorem(ir.mode) >>)]
<1>1. Lean!Sides(ir)[1] = S(1) /\ Lean!Sides(ir)[2] = S(2) /\ S(1).ir = ir.sides[1] /\ S(2).ir = ir.sides[2]
  BY SameSides, SidesHave
<1> HIDE DEF S
<1>2. Isabelle!WriteRefinement(ir) = Isabelle!WriteAll(Parts(a))
  BY DEF Isabelle!WriteRefinement, Parts, S
<1>3. Lean!WriteRefinement(ir) = Lean!WriteAll(Parts(b))
  BY <1>1 DEF Lean!WriteRefinement, Parts
<1>4. Alike(a[1], b[1])
  <2>1. Alike(Isabelle!Ok(<< Isabelle!RefinementImport(ir.mode) >>), Lean!Ok(<< Lean!RefinementImport(ir.mode) >>))
    BY MirroredImport, MirroredOne, AlikeOk
  <2> QED BY <2>1
<1>5. Alike(a[2], b[2])
  <2>1. Mirrored(IF S(1).vars THEN Isabelle!ValPrelude ELSE << >>, IF S(1).vars THEN Lean!ValPrelude ELSE << >>)
    BY SameValPrelude, EmptyIsList, MirroredSelf
  <2>2. Alike(Isabelle!Ok(IF S(1).vars THEN Isabelle!ValPrelude ELSE << >>),
              Lean!Ok(IF S(1).vars THEN Lean!ValPrelude ELSE << >>))
    BY <2>1, AlikeOk
  <2> QED BY <2>2
<1>6. Alike(a[3], b[3])
  <2>1. Alike(Isabelle!Ok(Isabelle!WriteEventDatatype(ir.alphabet, S(1).vars, S(1).tau)),
              Lean!Ok(Lean!WriteEventDatatype(ir.alphabet, S(1).vars, S(1).tau)))
    BY MirroredEvents, AlikeOk
  <2> QED BY <2>1
<1>7. Alike(a[4], b[4])
  <2>1. Alike(Isabelle!Ok(Isabelle!WritePredicates(ir.predicates)), Lean!Ok(Lean!WritePredicates(ir.predicates)))
    BY MirroredPredicates, AlikeOk
  <2> QED BY <2>1
<1>8. Alike(a[5], b[5]) /\ Alike(a[8], b[8])
  <2>1. /\ Alike(Isabelle!Ok(Isabelle!ForBoth(ir, Isabelle!WriteSideAliases)), Lean!Ok(Lean!ForBoth(ir, Lean!WriteSideAliases)))
        /\ Alike(Isabelle!Ok(Isabelle!ForBoth(ir, Isabelle!WriteProcDefinition)), Lean!Ok(Lean!ForBoth(ir, Lean!WriteProcDefinition)))
    BY MirroredForBoth, AlikeOk
  <2> QED BY <2>1
<1>9. Alike(a[6], b[6])
  <2>1. Alike(Isabelle!WriteProcessNameDatatype(ir), Lean!WriteProcessNameDatatype(ir))
    BY AlikeProcessNames
  <2> QED BY <2>1
<1>10. Alike(a[7], b[7])
  <2>1. IsList(<< Lean!WriteProcFun(ir) >>)
    BY OneIsList
  <2>2. Alike(Isabelle!Ok(<< Isabelle!WriteProcFun(ir) >>), Lean!Ok(<< Lean!WriteProcFun(ir) >>))
    BY <2>1, SameProcFun, MirroredSelf, AlikeOk
  <2> QED BY <2>2
<1>11. Alike(a[9], b[9]) /\ Alike(a[11], b[11])
  <2>1. Alike(Isabelle!WriteLivelockLayer(S(1)), Lean!WriteLivelockLayer(S(1)))
        /\ Alike(Isabelle!WriteLivelockLayer(S(2)), Lean!WriteLivelockLayer(S(2)))
    BY <1>1, AlikeLivelockLayer
  <2> QED BY <2>1
<1>12. Alike(a[10], b[10]) /\ Alike(a[12], b[12])
  <2>1. Alike(Isabelle!Ok(Isabelle!WriteInitialisableTheorem(S(1))), Lean!Ok(Lean!WriteInitialisableTheorem(S(1))))
        /\ Alike(Isabelle!Ok(Isabelle!WriteInitialisableTheorem(S(2))), Lean!Ok(Lean!WriteInitialisableTheorem(S(2))))
    BY MirroredInitialisable, AlikeOk
  <2> QED BY <2>1
<1>13. Alike(a[13], b[13])
  <2>1. Alike(Isabelle!Ok(<< Isabelle!WriteRefinementTheorem(ir.mode) >>), Lean!Ok(<< Lean!WriteRefinementTheorem(ir.mode) >>))
    BY MirroredRefinementTheorem, MirroredOne, AlikeOk
  <2> QED BY <2>1
<1> HIDE DEF a, b
<1>14. ASSUME NEW i \in 1 .. 13 PROVE Alike(a[i], b[i])
  <2>1. i \in {1, 2, 3, 4, 5, 6, 7, 8, 9, 10, 11, 12, 13}
    OBVIOUS
  <2> QED BY <2>1, <1>4, <1>5, <1>6, <1>7, <1>8, <1>9, <1>10, <1>11, <1>12, <1>13
<1> QED BY <1>2, <1>3, <1>14, AlikeThirteen

(* A job, and finitely many predicates of it so far.                       *)
IRInv == job \in Jobs /\ IsFiniteSet(DOMAIN m)

LEMMA InitIRInv == Init => IRInv
<1> SUFFICES ASSUME Init PROVE IRInv
  OBVIOUS
<1>1. job \in Jobs /\ DOMAIN m = {}
  BY DEF Init, BuildInitial, Empty
<1> QED BY <1>1, FS_EmptySet DEF IRInv

LEMMA NextIRInv == IRInv /\ [Next]_vars => IRInv'
<1> SUFFICES ASSUME IRInv, [Next]_vars PROVE IRInv'
  OBVIOUS
<1>1. CASE UNCHANGED <<job, m>>
  BY <1>1 DEF IRInv
<1>2. CASE Add /\ AddNew
  <2>1. job' = job
    BY <1>2 DEF Add
  <2>2. PICK new : DOMAIN m' = DOMAIN m \cup {new}
    BY <1>2 DEF AddNew
  <2>3. IsFiniteSet(DOMAIN m \cup {new})
    BY FS_AddElement DEF IRInv
  <2> QED BY <2>1, <2>2, <2>3 DEF IRInv
<1>3. UNCHANGED <<job, m>> \/ (Add /\ AddNew)
  BY DEF Next, Build, Add, AddKnown, Compile, vars, buildVars
<1> QED BY <1>1, <1>2, <1>3

LEMMA MapIsList ==
  ASSUME NEW s, IsList(s), NEW t, DOMAIN t = DOMAIN s, t = [i \in DOMAIN t |-> t[i]]
  PROVE  IsList(t)
<1>1. Len(s) \in Nat /\ DOMAIN s = 1 .. Len(s)
  BY ListHas
<1> QED BY <1>1, FunctionIsList

LEMMA IndicesAreFinite == ASSUME NEW s, IsList(s) PROVE IsFiniteSet(DOMAIN s)
<1>1. Len(s) \in Nat /\ DOMAIN s = 1 .. Len(s)
  BY ListHas
<1> QED BY <1>1, FS_Interval

(* The representation is built of as many edges as the diagram has.        *)
LEMMA SideCanBe ==
  ASSUME NEW k, IsDiagram(job.diagrams[k])
  PROVE  SideCanBeWritten(IRSide(k))
<1> DEFINE d == job.diagrams[k]
           edges == [i \in DOMAIN d.edges |-> IREdge(k, i)]
           end == [i \in DOMAIN d.end |->
                     [src |-> d.end[i].src, line |-> d.end[i].line,
                      guard |-> name[Offset(k) + 2 * Len(d.edges) + 2],
                      guardArgs |-> EndPredicate(d, d.end[i]).args]]
<1>1. IRSide(k).states = d.states /\ IRSide(k).edges = edges /\ IRSide(k).end = end
  BY DEF IRSide
<1>2. DOMAIN edges = DOMAIN d.edges /\ edges = [i \in DOMAIN edges |-> edges[i]]
  OBVIOUS
<1>3. DOMAIN end = DOMAIN d.end /\ end = [i \in DOMAIN end |-> end[i]]
  OBVIOUS
<1>4. IsFiniteSet(DOMAIN d.states) /\ IsList(d.edges) /\ IsList(d.end)
  BY DEF IsDiagram
<1> HIDE DEF edges, end
<1>5. IsList(edges) /\ IsList(end)
  BY <1>2, <1>3, <1>4, MapIsList
<1> QED BY <1>1, <1>4, <1>5 DEF SideCanBeWritten

LEMMA AlphabetIsFinite ==
  ASSUME IsList(job.diagrams), \A k \in DOMAIN job.diagrams : IsDiagram(job.diagrams[k])
  PROVE  IsFiniteSet(Alphabet)
<1> DEFINE E(k) == {e.event : e \in Edges(job.diagrams[k])}
           S == {E(k) : k \in DOMAIN job.diagrams}
<1>1. ASSUME NEW k \in DOMAIN job.diagrams PROVE IsFiniteSet(E(k))
  <2> DEFINE edges == job.diagrams[k].edges
             f == [i \in DOMAIN edges |-> edges[i].event]
  <2>1. IsList(edges)
    BY DEF IsDiagram
  <2>3. IsFiniteSet(DOMAIN edges)
    BY <2>1, IndicesAreFinite
  <2>4. DOMAIN f = DOMAIN edges /\ E(k) = {f[i] : i \in DOMAIN edges}
    BY DEF Edges
  <2> HIDE DEF f, E, edges
  <2>5. IsFiniteSet({f[i] : i \in DOMAIN edges})
    BY <2>3, <2>4, FiniteImage
  <2> QED BY <2>4, <2>5
<1>2. IsFiniteSet(S)
  <2> DEFINE f == [k \in DOMAIN job.diagrams |-> E(k)]
  <2>2. IsFiniteSet(DOMAIN job.diagrams)
    BY IndicesAreFinite
  <2>3. DOMAIN f = DOMAIN job.diagrams /\ S = {f[k] : k \in DOMAIN job.diagrams}
    OBVIOUS
  <2> HIDE DEF f, S
  <2> QED BY <2>2, <2>3, FiniteImage
<1>3. IsFiniteSet(UNION S)
  <2>1. \A e \in S : IsFiniteSet(e)
    BY <1>1
  <2> HIDE DEF S
  <2> QED BY <1>2, <2>1, FS_UNION
<1>4. Alphabet \subseteq UNION S
  BY DEF Alphabet
<1> HIDE DEF S
<1> QED BY <1>3, <1>4, FS_Subset

LEMMA AlikeOutput == ASSUME IRInv PROVE Alike(Output("isabelle"), Output("lean"))
<1>1. /\ IsList(job.diagrams) /\ \A k \in DOMAIN job.diagrams : IsDiagram(job.diagrams[k])
      /\ \/ job.mode = "livelock" /\ Len(job.diagrams) = 1
         \/ job.mode # "livelock" /\ Len(job.diagrams) = 2
  BY JobsAssumption DEF IRInv
<1>2. DOMAIN job.diagrams = 1 .. Len(job.diagrams)
  BY <1>1, ListHas
<1>3. IsFiniteSet(DOMAIN m)
  BY DEF IRInv
<1>4. CASE job.mode = "livelock"
  <2>1. SideCanBeWritten(IRSide(1))
    BY <1>1, <1>2, <1>4, SideCanBe
  <2>2. /\ IRLivelockFree.states = IRSide(1).states /\ IRLivelockFree.edges = IRSide(1).edges
        /\ IRLivelockFree.predicates = m
    BY DEF IRLivelockFree
  <2>3. Alike(Isabelle!WriteLivelockFree(IRLivelockFree), Lean!WriteLivelockFree(IRLivelockFree))
    BY <1>3, <2>1, <2>2, AlikeLivelockFree DEF SideCanBeWritten
  <2> QED BY <1>4, <2>3 DEF Output
<1>5. CASE job.mode # "livelock"
  <2>1. SideCanBeWritten(IRSide(1)) /\ SideCanBeWritten(IRSide(2))
    BY <1>1, <1>2, <1>5, SideCanBe
  <2>2. /\ IRRefinement.sides[1] = IRSide(1) /\ IRRefinement.sides[2] = IRSide(2)
        /\ IRRefinement.predicates = m /\ IRRefinement.alphabet = Alphabet
    BY DEF IRRefinement
  <2>3. Alike(Isabelle!WriteRefinement(IRRefinement), Lean!WriteRefinement(IRRefinement))
    BY <1>1, <1>3, <2>1, <2>2, AlphabetIsFinite, AlikeRefinement
  <2> QED BY <1>5, <2>3 DEF Output
<1> QED BY <1>4, <1>5

(* Whatever the diagrams and the kind of obligation, the two backends      *)
(* write the same declarations with the same uses in the same order, up to *)
(* spelling, and fail together.                                            *)
THEOREM BackendsAgree == Spec => []BackendsMirror
<1>1. IRInv => BackendsMirror
  BY AlikeOutput, MirroredSkeleton DEF BackendsMirror, Alike
<1> QED BY <1>1, InitIRInv, NextIRInv, PTL DEF Spec

(***************************************************************************)
(* Names can be read back. A list of codes of which no two begin each      *)
(* other comes apart in one way only.                                      *)
(***************************************************************************)
(* One list is the beginning of another. *)
Begins(p, q) ==
  /\ IsList(p) /\ IsList(q) /\ Len(p) <= Len(q)
  /\ \A j \in 1 .. Len(p) : q[j] = p[j]

(* A list is the beginning of what it is joined to.                        *)
LEMMA BeginsJoin == ASSUME NEW p, NEW q, IsList(p), IsList(q) PROVE Begins(p, p \o q)
  BY ListJoin, ListHas DEF Begins

(* The beginning of a beginning is a beginning.                            *)
LEMMA BeginsTransitive ==
  ASSUME NEW p, NEW q, NEW r, Begins(p, q), Begins(q, r) PROVE Begins(p, r)
<1>1. Len(p) \in Nat /\ Len(q) \in Nat /\ Len(r) \in Nat
  BY ListHas DEF Begins
<1> QED BY <1>1 DEF Begins

LEMMA BeginsSelf == ASSUME NEW p, IsList(p) PROVE Begins(p, p)
  BY ListHas DEF Begins

(* Lists of the same length with the same elements are one list.           *)
LEMMA SameElements ==
  ASSUME NEW p, NEW q, IsList(p), IsList(q), Len(p) = Len(q), \A j \in 1 .. Len(p) : p[j] = q[j]
  PROVE  p = q
<1>1. p = [j \in 1 .. Len(p) |-> p[j]] /\ q = [j \in 1 .. Len(p) |-> q[j]]
  BY ListHas
<1> QED BY <1>1

(* The parts that have been joined are the beginning of the whole. *)
LEMMA JoinsBegin ==
  ASSUME NEW n \in Nat, n > 0, NEW s, NEW f, Joins(f, s, n), \A i \in 1 .. n : IsList(s[i])
  PROVE  \A l \in 1 .. n : \A k \in 1 .. l : Begins(f[k], f[l])
<1> DEFINE TT == {l \in Nat : l \in 1 .. n => \A k \in 1 .. l : Begins(f[k], f[l])}
<1>1. 0 \in TT
  OBVIOUS
<1>2. ASSUME NEW l \in Nat, l \in TT PROVE l + 1 \in TT
  <2> SUFFICES ASSUME l + 1 \in 1 .. n, NEW k \in 1 .. l + 1 PROVE Begins(f[k], f[l + 1])
    OBVIOUS
  <2>1. CASE l = 0
    <3>1. k = 1 /\ l + 1 = 1 /\ f[1] = s[1] /\ IsList(s[1])
      BY <2>1 DEF Joins
    <3> QED BY <3>1, BeginsSelf
  <2>2. CASE l # 0
    <3>1. l \in 1 .. n /\ l + 1 \in 2 .. n /\ (l + 1) - 1 = l /\ l \in 1 .. l
      BY <2>2
    <3>2. \A j \in 1 .. l : Begins(f[j], f[l])
      BY <1>2, <3>1
    <3>3. f[l + 1] = f[l] \o s[l + 1]
      BY <3>1 DEF Joins
    <3>4. IsList(f[l]) /\ IsList(s[l + 1])
      BY <3>1, <3>2 DEF Begins
    <3>5. Begins(f[l], f[l + 1])
      BY <3>3, <3>4, BeginsJoin
    <3>6. CASE k \in 1 .. l
      BY <3>2, <3>5, <3>6, BeginsTransitive
    <3>7. CASE k = l + 1
      <4>1. IsList(f[l + 1])
        BY <3>5 DEF Begins
      <4> QED BY <3>7, <4>1, BeginsSelf
    <3> QED BY <3>6, <3>7
  <2> QED BY <2>1, <2>2
<1> HIDE DEF TT
<1>3. ASSUME NEW l \in 1 .. n PROVE l \in TT
  BY <1>1, <1>2, Induction
<1> QED BY <1>3 DEF TT

(* Two continuations of a list that begin one list begin each other. *)
LEMMA OneBeginsOther ==
  ASSUME NEW p, NEW a, NEW b, NEW q, IsList(p), IsList(a), IsList(b), Begins(p \o a, q), Begins(p \o b, q),
         Len(a) <= Len(b)
  PROVE  Begins(a, b)
<1>1. ASSUME NEW j \in 1 .. Len(a) PROVE b[j] = a[j]
  <2>1. Len(p) \in Nat /\ Len(a) \in Nat /\ Len(b) \in Nat
    BY ListHas
  <2>2. Len(p) + j \in 1 .. Len(p) + Len(a) /\ Len(p) + j \in 1 .. Len(p) + Len(b) /\ j \in 1 .. Len(b)
    BY <2>1
  <2>3. Len(p \o a) = Len(p) + Len(a) /\ Len(p \o b) = Len(p) + Len(b)
        /\ (p \o a)[Len(p) + j] = a[j] /\ (p \o b)[Len(p) + j] = b[j]
    BY <2>2, ListJoin
  <2>4. q[Len(p) + j] = (p \o a)[Len(p) + j] /\ q[Len(p) + j] = (p \o b)[Len(p) + j]
    BY <2>2, <2>3 DEF Begins
  <2> QED BY <2>3, <2>4
<1> QED BY <1>1 DEF Begins

(* No code is the beginning of another one. *)
PrefixFree(a, n, b, m_) ==
  /\ \A i \in 1 .. n : a[i] # << >>
  /\ \A i \in 1 .. m_ : b[i] # << >>
  /\ \A i \in 1 .. n, j \in 1 .. m_ : Begins(a[i], b[j]) \/ Begins(b[j], a[i]) => a[i] = b[j]

LEMMA NonEmpty == ASSUME NEW p, IsList(p), p # << >> PROVE Len(p) > 0 /\ Len(p) \in Nat
<1>1. Len(p) \in Nat /\ p = [i \in 1 .. Len(p) |-> p[i]]
  BY ListHas
<1>2. CASE Len(p) = 0
  <2>1. p = << >>
    BY <1>1, <1>2
  <2> QED BY <2>1
<1> QED BY <1>1, <1>2

(* If no code begins another, joins of the codes that are equal were made  *)
(* of the same codes: the first codes begin one list, so they begin each   *)
(* other and are equal, and so on to the last.                             *)
LEMMA DecodesUpTo ==
  ASSUME NEW n, NEW k_, NEW a, NEW b, ListOfLists(a, n), ListOfLists(b, k_), n <= k_, n > 0,
         PrefixFree(a, n, b, k_), NEW f, NEW g, Joins(f, a, n), Joins(g, b, k_), f[n] = g[k_]
  PROVE  n = k_ /\ \A i \in 1 .. n : a[i] = b[i]
<1>0. n \in Nat /\ k_ \in Nat /\ k_ > 0 /\ \A i \in 1 .. n : IsList(a[i])
  BY DEF ListOfLists
<1>00. \A i \in 1 .. k_ : IsList(b[i])
  BY DEF ListOfLists
<1> DEFINE TT == {k \in Nat : k \in 1 .. n => f[k] = g[k] /\ \A i \in 1 .. k : a[i] = b[i]}
<1>1. 0 \in TT
  OBVIOUS
<1>2. ASSUME NEW k \in Nat, k \in TT PROVE k + 1 \in TT
  <2> SUFFICES ASSUME k + 1 \in 1 .. n PROVE f[k + 1] = g[k + 1] /\ \A i \in 1 .. k + 1 : a[i] = b[i]
    OBVIOUS
  <2>1. IsList(a[k + 1]) /\ IsList(b[k + 1]) /\ k + 1 \in 1 .. k_ /\ n \in 1 .. n /\ k_ \in 1 .. k_
    BY <1>0, <1>00
  <2>2. Begins(f[k + 1], f[n]) /\ Begins(g[k + 1], f[n])
    BY <1>0, <1>00, <2>1, JoinsBegin
  <2>3. PICK p : IsList(p) /\ f[k + 1] = p \o a[k + 1] /\ g[k + 1] = p \o b[k + 1]
                 /\ (k # 0 => k \in 1 .. n)
    <3>1. CASE k = 0
      <4>1. f[k + 1] = a[k + 1] /\ g[k + 1] = b[k + 1]
        BY <3>1 DEF Joins
      <4>2. << >> \o a[k + 1] = a[k + 1] /\ << >> \o b[k + 1] = b[k + 1]
        BY <2>1 DEF IsList
      <4> QED BY <3>1, <4>1, <4>2, EmptyIsList
    <3>2. CASE k # 0
      <4>1. k \in 1 .. n /\ k + 1 \in 2 .. n /\ k + 1 \in 2 .. k_ /\ (k + 1) - 1 = k
        BY <1>0, <3>2
      <4>2. f[k] = g[k]
        BY <1>2, <4>1
      <4>3. f[k + 1] = f[k] \o a[k + 1] /\ g[k + 1] = g[k] \o b[k + 1]
        BY <4>1 DEF Joins
      <4>4. IsList(f[k])
        BY <1>0, <4>1, JoinsBegin DEF Begins
      <4> QED BY <4>1, <4>2, <4>3, <4>4
    <3> QED BY <3>1, <3>2
  <2>4. Len(a[k + 1]) \in Nat /\ Len(b[k + 1]) \in Nat
    BY <2>1, ListHas
  <2>5. Begins(a[k + 1], b[k + 1]) \/ Begins(b[k + 1], a[k + 1])
    BY <2>1, <2>2, <2>3, <2>4, OneBeginsOther
  <2>6. a[k + 1] = b[k + 1]
    BY <2>1, <2>5 DEF PrefixFree
  <2>7. \A i \in 1 .. k : a[i] = b[i]
    <3>1. CASE k = 0
      BY <3>1
    <3>2. CASE k # 0
      BY <1>2, <2>3, <3>2
    <3> QED BY <3>1, <3>2
  <2> QED BY <2>3, <2>6, <2>7
<1> HIDE DEF TT
<1>3. n \in TT /\ n \in 1 .. n
  BY <1>0, <1>1, <1>2, Induction
<1>4. f[n] = g[n] /\ \A i \in 1 .. n : a[i] = b[i]
  BY <1>3 DEF TT
<1>5. n = k_
  <2> SUFFICES ASSUME n < k_ PROVE FALSE
    BY <1>0
  <2>1. n + 1 \in 2 .. k_ /\ n + 1 \in 1 .. k_ /\ (n + 1) - 1 = n /\ n \in 1 .. k_ /\ k_ \in 1 .. k_
    BY <1>0
  <2>2. g[n + 1] = g[n] \o b[n + 1]
    BY <2>1 DEF Joins
  <2>3. Begins(g[n + 1], g[k_]) /\ Begins(g[n], g[k_])
    BY <1>0, <1>00, <2>1, JoinsBegin
  <2>4. IsList(g[n]) /\ IsList(b[n + 1]) /\ b[n + 1] # << >>
    BY <1>00, <2>1, <2>3 DEF Begins, PrefixFree
  <2>5. Len(g[n + 1]) = Len(g[n]) + Len(b[n + 1]) /\ Len(b[n + 1]) > 0 /\ Len(b[n + 1]) \in Nat /\ Len(g[n]) \in Nat
    BY <2>2, <2>4, ListJoin, NonEmpty, ListHas
  <2>6. Len(g[n + 1]) <= Len(g[n])
    BY <1>4, <2>3 DEF Begins
  <2>7. \A x, y, z : x \in Nat /\ y \in Nat /\ y > 0 /\ z = x + y => ~ z <= x
    OBVIOUS
  <2> QED BY <2>5, <2>6, <2>7
<1> QED BY <1>4, <1>5

(***************************************************************************)
(* What Mangle writes for a character, and that distinct names stay        *)
(* distinct.                                                               *)
(***************************************************************************)
(* A list of codes none of which begins another is read in one way only.   *)
LEMMA UniquelyDecodable ==
  ASSUME NEW n, NEW k_, NEW a, NEW b, ListOfLists(a, n), ListOfLists(b, k_), n <= k_,
         PrefixFree(a, n, b, k_), T!FlattenSeq(a) = T!FlattenSeq(b)
  PROVE  n = k_ /\ \A i \in 1 .. n : a[i] = b[i]
<1>1. n \in Nat /\ k_ \in Nat /\ Len(a) = n /\ Len(b) = k_ /\ \A i \in 1 .. k_ : IsList(b[i])
  BY DEF ListOfLists
<1>2. CASE n = 0
  <2>1. T!FlattenSeq(a) = << >>
    BY <1>2, FlattenEmpty DEF ListOfLists
  <2>2. CASE k_ = 0
    BY <1>2, <2>2
  <2>3. CASE k_ > 0
    <3>1. PICK g : Joins(g, b, k_) /\ T!FlattenSeq(b) = g[k_]
      BY <1>1, <2>3, FlattenUnfolds DEF FlattensBy
    <3>2. 1 \in 1 .. k_ /\ k_ \in 1 .. k_ /\ 1 \in 1 .. k_
      BY <1>1, <2>3
    <3>3. Begins(g[1], g[k_])
      BY <1>1, <2>3, <3>1, <3>2, JoinsBegin
    <3>4. g[1] = b[1] /\ IsList(b[1]) /\ b[1] # << >>
      BY <1>1, <3>1, <3>2 DEF Joins, PrefixFree
    <3>5. Len(b[1]) > 0 /\ Len(b[1]) \in Nat
      BY <3>4, NonEmpty
    <3>6. Len(b[1]) <= 0
      BY <2>1, <3>1, <3>3, <3>4, EmptyIsList DEF Begins
    <3> QED BY <3>5, <3>6
  <2> QED BY <1>1, <2>2, <2>3
<1>3. CASE n > 0
  <2>1. k_ > 0
    BY <1>1, <1>3
  <2>2. PICK f : Joins(f, a, n) /\ T!FlattenSeq(a) = f[n]
    BY <1>1, <1>3, FlattenUnfolds DEF FlattensBy
  <2>3. PICK g : Joins(g, b, k_) /\ T!FlattenSeq(b) = g[k_]
    BY <1>1, <2>1, FlattenUnfolds DEF FlattensBy
  <2>4. f[n] = g[k_]
    BY <2>2, <2>3
  <2> QED BY <1>3, <2>2, <2>3, <2>4, DecodesUpTo
<1> QED BY <1>1, <1>2, <1>3

(* What Mangle writes for a character.                                     *)
Code(c, x) ==
  \/ x = << "_", "_" >> /\ c = "_"
  \/ x = << c >> /\ c \notin DOMAIN Hex
  \/ x = T!Escaped(c) /\ c \in DOMAIN Hex

(* x is p, h and r joined, q being p and h: where the elements are.        *)
ThreeParts(p, h, r, q, x) ==
  /\ IsList(x)
  /\ Len(q) = Len(p) + Len(h) /\ Len(x) = Len(q) + Len(r)
  /\ \A i \in 1 .. Len(p) : q[i] = p[i]
  /\ \A i \in 1 .. Len(h) : q[Len(p) + i] = h[i]
  /\ \A i \in 1 .. Len(q) : x[i] = q[i]
  /\ \A i \in 1 .. Len(r) : x[Len(q) + i] = r[i]

LEMMA JoinThree ==
  ASSUME NEW p, NEW h, NEW r, IsList(p), IsList(h), IsList(r)
  PROVE  ThreeParts(p, h, r, p \o h, p \o h \o r)
<1> DEFINE q == p \o h  x == q \o r
<1>1. /\ IsList(q) /\ Len(q) = Len(p) + Len(h)
      /\ \A i \in 1 .. Len(p) : q[i] = p[i]
      /\ \A i \in 1 .. Len(h) : q[Len(p) + i] = h[i]
  BY ListJoin
<1>2. x = p \o h \o r
  OBVIOUS
<1> HIDE DEF q
<1>3. /\ IsList(x) /\ Len(x) = Len(q) + Len(r)
      /\ \A i \in 1 .. Len(q) : x[i] = q[i]
      /\ \A i \in 1 .. Len(r) : x[Len(q) + i] = r[i]
  BY <1>1, ListJoin
<1> HIDE DEF x
<1>4. ThreeParts(p, h, r, q, x)
  BY <1>1, <1>3 DEF ThreeParts
<1> QED BY <1>2, <1>4 DEF q

(* What stands between the marks of an escaped character is its number in  *)
(* hexadecimal, which has no "u".                                          *)
LEMMA EscapedHas ==
  ASSUME NEW c \in DOMAIN Hex
  PROVE  LET x == T!Escaped(c) IN
         /\ IsList(x) /\ Len(x) = Len(Hex[c]) + 3 /\ Len(Hex[c]) \in Nat
         /\ x[1] = "_" /\ x[2] = "u" /\ x[Len(Hex[c]) + 3] = "u"
         /\ \A i \in 1 .. Len(Hex[c]) : x[i + 2] = Hex[c][i] /\ Hex[c][i] # "u"
<1>1. IsList(Hex[c]) /\ \A i \in DOMAIN Hex[c] : Hex[c][i] # "u"
  BY HexAssumption
<1>2. Len(Hex[c]) \in Nat /\ DOMAIN Hex[c] = 1 .. Len(Hex[c])
  BY <1>1, ListHas
<1>3. PICK p, r : p = << "_", "u" >> /\ r = << "u" >>
  OBVIOUS
<1>4. IsList(<< "_", "u" >>) /\ Len(<< "_", "u" >>) = 2 /\ << "_", "u" >>[1] = "_" /\ << "_", "u" >>[2] = "u"
  BY TwoIsList
<1>5. IsList(<< "u" >>) /\ Len(<< "u" >>) = 1 /\ << "u" >>[1] = "u"
  BY OneIsList
<1>6. IsList(p) /\ IsList(r) /\ Len(p) = 2 /\ Len(r) = 1
  BY <1>3, <1>4, <1>5, Zenon
<1>60. p[1] = "_" /\ p[2] = "u" /\ r[1] = "u"
  BY <1>3, <1>4, <1>5, Zenon
<1>70. ThreeParts(p, Hex[c], r, p \o Hex[c], p \o Hex[c] \o r)
  BY <1>1, <1>6, JoinThree
<1>71. PICK q : ThreeParts(p, Hex[c], r, q, p \o Hex[c] \o r)
  BY <1>70
<1>72. PICK x : x = p \o Hex[c] \o r /\ ThreeParts(p, Hex[c], r, q, x)
  BY <1>71
<1>7. /\ IsList(x)
      /\ Len(q) = Len(p) + Len(Hex[c]) /\ Len(x) = Len(q) + Len(r)
      /\ \A i \in 1 .. Len(p) : q[i] = p[i]
      /\ \A i \in 1 .. Len(Hex[c]) : q[Len(p) + i] = Hex[c][i]
      /\ \A i \in 1 .. Len(q) : x[i] = q[i]
      /\ \A i \in 1 .. Len(r) : x[Len(q) + i] = r[i]
  BY <1>72 DEF ThreeParts
<1>8. Len(q) = Len(Hex[c]) + 2 /\ Len(x) = Len(Hex[c]) + 3
  BY <1>2, <1>6, <1>7
<1>9. x[1] = p[1] /\ x[2] = p[2]
  <2>1. 1 \in 1 .. Len(q) /\ 2 \in 1 .. Len(q) /\ 1 \in 1 .. Len(p) /\ 2 \in 1 .. Len(p)
    BY <1>2, <1>6, <1>8
  <2> QED BY <1>7, <2>1
<1>10. x[Len(Hex[c]) + 3] = r[1]
  <2>1. 1 \in 1 .. Len(r) /\ Len(q) + 1 = Len(Hex[c]) + 3
    BY <1>2, <1>6, <1>8
  <2>2. x[Len(q) + 1] = r[1]
    BY <1>7, <2>1
  <2> QED BY <2>1, <2>2
<1>11. ASSUME NEW i \in 1 .. Len(Hex[c]) PROVE x[i + 2] = Hex[c][i]
  <2>1. i + 2 \in 1 .. Len(q) /\ i + 2 = Len(p) + i
    BY <1>2, <1>6, <1>8
  <2>2. x[i + 2] = q[i + 2] /\ q[Len(p) + i] = Hex[c][i]
    BY <1>7, <2>1
  <2> QED BY <2>1, <2>2
<1>12. T!Escaped(c) = x
  BY <1>3, <1>72 DEF T!Escaped
<1>13. x[1] = "_" /\ x[2] = "u" /\ x[Len(Hex[c]) + 3] = "u"
  BY <1>9, <1>10, <1>60, Zenon
<1>14. \A i \in 1 .. Len(Hex[c]) : x[i + 2] = Hex[c][i] /\ Hex[c][i] # "u"
  BY <1>1, <1>2, <1>11, Zenon
<1> QED BY <1>2, <1>7, <1>8, <1>12, <1>13, <1>14, Zenon

(* The closing mark ends an escape, so no escape begins another one.       *)
LEMMA EscapesDecode ==
  ASSUME NEW c \in DOMAIN Hex, NEW d \in DOMAIN Hex, Begins(T!Escaped(c), T!Escaped(d))
  PROVE  c = d
<1> DEFINE x == T!Escaped(c)  y == T!Escaped(d)  n == Len(Hex[c])  k == Len(Hex[d])
<1>1. /\ Len(x) = n + 3 /\ n \in Nat /\ x[n + 3] = "u"
      /\ \A i \in 1 .. n : x[i + 2] = Hex[c][i] /\ Hex[c][i] # "u"
  BY EscapedHas
<1>2. /\ Len(y) = k + 3 /\ k \in Nat /\ y[k + 3] = "u"
      /\ \A i \in 1 .. k : y[i + 2] = Hex[d][i] /\ Hex[d][i] # "u"
  BY EscapedHas
<1>3. n + 3 <= k + 3 /\ \A i \in 1 .. n + 3 : y[i] = x[i]
  BY <1>1, <1>2 DEF Begins
<1> HIDE DEF x, y, n, k
<1>4. n = k
  <2> SUFFICES ASSUME n < k PROVE FALSE
    BY <1>1, <1>2, <1>3
  <2>1. n + 3 \in 1 .. n + 3 /\ n + 1 \in 1 .. k /\ (n + 1) + 2 = n + 3
    BY <1>1, <1>2
  <2>2. y[n + 3] = "u"
    BY <1>1, <1>3, <2>1
  <2>3. y[(n + 1) + 2] # "u"
    BY <1>2, <2>1
  <2> QED BY <2>1, <2>2, <2>3
<1>5. ASSUME NEW i \in 1 .. n PROVE Hex[c][i] = Hex[d][i]
  <2>1. i + 2 \in 1 .. n + 3 /\ i \in 1 .. k
    BY <1>1, <1>4
  <2> QED BY <1>1, <1>2, <1>3, <2>1
<1>6. Hex[c] = Hex[d]
  <2>1. IsList(Hex[c]) /\ IsList(Hex[d]) /\ Len(Hex[c]) = Len(Hex[d])
    BY <1>4, HexAssumption DEF n, k
  <2> QED BY <1>5, <2>1, SameElements DEF n
<1> QED BY <1>6, HexAssumption

LEMMA CodeHas ==
  ASSUME NEW c, NEW x, Code(c, x)
  PROVE  IsList(x) /\ x # << >> /\ Len(x) > 0 /\ Len(x) \in Nat
<1>1. IsList(x) /\ Len(x) > 0
  <2>1. CASE x = << "_", "_" >>
    <3>1. IsList(<< "_", "_" >>) /\ Len(<< "_", "_" >>) = 2
      BY TwoIsList
    <3>2. IsList(x) /\ Len(x) = 2
      BY <2>1, <3>1, Zenon
    <3> QED BY <3>2
  <2>2. CASE x = << c >>
    BY <2>2, OneIsList
  <2>3. CASE x = T!Escaped(c) /\ c \in DOMAIN Hex
    <3>1. IsList(T!Escaped(c)) /\ Len(T!Escaped(c)) = Len(Hex[c]) + 3 /\ Len(Hex[c]) \in Nat
      BY <2>3, EscapedHas
    <3> QED BY <2>3, <3>1
  <2> QED BY <2>1, <2>2, <2>3 DEF Code
<1>2. Len(x) \in Nat
  BY <1>1, ListHas
<1> QED BY <1>1, <1>2, EmptyIsList

(* A code that begins another one is that code, of the same character.     *)
LEMMA CodesDecode ==
  ASSUME NEW c, NEW x, NEW d, NEW y, Code(c, x), Code(d, y), Begins(x, y)
  PROVE  x = y /\ c = d
<1>1. Len(x) > 0 /\ Len(x) \in Nat /\ y[1] = x[1]
  <2>1. Len(x) > 0 /\ Len(x) \in Nat
    BY CodeHas
  <2> QED BY <2>1 DEF Begins
<1>2. << "_", "_" >>[1] = "_" /\ << "_", "_" >>[2] = "_" /\ Len(<< "_", "_" >>) = 2
  BY TwoIsList
<1>3. << c >>[1] = c /\ << d >>[1] = d /\ "_" \in DOMAIN Hex
  BY OneIsList, HexAssumption
<1>4. \A z \in DOMAIN Hex : T!Escaped(z)[1] = "_" /\ T!Escaped(z)[2] = "u" /\ Len(T!Escaped(z)) >= 2
  <2>1. \A z \in DOMAIN Hex : /\ T!Escaped(z)[1] = "_" /\ T!Escaped(z)[2] = "u"
                               /\ Len(T!Escaped(z)) = Len(Hex[z]) + 3 /\ Len(Hex[z]) \in Nat
    BY EscapedHas
  <2> TAKE z \in DOMAIN Hex
  <2>2. Len(T!Escaped(z)) = Len(Hex[z]) + 3 /\ Len(Hex[z]) \in Nat
    BY <2>1
  <2>3. Len(T!Escaped(z)) >= 2
    BY <2>2
  <2> QED BY <2>1, <2>3
<1>5. Len(x) >= 2 => y[2] = x[2]
  BY <1>1 DEF Begins
<1> DEFINE Single(w, z) == w = << z >> /\ z \notin DOMAIN Hex
           Escape(w, z) == w = T!Escaped(z) /\ z \in DOMAIN Hex
           Double(w, z) == w = << "_", "_" >> /\ z = "_"
<1>6. /\ Double(x, c) => x[1] = "_" /\ x[2] = "_" /\ Len(x) = 2
      /\ Double(y, d) => y[1] = "_" /\ y[2] = "_" /\ Len(y) = 2
  BY <1>2
<1>7. /\ Single(x, c) => x[1] # "_" /\ x[1] = c
      /\ Single(y, d) => y[1] # "_" /\ y[1] = d
  BY <1>3
<1>8. /\ Escape(x, c) => x[1] = "_" /\ x[2] = "u" /\ Len(x) >= 2
      /\ Escape(y, d) => y[1] = "_" /\ y[2] = "u" /\ Len(y) >= 2
  BY <1>4, Zenon
<1>9. (Double(x, c) \/ Single(x, c) \/ Escape(x, c)) /\ (Double(y, d) \/ Single(y, d) \/ Escape(y, d))
  BY DEF Code
<1>10. Double(x, c) /\ Double(y, d) => x = y /\ c = d
  OBVIOUS
<1>11. Single(x, c) /\ Single(y, d) /\ c = d => x = y
  OBVIOUS
<1>12. Escape(x, c) /\ Escape(y, d) => x = y /\ c = d
  BY EscapesDecode
<1>13. "_" # "u"
  OBVIOUS
<1> HIDE DEF Double, Single, Escape
<1>14. CASE Double(x, c)
  <2>1. x[1] = "_" /\ x[2] = "_" /\ y[1] = "_" /\ y[2] = "_"
    <3>1. x[1] = "_" /\ x[2] = "_"
      BY <1>6, <1>14
    <3>2. y[2] = x[2]
      <4>1. Len(x) = 2
        BY <1>6, <1>14, Zenon
      <4>2. Len(x) >= 2
        BY <4>1
      <4> QED BY <1>5, <4>2
    <3> QED BY <1>1, <3>1, <3>2
  <2> QED BY <1>7, <1>8, <1>9, <1>10, <1>13, <1>14, <2>1
<1>15. CASE Single(x, c)
  <2>1. x[1] # "_" /\ x[1] = c /\ y[1] # "_" /\ y[1] = c
    BY <1>1, <1>7, <1>15
  <2> QED BY <1>6, <1>7, <1>8, <1>9, <1>11, <1>15, <2>1
<1>16. CASE Escape(x, c)
  <2>1. x[1] = "_" /\ x[2] = "u" /\ y[1] = "_" /\ y[2] = "u"
    BY <1>1, <1>5, <1>8, <1>16
  <2> QED BY <1>6, <1>7, <1>9, <1>12, <1>13, <1>16, <2>1
<1> QED BY <1>9, <1>14, <1>15, <1>16

(* The codes of the characters of a name. *)
CodesOf(s) ==
  [i \in DOMAIN s |->
    CASE s[i] = T!Underscore /\ i < Len(s) -> <<"_", "_">>
      [] s[i] \notin DOMAIN Hex          -> <<s[i]>>
      [] OTHER                           -> T!Escaped(s[i])]

(* Mangle joins what it writes for each character.                         *)
LEMMA MangleIsCodes ==
  ASSUME NEW s, IsList(s)
  PROVE  /\ T!Mangle(s) = T!FlattenSeq(CodesOf(s)) /\ ListOfLists(CodesOf(s), Len(s))
         /\ \A i \in 1 .. Len(s) : Code(s[i], CodesOf(s)[i])
<1>1. T!Mangle(s) = T!FlattenSeq(CodesOf(s))
  BY DEF T!Mangle, CodesOf
<1>2. DOMAIN s = 1 .. Len(s) /\ Len(s) \in Nat
  BY ListHas
<1>3. ASSUME NEW i \in 1 .. Len(s) PROVE Code(s[i], CodesOf(s)[i])
  <2>1. i \in DOMAIN s
    BY <1>2
  <2>2. CodesOf(s)[i] = CASE s[i] = "_" /\ i < Len(s) -> <<"_", "_">>
                          [] s[i] \notin DOMAIN Hex -> <<s[i]>>
                          [] OTHER -> T!Escaped(s[i])
    BY <2>1 DEF CodesOf, T!Underscore
  <2>3. CASE s[i] = "_" /\ i < Len(s)
    <3>1. s[i] \in DOMAIN Hex
      BY <2>3, HexAssumption
    <3>2. CodesOf(s)[i] = <<"_", "_">>
      BY <2>2, <2>3, <3>1
    <3> QED BY <2>3, <3>2 DEF Code
  <2>4. CASE ~ (s[i] = "_" /\ i < Len(s)) /\ s[i] \notin DOMAIN Hex
    <3>1. CodesOf(s)[i] = << s[i] >>
      BY <2>2, <2>4
    <3> QED BY <2>4, <3>1 DEF Code
  <2>5. CASE ~ (s[i] = "_" /\ i < Len(s)) /\ s[i] \in DOMAIN Hex
    <3>1. CodesOf(s)[i] = T!Escaped(s[i])
      BY <2>2, <2>5
    <3> QED BY <2>5, <3>1 DEF Code
  <2> QED BY <2>3, <2>4, <2>5
<1>4. \A i \in 1 .. Len(s) : IsList(CodesOf(s)[i])
  BY <1>3, CodeHas
<1>5. ListOfLists(CodesOf(s), Len(s))
  <2>1. DOMAIN CodesOf(s) = 1 .. Len(s) /\ CodesOf(s) = [i \in 1 .. Len(s) |-> CodesOf(s)[i]]
    BY <1>2 DEF CodesOf
  <2> QED BY <1>2, <1>4, <2>1 DEF ListOfLists
<1> QED BY <1>1, <1>3, <1>5

(* MangleInjective for the shorter name first.                             *)
LEMMA MangledOnce ==
  ASSUME NEW s, NEW t, IsList(s), IsList(t), Len(s) <= Len(t), T!Mangle(s) = T!Mangle(t)
  PROVE  s = t
<1> DEFINE a == CodesOf(s)  b == CodesOf(t)
<1>1. /\ ListOfLists(a, Len(s)) /\ \A i \in 1 .. Len(s) : Code(s[i], a[i])
      /\ ListOfLists(b, Len(t)) /\ \A i \in 1 .. Len(t) : Code(t[i], b[i])
      /\ T!FlattenSeq(a) = T!FlattenSeq(b)
  BY MangleIsCodes
<1> HIDE DEF a, b
<1>2. PrefixFree(a, Len(s), b, Len(t))
  <2>1. (\A i \in 1 .. Len(s) : a[i] # << >>) /\ (\A i \in 1 .. Len(t) : b[i] # << >>)
    BY <1>1, CodeHas
  <2>2. ASSUME NEW i \in 1 .. Len(s), NEW j \in 1 .. Len(t), Begins(a[i], b[j]) \/ Begins(b[j], a[i])
        PROVE  a[i] = b[j]
    BY <1>1, <2>2, CodesDecode
  <2> QED BY <2>1, <2>2 DEF PrefixFree
<1>3. Len(s) = Len(t) /\ \A i \in 1 .. Len(s) : a[i] = b[i]
  BY <1>1, <1>2, UniquelyDecodable
<1>4. ASSUME NEW i \in 1 .. Len(s) PROVE s[i] = t[i]
  <2>1. Code(s[i], a[i]) /\ Code(t[i], a[i]) /\ IsList(a[i])
    BY <1>1, <1>3, CodeHas
  <2>2. Begins(a[i], a[i])
    BY <2>1, BeginsSelf
  <2> QED BY <2>1, <2>2, CodesDecode
<1> QED BY <1>3, <1>4, SameElements

(* Mangle is injective, as its comment says: an escape ends with the only  *)
(* "u" that is no digit, "__" and "_u" tell the two forms of "_" apart, so *)
(* what is written can be read back in one way.                            *)
THEOREM MangleInjective ==
  ASSUME NEW s, NEW t, IsList(s), IsList(t), T!Mangle(s) = T!Mangle(t)
  PROVE  s = t
<1>1. Len(s) \in Nat /\ Len(t) \in Nat
  BY ListHas
<1> QED BY <1>1, MangledOnce

LEMMA JoinCancels ==
  ASSUME NEW p, NEW a, NEW b, IsList(p), IsList(a), IsList(b), p \o a = p \o b
  PROVE  a = b
<1>1. Len(p) \in Nat /\ Len(a) \in Nat /\ Len(b) \in Nat
      /\ Len(p \o a) = Len(p) + Len(a) /\ Len(p \o b) = Len(p) + Len(b)
  BY ListJoin, ListHas
<1>2. Len(a) = Len(b)
  BY <1>1
<1>3. ASSUME NEW i \in 1 .. Len(a) PROVE a[i] = b[i]
  BY <1>2, ListJoin
<1> QED BY <1>2, <1>3, SameElements

LEMMA MangleIsList == ASSUME NEW s, IsList(s) PROVE IsList(T!Mangle(s))
  BY MangleIsCodes, FlattenIsList

(* The constructors of different states have different names.              *)
LEMMA CtorInjective ==
  ASSUME NEW side, IsList(side.ctorPrefix), NEW s, NEW t, IsList(s), IsList(t), T!Ctor(side, s) = T!Ctor(side, t)
  PROVE  s = t
  BY JoinCancels, MangleIsList, MangleInjective DEF T!Ctor

(***************************************************************************)
(* Cycles of the diagram are the cycles of its renamed states.             *)
(***************************************************************************)
(* A member of the theory's cycles, and one of the diagram's.              *)
ClosedIn(S, start, steps) == start \in S /\ \A e \in steps : e.src \in S => e.dst \in S

ReachableFrom(nodes, start, steps) == {s \in nodes : \A S \in SUBSET nodes : ClosedIn(S, start, steps) => s \in S}

(* Some of what is reached can go on by loops for ever.                    *)
HasCycle(reachable, loops) ==
  \E S \in (SUBSET reachable) \ {{}} : \A s \in S : \E e \in loops : e.src = s /\ e.dst \in S

(* steps and disjuncts that say the same of nodes and their names. *)
SameSteps(steps, F, c) ==
  /\ \A x \in steps : \E e \in F : x.src = c[e.src] /\ x.dst = c[e.dst]
  /\ \A e \in F : \E x \in steps : x.src = c[e.src] /\ x.dst = c[e.dst]

(* If different nodes have different names, the names have a cycle exactly *)
(* if the nodes have one: a set of nodes that is closed or that can go on  *)
(* is mapped to its names, and back to the nodes that have those names.    *)
LEMMA CyclesRenamed ==
  ASSUME NEW N, NEW start \in N, NEW F, \A e \in F : e.src \in N /\ e.dst \in N,
         NEW L, L \subseteq F,
         NEW c, \A s, t \in N : c[s] = c[t] => s = t,
         NEW M, NEW steps, NEW loops, SameSteps(steps, F, c), SameSteps(loops, L, c),
         c[start] \in M, \A x \in steps \cup loops : x.src \in M /\ x.dst \in M,
         \A n \in M : \E s \in N : n = c[s]
  PROVE  HasCycle(ReachableFrom(N, start, F), L)
           <=> HasCycle(ReachableFrom(M, c[start], steps), loops)
<1>1. ASSUME HasCycle(ReachableFrom(N, start, F), L)
      PROVE  HasCycle(ReachableFrom(M, c[start], steps), loops)
  <2>1. PICK A \in (SUBSET ReachableFrom(N, start, F)) \ {{}} : \A s \in A : \E e \in L : e.src = s /\ e.dst \in A
    BY <1>1 DEF HasCycle
  <2> DEFINE B == {c[s] : s \in A}
  <2>2. A \subseteq N /\ A # {} /\ \A s \in A : \A S \in SUBSET N : ClosedIn(S, start, F) => s \in S
    BY <2>1 DEF ReachableFrom
  <2>3. ASSUME NEW s \in A PROVE \E x \in loops : x.src = c[s] /\ x.dst \in B
    <3>1. PICK e \in L : e.src = s /\ e.dst \in A
      BY <2>1
    <3>2. PICK x \in loops : x.src = c[e.src] /\ x.dst = c[e.dst]
      BY DEF SameSteps
    <3> QED BY <3>1, <3>2
  <2>4. ASSUME NEW s \in A PROVE c[s] \in ReachableFrom(M, c[start], steps)
    <3>1. c[s] \in M
      BY <2>3
    <3>2. ASSUME NEW S \in SUBSET M, ClosedIn(S, c[start], steps) PROVE c[s] \in S
      <4> DEFINE P == {t \in N : c[t] \in S}
      <4>1. start \in P
        BY <3>2 DEF ClosedIn
      <4>2. ASSUME NEW e \in F, e.src \in P PROVE e.dst \in P
        <5>1. PICK x \in steps : x.src = c[e.src] /\ x.dst = c[e.dst]
          BY DEF SameSteps
        <5>2. x.dst \in S
          BY <3>2, <4>2, <5>1 DEF ClosedIn
        <5> QED BY <5>1, <5>2
      <4>3. ClosedIn(P, start, F) /\ P \in SUBSET N
        BY <4>1, <4>2 DEF ClosedIn
      <4>4. s \in P
        BY <2>2, <4>3
      <4> QED BY <4>4
    <3> QED BY <3>1, <3>2 DEF ReachableFrom
  <2>5. B \in (SUBSET ReachableFrom(M, c[start], steps)) \ {{}}
    BY <2>2, <2>4
  <2>6. \A n \in B : \E x \in loops : x.src = n /\ x.dst \in B
    BY <2>3
  <2> QED BY <2>5, <2>6 DEF HasCycle
<1>2. ASSUME HasCycle(ReachableFrom(M, c[start], steps), loops)
      PROVE  HasCycle(ReachableFrom(N, start, F), L)
  <2>1. PICK B \in (SUBSET ReachableFrom(M, c[start], steps)) \ {{}} :
          \A n \in B : \E x \in loops : x.src = n /\ x.dst \in B
    BY <1>2 DEF HasCycle
  <2> DEFINE A == {s \in N : c[s] \in B}
  <2>2. B \subseteq M /\ B # {} /\ \A n \in B : \A S \in SUBSET M : ClosedIn(S, c[start], steps) => n \in S
    BY <2>1 DEF ReachableFrom
  <2>3. A # {}
    BY <2>2
  <2>4. ASSUME NEW s \in A PROVE s \in ReachableFrom(N, start, F)
    <3>2. ASSUME NEW P \in SUBSET N, ClosedIn(P, start, F) PROVE s \in P
      <4> DEFINE S == {n \in M : \E t \in P : n = c[t]}
      <4>1. c[start] \in S
        BY <3>2 DEF ClosedIn
      <4>2. ASSUME NEW x \in steps, x.src \in S PROVE x.dst \in S
        <5>1. PICK e \in F : x.src = c[e.src] /\ x.dst = c[e.dst]
          BY DEF SameSteps
        <5>2. PICK t \in P : x.src = c[t]
          BY <4>2
        <5>3. e.src = t
          BY <5>1, <5>2
        <5>4. e.dst \in P
          BY <3>2, <5>3 DEF ClosedIn
        <5> QED BY <5>1, <5>4
      <4>3. ClosedIn(S, c[start], steps) /\ S \in SUBSET M
        BY <4>1, <4>2 DEF ClosedIn
      <4>4. c[s] \in S
        BY <2>2, <4>3
      <4>5. PICK t \in P : c[s] = c[t]
        BY <4>4
      <4> QED BY <4>5
    <3> QED BY <3>2 DEF ReachableFrom
  <2>5. ASSUME NEW s \in A PROVE \E e \in L : e.src = s /\ e.dst \in A
    <3>1. PICK x \in loops : x.src = c[s] /\ x.dst \in B
      BY <2>1
    <3>2. PICK e \in L : x.src = c[e.src] /\ x.dst = c[e.dst]
      BY DEF SameSteps
    <3>3. e.src = s
      BY <3>1, <3>2
    <3> QED BY <3>1, <3>2, <3>3
  <2>6. A \in (SUBSET ReachableFrom(N, start, F)) \ {{}}
    BY <2>3, <2>4
  <2> QED BY <2>5, <2>6 DEF HasCycle
<1> QED BY <1>1, <1>2

(***************************************************************************)
(* Lists that Append builds.                                               *)
(***************************************************************************)
LEMMA AppendIsList ==
  ASSUME NEW x, IsList(x), NEW e
  PROVE  IsList(Append(x, e)) /\ T!ToSet(Append(x, e)) = T!ToSet(x) \cup {e}
<1>1. Append(x, e) = x \o << e >>
  <2>1. x \in Seq({x[i] : i \in DOMAIN x})
    BY DEF IsList
  <2> QED BY <2>1
<1>2. IsList(<< e >>) /\ T!ToSet(<< e >>) = {e}
  BY OneIsList
<1>3. IsList(x \o << e >>) /\ T!ToSet(x \o << e >>) = T!ToSet(x) \cup T!ToSet(<< e >>)
  BY <1>2, ListJoin, JoinSet
<1> QED BY <1>1, <1>2, <1>3

(* The members of a list that are in a set.                                *)
LEMMA AmongIs ==
  ASSUME NEW s, IsList(s), NEW S
  PROVE  IsList(T!Among(s, S)) /\ T!ToSet(T!Among(s, S)) = T!ToSet(s) \cap S
<1>1. PICK n \in Nat : n = Len(s) /\ DOMAIN s = 1 .. n
  BY ListHas
<1> DEFINE Is(f) == f = [k \in 0 .. n |-> IF k = 0 THEN << >>
                                           ELSE IF s[k] \in S THEN Append(f[k - 1], s[k]) ELSE f[k - 1]]
           h == CHOOSE f : Is(f)
<1>2. T!Among(s, S) = h[n]
  BY <1>1 DEF T!Among
<1>3. \E f : Is(f)
  <2> DEFINE Y == {s[i] : i \in DOMAIN s}
             X == Seq(Y)
             G == [k \in 1 .. n |-> [x \in X |-> IF s[k] \in S THEN Append(x, s[k]) ELSE x]]
  <2>1. << >> \in X
    OBVIOUS
  <2>2. G \in [1 .. n -> [X -> X]]
    <3>1. ASSUME NEW k \in 1 .. n, NEW x \in X PROVE Append(x, s[k]) \in X
      <4>1. s[k] \in Y
        BY <1>1
      <4> HIDE DEF Y
      <4> QED BY <4>1
    <3> HIDE DEF X
    <3> QED BY <3>1
  <2>3. \A k \in 1 .. n, x \in X : G[k][x] = IF s[k] \in S THEN Append(x, s[k]) ELSE x
    OBVIOUS
  <2> HIDE DEF G, X
  <2>4. PICK f : Iterates(f, n, X, << >>, G)
    BY <2>1, <2>2, Iteration
  <2>5. f \in [0 .. n -> X] /\ f[0] = << >>
    BY <2>4 DEF Iterates
  <2>6. ASSUME NEW k \in 1 .. n PROVE f[k] = IF s[k] \in S THEN Append(f[k - 1], s[k]) ELSE f[k - 1]
    <3>1. k - 1 \in 0 .. n
      OBVIOUS
    <3>2. f[k] = G[k][f[k - 1]] /\ f[k - 1] \in X
      BY <2>4, <2>5, <3>1 DEF Iterates
    <3> QED BY <2>3, <3>2
  <2>7. ASSUME NEW k \in 0 .. n
        PROVE  f[k] = IF k = 0 THEN << >> ELSE IF s[k] \in S THEN Append(f[k - 1], s[k]) ELSE f[k - 1]
    <3>1. k = 0 \/ k \in 1 .. n
      OBVIOUS
    <3> QED BY <2>5, <2>6, <3>1
  <2>8. f = [k \in 0 .. n |-> f[k]]
    BY <2>5
  <2>9. Is(f)
    BY <2>7, <2>8
  <2> HIDE DEF Is
  <2> QED BY <2>9
<1>4. Is(h)
  <2> HIDE DEF Is
  <2> QED BY <1>3
<1> HIDE DEF h
<1>5. h[0] = << >> /\ \A k \in 1 .. n : h[k] = IF s[k] \in S THEN Append(h[k - 1], s[k]) ELSE h[k - 1]
  <2>1. 0 \in 0 .. n /\ \A k \in 1 .. n : k \in 0 .. n /\ k # 0
    OBVIOUS
  <2>2. ASSUME NEW k \in 0 .. n
        PROVE  h[k] = IF k = 0 THEN << >> ELSE IF s[k] \in S THEN Append(h[k - 1], s[k]) ELSE h[k - 1]
    BY <1>4
  <2> QED BY <2>1, <2>2
<1> DEFINE Upto(k) == {s[i] : i \in 1 .. k} \cap S
           TT == {k \in Nat : k <= n => IsList(h[k]) /\ T!ToSet(h[k]) = Upto(k)}
<1>6. 0 \in TT
  <2>1. Upto(0) = {}
    OBVIOUS
  <2> QED BY <1>5, <2>1, EmptyIsList
<1>7. ASSUME NEW k \in Nat, k \in TT PROVE k + 1 \in TT
  <2> SUFFICES ASSUME k + 1 <= n PROVE IsList(h[k + 1]) /\ T!ToSet(h[k + 1]) = Upto(k + 1)
    OBVIOUS
  <2>1. k + 1 \in 1 .. n /\ (k + 1) - 1 = k /\ k <= n
    OBVIOUS
  <2>2. h[k + 1] = IF s[k + 1] \in S THEN Append(h[k], s[k + 1]) ELSE h[k]
    BY <1>5, <2>1
  <2>3. IsList(h[k]) /\ T!ToSet(h[k]) = Upto(k)
    BY <1>7, <2>1
  <2>4. 1 .. k + 1 = 1 .. k \cup {k + 1}
    OBVIOUS
  <2>5. Upto(k + 1) = IF s[k + 1] \in S THEN Upto(k) \cup {s[k + 1]} ELSE Upto(k)
    BY <2>4
  <2> HIDE DEF Upto
  <2>6. IsList(Append(h[k], s[k + 1])) /\ T!ToSet(Append(h[k], s[k + 1])) = T!ToSet(h[k]) \cup {s[k + 1]}
    BY <2>3, AppendIsList
  <2> QED BY <2>2, <2>3, <2>5, <2>6
<1> HIDE DEF TT
<1>8. n \in TT
  BY <1>6, <1>7, Induction
<1>9. T!ToSet(s) = {s[i] : i \in 1 .. n}
  BY <1>1 DEF T!ToSet
<1> QED BY <1>2, <1>8, <1>9 DEF TT

(***************************************************************************)
(* What a theory tells. Of a list of declarations, the ones that           *)
(* DivergenceIsObliged reads: predicates, aliases, relations, reachable    *)
(* sets and theorems, each under the name it declares. An item is such a   *)
(* declaration; Tells says which items a list has, part by part.           *)
(***************************************************************************)
(* The declarations that tell what diverges, by what they declare and say. *)
Telling == {"predicate", "alias", "relation", "reachable", "theorem"}

(* A declaration that tells something: its kind, its name and what it      *)
(* says.                                                                   *)
Item(kind, n, says) == [kind |-> kind, name |-> n, says |-> says]

View(d) == Item(d.kind, d.declares[1].name, d.says)

Items(s) == {View(d) : d \in {d \in T!ToSet(s) : d.kind \in Telling}}

(* A declaration that tells something declares one name.                   *)
OneEach(s) == \A d \in T!ToSet(s) : d.kind \in Telling => Declares(d) = {d.declares[1].name}

(* What a list of declarations tells is I.                                 *)
Tells(s, I) == IsList(s) /\ OneEach(s) /\ Items(s) = I

LEMMA TellsNone ==
  ASSUME NEW s, IsList(s), \A d \in T!ToSet(s) : d.kind \notin Telling
  PROVE  Tells(s, {})
  BY DEF Tells, OneEach, Items

LEMMA TellsNothing == Tells(<< >>, {})
  BY EmptyIsList, TellsNone

LEMMA TellsSilent ==
  ASSUME NEW d, d.kind \notin Telling
  PROVE  Tells(<< d >>, {})
<1>1. IsList(<< d >>) /\ T!ToSet(<< d >>) = {d}
  BY OneIsList
<1> QED BY <1>1, TellsNone

LEMMA TellsOne ==
  ASSUME NEW d, NEW n, NEW k, d.kind \in Telling, d.declares = << T!Sym(n, k) >>
  PROVE  Tells(<< d >>, {Item(d.kind, n, d.says)})
<1>1. IsList(<< d >>) /\ T!ToSet(<< d >>) = {d}
  BY OneIsList
<1>2. IsList(d.declares) /\ Len(d.declares) = 1 /\ d.declares[1] = T!Sym(n, k) /\ DOMAIN d.declares = {1}
  <2>1. IsList(<< T!Sym(n, k) >>) /\ Len(<< T!Sym(n, k) >>) = 1 /\ << T!Sym(n, k) >>[1] = T!Sym(n, k)
    BY OneIsList
  <2>2. DOMAIN << T!Sym(n, k) >> = {1}
    OBVIOUS
  <2> QED BY <2>1, <2>2
<1>3. d.declares[1].name = n
  BY <1>2 DEF T!Sym
<1>4. Declares(d) = {d.declares[1].name}
  BY <1>2 DEF Declares
<1>5. OneEach(<< d >>)
  BY <1>1, <1>4 DEF OneEach
<1>6. View(d) = Item(d.kind, n, d.says)
  BY <1>3 DEF View
<1>7. Items(<< d >>) = {View(d)}
  BY <1>1 DEF Items
<1> QED BY <1>1, <1>5, <1>6, <1>7 DEF Tells

(* What two lists tell, their join tells.                                  *)
LEMMA TellsJoin ==
  ASSUME NEW s, NEW t, NEW I, NEW J, Tells(s, I), Tells(t, J)
  PROVE  Tells(s \o t, I \cup J)
<1>1. IsList(s \o t) /\ T!ToSet(s \o t) = T!ToSet(s) \cup T!ToSet(t)
  BY ListJoin, JoinSet DEF Tells
<1>2. OneEach(s \o t)
  BY <1>1 DEF Tells, OneEach
<1>3. Items(s \o t) = Items(s) \cup Items(t)
  BY <1>1 DEF Items
<1> QED BY <1>1, <1>2, <1>3 DEF Tells

Together(I, n) == UNION {I[i] : i \in 1 .. n}

(* What the lists tell, their flattening tells.                            *)
LEMMA TellsFlatten ==
  ASSUME NEW n \in Nat, NEW s, Len(s) = n, n = 0 => s = << >>, NEW I,
         \A i \in 1 .. n : Tells(s[i], I[i])
  PROVE  Tells(T!FlattenSeq(s), Together(I, n))
<1>1. ListOfLists(s, n)
  BY DEF ListOfLists, Tells
<1> DEFINE f == T!FlattenSeq(s)
<1>2. IsList(f) /\ T!ToSet(f) = UNION {T!ToSet(s[i]) : i \in 1 .. n}
  BY <1>1, FlattenIsList
<1> HIDE DEF f
<1>3. OneEach(f)
  BY <1>2 DEF Tells, OneEach
<1>4. Items(f) = UNION {Items(s[i]) : i \in 1 .. n}
  BY <1>2 DEF Items
<1>5. \A i \in 1 .. n : Items(s[i]) = I[i]
  BY DEF Tells
<1>6. Items(f) = UNION {I[i] : i \in 1 .. n}
  BY <1>4, <1>5
<1> QED BY <1>2, <1>3, <1>6 DEF Tells, f, Together

(* A part that is written without an error.                                *)
Done(w, I) == w.outcome = "ok" /\ Tells(w.declarations, I)

LEMMA DoneOk == ASSUME NEW s, NEW I, Tells(s, I) PROVE Done(T!Ok(s), I)
  BY DEF Done, T!Ok, T!Written

(* WriteAll of parts that are written without error tells what they tell.  *)
LEMMA DoneAll ==
  ASSUME NEW n \in Nat, n > 0, NEW s, IsList(s), Len(s) = n, NEW I,
         \A i \in 1 .. n : Done(s[i], I[i])
  PROVE  Done(T!WriteAll(s), Together(I, n))
<1>1. DOMAIN s = 1 .. n
  BY ListHas
<1> DEFINE x == [i \in 1 .. n |-> s[i].declarations]
<1>2. {i \in DOMAIN s : s[i].outcome # "ok"} = {}
  BY <1>1 DEF Done
<1>3. T!WriteAll(s) = T!Written(T!FlattenSeq(x), s[n].outcome)
  BY <1>2 DEF T!WriteAll
<1>4. Len(x) = n /\ n # 0
  OBVIOUS
<1>5. \A i \in 1 .. n : Tells(x[i], I[i])
  BY DEF Done
<1> HIDE DEF x
<1>6. Tells(T!FlattenSeq(x), Together(I, n))
  BY <1>4, <1>5, TellsFlatten
<1>7. n \in 1 .. n
  OBVIOUS
<1> QED BY <1>3, <1>6, <1>7 DEF Done, T!Written

LEMMA DoneThree ==
  ASSUME NEW a, NEW b, NEW c, NEW A, NEW B, NEW C, Done(a, A), Done(b, B), Done(c, C)
  PROVE  Done(T!WriteAll(<< a, b, c >>), A \cup B \cup C)
<1>1. IsList(<< a, b, c >>)
  <2>1. << a, b, c >> \in Seq({a, b, c})
    OBVIOUS
  <2> QED BY <2>1, ListIs
<1> DEFINE s == << a, b, c >>  I == << A, B, C >>
<1>2. Len(s) = 3 /\ s[1] = a /\ s[2] = b /\ s[3] = c /\ I[1] = A /\ I[2] = B /\ I[3] = C
  OBVIOUS
<1> HIDE DEF s, I
<1>3. ASSUME NEW i \in 1 .. 3 PROVE Done(s[i], I[i])
  <2>1. i = 1 \/ i = 2 \/ i = 3
    OBVIOUS
  <2> QED BY <1>2, <2>1
<1>4. Together(I, 3) = A \cup B \cup C
  <2>1. 1 .. 3 = {1, 2, 3}
    OBVIOUS
  <2> QED BY <1>2, <2>1 DEF Together
<1>5. PICK n \in Nat : n = 3 /\ n > 0
  OBVIOUS
<1>6. Done(T!WriteAll(s), Together(I, n))
  BY <1>1, <1>2, <1>3, <1>5, DoneAll DEF s
<1> QED BY <1>4, <1>5, <1>6 DEF s

LEMMA DoneFive ==
  ASSUME NEW a, NEW b, NEW c, NEW d, NEW e, NEW A, NEW B, NEW C, NEW D, NEW E,
         Done(a, A), Done(b, B), Done(c, C), Done(d, D), Done(e, E)
  PROVE  Done(T!WriteAll(<< a, b, c, d, e >>), A \cup B \cup C \cup D \cup E)
<1>1. IsList(<< a, b, c, d, e >>)
  <2>1. << a, b, c, d, e >> \in Seq({a, b, c, d, e})
    OBVIOUS
  <2> QED BY <2>1, ListIs
<1> DEFINE s == << a, b, c, d, e >>  I == << A, B, C, D, E >>
<1>2. Len(s) = 5 /\ s[1] = a /\ s[2] = b /\ s[3] = c /\ s[4] = d /\ s[5] = e
      /\ I[1] = A /\ I[2] = B /\ I[3] = C /\ I[4] = D /\ I[5] = E
  OBVIOUS
<1> HIDE DEF s, I
<1>3. ASSUME NEW i \in 1 .. 5 PROVE Done(s[i], I[i])
  <2>1. i = 1 \/ i = 2 \/ i = 3 \/ i = 4 \/ i = 5
    OBVIOUS
  <2> QED BY <1>2, <2>1
<1>4. Together(I, 5) = A \cup B \cup C \cup D \cup E
  <2>1. 1 .. 5 = {1, 2, 3, 4, 5}
    OBVIOUS
  <2> QED BY <1>2, <2>1 DEF Together
<1>5. PICK n \in Nat : n = 5 /\ n > 0
  OBVIOUS
<1>6. Done(T!WriteAll(s), Together(I, n))
  BY <1>1, <1>2, <1>3, <1>5, DoneAll DEF s
<1> QED BY <1>4, <1>5, <1>6 DEF s

LEMMA DoneThirteen ==
  ASSUME NEW a, NEW I, \A i \in 1 .. 13 : Done(a[i], I[i])
  PROVE  Done(T!WriteAll(Parts(a)), Together(I, 13))
<1> DEFINE p == Parts(a)
<1>1. PICK n \in Nat : n = 13 /\ n > 0
  OBVIOUS
<1>2. Len(p) = n
  BY <1>1 DEF Parts
<1>3. ASSUME NEW i \in 1 .. n PROVE p[i] = a[i]
  <2>1. i \in {1, 2, 3, 4, 5, 6, 7, 8, 9, 10, 11, 12, 13}
    BY <1>1
  <2> QED BY <2>1 DEF Parts
<1>4. p = [i \in 1 .. n |-> p[i]]
  BY <1>1 DEF Parts
<1> HIDE DEF p
<1>5. IsList(p)
  BY <1>4, FunctionIsList
<1>6. \A i \in 1 .. n : Done(p[i], I[i])
  BY <1>1, <1>3
<1>7. Done(T!WriteAll(p), Together(I, n))
  BY <1>1, <1>2, <1>5, <1>6, DoneAll
<1> QED BY <1>1, <1>7 DEF p

(***************************************************************************)
(* The layers: the three step relations and the reachable set.             *)
(***************************************************************************)
(* What the parts of a theory tell.                                        *)
Disjuncts(side, edges, states) == [i \in DOMAIN edges |-> Lean!WriteDisjunct(side, edges[i], states)]

StepItem(target, side, word, edges, states) ==
  Item("relation", T!Qualify(side, Word(target, word)), Disjuncts(side, edges, states))

(* What the reachable set of a side says: where it starts, under which     *)
(* condition, and by which step it goes on.                                *)
ReachableSays(side, init, states) ==
  LET terms == T!FieldVars(T!FieldsIn(states, init.dst), FALSE)
  IN  [base |-> T!Term(T!Qualify(side, "init"), terms), to |-> T!Term(T!Ctor(side, init.dst), terms),
       step |-> T!Qualify(side, "step")]

ReachableItem(target, side, init, states) ==
  Item("reachable", T!Qualify(side, Word(target, "reachable")), ReachableSays(side, init, states))

(* The two step relations and the reachable set of a side.                 *)
LayerItems(target, side, init, states, edges) ==
  {StepItem(target, side, "step", edges, states)}
    \cup {ReachableItem(target, side, init, states)}
    \cup {StepItem(target, side, "tau_step", T!TauEdges(edges), states)}

(* What the livelock theorem of a side claims.                             *)
LivelockSays(target, side) ==
  [claims |-> "wellFounded", on |-> T!Qualify(side, Word(target, "reachable")),
   of |-> T!Qualify(side, Word(target, "tau_step"))]

LEMMA Words ==
  /\ \A w : Word("isabelle", w) = w
  /\ Word("lean", "st") = "St" /\ Word("lean", "reachable") = "Reachable"
  /\ Word("lean", "tau_step") = "tauStep" /\ Word("lean", "step") = "step"
  BY DEF Word

(* Both backends write one relation, with a disjunct for each edge.        *)
LEMMA RelationTells ==
  ASSUME NEW side, NEW a, NEW states, NEW edges
  PROVE  /\ Tells(<< Isabelle!WriteRelation(side, a, states, edges) >>,
                  {Item("relation", T!Qualify(side, a), Disjuncts(side, edges, states))})
         /\ Tells(<< Lean!WriteRelation(side, a, states, edges) >>,
                  {Item("relation", T!Qualify(side, a), Disjuncts(side, edges, states))})
<1> DEFINE x == [i \in DOMAIN edges |-> Isabelle!WriteDisjunct(side, edges[i], states)]
           d == Isabelle!WriteRelation(side, a, states, edges)
           e == Lean!WriteRelation(side, a, states, edges)
           y == Disjuncts(side, edges, states)
<1>1. x = y
  BY SameSmall DEF Disjuncts
<1> HIDE DEF x
<1>2. d.declares = << T!Sym(T!Qualify(side, a), 2) >> /\ d.kind = "relation" /\ d.says = x
  BY DEF x, Isabelle!WriteRelation, Isabelle!Relation, Isabelle!Declaration, Isabelle!Sym, T!Sym,
     Isabelle!Qualify, T!Qualify
<1>3. e.declares = << T!Sym(T!Qualify(side, a), 2) >> /\ e.kind = "relation" /\ e.says = y
  BY DEF Disjuncts, Lean!WriteRelation, Lean!Relation, Lean!Declaration, Lean!Sym, T!Sym,
     Lean!Qualify, T!Qualify
<1> HIDE DEF d, e, y
<1>4. "relation" \in Telling
  BY DEF Telling
<1>5. Tells(<< d >>, {Item("relation", T!Qualify(side, a), y)})
  <2>1. d.kind \in Telling
    BY <1>2, <1>4
  <2>2. Tells(<< d >>, {Item(d.kind, T!Qualify(side, a), d.says)})
    BY <1>2, <2>1, TellsOne
  <2> QED BY <1>1, <1>2, <2>2
<1>6. Tells(<< e >>, {Item("relation", T!Qualify(side, a), y)})
  <2>1. e.kind \in Telling
    BY <1>3, <1>4
  <2>2. Tells(<< e >>, {Item(e.kind, T!Qualify(side, a), e.says)})
    BY <1>3, <2>1, TellsOne
  <2> QED BY <1>3, <2>2
<1> QED BY <1>5, <1>6 DEF d, e, y

LEMMA SameOk ==
  ASSUME NEW s
  PROVE  Isabelle!Ok(s) = T!Ok(s) /\ Lean!Ok(s) = T!Ok(s)
  BY DEF Isabelle!Ok, Lean!Ok, T!Ok, Isabelle!Written, Lean!Written, T!Written

LEMMA ReachableDone ==
  ASSUME NEW side, NEW x, NEW states, x.dst \in DOMAIN states
  PROVE  /\ Done(Isabelle!WriteReachable(side, x, states), {ReachableItem("isabelle", side, x, states)})
         /\ Done(Lean!WriteReachable(side, x, states), {ReachableItem("lean", side, x, states)})
<1> DEFINE vars_ == T!FieldVars(T!FieldsIn(states, x.dst), FALSE)
           base == [name |-> T!Qualify(side, "init"), vars |-> vars_]
           to == [name |-> T!Ctor(side, x.dst), vars |-> vars_]
           V == {T!Sym(T!Qualify(side, "init"), Len(vars_)), T!Sym(T!Ctor(side, x.dst), Len(vars_)),
                 T!Sym(T!Qualify(side, "step"), 2)}
           d == [kind |-> "reachable", declares |-> << T!Sym(T!Qualify(side, "reachable"), 1) >>,
                 uses |-> {T!Sym(T!Qualify(side, "init"), Len(vars_)), T!Sym(T!Ctor(side, x.dst), Len(vars_)),
                           T!Sym(T!Qualify(side, "step"), 2), T!Sym(T!Qualify(side, "st"), 0)},
                 free |-> {}, says |-> [base |-> base, to |-> to, step |-> T!Qualify(side, "step")]]
           e == [kind |-> "reachable", declares |-> << T!Sym(T!Qualify(side, "Reachable"), 1) >>,
                 uses |-> {T!Sym(T!Qualify(side, "init"), Len(vars_)), T!Sym(T!Ctor(side, x.dst), Len(vars_)),
                           T!Sym(T!Qualify(side, "step"), 2), T!Sym(T!Qualify(side, "St"), 0)},
                 free |-> {}, says |-> [base |-> base, to |-> to, step |-> T!Qualify(side, "step")]]
<1>1. Isabelle!WriteReachable(side, x, states) = T!Ok(<< d >>)
  <2>1. Isabelle!WriteReachable(side, x, states) = Isabelle!Ok(<< d >>)
    BY SameFieldVars, SameFields, SameCtor
    DEF Isabelle!WriteReachable, Isabelle!Declaration, Isabelle!Sym, T!Sym, Isabelle!SymOf, Isabelle!Term,
        Isabelle!Qualify, T!Qualify
  <2> HIDE DEF d
  <2> QED BY <2>1, SameOk
<1>2. Lean!WriteReachable(side, x, states) = T!Ok(<< e >>)
  <2>1. Lean!WriteReachable(side, x, states) = Lean!Ok(<< e >>)
    BY SameFieldVars, SameFields, SameCtor
    DEF Lean!WriteReachable, Lean!Declaration, Lean!Sym, T!Sym, Lean!SymOf, Lean!Term,
        Lean!Qualify, T!Qualify
  <2> HIDE DEF e
  <2> QED BY <2>1, SameOk
<1>3. d.kind = "reachable" /\ d.declares = << T!Sym(T!Qualify(side, "reachable"), 1) >> /\ d.says = ReachableSays(side, x, states)
  BY DEF ReachableSays, T!Term
<1>4. e.kind = "reachable" /\ e.declares = << T!Sym(T!Qualify(side, "Reachable"), 1) >> /\ e.says = ReachableSays(side, x, states)
  BY DEF ReachableSays, T!Term
<1> HIDE DEF d, e
<1>5. d.kind \in Telling /\ e.kind \in Telling
  BY <1>3, <1>4 DEF Telling
<1>6. Tells(<< d >>, {ReachableItem("isabelle", side, x, states)})
  <2>1. Tells(<< d >>, {Item(d.kind, T!Qualify(side, "reachable"), d.says)})
    BY <1>3, <1>5, TellsOne
  <2>2. Word("isabelle", "reachable") = "reachable"
    BY Words
  <2> QED BY <1>3, <2>1, <2>2 DEF ReachableItem
<1>7. Tells(<< e >>, {ReachableItem("lean", side, x, states)})
  <2>1. Tells(<< e >>, {Item(e.kind, T!Qualify(side, "Reachable"), e.says)})
    BY <1>4, <1>5, TellsOne
  <2>2. Word("lean", "reachable") = "Reachable"
    BY Words
  <2> QED BY <1>4, <2>1, <2>2 DEF ReachableItem
<1> QED BY <1>1, <1>2, <1>6, <1>7, DoneOk

(* Both backends write the layer of a side whose start is a state.         *)
LEMMA RelationsDone ==
  ASSUME NEW side, NEW x, NEW states, NEW edges, x.dst \in DOMAIN states
  PROVE  /\ Done(Isabelle!WriteRelations(side, x, states, edges), LayerItems("isabelle", side, x, states, edges))
         /\ Done(Lean!WriteRelations(side, x, states, edges), LayerItems("lean", side, x, states, edges))
<1>1. /\ Tells(<< Isabelle!WriteRelation(side, "step", states, edges) >>, {StepItem("isabelle", side, "step", edges, states)})
      /\ Tells(<< Lean!WriteRelation(side, "step", states, edges) >>, {StepItem("lean", side, "step", edges, states)})
  BY RelationTells, Words DEF StepItem
<1>2. PICK tau : tau = T!TauEdges(edges)
  OBVIOUS
<1>3. tau = Isabelle!TauEdges(edges) /\ tau = Lean!TauEdges(edges)
  BY <1>2, SameTau
<1>4. /\ Tells(<< Isabelle!WriteRelation(side, "tau_step", states, tau) >>, {StepItem("isabelle", side, "tau_step", tau, states)})
      /\ Tells(<< Lean!WriteRelation(side, "tauStep", states, tau) >>, {StepItem("lean", side, "tau_step", tau, states)})
  BY RelationTells, Words DEF StepItem
<1>5. /\ Done(Isabelle!WriteReachable(side, x, states), {ReachableItem("isabelle", side, x, states)})
      /\ Done(Lean!WriteReachable(side, x, states), {ReachableItem("lean", side, x, states)})
  BY ReachableDone
<1>6. Done(T!WriteAll(<< T!Ok(<< Isabelle!WriteRelation(side, "step", states, edges) >>),
                         Isabelle!WriteReachable(side, x, states),
                         T!Ok(<< Isabelle!WriteRelation(side, "tau_step", states, tau) >>) >>),
           LayerItems("isabelle", side, x, states, edges))
  BY <1>1, <1>2, <1>4, <1>5, DoneOk, DoneThree DEF LayerItems
<1>7. Done(T!WriteAll(<< T!Ok(<< Lean!WriteRelation(side, "step", states, edges) >>),
                         Lean!WriteReachable(side, x, states),
                         T!Ok(<< Lean!WriteRelation(side, "tauStep", states, tau) >>) >>),
           LayerItems("lean", side, x, states, edges))
  BY <1>1, <1>2, <1>4, <1>5, DoneOk, DoneThree DEF LayerItems
<1>8. Isabelle!WriteRelations(side, x, states, edges)
        = T!WriteAll(<< T!Ok(<< Isabelle!WriteRelation(side, "step", states, edges) >>),
                         Isabelle!WriteReachable(side, x, states),
                         T!Ok(<< Isabelle!WriteRelation(side, "tau_step", states, tau) >>) >>)
  BY <1>3, SameWriteAll, SameOk DEF Isabelle!WriteRelations
<1>9. Lean!WriteRelations(side, x, states, edges)
        = T!WriteAll(<< T!Ok(<< Lean!WriteRelation(side, "step", states, edges) >>),
                         Lean!WriteReachable(side, x, states),
                         T!Ok(<< Lean!WriteRelation(side, "tauStep", states, tau) >>) >>)
  BY <1>3, SameWriteAll, SameOk DEF Lean!WriteRelations
<1> QED BY <1>6, <1>7, <1>8, <1>9

(***************************************************************************)
(* The aliases of a transition system, and the declarations that tell      *)
(* nothing.                                                                *)
(***************************************************************************)
LEMMA TwoAreJoined == ASSUME NEW x, NEW y PROVE << x, y >> = << x >> \o << y >>
<1>1. << x >> \in Seq({x, y}) /\ << y >> \in Seq({x, y}) /\ << x, y >> \in Seq({x, y})
  OBVIOUS
<1>2. << x >> \o << y >> \in Seq({x, y}) /\ Len(<< x >> \o << y >>) = 2
      /\ (<< x >> \o << y >>)[1] = x /\ (<< x >> \o << y >>)[2] = y
  BY <1>1
<1>3. PICK p : p = << x >> \o << y >> /\ p \in Seq({x, y}) /\ Len(p) = 2 /\ p[1] = x /\ p[2] = y
  BY <1>2
<1> DEFINE q == << x, y >>
<1>4. IsList(q) /\ Len(q) = 2 /\ q[1] = x /\ q[2] = y
  BY TwoIsList
<1> HIDE DEF q
<1>5. IsList(p)
  BY <1>3, ListIs
<1>6. ASSUME NEW j \in 1 .. Len(p) PROVE p[j] = q[j]
  <2>1. j = 1 \/ j = 2
    BY <1>3
  <2> QED BY <1>3, <1>4, <2>1
<1>7. Len(p) = Len(q)
  BY <1>3, <1>4
<1>8. p = q
  BY <1>4, <1>5, <1>6, <1>7, SameElements
<1> QED BY <1>3, <1>8 DEF q

AliasItem(n, placeholder) == Item("alias", n, placeholder)

(* The two aliases of an edge: its guard and its postcondition.            *)
EdgeItems(side, e) ==
  {AliasItem(T!GuardName(side, e.line), e.guard)} \cup {AliasItem(T!PostName(side, e.line), e.post)}

EdgesItems(side, edges) == UNION {EdgeItems(side, edges[i]) : i \in DOMAIN edges}

(* The aliases of a side: the start's postcondition, and those of its      *)
(* edges.                                                                  *)
AliasItems(side, init, edges) ==
  {AliasItem(T!Qualify(side, "init"), init.post)} \cup EdgesItems(side, edges)

LEMMA AliasTells ==
  ASSUME NEW n, NEW args, NEW placeholder
  PROVE  Tells(<< Lean!Alias(n, args, placeholder) >>, {AliasItem(n, placeholder)})
<1> DEFINE d == Lean!Alias(n, args, placeholder)
<1>1. d.kind = "alias" /\ d.declares = << T!Sym(n, Len(args)) >> /\ d.says = placeholder
  BY DEF Lean!Alias, Lean!Declaration, Lean!Sym, T!Sym
<1> HIDE DEF d
<1>2. d.kind \in Telling
  BY <1>1 DEF Telling
<1>3. Tells(<< d >>, {Item(d.kind, n, d.says)})
  BY <1>1, <1>2, TellsOne
<1> QED BY <1>1, <1>3 DEF AliasItem, d

LEMMA EdgeTells == ASSUME NEW side, NEW e PROVE Tells(Lean!WriteEdge(side, e), EdgeItems(side, e))
<1> DEFINE a == Lean!Alias(T!GuardName(side, e.line), e.guardArgs, e.guard)
           b == Lean!Alias(T!PostName(side, e.line), e.postArgs, e.post)
<1>1. Lean!WriteEdge(side, e) = << a, b >>
  BY DEF Lean!WriteEdge, Lean!GuardName, T!GuardName, Lean!PostName, T!PostName
<1>2. Tells(<< a >>, {AliasItem(T!GuardName(side, e.line), e.guard)})
      /\ Tells(<< b >>, {AliasItem(T!PostName(side, e.line), e.post)})
  BY AliasTells
<1> HIDE DEF a, b
<1>3. Tells(<< a >> \o << b >>, EdgeItems(side, e))
  BY <1>2, TellsJoin DEF EdgeItems
<1> QED BY <1>1, <1>3, TwoAreJoined

LEMMA EdgesTell ==
  ASSUME NEW side, NEW edges, IsList(edges)
  PROVE  /\ Tells(Lean!FlattenSeq([i \in DOMAIN edges |-> Lean!WriteEdge(side, edges[i])]), EdgesItems(side, edges))
         /\ Tells(Isabelle!FlattenSeq([i \in DOMAIN edges |-> Isabelle!WriteEdge(side, edges[i])]), EdgesItems(side, edges))
<1> DEFINE t == [i \in DOMAIN edges |-> Lean!WriteEdge(side, edges[i])]
           I == [i \in DOMAIN edges |-> EdgeItems(side, edges[i])]
<1>1. [i \in DOMAIN edges |-> Isabelle!WriteEdge(side, edges[i])] = t
  BY SameSmall
<1>2. PICK n \in Nat : DOMAIN edges = 1 .. n
  BY ListHas
<1>3. Len(t) = n
  BY <1>2
<1>4. n = 0 => t = << >>
  BY <1>2
<1>5. ASSUME NEW i \in 1 .. n PROVE Tells(t[i], I[i])
  <2>1. t[i] = Lean!WriteEdge(side, edges[i]) /\ I[i] = EdgeItems(side, edges[i])
    BY <1>2
  <2> QED BY <2>1, EdgeTells
<1>6. Together(I, n) = EdgesItems(side, edges)
  BY <1>2 DEF Together, EdgesItems
<1> HIDE DEF t, I
<1>7. Tells(T!FlattenSeq(t), EdgesItems(side, edges))
  BY <1>3, <1>4, <1>5, <1>6, TellsFlatten
<1>8. Tells(Lean!FlattenSeq(t), EdgesItems(side, edges)) /\ Tells(Isabelle!FlattenSeq(t), EdgesItems(side, edges))
  BY <1>7, SameFlatten
<1> QED BY <1>1, <1>8 DEF t

LEMMA InitTells ==
  ASSUME NEW side, NEW x
  PROVE  /\ Tells(<< Lean!WriteInit(side, x) >>, {AliasItem(T!Qualify(side, "init"), x.post)})
         /\ Tells(<< Isabelle!WriteInit(side, x) >>, {AliasItem(T!Qualify(side, "init"), x.post)})
<1>1. Lean!WriteInit(side, x) = Lean!Alias(T!Qualify(side, "init"), x.postArgs, x.post)
  BY DEF Lean!WriteInit, Lean!Qualify, T!Qualify
<1>2. Isabelle!WriteInit(side, x) = Lean!WriteInit(side, x)
  BY SameSmall
<1> QED BY <1>1, <1>2, AliasTells

(* What the part of a theory on a side's transition system tells.          *)
LEMMA TransitionSystemDone ==
  ASSUME NEW side, NEW x, NEW states, NEW edges, IsList(edges), x.dst \in DOMAIN states
  PROVE  /\ Done(Isabelle!WriteTransitionSystem(side, x, states, edges),
                 AliasItems(side, x, edges) \cup LayerItems("isabelle", side, x, states, edges))
         /\ Done(Lean!WriteTransitionSystem(side, x, states, edges),
                 AliasItems(side, x, edges) \cup LayerItems("lean", side, x, states, edges))
<1> DEFINE a == T!Ok(<< Isabelle!WriteInit(side, x) >>)
           b == T!Ok(Isabelle!FlattenSeq([i \in DOMAIN edges |-> Isabelle!WriteEdge(side, edges[i])]))
           c == Isabelle!WriteRelations(side, x, states, edges)
           u == T!Ok(<< Lean!WriteInit(side, x) >>)
           v == T!Ok(Lean!FlattenSeq([i \in DOMAIN edges |-> Lean!WriteEdge(side, edges[i])]))
           w == Lean!WriteRelations(side, x, states, edges)
           A == {AliasItem(T!Qualify(side, "init"), x.post)}
           B == EdgesItems(side, edges)
<1>1. Isabelle!WriteTransitionSystem(side, x, states, edges) = T!WriteAll(<< a, b, c >>)
  BY SameWriteAll, SameOk DEF Isabelle!WriteTransitionSystem
<1>2. Lean!WriteTransitionSystem(side, x, states, edges) = T!WriteAll(<< u, v, w >>)
  BY SameWriteAll, SameOk DEF Lean!WriteTransitionSystem
<1>3. Done(a, A) /\ Done(u, A)
  BY InitTells, DoneOk
<1>4. Done(b, B) /\ Done(v, B)
  BY EdgesTell, DoneOk
<1>5. Done(c, LayerItems("isabelle", side, x, states, edges)) /\ Done(w, LayerItems("lean", side, x, states, edges))
  BY RelationsDone
<1>6. AliasItems(side, x, edges) = A \cup B
  BY DEF AliasItems
<1> HIDE DEF a, b, c, u, v, w, A, B
<1> QED BY <1>1, <1>2, <1>3, <1>4, <1>5, <1>6, DoneThree

(* The types of a theory tell nothing of what diverges.                    *)
LEMMA SortedNotEmpty ==
  ASSUME NEW states, IsFiniteSet(DOMAIN states), DOMAIN states # {}
  PROVE  T!SortIRStates(states) # << >>
<1>1. Cardinality(DOMAIN states) \in Nat /\ Cardinality(DOMAIN states) # 0
  BY FS_CardinalityType, FS_EmptySet
<1>2. DOMAIN T!SortIRStates(states) = 1 .. Cardinality(DOMAIN states)
  BY SameCardinality DEF T!SortIRStates, T!InOrderOf
<1>3. 1 \in DOMAIN T!SortIRStates(states)
  BY <1>1, <1>2
<1> QED BY <1>3

LEMMA DatatypeTells ==
  ASSUME NEW n, NEW ctors, NEW u
  PROVE  Tells(<< Isabelle!Datatype(n, ctors, u) >>, {}) /\ Tells(<< Lean!Datatype(n, ctors, u) >>, {})
<1>1. Isabelle!Datatype(n, ctors, u).kind = "datatype" /\ Lean!Datatype(n, ctors, u).kind = "datatype"
  BY DEF Isabelle!Datatype, Lean!Datatype, Isabelle!Declaration, Lean!Declaration
<1>2. "datatype" \notin Telling
  BY DEF Telling
<1> QED BY <1>1, <1>2, TellsSilent

LEMMA StateTypeDone ==
  ASSUME NEW side, NEW states, IsFiniteSet(DOMAIN states), DOMAIN states # {}
  PROVE  /\ Done(Isabelle!WriteStateTypeDeclaration(side, states), {})
         /\ Done(Lean!WriteStateTypeDeclaration(side, states), {})
<1>1. T!SortIRStates(states) # << >>
  BY SortedNotEmpty
<1> DEFINE ctor == [i \in DOMAIN T!SortIRStates(states) |->
                      Isabelle!Sym(Isabelle!Ctor(side, T!SortIRStates(states)[i]),
                                   Len(states[T!SortIRStates(states)[i]].fields))]
           ctors == [i \in DOMAIN T!SortIRStates(states) |->
                       Lean!Sym(Lean!Ctor(side, T!SortIRStates(states)[i]),
                                Len(states[T!SortIRStates(states)[i]].fields))]
           d == Isabelle!Datatype(Isabelle!Qualify(side, "st"), ctor, UNION {Isabelle!ValUse(ctor[i].arity) : i \in DOMAIN ctor})
           e == Lean!Datatype(Lean!Qualify(side, "St"), ctors, UNION {Lean!ValUse(ctors[i].arity) : i \in DOMAIN ctors})
<1>2. Isabelle!WriteStateTypeDeclaration(side, states) =
        IF T!SortIRStates(states) = << >> THEN Isabelle!Written(<< >>, "panic") ELSE Isabelle!Ok(<< d >>)
  BY SameSort DEF Isabelle!WriteStateTypeDeclaration
<1>3. Lean!WriteStateTypeDeclaration(side, states) =
        IF T!SortIRStates(states) = << >> THEN Lean!Written(<< >>, "error") ELSE Lean!Ok(<< e >>)
  BY SameSort DEF Lean!WriteStateTypeDeclaration
<1>4. Tells(<< d >>, {}) /\ Tells(<< e >>, {})
  BY DatatypeTells
<1> HIDE DEF d, e
<1>5. Isabelle!WriteStateTypeDeclaration(side, states) = T!Ok(<< d >>)
      /\ Lean!WriteStateTypeDeclaration(side, states) = T!Ok(<< e >>)
  BY <1>1, <1>2, <1>3, SameOk
<1> QED BY <1>4, <1>5, DoneOk

LEMMA ValPreludeTells ==
  ASSUME NEW B
  PROVE  /\ Tells(IF B THEN Isabelle!ValPrelude ELSE << >>, {})
         /\ Tells(IF B THEN Lean!ValPrelude ELSE << >>, {})
  BY TellsNothing, DatatypeTells DEF Isabelle!ValPrelude, Lean!ValPrelude

(***************************************************************************)
(* The predicates, and the theory that csdflivelockfree writes.            *)
(***************************************************************************)
(* The ids of the predicates a theory declares.                            *)
Given(mm) == T!ToSet(T!Predicates(mm))

(* A predicate is declared with its id and its text; true is defined as    *)
(* true.                                                                   *)
PredicateSays(mm, i) == [id |-> i, text |-> mm[i].text, known |-> mm[i].text = "true"]

PredicateItems(mm) ==
  {Item("predicate", T!PredicateName(i), PredicateSays(mm, i)) : i \in Given(mm)}

(* Every id of the set is among those that are written, in their order.    *)
LEMMA AllAreInOrder ==
  ASSUME NEW mm, IsFiniteSet(DOMAIN mm), DOMAIN mm \subseteq Nat
  PROVE  DOMAIN mm \subseteq Given(mm)
<1> DEFINE S == DOMAIN mm
           Below(x) == {y \in S : y < x}
           c(x) == Cardinality(Below(x))
           n == Cardinality(S)
           key == [i \in S |-> i]
<1>1. ASSUME NEW x \in S PROVE IsFiniteSet(Below(x)) /\ c(x) \in Nat
  <2>1. IsFiniteSet(Below(x))
    BY FS_Subset
  <2> QED BY <2>1, FS_CardinalityType
<1>2. ASSUME NEW x \in S, NEW z, z = S \/ (\E w \in S : x < w /\ z = Below(w))
      PROVE  c(x) + 1 <= Cardinality(z)
  <2>1. x \notin Below(x) /\ Below(x) \cup {x} \subseteq z
    BY <1>2
  <2>2. IsFiniteSet(z)
    BY <1>1, <1>2
  <2>3. Cardinality(Below(x) \cup {x}) = c(x) + 1
    BY <1>1, <2>1, FS_AddElement
  <2> QED BY <2>1, <2>2, <2>3, FS_Subset
<1>3. ASSUME NEW x \in S, NEW z \in S, c(x) = c(z) PROVE x = z
  <2>1. x \in Nat /\ z \in Nat /\ c(x) \in Nat /\ c(z) \in Nat
    BY <1>1
  <2>2. x < z => c(x) + 1 <= c(z)
    BY <1>2
  <2>3. z < x => c(z) + 1 <= c(x)
    BY <1>2
  <2> HIDE DEF c
  <2>4. ~ (x < z) /\ ~ (z < x)
    BY <1>3, <2>1, <2>2, <2>3
  <2> QED BY <2>1, <2>4
<1>4. n \in Nat
  BY FS_CardinalityType
<1>5. PICK f : f = key
  OBVIOUS
<1> DEFINE r(x) == T!Cardinality({y \in DOMAIN f : f[y] < f[x]})
           N == T!Cardinality(DOMAIN f)
<1>6. T!Predicates(mm) = [k \in 1 .. N |-> CHOOSE x \in DOMAIN f : r(x) = k - 1]
  BY <1>5 DEF T!Predicates, T!InOrderOf
<1>7. DOMAIN f = S /\ N = n /\ \A x \in S : r(x) = c(x)
  <2>1. DOMAIN f = S /\ \A x \in S : f[x] = x
    BY <1>5
  <2>2. \A x \in S : {y \in DOMAIN f : f[y] < f[x]} = Below(x)
    BY <2>1
  <2> QED BY <2>1, <2>2, SameCardinality
<1> HIDE DEF c, n, S, key, N, r
<1>8. ASSUME NEW x \in S PROVE x \in Given(mm)
  <2>1. c(x) \in Nat /\ c(x) + 1 <= n
    BY <1>1, <1>2 DEF n
  <2>2. c(x) + 1 \in 1 .. N /\ (c(x) + 1) - 1 = c(x)
    BY <1>4, <1>7, <2>1
  <2> DEFINE g == [k \in 1 .. N |-> CHOOSE z \in DOMAIN f : r(z) = k - 1]
  <2>3. x \in DOMAIN f /\ r(x) = (c(x) + 1) - 1
    BY <1>7, <2>2
  <2>4. c(x) + 1 \in DOMAIN g /\ g[c(x) + 1] = CHOOSE z \in DOMAIN f : r(z) = (c(x) + 1) - 1
    BY <2>2
  <2>5. g[c(x) + 1] \in DOMAIN f /\ r(g[c(x) + 1]) = (c(x) + 1) - 1
    BY <2>3, <2>4
  <2>6. g[c(x) + 1] = x
    BY <1>3, <1>7, <2>2, <2>5
  <2> HIDE DEF g
  <2>7. T!Predicates(mm) = g
    BY <1>6 DEF g
  <2> QED BY <2>4, <2>6, <2>7 DEF Given, T!ToSet
<1> QED BY <1>8 DEF S

(* Both backends declare each predicate of the IR once.                    *)
LEMMA PredicatesTell ==
  ASSUME NEW mm, IsFiniteSet(DOMAIN mm)
  PROVE  /\ Tells(Isabelle!WritePredicates(mm), PredicateItems(mm))
         /\ Tells(Lean!WritePredicates(mm), PredicateItems(mm))
<1> DEFINE ids == T!Predicates(mm)
           D(i) == T!PredicateDeclaration(ids[i], mm[ids[i]], mm[ids[i]].text = "true")
           It(i) == Item("predicate", T!PredicateName(ids[i]), PredicateSays(mm, ids[i]))
           s == [i \in DOMAIN ids |-> D(i)]
<1>1. Isabelle!WritePredicates(mm) = s /\ Lean!WritePredicates(mm) = s
  BY SamePredicates DEF Isabelle!WritePredicates, Lean!WritePredicates,
    Isabelle!PredicateDeclaration, Lean!PredicateDeclaration, T!PredicateDeclaration,
    Isabelle!Declaration, Lean!Declaration, T!Declaration, Isabelle!Sym, Lean!Sym, T!Sym,
    Isabelle!PredicateName, Lean!PredicateName, T!PredicateName
<1>2. Cardinality(DOMAIN mm) \in Nat /\ DOMAIN ids = 1 .. Cardinality(DOMAIN mm)
  BY FS_CardinalityType, SameCardinality DEF T!Predicates, T!InOrderOf
<1>3. PICK n \in Nat : DOMAIN ids = 1 .. n
  BY <1>2
<1>4. IsList(s)
  <2>1. s = [i \in 1 .. n |-> s[i]]
    BY <1>3
  <2> HIDE DEF s
  <2> QED BY <2>1, FunctionIsList
<1>5. T!ToSet(s) = {D(i) : i \in DOMAIN ids}
  BY DEF T!ToSet
<1>6. \A i : D(i).kind = "predicate" /\ View(D(i)) = It(i) /\ Declares(D(i)) = {D(i).declares[1].name}
  <2> TAKE i
  <2>1. PICK d : d = D(i)
    OBVIOUS
  <2>2. PICK k : d.kind = "predicate" /\ d.declares = << T!Sym(T!PredicateName(ids[i]), k) >>
                 /\ d.says = PredicateSays(mm, ids[i])
    BY <2>1 DEF T!PredicateDeclaration, T!Declaration, PredicateSays
  <2>3. d.kind \in Telling
    BY <2>2 DEF Telling
  <2>4. Tells(<< d >>, {Item(d.kind, T!PredicateName(ids[i]), d.says)})
    BY <2>2, <2>3, TellsOne
  <2>5. T!ToSet(<< d >>) = {d}
    BY OneIsList
  <2>6. Declares(d) = {d.declares[1].name}
    BY <2>3, <2>4, <2>5 DEF Tells, OneEach
  <2>7. View(d) = Item(d.kind, T!PredicateName(ids[i]), d.says)
    BY <2>3, <2>4, <2>5 DEF Tells, Items
  <2> QED BY <2>1, <2>2, <2>6, <2>7
<1>7. PredicateItems(mm) = {It(i) : i \in DOMAIN ids}
  BY DEF PredicateItems, Given, T!ToSet
<1> HIDE DEF s, D, It, ids
<1>8. OneEach(s)
  BY <1>5, <1>6 DEF OneEach
<1>9. Items(s) = {It(i) : i \in DOMAIN ids}
  <2>1. {d \in T!ToSet(s) : d.kind \in Telling} = T!ToSet(s)
    BY <1>5, <1>6 DEF Telling
  <2>2. Items(s) = {View(d) : d \in T!ToSet(s)}
    BY <2>1 DEF Items
  <2> QED BY <1>5, <1>6, <2>2
<1> QED BY <1>1, <1>4, <1>7, <1>8, <1>9 DEF Tells

LEMMA TheoremTells ==
  ASSUME NEW side, NEW n
  PROVE  /\ Tells(<< Isabelle!WriteLivelockTheorem(side, n) >>, {Item("theorem", n, LivelockSays("isabelle", side))})
         /\ Tells(<< Lean!WriteLivelockTheorem(side, n) >>, {Item("theorem", n, LivelockSays("lean", side))})
<1> DEFINE d == Isabelle!WriteLivelockTheorem(side, n)
           e == Lean!WriteLivelockTheorem(side, n)
<1>1. d.kind = "theorem" /\ d.declares = << T!Sym(n, 0) >> /\ d.says = LivelockSays("isabelle", side)
  BY Words DEF Isabelle!WriteLivelockTheorem, Isabelle!Theorem, Isabelle!Declaration, Isabelle!Sym, T!Sym,
     Isabelle!Qualify, T!Qualify, LivelockSays
<1>2. e.kind = "theorem" /\ e.declares = << T!Sym(n, 0) >> /\ e.says = LivelockSays("lean", side)
  BY Words DEF Lean!WriteLivelockTheorem, Lean!Theorem, Lean!Declaration, Lean!Sym, T!Sym,
     Lean!Qualify, T!Qualify, LivelockSays
<1> HIDE DEF d, e
<1>3. d.kind \in Telling /\ e.kind \in Telling
  BY <1>1, <1>2 DEF Telling
<1>4. Tells(<< d >>, {Item(d.kind, n, d.says)}) /\ Tells(<< e >>, {Item(e.kind, n, e.says)})
  BY <1>1, <1>2, <1>3, TellsOne
<1> QED BY <1>1, <1>2, <1>4 DEF d, e

(* What csdflivelockfree writes about a diagram that is not structurally   *)
(* free of livelock.                                                       *)
LivelockItems(target, ir) ==
  PredicateItems(ir.predicates)
    \cup (AliasItems(T!SideSingle, ir.init, ir.edges)
            \cup LayerItems(target, T!SideSingle, ir.init, ir.states, ir.edges))
    \cup {Item("theorem", T!Qualify(T!SideSingle, "livelock_free"), LivelockSays(target, T!SideSingle))}

(* Both backends write it without an error.                                *)
LEMMA LivelockFreeDone ==
  ASSUME NEW ir, IsFiniteSet(DOMAIN ir.states), ir.init.dst \in DOMAIN ir.states,
         IsFiniteSet(DOMAIN ir.predicates), IsList(ir.edges), ~ ir.structurally
  PROVE  /\ Done(Isabelle!WriteLivelockFree(ir), LivelockItems("isabelle", ir))
         /\ Done(Lean!WriteLivelockFree(ir), LivelockItems("lean", ir))
<1> DEFINE side == T!SideSingle
           n == T!Qualify(side, "livelock_free")
           vals == T!HasVars(ir.states)
           P == PredicateItems(ir.predicates)
           X(target) == AliasItems(side, ir.init, ir.edges) \cup LayerItems(target, side, ir.init, ir.states, ir.edges)
           L(target) == {Item("theorem", n, LivelockSays(target, side))}
<1>1. /\ Isabelle!SideSingle = side /\ Lean!SideSingle = side
      /\ Isabelle!Qualify(side, "livelock_free") = n /\ Lean!Qualify(side, "livelock_free") = n
      /\ Isabelle!HasVars(ir.states) = vals /\ Lean!HasVars(ir.states) = vals
  BY SameHasVars DEF Isabelle!SideSingle, Lean!SideSingle, T!SideSingle, Isabelle!Qualify, Lean!Qualify, T!Qualify
<1> HIDE DEF side, n, vals, X, L
<1>2. DOMAIN ir.states # {}
  OBVIOUS
<1> DEFINE a == T!Ok(IF vals THEN Isabelle!ValPrelude ELSE << >>)
           b == Isabelle!WriteStateTypeDeclaration(side, ir.states)
           c == T!Ok(Isabelle!WritePredicates(ir.predicates))
           d == Isabelle!WriteTransitionSystem(side, ir.init, ir.states, ir.edges)
           e == T!Ok(<< Isabelle!WriteLivelockTheorem(side, n) >>)
           u == T!Ok(IF vals THEN Lean!ValPrelude ELSE << >>)
           v == Lean!WriteStateTypeDeclaration(side, ir.states)
           w == T!Ok(Lean!WritePredicates(ir.predicates))
           x == Lean!WriteTransitionSystem(side, ir.init, ir.states, ir.edges)
           y == T!Ok(<< Lean!WriteLivelockTheorem(side, n) >>)
<1>3. Isabelle!WriteLivelockFree(ir) = T!WriteAll(<< a, b, c, d, e >>)
  BY <1>1, SameWriteAll, SameOk DEF Isabelle!WriteLivelockFree
<1>4. Lean!WriteLivelockFree(ir) = T!WriteAll(<< u, v, w, x, y >>)
  BY <1>1, SameWriteAll, SameOk DEF Lean!WriteLivelockFree
<1>5. Done(a, {}) /\ Done(u, {})
  BY ValPreludeTells, DoneOk
<1>6. Done(b, {}) /\ Done(v, {})
  BY <1>2, StateTypeDone
<1>7. Done(c, P) /\ Done(w, P)
  BY PredicatesTell, DoneOk
<1>8. Done(d, X("isabelle")) /\ Done(x, X("lean"))
  BY TransitionSystemDone DEF X
<1>9. Done(e, L("isabelle")) /\ Done(y, L("lean"))
  BY TheoremTells, DoneOk DEF L
<1> HIDE DEF a, b, c, d, e, u, v, w, x, y, P
<1>10. Done(T!WriteAll(<< a, b, c, d, e >>), {} \cup {} \cup P \cup X("isabelle") \cup L("isabelle"))
  BY <1>5, <1>6, <1>7, <1>8, <1>9, DoneFive
<1>11. Done(T!WriteAll(<< u, v, w, x, y >>), {} \cup {} \cup P \cup X("lean") \cup L("lean"))
  BY <1>5, <1>6, <1>7, <1>8, <1>9, DoneFive
<1>12. \A target : LivelockItems(target, ir) = {} \cup {} \cup P \cup X(target) \cup L(target)
  BY DEF LivelockItems, P, X, L, side, n
<1> QED BY <1>3, <1>4, <1>10, <1>11, <1>12

(***************************************************************************)
(* The aliases of the end edges, and the parts that name processes.        *)
(***************************************************************************)
(* What is written for both sides tells what is written for each.          *)
LEMMA BothTell ==
  ASSUME NEW p, NEW q, NEW I, NEW J, Tells(p, I), Tells(q, J),
         NEW s, s = [k \in {1, 2} |-> IF k = 1 THEN p ELSE q]
  PROVE  Tells(T!FlattenSeq(s), I \cup J)
<1>1. PICK n \in Nat : n = 2 /\ 1 .. n = {1, 2}
  OBVIOUS
<1>2. s = << p, q >>
  OBVIOUS
<1>3. Len(s) = n /\ n # 0 /\ s[1] = p /\ s[2] = q
  BY <1>1, <1>2
<1> DEFINE K == << I, J >>
<1>4. K[1] = I /\ K[2] = J
  OBVIOUS
<1> HIDE DEF K
<1>5. \A i \in 1 .. n : Tells(s[i], K[i])
  BY <1>1, <1>3, <1>4
<1>6. Together(K, n) = I \cup J
  BY <1>1, <1>4 DEF Together
<1>7. n = 0 => s = << >>
  BY <1>3
<1>8. Tells(T!FlattenSeq(s), Together(K, n))
  BY <1>3, <1>5, <1>7, TellsFlatten, ZenonT(30)
<1> QED BY <1>6, <1>8

(* The aliases of the end edges.                                           *)
EndItems(side, end) ==
  {AliasItem(T!GuardName(side, end[i].line), end[i].guard) : i \in DOMAIN end}

(* Both backends write two aliases for an end edge.                        *)
LEMMA EndTells ==
  ASSUME NEW side, NEW end, IsList(end)
  PROVE  Tells([i \in DOMAIN end |-> Lean!Alias(Lean!GuardName(side, end[i].line), end[i].guardArgs, end[i].guard)],
               EndItems(side, end))
<1> DEFINE A(i) == Lean!Alias(Lean!GuardName(side, end[i].line), end[i].guardArgs, end[i].guard)
           It(i) == AliasItem(T!GuardName(side, end[i].line), end[i].guard)
           s == [i \in DOMAIN end |-> A(i)]
<1>1. PICK n \in Nat : DOMAIN end = 1 .. n
  BY ListHas
<1>2. IsList(s)
  <2>1. s = [i \in 1 .. n |-> s[i]]
    BY <1>1
  <2> HIDE DEF s
  <2> QED BY <2>1, FunctionIsList
<1>3. T!ToSet(s) = {A(i) : i \in DOMAIN end}
  BY DEF T!ToSet
<1>4. \A i : A(i).kind = "alias" /\ View(A(i)) = It(i) /\ Declares(A(i)) = {A(i).declares[1].name}
  <2> TAKE i
  <2>1. PICK d : d = A(i)
    OBVIOUS
  <2>2. d.kind = "alias"
    BY <2>1 DEF Lean!Alias, Lean!Declaration
  <2>3. Tells(<< d >>, {It(i)})
    BY <2>1, AliasTells DEF Lean!GuardName, T!GuardName
  <2>4. T!ToSet(<< d >>) = {d} /\ d.kind \in Telling
    BY <2>2, OneIsList DEF Telling
  <2> HIDE DEF A, It
  <2>5. Declares(d) = {d.declares[1].name}
    BY <2>3, <2>4 DEF Tells, OneEach
  <2>6. View(d) = It(i)
    BY <2>3, <2>4 DEF Tells, Items
  <2> QED BY <2>1, <2>2, <2>5, <2>6
<1>5. EndItems(side, end) = {It(i) : i \in DOMAIN end}
  BY DEF EndItems
<1> HIDE DEF A, It
<1>6. OneEach(s)
  BY <1>3, <1>4 DEF OneEach
<1>7. Items(s) = {It(i) : i \in DOMAIN end}
  <2> HIDE DEF s
  <2>1. {d \in T!ToSet(s) : d.kind \in Telling} = T!ToSet(s)
    BY <1>3, <1>4 DEF Telling
  <2>2. Items(s) = {View(d) : d \in T!ToSet(s)}
    BY <2>1 DEF Items
  <2> QED BY <1>3, <1>4, <2>2
<1>8. Tells(s, EndItems(side, end))
  <2> HIDE DEF s
  <2> QED BY <1>2, <1>5, <1>6, <1>7 DEF Tells
<1> QED BY <1>8 DEF A

(* The aliases of a side of a refinement.                                  *)
AliasesOf(s) == AliasItems(s.side, s.ir.init, s.ir.edges) \cup EndItems(s.side, s.ir.end)

LEMMA SideAliasesTell ==
  ASSUME NEW s, IsList(s.ir.edges), IsList(s.ir.end)
  PROVE  Tells(Lean!WriteSideAliases(s), AliasesOf(s))
<1> DEFINE a == << Lean!WriteInit(s.side, s.ir.init) >>
           b == Lean!FlattenSeq([i \in DOMAIN s.ir.edges |-> Lean!WriteEdge(s.side, s.ir.edges[i])])
           c == [i \in DOMAIN s.ir.end |->
                   Lean!Alias(Lean!GuardName(s.side, s.ir.end[i].line), s.ir.end[i].guardArgs, s.ir.end[i].guard)]
<1>1. Lean!WriteSideAliases(s) = (a \o b) \o c
  BY DEF Lean!WriteSideAliases
<1>2. Tells(a, {AliasItem(T!Qualify(s.side, "init"), s.ir.init.post)})
  BY InitTells
<1>3. Tells(b, EdgesItems(s.side, s.ir.edges))
  BY EdgesTell
<1>4. Tells(c, EndItems(s.side, s.ir.end))
  BY EndTells
<1> HIDE DEF a, b, c
<1>5. Tells((a \o b) \o c, AliasesOf(s))
  BY <1>2, <1>3, <1>4, TellsJoin DEF AliasesOf, AliasItems
<1> QED BY <1>1, <1>5

LEMMA AliasesTell ==
  ASSUME NEW ir, SideCanBeWritten(ir.sides[1]), SideCanBeWritten(ir.sides[2])
  PROVE  /\ Tells(Isabelle!ForBoth(ir, Isabelle!WriteSideAliases), AliasesOf(Lean!Sides(ir)[1]) \cup AliasesOf(Lean!Sides(ir)[2]))
         /\ Tells(Lean!ForBoth(ir, Lean!WriteSideAliases), AliasesOf(Lean!Sides(ir)[1]) \cup AliasesOf(Lean!Sides(ir)[2]))
<1> DEFINE f == [k \in {1, 2} |-> Lean!WriteSideAliases(Lean!Sides(ir)[k])]
           R == AliasesOf(Lean!Sides(ir)[1]) \cup AliasesOf(Lean!Sides(ir)[2])
<1>1. f = [k \in {1, 2} |-> Isabelle!WriteSideAliases(Isabelle!Sides(ir)[k])]
  BY SameSides, SameSideDeclarations
<1>2. Tells(T!FlattenSeq(f), R)
  <2>1. f = [k \in {1, 2} |-> IF k = 1 THEN Lean!WriteSideAliases(Lean!Sides(ir)[1])
                               ELSE Lean!WriteSideAliases(Lean!Sides(ir)[2])]
    OBVIOUS
  <2>2. /\ Tells(Lean!WriteSideAliases(Lean!Sides(ir)[1]), AliasesOf(Lean!Sides(ir)[1]))
        /\ Tells(Lean!WriteSideAliases(Lean!Sides(ir)[2]), AliasesOf(Lean!Sides(ir)[2]))
    BY SidesHave, SideAliasesTell DEF SideCanBeWritten
  <2> HIDE DEF f
  <2> QED BY <2>1, <2>2, BothTell
<1>3. Isabelle!ForBoth(ir, Isabelle!WriteSideAliases) = Isabelle!FlattenSeq(f)
  <2> HIDE DEF f
  <2> QED BY <1>1 DEF Isabelle!ForBoth
<1>4. Lean!ForBoth(ir, Lean!WriteSideAliases) = Lean!FlattenSeq(f)
  BY DEF Lean!ForBoth
<1> HIDE DEF f
<1> QED BY <1>2, <1>3, <1>4, SameFlatten

LEMMA ProcDefinitionsTell ==
  ASSUME NEW ir
  PROVE  /\ Tells(Isabelle!ForBoth(ir, Isabelle!WriteProcDefinition), {})
         /\ Tells(Lean!ForBoth(ir, Lean!WriteProcDefinition), {})
<1> DEFINE f == [k \in {1, 2} |-> Lean!WriteProcDefinition(Lean!Sides(ir)[k])]
<1>1. f = [k \in {1, 2} |-> Isabelle!WriteProcDefinition(Isabelle!Sides(ir)[k])]
  BY SameSides, SameSideDeclarations
<1>2. Tells(T!FlattenSeq(f), {})
  <2>1. f = [k \in {1, 2} |-> IF k = 1 THEN Lean!WriteProcDefinition(Lean!Sides(ir)[1])
                               ELSE Lean!WriteProcDefinition(Lean!Sides(ir)[2])]
    OBVIOUS
  <2>2. ASSUME NEW s PROVE Tells(Lean!WriteProcDefinition(s), {})
    <3> DEFINE w == Lean!WriteProcDefinition(s)
    <3>0. w = << w[1] >> /\ w[1].kind = "process"
      BY DEF Lean!WriteProcDefinition, Lean!Declaration
    <3> HIDE DEF w
    <3>1. PICK d : w = << d >> /\ d.kind = "process"
      BY <3>0
    <3>2. d.kind \notin Telling
      BY <3>1 DEF Telling
    <3>3. Tells(w, {})
      BY <3>1, <3>2, TellsSilent
    <3> QED BY <3>3 DEF w
  <2> HIDE DEF f
  <2>3. Tells(T!FlattenSeq(f), {} \cup {})
    BY <2>1, <2>2, BothTell
  <2> QED BY <2>3
<1>3. Isabelle!ForBoth(ir, Isabelle!WriteProcDefinition) = Isabelle!FlattenSeq(f)
  <2> HIDE DEF f
  <2> QED BY <1>1 DEF Isabelle!ForBoth
<1>4. Lean!ForBoth(ir, Lean!WriteProcDefinition) = Lean!FlattenSeq(f)
  BY DEF Lean!ForBoth
<1> HIDE DEF f
<1> QED BY <1>2, <1>3, <1>4, SameFlatten

LEMMA EventsTell ==
  ASSUME NEW alphabet, NEW vars_, NEW tau
  PROVE  /\ Tells(Isabelle!WriteEventDatatype(alphabet, vars_, tau), {})
         /\ Tells(Lean!WriteEventDatatype(alphabet, vars_, tau), {})
<1>1. ASSUME NEW a, NEW b, Tells(<< a >>, {}), Tells(<< b >>, {}) PROVE Tells(<< a, b >>, {})
  <2>1. Tells(<< a >> \o << b >>, {} \cup {})
    BY <1>1, TellsJoin
  <2> QED BY <2>1, TwoAreJoined
<1>2. Tells(Isabelle!WriteEventDatatype(alphabet, vars_, tau), {})
  BY <1>1, DatatypeTells DEF Isabelle!WriteEventDatatype
<1>3. Tells(Lean!WriteEventDatatype(alphabet, vars_, tau), {})
  BY <1>1, DatatypeTells DEF Lean!WriteEventDatatype
<1> QED BY <1>2, <1>3

LEMMA ProcessNamesDone ==
  ASSUME NEW ir, SideCanBeWritten(ir.sides[1]), SideCanBeWritten(ir.sides[2]), DOMAIN ir.sides[1].states # {}
  PROVE  /\ Done(Isabelle!WriteProcessNameDatatype(ir), {})
         /\ Done(Lean!WriteProcessNameDatatype(ir), {})
<1> DEFINE f == [k \in {1, 2} |-> Lean!NameCtors(Lean!Sides(ir)[k])]
           p == Lean!NameCtors(Lean!Sides(ir)[1])
           q == Lean!NameCtors(Lean!Sides(ir)[2])
           ctors == T!FlattenSeq(f)
<1>1. f = [k \in {1, 2} |-> Isabelle!NameCtors(Isabelle!Sides(ir)[k])]
  BY SameSides, SameSideDeclarations
<1>2. f = << p, q >>
  OBVIOUS
<1>3. IsList(p) /\ IsList(q)
  BY SidesHave, NameCtorsAreList DEF SideCanBeWritten
<1>4. T!ToSet(p) # {}
  <2>1. DOMAIN p = DOMAIN T!SortIRStates(ir.sides[1].states)
    BY SameSort, SidesHave DEF Lean!NameCtors
  <2>2. Cardinality(DOMAIN ir.sides[1].states) \in Nat /\ Cardinality(DOMAIN ir.sides[1].states) # 0
    BY FS_CardinalityType, FS_EmptySet DEF SideCanBeWritten
  <2>3. DOMAIN T!SortIRStates(ir.sides[1].states) = 1 .. Cardinality(DOMAIN ir.sides[1].states)
    BY SameCardinality DEF T!SortIRStates, T!InOrderOf
  <2>4. 1 \in DOMAIN p
    BY <2>1, <2>2, <2>3
  <2> HIDE DEF p
  <2> QED BY <2>4 DEF T!ToSet
<1>5. ctors # << >>
  <2> HIDE DEF p, q, f
  <2>1. PICK n \in Nat : n = 2 /\ 1 .. n = {1, 2}
    OBVIOUS
  <2>2. ListOfLists(f, n)
    BY <1>2, <1>3, <2>1 DEF ListOfLists
  <2>3. T!ToSet(ctors) = UNION {T!ToSet(f[i]) : i \in 1 .. n}
    BY <2>2, FlattenIsList
  <2>4. f[1] = p
    BY <1>2
  <2> HIDE DEF ctors
  <2>5. T!ToSet(ctors) # {}
    BY <1>4, <2>1, <2>3, <2>4
  <2> QED BY <2>5, EmptyIsList
<1>6. Isabelle!FlattenSeq([k \in {1, 2} |-> Isabelle!NameCtors(Isabelle!Sides(ir)[k])]) = ctors
      /\ Lean!FlattenSeq([k \in {1, 2} |-> Lean!NameCtors(Lean!Sides(ir)[k])]) = ctors
  <2>1. f = [k \in {1, 2} |-> Lean!NameCtors(Lean!Sides(ir)[k])]
    OBVIOUS
  <2> HIDE DEF f
  <2> QED BY <1>1, <2>1, SameFlatten
<1> HIDE DEF ctors, f, p, q
<1>7. PICK u : Isabelle!WriteProcessNameDatatype(ir) =
        IF ctors = << >> THEN Isabelle!Written(<< >>, "panic")
        ELSE Isabelle!Ok(<< Isabelle!Datatype(<<"word", "PN", "">>, ctors, u) >>)
  BY <1>6 DEF Isabelle!WriteProcessNameDatatype, Isabelle!ForBoth
<1>8. PICK v : Lean!WriteProcessNameDatatype(ir) =
        IF ctors = << >> THEN Lean!Written(<< >>, "error")
        ELSE Lean!Ok(<< Lean!Datatype(<<"word", "PN", "">>, ctors, v) >>)
  BY <1>6 DEF Lean!WriteProcessNameDatatype, Lean!ForBoth
<1>9. /\ Tells(<< Isabelle!Datatype(<<"word", "PN", "">>, ctors, u) >>, {})
      /\ Tells(<< Lean!Datatype(<<"word", "PN", "">>, ctors, v) >>, {})
  BY DatatypeTells
<1> QED BY <1>5, <1>7, <1>8, <1>9, SameOk, DoneOk

(***************************************************************************)
(* The theory that csdfrefinement writes.                                  *)
(***************************************************************************)
(* The start of a side: the predicate init of the fields of the start      *)
(* state.                                                                  *)
StartTerm(side, init, states) ==
  T!Term(T!Qualify(side, "init"), T!FieldVars(T!FieldsIn(states, init.dst), FALSE))

(* The layer of a side, which is written if its livelock is owed.          *)
LayerOf(target, s) ==
  IF s.ir.free = << FALSE >>
  THEN LayerItems(target, s.in, s.ir.init, s.ir.states, s.ir.edges)
         \cup {Item("theorem", T!Qualify(s.side, "livelock_free"), LivelockSays(target, s.in))}
  ELSE {}

(* What the theorem of a side's start claims: the start can be taken.      *)
StartSays(s) == [claims |-> "satisfiable", of |-> StartTerm(s.side, s.ir.init, s.ir.states)]

StartOf(s) ==
  IF s.ir.free = << >> THEN {}
  ELSE {Item("theorem", T!Qualify(s.side, "initialisable"), StartSays(s))}

LEMMA LayerDone ==
  ASSUME NEW s, SideCanBeWritten(s.ir), s.ir.init.dst \in DOMAIN s.ir.states
  PROVE  /\ Done(Isabelle!WriteLivelockLayer(s), LayerOf("isabelle", s))
         /\ Done(Lean!WriteLivelockLayer(s), LayerOf("lean", s))
<1>1. CASE s.ir.free # << FALSE >>
  <2>1. Isabelle!WriteLivelockLayer(s) = T!Ok(<< >>) /\ Lean!WriteLivelockLayer(s) = T!Ok(<< >>)
    BY <1>1, SameOk DEF Isabelle!WriteLivelockLayer, Lean!WriteLivelockLayer, Isabelle!NeedsLivelockObligation,
       Lean!NeedsLivelockObligation
  <2>2. LayerOf("isabelle", s) = {} /\ LayerOf("lean", s) = {}
    BY <1>1 DEF LayerOf
  <2> QED BY <2>1, <2>2, TellsNothing, DoneOk
<1>2. CASE s.ir.free = << FALSE >>
  <2> DEFINE n == T!Qualify(s.side, "livelock_free")
  <2>1. n = Isabelle!Qualify(s.side, "livelock_free") /\ n = Lean!Qualify(s.side, "livelock_free")
    BY DEF Isabelle!Qualify, Lean!Qualify, T!Qualify
  <2> HIDE DEF n
  <2> DEFINE a == Isabelle!WriteStateTypeDeclaration(s.in, s.ir.states)
             b == Isabelle!WriteRelations(s.in, s.ir.init, s.ir.states, s.ir.edges)
             c == T!Ok(<< Isabelle!WriteLivelockTheorem(s.in, n) >>)
             u == Lean!WriteStateTypeDeclaration(s.in, s.ir.states)
             v == Lean!WriteRelations(s.in, s.ir.init, s.ir.states, s.ir.edges)
             w == T!Ok(<< Lean!WriteLivelockTheorem(s.in, n) >>)
             B(target) == LayerItems(target, s.in, s.ir.init, s.ir.states, s.ir.edges)
             C(target) == {Item("theorem", n, LivelockSays(target, s.in))}
  <2>2. Isabelle!WriteLivelockLayer(s) = T!WriteAll(<< a, b, c >>)
    BY <1>2, <2>1, SameWriteAll, SameOk DEF Isabelle!WriteLivelockLayer, Isabelle!NeedsLivelockObligation
  <2>3. Lean!WriteLivelockLayer(s) = T!WriteAll(<< u, v, w >>)
    BY <1>2, <2>1, SameWriteAll, SameOk DEF Lean!WriteLivelockLayer, Lean!NeedsLivelockObligation
  <2>4. Done(a, {}) /\ Done(u, {})
    BY StateTypeDone DEF SideCanBeWritten
  <2>5. Done(b, B("isabelle")) /\ Done(v, B("lean"))
    BY RelationsDone
  <2>6. Done(c, C("isabelle")) /\ Done(w, C("lean"))
    BY TheoremTells, DoneOk
  <2>7. \A target : LayerOf(target, s) = {} \cup B(target) \cup C(target)
    BY <1>2 DEF LayerOf, n
  <2> HIDE DEF a, b, c, u, v, w, B, C
  <2> QED BY <2>2, <2>3, <2>4, <2>5, <2>6, <2>7, DoneThree
<1> QED BY <1>1, <1>2

LEMMA StartTells ==
  ASSUME NEW s
  PROVE  /\ Tells(Isabelle!WriteInitialisableTheorem(s), StartOf(s))
         /\ Tells(Lean!WriteInitialisableTheorem(s), StartOf(s))
<1>1. CASE s.ir.free = << >>
  BY <1>1, SameSideDeclarations, TellsNothing DEF Lean!WriteInitialisableTheorem, StartOf
<1>2. CASE s.ir.free # << >>
  <2> DEFINE n == T!Qualify(s.side, "initialisable")
             x == Lean!FieldVars(Lean!FieldsIn(s.ir.states, s.ir.init.dst), FALSE)
             init == Lean!Term(Lean!Qualify(s.side, "init"), x)
             d == Lean!Theorem(Lean!Qualify(s.side, "initialisable"), {Lean!SymOf(init)}, {},
                      [claims |-> "satisfiable", of |-> init])
  <2>1. Lean!WriteInitialisableTheorem(s) = << d >>
    BY <1>2 DEF Lean!WriteInitialisableTheorem
  <2>2. init = StartTerm(s.side, s.ir.init, s.ir.states)
    BY SameFieldVars, SameFields DEF StartTerm, Lean!Term, T!Term, Lean!Qualify, T!Qualify
  <2>3. d.kind = "theorem" /\ d.declares = << T!Sym(n, 0) >> /\ d.says = StartSays(s)
    <3> HIDE DEF init
    <3> QED BY <2>2 DEF Lean!Theorem, Lean!Declaration, Lean!Sym, T!Sym, Lean!Qualify, T!Qualify, StartSays
  <2> HIDE DEF d
  <2>4. d.kind \in Telling
    BY <2>3 DEF Telling
  <2>5. Tells(<< d >>, {Item(d.kind, n, d.says)})
    BY <2>3, <2>4, TellsOne
  <2>6. Tells(<< d >>, StartOf(s))
    BY <1>2, <2>3, <2>5 DEF StartOf
  <2> QED BY <2>1, <2>6, SameSideDeclarations
<1> QED BY <1>1, <1>2

RefinementName(mode) == <<"word", IF mode = "trace" THEN "refines_t" ELSE "refines_f", "">>

RefinementSays(target, mode) ==
  IF target = "isabelle" THEN Isabelle!WriteRefinementTheorem(mode).says ELSE Lean!WriteRefinementTheorem(mode).says

(* The theorem that states the refinement.                                 *)
RefinementTold(target, mode) == {Item("theorem", RefinementName(mode), RefinementSays(target, mode))}

LEMMA RefinementTells ==
  ASSUME NEW mode
  PROVE  /\ Tells(<< Isabelle!WriteRefinementTheorem(mode) >>, RefinementTold("isabelle", mode))
         /\ Tells(<< Lean!WriteRefinementTheorem(mode) >>, RefinementTold("lean", mode))
<1> DEFINE d == Isabelle!WriteRefinementTheorem(mode)
           e == Lean!WriteRefinementTheorem(mode)
           n == RefinementName(mode)
<1>1. d.kind = "theorem" /\ d.declares = << T!Sym(n, 0) >>
  BY DEF Isabelle!WriteRefinementTheorem, Isabelle!Theorem, Isabelle!Declaration, Isabelle!Sym, T!Sym, RefinementName
<1>2. e.kind = "theorem" /\ e.declares = << T!Sym(n, 0) >>
  BY DEF Lean!WriteRefinementTheorem, Lean!Theorem, Lean!Declaration, Lean!Sym, T!Sym, RefinementName
<1>3. RefinementTold("isabelle", mode) = {Item("theorem", n, d.says)}
      /\ RefinementTold("lean", mode) = {Item("theorem", n, e.says)}
  BY DEF RefinementTold, RefinementSays
<1> HIDE DEF d, e, n
<1>4. d.kind \in Telling /\ e.kind \in Telling
  BY <1>1, <1>2 DEF Telling
<1>5. Tells(<< d >>, {Item(d.kind, n, d.says)}) /\ Tells(<< e >>, {Item(e.kind, n, e.says)})
  BY <1>1, <1>2, <1>4, TellsOne
<1> QED BY <1>1, <1>2, <1>3, <1>5 DEF d, e

LEMMA ImportTells ==
  ASSUME NEW mode
  PROVE  Tells(<< Isabelle!RefinementImport(mode) >>, {}) /\ Tells(<< Lean!RefinementImport(mode) >>, {})
<1>1. Isabelle!RefinementImport(mode).kind = "import" /\ Lean!RefinementImport(mode).kind = "import"
  BY DEF Isabelle!RefinementImport, Lean!RefinementImport, Isabelle!Declaration, Lean!Declaration
<1>2. "import" \notin Telling
  BY DEF Telling
<1> QED BY <1>1, <1>2, TellsSilent

LEMMA ProcFunTells ==
  ASSUME NEW ir
  PROVE  Tells(<< Isabelle!WriteProcFun(ir) >>, {}) /\ Tells(<< Lean!WriteProcFun(ir) >>, {})
<1>1. Isabelle!WriteProcFun(ir).kind = "processes"
  BY DEF Isabelle!WriteProcFun, Isabelle!Declaration
<1>2. "processes" \notin Telling
  BY DEF Telling
<1>3. Lean!WriteProcFun(ir).kind = "processes"
  BY <1>1, SameProcFun
<1> QED BY <1>1, <1>2, <1>3, TellsSilent

(* What csdfrefinement writes.                                             *)
RefinementItems(target, ir) ==
  LET S(k) == Lean!Sides(ir)[k]
  IN  PredicateItems(ir.predicates) \cup (AliasesOf(S(1)) \cup AliasesOf(S(2)))
        \cup LayerOf(target, S(1)) \cup StartOf(S(1)) \cup LayerOf(target, S(2)) \cup StartOf(S(2))
        \cup RefinementTold(target, ir.mode)

(* The start state is among the states (checked by the backends).          *)
Starts(side) == side.init.dst \in DOMAIN side.states

(* Both backends write the theory of a refinement without an error if the  *)
(* sides start in a state.                                                 *)
LEMMA RefinementDone ==
  ASSUME NEW ir, SideCanBeWritten(ir.sides[1]), SideCanBeWritten(ir.sides[2]),
         Starts(ir.sides[1]), Starts(ir.sides[2]), IsFiniteSet(DOMAIN ir.predicates)
  PROVE  /\ Done(Isabelle!WriteRefinement(ir), RefinementItems("isabelle", ir))
         /\ Done(Lean!WriteRefinement(ir), RefinementItems("lean", ir))
<1> DEFINE S(k) == Lean!Sides(ir)[k]
           A == AliasesOf(S(1)) \cup AliasesOf(S(2))
           P == PredicateItems(ir.predicates)
           I(target) == [i \in 1 .. 13 |->
             CASE i = 4  -> P
               [] i = 5  -> A
               [] i = 9  -> LayerOf(target, S(1))
               [] i = 10 -> StartOf(S(1))
               [] i = 11 -> LayerOf(target, S(2))
               [] i = 12 -> StartOf(S(2))
               [] i = 13 -> RefinementTold(target, ir.mode)
               [] OTHER  -> {}]
           a == [i \in 1 .. 13 |->
             CASE i = 1  -> T!Ok(<< Isabelle!RefinementImport(ir.mode) >>)
               [] i = 2  -> T!Ok(IF S(1).vars THEN Isabelle!ValPrelude ELSE << >>)
               [] i = 3  -> T!Ok(Isabelle!WriteEventDatatype(ir.alphabet, S(1).vars, S(1).tau))
               [] i = 4  -> T!Ok(Isabelle!WritePredicates(ir.predicates))
               [] i = 5  -> T!Ok(Isabelle!ForBoth(ir, Isabelle!WriteSideAliases))
               [] i = 6  -> Isabelle!WriteProcessNameDatatype(ir)
               [] i = 7  -> T!Ok(<< Isabelle!WriteProcFun(ir) >>)
               [] i = 8  -> T!Ok(Isabelle!ForBoth(ir, Isabelle!WriteProcDefinition))
               [] i = 9  -> Isabelle!WriteLivelockLayer(S(1))
               [] i = 10 -> T!Ok(Isabelle!WriteInitialisableTheorem(S(1)))
               [] i = 11 -> Isabelle!WriteLivelockLayer(S(2))
               [] i = 12 -> T!Ok(Isabelle!WriteInitialisableTheorem(S(2)))
               [] i = 13 -> T!Ok(<< Isabelle!WriteRefinementTheorem(ir.mode) >>)]
           b == [i \in 1 .. 13 |->
             CASE i = 1  -> T!Ok(<< Lean!RefinementImport(ir.mode) >>)
               [] i = 2  -> T!Ok(IF S(1).vars THEN Lean!ValPrelude ELSE << >>)
               [] i = 3  -> T!Ok(Lean!WriteEventDatatype(ir.alphabet, S(1).vars, S(1).tau))
               [] i = 4  -> T!Ok(Lean!WritePredicates(ir.predicates))
               [] i = 5  -> T!Ok(Lean!ForBoth(ir, Lean!WriteSideAliases))
               [] i = 6  -> Lean!WriteProcessNameDatatype(ir)
               [] i = 7  -> T!Ok(<< Lean!WriteProcFun(ir) >>)
               [] i = 8  -> T!Ok(Lean!ForBoth(ir, Lean!WriteProcDefinition))
               [] i = 9  -> Lean!WriteLivelockLayer(S(1))
               [] i = 10 -> T!Ok(Lean!WriteInitialisableTheorem(S(1)))
               [] i = 11 -> Lean!WriteLivelockLayer(S(2))
               [] i = 12 -> T!Ok(Lean!WriteInitialisableTheorem(S(2)))
               [] i = 13 -> T!Ok(<< Lean!WriteRefinementTheorem(ir.mode) >>)]
<1>1. Isabelle!Sides(ir)[1] = S(1) /\ Isabelle!Sides(ir)[2] = S(2) /\ S(1).ir = ir.sides[1] /\ S(2).ir = ir.sides[2]
  BY SameSides, SidesHave
<1> HIDE DEF S
<1>2. Isabelle!WriteRefinement(ir) = T!WriteAll(Parts(a))
  <2>1. Isabelle!WriteRefinement(ir) = Isabelle!WriteAll(Parts(a))
    BY <1>1, SameOk DEF Isabelle!WriteRefinement, Parts
  <2> HIDE DEF a
  <2> QED BY <2>1, SameWriteAll
<1>3. Lean!WriteRefinement(ir) = T!WriteAll(Parts(b))
  <2>1. Lean!WriteRefinement(ir) = Lean!WriteAll(Parts(b))
    BY SameOk DEF Lean!WriteRefinement, Parts, S
  <2> HIDE DEF b
  <2> QED BY <2>1, SameWriteAll
<1> DEFINE both(i) == Done(a[i], I("isabelle")[i]) /\ Done(b[i], I("lean")[i])
<1>4. both(1)
  <2>1. Done(T!Ok(<< Isabelle!RefinementImport(ir.mode) >>), {}) /\ Done(T!Ok(<< Lean!RefinementImport(ir.mode) >>), {})
    BY ImportTells, DoneOk
  <2> QED BY <2>1
<1>5. both(2)
  <2>1. /\ Done(T!Ok(IF S(1).vars THEN Isabelle!ValPrelude ELSE << >>), {})
        /\ Done(T!Ok(IF S(1).vars THEN Lean!ValPrelude ELSE << >>), {})
    BY ValPreludeTells, DoneOk
  <2> QED BY <2>1
<1>6. both(3)
  <2>1. /\ Done(T!Ok(Isabelle!WriteEventDatatype(ir.alphabet, S(1).vars, S(1).tau)), {})
        /\ Done(T!Ok(Lean!WriteEventDatatype(ir.alphabet, S(1).vars, S(1).tau)), {})
    BY EventsTell, DoneOk
  <2> QED BY <2>1
<1>7. both(4)
  <2>1. /\ Done(T!Ok(Isabelle!WritePredicates(ir.predicates)), P)
        /\ Done(T!Ok(Lean!WritePredicates(ir.predicates)), P)
    BY PredicatesTell, DoneOk
  <2> HIDE DEF P
  <2> QED BY <2>1
<1>8. both(5)
  <2>1. /\ Done(T!Ok(Isabelle!ForBoth(ir, Isabelle!WriteSideAliases)), A)
        /\ Done(T!Ok(Lean!ForBoth(ir, Lean!WriteSideAliases)), A)
    BY AliasesTell, DoneOk DEF S
  <2> HIDE DEF A
  <2> QED BY <2>1
<1>9. both(6)
  <2>1. Done(Isabelle!WriteProcessNameDatatype(ir), {}) /\ Done(Lean!WriteProcessNameDatatype(ir), {})
    <3>1. DOMAIN ir.sides[1].states # {}
      BY DEF Starts
    <3> QED BY <3>1, ProcessNamesDone
  <2> QED BY <2>1
<1>10. both(7)
  <2>1. Done(T!Ok(<< Isabelle!WriteProcFun(ir) >>), {}) /\ Done(T!Ok(<< Lean!WriteProcFun(ir) >>), {})
    BY ProcFunTells, DoneOk
  <2> QED BY <2>1
<1>11. both(8)
  <2>1. /\ Done(T!Ok(Isabelle!ForBoth(ir, Isabelle!WriteProcDefinition)), {})
        /\ Done(T!Ok(Lean!ForBoth(ir, Lean!WriteProcDefinition)), {})
    BY ProcDefinitionsTell, DoneOk
  <2> QED BY <2>1
<1>12. both(9)
  <2>1. Done(Isabelle!WriteLivelockLayer(S(1)), LayerOf("isabelle", S(1)))
        /\ Done(Lean!WriteLivelockLayer(S(1)), LayerOf("lean", S(1)))
    BY <1>1, LayerDone DEF Starts
  <2> QED BY <2>1
<1>13. both(10)
  <2>1. /\ Done(T!Ok(Isabelle!WriteInitialisableTheorem(S(1))), StartOf(S(1)))
        /\ Done(T!Ok(Lean!WriteInitialisableTheorem(S(1))), StartOf(S(1)))
    BY StartTells, DoneOk
  <2> QED BY <2>1
<1>14. both(11)
  <2>1. Done(Isabelle!WriteLivelockLayer(S(2)), LayerOf("isabelle", S(2)))
        /\ Done(Lean!WriteLivelockLayer(S(2)), LayerOf("lean", S(2)))
    BY <1>1, LayerDone DEF Starts
  <2> QED BY <2>1
<1>15. both(12)
  <2>1. /\ Done(T!Ok(Isabelle!WriteInitialisableTheorem(S(2))), StartOf(S(2)))
        /\ Done(T!Ok(Lean!WriteInitialisableTheorem(S(2))), StartOf(S(2)))
    BY StartTells, DoneOk
  <2> QED BY <2>1
<1>16. both(13)
  <2>1. /\ Done(T!Ok(<< Isabelle!WriteRefinementTheorem(ir.mode) >>), RefinementTold("isabelle", ir.mode))
        /\ Done(T!Ok(<< Lean!WriteRefinementTheorem(ir.mode) >>), RefinementTold("lean", ir.mode))
    BY RefinementTells, DoneOk
  <2> QED BY <2>1
<1>17. \A target : Together(I(target), 13) = RefinementItems(target, ir)
  <2> TAKE target
  <2> DEFINE J == I(target)
  <2>1. 1 .. 13 = {1, 2, 3, 4, 5, 6, 7, 8, 9, 10, 11, 12, 13}
    OBVIOUS
  <2>2. /\ J[1] = {} /\ J[2] = {} /\ J[3] = {} /\ J[4] = P /\ J[5] = A /\ J[6] = {} /\ J[7] = {} /\ J[8] = {}
        /\ J[9] = LayerOf(target, S(1)) /\ J[10] = StartOf(S(1)) /\ J[11] = LayerOf(target, S(2))
        /\ J[12] = StartOf(S(2)) /\ J[13] = RefinementTold(target, ir.mode)
    <3> HIDE DEF P, A
    <3> QED OBVIOUS
  <2>3. RefinementItems(target, ir) = P \cup A \cup LayerOf(target, S(1)) \cup StartOf(S(1))
          \cup LayerOf(target, S(2)) \cup StartOf(S(2)) \cup RefinementTold(target, ir.mode)
    BY DEF RefinementItems, S
  <2> HIDE DEF J, P, A
  <2>4. Together(J, 13) = J[1] \cup J[2] \cup J[3] \cup J[4] \cup J[5] \cup J[6] \cup J[7] \cup J[8] \cup J[9]
          \cup J[10] \cup J[11] \cup J[12] \cup J[13]
    BY <2>1 DEF Together
  <2>5. Together(J, 13) = RefinementItems(target, ir)
    BY <2>2, <2>3, <2>4
  <2> QED BY <2>5 DEF J
<1> HIDE DEF a, b, I
<1>18. ASSUME NEW i \in 1 .. 13 PROVE both(i)
  <2>1. i \in {1, 2, 3, 4, 5, 6, 7, 8, 9, 10, 11, 12, 13}
    OBVIOUS
  <2> HIDE DEF both
  <2> QED BY <2>1, <1>4, <1>5, <1>6, <1>7, <1>8, <1>9, <1>10, <1>11, <1>12, <1>13, <1>14, <1>15, <1>16
<1>19. Done(T!WriteAll(Parts(a)), Together(I("isabelle"), 13)) /\ Done(T!WriteAll(Parts(b)), Together(I("lean"), 13))
  BY <1>18, DoneThirteen
<1> QED BY <1>2, <1>3, <1>17, <1>19

(***************************************************************************)
(* The IR's sides are the diagrams: every place keeps the id of its text.  *)
(***************************************************************************)
(* The predicates of a diagram by what they belong to.                     *)
PredicatesInPlace(d, p) ==
  /\ IsList(p) /\ 1 \in 1 .. Len(p) /\ p[1].text = d.start.post
  /\ \A i \in DOMAIN d.edges :
       /\ 2 * i \in 1 .. Len(p) /\ p[2 * i].text = d.edges[i].guard
       /\ 2 * i + 1 \in 1 .. Len(p) /\ p[2 * i + 1].text = d.edges[i].post

(* The predicates of a diagram in the order FromCSDF hands them to the     *)
(* adder: the start's, two for each edge, two for each end edge.           *)
LEMMA SidePredicatesAre ==
  ASSUME NEW d, IsDiagram(d)
  PROVE  PredicatesInPlace(d, SidePredicates(d))
<1> DEFINE a == << InitPredicate(d) >>
           b == EdgePredicates(d)
           c == [i \in DOMAIN d.end |-> EndPredicate(d, d.end[i])]
           p == SidePredicates(d)
<1>1. PICK n \in Nat : DOMAIN d.edges = 1 .. n /\ Len(d.edges) = n
  BY ListHas DEF IsDiagram
<1>2. IsList(a) /\ Len(a) = 1 /\ a[1].text = d.start.post
  BY OneIsList DEF InitPredicate, Predicate
<1>3. /\ 2 * n \in Nat /\ b = [i \in 1 .. 2 * n |-> b[i]]
      /\ \A i \in 1 .. n : b[2 * i - 1].text = d.edges[i].guard /\ b[2 * i].text = d.edges[i].post
  <2> DEFINE B(j) == IF j % 2 = 1 THEN GuardPredicate(d, d.edges[(j + 1) \div 2])
                                 ELSE PostPredicate(d, d.edges[j \div 2])
  <2>1. b = [j \in 1 .. 2 * n |-> B(j)]
    BY <1>1 DEF EdgePredicates
  <2>2. ASSUME NEW i \in 1 .. n
        PROVE  /\ 2 * i - 1 \in 1 .. 2 * n /\ (2 * i - 1) % 2 = 1 /\ ((2 * i - 1) + 1) \div 2 = i
               /\ 2 * i \in 1 .. 2 * n /\ (2 * i) % 2 # 1 /\ (2 * i) \div 2 = i
    BY <1>1
  <2>3. \A e : GuardPredicate(d, e).text = e.guard /\ PostPredicate(d, e).text = e.post
    BY DEF GuardPredicate, PostPredicate, Predicate
  <2>4. ASSUME NEW i \in 1 .. n PROVE b[2 * i - 1].text = d.edges[i].guard /\ b[2 * i].text = d.edges[i].post
    <3>0. B(2 * i - 1) = GuardPredicate(d, d.edges[i]) /\ B(2 * i) = PostPredicate(d, d.edges[i])
      BY <2>2
    <3> HIDE DEF B, b
    <3>1. b[2 * i - 1] = GuardPredicate(d, d.edges[i])
      BY <2>2, <2>1, <3>0
    <3>2. b[2 * i] = PostPredicate(d, d.edges[i])
      BY <2>2, <2>1, <3>0
    <3> QED BY <2>3, <3>1, <3>2
  <2> HIDE DEF B, b
  <2>5. b = [i \in 1 .. 2 * n |-> b[i]]
    BY <2>1
  <2> QED BY <1>1, <2>4, <2>5
<1>4. IsList(c)
  <2>1. DOMAIN c = DOMAIN d.end /\ c = [i \in DOMAIN c |-> c[i]] /\ IsList(d.end)
    BY DEF IsDiagram
  <2> HIDE DEF c
  <2> QED BY <2>1, MapIsList
<1>5. p = (a \o b) \o c
  BY DEF SidePredicates
<1> HIDE DEF a, b, c, p
<1>6. IsList(b) /\ Len(b) = 2 * n
  <2>1. IsList(b)
    BY <1>3, FunctionIsList
  <2> QED BY <1>3, <2>1
<1>7. PICK ab : /\ ab = a \o b /\ IsList(ab) /\ Len(ab) = 1 + 2 * n
                /\ ab[1] = a[1] /\ \A j \in 1 .. 2 * n : ab[1 + j] = b[j]
  <2>1. /\ IsList(a \o b) /\ Len(a \o b) = Len(a) + Len(b)
        /\ \A i \in 1 .. Len(a) : (a \o b)[i] = a[i]
        /\ \A i \in 1 .. Len(b) : (a \o b)[Len(a) + i] = b[i]
    <3>1. IsList(a) /\ IsList(b)
      BY <1>2, <1>6
    <3> QED BY <3>1, ListJoin
  <2>2. 1 \in 1 .. 1
    OBVIOUS
  <2> QED BY <1>2, <1>6, <2>1, <2>2
<1>8. /\ IsList(p) /\ Len(p) = Len(ab) + Len(c) /\ \A j \in 1 .. Len(ab) : p[j] = ab[j]
  BY <1>4, <1>5, <1>7, ListJoin, SMTT(20)
<1>9. Len(c) \in Nat
  BY <1>4, ListHas
<1>10. 1 \in 1 .. Len(p) /\ p[1].text = d.start.post
  BY <1>1, <1>2, <1>7, <1>8, <1>9
<1>11. ASSUME NEW i \in 1 .. n
       PROVE  /\ 2 * i \in 1 .. Len(p) /\ p[2 * i].text = d.edges[i].guard
              /\ 2 * i + 1 \in 1 .. Len(p) /\ p[2 * i + 1].text = d.edges[i].post
  <2>1. /\ 2 * i - 1 \in 1 .. 2 * n /\ 1 + (2 * i - 1) = 2 * i /\ 2 * i \in 1 .. 2 * n /\ 1 + 2 * i = 2 * i + 1
        /\ 2 * i \in 1 .. Len(ab) /\ 2 * i + 1 \in 1 .. Len(ab)
    BY <1>1, <1>7
  <2>2. ab[2 * i] = b[2 * i - 1] /\ ab[2 * i + 1] = b[2 * i]
    BY <1>7, <2>1
  <2>3. 2 * i \in 1 .. Len(p) /\ 2 * i + 1 \in 1 .. Len(p)
    BY <1>1, <1>7, <1>8, <1>9, <2>1
  <2> QED BY <1>3, <1>8, <2>1, <2>2, <2>3
<1>12. PredicatesInPlace(d, p)
  BY <1>1, <1>8, <1>10, <1>11 DEF PredicatesInPlace
<1> QED BY <1>12 DEF p

JobIs(k) ==
  /\ job \in Jobs /\ k \in DOMAIN job.diagrams

(* What a job's k-th diagram is.                                           *)
LEMMA JobHas ==
  ASSUME NEW k, JobIs(k)
  PROVE  /\ IsDiagram(job.diagrams[k])
         /\ \A i \in DOMAIN job.diagrams : IsDiagram(job.diagrams[i])
         /\ \/ k = 1 /\ Len(job.diagrams) = 1
            \/ Len(job.diagrams) = 2 /\ DOMAIN job.diagrams = {1, 2} /\ (k = 1 \/ k = 2)
<1>1. /\ IsList(job.diagrams) /\ \A i \in DOMAIN job.diagrams : IsDiagram(job.diagrams[i])
      /\ Len(job.diagrams) = 1 \/ Len(job.diagrams) = 2
  BY JobsAssumption DEF JobIs
<1>2. DOMAIN job.diagrams = 1 .. Len(job.diagrams)
  BY <1>1, ListHas
<1> QED BY <1>1, <1>2 DEF JobIs

(* Where the predicate of a diagram's place comes in the list of both.     *)
LEMMA OccurrenceOf ==
  ASSUME NEW k, JobIs(k), NEW j \in 1 .. Len(SidePredicates(job.diagrams[k]))
  PROVE  /\ Len(Occurrences) \in Nat /\ Offset(k) + j \in 1 .. Len(Occurrences)
         /\ Occurrences[Offset(k) + j] = SidePredicates(job.diagrams[k])[j]
<1> DEFINE p == SidePredicates(job.diagrams[1])
           q == SidePredicates(job.diagrams[2])
<1>1. CASE k = 1 /\ Len(job.diagrams) = 1
  <2>1. Occurrences = p /\ Offset(k) = 0
    BY <1>1 DEF Occurrences, OccurrencesOf, Offset
  <2>2. IsList(p)
    BY <1>1, JobHas, SidePredicatesAre DEF PredicatesInPlace
  <2> HIDE DEF p
  <2>3. Len(p) \in Nat
    BY <2>2, ListHas
  <2> QED BY <1>1, <2>1, <2>3 DEF p
<1>2. CASE Len(job.diagrams) = 2 /\ DOMAIN job.diagrams = {1, 2} /\ (k = 1 \/ k = 2)
  <2>1. IsList(p) /\ IsList(q)
    BY <1>2, JobHas, SidePredicatesAre DEF PredicatesInPlace
  <2>2. Occurrences = p \o q /\ Offset(1) = 0 /\ Offset(2) = Len(p)
    BY <1>2 DEF Occurrences, OccurrencesOf, Offset
  <2>3. k = 1 => j \in 1 .. Len(p)
    OBVIOUS
  <2>4. k = 2 => j \in 1 .. Len(q)
    OBVIOUS
  <2>5. (k = 1 => SidePredicates(job.diagrams[k]) = p) /\ (k = 2 => SidePredicates(job.diagrams[k]) = q)
    OBVIOUS
  <2> HIDE DEF p, q
  <2>6. Len(p) \in Nat /\ Len(q) \in Nat
    BY <2>1, ListHas
  <2>7. /\ Len(p \o q) = Len(p) + Len(q)
        /\ \A i \in 1 .. Len(p) : (p \o q)[i] = p[i]
        /\ \A i \in 1 .. Len(q) : (p \o q)[Len(p) + i] = q[i]
    BY <2>1, ListJoin
  <2>8. CASE k = 1
    <3>1. Offset(k) + j = j /\ Len(Occurrences) \in Nat
      BY <2>2, <2>3, <2>6, <2>7, <2>8
    <3> QED BY <2>2, <2>3, <2>5, <2>6, <2>7, <2>8, <3>1
  <2>9. CASE k = 2
    <3>1. Len(Occurrences) \in Nat /\ Offset(k) + j \in 1 .. Len(Occurrences)
      BY <2>2, <2>4, <2>6, <2>7, <2>9
    <3> QED BY <2>2, <2>4, <2>5, <2>7, <2>9, <3>1
  <2> QED BY <1>2, <2>8, <2>9
<1> QED BY <1>1, <1>2, JobHas

(* What a placeholder stands for when every occurrence has its id.         *)
Denotes(x, text) == x \in DOMAIN m /\ m[x].text = text

(* After the build the id given to a predicate maps to its text.           *)
LEMMA OccurrenceDenotes ==
  ASSUME PlaceholderInv, Built, NEW k, JobIs(k), NEW j \in 1 .. Len(SidePredicates(job.diagrams[k]))
  PROVE  Denotes(name[Offset(k) + j], SidePredicates(job.diagrams[k])[j].text)
<1>1. PICK i : i = Offset(k) + j
  OBVIOUS
<1>2. Len(Occurrences) \in Nat /\ i \in 1 .. Len(Occurrences)
      /\ Occurrences[i] = SidePredicates(job.diagrams[k])[j]
  BY <1>1, OccurrenceOf
<1>3. name \in Seq(DOMAIN m) /\ at = Len(name) + 1 /\ at > Len(Occurrences)
  BY DEF PlaceholderInv, Handed, Built
<1>4. i \in DOMAIN name
  BY <1>2, <1>3
<1>5. name[i] \in DOMAIN m /\ m[name[i]].text = Occurrences[i].text
  BY <1>4, InverseIsFaithful DEF PlaceholdersFaithful, SameMeaning
<1> QED BY <1>1, <1>2, <1>5 DEF Denotes

(* The representation of a side says what its diagram says.                *)
SideDenotes(side, d) ==
  /\ side.states = d.states /\ side.init.dst = d.start.dst /\ Denotes(side.init.post, d.start.post)
  /\ IsList(side.edges) /\ DOMAIN side.edges = DOMAIN d.edges
  /\ \A i \in DOMAIN d.edges :
       LET x == side.edges[i]  e == d.edges[i]
       IN  /\ x.src = e.src /\ x.dst = e.dst /\ x.event = e.event /\ x.line = e.line
           /\ Denotes(x.guard, e.guard) /\ Denotes(x.post, e.post)

(* The IR of a side has the diagram's states, edges and start, each        *)
(* predicate by an id that maps to its text.                               *)
LEMMA SideIs ==
  ASSUME PlaceholderInv, Built, NEW k, JobIs(k)
  PROVE  SideDenotes(IRSide(k), job.diagrams[k])
<1> DEFINE d == job.diagrams[k]
           p == SidePredicates(d)
           side == IRSide(k)
<1>1. IsDiagram(d)
  BY JobHas
<1>2. PredicatesInPlace(d, p)
  BY <1>1, SidePredicatesAre
<1>3. \A j \in 1 .. Len(p) : Denotes(name[Offset(k) + j], p[j].text)
  BY OccurrenceDenotes
<1>4. side.states = d.states /\ side.init.dst = d.start.dst /\ side.init.post = name[Offset(k) + 1]
      /\ side.edges = [i \in DOMAIN d.edges |-> IREdge(k, i)]
  BY DEF IRSide
<1>5. \A i \in DOMAIN d.edges :
        LET x == IREdge(k, i)  e == d.edges[i]
        IN  /\ x.src = e.src /\ x.dst = e.dst /\ x.event = e.event /\ x.line = e.line
            /\ x.guard = name[Offset(k) + 2 * i] /\ x.post = name[Offset(k) + 2 * i + 1]
  BY DEF IREdge
<1>6. IsList(side.edges)
  BY <1>1, SideCanBe DEF SideCanBeWritten
<1> HIDE DEF d, p, side
<1>7. Denotes(side.init.post, d.start.post)
  BY <1>2, <1>3, <1>4 DEF PredicatesInPlace
<1>8. ASSUME NEW i \in DOMAIN d.edges
      PROVE  LET x == side.edges[i]  e == d.edges[i]
             IN  /\ x.src = e.src /\ x.dst = e.dst /\ x.event = e.event /\ x.line = e.line
                 /\ Denotes(x.guard, e.guard) /\ Denotes(x.post, e.post)
  <2>1. side.edges[i] = IREdge(k, i)
    BY <1>4
  <2>2. Denotes(name[Offset(k) + 2 * i], d.edges[i].guard)
    BY <1>2, <1>3 DEF PredicatesInPlace
  <2>3. Denotes(name[Offset(k) + (2 * i + 1)], d.edges[i].post)
    BY <1>2, <1>3 DEF PredicatesInPlace
  <2>4. Offset(k) + (2 * i + 1) = Offset(k) + 2 * i + 1
    <3>1. Offset(k) \in Nat
      <4>1. CASE k = 1
        BY <4>1 DEF Offset
      <4>2. CASE k # 1
        <5>1. IsDiagram(job.diagrams[1])
          BY <4>2, JobHas
        <5>2. IsList(SidePredicates(job.diagrams[1]))
          BY <5>1, SidePredicatesAre DEF PredicatesInPlace
        <5> QED BY <4>2, <5>2, ListHas DEF Offset
      <4> QED BY <4>1, <4>2
    <3>2. i \in Nat
      <4>1. IsList(d.edges)
        BY <1>1 DEF IsDiagram
      <4> QED BY <4>1, ListHas
    <3> QED BY <3>1, <3>2
  <2> QED BY <1>5, <2>1, <2>2, <2>3, <2>4
<1>9. DOMAIN side.edges = DOMAIN d.edges
  BY <1>4
<1>10. SideDenotes(side, d)
  BY <1>4, <1>6, <1>7, <1>8, <1>9 DEF SideDenotes
<1> QED BY <1>10 DEF side, d

(***************************************************************************)
(* A name stands for the text the diagram has there, if the document tells *)
(* the name once.                                                          *)
(***************************************************************************)
(* What is looked up in a theory is what it tells.                         *)
OneSays(I, kind, n, x) ==
  Item(kind, n, x) \in I /\ \A y : Item(kind, n, y) \in I => y = x

(* The items declare each predicate of m once, as m has it.                *)
KnowsPredicates(I) ==
  /\ \A n, x : Item("predicate", n, x) \in I => \E i : x = PredicateSays(m, i)
  /\ \A i \in DOMAIN m : Item("predicate", T!PredicateName(i), PredicateSays(m, i)) \in I

(* An item of a document is a declaration of it.                           *)
LEMMA ItemIs ==
  ASSUME NEW a, NEW b, NEW c, NEW d, NEW e, NEW f
  PROVE  Item(a, b, c) = Item(d, e, f) <=> a = d /\ b = e /\ c = f
  BY DEF Item

(* The declaration of a name that is told once is what is told of it.      *)
LEMMA TheIs ==
  ASSUME NEW s, NEW I, Tells(s, I), NEW kind \in Telling, NEW n, NEW x, OneSays(I, kind, n, x)
  PROVE  The(s, kind, n).says = x
<1> DEFINE Is(d) == d \in T!ToSet(s) /\ d.kind = kind /\ n \in Declares(d)
<1>1. \A d \in T!ToSet(s) : d.kind = kind => View(d) \in I /\ Declares(d) = {d.declares[1].name}
  BY DEF Tells, Items, OneEach
<1>2. \E d : Is(d)
  <2>1. PICK d \in T!ToSet(s) : View(d) = Item(kind, n, x)
    BY DEF Tells, Items, OneSays
  <2>2. d.kind = kind /\ d.declares[1].name = n
    BY <2>1, ItemIs DEF View
  <2> QED BY <1>1, <2>1, <2>2
<1>3. ASSUME NEW d, Is(d) PROVE d.says = x
  <2>1. View(d) = Item(kind, n, d.says)
    BY <1>1, <1>3 DEF View
  <2> QED BY <1>1, <1>3, <2>1 DEF OneSays
<1>4. The(s, kind, n) = CHOOSE d \in T!ToSet(s) : d.kind = kind /\ n \in Declares(d)
  BY DEF The
<1>5. Is(The(s, kind, n))
  BY <1>2, <1>4
<1> QED BY <1>3, <1>5

(* An alias stands for the text that its id maps to.                       *)
LEMMA StandsIs ==
  ASSUME NEW s, NEW I, Tells(s, I), KnowsPredicates(I), NEW n, NEW r, OneSays(I, "alias", n, r),
         NEW text, Denotes(r, text)
  PROVE  Stands(s, n).text = text
<1>1. The(s, "alias", n).says = r
  BY TheIs DEF Telling
<1> DEFINE Is(d) == d \in T!ToSet(s) /\ d.kind = "predicate" /\ d.says.id = r
           p == CHOOSE d \in T!ToSet(s) : d.kind = "predicate" /\ d.says.id = r
<1>2. Stands(s, n) = p.says
  BY <1>1 DEF Stands
<1>3. \A d \in T!ToSet(s) : d.kind = "predicate" => View(d) \in I
  BY DEF Tells, Items, Telling
<1>4. \E d : Is(d)
  <2>1. Item("predicate", T!PredicateName(r), PredicateSays(m, r)) \in I
    BY DEF KnowsPredicates, Denotes
  <2>2. PICK d \in T!ToSet(s) : View(d) = Item("predicate", T!PredicateName(r), PredicateSays(m, r))
    BY <2>1 DEF Tells, Items
  <2>3. d.kind = "predicate" /\ d.says = PredicateSays(m, r)
    BY <2>2, ItemIs DEF View
  <2>4. PredicateSays(m, r).id = r
    BY DEF PredicateSays
  <2> QED BY <2>3, <2>4
<1>5. Is(p)
  BY <1>4
<1> HIDE DEF p
<1>6. PICK i : p.says = PredicateSays(m, i)
  <2>1. Item("predicate", p.declares[1].name, p.says) \in I
    BY <1>3, <1>5 DEF View
  <2> QED BY <2>1 DEF KnowsPredicates
<1>7. i = r /\ p.says.text = m[r].text
  BY <1>5, <1>6 DEF PredicateSays
<1> QED BY <1>2, <1>7 DEF Denotes

(* A transition system is told of: its relations, where it starts, and     *)
(* what the aliases of its edges stand for.                                *)
AliasesPresent(I, side, x) ==
  /\ OneSays(I, "alias", T!Qualify(side, "init"), x.init.post)
  /\ \A i \in DOMAIN x.edges :
       /\ OneSays(I, "alias", T!GuardName(side, x.edges[i].line), x.edges[i].guard)
       /\ OneSays(I, "alias", T!PostName(side, x.edges[i].line), x.edges[i].post)

(* The layer of a side is told, each of its names once.                    *)
LayerPresent(I, target, side, x) ==
  /\ OneSays(I, "relation", T!Qualify(side, "step"), Disjuncts(side, x.edges, x.states))
  /\ OneSays(I, "relation", T!Qualify(side, Word(target, "tau_step")), Disjuncts(side, T!TauEdges(x.edges), x.states))
  /\ OneSays(I, "reachable", T!Qualify(side, Word(target, "reachable")), ReachableSays(side, x.init, x.states))

(* What fires under a valuation.                                           *)
Firing(d, valid) == {e \in Edges(d) : Holds(e.guard, valid) /\ Holds(e.post, valid)}

(* A disjunct holds exactly if guard and postcondition of its edge do.     *)
LEMMA DisjunctIs ==
  ASSUME NEW side, NEW e, NEW states
  PROVE  LET x == Lean!WriteDisjunct(side, e, states)
         IN  /\ x.src.name = T!Ctor(side, e.src) /\ x.dst.name = T!Ctor(side, e.dst)
             /\ x.guard.name = T!GuardName(side, e.line) /\ x.post.name = T!PostName(side, e.line)
  BY SameCtor DEF Lean!WriteDisjunct, Lean!Term, Lean!GuardName, T!GuardName, Lean!PostName, T!PostName

(* A relation of the theory holds of the names of what fires.              *)
LEMMA RelationIs ==
  ASSUME NEW I, Tells(Document, I), KnowsPredicates(I), NEW side, NEW x, NEW d, SideDenotes(x, d),
         AliasesPresent(I, side, x), NEW valid, NEW n, NEW edges,
         IsList(edges), T!ToSet(edges) \subseteq T!ToSet(x.edges),
         OneSays(I, "relation", n, Disjuncts(side, edges, x.states)),
         NEW F, F \subseteq Firing(d, valid),
         \A i \in DOMAIN d.edges : d.edges[i] \in Firing(d, valid) =>
           (d.edges[i] \in F <=> x.edges[i] \in T!ToSet(edges))
  PROVE  /\ \A y \in RelationUnder(n, valid) : \E e \in F :
              y.src.name = T!Ctor(side, e.src) /\ y.dst.name = T!Ctor(side, e.dst)
         /\ \A e \in F : \E y \in RelationUnder(n, valid) :
              y.src.name = T!Ctor(side, e.src) /\ y.dst.name = T!Ctor(side, e.dst)
<1> DEFINE W(e) == Lean!WriteDisjunct(side, e, x.states)
           R == The(Document, "relation", n).says
           Fire(y) == Holds(Stands(Document, y.guard.name).text, valid) /\ Holds(Stands(Document, y.post.name).text, valid)
<1>1. T!ToSet(R) = {W(e) : e \in T!ToSet(edges)}
  <2>1. R = Disjuncts(side, edges, x.states)
    BY TheIs DEF Telling
  <2>2. DOMAIN R = DOMAIN edges /\ \A i \in DOMAIN edges : R[i] = W(edges[i])
    BY <2>1 DEF Disjuncts
  <2> HIDE DEF W, R
  <2> QED BY <2>2 DEF T!ToSet
<1>2. \A e : /\ W(e).src.name = T!Ctor(side, e.src) /\ W(e).dst.name = T!Ctor(side, e.dst)
             /\ W(e).guard.name = T!GuardName(side, e.line) /\ W(e).post.name = T!PostName(side, e.line)
  BY DisjunctIs
<1>3. RelationUnder(n, valid) = {y \in T!ToSet(R) : Fire(y)}
  BY DEF RelationUnder
<1> HIDE DEF W, R
<1>4. \A e \in T!ToSet(edges) : \E i \in DOMAIN d.edges : e = x.edges[i]
  BY DEF T!ToSet, SideDenotes
<1>5. ASSUME NEW i \in DOMAIN d.edges
      PROVE  /\ Fire(W(x.edges[i])) <=> d.edges[i] \in Firing(d, valid)
             /\ W(x.edges[i]).src.name = T!Ctor(side, d.edges[i].src)
             /\ W(x.edges[i]).dst.name = T!Ctor(side, d.edges[i].dst)
  <2>1. /\ x.edges[i].src = d.edges[i].src /\ x.edges[i].dst = d.edges[i].dst
        /\ Denotes(x.edges[i].guard, d.edges[i].guard) /\ Denotes(x.edges[i].post, d.edges[i].post)
        /\ i \in DOMAIN x.edges
    BY DEF SideDenotes
  <2>2. /\ OneSays(I, "alias", T!GuardName(side, x.edges[i].line), x.edges[i].guard)
        /\ OneSays(I, "alias", T!PostName(side, x.edges[i].line), x.edges[i].post)
    BY <2>1 DEF AliasesPresent
  <2>3. Stands(Document, T!GuardName(side, x.edges[i].line)).text = d.edges[i].guard
    BY <2>1, <2>2, StandsIs
  <2>4. Stands(Document, T!PostName(side, x.edges[i].line)).text = d.edges[i].post
    BY <2>1, <2>2, StandsIs
  <2>5. Fire(W(x.edges[i])) <=> Holds(d.edges[i].guard, valid) /\ Holds(d.edges[i].post, valid)
    BY <1>2, <2>3, <2>4
  <2>6. d.edges[i] \in Edges(d)
    BY DEF Edges
  <2> HIDE DEF Fire
  <2> QED BY <1>2, <2>1, <2>5, <2>6 DEF Firing
<1> HIDE DEF Fire
<1>6. ASSUME NEW y \in RelationUnder(n, valid)
      PROVE  \E e \in F : y.src.name = T!Ctor(side, e.src) /\ y.dst.name = T!Ctor(side, e.dst)
  <2>1. PICK e \in T!ToSet(edges) : y = W(e) /\ Fire(y)
    BY <1>1, <1>3
  <2>2. PICK i \in DOMAIN d.edges : e = x.edges[i]
    BY <1>4
  <2>3. d.edges[i] \in F
    BY <1>5, <2>1, <2>2
  <2> QED BY <1>5, <2>1, <2>2, <2>3
<1>7. ASSUME NEW e \in F
      PROVE  \E y \in RelationUnder(n, valid) : y.src.name = T!Ctor(side, e.src) /\ y.dst.name = T!Ctor(side, e.dst)
  <2>1. PICK i \in DOMAIN d.edges : e = d.edges[i]
    BY DEF Firing, Edges
  <2>2. x.edges[i] \in T!ToSet(edges) /\ d.edges[i] \in Firing(d, valid)
    BY <2>1
  <2>3. W(x.edges[i]) \in RelationUnder(n, valid)
    BY <1>1, <1>3, <1>5, <2>2
  <2> QED BY <1>5, <2>1, <2>3
<1> QED BY <1>6, <1>7

(***************************************************************************)
(* The livelock theorem is true exactly if the diagram does not diverge.   *)
(***************************************************************************)
(* The internal edges of a diagram that can fire.                          *)
Quiet(d, valid) == {e \in Firing(d, valid) : e.event = Tau}

(* The names a prover sees of a relation's edges.                          *)
NamePairs(R) == {[src |-> y.src.name, dst |-> y.dst.name] : y \in R}

(* A diagram is cyclic if it reaches a cycle of internal edges.            *)
LEMMA CyclicIs ==
  ASSUME NEW nodes, NEW start, NEW edges
  PROVE  Cyclic(nodes, start, edges)
           <=> HasCycle(ReachableFrom(nodes, start, edges), {e \in edges : e.event = Tau})
<1> DEFINE Closed(S) == start \in S /\ \A e \in edges : e.src \in S => e.dst \in S
           r == {s \in nodes : \A S \in SUBSET nodes : Closed(S) => s \in S}
<1>1. r = ReachableFrom(nodes, start, edges)
  BY DEF ReachableFrom, ClosedIn
<1>2. Cyclic(nodes, start, edges) <=> \E S \in (SUBSET r) \ {{}} :
        \A s \in S : \E e \in edges : e.src = s /\ e.event = Tau /\ e.dst \in S
  BY DEF Cyclic
<1> HIDE DEF r
<1>3. HasCycle(r, {e \in edges : e.event = Tau}) <=> \E S \in (SUBSET r) \ {{}} :
        \A s \in S : \E e \in edges : e.src = s /\ e.event = Tau /\ e.dst \in S
  BY DEF HasCycle
<1> QED BY <1>1, <1>2, <1>3

LEMMA NamedAre ==
  ASSUME NEW R
  PROVE  /\ \A y \in R : \E e \in NamePairs(R) : e.src = y.src.name /\ e.dst = y.dst.name
         /\ \A e \in NamePairs(R) : \E y \in R : e.src = y.src.name /\ e.dst = y.dst.name
<1>1. ASSUME NEW y \in R PROVE \E e \in NamePairs(R) : e.src = y.src.name /\ e.dst = y.dst.name
  <2>1. PICK e : e = [src |-> y.src.name, dst |-> y.dst.name]
    OBVIOUS
  <2>2. e \in NamePairs(R)
    BY <2>1 DEF NamePairs
  <2> QED BY <2>1, <2>2
<1>2. ASSUME NEW e \in NamePairs(R) PROVE \E y \in R : e.src = y.src.name /\ e.dst = y.dst.name
  BY DEF NamePairs
<1> QED BY <1>1, <1>2

(* The names of the nodes that the theory knows.                           *)
NamesOf(r, steps, loops) ==
  {r.to.name} \cup {y.src.name : y \in steps \cup loops} \cup {y.dst.name : y \in steps \cup loops}

(* What the claim of well-foundedness says.                                *)
WellFounded(r, steps, loops, nodes, valid) ==
  LET Closed(S) == /\ Holds(Stands(Document, r.base.name).text, valid) => r.to.name \in S
                   /\ \A x \in steps : x.src.name \in S => x.dst.name \in S
      reachable == {n \in nodes : \A S \in SUBSET nodes : Closed(S) => n \in S}
  IN  ~ \E S \in (SUBSET reachable) \ {{}} :
         \A n \in S : \E x \in loops : x.src.name = n /\ x.dst.name \in S

(* The claim of well-foundedness says that there is no cycle among what    *)
(* its relation reaches, if there is a first state at all.                 *)
LEMMA WellFoundedIs ==
  ASSUME NEW theorem, theorem.claims = "wellFounded", NEW valid,
         NEW r, r = The(Document, "reachable", theorem.on).says,
         NEW steps, steps = RelationUnder(r.step, valid),
         NEW loops, loops = RelationUnder(theorem.of, valid),
         NEW nodes, nodes = NamesOf(r, steps, loops)
  PROVE  IsTrue(theorem, valid)
           <=> ~ (/\ Holds(Stands(Document, r.base.name).text, valid)
                  /\ HasCycle(ReachableFrom(nodes, r.to.name, NamePairs(steps)), NamePairs(loops)))
<1> DEFINE begins == Holds(Stands(Document, r.base.name).text, valid)
           Closed(S) == /\ begins => r.to.name \in S
                        /\ \A x \in steps : x.src.name \in S => x.dst.name \in S
           reachable == {n \in nodes : \A S \in SUBSET nodes : Closed(S) => n \in S}
           Loops(S) == \A n \in S : \E x \in loops : x.src.name = n /\ x.dst.name \in S
<1>1. IsTrue(theorem, valid) <=> ~ \E S \in (SUBSET reachable) \ {{}} : Loops(S)
  <2>1. IsTrue(theorem, valid) <=>
         (LET rr == The(Document, "reachable", theorem.on).says
              st == RelationUnder(rr.step, valid)
              lo == RelationUnder(theorem.of, valid)
          IN  WellFounded(rr, st, lo, NamesOf(rr, st, lo), valid))
    BY DEF IsTrue, WellFounded, NamesOf
  <2>2. IsTrue(theorem, valid) <=> WellFounded(r, steps, loops, nodes, valid)
    BY <2>1
  <2> QED BY <2>2 DEF WellFounded
<1>2. ASSUME NEW S
      PROVE  Closed(S) <=> (begins => r.to.name \in S) /\ \A e \in NamePairs(steps) : e.src \in S => e.dst \in S
  <2> HIDE DEF begins
  <2> QED BY NamedAre
<1>3. ASSUME NEW S PROVE Loops(S) <=> \A n \in S : \E e \in NamePairs(loops) : e.src = n /\ e.dst \in S
  <2>1. ASSUME NEW n
        PROVE  (\E x \in loops : x.src.name = n /\ x.dst.name \in S)
                 <=> \E e \in NamePairs(loops) : e.src = n /\ e.dst \in S
    BY NamedAre
  <2> QED BY <2>1
<1> DEFINE Bad == \E S \in (SUBSET reachable) \ {{}} : Loops(S)
<1>4. CASE begins
  <2>1. \A S : Closed(S) <=> ClosedIn(S, r.to.name, NamePairs(steps))
    BY <1>2, <1>4 DEF ClosedIn
  <2>2. ASSUME NEW n PROVE n \in reachable <=> n \in ReachableFrom(nodes, r.to.name, NamePairs(steps))
    <3> HIDE DEF Closed
    <3>1. n \in reachable <=> n \in nodes /\ \A S \in SUBSET nodes : Closed(S) => n \in S
      OBVIOUS
    <3>2. n \in ReachableFrom(nodes, r.to.name, NamePairs(steps))
            <=> n \in nodes /\ \A S \in SUBSET nodes : ClosedIn(S, r.to.name, NamePairs(steps)) => n \in S
      BY DEF ReachableFrom
    <3> HIDE DEF reachable
    <3> QED BY <2>1, <3>1, <3>2
  <2>3. reachable = ReachableFrom(nodes, r.to.name, NamePairs(steps))
    <3> HIDE DEF reachable
    <3>1. \A n : n \in reachable <=> n \in ReachableFrom(nodes, r.to.name, NamePairs(steps))
      BY <2>2
    <3>2. reachable \subseteq nodes /\ ReachableFrom(nodes, r.to.name, NamePairs(steps)) \subseteq nodes
      BY DEF reachable, ReachableFrom
    <3> QED BY <3>1, <3>2
  <2> HIDE DEF reachable
  <2>4. ASSUME Bad PROVE HasCycle(reachable, NamePairs(loops))
    <3> HIDE DEF Loops
    <3>1. PICK S \in (SUBSET reachable) \ {{}} : Loops(S)
      BY <2>4
    <3>2. \A n \in S : \E e \in NamePairs(loops) : e.src = n /\ e.dst \in S
      BY <1>3, <3>1
    <3> QED BY <3>1, <3>2 DEF HasCycle
  <2>5. ASSUME HasCycle(reachable, NamePairs(loops)) PROVE Bad
    <3> HIDE DEF Loops
    <3>1. PICK S \in (SUBSET reachable) \ {{}} : \A n \in S : \E e \in NamePairs(loops) : e.src = n /\ e.dst \in S
      BY <2>5 DEF HasCycle
    <3>2. Loops(S)
      BY <1>3, <3>1
    <3> QED BY <3>1, <3>2
  <2>6. IsTrue(theorem, valid) <=> ~ Bad
    BY <1>1
  <2> HIDE DEF Bad
  <2>7. Bad <=> HasCycle(reachable, NamePairs(loops))
    BY <2>4, <2>5
  <2> HIDE DEF begins
  <2>8. IsTrue(theorem, valid) <=> ~ (begins /\ HasCycle(ReachableFrom(nodes, r.to.name, NamePairs(steps)), NamePairs(loops)))
    BY <1>4, <2>3, <2>6, <2>7
  <2> QED BY <2>8 DEF begins
<1>5. CASE ~ begins
  <2>1. Closed({})
    BY <1>5
  <2>2. reachable = {}
    <3> HIDE DEF Closed
    <3> QED BY <2>1
  <2> HIDE DEF reachable, Loops
  <2> QED BY <1>1, <1>5, <2>2
<1> QED BY <1>4, <1>5

(* TauEdges keeps the edges that are labelled tau.                         *)
LEMMA TauEdgesAre ==
  ASSUME NEW edges, IsList(edges)
  PROVE  IsList(T!TauEdges(edges)) /\ T!ToSet(T!TauEdges(edges)) = {e \in T!ToSet(edges) : e.event = Tau}
<1> DEFINE S == {e \in T!ToSet(edges) : e.event = Tau}
<1>1. T!TauEdges(edges) = T!Among(edges, S)
  BY DEF T!TauEdges
<1>2. S \subseteq T!ToSet(edges)
  OBVIOUS
<1> HIDE DEF S
<1>3. IsList(T!Among(edges, S)) /\ T!ToSet(T!Among(edges, S)) = T!ToSet(edges) \cap S
  BY AmongIs
<1>4. IsList(T!TauEdges(edges)) /\ T!ToSet(T!TauEdges(edges)) = S
  BY <1>1, <1>2, <1>3
<1> QED BY <1>4 DEF S

(* A diagram diverges: its start can be taken and it reaches a cycle.      *)
Diverging(d, valid) == Holds(d.start.post, valid) /\ Cyclic(Nodes(d), d.start.dst, Firing(d, valid))

(* The relations of a layer are the diagram's edges under the              *)
(* constructors.                                                           *)
LEMMA StepsAre ==
  ASSUME NEW I, Tells(Document, I), KnowsPredicates(I), NEW side,
         NEW x, NEW d, SideDenotes(x, d), IsList(x.edges), \A i \in DOMAIN d.edges : x.edges[i] \in T!ToSet(x.edges),
         AliasesPresent(I, side, x), NEW valid, NEW n,
         OneSays(I, "relation", n, Disjuncts(side, x.edges, x.states))
  PROVE  LET F == Firing(d, valid) IN
         /\ \A y \in RelationUnder(n, valid) : \E e \in F :
              y.src.name = T!Ctor(side, e.src) /\ y.dst.name = T!Ctor(side, e.dst)
         /\ \A e \in F : \E y \in RelationUnder(n, valid) :
              y.src.name = T!Ctor(side, e.src) /\ y.dst.name = T!Ctor(side, e.dst)
<1>1. PICK F : F = Firing(d, valid)
  OBVIOUS
<1>2. PICK all : all = x.edges
  OBVIOUS
<1>3. IsList(all) /\ T!ToSet(all) \subseteq T!ToSet(x.edges)
  BY <1>2
<1>4. OneSays(I, "relation", n, Disjuncts(side, all, x.states))
  BY <1>2
<1>5.  \A i \in DOMAIN d.edges : d.edges[i] \in Firing(d, valid) => (d.edges[i] \in F <=> x.edges[i] \in T!ToSet(all))
  BY <1>1, <1>2
<1>6. F \subseteq Firing(d, valid)
  BY <1>1
<1>7. /\ \A y \in RelationUnder(n, valid) : \E e \in F : y.src.name = T!Ctor(side, e.src) /\ y.dst.name = T!Ctor(side, e.dst)
      /\ \A e \in F : \E y \in RelationUnder(n, valid) : y.src.name = T!Ctor(side, e.src) /\ y.dst.name = T!Ctor(side, e.dst)
  BY <1>3, <1>4, <1>5, <1>6, RelationIs
<1> QED BY <1>1, <1>7

(* The livelock theorem that a layer leaves to be proved is false exactly  *)
(* if its diagram gets into a cycle of silent edges that fire.             *)
LEMMA LivelockIsTrue ==
  ASSUME NEW I, Tells(Document, I), KnowsPredicates(I), NEW side, IsList(side.ctorPrefix),
         NEW x, NEW d, SideDenotes(x, d), \A s \in Nodes(d) : IsList(s),
         AliasesPresent(I, side, x), NEW target, LayerPresent(I, target, side, x), NEW valid
  PROVE  IsTrue(LivelockSays(target, side), valid) <=> ~ Diverging(d, valid)
<1>a. PICK F : F = Firing(d, valid)
  OBVIOUS
<1>b. PICK L : L = Quiet(d, valid)
  OBVIOUS
<1>c. PICK N : N = Nodes(d)
  OBVIOUS
<1>d. PICK c : c = [s \in N |-> T!Ctor(side, s)]
  OBVIOUS
<1>0. PICK th : th = LivelockSays(target, side)
  OBVIOUS
<1>1. th.claims = "wellFounded" /\ th.on = T!Qualify(side, Word(target, "reachable"))
      /\ th.of = T!Qualify(side, Word(target, "tau_step"))
  BY <1>0 DEF LivelockSays
<1>2. PICK r : r = The(Document, "reachable", th.on).says
  OBVIOUS
<1>3. r = ReachableSays(side, x.init, x.states)
  BY <1>1, <1>2, TheIs DEF Telling, LayerPresent
<1>4. r.base.name = T!Qualify(side, "init") /\ r.to.name = T!Ctor(side, d.start.dst) /\ r.step = T!Qualify(side, "step")
  BY <1>3 DEF ReachableSays, T!Term, SideDenotes
<1>5. Stands(Document, r.base.name).text = d.start.post
  BY <1>4, StandsIs DEF SideDenotes, AliasesPresent
<1>6. PICK steps : steps = RelationUnder(r.step, valid)
  OBVIOUS
<1>7. PICK loops : loops = RelationUnder(th.of, valid)
  OBVIOUS
<1>8. PICK nodes : nodes = NamesOf(r, steps, loops)
  OBVIOUS
<1>9. IsTrue(th, valid) <=> ~ (/\ Holds(d.start.post, valid)
                               /\ HasCycle(ReachableFrom(nodes, r.to.name, NamePairs(steps)), NamePairs(loops)))
  <2>1. IsTrue(th, valid) <=> ~ (/\ Holds(Stands(Document, r.base.name).text, valid)
                                 /\ HasCycle(ReachableFrom(nodes, r.to.name, NamePairs(steps)), NamePairs(loops)))
    BY <1>1, <1>2, <1>6, <1>7, <1>8, WellFoundedIs
  <2> QED BY <1>5, <2>1
<1>10. \A e \in F : e.src \in N /\ e.dst \in N
  <2>1. \A e \in Edges(d) : e.src \in Nodes(d) /\ e.dst \in Nodes(d)
    BY DEF Nodes
  <2> QED BY <1>a, <1>c, <2>1 DEF Firing
<1>11. L \subseteq F /\ d.start.dst \in N
  BY <1>a, <1>b, <1>c DEF Quiet, Nodes
<1>12. IsList(x.edges) /\ \A i \in DOMAIN d.edges : x.edges[i] \in T!ToSet(x.edges)
  BY DEF SideDenotes, T!ToSet
<1>13. /\ \A y \in steps : \E e \in F : y.src.name = T!Ctor(side, e.src) /\ y.dst.name = T!Ctor(side, e.dst)
       /\ \A e \in F : \E y \in steps : y.src.name = T!Ctor(side, e.src) /\ y.dst.name = T!Ctor(side, e.dst)
  <2>1. PICK n : n = r.step
    OBVIOUS
  <2>2. OneSays(I, "relation", n, Disjuncts(side, x.edges, x.states))
    BY <1>4, <2>1 DEF LayerPresent
  <2>3. PICK G : G = RelationUnder(n, valid)
    OBVIOUS
  <2>4. /\ \A y \in G : \E e \in Firing(d, valid) : y.src.name = T!Ctor(side, e.src) /\ y.dst.name = T!Ctor(side, e.dst)
        /\ \A e \in Firing(d, valid) : \E y \in G : y.src.name = T!Ctor(side, e.src) /\ y.dst.name = T!Ctor(side, e.dst)
    BY <1>12, <2>2, <2>3, StepsAre
  <2> QED BY <1>a, <1>6, <2>1, <2>3, <2>4
<1>14. /\ \A y \in loops : \E e \in L : y.src.name = T!Ctor(side, e.src) /\ y.dst.name = T!Ctor(side, e.dst)
       /\ \A e \in L : \E y \in loops : y.src.name = T!Ctor(side, e.src) /\ y.dst.name = T!Ctor(side, e.dst)
  <2>1. PICK tau : tau = T!TauEdges(x.edges)
    OBVIOUS
  <2>2. IsList(tau) /\ T!ToSet(tau) = {e \in T!ToSet(x.edges) : e.event = Tau}
    BY <1>12, <2>1, TauEdgesAre
  <2>3. OneSays(I, "relation", th.of, Disjuncts(side, tau, x.states))
    BY <1>1, <2>1 DEF LayerPresent
  <2>4. ASSUME NEW i \in DOMAIN d.edges, d.edges[i] \in Firing(d, valid)
        PROVE  d.edges[i] \in L <=> x.edges[i] \in T!ToSet(tau)
    <3>1. x.edges[i].event = d.edges[i].event
      BY DEF SideDenotes
    <3> QED BY <1>12, <1>b, <2>2, <2>4, <3>1 DEF Quiet
  <2>5. L \subseteq Firing(d, valid) /\ T!ToSet(tau) \subseteq T!ToSet(x.edges)
    BY <1>11, <1>a, <2>2
  <2> QED BY <1>7, <2>2, <2>3, <2>4, <2>5, RelationIs
<1>15. \A e \in F : c[e.src] = T!Ctor(side, e.src) /\ c[e.dst] = T!Ctor(side, e.dst)
  BY <1>10, <1>d
<1>16. c[d.start.dst] = r.to.name
  BY <1>4, <1>11, <1>d
<1>17. \A s \in N : c[s] = T!Ctor(side, s)
  BY <1>d
<1>18. \A s, t \in N : c[s] = c[t] => s = t
  <2>1. \A s \in N : IsList(s)
    BY <1>c
  <2> QED BY <1>17, <2>1, CtorInjective
<1>19. SameSteps(NamePairs(steps), F, c) /\ SameSteps(NamePairs(loops), L, c)
  <2>1. ASSUME NEW z \in NamePairs(steps) PROVE \E e \in F : z.src = c[e.src] /\ z.dst = c[e.dst]
    BY <1>13, <1>15, NamedAre
  <2>2. ASSUME NEW e \in F PROVE \E z \in NamePairs(steps) : z.src = c[e.src] /\ z.dst = c[e.dst]
    BY <1>13, <1>15, NamedAre
  <2>3. ASSUME NEW z \in NamePairs(loops) PROVE \E e \in L : z.src = c[e.src] /\ z.dst = c[e.dst]
    BY <1>11, <1>14, <1>15, NamedAre
  <2>4. ASSUME NEW e \in L PROVE \E z \in NamePairs(loops) : z.src = c[e.src] /\ z.dst = c[e.dst]
    BY <1>11, <1>14, <1>15, NamedAre
  <2> QED BY <2>1, <2>2, <2>3, <2>4 DEF SameSteps
<1>20. c[d.start.dst] \in nodes /\ \A y \in NamePairs(steps) \cup NamePairs(loops) : y.src \in nodes /\ y.dst \in nodes
  <2>1. c[d.start.dst] \in nodes /\ \A y \in steps \cup loops : y.src.name \in nodes /\ y.dst.name \in nodes
    BY <1>8, <1>16 DEF NamesOf
  <2> QED BY <2>1, NamedAre
<1>21. \A n \in nodes : \E s \in N : n = c[s]
  <2>1. \A y \in steps \cup loops : \E e \in F : y.src.name = c[e.src] /\ y.dst.name = c[e.dst]
    BY <1>11, <1>13, <1>14, <1>15
  <2> QED BY <1>8, <1>10, <1>11, <1>16, <2>1 DEF NamesOf
<1>22. HasCycle(ReachableFrom(N, d.start.dst, F), L)
         <=> HasCycle(ReachableFrom(nodes, c[d.start.dst], NamePairs(steps)), NamePairs(loops))
  BY <1>10, <1>11, <1>18, <1>19, <1>20, <1>21, CyclesRenamed
<1>23. Cyclic(N, d.start.dst, F) <=> HasCycle(ReachableFrom(N, d.start.dst, F), L)
  <2>1. L = {e \in F : e.event = Tau}
    BY <1>a, <1>b DEF Quiet
  <2> QED BY <2>1, CyclicIs
<1>24. Diverging(d, valid) <=> Holds(d.start.post, valid) /\ Cyclic(N, d.start.dst, F)
  BY <1>a, <1>c DEF Diverging
<1>25. IsTrue(th, valid) <=> ~ Diverging(d, valid)
  BY <1>9, <1>16, <1>22, <1>23, <1>24
<1> QED BY <1>0, <1>25

(* Fewer edges have fewer cycles: what is structurally free is free.       *)
LEMMA FreeStaysFree ==
  ASSUME NEW d, StructurallyFree(d), NEW valid
  PROVE  ~ Diverging(d, valid)
<1> DEFINE N == Nodes(d)  E == Edges(d)  F == Firing(d, valid)  s == d.start.dst
<1>1. F \subseteq E
  BY DEF Firing
<1> HIDE DEF N, E, F, s
<1>2. ReachableFrom(N, s, F) \subseteq ReachableFrom(N, s, E)
  BY <1>1 DEF ReachableFrom, ClosedIn
<1>3. ~ Cyclic(N, s, E)
  BY DEF StructurallyFree, N, E, s
<1> DEFINE LE == {e \in E : e.event = Tau}  LF == {e \in F : e.event = Tau}
<1>4. LF \subseteq LE
  BY <1>1
<1>5. Cyclic(N, s, E) <=> HasCycle(ReachableFrom(N, s, E), LE)
  BY CyclicIs
<1>6. Cyclic(N, s, F) <=> HasCycle(ReachableFrom(N, s, F), LF)
  BY CyclicIs
<1> HIDE DEF LE, LF
<1>7. HasCycle(ReachableFrom(N, s, F), LF) => HasCycle(ReachableFrom(N, s, E), LE)
  BY <1>2, <1>4 DEF HasCycle
<1> QED BY <1>3, <1>5, <1>6, <1>7 DEF Diverging, N, F, s

(***************************************************************************)
(* No two items of a theory have the same name.                            *)
(***************************************************************************)
(* The generator's names are told apart by what they are made of.          *)
LEMMA NamesDiffer ==
  ASSUME NEW s, NEW o
  PROVE  /\ \A v, w : T!Qualify(s, v) = T!Qualify(o, w) <=> v = w /\ s.suffix = o.suffix
         /\ \A l, k : T!GuardName(s, l) = T!GuardName(o, k) <=> l = k /\ s.suffix = o.suffix
         /\ \A l, k : T!PostName(s, l) = T!PostName(o, k) <=> l = k /\ s.suffix = o.suffix
         /\ \A v, l : T!Qualify(s, v) # T!GuardName(o, l) /\ T!Qualify(s, v) # T!PostName(o, l)
         /\ \A v, l : T!GuardName(s, l) # T!Qualify(o, v) /\ T!PostName(s, l) # T!Qualify(o, v)
         /\ \A l, k : T!GuardName(s, l) # T!PostName(o, k) /\ T!PostName(s, l) # T!GuardName(o, k)
  BY DEF T!Qualify, T!GuardName, T!PostName

(* Kinds and names of what a part tells.                                   *)
LEMMA PredicateItemsHave ==
  ASSUME NEW mm, NEW kind, NEW n, NEW x
  PROVE  Item(kind, n, x) \in PredicateItems(mm)
           <=> kind = "predicate" /\ \E i \in Given(mm) : n = T!PredicateName(i) /\ x = PredicateSays(mm, i)
  BY ItemIs DEF PredicateItems

LEMMA AliasItemsHave ==
  ASSUME NEW side, NEW init, NEW edges, NEW kind, NEW n, NEW x
  PROVE  Item(kind, n, x) \in AliasItems(side, init, edges)
           <=> /\ kind = "alias"
               /\ \/ n = T!Qualify(side, "init") /\ x = init.post
                  \/ \E i \in DOMAIN edges :
                       \/ n = T!GuardName(side, edges[i].line) /\ x = edges[i].guard
                       \/ n = T!PostName(side, edges[i].line) /\ x = edges[i].post
<1>1. ASSUME NEW i PROVE Item(kind, n, x) \in EdgeItems(side, edges[i])
        <=> /\ kind = "alias"
            /\ \/ n = T!GuardName(side, edges[i].line) /\ x = edges[i].guard
               \/ n = T!PostName(side, edges[i].line) /\ x = edges[i].post
  BY ItemIs DEF EdgeItems, AliasItem
<1>2. Item(kind, n, x) \in EdgesItems(side, edges) <=> \E i \in DOMAIN edges : Item(kind, n, x) \in EdgeItems(side, edges[i])
  BY DEF EdgesItems
<1>3. Item(kind, n, x) \in {AliasItem(T!Qualify(side, "init"), init.post)}
        <=> kind = "alias" /\ n = T!Qualify(side, "init") /\ x = init.post
  BY ItemIs DEF AliasItem
<1> QED BY <1>1, <1>2, <1>3 DEF AliasItems

LEMMA EndItemsHave ==
  ASSUME NEW side, NEW end, NEW kind, NEW n, NEW x
  PROVE  Item(kind, n, x) \in EndItems(side, end)
           <=> /\ kind = "alias"
               /\ \E i \in DOMAIN end : n = T!GuardName(side, end[i].line) /\ x = end[i].guard
  BY ItemIs DEF EndItems, AliasItem

LEMMA LayerItemsHave ==
  ASSUME NEW target, NEW side, NEW init, NEW states, NEW edges, NEW kind, NEW n, NEW x
  PROVE  Item(kind, n, x) \in LayerItems(target, side, init, states, edges)
           <=> \/ /\ kind = "relation" /\ n = T!Qualify(side, Word(target, "step"))
                  /\ x = Disjuncts(side, edges, states)
               \/ /\ kind = "reachable" /\ n = T!Qualify(side, Word(target, "reachable"))
                  /\ x = ReachableSays(side, init, states)
               \/ /\ kind = "relation" /\ n = T!Qualify(side, Word(target, "tau_step"))
                  /\ x = Disjuncts(side, T!TauEdges(edges), states)
<1>1. \A word, e : Item(kind, n, x) \in {StepItem(target, side, word, e, states)}
        <=> kind = "relation" /\ n = T!Qualify(side, Word(target, word)) /\ x = Disjuncts(side, e, states)
  BY ItemIs DEF StepItem
<1>2. Item(kind, n, x) \in {ReachableItem(target, side, init, states)}
        <=> /\ kind = "reachable" /\ n = T!Qualify(side, Word(target, "reachable"))
            /\ x = ReachableSays(side, init, states)
  BY ItemIs DEF ReachableItem
<1> QED BY <1>1, <1>2 DEF LayerItems

(* What is told of one side is told once: the edges are on lines of their  *)
(* own, and what is told of the other has another suffix.                  *)
OwnLines(x) ==
  /\ \A i, j \in DOMAIN x.edges : x.edges[i].line = x.edges[j].line => i = j
  /\ \A i \in DOMAIN x.edges, j \in DOMAIN x.end : x.edges[i].line # x.end[j].line

(* The items that are aliases are the side's, of its end edges, or of      *)
(* another side.                                                           *)
AliasesApart(I, side, x) ==
  /\ AliasItems(side, x.init, x.edges) \subseteq I
  /\ \A n, y : Item("alias", n, y) \in I =>
       \/ Item("alias", n, y) \in AliasItems(side, x.init, x.edges)
       \/ \E j \in DOMAIN x.end : n = T!GuardName(side, x.end[j].line)
       \/ \E o : /\ o.suffix # side.suffix
                 /\ \E l : n = T!Qualify(o, "init") \/ n = T!GuardName(o, l) \/ n = T!PostName(o, l)

(* Aliases are named for the side and the edge's line; lines are distinct, *)
(* and those of end edges are different from those of edges.               *)
LEMMA AliasesAreUnique ==
  ASSUME NEW I, NEW side, NEW x, OwnLines(x), AliasesApart(I, side, x)
  PROVE  AliasesPresent(I, side, x)
<1>1. ASSUME NEW n, NEW y, Item("alias", n, y) \in I
      PROVE  \/ Item("alias", n, y) \in AliasItems(side, x.init, x.edges)
             \/ \E j \in DOMAIN x.end : n = T!GuardName(side, x.end[j].line)
             \/ \E o : /\ o.suffix # side.suffix
                       /\ \E l : n = T!Qualify(o, "init") \/ n = T!GuardName(o, l) \/ n = T!PostName(o, l)
  BY <1>1 DEF AliasesApart
<1>2. \A n, y : Item("alias", n, y) \in AliasItems(side, x.init, x.edges) => Item("alias", n, y) \in I
  BY DEF AliasesApart
<1>3. OneSays(I, "alias", T!Qualify(side, "init"), x.init.post)
  <2>1. Item("alias", T!Qualify(side, "init"), x.init.post) \in I
    BY <1>2, AliasItemsHave
  <2>2. ASSUME NEW y, Item("alias", T!Qualify(side, "init"), y) \in I PROVE y = x.init.post
    <3> DEFINE n == T!Qualify(side, "init")
    <3>a. \A l : n # T!GuardName(side, l)
      BY NamesDiffer
    <3>1. \A j \in DOMAIN x.end : n # T!GuardName(side, x.end[j].line)
      BY <3>a
    <3>2. \A o : o.suffix # side.suffix =>
            \A l : n # T!Qualify(o, "init") /\ n # T!GuardName(o, l) /\ n # T!PostName(o, l)
      BY NamesDiffer
    <3>3. \A l : n # T!GuardName(side, l) /\ n # T!PostName(side, l)
      BY NamesDiffer
    <3> HIDE DEF n
    <3>4. Item("alias", n, y) \in AliasItems(side, x.init, x.edges)
      BY <1>1, <2>2, <3>1, <3>2 DEF n
    <3> QED BY <3>3, <3>4, AliasItemsHave
  <2> QED BY <2>1, <2>2 DEF OneSays
<1>4. ASSUME NEW i \in DOMAIN x.edges
      PROVE  /\ OneSays(I, "alias", T!GuardName(side, x.edges[i].line), x.edges[i].guard)
             /\ OneSays(I, "alias", T!PostName(side, x.edges[i].line), x.edges[i].post)
  <2>1. /\ Item("alias", T!GuardName(side, x.edges[i].line), x.edges[i].guard) \in I
        /\ Item("alias", T!PostName(side, x.edges[i].line), x.edges[i].post) \in I
    BY <1>2, AliasItemsHave
  <2>2. ASSUME NEW y, Item("alias", T!GuardName(side, x.edges[i].line), y) \in I PROVE y = x.edges[i].guard
    <3> DEFINE n == T!GuardName(side, x.edges[i].line)
    <3>a. \A l : n = T!GuardName(side, l) => x.edges[i].line = l
      BY NamesDiffer
    <3>b. \A l : n # T!PostName(side, l)
      BY NamesDiffer
    <3>1. \A j \in DOMAIN x.end : n # T!GuardName(side, x.end[j].line)
      <4> HIDE DEF n
      <4> QED BY <3>a DEF OwnLines
    <3>2. \A o : o.suffix # side.suffix =>
            \A l : n # T!Qualify(o, "init") /\ n # T!GuardName(o, l) /\ n # T!PostName(o, l)
      BY NamesDiffer
    <3>3. Item("alias", n, y) \in AliasItems(side, x.init, x.edges)
      BY <1>1, <2>2, <3>1, <3>2
    <3>0. n # T!Qualify(side, "init")
      BY NamesDiffer
    <3>4. PICK j \in DOMAIN x.edges : \/ n = T!GuardName(side, x.edges[j].line) /\ y = x.edges[j].guard
                                      \/ n = T!PostName(side, x.edges[j].line) /\ y = x.edges[j].post
      <4> HIDE DEF n
      <4> QED BY <3>0, <3>3, AliasItemsHave
    <3>5. x.edges[i].line = x.edges[j].line /\ y = x.edges[j].guard
      <4> HIDE DEF n
      <4> QED BY <3>a, <3>b, <3>4
    <3> QED BY <3>5 DEF OwnLines
  <2>3. ASSUME NEW y, Item("alias", T!PostName(side, x.edges[i].line), y) \in I PROVE y = x.edges[i].post
    <3> DEFINE n == T!PostName(side, x.edges[i].line)
    <3>a. \A l : n # T!GuardName(side, l)
      BY NamesDiffer
    <3>1. \A j \in DOMAIN x.end : n # T!GuardName(side, x.end[j].line)
      BY <3>a
    <3>2. \A o : o.suffix # side.suffix =>
            \A l : n # T!Qualify(o, "init") /\ n # T!GuardName(o, l) /\ n # T!PostName(o, l)
      BY NamesDiffer
    <3>3. Item("alias", n, y) \in AliasItems(side, x.init, x.edges)
      BY <1>1, <2>3, <3>1, <3>2
    <3>0. n # T!Qualify(side, "init")
      BY NamesDiffer
    <3>4. PICK j \in DOMAIN x.edges : \/ n = T!GuardName(side, x.edges[j].line) /\ y = x.edges[j].guard
                                      \/ n = T!PostName(side, x.edges[j].line) /\ y = x.edges[j].post
      <4> HIDE DEF n
      <4> QED BY <3>0, <3>3, AliasItemsHave
    <3>b. \A l : n = T!PostName(side, l) => x.edges[i].line = l
      BY NamesDiffer
    <3>5. x.edges[i].line = x.edges[j].line /\ y = x.edges[j].post
      <4> HIDE DEF n
      <4> QED BY <3>a, <3>b, <3>4
    <3> QED BY <3>5 DEF OwnLines
  <2> QED BY <2>1, <2>2, <2>3 DEF OneSays
<1> QED BY <1>3, <1>4 DEF AliasesPresent

(* The kinds of declaration that a layer has.                              *)
Relations == {"relation", "reachable"}

(* The items of a layer are the side's or another side's.                  *)
LayerApart(I, target, side, x) ==
  /\ LayerItems(target, side, x.init, x.states, x.edges) \subseteq I
  /\ \A kind \in Relations : \A n, y : Item(kind, n, y) \in I =>
       \/ Item(kind, n, y) \in LayerItems(target, side, x.init, x.states, x.edges)
       \/ \E o, w : o.suffix # side.suffix /\ n = T!Qualify(o, w)

(* The names of a layer differ by their last word.                         *)
LEMMA LayerIsUnique ==
  ASSUME NEW I, NEW target \in {"isabelle", "lean"}, NEW side, NEW x, LayerApart(I, target, side, x)
  PROVE  LayerPresent(I, target, side, x)
<1>1. /\ Word(target, "step") = "step" /\ Word(target, "tau_step") # "step"
  BY Words
<1>2. ASSUME NEW kind \in Relations, NEW w, NEW y, Item(kind, T!Qualify(side, w), y) \in I
      PROVE  Item(kind, T!Qualify(side, w), y) \in LayerItems(target, side, x.init, x.states, x.edges)
  <2>1. \A o, v : o.suffix # side.suffix => T!Qualify(side, w) # T!Qualify(o, v)
    BY NamesDiffer
  <2> QED BY <1>2, <2>1 DEF LayerApart
<1>3. ASSUME NEW kind \in Relations, NEW w, NEW y, Item(kind, T!Qualify(side, w), y) \in I
      PROVE  \/ kind = "relation" /\ w = Word(target, "step") /\ y = Disjuncts(side, x.edges, x.states)
             \/ kind = "reachable" /\ w = Word(target, "reachable") /\ y = ReachableSays(side, x.init, x.states)
             \/ kind = "relation" /\ w = Word(target, "tau_step") /\ y = Disjuncts(side, T!TauEdges(x.edges), x.states)
  <2>1. Item(kind, T!Qualify(side, w), y) \in LayerItems(target, side, x.init, x.states, x.edges)
    BY <1>2, <1>3
  <2> QED BY <2>1, LayerItemsHave, NamesDiffer
<1>4. "relation" \in Relations /\ "reachable" \in Relations
  BY DEF Relations
<1>5. /\ Item("relation", T!Qualify(side, Word(target, "step")), Disjuncts(side, x.edges, x.states)) \in I
      /\ Item("reachable", T!Qualify(side, Word(target, "reachable")), ReachableSays(side, x.init, x.states)) \in I
      /\ Item("relation", T!Qualify(side, Word(target, "tau_step")), Disjuncts(side, T!TauEdges(x.edges), x.states)) \in I
  BY LayerItemsHave DEF LayerApart
<1>6. OneSays(I, "relation", T!Qualify(side, "step"), Disjuncts(side, x.edges, x.states))
  BY <1>1, <1>3, <1>4, <1>5 DEF OneSays
<1>7. OneSays(I, "relation", T!Qualify(side, Word(target, "tau_step")), Disjuncts(side, T!TauEdges(x.edges), x.states))
  BY <1>1, <1>3, <1>4, <1>5 DEF OneSays
<1>8. OneSays(I, "reachable", T!Qualify(side, Word(target, "reachable")), ReachableSays(side, x.init, x.states))
  BY <1>3, <1>4, <1>5 DEF OneSays
<1> QED BY <1>6, <1>7, <1>8 DEF LayerPresent

(* The theorems a theory leaves to be proved of a side.                    *)
LEMMA TheoremsAre ==
  ASSUME NEW I, Tells(Document, I), NEW s, NEW theorem
  PROVE  theorem \in TheoremsOf(s)
           <=> \/ Item("theorem", T!Qualify(s.side, "livelock_free"), theorem) \in I
               \/ Item("theorem", T!Qualify(s.side, "initialisable"), theorem) \in I
<1> DEFINE names == {T!Qualify(s.side, "livelock_free"), T!Qualify(s.side, "initialisable")}
<1>1. theorem \in TheoremsOf(s) <=> \E d \in T!ToSet(Document) :
        d.kind = "theorem" /\ Declares(d) \cap names # {} /\ theorem = d.says
  BY DEF TheoremsOf
<1>2. ASSUME NEW d \in T!ToSet(Document), d.kind = "theorem"
      PROVE  View(d) \in I /\ Declares(d) = {d.declares[1].name}
  BY <1>2 DEF Tells, Items, OneEach, Telling
<1>3. ASSUME theorem \in TheoremsOf(s) PROVE \E n \in names : Item("theorem", n, theorem) \in I
  <2>1. PICK d \in T!ToSet(Document) : d.kind = "theorem" /\ Declares(d) \cap names # {} /\ theorem = d.says
    BY <1>1, <1>3
  <2>2. d.declares[1].name \in names /\ View(d) \in I
    BY <1>2, <2>1
  <2> QED BY <2>1, <2>2 DEF View
<1>4. ASSUME NEW n \in names, Item("theorem", n, theorem) \in I PROVE theorem \in TheoremsOf(s)
  <2>1. PICK d \in T!ToSet(Document) : View(d) = Item("theorem", n, theorem)
    BY <1>4 DEF Tells, Items
  <2>2. d.kind = "theorem" /\ d.declares[1].name = n /\ d.says = theorem
    BY <2>1, ItemIs DEF View
  <2>3. n \in Declares(d)
    BY <1>2, <2>2
  <2> QED BY <1>1, <2>2, <2>3
<1> QED BY <1>3, <1>4

(***************************************************************************)
(* The theory of csdflivelockfree obliges divergence.                      *)
(***************************************************************************)
(* The predicates of the built map are told once each.                     *)
LEMMA KnowsPredicatesGiven ==
  ASSUME IsFiniteSet(DOMAIN m), DOMAIN m \subseteq Nat, NEW I, PredicateItems(m) \subseteq I,
         \A n, x : Item("predicate", n, x) \in I => Item("predicate", n, x) \in PredicateItems(m)
  PROVE  KnowsPredicates(I)
<1>1. \A n, x : Item("predicate", n, x) \in I => \E i : x = PredicateSays(m, i)
  BY PredicateItemsHave
<1>2. DOMAIN m \subseteq Given(m)
  BY AllAreInOrder
<1>3. \A i \in DOMAIN m : Item("predicate", T!PredicateName(i), PredicateSays(m, i)) \in I
  BY <1>2, PredicateItemsHave
<1> QED BY <1>1, <1>3 DEF KnowsPredicates

LEMMA DeclaredHas ==
  ASSUME NEW k, JobIs(k), Declared
  PROVE  /\ job.diagrams[k].start.dst \in DOMAIN job.diagrams[k].states
         /\ \A s \in Nodes(job.diagrams[k]) : IsList(s)
<1> DEFINE d == job.diagrams[k]
<1>1. IsDiagram(d) /\ k \in DOMAIN job.diagrams
  BY JobHas DEF JobIs
<1>2. Nodes(d) \subseteq DOMAIN d.states
  BY <1>1 DEF Declared
<1>3. d.start.dst \in Nodes(d)
  BY DEF Nodes
<1>4. \A s \in DOMAIN d.states : IsList(s)
  BY <1>1 DEF IsDiagram
<1> QED BY <1>2, <1>3, <1>4

(* The lines of a side's edges are those of the diagram's.                 *)
LEMMA SideLines ==
  ASSUME NEW k, JobIs(k)
  PROVE  OwnLines(IRSide(k))
<1> DEFINE d == job.diagrams[k]  x == IRSide(k)
<1>1. IsDiagram(d)
  BY JobHas
<1>2. DOMAIN x.edges = DOMAIN d.edges /\ \A i \in DOMAIN d.edges : x.edges[i].line = d.edges[i].line
  BY DEF IRSide, IREdge
<1>3. DOMAIN x.end = DOMAIN d.end /\ \A i \in DOMAIN d.end : x.end[i].line = d.end[i].line
  BY DEF IRSide
<1> HIDE DEF d, x
<1>4. OwnLines(x)
  BY <1>1, <1>2, <1>3 DEF OwnLines, IsDiagram
<1> QED BY <1>4 DEF x

LEMMA PrefixesAreLists ==
  /\ IsList(T!SideSingle.ctorPrefix) /\ IsList(T!SideSpecStates.ctorPrefix) /\ IsList(T!SideImplStates.ctorPrefix)
<1>1. IsList(<<"S", "t", "_">>) /\ IsList(<<"S", "t", "_", "S", "_">>) /\ IsList(<<"S", "t", "_", "I", "_">>)
  <2>1. <<"S", "t", "_">> = [i \in 1 .. 3 |-> <<"S", "t", "_">>[i]]
    OBVIOUS
  <2>2. <<"S", "t", "_", "S", "_">> = [i \in 1 .. 5 |-> <<"S", "t", "_", "S", "_">>[i]]
    OBVIOUS
  <2>3. <<"S", "t", "_", "I", "_">> = [i \in 1 .. 5 |-> <<"S", "t", "_", "I", "_">>[i]]
    OBVIOUS
  <2>4. 3 \in Nat /\ 5 \in Nat
    OBVIOUS
  <2> QED BY <2>1, <2>2, <2>3, <2>4, FunctionIsList
<1> QED BY <1>1 DEF T!SideSingle, T!SideSpecStates, T!SideImplStates

(* Diverges says of a diagram what Diverging does.                         *)
LEMMA DivergesIs ==
  ASSUME NEW d, NEW valid
  PROVE  Diverges(d, valid) <=> \/ job.mode # "livelock" /\ ~ Holds(d.start.post, valid)
                                \/ Diverging(d, valid)
  BY DEF Diverges, Diverging, Firing

(* What has been handed out when the building is over.                     *)
Ready == PlaceholderInv /\ Built /\ IRInv /\ DOMAIN m \subseteq Nat

(* csdflivelockfree: a diagram that is free of livelock whatever its texts *)
(* mean leaves nothing to be proved.                                       *)
LEMMA LivelockObliged ==
  ASSUME Ready, Declared, job.mode = "livelock", NEW target \in {"isabelle", "lean"},
         Document = Output(target).declarations, NEW valid, NEW s, s.side = T!SideSingle
  PROVE  Diverges(job.diagrams[1], valid) <=> \E theorem \in TheoremsOf(s) : ~ IsTrue(theorem, valid)
<1> DEFINE d == job.diagrams[1]
           ir == IRLivelockFree
           x == IRSide(1)
           side == T!SideSingle
           I == LivelockItems(target, ir)
<1>1. JobIs(1) /\ IsDiagram(d)
  <2>1. /\ job \in Jobs /\ IsList(job.diagrams) /\ Len(job.diagrams) = 1
        /\ \A k \in DOMAIN job.diagrams : IsDiagram(job.diagrams[k])
    BY JobsAssumption DEF Ready, IRInv
  <2>2. DOMAIN job.diagrams = 1 .. 1
    BY <2>1, ListHas
  <2> QED BY <2>1, <2>2 DEF JobIs
<1>2. /\ ir.states = d.states /\ ir.states = x.states /\ ir.init = x.init /\ ir.edges = x.edges /\ ir.predicates = m
      /\ ir.structurally = StructurallyFree(d) /\ x.init.dst = d.start.dst
  BY DEF IRLivelockFree, IRSide
<1>3. SideDenotes(x, d) /\ OwnLines(x)
  BY <1>1, SideIs, SideLines DEF Ready
<1>4. /\ d.start.dst \in DOMAIN d.states /\ \A n \in Nodes(d) : IsList(n)
      /\ IsFiniteSet(DOMAIN d.states) /\ IsFiniteSet(DOMAIN m) /\ DOMAIN m \subseteq Nat /\ IsList(x.edges)
  BY <1>1, <1>3, DeclaredHas DEF Ready, IRInv, IsDiagram, SideDenotes
<1>5. Diverges(d, valid) <=> Diverging(d, valid)
  BY DivergesIs
<1>6. /\ target = "isabelle" => Output(target) = Isabelle!WriteLivelockFree(ir)
      /\ target = "lean" => Output(target) = Lean!WriteLivelockFree(ir)
  BY DEF Output
<1>7. CASE StructurallyFree(d)
  <2>1. Isabelle!WriteLivelockFree(ir) = T!Ok(<< >>) /\ Lean!WriteLivelockFree(ir) = T!Ok(<< >>)
    BY <1>2, <1>7, SameOk DEF Isabelle!WriteLivelockFree, Lean!WriteLivelockFree
  <2>2. Output(target) = T!Ok(<< >>)
    BY <1>6, <2>1
  <2>3. Tells(Document, {})
    BY <2>2, TellsNothing, DoneOk DEF Done
  <2>4. TheoremsOf(s) = {}
    BY <2>3, TheoremsAre
  <2>5. ~ Diverging(d, valid)
    BY <1>7, FreeStaysFree
  <2> QED BY <1>5, <2>4, <2>5
<1>8. CASE ~ StructurallyFree(d)
  <2>1. Done(Output(target), I)
    <3>1. ~ ir.structurally
      BY <1>2, <1>8
    <3>2. IsFiniteSet(DOMAIN ir.states) /\ ir.init.dst \in DOMAIN ir.states
          /\ IsFiniteSet(DOMAIN ir.predicates) /\ IsList(ir.edges)
      BY <1>2, <1>4
    <3> HIDE DEF ir
    <3>3. Done(Isabelle!WriteLivelockFree(ir), LivelockItems("isabelle", ir))
          /\ Done(Lean!WriteLivelockFree(ir), LivelockItems("lean", ir))
      BY <3>1, <3>2, LivelockFreeDone
    <3> QED BY <1>6, <3>3
  <2>2. Tells(Document, I)
    BY <2>1 DEF Done
  <2>3. I = PredicateItems(m) \cup (AliasItems(side, x.init, x.edges) \cup LayerItems(target, side, x.init, x.states, x.edges))
              \cup {Item("theorem", T!Qualify(side, "livelock_free"), LivelockSays(target, side))}
    <3> HIDE DEF ir, x
    <3> QED BY <1>2 DEF LivelockItems
  <2> DEFINE th == LivelockSays(target, side)
             n == T!Qualify(side, "livelock_free")
  <2> HIDE DEF I, d, ir, x, side, th, n
  <2>4. ASSUME NEW kind, NEW a, NEW b
        PROVE  Item(kind, a, b) \in I
                 <=> \/ Item(kind, a, b) \in PredicateItems(m)
                     \/ Item(kind, a, b) \in AliasItems(side, x.init, x.edges)
                     \/ Item(kind, a, b) \in LayerItems(target, side, x.init, x.states, x.edges)
                     \/ kind = "theorem" /\ a = n /\ b = th
    BY <2>3, ItemIs DEF n, th
  <2>5. KnowsPredicates(I)
    <3>1. PredicateItems(m) \subseteq I
      BY <2>3
    <3>2. \A a, b : Item("predicate", a, b) \in I => Item("predicate", a, b) \in PredicateItems(m)
      BY <2>4, AliasItemsHave, LayerItemsHave
    <3> QED BY <1>4, <3>1, <3>2, KnowsPredicatesGiven
  <2>6. AliasesPresent(I, side, x)
    <3>1. AliasItems(side, x.init, x.edges) \subseteq I
      BY <2>3
    <3>2. \A a, b : Item("alias", a, b) \in I => Item("alias", a, b) \in AliasItems(side, x.init, x.edges)
      BY <2>4, PredicateItemsHave, LayerItemsHave
    <3>3. AliasesApart(I, side, x)
      BY <3>1, <3>2 DEF AliasesApart
    <3> QED BY <1>3, <3>3, AliasesAreUnique
  <2>7. LayerPresent(I, target, side, x)
    <3>1. LayerItems(target, side, x.init, x.states, x.edges) \subseteq I
      BY <2>3
    <3>2. \A kind \in Relations : \A a, b : Item(kind, a, b) \in I =>
            Item(kind, a, b) \in LayerItems(target, side, x.init, x.states, x.edges)
      BY <2>4, PredicateItemsHave, AliasItemsHave DEF Relations
    <3>3. LayerApart(I, target, side, x)
      BY <3>1, <3>2 DEF LayerApart
    <3> QED BY <3>3, LayerIsUnique
  <2>8. IsTrue(th, valid) <=> ~ Diverging(d, valid)
    <3>1. IsList(side.ctorPrefix)
      BY PrefixesAreLists DEF side
    <3> QED BY <1>3, <1>4, <2>2, <2>5, <2>6, <2>7, <3>1, LivelockIsTrue DEF th
  <2>9. TheoremsOf(s) = {th}
    <3>1. \A theorem : Item("theorem", T!Qualify(s.side, "livelock_free"), theorem) \in I <=> theorem = th
      <4>1. T!Qualify(s.side, "livelock_free") = n
        BY DEF n, side
      <4>2. ASSUME NEW theorem PROVE Item("theorem", n, theorem) \in I <=> theorem = th
        BY <2>4, PredicateItemsHave, AliasItemsHave, LayerItemsHave
      <4> QED BY <4>1, <4>2
    <3>2. \A theorem : ~ Item("theorem", T!Qualify(s.side, "initialisable"), theorem) \in I
      <4>1. T!Qualify(s.side, "initialisable") # n
        <5>1. "initialisable" # "livelock_free"
          OBVIOUS
        <5>2. \A v, w : T!Qualify(s.side, v) = T!Qualify(side, w) <=> v = w /\ s.side.suffix = side.suffix
          BY NamesDiffer
        <5> QED BY <5>1, <5>2 DEF n
      <4> QED BY <2>4, <4>1, PredicateItemsHave, AliasItemsHave, LayerItemsHave
    <3>3. \A theorem : theorem \in TheoremsOf(s) <=> theorem = th
      BY <2>2, <3>1, <3>2, TheoremsAre
    <3> QED BY <3>3
  <2> QED BY <1>5, <2>8, <2>9 DEF d
<1> QED BY <1>7, <1>8

(***************************************************************************)
(* The theory of csdfrefinement: what it tells of each side.               *)
(***************************************************************************)
(* The suffix of a side's names depends on the side alone.                 *)
LEMMA SuffixNames ==
  ASSUME NEW s, NEW o, s.suffix = o.suffix
  PROVE  /\ \A w : T!Qualify(s, w) = T!Qualify(o, w)
         /\ \A l : T!GuardName(s, l) = T!GuardName(o, l) /\ T!PostName(s, l) = T!PostName(o, l)
  BY DEF T!Qualify, T!GuardName, T!PostName

LEMMA SameAliasItems ==
  ASSUME NEW s, NEW o, s.suffix = o.suffix, NEW init, NEW edges
  PROVE  AliasItems(s, init, edges) = AliasItems(o, init, edges)
<1>1. \A e : EdgeItems(s, e) = EdgeItems(o, e)
  BY SuffixNames DEF EdgeItems
<1>2. EdgesItems(s, edges) = EdgesItems(o, edges)
  <2>1. \A z : z \in EdgesItems(s, edges) <=> \E i \in DOMAIN edges : z \in EdgeItems(s, edges[i])
    BY DEF EdgesItems
  <2>2. \A z : z \in EdgesItems(o, edges) <=> \E i \in DOMAIN edges : z \in EdgeItems(o, edges[i])
    BY DEF EdgesItems
  <2>3. \A z : z \in EdgesItems(s, edges) <=> z \in EdgesItems(o, edges)
    BY <1>1, <2>1, <2>2
  <2> QED BY <2>3
<1>3. T!Qualify(s, "init") = T!Qualify(o, "init")
  BY SuffixNames
<1> QED BY <1>2, <1>3 DEF AliasItems

(* The side's structural check has failed.                                 *)
Owed(s) == s.ir.free = << FALSE >>

LEMMA LayerOfHas ==
  ASSUME NEW target, NEW s, NEW kind, NEW n, NEW y
  PROVE  Item(kind, n, y) \in LayerOf(target, s)
           <=> /\ Owed(s)
               /\ \/ Item(kind, n, y) \in LayerItems(target, s.in, s.ir.init, s.ir.states, s.ir.edges)
                  \/ kind = "theorem" /\ n = T!Qualify(s.side, "livelock_free") /\ y = LivelockSays(target, s.in)
<1>1. CASE Owed(s)
  <2> DEFINE L == LayerItems(target, s.in, s.ir.init, s.ir.states, s.ir.edges)
             z == Item("theorem", T!Qualify(s.side, "livelock_free"), LivelockSays(target, s.in))
  <2>1. LayerOf(target, s) = L \cup {z}
    BY <1>1 DEF LayerOf, Owed
  <2>2. Item(kind, n, y) = z
          <=> kind = "theorem" /\ n = T!Qualify(s.side, "livelock_free") /\ y = LivelockSays(target, s.in)
    BY ItemIs
  <2> HIDE DEF L, z
  <2>3. Item(kind, n, y) \in LayerOf(target, s) <=> Item(kind, n, y) \in L \/ Item(kind, n, y) = z
    BY <2>1
  <2> QED BY <1>1, <2>2, <2>3 DEF L
<1>2. CASE ~ Owed(s)
  BY <1>2 DEF LayerOf, Owed
<1> QED BY <1>1, <1>2

LEMMA StartOfHas ==
  ASSUME NEW s, NEW kind, NEW n, NEW y
  PROVE  Item(kind, n, y) \in StartOf(s)
           <=> /\ s.ir.free # << >>
               /\ kind = "theorem" /\ n = T!Qualify(s.side, "initialisable") /\ y = StartSays(s)
  BY ItemIs DEF StartOf

LEMMA ToldHas ==
  ASSUME NEW target, NEW mode, NEW kind, NEW n, NEW y
  PROVE  Item(kind, n, y) \in RefinementTold(target, mode)
           <=> kind = "theorem" /\ n = RefinementName(mode) /\ y = RefinementSays(target, mode)
  BY ItemIs DEF RefinementTold

LEMMA AliasesOfHave ==
  ASSUME NEW s, NEW kind, NEW n, NEW y
  PROVE  /\ Item(kind, n, y) \in AliasesOf(s)
              <=> \/ Item(kind, n, y) \in AliasItems(s.side, s.ir.init, s.ir.edges)
                  \/ Item(kind, n, y) \in EndItems(s.side, s.ir.end)
         /\ Item(kind, n, y) \in AliasesOf(s) =>
              /\ kind = "alias"
              /\ \E l : n = T!Qualify(s.side, "init") \/ n = T!GuardName(s.side, l) \/ n = T!PostName(s.side, l)
<1>1. Item(kind, n, y) \in AliasesOf(s)
        <=> \/ Item(kind, n, y) \in AliasItems(s.side, s.ir.init, s.ir.edges)
            \/ Item(kind, n, y) \in EndItems(s.side, s.ir.end)
  BY DEF AliasesOf
<1> QED BY <1>1, AliasItemsHave, EndItemsHave

(* One side of csdfrefinement in mode failures-divergence, told of along   *)
(* with the other.                                                         *)
SidesTold(I, target, a, b, mode) ==
  I = PredicateItems(m) \cup (AliasesOf(a) \cup AliasesOf(b))
        \cup LayerOf(target, a) \cup StartOf(a) \cup LayerOf(target, b) \cup StartOf(b)
        \cup RefinementTold(target, mode)

(* What a document of the refinement tells, item by item.                  *)
LEMMA ToldOf ==
  ASSUME NEW I, NEW target, NEW a, NEW b, NEW mode, SidesTold(I, target, a, b, mode), NEW kind, NEW n, NEW y
  PROVE  Item(kind, n, y) \in I
           <=> \/ Item(kind, n, y) \in PredicateItems(m)
               \/ Item(kind, n, y) \in AliasesOf(a) \/ Item(kind, n, y) \in AliasesOf(b)
               \/ Item(kind, n, y) \in LayerOf(target, a) \/ Item(kind, n, y) \in StartOf(a)
               \/ Item(kind, n, y) \in LayerOf(target, b) \/ Item(kind, n, y) \in StartOf(b)
               \/ Item(kind, n, y) \in RefinementTold(target, mode)
  BY DEF SidesTold

(* The names of the two sides are different, and the mode is one that asks *)
(* for livelock freedom.                                                   *)
Apart(a, b) ==
  /\ a.in.suffix = a.side.suffix /\ b.in.suffix = b.side.suffix /\ a.side.suffix # b.side.suffix
  /\ a.ir.free # << >>

(* A refinement's theory tells each predicate once, whichever side it is   *)
(* for.                                                                    *)
LEMMA SideKnowsPredicates ==
  ASSUME IsFiniteSet(DOMAIN m), DOMAIN m \subseteq Nat,
         NEW I, NEW target, NEW a, NEW b, NEW mode, SidesTold(I, target, a, b, mode)
  PROVE  KnowsPredicates(I)
<1>1. PredicateItems(m) \subseteq I
  BY DEF SidesTold
<1>2. ASSUME NEW n, NEW y, Item("predicate", n, y) \in I
      PROVE  Item("predicate", n, y) \in PredicateItems(m)
  <2>1. ASSUME NEW s
        PROVE  /\ Item("predicate", n, y) \notin AliasesOf(s)
               /\ Item("predicate", n, y) \notin LayerOf(target, s)
               /\ Item("predicate", n, y) \notin StartOf(s)
    <3>1. Item("predicate", n, y) \notin AliasesOf(s)
      BY AliasesOfHave
    <3>2. Item("predicate", n, y) \notin LayerOf(target, s)
      BY LayerOfHas, LayerItemsHave
    <3>3. Item("predicate", n, y) \notin StartOf(s)
      BY StartOfHas
    <3> QED BY <3>1, <3>2, <3>3
  <2>2. Item("predicate", n, y) \notin RefinementTold(target, mode)
    BY ToldHas
  <2> QED BY <1>2, <2>1, <2>2, ToldOf
<1> QED BY <1>1, <1>2, KnowsPredicatesGiven

(* The aliases of each side are told once.                                 *)
LEMMA SideAliasesPresent ==
  ASSUME NEW I, NEW target, NEW a, NEW b, NEW mode, SidesTold(I, target, a, b, mode), Apart(a, b), OwnLines(a.ir)
  PROVE  AliasesPresent(I, a.in, a.ir)
<1>1. AliasItems(a.side, a.ir.init, a.ir.edges) = AliasItems(a.in, a.ir.init, a.ir.edges)
  BY SameAliasItems DEF Apart
<1>2. AliasItems(a.in, a.ir.init, a.ir.edges) \subseteq I
  BY <1>1 DEF SidesTold, AliasesOf
<1>3. ASSUME NEW n, NEW y, Item("alias", n, y) \in I
      PROVE  \/ Item("alias", n, y) \in AliasItems(a.in, a.ir.init, a.ir.edges)
             \/ \E j \in DOMAIN a.ir.end : n = T!GuardName(a.in, a.ir.end[j].line)
             \/ \E o : /\ o.suffix # a.in.suffix
                       /\ \E l : n = T!Qualify(o, "init") \/ n = T!GuardName(o, l) \/ n = T!PostName(o, l)
  <2>1. ASSUME NEW s
        PROVE  Item("alias", n, y) \notin LayerOf(target, s) /\ Item("alias", n, y) \notin StartOf(s)
    <3>1. Item("alias", n, y) \notin LayerOf(target, s)
      BY LayerOfHas, LayerItemsHave
    <3>2. Item("alias", n, y) \notin StartOf(s)
      BY StartOfHas
    <3> QED BY <3>1, <3>2
  <2>2. Item("alias", n, y) \notin RefinementTold(target, mode) /\ Item("alias", n, y) \notin PredicateItems(m)
    BY ToldHas, PredicateItemsHave
  <2>3. Item("alias", n, y) \in AliasesOf(a) \/ Item("alias", n, y) \in AliasesOf(b)
    BY <1>3, <2>1, <2>2, ToldOf
  <2>4. CASE Item("alias", n, y) \in AliasesOf(b)
    <3>1. \E l : n = T!Qualify(b.side, "init") \/ n = T!GuardName(b.side, l) \/ n = T!PostName(b.side, l)
      BY <2>4, AliasesOfHave
    <3>2. b.side.suffix # a.in.suffix
      BY DEF Apart
    <3> QED BY <3>1, <3>2
  <2>5. CASE Item("alias", n, y) \in EndItems(a.side, a.ir.end)
    <3>1. \E j \in DOMAIN a.ir.end : n = T!GuardName(a.side, a.ir.end[j].line)
      BY <2>5, EndItemsHave
    <3>2. \A l : T!GuardName(a.side, l) = T!GuardName(a.in, l)
      BY SuffixNames DEF Apart
    <3> QED BY <3>1, <3>2
  <2> QED BY <1>1, <2>3, <2>4, <2>5, AliasesOfHave
<1>4. AliasesApart(I, a.in, a.ir)
  BY <1>2, <1>3 DEF AliasesApart
<1> QED BY <1>4, AliasesAreUnique

(* The layer of each side that is owed a livelock theorem is told once.    *)
LEMMA SideLayerPresent ==
  ASSUME NEW I, NEW target \in {"isabelle", "lean"}, NEW a, NEW b, NEW mode, SidesTold(I, target, a, b, mode),
         Apart(a, b), Owed(a)
  PROVE  LayerPresent(I, target, a.in, a.ir)
<1>1. LayerItems(target, a.in, a.ir.init, a.ir.states, a.ir.edges) \subseteq I
  BY DEF SidesTold, LayerOf, Owed
<1>2. ASSUME NEW kind \in Relations, NEW n, NEW y, Item(kind, n, y) \in I
      PROVE  \/ Item(kind, n, y) \in LayerItems(target, a.in, a.ir.init, a.ir.states, a.ir.edges)
             \/ \E o, w : o.suffix # a.in.suffix /\ n = T!Qualify(o, w)
  <2>0. kind # "theorem" /\ kind # "alias" /\ kind # "predicate"
    BY DEF Relations
  <2>1. \A s : Item(kind, n, y) \notin AliasesOf(s) /\ Item(kind, n, y) \notin StartOf(s)
    BY <2>0, AliasesOfHave, StartOfHas
  <2>2. Item(kind, n, y) \notin RefinementTold(target, mode) /\ Item(kind, n, y) \notin PredicateItems(m)
    BY <2>0, ToldHas, PredicateItemsHave
  <2>3. Item(kind, n, y) \in LayerOf(target, a) \/ Item(kind, n, y) \in LayerOf(target, b)
    BY <1>2, <2>1, <2>2, ToldOf
  <2>4. CASE Item(kind, n, y) \in LayerOf(target, b)
    <3>1. Item(kind, n, y) \in LayerItems(target, b.in, b.ir.init, b.ir.states, b.ir.edges)
      BY <2>0, <2>4, LayerOfHas
    <3>2. \E w : n = T!Qualify(b.in, w)
      BY <3>1, LayerItemsHave
    <3>3. b.in.suffix # a.in.suffix
      BY DEF Apart
    <3> QED BY <3>2, <3>3
  <2>5. CASE Item(kind, n, y) \in LayerOf(target, a)
    BY <2>0, <2>5, LayerOfHas
  <2> QED BY <2>3, <2>4, <2>5
<1>3. LayerApart(I, target, a.in, a.ir)
  BY <1>1, <1>2 DEF LayerApart
<1> QED BY <1>3, LayerIsUnique

(* The theorems of a side are the one on its start and, where it is owed,  *)
(* the one on its livelock.                                                *)
LEMMA SideTheorems ==
  ASSUME NEW I, Tells(Document, I), NEW target, NEW a, NEW b, NEW mode, SidesTold(I, target, a, b, mode),
         Apart(a, b), NEW s, s.side = a.side, NEW theorem
  PROVE  theorem \in TheoremsOf(s)
           <=> \/ theorem = StartSays(a)
               \/ Owed(a) /\ theorem = LivelockSays(target, a.in)
<1> DEFINE n1 == T!Qualify(s.side, "livelock_free")  n2 == T!Qualify(s.side, "initialisable")
           Told(n) == \/ Item("theorem", n, theorem) \in LayerOf(target, a) \/ Item("theorem", n, theorem) \in StartOf(a)
                      \/ Item("theorem", n, theorem) \in LayerOf(target, b) \/ Item("theorem", n, theorem) \in StartOf(b)
                      \/ Item("theorem", n, theorem) \in RefinementTold(target, mode)
<1>1. \A n : Item("theorem", n, theorem) \in I <=> Told(n)
  <2> TAKE n
  <2>1. \A t : Item("theorem", n, theorem) \notin AliasesOf(t)
    BY AliasesOfHave
  <2>2. Item("theorem", n, theorem) \notin PredicateItems(m)
    BY PredicateItemsHave
  <2> QED BY <2>1, <2>2, ToldOf
<1>2. ASSUME NEW t, NEW n
      PROVE  Item("theorem", n, theorem) \in LayerOf(target, t)
        <=> Owed(t) /\ n = T!Qualify(t.side, "livelock_free") /\ theorem = LivelockSays(target, t.in)
  <2>1. Item("theorem", n, theorem) \notin LayerItems(target, t.in, t.ir.init, t.ir.states, t.ir.edges)
    BY LayerItemsHave
  <2> QED BY <2>1, LayerOfHas
<1>3. \A t, n : Item("theorem", n, theorem) \in StartOf(t)
        <=> t.ir.free # << >> /\ n = T!Qualify(t.side, "initialisable") /\ theorem = StartSays(t)
  BY StartOfHas
<1>4. \A n : Item("theorem", n, theorem) \in RefinementTold(target, mode) => n = RefinementName(mode)
  BY ToldHas
<1>5. n1 # n2 /\ n1 # RefinementName(mode) /\ n2 # RefinementName(mode)
  BY DEF T!Qualify, RefinementName
<1>6. /\ n1 # T!Qualify(b.side, "livelock_free") /\ n1 # T!Qualify(b.side, "initialisable")
      /\ n2 # T!Qualify(b.side, "livelock_free") /\ n2 # T!Qualify(b.side, "initialisable")
  <2>1. s.side.suffix # b.side.suffix
    BY DEF Apart
  <2>2. \A v, w : T!Qualify(s.side, v) # T!Qualify(b.side, w)
    BY <2>1, NamesDiffer
  <2> QED BY <2>2
<1>7. n1 = T!Qualify(a.side, "livelock_free") /\ n2 = T!Qualify(a.side, "initialisable") /\ a.ir.free # << >>
  BY DEF Apart
<1>8. theorem \in TheoremsOf(s) <=> Told(n1) \/ Told(n2)
  BY <1>1, TheoremsAre
<1> HIDE DEF n1, n2
<1>9. Told(n1) <=> Owed(a) /\ theorem = LivelockSays(target, a.in)
  BY <1>2, <1>3, <1>4, <1>5, <1>6, <1>7
<1>10. Told(n2) <=> theorem = StartSays(a)
  BY <1>2, <1>3, <1>4, <1>5, <1>6, <1>7
<1> HIDE DEF Told
<1> QED BY <1>8, <1>9, <1>10

(***************************************************************************)
(* The theory of csdfrefinement obliges divergence, and the induction.     *)
(***************************************************************************)
(* A side of the IR is the diagram d, and its livelock is owed unless d is *)
(* structurally free.                                                      *)
SideMeets(a, d) ==
  /\ SideDenotes(a.ir, d) /\ OwnLines(a.ir) /\ IsList(a.in.ctorPrefix)
  /\ \A n \in Nodes(d) : IsList(n)
  /\ Owed(a) <=> ~ StructurallyFree(d)

(* Of one side of a refinement: it cannot start or it diverges exactly if  *)
(* one of its theorems is false.  A side whose livelock theorem is left    *)
(* out is structurally free, and does not diverge.                         *)
LEMMA SideObliged ==
  ASSUME IsFiniteSet(DOMAIN m), DOMAIN m \subseteq Nat,
         NEW I, Tells(Document, I), NEW target \in {"isabelle", "lean"}, NEW a, NEW b, NEW mode,
         SidesTold(I, target, a, b, mode), Apart(a, b),
         NEW d, SideMeets(a, d), NEW valid, NEW s, s.side = a.side
  PROVE  ~ Holds(d.start.post, valid) \/ Diverging(d, valid)
           <=> \E theorem \in TheoremsOf(s) : ~ IsTrue(theorem, valid)
<1>0. /\ SideDenotes(a.ir, d) /\ OwnLines(a.ir) /\ IsList(a.in.ctorPrefix)
      /\ \A n \in Nodes(d) : IsList(n)
      /\ Owed(a) <=> ~ StructurallyFree(d)
  BY DEF SideMeets
<1>1. KnowsPredicates(I)
  BY SideKnowsPredicates
<1>2. AliasesPresent(I, a.in, a.ir)
  BY <1>0, SideAliasesPresent
<1>3. IsTrue(StartSays(a), valid) <=> Holds(d.start.post, valid)
  <2>1. PICK th : th = StartSays(a)
    OBVIOUS
  <2>2. th.claims = "satisfiable" /\ th.of.name = T!Qualify(a.side, "init")
    BY <2>1 DEF StartSays, StartTerm, T!Term
  <2>3. T!Qualify(a.side, "init") = T!Qualify(a.in, "init")
    BY SuffixNames DEF Apart
  <2>4. PICK n : n = th.of.name
    OBVIOUS
  <2>5. OneSays(I, "alias", n, a.ir.init.post)
    BY <1>2, <2>2, <2>3, <2>4 DEF AliasesPresent
  <2>6. Denotes(a.ir.init.post, d.start.post)
    BY <1>0 DEF SideDenotes
  <2>7. Stands(Document, n).text = d.start.post
    BY <1>1, <2>5, <2>6, StandsIs
  <2>8. IsTrue(th, valid) <=> Holds(Stands(Document, th.of.name).text, valid)
    BY <2>2 DEF IsTrue
  <2> QED BY <2>1, <2>4, <2>7, <2>8
<1>4. ASSUME Owed(a) PROVE IsTrue(LivelockSays(target, a.in), valid) <=> ~ Diverging(d, valid)
  <2>1. LayerPresent(I, target, a.in, a.ir)
    BY <1>4, SideLayerPresent
  <2>2. PICK side : side = a.in
    OBVIOUS
  <2>3. PICK x : x = a.ir
    OBVIOUS
  <2>4. IsTrue(LivelockSays(target, side), valid) <=> ~ Diverging(d, valid)
    BY <1>0, <1>1, <1>2, <2>1, <2>2, <2>3, LivelockIsTrue
  <2> QED BY <2>2, <2>4
<1>5. ~ Owed(a) => ~ Diverging(d, valid)
  BY <1>0, FreeStaysFree
<1>6. \A theorem : theorem \in TheoremsOf(s)
        <=> theorem = StartSays(a) \/ (Owed(a) /\ theorem = LivelockSays(target, a.in))
  BY SideTheorems
<1> DEFINE start == StartSays(a)  live == LivelockSays(target, a.in)
<1> HIDE DEF start, live
<1>7. (\E theorem \in TheoremsOf(s) : ~ IsTrue(theorem, valid))
        <=> ~ IsTrue(start, valid) \/ (Owed(a) /\ ~ IsTrue(live, valid))
  <2>1. \A theorem : theorem \in TheoremsOf(s) <=> theorem = start \/ (Owed(a) /\ theorem = live)
    BY <1>6 DEF start, live
  <2>2. start \in TheoremsOf(s) /\ (Owed(a) => live \in TheoremsOf(s))
    BY <2>1
  <2>3. ASSUME NEW theorem \in TheoremsOf(s), ~ IsTrue(theorem, valid)
        PROVE  ~ IsTrue(start, valid) \/ (Owed(a) /\ ~ IsTrue(live, valid))
    <3>1. CASE theorem = start
      BY <2>3, <3>1
    <3>2. CASE Owed(a) /\ theorem = live
      BY <2>3, <3>2
    <3> QED BY <2>1, <3>1, <3>2
  <2> QED BY <2>2, <2>3
<1>8. (IsTrue(start, valid) <=> Holds(d.start.post, valid)) /\ (Owed(a) => (IsTrue(live, valid) <=> ~ Diverging(d, valid)))
  BY <1>3, <1>4 DEF start, live
<1> QED BY <1>5, <1>7, <1>8

(* The sides are apart in either order, so SideObliged holds of both.      *)
LEMMA RefinementObliged ==
  ASSUME Ready, Declared, job.mode = "failures-divergence", NEW target \in {"isabelle", "lean"},
         Document = Output(target).declarations, NEW valid
  PROVE  \A k \in {1, 2} : \A s : s.side = (IF k = 1 THEN T!SideSpec ELSE T!SideImpl) =>
           (Diverges(job.diagrams[k], valid) <=> \E theorem \in TheoremsOf(s) : ~ IsTrue(theorem, valid))
<1> DEFINE ir == IRRefinement
           S(k) == Lean!Sides(ir)[k]
           I == RefinementItems(target, ir)
<1>1. JobIs(1) /\ JobIs(2) /\ IsDiagram(job.diagrams[1]) /\ IsDiagram(job.diagrams[2])
  <2>1. /\ job \in Jobs /\ IsList(job.diagrams) /\ Len(job.diagrams) = 2
        /\ \A k \in DOMAIN job.diagrams : IsDiagram(job.diagrams[k])
    BY JobsAssumption DEF Ready, IRInv
  <2>2. DOMAIN job.diagrams = 1 .. 2
    BY <2>1, ListHas
  <2>3. 1 \in 1 .. 2 /\ 2 \in 1 .. 2
    OBVIOUS
  <2> QED BY <2>1, <2>2, <2>3 DEF JobIs
<1>2. /\ ir.sides[1] = IRSide(1) /\ ir.sides[2] = IRSide(2) /\ ir.predicates = m
  BY DEF IRRefinement
<1>3. /\ S(1).ir = IRSide(1) /\ S(1).side = T!SideSpec /\ S(1).in = T!SideSpecStates
      /\ S(2).ir = IRSide(2) /\ S(2).side = T!SideImpl /\ S(2).in = T!SideImplStates
  BY <1>2 DEF Lean!Sides, Lean!SideSpec, Lean!SideImpl, Lean!SideSpecStates, Lean!SideImplStates,
     T!SideSpec, T!SideImpl, T!SideSpecStates, T!SideImplStates
<1>4. /\ S(1).in.suffix = S(1).side.suffix /\ S(2).in.suffix = S(2).side.suffix
      /\ S(1).side.suffix # S(2).side.suffix
      /\ IsList(S(1).in.ctorPrefix) /\ IsList(S(2).in.ctorPrefix)
  <2> HIDE DEF S
  <2>1. /\ T!SideSpec.suffix = "_S" /\ T!SideImpl.suffix = "_I"
        /\ T!SideSpecStates.suffix = "_S" /\ T!SideImplStates.suffix = "_I"
    BY DEF T!SideSpec, T!SideImpl, T!SideSpecStates, T!SideImplStates
  <2> QED BY <1>3, <2>1, PrefixesAreLists
<1>5. ASSUME NEW k
      PROVE  /\ IRSide(k).free # << >>
             /\ IRSide(k).free = << FALSE >> <=> ~ StructurallyFree(job.diagrams[k])
  <2>1. IRSide(k).free = << StructurallyFree(job.diagrams[k]) >>
    BY DEF IRSide, Verdict
  <2>2. StructurallyFree(job.diagrams[k]) \in BOOLEAN
    BY DEF StructurallyFree
  <2>3. << TRUE >> # << FALSE >> /\ << TRUE >> # << >> /\ << FALSE >> # << >>
    OBVIOUS
  <2>4. CASE StructurallyFree(job.diagrams[k])
    <3>1. StructurallyFree(job.diagrams[k]) = TRUE
      BY <2>2, <2>4
    <3>2. IRSide(k).free = << TRUE >>
      BY <2>1, <3>1
    <3> QED BY <2>3, <2>4, <3>2
  <2>5. CASE ~ StructurallyFree(job.diagrams[k])
    <3>1. StructurallyFree(job.diagrams[k]) = FALSE
      BY <2>2, <2>5
    <3>2. IRSide(k).free = << FALSE >>
      BY <2>1, <3>1
    <3> QED BY <2>3, <2>5, <3>2
  <2> QED BY <2>4, <2>5
<1>6. \A k \in {1, 2} : \A valid_ : Diverges(job.diagrams[k], valid_)
        <=> ~ Holds(job.diagrams[k].start.post, valid_) \/ Diverging(job.diagrams[k], valid_)
  BY DivergesIs
<1>7. \A k \in {1, 2} : /\ SideDenotes(IRSide(k), job.diagrams[k]) /\ OwnLines(IRSide(k))
                        /\ \A n \in Nodes(job.diagrams[k]) : IsList(n)
                        /\ job.diagrams[k].start.dst \in DOMAIN job.diagrams[k].states
                        /\ SideCanBeWritten(IRSide(k)) /\ Starts(IRSide(k))
  <2> SUFFICES ASSUME NEW k \in {1, 2}
               PROVE  /\ SideDenotes(IRSide(k), job.diagrams[k]) /\ OwnLines(IRSide(k))
                      /\ \A n \in Nodes(job.diagrams[k]) : IsList(n)
                      /\ job.diagrams[k].start.dst \in DOMAIN job.diagrams[k].states
                      /\ SideCanBeWritten(IRSide(k)) /\ Starts(IRSide(k))
    OBVIOUS
  <2>1. JobIs(k) /\ IsDiagram(job.diagrams[k])
    BY <1>1
  <2>2. SideDenotes(IRSide(k), job.diagrams[k]) /\ OwnLines(IRSide(k)) /\ SideCanBeWritten(IRSide(k))
    BY <2>1, SideIs, SideLines, SideCanBe DEF Ready
  <2>3. Starts(IRSide(k))
    BY <2>1, <2>2, DeclaredHas DEF Starts, SideDenotes
  <2> QED BY <2>1, <2>2, <2>3, DeclaredHas
<1>8. IsFiniteSet(DOMAIN m) /\ DOMAIN m \subseteq Nat
  BY DEF Ready, IRInv
<1>9. Tells(Document, I)
  <2>1. Output(target) = (IF target = "isabelle" THEN Isabelle!WriteRefinement(ir) ELSE Lean!WriteRefinement(ir))
    BY DEF Output
  <2>2. SideCanBeWritten(ir.sides[1]) /\ SideCanBeWritten(ir.sides[2]) /\ Starts(ir.sides[1]) /\ Starts(ir.sides[2])
        /\ IsFiniteSet(DOMAIN ir.predicates)
    BY <1>2, <1>7, <1>8
  <2> HIDE DEF ir
  <2>3. Done(Isabelle!WriteRefinement(ir), RefinementItems("isabelle", ir))
        /\ Done(Lean!WriteRefinement(ir), RefinementItems("lean", ir))
    BY <2>2, RefinementDone
  <2> QED BY <2>1, <2>3 DEF Done
<1> HIDE DEF ir, S
<1>10. PICK a : a = S(1)
  OBVIOUS
<1>11. PICK b : b = S(2)
  OBVIOUS
<1>12. SidesTold(I, target, a, b, ir.mode)
  BY <1>2, <1>10, <1>11 DEF SidesTold, RefinementItems, S
<1>13. SidesTold(I, target, b, a, ir.mode)
  BY <1>12 DEF SidesTold
<1>14. Apart(a, b) /\ Apart(b, a)
  BY <1>3, <1>4, <1>5, <1>10, <1>11 DEF Apart
<1> HIDE DEF I
<1>15. ASSUME NEW s, s.side = T!SideSpec
       PROVE  Diverges(job.diagrams[1], valid) <=> \E theorem \in TheoremsOf(s) : ~ IsTrue(theorem, valid)
  <2>1. PICK d : d = job.diagrams[1]
    OBVIOUS
  <2>2. /\ SideDenotes(a.ir, d) /\ OwnLines(a.ir) /\ \A n \in Nodes(d) : IsList(n)
        /\ Owed(a) <=> ~ StructurallyFree(d)
    BY <1>3, <1>5, <1>7, <1>10, <2>1 DEF Owed
  <2>3. s.side = a.side /\ IsList(a.in.ctorPrefix)
    BY <1>3, <1>4, <1>10, <1>15
  <2>5. SideMeets(a, d)
    BY <2>2, <2>3 DEF SideMeets
  <2>4. ~ Holds(d.start.post, valid) \/ Diverging(d, valid)
           <=> \E theorem \in TheoremsOf(s) : ~ IsTrue(theorem, valid)
    BY <1>8, <1>9, <1>12, <1>14, <2>3, <2>5, SideObliged, SMTT(30)
  <2> QED BY <1>6, <2>1, <2>4
<1>16. ASSUME NEW s, s.side = T!SideImpl
       PROVE  Diverges(job.diagrams[2], valid) <=> \E theorem \in TheoremsOf(s) : ~ IsTrue(theorem, valid)
  <2>1. PICK d : d = job.diagrams[2]
    OBVIOUS
  <2>2. /\ SideDenotes(b.ir, d) /\ OwnLines(b.ir) /\ \A n \in Nodes(d) : IsList(n)
        /\ Owed(b) <=> ~ StructurallyFree(d)
    BY <1>3, <1>5, <1>7, <1>11, <2>1 DEF Owed
  <2>3. s.side = b.side /\ IsList(b.in.ctorPrefix)
    BY <1>3, <1>4, <1>11, <1>16
  <2>5. SideMeets(b, d)
    BY <2>2, <2>3 DEF SideMeets
  <2>4. ~ Holds(d.start.post, valid) \/ Diverging(d, valid)
           <=> \E theorem \in TheoremsOf(s) : ~ IsTrue(theorem, valid)
    BY <1>8, <1>9, <1>13, <1>14, <2>3, <2>5, SideObliged, SMTT(30)
  <2> QED BY <1>6, <2>1, <2>4
<1> QED BY <1>15, <1>16

(* What a backend writes of the representation, and how the tool ends.     *)
IsOutput(target) ==
  Document = Output(target).declarations /\ written[1].exit = Exit(Output(target).outcome)

(* What has been written stays what the backends write.                    *)
WrittenInv ==
  /\ IRInv /\ PlaceholderInv /\ DOMAIN m \subseteq Nat
  /\ written # << >> =>
       /\ Built
       /\ \E target \in {"isabelle", "lean"} : IsOutput(target)

(* What the backends write is obliged, for one diagram and for two.        *)
LEMMA WrittenInvObliges == ASSUME WrittenInv PROVE DivergenceIsObliged
<1> SUFFICES ASSUME written # << >>, Declared, job.mode \in {"livelock", "failures-divergence"},
                    NEW valid \in SUBSET Texts, NEW k \in DOMAIN Sides
             PROVE  Diverges(job.diagrams[k], valid)
                      <=> \E theorem \in TheoremsOf(Sides[k]) : ~ IsTrue(theorem, valid)
  BY DEF DivergenceIsObliged
<1>1. Ready
  BY DEF WrittenInv, Ready
<1>2. PICK target \in {"isabelle", "lean"} : Document = Output(target).declarations
  BY DEF WrittenInv, IsOutput
<1>3. CASE job.mode = "livelock"
  <2>1. k = 1 /\ Sides[k].side = T!SideSingle
    BY <1>3 DEF Sides
  <2>2. PICK s : s = Sides[k]
    OBVIOUS
  <2>3. Diverges(job.diagrams[1], valid) <=> \E theorem \in TheoremsOf(s) : ~ IsTrue(theorem, valid)
    BY <1>1, <1>2, <1>3, <2>1, <2>2, LivelockObliged
  <2> QED BY <2>1, <2>2, <2>3
<1>4. CASE job.mode = "failures-divergence"
  <2>1. k \in {1, 2} /\ Sides[k].side = (IF k = 1 THEN T!SideSpec ELSE T!SideImpl)
    BY <1>4 DEF Sides
  <2> QED BY <1>1, <1>2, <1>4, <2>1, RefinementObliged
<1> QED BY <1>3, <1>4

LEMMA InitWrittenInv == Init => WrittenInv
<1> SUFFICES ASSUME Init PROVE WrittenInv
  OBVIOUS
<1>1. IRInv
  BY InitIRInv
<1>2. PlaceholderInv
  BY StartsInverse DEF Init
<1>3. DOMAIN m \subseteq Nat /\ written = << >>
  BY DEF Init, BuildInitial, Empty
<1> QED BY <1>1, <1>2, <1>3 DEF WrittenInv

(* A job hands a list of predicates to the adder.                          *)
LEMMA OccurrencesAreList ==
  ASSUME job \in Jobs
  PROVE  IsList(Occurrences)
<1>1. /\ IsList(job.diagrams) /\ \A k \in DOMAIN job.diagrams : IsDiagram(job.diagrams[k])
      /\ Len(job.diagrams) = 1 \/ Len(job.diagrams) = 2
  BY JobsAssumption
<1>2. DOMAIN job.diagrams = 1 .. Len(job.diagrams)
  BY <1>1, ListHas
<1>3. CASE Len(job.diagrams) = 1
  <2>1. IsDiagram(job.diagrams[1])
    BY <1>1, <1>2, <1>3
  <2>2. IsList(SidePredicates(job.diagrams[1]))
    BY <2>1, SidePredicatesAre DEF PredicatesInPlace
  <2> QED BY <1>3, <2>2 DEF Occurrences, OccurrencesOf
<1>4. CASE Len(job.diagrams) = 2
  <2>1. IsDiagram(job.diagrams[1]) /\ IsDiagram(job.diagrams[2])
    BY <1>1, <1>2, <1>4
  <2>2. IsList(SidePredicates(job.diagrams[1])) /\ IsList(SidePredicates(job.diagrams[2]))
    BY <2>1, SidePredicatesAre DEF PredicatesInPlace
  <2>3. Occurrences = SidePredicates(job.diagrams[1]) \o SidePredicates(job.diagrams[2])
    BY <1>4 DEF Occurrences, OccurrencesOf
  <2> QED BY <2>2, <2>3, ListJoin
<1> QED BY <1>1, <1>3, <1>4

(* What is added is a signature, so its ids are numbers.                   *)
LEMMA OccurrenceIsHashed ==
  ASSUME PlaceholderInv, job \in Jobs, at <= Len(Occurrences)
  PROVE  Signature(Occurrences[at]) \in Signatures
<1>1. DOMAIN Occurrences = 1 .. Len(Occurrences) /\ Len(Occurrences) \in Nat
  BY OccurrencesAreList, ListHas
<1>2. at \in Nat /\ at >= 1
  BY DEF PlaceholderInv, Handed
<1>3. at \in DOMAIN Occurrences
  BY <1>1, <1>2
<1>4. at \in DOMAIN OccurrencesOf(job) /\ Occurrences[at] = OccurrencesOf(job)[at]
  BY <1>3 DEF Occurrences
<1> QED BY <1>4 DEF Signatures

(* What would be written depends on what was built only.                   *)
LEMMA OutputKept ==
  ASSUME UNCHANGED buildVars
  PROVE  /\ \A target : Output(target)' = Output(target)
         /\ \A outcome : Exit(outcome)' = Exit(outcome)
<1>1. job' = job /\ m' = m /\ name' = name
  BY DEF buildVars
<1>2. ASSUME NEW k PROVE IRSide(k)' = IRSide(k)
  BY <1>1 DEF IRSide, IREdge, Offset, Verdict
<1>3. IRLivelockFree' = IRLivelockFree
  BY <1>1, <1>2 DEF IRLivelockFree
<1>4. Alphabet' = Alphabet
  BY <1>1 DEF Alphabet
<1>5. IRRefinement' = IRRefinement
  BY <1>1, <1>2, <1>4 DEF IRRefinement
<1> QED BY <1>1, <1>3, <1>5 DEF Output, Exit

(* The document is written once, from a build that is not changed after.   *)
LEMMA NextWrittenInv == WrittenInv /\ [Next]_vars => WrittenInv'
<1> SUFFICES ASSUME WrittenInv, [Next]_vars PROVE WrittenInv'
  OBVIOUS
<1>1. IRInv' 
  BY NextIRInv DEF WrittenInv
<1>2. PlaceholderInv'
  <2>1. [Add]_buildVars
    BY DEF Next, Build, Compile, vars
  <2> QED BY <2>1, StepsKeepInverse DEF WrittenInv
<1>3. (DOMAIN m \subseteq Nat)'
  <2>1. CASE m' = m
    BY <2>1 DEF WrittenInv
  <2>2. CASE Add /\ AddNew
    <3>1. PICK k \in 0 .. IdSpace - 1 :
            DOMAIN m' = DOMAIN m \cup {Probe(Signature(Occurrences[at]), k)}
      BY <2>2 DEF AddNew
    <3>2. Signature(Occurrences[at]) \in Signatures
      BY <2>2, OccurrenceIsHashed DEF WrittenInv, IRInv, Add
    <3>3. Probe(Signature(Occurrences[at]), k) \in Nat
      BY <3>2, HashAssumption, IdSpaceAssumption DEF Probe
    <3> QED BY <3>1, <3>3 DEF WrittenInv
  <2>3. CASE UNCHANGED vars
    BY <2>1, <2>3 DEF vars, buildVars
  <2> QED BY <2>1, <2>2, <2>3 DEF Next, Build, Add, AddKnown, Compile, buildVars, vars
<1>4. ASSUME written' # << >>
      PROVE  Built' /\ (\E target \in {"isabelle", "lean"} : IsOutput(target))'
  <2>1. CASE Build
    <3>1. at > Len(Occurrences) /\ at <= Len(Occurrences)
      BY <1>4, <2>1 DEF Build, Add, WrittenInv, Built
    <3>2. Len(Occurrences) \in Nat /\ at \in Nat
      BY OccurrencesAreList, ListHas DEF WrittenInv, IRInv, PlaceholderInv, Handed
    <3> QED BY <3>1, <3>2
  <2>2. CASE \E target \in {"isabelle", "lean"} : Compile(target)
    <3>1. PICK target \in {"isabelle", "lean"} : Compile(target)
      BY <2>2
    <3>2. /\ Built /\ UNCHANGED buildVars /\ written'[1].declarations = Output(target).declarations
          /\ written'[1].exit = Exit(Output(target).outcome)
      BY <3>1 DEF Compile
    <3>3. IsOutput(target)'
      BY <3>2, OutputKept DEF Document, IsOutput
    <3>4. Built'
      BY <3>2 DEF Built, Occurrences, buildVars
    <3> QED BY <3>3, <3>4
  <2>3. CASE UNCHANGED vars
    <3>1. UNCHANGED buildVars /\ written' = written
      BY <2>3 DEF vars
    <3>2. Built /\ \E target \in {"isabelle", "lean"} : IsOutput(target)
      BY <1>4, <3>1 DEF WrittenInv
    <3>3. Built'
      BY <3>1, <3>2 DEF Built, Occurrences, buildVars
    <3>4. PICK target \in {"isabelle", "lean"} : IsOutput(target)
      BY <3>2
    <3>5. IsOutput(target)'
      BY <3>1, <3>4, OutputKept DEF Document, IsOutput
    <3> QED BY <3>3, <3>5
  <2> QED BY <2>1, <2>2, <2>3 DEF Next
<1> QED BY <1>1, <1>2, <1>3, <1>4 DEF WrittenInv

(* Whatever the texts of the diagrams turn out to mean, a diagram diverges *)
(* exactly if a theorem that its theory leaves to be proved is false.      *)
THEOREM DivergenceObliged == Spec => []DivergenceIsObliged
<1> QED BY InitWrittenInv, NextWrittenInv, WrittenInvObliges, PTL DEF Spec

(***************************************************************************)
(* A theory is written to the end.                                         *)
(***************************************************************************)
(* What a theory tells of predicates is what the representation has.       *)
TellsPredicatesOf(I) ==
  \A n, x : Item("predicate", n, x) \in I => \E i : x = PredicateSays(m, i)

(* csdflivelockfree writes its theory to the end.                          *)
LEMMA LivelockDone ==
  ASSUME Ready, Declared, job.mode = "livelock", NEW target \in {"isabelle", "lean"}
  PROVE  \E I : Done(Output(target), I) /\ TellsPredicatesOf(I)
<1> DEFINE d == job.diagrams[1]
           ir == IRLivelockFree
           x == IRSide(1)
           I == LivelockItems(target, ir)
<1>1. JobIs(1) /\ IsDiagram(d)
  <2>1. /\ job \in Jobs /\ IsList(job.diagrams) /\ Len(job.diagrams) = 1
        /\ \A k \in DOMAIN job.diagrams : IsDiagram(job.diagrams[k])
    BY JobsAssumption DEF Ready, IRInv
  <2>2. DOMAIN job.diagrams = 1 .. 1
    BY <2>1, ListHas
  <2> QED BY <2>1, <2>2 DEF JobIs
<1>2. /\ ir.states = d.states /\ ir.init = x.init /\ ir.edges = x.edges /\ ir.predicates = m
      /\ x.init.dst = d.start.dst
  BY DEF IRLivelockFree, IRSide
<1>3. SideDenotes(x, d)
  BY <1>1, SideIs DEF Ready
<1>4. /\ IsFiniteSet(DOMAIN ir.states) /\ ir.init.dst \in DOMAIN ir.states
      /\ IsFiniteSet(DOMAIN ir.predicates) /\ IsList(ir.edges)
  BY <1>1, <1>2, <1>3, DeclaredHas DEF Ready, IRInv, IsDiagram, SideDenotes
<1>5. /\ target = "isabelle" => Output(target) = Isabelle!WriteLivelockFree(ir)
      /\ target = "lean" => Output(target) = Lean!WriteLivelockFree(ir)
  BY DEF Output
<1> HIDE DEF ir
<1>6. CASE ir.structurally
  <2>1. Isabelle!WriteLivelockFree(ir) = T!Ok(<< >>) /\ Lean!WriteLivelockFree(ir) = T!Ok(<< >>)
    BY <1>6, SameOk DEF Isabelle!WriteLivelockFree, Lean!WriteLivelockFree
  <2>2. Done(Output(target), {})
    BY <1>5, <2>1, TellsNothing, DoneOk
  <2> QED BY <2>2 DEF TellsPredicatesOf
<1>7. CASE ~ ir.structurally
  <2>1. Done(Isabelle!WriteLivelockFree(ir), LivelockItems("isabelle", ir))
        /\ Done(Lean!WriteLivelockFree(ir), LivelockItems("lean", ir))
    BY <1>4, <1>7, LivelockFreeDone
  <2>2. Done(Output(target), I)
    BY <1>5, <2>1
  <2>3. ASSUME NEW n, NEW y, Item("predicate", n, y) \in I PROVE \E i : y = PredicateSays(m, i)
    <3>1. \/ Item("predicate", n, y) \in PredicateItems(m)
          \/ Item("predicate", n, y) \in AliasItems(T!SideSingle, ir.init, ir.edges)
          \/ Item("predicate", n, y) \in LayerItems(target, T!SideSingle, ir.init, ir.states, ir.edges)
      BY <1>2, <2>3, ItemIs DEF LivelockItems
    <3> QED BY <3>1, PredicateItemsHave, AliasItemsHave, LayerItemsHave
  <2>4. TellsPredicatesOf(I)
    BY <2>3 DEF TellsPredicatesOf
  <2> QED BY <2>2, <2>4
<1> QED BY <1>6, <1>7

(* csdfrefinement writes its theory to the end.                            *)
LEMMA RefinementWritten ==
  ASSUME Ready, Declared, job.mode # "livelock", NEW target \in {"isabelle", "lean"}
  PROVE  \E I : Done(Output(target), I) /\ TellsPredicatesOf(I)
<1> DEFINE ir == IRRefinement
           S(k) == Lean!Sides(ir)[k]
           I == RefinementItems(target, ir)
<1>1. JobIs(1) /\ JobIs(2) /\ IsDiagram(job.diagrams[1]) /\ IsDiagram(job.diagrams[2])
  <2>1. /\ job \in Jobs /\ IsList(job.diagrams) /\ Len(job.diagrams) = 2
        /\ \A k \in DOMAIN job.diagrams : IsDiagram(job.diagrams[k])
    BY JobsAssumption DEF Ready, IRInv
  <2>2. DOMAIN job.diagrams = 1 .. 2
    BY <2>1, ListHas
  <2>3. 1 \in 1 .. 2 /\ 2 \in 1 .. 2
    OBVIOUS
  <2> QED BY <2>1, <2>2, <2>3 DEF JobIs
<1>2. /\ ir.sides[1] = IRSide(1) /\ ir.sides[2] = IRSide(2) /\ ir.predicates = m
  BY DEF IRRefinement
<1>3. \A k \in {1, 2} : SideCanBeWritten(IRSide(k)) /\ Starts(IRSide(k))
  <2> SUFFICES ASSUME NEW k \in {1, 2} PROVE SideCanBeWritten(IRSide(k)) /\ Starts(IRSide(k))
    OBVIOUS
  <2>1. JobIs(k) /\ IsDiagram(job.diagrams[k])
    BY <1>1
  <2>2. SideDenotes(IRSide(k), job.diagrams[k]) /\ SideCanBeWritten(IRSide(k))
    BY <2>1, SideIs, SideCanBe DEF Ready
  <2>3. Starts(IRSide(k))
    BY <2>1, <2>2, DeclaredHas DEF Starts, SideDenotes
  <2> QED BY <2>2, <2>3
<1>4. Output(target) = (IF target = "isabelle" THEN Isabelle!WriteRefinement(ir) ELSE Lean!WriteRefinement(ir))
  BY DEF Output
<1>5. SideCanBeWritten(ir.sides[1]) /\ SideCanBeWritten(ir.sides[2]) /\ Starts(ir.sides[1]) /\ Starts(ir.sides[2])
      /\ IsFiniteSet(DOMAIN ir.predicates)
  BY <1>2, <1>3 DEF Ready, IRInv
<1> HIDE DEF ir
<1>6. Done(Isabelle!WriteRefinement(ir), RefinementItems("isabelle", ir))
      /\ Done(Lean!WriteRefinement(ir), RefinementItems("lean", ir))
  BY <1>5, RefinementDone
<1>7. Done(Output(target), I)
  BY <1>4, <1>6
<1>8. PICK a : a = S(1)
  OBVIOUS
<1>9. PICK b : b = S(2)
  OBVIOUS
<1> HIDE DEF S
<1>10. SidesTold(I, target, a, b, ir.mode)
  BY <1>2, <1>8, <1>9 DEF SidesTold, RefinementItems, S
<1>11. PICK J : J = I
  OBVIOUS
<1>12. KnowsPredicates(J)
  BY <1>10, <1>11, SideKnowsPredicates DEF Ready, IRInv
<1> QED BY <1>7, <1>11, <1>12 DEF KnowsPredicates, TellsPredicatesOf

(* For all diagrams and every kind of obligation: if the diagrams declare  *)
(* their states, the whole theory is written and no text is given another  *)
(* meaning than what the author has to supply, or "true".                  *)
THEOREM CompleteTheories == Spec => []TheoryIsComplete
<1>1. ASSUME WrittenInv PROVE TheoryIsComplete
  <2> SUFFICES ASSUME written # << >>, Declared
               PROVE  /\ written[1].exit = "ok"
                      /\ \A d \in T!ToSet(Document) : d.kind = "predicate" => (d.says.known <=> d.says.text = "true")
    BY DEF TheoryIsComplete
  <2>1. Ready
    BY <1>1 DEF WrittenInv, Ready
  <2>2. PICK target \in {"isabelle", "lean"} : IsOutput(target)
    BY <1>1 DEF WrittenInv
  <2>3. PICK I : Done(Output(target), I) /\ TellsPredicatesOf(I)
    BY <2>1, LivelockDone, RefinementWritten
  <2>4. written[1].exit = "ok"
    BY <2>2, <2>3 DEF IsOutput, Done, Exit
  <2>5. Tells(Document, I)
    BY <2>2, <2>3 DEF IsOutput, Done
  <2>6. ASSUME NEW d \in T!ToSet(Document), d.kind = "predicate"
        PROVE  d.says.known <=> d.says.text = "true"
    <3>1. "predicate" \in Telling
      BY DEF Telling
    <3>2. View(d) \in I
      BY <2>5, <2>6, <3>1 DEF Tells, Items
    <3>3. View(d) = Item("predicate", d.declares[1].name, d.says)
      BY <2>6 DEF View
    <3>4. PICK i : d.says = PredicateSays(m, i)
      BY <2>3, <3>2, <3>3 DEF TellsPredicatesOf
    <3>5. d.says.text = m[i].text /\ d.says.known = (m[i].text = "true")
      BY <3>4 DEF PredicateSays
    <3> QED BY <3>5
  <2> QED BY <2>4, <2>6
<1> QED BY <1>1, InitWrittenInv, NextWrittenInv, PTL DEF Spec

=============================================================================
