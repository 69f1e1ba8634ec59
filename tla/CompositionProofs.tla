------------------------- MODULE CompositionProofs -------------------------
(***************************************************************************)
(* Proofs about csdf/composition.go: composed ids of plain operands are    *)
(* unambiguous, and under that condition the worklist of ComposeParallel2  *)
(* ends with exactly the reachable part of the product, and the fold of    *)
(* ComposeParallel with the interface parallel of all its operands, for    *)
(* all diagrams and lists of diagrams.                                     *)
(***************************************************************************)
EXTENDS Composition, Recursion, SequenceTheorems, TLAPS

(* The parts of a composed id, by position.                                *)
LEMMA JoinedParts ==
  ASSUME NEW s \in StateID, NEW u \in StateID
  PROVE  /\ Len(ComposeStateIDs(s, u)) = Len(s) + 1 + Len(u)
         /\ \A i \in 1 .. Len(s) : ComposeStateIDs(s, u)[i] = s[i]
         /\ ComposeStateIDs(s, u)[Len(s) + 1] = Sep
         /\ \A i \in 1 .. Len(u) : ComposeStateIDs(s, u)[Len(s) + 1 + i] = u[i]
<1> DEFINE w == s \o <<Sep>>
           x == w \o u
<1>1. /\ w \in Seq(Char) /\ Len(w) = Len(s) + 1
      /\ \A i \in 1 .. Len(s) : w[i] = s[i]
      /\ w[Len(s) + 1] = Sep
  BY SepAssumption DEF StateID
<1> HIDE DEF w
<1>2. /\ Len(x) = Len(w) + Len(u)
      /\ \A i \in 1 .. Len(w) + Len(u) : x[i] = IF i <= Len(w) THEN w[i] ELSE u[i - Len(w)]
  BY <1>1, ConcatProperties DEF StateID
<1> HIDE DEF x
<1>3. Len(s) \in Nat /\ Len(u) \in Nat
  BY DEF StateID
<1>4. \A i \in 1 .. Len(s) : x[i] = s[i]
  BY <1>1, <1>2, <1>3
<1>5. x[Len(s) + 1] = Sep
  BY <1>1, <1>2, <1>3
<1>6. \A i \in 1 .. Len(u) : x[Len(s) + 1 + i] = u[i]
  BY <1>1, <1>2, <1>3
<1>7. x = ComposeStateIDs(s, u)
  BY DEF x, w, ComposeStateIDs
<1> QED
  BY <1>1, <1>2, <1>4, <1>5, <1>6, <1>7

(* Joining with the separator is injective as soon as the right-hand ids   *)
(* are plain, whatever the left-hand ones look like: the last separator of *)
(* the composed id is the one ComposeStateIDs put there.                   *)
LEMMA PlainRightUnambiguous ==
  ASSUME NEW s \in StateID, NEW t \in StateID,
         NEW u \in StateID, NEW v \in StateID,
         Plain(u), Plain(v),
         ComposeStateIDs(s, u) = ComposeStateIDs(t, v)
  PROVE  s = t /\ u = v
<1> DEFINE x == ComposeStateIDs(s, u)
           y == ComposeStateIDs(t, v)
<1>1. x = y
  OBVIOUS
<1>2. /\ Len(x) = Len(s) + 1 + Len(u)
      /\ \A i \in 1 .. Len(s) : x[i] = s[i]
      /\ x[Len(s) + 1] = Sep
      /\ \A i \in 1 .. Len(u) : x[Len(s) + 1 + i] = u[i]
  BY JoinedParts
<1>3. /\ Len(y) = Len(t) + 1 + Len(v)
      /\ \A i \in 1 .. Len(t) : y[i] = t[i]
      /\ y[Len(t) + 1] = Sep
      /\ \A i \in 1 .. Len(v) : y[Len(t) + 1 + i] = v[i]
  BY JoinedParts
<1> HIDE DEF x, y
<1>4. Len(s) \in Nat /\ Len(t) \in Nat /\ Len(u) \in Nat /\ Len(v) \in Nat
  BY DEF StateID
<1>5. Len(s) = Len(t)
  <2>1. CASE Len(s) < Len(t)
    <3> DEFINE i == Len(t) - Len(s)
    <3>1. i \in 1 .. Len(u)  /\ Len(s) + 1 + i = Len(t) + 1
      BY <1>1, <1>2, <1>3, <1>4, <2>1
    <3>2. u[i] = Sep
      BY <1>1, <1>2, <1>3, <3>1
    <3> QED BY <3>1, <3>2 DEF Plain, StateID
  <2>2. CASE Len(t) < Len(s)
    <3> DEFINE i == Len(s) - Len(t)
    <3>1. i \in 1 .. Len(v) /\ Len(t) + 1 + i = Len(s) + 1
      BY <1>1, <1>2, <1>3, <1>4, <2>2
    <3>2. v[i] = Sep
      BY <1>1, <1>2, <1>3, <3>1
    <3> QED BY <3>1, <3>2 DEF Plain, StateID
  <2> QED BY <2>1, <2>2, <1>4
<1>6. Len(u) = Len(v)
  BY <1>1, <1>2, <1>3, <1>4, <1>5
<1>7. \A i \in 1 .. Len(s) : s[i] = t[i]
  BY <1>1, <1>2, <1>3, <1>5
<1>8. \A i \in 1 .. Len(u) : u[i] = v[i]
  BY <1>1, <1>2, <1>3, <1>5, <1>6
<1> QED
  BY <1>5, <1>6, <1>7, <1>8, SeqEqual DEF StateID

-----------------------------------------------------------------------------
(* A sequence without repetitions.                                         *)
Distinct(q) == \A i, j \in DOMAIN q : q[i] = q[j] => i = j

(* No id of the second or a later operand has the separator.               *)
PlainOperands == {d \in Operands : \A id \in Nodes(d) : Plain(id)}

Explored == {p \in Pairs : PairID(p) \in marked} \ ToSet(queue)

(* What is left to fold is plain, and ids of the left operand are ids.     *)
FoldInv ==
  /\ job \in Jobs
  /\ rest \in Seq(PlainOperands)
  /\ Nodes(dL) \subseteq StateID
  /\ pc = "explore" => dR \in PlainOperands

(* The worklist: what is marked is reachable, what is marked and no longer *)
(* queued has been explored, and what is built is built from the explored. *)
WorklistInv ==
  pc = "explore" =>
    /\ PairID(StartPair) \in marked
    /\ Distinct(queue)
    /\ \A p \in Pairs : PairID(p) \in marked => p \in ReachablePairs
    /\ \A p \in Explored : IDs(Successors(p)) \subseteq marked
    /\ edges = UNION {EdgesOf(p) : p \in Explored}
    /\ \A p \in Pairs : PairID(p) \in marked => states[PairID(p)] = PairState(p)
    /\ start.dst \in StateID

IInv == TypeOK /\ FoldInv /\ WorklistInv

-----------------------------------------------------------------------------
(* Taking the head off a sequence without repetitions and appending one    *)
(* that has none either and shares nothing with it.                        *)
LEMMA AdvanceQueue ==
  ASSUME NEW S, NEW q \in Seq(S), q # << >>, Distinct(q),
         NEW r \in Seq(S), Distinct(r), ToSet(q) \cap ToSet(r) = {}
  PROVE  /\ Tail(q) \o r \in Seq(S)
         /\ Distinct(Tail(q) \o r)
         /\ ToSet(Tail(q) \o r) = (ToSet(q) \ {Head(q)}) \cup ToSet(r)
<1> DEFINE t == Tail(q)
           z == t \o r
<1>1. /\ t \in Seq(S) /\ Len(q) \in Nat /\ Len(q) > 0 /\ Len(t) = Len(q) - 1
      /\ DOMAIN t = 1 .. Len(t) /\ DOMAIN q = 1 .. Len(q) /\ DOMAIN r = 1 .. Len(r)
      /\ Len(r) \in Nat
      /\ \A i \in 1 .. Len(t) : t[i] = q[i + 1]
      /\ Head(q) = q[1]
  BY HeadTailProperties, LenProperties, EmptySeq
<1> HIDE DEF t
<1>2. /\ z \in Seq(S) /\ Len(z) = Len(t) + Len(r) /\ DOMAIN z = 1 .. Len(z)
      /\ \A i \in 1 .. Len(t) + Len(r) : z[i] = IF i <= Len(t) THEN t[i] ELSE r[i - Len(t)]
  <2>1. t \in Seq(S) /\ r \in Seq(S)
    BY <1>1
  <2>2. /\ t \o r \in Seq(S) /\ Len(t \o r) = Len(t) + Len(r)
        /\ \A i \in 1 .. Len(t) + Len(r) :
             (t \o r)[i] = IF i <= Len(t) THEN t[i] ELSE r[i - Len(t)]
    BY <2>1, ConcatProperties
  <2> QED BY <2>2, LenProperties
<1> HIDE DEF z
<1>3. \A i \in 1 .. Len(z) :
        \/ i \in 1 .. Len(t) /\ i + 1 \in 1 .. Len(q) /\ z[i] = q[i + 1]
        \/ i > Len(t) /\ i - Len(t) \in 1 .. Len(r) /\ z[i] = r[i - Len(t)]
  BY <1>1, <1>2
<1>4. ASSUME NEW i \in DOMAIN z, NEW j \in DOMAIN z, z[i] = z[j]
      PROVE  i = j
  <2>1. \A k \in 1 .. Len(q), m \in 1 .. Len(r) : q[k] # r[m]
    BY <1>1 DEF ToSet
  <2>2. CASE z[i] = q[i + 1] /\ i \in 1 .. Len(t) /\ i + 1 \in 1 .. Len(q)
    <3>1. z[j] = q[j + 1] /\ j \in 1 .. Len(t) /\ j + 1 \in 1 .. Len(q)
      BY <1>2, <1>3, <1>4, <2>1, <2>2
    <3>2. i + 1 \in DOMAIN q /\ j + 1 \in DOMAIN q /\ q[i + 1] = q[j + 1]
      BY <1>1, <1>4, <2>2, <3>1
    <3>3. i + 1 = j + 1
      BY <3>2 DEF Distinct
    <3> QED BY <1>1, <2>2, <3>1, <3>3
  <2>3. CASE i > Len(t) /\ i - Len(t) \in 1 .. Len(r) /\ z[i] = r[i - Len(t)]
    <3>1. j > Len(t) /\ j - Len(t) \in 1 .. Len(r) /\ z[j] = r[j - Len(t)]
      BY <1>2, <1>3, <1>4, <2>1, <2>3
    <3>2. i - Len(t) = j - Len(t)
      BY <1>1, <1>4, <2>3, <3>1 DEF Distinct
    <3> QED BY <1>1, <1>2, <3>2
  <2> QED BY <1>2, <1>3, <2>2, <2>3
<1>5. ToSet(z) \subseteq (ToSet(q) \ {Head(q)}) \cup ToSet(r)
  <2> SUFFICES ASSUME NEW i \in 1 .. Len(z)
               PROVE  z[i] \in (ToSet(q) \ {Head(q)}) \cup ToSet(r)
    BY <1>2 DEF ToSet
  <2>1. CASE i \in 1 .. Len(t) /\ i + 1 \in 1 .. Len(q) /\ z[i] = q[i + 1]
    <3>1. i + 1 \in DOMAIN q /\ 1 \in DOMAIN q /\ i + 1 # 1
      BY <1>1, <2>1
    <3>2. q[i + 1] # q[1]
      BY <3>1 DEF Distinct
    <3> QED BY <1>1, <2>1, <3>2 DEF ToSet
  <2>2. CASE i - Len(t) \in 1 .. Len(r) /\ z[i] = r[i - Len(t)]
    BY <1>1, <2>2 DEF ToSet
  <2> QED BY <1>3, <2>1, <2>2
<1>6. (ToSet(q) \ {Head(q)}) \subseteq ToSet(z)
  <2> SUFFICES ASSUME NEW i \in 1 .. Len(q), q[i] # q[1]
               PROVE  q[i] \in ToSet(z)
    BY <1>1 DEF ToSet
  <2>1. i - 1 \in 1 .. Len(t) /\ i - 1 \in 1 .. Len(z) /\ z[i - 1] = q[i]
    BY <1>1, <1>2
  <2> QED BY <1>2, <2>1 DEF ToSet
<1>7. ToSet(r) \subseteq ToSet(z)
  <2> SUFFICES ASSUME NEW i \in 1 .. Len(r)
               PROVE  r[i] \in ToSet(z)
    BY <1>1 DEF ToSet
  <2> DEFINE k == i + Len(t)
  <2>0. k \in 1 .. Len(z) /\ k \in 1 .. Len(t) + Len(r) /\ ~ (k <= Len(t)) /\ k - Len(t) = i
    BY <1>1, <1>2
  <2> HIDE DEF k
  <2>1. k \in 1 .. Len(z) /\ z[k] = r[i]
    BY <1>2, <2>0
  <2> QED BY <1>2, <2>1 DEF ToSet
<1> QED
  BY <1>2, <1>4, <1>5, <1>6, <1>7 DEF z, t, Distinct

-----------------------------------------------------------------------------
(* Ids of pairs are ids, and with a plain right operand no two pairs share *)
(* one.                                                                    *)
LEMMA PairIDs ==
  ASSUME NEW M \in SUBSET StateID, NEW N \in SUBSET StateID
  PROVE  /\ \A p \in M \X N : PairID(p) \in StateID
         /\ (\A id \in N : Plain(id)) =>
              \A p, q \in M \X N : PairID(p) = PairID(q) => p = q
<1>1. ASSUME NEW p \in M \X N
      PROVE  PairID(p) \in StateID
  <2>1. p[1] \in Seq(Char) /\ p[2] \in Seq(Char) /\ <<Sep>> \in Seq(Char)
    BY SepAssumption DEF StateID
  <2>2. p[1] \o <<Sep>> \in Seq(Char)
    BY <2>1, ConcatProperties
  <2>3. (p[1] \o <<Sep>>) \o p[2] \in Seq(Char)
    BY <2>1, <2>2, ConcatProperties
  <2> QED BY <2>3 DEF PairID, ComposeStateIDs, StateID
<1>2. ASSUME \A id \in N : Plain(id),
             NEW p \in M \X N, NEW q \in M \X N, PairID(p) = PairID(q)
      PROVE  p = q
  <2>1. /\ p[1] \in StateID /\ p[2] \in StateID /\ Plain(p[2])
        /\ q[1] \in StateID /\ q[2] \in StateID /\ Plain(q[2])
        /\ p = <<p[1], p[2]>> /\ q = <<q[1], q[2]>>
    BY <1>2
  <2>2. p[1] = q[1] /\ p[2] = q[2]
    BY <1>2, <2>1, PlainRightUnambiguous DEF PairID
  <2> QED BY <2>1, <2>2
<1> QED BY <1>1, <1>2

(* A transition of the composition leads to a pair of nodes.               *)
LEMMA SuccessorsArePairs ==
  ASSUME NEW p \in Pairs
  PROVE  Successors(p) \subseteq Pairs
<1>1. \A e \in dL.edges : e.src \in Nodes(dL) /\ e.dst \in Nodes(dL)
  BY DEF Nodes
<1>2. \A e \in dR.edges : e.src \in Nodes(dR) /\ e.dst \in Nodes(dR)
  BY DEF Nodes
<1>3. \A m \in Para3(p) : m.dst \in Pairs
  BY <1>1, <1>2 DEF Para3, Pairs, Outgoing
<1>4. \A m \in Para1(p) : m.dst \in Pairs
  BY <1>1 DEF Para1, Pairs, Outgoing
<1>5. \A m \in Para2(p) : m.dst \in Pairs
  BY <1>2 DEF Para2, Pairs, Outgoing
<1> QED BY <1>3, <1>4, <1>5 DEF Successors, Moves

LEMMA StartPairIsPair == StartPair \in Pairs
BY DEF StartPair, Pairs, Nodes

(* The reachable pairs hold the start pair, are closed, and are least.     *)
LEMMA ReachableIsLeast ==
  /\ StartPair \in ReachablePairs
  /\ \A p \in ReachablePairs : Successors(p) \subseteq ReachablePairs
  /\ \A S \in SUBSET Pairs : StartPair \in S /\ Closed(S) => ReachablePairs \subseteq S
<1>1. StartPair \in ReachablePairs
  BY StartPairIsPair DEF ReachablePairs
<1>2. ASSUME NEW p \in ReachablePairs, NEW q \in Successors(p)
      PROVE  q \in ReachablePairs
  <2>1. p \in Pairs /\ q \in Pairs
    BY <1>2, SuccessorsArePairs DEF ReachablePairs
  <2>2. \A S \in SUBSET Pairs : StartPair \in S /\ Closed(S) => q \in S
    BY <1>2 DEF ReachablePairs, Closed
  <2> QED BY <2>1, <2>2 DEF ReachablePairs
<1>3. \A S \in SUBSET Pairs : StartPair \in S /\ Closed(S) => ReachablePairs \subseteq S
  BY DEF ReachablePairs
<1> QED BY <1>1, <1>2, <1>3

(* The operands still to be folded in are plain.                           *)
LEMMA FoldOrderPlain ==
  ASSUME PlainJobs, NEW j \in Jobs
  PROVE  /\ FoldOrder(j.ops) \in Seq(PlainOperands)
         /\ FoldOrder(j.ops) \in Seq(ToSet(j.ops))
<1> DEFINE ops == j.ops
           M == PlainOperands \cap ToSet(ops)
<1>1. ops \in Seq(Operands) /\ Len(ops) \in Nat
  BY JobsAssumption
<1>2. \A i \in 2 .. Len(ops) : ops[i] \in M
  <2> SUFFICES ASSUME NEW i \in 2 .. Len(ops) PROVE ops[i] \in M
    OBVIOUS
  <2>1. i \in 1 .. Len(ops)
    BY <1>1
  <2>2. ops[i] \in Operands /\ ops[i] \in ToSet(ops)
    BY <1>1, <2>1, ElementOfSeq DEF ToSet
  <2> QED BY <2>2 DEF PlainOperands, PlainJobs
<1> HIDE DEF ops, M
<1>3. ASSUME Len(ops) > 1 PROVE FoldOrder(ops) \in Seq(M)
  <2>1. SubSeq(ops, 3, Len(ops)) \in Seq(M)
    <3>1. \A i \in 3 .. Len(ops) : ops[i] \in M
      BY <1>1, <1>2
    <3> QED BY <1>1, <3>1, SubSeqProperties
  <2>2. ops[2] \in M
    BY <1>1, <1>2, <1>3
  <2>3. <<ops[2]>> \in Seq(M)
    BY <2>2
  <2>4. SubSeq(ops, 3, Len(ops)) \o <<ops[2]>> \in Seq(M)
    BY <2>1, <2>3, ConcatProperties
  <2> QED BY <1>3, <2>4 DEF FoldOrder
<1>4. ASSUME ~ (Len(ops) > 1) PROVE FoldOrder(ops) \in Seq(M)
  BY <1>4 DEF FoldOrder
<1>5. FoldOrder(ops) \in Seq(PlainOperands) /\ FoldOrder(ops) \in Seq(ToSet(ops))
  <2>1. M \subseteq PlainOperands /\ M \subseteq ToSet(ops)
    BY DEF M
  <2> QED BY <1>3, <1>4, <2>1, SeqMonotonic
<1> QED BY <1>5 DEF ops

-----------------------------------------------------------------------------
LEMMA InitIInv == ASSUME PlainJobs, Init PROVE IInv
<1>1. job \in Jobs /\ pc = "fold" /\ dL = job.ops[1] /\ rest = FoldOrder(job.ops)
  BY DEF Init
<1>2. rest \in Seq(PlainOperands)
  BY <1>1, FoldOrderPlain
<1>3. rest \in Seq(ToSet(job.ops))
  BY <1>1, FoldOrderPlain
<1>4. Nodes(dL) \subseteq StateID
  <2>1. dL \in Operands
    BY <1>1, JobsAssumption, ElementOfSeq, EmptySeq
  <2> QED BY <2>1, JobsAssumption
<1> QED BY <1>1, <1>2, <1>3, <1>4 DEF IInv, TypeOK, FoldInv, WorklistInv

(* Ids of the pairs of plain operands, as the invariant gives them.        *)
LEMMA UnambiguousPairs ==
  ASSUME Nodes(dL) \subseteq StateID, dR \in PlainOperands
  PROVE  /\ \A p \in Pairs : PairID(p) \in StateID
         /\ \A p, q \in Pairs : PairID(p) = PairID(q) => p = q
<1>1. Nodes(dR) \subseteq StateID /\ \A id \in Nodes(dR) : Plain(id)
  BY JobsAssumption DEF PlainOperands
<1> QED BY <1>1, PairIDs DEF Pairs

LEMMA BeginsWorklist ==
  ASSUME IInv, ComposeParallel2
  PROVE  IInv'
<1> DEFINE r == Head(rest)
<1>0. PICK p : p = <<dL.start.dst, r.start.dst>>
  OBVIOUS
<1>1. /\ r \in PlainOperands /\ Tail(rest) \in Seq(PlainOperands)
  BY HeadTailProperties DEF IInv, FoldInv, ComposeParallel2
<1>2. /\ dR' = r /\ rest' = Tail(rest) /\ dL' = dL /\ job' = job /\ pc' = "explore"
      /\ edges' = {} /\ marked' = {PairID(p)} /\ queue' = <<p>>
      /\ start'.dst = PairID(p)
      /\ states' = [id \in {PairID(p)} |-> StateOf(dL, p[1]) \o StateOf(r, p[2])]
  BY <1>0 DEF ComposeParallel2
<1> HIDE DEF r
<1>3. /\ Nodes(dL') \subseteq StateID /\ dR' \in PlainOperands
  BY <1>1, <1>2 DEF IInv, FoldInv
<1>4. /\ Pairs' = Nodes(dL') \X Nodes(dR')
      /\ Nodes(dR') \subseteq StateID /\ \A id \in Nodes(dR') : Plain(id)
  BY <1>3, JobsAssumption DEF Pairs, PlainOperands
<1>5. /\ \A q \in Pairs' : PairID(q) \in StateID
      /\ \A q1, q2 \in Pairs' : PairID(q1) = PairID(q2) => q1 = q2
  BY <1>3, <1>4, PairIDs
<1>6. p = StartPair' /\ p \in Pairs'
  BY <1>0, <1>2, <1>4 DEF StartPair, Nodes
<1>7. p \in ReachablePairs'
  BY <1>6 DEF ReachablePairs
<1>8. \A q \in Pairs' : PairID(q) \in marked' => q = p
  BY <1>2, <1>5, <1>6
<1>9. DOMAIN queue' = {1} /\ queue'[1] = p /\ ToSet(queue') = {p} /\ queue' \in Seq(Pairs')
  BY <1>2, <1>6 DEF ToSet
<1>10. TypeOK'
  <2>2. rest' \in Seq(ToSet(job'.ops))
    <3>1. rest \in Seq(ToSet(job.ops)) /\ rest # << >>
      BY DEF IInv, TypeOK, ComposeParallel2
    <3>2. Tail(rest) \in Seq(ToSet(job.ops))
      BY <3>1, HeadTailProperties
    <3> QED BY <1>2, <3>2
  <2>3. marked' \subseteq IDs(Pairs)'
    BY <1>2, <1>6 DEF IDs
  <2>4. \A i \in DOMAIN queue' : PairID(queue'[i]) \in marked'
    BY <1>2, <1>9
  <2>5. DOMAIN states' = marked'
    BY <1>2
  <2> QED BY <1>2, <1>9, <2>2, <2>3, <2>4, <2>5 DEF TypeOK
<1>11. FoldInv'
  BY <1>1, <1>2, <1>3 DEF IInv, FoldInv
<1>12. WorklistInv'
  <2>1. Explored' = {}
    BY <1>8, <1>9 DEF Explored
  <2>2. edges' = UNION {EdgesOf(q)' : q \in Explored'}
    BY <1>2, <2>1
  <2>3. PairState(p)' = StateOf(dL, p[1]) \o StateOf(r, p[2])
    BY <1>2 DEF PairState
  <2>4. states'[PairID(p)] = PairState(p)'
    BY <1>2, <2>3
  <2>5. start'.dst \in StateID
    BY <1>2, <1>5, <1>6
  <2>6. Distinct(queue')
    BY <1>9 DEF Distinct
  <2> QED BY <1>2, <1>6, <1>7, <1>8, <2>1, <2>2, <2>4, <2>5, <2>6 DEF WorklistInv
<1> QED BY <1>10, <1>11, <1>12 DEF IInv

(* The composite is a diagram whose nodes are ids.                         *)
LEMMA CompositeIsLeftOperand ==
  ASSUME IInv, ReturnComposite
  PROVE  IInv'
<1>1. /\ pc = "explore" /\ pc' = "fold"
      /\ dL' = [states |-> states, start |-> start, edges |-> edges, end |-> FALSE]
      /\ job' = job /\ rest' = rest
  BY DEF ReturnComposite
<1>2. \A p \in Pairs : PairID(p) \in StateID
  BY <1>1, UnambiguousPairs DEF IInv, FoldInv
<1>3. DOMAIN states \subseteq StateID
  BY <1>1, <1>2 DEF IInv, TypeOK, IDs
<1>4. start.dst \in StateID
  BY <1>1 DEF IInv, WorklistInv
<1>5. \A e \in edges : e.src \in StateID /\ e.dst \in StateID
  <2> SUFFICES ASSUME NEW p \in Explored, NEW e \in EdgesOf(p)
               PROVE  e.src \in StateID /\ e.dst \in StateID
    BY <1>1 DEF IInv, WorklistInv
  <2>1. p \in Pairs /\ Successors(p) \subseteq Pairs
    BY SuccessorsArePairs DEF Explored
  <2>2. PICK m \in Moves(p) : e.src = PairID(p) /\ e.dst = PairID(m.dst)
    BY DEF EdgesOf
  <2>3. m.dst \in Pairs
    BY <2>1, <2>2 DEF Successors
  <2> QED BY <1>2, <2>1, <2>2, <2>3
<1>6. Nodes(dL') \subseteq StateID
  BY <1>1, <1>3, <1>4, <1>5 DEF Nodes
<1> QED BY <1>1, <1>6 DEF IInv, TypeOK, FoldInv, WorklistInv

(* The operators over the two operands keep their values when these do.    *)
LEMMA SameOperands ==
  ASSUME dL' = dL, dR' = dR, job' = job
  PROVE  /\ Pairs' = Pairs /\ StartPair' = StartPair
         /\ \A p : Moves(p)' = Moves(p) /\ PairState(p)' = PairState(p)
         /\ \A p : Successors(p)' = Successors(p) /\ EdgesOf(p)' = EdgesOf(p)
         /\ ReachablePairs' = ReachablePairs
<1>1. Pairs' = Pairs /\ StartPair' = StartPair
  BY DEF Pairs, StartPair
<1>2. \A p : Para3(p)' = Para3(p) /\ Para1(p)' = Para1(p) /\ Para2(p)' = Para2(p)
  BY DEF Para3, Para1, Para2
<1>3. \A p : Moves(p)' = Moves(p)
  BY <1>2 DEF Moves
<1>4. \A p : PairState(p)' = PairState(p)
  BY DEF PairState
<1>5. \A p : Successors(p)' = Successors(p) /\ EdgesOf(p)' = EdgesOf(p)
  BY <1>3 DEF Successors, EdgesOf
<1>6. \A S : Closed(S)' = Closed(S)
  BY <1>5 DEF Closed
<1>7. ReachablePairs' = ReachablePairs
  BY <1>1, <1>6 DEF ReachablePairs
<1> QED BY <1>1, <1>3, <1>4, <1>5, <1>7

(* One iteration: the pair at the head of the worklist joins the explored. *)
LEMMA ExploresHead ==
  ASSUME IInv, composeParallel2
  PROVE  IInv'
<1>0. PICK p : p = Head(queue)
  OBVIOUS
<1>1. PICK next : next = Successors(p)
  OBVIOUS
<1>2. PICK new : new = {q \in next : PairID(q) \notin marked}
  OBVIOUS
<1>3. /\ pc = "explore" /\ queue # << >>
      /\ job' = job /\ pc' = pc /\ dL' = dL /\ dR' = dR /\ rest' = rest /\ start' = start
      /\ edges' = edges \cup EdgesOf(p)
      /\ marked' = marked \cup IDs(next)
  BY <1>0, <1>1 DEF composeParallel2, Mark
<1>4. PICK r \in Enqueuings(new) : queue' = Tail(queue) \o r
  BY <1>0, <1>1, <1>2 DEF composeParallel2, Dequeued
<1>5. PICK w \in [IDs(next) -> next] :
        /\ \A id \in IDs(next) : PairID(w[id]) = id
        /\ states' = [id \in DOMAIN states \cup IDs(next) |->
                         IF id \in IDs(next) THEN PairState(w[id]) ELSE states[id]]
  BY <1>0, <1>1 DEF composeParallel2
<1>6. /\ queue \in Seq(Pairs) /\ marked \subseteq IDs(Pairs) /\ DOMAIN states = marked
      /\ \A i \in DOMAIN queue : PairID(queue[i]) \in marked
  BY <1>3 DEF IInv, TypeOK
<1>7. /\ Distinct(queue) /\ PairID(StartPair) \in marked /\ start.dst \in StateID
      /\ \A q \in Pairs : PairID(q) \in marked => q \in ReachablePairs
      /\ \A q \in Explored : IDs(Successors(q)) \subseteq marked
      /\ edges = UNION {EdgesOf(q) : q \in Explored}
      /\ \A q \in Pairs : PairID(q) \in marked => states[PairID(q)] = PairState(q)
  BY <1>3 DEF IInv, WorklistInv
<1>8. \A q1, q2 \in Pairs : PairID(q1) = PairID(q2) => q1 = q2
  BY <1>3, UnambiguousPairs DEF IInv, FoldInv
<1>9. p \in Pairs /\ p \in ToSet(queue) /\ PairID(p) \in marked /\ p \in ReachablePairs
  <2>1. p \in Pairs /\ 1 \in DOMAIN queue /\ p = queue[1]
    BY <1>0, <1>3, <1>6, HeadTailProperties, LenProperties, EmptySeq
  <2> QED BY <1>6, <1>7, <2>1 DEF ToSet
<1>10. next \subseteq Pairs /\ next \subseteq ReachablePairs /\ new \subseteq next
  BY <1>1, <1>2, <1>9, SuccessorsArePairs, ReachableIsLeast
<1>11. /\ r \in Seq(new) /\ IDs(new) = {PairID(r[i]) : i \in DOMAIN r}
       /\ \A i, j \in DOMAIN r : PairID(r[i]) = PairID(r[j]) => i = j
  BY <1>4 DEF Enqueuings, BoundedSeq, SeqOf
<1>12. Distinct(r) /\ ToSet(r) = new /\ r \in Seq(Pairs)
  <2>1. \A i \in DOMAIN r : r[i] \in new
    BY <1>11
  <2>2. ToSet(r) = new
    BY <1>8, <1>10, <1>11, <2>1 DEF ToSet, IDs
  <2> QED BY <1>10, <1>11, <2>2, SeqMonotonic DEF Distinct
<1>13. ToSet(queue) \cap ToSet(r) = {}
  BY <1>2, <1>6, <1>12 DEF ToSet
<1>14. /\ queue' \in Seq(Pairs) /\ Distinct(queue')
       /\ ToSet(queue') = (ToSet(queue) \ {p}) \cup new
  BY <1>0, <1>3, <1>4, <1>6, <1>7, <1>12, <1>13, AdvanceQueue
<1>15. /\ Pairs' = Pairs /\ StartPair' = StartPair
       /\ \A q : PairState(q)' = PairState(q)
       /\ \A q : Successors(q)' = Successors(q) /\ EdgesOf(q)' = EdgesOf(q)
       /\ ReachablePairs' = ReachablePairs
  BY <1>3, SameOperands
<1>16. \A q \in Pairs : PairID(q) \in marked' <=> PairID(q) \in marked \/ q \in next
  BY <1>3, <1>8, <1>10 DEF IDs
<1>17. Explored' = Explored \cup {p}
  <2>1. Explored' = {q \in Pairs : PairID(q) \in marked'} \ ToSet(queue')
    BY <1>15 DEF Explored
  <2> QED BY <1>2, <1>9, <1>10, <1>14, <1>16, <2>1 DEF Explored
<1>18. TypeOK'
  <2>1. marked' \subseteq IDs(Pairs)
    BY <1>3, <1>6, <1>10 DEF IDs
  <2>2. DOMAIN states' = marked'
    BY <1>3, <1>5, <1>6
  <2>3. \A i \in DOMAIN queue' : PairID(queue'[i]) \in marked'
    <3>1. \A q \in ToSet(queue') : PairID(q) \in marked'
      BY <1>3, <1>6, <1>10, <1>14 DEF ToSet, IDs
    <3> QED BY <3>1 DEF ToSet
  <2>4. IDs(Pairs)' = IDs(Pairs)
    BY <1>15 DEF IDs
  <2> QED BY <1>3, <1>14, <1>15, <2>1, <2>2, <2>3, <2>4 DEF IInv, TypeOK
<1>19. FoldInv'
  BY <1>3 DEF IInv, FoldInv
<1>20. WorklistInv'
  <2>1. \A q \in Pairs : PairID(q) \in marked' => q \in ReachablePairs
    BY <1>7, <1>10, <1>16
  <2>2. \A q \in Explored' : IDs(Successors(q)) \subseteq marked'
    BY <1>1, <1>3, <1>7, <1>17
  <2>3. edges' = UNION {EdgesOf(q) : q \in Explored'}
    BY <1>3, <1>7, <1>17
  <2>4. ASSUME NEW q \in Pairs, PairID(q) \in marked'
        PROVE  states'[PairID(q)] = PairState(q)
    <3>1. CASE q \in next
      <4>1. PairID(q) \in IDs(next) /\ w[PairID(q)] \in next
        BY <1>5, <3>1 DEF IDs
      <4>2. w[PairID(q)] = q
        BY <1>5, <1>8, <1>10, <4>1, <2>4
      <4> QED BY <1>5, <4>1, <4>2
    <3>2. CASE q \notin next
      <4>1. PairID(q) \in marked
        BY <1>16, <2>4, <3>2
      <4>2. PairID(q) \notin IDs(next)
        BY <1>8, <1>10, <2>4, <3>2 DEF IDs
      <4> QED BY <1>5, <1>6, <1>7, <4>1, <4>2, <2>4
    <3> QED BY <3>1, <3>2
  <2>5. /\ PairID(StartPair') \in marked' /\ start'.dst \in StateID
    BY <1>3, <1>7, <1>15
  <2>6. /\ \A q \in Explored' : IDs(Successors(q))' \subseteq marked'
        /\ edges' = UNION {EdgesOf(q)' : q \in Explored'}
    <3>1. \A q : IDs(Successors(q))' = IDs(Successors(q))
      BY <1>15 DEF IDs
    <3> QED BY <1>15, <2>2, <2>3, <3>1
  <2> QED BY <1>14, <1>15, <2>1, <2>4, <2>5, <2>6 DEF WorklistInv
<1> QED BY <1>18, <1>19, <1>20 DEF IInv

(* Every step preserves the inductive invariant.                           *)
LEMMA StepIInv == ASSUME IInv, [Next]_vars PROVE IInv'
<1>1. CASE RejectEndEdge
  BY <1>1 DEF RejectEndEdge, IInv, TypeOK, FoldInv, WorklistInv
<1>2. CASE ComposeParallel2
  BY <1>2, BeginsWorklist
<1>3. CASE composeParallel2
  BY <1>3, ExploresHead
<1>4. CASE ReturnComposite
  BY <1>4, CompositeIsLeftOperand
<1>5. CASE ReturnResult
  BY <1>5 DEF ReturnResult, IInv, TypeOK, FoldInv, WorklistInv
<1>6. CASE UNCHANGED vars
  <2>1. /\ job' = job /\ pc' = pc /\ dL' = dL /\ dR' = dR /\ rest' = rest
        /\ states' = states /\ start' = start /\ edges' = edges
        /\ marked' = marked /\ queue' = queue
    BY <1>6 DEF vars, out
  <2>2. /\ Pairs' = Pairs /\ StartPair' = StartPair /\ ReachablePairs' = ReachablePairs
        /\ \A q : PairState(q)' = PairState(q)
        /\ \A q : Successors(q)' = Successors(q) /\ EdgesOf(q)' = EdgesOf(q)
    BY <2>1, SameOperands
  <2>3. IDs(Pairs)' = IDs(Pairs) /\ \A q : IDs(Successors(q))' = IDs(Successors(q))
    BY <2>2 DEF IDs
  <2>4. Explored' = Explored
    BY <2>1, <2>2 DEF Explored
  <2>5. TypeOK'
    BY <2>1, <2>2, <2>3 DEF IInv, TypeOK
  <2>6. FoldInv'
    BY <2>1 DEF IInv, FoldInv
  <2>7. WorklistInv'
    BY <2>1, <2>2, <2>3, <2>4 DEF IInv, WorklistInv
  <2> QED BY <2>5, <2>6, <2>7 DEF IInv
<1> QED BY <1>1, <1>2, <1>3, <1>4, <1>5, <1>6 DEF Next

(* The explored pairs of an exhausted worklist are the reachable ones.     *)
LEMMA ExhaustedFromIInv == IInv => ExhaustedIsProduct
<1> SUFFICES ASSUME IInv, pc = "explore", queue = << >>
             PROVE  /\ DOMAIN states = IDs(ReachablePairs)
                    /\ edges = UNION {EdgesOf(p) : p \in ReachablePairs}
                    /\ \A p \in ReachablePairs : states[PairID(p)] = PairState(p)
  BY DEF ExhaustedIsProduct
<1>1. Explored = {p \in Pairs : PairID(p) \in marked}
  BY DEF Explored, ToSet
<1>2. /\ PairID(StartPair) \in marked
      /\ \A p \in Pairs : PairID(p) \in marked => p \in ReachablePairs
      /\ \A p \in Explored : IDs(Successors(p)) \subseteq marked
      /\ edges = UNION {EdgesOf(p) : p \in Explored}
      /\ \A p \in Pairs : PairID(p) \in marked => states[PairID(p)] = PairState(p)
  BY DEF IInv, WorklistInv
<1>3. StartPair \in Explored
  BY <1>1, <1>2, StartPairIsPair
<1>4. Closed(Explored)
  <2> SUFFICES ASSUME NEW p \in Explored, NEW q \in Successors(p) PROVE q \in Explored
    BY DEF Closed
  <2> QED BY <1>1, <1>2, SuccessorsArePairs DEF IDs
<1>5. Explored = ReachablePairs
  BY <1>1, <1>2, <1>3, <1>4, ReachableIsLeast
<1>6. marked = IDs(Explored)
  BY <1>1 DEF IInv, TypeOK, IDs
<1>7. DOMAIN states = marked
  BY DEF IInv, TypeOK
<1> QED BY <1>1, <1>2, <1>5, <1>6, <1>7

-----------------------------------------------------------------------------
(* IInv is an invariant when the operands after the first are plain.       *)
THEOREM Inductive == ASSUME PlainJobs PROVE Spec => []IInv
<1>1. Init => IInv
  BY InitIInv
<1>2. IInv /\ [Next]_vars => IInv'
  BY StepIInv
<1> QED BY <1>1, <1>2, PTL DEF Spec

(* The variables of ComposeParallel2 stay in their domains: the worklist   *)
(* holds marked pairs of nodes of its operands, and a state is declared    *)
(* for each marked id (csdf/composition.go:108-219).                       *)
THEOREM TypeCorrect == ASSUME PlainJobs PROVE Spec => []TypeOK
<1>1. IInv => TypeOK
  BY DEF IInv
<1> QED BY <1>1, Inductive, PTL

(* For all plain operands, whatever their size and whatever order Go's     *)
(* maps give, an exhausted worklist has built exactly the reachable part   *)
(* of the product (csdf/composition.go:108-219).                           *)
THEOREM WorklistBuildsProduct == ASSUME PlainJobs PROVE Spec => []ExhaustedIsProduct
<1> QED BY ExhaustedFromIInv, Inductive, PTL

-----------------------------------------------------------------------------
(* The function by which FlattenSeq joins the first i members of a         *)
(* sequence exists, as it is defined by recursion on i.                    *)
LEMMA FlattenHasValues ==
  ASSUME NEW n \in Nat, n > 0, NEW s
  PROVE  \E f : f = [i \in 1 .. n |-> IF i = 1 THEN s[i] ELSE f[i-1] \o s[i]]
<1> DEFINE Is(f, m) == f = [i \in 1 .. m |-> IF i = 1 THEN s[i] ELSE f[i-1] \o s[i]]
           Has(m) == \E f : Is(f, m)
           T == {m \in Nat : m > 0 => Has(m)}
<1>1. 0 \in T
  OBVIOUS
<1>2. ASSUME NEW m \in Nat, m \in T PROVE m + 1 \in T
  <2> SUFFICES Has(m + 1)
    <3> HIDE DEF Has
    <3> QED OBVIOUS
  <2>1. CASE m = 0
    <3>1. Is([i \in 1 .. 1 |-> s[1]], 1) /\ m + 1 = 1
      BY <2>1
    <3> HIDE DEF Is
    <3> QED BY <3>1
  <2>2. CASE m > 0
    <3>1. PICK f : Is(f, m)
      BY <1>2, <2>2
    <3> DEFINE g == [i \in 1 .. m + 1 |-> IF i = m + 1 THEN f[m] \o s[m + 1] ELSE f[i]]
    <3>2. ASSUME NEW i \in 1 .. m + 1
          PROVE  g[i] = IF i = 1 THEN s[i] ELSE g[i - 1] \o s[i]
      <4>1. CASE i = m + 1
        <5>1. i # 1 /\ i - 1 = m /\ m \in 1 .. m + 1 /\ m # m + 1
          BY <2>2, <4>1
        <5>2. g[i - 1] = f[m]
          BY <5>1
        <5>3. g[i] = f[m] \o s[m + 1]
          BY <4>1
        <5> QED BY <4>1, <5>1, <5>2, <5>3
      <4>2. CASE i # m + 1
        <5>1. i \in 1 .. m /\ (i # 1 => i - 1 \in 1 .. m /\ i - 1 # m + 1 /\ i - 1 \in 1 .. m + 1)
          BY <4>2
        <5>2. f[i] = IF i = 1 THEN s[i] ELSE f[i - 1] \o s[i]
          BY <3>1, <5>1
        <5> QED BY <4>2, <5>1, <5>2
      <4> QED BY <4>1, <4>2
    <3>3. Is(g, m + 1)
      <4>1. g = [i \in 1 .. m + 1 |-> g[i]]
        OBVIOUS
      <4> HIDE DEF g
      <4> QED BY <3>2, <4>1
    <3> HIDE DEF Is, g
    <3> QED BY <3>3
  <2> HIDE DEF Is
  <2> QED BY <2>1, <2>2
<1> HIDE DEF T
<1>3. n \in T
  BY <1>1, <1>2, Induction
<1> QED BY <1>3 DEF T

(* f[i] is the first i members of s joined.                                *)
Joins(f, s, n) == f[1] = s[1] /\ \A i \in 2 .. n : f[i] = f[i - 1] \o s[i]

(* FlattenSeq joins the n members of s one after the other.                *)
FlattensBy(s, n) == \E f : Joins(f, s, n) /\ FlattenSeq(s) = f[n]

(* Every nonempty sequence is flattened so: ids, predicates and contents   *)
(* of several operands are all joined by FlattenSeq.                       *)
LEMMA FlattenUnfolds ==
  ASSUME NEW n \in Nat, n > 0, NEW s, Len(s) = n
  PROVE  FlattensBy(s, n)
<1> DEFINE Is(f) == f = [i \in 1 .. n |-> IF i = 1 THEN s[i] ELSE f[i-1] \o s[i]]
           h == CHOOSE f : Is(f)
<1>1. FlattenSeq(s) = h[n]
  BY DEF FlattenSeq
<1>2. \E f : Is(f)
  BY FlattenHasValues
<1>3. Is(h)
  BY <1>2
<1> HIDE DEF h
<1>4. Joins(h, s, n)
  <2>1. h[1] = s[1]
    BY <1>3
  <2>2. ASSUME NEW i \in 2 .. n PROVE h[i] = h[i - 1] \o s[i]
    <3>1. i \in 1 .. n /\ i # 1
      OBVIOUS
    <3> QED BY <1>3, <3>1
  <2> QED BY <2>1, <2>2 DEF Joins
<1> QED BY <1>1, <1>4 DEF FlattensBy

(* Joining a single member gives that member.                              *)
LEMMA FlattenOne == ASSUME NEW s, Len(s) = 1 PROVE FlattenSeq(s) = s[1]
<1>0. PICK n \in Nat : n = 1 /\ n > 0
  OBVIOUS
<1>1. FlattensBy(s, n)
  BY <1>0, FlattenUnfolds
<1>2. PICK f : Joins(f, s, 1) /\ FlattenSeq(s) = f[1]
  BY <1>0, <1>1 DEF FlattensBy
<1> QED BY <1>2 DEF Joins

(* Joining one member more appends it to the join of the others.           *)
LEMMA FlattenAppended ==
  ASSUME NEW n \in Nat, n > 0, NEW s, NEW t, Len(s) = n, Len(t) = n + 1,
         \A i \in 1 .. n : t[i] = s[i]
  PROVE  FlattenSeq(t) = FlattenSeq(s) \o t[n + 1]
<1>0. FlattensBy(s, n) /\ FlattensBy(t, n + 1)
  <2>1. n + 1 \in Nat /\ n + 1 > 0
    OBVIOUS
  <2> QED BY <2>1, FlattenUnfolds
<1>1. PICK f : Joins(f, s, n) /\ FlattenSeq(s) = f[n]
  BY <1>0 DEF FlattensBy
<1>2. PICK g : Joins(g, t, n + 1) /\ FlattenSeq(t) = g[n + 1]
  BY <1>0 DEF FlattensBy
<1> DEFINE T == {m \in Nat : m \in 1 .. n => f[m] = g[m]}
<1>3. 0 \in T
  OBVIOUS
<1>4. ASSUME NEW m \in Nat, m \in T PROVE m + 1 \in T
  <2> SUFFICES ASSUME m + 1 \in 1 .. n PROVE f[m + 1] = g[m + 1]
    OBVIOUS
  <2>1. CASE m = 0
    BY <1>1, <1>2, <2>1 DEF Joins
  <2>2. CASE m # 0
    <3>1. m + 1 \in 2 .. n /\ m + 1 \in 2 .. n + 1 /\ (m + 1) - 1 = m /\ m \in 1 .. n
      BY <2>2
    <3>2. f[m + 1] = f[m] \o s[m + 1] /\ g[m + 1] = g[m] \o t[m + 1]
      BY <1>1, <1>2, <3>1 DEF Joins
    <3> QED BY <1>4, <3>1, <3>2
  <2> QED BY <2>1, <2>2
<1> HIDE DEF T
<1>5. n \in T
  BY <1>3, <1>4, Induction
<1>6. f[n] = g[n]
  BY <1>5 DEF T
<1>7. n + 1 \in 2 .. n + 1 /\ (n + 1) - 1 = n
  OBVIOUS
<1>8. g[n + 1] = g[n] \o t[n + 1]
  BY <1>2, <1>7 DEF Joins
<1> QED BY <1>1, <1>2, <1>6, <1>8

-----------------------------------------------------------------------------
(* The n processes ops and one more.                                       *)
Extends(all, ops, n) ==
  n \in Nat /\ n > 0 /\ Len(ops) = n /\ Len(all) = n + 1 /\ \A i \in 1 .. n : all[i] = ops[i]

(* A vector without its last component.                                    *)
Truncate(v, n) == [i \in 1 .. n |-> v[i]]

(* A vector with one component more.                                       *)
Extend(v, n, s) == [i \in 1 .. n + 1 |-> IF i <= n THEN v[i] ELSE s]

(* Extend and Truncate undo each other.                                    *)
LEMMA ExtendTruncate ==
  ASSUME NEW n \in Nat, n > 0
  PROVE  /\ \A v, s : Truncate(Extend(v, n, s), n) = Truncate(v, n)
         /\ \A v, s : Extend(v, n, s)[n + 1] = s /\ \A i \in 1 .. n : Extend(v, n, s)[i] = v[i]
         /\ \A v, s : DOMAIN Extend(v, n, s) = 1 .. n + 1
         /\ \A v : DOMAIN v = 1 .. n + 1 /\ v = [i \in 1 .. n + 1 |-> v[i]]
                => v = Extend(Truncate(v, n), n, v[n + 1])
         /\ \A v : v = [i \in 1 .. n |-> v[i]] => Truncate(v, n) = v
<1>1. n + 1 \in 1 .. n + 1 /\ ~ (n + 1 <= n)
  OBVIOUS
<1>2. \A i \in 1 .. n + 1 : i <= n \/ i = n + 1
  OBVIOUS
<1>3. \A i \in 1 .. n : i \in 1 .. n + 1 /\ i <= n
  OBVIOUS
<1> QED BY <1>1, <1>2, <1>3 DEF Extend, Truncate

(* The vectors of n + 1 processes are those of the first n with a state of *)
(* the last one.                                                           *)
LEMMA VectorsOfExtension ==
  ASSUME NEW ops, NEW all, NEW n, Extends(all, ops, n)
  PROVE  /\ \A v \in Vectors(all) :
              /\ DOMAIN v = 1 .. n + 1 /\ v = [i \in 1 .. n + 1 |-> v[i]]
              /\ Truncate(v, n) \in Vectors(ops)
              /\ v[n + 1] \in Nodes(all[n + 1])
              /\ v = Extend(Truncate(v, n), n, v[n + 1])
         /\ \A u \in Vectors(ops) : DOMAIN u = 1 .. n /\ u = [i \in 1 .. n |-> u[i]]
         /\ \A u \in Vectors(ops), s \in Nodes(all[n + 1]) : Extend(u, n, s) \in Vectors(all)
<1>1. /\ n \in Nat /\ n > 0 /\ Ports(ops) = 1 .. n /\ Ports(all) = 1 .. n + 1
      /\ \A i \in 1 .. n : all[i] = ops[i]
  BY DEF Extends, Ports
<1>2. ASSUME NEW v \in Vectors(all)
      PROVE  /\ DOMAIN v = 1 .. n + 1 /\ v = [i \in 1 .. n + 1 |-> v[i]]
             /\ \A i \in 1 .. n + 1 : v[i] \in Nodes(all[i])
  BY <1>1 DEF Vectors
<1>3. ASSUME NEW u \in Vectors(ops)
      PROVE  /\ DOMAIN u = 1 .. n /\ u = [i \in 1 .. n |-> u[i]]
             /\ \A i \in 1 .. n : u[i] \in Nodes(ops[i])
  BY <1>1 DEF Vectors
<1>4. ASSUME NEW v \in Vectors(all)
      PROVE  Truncate(v, n) \in Vectors(ops) /\ v[n + 1] \in Nodes(all[n + 1])
  <2>1. \A i \in 1 .. n : i \in 1 .. n + 1 /\ v[i] \in Nodes(ops[i])
    BY <1>1, <1>2
  <2>2. n + 1 \in 1 .. n + 1
    BY <1>1
  <2> QED BY <1>1, <1>2, <2>1, <2>2 DEF Vectors, Truncate
<1>5. ASSUME NEW u \in Vectors(ops), NEW s \in Nodes(all[n + 1])
      PROVE  Extend(u, n, s) \in Vectors(all)
  <2> DEFINE w == Extend(u, n, s)
  <2>1. w = [i \in 1 .. n + 1 |-> w[i]]
    BY DEF Extend
  <2>2. \A i \in 1 .. n + 1 : w[i] \in Nodes(all[i])
    <3>1. \A i \in 1 .. n : w[i] = u[i]
      BY <1>1, ExtendTruncate
    <3>2. w[n + 1] = s
      BY <1>1, ExtendTruncate
    <3>3. \A i \in 1 .. n + 1 : i \in 1 .. n \/ i = n + 1
      BY <1>1
    <3> HIDE DEF w
    <3> QED BY <1>1, <1>3, <3>1, <3>2, <3>3
  <2> HIDE DEF w
  <2>3. w \in Vectors(all)
    BY <1>1, <2>1, <2>2 DEF Vectors
  <2> QED BY <2>3 DEF w
<1> QED BY <1>1, <1>2, <1>3, <1>4, <1>5, ExtendTruncate

(* A step of several processes is a joint one or one process's own.        *)
Jointly(c, n) ==
  [event |-> c[1].event, dst |-> [i \in 1 .. n |-> c[i].dst],
   guard |-> FlattenSeq([i \in 1 .. n |-> c[i].guard]),
   post  |-> FlattenSeq([i \in 1 .. n |-> c[i].post])]

Alone(v, i, e) ==
  [event |-> e.event, dst |-> [v EXCEPT ![i] = e.dst], guard |-> e.guard, post |-> e.post]

(* m is one of these steps of ops from the vector v.                       *)
IsStep(m, ops, sync, v, n) ==
  \/ \E c \in Agreements(ops, sync, v) : m = Jointly(c, n)
  \/ \E i \in 1 .. n : \E e \in Outgoing(ops[i], v[i]) :
        e.event \notin sync /\ m = Alone(v, i, e)

(* The steps of the reference semantics are exactly these.                 *)
LEMMA StepsAre ==
  ASSUME NEW ops, NEW sync, NEW v, NEW n, Len(ops) = n
  PROVE  /\ \A m \in Steps(ops, sync, v) : IsStep(m, ops, sync, v, n)
         /\ \A c \in Agreements(ops, sync, v) : Jointly(c, n) \in Steps(ops, sync, v)
         /\ \A i \in 1 .. n : \A e \in Outgoing(ops[i], v[i]) :
              e.event \notin sync => Alone(v, i, e) \in Steps(ops, sync, v)
<1>1. Ports(ops) = 1 .. n
  BY DEF Ports
<1>2. Steps(ops, sync, v) =
        {Jointly(c, n) : c \in Agreements(ops, sync, v)}
        \cup UNION {{Alone(v, i, e) : e \in {x \in Outgoing(ops[i], v[i]) : x.event \notin sync}} :
                      i \in 1 .. n}
  BY <1>1 DEF Steps, Jointly, Alone
<1> QED BY <1>2 DEF IsStep

(* What the edges of a joint step have in common.                          *)
LEMMA AgreementsAre ==
  ASSUME NEW ops, NEW sync, NEW v, NEW n \in Nat, n > 0, Len(ops) = n
  PROVE  \A c : c \in Agreements(ops, sync, v) <=>
            /\ c = [i \in 1 .. n |-> c[i]]
            /\ \A i \in 1 .. n : c[i] \in Outgoing(ops[i], v[i]) /\ c[i].event = c[1].event
            /\ c[1].event \in sync
<1>1. Ports(ops) = 1 .. n
  BY DEF Ports
<1>2. \A i \in 1 .. n : \A e \in Outgoing(ops[i], v[i]) :
         e \in UNION {ops[j].edges : j \in 1 .. n}
  BY DEF Outgoing
<1>3. ASSUME NEW c, c \in Agreements(ops, sync, v)
      PROVE  /\ c = [i \in 1 .. n |-> c[i]]
             /\ \A i \in 1 .. n : c[i] \in Outgoing(ops[i], v[i]) /\ c[i].event = c[1].event
             /\ c[1].event \in sync
  BY <1>1, <1>3 DEF Agreements
<1>4. ASSUME NEW c, c = [i \in 1 .. n |-> c[i]],
             \A i \in 1 .. n : c[i] \in Outgoing(ops[i], v[i]) /\ c[i].event = c[1].event,
             c[1].event \in sync
      PROVE  c \in Agreements(ops, sync, v)
  <2>1. \A i \in 1 .. n : c[i] \in UNION {ops[j].edges : j \in 1 .. n}
    BY <1>2, <1>4
  <2>2. c \in [1 .. n -> UNION {ops[j].edges : j \in 1 .. n}]
    BY <1>4, <2>1
  <2> QED BY <1>1, <1>4, <2>2 DEF Agreements
<1> QED BY <1>3, <1>4

(* What a step of all processes is when the last one joins in, stays, or   *)
(* moves alone.                                                            *)
BothMove(m, e, n) ==
  [event |-> m.event, dst |-> Extend(m.dst, n, e.dst),
   guard |-> m.guard \o e.guard, post |-> m.post \o e.post]

LastStays(m, s, n) ==
  [event |-> m.event, dst |-> Extend(m.dst, n, s), guard |-> m.guard, post |-> m.post]

LastMoves(u, e, n) ==
  [event |-> e.event, dst |-> Extend(u, n, e.dst), guard |-> e.guard, post |-> e.post]

(* A joint step of n + 1 processes is one of the first n joined with an    *)
(* edge of the last.                                                       *)
LEMMA JointlyExtended ==
  ASSUME NEW n \in Nat, n > 0, NEW c
  PROVE  Jointly(c, n + 1) = BothMove(Jointly(Truncate(c, n), n), c[n + 1], n)
<1> DEFINE d == Truncate(c, n)
           guards(k, x) == [i \in 1 .. k |-> x[i].guard]
           posts(k, x)  == [i \in 1 .. k |-> x[i].post]
<1>1. \A i \in 1 .. n : d[i] = c[i]
  BY DEF Truncate
<1>2. 1 \in 1 .. n /\ n + 1 \in Nat /\ n + 1 \in 1 .. n + 1 /\ \A i \in 1 .. n : i \in 1 .. n + 1
  OBVIOUS
<1> HIDE DEF d
<1>3. FlattenSeq(guards(n + 1, c)) = FlattenSeq(guards(n, d)) \o c[n + 1].guard
  <2>1. Len(guards(n, d)) = n /\ Len(guards(n + 1, c)) = n + 1
    BY <1>2
  <2>2. /\ \A i \in 1 .. n : guards(n + 1, c)[i] = guards(n, d)[i]
        /\ guards(n + 1, c)[n + 1] = c[n + 1].guard
    BY <1>1, <1>2
  <2> HIDE DEF guards
  <2> QED BY <2>1, <2>2, FlattenAppended
<1>4. FlattenSeq(posts(n + 1, c)) = FlattenSeq(posts(n, d)) \o c[n + 1].post
  <2>1. Len(posts(n, d)) = n /\ Len(posts(n + 1, c)) = n + 1
    BY <1>2
  <2>2. /\ \A i \in 1 .. n : posts(n + 1, c)[i] = posts(n, d)[i]
        /\ posts(n + 1, c)[n + 1] = c[n + 1].post
    BY <1>1, <1>2
  <2> HIDE DEF posts
  <2> QED BY <2>1, <2>2, FlattenAppended
<1>5. [i \in 1 .. n + 1 |-> c[i].dst] = Extend([i \in 1 .. n |-> d[i].dst], n, c[n + 1].dst)
  <2>1. \A i \in 1 .. n + 1 : IF i <= n THEN i \in 1 .. n ELSE i = n + 1
    OBVIOUS
  <2> QED BY <1>1, <2>1 DEF Extend
<1>6. d[1].event = c[1].event
  BY <1>1, <1>2
<1>7. Jointly(c, n + 1) = BothMove(Jointly(d, n), c[n + 1], n)
  BY <1>3, <1>4, <1>5, <1>6 DEF Jointly, BothMove
<1> QED BY <1>7 DEF d

(* A process that moves alone is one of the first n while the last stays,  *)
(* or it is the last one.                                                  *)
LEMMA AloneExtended ==
  ASSUME NEW n \in Nat, n > 0, NEW v, v = [i \in 1 .. n + 1 |-> v[i]], NEW e
  PROVE  /\ \A i \in 1 .. n : Alone(v, i, e) = LastStays(Alone(Truncate(v, n), i, e), v[n + 1], n)
         /\ Alone(v, n + 1, e) = LastMoves(Truncate(v, n), e, n)
<1>0. \A i \in 1 .. n + 1 : IF i <= n THEN i \in 1 .. n ELSE i = n + 1
  OBVIOUS
<1>00. n + 1 \in 1 .. n + 1 /\ ~ (n + 1 <= n) /\ n + 1 \notin 1 .. n
  OBVIOUS
<1>1. ASSUME NEW i \in 1 .. n
      PROVE  [v EXCEPT ![i] = e.dst] = Extend([Truncate(v, n) EXCEPT ![i] = e.dst], n, v[n + 1])
  BY <1>0, <1>00 DEF Extend, Truncate
<1>2. [v EXCEPT ![n + 1] = e.dst] = Extend(Truncate(v, n), n, e.dst)
  BY <1>0, <1>00 DEF Extend, Truncate
<1> QED BY <1>1, <1>2 DEF Alone, LastStays, LastMoves

(* The steps of n + 1 processes are what interface parallel of two makes   *)
(* of the steps of the first n and the edges of the last: associativity of *)
(* the operator, one step at a time.                                       *)
LEMMA StepsOfExtension ==
  ASSUME NEW ops, NEW all, NEW n, Extends(all, ops, n), NEW sync, NEW v \in Vectors(all),
         NEW u, NEW s, NEW r, u = Truncate(v, n), s = v[n + 1], r = all[n + 1]
  PROVE  /\ \A m \in Steps(all, sync, v) :
              \/ \E k \in Steps(ops, sync, u) : \E e \in Outgoing(r, s) :
                    k.event = e.event /\ e.event \in sync /\ m = BothMove(k, e, n)
              \/ \E k \in Steps(ops, sync, u) : k.event \notin sync /\ m = LastStays(k, s, n)
              \/ \E e \in Outgoing(r, s) : e.event \notin sync /\ m = LastMoves(u, e, n)
         /\ \A k \in Steps(ops, sync, u) : \A e \in Outgoing(r, s) :
              k.event = e.event /\ e.event \in sync => BothMove(k, e, n) \in Steps(all, sync, v)
         /\ \A k \in Steps(ops, sync, u) :
              k.event \notin sync => LastStays(k, s, n) \in Steps(all, sync, v)
         /\ \A e \in Outgoing(r, s) :
              e.event \notin sync => LastMoves(u, e, n) \in Steps(all, sync, v)
<1>1. /\ n \in Nat /\ n > 0 /\ Len(ops) = n /\ Len(all) = n + 1 /\ n + 1 \in Nat /\ n + 1 > 0
      /\ \A i \in 1 .. n : all[i] = ops[i]
  BY DEF Extends
<1>2. /\ 1 \in 1 .. n /\ n + 1 \in 1 .. n + 1
      /\ \A i \in 1 .. n : i \in 1 .. n + 1
      /\ \A i \in 1 .. n + 1 : i \in 1 .. n \/ i = n + 1
  BY <1>1
<1>3. v = [i \in 1 .. n + 1 |-> v[i]]
  BY VectorsOfExtension
<1>4. \A i \in 1 .. n : u[i] = v[i]
  BY DEF Truncate
<1>5. ASSUME NEW c, c \in Agreements(all, sync, v)
      PROVE  /\ Truncate(c, n) \in Agreements(ops, sync, u) /\ c[n + 1] \in Outgoing(r, s)
             /\ c[n + 1].event \in sync /\ c[n + 1].event = Truncate(c, n)[1].event
  <2>1. /\ \A i \in 1 .. n + 1 : c[i] \in Outgoing(all[i], v[i]) /\ c[i].event = c[1].event
        /\ c[1].event \in sync
    BY <1>1, <1>5, AgreementsAre
  <2> DEFINE d == Truncate(c, n)
  <2>2. d = [i \in 1 .. n |-> d[i]] /\ \A i \in 1 .. n : d[i] = c[i]
    BY DEF Truncate
  <2> HIDE DEF d
  <2>3. \A i \in 1 .. n : d[i] \in Outgoing(ops[i], u[i]) /\ d[i].event = d[1].event
    BY <1>1, <1>2, <1>4, <2>1, <2>2
  <2>4. d[1].event \in sync
    BY <1>2, <2>1, <2>2
  <2>5. d \in Agreements(ops, sync, u)
    BY <1>1, <2>2, <2>3, <2>4, AgreementsAre
  <2>6. c[n + 1] \in Outgoing(r, s) /\ c[n + 1].event \in sync /\ c[n + 1].event = d[1].event
    BY <1>2, <2>1, <2>2
  <2> QED BY <2>5, <2>6 DEF d
<1>6. ASSUME NEW d \in Agreements(ops, sync, u), NEW e \in Outgoing(r, s),
             d[1].event = e.event, e.event \in sync
      PROVE  Extend(d, n, e) \in Agreements(all, sync, v) /\ Truncate(Extend(d, n, e), n) = d
  <2> DEFINE c == Extend(d, n, e)
  <2>1. /\ d = [i \in 1 .. n |-> d[i]]
        /\ \A i \in 1 .. n : d[i] \in Outgoing(ops[i], u[i]) /\ d[i].event = d[1].event
    BY <1>1, AgreementsAre
  <2>2. c = [i \in 1 .. n + 1 |-> c[i]]
    BY DEF Extend
  <2>3. c[n + 1] = e /\ \A i \in 1 .. n : c[i] = d[i]
    BY <1>1, ExtendTruncate
  <2>4. Truncate(c, n) = d
    BY <1>1, <2>1, ExtendTruncate
  <2> HIDE DEF c
  <2>5. \A i \in 1 .. n + 1 : c[i] \in Outgoing(all[i], v[i]) /\ c[i].event = c[1].event
    <3>1. c[1].event = d[1].event
      BY <1>2, <2>3
    <3>2. \A i \in 1 .. n : c[i] \in Outgoing(all[i], v[i]) /\ c[i].event = c[1].event
      BY <1>1, <1>4, <2>1, <2>3, <3>1
    <3>3. c[n + 1] \in Outgoing(all[n + 1], v[n + 1]) /\ c[n + 1].event = c[1].event
      BY <1>6, <2>3, <3>1
    <3> QED BY <1>2, <3>2, <3>3
  <2>6. c[1].event \in sync
    BY <1>2, <1>6, <2>3
  <2>7. c \in Agreements(all, sync, v)
    BY <1>1, <2>2, <2>5, <2>6, AgreementsAre
  <2> QED BY <2>4, <2>7 DEF c
<1>11. /\ \A m \in Steps(all, sync, v) : IsStep(m, all, sync, v, n + 1)
       /\ \A c \in Agreements(all, sync, v) : Jointly(c, n + 1) \in Steps(all, sync, v)
  <2>1. PICK k : k = n + 1
    OBVIOUS
  <2>2. Len(all) = k
    BY <1>1, <2>1
  <2>3. /\ \A m \in Steps(all, sync, v) : IsStep(m, all, sync, v, k)
        /\ \A c \in Agreements(all, sync, v) : Jointly(c, k) \in Steps(all, sync, v)
    BY <2>2, StepsAre
  <2> QED BY <2>1, <2>3
<1>12. \A k \in Steps(ops, sync, u) : IsStep(k, ops, sync, u, n)
  BY <1>1, StepsAre
<1>7. ASSUME NEW m \in Steps(all, sync, v)
      PROVE  \/ \E k \in Steps(ops, sync, u) : \E e \in Outgoing(r, s) :
                    k.event = e.event /\ e.event \in sync /\ m = BothMove(k, e, n)
             \/ \E k \in Steps(ops, sync, u) : k.event \notin sync /\ m = LastStays(k, s, n)
             \/ \E e \in Outgoing(r, s) : e.event \notin sync /\ m = LastMoves(u, e, n)
  <2>1. ASSUME NEW c \in Agreements(all, sync, v), m = Jointly(c, n + 1)
        PROVE  \E k \in Steps(ops, sync, u) : \E e \in Outgoing(r, s) :
                    k.event = e.event /\ e.event \in sync /\ m = BothMove(k, e, n)
    <3> DEFINE k == Jointly(Truncate(c, n), n)
    <3>1. k \in Steps(ops, sync, u)
      BY <1>1, <1>5, StepsAre
    <3>2. m = BothMove(k, c[n + 1], n)
      BY <1>1, <2>1, JointlyExtended
    <3>3. k.event = c[n + 1].event /\ c[n + 1].event \in sync /\ c[n + 1] \in Outgoing(r, s)
      BY <1>5 DEF Jointly
    <3> HIDE DEF k
    <3> QED BY <3>1, <3>2, <3>3
  <2>2. ASSUME NEW i \in 1 .. n, NEW e \in Outgoing(all[i], v[i]), e.event \notin sync,
               m = Alone(v, i, e)
        PROVE  \E k \in Steps(ops, sync, u) : k.event \notin sync /\ m = LastStays(k, s, n)
    <3> DEFINE k == Alone(u, i, e)
    <3>0. e \in Outgoing(ops[i], u[i])
      BY <1>1, <1>4
    <3>1. k \in Steps(ops, sync, u)
      BY <1>1, <2>2, <3>0, StepsAre
    <3>2. m = LastStays(k, s, n)
      BY <1>1, <1>3, <2>2, AloneExtended
    <3>3. k.event \notin sync
      BY <2>2 DEF Alone
    <3> HIDE DEF k
    <3> QED BY <3>1, <3>2, <3>3
  <2>3. ASSUME NEW e \in Outgoing(r, s), e.event \notin sync, m = Alone(v, n + 1, e)
        PROVE  \E x \in Outgoing(r, s) : x.event \notin sync /\ m = LastMoves(u, x, n)
    BY <1>1, <1>3, <2>3, AloneExtended
  <2>4. \/ \E c \in Agreements(all, sync, v) : m = Jointly(c, n + 1)
        \/ \E i \in 1 .. n + 1 : \E e \in Outgoing(all[i], v[i]) :
              e.event \notin sync /\ m = Alone(v, i, e)
    BY <1>11 DEF IsStep
  <2> QED BY <1>2, <2>1, <2>2, <2>3, <2>4
<1>8. ASSUME NEW k \in Steps(ops, sync, u), NEW e \in Outgoing(r, s),
             k.event = e.event, e.event \in sync
      PROVE  BothMove(k, e, n) \in Steps(all, sync, v)
  <2>1. \/ \E c \in Agreements(ops, sync, u) : k = Jointly(c, n)
        \/ \E i \in 1 .. n : \E x \in Outgoing(ops[i], u[i]) :
              x.event \notin sync /\ k = Alone(u, i, x)
    BY <1>12 DEF IsStep
  <2>2. PICK d \in Agreements(ops, sync, u) : k = Jointly(d, n)
    BY <1>8, <2>1 DEF Alone
  <2>3. d[1].event = e.event
    BY <1>8, <2>2 DEF Jointly
  <2> DEFINE c == Extend(d, n, e)
  <2>4. c \in Agreements(all, sync, v) /\ Truncate(c, n) = d
    BY <1>6, <1>8, <2>3
  <2>5. c[n + 1] = e
    BY <1>1, ExtendTruncate
  <2> HIDE DEF c
  <2>6. Jointly(c, n + 1) = BothMove(k, e, n)
    BY <1>1, <2>2, <2>4, <2>5, JointlyExtended
  <2> QED BY <1>11, <2>4, <2>6
<1>9. ASSUME NEW k \in Steps(ops, sync, u), k.event \notin sync
      PROVE  LastStays(k, s, n) \in Steps(all, sync, v)
  <2>1. \/ \E c \in Agreements(ops, sync, u) : k = Jointly(c, n)
        \/ \E i \in 1 .. n : \E x \in Outgoing(ops[i], u[i]) :
              x.event \notin sync /\ k = Alone(u, i, x)
    BY <1>12 DEF IsStep
  <2>2. ASSUME NEW c \in Agreements(ops, sync, u), k = Jointly(c, n) PROVE FALSE
    <3>1. c[1].event \in sync
      BY <1>1, AgreementsAre
    <3> QED BY <1>9, <2>2, <3>1 DEF Jointly
  <2>3. PICK i \in 1 .. n : \E x \in Outgoing(ops[i], u[i]) :
              x.event \notin sync /\ k = Alone(u, i, x)
    BY <2>1, <2>2
  <2>4. PICK x \in Outgoing(ops[i], u[i]) : x.event \notin sync /\ k = Alone(u, i, x)
    BY <2>3
  <2>5. x \in Outgoing(all[i], v[i]) /\ i \in 1 .. n + 1
    BY <1>1, <1>2, <1>4
  <2>6. Alone(v, i, x) \in Steps(all, sync, v)
    BY <1>1, <2>4, <2>5, StepsAre
  <2>7. Alone(v, i, x) = LastStays(k, s, n)
    BY <1>1, <1>3, <2>4, AloneExtended
  <2> QED BY <2>6, <2>7
<1>10. ASSUME NEW e \in Outgoing(r, s), e.event \notin sync
       PROVE  LastMoves(u, e, n) \in Steps(all, sync, v)
  <2>1. Alone(v, n + 1, e) \in Steps(all, sync, v)
    BY <1>1, <1>2, <1>10, StepsAre
  <2>2. Alone(v, n + 1, e) = LastMoves(u, e, n)
    BY <1>1, <1>3, AloneExtended
  <2> QED BY <2>1, <2>2
<1> QED BY <1>7, <1>8, <1>9, <1>10

-----------------------------------------------------------------------------
(* A step leads from a vector to a vector.                                 *)
LEMMA StepsStay ==
  ASSUME NEW n \in Nat, n > 0, NEW ops, Len(ops) = n, NEW sync, NEW v \in Vectors(ops),
         NEW m \in Steps(ops, sync, v)
  PROVE  m.dst \in Vectors(ops)
<1>1. Ports(ops) = 1 .. n
  BY DEF Ports
<1>2. \A i \in 1 .. n : \A e \in Outgoing(ops[i], v[i]) : e.dst \in Nodes(ops[i])
  BY DEF Outgoing, Nodes
<1>3. /\ v = [i \in 1 .. n |-> v[i]] /\ \A i \in 1 .. n : v[i] \in Nodes(ops[i])
  BY <1>1 DEF Vectors
<1>4. IsStep(m, ops, sync, v, n)
  BY StepsAre
<1>5. m.dst = [i \in 1 .. n |-> m.dst[i]] /\ \A i \in 1 .. n : m.dst[i] \in Nodes(ops[i])
  <2>1. ASSUME NEW c \in Agreements(ops, sync, v), m = Jointly(c, n)
        PROVE  m.dst = [i \in 1 .. n |-> m.dst[i]] /\ \A i \in 1 .. n : m.dst[i] \in Nodes(ops[i])
    <3>1. \A i \in 1 .. n : c[i] \in Outgoing(ops[i], v[i])
      BY AgreementsAre
    <3>2. m.dst = [i \in 1 .. n |-> c[i].dst]
      BY <2>1 DEF Jointly
    <3> QED BY <1>2, <3>1, <3>2
  <2>2. ASSUME NEW j \in 1 .. n, NEW e \in Outgoing(ops[j], v[j]), m = Alone(v, j, e)
        PROVE  m.dst = [i \in 1 .. n |-> m.dst[i]] /\ \A i \in 1 .. n : m.dst[i] \in Nodes(ops[i])
    <3>1. m.dst = [v EXCEPT ![j] = e.dst] /\ e.dst \in Nodes(ops[j])
      BY <1>2, <2>2 DEF Alone
    <3>2. m.dst = [i \in 1 .. n |-> IF i = j THEN e.dst ELSE v[i]]
      BY <1>3, <3>1
    <3> QED BY <1>3, <3>1, <3>2
  <2> QED BY <1>4, <2>1, <2>2 DEF IsStep
<1> QED BY <1>1, <1>5 DEF Vectors

(* No step leads out of the vectors S.                                     *)
StepClosed(S, ops, sync) == \A v \in S : \A m \in Steps(ops, sync, v) : m.dst \in S

(* The reachable vectors hold the initial one, are closed and are least.   *)
LEMMA VectorsReachable ==
  ASSUME NEW n \in Nat, n > 0, NEW ops, Len(ops) = n, NEW sync
  PROVE  /\ ReachableVectors(ops, sync) \subseteq Vectors(ops)
         /\ InitialVector(ops) \in ReachableVectors(ops, sync)
         /\ StepClosed(ReachableVectors(ops, sync), ops, sync)
         /\ \A S \in SUBSET Vectors(ops) :
              InitialVector(ops) \in S /\ StepClosed(S, ops, sync)
                => ReachableVectors(ops, sync) \subseteq S
<1> DEFINE V == Vectors(ops)
           R == ReachableVectors(ops, sync)
           arcs == UNION {{<<v, m.dst>> : m \in Steps(ops, sync, v)} : v \in V}
           Least == {v \in V : \A S \in SUBSET V :
                       InitialVector(ops) \in S /\ StepClosed(S, ops, sync) => v \in S}
<1>1. \A S \in SUBSET V : (\A a \in arcs : a[1] \in S => a[2] \in S) <=> StepClosed(S, ops, sync)
  <2> SUFFICES ASSUME NEW S \in SUBSET V
               PROVE  (\A a \in arcs : a[1] \in S => a[2] \in S) <=> StepClosed(S, ops, sync)
    OBVIOUS
  <2>1. ASSUME \A a \in arcs : a[1] \in S => a[2] \in S, NEW v \in S, NEW m \in Steps(ops, sync, v)
        PROVE  m.dst \in S
    <3>1. <<v, m.dst>> \in arcs
      OBVIOUS
    <3> HIDE DEF arcs
    <3> QED BY <2>1, <3>1
  <2>2. ASSUME StepClosed(S, ops, sync), NEW a \in arcs, a[1] \in S
        PROVE  a[2] \in S
    <3>1. PICK v \in V : \E m \in Steps(ops, sync, v) : a = <<v, m.dst>>
      OBVIOUS
    <3> QED BY <2>2, <3>1 DEF StepClosed
  <2> QED BY <2>1, <2>2 DEF StepClosed
<1>2. R = Least
  <2>1. R = {v \in V : \A S \in SUBSET V :
                InitialVector(ops) \in S /\ (\A a \in arcs : a[1] \in S => a[2] \in S) => v \in S}
    BY DEF ReachableVectors
  <2> HIDE DEF arcs, R, V
  <2> QED BY <1>1, <2>1
<1>3. InitialVector(ops) \in V
  BY DEF InitialVector, Vectors, Ports, Nodes
<1>4. \A v \in V : \A m \in Steps(ops, sync, v) : m.dst \in V
  BY StepsStay
<1>5. StepClosed(Least, ops, sync)
  <2> SUFFICES ASSUME NEW v \in Least, NEW m \in Steps(ops, sync, v) PROVE m.dst \in Least
    BY DEF StepClosed
  <2>1. v \in V /\ m.dst \in V
    BY <1>4
  <2>2. ASSUME NEW S \in SUBSET V, InitialVector(ops) \in S, StepClosed(S, ops, sync)
        PROVE  m.dst \in S
    BY <2>2 DEF StepClosed
  <2> QED BY <2>1, <2>2
<1> HIDE DEF V, R
<1> QED BY <1>2, <1>3, <1>5 DEF V, R

-----------------------------------------------------------------------------
(* The ids the fold composes, and what tells vectors apart by them.        *)
Ids(v) == [i \in DOMAIN v |-> IF i = 1 THEN v[1] ELSE <<Sep>> \o v[i]]

(* The id of a vector is the one ComposeStateIDs builds from left to       *)
(* right.                                                                  *)
LEMMA VectorIDs ==
  /\ \A v : DOMAIN v = 1 .. 1 => VectorID(v) = v[1]
  /\ \A n \in Nat : \A v : n > 0 /\ DOMAIN v = 1 .. n + 1 /\ VectorID(Truncate(v, n)) \in StateID
        /\ v[n + 1] \in StateID
        => VectorID(v) = ComposeStateIDs(VectorID(Truncate(v, n)), v[n + 1])
<1>1. ASSUME NEW v, DOMAIN v = 1 .. 1 PROVE VectorID(v) = v[1]
  <2>1. Len(Ids(v)) = 1 /\ Ids(v)[1] = v[1]
    BY <1>1 DEF Ids
  <2>2. FlattenSeq(Ids(v)) = v[1]
    BY <2>1, FlattenOne
  <2> QED BY <2>2 DEF VectorID, Ids
<1>2. ASSUME NEW n \in Nat, NEW v, n > 0, DOMAIN v = 1 .. n + 1,
             VectorID(Truncate(v, n)) \in StateID, v[n + 1] \in StateID
      PROVE  VectorID(v) = ComposeStateIDs(VectorID(Truncate(v, n)), v[n + 1])
  <2> DEFINE u == Truncate(v, n)
             a == VectorID(u)
             b == v[n + 1]
  <2>1. DOMAIN u = 1 .. n /\ \A i \in 1 .. n : u[i] = v[i]
    BY DEF Truncate
  <2>2. Len(Ids(u)) = n /\ Len(Ids(v)) = n + 1
    BY <1>2, <2>1 DEF Ids
  <2>3. \A i \in 1 .. n : Ids(v)[i] = Ids(u)[i]
    BY <1>2, <2>1 DEF Ids
  <2>4. Ids(v)[n + 1] = <<Sep>> \o b
    <3>1. n + 1 \in 1 .. n + 1 /\ n + 1 # 1
      BY <1>2
    <3> QED BY <1>2, <3>1 DEF Ids
  <2>5. FlattenSeq(Ids(v)) = FlattenSeq(Ids(u)) \o Ids(v)[n + 1]
    BY <1>2, <2>2, <2>3, FlattenAppended
  <2>6. a = FlattenSeq(Ids(u)) /\ VectorID(v) = FlattenSeq(Ids(v))
    BY DEF VectorID, Ids
  <2>7. VectorID(v) = a \o (<<Sep>> \o b)
    BY <2>4, <2>5, <2>6
  <2>8. a \in Seq(Char) /\ b \in Seq(Char) /\ <<Sep>> \in Seq(Char)
    BY <1>2, SepAssumption DEF StateID
  <2> HIDE DEF a, b, u
  <2>9. (a \o <<Sep>>) \o b = a \o (<<Sep>> \o b)
    BY <2>8, ConcatAssociative
  <2>10. VectorID(v) = ComposeStateIDs(a, b)
    BY <2>7, <2>9 DEF ComposeStateIDs
  <2> QED BY <2>10 DEF a, b, u
<1> QED BY <1>1, <1>2

(* Every vector has an id, and no two of them share it.                    *)
Apart(ops) ==
  /\ \A v \in Vectors(ops) : VectorID(v) \in StateID
  /\ \A v, w \in Vectors(ops) : VectorID(v) = VectorID(w) => v = w

(* A further operand with plain ids keeps the ids of the vectors apart.    *)
LEMMA ApartExtends ==
  ASSUME NEW ops, NEW all, NEW n, Extends(all, ops, n), Apart(ops), all[n + 1] \in PlainOperands
  PROVE  /\ Apart(all)
         /\ \A v \in Vectors(all) :
              VectorID(v) = ComposeStateIDs(VectorID(Truncate(v, n)), v[n + 1])
<1>1. n \in Nat /\ n > 0
  BY DEF Extends
<1>2. Nodes(all[n + 1]) \subseteq StateID /\ \A id \in Nodes(all[n + 1]) : Plain(id)
  BY JobsAssumption DEF PlainOperands
<1>3. ASSUME NEW v \in Vectors(all)
      PROVE  /\ VectorID(Truncate(v, n)) \in StateID /\ v[n + 1] \in StateID /\ Plain(v[n + 1])
             /\ Truncate(v, n) \in Vectors(ops)
             /\ VectorID(v) = ComposeStateIDs(VectorID(Truncate(v, n)), v[n + 1])
             /\ v = Extend(Truncate(v, n), n, v[n + 1])
  <2>1. /\ DOMAIN v = 1 .. n + 1 /\ Truncate(v, n) \in Vectors(ops) /\ v[n + 1] \in Nodes(all[n + 1])
        /\ v = Extend(Truncate(v, n), n, v[n + 1])
    BY VectorsOfExtension
  <2>2. VectorID(Truncate(v, n)) \in StateID /\ v[n + 1] \in StateID /\ Plain(v[n + 1])
    BY <1>2, <2>1 DEF Apart
  <2>3. VectorID(v) = ComposeStateIDs(VectorID(Truncate(v, n)), v[n + 1])
    BY <1>1, <2>1, <2>2, VectorIDs
  <2> QED BY <2>1, <2>2, <2>3
<1>4. ASSUME NEW v \in Vectors(all) PROVE VectorID(v) \in StateID
  <2>1. PICK a, b : a = VectorID(Truncate(v, n)) /\ b = v[n + 1]
    OBVIOUS
  <2>2. a \in Seq(Char) /\ b \in Seq(Char) /\ <<Sep>> \in Seq(Char)
    BY <1>3, <2>1, SepAssumption DEF StateID
  <2>3. a \o <<Sep>> \in Seq(Char)
    BY <2>2, ConcatProperties
  <2>4. (a \o <<Sep>>) \o b \in Seq(Char)
    BY <2>2, <2>3, ConcatProperties
  <2> QED BY <1>3, <2>1, <2>4 DEF ComposeStateIDs, StateID
<1>5. ASSUME NEW v \in Vectors(all), NEW w \in Vectors(all), VectorID(v) = VectorID(w)
      PROVE  v = w
  <2>1. VectorID(Truncate(v, n)) = VectorID(Truncate(w, n)) /\ v[n + 1] = w[n + 1]
    BY <1>3, <1>5, PlainRightUnambiguous
  <2>2. Truncate(v, n) = Truncate(w, n)
    BY <1>3, <2>1 DEF Apart
  <2> QED BY <1>3, <2>1, <2>2
<1> QED BY <1>3, <1>4, <1>5 DEF Apart

-----------------------------------------------------------------------------
(* An edge of a composite and the step of its operands it stands for.      *)
StandsFor(e, m) ==
  e.event = m.event /\ e.dst = VectorID(m.dst) /\ e.guard = m.guard /\ e.post = m.post

(* What a diagram in the place of the operands ops has to show for the     *)
(* fold to go on: their start, and at every reachable vector their         *)
(* contents and their steps.                                               *)
Represents(d, ops, sync) ==
  /\ d.start.dst = VectorID(InitialVector(ops)) /\ d.start.post = StartPosts(ops)
  /\ \A v \in ReachableVectors(ops, sync) :
       /\ VectorID(v) \in Nodes(d) /\ StateOf(d, VectorID(v)) = Contents(ops, v)
       /\ \A m \in Steps(ops, sync, v) : \E e \in Outgoing(d, VectorID(v)) : StandsFor(e, m)
       /\ \A e \in Outgoing(d, VectorID(v)) : \E m \in Steps(ops, sync, v) : StandsFor(e, m)

(* A diagram by itself represents itself.                                  *)
LEMMA OneOperand ==
  ASSUME NEW d \in Operands, NEW ops, Len(ops) = 1, ops[1] = d, NEW sync
  PROVE  Apart(ops) /\ Represents(d, ops, sync)
<1>1. PICK n \in Nat : n = 1 /\ n > 0
  OBVIOUS
<1>2. Len(ops) = n /\ Ports(ops) = 1 .. 1 /\ 1 \in 1 .. 1
  BY <1>1 DEF Ports
<1>3. \A v \in Vectors(ops) : DOMAIN v = 1 .. 1 /\ v = [i \in 1 .. 1 |-> v[1]] /\ v[1] \in Nodes(d)
  BY <1>2 DEF Vectors
<1>4. \A v \in Vectors(ops) : VectorID(v) = v[1]
  BY <1>3, VectorIDs
<1>5. Apart(ops)
  BY <1>3, <1>4, JobsAssumption DEF Apart
<1>6. /\ ReachableVectors(ops, sync) \subseteq Vectors(ops)
      /\ InitialVector(ops) \in ReachableVectors(ops, sync)
  BY <1>1, <1>2, VectorsReachable
<1>7. VectorID(InitialVector(ops)) = d.start.dst
  <2>1. InitialVector(ops)[1] = d.start.dst
    BY <1>2 DEF InitialVector
  <2> QED BY <1>4, <1>6, <2>1
<1>8. StartPosts(ops) = d.start.post
  <2> DEFINE posts == [i \in Ports(ops) |-> ops[i].start.post]
  <2>1. Len(posts) = 1 /\ posts[1] = d.start.post
    BY <1>2
  <2> HIDE DEF posts
  <2>2. FlattenSeq(posts) = d.start.post
    BY <2>1, FlattenOne
  <2> QED BY <2>2 DEF StartPosts, posts
<1>9. ASSUME NEW v \in Vectors(ops) PROVE Contents(ops, v) = StateOf(d, v[1])
  <2> DEFINE parts == [i \in Ports(ops) |-> StateOf(ops[i], v[i])]
  <2>1. Len(parts) = 1 /\ parts[1] = StateOf(d, v[1])
    BY <1>2
  <2> HIDE DEF parts
  <2>2. FlattenSeq(parts) = StateOf(d, v[1])
    BY <2>1, FlattenOne
  <2> QED BY <2>2 DEF Contents, parts
<1>10. ASSUME NEW v \in Vectors(ops), NEW m \in Steps(ops, sync, v)
       PROVE  \E e \in Outgoing(d, v[1]) : StandsFor(e, m)
  <2>0. m.dst \in Vectors(ops)
    BY <1>1, <1>2, StepsStay
  <2>1. IsStep(m, ops, sync, v, n)
    BY <1>2, StepsAre
  <2>2. ASSUME NEW c \in Agreements(ops, sync, v), m = Jointly(c, n)
        PROVE  \E e \in Outgoing(d, v[1]) : StandsFor(e, m)
    <3>0. \A i \in 1 .. n : c[i] \in Outgoing(ops[i], v[i])
      BY <1>1, <1>2, AgreementsAre
    <3>1. c[1] \in Outgoing(d, v[1])
      BY <1>1, <3>0
    <3>2. m.event = c[1].event /\ m.dst[1] = c[1].dst
      BY <1>1, <2>2 DEF Jointly
    <3>3. m.guard = c[1].guard
      <4> DEFINE parts == [i \in 1 .. 1 |-> c[i].guard]
      <4>1. Len(parts) = 1 /\ parts[1] = c[1].guard
        OBVIOUS
      <4>2. m.guard = FlattenSeq(parts)
        BY <1>1, <2>2 DEF Jointly
      <4> HIDE DEF parts
      <4> QED BY <4>1, <4>2, FlattenOne
    <3>4. m.post = c[1].post
      <4> DEFINE parts == [i \in 1 .. 1 |-> c[i].post]
      <4>1. Len(parts) = 1 /\ parts[1] = c[1].post
        OBVIOUS
      <4>2. m.post = FlattenSeq(parts)
        BY <1>1, <2>2 DEF Jointly
      <4> HIDE DEF parts
      <4> QED BY <4>1, <4>2, FlattenOne
    <3> QED BY <1>4, <2>0, <3>1, <3>2, <3>3, <3>4 DEF StandsFor
  <2>3. ASSUME NEW i \in 1 .. n, NEW e \in Outgoing(ops[i], v[i]), m = Alone(v, i, e)
        PROVE  \E x \in Outgoing(d, v[1]) : StandsFor(x, m)
    <3>1. i = 1 /\ e \in Outgoing(d, v[1])
      BY <1>1
    <3>2. m.event = e.event /\ m.dst[1] = e.dst /\ m.guard = e.guard /\ m.post = e.post
      BY <1>2, <1>3, <2>3, <3>1 DEF Alone
    <3> QED BY <1>4, <2>0, <3>1, <3>2 DEF StandsFor
  <2> QED BY <2>1, <2>2, <2>3 DEF IsStep
<1>11. ASSUME NEW v \in Vectors(ops), NEW e \in Outgoing(d, v[1])
       PROVE  \E m \in Steps(ops, sync, v) : StandsFor(e, m)
  <2>1. CASE e.event \in sync
    <3> DEFINE c == [i \in 1 .. n |-> e]
               m == Jointly(c, n)
               guards == [i \in 1 .. n |-> c[i].guard]
               posts  == [i \in 1 .. n |-> c[i].post]
    <3>1. c[1] = e /\ c = [i \in 1 .. n |-> c[i]] /\ \A i \in 1 .. n : i = 1
      BY <1>1
    <3>2. /\ Len(guards) = 1 /\ guards[1] = e.guard /\ Len(posts) = 1 /\ posts[1] = e.post
      BY <1>1
    <3>3. m.event = e.event /\ m.dst[1] = e.dst /\ m.guard = FlattenSeq(guards) /\ m.post = FlattenSeq(posts)
      BY <1>1 DEF Jointly
    <3> HIDE DEF c, m, guards, posts
    <3>4. m.guard = e.guard /\ m.post = e.post
      BY <3>2, <3>3, FlattenOne
    <3>5. c \in Agreements(ops, sync, v)
      BY <1>1, <1>2, <2>1, <3>1, AgreementsAre
    <3>6. m \in Steps(ops, sync, v)
      BY <1>2, <3>5, StepsAre DEF m
    <3>7. m.dst \in Vectors(ops)
      BY <1>1, <1>2, <3>6, StepsStay
    <3> QED BY <1>4, <3>3, <3>4, <3>6, <3>7 DEF StandsFor
  <2>2. CASE e.event \notin sync
    <3> DEFINE m == Alone(v, 1, e)
    <3>1. m.event = e.event /\ m.dst[1] = e.dst /\ m.guard = e.guard /\ m.post = e.post
      BY <1>2, <1>3 DEF Alone
    <3>2. m \in Steps(ops, sync, v)
      BY <1>1, <1>2, <2>2, StepsAre
    <3>3. m.dst \in Vectors(ops)
      BY <1>1, <1>2, <3>2, StepsStay
    <3> HIDE DEF m
    <3> QED BY <1>4, <3>1, <3>2, <3>3 DEF StandsFor
  <2> QED BY <2>1, <2>2
<1>12. Represents(d, ops, sync)
  <2> SUFFICES ASSUME NEW v \in ReachableVectors(ops, sync)
               PROVE  /\ VectorID(v) \in Nodes(d) /\ StateOf(d, VectorID(v)) = Contents(ops, v)
                      /\ \A m \in Steps(ops, sync, v) :
                           \E e \in Outgoing(d, VectorID(v)) : StandsFor(e, m)
                      /\ \A e \in Outgoing(d, VectorID(v)) :
                           \E m \in Steps(ops, sync, v) : StandsFor(e, m)
    BY <1>7, <1>8 DEF Represents
  <2>1. v \in Vectors(ops) /\ VectorID(v) = v[1]
    BY <1>4, <1>6
  <2> QED BY <1>3, <1>9, <1>10, <1>11, <2>1
<1> QED BY <1>5, <1>12

(* A diagram that is a composite represents its operands.                  *)
LEMMA CompositeRepresents ==
  ASSUME NEW n \in Nat, n > 0, NEW ops, Len(ops) = n, NEW sync, NEW d, IsInterfaceParallel(d, ops, sync)
  PROVE  Represents(d, ops, sync)
<1> DEFINE R == ReachableVectors(ops, sync)
<1>1. /\ d.start = [dst |-> VectorID(InitialVector(ops)), post |-> StartPosts(ops)]
      /\ DOMAIN d.states = {VectorID(v) : v \in R}
      /\ \A v, w \in R : VectorID(v) = VectorID(w) => v = w
      /\ \A v \in R : d.states[VectorID(v)] = Contents(ops, v)
      /\ d.edges = UNION {{EdgeFor(v, m) : m \in Steps(ops, sync, v)} : v \in R}
  BY DEF IsInterfaceParallel
<1> SUFFICES ASSUME NEW v \in R
             PROVE  /\ VectorID(v) \in Nodes(d) /\ StateOf(d, VectorID(v)) = Contents(ops, v)
                    /\ \A m \in Steps(ops, sync, v) :
                         \E e \in Outgoing(d, VectorID(v)) : StandsFor(e, m)
                    /\ \A e \in Outgoing(d, VectorID(v)) :
                         \E m \in Steps(ops, sync, v) : StandsFor(e, m)
  BY <1>1 DEF Represents
<1> HIDE DEF R
<1>2. VectorID(v) \in DOMAIN d.states
  BY <1>1
<1>3. ASSUME NEW m \in Steps(ops, sync, v)
      PROVE  \E e \in Outgoing(d, VectorID(v)) : StandsFor(e, m)
  <2>1. EdgeFor(v, m) \in d.edges
    BY <1>1
  <2>2. EdgeFor(v, m).src = VectorID(v) /\ StandsFor(EdgeFor(v, m), m)
    BY DEF EdgeFor, StandsFor
  <2> QED BY <2>1, <2>2 DEF Outgoing
<1>4. ASSUME NEW e \in Outgoing(d, VectorID(v))
      PROVE  \E m \in Steps(ops, sync, v) : StandsFor(e, m)
  <2>1. e \in d.edges /\ e.src = VectorID(v)
    BY DEF Outgoing
  <2>2. PICK w \in R : \E m \in Steps(ops, sync, w) : e = EdgeFor(w, m)
    BY <1>1, <2>1
  <2>3. PICK m \in Steps(ops, sync, w) : e = EdgeFor(w, m)
    BY <2>2
  <2>4. VectorID(w) = VectorID(v) /\ StandsFor(e, m)
    BY <2>1, <2>3 DEF EdgeFor, StandsFor
  <2>5. w = v
    BY <1>1, <2>4
  <2> QED BY <2>3, <2>4, <2>5
<1> QED BY <1>1, <1>2, <1>3, <1>4 DEF StateOf, Nodes

-----------------------------------------------------------------------------
(* The pair of states in which composeParallel2 keeps a vector.            *)
PairOf(v, n) == <<VectorID(Truncate(v, n)), v[n + 1]>>

(* Between the fold of ops and its next operand.                           *)
Composing(ops, all, n) ==
  /\ Extends(all, ops, n) /\ all[n + 1] = dR
  /\ Apart(ops) /\ Represents(dL, ops, job.sync)
  /\ dR \in PlainOperands

(* The transition of a pair that a step of its vector gives.               *)
MoveFor(m, n) ==
  [event |-> m.event, dst |-> PairOf(m.dst, n), guard |-> m.guard, post |-> m.post]

(* The transitions of a pair are the steps of its vector.                  *)
LEMMA MovesAreSteps ==
  ASSUME NEW ops, NEW all, NEW n, Composing(ops, all, n),
         NEW v \in Vectors(all), Truncate(v, n) \in ReachableVectors(ops, job.sync)
  PROVE  Moves(PairOf(v, n)) = {MoveFor(m, n) : m \in Steps(all, job.sync, v)}
<1> DEFINE u == Truncate(v, n)
           s == v[n + 1]
           p == PairOf(v, n)
           sync == job.sync
           steps == Steps(all, sync, v)
<1>1. /\ n \in Nat /\ n > 0 /\ Len(ops) = n /\ Extends(all, ops, n) /\ all[n + 1] = dR
  BY DEF Composing, Extends
<1>2. /\ u \in Vectors(ops) /\ s \in Nodes(dR)
  BY <1>1, VectorsOfExtension
<1>3. p[1] = VectorID(u) /\ p[2] = s
  BY DEF PairOf
<1>4. /\ \A k \in Steps(ops, sync, u) : \E e \in Outgoing(dL, p[1]) : StandsFor(e, k)
      /\ \A e \in Outgoing(dL, p[1]) : \E k \in Steps(ops, sync, u) : StandsFor(e, k)
  BY <1>3 DEF Composing, Represents
<1>5. \A w \in Vectors(ops) : \A t : PairOf(Extend(w, n, t), n) = <<VectorID(w), t>>
  <2> SUFFICES ASSUME NEW w \in Vectors(ops), NEW t
               PROVE  PairOf(Extend(w, n, t), n) = <<VectorID(w), t>>
    OBVIOUS
  <2>1. w = [i \in 1 .. n |-> w[i]]
    BY <1>1, VectorsOfExtension
  <2>2. Truncate(Extend(w, n, t), n) = w /\ Extend(w, n, t)[n + 1] = t
    BY <1>1, <2>1, ExtendTruncate
  <2> QED BY <2>2 DEF PairOf
<1>6. \A k \in Steps(ops, sync, u) : k.dst \in Vectors(ops)
  BY <1>1, <1>2, StepsStay
<1>7. \A k \in Steps(ops, sync, u) : \A e :
         MoveFor(BothMove(k, e, n), n) =
           [event |-> k.event, dst |-> <<VectorID(k.dst), e.dst>>,
            guard |-> k.guard \o e.guard, post |-> k.post \o e.post]
  BY <1>5, <1>6 DEF MoveFor, BothMove
<1>8. \A k \in Steps(ops, sync, u) :
         MoveFor(LastStays(k, s, n), n) =
           [event |-> k.event, dst |-> <<VectorID(k.dst), s>>, guard |-> k.guard, post |-> k.post]
  BY <1>5, <1>6 DEF MoveFor, LastStays
<1>9. \A e : MoveFor(LastMoves(u, e, n), n) =
           [event |-> e.event, dst |-> <<VectorID(u), e.dst>>, guard |-> e.guard, post |-> e.post]
  BY <1>2, <1>5 DEF MoveFor, LastMoves
<1>10. /\ \A m \in steps :
              \/ \E k \in Steps(ops, sync, u) : \E e \in Outgoing(dR, s) :
                    k.event = e.event /\ e.event \in sync /\ m = BothMove(k, e, n)
              \/ \E k \in Steps(ops, sync, u) : k.event \notin sync /\ m = LastStays(k, s, n)
              \/ \E e \in Outgoing(dR, s) : e.event \notin sync /\ m = LastMoves(u, e, n)
       /\ \A k \in Steps(ops, sync, u) : \A e \in Outgoing(dR, s) :
              k.event = e.event /\ e.event \in sync => BothMove(k, e, n) \in steps
       /\ \A k \in Steps(ops, sync, u) : k.event \notin sync => LastStays(k, s, n) \in steps
       /\ \A e \in Outgoing(dR, s) : e.event \notin sync => LastMoves(u, e, n) \in steps
  BY <1>1, StepsOfExtension
<1> HIDE DEF u, s, p, steps
<1>11. ASSUME NEW x \in Moves(p) PROVE \E m \in steps : x = MoveFor(m, n)
  <2>1. CASE x \in Para3(p)
    <3>1. PICK a \in Outgoing(dL, p[1]), e \in Outgoing(dR, p[2]) :
             /\ a.event = e.event /\ a.event \in sync
             /\ x = [event |-> a.event, dst |-> <<a.dst, e.dst>>,
                     guard |-> a.guard \o e.guard, post |-> a.post \o e.post]
      BY <2>1 DEF Para3, Conjunction
    <3>2. PICK k \in Steps(ops, sync, u) : StandsFor(a, k)
      BY <1>4
    <3>3. BothMove(k, e, n) \in steps
      BY <1>3, <1>10, <3>1, <3>2 DEF StandsFor
    <3>4. x = MoveFor(BothMove(k, e, n), n)
      BY <1>7, <3>1, <3>2 DEF StandsFor
    <3> QED BY <3>3, <3>4
  <2>2. CASE x \in Para1(p)
    <3>1. PICK a \in Outgoing(dL, p[1]) :
             /\ a.event \notin sync
             /\ x = [event |-> a.event, dst |-> <<a.dst, p[2]>>, guard |-> a.guard, post |-> a.post]
      BY <2>2 DEF Para1
    <3>2. PICK k \in Steps(ops, sync, u) : StandsFor(a, k)
      BY <1>4
    <3>3. LastStays(k, s, n) \in steps
      BY <1>10, <3>1, <3>2 DEF StandsFor
    <3>4. x = MoveFor(LastStays(k, s, n), n)
      BY <1>3, <1>8, <3>1, <3>2 DEF StandsFor
    <3> QED BY <3>3, <3>4
  <2>3. CASE x \in Para2(p)
    <3>1. PICK e \in Outgoing(dR, p[2]) :
             /\ e.event \notin sync
             /\ x = [event |-> e.event, dst |-> <<p[1], e.dst>>, guard |-> e.guard, post |-> e.post]
      BY <2>3 DEF Para2
    <3>2. LastMoves(u, e, n) \in steps
      BY <1>3, <1>10, <3>1
    <3>3. x = MoveFor(LastMoves(u, e, n), n)
      BY <1>3, <1>9, <3>1
    <3> QED BY <3>2, <3>3
  <2> QED BY <2>1, <2>2, <2>3 DEF Moves
<1>12. ASSUME NEW m \in steps PROVE MoveFor(m, n) \in Moves(p)
  <2>1. ASSUME NEW k \in Steps(ops, sync, u), NEW e \in Outgoing(dR, s),
               k.event = e.event, e.event \in sync, m = BothMove(k, e, n)
        PROVE  MoveFor(m, n) \in Moves(p)
    <3>1. PICK a \in Outgoing(dL, p[1]) : StandsFor(a, k)
      BY <1>4
    <3> DEFINE x == [event |-> a.event, dst |-> <<a.dst, e.dst>>,
                     guard |-> a.guard \o e.guard, post |-> a.post \o e.post]
    <3>2. MoveFor(m, n) = x
      BY <1>7, <2>1, <3>1 DEF StandsFor
    <3>3. x \in Para3(p)
      <4>1. e \in Outgoing(dR, p[2]) /\ a.event = e.event /\ a.event \in sync
        BY <1>3, <2>1, <3>1 DEF StandsFor
      <4>2. PICK y : y = <<a, e>>
        OBVIOUS
      <4>3. y \in {z \in Outgoing(dL, p[1]) \X Outgoing(dR, p[2]) :
                     z[1].event = z[2].event /\ z[1].event \in job.sync}
        BY <4>1, <4>2
      <4>4. x = [event |-> y[1].event, dst |-> <<y[1].dst, y[2].dst>>,
                 guard |-> Conjunction(y[1].guard, y[2].guard),
                 post  |-> Conjunction(y[1].post, y[2].post)]
        BY <4>2 DEF Conjunction
      <4> HIDE DEF x
      <4> QED BY <4>3, <4>4 DEF Para3
    <3> QED BY <3>2, <3>3 DEF Moves
  <2>2. ASSUME NEW k \in Steps(ops, sync, u), k.event \notin sync, m = LastStays(k, s, n)
        PROVE  MoveFor(m, n) \in Moves(p)
    <3>1. PICK a \in Outgoing(dL, p[1]) : StandsFor(a, k)
      BY <1>4
    <3>2. MoveFor(m, n) = [event |-> a.event, dst |-> <<a.dst, p[2]>>,
                           guard |-> a.guard, post |-> a.post]
      BY <1>3, <1>8, <2>2, <3>1 DEF StandsFor
    <3>3. a.event \notin job.sync
      BY <2>2, <3>1 DEF StandsFor
    <3> QED BY <3>2, <3>3 DEF Moves, Para1
  <2>3. ASSUME NEW e \in Outgoing(dR, s), e.event \notin sync, m = LastMoves(u, e, n)
        PROVE  MoveFor(m, n) \in Moves(p)
    <3>1. MoveFor(m, n) = [event |-> e.event, dst |-> <<p[1], e.dst>>,
                           guard |-> e.guard, post |-> e.post]
      BY <1>3, <1>9, <2>3
    <3>2. e \in Outgoing(dR, p[2]) /\ e.event \notin job.sync
      BY <1>3, <2>3
    <3> QED BY <3>1, <3>2 DEF Moves, Para2
  <2> QED BY <1>10, <2>1, <2>2, <2>3
<1>13. Moves(p) = {MoveFor(m, n) : m \in steps}
  BY <1>11, <1>12
<1> QED BY <1>13 DEF p, steps

(* Every step of a vector of all operands is one of the vector of the      *)
(* first ones or leaves it alone, so reachability carries over.            *)
LEMMA ReachesPrefix ==
  ASSUME NEW ops, NEW all, NEW n, Extends(all, ops, n), NEW sync,
         NEW v \in Vectors(all), Truncate(v, n) \in ReachableVectors(ops, sync),
         NEW m \in Steps(all, sync, v)
  PROVE  Truncate(m.dst, n) \in ReachableVectors(ops, sync)
<1> DEFINE u == Truncate(v, n)
           R == ReachableVectors(ops, sync)
<1>1. n \in Nat /\ n > 0 /\ Len(ops) = n
  BY DEF Extends
<1>2. R \subseteq Vectors(ops) /\ StepClosed(R, ops, sync)
  BY <1>1, VectorsReachable
<1>3. \A w \in R : \A t : Truncate(Extend(w, n, t), n) = w
  <2> SUFFICES ASSUME NEW w \in R, NEW t PROVE Truncate(Extend(w, n, t), n) = w
    OBVIOUS
  <2>1. w = [i \in 1 .. n |-> w[i]]
    BY <1>2, VectorsOfExtension
  <2> QED BY <1>1, <2>1, ExtendTruncate
<1>4. \/ \E k \in Steps(ops, sync, u) : \E t : m.dst = Extend(k.dst, n, t)
      \/ \E t : m.dst = Extend(u, n, t)
  <2> DEFINE s == v[n + 1]
             r == all[n + 1]
  <2>1. \/ \E k \in Steps(ops, sync, u) : \E e \in Outgoing(r, s) :
              k.event = e.event /\ e.event \in sync /\ m = BothMove(k, e, n)
        \/ \E k \in Steps(ops, sync, u) : k.event \notin sync /\ m = LastStays(k, s, n)
        \/ \E e \in Outgoing(r, s) : e.event \notin sync /\ m = LastMoves(u, e, n)
    BY StepsOfExtension
  <2> HIDE DEF u, s, r
  <2>2. ASSUME NEW k \in Steps(ops, sync, u), NEW e \in Outgoing(r, s), m = BothMove(k, e, n)
        PROVE  m.dst = Extend(k.dst, n, e.dst)
    BY <2>2 DEF BothMove
  <2>3. ASSUME NEW k \in Steps(ops, sync, u), m = LastStays(k, s, n)
        PROVE  m.dst = Extend(k.dst, n, s)
    BY <2>3 DEF LastStays
  <2>4. ASSUME NEW e \in Outgoing(r, s), m = LastMoves(u, e, n)
        PROVE  m.dst = Extend(u, n, e.dst)
    BY <2>4 DEF LastMoves
  <2> QED BY <2>1, <2>2, <2>3, <2>4
<1> HIDE DEF R
<1>5. u \in R
  BY DEF R
<1> HIDE DEF u
<1>6. \A k \in Steps(ops, sync, u) : k.dst \in R
  BY <1>2, <1>5 DEF StepClosed
<1>7. Truncate(m.dst, n) \in R
  BY <1>3, <1>4, <1>5, <1>6
<1> QED BY <1>7 DEF R

(* The pairs composeParallel2 reaches are the reachable vectors.           *)
LEMMA ReachablePairsAreVectors ==
  ASSUME NEW ops, NEW all, NEW n, Composing(ops, all, n)
  PROVE  /\ ReachablePairs = {PairOf(v, n) : v \in ReachableVectors(all, job.sync)}
         /\ \A v \in ReachableVectors(all, job.sync) :
              Truncate(v, n) \in ReachableVectors(ops, job.sync)
         /\ PairOf(InitialVector(all), n) = StartPair
<1> DEFINE R == ReachableVectors(ops, job.sync)
           Rall == ReachableVectors(all, job.sync)
           A == {v \in Vectors(all) : Truncate(v, n) \in R /\ PairOf(v, n) \in ReachablePairs}
           S == {PairOf(v, n) : v \in {w \in Rall : Truncate(w, n) \in R}}
           init == InitialVector(all)
<1>1. /\ n \in Nat /\ n > 0 /\ Len(ops) = n /\ Len(all) = n + 1 /\ n + 1 \in Nat /\ n + 1 > 0
      /\ Extends(all, ops, n) /\ all[n + 1] = dR
      /\ \A i \in 1 .. n : all[i] = ops[i]
  BY DEF Composing, Extends
<1>2. /\ R \subseteq Vectors(ops) /\ InitialVector(ops) \in R
  BY <1>1, VectorsReachable
<1>3. /\ Rall \subseteq Vectors(all) /\ init \in Rall /\ StepClosed(Rall, all, job.sync)
      /\ \A T \in SUBSET Vectors(all) : init \in T /\ StepClosed(T, all, job.sync) => Rall \subseteq T
  BY <1>1, VectorsReachable
<1>4. Truncate(init, n) = InitialVector(ops) /\ init[n + 1] = dR.start.dst
  <2>1. Ports(all) = 1 .. n + 1 /\ Ports(ops) = 1 .. n /\ n + 1 \in 1 .. n + 1
    BY <1>1 DEF Ports
  <2>2. \A i \in 1 .. n : i \in 1 .. n + 1
    BY <1>1
  <2> QED BY <1>1, <2>1, <2>2 DEF InitialVector, Truncate
<1>5. PairOf(init, n) = StartPair
  <2>1. VectorID(InitialVector(ops)) = dL.start.dst
    BY DEF Composing, Represents
  <2> QED BY <1>4, <2>1 DEF PairOf, StartPair
<1>6. ASSUME NEW v \in Vectors(all), Truncate(v, n) \in R
      PROVE  Successors(PairOf(v, n)) = {PairOf(m.dst, n) : m \in Steps(all, job.sync, v)}
  <2>1. Moves(PairOf(v, n)) = {MoveFor(m, n) : m \in Steps(all, job.sync, v)}
    BY <1>6, MovesAreSteps
  <2>2. \A m : MoveFor(m, n).dst = PairOf(m.dst, n)
    BY DEF MoveFor
  <2> QED BY <2>1, <2>2 DEF Successors
<1>7. ASSUME NEW v \in Vectors(all), Truncate(v, n) \in R, NEW m \in Steps(all, job.sync, v)
      PROVE  Truncate(m.dst, n) \in R /\ m.dst \in Vectors(all)
  <2>1. Truncate(m.dst, n) \in R
    BY <1>1, <1>7, ReachesPrefix
  <2>2. PICK k \in Nat : k = n + 1 /\ k > 0 /\ Len(all) = k
    BY <1>1
  <2>3. m.dst \in Vectors(all)
    BY <2>2, StepsStay
  <2> QED BY <2>1, <2>3
<1>8. Rall \subseteq A
  <2>1. init \in A
    BY <1>2, <1>3, <1>4, <1>5, ReachableIsLeast
  <2>2. StepClosed(A, all, job.sync)
    <3> SUFFICES ASSUME NEW v \in A, NEW m \in Steps(all, job.sync, v) PROVE m.dst \in A
      BY DEF StepClosed
    <3>1. v \in Vectors(all) /\ Truncate(v, n) \in R /\ PairOf(v, n) \in ReachablePairs
      OBVIOUS
    <3>2. PairOf(m.dst, n) \in Successors(PairOf(v, n))
      BY <1>6, <3>1
    <3>3. PairOf(m.dst, n) \in ReachablePairs
      BY <3>1, <3>2, ReachableIsLeast
    <3> QED BY <1>7, <3>1, <3>3
  <2>3. A \in SUBSET Vectors(all)
    OBVIOUS
  <2> HIDE DEF A, Rall, init
  <2> QED BY <1>3, <2>1, <2>2, <2>3
<1>9. S \subseteq Pairs
  <2> SUFFICES ASSUME NEW v \in Rall, Truncate(v, n) \in R PROVE PairOf(v, n) \in Pairs
    OBVIOUS
  <2>1. VectorID(Truncate(v, n)) \in Nodes(dL)
    BY DEF Composing, Represents
  <2>2. v[n + 1] \in Nodes(dR)
    BY <1>1, <1>3, VectorsOfExtension
  <2> QED BY <2>1, <2>2 DEF PairOf, Pairs
<1>10. ReachablePairs \subseteq S
  <2>1. StartPair \in S
    <3>1. init \in Rall /\ Truncate(init, n) \in R
      BY <1>2, <1>3, <1>4
    <3> HIDE DEF init, R, Rall
    <3> QED BY <1>5, <3>1
  <2>2. Closed(S)
    <3> SUFFICES ASSUME NEW v \in Rall, Truncate(v, n) \in R, NEW q \in Successors(PairOf(v, n))
                 PROVE  q \in S
      BY DEF Closed
    <3>1. v \in Vectors(all)
      BY <1>3
    <3>2. PICK m \in Steps(all, job.sync, v) : q = PairOf(m.dst, n)
      BY <1>6, <3>1
    <3>3. m.dst \in Rall /\ Truncate(m.dst, n) \in R
      BY <1>3, <1>7, <3>1 DEF StepClosed
    <3> HIDE DEF R, Rall
    <3> QED BY <3>2, <3>3
  <2>3. S \in SUBSET Pairs
    BY <1>9
  <2> HIDE DEF S
  <2> QED BY <2>1, <2>2, <2>3, ReachableIsLeast
<1>11. ReachablePairs = {PairOf(v, n) : v \in Rall}
  BY <1>8, <1>10
<1> QED BY <1>5, <1>8, <1>11

(* When the worklist runs dry, what it built is the composite of all       *)
(* operands so far.                                                        *)
LEMMA BuildsComposite ==
  ASSUME NEW ops, NEW all, NEW n, Composing(ops, all, n),
         start = [dst |-> PairID(StartPair), post |-> Conjunction(dL.start.post, dR.start.post)],
         DOMAIN states = IDs(ReachablePairs),
         edges = UNION {EdgesOf(p) : p \in ReachablePairs},
         \A p \in ReachablePairs : states[PairID(p)] = PairState(p),
         NEW d, d.states = states, d.start = start, d.edges = edges
  PROVE  Apart(all) /\ IsInterfaceParallel(d, all, job.sync)
<1> DEFINE R == ReachableVectors(ops, job.sync)
           Rall == ReachableVectors(all, job.sync)
<1>1. /\ n \in Nat /\ n > 0 /\ Len(ops) = n /\ Len(all) = n + 1 /\ n + 1 \in Nat /\ n + 1 > 0
      /\ Extends(all, ops, n) /\ all[n + 1] = dR
      /\ \A i \in 1 .. n : all[i] = ops[i]
      /\ Ports(ops) = 1 .. n /\ Ports(all) = 1 .. n + 1
  BY DEF Composing, Extends, Ports
<1>2. /\ Apart(all)
      /\ \A v \in Vectors(all) : VectorID(v) = ComposeStateIDs(VectorID(Truncate(v, n)), v[n + 1])
  BY <1>1, ApartExtends DEF Composing
<1>3. /\ ReachablePairs = {PairOf(v, n) : v \in Rall}
      /\ \A v \in Rall : Truncate(v, n) \in R
      /\ PairOf(InitialVector(all), n) = StartPair
  BY ReachablePairsAreVectors
<1>4. Rall \subseteq Vectors(all) /\ InitialVector(all) \in Rall /\ StepClosed(Rall, all, job.sync)
  BY <1>1, VectorsReachable
<1>5. \A v \in Vectors(all) : PairID(PairOf(v, n)) = VectorID(v)
  BY <1>2 DEF PairID, PairOf
<1>6. d.start = [dst |-> VectorID(InitialVector(all)), post |-> StartPosts(all)]
  <2>1. PairID(StartPair) = VectorID(InitialVector(all))
    BY <1>3, <1>4, <1>5
  <2>2. StartPosts(all) = StartPosts(ops) \o dR.start.post
    <3> DEFINE s == [i \in 1 .. n |-> ops[i].start.post]
               t == [i \in 1 .. n + 1 |-> all[i].start.post]
    <3>1. /\ Len(s) = n /\ Len(t) = n + 1 /\ t[n + 1] = dR.start.post
          /\ \A i \in 1 .. n : t[i] = s[i]
      BY <1>1
    <3>2. StartPosts(all) = FlattenSeq(t) /\ StartPosts(ops) = FlattenSeq(s)
      BY <1>1 DEF StartPosts
    <3> HIDE DEF s, t
    <3>3. FlattenSeq(t) = FlattenSeq(s) \o t[n + 1]
      BY <1>1, <3>1, FlattenAppended
    <3> QED BY <3>1, <3>2, <3>3
  <2>3. dL.start.post = StartPosts(ops)
    BY DEF Composing, Represents
  <2> QED BY <2>1, <2>2, <2>3 DEF Conjunction
<1>7. DOMAIN d.states = {VectorID(v) : v \in Rall}
  <2>1. IDs(ReachablePairs) = {PairID(PairOf(v, n)) : v \in Rall}
    BY <1>3 DEF IDs
  <2> QED BY <1>4, <1>5, <2>1
<1>8. ASSUME NEW v \in Rall PROVE d.states[VectorID(v)] = Contents(all, v)
  <2>1. PairOf(v, n) \in ReachablePairs /\ PairID(PairOf(v, n)) = VectorID(v)
    BY <1>3, <1>4, <1>5
  <2>2. d.states[VectorID(v)] = StateOf(dL, VectorID(Truncate(v, n))) \o StateOf(dR, v[n + 1])
    BY <2>1 DEF PairState, PairOf
  <2>3. StateOf(dL, VectorID(Truncate(v, n))) = Contents(ops, Truncate(v, n))
    BY <1>3 DEF Composing, Represents
  <2>4. Contents(all, v) = Contents(ops, Truncate(v, n)) \o StateOf(dR, v[n + 1])
    <3> DEFINE u == Truncate(v, n)
               s == [i \in 1 .. n |-> StateOf(ops[i], u[i])]
               t == [i \in 1 .. n + 1 |-> StateOf(all[i], v[i])]
    <3>0. \A i \in 1 .. n : u[i] = v[i]
      BY DEF Truncate
    <3> HIDE DEF u
    <3>1. /\ Len(s) = n /\ Len(t) = n + 1 /\ t[n + 1] = StateOf(dR, v[n + 1])
          /\ \A i \in 1 .. n : t[i] = s[i]
      BY <1>1, <3>0
    <3>2. Contents(all, v) = FlattenSeq(t) /\ Contents(ops, u) = FlattenSeq(s)
      BY <1>1 DEF Contents
    <3> HIDE DEF s, t
    <3>3. FlattenSeq(t) = FlattenSeq(s) \o t[n + 1]
      BY <1>1, <3>1, FlattenAppended
    <3>4. Contents(all, v) = Contents(ops, u) \o StateOf(dR, v[n + 1])
      BY <3>1, <3>2, <3>3
    <3> QED BY <3>4 DEF u
  <2> QED BY <2>2, <2>3, <2>4
<1>9. ASSUME NEW v \in Rall
      PROVE  EdgesOf(PairOf(v, n)) = {EdgeFor(v, m) : m \in Steps(all, job.sync, v)}
  <2>1. Moves(PairOf(v, n)) = {MoveFor(m, n) : m \in Steps(all, job.sync, v)}
    BY <1>3, <1>4, MovesAreSteps
  <2>2. ASSUME NEW m \in Steps(all, job.sync, v)
        PROVE  [src |-> PairID(PairOf(v, n)), event |-> MoveFor(m, n).event,
                dst |-> PairID(MoveFor(m, n).dst), guard |-> MoveFor(m, n).guard,
                post |-> MoveFor(m, n).post] = EdgeFor(v, m)
    <3>1. m.dst \in Vectors(all) /\ v \in Vectors(all)
      BY <1>4 DEF StepClosed
    <3>2. PairID(PairOf(v, n)) = VectorID(v) /\ PairID(PairOf(m.dst, n)) = VectorID(m.dst)
      BY <1>5, <3>1
    <3> QED BY <3>2 DEF MoveFor, EdgeFor
  <2> QED BY <2>1, <2>2 DEF EdgesOf
<1>10. d.edges = UNION {{EdgeFor(v, m) : m \in Steps(all, job.sync, v)} : v \in Rall}
  <2>1. d.edges = UNION {EdgesOf(PairOf(v, n)) : v \in Rall}
    BY <1>3
  <2> HIDE DEF Rall
  <2> QED BY <1>9, <2>1
<1>11. \A v, w \in Rall : VectorID(v) = VectorID(w) => v = w
  BY <1>2, <1>4 DEF Apart
<1> QED BY <1>2, <1>6, <1>7, <1>8, <1>10, <1>11 DEF IsInterfaceParallel

-----------------------------------------------------------------------------
(* The left diagram is the composite of the first n operands; where the    *)
(* rest and the right diagram stand.                                       *)
Progress(L, n) ==
  /\ Apart(SubSeq(L, 1, n))
  /\ n = 1 => dL = L[1]
  /\ n # 1 => IsInterfaceParallel(dL, SubSeq(L, 1, n), job.sync)
  /\ pc # "explore" => rest = SubSeq(L, n + 1, Len(L))
  /\ pc = "explore" =>
       /\ n < Len(L) /\ dR = L[n + 1] /\ rest = SubSeq(L, n + 2, Len(L))
       /\ start = [dst |-> PairID(StartPair), post |-> Conjunction(dL.start.post, dR.start.post)]

(* The invariant of the fold: it has composed some prefix of the operands  *)
(* as folded, and is done when none is left.                               *)
PrefixComposed ==
  pc # "failed" =>
    /\ \E n \in 1 .. Len(AsFolded(job.ops)) : Progress(AsFolded(job.ops), n)
    /\ pc = "done" => rest = << >>

(* The operands as folded: the first one and the plain others.             *)
LEMMA FoldedOperands ==
  ASSUME PlainJobs, NEW j \in Jobs
  PROVE  /\ AsFolded(j.ops) \in Seq(Operands) /\ Len(AsFolded(j.ops)) \in Nat \ {0}
         /\ AsFolded(j.ops)[1] = j.ops[1]
         /\ \A i \in 2 .. Len(AsFolded(j.ops)) : AsFolded(j.ops)[i] \in PlainOperands
         /\ FoldOrder(j.ops) = SubSeq(AsFolded(j.ops), 2, Len(AsFolded(j.ops)))
<1> DEFINE a == j.ops[1]
           f == FoldOrder(j.ops)
           L == AsFolded(j.ops)
<1>1. a \in Operands
  BY JobsAssumption, ElementOfSeq, EmptySeq
<1>2. f \in Seq(PlainOperands) /\ PlainOperands \subseteq Operands
  BY FoldOrderPlain DEF PlainOperands
<1>3. f \in Seq(Operands) /\ <<a>> \in Seq(Operands) /\ Len(<<a>>) = 1 /\ <<a>>[1] = a
  BY <1>1, <1>2, SeqMonotonic
<1>4. L = <<a>> \o f
  BY DEF AsFolded
<1> HIDE DEF a, f, L
<1>5. Len(f) \in Nat
  BY <1>3, LenProperties
<1>6. /\ <<a>> \o f \in Seq(Operands) /\ Len(<<a>> \o f) = Len(<<a>>) + Len(f)
      /\ \A i \in 1 .. Len(<<a>>) + Len(f) :
           (<<a>> \o f)[i] = IF i <= Len(<<a>>) THEN <<a>>[i] ELSE f[i - Len(<<a>>)]
  BY <1>3, ConcatProperties
<1>7. /\ L \in Seq(Operands) /\ Len(L) = 1 + Len(f)
      /\ \A i \in 1 .. 1 + Len(f) : L[i] = IF i <= 1 THEN <<a>>[i] ELSE f[i - 1]
  BY <1>3, <1>4, <1>6
<1>8. L[1] = a
  BY <1>3, <1>5, <1>7
<1>9. \A i \in 2 .. Len(L) : i \in 1 .. 1 + Len(f) /\ ~ (i <= 1) /\ i - 1 \in 1 .. Len(f)
  BY <1>5, <1>7
<1>10. \A i \in 2 .. Len(L) : L[i] \in PlainOperands
  BY <1>2, <1>7, <1>9, ElementOfSeq
<1>11. f = SubSeq(L, 2, Len(L))
  <2> DEFINE t == SubSeq(L, 2, Len(L))
  <2>1. 2 \in Int /\ Len(L) \in Int
    BY <1>5, <1>7
  <2>2. \A i \in 2 .. Len(L) : L[i] \in Operands
    BY <1>2, <1>10
  <2>3. /\ t \in Seq(Operands) /\ Len(t) = (IF 2 <= Len(L) THEN Len(L) - 2 + 1 ELSE 0)
        /\ \A i \in 1 .. Len(L) - 2 + 1 : t[i] = L[2 + i - 1]
    BY <2>1, <2>2, SubSeqProperties
  <2> HIDE DEF t
  <2>4. Len(t) = Len(f)
    BY <1>5, <1>7, <2>3
  <2>5. \A i \in 1 .. Len(t) : t[i] = f[i]
    <3>1. ASSUME NEW i \in 1 .. Len(t) PROVE t[i] = f[i]
      <4>1. i \in 1 .. Len(L) - 2 + 1 /\ 2 + i - 1 = i + 1 /\ i + 1 \in 1 .. 1 + Len(f)
             /\ ~ (i + 1 <= 1) /\ (i + 1) - 1 = i
        BY <1>5, <1>7, <2>4
      <4>2. t[i] = L[i + 1]
        BY <2>3, <4>1
      <4> QED BY <1>7, <4>1, <4>2
    <3> QED BY <3>1
  <2> QED BY <1>3, <2>3, <2>4, <2>5, SeqEqual DEF t
<1> QED BY <1>5, <1>7, <1>8, <1>10, <1>11 DEF a, f, L

(* What is folded in and what is left, as prefix and suffix of a sequence. *)
LEMMA PrefixParts ==
  ASSUME NEW S, NEW L \in Seq(S), NEW n \in 1 .. Len(L)
  PROVE  /\ Len(SubSeq(L, 1, n)) = n /\ \A i \in 1 .. n : SubSeq(L, 1, n)[i] = L[i]
         /\ SubSeq(L, n + 1, Len(L)) = << >> <=> n = Len(L)
         /\ n < Len(L) => /\ Head(SubSeq(L, n + 1, Len(L))) = L[n + 1]
                          /\ Tail(SubSeq(L, n + 1, Len(L))) = SubSeq(L, n + 2, Len(L))
                          /\ n + 1 \in 1 .. Len(L)
                          /\ Extends(SubSeq(L, 1, n + 1), SubSeq(L, 1, n), n)
                          /\ SubSeq(L, 1, n + 1)[n + 1] = L[n + 1]
<1>1. Len(L) \in Nat /\ n \in Nat /\ n > 0 /\ n <= Len(L)
  BY LenProperties
<1>2. \A i \in 1 .. Len(L) : L[i] \in S
  BY ElementOfSeq
<1>3. ASSUME NEW k \in 1 .. Len(L)
      PROVE  Len(SubSeq(L, 1, k)) = k /\ \A i \in 1 .. k : SubSeq(L, 1, k)[i] = L[i]
  <2>1. /\ k \in Int /\ 1 \in Int /\ 1 <= k /\ k - 1 + 1 = k
        /\ \A i \in 1 .. k : L[i] \in S /\ 1 + i - 1 = i
    BY <1>1, <1>2
  <2>2. /\ Len(SubSeq(L, 1, k)) = (IF 1 <= k THEN k - 1 + 1 ELSE 0)
        /\ \A i \in 1 .. k - 1 + 1 : SubSeq(L, 1, k)[i] = L[1 + i - 1]
    BY <2>1, SubSeqProperties
  <2> QED BY <2>1, <2>2
<1>4. Len(SubSeq(L, n + 1, Len(L))) = Len(L) - n /\ SubSeq(L, n + 1, Len(L)) \in Seq(S)
  <2>1. n + 1 \in Int /\ Len(L) \in Int /\ \A i \in n + 1 .. Len(L) : L[i] \in S
    BY <1>1, <1>2
  <2>2. /\ SubSeq(L, n + 1, Len(L)) \in Seq(S)
        /\ Len(SubSeq(L, n + 1, Len(L))) = IF n + 1 <= Len(L) THEN Len(L) - (n + 1) + 1 ELSE 0
    BY <2>1, SubSeqProperties
  <2> QED BY <1>1, <2>2
<1>5. SubSeq(L, n + 1, Len(L)) = << >> <=> n = Len(L)
  <2> DEFINE t == SubSeq(L, n + 1, Len(L))
  <2>1. t \in Seq(S) /\ Len(t) = Len(L) - n
    BY <1>4
  <2> HIDE DEF t
  <2>2. t = << >> <=> Len(t) = 0
    BY <2>1, EmptySeq
  <2>3. Len(t) = 0 <=> n = Len(L)
    BY <1>1, <2>1
  <2> QED BY <2>2, <2>3 DEF t
<1>6. ASSUME n < Len(L)
      PROVE  /\ Head(SubSeq(L, n + 1, Len(L))) = L[n + 1]
             /\ Tail(SubSeq(L, n + 1, Len(L))) = SubSeq(L, n + 2, Len(L))
             /\ n + 1 \in 1 .. Len(L)
  <2>1. n + 1 \in 1 .. Len(L) /\ Len(L) \in n + 1 .. Len(L) /\ (n + 1) + 1 = n + 2
    BY <1>1, <1>6
  <2> QED BY <2>1, HeadTailOfSubSeq
<1>7. ASSUME n < Len(L)
      PROVE  Extends(SubSeq(L, 1, n + 1), SubSeq(L, 1, n), n) /\ SubSeq(L, 1, n + 1)[n + 1] = L[n + 1]
  <2>1. n + 1 \in 1 .. Len(L) /\ n + 1 \in 1 .. n + 1 /\ \A i \in 1 .. n : i \in 1 .. n + 1
    BY <1>1, <1>7
  <2> QED BY <1>1, <1>3, <2>1 DEF Extends
<1> QED BY <1>3, <1>5, <1>6, <1>7

(* Before the first call of ComposeParallel2 the left diagram is the first *)
(* operand.                                                                *)
LEMMA InitPrefix == ASSUME PlainJobs, Init PROVE PrefixComposed
<1> DEFINE L == AsFolded(job.ops)
           ops == SubSeq(L, 1, 1)
<1>1. job \in Jobs /\ pc = "fold" /\ dL = job.ops[1] /\ rest = FoldOrder(job.ops)
  BY DEF Init
<1>2. /\ L \in Seq(Operands) /\ Len(L) \in Nat \ {0} /\ L[1] = job.ops[1]
      /\ rest = SubSeq(L, 2, Len(L))
  BY <1>1, FoldedOperands
<1>3. 1 \in 1 .. Len(L) /\ 1 \in 1 .. 1
  BY <1>2
<1> HIDE DEF L
<1>4. Len(ops) = 1 /\ ops[1] = L[1] /\ L[1] \in Operands
  BY <1>2, <1>3, PrefixParts, ElementOfSeq
<1>5. Apart(ops)
  BY <1>4, OneOperand
<1>6. Progress(L, 1)
  BY <1>1, <1>2, <1>5 DEF Progress
<1> QED BY <1>1, <1>3, <1>6 DEF PrefixComposed, L

(* What the prefix's composite shows, whatever its length.                 *)
LEMMA PrefixRepresented ==
  ASSUME NEW L \in Seq(Operands), NEW n \in 1 .. Len(L), Progress(L, n)
  PROVE  Represents(dL, SubSeq(L, 1, n), job.sync)
<1>1. n \in Nat /\ n > 0 /\ Len(SubSeq(L, 1, n)) = n
  BY PrefixParts
<1>2. CASE n = 1
  <2>1. SubSeq(L, 1, n)[1] = L[1] /\ L[1] \in Operands
    BY <1>2, PrefixParts, ElementOfSeq
  <2> QED BY <1>1, <1>2, <2>1, OneOperand DEF Progress
<1>3. CASE n # 1
  BY <1>1, <1>3, CompositeRepresents DEF Progress
<1> QED BY <1>2, <1>3

(* Every step keeps the left diagram the composite of a prefix: only the   *)
(* return of ComposeParallel2 changes it, and then by one operand.         *)
LEMMA StepPrefix == ASSUME PlainJobs, IInv, PrefixComposed, [Next]_vars PROVE PrefixComposed'
<1>0. PICK L : L = AsFolded(job.ops)
  OBVIOUS
<1>1. /\ L \in Seq(Operands) /\ Len(L) \in Nat \ {0}
      /\ \A i \in 2 .. Len(L) : L[i] \in PlainOperands
  BY <1>0, FoldedOperands DEF IInv, FoldInv
<1>2. CASE RejectEndEdge
  BY <1>2 DEF RejectEndEdge, PrefixComposed
<1>3. ASSUME pc \in {"fold", "explore"}, pc' # "failed"
      PROVE  \E n \in 1 .. Len(L) : Progress(L, n)
  BY <1>0, <1>3 DEF PrefixComposed
<1>4. CASE ComposeParallel2
  <2>1. /\ pc = "fold" /\ pc' = "explore" /\ rest # << >> /\ job' = job /\ dL' = dL
        /\ dR' = Head(rest) /\ rest' = Tail(rest)
        /\ start' = [dst |-> PairID(<<dL.start.dst, Head(rest).start.dst>>),
                     post |-> Conjunction(dL.start.post, Head(rest).start.post)]
    BY <1>4 DEF ComposeParallel2
  <2>2. PICK n \in 1 .. Len(L) : Progress(L, n)
    BY <1>3, <2>1
  <2>3. rest = SubSeq(L, n + 1, Len(L))
    BY <2>1, <2>2 DEF Progress
  <2>4. n < Len(L) /\ Head(rest) = L[n + 1] /\ Tail(rest) = SubSeq(L, n + 2, Len(L))
    BY <1>1, <2>1, <2>3, PrefixParts
  <2>5. StartPair' = <<dL.start.dst, Head(rest).start.dst>>
    BY <2>1 DEF StartPair
  <2>6. start' = [dst |-> PairID(StartPair'), post |-> Conjunction(dL'.start.post, dR'.start.post)]
    BY <2>1, <2>5
  <2>7. Progress(L, n)'
    BY <2>1, <2>2, <2>4, <2>6 DEF Progress, IsInterfaceParallel
  <2> QED BY <1>0, <2>1, <2>7 DEF PrefixComposed
<1>5. CASE composeParallel2
  <2>1. /\ pc = "explore" /\ pc' = pc /\ job' = job /\ dL' = dL /\ dR' = dR /\ rest' = rest
        /\ start' = start
    BY <1>5 DEF composeParallel2
  <2>2. PICK n \in 1 .. Len(L) : Progress(L, n)
    BY <1>3, <2>1
  <2>3. StartPair' = StartPair
    BY <2>1 DEF StartPair
  <2>4. Progress(L, n)'
    BY <2>1, <2>2, <2>3 DEF Progress, IsInterfaceParallel
  <2> QED BY <1>0, <2>1, <2>4 DEF PrefixComposed
<1>6. CASE ReturnComposite
  <2>1. /\ pc = "explore" /\ queue = << >> /\ pc' = "fold" /\ job' = job /\ rest' = rest
        /\ dL' = [states |-> states, start |-> start, edges |-> edges, end |-> FALSE]
    BY <1>6 DEF ReturnComposite
  <2>2. PICK n \in 1 .. Len(L) : Progress(L, n)
    BY <1>3, <2>1
  <2>3. /\ n < Len(L) /\ dR = L[n + 1] /\ rest = SubSeq(L, n + 2, Len(L)) /\ n \in Nat
        /\ start = [dst |-> PairID(StartPair), post |-> Conjunction(dL.start.post, dR.start.post)]
    BY <1>1, <2>1, <2>2 DEF Progress
  <2>4. PICK ops, all : ops = SubSeq(L, 1, n) /\ all = SubSeq(L, 1, n + 1)
    OBVIOUS
  <2>5. n + 1 \in 1 .. Len(L) /\ Extends(all, ops, n) /\ all[n + 1] = dR
    BY <1>1, <2>3, <2>4, PrefixParts
  <2>6. dR \in PlainOperands
    <3>1. n + 1 \in 2 .. Len(L)
      BY <1>1, <2>3
    <3> QED BY <1>1, <2>3, <3>1
  <2>7. Represents(dL, ops, job.sync) /\ Apart(ops)
    BY <1>1, <2>2, <2>4, PrefixRepresented DEF Progress
  <2>8. Composing(ops, all, n)
    BY <2>5, <2>6, <2>7 DEF Composing
  <2>9. /\ DOMAIN states = IDs(ReachablePairs)
        /\ edges = UNION {EdgesOf(p) : p \in ReachablePairs}
        /\ \A p \in ReachablePairs : states[PairID(p)] = PairState(p)
    BY <2>1, ExhaustedFromIInv DEF ExhaustedIsProduct
  <2>10. PICK d : d = [states |-> states, start |-> start, edges |-> edges, end |-> FALSE]
    OBVIOUS
  <2>11. d.states = states /\ d.start = start /\ d.edges = edges
    BY <2>10
  <2>12. Apart(all) /\ IsInterfaceParallel(d, all, job.sync)
    BY <2>3, <2>8, <2>9, <2>11, BuildsComposite
  <2>13. n + 1 # 1 /\ (n + 1) + 1 = n + 2
    BY <2>3
  <2>14. Progress(L, n + 1)'
    BY <2>1, <2>3, <2>4, <2>10, <2>12, <2>13 DEF Progress, IsInterfaceParallel
  <2> QED BY <1>0, <2>1, <2>5, <2>14 DEF PrefixComposed
<1>7. CASE ReturnResult
  <2>1. /\ pc = "fold" /\ rest = << >> /\ pc' = "done" /\ job' = job /\ rest' = rest /\ dL' = dL
    BY <1>7 DEF ReturnResult
  <2>2. PICK n \in 1 .. Len(L) : Progress(L, n)
    BY <1>3, <2>1
  <2>3. Progress(L, n)'
    BY <2>1, <2>2 DEF Progress, IsInterfaceParallel
  <2> QED BY <1>0, <2>1, <2>3 DEF PrefixComposed
<1>8. CASE UNCHANGED vars
  <2>1. /\ pc' = pc /\ job' = job /\ rest' = rest /\ dL' = dL /\ dR' = dR /\ start' = start
    BY <1>8 DEF vars, out
  <2>2. CASE pc = "failed"
    BY <2>1, <2>2 DEF PrefixComposed
  <2>3. CASE pc # "failed"
    <3>1. PICK n \in 1 .. Len(L) : Progress(L, n)
      BY <1>0, <2>3 DEF PrefixComposed
    <3>2. StartPair' = StartPair
      BY <2>1 DEF StartPair
    <3>3. Progress(L, n)'
      BY <2>1, <3>1, <3>2 DEF Progress, IsInterfaceParallel
    <3>4. pc' = "done" => rest' = << >>
      BY <2>1, <2>3 DEF PrefixComposed
    <3> QED BY <1>0, <2>1, <3>1, <3>3, <3>4 DEF PrefixComposed
  <2> QED BY <2>2, <2>3
<1> QED BY <1>2, <1>4, <1>5, <1>6, <1>7, <1>8 DEF Next

(* With nothing left to fold the prefix is the whole list.                 *)
LEMMA ResultFromPrefix ==
  ASSUME PlainJobs, IInv, PrefixComposed
  PROVE  ResultIsInterfaceParallel
<1> SUFFICES ASSUME pc = "done" PROVE ResultIsInterfaceParallel
  BY DEF ResultIsInterfaceParallel
<1> DEFINE L == AsFolded(job.ops)
<1>1. L \in Seq(Operands) /\ Len(L) \in Nat \ {0}
  BY FoldedOperands DEF IInv, FoldInv
<1>2. PICK n \in 1 .. Len(L) : Progress(L, n)
  BY DEF PrefixComposed
<1>3. L = AsFolded(job.ops)
  OBVIOUS
<1> HIDE DEF L
<1>4. rest = << >> /\ rest = SubSeq(L, n + 1, Len(L))
  BY <1>2 DEF PrefixComposed, Progress
<1>5. n = Len(L)
  BY <1>1, <1>4, PrefixParts
<1>6. SubSeq(L, 1, n) = L
  BY <1>1, <1>5, SubSeqFull
<1>7. CASE Len(L) = 1
  <2>1. dL = L[1]
    BY <1>2, <1>5, <1>7 DEF Progress
  <2> QED BY <1>3, <1>7, <2>1 DEF ResultIsInterfaceParallel
<1>8. CASE Len(L) # 1
  <2>1. IsInterfaceParallel(dL, L, job.sync)
    BY <1>2, <1>5, <1>6, <1>8 DEF Progress
  <2> QED BY <1>3, <1>8, <2>1 DEF ResultIsInterfaceParallel
<1> QED BY <1>7, <1>8

(* For all lists of diagrams whose later operands have plain ids, of any   *)
(* length and size, ComposeParallel returns exactly the interface parallel *)
(* of all of them: binary worklists in fold order add up to the n-ary      *)
(* semantics, predicates and state contents included                       *)
(* (csdf/composition.go:36-219).                                           *)
THEOREM FoldIsInterfaceParallel == ASSUME PlainJobs PROVE Spec => []ResultIsInterfaceParallel
<1>1. Init => IInv /\ PrefixComposed
  BY InitIInv, InitPrefix
<1>2. IInv /\ PrefixComposed /\ [Next]_vars => (IInv /\ PrefixComposed)'
  BY StepIInv, StepPrefix
<1>3. IInv /\ PrefixComposed => ResultIsInterfaceParallel
  BY ResultFromPrefix
<1> QED BY <1>1, <1>2, <1>3, PTL DEF Spec

=============================================================================
