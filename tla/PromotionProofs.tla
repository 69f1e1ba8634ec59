-------------------------- MODULE PromotionProofs --------------------------
(***************************************************************************)
(* ParseGlobal and Expand, for every input and every global diagram, every *)
(* set of local diagrams and every set of instances: type correctness;     *)
(* that no post is dropped without a warning; and, when every state but    *)
(* the start has a name of its own, that the generated edges move as the   *)
(* families of instances do, and that no directive is idle.                *)
(*                                                                         *)
(* The invariant says of a text being read that what was lifted out of it  *)
(* so far has the shape that Expand relies on (ReaderInv), and of Expand   *)
(* after each pass of the code what the pass has established,              *)
(* or that an error has been reported.  Its heart is Base, the edges that  *)
(* blocks and plans generate, and Restricted, an edge with its first n     *)
(* constraints: at any time the edges are those written by hand and a part *)
(* of these.                                                               *)
(***************************************************************************)
EXTENDS DiagramAsWritten, Recursion, FiniteSetTheorems, SequenceTheorems, TLAPS

(* The input is one the assumption on Sources is about.                    *)
InputOK == IsSource([global |-> global, files |-> files])

(* What checkBlocks, loadLocals and checkLocals check.                     *)
BlocksSound == \A i \in Blocks : ~ Outside(i) /\ ~ Homeless(i) /\ ~ Bodyless(i)
AllLoaded   == \A i \in Blocks : Block(i).map \in DOMAIN loaded
LocalsSound == \A m \in DOMAIN loaded : ~ Selfless(Local(m)) /\ ~ Appearing(Local(m))

ReadableMaps == {Block(i).map : i \in {i \in Blocks : Readable(i)}}
LoadedByFirst == loaded = [m \in ReadableMaps |-> CHOOSE i \in Blocks : Block(i).map = m /\ Loading(i)]

(* The phases after the local diagrams were checked, and after planSyncs.  *)
Checked == {"syncs", "promote", "merge", "constrain", "expanded", "printed"}
Planned == Checked \ {"syncs"}

ControlInv ==
  /\ phase \in {"blocks", "load", "locals", "refused"} \cup Checked
  /\ next \in Nat \ {0}
  /\ \A d \in diags : d.severity \in {"error", "warning", "info"}

LoadInv ==
  /\ phase \in {"blocks", "load"} => loaded = << >>
  /\ phase \notin {"blocks", "load"} => LoadedByFirst

CheckInv ==
  /\ phase \in {"load", "locals"} => HasError(diags) \/ BlocksSound
  /\ phase = "locals" => HasError(diags) \/ AllLoaded
  /\ phase \in Checked => BlocksSound /\ AllLoaded /\ LocalsSound

(* A directive that planSyncs finds no error in has its plan.              *)
SyncSound(s) == s.event # Tau /\ TargetErrors(s) = {} /\ CommonStates(s) # {}
Plan(s) == [sync |-> s, states |-> CommonStates(s)]
Planning(j) == SyncSound(global.syncs[j]) /\ Plan(global.syncs[j]) \in ToSet(plans)

PlanInv ==
  /\ plans \in Seq({Plan(s) : s \in ToSet(global.syncs)})
  /\ phase \in {"blocks", "load", "locals"} => plans = << >>
  /\ owned = UNION {Owned(p.sync) : p \in ToSet(plans)}
  /\ phase = "syncs" => \A j \in DOMAIN global.syncs : j < next => HasError(diags) \/ Planning(j)
  /\ phase \in Checked => \A p \in ToSet(plans) : SyncSound(p.sync)
  /\ phase \in Planned => \A j \in DOMAIN global.syncs : Planning(j)

(* The edges a block, and a plan, generates.                               *)
Alone(i) ==
  {compose(Block(i).in, <<parts(Block(i).map, Block(i).idParam, e)>>) :
     e \in {e \in Local(Block(i).map).edges : <<Block(i).in, Block(i).map, e.event>> \notin owned}}
Combined(g, targets, c) ==
  compose(g, [k \in DOMAIN targets |-> parts(targets[k].map, targets[k].param, c[k])])
Merged(p) == {Combined(g, p.sync.targets, c) : g \in p.states, c \in product(p.sync)}

(* Those of the blocks, and plans, before n, and of all.                   *)
AloneBefore(n)  == UNION {Alone(i) : i \in {i \in Blocks : i < n}}
MergedBefore(n) == UNION {Merged(plans[k]) : k \in {k \in DOMAIN plans : k < n}}
AllAlone == UNION {Alone(i) : i \in Blocks}
Base     == AllAlone \cup UNION {Merged(p) : p \in ToSet(plans)}

(* An edge with those of the first n constraints that match it.            *)
Constrain(j) == global.constrains[j]
Added(x, n) ==
  UNION {Verbatim(Constrain(j).guard) :
           j \in {j \in DOMAIN global.constrains : j <= n /\ Matches(Constrain(j), x)}}
Restricted(x, n) ==
  [src |-> x.src, dst |-> x.dst, event |-> x.event, guard |-> x.guard \cup Added(x, n),
   post |-> x.post, origin |-> x.origin]
RestrictedBy(n) == {Restricted(x, n) : x \in Base}

EdgesInv ==
  /\ phase \in {"blocks", "load", "locals", "syncs"} => edges = {}
  /\ phase = "promote"   => edges = global.edges \cup AloneBefore(next)
  /\ phase = "merge"     => edges = global.edges \cup AllAlone \cup MergedBefore(next)
  /\ phase = "constrain" => edges = global.edges \cup RestrictedBy(next - 1)
  /\ phase \in {"expanded", "printed"} => edges = global.edges \cup RestrictedBy(Len(global.constrains))
  /\ \A x \in edges : x.origin = << >> \/ x.src \in DOMAIN global.vars

(* A constraint that no edge matches is an error.                          *)
Guards(c) == \E x \in Base : Matches(c, x)

DiagsInv ==
  /\ phase \in {"promote", "merge"} => ~ HasError(diags)
  /\ phase = "constrain" =>
       \A j \in DOMAIN global.constrains : j < next => HasError(diags) \/ Guards(Constrain(j))
  /\ phase \in {"expanded", "printed"} => \A j \in DOMAIN global.constrains : Guards(Constrain(j))
  /\ phase \in Planned => WarnAboutLocals \subseteq diags

(* The inductive invariant.                                                *)
IInv == InputOK /\ ControlInv /\ LoadInv /\ CheckInv /\ PlanInv /\ EdgesInv /\ DiagsInv

-----------------------------------------------------------------------------
(* The elements of a slice are those at its indices.                       *)
LEMMA Sequential ==
  ASSUME NEW list, IsSequence(list)
  PROVE  /\ Len(list) \in Nat /\ DOMAIN list = 1 .. Len(list)
         /\ \A k \in DOMAIN list : list[k] \in ToSet(list)
         /\ \A v \in ToSet(list) : \E k \in DOMAIN list : v = list[k]
  BY LenProperties DEF IsSequence, ToSet

(* Promote and SYNC and CONSTRAIN directives are slices, as ParseGlobal    *)
(* reads them.                                                             *)
LEMMA InputSequences ==
  ASSUME InputOK
  PROVE  /\ IsSequence(global.promotes) /\ IsSequence(global.syncs) /\ IsSequence(global.constrains)
         /\ Blocks = 1 .. Len(global.promotes) /\ Blocks \subseteq Nat
         /\ \A x \in global.edges : x.origin = << >>
<1>1. IsSource([global |-> global, files |-> files])
  BY DEF InputOK
<1>2. IsSequence(global.promotes) /\ IsSequence(global.syncs) /\ IsSequence(global.constrains)
  BY <1>1 DEF IsSource
<1>3. \A x \in global.edges : x.origin = << >>
  BY <1>1 DEF IsSource
<1> QED BY <1>2, <1>3, Sequential DEF Blocks

(* A map that has a block to be read has a first one.                      *)
LEMMA FirstReadable ==
  ASSUME InputOK, NEW m \in ReadableMaps
  PROVE  \E i \in Blocks : Block(i).map = m /\ Loading(i)
<1> DEFINE T == {i \in Blocks : Block(i).map = m /\ Readable(i)}
<1>1. T # {} /\ T \subseteq Nat
  BY InputSequences DEF ReadableMaps
<1>2. PICK i \in T : \A j \in T : i <= j
  <2> HIDE DEF T
  <2> QED BY <1>1, LeastNat
<1>3. ASSUME NEW j \in Earlier(i), SameMap(i, j), Readable(j) PROVE FALSE
  <2>1. j \in Blocks /\ j < i /\ j \in Nat /\ i \in Nat
    BY <1>2, <1>1, InputSequences DEF Earlier
  <2>2. j \in T
    BY <2>1, <1>3, <1>2 DEF SameMap
  <2> QED BY <2>1, <2>2, <1>2
<1> QED BY <1>2, <1>3 DEF Loading

(* Every loaded map has the first of its blocks that can be read           *)
(* (loadLocals).                                                           *)
LEMMA LoadedFrom ==
  ASSUME InputOK, LoadedByFirst
  PROVE  /\ DOMAIN loaded = ReadableMaps
         /\ \A m \in DOMAIN loaded :
              loaded[m] \in Blocks /\ Block(loaded[m]).map = m /\ Loading(loaded[m]) /\ Readable(loaded[m])
<1>1. DOMAIN loaded = ReadableMaps
  BY DEF LoadedByFirst
<1>2. ASSUME NEW m \in DOMAIN loaded
      PROVE  loaded[m] \in Blocks /\ Block(loaded[m]).map = m /\ Loading(loaded[m])
  <2>1. loaded[m] = CHOOSE i \in Blocks : Block(i).map = m /\ Loading(i)
    BY <1>1 DEF LoadedByFirst
  <2>2. \E i \in Blocks : Block(i).map = m /\ Loading(i)
    BY <1>1, FirstReadable
  <2> QED BY <2>1, <2>2
<1> QED BY <1>1, <1>2 DEF Loading

-----------------------------------------------------------------------------
(* What depends on the input alone stays with it.                          *)
LEMMA InputStays ==
  ASSUME UNCHANGED <<global, files>>
  PROVE  /\ InputOK' = InputOK /\ BlocksSound' = BlocksSound
         /\ Blocks' = Blocks /\ \A i : Block(i)' = Block(i)
         /\ \A s : Plan(s)' = Plan(s) /\ Owned(s)' = Owned(s) /\ CommonStates(s)' = CommonStates(s)
<1>1. InputOK' = InputOK
  BY DEF InputOK
<1>2. BlocksSound' = BlocksSound
  BY DEF BlocksSound, Outside, Homeless, Bodyless, FirstOf, Earlier, SameMap, Includes, Blocks, Block
<1>3. Blocks' = Blocks /\ \A i : Block(i)' = Block(i)
  BY DEF Blocks, Block
<1>4. \A s : CommonStates(s)' = CommonStates(s)
  BY DEF CommonStates, statesOf, Blocks, Block
<1>5. \A s : Plan(s)' = Plan(s) /\ Owned(s)' = Owned(s)
  BY <1>4 DEF Plan, Owned
<1> QED BY <1>1, <1>2, <1>3, <1>4, <1>5

(* And what depends on the input and on the loaded diagrams.               *)
LEMMA LoadedStays ==
  ASSUME UNCHANGED <<global, files, loaded>>
  PROVE  /\ AllLoaded' = AllLoaded /\ LocalsSound' = LocalsSound /\ LoadedByFirst' = LoadedByFirst
         /\ \A s : SyncSound(s)' = SyncSound(s)
         /\ WarnAboutLocals' = WarnAboutLocals
<1>1. AllLoaded' = AllLoaded
  BY DEF AllLoaded, Blocks, Block
<1>2. LocalsSound' = LocalsSound
  BY DEF LocalsSound, Selfless, Appearing, Local, Block
<1>3. ReadableMaps' = ReadableMaps /\ LoadedByFirst' = LoadedByFirst
  <2>1. \A i : Loading(i)' = Loading(i) /\ Readable(i)' = Readable(i) /\ Block(i)' = Block(i)
    BY DEF Loading, Readable, Earlier, SameMap, Includes, Blocks, Block
  <2>2. Blocks' = Blocks
    BY DEF Blocks
  <2>3. ReadableMaps' = ReadableMaps
    BY <2>1, <2>2 DEF ReadableMaps
  <2> QED BY <2>1, <2>2, <2>3 DEF LoadedByFirst
<1>4. \A s : SyncSound(s)' = SyncSound(s)
  <2>1. \A s : CommonStates(s)' = CommonStates(s)
    BY InputStays
  <2>2. \A s : TargetErrors(s)' = TargetErrors(s)
    BY DEF TargetErrors, NamedTwice, Promoted, Sided, statesOf, edgesOn, Local, Block, Blocks, Error
  <2> QED BY <2>1, <2>2 DEF SyncSound
<1>5. WarnAboutLocals' = WarnAboutLocals
  BY DEF WarnAboutLocals, Posted, Local, Block, Warning
<1> QED BY <1>1, <1>2, <1>3, <1>4, <1>5

(* And the edges a promotion generates.                                    *)
LEMMA BaseStays ==
  ASSUME UNCHANGED <<global, files, loaded, owned, plans>>
  PROVE  /\ AllAlone' = AllAlone /\ Base' = Base
         /\ \A n : AloneBefore(n)' = AloneBefore(n) /\ MergedBefore(n)' = MergedBefore(n)
         /\ \A n : RestrictedBy(n)' = RestrictedBy(n)
         /\ \A j : Guards(Constrain(j))' = Guards(Constrain(j))
<1>1. Blocks' = Blocks
  BY DEF Blocks
<1>2. \A i : Alone(i)' = Alone(i)
  BY SMT DEF Alone, compose, frame, Local, Block, parts, Clause, Verbatim
<1>3. \A p : Merged(p)' = Merged(p)
  BY SMT DEF Merged, Combined, product, edgesOn, compose, frame, Local, Block, parts, Clause, Verbatim
<1>4. AllAlone' = AllAlone
  BY <1>1, <1>2 DEF AllAlone
<1>5. \A n : AloneBefore(n)' = AloneBefore(n)
  BY <1>1, <1>2 DEF AloneBefore
<1>6. \A n : MergedBefore(n)' = MergedBefore(n)
  BY <1>3 DEF MergedBefore
<1>7. Base' = Base
  BY <1>3, <1>4 DEF Base
<1>8. \A j, x : Constrain(j)' = Constrain(j) /\ Matches(Constrain(j), x)' = Matches(Constrain(j), x)
  BY DEF Constrain, Matches
<1>9. \A x, n : Added(x, n)' = Added(x, n)
  BY <1>8 DEF Added, Verbatim
<1>10. \A n : RestrictedBy(n)' = RestrictedBy(n)
  BY <1>7, <1>9 DEF RestrictedBy, Restricted
<1>11. \A j : Guards(Constrain(j))' = Guards(Constrain(j))
  BY <1>7, <1>8 DEF Guards
<1> QED BY <1>4, <1>5, <1>6, <1>7, <1>10, <1>11

-----------------------------------------------------------------------------
(* The invariant holds of what ParseGlobal read.                           *)
LEMMA Starts ==
  ASSUME Init PROVE IInv
<1>1. PICK s \in Sources : global = s.global /\ files = s.files
  BY DEF Init
<1>2. InputOK
  BY <1>1, SourcesAssumption DEF InputOK, IsSource
<1>3. ControlInv /\ LoadInv /\ CheckInv
  BY DEF Init, ControlInv, LoadInv, CheckInv, Checked
<1>4. plans = << >> /\ owned = {} /\ phase = "blocks" /\ edges = {}
  BY DEF Init
<1>5. PlanInv
  <2>1. ToSet(plans) = {}
    BY <1>4 DEF ToSet
  <2>2. plans \in Seq({Plan(t) : t \in ToSet(global.syncs)})
    BY <1>4
  <2>3. owned = UNION {Owned(q.sync) : q \in ToSet(plans)}
    BY <1>4, <2>1
  <2> QED BY <1>4, <2>1, <2>2, <2>3 DEF PlanInv, Checked, Planned
<1>6. EdgesInv
  BY <1>4 DEF EdgesInv
<1>7. DiagsInv
  BY <1>4 DEF DiagsInv, Planned, Checked
<1> QED BY <1>2, <1>3, <1>5, <1>6, <1>7 DEF IInv

(* Errors stay reported.                                                   *)
LEMMA ErrorsStay ==
  ASSUME NEW ds, NEW es, ds \subseteq es, HasError(ds)
  PROVE  HasError(es)
  BY DEF HasError, HasSeverity

(* Unless an error is reported, every block is in a state that has its     *)
(* map, and every map is included (checkBlocks).                           *)
LEMMA ChecksBlocks ==
  ASSUME IInv, checkBlocks
  PROVE  IInv'
<1>1. /\ UNCHANGED <<global, files, loaded, plans, owned, edges>>
      /\ phase = "blocks" /\ phase' = "load" /\ next' = 1
  BY DEF checkBlocks, Goto
<1> USE <1>1
<1>2. HasError(diags)' \/ BlocksSound'
  <2> SUFFICES ASSUME ~ BlocksSound PROVE HasError(diags')
    BY InputStays DEF HasError, HasSeverity
  <2>1. PICK i \in Blocks : Outside(i) \/ Homeless(i) \/ Bodyless(i)
    BY DEF BlocksSound
  <2>2. \E kind : Error(kind, i) \in diags'
    <3>1. CASE Outside(i)
      <4>1. Error("outside", i) \in diags'
        BY <3>1 DEF checkBlocks
      <4> QED BY <4>1
    <3>2. CASE Homeless(i)
      <4>1. Error("homeless", i) \in diags'
        BY <3>2 DEF checkBlocks
      <4> QED BY <4>1
    <3>3. CASE Bodyless(i)
      <4>1. Error("not included", i) \in diags'
        BY <3>3 DEF checkBlocks
      <4> QED BY <4>1
    <3> QED BY <2>1, <3>1, <3>2, <3>3
  <2> QED BY <2>2 DEF HasError, HasSeverity, Error
<1>3. \A d \in diags' : d.severity \in {"error", "warning", "info"}
  <2>1. \A d \in diags' : d \in diags \/ \E kind, place : d = Error(kind, place) \/ d = Warning(kind, place)
    BY DEF checkBlocks
  <2>2. \A kind, place : Error(kind, place).severity = "error" /\ Warning(kind, place).severity = "warning"
    BY DEF Error, Warning
  <2> QED BY <2>1, <2>2 DEF IInv, ControlInv
<1>4. InputOK' /\ ControlInv'
  BY <1>3, InputStays DEF IInv, ControlInv
<1>5. LoadInv' /\ CheckInv'
  BY <1>2 DEF IInv, LoadInv, CheckInv, Checked
<1>6. PlanInv'
  BY InputStays DEF IInv, PlanInv, Checked, Planned
<1>7. EdgesInv' /\ DiagsInv'
  BY DEF IInv, EdgesInv, DiagsInv, Checked, Planned
<1> QED BY <1>4, <1>5, <1>6, <1>7 DEF IInv

(* Unless an error is reported, every map is loaded (loadLocals).          *)
LEMMA Loads ==
  ASSUME IInv, loadLocals
  PROVE  IInv'
<1>1. /\ UNCHANGED <<global, files, plans, owned, edges>>
      /\ phase = "load" /\ phase' = "locals" /\ next' = 1
      /\ diags \subseteq diags'
  BY DEF loadLocals, Goto
<1> USE <1>1
<1>2. Blocks' = Blocks /\ BlocksSound' = BlocksSound /\ InputOK /\ InputOK' /\ \A i : Block(i)' = Block(i)
  BY InputStays DEF IInv
<1>3. LoadedByFirst'
  <2>1. \A i : Loading(i)' = Loading(i) /\ Readable(i)' = Readable(i)
    BY DEF Loading, Readable, Earlier, SameMap, Includes, Blocks, Block
  <2>2. ReadableMaps' = ReadableMaps
    BY <1>2, <2>1 DEF ReadableMaps
  <2>3. loaded' = [m \in ReadableMaps |-> CHOOSE i \in Blocks : Block(i).map = m /\ Loading(i)]
    BY DEF loadLocals, ReadableMaps
  <2> QED BY <1>2, <2>1, <2>2, <2>3 DEF LoadedByFirst
<1>4. ReadableMaps' = ReadableMaps /\ DOMAIN loaded' = ReadableMaps
  <2>1. ReadableMaps' = ReadableMaps
    BY DEF ReadableMaps, Readable, Includes, Blocks, Block
  <2> QED BY <2>1, <1>3 DEF LoadedByFirst
<1>5. HasError(diags') \/ AllLoaded'
  <2> SUFFICES ASSUME ~ HasError(diags'), NEW i \in Blocks PROVE Block(i).map \in ReadableMaps
    BY <1>2, <1>4 DEF AllLoaded
  <2>1. BlocksSound
    BY ErrorsStay DEF IInv, CheckInv
  <2> DEFINE T == {j \in Blocks : SameMap(i, j)}
  <2>2. i \in T /\ T \subseteq Nat
    BY <1>2, InputSequences DEF SameMap
  <2>3. PICK f \in T : \A j \in T : f <= j
    <3> HIDE DEF T
    <3> QED BY <2>2, LeastNat
  <2>4. FirstOf(f)
    <3> SUFFICES ASSUME NEW j \in Earlier(f), SameMap(f, j) PROVE FALSE
      BY DEF FirstOf
    <3>1. j \in Blocks /\ j < f /\ j \in Nat /\ f \in Nat
      BY <2>3, <2>2, <1>2, InputSequences DEF Earlier
    <3>2. j \in T
      BY <3>1, <2>3 DEF SameMap
    <3> QED BY <3>1, <3>2, <2>3
  <2>5. PICK j \in Blocks : SameMap(f, j) /\ Includes(j)
    BY <2>1, <2>3, <2>4 DEF BlocksSound, Bodyless
  <2>6. \E k \in Blocks : SameMap(j, k) /\ Readable(k)
    <3> SUFFICES ASSUME ~ \E k \in Blocks : SameMap(j, k) /\ Readable(k) PROVE FALSE
      OBVIOUS
    <3>1. ~ Readable(j)
      BY DEF SameMap
    <3>2. ~ \E k \in Earlier(j) : SameMap(j, k) /\ Readable(k)
      BY DEF Earlier
    <3>3. Error("unreadable", j) \in diags'
      BY <2>5, <3>1, <3>2 DEF loadLocals
    <3> QED BY <3>3 DEF HasError, HasSeverity, Error
  <2> QED BY <2>3, <2>5, <2>6 DEF ReadableMaps, SameMap
<1>6. \A d \in diags' : d.severity \in {"error", "warning", "info"}
  <2>1. \A d \in diags' : d \in diags \/ \E kind, place : d = Error(kind, place)
    BY DEF loadLocals
  <2>2. \A kind, place : Error(kind, place).severity = "error"
    BY DEF Error
  <2> QED BY <2>1, <2>2 DEF IInv, ControlInv
<1>7. ControlInv' /\ LoadInv'
  BY <1>3, <1>6 DEF IInv, ControlInv, LoadInv
<1>8. CheckInv'
  <2>1. HasError(diags') \/ BlocksSound'
    BY <1>2, ErrorsStay DEF IInv, CheckInv
  <2> QED BY <2>1, <1>5 DEF CheckInv, Checked, HasError
<1>9. PlanInv'
  BY InputStays DEF IInv, PlanInv, Checked, Planned
<1>10. EdgesInv' /\ DiagsInv'
  BY DEF IInv, EdgesInv, DiagsInv, Checked, Planned
<1> QED BY <1>2, <1>7, <1>8, <1>9, <1>10 DEF IInv

(* Without an error, no loaded diagram loops at its start or creates       *)
(* silently (checkLocals).                                                 *)
LEMMA ChecksLocals ==
  ASSUME IInv, checkLocals
  PROVE  IInv'
<1>1. /\ UNCHANGED <<global, files, loaded, plans, owned, edges>>
      /\ phase = "locals" /\ next' = 1
      /\ phase' = IF HasError(diags') THEN "refused" ELSE "syncs"
      /\ diags \subseteq diags'
  BY DEF checkLocals, Goto
<1> USE <1>1
<1>2. BlocksSound' = BlocksSound /\ InputOK' /\ InputOK
      /\ LoadedByFirst' = LoadedByFirst /\ AllLoaded' = AllLoaded /\ LocalsSound' = LocalsSound
  BY InputStays, LoadedStays DEF IInv
<1>3. HasError(diags') \/ LocalsSound
  <2> SUFFICES ASSUME ~ LocalsSound PROVE HasError(diags')
    OBVIOUS
  <2>1. PICK m \in DOMAIN loaded : Selfless(Local(m)) \/ Appearing(Local(m))
    BY DEF LocalsSound
  <2>2. \E kind : Error(kind, m) \in diags'
    <3>1. CASE Selfless(Local(m))
      <4>1. Error("start loop", m) \in diags'
        BY <3>1 DEF checkLocals, Where
      <4> QED BY <4>1
    <3>2. CASE Appearing(Local(m))
      <4>1. Error("tau creation", m) \in diags'
        BY <3>2 DEF checkLocals, Where
      <4> QED BY <4>1
    <3> QED BY <2>1, <3>1, <3>2
  <2> QED BY <2>2 DEF HasError, HasSeverity, Error
<1>4. \A d \in diags' : d.severity \in {"error", "warning", "info"}
  <2>0. PICK W1, W2, W3, W4, W5 :
          diags' = diags \cup UNION {{Error("start variables", m) : m \in W1}, {Error("end edge", m) : m \in W2},
                                      {Error("start loop", m) : m \in W3}, {Error("tau creation", m) : m \in W4},
                                      {Error("collision", m) : m \in W5}}
    BY Zenon DEF checkLocals
  <2>1. \A d \in diags' : d \in diags \/ \E kind, place : d = Error(kind, place)
    <3> SUFFICES ASSUME NEW d \in diags', d \notin diags PROVE \E kind, place : d = Error(kind, place)
      OBVIOUS
    <3>1. \/ d \in {Error("start variables", m) : m \in W1} \/ d \in {Error("end edge", m) : m \in W2}
          \/ d \in {Error("start loop", m) : m \in W3} \/ d \in {Error("tau creation", m) : m \in W4}
          \/ d \in {Error("collision", m) : m \in W5}
      BY <2>0
    <3> QED BY <3>1
  <2>2. \A kind, place : Error(kind, place).severity = "error"
    BY DEF Error
  <2> QED BY <2>1, <2>2 DEF IInv, ControlInv
<1>5. ControlInv' /\ LoadInv'
  BY <1>2, <1>4 DEF IInv, ControlInv, LoadInv, Checked
<1>6. CheckInv'
  <2>1. phase' = "syncs" => BlocksSound /\ AllLoaded
    BY <1>2, ErrorsStay DEF IInv, CheckInv
  <2> QED BY <1>2, <1>3, <2>1 DEF CheckInv, Checked
<1>7. plans = << >> /\ ToSet(plans) = {} /\ ToSet(plans)' = {}
  BY DEF IInv, PlanInv, ToSet
<1>8. PlanInv'
  <2>1. plans' \in Seq({Plan(s) : s \in ToSet(global.syncs)})'
    BY <1>7
  <2>2. owned' = UNION {Owned(p.sync) : p \in ToSet(plans)}'
    BY <1>7 DEF IInv, PlanInv
  <2>3. InputOK => \A j \in DOMAIN global.syncs : ~ (j < 1)
    BY InputSequences, Sequential
  <2> QED BY <1>2, <1>7, <2>1, <2>2, <2>3 DEF PlanInv, Planned, Checked
<1>9. EdgesInv' /\ DiagsInv'
  BY DEF IInv, EdgesInv, DiagsInv, Checked, Planned
<1> QED BY <1>2, <1>5, <1>6, <1>8, <1>9 DEF IInv

(* A SYNC directive is planned, or an error is reported (planSyncs).       *)
LEMMA PlansSync ==
  ASSUME IInv, PlanSync
  PROVE  IInv'
<1>1. /\ UNCHANGED <<global, files, phase, loaded, edges>>
      /\ phase = "syncs" /\ next' = next + 1 /\ next <= Len(global.syncs)
      /\ diags \subseteq diags'
  BY DEF PlanSync
<1> USE <1>1
<1>2. BlocksSound' = BlocksSound /\ InputOK' /\ InputOK
      /\ LoadedByFirst' = LoadedByFirst /\ AllLoaded' = AllLoaded /\ LocalsSound' = LocalsSound
      /\ (\A s : SyncSound(s)' = SyncSound(s))
      /\ (\A s : Plan(s)' = Plan(s) /\ Owned(s)' = Owned(s))
  BY InputStays, LoadedStays DEF IInv
<1> DEFINE s == global.syncs[next]
           errors == CASE s.event = Tau        -> {Error("tau", s)}
                       [] TargetErrors(s) # {} -> TargetErrors(s)
                       [] CommonStates(s) = {} -> {Error("never", s)}
                       [] OTHER                -> {}
<1>3. /\ diags' = diags \cup errors \cup (IF s.event = Tau THEN {} ELSE ArgumentWarnings(s))
      /\ plans' = IF errors = {} THEN Append(plans, [sync |-> s, states |-> CommonStates(s)]) ELSE plans
      /\ owned' = IF errors = {} THEN owned \cup Owned(s) ELSE owned
  BY DEF PlanSync
<1>4. next \in DOMAIN global.syncs /\ next \in Nat /\ s \in ToSet(global.syncs)
      /\ DOMAIN global.syncs \subseteq Nat
  <2>1. next \in Nat \ {0}
    BY DEF IInv, ControlInv
  <2>2. Len(global.syncs) \in Nat /\ DOMAIN global.syncs = 1 .. Len(global.syncs)
    BY <1>2, InputSequences, Sequential
  <2> QED BY <2>1, <2>2 DEF ToSet
<1>5. errors = {} <=> SyncSound(s)
  <2>1. Error("tau", s) \in {Error("tau", s)} /\ Error("never", s) \in {Error("never", s)}
    OBVIOUS
  <2> QED BY <2>1 DEF SyncSound
<1>6. \A d \in errors \cup ArgumentWarnings(s) : \E kind, place : d = Error(kind, place) \/ d = Warning(kind, place)
  <2>1. \A d \in TargetErrors(s) : \E kind, place : d = Error(kind, place)
    BY DEF TargetErrors
  <2>2. \A d \in ArgumentWarnings(s) : \E kind, place : d = Warning(kind, place)
    BY DEF ArgumentWarnings
  <2> QED BY <2>1, <2>2
<1>7. errors # {} => HasError(diags')
  <2>1. \A d \in errors : \E kind, place : d = Error(kind, place)
    BY DEF TargetErrors
  <2>2. errors \subseteq diags'
    BY <1>3
  <2> HIDE DEF errors
  <2> QED BY <2>1, <2>2 DEF HasError, HasSeverity, Error
<1>8. \A kind, place : Error(kind, place).severity = "error" /\ Warning(kind, place).severity = "warning"
  BY DEF Error, Warning
<1> HIDE DEF errors
<1>9. ControlInv' /\ LoadInv' /\ CheckInv'
  <2>1. \A d \in diags' : d.severity \in {"error", "warning", "info"}
    BY <1>3, <1>6, <1>8 DEF IInv, ControlInv
  <2> QED BY <1>2, <1>4, <2>1 DEF IInv, ControlInv, LoadInv, CheckInv, Checked
<1>10. PlanInv'
  <2> DEFINE Plans == {Plan(t) : t \in ToSet(global.syncs)}
  <2>1. plans \in Seq(Plans) /\ Plan(s) \in Plans
    BY <1>4 DEF IInv, PlanInv
  <2>2. plans' = IF errors = {} THEN Append(plans, Plan(s)) ELSE plans
    BY <1>3 DEF Plan
  <2>3. ToSet(plans') = IF errors = {} THEN ToSet(plans) \cup {Plan(s)} ELSE ToSet(plans)
    <3> HIDE DEF Plans, s
    <3>1. CASE errors = {}
      <4>1. /\ Len(plans') = Len(plans) + 1 /\ Len(plans) \in Nat
            /\ DOMAIN plans = 1 .. Len(plans) /\ DOMAIN plans' = 1 .. Len(plans')
            /\ \A k \in 1 .. Len(plans) : plans'[k] = plans[k]
            /\ plans'[Len(plans) + 1] = Plan(s)
        BY <2>1, <2>2, <3>1, AppendProperties, LenProperties
      <4> QED BY <4>1, <3>1 DEF ToSet
    <3>2. CASE errors # {}
      BY <2>2, <3>2
    <3> QED BY <3>1, <3>2
  <2>4. plans' \in Seq({Plan(t) : t \in ToSet(global.syncs)})'
    <3>1. {Plan(t) : t \in ToSet(global.syncs)}' = Plans
      BY <1>2
    <3>2. plans' \in Seq(Plans)
      <4> HIDE DEF Plans, s
      <4> QED BY <2>1, <2>2, AppendProperties
    <3> QED BY <3>1, <3>2
  <2>5. owned' = UNION {Owned(q.sync) : q \in ToSet(plans)}'
    <3>1. Plan(s).sync = s
      BY DEF Plan
    <3>2. owned = UNION {Owned(q.sync) : q \in ToSet(plans)}
      BY DEF IInv, PlanInv
    <3>3. \A q : Owned(q.sync)' = Owned(q.sync)
      BY <1>2
    <3>4. owned' = UNION {Owned(q.sync) : q \in ToSet(plans')}
      <4> HIDE DEF s
      <4> QED BY <2>3, <3>1, <3>2, <1>3
    <3> QED BY <3>3, <3>4
  <2>6. ASSUME NEW j \in DOMAIN global.syncs, j < next' PROVE HasError(diags') \/ Planning(j)'
    <3>0. ToSet(plans)' = ToSet(plans')
      OBVIOUS
    <3>1. CASE j = next
      <4>1. CASE errors = {}
        BY <1>2, <1>5, <2>3, <3>0, <3>1, <4>1 DEF Planning
      <4> QED BY <1>7, <4>1
    <3>2. CASE j < next
      <4>1. HasError(diags) \/ Planning(j)
        BY <3>2 DEF IInv, PlanInv
      <4>2. Planning(j) => Planning(j)'
        BY <1>2, <2>3, <3>0 DEF Planning
      <4> QED BY <4>1, <4>2, ErrorsStay
    <3> QED BY <1>4, <2>6, <3>1, <3>2
  <2>7. ASSUME NEW q \in ToSet(plans') PROVE SyncSound(q.sync)'
    <3>1. CASE q \in ToSet(plans)
      BY <3>1, <1>2 DEF IInv, PlanInv, Checked
    <3>2. CASE errors = {} /\ q = Plan(s)
      BY <3>2, <1>2, <1>5 DEF Plan
    <3> QED BY <2>3, <2>7, <3>1, <3>2
  <2> HIDE DEF s, Plans
  <2>8. \A j \in DOMAIN global.syncs : j < next' => HasError(diags') \/ Planning(j)'
    BY <2>6
  <2> QED BY <2>4, <2>5, <2>7, <2>8 DEF PlanInv, Planned, HasError
<1>11. EdgesInv' /\ DiagsInv'
  BY DEF IInv, EdgesInv, DiagsInv, Checked, Planned
<1> QED BY <1>2, <1>9, <1>10, <1>11 DEF IInv

(* The expansion goes on only when every directive was planned (warn).     *)
LEMMA Warns ==
  ASSUME IInv, warn
  PROVE  IInv'
<1>1. /\ UNCHANGED <<global, files, loaded, plans, owned>>
      /\ phase = "syncs" /\ next > Len(global.syncs) /\ next' = 1
      /\ phase' = IF HasError(diags') THEN "refused" ELSE "promote"
      /\ edges' = IF HasError(diags') THEN edges ELSE global.edges
      /\ diags' = diags \cup WarnAboutLocals \cup WarnAboutSharedEvents
                        \cup WarnAboutNotes \cup InfoOnFrozenMaps
  BY DEF warn, Goto
<1> USE <1>1
<1>2. BlocksSound' = BlocksSound /\ InputOK' /\ InputOK /\ Blocks' = Blocks
      /\ LoadedByFirst' = LoadedByFirst /\ AllLoaded' = AllLoaded /\ LocalsSound' = LocalsSound
      /\ (\A s : SyncSound(s)' = SyncSound(s))
      /\ (\A s : Plan(s)' = Plan(s) /\ Owned(s)' = Owned(s))
      /\ WarnAboutLocals' = WarnAboutLocals
  BY InputStays, LoadedStays DEF IInv
<1>3. \A d \in diags' : d.severity \in {"error", "warning", "info"}
  <2>1. /\ \A d \in WarnAboutLocals : \E kind, place : d = Warning(kind, place)
        /\ \A d \in WarnAboutSharedEvents : \E kind, place : d = Warning(kind, place)
        /\ \A d \in WarnAboutNotes : \E kind, place : d = Warning(kind, place)
        /\ \A d \in InfoOnFrozenMaps : \E kind, place : d = Info(kind, place)
    BY DEF WarnAboutLocals, WarnAboutSharedEvents, WarnAboutNotes, InfoOnFrozenMaps
  <2>2. \A kind, place : Info(kind, place).severity = "info" /\ Warning(kind, place).severity = "warning"
    BY DEF Info, Warning
  <2> QED BY <2>1, <2>2 DEF IInv, ControlInv
<1>4. ControlInv' /\ LoadInv' /\ CheckInv'
  BY <1>2, <1>3 DEF IInv, ControlInv, LoadInv, CheckInv, Checked
<1>5. PlanInv'
  <2>1. \A j \in DOMAIN global.syncs : j < next
    BY <1>2, InputSequences, Sequential DEF IInv, ControlInv
  <2>2. phase' = "promote" => ~ HasError(diags)
    BY ErrorsStay
  <2>3. \A j : Planning(j)' = Planning(j)
    BY <1>2 DEF Planning
  <2> QED BY <1>2, <2>1, <2>2, <2>3 DEF IInv, PlanInv, Planned, Checked
<1>6. EdgesInv'
  <2>1. edges = {}
    BY DEF IInv, EdgesInv
  <2>2. AloneBefore(1)' = {}
    BY <1>2, InputSequences DEF AloneBefore
  <2>3. \A x \in edges' : x.origin = << >>
    BY <1>2, <2>1, InputSequences
  <2> QED BY <2>1, <2>2, <2>3 DEF EdgesInv
<1>7. DiagsInv'
  BY <1>2 DEF DiagsInv, Planned, Checked, HasError
<1> QED BY <1>2, <1>4, <1>5, <1>6, <1>7 DEF IInv

(* The passes that add the expanded edges change nothing that decides them. *)
LEMMA PassesKeep ==
  ASSUME IInv, UNCHANGED <<global, files, loaded, plans, owned>>,
         diags \subseteq diags', \A d \in diags' : d.severity \in {"error", "warning", "info"},
         phase \in Planned, phase' \in Planned \cup {"refused"}, next' \in Nat \ {0}
  PROVE  /\ InputOK' /\ ControlInv' /\ LoadInv' /\ CheckInv' /\ PlanInv'
         /\ InputOK /\ BlocksSound /\ WarnAboutLocals' \subseteq diags'
<1>1. BlocksSound' = BlocksSound /\ InputOK' /\ InputOK
      /\ LoadedByFirst' = LoadedByFirst /\ AllLoaded' = AllLoaded /\ LocalsSound' = LocalsSound
      /\ (\A s : SyncSound(s)' = SyncSound(s))
      /\ (\A s : Plan(s)' = Plan(s) /\ Owned(s)' = Owned(s))
      /\ WarnAboutLocals' = WarnAboutLocals
  BY InputStays, LoadedStays DEF IInv
<1>2. ControlInv' /\ LoadInv' /\ CheckInv'
  BY <1>1 DEF IInv, ControlInv, LoadInv, CheckInv, Checked, Planned
<1>3. PlanInv'
  <2>1. \A j : Planning(j)' = Planning(j)
    BY <1>1 DEF Planning
  <2> QED BY <1>1, <2>1 DEF IInv, PlanInv, Planned, Checked
<1> QED BY <1>1, <1>2, <1>3 DEF IInv, DiagsInv, CheckInv, Planned

(* Where a sync happens, all of its maps are variables of a state that is  *)
(* declared.                                                               *)
LEMMA StatesOfBlocks ==
  ASSUME InputOK, BlocksSound
  PROVE  /\ \A i \in Blocks : Block(i).in \in DOMAIN global.vars /\ Block(i).map \in DOMAIN global.vars[Block(i).in]
         /\ \A s : \A g \in CommonStates(s) : g \in DOMAIN global.vars
         /\ \A s : \A g \in CommonStates(s) : \A m \in Maps(s) : m \in DOMAIN global.vars[g] /\ MovesIn(global, m, g)
<1>1. \A i \in Blocks : Block(i).in \in DOMAIN global.vars /\ Block(i).map \in DOMAIN global.vars[Block(i).in]
  BY DEF BlocksSound, Outside, Homeless
<1>2. ASSUME NEW s, NEW g \in CommonStates(s), NEW m \in Maps(s)
      PROVE  g \in DOMAIN global.vars /\ m \in DOMAIN global.vars[g] /\ MovesIn(global, m, g)
  <2>1. PICK i \in Blocks : Block(i).map = m /\ Block(i).in = g
    BY DEF CommonStates, statesOf
  <2>2. Block(i) \in ToSet(global.promotes)
    BY DEF Blocks, Block, ToSet
  <2> QED BY <2>1, <2>2, <1>1 DEF MovesIn
<1>3. \A s : \A g \in CommonStates(s) : \E m : m \in Maps(s)
  BY DEF CommonStates
<1> QED BY <1>1, <1>2, <1>3

(* The numbers below n + 1 are n and those below n.                        *)
LEMMA Below ==
  ASSUME NEW S, S \subseteq Nat, NEW n \in S
  PROVE  {i \in S : i < n + 1} = {i \in S : i < n} \cup {n}
<1>1. \A i \in S : i < n + 1 <=> i < n \/ i = n
  BY SMT
<1> QED BY <1>1

(* A generated edge is in the state it was composed for.                   *)
LEMMA ComposeSource ==
  ASSUME NEW g, NEW ps PROVE compose(g, ps).src = g
  BY DEF compose

(* A block adds the edges of its map that no sync took over (promote).     *)
LEMMA Promotes ==
  ASSUME IInv, promote
  PROVE  IInv'
<1>1. /\ UNCHANGED <<global, files, phase, diags, loaded, plans, owned>>
      /\ phase = "promote" /\ next <= Len(global.promotes) /\ next' = next + 1
      /\ edges' = edges \cup Alone(next)
  BY DEF promote, Alone
<1> USE <1>1
<1>2. InputOK' /\ ControlInv' /\ LoadInv' /\ CheckInv' /\ PlanInv' /\ InputOK /\ BlocksSound /\ WarnAboutLocals' \subseteq diags'
  BY PassesKeep DEF IInv, ControlInv, Planned, Checked
<1>3. next \in Blocks /\ Blocks \subseteq Nat /\ next \in Nat
  BY <1>2, InputSequences, Sequential DEF IInv, ControlInv
<1>4. AloneBefore(next + 1) = AloneBefore(next) \cup Alone(next)
  <2>1. {i \in Blocks : i < next + 1} = {i \in Blocks : i < next} \cup {next}
    BY <1>3, Below
  <2> QED BY <2>1 DEF AloneBefore
<1>5. AloneBefore(next)' = AloneBefore(next + 1)
  BY BaseStays
<1>6. \A x \in Alone(next) : x.src \in DOMAIN global.vars
  <2>1. Block(next).in \in DOMAIN global.vars
    BY <1>2, <1>3, StatesOfBlocks
  <2> QED BY <2>1, ComposeSource DEF Alone
<1>7. EdgesInv'
  BY <1>4, <1>5, <1>6 DEF IInv, EdgesInv
<1>8. DiagsInv'
  BY <1>2 DEF IInv, DiagsInv, HasError
<1> QED BY <1>2, <1>7, <1>8 DEF IInv

(* Afterwards the last block, every block has added its edges.             *)
LEMMA EndsPromote ==
  ASSUME IInv, EndPromote
  PROVE  IInv'
<1>1. /\ UNCHANGED <<global, files, diags, loaded, plans, owned, edges>>
      /\ phase = "promote" /\ next > Len(global.promotes) /\ phase' = "merge" /\ next' = 1
  BY DEF EndPromote, Goto
<1> USE <1>1
<1>2. InputOK' /\ ControlInv' /\ LoadInv' /\ CheckInv' /\ PlanInv' /\ InputOK /\ BlocksSound /\ WarnAboutLocals' \subseteq diags'
  BY PassesKeep DEF IInv, ControlInv, Planned, Checked
<1>3. AloneBefore(next) = AllAlone
  <2>1. {i \in Blocks : i < next} = Blocks
    BY <1>2, InputSequences, Sequential DEF IInv, ControlInv
  <2> QED BY <2>1 DEF AloneBefore, AllAlone
<1>4. MergedBefore(1) = {}
  <2>1. DOMAIN plans = 1 .. Len(plans) /\ Len(plans) \in Nat
    BY LenProperties DEF IInv, PlanInv
  <2>2. {k \in DOMAIN plans : k < 1} = {}
    BY <2>1
  <2> QED BY <2>2 DEF MergedBefore
<1>5. EdgesInv'
  BY <1>3, <1>4, BaseStays DEF IInv, EdgesInv
<1>6. DiagsInv'
  BY <1>2 DEF IInv, DiagsInv, HasError
<1> QED BY <1>2, <1>5, <1>6 DEF IInv

(* A plan adds its combinations (mergeSyncs).                              *)
LEMMA Merges ==
  ASSUME IInv, mergeSyncs
  PROVE  IInv'
<1>1. /\ UNCHANGED <<global, files, phase, diags, loaded, plans, owned>>
      /\ phase = "merge" /\ next <= Len(plans) /\ next' = next + 1
      /\ edges' = edges \cup Merged(plans[next])
  BY DEF mergeSyncs, Merged, Combined
<1> USE <1>1
<1>2. InputOK' /\ ControlInv' /\ LoadInv' /\ CheckInv' /\ PlanInv' /\ InputOK /\ BlocksSound /\ WarnAboutLocals' \subseteq diags'
  BY PassesKeep DEF IInv, ControlInv, Planned, Checked
<1>3. next \in DOMAIN plans /\ DOMAIN plans \subseteq Nat
      /\ plans[next] \in {Plan(s) : s \in ToSet(global.syncs)}
  BY LenProperties, ElementOfSeq DEF IInv, PlanInv, ControlInv
<1>4. MergedBefore(next + 1) = MergedBefore(next) \cup Merged(plans[next])
  <2>1. {k \in DOMAIN plans : k < next + 1} = {k \in DOMAIN plans : k < next} \cup {next}
    BY <1>3, Below
  <2> QED BY <2>1 DEF MergedBefore
<1>5. MergedBefore(next)' = MergedBefore(next + 1) /\ AllAlone' = AllAlone
  BY BaseStays
<1>6. \A x \in Merged(plans[next]) : x.src \in DOMAIN global.vars
  <2>1. \A g \in plans[next].states : g \in DOMAIN global.vars
    BY <1>2, <1>3, StatesOfBlocks DEF Plan
  <2> SUFFICES ASSUME NEW x \in Merged(plans[next]) PROVE x.src \in DOMAIN global.vars
    OBVIOUS
  <2>2. PICK g \in plans[next].states, c \in product(plans[next].sync) : x = Combined(g, plans[next].sync.targets, c)
    BY DEF Merged
  <2>3. x.src = g
    BY <2>2, ComposeSource DEF Combined
  <2> QED BY <2>1, <2>2, <2>3
<1>7. EdgesInv'
  BY <1>4, <1>5, <1>6 DEF IInv, EdgesInv
<1>8. DiagsInv'
  BY <1>2 DEF IInv, DiagsInv, HasError
<1> QED BY <1>2, <1>7, <1>8 DEF IInv

(* An edge that is generated has an origin, and no constraint it had not.  *)
LEMMA BaseEdges ==
  ASSUME PlanInv, phase \in Checked, NEW x \in Base
  PROVE  /\ x.origin # << >>
         /\ x = [src |-> x.src, dst |-> x.dst, event |-> x.event, guard |-> x.guard,
                 post |-> x.post, origin |-> x.origin]
<1>1. ASSUME NEW g, NEW ps, NEW k \in DOMAIN ps
      PROVE  /\ compose(g, ps).origin # << >>
             /\ compose(g, ps) = [src |-> compose(g, ps).src, dst |-> compose(g, ps).dst,
                                  event |-> compose(g, ps).event, guard |-> compose(g, ps).guard,
                                  post |-> compose(g, ps).post, origin |-> compose(g, ps).origin]
  <2>1. DOMAIN compose(g, ps).origin = DOMAIN ps
    BY DEF compose
  <2>2. compose(g, ps).origin # << >>
    BY <2>1
  <2> QED BY <2>2 DEF compose
<1>2. \E g, ps : x = compose(g, ps) /\ \E k : k \in DOMAIN ps
  <2>1. CASE x \in AllAlone
    <3>1. PICK i \in Blocks : x \in Alone(i)
      BY <2>1 DEF AllAlone
    <3>2. PICK e : x = compose(Block(i).in, <<parts(Block(i).map, Block(i).idParam, e)>>)
      BY <3>1 DEF Alone
    <3>3. 1 \in DOMAIN <<parts(Block(i).map, Block(i).idParam, e)>>
      OBVIOUS
    <3> QED BY <3>2, <3>3
  <2>2. ASSUME NEW p \in ToSet(plans), x \in Merged(p)
        PROVE  \E g, ps : x = compose(g, ps) /\ \E k : k \in DOMAIN ps
    <3>1. PICK g \in p.states, c \in product(p.sync) : x = Combined(g, p.sync.targets, c)
      BY <2>2 DEF Merged
    <3>2. SyncSound(p.sync)
      BY <2>2 DEF PlanInv
    <3>3. \E k : k \in DOMAIN p.sync.targets
      BY <3>2 DEF SyncSound, CommonStates, Maps, ToSet
    <3> DEFINE ps == [k \in DOMAIN p.sync.targets |->
                        parts(p.sync.targets[k].map, p.sync.targets[k].param, c[k])]
    <3>4. x = compose(g, ps) /\ DOMAIN ps = DOMAIN p.sync.targets
      BY <3>1 DEF Combined
    <3> QED BY <3>3, <3>4
  <2> QED BY <2>1, <2>2 DEF Base
<1> QED BY <1>1, <1>2

(* A constraint changes the guard of an edge and nothing else.             *)
LEMMA RestrictedFields ==
  ASSUME NEW x, NEW n
  PROVE  /\ Restricted(x, n).src = x.src /\ Restricted(x, n).origin = x.origin
         /\ Restricted(x, n).event = x.event /\ Restricted(x, n).post = x.post
         /\ Restricted(x, n).guard = x.guard \cup Added(x, n)
         /\ \A c : Matches(c, Restricted(x, n)) <=> Matches(c, x)
  BY DEF Restricted, Matches

(* Afterwards the last plan, the edges are those of the promotion,         *)
(* unconstrained.                                                          *)
LEMMA EndsMerge ==
  ASSUME IInv, EndMerge
  PROVE  IInv'
<1>1. /\ UNCHANGED <<global, files, diags, loaded, plans, owned, edges>>
      /\ phase = "merge" /\ next > Len(plans) /\ phase' = "constrain" /\ next' = 1
  BY DEF EndMerge, Goto
<1> USE <1>1
<1>2. InputOK' /\ ControlInv' /\ LoadInv' /\ CheckInv' /\ PlanInv' /\ InputOK /\ BlocksSound /\ WarnAboutLocals' \subseteq diags'
  BY PassesKeep DEF IInv, ControlInv, Planned, Checked
<1>3. AllAlone \cup MergedBefore(next) = Base
  <2>1. DOMAIN plans = 1 .. Len(plans) /\ Len(plans) \in Nat
    BY LenProperties DEF IInv, PlanInv
  <2>2. {k \in DOMAIN plans : k < next} = DOMAIN plans
    BY <2>1 DEF IInv, ControlInv
  <2>3. MergedBefore(next) = UNION {Merged(p) : p \in ToSet(plans)}
    BY <2>2 DEF MergedBefore, ToSet
  <2> QED BY <2>3 DEF Base
<1>4. DOMAIN global.constrains \subseteq Nat \ {0}
  BY <1>2, InputSequences, Sequential
<1>5. RestrictedBy(1 - 1) = Base
  <2> SUFFICES ASSUME NEW x \in Base PROVE Restricted(x, 0) = x
    BY DEF RestrictedBy
  <2>1. Added(x, 0) = {}
    <3>1. {j \in DOMAIN global.constrains : j <= 0 /\ Matches(Constrain(j), x)} = {}
      BY <1>4
    <3> QED BY <3>1 DEF Added
  <2>2. x = [src |-> x.src, dst |-> x.dst, event |-> x.event, guard |-> x.guard,
             post |-> x.post, origin |-> x.origin]
    BY BaseEdges DEF IInv, Checked
  <2>3. x.guard \cup Added(x, 0) = x.guard
    BY <2>1
  <2> QED BY <2>2, <2>3 DEF Restricted
<1>6. EdgesInv'
  <2>1. RestrictedBy(next - 1)' = Base
    BY <1>5, BaseStays
  <2> QED BY <1>3, <2>1 DEF IInv, EdgesInv
<1>7. DiagsInv'
  <2>1. \A j \in DOMAIN global.constrains : ~ (j < 1)
    BY <1>4
  <2> QED BY <1>2, <2>1 DEF IInv, DiagsInv, HasError
<1> QED BY <1>2, <1>6, <1>7 DEF IInv

(* A constraint guards every edge it matches, whatever constrained them    *)
(* before (constrain).                                                     *)
LEMMA Constrains ==
  ASSUME IInv, constrain
  PROVE  IInv'
<1> DEFINE c       == global.constrains[next]
           matched == {x \in edges : Matches(c, x)}
           taken   == UNION {x.event.ids \cup x.event.args : x \in matched}
<1>0. /\ UNCHANGED <<global, files, phase, loaded, plans, owned>>
      /\ phase = "constrain" /\ next <= Len(global.constrains) /\ next' = next + 1
  BY DEF constrain
<1>1. /\ edges' = (edges \ matched) \cup {[x EXCEPT !.guard = @ \cup Verbatim(c.guard)] : x \in matched}
      /\ diags' = diags \cup
              IF matched = {} THEN {Error("unmatched", c)}
              ELSE {Warning("not taken", c) : q \in ToSet(c.params) \ taken}
  BY DEF constrain
<1> DEFINE Tightened(y) == [y EXCEPT !.guard = @ \cup Verbatim(c.guard)]
<1>a. edges' = (edges \ matched) \cup {Tightened(x) : x \in matched}
  BY <1>1
<1>b. c = Constrain(next) /\ matched = {x \in edges : Matches(c, x)}
  BY DEF Constrain
<1>c. \A y : Tightened(y) = [y EXCEPT !.guard = @ \cup Verbatim(c.guard)]
  OBVIOUS
<1> HIDE DEF c, matched, taken, Tightened
<1>2. /\ \A d \in diags' : d.severity \in {"error", "warning", "info"}
      /\ diags \subseteq diags'
      /\ matched = {} => HasError(diags')
  <2>1. \A kind, place : Error(kind, place).severity = "error" /\ Warning(kind, place).severity = "warning"
    BY DEF Error, Warning
  <2>2. \A d \in diags' : d \in diags \/ d = Error("unmatched", c) \/ d = Warning("not taken", c)
    BY <1>1
  <2> QED BY <1>1, <2>1, <2>2 DEF IInv, ControlInv, HasError, HasSeverity
<1>3. InputOK' /\ ControlInv' /\ LoadInv' /\ CheckInv' /\ PlanInv' /\ InputOK /\ BlocksSound /\ WarnAboutLocals' \subseteq diags'
  BY <1>0, <1>2, PassesKeep DEF IInv, ControlInv, Planned, Checked
<1>4. next \in DOMAIN global.constrains /\ DOMAIN global.constrains \subseteq Nat
      /\ next \in Nat /\ next - 1 \in Nat /\ c = Constrain(next)
  BY <1>0, <1>b, <1>3, InputSequences, Sequential DEF IInv, ControlInv
<1>5. PICK n \in Nat : n = next - 1
  BY <1>4
<1>6. edges = global.edges \cup RestrictedBy(n)
  BY <1>0, <1>5 DEF IInv, EdgesInv
<1>7. \A x : Added(x, next) = Added(x, n) \cup (IF Matches(c, x) THEN Verbatim(c.guard) ELSE {})
  <2> SUFFICES ASSUME NEW x PROVE Added(x, next) = Added(x, n) \cup (IF Matches(c, x) THEN Verbatim(c.guard) ELSE {})
    OBVIOUS
  <2>1. \A j \in DOMAIN global.constrains : j <= next <=> j <= n \/ j = next
    BY <1>4, <1>5
  <2> DEFINE J(k) == {j \in DOMAIN global.constrains : j <= k /\ Matches(Constrain(j), x)}
  <2>2. J(next) = J(n) \cup (IF Matches(c, x) THEN {next} ELSE {})
    BY <2>1, <1>4
  <2>3. \A k : Added(x, k) = UNION {Verbatim(Constrain(j).guard) : j \in J(k)}
    BY DEF Added
  <2> HIDE DEF J
  <2> QED BY <2>2, <2>3, <1>4
<1>8. \A x \in global.edges : ~ Matches(c, x)
  BY <1>3, InputSequences DEF Matches
<1>9. matched = {Restricted(x, n) : x \in {x \in Base : Matches(c, x)}}
  BY <1>b, <1>6, <1>8, RestrictedFields DEF RestrictedBy
<1>10. edges' = global.edges \cup RestrictedBy(next)
  <2>1. ASSUME NEW x \in Base, Matches(c, x)
        PROVE  Tightened(Restricted(x, n)) = Restricted(x, next)
    <3>1. Added(x, next) = Added(x, n) \cup Verbatim(c.guard)
      BY <1>7, <2>1
    <3>2. x.guard \cup Added(x, next) = (x.guard \cup Added(x, n)) \cup Verbatim(c.guard)
      BY <3>1
    <3> QED BY <3>2, <1>c DEF Restricted
  <2>2. ASSUME NEW x \in Base, ~ Matches(c, x)
        PROVE  Restricted(x, next) = Restricted(x, n)
    <3>1. x.guard \cup Added(x, next) = x.guard \cup Added(x, n)
      BY <1>7, <2>2
    <3> QED BY <3>1 DEF Restricted
  <2>3. {Tightened(y) : y \in matched}
          = {Restricted(x, next) : x \in {x \in Base : Matches(c, x)}}
    <3> QED BY <1>9, <2>1
  <2>4. edges \ matched = global.edges \cup {Restricted(x, n) : x \in {x \in Base : ~ Matches(c, x)}}
    BY <1>b, <1>6, <1>8, RestrictedFields DEF RestrictedBy
  <2>5. {Restricted(x, n) : x \in {x \in Base : ~ Matches(c, x)}}
          = {Restricted(x, next) : x \in {x \in Base : ~ Matches(c, x)}}
    <3> QED BY <2>2
  <2>6. RestrictedBy(next) = {Restricted(x, next) : x \in {x \in Base : Matches(c, x)}}
                               \cup {Restricted(x, next) : x \in {x \in Base : ~ Matches(c, x)}}
    BY DEF RestrictedBy
  <2> QED BY <1>a, <2>3, <2>4, <2>5, <2>6
<1>11. EdgesInv'
  <2>1. RestrictedBy(next' - 1) = RestrictedBy(next)
    <3>1. next' - 1 = next
      BY <1>0, <1>4
    <3> QED BY <3>1
  <2>2. \A m : RestrictedBy(m)' = RestrictedBy(m)
    BY <1>0, BaseStays
  <2>3. RestrictedBy(next - 1)' = RestrictedBy(next)
    BY <2>2, <1>0, <1>4
  <2>4. ASSUME NEW x \in edges' PROVE x.origin = << >> \/ x.src \in DOMAIN global.vars
    <3>1. CASE x \in global.edges
      BY <3>1, <1>3, InputSequences
    <3>2. ASSUME NEW b \in Base, x = Restricted(b, next) PROVE x.src \in DOMAIN global.vars
      <4>1. Restricted(b, n) \in edges
        BY <1>6 DEF RestrictedBy
      <4>2. b.origin # << >>
        BY <1>0, BaseEdges DEF IInv, Checked
      <4>3. Restricted(b, n).src \in DOMAIN global.vars
        BY <4>1, <4>2, RestrictedFields DEF IInv, EdgesInv
      <4> QED BY <3>2, <4>3, RestrictedFields
    <3> QED BY <2>4, <1>10, <3>1, <3>2 DEF RestrictedBy
  <2> QED BY <1>0, <1>10, <2>3, <2>4 DEF EdgesInv
<1>12. DiagsInv'
  <2>1. ASSUME NEW j \in DOMAIN global.constrains, j < next' PROVE HasError(diags') \/ Guards(Constrain(j))
    <3>1. CASE j < next
      BY <3>1, <1>0, <1>2, ErrorsStay DEF IInv, DiagsInv
    <3>2. CASE j = next
      <4>1. CASE matched = {}
        BY <4>1, <1>2
      <4>2. CASE matched # {}
        <5>1. PICK x \in Base : Matches(c, x)
          BY <4>2, <1>9
        <5> QED BY <5>1, <3>2, <1>4 DEF Guards
      <4> QED BY <4>1, <4>2
    <3> QED BY <2>1, <1>0, <1>4, <3>1, <3>2
  <2>2. \A j : Guards(Constrain(j))' = Guards(Constrain(j))
    BY <1>0, BaseStays
  <2> QED BY <1>0, <1>3, <2>1, <2>2 DEF DiagsInv, HasError
<1> QED BY <1>3, <1>11, <1>12 DEF IInv

(* Afterwards the last constraint, every edge has all of its constraints, or *)
(* the diagram is refused.                                                 *)
LEMMA EndsConstrain ==
  ASSUME IInv, EndConstrain
  PROVE  IInv'
<1>1. /\ UNCHANGED <<global, files, diags, loaded, plans, owned>>
      /\ phase = "constrain" /\ next > Len(global.constrains) /\ next' = 1
      /\ phase' = IF HasError(diags) THEN "refused" ELSE "expanded"
      /\ edges' = IF HasError(diags) THEN {} ELSE edges
  BY DEF EndConstrain, Goto
<1> USE <1>1
<1>2. InputOK' /\ ControlInv' /\ LoadInv' /\ CheckInv' /\ PlanInv' /\ InputOK /\ BlocksSound /\ WarnAboutLocals' \subseteq diags'
  BY PassesKeep DEF IInv, ControlInv, Planned, Checked
<1>3. /\ Len(global.constrains) \in Nat /\ DOMAIN global.constrains = 1 .. Len(global.constrains)
      /\ \A j \in DOMAIN global.constrains : j < next
  BY <1>2, InputSequences, Sequential DEF IInv, ControlInv
<1>4. RestrictedBy(next - 1) = RestrictedBy(Len(global.constrains))
  <2>1. \A j \in DOMAIN global.constrains : j <= next - 1 /\ j <= Len(global.constrains)
    BY <1>3 DEF IInv, ControlInv
  <2>2. \A x : Added(x, next - 1) = Added(x, Len(global.constrains))
    BY <2>1 DEF Added
  <2> QED BY <2>2 DEF RestrictedBy, Restricted
<1>5. EdgesInv'
  <2>1. RestrictedBy(Len(global.constrains))' = RestrictedBy(Len(global.constrains))
    BY BaseStays
  <2> QED BY <1>4, <2>1 DEF IInv, EdgesInv
<1>6. DiagsInv'
  <2>1. \A j : Guards(Constrain(j))' = Guards(Constrain(j))
    BY BaseStays
  <2> QED BY <1>2, <1>3, <2>1 DEF IInv, DiagsInv, HasError
<1> QED BY <1>2, <1>5, <1>6 DEF IInv

(* The tool prints the expansion or refuses it as it is.                   *)
LEMMA Refuses ==
  ASSUME IInv, Refusal
  PROVE  IInv'
<1>1. /\ UNCHANGED <<global, files, diags, loaded, plans, owned, edges>>
      /\ phase = "expanded" /\ phase' \in {"refused", "printed"} /\ next' = 1
  BY DEF Refusal, Goto
<1> USE <1>1
<1>2. InputOK' /\ ControlInv' /\ LoadInv' /\ CheckInv' /\ PlanInv' /\ InputOK /\ BlocksSound /\ WarnAboutLocals' \subseteq diags'
  BY PassesKeep DEF IInv, ControlInv, Planned, Checked
<1>3. EdgesInv'
  <2>1. RestrictedBy(Len(global.constrains))' = RestrictedBy(Len(global.constrains))
    BY BaseStays
  <2> QED BY <2>1 DEF IInv, EdgesInv
<1>4. DiagsInv'
  <2>1. \A j : Guards(Constrain(j))' = Guards(Constrain(j))
    BY BaseStays
  <2> QED BY <1>2, <2>1 DEF IInv, DiagsInv, HasError, Planned, Checked
<1> QED BY <1>2, <1>3, <1>4 DEF IInv

(* Every step of the expansion keeps the invariant.                        *)
LEMMA StepKeeps ==
  ASSUME IInv, [Next]_vars PROVE IInv'
<1>1. CASE UNCHANGED vars
  <2>1. UNCHANGED <<global, files, phase, next, diags, loaded, plans, owned, edges>>
    BY <1>1 DEF vars
  <2>2. InputOK' = InputOK /\ BlocksSound' = BlocksSound
    BY <2>1, InputStays
  <2>3. /\ AllLoaded' = AllLoaded /\ LocalsSound' = LocalsSound /\ LoadedByFirst' = LoadedByFirst
        /\ WarnAboutLocals' = WarnAboutLocals
        /\ \A s : SyncSound(s)' = SyncSound(s)
    BY <2>1, LoadedStays
  <2>4. PlanInv' = PlanInv
    <3>1. \A s : Plan(s)' = Plan(s) /\ Owned(s)' = Owned(s)
      BY <2>1, InputStays
    <3>2. \A j : Planning(j)' = Planning(j)
      BY <2>1, <2>3, <3>1 DEF Planning
    <3> QED BY <2>1, <2>3, <3>1, <3>2 DEF PlanInv, HasError
  <2>5. EdgesInv' = EdgesInv /\ DiagsInv' = DiagsInv
    <3>1. /\ AllAlone' = AllAlone
          /\ \A n : AloneBefore(n)' = AloneBefore(n) /\ MergedBefore(n)' = MergedBefore(n)
          /\ \A n : RestrictedBy(n)' = RestrictedBy(n)
          /\ \A j : Guards(Constrain(j))' = Guards(Constrain(j))
      BY <2>1, BaseStays
    <3> QED BY <2>1, <2>3, <3>1 DEF EdgesInv, DiagsInv, HasError
  <2> QED BY <2>1, <2>2, <2>3, <2>4, <2>5 DEF IInv, ControlInv, LoadInv, CheckInv, HasError
<1> QED BY <1>1, ChecksBlocks, Loads, ChecksLocals, PlansSync, Warns, Promotes, EndsPromote,
           Merges, EndsMerge, Constrains, EndsConstrain, Refuses DEF Next

-----------------------------------------------------------------------------
(* What is true while a text is read (GlobalReader): the lines and the     *)
(* lists have the shape that Expand is promised, and Expand has not begun. *)
TextsInv ==
  /\ IsText(source) /\ IsText(out)
  /\ stage # "extracting" \/ (source = << >> /\ out = << >>)
  /\ at \in Nat \ {0}
  /\ core = [states |-> core.states, edges |-> core.edges, start |-> core.start, end |-> core.end]
  /\ \A x \in core.edges : x.edge.origin = << >>

(* What the scanner has lifted.                                            *)
ListsInv ==
  /\ global = [vars |-> global.vars, edges |-> global.edges, promotes |-> global.promotes,
               syncs |-> global.syncs, constrains |-> global.constrains]
  /\ IsSequence(global.promotes) /\ IsSequence(global.syncs) /\ IsSequence(global.constrains)
  /\ \A sync \in ToSet(global.syncs) : IsSequence(sync.targets)
  /\ \A c \in ToSet(global.constrains) : IsSequence(c.params)
  /\ global.edges = {}
  /\ \A d \in diags : d.severity \in {"warning", "info"}

Unexpanded ==
  /\ files = LocalFiles /\ next = 1 /\ loaded = << >> /\ plans = << >> /\ owned = {} /\ edges = {}

ReaderInv ==
  /\ phase = "unread" => input \in Inputs /\ TextsInv /\ ListsInv /\ Unexpanded
  /\ phase # "unread" => IInv /\ stage = "read"

(* A step of Expand finds the diagrams read, and leaves the files alone.   *)
LEMMA Expanding ==
  ASSUME Next PROVE phase # "unread" /\ UNCHANGED files
<1>1. checkBlocks \/ loadLocals \/ checkLocals \/ PlanSync \/ warn => phase # "unread" /\ UNCHANGED files
  BY Zenon DEF checkBlocks, loadLocals, checkLocals, PlanSync, warn
<1>2. promote \/ EndPromote \/ mergeSyncs \/ EndMerge => phase # "unread" /\ UNCHANGED files
  BY DEF promote, EndPromote, mergeSyncs, EndMerge
<1>3. constrain \/ EndConstrain \/ Refusal => phase # "unread" /\ UNCHANGED files
  BY DEF constrain, EndConstrain, Refusal
<1> QED BY <1>1, <1>2, <1>3 DEF Next

(* An empty slice has no elements.                                         *)
LEMMA EmptyDomain == DOMAIN << >> = {}
<1>1. Len(<< >>) = 0 /\ 1 .. 0 = {}
  OBVIOUS
<1>2. << >> \in Seq({})
  OBVIOUS
<1>3. DOMAIN << >> = 1 .. Len(<< >>)
  BY <1>2, LenProperties
<1> QED BY <1>1, <1>3

LEMMA EmptyList == IsSequence(<< >>) /\ ToSet(<< >>) = {} /\ IsText(<< >>)
<1>1. << >> \in Seq({})
  OBVIOUS
<1>2. ToSet(<< >>) = {}
  BY EmptyDomain DEF ToSet
<1> QED BY <1>1, <1>2 DEF IsSequence, IsText

(* A reader has a text before it, and a caller a diagram.                  *)
LEMMA ReaderStarts ==
  ASSUME ReaderInit \/ CallerInit PROVE ReaderInv
<1>1. CASE ReaderInit
  <2>1. TextsInv /\ input \in Inputs
    <3>1. /\ input \in Inputs /\ source = << >> /\ out = << >> /\ at = 1
          /\ core = EmptyDiagram
      BY <1>1 DEF ReaderInit, TextInit
    <3>2. core.edges = {} /\ core = [states |-> core.states, edges |-> core.edges, start |-> core.start, end |-> core.end]
      BY <3>1 DEF EmptyDiagram
    <3>3. IsText(source) /\ IsText(out)
      BY <3>1, EmptyList
    <3> QED BY <3>1, <3>2, <3>3 DEF TextsInv
  <2>2. global = Nothing /\ diags = {}
    BY <1>1 DEF ReaderInit
  <2>3. ListsInv
    BY <2>2, EmptyList DEF Nothing, ListsInv
  <2>4. Unexpanded /\ phase = "unread"
    BY <1>1 DEF ReaderInit, Unexpanded
  <2> QED BY <2>1, <2>3, <2>4 DEF ReaderInv
<1>2. CASE CallerInit
  <2>1. IInv
    BY <1>2, Starts DEF CallerInit
  <2> QED BY <2>1, <1>2 DEF CallerInit, ReaderInv, Init
<1> QED BY <1>1, <1>2

(* A list that grows has its old elements and the new one.                 *)
LEMMA AppendedList ==
  ASSUME NEW list, IsSequence(list), NEW v
  PROVE  IsSequence(Append(list, v)) /\ ToSet(Append(list, v)) = ToSet(list) \cup {v}
<1>1. Len(list) \in Nat /\ DOMAIN list = 1 .. Len(list)
  BY Sequential
<1>2. list \in Seq(ToSet(list) \cup {v})
  BY DEF IsSequence
<1>3. /\ Append(list, v) \in Seq(ToSet(list) \cup {v}) /\ Len(Append(list, v)) = Len(list) + 1
      /\ \A k \in 1 .. Len(list) : Append(list, v)[k] = list[k]
      /\ Append(list, v)[Len(list) + 1] = v
  BY <1>2, <1>1
<1>4. DOMAIN Append(list, v) = 1 .. Len(list) + 1
  BY <1>3, LenProperties
<1>5. ToSet(Append(list, v)) = ToSet(list) \cup {v}
  BY <1>1, <1>3, <1>4 DEF ToSet
<1> QED BY <1>3, <1>5 DEF IsSequence

(* A text is of lines, and stays so when a line is added.                  *)
LEMMA TextOfLines ==
  ASSUME NEW text, IsText(text), NEW n \in DOMAIN text
  PROVE  IsLine(text[n]) /\ n \in Nat \ {0}
  BY Sequential DEF IsText

LEMMA AppendedText ==
  ASSUME NEW text, IsText(text), NEW l, IsLine(l)
  PROVE  IsText(Append(text, l))
  BY AppendedList DEF IsText

(* Whatever its elements are said to be, a sequence is one of its own.     *)
LEMMA SeqIsSequence ==
  ASSUME NEW X, NEW s \in Seq(X)
  PROVE  IsSequence(s) /\ ToSet(s) \subseteq X
<1>1. Len(s) \in Nat /\ DOMAIN s = 1 .. Len(s) /\ \A k \in 1 .. Len(s) : s[k] \in X
  BY LenProperties, ElementOfSeq
<1>2. \A k \in 1 .. Len(s) : s[k] \in ToSet(s)
  BY <1>1 DEF ToSet
<1>3. s = [k \in 1 .. Len(s) |-> s[k]]
  BY <1>1
<1>4. s \in Seq(ToSet(s))
  BY <1>1, <1>2, <1>3, IsASeq
<1> QED BY <1>4, <1>1 DEF IsSequence, ToSet

(* n empty lines are added.                                                *)
LEMMA BlankedText ==
  ASSUME NEW text, IsText(text), NEW n \in Nat
  PROVE  LET longer == text \o [k \in 1 .. n |-> Blank]
         IN  /\ IsText(longer) /\ Len(longer) = Len(text) + n
             /\ \A k \in 1 .. Len(text) : longer[k] = text[k]
             /\ \A k \in Len(text) + 1 .. Len(text) + n : longer[k] = Blank
<1> DEFINE empty  == [k \in 1 .. n |-> Blank]
           longer == text \o empty
           X      == ToSet(text) \cup {Blank}
<1>1. text \in Seq(X) /\ Len(text) \in Nat /\ DOMAIN text = 1 .. Len(text)
  BY Sequential DEF IsText, IsSequence
<1>2. empty \in Seq(X) /\ Len(empty) = n
  <2>1. \A k \in 1 .. n : Blank \in X
    OBVIOUS
  <2> QED BY <2>1, IsASeq, LenProperties
<1>3. /\ longer \in Seq(X) /\ Len(longer) = Len(text) + n
      /\ \A k \in 1 .. Len(text) + n : longer[k] = IF k <= Len(text) THEN text[k] ELSE empty[k - Len(text)]
  <2> HIDE DEF empty, X
  <2> QED BY <1>1, <1>2, ConcatProperties
<1>4. IsSequence(longer) /\ ToSet(longer) \subseteq X
  <2> HIDE DEF longer, X
  <2> QED BY <1>3, SeqIsSequence
<1>5. IsLine(Blank)
  BY DEF IsLine, Blank
<1>6. IsText(longer)
  BY <1>4, <1>5 DEF IsText
<1>7. \A k \in 1 .. Len(text) : longer[k] = text[k]
  BY <1>3, <1>1
<1>8. ASSUME NEW k \in Len(text) + 1 .. Len(text) + n PROVE longer[k] = Blank
  <2>1. k \in 1 .. Len(text) + n /\ ~ (k <= Len(text)) /\ k - Len(text) \in 1 .. n
    BY <1>1
  <2> QED BY <2>1, <1>3
<1> QED BY <1>3, <1>6, <1>7, <1>8

(* The lines that After and EndOfNote find.                                *)
LEMMA AfterFound ==
  ASSUME IsText(source), NEW n \in 1 .. Len(source) + 1, NEW kinds
  PROVE  /\ After(n, kinds) \in n .. Len(source) + 1
         /\ \A k \in n .. After(n, kinds) - 1 : source[k].kind \in kinds
         /\ After(n, kinds) <= Len(source) => source[After(n, kinds)].kind \notin kinds
<1>1. Len(source) \in Nat
  BY Sequential DEF IsText
<1> DEFINE T == {m \in n .. Len(source) + 1 : m <= Len(source) => source[m].kind \notin kinds}
<1>2. T \subseteq Nat /\ Len(source) + 1 \in T
  BY <1>1
<1>3. PICK m \in T : \A k \in T : m <= k
  <2> HIDE DEF T
  <2> QED BY <1>2, LeastNat
<1>4. \A k \in n .. m - 1 : source[k].kind \in kinds
  BY <1>1, <1>3
<1>5. m \in n .. Len(source) + 1 /\ (m <= Len(source) => source[m].kind \notin kinds)
  BY <1>3
<1> HIDE DEF T
<1>6. \E l \in n .. Len(source) + 1 : /\ \A k \in n .. l - 1 : source[k].kind \in kinds
                                      /\ l <= Len(source) => source[l].kind \notin kinds
  BY <1>4, <1>5
<1> QED BY <1>6 DEF After

(* A block with a body is one include between empty lines.                 *)
LEMMA LaidLines ==
  ASSUME IsText(source), NEW n \in DOMAIN source, Laid(n)
  PROVE  /\ BodyOf(n) \in n + 1 .. Len(source) /\ CloseOf(n) \in BodyOf(n) + 1 .. Len(source)
         /\ CloseOf(n) \in Nat /\ CloseOf(n) > n
         /\ IsKind(BodyOf(n), "include") /\ IsKind(CloseOf(n), "close")
         /\ \A k \in n + 1 .. CloseOf(n) - 1 : k = BodyOf(n) \/ source[k].kind = "blank"
<1>1. Len(source) \in Nat /\ DOMAIN source = 1 .. Len(source)
  BY Sequential DEF IsText
<1>2. /\ BodyOf(n) \in n + 1 .. Len(source) + 1
      /\ \A k \in n + 1 .. BodyOf(n) - 1 : source[k].kind \in {"blank"}
  BY <1>1, AfterFound DEF BodyOf
<1>3. BodyOf(n) \in DOMAIN source
  BY DEF Laid, IsKind
<1>4. /\ CloseOf(n) \in BodyOf(n) + 1 .. Len(source) + 1
      /\ \A k \in BodyOf(n) + 1 .. CloseOf(n) - 1 : source[k].kind \in {"blank"}
  BY <1>1, <1>3, AfterFound DEF CloseOf
<1>5. CloseOf(n) \in DOMAIN source
  BY DEF Laid, IsKind
<1>6. ASSUME NEW k \in n + 1 .. CloseOf(n) - 1 PROVE k = BodyOf(n) \/ source[k].kind = "blank"
  <2>1. k \in n + 1 .. BodyOf(n) - 1 \/ k = BodyOf(n) \/ k \in BodyOf(n) + 1 .. CloseOf(n) - 1
    BY <1>1, <1>2, <1>3, <1>4
  <2> QED BY <2>1, <1>2, <1>4
<1>7. CloseOf(n) \in Nat /\ CloseOf(n) > n
  BY <1>1, <1>2, <1>3, <1>4
<1> QED BY <1>1, <1>2, <1>3, <1>4, <1>5, <1>6, <1>7 DEF Laid

LEMMA EndOfNoteFound ==
  ASSUME IsText(source), NEW n \in DOMAIN source, Terminated(n)
  PROVE  /\ EndOfNote(n) \in n + 1 .. Len(source) /\ IsKind(EndOfNote(n), "endnote")
         /\ \A k \in n + 1 .. EndOfNote(n) - 1 : ~ IsKind(k, "endnote")
<1>1. Len(source) \in Nat /\ n \in Nat
  BY Sequential DEF IsText
<1> DEFINE T == {m \in n + 1 .. Len(source) : IsKind(m, "endnote")}
<1>2. T \subseteq Nat /\ T # {}
  BY <1>1 DEF Terminated
<1>3. PICK m \in T : \A k \in T : m <= k
  <2> HIDE DEF T
  <2> QED BY <1>2, LeastNat
<1>4. \A k \in n + 1 .. m - 1 : ~ IsKind(k, "endnote")
  BY <1>1, <1>3
<1>5. m \in n + 1 .. Len(source) /\ IsKind(m, "endnote")
  BY <1>3
<1> HIDE DEF T
<1>6. \E l \in n + 1 .. Len(source) : IsKind(l, "endnote") /\ \A k \in n + 1 .. l - 1 : ~ IsKind(k, "endnote")
  BY <1>4, <1>5
<1> QED BY <1>6 DEF EndOfNote

(* What is decoded is the text of the chunk, or not accepted.              *)
LEMMA Decoded ==
  ASSUME NEW c, IsText(c.text), c.coding \in {"plain", "deflated", "malformed"}, decode(c).ok
  PROVE  decode(c).text = c.text
<1> DEFINE bound == Min({Len(c.text), MaxDecompressedSize + 1})
           read  == SubSeq(c.text, 1, bound)
<1>1. Len(c.text) \in Nat /\ MaxDecompressedSize \in Nat
  BY Sequential, ReaderAssumption DEF IsText
<1>2. CASE c.coding = "deflated" /\ c.coding # "malformed"
  <2>1. decode(c) = InflateBounded(c.text)
    BY <1>2 DEF decode
  <2>2. InflateBounded(c.text) = [ok |-> Len(read) <= MaxDecompressedSize, text |-> read]
    BY DEF InflateBounded
  <2>9. Len(read) <= MaxDecompressedSize /\ decode(c).text = read
    <3> HIDE DEF read
    <3>1. decode(c).text = read
      BY <2>1, <2>2
    <3> DEFINE within == Len(read) <= MaxDecompressedSize
    <3>2. decode(c).ok = within
      <4>1. decode(c) = [ok |-> within, text |-> read]
        BY <2>1, <2>2, Zenon
      <4> HIDE DEF within
      <4> QED BY <4>1
    <3> QED BY <3>1, <3>2, Zenon
  <2>3. bound = IF Len(c.text) <= MaxDecompressedSize THEN Len(c.text) ELSE MaxDecompressedSize + 1
    <3> DEFINE S == {Len(c.text), MaxDecompressedSize + 1}
    <3>1. \E x \in S : \A y \in S : x <= y
      BY <1>1
    <3>2. Min(S) \in S /\ \A y \in S : Min(S) <= y
      BY <3>1 DEF Min
    <3> QED BY <3>2, <1>1
  <2> HIDE DEF bound
  <2>4. CASE Len(c.text) <= MaxDecompressedSize
    <3>1. read = SubSeq(c.text, 1, Len(c.text))
      BY <2>3, <2>4
    <3>2. SubSeq(c.text, 1, Len(c.text)) = c.text
      <4>1. c.text \in Seq(ToSet(c.text))
        BY DEF IsText, IsSequence
      <4>2. \A i \in 1 .. Len(c.text) : c.text[i] \in ToSet(c.text)
        BY <4>1, ElementOfSeq
      <4>3. /\ SubSeq(c.text, 1, Len(c.text)) \in Seq(ToSet(c.text))
            /\ Len(SubSeq(c.text, 1, Len(c.text))) = Len(c.text)
            /\ \A i \in 1 .. Len(c.text) : SubSeq(c.text, 1, Len(c.text))[i] = c.text[i]
        BY <4>2, <1>1, SubSeqProperties
      <4> QED BY <4>1, <4>3, SeqEqual
    <3> QED BY <3>1, <3>2, <2>9
  <2>5. CASE Len(c.text) > MaxDecompressedSize
    <3>1. read = SubSeq(c.text, 1, MaxDecompressedSize + 1)
      BY <2>3, <2>5, <1>1
    <3>2. Len(SubSeq(c.text, 1, MaxDecompressedSize + 1)) = MaxDecompressedSize + 1
      <4>1. c.text \in Seq(ToSet(c.text))
        BY DEF IsText, IsSequence
      <4>2. \A i \in 1 .. MaxDecompressedSize + 1 : c.text[i] \in ToSet(c.text)
        BY <4>1, <1>1, <2>5, ElementOfSeq
      <4> QED BY <4>2, <1>1, SubSeqProperties
    <3> HIDE DEF read
    <3> QED BY <3>1, <3>2, <2>9, <1>1
  <2> QED BY <2>4, <2>5, <1>1
<1>3. CASE c.coding = "plain"
  BY <1>3 DEF decode
<1>4. c.coding # "malformed"
  <2>1. c.coding = "malformed" => decode(c).ok = FALSE
    BY DEF decode
  <2> QED BY <2>1
<1> QED BY <1>2, <1>3, <1>4

(* The images and texts that are read.                                     *)
LEMMA Extraction ==
  ASSUME input \in Inputs, TextsInv, stage = "extracting", TextNext
  PROVE  TextsInv'
<1>1. IsInput(input)
  BY ReaderAssumption
<1>2. UNCHANGED core
  BY DEF TextNext, ExtractText, ExtractChunk, NoChunk, Extracted, Unreadable, ParseOpening, skipTrivia, skipIgnoreRegion,
     parseState, parseStateVar, parseStartEdge, parseEdge, parseEndEdge, ParseClosing, ParseFails, Parsing, Unexpected, Unterminated
<1>3. ASSUME NEW text, IsText(text), Extracted(text) PROVE TextsInv'
  <2>1. source' = text /\ at' = 1 /\ UNCHANGED core /\ IsText(out')
    BY <1>3, EmptyList DEF Extracted
  <2>2. IsText(source')
    BY <1>3, <2>1
  <2>3. stage' # "extracting"
    BY <1>3 DEF Extracted
  <2> QED BY <2>1, <2>2, <2>3 DEF TextsInv
<1>4. CASE ExtractText
  BY <1>1, <1>3, <1>4 DEF ExtractText, IsInput
<1>5. CASE ExtractChunk
  <2> DEFINE c == input.chunks[at]
  <2>1. IsSequence(input.chunks) /\ at \in DOMAIN input.chunks
    BY <1>1, <1>5, Sequential DEF IsInput, ExtractChunk, TextsInv
  <2>2. IsText(c.text)
    BY <1>1, <1>5, <2>1, Sequential DEF IsInput, ExtractChunk
  <2>3. CASE Unreadable
    BY <2>3 DEF Unreadable, TextsInv
  <2>4. CASE c.typ \in TextTypes /\ decode(c).ok /\ Extracted(decode(c).text)
    <3>1. c.coding \in {"plain", "deflated", "malformed"}
      BY <1>1, <1>5, <2>1, Sequential DEF IsInput, ExtractChunk
    <3> HIDE DEF c
    <3>2. decode(c).text = c.text
      BY <2>2, <2>4, <3>1, Decoded
    <3> QED BY <3>2, <2>2, <2>4, <1>3
  <2>5. CASE at' = at + 1 /\ UNCHANGED <<input, stage, source, core, out, declaring, ignoring, hinted>>
    BY <2>5 DEF TextsInv
  <2> QED BY <2>3, <2>4, <2>5, <1>5 DEF ExtractChunk
<1>6. CASE NoChunk
  BY <1>6 DEF NoChunk, Unreadable, TextsInv
<1> QED BY <1>4, <1>5, <1>6 DEF TextNext, ParseOpening, skipTrivia, skipIgnoreRegion,
     parseState, parseStateVar, parseStartEdge, parseEdge, parseEndEdge, ParseClosing, ParseFails, Parsing, Unexpected, Unterminated

(* The parser changes one field of the core diagram at a time.             *)
LEMMA CoreShape ==
  ASSUME NEW c, c = [states |-> c.states, edges |-> c.edges, start |-> c.start, end |-> c.end], NEW v,
         NEW d \in {[c EXCEPT !.states = v], [c EXCEPT !.edges = v], [c EXCEPT !.start = v], [c EXCEPT !.end = v]}
  PROVE  /\ d = [states |-> d.states, edges |-> d.edges, start |-> d.start, end |-> d.end]
         /\ d.edges \in {c.edges, v}
         /\ d # [c EXCEPT !.edges = v] => d.edges = c.edges
<1>1. CASE d = [c EXCEPT !.states = v]
  <2>1. d = [states |-> v, edges |-> c.edges, start |-> c.start, end |-> c.end]
    BY <1>1
  <2> QED BY <2>1
<1>2. CASE d = [c EXCEPT !.edges = v]
  <2>1. d = [states |-> c.states, edges |-> v, start |-> c.start, end |-> c.end]
    BY <1>2
  <2> QED BY <2>1, <1>2
<1>3. CASE d = [c EXCEPT !.start = v]
  <2>1. d = [states |-> c.states, edges |-> c.edges, start |-> v, end |-> c.end]
    BY <1>3
  <2> QED BY <2>1
<1>4. CASE d = [c EXCEPT !.end = v]
  <2>1. d = [states |-> c.states, edges |-> c.edges, start |-> c.start, end |-> v]
    BY <1>4
  <2> QED BY <2>1
<1> QED BY <1>1, <1>2, <1>3, <1>4

(* A step of the parser keeps what is true of the text and the diagram.    *)
LEMMA ParsingKeeps ==
  ASSUME TextsInv, stage # "extracting", TextNext PROVE TextsInv'
<1> DEFINE shape(c) == c = [states |-> c.states, edges |-> c.edges, start |-> c.start, end |-> c.end]
           plain(c) == \A x \in c.edges : x.edge.origin = << >>
<1>1. shape(core) /\ plain(core)
  BY DEF TextsInv
<1>2. /\ UNCHANGED <<source, out>> /\ stage' # "extracting" /\ at' \in {at, at + 1}
  BY DEF TextNext, ExtractText, ExtractChunk, NoChunk, ParseOpening, skipTrivia, skipIgnoreRegion,
     parseState, parseStateVar, parseStartEdge, parseEdge, parseEndEdge, ParseClosing, ParseFails, Parsed, ParseError
<1>3. shape(core') /\ plain(core')
  <2>1. CASE \/ ParseOpening \/ skipTrivia \/ skipIgnoreRegion \/ ParseClosing \/ ParseFails
    <3>1. core' = core
      BY <2>1 DEF ParseOpening, skipTrivia, skipIgnoreRegion, ParseClosing, ParseFails, ParseError
    <3> QED BY <3>1, <1>1
  <2>2. CASE \E v : core' \in {[core EXCEPT !.states = v], [core EXCEPT !.start = v], [core EXCEPT !.end = v]}
    <3>1. PICK v : core' \in {[core EXCEPT !.states = v], [core EXCEPT !.start = v], [core EXCEPT !.end = v]}
      BY <2>2
    <3>2. shape(core')
      BY <3>1, <1>1, CoreShape
    <3>3. core'.edges = core.edges
      BY <3>1, <1>1
    <3> HIDE DEF shape
    <3> QED BY <3>2, <3>3, <1>1
  <2>3. CASE parseState
    <3> DEFINE v == [id \in DOMAIN core.states \cup {out[at].id} |->
                       IF id = out[at].id THEN [line |-> at, vars |-> << >>] ELSE core.states[id]]
    <3>1. core' = [core EXCEPT !.states = v]
      BY <2>3 DEF parseState
    <3> HIDE DEF v
    <3> QED BY <3>1, <2>2
  <2>4. CASE parseStateVar
    <3>1. \E v : core' = [core EXCEPT !.states = v]
      BY <2>4, <1>1 DEF parseStateVar
    <3> QED BY <3>1, <2>2
  <2>5. CASE parseStartEdge
    BY <2>5, <2>2 DEF parseStartEdge
  <2>6. CASE parseEndEdge
    BY <2>6, <2>2 DEF parseEndEdge
  <2>7. CASE parseEdge
    <3> DEFINE v == core.edges \cup {[line |-> at, edge |-> out[at].edge]}
    <3>1. core' = [core EXCEPT !.edges = v]
      BY <2>7, <1>1 DEF parseEdge
    <3>2. out[at].edge.origin = << >>
      <4>3. Len(out) \in Nat
        BY Sequential DEF TextsInv, IsText
      <4>4. at \in 2 .. Len(out) /\ out[at].kind = "edge"
        BY <2>7 DEF parseEdge, Parsing
      <4>1. at \in 1 .. Len(out) /\ out[at].kind = "edge"
        BY <4>3, <4>4
      <4>2. at \in DOMAIN out
        BY <4>1, Sequential DEF TextsInv, IsText
      <4> QED BY <4>1, <4>2, TextOfLines DEF TextsInv, IsLine
    <3>3. \A x \in v : x.edge.origin = << >>
      BY <3>2, <1>1
    <3> HIDE DEF v
    <3>4. shape(core')
      BY <3>1, <1>1, CoreShape
    <3>5. core'.edges = v
      BY <3>1, <1>1
    <3> HIDE DEF shape
    <3> QED BY <3>3, <3>4, <3>5
  <2> QED BY <2>1, <2>3, <2>4, <2>5, <2>6, <2>7 DEF TextNext, ExtractText, ExtractChunk, NoChunk
<1> QED BY <1>2, <1>3 DEF TextsInv

(* The scanner adds a directive to one of the lists.                       *)
LEMMA ListGrown ==
  ASSUME ListsInv, \A d \in diags' : d.severity \in {"warning", "info"} \/ d \in diags,
         \/ \E b : global' = [global EXCEPT !.promotes = Append(@, b)]
         \/ \E s : IsSequence(s.targets) /\ global' = [global EXCEPT !.syncs = Append(@, s)]
         \/ \E c : IsSequence(c.params) /\ global' = [global EXCEPT !.constrains = Append(@, c)]
  PROVE  ListsInv'
<1> DEFINE shape(g) == g = [vars |-> g.vars, edges |-> g.edges, promotes |-> g.promotes,
                            syncs |-> g.syncs, constrains |-> g.constrains]
<1>1. \A d \in diags' : d.severity \in {"warning", "info"}
  BY DEF ListsInv
<1>2. shape(global) /\ IsSequence(global.promotes) /\ IsSequence(global.syncs) /\ IsSequence(global.constrains)
  BY DEF ListsInv
<1>3. CASE \E b : global' = [global EXCEPT !.promotes = Append(@, b)]
  <2>1. PICK b : global' = [global EXCEPT !.promotes = Append(@, b)]
    BY <1>3
  <2>2. global' = [vars |-> global.vars, edges |-> global.edges, promotes |-> Append(global.promotes, b),
                   syncs |-> global.syncs, constrains |-> global.constrains]
    BY <2>1, <1>2
  <2>3. /\ shape(global') /\ global'.promotes = Append(global.promotes, b) /\ global'.syncs = global.syncs
        /\ global'.constrains = global.constrains /\ global'.edges = global.edges
    BY <2>2
  <2>4. IsSequence(global'.promotes)
    BY <2>3, <1>2, AppendedList
  <2> QED BY <2>3, <2>4, <1>1 DEF ListsInv
<1>4. CASE \E s : IsSequence(s.targets) /\ global' = [global EXCEPT !.syncs = Append(@, s)]
  <2>1. PICK s : IsSequence(s.targets) /\ global' = [global EXCEPT !.syncs = Append(@, s)]
    BY <1>4
  <2>2. global' = [vars |-> global.vars, edges |-> global.edges, promotes |-> global.promotes,
                   syncs |-> Append(global.syncs, s), constrains |-> global.constrains]
    BY <2>1, <1>2
  <2>3. /\ shape(global') /\ global'.promotes = global.promotes /\ global'.syncs = Append(global.syncs, s)
        /\ global'.constrains = global.constrains /\ global'.edges = global.edges
    BY <2>2
  <2>4. IsSequence(global'.syncs) /\ ToSet(global'.syncs) = ToSet(global.syncs) \cup {s}
    BY <2>3, <1>2, AppendedList
  <2>5. \A sync \in ToSet(global'.syncs) : IsSequence(sync.targets)
    BY <2>1, <2>4 DEF ListsInv
  <2> QED BY <2>3, <2>4, <2>5, <1>1 DEF ListsInv
<1>5. CASE \E c : IsSequence(c.params) /\ global' = [global EXCEPT !.constrains = Append(@, c)]
  <2>1. PICK c : IsSequence(c.params) /\ global' = [global EXCEPT !.constrains = Append(@, c)]
    BY <1>5
  <2>2. global' = [vars |-> global.vars, edges |-> global.edges, promotes |-> global.promotes,
                   syncs |-> global.syncs, constrains |-> Append(global.constrains, c)]
    BY <2>1, <1>2
  <2>3. /\ shape(global') /\ global'.promotes = global.promotes /\ global'.syncs = global.syncs
        /\ global'.constrains = Append(global.constrains, c) /\ global'.edges = global.edges
    BY <2>2
  <2>4. IsSequence(global'.constrains) /\ ToSet(global'.constrains) = ToSet(global.constrains) \cup {c}
    BY <2>3, <1>2, AppendedList
  <2>5. \A d \in ToSet(global'.constrains) : IsSequence(d.params)
    BY <2>1, <2>4 DEF ListsInv
  <2> QED BY <2>3, <2>4, <2>5, <1>1 DEF ListsInv
<1> QED BY <1>3, <1>4, <1>5

(* What the scanner lifts and leaves is in shape.                          *)
LEMMA ScanKeeps ==
  ASSUME TextsInv, ListsInv, scan PROVE TextsInv' /\ ListsInv'
<1>1. stage = "scanning" /\ Len(source) \in Nat /\ DOMAIN source = 1 .. Len(source)
  BY Sequential DEF TextsInv, IsText, scan, readPromote, readComposite, CloseComposite, readPreprocessor,
     readNote, CopyLine, EndScan, Scanning
<1>2. ASSUME NEW n \in Nat, at \in DOMAIN source, blank(n), ScannedTo(at + n) PROVE TextsInv'
  <2>1. IsText(out') /\ at + n \in Nat \ {0}
    BY <1>2, BlankedText DEF TextsInv, blank
  <2> QED BY <2>1, <1>1, <1>2 DEF TextsInv, ScannedTo
<1>3. ASSUME Fail PROVE TextsInv' /\ ListsInv'
  BY <1>3 DEF Fail, Unreadable, scanVars, TextsInv, ListsInv
<1>4. CASE readPromote
  <2>1. CASE ~ source[at].titled \/ (source[at].body /\ ~ Laid(at))
    BY <2>1, <1>3, <1>4 DEF readPromote
  <2>2. CASE ~ (~ source[at].titled \/ (source[at].body /\ ~ Laid(at)))
    <3> DEFINE end == IF source[at].body THEN CloseOf(at) ELSE at
    <3>1. /\ global' = [global EXCEPT !.promotes = Append(@, BlockAt(at, parent))]
          /\ blank(end - at + 1) /\ ScannedTo(end + 1)
          /\ UNCHANGED <<diags, parent>>
      BY <1>4, <2>2 DEF readPromote
    <3>2. at \in DOMAIN source
      BY <1>4 DEF readPromote, Scanning
    <3>3. end \in Nat /\ end >= at
      <4>1. Laid(at) => CloseOf(at) \in Nat /\ CloseOf(at) > at
        BY <3>2, LaidLines DEF TextsInv
      <4> QED BY <2>2, <3>2, <4>1, <1>1
    <3> HIDE DEF end
    <3>4. end - at + 1 \in Nat /\ end + 1 = at + (end - at + 1)
      BY <3>3, <3>2, <1>1
    <3>5. TextsInv'
      BY <3>1, <3>2, <3>4, <1>2
    <3>6. ListsInv'
      BY <3>1, ListGrown
    <3> QED BY <3>5, <3>6
  <2> QED BY <2>1, <2>2
<1>5. CASE readComposite
  <2>1. CASE Fail
    BY <2>1, <1>3
  <2>2. CASE ~ Fail
    <3>1. /\ out' = Append(out, Flattened(source[at])) /\ ScannedTo(at + 1)
          /\ UNCHANGED <<global, diags>> /\ at \in DOMAIN source /\ source[at].kind = "composite"
      BY <1>5, <2>2 DEF readComposite, Scanning
    <3>2. IsLine(Flattened(source[at]))
      BY <3>1, TextOfLines DEF TextsInv, IsLine, Flattened
    <3>3. IsText(out') /\ at + 1 \in Nat \ {0}
      BY <3>1, <3>2, AppendedText DEF TextsInv
    <3>4. TextsInv'
      BY <3>1, <3>3, <1>1 DEF TextsInv, ScannedTo
    <3> QED BY <3>1, <3>4 DEF ListsInv
  <2> QED BY <2>1, <2>2
<1>6. CASE CloseComposite
  <2>1. blank(1) /\ ScannedTo(at + 1) /\ at \in DOMAIN source /\ UNCHANGED <<global, diags>>
    BY <1>6 DEF CloseComposite, Scanning
  <2> QED BY <2>1, <1>2 DEF ListsInv
<1>7. CASE readPreprocessor
  <2>1. blank(1) /\ ScannedTo(at + 1) /\ at \in DOMAIN source /\ UNCHANGED <<global>>
    BY <1>7 DEF readPreprocessor, Scanning
  <2>2. diags' \subseteq diags \cup {Info("dropped", at)}
    BY <1>7 DEF readPreprocessor
  <2>3. \A d \in diags' : d.severity \in {"warning", "info"}
    BY <2>2 DEF Info, ListsInv
  <2> QED BY <2>1, <2>3, <1>2 DEF ListsInv
<1>8. CASE readNote
  <2>1. CASE Fail
    BY <2>1, <1>3
  <2>2. CASE ~ Fail
    <3> DEFINE first == After(at + 1, {"blank"})
    <3>1. /\ readDirective(first, source[at].anchor)
          /\ blank(EndOfNote(at) - at + 1) /\ ScannedTo(EndOfNote(at) + 1)
          /\ at \in DOMAIN source /\ Terminated(at) /\ ~ BadNote(at)
      BY <1>8, <2>2 DEF readNote, Scanning
    <3>2. EndOfNote(at) \in at + 1 .. Len(source)
      BY <3>1, EndOfNoteFound DEF TextsInv
    <3>3. EndOfNote(at) - at + 1 \in Nat /\ EndOfNote(at) + 1 = at + (EndOfNote(at) - at + 1)
      BY <3>1, <3>2, <1>1
    <3>4. TextsInv'
      BY <3>1, <3>3, <1>2
    <3> HIDE DEF first
    <3>5. diags' \subseteq diags \cup {Warning("misspelt", first)}
      BY <3>1 DEF readDirective
    <3>6. \A d \in diags' : d.severity \in {"warning", "info"}
      BY <3>5 DEF Warning, ListsInv
    <3>7. CASE IsKind(first, "sync")
      <4>1. global' = [global EXCEPT !.syncs = Append(@, SyncAt(first, source[at].anchor))]
        BY <3>1, <3>7 DEF readDirective, IsKind
      <4>2. IsSequence(SyncAt(first, source[at].anchor).targets)
        <5>1. source[first].wellFormed /\ first \in DOMAIN source /\ source[first].kind = "sync"
          BY <3>1, <3>7 DEF BadNote, Directives, IsKind, first
        <5> QED BY <5>1, TextOfLines DEF TextsInv, IsLine, SyncAt
      <4> QED BY <3>4, <3>6, <4>1, <4>2, ListGrown
    <3>8. CASE IsKind(first, "constrain")
      <4>1. global' = [global EXCEPT !.constrains = Append(@, ConstrainAt(first, source[at].anchor))]
        BY <3>1, <3>8 DEF readDirective, IsKind
      <4>2. IsSequence(ConstrainAt(first, source[at].anchor).params)
        <5>1. source[first].wellFormed /\ first \in DOMAIN source /\ source[first].kind = "constrain"
          BY <3>1, <3>8 DEF BadNote, Directives, IsKind, first
        <5> QED BY <5>1, TextOfLines DEF TextsInv, IsLine, ConstrainAt
      <4> QED BY <3>4, <3>6, <4>1, <4>2, ListGrown
    <3>9. CASE ~ IsKind(first, "sync") /\ ~ IsKind(first, "constrain")
      <4>1. global' = global
        BY <3>1, <3>9 DEF readDirective
      <4> QED BY <3>4, <3>6, <4>1 DEF ListsInv
    <3> QED BY <3>7, <3>8, <3>9
  <2> QED BY <2>1, <2>2
<1>9. CASE CopyLine
  <2>1. /\ out' = Append(out, source[at]) /\ ScannedTo(at + 1) /\ UNCHANGED scanVars /\ at \in DOMAIN source
    BY <1>9 DEF CopyLine
  <2>2. IsText(out') /\ at + 1 \in Nat \ {0}
    BY <2>1, TextOfLines, AppendedText DEF TextsInv
  <2> QED BY <2>1, <2>2, <1>1 DEF TextsInv, ListsInv, ScannedTo, scanVars
<1>10. CASE EndScan
  <2>1. CASE Fail
    BY <2>1, <1>3
  <2>2. CASE ~ Fail
    <3>1. stage' = "parsing" /\ at' = 1 /\ UNCHANGED <<source, out, core, global, diags>>
      BY <1>10, <2>2 DEF EndScan, scanVars
    <3> QED BY <3>1 DEF TextsInv, ListsInv
  <2> QED BY <2>1, <2>2
<1> QED BY <1>4, <1>5, <1>6, <1>7, <1>8, <1>9, <1>10 DEF scan

(* ParseGlobal hands Expand a source, and Expand begins.                   *)
LEMMA HandsOver ==
  ASSUME ReaderInv, ParseGlobal PROVE IInv' /\ stage' = "read"
<1> DEFINE vs == [s \in DOMAIN core.states |-> TypesOf(core.states[s].vars)]
           es == {x.edge : x \in core.edges}
<1>1. /\ phase = "unread" /\ stage = "read" /\ stage' = "read" /\ phase' = "blocks"
      /\ global' = [global EXCEPT !.vars = vs, !.edges = es]
      /\ UNCHANGED <<files, next, diags, loaded, plans, owned, edges>>
  BY DEF ParseGlobal, textVars
<1>2. TextsInv /\ ListsInv /\ Unexpanded
  BY <1>1 DEF ReaderInv
<1>3. InputOK'
  <2>1. \A x \in es : x.origin = << >>
    BY <1>2 DEF TextsInv
  <2> HIDE DEF vs, es
  <2>2. global' = [vars |-> vs, edges |-> es, promotes |-> global.promotes,
                   syncs |-> global.syncs, constrains |-> global.constrains]
    BY <1>1, <1>2 DEF ListsInv
  <2>3. \A path \in DOMAIN LocalFiles : \A e \in LocalFiles[path].edges : IsSequence(e.args)
    <3> DEFINE s == [global |-> [promotes |-> << >>, syncs |-> << >>, constrains |-> << >>, edges |-> {}],
                     files |-> LocalFiles]
    <3>1. IsSource(s) /\ s.files = LocalFiles
      BY ReaderAssumption
    <3> HIDE DEF s
    <3> QED BY <3>1 DEF IsSource
  <2> DEFINE t == [global |-> global', files |-> files']
  <2>4. t.global = global' /\ t.files = LocalFiles
    BY <1>1, <1>2 DEF Unexpanded
  <2>5. /\ IsSequence(global'.promotes) /\ IsSequence(global'.syncs) /\ IsSequence(global'.constrains)
        /\ \A sync \in ToSet(global'.syncs) : IsSequence(sync.targets)
        /\ \A c \in ToSet(global'.constrains) : IsSequence(c.params)
        /\ \A x \in global'.edges : x.origin = << >>
    BY <2>1, <2>2, <1>2 DEF ListsInv
  <2>6. IsSource(t)
    <3> HIDE DEF t
    <3> QED BY <2>3, <2>4, <2>5 DEF IsSource
  <2> QED BY <2>6 DEF InputOK
<1>4. /\ phase' = "blocks" /\ next' = 1 /\ loaded' = << >> /\ plans' = << >> /\ owned' = {} /\ edges' = {}
      /\ \A d \in diags' : d.severity \in {"error", "warning", "info"}
  BY <1>1, <1>2 DEF Unexpanded, ListsInv
<1>5. ControlInv' /\ LoadInv' /\ CheckInv'
  BY <1>4 DEF ControlInv, LoadInv, CheckInv, Checked
<1>6. PlanInv'
  <2>1. ToSet(plans') = {}
    BY <1>4, EmptyList
  <2>2. plans' \in Seq({Plan(t) : t \in ToSet(global.syncs)}')
    BY <1>4
  <2>3. owned' = UNION {Owned(q.sync)' : q \in ToSet(plans')}
    BY <1>4, <2>1
  <2> QED BY <1>4, <2>1, <2>2, <2>3 DEF PlanInv, Checked, Planned
<1>7. EdgesInv' /\ DiagsInv'
  BY <1>4 DEF EdgesInv, DiagsInv, Planned, Checked
<1> QED BY <1>1, <1>3, <1>5, <1>6, <1>7 DEF IInv

(* The invariant of reading and expanding is inductive.                    *)
LEMMA ReaderStepKeeps ==
  ASSUME ReaderInv, [ReaderNext]_readerVars PROVE ReaderInv'
<1>1. CASE UNCHANGED readerVars
  <2>1. UNCHANGED <<vars, textVars>>
    BY <1>1 DEF readerVars
  <2>2. CASE phase = "unread"
    BY <2>1, <2>2 DEF vars, textVars, ReaderInv, TextsInv, ListsInv, Unexpanded
  <2>3. CASE phase # "unread"
    <3>1. IInv'
      BY <2>1, <2>3, StepKeeps DEF ReaderInv
    <3> QED BY <3>1, <2>1, <2>3 DEF vars, textVars, ReaderInv
  <2> QED BY <2>2, <2>3
<1>2. CASE TextNext /\ UNCHANGED <<vars, parent>>
  <2>1. stage # "read" /\ input' = input
    BY <1>2 DEF TextNext, ExtractText, ExtractChunk, NoChunk, Extracted, Unreadable, ParseOpening, skipTrivia,
       skipIgnoreRegion, parseState, parseStateVar, parseStartEdge, parseEdge, parseEndEdge, ParseClosing,
       ParseFails, Parsing, Parsed, ParseError, Unexpected, Unterminated
  <2>2. phase = "unread" /\ phase' = "unread" /\ TextsInv /\ ListsInv /\ Unexpanded /\ input \in Inputs
    BY <1>2, <2>1 DEF ReaderInv, vars
  <2>3. TextsInv'
    BY <2>2, <1>2, Extraction, ParsingKeeps
  <2>4. ListsInv' /\ Unexpanded'
    BY <2>2, <1>2 DEF ListsInv, Unexpanded, vars
  <2> QED BY <2>1, <2>2, <2>3, <2>4 DEF ReaderInv
<1>3. CASE scan /\ UNCHANGED expandVars
  <2>1. stage # "read" /\ input' = input
    BY <1>3 DEF scan, readPromote, readComposite, CloseComposite, readPreprocessor, readNote, CopyLine,
       EndScan, Scanning, ScannedTo, Fail, Unreadable
  <2>2. phase = "unread" /\ phase' = "unread" /\ TextsInv /\ ListsInv /\ Unexpanded /\ input \in Inputs
    BY <1>3, <2>1 DEF ReaderInv, expandVars
  <2>3. TextsInv' /\ ListsInv'
    BY <2>2, <1>3, ScanKeeps
  <2>4. Unexpanded'
    BY <2>2, <1>3 DEF Unexpanded, expandVars
  <2> QED BY <2>1, <2>2, <2>3, <2>4 DEF ReaderInv
<1>4. CASE ParseGlobal
  <2>1. IInv' /\ stage' = "read" /\ phase' = "blocks"
    BY <1>4, HandsOver DEF ParseGlobal
  <2> QED BY <2>1 DEF ReaderInv
<1>5. CASE Next /\ UNCHANGED <<textVars, parent>>
  <2>1. phase # "unread"
    BY <1>5, Expanding
  <2>2. IInv' /\ stage' = "read"
    BY <1>5, <2>1, StepKeeps DEF ReaderInv, textVars
  <2>3. phase' # "unread"
    BY <2>2 DEF IInv, ControlInv, Checked
  <2> QED BY <2>2, <2>3 DEF ReaderInv
<1> QED BY <1>1, <1>2, <1>3, <1>4, <1>5 DEF ReaderNext

(* So it holds in every state of every run.                                *)
LEMMA ReaderInductive == ReaderSpec => []ReaderInv
<1>1. ReaderInit \/ CallerInit => ReaderInv
  BY ReaderStarts
<1>2. ReaderInv /\ [ReaderNext]_readerVars => ReaderInv'
  BY ReaderStepKeeps
<1> QED BY <1>1, <1>2, PTL DEF ReaderSpec

-----------------------------------------------------------------------------
(* The invariant implies the type invariant.                               *)
LEMMA TypeFollows ==
  ASSUME IInv PROVE TypeOK
<1>1. \A m \in DOMAIN loaded : Includes(loaded[m]) /\ Block(loaded[m]).map = m
  <2>1. CASE loaded = << >>
    BY <2>1
  <2>2. CASE LoadedByFirst
    BY <2>2, LoadedFrom DEF IInv, Readable
  <2> QED BY <2>1, <2>2 DEF IInv, LoadInv
<1>2. ASSUME NEW k \in DOMAIN plans, NEW g \in plans[k].states, NEW m \in Maps(plans[k].sync)
      PROVE  MovesIn(global, m, g) /\ <<g, m, plans[k].sync.event>> \in owned
  <2>1. k \in 1 .. Len(plans)
    BY LenProperties DEF IInv, PlanInv
  <2>2. PICK s : plans[k] = Plan(s)
    BY <2>1, ElementOfSeq DEF IInv, PlanInv
  <2>3. g \in CommonStates(s) /\ m \in Maps(s) /\ plans[k].sync = s
    BY <2>2 DEF Plan
  <2>4. PICK i \in Blocks : Block(i).map = m /\ Block(i).in = g
    BY <2>3 DEF CommonStates, statesOf
  <2>5. MovesIn(global, m, g)
    BY <2>4 DEF Blocks, Block, ToSet, MovesIn
  <2>6. plans[k] \in ToSet(plans)
    BY DEF ToSet
  <2>7. <<g, m, s.event>> \in Owned(s)
    BY <2>3 DEF Owned
  <2> QED BY <2>3, <2>5, <2>6, <2>7 DEF IInv, PlanInv
<1>3. \A x \in Generated : x.src \in DOMAIN global.vars
  BY DEF IInv, EdgesInv, Generated
<1> QED BY <1>1, <1>2, <1>3 DEF IInv, ControlInv, Checked, TypeOK

(* Whatever diagrams are promoted, every variable of the expansion stays   *)
(* in its domain, and a plan has only states in which each of its maps has *)
(* a block and owns the event: planSyncs does not index what is not there. *)
THEOREM TypeCorrect == ReaderSpec => []TypeOK
<1>1. ReaderInv => TypeOK
  <2>1. ASSUME ReaderInv, phase = "unread" PROVE TypeOK
    <3>1. /\ next = 1 /\ loaded = << >> /\ plans = << >> /\ edges = {}
          /\ \A d \in diags : d.severity \in {"error", "warning", "info"}
      BY <2>1 DEF ReaderInv, ListsInv, Unexpanded
    <3> QED BY <2>1, <3>1, EmptyDomain DEF TypeOK, Generated
  <2> QED BY <2>1, TypeFollows DEF ReaderInv
<1> QED BY <1>1, ReaderInductive, PTL

-----------------------------------------------------------------------------
(* The edges that are generated when the expansion is done.                *)
LEMMA ExpandedEdges ==
  ASSUME IInv, phase = "expanded"
  PROVE  /\ Generated = RestrictedBy(Len(global.constrains))
         /\ edges \ Generated = global.edges
         /\ \A x \in Base : Restricted(x, Len(global.constrains)) \in Generated
<1>1. edges = global.edges \cup RestrictedBy(Len(global.constrains))
  BY DEF IInv, EdgesInv
<1>2. \A x \in global.edges : x.origin = << >>
  BY InputSequences DEF IInv
<1>3. \A x \in RestrictedBy(Len(global.constrains)) : x.origin # << >>
  BY BaseEdges, RestrictedFields DEF RestrictedBy, IInv, Checked
<1> QED BY <1>1, <1>2, <1>3 DEF Generated, RestrictedBy

(* Which events of a map the syncs take over in a state.                   *)
LEMMA OwnedBySyncs ==
  ASSUME IInv, phase \in Planned
  PROVE  /\ \A s \in ToSet(global.syncs) : SyncSound(s) /\ Plan(s) \in ToSet(plans)
         /\ \A p \in ToSet(plans) : \E s \in ToSet(global.syncs) : p = Plan(s)
         /\ \A g, m, event : <<g, m, event>> \in owned <=>
              \E s \in ToSet(global.syncs) : s.event = event /\ m \in Maps(s) /\ g \in CommonStates(s)
<1>1. ASSUME NEW s \in ToSet(global.syncs) PROVE SyncSound(s) /\ Plan(s) \in ToSet(plans)
  <2>1. PICK j \in DOMAIN global.syncs : s = global.syncs[j]
    BY DEF ToSet
  <2> QED BY <2>1 DEF IInv, PlanInv, Planning
<1>2. ASSUME NEW p \in ToSet(plans) PROVE \E s \in ToSet(global.syncs) : p = Plan(s)
  <2>1. PICK k \in 1 .. Len(plans) : p = plans[k]
    BY LenProperties DEF IInv, PlanInv, ToSet
  <2> QED BY <2>1, ElementOfSeq DEF IInv, PlanInv
<1>3. owned = UNION {Owned(s) : s \in ToSet(global.syncs)}
  <2>1. owned = UNION {Owned(p.sync) : p \in ToSet(plans)}
    BY DEF IInv, PlanInv
  <2>2. \A s : Plan(s).sync = s
    BY DEF Plan
  <2> QED BY <2>1, <2>2, <1>1, <1>2
<1>4. ASSUME NEW g, NEW m, NEW event
      PROVE  <<g, m, event>> \in owned <=>
               \E s \in ToSet(global.syncs) : s.event = event /\ m \in Maps(s) /\ g \in CommonStates(s)
  <2>1. \A s : <<g, m, event>> \in Owned(s) <=> s.event = event /\ m \in Maps(s) /\ g \in CommonStates(s)
    BY DEF Owned
  <2> QED BY <1>3, <2>1
<1> QED BY <1>1, <1>2, <1>4

(* The texts of copied clauses are the texts that were copied.             *)
LEMMA TextsOfVerbatim ==
  ASSUME NEW texts, NEW clauses, Verbatim(texts) \subseteq clauses
  PROVE  texts \subseteq Texts(clauses)
<1> SUFFICES ASSUME NEW t \in texts PROVE t \in Texts(clauses)
  OBVIOUS
<1>1. [kind |-> "text", text |-> t] \in clauses
  BY DEF Verbatim
<1>2. PICK r \in clauses : r = [kind |-> "text", text |-> t]
  BY <1>1
<1>3. r.kind = "text" /\ r.text = t
  BY <1>2
<1> QED BY <1>3 DEF Texts

(* An edge of a local diagram is a part of a generated one, with its post  *)
(* unless it ends the instance.                                            *)
LEMMA EdgeIsExpanded ==
  ASSUME IInv, phase = "expanded", NEW m \in DOMAIN loaded, NEW e \in Local(m).edges
  PROVE  \E x \in Generated : /\ <<e.src, e.dst>> \in ToSet(x.origin)
                              /\ e.dst # Local(m).start => e.post \subseteq Texts(x.post)
<1> DEFINE IsPart(ps, k) == k \in DOMAIN ps /\ \E id : ps[k] = parts(m, id, e)
<1>1. ASSUME NEW g, NEW ps, NEW k, IsPart(ps, k), compose(g, ps) \in Base
      PROVE  \E x \in Generated : /\ <<e.src, e.dst>> \in ToSet(x.origin)
                                  /\ e.dst # Local(m).start => e.post \subseteq Texts(x.post)
  <2> DEFINE x == Restricted(compose(g, ps), Len(global.constrains))
  <2>1. x \in Generated
    BY <1>1, ExpandedEdges
  <2>2. x.origin = [n \in DOMAIN ps |-> <<ps[n].edge.src, ps[n].edge.dst>>] /\ ps[k].post \subseteq x.post
    <3>1. x.origin = compose(g, ps).origin /\ x.post = compose(g, ps).post
      BY Zenon, RestrictedFields
    <3>2. compose(g, ps).origin = [n \in DOMAIN ps |-> <<ps[n].edge.src, ps[n].edge.dst>>]
      BY Zenon DEF compose
    <3>3. compose(g, ps).post
            = (UNION {ps[n].post : n \in DOMAIN ps}) \cup frame(g, {ps[n].map : n \in DOMAIN ps})
      BY Zenon DEF compose
    <3>4. ps[k].post \subseteq compose(g, ps).post
      BY <1>1, <3>3
    <3> QED BY <3>1, <3>2, <3>4
  <2>3. ps[k].edge = e /\ (e.dst # Local(m).start => Verbatim(e.post) \subseteq ps[k].post)
    BY <1>1 DEF parts
  <2>4. <<e.src, e.dst>> \in ToSet(x.origin)
    BY <1>1, <2>2, <2>3 DEF ToSet
  <2> HIDE DEF x
  <2> QED BY <2>1, <2>2, <2>3, <2>4, TextsOfVerbatim
<1>2. PICK i \in Blocks : Block(i).map = m
  BY LoadedFrom DEF IInv, LoadInv
<1>3. CASE <<Block(i).in, m, e.event>> \notin owned
  <2> DEFINE ps == <<parts(m, Block(i).idParam, e)>>
  <2>1. compose(Block(i).in, ps) \in Base
    <3>1. compose(Block(i).in, ps) \in Alone(i)
      BY <1>2, <1>3 DEF Alone
    <3> QED BY <3>1 DEF Base, AllAlone
  <2>2. IsPart(ps, 1)
    OBVIOUS
  <2> QED BY <2>1, <2>2, <1>1
<1>4. CASE <<Block(i).in, m, e.event>> \in owned
  <2>1. PICK s \in ToSet(global.syncs) : s.event = e.event /\ m \in Maps(s) /\ Block(i).in \in CommonStates(s)
    BY <1>4, OwnedBySyncs DEF Planned, Checked
  <2>2. Plan(s) \in ToSet(plans) /\ SyncSound(s) /\ Plan(s).sync = s /\ Plan(s).states = CommonStates(s)
    BY OwnedBySyncs DEF Planned, Checked, Plan
  <2>3. PICK k \in DOMAIN s.targets : s.targets[k].map = m
    BY <2>1 DEF Maps, ToSet
  <2>4. \A n \in DOMAIN s.targets : edgesOn(s.targets[n].map, s.event) # {}
    <3>1. \A n \in DOMAIN s.targets : ~ NamedTwice(s, n) /\ Promoted(s, n) /\ Sided(s, n)
      BY <2>2 DEF SyncSound, TargetErrors
    <3> QED BY <3>1 DEF Sided
  <2>5. e \in edgesOn(m, s.event)
    BY <2>1 DEF edgesOn
  <2> DEFINE c == [n \in DOMAIN s.targets |->
                     IF n = k THEN e ELSE CHOOSE f : f \in edgesOn(s.targets[n].map, s.event)]
  <2>6. \A n \in DOMAIN s.targets : c[n] \in edgesOn(s.targets[n].map, s.event)
    BY <2>3, <2>4, <2>5
  <2>7. c \in product(s)
    <3>1. \A n \in DOMAIN s.targets : s.targets[n].map \in Maps(s)
      BY DEF Maps, ToSet
    <3>2. c \in [DOMAIN s.targets -> UNION {edgesOn(o, s.event) : o \in Maps(s)}]
      BY <2>6, <3>1
    <3> QED BY <2>6, <3>2 DEF product
  <2> DEFINE ps == [n \in DOMAIN s.targets |-> parts(s.targets[n].map, s.targets[n].param, c[n])]
  <2>8. compose(Block(i).in, ps) \in Base
    <3>1. Combined(Block(i).in, s.targets, c) \in Merged(Plan(s))
      <4> HIDE DEF c
      <4>1. \A p : p.sync = s /\ p.states = CommonStates(s) => Combined(Block(i).in, s.targets, c) \in Merged(p)
        BY <2>1, <2>7 DEF Merged
      <4> QED BY <4>1, <2>2
    <3>2. Combined(Block(i).in, s.targets, c) = compose(Block(i).in, ps)
      BY DEF Combined
    <3> QED BY <2>2, <3>1, <3>2 DEF Base
  <2>9. IsPart(ps, k)
    BY <2>3
  <2> HIDE DEF ps
  <2> QED BY <2>8, <2>9, <1>1
<1> QED BY <1>3, <1>4

(* The invariant implies that no post is dropped silently.                 *)
LEMMA PostsFollow ==
  ASSUME IInv PROVE PostsKept
<1> SUFFICES ASSUME phase = "expanded", ~ HasSeverity(diags, "warning"), NEW m \in DOMAIN loaded
             PROVE  /\ Local(m).startPost = {}
                    /\ \A e \in Local(m).edges : \E x \in Generated :
                         <<e.src, e.dst>> \in ToSet(x.origin) /\ e.post \subseteq Texts(x.post)
  BY DEF PostsKept
<1>1. WarnAboutLocals = {}
  <2>1. WarnAboutLocals \subseteq diags
    BY DEF IInv, DiagsInv, Planned, Checked
  <2>2. \A d \in WarnAboutLocals : d.severity = "warning"
    <3>1. \A d \in WarnAboutLocals : \E kind, place : d = Warning(kind, place)
      BY DEF WarnAboutLocals
    <3> QED BY <3>1 DEF Warning
  <2> QED BY <2>1, <2>2 DEF HasSeverity
<1>2. Local(m).startPost = {}
  <2> SUFFICES ASSUME Local(m).startPost # {} PROVE FALSE
    OBVIOUS
  <2>1. Warning("start post", m) \in WarnAboutLocals
    BY DEF WarnAboutLocals
  <2> QED BY <2>1, <1>1
<1>3. ASSUME NEW e \in Local(m).edges, e.dst = Local(m).start PROVE e.post = {}
  <2> SUFFICES ASSUME e.post # {} PROVE FALSE
    OBVIOUS
  <2>1. Warning("deletion post", m) \in WarnAboutLocals
    BY <1>3 DEF WarnAboutLocals, Posted
  <2> QED BY <2>1, <1>1
<1>4. ASSUME NEW e \in Local(m).edges
      PROVE  \E x \in Generated : <<e.src, e.dst>> \in ToSet(x.origin) /\ e.post \subseteq Texts(x.post)
  <2>1. PICK x \in Generated : /\ <<e.src, e.dst>> \in ToSet(x.origin)
                               /\ e.dst # Local(m).start => e.post \subseteq Texts(x.post)
    BY EdgeIsExpanded
  <2> QED BY <2>1, <1>3
<1> QED BY <1>2, <1>4

(* Whatever diagrams are promoted, an expansion without a warning has the  *)
(* post of every local edge, those the SYNC directives took over included  *)
(* (warnAboutLocals, promote, mergeSyncs).                                 *)
THEOREM NothingDropped == ReaderSpec => []PostsKept
<1>1. ReaderInv => PostsKept
  <2>1. CASE phase # "expanded"
    BY <2>1 DEF PostsKept
  <2> QED BY <2>1, PostsFollow DEF ReaderInv
<1> QED BY <1>1, ReaderInductive, PTL

-----------------------------------------------------------------------------
(* What a local edge makes a generated edge say of its map, apart from its *)
(* own texts.                                                              *)
Now(m, id, e) ==
  IF e.src = Local(m).start THEN {Clause("notInDom", m, id, None)}
  ELSE {Clause("inDom", m, id, None), Clause("atState", m, id, Local(m).name[e.src])}
Afterwards(m, id, e) ==
  IF e.src = Local(m).start THEN Clause("create", m, id, Local(m).name[e.dst])
  ELSE IF e.dst = Local(m).start THEN Clause("delete", m, id, None)
  ELSE Clause("update", m, id, Local(m).name[e.dst])
Kept(m, e) == IF e.dst = Local(m).start THEN {} ELSE e.post

(* The guard and the post of a part are the texts of its local edge and    *)
(* what the edge does to the instance (parts).                             *)
LEMMA PartsSay ==
  ASSUME NEW m, NEW id, NEW e
  PROVE  /\ parts(m, id, e).edge = e /\ parts(m, id, e).map = m /\ parts(m, id, e).id = id
         /\ parts(m, id, e).guard = Verbatim(e.guard) \cup Now(m, id, e)
         /\ parts(m, id, e).post = Verbatim(Kept(m, e)) \cup {Afterwards(m, id, e)}
<1>1. parts(m, id, e).edge = e /\ parts(m, id, e).map = m /\ parts(m, id, e).id = id
  BY DEF parts
<1>2. parts(m, id, e).guard = Verbatim(e.guard) \cup Now(m, id, e)
  BY DEF parts, Now
<1>3. parts(m, id, e).post = Verbatim(Kept(m, e)) \cup {Afterwards(m, id, e)}
  <2>1. Verbatim({}) = {}
    BY DEF Verbatim
  <2> QED BY <2>1 DEF parts, Afterwards, Kept
<1> QED BY <1>1, <1>2, <1>3

(* What a part says is about its map and its instance.                     *)
LEMMA ClausesAreAbout ==
  ASSUME NEW m, NEW id, NEW e
  PROVE  /\ \A q \in Now(m, id, e) : q.kind # "text" /\ q.map = m /\ q.id = id
         /\ Now(m, id, e) # {}
         /\ Afterwards(m, id, e).kind # "text" /\ Afterwards(m, id, e).map = m /\ Afterwards(m, id, e).id = id
         /\ Afterwards(m, id, e).kind # "frame"
<1>1. ASSUME NEW kind, NEW name, NEW q, q = Clause(kind, m, id, name)
      PROVE  q.kind = kind /\ q.map = m /\ q.id = id
  BY <1>1 DEF Clause
<1>2. \E kind, name : /\ Afterwards(m, id, e) = Clause(kind, m, id, name)
                      /\ kind \in {"create", "delete", "update"}
  BY DEF Afterwards
<1>3. \A q \in Now(m, id, e) : \E kind, name : /\ q = Clause(kind, m, id, name)
                                               /\ kind \in {"notInDom", "inDom", "atState"}
  BY DEF Now
<1>4. Now(m, id, e) # {}
  BY DEF Now
<1>5. "text" \notin {"notInDom", "inDom", "atState", "create", "delete", "update"}
      /\ "frame" \notin {"create", "delete", "update"}
  OBVIOUS
<1> QED BY <1>1, <1>2, <1>3, <1>4, <1>5

(* Copied clauses are texts, and have all of them.                         *)
LEMMA VerbatimIsText ==
  ASSUME NEW texts
  PROVE  /\ \A q \in Verbatim(texts) : q.kind = "text" /\ q.text \in texts
         /\ \A t \in texts : \E q \in Verbatim(texts) : q.kind = "text" /\ q.text = t
<1>1. \A q \in Verbatim(texts) : q.kind = "text" /\ q.text \in texts
  BY DEF Verbatim
<1>2. ASSUME NEW t \in texts PROVE \E q \in Verbatim(texts) : q.kind = "text" /\ q.text = t
  <2>1. [kind |-> "text", text |-> t] \in Verbatim(texts)
    BY DEF Verbatim
  <2>2. PICK r \in Verbatim(texts) : r = [kind |-> "text", text |-> t]
    BY <2>1
  <2> QED BY <2>2
<1> QED BY <1>1, <1>2

(* A frame clause for every variable that did not move, and no other       *)
(* (frame).                                                                *)
LEMMA FrameIsAbout ==
  ASSUME NEW g, NEW moved
  PROVE  /\ \A q \in frame(g, moved) : q.kind = "frame" /\ q.map \in DOMAIN global.vars[g] \ moved
         /\ \A v \in DOMAIN global.vars[g] \ moved : \E q \in frame(g, moved) : q.map = v
<1>1. \A v : Clause("frame", v, None, None).kind = "frame" /\ Clause("frame", v, None, None).map = v
  BY DEF Clause
<1>2. frame(g, moved) = {Clause("frame", v, None, None) : v \in DOMAIN global.vars[g] \ moved}
  BY DEF frame
<1> QED BY <1>1, <1>2

-----------------------------------------------------------------------------
(* A combination of local edges of different maps that share an event.     *)
Fits(g, targets, c) ==
  /\ g \in DOMAIN global.vars
  /\ 1 \in DOMAIN targets
  /\ \A k \in DOMAIN targets :
       /\ targets[k].map \in DOMAIN loaded /\ targets[k].map \in DOMAIN global.vars[g]
       /\ c[k] \in Local(targets[k].map).edges
       /\ c[k].event = c[1].event
  /\ \A j, k \in DOMAIN targets : targets[j].map = targets[k].map => j = k

Params(targets) == {targets[k].param : k \in DOMAIN targets}
MapsOf(targets) == {targets[k].map : k \in DOMAIN targets}
Roles(targets, c, ids) == {Role(targets[k].map, ids[targets[k].param], c[k]) : k \in DOMAIN targets}
GuardOf(targets, c) ==
  UNION {Verbatim(c[k].guard) \cup Now(targets[k].map, targets[k].param, c[k]) : k \in DOMAIN targets}
PostOf(targets, c) ==
  UNION {Verbatim(Kept(targets[k].map, c[k])) \cup {Afterwards(targets[k].map, targets[k].param, c[k])} :
           k \in DOMAIN targets}
ArgsOf(targets, c) == UNION {ToSet(c[k].args) : k \in DOMAIN targets}

(* The fields of a generated edge, before it is constrained (compose).     *)
LEMMA CombinedSays ==
  ASSUME NEW g, NEW targets, NEW c, Fits(g, targets, c)
  PROVE  LET x == Combined(g, targets, c)
         IN  /\ x.src = g
             /\ x.event.name = c[1].event
             /\ x.event.ids = IF c[1].event = Tau THEN {} ELSE Params(targets)
             /\ x.event.args = IF c[1].event = Tau THEN {} ELSE ArgsOf(targets, c)
             /\ x.guard = GuardOf(targets, c)
             /\ x.post = PostOf(targets, c) \cup frame(g, MapsOf(targets))
<1> DEFINE ps == [k \in DOMAIN targets |-> parts(targets[k].map, targets[k].param, c[k])]
           x  == compose(g, ps)
<1>1. \A k \in DOMAIN targets :
        /\ ps[k].edge = c[k] /\ ps[k].map = targets[k].map /\ ps[k].id = targets[k].param
        /\ ps[k].guard = Verbatim(c[k].guard) \cup Now(targets[k].map, targets[k].param, c[k])
        /\ ps[k].post = Verbatim(Kept(targets[k].map, c[k])) \cup {Afterwards(targets[k].map, targets[k].param, c[k])}
  BY PartsSay
<1>2. DOMAIN ps = DOMAIN targets /\ 1 \in DOMAIN targets
  BY DEF Fits
<1>3. x = Combined(g, targets, c)
  BY DEF Combined
<1> HIDE DEF ps
<1>4. (\E k \in DOMAIN ps : ps[k].edge.event = Tau) <=> c[1].event = Tau
  BY <1>1, <1>2 DEF Fits
<1>5. {ps[k].id : k \in DOMAIN ps} = Params(targets)
  BY <1>1, <1>2 DEF Params
<1>6. UNION {ToSet(ps[k].edge.args) : k \in DOMAIN ps} = ArgsOf(targets, c)
  BY <1>1, <1>2 DEF ArgsOf
<1>7. {ps[k].map : k \in DOMAIN ps} = MapsOf(targets)
  BY <1>1, <1>2 DEF MapsOf
<1> DEFINE G(k) == Verbatim(c[k].guard) \cup Now(targets[k].map, targets[k].param, c[k])
           P(k) == Verbatim(Kept(targets[k].map, c[k])) \cup {Afterwards(targets[k].map, targets[k].param, c[k])}
<1>7a. \A k \in DOMAIN ps : ps[k].guard = G(k) /\ ps[k].post = P(k)
  BY <1>1, <1>2
<1>7b. UNION {G(k) : k \in DOMAIN targets} = GuardOf(targets, c)
  BY DEF GuardOf
<1>7c. UNION {P(k) : k \in DOMAIN targets} = PostOf(targets, c)
  BY DEF PostOf
<1> HIDE DEF G, P
<1>8. UNION {ps[k].guard : k \in DOMAIN ps} = UNION {G(k) : k \in DOMAIN targets}
  BY <1>7a, <1>2
<1>9. UNION {ps[k].post : k \in DOMAIN ps} = UNION {P(k) : k \in DOMAIN targets}
  BY <1>7a, <1>2
<1>10. /\ x.src = g
       /\ x.event = IF c[1].event = Tau THEN [name |-> Tau, ids |-> {}, args |-> {}]
                    ELSE [name |-> ps[1].edge.event, ids |-> {ps[k].id : k \in DOMAIN ps},
                          args |-> UNION {ToSet(ps[k].edge.args) : k \in DOMAIN ps}]
       /\ x.guard = UNION {ps[k].guard : k \in DOMAIN ps}
       /\ x.post = (UNION {ps[k].post : k \in DOMAIN ps}) \cup frame(g, {ps[k].map : k \in DOMAIN ps})
  BY <1>4 DEF compose
<1>11. ps[1].edge.event = c[1].event
  BY <1>1, <1>2
<1> HIDE DEF x
<1>12. /\ x.event.name = c[1].event
       /\ x.event.ids = IF c[1].event = Tau THEN {} ELSE Params(targets)
       /\ x.event.args = IF c[1].event = Tau THEN {} ELSE ArgsOf(targets, c)
  <2>1. PICK I : I = {ps[k].id : k \in DOMAIN ps}
    OBVIOUS
  <2>2. PICK A : A = UNION {ToSet(ps[k].edge.args) : k \in DOMAIN ps}
    OBVIOUS
  <2>3. x.event = IF c[1].event = Tau THEN [name |-> Tau, ids |-> {}, args |-> {}]
                  ELSE [name |-> c[1].event, ids |-> I, args |-> A]
    BY <1>10, <1>11, <2>1, <2>2
  <2>4. /\ x.event.name = c[1].event
        /\ x.event.ids = IF c[1].event = Tau THEN {} ELSE I
        /\ x.event.args = IF c[1].event = Tau THEN {} ELSE A
    BY <2>3
  <2>5. I = Params(targets) /\ A = ArgsOf(targets, c)
    BY <1>5, <1>6, <2>1, <2>2
  <2> QED BY <2>4, <2>5
<1>13. x.guard = GuardOf(targets, c)
  BY <1>7b, <1>8, <1>10
<1>14. x.post = PostOf(targets, c) \cup frame(g, MapsOf(targets))
  BY <1>7, <1>7c, <1>9, <1>10
<1> QED BY <1>3, <1>10, <1>12, <1>13, <1>14

-----------------------------------------------------------------------------
(* The texts of a generated edge, and what it says of each variable.       *)
GuardTexts(targets, c) == UNION {c[k].guard : k \in DOMAIN targets}
PostTexts(targets, c)  == UNION {Kept(targets[k].map, c[k]) : k \in DOMAIN targets}
ConstraintTexts(x, n) ==
  UNION {Constrain(j).guard :
           j \in {j \in DOMAIN global.constrains : j <= n /\ Matches(Constrain(j), x)}}

(* The texts of a generated edge are those of its local edges and of the   *)
(* constraints that match it; a deletion has no post.                      *)
LEMMA TextsSaid ==
  ASSUME NEW g, NEW targets, NEW c, Fits(g, targets, c), NEW n
  PROVE  LET x == Combined(g, targets, c)
             y == Restricted(x, n)
         IN  /\ Texts(y.guard) = GuardTexts(targets, c) \cup ConstraintTexts(x, n)
             /\ Texts(y.post) = PostTexts(targets, c)
<1> DEFINE x == Combined(g, targets, c)
           y == Restricted(x, n)
           J == {j \in DOMAIN global.constrains : j <= n /\ Matches(Constrain(j), x)}
           N(k) == Now(targets[k].map, targets[k].param, c[k])
           A(k) == Afterwards(targets[k].map, targets[k].param, c[k])
<1>1. /\ y.guard = (UNION {Verbatim(c[k].guard) \cup N(k) : k \in DOMAIN targets})
                     \cup UNION {Verbatim(Constrain(j).guard) : j \in J}
      /\ y.post = (UNION {Verbatim(Kept(targets[k].map, c[k])) \cup {A(k)} : k \in DOMAIN targets})
                    \cup frame(g, MapsOf(targets))
  <2>0. x.guard = GuardOf(targets, c) /\ x.post = PostOf(targets, c) \cup frame(g, MapsOf(targets))
    BY CombinedSays
  <2> HIDE DEF x
  <2>1. y.guard = GuardOf(targets, c) \cup Added(x, n) /\ y.post = PostOf(targets, c) \cup frame(g, MapsOf(targets))
    BY <2>0, RestrictedFields
  <2> HIDE DEF y
  <2>2. Added(x, n) = UNION {Verbatim(Constrain(j).guard) : j \in J}
    BY DEF Added
  <2> QED BY <2>1, <2>2 DEF GuardOf, PostOf
<1>2. \A k : (\A q \in N(k) : q.kind # "text") /\ A(k).kind # "text"
  BY ClausesAreAbout
<1>3. \A texts : /\ \A q \in Verbatim(texts) : q.kind = "text" /\ q.text \in texts
                 /\ \A t \in texts : \E q \in Verbatim(texts) : q.kind = "text" /\ q.text = t
  BY VerbatimIsText
<1>4. \A q \in frame(g, MapsOf(targets)) : q.kind # "text"
  BY FrameIsAbout
<1> HIDE DEF x, y, J, N, A
<1>5. Texts(y.guard) = (UNION {c[k].guard : k \in DOMAIN targets}) \cup UNION {Constrain(j).guard : j \in J}
  <2>1. ASSUME NEW t \in Texts(y.guard)
        PROVE  t \in (UNION {c[k].guard : k \in DOMAIN targets}) \cup UNION {Constrain(j).guard : j \in J}
    <3>1. PICK q \in y.guard : q.kind = "text" /\ q.text = t
      BY DEF Texts
    <3>2. CASE q \in UNION {Verbatim(c[k].guard) \cup N(k) : k \in DOMAIN targets}
      <4>1. PICK k \in DOMAIN targets : q \in Verbatim(c[k].guard) \cup N(k)
        BY <3>2
      <4>2. t \in c[k].guard
        BY <3>1, <4>1, <1>2, <1>3
      <4> QED BY <4>2
    <3>3. CASE q \in UNION {Verbatim(Constrain(j).guard) : j \in J}
      <4>1. PICK j \in J : q \in Verbatim(Constrain(j).guard)
        BY <3>3
      <4>2. t \in Constrain(j).guard
        BY <3>1, <4>1, <1>3
      <4> QED BY <4>2
    <3> QED BY <1>1, <3>2, <3>3
  <2>2. ASSUME NEW k \in DOMAIN targets, NEW t \in c[k].guard PROVE t \in Texts(y.guard)
    <3>1. PICK q \in Verbatim(c[k].guard) : q.kind = "text" /\ q.text = t
      BY <1>3
    <3>2. q \in y.guard
      BY <1>1
    <3> QED BY <3>1, <3>2 DEF Texts
  <2>3. ASSUME NEW j \in J, NEW t \in Constrain(j).guard PROVE t \in Texts(y.guard)
    <3>1. PICK q \in Verbatim(Constrain(j).guard) : q.kind = "text" /\ q.text = t
      BY <1>3
    <3>2. q \in y.guard
      BY <1>1
    <3> QED BY <3>1, <3>2 DEF Texts
  <2> QED BY <2>1, <2>2, <2>3
<1>6. Texts(y.post) = UNION {Kept(targets[k].map, c[k]) : k \in DOMAIN targets}
  <2>1. ASSUME NEW t \in Texts(y.post) PROVE t \in UNION {Kept(targets[k].map, c[k]) : k \in DOMAIN targets}
    <3>1. PICK q \in y.post : q.kind = "text" /\ q.text = t
      BY DEF Texts
    <3>2. q \in UNION {Verbatim(Kept(targets[k].map, c[k])) \cup {A(k)} : k \in DOMAIN targets}
      BY <1>1, <1>4, <3>1
    <3>3. PICK k \in DOMAIN targets : q \in Verbatim(Kept(targets[k].map, c[k])) \cup {A(k)}
      BY <3>2
    <3>4. t \in Kept(targets[k].map, c[k])
      BY <3>1, <3>3, <1>2, <1>3
    <3> QED BY <3>4
  <2>2. ASSUME NEW k \in DOMAIN targets, NEW t \in Kept(targets[k].map, c[k]) PROVE t \in Texts(y.post)
    <3>1. PICK q \in Verbatim(Kept(targets[k].map, c[k])) : q.kind = "text" /\ q.text = t
      BY <1>3
    <3>2. q \in y.post
      BY <1>1
    <3> QED BY <3>1, <3>2 DEF Texts
  <2> QED BY <2>1, <2>2
<1>7. ConstraintTexts(x, n) = UNION {Constrain(j).guard : j \in J}
  BY DEF ConstraintTexts, J
<1> QED BY <1>5, <1>6, <1>7 DEF x, y, GuardTexts, PostTexts

IdsOf(clauses) == {q.id : q \in {q \in clauses : q.kind # "text"}}

(* Of a map that moves it says what its part says; of other variables,     *)
(* that they stay.                                                         *)
LEMMA AboutSaid ==
  ASSUME NEW g, NEW targets, NEW c, Fits(g, targets, c), NEW n
  PROVE  LET y == Restricted(Combined(g, targets, c), n)
         IN  /\ IdsOf(y.guard) = Params(targets)
             /\ \A k \in DOMAIN targets :
                  /\ About(y.guard, targets[k].map) = Now(targets[k].map, targets[k].param, c[k])
                  /\ About(y.post, targets[k].map) = {Afterwards(targets[k].map, targets[k].param, c[k])}
             /\ \A v \in DOMAIN global.vars[g] \ MapsOf(targets) :
                  /\ About(y.guard, v) = {}
                  /\ About(y.post, v) # {} /\ \A q \in About(y.post, v) : q.kind = "frame"
<1> DEFINE x == Combined(g, targets, c)
           y == Restricted(x, n)
           J == {j \in DOMAIN global.constrains : j <= n /\ Matches(Constrain(j), x)}
           N(k) == Now(targets[k].map, targets[k].param, c[k])
           A(k) == Afterwards(targets[k].map, targets[k].param, c[k])
<1>1. /\ y.guard = (UNION {Verbatim(c[k].guard) \cup N(k) : k \in DOMAIN targets})
                     \cup UNION {Verbatim(Constrain(j).guard) : j \in J}
      /\ y.post = (UNION {Verbatim(Kept(targets[k].map, c[k])) \cup {A(k)} : k \in DOMAIN targets})
                    \cup frame(g, MapsOf(targets))
  <2>0. x.guard = GuardOf(targets, c) /\ x.post = PostOf(targets, c) \cup frame(g, MapsOf(targets))
    BY CombinedSays
  <2> HIDE DEF x
  <2>1. y.guard = GuardOf(targets, c) \cup Added(x, n) /\ y.post = PostOf(targets, c) \cup frame(g, MapsOf(targets))
    BY <2>0, RestrictedFields
  <2> HIDE DEF y
  <2>2. Added(x, n) = UNION {Verbatim(Constrain(j).guard) : j \in J}
    BY DEF Added
  <2> QED BY <2>1, <2>2 DEF GuardOf, PostOf
<1>2. \A k : /\ \A q \in N(k) : q.kind # "text" /\ q.map = targets[k].map /\ q.id = targets[k].param
             /\ N(k) # {}
             /\ A(k).kind # "text" /\ A(k).map = targets[k].map
  BY ClausesAreAbout
<1>3. \A texts : \A q \in Verbatim(texts) : q.kind = "text"
  BY VerbatimIsText
<1>4. /\ \A q \in frame(g, MapsOf(targets)) : q.kind = "frame" /\ q.map \in DOMAIN global.vars[g] \ MapsOf(targets)
      /\ \A v \in DOMAIN global.vars[g] \ MapsOf(targets) : \E q \in frame(g, MapsOf(targets)) : q.map = v
  BY FrameIsAbout
<1>5. \A j, k \in DOMAIN targets : targets[j].map = targets[k].map => j = k
  BY DEF Fits
<1>6. \A k \in DOMAIN targets : targets[k].map \in MapsOf(targets)
  BY DEF MapsOf
<1> HIDE DEF x, y, J, N, A
<1>7. \A q \in y.guard : q.kind # "text" <=> \E k \in DOMAIN targets : q \in N(k)
  <2> SUFFICES ASSUME NEW q \in y.guard PROVE q.kind # "text" <=> \E k \in DOMAIN targets : q \in N(k)
    OBVIOUS
  <2>1. CASE q \in UNION {Verbatim(c[k].guard) \cup N(k) : k \in DOMAIN targets}
    <3>1. PICK k \in DOMAIN targets : q \in Verbatim(c[k].guard) \cup N(k)
      BY <2>1
    <3> QED BY <3>1, <1>2, <1>3
  <2>2. CASE q \in UNION {Verbatim(Constrain(j).guard) : j \in J}
    <3>1. q.kind = "text"
      BY <2>2, <1>3
    <3> QED BY <3>1, <1>2
  <2> QED BY <1>1, <2>1, <2>2
<1>8. \A k \in DOMAIN targets : N(k) \subseteq y.guard /\ A(k) \in y.post
  BY <1>1
<1>9. \A q \in y.post : q.kind # "text" <=>
        q \in frame(g, MapsOf(targets)) \/ \E k \in DOMAIN targets : q = A(k)
  <2> SUFFICES ASSUME NEW q \in y.post
               PROVE  q.kind # "text" <=> q \in frame(g, MapsOf(targets)) \/ \E k \in DOMAIN targets : q = A(k)
    OBVIOUS
  <2>1. CASE q \in UNION {Verbatim(Kept(targets[k].map, c[k])) \cup {A(k)} : k \in DOMAIN targets}
    <3>1. PICK k \in DOMAIN targets : q \in Verbatim(Kept(targets[k].map, c[k])) \cup {A(k)}
      BY <2>1
    <3>2. CASE q = A(k)
      BY <3>2, <1>2
    <3>3. CASE q \in Verbatim(Kept(targets[k].map, c[k]))
      <4>1. q.kind = "text"
        BY <3>3, <1>3
      <4>2. "frame" # "text"
        OBVIOUS
      <4> QED BY <4>1, <4>2, <1>2, <1>4
    <3> QED BY <3>1, <3>2, <3>3
  <2>2. CASE q \in frame(g, MapsOf(targets))
    <3>1. q.kind = "frame"
      BY <2>2, <1>4
    <3> QED BY <3>1, <2>2
  <2> QED BY <1>1, <2>1, <2>2
<1>10. IdsOf(y.guard) = Params(targets)
  <2>1. \A q \in y.guard : q.kind # "text" => q.id \in Params(targets)
    BY <1>2, <1>7 DEF Params
  <2>2. ASSUME NEW k \in DOMAIN targets
        PROVE  targets[k].param \in IdsOf(y.guard)
    <3>1. PICK q \in N(k) : TRUE
      BY <1>2
    <3>2. q \in y.guard /\ q.kind # "text" /\ q.id = targets[k].param
      BY <3>1, <1>2, <1>8
    <3> QED BY <3>2 DEF IdsOf
  <2> QED BY <2>1, <2>2 DEF Params, IdsOf
<1>11. ASSUME NEW k \in DOMAIN targets
       PROVE  About(y.guard, targets[k].map) = N(k) /\ About(y.post, targets[k].map) = {A(k)}
  <2>1. ASSUME NEW q \in About(y.guard, targets[k].map) PROVE q \in N(k)
    <3>1. q \in y.guard /\ q.kind # "text" /\ q.map = targets[k].map
      BY DEF About
    <3>2. PICK j \in DOMAIN targets : q \in N(j)
      BY <3>1, <1>7
    <3>3. j = k
      BY <3>1, <3>2, <1>2, <1>5
    <3> QED BY <3>2, <3>3
  <2>2. ASSUME NEW q \in N(k) PROVE q \in About(y.guard, targets[k].map)
    BY <1>2, <1>8 DEF About
  <2>3. ASSUME NEW q \in About(y.post, targets[k].map) PROVE q = A(k)
    <3>1. q \in y.post /\ q.kind # "text" /\ q.map = targets[k].map
      BY DEF About
    <3>2. q \notin frame(g, MapsOf(targets))
      BY <3>1, <1>4, <1>6
    <3>3. PICK j \in DOMAIN targets : q = A(j)
      BY <3>1, <3>2, <1>9
    <3>4. j = k
      BY <3>1, <3>3, <1>2, <1>5
    <3> QED BY <3>3, <3>4
  <2>4. A(k) \in About(y.post, targets[k].map)
    BY <1>2, <1>8 DEF About
  <2> QED BY <2>1, <2>2, <2>3, <2>4
<1>12. ASSUME NEW v \in DOMAIN global.vars[g] \ MapsOf(targets)
       PROVE  About(y.guard, v) = {} /\ About(y.post, v) # {} /\ \A q \in About(y.post, v) : q.kind = "frame"
  <2>1. ASSUME NEW q \in About(y.guard, v) PROVE FALSE
    <3>1. q \in y.guard /\ q.kind # "text" /\ q.map = v
      BY DEF About
    <3> QED BY <3>1, <1>2, <1>6, <1>7
  <2>2. ASSUME NEW q \in About(y.post, v) PROVE q.kind = "frame"
    <3>1. q \in y.post /\ q.kind # "text" /\ q.map = v
      BY DEF About
    <3> QED BY <3>1, <1>2, <1>4, <1>6, <1>9
  <2>3. About(y.post, v) # {}
    <3>1. PICK q \in frame(g, MapsOf(targets)) : q.map = v
      BY <1>4
    <3>2. q \in y.post /\ q.kind = "frame"
      BY <1>1, <1>4
    <3> QED BY <3>1, <3>2 DEF About
  <2> QED BY <2>1, <2>2, <2>3
<1> QED BY <1>10, <1>11, <1>12 DEF y, x, N, A

(* The last part of AboutSaid, for one variable.                           *)
LEMMA AboutUnmoved ==
  ASSUME NEW g, NEW targets, NEW c, Fits(g, targets, c), NEW n,
         NEW v \in DOMAIN global.vars[g] \ MapsOf(targets)
  PROVE  /\ About(Restricted(Combined(g, targets, c), n).guard, v) = {}
         /\ About(Restricted(Combined(g, targets, c), n).post, v) # {}
         /\ \A q \in About(Restricted(Combined(g, targets, c), n).post, v) : q.kind = "frame"
<1> DEFINE y == Restricted(Combined(g, targets, c), n)
<1>1. \A w \in DOMAIN global.vars[g] \ MapsOf(targets) :
        /\ About(y.guard, w) = {}
        /\ About(y.post, w) # {} /\ \A q \in About(y.post, w) : q.kind = "frame"
  BY AboutSaid
<1> HIDE DEF y
<1>2. About(y.guard, v) = {} /\ About(y.post, v) # {} /\ \A q \in About(y.post, v) : q.kind = "frame"
  BY <1>1
<1> QED BY <1>2 DEF y

-----------------------------------------------------------------------------
(* The edges and the start edge are between states the diagram declares,   *)
(* and every state but the start has a name of its own: the clauses that   *)
(* place an instance, m(id) in S and m' = ..., call its state by the name. *)
PlainDiagram(d) ==
  /\ d.start \in d.states
  /\ \A e \in d.edges : e.src \in d.states /\ e.dst \in d.states
  /\ \A s, t \in d.states \ {d.start} : d.name[s] = d.name[t] => s = t

LoadedPlain == \A m \in DOMAIN loaded : PlainDiagram(Local(m))

(* The clauses of a part say that its instance takes the local edge.       *)
LEMMA PartMoves ==
  ASSUME NEW m \in DOMAIN loaded, PlainDiagram(Local(m)), ~ Selfless(Local(m)), NEW e \in Local(m).edges,
         NEW id, NEW ids, ids[id] \in Instances,
         NEW x \in [Instances -> Local(m).states], NEW y \in [Instances -> Local(m).states]
  PROVE  /\ (\A q \in Now(m, id, e) : SaysNow(Locals, q, ids, x)) <=> x[ids[id]] = e.src
         /\ SaysNext(Locals, Afterwards(m, id, e), ids, x, y) <=>
              y[ids[id]] = e.dst /\ \A o \in Instances \ {ids[id]} : x[o] = y[o]
<1> DEFINE d == Local(m)
<1>1. Locals[m] = d
  BY DEF Locals
<1>2. x[ids[id]] \in d.states /\ y[ids[id]] \in d.states /\ e.src \in d.states /\ e.dst \in d.states
  BY DEF PlainDiagram
<1>3. \A s, t \in d.states \ {d.start} : d.name[s] = d.name[t] => s = t
  BY DEF PlainDiagram
<1>4. ~ (e.src = d.start /\ e.dst = d.start)
  BY DEF Selfless
<1>5. \A kind, name : LET q == Clause(kind, m, id, name)
                      IN q.kind = kind /\ q.map = m /\ q.id = id /\ q.name = name
  BY DEF Clause
<1> HIDE DEF d
<1>5a. ASSUME NEW q, q.map = m, q.id = id
       PROVE  /\ q.kind = "inDom" => (SaysNow(Locals, q, ids, x) <=> x[ids[id]] # d.start)
              /\ q.kind = "notInDom" => (SaysNow(Locals, q, ids, x) <=> x[ids[id]] = d.start)
              /\ q.kind = "atState" =>
                   (SaysNow(Locals, q, ids, x) <=> x[ids[id]] # d.start /\ d.name[x[ids[id]]] = q.name)
  <2>1. "inDom" # "notInDom" /\ "inDom" # "atState" /\ "notInDom" # "atState"
    OBVIOUS
  <2>2. CASE q.kind = "inDom"
    BY <1>1, <1>5a, <2>1, <2>2 DEF SaysNow
  <2>3. CASE q.kind = "notInDom"
    BY <1>1, <1>5a, <2>1, <2>3 DEF SaysNow
  <2>4. CASE q.kind = "atState"
    BY <1>1, <1>5a, <2>1, <2>4 DEF SaysNow
  <2> QED BY <2>2, <2>3, <2>4
<1>6. (\A q \in Now(m, id, e) : SaysNow(Locals, q, ids, x)) <=> x[ids[id]] = e.src
  <2>1. CASE e.src = d.start
    <3>1. Now(m, id, e) = {Clause("notInDom", m, id, None)}
      BY <2>1 DEF Now, d
    <3>2. SaysNow(Locals, Clause("notInDom", m, id, None), ids, x) <=> x[ids[id]] = d.start
      BY <1>5, <1>5a
    <3> QED BY <2>1, <3>1, <3>2
  <2>2. CASE e.src # d.start
    <3>1. Now(m, id, e) = {Clause("inDom", m, id, None), Clause("atState", m, id, d.name[e.src])}
      BY <2>2 DEF Now, d
    <3>2. SaysNow(Locals, Clause("inDom", m, id, None), ids, x) <=> x[ids[id]] # d.start
      BY <1>5, <1>5a
    <3>3. SaysNow(Locals, Clause("atState", m, id, d.name[e.src]), ids, x) <=>
            x[ids[id]] # d.start /\ d.name[x[ids[id]]] = d.name[e.src]
      BY <1>5, <1>5a
    <3>4. d.name[x[ids[id]]] = d.name[e.src] /\ x[ids[id]] # d.start => x[ids[id]] = e.src
      BY <1>2, <1>3, <2>2
    <3> QED BY <2>2, <3>1, <3>2, <3>3, <3>4
  <2> QED BY <2>1, <2>2
<1>7. ASSUME NEW name, NEW kind \in {"create", "update"}, e.dst # d.start, name = d.name[e.dst]
      PROVE  SaysNext(Locals, Clause(kind, m, id, name), ids, x, y) <=>
               y[ids[id]] = e.dst /\ \A o \in Instances \ {ids[id]} : x[o] = y[o]
  <2>1. kind # "frame" /\ kind # "delete"
    BY <1>7
  <2>2. SaysNext(Locals, Clause(kind, m, id, name), ids, x, y) <=>
          /\ \A o \in Instances \ {ids[id]} : x[o] = y[o]
          /\ y[ids[id]] # d.start /\ d.name[y[ids[id]]] = name
    BY <1>1, <1>5, <2>1 DEF SaysNext
  <2>3. y[ids[id]] # d.start /\ d.name[y[ids[id]]] = name <=> y[ids[id]] = e.dst
    BY <1>2, <1>3, <1>7
  <2> QED BY <2>2, <2>3
<1>8. SaysNext(Locals, Afterwards(m, id, e), ids, x, y) <=>
        y[ids[id]] = e.dst /\ \A o \in Instances \ {ids[id]} : x[o] = y[o]
  <2>1. CASE e.src = d.start
    <3>1. Afterwards(m, id, e) = Clause("create", m, id, d.name[e.dst])
      BY <2>1 DEF Afterwards, d
    <3> QED BY <2>1, <3>1, <1>4, <1>7
  <2>2. CASE e.src # d.start /\ e.dst = d.start
    <3>1. Afterwards(m, id, e) = Clause("delete", m, id, None)
      BY <2>2 DEF Afterwards, d
    <3>2. SaysNext(Locals, Clause("delete", m, id, None), ids, x, y) <=>
            /\ \A o \in Instances \ {ids[id]} : x[o] = y[o]
            /\ y[ids[id]] = d.start
      BY <1>1, <1>5 DEF SaysNext
    <3> QED BY <2>2, <3>1, <3>2
  <2>3. CASE e.src # d.start /\ e.dst # d.start
    <3>1. Afterwards(m, id, e) = Clause("update", m, id, d.name[e.dst])
      BY <2>3 DEF Afterwards, d
    <3> QED BY <2>3, <3>1, <1>7
  <2> QED BY <2>1, <2>2, <2>3
<1> QED BY <1>6, <1>8

(* A generated edge relates each variable as the roles do.                 *)
LEMMA CombinedTakes ==
  ASSUME LoadedPlain, LocalsSound, NEW g, NEW targets, NEW c, Fits(g, targets, c), NEW n,
         NEW ids \in [Params(targets) -> Instances], NEW v \in DOMAIN global.vars[g]
  PROVE  LET y == Restricted(Combined(g, targets, c), n)
         IN  {p \in Values(Locals, v) \X Values(Locals, v) :
                /\ \A q \in About(y.guard, v) : SaysNow(Locals, q, ids, p[1])
                /\ \A q \in About(y.post, v) : SaysNext(Locals, q, ids, p[1], p[2])}
             = Takes(Locals, v, Roles(targets, c, ids))
<1> DEFINE y == Restricted(Combined(g, targets, c), n)
           roles == Roles(targets, c, ids)
           mine == {r \in roles : r.map = v}
           Says(p) == /\ \A q \in About(y.guard, v) : SaysNow(Locals, q, ids, p[1])
                      /\ \A q \in About(y.post, v) : SaysNext(Locals, q, ids, p[1], p[2])
           Takes1(p) == /\ mine = {} => p[1] = p[2]
                        /\ \A r \in mine : p[1][r.instance] = r.edge.src /\ p[2][r.instance] = r.edge.dst
                        /\ mine # {} => \A i \in Instances \ {r.instance : r \in mine} : p[1][i] = p[2][i]
<1>0. \A m, i, e : Role(m, i, e).map = m /\ Role(m, i, e).instance = i /\ Role(m, i, e).edge = e
  BY DEF Role
<1>1. ASSUME NEW p \in Values(Locals, v) \X Values(Locals, v) PROVE Says(p) <=> Takes1(p)
  <2>1. ASSUME NEW k \in DOMAIN targets, targets[k].map = v PROVE Says(p) <=> Takes1(p)
    <3> DEFINE m == targets[k].map
               id == targets[k].param
    <3>1. m \in DOMAIN loaded /\ c[k] \in Local(m).edges
      BY DEF Fits
    <3>2. ids[id] \in Instances
      BY DEF Params
    <3>3. Values(Locals, v) = [Instances -> Local(m).states]
      BY <2>1, <3>1 DEF Values, Locals
    <3>4. p[1] \in [Instances -> Local(m).states] /\ p[2] \in [Instances -> Local(m).states]
      BY <3>3
    <3>5. PlainDiagram(Local(m)) /\ ~ Selfless(Local(m))
      BY <3>1 DEF LoadedPlain, LocalsSound
    <3>6. About(y.guard, v) = Now(m, id, c[k]) /\ About(y.post, v) = {Afterwards(m, id, c[k])}
      BY <2>1, AboutSaid
    <3>7. mine = {Role(m, ids[id], c[k])}
      <4>1. \A j \in DOMAIN targets : targets[j].map = v => j = k
        BY <2>1 DEF Fits
      <4> QED BY <4>1, <2>1, <1>0 DEF Roles
    <3> HIDE DEF m, id, y, mine, roles
    <3>8. Says(p) <=> /\ p[1][ids[id]] = c[k].src
                      /\ p[2][ids[id]] = c[k].dst /\ \A o \in Instances \ {ids[id]} : p[1][o] = p[2][o]
      <4>1. (\A q \in Now(m, id, c[k]) : SaysNow(Locals, q, ids, p[1])) <=> p[1][ids[id]] = c[k].src
        BY <3>1, <3>2, <3>4, <3>5, PartMoves
      <4>2. SaysNext(Locals, Afterwards(m, id, c[k]), ids, p[1], p[2]) <=>
              p[2][ids[id]] = c[k].dst /\ \A o \in Instances \ {ids[id]} : p[1][o] = p[2][o]
        BY <3>1, <3>2, <3>4, <3>5, PartMoves
      <4> QED BY <3>6, <4>1, <4>2
    <3>9. Takes1(p) <=> /\ p[1][ids[id]] = c[k].src
                        /\ p[2][ids[id]] = c[k].dst /\ \A o \in Instances \ {ids[id]} : p[1][o] = p[2][o]
      <4>1. {r.instance : r \in mine} = {ids[id]} /\ mine # {}
        BY <3>7, <1>0
      <4>2. \A r \in mine : r.instance = ids[id] /\ r.edge = c[k]
        BY <3>7, <1>0
      <4> QED BY <4>1, <4>2
    <3> QED BY <3>8, <3>9
  <2>2. CASE v \notin MapsOf(targets)
    <3>1. About(y.guard, v) = {} /\ About(y.post, v) # {} /\ \A q \in About(y.post, v) : q.kind = "frame"
      <4>1. v \in DOMAIN global.vars[g] \ MapsOf(targets)
        BY <2>2
      <4>2. About(y.guard, v) = {}
        BY <4>1, AboutUnmoved
      <4>3. About(y.post, v) # {}
        BY <4>1, AboutUnmoved
      <4>4. \A q \in About(y.post, v) : q.kind = "frame"
        BY <4>1, AboutUnmoved
      <4> QED BY <4>2, <4>3, <4>4
    <3>2. mine = {}
      BY <2>2, <1>0 DEF Roles, MapsOf
    <3> HIDE DEF y, mine, roles
    <3>3. \A q \in About(y.post, v) : SaysNext(Locals, q, ids, p[1], p[2]) <=> p[1] = p[2]
      BY <3>1 DEF SaysNext
    <3>4. Says(p) <=> p[1] = p[2]
      BY <3>1, <3>3
    <3>5. Takes1(p) <=> p[1] = p[2]
      BY <3>2
    <3> QED BY <3>4, <3>5
  <2> QED BY <2>1, <2>2 DEF MapsOf
<1>2. Takes(Locals, v, roles) = {p \in Values(Locals, v) \X Values(Locals, v) : Takes1(p)}
  BY DEF Takes
<1>3. {p \in Values(Locals, v) \X Values(Locals, v) : Says(p)}
        = {p \in Values(Locals, v) \X Values(Locals, v) : Takes1(p)}
  <2> HIDE DEF Says, Takes1
  <2> QED BY <1>1
<1> QED BY <1>2, <1>3

(* A generated edge under ids is the move of its roles.                    *)
LEMMA CombinedMoves ==
  ASSUME IInv, phase = "expanded", LoadedPlain, NEW g, NEW targets, NEW c, Fits(g, targets, c),
         NEW ids \in [Params(targets) -> Instances]
  PROVE  EdgeMove(global, Locals, Restricted(Combined(g, targets, c), Len(global.constrains)), ids)
           = Move(global, Locals, g, c[1].event, ids, Roles(targets, c, ids))
<1> DEFINE x == Combined(g, targets, c)
           y == Restricted(x, Len(global.constrains))
           roles == Roles(targets, c, ids)
           event == c[1].event
           named == IF event = Tau THEN << >> ELSE ids
           args  == IF event = Tau THEN {} ELSE UNION {ToSet(r.edge.args) : r \in roles}
           arity == Cardinality(DOMAIN named) + Cardinality(args)
<1>1. x.origin # << >>
  <2>1. DOMAIN x.origin = DOMAIN targets
    BY DEF Combined, compose
  <2> QED BY <2>1 DEF Fits
<1>2. /\ y.src = g /\ y.event = x.event
      /\ x.event.name = event
      /\ x.event.ids = IF event = Tau THEN {} ELSE Params(targets)
      /\ x.event.args = IF event = Tau THEN {} ELSE ArgsOf(targets, c)
  BY CombinedSays, RestrictedFields
<1>3. \A m, i, e : Role(m, i, e).map = m /\ Role(m, i, e).instance = i /\ Role(m, i, e).edge = e
  BY DEF Role
<1>4. args = IF event = Tau THEN {} ELSE ArgsOf(targets, c)
  <2>1. ASSUME NEW r \in roles PROVE \E k \in DOMAIN targets : r.edge = c[k]
    BY <1>3 DEF Roles
  <2>2. ASSUME NEW k \in DOMAIN targets PROVE \E r \in roles : r.edge = c[k]
    <3>1. PICK r \in roles : r = Role(targets[k].map, ids[targets[k].param], c[k])
      BY DEF Roles
    <3> QED BY <3>1, <1>3
  <2> HIDE DEF roles
  <2>3. UNION {ToSet(r.edge.args) : r \in roles} = ArgsOf(targets, c)
    BY <2>1, <2>2 DEF ArgsOf
  <2> QED BY <2>3
<1>5. DOMAIN named = IF event = Tau THEN {} ELSE Params(targets)
  OBVIOUS
<1>6. arity = Cardinality(x.event.ids) + Cardinality(x.event.args)
  BY <1>2, <1>4, <1>5
<1>7. UNION {r.edge.guard : r \in roles} = GuardTexts(targets, c)
  <2>1. ASSUME NEW r \in roles PROVE \E k \in DOMAIN targets : r.edge = c[k]
    BY <1>3 DEF Roles
  <2>2. ASSUME NEW k \in DOMAIN targets PROVE \E r \in roles : r.edge = c[k]
    <3>1. PICK r \in roles : r = Role(targets[k].map, ids[targets[k].param], c[k])
      BY DEF Roles
    <3> QED BY <3>1, <1>3
  <2> HIDE DEF roles
  <2> QED BY <2>1, <2>2 DEF GuardTexts
<1>8. UNION {r.edge.post : r \in {r \in roles : r.edge.dst # Locals[r.map].start}}
        = PostTexts(targets, c)
  <2>1. \A k \in DOMAIN targets : Locals[targets[k].map] = Local(targets[k].map)
    BY DEF Locals, Fits
  <2> DEFINE Alive == {r \in roles : r.edge.dst # Locals[r.map].start}
  <2>2. ASSUME NEW t, NEW r \in Alive, t \in r.edge.post
        PROVE  t \in UNION {Kept(targets[k].map, c[k]) : k \in DOMAIN targets}
    <3>1. PICK k \in DOMAIN targets : r = Role(targets[k].map, ids[targets[k].param], c[k])
      BY DEF Roles
    <3>2. r.edge = c[k] /\ r.map = targets[k].map
      BY <3>1, <1>3
    <3>3. t \in Kept(targets[k].map, c[k])
      BY <2>1, <2>2, <3>2 DEF Kept
    <3> QED BY <3>3
  <2>3. ASSUME NEW k \in DOMAIN targets, NEW t \in Kept(targets[k].map, c[k])
        PROVE  \E r \in Alive : t \in r.edge.post
    <3>1. PICK r \in roles : r = Role(targets[k].map, ids[targets[k].param], c[k])
      BY DEF Roles
    <3>2. r.edge = c[k] /\ r.map = targets[k].map
      BY <3>1, <1>3
    <3>3. c[k].dst # Local(targets[k].map).start /\ t \in c[k].post
      BY DEF Kept
    <3> QED BY <2>1, <3>2, <3>3
  <2> HIDE DEF Alive
  <2>4. UNION {r.edge.post : r \in Alive} = UNION {Kept(targets[k].map, c[k]) : k \in DOMAIN targets}
    BY <2>2, <2>3
  <2> QED BY <2>4 DEF Alive, PostTexts
<1>9. ConstraintTexts(x, Len(global.constrains)) = Constraints(global, event, arity)
  <2> HIDE DEF x, args, named, arity
  <2>1. \A k : Matches(k, x) <=> k.event = event /\ Len(k.params) = arity
    BY <1>1, <1>2, <1>6 DEF Matches
  <2>2. \A j \in DOMAIN global.constrains : j <= Len(global.constrains)
    BY InputSequences, Sequential DEF IInv
  <2> DEFINE C == {k \in ToSet(global.constrains) : k.event = event /\ Len(k.params) = arity}
             J == {j \in DOMAIN global.constrains : j <= Len(global.constrains) /\ Matches(Constrain(j), x)}
  <2>3. \A j \in J : Constrain(j) \in C
    BY <2>1 DEF Constrain, ToSet
  <2>4. \A k \in C : \E j \in J : k = Constrain(j)
    BY <2>1, <2>2 DEF Constrain, ToSet
  <2> HIDE DEF C, J
  <2>5. UNION {Constrain(j).guard : j \in J} = UNION {k.guard : k \in C}
    BY <2>3, <2>4
  <2> QED BY <2>5 DEF C, J, Constraints, ConstraintTexts
<1>10. Texts(y.guard) = (UNION {r.edge.guard : r \in roles}) \cup Constraints(global, event, arity)
  <2>1. Texts(y.guard) = GuardTexts(targets, c) \cup ConstraintTexts(x, Len(global.constrains))
    BY TextsSaid
  <2> QED BY <1>7, <1>9, <2>1
<1>11. Texts(y.post) = UNION {r.edge.post : r \in {r \in roles : r.edge.dst # Locals[r.map].start}}
  <2>1. Texts(y.post) = PostTexts(targets, c)
    BY TextsSaid
  <2> QED BY <1>8, <2>1
<1>12. ASSUME NEW v \in DOMAIN global.vars[g]
       PROVE  {p \in Values(Locals, v) \X Values(Locals, v) :
                 /\ \A q \in About(y.guard, v) : SaysNow(Locals, q, ids, p[1])
                 /\ \A q \in About(y.post, v) : SaysNext(Locals, q, ids, p[1], p[2])}
              = Takes(Locals, v, roles)
  BY CombinedTakes DEF IInv, CheckInv, Checked
<1> QED
  <2> HIDE DEF x, y, roles, args, named, arity, event
  <2>1. [v \in DOMAIN global.vars[y.src] |->
           {p \in Values(Locals, v) \X Values(Locals, v) :
              /\ \A q \in About(y.guard, v) : SaysNow(Locals, q, ids, p[1])
              /\ \A q \in About(y.post, v) : SaysNext(Locals, q, ids, p[1], p[2])}]
        = [v \in DOMAIN global.vars[g] |-> Takes(Locals, v, roles)]
    BY <1>2, <1>12
  <2>2. <<y.event.ids, y.event.args>> = <<DOMAIN named, args>>
    BY <1>2, <1>4, <1>5
  <2>3. (IF y.event.name = Tau THEN << >> ELSE ids) = named
    BY <1>2 DEF named
  <2>4. EdgeMove(global, Locals, y, ids)
          = [in |-> g, event |-> event, args |-> <<DOMAIN named, args>>, ids |-> named,
             when |-> Texts(y.guard), then |-> Texts(y.post),
             effect |-> [v \in DOMAIN global.vars[g] |-> Takes(Locals, v, roles)]]
    BY <1>2, <2>1, <2>2, <2>3 DEF EdgeMove
  <2>5. Move(global, Locals, g, event, ids, roles)
          = [in |-> g, event |-> event, args |-> <<DOMAIN named, args>>, ids |-> named,
             when |-> (UNION {r.edge.guard : r \in roles}) \cup Constraints(global, event, arity),
             then |-> UNION {r.edge.post : r \in {r \in roles : r.edge.dst # Locals[r.map].start}},
             effect |-> [v \in DOMAIN global.vars[g] |-> Takes(Locals, v, roles)]]
    BY DEF Move, named, args, arity
  <2> QED BY <1>10, <1>11, <2>4, <2>5 DEF x, y, roles, event

-----------------------------------------------------------------------------
(* What is combined: an edge of a block's map that no sync took over, or a *)
(* side of each of a sync's maps.                                          *)
Single(i) == <<[map |-> Block(i).map, param |-> Block(i).idParam]>>

ByBlock(g, targets, c, i, e) ==
  /\ <<Block(i).in, Block(i).map, e.event>> \notin owned
  /\ g = Block(i).in /\ targets = Single(i) /\ c = <<e>>
BySync(g, targets, c, s) == g \in CommonStates(s) /\ c \in product(s) /\ targets = s.targets

IsCombined(g, targets, c) ==
  \/ \E i \in Blocks : \E e \in Local(Block(i).map).edges : ByBlock(g, targets, c, i, e)
  \/ \E s \in ToSet(global.syncs) : BySync(g, targets, c, s)

(* A block combines one edge of one map.                                   *)
LEMMA SingleTarget ==
  ASSUME NEW i
  PROVE  /\ DOMAIN Single(i) = {1}
         /\ Single(i)[1].map = Block(i).map /\ Single(i)[1].param = Block(i).idParam
         /\ Params(Single(i)) = {Block(i).idParam}
         /\ \A e, ids : Roles(Single(i), <<e>>, ids) = {Role(Block(i).map, ids[Block(i).idParam], e)}
<1>1. DOMAIN Single(i) = {1}
  BY DEF Single
<1>2. Single(i)[1].map = Block(i).map /\ Single(i)[1].param = Block(i).idParam
  BY DEF Single
<1>3. Params(Single(i)) = {Block(i).idParam}
  BY <1>1, <1>2 DEF Params
<1>4. ASSUME NEW e, NEW ids
      PROVE  Roles(Single(i), <<e>>, ids) = {Role(Block(i).map, ids[Block(i).idParam], e)}
  BY <1>1, <1>2 DEF Roles
<1> QED BY <1>1, <1>2, <1>3, <1>4

(* A planned sync has targets, all of different maps that are loaded.      *)
LEMMA SoundTargets ==
  ASSUME IInv, phase \in Planned, NEW s \in ToSet(global.syncs)
  PROVE  /\ IsSequence(s.targets) /\ 1 \in DOMAIN s.targets
         /\ \A k \in DOMAIN s.targets : s.targets[k].map \in DOMAIN loaded /\ s.targets[k].map \in Maps(s)
         /\ \A m \in Maps(s) : \E k \in DOMAIN s.targets : m = s.targets[k].map
         /\ \A j, k \in DOMAIN s.targets : s.targets[j].map = s.targets[k].map => j = k
<1>1. SyncSound(s)
  BY OwnedBySyncs
<1>2. IsSequence(s.targets)
  <2>1. IsSource([global |-> global, files |-> files])
    BY DEF IInv, InputOK
  <2> QED BY <2>1 DEF IsSource
<1>3. \A k \in DOMAIN s.targets : ~ NamedTwice(s, k) /\ Promoted(s, k)
  BY <1>1 DEF SyncSound, TargetErrors
<1>4. \E k : k \in DOMAIN s.targets
  BY <1>1 DEF SyncSound, CommonStates, Maps, ToSet
<1>5. DOMAIN s.targets = 1 .. Len(s.targets) /\ Len(s.targets) \in Nat
  BY <1>2, Sequential
<1>6. 1 \in DOMAIN s.targets
  BY <1>4, <1>5
<1>7. ASSUME NEW k \in DOMAIN s.targets PROVE s.targets[k].map \in DOMAIN loaded
  <2>1. PICK i \in Blocks : Block(i).map = s.targets[k].map
    BY <1>3 DEF Promoted, statesOf
  <2> QED BY <2>1 DEF IInv, CheckInv, AllLoaded, Planned
<1>8. ASSUME NEW j \in DOMAIN s.targets, NEW k \in DOMAIN s.targets, s.targets[j].map = s.targets[k].map
      PROVE  j = k
  <2>1. ~ j < k /\ ~ k < j
    BY <1>3, <1>5, <1>8 DEF NamedTwice
  <2> QED BY <2>1, <1>5
<1>9. \A k \in DOMAIN s.targets : s.targets[k].map \in Maps(s)
  BY DEF Maps, ToSet
<1>10. \A m \in Maps(s) : \E k \in DOMAIN s.targets : m = s.targets[k].map
  BY DEF Maps, ToSet
<1> QED BY <1>2, <1>6, <1>7, <1>8, <1>9, <1>10

(* What blocks and syncs combine fits together.                            *)
LEMMA CombinedFits ==
  ASSUME IInv, phase \in Planned
  PROVE  /\ \A i \in Blocks : \A e \in Local(Block(i).map).edges : Fits(Block(i).in, Single(i), <<e>>)
         /\ \A s \in ToSet(global.syncs) : \A g \in CommonStates(s), c \in product(s) :
              Fits(g, s.targets, c) /\ c[1].event = s.event
<1>0. InputOK /\ BlocksSound /\ AllLoaded
  BY DEF IInv, CheckInv, Planned
<1>1. ASSUME NEW i \in Blocks, NEW e \in Local(Block(i).map).edges PROVE Fits(Block(i).in, Single(i), <<e>>)
  <2>1. Block(i).in \in DOMAIN global.vars /\ Block(i).map \in DOMAIN global.vars[Block(i).in]
        /\ Block(i).map \in DOMAIN loaded
    BY <1>0, StatesOfBlocks DEF AllLoaded
  <2>2. <<e>>[1] = e
    OBVIOUS
  <2> QED BY <2>1, <2>2, SingleTarget DEF Fits
<1>2. ASSUME NEW s \in ToSet(global.syncs), NEW g \in CommonStates(s), NEW c \in product(s)
      PROVE  Fits(g, s.targets, c) /\ c[1].event = s.event
  <2>1. \A k \in DOMAIN s.targets : c[k] \in edgesOn(s.targets[k].map, s.event)
    BY DEF product
  <2>2. \A k \in DOMAIN s.targets : c[k] \in Local(s.targets[k].map).edges /\ c[k].event = s.event
    BY <2>1 DEF edgesOn
  <2>3. g \in DOMAIN global.vars /\ \A k \in DOMAIN s.targets : s.targets[k].map \in DOMAIN global.vars[g]
    BY <1>0, StatesOfBlocks, SoundTargets
  <2>4. c[1].event = s.event
    BY <2>2, SoundTargets
  <2> QED BY <2>2, <2>3, <2>4, SoundTargets DEF Fits
<1> QED BY <1>1, <1>2

(* The generated edges are the combinations of blocks and syncs.           *)
LEMMA BaseIsCombined ==
  ASSUME IInv, phase \in Planned
  PROVE  /\ \A x \in Base : \E g, targets, c : IsCombined(g, targets, c) /\ x = Combined(g, targets, c)
         /\ \A g, targets, c : IsCombined(g, targets, c) => Combined(g, targets, c) \in Base /\ Fits(g, targets, c)
<1>1. ASSUME NEW i, NEW e
      PROVE  compose(Block(i).in, <<parts(Block(i).map, Block(i).idParam, e)>>)
               = Combined(Block(i).in, Single(i), <<e>>)
  <2> DEFINE ps == [k \in DOMAIN Single(i) |-> parts(Single(i)[k].map, Single(i)[k].param, <<e>>[k])]
  <2>1. DOMAIN ps = {1} /\ ps[1] = parts(Block(i).map, Block(i).idParam, e)
    BY SingleTarget
  <2>2. ps = <<parts(Block(i).map, Block(i).idParam, e)>>
    <3> HIDE DEF ps
    <3>1. \E n : n \in {1}
      OBVIOUS
    <3>2. ps = [k \in {1} |-> ps[k]]
      BY <2>1 DEF ps
    <3> QED BY <2>1, <3>2
  <2> QED BY <2>2 DEF Combined
<1>2. ASSUME NEW x \in Base
      PROVE  \E g, targets, c : IsCombined(g, targets, c) /\ x = Combined(g, targets, c)
  <2>1. CASE x \in AllAlone
    <3>1. PICK i \in Blocks : x \in Alone(i)
      BY <2>1 DEF AllAlone
    <3>2. PICK e \in Local(Block(i).map).edges :
            /\ <<Block(i).in, Block(i).map, e.event>> \notin owned
            /\ x = compose(Block(i).in, <<parts(Block(i).map, Block(i).idParam, e)>>)
      BY <3>1 DEF Alone
    <3>3. x = Combined(Block(i).in, Single(i), <<e>>)
      BY <3>2, <1>1
    <3>4. IsCombined(Block(i).in, Single(i), <<e>>)
      BY <3>2 DEF IsCombined, ByBlock
    <3> QED BY <3>3, <3>4
  <2>2. ASSUME NEW p \in ToSet(plans), x \in Merged(p)
        PROVE  \E g, targets, c : IsCombined(g, targets, c) /\ x = Combined(g, targets, c)
    <3>1. PICK g \in p.states, c \in product(p.sync) : x = Combined(g, p.sync.targets, c)
      BY <2>2 DEF Merged
    <3>2. PICK s \in ToSet(global.syncs) : p = Plan(s)
      BY <2>2, OwnedBySyncs
    <3>3. p.sync = s /\ p.states = CommonStates(s)
      BY <3>2 DEF Plan
    <3>4. IsCombined(g, s.targets, c)
      BY <3>1, <3>3 DEF IsCombined, BySync
    <3> QED BY <3>1, <3>3, <3>4
  <2> QED BY <2>1, <2>2 DEF Base
<1>3. ASSUME NEW g, NEW targets, NEW c, IsCombined(g, targets, c)
      PROVE  Combined(g, targets, c) \in Base /\ Fits(g, targets, c)
  <2>1. ASSUME NEW i \in Blocks, NEW e \in Local(Block(i).map).edges, ByBlock(g, targets, c, i, e)
        PROVE  Combined(g, targets, c) \in Base /\ Fits(g, targets, c)
    <3>1. Combined(g, targets, c) = compose(Block(i).in, <<parts(Block(i).map, Block(i).idParam, e)>>)
      BY <1>1, <2>1 DEF ByBlock
    <3>2. Combined(g, targets, c) \in Alone(i)
      BY <3>1, <2>1 DEF Alone, ByBlock
    <3>3. Fits(g, targets, c)
      BY <2>1, CombinedFits DEF ByBlock
    <3> QED BY <3>2, <3>3 DEF Base, AllAlone
  <2>2. ASSUME NEW s \in ToSet(global.syncs), BySync(g, targets, c, s)
        PROVE  Combined(g, targets, c) \in Base /\ Fits(g, targets, c)
    <3>1. Plan(s) \in ToSet(plans) /\ Plan(s).sync = s /\ Plan(s).states = CommonStates(s)
      BY OwnedBySyncs DEF Plan
    <3>2. \A p : p.sync = s /\ p.states = CommonStates(s) => Combined(g, targets, c) \in Merged(p)
      BY <2>2 DEF Merged, BySync
    <3>3. Combined(g, targets, c) \in Merged(Plan(s))
      BY <3>1, <3>2
    <3>4. Fits(g, targets, c)
      BY <2>2, CombinedFits DEF BySync
    <3> QED BY <3>1, <3>3, <3>4 DEF Base
  <2> QED BY <1>3, <2>1, <2>2 DEF IsCombined
<1> QED BY <1>2, <1>3

-----------------------------------------------------------------------------
(* The moves of what is combined are those of the generated edges, and     *)
(* those of the families.                                                  *)
MoveOf(g, targets, c, ids) == Move(global, Locals, g, c[1].event, ids, Roles(targets, c, ids))
Moved(mv) ==
  \E g, targets, c : /\ IsCombined(g, targets, c)
                     /\ \E ids \in [Params(targets) -> Instances] : mv = MoveOf(g, targets, c, ids)

EdgeOf(g, targets, c) == Restricted(Combined(g, targets, c), Len(global.constrains))

(* The moves of the generated edges are those of what is combined.         *)
LEMMA EdgesMove ==
  ASSUME IInv, phase = "expanded", LoadedPlain, NEW mv
  PROVE  mv \in EdgeMoves(global, Locals, Generated) <=> Moved(mv)
<1>0. phase \in Planned
  BY DEF Planned, Checked
<1>1. ASSUME NEW g, NEW targets, NEW c, IsCombined(g, targets, c)
      PROVE  /\ EdgeOf(g, targets, c) \in Generated
             /\ IdsOf(EdgeOf(g, targets, c).guard) = Params(targets)
             /\ \A ids \in [Params(targets) -> Instances] :
                  EdgeMove(global, Locals, EdgeOf(g, targets, c), ids) = MoveOf(g, targets, c, ids)
  <2>1. Combined(g, targets, c) \in Base /\ Fits(g, targets, c)
    BY <1>0, <1>1, BaseIsCombined
  <2>2. EdgeOf(g, targets, c) \in Generated
    BY <2>1, ExpandedEdges DEF EdgeOf
  <2>3. IdsOf(EdgeOf(g, targets, c).guard) = Params(targets)
    BY <2>1, AboutSaid DEF EdgeOf
  <2>4. ASSUME NEW ids \in [Params(targets) -> Instances]
        PROVE  EdgeMove(global, Locals, EdgeOf(g, targets, c), ids) = MoveOf(g, targets, c, ids)
    BY <2>1, CombinedMoves DEF EdgeOf, MoveOf
  <2> QED BY <2>2, <2>3, <2>4
<1>2. ASSUME NEW y \in Generated
      PROVE  \E g, targets, c : IsCombined(g, targets, c) /\ y = EdgeOf(g, targets, c)
  <2>1. PICK x \in Base : y = Restricted(x, Len(global.constrains))
    BY ExpandedEdges DEF RestrictedBy
  <2>2. PICK g, targets, c : IsCombined(g, targets, c) /\ x = Combined(g, targets, c)
    BY <1>0, BaseIsCombined
  <2> QED BY <2>1, <2>2 DEF EdgeOf
<1>4. EdgeMoves(global, Locals, Generated)
        = UNION {{EdgeMove(global, Locals, y, ids) : ids \in [IdsOf(y.guard) -> Instances]} : y \in Generated}
  BY Zenon DEF EdgeMoves, IdsOf
<1>5. ASSUME mv \in EdgeMoves(global, Locals, Generated) PROVE Moved(mv)
  <2>1. PICK y \in Generated : mv \in {EdgeMove(global, Locals, y, ids) : ids \in [IdsOf(y.guard) -> Instances]}
    BY <1>4, <1>5
  <2>2. PICK ids \in [IdsOf(y.guard) -> Instances] : mv = EdgeMove(global, Locals, y, ids)
    BY <2>1
  <2>3. PICK g, targets, c : IsCombined(g, targets, c) /\ y = EdgeOf(g, targets, c)
    BY <1>2
  <2>4. ids \in [Params(targets) -> Instances] /\ mv = MoveOf(g, targets, c, ids)
    BY <1>1, <2>2, <2>3
  <2> QED BY <2>3, <2>4 DEF Moved
<1>6. ASSUME Moved(mv) PROVE mv \in EdgeMoves(global, Locals, Generated)
  <2>1. PICK g, targets, c : /\ IsCombined(g, targets, c)
                             /\ \E ids \in [Params(targets) -> Instances] : mv = MoveOf(g, targets, c, ids)
    BY <1>6 DEF Moved
  <2>2. PICK ids \in [Params(targets) -> Instances] : mv = MoveOf(g, targets, c, ids)
    BY <2>1
  <2>3. PICK y \in Generated : y = EdgeOf(g, targets, c)
    BY <1>1, <2>1
  <2>4. ids \in [IdsOf(y.guard) -> Instances] /\ mv = EdgeMove(global, Locals, y, ids)
    BY <1>1, <2>1, <2>2, <2>3
  <2> QED BY <1>4, <2>4
<1> QED BY <1>5, <1>6

(* The edges of a loaded map on an event: none starts and ends at the      *)
(* start state, and no instance comes to be silently.                      *)
LEMMA LocalEdgesOn ==
  ASSUME LocalsSound, NEW m \in DOMAIN loaded, NEW event
  PROVE  /\ LocalEdges(Locals, m, event) = edgesOn(m, event)
         /\ \A e : e \in edgesOn(m, event) <=> e \in Local(m).edges /\ e.event = event
         /\ EventsOf(Locals, m) = {e.event : e \in Local(m).edges}
<1>1. Locals[m] = Local(m)
  BY DEF Locals
<1>2. \A e \in Local(m).edges : e.src = Local(m).start => e.dst # Local(m).start /\ e.event # Tau
  BY DEF LocalsSound, Selfless, Appearing
<1>3. \A e : e \in edgesOn(m, event) <=> e \in Local(m).edges /\ e.event = event
  BY DEF edgesOn
<1>4. LocalEdges(Locals, m, event) = edgesOn(m, event)
  BY <1>1, <1>2 DEF LocalEdges, edgesOn
<1>5. EventsOf(Locals, m) = {e.event : e \in Local(m).edges}
  BY <1>1 DEF EventsOf
<1> QED BY <1>3, <1>4, <1>5

(* A sync takes an event over in the states where all of its maps move.    *)
LEMMA SyncsHappen ==
  ASSUME IInv, phase \in Planned
  PROVE  /\ \A s \in ToSet(global.syncs) : \A g : g \in CommonStates(s) <=> HappensIn(global, s, g)
         /\ \A s \in ToSet(global.syncs) : \A g \in CommonStates(s) : g \in DOMAIN global.vars
<1>1. \A g, m : g \in statesOf(m) <=> MovesIn(global, m, g)
  <2>1. ASSUME NEW g, NEW m, g \in statesOf(m) PROVE MovesIn(global, m, g)
    <3>1. PICK i \in Blocks : Block(i).map = m /\ Block(i).in = g
      BY <2>1 DEF statesOf
    <3>2. Block(i) \in ToSet(global.promotes)
      BY InputSequences, Sequential DEF IInv, Blocks, Block
    <3> QED BY <3>1, <3>2 DEF MovesIn
  <2>2. ASSUME NEW g, NEW m, MovesIn(global, m, g) PROVE g \in statesOf(m)
    <3>1. PICK p \in ToSet(global.promotes) : p.map = m /\ p.in = g
      BY <2>2 DEF MovesIn
    <3>2. PICK i \in Blocks : p = Block(i)
      BY InputSequences, Sequential DEF IInv, Blocks, Block
    <3> QED BY <3>1, <3>2 DEF statesOf
  <2> QED BY <2>1, <2>2
<1>2. ASSUME NEW s \in ToSet(global.syncs), NEW g PROVE g \in CommonStates(s) <=> HappensIn(global, s, g)
  <2>1. \E m : m \in Maps(s)
    BY SoundTargets
  <2>2. g \in CommonStates(s) <=> \A m \in Maps(s) : g \in statesOf(m)
    BY <2>1 DEF CommonStates
  <2> QED BY <1>1, <2>2 DEF HappensIn
<1>3. \A s \in ToSet(global.syncs) : \A g \in CommonStates(s) : g \in DOMAIN global.vars
  BY StatesOfBlocks DEF IInv, CheckInv, Planned
<1> QED BY <1>2, <1>3

(* The moves of a family on its own are those of its blocks.               *)
LEMMA AloneAreMoved ==
  ASSUME IInv, phase \in Planned, NEW mv
  PROVE  mv \in AloneMoves(global, Locals) <=>
           \E i \in Blocks : \E e \in Local(Block(i).map).edges :
              /\ <<Block(i).in, Block(i).map, e.event>> \notin owned
              /\ \E ids \in [Params(Single(i)) -> Instances] : mv = MoveOf(Block(i).in, Single(i), <<e>>, ids)
<1> DEFINE Free(p, event) == ~ TakenOver(global, p, event)
           Taken(p, i, e) == Move(global, Locals, p.in, e.event, [id \in {p.idParam} |-> i], {Role(p.map, i, e)})
           TakenOn(p, event, i, e) ==
             Move(global, Locals, p.in, event, [id \in {p.idParam} |-> i], {Role(p.map, i, e)})
           On(p, event) == MovesAlone(global, Locals, p, event)
           FreeEvents(p) == {event \in EventsOf(Locals, p.map) : Free(p, event)}
           Of(p) == UNION {On(p, event) : event \in FreeEvents(p)}
<1>1. ASSUME NEW i \in Blocks, NEW event
      PROVE  Free(Block(i), event) <=> <<Block(i).in, Block(i).map, event>> \notin owned
  BY OwnedBySyncs, SyncsHappen DEF TakenOver
<1>2. ASSUME NEW i \in Blocks
      PROVE  Block(i).map \in DOMAIN loaded /\ Block(i) \in ToSet(global.promotes)
  BY InputSequences, Sequential DEF IInv, CheckInv, AllLoaded, Planned, Blocks, Block
<1>3. \A p \in ToSet(global.promotes) : \E i \in Blocks : p = Block(i)
  BY InputSequences, Sequential DEF IInv, Blocks, Block
<1>4. LocalsSound
  BY DEF IInv, CheckInv, Planned
<1>5. ASSUME NEW i \in Blocks, NEW e, NEW n \in Instances
      PROVE  /\ [id \in {Block(i).idParam} |-> n] \in [Params(Single(i)) -> Instances]
             /\ Taken(Block(i), n, e) = MoveOf(Block(i).in, Single(i), <<e>>, [id \in {Block(i).idParam} |-> n])
  <2> DEFINE ids == [id \in {Block(i).idParam} |-> n]
  <2>1. ids \in [Params(Single(i)) -> Instances] /\ ids[Block(i).idParam] = n
    BY SingleTarget
  <2>2. Roles(Single(i), <<e>>, ids) = {Role(Block(i).map, n, e)}
    <3> HIDE DEF ids
    <3> QED BY <2>1, SingleTarget
  <2>3. <<e>>[1] = e
    OBVIOUS
  <2> HIDE DEF ids
  <2>4. MoveOf(Block(i).in, Single(i), <<e>>, ids)
          = Move(global, Locals, Block(i).in, e.event, ids, {Role(Block(i).map, n, e)})
    BY <2>2, <2>3 DEF MoveOf
  <2> QED BY <2>1, <2>4 DEF ids
<1>6. AloneMoves(global, Locals) = UNION {Of(p) : p \in ToSet(global.promotes)}
  BY DEF AloneMoves
<1>6a. \A p : \A event \in FreeEvents(p) : event \in EventsOf(Locals, p.map) /\ Free(p, event)
  OBVIOUS
<1>6b. \A p : \A event \in EventsOf(Locals, p.map) : Free(p, event) => event \in FreeEvents(p)
  OBVIOUS
<1>6c. \A p, i, e : Taken(p, i, e) = TakenOn(p, e.event, i, e)
  OBVIOUS
<1>6d. \A p, event : \A x : x \in On(p, event) <=>
         \E i \in Instances, e \in LocalEdges(Locals, p.map, event) : x = TakenOn(p, event, i, e)
  BY DEF MovesAlone
<1> HIDE DEF Free, FreeEvents, Taken, TakenOn, On, Of
<1>7. ASSUME mv \in AloneMoves(global, Locals)
      PROVE  \E i \in Blocks : \E e \in Local(Block(i).map).edges :
               /\ <<Block(i).in, Block(i).map, e.event>> \notin owned
               /\ \E ids \in [Params(Single(i)) -> Instances] : mv = MoveOf(Block(i).in, Single(i), <<e>>, ids)
  <2>1. PICK p \in ToSet(global.promotes) : mv \in Of(p)
    BY <1>6, <1>7
  <2>2. PICK event \in FreeEvents(p) : mv \in On(p, event)
    BY <2>1 DEF Of
  <2>3. PICK n \in Instances, e \in LocalEdges(Locals, p.map, event) : mv = TakenOn(p, event, n, e)
    BY <1>6d, <2>2
  <2>4. PICK i \in Blocks : p = Block(i)
    BY <1>3
  <2>5. e \in Local(Block(i).map).edges /\ e.event = event
    BY <1>2, <1>4, <2>4, LocalEdgesOn
  <2>6. mv = Taken(Block(i), n, e)
    BY <1>6c, <2>3, <2>4, <2>5
  <2>7. <<Block(i).in, Block(i).map, e.event>> \notin owned
    BY <1>1, <1>6a, <2>4, <2>5
  <2>8. PICK ids \in [Params(Single(i)) -> Instances] : mv = MoveOf(Block(i).in, Single(i), <<e>>, ids)
    BY <1>5, <2>6
  <2> QED BY <2>5, <2>7, <2>8
<1>8. ASSUME NEW i \in Blocks, NEW e \in Local(Block(i).map).edges,
             <<Block(i).in, Block(i).map, e.event>> \notin owned,
             NEW ids \in [Params(Single(i)) -> Instances], mv = MoveOf(Block(i).in, Single(i), <<e>>, ids)
      PROVE  mv \in AloneMoves(global, Locals)
  <2>1. PICK p \in ToSet(global.promotes) : p = Block(i)
    BY <1>2
  <2>2. PICK n \in Instances : ids = [id \in {Block(i).idParam} |-> n]
    <3>1. Params(Single(i)) = {Block(i).idParam}
      BY SingleTarget
    <3>2. /\ ids[Block(i).idParam] \in Instances
          /\ ids = [id \in {Block(i).idParam} |-> ids[Block(i).idParam]]
      BY <3>1
    <3> QED BY <3>2
  <2>3. e.event \in FreeEvents(p)
    <3>1. e.event \in EventsOf(Locals, p.map)
      BY <1>2, <1>4, <2>1, LocalEdgesOn
    <3>2. Free(p, e.event)
      BY <1>1, <1>8, <2>1
    <3> QED BY <1>6b, <3>1, <3>2
  <2>4. e \in LocalEdges(Locals, p.map, e.event)
    BY <1>2, <1>4, <2>1, LocalEdgesOn
  <2>5. mv = TakenOn(p, e.event, n, e)
    BY <1>5, <1>6c, <1>8, <2>1, <2>2
  <2>6. mv \in On(p, e.event)
    BY <1>6d, <2>4, <2>5
  <2>7. mv \in Of(p)
    BY <2>3, <2>6 DEF Of
  <2> QED BY <1>6, <2>7
<1> QED BY <1>7, <1>8

(* The moves of families together are those of the syncs.                  *)
LEMMA SyncsAreMoved ==
  ASSUME IInv, phase \in Planned, NEW mv
  PROVE  mv \in SyncMoves(global, Locals) <=>
           \E s \in ToSet(global.syncs) : \E g \in CommonStates(s), c \in product(s) :
              \E ids \in [Params(s.targets) -> Instances] : mv = MoveOf(g, s.targets, c, ids)
<1> DEFINE RolesOf(s, c, ids) == {Role(s.targets[k].map, ids[s.targets[k].param], c[k]) : k \in DOMAIN c}
           TakenBy(s, g, ids, c) == Move(global, Locals, g, s.event, ids, RolesOf(s, c, ids))
           IdsFor(s) == [{t.param : t \in ToSet(s.targets)} -> Instances]
           On(s, g) == MovesTogether(global, Locals, s, g)
           StatesFor(s) == {g \in DOMAIN global.vars : HappensIn(global, s, g)}
           Of(s) == UNION {On(s, g) : g \in StatesFor(s)}
<1>1. SyncMoves(global, Locals) = UNION {Of(s) : s \in ToSet(global.syncs)}
  BY DEF SyncMoves
<1>2. ASSUME NEW s \in ToSet(global.syncs)
      PROVE  /\ StatesFor(s) = CommonStates(s)
             /\ IdsFor(s) = [Params(s.targets) -> Instances]
             /\ SideChoices(Locals, s) = product(s)
  <2>1. StatesFor(s) = CommonStates(s)
    BY SyncsHappen
  <2>2. {t.param : t \in ToSet(s.targets)} = Params(s.targets)
    BY SoundTargets, Sequential DEF Params
  <2>3. \A m \in Maps(s) : LocalEdges(Locals, m, s.event) = edgesOn(m, s.event)
    BY SoundTargets, LocalEdgesOn DEF IInv, CheckInv, Planned
  <2>4. UNION {LocalEdges(Locals, m, s.event) : m \in Maps(s)} = UNION {edgesOn(m, s.event) : m \in Maps(s)}
    BY <2>3
  <2>5. \A k \in DOMAIN s.targets : LocalEdges(Locals, s.targets[k].map, s.event) = edgesOn(s.targets[k].map, s.event)
    BY <2>3, SoundTargets
  <2>6. SideChoices(Locals, s) = product(s)
    <3> DEFINE S == UNION {edgesOn(m, s.event) : m \in Maps(s)}
    <3>1. ASSUME NEW c \in [DOMAIN s.targets -> S]
          PROVE  (\A k \in DOMAIN c : c[k] \in LocalEdges(Locals, s.targets[k].map, s.event)) <=>
                 (\A k \in DOMAIN c : c[k] \in edgesOn(s.targets[k].map, s.event))
      BY <2>5
    <3>2. product(s) = {c \in [DOMAIN s.targets -> S] : \A k \in DOMAIN c : c[k] \in edgesOn(s.targets[k].map, s.event)}
      BY DEF product
    <3>3. SideChoices(Locals, s) = {c \in [DOMAIN s.targets -> S] :
                          \A k \in DOMAIN c : c[k] \in LocalEdges(Locals, s.targets[k].map, s.event)}
      BY Zenon, <2>4 DEF SideChoices
    <3> HIDE DEF S
    <3> QED BY <3>1, <3>2, <3>3
  <2> HIDE DEF StatesFor
  <2> QED BY <2>1, <2>2, <2>6
<1>3. ASSUME NEW s \in ToSet(global.syncs), NEW g \in CommonStates(s), NEW c \in product(s), NEW ids
      PROVE  TakenBy(s, g, ids, c) = MoveOf(g, s.targets, c, ids)
  <2>1. DOMAIN c = DOMAIN s.targets
    BY DEF product
  <2>2. RolesOf(s, c, ids) = Roles(s.targets, c, ids)
    BY <2>1 DEF Roles
  <2>3. c[1].event = s.event
    BY CombinedFits
  <2> HIDE DEF RolesOf
  <2> QED BY <2>2, <2>3 DEF MoveOf
<1>3a. \A s, g : \A x : x \in On(s, g) <=>
         \E ids \in IdsFor(s), c \in SideChoices(Locals, s) : x = TakenBy(s, g, ids, c)
  BY DEF MovesTogether
<1> HIDE DEF StatesFor, IdsFor, TakenBy, RolesOf, On, Of
<1>4. ASSUME mv \in SyncMoves(global, Locals)
      PROVE  \E s \in ToSet(global.syncs) : \E g \in CommonStates(s), c \in product(s) :
               \E ids \in [Params(s.targets) -> Instances] : mv = MoveOf(g, s.targets, c, ids)
  <2>1. PICK s \in ToSet(global.syncs) : mv \in Of(s)
    BY <1>1, <1>4
  <2>2. PICK g \in StatesFor(s) : mv \in On(s, g)
    BY <2>1 DEF Of
  <2>3. PICK ids \in IdsFor(s), c \in SideChoices(Locals, s) : mv = TakenBy(s, g, ids, c)
    BY <1>3a, <2>2
  <2> QED BY <1>2, <1>3, <2>3
<1>5. ASSUME NEW s \in ToSet(global.syncs), NEW g \in CommonStates(s), NEW c \in product(s),
             NEW ids \in [Params(s.targets) -> Instances], mv = MoveOf(g, s.targets, c, ids)
      PROVE  mv \in SyncMoves(global, Locals)
  <2>1. mv = TakenBy(s, g, ids, c)
    BY <1>3, <1>5
  <2>2. mv \in On(s, g)
    BY <1>2, <1>3a, <2>1
  <2>3. mv \in Of(s)
    BY <1>2, <2>2 DEF Of
  <2> QED BY <1>1, <2>3
<1> QED BY <1>4, <1>5

(* So the moves of the families are those of what is combined.             *)
LEMMA FamiliesMove ==
  ASSUME IInv, phase \in Planned, NEW mv
  PROVE  mv \in FamilyMoves(global, Locals) <=> Moved(mv)
<1>1. ASSUME NEW i \in Blocks, NEW e \in Local(Block(i).map).edges,
             <<Block(i).in, Block(i).map, e.event>> \notin owned
      PROVE  IsCombined(Block(i).in, Single(i), <<e>>)
  BY <1>1 DEF IsCombined, ByBlock
<1>2. ASSUME NEW s \in ToSet(global.syncs), NEW g \in CommonStates(s), NEW c \in product(s)
      PROVE  IsCombined(g, s.targets, c)
  BY DEF IsCombined, BySync
<1>3. ASSUME mv \in FamilyMoves(global, Locals) PROVE Moved(mv)
  <2>1. CASE mv \in AloneMoves(global, Locals)
    <3>1. PICK i \in Blocks : \E e \in Local(Block(i).map).edges :
              /\ <<Block(i).in, Block(i).map, e.event>> \notin owned
              /\ \E ids \in [Params(Single(i)) -> Instances] : mv = MoveOf(Block(i).in, Single(i), <<e>>, ids)
      BY <2>1, AloneAreMoved
    <3>2. PICK e \in Local(Block(i).map).edges :
              /\ <<Block(i).in, Block(i).map, e.event>> \notin owned
              /\ \E ids \in [Params(Single(i)) -> Instances] : mv = MoveOf(Block(i).in, Single(i), <<e>>, ids)
      BY <3>1
    <3> QED BY <1>1, <3>2 DEF Moved
  <2>2. CASE mv \in SyncMoves(global, Locals)
    <3>1. PICK s \in ToSet(global.syncs) : \E g \in CommonStates(s), c \in product(s) :
              \E ids \in [Params(s.targets) -> Instances] : mv = MoveOf(g, s.targets, c, ids)
      BY <2>2, SyncsAreMoved
    <3>2. PICK g \in CommonStates(s), c \in product(s) :
              \E ids \in [Params(s.targets) -> Instances] : mv = MoveOf(g, s.targets, c, ids)
      BY <3>1
    <3> QED BY <1>2, <3>2 DEF Moved
  <2> QED BY <1>3, <2>1, <2>2 DEF FamilyMoves
<1>4. ASSUME NEW g, NEW targets, NEW c, IsCombined(g, targets, c),
             NEW ids \in [Params(targets) -> Instances], mv = MoveOf(g, targets, c, ids)
      PROVE  mv \in FamilyMoves(global, Locals)
  <2>1. ASSUME NEW i \in Blocks, NEW e \in Local(Block(i).map).edges, ByBlock(g, targets, c, i, e)
        PROVE  mv \in FamilyMoves(global, Locals)
    <3>1. ids \in [Params(Single(i)) -> Instances] /\ mv = MoveOf(Block(i).in, Single(i), <<e>>, ids)
      BY <1>4, <2>1 DEF ByBlock
    <3>2. mv \in AloneMoves(global, Locals)
      BY <2>1, <3>1, AloneAreMoved DEF ByBlock
    <3> QED BY <3>2 DEF FamilyMoves
  <2>2. ASSUME NEW s \in ToSet(global.syncs), BySync(g, targets, c, s)
        PROVE  mv \in FamilyMoves(global, Locals)
    <3>1. /\ g \in CommonStates(s) /\ c \in product(s)
          /\ ids \in [Params(s.targets) -> Instances] /\ mv = MoveOf(g, s.targets, c, ids)
      BY <1>4, <2>2 DEF BySync
    <3>2. mv \in SyncMoves(global, Locals)
      BY <3>1, SyncsAreMoved
    <3> QED BY <3>2 DEF FamilyMoves
  <2> QED BY <1>4, <2>1, <2>2 DEF IsCombined
<1> QED BY <1>3, <1>4 DEF Moved

-----------------------------------------------------------------------------
(* The hypothesis of the theorems below.  Of diagrams with namesakes they  *)
(* are false, as the run promotion_names shows.                            *)
PlainInputs ==
  /\ \A s \in Sources : \A path \in DOMAIN s.files : PlainDiagram(s.files[path])
  /\ \A path \in DOMAIN LocalFiles : PlainDiagram(LocalFiles[path])
PlainFiles == \A path \in DOMAIN files : PlainDiagram(files[path])

(* The local diagrams stay as they were read.                              *)
LEMMA FilesStayPlain ==
  ASSUME PlainInputs PROVE ReaderSpec => []PlainFiles
<1>1. ReaderInit \/ CallerInit => PlainFiles
  BY DEF ReaderInit, CallerInit, Init, PlainInputs, PlainFiles
<1>2. PlainFiles /\ [ReaderNext]_readerVars => PlainFiles'
  <2>1. [ReaderNext]_readerVars => UNCHANGED files
    BY Expanding DEF ReaderNext, readerVars, vars, expandVars, ParseGlobal
  <2> QED BY <2>1 DEF PlainFiles
<1> QED BY <1>1, <1>2, PTL DEF ReaderSpec

(* So those that are loaded are plain as well.                             *)
LEMMA LoadedArePlain ==
  ASSUME IInv, PlainFiles, phase \in Planned PROVE LoadedPlain
<1>1. \A m \in DOMAIN loaded : Readable(loaded[m])
  BY LoadedFrom DEF IInv, LoadInv, Planned, Checked
<1> QED BY <1>1 DEF Readable, LoadedPlain, Local, PlainFiles

(* The invariant implies the promise of docs/PROMOTION.md.                 *)
LEMMA ExpansionFollows ==
  ASSUME IInv, PlainFiles PROVE ExpansionIsFamily
<1> SUFFICES ASSUME phase = "expanded"
             PROVE  /\ Possible(EdgeMoves(global, Locals, Generated)) = Possible(FamilyMoves(global, Locals))
                    /\ edges \ Generated = global.edges
  BY Zenon DEF ExpansionIsFamily
<1>1. phase \in Planned
  BY DEF Planned, Checked
<1>2. \A mv : mv \in EdgeMoves(global, Locals, Generated) <=> mv \in FamilyMoves(global, Locals)
  BY <1>1, LoadedArePlain, EdgesMove, FamiliesMove
<1>3. EdgeMoves(global, Locals, Generated) = FamilyMoves(global, Locals)
  BY <1>2
<1> QED BY <1>3, ExpandedEdges

(* What csdfpromote prints moves exactly as the families of instances do,  *)
(* for every global diagram, every set of local diagrams, and every number *)
(* of instances: an event that a SYNC takes over is neither lost nor left  *)
(* over, a constraint guards every edge it matches, and no other variable  *)
(* changes.                                                                *)
THEOREM ExpandsFamilies ==
  ASSUME PlainInputs PROVE ReaderSpec => []ExpansionIsFamily
<1>1. ReaderInv /\ PlainFiles => ExpansionIsFamily
  <2>1. CASE phase # "expanded"
    BY <2>1 DEF ExpansionIsFamily
  <2> QED BY <2>1, ExpansionFollows DEF ReaderInv
<1> QED BY <1>1, ReaderInductive, FilesStayPlain, PTL

-----------------------------------------------------------------------------
(* Some values take every move, and a move changes each of its maps.       *)
LEMMA RolesTake ==
  ASSUME LoadedPlain, LocalsSound, NEW g, NEW targets, NEW c, Fits(g, targets, c),
         NEW ids \in [Params(targets) -> Instances], NEW v \in DOMAIN global.vars[g]
  PROVE  /\ Takes(Locals, v, Roles(targets, c, ids)) # {}
         /\ v \in MapsOf(targets) => Takes(Locals, v, Roles(targets, c, ids)) # Takes(Locals, v, {})
<1> DEFINE roles == Roles(targets, c, ids)
           mine == {r \in roles : r.map = v}
           Taken(p) == /\ mine = {} => p[1] = p[2]
                       /\ \A r \in mine : p[1][r.instance] = r.edge.src /\ p[2][r.instance] = r.edge.dst
                       /\ mine # {} => \A i \in Instances \ {r.instance : r \in mine} : p[1][i] = p[2][i]
<1>0. \A m, i, e : Role(m, i, e).map = m /\ Role(m, i, e).instance = i /\ Role(m, i, e).edge = e
  BY DEF Role
<1>1. Takes(Locals, v, roles) = {p \in Values(Locals, v) \X Values(Locals, v) : Taken(p)}
  BY DEF Takes
<1>2. \A x \in Values(Locals, v) : <<x, x>> \in Takes(Locals, v, {})
  BY DEF Takes
<1>3. ASSUME v \in DOMAIN loaded
      PROVE  /\ Values(Locals, v) = [Instances -> Local(v).states]
             /\ Local(v).start \in Local(v).states
  BY <1>3 DEF Values, Locals, LoadedPlain, PlainDiagram
<1>4. CASE v \notin MapsOf(targets)
  <2>1. mine = {}
    BY <1>0, <1>4 DEF Roles, MapsOf
  <2>2. \E x : x \in Values(Locals, v)
    <3>1. CASE v \in DOMAIN loaded
      <4>1. [i \in Instances |-> Local(v).start] \in Values(Locals, v)
        BY <1>3, <3>1
      <4> QED BY <4>1
    <3>2. CASE v \notin DOMAIN loaded
      BY <3>2 DEF Values, Locals
    <3> QED BY <3>1, <3>2
  <2>3. PICK x \in Values(Locals, v) : TRUE
    BY <2>2
  <2> HIDE DEF mine, roles
  <2>4. Taken(<<x, x>>)
    BY <2>1
  <2>5. <<x, x>> \in Takes(Locals, v, roles)
    BY <1>1, <2>4
  <2> QED BY <1>4, <2>5 DEF roles
<1>5. ASSUME NEW k \in DOMAIN targets, targets[k].map = v
      PROVE  Takes(Locals, v, roles) # {} /\ Takes(Locals, v, roles) # Takes(Locals, v, {})
  <2> DEFINE n == ids[targets[k].param]
             e == c[k]
             d == Local(v)
             start == [i \in Instances |-> d.start]
             x == [i \in Instances |-> IF i = n THEN e.src ELSE d.start]
             y == [i \in Instances |-> IF i = n THEN e.dst ELSE d.start]
  <2>1. v \in DOMAIN loaded /\ e \in d.edges /\ n \in Instances
    BY <1>5 DEF Fits, Params
  <2>2. mine = {Role(v, n, e)}
    <3>1. \A j \in DOMAIN targets : targets[j].map = v => j = k
      BY <1>5 DEF Fits
    <3> QED BY <3>1, <1>5, <1>0 DEF Roles
  <2>3. d.start \in d.states /\ e.src \in d.states /\ e.dst \in d.states /\ ~ (e.src = d.start /\ e.dst = d.start)
    BY <2>1 DEF LoadedPlain, PlainDiagram, LocalsSound, Selfless
  <2> HIDE DEF n, e, d, mine, roles
  <2>4. /\ {r.instance : r \in mine} = {n} /\ mine # {}
        /\ \A r \in mine : r.instance = n /\ r.edge = e
    BY <1>0, <2>2
  <2>5. x \in Values(Locals, v) /\ y \in Values(Locals, v) /\ start \in Values(Locals, v)
    BY <1>3, <2>1, <2>3 DEF d
  <2>6. Taken(<<x, y>>)
    BY <2>1, <2>4
  <2>7. ~ Taken(<<start, start>>)
    BY <2>1, <2>3, <2>4
  <2> HIDE DEF x, y, start, Taken
  <2>8. <<x, y>> \in Takes(Locals, v, roles)
    BY <1>1, <2>5, <2>6
  <2>9. <<start, start>> \notin Takes(Locals, v, roles) /\ <<start, start>> \in Takes(Locals, v, {})
    BY <1>1, <1>2, <2>5, <2>7
  <2> QED BY <2>8, <2>9
<1> QED BY <1>4, <1>5 DEF MapsOf

(* Whatever is combined is a move that some values allow and that changes  *)
(* each of its maps.                                                       *)
LEMMA MovesArePossible ==
  ASSUME IInv, phase = "expanded", LoadedPlain, NEW g, NEW targets, NEW c, IsCombined(g, targets, c),
         NEW ids \in [Params(targets) -> Instances]
  PROVE  /\ MoveOf(g, targets, c, ids) \in Possible(EdgeMoves(global, Locals, Generated))
         /\ MoveOf(g, targets, c, ids).event = c[1].event
         /\ DOMAIN MoveOf(g, targets, c, ids).effect = DOMAIN global.vars[g]
         /\ \A m \in MapsOf(targets) : MoveOf(g, targets, c, ids).effect[m] # Takes(Locals, m, {})
<1> DEFINE mv == MoveOf(g, targets, c, ids)
           effect == [v \in DOMAIN global.vars[g] |-> Takes(Locals, v, Roles(targets, c, ids))]
<1>1. Fits(g, targets, c) /\ LocalsSound
  BY BaseIsCombined DEF IInv, CheckInv, Planned, Checked
<1>2. mv.event = c[1].event /\ mv.effect = effect
  BY DEF MoveOf, Move
<1>3. mv \in EdgeMoves(global, Locals, Generated)
  BY EdgesMove DEF Moved
<1>4. \A v \in DOMAIN global.vars[g] :
        effect[v] # {} /\ (v \in MapsOf(targets) => effect[v] # Takes(Locals, v, {}))
  BY <1>1, RolesTake
<1>5. MapsOf(targets) \subseteq DOMAIN global.vars[g]
  BY <1>1 DEF Fits, MapsOf
<1>6. DOMAIN effect = DOMAIN global.vars[g]
  OBVIOUS
<1> HIDE DEF mv, effect
<1>7. mv \in Possible(EdgeMoves(global, Locals, Generated))
  BY <1>2, <1>3, <1>4, <1>6 DEF Possible
<1> QED BY <1>2, <1>4, <1>5, <1>6, <1>7 DEF mv

(* The invariant implies that no directive is idle.                        *)
LEMMA DirectivesFollow ==
  ASSUME IInv, PlainFiles, Instances # {} PROVE DirectivesApply
<1> DEFINE moves == Possible(EdgeMoves(global, Locals, Generated))
<1> SUFFICES ASSUME phase = "expanded"
             PROVE  /\ \A s \in ToSet(global.syncs) : \E mv \in moves :
                         /\ mv.event = s.event
                         /\ \A m \in Maps(s) : m \in DOMAIN mv.effect /\ mv.effect[m] # Takes(Locals, m, {})
                    /\ \A c \in ToSet(global.constrains) : \E mv \in moves :
                         mv.event = c.event /\ c.guard \subseteq mv.when
  BY Zenon DEF DirectivesApply
<1>0. phase \in Planned
  BY DEF Planned, Checked
<1>1. LoadedPlain
  BY <1>0, LoadedArePlain
<1>2. PICK one \in Instances : TRUE
  OBVIOUS
<1>3. ASSUME NEW s \in ToSet(global.syncs)
      PROVE  \E mv \in moves :
               /\ mv.event = s.event
               /\ \A m \in Maps(s) : m \in DOMAIN mv.effect /\ mv.effect[m] # Takes(Locals, m, {})
  <2>1. SyncSound(s)
    BY <1>0, OwnedBySyncs
  <2>2. PICK g : g \in CommonStates(s)
    BY <2>1 DEF SyncSound
  <2>3. \A k \in DOMAIN s.targets : \E e : e \in edgesOn(s.targets[k].map, s.event)
    <3>1. \A k \in DOMAIN s.targets : ~ NamedTwice(s, k) /\ Promoted(s, k) /\ Sided(s, k)
      BY <2>1 DEF SyncSound, TargetErrors
    <3> QED BY <3>1 DEF Sided
  <2> DEFINE c == [k \in DOMAIN s.targets |-> CHOOSE e : e \in edgesOn(s.targets[k].map, s.event)]
  <2>4. \A k \in DOMAIN s.targets : c[k] \in edgesOn(s.targets[k].map, s.event)
    BY <2>3
  <2>5. c \in product(s)
    <3>1. c \in [DOMAIN s.targets -> UNION {edgesOn(o, s.event) : o \in Maps(s)}]
      <4>1. \A k \in DOMAIN s.targets : s.targets[k].map \in Maps(s)
        BY <1>0, SoundTargets
      <4> QED BY <2>4, <4>1
    <3> QED BY <2>4, <3>1 DEF product
  <2> HIDE DEF c
  <2> DEFINE ids == [id \in Params(s.targets) |-> one]
  <2>6. ids \in [Params(s.targets) -> Instances]
    OBVIOUS
  <2> HIDE DEF ids, moves
  <2>7. IsCombined(g, s.targets, c)
    BY <2>2, <2>5 DEF IsCombined, BySync
  <2>8. /\ MoveOf(g, s.targets, c, ids) \in moves
        /\ MoveOf(g, s.targets, c, ids).event = c[1].event
        /\ DOMAIN MoveOf(g, s.targets, c, ids).effect = DOMAIN global.vars[g]
        /\ \A m \in MapsOf(s.targets) : MoveOf(g, s.targets, c, ids).effect[m] # Takes(Locals, m, {})
    BY <1>1, <2>6, <2>7, MovesArePossible DEF moves
  <2>9. Fits(g, s.targets, c) /\ c[1].event = s.event
    BY <1>0, <2>2, <2>5, CombinedFits
  <2>10. \A m \in Maps(s) : m \in MapsOf(s.targets) /\ m \in DOMAIN global.vars[g]
    BY <1>0, <2>9, SoundTargets DEF MapsOf, Fits
  <2> QED BY <2>8, <2>9, <2>10
<1>4. ASSUME NEW j \in DOMAIN global.constrains
      PROVE  \E mv \in moves : mv.event = Constrain(j).event /\ Constrain(j).guard \subseteq mv.when
  <2>1. PICK x \in Base : Matches(Constrain(j), x)
    BY DEF IInv, DiagsInv, Guards
  <2>2. PICK g, targets, c : IsCombined(g, targets, c) /\ x = Combined(g, targets, c)
    BY <1>0, BaseIsCombined
  <2>3. Fits(g, targets, c)
    BY <1>0, <2>2, BaseIsCombined
  <2> DEFINE ids == [id \in Params(targets) |-> one]
  <2>4. ids \in [Params(targets) -> Instances]
    OBVIOUS
  <2> HIDE DEF ids, moves
  <2>5. MoveOf(g, targets, c, ids) \in moves /\ MoveOf(g, targets, c, ids).event = c[1].event
    BY <1>1, <2>2, <2>4, MovesArePossible DEF moves
  <2>6. MoveOf(g, targets, c, ids) = EdgeMove(global, Locals, EdgeOf(g, targets, c), ids)
    BY <1>1, <2>3, <2>4, CombinedMoves DEF MoveOf, EdgeOf
  <2>7. MoveOf(g, targets, c, ids).when = Texts(EdgeOf(g, targets, c).guard)
    BY <2>6 DEF EdgeMove
  <2>8. ConstraintTexts(x, Len(global.constrains)) \subseteq Texts(EdgeOf(g, targets, c).guard)
    BY <2>2, <2>3, TextsSaid DEF EdgeOf
  <2>9. Constrain(j).guard \subseteq ConstraintTexts(x, Len(global.constrains))
    <3>1. j <= Len(global.constrains)
      BY InputSequences, Sequential DEF IInv
    <3> QED BY <2>1, <3>1 DEF ConstraintTexts
  <2>10. c[1].event = Constrain(j).event
    BY <2>1, <2>2, <2>3, CombinedSays DEF Matches
  <2> QED BY <2>5, <2>7, <2>8, <2>9, <2>10
<1>5. \A c \in ToSet(global.constrains) : \E j \in DOMAIN global.constrains : c = Constrain(j)
  BY InputSequences, Sequential DEF IInv, Constrain
<1> QED BY <1>3, <1>4, <1>5

(* When there is an instance, every SYNC of an expanded diagram is an      *)
(* event that all of its families can take together, and every CONSTRAIN   *)
(* guards a move: what cannot apply has been refused (planSyncs,           *)
(* constrain).                                                             *)
THEOREM EveryDirectiveApplies ==
  ASSUME PlainInputs, Instances # {} PROVE ReaderSpec => []DirectivesApply
<1>1. ReaderInv /\ PlainFiles => DirectivesApply
  <2>1. CASE phase # "expanded"
    BY <2>1 DEF DirectivesApply
  <2> QED BY <2>1, DirectivesFollow DEF ReaderInv
<1> QED BY <1>1, ReaderInductive, FilesStayPlain, PTL

=============================================================================
