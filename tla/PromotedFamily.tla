--------------------------- MODULE PromotedFamily ---------------------------
(***************************************************************************)
(* What docs/PROMOTION.md promises of a promotion, stated without edges:   *)
(* the moves of families of instances, and what a generated edge says.     *)
(* A family is a map from instances to local states in which the local     *)
(* start state stands for an instance that does not exist.                 *)
(*                                                                         *)
(* A move relates the values of each state variable before and after it.   *)
(* Nothing couples two variables but the names of the instances, so the    *)
(* effect of a move is one relation per variable.                          *)
(*                                                                         *)
(* global: [vars: state -> variable -> types its text mentions, edges,     *)
(*          promotes, syncs, constrains: sequences of records]             *)
(* local:  a diagram [states, name, start, edges, ...] for each family     *)
(***************************************************************************)
EXTENDS Naturals, FiniteSets, SequencesExt

CONSTANTS
  Tau,       \* the silent event
  Instances  \* instances of every family

Values(local, v) ==
  IF v \in DOMAIN local THEN [Instances -> local[v].states] ELSE {0, 1}

MovesIn(global, m, g) == \E p \in ToSet(global.promotes) : p.map = m /\ p.in = g

Maps(sync) == {t.map : t \in ToSet(sync.targets)}

(* A sync happens where all of its families move.                          *)
HappensIn(global, sync, g) == \A m \in Maps(sync) : MovesIn(global, m, g)

(* Who takes part in a move: the instance of a map that takes a local edge. *)
Role(m, i, e) == [map |-> m, instance |-> i, edge |-> e]

Takes(local, v, roles) ==
  LET mine == {r \in roles : r.map = v}
  IN  {p \in Values(local, v) \X Values(local, v) :
         /\ mine = {} => p[1] = p[2]
         /\ \A r \in mine : p[1][r.instance] = r.edge.src /\ p[2][r.instance] = r.edge.dst
         /\ mine # {} => \A i \in Instances \ {r.instance : r \in mine} : p[1][i] = p[2][i]}

Constraints(global, event, arity) ==
  UNION {c.guard : c \in {c \in ToSet(global.constrains) :
                             c.event = event /\ Len(c.params) = arity}}

(* The instances that ids name take part in an event in state g.  Its      *)
(* arguments are their ids and those of the local edges; a silent event    *)
(* has none, and a deletion has no post.                                   *)
Move(global, local, g, event, ids, roles) ==
  LET named == IF event = Tau THEN << >> ELSE ids
      args  == IF event = Tau THEN {} ELSE UNION {ToSet(r.edge.args) : r \in roles}
      arity == Cardinality(DOMAIN named) + Cardinality(args)
  IN  [in     |-> g,
       event  |-> event,
       args   |-> <<DOMAIN named, args>>,
       ids    |-> named,
       when   |-> (UNION {r.edge.guard : r \in roles}) \cup Constraints(global, event, arity),
       then   |-> UNION {r.edge.post : r \in {r \in roles : r.edge.dst # local[r.map].start}},
       effect |-> [v \in DOMAIN global.vars[g] |-> Takes(local, v, roles)]]

(* An event of an instance that is not there, or comes to be, is visible.  *)
LocalEdges(local, m, event) ==
  {e \in local[m].edges :
     /\ e.event = event
     /\ e.src = local[m].start => e.dst # local[m].start /\ event # Tau}

EventsOf(local, m) == {e.event : e \in local[m].edges}

TakenOver(global, p, event) ==
  \E s \in ToSet(global.syncs) :
     s.event = event /\ p.map \in Maps(s) /\ HappensIn(global, s, p.in)

MovesAlone(global, local, p, event) ==
  {Move(global, local, p.in, event, [id \in {p.idParam} |-> i], {Role(p.map, i, e)}) :
     i \in Instances, e \in LocalEdges(local, p.map, event)}

AloneMoves(global, local) ==
  UNION {UNION {MovesAlone(global, local, p, event) :
                  event \in {event \in EventsOf(local, p.map) : ~ TakenOver(global, p, event)}} :
         p \in ToSet(global.promotes)}

SideChoices(local, s) ==
  {c \in [DOMAIN s.targets -> UNION {LocalEdges(local, m, s.event) : m \in Maps(s)}] :
     \A k \in DOMAIN c : c[k] \in LocalEdges(local, s.targets[k].map, s.event)}

MovesTogether(global, local, s, g) ==
  {Move(global, local, g, s.event, ids,
        {Role(s.targets[k].map, ids[s.targets[k].param], c[k]) : k \in DOMAIN c}) :
     ids \in [{t.param : t \in ToSet(s.targets)} -> Instances], c \in SideChoices(local, s)}

SyncMoves(global, local) ==
  UNION {UNION {MovesTogether(global, local, s, g) :
                  g \in {g \in DOMAIN global.vars : HappensIn(global, s, g)}} :
         s \in ToSet(global.syncs)}

FamilyMoves(global, local) == AloneMoves(global, local) \cup SyncMoves(global, local)

-----------------------------------------------------------------------------
(* The clauses of the default wording: id in dom m, id not in dom m, m(id) *)
(* in S, and what m' or v' is.  States are called by their names.          *)
SaysNow(local, c, ids, x) ==
  LET d == local[c.map]  at == x[ids[c.id]]
  IN  CASE c.kind = "inDom"    -> at # d.start
        [] c.kind = "notInDom" -> at = d.start
        [] c.kind = "atState"  -> at # d.start /\ d.name[at] = c.name

SaysNext(local, c, ids, x, y) ==
  IF c.kind = "frame" THEN x = y
  ELSE LET d == local[c.map]  at == y[ids[c.id]]
       IN  /\ \A i \in Instances \ {ids[c.id]} : x[i] = y[i]
           /\ IF c.kind = "delete" THEN at = d.start
                                   ELSE at # d.start /\ d.name[at] = c.name

Texts(clauses) == {c.text : c \in {c \in clauses : c.kind = "text"}}
About(clauses, v) == {c \in clauses : c.kind # "text" /\ c.map = v}

EdgeMove(global, local, edge, ids) ==
  [in     |-> edge.src,
   event  |-> edge.event.name,
   args   |-> <<edge.event.ids, edge.event.args>>,
   ids    |-> IF edge.event.name = Tau THEN << >> ELSE ids,
   when   |-> Texts(edge.guard),
   then   |-> Texts(edge.post),
   effect |-> [v \in DOMAIN global.vars[edge.src] |->
                {p \in Values(local, v) \X Values(local, v) :
                   /\ \A c \in About(edge.guard, v) : SaysNow(local, c, ids, p[1])
                   /\ \A c \in About(edge.post, v) : SaysNext(local, c, ids, p[1], p[2])}]]

EdgeMoves(global, local, edges) ==
  UNION {{EdgeMove(global, local, edge, ids) :
            ids \in [{c.id : c \in {c \in edge.guard : c.kind # "text"}} -> Instances]} :
         edge \in edges}

(* Moves no valuation allows are none.                                     *)
Possible(moves) == {mv \in moves : \A v \in DOMAIN mv.effect : mv.effect[v] # {}}

=============================================================================
