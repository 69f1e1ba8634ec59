----------------------------- MODULE Promotion -----------------------------
(***************************************************************************)
(* csdf/promote: Expand turns the directives of a global diagram into      *)
(* edges, or refuses it.  A phase is a pass of the code over the blocks,   *)
(* the directives or the local diagrams; next is the position in passes    *)
(* that change what later iterations see.                                  *)
(*                                                                         *)
(* A local event is a name and its arguments, as splitEvent takes it       *)
(* apart; a generated one has the ids of the instances it moves and the    *)
(* arguments, each listed once (appendUnique).  A predicate is the set of  *)
(* its clauses, each generated by a template or a text that is copied; no  *)
(* clause is "true".  A diagnostic is its severity, what it is about and   *)
(* where.                                                                  *)
(***************************************************************************)
EXTENDS PromotedFamily, TLC

CONSTANTS
  None,    \* no state, path or anchor
  Sources  \* [global, files]: what ParseGlobal read, and what load returns

IsSequence(list) == list \in Seq(ToSet(list))

(* Slices are sequences, and an edge that is written has no origin.        *)
IsSource(s) ==
  /\ IsSequence(s.global.promotes) /\ IsSequence(s.global.syncs) /\ IsSequence(s.global.constrains)
  /\ \A sync \in ToSet(s.global.syncs) : IsSequence(sync.targets)
  /\ \A c \in ToSet(s.global.constrains) : IsSequence(c.params)
  /\ \A x \in s.global.edges : x.origin = << >>
  /\ \A path \in DOMAIN s.files : \A e \in s.files[path].edges : IsSequence(e.args)

ASSUME SourcesAssumption == \A s \in Sources : IsSource(s)

VARIABLES
  global,  \* the global diagram
  files,   \* local diagrams by path; other paths cannot be read
  phase,   \* the pass under way
  next,    \* the iteration of it that is next
  diags,   \* e.diags
  loaded,  \* e.order and e.locals: the block that each map was loaded for
  plans,   \* e.plans: a sync and the states it happens in
  owned,   \* e.owned
  edges    \* the expanded edges; generated ones have an origin

vars == <<global, files, phase, next, diags, loaded, plans, owned, edges>>

Blocks == DOMAIN global.promotes
Block(i) == global.promotes[i]

Local(m) == files[Block(loaded[m]).path]
Locals == [m \in DOMAIN loaded |-> Local(m)]

Error(kind, at)   == [severity |-> "error", kind |-> kind, at |-> at]
Warning(kind, at) == [severity |-> "warning", kind |-> kind, at |-> at]
Info(kind, at)    == [severity |-> "info", kind |-> kind, at |-> at]

HasSeverity(ds, severity) == \E d \in ds : d.severity = severity
HasError(ds) == HasSeverity(ds, "error")

Init ==
  /\ \E s \in Sources : global = s.global /\ files = s.files
  /\ phase = "blocks" /\ next = 1
  /\ diags = {} /\ loaded = << >>
  /\ plans = << >> /\ owned = {} /\ edges = {}

Goto(p) == phase' = p /\ next' = 1

-----------------------------------------------------------------------------
Earlier(i) == {j \in Blocks : j < i}
SameMap(i, j) == Block(i).map = Block(j).map

Outside(i)    == Block(i).in = None
Homeless(i)   == /\ ~ Outside(i)
                 /\ \/ Block(i).in \notin DOMAIN global.vars
                    \/ Block(i).map \notin DOMAIN global.vars[Block(i).in]
OutOfDate(i)  == /\ ~ Outside(i) /\ ~ Homeless(i)
                 /\ Block(i).type \notin global.vars[Block(i).in][Block(i).map]
Repeated(i)   == \E j \in Earlier(i) : SameMap(i, j) /\ Block(i).in = Block(j).in
Includes(i)   == Block(i).path # None
Reincluded(i) == Includes(i) /\ \E j \in Earlier(i) : SameMap(i, j) /\ Includes(j)
FirstOf(i)    == ~ \E j \in Earlier(i) : SameMap(i, j)
Disagrees(i)  == \E j \in Earlier(i) :
                    /\ FirstOf(j) /\ SameMap(i, j)
                    /\ <<Block(i).idParam, Block(i).type>> # <<Block(j).idParam, Block(j).type>>
Bodyless(i)   == FirstOf(i) /\ ~ \E j \in Blocks : SameMap(i, j) /\ Includes(j)

checkBlocks ==
  /\ phase = "blocks"
  /\ diags' = diags \cup UNION {
       {Error("outside", i)      : i \in {i \in Blocks : Outside(i)}},
       {Error("homeless", i)     : i \in {i \in Blocks : Homeless(i)}},
       {Warning("type", i)       : i \in {i \in Blocks : OutOfDate(i)}},
       {Error("repeated", i)     : i \in {i \in Blocks : Repeated(i)}},
       {Error("disagrees", i)    : i \in {i \in Blocks : Disagrees(i)}},
       {Error("reincluded", i)   : i \in {i \in Blocks : Reincluded(i)}},
       {Error("not included", i) : i \in {i \in Blocks : Bodyless(i)}}}
  /\ Goto("load")
  /\ UNCHANGED <<global, files, loaded, plans, owned, edges>>

(* A map's diagram is the first of its blocks that can be read.            *)
Readable(i) == Includes(i) /\ Block(i).path \in DOMAIN files
Loading(i)  == Readable(i) /\ ~ \E j \in Earlier(i) : SameMap(i, j) /\ Readable(j)

loadLocals ==
  /\ phase = "load"
  /\ loaded' = [m \in {Block(i).map : i \in {i \in Blocks : Readable(i)}} |->
                  CHOOSE i \in Blocks : Block(i).map = m /\ Loading(i)]
  /\ diags' = diags \cup
       {Error("unreadable", i) : i \in {i \in Blocks :
          /\ Includes(i) /\ ~ Readable(i)
          /\ ~ \E j \in Earlier(i) : SameMap(i, j) /\ Readable(j)}}
  /\ Goto("locals")
  /\ UNCHANGED <<global, files, plans, owned, edges>>

Where(F(_)) == {m \in DOMAIN loaded : F(Local(m))}

Selfless(d)  == \E e \in d.edges : e.src = d.start /\ e.dst = d.start
Appearing(d) == \E e \in d.edges : e.src = d.start /\ e.event = Tau
Collides(m)  == \E o \in DOMAIN loaded : loaded[o] < loaded[m] /\ Local(o).states \cap Local(m).states # {}

(* The syncs are read only when every local diagram is there.              *)
checkLocals ==
  /\ phase = "locals"
  /\ diags' = diags \cup UNION {
       {Error("start variables", m) : m \in Where(LAMBDA d : d.startVars)},
       {Error("end edge", m)        : m \in Where(LAMBDA d : d.end)},
       {Error("start loop", m)      : m \in Where(Selfless)},
       {Error("tau creation", m)    : m \in Where(Appearing)},
       {Error("collision", m)       : m \in {m \in DOMAIN loaded : Collides(m)}}}
  /\ Goto(IF HasError(diags') THEN "refused" ELSE "syncs")
  /\ UNCHANGED <<global, files, loaded, plans, owned, edges>>

-----------------------------------------------------------------------------
statesOf(m)     == {Block(i).in : i \in {i \in Blocks : Block(i).map = m}}
edgesOn(m, event) == {e \in Local(m).edges : e.event = event}

NamedTwice(s, k) == \E j \in 1 .. k - 1 : s.targets[j].map = s.targets[k].map
Promoted(s, k)   == statesOf(s.targets[k].map) # {}
Sided(s, k)      == Promoted(s, k) /\ edgesOn(s.targets[k].map, s.event) # {}
sameArguments(es) == \A e, f \in es : e.args = f.args

(* Faulty variant: sides are not looked at for edges on the event.         *)
TargetErrors_Sideless(s) ==
  UNION {{Error("named twice", s) : k \in {k \in DOMAIN s.targets : NamedTwice(s, k)}},
         {Error("not promoted", s) : k \in {k \in DOMAIN s.targets : ~ NamedTwice(s, k) /\ ~ Promoted(s, k)}}}

TargetErrors(s) ==
  UNION {{Error("named twice", s)  : k \in {k \in DOMAIN s.targets : NamedTwice(s, k)}},
         {Error("not promoted", s) : k \in {k \in DOMAIN s.targets : ~ NamedTwice(s, k) /\ ~ Promoted(s, k)}},
         {Error("no side", s)      : k \in {k \in DOMAIN s.targets :
                                       ~ NamedTwice(s, k) /\ Promoted(s, k) /\ ~ Sided(s, k)}}}

ArgumentWarnings(s) ==
  {Warning("arguments", s) : k \in {k \in DOMAIN s.targets :
     /\ ~ NamedTwice(s, k) /\ Sided(s, k)
     /\ ~ sameArguments(edgesOn(s.targets[k].map, s.event))}}

(* Faulty variant: a sync also takes the states where only some move.      *)
CommonStates_Any(s) == UNION {statesOf(m) : m \in Maps(s)}

CommonStates(s) ==
  {g \in UNION {statesOf(m) : m \in Maps(s)} : \A m \in Maps(s) : g \in statesOf(m)}

(* Faulty variant: a sync takes its event over wherever its maps move.     *)
Owned_Everywhere(s) == UNION {statesOf(m) \X {m} \X {s.event} : m \in Maps(s)}

Owned(s) == CommonStates(s) \X Maps(s) \X {s.event}

(* planSyncs: a directive in error leaves no plan.                         *)
PlanSync ==
  /\ phase = "syncs" /\ next <= Len(global.syncs)
  /\ LET s      == global.syncs[next]
         errors == CASE s.event = Tau        -> {Error("tau", s)}
                     [] TargetErrors(s) # {} -> TargetErrors(s)
                     [] CommonStates(s) = {} -> {Error("never", s)}
                     [] OTHER                -> {}
     IN  /\ diags' = diags \cup errors \cup (IF s.event = Tau THEN {} ELSE ArgumentWarnings(s))
         /\ plans' = IF errors = {} THEN Append(plans, [sync |-> s, states |-> CommonStates(s)])
                                    ELSE plans
         /\ owned' = IF errors = {} THEN owned \cup Owned(s) ELSE owned
  /\ next' = next + 1
  /\ UNCHANGED <<global, files, phase, loaded, edges>>

Posted(m, e) == e.dst = Local(m).start /\ e.post # {}

(* Faulty variant: deletions are not among the edges looked at.            *)
WarnAboutLocals_Living ==
  {Warning("start post", m) : m \in {m \in DOMAIN loaded : Local(m).startPost # {}}}

WarnAboutLocals ==
  {Warning("start post", m) : m \in {m \in DOMAIN loaded : Local(m).startPost # {}}}
  \cup {Warning("deletion post", m) : m \in {m \in DOMAIN loaded : \E e \in Local(m).edges : Posted(m, e)}}

Visible(m) == EventsOf(Locals, m) \ {Tau}

WarnAboutSharedEvents ==
  {Warning("shared", event) : event \in
     {event \in UNION {Visible(m) : m \in DOMAIN loaded} :
        /\ ~ \E s \in ToSet(global.syncs) : s.event = event
        /\ \E m, o \in DOMAIN loaded : m # o /\ event \in Visible(m) \cap Visible(o)}}

WarnAboutNotes ==
  {Warning("anchor", s) : s \in {s \in ToSet(global.syncs) :
     /\ s.anchor # None /\ s.targets # << >>
     /\ ~ \E p \in ToSet(global.promotes) : p.alias = s.anchor /\ p.map \in Maps(s)}}
  \cup {Warning("no argument", c) : c \in {c \in ToSet(global.constrains) :
     ToSet(c.params) \cap c.mentions = {}}}

InfoOnFrozenMaps ==
  {Info("frozen", gv) : gv \in
     {gv \in UNION {{g} \X DOMAIN global.vars[g] : g \in DOMAIN global.vars} :
        statesOf(gv[2]) # {} /\ gv[1] \notin statesOf(gv[2])}}

warn ==
  /\ phase = "syncs" /\ next > Len(global.syncs)
  /\ diags' = diags \cup WarnAboutLocals \cup WarnAboutSharedEvents
                    \cup WarnAboutNotes \cup InfoOnFrozenMaps
  /\ Goto(IF HasError(diags') THEN "refused" ELSE "promote")
  /\ edges' = IF HasError(diags') THEN edges ELSE global.edges
  /\ UNCHANGED <<global, files, loaded, plans, owned>>

-----------------------------------------------------------------------------
Clause(kind, m, id, name) == [kind |-> kind, map |-> m, id |-> id, name |-> name]
Verbatim(texts) == {[kind |-> "text", text |-> t] : t \in texts}

(* The clauses a local edge contributes through map m, by what it does to  *)
(* the instance: create, delete or update.                                 *)
parts(m, id, e) ==
  LET d        == Local(m)
      creating == e.src = d.start
      deleting == ~ creating /\ e.dst = d.start
  IN  [edge |-> e, map |-> m, id |-> id,
       guard |-> Verbatim(e.guard) \cup
                 (IF creating THEN {Clause("notInDom", m, id, None)}
                  ELSE {Clause("inDom", m, id, None), Clause("atState", m, id, d.name[e.src])}),
       post  |-> (IF e.dst = d.start THEN {} ELSE Verbatim(e.post)) \cup
                 {CASE creating -> Clause("create", m, id, d.name[e.dst])
                    [] deleting -> Clause("delete", m, id, None)
                    [] OTHER    -> Clause("update", m, id, d.name[e.dst])}]

frame(g, moved) ==
  {Clause("frame", v, None, None) : v \in DOMAIN global.vars[g] \ moved}

(* One self-loop on g for the parts ps, a sequence, that moved their maps. *)
compose(g, ps) ==
  LET silent == \E k \in DOMAIN ps : ps[k].edge.event = Tau
      ids  == {ps[k].id : k \in DOMAIN ps}
      args == UNION {ToSet(ps[k].edge.args) : k \in DOMAIN ps}
  IN  [src |-> g, dst |-> g,
       event |-> IF silent THEN [name |-> Tau, ids |-> {}, args |-> {}]
                           ELSE [name |-> ps[1].edge.event, ids |-> ids, args |-> args],
       guard |-> UNION {ps[k].guard : k \in DOMAIN ps},
       post  |-> (UNION {ps[k].post : k \in DOMAIN ps}) \cup frame(g, {ps[k].map : k \in DOMAIN ps}),
       origin |-> [k \in DOMAIN ps |-> <<ps[k].edge.src, ps[k].edge.dst>>]]

(* Every block expands the events no sync took over in its state.          *)
promote ==
  /\ phase = "promote" /\ next <= Len(global.promotes)
  /\ LET p == Block(next)
     IN  edges' = edges \cup {compose(p.in, <<parts(p.map, p.idParam, e)>>) :
                    e \in {e \in Local(p.map).edges : <<p.in, p.map, e.event>> \notin owned}}
  /\ next' = next + 1
  /\ UNCHANGED <<global, files, phase, diags, loaded, plans, owned>>

EndPromote ==
  /\ phase = "promote" /\ next > Len(global.promotes)
  /\ Goto("merge")
  /\ UNCHANGED <<global, files, diags, loaded, plans, owned, edges>>

product(s) ==
  {c \in [DOMAIN s.targets -> UNION {edgesOn(m, s.event) : m \in Maps(s)}] :
     \A k \in DOMAIN c : c[k] \in edgesOn(s.targets[k].map, s.event)}

(* Every combination of the sides of a sync becomes one edge.              *)
mergeSyncs ==
  /\ phase = "merge" /\ next <= Len(plans)
  /\ LET s == plans[next].sync
     IN  edges' = edges \cup
           {compose(g, [k \in DOMAIN s.targets |->
                          parts(s.targets[k].map, s.targets[k].param, c[k])]) :
              g \in plans[next].states, c \in product(s)}
  /\ next' = next + 1
  /\ UNCHANGED <<global, files, phase, diags, loaded, plans, owned>>

EndMerge ==
  /\ phase = "merge" /\ next > Len(plans)
  /\ Goto("constrain")
  /\ UNCHANGED <<global, files, diags, loaded, plans, owned, edges>>

Matches(c, x) ==
  /\ x.origin # << >> /\ x.event.name = c.event
  /\ Cardinality(x.event.ids) + Cardinality(x.event.args) = Len(c.params)

constrain ==
  /\ phase = "constrain" /\ next <= Len(global.constrains)
  /\ LET c       == global.constrains[next]
         matched == {x \in edges : Matches(c, x)}
         taken   == UNION {x.event.ids \cup x.event.args : x \in matched}
     IN  /\ edges' = (edges \ matched) \cup {[x EXCEPT !.guard = @ \cup Verbatim(c.guard)] : x \in matched}
         /\ diags' = diags \cup
              IF matched = {} THEN {Error("unmatched", c)}
              ELSE {Warning("not taken", c) : q \in ToSet(c.params) \ taken}
  /\ next' = next + 1
  /\ UNCHANGED <<global, files, phase, loaded, plans, owned>>

EndConstrain ==
  /\ phase = "constrain" /\ next > Len(global.constrains)
  /\ Goto(IF HasError(diags) THEN "refused" ELSE "expanded")
  /\ edges' = IF HasError(diags) THEN {} ELSE edges
  /\ UNCHANGED <<global, files, diags, loaded, plans, owned>>

(* csdfpromote prints the expansion, unless -Werror refuses its warnings.  *)
Refusal ==
  /\ phase = "expanded"
  /\ \E werror \in BOOLEAN :
       Goto(IF werror /\ HasSeverity(diags, "warning") THEN "refused" ELSE "printed")
  /\ UNCHANGED <<global, files, diags, loaded, plans, owned, edges>>

Next ==
  \/ checkBlocks \/ loadLocals \/ checkLocals \/ PlanSync \/ warn
  \/ promote \/ EndPromote \/ mergeSyncs \/ EndMerge
  \/ constrain \/ EndConstrain \/ Refusal

Spec == Init /\ [][Next]_vars

-----------------------------------------------------------------------------
Generated == {x \in edges : x.origin # << >>}

(* Every variable stays in its domain, and every state of a plan has a     *)
(* block of each of its maps: planSyncs does not panic.                    *)
TypeOK ==
  /\ phase \in {"unread", "blocks", "load", "locals", "syncs", "promote", "merge", "constrain",
                "expanded", "printed", "refused"}
  /\ next \in Nat \ {0}
  /\ \A d \in diags : d.severity \in {"error", "warning", "info"}
  /\ \A m \in DOMAIN loaded : Includes(loaded[m]) /\ Block(loaded[m]).map = m
  /\ \A k \in DOMAIN plans : \A g \in plans[k].states, m \in Maps(plans[k].sync) :
       MovesIn(global, m, g) /\ <<g, m, plans[k].sync.event>> \in owned
  /\ \A x \in Generated : x.src \in DOMAIN global.vars

(* What is expanded moves exactly as the families of instances do, with    *)
(* every sync and constraint in place: no move is lost where a sync takes  *)
(* an event over, none is left over, nothing else changes; and edges       *)
(* written by hand are kept as they are.                                   *)
ExpansionIsFamily ==
  phase = "expanded" =>
    /\ Possible(EdgeMoves(global, Locals, Generated)) = Possible(FamilyMoves(global, Locals))
    /\ edges \ Generated = global.edges

(* No directive of an expanded diagram is idle: every sync is an event all *)
(* of its families can take together, and every constraint guards one.     *)
DirectivesApply ==
  phase = "expanded" =>
    LET moves == Possible(EdgeMoves(global, Locals, Generated))
    IN  /\ \A s \in ToSet(global.syncs) : \E mv \in moves :
             /\ mv.event = s.event
             /\ \A m \in Maps(s) : m \in DOMAIN mv.effect /\ mv.effect[m] # Takes(Locals, m, {})
        /\ \A c \in ToSet(global.constrains) : \E mv \in moves :
             mv.event = c.event /\ c.guard \subseteq mv.when

(* Without a warning nothing an author wrote about an instance is dropped: *)
(* the post of every local edge, the start edge's included, is in a move.  *)
PostsKept ==
  phase = "expanded" /\ ~ HasSeverity(diags, "warning") =>
    \A m \in DOMAIN loaded :
      /\ Local(m).startPost = {}
      /\ \A e \in Local(m).edges : \E x \in Generated :
           /\ <<e.src, e.dst>> \in ToSet(x.origin)
           /\ e.post \subseteq Texts(x.post)

=============================================================================
