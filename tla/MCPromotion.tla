---------------------------- MODULE MCPromotion ----------------------------
(***************************************************************************)
(* Two families, a and b, in up to two states of a global diagram; and     *)
(* texts of such diagrams, with one thing changed.                         *)
(***************************************************************************)
EXTENDS DiagramAsWritten

Edge(src, dst, event, args, guard, post) ==
  [src |-> src, dst |-> dst, event |-> event, args |-> args, guard |-> guard, post |-> post]

(* a comes to be, works and ends; two of its edges break the contract.     *)
Open   == Edge("A0", "A1", "open", <<"x">>, {}, {"opened"})
Reopen == Edge("A0", "A2", "go", << >>, {"reopenable"}, {})
Go     == Edge("A1", "A2", "go", << >>, {}, {})
GoWith == Edge("A1", "A2", "go", <<"y">>, {"may go"}, {"gone"})
Rest   == Edge("A2", "A1", Tau, << >>, {}, {})
Stay   == Edge("A2", "A2", "go", <<"y">>, {}, {"stayed"})
Close  == Edge("A2", "A0", "go", << >>, {}, {"closed"})
Leave  == Edge("A1", "A0", "leave", << >>, {"may leave"}, {})
Idle   == Edge("A0", "A0", "open", << >>, {}, {})
Appear == Edge("A0", "A1", Tau, << >>, {}, {})

Diagram(states, start, es) ==
  [states |-> states, name |-> [s \in states |-> s], start |-> start, startPost |-> {},
   startVars |-> FALSE, end |-> FALSE, edges |-> es]

ADiagram(es) == Diagram({"A0", "A1", "A2"}, "A0", es)

AEdges == {{e} : e \in {Open, Idle, Appear}}
          \cup {{e, f} : e \in {Open, Reopen}, f \in {Go, GoWith, Rest, Stay, Close, Leave, Idle, Appear}}
          \cup {{Go, Stay}, {Go, GoWith}, {GoWith, Close}}
          \cup {{Open, Go, GoWith, Rest}, {Open, Reopen, GoWith, Close}}

BDiagrams ==
  {Diagram({"B0", "B1"}, "B0", es) : es \in
     {{Edge("B0", "B1", "go", <<"y">>, {}, {"met"}), Edge("B1", "B0", "go", << >>, {}, {})},
      {Edge("B0", "B1", "start", << >>, {}, {}), Edge("B1", "B1", "go", <<"z">>, {"ready"}, {})},
      {Edge("B0", "B1", "open", <<"x">>, {}, {}), Edge("B1", "B1", Tau, << >>, {}, {"turned"})}}}

Promote(m, id, path, in) ==
  [map |-> m, idParam |-> id, type |-> m, path |-> path, alias |-> <<m, in>>, in |-> in]

Both  == << Promote("a", "i", "A", "g"), Promote("b", "j", "B", "g") >>
Twice == << Promote("a", "i", "A", "g"), Promote("b", "j", "B", "h"), Promote("a", "i", None, "h") >>
Apart == << Promote("a", "i", "A", "g"), Promote("b", "j", "B", "h") >>

Faulty ==
  {<< Promote("a", "i", "A", None) >>,                               \* outside any state
   << Promote("b", "j", "B", "g") >>,                                \* in a state without it
   Both \o << Promote("a", "i", None, "g") >>,                       \* twice in a state
   << Promote("a", "i", "A", "g"), Promote("a", "k", None, "h") >>,  \* with another id
   << Promote("a", "i", "A", "g"), Promote("a", "i", "A", "h") >>,   \* two includes
   << Promote("a", "i", None, "g") >>,                               \* no include
   << Promote("a", "i", "C", "g") >>}                                \* no such file

Target(m, p) == [map |-> m, param |-> p]
SyncOf(event, ts) == [event |-> event, targets |-> ts, anchor |-> None]

SyncLists ==
  {<< >>,
   << SyncOf("go", <<Target("a", "i"), Target("b", "j")>>) >>,
   << SyncOf("go", <<Target("b", "k"), Target("a", "k")>>) >>,
   << SyncOf("go", <<Target("a", "i"), Target("a", "j")>>) >>,
   << [SyncOf("open", <<Target("a", "k")>>) EXCEPT !.anchor = <<"b", "g">>],
      SyncOf("go", <<Target("a", "i"), Target("b", "j")>>) >>,
   << SyncOf(Tau, <<Target("a", "i")>>) >>,
   << SyncOf("go", <<Target("c", "i"), Target("b", "j")>>) >>}

ConstrainOf(event, params) ==
  [event |-> event, params |-> params, guard |-> {"allowed"}, mentions |-> {"i", "j"}]

ConstrainLists ==
  {<< >>,
   << ConstrainOf("go", <<"i">>) >>,
   << ConstrainOf("go", <<"j", "y">>), ConstrainOf("open", <<"k", "x">>) >>,
   << ConstrainOf("go", <<"i", "j">>) >>}

(* Each state holds the map a; only one holds b as well, and a variable.   *)
VarsWith(withB) ==
  [s \in {"g", "h"} |->
     IF s = withB THEN [v \in {"a", "b", "v"} |-> {v}] ELSE [v \in {"a"} |-> {v}]]

ByHand == {[src |-> "g", dst |-> "h", event |-> [name |-> "go", ids |-> {}, args |-> {"i"}],
            guard |-> {}, post |-> {}, origin |-> << >>]}

Source(a, b, vs, ps, ss, cs) ==
  [global |-> [vars |-> vs, edges |-> ByHand, promotes |-> ps, syncs |-> ss, constrains |-> cs],
   files  |-> [A |-> a, B |-> b]]

WellLaid == {<<Both, "g">>, <<Twice, "h">>, <<Apart, "h">>}
SomeB == CHOOSE b \in BDiagrams : TRUE
SomeA == ADiagram({Open, Go, GoWith, Rest})

MCSources ==
  {Source(ADiagram(es), b, VarsWith(l[2]), l[1], ss, cs) :
     es \in AEdges, b \in BDiagrams, l \in WellLaid, ss \in SyncLists, cs \in ConstrainLists}
  \cup {Source(SomeA, SomeB, VarsWith("h"), ps, ss, << >>) : ps \in Faulty, ss \in SyncLists}
  \cup {Source(a, b, VarsWith("g"), ps, << >>, << >>) :
          ps \in {Both, [Both EXCEPT ![2].type = "old"]},
          a \in {[SomeA EXCEPT !.startVars = TRUE], [SomeA EXCEPT !.end = TRUE],
                 [SomeA EXCEPT !.startPost = {"founded"}]},
          b \in {SomeB, SomeA}}

(* Two states of a that differ in their ids and not in their names.        *)
Namesakes ==
  {Source([ADiagram({Open, Go, Leave}) EXCEPT !.name = [s \in DOMAIN @ |-> IF s = "A0" THEN "none" ELSE "busy"]],
          SomeB, VarsWith("g"), Both, ss, << >>) : ss \in SyncLists}

-----------------------------------------------------------------------------
(* Lines, by their kinds and what else the grammars see in them.           *)
L(kind) == [kind |-> kind]
Var(s, v) == [kind |-> "var", state |-> s, name |-> v, type |-> v]
Holding(kind, id) == [kind |-> kind, id |-> id]
Arrow(src, dst) ==
  [kind |-> "edge", edge |-> [src |-> src, dst |-> dst, event |-> [name |-> "go", ids |-> {}, args |-> {"i"}],
                              guard |-> {}, post |-> {}, origin |-> << >>]]
Block1(body) ==
  [kind |-> "promote", titled |-> TRUE, body |-> body, map |-> "a", idParam |-> "i", type |-> "a", alias |-> "p"]
Include(path) == [kind |-> "include", path |-> path]
Note(anchor) == [kind |-> "note", anchor |-> anchor]
SyncLine ==
  [kind |-> "sync", wellFormed |-> TRUE, event |-> "go", targets |-> <<Target("a", "i")>>]
ConstrainLine ==
  [kind |-> "constrain", wellFormed |-> TRUE, event |-> "open", params |-> <<"i", "x">>,
   guard |-> {"allowed"}, mentions |-> {"i"}]

GlobalText ==
  << L("startuml"), Holding("composite", "g"), Var("g", "a"), Block1(TRUE), L("blank"), Include("A"),
     L("close"), Note("p"), SyncLine, L("endnote"), L("close"), L("ignore"), L("prose"), L("unignore"),
     Holding("composite", "h"), Var("h", "a"), Block1(FALSE), L("close"), Holding("start", "g"),
     Arrow("g", "h"), Note(None), L("blank"), ConstrainLine, L("prose"), L("endnote"),
     Holding("end", "h"), L("enduml"), L("blank") >>

PlainText ==
  << L("startuml"), Holding("state", "g"), Var("g", "a"), L("comment"), Var("g", "v"), L("ignore"), L("prose"),
     L("unignore"), Holding("state", "h"), Arrow("g", "h"), Holding("start", "g"), Arrow("h", "g"),
     Holding("end", "h"), L("enduml"), L("prose") >>

NotedText ==
  << L("startuml"), Holding("state", "g"), Var("g", "a"), Note("p"), L("blank"), SyncLine, L("endnote"),
     L("macro"), Holding("start", "g"), L("enduml") >>

SomeLines ==
  ToSet(GlobalText) \cup ToSet(PlainText)
  \cup {L("macro"), L("misspelt"), L("bareignore"), L("bareunignore"), Holding("state", "s"), Holding("composite", "s"),
        [Block1(TRUE) EXCEPT !.titled = FALSE], [SyncLine EXCEPT !.wellFormed = FALSE]}

Changed(text) ==
  {text}
  \cup {RemoveAt(text, n) : n \in DOMAIN text}
  \cup {InsertAt(text, n, l) : n \in DOMAIN text, l \in SomeLines}
  \cup {ReplaceAt(text, n, l) : n \in DOMAIN text, l \in SomeLines}
  \cup {[text EXCEPT ![n] = text[m], ![m] = text[n]] : n \in DOMAIN text, m \in DOMAIN text}

TextInput(tool, text) ==
  [tool |-> tool, png |-> FALSE, text |-> text]

ImageInput(tool, chunks) ==
  [tool |-> tool, png |-> TRUE, chunks |-> chunks]

Chunk(typ, keyword, coding, text) ==
  [typ |-> typ, frame |-> "whole", keyword |-> keyword, coding |-> coding, text |-> text]

Chunks ==
  {Chunk("tEXt", "plantuml", "plain", PlainText),
   Chunk("iTXt", "plantuml", "deflated", GlobalText),
   Chunk("zTXt", "plantuml", "deflated", GlobalText \o <<L("prose")>>),
   Chunk("zTXt", "other", "deflated", << >>),
   Chunk("iTXt", "plantuml", "malformed", PlainText),
   Chunk("IDAT", "", "plain", << >>),
   Chunk("IEND", "", "plain", << >>),
   [Chunk("tEXt", "plantuml", "plain", PlainText) EXCEPT !.frame = "overrun"]}

MCFiles == [A |-> SomeA, B |-> SomeB]

(* Regions around a directive, with markers of both sorts.                 *)
Markers == {L("ignore"), L("unignore"), L("bareignore"), L("bareunignore")}

MarkedTexts ==
  {<<L("startuml"), k, Block1(FALSE), l, Block1(FALSE), L("enduml")>> : k \in Markers, l \in Markers}

MCTexts == UNION {Changed(text) : text \in {GlobalText, PlainText, NotedText}} \cup MarkedTexts

MCInputs ==
  {TextInput(tool, text) : tool \in {"parse", "promote"}, text \in MCTexts}
  \cup {ImageInput(tool, <<c, d>>) : tool \in {"parse", "promote"}, c \in Chunks, d \in Chunks}

=============================================================================
