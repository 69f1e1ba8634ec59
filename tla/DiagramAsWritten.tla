-------------------------- MODULE DiagramAsWritten --------------------------
(***************************************************************************)
(* What a text says, line by line and without reading it in order: which   *)
(* lines belong to a note, a block, a composite state or an ignored        *)
(* region, and so which diagram and directives an author wrote.            *)
(***************************************************************************)
EXTENDS GlobalReader

Is(n, kinds) == n \in DOMAIN source /\ source[n].kind \in kinds

Between(k, n) == k + 1 .. n - 1

(* Commands that read plain diagrams know of no notes.                     *)
InNote(n) ==
  /\ input.tool = "promote"
  /\ \E k \in 1 .. n - 1 : Is(k, {"note"}) /\ \A j \in Between(k, n) : ~ Is(j, {"endnote"})

Drawn(n, kinds) == Is(n, kinds) /\ ~ InNote(n)

Ignored(n) == \E k \in 1 .. n : Drawn(k, {"ignore"}) /\ \A j \in Between(k, n) : ~ Drawn(j, {"unignore"})

Ending(n) == Drawn(n, {"enduml"}) /\ ~ Ignored(n)
Beyond(n) == \E k \in 1 .. n - 1 : Ending(k)

Written(n, kinds) == Drawn(n, kinds) /\ ~ Ignored(n) /\ ~ Beyond(n)

WrittenLines(kinds) == {n \in DOMAIN source : Written(n, kinds)}

(* Numbers of lines, in the order of the lines.                            *)
InOrder(ns) ==
  [k \in 1 .. Cardinality(ns) |-> CHOOSE n \in ns : Cardinality({m \in ns : m < n}) = k - 1]

(* Of several declarations of a state, or several start edges, the last.   *)
Declares(n, id) == Written(n, {"state", "composite"}) /\ source[n].id = id

VariableAt(n) == [name |-> source[n].name, type |-> source[n].type]

(* What the lines ns say, one after the other.                             *)
AsWritten(ns, F(_)) == [k \in 1 .. Cardinality(ns) |-> F(InOrder(ns)[k])]

StateAsWritten(id) ==
  LET n  == Max({n \in DOMAIN source : Declares(n, id)})
      ks == {k \in WrittenLines({"var"}) : k > n /\ source[k].state = id}
  IN  [line |-> n, vars |-> AsWritten(ks, VariableAt)]

TargetOf(kind) ==
  IF WrittenLines({kind}) = {} THEN "" ELSE source[Max(WrittenLines({kind}))].id

DiagramAsWritten ==
  [states |-> [id \in {source[n].id : n \in WrittenLines({"state", "composite"})} |-> StateAsWritten(id)],
   edges  |-> {[line |-> n, edge |-> source[n].edge] : n \in WrittenLines({"edge"})},
   start  |-> TargetOf("start"),
   end    |-> TargetOf("end")]

-----------------------------------------------------------------------------
(* A block without a body, or the lines from its head to its brace.        *)
InBlock(n, p) ==
  /\ p < n /\ Drawn(p, {"promote"}) /\ source[p].body
  /\ \A j \in Between(p, n) : Is(j, {"blank", "include"})

CompositesAround(n) ==
  {c \in 1 .. n - 1 : /\ Drawn(c, {"composite"})
                      /\ \A j \in Between(c, n) : Drawn(j, {"close"}) => \E p \in Between(c, j) : InBlock(j, p)}

BlockAsWritten(n) ==
  LET b        == source[n]
      around   == CompositesAround(n)
      includes == {j \in DOMAIN source : Is(j, {"include"}) /\ InBlock(j, n)}
  IN  [map |-> b.map, idParam |-> b.idParam, type |-> b.type, alias |-> b.alias, line |-> n,
       in   |-> IF around = {} THEN None ELSE source[Max(around)].id,
       path |-> IF includes = {} THEN None ELSE source[Max(includes)].path]

NotesStartingAt(n) ==
  {k \in 1 .. n - 1 : Written(k, {"note"}) /\ \A j \in Between(k, n) : Is(j, {"blank"})}

DirectiveLines(kind) ==
  {n \in DOMAIN source : Is(n, {kind}) /\ NotesStartingAt(n) # {}}

AnchorAsWritten(n) == source[Max(NotesStartingAt(n))].anchor

SyncAsWritten(n)      == SyncAt(n, AnchorAsWritten(n))
ConstrainAsWritten(n) == ConstrainAt(n, AnchorAsWritten(n))

DirectivesAsWritten ==
  /\ global.promotes = AsWritten(WrittenLines({"promote"}), BlockAsWritten)
  /\ global.syncs = AsWritten(DirectiveLines("sync"), SyncAsWritten)
  /\ global.constrains = AsWritten(DirectiveLines("constrain"), ConstrainAsWritten)
  /\ diags = {Info("dropped", n) : n \in {n \in WrittenLines({"include"}) : ~ \E p \in 1 .. n : InBlock(n, p)}}
             \cup {Warning("misspelt", n) : n \in DirectiveLines("misspelt")}

-----------------------------------------------------------------------------
(* The grammar, as far as it is about how lines follow each other.         *)
VarBelongs(n) ==
  \E k \in 1 .. n - 1 :
    /\ Declares(k, source[n].state)
    /\ \A j \in Between(k, n) : ~ Written(j, Declarations \cup {"composite"})

(* Lines that may stand for themselves, where they may.                    *)
InPlace(n) ==
  CASE Is(n, {"startuml"}) -> n = 1
    [] Is(n, {"state", "start", "edge", "end"}) -> ~ \E k \in 1 .. n - 1 : Written(k, {"end"})
    [] Is(n, {"var"}) -> VarBelongs(n)
    [] Is(n, {"close"}) -> CompositesAround(n) # {} \/ \E p \in 1 .. n : InBlock(n, p)
    [] OTHER -> Is(n, Trivia \cup {"ignore", "enduml"} \cup Lifted)

BlockLegible(n) ==
  /\ source[n].titled
  /\ source[n].body => \E i, c \in DOMAIN source :
       /\ n < i /\ i < c /\ Is(i, {"include"}) /\ Is(c, {"close"})
       /\ \A j \in Between(n, c) \ {i} : Is(j, {"blank"})

CompositeLegible(n) ==
  /\ ~ \E k \in 1 .. n - 1 : Written(k, {"end"})
  /\ CompositesAround(n) = {}
  /\ \E c \in DOMAIN source : /\ Drawn(c, {"close"}) /\ n \in CompositesAround(c)
                              /\ ~ \E p \in 1 .. c : InBlock(c, p)

NoteLegible(n) ==
  \E m \in DOMAIN source :
    /\ n < m /\ Is(m, {"endnote"}) /\ \A j \in Between(n, m) : ~ Is(j, {"endnote"})
    /\ \A k \in Between(n, m) : Is(k, Directives) /\ n \in NotesStartingAt(k) =>
         source[k].wellFormed /\ \A j \in Between(k, m) : ~ Is(j, Directives)

Legible ==
  /\ Is(1, {"startuml"}) /\ \E n \in DOMAIN source : Ending(n)
  /\ \A n \in {n \in DOMAIN source : ~ InNote(n) /\ ~ Ignored(n) /\ ~ Beyond(n)} : InPlace(n)
  /\ \A n \in DOMAIN source :
       /\ Written(n, Lifted \cup {"close"}) => input.tool = "promote"
       /\ Written(n, {"promote"}) => BlockLegible(n)
       /\ Written(n, {"composite"}) => CompositeLegible(n)
       /\ Written(n, {"note"}) => NoteLegible(n)

(* The scanner does not know of regions and of the end of the diagram: the *)
(* promise is for texts that hold nothing of its own there.                *)
Tidy ==
  input.tool = "promote" => \A n \in DOMAIN source :
    Drawn(n, Lifted \cup {"close"}) => ~ Ignored(n) /\ ~ Beyond(n)

SourceAsWritten ==
  input.png =>
    \E c \in DOMAIN input.chunks :
      /\ input.chunks[c].keyword = "plantuml" /\ input.chunks[c].text = source
      /\ \A b \in 1 .. c - 1 : /\ input.chunks[b].typ # "IEND"
                               /\ input.chunks[b].typ \in TextTypes => input.chunks[b].keyword # "plantuml"

(* A text is read exactly if it is legible, and then as it was written:    *)
(* every state, edge, block, sync and constraint is there, with the number *)
(* of its own line, inside the state and the note it was written in, and   *)
(* nothing else is; no text of an image is cut short.                      *)
ReadAsWritten ==
  /\ stage = "unreadable" /\ source # << >> /\ Tidy => ~ Legible
  /\ stage = "read" /\ phase = "unread" =>
       /\ SourceAsWritten
       /\ Tidy => /\ Legible
                  /\ core = DiagramAsWritten
                  /\ input.tool = "promote" => DirectivesAsWritten

(* A promote block, or the directive of a note.                            *)
DirectiveAt(n) == \/ Written(n, {"promote"})
                  \/ Is(n, Directives) /\ NotesStartingAt(n) # {}

(* A global diagram given to a command for plain ones is refused, and the  *)
(* error says why, unless a marker that is no line comment comes before    *)
(* the directive: it may hide the directive from the hint (withHint).      *)
GlobalIsRefusedAsPlain ==
  input.tool = "parse" => \A n \in DOMAIN source : DirectiveAt(n) =>
    /\ stage # "read"
    /\ stage = "unreadable" /\ (\A k \in 1 .. n : ~ Is(k, {"bareignore"})) => hinted

=============================================================================
