---------------------------- MODULE DiagramText ----------------------------
(***************************************************************************)
(* How the text of a diagram is found and read: pngsrc takes it out of a   *)
(* PNG image, csdf.Parser reads it, and csdf.ParseBytes adds a hint to its *)
(* errors.                                                                 *)
(*                                                                         *)
(* A text is a sequence of lines, and a line is a record of what the       *)
(* grammars make of it.  Its kind is one of                                *)
(*   startuml enduml                                                       *)
(*   blank comment ignore unignore      trivia, and the two markers        *)
(*   bareignore bareunignore            markers that are no line comments: *)
(*                                      prose, but not for the hint        *)
(*   state composite [id]   var [state, name, type]                        *)
(*   start [id]   edge [edge]   end [id]                                   *)
(*   promote [titled, body, ...]   close   include [path]   macro          *)
(*   note [anchor]   endnote   sync constrain [wellFormed, ...]            *)
(*   misspelt                           a directive's name in another case *)
(*   prose                              anything else                      *)
(* A block comment is on one line, and no identifier starts with "state".  *)
(***************************************************************************)
EXTENDS Naturals, SequencesExt, TLC

CONSTANTS
  Inputs,              \* [tool, png, text or chunks]: what a command reads
  MaxDecompressedSize  \* in lines

VARIABLES
  input,      \* what is read, and by which command
  stage,      \* the function that reads it
  source,     \* the text found in the input
  at,         \* the next chunk, line of source or line of out
  out,        \* the text given to the parser
  core,       \* the diagram parsed so far
  declaring,  \* the state whose variables may follow
  ignoring,   \* inside a CSDF-IGNORE region
  hinted      \* the error tells of promotion directives

textVars == <<input, stage, source, at, out, core, declaring, ignoring, hinted>>

EmptyDiagram == [states |-> << >>, edges |-> {}, start |-> "", end |-> ""]

TextInit ==
  /\ input \in Inputs
  /\ stage = "extracting" /\ source = << >> /\ at = 1 /\ out = << >>
  /\ core = EmptyDiagram /\ declaring = "" /\ ignoring = FALSE /\ hinted = FALSE

Unreadable ==
  /\ stage' = "unreadable"
  /\ UNCHANGED <<input, source, at, out, core, declaring, ignoring, hinted>>

-----------------------------------------------------------------------------
(* Chunks: [typ, frame, keyword, coding, text].  The frame is "whole", or  *)
(* it is short, too long or runs over the input; the coding is "plain",    *)
(* "deflated", or "malformed" if a NUL is missing, a flag or a method is   *)
(* unknown, or the data does not inflate.                                  *)

TextTypes == {"tEXt", "zTXt", "iTXt"}

(* One more than the limit is read, to see whether there is more.          *)
InflateBounded(text) ==
  LET read == SubSeq(text, 1, Min({Len(text), MaxDecompressedSize + 1}))
  IN  [ok |-> Len(read) <= MaxDecompressedSize, text |-> read]

decode(c) ==
  CASE c.coding = "malformed" -> [ok |-> FALSE, text |-> << >>]
    [] c.coding = "deflated"  -> InflateBounded(c.text)
    [] c.coding = "plain"     -> [ok |-> TRUE, text |-> c.text]

(* csdfpromote scans the text before it is parsed.                         *)
Extracted(text) ==
  /\ source' = text /\ at' = 1
  /\ IF input.tool = "promote" THEN stage' = "scanning" /\ out' = << >>
                               ELSE stage' = "parsing" /\ out' = text
  /\ UNCHANGED <<input, core, declaring, ignoring, hinted>>

ExtractText ==
  /\ stage = "extracting" /\ ~ input.png
  /\ Extracted(input.text)

(* PNGTextChunks and Extract, one chunk.  The first chunk of PlantUML's is *)
(* the text, and an error before it is an error.                           *)
ExtractChunk ==
  /\ stage = "extracting" /\ input.png /\ at <= Len(input.chunks)
  /\ LET c == input.chunks[at]
     IN  IF \/ c.frame # "whole" \/ c.typ = "IEND"
            \/ c.typ \in TextTypes /\ ~ decode(c).ok
         THEN Unreadable
         ELSE IF c.typ \in TextTypes /\ c.keyword = "plantuml"
         THEN Extracted(decode(c).text)
         ELSE /\ at' = at + 1
              /\ UNCHANGED <<input, stage, source, out, core, declaring, ignoring, hinted>>

NoChunk ==
  /\ stage = "extracting" /\ input.png /\ at > Len(input.chunks)
  /\ Unreadable

-----------------------------------------------------------------------------
HasKind(text, kind) == \E n \in DOMAIN text : text[n].kind = kind

(* The hint looks for the markers whether or not a quote comes first.      *)
OpensRegion(l)  == l.kind \in {"ignore", "bareignore"}
ClosesRegion(l) == l.kind \in {"unignore", "bareunignore"}

(* Faulty variant: a region that was opened is never closed.               *)
withoutIgnoreRegions_Unclosed(text) ==
  LET ignored == {n \in DOMAIN text : \E k \in 1 .. n : OpensRegion(text[k])}
  IN  [n \in DOMAIN text \ ignored |-> text[n]]

(* An unterminated region runs to the end.                                 *)
withoutIgnoreRegions(text) ==
  LET ignored == {n \in DOMAIN text : \/ ClosesRegion(text[n])
                                     \/ \E k \in 1 .. n : /\ OpensRegion(text[k])
                                                         /\ \A j \in k .. n - 1 : ~ ClosesRegion(text[j])}
  IN  [n \in DOMAIN text \ ignored |-> text[n]]

holdsPromotionDirectives(text) ==
  LET shown == withoutIgnoreRegions(text)
  IN  \/ HasKind(shown, "promote") \/ HasKind(shown, "include")
      \/ HasKind(shown, "note") /\ (HasKind(shown, "sync") \/ HasKind(shown, "constrain"))

(* A parse error, in the words of withHint.                                *)
ParseError ==
  /\ stage' = "unreadable"
  /\ hinted' = holdsPromotionDirectives(out)
  /\ UNCHANGED <<input, source, at, out, core, declaring, ignoring>>

Trivia == {"blank", "comment", "unignore"}

Parsing(kinds) ==
  /\ stage = "parsing" /\ at \in 2 .. Len(out) /\ ~ ignoring
  /\ out[at].kind \in kinds

Parsed == at' = at + 1 /\ UNCHANGED <<input, stage, source, out, hinted>>

ParseOpening ==
  /\ stage = "parsing" /\ at = 1
  /\ IF Len(out) > 1 /\ out[1].kind = "startuml"
     THEN Parsed /\ UNCHANGED <<core, declaring, ignoring>>
     ELSE ParseError

skipTrivia ==
  /\ Parsing(Trivia \cup {"ignore"})
  /\ ignoring' = (out[at].kind = "ignore")
  /\ Parsed /\ UNCHANGED <<core, declaring>>

skipIgnoreRegion ==
  /\ stage = "parsing" /\ at <= Len(out) /\ ignoring
  /\ ignoring' = (out[at].kind # "unignore")
  /\ Parsed /\ UNCHANGED <<core, declaring>>

Unended == core.end = ""

(* A second declaration of a state takes the place of the first.           *)
parseState ==
  /\ Parsing({"state"}) /\ Unended
  /\ core' = [core EXCEPT !.states =
                [id \in DOMAIN core.states \cup {out[at].id} |->
                   IF id = out[at].id THEN [line |-> at, vars |-> << >>] ELSE core.states[id]]]
  /\ declaring' = out[at].id
  /\ Parsed /\ UNCHANGED ignoring

(* Variables follow their state, with nothing but trivia between.          *)
parseStateVar ==
  /\ Parsing({"var"}) /\ out[at].state = declaring
  /\ core' = [core EXCEPT !.states[declaring].vars =
                Append(@, [name |-> out[at].name, type |-> out[at].type])]
  /\ Parsed /\ UNCHANGED <<declaring, ignoring>>

parseStartEdge ==
  /\ Parsing({"start"}) /\ Unended
  /\ core' = [core EXCEPT !.start = out[at].id]
  /\ declaring' = ""
  /\ Parsed /\ UNCHANGED ignoring

(* An edge keeps the number of its line.                                   *)
parseEdge ==
  /\ Parsing({"edge"}) /\ Unended
  /\ core' = [core EXCEPT !.edges = @ \cup {[line |-> at, edge |-> out[at].edge]}]
  /\ declaring' = ""
  /\ Parsed /\ UNCHANGED ignoring

parseEndEdge ==
  /\ Parsing({"end"}) /\ Unended
  /\ core' = [core EXCEPT !.end = out[at].id]
  /\ declaring' = ""
  /\ Parsed /\ UNCHANGED ignoring

(* What follows @enduml is not read.                                       *)
ParseClosing ==
  /\ Parsing({"enduml"})
  /\ stage' = "read"
  /\ UNCHANGED <<input, source, at, out, core, declaring, ignoring, hinted>>

Declarations == {"state", "start", "edge", "end"}

(* The core grammar has no rule for the next line.                         *)
Unexpected ==
  \/ Parsing(Declarations) /\ ~ Unended
  \/ Parsing({"var"}) /\ out[at].state # declaring
  \/ /\ stage = "parsing" /\ at > 1 /\ at <= Len(out) /\ ~ ignoring
     /\ out[at].kind \notin Trivia \cup {"ignore", "var", "enduml"} \cup Declarations

Unterminated == stage = "parsing" /\ at > 1 /\ at > Len(out)

(* Faulty variant: a line the grammar has no rule for is passed over.      *)
ParseFails_Lenient ==
  /\ Unexpected
  /\ Parsed /\ UNCHANGED <<core, declaring, ignoring>>

ParseFails == (Unexpected \/ Unterminated) /\ ParseError

TextNext ==
  \/ ExtractText \/ ExtractChunk \/ NoChunk
  \/ ParseOpening \/ skipTrivia \/ skipIgnoreRegion
  \/ parseState \/ parseStateVar \/ parseStartEdge \/ parseEdge \/ parseEndEdge
  \/ ParseClosing \/ ParseFails

=============================================================================
