---------------------------- MODULE GlobalReader ----------------------------
(***************************************************************************)
(* csdf/promote/parse.go in front of Expand: the scanner lifts the         *)
(* directives of a global diagram out of its text, csdf.Parse reads what   *)
(* is left, and csdfpromote expands the result.  A step of the scanner is  *)
(* an iteration of run or of the loop of readComposite; parent tells them  *)
(* apart.  A command that reads plain diagrams parses the text as it is.   *)
(*                                                                         *)
(* The scanner's lists are those of the global diagram it returns.         *)
(***************************************************************************)
EXTENDS Promotion, DiagramText

CONSTANT
  LocalFiles  \* the local diagrams there are when a text is read

(* Identifiers are not empty, and an edge that is written has no origin.   *)
IsLine(l) ==
  /\ l.kind \in {"state", "composite", "start", "end"} => l.id # ""
  /\ l.kind = "var" => l.state # ""
  /\ l.kind = "edge" => l.edge.origin = << >>
  /\ l.kind = "sync" /\ l.wellFormed => IsSequence(l.targets)
  /\ l.kind = "constrain" /\ l.wellFormed => IsSequence(l.params)

IsText(text) == IsSequence(text) /\ \A l \in ToSet(text) : IsLine(l)

IsInput(i) ==
  /\ i.tool \in {"parse", "promote"} /\ i.png \in BOOLEAN
  /\ ~ i.png => IsText(i.text)
  /\ i.png => IsSequence(i.chunks) /\ \A c \in ToSet(i.chunks) :
               IsText(c.text) /\ c.coding \in {"plain", "deflated", "malformed"}

ASSUME ReaderAssumption ==
  /\ \A i \in Inputs : IsInput(i)
  /\ IsSource([global |-> [promotes |-> << >>, syncs |-> << >>, constrains |-> << >>, edges |-> {}],
               files |-> LocalFiles])
  /\ MaxDecompressedSize \in Nat

VARIABLE
  parent  \* the composite state the scanner is in, or ""

scanVars == <<global, diags, parent>>
expandVars == <<files, phase, next, loaded, plans, owned, edges>>
readerVars == <<vars, textVars, parent>>

Nothing == [vars |-> << >>, edges |-> {}, promotes |-> << >>, syncs |-> << >>, constrains |-> << >>]

ReaderInit ==
  /\ TextInit
  /\ global = Nothing /\ files = LocalFiles /\ phase = "unread" /\ next = 1
  /\ diags = {} /\ loaded = << >> /\ plans = << >> /\ owned = {} /\ edges = {}
  /\ parent = ""

-----------------------------------------------------------------------------
Blank == [kind |-> "blank"]

(* Faulty variant: one empty line stands for all that is lifted.           *)
blank_Once(n) == out' = Append(out, Blank)

blank(n) == out' = out \o [k \in 1 .. n |-> Blank]

Scanning(kinds) == stage = "scanning" /\ at \in DOMAIN source /\ source[at].kind \in kinds

(* The first line from n on that is none of kinds.                         *)
After(n, kinds) ==
  CHOOSE m \in n .. Len(source) + 1 :
    /\ \A k \in n .. m - 1 : source[k].kind \in kinds
    /\ m <= Len(source) => source[m].kind \notin kinds

IsKind(n, kind) == n \in DOMAIN source /\ source[n].kind = kind

Fail == Unreadable /\ UNCHANGED scanVars

ScannedTo(n) == at' = n /\ UNCHANGED <<input, stage, source, core, declaring, ignoring, hinted>>

(* readPromote: a body is one include between empty lines.                 *)
BodyOf(n)  == After(n + 1, {"blank"})
CloseOf(n) == After(BodyOf(n) + 1, {"blank"})
Laid(n)    == IsKind(BodyOf(n), "include") /\ IsKind(CloseOf(n), "close")

BlockAt(n, in) ==
  LET b == source[n]
  IN  [map |-> b.map, idParam |-> b.idParam, type |-> b.type, alias |-> b.alias,
       path |-> IF b.body THEN source[BodyOf(n)].path ELSE None,
       in |-> IF in = "" THEN None ELSE in, line |-> n]

readPromote ==
  /\ Scanning({"promote"})
  /\ LET b == source[at]
     IN  IF ~ b.titled \/ (b.body /\ ~ Laid(at)) THEN Fail
         ELSE LET end == IF b.body THEN CloseOf(at) ELSE at
              IN  /\ global' = [global EXCEPT !.promotes = Append(@, BlockAt(at, parent))]
                  /\ blank(end - at + 1) /\ ScannedTo(end + 1)
                  /\ UNCHANGED <<diags, parent>>

Flattened(l) == [kind |-> "state", id |-> l.id]

(* readComposite, up to its loop: only one level is allowed.               *)
readComposite ==
  /\ Scanning({"composite"})
  /\ IF parent # "" THEN Fail
     ELSE /\ parent' = source[at].id
          /\ out' = Append(out, Flattened(source[at])) /\ ScannedTo(at + 1)
          /\ UNCHANGED <<global, diags>>

CloseComposite ==
  /\ Scanning({"close"}) /\ parent # ""
  /\ parent' = ""
  /\ blank(1) /\ ScannedTo(at + 1)
  /\ UNCHANGED <<global, diags>>

readPreprocessor ==
  /\ Scanning({"include", "macro"})
  /\ diags' = IF IsKind(at, "include") THEN diags \cup {Info("dropped", at)} ELSE diags
  /\ blank(1) /\ ScannedTo(at + 1)
  /\ UNCHANGED <<global, parent>>

-----------------------------------------------------------------------------
Directives == {"sync", "constrain"}

SyncAt(n, anchor) ==
  [event |-> source[n].event, targets |-> source[n].targets, anchor |-> anchor, line |-> n]

ConstrainAt(n, anchor) ==
  [event |-> source[n].event, params |-> source[n].params, guard |-> source[n].guard,
   mentions |-> source[n].mentions, anchor |-> anchor, line |-> n]

(* readDirective: the first line of a note that is not empty.              *)
readDirective(n, anchor) ==
  /\ global' = CASE IsKind(n, "sync") -> [global EXCEPT !.syncs = Append(@, SyncAt(n, anchor))]
                 [] IsKind(n, "constrain") -> [global EXCEPT !.constrains = Append(@, ConstrainAt(n, anchor))]
                 [] OTHER -> global
  /\ diags' = IF IsKind(n, "misspelt") THEN diags \cup {Warning("misspelt", n)} ELSE diags

EndOfNote(n) == CHOOSE m \in n + 1 .. Len(source) :
  IsKind(m, "endnote") /\ \A k \in n + 1 .. m - 1 : ~ IsKind(k, "endnote")

Terminated(n) == \E m \in n + 1 .. Len(source) : IsKind(m, "endnote")

(* The note at n holds a malformed directive, or a second one.             *)
BadNote(n) ==
  LET first == After(n + 1, {"blank"})
  IN  /\ source[first].kind \in Directives
      /\ \/ ~ source[first].wellFormed
         \/ \E k \in first + 1 .. EndOfNote(n) - 1 : source[k].kind \in Directives

readNote ==
  /\ Scanning({"note"})
  /\ IF ~ Terminated(at) \/ BadNote(at) THEN Fail
     ELSE /\ readDirective(After(at + 1, {"blank"}), source[at].anchor)
          /\ blank(EndOfNote(at) - at + 1) /\ ScannedTo(EndOfNote(at) + 1)
          /\ UNCHANGED parent

-----------------------------------------------------------------------------
Lifted == {"promote", "composite", "note", "include", "macro"}

CopyLine ==
  /\ stage = "scanning" /\ at \in DOMAIN source /\ source[at].kind \notin Lifted
  /\ ~ (source[at].kind = "close" /\ parent # "")
  /\ out' = Append(out, source[at]) /\ ScannedTo(at + 1)
  /\ UNCHANGED scanVars

(* The end of run: what is left goes to csdf.Parse.                        *)
EndScan ==
  /\ stage = "scanning" /\ at > Len(source)
  /\ IF parent # "" THEN Fail
     ELSE /\ stage' = "parsing" /\ at' = 1
          /\ UNCHANGED <<input, source, out, core, declaring, ignoring, hinted, scanVars>>

scan ==
  \/ readPromote \/ readComposite \/ CloseComposite \/ readPreprocessor
  \/ readNote \/ CopyLine \/ EndScan

-----------------------------------------------------------------------------
(* What Expand looks at of the core diagram.                               *)
TypesOf(vs) ==
  [v \in {x.name : x \in ToSet(vs)} |-> {x.type : x \in {x \in ToSet(vs) : x.name = v}}]

ParseGlobal ==
  /\ stage = "read" /\ input.tool = "promote" /\ phase = "unread"
  /\ global' = [global EXCEPT !.vars = [s \in DOMAIN core.states |-> TypesOf(core.states[s].vars)],
                              !.edges = {x.edge : x \in core.edges}]
  /\ phase' = "blocks"
  /\ UNCHANGED <<files, next, diags, loaded, plans, owned, edges, textVars, parent>>

ReaderNext ==
  \/ TextNext /\ UNCHANGED <<vars, parent>>
  \/ scan /\ UNCHANGED expandVars
  \/ ParseGlobal
  \/ Next /\ UNCHANGED <<textVars, parent>>

(* Expand may also be called with a diagram that the caller has.           *)
CallerInit ==
  /\ Init
  /\ input = [tool |-> "none"] /\ stage = "read" /\ source = << >> /\ at = 1 /\ out = << >>
  /\ core = EmptyDiagram /\ declaring = "" /\ ignoring = FALSE /\ hinted = FALSE
  /\ parent = ""

ReaderSpec == (ReaderInit \/ CallerInit) /\ [][ReaderNext]_readerVars

=============================================================================
