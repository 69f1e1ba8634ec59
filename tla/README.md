# A formal model of the Composable State Diagram tools

The repository holds a family of Go tools around *Composable State Diagrams*
(CSDF), a subset of PlantUML's state diagrams read as CSP-like processes. This
directory holds TLA+ models of the parts that carry the tools' logic, TLC
configurations that check them on small instances, and TLAPS proofs of their
main theorems for every instance.

## The system

| Component | Source | State it keeps | Operations | Modules |
|---|---|---|---|---|
| Parallel composition | `csdf/composition.go`, `csdf/predicate.go` | worklist of state pairs, marked ids, diagram under construction | `ComposeParallel`, `ComposeParallel2` | `Composition`, `InterfaceParallel`, `CompositionProofs` |
| Livelock check | `csdf/livelock.go` | reachable set, DFS stack and colours, BFS queue | `CheckLivelockFree` | `Livelock`, `LivelockProofs`, `Recursion` |
| Normalisation | `csdf/normalize.go` | worklist of sets of states, closure under way | `Normalize`, `TauClosure` | `Normalization`, `NormalizationProofs`, `Recursion` |
| Exploration session | `csdf/animation/session.go`, `csdf/solver.go` | mode, pending transition, history, current state | `EnterValues`, `Select`, `Jump`, `Back` | `Session` |
| Session service | `csdf/animation/proto/` | table of sessions, creation order, last id, mutex | ten commands of `Handle` | `Service`, `SessionStore`, `SessionProofs`, `Recursion` |
| Daemon and client | `tools/csdfrepld`, `tools/csdfreplcmd` | socket file, listener, interrupt channel, connection goroutines | `serve`, `ensureSocketFree`, `handleConn`, `runRequest` | `Daemon`, `SessionProofs` |
| REPL | `tools/csdfrepl` | position in two nested input loops, a session | one line or interrupt at a time | `Repl`, `ReplDiagram`, `SessionProofs` |
| Promotion | `csdf/promote` | scanner position, lifted directives, blanked text; local diagrams, sync plans, owned events, expanded edges, diagnostics | `ParseGlobal`, `Expand`, `Refusal` | `GlobalReader`, `DiagramAsWritten`, `Promotion`, `PromotedFamily`, `PromotionProofs`, `ReadingProofs`, `Recursion` |
| Composition trees, event operators | `csdf/comptree.go`, `hide.go`, `events.go`, `sort.go` | expressions to finish, diagrams of finished ones | `ParseExpr`, `ComposeTree`, `Hide`, `AllEvents`, `CommonEvents`, `Sort` | `ProcessTree`, `ProcessSemantics` |
| Obligation IR | `csdf/obligationir` | set of predicates with ids | `PredicateSet.Add`, `BuildIRLivelockFree`, `BuildIRRefinement`, `Mangle` | `ObligationIR`, `Theory`, `Obligations`, `ObligationProofs` |
| Proof text generators | `obligationir/{isabelle,lean}`, `obligationir/target` | none | `WriteLivelockFree`, `WriteRefinement`, `Compile` | `IsabelleObligation`, `LeanObligation`, `Obligations`, `ObligationProofs` |
| Diagram parser | `csdf/parser.go`, `csdf/diagram.go` | position, state being declared, diagram so far | `Parse`, `ParseBytes`, the hint of its errors | `DiagramText`, `DiagramAsWritten`, `ReadingProofs` |
| PNG source extraction | `pngsrc` | next chunk | `Extract`, `InflateBounded` | `DiagramText` |
| IR as JSON, rendering, command lines, logging | `obligationir/irjson`, `animation/render.go`, `cli`, `tools` | none | text output, flags | not modelled |

How they interact: the command-line tools read diagrams (parser, PNG reader),
call one of the pure transformations (composition, hiding, normalisation,
promotion, livelock check) and print a diagram or a proof obligation.
Composition trees call composition and hiding recursively. Promotion scans the text
of a global diagram first and hands the parser what is left, and the parser's edges
and variables to the expansion. The two commands that write obligations build one
representation, from which either backend writes its theory. The REPL drives one
session in a terminal; the daemon holds many of them in a service, and clients
reach it with one request per connection over a Unix socket.

What is hard to get right here, and which properties say it is:

* **Worklists over Go maps.** Composition discovers pairs in any order, and marks
  them by a composed string id. The result must be the product whatever the
  order (`ExhaustedIsProduct`), the fold over several operands must be n-ary
  interface parallel (`ResultIsInterfaceParallel`), and the call must end
  (`Returns`). Normalisation has the same shape (`FollowsEveryTrace`,
  `KeepsPredicates`, `Returns`).
* **Search state that outlives a search.** The livelock check keeps colours from
  one root to the next and cuts its witness out of the stack by index
  (`FreeCannotDiverge`, `WitnessIsLivelock`, `StemIsShortest`).
* **Sequences of legal calls.** A session's history, current state and pending
  transition are three variables that must go on describing one run of the
  diagram (`HistoryIsReachable`, `HistoryKept`); the REPL drives them from two
  nested prompts that must agree with the session about what is awaited
  (`ModesInStep`, `BehavesAsDocumented`).
* **Passes that hand work to each other.** Promotion checks blocks, plans syncs,
  expands blocks, merges syncs and rewrites guards in passes over the same events;
  each move must come out exactly once (`ExpansionIsFamily`), and nothing an author
  wrote may go unsaid (`DirectivesApply`, `PostsKept`).
* **Two readers of one text.** A scanner lifts the directives out of a global diagram
  and must leave every other line at its number for the parser that comes after it;
  notes, ignored regions, composite states and blocks overlap in ways few tests
  combine, and an image ends the reading at any chunk (`ReadAsWritten`,
  `GlobalIsRefusedAsPlain`).
* **Recursion over worklists.** The nodes of a composition tree compose diagrams that
  compositions and hidings made, with ids that hold the joining character
  (`TreeIsProcess`).
* **Names that must stay apart.** Placeholders come from hashes and probing, declared
  names from an encoding, line numbers and prefixes; a clash would make a theory say
  something else, in a prover that does not notice (`PlaceholdersFaithful`,
  `TheoryDenotesDiagrams`, `ProbingEnds`).
* **Obligations that are not written.** A structural check lets a backend leave
  theorems out, and two backends repeat the same decisions
  (`DivergenceIsObliged`, `BackendsMirror`).
* **Concurrency.** Requests of several connections interleave in the service
  (`TakesEffectAtOnce`, `OrderListsSessions`, `Answered`); daemons compete for a
  socket path with steps that look and steps that act
  (`ReachableUnlessOverlapped`, `CleanExit`, and `OneDaemon`, which fails).
* **Crashes, shutdown, interrupts.** A killed daemon leaves a file behind, an
  interrupt may come before anyone waits for it, and a daemon ends while
  connections are open (`CleanExit`, `InterruptEnds`, `ClientsReleased`). The REPL
  on a pipe waits for a line and an interrupt at once (`InterruptsHeeded`,
  `EndsWithInput`).

`PROJECT.json` lists these hazards at the lines where they bite.

## Modules

`Diagrams` is the abstract syntax composition and normalisation share. A state
id is a sequence of characters, because two functions join ids with `_` and the
question is which ids can be confused. A predicate is the sequence of its
conjuncts (the omitted predicate and `true` are the empty sequence), and a slice
of edges is a set, since the code sorts it and never counts copies. The contents
of a state (name, variables) are a sequence, joined when states are composed.

`InterfaceParallel` is the reference: CSP interface parallel of *n* processes
defined directly on vectors of states, the reachable ones being the least set that is
closed under the steps. `Composition` is the code. One action is
one call of `composeParallel2` (an iteration of the worklist); `ComposeParallel2`
is the set-up before the loop, `ReturnComposite` the step of the fold after it.
The iteration ranges over two Go maps: the model lets the newly found pairs be
enqueued in any order and, where several have one id, any of them be the one
that is kept, written or enqueued (when ids are ambiguous the code would tie the
choice of the state written last to the order of enqueuing in some cases; the
model allows all combinations, and no passing run has ambiguous ids).

`ProcessSemantics` is the meaning of a composition tree by structure: what steps a
vector of leaf states has, without building or exploring any diagram. `ProcessTree` is
`composeTree` as a stack machine: the expressions to finish, innermost first, and the
diagrams of finished ones. An inner node runs the worklist of `Composition` step by
step on the diagrams it takes off the stack; `csdfparallel`'s call on diagrams given as
arguments is the machine with one node. `Sort` after a hiding is the identity on a
set of edges.

`Livelock` has one action per iteration of each of its four loops. Ids, events
and predicates matter by their order only and are naturals. A depth-first frame
keeps the edges from its index on, as a set in the canonical order. The exit of
`stemTo` for an exhausted queue has no action: it is not reached, which
`Returns` would notice.

`Normalization` has a phase for each point of the code between which nothing
branches; both calls of `TauClosure` share its loop. The disjunction of merged
predicates is a set of disjuncts in which `true` absorbs the others.

`Session` gives the operations of a session as guards and results on a record,
since a failing operation changes nothing. `Service` is `Handle` under
`handleConn`'s goroutines: looking up (`resolve`), changing and rendering are
separate steps inside the mutex, so that what the mutex protects can go wrong in
the model. Values of state variables are opaque; the solver's verdict (an array of
the right length or not) is kept. Both kinds of failing solver result are one. An
unknown command is answered like `server_version`, without touching a session,
and is left out. `SessionStore` is what clients are promised: each request takes
effect at one instant, on a table with neither mutex nor creation order.
`Service` implements it under the mapping of `Promise`, with `nextID` as the last
number and a response counted as given from the step that decides it.

`Daemon` is the life of processes that share one socket path. The socket file is
the process that bound it; `Bind` and `Listen` are the two halves of
`net.Listen`; closing a listener unlinks the path (whatever is there by then)
before it stops listening, as package `net` does for listeners it created; a
process that ends closes all its connections. These and `Kill` are external. The
accept loop goes on between the two halves of the close. Requests are abstract
here: taking effect in the service is one step, which `Service` justifies.
`overlapped` is a history variable: it records that two processes were starting
or stopping at once. The connection that `ensureSocketFree` opens to probe a live
daemon is read as end of file and has no effect, and is left out.

`Repl` is `csdfrepl` between two reads: one step looks for an interrupt, waits, and
then does everything the loop does with what it got, because nothing else touches
the session meanwhile. A line is a record of what either prompt makes of its text:
the command and index found by `parseCommand`, and the values found by the solver.
On a pipe the goroutine of `newLineReader` hands over one line at a time and drops
what follows the last line break; the branch for its closed channel is not taken,
because the error it offers before it closes the channel ends the command. In a
terminal Ctrl+C is a byte of the input, and a signal waits for the next `readLine`.
`ReplDiagram` is `docs/CSDFREPL.puml`, the diagram the repository draws of this
command, as a specification of its own: its states that display and its events that
edit a line stutter, and a line that is answered with an error stutters as well
(whether the prompt that follows shows that line again is layout). `Repl`
implements it under the mapping of `Documented`; input that cannot be read, which
the diagram does not have, ends it like the end of the input.

`PromotedFamily` is what a promotion means: families of instances whose moves are
those of their local diagrams, taken alone or in a sync, and guarded by
constraints, and the meaning of the clauses that generated edges are made of. A
move relates the values of each state variable before and after it; since clauses
couple variables through the names of instances only, one relation per variable is
enough. `Promotion` is the code of `Expand`, an action per pass or per iteration
where later ones see the change, ending with `Refusal` as `csdfpromote` uses it. An
local event is its name and arguments (what `splitEvent` finds; a free text with other
parentheses is not split the same way twice and is left out). A generated event has the
ids of the instances it moves and the arguments of their edges, each listed once; their
order is not modelled, since a constraint looks at the name and the number only.
A predicate is the set of its clauses, and edges are a set because the code sorts
them. A diagnostic is its severity and what it is about; the two that range over a
Go map are sorted before anybody sees them.
Whether an argument has the name of an id is not said (the code lists it twice in the
merged event, and the model counts it twice).

`DiagramText` is how a text is found and read. A text is a sequence of lines and a
line is a record of what the grammars make of it: the patterns of single lines
(identifiers, strings, arrows, comments within a line) are not modelled, except where two
readers of a line disagree on a region's markers (`bareignore`), but everything that
depends on more than one line is, and so are line numbers. Two things that are legal are left out:
a block comment that runs over several lines, and identifiers that start with
`state` (see below). An image is a sequence of chunks, of which the frame, the type, the
keyword and the encoding matter; the size of a text is its number of lines.
`GlobalReader` is `promote/parse.go` in front of the parser and the expansion, one
action per iteration of its two scanning loops; `parent` tells them apart.
`ParseGlobal` is the hand-over to `Expand`. `CallerInit` is a program that calls
`Expand` with a diagram of its own. `DiagramAsWritten` is the reference: which lines
belong to a note, a block, a composite state or an ignored region is said of every line
by itself, by quantifiers over the lines before and after it, and so is the diagram and the
directives that an author wrote.

`ObligationIR` adds the predicates of one or two diagrams to the set, an occurrence at
a time, in the order of the builders; `Hash` is any function into the ids. `Theory` has
the names of declarations (`Mangle`, prefixes, suffixes) as sequences of
characters, and what a declaration is to a prover: the symbols it declares, those it
uses with how many arguments, the variables it leaves free, and what it says.
`IsabelleObligation` and `LeanObligation` are the two backends with the places where an
error or a panic cuts the output short; a panic on a datatype without constructors
and an error on an undeclared destination are both there. `Obligations` composes them
and states what a prover that reads the theory would make of it: it looks up
constructors and aliases in the text alone and gets the diagrams back. Texts of
predicates are not interpreted; `DivergenceIsObliged` ranges over all valuations that
make each text true or false for all values alike.

`MC*` modules choose the instances. Operators whose names end in a suffix after
an underscore under the heading *Faulty variant* (such as `Mark_Forgotten`) are
plausible bugs of the definition they follow. They are used by no specification:
putting one in place of its original makes the property it is listed with in
`PROJECT.json` fail, which shows that the run can see that bug.

## Runs

| Run | Shows | Bounds |
|---|---|---|
| `composition` | the composite is the interface parallel, and a tree the process it denotes, in every map order; the calls end | all left operands with up to 2 edges on 2 states against all right ones, over a shared event, a local one and tau; folds of three; end edges in each position; trees of up to three two-state leaves nested either way, every interface over {a, x}, hiding below and above, a broken part at each leaf |
| `composition_ids` | *violated*: joined ids are ambiguous | two operands of two states |
| `livelock` | verdict and witness are right, stems are shortest, the check ends | all diagrams of 3 states with up to 4 edges, tau or visible; parallel edges that differ in their label; five states with two ways to a tau loop and one edge more |
| `normalization` | the normal form follows every trace and keeps predicates; the call ends | all diagrams of 3 states with up to 3 edges on 2 visible events and tau; traces up to 3 events |
| `obligations` | placeholders are faithful, theories denote their diagrams, divergences are obliged, backends agree, probing ends | two states and up to 2 edges, names `_`, `_u5fu`, `-`, `_u2du`; 16 ids and hashes 14, 15 and 0; every kind of field list, end edge and mode |
| `service` | atomic requests, consistent tables, faithful histories, every request answered | 2 connections at a time, any number of requests, 2 sessions ever created, histories up to 3 entries |
| `daemon` | what holds of competing daemons and their client | 3 daemon processes, 1 client, any interleaving of starts, interrupts and kills |
| `daemon_race` | *violated*: two daemons serve one path | 3 daemon processes |
| `repl` | the command is the documented diagram, on a pipe and in a terminal; prompts and session agree; interrupts and the end of the input are heeded | 1 diagram with a loop and a silent edge, lines of every command with indices in and out of range, histories up to 4 entries |
| `promotion` | expanded diagrams move as their families, directives have effect, nothing is dropped unsaid; a text or image is read as it was written or refused | two families (3 and 2 states, 2 instances each), 24 and 3 edge sets, one or two states to move in, every fault of blocks and locals, 7 lists of syncs, 4 of constraints; three texts of up to 28 lines and all their single-line deletions, insertions, replacements and swaps, read by either kind of command; texts with bare markers around blocks; images of two chunks of 8 kinds |
| `promotion_names` | *violated*: states that share a name | the same with one local diagram |
| `repl_undeclared` | *violated*: an edge to an undeclared state ends the command | the same diagram with one such edge |

Why the bounds are enough. Two states and two edges a side give composition
cycles, diamonds, self loops, pairs that are met twice in an iteration and ids
with a separator on the left; three operands exercise the order of the fold. In
three states with four edges the livelock check meets colours left by earlier
roots, cycles through and beside the root, self loops and stems of length 0 to 2;
the diagrams of five states have a longer stem that a search in another order
would take.
Normalisation meets tau chains and loops, nondeterministic branching, sets met
again, and merged edges with and without predicates. Two connections are enough
to interleave any two handlers, and two sessions for a request without an id to
be ambiguous, and for one to be removed while another stays. Three processes are
needed for a daemon that stops, one that starts meanwhile and one that starts
afterwards. Two instances of a family show that the other one is left alone, and two families
in two states that a sync applies in one state and not in the other. Four entries
let the REPL jump to an entry that a jump has added. Three leaves nest a composite to
the left and to the right of another operand, where its ids are joined again. The
names of the obligation run are those whose encodings would meet without the rule for
a last `_` or without the doubling of any other; the hash of a new signature meets a
taken id, the last id, and the wrap to the first. The texts hold every kind of line,
and one line changed moves a line into a note, a block, a composite state, an ignored
region, behind `@enduml`, or behind the end edge, or leaves one of these open.
`MaxDecompressedSize` is the length of one text and less than that of another.

`IdSpace` is the number of predicate ids (2^32 in the code), `Inputs` the texts and
images to be read. The constants `MaxSessions`, `MaxHistory` and `MaxEntries` bound what clients ask for, never
what the service or the REPL does; `MaxTrace`, `MaxEdges` and `MaxState` bound inputs.
`MaxDecompressedSize` is a limit of the code, in lines.

`CHECK_DEADLOCK FALSE` is set where a run of the system ends: a call returns, and
daemons, clients and the REPL that have ended do not start again.

### Fairness

Compositions (`ProcessTree`), `Livelock` and `Normalization` are single goroutines that
run until they return: weak fairness of their next-state relations. A command that
writes an obligation goes on adding predicates (weak fairness of `Build`). In `Service`, a goroutine inside
`Handle` or writing its response is always able to go on (weak fairness); `Lock`
gets strong fairness, because a Go mutex switches to handing itself over in order
of arrival once a goroutine has waited a millisecond. In `Daemon`, processes go
on with what they have begun and accept and serve connections (weak fairness);
nobody has to start, interrupt, kill or dial a daemon. In `Repl`, the main
goroutine goes on when it can (weak fairness of looking for an interrupt and of
waiting on the pipe); nobody has to type or interrupt, and nothing is assumed of a
terminal.

### What the violations mean

* `composition_ids`: `_` joins ids and is legal inside them,
  and the worklists of composition and of normalisation (`normalize.go:129`) recognise
  pairs and sets by the joined id alone. Two pairs
  (or sets) with one id become one state. The passing runs and the proofs assume
  ids that cannot be confused: for composition it is enough that no operand but
  the first has `_` in its ids (`PlainJobs`), for normalisation that no two sets of states of an
  input have one id (`UnambiguousInputs`).
* `daemon_race`: `ensureSocketFree` looks and acts in separate steps, so two
  daemons that start together, or one that starts while another shuts down, can
  end up serving the same path, one of them out of reach. If starts and stops do
  not overlap it cannot happen (`ReachableUnlessOverlapped`).
* `promotion_names`: clauses call states by their names, and nothing asks that names
  be unique in a local diagram (ids are). The passing run has unique names, and two of the
  proofs assume them (`PlainInputs`).
* `repl_undeclared`: the parser lets edges to undeclared states through. `Select`
  fails on one with an error that is not an index out of range, and `run` returns
  it: the command ends where its diagram reports an error and prompts again.

## Proofs

`CompositionProofs` (for every set of jobs with `PlainJobs`):

* `TypeCorrect`: `Spec => []TypeOK`.
* `WorklistBuildsProduct`: `Spec => []ExhaustedIsProduct`.
* `FoldIsInterfaceParallel`: `Spec => []ResultIsInterfaceParallel`.

They are about one call of `ComposeParallel`. A tree makes several, on diagrams that
earlier calls built, whose ids are not plain any more; that these compose is only
model-checked.

The inductive invariant `IInv` says that during the exploration the start pair
and everything reachable so far is either processed or in the queue: marked ids
are the ids of `done \cup queue` for a set of processed pairs whose successors
are all marked, every pair met is reachable, and the edges are those of the
processed pairs. `ExhaustedIsProduct` alone is not inductive: it says nothing
until the queue is empty. When it is, the processed pairs are closed under
successors and so hold the least closed set. `PlainRightUnambiguous` is where the
ids enter: the first operand may have any ids, because the last separator of a
joined id is the one that joined it when the right id has none.

The fold needs a second invariant, `PrefixComposed`: at every moment the left diagram is
the interface parallel of the first *n* operands in the order they are folded, for some
*n*. What has to be shown is that one more call adds one more component to the vectors:
the steps of *n* + 1 processes are what interface parallel of two makes of the steps of the
first *n* and the edges of the last (`StepsOfExtension`, the associativity of the operator),
the pairs reached are the reachable vectors (`ReachablePairsAreVectors`), and distinct
vectors keep distinct ids (`ApartExtends`). `Represents` is what a diagram must show of its
operands for this; it does not care whether the diagram is the first operand itself, which
may have unreachable states, or a composite, which has none. Ids, guards, posts and contents
of *n* operands are flattened sequences, so appending an operand appends to each of them
(`FlattenAppended`).

`LivelockProofs` (for every set of diagrams):

* `TypeCorrect`: `Spec => []TypeOK`.
* `WitnessIsSound`: `Spec => []WitnessIsLivelock`.
* `FreeIsComplete`: `Spec => []FreeCannotDiverge`.
* `StemIsMinimal`: `Spec => []StemIsShortest`.

Its `IInv` has one part per phase: the search for reachable states leaves a
closed set; the stack is a path of tau edges whose frames have their entry edges
recorded; grey states are exactly those on the stack; black states have only
black tau successors or successors above them still to come; predecessor edges
lead back to the start by ever earlier visited states. `FreeIsComplete` follows
because all roots are black at the end and a divergent set would need a black
state with a tau successor coloured later. `StemIsMinimal` needs an invariant of its own
(`DistanceInv`): the queue of the breadth-first search holds states of at most two
neighbouring distances in order, everything nearer than its head is visited with its
successors, and predecessors are one step nearer to the start. The levels it speaks of are
`StatesWithin`, defined by recursion on the number of steps.

`ObligationProofs` (for every set of jobs, every number of ids and every hash):

* `ProbingIsFaithful`: `BuildSpec => []PlaceholdersFaithful`.
* `BackendsAgree`: `Spec => []BackendsMirror`.
* `DivergenceObliged`: `Spec => []DivergenceIsObliged`.
* `CompleteTheories`: `Spec => []TheoryIsComplete`, the first part of `TheoryDenotesDiagrams`.
* `MangleInjective`: names that `Mangle` writes alike are one name.

`PlaceholdersFaithful` speaks of occurrences; `PlaceholderInv` keeps it by two facts about
the maps.
`Handed`: every occurrence handed out so far has the id the set has for its signature.
`MutuallyInverse`: `id` and `m` are inverse to each other, up to signatures. A new id is free,
so it disturbs neither. That the hash may meet taken ids, or the end of the range,
plays no part in it: the argument needs only that probing stops at a free id. That it does
stop is liveness (`ProbingEnds`) and left to TLC.

`BackendsMirror` is about what a state of the representation is written as, and its invariant is
small: there are finitely many predicates, and the job is one of `Jobs` (`IRInv`). The rest is a
comparison of two programs. What both take from `Theory` is one operator under two names
(`SameCardinality` and what follows it). Two declarations are the same if they declare
and use the same symbols when the words that Isabelle and Lean spell differently are spelled
alike (`SameDeclaration`); two documents if they have the same declarations at the same places
(`Mirrored`), which joining and flattening keep (`MirroredJoin`, `MirroredFlatten`); and two
outputs if besides they fail together (`Alike`), which `WriteAll` keeps, although it stops at
the first part that fails (`AlikeAll`). Each part of the two documents is then shown to
be alike; where one has a declaration or a constructor for each event, state or predicate, the
lists are followed index by index (`MirroredEvents`, `AlikeStateType`, `MirroredPredicates`). `JobsAssumption` says that slices
are sequences, that maps are finite, how many diagrams an obligation is about, and that no two
edges of a diagram are on one line of its source.

`DivergenceIsObliged` says what a theory means to a prover that looks names up in its text, so
what has to be shown is that the text has one answer for each name, and the right one. The
invariant (`WrittenInv`) adds to the two above that a document is what a backend writes
of the representation, which is no longer changed. The argument:

1. *Names can be read back.* What `Mangle` writes for a character is not the beginning of
   what it writes for another (`CodesDecode`), so a name is made of one list of
   characters only (`UniquelyDecodable`, `MangleInjective`). `HexAssumption` says what this
   needs of hexadecimal digits: there is no `u` among them, and they
   determine the code point. Constructors are therefore an injective renaming of states
   (`CtorInjective`), and a renaming keeps cycles and what is reached (`CyclesRenamed`).
2. *What a theory tells.* Of its declarations the property reads predicates, aliases,
   relations, reachable sets and theorems. `Tells` gives them as a set, for every part of a
   document (`RelationTells`, `EndTells`, ...), and for the whole
   (`LivelockFreeDone`, `RefinementDone`), if the start state is declared.
3. *It tells everything once.* Aliases are named for the line of their edge and the suffix of
   their side, relations and sets for their word and side (`AliasesAreUnique`,
   `LayerIsUnique`); so looking up a name finds what was written for it (`TheIs`).
4. *Aliases stand for the texts of the diagram*, since the placeholder each is defined by was
   handed out for that text (`SideIs`, from `PlaceholderInv`), and so the relations hold of
   what the diagram's edges lead from and to (`RelationIs`).
5. The livelock theorem then is true exactly if the diagram does not diverge
   (`LivelockIsTrue`), and the theorem on the start exactly if it can be taken. Where the
   first is left out the structural check has found no cycle of internal edges
   at all, so there is none among those that can fire (`FreeStaysFree`).

The premise `Declared` of the property is used for the start state and to know that nodes have
names; step 5 uses nothing of the kind of obligation but which theorems are owed
(`LivelockObliged`, `RefinementObliged`). That step 2 reaches the end of a document for every kind
of obligation is `CompleteTheories`.

`SessionProofs` has three developments about programs that explore through sessions. The
service (for any connections, requests and diagrams, and no
bound on sessions or histories but the one the clients keep to):

* `TypeCorrect`: `Spec => []TypeOK`.
* `OrderIsListing`: `Spec => []OrderListsSessions`.
* `HistoriesAreKept`: `Spec => HistoryKept`.
* `HistoriesAreReachable`: `Spec => []HistoryIsReachable`.
* `ServiceKeepsPromise`: `Spec => TakesEffectAtOnce`, the refinement of `SessionStore`.

The invariant is what the mutex stands for: at most the connection that holds it is
between `Lock` and `Unlock`; the table, the creation order and the last id agree whenever
nobody is (`TablesInv`); and what a handler found with `resolve` is still in the table when
it goes on, and is a session its request may mean (`Knows`). Every step then is a step of
the store or leaves it alone: an operation takes effect in the store when the handler
changes the table, a request that fails when it is found to, and the listing is the one
increasing sequence of the ids in the table, although the code keeps it by appending and
removing. `HistoriesAreReachable` adds `Reached` for each session: an awaited transition is
an edge to a declared state that leaves the last entry (or the start, silently, before there is
one), and a session in command mode has an entry and stands at the last one. A new entry
then extends the trace of the last one by an edge, or repeats an earlier entry; that
`After` grows with the trace in this way is an induction (`AfterFacts`).

The REPL (for any diagrams and any lines):

* `FrontEndAgrees`: `ReplSpec => []ModesInStep`.
* `ReplFollowsItsDiagram`: `DeclaredTransitions => (ReplSpec => BehavesAsDocumented)`.

Every line, interrupt and end of input is a step of `docs/CSDFREPL.puml` or leaves it alone,
whenever it is taken. The hypothesis is what `repl_undeclared` shows to be needed: the
transitions a prompt lists lead to declared states. Its invariant (`ReplInv`) adds to `ModesInStep` that
the session is one of a diagram, with a trace in every entry, and that what the reader
goroutine offers is a line or an end.

The daemon (for every finite set of processes that share a socket path and every set of
clients):

* `DaemonTypeCorrect`: `DaemonSpec => []DaemonTypeOK`.
* `OneAtATimeSuffices`: `DaemonSpec => []ReachableUnlessOverlapped`.
* `NoFileOutlives`: `DaemonSpec => []CleanExit`.

`DaemonInv` adds to `DaemonTypeOK` what a process may rely on between two steps. While no
two processes overlapped, the path is empty for one that is about to bind, is its
own for one that has bound, and is nobody's who listens for one that is about to
remove it (`AloneInv`); the last of these is what the dial establishes and a
second process would destroy. Whoever the path refers to is between its bind and
its first removal, or was killed there (`FileInv`).

`NormalizationProofs`:

* `TypeCorrect`: `Spec => []TypeOK`, for every set of diagrams. A closed set stays one
  however it is named, so this holds even where ids are confused.
* `SubsetConstruction`: `UnambiguousInputs => (Spec => []IsSubsetConstruction)`. If no two
  sets of states of an input have the same id, the result is the tau-closed subset
  construction: its initial state stands for the closure of the diagram's, and from each of
  its states an event leads, by one edge with the disjoined predicates, to the state for
  the closure of all targets, or nowhere when no member has an edge on it.

The invariant says of each id and event whether the edge is recorded or still to come
(`EdgesInv`: it is to come while the id is in the worklist, and for the set being explored
while the event is), that ids name their sets and nothing is queued twice (`NamesInv`), and
that `TauClosure` stays inside every closed superset of what it was called with
(`ClosureInv`), so that it is the least one when its queue is empty.

* `NormalFormFollows`: `UnambiguousInputs => (Spec => []FollowsEveryTrace)`.
* `NormalFormKeeps`: `UnambiguousInputs => (Spec => []KeepsPredicates)`.

Both hold for every `MaxTrace` and therefore for all traces. They follow from the same
invariant by induction over the trace: what an event does to a state of the normal form it
does to the set the state stands for (`StepsTogether`).

`PromotionProofs` (for any text or image that is read, any global diagram a caller has, any
local diagrams and any instances):

* `TypeCorrect`: `ReaderSpec => []TypeOK`.
* `NothingDropped`: `ReaderSpec => []PostsKept`.
* `ExpandsFamilies`: `PlainInputs => (ReaderSpec => []ExpansionIsFamily)`.
* `EveryDirectiveApplies`: `PlainInputs`, at least one instance
  `=> (ReaderSpec => []DirectivesApply)`.

`SourcesAssumption` and `ReaderAssumption` say what shape inputs have: slices are
sequences, identifiers that a pattern matched are not empty, and an edge that somebody
wrote has no origin. `PlainInputs` says that the edges and the start of a local diagram are
of declared states and that no two states but the start share a name, which
`promotion_names` shows to be needed.

`ReaderInv` says of a text that is being read that it still is one, however many lines were
lifted or blanked, and that the lists of directives have the shape `Expand` relies on; with
`ParseGlobal` it becomes the invariant of `Expand`, `IInv` (`HandsOver`).

`IInv` says after each pass what it has established, or that an error has been reported:
blocks are sound and their diagrams loaded (`CheckInv`), every directive passed by
`planSyncs` has its plan and owns its events in the plan's states (`PlanInv`), and the
edges are those written by hand and, of the edges that blocks and plans generate (`Base`),
those of the blocks and plans before the counter, with the guards of the constraints before
the counter (`EdgesInv`). That needs the passes to be told apart: an event is taken from a
block exactly in the states where a plan has it.

`ExpandsFamilies` is then a statement about `Base`. A generated edge is made of parts, one
for each local edge in it, and its clauses about one variable are the clauses of the parts
of that map and nothing else, or the frame (`AboutSaid`). A part's clauses say
of its instance what its role does: it appears, goes, or moves from the state of one name to that
of another, and nothing else of its map changes (`PartsSay`). Together, the clauses of a
combination hold of two values of a variable exactly if the move of its roles takes one to
the other (`CombinedTakes`). The moves of the edges and those of the families are both the
union, over blocks and over syncs with a choice of local edges for each side, of such
combinations (`EdgesMove`, `FamiliesMove`).
`EveryDirectiveApplies` follows from the same description: a plan has an edge, since each
side has a local edge of the event, and a constraint that matched no edge was an error.

`ReadingProofs` (for any text and any image that is read):

* `ReadsAsWritten`: `ReaderSpec => []ReadAsWritten`.
* `RefusesGlobals`: `ReaderSpec => []GlobalIsRefusedAsPlain`.

`DiagramAsWritten` says what a text means without reading it in order: a line is in a note
if one was opened before it and not closed, and so on for blocks, composite states and
regions. The code knows of these only by what it has gone over so far, and replaces the
lines of the notes and blocks by blanks before the parser sees them. `ReadingInv` relates
the two at each stage:

* `ScannedAs`, for the scanner: before line *m* the blocks, syncs and constraints lifted are
  those written in the lines before *m*, in their order; the text made of them has blanks
  for what was lifted and for braces, a state for each composite state, and every other
  line as it is; and the parent it remembers is the composite state that line *m* is in.
* `ParsedAs`, for the parser: the diagram is the one that the lines before *m* make that are
  shown, that is neither in a note nor in a region; the state whose variables may follow is
  the last one declared, with nothing in between; it ignores lines if a region was
  opened before line *m* and not closed.
* `TextKept`: what the parser reads is what the scanner made of the whole text, or, in a
  command for plain diagrams, the source itself.

A step of the scanner may go over several lines at once (`readNote`, `readPromote`), so what
has to be shown of each is which line `After` finds and that the lines between are what the
definitions say of them. Lists are the values of a function on a set of line numbers in order
(`InOrder`); that one more line appends one more value is a fact about cardinalities
(`Ranked` and what follows it). A refusal is shown to contradict `Legible` at the line where
it happens (`LineInPlace`, `UnexpectedRefused` and their like), so each
direction of `ReadAsWritten` uses the same invariant. The
premise `Tidy` is where the code departs from the notation, see below.

`RefusesGlobals` follows: a plain diagram that was read shows no block and no note before the
`@enduml` that ended it, and what the parser failed on is text in which `withHint` finds what
the author wrote (`HintFollows`). That needs a premise: `withoutIgnoreRegions` also takes
lines for markers that are no comments, and then hides what the parser does not ignore. The
theorem promises the refusal always, and the hint for a directive that no such line precedes
(the premise is needed, see below); a bare end marker only makes it see more.

`Recursion` is what the inductions rest on: the least element of a set of naturals, from
the library's `NatLessThanWellFounded`, gives induction as a fact about sets (`Induction`), and
from that the existence of functions defined by recursion (`Iteration`, `IterationOnNat`)
and their uniqueness (`SameIteration`). The library's own induction theorems take operators
as parameters, which the provers cannot instantiate; here properties are sets and
recursive definitions functions.

Only model-checked: trees (`TreeIsProcess`), whose meaning is defined by recursion over the
tree, with a `RECURSIVE` operator that keeps the provers out; that theories can be read and
have the diagrams' relations, as the rest of `TheoryDenotesDiagrams` puts it for the text (order of
declarations, numbers of arguments, bound variables, endings of names), of which steps 1 to 4 above
are what divergence depends on; and all liveness properties, which need fairness and `ENABLED`.

## Where code and documents differ

The runs that expect a violation are differences with a run of their own. These were met
while modelling; the models follow the code.

* `target.Compile` drops the error of a backend, so that a livelock obligation which was cut
  short is written with success; `target.CompileRefinement` passes it on (`Exit`).
* An end edge without a guard has the guard `""` (`parser.go:683`), which is a placeholder of
  its own; `README.md:244` says an omitted guard is `true`.
* Predicates are the same if their texts are and the *types* of their arguments are
  (`Signature`); names of arguments do not count, so texts about different
  variables of the same types share a placeholder.
* Edges may lead to undeclared states. A backend then uses constructors that are
  not declared; `Declared` is the premise of the two properties about theories.
* The scanner of global diagrams knows neither `CSDF-IGNORE` regions nor block comments
  nor `@enduml`: directives there are lifted, although `docs/SYNTAX.md:140` says that a
  region is discarded, and although the hint of `diagram.go` leaves
  regions out. A lone `}` in a region closes a composite state. `ReadAsWritten` is
  about texts without promotion syntax in such places (`Tidy`).
* A line `CSDF-IGNORE-BEGIN` without a quote is text to the parser, which refuses it, and
  starts a region for the hint (`diagram.go:92`): with `@startuml`, such a line, a promote
  block and `@enduml`, the diagram is refused without the hint, although
  `diagram.go:12-16` says that the hint tells the author what is missing and
  `docs/SYNTAX.md:32` that a marker has its quote. The model has the bare markers as
  kinds of lines of their own; `GlobalIsRefusedAsPlain` promises the hint for directives with no
  such line before them.
* A block comment over several lines may hold a line that is a `CSDF-IGNORE-BEGIN` comment by
  itself: the hint then leaves out what follows although the parser does not. Block
  comments are on one line in the models.
* A composite state may hold any line the parser takes, although the comment on
  `readComposite` says variables and blocks and nothing else.
* A second declaration of a state, or a second start edge, silently replaces the first.
  A start edge may be missing and declarations may come in any order,
  although `docs/SYNTAX.md` gives an order. `DiagramAsWritten` takes the last declaration.
* An edge from a state whose id starts with `state` is read as a declaration and refused.
* `tau` in a synchronisation set is used as given (`composition.go:138`): internal events then
  synchronise.
* A merged sync whose argument has the name of an id lists that name twice
  (`expand.go:219`); the model has no such names.

## Plan

Done: composition and composition trees, livelock check, normalisation, session, service,
daemon, REPL, promotion with its scanner, parser and image reader, obligations and both
backends.

Left:

1. That the theories are well formed and denote their diagrams in every declaration
   (`TheoryDenotesDiagrams`), for all diagrams: what is left are declarations before use,
   numbers of arguments, bound variables, and the datatypes of states and events.

## Not modelled

* `obligationir/irjson` encodes the representation field by field, with no decision of
  its own.
* `animation/render.go` and the writers of diagrams and messages are formatting. What is
  printed of a session or a diagnostic is its content, which the models have.
* `cli` and the `main` packages parse flags, open files and connect the
  components above; they keep no state. Logging has no effect on anything else.
* Characters: patterns of lines, JSON, PNG bytes and inflating.

## Running

```console
$ tlc -workers 2 -config MCComposition.cfg MCComposition
$ tlapm CompositionProofs.tla
```

The name of a run's module and configuration are in `PROJECT.json`.
