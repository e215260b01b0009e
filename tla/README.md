# Zebulon in TLA+

Zebulon compiles a language for interactive fiction into a native library (`zebc`, on the front end
`zeb-frontend`) and runs it on a runtime (`zeb-runtime`). This directory holds specifications of the
parts of that system whose correctness depends on order, interleaving or a long history of calls, the TLC
configurations that check them on small instances, and proofs of the properties that matter most.

## The system

| Component | State it keeps | Operations | Works with |
|---|---|---|---|
| Session handoff, `zeb-runtime/src/session.rs` | one `Shared` record per slot under one mutex and one condition variable: request, reply, the reply being assembled, output, events, results, save bytes, closed, finished | worker: `suspend`, `publish`, `publish_results`, `take_inspection`, `event*`, `resync`, `restored`, `saved`, `finish`; host: `poll`, `output_*`, `drained`, `reply_*`, `resume`, `inspect`, `persistence`, `close`, `outcome`, `discard` | the game's worker thread and the host's thread |
| Command cycle and consumer, generated by `zebc/src/object_build.rs` | where the worker is in its cycle; where the host is in its loop | begin, ask for a command, turn or action, roll back on failure, recover, end | the handoff and the runtime's numbered operations |
| Runtime operations, `native_objects.rs` | the object store, relations, history of cycles, parses, sorts, constructions, exceptions, iterations | about 145 numbered operations called by generated code | store, relations, handoff, saving |
| Object store, `objects.rs`, `objects/history.rs` | records with generations, properties, texts, lists, vectors, lookup tables, closures, prototypes, lifetimes, the property journal and the container journal | create, set, adopt, destroy, despawn, promote, release, revert | relations (references to records), the cycle |
| Relations, `relations.rs` | per relation a forward and a reverse index, a cache of outermost containers, the journal of the cycle | declare, set, unset, contains, all, get, ancestors, descendants, outermost, forget, revert | the cycle, saving |
| Saving, `save.rs`, `objects/persistence.rs` | none of its own: encodes and decodes the world | encode, decode | the command boundary |
| Sorting, regular expressions, grammar | suspended sorts and parse states inside the runtime | step-wise algorithms that call back into game code | runtime operations |
| Build tools, `zebc` | cache directories, child processes | supervise a child, publish a cache entry, check the stack of generated code | the file system |
| Front end, `zeb-frontend` | none between runs | lex, preprocess, parse, analyse, verify, emit | `zebc` |

What makes this code hard is in four places. Two threads and a third party (the end of input) meet in
the handoff. A command cycle changes three journalled stores at once and has to take all of it back, in
the same order of rows, when it fails or is undone. References outlive what they name: identities are reused by
slot, records belong to a turn or to the world, and a value stored in the world has to take everything it
reaches with it. And an algorithm that needs the game's opinion is suspended in the middle, with the game free
to change what it was working on.

What makes each component correct, and where it stands here:

| Component | Correct when | State of the model |
|---|---|---|
| Handoff, cycle, consumer | no wake-up is lost; a reply meets the request it was made for; no output is forgotten unprinted; a save is never left busy; requests are answered and a closed session ends | `Handoff`, checked; safety proved |
| Event stream | whole records after any mixture of calls and drains; a snapshot token is taken once | `EventStream`, `EventLog`, checked and proved |
| Relations | two indexes agree; cardinality kept; cached walks fresh; rollback and undo exact; a set of pairs to the game | `Relations`, `RowStore`, checked; all proved, liveness apart |
| Object store, container journal | a forest; counters right; no handle revives; what the World reaches is World; rollback and undo exact | `Objects`, checked and proved |
| Ownership | everything is kept by one, nothing goes while its method runs, every scope releases what it held | `Owners`, checked |
| Saving and restoring | what is decoded is what was encoded, under newer identities | `Saving`, and the rows in `Relations`, checked |
| Sorting | positions stay inside; the stack of ranges suffices; the result is the sorted vector; the runtime's stack matches the program's calls; it ends | `Sort`, checked; safety proved |
| Regular expressions, grammar matching | what patterns and rules mean, within limits; a compiled pattern stays the one it was | `Regex`, `GrammarRules`, `GrammarMatch`, `Patterns`, checked |
| Lexer, preprocessor, parser | what was written is what is read | `Source`, `Lexer`, `Preprocess`, `Parser`, checked |
| IR and its analyses, emission | blocks ask what the source asks, end as it does and leave nothing open; facts hold | `Builder`, `Lowering`, `Machine`, `Analyses`, `Language`, checked |
| Child supervision | the child is reaped, the reader threads end, the limit holds | `Supervisor`, checked; safety proved |
| Build cache | a published entry is whole, whoever else publishes | `RuntimeCache`, checked and proved |
| Stack of generated code | calls stay within the granted budget | `Charges`, checked and proved |
| Literal tables, output limit, semantic analysis, build driver | | not modelled |

## The modules

One module per component; `...Proofs` holds its theorems, `...Meaning` a definition the component is compared
with, `...Cases` the inputs. The modules do not share state, except where one instantiates another.

### Running a game

`Handoff` (with `HandoffProofs`): `session.rs` and its two sides. `shared[s]` is the `Shared`
record of a slot: `Default` is both a slot that is missing and a fresh one, because every accessor goes
through `entry(slot).or_default()`. One action is one critical section of the mutex; the host's loop reads
the length of the output, prints and calls `drained` in separate ones, as the generated `consumer` does.
`sleeping` is the wait set of the one condition variable; `NotifyAll` empties it, and a thread may also wake
for nothing. The worker's side of the cycle (`wpc`) and the host's (`hpc`) are translated from
`object_build.rs`. Output is a count of chunks, a reply its kind. `EagerClose` adds a host that closes without
having polled.

`EventStream` and `EventLog` (with `EventProofs`): the event functions of `session.rs`. A stream is a sequence of words, as in the
code: `bump` counts up words written earlier. `resync` is two critical sections, as there. `EventLog` is the
promise, a list of records of which the last grows, and a token that one session may take once; `Log` is the
refinement mapping, which reads the words back.

`Relations` (with `MCRelations`, `RowStore`, `RelationsProofs`): `relations.rs` and operations
128 to 139 and 141. `forward` and `reverse` are the two hash tables of lists, `outermost` the cache of walks,
`journal` the deltas of the open cycle and `history` the undoable ones. `set`, `forget` and `revert` are loops
over rows that may stop half-way, so each iteration is a step and `doing`/`work` hold what is left. Walks
(`ancestors`, `descendants`, `outermost`) are operators on the rows. `SavesRestore` encodes and decodes the tables,
those of labels included. `RowStore` is the promise: a relation is a set of pairs that rollback and undo return to
what it was. The refinement maps `rows` to the pairs of the forward index, or, while a revert runs, to the rows it is on
its way to; `saved` to the auxiliary `paths`.

`Objects`, `Saving` (with `MCObjects`, `ObjectsProofs`, `WorldProofs`, `LivesProofs`): `objects.rs`, `objects/history.rs` and the operations through which a game makes,
changes and lets go of objects, vectors, tables and exceptions. `heap` holds the records, by slot, with
parent, children, fields, owned field values, elements and lifetime; a handle is a slot and the identity born
there. One action is one numbered operation, with everything it does: promotion, journalling, freeing, and the
failure of a limit, which ends the store (`status`). `Begin`, `End`, `Savepoint`, `Rollback` and `Undo` are the
cycle's calls. Which free slot is taken, and the order of hash tables, are left open. `Saving` encodes a heap by
slots and decodes it under identities newer than any other.

`Owners` (in `MCCompiler`): the other way to run a program, by scopes of owners instead of turns. `own` is what the
runtime keeps (records, roots, stacks of scopes, constructions, member calls, exceptions), `frames` the program's
functions, constructors, methods and handlers, with the calls `llvm.rs` emits on every way in and out of them. A
`Repertoire` is what one program may do; every program of one does its steps in any order.

`Sort` (with `SortProofs`): `sort.rs`, operations 112 to 114, the truncation of pending sorts in
operations 63 to 65, and the loop that the IR lowering puts around `Vector.sort`. `sorts` is the runtime's
stack of suspended sorts, `program` the frames of the game: sort calls and scopes. Each arm of the loop in
`resume` is an action. `before` and `trust` are auxiliary: what the vector held when the sort began, and whether
the comparator kept to the order of the keys and everyone else kept away from the vector.

`Regex`, `RegexMeaning`, `RegexCases`: the parser of patterns, the compiled program, the backtracking search and
replacement of `regex.rs`; the meaning is the set of all ways a tree can match. `Patterns` is the cache of
compiled patterns and the objects that name its entries. `GrammarRules` (the compiler's lowering of grammar
rules to flat tables), `GrammarMatch` (Earley's charts, the trees and match objects of the runtime),
`GrammarMeaning` (the readings of a command, straight from the alternatives) and `GrammarCases`.

### Compiling it

`Source`, `Lexer` and `Preprocess` take bytes to tokens: encodings, literals with embedded expressions, directives,
macros and inclusion. `TextMeaning` and `MacroMeaning` say what was written; `TextCases` writes it. `Parser` is
the parser of expressions and statements with its flat nodes; `ParserMeaning` writes trees down and says what
each is short for, and `ParserCases` puts every form into every other.

`Builder` (expressions) and `Lowering` (statements) are the `Builder` of `ir.rs`; `Machine` runs the blocks as `llvm.rs`
emits them, `Analyses` is the verifier and `flow.rs`, `Language` the meaning of a function without blocks. `MCCompiler`
lowers every function of a space of functions, and a behaviour is its run with every answer other code may give.

`Charges` (with `BuildProofs`): an experiment of the repository that no builder uses yet, the guards that keep
generated code within a granted stack: `stack_guards.rs` (the check of emitted text: a control-flow graph with the
subtractions, comparisons and calls that matter), `stack_charges.rs` (records of charges, their refinement from
measured frames in at most four rounds), the guarded calls `llvm.rs` writes, and the execution of what was accepted.
Any text may come for the one that was emitted; other instructions have any outcome.

`Supervisor` (with `BuildProofs`): `process.rs`, the polling supervisor, two reader threads, the clock, a child
and a helper in its group. `RuntimeCache` (with the same `BuildProofs`): `runtime_cache.rs`, publishers and restorers of one
entry, a step for each call of the file system, with evictions and builders that are stopped.

`MCParts` puts the parts that work alone into one run: a behaviour runs one of them.

## Runs

| Run | Instance | Shows |
|---|---|---|
| `handoff` | one session, four kinds of request in a turn, two chunks of output | pairing, output, saves, liveness |
| `handoff_phantom` | the same with a host that closes first | **violation**: a phantom request |
| `relations` | one-to-many, three entities that can go round in a circle, one undo, despawning | the indexes, the cache, rollback and undo, walks, the refinement |
| `relations_links` | many-to-many beside a labelled one-to-one relation, the journal limit at three | saved tables, `set` all or nothing |
| `relations_two_partners` | two undos, changes after undo allowed | **violation**: two partners |
| `objects` | four games: objects that refer to each other and whose slots are used again; a named vector and table; handlers and constructors that nest; savepoints, undo and limits that are reached | forest and counters (`StoreOK`), lifetimes, rollback, undo, restore, exceptions |
| `objects_turn_table` | a table made in a turn | **violation**: the World reaches a Turn record |
| `objects_despawned` | a field with a container of its own | **violation**: `expect("owned field child")` |
| `compiler` | every statement inside every other, unwinding ones three deep, every expression in every operand; nine repertoires of programs that own | lowering, analyses, ownership |
| `compiler_return` | a return inside a try inside a loop over a collection | **violation**: a runtime failure instead of the value |
| `parts` | below | the event stream, cache, supervision, sorts, stacks, and the cases of patterns, grammars, texts and the parser |
| `patterns` | more patterns than the cache holds | **violation**: a pattern object names another pattern |

Every property of a passing run has a mutant: a plausible slip in a definition that models code, written
beside it in the module (comment `Slip:`), under which the property fails.

### Bounds, and why they are enough

- `Slots`, `MaxOutput`: the handoff keeps no state across sessions except the wait set, for which the proof is for any
  number; two chunks distinguish "printed some" from "printed all".
- `Entities` (3), `JournalLimit` (3 or 4), `UndoDepth` (1 or 2): a move touches three entities, a circle
  needs two and a bystander; three deltas is the most one `set` records, so the limit falls inside one; the oldest
  cycle is dropped at `UndoDepth`. The code has 1,000,000 and 32; the proofs are for all values.
- `Games` of `MCObjects`: each names its own bounds on calls, identities and limits: a call makes at most one object and
  its activation; the limits are small enough that they are met inside operations and identities run out. The
  auxiliary `calls` only counts; it bounds how long a behaviour is, not what one call may do.
- `nesting` (2), `questions` (6), `MaxFrames` (6), `MaxRecords` (9): two levels put each statement into each other one, and
  statements that unwind also three deep, where an order of leaving first matters; a function asks fewer than six
  questions before it repeats itself. The repertoires of `Owners` bound how often each thing is done.
- `Games` of `Sort`: a sort alone is given every content of up to four elements, enough for a range to split on
  both sides and each half to be partitioned again; interrupted sorts have one content per length, as the
  comparator's answers are arbitrary there.
- `Limit` (9 words), `LastToken` (3), `OutputLimit` (1 byte): records reach the limit in the middle of a value, tokens
  run out, and a child can write one byte too many. Two builders of two builds are enough for a mixed entry.
- `Charges`: two entries that call each other and frames of 8 and 9 bytes, so that one round raises a charge and
  another settles; budgets of 15 (nothing can be called) and 48; words of 7 bits, so that a subtraction can wrap. What is
  emitted is the module for each of eight tables, and 22 modules with one thing wrong.
- Patterns, grammars, texts and functions of the `...Cases` modules: two alternatives or parts in sequence, with groups two
  deep; all short token sequences; texts are those whose characters the code distinguishes. Cases where the code is
  known to differ from what is meant are left out there and listed below.

`CHECK_DEADLOCK FALSE` where something ends: a game that has used up its bounds and has no sort pending stops; a child is
answered, a stack unwinds, a case is done.

### Fairness

`Handoff` assumes weak fairness of every thread (the operating system runs them) and, separately, strong
fairness of `EndTurn`: that turns end is the game's affair, and a game in an endless loop is answered
by nobody. The end of input is *not* fair: it may never come. `Supervisor` assumes it of the supervisor, of both readers
and of the clock, never of the child: it may hang, hold its pipes and write nothing. That a killed process dies, that
`try_wait` does not fail, and that descendants stay in the process group is taken as the code takes it. Sorts assume weak
fairness of their one thread; a comparator that loops for ever is outside the model. All others state
safety only, because every operation returns.

## Proofs

All are checked by TLAPS with no step left open, for every value of the constants that satisfies the
assumptions of the modules.

- **`HandoffProofs`**. `TypeCorrect` and `WakeupsReachTheirThread` need nothing but the specification. The others
  assume `~EagerClose` and rest on `PairedInv`, per session the conjunction of `Posted` (what is posted belongs
  to the suspension in progress), `HostKnows` (while the host answers, its worker waits), `SaveInProgress` (a
  save is in one place only), `Printed` and `Fits`. None of the checked properties is inductive alone: that a
  reply meets its request depends on what the host knows when it posts it, which depends on no request being left behind.
- **`RelationsProofs`** begins with lemmas about lists without repetition: removing at a position and putting back
  there. The invariant `Sound` says that the rows, and those before every recorded change, mirror each other; that the
  cache answers as a walk does; that `doing` and `work` fit; and that the trail (`path`) is linked to the journal
  by `Reversed`, delta by delta. `SetsComplete` adds `JournalRoom`: the rows a running `set` has still to deal with fit the
  journal, because it asked for three places at once and displaces two at most. The other results have the assumption that no
  undo is followed by changes in the same turn (`QuietUndo`), because otherwise they are false (below). `QuietTrail` says that
  trails of the open and of the finished cycles join end to end, `Orderly` that the rows, and those on every trail, fit the
  cardinality of their table; a table without one has no rows; labels name tables of their own behind the
  declared ones; and what is in the way of a row still to be added is still listed to be taken out (`WayClear`), without
  which cardinality is not inductive in the middle of `set`. `CardinalityAlways`, `SavesReadable`, `WalksMeet` and
  `StoreImplemented` rest on their conjunction `Quiet`. For `WalksMeet` each walk is shown to find the least set that is
  closed under its direction (`Walk`): the chain to the left repeats no entity, the search to the right has all that is
  not pending expanded, takes one entity off each time, and neither can go on for more steps than there are
  entities; least closed sets of opposite directions then mirror each other (`WalkBack`). In the refinement an iteration that adds a row is `Relate`, one that takes a row out
  `Unrelate`; a call that makes a table for a label changes no pair, because nothing kept anywhere has rows there yet;
  `Rollback` and `Undo` are one abstract step each, and the iterations of `revert` none: the pairs are then read
  from the start of the trail, which each iteration keeps.
- **`SortProofs`**. `IInv` = `TypeOK`, `ProgramOK` (only the innermost frame is at work) and `SortsOK`. The comment at
  `sort.rs:42` says that pending ranges are disjoint and non-empty, so `len` entries suffice; by itself that is not
  inductive. `Stacked` says more: the k-th range from the bottom ends k places or more before the end of the
  vector, and a partition in progress before all of them. It needs the exact positions of both scans at every phase
  (`PositionsOK`). The proof shows on the way that `pivot` always equals `r`: the code's adjustments of the pivot after
  an exchange never take effect, because `j` stays below `r` and `i` reaches it only when the scans have met.
  `InStep` (`Matched`) adds that calls and suspended sorts follow each other pair by pair, with what a failed comparison
  leaves behind above them, until the scope that is unwound takes it away.
  Its second half takes it to the result: `OInv` says that, for a sort nobody disturbs, the vector holds what it began
  with (a bijection of positions), that every element outside the ranges still to do is in its place, and that what a partition
  has passed is on its side of the pivot. `SortedWhenDone` follows at the end, for vectors of any length.
- **`ObjectsProofs`**. `AllOK` is inductive, with the assumptions of the module on its constants only: that nil and keys are
  neither handles nor slots, and that a game has room for its statics. `HeapOK`: every record lies below the next identity and in no free slot, the records are
  a forest in which parents are older than their children, and the counter is the sum of the charges. Older parents rule out
  circles, so that `destroy` reaches all a record owns. `JournalsOK`: what is noted can be put back at any time. An older
  snapshot charges no more than a newer one of the same container, and none more than the container does now, because containers
  only gain room, so putting them back, newest first, never exceeds the limit; and a property that did not exist does not own its
  value, without which clearing it might not find its child. `FramesWell`: constructors and exceptions have activations of their own, roots that a game
  never sees and that nothing but the end of the construction or the exception takes away. `StoreAlwaysOK` and
  `HandledAlwaysLives` follow; `NothingRevives` follows from `Descends`, which every step keeps: a record is new or was there.
  The recursive functions the model has (`Subtree`, `Reached`) and the folds are reasoned about by induction over the naturals, as
  least closed sets.
- **`WorldProofs`**. `WorldStaysClosed` has the condition that the game makes no lookup tables in play, because otherwise it is
  false (below). `WorldWell` adds to the closed World that what a snapshot holds is gone or World, so that putting it back is safe; a
  journalled field needs no such clause, because `set` promotes what it puts back. `CyclesUndone`, which states `Restored`,
  has the condition `UndoesLast`: the game calls no undo, or changes nothing after one in the same turn (otherwise it is
  false: an undo stops the journals for the rest of its turn). Its invariant is `Remembering`. `MemoryOK` compares the World remembered
  at the start of each cycle with that at the start of the next one, and the last with the heap: of what is still
  there, they differ only where the cycle's journals say (`Agrees`), and what a journal notes is what was there first (`Noted`).
  It also needs that a field which owns a child holds that child (`Owning`): putting a value back clears the old one first,
  and might otherwise leave a field with another value than the journal's. `CycleOK` says when the journals are open and when they
  are empty. Every operation is then shown to be one of two kinds: `Still`, which writes no element or field of what there was, or
  `Calm`, which writes some of one object, and the journals must cover those (`Covers`) before it does. A revert takes back the deltas
  newest first, so the last value put back is the oldest, which is the one remembered.
- **`LivesProofs`**. `ReferencesLive`, which states `HeldLives`, has the condition `Plain`: the game makes no tables in play, because
  what is in one may end with the turn (below); it throws nothing, because an exception that a World field holds goes with its
  activation (below); and it does not assign the `Field` of a static, because the container that the field owns is destroyed when
  the field is overwritten. Despawning is allowed: what it takes is noted. The invariant is `Neat`. Every
  reference that a record, a journalled write or a snapshot holds is `Open`, that is, it never names an activation, which a
  constructor runs under and no game is given; and only statics and running activations own anything (`RecordTidy`), an activation
  nothing but its instance. Each step is then shown to refer to nothing new but what may be held (`Draws`), and to spare what
  World records refer to (`Spares`): the end of a construction frees only the activation, whose instance has been taken
  from it; the end of a turn frees Turn roots that own nothing; and what a revert puts back leaves every record where it
  was (`Rests`). `RestoreAlwaysExact`, which states `RestoreExact` for every game, follows from the store's own invariant,
  `HeapOK`: what a World record refers to is in the image or nil (`Named`), owners are older than what they own, so that no
  chain of owners in an image is as long as the image (`OwnersAgree`), and an image keeps no more than the store was
  charged for. The records read back are compared field by field with those written (`SameAgain`), also for tables, whose keys
  keep apart because no two World records share a slot; and old handles name nothing because all were born
  before the identity a restore gives. For this `HeapOK` also bounds the number of records, and says that an owned field's
  value, if it is still there, has the record for its parent.
- **`BuildProofs`**. Three parts of `zebc` that share nothing. `SuperInv` (`Supervisor`) relates the three threads: a reader
  has ended only at the end of its pipe or beyond the limit; the group is killed only before the child is waited for; the
  supervisor has waited before it joins. Nothing is assumed of how much a child writes.
  `CacheInv` (`RuntimeCache`): the entry never mixes builds, a publisher's own directory holds files of one build and is
  whole when it is renamed, and a restorer compares with sums of one build, whatever happened to the entry in between.
  `ChargesInv` (`Charges`): what is compiled has passed the check with the table of its round; once a round changes
  nothing, every frame fits its charge; and for each function in progress, what it has used and what it was given are
  together within the grant, each subtraction and comparison of its block so far has the value it should (this needs that
  no name is defined twice), and in a block with a call enough is left for its charge. That is where the check is needed: such a
  block has one edge into it, the second of a comparison with exactly that charge, so the subtraction
  does not wrap. No assumption is made of the text but that the check accepts it.
- **`EventProofs`**. `EventStream` implements `EventLog`, with `ReadEvents` as the mapping: a host's reading of the words, by the lengths they
  contain. `StreamInv` says that there are records and places such that each record's words lie between its place and the next
  (`Parsed`, `Lies`), and that `event_values` is where the last record counts its values, if it has any. The three calls that
  write keep it for different reasons: `event` begins where the last record ends; `event_subject` raises the
  count and the length of a record whose last word is a subject, which is why the code refuses it after a value; and
  `event_value` relies on `event_values`, because the count it raises lies anywhere in the record. Two walks, the code's search for
  the last record and the host's reading, are shown to pass through the same places. That ids have lengths, and handles and
  the last token are natural numbers, is all that is assumed.

Only model-checked: `Owners`, whose invariants are about graphs that one operation walks in full; all that compares a
sequential algorithm with a meaning (patterns, grammars, texts, parser, compiler), which is written with recursive operators;
and all liveness. Out of the prover's reach are liveness under fairness, `ENABLED`, recursive operators, and induction over data
structures, so what a recursive walk computes for every input stays with TLC.

## What the violations show

- **A phantom request** (`handoff_phantom`). If the host closes before the game suspends, `suspend` finds the
  reply already there and returns without clearing the request it has posted. `session.rs:89` says the field is
  "cleared when the host resumes it". A later poll sees a request nobody waits on.
- **Two partners** (`relations_two_partners`). After `undo()` journalling is off for the rest of the turn. A row
  related then has no delta; the next undo puts back the older row beside it, on a side that allows one.
- **A table becomes World without its contents** (`objects_turn_table`). `promote` visits fields, lists, vectors and
  children, never a lookup table.
- **A field without its child** (`objects_despawned`). Despawning a container that a field owns leaves
  `owned_value_fields` behind; the next store to the field panics inside an `extern "C"` call.
- **A return that fails** (`compiler_return`). A return ends every loop over a collection first and the scopes of handlers
  afterwards; a scope that was opened in such a loop refuses to end without it.
- **A pattern that becomes another** (`patterns`). A full cache drops its oldest pattern and moves the others; pattern objects
  keep the positions they had.

Met while modelling, with no run of their own:

- A despawn is not taken back by a rollback, though its rows are, so relations may answer an expired handle; a container that
  a field owned is destroyed when the field is overwritten, and a rollback brings back a reference to nothing; an exception
  stored in a World field goes with its activation; an exception nobody catches stays in `self.exceptions` and refuses every
  later save; a row between two Turn records promotes neither when one is promoted later.
- An exception that waits for a finalizer is refused if it is thrown again there (operation 80, status 11).
- Where a production begins with another that begins with it, the runtime's grammar remembers an incomplete answer and some
  trees are missing; a back reference inside the group it refers to subtracts below zero when that group is repeated
  (a release build then fails the match at the first difference, or stops at the end of the subject; `Takes` has the first).
- `nesting` in the preprocessor (`preprocess.rs:415`) is lowered below zero by a `)` while only a `[` or `{` is open; it wraps
  in a release build, which `CollectStep` has as -1, and stops a checked build.
- `carried` (in `parser.rs`) keeps the first of two rows only; a call without arguments does not build its note text.
- The preprocessor replaces an argument that stands for itself and more twice, so that `#define X X 1` in an argument gives two 1s;
  macros that stand for a use of each other in an argument end at the limit of depth, although `preprocess.rs:346`
  promises "ordinary self/mutual macro suppression"; a backslash at the end of a line inside a literal is a space when
  preprocessed and nothing when lexed directly; a function-like name at the end of a replacement does not see a following `(`.

## Not modelled

Semantic analysis, literal tables, command lines and file formats; representations and text of LLVM and C; the
parser's top-level declarations; integer ranges, effects and specialisation among the analyses; object files, call graphs and machine
code of the stack experiment. Text, lists, closures, dictionaries, string buffers, the default value of a table and the failure of
allocation in `Objects`; the bytes of outputs and saves; allocation failure in `Sort`. Hazards with an empty list of
properties in `PROJECT.json` are those the code does not promise to handle, or that need `Objects` and `Relations` together.

## Plan

1. `Cycle`: `Objects` and `Relations` in one command cycle, for rows that name Turn records, promotion by operation 131 and
   a rollback of both journals.
2. Semantic analysis: the resolution of names and the layout of classes.
