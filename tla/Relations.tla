------------------------------ MODULE Relations ------------------------------
(***************************************************************************)
(* The relation store (zeb-runtime/src/relations.rs) and the part of the   *)
(* command cycle that drives it (operations 129, 131, 132, 136, 139 and 141*)
(* of zeb-runtime/src/native_objects.rs).                                  *)
(*                                                                         *)
(* A relation is a table of rows between entities, kept twice: the partners*)
(* of every left entity and, mirrored, those of every right one, both in   *)
(* the order they were related.  Changes made in a command cycle are       *)
(* journalled, so that a failed turn can be rolled back and a finished one *)
(* undone, in the same order of rows.                                      *)
(*                                                                         *)
(* One thread calls the store, but set, forget and revert are loops over   *)
(* rows that can stop half-way: each iteration is a step here, and no other*)
(* operation starts while work is left.                                    *)
(***************************************************************************)
EXTENDS Integers, FiniteSets, SequencesExt

CONSTANTS
  Entities,      \* the references a game relates
  NoOne,         \* no entity
  Cards,         \* Cards[i] is the cardinality the i-th relation declares
  Families,      \* the declared relations with a label column
  Labels,        \* the labels of such a relation
  Pairs,         \* the pairs the game's calls name
  Walked,        \* the entities whose outermost container it asks for
  Mortal,        \* the entities it may despawn
  MaxTables,     \* a bound on the tables the store makes
  JournalLimit,  \* the changes a cycle may record (1 000 000 in the code)
  UndoDepth,     \* the cycles kept for undo (32 in the code)
  QuietUndo      \* whether a turn that called undo changes nothing after it

Declared == DOMAIN Cards
Tables == 1..MaxTables
Kinds == {"one_to_one", "one_to_many", "many_to_many"}
NoCard == "none"

ASSUME Constants ==
  /\ IsFiniteSet(Entities) /\ NoOne \notin Entities
  /\ Cards \in Seq(Kinds)
  /\ Families \subseteq Declared
  /\ Pairs \subseteq Entities \X Entities
  /\ Walked \subseteq Entities /\ Mortal \subseteq Entities
  /\ MaxTables \in Nat /\ Len(Cards) <= MaxTables
  /\ JournalLimit \in Nat
  /\ UndoDepth \in Nat \ {0}
  /\ QuietUndo \in BOOLEAN

VARIABLES
  count,         \* how many tables there are
  cardinality,   \* the cardinality each table was made with
  labelled,      \* the table of a <<relation, label>>, 0 for none
  forward,       \* the partners of each left entity, in order
  reverse,       \* the partners of each right entity, in order
  outermost,     \* the cached end of the chain to the left of an entity
  journal,       \* the changes of the open cycle
  journalling,   \* whether changes are recorded
  history,       \* the changes of the finished cycles that can be undone
  turn,          \* "startup", "between" cycles, "open", or "failed" and still open
  live,          \* the entities that have not been despawned
  doing,         \* "idle", or the loop that is running: "edit" or "revert"
  work,          \* the rows that loop has still to deal with
  victim,        \* the entity being despawned
  path,          \* auxiliary: the rows before each change in the journal, and now
  paths          \* auxiliary: the same for each cycle in the history

rows == <<forward, reverse>>
shape == <<count, cardinality, labelled>>
cycle == <<journalling, history, turn, paths>>
vars == <<shape, rows, outermost, journal, cycle, live, doing, work, victim, path>>

Delta == [relation : Tables, left : Entities, right : Entities, added : BOOLEAN,
          forward_position : Nat, reverse_position : Nat]

(* Whether a left, or a right, entity may have several partners. *)
LeftIsMany(card) == card \in {"one_to_many", "many_to_many"}
RightIsMany(card) == card = "many_to_many"

(***************************************************************************)
(* One row                                                                 *)
(***************************************************************************)
Position(s, x) == CHOOSE n \in 1..Len(s) : s[n] = x

(* retain: partners are distinct, so it drops the one at x's position. *)
Without(s, x) == RemoveAt(s, Position(s, x))

Related(r, i, x, y) == Contains(r[1][i][x], y)

(* The rows with one more row in table i, last on both sides. *)
Insert(r, i, x, y) ==
  << [r[1] EXCEPT ![i][x] = Append(@, y)], [r[2] EXCEPT ![i][y] = Append(@, x)] >>

(* Slip: unset forgets the mirrored index. *)
RetractForward(r, i, x, y) == << [r[1] EXCEPT ![i][x] = Without(@, y)], r[2] >>

Retract(r, i, x, y) ==
  << [r[1] EXCEPT ![i][x] = Without(@, y)], [r[2] EXCEPT ![i][y] = Without(@, x)] >>

(* Where a row goes back: where it was, or at the end of a shorter list. *)
PutAt(s, n, x) == InsertAt(s, IF n <= Len(s) THEN n ELSE Len(s) + 1, x)

(* The rows before a change: an added row is taken out, a removed one is   *)
(* put back in its old place on both sides, and what is already so stays.  *)
Reversed(d, r) ==
  LET has == Related(r, d.relation, d.left, d.right)
  IN  IF d.added
      THEN IF has THEN Retract(r, d.relation, d.left, d.right) ELSE r
      ELSE IF has THEN r
      ELSE << [r[1] EXCEPT ![d.relation][d.left] = PutAt(@, d.forward_position, d.right)],
              [r[2] EXCEPT ![d.relation][d.right] = PutAt(@, d.reverse_position, d.left)] >>

SetRows(r) == forward' = r[1] /\ reverse' = r[2]

(* Any change to a table makes its cached walks stale. *)
ClearCache(i) == outermost' = [outermost EXCEPT ![i] = [e \in Entities |-> NoOne]]

Added(i, x, y) ==
  [relation |-> i, left |-> x, right |-> y, added |-> TRUE,
   forward_position |-> 0, reverse_position |-> 0]

Removed(i, x, y) ==
  [relation |-> i, left |-> x, right |-> y, added |-> FALSE,
   forward_position |-> Position(forward[i][x], y),
   reverse_position |-> Position(reverse[i][y], x)]

(* The journal gains a change when changes are recorded. *)
Record(d, r) ==
  IF journalling
  THEN journal' = Append(journal, d) /\ path' = Append(path, r)
  ELSE UNCHANGED <<journal, path>>

(***************************************************************************)
(* Tables                                                                  *)
(***************************************************************************)
Keys == {<<d, 0>> : d \in Declared \ Families} \cup (Families \X Labels)

(* Initialisation has reserved a table for every declared relation. *)
Init ==
  /\ count = Len(Cards)
  /\ cardinality = [i \in Tables |-> IF i \in Declared THEN Cards[i] ELSE NoCard]
  /\ labelled = [k \in Families \X Labels |-> 0]
  /\ forward = [i \in Tables |-> [e \in Entities |-> <<>>]]
  /\ reverse = [i \in Tables |-> [e \in Entities |-> <<>>]]
  /\ outermost = [i \in Tables |-> [e \in Entities |-> NoOne]]
  /\ journal = <<>> /\ journalling = FALSE /\ history = <<>>
  /\ turn = "startup" /\ live = Entities
  /\ doing = "idle" /\ work = <<>> /\ victim = NoOne
  /\ path = <<rows>> /\ paths = <<>>

(* The table a call site names; a label's table is the next one when new.  *)
TableOf(k) ==
  IF k[1] \notin Families THEN k[1] ELSE IF labelled[k] # 0 THEN labelled[k] ELSE count + 1

(* Make the table exist; FALSE when it has another cardinality. *)
Ensure(k) ==
  LET i == TableOf(k)
  IN  /\ i <= MaxTables
      /\ count' = IF i > count THEN i ELSE count
      /\ labelled' = IF k[1] \in Families THEN [labelled EXCEPT ![k] = i] ELSE labelled
      /\ cardinality[i] \in {NoCard, Cards[k[1]]}
      /\ cardinality' = [cardinality EXCEPT ![i] = Cards[k[1]]]

(***************************************************************************)
(* Operations on rows.  A game may call them during startup and inside a   *)
(* cycle; QuietUndo keeps it from doing so once undo stopped the journal.  *)
(***************************************************************************)
MayChange ==
  /\ doing = "idle"
  /\ \/ turn = "startup"
     \/ turn \in {"open", "failed"} /\ (journalling \/ ~QuietUndo)

Wanted(i, x, y, added) == [Added(i, x, y) EXCEPT !.added = added]

(* What set takes out to keep a side that allows one partner. *)
Displaced(card, i, x, y) ==
  LET lefts == reverse[i][y]
      rights == forward[i][x]
  IN  (IF RightIsMany(card) \/ lefts = <<>> THEN <<>> ELSE <<Wanted(i, lefts[1], y, FALSE)>>)
      \o (IF LeftIsMany(card) \/ rights = <<>> THEN <<>> ELSE <<Wanted(i, x, rights[1], FALSE)>>)

(* Slip: set asks for room for its own row only, not for those it displaces. *)
SetShort(k, x, y) ==
  LET i == TableOf(k)
  IN  /\ MayChange /\ x \in live /\ y \in live
      /\ Ensure(k)
      /\ IF Related(rows, i, x, y) \/ (journalling /\ Len(journal) + 1 > JournalLimit)
         THEN UNCHANGED <<doing, work>>
         ELSE /\ doing' = "edit"
              /\ work' = Append(Displaced(Cards[k[1]], i, x, y), Wanted(i, x, y, TRUE))
      /\ UNCHANGED <<rows, outermost, journal, cycle, live, victim, path>>

(* op 131, set: room in the journal is checked for all three rows at once. *)
Set(k, x, y) ==
  LET i == TableOf(k)
  IN  /\ MayChange /\ x \in live /\ y \in live
      /\ Ensure(k)
      /\ IF Related(rows, i, x, y) \/ (journalling /\ Len(journal) + 3 > JournalLimit)
         THEN UNCHANGED <<doing, work>>
         ELSE /\ doing' = "edit"
              /\ work' = Append(Displaced(Cards[k[1]], i, x, y), Wanted(i, x, y, TRUE))
      /\ UNCHANGED <<rows, outermost, journal, cycle, live, victim, path>>

(* op 132, unset *)
Unset(k, x, y) ==
  /\ MayChange /\ x \in live /\ y \in live
  /\ Ensure(k)
  /\ doing' = "edit" /\ work' = <<Wanted(TableOf(k), x, y, FALSE)>>
  /\ UNCHANGED <<rows, outermost, journal, cycle, live, victim, path>>

(* op 141, despawn: forget lists every row of every table that names the   *)
(* entity, to the right of it and then to the left, before it takes any.   *)
Despawn(e) ==
  LET of(i) == [n \in DOMAIN forward[i][e] |-> Wanted(i, e, forward[i][e][n], FALSE)]
               \o [n \in DOMAIN reverse[i][e] |-> Wanted(i, reverse[i][e][n], e, FALSE)]
  IN  /\ MayChange /\ e \in live
      /\ doing' = "edit" /\ victim' = e
      /\ work' = FlattenSeq([i \in 1..count |-> of(i)])
      /\ UNCHANGED <<shape, rows, outermost, journal, cycle, live, path>>

(* One unset or insert of the running set, unset or forget.  A row that is *)
(* no longer there is passed over; a full journal ends the operation.      *)
Edit ==
  LET w == Head(work)
      i == w.relation
      has == Related(rows, i, w.left, w.right)
      after == IF w.added THEN Insert(rows, i, w.left, w.right)
               ELSE Retract(rows, i, w.left, w.right)
      full == journalling /\ ~w.added /\ Len(journal) >= JournalLimit
  IN  /\ doing = "edit" /\ work # <<>>
      /\ IF has = w.added
         THEN /\ work' = Tail(work)
              /\ UNCHANGED <<rows, outermost, journal, path, doing, victim>>
         ELSE IF full
         THEN /\ work' = <<>> /\ doing' = "idle" /\ victim' = NoOne
              /\ UNCHANGED <<rows, outermost, journal, path>>
         ELSE /\ work' = Tail(work)
              /\ SetRows(after) /\ ClearCache(i)
              /\ Record(IF w.added THEN w ELSE Removed(i, w.left, w.right), after)
              /\ UNCHANGED <<doing, victim>>
      /\ UNCHANGED <<shape, cycle, live>>

(* The operation ends; a despawned entity goes once its rows have. *)
Edited ==
  /\ doing = "edit" /\ work = <<>>
  /\ doing' = "idle" /\ victim' = NoOne /\ live' = live \ {victim}
  /\ UNCHANGED <<shape, rows, outermost, journal, cycle, work, path>>

(* The elements of a list that are in a set, in their order.               *)
Among(s, S) ==
  LET kept[n \in 0..Len(s)] ==
        IF n = 0 THEN <<>> ELSE IF s[n] \in S THEN Append(kept[n - 1], s[n]) ELSE kept[n - 1]
  IN  kept[Len(s)]

(***************************************************************************)
(* The walk to the left of an entity: its first partner, that one's first  *)
(* partner, and so on until there is none or the walk would repeat.        *)
(***************************************************************************)
Ancestors(lefts, e) ==
  LET walk[n \in 0..Cardinality(Entities)] ==
        IF n = 0 THEN <<>>
        ELSE LET chain == walk[n - 1]
                 next == lefts[IF chain = <<>> THEN e ELSE Last(chain)]
             IN  IF next = <<>> \/ next[1] = e \/ Contains(chain, next[1])
                 THEN chain ELSE Append(chain, next[1])
  IN  walk[Cardinality(Entities)]

TopOf(lefts, e) ==
  LET chain == Ancestors(lefts, e) IN IF chain = <<>> THEN e ELSE Last(chain)

(* Slip: the entities found are not walked from in their turn. *)
DescendantsNear(rights, e) == Among(rights[e], Entities \ {e})

(* op 137: everything to the right of an entity, depth first. *)
Descendants(rights, e) ==
  LET walk[n \in 0..Cardinality(Entities)] ==
        IF n = 0 THEN [found |-> <<>>, pending |-> <<e>>]
        ELSE LET was == walk[n - 1]
                 new == Among(rights[Last(was.pending)], Entities \ ({e} \cup ToSet(was.found)))
             IN  IF was.pending = <<>> THEN was
                 ELSE [found |-> was.found \o new, pending |-> Front(was.pending) \o new]
  IN  walk[Cardinality(Entities)].found

(* op 136: the end of the walk, from the cache when it is there. *)
Outermost(k, e) ==
  LET i == TableOf(k)
  IN  /\ doing = "idle" /\ turn # "between" /\ e \in live
      /\ Ensure(k)
      /\ outermost' = IF outermost[i][e] # NoOne THEN outermost
                      ELSE [outermost EXCEPT ![i][e] = TopOf(reverse[i], e)]
      /\ UNCHANGED <<rows, journal, cycle, live, doing, work, victim, path>>

(***************************************************************************)
(* The command cycle, op 139                                               *)
(***************************************************************************)
(* 0, begin: changes are recorded from here on. *)
Begin ==
  /\ doing = "idle" /\ turn \in {"startup", "between"}
  /\ turn' = "open" /\ journalling' = TRUE /\ path' = <<rows>>
  /\ UNCHANGED <<shape, rows, outermost, journal, history, paths, live, doing, work, victim>>

(* The oldest cycle is forgotten when the history is full. *)
Kept(s) == IF Len(s) >= UndoDepth THEN Tail(s) ELSE s

(* The cycle's changes move to the history; elsewhere says whether a       *)
(* property or a container changed, which alone makes a cycle worth undoing.*)
TakeJournal(elsewhere) ==
  /\ IF journal # <<>> \/ (elsewhere /\ journalling)
     THEN history' = Append(Kept(history), journal) /\ paths' = Append(Kept(paths), path)
     ELSE UNCHANGED <<history, paths>>
  /\ journal' = <<>> /\ path' = <<rows>>

(* 1, end, and 9, savepoint, which goes on recording. *)
End(elsewhere) ==
  /\ doing = "idle" /\ turn \in {"open", "failed"}
  /\ TakeJournal(elsewhere)
  /\ turn' = "between" /\ journalling' = FALSE
  /\ UNCHANGED <<shape, rows, outermost, live, doing, work, victim>>

Savepoint(elsewhere) ==
  /\ doing = "idle" /\ turn \in {"open", "failed"}
  /\ TakeJournal(elsewhere)
  /\ journalling' = TRUE
  /\ UNCHANGED <<shape, rows, outermost, turn, live, doing, work, victim>>

(* 4: the turn failed, and what it recorded is put back. *)
Rollback ==
  /\ doing = "idle" /\ turn = "open"
  /\ turn' = "failed" /\ doing' = "revert"
  /\ work' = journal /\ journal' = <<>>
  /\ UNCHANGED <<shape, rows, outermost, journalling, history, paths, live, victim, path>>

(* Slip: undo forgets the changes of the turn that asks for it. *)
UndoFinished ==
  /\ doing = "idle" /\ turn \in {"open", "failed"}
  /\ doing' = "revert" /\ journal' = <<>> /\ journalling' = FALSE
  /\ IF history = <<>>
     THEN work' = journal /\ UNCHANGED <<history, paths, path>>
     ELSE /\ work' = Last(history) /\ path' = Last(paths)
          /\ history' = Front(history) /\ paths' = Front(paths)
  /\ UNCHANGED <<shape, rows, outermost, turn, live, victim>>

(* 5: the open cycle is put back and then the last finished one; nothing   *)
(* is recorded for the rest of the turn.                                   *)
Undo ==
  /\ doing = "idle" /\ turn \in {"open", "failed"}
  /\ doing' = "revert" /\ journal' = <<>> /\ journalling' = FALSE
  /\ IF history = <<>>
     THEN work' = journal /\ UNCHANGED <<history, paths, path>>
     ELSE /\ work' = Last(history) \o journal
          /\ path' = Front(Last(paths)) \o path
          /\ history' = Front(history) /\ paths' = Front(paths)
  /\ UNCHANGED <<shape, rows, outermost, turn, live, victim>>

(* Slip: the oldest change is put back first. *)
RevertOldestFirst ==
  LET d == Head(work)
      before == Reversed(d, rows)
  IN  /\ doing = "revert" /\ work # <<>>
      /\ work' = Tail(work) /\ path' = Front(path)
      /\ SetRows(before)
      /\ IF before = rows THEN UNCHANGED outermost ELSE ClearCache(d.relation)
      /\ UNCHANGED <<shape, journal, cycle, live, doing, victim>>

(* Slip: rows are put back without forgetting the cached walks. *)
RevertKeepingCache ==
  LET d == Last(work)
      before == Reversed(d, rows)
  IN  /\ doing = "revert" /\ work # <<>>
      /\ work' = Front(work) /\ path' = Front(path)
      /\ SetRows(before)
      /\ UNCHANGED <<shape, outermost, journal, cycle, live, doing, victim>>

(* revert: one change is put back, the newest first, without recording it. *)
Revert ==
  LET d == Last(work)
      before == Reversed(d, rows)
  IN  /\ doing = "revert" /\ work # <<>>
      /\ work' = Front(work) /\ path' = Front(path)
      /\ SetRows(before)
      /\ IF before = rows THEN UNCHANGED outermost ELSE ClearCache(d.relation)
      /\ UNCHANGED <<shape, journal, cycle, live, doing, victim>>

Reverted ==
  /\ doing = "revert" /\ work = <<>>
  /\ doing' = "idle"
  /\ UNCHANGED <<shape, rows, outermost, journal, cycle, live, work, victim, path>>

Next ==
  \/ \E k \in Keys, p \in Pairs : Set(k, p[1], p[2]) \/ Unset(k, p[1], p[2])
  \/ \E k \in Keys, e \in Walked : Outermost(k, e)
  \/ \E e \in Mortal : Despawn(e)
  \/ Edit \/ Edited \/ Revert \/ Reverted
  \/ Begin \/ Rollback \/ Undo
  \/ \E elsewhere \in BOOLEAN : End(elsewhere) \/ Savepoint(elsewhere)

Spec == Init /\ [][Next]_vars

(***************************************************************************)
(* Properties                                                              *)
(***************************************************************************)
Rows == [Tables -> [Entities -> Seq(Entities)]] \X [Tables -> [Entities -> Seq(Entities)]]

(* Every variable has its type. *)
TypeOK ==
  /\ count \in 0..MaxTables
  /\ cardinality \in [Tables -> Kinds \cup {NoCard}]
  /\ labelled \in [Families \X Labels -> 0..MaxTables]
  /\ rows \in Rows
  /\ outermost \in [Tables -> [Entities -> Entities \cup {NoOne}]]
  /\ journal \in Seq(Delta)
  /\ journalling \in BOOLEAN
  /\ history \in Seq(Seq(Delta))
  /\ turn \in {"startup", "between", "open", "failed"}
  /\ live \in SUBSET Entities
  /\ doing \in {"idle", "edit", "revert"}
  /\ work \in Seq(Delta)
  /\ victim \in Entities \cup {NoOne}
  /\ path \in Seq(Rows) /\ path # <<>>
  /\ paths \in Seq(Seq(Rows)) /\ Len(paths) = Len(history)

(* The two indexes of a table hold the same rows, and no row twice, in the  *)
(* middle of every set, forget and revert too.                              *)
Mirrored ==
  \A i \in Tables : \A x, y \in Entities :
    /\ Contains(forward[i][x], y) <=> Contains(reverse[i][y], x)
    /\ IsInjective(forward[i][x]) /\ IsInjective(reverse[i][y])

(* A side that allows one partner has at most one, whatever was set, taken  *)
(* out, rolled back or undone (relations.rs: "a side limited to one partner *)
(* keeps a single entry").                                                  *)
CardinalityKept ==
  \A i \in Tables : \A e \in Entities :
    /\ cardinality[i] = "one_to_one" => Len(forward[i][e]) <= 1
    /\ cardinality[i] \in {"one_to_one", "one_to_many"} => Len(reverse[i][e]) <= 1

(***************************************************************************)
(* Saving (write_world and read_world of relations.rs): rows between       *)
(* entities that live, by number, and what is refused when it is read.     *)
(***************************************************************************)
write_world ==
  [tables |-> [i \in 1..count |->
     [cardinality |-> cardinality[i],
      forward |-> [e \in live |-> Among(forward[i][e], live)],
      reverse |-> [e \in live |-> Among(reverse[i][e], live)]]],
   labelled |-> {<<k, labelled[k]>> : k \in {x \in DOMAIN labelled : labelled[x] # 0}}]

ReadableTable(t) ==
  /\ \A e \in DOMAIN t.forward :
       /\ t.forward[e] # <<>> \/ t.reverse[e] # <<>> => t.cardinality # NoCard
       /\ Len(t.forward[e]) > 1 => LeftIsMany(t.cardinality)
       /\ Len(t.reverse[e]) > 1 => RightIsMany(t.cardinality)
       /\ IsInjective(t.forward[e]) /\ IsInjective(t.reverse[e])
  /\ \A x, y \in DOMAIN t.forward :
       Contains(t.forward[x], y) <=> Contains(t.reverse[y], x)

Readable(image) ==
  /\ \A i \in DOMAIN image.tables : ReadableTable(image.tables[i])
  /\ \A l \in image.labelled :
       LET base == l[1][1]
           table == l[2]
       IN /\ base \in DOMAIN image.tables /\ table \in DOMAIN image.tables \ {base}
          /\ image.tables[base].cardinality = image.tables[table].cardinality
          /\ \A m \in image.labelled : m[2] = table => m = l

(* Whatever was set, taken out, forgotten, rolled back or undone, the rows a *)
(* game may save at a command are rows that a restore accepts (relations.rs *)
(* write_world, read_world).                                                *)
SavesRestore == doing = "idle" /\ journal = <<>> => Readable(write_world)

(* A cached outermost entity is the one the walk would find now. *)
CacheFresh ==
  \A i \in Tables : \A e \in Entities :
    outermost[i][e] # NoOne => outermost[i][e] = TopOf(reverse[i], e)

(* A turn that fails, and an undo, leave exactly the rows there were when   *)
(* the cycle began, in the same order on both sides.                        *)
Restored == doing = "revert" /\ work = <<>> => rows = path[1]

(* set gives up before it takes anything out: rows are only displaced by a  *)
(* row that then takes their place.                                         *)
SetCompletes ==
  [][doing = "edit" /\ work # <<>> /\ Last(work).added => work' = Tail(work)]_vars

(* Where every entity has one container, an entity is among another's        *)
(* ancestors exactly when the other is among its descendants, even when the  *)
(* containers go round in a circle.                                          *)
WalksAgree ==
  \A i \in Tables : cardinality[i] \in {"one_to_one", "one_to_many"} /\ doing = "idle" =>
    \A x \in Entities : \A y \in Entities \ {x} :
      Contains(Ancestors(reverse[i], x), y) <=> Contains(Descendants(forward[i], y), x)

(***************************************************************************)
(* The store implements RowStore: its rows are what the forward index      *)
(* holds, and what a running revert is on its way to.                      *)
(***************************************************************************)
RowsOf(r) ==
  {t \in Keys \X Entities \X Entities :
     (t[1][1] \in Families => labelled[t[1]] # 0) /\ Related(r, TableOf(t[1]), t[2], t[3])}

CardOf(k) == Cards[k[1]]
storeRows == RowsOf(IF doing = "revert" THEN path[1] ELSE rows)
storeSaved == Append([n \in DOMAIN paths |-> RowsOf(paths[n][1])], RowsOf(path[1]))
storeMode ==
  IF turn \in {"startup", "between"} THEN turn ELSE IF journalling THEN "recording" ELSE "undone"

Store == INSTANCE RowStore WITH
  CardOf <- CardOf, rows <- storeRows, saved <- storeSaved, mode <- storeMode

(* Whatever a game calls, rows behave as a set that its cardinality allows, *)
(* which rollback and undo return to what it was at the start of a cycle.   *)
ImplementsRowStore == Store!Spec
=============================================================================
