------------------------------- MODULE Objects -------------------------------
(***************************************************************************)
(* The object store (zeb-runtime/src/objects.rs), the container journal    *)
(* (objects/history.rs) and the numbered operations of native_objects.rs   *)
(* through which a game with World and Turn lifetimes drives them.         *)
(*                                                                         *)
(* A record is named by a handle, the slot it lives in and the identity it *)
(* was born with; slots are used again, identities never.  Records form a  *)
(* forest.  Inside a command cycle new records belong to the turn and are  *)
(* freed together when the cycle ends, unless a value stored into a World  *)
(* record has promoted them; every first write to a World record is        *)
(* journalled, so a failed turn can be put back and a finished one undone. *)
(*                                                                         *)
(* One thread runs the store.  A step is one operation; which of the free  *)
(* slots a record takes and the order of children are left open.  Text,    *)
(* lists, closures, dictionaries and string buffers are not modelled, and  *)
(* no allocation fails.                                                    *)
(***************************************************************************)
EXTENDS Integers, FiniteSetsExt, Functions, SequencesExt

CONSTANTS
  Nil,            \* the value of a field that holds no reference, and no parent
  Absent,         \* what a journal notes for a property that did not exist
  Field,          \* the property a static initialiser fills
  Games           \* the games that may be played, each with the limits it meets

ASSUME Constants ==
  \A g \in Games :
    /\ g.statics \in Seq({"none", "vector", "table"})
    /\ g.calls \subseteq {"new", "throw", "vector", "table", "set", "append", "element",
                         "remove", "key", "despawn", "relate", "undo", "savepoint"}
    /\ g.early \in BOOLEAN /\ g.quiet \in BOOLEAN
    /\ {g.most_calls, g.longest, g.identities, g.objects, g.properties} \subseteq Nat
    /\ g.depth \in Nat \ {0}

ASSUME NilIsNoHandle == Nil \notin [slot : Nat, born : Nat]
ASSUME NilAndKeysAreNoSlots ==
  Nil \notin Nat /\ \A g \in Games : \A k \in g.keys : k \notin Nat \cup [slot : Nat, born : Nat]
ASSUME AbsentIsNoValue == Absent \notin [slot : Nat, born : Nat] \cup {Nil}

VARIABLES
  game,           \* the game that is played
  heap,           \* the records, the free slots, the roots and the counters
  journal,        \* the first write to each World property in this cycle
  containers,     \* the first snapshot of each World container in this cycle
  journalling,    \* whether they are recorded
  history,        \* the journals of the finished cycles that can be undone
  default_lifetime, \* the lifetime of a new record
  constructions,  \* the constructors that are running, innermost last
  exceptions,     \* the exceptions that own their object
  phase,          \* "startup", "between" cycles, "open", or "failed" and still open
  before,         \* auxiliary: the World when this journal was started
  past,           \* auxiliary: the same for each cycle in the history
  restored,       \* auxiliary: what a rollback or undo had to bring back, <<>> for none
  despawned,      \* auxiliary: what a game has despawned
  calls           \* auxiliary: how many calls it has made

journals == <<journal, containers, journalling, history>>
frames == <<constructions, exceptions>>
aux == <<before, past, restored>>
vars == <<game, heap, journals, default_lifetime, frames, phase, aux, despawned, calls>>

Nothing == [x \in {} |-> Nil]

(* A function with one more value, or with another one in its place. *)
With(f, x, v) == [y \in DOMAIN f \cup {x} |-> IF y = x THEN v ELSE f[y]]

(***************************************************************************)
(* The game                                                                *)
(***************************************************************************)
Statics == game.statics           \* the named objects, with the kind each Field is given
Props == game.props               \* the properties it assigns
Keys == game.keys                 \* the keys of its tables that are not references
Calls == game.calls               \* the kinds of call it makes
Early == game.early               \* whether it makes them before its first cycle too
MaxCalls == game.most_calls       \* a bound on the calls it makes
MaxLength == game.longest         \* a bound on the values a vector holds
MaxIdentity == game.identities    \* one past the last identity (u32::MAX in the code)
ObjectLimit == game.objects       \* Limits::objects
PropertyLimit == game.properties  \* Limits::properties
UndoDepth == game.depth           \* the cycles kept for undo (32 in the code)
QuietUndo == game.quiet           \* whether a turn that called undo changes nothing after it

(***************************************************************************)
(* Records and handles                                                     *)
(***************************************************************************)
Blank(born, lifetime) ==
  [born |-> born, lifetime |-> lifetime, kind |-> "plain", parent |-> Nil,
   children |-> {}, properties |-> Nothing, owned |-> Nothing,
   elements |-> Nothing, capacity |-> 0, prototypes |-> 0]

Live(h, o) == o # Nil /\ o.slot \in DOMAIN h.records /\ h.records[o.slot].born = o.born

Of(h, o) == h.records[o.slot]

World(h, o) == Live(h, o) /\ Of(h, o).lifetime = "World"

HandleAt(h, s) == [slot |-> s, born |-> h.records[s].born]

LiveHandles(h) == {HandleAt(h, s) : s \in DOMAIN h.records}

(* What a record counts against the limit on properties. *)
Charge(r) ==
  Cardinality(DOMAIN r.properties) + r.prototypes + r.capacity
  + (IF r.kind = "table" THEN 1 + 2 * Cardinality(DOMAIN r.elements) ELSE 0)

Total(h) == MapThenSumSet(LAMBDA s : Charge(h.records[s]), DOMAIN h.records)

(* The references a record holds in its fields, elements and keys. *)
Held(r) ==
  (Range(r.properties) \cup Range(r.elements)
   \cup (IF r.kind = "table" THEN DOMAIN r.elements \ Keys ELSE {})) \ {Nil}

(* The slots of a set of records and of everything they own. *)
Subtree(h, slots) ==
  LET grown[n \in 0..Cardinality(DOMAIN h.records)] ==
        IF n = 0 THEN slots
        ELSE LET was == grown[n - 1]
             IN  was \cup {c.slot : c \in UNION {h.records[s].children : s \in was}}
  IN  grown[Cardinality(DOMAIN h.records)]

(* destroy: a record goes with all it owns, and the slots are free again. *)
Destroyed(h, slots) ==
  LET gone == Subtree(h, slots)
  IN  [h EXCEPT !.records = Restrict(@, DOMAIN @ \ gone),
                !.free = @ \cup gone,
                !.charged = @ - MapThenSumSet(LAMBDA s : Charge(h.records[s]), gone)]

(* resource_failure: everything goes, and every later call is refused. *)
Failed(h) ==
  [Destroyed(h, {o.slot : o \in h.roots}) EXCEPT !.roots = {}, !.status = "terminal"]

(* The Turn records a Turn value reaches through fields, what it owns, and *)
(* the elements of the given kinds.                                        *)
Reached(h, v, kinds) ==
  LET turn(S) == {o \in S : Live(h, o) /\ Of(h, o).lifetime = "Turn"}
      visited(r) == Range(r.properties) \cup r.children
                    \cup (IF r.kind \in kinds THEN Range(r.elements) ELSE {})
      within[n \in 0..Cardinality(DOMAIN h.records)] ==
        IF n = 0 THEN turn({v})
        ELSE LET was == within[n - 1]
             IN  was \cup turn(UNION {visited(Of(h, o)) : o \in was})
  IN  within[Cardinality(DOMAIN h.records)]

InWorld(h, objects) ==
  LET slots == {o.slot : o \in objects}
  IN  [h EXCEPT !.records = [s \in DOMAIN h.records |->
         IF s \in slots THEN [h.records[s] EXCEPT !.lifetime = "World"] ELSE h.records[s]]]

(* promote: a Turn value and what it reaches become World; lookup tables   *)
(* are not visited.                                                        *)
Promoted(h, v) == InWorld(h, Reached(h, v, {"vector"}))

(* The destination decides: what is stored into a World record is promoted. *)
Stored(h, o, v) == IF World(h, o) THEN Promoted(h, v) ELSE h

(***************************************************************************)
(* Making records                                                          *)
(***************************************************************************)
CanCreate(h) ==
  Cardinality(DOMAIN h.records) < ObjectLimit /\ h.next_identity + 1 <= MaxIdentity

(* A freed slot, or one never used. *)
Slots(h) == IF h.free = {} THEN {h.next_identity} ELSE h.free

(* Slip: a record in a slot used again has the slot's old identity. *)
CreatedSame(h, slot, lifetime) ==
  [h EXCEPT !.records = With(@, slot, Blank(slot, lifetime)),
            !.free = @ \ {slot},
            !.roots = @ \cup {[slot |-> slot, born |-> slot]},
            !.next_identity = @ + 1]

(* create: a new root. *)
Created(h, slot, lifetime) ==
  [h EXCEPT !.records = With(@, slot, Blank(h.next_identity, lifetime)),
            !.free = @ \ {slot},
            !.roots = @ \cup {[slot |-> slot, born |-> h.next_identity]},
            !.next_identity = @ + 1]

(* adopt: a root becomes the child of another record. *)
Adopted(h, p, c) ==
  [h EXCEPT !.roots = @ \ {c},
            !.records[c.slot].parent = p, !.records[p.slot].children = @ \cup {c}]

(* Slip: nobody owns it then. *)
OrphanedLost(h, p, c) ==
  [h EXCEPT !.records[c.slot].parent = Nil, !.records[p.slot].children = @ \ {c}]

(* A child becomes a root again. *)
Orphaned(h, p, c) ==
  [h EXCEPT !.roots = @ \cup {c},
            !.records[c.slot].parent = Nil, !.records[p.slot].children = @ \ {c}]

DestroyedRoot(h, o) == [Destroyed(h, {o.slot}) EXCEPT !.roots = @ \ {o}]


(***************************************************************************)
(* Fields                                                                  *)
(***************************************************************************)
(* The record a field owns goes when the field gets another value. *)
Disowned(h, o, p) ==
  LET c == Of(h, o).owned[p]
  IN  Destroyed([h EXCEPT !.records[o.slot].owned = Restrict(@, DOMAIN @ \ {p}),
                          !.records[o.slot].children = @ \ {c}], {c.slot})

(* set, but for its journal.  A field that no longer finds the child it    *)
(* owns stops the program.                                                 *)
Assigned(h, o, p, v) ==
  LET r == Of(h, o)
      stored == Stored(h, o, v)
      new == p \notin DOMAIN r.properties
      owns == p \in DOMAIN r.owned
  IN  IF new /\ stored.charged >= PropertyLimit THEN Failed(stored)
      ELSE IF owns /\ v = r.owned[p] THEN stored
      ELSE IF owns /\ r.owned[p] \notin r.children THEN [stored EXCEPT !.status = "aborted"]
      ELSE [(IF owns THEN Disowned(stored, o, p) ELSE stored) EXCEPT
              !.records[o.slot].properties = With(@, p, v),
              !.charged = @ + (IF new THEN 1 ELSE 0)]

(* clear_property *)
Cleared(h, o, p) ==
  IF p \notin DOMAIN Of(h, o).properties THEN h
  ELSE [(IF p \in DOMAIN Of(h, o).owned THEN Disowned(h, o, p) ELSE h) EXCEPT
          !.records[o.slot].properties = Restrict(@, DOMAIN @ \ {p}),
          !.charged = IF @ = 0 THEN 0 ELSE @ - 1]

(* revert_properties: the newest write is put back first, and records that *)
(* are gone are passed over.                                               *)
PropertiesReverted(h, deltas) ==
  FoldRight(LAMBDA d, g :
              IF ~Live(g, d.object) THEN g
              ELSE IF d.previous = Absent THEN Cleared(g, d.object, d.property)
              ELSE Assigned(g, d.object, d.property, d.previous),
            deltas, h)

(***************************************************************************)
(* Containers                                                              *)
(***************************************************************************)
Weight(r) ==
  r.capacity + r.prototypes
  + (IF r.kind = "table" THEN 2 * Cardinality(DOMAIN r.elements) ELSE 0)

Snapshot(h, o) ==
  [object |-> o, elements |-> Of(h, o).elements, capacity |-> Of(h, o).capacity,
   weight |-> Weight(Of(h, o))]

(* journal_container: whether a snapshot has to be taken, and whether it fits. *)
Unsaved(h, o) ==
  /\ journalling /\ World(h, o)
  /\ \A n \in DOMAIN containers : containers[n].object # o

Fits(h, o) ==
  /\ Len(containers) < ObjectLimit
  /\ FoldLeft(LAMBDA sum, d : sum + d.weight, Weight(Of(h, o)), containers) <= PropertyLimit

(* Slip: the snapshot comes back and the charge for the room does not. *)
ContainersRevertedUncharged(h, deltas) ==
  FoldRight(LAMBDA d, g :
              IF ~Live(g, d.object) THEN g
              ELSE [g EXCEPT !.records[d.object.slot] =
                      [@ EXCEPT !.elements = d.elements, !.capacity = d.capacity]],
            deltas, h)

(* revert_containers *)
ContainersReverted(h, deltas) ==
  FoldRight(LAMBDA d, g :
              IF ~Live(g, d.object) THEN g
              ELSE LET was == Of(g, d.object)
                       now == [was EXCEPT !.elements = d.elements, !.capacity = d.capacity]
                   IN  [g EXCEPT !.records[d.object.slot] = now,
                                 !.charged = @ - Charge(was) + Charge(now)],
            deltas, h)

(***************************************************************************)
(* What a game calls                                                       *)
(***************************************************************************)
(* The records a constructor runs under are never handed out. *)
Private(h, o) ==
  Of(h, o).kind = "plain" /\ Of(h, o).prototypes = 0 /\ o.born > Len(Statics)

Visible(h) == {o \in LiveHandles(h) : ~Private(h, o)}

OfKind(k) == {o \in Visible(heap) : Of(heap, o).kind = k}

Values == {Nil} \cup Visible(heap) \cup UNION {Held(r) : r \in Range(heap.records)}

Contents(r) == <<r.properties, r.elements>>

TheWorld(h) ==
  [o \in {x \in LiveHandles(h) : World(h, x)} |-> Contents(Of(h, o))]

(* QuietUndo keeps a game from changing anything once undo has stopped the *)
(* journals.                                                               *)
May(call) ==
  /\ call \in Calls /\ heap.status = "live"
  /\ \/ phase = "startup" /\ Early
     \/ phase \in {"open", "failed"} /\ (journalling \/ ~QuietUndo)
  /\ calls < MaxCalls /\ calls' = calls + 1
  /\ restored' = Absent

(* op 46, and op 43 for the object of a throw: begin_construction makes an *)
(* activation and, as its child, an instance of a class that stays.        *)
BeginConstruction(owner) ==
  /\ May(IF owner = "Published" THEN "new" ELSE "throw")
  /\ IF ~CanCreate(heap) THEN heap' = Failed(heap) /\ UNCHANGED constructions
     ELSE \E a \in Slots(heap) :
       LET first == Created(heap, a, default_lifetime)
           activation == HandleAt(first, a)
       IN  IF ~CanCreate(first) THEN heap' = Failed(first) /\ UNCHANGED constructions
           ELSE \E s \in Slots(first) :
             LET second == Created(first, s, default_lifetime)
                 object == HandleAt(second, s)
                 adopted == Adopted(second, activation, object)
             IN  IF adopted.charged >= PropertyLimit
                 THEN heap' = Failed(adopted) /\ UNCHANGED constructions
                 ELSE /\ heap' = [adopted EXCEPT !.records[s].prototypes = 1,
                                                 !.charged = @ + 1]
                      /\ constructions' = Append(constructions,
                           [owner |-> owner, activation |-> activation, object |-> object])
  /\ UNCHANGED <<journals, default_lifetime, exceptions, phase, before, past, despawned>>

(* Slip: the instance stays with its activation. *)
PublishedInside(h, c) == DestroyedRoot(h, c.activation)

(* finish_published_construction: the turn owns the instance. *)
Published(h, c) == DestroyedRoot(Orphaned(h, c.activation, c.object), c.activation)

(* op 48: the constructor returns; an instance it despawned is refused, and *)
(* its activation is left behind.                                          *)
FinishPublished ==
  /\ heap.status = "live" /\ constructions # <<>> /\ Last(constructions).owner = "Published"
  /\ LET c == Last(constructions)
     IN  heap' = IF Live(heap, c.object) THEN Published(heap, c) ELSE heap
  /\ constructions' = Front(constructions) /\ restored' = Absent
  /\ UNCHANGED <<journals, default_lifetime, exceptions, phase, before, past, despawned, calls>>

(* op 65: the constructor throws.  A published instance is finished all the *)
(* same, and one that is gone ends the store.                              *)
Unwind ==
  /\ heap.status = "live" /\ constructions # <<>>
  /\ LET c == Last(constructions)
     IN  heap' = IF c.owner = "Owned" THEN DestroyedRoot(heap, c.activation)
                 ELSE IF Live(heap, c.object) THEN Published(heap, c)
                 ELSE Failed(heap)
  /\ constructions' = Front(constructions) /\ restored' = Absent
  /\ UNCHANGED <<journals, default_lifetime, exceptions, phase, before, past, despawned, calls>>

(* op 76: the constructed exception is thrown, and owns its activation. *)
Throw ==
  /\ heap.status = "live" /\ constructions # <<>> /\ Last(constructions).owner = "Owned"
  /\ LET c == Last(constructions)
     IN  /\ Live(heap, c.object)
         /\ exceptions' = exceptions \cup
              {[activation |-> c.activation, object |-> c.object, claimed |-> FALSE]}
  /\ constructions' = Front(constructions) /\ restored' = Absent
  /\ UNCHANGED <<heap, journals, default_lifetime, phase, before, past, despawned, calls>>

(* op 79: a handler acquires it. *)
Claim(e) ==
  /\ heap.status = "live" /\ e \in exceptions /\ ~e.claimed /\ Live(heap, e.activation)
  /\ exceptions' = (exceptions \ {e}) \cup {[e EXCEPT !.claimed = TRUE]}
  /\ restored' = Absent
  /\ UNCHANGED <<heap, journals, default_lifetime, constructions, phase, before, past, despawned, calls>>

(* Slip: another exception that is being handled goes. *)
ReleaseOther(e) ==
  LET others == {x \in exceptions : x # e /\ x.claimed}
      gone == IF others = {} THEN e ELSE CHOOSE x \in others : TRUE
  IN  /\ heap.status = "live" /\ e \in exceptions /\ Live(heap, e.activation)
      /\ heap' = DestroyedRoot(heap, gone.activation)
      /\ exceptions' = exceptions \ {e} /\ restored' = Absent
      /\ UNCHANGED <<journals, default_lifetime, constructions, phase, before, past, despawned,
                     calls>>

(* release_exception, op 65 at the end of the handler, or op 78 when what a  *)
(* finally block does takes its place.                                      *)
Release(e) ==
  /\ heap.status = "live" /\ e \in exceptions /\ Live(heap, e.activation)
  /\ heap' = DestroyedRoot(heap, e.activation)
  /\ exceptions' = exceptions \ {e} /\ restored' = Absent
  /\ UNCHANGED <<journals, default_lifetime, constructions, phase, before, past, despawned, calls>>

(* op 66 and op 85: a vector with room for some values, or a lookup table.  *)
(* No operation makes a table with room reserved (new_lookup passes none), *)
(* so that every new key of lookup_set below pays for itself.  The value a *)
(* table answers for a key it does not hold is left out.                   *)
NewContainer(kind, capacity) ==
  LET charge == IF kind = "table" THEN 1 ELSE capacity
  IN  /\ May(kind)
      /\ IF charge > PropertyLimit - heap.charged \/ ~CanCreate(heap)
         THEN heap' = Failed(heap)
         ELSE \E s \in Slots(heap) :
                heap' = [Created(heap, s, default_lifetime) EXCEPT
                           !.records[s].kind = kind, !.records[s].capacity = capacity,
                           !.charged = @ + charge]
      /\ UNCHANGED <<journals, default_lifetime, frames, phase, before, past, despawned>>

(* set: the first write to a World property is recorded with the old value; *)
(* when the journal is full nothing changes.                               *)
Set(o, p, v) ==
  LET unsaved == /\ journalling /\ World(heap, o)
                 /\ \A n \in DOMAIN journal : journal[n].object # o \/ journal[n].property # p
      r == Of(heap, o)
  IN  /\ May("set")
      /\ IF unsaved /\ Len(journal) >= PropertyLimit THEN UNCHANGED <<heap, journal>>
         ELSE /\ heap' = Assigned(heap, o, p, v)
              /\ journal' = IF ~unsaved THEN journal
                            ELSE Append(journal, [object |-> o, property |-> p,
                                   previous |-> IF p \in DOMAIN r.properties
                                                THEN r.properties[p] ELSE Absent])
      /\ UNCHANGED <<containers, journalling, history, default_lifetime, frames, phase,
                     before, past, despawned>>

(* A change to a container: it is promoted into, saved first, and nothing  *)
(* else happens when the snapshot does not fit.                            *)
Changed(o, stored, after) ==
  /\ IF Unsaved(stored, o) /\ ~Fits(stored, o)
     THEN heap' = stored /\ UNCHANGED containers
     ELSE /\ heap' = after
          /\ containers' = IF Unsaved(stored, o) THEN Append(containers, Snapshot(stored, o))
                           ELSE containers
  /\ UNCHANGED <<journal, journalling, history, default_lifetime, frames, phase,
                 before, past, despawned>>

(* vector_append: room that is not there yet is charged. *)
VectorAppend(o, v) ==
  LET stored == Stored(heap, o, v)
      r == Of(stored, o)
      length == Cardinality(DOMAIN r.elements) + 1
      more == IF length > r.capacity THEN length - r.capacity ELSE 0
      after == IF more > PropertyLimit - stored.charged THEN Failed(stored)
               ELSE [stored EXCEPT
                       !.records[o.slot].elements = With(@, length, v),
                       !.records[o.slot].capacity = @ + more,
                       !.charged = @ + more]
  IN  /\ May("append") /\ length <= MaxLength
      /\ Changed(o, stored, after)

(* vector_set *)
VectorSet(o, n, v) ==
  LET stored == Stored(heap, o, v)
  IN  /\ May("element")
      /\ Changed(o, stored, [stored EXCEPT !.records[o.slot].elements[n] = v])

(* vector_remove_range: the room stays charged. *)
VectorRemove(o, first, last) ==
  LET left == Cardinality(DOMAIN Of(heap, o).elements) - (last - first + 1)
      kept(s) == [n \in 1..left |-> s[IF n < first THEN n ELSE n + last - first + 1]]
  IN  /\ May("remove")
      /\ Changed(o, heap, [heap EXCEPT !.records[o.slot].elements = kept(@)])

(* Slip: a key is not promoted. *)
LookupSetKeyed(o, k, v) ==
  LET stored == Stored(heap, o, v)
      more == IF k \in DOMAIN Of(stored, o).elements THEN 0 ELSE 2
      after == IF more > PropertyLimit - stored.charged THEN Failed(stored)
               ELSE [stored EXCEPT !.records[o.slot].elements = With(@, k, v),
                                   !.charged = @ + more]
  IN  /\ May("key")
      /\ Changed(o, stored, after)

(* lookup_set: a key that is a reference is promoted too, once the table is *)
(* saved; a new key is charged.                                            *)
LookupSet(o, k, v) ==
  LET stored == Stored(heap, o, v)
      keyed == IF k \in Keys THEN stored ELSE Stored(stored, o, k)
      more == IF k \in DOMAIN Of(keyed, o).elements THEN 0 ELSE 2
      after == IF more > PropertyLimit - keyed.charged THEN Failed(keyed)
               ELSE [keyed EXCEPT !.records[o.slot].elements = With(@, k, v),
                                  !.charged = @ + more]
  IN  /\ May("key")
      /\ Changed(o, stored, after)

(* op 131: a Turn record related to a World one is promoted. *)
Relate(x, y) ==
  /\ May("relate")
  /\ heap' = Stored(Stored(heap, x, y), y, x)
  /\ UNCHANGED <<journals, default_lifetime, frames, phase, before, past, despawned>>

(* despawn: detached from its parent or the roots, and destroyed; a field  *)
(* that owned it is left as it was.                                        *)
Despawn(o) ==
  LET p == Of(heap, o).parent
      detached == IF o \in heap.roots THEN [heap EXCEPT !.roots = @ \ {o}]
                  ELSE [heap EXCEPT !.records[p.slot].children = @ \ {o}]
  IN  /\ May("despawn")
      /\ heap' = Destroyed(detached, {o.slot})
      /\ despawned' = despawned \cup {HandleAt(heap, s) : s \in Subtree(heap, {o.slot})}
      /\ UNCHANGED <<journals, default_lifetime, frames, phase, before, past>>

(***************************************************************************)
(* The command cycle, op 139                                               *)
(***************************************************************************)
(* The generated cycle is at its top: no constructor or handler is running. *)
Outside ==
  heap.status = "live" /\ constructions = <<>> /\ \A e \in exceptions : ~e.claimed

(* An exception that nobody has handled fails its turn. *)
InFlight == \E e \in exceptions : Live(heap, e.activation)

(* 0, begin *)
Begin ==
  /\ Outside /\ phase \in {"startup", "between"} /\ ~InFlight
  /\ phase' = "open" /\ default_lifetime' = "Turn" /\ journalling' = TRUE
  /\ before' = TheWorld(heap) /\ restored' = Absent
  /\ UNCHANGED <<heap, journal, containers, history, frames, past, despawned, calls>>

(* At most UndoDepth cycles are kept. *)
Kept(s) == IF Len(s) >= UndoDepth THEN Tail(s) ELSE s

(* The journals move to the history, unless they are empty. *)
TakeJournals ==
  /\ IF journal = <<>> /\ containers = <<>> THEN UNCHANGED <<history, past>>
     ELSE /\ history' = Append(Kept(history), [properties |-> journal, containers |-> containers])
          /\ past' = Append(Kept(past), before)
  /\ journal' = <<>> /\ containers' = <<>>

PromotedAll(h, objects) == FoldSet(LAMBDA o, g : Promoted(g, o), h, objects)

(* release_turn_records: Turn records that a World record owns are         *)
(* promoted; those that nobody owns are destroyed, with all they own.      *)
TurnReleased(h) ==
  LET turn == {o \in LiveHandles(h) : Of(h, o).lifetime = "Turn"}
      owned(o) == Of(h, o).parent # Nil /\ World(h, Of(h, o).parent)
      roots == {o \in turn : Of(h, o).parent = Nil}
      kept == PromotedAll(h, {o \in turn : owned(o)})
  IN  [Destroyed(kept, {o.slot : o \in roots}) EXCEPT !.roots = @ \ roots]

(* 1, end *)
End ==
  /\ Outside /\ phase \in {"open", "failed"} /\ (phase = "open" => ~InFlight)
  /\ TakeJournals /\ journalling' = FALSE
  /\ heap' = TurnReleased(heap)
  /\ default_lifetime' = "World" /\ phase' = "between"
  /\ before' = TheWorld(heap') /\ restored' = Absent
  /\ UNCHANGED <<frames, despawned, calls>>

(* 9, savepoint *)
Savepoint ==
  /\ "savepoint" \in Calls /\ heap.status = "live" /\ phase \in {"open", "failed"}
  /\ TakeJournals /\ journalling' = TRUE
  /\ before' = TheWorld(heap) /\ restored' = Absent
  /\ UNCHANGED <<heap, default_lifetime, frames, phase, despawned, calls>>

(* 4: the turn failed. *)
Rollback ==
  /\ Outside /\ phase = "open"
  /\ heap' = PropertiesReverted(ContainersReverted(heap, containers), journal)
  /\ journal' = <<>> /\ containers' = <<>>
  /\ phase' = "failed" /\ restored' = before
  /\ UNCHANGED <<journalling, history, default_lifetime, frames, before, past, despawned, calls>>

(* Slip: what the turn has written before it asks is left. *)
UndoFinished ==
  /\ "undo" \in Calls /\ heap.status = "live" /\ phase \in {"open", "failed"}
  /\ journal' = <<>> /\ containers' = <<>> /\ journalling' = FALSE
  /\ IF history = <<>>
     THEN /\ heap' = PropertiesReverted(ContainersReverted(heap, containers), journal)
          /\ restored' = before /\ UNCHANGED <<history, past>>
     ELSE LET c == Last(history)
          IN  /\ heap' = PropertiesReverted(ContainersReverted(heap, c.containers), c.properties)
              /\ restored' = Last(past)
              /\ history' = Front(history) /\ past' = Front(past)
  /\ before' = restored'
  /\ UNCHANGED <<default_lifetime, frames, phase, despawned, calls>>

(* 5: the open cycle is put back and then the last finished one; nothing   *)
(* is recorded for the rest of the turn.                                   *)
Undo ==
  LET put == PropertiesReverted(ContainersReverted(heap, containers), journal)
  IN  /\ "undo" \in Calls /\ heap.status = "live" /\ phase \in {"open", "failed"}
      /\ journal' = <<>> /\ containers' = <<>> /\ journalling' = FALSE
      /\ IF history = <<>>
         THEN heap' = put /\ restored' = before /\ UNCHANGED <<history, past>>
         ELSE LET c == Last(history)
              IN  /\ heap' = PropertiesReverted(ContainersReverted(put, c.containers), c.properties)
                  /\ restored' = Last(past)
                  /\ history' = Front(history) /\ past' = Front(past)
      /\ before' = restored'
      /\ UNCHANGED <<default_lifetime, frames, phase, despawned, calls>>

(* A store that has failed refuses every operation. *)
Refused ==
  /\ heap.status # "live"
  /\ UNCHANGED <<heap, journals, default_lifetime, frames, phase, aux, despawned, calls>>

(* The named objects are made first.  Each static container is made in a   *)
(* region of its own, whose slot the next region takes, and is then moved  *)
(* into the field that owns it.                                            *)
Started(statics) ==
  LET n == Len(statics)
      filled == {i \in 1..n : statics[i] # "none"}
      place(i) == n + 2 * Cardinality({j \in filled : j <= i})
      named(i) == [slot |-> i, born |-> i]
      container(i) == [slot |-> place(i), born |-> place(i)]
      record(s) ==
        IF s <= n
        THEN IF s \notin filled THEN Blank(s, "World")
             ELSE [Blank(s, "World") EXCEPT !.children = {container(s)},
                                            !.properties = With(Nothing, Field, container(s)),
                                            !.owned = With(Nothing, Field, container(s))]
        ELSE LET i == CHOOSE j \in filled : place(j) = s
             IN  [Blank(s, "World") EXCEPT !.kind = statics[i], !.parent = named(i)]
      records == [s \in 1..n \cup {place(i) : i \in filled} |-> record(s)]
  IN  [records |-> records, roots |-> {named(i) : i \in 1..n},
       free |-> IF filled = {} THEN {} ELSE {n + 1},
       next_identity |-> n + 2 * Cardinality(filled) + 1,
       charged |-> Total([records |-> records]), status |-> "live"]

(* A game that starts has room for its statics. *)
ASSUME StaticsFit ==
  \A g \in Games :
    /\ Started(g.statics).charged <= g.properties
    /\ Started(g.statics).next_identity <= g.identities
    /\ Cardinality(DOMAIN Started(g.statics).records) <= g.objects

Begun ==
  /\ heap = Started(Statics)
  /\ journal = <<>> /\ containers = <<>> /\ journalling = FALSE /\ history = <<>>
  /\ default_lifetime = "World" /\ constructions = <<>> /\ exceptions = {}
  /\ phase = "startup" /\ before = Nothing /\ past = <<>> /\ restored = Absent
  /\ despawned = {} /\ calls = 0

Init == game \in Games /\ Begun

Step ==
  \/ \E owner \in {"Published", "Owned"} : BeginConstruction(owner)
  \/ FinishPublished \/ Unwind \/ Throw
  \/ \E e \in exceptions : Claim(e) \/ Release(e)
  \/ NewContainer("table", 0) \/ \E n \in 0..1 : NewContainer("vector", n)
  \/ \E o \in OfKind("plain"), p \in Props, v \in Values : Set(o, p, v)
  \/ \E o \in OfKind("vector"), v \in Values :
       VectorAppend(o, v) \/ \E n \in DOMAIN Of(heap, o).elements : VectorSet(o, n, v)
  \/ \E o \in OfKind("vector") : \E m \in DOMAIN Of(heap, o).elements :
       \E n \in m..Cardinality(DOMAIN Of(heap, o).elements) : VectorRemove(o, m, n)
  \/ \E o \in OfKind("table"), v \in Values :
       \E k \in Keys \cup OfKind("plain") \cup OfKind("table") : LookupSet(o, k, v)
  \/ \E x, y \in OfKind("plain") : Relate(x, y)
  \/ \E o \in Visible(heap) : Despawn(o)
  \/ Begin \/ End \/ Savepoint \/ Rollback \/ Undo \/ Refused

Next == Step /\ UNCHANGED game

Spec == Init /\ [][Next]_vars

(***************************************************************************)
(* Properties                                                              *)
(***************************************************************************)
Handles == [slot : 1..MaxIdentity, born : 1..MaxIdentity]
Data == Handles \cup {Nil}

(* Every variable has its type. *)
TypeOK ==
  /\ game \in Games
  /\ DOMAIN heap.records \subseteq 1..MaxIdentity
  /\ \A r \in Range(heap.records) :
       /\ r.born \in 1..MaxIdentity /\ r.lifetime \in {"World", "Turn"}
       /\ r.kind \in {"plain", "vector", "table"}
       /\ r.parent \in Data /\ r.children \subseteq Handles
       /\ DOMAIN r.properties \subseteq Props \cup {Field} /\ Range(r.properties) \subseteq Data
       /\ DOMAIN r.owned \subseteq DOMAIN r.properties /\ Range(r.owned) \subseteq Handles
       /\ Range(r.elements) \subseteq Data
       /\ r.kind = "vector" => DOMAIN r.elements = 1..Cardinality(DOMAIN r.elements)
       /\ r.capacity \in Nat /\ r.prototypes \in 0..1
  /\ heap.free \subseteq 1..MaxIdentity /\ heap.roots \subseteq Handles
  /\ heap.next_identity \in 1..MaxIdentity /\ heap.charged \in Nat
  /\ heap.status \in {"live", "terminal", "aborted"}
  /\ \A n \in DOMAIN journal :
       /\ journal[n].object \in Handles /\ journal[n].property \in Props \cup {Field}
       /\ journal[n].previous \in Data \cup {Absent}
  /\ Len(journal) <= PropertyLimit /\ Len(containers) <= ObjectLimit
  /\ journalling \in BOOLEAN /\ default_lifetime \in {"World", "Turn"}
  /\ Len(history) <= UndoDepth /\ Len(past) = Len(history)
  /\ \A n \in DOMAIN constructions : constructions[n].owner \in {"Published", "Owned"}
  /\ \A e \in exceptions : e.activation \in Handles /\ e.claimed \in BOOLEAN
  /\ phase \in {"startup", "between", "open", "failed"}
  /\ despawned \subseteq Handles /\ calls \in 0..MaxCalls

(* The records form a forest: every record is a root or a child of its      *)
(* parent, never both, and the free slots are empty.  destroy and adopt rely *)
(* on it and would otherwise free a record twice.                           *)
ForestOK ==
  /\ heap.roots \subseteq LiveHandles(heap)
  /\ DOMAIN heap.records = Subtree(heap, {o.slot : o \in heap.roots})
  /\ DOMAIN heap.records \cap heap.free = {}
  /\ \A o \in LiveHandles(heap) :
       /\ Of(heap, o).parent = Nil <=> o \in heap.roots
       /\ Of(heap, o).parent # Nil =>
            Live(heap, Of(heap, o).parent) /\ o \in Of(heap, Of(heap, o).parent).children
       /\ \A c \in Of(heap, o).children : Live(heap, c) /\ Of(heap, c).parent = o

(* The counter that every limit is checked against is the sum of what the   *)
(* records hold, after rollbacks of records that are gone and after failures,*)
(* and the limit is kept.                                                   *)
Counted == heap.charged = Total(heap) /\ heap.charged <= PropertyLimit

(* What every operation of the store relies on, whatever came before it, a   *)
(* failure in the middle of another operation included: the types, the       *)
(* forest of owners, and the counter (objects.rs ready, charge, destroy).    *)
StoreOK == TypeOK /\ ForestOK /\ Counted

(* What a handle named never comes back, though its slot is used again.     *)
NoRevival ==
  [][\A r \in Range(heap.records) : \A o \in Held(r) \ LiveHandles(heap) :
       o \notin LiveHandles(heap)']_vars

(* What a live World record refers to or owns is World too, so nothing that *)
(* ends with the turn can be reached from it.                               *)
WorldClosed ==
  \A o \in LiveHandles(heap) : World(heap, o) =>
    \A v \in Held(Of(heap, o)) \cup Of(heap, o).children : Live(heap, v) => World(heap, v)

(* A reference a World record holds goes on naming its object, in every step *)
(* of every cycle, until a game despawns that object (objects.rs: "World    *)
(* records are freed only by an explicit despawn or a wholesale reset").    *)
(* A game that throws is left out: what a constructor was making, or an     *)
(* exception owns, goes with it wherever it was stored.                     *)
HeldLives ==
  [][heap'.status = "live" /\ "throw" \notin Calls =>
       \A o \in LiveHandles(heap) : World(heap, o) =>
         \A v \in Held(Of(heap, o)) :
           Live(heap, v) => v \in LiveHandles(heap)' \/ v \in despawned']_vars

(* A turn that fails, and an undo, leave every World record that is still   *)
(* there with the fields and elements it had when the cycle began.          *)
Restored ==
  restored # Absent /\ heap.status = "live" =>
    \A o \in DOMAIN restored :
      Live(heap, o) => World(heap, o) /\ Contents(Of(heap, o)) = restored[o]

(* An exception outlives the handler that has it, with the object it owns   *)
(* unless that was despawned, whatever else is thrown and handled meanwhile.*)
HandledLives ==
  heap.status = "live" =>
    \A e \in exceptions : e.claimed =>
      Live(heap, e.activation) /\ (Live(heap, e.object) \/ e.object \in despawned)

(* No field is left without the child it owns (objects.rs: expect("owned    *)
(* field child")).                                                          *)
NeverAborted == heap.status # "aborted"
=============================================================================
