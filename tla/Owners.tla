------------------------------- MODULE Owners -------------------------------
(* Scope ownership: a program compiled for the ownership model says of every *)
(* object it makes who keeps it, and the runtime releases it with its keeper *)
(* (objects.rs constructions, member calls and owned collections; the        *)
(* operations 43 to 56, 63 to 65, 76 to 84, 96, 98, 99, 101 and 102 of       *)
(* native_objects.rs; scopes and unwinding as ir.rs and llvm.rs emit them).  *)
(*                                                                           *)
(* An object is kept by a field, by a private slot of a collection, by a     *)
(* local variable's entry, by the activation of the constructor or method    *)
(* that is running on it, or by a thrown exception.  While a constructor or  *)
(* a method runs, the field or slot that is to have the object back holds a  *)
(* claim, which a store, a removal or a second claim may cancel.             *)
(*                                                                           *)
(* own     what the runtime keeps: the records, the roots, the stacks        *)
(* frames  the program: what it has entered and not left, the latest last    *)
(* raised  what is on its way up: nothing, an error, a thrown object         *)
(* allowed what this program may do, and steps how often yet                 *)
(*                                                                           *)
(* Identities, revisions and checkpoints grow in the code.  Here the next    *)
(* one is above all that are still named, which keeps their order.  Texts,   *)
(* lists and tables are kept in the same ways and are left out, so is the    *)
(* failure of a limit, which ends the store at once (Objects), and despawn.  *)
EXTENDS Integers, Sequences, FiniteSets, SequencesExt, FiniteSetsExt, Functions, TLC
CONSTANTS
  PropertyIds,        \* the fields an object has
  Repertoires,   \* [uses |-> what a program may do, steps |-> how often in all]
  MaxFrames, MaxRecords

VARIABLES own, frames, raised, steps, allowed
ownVars == <<own, frames, raised, steps, allowed>>

Nobody == 0                       \* no object, no activation, no scope, a nil value
Held == "held"                    \* the one property of a private slot, PropertyId(0)
AllPlaces == PropertyIds \cup {Held}
NoClaim == [recipient |-> Nobody, place |-> Held, revision |-> 0]
Unclaimed == [object |-> Nobody, revision |-> 0]

\* kind only tells the reader, and Things, what a record was made for.
Record(kind) ==
  [parent |-> Nobody, children |-> {}, kind |-> kind, members |-> <<>>,
   fields |-> [p \in AllPlaces |-> Nobody], owned |-> [p \in AllPlaces |-> Nobody],
   pending |-> [p \in AllPlaces |-> Unclaimed]]

(***************************************************************************)
(* Records and who keeps them.                                             *)
(***************************************************************************)

Live(m, o) == o \in DOMAIN m.heap

\* All that is reached from a set by steps of next.
Reached(m, next(_), from) ==
  LET grow[n \in Nat] == IF n = 0 THEN from ELSE UNION {next(o) \cup {o} : o \in grow[n - 1]}
  IN  grow[Cardinality(DOMAIN m.heap)]

Claimed(record) == {record.pending[p].object : p \in AllPlaces} \ {Nobody}
Ancestors(m, o) == Reached(m, LAMBDA x : {m.heap[x].parent} \ {Nobody}, {o})
Descendants(m, o) == Reached(m, LAMBDA x : m.heap[x].children, {o})

\* Slip: claims that are not there yet are not followed.
OnlyOwned(m, o) == Descendants(m, o)

OwnedOrClaimed(m, o) == Reached(m, LAMBDA x : m.heap[x].children \cup Claimed(m.heap[x]), {o})

\* Would parent owning child close a circle, now or when a claim is met?
prospective_cycle(m, parent, child) ==
  \/ child \in Ancestors(m, parent)
  \/ m.claims > 0 /\ parent \in OwnedOrClaimed(m, child)

Highest(named) == Max(named \cup {0}) + 1

\* Every object something still names; the next identity is above them.
Named(m) ==
  DOMAIN m.heap
    \cup UNION {Range(m.heap[o].fields) : o \in DOMAIN m.heap}
    \cup {f.object : f \in Range(frames)}
    \cup {c.member : c \in Range(m.calls)}
    \cup {c.claim.recipient : c \in Range(m.calls) \cup Range(m.constructions)}
    \cup {raised.object}

create(m, kind) ==
  [m EXCEPT !.heap = (Highest(Named(m)) :> Record(kind)) @@ @,
            !.roots = @ \cup {Highest(Named(m))}]
Created(m) == Highest(Named(m))

ClaimsOf(m, objects) ==
  MapThenSumSet(LAMBDA o : Cardinality({p \in AllPlaces : m.heap[o].pending[p] # Unclaimed}), objects)

\* Release a record that no root and no owner lists any more, with all it owns.
Destroyed(m, o) ==
  LET gone == Descendants(m, o)
  IN  [m EXCEPT !.heap = [x \in DOMAIN @ \ gone |-> @[x]], !.claims = @ - ClaimsOf(m, gone)]

destroy(m, o) == Destroyed([m EXCEPT !.roots = @ \ {o}], o)

\* Move a root or a child from its keeper to an owner.
Kept(m, o, owner) ==
  LET from == m.heap[o].parent
      taken == IF from = Nobody THEN [m EXCEPT !.roots = @ \ {o}] ELSE [m EXCEPT !.heap[from].children = @ \ {o}]
  IN  [taken EXCEPT !.heap[owner].children = @ \cup {o}, !.heap[o].parent = owner]

(***************************************************************************)
(* Fields: a store cancels the field's claim and releases what it owned.   *)
(***************************************************************************)

\* Slip: the claim outlives the store.
SetKeepingClaim(m, o, p, value) ==
  LET previous == m.heap[o].owned[p]
      detached == [m EXCEPT !.heap[o].owned[p] = Nobody, !.heap[o].children = @ \ {previous}]
      released == IF previous \in {Nobody, value} THEN m ELSE Destroyed(detached, previous)
  IN  [released EXCEPT !.heap[o].fields[p] = value]

set(m, o, p, value) ==
  LET previous == m.heap[o].owned[p]
      withdrawn == [m EXCEPT !.heap[o].pending[p] = Unclaimed,
                             !.claims = @ - IF m.heap[o].pending[p] = Unclaimed THEN 0 ELSE 1]
      detached == [withdrawn EXCEPT !.heap[o].owned[p] = Nobody, !.heap[o].children = @ \ {previous}]
      released == IF previous \in {Nobody, value} THEN withdrawn ELSE Destroyed(detached, previous)
  IN  [released EXCEPT !.heap[o].fields[p] = value]

Own(m, o, owner, p) == [Kept(m, o, owner) EXCEPT !.heap[owner].owned[p] = o]

\* A root, or what an activation or a region keeps, becomes the field's own.
MayOwn(m, o, owner) == Live(m, o) /\ Live(m, owner) /\ ~prospective_cycle(m, owner, o)
assign_owned_value(m, o, owner, p) == Own(set(m, owner, p, o), o, owner, p)

adopt(m, owner, o) == Kept(m, o, owner)

MayMoveRoot(m, owner, o) == MayOwn(m, o, owner) /\ o \in m.roots
move_root_into_field(m, owner, p, o) == assign_owned_value(m, o, owner, p)

\* The child is detached first: what the destination owned may hold the source.
FieldOwner(m, source, p) == m.heap[source].owned[p]
move_field_owner(m, source, p, destination, q) ==
  LET root == FieldOwner(m, source, p)
      detached == [m EXCEPT !.heap[source].owned[p] = Nobody, !.heap[source].children = @ \ {root}]
      stored == set(detached, destination, q, root)
  IN  [stored EXCEPT !.heap[root].parent = destination, !.heap[destination].children = @ \cup {root},
                     !.heap[destination].owned[q] = root]

(***************************************************************************)
(* Constructors.  A published one may have a field or a collection claim   *)
(* its object while it runs; when it ends, however it ends, the claimant   *)
(* becomes the owner, and without one the object goes with its activation. *)
(***************************************************************************)

\* [m |-> with an activation and an object under it, activation |-> ..., object |-> ...]
Begun(m) ==
  LET activation == Created(m)
      active == create(m, "activation")
      made == create(active, "thing")
  IN  [m |-> adopt(made, activation, Created(active)), activation |-> activation, object |-> Created(active)]

begin_construction(m, kind) ==
  LET b == Begun(m)
  IN  [b.m EXCEPT !.constructions =
         Append(@, [kind |-> kind, activation |-> b.activation, object |-> b.object, claim |-> NoClaim])]

ReservationLive(m, claim, o) ==
  /\ Live(m, claim.recipient)
  /\ m.heap[claim.recipient].pending[claim.place] = [object |-> o, revision |-> claim.revision]

Revisions(m) ==
  {m.heap[o].pending[p].revision : o \in DOMAIN m.heap, p \in AllPlaces}
    \cup {c.claim.revision : c \in Range(m.calls) \cup Range(m.constructions)}

Claim(m, o, p) == [recipient |-> o, place |-> p, revision |-> Highest(Revisions(m))]

\* Only an empty field can be claimed, by a construction that has no claim yet.
MayReserve(m, entry, o, recipient, p) ==
  /\ ~ReservationLive(m, entry.claim, o)
  /\ Live(m, recipient) /\ m.heap[recipient].kind # "collection"
  /\ m.heap[recipient].pending[p] = Unclaimed
  /\ m.heap[recipient].owned[p] = Nobody /\ m.heap[recipient].fields[p] = Nobody
  /\ ~prospective_cycle(m, recipient, o)

Reserved(m, o, claim) ==
  [set(m, claim.recipient, claim.place, Nobody) EXCEPT
     !.claims = @ + 1,
     !.heap[claim.recipient].pending[claim.place] = [object |-> o, revision |-> claim.revision]]

\* The claimant becomes the owner; without one the object dies with the activation.
HandedOver(m, o, claim) ==
  IF ~ReservationLive(m, claim, o) THEN m
  ELSE [Own(m, o, claim.recipient, claim.place) EXCEPT
          !.claims = @ - 1,
          !.heap[claim.recipient].pending[claim.place] = Unclaimed,
          !.heap[claim.recipient].fields[claim.place] = o]

\* The program's bookkeeping and the runtime's do not fit, or a release was refused.
Broken(m) == [m EXCEPT !.failed = TRUE]

Dropped(m, root) == IF root \in m.roots THEN destroy(m, root) ELSE Broken(m)
finish_published(m, entry, o) ==
  IF Live(m, o) THEN Dropped(HandedOver(m, o, entry.claim), entry.activation) ELSE Broken(m)

(***************************************************************************)
(* Collections: a member is owned by a private slot, which is a child of   *)
(* the collection.                                                         *)
(***************************************************************************)

Members(m, o) == IF Live(m, o) THEN m.heap[o].members ELSE <<>>
Positions(m, collection, o) == {i \in DOMAIN Members(m, collection) : Members(m, collection)[i].object = o}
IsCollection(m, o) == Live(m, o) /\ m.heap[o].kind = "collection"

MayRegister(m, collection, entry, o) ==
  /\ IsCollection(m, collection) /\ Live(m, o)
  /\ ~ReservationLive(m, entry.claim, o)
  /\ ~prospective_cycle(m, collection, o)

\* The collection with a new slot; the slot's own checks cannot fail after these.
Slotted(m, collection, o) ==
  LET slot == Created(m)
  IN  [adopt(create(m, "slot"), collection, slot) EXCEPT
         !.heap[collection].members = Append(@, [slot |-> slot, object |-> o])]

MayCollect(m, collection, root) ==
  /\ IsCollection(m, collection) /\ Live(m, root)
  /\ m.heap[root].parent = Nobody /\ ~prospective_cycle(m, collection, root)
move_root_into_collection(m, collection, root) ==
  move_root_into_field(Slotted(m, collection, root), Created(m), Held, root)

\* Both edges are looked at: under a call the object is not below its slot.
MayMoveMember(m, source, o, destination) ==
  LET at == Positions(m, source, o)
  IN  /\ Live(m, o) /\ IsCollection(m, destination) /\ IsCollection(m, source)
      /\ at # {} /\ source # destination =>
            /\ ~prospective_cycle(m, destination, m.heap[source].members[Min(at)].slot)
            /\ ~prospective_cycle(m, destination, o)

move_owned_member(m, source, o, destination) ==
  LET at == Positions(m, source, o)
      member == m.heap[source].members[Min(at)]
  IN  IF at = {} \/ source = destination THEN m
      ELSE [Kept(m, member.slot, destination) EXCEPT
              !.heap[source].members = RemoveAt(@, Min(at)),
              !.heap[destination].members = Append(@, member)]

MayRemove(m, collection, o) == Live(m, o) /\ IsCollection(m, collection)
remove_owned_member(m, collection, o) ==
  LET at == Positions(m, collection, o)
      member == m.heap[collection].members[Min(at)]
  IN  IF at = {} THEN m
      ELSE Destroyed([m EXCEPT !.heap[collection].members = RemoveAt(@, Min(at)),
                               !.heap[collection].children = @ \ {member.slot}], member.slot)

(***************************************************************************)
(* Method calls: a member moves to an activation while its method runs,    *)
(* and its slot claims it back.                                            *)
(***************************************************************************)

\* The slot and the collection a completed member is under, or nothing.
SlotOf(m, o) ==
  LET slot == m.heap[o].parent
      collection == IF slot = Nobody THEN Nobody ELSE m.heap[slot].parent
  IN  IF collection # Nobody /\ [slot |-> slot, object |-> o] \in Range(m.heap[collection].members) THEN slot ELSE Nobody

MayCall(m, o) == Live(m, o) /\ (SlotOf(m, o) # Nobody => m.heap[SlotOf(m, o)].owned[Held] = o)

Protected(m, o, slot) ==
  LET claim == Claim(m, slot, Held)
      activation == Created(m)
      moved == Kept(create(m, "activation"), o, activation)
  IN  [moved EXCEPT
         !.heap[slot].owned[Held] = Nobody, !.heap[slot].fields[Held] = Nobody,
         !.heap[slot].pending[Held] = [object |-> o, revision |-> claim.revision],
         !.claims = @ + 1,
         !.calls = Append(@, [member |-> o, activation |-> activation, claim |-> claim])]

\* Slip: the member stays where it is while its method runs.
CallUnprotected(m, o) ==
  [m EXCEPT !.calls = Append(@, [member |-> o, activation |-> Nobody, claim |-> NoClaim])]

begin_member_call(m, o) ==
  IF SlotOf(m, o) = Nobody
  THEN [m EXCEPT !.calls = Append(@, [member |-> o, activation |-> Nobody, claim |-> NoClaim])]
  ELSE Protected(m, o, SlotOf(m, o))

finish_call(m, call) ==
  IF call.activation = Nobody THEN m ELSE finish_published(m, call, call.member)

(***************************************************************************)
(* Scopes.  A checkpoint remembers how much of everything there was.       *)
(***************************************************************************)

CheckpointIds(m) ==
  {mark.id : mark \in Range(m.marks)} \cup {r.frame : r \in m.returned} \cup {e.scope : e \in m.exceptions}

begin_scope(m) ==
  [m EXCEPT !.marks = Append(@, [id |-> Highest(CheckpointIds(m)), constructions |-> Len(m.constructions),
                                 calls |-> Len(m.calls), locals |-> Len(m.locals)])]
Begin(m) == Highest(CheckpointIds(m))
LastMark(m) == Last(m.marks)
HasConstruction(m) == m.marks # <<>> /\ LastMark(m).constructions < Len(m.constructions)

\* Empty entries have nothing to release.
Trimmed(m, mark) ==
  [m EXCEPT !.calls = SubSeq(@, 1, Max({mark.calls} \cup {i \in DOMAIN @ : @[i].activation # Nobody})),
            !.locals = SubSeq(@, 1, Max({mark.locals} \cup {i \in DOMAIN @ : @[i] # Nobody}))]

\* The last of each stack that the scope still holds, with when it was made.
Holding(m, mark) ==
  LET last(kind, beyond, identity) == IF beyond THEN {[kind |-> kind, identity |-> identity]} ELSE {}
  IN  last("construction", Len(m.constructions) > mark.constructions, Last(m.constructions).object)
        \cup last("call", Len(m.calls) > mark.calls, Last(m.calls).activation)
        \cup last("local", Len(m.locals) > mark.locals, Last(m.locals))

Aborted(m, c) == IF c.kind = "published" THEN finish_published(m, c, c.object) ELSE Dropped(m, c.activation)

ReleaseLatest(r, mark) ==
  LET m == Trimmed(r, mark)
      holding == Holding(m, mark)
      kind == (CHOOSE h \in holding : \A g \in holding : g.identity <= h.identity).kind
  IN  IF holding = {} THEN m
      ELSE CASE kind = "construction" -> Aborted([m EXCEPT !.constructions = Front(@)], Last(m.constructions))
             [] kind = "call" -> finish_call([m EXCEPT !.calls = Front(@)], Last(m.calls))
             [] kind = "local" -> Dropped([m EXCEPT !.locals = Front(@)], Last(m.locals))

Fits(m, mark) ==
  Len(m.constructions) >= mark.constructions /\ Len(m.calls) >= mark.calls /\ Len(m.locals) >= mark.locals

\* One scope: the latest made goes first, whatever stack it is on, then the scope's exception.
Unwound(m, index) ==
  LET mark == m.marks[index]
      most == 1 + Len(m.constructions) + Len(m.calls) + Len(m.locals)
      released == FoldLeft(LAMBDA r, i : ReleaseLatest(r, mark), m, [i \in 1 .. most |-> i])
      handled == {e \in released.exceptions : e.scope = mark.id}
      silent == FoldSet(LAMBDA e, r : Dropped(r, e.activation), released, handled)
  IN  IF ~Fits(m, mark) THEN Broken(m)
      ELSE [silent EXCEPT !.exceptions = @ \ handled, !.marks = SubSeq(@, 1, index - 1)]

Indices(m, id) == {i \in DOMAIN m.marks : m.marks[i].id = id}
unwind_scope(m, id) ==
  IF Indices(m, id) = {} THEN Broken(m)
  ELSE FoldLeft(LAMBDA r, i : Unwound(r, Len(r.marks)), m, [i \in 1 .. Len(m.marks) - Min(Indices(m, id)) + 1 |-> i])
\* Operation 64 takes the latest scope and no other, 65 every one down to the named.
end_scope(m, id) == IF m.marks = <<>> \/ LastMark(m).id # id THEN Broken(m) ELSE Unwound(m, Len(m.marks))

(***************************************************************************)
(* Exceptions, local owners and owners that a function returns.            *)
(***************************************************************************)

finish_exception(m) ==
  LET c == Last(m.constructions)
  IN  [m EXCEPT !.constructions = Front(@),
                !.exceptions = @ \cup {[activation |-> c.activation, object |-> c.object, scope |-> Nobody]}]

\* The activation that owns a thrown object, if it is one an exception has.
Token(m, o) == IF \E e \in m.exceptions : e.object = o THEN (CHOOSE e \in m.exceptions : e.object = o).activation ELSE Nobody
InScope(m, token, scope) ==
  [m EXCEPT !.exceptions = {IF e.activation = token THEN [e EXCEPT !.scope = scope] ELSE e : e \in @}]

\* Slip: a thrown exception stays with the scope that handles it.
ThrownHandled(m, o) == m

thrown(m, o) == InScope(m, Token(m, o), Nobody)

\* A handler claims its exception first, in a scope that holds nothing yet.
claim_exception(m, token) ==
  LET mark == LastMark(m)
  IN  IF token = Nobody THEN m
      ELSE IF /\ \E e \in m.exceptions : e.activation = token /\ e.scope = Nobody
              /\ \A e \in m.exceptions : e.scope # mark.id
              /\ Len(m.constructions) = mark.constructions /\ Len(m.calls) = mark.calls /\ Len(m.locals) = mark.locals
           THEN InScope(m, token, mark.id) ELSE Broken(m)

\* A finalizer gives its exception back, unless it threw it itself and handled it.
MayDetach(m, token) == token = Nobody \/ \E e \in m.exceptions : e.activation = token /\ e.scope # Nobody
detach_exception(m, token) == InScope(m, token, Nobody)

\* The object takes its activation's place among the roots, and the latest scope lists it.
finish_local(m) ==
  LET c == Last(m.constructions)
  IN  Destroyed([m EXCEPT !.constructions = Front(@), !.heap[c.activation].children = @ \ {c.object},
                          !.heap[c.object].parent = Nobody,
                          !.roots = (@ \ {c.activation}) \cup {c.object}, !.locals = Append(@, c.object)],
                c.activation)

Entries(m, root) == {i \in DOMAIN m.locals : m.locals[i] = root}
\* Slip: the entry of a local that was given away stays.
GivenAndKept(m, root) == m

Given(m, root) == [m EXCEPT !.locals[Max(Entries(m, root))] = Nobody]

MayReturn(m, o, mark) ==
  /\ Live(m, o) /\ Entries(m, o) # {}
  /\ \E i \in Indices(m, mark) : Max(Entries(m, o)) > m.marks[i].locals
move_return(m, o, mark) == [Given(m, o) EXCEPT !.returned = @ \cup {[object |-> o, frame |-> mark]}]

\* The caller takes what was returned, or, when it did not ask for an owner, releases it and fails.
claim_return(m, o, wanted) ==
  LET owner == CHOOSE r \in m.returned : r.object = o
      taken == [m EXCEPT !.returned = @ \ {owner}]
  IN  IF \A r \in m.returned : r.object # o \/ Indices(m, r.frame) # {} THEN Broken(m)
      ELSE IF ~wanted THEN Dropped(taken, o)
      ELSE IF m.marks = <<>> \/ ~Live(m, o) THEN Broken(m)
      ELSE [taken EXCEPT !.locals = Append(@, o)]

(***************************************************************************)
(* The program: functions and methods with a scope of their own, try and   *)
(* finally, constructors, and what it does with owners in between.         *)
(***************************************************************************)

Calm == [kind |-> "no", object |-> Nobody, token |-> Nobody]
Failure == [Calm EXCEPT !.kind = "error"]
Thrown(o, token) == [kind |-> "thrown", object |-> o, token |-> token]

Frame(kind, o, scope) ==
  [kind |-> kind, object |-> o, scope |-> scope, into |-> [to |-> "nothing", owner |-> Nobody, place |-> Held],
   pending |-> Calm]
Top == Last(frames)

\* What the program can name: no private slot and no activation.
Things == {o \in DOMAIN own.heap : own.heap[o].kind \in {"thing", "collection"}}
Collections == {o \in Things : own.heap[o].kind = "collection"}

Uses(operation, records) ==
  /\ raised = Calm /\ frames # <<>> /\ operation \in allowed /\ steps > 0
  /\ Top.kind \notin {"owned", "published"} \/ operation = "call"
  /\ Cardinality(DOMAIN own.heap) + records <= MaxRecords
  /\ steps' = steps - 1 /\ UNCHANGED allowed

\* An operation that may refuse: the program goes on, or fails.
Does(may, m) == IF may THEN own' = m /\ UNCHANGED raised ELSE own' = own /\ raised' = Failure

Pushes(m, frame) == own' = m /\ frames' = Append(frames, frame) /\ UNCHANGED raised

Enter ==
  \E kind \in {"function", "try", "guarded"} :
    /\ Uses(kind, 0) /\ Len(frames) < MaxFrames
    /\ Pushes(begin_scope(own), Frame(kind, Nobody, Begin(own)))

\* A method, a constructor among them: operation 55, then the method's own scope.
Call ==
  \E o \in Things \cup {Nobody} :
    /\ Uses("call", 1) /\ Len(frames) < MaxFrames
    /\ Top.kind \in {"owned", "published"} => o = Top.object
    /\ IF MayCall(own, o)
       THEN Pushes(begin_scope(begin_member_call(own, o)), Frame("call", o, Begin(own)))
       ELSE own' = own /\ raised' = Failure /\ UNCHANGED frames

Destinations ==
  [to : {"local", "throw"}, owner : {Nobody}, place : {Held}] \cup [to : {"field"}, owner : Things, place : PropertyIds]

Construct ==
  /\ Len(frames) < MaxFrames
  /\ \/ \E into \in Destinations :
          /\ Uses(into.to, 2)
          /\ Pushes(begin_construction(own, "owned"), [Frame("owned", Created(create(own, "activation")), Nobody) EXCEPT !.into = into])
     \/ /\ Uses("publish", 2)
        /\ Pushes(begin_construction(own, "published"), Frame("published", Created(create(own, "activation")), Nobody))

Popped(m) == [m EXCEPT !.constructions = Front(@)]

\* Operation 44: the field's own from now on, or released.
finish_construction(m, c, into) ==
  IF MayOwn(m, c.object, into.owner)
  THEN destroy(assign_owned_value(Popped(m), c.object, into.owner, into.place), c.activation)
  ELSE destroy(Popped(m), c.activation)

FinishOwned ==
  /\ raised = Calm /\ frames # <<>> /\ Top.kind = "owned"
  /\ frames' = Front(frames) /\ UNCHANGED <<steps, allowed>>
  /\ LET c == Last(own.constructions)
     IN  \/ /\ Top.into.to = "field" /\ own' = finish_construction(own, c, Top.into)
            /\ raised' = IF MayOwn(own, c.object, Top.into.owner) THEN raised ELSE Failure
         \/ /\ Top.into.to = "local" /\ own' = finish_local(own) /\ UNCHANGED raised
         \/ /\ Top.into.to = "throw" /\ own' = thrown(finish_exception(own), c.object)
            /\ raised' = Thrown(c.object, c.activation)

FinishPublished ==
  /\ raised = Calm /\ frames # <<>> /\ Top.kind = "published"
  /\ own' = finish_published(Popped(own), Last(own.constructions), Top.object)
  /\ frames' = Front(frames) /\ UNCHANGED <<raised, steps, allowed>>

\* The activation a claim may be made for: the method that runs on a withdrawn member, for a
\* collection, or else the published constructor.
Running(o) == {i \in DOMAIN own.calls : own.calls[i].member = o /\ own.calls[i].activation # Nobody}
Constructing(o) == {i \in DOMAIN own.constructions : own.constructions[i].object = o}

Reserve ==
  \E o, recipient \in Things, p \in PropertyIds :
    /\ Uses("reserve", 0) /\ UNCHANGED frames
    /\ LET i == Max(Constructing(o))
           claim == Claim(own, recipient, p)
       IN  Does(/\ Constructing(o) # {} /\ own.constructions[i].kind = "published"
                /\ MayReserve(own, own.constructions[i], o, recipient, p),
                [Reserved(own, o, claim) EXCEPT !.constructions[i].claim = claim])

Register ==
  \E o \in Things, collection \in Collections :
    /\ Uses("register", 1) /\ UNCHANGED frames
    /\ LET slot == Claim(own, Created(own), Held)
           slotted == Slotted(own, collection, o)
       IN  IF Running(o) # {}
           THEN LET i == Max(Running(o))
                IN  Does(MayRegister(own, collection, own.calls[i], o),
                         [Reserved(slotted, o, slot) EXCEPT !.calls[i].claim = slot])
           ELSE LET i == Max(Constructing(o))
                IN  Does(/\ Constructing(o) # {} /\ own.constructions[i].kind = "published"
                         /\ MayRegister(own, collection, own.constructions[i], o),
                         [Reserved(slotted, o, slot) EXCEPT !.constructions[i].claim = slot])

RemoveMember ==
  \E o \in Things, collection \in Collections :
    /\ Uses("remove", 0) /\ UNCHANGED frames
    /\ Does(MayRemove(own, collection, o), remove_owned_member(own, collection, o))

Store ==
  \E o \in Things, p \in PropertyIds, value \in Things \cup {Nobody} :
    /\ Uses("store", 0) /\ UNCHANGED frames
    /\ Does(TRUE, set(own, o, p, value))

LocalCollection ==
  /\ Uses("collection", 1) /\ UNCHANGED frames
  /\ Does(own.marks # <<>>, [create(own, "collection") EXCEPT !.locals = Append(@, Created(own))])

FunctionAt == Max({i \in DOMAIN frames : frames[i].kind \in {"function", "call"}})

\* Only a local of the function that is running can be given away (sema.rs).
MoveLocal ==
  \E root, owner \in Things :
    /\ UNCHANGED frames
    /\ Entries(own, root) = {} \/ MayReturn(own, root, frames[FunctionAt].scope)
    /\ \/ \E p \in PropertyIds :
            /\ Uses("to field", 0)
            /\ Does(Entries(own, root) # {} /\ MayMoveRoot(own, owner, root),
                    Given(move_root_into_field(own, owner, p, root), root))
       \/ /\ Uses("to collection", 1)
          /\ Does(Entries(own, root) # {} /\ MayCollect(own, owner, root),
                  Given(move_root_into_collection(own, owner, root), root))

MoveMember ==
  \E o \in Things, source, destination \in Collections :
    /\ Uses("move member", 0) /\ UNCHANGED frames
    /\ Does(MayMoveMember(own, source, o, destination), move_owned_member(own, source, o, destination))

MoveField ==
  \E source, destination \in Things, p, q \in PropertyIds :
    /\ Uses("move field", 0) /\ UNCHANGED frames
    /\ LET root == FieldOwner(own, source, p)
       IN  IF root = Nobody \/ <<source, p>> = <<destination, q>> THEN Does(TRUE, own)
           ELSE Does(~prospective_cycle(own, destination, root), move_field_owner(own, source, p, destination, q))

Throw ==
  \E o \in Things :
    /\ Uses("throw", 0) /\ UNCHANGED frames
    /\ own' = thrown(own, o) /\ raised' = Thrown(o, Token(own, o))

(***************************************************************************)
(* Leaving: a function's scope is unwound however it is left; what try and *)
(* finally opened ends in its own way; an error stops at nothing else.     *)
(***************************************************************************)

Inside(kinds) == \E i \in FunctionAt .. Len(frames) : frames[i].kind \in kinds

\* Operation 56, when the method has returned or thrown.
finish_member_call(m, o) ==
  IF m.calls = <<>> \/ Last(m.calls).member # o THEN Broken(m)
  ELSE finish_call([m EXCEPT !.calls = Front(@)], Last(m.calls))

Left(m, frame) ==
  LET unwound == unwind_scope(m, frame.scope)
  IN  IF frame.kind = "call" THEN finish_member_call(unwound, frame.object) ELSE unwound

Return ==
  /\ raised = Calm /\ frames # <<>> /\ Top.kind \notin {"owned", "published"} /\ ~Inside({"guarded"})
  /\ own' = Left(own, frames[FunctionAt]) /\ frames' = SubSeq(frames, 1, FunctionAt - 1)
  /\ UNCHANGED <<raised, steps, allowed>>

ReturnMove ==
  \E o \in Things, wanted \in BOOLEAN :
    /\ Uses("return", 0) /\ FunctionAt > 1 /\ ~Inside({"guarded", "finalizer"})
    /\ LET frame == frames[FunctionAt]
       IN  IF MayReturn(own, o, frame.scope)
           THEN /\ own' = claim_return(Left(move_return(own, o, frame.scope), frame), o, wanted)
                /\ frames' = SubSeq(frames, 1, FunctionAt - 1)
                /\ raised' = IF wanted THEN Calm ELSE Failure
           ELSE own' = own /\ raised' = Failure /\ UNCHANGED frames

\* The end of a try, of a handler and of a finalizer that was entered for an exception or without.
EndOfScope ==
  /\ raised = Calm /\ frames # <<>> /\ UNCHANGED <<steps, allowed>>
  /\ \/ /\ Top.kind \in {"try", "handler"} /\ frames' = Front(frames)
        /\ own' = end_scope(own, Top.scope) /\ UNCHANGED raised
     \/ /\ Top.kind = "guarded"
        /\ LET unwound == unwind_scope(own, Top.scope)
           IN  own' = begin_scope(unwound) /\ frames' = Append(Front(frames), Frame("finalizer", Nobody, Begin(unwound)))
        /\ UNCHANGED raised
     \/ /\ Top.kind = "finalizer"
        /\ IF MayDetach(own, Top.pending.token)
           THEN /\ own' = end_scope(detach_exception(own, Top.pending.token), Top.scope)
                /\ frames' = Front(frames) /\ raised' = Top.pending
           ELSE raised' = Failure /\ UNCHANGED <<own, frames>>

\* What is raised meets the latest frame.
Raised ==
  /\ raised # Calm /\ frames # <<>> /\ UNCHANGED <<steps, allowed>>
  /\ \/ /\ Top.kind \in {"owned", "published"} \/ (raised.kind = "error" /\ Top.kind \notin {"function", "call"})
        /\ frames' = Front(frames) /\ UNCHANGED <<own, raised>>
     \/ /\ Top.kind \in {"function", "call"}
        /\ own' = Left(own, Top) /\ frames' = Front(frames) /\ UNCHANGED raised
     \/ /\ raised.kind = "thrown" /\ Top.kind \in {"handler", "finalizer"}
        /\ own' = end_scope(own, Top.scope) /\ frames' = Front(frames) /\ UNCHANGED raised
     \/ /\ raised.kind = "thrown" /\ Top.kind = "guarded"
        /\ LET unwound == unwind_scope(own, Top.scope)
           IN  /\ own' = claim_exception(begin_scope(unwound), raised.token)
               /\ frames' = Append(Front(frames), [Frame("finalizer", Nobody, Begin(unwound)) EXCEPT !.pending = raised])
        /\ raised' = Calm
     \/ /\ raised.kind = "thrown" /\ Top.kind = "try"
        /\ LET ended == end_scope(own, Top.scope)
           IN  \/ /\ Live(ended, raised.object)          \* a clause takes it
                  /\ own' = claim_exception(begin_scope(ended), raised.token)
                  /\ frames' = Append(Front(frames), Frame("handler", Nobody, Begin(ended))) /\ raised' = Calm
               \/ /\ own' = ended /\ frames' = Front(frames)  \* none does, or the object is gone
                  /\ raised' = IF Live(ended, raised.object) THEN raised ELSE Failure

(***************************************************************************)
(* A game with one object, whose fields own a collection each, or all but  *)
(* one of them do; main has begun.                                         *)
(***************************************************************************)

World(collections) ==
  LET game == [Record("thing") EXCEPT
                 !.children = Range(collections),
                 !.fields = [p \in AllPlaces |-> IF p \in DOMAIN collections THEN collections[p] ELSE Nobody],
                 !.owned = [p \in AllPlaces |-> IF p \in DOMAIN collections THEN collections[p] ELSE Nobody]]
  IN  (1 :> game) @@ [c \in Range(collections) |-> [Record("collection") EXCEPT !.parent = 1]]

\* Which field is which does not matter.
Furnished ==
  {CHOOSE f \in [fields -> 2 .. Cardinality(fields) + 1] : IsInjective(f) :
     fields \in {PropertyIds, PropertyIds \ {CHOOSE p \in PropertyIds : TRUE}}}

Untouched(collections) ==
  [heap |-> World(collections), roots |-> {1}, claims |-> 0, constructions |-> <<>>, calls |-> <<>>,
   locals |-> <<>>, returned |-> {}, exceptions |-> {}, failed |-> FALSE, marks |-> <<>>]

\* Where nothing runs.
OwnersAtRest ==
  own = Untouched(<<>>) /\ frames = <<>> /\ raised = Calm /\ steps = 0 /\ allowed = {}

OwnersInit ==
  /\ \E collections \in Furnished : own = begin_scope(Untouched(collections))
  /\ frames = <<Frame("function", Nobody, 1)>> /\ raised = Calm
  /\ \E r \in Repertoires : allowed = r.uses /\ steps = r.steps

OwnersNext ==
  \/ Enter \/ Call \/ Construct \/ FinishOwned \/ FinishPublished
  \/ Reserve \/ Register \/ RemoveMember \/ Store
  \/ LocalCollection \/ MoveLocal \/ MoveMember \/ MoveField
  \/ Throw \/ Return \/ ReturnMove \/ EndOfScope \/ Raised

OwnersSpec == OwnersInit /\ [][OwnersNext]_ownVars

(***************************************************************************)
(* Properties.                                                             *)
(***************************************************************************)

(***************************************************************************)
(* Everything that lives is kept by exactly one: a root by nobody, any     *)
(* other record by the one that lists it, once, as a field's own, a slot   *)
(* or what an activation runs on; and the roots are the game, the          *)
(* activations, the local entries, what is being returned and the          *)
(* exceptions, each once, so nothing is left behind or released twice.     *)
(***************************************************************************)
Holders(o) ==
  Cardinality({i \in DOMAIN own.constructions : own.constructions[i].activation = o})
    + Cardinality({i \in DOMAIN own.calls : own.calls[i].activation = o})
    + Cardinality({i \in DOMAIN own.locals : own.locals[i] = o})
    + Cardinality({r \in own.returned : r.object = o})
    + Cardinality({e \in own.exceptions : e.activation = o})
    + (IF o = 1 THEN 1 ELSE 0)

KeptOnce ==
  /\ \A o \in DOMAIN own.heap :
       LET record == own.heap[o]
       IN  /\ o \in own.roots <=> record.parent = Nobody
           /\ \A c \in record.children : Live(own, c) /\ own.heap[c].parent = o
           /\ record.parent # Nobody => Live(own, record.parent) /\ o \in own.heap[record.parent].children
           /\ \A p \in AllPlaces : record.owned[p] # Nobody =>
                /\ record.owned[p] \in record.children /\ record.fields[p] = record.owned[p]
                /\ \A q \in AllPlaces \ {p} : record.owned[q] # record.owned[p]
  /\ \A o \in own.roots : Live(own, o) /\ Holders(o) = 1
  /\ Cardinality(own.roots) = 1 + Len(own.constructions) + Cardinality({i \in DOMAIN own.calls : own.calls[i].activation # Nobody})
                                + Cardinality({i \in DOMAIN own.locals : own.locals[i] # Nobody})
                                + Cardinality(own.returned) + Cardinality(own.exceptions)

(***************************************************************************)
(* Ownership never closes a circle, not even when every claim is met:      *)
(* objects.rs looks for circles before each transfer, through claims too.  *)
(***************************************************************************)
NoCircle ==
  \A o \in DOMAIN own.heap :
    o \notin Reached(own, LAMBDA x : own.heap[x].children \cup Claimed(own.heap[x]),
                     own.heap[o].children \cup Claimed(own.heap[o]))

(***************************************************************************)
(* A claim is honoured or withdrawn, never broken: it names an object that *)
(* lives under the activation of a construction or call that knows of it,  *)
(* no other claim names that object, and a member listed by a collection   *)
(* is owned or claimed by its slot.  The counter counts them.              *)
(***************************************************************************)
ClaimsHold ==
  /\ own.claims = ClaimsOf(own, DOMAIN own.heap)
  /\ \A o \in DOMAIN own.heap, p \in AllPlaces :
       LET claim == own.heap[o].pending[p]
       IN  claim # Unclaimed =>
             /\ own.heap[o].owned[p] = Nobody /\ own.heap[o].fields[p] = Nobody
             /\ \E c \in Range(own.constructions) \cup Range(own.calls) :
                  /\ c.claim = [recipient |-> o, place |-> p, revision |-> claim.revision]
                  /\ Live(own, claim.object) /\ own.heap[claim.object].parent = c.activation
             /\ \A x \in DOMAIN own.heap, q \in AllPlaces :
                  <<x, q>> # <<o, p>> => own.heap[x].pending[q].object # claim.object
  /\ \A c \in DOMAIN own.heap : \A m \in Range(own.heap[c].members) :
       /\ Live(own, m.slot) /\ own.heap[m.slot].parent = c
       /\ m.object \in {own.heap[m.slot].owned[Held], own.heap[m.slot].pending[Held].object}

(***************************************************************************)
(* What a method or a constructor runs on is there until it has ended,     *)
(* whatever it does to the fields and collections it can reach: an object  *)
(* under construction stays with its activation, and so does a member from *)
(* operation 55 to 56, since no slot may own it then.  A local owner that  *)
(* a callee could give away would break this: sema.rs refuses it.          *)
(***************************************************************************)
LivesWhileRunning ==
  /\ \A c \in Range(own.constructions) : Live(own, c.object) /\ own.heap[c.object].parent = c.activation
  /\ \A c \in Range(own.calls) : c.activation # Nobody => Live(own, c.member) /\ own.heap[c.member].parent = c.activation
  /\ \A f \in Range(frames) : f.kind = "call" /\ f.object # Nobody =>
       \A collection \in DOMAIN own.heap : \A member \in Range(own.heap[collection].members) :
         member.object = f.object => own.heap[member.slot].owned[Held] # f.object

(***************************************************************************)
(* Whatever is thrown or fails, the scopes of the program and those of the *)
(* runtime match, every release on the way succeeds, and when main is left *)
(* only the game remains, with the exception that nobody handled.          *)
(***************************************************************************)
LeavesNothing ==
  /\ ~own.failed
  /\ frames = <<>> =>
       /\ own.constructions = <<>> /\ own.calls = <<>> /\ own.locals = <<>> /\ own.marks = <<>> /\ own.returned = {}
       /\ own.roots \ {1} = {e.activation : e \in own.exceptions}
       /\ {e.activation : e \in own.exceptions} \subseteq {raised.token}
=============================================================================
