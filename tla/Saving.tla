-------------------------------- MODULE Saving --------------------------------
(***************************************************************************)
(* Saving and restoring the object store (save.rs, objects/persistence.rs, *)
(* and the persistence request of op 140 in native_objects.rs). An image   *)
(* names a record by its slot; a restore gives every record of the image   *)
(* one identity that is newer than any the image or the running store has  *)
(* used. Relations are saved in Relations.                                 *)
(***************************************************************************)
EXTENDS Objects

RestoreRefused == [refused |-> TRUE]

(***************************************************************************)
(* What is written: the World records, with every reference to anything    *)
(* else as nil.                                                            *)
(***************************************************************************)
\* op 140: no frame, no handler, nothing recorded.
Savable ==
  /\ heap.status = "live" /\ phase \in {"open", "failed"}
  /\ journal = <<>> /\ containers = <<>>
  /\ constructions = <<>> /\ exceptions = {}

incarnation_ceiling(h) == Max({0, h.next_identity - 1} \cup {r.born : r \in Range(h.records)})

saved_value(h, v) == IF World(h, v) THEN v.slot ELSE Nil

saved_key(h, k) == IF k \in Keys THEN k ELSE k.slot

saved_elements(h, r) ==
  IF r.kind # "table" THEN [n \in DOMAIN r.elements |-> saved_value(h, r.elements[n])]
  ELSE LET kept == {k \in DOMAIN r.elements : k \in Keys \/ World(h, k)}
       IN  [w \in {saved_key(h, k) : k \in kept} |->
              saved_value(h, r.elements[CHOOSE k \in kept : saved_key(h, k) = w])]

write_record(h, r) ==
  [kind |-> r.kind, prototypes |-> r.prototypes, capacity |-> r.capacity,
   parent |-> saved_value(h, r.parent),
   properties |-> [p \in DOMAIN r.properties |-> saved_value(h, r.properties[p])],
   owned |-> [p \in {q \in DOMAIN r.owned : World(h, r.owned[q])} |-> r.owned[p].slot],
   children |-> {c.slot : c \in {x \in r.children : World(h, x)}},
   elements |-> saved_elements(h, r)]

write_world(h) ==
  [ceiling |-> incarnation_ceiling(h),
   records |-> [s \in {x \in DOMAIN h.records : h.records[x].lifetime = "World"} |->
                  write_record(h, h.records[s])]]

(***************************************************************************)
(* What is read: an image that is not a world is refused as a whole.       *)
(***************************************************************************)
\* Slip: the records come back under the newest identity the store has used.
IncarnationAgain(image, current) == Max({image.ceiling, incarnation_ceiling(current)})

Incarnation(image, current) == Max({image.ceiling, incarnation_ceiling(current)}) + 1

\* Every owner is named by its children, once, and by no cycle.
OwnersAgree(rs) ==
  LET above[n \in 0..Cardinality(DOMAIN rs)] ==  \* those with more than n owners above them
        {s \in DOMAIN rs : rs[s].parent # Nil /\ (n = 0 \/ rs[s].parent \in above[n - 1])}
  IN /\ above[Cardinality(DOMAIN rs)] = {}
     /\ \A s \in DOMAIN rs : \A c \in rs[s].children : rs[c].parent = s
     /\ \A s \in DOMAIN rs : \A c \in Range(rs[s].owned) : rs[c].parent = s
     /\ \A s \in DOMAIN rs : rs[s].parent # Nil => s \in rs[rs[s].parent].children

\* Every reference is to a record of the image, and every owned field is a field.
Named(rs) ==
  \A s \in DOMAIN rs :
    /\ ({rs[s].parent} \cup Range(rs[s].properties) \cup Range(rs[s].elements))
         \subseteq DOMAIN rs \cup {Nil}
    /\ rs[s].children \cup Range(rs[s].owned) \subseteq DOMAIN rs
    /\ DOMAIN rs[s].owned \subseteq DOMAIN rs[s].properties
    /\ rs[s].kind = "vector" => Cardinality(DOMAIN rs[s].elements) <= rs[s].capacity

read_record(r, born) ==
  LET named(s) == IF s = Nil THEN Nil ELSE [slot |-> s, born |-> born]
      key(w) == IF w \in Keys THEN w ELSE named(w)
      keys == IF r.kind = "table" THEN {key(w) : w \in DOMAIN r.elements}
              ELSE DOMAIN r.elements
      word(k) == IF r.kind = "table" /\ k \notin Keys THEN k.slot ELSE k
  IN [born |-> born, lifetime |-> "World", kind |-> r.kind, parent |-> named(r.parent),
      children |-> {named(c) : c \in r.children},
      properties |-> [p \in DOMAIN r.properties |-> named(r.properties[p])],
      owned |-> [p \in DOMAIN r.owned |-> named(r.owned[p])],
      elements |-> [k \in keys |-> named(r.elements[word(k)])],
      capacity |-> r.capacity, prototypes |-> r.prototypes]

world_of(image, born) ==
  [records |-> [s \in DOMAIN image.records |-> read_record(image.records[s], born)],
   roots |-> {[slot |-> s, born |-> born] :
                s \in {x \in DOMAIN image.records : image.records[x].parent = Nil}},
   free |-> {},
   next_identity |-> Max(DOMAIN image.records \cup {born}) + 1,
   charged |-> 0, status |-> "live"]

read_world(image, current) ==
  LET born == Incarnation(image, current)
      world == world_of(image, born)
      charged == Total(world)
  IN IF \/ born > MaxIdentity
        \/ Cardinality(DOMAIN image.records) > ObjectLimit
        \/ ~Named(image.records) \/ ~OwnersAgree(image.records)
        \/ charged > PropertyLimit
     THEN RestoreRefused
     ELSE [world EXCEPT !.charged = charged]

(***************************************************************************)
(* The world that is saved at a command can be restored, into the store    *)
(* that wrote it, whatever the game did before, as long as identities are  *)
(* left: the same records with the same fields, elements, owners and room, *)
(* references to what was not saved as nil, a counter that is right and    *)
(* another image like the first; and no reference the game held before     *)
(* names anything in it (save.rs encode, decode; persistence.rs            *)
(* write_world, read_world).                                               *)
(***************************************************************************)
SameRecord(h, g, r, q) ==
  LET now(v) == IF World(h, v) THEN HandleAt(g, v.slot) ELSE Nil
  IN /\ q.kind = r.kind /\ q.prototypes = r.prototypes /\ q.capacity = r.capacity
     /\ q.parent = now(r.parent)
     /\ q.children = {now(c) : c \in r.children} \ {Nil}
     /\ DOMAIN q.properties = DOMAIN r.properties
     /\ \A p \in DOMAIN r.properties : q.properties[p] = now(r.properties[p])
     /\ \A k \in DOMAIN r.elements :
          IF r.kind # "table" \/ k \in Keys THEN q.elements[k] = now(r.elements[k])
          ELSE World(h, k) => q.elements[now(k)] = now(r.elements[k])

RestoreExact ==
  Savable =>
    \A image \in {write_world(heap)} : \A g \in {read_world(image, heap)} :
      IF g = RestoreRefused THEN image.ceiling >= MaxIdentity
      ELSE /\ DOMAIN g.records = DOMAIN image.records
           /\ \A s \in DOMAIN g.records :
                SameRecord(heap, g, heap.records[s], g.records[s])
           /\ g.charged <= heap.charged
           /\ \A o \in LiveHandles(heap) : ~Live(g, o)
           /\ \A r \in Range(heap.records) : \A v \in Held(r) : ~Live(g, v)
           /\ write_world(g).records = image.records
=============================================================================
