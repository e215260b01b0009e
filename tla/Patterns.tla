------------------------------ MODULE Patterns ------------------------------
(***************************************************************************)
(* The compiled patterns of a session (native_objects.rs): a bounded cache *)
(* that texts are found in, and RexPattern objects that name an entry of   *)
(* it. A pattern stands for its own text here; Regex says how it matches.  *)
(***************************************************************************)
EXTENDS Naturals, Sequences
LOCAL INSTANCE SequencesExt

CONSTANTS Texts, Objects, CacheLimit, Nothing

VARIABLES patterns,        \* the cache, oldest first
          pattern_objects, \* the entry each object names, 0 before it is made
          meant,           \* the text each object was compiled from
          used             \* the pattern the last request matched with, and the one it asked for

patternVars == <<patterns, pattern_objects, meant, used>>

(***************************************************************************)
(* pattern: the entry of a text, made if there is none; the oldest goes    *)
(* when the cache is full.                                                 *)
(***************************************************************************)
Cached(text) == Contains(patterns, text)

Compiled(text) ==
  IF Cached(text) THEN patterns
  ELSE Append(IF Len(patterns) >= CacheLimit THEN Tail(patterns) ELSE patterns, text)

Index(cache, text) == CHOOSE n \in DOMAIN cache : cache[n] = text

(***************************************************************************)
(* The requests: 6 makes an object, the others match a text or an object.  *)
(***************************************************************************)
Compile(o, text) ==
  /\ pattern_objects[o] = 0
  /\ patterns' = Compiled(text)
  /\ pattern_objects' = [pattern_objects EXCEPT ![o] = Index(patterns', text)]
  /\ meant' = [meant EXCEPT ![o] = text]
  /\ UNCHANGED used

MatchText(text) ==
  /\ patterns' = Compiled(text)
  /\ used' = [by |-> patterns'[Index(patterns', text)], asked |-> text]
  /\ UNCHANGED <<pattern_objects, meant>>

MatchObject(o) ==
  /\ pattern_objects[o] # 0
  /\ used' = [by |-> patterns[pattern_objects[o]], asked |-> meant[o]]
  /\ UNCHANGED <<patterns, pattern_objects, meant>>

\* A restore, or a new session: every entry goes, and every object's name for one.
Clear ==
  /\ patterns' = <<>>
  /\ pattern_objects' = [o \in Objects |-> 0]
  /\ UNCHANGED <<meant, used>>

PatternsInit ==
  /\ patterns = <<>>
  /\ pattern_objects = [o \in Objects |-> 0]
  /\ meant = [o \in Objects |-> Nothing]
  /\ used = [by |-> Nothing, asked |-> Nothing]

PatternsNext ==
  \/ \E o \in Objects : MatchObject(o) \/ \E text \in Texts : Compile(o, text)
  \/ \E text \in Texts : MatchText(text)
  \/ Clear

PatternsSpec == PatternsInit /\ [][PatternsNext]_patternVars

(***************************************************************************)
(* A request matches with the pattern it was given: "Resolve a pattern     *)
(* argument: a compiled `RexPattern` object, or text." (native_objects.rs  *)
(* compiled).                                                              *)
(***************************************************************************)
Resolves == used.by = used.asked
=============================================================================
