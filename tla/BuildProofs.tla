----------------------------- MODULE BuildProofs -----------------------------
(***************************************************************************)
(* Proofs about three parts of the compiler driver that share nothing.     *)
(* RuntimeCache: for any number of builders and of builds, and whatever    *)
(* publishers, restorers and evictions do to one entry.  Supervisor: for   *)
(* any limit of output, with a deadline or without, and whatever the child *)
(* and its helper do.  Charges: for any entries, tables, frames and        *)
(* budgets, and for any text that the check accepts, calls stay within     *)
(* what is granted.                                                        *)
(***************************************************************************)
EXTENDS RuntimeCache, Supervisor, Charges, SequenceTheorems, TLAPS

(***************************************************************************)
(* Directories: what their files may hold, and those that hold nothing of  *)
(* another build.                                                          *)
(***************************************************************************)
File == Builds \cup {Nothing}
Pair == {<<b, b>> : b \in Builds}
Listed == {"runtime", "rust-build.txt"}

Dirs == {d \in [Places -> File \cup (File \X File)] :
           d["runtime"] \in File /\ d["rust-build.txt"] \in File /\ d[Sums] \in Pair \cup {Nothing}}

WholeOf(d, build) ==
  /\ d["runtime"] \in {build, Nothing} /\ d["rust-build.txt"] \in {build, Nothing}
  /\ d[Sums] \in {<<build, build>>, Nothing}

Steps ==
  [call : {"idle", "missed", "read", "refused", "sum", "check", "restored",
           "sums", "rename", "compare", "published", "resum"}, file : {0}]
    \cup [call : {"fetch", "copy"}, file : {1, 2}]

CacheType ==
  /\ entry \in [present : BOOLEAN, files : Dirs]
  /\ temp \in [Builders -> Dirs]
  /\ out \in [Builders -> Dirs]
  /\ expected \in [Builders -> Pair \cup {Nothing}]
  /\ at \in [Builders -> Steps]

(***************************************************************************)
(* The inductive invariant: the entry is of one build, and so is what a    *)
(* publisher has put into its own directory so far; a restorer that copies *)
(* has sums of one build to compare with.                                  *)
(***************************************************************************)
EntryWhole == \E build \in Builds : WholeOf(entry.files, build)

(* A publisher of that build, about to take step s, with temp t and out o. *)
Publishing(s, t, o, build) ==
  /\ WholeOf(t, build)
  /\ s.call = "copy" => /\ o["runtime"] = build /\ o["rust-build.txt"] = build
                        /\ s.file = 2 => t["runtime"] = build
  /\ s.call = "sums" => t["runtime"] = build /\ t["rust-build.txt"] = build

(* A builder about to take step s, with temp t, out o and expected e. *)
BuilderOK(s, t, o, e) ==
  /\ s.call \in {"copy", "sums", "rename"} => \E build \in Builds : Publishing(s, t, o, build)
  /\ s.call \in {"sum", "fetch", "check"} => e \in Pair
  /\ s.call = "restored" => checksum(o) \in Pair

BuildersOK == \A b \in Builders : BuilderOK(at[b], temp[b], out[b], expected[b])

CacheInv == CacheType /\ EntryWhole /\ BuildersOK

(***************************************************************************)
(* Directories                                                             *)
(***************************************************************************)
LEMMA BareIsWhole == Bare \in Dirs /\ \A build \in Builds : WholeOf(Bare, build)
BY DEF Bare, Dirs, File, Places, Sums, WholeOf

LEMMA FilePut ==
  ASSUME NEW d \in Dirs, NEW f \in Listed, NEW v \in File
  PROVE  /\ [d EXCEPT ![f] = v] \in Dirs
         /\ [d EXCEPT ![f] = v][f] = v
         /\ \A g \in Places : g # f => [d EXCEPT ![f] = v][g] = d[g]
BY DEF Dirs, Listed, Places, Sums

LEMMA SumsPut ==
  ASSUME NEW d \in Dirs, NEW build \in Builds
  PROVE  /\ [d EXCEPT ![Sums] = <<build, build>>] \in Dirs
         /\ [d EXCEPT ![Sums] = <<build, build>>][Sums] = <<build, build>>
         /\ \A f \in Listed : [d EXCEPT ![Sums] = <<build, build>>][f] = d[f]
<1>1. <<build, build>> \in Pair /\ <<build, build>> \in File \X File
  BY DEF Pair, File
<1> QED BY <1>1 DEF Dirs, Listed, Places, Sums

(***************************************************************************)
(* A builder moves: its step and its directories become these, and the     *)
(* other builders stay where they are.                                     *)
(***************************************************************************)
Moves(b, s, t, o, e) ==
  /\ at' = [at EXCEPT ![b] = s] /\ temp' = [temp EXCEPT ![b] = t]
  /\ out' = [out EXCEPT ![b] = o] /\ expected' = [expected EXCEPT ![b] = e]

LEMMA AfterMove ==
  ASSUME CacheInv, NEW b \in Builders, NEW s \in Steps, NEW t \in Dirs, NEW o \in Dirs,
         NEW e \in Pair \cup {Nothing}, Moves(b, s, t, o, e), BuilderOK(s, t, o, e),
         entry' \in [present : BOOLEAN, files : Dirs], EntryWhole'
  PROVE  CacheInv'
<1>1. CacheType'
  BY DEF CacheInv, CacheType, Moves
<1>2. ASSUME NEW c \in Builders PROVE BuilderOK(at'[c], temp'[c], out'[c], expected'[c])
  <2>1. CASE c = b
    <3>1. at'[c] = s /\ temp'[c] = t /\ out'[c] = o /\ expected'[c] = e
      BY <2>1 DEF CacheInv, CacheType, Moves
    <3> QED BY <3>1
  <2>2. CASE c # b
    <3>1. at'[c] = at[c] /\ temp'[c] = temp[c] /\ out'[c] = out[c] /\ expected'[c] = expected[c]
      BY <2>2 DEF CacheInv, CacheType, Moves
    <3> QED BY <3>1 DEF CacheInv, BuildersOK
  <2> QED BY <2>1, <2>2
<1> QED BY <1>1, <1>2 DEF CacheInv, BuildersOK

LEMMA StaysTyped ==
  ASSUME CacheInv, NEW b \in Builders
  PROVE  /\ at[b] \in Steps /\ temp[b] \in Dirs /\ out[b] \in Dirs
         /\ expected[b] \in Pair \cup {Nothing}
         /\ entry.files \in Dirs /\ entry.present \in BOOLEAN
         /\ BuilderOK(at[b], temp[b], out[b], expected[b])
BY DEF CacheInv, CacheType, BuildersOK

LEMMA EntryKept ==
  ASSUME CacheInv, UNCHANGED entry
  PROVE  entry' \in [present : BOOLEAN, files : Dirs] /\ EntryWhole'
BY DEF CacheInv, CacheType, EntryWhole

LEMMA Plain ==
  ASSUME NEW name \in {"idle", "missed", "read", "refused", "sum", "check", "restored",
                       "sums", "rename", "compare", "published", "resum"}
  PROVE  Call(name, 0) \in Steps /\ Call(name, 0).call = name
BY DEF Call, Steps

LEMMA Numbered ==
  ASSUME NEW name \in {"fetch", "copy"}, NEW n \in {1, 2}
  PROVE  Call(name, n) \in Steps /\ Call(name, n).call = name /\ Call(name, n).file = n
BY DEF Call, Steps

(* Most steps only say what the builder does next. *)
LEMMA OnlyGoes ==
  ASSUME CacheInv, NEW b \in Builders, NEW s \in Steps, Goes(b, s),
         UNCHANGED <<entry, temp, out, expected>>,
         BuilderOK(s, temp[b], out[b], expected[b])
  PROVE  CacheInv'
<1>1. Moves(b, s, temp[b], out[b], expected[b])
  BY DEF CacheInv, CacheType, Moves, Goes
<1> QED BY <1>1, AfterMove, StaysTyped, EntryKept

(***************************************************************************)
(* restore                                                                 *)
(***************************************************************************)
LEMMA Restores ==
  ASSUME CacheInv, NEW b \in Builders, Restore(b)
  PROVE  CacheInv'
<1> DEFINE s == IF entry.present THEN Call("read", 0) ELSE Call("missed", 0)
<1>1. s \in Steps /\ s.call \in {"read", "missed"}
  BY Plain
<1>2. Moves(b, s, temp[b], Bare, expected[b]) /\ UNCHANGED entry
  BY DEF CacheInv, CacheType, Moves, Restore, Goes
<1>3. BuilderOK(s, temp[b], Bare, expected[b])
  <2> HIDE DEF s
  <2> QED BY <1>1 DEF BuilderOK
<1> HIDE DEF s
<1> QED BY <1>1, <1>2, <1>3, AfterMove, StaysTyped, EntryKept, BareIsWhole

LEMMA RestoresRead ==
  ASSUME CacheInv, NEW b \in Builders, RestoreRead(b)
  PROVE  CacheInv'
<1> DEFINE e == entry.files[Sums]
           s == IF e = Nothing THEN Call("refused", 0) ELSE Call("sum", 0)
<1>1. s \in Steps /\ s.call \in {"refused", "sum"} /\ (s.call = "sum" => e # Nothing)
  BY Plain DEF Call
<1>2. e \in Pair \cup {Nothing}
  BY StaysTyped DEF Dirs
<1>3. Moves(b, s, temp[b], out[b], e) /\ UNCHANGED entry
  BY DEF CacheInv, CacheType, Moves, RestoreRead, Goes
<1>4. BuilderOK(s, temp[b], out[b], e)
  <2> HIDE DEF s, e
  <2> QED BY <1>1, <1>2 DEF BuilderOK
<1> HIDE DEF s, e
<1> QED BY <1>1, <1>2, <1>3, <1>4, AfterMove, StaysTyped, EntryKept

LEMMA RestoresSum ==
  ASSUME CacheInv, NEW b \in Builders, RestoreSum(b)
  PROVE  CacheInv'
<1> DEFINE s == IF Summed(entry.files) /\ checksum(entry.files) = expected[b]
                THEN Call("fetch", 1) ELSE Call("refused", 0)
<1>1. s \in Steps /\ s.call \in {"fetch", "refused"}
  BY Plain, Numbered
<1>2. expected[b] \in Pair
  BY StaysTyped DEF BuilderOK, RestoreSum
<1>3. Goes(b, s) /\ UNCHANGED <<entry, temp, out, expected>>
  BY DEF RestoreSum
<1>4. BuilderOK(s, temp[b], out[b], expected[b])
  <2> HIDE DEF s
  <2> QED BY <1>1, <1>2 DEF BuilderOK
<1> HIDE DEF s
<1> QED BY <1>1, <1>3, <1>4, OnlyGoes

LEMMA StepNumber ==
  ASSUME NEW s \in Steps, s.call \in {"fetch", "copy"}
  PROVE  s.file \in {1, 2} /\ Artifacts[s.file] \in Listed
         /\ (s.file = 1 => Artifacts[s.file] = "runtime")
         /\ (s.file = 2 => Artifacts[s.file] = "rust-build.txt")
         /\ (s.file < Len(Artifacts) <=> s.file = 1)
<1>1. s.file \in {1, 2}
  BY DEF Steps
<1>2. Len(Artifacts) = 2 /\ Artifacts[1] = "runtime" /\ Artifacts[2] = "rust-build.txt"
  BY DEF Artifacts
<1> QED BY <1>1, <1>2 DEF Listed

LEMMA RestoresCopy ==
  ASSUME CacheInv, NEW b \in Builders, RestoreCopy(b)
  PROVE  CacheInv'
<1> DEFINE f == Artifacts[at[b].file]
           o == [out[b] EXCEPT ![f] = entry.files[f]]
           s == IF entry.files[f] = Nothing THEN Call("refused", 0)
                ELSE IF at[b].file < Len(Artifacts) THEN Call("fetch", at[b].file + 1)
                ELSE Call("check", 0)
<1>1. f \in Listed /\ at[b].call = "fetch" /\ (at[b].file < Len(Artifacts) => at[b].file + 1 = 2)
  BY StaysTyped, StepNumber DEF RestoreCopy
<1>2. entry.files[f] \in File
  BY <1>1, StaysTyped DEF Dirs, Listed
<1>3. o \in Dirs
  <2> HIDE DEF f
  <2> QED BY <1>1, <1>2, StaysTyped, FilePut
<1>4. s \in Steps /\ s.call \in {"refused", "fetch", "check"}
  BY <1>1, Plain, Numbered
<1>5. expected[b] \in Pair
  BY <1>1, StaysTyped DEF BuilderOK
<1>6. Moves(b, s, temp[b], o, expected[b]) /\ UNCHANGED entry
  <2>1. at' = [at EXCEPT ![b] = s] /\ out' = [out EXCEPT ![b] = o] /\ UNCHANGED <<entry, temp, expected>>
    BY DEF RestoreCopy, Goes
  <2> HIDE DEF s, o
  <2> QED BY <2>1 DEF CacheInv, CacheType, Moves
<1>7. BuilderOK(s, temp[b], o, expected[b])
  <2> HIDE DEF s, o, f
  <2> QED BY <1>4, <1>5 DEF BuilderOK
<1> HIDE DEF s, o, f
<1> QED BY <1>3, <1>4, <1>6, <1>7, AfterMove, StaysTyped, EntryKept

LEMMA RestoresCheck ==
  ASSUME CacheInv, NEW b \in Builders, RestoreCheck(b)
  PROVE  CacheInv'
<1> DEFINE s == IF checksum(out[b]) = expected[b] THEN Call("restored", 0) ELSE Call("refused", 0)
<1>1. s \in Steps /\ s.call \in {"restored", "refused"} /\ (s.call = "restored" => checksum(out[b]) = expected[b])
  BY Plain DEF Call
<1>2. expected[b] \in Pair
  BY StaysTyped DEF BuilderOK, RestoreCheck
<1>3. Goes(b, s) /\ UNCHANGED <<entry, temp, out, expected>>
  BY DEF RestoreCheck
<1>4. BuilderOK(s, temp[b], out[b], expected[b])
  <2> HIDE DEF s
  <2> QED BY <1>1, <1>2 DEF BuilderOK
<1> HIDE DEF s
<1> QED BY <1>1, <1>3, <1>4, OnlyGoes

(***************************************************************************)
(* publish                                                                 *)
(***************************************************************************)
LEMMA Publishes ==
  ASSUME CacheInv, NEW b \in Builders, Publish(b)
  PROVE  CacheInv'
<1>1. PICK build \in Builds :
        out' = [out EXCEPT ![b] = [Bare EXCEPT !["runtime"] = build, !["rust-build.txt"] = build]]
  BY DEF Publish
<1> DEFINE o == [Bare EXCEPT !["runtime"] = build, !["rust-build.txt"] = build]
           s == Call("copy", 1)
<1>2. o \in Dirs /\ o["runtime"] = build /\ o["rust-build.txt"] = build
  BY DEF Bare, Dirs, File, Places, Sums
<1>3. s \in Steps /\ s.call = "copy" /\ s.file = 1
  BY Numbered
<1>4. Moves(b, s, Bare, o, expected[b]) /\ UNCHANGED entry
  <2>1. at' = [at EXCEPT ![b] = s] /\ out' = [out EXCEPT ![b] = o]
        /\ temp' = [temp EXCEPT ![b] = Bare] /\ UNCHANGED <<entry, expected>>
    BY <1>1 DEF Publish, Goes
  <2> HIDE DEF s, o
  <2> QED BY <2>1 DEF CacheInv, CacheType, Moves
<1> HIDE DEF s, o
<1>5. BuilderOK(s, Bare, o, expected[b])
  BY <1>2, <1>3, BareIsWhole DEF BuilderOK, Publishing
<1> QED BY <1>2, <1>3, <1>4, <1>5, AfterMove, StaysTyped, EntryKept, BareIsWhole

LEMMA PublishesCopy ==
  ASSUME CacheInv, NEW b \in Builders, PublishCopy(b)
  PROVE  CacheInv'
<1> DEFINE f == Artifacts[at[b].file]
           t == [temp[b] EXCEPT ![f] = out[b][f]]
           s == IF at[b].file < Len(Artifacts) THEN Call("copy", at[b].file + 1) ELSE Call("sums", 0)
<1>1. at[b].call = "copy" /\ f \in Listed /\ at[b].file \in {1, 2}
      /\ (at[b].file = 1 => f = "runtime") /\ (at[b].file = 2 => f = "rust-build.txt")
      /\ (at[b].file < Len(Artifacts) <=> at[b].file = 1)
  BY StaysTyped, StepNumber DEF PublishCopy
<1>2. PICK build \in Builds : Publishing(at[b], temp[b], out[b], build)
  BY <1>1, StaysTyped DEF BuilderOK
<1>3. out[b][f] = build
  BY <1>1, <1>2 DEF Publishing
<1>4. /\ t \in Dirs /\ t[f] = build
      /\ \A g \in Places : g # f => t[g] = temp[b][g]
  <2> HIDE DEF f
  <2>1. out[b][f] \in File
    BY <1>3 DEF File
  <2> QED BY <1>1, <1>3, <2>1, StaysTyped, FilePut
<1>5. WholeOf(t, build)
  <2> HIDE DEF t
  <2> QED BY <1>1, <1>2, <1>4 DEF Publishing, WholeOf, Places, Sums
<1>6. CASE at[b].file = 1
  <2>1. s = Call("copy", 2)
    BY <1>1, <1>6
  <2>2. s \in Steps /\ s.call = "copy" /\ s.file = 2
    BY <2>1, Numbered
  <2>3. Moves(b, s, t, out[b], expected[b]) /\ UNCHANGED entry
    <3>1. at' = [at EXCEPT ![b] = s] /\ temp' = [temp EXCEPT ![b] = t] /\ UNCHANGED <<entry, out, expected>>
      BY DEF PublishCopy, Goes
    <3> HIDE DEF s, t
    <3> QED BY <3>1 DEF CacheInv, CacheType, Moves
  <2> HIDE DEF s, t, f
  <2>4. Publishing(s, t, out[b], build)
    BY <1>1, <1>2, <1>4, <1>5, <1>6, <2>2 DEF Publishing
  <2>5. BuilderOK(s, t, out[b], expected[b])
    BY <2>2, <2>4 DEF BuilderOK
  <2> QED BY <1>4, <2>2, <2>3, <2>5, AfterMove, StaysTyped, EntryKept
<1>7. CASE at[b].file = 2
  <2>1. s = Call("sums", 0)
    BY <1>1, <1>7
  <2>2. s \in Steps /\ s.call = "sums"
    BY <2>1, Plain
  <2>3. Moves(b, s, t, out[b], expected[b]) /\ UNCHANGED entry
    <3>1. at' = [at EXCEPT ![b] = s] /\ temp' = [temp EXCEPT ![b] = t] /\ UNCHANGED <<entry, out, expected>>
      BY DEF PublishCopy, Goes
    <3> HIDE DEF s, t
    <3> QED BY <3>1 DEF CacheInv, CacheType, Moves
  <2>4. t["runtime"] = build /\ t["rust-build.txt"] = build
    <3> HIDE DEF t
    <3> QED BY <1>1, <1>2, <1>4, <1>7 DEF Publishing, Places
  <2> HIDE DEF s, t, f
  <2>5. Publishing(s, t, out[b], build)
    BY <1>5, <2>2, <2>4 DEF Publishing
  <2>6. BuilderOK(s, t, out[b], expected[b])
    BY <2>2, <2>5 DEF BuilderOK
  <2> QED BY <1>4, <2>2, <2>3, <2>6, AfterMove, StaysTyped, EntryKept
<1> QED BY <1>1, <1>6, <1>7

LEMMA PublishesSums ==
  ASSUME CacheInv, NEW b \in Builders, PublishSums(b)
  PROVE  CacheInv'
<1>1. PICK build \in Builds : Publishing(at[b], temp[b], out[b], build)
  BY StaysTyped DEF BuilderOK, PublishSums
<1>2. checksum(temp[b]) = <<build, build>>
  BY <1>1 DEF PublishSums, Publishing, checksum
<1> DEFINE t == [temp[b] EXCEPT ![Sums] = <<build, build>>]
           s == Call("rename", 0)
<1>3. t \in Dirs /\ WholeOf(t, build)
  <2>1. t \in Dirs /\ t[Sums] = <<build, build>> /\ \A f \in Listed : t[f] = temp[b][f]
    BY StaysTyped, SumsPut
  <2> HIDE DEF t
  <2> QED BY <1>1, <2>1 DEF Publishing, WholeOf, Listed
<1>4. s \in Steps /\ s.call = "rename"
  BY Plain
<1>5. Moves(b, s, t, out[b], <<build, build>>) /\ UNCHANGED entry
  <2>1. at' = [at EXCEPT ![b] = s] /\ temp' = [temp EXCEPT ![b] = t]
        /\ expected' = [expected EXCEPT ![b] = <<build, build>>] /\ UNCHANGED <<entry, out>>
    BY <1>2 DEF PublishSums, Goes
  <2> HIDE DEF s, t
  <2> QED BY <2>1 DEF CacheInv, CacheType, Moves
<1> HIDE DEF s, t
<1>6. BuilderOK(s, t, out[b], <<build, build>>)
  BY <1>3, <1>4 DEF BuilderOK, Publishing
<1>7. <<build, build>> \in Pair \cup {Nothing}
  BY DEF Pair
<1> QED BY <1>3, <1>4, <1>5, <1>6, <1>7, AfterMove, StaysTyped, EntryKept

LEMMA PublishesRename ==
  ASSUME CacheInv, NEW b \in Builders, PublishRename(b)
  PROVE  CacheInv'
<1>1. UNCHANGED <<temp, out, expected>>
  BY DEF PublishRename
<1>2. CASE ~entry.present \/ entry.files = Bare
  <2>1. entry' = [present |-> TRUE, files |-> temp[b]] /\ Goes(b, Call("published", 0))
    BY <1>2 DEF PublishRename
  <2>2. \E build \in Builds : WholeOf(temp[b], build)
    BY StaysTyped DEF BuilderOK, PublishRename, Publishing
  <2>3. EntryWhole' /\ entry' \in [present : BOOLEAN, files : Dirs]
    BY <2>1, <2>2, StaysTyped DEF EntryWhole
  <2>4. Moves(b, Call("published", 0), temp[b], out[b], expected[b])
    BY <1>1, <2>1 DEF CacheInv, CacheType, Moves, Goes
  <2>5. Call("published", 0) \in Steps /\ Call("published", 0).call = "published"
    BY Plain
  <2>6. BuilderOK(Call("published", 0), temp[b], out[b], expected[b])
    BY <2>5 DEF BuilderOK
  <2> QED BY <2>3, <2>4, <2>5, <2>6, AfterMove, StaysTyped
<1>3. CASE ~(~entry.present \/ entry.files = Bare)
  <2>1. UNCHANGED entry /\ Goes(b, Call("compare", 0))
    BY <1>3 DEF PublishRename
  <2>2. Call("compare", 0) \in Steps /\ Call("compare", 0).call = "compare"
    BY Plain
  <2>3. BuilderOK(Call("compare", 0), temp[b], out[b], expected[b])
    BY <2>2 DEF BuilderOK
  <2> QED BY <1>1, <2>1, <2>2, <2>3, OnlyGoes
<1> QED BY <1>2, <1>3

LEMMA PublishesLater ==
  ASSUME CacheInv, NEW b \in Builders, PublishCompare(b) \/ PublishResum(b)
  PROVE  CacheInv'
<1>1. PICK name \in {"refused", "resum", "published"} : Goes(b, Call(name, 0))
  BY DEF PublishCompare, PublishResum
<1>2. UNCHANGED <<entry, temp, out, expected>>
  BY DEF PublishCompare, PublishResum
<1>3. Call(name, 0) \in Steps /\ Call(name, 0).call = name
  BY Plain
<1>4. BuilderOK(Call(name, 0), temp[b], out[b], expected[b])
  BY <1>3 DEF BuilderOK
<1> QED BY <1>1, <1>2, <1>3, <1>4, OnlyGoes

LEMMA BuilderEnds ==
  ASSUME CacheInv, NEW b \in Builders, Ends(b)
  PROVE  CacheInv'
<1>1. Resting \in Steps /\ Resting.call = "idle"
  BY Plain DEF Resting
<1>2. Moves(b, Resting, Bare, Bare, Nothing) /\ UNCHANGED entry
  BY DEF Ends, Moves, Goes
<1>3. BuilderOK(Resting, Bare, Bare, Nothing)
  BY <1>1 DEF BuilderOK
<1> QED BY <1>1, <1>2, <1>3, AfterMove, EntryKept, BareIsWhole

(***************************************************************************)
(* The user empties the cache: what is left is of the same build.          *)
(***************************************************************************)
LEMMA Evicts ==
  ASSUME CacheInv, Evict
  PROVE  CacheInv'
<1>1. UNCHANGED <<temp, out, expected, at>>
  BY DEF Evict
<1>2. entry.files \in Dirs /\ entry \in [present : BOOLEAN, files : Dirs]
  BY DEF CacheInv, CacheType
<1>3. PICK build \in Builds : WholeOf(entry.files, build)
  BY DEF CacheInv, EntryWhole
<1>4. entry' \in [present : BOOLEAN, files : Dirs] /\ WholeOf(entry'.files, build)
  <2>1. ASSUME NEW f \in Places, entry' = [entry EXCEPT !.files[f] = Nothing]
        PROVE  entry' \in [present : BOOLEAN, files : Dirs] /\ WholeOf(entry'.files, build)
    <3> DEFINE d == [entry.files EXCEPT ![f] = Nothing]
    <3>1. d \in Dirs /\ WholeOf(d, build)
      BY <1>2, <1>3 DEF Dirs, WholeOf, File, Places, Sums
    <3>2. entry' = [entry EXCEPT !.files = d]
      BY <2>1
    <3> HIDE DEF d
    <3> QED BY <1>2, <3>1, <3>2
  <2>2. CASE entry' = [entry EXCEPT !.present = FALSE]
    BY <1>2, <1>3, <2>2
  <2> QED BY <2>1, <2>2 DEF Evict
<1> QED BY <1>1, <1>4 DEF CacheInv, CacheType, EntryWhole, BuildersOK

LEMMA CacheStarts == CacheInit => CacheInv
<1> SUFFICES ASSUME CacheInit PROVE CacheInv
  OBVIOUS
<1>1. Resting \in Steps /\ Resting.call = "idle"
  BY Plain DEF Resting
<1>2. CacheType
  BY <1>1, BareIsWhole DEF CacheInit, CacheType
<1>3. EntryWhole
  BY BareIsWhole, CacheAssumption DEF CacheInit, EntryWhole
<1>4. BuildersOK
  BY <1>1 DEF CacheInit, BuildersOK, BuilderOK
<1> QED BY <1>2, <1>3, <1>4 DEF CacheInv

LEMMA CacheInductive == CacheInv /\ [CacheNext]_cacheVars => CacheInv'
<1> SUFFICES ASSUME CacheInv, [CacheNext]_cacheVars PROVE CacheInv'
  OBVIOUS
<1>1. CASE UNCHANGED cacheVars
  BY <1>1 DEF cacheVars, CacheInv, CacheType, EntryWhole, BuildersOK
<1>2. CASE Evict
  BY <1>2, Evicts
<1>3. ASSUME NEW b \in Builders,
             Restore(b) \/ RestoreRead(b) \/ RestoreSum(b) \/ RestoreCopy(b) \/ RestoreCheck(b)
      PROVE  CacheInv'
  BY <1>3, Restores, RestoresRead, RestoresSum, RestoresCopy, RestoresCheck
<1>4. ASSUME NEW b \in Builders,
             \/ Publish(b) \/ PublishCopy(b) \/ PublishSums(b) \/ PublishRename(b)
             \/ PublishCompare(b) \/ PublishResum(b) \/ Ends(b)
      PROVE  CacheInv'
  BY <1>4, Publishes, PublishesCopy, PublishesSums, PublishesRename, PublishesLater, BuilderEnds
<1> QED BY <1>1, <1>2, <1>3, <1>4 DEF CacheNext

(* Whatever builders publish, restore and evict at once, the entry is whole *)
(* and every builder's own directory holds one build.                      *)
THEOREM CacheInvariant == CacheSpec => []CacheInv
BY CacheStarts, CacheInductive, PTL DEF CacheSpec

(***************************************************************************)
(* However many builders publish, restore and are stopped at the same      *)
(* time, and however the user empties the cache: nobody restores a mixture *)
(* of two builds, and the entry never holds one (runtime_cache.rs restore, *)
(* publish).                                                               *)
(***************************************************************************)
THEOREM NeverMixed == CacheSpec => []EntriesWhole
<1>1. CacheInv => EntriesWhole
  <2> SUFFICES ASSUME CacheInv PROVE EntriesWhole
    OBVIOUS
  <2>1. ASSUME NEW b \in Builders, at[b].call = "restored"
        PROVE  \E build \in Builds : checksum(out[b]) = <<build, build>>
    BY <2>1, StaysTyped DEF BuilderOK, Pair
  <2>2. PICK build \in Builds : WholeOf(entry.files, build)
    BY DEF CacheInv, EntryWhole
  <2> QED BY <2>1, <2>2 DEF EntriesWhole, WholeOf
<1> QED BY <1>1, CacheInvariant, PTL

(***************************************************************************)
(* The supervision of a child.                                             *)
(***************************************************************************)
SuperType ==
  /\ deadline \in BOOLEAN /\ late \in BOOLEAN /\ zombie \in BOOLEAN /\ exceeded \in BOOLEAN
  /\ live \in SUBSET Group
  /\ holds \in SUBSET (Group \X Pipes)
  /\ written \in [Pipes -> Nat]
  /\ reader \in [Pipes -> {"reads", "stored", "finished"}]
  /\ pc \in {"checks", "polls", "kills", "waits", "drains", "joins", "done"}
  /\ result \in {"none", "output", "failed", "limit", "deadline"}

(***************************************************************************)
(* The inductive invariant: only the living hold pipes, and a child is     *)
(* alive or a zombie until it is waited for, once.                         *)
(***************************************************************************)
LivingHold == \A h \in holds : h[1] \in live

NotBoth == ~("child" \in live /\ zombie)

Unwaited == pc \in {"checks", "polls", "kills"} => "child" \in live \/ zombie

Killed ==
  /\ pc \in {"waits", "drains"} => live = {}
  /\ pc = "drains" => ~zombie

Waited == pc \in {"joins", "done"} => "child" \notin live /\ ~zombie /\ Finished

(* A reader stops at the end of the pipe or past the limit, and says which. *)
ReadersTell ==
  \A w \in Pipes : reader[w] # "reads" =>
    IF written[w] > OutputLimit THEN exceeded ELSE ~Open(w)

Answer ==
  pc = "done" => /\ result = "deadline" => live = {}
                 /\ result = "output" => ~exceeded

SuperInv == SuperType /\ LivingHold /\ NotBoth /\ Unwaited /\ Killed /\ Waited /\ ReadersTell /\ Answer

(***************************************************************************)
(* What a step leaves of it                                                *)
(***************************************************************************)
LEMMA SuperTyped == SuperType /\ [SuperNext]_superVars => SuperType'
<1> SUFFICES ASSUME SuperType, [SuperNext]_superVars PROVE SuperType'
  OBVIOUS
<1> USE DEF SuperType
<1>1. ASSUME NEW p \in Group, NEW w \in Pipes, Writes(p, w) PROVE SuperType'
  BY <1>1 DEF Writes, seenVars
<1>2. ASSUME NEW p \in Group, NEW w \in Pipes, Closes(p, w) PROVE SuperType'
  BY <1>2 DEF Closes, seenVars
<1>3. ASSUME NEW p \in Group, Exits(p) PROVE SuperType'
  BY <1>3 DEF Exits, Dead, seenVars
<1>4. ASSUME NEW w \in Pipes, ReaderStores(w) PROVE SuperType'
  BY <1>4, SupervisorAssumption DEF ReaderStores, childVars
<1>5. ASSUME NEW w \in Pipes, ReaderFinishes(w) PROVE SuperType'
  BY <1>5 DEF ReaderFinishes, childVars
<1>6. CASE Forks
  <2>1. \A w \in Pipes : <<"helper", w>> \in Group \X Pipes
    BY DEF Group
  <2>2. live' \subseteq Group /\ holds' \subseteq Group \X Pipes
    <3> HIDE DEF SuperType
    <3>1. holds \subseteq Group \X Pipes
      BY DEF SuperType
    <3> QED BY <1>6, <2>1, <3>1 DEF Forks
  <2> QED BY <1>6, <2>2 DEF Forks, seenVars
<1>7. CASE Clock
  BY <1>7 DEF Clock, childVars
<1>8. CASE Checks
  BY <1>8 DEF Checks, Continues, childVars
<1>9. CASE Polls
  BY <1>9 DEF Polls, Continues
<1>10. CASE kill_group
  BY <1>10 DEF kill_group, Dead, Continues
<1>11. CASE Waits
  BY <1>11 DEF Waits, Continues
<1>12. CASE Drains
  BY <1>12 DEF Drains, Continues, childVars
<1>13. CASE Joins
  BY <1>13 DEF Joins, Continues, childVars
<1>14. CASE UNCHANGED superVars
  BY <1>14 DEF superVars
<1> QED
  BY <1>1, <1>2, <1>3, <1>4, <1>5, <1>6, <1>7, <1>8, <1>9, <1>10, <1>11, <1>12, <1>13, <1>14 DEF SuperNext

(* The child and its helper: every part, for every one of their steps. *)
LEMMA ChildSteps ==
  ASSUME SuperInv,
         NEW p \in Group, NEW w \in Pipes, Writes(p, w) \/ Closes(p, w) \/ Exits(p) \/ Forks
  PROVE  LivingHold' /\ NotBoth' /\ Unwaited' /\ Killed' /\ Waited' /\ ReadersTell' /\ Answer'
<1> USE DEF SuperInv, SuperType
<1>1. UNCHANGED <<reader, exceeded, pc, result>>
  BY DEF Writes, Closes, Exits, Forks, seenVars
<1>2. CASE Writes(p, w)
  <2>1. UNCHANGED <<live, holds, zombie>>
    BY <1>2 DEF Writes
  <2>2. \A v \in Pipes : reader[v] # "reads" => written'[v] = written[v]
    BY <1>2 DEF Writes
  <2>3. ReadersTell'
    BY <1>1, <2>1, <2>2 DEF ReadersTell, Open
  <2> QED
    BY <1>1, <2>1, <2>3 DEF LivingHold, NotBoth, Unwaited, Killed, Waited, Finished, Answer
<1>3. CASE Closes(p, w)
  <2>1. UNCHANGED <<live, zombie, written>> /\ holds' \subseteq holds
    BY <1>3 DEF Closes
  <2>2. ReadersTell'
    BY <1>1, <2>1 DEF ReadersTell, Open
  <2> QED
    BY <1>1, <2>1, <2>2 DEF LivingHold, NotBoth, Unwaited, Killed, Waited, Finished, Answer
<1>4. CASE Exits(p)
  <2>1. UNCHANGED written /\ live' = live \ {p} /\ holds' = {h \in holds : h[1] # p}
        /\ zombie' = (zombie \/ "child" \in {p} \cap live) /\ p \in live
    BY <1>4 DEF Exits, Dead
  <2>2. ReadersTell'
    BY <1>1, <2>1 DEF ReadersTell, Open
  <2>3. LivingHold' /\ NotBoth'
    BY <2>1 DEF LivingHold, NotBoth
  <2>4. Unwaited' /\ Killed' /\ Waited' /\ Answer'
    BY <1>1, <2>1 DEF Unwaited, Killed, Waited, Finished, Answer
  <2> QED BY <2>2, <2>3, <2>4
<1>5. CASE Forks
  <2>1. /\ live = {"child"} /\ live' = Group /\ UNCHANGED <<zombie, written>>
        /\ holds' = holds \cup {<<"helper", v>> : v \in {u \in Pipes : <<"child", u>> \in holds}}
    BY <1>5 DEF Forks
  <2>2. pc \notin {"waits", "drains", "joins", "done"}
    BY <2>1 DEF Killed, Waited
  <2>3. \A v \in Pipes : Open(v)' => Open(v)
    BY <2>1 DEF Open, Group
  <2>4. ReadersTell'
    BY <1>1, <2>1, <2>3 DEF ReadersTell
  <2>5. LivingHold'
    <3>1. ASSUME NEW h \in holds' PROVE h[1] \in Group
      <4>1. CASE h \in holds
        BY <4>1, <2>1 DEF LivingHold, Group
      <4>2. ASSUME NEW v \in Pipes, h = <<"helper", v>> PROVE h[1] \in Group
        BY <4>2 DEF Group
      <4> QED BY <2>1, <4>1, <4>2
    <3> QED BY <2>1, <3>1 DEF LivingHold
  <2> QED
    BY <1>1, <2>1, <2>2, <2>4, <2>5 DEF NotBoth, Unwaited, Killed, Waited, Answer, Group
<1> QED BY <1>2, <1>3, <1>4, <1>5

LEMMA ReaderSteps ==
  ASSUME SuperInv, NEW w \in Pipes, ReaderStores(w) \/ ReaderFinishes(w)
  PROVE  LivingHold' /\ NotBoth' /\ Unwaited' /\ Killed' /\ Waited' /\ ReadersTell' /\ Answer'
<1> USE DEF SuperInv, SuperType
<1>1. UNCHANGED <<live, holds, zombie, written, pc, result>>
  BY DEF ReaderStores, ReaderFinishes, childVars
<1>2. LivingHold' /\ NotBoth' /\ Unwaited' /\ Killed'
  BY <1>1 DEF LivingHold, NotBoth, Unwaited, Killed
<1>3. ~Finished
  BY DEF ReaderStores, ReaderFinishes, Finished
<1>4. pc \notin {"joins", "done"}
  BY <1>3 DEF Waited
<1>5. Waited' /\ Answer'
  BY <1>1, <1>4 DEF Waited, Answer
<1>6. ReadersTell'
  <2>1. CASE ReaderStores(w)
    BY <1>1, <2>1, SupervisorAssumption DEF ReaderStores, ReadersTell, Open
  <2>2. CASE ReaderFinishes(w)
    BY <1>1, <2>2 DEF ReaderFinishes, ReadersTell, Open
  <2> QED BY <2>1, <2>2
<1> QED BY <1>2, <1>5, <1>6

LEMMA SupervisorSteps ==
  ASSUME SuperInv, Clock \/ Checks \/ Polls \/ kill_group \/ Waits \/ Drains \/ Joins
  PROVE  LivingHold' /\ NotBoth' /\ Unwaited' /\ Killed' /\ Waited' /\ ReadersTell' /\ Answer'
<1> USE DEF SuperInv, SuperType, childVars, Continues
<1>1. UNCHANGED <<reader, exceeded, written>>
  BY DEF Clock, Checks, Polls, kill_group, Waits, Drains, Joins
<1>2. CASE Clock
  <2>1. UNCHANGED <<live, holds, zombie, pc, result>>
    BY <1>2 DEF Clock
  <2>2. LivingHold' /\ NotBoth' /\ Unwaited' /\ Killed' /\ Answer'
    BY <1>1, <2>1 DEF LivingHold, NotBoth, Unwaited, Killed, Answer
  <2> QED
    BY <1>1, <2>1, <2>2 DEF Waited, Finished, ReadersTell, Open
<1>3. CASE Checks
  BY <1>1, <1>3 DEF Checks, LivingHold, NotBoth, Unwaited, Killed, Waited, Finished, ReadersTell, Open, Answer
<1>4. CASE Polls
  <2>1. UNCHANGED <<live, holds, result>>
    BY <1>4 DEF Polls
  <2>2. ReadersTell' /\ LivingHold'
    BY <1>1, <2>1 DEF ReadersTell, Open, LivingHold
  <2>3. CASE Finished /\ zombie
    <3>1. ~zombie' /\ pc' = "joins" /\ "child" \notin live
      BY <1>4, <2>3 DEF Polls, NotBoth
    <3> QED
      BY <1>1, <2>1, <2>2, <2>3, <3>1 DEF NotBoth, Unwaited, Killed, Waited, Finished, Answer
  <2>4. CASE ~(Finished /\ zombie)
    <3>1. zombie' = zombie /\ pc' = "checks" /\ pc = "polls"
      BY <1>4, <2>4 DEF Polls
    <3> QED
      BY <2>1, <2>2, <3>1 DEF NotBoth, Unwaited, Killed, Waited, Answer
  <2> QED BY <2>3, <2>4
<1>5. CASE kill_group
  <2>1. /\ live' = {} /\ holds' \subseteq holds /\ pc' = "waits"
        /\ \A h \in holds' : h[1] \notin Group
    BY <1>5 DEF kill_group, Dead
  <2>2. ReadersTell'
    BY <1>1, <2>1 DEF ReadersTell, Open
  <2>3. holds' = {}
    BY <2>1
  <2> QED
    BY <2>1, <2>2, <2>3 DEF LivingHold, NotBoth, Unwaited, Killed, Waited, Answer
<1>6. CASE Waits
  <2>1. UNCHANGED <<live, holds>> /\ ~zombie' /\ pc = "waits" /\ pc' = "drains"
    BY <1>6 DEF Waits
  <2> QED
    BY <1>1, <2>1 DEF LivingHold, NotBoth, Unwaited, Killed, Waited, ReadersTell, Open, Answer
<1>7. CASE Drains
  <2>1. UNCHANGED <<live, holds, zombie>> /\ pc = "drains" /\ pc' = "done" /\ Finished
        /\ result' # "output"
    BY <1>7 DEF Drains
  <2> QED
    BY <1>1, <2>1 DEF LivingHold, NotBoth, Unwaited, Killed, Waited, Finished, ReadersTell, Open, Answer
<1>8. CASE Joins
  <2>1. UNCHANGED <<live, holds, zombie>> /\ pc = "joins" /\ pc' = "done"
        /\ result' # "deadline" /\ (result' = "output" => ~exceeded)
    BY <1>8 DEF Joins
  <2> QED
    BY <1>1, <2>1 DEF LivingHold, NotBoth, Unwaited, Killed, Waited, Finished, ReadersTell, Open, Answer
<1> QED BY <1>2, <1>3, <1>4, <1>5, <1>6, <1>7, <1>8

LEMMA SuperStarts == SuperInit => SuperInv
<1> SUFFICES ASSUME SuperInit PROVE SuperInv
  OBVIOUS
<1> USE DEF SuperInit
<1>1. SuperType
  BY SupervisorAssumption DEF SuperType, Group
<1>2. LivingHold /\ NotBoth /\ Unwaited /\ Killed /\ Waited /\ ReadersTell /\ Answer
  BY DEF LivingHold, NotBoth, Unwaited, Killed, Waited, ReadersTell, Answer
<1> QED BY <1>1, <1>2 DEF SuperInv

LEMMA SuperInductive == SuperInv /\ [SuperNext]_superVars => SuperInv'
<1> SUFFICES ASSUME SuperInv, [SuperNext]_superVars PROVE SuperInv'
  OBVIOUS
<1>1. SuperType'
  BY SuperTyped DEF SuperInv
<1>2. CASE UNCHANGED superVars
  BY <1>2 DEF SuperInv, superVars, SuperType, LivingHold, NotBoth, Unwaited, Killed, Waited, Finished, ReadersTell, Open, Answer
<1>3. ASSUME NEW p \in Group, NEW w \in Pipes, Writes(p, w) \/ Closes(p, w) PROVE SuperInv'
  BY <1>1, <1>3, ChildSteps DEF SuperInv
<1>4. ASSUME NEW p \in Group, Exits(p) PROVE SuperInv'
  <2>1. "stdout" \in Pipes
    BY DEF Pipes
  <2> QED BY <1>1, <1>4, <2>1, ChildSteps DEF SuperInv
<1>5. CASE Forks
  <2>1. "stdout" \in Pipes /\ "child" \in Group
    BY DEF Pipes, Group
  <2> QED BY <1>1, <1>5, <2>1, ChildSteps DEF SuperInv
<1>6. ASSUME NEW w \in Pipes, ReaderStores(w) \/ ReaderFinishes(w) PROVE SuperInv'
  BY <1>1, <1>6, ReaderSteps DEF SuperInv
<1>7. CASE Clock \/ Checks \/ Polls \/ kill_group \/ Waits \/ Drains \/ Joins
  BY <1>1, <1>7, SupervisorSteps DEF SuperInv
<1> QED BY <1>2, <1>3, <1>4, <1>5, <1>6, <1>7 DEF SuperNext

(* Whatever the child writes, starts and closes, and whenever the clock runs *)
(* out, the threads of a call keep what they know of each other.           *)
THEOREM SuperInvariant == SuperSpec => []SuperInv
BY SuperStarts, SuperInductive, PTL DEF SuperSpec

(***************************************************************************)
(* Whatever is written and forked, and whichever thread is faster: an      *)
(* answer is given for a child that has been waited for and readers that   *)
(* have ended, after a kill nothing of the group runs, output is complete  *)
(* and within the limit, and only a child not yet waited for is killed     *)
(* (process.rs run_inner, kill_group).                                     *)
(***************************************************************************)
THEOREM AnswersAreSettled == SuperSpec => []ChildSettled
<1>1. SuperInv => ChildSettled
  <2> SUFFICES ASSUME SuperInv PROVE ChildSettled
    OBVIOUS
  <2> USE DEF SuperInv, SuperType
  <2>1. pc = "done" => "child" \notin live /\ ~zombie /\ Finished
    BY DEF Waited
  <2>2. pc = "done" /\ result = "deadline" => live = {}
    BY DEF Answer
  <2>3. ASSUME pc = "done", result = "output", NEW w \in Pipes
        PROVE  written[w] <= OutputLimit /\ ~Open(w)
    <3>1. reader[w] # "reads" /\ ~exceeded
      BY <2>1, <2>3 DEF Finished, Answer
    <3>2. ~(written[w] > OutputLimit) /\ ~Open(w)
      BY <3>1 DEF ReadersTell
    <3> QED BY <3>2, SupervisorAssumption
  <2>4. pc = "kills" => "child" \in live \/ zombie
    BY DEF Unwaited
  <2> QED BY <2>1, <2>2, <2>3, <2>4 DEF ChildSettled
<1> QED BY <1>1, SuperInvariant, PTL

(***************************************************************************)
(* The inductive invariant: the text that is compiled has passed the check *)
(* with the table of its round, the frames of the text that runs fit their *)
(* charges, and every function in progress is within its budget: what it   *)
(* has used and what it was given are together within the grant, what it   *)
(* has computed from the budget is right, and in a block with a call there *)
(* is enough left for the charge.                                          *)
(***************************************************************************)
OpenCall ==
  [entry : Natives \cup {Wrapper}, label : Labels, next : Nat \ {0}, left : Nat,
   values : [Registers -> Nat], used : Nat]

(* The values of the instructions of a block before the call's next. *)
ComputedIn(c, body) ==
  \A j \in DOMAIN body : j < c.next =>
    /\ body[j].op = "sub" => c.values[body[j].to] = (c.left - body[j].amount) % WordSize
    /\ body[j].op = "ult" => c.values[body[j].to] = IF c.left < body[j].amount THEN 1 ELSE 0

(* There is enough left for every call of a block. *)
Covers(left, body, charges) ==
  \A k \in DOMAIN body : body[k].op = "call" => charges[body[k].callee] <= left

CallFits(c, code, charges, grant) ==
  /\ c.entry \in DOMAIN code /\ c.label \in DOMAIN code[c.entry]
  /\ c.next <= Len(code[c.entry][c.label].body) + 1
  /\ c.left < WordSize
  /\ c.used + c.left <= grant
  /\ ComputedIn(c, code[c.entry][c.label].body)
  /\ Covers(c.left, code[c.entry][c.label].body, charges)

Checked ==
  stage \in {"compile", "stable", "running"} =>
    /\ emitted \in Modules
    /\ verify_guarded_calls(table, emitted)
    /\ Assembles(emitted.code)

FramesFit ==
  stage \in {"stable", "running"} => \A e \in DOMAIN frames : Required(frames[e]) <= table[e]

CallsFit ==
  /\ stage = "running" <=> calls # <<>>
  /\ \A k \in DOMAIN calls : CallFits(calls[k], emitted.code, table, granted)

ChargesInv == ChargesType /\ Checked /\ FramesFit /\ CallsFit

(***************************************************************************)
(* Numbers of WordSize                                                     *)
(***************************************************************************)
LEMMA Wrapped ==
  ASSUME NEW w \in Nat \ {0}, NEW a \in Int
  PROVE  /\ a % w \in Nat
         /\ a % w < w
OBVIOUS

LEMMA NotWrapped ==
  ASSUME NEW w \in Nat \ {0}, NEW a \in Nat, a < w
  PROVE  a % w = a
OBVIOUS

(***************************************************************************)
(* The text                                                                *)
(***************************************************************************)
LEMMA TextShape ==
  ASSUME NEW m \in Modules, NEW e \in DOMAIN m.code, NEW label \in DOMAIN m.code[e]
  PROVE  /\ e \in Natives \cup {Wrapper} /\ label \in Labels
         /\ m.code[e][label] \in Block
BY ChargesAssumption DEF WellFormed

LEMMA TextChecked ==
  ASSUME NEW m, NEW charges, verify_guarded_calls(charges, m), NEW e \in DOMAIN m.code
  PROVE  SingleAssignment(m.code[e]) /\ check(m.code[e], charges)
BY DEF verify_guarded_calls

(* No block with a call is where a function begins. *)
LEMMA EntryCovered ==
  ASSUME NEW f, NEW charges, check(f, charges), NEW left
  PROVE  "entry" \in DOMAIN f /\ Covers(left, f["entry"].body, charges)
<1>1. "entry" \in DOMAIN f /\ Predecessors(f, "entry") = {}
  BY DEF check
<1>2. ASSUME NEW k \in DOMAIN f["entry"].body, f["entry"].body[k].op = "call" PROVE FALSE
  <2>1. Admitted(f, "entry", k, charges[f["entry"].body[k].callee])
    BY <1>1, <1>2 DEF check
  <2> QED BY <2>1, <1>1 DEF Admitted
<1> QED BY <1>1, <1>2 DEF Covers

(* What a function has left when it goes from one block to another covers  *)
(* the calls of that block: it went along the second edge of a comparison  *)
(* with their charge.                                                      *)
LEMMA GuardCovers ==
  ASSUME NEW f, NEW charges, check(f, charges), SingleAssignment(f),
         NEW from \in DOMAIN f, f[from] \in Block,
         NEW c \in OpenCall, ComputedIn(c, f[from].body), c.next = Len(f[from].body) + 1,
         NEW arm \in DOMAIN Successors(f[from].end),
         arm = IF f[from].end.kind = "branch" /\ c.values[f[from].end.condition] = 0
               THEN 2 ELSE 1,
         NEW to, to = Successors(f[from].end)[arm],
         to \in DOMAIN f => f[to] \in Block,
         \A e \in Natives : charges[e] \in Nat
  PROVE  to \in DOMAIN f /\ Covers(c.left, f[to].body, charges)
<1>1. to \in DOMAIN f
  BY DEF check
<1>2. arm \in {1, 2}
  OBVIOUS
<1>3. <<from, arm>> \in Predecessors(f, to)
  BY <1>2 DEF Predecessors
<1>4. ASSUME NEW k \in DOMAIN f[to].body, f[to].body[k].op = "call"
      PROVE  charges[f[to].body[k].callee] <= c.left
  <2> DEFINE amount == charges[f[to].body[k].callee]
  <2>1. f[to].body[k].callee \in Natives
    <3>1. f[to].body \in Seq(Instruction)
      BY <1>1 DEF Block
    <3>2. f[to].body[k] \in Instruction
      BY <3>1, <1>4
    <3> QED BY <3>2 DEF Instruction
  <2>2. amount \in Nat
    BY <2>1
  <2>3. Admitted(f, to, k, amount)
    BY <1>1, <1>4 DEF check
  <2> HIDE DEF amount
  <2>4. PICK g \in DOMAIN f : /\ Predecessors(f, to) = {<<g, 2>>}
                              /\ Defines(f[g].body, f[g].end.condition, "ult", amount)
    BY <2>3 DEF Admitted
  <2>5. <<from, arm>> = <<g, 2>>
    BY <1>3, <2>4
  <2>6. from = g /\ arm = 2
    BY <2>5
  <2>7. c.values[f[from].end.condition] = 0
    BY <2>6
  <2>8. PICK j \in DOMAIN f[from].body :
          /\ f[from].body[j].to = f[from].end.condition
          /\ f[from].body[j].op = "ult" /\ f[from].body[j].amount = amount
    BY <2>4, <2>6 DEF Defines
  <2>9. j < c.next
    <3>1. f[from].body \in Seq(Instruction)
      BY DEF Block
    <3> QED BY <3>1
  <2>10. c.values[f[from].end.condition] = IF c.left < amount THEN 1 ELSE 0
    BY <2>8, <2>9 DEF ComputedIn
  <2>11. ~(c.left < amount) /\ c.left \in Nat
    BY <2>7, <2>10 DEF OpenCall
  <2>12. amount <= c.left
    BY <2>2, <2>11
  <2> QED BY <2>12 DEF amount
<1> QED BY <1>1, <1>4 DEF Covers

(* The budget a call is given is what is left less the charge. *)
LEMMA BudgetSubtracted ==
  ASSUME NEW f, NEW charges, check(f, charges), NEW label \in DOMAIN f, f[label] \in Block,
         NEW c \in OpenCall, c.left < WordSize, ComputedIn(c, f[label].body),
         Covers(c.left, f[label].body, charges),
         c.next \in DOMAIN f[label].body, f[label].body[c.next].op = "call",
         \A e \in Natives : charges[e] \in Nat
  PROVE  LET now == f[label].body[c.next]
         IN  /\ charges[now.callee] <= c.left
             /\ c.values[now.budget] = c.left - charges[now.callee]
<1> DEFINE body == f[label].body
           now == body[c.next]
           amount == charges[now.callee]
<1>1. body \in Seq(Instruction) /\ now \in Instruction /\ c.next \in 1..Len(body)
  BY DEF Block
<1>2. now.callee \in Natives /\ now.budget \in Registers
  BY <1>1 DEF Instruction
<1>3. amount \in Nat /\ c.left \in Nat /\ amount <= c.left
  BY <1>2 DEF Covers, OpenCall
<1>4. Defines(SubSeq(body, 1, c.next - 1), now.budget, "sub", amount)
  BY DEF check, Admitted
<1>5. PICK j \in DOMAIN SubSeq(body, 1, c.next - 1) :
        LET i == SubSeq(body, 1, c.next - 1)[j]
        IN  i.to = now.budget /\ i.op = "sub" /\ i.amount = amount
  BY <1>4 DEF Defines
<1>6. j \in 1..(c.next - 1) /\ SubSeq(body, 1, c.next - 1)[j] = body[j]
  BY <1>1, <1>5
<1>7. j \in DOMAIN body /\ j < c.next
  BY <1>1, <1>6
<1>8. body[j].to = now.budget /\ body[j].op = "sub" /\ body[j].amount = amount
  BY <1>5, <1>6
<1>9. c.values[now.budget] = (c.left - amount) % WordSize
  BY <1>7, <1>8 DEF ComputedIn
<1> HIDE DEF amount
<1>10. c.left - amount \in Nat /\ c.left - amount < WordSize /\ WordSize \in Nat \ {0}
  BY <1>3, ChargesAssumption
<1>11. (c.left - amount) % WordSize = c.left - amount
  BY <1>10, NotWrapped
<1> QED BY <1>3, <1>9, <1>11 DEF amount

(***************************************************************************)
(* The refinement                                                          *)
(***************************************************************************)
LEMMA RequiredIsNatural ==
  ASSUME NEW frame \in Nat, floor \in Nat
  PROVE  Required(frame) \in Nat
<1> DEFINE bytes == frame + (IF target = "MacX86_64" THEN 8 ELSE 0)
           least == IF bytes = 0 THEN 1 ELSE bytes
<1>1. bytes \in Nat
  OBVIOUS
<1>2. least \in Nat
  BY <1>1
<1>3. reservation(frame) = ((least + 15) \div 16) * 16
  BY DEF reservation
<1> HIDE DEF least
<1>4. ((least + 15) \div 16) * 16 \in Nat
  BY ONLY <1>2
<1> QED BY <1>3, <1>4 DEF Required

(* Charges that a refinement leaves are at least what the frames require. *)
LEMMA RefinementFits ==
  ASSUME NEW charges \in [Natives -> Nat], NEW measured, DOMAIN measured \subseteq Natives,
         \A e \in DOMAIN measured : measured[e] \in Nat,
         floor \in Nat, refine(charges, measured) = charges
  PROVE  \A e \in DOMAIN measured : Required(measured[e]) <= charges[e]
<1>1. ASSUME NEW e \in DOMAIN measured, Required(measured[e]) > charges[e] PROVE FALSE
  <2>1. refine(charges, measured)[e] = Required(measured[e])
    BY <1>1 DEF refine
  <2>2. charges[e] \in Nat /\ Required(measured[e]) = charges[e]
    BY <2>1
  <2> QED BY <1>1, <2>2
<1>2. ASSUME NEW e \in DOMAIN measured PROVE Required(measured[e]) <= charges[e]
  <2>1. charges[e] \in Nat
    OBVIOUS
  <2>2. Required(measured[e]) \in Nat
    BY RequiredIsNatural
  <2>3. ~(Required(measured[e]) > charges[e])
    BY <1>1
  <2> QED BY <2>1, <2>2, <2>3
<1> QED BY <1>2

LEMMA RefinementType ==
  ASSUME NEW charges \in [Natives -> Nat], NEW measured,
         \A e \in DOMAIN measured : measured[e] \in Nat, floor \in Nat
  PROVE  refine(charges, measured) \in [Natives -> Nat]
<1>1. ASSUME NEW e \in Natives
      PROVE  (IF e \in DOMAIN measured /\ Required(measured[e]) > charges[e]
              THEN Required(measured[e]) ELSE charges[e]) \in Nat
  BY RequiredIsNatural
<1> QED BY <1>1 DEF refine

(***************************************************************************)
(* The steps of the refinement                                             *)
(***************************************************************************)
LEMMA ChargesStarts == ChargesInit => ChargesInv
<1> SUFFICES ASSUME ChargesInit PROVE ChargesInv
  OBVIOUS
<1>1. ChargesType
  BY ChargesAssumption DEF ChargesInit, ChargesType, Attempts
<1>2. Checked /\ FramesFit
  BY DEF ChargesInit, Checked, FramesFit
<1>3. CallsFit
  BY DEF ChargesInit, CallsFit
<1> QED BY <1>1, <1>2, <1>3 DEF ChargesInv

LEMMA EmitsKeeps ==
  ASSUME ChargesInv, Emits
  PROVE  ChargesInv'
<1>1. /\ UNCHANGED <<target, floor, table, round, frames, granted, calls>>
      /\ stage = "emit" /\ calls = <<>>
  BY DEF Emits, ChargesInv, CallsFit
<1>2. \/ /\ stage' = "compile" /\ emitted' \in Modules
         /\ verify_guarded_calls(table, emitted') /\ Assembles(emitted'.code)
      \/ stage' = "refused" /\ emitted' = emitted
  BY DEF Emits
<1>3. ChargesType'
  BY <1>1, <1>2 DEF ChargesInv, ChargesType
<1>4. Checked' /\ FramesFit'
  BY <1>1, <1>2 DEF Checked, FramesFit
<1>5. CallsFit'
  BY <1>1, <1>2 DEF CallsFit
<1> QED BY <1>3, <1>4, <1>5 DEF ChargesInv

LEMMA MeasuresKeeps ==
  ASSUME ChargesInv, Measures
  PROVE  ChargesInv'
<1>1. /\ UNCHANGED <<target, floor, emitted, granted, calls>>
      /\ stage = "compile" /\ calls = <<>>
  BY DEF Measures, ChargesInv, CallsFit
<1>2. floor \in Nat /\ table \in [Natives -> Nat] /\ round \in 0..(Attempts - 1)
  BY ChargesAssumption DEF ChargesInv, ChargesType
<1>3. DOMAIN emitted.code \ {Wrapper} \subseteq Natives
  <2>1. emitted \in Modules
    BY <1>1 DEF ChargesInv, Checked
  <2> QED BY <2>1, ChargesAssumption DEF WellFormed
<1>4. PICK left \in SUBSET (DOMAIN emitted.code \ {Wrapper}) : \E measured \in [left -> Sizes] :
        \/ stage' = "refused" /\ UNCHANGED <<table, round, frames>>
        \/ /\ stage' = "emit" /\ table' = refine(table, measured) /\ round' = round + 1
           /\ round # Attempts - 1 /\ UNCHANGED frames
        \/ /\ stage' = "stable" /\ frames' = measured /\ UNCHANGED <<table, round>>
           /\ refine(table, measured) = table
  BY DEF Measures
<1>5. PICK measured \in [left -> Sizes] :
        \/ stage' = "refused" /\ UNCHANGED <<table, round, frames>>
        \/ /\ stage' = "emit" /\ table' = refine(table, measured) /\ round' = round + 1
           /\ round # Attempts - 1 /\ UNCHANGED frames
        \/ /\ stage' = "stable" /\ frames' = measured /\ UNCHANGED <<table, round>>
           /\ refine(table, measured) = table
  BY <1>4
<1>6. /\ DOMAIN measured \subseteq Natives
      /\ \A e \in DOMAIN measured : measured[e] \in Sizes /\ measured[e] \in Nat
  BY <1>3, ChargesAssumption
<1>7. CallsFit'
  BY <1>1, <1>5 DEF CallsFit
<1>8. CASE stage' = "refused"
  <2>1. UNCHANGED <<table, round, frames>>
    BY <1>5, <1>8
  <2>2. ChargesType'
    BY <1>1, <1>8, <2>1 DEF ChargesInv, ChargesType
  <2> QED BY <2>2, <1>7, <1>8 DEF ChargesInv, Checked, FramesFit
<1>9. CASE stage' = "emit"
  <2>1. table' = refine(table, measured) /\ round' = round + 1 /\ round # Attempts - 1
        /\ UNCHANGED frames
    BY <1>5, <1>9
  <2>2. table' \in [Natives -> Nat]
    BY <2>1, <1>2, <1>6, RefinementType
  <2>3. round' \in 0..(Attempts - 1)
    BY <2>1, <1>2 DEF Attempts
  <2>4. ChargesType'
    BY <1>1, <1>9, <2>1, <2>2, <2>3 DEF ChargesInv, ChargesType
  <2> QED BY <2>4, <1>7, <1>9 DEF ChargesInv, Checked, FramesFit
<1>10. CASE stage' = "stable"
  <2>1. frames' = measured /\ UNCHANGED <<table, round>> /\ refine(table, measured) = table
    BY <1>5, <1>10
  <2>2. ChargesType'
    BY <1>1, <1>6, <1>10, <2>1 DEF ChargesInv, ChargesType
  <2>3. Checked'
    <3>1. emitted \in Modules /\ verify_guarded_calls(table, emitted) /\ Assembles(emitted.code)
      BY <1>1 DEF ChargesInv, Checked
    <3> QED BY <3>1, <2>1, <1>1 DEF Checked
  <2>4. FramesFit'
    <3>1. \A e \in DOMAIN measured : Required(measured[e]) <= table[e]
      BY <1>2, <1>6, <2>1, RefinementFits
    <3>2. \A e \in DOMAIN frames' : Required(frames'[e]) <= table'[e]
      BY <3>1, <2>1
    <3> QED BY <3>2, <1>1 DEF FramesFit, Required, reservation
  <2> QED BY <2>2, <2>3, <2>4, <1>7 DEF ChargesInv
<1> QED BY <1>5, <1>8, <1>9, <1>10

(* At the start of a block nothing of it is computed yet. *)
LEMMA NothingYet ==
  ASSUME NEW body \in Seq(Instruction), NEW c, c.next = 1
  PROVE  ComputedIn(c, body) /\ c.next <= Len(body) + 1
<1>1. DOMAIN body = 1..Len(body) /\ Len(body) \in Nat
  OBVIOUS
<1>2. \A j \in DOMAIN body : ~(j < c.next)
  BY ONLY <1>1, c.next = 1
<1>3. c.next <= Len(body) + 1
  BY ONLY <1>1, c.next = 1
<1> QED BY ONLY <1>2, <1>3 DEF ComputedIn

LEMMA EntersKeeps ==
  ASSUME ChargesInv, Enters
  PROVE  ChargesInv'
<1>1. PICK budget \in Budgets : granted' = budget /\ calls' = <<Activation(Wrapper, budget, 0)>>
  BY DEF Enters
<1>2. /\ UNCHANGED <<target, floor, table, round, emitted, frames>>
      /\ stage = "stable" /\ stage' = "running"
  BY DEF Enters
<1> DEFINE c == Activation(Wrapper, budget, 0)
<1>3. budget \in Nat /\ budget < WordSize /\ budget \in 0..(WordSize - 1)
  BY ChargesAssumption
<1>4. c \in OpenCall
  BY <1>3, ChargesAssumption DEF Activation, OpenCall
<1>5. ChargesType'
  BY <1>1, <1>2, <1>3, <1>4 DEF ChargesInv, ChargesType, OpenCall
<1>6. emitted \in Modules /\ verify_guarded_calls(table, emitted) /\ Assembles(emitted.code)
  BY <1>2 DEF ChargesInv, Checked
<1>7. Checked' /\ FramesFit'
  BY <1>2 DEF ChargesInv, Checked, FramesFit, Required, reservation
<1>8. CallFits(c, emitted.code, table, budget)
  <2>1. Wrapper \in DOMAIN emitted.code
    BY <1>6 DEF Assembles
  <2>2. check(emitted.code[Wrapper], table)
    BY <1>6, <2>1, TextChecked
  <2>3. /\ "entry" \in DOMAIN emitted.code[Wrapper]
        /\ Covers(budget, emitted.code[Wrapper]["entry"].body, table)
    BY <2>2, EntryCovered
  <2>4. emitted.code[Wrapper]["entry"].body \in Seq(Instruction)
    BY <1>6, <2>1, <2>3, TextShape DEF Block
  <2>5. c.next = 1
    BY DEF Activation
  <2> HIDE DEF c
  <2>6. /\ ComputedIn(c, emitted.code[Wrapper]["entry"].body)
        /\ c.next <= Len(emitted.code[Wrapper]["entry"].body) + 1
    BY ONLY <2>4, <2>5, NothingYet
  <2> USE DEF c
  <2>7. c.used + c.left <= budget
    BY <1>3 DEF Activation
  <2> QED BY <1>3, <2>1, <2>3, <2>6, <2>7 DEF CallFits, Activation
<1>9. CallsFit'
  BY <1>1, <1>2, <1>8 DEF CallsFit
<1> QED BY <1>5, <1>7, <1>9 DEF ChargesInv

(***************************************************************************)
(* The steps of the code                                                   *)
(***************************************************************************)
LEMMA TopFits ==
  ASSUME ChargesInv, stage = "running"
  PROVE  /\ Len(calls) \in Nat \ {0} /\ Top \in OpenCall
         /\ CallFits(Top, emitted.code, table, granted)
         /\ emitted \in Modules /\ verify_guarded_calls(table, emitted)
         /\ Assembles(emitted.code)
         /\ \A e \in Natives : table[e] \in Nat
         /\ BlockOf(Top) \in Block
<1>1. calls \in Seq(OpenCall) /\ calls # <<>> /\ table \in [Natives -> Nat]
  BY DEF ChargesInv, ChargesType, CallsFit, OpenCall
<1>2. Len(calls) \in Nat \ {0}
  BY <1>1
<1>3. Len(calls) \in DOMAIN calls
  BY <1>1, <1>2
<1>4. Top \in OpenCall /\ CallFits(Top, emitted.code, table, granted)
  BY <1>1, <1>3 DEF ChargesInv, CallsFit, Top
<1>5. /\ emitted \in Modules /\ verify_guarded_calls(table, emitted)
      /\ Assembles(emitted.code)
  BY DEF ChargesInv, Checked
<1>6. BlockOf(Top) \in Block
  BY <1>4, <1>5, TextShape DEF BlockOf, CallFits
<1> QED BY <1>1, <1>2, <1>4, <1>5, <1>6

(* The innermost call goes on as c. *)
LEMMA Advance ==
  ASSUME ChargesInv, stage = "running",
         NEW c \in OpenCall, CallFits(c, emitted.code, table, granted), Advances(c),
         UNCHANGED <<target, floor, table, round, emitted, frames, stage, granted>>
  PROVE  ChargesInv'
<1>1. calls \in Seq(OpenCall) /\ calls # <<>>
  BY DEF ChargesInv, ChargesType, CallsFit, OpenCall
<1>2. calls' = [calls EXCEPT ![Len(calls)] = c]
  BY DEF Advances
<1>3. calls' \in Seq(OpenCall) /\ Len(calls') = Len(calls) /\ calls' # <<>>
  BY <1>1, <1>2
<1>4. ASSUME NEW k \in DOMAIN calls' PROVE CallFits(calls'[k], emitted.code, table, granted)
  <2>1. k \in DOMAIN calls
    BY <1>1, <1>3
  <2>2. CASE k = Len(calls)
    BY <2>1, <2>2, <1>1, <1>2
  <2>3. CASE k # Len(calls)
    <3>1. calls'[k] = calls[k]
      BY <2>1, <2>3, <1>1, <1>2
    <3> QED BY <3>1, <2>1 DEF ChargesInv, CallsFit
  <2> QED BY <2>2, <2>3
<1>5. ChargesType'
  BY <1>3 DEF ChargesInv, ChargesType, OpenCall
<1>6. Checked' /\ FramesFit'
  BY DEF ChargesInv, Checked, FramesFit, Required, reservation
<1>7. CallsFit'
  BY <1>3, <1>4 DEF CallsFit
<1> QED BY <1>5, <1>6, <1>7 DEF ChargesInv

(* A call that has computed one instruction more. *)
Later(c, to, value) == [c EXCEPT !.next = @ + 1, !.values = [@ EXCEPT ![to] = value]]

LEMMA LaterShape ==
  ASSUME NEW c \in OpenCall, NEW to \in Registers, NEW value \in Nat
  PROVE  LET d == Later(c, to, value)
         IN  /\ d.entry = c.entry /\ d.label = c.label /\ d.left = c.left /\ d.used = c.used
             /\ d.next = c.next + 1 /\ d.values = [c.values EXCEPT ![to] = value]
             /\ d \in OpenCall
<1> DEFINE d == Later(c, to, value)
           v == [c.values EXCEPT ![to] = value]
<1>1. DOMAIN c = {"entry", "label", "next", "left", "values", "used"}
  BY DEF OpenCall
<1>2. v \in [Registers -> Nat] /\ c.next + 1 \in Nat \ {0}
  BY DEF OpenCall
<1>3. d = [[c EXCEPT !.next = c.next + 1] EXCEPT !.values = v]
  BY DEF Later, OpenCall
<1> HIDE DEF v
<1>4. d \in OpenCall /\ d.entry = c.entry /\ d.label = c.label /\ d.left = c.left /\ d.used = c.used
      /\ d.next = c.next + 1 /\ d.values = v
  <2> HIDE DEF d
  <2> QED BY <1>1, <1>2, <1>3 DEF OpenCall
<1> HIDE DEF d
<1> QED BY <1>4 DEF d, v

LEMMA LaterFits ==
  ASSUME NEW f, SingleAssignment(f), NEW label \in DOMAIN f, f[label] \in Block,
         NEW c \in OpenCall, ComputedIn(c, f[label].body), c.next \in DOMAIN f[label].body,
         NEW value \in Nat,
         LET now == f[label].body[c.next]
         IN  /\ now.op = "sub" => value = (c.left - now.amount) % WordSize
             /\ now.op = "ult" => value = IF c.left < now.amount THEN 1 ELSE 0
  PROVE  LET d == Later(c, f[label].body[c.next].to, value)
         IN  /\ d \in OpenCall /\ d.entry = c.entry /\ d.label = c.label /\ d.left = c.left
             /\ d.used = c.used /\ d.next <= Len(f[label].body) + 1
             /\ ComputedIn(d, f[label].body)
<1> DEFINE body == f[label].body
           now == body[c.next]
           d == Later(c, now.to, value)
<1>1. body \in Seq(Instruction)
  BY DEF Block
<1>2. now \in Instruction /\ c.next \in 1..Len(body)
  BY <1>1
<1>3. now.to \in Registers
  BY <1>2 DEF Instruction
<1>4. /\ d.entry = c.entry /\ d.label = c.label /\ d.left = c.left /\ d.used = c.used
      /\ d.next = c.next + 1 /\ d.values = [c.values EXCEPT ![now.to] = value]
      /\ d \in OpenCall
  <2> HIDE DEF now
  <2> QED BY <1>3, LaterShape
<1>5. d.next <= Len(body) + 1
  <2> HIDE DEF d
  <2> QED BY <1>1, <1>2, <1>4
<1>6. ASSUME NEW j \in DOMAIN body, j < d.next
      PROVE  /\ body[j].op = "sub" => d.values[body[j].to] = (d.left - body[j].amount) % WordSize
             /\ body[j].op = "ult" =>
                  d.values[body[j].to] = IF d.left < body[j].amount THEN 1 ELSE 0
  <2>1. c.values \in [Registers -> Nat] /\ body[j].to \in Registers
    <3>1. body[j] \in Instruction
      BY <1>1
    <3> QED BY <3>1 DEF OpenCall, Instruction
  <2> HIDE DEF d
  <2>2. CASE j = c.next
    <3>1. d.values[now.to] = value
      BY <2>1, <1>3, <1>4
    <3> QED BY <3>1, <2>2, <1>4
  <2>3. CASE j # c.next
    <3>1. body[j].to # now.to
      BY <2>3, <1>2 DEF SingleAssignment
    <3>2. d.values[body[j].to] = c.values[body[j].to]
      BY <3>1, <2>1, <1>4
    <3>3. j < c.next
      BY <1>1, <1>2, <1>4, <1>6, <2>3
    <3> QED BY <3>2, <3>3, <1>4 DEF ComputedIn
  <2> QED BY <2>2, <2>3
<1>7. ComputedIn(d, body)
  BY <1>6 DEF ComputedIn
<1> QED BY <1>4, <1>5, <1>7

(* The innermost call, one instruction on. *)
LEMMA TopComputed ==
  ASSUME ChargesInv, stage = "running", Top.next \in DOMAIN BlockOf(Top).body,
         NEW value \in Nat,
         Now.op = "sub" => value = (Top.left - Now.amount) % WordSize,
         Now.op = "ult" => value = IF Top.left < Now.amount THEN 1 ELSE 0
  PROVE  /\ Computed(value) \in OpenCall
         /\ CallFits(Computed(value), emitted.code, table, granted)
<1> DEFINE c == Top
           f == emitted.code[c.entry]
           d == Later(c, f[c.label].body[c.next].to, value)
<1>1. /\ c \in OpenCall /\ CallFits(c, emitted.code, table, granted)
      /\ verify_guarded_calls(table, emitted) /\ BlockOf(c) \in Block
  BY TopFits
<1>2. c.entry \in DOMAIN emitted.code /\ c.label \in DOMAIN f /\ f[c.label] \in Block
      /\ ComputedIn(c, f[c.label].body)
  BY <1>1 DEF CallFits, BlockOf
<1>3. SingleAssignment(f)
  BY <1>1, <1>2, TextChecked
<1>4. Now = f[c.label].body[c.next] /\ c.next \in DOMAIN f[c.label].body
  BY DEF Now, BlockOf
<1>5. Computed(value) = d
  BY <1>4 DEF Computed, Later
<1> HIDE DEF c
<1>6. /\ Now.op = "sub" => value = (c.left - Now.amount) % WordSize
      /\ Now.op = "ult" => value = IF c.left < Now.amount THEN 1 ELSE 0
  BY DEF c
<1> HIDE DEF f
<1>7. /\ d \in OpenCall /\ d.entry = c.entry /\ d.label = c.label /\ d.left = c.left
      /\ d.used = c.used /\ d.next <= Len(f[c.label].body) + 1
      /\ ComputedIn(d, f[c.label].body)
  BY <1>1, <1>2, <1>3, <1>4, <1>6, LaterFits
<1> HIDE DEF d
<1>8. CallFits(d, emitted.code, table, granted)
  BY <1>1, <1>7 DEF CallFits, f
<1> QED BY <1>5, <1>7, <1>8

LEMMA ComputesKeeps ==
  ASSUME ChargesInv, Computes
  PROVE  ChargesInv'
<1>1. /\ stage = "running" /\ Top.next \in DOMAIN BlockOf(Top).body
      /\ UNCHANGED <<target, floor, table, round, emitted, frames, stage, granted>>
  BY DEF Computes, Reaches
<1>2. PICK value : /\ Advances(Computed(value))
                   /\ \/ Now.op = "sub" /\ value = (Top.left - Now.amount) % WordSize
                      \/ Now.op = "ult" /\ value = IF Top.left < Now.amount THEN 1 ELSE 0
                      \/ Now.op = "other" /\ value \in {0, 1}
  BY DEF Computes, Reaches, Now
<1>3. Top \in OpenCall /\ Now \in Instruction
  <2>1. Top \in OpenCall /\ BlockOf(Top) \in Block
    BY <1>1, TopFits
  <2>2. BlockOf(Top).body \in Seq(Instruction)
    BY <2>1 DEF Block
  <2> QED BY <2>1, <2>2, <1>1 DEF Now
<1>4. Top.left - Now.amount \in Int /\ WordSize \in Nat \ {0}
  BY <1>3, ChargesAssumption DEF OpenCall, Instruction
<1>5. (Top.left - Now.amount) % WordSize \in Nat
  BY <1>4, Wrapped
<1>6. value \in Nat
  BY <1>2, <1>5
<1>7. /\ Now.op = "sub" => value = (Top.left - Now.amount) % WordSize
      /\ Now.op = "ult" => value = IF Top.left < Now.amount THEN 1 ELSE 0
  BY <1>2
<1>8. /\ Computed(value) \in OpenCall
      /\ CallFits(Computed(value), emitted.code, table, granted)
  BY <1>1, <1>6, <1>7, TopComputed
<1> QED BY <1>1, <1>2, <1>8, Advance

(* The call that is made is within what its caller had left. *)
LEMMA CalledFits ==
  ASSUME ChargesInv, Reaches("call")
  PROVE  LET c == Activation(Now.callee, Top.values[Now.budget], Top.used + Deep(Now.callee))
         IN  c \in OpenCall /\ CallFits(c, emitted.code, table, granted)
<1> DEFINE callee == Now.callee
           amount == table[callee]
           given == Top.values[Now.budget]
           c == Activation(callee, given, Top.used + Deep(callee))
<1>1. stage = "running" /\ Top.next \in DOMAIN BlockOf(Top).body /\ Now.op = "call"
  BY DEF Reaches, Now
<1>2. /\ Top \in OpenCall /\ CallFits(Top, emitted.code, table, granted)
      /\ emitted \in Modules /\ verify_guarded_calls(table, emitted)
      /\ Assembles(emitted.code) /\ BlockOf(Top) \in Block
      /\ \A e \in Natives : table[e] \in Nat
  BY <1>1, TopFits
<1>3. Top.entry \in DOMAIN emitted.code /\ Top.label \in DOMAIN emitted.code[Top.entry]
  BY <1>2 DEF CallFits
<1>4. Now \in Instruction
  <2>1. BlockOf(Top).body \in Seq(Instruction)
    BY <1>2 DEF Block
  <2> QED BY <2>1, <1>1 DEF Now
<1>5. callee \in Natives
  BY <1>4 DEF Instruction
<1>6. callee \in DOMAIN emitted.code
  BY <1>1, <1>2, <1>3 DEF Assembles, Now, BlockOf
<1>7. amount <= Top.left /\ given = Top.left - amount
  <2> DEFINE f == emitted.code[Top.entry]
             label == Top.label
  <2>1. check(f, table)
    BY <1>2, <1>3, TextChecked
  <2>2. /\ f[label] \in Block /\ Top.left < WordSize /\ ComputedIn(Top, f[label].body)
        /\ Covers(Top.left, f[label].body, table) /\ label \in DOMAIN f
    BY <1>2 DEF CallFits, BlockOf
  <2>3. Now = f[label].body[Top.next] /\ Top.next \in DOMAIN f[label].body
    BY <1>1 DEF Now, BlockOf
  <2>4. f[label].body[Top.next].op = "call"
    BY <2>3, <1>1
  <2> HIDE DEF f, label
  <2>5. LET now == f[label].body[Top.next]
        IN  /\ table[now.callee] <= Top.left
            /\ Top.values[now.budget] = Top.left - table[now.callee]
    BY <1>2, <2>1, <2>2, <2>3, <2>4, BudgetSubtracted
  <2> QED BY <2>3, <2>5
<1>8. Deep(callee) \in Nat /\ Deep(callee) <= amount /\ amount \in Nat
  <2>1. amount \in Nat
    BY <1>2, <1>5
  <2>2. CASE callee \in DOMAIN frames
    <3>1. Required(frames[callee]) <= table[callee]
      BY <1>1, <2>2 DEF ChargesInv, FramesFit
    <3>2. frames[callee] \in Nat /\ floor \in Nat
      BY <2>2, ChargesAssumption DEF ChargesInv, ChargesType
    <3>3. Required(frames[callee]) \in Nat
      BY <3>2, RequiredIsNatural
    <3> QED BY <2>1, <2>2, <3>1, <3>3 DEF Deep
  <2>3. CASE callee \notin DOMAIN frames
    BY <2>1, <2>3 DEF Deep
  <2> QED BY <2>2, <2>3
<1>9. Top.left \in Nat /\ Top.used \in Nat /\ Top.left < WordSize
      /\ Top.used + Top.left <= granted /\ granted \in Nat /\ WordSize \in Nat
  BY <1>2, ChargesAssumption DEF CallFits, OpenCall, ChargesInv, ChargesType
<1> DEFINE deep == Deep(callee)
<1>10. /\ given \in Nat /\ Top.used + deep \in Nat /\ given < WordSize
       /\ (Top.used + deep) + given <= granted
  <2> HIDE DEF given, deep, amount
  <2>1. deep \in Nat /\ deep <= amount /\ amount \in Nat
    BY <1>8 DEF deep
  <2> QED BY <1>7, <1>9, <2>1
<1>11. c = [entry |-> callee, label |-> "entry", next |-> 1, left |-> given,
            values |-> [r \in Registers |-> 0], used |-> Top.used + deep]
  BY DEF Activation
<1> HIDE DEF c, given, deep, callee, amount
<1>12. c \in OpenCall
  BY <1>5, <1>10, <1>11, ChargesAssumption DEF OpenCall
<1>13. check(emitted.code[callee], table)
  BY <1>2, <1>6, TextChecked
<1>14. /\ "entry" \in DOMAIN emitted.code[callee]
       /\ Covers(given, emitted.code[callee]["entry"].body, table)
  BY <1>13, EntryCovered
<1>15. emitted.code[callee]["entry"].body \in Seq(Instruction)
  BY <1>2, <1>6, <1>14, TextShape DEF Block
<1>16. ComputedIn(c, emitted.code[callee]["entry"].body)
  BY <1>11, <1>15 DEF ComputedIn
<1>17. c.next <= Len(emitted.code[callee]["entry"].body) + 1
  BY <1>11, <1>15
<1>18. CallFits(c, emitted.code, table, granted)
  BY <1>6, <1>10, <1>11, <1>14, <1>16, <1>17 DEF CallFits
<1> QED BY <1>12, <1>18 DEF c, given, deep, callee

LEMMA CallsKeeps ==
  ASSUME ChargesInv, Calls
  PROVE  ChargesInv'
<1> DEFINE a == Activation(Now.callee, Top.values[Now.budget], Top.used + Deep(Now.callee))
<1>1. /\ Reaches("call")
      /\ UNCHANGED <<target, floor, table, round, emitted, frames, stage, granted>>
  BY DEF Calls
<1>2. stage = "running" /\ Top.next \in DOMAIN BlockOf(Top).body /\ Now.op = "call"
  BY <1>1 DEF Reaches, Now
<1>3. PICK outcome \in {0, 1} :
        calls' = Append([calls EXCEPT ![Len(calls)] = Computed(outcome)], a)
  BY DEF Calls
<1> DEFINE d == Computed(outcome)
           s == [calls EXCEPT ![Len(calls)] = d]
<1>4. a \in OpenCall /\ CallFits(a, emitted.code, table, granted)
  BY <1>1, CalledFits
<1>5. d \in OpenCall /\ CallFits(d, emitted.code, table, granted)
  BY <1>2, TopComputed
<1> HIDE DEF a, d
<1>6. calls \in Seq(OpenCall) /\ calls # <<>>
  BY <1>2 DEF ChargesInv, ChargesType, CallsFit, OpenCall
<1>7. s \in Seq(OpenCall) /\ Len(s) = Len(calls)
  BY ONLY <1>5, <1>6
<1>8. ASSUME NEW k \in DOMAIN s PROVE CallFits(s[k], emitted.code, table, granted)
  <2>1. k \in DOMAIN calls
    BY <1>6, <1>7
  <2>2. CASE k = Len(calls)
    BY <2>1, <2>2, <1>5, <1>6
  <2>3. CASE k # Len(calls)
    <3>1. s[k] = calls[k]
      BY <2>1, <2>3, <1>6
    <3> QED BY <3>1, <2>1 DEF ChargesInv, CallsFit
  <2> QED BY <2>2, <2>3
<1>9. calls' = Append(s, a)
  BY <1>3 DEF d
<1> HIDE DEF s
<1>10. calls' \in Seq(OpenCall) /\ Len(calls') = Len(s) + 1 /\ calls' # <<>>
  BY <1>4, <1>7, <1>9
<1>11. ASSUME NEW k \in DOMAIN calls' PROVE CallFits(calls'[k], emitted.code, table, granted)
  <2>1. k \in 1..(Len(s) + 1) /\ Len(s) \in Nat
    BY <1>7, <1>10
  <2>2. CASE k = Len(s) + 1
    <3>1. calls'[k] = a
      BY <2>2, <1>7, <1>9
    <3> QED BY <3>1, <1>4
  <2>3. CASE k # Len(s) + 1
    <3>1. k \in DOMAIN s /\ calls'[k] = s[k]
      BY <2>1, <2>3, <1>4, <1>7, <1>9
    <3> QED BY <3>1, <1>8
  <2> QED BY <2>2, <2>3
<1>12. ChargesType'
  BY <1>1, <1>10 DEF ChargesInv, ChargesType, OpenCall
<1>13. Checked' /\ FramesFit'
  BY <1>1 DEF ChargesInv, Checked, FramesFit, Required, reservation
<1>14. CallsFit'
  BY <1>1, <1>2, <1>10, <1>11 DEF CallsFit
<1> QED BY <1>12, <1>13, <1>14 DEF ChargesInv

(* A call at the beginning of another block. *)
Moved(c, to) == [c EXCEPT !.label = to, !.next = 1]

LEMMA MovedShape ==
  ASSUME NEW c \in OpenCall, NEW to \in Labels
  PROVE  LET d == Moved(c, to)
         IN  /\ d \in OpenCall /\ d.entry = c.entry /\ d.label = to /\ d.next = 1
             /\ d.left = c.left /\ d.used = c.used
<1> DEFINE d == Moved(c, to)
<1>1. d = [[c EXCEPT !.label = to] EXCEPT !.next = 1]
  BY DEF Moved, OpenCall
<1>2. DOMAIN c = {"entry", "label", "next", "left", "values", "used"}
  BY DEF OpenCall
<1> DEFINE m == [c EXCEPT !.label = to]
<1>4. m \in OpenCall /\ m.entry = c.entry /\ m.label = to /\ m.left = c.left /\ m.used = c.used
  BY <1>2 DEF OpenCall
<1>5. DOMAIN m = {"entry", "label", "next", "left", "values", "used"}
  BY <1>2
<1>6. d = [m EXCEPT !.next = 1]
  BY <1>1
<1> HIDE DEF d, m
<1>3. d \in OpenCall /\ d.entry = c.entry /\ d.label = to /\ d.next = 1
      /\ d.left = c.left /\ d.used = c.used
  BY <1>4, <1>5, <1>6 DEF OpenCall
<1> QED BY <1>3 DEF d

LEMMA GoesOnKeeps ==
  ASSUME ChargesInv, GoesOn
  PROVE  ChargesInv'
<1> DEFINE f == emitted.code[Top.entry]
           end == f[Top.label].end
           arm == IF end.kind = "branch" /\ Top.values[end.condition] = 0 THEN 2 ELSE 1
           to == Successors(end)[arm]
           c == Moved(Top, to)
<1>1. /\ stage = "running" /\ Top.next = Len(BlockOf(Top).body) + 1
      /\ UNCHANGED <<target, floor, table, round, emitted, frames, stage, granted>>
  BY DEF GoesOn, AtEnd
<1>2. Successors(end) # <<>> /\ Advances(c)
  BY DEF GoesOn, BlockOf, Moved
<1>3. /\ Top \in OpenCall /\ CallFits(Top, emitted.code, table, granted)
      /\ emitted \in Modules /\ verify_guarded_calls(table, emitted)
      /\ BlockOf(Top) \in Block /\ \A e \in Natives : table[e] \in Nat
  BY <1>1, TopFits
<1>4. /\ Top.entry \in DOMAIN emitted.code /\ Top.label \in DOMAIN f /\ f[Top.label] \in Block
      /\ ComputedIn(Top, f[Top.label].body) /\ Top.next = Len(f[Top.label].body) + 1
  BY <1>1, <1>3 DEF CallFits, BlockOf
<1>5. check(f, table) /\ SingleAssignment(f)
  BY <1>3, <1>4, TextChecked
<1>6. arm \in DOMAIN Successors(end)
  <2> HIDE DEF end
  <2> QED BY <1>2 DEF Successors
<1>7. to \in DOMAIN f
  BY <1>4, <1>5, <1>6 DEF check
<1>8. f[to] \in Block /\ to \in Labels
  BY <1>3, <1>4, <1>7, TextShape
<1>9. Covers(Top.left, f[to].body, table)
  <2> DEFINE from == Top.label
             top == Top
  <2>1. arm = IF f[from].end.kind = "branch" /\ top.values[f[from].end.condition] = 0
              THEN 2 ELSE 1
    OBVIOUS
  <2>2. from \in DOMAIN f /\ f[from] \in Block /\ top \in OpenCall
        /\ ComputedIn(top, f[from].body) /\ top.next = Len(f[from].body) + 1
    BY <1>3, <1>4
  <2>3. arm \in DOMAIN Successors(f[from].end) /\ to = Successors(f[from].end)[arm]
    BY <1>6
  <2> HIDE DEF from, top, arm, to, f
  <2>4. Covers(top.left, f[to].body, table)
    BY <1>3, <1>5, <1>8, <2>1, <2>2, <2>3, GuardCovers
  <2> QED BY <2>4 DEF top
<1> HIDE DEF to
<1>10. c \in OpenCall /\ c.entry = Top.entry /\ c.label = to /\ c.next = 1
       /\ c.left = Top.left /\ c.used = Top.used
  BY <1>3, <1>8, MovedShape
<1> HIDE DEF c
<1>11. CallFits(c, emitted.code, table, granted)
  <2>1. f[to].body \in Seq(Instruction)
    BY <1>8 DEF Block
  <2> HIDE DEF f
  <2>2. ComputedIn(c, f[to].body) /\ c.next <= Len(f[to].body) + 1
    BY ONLY <2>1, <1>10, NothingYet
  <2> USE DEF f
  <2> QED BY <2>2, <1>3, <1>7, <1>9, <1>10 DEF CallFits
<1> QED BY <1>1, <1>2, <1>10, <1>11, Advance

LEMMA ReturnsKeeps ==
  ASSUME ChargesInv, Returns
  PROVE  ChargesInv'
<1>1. /\ stage = "running" /\ calls' = SubSeq(calls, 1, Len(calls) - 1)
      /\ stage' = IF Len(calls) = 1 THEN "ended" ELSE stage
      /\ UNCHANGED <<target, floor, table, round, emitted, frames, granted>>
  BY DEF Returns, AtEnd
<1>2. calls \in Seq(OpenCall) /\ Len(calls) \in Nat \ {0}
  BY <1>1, TopFits DEF ChargesInv, ChargesType, OpenCall
<1>3. /\ calls' \in Seq(OpenCall) /\ Len(calls') = Len(calls) - 1
      /\ \A k \in 1..(Len(calls) - 1) : calls'[k] = calls[k]
  <2> DEFINE s == SubSeq(calls, 1, Len(calls) - 1)
  <2>1. 1 \in Int /\ Len(calls) - 1 \in Int /\ \A k \in 1..(Len(calls) - 1) : calls[k] \in OpenCall
    BY <1>2
  <2>2. /\ s \in Seq(OpenCall)
        /\ Len(s) = IF 1 <= Len(calls) - 1 THEN (Len(calls) - 1) - 1 + 1 ELSE 0
        /\ \A k \in 1..(Len(calls) - 1) - 1 + 1 : s[k] = calls[1 + k - 1]
    BY <2>1, SubSeqProperties
  <2>3. calls' = s
    BY <1>1
  <2> HIDE DEF s
  <2> QED BY <2>2, <2>3, <1>2
<1>4. ASSUME NEW k \in DOMAIN calls' PROVE CallFits(calls'[k], emitted.code, table, granted)
  <2>1. k \in 1..(Len(calls) - 1) /\ k \in DOMAIN calls
    BY <1>2, <1>3
  <2> QED BY <2>1, <1>3 DEF ChargesInv, CallsFit
<1>5. stage' = "running" <=> calls' # <<>>
  <2>1. calls' = <<>> <=> Len(calls') = 0
    BY <1>3
  <2> QED BY <2>1, <1>1, <1>2, <1>3
<1>6. ChargesType'
  BY <1>1, <1>3 DEF ChargesInv, ChargesType, OpenCall
<1>7. Checked' /\ FramesFit'
  BY <1>1 DEF ChargesInv, Checked, FramesFit, Required, reservation
<1>8. CallsFit'
  BY <1>1, <1>4, <1>5 DEF CallsFit
<1> QED BY <1>6, <1>7, <1>8 DEF ChargesInv

LEMMA ChargesInductive == ChargesInv /\ [ChargesNext]_chargesVars => ChargesInv'
<1> SUFFICES ASSUME ChargesInv, [ChargesNext]_chargesVars PROVE ChargesInv'
  OBVIOUS
<1>1. CASE Emits
  BY <1>1, EmitsKeeps
<1>2. CASE Measures
  BY <1>2, MeasuresKeeps
<1>3. CASE Enters
  BY <1>3, EntersKeeps
<1>4. CASE Computes
  BY <1>4, ComputesKeeps
<1>5. CASE Calls
  BY <1>5, CallsKeeps
<1>6. CASE GoesOn
  BY <1>6, GoesOnKeeps
<1>7. CASE Returns
  BY <1>7, ReturnsKeeps
<1>8. CASE UNCHANGED chargesVars
  BY <1>8 DEF chargesVars, ChargesInv, ChargesType, Checked, FramesFit, CallsFit, Required,
              reservation
<1> QED BY <1>1, <1>2, <1>3, <1>4, <1>5, <1>6, <1>7, <1>8 DEF ChargesNext

(* The refinement of charges and the code it ends with keep the invariant:  *)
(* what runs has passed the check with the charges its frames fit in.      *)
THEOREM ChargesInvariant == ChargesSpec => []ChargesInv
BY ChargesStarts, ChargesInductive, PTL DEF ChargesSpec

(* Calls of generated code never go deeper than the budget the host grants. *)
THEOREM WithinTheGrant == ChargesSpec => []StackHolds
<1>1. ASSUME ChargesInv PROVE StackHolds
  <2>1. ASSUME NEW k \in DOMAIN calls PROVE calls[k].used <= granted
    <3>1. calls[k] \in OpenCall /\ CallFits(calls[k], emitted.code, table, granted)
      <4>1. calls \in Seq(OpenCall)
        BY <1>1 DEF ChargesInv, ChargesType, OpenCall
      <4> QED BY <1>1, <4>1 DEF ChargesInv, CallsFit
    <3>2. calls[k].used \in Nat /\ calls[k].left \in Nat /\ granted \in Int
      BY <3>1, <1>1, ChargesAssumption DEF OpenCall, ChargesInv, ChargesType
    <3>3. calls[k].used + calls[k].left <= granted
      BY <3>1 DEF CallFits
    <3> QED BY <3>2, <3>3
  <2> QED BY <2>1 DEF StackHolds
<1> QED BY <1>1, ChargesInvariant, PTL
=============================================================================
