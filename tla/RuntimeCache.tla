----------------------------- MODULE RuntimeCache -----------------------------
(***************************************************************************)
(* The cache of native runtimes (runtime_cache.rs): one entry that         *)
(* builders publish and restore at the same time, file by file, while the  *)
(* user may empty it and a builder may be stopped half-way. Every step is  *)
(* one call of the file system.                                            *)
(***************************************************************************)
EXTENDS Naturals, Sequences

CONSTANTS Builders,
          Builds,     \* what a file of a runtime may hold
          Nothing     \* what a file that is missing holds

ASSUME CacheAssumption == Builds # {} /\ \A b, c \in Builds : Nothing \notin {b, <<b, c>>}

Artifacts == <<"runtime", "rust-build.txt">>
Sums == "SHA256SUMS"
Places == {"runtime", "rust-build.txt", Sums}
Bare == [f \in Places |-> Nothing]

VARIABLES entry,     \* the published directory: present, and what its files hold
          temp,      \* each builder's temporary directory
          out,       \* each builder's output directory
          expected,  \* the sums a builder read or computed
          at         \* what a builder is about to do, and to which file

cacheVars == <<entry, temp, out, expected, at>>

Call(call, file) == [call |-> call, file |-> file]
Resting == Call("idle", 0)

checksum(dir) == <<dir["runtime"], dir["rust-build.txt"]>>

\* A file that is missing cannot be summed.
Summed(dir) == Nothing \notin {dir["runtime"], dir["rust-build.txt"]}

Goes(b, step) == at' = [at EXCEPT ![b] = step]

(***************************************************************************)
(* restore: an absent entry is a miss; the copies are summed again.        *)
(***************************************************************************)
Restore(b) ==
  /\ at[b] = Resting
  /\ Goes(b, IF entry.present THEN Call("read", 0) ELSE Call("missed", 0))
  /\ out' = [out EXCEPT ![b] = Bare]
  /\ UNCHANGED <<entry, temp, expected>>

RestoreRead(b) ==
  /\ at[b].call = "read"
  /\ expected' = [expected EXCEPT ![b] = entry.files[Sums]]
  /\ Goes(b, IF entry.files[Sums] = Nothing THEN Call("refused", 0) ELSE Call("sum", 0))
  /\ UNCHANGED <<entry, temp, out>>

RestoreSum(b) ==
  /\ at[b].call = "sum"
  /\ Goes(b, IF Summed(entry.files) /\ checksum(entry.files) = expected[b]
             THEN Call("fetch", 1) ELSE Call("refused", 0))
  /\ UNCHANGED <<entry, temp, out, expected>>

RestoreCopy(b) ==
  LET file == Artifacts[at[b].file]
  IN /\ at[b].call = "fetch"
     /\ out' = [out EXCEPT ![b][file] = entry.files[file]]
     /\ Goes(b, IF entry.files[file] = Nothing THEN Call("refused", 0)
                ELSE IF at[b].file < Len(Artifacts) THEN Call("fetch", at[b].file + 1)
                ELSE Call("check", 0))
     /\ UNCHANGED <<entry, temp, expected>>

\* Slip: the copies are not validated.
RestoreTrusting(b) ==
  /\ at[b].call = "check"
  /\ Goes(b, Call("restored", 0))
  /\ UNCHANGED <<entry, temp, out, expected>>

RestoreCheck(b) ==
  /\ at[b].call = "check"
  /\ Goes(b, IF checksum(out[b]) = expected[b] THEN Call("restored", 0)
             ELSE Call("refused", 0))
  /\ UNCHANGED <<entry, temp, out, expected>>

(***************************************************************************)
(* publish: into a directory of the builder's own, then by rename.         *)
(***************************************************************************)
Publish(b) ==
  /\ at[b] = Resting
  /\ \E build \in Builds :
       out' = [out EXCEPT ![b] = [Bare EXCEPT !["runtime"] = build,
                                              !["rust-build.txt"] = build]]
  /\ temp' = [temp EXCEPT ![b] = Bare]
  /\ Goes(b, Call("copy", 1))
  /\ UNCHANGED <<entry, expected>>

PublishCopy(b) ==
  LET file == Artifacts[at[b].file]
  IN /\ at[b].call = "copy"
     /\ temp' = [temp EXCEPT ![b][file] = out[b][file]]
     /\ Goes(b, IF at[b].file < Len(Artifacts) THEN Call("copy", at[b].file + 1)
                ELSE Call("sums", 0))
     /\ UNCHANGED <<entry, out, expected>>

PublishSums(b) ==
  /\ at[b].call = "sums"
  /\ expected' = [expected EXCEPT ![b] = checksum(temp[b])]
  /\ temp' = [temp EXCEPT ![b][Sums] = checksum(temp[b])]
  /\ Goes(b, Call("rename", 0))
  /\ UNCHANGED <<entry, out>>

\* A directory is renamed over nothing, or over an empty directory, in one step.
PublishRename(b) ==
  /\ at[b].call = "rename"
  /\ IF ~entry.present \/ entry.files = Bare
     THEN entry' = [present |-> TRUE, files |-> temp[b]] /\ Goes(b, Call("published", 0))
     ELSE UNCHANGED entry /\ Goes(b, Call("compare", 0))
  /\ UNCHANGED <<temp, out, expected>>

PublishCompare(b) ==
  /\ at[b].call = "compare"
  /\ Goes(b, IF entry.files[Sums] # expected[b] THEN Call("refused", 0)
             ELSE Call("resum", 0))
  /\ UNCHANGED <<entry, temp, out, expected>>

PublishResum(b) ==
  /\ at[b].call = "resum"
  /\ Goes(b, IF Summed(entry.files) /\ checksum(entry.files) = expected[b]
             THEN Call("published", 0) ELSE Call("refused", 0))
  /\ UNCHANGED <<entry, temp, out, expected>>

\* A builder ends, or is stopped at any call: the next one takes a temporary
\* directory of a new name, and what this one had written is never looked at.
Ends(b) ==
  /\ at[b] # Resting
  /\ Goes(b, Resting)
  /\ temp' = [temp EXCEPT ![b] = Bare]
  /\ out' = [out EXCEPT ![b] = Bare]
  /\ expected' = [expected EXCEPT ![b] = Nothing]
  /\ UNCHANGED entry

\* The user empties the cache, a file at a time.
Evict ==
  /\ entry.present
  /\ \/ \E f \in Places : /\ entry.files[f] # Nothing
                          /\ entry' = [entry EXCEPT !.files[f] = Nothing]
     \/ /\ entry.files = Bare
        /\ entry' = [entry EXCEPT !.present = FALSE]
  /\ UNCHANGED <<temp, out, expected, at>>

CacheInit ==
  /\ entry = [present |-> FALSE, files |-> Bare]
  /\ temp = [b \in Builders |-> Bare]
  /\ out = [b \in Builders |-> Bare]
  /\ expected = [b \in Builders |-> Nothing]
  /\ at = [b \in Builders |-> Resting]

CacheNext ==
  \/ \E b \in Builders :
       \/ Restore(b) \/ RestoreRead(b) \/ RestoreSum(b) \/ RestoreCopy(b) \/ RestoreCheck(b)
       \/ Publish(b) \/ PublishCopy(b) \/ PublishSums(b) \/ PublishRename(b)
       \/ PublishCompare(b) \/ PublishResum(b) \/ Ends(b)
  \/ Evict

CacheSpec == CacheInit /\ [][CacheNext]_cacheVars

(***************************************************************************)
(* A builder never links half of one build and half of another: what it    *)
(* restored is one whole build, and what the cache holds is never a mix,   *)
(* however publishers, restorers and evictions interleave                  *)
(* (runtime_cache.rs restore, publish).                                    *)
(***************************************************************************)
EntriesWhole ==
  /\ \A b \in Builders :
       at[b].call = "restored" =>
         \E build \in Builds : checksum(out[b]) = <<build, build>>
  /\ \E build \in Builds :
       /\ \A f \in {"runtime", "rust-build.txt"} : entry.files[f] \in {build, Nothing}
       /\ entry.files[Sums] \in {<<build, build>>, Nothing}
=============================================================================
