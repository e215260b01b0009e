------------------------------ MODULE Supervisor ------------------------------
(***************************************************************************)
(* Supervision of a child process (process.rs): the supervisor polls two   *)
(* reader threads and the child, which may have left a helper in its       *)
(* process group, and kills the group when there is too much output or too *)
(* little time.                                                            *)
(***************************************************************************)
EXTENDS Naturals, FiniteSets

CONSTANTS OutputLimit, Deadlines   \* a set of booleans: commands with or without a deadline

ASSUME SupervisorAssumption == OutputLimit \in Nat /\ Deadlines \subseteq BOOLEAN

Pipes == {"stdout", "stderr"}
Group == {"child", "helper"}

VARIABLES deadline,  \* whether the command has a deadline
          late,      \* the deadline has passed
          live,      \* the members of the process group that run
          holds,     \* which of them hold the write end of which pipe
          zombie,    \* the child has ended and has not been waited for
          written,   \* what was written to each pipe
          reader,    \* each reader thread: reads, stored, finished
          exceeded,  \* the flag the readers share
          pc,        \* the supervisor
          result

superVars == <<deadline, late, live, holds, zombie, written, reader, exceeded, pc, result>>
childVars == <<live, holds, zombie, written>>
seenVars  == <<deadline, late, reader, exceeded, pc, result>>

(***************************************************************************)
(* The child and its helper (outside the repository): they write, fork,    *)
(* close a pipe and end when they like. The kernel closes what the dead    *)
(* held.                                                                   *)
(***************************************************************************)
Writes(p, w) ==
  /\ <<p, w>> \in holds
  /\ reader[w] = "reads" /\ written[w] <= OutputLimit
  /\ written' = [written EXCEPT ![w] = @ + 1]
  /\ UNCHANGED <<live, holds, zombie>> /\ UNCHANGED seenVars

Closes(p, w) ==
  /\ <<p, w>> \in holds
  /\ holds' = holds \ {<<p, w>>}
  /\ UNCHANGED <<live, zombie, written>> /\ UNCHANGED seenVars

Forks ==
  /\ live = {"child"} /\ ~zombie
  /\ live' = Group
  /\ holds' = holds \cup {<<"helper", w>> : w \in {w \in Pipes : <<"child", w>> \in holds}}
  /\ UNCHANGED <<zombie, written>> /\ UNCHANGED seenVars

Dead(gone) ==
  /\ live' = live \ gone
  /\ holds' = {h \in holds : h[1] \notin gone}
  /\ zombie' = (zombie \/ "child" \in gone \cap live)

Exits(p) ==
  /\ p \in live
  /\ Dead({p})
  /\ UNCHANGED written /\ UNCHANGED seenVars

Clock ==
  /\ deadline /\ ~late
  /\ late' = TRUE
  /\ UNCHANGED <<deadline, reader, exceeded, pc, result>> /\ UNCHANGED childVars

(***************************************************************************)
(* reader: to the end of the pipe or one byte past the limit; the flag is  *)
(* set before the thread is finished.                                      *)
(***************************************************************************)
Open(w) == \E p \in Group : <<p, w>> \in holds

ReaderStores(w) ==
  /\ reader[w] = "reads"
  /\ written[w] > OutputLimit \/ ~Open(w)
  /\ exceeded' = (exceeded \/ written[w] > OutputLimit)
  /\ reader' = [reader EXCEPT ![w] = "stored"]
  /\ UNCHANGED <<deadline, late, pc, result>> /\ UNCHANGED childVars

ReaderFinishes(w) ==
  /\ reader[w] = "stored"
  /\ reader' = [reader EXCEPT ![w] = "finished"]
  /\ UNCHANGED <<deadline, late, exceeded, pc, result>> /\ UNCHANGED childVars

Reader(w) == ReaderStores(w) \/ ReaderFinishes(w)

(***************************************************************************)
(* run_inner.                                                              *)
(***************************************************************************)
Finished == \A w \in Pipes : reader[w] = "finished"

Continues(label) == pc' = label /\ UNCHANGED <<deadline, late, reader, exceeded>>

Checks ==
  /\ pc = "checks"
  /\ Continues(IF exceeded \/ late THEN "kills" ELSE "polls")
  /\ UNCHANGED result /\ UNCHANGED childVars

\* Slip: the child is waited for while the pipes are open.
PollsAtOnce ==
  /\ pc = "polls"
  /\ IF zombie
     THEN zombie' = FALSE /\ Continues("joins")
     ELSE UNCHANGED zombie /\ Continues("checks")
  /\ UNCHANGED <<live, holds, written, result>>

Polls ==
  /\ pc = "polls"
  /\ IF Finished /\ zombie
     THEN zombie' = FALSE /\ Continues("joins")
     ELSE UNCHANGED zombie /\ Continues("checks")
  /\ UNCHANGED <<live, holds, written, result>>

kill_group ==
  /\ pc = "kills"
  /\ Dead(Group)
  /\ Continues("waits")
  /\ UNCHANGED <<written, result>>

Waits ==
  /\ pc = "waits"
  /\ zombie' = FALSE
  /\ Continues("drains")
  /\ UNCHANGED <<live, holds, written, result>>

\* The readers are joined, then the reason is chosen by looking at the flag again.
Drains ==
  /\ pc = "drains" /\ Finished
  /\ result' = IF exceeded THEN "limit" ELSE "deadline"
  /\ Continues("done")
  /\ UNCHANGED childVars

\* Slip: the flag is not looked at again once the child has ended.
JoinsTrusting ==
  /\ pc = "joins" /\ Finished
  /\ result' \in {"output", "failed"}
  /\ Continues("done")
  /\ UNCHANGED childVars

Joins ==
  /\ pc = "joins" /\ Finished
  /\ \/ exceeded /\ result' = "limit"
     \/ ~exceeded /\ result' \in {"output", "failed"}
  /\ Continues("done")
  /\ UNCHANGED childVars

Supervisor == Checks \/ Polls \/ kill_group \/ Waits \/ Drains \/ Joins

SuperInit ==
  /\ deadline \in Deadlines
  /\ late = FALSE
  /\ live = {"child"}
  /\ holds = {"child"} \X Pipes
  /\ zombie = FALSE
  /\ written = [w \in Pipes |-> 0]
  /\ reader = [w \in Pipes |-> "reads"]
  /\ exceeded = FALSE
  /\ pc = "checks"
  /\ result = "none"

SuperNext ==
  \/ \E p \in Group, w \in Pipes : Writes(p, w) \/ Closes(p, w)
  \/ \E p \in Group : Exits(p)
  \/ \E w \in Pipes : ReaderStores(w) \/ ReaderFinishes(w)
  \/ Forks \/ Clock
  \/ Checks \/ Polls \/ kill_group \/ Waits \/ Drains \/ Joins

\* The two threads and the clock run; the child and its helper need not.
SuperFair ==
  /\ WF_superVars(Supervisor) /\ WF_superVars(Clock)
  /\ \A w \in Pipes : WF_superVars(Reader(w))

SuperSpec == SuperInit /\ [][SuperNext]_superVars /\ SuperFair

(***************************************************************************)
(* When the supervisor answers, the child has been waited for and both     *)
(* readers have ended; after a kill nothing of its group runs; output is   *)
(* returned only when all of it was read within the limit. And the group   *)
(* is killed only while the child has not been waited for, so its number   *)
(* cannot have gone to another process (process.rs run_inner, kill_group). *)
(***************************************************************************)
ChildSettled ==
  /\ pc = "done" =>
       /\ "child" \notin live /\ ~zombie /\ Finished
       /\ result = "deadline" => live = {}
       /\ result = "output" => \A w \in Pipes : written[w] <= OutputLimit /\ ~Open(w)
  /\ pc = "kills" => "child" \in live \/ zombie

(***************************************************************************)
(* A command with a deadline is answered, whatever the child and its       *)
(* helper do with their pipes (process.rs run_inner).                      *)
(***************************************************************************)
Answered == deadline ~> (pc = "done")
=============================================================================
