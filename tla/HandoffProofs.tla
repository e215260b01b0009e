---------------------------- MODULE HandoffProofs ----------------------------
(***************************************************************************)
(* Proofs about Handoff, for any number of sessions.                       *)
(***************************************************************************)
EXTENDS Handoff, TLAPS

(***************************************************************************)
(* The invariant behind the pairing of requests and replies.  It holds of  *)
(* a host that closes only in answer to a request.                         *)
(***************************************************************************)

\* The host has taken a request from a poll and has not answered it yet.
Answering(s) ==
    \/ hpc[s] \in {"answer", "resume", "status"}
    \/ hpc[s] \in {"read", "clear"} /\ hsaw[s] \notin {"Finished", "Joined"}

\* The host knows the session has ended.
Leaving(s) ==
    \/ hpc[s] \in {"join", "discard", "done"}
    \/ hpc[s] \in {"read", "clear"} /\ hsaw[s] \in {"Finished", "Joined"}

Serving == {"saving", "restoring", "restored"}

\* What is posted is for the suspension in progress, and never both ways.
Posted(s) ==
    /\ shared[s].request # None =>
           wpc[s] = "waiting" /\ wkind[s] = shared[s].request
                              /\ shared[s].reply = None /\ ~shared[s].closed
    /\ shared[s].reply # None =>
           wpc[s] = "waiting" /\ s \notin unseen
                              /\ hpc[s] \in {"poll", "polling", "savepoll"}

\* While the host answers, its worker waits; when it leaves, its worker is done.
HostKnows(s) ==
    /\ Answering(s) => /\ shared[s].request = hsaw[s]
                       /\ hsaw[s] # None
                       /\ s \notin unseen
    /\ Leaving(s) => wpc[s] = "ended"
    /\ shared[s].finished => wpc[s] = "ended"

\* A save is in one place only: posted, being served, or over.
SaveInProgress(s) ==
    /\ shared[s].saveBusy =>
           shared[s].reply \in {"Save", "Restore"} \/ wpc[s] \in Serving
    /\ shared[s].reply \in {"Save", "Restore"} => hpc[s] = "savepoll"
    /\ hpc[s] = "savepoll" => ~shared[s].closed
    /\ wpc[s] \in Serving \cup {"again"} => hpc[s] = "savepoll" /\ wkind[s] = "Command"
    /\ hpc[s] = "savepoll" =>
           \/ wpc[s] \in Serving \cup {"again"}
           \/ /\ wpc[s] = "waiting"
              /\ \/ shared[s].reply \in {"Save", "Restore"}
                 \/ shared[s].request = "Command"

\* What the host is about to forget it has printed.
Printed(s) ==
    /\ hpc[s] = "clear" => hread[s] = shared[s].output
    /\ hpc[s] \in {"answer", "resume", "status", "savepoll", "discard"} =>
           shared[s].output = 0 /\ hread[s] = 0

Fits(s) == LET reply == shared[s].reply IN
    /\ reply = "Accepted" => wkind[s] = "HostAction"
    /\ reply = "Value" => wkind[s] = "EngineQuery"
    /\ reply \in {"Save", "Restore"} => wkind[s] = "Command"
    /\ reply \in {"Line", "Action"} => wkind[s] \in {"Command", "Line", "Key"}

Paired(s) == Posted(s) /\ HostKnows(s) /\ SaveInProgress(s) /\ Printed(s) /\ Fits(s)
PairedInv == \A s \in Slots : Paired(s)
-----------------------------------------------------------------------------
(***************************************************************************)
(* Type correctness.                                                       *)
(***************************************************************************)
LEMMA InitTypeOK == Init => TypeOK
BY HandoffAssumption DEF Init, TypeOK, Shared, Default, None, Requests, Replies, Threads,
   WorkerPC, HostPC, HostSaw

LEMMA TakeOrWaitTypeOK ==
    ASSUME TypeOK, NEW s \in Slots, NEW now \in Shared,
           NEW asleep \in SUBSET Threads, TakeOrWait(s, now, asleep)
    PROVE  /\ shared' \in [Slots -> Shared]
           /\ sleeping' \subseteq Threads
           /\ wpc' \in [Slots -> WorkerPC]
  <1>1. Worker(s) \in Threads
    BY DEF Worker, Threads
  <1>2. \A kind, reply : AfterReply(kind, reply) \subseteq WorkerPC
    BY DEF AfterReply, WorkerPC
  <1>3. [now EXCEPT !.reply = None] \in Shared /\ [now EXCEPT !.request = None] \in Shared
    BY DEF Shared
  <1> QED
    BY <1>1, <1>2, <1>3 DEF TakeOrWait, TypeOK, WorkerPC

LEMMA WithTypeOK ==
    ASSUME TypeOK, NEW s \in Slots, NEW r \in Shared, With(s, r)
    PROVE  shared' \in [Slots -> Shared] /\ sleeping' \subseteq Threads
BY DEF TypeOK, With, NotifyAll

LEMMA WorkerGoesTypeOK ==
    ASSUME TypeOK, NEW s \in Slots, NEW from, NEW to \in WorkerPC, WorkerGoes(s, from, to)
    PROVE  /\ wpc' \in [Slots -> WorkerPC]
           /\ hpc' \in [Slots -> HostPC]
           /\ hsaw' \in [Slots -> HostSaw]
           /\ hread' \in [Slots -> 0..MaxOutput]
BY DEF TypeOK, WorkerGoes

LEMMA HostGoesTypeOK ==
    ASSUME TypeOK, NEW s \in Slots, NEW from, NEW to \in HostPC, HostGoes(s, from, to)
    PROVE  /\ hpc' \in [Slots -> HostPC]
           /\ wpc' \in [Slots -> WorkerPC]
           /\ wkind' \in [Slots -> Requests]
BY DEF TypeOK, HostGoes

\* One step of a worker keeps the types.
LEMMA WorkerTypeOK == ASSUME TypeOK, NEW s \in Slots, WorkerNext(s) PROVE TypeOK'
  <1> DEFINE now == shared[s]
  <1>a. now \in Shared
    BY DEF TypeOK
  <1> HIDE DEF now
  <1>1. CASE Publish(s)
    <2>0. now.output < MaxOutput
      BY <1>1 DEF Publish, now
    <2>1. [now EXCEPT !.output = @ + 1] \in Shared
      BY <1>a, <2>0, HandoffAssumption DEF Shared
    <2>2. shared' \in [Slots -> Shared] /\ sleeping' \subseteq Threads
      BY <1>1, <2>1, WithTypeOK DEF Publish, now
    <2> QED
      BY <1>1, <2>2 DEF Publish, WorkerGoes, WorkerPC, With, NotifyAll, TypeOK
  <1>2. CASE AskInTurn(s)
    BY <1>2, HandoffAssumption DEF AskInTurn, WorkerGoes, WorkerPC, Requests, TypeOK
  <1>3. CASE EndTurn(s)
    BY <1>3 DEF EndTurn, WorkerGoes, WorkerPC, With, NotifyAll, TypeOK
  <1>4. CASE TakeInspection(s)
    <2>1. [now EXCEPT !.inspection = FALSE] \in Shared
      BY <1>a DEF Shared
    <2>2. shared' \in [Slots -> Shared]
      BY <1>4, <2>1 DEF TakeInspection, TypeOK, now
    <2> QED
      BY <1>4, <2>2 DEF TakeInspection, WorkerGoes, WorkerPC, Requests, TypeOK
  <1>5. CASE PublishResults(s)
    <2>1. [now EXCEPT !.results = TRUE] \in Shared
      BY <1>a DEF Shared
    <2>2. shared' \in [Slots -> Shared] /\ sleeping' \subseteq Threads
      BY <1>5, <2>1, WithTypeOK DEF PublishResults, now
    <2> QED
      BY <1>5, <2>2 DEF PublishResults, WorkerGoes, WorkerPC, With, NotifyAll, TypeOK
  <1>6. CASE Suspend(s)
    <2>1. PICK output \in {shared[s].output, shared[s].output + 1} :
              /\ output <= MaxOutput
              /\ TakeOrWait(s, [shared[s] EXCEPT !.request = wkind[s], !.output = output], {})
      BY <1>6 DEF Suspend
    <2>2. [shared[s] EXCEPT !.request = wkind[s], !.output = output] \in Shared
      <3>1. shared[s] \in Shared /\ wkind[s] \in Requests
        BY DEF TypeOK
      <3>2. output \in 0..MaxOutput
        BY <2>1, <3>1, HandoffAssumption DEF Shared
      <3> QED
        BY <3>1, <3>2 DEF Shared
    <2>3. unseen' \subseteq Slots /\ UNCHANGED <<wkind, hpc, hsaw, hread>>
      BY <1>6 DEF Suspend, TypeOK
    <2>4. /\ shared' \in [Slots -> Shared]
          /\ sleeping' \subseteq Threads
          /\ wpc' \in [Slots -> WorkerPC]
      BY <2>1, <2>2, TakeOrWaitTypeOK
    <2> QED
      BY <2>3, <2>4 DEF TypeOK
  <1>7. CASE Recheck(s)
    <2>1. /\ shared' \in [Slots -> Shared]
          /\ sleeping' \subseteq Threads
          /\ wpc' \in [Slots -> WorkerPC]
      BY <1>7, TakeOrWaitTypeOK DEF Recheck, TypeOK
    <2> QED
      BY <1>7, <2>1 DEF Recheck, TypeOK
  <1>8. CASE Restored(s)
    <2>0. 0 \in 0..MaxOutput
      BY HandoffAssumption
    <2>1. [now EXCEPT !.results = FALSE, !.inspection = FALSE,
                      !.output = 0, !.pending = {}] \in Shared
      BY <1>a, <2>0 DEF Shared
    <2>2. shared' \in [Slots -> Shared] /\ sleeping' \subseteq Threads
      BY <1>8, <2>1, WithTypeOK DEF Restored, now
    <2> QED
      BY <1>8, <2>2 DEF Restored, WorkerGoes, WorkerPC, With, NotifyAll, TypeOK
  <1>9. CASE Saved(s)
    <2>1. PICK status \in {"ok", "failed"} :
              With(s, [shared[s] EXCEPT !.saveStatus = status, !.saveBusy = FALSE])
      BY <1>9 DEF Saved
    <2>2. [now EXCEPT !.saveStatus = status, !.saveBusy = FALSE] \in Shared
      BY <1>a, <2>1 DEF Shared
    <2>3. shared' \in [Slots -> Shared] /\ sleeping' \subseteq Threads
      BY <2>1, <2>2, WithTypeOK DEF now
    <2> QED
      BY <1>9, <2>3 DEF Saved, WorkerGoes, WorkerPC, With, NotifyAll, TypeOK
  <1>10. CASE Close(s)
    <2>1. PICK output \in {shared[s].output, shared[s].output + 1} :
              /\ output <= MaxOutput
              /\ With(s, [shared[s] EXCEPT !.output = output])
      BY <1>10 DEF Close
    <2>0. output \in 0..MaxOutput
      BY <1>a, <2>1, HandoffAssumption DEF Shared, now
    <2>2. [now EXCEPT !.output = output] \in Shared
      BY <1>a, <2>0 DEF Shared
    <2>3. shared' \in [Slots -> Shared] /\ sleeping' \subseteq Threads
      BY <2>1, <2>2, WithTypeOK DEF now
    <2> QED
      BY <1>10, <2>3 DEF Close, WorkerGoes, WorkerPC, With, NotifyAll, TypeOK
  <1>11. CASE Finish(s)
    <2>1. [now EXCEPT !.request = None, !.finished = TRUE] \in Shared
      BY <1>a DEF Shared
    <2>2. shared' \in [Slots -> Shared] /\ sleeping' \subseteq Threads
      BY <1>11, <2>1, WithTypeOK DEF Finish, now
    <2> QED
      BY <1>11, <2>2 DEF Finish, WorkerGoes, WorkerPC, With, NotifyAll, TypeOK
  <1> QED
    BY <1>1, <1>2, <1>3, <1>4, <1>5, <1>6, <1>7, <1>8, <1>9, <1>10, <1>11 DEF WorkerNext

\* One step of a host keeps the types.
LEMMA HostTypeOK == ASSUME TypeOK, NEW s \in Slots, HostNext(s) PROVE TypeOK'
  <1> DEFINE now == shared[s]
  <1>a. now \in Shared
    BY DEF TypeOK
  <1> HIDE DEF now
  <1>0. Host(s) \in Threads
    BY DEF Host, Threads
  <1>1. CASE Poll(s)
    BY <1>0, <1>1 DEF Poll, HostGoes, HostPC, HostSaw, Shared, TypeOK
  <1>2. CASE ReadOutput(s)
    BY <1>2 DEF ReadOutput, HostGoes, HostPC, Shared, TypeOK
  <1>3. CASE Drained(s)
    <2>0. 0 \in 0..MaxOutput
      BY HandoffAssumption
    <2>1. [now EXCEPT !.output = 0] \in Shared
      BY <1>a, <2>0 DEF Shared
    <2>2. shared' \in [Slots -> Shared] /\ sleeping' \subseteq Threads
      BY <1>3, <2>1, WithTypeOK DEF Drained, now
    <2> QED
      BY <1>3, <2>0, <2>2 DEF Drained, HostGoes, HostPC, TypeOK
  <1>4. CASE Assemble(s)
    <2>1. PICK parts \in SUBSET {"text", "verb", "subjects"} :
              With(s, [shared[s] EXCEPT !.pending = @ \cup parts])
      BY <1>4 DEF Assemble
    <2>2. [now EXCEPT !.pending = @ \cup parts] \in Shared
      BY <1>a, <2>1 DEF Shared
    <2>3. shared' \in [Slots -> Shared] /\ sleeping' \subseteq Threads
      BY <2>1, <2>2, WithTypeOK DEF now
    <2> QED
      BY <1>4, <2>3 DEF Assemble, HostGoes, HostPC, With, NotifyAll, TypeOK
  <1>5. CASE Resume(s)
    <2> DEFINE reply == ReplyTo(shared[s].request, shared[s].pending)
    <2>1. reply \in Replies
      BY DEF ReplyTo, Replies
    <2> HIDE DEF reply
    <2>2. [now EXCEPT !.reply = reply, !.pending = {}, !.request = None] \in Shared
      BY <1>a, <2>1 DEF Shared
    <2>3. shared' \in [Slots -> Shared] /\ sleeping' \subseteq Threads
      BY <1>5, <2>2, WithTypeOK DEF Resume, reply, now
    <2> QED
      BY <1>5, <2>3 DEF Resume, HostGoes, HostPC, With, NotifyAll, TypeOK
  <1>6. CASE RefuseText(s)
    <2>1. [now EXCEPT !.pending = @ \ {"text"}] \in Shared
      BY <1>a DEF Shared
    <2>2. shared' \in [Slots -> Shared] /\ sleeping' \subseteq Threads
      BY <1>6, <2>1, WithTypeOK DEF RefuseText, now
    <2> QED
      BY <1>6, <2>2 DEF RefuseText, HostGoes, HostPC, With, NotifyAll, TypeOK
  <1>7. CASE Inspect(s)
    <2>1. [now EXCEPT !.inspection = TRUE] \in Shared
      BY <1>a DEF Shared
    <2>2. shared' \in [Slots -> Shared] /\ sleeping' \subseteq Threads
      BY <1>7, <2>1, WithTypeOK DEF Inspect, now
    <2> QED
      BY <1>7, <2>2 DEF Inspect, HostGoes, HostPC, With, NotifyAll, TypeOK
  <1>8. CASE Persist(s)
    <2>1. PICK reply \in {"Save", "Restore"} :
              With(s, [shared[s] EXCEPT !.saveBusy = TRUE, !.request = None,
                                        !.reply = reply])
      BY <1>8 DEF Persist
    <2>2. [now EXCEPT !.saveBusy = TRUE, !.request = None, !.reply = reply] \in Shared
      BY <1>a, <2>1 DEF Shared, Replies
    <2>3. shared' \in [Slots -> Shared] /\ sleeping' \subseteq Threads
      BY <2>1, <2>2, WithTypeOK DEF now
    <2> QED
      BY <1>8, <2>3 DEF Persist, HostGoes, HostPC, With, NotifyAll, TypeOK
  <1>9. CASE PollSaved(s)
    BY <1>0, <1>9 DEF PollSaved, HostGoes, HostPC, HostSaw, Shared, TypeOK
  <1>10. CASE ReadStatus(s)
    BY <1>10 DEF ReadStatus, HostGoes, HostPC, NotifyAll, TypeOK
  <1>11. CASE EndOfInput(s)
    <2>1. [now EXCEPT !.closed = TRUE, !.reply = "Eof", !.request = None] \in Shared
      BY <1>a DEF Shared, Replies
    <2>2. shared' \in [Slots -> Shared] /\ sleeping' \subseteq Threads
      BY <1>11, <2>1, WithTypeOK DEF EndOfInput, now
    <2> QED
      BY <1>11, <2>2 DEF EndOfInput, HostGoes, HostPC, With, NotifyAll, TypeOK
  <1>12. CASE Join(s)
    BY <1>12 DEF Join, HostGoes, HostPC, HostSaw, TypeOK
  <1>13. CASE Discard(s)
    <2>1. Default \in Shared
      BY HandoffAssumption DEF Shared, Default
    <2>2. shared' \in [Slots -> Shared] /\ sleeping' \subseteq Threads
      BY <1>13, <2>1, WithTypeOK DEF Discard, now
    <2> QED
      BY <1>13, <2>2 DEF Discard, HostGoes, HostPC, With, NotifyAll, TypeOK
  <1> QED
    BY <1>1, <1>2, <1>3, <1>4, <1>5, <1>6, <1>7, <1>8, <1>9, <1>10, <1>11, <1>12, <1>13
       DEF HostNext

\* The state of the handoff is always one the code's types can hold, and the
\* program counters name a place in the two loops.
THEOREM TypeCorrect == Safety => []TypeOK
  <1>1. ASSUME TypeOK, [Next]_vars PROVE TypeOK'
    <2>1. CASE \E s \in Slots : WorkerNext(s) \/ HostNext(s)
      BY <1>1, <2>1, WorkerTypeOK, HostTypeOK
    <2>2. CASE \E t \in Threads : SpuriousWakeup(t)
      BY <1>1, <2>2 DEF SpuriousWakeup, TypeOK
    <2>3. CASE Exit \/ UNCHANGED vars
      BY <1>1, <2>3 DEF Exit, vars, TypeOK
    <2> QED
      BY <1>1, <2>1, <2>2, <2>3 DEF Next
  <1> QED
    BY InitTypeOK, <1>1, PTL DEF Safety
-----------------------------------------------------------------------------
(***************************************************************************)
(* Wake-ups.  Most critical sections end by waking every thread, and then  *)
(* nobody is asleep.  The ones that do not are taken one by one.           *)
(***************************************************************************)
LEMMA ThreadsDiffer ==
    \A s, t \in Slots : /\ Worker(s) # Host(t)
                        /\ Worker(s) = Worker(t) => s = t
                        /\ Host(s) = Host(t) => s = t
BY DEF Worker, Host

LEMMA WorkerNoLostWakeup ==
    ASSUME TypeOK, NoLostWakeup, NEW t \in Slots, WorkerNext(t)
    PROVE  NoLostWakeup'
  <1>1. CASE NotifyAll
    BY <1>1 DEF NotifyAll, NoLostWakeup
  <1>2. CASE AskInTurn(t)
    BY <1>2, ThreadsDiffer DEF AskInTurn, WorkerGoes, NoLostWakeup, TypeOK
  <1>3. CASE EndTurn(t)
    BY <1>3, ThreadsDiffer DEF EndTurn, WorkerGoes, NoLostWakeup, TypeOK
  <1>4. CASE TakeInspection(t)
    BY <1>4, ThreadsDiffer DEF TakeInspection, WorkerGoes, NoLostWakeup, TypeOK, Shared
  <1>5. CASE Suspend(t)
    <2>1. PICK output :
              TakeOrWait(t, [shared[t] EXCEPT !.request = wkind[t], !.output = output], {})
      BY <1>5 DEF Suspend
    <2>2. \/ sleeping' = {}
          \/ /\ sleeping' = {Worker(t)}
             /\ wpc'[t] = "waiting"
             /\ shared'[t].reply = None
             /\ ~shared'[t].closed
      BY <2>1 DEF TakeOrWait, TypeOK, Shared
    <2> QED
      BY <2>2, ThreadsDiffer DEF NoLostWakeup
  <1>6. CASE Recheck(t)
    <2>1. /\ Worker(t) \notin sleeping
          /\ TakeOrWait(t, shared[t], sleeping)
          /\ UNCHANGED hpc
      BY <1>6 DEF Recheck
    <2>2. \/ sleeping' = sleeping
          \/ /\ sleeping' = sleeping \cup {Worker(t)}
             /\ wpc'[t] = "waiting"
             /\ shared'[t].reply = None
             /\ ~shared'[t].closed
      BY <2>1 DEF TakeOrWait, TypeOK
    <2>3. /\ shared'[t].finished = shared[t].finished
          /\ shared[t].request = None => shared'[t].request = None
      BY <2>1 DEF TakeOrWait, TypeOK, Shared
    <2>4. \A s \in Slots \ {t} : shared'[s] = shared[s] /\ wpc'[s] = wpc[s]
      BY <2>1 DEF TakeOrWait, TypeOK
    <2> QED
      BY <2>1, <2>2, <2>3, <2>4, ThreadsDiffer DEF NoLostWakeup
  <1> QED
    BY <1>1, <1>2, <1>3, <1>4, <1>5, <1>6
       DEF WorkerNext, Publish, PublishResults, Restored, Saved, Close, Finish, With

LEMMA HostNoLostWakeup ==
    ASSUME TypeOK, NoLostWakeup, NEW t \in Slots, HostNext(t)
    PROVE  NoLostWakeup'
  <1>1. CASE NotifyAll
    BY <1>1 DEF NotifyAll, NoLostWakeup
  <1>2. CASE Poll(t)
    BY <1>2, ThreadsDiffer DEF Poll, HostGoes, NoLostWakeup, TypeOK
  <1>3. CASE ReadOutput(t)
    BY <1>3, ThreadsDiffer DEF ReadOutput, HostGoes, NoLostWakeup, TypeOK
  <1>4. CASE PollSaved(t)
    BY <1>4, ThreadsDiffer DEF PollSaved, HostGoes, NoLostWakeup, TypeOK
  <1>5. CASE Join(t)
    BY <1>5, ThreadsDiffer DEF Join, HostGoes, NoLostWakeup, TypeOK
  <1> QED
    BY <1>1, <1>2, <1>3, <1>4, <1>5
       DEF HostNext, Drained, Assemble, Resume, RefuseText, Inspect, Persist,
           ReadStatus, EndOfInput, Discard, With

\* However many sessions share the condition variable, no thread sleeps through
\* what it waits for, even when the host closes without polling.
THEOREM WakeupsReachTheirThread == Safety => []NoLostWakeup
  <1>1. Init => NoLostWakeup
    BY DEF Init, NoLostWakeup
  <1>2. ASSUME TypeOK, NoLostWakeup, [Next]_vars PROVE NoLostWakeup'
    <2>1. CASE \E s \in Slots : WorkerNext(s) \/ HostNext(s)
      BY <1>2, <2>1, WorkerNoLostWakeup, HostNoLostWakeup
    <2>2. CASE \E t \in Threads : SpuriousWakeup(t)
      BY <1>2, <2>2 DEF SpuriousWakeup, NoLostWakeup
    <2>3. CASE Exit \/ UNCHANGED vars
      BY <1>2, <2>3 DEF Exit, vars, NoLostWakeup
    <2> QED
      BY <1>2, <2>1, <2>2, <2>3 DEF Next
  <1> QED
    BY TypeCorrect, <1>1, <1>2, PTL DEF Safety
-----------------------------------------------------------------------------
(***************************************************************************)
(* Pairing.  A step of one session leaves the others as they are, so it is *)
(* enough that it keeps its own session paired.                            *)
(***************************************************************************)
LEMMA OthersUntouched ==
    ASSUME TypeOK, NEW t \in Slots, WorkerNext(t) \/ HostNext(t),
           NEW s \in Slots, s # t
    PROVE  /\ shared'[s] = shared[s] /\ wpc'[s] = wpc[s] /\ wkind'[s] = wkind[s]
           /\ hpc'[s] = hpc[s] /\ hsaw'[s] = hsaw[s] /\ hread'[s] = hread[s]
           /\ s \in unseen' <=> s \in unseen
  <1> USE DEF TypeOK, With, WorkerGoes, HostGoes
  <1>1. CASE WorkerNext(t)
    BY <1>1 DEF WorkerNext, Publish, AskInTurn, EndTurn, TakeInspection, PublishResults,
       Suspend, Recheck, TakeOrWait, Restored, Saved, Close, Finish
  <1>2. CASE HostNext(t)
    BY <1>2 DEF HostNext, Poll, ReadOutput, Drained, Assemble, Resume, RefuseText, Inspect,
       Persist, PollSaved, ReadStatus, EndOfInput, Join, Discard
  <1> QED
    BY <1>1, <1>2

LEMMA WorkerKeepsPaired ==
    ASSUME EagerClose = FALSE, TypeOK, NEW t \in Slots, Paired(t), WorkerNext(t)
    PROVE  Paired(t)'
  <1> USE DEF TypeOK, Paired, Posted, HostKnows, SaveInProgress, Printed, Fits, Answering, Leaving, Serving
  <1>1. CASE Publish(t)
    BY <1>1 DEF Publish, WorkerGoes, With, Shared, Requests, Replies, None
  <1>2. CASE AskInTurn(t)
    BY <1>2 DEF AskInTurn, WorkerGoes, With, Shared, Requests, Replies, None
  <1>3. CASE EndTurn(t)
    BY <1>3 DEF EndTurn, WorkerGoes, With, Shared, Requests, Replies, None
  <1>4. CASE TakeInspection(t)
    BY <1>4 DEF TakeInspection, WorkerGoes, With, Shared, Requests, Replies, None
  <1>5. CASE PublishResults(t)
    BY <1>5 DEF PublishResults, WorkerGoes, With, Shared, Requests, Replies, None
  <1>6. CASE Suspend(t)
    <2>1. PICK output \in {shared[t].output, shared[t].output + 1} :
              /\ output <= MaxOutput
              /\ wpc[t] = "again" => output = shared[t].output
              /\ TakeOrWait(t, [shared[t] EXCEPT !.request = wkind[t], !.output = output], {})
      BY <1>6 DEF Suspend
    <2>2. wpc[t] \in {"suspending", "again"} /\ UNCHANGED <<wkind, hpc, hsaw, hread>>
      BY <1>6 DEF Suspend
    <2>3. /\ shared[t].reply = None
          /\ ~Answering(t) /\ ~Leaving(t)
          /\ ~shared[t].finished
          /\ ~shared[t].saveBusy
          /\ hpc[t] \notin {"clear", "answer", "resume", "status", "discard"}
      BY <2>2 DEF None
    <2>4. /\ shared[t].closed => wpc[t] = "suspending" /\ hpc[t] # "savepoll"
          /\ hpc[t] = "savepoll" => wkind[t] = "Command" /\ output = shared[t].output
      BY <2>1, <2>2, <2>3
    <2> DEFINE now == [shared[t] EXCEPT !.request = wkind[t], !.output = output]
    <2>5. now \in Shared
      <3>1. shared[t] \in Shared /\ wkind[t] \in Requests
        OBVIOUS
      <3>2. output \in 0..MaxOutput
        BY <2>1, <3>1, HandoffAssumption DEF Shared
      <3> QED
        BY <3>1, <3>2 DEF Shared
    <2>6. /\ now.request = wkind[t] /\ now.reply = None /\ now.output = output
          /\ now.closed = shared[t].closed
          /\ ~now.finished /\ ~now.saveBusy
      BY <2>3 DEF Shared
    <2> HIDE DEF now
    <2>7. TakeOrWait(t, now, {})
      BY <2>1 DEF now
    <2>8. CASE shared[t].closed
      <3>1. /\ shared'[t].request = None /\ shared'[t].reply = None
            /\ ~shared'[t].finished /\ ~shared'[t].saveBusy
            /\ wpc'[t] \in {"running", "closing"}
        BY <2>5, <2>6, <2>7, <2>8 DEF TakeOrWait, AfterReply, Shared
      <3> QED
        BY <2>2, <2>3, <2>4, <2>8, <3>1 DEF None
    <2>9. CASE ~shared[t].closed
      <3>1. shared'[t] = now /\ wpc'[t] = "waiting"
        BY <2>6, <2>7, <2>9 DEF TakeOrWait
      <3> QED
        BY <2>2, <2>3, <2>4, <2>6, <2>9, <3>1 DEF None
    <2> QED
      BY <2>8, <2>9
  <1>7. CASE Recheck(t)
    BY <1>7 DEF Recheck, TakeOrWait, AfterReply, WorkerGoes, With, Shared, Requests, Replies, None
  <1>8. CASE Restored(t)
    BY <1>8 DEF Restored, WorkerGoes, With, Shared, Requests, Replies, None
  <1>9. CASE Saved(t)
    BY <1>9 DEF Saved, WorkerGoes, With, Shared, Requests, Replies, None
  <1>10. CASE Close(t)
    BY <1>10 DEF Close, WorkerGoes, With, Shared, Requests, Replies, None
  <1>11. CASE Finish(t)
    BY <1>11 DEF Finish, WorkerGoes, With, Shared, Requests, Replies, None
  <1> QED
    BY <1>1, <1>2, <1>3, <1>4, <1>5, <1>6, <1>7, <1>8, <1>9, <1>10, <1>11 DEF WorkerNext

LEMMA HostKeepsPaired ==
    ASSUME EagerClose = FALSE, TypeOK, NEW t \in Slots, Paired(t), HostNext(t)
    PROVE  Paired(t)'
  <1> USE DEF TypeOK, Paired, Posted, HostKnows, SaveInProgress, Printed, Fits, Answering, Leaving, Serving
  <1>1. CASE Poll(t)
    BY <1>1 DEF Poll, HostGoes, With, Shared, Requests, Replies, None
  <1>2. CASE ReadOutput(t)
    BY <1>2 DEF ReadOutput, HostGoes, With, Shared, Requests, Replies, None
  <1>3. CASE Drained(t)
    BY <1>3 DEF Drained, HostGoes, With, Shared, Requests, Replies, None
  <1>4. CASE Assemble(t)
    BY <1>4 DEF Assemble, HostGoes, With, Shared, Requests, Replies, None
  <1>5. CASE Resume(t)
    BY <1>5 DEF Resume, ReplyTo, HostGoes, With, Shared, Requests, Replies, None
  <1>6. CASE RefuseText(t)
    BY <1>6 DEF RefuseText, HostGoes, With, Shared, Requests, Replies, None
  <1>7. CASE Inspect(t)
    BY <1>7 DEF Inspect, HostGoes, With, Shared, Requests, Replies, None
  <1>8. CASE Persist(t)
    BY <1>8 DEF Persist, HostGoes, With, Shared, Requests, Replies, None
  <1>9. CASE PollSaved(t)
    BY <1>9 DEF PollSaved, HostGoes, With, Shared, Requests, Replies, None
  <1>10. CASE ReadStatus(t)
    BY <1>10 DEF ReadStatus, HostGoes, With, Shared, Requests, Replies, None
  <1>11. CASE EndOfInput(t)
    BY <1>11 DEF EndOfInput, HostGoes, With, Shared, Requests, Replies, None
  <1>12. CASE Join(t)
    BY <1>12 DEF Join, HostGoes, With, Shared, Requests, Replies, None
  <1>13. CASE Discard(t)
    BY <1>13 DEF Discard, Default, HostGoes, With, Shared, Requests, Replies, None
  <1> QED
    BY <1>1, <1>2, <1>3, <1>4, <1>5, <1>6, <1>7, <1>8, <1>9, <1>10, <1>11, <1>12, <1>13 DEF HostNext

\* Requests and replies stay paired in every session of a host that closes only
\* when it has been asked for something.
THEOREM AlwaysPaired == ASSUME EagerClose = FALSE PROVE Safety => []PairedInv
  <1>1. ASSUME Init PROVE PairedInv
    <2>1. ASSUME NEW s \in Slots PROVE Paired(s)
      <3>1. /\ shared[s].request = None /\ shared[s].reply = None
            /\ ~shared[s].finished /\ ~shared[s].saveBusy
            /\ wpc[s] = "running" /\ hpc[s] = "poll"
        BY <1>1 DEF Init, Default
      <3> QED
        BY <3>1 DEF Paired, Posted, HostKnows, SaveInProgress, Printed, Fits,
           Answering, Leaving, Serving, None
    <2> QED
      BY <2>1 DEF PairedInv
  <1>2. ASSUME TypeOK, PairedInv, [Next]_vars PROVE PairedInv'
    <2>1. CASE \E t \in Slots : WorkerNext(t) \/ HostNext(t)
      <3>1. PICK t \in Slots : WorkerNext(t) \/ HostNext(t)
        BY <2>1
      <3>2. Paired(t)'
        BY <1>2, <3>1, WorkerKeepsPaired, HostKeepsPaired DEF PairedInv
      <3>3. ASSUME NEW s \in Slots, s # t PROVE Paired(s)'
        BY <1>2, <3>1, <3>3, OthersUntouched
           DEF PairedInv, Paired, Posted, HostKnows, SaveInProgress, Printed, Fits,
               Answering, Leaving
      <3> QED
        BY <3>2, <3>3 DEF PairedInv
    <2>2. CASE \E t \in Threads : SpuriousWakeup(t)
      BY <1>2, <2>2 DEF SpuriousWakeup, PairedInv, Paired, Posted, HostKnows,
         SaveInProgress, Printed, Fits, Answering, Leaving
    <2>3. CASE Exit \/ UNCHANGED vars
      BY <1>2, <2>3 DEF Exit, vars, PairedInv, Paired, Posted, HostKnows,
         SaveInProgress, Printed, Fits, Answering, Leaving
    <2> QED
      BY <1>2, <2>1, <2>2, <2>3 DEF Next
  <1> QED
    BY TypeCorrect, <1>1, <1>2, PTL DEF Safety

\* What a poll returns is a request whose worker is waiting on it.
THEOREM PolledRequestsAreWaiting ==
    ASSUME EagerClose = FALSE PROVE Safety => []RequestMeansSuspended
  <1>1. PairedInv => RequestMeansSuspended
    BY DEF PairedInv, Paired, Posted, RequestMeansSuspended
  <1> QED
    BY AlwaysPaired, <1>1, PTL

\* A reply is taken by the suspension its host had polled.
THEOREM RepliesMeetTheirRequest ==
    ASSUME EagerClose = FALSE PROVE Safety => []ReplyMeetsItsRequest
  <1>1. PairedInv => ReplyMeetsItsRequest
    BY DEF PairedInv, Paired, Posted, Fits, ReplyMeetsItsRequest
  <1> QED
    BY AlwaysPaired, <1>1, PTL

\* A save is never left half-way: what set save_busy is on its way to clear it.
THEOREM SavesFinish == ASSUME EagerClose = FALSE PROVE Safety => []SaveNeverOrphaned
  <1>1. PairedInv => SaveNeverOrphaned
    BY DEF PairedInv, Paired, SaveInProgress, SaveNeverOrphaned, Serving
  <1> QED
    BY AlwaysPaired, <1>1, PTL

LEMMA WorkerKeepsOutput ==
    ASSUME TypeOK, NEW t \in Slots, Paired(t), WorkerNext(t)
    PROVE  shared'[t].output >= shared[t].output
  <1> DEFINE now == shared[t]
  <1>0. now \in Shared /\ now.output \in Nat
    BY HandoffAssumption DEF TypeOK, Shared
  <1>1. CASE Restored(t)
    <2>1. now.output = 0
      BY <1>1 DEF Restored, WorkerGoes, Paired, SaveInProgress, Printed, Serving
    <2>2. shared'[t] = [now EXCEPT !.results = FALSE, !.inspection = FALSE,
                                   !.output = 0, !.pending = {}]
      BY <1>1 DEF Restored, With, TypeOK
    <2> QED
      BY <1>0, <2>1, <2>2 DEF Shared
  <1>2. CASE Suspend(t)
    <2>1. PICK output \in {now.output, now.output + 1} :
              TakeOrWait(t, [now EXCEPT !.request = wkind[t], !.output = output], {})
      BY <1>2 DEF Suspend
    <2> DEFINE posted == [now EXCEPT !.request = wkind[t], !.output = output]
    <2>2. \/ shared'[t] = posted
          \/ shared'[t] = [posted EXCEPT !.reply = None]
          \/ shared'[t] = [posted EXCEPT !.request = None]
      BY <2>1 DEF TakeOrWait, TypeOK
    <2>3. /\ posted.output = output
          /\ [posted EXCEPT !.reply = None].output = output
          /\ [posted EXCEPT !.request = None].output = output
      BY <1>0 DEF Shared
    <2>4. output >= now.output
      BY <1>0
    <2> HIDE DEF posted
    <2>5. shared'[t].output = output
      BY <2>2, <2>3
    <2> QED
      BY <2>4, <2>5
  <1>3. CASE Recheck(t)
    <2>1. \/ shared'[t] = now
          \/ shared'[t] = [now EXCEPT !.reply = None]
          \/ shared'[t] = [now EXCEPT !.request = None]
      BY <1>3 DEF Recheck, TakeOrWait, TypeOK
    <2> QED
      BY <1>0, <2>1 DEF Shared
  <1>4. CASE Publish(t) \/ Close(t)
    <2>1. \E output \in {now.output, now.output + 1} :
              shared'[t] = [now EXCEPT !.output = output]
      BY <1>4 DEF Publish, Close, With, TypeOK
    <2> QED
      BY <1>0, <2>1 DEF Shared
  <1>5. CASE TakeInspection(t) \/ PublishResults(t) \/ Saved(t) \/ Finish(t)
    <2>1. \/ shared'[t] = [now EXCEPT !.inspection = FALSE]
          \/ shared'[t] = [now EXCEPT !.results = TRUE]
          \/ shared'[t] = [now EXCEPT !.saveStatus = "ok", !.saveBusy = FALSE]
          \/ shared'[t] = [now EXCEPT !.saveStatus = "failed", !.saveBusy = FALSE]
          \/ shared'[t] = [now EXCEPT !.request = None, !.finished = TRUE]
      BY <1>5 DEF TakeInspection, PublishResults, Saved, Finish, With, TypeOK
    <2>2. /\ [now EXCEPT !.inspection = FALSE].output = now.output
          /\ [now EXCEPT !.results = TRUE].output = now.output
          /\ [now EXCEPT !.saveStatus = "ok", !.saveBusy = FALSE].output = now.output
          /\ [now EXCEPT !.saveStatus = "failed", !.saveBusy = FALSE].output = now.output
          /\ [now EXCEPT !.request = None, !.finished = TRUE].output = now.output
      BY <1>0 DEF Shared
    <2>3. shared'[t].output = now.output
      BY <2>1, <2>2
    <2> QED
      BY <1>0, <2>3
  <1>6. CASE AskInTurn(t) \/ EndTurn(t)
    BY <1>0, <1>6 DEF AskInTurn, EndTurn
  <1> QED
    BY <1>1, <1>2, <1>3, <1>4, <1>5, <1>6 DEF WorkerNext

\* No output is forgotten before the host has printed it.
THEOREM OutputIsPrinted ==
    ASSUME EagerClose = FALSE PROVE Safety => OutputDropsOnlyWhenPrinted
  <1> DEFINE Kept == \A s \in Slots : shared'[s].output < shared[s].output =>
                                         hread[s] = shared[s].output
  <1>1. ASSUME TypeOK, PairedInv, [Next]_vars PROVE [Kept]_vars
    <2>1. ASSUME NEW t \in Slots, WorkerNext(t) \/ HostNext(t) PROVE Kept
      <3>1. ASSUME NEW s \in Slots, s # t PROVE shared'[s] = shared[s]
        BY <1>1, <2>1, <3>1, OthersUntouched
      <3>2. \A s \in Slots : shared[s].output \in Nat
        BY <1>1, HandoffAssumption DEF TypeOK, Shared
      <3>3. CASE WorkerNext(t)
        <4>1. shared'[t].output >= shared[t].output
          BY <1>1, <3>3, WorkerKeepsOutput DEF PairedInv
        <4>2. shared'[t].output \in Nat
          BY <1>1, <3>3, WorkerTypeOK, HandoffAssumption DEF TypeOK, Shared
        <4> QED
          BY <3>1, <3>2, <4>1, <4>2
      <3>4. CASE HostNext(t)
        <4>1. \/ shared'[t].output = shared[t].output
              \/ hread[t] = shared[t].output
          BY <1>1, <3>4 DEF HostNext, Poll, ReadOutput, Drained, Assemble, Resume, RefuseText,
             Inspect, Persist, PollSaved, ReadStatus, EndOfInput, Join, Discard, HostGoes, With,
             PairedInv, Paired, Printed, TypeOK, Shared
        <4> QED
          BY <3>1, <3>2, <4>1
      <3> QED
        BY <2>1, <3>3, <3>4
    <2>2. CASE UNCHANGED shared
      <3>1. \A s \in Slots : shared[s].output \in Nat
        BY <1>1, HandoffAssumption DEF TypeOK, Shared
      <3> QED
        BY <2>2, <3>1
    <2> QED
      BY <1>1, <2>1, <2>2 DEF Next, SpuriousWakeup, Exit, vars
  <1> QED
    BY TypeCorrect, AlwaysPaired, <1>1, PTL DEF Safety, OutputDropsOnlyWhenPrinted
=============================================================================
