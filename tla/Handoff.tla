------------------------------- MODULE Handoff -------------------------------
(***************************************************************************)
(* The handoff between a host and the game (zeb-runtime/src/session.rs).   *)
(*                                                                         *)
(* The game runs on a worker thread and the host on its own.  The only     *)
(* state they share is one Shared record per session slot, in a map under  *)
(* one mutex, with one condition variable for every slot.  An action below *)
(* is one critical section of that mutex.                                  *)
(*                                                                         *)
(* The host is the generated consumer (zebc/src/object_build.rs): it polls,*)
(* drains the output, and answers.  EagerClose adds a host that closes its *)
(* session between an answer and the next poll.                            *)
(***************************************************************************)
EXTENDS Naturals

CONSTANTS
    Slots,       \* session slots, each with a worker and a host thread
    TurnKinds,   \* what game code asks for inside a turn
    MaxOutput,   \* bound: chunks of output waiting to be drained
    EagerClose   \* whether the host may close without polling first

ASSUME HandoffAssumption ==
    /\ TurnKinds \subseteq {"Line", "Key", "HostAction", "EngineQuery"}
    /\ MaxOutput \in Nat
    /\ EagerClose \in BOOLEAN

VARIABLES
    shared,     \* slot -> the Shared record
    sleeping,   \* threads blocked in Condvar::wait
    wpc,        \* slot -> where the worker is
    wkind,      \* slot -> the request the worker suspends with
    hpc,        \* slot -> where the host is
    hsaw,       \* slot -> what the host's last poll returned
    hread,      \* slot -> how many chunks the host's drain has printed
    unseen      \* slots whose worker has suspended since the host last polled
                \* (history: no thread reads it)

vars == <<shared, sleeping, wpc, wkind, hpc, hsaw, hread, unseen>>

None == "None"
Requests == {"Command", "Line", "Key", "HostAction", "EngineQuery"}
Replies == {"Line", "Eof", "Action", "Accepted", "Value", "Save", "Restore"}

Shared ==
    [request : Requests \cup {None}, reply : Replies \cup {None},
     pending : SUBSET {"text", "verb", "subjects"}, output : 0..MaxOutput,
     inspection : BOOLEAN, results : BOOLEAN,
     saveBusy : BOOLEAN, saveStatus : {"ok", "failed"},
     closed : BOOLEAN, finished : BOOLEAN]

\* Shared::default; a slot the map has no entry for reads the same way.
Default ==
    [request |-> None, reply |-> None, pending |-> {}, output |-> 0,
     inspection |-> FALSE, results |-> FALSE,
     saveBusy |-> FALSE, saveStatus |-> "ok",
     closed |-> FALSE, finished |-> FALSE]

Worker(s) == <<"worker", s>>
Host(s) == <<"host", s>>
Threads == {"worker", "host"} \X Slots

WorkerPC ==
    {"running", "boundary", "publishing", "suspending", "waiting",
     "saving", "restoring", "restored", "again", "closing", "finishing", "ended"}
HostPC ==
    {"poll", "polling", "read", "clear", "answer", "resume", "savepoll",
     "status", "join", "discard", "done", "gaveup"}
HostSaw == Requests \cup {None, "Finished", "Joined"}

Init ==
    /\ shared = [s \in Slots |-> Default]
    /\ sleeping = {}
    /\ wpc = [s \in Slots |-> "running"]
    /\ wkind = [s \in Slots |-> "Command"]
    /\ hpc = [s \in Slots |-> "poll"]
    /\ hsaw = [s \in Slots |-> None]
    /\ hread = [s \in Slots |-> 0]
    /\ unseen = {}

(***************************************************************************)
(* The monitor.                                                            *)
(***************************************************************************)
NotifyAll == sleeping' = {}

\* `with`: change one slot's record, then wake every waiting thread.
With(s, changed) ==
    /\ shared' = [shared EXCEPT ![s] = changed]
    /\ NotifyAll

WorkerGoes(s, from, to) == /\ wpc[s] = from
                           /\ wpc' = [wpc EXCEPT ![s] = to]
                           /\ UNCHANGED <<hpc, hsaw, hread>>

HostGoes(s, from, to) == /\ hpc[s] = from
                         /\ hpc' = [hpc EXCEPT ![s] = to]
                         /\ UNCHANGED <<wpc, wkind>>

\* Condvar::wait may return without a notification.
SpuriousWakeup(t) ==
    /\ t \in sleeping
    /\ sleeping' = sleeping \ {t}
    /\ UNCHANGED <<shared, wpc, wkind, hpc, hsaw, hread, unseen>>

(***************************************************************************)
(* The worker.                                                             *)
(***************************************************************************)

\* flushOutput: hand output over without asking for anything.
Publish(s) ==
    /\ shared[s].output < MaxOutput
    /\ WorkerGoes(s, "running", "running")
    /\ With(s, [shared[s] EXCEPT !.output = @ + 1])
    /\ UNCHANGED <<wkind, unseen>>

\* Game code wants input, an action or an answer (ops 118, 125, 143, 144).
AskInTurn(s) ==
    /\ WorkerGoes(s, "running", "suspending")
    /\ \E k \in TurnKinds : wkind' = [wkind EXCEPT ![s] = k]
    /\ UNCHANGED <<shared, sleeping, unseen>>

\* The turn ends and the cycle comes round to the next command.
EndTurn(s) ==
    /\ WorkerGoes(s, "running", "boundary")
    /\ UNCHANGED <<shared, sleeping, wkind, unseen>>

\* take_inspection: between cycles, and without waking anyone.
TakeInspection(s) ==
    /\ WorkerGoes(s, "boundary",
                  IF shared[s].inspection THEN "publishing" ELSE "suspending")
    /\ shared' = [shared EXCEPT ![s].inspection = FALSE]
    /\ wkind' = [wkind EXCEPT ![s] = "Command"]
    /\ UNCHANGED <<sleeping, unseen>>

PublishResults(s) ==
    /\ WorkerGoes(s, "publishing", "suspending")
    /\ With(s, [shared[s] EXCEPT !.results = TRUE])
    /\ UNCHANGED <<wkind, unseen>>

\* Where the worker goes with the reply its suspension returned.  In a turn it
\* runs on.  At the command boundary an intent the game has no entry point for
\* ends the run, as the end of input does.
AfterReply(kind, reply) ==
    CASE kind # "Command"              -> {"running"}
      [] kind = "Command" /\ reply = "Save"    -> {"saving"}
      [] kind = "Command" /\ reply = "Restore" -> {"restoring"}
      [] kind = "Command" /\ reply \in {"Line", "Action"} -> {"running", "closing"}
      [] OTHER                         -> {"closing"}

\* Slip: only the reply ends a wait, not the end of input.
TakeOrWaitOpen(s, now, asleep) ==
    \/ /\ now.reply # None
       /\ shared' = [shared EXCEPT ![s] = [now EXCEPT !.reply = None]]
       /\ \E to \in AfterReply(wkind[s], now.reply) :
              wpc' = [wpc EXCEPT ![s] = to]
       /\ sleeping' = asleep
    \/ /\ now.reply = None
       /\ shared' = [shared EXCEPT ![s] = now]
       /\ wpc' = [wpc EXCEPT ![s] = "waiting"]
       /\ sleeping' = asleep \cup {Worker(s)}

\* The loop of `suspend`, entered with the lock held, `now` as the record and
\* `asleep` as the threads that wait: take the reply, see the end of input, or
\* wait.
TakeOrWait(s, now, asleep) ==
    \/ /\ now.reply # None
       /\ shared' = [shared EXCEPT ![s] = [now EXCEPT !.reply = None]]
       /\ \E to \in AfterReply(wkind[s], now.reply) :
              wpc' = [wpc EXCEPT ![s] = to]
       /\ sleeping' = asleep
    \/ /\ now.reply = None
       /\ now.closed
       /\ shared' = [shared EXCEPT ![s] = [now EXCEPT !.request = None]]
       /\ \E to \in AfterReply(wkind[s], "Eof") : wpc' = [wpc EXCEPT ![s] = to]
       /\ sleeping' = asleep
    \/ /\ now.reply = None
       /\ ~now.closed
       /\ shared' = [shared EXCEPT ![s] = now]
       /\ wpc' = [wpc EXCEPT ![s] = "waiting"]
       /\ sleeping' = asleep \cup {Worker(s)}

\* Slip: the request is posted without waking the host.
SuspendQuietly(s) ==
    /\ wpc[s] \in {"suspending", "again"}
    /\ TakeOrWait(s, [shared[s] EXCEPT !.request = wkind[s]], sleeping)
    /\ unseen' = unseen \cup {s}
    /\ UNCHANGED <<wkind, hpc, hsaw, hread>>

\* Slip: the output buffer is not cleared before the command is asked for again.
SuspendWithOutput(s) ==
    /\ wpc[s] \in {"suspending", "again"}
    /\ \E output \in {shared[s].output, shared[s].output + 1} :
           /\ output <= MaxOutput
           /\ TakeOrWait(s, [shared[s] EXCEPT !.request = wkind[s],
                                              !.output = output], {})
    /\ unseen' = unseen \cup {s}
    /\ UNCHANGED <<wkind, hpc, hsaw, hread>>

\* `suspend` up to its first wait: hand over the output, post the request, wake
\* everyone, and enter the loop, all under one hold of the lock.  A command asked
\* for again after a save has no output: the first request took it.
Suspend(s) ==
    /\ wpc[s] \in {"suspending", "again"}
    /\ \E output \in {shared[s].output, shared[s].output + 1} :
           /\ output <= MaxOutput
           /\ wpc[s] = "again" => output = shared[s].output
           /\ TakeOrWait(s, [shared[s] EXCEPT !.request = wkind[s],
                                              !.output = output], {})
    /\ unseen' = unseen \cup {s}
    /\ UNCHANGED <<wkind, hpc, hsaw, hread>>

\* `suspend` after a wait returned.
Recheck(s) ==
    /\ wpc[s] = "waiting"
    /\ Worker(s) \notin sleeping
    /\ TakeOrWait(s, shared[s], sleeping)
    /\ UNCHANGED <<wkind, hpc, hsaw, hread, unseen>>

\* A decoded save has replaced the world: what described the old one goes.
Restored(s) ==
    /\ WorkerGoes(s, "restoring", "restored")
    /\ With(s, [shared[s] EXCEPT !.results = FALSE, !.inspection = FALSE,
                                 !.output = 0, !.pending = {}])
    /\ UNCHANGED <<wkind, unseen>>

\* Slip: a refused restore returns early and leaves the save busy.
SavedUnlessRefused(s) ==
    /\ \E status \in {"ok", "failed"} :
           /\ \/ WorkerGoes(s, "saving", "again")
              \/ status = "failed" /\ WorkerGoes(s, "restoring", "again")
              \/ status = "ok" /\ WorkerGoes(s, "restored", "again")
           /\ With(s, [shared[s] EXCEPT !.saveStatus = status,
                                        !.saveBusy = @ /\ wpc[s] = "restoring"])
    /\ UNCHANGED <<wkind, unseen>>

\* `saved`: report the save or the restore, and ask for the command again.  A
\* restore that was refused left the world, and the handoff, as they were.
Saved(s) ==
    /\ \E status \in {"ok", "failed"} :
           /\ \/ WorkerGoes(s, "saving", "again")
              \/ status = "failed" /\ WorkerGoes(s, "restoring", "again")
              \/ status = "ok" /\ WorkerGoes(s, "restored", "again")
           /\ With(s, [shared[s] EXCEPT !.saveStatus = status,
                                        !.saveBusy = FALSE])
    /\ UNCHANGED <<wkind, unseen>>

\* The entry closes its session, which hands over the last of the output (op 9).
Close(s) ==
    /\ WorkerGoes(s, "closing", "finishing")
    /\ \E output \in {shared[s].output, shared[s].output + 1} :
           /\ output <= MaxOutput
           /\ With(s, [shared[s] EXCEPT !.output = output])
    /\ UNCHANGED <<wkind, unseen>>

\* The consumer's worker function, once the entry has returned.
Finish(s) ==
    /\ WorkerGoes(s, "finishing", "ended")
    /\ With(s, [shared[s] EXCEPT !.request = None, !.finished = TRUE])
    /\ UNCHANGED <<wkind, unseen>>

WorkerNext(s) ==
    \/ Publish(s) \/ AskInTurn(s) \/ EndTurn(s)
    \/ TakeInspection(s) \/ PublishResults(s)
    \/ Suspend(s) \/ Recheck(s)
    \/ Restored(s) \/ Saved(s)
    \/ Close(s) \/ Finish(s)

(***************************************************************************)
(* The host.                                                               *)
(***************************************************************************)

\* `poll`, at its first look and again after each wait.
Poll(s) ==
    /\ hpc[s] \in {"poll", "polling"}
    /\ Host(s) \notin sleeping
    /\ \/ /\ shared[s].request # None
          /\ HostGoes(s, hpc[s], "read")
          /\ hsaw' = [hsaw EXCEPT ![s] = shared[s].request]
          /\ unseen' = unseen \ {s}
          /\ UNCHANGED sleeping
       \/ /\ shared[s].request = None
          /\ shared[s].finished
          /\ HostGoes(s, hpc[s], "read")
          /\ hsaw' = [hsaw EXCEPT ![s] = "Finished"]
          /\ UNCHANGED <<sleeping, unseen>>
       \/ /\ shared[s].request = None
          /\ ~shared[s].finished
          /\ HostGoes(s, hpc[s], "polling")
          /\ sleeping' = sleeping \cup {Host(s)}
          /\ UNCHANGED <<hsaw, unseen>>
    /\ UNCHANGED <<shared, hread>>

\* The first half of the consumer's drain: output_len and output_word.
ReadOutput(s) ==
    /\ HostGoes(s, "read", "clear")
    /\ hread' = [hread EXCEPT ![s] = shared[s].output]
    /\ UNCHANGED <<shared, sleeping, hsaw, unseen>>

\* The second half: `drained` forgets the output, whatever it is by now.
Drained(s) ==
    /\ HostGoes(s, "clear", CASE hsaw[s] = "Finished" -> "join"
                              [] hsaw[s] = "Joined"   -> "discard"
                              [] OTHER                -> "answer")
    /\ With(s, [shared[s] EXCEPT !.output = 0])
    /\ hread' = [hread EXCEPT ![s] = 0]
    /\ UNCHANGED <<hsaw, unseen>>

\* reply_byte, reply_action, reply_subject, reply_value: what the host sends is
\* its own memory until it resumes the game.  A console accepts every host
\* action and answers zero to every query.
Assemble(s) ==
    /\ HostGoes(s, "answer", "resume")
    /\ \E parts \in IF hsaw[s] \in {"HostAction", "EngineQuery"} THEN {{"text"}}
                    ELSE {{}, {"text"}, {"verb"}, {"verb", "subjects"}} :
           With(s, [shared[s] EXCEPT !.pending = @ \cup parts])
    /\ UNCHANGED <<hsaw, hread, unseen>>


\* What `resume` makes of the pending parts, by the request it finds.
ReplyTo(request, parts) ==
    CASE request = "HostAction"  -> "Accepted"
      [] request = "EngineQuery" -> "Value"
      [] request \notin {"HostAction", "EngineQuery"} /\ "verb" \in parts -> "Action"
      [] OTHER                   -> "Line"

\* Slip: the request is left standing once it is answered.
ResumeKeepingRequest(s) ==
    /\ HostGoes(s, "resume", "poll")
    /\ With(s, [shared[s] EXCEPT
                    !.reply = ReplyTo(shared[s].request, shared[s].pending),
                    !.pending = {}])
    /\ UNCHANGED <<hsaw, hread, unseen>>

Resume(s) ==
    /\ HostGoes(s, "resume", "poll")
    /\ With(s, [shared[s] EXCEPT
                    !.reply = ReplyTo(shared[s].request, shared[s].pending),
                    !.pending = {}, !.request = None])
    /\ UNCHANGED <<hsaw, hread, unseen>>

\* Text that is not UTF-8 is refused once it has been taken; the consumer exits.
RefuseText(s) ==
    /\ "text" \in shared[s].pending
    /\ ReplyTo(shared[s].request, shared[s].pending) = "Line"
    /\ HostGoes(s, "resume", "gaveup")
    /\ With(s, [shared[s] EXCEPT !.pending = @ \ {"text"}])
    /\ UNCHANGED <<hsaw, hread, unseen>>

\* `inspect` while answering.  A second one over the first is refused, and the
\* consumer exits.
Inspect(s) ==
    /\ hsaw[s] \notin {"HostAction", "EngineQuery"}
    /\ HostGoes(s, "answer", IF shared[s].inspection THEN "gaveup" ELSE "answer")
    /\ With(s, [shared[s] EXCEPT !.inspection = TRUE])
    /\ UNCHANGED <<hsaw, hread, unseen>>

\* persistence, ops 2 and 3: only at a command boundary nobody has answered yet.
Persist(s) ==
    /\ hsaw[s] \notin {"HostAction", "EngineQuery"}
    /\ ~shared[s].saveBusy
    /\ shared[s].request = "Command"
    /\ shared[s].reply = None
    /\ shared[s].pending = {}
    /\ HostGoes(s, "answer", "savepoll")
    /\ \E reply \in {"Save", "Restore"} :
           With(s, [shared[s] EXCEPT !.saveBusy = TRUE, !.request = None,
                                     !.reply = reply])
    /\ UNCHANGED <<hsaw, hread, unseen>>

\* The consumer's poll for the end of a save: anything but a request for text
\* makes it exit.
PollSaved(s) ==
    /\ hpc[s] = "savepoll"
    /\ Host(s) \notin sleeping
    /\ \/ /\ shared[s].request # None
          /\ HostGoes(s, "savepoll", IF shared[s].request \in {"Command", "Line"}
                                     THEN "status" ELSE "gaveup")
          /\ hsaw' = [hsaw EXCEPT ![s] = shared[s].request]
          /\ unseen' = unseen \ {s}
          /\ UNCHANGED sleeping
       \/ /\ shared[s].request = None
          /\ shared[s].finished
          /\ HostGoes(s, "savepoll", "gaveup")
          /\ UNCHANGED <<sleeping, hsaw, unseen>>
       \/ /\ shared[s].request = None
          /\ ~shared[s].finished
          /\ HostGoes(s, "savepoll", "savepoll")
          /\ sleeping' = sleeping \cup {Host(s)}
          /\ UNCHANGED <<hsaw, unseen>>
    /\ UNCHANGED <<shared, hread>>

\* persistence, op 4, and the bytes of a save that succeeded (ops 5 and 6).
ReadStatus(s) ==
    /\ HostGoes(s, "status", "answer")
    /\ NotifyAll
    /\ UNCHANGED <<shared, hsaw, hread, unseen>>

\* Slip: the end of input leaves the request standing.
EndOfInputKeepingRequest(s) ==
    /\ \/ HostGoes(s, "answer", "poll") /\ hsaw[s] \notin {"HostAction", "EngineQuery"}
       \/ EagerClose /\ HostGoes(s, "poll", "poll")
    /\ With(s, [shared[s] EXCEPT !.closed = TRUE, !.reply = "Eof"])
    /\ UNCHANGED <<hsaw, hread, unseen>>

\* `close`: no more input will come.
EndOfInput(s) ==
    /\ \/ HostGoes(s, "answer", "poll") /\ hsaw[s] \notin {"HostAction", "EngineQuery"}
       \/ EagerClose /\ HostGoes(s, "poll", "poll")
    /\ With(s, [shared[s] EXCEPT !.closed = TRUE, !.reply = "Eof",
                                 !.request = None])
    /\ UNCHANGED <<hsaw, hread, unseen>>

\* The consumer joins the worker and drains once more.
Join(s) ==
    /\ wpc[s] = "ended"
    /\ HostGoes(s, "join", "read")
    /\ hsaw' = [hsaw EXCEPT ![s] = "Joined"]
    /\ UNCHANGED <<shared, sleeping, hread, unseen>>

\* `discard` removes the slot from the map.
Discard(s) ==
    /\ HostGoes(s, "discard", "done")
    /\ With(s, Default)
    /\ UNCHANGED <<hsaw, hread, unseen>>

HostNext(s) ==
    \/ Poll(s) \/ ReadOutput(s) \/ Drained(s)
    \/ Assemble(s) \/ Resume(s) \/ RefuseText(s)
    \/ Inspect(s) \/ Persist(s) \/ PollSaved(s) \/ ReadStatus(s)
    \/ EndOfInput(s) \/ Join(s) \/ Discard(s)

\* The process exits once every host has, which ends any worker still blocked.
Exit ==
    /\ \A s \in Slots : hpc[s] \in {"done", "gaveup"}
    /\ UNCHANGED vars

Next ==
    \/ \E s \in Slots : WorkerNext(s) \/ HostNext(s)
    \/ \E t \in Threads : SpuriousWakeup(t)
    \/ Exit

\* The operating system runs both threads.  A turn that runs for ever is the
\* game's choice, so that turns end is an assumption of its own.
ThreadFairness == \A s \in Slots : WF_vars(WorkerNext(s)) /\ WF_vars(HostNext(s))
TurnsEnd == \A s \in Slots : SF_vars(EndTurn(s))

Safety == Init /\ [][Next]_vars
Spec == Safety /\ ThreadFairness /\ TurnsEnd
-----------------------------------------------------------------------------
TypeOK ==
    /\ shared \in [Slots -> Shared]
    /\ sleeping \subseteq Threads
    /\ wpc \in [Slots -> WorkerPC]
    /\ wkind \in [Slots -> Requests]
    /\ hpc \in [Slots -> HostPC]
    /\ hsaw \in [Slots -> HostSaw]
    /\ hread \in [Slots -> 0..MaxOutput]
    /\ unseen \subseteq Slots

\* No wake-up is lost: a worker asleep in `suspend` has no reply waiting and its
\* input is not over, and a host asleep in `poll` has neither a request to serve
\* nor an outcome to read.
NoLostWakeup ==
    \A s \in Slots :
        /\ Worker(s) \in sleeping =>
               wpc[s] = "waiting" /\ shared[s].reply = None /\ ~shared[s].closed
        /\ Host(s) \in sleeping =>
               /\ hpc[s] \in {"polling", "savepoll"}
               /\ shared[s].request = None
               /\ ~shared[s].finished

\* "Set by the worker when it suspends, cleared when the host resumes it": what a
\* poll can return is a request its worker is waiting on now.
RequestMeansSuspended ==
    \A s \in Slots : shared[s].request # None =>
        wpc[s] = "waiting" /\ wkind[s] = shared[s].request

\* A reply reaches the request the host saw when it answered: while one is
\* posted, its worker has not suspended again since the host's last poll.  And it
\* is one that request can be given: a host action is never answered with a line,
\* and a save only reaches a command boundary (shared.request at resume).
ReplyMeetsItsRequest ==
    \A s \in Slots : LET reply == shared[s].reply IN
        /\ reply # None => wpc[s] = "waiting" /\ s \notin unseen
        /\ reply = "Accepted" => wkind[s] = "HostAction"
        /\ reply = "Value" => wkind[s] = "EngineQuery"
        /\ reply \in {"Save", "Restore"} => wkind[s] = "Command"
        /\ reply \in {"Line", "Action"} => wkind[s] \in {"Command", "Line", "Key"}

\* save_busy is never left behind: while it is set, either the save is posted or
\* the worker is serving it, so the host's next save is not refused for ever.
SaveNeverOrphaned ==
    \A s \in Slots : shared[s].saveBusy =>
        \/ shared[s].reply \in {"Save", "Restore"}
        \/ wpc[s] \in {"saving", "restoring", "restored"}

\* Output goes only when the host has printed all of it: neither `drained` nor a
\* restore drops a chunk the worker handed over after the host's last look.
OutputDropsOnlyWhenPrinted ==
    [][\A s \in Slots : shared'[s].output < shared[s].output =>
           hread[s] = shared[s].output]_vars

\* A suspended worker is answered, unless the host exits.
RequestsAreAnswered ==
    \A s \in Slots : wpc[s] = "waiting" ~> (wpc[s] # "waiting" \/ hpc[s] = "gaveup")

\* Once the host closes, the session ends and the host gets to release it.
EndOfInputEndsSession ==
    \A s \in Slots : shared[s].closed ~> hpc[s] \in {"done", "gaveup"}
=============================================================================
