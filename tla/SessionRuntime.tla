--------------------------- MODULE SessionRuntime ---------------------------
(***************************************************************************)
(* The submission queue of one session and the runtime that works it off:  *)
(* packages/session (submission.rs, actor.rs, db.rs) for what is durable,  *)
(* packages/server/src/lib.rs, submission_recovery.rs and                  *)
(* provider_retry_recovery.rs for the daemon.                              *)
(*                                                                         *)
(* Clients have submissions accepted into a durable queue; a runtime task  *)
(* takes them in order, activates each and runs a model turn for it, or,   *)
(* for steering, inside the turn that is running.  Channels carry hints    *)
(* only.  A daemon that ends loses everything but the durable records; a   *)
(* client that attaches to the session makes the next one recover them.    *)
(*                                                                         *)
(* A submission names its own turn too, so turns are submissions here.     *)
(* What runs under the session's turn admission lock, and is not seen half *)
(* done by a task that does not take the lock, is one step.  A counter of  *)
(* queued followups is kept by the code beside the channel; it is zero     *)
(* exactly when the channel is empty but for a sender between two          *)
(* instructions, and the channel stands for it.  Workflow-owned input is   *)
(* left out, and so are skill, summary and compaction commands.            *)
(***************************************************************************)
EXTENDS Naturals, Sequences, FiniteSets

CONSTANTS
    Submission,
    Admitted,        \* the submissions that come through turn admission; the
                     \* others are prompts of a client
    Runtime,         \* identities of runtime tasks, taken again once free
    NoRuntime, NoTurn,
    MaxFailure,      \* bound: how often the daemon ends or storage fails
    MaxAsk           \* bound: how often a client repeats a request, attaches
                     \* or intervenes

ASSUME RuntimeConstants ==
    /\ NoRuntime \notin Runtime
    /\ NoTurn \notin Submission
    /\ MaxFailure \in Nat
    /\ MaxAsk \in Nat
    /\ Admitted \subseteq Submission

VARIABLES
    rec,        \* table submissions
    accepted,   \* submissions in the order of their acceptance
    terminal,   \* the first ModelTurnFinished of a turn, by who wrote it
    work,       \* table runtime_work: the row of a turn
    retry,      \* turns with a provider retry checkpoint
    map,        \* session_runtimes: the session's entry
    rt,         \* the runtime tasks with their channels
    registry,   \* RuntimeWorkManager: turns this daemon executes
    lock,       \* the runtime that holds the turn admission lock
    request,    \* what a client's request for a submission is doing
    attach,     \* what an attachment's recovery pass is doing
    disturbances

durable == <<rec, accepted, terminal, work, retry>>

vars == <<rec, accepted, terminal, work, retry, map, rt, registry, lock,
          request, attach, disturbances>>

-----------------------------------------------------------------------------
(* Types. *)

Status == {"none", "pending", "activated", "cancelled"}

(* target is the submission's own turn or the one it steers; observed: a   *)
(* context observation blocks it; authorized: an explicit resume.          *)
Record ==
    [status : Status, target : Submission, observed : BOOLEAN, authorized : BOOLEAN]

Writer == {"none", "settled", "recovered", "ended"}

WorkStatus == {"none", "running", "cancelling", "finished"}

(* FollowupCommand: run a pending submission (ExecuteSubmission for a      *)
(* prompt, ExecuteTurn for an admitted turn), or go on with a turn from    *)
(* its checkpoint (ExecuteTurn, recovering).  The channel and the retained *)
(* hints are sets: a repeated hint for a submission is dropped where it is *)
(* retained.                                                               *)
HintKind == {"run", "recover"}

Hint == [kind : HintKind, id : Submission]

NoCancel == [asked |-> FALSE]

CancelCommand ==
    {NoCancel} \union [asked : {TRUE}, expected : Submission \union {NoTurn}, clear : BOOLEAN]

Step == {"dead", "top", "selected", "register", "begin", "run", "waiting",
         "settle", "terminal", "take", "finish", "closing"}

(* begun: current_turn is set; steer: its execution is still open to       *)
(* steering; busy: the phase is not Idle.                                  *)
Task ==
    [step : Step, chan : SUBSET Hint, hints : SUBSET Hint,
     turn : Submission \union {NoTurn}, via : HintKind \union {"none"}, begun : BOOLEAN,
     steer : BOOLEAN, cancelled : BOOLEAN, busy : BOOLEAN, cancel : CancelCommand]

Fresh ==
    [step |-> "top", chan |-> {}, hints |-> {}, turn |-> NoTurn,
     via |-> "none", begun |-> FALSE, steer |-> FALSE,
     cancelled |-> FALSE, busy |-> FALSE, cancel |-> NoCancel]

Dead == [Fresh EXCEPT !.step = "dead"]

Quiet == [step |-> "quiet", kind |-> "none", runtime |-> NoRuntime]

Request ==
    [step : {"quiet", "captured", "wake", "enqueue"},
     kind : {"none", "submit", "resume"},
     runtime : Runtime \union {NoRuntime}]

Detached == [step |-> "detached", turns |-> {}, turn |-> NoTurn]

(* turns: read from the registry, then the abandoned ones that are left.   *)
Attachment ==
    [step : {"detached", "observed", "recovering", "terminal"},
     turns : SUBSET Submission, turn : Submission \union {NoTurn}]

TypeOK ==
    /\ rec \in [Submission -> Record]
    /\ accepted \in Seq(Submission)
    /\ \A i, j \in DOMAIN accepted : accepted[i] = accepted[j] => i = j
    /\ terminal \in [Submission -> Writer]
    /\ work \in [Submission -> WorkStatus]
    /\ retry \subseteq Submission
    /\ map \in Runtime \union {NoRuntime}
    /\ rt \in [Runtime -> Task]
    /\ \A h \in Runtime :
        rt[h].step \in {"dead", "top", "closing"} <=> rt[h].turn = NoTurn
    /\ registry \subseteq Submission
    /\ lock \in Runtime \union {NoRuntime}
    /\ request \in [Submission -> Request]
    /\ attach \in Attachment
    /\ disturbances \in [crash : 0 .. MaxFailure, fault : 0 .. MaxFailure, ask : 0 .. MaxAsk]

(* What the bound counts.                                                  *)
Disturbed(kind) ==
    /\ IF kind = "ask"
       THEN disturbances.ask < MaxAsk
       ELSE disturbances.crash + disturbances.fault < MaxFailure
    /\ disturbances' = [disturbances EXCEPT ![kind] = @ + 1]

-----------------------------------------------------------------------------
(* The durable queue. *)

Before(u, s) ==
    \E i, j \in DOMAIN accepted : i < j /\ accepted[i] = u /\ accepted[j] = s

Pending(s) == rec[s].status = "pending"

Own(s) == rec[s].target = s

Steering(t) == {s \in Submission : Pending(s) /\ s # t /\ rec[s].target = t}

(* queue_visible: a terminal event hides the turn's records but those that *)
(* are pending.                                                            *)
QueueVisible(s) ==
    \/ Pending(s)
    \/ rec[s].status = "activated" /\ terminal[rec[s].target] = "none"

(* submission_queue_status.                                                *)
QueueHead(s) ==
    /\ QueueVisible(s)
    /\ \A u \in Submission \ {s} : QueueVisible(u) => Before(s, u)

InterruptedHead(s) == QueueHead(s) /\ rec[s].status = "activated"

(* Mutant: later input runs around an interrupted turn.                    *)
InterruptedIgnored == FALSE

Interrupted == \E s \in Submission : InterruptedHead(s)

(* The oldest pending submission that has a turn of its own.               *)
NextOwn(s) ==
    /\ Pending(s) /\ Own(s)
    /\ \A u \in Submission \ {s} : Pending(u) /\ Own(u) => Before(s, u)

Cancelled(S) == [s \in Submission |->
    IF s \in S /\ Pending(s) THEN [rec[s] EXCEPT !.status = "cancelled"] ELSE rec[s]]

Activated(S) == [s \in Submission |->
    IF s \in S THEN [rec[s] EXCEPT !.status = "activated"] ELSE rec[s]]

(* RuntimeWorkFinished changes only a row that is active, and the first    *)
(* ModelTurnFinished of a turn is the one that turn_evidence returns.      *)
ActiveWork == {t \in Submission : work[t] \in {"running", "cancelling"}}

WorkFinished(t) == [work EXCEPT ![t] = IF t \in ActiveWork THEN "finished" ELSE @]

TurnFinished(t, who) == [terminal EXCEPT ![t] = IF @ = "none" THEN who ELSE @]

-----------------------------------------------------------------------------
(* The table of runtimes. *)

Open(h) == rt[h].step \notin {"dead", "closing"}

Unused(h) ==
    /\ rt[h].step = "dead" /\ h # map
    /\ \A s \in Submission : request[s].runtime # h

(* session_runtime_handle and live_submission_runtime: the entry, or a new *)
(* runtime; the second one takes no entry whose channels are closed.       *)
NewRuntime(h) == Unused(h) /\ h = CHOOSE g \in Runtime : Unused(g)

SessionRuntimeHandle(h) ==
    IF map # NoRuntime THEN h = map ELSE NewRuntime(h)

LiveSubmissionRuntime(h) ==
    IF map # NoRuntime /\ Open(map) THEN h = map ELSE NewRuntime(h)

(* The runtimes once h is the entry.                                       *)
Spawned(h) == IF h = map THEN rt ELSE [rt EXCEPT ![h] = Fresh]

(* Mutant: whatever the entry is, it is removed.                           *)
RemovedAnyway(h) == NoRuntime

(* remove_session_runtime_if_current.                                      *)
RemovedIfCurrent(h) == IF map = h THEN NoRuntime ELSE map

(* Mutant: the admission lock is not the session's.                        *)
LockIgnored == TRUE

LockFree == lock = NoRuntime

-----------------------------------------------------------------------------
(* Requests of clients. *)

Capture(s, kind) ==
    /\ request[s] = Quiet
    /\ \E h \in Runtime :
        /\ LiveSubmissionRuntime(h)
        /\ rt' = Spawned(h)
        /\ map' = h
        /\ request' = [request EXCEPT ![s] =
                [step |-> "captured", kind |-> kind, runtime |-> h]]
    /\ UNCHANGED <<durable, registry, lock, attach>>

(* enqueue_prompt_submission up to the lock.  A client may repeat it; that *)
(* only returns the receipt once the submission is not pending.            *)
Submit(s) ==
    /\ s \notin Admitted
    /\ \/ rec[s].status = "none" /\ UNCHANGED disturbances
       \/ Pending(s) /\ Own(s) /\ Disturbed("ask")
    /\ Capture(s, "submit")

(* Mutant: any turn does.                                                  *)
AcceptsSteeringAnyway(h) == rt[h].turn # NoTurn

(* The turn of the captured runtime takes steering.                        *)
AcceptsSteering(h) == rt[h].begun /\ rt[h].steer /\ ~rt[h].cancelled

AcceptAs(s, t) ==
    /\ rec' = [rec EXCEPT ![s].status = "pending", ![s].target = t]
    /\ accepted' = Append(accepted, s)
    /\ request' = [request EXCEPT ![s] =
            IF t = s THEN [@ EXCEPT !.step = "wake"] ELSE Quiet]

Declined(s) ==
    /\ request' = [request EXCEPT ![s] = Quiet]
    /\ UNCHANGED <<rec, accepted>>

(* The rest of it.  Steering goes to the turn that runs when it takes it   *)
(* and the selections agree, a follow-up and other steering get a turn of  *)
(* their own, and strict steering is refused then.  A repeated request     *)
(* finds its record, and wakes while it is pending.                        *)
Accept(s) ==
    /\ request[s].step = "captured" /\ request[s].kind = "submit"
    /\ LockFree
    /\ LET h == request[s].runtime
       IN  \/ /\ rec[s].status = "none"
              /\ \/ AcceptsSteering(h) /\ AcceptAs(s, rt[h].turn)
                 \/ AcceptAs(s, s)
                 \/ Declined(s)
           \/ /\ Pending(s) /\ Own(s)
              /\ request' = [request EXCEPT ![s].step = "wake"]
              /\ UNCHANGED <<rec, accepted>>
           \/ /\ rec[s].status # "none" /\ ~(Pending(s) /\ Own(s))
              /\ Declined(s)
    /\ UNCHANGED <<terminal, work, retry, map, rt, registry, lock, attach, disturbances>>

(* wake_pending_submission: a closed channel takes nothing.                *)
Wake(s) ==
    /\ request[s].step = "wake"
    /\ LET h == request[s].runtime
       IN  rt' = IF Open(h)
                 THEN [rt EXCEPT ![h].chan = @ \union {[kind |-> "run", id |-> s]}]
                 ELSE rt
    /\ request' = [request EXCEPT ![s] = Quiet]
    /\ UNCHANGED <<durable, map, registry, lock, attach, disturbances>>

(* submit_session_model_turn_admission: it asks for the runtime after it   *)
(* released the lock.                                                      *)
Admit(s) ==
    /\ s \in Admitted
    /\ request[s] = Quiet /\ LockFree
    /\ \/ /\ rec[s].status = "none"
          /\ rec' = [rec EXCEPT ![s].status = "pending"]
          /\ accepted' = Append(accepted, s)
          /\ UNCHANGED disturbances
       \/ Pending(s) /\ Disturbed("ask") /\ UNCHANGED <<rec, accepted>>
    /\ request' = [request EXCEPT ![s].step = "enqueue"]
    /\ UNCHANGED <<terminal, work, retry, map, rt, registry, lock, attach>>

(* enqueue_followup_command.                                               *)
Enqueue(s) ==
    /\ request[s].step = "enqueue"
    /\ \E h \in Runtime :
        /\ SessionRuntimeHandle(h)
        /\ \/ /\ Spawned(h)[h].step # "closing"
              /\ map' = h
              /\ rt' = [Spawned(h) EXCEPT ![h].chan = @ \union {[kind |-> "run", id |-> s]}]
           \/ /\ Spawned(h)[h].step = "closing"
              /\ map' = RemovedIfCurrent(h)
              /\ rt' = rt
    /\ request' = [request EXCEPT ![s] = Quiet]
    /\ UNCHANGED <<durable, registry, lock, attach, disturbances>>

(* submission_recovery::resume up to the lock.                             *)
Resume(s) ==
    /\ Pending(s) /\ Own(s) /\ Disturbed("ask")
    /\ Capture(s, "resume")

(* authorize_submission_recovery.                                          *)
Authorize(s) ==
    /\ request[s].step = "captured" /\ request[s].kind = "resume"
    /\ LockFree
    /\ \/ /\ Pending(s)
          /\ rec' = [rec EXCEPT ![s].authorized = TRUE, ![s].observed = FALSE]
          /\ request' = [request EXCEPT ![s].step = "wake"]
       \/ /\ ~Pending(s)
          /\ request' = [request EXCEPT ![s] = Quiet]
          /\ UNCHANGED rec
    /\ UNCHANGED <<accepted, terminal, work, retry, map, rt, registry, lock, attach, disturbances>>

(* submission_recovery::cancel.                                            *)
CancelPending(s) ==
    /\ Pending(s) /\ LockFree /\ Disturbed("ask")
    /\ rec' = Cancelled({s})
    /\ \E h \in Runtime :
        LiveSubmissionRuntime(h) /\ rt' = Spawned(h) /\ map' = h
    /\ UNCHANGED <<accepted, terminal, work, retry, registry, lock, request, attach>>

(* submission_recovery::end_interrupted_turn.  Every event is appended at  *)
(* the generation the one before left, the turn's terminal event last, so  *)
(* that it stops after the work's end or gets through.  It holds the       *)
(* admission lock; its checks and its appends are one step.                *)
EndInterruptedTurn(t) ==
    /\ LockFree /\ Disturbed("ask")
    /\ \E s \in Submission : InterruptedHead(s) /\ rec[s].target = t
    /\ registry = {}
    /\ map # NoRuntime =>
        /\ ~rt[map].begun /\ ~rt[map].busy
        /\ rt[map].chan = {}
    /\ ActiveWork \subseteq {t}
    /\ work' = WorkFinished(t)
    /\ \/ /\ terminal' = TurnFinished(t, "ended")
          /\ \E h \in Runtime :
                LiveSubmissionRuntime(h) /\ rt' = Spawned(h) /\ map' = h
       \/ UNCHANGED <<terminal, rt, map>>
    /\ UNCHANGED <<rec, accepted, retry, registry, lock, request, attach>>

(* enqueue_targeted_cancel_turn_command: the turn is the one it sees now.  *)
CancelTurn(clear) ==
    /\ Disturbed("ask")
    /\ \E h \in Runtime :
        /\ SessionRuntimeHandle(h)
        /\ LET r == Spawned(h)
           IN  /\ r[h].step # "closing" /\ r[h].cancel = NoCancel
               /\ rt' = [r EXCEPT ![h].cancel =
                    [asked |-> TRUE, clear |-> clear,
                     expected |-> IF r[h].begun THEN r[h].turn ELSE NoTurn]]
        /\ map' = h
    /\ UNCHANGED <<durable, registry, lock, request, attach>>

-----------------------------------------------------------------------------
(* The runtime's loop, run_session_runtime. *)

To(h, step) == [rt EXCEPT ![h].step = step]

(* Mutant: what was selected is kept.                                      *)
ReleasedStep(r) == [r EXCEPT !.step = "top"]

(* The loop's top with nothing selected; the phase is left as it is.       *)
Released(r) ==
    [r EXCEPT !.step = "top", !.turn = NoTurn, !.via = "none", !.cancelled = FALSE]

(* retain_dispatch_hint.                                                   *)
Drain(h) ==
    /\ rt[h].step = "top" /\ rt[h].chan # {}
    /\ LET known(c) == \E d \in rt[h].hints :
               d.id = c.id /\ d.kind # "recover" /\ c.kind # "recover"
       IN  rt' = [rt EXCEPT ![h].chan = {},
                  ![h].hints = @ \union {c \in rt[h].chan : ~known(c)}]
    /\ UNCHANGED <<durable, map, registry, lock, request, attach, disturbances>>

(* prune_settled_dispatch_hints.                                           *)
Unsettled(c) ==
    IF c.kind = "recover"
    THEN terminal[c.id] = "none" /\ rec[c.id].status = "activated"
    ELSE Pending(c.id)

Hints(h) == {c \in rt[h].hints : Unsettled(c)}

Select(h, c, hints) ==
    rt' = [rt EXCEPT ![h].step = "selected", ![h].turn = c.id, ![h].via = c.kind,
                     ![h].hints = hints]

(* next_pending_submission_command: an interrupted head lets nothing pass  *)
(* but its own recovery.                                                   *)
TakeRecovered(h) ==
    /\ rt[h].step = "top"
    /\ \E c \in Hints(h) :
        /\ c.kind = "recover" /\ InterruptedHead(c.id)
        /\ Select(h, c, Hints(h) \ {c})
    /\ UNCHANGED <<durable, map, registry, lock, request, attach, disturbances>>

(* A hint for the oldest, unless an authorization supersedes it.           *)
TakeHint(h) ==
    /\ rt[h].step = "top" /\ ~Interrupted
    /\ \E c \in Hints(h) :
        /\ c.kind # "recover" /\ NextOwn(c.id) /\ ~rec[c.id].authorized
        /\ Select(h, c, Hints(h) \ {c})
    /\ UNCHANGED <<durable, map, registry, lock, request, attach, disturbances>>

(* Mutant: only hints and authorizations start a submission.               *)
TakeAuthorized(h) ==
    /\ rt[h].step = "top" /\ ~Interrupted
    /\ \E s \in Submission :
        /\ NextOwn(s) /\ rec[s].authorized
        /\ Select(h, [kind |-> "run", id |-> s], {c \in Hints(h) : c.id # s})
    /\ UNCHANGED <<durable, map, registry, lock, request, attach, disturbances>>

(* recover_pending_submission_hint: without a hint the durable recipe is   *)
(* resolved, or found missing, which is recorded and blocks the queue.     *)
TakeDurable(h) ==
    /\ rt[h].step = "top" /\ ~Interrupted
    /\ \E s \in Submission :
        LET hints == {c \in Hints(h) : c.id # s \/ c.kind = "recover"}
        IN  /\ NextOwn(s) /\ ~rec[s].observed
            /\ rec[s].authorized \/ hints = Hints(h)
            /\ \/ Select(h, [kind |-> "run", id |-> s], hints) /\ UNCHANGED rec
               \/ /\ rec' = [rec EXCEPT ![s].observed = TRUE]
                  /\ rt' = [rt EXCEPT ![h].hints = hints]
    /\ UNCHANGED <<accepted, terminal, work, retry, map, registry, lock, request, attach, disturbances>>

(* Mutant: what was selected before the lock is run.                       *)
ActivateSelected(h) ==
    /\ rt[h].step = "selected" /\ rt[h].via = "run" /\ LockFree
    /\ rec' = IF Pending(rt[h].turn) THEN Activated({rt[h].turn}) ELSE rec
    /\ rt' = [rt EXCEPT ![h].step = "register", ![h].busy = TRUE]
    /\ UNCHANGED <<accepted, terminal, work, retry, map, registry, lock, request, attach, disturbances>>

(* activated_submission_event under the lock, for a fresh turn.  Nothing   *)
(* is run for a submission that is not pending any more.                   *)
Activate(h) ==
    /\ rt[h].step = "selected" /\ rt[h].via = "run"
    /\ LockFree
    /\ LET s == rt[h].turn
       IN  \/ /\ Pending(s)
              /\ rec' = Activated({s})
              /\ rt' = [rt EXCEPT ![h].step = "register", ![h].busy = TRUE]
           \/ /\ ~Pending(s)
              /\ rt' = [rt EXCEPT ![h] = [Released(@) EXCEPT !.busy = TRUE]]
              /\ UNCHANGED rec
    /\ UNCHANGED <<accepted, terminal, work, retry, map, registry, lock, request, attach, disturbances>>

(* An admitted turn whose owner gave it up before it started.  (Only the   *)
(* daemon that admitted it knows; the model lets it happen after a restart *)
(* as well.)                                                               *)
CancelQueued(h) ==
    /\ rt[h].step = "selected" /\ rt[h].turn \in Admitted /\ rt[h].via = "run" /\ LockFree
    /\ rec' = Cancelled({rt[h].turn})
    /\ rt' = [rt EXCEPT ![h] = [Released(@) EXCEPT !.busy = TRUE]]
    /\ UNCHANGED <<accepted, terminal, work, retry, map, registry, lock, request, attach, disturbances>>

(* Storage fails on the way: before the activation, or at the read of the  *)
(* retry checkpoint after it.                                              *)
ActivateFails(h) ==
    /\ rt[h].step = "selected" /\ rt[h].via = "run" /\ LockFree
    /\ Disturbed("fault")
    /\ \/ UNCHANGED rec
       \/ Pending(rt[h].turn) /\ rec' = Activated({rt[h].turn})
    /\ rt' = [rt EXCEPT ![h] = [Released(@) EXCEPT !.busy = TRUE]]
    /\ UNCHANGED <<accepted, terminal, work, retry, map, registry, lock, request, attach>>

(* A recovered turn was activated before, and takes no lock.               *)
StartRecovered(h) ==
    /\ rt[h].step = "selected" /\ rt[h].via = "recover"
    /\ rt' = [rt EXCEPT ![h].step = "register", ![h].busy = TRUE]
    /\ UNCHANGED <<durable, map, registry, lock, request, attach, disturbances>>

(* Two idle seconds: under the lock, with nothing queued, running or       *)
(* pending, the channels are closed ...                                    *)
NothingPending == \A s \in Submission : ~Pending(s)

IdleClose(h) ==
    /\ rt[h].step = "top" /\ LockFree
    /\ rt[h].chan = {} /\ Hints(h) = {}
    /\ NothingPending
    /\ rt' = To(h, "closing")
    /\ lock' = h
    /\ UNCHANGED <<durable, map, registry, request, attach, disturbances>>

(* ... and the entry removed.                                              *)
IdleRemove(h) ==
    /\ rt[h].step = "closing"
    /\ map' = RemovedIfCurrent(h)
    /\ rt' = [rt EXCEPT ![h] = Dead]
    /\ lock' = NoRuntime
    /\ UNCHANGED <<durable, registry, request, attach, disturbances>>

-----------------------------------------------------------------------------
(* A turn. *)

(* prepare_turn_lifecycle: the registry first, ...                         *)
Register(h) ==
    /\ rt[h].step = "register"
    /\ registry' = registry \union {rt[h].turn}
    /\ rt' = To(h, "begin")
    /\ UNCHANGED <<durable, map, lock, request, attach, disturbances>>

Begun(h, step) ==
    rt' = [rt EXCEPT ![h].step = step, ![h].begun = TRUE, ![h].steer = TRUE,
        ![h].cancelled = rt[h].via = "recover" /\ work[rt[h].turn] = "cancelling"]

(* ... then the durable row and the current turn.  A recovered turn has    *)
(* its row, and waits as its checkpoint says.                              *)
Begin(h) ==
    /\ rt[h].step = "begin"
    /\ \/ /\ rt[h].via = "recover"
          /\ Begun(h, "waiting")
          /\ UNCHANGED <<work, registry, disturbances>>
       \/ /\ rt[h].via # "recover"
          /\ Begun(h, "run")
          /\ work' = [work EXCEPT ![rt[h].turn] = "running"]
          /\ UNCHANGED <<registry, disturbances>>
       \/ /\ rt[h].via # "recover" /\ Disturbed("fault")
          /\ Begun(h, "run")
          /\ registry' = registry \ {rt[h].turn}
          /\ UNCHANGED work
    /\ UNCHANGED <<rec, accepted, terminal, retry, map, lock, request, attach>>

(* activate_pending_steering between two rounds, and at the end of the     *)
(* last one.  An activation needs the turn's row to be running and the     *)
(* turn not to be terminal; if one is refused the turn ends.               *)
ActivateSteering(h) ==
    /\ rt[h].step = "run" /\ LockFree /\ ~rt[h].cancelled
    /\ Steering(rt[h].turn) # {}
    /\ LET t == rt[h].turn
       IN  \/ /\ work[t] = "running" /\ terminal[t] = "none"
              /\ rec' = Activated(Steering(t))
              /\ UNCHANGED rt
           \/ /\ ~(work[t] = "running" /\ terminal[t] = "none")
              /\ rt' = To(h, "settle")
              /\ UNCHANGED rec
    /\ UNCHANGED <<accepted, terminal, work, retry, map, registry, lock, request, attach, disturbances>>

(* The last round ends and finds no steering: the turn is closed to it.    *)
CloseSteering(h) ==
    /\ rt[h].step = "run" /\ LockFree
    /\ rt[h].cancelled \/ Steering(rt[h].turn) = {}
    /\ rt' = [rt EXCEPT ![h].step = "settle", ![h].steer = @ /\ rt[h].cancelled]
    /\ UNCHANGED <<durable, map, registry, lock, request, attach, disturbances>>

(* The turn ends otherwise: cancelled, refused, failed.                    *)
FailTurn(h) ==
    /\ rt[h].step \in {"run", "waiting"}
    /\ rt' = To(h, "settle")
    /\ UNCHANGED <<durable, map, registry, lock, request, attach, disturbances>>

(* provider_retry_recovery::schedule: the checkpoint is written before the *)
(* wait for the next attempt.                                              *)
ScheduleRetry(h) ==
    /\ rt[h].step = "run"
    /\ retry' = retry \union {rt[h].turn}
    /\ rt' = To(h, "waiting")
    /\ UNCHANGED <<rec, accepted, terminal, work, map, registry, lock, request, attach, disturbances>>

(* restore, retry_after_provider_error and clear.                          *)
RetryProvider(h) ==
    /\ rt[h].step = "waiting" /\ rt[h].turn \in retry /\ ~rt[h].cancelled
    /\ retry' = retry \ {rt[h].turn}
    /\ rt' = To(h, "run")
    /\ UNCHANGED <<rec, accepted, terminal, work, map, registry, lock, request, attach, disturbances>>

(* finish_session_turn_cancellation, by the same task once it has released *)
(* the lock: the row says that it is cancelled, unless the daemon dies or  *)
(* storage fails before.                                                   *)
CancelMarks(t) ==
    LET marked == {t} \intersect registry \intersect ActiveWork
    IN  {work} \union {[work EXCEPT ![u] = "cancelling"] : u \in marked}

(* process_cancel_turn_command, at a point where the runtime serves        *)
(* cancellations; a turn other than the one meant is left alone.           *)
ServiceCancel(h) ==
    /\ rt[h].step \in {"top", "run", "waiting", "settle"}
    /\ rt[h].cancel.asked /\ LockFree
    /\ LET c == rt[h].cancel
           t == IF map # NoRuntime /\ rt[map].begun THEN rt[map].turn ELSE NoTurn
           meant == map # NoRuntime /\ t = c.expected
           steering == IF t = NoTurn THEN {} ELSE Steering(t)
           served == [rt EXCEPT ![h].cancel = NoCancel]
       IN  \/ /\ ~meant
              /\ rt' = served
              /\ UNCHANGED <<rec, work>>
           \/ /\ meant
              /\ rec' = Cancelled(IF c.clear THEN Submission ELSE steering)
              /\ rt' = [served EXCEPT
                    ![h].chan = IF c.clear THEN {} ELSE @,
                    ![map].cancelled = t # NoTurn]
              /\ work' \in CancelMarks(t)
    /\ UNCHANGED <<accepted, terminal, retry, map, registry, lock, request, attach, disturbances>>

(* settle_turn_lifecycle under the lock: nothing steers the turn any more, *)
(* and what was to steer it is cancelled, ...                              *)
Settle(h) ==
    /\ rt[h].step = "settle" /\ LockFree
    /\ \/ rec' = Cancelled(Steering(rt[h].turn)) /\ UNCHANGED disturbances
       \/ /\ Disturbed("fault") /\ Steering(rt[h].turn) # {}
          /\ UNCHANGED rec
    /\ rt' = [rt EXCEPT ![h].step = "terminal", ![h].begun = FALSE, ![h].steer = FALSE]
    /\ lock' = h
    /\ UNCHANGED <<accepted, terminal, work, retry, map, registry, request, attach>>

(* ... the terminal event is appended, which may fail, ...                 *)
AppendTerminal(h) ==
    /\ rt[h].step = "terminal"
    /\ \/ terminal' = TurnFinished(rt[h].turn, "settled") /\ UNCHANGED disturbances
       \/ Disturbed("fault") /\ UNCHANGED terminal
    /\ rt' = To(h, "take")
    /\ lock' = NoRuntime
    /\ UNCHANGED <<rec, accepted, work, retry, map, registry, request, attach>>

(* ... and the work is taken from the registry, then ended in storage.     *)
TakeWork(h) ==
    /\ rt[h].step = "take"
    /\ registry' = registry \ {rt[h].turn}
    /\ rt' = IF rt[h].turn \in registry
             THEN To(h, "finish")
             ELSE [rt EXCEPT ![h] = [Released(@) EXCEPT !.busy = FALSE]]
    /\ UNCHANGED <<durable, map, lock, request, attach, disturbances>>

FinishWork(h) ==
    /\ rt[h].step = "finish"
    /\ work' = WorkFinished(rt[h].turn)
    /\ rt' = [rt EXCEPT ![h] = [Released(@) EXCEPT !.busy = FALSE]]
    /\ UNCHANGED <<rec, accepted, terminal, retry, map, registry, lock, request, attach, disturbances>>

-----------------------------------------------------------------------------
(* Recovery when a client attaches; it takes no lock. *)

(* recover_abandoned_session_runtime_work: no current turn, and the work   *)
(* this daemon owns.                                                       *)
AttachObserve ==
    /\ attach = Detached /\ Disturbed("ask")
    /\ map # NoRuntime => ~rt[map].begun
    /\ attach' = [Detached EXCEPT !.step = "observed", !.turns = registry]
    /\ UNCHANGED <<durable, map, rt, registry, lock, request>>

(* The rows that are active and not owned are taken for abandoned.         *)
AttachRead ==
    /\ attach.step = "observed"
    /\ attach' = [attach EXCEPT !.step = "recovering", !.turns = ActiveWork \ @]
    /\ UNCHANGED <<durable, map, rt, registry, lock, request, disturbances>>

Examined(t) == [attach EXCEPT !.step = "recovering", !.turns = @ \ {t}, !.turn = NoTurn]

(* preserve_abandoned: a turn with a checkpoint goes on from it, unless it *)
(* ended or the recipe of its submission cannot be resolved.               *)
Preserve(t) ==
    /\ attach.step = "recovering" /\ t \in attach.turns /\ t \in retry
    /\ \/ /\ terminal[t] # "none"
          /\ work' = WorkFinished(t)
          /\ UNCHANGED <<map, rt>>
       \/ terminal[t] = "none" /\ UNCHANGED <<work, map, rt>>
       \/ /\ terminal[t] = "none" /\ rec[t].status = "activated"
          /\ \E h \in Runtime :
                LET r == Spawned(h)
                IN  /\ SessionRuntimeHandle(h)
                    /\ map' = h
                    /\ rt' = IF r[h].busy \/ r[h].chan # {} \/ r[h].step = "closing"
                             THEN r
                             ELSE [r EXCEPT ![h].chan = {[kind |-> "recover", id |-> t]}]
          /\ UNCHANGED work
    /\ attach' = Examined(t)
    /\ UNCHANGED <<rec, accepted, terminal, retry, registry, lock, request, disturbances>>

(* Other abandoned work has failed, and its turn with it.                  *)
FailAbandoned(t) ==
    /\ attach.step = "recovering" /\ t \in attach.turns /\ t \notin retry
    /\ work' = WorkFinished(t)
    /\ attach' = [attach EXCEPT !.step = "terminal", !.turn = t]
    /\ UNCHANGED <<rec, accepted, terminal, retry, map, rt, registry, lock, request, disturbances>>

FailAbandonedTurn ==
    /\ attach.step = "terminal"
    /\ terminal' = TurnFinished(attach.turn, "recovered")
    /\ attach' = Examined(attach.turn)
    /\ UNCHANGED <<rec, accepted, work, retry, map, rt, registry, lock, request, disturbances>>

(* Pending input gets a runtime.                                           *)
AttachDone ==
    /\ attach.step = "recovering" /\ attach.turns = {}
    /\ attach' = Detached
    /\ \/ NothingPending /\ UNCHANGED <<map, rt>>
       \/ /\ ~NothingPending
          /\ \E h \in Runtime :
                SessionRuntimeHandle(h) /\ rt' = Spawned(h) /\ map' = h
    /\ UNCHANGED <<durable, registry, lock, request, disturbances>>

(* The daemon ends, and another one starts.                                *)
Crash ==
    /\ Disturbed("crash")
    /\ map' = NoRuntime
    /\ rt' = [h \in Runtime |-> Dead]
    /\ registry' = {}
    /\ lock' = NoRuntime
    /\ request' = [s \in Submission |-> Quiet]
    /\ attach' = Detached
    /\ UNCHANGED durable

-----------------------------------------------------------------------------
Init ==
    /\ rec = [s \in Submission |->
            [status |-> "none", target |-> s, observed |-> FALSE, authorized |-> FALSE]]
    /\ accepted = <<>>
    /\ terminal = [t \in Submission |-> "none"]
    /\ work = [t \in Submission |-> "none"]
    /\ retry = {}
    /\ map = NoRuntime
    /\ rt = [h \in Runtime |-> Dead]
    /\ registry = {}
    /\ lock = NoRuntime
    /\ request = [s \in Submission |-> Quiet]
    /\ attach = Detached
    /\ disturbances = [crash |-> 0, fault |-> 0, ask |-> 0]

(* What a request does next, and what a runtime does next.                 *)
RequestStep(s) == Accept(s) \/ Wake(s) \/ Enqueue(s) \/ Authorize(s)

LoopStep(h) ==
    \/ Drain(h) \/ TakeRecovered(h) \/ TakeHint(h) \/ TakeDurable(h)
    \/ Activate(h) \/ StartRecovered(h) \/ IdleRemove(h)

TurnStep(h) ==
    \/ Register(h) \/ Begin(h) \/ ActivateSteering(h)
    \/ Settle(h) \/ AppendTerminal(h) \/ TakeWork(h) \/ FinishWork(h)

TurnEnds(h) == CloseSteering(h) \/ FailTurn(h)

AttachStep ==
    \/ AttachRead \/ FailAbandonedTurn \/ AttachDone
    \/ \E t \in Submission : Preserve(t) \/ FailAbandoned(t)

Next ==
    \/ \E s \in Submission :
        \/ Submit(s) \/ Admit(s) \/ Resume(s) \/ CancelPending(s) \/ EndInterruptedTurn(s)
        \/ RequestStep(s)
    \/ \E clear \in BOOLEAN : CancelTurn(clear)
    \/ \E h \in Runtime :
        \/ LoopStep(h) \/ TurnStep(h) \/ TurnEnds(h)
        \/ CancelQueued(h) \/ ActivateFails(h) \/ IdleClose(h)
        \/ ScheduleRetry(h) \/ RetryProvider(h) \/ ServiceCancel(h)
    \/ AttachObserve \/ AttachStep
    \/ Crash

Spec == Init /\ [][Next]_vars

(* A runtime's task goes on.  A turn need not end: a provider and a tool   *)
(* host are retried for as long as they fail and nobody limited it, and a  *)
(* permission or an answer is waited for without a limit.  Nobody has to   *)
(* submit, attach, cancel or resume anything.                              *)
FairSpec ==
    /\ Spec
    /\ \A h \in Runtime : WF_vars(LoopStep(h) \/ TurnStep(h))

-----------------------------------------------------------------------------
(* Properties. *)

(* A session has one runtime that takes input, the one session_runtimes    *)
(* names, although a runtime removes itself when it was idle and a request *)
(* replaces an entry whose channels it finds closed.                       *)
OneLiveRuntime == \A h \in Runtime : Open(h) => h = map

(* A runtime that closes its channels leaves no input behind: the last     *)
(* look at the queue and the close are one with respect to acceptance.     *)
ClosesOverNothing ==
    \A h \in Runtime : rt[h].step = "closing" => NothingPending

(* What a runtime executes was activated as a turn of its own, and was not *)
(* cancelled between its selection and the activation.                     *)
ExecutedTurnIsActivated ==
    \A h \in Runtime : LET t == rt[h].turn IN
        rt[h].step \notin {"dead", "top", "closing", "selected"} =>
            rec[t].status = "activated" /\ Own(t)

(* No message waits to steer a turn that has settled: it is accepted as    *)
(* steering only while the turn will look again, and settlement cancels    *)
(* what the turn has not taken, unless storage fails it.                   *)
SteeringIsSettled ==
    disturbances.fault = 0 =>
        \A t \in Submission : terminal[t] = "settled" => Steering(t) = {}

(* Turns start in the order of acceptance: when one is activated, every    *)
(* earlier one is cancelled or has ended.  The exception is a message that *)
(* was to steer a turn that ended without it: as the queue's head it hides *)
(* an interrupted turn behind it, and it may be cancelled after the        *)
(* selection, which the activation does not look at again.                 *)
InOrder(s) ==
    \A u \in Submission :
        Before(u, s) /\ Own(u) =>
            \/ rec[u].status = "cancelled"
            \/ terminal[u] # "none"
            \/ \E w \in Submission :
                /\ rec[w].status \in {"pending", "cancelled"} /\ ~Own(w)
                /\ Before(w, u)

StartsInOrder ==
    [][\A s \in Submission :
          Pending(s) /\ Own(s) /\ rec'[s].status = "activated" => InOrder(s)]_vars

(* Said of the program: "An attach is not proof of daemon loss. A live     *)
(* turn owns its invocation batch".  Recovery ends no turn that a runtime  *)
(* of this daemon is executing.                                            *)
RecoverySparesLiveTurns ==
    [][\A t \in Submission : terminal[t] = "none" /\ terminal'[t] = "recovered" =>
          \A h \in Runtime : ~(rt[h].turn = t /\ rt[h].begun)]_vars

(* Input that waits for ever although the session has a runtime: its       *)
(* recipe, or that of earlier input, was not found, or a turn before it    *)
(* was interrupted and nobody executes or recovers it.                     *)
Live == map # NoRuntime /\ Open(map)

Hinted(kind, s) == \E h \in Runtime : [kind |-> kind, id |-> s] \in rt[h].chan \union rt[h].hints

Blocks(u) ==
    \/ /\ Pending(u) /\ Own(u) /\ rec[u].observed
       /\ rec[u].authorized \/ ~Hinted("run", u)
    \/ /\ InterruptedHead(u) /\ ~Hinted("recover", rec[u].target)
       /\ \A h \in Runtime : rt[h].turn # rec[u].target

Blocked(s) == \E u \in Submission : (u = s \/ Before(u, s)) /\ Blocks(u)

(* A turn is executing its rounds or waits for the next attempt.           *)
TurnGoesOn == \E h \in Runtime : rt[h].step \in {"run", "waiting"}

(* Accepted input does not wait for its hint: with a live runtime it is    *)
(* activated or cancelled, or something the user sees blocks the queue, or *)
(* the turn before it goes on for ever, whichever hints were dropped,      *)
(* pruned or consumed by a failed attempt.                                 *)
WaitingInputIsTaken ==
    \A s \in Submission :
        Pending(s) /\ Own(s) /\ Live ~>
            ~Pending(s) \/ Blocked(s) \/ ~Live \/ []TurnGoesOn

=============================================================================
