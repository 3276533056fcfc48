----------------------------- MODULE WorkflowRun -----------------------------
(***************************************************************************)
(* One workflow run in the shared workflow store, and the daemons that     *)
(* drive it: packages/workflow-store (dispatch.rs, receipts.rs,            *)
(* controls.rs, output.rs, recovery.rs, lib.rs) with the driver, the       *)
(* recovery pass, the prompt owner and the operator controls of            *)
(* packages/server/src/lib.rs and workflow_operations.rs.                  *)
(*                                                                         *)
(* A store transaction is one action.  A driver holds the run's drive gate *)
(* over several transactions with awaits between them: task says where it  *)
(* is.  The operation an attempt dispatches is a model turn in a session;  *)
(* it is accepted at most once for a dispatch identity, and runs on the    *)
(* daemon that started it.                                                 *)
(*                                                                         *)
(* The run's activations are independent of each other and each is an      *)
(* exit: joins, fan-out, loops, child runs and graph edits are left out,   *)
(* and so are deadlines and execution allowances.                          *)
(***************************************************************************)
EXTENDS Naturals, FiniteSets

CONSTANTS
    Daemon,           \* daemon instances; an instance that ended stays ended
    Artifact,         \* the build artifacts
    ArtifactOf,       \* the artifact a daemon runs
    First,            \* the daemon that starts the run
    Activation,
    RetryCap,
    ConcurrencyCap,
    MaxGeneration,    \* bound: authority generations
    World,            \* the worlds to look at: which activations have no side
                      \* effect, whether evidence of an owner's end is only
                      \* ever given truly, how many retries there may be
                      \* (bounded by RetryCap), and which daemons there are
    Nobody, NoBarrier

ASSUME WorkflowConstants ==
    /\ ArtifactOf \in [Daemon -> Artifact]
    /\ First \in Daemon
    /\ RetryCap \in Nat
    /\ ConcurrencyCap \in Nat
    /\ MaxGeneration \in Nat \ {0}
    /\ World \subseteq [readOnly : SUBSET Activation, sound : BOOLEAN,
                       retries : 0 .. RetryCap,
                       daemons : {D \in SUBSET Daemon : First \in D}]
    /\ Nobody \notin Daemon
    /\ NoBarrier \notin Artifact

VARIABLES
    world,      \* the world of this behaviour; chosen once
    db,         \* workflow_runs, workflow_activations, workflow_attempts
    receipt,    \* attempts with a receipt_json
    handed,     \* attempts with handed_off = 1
    auth,       \* the run's execution authority; the generation stands for
                \* the fencing token as well
    barrier,    \* source artifact of the row in workflow_recovery_barriers
    task,       \* what the holder of a daemon's drive gate is doing
    exec,       \* the operations
    work,       \* the daemons' registries of runtime work
    completion, \* tasks that wait for an operation to end, and settle it
    asked,      \* attempts a cancellation by an operator has yet to signal
    unmarked,   \* attempts signalled, and not marked in the store yet
    up          \* daemons that have not ended

vars == <<world, db, receipt, handed, auth, barrier, task, exec,
          work, completion, asked, unmarked, up>>

-----------------------------------------------------------------------------
(* Types. *)

(* An attempt of an activation; its dispatch identity.                     *)
Attempt == Activation \X (1 .. RetryCap + 1)

ActivationOf(i) == i[1]

RunStatus == {"running", "paused", "repair_required", "completed", "failed", "cancelled"}

ActivationStatus == {"pending", "running", "completed", "failed", "cancelled"}

(* Attempts the owner may still be working for, with a receipt.            *)
InFlight == {"admitted", "running", "cancelling"}

Active == InFlight \union {"prepared"}

(* finalize_run_cancellation_if_settled and quiescent reassignment.        *)
Settled == {"succeeded", "failed", "cancelled", "paused", "abandoned"}

Unsettled == Active \union {"repair_required"}

AttemptStatus == Unsettled \union Settled \union {"none"}

Store ==
    [run : RunStatus, cancel : BOOLEAN,
     act : [Activation -> ActivationStatus],
     attempt : [Attempt -> AttemptStatus]]

Authority == [daemon : Daemon, generation : 1 .. MaxGeneration]

(* How an operation can end; lost if its daemon ended first.               *)
Outcome == {"succeeded", "failed", "paused", "cancelled"}

Accepted == Outcome \union {"live", "lost"}

Execution == [state : Accepted \union {"none"}, host : Daemon \union {Nobody}]

NotStarted == [state |-> "none", host |-> Nobody]

(* A registry entry, and whether it was told to stop.                      *)
Work == [id : Attempt, host : Daemon, cancelled : BOOLEAN]

(* A completion task: with the authority of its dispatch; watching a turn  *)
(* that existed; current while its registry entry was not replaced.        *)
Completion ==
    [id : Attempt, host : Daemon, generation : 1 .. MaxGeneration,
     watch : BOOLEAN, current : BOOLEAN]

(* AttemptObservation; RetryableFailure is failed.                         *)
Observation == Outcome \union {"running", "deferred", "unknown"}

Idle == [step |-> "idle"]

(* A page of observations has at most two attempts here, taken in order.   *)
Task ==
    {Idle}
    \union [step : {"prepared", "handed", "checked", "registered", "accepted", "examined"},
            id : Attempt, generation : 1 .. MaxGeneration]
    \union [step : {"observed"}, id : Attempt, also : Attempt,
            obs : Observation, alsoObs : Observation, generation : 1 .. MaxGeneration]

TypeOK ==
    /\ world \in World
    /\ db \in Store
    /\ receipt \subseteq Attempt
    /\ handed \subseteq Attempt
    /\ auth \in Authority
    /\ barrier \in Artifact \union {NoBarrier}
    /\ task \in [Daemon -> Task]
    /\ exec \in [Attempt -> Execution]
    /\ work \subseteq Work
    /\ completion \subseteq Completion
    /\ asked \subseteq Attempt
    /\ unmarked \subseteq Attempt
    /\ up \subseteq Daemon

-----------------------------------------------------------------------------
(* What a transaction reads. *)

Mutating(i) == ActivationOf(i) \notin world.readOnly

(* verify_execution_authority with the authority a caller captured.        *)
Verified(d, generation) == auth = [daemon |-> d, generation |-> generation]

(* A caller on the recorded daemon takes the authority and uses it.        *)
Holds(d) == d \in up /\ auth.daemon = d

(* next_attempt: the attempts of an activation are numbered without gaps.  *)
NextAttempt(i) ==
    /\ db.attempt[i] = "none" /\ i[2] <= world.retries + 1
    /\ i[2] > 1 => db.attempt[<<i[1], i[2] - 1>>] # "none"

LatestAttempt(i) ==
    /\ db.attempt[i] # "none"
    /\ i[2] <= RetryCap => db.attempt[<<i[1], i[2] + 1>>] = "none"

AllSettled(s) == \A i \in Attempt : s.attempt[i] \notin Unsettled

(* dispatch_eligible: the activation and the run are running, uncancelled. *)
DispatchEligible(i) ==
    /\ db.act[ActivationOf(i)] = "running"
    /\ db.run = "running"
    /\ ~db.cancel

-----------------------------------------------------------------------------
(* What a transaction writes. *)

(* finalize_run_cancellation_if_settled.                                   *)
Finalized(s) ==
    IF s.cancel /\ s.run \in {"running", "paused"} /\ AllSettled(s)
    THEN [s EXCEPT !.run = "cancelled",
                   !.act = [a \in Activation |-> IF s.act[a] \in {"pending", "running"}
                                                 THEN "cancelled" ELSE s.act[a]]]
    ELSE s

(* Mutant: the first output completes the run, whatever is unfinished.     *)
WithOutputAlone(s, a) ==
    [s EXCEPT !.act[a] = "completed",
              !.run = IF s.run = "running" THEN "completed" ELSE s.run]

(* persist_validated_output_transaction: the activation is completed, and  *)
(* the run when that was the last unfinished one.                          *)
WithOutput(s, a) ==
    [s EXCEPT !.act[a] = "completed",
              !.run = IF /\ s.run \in {"running", "paused"}
                         /\ \A b \in Activation \ {a} : s.act[b] \notin {"pending", "running"}
                      THEN "completed" ELSE s.run]

(* Mutant: the activation is put back, as if the attempt had ended.        *)
NeedsRepairAndRetries(s, i) ==
    [s EXCEPT !.attempt[i] = "repair_required", !.run = "repair_required",
              !.act[ActivationOf(i)] = "pending"]

NeedsRepair(s, i) ==
    [s EXCEPT !.attempt[i] = "repair_required", !.run = "repair_required"]

(* receipt_activation_transition.                                          *)
Transition(act, a, status) ==
    [act EXCEPT ![a] = IF act[a] = "running" THEN status ELSE act[a]]

(* Mutant: an outcome that is not known is taken for a failure.            *)
UnknownIsFailure(s, o) ==
    IF s.cancel /\ o \in Outcome THEN "cancelled"
    ELSE IF o = "unknown" THEN "failed" ELSE o

(* Once cancellation is requested a terminal outcome settles as cancelled. *)
Settling(s, o) == IF s.cancel /\ o \in Outcome THEN "cancelled" ELSE o

(* apply_attempt_observation: when it succeeds ...                         *)
CanApply(s, i, o) ==
    LET status == s.attempt[i]
        as == Settling(s, o)
        running == s.act[ActivationOf(i)] = "running"
    IN  \/ o = "deferred"
        \/ /\ status \in {"succeeded", "failed", "paused", "cancelled", "repair_required"}
           /\ \/ o \in {"running", status}
              \/ status = "repair_required" /\ o = "unknown"
        \/ /\ status \in InFlight
           /\ as = "succeeded" => s.act[ActivationOf(i)] \in {"pending", "running"}
           /\ as = "failed" => running
           /\ as = "paused" => running /\ s.run = "running"
        \/ status \in Active \union {"abandoned"} /\ o = "unknown" /\ s.cancel /\ ~Mutating(i)

(* Mutant: what was observed is written as the status, whatever it is.     *)
ObservedAsStatus(s, i, o) == [s EXCEPT !.attempt[i] = Settling(s, o)]

(* Mutant: an attempt that is settled already is settled again.            *)
AppliedAgain(s, i, o) ==
    IF o \in Outcome THEN [s EXCEPT !.attempt[i] = Settling(s, o)] ELSE s

(* ... and what it leaves.                                                 *)
Applied(s, i, o) ==
    LET a == ActivationOf(i)
        as == Settling(s, o)
        settled == [s EXCEPT !.attempt[i] = as]
    IN  IF s.attempt[i] \notin Active THEN s
        ELSE CASE as = "deferred" -> s
               [] as = "running" ->
                    [s EXCEPT !.attempt[i] = IF s.cancel THEN "cancelling" ELSE "running"]
               [] as = "unknown" ->
                    IF s.cancel /\ ~Mutating(i) THEN s ELSE NeedsRepair(s, i)
               [] as = "succeeded" -> WithOutput(settled, a)
               [] as = "failed" ->
                    [settled EXCEPT !.act[a] = "failed",
                                    !.run = IF s.run = "running" THEN "failed" ELSE s.run]
               [] as = "paused" -> [settled EXCEPT !.act[a] = "pending", !.run = "paused"]
               [] as = "cancelled" ->
                    Finalized([settled EXCEPT !.act = Transition(s.act, a, "cancelled")])

(* persist_dispatch_receipt_transaction: a late receipt does not undo the  *)
(* mark that the attempt is being cancelled.                               *)
CanAttach(i) ==
    \/ i \notin receipt /\ db.attempt[i] \in {"prepared", "cancelling"}
    \/ i \in receipt /\ db.attempt[i] \in InFlight \union {"succeeded", "failed", "cancelled"}

Attached(s, i) ==
    IF s.attempt[i] = "prepared" THEN [s EXCEPT !.attempt[i] = "admitted"] ELSE s

-----------------------------------------------------------------------------
Init ==
    /\ world \in World
    /\ db = [run |-> "running", cancel |-> FALSE,
             act |-> [a \in Activation |-> "pending"],
             attempt |-> [i \in Attempt |-> "none"]]
    /\ receipt = {}
    /\ handed = {}
    /\ auth = [daemon |-> First, generation |-> 1]
    /\ barrier = NoBarrier
    /\ task = [d \in Daemon |-> Idle]
    /\ exec = [i \in Attempt |-> NotStarted]
    /\ work = {}
    /\ completion = {}
    /\ asked = {}
    /\ unmarked = {}
    /\ up = world.daemons

At(d, step) == d \in up /\ task[d].step = step

Do(d, step, i, generation) ==
    task' = [task EXCEPT ![d] = [step |-> step, id |-> i, generation |-> generation]]

GiveUp(d) == task' = [task EXCEPT ![d] = Idle]

storeVars == <<db, receipt, handed>>
ownership == <<auth, barrier, up>>
operations == <<exec, work, completion>>
cancels == <<asked, unmarked>>

EntriesOf(d, i) == {w \in work : w.id = i /\ w.host = d}

-----------------------------------------------------------------------------
(* Dispatch, under the drive gate. *)

(* prepare_pending_activation_with_authority.  A database trigger refuses  *)
(* the insert while a recovery barrier exists.                             *)
Prepare(d, i) ==
    /\ Holds(d) /\ At(d, "idle")
    /\ barrier = NoBarrier
    /\ db.act[ActivationOf(i)] = "pending"
    /\ db.run = "running" /\ ~db.cancel
    /\ NextAttempt(i)
    /\ Cardinality({j \in Attempt : db.attempt[j] \in Active}) < ConcurrencyCap
    /\ db' = [db EXCEPT !.act[ActivationOf(i)] = "running", !.attempt[i] = "prepared"]
    /\ Do(d, "prepared", i, auth.generation)
    /\ UNCHANGED <<world, receipt, handed, ownership, operations, cancels>>

(* redispatch_owned_prepared_read_only: the identity is handed off again.  *)
Redispatch(d, i) ==
    /\ Holds(d) /\ At(d, "idle")
    /\ ~Mutating(i) /\ db.attempt[i] = "prepared" /\ i \notin receipt
    /\ Do(d, "prepared", i, auth.generation)
    /\ UNCHANGED <<world, storeVars, ownership, operations, cancels>>

CanHandOff(i, d) ==
    /\ Verified(d, task[d].generation)
    /\ barrier = NoBarrier
    /\ db.attempt[i] = "prepared"
    /\ DispatchEligible(i)

(* record_dispatch_handoff, or its refusal.                                *)
Handoff(d) ==
    /\ At(d, "prepared")
    /\ LET i == task[d].id IN
         \/ /\ CanHandOff(i, d)
            /\ handed' = handed \union {i}
            /\ Do(d, "handed", i, task[d].generation)
         \/ /\ ~CanHandOff(i, d)
            /\ GiveUp(d)
            /\ UNCHANGED handed
    /\ UNCHANGED <<world, db, receipt, ownership, operations, cancels>>

(* The prompt owner takes the authority anew and checks the admission; a   *)
(* receipt that exists is returned.                                        *)
CheckOwner(d) ==
    /\ At(d, "handed")
    /\ LET i == task[d].id IN
         \/ /\ Holds(d) /\ i \in receipt
            /\ Do(d, "accepted", i, auth.generation)
         \/ /\ Holds(d) /\ i \notin receipt
            /\ db.attempt[i] = "prepared" /\ DispatchEligible(i)
            /\ Do(d, "checked", i, auth.generation)
         \/ /\ ~Holds(d) \/ i \notin receipt
            /\ ~Holds(d) \/ db.attempt[i] # "prepared" \/ ~DispatchEligible(i)
            /\ GiveUp(d)
    /\ UNCHANGED <<world, storeVars, ownership, operations, cancels>>

(* register_workflow_node_runtime_work, after the session of the turn is   *)
(* made.  An entry that is there is replaced; that it was told to stop is  *)
(* kept.                                                                   *)
Register(d) ==
    /\ At(d, "checked")
    /\ LET i == task[d].id
           old == EntriesOf(d, i)
       IN  /\ work' = (work \ old) \union
                      {[id |-> i, host |-> d, cancelled |-> \E w \in old : w.cancelled]}
           /\ completion' = {IF c.id = i /\ c.host = d THEN [c EXCEPT !.current = FALSE] ELSE c :
                               c \in completion}
           /\ Do(d, "registered", i, task[d].generation)
    /\ UNCHANGED <<world, storeVars, ownership, exec, cancels>>

(* submit_session_model_turn: the session accepts a dispatch identity at   *)
(* most once; a second submission finds the first one's turn.  Then the    *)
(* completion task is installed.                                           *)
Submit(d) ==
    /\ At(d, "registered")
    /\ LET i == task[d].id
           new == exec[i].state = "none"
       IN  /\ exec' = IF new THEN [exec EXCEPT ![i] = [state |-> "live", host |-> d]] ELSE exec
           /\ completion' = completion \union
                {[id |-> i, host |-> d, generation |-> task[d].generation,
                  watch |-> ~new, current |-> TRUE]}
           /\ Do(d, "accepted", i, task[d].generation)
    /\ UNCHANGED <<world, storeVars, ownership, work, cancels>>

(* The submission times out although the session has accepted the turn.    *)
SubmitLost(d) ==
    /\ At(d, "registered")
    /\ exec[task[d].id].state = "none"
    /\ exec' = [exec EXCEPT ![task[d].id] = [state |-> "live", host |-> d]]
    /\ GiveUp(d)
    /\ UNCHANGED <<world, storeVars, ownership, work, completion, cancels>>

(* The dispatch fails, or is dropped by the admission's timeout, between   *)
(* handoff and receipt: nothing it did is undone.                          *)
AdmissionFails(d) ==
    /\ d \in up /\ task[d].step \in {"handed", "checked", "registered", "accepted"}
    /\ GiveUp(d)
    /\ UNCHANGED <<world, storeVars, ownership, operations, cancels>>

(* persist_dispatch_receipt, or its refusal.                               *)
PersistReceipt(d) ==
    /\ At(d, "accepted")
    /\ LET i == task[d].id
           ok == Verified(d, task[d].generation) /\ CanAttach(i)
       IN  /\ receipt' = IF ok THEN receipt \union {i} ELSE receipt
           /\ db' = IF ok THEN Attached(db, i) ELSE db
    /\ GiveUp(d)
    /\ UNCHANGED <<world, handed, ownership, operations, cancels>>

-----------------------------------------------------------------------------
(* The operations. *)

(* A turn ends; it ends as cancelled when it was told to stop.             *)
Finish(i) ==
    /\ exec[i].state = "live"
    /\ \E o \in Outcome :
         /\ o = "cancelled" => \E w \in work : w.id = i /\ w.cancelled
         /\ exec' = [exec EXCEPT ![i].state = o]
    /\ UNCHANGED <<world, storeVars, ownership, task, work, completion, cancels>>

(* The completion task ends; the registry entry it belongs to is retired.  *)
Retire(c) ==
    /\ completion' = completion \ {c}
    /\ work' = IF c.current THEN work \ EntriesOf(c.host, c.id) ELSE work

(* complete_workflow_prompt_dispatch, under the gate, with the authority   *)
(* of the dispatch: publish the receipt if need be, then settle.  A paused *)
(* turn is left to reconciliation.                                         *)
Complete(d, c) ==
    /\ At(d, "idle")
    /\ c \in completion /\ c.host = d /\ exec[c.id].state \in Outcome
    /\ LET i == c.id
           ok == /\ exec[i].state # "paused"
                 /\ Verified(d, c.generation) /\ CanAttach(i)
           s == Attached(db, i)
       IN  /\ receipt' = IF ok THEN receipt \union {i} ELSE receipt
           /\ db' = IF ~ok THEN db
                    ELSE IF CanApply(s, i, exec[i].state) THEN Applied(s, i, exec[i].state) ELSE s
    /\ Retire(c)
    /\ UNCHANGED <<world, handed, ownership, task, exec, cancels>>

(* The evidence cannot be read, or watching a turn that existed times out. *)
CompleteFails(d, c) ==
    /\ d \in up
    /\ c \in completion /\ c.host = d
    /\ c.watch \/ exec[c.id].state \in Outcome
    /\ Retire(c)
    /\ UNCHANGED <<world, storeVars, ownership, task, exec, cancels>>

-----------------------------------------------------------------------------
(* Recovery and reconciliation, under the drive gate.  The pass picks its  *)
(* runs by their status before it takes the gate; the status may be        *)
(* another one when it acts, and the transactions do not ask for it.       *)

(* Mutant: a turn without a terminal event is taken for unproven.          *)
ObservedWithoutTerminal(d, i) ==
    IF exec[i].state \in Outcome THEN {exec[i].state, "deferred"} ELSE {"unknown", "deferred"}

(* What observing an operation from daemon d can return.                   *)
Observed(d, i) ==
    CASE exec[i].state \in Outcome -> {exec[i].state, "deferred"}
      [] exec[i].state = "lost" -> {"unknown", "deferred"}
      [] exec[i].state = "live" /\ exec[i].host = d -> {"running", "deferred"}
      [] OTHER -> {"deferred"}

(* recover_completed_workflow_admission_page: the session has the turn of  *)
(* a preparation without a receipt.  The receipt stays when the            *)
(* observation cannot be applied.                                          *)
RecoverReceipt(d, i) ==
    /\ Holds(d) /\ At(d, "idle")
    /\ barrier = NoBarrier
    /\ db.attempt[i] \in {"prepared", "cancelling"} /\ i \notin receipt
    /\ exec[i].state \in Accepted
    /\ receipt' = receipt \union {i}
    /\ \E o \in Observed(d, i) :
         LET s == Attached(db, i) IN
           db' = IF o \notin {"running", "deferred"} /\ CanApply(s, i, o)
                 THEN Applied(s, i, o) ELSE s
    /\ UNCHANGED <<world, handed, ownership, task, operations, cancels>>

(* Mutant: the session is not asked for a turn it accepted.                *)
ExamineBlindly(d, i) ==
    /\ Holds(d) /\ At(d, "idle")
    /\ barrier = NoBarrier
    /\ db.attempt[i] \in {"prepared", "cancelling"} /\ i \notin receipt
    /\ Do(d, "examined", i, auth.generation)
    /\ UNCHANGED <<world, storeVars, ownership, operations, cancels>>

(* ... or it has no such turn: the preparation can be classified.          *)
Examine(d, i) ==
    /\ Holds(d) /\ At(d, "idle")
    /\ barrier = NoBarrier
    /\ db.attempt[i] \in {"prepared", "cancelling"} /\ i \notin receipt
    /\ exec[i].state \notin Accepted
    /\ Do(d, "examined", i, auth.generation)
    /\ UNCHANGED <<world, storeVars, ownership, operations, cancels>>

(* reconcile_examined_preparations: a mutating preparation is ambiguous; a *)
(* read-only one goes on to be dispatched again.                           *)
Classify(d) ==
    /\ At(d, "examined")
    /\ LET i == task[d].id
           found == /\ Verified(d, task[d].generation)
                    /\ db.attempt[i] = "prepared" /\ i \notin receipt
       IN  /\ db' = IF found /\ Mutating(i) THEN NeedsRepair(db, i) ELSE db
           /\ IF found /\ ~Mutating(i) THEN Do(d, "prepared", i, task[d].generation)
                                       ELSE GiveUp(d)
    /\ UNCHANGED <<world, receipt, handed, ownership, operations, cancels>>

(* reconcile_attempt_requests_with_authority: observe a page, ...          *)
Observe(d, i, j) ==
    /\ Holds(d) /\ At(d, "idle")
    /\ \A k \in {i, j} : k \in receipt /\ db.attempt[k] \in InFlight
    /\ \E o \in Observed(d, i), p \in Observed(d, j) :
         /\ i = j => o = p
         /\ task' = [task EXCEPT ![d] =
              [step |-> "observed", id |-> i, also |-> j, obs |-> o, alsoObs |-> p,
               generation |-> auth.generation]]
    /\ UNCHANGED <<world, storeVars, ownership, operations, cancels>>

(* ... then apply it in one transaction, which fails as a whole.           *)
PageApplies(s, t) ==
    /\ CanApply(s, t.id, t.obs)
    /\ t.id # t.also => CanApply(Applied(s, t.id, t.obs), t.also, t.alsoObs)

AfterPage(s, t) ==
    IF t.id = t.also THEN Applied(s, t.id, t.obs)
                     ELSE Applied(Applied(s, t.id, t.obs), t.also, t.alsoObs)

(* Mutant: the authority is not looked at again after the observation.     *)
ReconcileUnfenced(d) ==
    /\ At(d, "observed")
    /\ db' = AfterPage(db, task[d])
    /\ GiveUp(d)
    /\ UNCHANGED <<world, receipt, handed, ownership, operations, cancels>>

Reconcile(d) ==
    /\ At(d, "observed")
    /\ db' = IF Verified(d, task[d].generation) /\ PageApplies(db, task[d])
             THEN AfterPage(db, task[d]) ELSE db
    /\ GiveUp(d)
    /\ UNCHANGED <<world, receipt, handed, ownership, operations, cancels>>

-----------------------------------------------------------------------------
(* Controls. *)

(* transition_run_control_state.                                           *)
Pause(d) ==
    /\ Holds(d) /\ ~db.cancel /\ db.run = "running"
    /\ db' = [db EXCEPT !.run = "paused"]
    /\ UNCHANGED <<world, receipt, handed, ownership, task, operations, cancels>>

(* A database trigger refuses it while a recovery barrier exists.          *)
Resume(d) ==
    /\ Holds(d) /\ ~db.cancel /\ db.run = "paused"
    /\ barrier = NoBarrier
    /\ db' = [db EXCEPT !.run = "running"]
    /\ UNCHANGED <<world, receipt, handed, ownership, task, operations, cancels>>

(* cancel_run: request_run_cancellation_in_transaction, then the attempts  *)
(* to signal are listed.                                                   *)
RequestCancellation(d) ==
    /\ Holds(d)
    /\ db.run \in {"running", "paused", "repair_required"}
    /\ db' = Finalized([db EXCEPT !.cancel = TRUE])
    /\ asked' = asked \union
         {i \in Attempt : db'.attempt[i] \in {"prepared", "admitted", "running"}}
    /\ UNCHANGED <<world, receipt, handed, ownership, task, operations, unmarked>>

NeverDispatched(i) == db.attempt[i] = "prepared" /\ i \notin receipt /\ i \notin handed

(* cancel_never_dispatched_owned, tried first by the operator's pass and   *)
(* by the driver's.                                                        *)
CancelNeverDispatched(d, i) ==
    /\ Holds(d) /\ db.cancel
    /\ NeverDispatched(i)
    /\ db' = Finalized([db EXCEPT !.attempt[i] = "cancelled",
                                  !.act = Transition(db.act, ActivationOf(i), "cancelled")])
    /\ asked' = asked \ {i}
    /\ UNCHANGED <<world, receipt, handed, ownership, task, operations, unmarked>>

(* cancel_workflow_dispatch_runtime counts the entries it tells to stop;   *)
(* one that was told before is none.                                       *)
Signalable(d, i) == \E w \in EntriesOf(d, i) : ~w.cancelled

(* signal_workflow_attempt_cancellation, by the operator's pass or by the  *)
(* driver's sweep of active attempts, finds the runtime work ...           *)
Signal(d, i) ==
    /\ Holds(d) /\ db.cancel
    /\ ~NeverDispatched(i) /\ Signalable(d, i)
    /\ \/ /\ i \in asked
          /\ asked' = asked \ {i}
       \/ /\ At(d, "idle") /\ db.attempt[i] \in Active
          /\ UNCHANGED asked
    /\ work' = (work \ EntriesOf(d, i)) \union {[id |-> i, host |-> d, cancelled |-> TRUE]}
    /\ unmarked' = unmarked \union {i}
    /\ UNCHANGED <<world, storeVars, ownership, task, exec, completion>>

(* ... and mark_cancellation_signalled_owned follows.                      *)
MarkSignalled(d, i) ==
    /\ Holds(d) /\ db.cancel
    /\ i \in unmarked
    /\ unmarked' = unmarked \ {i}
    /\ db' = IF db.attempt[i] \in {"prepared", "admitted", "running"}
             THEN [db EXCEPT !.attempt[i] = "cancelling"] ELSE db
    /\ UNCHANGED <<world, receipt, handed, ownership, task, operations, asked>>

(* Mutant: a missing registry entry is proof enough.                       *)
AdmissionIgnored(i) == FALSE

(* cancellation_admission_in_flight.                                       *)
AdmissionInFlight(i) == i \in handed /\ i \notin receipt

(* settle_orphaned_attempt_cancellation: the operator's pass finds no      *)
(* runtime work to tell.                                                   *)
SettleOrphan(d, i) ==
    /\ Holds(d) /\ db.cancel
    /\ i \in asked /\ asked' = asked \ {i}
    /\ ~NeverDispatched(i) /\ ~Signalable(d, i)
    /\ db' = IF \/ barrier # NoBarrier
                \/ db.attempt[i] \notin Active
                \/ AdmissionInFlight(i)
             THEN db
             ELSE IF Mutating(i) THEN NeedsRepair(db, i)
             ELSE Finalized([db EXCEPT !.attempt[i] = "cancelled",
                                       !.act[ActivationOf(i)] =
                                           IF @ \in {"pending", "running"} THEN "cancelled"
                                                                           ELSE @])
    /\ UNCHANGED <<world, receipt, handed, ownership, task, operations, unmarked>>

(* retry_failed_node.  The trigger on the run's status applies to it too.  *)
Retry(d, i) ==
    /\ Holds(d) /\ ~db.cancel /\ db.run = "failed"
    /\ barrier = NoBarrier
    /\ db.act[ActivationOf(i)] = "failed"
    /\ LatestAttempt(i) /\ db.attempt[i] = "failed" /\ i[2] <= world.retries
    /\ db' = [db EXCEPT !.act[ActivationOf(i)] = "pending", !.run = "running"]
    /\ UNCHANGED <<world, receipt, handed, ownership, task, operations, cancels>>

(* Mutant: the other attempts are not looked at.                           *)
RepairedAlone(s, abandoned) ==
    [s EXCEPT !.run = IF abandoned /\ barrier = NoBarrier THEN "running" ELSE "paused"]

(* The run after repair_attempt: attempts that need repair keep it where   *)
(* it is; only an abandoned attempt lets it run on.                        *)
Repaired(s, abandoned) ==
    [s EXCEPT !.run = IF \E i \in Attempt : s.attempt[i] = "repair_required"
                      THEN "repair_required"
                      ELSE IF abandoned /\ barrier = NoBarrier THEN "running" ELSE "paused"]

(* repair_attempt: the operator confirms an outcome, or abandons it.       *)
Repair(d, i) ==
    /\ Holds(d) /\ db.attempt[i] = "repair_required"
    /\ LET a == ActivationOf(i) IN
         \/ /\ db.act[a] \in {"pending", "running"}
            /\ db' = Finalized(Repaired([WithOutput(db, a) EXCEPT !.attempt[i] = "succeeded"],
                                        FALSE))
         \/ \E o \in {"failed", "cancelled"} :
              db' = Finalized(Repaired([db EXCEPT !.attempt[i] = o], FALSE))
         \/ /\ ~db.cancel
            /\ db' = Repaired([db EXCEPT !.attempt[i] = "abandoned",
                                         !.act = Transition(db.act, a, "pending")], TRUE)
    /\ UNCHANGED <<world, receipt, handed, ownership, task, operations, cancels>>

-----------------------------------------------------------------------------
(* Ownership of the run. *)

(* prior_owner_liveness says ended.                                        *)
OwnerEnded ==
    auth.daemon \notin up \/ ~world.sound

(* Mutant: the run is left running while it is barred.                     *)
TakeOverRunning(d) ==
    /\ d \in up /\ d # auth.daemon
    /\ OwnerEnded
    /\ db.run \in {"running", "paused", "repair_required"}
    /\ auth.generation < MaxGeneration
    /\ auth' = [daemon |-> d, generation |-> auth.generation + 1]
    /\ barrier' = IF ArtifactOf[d] # ArtifactOf[auth.daemon] THEN ArtifactOf[auth.daemon]
                                                             ELSE barrier
    /\ asked' = {} /\ unmarked' = {}
    /\ UNCHANGED <<world, db, receipt, handed, task, operations, up>>

(* transfer_ended_workflow_owner: a daemon of another artifact gets the    *)
(* run for recovery only.                                                  *)
TakeOver(d) ==
    /\ d \in up /\ d # auth.daemon
    /\ OwnerEnded
    /\ db.run \in {"running", "paused", "repair_required"}
    /\ auth.generation < MaxGeneration
    /\ auth' = [daemon |-> d, generation |-> auth.generation + 1]
    /\ \/ /\ ArtifactOf[d] = ArtifactOf[auth.daemon]
          /\ UNCHANGED <<barrier, db>>
       \/ /\ ArtifactOf[d] # ArtifactOf[auth.daemon]
          /\ barrier' = IF barrier = NoBarrier THEN ArtifactOf[auth.daemon] ELSE barrier
          /\ db' = [db EXCEPT !.run = IF db.run = "running" THEN "paused" ELSE db.run]
    /\ asked' = {} /\ unmarked' = {}
    /\ UNCHANGED <<world, receipt, handed, task, operations, up>>

(* complete_recovery with resume: on the artifact the run came from, when  *)
(* nothing is unsettled.                                                   *)
ResumeRecovered(d) ==
    /\ Holds(d) /\ ~db.cancel /\ db.run = "paused"
    /\ barrier = ArtifactOf[d]
    /\ AllSettled(db)
    /\ barrier' = NoBarrier
    /\ db' = [db EXCEPT !.run = "running"]
    /\ UNCHANGED <<world, receipt, handed, auth, task, operations, cancels, up>>

(* A daemon ends: its gate and registry are gone, its turns are lost.      *)
Crash(d) ==
    /\ d \in up
    /\ up' = up \ {d}
    /\ task' = [task EXCEPT ![d] = Idle]
    /\ exec' = [i \in Attempt |->
                  IF exec[i].host = d /\ exec[i].state = "live"
                  THEN [exec[i] EXCEPT !.state = "lost"] ELSE exec[i]]
    /\ work' = {w \in work : w.host # d}
    /\ completion' = {c \in completion : c.host # d}
    /\ asked' = IF auth.daemon = d THEN {} ELSE asked
    /\ unmarked' = IF auth.daemon = d THEN {} ELSE unmarked
    /\ UNCHANGED <<world, storeVars, auth, barrier>>

-----------------------------------------------------------------------------
Drive(d) ==
    \/ \E i \in Attempt : Prepare(d, i) \/ Redispatch(d, i)
    \/ Handoff(d) \/ CheckOwner(d) \/ Register(d) \/ Submit(d) \/ SubmitLost(d)
    \/ AdmissionFails(d) \/ PersistReceipt(d)
    \/ \E c \in completion : Complete(d, c) \/ CompleteFails(d, c)
    \/ \E i \in Attempt : RecoverReceipt(d, i) \/ Examine(d, i)
    \/ Classify(d)
    \/ \E i, j \in Attempt : Observe(d, i, j)
    \/ Reconcile(d)

Control(d) ==
    \/ Pause(d) \/ Resume(d) \/ RequestCancellation(d)
    \/ \E i \in Attempt :
         \/ CancelNeverDispatched(d, i) \/ Signal(d, i) \/ MarkSignalled(d, i)
         \/ SettleOrphan(d, i) \/ Retry(d, i) \/ Repair(d, i)
    \/ TakeOver(d) \/ ResumeRecovered(d)

Next ==
    \/ \E d \in Daemon : Drive(d) \/ Control(d) \/ Crash(d)
    \/ \E i \in Attempt : Finish(i)

Spec == Init /\ [][Next]_vars

-----------------------------------------------------------------------------
(* Properties. *)

(* The run asks for repair exactly while one of its attempts does.  The    *)
(* status is written by observation, classification, cancellation and      *)
(* repair; operators rely on it to find ambiguous work.                    *)
RepairIsPinned ==
    db.run = "repair_required" <=> \E i \in Attempt : db.attempt[i] = "repair_required"

(* An unsettled attempt is the latest of its activation, which is running. *)
(* Attempts are inserted, settled and repaired by six transactions; two    *)
(* unsettled ones would execute the activation twice.                      *)
OneUnsettledAttempt ==
    \A i \in Attempt : db.attempt[i] \in Unsettled =>
        LatestAttempt(i) /\ db.act[ActivationOf(i)] = "running"

(* A completed or cancelled run has no unsettled attempt.                  *)
TerminalRunIsSettled == db.run \in {"completed", "cancelled"} => AllSettled(db)

(* A barred run is not running: nothing resumes it around the barrier.     *)
BarredRunIsStopped == barrier # NoBarrier => db.run # "running"

(* A settled attempt never changes again, however late observations,       *)
(* receipts, completions and cancellations arrive; and a run that is       *)
(* completed or cancelled stays so.                                        *)
SettlementIsFinal ==
    [][/\ \A i \in Attempt : db.attempt[i] \in Settled => db'.attempt[i] = db.attempt[i]
       /\ db.run \in {"completed", "cancelled"} => db'.run = db.run]_vars

(* What a daemon began before it lost the run writes nothing afterwards,   *)
(* although it is not told: neither its driver between two transactions    *)
(* nor the completion of a dispatch, even when the run came back to it     *)
(* under a later generation.                                               *)
StaleOwnerWritesNothing ==
    [][\/ \E d \in Daemon :
            /\ task[d] # Idle /\ task'[d] # task[d]
            /\ ~Verified(d, task[d].generation)
       \/ \E c \in completion \ completion' : ~Verified(c.host, c.generation)
       => UNCHANGED storeVars]_vars

(* While the evidence of an owner's end is true and no cancellation is     *)
(* requested, an operation that runs is one the store waits for: handed    *)
(* off, and its attempt active.  Classification, redispatch, late receipts *)
(* and lost submissions could each settle an attempt whose turn goes on.   *)
LiveIsTracked ==
    world.sound => \A i \in Attempt :
        exec[i].state = "live" /\ ~db.cancel => i \in handed /\ db.attempt[i] \in Active

(* The attempt of an admission between its check and its receipt is not    *)
(* settled by a cancellation: a late receipt finds its target.             *)
AdmissionKeepsAttempt ==
    world.sound => \A d \in up :
        /\ task[d].step \in {"checked", "registered", "accepted"}
        /\ task[d].id \notin receipt
        => db.attempt[task[d].id] \in Active

(* An activation gets another attempt only after the last one's operation  *)
(* was never accepted, ended as failed, paused or cancelled, or was        *)
(* abandoned by an operator: work that may have taken effect is not        *)
(* repeated by itself.                                                     *)
NoSilentReplay ==
    \A i, j \in Attempt :
        /\ ActivationOf(i) = ActivationOf(j) /\ i[2] < j[2]
        /\ db.attempt[j] # "none"
        /\ exec[i].state \in {"live", "succeeded", "lost"}
        => db.attempt[i] = "abandoned"

(* Said of the program: "Intent is not evidence that the owner stopped.    *)
(* Keep every owner kind nonterminal until a terminal observation confirms *)
(* its execution ended."  A cancelled run has no operation that runs.      *)
CancelledRunIsStill ==
    db.run = "cancelled" => \A i \in Attempt : exec[i].state # "live"
=============================================================================
