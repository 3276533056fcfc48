------------------------ MODULE SessionRuntimeProofs ------------------------
(***************************************************************************)
(* Proofs about SessionRuntime, for any number of submissions and runtime  *)
(* identities and any bounds: the type invariant, the four safety          *)
(* invariants and the order in which turns start.                          *)
(*                                                                         *)
(* The argument has three strands.  At most one runtime is open, the one   *)
(* the table names, so that whatever a runtime is in the middle of no      *)
(* other runtime can disturb.  A runtime between the close of its channels *)
(* and its removal, or between a turn's settlement and its terminal event, *)
(* holds the admission lock, and nothing becomes pending then.  And a      *)
(* record only goes forward: whatever was once seen activated as a turn of *)
(* its own (by a checkpoint, a recovery hint, a selection) stays so.       *)
(***************************************************************************)
EXTENDS SessionRuntime, WellFoundedInduction, TLAPS

-----------------------------------------------------------------------------
(* The inductive invariant. *)

(* Exactly the submissions with a record are accepted, and one without has *)
(* the target it will have as a turn of its own.                           *)
RecordsAreAccepted ==
    \A s \in Submission :
        /\ rec[s].status = "none" <=> \A i \in DOMAIN accepted : accepted[i] # s
        /\ rec[s].status = "none" => Own(s)

(* A runtime that has closed, or settled a turn, holds the admission lock. *)
HolderHasLock ==
    \A h \in Runtime : rt[h].step \in {"closing", "terminal"} => lock = h

(* The current turn is set only while the turn runs.                       *)
BegunRuns == \A h \in Runtime : rt[h].begun => rt[h].step \in {"run", "waiting", "settle"}

(* A submission that was activated as a turn of its own.                   *)
Started(t) == rec[t].status = "activated" /\ Own(t)

(* What points at such a turn: a retry checkpoint, a hint to recover it, a *)
(* settlement.  A turn that is selected is its own, and one selected for   *)
(* recovery was started.                                                   *)
CheckpointIsStarted == \A t \in retry : Started(t)

RecoverHintIsStarted ==
    \A h \in Runtime : \A c \in rt[h].chan \union rt[h].hints :
        c.kind = "recover" => Started(c.id)

SettledIsStarted == \A t \in Submission : terminal[t] = "settled" => Started(t)

SelectedIsOwn ==
    \A h \in Runtime : LET t == rt[h].turn IN
        rt[h].step = "selected" =>
            /\ rec[t].status # "none" /\ Own(t)
            /\ rt[h].via = "recover" => Started(t)

(* The turn a runtime is busy with has not settled before.                 *)
Unfinished ==
    {"selected", "register", "begin", "run", "waiting", "settle", "terminal"}

BusyTurnIsUnsettled ==
    \A h \in Runtime : rt[h].step \in Unfinished => terminal[rt[h].turn] # "settled"

(* Settlement has cancelled the turn's steering.                           *)
SettlementClears ==
    disturbances.fault = 0 =>
        \A h \in Runtime : rt[h].step = "terminal" => Steering(rt[h].turn) = {}

(* What is selected to run is in order already.                            *)
SelectedIsInOrder ==
    \A h \in Runtime :
        rt[h].step = "selected" /\ rt[h].via = "run" => InOrder(rt[h].turn)

(* A request past its start has the runtime it captured.                   *)
CaptureHasRuntime ==
    \A s \in Submission :
        request[s].step \in {"captured", "wake"} => request[s].runtime \in Runtime

RuntimeInv ==
    /\ TypeOK /\ CaptureHasRuntime
    /\ RecordsAreAccepted
    /\ OneLiveRuntime
    /\ HolderHasLock
    /\ BegunRuns
    /\ ClosesOverNothing
    /\ CheckpointIsStarted /\ RecoverHintIsStarted /\ SettledIsStarted
    /\ SelectedIsOwn /\ ExecutedTurnIsActivated
    /\ BusyTurnIsUnsettled /\ SettlementClears /\ SteeringIsSettled
    /\ SelectedIsInOrder

-----------------------------------------------------------------------------
(* What a step does to the runtimes, said without records. *)

(* Only runtime h changes; these are its step, its turn and how it came by *)
(* it, and whether the turn is current; its hints are old ones, ones to    *)
(* run a submission, or ones to recover a started turn.                    *)
Sets(h, step, turn, via, begun) ==
    /\ \A g \in Runtime \ {h} : rt'[g] = rt[g]
    /\ rt'[h].step = step /\ rt'[h].turn = turn
    /\ rt'[h].via = via /\ rt'[h].begun = begun
    /\ \A c \in rt'[h].chan \union rt'[h].hints :
        \/ c \in rt[h].chan \union rt[h].hints
        \/ c.kind = "run"
        \/ Started(c.id)

Touches(h) == Sets(h, rt[h].step, rt[h].turn, rt[h].via, rt[h].begun)

Releases(h) == Sets(h, "top", NoTurn, "none", rt[h].begun)

Advances(h, step) == Sets(h, step, rt[h].turn, rt[h].via, rt[h].begun)

(* h is the entry of the table now: it was, or it is new and the entry was *)
(* missing or closed.                                                      *)
Enters(h) ==
    /\ map' = h
    /\ \/ h = map /\ Touches(h)
       \/ /\ h # map /\ rt[h].step = "dead"
          /\ map = NoRuntime \/ ~Open(map)
          /\ Sets(h, "top", NoTurn, "none", FALSE)

(* Both ways to ask for the session's runtime, and whatever is sent to it. *)
LEMMA SpawnEffect ==
    ASSUME TypeOK, NEW h \in Runtime, SessionRuntimeHandle(h) \/ LiveSubmissionRuntime(h),
           map' = h
    PROVE  /\ rt' = Spawned(h) => Enters(h)
           /\ \A s \in Submission :
                rt' = [Spawned(h) EXCEPT ![h].chan = @ \union {[kind |-> "run", id |-> s]}]
                    => Enters(h)
           /\ \A c : rt' = [Spawned(h) EXCEPT ![h].cancel = c] => Enters(h)
           /\ \A t \in Submission :
                Started(t) /\ rt' = [Spawned(h) EXCEPT ![h].chan = {[kind |-> "recover", id |-> t]}]
                    => Enters(h)
<1> USE RuntimeConstants DEF SessionRuntimeHandle, LiveSubmissionRuntime, NewRuntime, Unused
<1>1. CASE h = map
  <2>1. Spawned(h) = rt /\ rt \in [Runtime -> Task]
    BY <1>1 DEF Spawned, TypeOK
  <2>2. rt' = rt => Touches(h)
    BY DEF Touches, Sets
  <2>3. ASSUME NEW s \in Submission,
               rt' = [rt EXCEPT ![h].chan = @ \union {[kind |-> "run", id |-> s]}]
        PROVE  Touches(h)
    BY <2>1, <2>3 DEF Touches, Sets, Task
  <2>4. ASSUME NEW c, rt' = [rt EXCEPT ![h].cancel = c] PROVE Touches(h)
    BY <2>1, <2>4 DEF Touches, Sets, Task
  <2>5. ASSUME NEW t \in Submission, Started(t),
               rt' = [rt EXCEPT ![h].chan = {[kind |-> "recover", id |-> t]}]
        PROVE  Touches(h)
    BY <2>1, <2>5 DEF Touches, Sets, Task
  <2> QED BY <1>1, <2>1, <2>2, <2>3, <2>4, <2>5 DEF Enters
<1>2. CASE h # map
  <2>1. Spawned(h) = [rt EXCEPT ![h] = Fresh]
    BY <1>2 DEF Spawned
  <2> QED BY <1>2, <2>1 DEF TypeOK, Enters, Sets, Fresh, Open
<1> QED BY <1>1, <1>2

(* The runtime's loop.                                                     *)
LEMMA LoopEffects ==
    ASSUME TypeOK, NEW h \in Runtime
    PROVE  /\ Drain(h) => Touches(h)
           /\ TakeRecovered(h) =>
                \E c \in Hints(h) : /\ c.kind = "recover" /\ InterruptedHead(c.id)
                                    /\ Sets(h, "selected", c.id, "recover", rt[h].begun)
           /\ TakeHint(h) =>
                \E s \in Submission : NextOwn(s) /\ Sets(h, "selected", s, "run", rt[h].begun)
           /\ TakeDurable(h) =>
                \/ Touches(h)
                \/ /\ UNCHANGED rec
                   /\ \E s \in Submission :
                        NextOwn(s) /\ Sets(h, "selected", s, "run", rt[h].begun)
<1>1. Drain(h) => Touches(h)
  BY DEF Drain, Touches, Sets, TypeOK, Task
<1>2. ASSUME NEW c \in Hints(h), NEW hints, Select(h, c, hints), hints \subseteq rt[h].hints
      PROVE  Sets(h, "selected", c.id, c.kind, rt[h].begun)
  BY <1>2 DEF Select, Sets, TypeOK, Task
<1>3. Hints(h) \subseteq rt[h].hints /\ rt[h].hints \subseteq Hint
  BY DEF Hints, TypeOK, Task
<1>4. TakeRecovered(h) =>
        \E c \in Hints(h) : /\ c.kind = "recover" /\ InterruptedHead(c.id)
                            /\ Sets(h, "selected", c.id, "recover", rt[h].begun)
  BY <1>2, <1>3 DEF TakeRecovered
<1>5. TakeHint(h) =>
        \E s \in Submission : NextOwn(s) /\ Sets(h, "selected", s, "run", rt[h].begun)
  BY <1>2, <1>3 DEF TakeHint, Hint, HintKind
<1>6. ASSUME TakeDurable(h) PROVE
        \/ Touches(h)
        \/ /\ UNCHANGED rec
           /\ \E s \in Submission :
                NextOwn(s) /\ Sets(h, "selected", s, "run", rt[h].begun)
  <2>1. PICK s \in Submission :
            LET hints == {c \in Hints(h) : c.id # s \/ c.kind = "recover"}
            IN  /\ NextOwn(s)
                /\ \/ Select(h, [kind |-> "run", id |-> s], hints) /\ UNCHANGED rec
                   \/ rt' = [rt EXCEPT ![h].hints = hints]
    BY <1>6 DEF TakeDurable
  <2>2. CASE UNCHANGED rec /\ Select(h, [kind |-> "run", id |-> s],
                    {c \in Hints(h) : c.id # s \/ c.kind = "recover"})
    BY <1>3, <2>1, <2>2 DEF Select, Sets, TypeOK, Task
  <2>3. CASE rt' = [rt EXCEPT ![h].hints = {c \in Hints(h) : c.id # s \/ c.kind = "recover"}]
    BY <1>3, <2>3 DEF Touches, Sets, TypeOK, Task
  <2> QED BY <2>1, <2>2, <2>3
<1> QED BY <1>1, <1>4, <1>5, <1>6

(* The start of a selected submission, and the end of an idle runtime.     *)
LEMMA StartEffects ==
    ASSUME TypeOK, NEW h \in Runtime
    PROVE  /\ Activate(h) =>
                \/ Pending(rt[h].turn) /\ rec' = Activated({rt[h].turn}) /\ Advances(h, "register")
                \/ UNCHANGED rec /\ Releases(h)
           /\ CancelQueued(h) => Releases(h)
           /\ ActivateFails(h) => Releases(h)
           /\ StartRecovered(h) => Advances(h, "register")
           /\ IdleClose(h) => Advances(h, "closing")
           /\ IdleRemove(h) => Sets(h, "dead", NoTurn, "none", FALSE)
<1> USE DEF Advances, Releases, Sets, To, Released, Dead, Fresh
<1>1. rt \in [Runtime -> Task]
  BY DEF TypeOK
<1>2. Activate(h) =>
        \/ Pending(rt[h].turn) /\ rec' = Activated({rt[h].turn}) /\ Advances(h, "register")
        \/ UNCHANGED rec /\ Releases(h)
  <2>1. rt' = [rt EXCEPT ![h].step = "register", ![h].busy = TRUE] => Advances(h, "register")
    BY <1>1 DEF Task
  <2>2. rt' = [rt EXCEPT ![h] = [Released(@) EXCEPT !.busy = TRUE]] => Releases(h)
    BY <1>1 DEF Task
  <2> HIDE DEF Advances, Releases
  <2> QED BY <2>1, <2>2 DEF Activate
<1>3. CancelQueued(h) => Releases(h)
  BY <1>1 DEF CancelQueued, Task
<1>4. ActivateFails(h) => Releases(h)
  BY <1>1 DEF ActivateFails, Task
<1>5. StartRecovered(h) => Advances(h, "register")
  BY <1>1 DEF StartRecovered, Task
<1>6. IdleClose(h) => Advances(h, "closing")
  BY <1>1 DEF IdleClose, Task
<1>7. IdleRemove(h) => Sets(h, "dead", NoTurn, "none", FALSE)
  BY <1>1 DEF IdleRemove
<1> QED BY <1>2, <1>3, <1>4, <1>5, <1>6, <1>7

(* A turn.  A cancellation is served by the runtime the table names.       *)
LEMMA TurnEffects ==
    ASSUME TypeOK, OneLiveRuntime, NEW h \in Runtime
    PROVE  /\ Register(h) => Advances(h, "begin")
           /\ Begin(h) => \E step \in {"run", "waiting"} :
                Sets(h, step, rt[h].turn, rt[h].via, TRUE)
           /\ ActivateSteering(h) => UNCHANGED rt \/ (UNCHANGED rec /\ Advances(h, "settle"))
           /\ CloseSteering(h) \/ FailTurn(h) => Advances(h, "settle")
           /\ ScheduleRetry(h) => Advances(h, "waiting")
           /\ RetryProvider(h) => Advances(h, "run")
           /\ ServiceCancel(h) => Touches(h)
           /\ Settle(h) => Sets(h, "terminal", rt[h].turn, rt[h].via, FALSE)
           /\ AppendTerminal(h) => Advances(h, "take")
           /\ TakeWork(h) => Advances(h, "finish") \/ Releases(h)
           /\ FinishWork(h) => Releases(h)
<1> USE DEF Advances, Releases, Sets, To, Released
<1>1. rt \in [Runtime -> Task]
  BY DEF TypeOK
<1>2. Register(h) => Advances(h, "begin")
  BY <1>1 DEF Register, Task
<1>3. ASSUME NEW step, Begun(h, step) PROVE Sets(h, step, rt[h].turn, rt[h].via, TRUE)
  BY <1>1, <1>3 DEF Begun, Task
<1>4. Begin(h) => \E step \in {"run", "waiting"} : Sets(h, step, rt[h].turn, rt[h].via, TRUE)
  BY <1>3 DEF Begin
<1>5. ActivateSteering(h) => UNCHANGED rt \/ (UNCHANGED rec /\ Advances(h, "settle"))
  <2>1. rt' = To(h, "settle") => Advances(h, "settle")
    BY <1>1 DEF Task
  <2> HIDE DEF Advances, To
  <2> QED BY <2>1 DEF ActivateSteering
<1>6. CloseSteering(h) \/ FailTurn(h) => Advances(h, "settle")
  BY <1>1 DEF CloseSteering, FailTurn, Task
<1>7. ScheduleRetry(h) => Advances(h, "waiting")
  BY <1>1 DEF ScheduleRetry, Task
<1>8. RetryProvider(h) => Advances(h, "run")
  BY <1>1 DEF RetryProvider, Task
<1>9. ASSUME ServiceCancel(h) PROVE Touches(h)
  <2>1. h = map
    BY <1>9 DEF ServiceCancel, OneLiveRuntime, Open
  <2>2. \/ rt' = [rt EXCEPT ![h].cancel = NoCancel]
        \/ \E b : rt' = [[rt EXCEPT ![h].cancel = NoCancel] EXCEPT ![h].chan = {}, ![h].cancelled = b]
        \/ \E b : rt' = [[rt EXCEPT ![h].cancel = NoCancel] EXCEPT ![h].chan = @, ![h].cancelled = b]
    BY <1>9, <2>1 DEF ServiceCancel
  <2>3. CASE rt' = [rt EXCEPT ![h].cancel = NoCancel]
    BY <1>1, <2>3 DEF Touches, Task
  <2>4. ASSUME NEW b, rt' = [[rt EXCEPT ![h].cancel = NoCancel] EXCEPT ![h].chan = {}, ![h].cancelled = b]
        PROVE  Touches(h)
    BY <1>1, <2>4 DEF Touches, Task
  <2>5. ASSUME NEW b, rt' = [[rt EXCEPT ![h].cancel = NoCancel] EXCEPT ![h].chan = @, ![h].cancelled = b]
        PROVE  Touches(h)
    BY <1>1, <2>5 DEF Touches, Task
  <2> QED BY <2>2, <2>3, <2>4, <2>5
<1>10. Settle(h) => Sets(h, "terminal", rt[h].turn, rt[h].via, FALSE)
  BY <1>1 DEF Settle, Task
<1>11. AppendTerminal(h) => Advances(h, "take")
  BY <1>1 DEF AppendTerminal, Task
<1>12. TakeWork(h) => Advances(h, "finish") \/ Releases(h)
  BY <1>1 DEF TakeWork, Task
<1>13. FinishWork(h) => Releases(h)
  BY <1>1 DEF FinishWork, Task
<1> QED BY <1>2, <1>4, <1>5, <1>6, <1>7, <1>8, <1>9, <1>10, <1>11, <1>12, <1>13

-----------------------------------------------------------------------------
(* The shape of a step: what each part of the state may do in one step, as *)
(* far as the invariants depend on it. *)

Stays(h) ==
    /\ rt'[h].step = rt[h].step /\ rt'[h].turn = rt[h].turn
    /\ rt'[h].via = rt[h].via /\ rt'[h].begun = rt[h].begun

Rests(h, step) ==
    rt'[h].step = step /\ rt'[h].turn = NoTurn /\ ~rt'[h].begun

Born(h) == rt[h].step = "dead" /\ Rests(h, "top") /\ map' = h

Dies(h) == Rests(h, "dead")

Frees(h) == rt[h].step \in {"selected", "take", "finish"} /\ Rests(h, "top")

Closes(h) ==
    /\ rt[h].step = "top" /\ Rests(h, "closing")
    /\ lock' = h /\ NothingPending /\ UNCHANGED rec

Chosen(h) ==
    /\ rt[h].step = "top" /\ rt'[h].step = "selected" /\ ~rt'[h].begun
    /\ UNCHANGED <<rec, accepted, terminal>>
    /\ LET t == rt'[h].turn IN
        /\ t \in Submission
        /\ \/ rt'[h].via = "recover" /\ Started(t) /\ terminal[t] = "none"
           \/ rt'[h].via = "run" /\ ~Interrupted /\ NextOwn(t)

Proceeds(h) ==
    /\ rt'[h].turn = rt[h].turn
    /\ \/ /\ rt[h].step = "selected" /\ rt'[h].step = "register" /\ ~rt'[h].begun
          /\ rt[h].via = "recover" \/ rec' = Activated({rt[h].turn})
       \/ rt[h].step = "register" /\ rt'[h].step = "begin" /\ ~rt'[h].begun
       \/ rt[h].step = "begin" /\ rt'[h].step \in {"run", "waiting"}
       \/ /\ rt[h].step \in {"run", "waiting"}
          /\ rt'[h].step \in {"run", "waiting", "settle"}
       \/ /\ rt[h].step = "settle" /\ rt'[h].step = "terminal" /\ ~rt'[h].begun
          /\ lock' = h
          /\ disturbances'.fault = 0 => rec' = Cancelled(Steering(rt[h].turn))
       \/ rt[h].step = "terminal" /\ rt'[h].step = "take" /\ ~rt'[h].begun
       \/ rt[h].step = "take" /\ rt'[h].step = "finish" /\ ~rt'[h].begun

RuntimeMoves(h) ==
    Stays(h) \/ Born(h) \/ Dies(h) \/ Frees(h) \/ Closes(h) \/ Chosen(h) \/ Proceeds(h)

MapMoves ==
    \/ map' = map \/ map = NoRuntime \/ ~Open(map)
    \/ \A h \in Runtime : Dies(h)

LockMoves ==
    \/ lock' = lock \/ lock = NoRuntime
    \/ \A h \in Runtime : lock = h => rt'[h].step \notin {"closing", "terminal"}

HintMoves ==
    \A h \in Runtime : \A c \in rt'[h].chan \union rt'[h].hints :
        \/ c \in rt[h].chan \union rt[h].hints
        \/ c.kind = "run"
        \/ Started(c.id)

RetryMoves == \A t \in retry' : t \in retry \/ Started(t)

TerminalMoves ==
    \A t \in Submission :
        terminal'[t] # terminal[t] =>
            /\ terminal[t] = "none"
            /\ terminal'[t] = "settled" =>
                \E h \in Runtime :
                    rt[h].turn = t /\ rt[h].step = "terminal" /\ rt'[h].step = "take"

(* Records go forward, and none becomes pending.                           *)
RecordsForward ==
    /\ accepted' = accepted
    /\ \A s \in Submission :
        /\ rec'[s].target = rec[s].target
        /\ rec[s].status # "pending" => rec'[s].status = rec[s].status
        /\ rec'[s].status \in {"pending", "activated", "cancelled"} \/ rec[s].status = "none"

(* Or one submission is accepted, while the admission lock is free.        *)
Accepts(s) ==
    /\ LockFree /\ rec[s].status = "none"
    /\ accepted' = Append(accepted, s)
    /\ \A u \in Submission \ {s} : rec'[u] = rec[u]
    /\ rec'[s].status = "pending"
    /\ \/ rec'[s].target = s
       \/ \E h \in Runtime : rt[h].begun /\ rec'[s].target = rt[h].turn
    /\ UNCHANGED <<rt, terminal>>

RecordMoves == RecordsForward \/ \E s \in Submission : Accepts(s)

(* A record is activated by the runtime that selected it, or, as steering, *)
(* by one that runs a turn.                                                *)
ActivationMoves ==
    \A s \in Submission :
        Pending(s) /\ rec'[s].status = "activated" =>
            \E h \in Runtime :
                \/ /\ rt[h].step = "selected" /\ rt[h].via = "run" /\ rt[h].turn = s
                   /\ rt'[h].step # "selected"
                \/ rt[h].step = "run" /\ ~Own(s)

FaultMoves == disturbances'.fault = 0 => disturbances.fault = 0

Shape ==
    /\ \A h \in Runtime : RuntimeMoves(h)
    /\ MapMoves /\ LockMoves /\ HintMoves /\ RetryMoves /\ TerminalMoves
    /\ RecordMoves /\ ActivationMoves /\ FaultMoves

(* The ways a step rewrites records.                                       *)
LEMMA RecordEffects ==
    ASSUME TypeOK, UNCHANGED accepted
    PROVE  /\ UNCHANGED rec => RecordsForward
           /\ \A S : rec' = Cancelled(S) => RecordsForward
           /\ \A S : (\A s \in S : Pending(s)) /\ rec' = Activated(S) => RecordsForward
           /\ \A s \in Submission : rec' = [rec EXCEPT ![s].observed = TRUE] => RecordsForward
           /\ \A s \in Submission :
                rec' = [rec EXCEPT ![s].authorized = TRUE, ![s].observed = FALSE]
                    => RecordsForward
<1> USE DEF RecordsForward
<1>1. rec \in [Submission -> Record]
  BY DEF TypeOK
<1>2. UNCHANGED rec => RecordsForward
  BY <1>1 DEF Record, Status
<1>3. ASSUME NEW S, rec' = Cancelled(S) PROVE RecordsForward
  BY <1>1, <1>3 DEF Cancelled, Pending, Record, Status
<1>4. ASSUME NEW S, \A s \in S : Pending(s), rec' = Activated(S) PROVE RecordsForward
  BY <1>1, <1>4 DEF Activated, Pending, Record, Status
<1>5. ASSUME NEW s \in Submission, rec' = [rec EXCEPT ![s].observed = TRUE]
      PROVE  RecordsForward
  BY <1>1, <1>5 DEF Record, Status
<1>6. ASSUME NEW s \in Submission,
             rec' = [rec EXCEPT ![s].authorized = TRUE, ![s].observed = FALSE]
      PROVE  RecordsForward
  BY <1>1, <1>6 DEF Record, Status
<1> QED BY <1>2, <1>3, <1>4, <1>5, <1>6

-----------------------------------------------------------------------------
(* Any step of that shape keeps the invariant. *)

LEMMA StartedStays ==
    ASSUME TypeOK, RecordMoves, NEW t \in Submission
    PROVE  /\ Started(t) => Started(t)'
           /\ rec[t].status # "none" /\ Own(t) => (rec[t].status # "none" /\ Own(t))'
BY DEF RecordMoves, RecordsForward, Accepts, Started, Own, TypeOK, Record, Status

LEMMA LiveStep ==
    ASSUME TypeOK, OneLiveRuntime, Shape PROVE OneLiveRuntime'
<1> SUFFICES ASSUME NEW h \in Runtime, Open(h)' PROVE h = map'
  BY DEF OneLiveRuntime
<1>1. CASE Born(h)
  BY <1>1 DEF Born
<1>2. CASE ~Born(h)
  <2>1. ~Dies(h) /\ Open(h)
    BY <1>2 DEF Shape, RuntimeMoves, Stays, Dies, Rests, Frees, Closes, Chosen, Proceeds, Open
  <2> QED BY <2>1, RuntimeConstants DEF Shape, MapMoves, OneLiveRuntime
<1> QED BY <1>1, <1>2

LEMMA LockStep ==
    ASSUME TypeOK, HolderHasLock, Shape PROVE HolderHasLock'
<1> SUFFICES ASSUME NEW h \in Runtime, rt'[h].step \in {"closing", "terminal"}
             PROVE  lock' = h
  BY DEF HolderHasLock
<1>1. Stays(h) \/ lock' = h
  BY DEF Shape, RuntimeMoves, Born, Dies, Rests, Frees, Closes, Chosen, Proceeds
<1> QED BY <1>1, RuntimeConstants DEF Shape, LockMoves, HolderHasLock, Stays

LEMMA BegunStep ==
    ASSUME TypeOK, BegunRuns, Shape PROVE BegunRuns'
BY DEF Shape, RuntimeMoves, Stays, Born, Dies, Rests, Frees, Closes, Chosen, Proceeds, BegunRuns

(* While the lock is held nothing becomes pending.                         *)
LEMMA CloseStep ==
    ASSUME TypeOK, HolderHasLock, ClosesOverNothing, Shape PROVE ClosesOverNothing'
<1> SUFFICES ASSUME NEW h \in Runtime, rt'[h].step = "closing", NEW s \in Submission
             PROVE  ~Pending(s)'
  BY DEF ClosesOverNothing, NothingPending
<1>1. CASE Closes(h)
  BY <1>1 DEF Closes, NothingPending, Pending
<1>2. CASE ~Closes(h)
  <2>1. rt[h].step = "closing"
    BY <1>2 DEF Shape, RuntimeMoves, Stays, Born, Dies, Rests, Frees, Chosen, Proceeds
  <2>2. RecordsForward
    BY <2>1, RuntimeConstants DEF HolderHasLock, Shape, RecordMoves, Accepts, LockFree
  <2> QED BY <2>1, <2>2 DEF ClosesOverNothing, NothingPending, RecordsForward, Pending
<1> QED BY <1>1, <1>2

LEMMA RecordsStep ==
    ASSUME TypeOK, RecordsAreAccepted, RecordMoves PROVE RecordsAreAccepted'
<1>1. CASE RecordsForward
  BY <1>1 DEF RecordsForward, RecordsAreAccepted, Own
<1>2. ASSUME NEW s \in Submission, Accepts(s) PROVE RecordsAreAccepted'
  <2>1. accepted \in Seq(Submission) /\ accepted' = Append(accepted, s)
    BY <1>2 DEF TypeOK, Accepts
  <2>2. \A u \in Submission : (\A i \in DOMAIN accepted' : accepted'[i] # u) <=>
            u # s /\ \A i \in DOMAIN accepted : accepted[i] # u
    BY <2>1
  <2> QED BY <1>2, <2>2 DEF Accepts, RecordsAreAccepted, Own
<1> QED BY <1>1, <1>2 DEF RecordMoves

(* Whatever was known to be started still is.                              *)
LEMMA StartedStep ==
    ASSUME RuntimeInv, TypeOK', Shape
    PROVE  /\ CheckpointIsStarted' /\ RecoverHintIsStarted' /\ SettledIsStarted'
           /\ SelectedIsOwn' /\ ExecutedTurnIsActivated'
<1> USE DEF RuntimeInv
<1>1. \A t \in Submission :
        /\ Started(t) => Started(t)'
        /\ rec[t].status # "none" /\ Own(t) => (rec[t].status # "none" /\ Own(t))'
  BY StartedStays DEF Shape
<1>2. \A h \in Runtime : \A c \in rt'[h].chan \union rt'[h].hints : c.id \in Submission
  BY DEF TypeOK, Task, Hint
<1>3. \A h \in Runtime : rt[h].step \notin {"dead", "top", "closing"} => rt[h].turn \in Submission
  BY DEF TypeOK, Task
<1> USE DEF Started, Own
<1>4. CheckpointIsStarted'
  BY <1>1 DEF Shape, RetryMoves, CheckpointIsStarted, TypeOK
<1>5. RecoverHintIsStarted'
  BY <1>1, <1>2 DEF Shape, HintMoves, RecoverHintIsStarted
<1>6. SettledIsStarted'
  <2> SUFFICES ASSUME NEW t \in Submission, terminal'[t] = "settled" PROVE Started(t)'
    BY DEF SettledIsStarted
  <2>1. terminal[t] = "settled" \/ \E h \in Runtime : rt[h].turn = t /\ rt[h].step = "terminal"
    BY DEF Shape, TerminalMoves
  <2> QED BY <1>1, <2>1 DEF SettledIsStarted, ExecutedTurnIsActivated, Started
<1>7. SelectedIsOwn'
  <2> SUFFICES ASSUME NEW h \in Runtime, rt'[h].step = "selected"
               PROVE  LET t == rt'[h].turn IN
                      /\ rec'[t].status # "none" /\ rec'[t].target = t
                      /\ rt'[h].via = "recover" => rec'[t].status = "activated"
    BY DEF SelectedIsOwn
  <2>1. CASE Chosen(h)
    BY <1>1, <2>1 DEF Chosen, NextOwn, Pending, Started
  <2>2. CASE ~Chosen(h)
    <3>1. Stays(h)
      BY <2>2 DEF Shape, RuntimeMoves, Born, Dies, Rests, Frees, Closes, Proceeds
    <3> QED BY <1>1, <1>3, <3>1 DEF Stays, SelectedIsOwn
  <2> QED BY <2>1, <2>2
<1>8. ExecutedTurnIsActivated'
  <2> SUFFICES ASSUME NEW h \in Runtime,
                      rt'[h].step \notin {"dead", "top", "closing", "selected"}
               PROVE  Started(rt[h].turn)'
    BY DEF ExecutedTurnIsActivated, Started
  <2>1. CASE rt[h].step \in {"dead", "top", "closing"}
    BY <2>1 DEF Shape, RuntimeMoves, Stays, Born, Dies, Rests, Frees, Closes, Chosen, Proceeds
  <2>2. CASE rt[h].step = "selected"
    <3>1. /\ rt'[h].turn = rt[h].turn
          /\ rt[h].via = "recover" \/ rec' = Activated({rt[h].turn})
      BY <2>2 DEF Shape, RuntimeMoves, Stays, Born, Dies, Rests, Frees, Closes, Chosen, Proceeds
    <3>2. rt[h].turn \in Submission
      BY <1>3, <2>2
    <3>3. CASE rt[h].via = "recover"
      BY <1>1, <2>2, <3>1, <3>2, <3>3 DEF SelectedIsOwn
    <3>4. CASE rec' = Activated({rt[h].turn})
      BY <2>2, <3>1, <3>2, <3>4 DEF SelectedIsOwn, Activated, Started, Own, TypeOK, Record
    <3> QED BY <3>1, <3>3, <3>4
  <2>3. CASE rt[h].step \notin {"dead", "top", "closing", "selected"}
    <3>1. rt'[h].turn = rt[h].turn
      BY <2>3 DEF Shape, RuntimeMoves, Stays, Born, Dies, Rests, Frees, Closes, Chosen, Proceeds
    <3> QED BY <1>1, <1>3, <2>3, <3>1 DEF ExecutedTurnIsActivated, Started
  <2> QED BY <2>1, <2>2, <2>3
<1> QED BY <1>4, <1>5, <1>6, <1>7, <1>8

LEMMA SettledStep ==
    ASSUME RuntimeInv, Shape
    PROVE  BusyTurnIsUnsettled' /\ SettlementClears' /\ SteeringIsSettled'
<1> USE DEF RuntimeInv
<1>1. ASSUME NEW t \in Submission, RecordsForward, Steering(t) = {} PROVE Steering(t)' = {}
  BY <1>1 DEF RecordsForward, Steering, Pending
<1>2. BusyTurnIsUnsettled'
  <2> SUFFICES ASSUME NEW h \in Runtime, rt'[h].step \in Unfinished
               PROVE  terminal'[rt'[h].turn] # "settled"
    BY DEF BusyTurnIsUnsettled, Unfinished
  <2>1. CASE Chosen(h)
    BY <2>1 DEF Chosen, NextOwn, Pending, SettledIsStarted, Started
  <2>2. CASE ~Chosen(h)
    <3>1. rt[h].step \in Unfinished /\ rt'[h].turn = rt[h].turn
      BY <2>2 DEF Shape, RuntimeMoves, Stays, Born, Dies, Rests, Frees, Closes, Proceeds,
         Unfinished
    <3>2. terminal[rt[h].turn] # "settled" /\ rt[h].turn \in Submission
      BY <3>1 DEF BusyTurnIsUnsettled, TypeOK, Task, Unfinished
    <3>3. \A g \in Runtime : rt[g].step = "terminal" => g = h
      BY <3>1 DEF OneLiveRuntime, Open, Unfinished
    <3> QED BY <3>1, <3>2, <3>3 DEF Shape, TerminalMoves, Unfinished
  <2> QED BY <2>1, <2>2
<1>3. SettlementClears'
  <2> SUFFICES ASSUME disturbances'.fault = 0, NEW h \in Runtime, rt'[h].step = "terminal"
               PROVE  Steering(rt[h].turn)' = {}
    BY DEF SettlementClears
  <2>1. /\ rt'[h].turn = rt[h].turn
        /\ \/ rt[h].step = "terminal"
           \/ rt[h].step = "settle" /\ rec' = Cancelled(Steering(rt[h].turn))
    BY DEF Shape, RuntimeMoves, Stays, Born, Dies, Rests, Frees, Closes, Chosen, Proceeds
  <2>2. rt[h].turn \in Submission
    BY <2>1 DEF TypeOK, Task
  <2>3. CASE rt[h].step = "terminal"
    <3>1. RecordsForward
      BY <2>3, RuntimeConstants DEF HolderHasLock, Shape, RecordMoves, Accepts, LockFree
    <3>2. Steering(rt[h].turn) = {}
      BY <2>3 DEF Shape, FaultMoves, SettlementClears
    <3> QED BY <2>1, <2>2, <3>1, <3>2 DEF RecordsForward, Steering, Pending
  <2>4. CASE rec' = Cancelled(Steering(rt[h].turn))
    BY <2>1, <2>2, <2>4 DEF Cancelled, Steering, Pending, TypeOK, Record
  <2> QED BY <2>1, <2>3, <2>4
<1>4. SteeringIsSettled'
  <2> SUFFICES ASSUME disturbances'.fault = 0, NEW t \in Submission, terminal'[t] = "settled"
               PROVE  Steering(t)' = {}
    BY DEF SteeringIsSettled
  <2>1. Steering(t) = {}
    BY DEF Shape, FaultMoves, TerminalMoves, SteeringIsSettled, SettlementClears
  <2>2. ASSUME NEW s \in Submission, Accepts(s) PROVE Steering(t)' = {}
    <3>1. \A h \in Runtime : rt[h].begun => terminal[rt[h].turn] # "settled"
      BY DEF BegunRuns, BusyTurnIsUnsettled, Unfinished
    <3>2. rec'[s].target = t => t = s
      BY <2>2, <3>1 DEF Accepts
    <3> QED BY <2>1, <2>2, <3>2 DEF Accepts, Steering, Pending
  <2> QED BY <1>1, <2>1, <2>2 DEF Shape, RecordMoves
<1> QED BY <1>2, <1>3, <1>4

(* The queue has a head: the earliest of the records that are visible.     *)
LEMMA QueueHasHead ==
    ASSUME TypeOK, RecordsAreAccepted, NEW u \in Submission, QueueVisible(u)
    PROVE  \E v \in Submission : QueueHead(v) /\ (v = u \/ Before(v, u))
<1> DEFINE I == {i \in DOMAIN accepted : QueueVisible(accepted[i])}
<1>1. \A v \in Submission : QueueVisible(v) => \E i \in I : accepted[i] = v
  BY DEF QueueVisible, Pending, RecordsAreAccepted
<1>2. I \subseteq Nat /\ I # {} /\ accepted \in Seq(Submission)
  BY <1>1 DEF TypeOK
<1>3. PICK m \in I : \A i \in I : ~(<<i, m>> \in OpToRel(<, Nat))
  <2> HIDE DEF I
  <2> QED BY <1>2, WFMin, NatLessThanWellFounded
<1>4. \A i \in I : m <= i
  <2> SUFFICES ASSUME NEW i \in I PROVE m <= i
    OBVIOUS
  <2>1. i \in Nat /\ m \in Nat
    BY <1>2
  <2>2. i < m => <<i, m>> \in OpToRel(<, Nat)
    BY <2>1 DEF OpToRel
  <2>3. ~(i < m)
    BY <1>3, <2>2, Zenon
  <2> QED BY <2>1, <2>3
<1>5. accepted[m] \in Submission /\ QueueVisible(accepted[m])
  BY <1>2
<1>6. \A v \in Submission \ {accepted[m]} : QueueVisible(v) => Before(accepted[m], v)
  BY <1>1, <1>2, <1>4 DEF Before
<1> QED BY <1>5, <1>6 DEF QueueHead

(* Acceptance order is total and strict.                                   *)
LEMMA BeforeIsStrict ==
    ASSUME TypeOK, NEW u \in Submission, NEW v \in Submission, Before(u, v)
    PROVE  ~Before(v, u) /\ u # v
BY DEF Before, TypeOK

LEMMA BeforeIsTransitive ==
    ASSUME TypeOK, NEW u \in Submission, NEW v \in Submission, NEW w \in Submission,
           Before(u, v), Before(v, w)
    PROVE  Before(u, w)
<1>1. PICK i, j \in DOMAIN accepted : i < j /\ accepted[i] = u /\ accepted[j] = v
  BY DEF Before
<1>2. PICK k, l \in DOMAIN accepted : k < l /\ accepted[k] = v /\ accepted[l] = w
  BY DEF Before
<1>3. j = k
  BY <1>1, <1>2 DEF TypeOK
<1>4. i < l
  BY <1>1, <1>2, <1>3 DEF TypeOK
<1> QED BY <1>1, <1>2, <1>4 DEF Before

(* What is next when no turn is interrupted is in order.  An earlier turn  *)
(* that was activated and has not ended is visible, so the queue's head is *)
(* not later; the head is pending, and as it has no turn of its own (or it *)
(* would be next) it was to steer another.                                 *)
LEMMA NextIsInOrder ==
    ASSUME TypeOK, RecordsAreAccepted, ~Interrupted, NEW s \in Submission, NextOwn(s)
    PROVE  InOrder(s)
<1> SUFFICES ASSUME NEW u \in Submission, Before(u, s), Own(u),
                    rec[u].status # "cancelled", terminal[u] = "none"
             PROVE  \E w \in Submission :
                        /\ rec[w].status \in {"pending", "cancelled"} /\ ~Own(w)
                        /\ Before(w, u)
  BY DEF InOrder
<1>1. u # s /\ ~Before(s, u)
  BY BeforeIsStrict
<1>2. rec[u].status = "activated"
  <2>1. rec[u].status # "none"
    BY DEF Before, RecordsAreAccepted
  <2>2. ~Pending(u)
    BY <1>1 DEF NextOwn
  <2> QED BY <2>1, <2>2 DEF Pending, TypeOK, Record, Status
<1>3. QueueVisible(u)
  BY <1>2 DEF QueueVisible, Own
<1>4. PICK v \in Submission : QueueHead(v) /\ (v = u \/ Before(v, u))
  BY <1>3, QueueHasHead
<1>5. Pending(v) /\ v # u
  BY <1>2, <1>4 DEF QueueHead, QueueVisible, Interrupted, InterruptedHead, Pending
<1>6. Before(v, u) /\ Before(v, s)
  BY <1>4, <1>5, BeforeIsTransitive
<1>7. ~Own(v)
  <2>1. v # s /\ ~Before(s, v)
    BY <1>6, BeforeIsStrict
  <2> QED BY <1>5, <2>1 DEF NextOwn
<1> QED BY <1>5, <1>6, <1>7 DEF Pending

(* Later acceptance changes nothing about what is before a submission.     *)
LEMMA BeforeStays ==
    ASSUME TypeOK, RecordsAreAccepted, RecordMoves
    PROVE  \A u, s \in Submission :
                /\ Before(u, s) => Before(u, s)'
                /\ rec[s].status # "none" /\ Before(u, s)' => Before(u, s)
<1>1. CASE RecordsForward
  BY <1>1 DEF RecordsForward, Before
<1>2. ASSUME NEW a \in Submission, Accepts(a)
      PROVE  \A u, s \in Submission :
                /\ Before(u, s) => Before(u, s)'
                /\ rec[s].status # "none" /\ Before(u, s)' => Before(u, s)
  <2>1. /\ accepted \in Seq(Submission) /\ accepted' = Append(accepted, a)
        /\ rec[a].status = "none"
    BY <1>2 DEF TypeOK, Accepts
  <2>2. /\ DOMAIN accepted = 1 .. Len(accepted) /\ DOMAIN accepted' = 1 .. Len(accepted) + 1
        /\ Len(accepted) \in Nat /\ accepted'[Len(accepted) + 1] = a
        /\ \A i \in DOMAIN accepted : accepted'[i] = accepted[i]
    BY <2>1
  <2>3. ASSUME NEW u \in Submission, NEW s \in Submission, Before(u, s) PROVE Before(u, s)'
    BY <2>2, <2>3 DEF Before
  <2>4. ASSUME NEW u \in Submission, NEW s \in Submission, Before(u, s)', rec[s].status # "none"
        PROVE  Before(u, s)
    <3>1. PICK i, j \in DOMAIN accepted' : i < j /\ accepted'[i] = u /\ accepted'[j] = s
      BY <2>4 DEF Before
    <3>2. j # Len(accepted) + 1
      BY <2>1, <2>2, <2>4, <3>1
    <3>3. i \in DOMAIN accepted /\ j \in DOMAIN accepted
      BY <2>2, <3>1, <3>2
    <3> QED BY <2>2, <3>1, <3>3 DEF Before
  <2> QED BY <2>3, <2>4
<1> QED BY <1>1, <1>2 DEF RecordMoves

LEMMA OrderStep ==
    ASSUME RuntimeInv, Shape
    PROVE  /\ SelectedIsInOrder'
           /\ \A s \in Submission :
                Pending(s) /\ Own(s) /\ rec'[s].status = "activated" => InOrder(s)
<1> USE DEF RuntimeInv
<1>1. \A s \in Submission : Pending(s) /\ Own(s) /\ rec'[s].status = "activated" => InOrder(s)
  BY DEF Shape, ActivationMoves, SelectedIsInOrder
<1>2. SelectedIsInOrder'
  <2> SUFFICES ASSUME NEW h \in Runtime, rt'[h].step = "selected", rt'[h].via = "run"
               PROVE  InOrder(rt[h].turn)'
    BY DEF SelectedIsInOrder
  <2>1. CASE Chosen(h)
    <3>1. InOrder(rt'[h].turn)
      BY <2>1, NextIsInOrder DEF Chosen
    <3> QED BY <2>1, <3>1 DEF Chosen, InOrder, Before, Own
  <2>2. CASE ~Chosen(h)
    <3>1. Stays(h)
      BY <2>2 DEF Shape, RuntimeMoves, Born, Dies, Rests, Frees, Closes, Proceeds
    <3> DEFINE t == rt[h].turn
    <3>2. /\ t \in Submission /\ rt'[h].turn = t
          /\ InOrder(t) /\ rec[t].status # "none"
      BY <3>1 DEF Stays, SelectedIsInOrder, SelectedIsOwn, TypeOK, Task
    <3>3. \A g \in Runtime : rt[g].step \in {"selected", "run"} => g = h
      BY <3>1 DEF Stays, OneLiveRuntime, Open
    <3>4. \A w \in Submission : ~Own(w) /\ Pending(w) => rec'[w].status # "activated"
      BY <3>1, <3>3 DEF Shape, ActivationMoves, Stays
    <3>5. \A w \in Submission : rec[w].status \in {"pending", "cancelled"} /\ ~Own(w) =>
                rec'[w].status \in {"pending", "cancelled"} /\ rec'[w].target # w
      BY <3>4 DEF Shape, RecordMoves, RecordsForward, Accepts, Pending, Own
    <3>6. \A u \in Submission :
            rec[u].status # "none" => (Own(u) <=> rec'[u].target = u)
      BY DEF Shape, RecordMoves, RecordsForward, Accepts, Own
    <3>7. \A u \in Submission : rec[u].status = "cancelled" => rec'[u].status = "cancelled"
      BY DEF Shape, RecordMoves, RecordsForward, Accepts
    <3>8. \A u \in Submission : terminal[u] # "none" => terminal'[u] # "none"
      BY DEF Shape, TerminalMoves
    <3>9. \A u, s \in Submission :
            /\ Before(u, s) => Before(u, s)' /\ rec[u].status # "none"
            /\ rec[s].status # "none" /\ Before(u, s)' => Before(u, s)
      BY BeforeStays DEF Shape, Before, RecordsAreAccepted
    <3>10. ASSUME NEW u \in Submission, Before(u, t)', rec'[u].target = u
           PROVE  \/ rec'[u].status = "cancelled" \/ terminal'[u] # "none"
                  \/ \E w \in Submission :
                        /\ rec'[w].status \in {"pending", "cancelled"} /\ rec'[w].target # w
                        /\ Before(w, u)'
      BY <3>2, <3>5, <3>6, <3>7, <3>8, <3>9, <3>10 DEF InOrder
    <3> QED BY <3>2, <3>10 DEF InOrder, Own
  <2> QED BY <2>1, <2>2
<1> QED BY <1>1, <1>2

-----------------------------------------------------------------------------
(* Every step has that shape. *)

(* One runtime moves, and the others stay.                                 *)
LEMMA OneMoves ==
    ASSUME NEW h \in Runtime, NEW step, NEW turn, NEW via, NEW begun,
           Sets(h, step, turn, via, begun)
    PROVE  HintMoves /\ (RuntimeMoves(h) => \A g \in Runtime : RuntimeMoves(g))
BY DEF Sets, HintMoves, RuntimeMoves, Stays

LEMMA NoneMoves ==
    ASSUME UNCHANGED rt PROVE HintMoves /\ \A g \in Runtime : RuntimeMoves(g)
BY DEF HintMoves, RuntimeMoves, Stays

LEMMA EntryMoves ==
    ASSUME TypeOK, NEW h \in Runtime, Enters(h)
    PROVE  HintMoves /\ MapMoves /\ \A g \in Runtime : RuntimeMoves(g)
<1>1. CASE Touches(h) /\ h = map
  BY <1>1, OneMoves DEF Enters, Touches, Sets, RuntimeMoves, Stays, MapMoves
<1>2. CASE ~(Touches(h) /\ h = map)
  <2>1. Born(h) /\ Sets(h, "top", NoTurn, "none", FALSE)
    BY <1>2 DEF Enters, Born, Rests, Sets
  <2>2. MapMoves
    BY <1>2 DEF Enters, MapMoves
  <2> QED BY <2>1, <2>2, OneMoves DEF RuntimeMoves
<1> QED BY <1>1, <1>2

(* A step that leaves the records, or the checkpoints and endings, alone.  *)
LEMMA QuietRecords ==
    ASSUME TypeOK, UNCHANGED <<rec, accepted>> PROVE RecordMoves /\ ActivationMoves
BY RecordEffects DEF RecordMoves, ActivationMoves, Pending

LEMMA QuietEndings ==
    ASSUME UNCHANGED <<terminal, retry>> PROVE RetryMoves /\ TerminalMoves
BY DEF RetryMoves, TerminalMoves

LEMMA QuietLocks ==
    /\ UNCHANGED map => MapMoves
    /\ UNCHANGED lock => LockMoves
BY DEF MapMoves, LockMoves

LEMMA FaultEffect ==
    ASSUME TypeOK,
           \/ UNCHANGED disturbances \/ Disturbed("ask")
           \/ Disturbed("crash") \/ Disturbed("fault")
    PROVE  FaultMoves /\ (Disturbed("fault") => disturbances'.fault # 0)
<1>1. disturbances \in [crash : 0 .. MaxFailure, fault : 0 .. MaxFailure, ask : 0 .. MaxAsk]
  BY DEF TypeOK
<1>2. Disturbed("fault") => disturbances'.fault # 0
  BY <1>1, RuntimeConstants DEF Disturbed
<1>3. Disturbed("ask") \/ Disturbed("crash") => disturbances'.fault = disturbances.fault
  BY <1>1 DEF Disturbed
<1> QED BY <1>2, <1>3 DEF FaultMoves

LEMMA CancelRecords ==
    ASSUME TypeOK, UNCHANGED accepted, NEW S, rec' = Cancelled(S)
    PROVE  RecordMoves /\ ActivationMoves
<1>1. RecordsForward
  BY RecordEffects
<1>2. \A s \in Submission : Pending(s) => rec'[s].status # "activated"
  BY DEF Cancelled, Pending, TypeOK, Record
<1> QED BY <1>1, <1>2 DEF RecordMoves, ActivationMoves

LEMMA ClientShape ==
    ASSUME RuntimeInv, NEW s \in Submission,
           \/ Submit(s) \/ Admit(s) \/ Resume(s) \/ CancelPending(s) \/ EndInterruptedTurn(s)
           \/ RequestStep(s)
    PROVE  Shape
<1> USE DEF RuntimeInv, durable
<1>1. ASSUME NEW kind, Capture(s, kind),
             UNCHANGED disturbances \/ Disturbed("ask")
      PROVE  Shape
  <2>1. PICK h \in Runtime : LiveSubmissionRuntime(h) /\ rt' = Spawned(h) /\ map' = h
    BY <1>1 DEF Capture
  <2>2. Enters(h)
    BY <2>1, SpawnEffect
  <2> QED BY <1>1, <2>2, EntryMoves, QuietRecords, QuietEndings, QuietLocks, FaultEffect
          DEF Capture, Shape
<1>2. CASE Submit(s) \/ Resume(s)
  BY <1>1, <1>2 DEF Submit, Resume
<1>3. CASE Admit(s)
  <2>1. RecordMoves /\ ActivationMoves
    <3>1. CASE UNCHANGED <<rec, accepted>>
      BY <3>1, QuietRecords
    <3>2. CASE ~UNCHANGED <<rec, accepted>>
      <4>1. Accepts(s)
        BY <1>3, <3>2 DEF Admit, Accepts, RecordsAreAccepted, Own, TypeOK, Record
      <4>2. \A u \in Submission : Pending(u) => rec'[u].status # "activated"
        BY <4>1 DEF Accepts, Pending
      <4> QED BY <4>1, <4>2 DEF RecordMoves, ActivationMoves
    <3> QED BY <3>1, <3>2
  <2> QED BY <1>3, <2>1, NoneMoves, QuietEndings, QuietLocks, FaultEffect DEF Admit, Shape
<1>4. CASE CancelPending(s)
  <2>1. PICK h \in Runtime : LiveSubmissionRuntime(h) /\ rt' = Spawned(h) /\ map' = h
    BY <1>4 DEF CancelPending
  <2>2. Enters(h)
    BY <2>1, SpawnEffect
  <2> QED BY <1>4, <2>2, EntryMoves, CancelRecords, QuietEndings, QuietLocks, FaultEffect
          DEF CancelPending, Shape
<1>5. CASE EndInterruptedTurn(s)
  <2>1. HintMoves /\ MapMoves /\ \A g \in Runtime : RuntimeMoves(g)
    <3>1. CASE UNCHANGED <<rt, map>>
      BY <3>1, NoneMoves, QuietLocks
    <3>2. CASE \E h \in Runtime : LiveSubmissionRuntime(h) /\ rt' = Spawned(h) /\ map' = h
      BY <3>2, SpawnEffect, EntryMoves
    <3> QED BY <1>5, <3>1, <3>2 DEF EndInterruptedTurn
  <2>2. TerminalMoves /\ RetryMoves
    BY <1>5 DEF EndInterruptedTurn, TurnFinished, TerminalMoves, RetryMoves, TypeOK, Writer
  <2> QED BY <1>5, <2>1, <2>2, QuietRecords, QuietLocks, FaultEffect DEF EndInterruptedTurn, Shape
<1>6. CASE Accept(s)
  <2>1. RecordMoves /\ ActivationMoves
    <3>1. CASE UNCHANGED <<rec, accepted>>
      BY <3>1, QuietRecords
    <3>2. CASE ~UNCHANGED <<rec, accepted>>
      <4>1. request[s].runtime \in Runtime
        BY <1>6 DEF Accept, CaptureHasRuntime
      <4>2. PICK t : /\ AcceptAs(s, t) /\ rec[s].status = "none" /\ LockFree
                     /\ t = s \/ \E h \in Runtime : rt[h].begun /\ t = rt[h].turn
        BY <1>6, <3>2, <4>1 DEF Accept, AcceptsSteering, Declined
      <4>3. Accepts(s)
        BY <1>6, <4>2 DEF Accept, AcceptAs, Accepts, TypeOK, Record
      <4>4. \A u \in Submission : Pending(u) => rec'[u].status # "activated"
        BY <4>3 DEF Accepts, Pending
      <4> QED BY <4>3, <4>4 DEF RecordMoves, ActivationMoves
    <3> QED BY <3>1, <3>2
  <2> QED BY <1>6, <2>1, NoneMoves, QuietEndings, QuietLocks, FaultEffect DEF Accept, Shape
<1>7. CASE Wake(s)
  <2>1. HintMoves /\ \A g \in Runtime : RuntimeMoves(g)
    <3> DEFINE h == request[s].runtime
    <3>1. CASE UNCHANGED rt
      BY <3>1, NoneMoves
    <3>2. CASE ~UNCHANGED rt
      <4>1. /\ h \in Runtime /\ rt \in [Runtime -> Task]
            /\ rt' = [rt EXCEPT ![h].chan = @ \union {[kind |-> "run", id |-> s]}]
        BY <1>7, <3>2 DEF Wake, CaptureHasRuntime, TypeOK
      <4> HIDE DEF h
      <4>2. Touches(h)
        BY <4>1 DEF Touches, Sets, Task
      <4> QED BY <4>1, <4>2, OneMoves DEF Touches, Sets, RuntimeMoves, Stays
    <3> QED BY <3>1, <3>2
  <2> QED BY <1>7, <2>1, QuietRecords, QuietEndings, QuietLocks, FaultEffect DEF Wake, Shape
<1>8. CASE Enqueue(s)
  <2>1. PICK h \in Runtime :
            /\ SessionRuntimeHandle(h)
            /\ \/ /\ map' = h
                  /\ rt' = [Spawned(h) EXCEPT ![h].chan = @ \union {[kind |-> "run", id |-> s]}]
               \/ Spawned(h)[h].step = "closing" /\ map' = RemovedIfCurrent(h) /\ rt' = rt
    BY <1>8 DEF Enqueue
  <2>2. HintMoves /\ MapMoves /\ \A g \in Runtime : RuntimeMoves(g)
    <3>1. CASE map' = h /\ rt' = [Spawned(h) EXCEPT ![h].chan = @ \union {[kind |-> "run", id |-> s]}]
      BY <2>1, <3>1, SpawnEffect, EntryMoves
    <3>2. CASE Spawned(h)[h].step = "closing" /\ map' = RemovedIfCurrent(h) /\ rt' = rt
      <4>1. MapMoves
        BY <3>2 DEF RemovedIfCurrent, MapMoves, Spawned, Open
      <4> QED BY <3>2, <4>1, NoneMoves
    <3> QED BY <2>1, <3>1, <3>2
  <2> QED BY <1>8, <2>2, QuietRecords, QuietEndings, QuietLocks, FaultEffect DEF Enqueue, Shape
<1>9. CASE Authorize(s)
  <2>1. RecordMoves /\ ActivationMoves
    <3>1. CASE UNCHANGED rec
      BY <1>9, <3>1, QuietRecords DEF Authorize
    <3>2. CASE rec' = [rec EXCEPT ![s].authorized = TRUE, ![s].observed = FALSE]
      <4>1. \A u \in Submission : rec'[u].status = rec[u].status
        BY <3>2 DEF TypeOK, Record
      <4> QED BY <1>9, <3>2, <4>1, RecordEffects DEF Authorize, RecordMoves, ActivationMoves,
      Pending
    <3> QED BY <1>9, <3>1, <3>2 DEF Authorize
  <2> QED BY <1>9, <2>1, NoneMoves, QuietEndings, QuietLocks, FaultEffect DEF Authorize, Shape
<1> QED BY <1>2, <1>3, <1>4, <1>5, <1>6, <1>7, <1>8, <1>9 DEF RequestStep

(* A runtime's activation of the record it selected.                       *)
LEMMA ActivateRecords ==
    ASSUME TypeOK, UNCHANGED accepted, NEW h \in Runtime, rt[h].step = "selected",
           rt[h].via = "run", rt'[h].step # "selected", Pending(rt[h].turn),
           rec' = Activated({rt[h].turn})
    PROVE  RecordMoves /\ ActivationMoves
<1>1. RecordsForward
  BY RecordEffects
<1>2. \A s \in Submission : s # rt[h].turn => rec'[s] = rec[s]
  BY DEF Activated
<1> QED BY <1>1, <1>2 DEF RecordMoves, ActivationMoves, Pending

LEMMA LoopShape ==
    ASSUME RuntimeInv, NEW h \in Runtime,
           \/ LoopStep(h) \/ CancelQueued(h) \/ ActivateFails(h) \/ IdleClose(h)
    PROVE  Shape
<1> USE DEF RuntimeInv, durable
<1>1. CASE Drain(h)
  <2>1. Touches(h)
    BY <1>1, LoopEffects
  <2>2. HintMoves /\ \A g \in Runtime : RuntimeMoves(g)
    BY <2>1, OneMoves DEF Touches, Sets, RuntimeMoves, Stays
  <2> QED BY <1>1, <2>2, QuietRecords, QuietEndings, QuietLocks, FaultEffect DEF Drain, Shape
<1>2. ~rt[h].begun \/ rt[h].step \in {"run", "waiting", "settle"}
  BY DEF BegunRuns
<1>3. CASE TakeRecovered(h)
  <2>1. PICK c \in Hints(h) : /\ c.kind = "recover" /\ InterruptedHead(c.id)
                              /\ Sets(h, "selected", c.id, "recover", rt[h].begun)
    BY <1>3, LoopEffects
  <2>2. c \in rt[h].hints /\ c.id \in Submission
    BY DEF Hints, TypeOK, Task, Hint
  <2>3. Started(c.id) /\ terminal[c.id] = "none"
    BY <2>1, <2>2 DEF RecoverHintIsStarted, Hints, Unsettled
  <2>4. Chosen(h)
    BY <1>2, <1>3, <2>1, <2>2, <2>3 DEF TakeRecovered, Sets, Chosen
  <2>5. HintMoves /\ \A g \in Runtime : RuntimeMoves(g)
    BY <2>1, <2>4, OneMoves DEF RuntimeMoves
  <2> QED BY <1>3, <2>5, QuietRecords, QuietEndings, QuietLocks, FaultEffect
          DEF TakeRecovered, Shape
<1>4. CASE TakeHint(h)
  <2>1. PICK s \in Submission : NextOwn(s) /\ Sets(h, "selected", s, "run", rt[h].begun)
    BY <1>4, LoopEffects
  <2>2. Chosen(h)
    BY <1>2, <1>4, <2>1 DEF TakeHint, Sets, Chosen
  <2>3. HintMoves /\ \A g \in Runtime : RuntimeMoves(g)
    BY <2>1, <2>2, OneMoves DEF RuntimeMoves
  <2> QED BY <1>4, <2>3, QuietRecords, QuietEndings, QuietLocks, FaultEffect
          DEF TakeHint, Shape
<1>5. CASE TakeDurable(h)
  <2>1. RecordMoves /\ ActivationMoves
    <3>1. CASE UNCHANGED rec
      BY <1>5, <3>1, QuietRecords DEF TakeDurable
    <3>2. ASSUME NEW s \in Submission, rec' = [rec EXCEPT ![s].observed = TRUE]
          PROVE  RecordMoves /\ ActivationMoves
      <4>1. \A u \in Submission : rec'[u].status = rec[u].status
        BY <3>2 DEF TypeOK, Record
      <4> QED BY <1>5, <3>2, <4>1, RecordEffects DEF TakeDurable, RecordMoves, ActivationMoves,
      Pending
    <3> QED BY <1>5, <3>1, <3>2 DEF TakeDurable
  <2>2. HintMoves /\ \A g \in Runtime : RuntimeMoves(g)
    <3>1. CASE Touches(h)
      BY <3>1, OneMoves DEF Touches, Sets, RuntimeMoves, Stays
    <3>2. CASE ~Touches(h)
      <4>1. /\ UNCHANGED rec
            /\ \E s \in Submission : NextOwn(s) /\ Sets(h, "selected", s, "run", rt[h].begun)
        BY <1>5, <3>2, LoopEffects
      <4>2. PICK s \in Submission : NextOwn(s) /\ Sets(h, "selected", s, "run", rt[h].begun)
        BY <4>1
      <4>3. Chosen(h)
        BY <1>2, <1>5, <4>1, <4>2 DEF TakeDurable, Sets, Chosen
      <4> QED BY <4>2, <4>3, OneMoves DEF RuntimeMoves
    <3> QED BY <3>1, <3>2
  <2> QED BY <1>5, <2>1, <2>2, QuietEndings, QuietLocks, FaultEffect DEF TakeDurable, Shape
<1>6. ASSUME rt[h].step \in {"selected", "take", "finish"}, Releases(h)
      PROVE  HintMoves /\ \A g \in Runtime : RuntimeMoves(g)
  <2>1. Frees(h)
    BY <1>2, <1>6 DEF Releases, Sets, Frees, Rests
  <2> QED BY <1>6, <2>1, OneMoves DEF Releases, RuntimeMoves
<1>7. CASE Activate(h)
  <2>1. CASE /\ Pending(rt[h].turn) /\ rec' = Activated({rt[h].turn})
             /\ Advances(h, "register")
    <3>1. Proceeds(h) /\ rt'[h].step # "selected"
      BY <1>2, <1>7, <2>1 DEF Activate, Advances, Sets, Proceeds
    <3>2. HintMoves /\ \A g \in Runtime : RuntimeMoves(g)
      BY <2>1, <3>1, OneMoves DEF Advances, RuntimeMoves
    <3> QED BY <1>7, <2>1, <3>1, <3>2, ActivateRecords, QuietEndings, QuietLocks, FaultEffect
            DEF Activate, Shape
  <2>2. CASE UNCHANGED rec /\ Releases(h)
    BY <1>6, <1>7, <2>2, QuietRecords, QuietEndings, QuietLocks, FaultEffect DEF Activate, Shape
  <2> QED BY <1>7, <2>1, <2>2, StartEffects
<1>8. CASE CancelQueued(h)
  <2>1. Releases(h)
    BY <1>8, StartEffects
  <2> QED BY <1>6, <1>8, <2>1, CancelRecords, QuietEndings, QuietLocks, FaultEffect
          DEF CancelQueued, Shape
<1>9. CASE ActivateFails(h)
  <2>1. Releases(h)
    BY <1>9, StartEffects
  <2>2. rt'[h].step # "selected"
    BY <2>1 DEF Releases, Sets
  <2>3. RecordMoves /\ ActivationMoves
    <3>1. CASE UNCHANGED rec
      BY <1>9, <3>1, QuietRecords DEF ActivateFails
    <3>2. CASE Pending(rt[h].turn) /\ rec' = Activated({rt[h].turn})
      BY <1>9, <2>2, <3>2, ActivateRecords DEF ActivateFails
    <3> QED BY <1>9, <3>1, <3>2 DEF ActivateFails
  <2> QED BY <1>6, <1>9, <2>1, <2>3, QuietEndings, QuietLocks, FaultEffect
          DEF ActivateFails, Shape
<1>10. CASE StartRecovered(h)
  <2>1. Advances(h, "register")
    BY <1>10, StartEffects
  <2>2. Proceeds(h)
    BY <1>2, <1>10, <2>1 DEF StartRecovered, Advances, Sets, Proceeds
  <2>3. HintMoves /\ \A g \in Runtime : RuntimeMoves(g)
    BY <2>1, <2>2, OneMoves DEF Advances, RuntimeMoves
  <2> QED BY <1>10, <2>3, QuietRecords, QuietEndings, QuietLocks, FaultEffect
          DEF StartRecovered, Shape
<1>11. CASE IdleClose(h)
  <2>1. Advances(h, "closing")
    BY <1>11, StartEffects
  <2>2. rt[h].turn = NoTurn
    BY <1>11 DEF IdleClose, TypeOK
  <2>3. Closes(h)
    BY <1>2, <1>11, <2>1, <2>2 DEF IdleClose, Advances, Sets, Closes, Rests
  <2>4. HintMoves /\ \A g \in Runtime : RuntimeMoves(g)
    BY <2>1, <2>3, OneMoves DEF Advances, RuntimeMoves
  <2>5. LockMoves
    BY <1>11 DEF IdleClose, LockFree, LockMoves
  <2> QED BY <1>11, <2>4, <2>5, QuietRecords, QuietEndings, QuietLocks, FaultEffect
          DEF IdleClose, Shape
<1>12. CASE IdleRemove(h)
  <2>1. Sets(h, "dead", NoTurn, "none", FALSE)
    BY <1>12, StartEffects
  <2>2. Dies(h)
    BY <2>1 DEF Sets, Dies, Rests
  <2>3. HintMoves /\ \A g \in Runtime : RuntimeMoves(g)
    BY <2>1, <2>2, OneMoves DEF RuntimeMoves
  <2>4. lock = h
    BY <1>12 DEF IdleRemove, HolderHasLock
  <2>5. LockMoves
    BY <2>2, <2>4 DEF LockMoves, Dies, Rests
  <2>6. MapMoves
    BY <1>12 DEF IdleRemove, RemovedIfCurrent, MapMoves, Open
  <2> QED BY <1>12, <2>3, <2>5, <2>6, QuietRecords, QuietEndings, FaultEffect
          DEF IdleRemove, Shape
<1> QED BY <1>1, <1>3, <1>4, <1>5, <1>7, <1>8, <1>9, <1>10, <1>11, <1>12 DEF LoopStep

LEMMA TurnShape ==
    ASSUME RuntimeInv, NEW h \in Runtime,
           \/ TurnStep(h) \/ TurnEnds(h)
           \/ ScheduleRetry(h) \/ RetryProvider(h) \/ ServiceCancel(h)
    PROVE  Shape
<1> USE DEF RuntimeInv, durable
<1>1. ~rt[h].begun \/ rt[h].step \in {"run", "waiting", "settle"}
  BY DEF BegunRuns
<1>2. ASSUME NEW step, Advances(h, step),
             \/ rt[h].step = "register" /\ step = "begin"
             \/ rt[h].step \in {"run", "waiting"} /\ step \in {"run", "waiting", "settle"}
             \/ rt[h].step = "terminal" /\ step = "take"
             \/ rt[h].step = "take" /\ step = "finish"
      PROVE  HintMoves /\ \A g \in Runtime : RuntimeMoves(g)
  <2>1. Proceeds(h)
    BY <1>1, <1>2 DEF Advances, Sets, Proceeds
  <2> QED BY <1>2, <2>1, OneMoves DEF Advances, RuntimeMoves
<1>3. ASSUME Releases(h), rt[h].step \in {"take", "finish"}
      PROVE  HintMoves /\ \A g \in Runtime : RuntimeMoves(g)
  <2>1. Frees(h)
    BY <1>1, <1>3 DEF Releases, Sets, Frees, Rests
  <2> QED BY <1>3, <2>1, OneMoves DEF Releases, RuntimeMoves
<1>4. CASE Register(h)
  <2>1. Advances(h, "begin")
    BY <1>4, TurnEffects
  <2> QED BY <1>2, <1>4, <2>1, QuietRecords, QuietEndings, QuietLocks, FaultEffect
          DEF Register, Shape
<1>5. CASE Begin(h)
  <2>1. PICK step \in {"run", "waiting"} : Sets(h, step, rt[h].turn, rt[h].via, TRUE)
    BY <1>5, TurnEffects
  <2>2. Proceeds(h)
    BY <1>5, <2>1 DEF Begin, Sets, Proceeds
  <2>3. HintMoves /\ \A g \in Runtime : RuntimeMoves(g)
    BY <2>1, <2>2, OneMoves DEF RuntimeMoves
  <2>4. FaultMoves
    BY <1>5, FaultEffect DEF Begin
  <2> QED BY <1>5, <2>3, <2>4, QuietRecords, QuietEndings, QuietLocks DEF Begin, Shape
<1>6. CASE ActivateSteering(h)
  <2>1. HintMoves /\ \A g \in Runtime : RuntimeMoves(g)
    <3>1. CASE UNCHANGED rt
      BY <3>1, NoneMoves
    <3>2. CASE Advances(h, "settle")
      BY <1>2, <1>6, <3>2 DEF ActivateSteering
    <3> QED BY <1>6, <3>1, <3>2, TurnEffects
  <2>2. RecordMoves /\ ActivationMoves
    <3>1. CASE UNCHANGED rec
      BY <1>6, <3>1, QuietRecords DEF ActivateSteering
    <3>2. CASE rec' = Activated(Steering(rt[h].turn))
      <4>1. \A s \in Steering(rt[h].turn) : Pending(s) /\ ~Own(s)
        BY DEF Steering, Own
      <4>2. RecordsForward
        BY <1>6, <3>2, <4>1, RecordEffects DEF ActivateSteering
      <4>3. \A s \in Submission : s \notin Steering(rt[h].turn) => rec'[s] = rec[s]
        BY <3>2 DEF Activated
      <4> QED BY <1>6, <4>1, <4>2, <4>3
              DEF ActivateSteering, RecordMoves, ActivationMoves, Pending
    <3> QED BY <1>6, <3>1, <3>2 DEF ActivateSteering
  <2> QED BY <1>6, <2>1, <2>2, QuietEndings, QuietLocks, FaultEffect DEF ActivateSteering, Shape
<1>7. CASE TurnEnds(h)
  <2>1. Advances(h, "settle")
    BY <1>7, TurnEffects DEF TurnEnds
  <2>2. HintMoves /\ \A g \in Runtime : RuntimeMoves(g)
    BY <1>2, <1>7, <2>1 DEF TurnEnds, CloseSteering, FailTurn
  <2> QED BY <1>7, <2>2, QuietRecords, QuietEndings, QuietLocks, FaultEffect
          DEF TurnEnds, CloseSteering, FailTurn, Shape
<1>8. CASE ScheduleRetry(h)
  <2>1. Advances(h, "waiting")
    BY <1>8, TurnEffects
  <2>2. HintMoves /\ \A g \in Runtime : RuntimeMoves(g)
    BY <1>2, <1>8, <2>1 DEF ScheduleRetry
  <2>3. RetryMoves /\ TerminalMoves
    BY <1>8 DEF ScheduleRetry, RetryMoves, TerminalMoves, ExecutedTurnIsActivated, Started
  <2> QED BY <1>8, <2>2, <2>3, QuietRecords, QuietLocks, FaultEffect DEF ScheduleRetry, Shape
<1>9. CASE RetryProvider(h)
  <2>1. Advances(h, "run")
    BY <1>9, TurnEffects
  <2>2. HintMoves /\ \A g \in Runtime : RuntimeMoves(g)
    BY <1>2, <1>9, <2>1 DEF RetryProvider
  <2>3. RetryMoves /\ TerminalMoves
    BY <1>9 DEF RetryProvider, RetryMoves, TerminalMoves
  <2> QED BY <1>9, <2>2, <2>3, QuietRecords, QuietLocks, FaultEffect DEF RetryProvider, Shape
<1>10. CASE ServiceCancel(h)
  <2>1. Touches(h)
    BY <1>10, TurnEffects
  <2>2. HintMoves /\ \A g \in Runtime : RuntimeMoves(g)
    BY <2>1, OneMoves DEF Touches, Sets, RuntimeMoves, Stays
  <2>3. RecordMoves /\ ActivationMoves
    <3>1. CASE UNCHANGED rec
      BY <1>10, <3>1, QuietRecords DEF ServiceCancel
    <3>2. CASE \E S : rec' = Cancelled(S)
      BY <1>10, <3>2, CancelRecords DEF ServiceCancel
    <3> QED BY <1>10, <3>1, <3>2 DEF ServiceCancel
  <2> QED BY <1>10, <2>2, <2>3, QuietEndings, QuietLocks, FaultEffect DEF ServiceCancel, Shape
<1>11. CASE Settle(h)
  <2>1. Sets(h, "terminal", rt[h].turn, rt[h].via, FALSE)
    BY <1>11, TurnEffects
  <2>2. FaultMoves /\ (disturbances'.fault = 0 => rec' = Cancelled(Steering(rt[h].turn)))
    BY <1>11, FaultEffect DEF Settle
  <2>3. Proceeds(h)
    BY <1>11, <2>1, <2>2 DEF Settle, Sets, Proceeds
  <2>4. HintMoves /\ \A g \in Runtime : RuntimeMoves(g)
    BY <2>1, <2>3, OneMoves DEF RuntimeMoves
  <2>5. RecordMoves /\ ActivationMoves
    BY <1>11, QuietRecords, CancelRecords DEF Settle
  <2>6. LockMoves
    BY <1>11 DEF Settle, LockFree, LockMoves
  <2> QED BY <1>11, <2>2, <2>4, <2>5, <2>6, QuietEndings, QuietLocks DEF Settle, Shape
<1>12. CASE AppendTerminal(h)
  <2>1. Advances(h, "take")
    BY <1>12, TurnEffects
  <2>2. HintMoves /\ \A g \in Runtime : RuntimeMoves(g)
    BY <1>2, <1>12, <2>1 DEF AppendTerminal
  <2>3. rt'[h].step = "take" /\ lock = h
    BY <1>12, <2>1 DEF Advances, Sets, AppendTerminal, HolderHasLock
  <2>4. LockMoves
    BY <2>3 DEF LockMoves
  <2>5. TerminalMoves /\ RetryMoves
    BY <1>12, <2>3 DEF AppendTerminal, TurnFinished, TerminalMoves, RetryMoves, TypeOK, Writer
  <2>6. FaultMoves
    BY <1>12, FaultEffect DEF AppendTerminal
  <2> QED BY <1>12, <2>2, <2>4, <2>5, <2>6, QuietRecords, QuietLocks DEF AppendTerminal, Shape
<1>13. CASE TakeWork(h)
  <2>1. HintMoves /\ \A g \in Runtime : RuntimeMoves(g)
    BY <1>2, <1>3, <1>13, TurnEffects DEF TakeWork
  <2> QED BY <1>13, <2>1, QuietRecords, QuietEndings, QuietLocks, FaultEffect DEF TakeWork, Shape
<1>14. CASE FinishWork(h)
  <2>1. HintMoves /\ \A g \in Runtime : RuntimeMoves(g)
    BY <1>3, <1>14, TurnEffects DEF FinishWork
  <2> QED BY <1>14, <2>1, QuietRecords, QuietEndings, QuietLocks, FaultEffect DEF FinishWork, Shape
<1> QED BY <1>4, <1>5, <1>6, <1>7, <1>8, <1>9, <1>10, <1>11, <1>12, <1>13, <1>14 DEF TurnStep

LEMMA DaemonShape ==
    ASSUME RuntimeInv,
           \/ \E clear \in BOOLEAN : CancelTurn(clear)
           \/ AttachObserve \/ AttachStep \/ Crash
    PROVE  Shape
<1> USE DEF RuntimeInv, durable
<1>1. ASSUME NEW clear \in BOOLEAN, CancelTurn(clear) PROVE Shape
  <2>1. PICK h \in Runtime : /\ SessionRuntimeHandle(h) /\ map' = h
                             /\ \E c : rt' = [Spawned(h) EXCEPT ![h].cancel = c]
    BY <1>1 DEF CancelTurn
  <2>2. Enters(h)
    BY <2>1, SpawnEffect
  <2> QED BY <1>1, <2>2, EntryMoves, QuietRecords, QuietEndings, QuietLocks, FaultEffect
          DEF CancelTurn, Shape
<1>2. CASE AttachObserve \/ AttachRead
  BY <1>2, NoneMoves, QuietRecords, QuietEndings, QuietLocks, FaultEffect
     DEF AttachObserve, AttachRead, Shape
<1>3. ASSUME NEW t \in Submission, Preserve(t) PROVE Shape
  <2>1. HintMoves /\ MapMoves /\ \A g \in Runtime : RuntimeMoves(g)
    <3>1. CASE UNCHANGED <<map, rt>>
      BY <3>1, NoneMoves, QuietLocks
    <3>2. CASE ~UNCHANGED <<map, rt>>
      <4>1. PICK h \in Runtime :
                /\ SessionRuntimeHandle(h) /\ map' = h
                /\ \/ rt' = Spawned(h)
                   \/ rt' = [Spawned(h) EXCEPT ![h].chan = {[kind |-> "recover", id |-> t]}]
        BY <1>3, <3>2 DEF Preserve
      <4>2. Started(t)
        BY <1>3 DEF Preserve, CheckpointIsStarted
      <4>3. Enters(h)
        BY <4>1, <4>2, SpawnEffect
      <4> QED BY <4>3, EntryMoves
    <3> QED BY <3>1, <3>2
  <2> QED BY <1>3, <2>1, QuietRecords, QuietEndings, QuietLocks, FaultEffect DEF Preserve, Shape
<1>4. ASSUME NEW t \in Submission, FailAbandoned(t) PROVE Shape
  BY <1>4, NoneMoves, QuietRecords, QuietEndings, QuietLocks, FaultEffect
     DEF FailAbandoned, Shape
<1>5. CASE FailAbandonedTurn
  <2>1. TerminalMoves /\ RetryMoves
    BY <1>5 DEF FailAbandonedTurn, TurnFinished, TerminalMoves, RetryMoves, TypeOK
  <2> QED BY <1>5, <2>1, NoneMoves, QuietRecords, QuietLocks, FaultEffect
          DEF FailAbandonedTurn, Shape
<1>6. CASE AttachDone
  <2>1. HintMoves /\ MapMoves /\ \A g \in Runtime : RuntimeMoves(g)
    <3>1. CASE UNCHANGED <<map, rt>>
      BY <3>1, NoneMoves, QuietLocks
    <3>2. CASE \E h \in Runtime : SessionRuntimeHandle(h) /\ rt' = Spawned(h) /\ map' = h
      BY <3>2, SpawnEffect, EntryMoves
    <3> QED BY <1>6, <3>1, <3>2 DEF AttachDone
  <2> QED BY <1>6, <2>1, QuietRecords, QuietEndings, QuietLocks, FaultEffect DEF AttachDone, Shape
<1>7. CASE Crash
  <2>1. /\ \A h \in Runtime : Dies(h)
        /\ HintMoves
    BY <1>7 DEF Crash, Dies, Rests, Dead, Fresh, HintMoves
  <2>2. MapMoves /\ LockMoves /\ \A g \in Runtime : RuntimeMoves(g)
    BY <2>1 DEF MapMoves, LockMoves, RuntimeMoves, Dies, Rests
  <2> QED BY <1>7, <2>1, <2>2, QuietRecords, QuietEndings, FaultEffect DEF Crash, Shape
<1> QED BY <1>1, <1>2, <1>3, <1>4, <1>5, <1>6, <1>7 DEF AttachStep

LEMMA NextShape ==
    ASSUME RuntimeInv, [Next]_vars PROVE Shape
<1>1. CASE Next
  BY <1>1, ClientShape, LoopShape, TurnShape, DaemonShape DEF Next
<1>2. CASE UNCHANGED vars
  BY <1>2, NoneMoves, QuietRecords, QuietEndings, QuietLocks, FaultEffect
     DEF vars, RuntimeInv, Shape
<1> QED BY <1>1, <1>2

-----------------------------------------------------------------------------
(* Types. *)

(* The types without what the shape of a step says already.                *)
Types ==
    /\ rec \in [Submission -> Record]
    /\ terminal \in [Submission -> Writer]
    /\ work \in [Submission -> WorkStatus]
    /\ retry \subseteq Submission
    /\ map \in Runtime \union {NoRuntime}
    /\ rt \in [Runtime -> Task]
    /\ registry \subseteq Submission
    /\ lock \in Runtime \union {NoRuntime}
    /\ request \in [Submission -> Request]
    /\ attach \in Attachment
    /\ disturbances \in [crash : 0 .. MaxFailure, fault : 0 .. MaxFailure, ask : 0 .. MaxAsk]
    /\ CaptureHasRuntime

LEMMA TypesSuffice ==
    ASSUME RuntimeInv, Shape, Types' PROVE TypeOK'
<1>1. /\ accepted' \in Seq(Submission)
      /\ \A i, j \in DOMAIN accepted' : accepted'[i] = accepted'[j] => i = j
  <2>1. CASE accepted' = accepted
    BY <2>1 DEF RuntimeInv, TypeOK
  <2>2. ASSUME NEW s \in Submission, Accepts(s)
        PROVE  /\ accepted' \in Seq(Submission)
               /\ \A i, j \in DOMAIN accepted' : accepted'[i] = accepted'[j] => i = j
    <3>1. /\ accepted \in Seq(Submission) /\ accepted' = Append(accepted, s)
          /\ \A i, j \in DOMAIN accepted : accepted[i] = accepted[j] => i = j
          /\ \A i \in DOMAIN accepted : accepted[i] # s
      BY <2>2 DEF Accepts, RuntimeInv, TypeOK, RecordsAreAccepted
    <3> QED BY <3>1
  <2> QED BY <2>1, <2>2 DEF Shape, RecordMoves, RecordsForward
<1>2. \A h \in Runtime : rt'[h].step \in {"dead", "top", "closing"} <=> rt'[h].turn = NoTurn
  BY RuntimeConstants DEF Shape, RuntimeMoves, Stays, Born, Dies, Rests, Frees, Closes, Chosen,
     Proceeds,
         RuntimeInv, TypeOK
<1> QED BY <1>1, <1>2 DEF Types, TypeOK

LEMMA TypesHold == RuntimeInv => Types
BY DEF RuntimeInv, TypeOK, Types

LEMMA NewTasks == Fresh \in Task /\ Dead \in Task /\ NoCancel \in CancelCommand
<1>1. NoCancel \in CancelCommand
  BY DEF CancelCommand
<1>2. Fresh \in Task
  BY <1>1 DEF Fresh, Task, Step, HintKind
<1> QED BY <1>1, <1>2 DEF Dead, Fresh, Task, Step, HintKind

LEMMA SpawnTypes ==
    ASSUME Types, NEW h \in Runtime PROVE Spawned(h) \in [Runtime -> Task]
BY NewTasks DEF Spawned, Types

LEMMA RecordSetTypes ==
    ASSUME Types, NEW S
    PROVE  Cancelled(S) \in [Submission -> Record] /\ Activated(S) \in [Submission -> Record]
<1> USE DEF Types, Record, Status
<1>1. Cancelled(S) \in [Submission -> Record]
  BY DEF Cancelled
<1>2. Activated(S) \in [Submission -> Record]
  BY DEF Activated
<1> QED BY <1>1, <1>2

LEMMA RecordTypes ==
    ASSUME Types
    PROVE  /\ \A s \in Submission, t \in Submission :
                [rec EXCEPT ![s].status = "pending", ![s].target = t] \in [Submission -> Record]
           /\ \A s \in Submission :
                /\ [rec EXCEPT ![s].status = "pending"] \in [Submission -> Record]
                /\ [rec EXCEPT ![s].observed = TRUE] \in [Submission -> Record]
                /\ [rec EXCEPT ![s].authorized = TRUE, ![s].observed = FALSE]
                        \in [Submission -> Record]
<1> USE DEF Types, Record, Status
<1>1. ASSUME NEW s \in Submission, NEW t \in Submission
      PROVE  [rec EXCEPT ![s].status = "pending", ![s].target = t] \in [Submission -> Record]
  <2>1. [rec[s] EXCEPT !.status = "pending"] \in Record
    OBVIOUS
  <2>2. [[rec[s] EXCEPT !.status = "pending"] EXCEPT !.target = t] \in Record
    BY <2>1
  <2> HIDE DEF Record
  <2> QED BY <2>1, <2>2
<1>2. ASSUME NEW s \in Submission
      PROVE  /\ [rec EXCEPT ![s].status = "pending"] \in [Submission -> Record]
             /\ [rec EXCEPT ![s].observed = TRUE] \in [Submission -> Record]
             /\ [rec EXCEPT ![s].authorized = TRUE, ![s].observed = FALSE]
                    \in [Submission -> Record]
  <2>1. rec[s] \in Record
    OBVIOUS
  <2>2. [rec[s] EXCEPT !.status = "pending"] \in Record
    BY <2>1
  <2>3. [rec[s] EXCEPT !.observed = TRUE] \in Record
    BY <2>1
  <2>4. [rec[s] EXCEPT !.authorized = TRUE] \in Record
    BY <2>1
  <2>5. [[rec[s] EXCEPT !.authorized = TRUE] EXCEPT !.observed = FALSE] \in Record
    BY <2>4
  <2> HIDE DEF Record
  <2> QED BY <2>2, <2>3, <2>4, <2>5
<1> QED BY <1>1, <1>2

LEMMA EndingTypes ==
    ASSUME Types
    PROVE  /\ \A t : WorkFinished(t) \in [Submission -> WorkStatus]
           /\ \A t : \A who \in {"settled", "recovered", "ended"} :
                TurnFinished(t, who) \in [Submission -> Writer]
           /\ \A kind \in {"ask", "crash", "fault"} : Disturbed(kind) =>
                disturbances' \in [crash : 0 .. MaxFailure, fault : 0 .. MaxFailure, ask : 0 .. MaxAsk]
<1>1. \A t : WorkFinished(t) \in [Submission -> WorkStatus]
  BY DEF Types, WorkFinished, WorkStatus
<1>2. \A t : \A who \in {"settled", "recovered", "ended"} :
        TurnFinished(t, who) \in [Submission -> Writer]
  BY DEF Types, TurnFinished, Writer
<1>3. ASSUME NEW kind \in {"ask", "crash", "fault"}, Disturbed(kind)
      PROVE  disturbances' \in [crash : 0 .. MaxFailure, fault : 0 .. MaxFailure, ask : 0 .. MaxAsk]
  <2>1. disturbances \in [crash : 0 .. MaxFailure, fault : 0 .. MaxFailure, ask : 0 .. MaxAsk]
    BY DEF Types
  <2>2. CASE kind = "ask"
    BY <1>3, <2>1, <2>2, RuntimeConstants DEF Disturbed
  <2>3. CASE kind = "crash"
    BY <1>3, <2>1, <2>3, RuntimeConstants DEF Disturbed
  <2>4. CASE kind = "fault"
    BY <1>3, <2>1, <2>4, RuntimeConstants DEF Disturbed
  <2> QED BY <2>2, <2>3, <2>4
<1> QED BY <1>1, <1>2, <1>3

LEMMA RequestTypes ==
    ASSUME Types, NEW s \in Submission,
           \/ UNCHANGED request
           \/ request' = [request EXCEPT ![s] = Quiet]
           \/ \E kind \in {"submit", "resume"}, h \in Runtime : request' = [request EXCEPT ![s] =
                    [step |-> "captured", kind |-> kind, runtime |-> h]]
           \/ request[s].step = "captured" /\ request' = [request EXCEPT ![s].step = "wake"]
           \/ request' = [request EXCEPT ![s].step = "enqueue"]
    PROVE  request' \in [Submission -> Request] /\ CaptureHasRuntime'
<1>1. request \in [Submission -> Request] /\ CaptureHasRuntime
  BY DEF Types
<1> USE DEF CaptureHasRuntime
<1>2. CASE UNCHANGED request
  BY <1>1, <1>2
<1>3. CASE request' = [request EXCEPT ![s] = Quiet]
  BY <1>1, <1>3 DEF Quiet, Request
<1>4. ASSUME NEW kind \in {"submit", "resume"}, NEW h \in Runtime,
             request' = [request EXCEPT ![s] =
                    [step |-> "captured", kind |-> kind, runtime |-> h]]
      PROVE  request' \in [Submission -> Request] /\ CaptureHasRuntime'
  BY <1>1, <1>4 DEF Request
<1>5. CASE request[s].step = "captured" /\ request' = [request EXCEPT ![s].step = "wake"]
  BY <1>1, <1>5 DEF Request
<1>6. CASE request' = [request EXCEPT ![s].step = "enqueue"]
  BY <1>1, <1>6 DEF Request
<1> QED BY <1>2, <1>3, <1>4, <1>5, <1>6

LEMMA ClientTypes ==
    ASSUME RuntimeInv, NEW s \in Submission,
           \/ Submit(s) \/ Admit(s) \/ Resume(s) \/ CancelPending(s) \/ EndInterruptedTurn(s)
           \/ RequestStep(s)
    PROVE  Types'
<1>1. Types
  BY TypesHold
<1> USE DEF durable
<1>2. ASSUME NEW kind \in {"submit", "resume"}, Capture(s, kind),
             UNCHANGED disturbances \/ Disturbed("ask")
      PROVE  Types'
  <2>1. PICK h \in Runtime :
            /\ rt' = Spawned(h) /\ map' = h
            /\ request' = [request EXCEPT ![s] =
                    [step |-> "captured", kind |-> kind, runtime |-> h]]
    BY <1>2 DEF Capture
  <2>2. rt' \in [Runtime -> Task]
    BY <1>1, <2>1, SpawnTypes
  <2>3. request' \in [Submission -> Request] /\ CaptureHasRuntime'
    BY <1>1, <2>1, RequestTypes
  <2> QED BY <1>1, <1>2, <2>1, <2>2, <2>3, EndingTypes DEF Capture, Types
<1>3. CASE Submit(s) \/ Resume(s)
  BY <1>2, <1>3 DEF Submit, Resume
<1>4. CASE Admit(s)
  <2>1. request' \in [Submission -> Request] /\ CaptureHasRuntime'
    BY <1>1, <1>4, RequestTypes DEF Admit
  <2>2. rec' \in [Submission -> Record]
    <3>1. UNCHANGED rec \/ rec' = [rec EXCEPT ![s].status = "pending"]
      BY <1>4 DEF Admit
    <3>2. [rec EXCEPT ![s].status = "pending"] \in [Submission -> Record]
      BY <1>1, RecordTypes
    <3> QED BY <1>1, <3>1, <3>2 DEF Types
  <2> QED BY <1>1, <1>4, <2>1, <2>2, EndingTypes DEF Admit, Types
<1>5. CASE CancelPending(s)
  <2>1. PICK h \in Runtime : rt' = Spawned(h) /\ map' = h
    BY <1>5 DEF CancelPending
  <2> QED BY <1>1, <1>5, <2>1, SpawnTypes, RecordSetTypes, EndingTypes
          DEF CancelPending, Types, CaptureHasRuntime
<1>6. CASE EndInterruptedTurn(s)
  <2>1. rt' \in [Runtime -> Task] /\ map' \in Runtime \union {NoRuntime}
    BY <1>1, <1>6, SpawnTypes DEF EndInterruptedTurn, Types
  <2>2. work' \in [Submission -> WorkStatus] /\ terminal' \in [Submission -> Writer]
    BY <1>1, <1>6, EndingTypes DEF EndInterruptedTurn, Types
  <2> QED BY <1>1, <1>6, <2>1, <2>2, EndingTypes
          DEF EndInterruptedTurn, Types, CaptureHasRuntime
<1>7. CASE Accept(s)
  <2>1. request[s].runtime \in Runtime /\ request[s].step = "captured"
    BY <1>7 DEF Accept, RuntimeInv, CaptureHasRuntime
  <2>2. CASE UNCHANGED rec
    <3>1. request' \in [Submission -> Request] /\ CaptureHasRuntime'
      <4>1. \/ request' = [request EXCEPT ![s] = Quiet]
            \/ request' = [request EXCEPT ![s].step = "wake"]
        BY <1>1, <1>7, <2>1, <2>2 DEF Accept, AcceptAs, Declined, Types
      <4> QED BY <1>1, <2>1, <4>1, RequestTypes
    <3> QED BY <1>1, <1>7, <2>2, <3>1 DEF Accept, Types
  <2>3. CASE ~UNCHANGED rec
    <3>1. PICK t : AcceptAs(s, t) /\ (t = s \/ \E h \in Runtime : rt[h].begun /\ t = rt[h].turn)
      BY <1>7, <2>1, <2>3 DEF Accept, AcceptsSteering, Declined
    <3>2. t \in Submission
      BY <3>1 DEF RuntimeInv, BegunRuns, TypeOK, Task
    <3>3. rec' \in [Submission -> Record]
      BY <1>1, <3>1, <3>2, RecordTypes DEF AcceptAs
    <3>4. request' \in [Submission -> Request] /\ CaptureHasRuntime'
      <4>1. \/ request' = [request EXCEPT ![s] = Quiet]
            \/ request' = [request EXCEPT ![s].step = "wake"]
        BY <1>1, <3>1 DEF AcceptAs, Types
      <4> QED BY <1>1, <2>1, <4>1, RequestTypes
    <3> QED BY <1>1, <1>7, <3>3, <3>4 DEF Accept, Types
  <2> QED BY <2>2, <2>3
<1>8. CASE Wake(s)
  <2>1. request' \in [Submission -> Request] /\ CaptureHasRuntime'
    BY <1>1, <1>8, RequestTypes DEF Wake
  <2>2. rt' \in [Runtime -> Task]
    <3> DEFINE h == request[s].runtime
    <3>1. h \in Runtime
      BY <1>8 DEF Wake, RuntimeInv, CaptureHasRuntime
    <3>2. \/ UNCHANGED rt
          \/ rt' = [rt EXCEPT ![h].chan = @ \union {[kind |-> "run", id |-> s]}]
      BY <1>8 DEF Wake
    <3> HIDE DEF h
    <3> QED BY <1>1, <3>1, <3>2 DEF Types, Task, Hint, HintKind
  <2> QED BY <1>1, <1>8, <2>1, <2>2 DEF Wake, Types
<1>9. CASE Enqueue(s)
  <2>1. PICK h \in Runtime :
            \/ /\ map' = h
               /\ rt' = [Spawned(h) EXCEPT ![h].chan = @ \union {[kind |-> "run", id |-> s]}]
            \/ map' = RemovedIfCurrent(h) /\ rt' = rt
    BY <1>9 DEF Enqueue
  <2>2. Spawned(h) \in [Runtime -> Task]
    BY <1>1, SpawnTypes
  <2>3. rt' \in [Runtime -> Task] /\ map' \in Runtime \union {NoRuntime}
    <3>1. CASE map' = RemovedIfCurrent(h) /\ rt' = rt
      BY <1>1, <3>1 DEF Types, RemovedIfCurrent
    <3>2. CASE map' = h /\ rt' = [Spawned(h) EXCEPT ![h].chan = @ \union {[kind |-> "run", id |-> s]}]
      BY <2>2, <3>2 DEF Task, Hint, HintKind
    <3> QED BY <2>1, <3>1, <3>2
  <2>4. request' \in [Submission -> Request] /\ CaptureHasRuntime'
    BY <1>1, <1>9, RequestTypes DEF Enqueue
  <2> QED BY <1>1, <1>9, <2>3, <2>4 DEF Enqueue, Types
<1>10. CASE Authorize(s)
  <2>1. request' \in [Submission -> Request] /\ CaptureHasRuntime'
    BY <1>1, <1>10, RequestTypes DEF Authorize
  <2>2. rec' \in [Submission -> Record]
    <3>1. \/ UNCHANGED rec
          \/ rec' = [rec EXCEPT ![s].authorized = TRUE, ![s].observed = FALSE]
      BY <1>10 DEF Authorize
    <3>2. [rec EXCEPT ![s].authorized = TRUE, ![s].observed = FALSE] \in [Submission -> Record]
      BY <1>1, RecordTypes
    <3> QED BY <1>1, <3>1, <3>2 DEF Types
  <2> QED BY <1>1, <1>10, <2>1, <2>2 DEF Authorize, Types
<1> QED BY <1>3, <1>4, <1>5, <1>6, <1>7, <1>8, <1>9, <1>10 DEF RequestStep

(* An update of one field, of whatever table of tasks.                      *)
LEMMA TaskUpdate ==
    ASSUME NEW f \in [Runtime -> Task], NEW h \in Runtime
    PROVE  /\ \A x \in Step : [f EXCEPT ![h].step = x] \in [Runtime -> Task]
           /\ \A x \in SUBSET Hint : /\ [f EXCEPT ![h].chan = x] \in [Runtime -> Task]
                                     /\ [f EXCEPT ![h].hints = x] \in [Runtime -> Task]
           /\ \A x \in Submission \union {NoTurn} : [f EXCEPT ![h].turn = x] \in [Runtime -> Task]
           /\ \A x \in HintKind \union {"none"} : [f EXCEPT ![h].via = x] \in [Runtime -> Task]
           /\ \A x \in BOOLEAN : /\ [f EXCEPT ![h].begun = x] \in [Runtime -> Task]
                                 /\ [f EXCEPT ![h].steer = x] \in [Runtime -> Task]
                                 /\ [f EXCEPT ![h].cancelled = x] \in [Runtime -> Task]
                                 /\ [f EXCEPT ![h].busy = x] \in [Runtime -> Task]
           /\ \A x \in CancelCommand : [f EXCEPT ![h].cancel = x] \in [Runtime -> Task]
<1>1. \A x \in Step : [f EXCEPT ![h].step = x] \in [Runtime -> Task]
  BY DEF Task
<1>2. ASSUME NEW x \in SUBSET Hint
      PROVE  /\ [f EXCEPT ![h].chan = x] \in [Runtime -> Task]
             /\ [f EXCEPT ![h].hints = x] \in [Runtime -> Task]
  BY DEF Task
<1>3. \A x \in Submission \union {NoTurn} : [f EXCEPT ![h].turn = x] \in [Runtime -> Task]
  BY DEF Task
<1>4. \A x \in HintKind \union {"none"} : [f EXCEPT ![h].via = x] \in [Runtime -> Task]
  BY DEF Task
<1>5. \A x \in BOOLEAN : [f EXCEPT ![h].begun = x] \in [Runtime -> Task]
  BY DEF Task
<1>6. \A x \in BOOLEAN : [f EXCEPT ![h].steer = x] \in [Runtime -> Task]
  BY DEF Task
<1>7. \A x \in BOOLEAN : [f EXCEPT ![h].cancelled = x] \in [Runtime -> Task]
  BY DEF Task
<1>8. \A x \in BOOLEAN : [f EXCEPT ![h].busy = x] \in [Runtime -> Task]
  BY DEF Task
<1>9. \A x \in CancelCommand : [f EXCEPT ![h].cancel = x] \in [Runtime -> Task]
  BY DEF Task
<1> QED BY <1>1, <1>2, <1>3, <1>4, <1>5, <1>6, <1>7, <1>8, <1>9

LEMMA TaskTypes ==
    ASSUME rt \in [Runtime -> Task], NEW h \in Runtime
    PROVE  /\ \A step \in Step : To(h, step) \in [Runtime -> Task]
           /\ \A b \in BOOLEAN :
                [rt EXCEPT ![h] = [Released(@) EXCEPT !.busy = b]] \in [Runtime -> Task]
           /\ [rt EXCEPT ![h].step = "register", ![h].busy = TRUE] \in [Runtime -> Task]
           /\ \A hints \in SUBSET Hint : [rt EXCEPT ![h].hints = hints] \in [Runtime -> Task]
           /\ \A c \in Hint, hints \in SUBSET Hint :
                Select(h, c, hints) => rt' \in [Runtime -> Task]
<1>1. \A step \in Step : To(h, step) \in [Runtime -> Task]
  BY TaskUpdate DEF To
<1>2. ASSUME NEW x \in BOOLEAN
      PROVE  [rt EXCEPT ![h] = [Released(@) EXCEPT !.busy = x]] \in [Runtime -> Task]
  <2>1. \A r \in Task : [Released(r) EXCEPT !.busy = x] \in Task
    BY DEF Released, Task, Step
  <2> QED BY <2>1
<1>3. [rt EXCEPT ![h].step = "register", ![h].busy = TRUE] \in [Runtime -> Task]
  <2> DEFINE a == [rt EXCEPT ![h].step = "register"]
             b == [a EXCEPT ![h].busy = TRUE]
  <2>1. a \in [Runtime -> Task]
    BY TaskUpdate DEF Step
  <2> HIDE DEF a
  <2>2. b \in [Runtime -> Task]
    BY <2>1, TaskUpdate
  <2> QED BY <2>2 DEF a
<1>4. \A hints \in SUBSET Hint : [rt EXCEPT ![h].hints = hints] \in [Runtime -> Task]
  BY TaskUpdate
<1>5. ASSUME NEW c \in Hint, NEW hints \in SUBSET Hint, Select(h, c, hints)
      PROVE  rt' \in [Runtime -> Task]
  <2>1. c.id \in Submission /\ c.kind \in HintKind
    BY DEF Hint
  <2> DEFINE a == [rt EXCEPT ![h].step = "selected"]
             b == [a EXCEPT ![h].turn = c.id]
             d == [b EXCEPT ![h].via = c.kind]
             e == [d EXCEPT ![h].hints = hints]
  <2>2. a \in [Runtime -> Task]
    BY TaskUpdate DEF Step
  <2> HIDE DEF a
  <2>3. b \in [Runtime -> Task]
    BY <2>1, <2>2, TaskUpdate
  <2> HIDE DEF b
  <2>4. d \in [Runtime -> Task]
    BY <2>1, <2>3, TaskUpdate
  <2> HIDE DEF d
  <2>5. e \in [Runtime -> Task]
    BY <2>4, TaskUpdate
  <2> HIDE DEF e
  <2>6. rt' = e
    BY <1>5 DEF Select, a, b, d, e
  <2> QED BY <2>5, <2>6
<1> QED BY <1>1, <1>2, <1>3, <1>4, <1>5

LEMMA LoopTypes ==
    ASSUME RuntimeInv, NEW h \in Runtime,
           \/ LoopStep(h) \/ CancelQueued(h) \/ ActivateFails(h) \/ IdleClose(h)
    PROVE  Types'
<1>1. Types /\ rt \in [Runtime -> Task]
  BY TypesHold DEF Types
<1> USE DEF durable, CaptureHasRuntime
<1>2. rt[h].hints \subseteq Hint /\ rt[h].chan \subseteq Hint /\ Hints(h) \subseteq Hint
  BY <1>1 DEF Task, Hints
<1>3. ASSUME NEW c \in Hint, NEW hints \in SUBSET Hint, Select(h, c, hints)
      PROVE  rt' \in [Runtime -> Task]
  BY <1>1, <1>3, TaskTypes
<1>4. CASE Drain(h)
  <2>1. rt' \in [Runtime -> Task]
    <3> DEFINE a == [rt EXCEPT ![h].chan = {}]
    <3>1. PICK new \in SUBSET Hint : rt' = [a EXCEPT ![h].hints = @ \union new]
      BY <1>2, <1>4 DEF Drain
    <3>2. a \in [Runtime -> Task] /\ a[h].hints = rt[h].hints
      BY <1>1 DEF Task
    <3> HIDE DEF a
    <3>3. a[h].hints \union new \in SUBSET Hint
      BY <1>2, <3>2
    <3>4. [a EXCEPT ![h].hints = a[h].hints \union new] \in [Runtime -> Task]
      BY <3>2, <3>3, TaskUpdate
    <3> QED BY <3>1, <3>4
  <2> QED BY <1>1, <1>4, <2>1 DEF Drain, Types
<1>5. CASE TakeRecovered(h)
  <2>1. rt' \in [Runtime -> Task]
    BY <1>2, <1>3, <1>5 DEF TakeRecovered
  <2> QED BY <1>1, <1>5, <2>1 DEF TakeRecovered, Types
<1>6. CASE TakeHint(h)
  <2>1. rt' \in [Runtime -> Task]
    BY <1>2, <1>3, <1>6 DEF TakeHint
  <2> QED BY <1>1, <1>6, <2>1 DEF TakeHint, Types
<1>7. CASE TakeDurable(h)
  <2>1. PICK s \in Submission, hints \in SUBSET Hint :
            \/ Select(h, [kind |-> "run", id |-> s], hints) /\ UNCHANGED rec
            \/ /\ rec' = [rec EXCEPT ![s].observed = TRUE]
               /\ rt' = [rt EXCEPT ![h].hints = hints]
    BY <1>2, <1>7 DEF TakeDurable
  <2>2. [kind |-> "run", id |-> s] \in Hint
    BY DEF Hint, HintKind
  <2>3. rt' \in [Runtime -> Task]
    <3>1. [rt EXCEPT ![h].hints = hints] \in [Runtime -> Task]
      BY <1>1, TaskTypes
    <3> QED BY <1>3, <2>1, <2>2, <3>1
  <2>4. [rec EXCEPT ![s].observed = TRUE] \in [Submission -> Record]
    BY <1>1, RecordTypes
  <2>5. rec' \in [Submission -> Record]
    BY <1>1, <2>1, <2>4 DEF Types
  <2> QED BY <1>1, <1>7, <2>3, <2>5 DEF TakeDurable, Types
<1>8. CASE Activate(h)
  <2>1. rt' \in [Runtime -> Task] /\ rec' \in [Submission -> Record]
    <3>1. /\ \/ rec' = Activated({rt[h].turn}) \/ UNCHANGED rec
          /\ \/ rt' = [rt EXCEPT ![h].step = "register", ![h].busy = TRUE]
             \/ rt' = [rt EXCEPT ![h] = [Released(@) EXCEPT !.busy = TRUE]]
      BY <1>8 DEF Activate
    <3>2. rec' \in [Submission -> Record]
      BY <1>1, <3>1, RecordSetTypes DEF Types
    <3> QED BY <1>1, <3>1, <3>2, TaskTypes
  <2> QED BY <1>1, <1>8, <2>1 DEF Activate, Types
<1>9. CASE CancelQueued(h)
  <2>1. rt' \in [Runtime -> Task] /\ rec' \in [Submission -> Record]
    BY <1>1, <1>9, TaskTypes, RecordSetTypes DEF CancelQueued
  <2> QED BY <1>1, <1>9, <2>1 DEF CancelQueued, Types
<1>10. CASE ActivateFails(h)
  <2>1. rt' \in [Runtime -> Task] /\ rec' \in [Submission -> Record]
    <3>1. /\ rec' = Activated({rt[h].turn}) \/ UNCHANGED rec
          /\ rt' = [rt EXCEPT ![h] = [Released(@) EXCEPT !.busy = TRUE]]
      BY <1>10 DEF ActivateFails
    <3>2. rec' \in [Submission -> Record]
      BY <1>1, <3>1, RecordSetTypes DEF Types
    <3> QED BY <1>1, <3>1, <3>2, TaskTypes
  <2> QED BY <1>1, <1>10, <2>1, EndingTypes DEF ActivateFails, Types
<1>11. CASE StartRecovered(h)
  <2>1. rt' \in [Runtime -> Task]
    BY <1>1, <1>11, TaskTypes DEF StartRecovered
  <2> QED BY <1>1, <1>11, <2>1 DEF StartRecovered, Types
<1>12. CASE IdleClose(h)
  <2>1. rt' \in [Runtime -> Task]
    BY <1>1, <1>12, TaskTypes DEF IdleClose, Step
  <2> QED BY <1>1, <1>12, <2>1 DEF IdleClose, Types
<1>13. CASE IdleRemove(h)
  <2>1. rt' \in [Runtime -> Task]
    BY <1>1, <1>13, NewTasks DEF IdleRemove
  <2> QED BY <1>1, <1>13, <2>1 DEF IdleRemove, RemovedIfCurrent, Types
<1> QED BY <1>4, <1>5, <1>6, <1>7, <1>8, <1>9, <1>10, <1>11, <1>12, <1>13 DEF LoopStep

LEMMA TurnTypes ==
    ASSUME RuntimeInv, NEW h \in Runtime,
           \/ TurnStep(h) \/ TurnEnds(h)
           \/ ScheduleRetry(h) \/ RetryProvider(h) \/ ServiceCancel(h)
    PROVE  Types'
<1>1. Types /\ rt \in [Runtime -> Task]
  BY TypesHold DEF Types
<1> USE DEF durable, CaptureHasRuntime
<1>2. rt[h].step \notin {"dead", "top", "closing"} => rt[h].turn \in Submission
  BY DEF RuntimeInv, TypeOK, Task
<1>3. \A step \in Step : To(h, step) \in [Runtime -> Task]
  BY <1>1, TaskTypes
<1>4. CASE Register(h)
  BY <1>1, <1>2, <1>3, <1>4 DEF Register, Types, Step
<1>5. CASE Begin(h)
  <2>1. PICK step \in {"run", "waiting"}, b \in BOOLEAN :
            rt' = [rt EXCEPT ![h].step = step, ![h].begun = TRUE, ![h].steer = TRUE,
                             ![h].cancelled = b]
    BY <1>5 DEF Begin, Begun
  <2>2. rt' \in [Runtime -> Task]
    <3> DEFINE f == [rt EXCEPT ![h].step = step]
               g == [f EXCEPT ![h].begun = TRUE]
               k == [g EXCEPT ![h].steer = TRUE]
    <3>1. f \in [Runtime -> Task]
      BY <1>1, TaskUpdate DEF Step
    <3> HIDE DEF f
    <3>2. g \in [Runtime -> Task]
      BY <3>1, TaskUpdate
    <3> HIDE DEF g
    <3>3. k \in [Runtime -> Task]
      BY <3>2, TaskUpdate
    <3> HIDE DEF k
    <3>4. [k EXCEPT ![h].cancelled = b] \in [Runtime -> Task]
      BY <3>3, TaskUpdate
    <3> QED BY <2>1, <3>4 DEF f, g, k
  <2>3. work' \in [Submission -> WorkStatus] /\ registry' \subseteq Submission
    BY <1>1, <1>5 DEF Begin, Types, WorkStatus
  <2> QED BY <1>1, <1>5, <2>2, <2>3, EndingTypes DEF Begin, Types
<1>6. CASE ActivateSteering(h)
  <2>1. rt' \in [Runtime -> Task] /\ rec' \in [Submission -> Record]
    <3>1. /\ rec' = Activated(Steering(rt[h].turn)) \/ UNCHANGED rec
          /\ UNCHANGED rt \/ rt' = To(h, "settle")
      BY <1>6 DEF ActivateSteering
    <3>2. rec' \in [Submission -> Record]
      BY <1>1, <3>1, RecordSetTypes DEF Types
    <3> QED BY <1>1, <1>3, <3>1, <3>2 DEF Step
  <2> QED BY <1>1, <1>6, <2>1 DEF ActivateSteering, Types
<1>7. CASE CloseSteering(h)
  <2>1. PICK b \in BOOLEAN : rt' = [rt EXCEPT ![h].step = "settle", ![h].steer = b]
    BY <1>1, <1>7 DEF CloseSteering, Task
  <2>2. rt' \in [Runtime -> Task]
    <3> DEFINE f == [rt EXCEPT ![h].step = "settle"]
    <3>1. f \in [Runtime -> Task]
      BY <1>1, TaskUpdate DEF Step
    <3> HIDE DEF f
    <3>2. [f EXCEPT ![h].steer = b] \in [Runtime -> Task]
      BY <3>1, TaskUpdate
    <3> QED BY <2>1, <3>2 DEF f
  <2> QED BY <1>1, <1>7, <2>2 DEF CloseSteering, Types
<1>8. CASE FailTurn(h)
  BY <1>1, <1>3, <1>8 DEF FailTurn, Types, Step
<1>9. CASE ScheduleRetry(h)
  BY <1>1, <1>2, <1>3, <1>9 DEF ScheduleRetry, Types, Step
<1>10. CASE RetryProvider(h)
  BY <1>1, <1>3, <1>10 DEF RetryProvider, Types, Step
<1>11. CASE ServiceCancel(h)
  <2>1. h = map
    BY <1>11 DEF ServiceCancel, RuntimeInv, OneLiveRuntime, Open
  <2>2. [rt EXCEPT ![h].cancel = NoCancel] \in [Runtime -> Task]
    BY <1>1, NewTasks DEF Task
  <2>3. rt' \in [Runtime -> Task]
    <3> DEFINE served == [rt EXCEPT ![h].cancel = NoCancel]
    <3>1. \/ rt' = served
          \/ \E b \in BOOLEAN : rt' = [served EXCEPT ![h].chan = {}, ![h].cancelled = b]
          \/ \E b \in BOOLEAN : rt' = [served EXCEPT ![h].chan = @, ![h].cancelled = b]
      BY <1>11, <2>1 DEF ServiceCancel
    <3> HIDE DEF served
    <3>2. served \in [Runtime -> Task]
      BY <2>2 DEF served
    <3>3. ASSUME NEW b \in BOOLEAN
          PROVE  /\ [served EXCEPT ![h].chan = {}, ![h].cancelled = b] \in [Runtime -> Task]
                 /\ [served EXCEPT ![h].chan = @, ![h].cancelled = b] \in [Runtime -> Task]
      <4> DEFINE f == [served EXCEPT ![h].chan = {}]
                 g == [served EXCEPT ![h].chan = @]
      <4>1. f \in [Runtime -> Task] /\ g \in [Runtime -> Task]
        BY <3>2 DEF Task
      <4> HIDE DEF f, g
      <4>2. /\ [f EXCEPT ![h].cancelled = b] \in [Runtime -> Task]
            /\ [g EXCEPT ![h].cancelled = b] \in [Runtime -> Task]
        BY <4>1, TaskUpdate
      <4> QED BY <4>2 DEF f, g
    <3> QED BY <3>1, <3>2, <3>3
  <2>4. rec' \in [Submission -> Record] /\ work' \in [Submission -> WorkStatus]
    <3>1. /\ UNCHANGED rec \/ \E S : rec' = Cancelled(S)
          /\ UNCHANGED work \/ \E t : work' = [work EXCEPT ![t] = "cancelling"]
      <4>1. ASSUME NEW t, work' \in CancelMarks(t)
            PROVE  UNCHANGED work \/ \E u : work' = [work EXCEPT ![u] = "cancelling"]
        BY <4>1 DEF CancelMarks
      <4> QED BY <1>11, <4>1 DEF ServiceCancel
    <3>2. rec' \in [Submission -> Record]
      BY <1>1, <3>1, RecordSetTypes DEF Types
    <3> QED BY <1>1, <3>1, <3>2 DEF Types, WorkStatus
  <2> QED BY <1>1, <1>11, <2>3, <2>4 DEF ServiceCancel, Types
<1>12. CASE Settle(h)
  <2>1. rt' \in [Runtime -> Task]
    <3> DEFINE f == [rt EXCEPT ![h].step = "terminal"]
               g == [f EXCEPT ![h].begun = FALSE]
    <3>1. f \in [Runtime -> Task]
      BY <1>1, TaskUpdate DEF Step
    <3> HIDE DEF f
    <3>2. g \in [Runtime -> Task]
      BY <3>1, TaskUpdate
    <3> HIDE DEF g
    <3>3. [g EXCEPT ![h].steer = FALSE] \in [Runtime -> Task]
      BY <3>2, TaskUpdate
    <3> QED BY <1>12, <3>3 DEF Settle, f, g
  <2>2. rec' \in [Submission -> Record]
    <3>1. UNCHANGED rec \/ rec' = Cancelled(Steering(rt[h].turn))
      BY <1>12 DEF Settle
    <3> QED BY <1>1, <3>1, RecordSetTypes DEF Types
  <2> QED BY <1>1, <1>12, <2>1, <2>2, EndingTypes DEF Settle, Types
<1>13. CASE AppendTerminal(h)
  <2>1. rt' \in [Runtime -> Task]
    BY <1>3, <1>13 DEF AppendTerminal, Step
  <2>2. terminal' \in [Submission -> Writer]
    BY <1>1, <1>13, EndingTypes DEF AppendTerminal, Types
  <2> QED BY <1>1, <1>13, <2>1, <2>2, EndingTypes DEF AppendTerminal, Types
<1>14. CASE TakeWork(h)
  <2>1. rt' \in [Runtime -> Task]
    BY <1>1, <1>3, <1>14, TaskTypes DEF TakeWork, Step
  <2> QED BY <1>1, <1>14, <2>1 DEF TakeWork, Types
<1>15. CASE FinishWork(h)
  <2>1. rt' \in [Runtime -> Task]
    BY <1>1, <1>15, TaskTypes DEF FinishWork
  <2> QED BY <1>1, <1>15, <2>1, EndingTypes DEF FinishWork, Types
<1> QED BY <1>4, <1>5, <1>6, <1>7, <1>8, <1>9, <1>10, <1>11, <1>12, <1>13, <1>14, <1>15
        DEF TurnStep, TurnEnds

LEMMA DaemonTypes ==
    ASSUME RuntimeInv,
           \/ \E clear \in BOOLEAN : CancelTurn(clear)
           \/ AttachObserve \/ AttachStep \/ Crash
    PROVE  Types'
<1>1. Types /\ rt \in [Runtime -> Task]
  BY TypesHold DEF Types
<1> USE DEF durable, CaptureHasRuntime
<1>2. ASSUME NEW clear \in BOOLEAN, CancelTurn(clear) PROVE Types'
  <2>1. PICK h \in Runtime : /\ map' = h
                             /\ rt' = [Spawned(h) EXCEPT ![h].cancel =
                                    [asked |-> TRUE, clear |-> clear,
                                     expected |-> IF Spawned(h)[h].begun THEN Spawned(h)[h].turn ELSE NoTurn]]
    BY <1>2 DEF CancelTurn
  <2>2. Spawned(h) \in [Runtime -> Task]
    BY <1>1, SpawnTypes
  <2>3. PICK e \in Submission \union {NoTurn} :
            rt' = [Spawned(h) EXCEPT ![h].cancel = [asked |-> TRUE, clear |-> clear, expected |-> e]]
    BY <2>1, <2>2 DEF Task
  <2>4. [asked |-> TRUE, clear |-> clear, expected |-> e] \in CancelCommand
    BY DEF CancelCommand
  <2>5. rt' \in [Runtime -> Task]
    BY <2>2, <2>3, <2>4, TaskUpdate
  <2> QED BY <1>1, <1>2, <2>1, <2>5, EndingTypes DEF CancelTurn, Types
<1>3. CASE AttachObserve
  <2>1. attach' \in Attachment
    BY <1>1, <1>3 DEF AttachObserve, Detached, Attachment, Types
  <2> QED BY <1>1, <1>3, <2>1, EndingTypes DEF AttachObserve, Types
<1>4. CASE AttachRead
  <2>1. attach' \in Attachment
    BY <1>1, <1>4 DEF AttachRead, ActiveWork, Attachment, Types
  <2> QED BY <1>1, <1>4, <2>1 DEF AttachRead, Types
<1>5. ASSUME NEW t PROVE Examined(t) \in Attachment
  BY <1>1 DEF Examined, Attachment, Types
<1>6. ASSUME NEW t \in Submission, Preserve(t) PROVE Types'
  <2>1. rt' \in [Runtime -> Task] /\ map' \in Runtime \union {NoRuntime}
    <3>1. CASE UNCHANGED <<map, rt>>
      BY <1>1, <3>1 DEF Types
    <3>2. CASE ~UNCHANGED <<map, rt>>
      <4>1. PICK h \in Runtime :
                /\ map' = h
                /\ \/ rt' = Spawned(h)
                   \/ rt' = [Spawned(h) EXCEPT ![h].chan = {[kind |-> "recover", id |-> t]}]
        BY <1>6, <3>2 DEF Preserve
      <4>2. Spawned(h) \in [Runtime -> Task]
        BY <1>1, SpawnTypes
      <4>3. {[kind |-> "recover", id |-> t]} \in SUBSET Hint
        BY DEF Hint, HintKind
      <4>4. [Spawned(h) EXCEPT ![h].chan = {[kind |-> "recover", id |-> t]}] \in [Runtime -> Task]
        BY <4>2, <4>3, TaskUpdate
      <4> QED BY <4>1, <4>2, <4>4
    <3> QED BY <3>1, <3>2
  <2>2. work' \in [Submission -> WorkStatus]
    BY <1>1, <1>6, EndingTypes DEF Preserve, Types
  <2> QED BY <1>1, <1>5, <1>6, <2>1, <2>2 DEF Preserve, Types
<1>7. ASSUME NEW t \in Submission, FailAbandoned(t) PROVE Types'
  <2>1. attach' \in Attachment
    BY <1>1, <1>7 DEF FailAbandoned, Attachment, Types
  <2> QED BY <1>1, <1>7, <2>1, EndingTypes DEF FailAbandoned, Types
<1>8. CASE FailAbandonedTurn
  BY <1>1, <1>5, <1>8, EndingTypes DEF FailAbandonedTurn, Types
<1>9. CASE AttachDone
  <2>1. rt' \in [Runtime -> Task] /\ map' \in Runtime \union {NoRuntime}
    BY <1>1, <1>9, SpawnTypes DEF AttachDone, Types
  <2>2. Detached \in Attachment
    BY DEF Detached, Attachment
  <2> QED BY <1>1, <1>9, <2>1, <2>2 DEF AttachDone, Types
<1>10. CASE Crash
  <2>1. Detached \in Attachment /\ Quiet \in Request
    BY DEF Detached, Attachment, Quiet, Request
  <2>2. rt' \in [Runtime -> Task] /\ request' \in [Submission -> Request]
    BY <1>10, <2>1, NewTasks DEF Crash
  <2>3. CaptureHasRuntime'
    BY <1>10 DEF Crash, Quiet
  <2> QED BY <1>1, <1>10, <2>1, <2>2, <2>3, EndingTypes DEF Crash, Types
<1> QED BY <1>2, <1>3, <1>4, <1>6, <1>7, <1>8, <1>9, <1>10 DEF AttachStep

LEMMA NextTypes ==
    ASSUME RuntimeInv, [Next]_vars PROVE Types'
<1>1. CASE Next
  BY <1>1, ClientTypes, LoopTypes, TurnTypes, DaemonTypes DEF Next
<1>2. CASE UNCHANGED vars
  BY <1>2, TypesHold DEF vars, Types, CaptureHasRuntime
<1> QED BY <1>1, <1>2

-----------------------------------------------------------------------------
(* The theorems. *)

LEMMA InitRuntimeInv == Init => RuntimeInv
<1> SUFFICES ASSUME Init PROVE RuntimeInv
  OBVIOUS
<1> USE RuntimeConstants
<1>1. /\ \A h \in Runtime : /\ rt[h].step = "dead" /\ rt[h].turn = NoTurn /\ ~rt[h].begun
                            /\ rt[h].chan = {} /\ rt[h].hints = {}
      /\ \A s \in Submission : /\ rec[s].status = "none" /\ rec[s].target = s
                               /\ terminal[s] = "none" /\ request[s].step = "quiet"
  BY DEF Init, Dead, Fresh, Quiet
<1>2. TypeOK
  <2>1. rec \in [Submission -> Record]
    BY DEF Init, Record, Status
  <2>2. rt \in [Runtime -> Task] /\ request \in [Submission -> Request] /\ attach \in Attachment
    BY NewTasks DEF Init, Quiet, Request, Detached, Attachment
  <2>3. disturbances \in [crash : 0 .. MaxFailure, fault : 0 .. MaxFailure, ask : 0 .. MaxAsk]
    BY DEF Init
  <2> QED BY <1>1, <2>1, <2>2, <2>3 DEF Init, TypeOK, Writer, WorkStatus
<1>3. RecordsAreAccepted
  <2>1. DOMAIN accepted = {}
    BY DEF Init
  <2> QED BY <1>1, <2>1 DEF RecordsAreAccepted, Own
<1>4. /\ CaptureHasRuntime /\ OneLiveRuntime /\ HolderHasLock /\ BegunRuns /\ ClosesOverNothing
      /\ RecoverHintIsStarted /\ SettledIsStarted /\ SelectedIsOwn /\ ExecutedTurnIsActivated
      /\ BusyTurnIsUnsettled /\ SettlementClears /\ SteeringIsSettled /\ SelectedIsInOrder
  BY <1>1 DEF CaptureHasRuntime, OneLiveRuntime, Open, HolderHasLock, BegunRuns,
     ClosesOverNothing, RecoverHintIsStarted, SettledIsStarted, SelectedIsOwn,
     ExecutedTurnIsActivated, BusyTurnIsUnsettled, Unfinished, SettlementClears,
     SteeringIsSettled, SelectedIsInOrder
<1>5. CheckpointIsStarted
  BY DEF Init, CheckpointIsStarted
<1> QED BY <1>2, <1>3, <1>4, <1>5 DEF RuntimeInv

LEMMA NextRuntimeInv == RuntimeInv /\ [Next]_vars => RuntimeInv'
<1> SUFFICES ASSUME RuntimeInv, [Next]_vars PROVE RuntimeInv'
  OBVIOUS
<1>1. Shape /\ Types'
  BY NextShape, NextTypes
<1>2. TypeOK' /\ CaptureHasRuntime'
  BY <1>1, TypesSuffice DEF Types
<1>3. OneLiveRuntime' /\ HolderHasLock' /\ BegunRuns' /\ ClosesOverNothing'
  BY <1>1, LiveStep, LockStep, BegunStep, CloseStep DEF RuntimeInv
<1>4. RecordsAreAccepted'
  BY <1>1, RecordsStep DEF RuntimeInv, Shape
<1> QED BY <1>1, <1>2, <1>3, <1>4, StartedStep, SettledStep, OrderStep DEF RuntimeInv

(* The inductive invariant holds in every state the daemon and its clients *)
(* can reach.                                                              *)
THEOREM RuntimeInvariant == Spec => []RuntimeInv
BY InitRuntimeInv, NextRuntimeInv, PTL DEF Spec

(* Every variable keeps its type: no submission is accepted twice by       *)
(* accept_submission, and a runtime has a turn exactly while it works one. *)
THEOREM RuntimeTypes == Spec => []TypeOK
<1>1. RuntimeInv => TypeOK
  BY DEF RuntimeInv
<1> QED BY <1>1, RuntimeInvariant, PTL

(* session_runtimes names the only runtime that takes input, across idle   *)
(* removal, replacement of closed entries and daemon restarts.             *)
THEOREM LiveRuntimeIsUnique == Spec => []OneLiveRuntime
<1>1. RuntimeInv => OneLiveRuntime
  BY DEF RuntimeInv
<1> QED BY <1>1, RuntimeInvariant, PTL

(* The idle shutdown of run_session_runtime loses no accepted submission.  *)
THEOREM IdleShutdownIsSafe == Spec => []ClosesOverNothing
<1>1. RuntimeInv => ClosesOverNothing
  BY DEF RuntimeInv
<1> QED BY <1>1, RuntimeInvariant, PTL

(* A runtime executes only turns that activated_submission_event activated, *)
(* also when it recovers one from a retry checkpoint.                      *)
THEOREM ExecutionFollowsActivation == Spec => []ExecutedTurnIsActivated
<1>1. RuntimeInv => ExecutedTurnIsActivated
  BY DEF RuntimeInv
<1> QED BY <1>1, RuntimeInvariant, PTL

(* Unless storage fails a settlement, settle_turn_lifecycle leaves nobody  *)
(* waiting to steer a turn that is over.                                   *)
THEOREM SettledTurnsAreNotSteered == Spec => []SteeringIsSettled
<1>1. RuntimeInv => SteeringIsSettled
  BY DEF RuntimeInv
<1> QED BY <1>1, RuntimeInvariant, PTL

(* next_pending_submission_command starts turns in acceptance order, with  *)
(* the selection made before the admission lock and used under it.         *)
THEOREM TurnsStartInOrder == Spec => StartsInOrder
<1>1. RuntimeInv /\ [Next]_vars =>
        [\A s \in Submission :
            Pending(s) /\ Own(s) /\ rec'[s].status = "activated" => InOrder(s)]_vars
  BY NextShape, OrderStep
<1> QED BY <1>1, RuntimeInvariant, PTL DEF Spec, StartsInOrder
=============================================================================
