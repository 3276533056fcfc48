-------------------------- MODULE WorkflowRunProofs --------------------------
(***************************************************************************)
(* Proofs about WorkflowRun: every safety property of the run, for any     *)
(* daemons, artifacts, activations, retry and concurrency caps and any     *)
(* number of authority generations.                                        *)
(*                                                                         *)
(* The inductive invariant has three strands.  Sound says of a store, by   *)
(* itself, what its transactions keep true between the run, its            *)
(* activations and its attempts; it is stated of any store, because a      *)
(* transaction composes several store operators and each of them keeps it. *)
(* PastIsOver and ObservedIsTrue tie the store to the operations: what was *)
(* settled, and what is about to be, rests on how an operation ended.      *)
(* The last strand holds while evidence of an owner's end is only given    *)
(* truly: one daemon at a time drives the run, and what it has handed off  *)
(* stays unsettled in the store until it is heard of.                      *)
(***************************************************************************)
EXTENDS WorkflowRun, TLAPS

-----------------------------------------------------------------------------
(* A store by itself. *)

(* Attempts of an activation are numbered without gaps.                    *)
NoGaps(s) ==
    \A i, j \in Attempt :
        i[1] = j[1] /\ i[2] < j[2] /\ s.attempt[j] # "none" => s.attempt[i] # "none"

(* An unsettled attempt is the last one of an activation that runs.        *)
UnsettledIsLast(s) ==
    \A i \in Attempt : s.attempt[i] \in Unsettled =>
        /\ s.act[i[1]] = "running"
        /\ \A j \in Attempt : i[1] = j[1] /\ i[2] < j[2] => s.attempt[j] = "none"

Pinned(s) ==
    s.run = "repair_required" <=> \E i \in Attempt : s.attempt[i] = "repair_required"

EndedIsSettled(s) == s.run \in {"completed", "cancelled"} => AllSettled(s)

Sound(s) ==
    /\ s \in Store
    /\ NoGaps(s)
    /\ UnsettledIsLast(s)
    /\ Pinned(s)
    /\ EndedIsSettled(s)

-----------------------------------------------------------------------------
(* The store and the operations. *)

(* An attempt the run has gone past: there is a later one, or its          *)
(* activation waits for one.                                               *)
Past(s, i) ==
    /\ s.attempt[i] # "none"
    /\ \/ s.act[i[1]] \in {"pending", "failed"}
       \/ \E j \in Attempt : i[1] = j[1] /\ i[2] < j[2] /\ s.attempt[j] # "none"

(* The run goes past an attempt only when its operation ended as failed or *)
(* paused, or an operator abandoned it.                                    *)
PastIsOver(s, e) ==
    \A i \in Attempt : Past(s, i) =>
        s.attempt[i] = "abandoned" \/ e[i].state \in {"failed", "paused"}

(* An outcome is known to be the one the operation had.                    *)
IsTrue(o, state) ==
    /\ o \in Outcome => state = o
    /\ o = "unknown" => state = "lost"

(* A page of observations stays true until it is applied: what has ended   *)
(* does not change.                                                        *)
ObservedIsTrue ==
    \A d \in Daemon : task[d].step = "observed" =>
        /\ IsTrue(task[d].obs, exec[task[d].id].state)
        /\ IsTrue(task[d].alsoObs, exec[task[d].also].state)

-----------------------------------------------------------------------------
(* One driver at a time. *)

TaskIsUp == \A d \in Daemon : task[d] # Idle => d \in up

Admission == {"checked", "registered", "accepted"}

(* Whoever holds a drive gate over several transactions owns the run.      *)
TaskIsOwners == \A d \in Daemon : task[d] # Idle => Verified(d, task[d].generation)

(* What is being admitted was handed off.                                  *)
AdmissionIsHanded ==
    \A d \in Daemon : task[d].step \in Admission \union {"handed"} => task[d].id \in handed

(* Before it is submitted it has no receipt.                               *)
AdmissionIsFresh ==
    \A d \in Daemon : task[d].step \in {"checked", "registered"} => task[d].id \notin receipt

(* A preparation about to be classified has no operation.                  *)
ExaminedIsFresh ==
    \A d \in Daemon : task[d].step = "examined" => exec[task[d].id].state = "none"

Undisturbed ==
    /\ TaskIsOwners
    /\ AdmissionIsHanded
    /\ AdmissionIsFresh
    /\ ExaminedIsFresh

WorkflowInv ==
    /\ TypeOK
    /\ Sound(db)
    /\ PastIsOver(db, exec)
    /\ ObservedIsTrue
    /\ TaskIsUp
    /\ BarredRunIsStopped
    /\ world.sound => Undisturbed
    /\ AdmissionKeepsAttempt
    /\ LiveIsTracked

-----------------------------------------------------------------------------
(* Operators of the model: what they return. *)

(* An attempt is an activation and a number.                               *)
LEMMA AttemptParts ==
    /\ \A i \in Attempt : i[1] \in Activation /\ i[2] \in Nat
                          /\ i[2] >= 1 /\ i[2] <= RetryCap + 1 /\ i = <<i[1], i[2]>>
    /\ \A a \in Activation, n \in 1 .. RetryCap + 1 :
          <<a, n>> \in Attempt /\ <<a, n>>[1] = a /\ <<a, n>>[2] = n
    /\ \A i, j \in Attempt : i[1] = j[1] /\ i[2] = j[2] => i = j
BY WorkflowConstants DEF Attempt

(* Two attempts of one activation are ordered.                             *)
LEMMA AttemptOrder ==
    \A i, j \in Attempt : i[1] = j[1] /\ i # j => i[2] < j[2] \/ j[2] < i[2]
BY AttemptParts

LEMMA StoreParts ==
    ASSUME NEW s \in Store
    PROVE  /\ s.run \in RunStatus
           /\ s.cancel \in BOOLEAN
           /\ s.act \in [Activation -> ActivationStatus]
           /\ s.attempt \in [Attempt -> AttemptStatus]
           /\ s = [run |-> s.run, cancel |-> s.cancel, act |-> s.act, attempt |-> s.attempt]
BY DEF Store

LEMMA StoreRecord ==
    ASSUME NEW s \in Store
    PROVE  \E p, q, g, h : s = [run |-> p, cancel |-> q, act |-> g, attempt |-> h]
BY StoreParts

(* At most one attempt of an activation is unsettled.                      *)
LEMMA OneAtATime ==
    ASSUME NEW s, UnsettledIsLast(s),
           NEW i \in Attempt, NEW j \in Attempt, i[1] = j[1],
           s.attempt[i] \in Unsettled, s.attempt[j] \in Unsettled
    PROVE  i = j
<1>1. "none" \notin Unsettled
  BY DEF Unsettled, Active, InFlight
<1> QED
  BY <1>1, AttemptOrder DEF UnsettledIsLast

(* Cancelling a run that waits for nothing keeps a store sound, changes no *)
(* attempt, and sets no run going and no activation waiting.               *)
LEMMA FinalizedSound ==
    ASSUME NEW s, Sound(s)
    PROVE  LET t == Finalized(s) IN
           /\ Sound(t)
           /\ t.attempt = s.attempt
           /\ t.cancel = s.cancel
           /\ t.run # s.run => t.run = "cancelled" /\ s.run \in {"running", "paused"}
           /\ \A a \in Activation : t.act[a] # s.act[a] => t.act[a] = "cancelled"
<1> DEFINE closed == [a \in Activation |-> IF s.act[a] \in {"pending", "running"}
                                           THEN "cancelled" ELSE s.act[a]]
           due == s.cancel /\ s.run \in {"running", "paused"} /\ AllSettled(s)
           t == Finalized(s)
<1>1. s \in Store
  BY DEF Sound
<1>2. CASE ~due
  BY <1>2 DEF Finalized
<1>3. CASE due
  <2>1. t = [s EXCEPT !.run = "cancelled", !.act = closed]
    BY <1>3 DEF Finalized
  <2>2. /\ t.run = "cancelled" /\ t.cancel = s.cancel
        /\ t.act = closed /\ t.attempt = s.attempt
    BY <2>1, <1>1, StoreParts
  <2>3. closed \in [Activation -> ActivationStatus]
    BY <1>1, StoreParts DEF ActivationStatus
  <2>4. t \in Store
    BY <2>1, <2>3, <1>1 DEF Store, RunStatus
  <2>5. NoGaps(t) /\ UnsettledIsLast(t) /\ EndedIsSettled(t)
    BY <2>2, <1>3 DEF Sound, NoGaps, UnsettledIsLast, EndedIsSettled, AllSettled
  <2>6. Pinned(t)
    BY <2>2, <1>3 DEF Sound, Pinned
  <2>7. \A a \in Activation : t.act[a] # s.act[a] => t.act[a] = "cancelled"
    BY <2>2
  <2> QED
    BY <2>2, <2>4, <2>5, <2>6, <2>7, <1>3 DEF Sound
<1> QED
  BY <1>2, <1>3

-----------------------------------------------------------------------------
(* Transactions: what takes a store from s to t while the operations are e *)
(* is one of a few kinds, and each kind keeps a store sound. *)

Final(s, t) ==
    /\ \A i \in Attempt : s.attempt[i] \in Settled => t.attempt[i] = s.attempt[i]
    /\ s.run \in {"completed", "cancelled"} => t.run = s.run
    /\ s.cancel => t.cancel

Advances(s, t, e) ==
    /\ Sound(t)
    /\ PastIsOver(t, e)
    /\ Final(s, t)

LEMMA FinalIsTransitive ==
    ASSUME NEW s, NEW t, NEW u, Final(s, t), Final(t, u)
    PROVE  Final(s, u)
BY DEF Final

LEMMA StatusKinds ==
    /\ Active \subseteq Unsettled
    /\ Unsettled \cap Settled = {}
    /\ "none" \notin Unsettled \union Settled
    /\ "repair_required" \in Unsettled \ Active
    /\ Unsettled \subseteq Active \union {"repair_required"}
    /\ AttemptStatus = Unsettled \union Settled \union {"none"}
BY DEF Active, InFlight, Unsettled, Settled, AttemptStatus

(* The run's status and its cancellation change, and nothing else.         *)
LEMMA RunMoves ==
    ASSUME NEW e, NEW s, Sound(s), PastIsOver(s, e),
           NEW t \in Store, t.act = s.act, t.attempt = s.attempt,
           Pinned(t), EndedIsSettled(t),
           s.run \in {"completed", "cancelled"} => t.run = s.run,
           s.cancel => t.cancel
    PROVE  Advances(s, t, e)
<1>1. NoGaps(t) /\ UnsettledIsLast(t)
  BY DEF Sound, NoGaps, UnsettledIsLast
<1>2. PastIsOver(t, e)
  BY DEF PastIsOver, Past
<1>3. Final(s, t)
  BY DEF Final
<1> QED
  BY <1>1, <1>2, <1>3 DEF Advances, Sound

(* An activation waits no more.                                            *)
LEMMA PastShrinks ==
    ASSUME NEW e, NEW s, PastIsOver(s, e), NEW t, t.attempt = s.attempt,
           \A a \in Activation : t.act[a] # s.act[a] => t.act[a] = "cancelled"
    PROVE  PastIsOver(t, e)
BY AttemptParts DEF PastIsOver, Past

LEMMA FinalizedAdvances ==
    ASSUME NEW e, NEW s, Sound(s), PastIsOver(s, e)
    PROVE  Advances(s, Finalized(s), e)
<1> DEFINE t == Finalized(s)
<1>1. /\ Sound(t) /\ t.attempt = s.attempt /\ t.cancel = s.cancel
      /\ t.run # s.run => t.run = "cancelled" /\ s.run \in {"running", "paused"}
      /\ \A a \in Activation : t.act[a] # s.act[a] => t.act[a] = "cancelled"
  BY FinalizedSound
<1> HIDE DEF t
<1>2. PastIsOver(t, e)
  BY <1>1, PastShrinks
<1>3. Final(s, t)
  BY <1>1 DEF Final
<1> QED
  BY <1>1, <1>2, <1>3 DEF Advances, t

(* An unsettled attempt changes its status.  What it does to the others is *)
(* nothing, and the run has not ended.                                     *)
LEMMA UnsettledMoves ==
    ASSUME NEW e, NEW s, Sound(s), PastIsOver(s, e),
           NEW i \in Attempt, s.attempt[i] \in Unsettled, 
           NEW t \in Store, NEW x \in (Unsettled \union Settled),
           t.attempt = [s.attempt EXCEPT ![i] = x],
           \A b \in Activation : b # i[1] => t.act[b] = s.act[b],
           x \in Unsettled => t.act[i[1]] = "running",
           t.act[i[1]] \in {"pending", "failed"} =>
               x = "abandoned" \/ e[i].state \in {"failed", "paused"},
           Pinned(t), EndedIsSettled(t),
           s.cancel => t.cancel
    PROVE  Advances(s, t, e)
<1>1. /\ s \in Store /\ s.attempt \in [Attempt -> AttemptStatus]
      /\ s.act[i[1]] = "running"
      /\ \A j \in Attempt : i[1] = j[1] /\ i[2] < j[2] => s.attempt[j] = "none"
  BY StoreParts DEF Sound, UnsettledIsLast
<1>2. /\ t.attempt[i] = x
      /\ \A j \in Attempt : j # i => t.attempt[j] = s.attempt[j]
      /\ \A j \in Attempt : t.attempt[j] = "none" <=> s.attempt[j] = "none"
  BY <1>1, StatusKinds
<1>3. NoGaps(t)
  BY <1>2 DEF Sound, NoGaps
<1>4. UnsettledIsLast(t)
  <2> SUFFICES ASSUME NEW j \in Attempt, t.attempt[j] \in Unsettled
               PROVE  /\ t.act[j[1]] = "running"
                      /\ \A k \in Attempt : j[1] = k[1] /\ j[2] < k[2] => t.attempt[k] = "none"
    BY DEF UnsettledIsLast
  <2>1. CASE j = i
    BY <2>1, <1>1, <1>2
  <2>2. CASE j # i
    <3>1. s.attempt[j] \in Unsettled
      BY <2>2, <1>2
    <3>2. j[1] # i[1]
      BY <3>1, <2>2, OneAtATime DEF Sound
    <3> QED
      BY <3>1, <3>2, <1>2, AttemptParts DEF Sound, UnsettledIsLast
  <2> QED
    BY <2>1, <2>2
<1>5. PastIsOver(t, e)
  <2> SUFFICES ASSUME NEW j \in Attempt, Past(t, j)
               PROVE  t.attempt[j] = "abandoned" \/ e[j].state \in {"failed", "paused"}
    BY DEF PastIsOver
  <2>1. CASE j = i
    <3>1. ~ \E k \in Attempt : i[1] = k[1] /\ i[2] < k[2] /\ t.attempt[k] # "none"
      BY <1>1, <1>2
    <3> QED
      BY <2>1, <3>1, <1>2 DEF Past
  <2>2. CASE j # i /\ j[1] = i[1] 
    <3>1. s.attempt[j] # "none" /\ s.attempt[i] # "none"
      BY <1>2, StatusKinds DEF Past
    <3>2. j[2] < i[2]
      BY <3>1, <2>2, <1>1, AttemptOrder
    <3>3. Past(s, j)
      BY <3>1, <3>2, <2>2 DEF Past
    <3> QED
      BY <3>3, <2>2, <1>2 DEF PastIsOver
  <2>3. CASE j[1] # i[1]
    <3>1. t.act[j[1]] = s.act[j[1]]
      BY <2>3, AttemptParts
    <3>2. Past(s, j)
      BY <2>3, <3>1, <1>2 DEF Past
    <3> QED
      BY <3>2, <2>3, <1>2 DEF PastIsOver
  <2> QED
    BY <2>1, <2>2, <2>3
<1>6. Final(s, t)
  <2>1. s.run \notin {"completed", "cancelled"}
    BY DEF Sound, EndedIsSettled, AllSettled
  <2> QED
    BY <2>1, <1>2, StatusKinds DEF Final
<1> QED
  BY <1>3, <1>4, <1>5, <1>6 DEF Advances, Sound


(* An active attempt changes its status and stays active.                  *)
LEMMA ActiveMoves ==
    ASSUME NEW e, NEW s, Sound(s), PastIsOver(s, e),
           NEW i \in Attempt, s.attempt[i] \in Active, NEW x \in Active
    PROVE  LET t == [s EXCEPT !.attempt[i] = x] IN
           /\ Advances(s, t, e)
           /\ t.run = s.run /\ t.cancel = s.cancel /\ t.act = s.act
           /\ t.attempt = [s.attempt EXCEPT ![i] = x]
<1> DEFINE t == [s EXCEPT !.attempt[i] = x]
<1>1. s \in Store /\ s.attempt \in [Attempt -> AttemptStatus]
  BY StoreParts DEF Sound
<1>2. /\ t.run = s.run /\ t.cancel = s.cancel /\ t.act = s.act
      /\ t.attempt = [s.attempt EXCEPT ![i] = x]
  BY <1>1, StoreParts
<1>3. t \in Store
  BY <1>1, StatusKinds DEF Store
<1> HIDE DEF t
<1>4. t.act[i[1]] = "running"
  BY <1>2, StatusKinds DEF Sound, UnsettledIsLast
<1>5. \A j \in Attempt : t.attempt[j] = "repair_required" <=> s.attempt[j] = "repair_required"
  BY <1>1, <1>2, StatusKinds
<1>6. Pinned(t)
  BY <1>2, <1>5 DEF Sound, Pinned
<1>7. EndedIsSettled(t)
  BY <1>2, StatusKinds DEF Sound, EndedIsSettled, AllSettled
<1>8. Advances(s, t, e)
  <2>1. x \in Unsettled \union Settled /\ s.attempt[i] \in Unsettled
    BY StatusKinds
  <2>2. \A b \in Activation : b # i[1] => t.act[b] = s.act[b]
    BY <1>2
  <2>3. t.act[i[1]] \notin {"pending", "failed"}
    BY <1>4
  <2>4. s.cancel => t.cancel
    BY <1>2
  <2> QED
    BY ONLY UnsettledMoves, Sound(s), PastIsOver(s, e), i \in Attempt,
            <1>2, <1>3, <1>4, <1>6, <1>7, <2>1, <2>2, <2>3, <2>4
<1> QED
  BY <1>2, <1>8 DEF t

(* An attempt whose operation nobody can vouch for needs repair.           *)
LEMMA NeedsRepairAdvances ==
    ASSUME NEW e, NEW s, Sound(s), PastIsOver(s, e),
           NEW i \in Attempt, s.attempt[i] \in Active
    PROVE  LET t == NeedsRepair(s, i) IN
           /\ Advances(s, t, e)
           /\ t.run = "repair_required" /\ t.cancel = s.cancel /\ t.act = s.act
           /\ t.attempt = [s.attempt EXCEPT ![i] = "repair_required"]
<1> DEFINE t == NeedsRepair(s, i)
<1>1. s \in Store /\ s.attempt \in [Attempt -> AttemptStatus]
  BY StoreParts DEF Sound
<1>2. /\ t.run = "repair_required" /\ t.cancel = s.cancel /\ t.act = s.act
      /\ t.attempt = [s.attempt EXCEPT ![i] = "repair_required"]
  BY <1>1, StoreParts DEF NeedsRepair
<1>3. t \in Store
  BY <1>1, StatusKinds DEF Store, NeedsRepair, RunStatus
<1> HIDE DEF t
<1>4. t.act[i[1]] = "running"
  BY <1>2, StatusKinds DEF Sound, UnsettledIsLast
<1>5. t.attempt[i] = "repair_required"
  BY <1>1, <1>2
<1>6. Pinned(t) /\ EndedIsSettled(t)
  BY <1>2, <1>5 DEF Pinned, EndedIsSettled
<1>8. Advances(s, t, e)
  <2>1. "repair_required" \in Unsettled \union Settled /\ s.attempt[i] \in Unsettled
    BY StatusKinds
  <2>2. \A b \in Activation : b # i[1] => t.act[b] = s.act[b]
    BY <1>2
  <2>3. t.act[i[1]] \notin {"pending", "failed"}
    BY <1>4
  <2>4. s.cancel => t.cancel
    BY <1>2
  <2> QED
    BY ONLY UnsettledMoves, Sound(s), PastIsOver(s, e), i \in Attempt,
            <1>2, <1>3, <1>4, <1>6, <2>1, <2>2, <2>3, <2>4
<1> QED
  BY <1>2, <1>8 DEF t

(* An unsettled attempt is settled, and its activation goes where it goes; *)
(* what remains to be shown of the run is about the run.                   *)
LEMMA SettlingMoves ==
    ASSUME NEW e, NEW s, Sound(s), PastIsOver(s, e),
           NEW i \in Attempt, s.attempt[i] \in Unsettled,
           NEW x \in Settled, NEW y \in ActivationStatus, NEW r \in RunStatus,
           NEW t, t = [run |-> r, cancel |-> s.cancel, act |-> [s.act EXCEPT ![i[1]] = y],
                       attempt |-> [s.attempt EXCEPT ![i] = x]],
           y \in {"pending", "failed"} =>
               x = "abandoned" \/ e[i].state \in {"failed", "paused"},
           r = "repair_required" <=>
               \E j \in Attempt : j # i /\ s.attempt[j] = "repair_required",
           r \in {"completed", "cancelled"} =>
               \A j \in Attempt : j # i => s.attempt[j] \notin Unsettled
    PROVE  Advances(s, t, e)
<1>1. /\ s \in Store /\ s.attempt \in [Attempt -> AttemptStatus]
      /\ s.act \in [Activation -> ActivationStatus]
      /\ i[1] \in Activation
  BY StoreParts, AttemptParts DEF Sound
<1>2. t \in Store
  BY <1>1, StatusKinds DEF Store
<1>3. /\ t.run = r /\ t.cancel = s.cancel /\ t.act = [s.act EXCEPT ![i[1]] = y]
      /\ t.attempt = [s.attempt EXCEPT ![i] = x]
  OBVIOUS
<1>4. /\ t.attempt[i] = x
      /\ \A j \in Attempt : j # i => t.attempt[j] = s.attempt[j]
      /\ \A b \in Activation : b # i[1] => t.act[b] = s.act[b]
      /\ t.act[i[1]] = y
  BY <1>1, <1>3
<1>5. x \notin Unsettled /\ x # "repair_required" /\ x \in Unsettled \union Settled
  BY StatusKinds
<1>6. Pinned(t)
  BY <1>3, <1>4, <1>5 DEF Pinned
<1>7. EndedIsSettled(t)
  BY <1>3, <1>4, <1>5 DEF EndedIsSettled, AllSettled
<1>8. x \in Unsettled => t.act[i[1]] = "running"
  BY <1>5
<1>9. t.act[i[1]] \in {"pending", "failed"} =>
          x = "abandoned" \/ e[i].state \in {"failed", "paused"}
  BY <1>4
<1>10. s.cancel => t.cancel
  BY <1>3
<1> QED
  BY ONLY UnsettledMoves, Sound(s), PastIsOver(s, e), i \in Attempt, s.attempt[i] \in Unsettled,
          <1>2, <1>3, <1>4, <1>5, <1>6, <1>7, <1>8, <1>9, <1>10


(* The output of an activation completes the run only when nothing else is *)
(* unfinished.                                                             *)
LEMMA OutputIsLast ==
    ASSUME NEW s, Sound(s), NEW i \in Attempt, s.attempt[i] \in Unsettled,
           \A b \in Activation \ {i[1]} : s.act[b] \notin {"pending", "running"}
    PROVE  \A j \in Attempt : j # i => s.attempt[j] \notin Unsettled
BY AttemptParts, OneAtATime DEF Sound, UnsettledIsLast

(* An active attempt is cancelled, and the run with its last one.          *)
LEMMA CancelledAdvances ==
    ASSUME NEW e, NEW s, Sound(s), PastIsOver(s, e), NEW i \in Attempt, s.attempt[i] \in Active,
           NEW u, u = [run |-> s.run, cancel |-> s.cancel,
                       act |-> [s.act EXCEPT ![i[1]] = "cancelled"],
                       attempt |-> [s.attempt EXCEPT ![i] = "cancelled"]],
           NEW t, t = Finalized(u)
    PROVE  /\ Advances(s, t, e)
           /\ t.cancel = s.cancel
           /\ t.run = "running" => s.run = "running"
           /\ \A j \in Attempt : j # i => t.attempt[j] = s.attempt[j]
<1>1. /\ s.attempt \in [Attempt -> AttemptStatus] /\ s.run \in RunStatus
      /\ s.attempt[i] \in Unsettled
      /\ s.run \notin {"completed", "cancelled"}
      /\ s.run = "repair_required" <=>
             \E j \in Attempt : j # i /\ s.attempt[j] = "repair_required"
  BY StoreParts, StatusKinds DEF Sound, EndedIsSettled, AllSettled, Pinned
<1>2. "cancelled" \in Settled /\ "cancelled" \in ActivationStatus
  BY DEF Settled, ActivationStatus
<1>3. Advances(s, u, e)
  BY ONLY SettlingMoves, Sound(s), PastIsOver(s, e), i \in Attempt, <1>1, <1>2,
          u = [run |-> s.run, cancel |-> s.cancel,
               act |-> [s.act EXCEPT ![i[1]] = "cancelled"],
               attempt |-> [s.attempt EXCEPT ![i] = "cancelled"]]
<1>4. Advances(u, t, e)
  BY <1>3, FinalizedAdvances DEF Advances
<1>5. Advances(s, t, e)
  BY <1>3, <1>4, FinalIsTransitive DEF Advances
<1>6. t.attempt = u.attempt /\ t.cancel = u.cancel /\ (t.run = "running" => u.run = "running")
  BY <1>3, FinalizedSound DEF Advances
<1>7. /\ u.run = s.run /\ u.cancel = s.cancel
      /\ u.attempt = [s.attempt EXCEPT ![i] = "cancelled"]
  OBVIOUS
<1> QED
  BY <1>1, <1>5, <1>6, <1>7

(* What applying an observation to an active attempt comes to, case by     *)
(* case.                                                                   *)
LEMMA AppliedCases ==
    ASSUME NEW s, NEW i, NEW o, s.attempt[i] \in Active,
           NEW t, t = Applied(s, i, o)
    PROVE  /\ Settling(s, o) = "deferred" => t = s
           /\ Settling(s, o) = "running" =>
                t = [s EXCEPT !.attempt[i] = IF s.cancel THEN "cancelling" ELSE "running"]
           /\ Settling(s, o) = "unknown" =>
                t = IF s.cancel /\ ~Mutating(i) THEN s ELSE NeedsRepair(s, i)
           /\ Settling(s, o) = "succeeded" => t = WithOutput([s EXCEPT !.attempt[i] = Settling(s, o)], i[1])
           /\ Settling(s, o) = "failed" =>
                t = [[s EXCEPT !.attempt[i] = Settling(s, o)] EXCEPT !.act[i[1]] = "failed",
                                    !.run = IF s.run = "running" THEN "failed" ELSE s.run]
           /\ Settling(s, o) = "paused" => t = [[s EXCEPT !.attempt[i] = Settling(s, o)] EXCEPT !.act[i[1]] = "pending", !.run = "paused"]
           /\ Settling(s, o) = "cancelled" =>
                t = Finalized([[s EXCEPT !.attempt[i] = Settling(s, o)] EXCEPT !.act = Transition(s.act, i[1], "cancelled")])
<1>1. CASE Settling(s, o) = "deferred"
  BY <1>1, Zenon DEF Applied, ActivationOf
<1>2. CASE Settling(s, o) = "running"
  BY <1>2, Zenon DEF Applied, ActivationOf
<1>3. CASE Settling(s, o) = "unknown"
  BY <1>3, Zenon DEF Applied, ActivationOf
<1>4. CASE Settling(s, o) = "succeeded"
  BY <1>4, Zenon DEF Applied, ActivationOf
<1>5. CASE Settling(s, o) = "failed"
  BY <1>5, Zenon DEF Applied, ActivationOf
<1>6. CASE Settling(s, o) = "paused"
  BY <1>6, Zenon DEF Applied, ActivationOf
<1>7. CASE Settling(s, o) = "cancelled"
  BY <1>7, Zenon DEF Applied, ActivationOf
<1>8. CASE Settling(s, o) \notin {"deferred", "running", "unknown", "succeeded", "failed", "paused",
                 "cancelled"}
  BY <1>8, Zenon
<1> QED
  BY <1>1, <1>2, <1>3, <1>4, <1>5, <1>6, <1>7, <1>8, Zenon

(* apply_attempt_observation, of an attempt and an observation that can be *)
(* applied and is true: what it leaves is sound; it settles no other       *)
(* attempt, and settles this one only on evidence; it sets no run going.   *)
LEMMA AppliedAdvances ==
    ASSUME NEW e, NEW s, Sound(s), PastIsOver(s, e), NEW i \in Attempt,
           NEW o \in Observation, CanApply(s, i, o), IsTrue(o, e[i].state),
           NEW t, t = Applied(s, i, o)
    PROVE  /\ Advances(s, t, e)
           /\ t.cancel = s.cancel
           /\ t.run = "running" => s.run = "running"
           /\ \A j \in Attempt : j # i => t.attempt[j] = s.attempt[j]
           /\ o \in {"running", "deferred"} /\ s.attempt[i] \in Active =>
                  t.attempt[i] \in Active
<1> DEFINE a == i[1]
           as == Settling(s, o)
           settled == [s EXCEPT !.attempt[i] = as]
           Goal == /\ Advances(s, t, e)
                   /\ t.cancel = s.cancel
                   /\ t.run = "running" => s.run = "running"
                   /\ \A j \in Attempt : j # i => t.attempt[j] = s.attempt[j]
                   /\ o \in {"running", "deferred"} /\ s.attempt[i] \in Active =>
                          t.attempt[i] \in Active
<1>1. /\ s \in Store /\ s.attempt \in [Attempt -> AttemptStatus]
      /\ s.act \in [Activation -> ActivationStatus] /\ s.run \in RunStatus
      /\ s = [run |-> s.run, cancel |-> s.cancel, act |-> s.act, attempt |-> s.attempt]
      /\ a \in Activation
  BY StoreParts, AttemptParts DEF Sound
<1>2. t = s => Goal
  <2> SUFFICES ASSUME t = s PROVE Goal
    OBVIOUS
  <2>1. Advances(s, s, e)
    BY DEF Advances, Final
  <2> QED
    BY <2>1
<1>3. CASE s.attempt[i] \notin Active
  BY <1>2, <1>3 DEF Applied
<1>4. CASE s.attempt[i] \in Active
  <2>1. /\ s.attempt[i] \in Unsettled
        /\ s.run \notin {"completed", "cancelled"}
        /\ s.run = "repair_required" <=>
               \E j \in Attempt : j # i /\ s.attempt[j] = "repair_required"
        /\ s.act[a] = "running"
    BY <1>4, StatusKinds DEF Sound, EndedIsSettled, AllSettled, Pinned, UnsettledIsLast
  <2>2. /\ as \in Outcome => o \in Outcome
        /\ as \in {"running", "deferred", "unknown"} => o = as
        /\ o \in {"running", "deferred"} => as = o
        /\ as \in {"succeeded", "failed", "paused"} => o = as
        /\ as \in Outcome \union {"running", "deferred", "unknown"}
    BY DEF Settling, Outcome, Observation
  <2>3. Active \cap Settled = {}
    BY StatusKinds
  <2>4. CASE as = "deferred"
    BY <1>2, <1>4, <2>4, AppliedCases
  <2>5. CASE as = "running"
    <3>1. /\ t = [s EXCEPT !.attempt[i] = IF s.cancel THEN "cancelling" ELSE "running"]
      BY <1>4, <2>5, AppliedCases
    <3>2. PICK x \in Active : t = [s EXCEPT !.attempt[i] = x]
      BY <3>1 DEF Active, InFlight
    <3>3. /\ Advances(s, t, e) /\ t.run = s.run /\ t.cancel = s.cancel
          /\ t.attempt = [s.attempt EXCEPT ![i] = x]
      BY ONLY <3>2, ActiveMoves, Sound(s), PastIsOver(s, e), i \in Attempt, <1>4, x \in Active
    <3> QED
      BY <3>3, <1>1
  <2>6. CASE as = "unknown"
    <3>1. t = IF s.cancel /\ ~Mutating(i) THEN s ELSE NeedsRepair(s, i)
      BY <1>4, <2>6, AppliedCases
    <3>2. CASE t = s
      BY <3>2, <1>2
    <3>3. CASE t = NeedsRepair(s, i)
      <4>1. /\ Advances(s, t, e) /\ t.run = "repair_required" /\ t.cancel = s.cancel
            /\ t.attempt = [s.attempt EXCEPT ![i] = "repair_required"]
        BY ONLY <3>3, NeedsRepairAdvances, Sound(s), PastIsOver(s, e), i \in Attempt, <1>4
      <4>2. o = "unknown"
        BY <2>2, <2>6
      <4> QED
        BY <4>1, <4>2, <1>1
    <3> QED
      BY <3>1, <3>2, <3>3

  <2>7. ASSUME NEW x, NEW r, t.run = r, t.cancel = s.cancel,
               t.attempt = [s.attempt EXCEPT ![i] = x],
               Advances(s, t, e), r = "running" => s.run = "running", as \in Outcome
        PROVE  Goal
    <3>1. o \notin {"running", "deferred"}
      BY <2>7, <2>2 DEF Outcome
    <3> QED
      BY <3>1, <2>7, <1>1
  <2>8. CASE as = "succeeded"
    <3> DEFINE r == IF /\ s.run \in {"running", "paused"}
                       /\ \A b \in Activation \ {a} : s.act[b] \notin {"pending", "running"}
                    THEN "completed" ELSE s.run
    <3>1. t = WithOutput(settled, a)
      BY <1>4, <2>8, AppliedCases
    <3>2. settled = [run |-> s.run, cancel |-> s.cancel, act |-> s.act,
                     attempt |-> [s.attempt EXCEPT ![i] = "succeeded"]]
      BY <1>1, <2>8
    <3>3. t = [run |-> r, cancel |-> s.cancel, act |-> [s.act EXCEPT ![a] = "completed"],
               attempt |-> [s.attempt EXCEPT ![i] = "succeeded"]]
      BY <3>1, <3>2 DEF WithOutput
    <3>4. /\ r = "completed" => \A j \in Attempt : j # i => s.attempt[j] \notin Unsettled
          /\ r \in RunStatus
          /\ r = "repair_required" <=> s.run = "repair_required"
          /\ r = "running" => s.run = "running"
          /\ r # "cancelled"
      BY <1>1, <2>1, OutputIsLast DEF RunStatus
    <3>5. "succeeded" \in Settled /\ "completed" \in ActivationStatus /\ as \in Outcome
      BY <2>8 DEF Settled, ActivationStatus, Outcome
    <3> HIDE DEF r, as
    <3>7. Advances(s, t, e)
      BY ONLY SettlingMoves, Sound(s), PastIsOver(s, e), i \in Attempt, <2>1,
              <3>3, <3>4, <3>5
    <3>8. t.run = r /\ t.cancel = s.cancel /\ t.attempt = [s.attempt EXCEPT ![i] = "succeeded"]
      BY <3>3
    <3> QED
      BY <2>7, <3>4, <3>5, <3>7, <3>8
  <2>9. CASE as = "failed"
    <3> DEFINE r == IF s.run = "running" THEN "failed" ELSE s.run
    <3>1. t = [settled EXCEPT !.act[a] = "failed", !.run = r]
      BY <1>4, <2>9, AppliedCases
    <3>2. settled = [run |-> s.run, cancel |-> s.cancel, act |-> s.act,
                     attempt |-> [s.attempt EXCEPT ![i] = "failed"]]
      BY <1>1, <2>9
    <3>3. t = [run |-> r, cancel |-> s.cancel, act |-> [s.act EXCEPT ![a] = "failed"],
               attempt |-> [s.attempt EXCEPT ![i] = "failed"]]
      BY <3>1, <3>2
    <3>4. /\ r # "completed" /\ r # "cancelled" /\ r # "running"
          /\ r \in RunStatus
          /\ r = "repair_required" <=> s.run = "repair_required"
      BY <1>1, <2>1 DEF RunStatus
    <3>5. "failed" \in Settled /\ "failed" \in ActivationStatus /\ as \in Outcome
      BY <2>9 DEF Settled, ActivationStatus, Outcome
    <3>6. e[i].state = "failed"
      BY <2>2, <2>9, <3>5 DEF IsTrue
    <3> HIDE DEF r, as
    <3>7. Advances(s, t, e)
      BY ONLY SettlingMoves, Sound(s), PastIsOver(s, e), i \in Attempt, <2>1,
              <3>3, <3>4, <3>5, <3>6
    <3>8. t.run = r /\ t.cancel = s.cancel /\ t.attempt = [s.attempt EXCEPT ![i] = "failed"]
      BY <3>3
    <3> QED
      BY <2>7, <3>4, <3>5, <3>7, <3>8
  <2>10. CASE as = "paused"
    <3>1. t = [settled EXCEPT !.act[a] = "pending", !.run = "paused"]
      BY <1>4, <2>10, AppliedCases
    <3>2. settled = [run |-> s.run, cancel |-> s.cancel, act |-> s.act,
                     attempt |-> [s.attempt EXCEPT ![i] = "paused"]]
      BY <1>1, <2>10
    <3>3. t = [run |-> "paused", cancel |-> s.cancel, act |-> [s.act EXCEPT ![a] = "pending"],
               attempt |-> [s.attempt EXCEPT ![i] = "paused"]]
      BY <3>1, <3>2
    <3>4. s.run = "running"
      <4>1. o = "paused" /\ s.attempt[i] \notin {"succeeded", "failed", "paused", "cancelled",
                                                  "repair_required"}
        BY <1>4, <2>2, <2>10 DEF Active, InFlight
      <4> QED
        BY <4>1, <2>10 DEF CanApply
    <3>5. "paused" \in Settled /\ "pending" \in ActivationStatus /\ as \in Outcome
          /\ "paused" \in RunStatus
      BY <2>10 DEF Settled, ActivationStatus, Outcome, RunStatus
    <3>6. e[i].state = "paused"
      BY <2>2, <2>10, <3>5 DEF IsTrue
    <3> HIDE DEF as
    <3>7. Advances(s, t, e)
      BY ONLY SettlingMoves, Sound(s), PastIsOver(s, e), i \in Attempt, <2>1,
              <3>3, <3>4, <3>5, <3>6
    <3>8. t.run = "paused" /\ t.cancel = s.cancel /\ t.attempt = [s.attempt EXCEPT ![i] = "paused"]
      BY <3>3
    <3> QED
      BY <2>7, <3>4, <3>5, <3>7, <3>8
  <2>11. CASE as = "cancelled"
    <3> DEFINE u == [settled EXCEPT !.act = Transition(s.act, a, "cancelled")]
    <3>1. t = Finalized(u)
      BY <1>4, <2>11, AppliedCases
    <3>2. settled = [run |-> s.run, cancel |-> s.cancel, act |-> s.act,
                     attempt |-> [s.attempt EXCEPT ![i] = "cancelled"]]
      BY <1>1, <2>11
    <3>3. u = [run |-> s.run, cancel |-> s.cancel, act |-> [s.act EXCEPT ![a] = "cancelled"],
               attempt |-> [s.attempt EXCEPT ![i] = "cancelled"]]
      <4>1. Transition(s.act, a, "cancelled") = [s.act EXCEPT ![a] = "cancelled"]
        BY <2>1 DEF Transition
      <4> HIDE DEF settled
      <4> QED
        BY <4>1, <3>2
    <3> HIDE DEF u
    <3>4. o \notin {"running", "deferred"}
      BY <2>2, <2>11 DEF Outcome
    <3> QED
      BY ONLY CancelledAdvances, Sound(s), PastIsOver(s, e), i \in Attempt, <1>4, <3>1, <3>3, <3>4
  <2> QED
    BY <2>2, <2>4, <2>5, <2>6, <2>8, <2>9, <2>10, <2>11 DEF Outcome
<1> QED
  BY <1>3, <1>4


(* A receipt makes an attempt that was prepared an admitted one.           *)
LEMMA AttachedAdvances ==
    ASSUME NEW e, NEW s, Sound(s), PastIsOver(s, e), NEW i \in Attempt,
           NEW t, t = Attached(s, i)
    PROVE  /\ Advances(s, t, e)
           /\ t.cancel = s.cancel /\ t.run = s.run /\ t.act = s.act
           /\ \A j \in Attempt : j # i => t.attempt[j] = s.attempt[j]
           /\ s.attempt[i] \in Active => t.attempt[i] \in Active
<1>1. CASE s.attempt[i] # "prepared"
  <2>1. Advances(s, s, e)
    BY DEF Advances, Final
  <2>2. t = s
    BY <1>1 DEF Attached
  <2> QED
    BY <2>1, <2>2
<1>2. CASE s.attempt[i] = "prepared"
  <2>1. t = [s EXCEPT !.attempt[i] = "admitted"]
    BY <1>2 DEF Attached
  <2>2. s.attempt[i] \in Active /\ "admitted" \in Active
    BY <1>2 DEF Active, InFlight
  <2>3. /\ Advances(s, t, e) /\ t.run = s.run /\ t.cancel = s.cancel /\ t.act = s.act
        /\ t.attempt = [s.attempt EXCEPT ![i] = "admitted"]
    BY ONLY <2>1, <2>2, ActiveMoves, Sound(s), PastIsOver(s, e), i \in Attempt
  <2>4. s.attempt \in [Attempt -> AttemptStatus]
    BY StoreParts DEF Sound
  <2> QED
    BY <2>2, <2>3, <2>4
<1> QED
  BY <1>1, <1>2

(* repair_attempt writes the run's status after the attempt's: whatever    *)
(* the first part made of the run, it ends where the other attempts and    *)
(* the barrier allow.                                                      *)
LEMMA RepairedAdvances ==
    ASSUME NEW e, NEW s, Sound(s), PastIsOver(s, e),
           NEW i \in Attempt, s.attempt[i] = "repair_required",
           NEW x \in Settled, NEW y \in ActivationStatus, NEW q, NEW u,
           u = [run |-> q, cancel |-> s.cancel, act |-> [s.act EXCEPT ![i[1]] = y],
                attempt |-> [s.attempt EXCEPT ![i] = x]],
           y \in {"pending", "failed"} => x = "abandoned",
           NEW abandoned \in BOOLEAN, NEW t, t = Repaired(u, abandoned)
    PROVE  /\ Advances(s, t, e)
           /\ t.run = "running" => barrier = NoBarrier
           /\ t.attempt = [s.attempt EXCEPT ![i] = x]
<1> DEFINE r == IF \E j \in Attempt : u.attempt[j] = "repair_required"
                THEN "repair_required"
                ELSE IF abandoned /\ barrier = NoBarrier THEN "running" ELSE "paused"
<1>1. /\ s.attempt \in [Attempt -> AttemptStatus]
      /\ s.attempt[i] \in Unsettled
      /\ x # "repair_required"
  BY StoreParts, StatusKinds DEF Sound
<1>2. t = [run |-> r, cancel |-> s.cancel, act |-> [s.act EXCEPT ![i[1]] = y],
           attempt |-> [s.attempt EXCEPT ![i] = x]]
  BY DEF Repaired
<1>3. u.attempt = [s.attempt EXCEPT ![i] = x]
  OBVIOUS
<1>4. (\E j \in Attempt : u.attempt[j] = "repair_required") <=>
      (\E j \in Attempt : j # i /\ s.attempt[j] = "repair_required")
  BY <1>1, <1>3
<1>5. /\ r \in RunStatus
      /\ r = "repair_required" <=>
             \E j \in Attempt : j # i /\ s.attempt[j] = "repair_required"
      /\ r \notin {"completed", "cancelled"}
      /\ r = "running" => barrier = NoBarrier
  BY <1>4 DEF RunStatus
<1> HIDE DEF r
<1>6. Advances(s, t, e)
  BY ONLY SettlingMoves, Sound(s), PastIsOver(s, e), i \in Attempt, x \in Settled,
          y \in ActivationStatus, y \in {"pending", "failed"} => x = "abandoned",
          <1>1, <1>2, <1>5
<1> QED
  BY <1>2, <1>5, <1>6

(* A failed node is put back to wait for another attempt.                  *)
LEMMA RetriedAdvances ==
    ASSUME NEW e, NEW s, Sound(s), PastIsOver(s, e), NEW a \in Activation,
           s.run = "failed", s.act[a] = "failed",
           NEW t, t = [run |-> "running", cancel |-> s.cancel,
                       act |-> [s.act EXCEPT ![a] = "pending"], attempt |-> s.attempt]
    PROVE  /\ Advances(s, t, e)
           /\ t.attempt = s.attempt /\ t.cancel = s.cancel
<1>1. /\ s \in Store /\ s.attempt \in [Attempt -> AttemptStatus]
      /\ s.act \in [Activation -> ActivationStatus]
  BY StoreParts DEF Sound
<1>2. /\ t.run = "running" /\ t.cancel = s.cancel /\ t.attempt = s.attempt
      /\ t.act = [s.act EXCEPT ![a] = "pending"]
  BY <1>1, StoreParts
<1>3. t \in Store
  BY <1>1 DEF Store, RunStatus, ActivationStatus
<1>4. /\ t.act[a] = "pending"
      /\ \A b \in Activation : b # a => t.act[b] = s.act[b]
  BY <1>1, <1>2
<1>5. NoGaps(t) /\ EndedIsSettled(t) /\ Pinned(t)
  BY <1>2 DEF Sound, NoGaps, EndedIsSettled, Pinned
<1>6. UnsettledIsLast(t)
  BY <1>2, <1>4, AttemptParts DEF Sound, UnsettledIsLast
<1>7. PastIsOver(t, e)
  <2>1. \A i \in Attempt : Past(t, i) => Past(s, i)
    BY <1>2, <1>4, AttemptParts DEF Past
  <2> QED
    BY <2>1, <1>2 DEF PastIsOver
<1>8. Final(s, t)
  BY <1>2 DEF Final
<1> QED
  BY <1>2, <1>3, <1>5, <1>6, <1>7, <1>8 DEF Advances, Sound


(* The next attempt of a waiting activation is prepared.                   *)
LEMMA PreparedAdvances ==
    ASSUME NEW e, NEW s, Sound(s), PastIsOver(s, e), NEW i \in Attempt,
           s.act[i[1]] = "pending", s.run = "running", s.attempt[i] = "none",
           i[2] > 1 => s.attempt[<<i[1], i[2] - 1>>] # "none",
           NEW t, t = [run |-> s.run, cancel |-> s.cancel,
                       act |-> [s.act EXCEPT ![i[1]] = "running"],
                       attempt |-> [s.attempt EXCEPT ![i] = "prepared"]]
    PROVE  /\ Advances(s, t, e)
           /\ t.run = s.run
           /\ \A j \in Attempt : j # i => t.attempt[j] = s.attempt[j]
<1>1. /\ s \in Store /\ s.attempt \in [Attempt -> AttemptStatus]
      /\ s.act \in [Activation -> ActivationStatus] /\ i[1] \in Activation
  BY StoreParts, AttemptParts DEF Sound
<1>2. /\ t.run = "running" /\ t.cancel = s.cancel
      /\ t.attempt = [s.attempt EXCEPT ![i] = "prepared"]
      /\ t.act = [s.act EXCEPT ![i[1]] = "running"]
  BY <1>1, StoreParts
<1>3. t \in Store
  BY <1>1 DEF Store, ActivationStatus, AttemptStatus, Unsettled, Active
<1>4. /\ t.act[i[1]] = "running" /\ t.attempt[i] = "prepared"
      /\ \A b \in Activation : b # i[1] => t.act[b] = s.act[b]
      /\ \A j \in Attempt : j # i => t.attempt[j] = s.attempt[j]
  BY <1>1, <1>2
(* Every earlier attempt exists, and every later one does not. *)
<1>5. \A j \in Attempt : i[1] = j[1] /\ i[2] < j[2] => s.attempt[j] = "none"
  BY DEF Sound, NoGaps
<1>6. \A j \in Attempt : j[1] = i[1] /\ j[2] < i[2] => s.attempt[j] # "none"
  <2> SUFFICES ASSUME NEW j \in Attempt, j[1] = i[1], j[2] < i[2]
               PROVE  s.attempt[j] # "none"
    OBVIOUS
  <2> DEFINE k == <<i[1], i[2] - 1>>
  <2>1. i[2] \in Nat /\ j[2] \in Nat /\ j[2] >= 1 /\ i[2] <= RetryCap + 1
    BY AttemptParts
  <2>2. i[2] > 1 /\ i[2] - 1 \in 1 .. RetryCap + 1
    BY <2>1, WorkflowConstants
  <2>3. k \in Attempt /\ k[1] = i[1] /\ k[2] = i[2] - 1
    BY <2>2, <1>1, AttemptParts
  <2>4. s.attempt[k] # "none"
    BY <2>2
  <2> HIDE DEF k
  <2>5. CASE j[2] = k[2]
    BY <2>3, <2>4, <2>5, AttemptParts
  <2>6. CASE j[2] < k[2]
    BY <2>3, <2>4, <2>6 DEF Sound, NoGaps
  <2> QED
    BY <2>1, <2>3, <2>5, <2>6
<1>7. NoGaps(t)
  <2> SUFFICES ASSUME NEW j \in Attempt, NEW k \in Attempt, j[1] = k[1], j[2] < k[2],
                      t.attempt[k] # "none"
               PROVE  t.attempt[j] # "none"
    BY DEF NoGaps
  <2>1. CASE k = i
    <3>1. j # i
      BY <2>1, AttemptParts
    <3> QED
      BY <2>1, <3>1, <1>4, <1>6
  <2>2. CASE k # i
    BY <2>2, <1>4 DEF Sound, NoGaps
  <2> QED
    BY <2>1, <2>2
<1>8. UnsettledIsLast(t)
  <2> SUFFICES ASSUME NEW j \in Attempt, t.attempt[j] \in Unsettled
               PROVE  /\ t.act[j[1]] = "running"
                      /\ \A k \in Attempt : j[1] = k[1] /\ j[2] < k[2] => t.attempt[k] = "none"
    BY DEF UnsettledIsLast
  <2>1. CASE j = i
    <3>1. \A k \in Attempt : i[2] < k[2] => k # i
      BY AttemptParts
    <3> QED
      BY <2>1, <3>1, <1>4, <1>5
  <2>2. CASE j # i
    <3>1. s.attempt[j] \in Unsettled /\ s.act[j[1]] = "running"
      BY <2>2, <1>4 DEF Sound, UnsettledIsLast
    <3>2. j[1] # i[1]
      BY <3>1
    <3> QED
      BY <3>1, <3>2, <1>4, AttemptParts DEF Sound, UnsettledIsLast
  <2> QED
    BY <2>1, <2>2
<1>9. Pinned(t) /\ EndedIsSettled(t)
  BY <1>2, <1>4 DEF Sound, Pinned, EndedIsSettled
<1>10. PastIsOver(t, e)
  <2> SUFFICES ASSUME NEW j \in Attempt, Past(t, j)
               PROVE  t.attempt[j] = "abandoned" \/ e[j].state \in {"failed", "paused"}
    BY DEF PastIsOver
  <2>1. j # i
    <3>1. \A k \in Attempt : i[2] < k[2] => k # i
      BY AttemptParts
    <3> QED
      BY <3>1, <1>4, <1>5 DEF Past
  <2>2. Past(s, j)
    <3>1. CASE j[1] = i[1]
      BY <3>1, <2>1, <1>4 DEF Past
    <3>2. CASE j[1] # i[1]
      BY <3>2, <2>1, <1>4, AttemptParts DEF Past
    <3> QED
      BY <3>1, <3>2
  <2> QED
    BY <2>1, <2>2, <1>4 DEF PastIsOver
<1>11. Final(s, t)
  BY <1>2, <1>4, StatusKinds DEF Final
<1> QED
  BY <1>2, <1>3, <1>4, <1>7, <1>8, <1>9, <1>10, <1>11 DEF Advances, Sound

-----------------------------------------------------------------------------
(* What a step does to the store. *)

(* A task by its step.                                                     *)
LEMMA TaskParts ==
    ASSUME NEW t \in Task
    PROVE  /\ t.step = "idle" <=> t = Idle
           /\ t.step \in {"idle", "prepared", "handed", "checked", "registered", "accepted",
                          "examined", "observed"}
           /\ t # Idle => t.id \in Attempt /\ t.generation \in 1 .. MaxGeneration
           /\ t.step = "observed" =>
                 t.also \in Attempt /\ t.obs \in Observation /\ t.alsoObs \in Observation
BY DEF Task, Idle

LEMMA TypeParts ==
    ASSUME TypeOK
    PROVE  /\ \A d \in Daemon : task[d] \in Task
           /\ \A i \in Attempt : exec[i] \in Execution
           /\ \A c \in completion : c \in Completion /\ c.id \in Attempt /\ c.host \in Daemon
BY DEF TypeOK, Completion

(* Attempts the store has to keep active: their operation runs and nobody  *)
(* asked for an end, or they are being admitted.                           *)
Protected(i) ==
    /\ world.sound /\ i \in handed
    /\ \/ exec[i].state = "live" /\ ~db.cancel
       \/ i \notin receipt /\ \E d \in up : task[d].step \in Admission /\ task[d].id = i

StoreStep ==
    /\ Advances(db, db', exec)
    /\ BarredRunIsStopped'
    /\ \A i \in Attempt : Protected(i) /\ db.attempt[i] \in Active => db'.attempt[i] \in Active

(* The owner of the run is the only one that may be admitting.             *)
LEMMA OwnerAlone ==
    ASSUME WorkflowInv, world.sound, NEW d \in Daemon, auth.daemon = d,
           task[d].step \notin Admission,
           NEW f \in up, task[f].step \in Admission
    PROVE  FALSE
<1>1. f \in Daemon /\ task[f] \in Task
  BY TypeParts DEF WorkflowInv, TypeOK
<1>2. task[f] # Idle
  BY DEF Idle, Admission
<1>3. Verified(f, task[f].generation)
  BY <1>1, <1>2 DEF WorkflowInv, Undisturbed, TaskIsOwners
<1> QED
  BY <1>3 DEF Verified

(* A step that leaves the store alone.                                     *)
LEMMA StoreUntouched ==
    ASSUME WorkflowInv, db' = db, barrier' = barrier
    PROVE  StoreStep
<1>1. Advances(db, db', exec)
  BY DEF WorkflowInv, Advances, Final
<1> QED
  BY <1>1 DEF StoreStep, WorkflowInv, BarredRunIsStopped

(* A step that changes attempt i only, and starts no run.                  *)
LEMMA StoreTouched ==
    ASSUME WorkflowInv, barrier' = barrier, NEW i \in Attempt,
           Advances(db, db', exec),
           db'.run = "running" => db.run = "running" \/ barrier = NoBarrier,
           \A j \in Attempt : j # i => db'.attempt[j] = db.attempt[j],
           Protected(i) /\ db.attempt[i] \in Active => db'.attempt[i] \in Active
    PROVE  StoreStep
<1>1. BarredRunIsStopped'
  BY DEF WorkflowInv, BarredRunIsStopped
<1> QED
  BY <1>1 DEF StoreStep

LEMMA PrepareStore ==
    ASSUME WorkflowInv, NEW d \in Daemon, NEW i \in Attempt, Prepare(d, i)
    PROVE  StoreStep
<1> USE DEF Prepare, ownership
<1>1. Sound(db) /\ PastIsOver(db, exec)
  BY DEF WorkflowInv
<1>2. /\ db.act[i[1]] = "pending" /\ db.run = "running" /\ db.attempt[i] = "none"
      /\ i[2] > 1 => db.attempt[<<i[1], i[2] - 1>>] # "none"
      /\ barrier' = barrier
  BY DEF NextAttempt, ActivationOf
<1>5. db' = [run |-> db.run, cancel |-> db.cancel, act |-> [db.act EXCEPT ![i[1]] = "running"],
             attempt |-> [db.attempt EXCEPT ![i] = "prepared"]]
  <2>1. db' = [db EXCEPT !.act[i[1]] = "running", !.attempt[i] = "prepared"]
    BY DEF ActivationOf
  <2>2. PICK p, q, g, h : db = [run |-> p, cancel |-> q, act |-> g, attempt |-> h]
    BY <1>1, StoreRecord DEF Sound
  <2>3. DOMAIN db' = {"run", "cancel", "act", "attempt"}
    BY ONLY <2>1, <2>2
  <2> QED
    BY ONLY <2>1, <2>2, <2>3
<1>3. /\ Advances(db, db', exec) /\ db'.run = db.run
      /\ \A j \in Attempt : j # i => db'.attempt[j] = db.attempt[j]
  BY ONLY <1>1, <1>2, <1>5, i \in Attempt, PreparedAdvances
<1>4. db.attempt[i] \notin Active
  BY <1>2, StatusKinds
<1> QED
  BY <1>2, <1>3, <1>4, StoreTouched

LEMMA PersistReceiptStore ==
    ASSUME WorkflowInv, NEW d \in Daemon, PersistReceipt(d)
    PROVE  StoreStep
<1> DEFINE i == task[d].id
<1>1. Sound(db) /\ PastIsOver(db, exec) /\ barrier' = barrier
  BY DEF WorkflowInv, PersistReceipt, ownership
<1>2. i \in Attempt
  BY TypeParts, TaskParts DEF WorkflowInv, PersistReceipt, At, Idle
<1>3. CASE db' = db
  BY <1>1, <1>3, StoreUntouched
<1>4. CASE db' = Attached(db, i)
  <2>1. /\ Advances(db, db', exec) /\ db'.run = db.run
        /\ \A j \in Attempt : j # i => db'.attempt[j] = db.attempt[j]
        /\ db.attempt[i] \in Active => db'.attempt[i] \in Active
    BY ONLY <1>1, <1>2, <1>4, AttachedAdvances
  <2> HIDE DEF i
  <2> QED
    BY <1>1, <1>2, <2>1, StoreTouched
<1> QED
  BY <1>3, <1>4 DEF PersistReceipt


(* What is observed is true, and a running operation is not taken to have  *)
(* ended.                                                                  *)
LEMMA ObservedTrue ==
    ASSUME NEW d, NEW i \in Attempt, NEW o \in Observed(d, i)
    PROVE  /\ o \in Observation
           /\ IsTrue(o, exec[i].state)
           /\ exec[i].state = "live" => o \in {"running", "deferred"}
<1> DEFINE state == exec[i].state
<1>1. CASE state \in Outcome
  <2>1. state # "lost" /\ state # "live"
    BY <1>1 DEF Outcome
  <2>2. Observed(d, i) = {state, "deferred"}
    BY <1>1, <2>1, Zenon DEF Observed
  <2> QED
    BY <1>1, <2>1, <2>2 DEF Observation, Outcome, IsTrue
<1>2. CASE state = "lost"
  <2>1. state \notin Outcome /\ state # "live"
    BY <1>2 DEF Outcome
  <2>2. Observed(d, i) = {"unknown", "deferred"}
    BY <1>2, <2>1, Zenon DEF Observed
  <2> QED
    BY <1>2, <2>1, <2>2 DEF Observation, Outcome, IsTrue
<1>3. CASE state = "live" /\ exec[i].host = d
  <2>1. state \notin Outcome /\ state # "lost"
    BY <1>3 DEF Outcome
  <2>2. Observed(d, i) = {"running", "deferred"}
    BY <1>3, <2>1, Zenon DEF Observed
  <2> QED
    BY <2>2 DEF Observation, Outcome, IsTrue
<1>4. CASE state \notin Outcome /\ state # "lost" /\ ~(state = "live" /\ exec[i].host = d)
  <2>2. Observed(d, i) = {"deferred"}
    BY <1>4, Zenon DEF Observed
  <2> QED
    BY <2>2 DEF Observation, Outcome, IsTrue
<1> QED
  BY <1>1, <1>2, <1>3, <1>4

(* A receipt is attached, and a true observation applied when it can be.   *)
LEMMA AttachedThenApplied ==
    ASSUME NEW e, NEW s, Sound(s), PastIsOver(s, e), NEW i \in Attempt,
           NEW o \in Observation, IsTrue(o, e[i].state), NEW v, v = Attached(s, i),
           NEW t, t = v \/ (CanApply(v, i, o) /\ t = Applied(v, i, o))
    PROVE  /\ Advances(s, t, e)
           /\ t.run = "running" => s.run = "running"
           /\ \A j \in Attempt : j # i => t.attempt[j] = s.attempt[j]
           /\ o \in {"running", "deferred"} /\ s.attempt[i] \in Active => t.attempt[i] \in Active
<1>1. /\ Advances(s, v, e)
      /\ v.run = s.run
      /\ \A j \in Attempt : j # i => v.attempt[j] = s.attempt[j]
      /\ s.attempt[i] \in Active => v.attempt[i] \in Active
  BY AttachedAdvances
<1>2. CASE t = v
  BY <1>1, <1>2
<1>3. CASE CanApply(v, i, o) /\ t = Applied(v, i, o)
  <2>1. Sound(v) /\ PastIsOver(v, e)
    BY <1>1 DEF Advances
  <2>2. /\ Advances(v, t, e)
        /\ t.run = "running" => v.run = "running"
        /\ \A j \in Attempt : j # i => t.attempt[j] = v.attempt[j]
        /\ o \in {"running", "deferred"} /\ v.attempt[i] \in Active => t.attempt[i] \in Active
    BY ONLY <1>3, <2>1, AppliedAdvances, i \in Attempt, o \in Observation,
            IsTrue(o, e[i].state)
  <2>3. Advances(s, t, e)
    BY <1>1, <2>2, FinalIsTransitive DEF Advances
  <2> QED
    BY <1>1, <2>2, <2>3
<1> QED
  BY <1>2, <1>3

LEMMA CompleteStore ==
    ASSUME WorkflowInv, NEW d \in Daemon, NEW c \in completion, Complete(d, c)
    PROVE  StoreStep
<1> DEFINE i == c.id
           o == exec[i].state
           v == Attached(db, i)
           ok == o # "paused" /\ Verified(d, c.generation) /\ CanAttach(i)
<1>1. Sound(db) /\ PastIsOver(db, exec) /\ barrier' = barrier
  BY DEF WorkflowInv, Complete, ownership
<1>2. i \in Attempt /\ task[d].step = "idle" /\ o \in Outcome
  BY TypeParts DEF WorkflowInv, Complete, At
<1>3. o \in Observation /\ IsTrue(o, o) /\ o # "live"
  BY <1>2 DEF Observation, IsTrue, Outcome
<1>4. db' = IF ~ok THEN db ELSE IF CanApply(v, i, o) THEN Applied(v, i, o) ELSE v
  BY DEF Complete
<1>5. CASE ~ok
  BY <1>1, <1>4, <1>5, StoreUntouched
<1>6. CASE ok
  <2>1. db' = v \/ (CanApply(v, i, o) /\ db' = Applied(v, i, o))
    BY <1>4, <1>6
  <2>2. /\ Advances(db, db', exec) /\ (db'.run = "running" => db.run = "running")
        /\ \A j \in Attempt : j # i => db'.attempt[j] = db.attempt[j]
    BY ONLY <1>1, <1>2, <1>3, <2>1, AttachedThenApplied
  <2>3. ~Protected(i)
    <3>1. auth.daemon = d /\ task[d].step \notin Admission
      BY <1>2, <1>6 DEF Verified, Admission
    <3> QED
      BY <3>1, <1>3, OwnerAlone DEF Protected
  <2> HIDE DEF i
  <2> QED
    BY <1>1, <1>2, <2>2, <2>3, StoreTouched
<1> QED
  BY <1>5, <1>6

LEMMA RecoverReceiptStore ==
    ASSUME WorkflowInv, NEW d \in Daemon, NEW i \in Attempt, RecoverReceipt(d, i)
    PROVE  StoreStep
<1> DEFINE v == Attached(db, i)
<1>1. Sound(db) /\ PastIsOver(db, exec) /\ barrier' = barrier
  BY DEF WorkflowInv, RecoverReceipt, ownership
<1>2. PICK o \in Observed(d, i) :
        db' = IF o \notin {"running", "deferred"} /\ CanApply(v, i, o)
              THEN Applied(v, i, o) ELSE v
  BY DEF RecoverReceipt
<1>3. /\ o \in Observation /\ IsTrue(o, exec[i].state)
      /\ exec[i].state = "live" => o \in {"running", "deferred"}
  BY ObservedTrue
<1>4. db' = v \/ (CanApply(v, i, o) /\ db' = Applied(v, i, o))
  BY <1>2
<1>5. /\ Advances(db, db', exec) /\ (db'.run = "running" => db.run = "running")
      /\ \A j \in Attempt : j # i => db'.attempt[j] = db.attempt[j]
      /\ o \in {"running", "deferred"} /\ db.attempt[i] \in Active => db'.attempt[i] \in Active
  BY ONLY <1>1, <1>3, <1>4, AttachedThenApplied, i \in Attempt
<1>6. Protected(i) => exec[i].state = "live"
  <2>1. auth.daemon = d /\ task[d].step \notin Admission
    BY DEF RecoverReceipt, Holds, At, Admission
  <2> QED
    BY <2>1, OwnerAlone DEF Protected
<1> QED
  BY <1>1, <1>3, <1>5, <1>6, StoreTouched


LEMMA ClassifyStore ==
    ASSUME WorkflowInv, NEW d \in Daemon, Classify(d)
    PROVE  StoreStep
<1> DEFINE i == task[d].id
           found == Verified(d, task[d].generation) /\ db.attempt[i] = "prepared" /\ i \notin receipt
<1>1. Sound(db) /\ PastIsOver(db, exec) /\ barrier' = barrier
  BY DEF WorkflowInv, Classify, ownership
<1>2. i \in Attempt /\ task[d].step = "examined"
  BY TypeParts, TaskParts DEF WorkflowInv, Classify, At, Idle
<1>3. db' = IF found /\ Mutating(i) THEN NeedsRepair(db, i) ELSE db
  BY DEF Classify
<1>4. CASE db' = db
  BY <1>1, <1>4, StoreUntouched
<1>5. CASE found /\ db' = NeedsRepair(db, i)
  <2>1. db.attempt[i] \in Active
    BY <1>5 DEF Active
  <2>2. /\ Advances(db, db', exec) /\ db'.run = "repair_required"
        /\ db'.attempt = [db.attempt EXCEPT ![i] = "repair_required"]
    BY ONLY <1>1, <1>2, <1>5, <2>1, NeedsRepairAdvances
  <2>3. db.attempt \in [Attempt -> AttemptStatus]
    BY <1>1, StoreParts DEF Sound
  <2>4. ~Protected(i)
    <3>1. auth.daemon = d /\ task[d].step \notin Admission
      BY <1>2, <1>5 DEF Verified, Admission
    <3>2. world.sound => exec[i].state = "none"
      BY <1>2 DEF WorkflowInv, Undisturbed, ExaminedIsFresh
    <3> QED
      BY <3>1, <3>2, OwnerAlone DEF Protected
  <2> HIDE DEF i
  <2> QED
    BY <1>1, <1>2, <2>2, <2>3, <2>4, StoreTouched
<1> QED
  BY <1>3, <1>4, <1>5

(* A page of true observations that can be applied.                        *)
LEMMA PageAdvances ==
    ASSUME NEW e, NEW s, Sound(s), PastIsOver(s, e), NEW p \in Task, p.step = "observed",
           IsTrue(p.obs, e[p.id].state), IsTrue(p.alsoObs, e[p.also].state),
           PageApplies(s, p), NEW t, t = AfterPage(s, p)
    PROVE  /\ Advances(s, t, e)
           /\ t.run = "running" => s.run = "running"
           /\ \A j \in Attempt :
                 s.attempt[j] \in Active /\ e[j].state = "live" => t.attempt[j] \in Active
<1> DEFINE i == p.id
           k == p.also
           v == Applied(s, i, p.obs)
<1>1. i \in Attempt /\ k \in Attempt /\ p.obs \in Observation /\ p.alsoObs \in Observation
  BY TaskParts DEF Idle
<1>2. CanApply(s, i, p.obs) /\ (i # k => CanApply(v, k, p.alsoObs))
  BY DEF PageApplies
<1>3. /\ e[i].state = "live" => p.obs \in {"running", "deferred"}
      /\ e[k].state = "live" => p.alsoObs \in {"running", "deferred"}
  BY <1>1 DEF Observation, IsTrue, Outcome
<1>4. /\ Advances(s, v, e)
      /\ v.run = "running" => s.run = "running"
      /\ \A j \in Attempt : j # i => v.attempt[j] = s.attempt[j]
      /\ p.obs \in {"running", "deferred"} /\ s.attempt[i] \in Active => v.attempt[i] \in Active
  BY ONLY <1>1, <1>2, AppliedAdvances, Sound(s), PastIsOver(s, e), IsTrue(p.obs, e[p.id].state)
<1>5. t = IF i = k THEN v ELSE Applied(v, k, p.alsoObs)
  BY DEF AfterPage
<1> HIDE DEF v
<1>6. CASE i = k
  BY <1>3, <1>4, <1>5, <1>6
<1>7. CASE i # k
  <2>1. Sound(v) /\ PastIsOver(v, e)
    BY <1>4 DEF Advances
  <2>2. /\ Advances(v, t, e)
        /\ t.run = "running" => v.run = "running"
        /\ \A j \in Attempt : j # k => t.attempt[j] = v.attempt[j]
        /\ p.alsoObs \in {"running", "deferred"} /\ v.attempt[k] \in Active =>
               t.attempt[k] \in Active
    BY ONLY <1>1, <1>2, <1>5, <1>7, <2>1, AppliedAdvances, IsTrue(p.alsoObs, e[p.also].state)
  <2>3. Advances(s, t, e)
    BY <1>4, <2>2, FinalIsTransitive DEF Advances
  <2> HIDE DEF i, k
  <2>4. ASSUME NEW j \in Attempt, s.attempt[j] \in Active, e[j].state = "live"
        PROVE  t.attempt[j] \in Active
    <3>1. v.attempt[j] \in Active
      BY <1>3, <1>4, <2>4
    <3> QED
      BY <1>3, <2>2, <2>4, <3>1
  <2> QED
    BY <1>4, <2>2, <2>3, <2>4
<1> QED
  BY <1>6, <1>7

LEMMA ReconcileStore ==
    ASSUME WorkflowInv, NEW d \in Daemon, Reconcile(d)
    PROVE  StoreStep
<1>1. Sound(db) /\ PastIsOver(db, exec) /\ barrier' = barrier
  BY DEF WorkflowInv, Reconcile, ownership
<1>2. task[d] \in Task /\ task[d].step = "observed"
  BY TypeParts DEF WorkflowInv, Reconcile, At
<1>3. /\ IsTrue(task[d].obs, exec[task[d].id].state)
      /\ IsTrue(task[d].alsoObs, exec[task[d].also].state)
  BY <1>2 DEF WorkflowInv, ObservedIsTrue
<1>4. CASE db' = db
  BY <1>1, <1>4, StoreUntouched
<1>5. CASE /\ Verified(d, task[d].generation) /\ PageApplies(db, task[d])
           /\ db' = AfterPage(db, task[d])
  <2>1. /\ Advances(db, db', exec)
        /\ db'.run = "running" => db.run = "running"
        /\ \A j \in Attempt :
              db.attempt[j] \in Active /\ exec[j].state = "live" => db'.attempt[j] \in Active
    BY ONLY <1>1, <1>2, <1>3, <1>5, PageAdvances
  <2>2. \A j \in Attempt : Protected(j) => exec[j].state = "live"
    <3>1. auth.daemon = d /\ task[d].step \notin Admission
      BY <1>2, <1>5 DEF Verified, Admission
    <3> QED
      BY <3>1, OwnerAlone DEF Protected
  <2>3. BarredRunIsStopped'
    BY <1>1, <2>1 DEF WorkflowInv, BarredRunIsStopped
  <2> QED
    BY <2>1, <2>2, <2>3 DEF StoreStep
<1> QED
  BY <1>4, <1>5 DEF Reconcile


(* Controls that write the run's status and nothing else.                  *)
LEMMA RunStore ==
    ASSUME WorkflowInv, NEW r \in RunStatus, db' = [db EXCEPT !.run = r],
           r = "repair_required" <=> db.run = "repair_required",
           r \in {"completed", "cancelled"} \/ db.run \in {"completed", "cancelled"} =>
               r = db.run,
           barrier' # NoBarrier => r # "running"
    PROVE  StoreStep
<1>1. Sound(db) /\ PastIsOver(db, exec) /\ db \in Store
  BY DEF WorkflowInv, Sound
<1>2. PICK p, q, g, h : db = [run |-> p, cancel |-> q, act |-> g, attempt |-> h]
  BY <1>1, StoreRecord
<1>3. /\ db'.run = r /\ db'.cancel = db.cancel /\ db'.act = db.act
      /\ db'.attempt = db.attempt
  BY <1>2
<1>4. db' \in Store
  BY <1>1 DEF Store
<1>5. Pinned(db')
  BY <1>1, <1>3 DEF Sound, Pinned
<1>6. EndedIsSettled(db')
  BY <1>1, <1>3 DEF Sound, EndedIsSettled, AllSettled
<1>7. db.run \in {"completed", "cancelled"} => db'.run = db.run
  BY <1>3
<1>8. Advances(db, db', exec)
  BY ONLY <1>1, <1>3, <1>4, <1>5, <1>6, <1>7, RunMoves
<1>9. BarredRunIsStopped'
  BY <1>3 DEF BarredRunIsStopped
<1> QED
  BY <1>3, <1>8, <1>9 DEF StoreStep

LEMMA PauseStore ==
    ASSUME WorkflowInv, NEW d \in Daemon, Pause(d)
    PROVE  StoreStep
BY RunStore DEF Pause, RunStatus

LEMMA ResumeStore ==
    ASSUME WorkflowInv, NEW d \in Daemon, Resume(d)
    PROVE  StoreStep
<1>1. /\ db' = [db EXCEPT !.run = "running"] /\ db.run = "paused"
      /\ barrier' = NoBarrier /\ "running" \in RunStatus
  BY DEF Resume, ownership, RunStatus
<1> QED
  BY <1>1, RunStore

LEMMA ResumeRecoveredStore ==
    ASSUME WorkflowInv, NEW d \in Daemon, ResumeRecovered(d)
    PROVE  StoreStep
<1>1. /\ db' = [db EXCEPT !.run = "running"] /\ db.run = "paused"
      /\ barrier' = NoBarrier /\ "running" \in RunStatus
  BY DEF ResumeRecovered, RunStatus
<1> QED
  BY <1>1, RunStore

LEMMA TakeOverStore ==
    ASSUME WorkflowInv, NEW d \in Daemon, TakeOver(d)
    PROVE  StoreStep
<1>1. CASE db' = db /\ barrier' = barrier
  BY <1>1, StoreUntouched
<1>2. CASE db' = [db EXCEPT !.run = IF db.run = "running" THEN "paused" ELSE db.run]
  <2> DEFINE r == IF db.run = "running" THEN "paused" ELSE db.run
  <2>1. db.run \in RunStatus
    BY StoreParts DEF WorkflowInv, Sound
  <2>2. /\ r \in RunStatus /\ r # "running"
        /\ r = "repair_required" <=> db.run = "repair_required"
        /\ r \in {"completed", "cancelled"} \/ db.run \in {"completed", "cancelled"} =>
               r = db.run
    BY <2>1 DEF RunStatus
  <2>3. db' = [db EXCEPT !.run = r]
    BY <1>2
  <2> HIDE DEF r
  <2> QED
    BY <2>2, <2>3, RunStore
<1> QED
  BY <1>1, <1>2 DEF TakeOver

LEMMA RequestCancellationStore ==
    ASSUME WorkflowInv, NEW d \in Daemon, RequestCancellation(d)
    PROVE  StoreStep
<1>1. Sound(db) /\ PastIsOver(db, exec) /\ db \in Store /\ barrier' = barrier
  BY DEF WorkflowInv, Sound, RequestCancellation, ownership
<1>2. PICK u : u = [db EXCEPT !.cancel = TRUE]
  OBVIOUS
<1>3. PICK p, q, g, h : db = [run |-> p, cancel |-> q, act |-> g, attempt |-> h]
  BY <1>1, StoreRecord
<1>4. u.run = db.run /\ u.cancel = TRUE /\ u.act = db.act /\ u.attempt = db.attempt
  BY <1>2, <1>3
<1>5. u \in Store
  BY <1>1, <1>2 DEF Store
<1>6. Pinned(u) /\ EndedIsSettled(u)
  BY <1>1, <1>4 DEF Sound, Pinned, EndedIsSettled, AllSettled
<1>7. Advances(db, u, exec)
  BY ONLY <1>1, <1>4, <1>5, <1>6, RunMoves
<1>8. db' = Finalized(u)
  BY <1>2 DEF RequestCancellation
<1>9. Advances(db, db', exec)
  <2>1. Advances(u, db', exec)
    BY <1>7, <1>8, FinalizedAdvances DEF Advances
  <2> QED
    BY <1>7, <2>1, FinalIsTransitive DEF Advances
<1>10. db'.attempt = db.attempt /\ (db'.run = "running" => db.run = "running")
  BY <1>4, <1>7, <1>8, FinalizedSound DEF Advances
<1>11. BarredRunIsStopped'
  BY <1>1, <1>10 DEF WorkflowInv, BarredRunIsStopped
<1> QED
  BY <1>9, <1>10, <1>11 DEF StoreStep

LEMMA MarkSignalledStore ==
    ASSUME WorkflowInv, NEW d \in Daemon, NEW i \in Attempt, MarkSignalled(d, i)
    PROVE  StoreStep
<1>1. Sound(db) /\ PastIsOver(db, exec) /\ barrier' = barrier
  BY DEF WorkflowInv, MarkSignalled, ownership
<1>2. CASE db' = db
  BY <1>1, <1>2, StoreUntouched
<1>3. CASE /\ db.attempt[i] \in {"prepared", "admitted", "running"}
           /\ db' = [db EXCEPT !.attempt[i] = "cancelling"]
  <2>1. db.attempt[i] \in Active /\ "cancelling" \in Active
    BY <1>3 DEF Active, InFlight
  <2>2. /\ Advances(db, db', exec) /\ db'.run = db.run
        /\ db'.attempt = [db.attempt EXCEPT ![i] = "cancelling"]
    BY ONLY <1>1, <1>3, <2>1, ActiveMoves, i \in Attempt
  <2>3. db.attempt \in [Attempt -> AttemptStatus]
    BY <1>1, StoreParts DEF Sound
  <2> QED
    BY <1>1, <2>1, <2>2, <2>3, StoreTouched
<1> QED
  BY <1>2, <1>3 DEF MarkSignalled


(* An active attempt that is not protected is cancelled.                   *)
LEMMA CancelStore ==
    ASSUME WorkflowInv, barrier' = barrier, NEW i \in Attempt, db.attempt[i] \in Active,
           ~Protected(i),
           NEW u, u = [run |-> db.run, cancel |-> db.cancel,
                       act |-> [db.act EXCEPT ![i[1]] = "cancelled"],
                       attempt |-> [db.attempt EXCEPT ![i] = "cancelled"]],
           db' = Finalized(u)
    PROVE  StoreStep
<1>1. Sound(db) /\ PastIsOver(db, exec)
  BY DEF WorkflowInv
<1>2. /\ Advances(db, db', exec) /\ (db'.run = "running" => db.run = "running")
      /\ \A j \in Attempt : j # i => db'.attempt[j] = db.attempt[j]
  BY ONLY <1>1, CancelledAdvances, i \in Attempt, db.attempt[i] \in Active,
          db' = Finalized(u),
          u = [run |-> db.run, cancel |-> db.cancel,
               act |-> [db.act EXCEPT ![i[1]] = "cancelled"],
               attempt |-> [db.attempt EXCEPT ![i] = "cancelled"]]
<1> QED
  BY <1>2, StoreTouched

LEMMA CancelNeverDispatchedStore ==
    ASSUME WorkflowInv, NEW d \in Daemon, NEW i \in Attempt, CancelNeverDispatched(d, i)
    PROVE  StoreStep
<1>1. /\ Sound(db) /\ barrier' = barrier
      /\ db.attempt[i] = "prepared" /\ ~Protected(i)
  BY DEF WorkflowInv, CancelNeverDispatched, ownership, NeverDispatched, Protected
<1>2. db.attempt[i] \in Active /\ db.attempt[i] \in Unsettled
  BY <1>1 DEF Active, Unsettled
<1>3. db.act[i[1]] = "running"
  BY <1>1, <1>2 DEF Sound, UnsettledIsLast
<1>4. Transition(db.act, i[1], "cancelled") = [db.act EXCEPT ![i[1]] = "cancelled"]
  BY <1>3 DEF Transition
<1>5. PICK f : f = Transition(db.act, i[1], "cancelled")
  OBVIOUS
<1>6. PICK u : u = [db EXCEPT !.attempt[i] = "cancelled", !.act = f]
  OBVIOUS
<1>7. db' = Finalized(u)
  BY <1>5, <1>6, Zenon DEF CancelNeverDispatched, ActivationOf
<1>8. PICK p, q, g, h : db = [run |-> p, cancel |-> q, act |-> g, attempt |-> h]
  BY <1>1, StoreRecord DEF Sound
<1>9. u = [run |-> db.run, cancel |-> db.cancel, act |-> f,
           attempt |-> [db.attempt EXCEPT ![i] = "cancelled"]]
  BY ONLY <1>6, <1>8
<1>10. u = [run |-> db.run, cancel |-> db.cancel,
            act |-> [db.act EXCEPT ![i[1]] = "cancelled"],
            attempt |-> [db.attempt EXCEPT ![i] = "cancelled"]]
  BY <1>4, <1>5, <1>9, Zenon
<1> QED
  BY <1>1, <1>2, <1>7, <1>10, CancelStore

LEMMA SettleOrphanStore ==
    ASSUME WorkflowInv, NEW d \in Daemon, NEW i \in Attempt, SettleOrphan(d, i)
    PROVE  StoreStep
<1>1. /\ Sound(db) /\ PastIsOver(db, exec) /\ barrier' = barrier
      /\ db.cancel
  BY DEF WorkflowInv, SettleOrphan, ownership
<1>2. CASE db' = db
  BY <1>1, <1>2, StoreUntouched
<1>3. CASE /\ db.attempt[i] \in Active /\ ~AdmissionInFlight(i)
           /\ db' = NeedsRepair(db, i)
  <2>1. ~Protected(i)
    BY <1>1, <1>3 DEF AdmissionInFlight, Protected
  <2>2. /\ Advances(db, db', exec) /\ db'.run = "repair_required"
        /\ db'.attempt = [db.attempt EXCEPT ![i] = "repair_required"]
    BY ONLY <1>1, <1>3, NeedsRepairAdvances, i \in Attempt
  <2>3. db.attempt \in [Attempt -> AttemptStatus]
    BY <1>1, StoreParts DEF Sound
  <2> QED
    BY <1>1, <2>1, <2>2, <2>3, StoreTouched
<1>4. CASE /\ db.attempt[i] \in Active /\ ~AdmissionInFlight(i)
           /\ db' = Finalized([db EXCEPT !.attempt[i] = "cancelled",
                                         !.act[ActivationOf(i)] =
                                             IF @ \in {"pending", "running"} THEN "cancelled"
                                                                             ELSE @])
  <2>1. ~Protected(i)
    BY <1>1, <1>4 DEF AdmissionInFlight, Protected
  <2>2. db.act[i[1]] = "running"
    BY <1>1, <1>4, StatusKinds DEF Sound, UnsettledIsLast
  <2>3. PICK u : u = [db EXCEPT !.attempt[i] = "cancelled",
                                !.act[ActivationOf(i)] =
                                    IF @ \in {"pending", "running"} THEN "cancelled" ELSE @]
    OBVIOUS
  <2>4. db' = Finalized(u)
    BY <1>4, <2>3, Zenon
  <2>5. PICK p, q, g, h : db = [run |-> p, cancel |-> q, act |-> g, attempt |-> h]
    BY <1>1, StoreRecord DEF Sound
  <2>6. DOMAIN u = {"run", "cancel", "act", "attempt"}
    BY ONLY <2>3, <2>5
  <2>7. u = [run |-> db.run, cancel |-> db.cancel,
             act |-> [db.act EXCEPT ![i[1]] = "cancelled"],
             attempt |-> [db.attempt EXCEPT ![i] = "cancelled"]]
    BY ONLY <2>2, <2>3, <2>5, <2>6 DEF ActivationOf
  <2> QED
    BY <1>1, <1>4, <2>1, <2>4, <2>7, CancelStore
<1>5. \/ db' = db
      \/ /\ db.attempt[i] \in Active /\ ~AdmissionInFlight(i)
         /\ \/ db' = NeedsRepair(db, i)
            \/ db' = Finalized([db EXCEPT !.attempt[i] = "cancelled",
                                          !.act[ActivationOf(i)] =
                                              IF @ \in {"pending", "running"} THEN "cancelled"
                                                                              ELSE @])
  BY Zenon DEF SettleOrphan
<1> QED
  BY <1>2, <1>3, <1>4, <1>5, Zenon

LEMMA RetryStore ==
    ASSUME WorkflowInv, NEW d \in Daemon, NEW i \in Attempt, Retry(d, i)
    PROVE  StoreStep
<1>1. /\ Sound(db) /\ PastIsOver(db, exec) /\ barrier' = barrier /\ barrier = NoBarrier
      /\ db.run = "failed" /\ db.act[i[1]] = "failed" /\ i[1] \in Activation
      /\ db' = [db EXCEPT !.act[i[1]] = "pending", !.run = "running"]
  BY AttemptParts DEF WorkflowInv, Retry, ownership, ActivationOf
<1>2. PICK p, q, g, h : db = [run |-> p, cancel |-> q, act |-> g, attempt |-> h]
  BY <1>1, StoreRecord DEF Sound
<1>3. DOMAIN db' = {"run", "cancel", "act", "attempt"}
  BY ONLY <1>1, <1>2
<1>4. db' = [run |-> "running", cancel |-> db.cancel, act |-> [db.act EXCEPT ![i[1]] = "pending"],
             attempt |-> db.attempt]
  BY ONLY <1>1, <1>2, <1>3
<1>5. Advances(db, db', exec) /\ db'.attempt = db.attempt
  BY ONLY <1>1, <1>4, RetriedAdvances
<1> QED
  BY <1>1, <1>5, StoreTouched


LEMMA RepairStore ==
    ASSUME WorkflowInv, NEW d \in Daemon, NEW i \in Attempt, Repair(d, i)
    PROVE  StoreStep
<1> DEFINE a == i[1]
<1>1. /\ Sound(db) /\ PastIsOver(db, exec) /\ barrier' = barrier
      /\ db.attempt[i] = "repair_required"
  BY DEF WorkflowInv, Repair, ownership
<1>2. db.attempt[i] \in Unsettled /\ db.attempt[i] \notin Active
  BY <1>1, StatusKinds
<1>3. db.act[a] = "running" /\ db.act \in [Activation -> ActivationStatus]
      /\ a \in Activation
  BY <1>1, <1>2, StoreParts, AttemptParts DEF Sound, UnsettledIsLast
<1>4. db.attempt \in [Attempt -> AttemptStatus]
  BY <1>1, StoreParts DEF Sound
<1>5. PICK p, q, g, h : db = [run |-> p, cancel |-> q, act |-> g, attempt |-> h]
  BY <1>1, StoreRecord DEF Sound
(* The status is repaired, and then a cancelled run may be finished. *)
<1>6. ASSUME NEW x \in Settled, NEW y \in ActivationStatus, NEW r, NEW u,
             u = [run |-> r, cancel |-> db.cancel, act |-> [db.act EXCEPT ![a] = y],
                  attempt |-> [db.attempt EXCEPT ![i] = x]],
             y \in {"pending", "failed"} => x = "abandoned",
             NEW abandoned \in BOOLEAN, NEW w, w = Repaired(u, abandoned),
             db' = w \/ db' = Finalized(w)
      PROVE  StoreStep
  <2>1. /\ Advances(db, w, exec)
        /\ w.run = "running" => barrier = NoBarrier
        /\ w.attempt = [db.attempt EXCEPT ![i] = x]
    BY ONLY <1>1, <1>6, RepairedAdvances, i \in Attempt
  <2>2. /\ Advances(w, Finalized(w), exec)
        /\ Finalized(w).attempt = w.attempt
        /\ Finalized(w).run = "running" => w.run = "running"
    BY <2>1, FinalizedAdvances, FinalizedSound DEF Advances
  <2>3. /\ Advances(db, db', exec)
        /\ db'.attempt = w.attempt
        /\ db'.run = "running" => w.run = "running"
    BY <1>6, <2>1, <2>2, FinalIsTransitive DEF Advances
  <2>4. \A j \in Attempt : j # i => db'.attempt[j] = db.attempt[j]
    BY <1>4, <2>1, <2>3
  <2> QED
    BY <1>1, <1>2, <2>1, <2>3, <2>4, StoreTouched
<1>7. CASE db' = Finalized(Repaired([WithOutput(db, ActivationOf(i)) EXCEPT
                                        !.attempt[i] = "succeeded"], FALSE))
  <2>1. PICK v : v = WithOutput(db, ActivationOf(i))
    OBVIOUS
  <2>2. PICK u : u = [v EXCEPT !.attempt[i] = "succeeded"]
    OBVIOUS
  <2>3. db' = Finalized(Repaired(u, FALSE))
    BY <1>7, <2>1, <2>2, Zenon
  <2>4. PICK r : v = [db EXCEPT !.act[a] = "completed", !.run = r]
    BY <2>1, Zenon DEF WithOutput, ActivationOf
  <2>5. DOMAIN v = {"run", "cancel", "act", "attempt"}
    BY ONLY <1>5, <2>4
  <2>6. v = [run |-> r, cancel |-> db.cancel, act |-> [db.act EXCEPT ![a] = "completed"],
             attempt |-> db.attempt]
    BY ONLY <1>5, <2>4, <2>5
  <2>7. u = [run |-> r, cancel |-> db.cancel, act |-> [db.act EXCEPT ![a] = "completed"],
             attempt |-> [db.attempt EXCEPT ![i] = "succeeded"]]
    BY ONLY <2>2, <2>6
  <2>8. "succeeded" \in Settled /\ "completed" \in ActivationStatus
    BY DEF Settled, ActivationStatus
  <2> HIDE DEF a
  <2> QED
    BY <1>6, <2>3, <2>7, <2>8
<1>8. ASSUME NEW o \in {"failed", "cancelled"},
             db' = Finalized(Repaired([db EXCEPT !.attempt[i] = o], FALSE))
      PROVE  StoreStep
  <2>1. PICK u : u = [db EXCEPT !.attempt[i] = o]
    OBVIOUS
  <2>2. db' = Finalized(Repaired(u, FALSE))
    BY <1>8, <2>1, Zenon
  <2>3. db.act = [db.act EXCEPT ![a] = "running"]
    BY <1>3
  <2>4. u = [run |-> db.run, cancel |-> db.cancel, act |-> db.act,
             attempt |-> [db.attempt EXCEPT ![i] = o]]
    BY ONLY <1>5, <2>1
  <2>5. u = [run |-> db.run, cancel |-> db.cancel, act |-> [db.act EXCEPT ![a] = "running"],
             attempt |-> [db.attempt EXCEPT ![i] = o]]
    BY ONLY <2>3, <2>4, Zenon
  <2>6. o \in Settled /\ "running" \in ActivationStatus
    BY DEF Settled, ActivationStatus
  <2> HIDE DEF a
  <2> QED
    BY <1>6, <2>2, <2>5, <2>6
<1>9. CASE db' = Repaired([db EXCEPT !.attempt[i] = "abandoned",
                                     !.act = Transition(db.act, ActivationOf(i), "pending")],
                          TRUE)
  <2>1. PICK f : f = Transition(db.act, a, "pending")
    OBVIOUS
  <2>2. PICK u : u = [db EXCEPT !.attempt[i] = "abandoned", !.act = f]
    OBVIOUS
  <2>3. db' = Repaired(u, TRUE)
    BY <1>9, <2>1, <2>2, Zenon DEF ActivationOf
  <2>4. f = [db.act EXCEPT ![a] = "pending"]
    BY <1>3, <2>1 DEF Transition
  <2>5. u = [run |-> db.run, cancel |-> db.cancel, act |-> f,
             attempt |-> [db.attempt EXCEPT ![i] = "abandoned"]]
    BY ONLY <1>5, <2>2
  <2>6. u = [run |-> db.run, cancel |-> db.cancel, act |-> [db.act EXCEPT ![a] = "pending"],
             attempt |-> [db.attempt EXCEPT ![i] = "abandoned"]]
    BY ONLY <2>4, <2>5, Zenon
  <2>7. "abandoned" \in Settled /\ "pending" \in ActivationStatus
    BY DEF Settled, ActivationStatus
  <2> HIDE DEF a
  <2> QED
    BY <1>6, <2>3, <2>6, <2>7
<1> QED
  BY <1>7, <1>8, <1>9, Zenon DEF Repair

(* Every step.                                                             *)
LEMMA NextStore ==
    ASSUME WorkflowInv, [Next]_vars
    PROVE  StoreStep
<1>1. CASE UNCHANGED vars
  BY <1>1, StoreUntouched DEF vars
<1>2. ASSUME NEW i \in Attempt, Finish(i) PROVE StoreStep
  BY <1>2, StoreUntouched DEF Finish, storeVars, ownership
<1>3. ASSUME NEW d \in Daemon, Crash(d) PROVE StoreStep
  BY <1>3, StoreUntouched DEF Crash, storeVars
<1>4. ASSUME NEW d \in Daemon, Drive(d) PROVE StoreStep
  <2>1. ASSUME NEW i \in Attempt, Prepare(d, i) PROVE StoreStep
    BY <2>1, PrepareStore
  <2>2. ASSUME NEW i \in Attempt, Redispatch(d, i) PROVE StoreStep
    BY <2>2, StoreUntouched DEF Redispatch, storeVars, ownership
  <2>3. CASE Handoff(d)
    BY <2>3, StoreUntouched DEF Handoff, ownership
  <2>4. CASE CheckOwner(d)
    BY <2>4, StoreUntouched DEF CheckOwner, storeVars, ownership
  <2>5. CASE Register(d)
    BY <2>5, StoreUntouched DEF Register, storeVars, ownership
  <2>6. CASE Submit(d)
    BY <2>6, StoreUntouched DEF Submit, storeVars, ownership
  <2>7. CASE SubmitLost(d)
    BY <2>7, StoreUntouched DEF SubmitLost, storeVars, ownership
  <2>8. CASE AdmissionFails(d)
    BY <2>8, StoreUntouched DEF AdmissionFails, storeVars, ownership
  <2>9. CASE PersistReceipt(d)
    BY <2>9, PersistReceiptStore
  <2>10. ASSUME NEW c \in completion, Complete(d, c) PROVE StoreStep
    BY <2>10, CompleteStore
  <2>11. ASSUME NEW c \in completion, CompleteFails(d, c) PROVE StoreStep
    BY <2>11, StoreUntouched DEF CompleteFails, storeVars, ownership
  <2>12. ASSUME NEW i \in Attempt, RecoverReceipt(d, i) PROVE StoreStep
    BY <2>12, RecoverReceiptStore
  <2>13. ASSUME NEW i \in Attempt, Examine(d, i) PROVE StoreStep
    BY <2>13, StoreUntouched DEF Examine, storeVars, ownership
  <2>14. CASE Classify(d)
    BY <2>14, ClassifyStore
  <2>15. ASSUME NEW i \in Attempt, NEW j \in Attempt, Observe(d, i, j) PROVE StoreStep
    BY <2>15, StoreUntouched DEF Observe, storeVars, ownership
  <2>16. CASE Reconcile(d)
    BY <2>16, ReconcileStore
  <2> QED
    BY <1>4, <2>1, <2>2, <2>3, <2>4, <2>5, <2>6, <2>7, <2>8, <2>9, <2>10, <2>11, <2>12,
       <2>13, <2>14, <2>15, <2>16 DEF Drive
<1>5. ASSUME NEW d \in Daemon, Control(d) PROVE StoreStep
  <2>1. ASSUME NEW i \in Attempt, Signal(d, i) PROVE StoreStep
    BY <2>1, StoreUntouched DEF Signal, storeVars, ownership
  <2> QED
    BY <1>5, <2>1, PauseStore, ResumeStore, RequestCancellationStore,
       CancelNeverDispatchedStore, MarkSignalledStore, SettleOrphanStore, RetryStore,
       RepairStore, TakeOverStore, ResumeRecoveredStore DEF Control
<1> QED
  BY <1>1, <1>2, <1>3, <1>4, <1>5 DEF Next

-----------------------------------------------------------------------------
(* What a step does to everything else: its types. *)

LEMMA DoTypes ==
    ASSUME TypeOK, NEW d \in Daemon, NEW i \in Attempt, NEW generation \in 1 .. MaxGeneration,
           NEW step \in {"prepared", "handed", "checked", "registered", "accepted", "examined"},
           Do(d, step, i, generation)
    PROVE  /\ task' \in [Daemon -> Task]
           /\ task'[d] = [step |-> step, id |-> i, generation |-> generation]
           /\ \A f \in Daemon : f # d => task'[f] = task[f]
<1>1. [step |-> step, id |-> i, generation |-> generation] \in Task
  BY DEF Task
<1> QED
  BY <1>1 DEF TypeOK, Do

LEMMA GiveUpTypes ==
    ASSUME TypeOK, NEW d \in Daemon, GiveUp(d)
    PROVE  /\ task' \in [Daemon -> Task]
           /\ task'[d] = Idle
           /\ \A f \in Daemon : f # d => task'[f] = task[f]
<1>1. Idle \in Task
  BY DEF Task
<1> QED
  BY <1>1 DEF TypeOK, GiveUp

LEMMA TaskTypes ==
    ASSUME TypeOK, NEW d \in Daemon, task[d].step # "idle"
    PROVE  task[d].id \in Attempt /\ task[d].generation \in 1 .. MaxGeneration
BY TaskParts, TypeParts DEF Idle

LEMMA AuthTypes ==
    ASSUME TypeOK
    PROVE  auth.daemon \in Daemon /\ auth.generation \in 1 .. MaxGeneration
BY DEF TypeOK, Authority

(* Everything but the store.                                               *)
RestTypes ==
    /\ world' \in World
    /\ receipt' \subseteq Attempt
    /\ handed' \subseteq Attempt
    /\ auth' \in Authority
    /\ barrier' \in Artifact \union {NoBarrier}
    /\ task' \in [Daemon -> Task]
    /\ exec' \in [Attempt -> Execution]
    /\ work' \subseteq Work
    /\ completion' \subseteq Completion
    /\ asked' \subseteq Attempt
    /\ unmarked' \subseteq Attempt
    /\ up' \subseteq Daemon

(* A dispatch up to its receipt.                                           *)
LEMMA DispatchTypes ==
    ASSUME TypeOK, NEW d \in Daemon,
           \/ \E i \in Attempt : Prepare(d, i) \/ Redispatch(d, i) \/ Examine(d, i)
           \/ Handoff(d) \/ CheckOwner(d) \/ AdmissionFails(d) \/ PersistReceipt(d) \/ Classify(d)
    PROVE  RestTypes
<1> USE DEF storeVars, ownership, operations, cancels
<1>1. ASSUME NEW i \in Attempt, Prepare(d, i) PROVE RestTypes
  BY <1>1, DoTypes, AuthTypes DEF Prepare, RestTypes, TypeOK
<1>2. ASSUME NEW i \in Attempt, Redispatch(d, i) PROVE RestTypes
  BY <1>2, DoTypes, AuthTypes DEF Redispatch, RestTypes, TypeOK
<1>3. ASSUME NEW i \in Attempt, Examine(d, i) PROVE RestTypes
  BY <1>3, DoTypes, AuthTypes DEF Examine, RestTypes, TypeOK
<1>4. CASE Handoff(d)
  <2>1. task[d].id \in Attempt /\ task[d].generation \in 1 .. MaxGeneration
    BY <1>4, TaskTypes DEF Handoff, At
  <2>2. task' \in [Daemon -> Task]
    BY <1>4, <2>1, DoTypes, GiveUpTypes DEF Handoff
  <2>3. handed' \subseteq Attempt
    BY <1>4, <2>1 DEF Handoff, TypeOK
  <2> QED
    BY <1>4, <2>2, <2>3 DEF Handoff, RestTypes, TypeOK
<1>5. CASE CheckOwner(d)
  <2>1. task[d].id \in Attempt /\ auth.generation \in 1 .. MaxGeneration
    BY <1>5, TaskTypes, AuthTypes DEF CheckOwner, At
  <2>2. task' \in [Daemon -> Task]
    BY <1>5, <2>1, DoTypes, GiveUpTypes DEF CheckOwner
  <2> QED
    BY <1>5, <2>2 DEF CheckOwner, RestTypes, TypeOK
<1>6. CASE AdmissionFails(d)
  BY <1>6, GiveUpTypes DEF AdmissionFails, RestTypes, TypeOK
<1>7. CASE PersistReceipt(d)
  <2>1. task[d].id \in Attempt
    BY <1>7, TaskTypes DEF PersistReceipt, At
  <2>2. task' \in [Daemon -> Task] /\ receipt' \subseteq Attempt
    BY <1>7, <2>1, GiveUpTypes DEF PersistReceipt, TypeOK
  <2> QED
    BY <1>7, <2>2 DEF PersistReceipt, RestTypes, TypeOK
<1>8. CASE Classify(d)
  <2>1. task[d].id \in Attempt /\ task[d].generation \in 1 .. MaxGeneration
    BY <1>8, TaskTypes DEF Classify, At
  <2>2. task' \in [Daemon -> Task]
    BY <1>8, <2>1, DoTypes, GiveUpTypes DEF Classify
  <2> QED
    BY <1>8, <2>2 DEF Classify, RestTypes, TypeOK
<1> QED
  BY <1>1, <1>2, <1>3, <1>4, <1>5, <1>6, <1>7, <1>8

(* The registry, the operations and the tasks that wait for them.          *)
LEMMA OperationTypes ==
    ASSUME TypeOK, NEW d \in Daemon,
           \/ Register(d) \/ Submit(d) \/ SubmitLost(d)
           \/ \E c \in completion : Complete(d, c) \/ CompleteFails(d, c)
           \/ \E i \in Attempt : Finish(i)
           \/ Crash(d)
    PROVE  RestTypes
<1> USE DEF storeVars, ownership, operations, cancels
<1>1. CASE Register(d)
  <2> DEFINE i == task[d].id
             old == EntriesOf(d, i)
             new == [id |-> i, host |-> d, cancelled |-> \E w \in old : w.cancelled]
  <2>1. i \in Attempt /\ task[d].generation \in 1 .. MaxGeneration
    BY <1>1, TaskTypes DEF Register, At
  <2>2. task' \in [Daemon -> Task]
    BY <1>1, <2>1, DoTypes DEF Register
  <2>3. PICK b \in BOOLEAN : new = [id |-> i, host |-> d, cancelled |-> b]
    OBVIOUS
  <2>4. new \in Work
    BY <2>1, <2>3 DEF Work
  <2>5. work' = (work \ old) \union {new}
    BY <1>1 DEF Register
  <2>6. work' \subseteq Work
    <3> HIDE DEF old, new
    <3> QED
      BY <2>4, <2>5 DEF TypeOK
  <2>7. completion' \subseteq Completion
    <3>1. \A c \in Completion : [c EXCEPT !.current = FALSE] \in Completion
      BY DEF Completion
    <3> QED
      BY <1>1, <3>1 DEF Register, TypeOK
  <2> QED
    BY <1>1, <2>2, <2>6, <2>7 DEF Register, RestTypes, TypeOK
<1>2. CASE Submit(d)
  <2> DEFINE i == task[d].id
             new == exec[i].state = "none"
             c == [id |-> i, host |-> d, generation |-> task[d].generation,
                   watch |-> ~new, current |-> TRUE]
  <2>1. i \in Attempt /\ task[d].generation \in 1 .. MaxGeneration
    BY <1>2, TaskTypes DEF Submit, At
  <2>2. task' \in [Daemon -> Task]
    BY <1>2, <2>1, DoTypes DEF Submit
  <2>3. [state |-> "live", host |-> d] \in Execution
    BY DEF Execution, Accepted
  <2>4. exec' \in [Attempt -> Execution]
    BY <1>2, <2>1, <2>3 DEF Submit, TypeOK
  <2>5. PICK b \in BOOLEAN : c = [id |-> i, host |-> d, generation |-> task[d].generation,
                                  watch |-> b, current |-> TRUE]
    OBVIOUS
  <2>6. c \in Completion
    BY <2>1, <2>5 DEF Completion
  <2>7. completion' = completion \union {c}
    BY <1>2 DEF Submit
  <2>8. completion' \subseteq Completion
    <3> HIDE DEF c
    <3> QED
      BY <2>6, <2>7 DEF TypeOK
  <2> QED
    BY <1>2, <2>2, <2>4, <2>8 DEF Submit, RestTypes, TypeOK
<1>3. CASE SubmitLost(d)
  <2>1. task[d].id \in Attempt
    BY <1>3, TaskTypes DEF SubmitLost, At
  <2>2. task' \in [Daemon -> Task]
    BY <1>3, GiveUpTypes DEF SubmitLost
  <2>3. [state |-> "live", host |-> d] \in Execution
    BY DEF Execution, Accepted
  <2>4. exec' \in [Attempt -> Execution]
    BY <1>3, <2>1, <2>3 DEF SubmitLost, TypeOK
  <2> QED
    BY <1>3, <2>2, <2>4 DEF SubmitLost, RestTypes, TypeOK
<1>4. ASSUME NEW c \in completion, Complete(d, c) PROVE RestTypes
  <2>1. c.id \in Attempt
    BY TypeParts
  <2>2. receipt' \subseteq Attempt
    BY <1>4, <2>1 DEF Complete, TypeOK
  <2>3. work' \subseteq Work /\ completion' \subseteq Completion
    BY <1>4 DEF Complete, Retire, TypeOK
  <2> QED
    BY <1>4, <2>2, <2>3 DEF Complete, RestTypes, TypeOK
<1>5. ASSUME NEW c \in completion, CompleteFails(d, c) PROVE RestTypes
  <2>1. work' \subseteq Work /\ completion' \subseteq Completion
    BY <1>5 DEF CompleteFails, Retire, TypeOK
  <2> QED
    BY <1>5, <2>1 DEF CompleteFails, RestTypes, TypeOK
<1>6. ASSUME NEW i \in Attempt, Finish(i) PROVE RestTypes
  <2>1. PICK o \in Outcome : exec' = [exec EXCEPT ![i].state = o]
    BY <1>6 DEF Finish
  <2>2. [exec[i] EXCEPT !.state = o] \in Execution
    BY TypeParts DEF Execution, Accepted
  <2>3. exec' \in [Attempt -> Execution]
    BY <2>1, <2>2 DEF TypeOK
  <2> QED
    BY <1>6, <2>3 DEF Finish, RestTypes, TypeOK
<1>7. CASE Crash(d)
  <2>1. task' \in [Daemon -> Task]
    <3>1. Idle \in Task
      BY DEF Task
    <3> QED
      BY <1>7, <3>1 DEF Crash, TypeOK
  <2>2. exec' \in [Attempt -> Execution]
    <3>1. \A i \in Attempt : [exec[i] EXCEPT !.state = "lost"] \in Execution
      BY TypeParts DEF Execution, Accepted
    <3> QED
      BY <1>7, <3>1, TypeParts DEF Crash
  <2>3. work' \subseteq Work /\ completion' \subseteq Completion
    BY <1>7 DEF Crash, TypeOK
  <2> QED
    BY <1>7, <2>1, <2>2, <2>3 DEF Crash, RestTypes, TypeOK
<1> QED
  BY <1>1, <1>2, <1>3, <1>4, <1>5, <1>6, <1>7

(* Recovery, reconciliation and the controls.                              *)
LEMMA ControlTypes ==
    ASSUME TypeOK, NEW d \in Daemon,
           \/ \E i \in Attempt : RecoverReceipt(d, i)
           \/ \E i, j \in Attempt : Observe(d, i, j)
           \/ Reconcile(d)
           \/ Control(d)
    PROVE  RestTypes
<1> USE DEF storeVars, ownership, operations, cancels
<1>1. ASSUME NEW i \in Attempt, RecoverReceipt(d, i) PROVE RestTypes
  BY <1>1 DEF RecoverReceipt, RestTypes, TypeOK
<1>2. ASSUME NEW i \in Attempt, NEW j \in Attempt, Observe(d, i, j) PROVE RestTypes
  <2>1. PICK o \in Observed(d, i), p \in Observed(d, j) :
          task' = [task EXCEPT ![d] =
              [step |-> "observed", id |-> i, also |-> j, obs |-> o, alsoObs |-> p,
               generation |-> auth.generation]]
    BY <1>2 DEF Observe
  <2>2. o \in Observation /\ p \in Observation /\ auth.generation \in 1 .. MaxGeneration
    BY ObservedTrue, AuthTypes
  <2>3. [step |-> "observed", id |-> i, also |-> j, obs |-> o, alsoObs |-> p,
         generation |-> auth.generation] \in Task
    BY <2>2 DEF Task
  <2>4. task' \in [Daemon -> Task]
    BY <2>1, <2>3 DEF TypeOK
  <2> QED
    BY <1>2, <2>4 DEF Observe, RestTypes, TypeOK
<1>3. CASE Reconcile(d)
  BY <1>3, GiveUpTypes DEF Reconcile, RestTypes, TypeOK
<1>4. CASE Pause(d) \/ Resume(d) \/ ResumeRecovered(d)
  BY <1>4 DEF Pause, Resume, ResumeRecovered, RestTypes, TypeOK
<1>5. CASE RequestCancellation(d)
  BY <1>5 DEF RequestCancellation, RestTypes, TypeOK
<1>6. ASSUME NEW i \in Attempt, CancelNeverDispatched(d, i) PROVE RestTypes
  BY <1>6 DEF CancelNeverDispatched, RestTypes, TypeOK
<1>7. ASSUME NEW i \in Attempt, Signal(d, i) PROVE RestTypes
  <2>1. [id |-> i, host |-> d, cancelled |-> TRUE] \in Work
    BY DEF Work
  <2>2. work' \subseteq Work
    BY <1>7, <2>1 DEF Signal, TypeOK
  <2>3. asked' \subseteq Attempt /\ unmarked' \subseteq Attempt
    BY <1>7 DEF Signal, TypeOK
  <2> QED
    BY <1>7, <2>2, <2>3 DEF Signal, RestTypes, TypeOK
<1>8. ASSUME NEW i \in Attempt, MarkSignalled(d, i) PROVE RestTypes
  BY <1>8 DEF MarkSignalled, RestTypes, TypeOK
<1>9. ASSUME NEW i \in Attempt, SettleOrphan(d, i) PROVE RestTypes
  BY <1>9 DEF SettleOrphan, RestTypes, TypeOK
<1>10. ASSUME NEW i \in Attempt, Retry(d, i) \/ Repair(d, i) PROVE RestTypes
  BY <1>10 DEF Retry, Repair, RestTypes, TypeOK
<1>11. CASE TakeOver(d)
  <2>1. auth' \in Authority
    BY <1>11, AuthTypes, WorkflowConstants DEF TakeOver, Authority
  <2>2. barrier' \in Artifact \union {NoBarrier}
    BY <1>11, AuthTypes, WorkflowConstants DEF TakeOver, TypeOK
  <2> QED
    BY <1>11, <2>1, <2>2 DEF TakeOver, RestTypes, TypeOK
<1> QED
  BY <1>1, <1>2, <1>3, <1>4, <1>5, <1>6, <1>7, <1>8, <1>9, <1>10, <1>11 DEF Control

LEMMA NextTypes ==
    ASSUME WorkflowInv, [Next]_vars
    PROVE  TypeOK'
<1>1. TypeOK
  BY DEF WorkflowInv
<1>2. db' \in Store
  BY NextStore DEF StoreStep, Advances, Sound
<1>3. RestTypes
  <2>1. CASE UNCHANGED vars
    BY <1>1, <2>1 DEF vars, RestTypes, TypeOK
  <2>2. ASSUME NEW i \in Attempt, Finish(i) PROVE RestTypes
    BY <1>1, <2>2, OperationTypes, WorkflowConstants
  <2>3. ASSUME NEW d \in Daemon, Drive(d) \/ Control(d) \/ Crash(d) PROVE RestTypes
    BY <1>1, <2>3, DispatchTypes, OperationTypes, ControlTypes DEF Drive
  <2> QED
    BY <2>1, <2>2, <2>3 DEF Next
<1> QED
  BY <1>2, <1>3 DEF TypeOK, RestTypes

-----------------------------------------------------------------------------
(* What a step does to everything else: its shape. *)

(* The authority leaves a daemon that is up only on false evidence.        *)
AuthMoves == auth' = auth \/ (world.sound => auth.daemon \notin up)

(* A daemon that ends leaves no task.                                      *)
UpMoves ==
    /\ up' \subseteq up
    /\ \A d \in Daemon : d \in up \ up' => task'[d] = Idle

(* A receipt is written by the owner, at no step of an admission before    *)
(* the last.                                                               *)
ReceiptMoves ==
    /\ receipt \subseteq receipt'
    /\ \A i \in receipt' \ receipt : \E d \in Daemon :
          /\ auth.daemon = d /\ task'[d] = Idle
          /\ \A f \in Daemon : f # d => task'[f] = task[f]

(* An operation starts once, from a registered dispatch, and ends once.    *)
ExecMoves ==
    \A i \in Attempt :
        \/ exec'[i].state = exec[i].state
        \/ exec[i].state = "live" /\ exec'[i].state # "live"
        \/ /\ exec[i].state = "none"
           /\ \E d \in up : /\ task[d].step = "registered" /\ task[d].id = i
                            /\ task'[d].step \in {"accepted", "idle"}
                            /\ \A f \in Daemon : f # d => task'[f] = task[f]

(* A task starts with the authority of the owner ...                       *)
Starts(d) ==
    /\ task[d] = Idle /\ Holds(d) /\ task'[d].generation = auth.generation
    /\ auth' = auth /\ up' = up /\ exec' = exec
    /\ task'[d].step \in {"prepared", "examined", "observed"}
    /\ task'[d].step = "examined" => exec[task'[d].id].state = "none"
    /\ task'[d].step = "observed" =>
          /\ IsTrue(task'[d].obs, exec[task'[d].id].state)
          /\ IsTrue(task'[d].alsoObs, exec[task'[d].also].state)

(* ... and goes on for one attempt, step after step.                       *)
GoesOn(d) ==
    /\ task[d] # Idle /\ task'[d].id = task[d].id
    /\ auth' = auth /\ up' = up /\ db'.attempt[task[d].id] = db.attempt[task[d].id]
    /\ \/ task'[d].generation = task[d].generation
       \/ auth.daemon = d /\ task'[d].generation = auth.generation
    /\ \/ task'[d].step = "prepared"
       \/ task'[d].step = "handed" /\ task[d].id \in handed'
       \/ /\ task'[d].step = "checked" /\ task[d].step = "handed"
          /\ task[d].id \notin receipt' /\ db.attempt[task[d].id] = "prepared"
       \/ task'[d].step = "registered" /\ task[d].step = "checked"
       \/ task'[d].step = "accepted" /\ task[d].step = "registered"
       \/ task'[d].step = "accepted" /\ task[d].step = "handed" /\ task[d].id \in receipt

TaskMoves ==
    \A d \in Daemon : task'[d] \in {task[d], Idle} \/ Starts(d) \/ GoesOn(d)

Shape ==
    /\ world' = world
    /\ AuthMoves /\ UpMoves
    /\ handed \subseteq handed'
    /\ ReceiptMoves /\ ExecMoves /\ TaskMoves

LEMMA Untouched ==
    ASSUME UNCHANGED <<world, auth, up, handed, receipt, exec, task>>
    PROVE  Shape
<1>1. TaskMoves
  BY DEF TaskMoves
<1>2. ExecMoves /\ ReceiptMoves /\ UpMoves /\ AuthMoves
  BY DEF ExecMoves, ReceiptMoves, UpMoves, AuthMoves
<1> QED
  BY <1>1, <1>2 DEF Shape

(* A step that moves one task, and at most hands its attempt off.          *)
LEMMA TaskOnly ==
    ASSUME NEW d \in Daemon, UNCHANGED <<world, auth, up, receipt, exec>>, handed \subseteq handed',
           \A f \in Daemon : f # d => task'[f] = task[f],
           task'[d] = Idle \/ Starts(d) \/ GoesOn(d)
    PROVE  Shape
<1>1. TaskMoves
  BY DEF TaskMoves
<1>2. ExecMoves /\ ReceiptMoves /\ UpMoves /\ AuthMoves
  BY DEF ExecMoves, ReceiptMoves, UpMoves, AuthMoves
<1> QED
  BY <1>1, <1>2 DEF Shape

(* What starts a task.                                                     *)
LEMMA StartShape ==
    ASSUME TypeOK, NEW d \in Daemon, NEW i \in Attempt,
           NEW step \in {"prepared", "examined"}, Holds(d), At(d, "idle"),
           Do(d, step, i, auth.generation),
           UNCHANGED <<world, auth, up, receipt, handed, exec>>,
           step = "examined" => exec[i].state = "none"
    PROVE  Shape
<1>1. /\ task'[d] = [step |-> step, id |-> i, generation |-> auth.generation]
      /\ \A f \in Daemon : f # d => task'[f] = task[f]
  <2>1. step \in {"prepared", "handed", "checked", "registered", "accepted", "examined"}
    OBVIOUS
  <2> QED
    BY <2>1, DoTypes, AuthTypes
<1>2. task[d] = Idle
  BY TaskParts, TypeParts DEF At
<1>3. Starts(d)
  BY <1>1, <1>2 DEF Starts
<1> QED
  BY <1>1, <1>3, TaskOnly

LEMMA DispatchShape ==
    ASSUME TypeOK, NEW d \in Daemon,
           \/ \E i \in Attempt : Prepare(d, i) \/ Redispatch(d, i) \/ Examine(d, i)
           \/ Handoff(d) \/ CheckOwner(d) \/ AdmissionFails(d) \/ Register(d)
    PROVE  Shape
<1> USE DEF storeVars, ownership, operations, cancels
<1>1. ASSUME NEW i \in Attempt, Prepare(d, i) PROVE Shape
  BY <1>1, StartShape DEF Prepare
<1>2. ASSUME NEW i \in Attempt, Redispatch(d, i) PROVE Shape
  BY <1>2, StartShape DEF Redispatch
<1>3. ASSUME NEW i \in Attempt, Examine(d, i) PROVE Shape
  <2>1. exec[i].state = "none"
    BY <1>3, TypeParts DEF Examine, Execution
  <2> QED
    BY <1>3, <2>1, StartShape DEF Examine
<1>4. CASE Handoff(d)
  <2> DEFINE i == task[d].id
  <2>1. i \in Attempt /\ task[d].generation \in 1 .. MaxGeneration /\ task[d] # Idle
    BY <1>4, TaskTypes DEF Handoff, At, Idle
  <2>2. CASE GiveUp(d) /\ UNCHANGED handed
    BY <1>4, <2>2, GiveUpTypes, TaskOnly DEF Handoff
  <2>3. CASE handed' = handed \union {i} /\ Do(d, "handed", i, task[d].generation)
    <3>1. /\ task'[d] = [step |-> "handed", id |-> i, generation |-> task[d].generation]
          /\ \A f \in Daemon : f # d => task'[f] = task[f]
      BY <2>1, <2>3, DoTypes
    <3>2. GoesOn(d)
      BY <1>4, <2>1, <2>3, <3>1 DEF GoesOn, Handoff
    <3> QED
      BY <1>4, <2>3, <3>1, <3>2, TaskOnly DEF Handoff
  <2> QED
    BY <1>4, <2>2, <2>3 DEF Handoff
<1>5. CASE CheckOwner(d)
  <2> DEFINE i == task[d].id
  <2>1. i \in Attempt /\ auth.generation \in 1 .. MaxGeneration /\ task[d] # Idle
        /\ task[d].step = "handed"
    BY <1>5, TaskTypes, AuthTypes DEF CheckOwner, At, Idle
  <2>2. CASE GiveUp(d)
    BY <1>5, <2>2, GiveUpTypes, TaskOnly DEF CheckOwner
  <2>3. CASE Holds(d) /\ i \in receipt /\ Do(d, "accepted", i, auth.generation)
    <3>1. /\ task'[d] = [step |-> "accepted", id |-> i, generation |-> auth.generation]
          /\ \A f \in Daemon : f # d => task'[f] = task[f]
      BY <2>1, <2>3, DoTypes
    <3>2. GoesOn(d)
      BY <1>5, <2>1, <2>3, <3>1 DEF GoesOn, CheckOwner, Holds
    <3> QED
      BY <1>5, <3>1, <3>2, TaskOnly DEF CheckOwner
  <2>4. CASE /\ Holds(d) /\ i \notin receipt /\ db.attempt[i] = "prepared"
             /\ Do(d, "checked", i, auth.generation)
    <3>1. /\ task'[d] = [step |-> "checked", id |-> i, generation |-> auth.generation]
          /\ \A f \in Daemon : f # d => task'[f] = task[f]
      BY <2>1, <2>4, DoTypes
    <3>2. GoesOn(d)
      BY <1>5, <2>1, <2>4, <3>1 DEF GoesOn, CheckOwner, Holds
    <3> QED
      BY <1>5, <3>1, <3>2, TaskOnly DEF CheckOwner
  <2> QED
    BY <1>5, <2>2, <2>3, <2>4 DEF CheckOwner
<1>6. CASE AdmissionFails(d)
  BY <1>6, GiveUpTypes, TaskOnly DEF AdmissionFails
<1>7. CASE Register(d)
  <2> DEFINE i == task[d].id
  <2>1. i \in Attempt /\ task[d].generation \in 1 .. MaxGeneration /\ task[d] # Idle
        /\ task[d].step = "checked"
    BY <1>7, TaskTypes DEF Register, At, Idle
  <2>2. Do(d, "registered", i, task[d].generation)
    BY <1>7 DEF Register
  <2>3. /\ task'[d] = [step |-> "registered", id |-> i, generation |-> task[d].generation]
        /\ \A f \in Daemon : f # d => task'[f] = task[f]
    BY <2>1, <2>2, DoTypes
  <2>4. GoesOn(d)
    BY <1>7, <2>1, <2>3 DEF GoesOn, Register
  <2> QED
    BY <1>7, <2>3, <2>4, TaskOnly DEF Register
<1> QED
  BY <1>1, <1>2, <1>3, <1>4, <1>5, <1>6, <1>7

(* A receipt is written and the task, if any, ends.                        *)
LEMMA ReceiptOnly ==
    ASSUME NEW d \in Daemon, UNCHANGED <<world, auth, up, handed, exec>>,
           task'[d] = Idle, \A f \in Daemon : f # d => task'[f] = task[f],
           receipt \subseteq receipt', receipt' # receipt => auth.daemon = d
    PROVE  Shape
<1>1. TaskMoves
  BY DEF TaskMoves
<1>2. ExecMoves /\ UpMoves /\ AuthMoves
  BY DEF ExecMoves, UpMoves, AuthMoves
<1>3. ReceiptMoves
  BY DEF ReceiptMoves
<1> QED
  BY <1>1, <1>2, <1>3 DEF Shape

LEMMA SubmitShape ==
    ASSUME TypeOK, NEW d \in Daemon, Submit(d) \/ SubmitLost(d)
    PROVE  Shape
<1> USE DEF storeVars, ownership, operations, cancels
<1> DEFINE i == task[d].id
<1>1. /\ i \in Attempt /\ task[d].generation \in 1 .. MaxGeneration /\ task[d] # Idle
      /\ task[d].step = "registered" /\ d \in up
  BY TaskTypes DEF Submit, SubmitLost, At, Idle
<1>2. /\ UNCHANGED <<world, auth, up, handed, receipt, db>>
      /\ exec' = exec \/ (exec[i].state = "none" /\ exec' = [exec EXCEPT ![i] = [state |-> "live", host |-> d]])
  BY DEF Submit, SubmitLost
<1>3. /\ task'[d] = Idle \/ task'[d] = [step |-> "accepted", id |-> i, generation |-> task[d].generation]
      /\ \A f \in Daemon : f # d => task'[f] = task[f]
  BY <1>1, DoTypes, GiveUpTypes DEF Submit, SubmitLost
<1>4. task'[d] = Idle \/ GoesOn(d)
  BY <1>1, <1>2, <1>3 DEF GoesOn
<1>5. TaskMoves
  BY <1>3, <1>4 DEF TaskMoves
<1>6. ReceiptMoves /\ UpMoves /\ AuthMoves
  BY <1>2 DEF ReceiptMoves, UpMoves, AuthMoves
<1>7. task'[d].step \in {"accepted", "idle"}
  BY <1>3 DEF Idle
<1>8. \A j \in Attempt : j # i => exec'[j] = exec[j]
  BY <1>2 DEF TypeOK
<1>9. ExecMoves
  BY <1>1, <1>2, <1>3, <1>7, <1>8 DEF ExecMoves
<1> QED
  BY <1>2, <1>5, <1>6, <1>9 DEF Shape

LEMMA SettleShape ==
    ASSUME TypeOK, NEW d \in Daemon,
           \/ PersistReceipt(d) \/ Classify(d) \/ Reconcile(d)
           \/ \E c \in completion : Complete(d, c) \/ CompleteFails(d, c)
           \/ \E i \in Attempt : RecoverReceipt(d, i)
           \/ \E i, j \in Attempt : Observe(d, i, j)
    PROVE  Shape
<1> USE DEF storeVars, ownership, operations, cancels
<1>1. task[d].step = "idle" => task[d] = Idle
  BY TaskParts, TypeParts
<1>2. CASE PersistReceipt(d)
  <2>1. receipt' # receipt => auth.daemon = d
    BY <1>2 DEF PersistReceipt, Verified
  <2> QED
    BY <1>2, <2>1, GiveUpTypes, ReceiptOnly DEF PersistReceipt
<1>3. ASSUME NEW c \in completion, Complete(d, c) PROVE Shape
  <2>1. receipt' # receipt => auth.daemon = d
    BY <1>3 DEF Complete, Verified
  <2>2. task[d] = Idle
    BY <1>1, <1>3 DEF Complete, At
  <2> QED
    BY <1>3, <2>1, <2>2, ReceiptOnly DEF Complete
<1>4. ASSUME NEW c \in completion, CompleteFails(d, c) PROVE Shape
  BY <1>4, Untouched DEF CompleteFails
<1>5. ASSUME NEW i \in Attempt, RecoverReceipt(d, i) PROVE Shape
  <2>1. task[d] = Idle /\ auth.daemon = d
    BY <1>1, <1>5 DEF RecoverReceipt, At, Holds
  <2> QED
    BY <1>5, <2>1, ReceiptOnly DEF RecoverReceipt
<1>6. CASE Classify(d)
  <2> DEFINE i == task[d].id
  <2>1. i \in Attempt /\ task[d].generation \in 1 .. MaxGeneration /\ task[d] # Idle
    BY <1>6, TaskTypes DEF Classify, At, Idle
  <2>2. CASE GiveUp(d)
    BY <1>6, <2>2, GiveUpTypes, TaskOnly DEF Classify
  <2>3. CASE Do(d, "prepared", i, task[d].generation) /\ db' = db
    <3>1. /\ task'[d] = [step |-> "prepared", id |-> i, generation |-> task[d].generation]
          /\ \A f \in Daemon : f # d => task'[f] = task[f]
      BY <2>1, <2>3, DoTypes
    <3>2. GoesOn(d)
      BY <1>6, <2>1, <2>3, <3>1 DEF GoesOn, Classify
    <3> QED
      BY <1>6, <3>1, <3>2, TaskOnly DEF Classify
  <2> QED
    BY <1>6, <2>2, <2>3 DEF Classify
<1>7. CASE Reconcile(d)
  BY <1>7, GiveUpTypes, TaskOnly DEF Reconcile
<1>8. ASSUME NEW i \in Attempt, NEW j \in Attempt, Observe(d, i, j) PROVE Shape
  <2>1. PICK o \in Observed(d, i), p \in Observed(d, j) :
          task' = [task EXCEPT ![d] =
              [step |-> "observed", id |-> i, also |-> j, obs |-> o, alsoObs |-> p,
               generation |-> auth.generation]]
    BY <1>8 DEF Observe
  <2>2. IsTrue(o, exec[i].state) /\ IsTrue(p, exec[j].state)
    BY ObservedTrue
  <2>3. /\ task'[d] = [step |-> "observed", id |-> i, also |-> j, obs |-> o, alsoObs |-> p,
                       generation |-> auth.generation]
        /\ \A f \in Daemon : f # d => task'[f] = task[f]
    BY <2>1 DEF TypeOK
  <2>4. Starts(d)
    BY <1>1, <1>8, <2>2, <2>3 DEF Starts, Observe, At
  <2> QED
    BY <1>8, <2>3, <2>4, TaskOnly DEF Observe
<1> QED
  BY <1>2, <1>3, <1>4, <1>5, <1>6, <1>7, <1>8

LEMMA NextShape ==
    ASSUME TypeOK, [Next]_vars
    PROVE  Shape
<1> USE DEF storeVars, ownership, operations, cancels
<1>1. CASE UNCHANGED vars
  BY <1>1, Untouched DEF vars
<1>2. ASSUME NEW i \in Attempt, Finish(i) PROVE Shape
  <2>1. PICK o \in Outcome : exec' = [exec EXCEPT ![i].state = o]
    BY <1>2 DEF Finish
  <2>2. exec[i].state = "live" /\ exec[i] \in Execution /\ o # "live"
    BY <1>2, TypeParts DEF Finish, Outcome
  <2>3. exec'[i].state = o /\ \A j \in Attempt : j # i => exec'[j] = exec[j]
    BY <2>1, <2>2 DEF TypeOK, Execution
  <2>4. ExecMoves
    BY <2>2, <2>3 DEF ExecMoves
  <2>5. ReceiptMoves /\ UpMoves /\ AuthMoves /\ TaskMoves
    BY <1>2 DEF Finish, ReceiptMoves, UpMoves, AuthMoves, TaskMoves
  <2> QED
    BY <1>2, <2>4, <2>5 DEF Finish, Shape
<1>3. ASSUME NEW d \in Daemon, Crash(d) PROVE Shape
  <2>1. ExecMoves
    <3>1. \A i \in Attempt :
             exec[i].state = "live" => [exec[i] EXCEPT !.state = "lost"].state = "lost"
      BY TypeParts DEF Execution
    <3> QED
      BY <1>3, <3>1 DEF Crash, ExecMoves
  <2>2. task'[d] = Idle /\ \A f \in Daemon : f # d => task'[f] = task[f]
    BY <1>3 DEF Crash, TypeOK
  <2>3. TaskMoves /\ UpMoves
    BY <1>3, <2>2 DEF Crash, TaskMoves, UpMoves
  <2>4. ReceiptMoves /\ AuthMoves
    BY <1>3 DEF Crash, ReceiptMoves, AuthMoves
  <2> QED
    BY <1>3, <2>1, <2>3, <2>4 DEF Crash, Shape
<1>4. ASSUME NEW d \in Daemon, TakeOver(d) PROVE Shape
  <2>1. AuthMoves
    BY <1>4 DEF TakeOver, OwnerEnded, AuthMoves
  <2>2. ReceiptMoves /\ UpMoves /\ ExecMoves /\ TaskMoves
    BY <1>4 DEF TakeOver, ReceiptMoves, UpMoves, ExecMoves, TaskMoves
  <2> QED
    BY <1>4, <2>1, <2>2 DEF TakeOver, Shape
<1>5. ASSUME NEW d \in Daemon, Control(d), ~TakeOver(d) PROVE Shape
  <2>1. UNCHANGED <<world, auth, up, handed, receipt, exec, task>>
    BY <1>5 DEF Control, Pause, Resume, RequestCancellation, CancelNeverDispatched, Signal,
                MarkSignalled, SettleOrphan, Retry, Repair, ResumeRecovered
  <2> QED
    BY <2>1, Untouched
<1>6. ASSUME NEW d \in Daemon, Drive(d) PROVE Shape
  BY <1>6, DispatchShape, SubmitShape, SettleShape DEF Drive
<1> QED
  BY <1>1, <1>2, <1>3, <1>4, <1>5, <1>6 DEF Next

-----------------------------------------------------------------------------
(* The invariant. *)

LEMMA InitInv ==
    ASSUME Init
    PROVE  WorkflowInv
<1> USE DEF Init
<1>1. db.run = "running" /\ ~db.cancel /\ db.act = [a \in Activation |-> "pending"]
      /\ db.attempt = [i \in Attempt |-> "none"]
  OBVIOUS
<1>2. db \in Store
  BY DEF Store, RunStatus, ActivationStatus, AttemptStatus
<1>3. Sound(db)
  BY <1>1, <1>2, StatusKinds DEF Sound, NoGaps, UnsettledIsLast, Pinned, EndedIsSettled
<1>4. PastIsOver(db, exec)
  BY <1>1 DEF PastIsOver, Past
<1>5. \A d \in Daemon : task[d] = Idle /\ task[d].step = "idle"
  BY DEF Idle
<1>6. TypeOK
  <2>1. auth \in Authority
    BY WorkflowConstants DEF Authority
  <2>2. exec \in [Attempt -> Execution]
    BY DEF Execution, NotStarted
  <2>3. task \in [Daemon -> Task]
    BY DEF Task
  <2>4. up \subseteq Daemon
    BY WorkflowConstants
  <2> QED
    BY <1>2, <2>1, <2>2, <2>3, <2>4 DEF TypeOK
<1>7. ObservedIsTrue /\ TaskIsUp /\ Undisturbed
  BY <1>5 DEF ObservedIsTrue, TaskIsUp, Undisturbed, TaskIsOwners, AdmissionIsHanded,
              AdmissionIsFresh, ExaminedIsFresh, Admission
<1>8. BarredRunIsStopped
  BY DEF BarredRunIsStopped
<1>9. AdmissionKeepsAttempt
  BY <1>5, WorkflowConstants DEF AdmissionKeepsAttempt
<1>10. LiveIsTracked
  BY DEF LiveIsTracked, NotStarted
<1> QED
  BY <1>3, <1>4, <1>6, <1>7, <1>8, <1>9, <1>10 DEF WorkflowInv

(* What has ended stays as it ended.                                       *)
LEMMA EndedStays ==
    ASSUME ExecMoves, NEW i \in Attempt, exec[i].state \in Outcome \union {"lost"}
    PROVE  exec'[i].state = exec[i].state
BY DEF ExecMoves, Outcome

LEMMA NextObserved ==
    ASSUME WorkflowInv, TypeOK', Shape
    PROVE  ObservedIsTrue'
<1> SUFFICES ASSUME NEW d \in Daemon, task'[d].step = "observed"
             PROVE  /\ IsTrue(task'[d].obs, exec'[task'[d].id].state)
                    /\ IsTrue(task'[d].alsoObs, exec'[task'[d].also].state)
  BY DEF ObservedIsTrue, IsTrue, Outcome
<1>1. TaskMoves /\ ExecMoves
  BY DEF Shape
<1>2. CASE task'[d] = task[d]
  <2>1. /\ task[d].id \in Attempt /\ task[d].also \in Attempt
        /\ IsTrue(task[d].obs, exec[task[d].id].state)
        /\ IsTrue(task[d].alsoObs, exec[task[d].also].state)
    BY <1>2, TypeParts, TaskParts DEF WorkflowInv, ObservedIsTrue, Idle
  <2> QED
    BY <1>1, <1>2, <2>1, EndedStays DEF IsTrue
<1>3. CASE task'[d] = Idle
  BY <1>3 DEF Idle
<1>4. CASE Starts(d)
  BY <1>4 DEF Starts
<1>5. CASE GoesOn(d)
  BY <1>5 DEF GoesOn
<1> QED
  BY <1>1, <1>2, <1>3, <1>4, <1>5 DEF TaskMoves

LEMMA NextTaskIsUp ==
    ASSUME WorkflowInv, Shape
    PROVE  TaskIsUp'
BY DEF WorkflowInv, Shape, TaskMoves, UpMoves, TaskIsUp, Starts, GoesOn, Holds

LEMMA NextPastIsOver ==
    ASSUME Shape, PastIsOver(db', exec)
    PROVE  PastIsOver(db', exec')
<1>1. \A i \in Attempt : exec[i].state \in {"failed", "paused"} => exec'[i].state = exec[i].state
  BY EndedStays DEF Shape, Outcome
<1> QED
  BY <1>1 DEF PastIsOver

LEMMA NextUndisturbed ==
    ASSUME WorkflowInv, TypeOK', Shape, world.sound
    PROVE  Undisturbed'
<1>1. /\ TaskIsOwners /\ TaskIsUp /\ AdmissionIsHanded /\ AdmissionIsFresh /\ ExaminedIsFresh
      /\ TypeOK
  BY DEF WorkflowInv, Undisturbed
<1>2. AuthMoves /\ UpMoves /\ ReceiptMoves /\ ExecMoves /\ TaskMoves /\ handed \subseteq handed'
  BY DEF Shape
<1>3. TaskIsOwners'
  <2> SUFFICES ASSUME NEW d \in Daemon, task'[d] # Idle
               PROVE  auth' = [daemon |-> d, generation |-> task'[d].generation]
    BY DEF TaskIsOwners, Verified
  <2>1. CASE task'[d] = task[d]
    <3>1. auth = [daemon |-> d, generation |-> task[d].generation] /\ d \in up
      BY <1>1, <2>1 DEF TaskIsOwners, TaskIsUp, Verified
    <3>2. auth' = auth
      BY <1>2, <3>1 DEF AuthMoves
    <3> QED
      BY <2>1, <3>1, <3>2
  <2>2. CASE Starts(d)
    <3>1. auth.daemon = d /\ auth' = auth /\ task'[d].generation = auth.generation
      BY <2>2 DEF Starts, Holds
    <3>2. auth = [daemon |-> auth.daemon, generation |-> auth.generation]
      BY <1>1 DEF TypeOK, Authority
    <3> QED
      BY <3>1, <3>2
  <2>3. CASE GoesOn(d)
    <3>1. auth = [daemon |-> d, generation |-> task[d].generation] /\ auth' = auth
      BY <1>1, <2>3 DEF TaskIsOwners, Verified, GoesOn
    <3> QED
      BY <2>3, <3>1 DEF GoesOn
  <2> QED
    BY <1>2, <2>1, <2>2, <2>3 DEF TaskMoves
<1>4. AdmissionIsHanded'
  <2> SUFFICES ASSUME NEW d \in Daemon, task'[d].step \in Admission \union {"handed"}
               PROVE  task'[d].id \in handed'
    BY DEF AdmissionIsHanded, Admission
  <2>1. CASE task'[d] = task[d]
    BY <1>1, <1>2, <2>1 DEF AdmissionIsHanded
  <2>2. CASE task'[d] = Idle \/ Starts(d)
    BY <2>2 DEF Idle, Starts, Admission
  <2>3. CASE GoesOn(d)
    <3>1. task'[d].id = task[d].id
      BY <2>3 DEF GoesOn
    <3>2. task'[d].step = "handed" \/ task[d].step \in Admission \union {"handed"}
      BY <2>3 DEF GoesOn, Admission
    <3>3. task'[d].step = "handed" => task[d].id \in handed'
      BY <2>3 DEF GoesOn
    <3> QED
      BY <1>1, <1>2, <3>1, <3>2, <3>3 DEF AdmissionIsHanded
  <2> QED
    BY <1>2, <2>1, <2>2, <2>3 DEF TaskMoves
<1>5. AdmissionIsFresh'
  <2> SUFFICES ASSUME NEW d \in Daemon, task'[d].step \in {"checked", "registered"}
               PROVE  task'[d].id \notin receipt'
    BY DEF AdmissionIsFresh
  <2>1. ASSUME task[d].step \in {"checked", "registered"}, task'[d].id = task[d].id
        PROVE  task'[d].id \notin receipt'
    <3>1. task[d].id \notin receipt
      BY <1>1, <2>1 DEF AdmissionIsFresh
    <3>2. auth.daemon = d
      BY <1>1, <2>1 DEF TaskIsOwners, Verified, Idle
    <3>3. task'[d] # Idle
      BY DEF Idle
    <3> QED
      BY <1>2, <2>1, <3>1, <3>2, <3>3 DEF ReceiptMoves
  <2>2. CASE task'[d] = task[d]
    BY <2>1, <2>2
  <2>3. CASE task'[d] = Idle \/ Starts(d)
    BY <2>3 DEF Idle, Starts
  <2>4. CASE GoesOn(d)
    BY <2>1, <2>4 DEF GoesOn
  <2> QED
    BY <1>2, <2>2, <2>3, <2>4 DEF TaskMoves
<1>6. ExaminedIsFresh'
  <2> SUFFICES ASSUME NEW d \in Daemon, task'[d].step = "examined"
               PROVE  exec'[task'[d].id].state = "none"
    BY DEF ExaminedIsFresh
  <2>1. CASE task'[d] = task[d]
    <3> DEFINE i == task[d].id
    <3>1. i \in Attempt /\ exec[i].state = "none"
      BY <1>1, <2>1, TaskTypes DEF ExaminedIsFresh
    <3>2. ASSUME NEW f \in up, task[f].step = "registered", task[f].id = i
          PROVE  FALSE
      <4>1. f \in Daemon /\ task[f] # Idle /\ task[d] # Idle
        BY <1>1, <2>1, <3>2 DEF TypeOK, Idle
      <4>2. f = d
        BY <1>1, <4>1 DEF TaskIsOwners, Verified
      <4> QED
        BY <2>1, <3>2, <4>2
    <3> QED
      BY <1>2, <2>1, <3>1, <3>2 DEF ExecMoves
  <2>2. CASE task'[d] = Idle
    BY <2>2 DEF Idle
  <2>3. CASE Starts(d)
    BY <2>3 DEF Starts
  <2>4. CASE GoesOn(d)
    BY <2>4 DEF GoesOn
  <2> QED
    BY <1>2, <2>1, <2>2, <2>3, <2>4 DEF TaskMoves
<1> QED
  BY <1>3, <1>4, <1>5, <1>6 DEF Undisturbed

(* An attempt being admitted, handed off and without a receipt, is         *)
(* protected and active.                                                   *)
LEMMA AdmittedIsProtected ==
    ASSUME WorkflowInv, world.sound, NEW d \in up, task[d].step \in Admission,
           task[d].id \notin receipt
    PROVE  /\ Protected(task[d].id) /\ db.attempt[task[d].id] \in Active
           /\ task[d].id \in Attempt
<1>1. d \in Daemon /\ task[d].id \in Attempt
  BY TaskTypes DEF WorkflowInv, TypeOK, Admission
<1>2. task[d].id \in handed
  BY <1>1 DEF WorkflowInv, Undisturbed, AdmissionIsHanded
<1>3. db.attempt[task[d].id] \in Active
  BY DEF WorkflowInv, AdmissionKeepsAttempt, Admission
<1> QED
  BY <1>1, <1>2, <1>3 DEF Protected

LEMMA NextAdmission ==
    ASSUME WorkflowInv, Shape, StoreStep
    PROVE  AdmissionKeepsAttempt'
<1> SUFFICES ASSUME world.sound, NEW d \in up', task'[d].step \in Admission,
                    task'[d].id \notin receipt'
             PROVE  db'.attempt[task'[d].id] \in Active
  BY DEF Shape, AdmissionKeepsAttempt, Admission
<1>1. AuthMoves /\ UpMoves /\ ReceiptMoves /\ TaskMoves
  BY DEF Shape
<1>2. d \in up /\ d \in Daemon
  BY <1>1 DEF UpMoves, WorkflowInv, TypeOK
<1>3. ASSUME task[d].step \in Admission, task'[d].id = task[d].id
      PROVE  db'.attempt[task'[d].id] \in Active
  <2>1. task[d].id \notin receipt
    BY <1>1, <1>3 DEF ReceiptMoves
  <2> QED
    BY <1>2, <1>3, <2>1, AdmittedIsProtected DEF StoreStep
<1>4. CASE task'[d] = task[d]
  BY <1>3, <1>4
<1>5. CASE task'[d] = Idle \/ Starts(d)
  BY <1>5 DEF Idle, Starts, Admission
<1>6. CASE GoesOn(d)
  <2>1. CASE task[d].step \in Admission
    BY <1>3, <1>6, <2>1 DEF GoesOn
  <2>2. CASE task'[d].step = "checked" /\ db.attempt[task[d].id] = "prepared"
    BY <1>6, <2>2 DEF GoesOn, Active
  <2>3. CASE task[d].id \in receipt
    BY <1>1, <1>6, <2>3 DEF GoesOn, ReceiptMoves
  <2> QED
    BY <1>6, <2>1, <2>2, <2>3 DEF GoesOn, Admission
<1> QED
  BY <1>1, <1>2, <1>4, <1>5, <1>6 DEF TaskMoves

LEMMA NextLive ==
    ASSUME WorkflowInv, Shape, StoreStep
    PROVE  LiveIsTracked'
<1> SUFFICES ASSUME world.sound, NEW i \in Attempt, exec'[i].state = "live", ~db'.cancel
             PROVE  i \in handed' /\ db'.attempt[i] \in Active
  BY DEF Shape, LiveIsTracked
<1>1. ExecMoves /\ handed \subseteq handed'
  BY DEF Shape
<1>2. ~db.cancel
  BY DEF StoreStep, Advances, Final
<1>3. CASE exec[i].state = "live"
  <2>1. i \in handed /\ db.attempt[i] \in Active
    BY <1>2, <1>3 DEF WorkflowInv, LiveIsTracked
  <2>2. Protected(i)
    BY <1>2, <1>3, <2>1 DEF Protected
  <2> QED
    BY <1>1, <2>1, <2>2 DEF StoreStep
<1>4. ASSUME NEW d \in up, task[d].step = "registered", task[d].id = i
      PROVE  i \in handed' /\ db'.attempt[i] \in Active
  <2>1. d \in Daemon /\ task[d].step \in Admission
    BY <1>4 DEF WorkflowInv, TypeOK, Admission
  <2>2. i \notin receipt /\ i \in handed
    BY <1>4, <2>1 DEF WorkflowInv, Undisturbed, AdmissionIsFresh, AdmissionIsHanded
  <2>3. Protected(i) /\ db.attempt[i] \in Active
    BY <1>4, <2>1, <2>2, AdmittedIsProtected
  <2> QED
    BY <1>1, <2>2, <2>3 DEF StoreStep
<1> QED
  BY <1>1, <1>3, <1>4 DEF ExecMoves

LEMMA NextInv ==
    ASSUME WorkflowInv, [Next]_vars
    PROVE  WorkflowInv'
<1>1. StoreStep /\ TypeOK' /\ Shape
  BY NextStore, NextTypes, NextShape DEF WorkflowInv
<1>2. Sound(db') /\ PastIsOver(db', exec) /\ BarredRunIsStopped'
  BY <1>1 DEF StoreStep, Advances
<1>3. PastIsOver(db', exec')
  BY <1>1, <1>2, NextPastIsOver
<1>4. ObservedIsTrue' /\ TaskIsUp'
  BY <1>1, NextObserved, NextTaskIsUp
<1>5. world'.sound => Undisturbed'
  BY <1>1, NextUndisturbed DEF Shape
<1>6. AdmissionKeepsAttempt' /\ LiveIsTracked'
  BY <1>1, NextAdmission, NextLive
<1>7. Sound(db)' /\ PastIsOver(db, exec)'
  BY <1>2, <1>3
<1> QED
  BY <1>1, <1>2, <1>4, <1>5, <1>6, <1>7 DEF WorkflowInv

(* A step that ends or moves the task of a daemon that lost the run, or    *)
(* ends a completion of its, writes nothing.                               *)
Stale ==
    \/ \E d \in Daemon :
          /\ task[d] # Idle /\ task'[d] # task[d]
          /\ ~Verified(d, task[d].generation)
    \/ \E c \in completion \ completion' : ~Verified(c.host, c.generation)

LEMMA NextStale ==
    ASSUME WorkflowInv, [Next]_vars, Stale
    PROVE  UNCHANGED storeVars
<1> USE DEF storeVars, ownership, operations, cancels
<1>1. TypeOK /\ \A d \in Daemon : task[d].step = "idle" <=> task[d] = Idle
  BY TypeParts, TaskParts DEF WorkflowInv
(* The stale task is the one that moves. *)
<1>2. ASSUME NEW d \in Daemon, completion' = completion,
             \A f \in Daemon : f # d => task'[f] = task[f]
      PROVE  task[d] # Idle /\ ~Verified(d, task[d].generation)
  BY <1>2 DEF Stale
<1>3. CASE UNCHANGED vars
  BY <1>3 DEF vars
<1>4. ASSUME NEW i \in Attempt, Finish(i) PROVE UNCHANGED storeVars
  BY <1>4 DEF Finish
<1>5. ASSUME NEW d \in Daemon, Crash(d) PROVE UNCHANGED storeVars
  BY <1>5 DEF Crash
<1>6. ASSUME NEW d \in Daemon, Control(d) PROVE UNCHANGED storeVars
  <2>1. UNCHANGED <<task, completion>>
    BY <1>6 DEF Control, Pause, Resume, RequestCancellation, CancelNeverDispatched, Signal,
                MarkSignalled, SettleOrphan, Retry, Repair, ResumeRecovered, TakeOver
  <2> QED
    BY <2>1 DEF Stale
<1>7. ASSUME NEW d \in Daemon, Drive(d) PROVE UNCHANGED storeVars
  <2>1. ASSUME NEW i \in Attempt, Prepare(d, i) PROVE UNCHANGED storeVars
    <3>1. completion' = completion /\ task[d] = Idle
      BY <1>1, <2>1 DEF Prepare, At
    <3>2. \A f \in Daemon : f # d => task'[f] = task[f]
      BY <1>1, <2>1, DoTypes, AuthTypes DEF Prepare
    <3> QED
      BY <1>2, <3>1, <3>2
  <2>2. ASSUME NEW i \in Attempt, Redispatch(d, i) \/ Examine(d, i) PROVE UNCHANGED storeVars
    BY <2>2 DEF Redispatch, Examine
  <2>3. CASE Handoff(d)
    <3>1. /\ completion' = completion /\ db' = db /\ receipt' = receipt
          /\ task[d].id \in Attempt /\ task[d].generation \in 1 .. MaxGeneration
      BY <1>1, <2>3, TaskTypes DEF Handoff, At
    <3>2. \A f \in Daemon : f # d => task'[f] = task[f]
      BY <1>1, <2>3, <3>1, DoTypes, GiveUpTypes DEF Handoff
    <3>3. ~Verified(d, task[d].generation)
      BY <1>2, <3>1, <3>2
    <3>4. handed' = handed
      BY <2>3, <3>3 DEF Handoff, CanHandOff
    <3> QED
      BY <3>1, <3>4
  <2>4. CASE \/ CheckOwner(d) \/ Register(d) \/ Submit(d) \/ SubmitLost(d)
             \/ AdmissionFails(d) \/ \E i, j \in Attempt : Observe(d, i, j)
    BY <2>4 DEF CheckOwner, Register, Submit, SubmitLost, AdmissionFails, Observe
  <2>5. CASE PersistReceipt(d)
    <3>1. completion' = completion /\ handed' = handed
      BY <2>5 DEF PersistReceipt
    <3>2. \A f \in Daemon : f # d => task'[f] = task[f]
      BY <1>1, <2>5, GiveUpTypes DEF PersistReceipt
    <3>3. ~Verified(d, task[d].generation)
      BY <1>2, <3>1, <3>2
    <3> QED
      BY <2>5, <3>1, <3>3 DEF PersistReceipt
  <2>6. ASSUME NEW c \in completion, Complete(d, c) PROVE UNCHANGED storeVars
    <3>1. task' = task /\ completion' = completion \ {c} /\ c.host = d /\ handed' = handed
      BY <2>6 DEF Complete, Retire
    <3>2. ~Verified(d, c.generation)
      BY <3>1 DEF Stale
    <3> QED
      BY <2>6, <3>1, <3>2 DEF Complete
  <2>7. ASSUME NEW c \in completion, CompleteFails(d, c) PROVE UNCHANGED storeVars
    BY <2>7 DEF CompleteFails
  <2>8. ASSUME NEW i \in Attempt, RecoverReceipt(d, i) PROVE UNCHANGED storeVars
    <3>1. UNCHANGED <<task, completion>>
      BY <2>8 DEF RecoverReceipt
    <3> QED
      BY <3>1 DEF Stale
  <2>9. CASE Classify(d)
    <3>1. /\ completion' = completion /\ handed' = handed /\ receipt' = receipt
          /\ task[d].id \in Attempt /\ task[d].generation \in 1 .. MaxGeneration
      BY <1>1, <2>9, TaskTypes DEF Classify, At
    <3>2. \A f \in Daemon : f # d => task'[f] = task[f]
      BY <1>1, <2>9, <3>1, DoTypes, GiveUpTypes DEF Classify
    <3>3. ~Verified(d, task[d].generation)
      BY <1>2, <3>1, <3>2
    <3> QED
      BY <2>9, <3>1, <3>3 DEF Classify
  <2>10. CASE Reconcile(d)
    <3>1. completion' = completion /\ handed' = handed /\ receipt' = receipt
      BY <2>10 DEF Reconcile
    <3>2. \A f \in Daemon : f # d => task'[f] = task[f]
      BY <1>1, <2>10, GiveUpTypes DEF Reconcile
    <3>3. ~Verified(d, task[d].generation)
      BY <1>2, <3>1, <3>2
    <3> QED
      BY <2>10, <3>1, <3>3 DEF Reconcile
  <2> QED
    BY <1>7, <2>1, <2>2, <2>3, <2>4, <2>5, <2>6, <2>7, <2>8, <2>9, <2>10 DEF Drive
<1> QED
  BY <1>3, <1>4, <1>5, <1>6, <1>7 DEF Next

-----------------------------------------------------------------------------
(* The theorems. *)

(* What the properties of the run say follows from the invariant.          *)
LEMMA OneUnsettledFollows ==
    ASSUME WorkflowInv
    PROVE  OneUnsettledAttempt
<1> SUFFICES ASSUME NEW i \in Attempt, db.attempt[i] \in Unsettled
             PROVE  LatestAttempt(i) /\ db.act[ActivationOf(i)] = "running"
  BY DEF OneUnsettledAttempt
<1>1. /\ db.act[i[1]] = "running"
      /\ \A j \in Attempt : i[1] = j[1] /\ i[2] < j[2] => db.attempt[j] = "none"
  BY DEF WorkflowInv, Sound, UnsettledIsLast
<1>2. ASSUME i[2] <= RetryCap PROVE db.attempt[<<i[1], i[2] + 1>>] = "none"
  <2> DEFINE j == <<i[1], i[2] + 1>>
  <2>1. i[1] \in Activation /\ i[2] \in Nat /\ i[2] >= 1
    BY AttemptParts
  <2>2. i[2] + 1 \in 1 .. RetryCap + 1
    BY <1>2, <2>1, WorkflowConstants
  <2>3. j \in Attempt /\ j[1] = i[1] /\ j[2] = i[2] + 1
    BY <2>1, <2>2, AttemptParts
  <2> HIDE DEF j
  <2>4. db.attempt[j] = "none"
    BY <1>1, <2>1, <2>3
  <2> QED
    BY <2>4 DEF j
<1> QED
  BY <1>1, <1>2, StatusKinds DEF LatestAttempt, ActivationOf

LEMMA NoSilentReplayFollows ==
    ASSUME WorkflowInv
    PROVE  NoSilentReplay
<1> SUFFICES ASSUME NEW i \in Attempt, NEW j \in Attempt, i[1] = j[1], i[2] < j[2],
                    db.attempt[j] # "none", exec[i].state \in {"live", "succeeded", "lost"}
             PROVE  db.attempt[i] = "abandoned"
  BY DEF NoSilentReplay, ActivationOf
<1>1. db.attempt[i] # "none"
  BY DEF WorkflowInv, Sound, NoGaps
<1>2. Past(db, i)
  BY <1>1 DEF Past
<1> QED
  BY <1>2 DEF WorkflowInv, PastIsOver

(* The inductive invariant holds in every state the store, the daemons and *)
(* the operators can reach.                                                *)
THEOREM WorkflowInvariant == Spec => []WorkflowInv
BY InitInv, NextInv, PTL DEF Spec

(* Every variable keeps its type: in particular no transaction writes a    *)
(* status its column does not have, and no task goes on without the        *)
(* attempt and the authority it captured.                                  *)
THEOREM WorkflowTypes == Spec => []TypeOK
<1>1. WorkflowInv => TypeOK
  BY DEF WorkflowInv
<1> QED BY <1>1, WorkflowInvariant, PTL

(* prepare_pending_activation, apply_attempt_observation, cancellation and *)
(* repair_attempt together never leave two unsettled attempts of an        *)
(* activation.                                                             *)
THEOREM AttemptsAreExclusive == Spec => []OneUnsettledAttempt
BY WorkflowInvariant, OneUnsettledFollows, PTL

(* The run's repair_required status and its attempts' agree.               *)
THEOREM RepairStatusAgrees == Spec => []RepairIsPinned
<1>1. WorkflowInv => RepairIsPinned
  BY DEF WorkflowInv, Sound, Pinned, RepairIsPinned
<1> QED BY <1>1, WorkflowInvariant, PTL

(* persist_validated_output and finalize_run_cancellation_if_settled close *)
(* a run only over settled attempts, and nothing reopens one under it.     *)
THEOREM EndedRunsAreSettled == Spec => []TerminalRunIsSettled
<1>1. WorkflowInv => TerminalRunIsSettled
  BY DEF WorkflowInv, Sound, EndedIsSettled, TerminalRunIsSettled
<1> QED BY <1>1, WorkflowInvariant, PTL

(* The recovery barrier of a run that changed artifacts is respected by    *)
(* every transaction that sets a run going.                                *)
THEOREM BarrierHolds == Spec => []BarredRunIsStopped
<1>1. WorkflowInv => BarredRunIsStopped
  BY DEF WorkflowInv
<1> QED BY <1>1, WorkflowInvariant, PTL

(* An activation is not attempted again by itself when its last operation  *)
(* may have taken effect, also when owners are wrongly taken for ended.    *)
THEOREM WorkIsNotRepeated == Spec => []NoSilentReplay
BY WorkflowInvariant, NoSilentReplayFollows, PTL

(* While evidence of an owner's end is true, an uncancelled operation that *)
(* runs is waited for by the store.                                        *)
THEOREM RunningWorkIsTracked == Spec => []LiveIsTracked
<1>1. WorkflowInv => LiveIsTracked
  BY DEF WorkflowInv
<1> QED BY <1>1, WorkflowInvariant, PTL

(* ... and settle_orphaned_attempt_cancellation spares what is being       *)
(* admitted, until its receipt is written or the admission given up.       *)
THEOREM AdmissionsAreSpared == Spec => []AdmissionKeepsAttempt
<1>1. WorkflowInv => AdmissionKeepsAttempt
  BY DEF WorkflowInv
<1> QED BY <1>1, WorkflowInvariant, PTL

(* A settled attempt and an ended run are final, whatever arrives late.    *)
THEOREM SettlementsAreFinal == Spec => SettlementIsFinal
<1>1. WorkflowInv /\ [Next]_vars =>
        [/\ \A i \in Attempt : db.attempt[i] \in Settled => db'.attempt[i] = db.attempt[i]
         /\ db.run \in {"completed", "cancelled"} => db'.run = db.run]_vars
  BY NextStore DEF StoreStep, Advances, Final
<1> QED BY <1>1, WorkflowInvariant, PTL DEF Spec, SettlementIsFinal

(* verify_execution_authority fences every transaction of a driver, and of *)
(* a completion, that began before the run changed hands.                  *)
THEOREM FencedOwnersAreSilent == Spec => StaleOwnerWritesNothing
<1>1. WorkflowInv /\ [Next]_vars =>
        [\/ \E d \in Daemon :
              /\ task[d] # Idle /\ task'[d] # task[d]
              /\ ~Verified(d, task[d].generation)
         \/ \E c \in completion \ completion' : ~Verified(c.host, c.generation)
         => UNCHANGED storeVars]_vars
  BY NextStale DEF Stale
<1> QED BY <1>1, WorkflowInvariant, PTL DEF Spec, StaleOwnerWritesNothing
=============================================================================
