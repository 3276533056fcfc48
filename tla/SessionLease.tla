----------------------------- MODULE SessionLease -----------------------------
(***************************************************************************)
(* Cross-process ownership of one session, as packages/session/src/lease.rs *)
(* implements it with advisory file locks and a directory of owner records. *)
(*                                                                         *)
(* Three files protect a session:                                          *)
(*   - the coordinator lock: exclusive while a registration or maintenance *)
(*     inspects the owner directory, shared while a writer writes;         *)
(*   - the write lock: exclusive, around one write critical section;       *)
(*   - one record per registration in the owner directory; the registering *)
(*     process keeps a shared lock on its record's inode, and a record     *)
(*     whose inode can be locked exclusively belongs to nobody.            *)
(*                                                                         *)
(* An agent is one caller inside a daemon process: it holds at most one    *)
(* guard at a time.  Every file-system call another process can observe is *)
(* an action of its own.  The two directory scans that follow pruning are  *)
(* single actions: the coordinator is held, so records can only disappear  *)
(* during a scan, and its answer is the one an instantaneous scan gives at *)
(* the moment the deciding entry (or the end) is read.                     *)
(***************************************************************************)
EXTENDS Naturals, FiniteSets

CONSTANTS
    Agent,          \* callers that can hold a guard
    Daemon,         \* daemon instances; a restarted daemon is another one
    DaemonOf,       \* the daemon instance an agent runs in
    Epoch,          \* storage writer epochs
    EpochOf,        \* the epoch a daemon writes into its lease context
    NoEpoch,        \* a context without an epoch
    Token,          \* lease tokens, the names of the owner records
    NoToken,
    NoRecord,       \* no owner record has this token
    ReuseStamps,    \* may two registrations of a process share a millisecond
    MaxLeftover     \* bound: a removal may fail while this few records exist

(* The directory entry of the record kept in variable legacy.              *)
LegacyEntry == "legacy"

ASSUME LeaseConstants ==
    /\ DaemonOf \in [Agent -> Daemon]
    /\ EpochOf \in [Daemon -> Epoch \union {NoEpoch}]
    /\ NoEpoch \notin Epoch
    /\ NoToken \notin Token
    /\ LegacyEntry \notin Token
    /\ NoRecord \notin Agent
    /\ ReuseStamps \in BOOLEAN
    /\ MaxLeftover \in Nat

VARIABLES
    pc,             \* where each agent is in its current operation
    returned,       \* what the step just taken returned to its caller, if it did
    tok,            \* the token of the guard the agent holds
    todo,           \* directory entries a pruning agent has still to visit
    dir,            \* the owner directory: token -> agent whose inode is linked
    legacy,         \* a record left by an older or foreign build, if any
    legacyAlive,    \* does the process named in that record exist
    coordX,         \* exclusive holder of the coordinator lock
    coordS,         \* shared holders of the coordinator lock
    writeX,         \* exclusive holder of the write lock
    probe           \* record an observer has locked for its liveness test

vars == <<pc, returned, tok, todo, dir, legacy, legacyAlive,
          coordX, coordS, writeX, probe>>

locks == <<coordX, coordS, writeX>>
disk  == <<dir, legacy, legacyAlive>>

-----------------------------------------------------------------------------
(* Types and program points. *)

LegacyKind == {"none", "v2", "unsupported", "malformed"}

(* Points at which the agent holds a registration other processes see.     *)
Guarded == {"acq_unlock", "tr_unlock", "held", "wr_shared", "wr_lock",
            "writing", "wr_unlock"}

(* Points at which the agent holds a SessionMaintenanceGuard.              *)
Maintaining == {"maint", "mwr_lock", "mwriting", "tr_prune", "tr_check",
                "tr_publish"}

Pruning == {"acq_prune", "mnt_prune", "tr_prune"}

(* Points between taking the coordinator and returning.                    *)
Inspecting == {"acq_prune", "acq_check", "acq_publish", "mnt_prune",
               "mnt_check", "tr_prune", "tr_check", "tr_publish"}

HoldsCoordX == Inspecting \union Maintaining
                 \union {"acq_unlock", "tr_unlock", "probing"}
HoldsCoordS == {"wr_lock", "writing", "wr_unlock"}
HoldsWriteX == {"writing", "mwriting"}

(* Points at which no call is in progress.                                 *)
Resting == {"idle", "held", "maint", "dead"}

ProgramPoint == Guarded \union HoldsCoordX \union Resting
                  \union {"acq_lock", "mnt_lock", "dropping"}

Result == {"none", "leased", "owned", "unverifiable", "timeout", "io",
           "missing_epoch", "active", "inactive", "maintaining"}

TypeOK ==
    /\ pc \in [Agent -> ProgramPoint]
    /\ returned \in Result
    /\ tok \in [Agent -> Token \union {NoToken}]
    /\ todo \in [Agent -> SUBSET (Token \union {LegacyEntry})]
    /\ dir \in [Token -> Agent \union {NoRecord}]
    /\ legacy \in LegacyKind
    /\ legacyAlive \in BOOLEAN
    /\ coordX \in SUBSET Agent
    /\ coordS \in SUBSET Agent
    /\ writeX \in SUBSET Agent
    /\ probe \in Token \union {NoToken}

-----------------------------------------------------------------------------
(* Records, tokens and locks. *)

Records == {t \in Token : dir[t] # NoRecord}

(* Mutant: the guard does not keep the file whose lock proves liveness.    *)
OwnerLockNotKept(t) ==
    /\ dir[t] # NoRecord
    /\ pc[dir[t]] \in {"acq_unlock", "tr_unlock"}
    /\ tok[dir[t]] = t

(* The owner keeps the shared lock of its inode until its guard is gone.   *)
OwnerHoldsLock(t) ==
    /\ dir[t] # NoRecord
    /\ pc[dir[t]] \in Guarded \union {"dropping"}
    /\ tok[dir[t]] = t

(* classify_owner_liveness: an exclusive lock that cannot be had is Live.  *)
ClassifiedLive(t) == OwnerHoldsLock(t) \/ probe = t

(* Mutant: any daemon with the same writer epoch is compatible.            *)
SameEpochIsCompatible(owner, d) ==
    EpochOf[owner] # NoEpoch /\ EpochOf[owner] = EpochOf[d]

OwnerIsCompatible(owner, d) ==
    /\ EpochOf[owner] # NoEpoch
    /\ EpochOf[owner] = EpochOf[d]
    /\ owner = d

(* The token is built from the process id, the clock in milliseconds and   *)
(* the session.  A name nobody refers to any more stands for a later time. *)
Fresh(t) == /\ dir[t] = NoRecord
            /\ \A b \in Agent : tok[b] # t
            /\ probe # t

SameProcess(t, a) ==
    /\ dir[t] # NoRecord => DaemonOf[dir[t]] = DaemonOf[a]
    /\ \A b \in Agent : tok[b] = t => DaemonOf[b] = DaemonOf[a]

NewToken(t, a) == Fresh(t) \/ (ReuseStamps /\ SameProcess(t, a))

CoordinatorFree == coordX = {} /\ coordS = {}

Entries == Records \union (IF legacy = "none" THEN {} ELSE {LegacyEntry})

(* The agent continues at p, and the step returns r to the caller.         *)
Return(a, p, r) == pc' = [pc EXCEPT ![a] = p] /\ returned' = r

Goto(a, p) == Return(a, p, "none")

Stay == pc' = pc /\ returned' = "none"

(* The call fails: closing its file handles gives up the coordinator.      *)
Refuse(a, r) == /\ Return(a, "idle", r)
                /\ coordX' = coordX \ {a}
                /\ todo' = [todo EXCEPT ![a] = {}]

-----------------------------------------------------------------------------
Init ==
    /\ pc = [a \in Agent |-> "idle"]
    /\ returned = "none"
    /\ tok = [a \in Agent |-> NoToken]
    /\ todo = [a \in Agent |-> {}]
    /\ dir = [t \in Token |-> NoRecord]
    /\ legacy \in LegacyKind
    /\ legacyAlive \in BOOLEAN
    /\ coordX = {}
    /\ coordS = {}
    /\ writeX = {}
    /\ probe = NoToken

(* acquire_session_lease *)

BeginAcquire(a) ==
    /\ pc[a] = "idle"
    /\ IF EpochOf[DaemonOf[a]] = NoEpoch
         THEN Return(a, "idle", "missing_epoch")
         ELSE Goto(a, "acq_lock")
    /\ UNCHANGED <<tok, todo, disk, locks, probe>>

LockCoordinator(a) ==
    /\ CoordinatorFree
    /\ \/ pc[a] = "acq_lock" /\ Goto(a, "acq_prune")
       \/ pc[a] = "mnt_lock" /\ Goto(a, "mnt_prune")
    /\ coordX' = coordX \union {a}
    /\ todo' = [todo EXCEPT ![a] = Entries]
    /\ UNCHANGED <<tok, disk, coordS, writeX, probe>>

(* Mutant: records are removed without testing whether they are stale.     *)
PruneAnyRecord(a, t) ==
    /\ pc[a] \in Pruning
    /\ t \in todo[a]
    /\ dir[t] # NoRecord
    /\ todo' = [todo EXCEPT ![a] = @ \ {t}]
    /\ dir' = [dir EXCEPT ![t] = NoRecord]
    /\ Stay /\ UNCHANGED <<tok, legacy, legacyAlive, locks, probe>>

(* prune_dead_owner_records, one directory entry at a time.                *)
PruneRecord(a, t) ==
    /\ pc[a] \in Pruning
    /\ t \in todo[a]
    /\ dir[t] # NoRecord
    /\ todo' = [todo EXCEPT ![a] = @ \ {t}]
    /\ dir' = IF ClassifiedLive(t) THEN dir ELSE [dir EXCEPT ![t] = NoRecord]
    /\ Stay /\ UNCHANGED <<tok, legacy, legacyAlive, locks, probe>>

(* The listed record was removed by its owner's Drop: either the listing   *)
(* no longer yields it (or only its classification fails, which is Stale), *)
(* or reading it fails and the call gives up.                              *)
PruneVanished(a, t) ==
    /\ pc[a] \in Pruning
    /\ t \in todo[a]
    /\ dir[t] = NoRecord
    /\ \/ /\ todo' = [todo EXCEPT ![a] = @ \ {t}]
          /\ Stay /\ UNCHANGED coordX
       \/ Refuse(a, "unverifiable")
    /\ UNCHANGED <<tok, disk, coordS, writeX, probe>>

(* Mutant: pruning skips a record it cannot decode.                        *)
PruneSkipsMalformed(a) ==
    /\ pc[a] \in Pruning
    /\ LegacyEntry \in todo[a]
    /\ todo' = [todo EXCEPT ![a] = @ \ {LegacyEntry}]
    /\ legacy' = IF legacy = "v2" /\ ~legacyAlive THEN "none" ELSE legacy
    /\ Stay /\ UNCHANGED <<tok, dir, legacyAlive, locks, probe>>

(* Mutant: a dead schema 2 record is rewritten in place, not removed.      *)
PruneUpgradesRecord(a) ==
    /\ pc[a] \in Pruning
    /\ LegacyEntry \in todo[a]
    /\ todo' = [todo EXCEPT ![a] = @ \ {LegacyEntry}]
    /\ legacy' = IF legacy = "v2" /\ ~legacyAlive THEN "v3" ELSE legacy
    /\ Stay /\ UNCHANGED <<tok, dir, legacyAlive, locks, probe>>

PruneLegacy(a) ==
    /\ pc[a] \in Pruning
    /\ LegacyEntry \in todo[a]
    /\ \/ /\ legacy = "malformed"
          /\ Refuse(a, "unverifiable")
          /\ UNCHANGED legacy
       \/ /\ legacy # "malformed"
          /\ todo' = [todo EXCEPT ![a] = @ \ {LegacyEntry}]
          /\ legacy' = IF legacy = "v2" /\ ~legacyAlive THEN "none" ELSE legacy
          /\ Stay /\ UNCHANGED coordX
    /\ UNCHANGED <<tok, dir, legacyAlive, coordS, writeX, probe>>

PruneDone(a) ==
    /\ todo[a] = {}
    /\ \/ pc[a] = "acq_prune" /\ Goto(a, "acq_check")
       \/ pc[a] = "mnt_prune" /\ Goto(a, "mnt_check")
       \/ pc[a] = "tr_prune" /\ Goto(a, "tr_check")
    /\ UNCHANGED <<tok, todo, disk, locks, probe>>

(* Scans skip what read_owner_metadata cannot decode.                      *)
LegacyReadable == legacy \in {"v2", "unsupported"}

IncompatibleOwner(d) ==
    \/ \E t \in Records : ~OwnerIsCompatible(DaemonOf[dir[t]], d)
    \/ LegacyReadable

(* find_incompatible_owner and the refusal that follows it.                *)
CheckIncompatible(a) ==
    /\ pc[a] = "acq_check"
    /\ \/ /\ IncompatibleOwner(DaemonOf[a])
          /\ Refuse(a, "owned")
       \/ /\ ~IncompatibleOwner(DaemonOf[a])
          /\ Goto(a, "acq_publish")
          /\ UNCHANGED <<todo, coordX>>
    /\ UNCHANGED <<tok, disk, coordS, writeX, probe>>

(* write_owner_metadata: the record is written and locked under a temporary *)
(* name no scan reads, and the rename makes it visible complete and locked. *)
PublishOwner(a) ==
    /\ \/ pc[a] = "acq_publish" /\ Goto(a, "acq_unlock")
       \/ pc[a] = "tr_publish" /\ Goto(a, "tr_unlock")
    /\ \E t \in Token :
         /\ NewToken(t, a)
         /\ dir' = [dir EXCEPT ![t] = a]
         /\ tok' = [tok EXCEPT ![a] = t]
    /\ UNCHANGED <<todo, legacy, legacyAlive, locks, probe>>

UnlockCoordinator(a) ==
    /\ pc[a] \in {"acq_unlock", "tr_unlock"}
    /\ Return(a, "held", "leased")
    /\ coordX' = coordX \ {a}
    /\ UNCHANGED <<tok, todo, disk, coordS, writeX, probe>>

(* Drop of SessionLeaseGuard: the record goes first, then its lock.  The   *)
(* removal is best effort, and takes no coordinator lock.                  *)
DropRecord(a) ==
    /\ pc[a] = "held"
    /\ Goto(a, "dropping")
    /\ \/ dir' = [dir EXCEPT ![tok[a]] = NoRecord]
       \/ Cardinality(Records) <= MaxLeftover /\ UNCHANGED dir
    /\ UNCHANGED <<tok, todo, legacy, legacyAlive, locks, probe>>

DropUnlock(a) ==
    /\ pc[a] = "dropping"
    /\ Goto(a, "idle")
    /\ tok' = [tok EXCEPT ![a] = NoToken]
    /\ UNCHANGED <<todo, disk, locks, probe>>

-----------------------------------------------------------------------------
(* acquire_session_maintenance_guard and the handoff to a lease. *)

BeginMaintenance(a) ==
    /\ pc[a] = "idle"
    /\ Goto(a, "mnt_lock")
    /\ UNCHANGED <<tok, todo, disk, locks, probe>>

(* Mutant: maintenance tolerates the registrations of its own daemon.      *)
CheckOtherOwner(a) ==
    /\ pc[a] \in {"mnt_check", "tr_check"}
    /\ \/ /\ IncompatibleOwner(DaemonOf[a])
          /\ Refuse(a, "owned")
       \/ /\ ~IncompatibleOwner(DaemonOf[a])
          /\ IF pc[a] = "mnt_check" THEN Return(a, "maint", "maintaining")
                                    ELSE Goto(a, "tr_publish")
          /\ UNCHANGED <<todo, coordX>>
    /\ UNCHANGED <<tok, disk, coordS, writeX, probe>>

(* first_owner: any readable record at all.                                *)
CheckFirstOwner(a) ==
    /\ pc[a] \in {"mnt_check", "tr_check"}
    /\ \/ /\ Records # {} \/ LegacyReadable
          /\ Refuse(a, "owned")
       \/ /\ Records = {} /\ ~LegacyReadable
          /\ IF pc[a] = "mnt_check" THEN Return(a, "maint", "maintaining")
                                    ELSE Goto(a, "tr_publish")
          /\ UNCHANGED <<todo, coordX>>
    /\ UNCHANGED <<tok, disk, coordS, writeX, probe>>

(* Mutant: the maintenance guard is dropped before the record is published. *)
TransitionDropsFirst(a) ==
    /\ pc[a] = "maint"
    /\ Goto(a, "tr_prune")
    /\ todo' = [todo EXCEPT ![a] = Entries]
    /\ coordX' = coordX \ {a}
    /\ UNCHANGED <<tok, disk, coordS, writeX, probe>>

(* transition_session_maintenance_to_lease consumes the guard: an error    *)
(* drops it.                                                               *)
BeginTransition(a) ==
    /\ pc[a] = "maint"
    /\ IF EpochOf[DaemonOf[a]] = NoEpoch
         THEN Refuse(a, "missing_epoch")
         ELSE /\ Goto(a, "tr_prune")
              /\ todo' = [todo EXCEPT ![a] = Entries]
              /\ UNCHANGED coordX
    /\ UNCHANGED <<tok, disk, coordS, writeX, probe>>

DropMaintenance(a) ==
    /\ pc[a] = "maint"
    /\ Goto(a, "idle")
    /\ coordX' = coordX \ {a}
    /\ UNCHANGED <<tok, todo, disk, coordS, writeX, probe>>

-----------------------------------------------------------------------------
(* acquire_session_write_lock, under a lease or under maintenance. *)

BeginWrite(a) ==
    /\ \/ pc[a] = "held" /\ Goto(a, "wr_shared")
       \/ pc[a] = "maint" /\ Goto(a, "mwr_lock")
    /\ UNCHANGED <<tok, todo, disk, locks, probe>>

LockShared(a) ==
    /\ pc[a] = "wr_shared"
    /\ coordX = {}
    /\ coordS' = coordS \union {a}
    /\ Goto(a, "wr_lock")
    /\ UNCHANGED <<tok, todo, disk, coordX, writeX, probe>>

LockWrite(a) ==
    /\ writeX = {}
    /\ \/ pc[a] = "wr_lock" /\ Goto(a, "writing")
       \/ pc[a] = "mwr_lock" /\ Goto(a, "mwriting")
    /\ writeX' = writeX \union {a}
    /\ UNCHANGED <<tok, todo, disk, coordX, coordS, probe>>

(* Drop of SessionWriteGuard: the write lock first, then the coordinator.  *)
EndWrite(a) ==
    /\ \/ pc[a] = "writing" /\ Goto(a, "wr_unlock")
       \/ pc[a] = "mwriting" /\ Goto(a, "maint")
    /\ writeX' = writeX \ {a}
    /\ UNCHANGED <<tok, todo, disk, coordX, coordS, probe>>

(* Mutant: ending a write leaves the coordinator locked in shared mode.    *)
UnlockSharedLeaks(a) ==
    /\ pc[a] = "wr_unlock"
    /\ Goto(a, "held")
    /\ UNCHANGED <<tok, todo, disk, locks, probe>>

UnlockShared(a) ==
    /\ pc[a] = "wr_unlock"
    /\ Goto(a, "held")
    /\ coordS' = coordS \ {a}
    /\ UNCHANGED <<tok, todo, disk, coordX, writeX, probe>>

-----------------------------------------------------------------------------
(* Failures: the bounded lock wait, I/O errors, and the death of a daemon. *)

(* A call that is waiting for a lock returns r; what it had is closed.     *)
AbandonLock(a, r) ==
    /\ \/ pc[a] \in {"acq_lock", "mnt_lock"} /\ Return(a, "idle", r)
       \/ pc[a] \in {"wr_shared", "wr_lock"} /\ Return(a, "held", r)
       \/ pc[a] = "mwr_lock" /\ Return(a, "maint", r)
    /\ coordS' = coordS \ {a}
    /\ UNCHANGED <<tok, todo, disk, coordX, writeX, probe>>

LockBusy(a) ==
    \/ pc[a] \in {"acq_lock", "mnt_lock"} /\ ~CoordinatorFree
    \/ pc[a] = "wr_shared" /\ coordX # {}
    \/ pc[a] \in {"wr_lock", "mwr_lock"} /\ writeX # {}

(* Mutant: the wait for a contended lock is not bounded.                   *)
LockWaitsForever(a) == LockBusy(a) /\ FALSE

(* lock_file_bounded gives up after LOCK_WAIT_BUDGET of failed attempts.   *)
LockTimeout(a) == LockBusy(a) /\ AbandonLock(a, "timeout")

(* Any file operation before publication may fail; the handles are closed. *)
IoError(a) ==
    \/ AbandonLock(a, "io")
    \/ /\ pc[a] \in Inspecting
       /\ Refuse(a, "io")
       /\ UNCHANGED <<tok, disk, coordS, writeX, probe>>

(* The process dies: the kernel drops its locks, its records stay.         *)
Crash(d) ==
    LET crew == {a \in Agent : DaemonOf[a] = d}
    IN  /\ \E a \in crew : pc[a] # "dead"
        /\ pc' = [a \in Agent |-> IF a \in crew THEN "dead" ELSE pc[a]]
        /\ returned' = "none"
        /\ tok' = [a \in Agent |-> IF a \in crew THEN NoToken ELSE tok[a]]
        /\ todo' = [a \in Agent |-> IF a \in crew THEN {} ELSE todo[a]]
        /\ coordX' = coordX \ crew
        /\ coordS' = coordS \ crew
        /\ writeX' = writeX \ crew
        /\ UNCHANGED <<disk, probe>>

(* The process named in a schema 2 record ends.                            *)
LegacyExit ==
    /\ legacyAlive
    /\ legacyAlive' = FALSE
    /\ Stay /\ UNCHANGED <<tok, todo, dir, legacy, locks, probe>>

-----------------------------------------------------------------------------
(* Observers. *)

(* active_session_owners and session_owner_observations lock an unowned    *)
(* record exclusively for the length of their liveness test.               *)
ObserveOwner(t) ==
    /\ probe = NoToken
    /\ dir[t] # NoRecord
    /\ ~OwnerHoldsLock(t)
    /\ probe' = t
    /\ Stay /\ UNCHANGED <<tok, todo, disk, locks>>

ObserveDone ==
    /\ probe # NoToken
    /\ probe' = NoToken
    /\ Stay /\ UNCHANGED <<tok, todo, disk, locks>>

(* session_maintenance_is_active: try the coordinator, and give it back.   *)
ProbeMaintenance(a) ==
    /\ pc[a] = "idle"
    /\ \/ /\ CoordinatorFree
          /\ Goto(a, "probing")
          /\ coordX' = coordX \union {a}
       \/ /\ ~CoordinatorFree
          /\ Return(a, "idle", "active")
          /\ UNCHANGED coordX
    /\ UNCHANGED <<tok, todo, disk, coordS, writeX, probe>>

ProbeDone(a) ==
    /\ pc[a] = "probing"
    /\ Return(a, "idle", "inactive")
    /\ coordX' = coordX \ {a}
    /\ UNCHANGED <<tok, todo, disk, coordS, writeX, probe>>

-----------------------------------------------------------------------------
(* The steps of a call that is in progress: the program takes them.        *)
CallStep(a) ==
    \/ LockCoordinator(a)
    \/ \E t \in Token : PruneRecord(a, t) \/ PruneVanished(a, t)
    \/ PruneLegacy(a)
    \/ PruneDone(a)
    \/ CheckIncompatible(a)
    \/ PublishOwner(a)
    \/ UnlockCoordinator(a)
    \/ DropUnlock(a)
    \/ CheckFirstOwner(a)
    \/ LockShared(a)
    \/ LockWrite(a)
    \/ UnlockShared(a)
    \/ LockTimeout(a)
    \/ ProbeDone(a)

(* What callers may do when they please, or never.                         *)
CallerStep(a) ==
    \/ BeginAcquire(a)
    \/ DropRecord(a)
    \/ BeginMaintenance(a)
    \/ BeginTransition(a)
    \/ DropMaintenance(a)
    \/ BeginWrite(a)
    \/ EndWrite(a)
    \/ ProbeMaintenance(a)

Environment ==
    \/ \E a \in Agent : IoError(a)
    \/ \E d \in Daemon : Crash(d)
    \/ LegacyExit
    \/ \E t \in Token : ObserveOwner(t)
    \/ ObserveDone

Next ==
    \/ \E a \in Agent : CallStep(a) \/ CallerStep(a)
    \/ Environment

(* A call in progress keeps running; callers and failures are not forced.  *)
Fairness == \A a \in Agent : WF_vars(CallStep(a))

Spec == Init /\ [][Next]_vars

FairSpec == Spec /\ Fairness

-----------------------------------------------------------------------------
(* Properties. *)

Guards == {a \in Agent : pc[a] \in Guarded}
Maintainers == {a \in Agent : pc[a] \in Maintaining}
Writers == {a \in Agent : pc[a] \in HoldsWriteX}

(* "One daemon instance owns a session at a time": two live registrations  *)
(* always belong to the same daemon, whatever order registrations, drops,  *)
(* crashes, pruning and liveness probes happen in.                         *)
SingleOwnerDaemon ==
    \A a, b \in Guards : DaemonOf[a] = DaemonOf[b]

(* Maintenance "cannot run underneath a live owner": while an agent holds  *)
(* the maintenance guard, nobody has a registration or another guard, and  *)
(* nobody else is inside a write critical section.                         *)
MaintenanceExclusive ==
    \A m \in Maintainers :
        /\ Guards = {}
        /\ Maintainers = {m}
        /\ Writers \subseteq {m}

(* A held registration is visible to every other process: its own record,  *)
(* locked by its owner, is linked in the owner directory.  Neither pruning *)
(* nor the removal of another guard's record ever takes it away.           *)
RecordBacksGuard ==
    \A a \in Guards : tok[a] \in Token /\ dir[tok[a]] = a

(* A record that cannot be classified, or whose process is alive, fails    *)
(* closed: nobody acquires the session while it is there.                  *)
UnsettledOwnerBlocks ==
    legacy \in {"unsupported", "malformed"} \/ (legacy = "v2" /\ legacyAlive)
        => Guards \union Maintainers = {}

(* Pruning removes only records of owners that are gone: a step that takes *)
(* away the record of another agent never takes a locked one.              *)
PruneSparesLiveOwners ==
    [][\A t \in Records : dir'[t] # dir[t] =>
          \/ ~OwnerHoldsLock(t)
          \/ pc[dir[t]] = "held" /\ pc'[dir[t]] = "dropping"]_vars

(* The handoff from maintenance to a lease leaves no gap: an agent that    *)
(* ends maintenance with a lease is registered before the coordinator is   *)
(* free for others.                                                        *)
HandoffHasNoGap ==
    [][\A a \in Agent :
          pc[a] \in {"tr_publish", "tr_unlock"} /\ pc'[a] = "held"
            => RecordBacksGuard' /\ Guards' = {a}]_vars

(* Every call on the lease returns: lock waits are bounded, so no caller   *)
(* hangs behind maintenance or a writer that never ends.                   *)
CallsReturn ==
    \A a \in Agent :
        pc[a] \notin Resting \union HoldsWriteX
            ~> pc[a] \in Resting \union HoldsWriteX

(* The lease files implement the promise SessionOwnership states: an agent *)
(* owns the session from the rename that publishes its record to the       *)
(* removal of that record, and maintains it from the scan that found no    *)
(* owner.                                                                  *)
Ownership == INSTANCE SessionOwnership WITH
    owners <- Guards, maintainer <- Maintainers, writer <- Writers

(* Every behaviour of the lease files is a behaviour of SessionOwnership.  *)
ImplementsOwnership == Ownership!OwnershipSpec

-----------------------------------------------------------------------------
(* The inductive invariant behind the properties above. *)

(* Lock holders are exactly the agents at the points that hold the lock.   *)
LockInv ==
    /\ \A a \in Agent : a \in coordX <=> pc[a] \in HoldsCoordX
    /\ \A a \in Agent : a \in coordS <=> pc[a] \in HoldsCoordS
    /\ \A a \in Agent : a \in writeX <=> pc[a] \in HoldsWriteX
    /\ \A a, b \in coordX : a = b
    /\ coordX # {} => coordS = {}
    /\ \A a, b \in writeX : a = b

(* What a scan has established stays true while the coordinator is held:   *)
(* records can only disappear.                                             *)
ScanInv ==
    /\ \A a \in Agent : pc[a] = "acq_publish" =>
          \A t \in Records : DaemonOf[dir[t]] = DaemonOf[a]
    /\ \A a \in Agent : pc[a] \in Maintaining => Records = {}

(* An undecodable record ends every scan before it can succeed.            *)
LegacyInv ==
    /\ \A a \in Agent : pc[a] \in Pruning /\ legacy = "malformed"
                            => LegacyEntry \in todo[a]
    /\ \A a \in Agent : pc[a] \in {"acq_check", "mnt_check"}
                            => legacy # "malformed"
    /\ \A a \in Agent : pc[a] \in Guarded \union Maintaining \union {"acq_publish"}
                            => legacy = "none"

(* Everything the safety of the lease files rests on: lock ownership by    *)
(* program point, a linked record for every guard, one owning daemon, and  *)
(* the facts a scan leaves behind for the step that follows it.            *)
LeaseInv ==
    /\ TypeOK
    /\ LockInv
    /\ RecordBacksGuard
    /\ SingleOwnerDaemon
    /\ ScanInv
    /\ LegacyInv

=============================================================================
