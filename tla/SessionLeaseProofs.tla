-------------------------- MODULE SessionLeaseProofs --------------------------
(***************************************************************************)
(* Proofs about SessionLease for any number of agents, daemons and tokens, *)
(* on the assumption that lease tokens are unique.                         *)
(***************************************************************************)
EXTENDS SessionLease, TLAPS

(* No step takes a variable out of its type.                               *)
LEMMA TypeStep == TypeOK /\ [Next]_vars => TypeOK'
<1> SUFFICES ASSUME TypeOK, [Next]_vars PROVE TypeOK'
  OBVIOUS
<1> USE LeaseConstants DEF TypeOK, disk, locks, Return, Goto, Refuse, Stay,
      ProgramPoint, Guarded, HoldsCoordX, Inspecting, Maintaining, Resting,
      Result, LegacyKind
<1>1. ASSUME NEW a \in Agent, CallStep(a) PROVE TypeOK'
  <2>1. CASE LockCoordinator(a)
    BY <2>1 DEF LockCoordinator, Entries, Records
  <2>2. ASSUME NEW t \in Token, PruneRecord(a, t) PROVE TypeOK'
    BY <2>2 DEF PruneRecord
  <2>3. ASSUME NEW t \in Token, PruneVanished(a, t) PROVE TypeOK'
    BY <2>3 DEF PruneVanished
  <2>4. CASE PruneLegacy(a)
    BY <2>4 DEF PruneLegacy
  <2>5. CASE PruneDone(a)
    BY <2>5 DEF PruneDone
  <2>6. CASE CheckIncompatible(a)
    BY <2>6 DEF CheckIncompatible
  <2>7. CASE PublishOwner(a)
    BY <2>7 DEF PublishOwner
  <2>8. CASE UnlockCoordinator(a)
    BY <2>8 DEF UnlockCoordinator
  <2>9. CASE DropUnlock(a)
    BY <2>9 DEF DropUnlock
  <2>10. CASE CheckFirstOwner(a)
    BY <2>10 DEF CheckFirstOwner
  <2>11. CASE LockShared(a)
    BY <2>11 DEF LockShared
  <2>12. CASE LockWrite(a)
    BY <2>12 DEF LockWrite
  <2>13. CASE UnlockShared(a)
    BY <2>13 DEF UnlockShared
  <2>14. CASE LockTimeout(a)
    BY <2>14 DEF LockTimeout, AbandonLock
  <2>15. CASE ProbeDone(a)
    BY <2>15 DEF ProbeDone
  <2> QED
    BY <1>1, <2>1, <2>2, <2>3, <2>4, <2>5, <2>6, <2>7, <2>8, <2>9, <2>10,
       <2>11, <2>12, <2>13, <2>14, <2>15 DEF CallStep
<1>2. ASSUME NEW a \in Agent, CallerStep(a) PROVE TypeOK'
  <2>1. CASE BeginAcquire(a)
    BY <2>1 DEF BeginAcquire
  <2>2. CASE DropRecord(a)
    BY <2>2 DEF DropRecord
  <2>3. CASE BeginMaintenance(a)
    BY <2>3 DEF BeginMaintenance
  <2>4. CASE BeginTransition(a)
    BY <2>4 DEF BeginTransition, Entries, Records
  <2>5. CASE DropMaintenance(a)
    BY <2>5 DEF DropMaintenance
  <2>6. CASE BeginWrite(a)
    BY <2>6 DEF BeginWrite
  <2>7. CASE EndWrite(a)
    BY <2>7 DEF EndWrite
  <2>8. CASE ProbeMaintenance(a)
    BY <2>8 DEF ProbeMaintenance
  <2> QED
    BY <1>2, <2>1, <2>2, <2>3, <2>4, <2>5, <2>6, <2>7, <2>8 DEF CallerStep
<1>3. CASE Environment
  <2>1. ASSUME NEW a \in Agent, IoError(a) PROVE TypeOK'
    BY <2>1 DEF IoError, AbandonLock
  <2>2. ASSUME NEW d \in Daemon, Crash(d) PROVE TypeOK'
    BY <2>2 DEF Crash
  <2>3. CASE LegacyExit
    BY <2>3 DEF LegacyExit
  <2>4. ASSUME NEW t \in Token, ObserveOwner(t) PROVE TypeOK'
    BY <2>4 DEF ObserveOwner
  <2>5. CASE ObserveDone
    BY <2>5 DEF ObserveDone
  <2> QED
    BY <1>3, <2>1, <2>2, <2>3, <2>4, <2>5 DEF Environment
<1>4. CASE UNCHANGED vars
  BY <1>4 DEF vars
<1> QED
  BY <1>1, <1>2, <1>3, <1>4 DEF Next

(* Every variable keeps its type (TypeOK), whatever step is taken.         *)
THEOREM TypeCorrect == Spec => []TypeOK
<1>1. Init => TypeOK
  BY LeaseConstants DEF Init, TypeOK, ProgramPoint, Resting, Result, LegacyKind
<1> QED
  BY <1>1, TypeStep, PTL DEF Spec

(* The locks stay with the agents whose program point holds them.          *)
LEMMA LockStep == TypeOK /\ LockInv /\ [Next]_vars => LockInv'
<1> SUFFICES ASSUME TypeOK, LockInv, [Next]_vars PROVE LockInv'
  OBVIOUS
<1> USE LeaseConstants DEF TypeOK, LockInv, HoldsCoordX, HoldsCoordS, HoldsWriteX,
      Inspecting, Maintaining, Pruning, CoordinatorFree,
      Return, Goto, Refuse, Stay, disk, locks
<1>1. ASSUME NEW a \in Agent, CallStep(a) PROVE LockInv'
  <2>1. CASE LockCoordinator(a)
    BY <2>1 DEF LockCoordinator
  <2>2. ASSUME NEW t \in Token, PruneRecord(a, t) PROVE LockInv'
    BY <2>2 DEF PruneRecord
  <2>3. ASSUME NEW t \in Token, PruneVanished(a, t) PROVE LockInv'
    BY <2>3 DEF PruneVanished
  <2>4. CASE PruneLegacy(a)
    BY <2>4 DEF PruneLegacy
  <2>5. CASE PruneDone(a)
    BY <2>5 DEF PruneDone
  <2>6. CASE CheckIncompatible(a)
    BY <2>6 DEF CheckIncompatible
  <2>7. CASE PublishOwner(a)
    BY <2>7 DEF PublishOwner
  <2>8. CASE UnlockCoordinator(a)
    BY <2>8 DEF UnlockCoordinator
  <2>9. CASE DropUnlock(a)
    BY <2>9 DEF DropUnlock
  <2>10. CASE CheckFirstOwner(a)
    BY <2>10 DEF CheckFirstOwner
  <2>11. CASE LockShared(a)
    BY <2>11 DEF LockShared
  <2>12. CASE LockWrite(a)
    BY <2>12 DEF LockWrite
  <2>13. CASE UnlockShared(a)
    BY <2>13 DEF UnlockShared
  <2>14. CASE LockTimeout(a)
    BY <2>14 DEF LockTimeout, AbandonLock, LockBusy
  <2>15. CASE ProbeDone(a)
    BY <2>15 DEF ProbeDone
  <2> QED
    BY <1>1, <2>1, <2>2, <2>3, <2>4, <2>5, <2>6, <2>7, <2>8, <2>9, <2>10, <2>11, <2>12, <2>13,
       <2>14, <2>15 DEF CallStep
<1>2. ASSUME NEW a \in Agent, CallerStep(a) PROVE LockInv'
  <2>1. CASE BeginAcquire(a)
    BY <2>1 DEF BeginAcquire
  <2>2. CASE DropRecord(a)
    BY <2>2 DEF DropRecord
  <2>3. CASE BeginMaintenance(a)
    BY <2>3 DEF BeginMaintenance
  <2>4. CASE BeginTransition(a)
    BY <2>4 DEF BeginTransition
  <2>5. CASE DropMaintenance(a)
    BY <2>5 DEF DropMaintenance
  <2>6. CASE BeginWrite(a)
    BY <2>6 DEF BeginWrite
  <2>7. CASE EndWrite(a)
    BY <2>7 DEF EndWrite
  <2>8. CASE ProbeMaintenance(a)
    BY <2>8 DEF ProbeMaintenance
  <2> QED
    BY <1>2, <2>1, <2>2, <2>3, <2>4, <2>5, <2>6, <2>7, <2>8 DEF CallerStep
<1>3. CASE Environment
  <2>1. ASSUME NEW a \in Agent, IoError(a) PROVE LockInv'
    BY <2>1 DEF IoError, AbandonLock
  <2>2. ASSUME NEW d \in Daemon, Crash(d) PROVE LockInv'
    BY <2>2 DEF Crash
  <2>3. CASE LegacyExit
    BY <2>3 DEF LegacyExit
  <2>4. ASSUME NEW t \in Token, ObserveOwner(t) PROVE LockInv'
    BY <2>4 DEF ObserveOwner
  <2>5. CASE ObserveDone
    BY <2>5 DEF ObserveDone
  <2> QED
    BY <1>3, <2>1, <2>2, <2>3, <2>4, <2>5 DEF Environment
<1>4. CASE UNCHANGED vars
  BY <1>4 DEF vars
<1> QED
  BY <1>1, <1>2, <1>3, <1>4 DEF Next

(* Registrations stay backed by records: a fresh token disturbs no other   *)
(* guard, and a record somebody holds locked is never pruned.              *)
LEMMA RecordStep ==
    ASSUME ~ReuseStamps, TypeOK, RecordBacksGuard, [Next]_vars
    PROVE  RecordBacksGuard'
<1> USE LeaseConstants DEF TypeOK, RecordBacksGuard, Guards, Guarded, Inspecting,
      Pruning, Return, Goto, Refuse, Stay, disk, locks
<1>1. ASSUME NEW a \in Agent, CallStep(a) PROVE RecordBacksGuard'
  <2>1. CASE LockCoordinator(a)
    BY <2>1 DEF LockCoordinator
  <2>2. ASSUME NEW t \in Token, PruneRecord(a, t) PROVE RecordBacksGuard'
    BY <2>2 DEF PruneRecord, ClassifiedLive, OwnerHoldsLock
  <2>3. ASSUME NEW t \in Token, PruneVanished(a, t) PROVE RecordBacksGuard'
    BY <2>3 DEF PruneVanished
  <2>4. CASE PruneLegacy(a)
    BY <2>4 DEF PruneLegacy
  <2>5. CASE PruneDone(a)
    BY <2>5 DEF PruneDone
  <2>6. CASE CheckIncompatible(a)
    BY <2>6 DEF CheckIncompatible
  <2>7. CASE PublishOwner(a)
    BY <2>7 DEF PublishOwner, NewToken, Fresh
  <2>8. CASE UnlockCoordinator(a)
    BY <2>8 DEF UnlockCoordinator
  <2>9. CASE DropUnlock(a)
    BY <2>9 DEF DropUnlock
  <2>10. CASE CheckFirstOwner(a)
    BY <2>10 DEF CheckFirstOwner
  <2>11. CASE LockShared(a)
    BY <2>11 DEF LockShared
  <2>12. CASE LockWrite(a)
    BY <2>12 DEF LockWrite
  <2>13. CASE UnlockShared(a)
    BY <2>13 DEF UnlockShared
  <2>14. CASE LockTimeout(a)
    BY <2>14 DEF LockTimeout, AbandonLock, LockBusy
  <2>15. CASE ProbeDone(a)
    BY <2>15 DEF ProbeDone
  <2> QED
    BY <1>1, <2>1, <2>2, <2>3, <2>4, <2>5, <2>6, <2>7, <2>8, <2>9, <2>10, <2>11, <2>12, <2>13,
       <2>14, <2>15 DEF CallStep
<1>2. ASSUME NEW a \in Agent, CallerStep(a) PROVE RecordBacksGuard'
  <2>1. CASE BeginAcquire(a)
    BY <2>1 DEF BeginAcquire
  <2>2. CASE DropRecord(a)
    BY <2>2 DEF DropRecord
  <2>3. CASE BeginMaintenance(a)
    BY <2>3 DEF BeginMaintenance
  <2>4. CASE BeginTransition(a)
    BY <2>4 DEF BeginTransition
  <2>5. CASE DropMaintenance(a)
    BY <2>5 DEF DropMaintenance
  <2>6. CASE BeginWrite(a)
    BY <2>6 DEF BeginWrite
  <2>7. CASE EndWrite(a)
    BY <2>7 DEF EndWrite
  <2>8. CASE ProbeMaintenance(a)
    BY <2>8 DEF ProbeMaintenance
  <2> QED
    BY <1>2, <2>1, <2>2, <2>3, <2>4, <2>5, <2>6, <2>7, <2>8 DEF CallerStep
<1>3. CASE Environment
  <2>1. ASSUME NEW a \in Agent, IoError(a) PROVE RecordBacksGuard'
    BY <2>1 DEF IoError, AbandonLock
  <2>2. ASSUME NEW d \in Daemon, Crash(d) PROVE RecordBacksGuard'
    BY <2>2 DEF Crash
  <2>3. CASE LegacyExit
    BY <2>3 DEF LegacyExit
  <2>4. ASSUME NEW t \in Token, ObserveOwner(t) PROVE RecordBacksGuard'
    BY <2>4 DEF ObserveOwner
  <2>5. CASE ObserveDone
    BY <2>5 DEF ObserveDone
  <2> QED
    BY <1>3, <2>1, <2>2, <2>3, <2>4, <2>5 DEF Environment
<1>4. CASE UNCHANGED vars
  BY <1>4 DEF vars
<1> QED
  BY <1>1, <1>2, <1>3, <1>4 DEF Next

(* Whoever holds the coordinator keeps what its scan has established.      *)
LEMMA ScanStep ==
    ASSUME TypeOK, LockInv, ScanInv, [Next]_vars
    PROVE  ScanInv'
<1> USE LeaseConstants DEF TypeOK, LockInv, ScanInv, HoldsCoordX, Records,
      Inspecting, Maintaining, Pruning, Return, Goto, Refuse, Stay, disk, locks
<1>1. ASSUME NEW a \in Agent, CallStep(a) PROVE ScanInv'
  <2>1. CASE LockCoordinator(a)
    BY <2>1 DEF LockCoordinator, CoordinatorFree
  <2>2. ASSUME NEW t \in Token, PruneRecord(a, t) PROVE ScanInv'
    BY <2>2 DEF PruneRecord
  <2>3. ASSUME NEW t \in Token, PruneVanished(a, t) PROVE ScanInv'
    BY <2>3 DEF PruneVanished
  <2>4. CASE PruneLegacy(a)
    BY <2>4 DEF PruneLegacy
  <2>5. CASE PruneDone(a)
    BY <2>5 DEF PruneDone
  <2>6. CASE CheckIncompatible(a)
    BY <2>6 DEF CheckIncompatible, IncompatibleOwner, OwnerIsCompatible
  <2>7. CASE PublishOwner(a)
    BY <2>7 DEF PublishOwner
  <2>8. CASE UnlockCoordinator(a)
    BY <2>8 DEF UnlockCoordinator
  <2>9. CASE DropUnlock(a)
    BY <2>9 DEF DropUnlock
  <2>10. CASE CheckFirstOwner(a)
    BY <2>10 DEF CheckFirstOwner
  <2>11. CASE LockShared(a)
    BY <2>11 DEF LockShared
  <2>12. CASE LockWrite(a)
    BY <2>12 DEF LockWrite
  <2>13. CASE UnlockShared(a)
    BY <2>13 DEF UnlockShared
  <2>14. CASE LockTimeout(a)
    BY <2>14 DEF LockTimeout, AbandonLock, LockBusy
  <2>15. CASE ProbeDone(a)
    BY <2>15 DEF ProbeDone
  <2> QED
    BY <1>1, <2>1, <2>2, <2>3, <2>4, <2>5, <2>6, <2>7, <2>8, <2>9, <2>10, <2>11, <2>12, <2>13,
       <2>14, <2>15 DEF CallStep
<1>2. ASSUME NEW a \in Agent, CallerStep(a) PROVE ScanInv'
  <2>1. CASE BeginAcquire(a)
    BY <2>1 DEF BeginAcquire
  <2>2. CASE DropRecord(a)
    BY <2>2 DEF DropRecord
  <2>3. CASE BeginMaintenance(a)
    BY <2>3 DEF BeginMaintenance
  <2>4. CASE BeginTransition(a)
    BY <2>4 DEF BeginTransition
  <2>5. CASE DropMaintenance(a)
    BY <2>5 DEF DropMaintenance
  <2>6. CASE BeginWrite(a)
    BY <2>6 DEF BeginWrite
  <2>7. CASE EndWrite(a)
    BY <2>7 DEF EndWrite
  <2>8. CASE ProbeMaintenance(a)
    BY <2>8 DEF ProbeMaintenance, CoordinatorFree
  <2> QED
    BY <1>2, <2>1, <2>2, <2>3, <2>4, <2>5, <2>6, <2>7, <2>8 DEF CallerStep
<1>3. CASE Environment
  <2>1. ASSUME NEW a \in Agent, IoError(a) PROVE ScanInv'
    BY <2>1 DEF IoError, AbandonLock
  <2>2. ASSUME NEW d \in Daemon, Crash(d) PROVE ScanInv'
    BY <2>2 DEF Crash
  <2>3. CASE LegacyExit
    BY <2>3 DEF LegacyExit
  <2>4. ASSUME NEW t \in Token, ObserveOwner(t) PROVE ScanInv'
    BY <2>4 DEF ObserveOwner
  <2>5. CASE ObserveDone
    BY <2>5 DEF ObserveDone
  <2> QED
    BY <1>3, <2>1, <2>2, <2>3, <2>4, <2>5 DEF Environment
<1>4. CASE UNCHANGED vars
  BY <1>4 DEF vars
<1> QED
  BY <1>1, <1>2, <1>3, <1>4 DEF Next

(* A record of an older build is settled before a scan succeeds.           *)
LEMMA LegacyStep ==
    ASSUME TypeOK, LockInv, LegacyInv, [Next]_vars
    PROVE  LegacyInv'
<1> USE LeaseConstants DEF TypeOK, LockInv, LegacyInv, HoldsCoordX, Guarded, LegacyEntry,
      LegacyKind, Inspecting, Maintaining, Pruning, Return, Goto, Refuse, Stay, disk, locks
<1>1. ASSUME NEW a \in Agent, CallStep(a) PROVE LegacyInv'
  <2>1. CASE LockCoordinator(a)
    BY <2>1 DEF LockCoordinator, Entries
  <2>2. ASSUME NEW t \in Token, PruneRecord(a, t) PROVE LegacyInv'
    BY <2>2 DEF PruneRecord
  <2>3. ASSUME NEW t \in Token, PruneVanished(a, t) PROVE LegacyInv'
    BY <2>3 DEF PruneVanished
  <2>4. CASE PruneLegacy(a)
    BY <2>4 DEF PruneLegacy
  <2>5. CASE PruneDone(a)
    BY <2>5 DEF PruneDone
  <2>6. CASE CheckIncompatible(a)
    BY <2>6 DEF CheckIncompatible, IncompatibleOwner, LegacyReadable
  <2>7. CASE PublishOwner(a)
    BY <2>7 DEF PublishOwner
  <2>8. CASE UnlockCoordinator(a)
    BY <2>8 DEF UnlockCoordinator
  <2>9. CASE DropUnlock(a)
    BY <2>9 DEF DropUnlock
  <2>10. CASE CheckFirstOwner(a)
    BY <2>10 DEF CheckFirstOwner, LegacyReadable
  <2>11. CASE LockShared(a)
    BY <2>11 DEF LockShared
  <2>12. CASE LockWrite(a)
    BY <2>12 DEF LockWrite
  <2>13. CASE UnlockShared(a)
    BY <2>13 DEF UnlockShared
  <2>14. CASE LockTimeout(a)
    BY <2>14 DEF LockTimeout, AbandonLock, LockBusy
  <2>15. CASE ProbeDone(a)
    BY <2>15 DEF ProbeDone
  <2> QED
    BY <1>1, <2>1, <2>2, <2>3, <2>4, <2>5, <2>6, <2>7, <2>8, <2>9, <2>10, <2>11, <2>12, <2>13,
       <2>14, <2>15 DEF CallStep
<1>2. ASSUME NEW a \in Agent, CallerStep(a) PROVE LegacyInv'
  <2>1. CASE BeginAcquire(a)
    BY <2>1 DEF BeginAcquire
  <2>2. CASE DropRecord(a)
    BY <2>2 DEF DropRecord
  <2>3. CASE BeginMaintenance(a)
    BY <2>3 DEF BeginMaintenance
  <2>4. CASE BeginTransition(a)
    BY <2>4 DEF BeginTransition, Entries
  <2>5. CASE DropMaintenance(a)
    BY <2>5 DEF DropMaintenance
  <2>6. CASE BeginWrite(a)
    BY <2>6 DEF BeginWrite
  <2>7. CASE EndWrite(a)
    BY <2>7 DEF EndWrite
  <2>8. CASE ProbeMaintenance(a)
    BY <2>8 DEF ProbeMaintenance
  <2> QED
    BY <1>2, <2>1, <2>2, <2>3, <2>4, <2>5, <2>6, <2>7, <2>8 DEF CallerStep
<1>3. CASE Environment
  <2>1. ASSUME NEW a \in Agent, IoError(a) PROVE LegacyInv'
    BY <2>1 DEF IoError, AbandonLock
  <2>2. ASSUME NEW d \in Daemon, Crash(d) PROVE LegacyInv'
    BY <2>2 DEF Crash
  <2>3. CASE LegacyExit
    BY <2>3 DEF LegacyExit
  <2>4. ASSUME NEW t \in Token, ObserveOwner(t) PROVE LegacyInv'
    BY <2>4 DEF ObserveOwner
  <2>5. CASE ObserveDone
    BY <2>5 DEF ObserveDone
  <2> QED
    BY <1>3, <2>1, <2>2, <2>3, <2>4, <2>5 DEF Environment
<1>4. CASE UNCHANGED vars
  BY <1>4 DEF vars
<1> QED
  BY <1>1, <1>2, <1>3, <1>4 DEF Next

(* Only publication adds a registration, and its scan saw one daemon.      *)
LEMMA OwnerStep ==
    ASSUME TypeOK, RecordBacksGuard, ScanInv, SingleOwnerDaemon, [Next]_vars
    PROVE  SingleOwnerDaemon'
<1> USE LeaseConstants DEF TypeOK, RecordBacksGuard, ScanInv, SingleOwnerDaemon, Guards,
      Guarded, Records, Inspecting, Maintaining, Return, Goto, Refuse, Stay, disk, locks
<1>1. ASSUME NEW a \in Agent, CallStep(a) PROVE SingleOwnerDaemon'
  <2>1. CASE LockCoordinator(a)
    BY <2>1 DEF LockCoordinator
  <2>2. ASSUME NEW t \in Token, PruneRecord(a, t) PROVE SingleOwnerDaemon'
    BY <2>2 DEF PruneRecord
  <2>3. ASSUME NEW t \in Token, PruneVanished(a, t) PROVE SingleOwnerDaemon'
    BY <2>3 DEF PruneVanished
  <2>4. CASE PruneLegacy(a)
    BY <2>4 DEF PruneLegacy
  <2>5. CASE PruneDone(a)
    BY <2>5 DEF PruneDone
  <2>6. CASE CheckIncompatible(a)
    BY <2>6 DEF CheckIncompatible
  <2>7. CASE PublishOwner(a)
    BY <2>7 DEF PublishOwner
  <2>8. CASE UnlockCoordinator(a)
    BY <2>8 DEF UnlockCoordinator
  <2>9. CASE DropUnlock(a)
    BY <2>9 DEF DropUnlock
  <2>10. CASE CheckFirstOwner(a)
    BY <2>10 DEF CheckFirstOwner
  <2>11. CASE LockShared(a)
    BY <2>11 DEF LockShared
  <2>12. CASE LockWrite(a)
    BY <2>12 DEF LockWrite
  <2>13. CASE UnlockShared(a)
    BY <2>13 DEF UnlockShared
  <2>14. CASE LockTimeout(a)
    BY <2>14 DEF LockTimeout, AbandonLock, LockBusy
  <2>15. CASE ProbeDone(a)
    BY <2>15 DEF ProbeDone
  <2> QED
    BY <1>1, <2>1, <2>2, <2>3, <2>4, <2>5, <2>6, <2>7, <2>8, <2>9, <2>10, <2>11, <2>12, <2>13,
       <2>14, <2>15 DEF CallStep
<1>2. ASSUME NEW a \in Agent, CallerStep(a) PROVE SingleOwnerDaemon'
  <2>1. CASE BeginAcquire(a)
    BY <2>1 DEF BeginAcquire
  <2>2. CASE DropRecord(a)
    BY <2>2 DEF DropRecord
  <2>3. CASE BeginMaintenance(a)
    BY <2>3 DEF BeginMaintenance
  <2>4. CASE BeginTransition(a)
    BY <2>4 DEF BeginTransition
  <2>5. CASE DropMaintenance(a)
    BY <2>5 DEF DropMaintenance
  <2>6. CASE BeginWrite(a)
    BY <2>6 DEF BeginWrite
  <2>7. CASE EndWrite(a)
    BY <2>7 DEF EndWrite
  <2>8. CASE ProbeMaintenance(a)
    BY <2>8 DEF ProbeMaintenance
  <2> QED
    BY <1>2, <2>1, <2>2, <2>3, <2>4, <2>5, <2>6, <2>7, <2>8 DEF CallerStep
<1>3. CASE Environment
  <2>1. ASSUME NEW a \in Agent, IoError(a) PROVE SingleOwnerDaemon'
    BY <2>1 DEF IoError, AbandonLock
  <2>2. ASSUME NEW d \in Daemon, Crash(d) PROVE SingleOwnerDaemon'
    BY <2>2 DEF Crash
  <2>3. CASE LegacyExit
    BY <2>3 DEF LegacyExit
  <2>4. ASSUME NEW t \in Token, ObserveOwner(t) PROVE SingleOwnerDaemon'
    BY <2>4 DEF ObserveOwner
  <2>5. CASE ObserveDone
    BY <2>5 DEF ObserveDone
  <2> QED
    BY <1>3, <2>1, <2>2, <2>3, <2>4, <2>5 DEF Environment
<1>4. CASE UNCHANGED vars
  BY <1>4 DEF vars
<1> QED
  BY <1>1, <1>2, <1>3, <1>4 DEF Next

(* LeaseInv holds in every reachable state.                                *)
THEOREM LeaseInvariant == ASSUME ~ReuseStamps PROVE Spec => []LeaseInv
<1>1. Init => LeaseInv
  BY LeaseConstants DEF Init, LeaseInv, TypeOK, LockInv, RecordBacksGuard, SingleOwnerDaemon,
     ScanInv, LegacyInv, Guards, ProgramPoint, Resting, Result, LegacyKind, Guarded,
     HoldsCoordX, HoldsCoordS, HoldsWriteX, Inspecting, Maintaining, Pruning
<1>2. LeaseInv /\ [Next]_vars => LeaseInv'
  BY TypeStep, LockStep, RecordStep, ScanStep, LegacyStep, OwnerStep DEF LeaseInv
<1> QED
  BY <1>1, <1>2, PTL DEF Spec

(* One daemon owns the session at a time: SingleOwnerDaemon for any number *)
(* of agents, daemons, tokens and leftover records.                        *)
THEOREM OneOwnerDaemon == ASSUME ~ReuseStamps PROVE Spec => []SingleOwnerDaemon
<1>1. LeaseInv => SingleOwnerDaemon
  BY DEF LeaseInv
<1> QED
  BY <1>1, LeaseInvariant, PTL

(* A guard's own record stays linked while it is held: RecordBacksGuard.   *)
THEOREM RecordsBackGuards == ASSUME ~ReuseStamps PROVE Spec => []RecordBacksGuard
<1>1. LeaseInv => RecordBacksGuard
  BY DEF LeaseInv
<1> QED
  BY <1>1, LeaseInvariant, PTL

(* Maintenance never overlaps a registration, another maintenance guard or *)
(* a foreign writer: MaintenanceExclusive.                                 *)
LEMMA MaintenanceFromInv == LeaseInv => MaintenanceExclusive
<1> SUFFICES ASSUME LeaseInv, NEW m \in Maintainers
             PROVE  Guards = {} /\ Maintainers = {m} /\ Writers \subseteq {m}
  BY DEF MaintenanceExclusive
<1> USE DEF LeaseInv, TypeOK, Maintainers
<1>1. Records = {}
  BY DEF ScanInv
<1>2. Guards = {}
  BY <1>1, LeaseConstants DEF RecordBacksGuard, Records, Guards
<1>3. \A b \in Maintainers : b \in coordX
  BY DEF LockInv, HoldsCoordX
<1>4. Maintainers = {m}
  BY <1>3 DEF LockInv
<1>5. Writers \subseteq Guards \union Maintainers
  BY DEF Writers, Guards, HoldsWriteX, Guarded, Maintaining
<1> QED
  BY <1>2, <1>4, <1>5

(* Nothing else happens to a session under maintenance: MaintenanceExclusive. *)
THEOREM MaintenanceIsExclusive == ASSUME ~ReuseStamps PROVE Spec => []MaintenanceExclusive
<1> QED
  BY MaintenanceFromInv, LeaseInvariant, PTL

(* A record that is alive or cannot be classified keeps everyone out:      *)
(* UnsettledOwnerBlocks.                                                   *)
THEOREM UnsettledRecordsBlock == ASSUME ~ReuseStamps PROVE Spec => []UnsettledOwnerBlocks
<1>1. LeaseInv => UnsettledOwnerBlocks
  BY DEF LeaseInv, LegacyInv, UnsettledOwnerBlocks, Guards, Maintainers
<1> QED
  BY <1>1, LeaseInvariant, PTL

(* A step that moves one agent between points with the same standing       *)
(* changes nothing SessionOwnership speaks of.                             *)
LEMMA QuietMove ==
    ASSUME TypeOK, NEW a \in Agent, NEW p,
           pc' = [pc EXCEPT ![a] = p],
           p \in Guarded <=> pc[a] \in Guarded,
           p \in Maintaining <=> pc[a] \in Maintaining,
           p \in HoldsWriteX <=> pc[a] \in HoldsWriteX
    PROVE  UNCHANGED Ownership!ownershipVars
BY DEF TypeOK, Guards, Maintainers, Writers, Ownership!ownershipVars

(* A call that gives up during the handoff ends the maintenance; any other *)
(* refused call had no standing.                                           *)
LEMMA RefusalRefines ==
    ASSUME LeaseInv, NEW a \in Agent, NEW r, Refuse(a, r),
           pc[a] \in Inspecting \union {"maint"}
    PROVE  [Ownership!OwnershipNext]_(Ownership!ownershipVars)
<1> USE DEF LeaseInv, TypeOK, Refuse, Return
<1>1. CASE pc[a] \notin Maintaining
  BY <1>1, QuietMove DEF Inspecting, Guarded, Maintaining, HoldsWriteX
<1>2. CASE pc[a] \in Maintaining
  <2>1. Maintainers = {a} /\ Guards = {} /\ a \notin Writers
    BY <1>2, MaintenanceFromInv
       DEF MaintenanceExclusive, Maintainers, Writers, Inspecting, HoldsWriteX
  <2>2. Maintainers' = {} /\ Guards' = Guards /\ Writers' = Writers
    BY <1>2, <2>1 DEF Maintainers, Writers, Guards, Maintaining, HoldsWriteX, Guarded
  <2>3. Ownership!EndMaintenance(a)
    BY <2>1, <2>2 DEF Ownership!EndMaintenance
  <2> QED
    BY <2>3 DEF Ownership!OwnershipNext
<1> QED
  BY <1>1, <1>2

(* Publishing a record is the moment of ownership: of an agent joining the *)
(* owners of its daemon, or of the maintainer becoming the owner.          *)
LEMMA PublishRefines ==
    ASSUME LeaseInv, NEW a \in Agent, PublishOwner(a)
    PROVE  Ownership!OwnershipNext
<1> USE DEF LeaseInv, TypeOK, PublishOwner, Goto, Return
<1>1. CASE pc[a] = "acq_publish"
  <2>1. \A b \in Guards : DaemonOf[b] = DaemonOf[a]
    BY <1>1, LeaseConstants DEF ScanInv, RecordBacksGuard, Records, Guards
  <2>2. a \in coordX
    BY <1>1 DEF LockInv, HoldsCoordX, Inspecting
  <2>3. Maintainers = {}
    BY <1>1, <2>2 DEF LockInv, HoldsCoordX, Maintainers, Maintaining
  <2>4. Guards' = Guards \union {a} /\ Maintainers' = Maintainers /\ Writers' = Writers
    BY <1>1 DEF Guards, Maintainers, Writers, Guarded, Maintaining, HoldsWriteX
  <2>5. Ownership!Own(a)
    BY <2>1, <2>3, <2>4 DEF Ownership!Own
  <2> QED
    BY <2>5 DEF Ownership!OwnershipNext
<1>2. CASE pc[a] = "tr_publish"
  <2>1. Maintainers = {a} /\ Guards = {} /\ Writers \subseteq {a} /\ a \notin Writers
    BY <1>2, MaintenanceFromInv
       DEF MaintenanceExclusive, Maintainers, Maintaining, Writers, HoldsWriteX
  <2>2. Guards' = {a} /\ Maintainers' = {} /\ Writers' = Writers
    BY <1>2, <2>1 DEF Guards, Maintainers, Writers, Guarded, Maintaining, HoldsWriteX
  <2>3. Ownership!HandOver(a)
    BY <2>1, <2>2 DEF Ownership!HandOver
  <2> QED
    BY <2>3 DEF Ownership!OwnershipNext
<1> QED
  BY <1>1, <1>2

(* A successful scan for maintenance starts it on a session nobody owns.   *)
LEMMA MaintenanceScanRefines ==
    ASSUME LeaseInv, LeaseInv', NEW a \in Agent, CheckFirstOwner(a)
    PROVE  [Ownership!OwnershipNext]_(Ownership!ownershipVars)
<1> USE DEF LeaseInv, TypeOK, CheckFirstOwner, Goto, Return
<1>1. CASE Refuse(a, "owned")
  BY <1>1, RefusalRefines DEF Inspecting
<1>2. CASE pc[a] = "mnt_check" /\ Records = {} /\ pc' = [pc EXCEPT ![a] = "maint"]
  <2>1. Guards = {}
    BY <1>2, LeaseConstants DEF RecordBacksGuard, Records, Guards
  <2>2. a \in coordX
    BY <1>2 DEF LockInv, HoldsCoordX, Inspecting
  <2>3. Maintainers = {}
    BY <1>2, <2>2 DEF LockInv, HoldsCoordX, Maintainers, Maintaining
  <2>4. Writers = {}
    BY <2>1, <2>3 DEF Writers, Guards, Maintainers, HoldsWriteX, Guarded, Maintaining
  <2>5. Guards' = Guards /\ Maintainers' = {a} /\ Writers' = Writers
    BY <1>2, <2>3 DEF Guards, Maintainers, Writers, Guarded, Maintaining, HoldsWriteX
  <2>6. Ownership!Maintain(a)
    BY <2>1, <2>3, <2>4, <2>5 DEF Ownership!Maintain
  <2> QED
    BY <2>6 DEF Ownership!OwnershipNext
<1>3. CASE pc[a] = "tr_check" /\ pc' = [pc EXCEPT ![a] = "tr_publish"]
  BY <1>3, QuietMove DEF Guarded, Maintaining, HoldsWriteX
<1> QED
  BY <1>1, <1>2, <1>3

(* The write lock is what StartWriting and StopWriting speak of.           *)
LEMMA WriteRefines ==
    ASSUME LeaseInv, NEW a \in Agent, LockWrite(a) \/ EndWrite(a)
    PROVE  Ownership!OwnershipNext
<1> USE DEF LeaseInv, TypeOK, Goto, Return
<1>1. \A b \in Agent : b \in Writers <=> b \in writeX
  BY DEF LockInv, Writers
<1>2. CASE LockWrite(a)
  <2>1. Writers = {}
    BY <1>1, <1>2 DEF LockWrite, Writers
  <2>2. a \in Guards \union Maintainers
    BY <1>2 DEF LockWrite, Guards, Maintainers, Guarded, Maintaining
  <2>3. Guards' = Guards /\ Maintainers' = Maintainers /\ Writers' = {a}
    BY <1>2, <2>1
       DEF LockWrite, Guards, Maintainers, Writers, Guarded, Maintaining, HoldsWriteX
  <2>4. Ownership!StartWriting(a)
    BY <2>1, <2>2, <2>3 DEF Ownership!StartWriting
  <2> QED
    BY <2>4 DEF Ownership!OwnershipNext
<1>3. CASE EndWrite(a)
  <2>1. Writers = {a}
    BY <1>1, <1>3 DEF EndWrite, LockInv, Writers, HoldsWriteX
  <2>2. Guards' = Guards /\ Maintainers' = Maintainers /\ Writers' = {}
    BY <1>3, <2>1
       DEF EndWrite, Guards, Maintainers, Writers, Guarded, Maintaining, HoldsWriteX
  <2>3. Ownership!StopWriting(a)
    BY <2>1, <2>2 DEF Ownership!StopWriting
  <2> QED
    BY <2>3 DEF Ownership!OwnershipNext
<1> QED
  BY <1>2, <1>3

(* Every step of the lease files is a step of SessionOwnership or none.    *)
LEMMA OwnershipStep ==
    ASSUME LeaseInv, LeaseInv', [Next]_vars
    PROVE  [Ownership!OwnershipNext]_(Ownership!ownershipVars)
<1> DEFINE Goal == [Ownership!OwnershipNext]_(Ownership!ownershipVars)
<1> USE DEF LeaseInv, TypeOK
<1>0. ASSUME pc' = pc PROVE UNCHANGED Ownership!ownershipVars
  BY <1>0 DEF Guards, Maintainers, Writers, Ownership!ownershipVars
<1>1. ASSUME NEW a \in Agent, CallStep(a) PROVE Goal
  <2>1. CASE LockCoordinator(a)
    BY <2>1, QuietMove DEF LockCoordinator, Goto, Return, Guarded, Maintaining, HoldsWriteX
  <2>2. ASSUME NEW t \in Token, PruneRecord(a, t) PROVE Goal
    BY <2>2, <1>0 DEF PruneRecord, Stay
  <2>3. ASSUME NEW t \in Token, PruneVanished(a, t) PROVE Goal
    BY <2>3, <1>0, RefusalRefines DEF PruneVanished, Stay, Pruning, Inspecting
  <2>4. CASE PruneLegacy(a)
    BY <2>4, <1>0, RefusalRefines DEF PruneLegacy, Stay, Pruning, Inspecting
  <2>5. CASE PruneDone(a)
    BY <2>5, QuietMove DEF PruneDone, Goto, Return, Guarded, Maintaining, HoldsWriteX
  <2>6. CASE CheckIncompatible(a)
    BY <2>6, QuietMove DEF CheckIncompatible, Refuse, Goto, Return, Guarded, Maintaining,
       HoldsWriteX
  <2>7. CASE PublishOwner(a)
    BY <2>7, PublishRefines
  <2>8. CASE UnlockCoordinator(a)
    BY <2>8, QuietMove DEF UnlockCoordinator, Goto, Return, Guarded, Maintaining, HoldsWriteX
  <2>9. CASE DropUnlock(a)
    BY <2>9, QuietMove DEF DropUnlock, Goto, Return, Guarded, Maintaining, HoldsWriteX
  <2>10. CASE CheckFirstOwner(a)
    BY <2>10, MaintenanceScanRefines
  <2>11. CASE LockShared(a)
    BY <2>11, QuietMove DEF LockShared, Goto, Return, Guarded, Maintaining, HoldsWriteX
  <2>12. CASE LockWrite(a)
    BY <2>12, WriteRefines
  <2>13. CASE UnlockShared(a)
    BY <2>13, QuietMove DEF UnlockShared, Goto, Return, Guarded, Maintaining, HoldsWriteX
  <2>14. CASE LockTimeout(a)
    BY <2>14, QuietMove DEF LockTimeout, AbandonLock, Goto, Return, Guarded, Maintaining,
       HoldsWriteX
  <2>15. CASE ProbeDone(a)
    BY <2>15, QuietMove DEF ProbeDone, Goto, Return, Guarded, Maintaining, HoldsWriteX
  <2> QED
    BY <1>1, <2>1, <2>2, <2>3, <2>4, <2>5, <2>6, <2>7, <2>8, <2>9, <2>10, <2>11, <2>12, <2>13,
       <2>14, <2>15 DEF CallStep
<1>2. ASSUME NEW a \in Agent, CallerStep(a) PROVE Goal
  <2>1. CASE BeginAcquire(a)
    BY <2>1, QuietMove DEF BeginAcquire, Goto, Return, Guarded, Maintaining, HoldsWriteX
  <2>2. CASE DropRecord(a)
    <3>1. a \in Guards \ Writers
      BY <2>2 DEF DropRecord, Guards, Writers, Guarded, HoldsWriteX
    <3>2. Guards' = Guards \ {a} /\ Maintainers' = Maintainers /\ Writers' = Writers
      BY <2>2 DEF DropRecord, Goto, Return, Guards, Maintainers, Writers, Guarded, Maintaining,
         HoldsWriteX
    <3>3. Ownership!Disown(a)
      BY <3>1, <3>2 DEF Ownership!Disown
    <3> QED
      BY <3>3 DEF Ownership!OwnershipNext
  <2>3. CASE BeginMaintenance(a)
    BY <2>3, QuietMove DEF BeginMaintenance, Goto, Return, Guarded, Maintaining, HoldsWriteX
  <2>4. CASE BeginTransition(a)
    <3>1. CASE Refuse(a, "missing_epoch")
      BY <2>4, <3>1, RefusalRefines DEF BeginTransition
    <3>2. CASE Goto(a, "tr_prune")
      BY <2>4, <3>2, QuietMove DEF BeginTransition, Goto, Return, Guarded, Maintaining,
         HoldsWriteX
    <3> QED
      BY <2>4, <3>1, <3>2 DEF BeginTransition
  <2>5. CASE DropMaintenance(a)
    <3>1. Maintainers = {a} /\ a \notin Writers
      BY <2>5, MaintenanceFromInv
         DEF DropMaintenance, MaintenanceExclusive, Maintainers, Maintaining, Writers, HoldsWriteX
    <3>2. Guards' = Guards /\ Maintainers' = {} /\ Writers' = Writers
      BY <2>5, <3>1 DEF DropMaintenance, Goto, Return, Guards, Maintainers, Writers, Guarded,
         Maintaining, HoldsWriteX
    <3>3. Ownership!EndMaintenance(a)
      BY <3>1, <3>2 DEF Ownership!EndMaintenance
    <3> QED
      BY <3>3 DEF Ownership!OwnershipNext
  <2>6. CASE BeginWrite(a)
    BY <2>6, QuietMove DEF BeginWrite, Goto, Return, Guarded, Maintaining, HoldsWriteX
  <2>7. CASE EndWrite(a)
    BY <2>7, WriteRefines
  <2>8. CASE ProbeMaintenance(a)
    BY <2>8, QuietMove DEF ProbeMaintenance, Goto, Return, Guarded, Maintaining, HoldsWriteX
  <2> QED
    BY <1>2, <2>1, <2>2, <2>3, <2>4, <2>5, <2>6, <2>7, <2>8 DEF CallerStep
<1>3. CASE Environment
  <2>1. ASSUME NEW a \in Agent, IoError(a) PROVE Goal
    <3>1. CASE AbandonLock(a, "io")
      BY <3>1, QuietMove DEF AbandonLock, Return, Guarded, Maintaining, HoldsWriteX
    <3>2. CASE pc[a] \in Inspecting /\ Refuse(a, "io")
      BY <3>2, RefusalRefines
    <3> QED
      BY <2>1, <3>1, <3>2 DEF IoError
  <2>2. ASSUME NEW d \in Daemon, Crash(d) PROVE Goal
    <3>1. Ownership!Vanish(d)
      BY <2>2 DEF Crash, Ownership!Vanish, Guards, Maintainers, Writers,
         Guarded, Maintaining, HoldsWriteX
    <3> QED
      BY <3>1 DEF Ownership!OwnershipNext
  <2>3. CASE LegacyExit
    BY <2>3, <1>0 DEF LegacyExit, Stay
  <2>4. ASSUME NEW t \in Token, ObserveOwner(t) PROVE Goal
    BY <2>4, <1>0 DEF ObserveOwner, Stay
  <2>5. CASE ObserveDone
    BY <2>5, <1>0 DEF ObserveDone, Stay
  <2> QED
    BY <1>3, <2>1, <2>2, <2>3, <2>4, <2>5 DEF Environment
<1>4. CASE UNCHANGED vars
  BY <1>4, <1>0 DEF vars
<1> QED
  BY <1>1, <1>2, <1>3, <1>4 DEF Next

(* The files implement the promise: every behaviour of the lease files,    *)
(* seen through published records and held locks, is one SessionOwnership  *)
(* allows (ImplementsOwnership).                                           *)
THEOREM LeaseImplementsOwnership == ASSUME ~ReuseStamps PROVE Spec => ImplementsOwnership
<1>1. Init => Ownership!OwnershipInit
  BY DEF Init, Ownership!OwnershipInit, Guards, Maintainers, Writers,
     Guarded, Maintaining, HoldsWriteX
<1>2. LeaseInv /\ LeaseInv' /\ [Next]_vars
        => [Ownership!OwnershipNext]_(Ownership!ownershipVars)
  BY OwnershipStep
<1> QED
  BY <1>1, <1>2, LeaseInvariant, PTL DEF Spec, ImplementsOwnership, Ownership!OwnershipSpec

(* No step but its own drop takes away a record that its owner has locked: *)
(* PruneSparesLiveOwners.                                                  *)
LEMMA PruneSparesStep ==
    ASSUME LeaseInv, [Next]_vars, ~ReuseStamps, NEW u \in Records, dir'[u] # dir[u]
    PROVE  \/ ~OwnerHoldsLock(u)
           \/ pc[dir[u]] = "held" /\ pc'[dir[u]] = "dropping"
<1> DEFINE Goal == \/ ~OwnerHoldsLock(u)
                   \/ pc[dir[u]] = "held" /\ pc'[dir[u]] = "dropping"
<1> USE LeaseConstants DEF LeaseInv, TypeOK, Records, disk
<1>1. ASSUME NEW a \in Agent, CallStep(a) PROVE Goal
  <2>1. ASSUME NEW t \in Token, PruneRecord(a, t) PROVE Goal
    BY <2>1 DEF PruneRecord, ClassifiedLive
  <2>2. CASE PublishOwner(a)
    BY <2>2 DEF PublishOwner, NewToken, Fresh
  <2>3. CASE ~PublishOwner(a) /\ \A t \in Token : ~PruneRecord(a, t)
    BY <1>1, <2>3 DEF CallStep, LockCoordinator, PruneVanished, PruneLegacy, PruneDone,
       CheckIncompatible, UnlockCoordinator, DropUnlock, CheckFirstOwner, LockShared,
       LockWrite, UnlockShared, LockTimeout, AbandonLock, ProbeDone
  <2> QED
    BY <2>1, <2>2, <2>3
<1>2. ASSUME NEW a \in Agent, CallerStep(a) PROVE Goal
  <2>1. CASE DropRecord(a)
    BY <2>1 DEF DropRecord, Goto, Return, RecordBacksGuard, Guards, Guarded
  <2>2. CASE ~DropRecord(a)
    BY <1>2, <2>2 DEF CallerStep, BeginAcquire, BeginMaintenance, BeginTransition,
       DropMaintenance, BeginWrite, EndWrite, ProbeMaintenance
  <2> QED
    BY <2>1, <2>2
<1>3. CASE Environment
  BY <1>3 DEF Environment, IoError, AbandonLock, Crash, LegacyExit, ObserveOwner, ObserveDone
<1>4. CASE UNCHANGED vars
  BY <1>4 DEF vars
<1> QED
  BY <1>1, <1>2, <1>3, <1>4 DEF Next

(* Pruning, publication and foreign drops spare live owners in every       *)
(* behaviour (PruneSparesLiveOwners).                                      *)
THEOREM LiveRecordsSurvive == ASSUME ~ReuseStamps PROVE Spec => PruneSparesLiveOwners
<1>1. LeaseInv /\ [Next]_vars =>
        [\A t \in Records : dir'[t] # dir[t] =>
          \/ ~OwnerHoldsLock(t)
          \/ pc[dir[t]] = "held" /\ pc'[dir[t]] = "dropping"]_vars
  BY PruneSparesStep
<1> QED
  BY <1>1, LeaseInvariant, PTL DEF Spec, PruneSparesLiveOwners

-----------------------------------------------------------------------------
(* The handoff.  HandoffHasNoGap speaks of the step that returns the lease *)
(* and needs what holds since publication: the agent is alone.             *)
HandoffAlone == \A a \in Agent : pc[a] = "tr_unlock" => Guards = {a}

(* A guard comes into being by publication alone, and only by the agent    *)
(* that has the coordinator.                                               *)
LEMMA GuardsGrow ==
    ASSUME LeaseInv, [Next]_vars, NEW b \in Agent, b \in Guards', b \notin Guards
    PROVE  PublishOwner(b) /\ Guards' = Guards \union {b} /\ coordX = {b}
<1> USE LeaseConstants DEF LeaseInv, TypeOK, Guards, Guarded
<1>1. ASSUME NEW a \in Agent, CallStep(a), ~PublishOwner(a) PROVE FALSE
  BY <1>1 DEF CallStep, LockCoordinator, PruneRecord, PruneVanished, PruneLegacy, PruneDone,
     CheckIncompatible, UnlockCoordinator, DropUnlock, CheckFirstOwner, LockShared, LockWrite,
     UnlockShared, LockTimeout, AbandonLock, ProbeDone, Refuse, Goto, Return, Stay
<1>2. ASSUME NEW a \in Agent, CallerStep(a) PROVE FALSE
  BY <1>2 DEF CallerStep, BeginAcquire, DropRecord, BeginMaintenance, BeginTransition,
     DropMaintenance, BeginWrite, EndWrite, ProbeMaintenance, Refuse, Goto, Return
<1>3. CASE Environment
  BY <1>3 DEF Environment, IoError, AbandonLock, Crash, LegacyExit, ObserveOwner, ObserveDone,
     Refuse, Goto, Return, Stay
<1>4. CASE UNCHANGED vars
  BY <1>4 DEF vars
<1>5. ASSUME NEW a \in Agent, PublishOwner(a)
      PROVE  PublishOwner(b) /\ Guards' = Guards \union {b} /\ coordX = {b}
  <2>1. a = b /\ Guards' = Guards \union {b}
    BY <1>5 DEF PublishOwner, Goto, Return
  <2>2. coordX = {b}
    BY <1>5, <2>1 DEF PublishOwner, LockInv, HoldsCoordX, Inspecting
  <2> QED
    BY <1>5, <2>1, <2>2
<1> QED
  BY <1>1, <1>2, <1>3, <1>4, <1>5 DEF Next

(* An agent that hands maintenance over as a lease is alone until the      *)
(* coordinator is free, and still when the call returns.                   *)
LEMMA HandoffStep ==
    ASSUME LeaseInv, LeaseInv', HandoffAlone, [Next]_vars
    PROVE  /\ HandoffAlone'
           /\ \A a \in Agent : pc[a] \in {"tr_publish", "tr_unlock"} /\ pc'[a] = "held"
                => Guards' = {a}
<1> USE LeaseConstants DEF LeaseInv, TypeOK
<1>1. ASSUME NEW a \in Agent, pc[a] = "tr_publish"
      PROVE  Guards = {} /\ coordX = {a}
  BY <1>1, MaintenanceFromInv DEF MaintenanceExclusive, Maintainers, Maintaining, LockInv,
     HoldsCoordX
<1>2. ASSUME NEW a \in Agent, pc[a] = "tr_unlock"
      PROVE  Guards = {a} /\ coordX = {a}
  BY <1>2 DEF HandoffAlone, LockInv, HoldsCoordX
<1>3. ASSUME NEW a \in Agent, pc[a] \in {"tr_publish", "tr_unlock"}, a \in Guards'
      PROVE  Guards' = {a}
  <2>1. \A b \in Agent : b \in Guards' /\ b \notin Guards => b = a
    BY <1>1, <1>2, <1>3, GuardsGrow
  <2> QED
    BY <1>1, <1>2, <1>3, <2>1 DEF Guards
<1>4. ASSUME NEW a \in Agent, pc'[a] = "tr_unlock"
      PROVE  pc[a] \in {"tr_publish", "tr_unlock"}
  <2>1. a \in Guards'
    BY <1>4 DEF Guards, Guarded
  <2>2. CASE a \notin Guards
    BY <1>4, <2>1, <2>2, GuardsGrow DEF PublishOwner, Goto, Return
  <2>3. CASE a \in Guards /\ pc[a] # "tr_unlock"
    <3>1. ASSUME NEW b \in Agent, CallStep(b) PROVE FALSE
      BY <1>4, <2>3, <3>1 DEF CallStep, LockCoordinator, PruneRecord, PruneVanished, PruneLegacy,
         PruneDone, CheckIncompatible, PublishOwner, UnlockCoordinator, DropUnlock,
         CheckFirstOwner, LockShared, LockWrite, UnlockShared, LockTimeout, AbandonLock,
         ProbeDone, Refuse, Goto, Return, Stay, Guards, Guarded
    <3>2. ASSUME NEW b \in Agent, CallerStep(b) PROVE FALSE
      BY <1>4, <2>3, <3>2 DEF CallerStep, BeginAcquire, DropRecord, BeginMaintenance,
         BeginTransition, DropMaintenance, BeginWrite, EndWrite, ProbeMaintenance, Refuse,
         Goto, Return
    <3>3. CASE Environment
      BY <1>4, <2>3, <3>3 DEF Environment, IoError, AbandonLock, Crash, LegacyExit,
         ObserveOwner, ObserveDone, Refuse, Goto, Return, Stay
    <3>4. CASE UNCHANGED vars
      BY <1>4, <2>3, <3>4 DEF vars
    <3> QED
      BY <3>1, <3>2, <3>3, <3>4 DEF Next
  <2> QED
    BY <2>2, <2>3
<1>5. HandoffAlone'
  BY <1>3, <1>4 DEF HandoffAlone, Guards, Guarded
<1>6. \A a \in Agent : pc[a] \in {"tr_publish", "tr_unlock"} /\ pc'[a] = "held"
        => Guards' = {a}
  BY <1>3 DEF Guards, Guarded
<1> QED
  BY <1>5, <1>6

(* The handoff from maintenance to a lease leaves no moment in which the   *)
(* session is unowned or owned by two: HandoffHasNoGap.                    *)
THEOREM HandoffIsSeamless == ASSUME ~ReuseStamps PROVE Spec => HandoffHasNoGap
<1>1. Init => HandoffAlone
  BY DEF Init, HandoffAlone
<1>2. LeaseInv /\ LeaseInv' /\ HandoffAlone /\ [Next]_vars => HandoffAlone'
  BY HandoffStep
<1>3. LeaseInv /\ LeaseInv' /\ HandoffAlone /\ [Next]_vars =>
        [\A a \in Agent :
          pc[a] \in {"tr_publish", "tr_unlock"} /\ pc'[a] = "held"
            => RecordBacksGuard' /\ Guards' = {a}]_vars
  BY HandoffStep DEF LeaseInv
<1> QED
  BY <1>1, <1>2, <1>3, LeaseInvariant, PTL DEF Spec, HandoffHasNoGap
=============================================================================
