-------------------------- MODULE SessionActorProofs --------------------------
(* Proofs about SessionActor, for any daemons, clients, guards and tokens. *)
EXTENDS SessionActor, FiniteSetTheorems, TLAPS

-----------------------------------------------------------------------------
(* What ownership gives: a lease of the daemon.                            *)
LEMMA OwnedLease ==
    ASSUME TypeOK, LeaseInv, NEW d \in Daemon, NEW l \in EnsureOwnership(d)
    PROVE  l \in Lease /\ l # NoLease /\ LeaseOf(l) = d
<1>1. NoLease \notin Lease
  BY ActorConstants DEF Lease
<1> QED
  BY <1>1 DEF EnsureOwnership, Acquirable, TypeOK, LeaseInv

LEMMA FreshLease ==
    ASSUME NEW d \in Daemon, NEW l \in Acquirable(d)
    PROVE  l \in Lease
BY DEF Acquirable

(* A release message is a guard record again, and so is a free guard.      *)
LEMMA SentRecord ==
    ASSUME NEW r \in GuardRecord, r.state = "held"
    PROVE  [r EXCEPT !.state = "sent"] \in GuardRecord
BY DEF GuardRecord, Free

LEMMA HeldRecord ==
    ASSUME NEW d \in Daemon, NEW l \in Lease
    PROVE  [state |-> "held", at |-> d, lease |-> l] \in GuardRecord
BY DEF GuardRecord

LEMMA CountUp ==
    ASSUME TypeOK, NEW d \in Daemon, NEW g \in Guard
    PROVE  [counts[d] EXCEPT ![KindOf[g]] = @ + 1] \in [Kind -> Nat]
BY ActorConstants DEF TypeOK

LEMMA CountDown ==
    ASSUME TypeOK, NEW d \in Daemon, NEW g \in Guard, counts[d][KindOf[g]] # 0
    PROVE  CountLeft(d, g) \in [Kind -> Nat]
BY ActorConstants DEF TypeOK, CountLeft

LEMMA FreeRecord == Free \in GuardRecord
BY DEF GuardRecord

(* Every step keeps every variable in its type.                            *)
LEMMA TypeStep ==
    ASSUME TypeOK, LeaseInv, HolderInv, [Next]_vars
    PROVE  TypeOK'
<1> USE DEF TypeOK, Status, Step, Handle, Opened, Set, actorVars, taskVars, Ready
<1>1. ASSUME NEW d \in Daemon, ActorStep(d) PROVE TypeOK'
  <2>1. CASE AttachFails(d)
    <3>1. lease' \in [Daemon -> Lease \union {NoLease}]
      <4>1. \/ UNCHANGED lease
            \/ \E l \in EnsureOwnership(d) : lease' = [lease EXCEPT ![d] = l]
        BY <2>1 DEF AttachFails, Own
      <4> QED BY <4>1, OwnedLease
    <3>2. published' \in [Daemon -> SUBSET Client]
      BY <2>1 DEF AttachFails, Own, ThenReleaseIfIdle
    <3>3. db' \in [Daemon -> Handle]
      BY <2>1 DEF AttachFails, Own, ThenReleaseIfIdle
    <3>4. step' \in [Daemon -> Step]
      BY <2>1 DEF AttachFails, Own, ThenReleaseIfIdle
    <3>5. UNCHANGED <<status, clients, counts, guard, next, tail, maintainer, handover, loader, loaderGuard, deleting, exists>>
      BY <2>1 DEF AttachFails, Own, ThenReleaseIfIdle
    <3> QED
      BY <3>1, <3>2, <3>3, <3>4, <3>5
  <2>2. CASE RequestRelease(d)
    BY <2>2 DEF RequestRelease
  <2>3. CASE CloseDatabase(d)
    <3>1. db' \in [Daemon -> Handle]
      BY <2>3 DEF CloseDatabase, HandleRetained, HandleClosed
    <3>2. status' \in [Daemon -> Status]
      BY <2>3 DEF CloseDatabase, HandleRetained, HandleClosed
    <3>3. step' \in [Daemon -> Step]
      BY <2>3 DEF CloseDatabase, HandleRetained, HandleClosed
    <3>4. published' \in [Daemon -> SUBSET Client]
      BY <2>3 DEF CloseDatabase, HandleRetained, HandleClosed
    <3>5. UNCHANGED <<lease, clients, counts, guard, next, tail, maintainer, handover, loader, loaderGuard, deleting, exists>>
      BY <2>3 DEF CloseDatabase, HandleRetained, HandleClosed
    <3> QED
      BY <3>1, <3>2, <3>3, <3>4, <3>5
  <2>4. CASE DropLease(d)
    BY <2>4 DEF DropLease
  <2>5. CASE IdleTimeout(d)
    <3>1. db' \in [Daemon -> Handle]
      BY <2>5 DEF IdleTimeout, HandleRetained, HandleClosed
    <3>2. status' \in [Daemon -> Status]
      BY <2>5 DEF IdleTimeout, HandleRetained, HandleClosed
    <3>3. published' \in [Daemon -> SUBSET Client]
      BY <2>5 DEF IdleTimeout, HandleRetained, HandleClosed
    <3>4. UNCHANGED <<step, lease, clients, counts, guard, next, tail, maintainer, handover, loader, loaderGuard, deleting, exists>>
      BY <2>5 DEF IdleTimeout, HandleRetained, HandleClosed
    <3> QED
      BY <3>1, <3>2, <3>3, <3>4
  <2>6. CASE AdoptLease(d)
    BY <2>6 DEF AdoptLease, ThenReleaseIfIdle
  <2>7. CASE BeginAppend(d)
    BY <2>7, OwnedLease DEF BeginAppend, Own
  <2>8. CASE CommitAppend(d)
    BY <2>8 DEF CommitAppend
  <2>9. CASE AppendFails(d)
    BY <2>9 DEF AppendFails
  <2>10. CASE CommitFails(d)
    <3>1. db' \in [Daemon -> Handle]
      BY <2>10 DEF CommitFails, Refresh
    <3>2. next' \in [Daemon -> Nat]
      BY <2>10 DEF CommitFails, Refresh
    <3>3. status' \in [Daemon -> Status]
      BY <2>10 DEF CommitFails, Refresh
    <3>4. published' \in [Daemon -> SUBSET Client]
      <4>1. UNCHANGED published \/ published' = [published EXCEPT ![d] = clients[d]]
        BY <2>10 DEF CommitFails, Refresh
      <4>2. clients[d] \in SUBSET Client
        OBVIOUS
      <4> QED BY <4>1, <4>2
    <3>5. tail' \in Nat
      BY <2>10 DEF CommitFails, Refresh
    <3>6. step' \in [Daemon -> Step]
      BY <2>10 DEF CommitFails, Refresh
    <3>7. UNCHANGED <<lease, clients, counts, guard, maintainer, handover, loader, loaderGuard, deleting, exists>>
      BY <2>10 DEF CommitFails, Refresh
    <3> QED
      BY <3>1, <3>2, <3>3, <3>4, <3>5, <3>6, <3>7
  <2>11. ASSUME NEW c \in Client, Attach(d, c) PROVE TypeOK'
    BY <2>11, OwnedLease DEF Attach, Own
  <2>12. ASSUME NEW c \in Client, AttachUndelivered(d, c) PROVE TypeOK'
    BY <2>12, OwnedLease DEF AttachUndelivered, ThenReleaseIfIdle
  <2>13. ASSUME NEW c \in Client, Detach(d, c) PROVE TypeOK'
    BY <2>13 DEF Detach, ThenReleaseIfIdle
  <2>14. ASSUME NEW g \in Guard, AcquireOwnership(d, g) PROVE TypeOK'
    <3>1. lease' \in [Daemon -> Lease \union {NoLease}]
      BY <2>14, OwnedLease DEF AcquireOwnership, GrantGuard, Own
    <3>2. published' \in [Daemon -> SUBSET Client]
      BY <2>14 DEF AcquireOwnership, GrantGuard, Own
    <3>3. counts' \in [Daemon -> [Kind -> Nat]]
      BY <2>14, CountUp DEF AcquireOwnership, GrantGuard, Own
    <3>4. guard' \in [Guard -> GuardRecord]
      BY <2>14, OwnedLease, HeldRecord DEF AcquireOwnership, GrantGuard, Own
    <3>5. UNCHANGED <<status, step, db, clients, next, tail, maintainer, handover, loader, loaderGuard, deleting, exists>>
      BY <2>14 DEF AcquireOwnership, GrantGuard, Own
    <3> QED
      BY <3>1, <3>2, <3>3, <3>4, <3>5
  <2>15. ASSUME NEW g \in Guard, ReleaseOwnership(d, g) PROVE TypeOK'
    <3>1. guard' \in [Guard -> GuardRecord]
      BY <2>15, FreeRecord DEF ReleaseOwnership
    <3>2. UNCHANGED <<status, lease, db, clients, published, next, tail, maintainer, handover, loader, loaderGuard, deleting, exists>>
      BY <2>15 DEF ReleaseOwnership
    <3>3. CASE counts[d][KindOf[g]] = 0
      BY <2>15, <3>1, <3>2, <3>3 DEF ReleaseOwnership
    <3>4. CASE counts[d][KindOf[g]] # 0
      <4>1. counts' = Set(counts, d, CountLeft(d, g)) /\ ThenReleaseIfIdle(d, clients[d], CountLeft(d, g))
        BY <2>15, <3>4 DEF ReleaseOwnership
      <4>2. counts' \in [Daemon -> [Kind -> Nat]]
        BY <3>4, <4>1, CountDown
      <4>3. step' \in [Daemon -> Step]
        BY <4>1 DEF ThenReleaseIfIdle
      <4> QED
        BY <3>1, <3>2, <4>2, <4>3
    <3> QED
      BY <3>3, <3>4
  <2> QED
    BY <1>1, <2>1, <2>2, <2>3, <2>4, <2>5, <2>6, <2>7, <2>8, <2>9, <2>10, <2>11, <2>12, <2>13,
       <2>14, <2>15 DEF ActorStep
<1>2. ASSUME NEW d \in Daemon, TaskStep(d) PROVE TypeOK'
  <2>1. CASE LoadSummaryActor(d)
    BY <2>1 DEF LoadSummaryActor
  <2>2. CASE LoadPersistentSession(d)
    BY <2>2, FreshLease DEF LoadPersistentSession
  <2>3. CASE LoadCheck(d)
    BY <2>3 DEF LoadCheck, Loader
  <2>4. CASE LoadFinish(d)
    <3>1. lease' \in [Daemon -> Lease \union {NoLease}]
      BY <2>4, OwnedLease DEF LoadFinish, Own, SendRelease
    <3>2. guard' \in [Guard -> GuardRecord]
      <4>1. CASE loaderGuard[d] = NoGuard
        BY <2>4, <4>1 DEF LoadFinish
      <4>2. CASE loaderGuard[d] # NoGuard
        <5> DEFINE own == loaderGuard[d]
                   sent == [guard[own] EXCEPT !.state = "sent"]
        <5>1. own \in Guard /\ guard[own] \in GuardRecord /\ guard[own].state = "held"
          BY <4>2 DEF HolderInv
        <5>2. guard' = [guard EXCEPT ![own] = Free] \/ guard' = [guard EXCEPT ![own] = sent]
          BY <2>4, <4>2 DEF LoadFinish, SendRelease
        <5>3. sent \in GuardRecord
          BY <5>1, SentRecord
        <5> QED BY <5>1, <5>2, <5>3, FreeRecord
      <4> QED BY <4>1, <4>2
    <3>3. status' \in [Daemon -> Status]
      BY <2>4 DEF LoadFinish, Own, SendRelease
    <3>4. db' \in [Daemon -> Handle]
      BY <2>4 DEF LoadFinish, Own, SendRelease
    <3>5. next' \in [Daemon -> Nat]
      BY <2>4 DEF LoadFinish, Own, SendRelease
    <3>6. published' \in [Daemon -> SUBSET Client]
      BY <2>4 DEF LoadFinish, Own, SendRelease
    <3>7. loader' \in [Daemon -> Loader]
      BY <2>4 DEF LoadFinish, Loader
    <3>8. loaderGuard' \in [Daemon -> Guard \union {NoGuard}]
      BY <2>4 DEF LoadFinish, Own, SendRelease
    <3>9. UNCHANGED <<step, clients, counts, tail, maintainer, handover, deleting, exists>>
      BY <2>4 DEF LoadFinish, Own, SendRelease
    <3> QED
      BY <3>1, <3>2, <3>3, <3>4, <3>5, <3>6, <3>7, <3>8, <3>9
  <2>5. CASE BeginMigration(d)
    BY <2>5 DEF BeginMigration
  <2>6. CASE EndMigration(d)
    <3>1. handover' \in [Daemon -> Lease \union {NoLease}]
      BY <2>6 DEF EndMigration
    <3>2. maintainer' \in Daemon \union {Nobody}
      BY <2>6 DEF EndMigration
    <3>3. UNCHANGED <<status, step, lease, db, clients, published, counts, guard, next, tail, loader, loaderGuard, deleting, exists>>
      BY <2>6 DEF EndMigration
    <3> QED
      BY <3>1, <3>2, <3>3
  <2>7. CASE DeleteCheck(d)
    BY <2>7 DEF DeleteCheck
  <2>8. CASE DeleteFinish(d)
    BY <2>8, FreeRecord DEF DeleteFinish
  <2>9. CASE Crash(d)
    BY <2>9, FreeRecord, ActorConstants DEF Crash, Loader
  <2>10. CASE LoadGuard(d)
    <3>1. loader' \in [Daemon -> Loader]
      BY <2>10 DEF LoadGuard, Loader
    <3>2. PICK g \in Guard, l \in EnsureOwnership(d) : GrantGuard(d, g, l) /\ loaderGuard' = Set(loaderGuard, d, g)
      BY <2>10 DEF LoadGuard
    <3>3. lease' \in [Daemon -> Lease \union {NoLease}]
      BY <3>2, OwnedLease DEF GrantGuard, Own
    <3>4. guard' \in [Guard -> GuardRecord]
      BY <3>2, OwnedLease, HeldRecord DEF GrantGuard
    <3>5. counts' \in [Daemon -> [Kind -> Nat]] /\ published' \in [Daemon -> SUBSET Client]
      BY <3>2, CountUp DEF GrantGuard, Own
    <3>6. loaderGuard' \in [Daemon -> Guard \union {NoGuard}]
      BY <3>2
    <3>7. UNCHANGED <<status, step, db, clients, next, handover, deleting, tail, maintainer, exists>>
      BY <2>10 DEF LoadGuard
    <3> QED
      BY <3>1, <3>3, <3>4, <3>5, <3>6, <3>7
  <2> QED
    BY <1>2, <2>1, <2>2, <2>3, <2>4, <2>5, <2>6, <2>7, <2>8, <2>9, <2>10 DEF TaskStep
<1>3. ASSUME NEW g \in Guard, DropGuard(g) PROVE TypeOK'
  BY <1>3, FreeRecord, SentRecord DEF DropGuard, SendRelease
<1>4. CASE UNCHANGED vars
  BY <1>4 DEF vars, actorVars, taskVars
<1> QED
  BY <1>1, <1>2, <1>3, <1>4 DEF Next

-----------------------------------------------------------------------------
(* Leases.  A step of daemon d moves leases in one of these ways only: it  *)
(* keeps, drops, adopts or acquires its own, and guards keep theirs, go    *)
(* free, or are granted with the lease d has now.                          *)
LeaseMove(d) ==
    /\ \A e \in Daemon \ {d} : lease'[e] = lease[e] /\ handover'[e] = handover[e]
    /\ lease'[d] \in {lease[d], handover[d], NoLease} \union EnsureOwnership(d) \union Acquirable(d)
    /\ handover'[d] \in {handover[d], NoLease}
    /\ \A g \in Guard : \/ guard'[g] = Free
                        \/ guard'[g].lease = guard[g].lease /\ guard'[g].at = guard[g].at
                        \/ guard'[g].lease = lease'[d] /\ guard'[g].at = d
    /\ maintainer' = maintainer \/ (maintainer = d /\ maintainer' = Nobody)

LEMMA NoLeaseIsNone == NoLease \notin Lease
BY ActorConstants DEF Lease

LEMMA GuardLease ==
    ASSUME NEW r \in GuardRecord
    PROVE  /\ r # Free => r.lease \in Lease
           /\ r.lease = NoLease => r = Free
BY NoLeaseIsNone DEF GuardRecord, Free

(* Such a step registers no lease but one that could be acquired.          *)
LEMMA LeaseMoveRegisters ==
    ASSUME TypeOK, TypeOK', LeaseInv, NEW d \in Daemon, LeaseMove(d)
    PROVE  /\ lease'[d] \in Lease => LeaseOf(lease'[d]) = d
           /\ \A g \in Guard : guard'[g] # Free => LeaseOf(guard'[g].lease) = guard'[g].at
           /\ \A l \in Registered' : l \in Registered \/ l \in Acquirable(d)
<1> USE NoLeaseIsNone
<1>1. lease'[d] \in Lease => LeaseOf(lease'[d]) = d
  BY OwnedLease DEF LeaseMove, Acquirable, LeaseInv, TypeOK
<1>2. lease'[d] \in Lease => lease'[d] \in Registered \/ lease'[d] \in Acquirable(d)
  BY DEF LeaseMove, EnsureOwnership, Registered, Referenced, TypeOK
<1>3. ASSUME NEW g \in Guard, guard'[g] # Free
      PROVE  /\ LeaseOf(guard'[g].lease) = guard'[g].at
             /\ guard'[g].lease \in Registered \/ guard'[g].lease = lease'[d]
  <2>1. guard'[g] \in GuardRecord /\ guard[g] \in GuardRecord /\ guard'[g].lease \in Lease
    BY <1>3, GuardLease DEF TypeOK
  <2>2. CASE guard'[g].lease = guard[g].lease /\ guard'[g].at = guard[g].at
    <3>1. guard[g] # Free
      BY <2>1, <2>2 DEF Free
    <3> QED
      BY <2>1, <2>2, <3>1 DEF LeaseInv, Registered, Referenced
  <2>3. CASE guard'[g].lease = lease'[d] /\ guard'[g].at = d
    BY <2>1, <2>3, <1>1
  <2> QED
    BY <1>3, <2>2, <2>3 DEF LeaseMove
<1>4. ASSUME NEW l \in Registered'
      PROVE  l \in Registered \/ l \in Acquirable(d)
  <2>1. l \in Lease
    BY DEF Registered
  <2>2. CASE \E e \in Daemon : lease'[e] = l
    BY <2>1, <2>2, <1>2 DEF LeaseMove, Registered, Referenced
  <2>3. CASE \E e \in Daemon : handover'[e] = l
    BY <2>1, <2>3 DEF LeaseMove, Registered, Referenced
  <2>4. CASE \E g \in Guard : guard'[g].lease = l
    <3>1. PICK g \in Guard : guard'[g].lease = l
      BY <2>4
    <3>2. guard'[g] # Free
      BY <2>1, <3>1 DEF Free
    <3> QED
      BY <2>1, <3>1, <3>2, <1>2, <1>3
  <2> QED
    BY <2>2, <2>3, <2>4 DEF Registered, Referenced
<1> QED
  BY <1>1, <1>3, <1>4

LEMMA LeaseMoveKeeps ==
    ASSUME TypeOK, TypeOK', LeaseInv, NEW d \in Daemon, LeaseMove(d)
    PROVE  LeaseInv'
<1>1. \A k, l \in Registered' : LeaseOf(k) = LeaseOf(l)
  BY LeaseMoveRegisters DEF LeaseInv, Acquirable
<1>2. maintainer' # Nobody => Registered' = {}
  BY LeaseMoveRegisters DEF LeaseInv, LeaseMove, Acquirable
<1>3. \A e \in Daemon : /\ lease'[e] # NoLease => LeaseOf(lease'[e]) = e
                        /\ handover'[e] # NoLease => LeaseOf(handover'[e]) = e
  <2>1. lease'[d] \in Lease => LeaseOf(lease'[d]) = d
    BY LeaseMoveRegisters
  <2> QED
    BY <2>1, NoLeaseIsNone DEF LeaseMove, LeaseInv, TypeOK
<1> QED
  BY <1>1, <1>2, <1>3, LeaseMoveRegisters DEF LeaseInv

(* A migration becomes the lease it hands over.                            *)
MigrationOwns(d) ==
    /\ maintainer = d /\ maintainer' = Nobody
    /\ \E l \in Lease : LeaseOf(l) = d /\ handover' = Set(handover, d, l)
    /\ UNCHANGED <<lease, guard>>

(* The steps of the actors, guards and tasks move leases as above; only a  *)
(* migration does otherwise.                                               *)
LEMMA LeasesMove ==
    ASSUME TypeOK, HolderInv, [Next]_vars
    PROVE  \/ UNCHANGED vars
           \/ \E d \in Daemon : LeaseMove(d) \/ BeginMigration(d) \/ MigrationOwns(d)
<1> USE DEF TypeOK, Set, actorVars, taskVars
<1>1. ASSUME NEW d \in Daemon, ActorStep(d) PROVE LeaseMove(d)
  <2>1. CASE AttachFails(d)
    BY <2>1 DEF LeaseMove, AttachFails, Own, ThenReleaseIfIdle
  <2>2. CASE RequestRelease(d)
    BY <2>2 DEF LeaseMove, RequestRelease
  <2>3. CASE CloseDatabase(d)
    BY <2>3 DEF LeaseMove, CloseDatabase, HandleRetained, HandleClosed
  <2>4. CASE DropLease(d)
    BY <2>4 DEF LeaseMove, DropLease
  <2>5. CASE IdleTimeout(d)
    BY <2>5 DEF LeaseMove, IdleTimeout, HandleRetained, HandleClosed
  <2>6. CASE AdoptLease(d)
    BY <2>6 DEF LeaseMove, AdoptLease, ThenReleaseIfIdle
  <2>7. CASE BeginAppend(d)
    BY <2>7 DEF LeaseMove, BeginAppend, Own
  <2>8. CASE CommitAppend(d)
    BY <2>8 DEF LeaseMove, CommitAppend
  <2>9. CASE AppendFails(d)
    BY <2>9 DEF LeaseMove, AppendFails
  <2>10. CASE CommitFails(d)
    BY <2>10 DEF LeaseMove, CommitFails, Refresh
  <2>11. ASSUME NEW c \in Client, Attach(d, c) PROVE LeaseMove(d)
    BY <2>11 DEF LeaseMove, Attach, Own
  <2>12. ASSUME NEW c \in Client, AttachUndelivered(d, c) PROVE LeaseMove(d)
    BY <2>12 DEF LeaseMove, AttachUndelivered, ThenReleaseIfIdle
  <2>13. ASSUME NEW c \in Client, Detach(d, c) PROVE LeaseMove(d)
    BY <2>13 DEF LeaseMove, Detach, ThenReleaseIfIdle
  <2>14. ASSUME NEW g \in Guard, AcquireOwnership(d, g) PROVE LeaseMove(d)
    BY <2>14 DEF LeaseMove, AcquireOwnership, GrantGuard, Own
  <2>15. ASSUME NEW g \in Guard, ReleaseOwnership(d, g) PROVE LeaseMove(d)
    BY <2>15 DEF LeaseMove, ReleaseOwnership, ThenReleaseIfIdle
  <2> QED
    BY <1>1, <2>1, <2>2, <2>3, <2>4, <2>5, <2>6, <2>7, <2>8, <2>9, <2>10, <2>11, <2>12, <2>13,
       <2>14, <2>15 DEF ActorStep
<1>2. ASSUME NEW d \in Daemon, TaskStep(d)
      PROVE  LeaseMove(d) \/ BeginMigration(d) \/ MigrationOwns(d)
  <2>1. CASE LoadSummaryActor(d)
    BY <2>1 DEF LeaseMove, LoadSummaryActor
  <2>2. CASE LoadPersistentSession(d)
    BY <2>2 DEF LeaseMove, LoadPersistentSession
  <2>3. CASE LoadCheck(d)
    BY <2>3 DEF LeaseMove, LoadCheck
  <2>4. CASE LoadFinish(d)
    <3>1. \A g \in Guard : \/ guard'[g] = Free
                           \/ guard'[g].lease = guard[g].lease /\ guard'[g].at = guard[g].at
      <4>1. CASE loaderGuard[d] = NoGuard
        BY <2>4, <4>1 DEF LoadFinish
      <4>2. CASE loaderGuard[d] # NoGuard
        <5> DEFINE own == loaderGuard[d]
                   sent == [guard[own] EXCEPT !.state = "sent"]
        <5>1. own \in Guard
          BY <4>2
        <5>2. guard' = [guard EXCEPT ![own] = Free] \/ guard' = [guard EXCEPT ![own] = sent]
          BY <2>4, <4>2 DEF LoadFinish, SendRelease
        <5>3. guard[own] \in GuardRecord /\ guard[own] # Free
          BY <4>2, <5>1 DEF HolderInv, Free
        <5>4. sent.lease = guard[own].lease /\ sent.at = guard[own].at
          BY <5>3 DEF GuardRecord
        <5> QED
          BY <5>1, <5>2, <5>3, <5>4
      <4> QED
        BY <4>1, <4>2
    <3>2. lease' = lease \/ \E l \in EnsureOwnership(d) : lease' = [lease EXCEPT ![d] = l]
      BY <2>4 DEF LoadFinish, Own
    <3>3. UNCHANGED <<handover, maintainer>>
      BY <2>4 DEF LoadFinish
    <3> QED
      BY <3>1, <3>2, <3>3 DEF LeaseMove
  <2>5. CASE EndMigration(d)
    BY <2>5 DEF LeaseMove, MigrationOwns, EndMigration
  <2>6. CASE DeleteCheck(d)
    BY <2>6 DEF LeaseMove, DeleteCheck
  <2>7. CASE DeleteFinish(d)
    BY <2>7 DEF LeaseMove, DeleteFinish
  <2>8. CASE Crash(d)
    BY <2>8 DEF LeaseMove, Crash
  <2>9. CASE LoadGuard(d)
    BY <2>9 DEF LeaseMove, LoadGuard, GrantGuard, Own
  <2> QED
    BY <1>2, <2>1, <2>2, <2>3, <2>4, <2>5, <2>6, <2>7, <2>8, <2>9 DEF TaskStep
<1>3. ASSUME NEW g \in Guard, DropGuard(g) PROVE \E d \in Daemon : LeaseMove(d)
  <2> PICK d \in Daemon : TRUE
    BY <1>3 DEF DropGuard, GuardRecord, Free
  <2>1. LeaseMove(d)
    BY <1>3 DEF LeaseMove, DropGuard, SendRelease
  <2> QED
    BY <2>1
<1> QED
  BY <1>1, <1>2, <1>3 DEF Next

(* Every step keeps the leases in order.                                   *)
LEMMA LeaseStep ==
    ASSUME TypeOK, TypeOK', LeaseInv, HolderInv, [Next]_vars
    PROVE  LeaseInv'
<1>1. CASE UNCHANGED vars
  BY <1>1 DEF vars, actorVars, taskVars, LeaseInv, Registered, Referenced
<1>2. ASSUME NEW d \in Daemon, LeaseMove(d) PROVE LeaseInv'
  BY <1>2, LeaseMoveKeeps
<1>3. ASSUME NEW d \in Daemon, BeginMigration(d) PROVE LeaseInv'
  BY <1>3 DEF BeginMigration, actorVars, taskVars, LeaseInv, Registered, Referenced
<1>4. ASSUME NEW d \in Daemon, MigrationOwns(d) PROVE LeaseInv'
  <2>1. PICK l \in Lease : LeaseOf(l) = d /\ handover' = [handover EXCEPT ![d] = l]
    BY <1>4 DEF MigrationOwns, Set
  <2>2. Registered = {}
    BY <1>4, ActorConstants DEF MigrationOwns, LeaseInv
  <2>3. maintainer' = Nobody /\ UNCHANGED <<lease, guard>>
    BY <1>4 DEF MigrationOwns
  <2>4. Registered' \subseteq {l}
    BY <2>1, <2>2, <2>3 DEF TypeOK, Registered, Referenced
  <2> QED
    BY <2>1, <2>3, <2>4, NoLeaseIsNone DEF TypeOK, LeaseInv
<1> QED
  BY <1>1, <1>2, <1>3, <1>4, LeasesMove

(* Every step keeps the order of a release.                                *)
LEMMA ReleaseStep ==
    ASSUME TypeOK, TypeOK', LeaseInv, ReleaseInv, [Next]_vars
    PROVE  ReleaseInv'
<1> USE DEF TypeOK, ReleaseInv, Active, Quiescent, Opened, Ready, Set, actorVars, taskVars, Status, Step, Handle
<1>1. ASSUME NEW d \in Daemon, ActorStep(d) PROVE ReleaseInv'
  <2>1. CASE AttachFails(d)
    BY <2>1, OwnedLease DEF AttachFails, Own, ThenReleaseIfIdle
  <2>2. CASE RequestRelease(d)
    BY <2>2 DEF RequestRelease
  <2>3. CASE CloseDatabase(d)
    BY <2>3 DEF CloseDatabase, HandleRetained, HandleClosed
  <2>4. CASE DropLease(d)
    BY <2>4 DEF DropLease
  <2>5. CASE IdleTimeout(d)
    BY <2>5 DEF IdleTimeout, HandleRetained, HandleClosed
  <2>6. CASE AdoptLease(d)
    BY <2>6 DEF AdoptLease, ThenReleaseIfIdle
  <2>7. CASE BeginAppend(d)
    BY <2>7, OwnedLease DEF BeginAppend, Own
  <2>8. CASE CommitAppend(d)
    BY <2>8 DEF CommitAppend
  <2>9. CASE AppendFails(d)
    BY <2>9 DEF AppendFails
  <2>10. CASE CommitFails(d)
    BY <2>10 DEF CommitFails, Refresh
  <2>11. ASSUME NEW c \in Client, Attach(d, c) PROVE ReleaseInv'
    BY <2>11, OwnedLease DEF Attach, Own
  <2>12. ASSUME NEW c \in Client, AttachUndelivered(d, c) PROVE ReleaseInv'
    BY <2>12, OwnedLease DEF AttachUndelivered, ThenReleaseIfIdle
  <2>13. ASSUME NEW c \in Client, Detach(d, c) PROVE ReleaseInv'
    BY <2>13 DEF Detach, ThenReleaseIfIdle
  <2>14. ASSUME NEW g \in Guard, AcquireOwnership(d, g) PROVE ReleaseInv'
    BY <2>14, OwnedLease DEF AcquireOwnership, GrantGuard, Own
  <2>15. ASSUME NEW g \in Guard, ReleaseOwnership(d, g) PROVE ReleaseInv'
    BY <2>15 DEF ReleaseOwnership, ThenReleaseIfIdle
  <2> QED
    BY <1>1, <2>1, <2>2, <2>3, <2>4, <2>5, <2>6, <2>7, <2>8, <2>9, <2>10, <2>11, <2>12, <2>13,
       <2>14, <2>15 DEF ActorStep
<1>2. ASSUME NEW d \in Daemon, TaskStep(d) PROVE ReleaseInv'
  <2>1. CASE LoadSummaryActor(d)
    BY <2>1 DEF LoadSummaryActor
  <2>2. CASE LoadPersistentSession(d)
    BY <2>2, FreshLease, NoLeaseIsNone DEF LoadPersistentSession
  <2>3. CASE LoadCheck(d)
    BY <2>3 DEF LoadCheck
  <2>4. CASE LoadFinish(d)
    BY <2>4, OwnedLease DEF LoadFinish, Own, SendRelease
  <2>5. CASE BeginMigration(d)
    BY <2>5 DEF BeginMigration
  <2>6. CASE EndMigration(d)
    BY <2>6 DEF EndMigration
  <2>7. CASE DeleteCheck(d)
    BY <2>7 DEF DeleteCheck
  <2>8. CASE DeleteFinish(d)
    BY <2>8 DEF DeleteFinish
  <2>9. CASE Crash(d)
    BY <2>9 DEF Crash
  <2>10. CASE LoadGuard(d)
    BY <2>10, OwnedLease DEF LoadGuard, GrantGuard, Own
  <2> QED
    BY <1>2, <2>1, <2>2, <2>3, <2>4, <2>5, <2>6, <2>7, <2>8, <2>9, <2>10 DEF TaskStep
<1>3. ASSUME NEW g \in Guard, DropGuard(g) PROVE ReleaseInv'
  BY <1>3 DEF DropGuard, SendRelease
<1>4. CASE UNCHANGED vars
  BY <1>4 DEF vars
<1> QED
  BY <1>1, <1>2, <1>3, <1>4 DEF Next

-----------------------------------------------------------------------------
(* Two actors that have a lease are one.                                   *)
LEMMA SoleOwner ==
    ASSUME TypeOK, LeaseInv, NEW d \in Daemon, NEW e \in Daemon,
           lease[d] # NoLease, lease[e] # NoLease
    PROVE  d = e
<1>1. lease[d] \in Registered /\ lease[e] \in Registered
  BY DEF TypeOK, Registered, Referenced
<1> QED
  BY <1>1 DEF LeaseInv

(* An actor without counted guards has no guard that holds it.             *)
LEMMA NoCountNoHolder ==
    ASSUME TypeOK, GuardCountsMatch, NEW d \in Daemon, status[d] # "absent",
           \A k \in Kind : counts[d][k] = 0
    PROVE  HoldersAt(d) = {}
<1> SUFFICES ASSUME NEW g \in HoldersAt(d) PROVE FALSE
  OBVIOUS
<1> DEFINE H == {h \in HoldersAt(d) : KindOf[h] = KindOf[g]}
<1>1. g \in Guard /\ KindOf[g] \in Kind
  BY ActorConstants DEF HoldersAt
<1>2. IsFiniteSet(H)
  BY ActorConstants, FS_Subset DEF HoldersAt
<1>3. Cardinality(H) = 0
  BY <1>1 DEF GuardCountsMatch
<1>4. H = {}
  BY <1>2, <1>3, FS_EmptySet
<1> QED
  BY <1>4


(* Sending a release leaves the other guards alone and moves none to       *)
(* another actor.                                                          *)
LEMMA SendKeeps ==
    ASSUME TypeOK, NEW g \in Guard, SendRelease(g)
    PROVE  \A h \in Guard : guard'[h].at \in {guard[h].at, Nobody} /\ (h # g => guard'[h] = guard[h])
<1>1. guard[g] \in GuardRecord
  BY DEF TypeOK
<1>2. [guard[g] EXCEPT !.state = "sent"].at = guard[g].at
  BY <1>1 DEF GuardRecord, Free
<1>3. guard'[g] = Free \/ guard'[g] = [guard[g] EXCEPT !.state = "sent"]
  BY DEF SendRelease, Set, TypeOK
<1>4. \A h \in Guard : h # g => guard'[h] = guard[h]
  BY DEF SendRelease, Set, TypeOK
<1>5. Free.at = Nobody
  BY DEF Free
<1>6. guard'[g].at \in {guard[g].at, Nobody}
  BY <1>2, <1>3, <1>5
<1> QED
  BY <1>4, <1>6

(* Every step that leaves an actor without handle leaves it a summary.     *)
LEMMA TailStep ==
    ASSUME TypeOK, TypeOK', TailInv, [Next]_vars
    PROVE  TailInv'
<1> USE DEF TypeOK, TailInv, Opened, Ready, Set, actorVars, taskVars, Status, Step, Handle
<1>1. ASSUME NEW d \in Daemon, ActorStep(d) PROVE TailInv'
  <2>1. CASE AttachFails(d)
    BY <2>1 DEF AttachFails, Own, ThenReleaseIfIdle
  <2>2. CASE RequestRelease(d)
    BY <2>2 DEF RequestRelease
  <2>3. CASE CloseDatabase(d)
    BY <2>3 DEF CloseDatabase, HandleRetained, HandleClosed
  <2>4. CASE DropLease(d)
    BY <2>4 DEF DropLease
  <2>5. CASE IdleTimeout(d)
    BY <2>5 DEF IdleTimeout, HandleRetained, HandleClosed
  <2>6. CASE AdoptLease(d)
    BY <2>6 DEF AdoptLease, ThenReleaseIfIdle
  <2>7. CASE BeginAppend(d)
    BY <2>7 DEF BeginAppend, Own
  <2>8. CASE CommitAppend(d)
    BY <2>8 DEF CommitAppend
  <2>9. CASE AppendFails(d)
    BY <2>9 DEF AppendFails
  <2>10. CASE CommitFails(d)
    BY <2>10 DEF CommitFails, Refresh
  <2>11. ASSUME NEW c \in Client, Attach(d, c) PROVE TailInv'
    BY <2>11 DEF Attach, Own
  <2>12. ASSUME NEW c \in Client, AttachUndelivered(d, c) PROVE TailInv'
    BY <2>12 DEF AttachUndelivered, ThenReleaseIfIdle
  <2>13. ASSUME NEW c \in Client, Detach(d, c) PROVE TailInv'
    BY <2>13 DEF Detach, ThenReleaseIfIdle
  <2>14. ASSUME NEW g \in Guard, AcquireOwnership(d, g) PROVE TailInv'
    BY <2>14 DEF AcquireOwnership, GrantGuard, Own
  <2>15. ASSUME NEW g \in Guard, ReleaseOwnership(d, g) PROVE TailInv'
    BY <2>15 DEF ReleaseOwnership, ThenReleaseIfIdle
  <2> QED
    BY <1>1, <2>1, <2>2, <2>3, <2>4, <2>5, <2>6, <2>7, <2>8, <2>9, <2>10, <2>11, <2>12, <2>13,
       <2>14, <2>15 DEF ActorStep
<1>2. ASSUME NEW d \in Daemon, TaskStep(d) PROVE TailInv'
  <2>1. CASE LoadSummaryActor(d)
    BY <2>1 DEF LoadSummaryActor
  <2>2. CASE LoadPersistentSession(d)
    BY <2>2 DEF LoadPersistentSession
  <2>3. CASE LoadCheck(d)
    BY <2>3 DEF LoadCheck
  <2>4. CASE LoadFinish(d)
    BY <2>4 DEF LoadFinish, Own, SendRelease
  <2>5. CASE BeginMigration(d)
    BY <2>5 DEF BeginMigration
  <2>6. CASE EndMigration(d)
    BY <2>6 DEF EndMigration
  <2>7. CASE DeleteCheck(d)
    BY <2>7 DEF DeleteCheck
  <2>8. CASE DeleteFinish(d)
    BY <2>8 DEF DeleteFinish
  <2>9. CASE Crash(d)
    BY <2>9 DEF Crash
  <2>10. CASE LoadGuard(d)
    BY <2>10 DEF LoadGuard, GrantGuard, Own
  <2> QED
    BY <1>2, <2>1, <2>2, <2>3, <2>4, <2>5, <2>6, <2>7, <2>8, <2>9, <2>10 DEF TaskStep
<1>3. ASSUME NEW g \in Guard, DropGuard(g) PROVE TailInv'
  BY <1>3 DEF DropGuard, SendRelease
<1>4. CASE UNCHANGED vars
  BY <1>4 DEF vars
<1> QED
  BY <1>1, <1>2, <1>3, <1>4 DEF Next

(* Every step keeps the load path's guard held, and actors that are gone   *)
(* without guards.                                                         *)
LEMMA HolderStep ==
    ASSUME TypeOK, TypeOK', LeaseInv, ReleaseInv, HolderInv, [Next]_vars
    PROVE  HolderInv'
<1> USE DEF TypeOK, HolderInv, HoldersAt, Ready, Set, actorVars, taskVars
<1>1. ASSUME NEW d \in Daemon, ActorStep(d) PROVE HolderInv'
  <2>1. CASE AttachFails(d)
    BY <2>1 DEF AttachFails, Own, ThenReleaseIfIdle
  <2>2. CASE RequestRelease(d)
    BY <2>2 DEF RequestRelease
  <2>3. CASE CloseDatabase(d)
    BY <2>3 DEF CloseDatabase, HandleRetained, HandleClosed
  <2>4. CASE DropLease(d)
    BY <2>4 DEF DropLease
  <2>5. CASE IdleTimeout(d)
    <3>1. \A e \in Daemon : status'[e] = "absent" => status[e] = "absent"
      BY <2>5 DEF IdleTimeout, HandleRetained, HandleClosed
    <3>2. UNCHANGED <<guard, loaderGuard, exists>>
      BY <2>5 DEF IdleTimeout
    <3> QED
      BY <3>1, <3>2
  <2>6. CASE AdoptLease(d)
    BY <2>6 DEF AdoptLease, ThenReleaseIfIdle
  <2>7. CASE BeginAppend(d)
    BY <2>7 DEF BeginAppend, Own
  <2>8. CASE CommitAppend(d)
    BY <2>8 DEF CommitAppend
  <2>9. CASE AppendFails(d)
    BY <2>9 DEF AppendFails
  <2>10. CASE CommitFails(d)
    BY <2>10 DEF CommitFails, Refresh
  <2>11. ASSUME NEW c \in Client, Attach(d, c) PROVE HolderInv'
    BY <2>11 DEF Attach, Own
  <2>12. ASSUME NEW c \in Client, AttachUndelivered(d, c) PROVE HolderInv'
    BY <2>12 DEF AttachUndelivered, ThenReleaseIfIdle
  <2>13. ASSUME NEW c \in Client, Detach(d, c) PROVE HolderInv'
    BY <2>13 DEF Detach, ThenReleaseIfIdle
  <2>14. ASSUME NEW g \in Guard, AcquireOwnership(d, g) PROVE HolderInv'
    <3>1. PICK l : GrantGuard(d, g, l)
      BY <2>14 DEF AcquireOwnership
    <3>2. guard[g] = Free /\ guard' = [guard EXCEPT ![g] = [state |-> "held", at |-> d, lease |-> l]]
      BY <3>1 DEF GrantGuard
    <3>3. UNCHANGED <<status, loaderGuard, exists>> /\ status[d] # "absent"
      BY <2>14 DEF AcquireOwnership
    <3> QED
      BY <3>1, <3>2, <3>3, ActorConstants DEF Free
  <2>15. ASSUME NEW g \in Guard, ReleaseOwnership(d, g) PROVE HolderInv'
    <3>1. guard[g].state = "sent" /\ guard' = [guard EXCEPT ![g] = Free]
      BY <2>15 DEF ReleaseOwnership
    <3>2. UNCHANGED <<status, loaderGuard, exists>>
      BY <2>15 DEF ReleaseOwnership
    <3>3. Free.at \notin Daemon
      BY ActorConstants DEF Free
    <3> QED
      BY <3>1, <3>2, <3>3
  <2> QED
    BY <1>1, <2>1, <2>2, <2>3, <2>4, <2>5, <2>6, <2>7, <2>8, <2>9, <2>10, <2>11, <2>12, <2>13,
       <2>14, <2>15 DEF ActorStep
<1>2. ASSUME NEW d \in Daemon, TaskStep(d) PROVE HolderInv'
  <2>1. CASE LoadSummaryActor(d)
    BY <2>1 DEF LoadSummaryActor
  <2>2. CASE LoadPersistentSession(d)
    BY <2>2 DEF LoadPersistentSession
  <2>3. CASE LoadCheck(d)
    BY <2>3 DEF LoadCheck
  <2>4. CASE LoadFinish(d)
    <3>1. \A e \in Daemon : status'[e] = "absent" => status[e] = "absent"
      BY <2>4 DEF LoadFinish
    <3>2. loaderGuard' = [loaderGuard EXCEPT ![d] = NoGuard] /\ exists' = exists
      BY <2>4 DEF LoadFinish
    <3>3. CASE loaderGuard[d] = NoGuard
      BY <2>4, <3>1, <3>2, <3>3 DEF LoadFinish
    <3>4. CASE loaderGuard[d] # NoGuard
      <4>1. SendRelease(loaderGuard[d]) /\ loaderGuard[d] \in Guard
        BY <2>4, <3>4 DEF LoadFinish
      <4>2. \A h \in Guard : guard'[h].at \in {guard[h].at, Nobody} /\ (h # loaderGuard[d] => guard'[h] = guard[h])
        BY <4>1, SendKeeps
      <4>3. Nobody \notin Daemon
        BY ActorConstants
      <4>4. \A e \in Daemon : HoldersAt(e)' \subseteq HoldersAt(e)
        BY <4>2, <4>3
      <4>5. \A e \in Daemon \ {d} : loaderGuard[e] # NoGuard => loaderGuard[e] \in Guard /\ loaderGuard[e] # loaderGuard[d]
        <5>1. guard[loaderGuard[d]].at = d
          BY <3>4
        <5>2. \A e \in Daemon : loaderGuard[e] # NoGuard => loaderGuard[e] \in Guard /\ guard[loaderGuard[e]].at = e
          OBVIOUS
        <5> QED
          BY <5>1, <5>2
      <4>6. \A e \in Daemon : loaderGuard'[e] # NoGuard => guard'[loaderGuard'[e]].state = "held" /\ guard'[loaderGuard'[e]].at = e
        BY <3>2, <4>2, <4>5
      <4> QED
        BY <3>1, <3>2, <4>4, <4>6
    <3> QED
      BY <3>3, <3>4
  <2>5. CASE BeginMigration(d)
    BY <2>5 DEF BeginMigration
  <2>6. CASE EndMigration(d)
    BY <2>6 DEF EndMigration
  <2>7. CASE DeleteCheck(d)
    BY <2>7 DEF DeleteCheck
  <2>8. CASE DeleteFinish(d)
    BY <2>8 DEF DeleteFinish
  <2>9. CASE Crash(d)
    <3>1. \A h \in Guard : (guard[h].at = d => guard'[h] = Free) /\ (guard[h].at # d => guard'[h] = guard[h])
      BY <2>9 DEF Crash
    <3>2. status' = [status EXCEPT ![d] = "absent"] /\ loaderGuard' = [loaderGuard EXCEPT ![d] = NoGuard] /\ exists' = exists
      BY <2>9 DEF Crash
    <3>3. Free.at \notin Daemon
      BY ActorConstants DEF Free
    <3>4. HoldersAt(d)' = {}
      BY <3>1, <3>3
    <3>5. \A h \in Guard : guard'[h].at \in {guard[h].at, Free.at}
      BY <3>1
    <3>6. \A e \in Daemon \ {d} : HoldersAt(e)' \subseteq HoldersAt(e)
      BY <3>3, <3>5
    <3>7. \A e \in Daemon \ {d} : loaderGuard[e] # NoGuard => guard'[loaderGuard[e]] = guard[loaderGuard[e]]
      BY <3>1
    <3> QED
      BY <3>1, <3>2, <3>3, <3>4, <3>5, <3>6, <3>7
  <2>10. CASE LoadGuard(d)
    <3>1. UNCHANGED <<status, exists>> /\ status[d] # "absent"
      BY <2>10 DEF LoadGuard
    <3>2. PICK g \in Guard, l \in EnsureOwnership(d) : GrantGuard(d, g, l) /\ loaderGuard' = [loaderGuard EXCEPT ![d] = g]
      BY <2>10 DEF LoadGuard
    <3>3. guard[g] = Free /\ guard' = [guard EXCEPT ![g] = [state |-> "held", at |-> d, lease |-> l]]
      BY <3>2 DEF GrantGuard
    <3>4. guard[g].state = "free"
      BY <3>3 DEF Free
    <3> QED
      BY <3>1, <3>2, <3>3, <3>4
  <2> QED
    BY <1>2, <2>1, <2>2, <2>3, <2>4, <2>5, <2>6, <2>7, <2>8, <2>9, <2>10 DEF TaskStep
<1>3. ASSUME NEW g \in Guard, DropGuard(g) PROVE HolderInv'
  <2>1. SendRelease(g) /\ UNCHANGED <<status, loaderGuard, exists>>
    BY <1>3 DEF DropGuard
  <2>2. \A h \in Guard : guard'[h].at \in {guard[h].at, Nobody} /\ (h # g => guard'[h] = guard[h])
    BY <2>1, SendKeeps
  <2>3. \A e \in Daemon : loaderGuard[e] # g
    BY <1>3 DEF DropGuard
  <2>4. Nobody \notin Daemon
    BY ActorConstants
  <2>5. \A e \in Daemon : HoldersAt(e)' \subseteq HoldersAt(e)
    BY <2>2, <2>4
  <2>6. \A e \in Daemon : loaderGuard'[e] # NoGuard => guard'[loaderGuard'[e]] = guard[loaderGuard[e]]
    BY <2>1, <2>2, <2>3
  <2> QED
    BY <2>1, <2>2, <2>3, <2>4, <2>5, <2>6
<1>4. CASE UNCHANGED vars
  BY <1>4 DEF vars
<1> QED
  BY <1>1, <1>2, <1>3, <1>4 DEF Next

(* Every step keeps the actors that call their state current at the tail.  *)
LEMMA CaughtUpStep ==
    ASSUME TypeOK, TypeOK', LeaseInv, ReleaseInv, TailInv, CurrentIsCaughtUp, [Next]_vars
    PROVE  CurrentIsCaughtUp'
<1> USE DEF TypeOK, CurrentIsCaughtUp, Ready, Set, actorVars, taskVars
<1>1. ASSUME NEW d \in Daemon, ActorStep(d) PROVE CurrentIsCaughtUp'
  <2>1. CASE AttachFails(d)
    BY <2>1 DEF AttachFails, Own, ThenReleaseIfIdle
  <2>2. CASE RequestRelease(d)
    BY <2>2 DEF RequestRelease
  <2>3. CASE CloseDatabase(d)
    BY <2>3 DEF CloseDatabase, HandleRetained, HandleClosed
  <2>4. CASE DropLease(d)
    BY <2>4 DEF DropLease
  <2>5. CASE IdleTimeout(d)
    BY <2>5 DEF IdleTimeout, HandleRetained, HandleClosed
  <2>6. CASE AdoptLease(d)
    BY <2>6 DEF AdoptLease, ThenReleaseIfIdle
  <2>7. CASE BeginAppend(d)
    BY <2>7 DEF BeginAppend, Own
  <2>8. CASE CommitAppend(d)
    <3>1. \A e \in Daemon \ {d} : status[e] # "current"
      BY <2>8, SoleOwner DEF CommitAppend, ReleaseInv, TailInv, Active
    <3>2. \A e \in Daemon \ {d} : status'[e] = status[e] /\ next'[e] = next[e]
      BY <2>8 DEF CommitAppend
    <3>3. tail' = tail + 1 /\ next'[d] = tail + 2
      BY <2>8 DEF CommitAppend
    <3>4. next'[d] \in {tail', tail' + 1}
      BY <3>3
    <3> QED
      BY <3>1, <3>2, <3>3, <3>4
  <2>9. CASE AppendFails(d)
    BY <2>9 DEF AppendFails
  <2>10. CASE CommitFails(d)
    <3>1. \A e \in Daemon \ {d} : status[e] # "current"
      BY <2>10, SoleOwner DEF CommitFails, ReleaseInv, TailInv, Active
    <3>2. \A e \in Daemon \ {d} : status'[e] = status[e] /\ next'[e] = next[e]
      BY <2>10 DEF CommitFails, Refresh
    <3>3. tail' \in {tail, tail + 1} /\ next'[d] = tail + 1
      BY <2>10 DEF CommitFails, Refresh
    <3>4. next'[d] \in {tail', tail' + 1}
      BY <3>3
    <3> QED
      BY <3>1, <3>2, <3>3, <3>4
  <2>11. ASSUME NEW c \in Client, Attach(d, c) PROVE CurrentIsCaughtUp'
    BY <2>11 DEF Attach, Own
  <2>12. ASSUME NEW c \in Client, AttachUndelivered(d, c) PROVE CurrentIsCaughtUp'
    BY <2>12 DEF AttachUndelivered, ThenReleaseIfIdle
  <2>13. ASSUME NEW c \in Client, Detach(d, c) PROVE CurrentIsCaughtUp'
    BY <2>13 DEF Detach, ThenReleaseIfIdle
  <2>14. ASSUME NEW g \in Guard, AcquireOwnership(d, g) PROVE CurrentIsCaughtUp'
    BY <2>14 DEF AcquireOwnership, GrantGuard, Own
  <2>15. ASSUME NEW g \in Guard, ReleaseOwnership(d, g) PROVE CurrentIsCaughtUp'
    BY <2>15 DEF ReleaseOwnership, ThenReleaseIfIdle
  <2> QED
    BY <1>1, <2>1, <2>2, <2>3, <2>4, <2>5, <2>6, <2>7, <2>8, <2>9, <2>10, <2>11, <2>12, <2>13,
       <2>14, <2>15 DEF ActorStep
<1>2. ASSUME NEW d \in Daemon, TaskStep(d) PROVE CurrentIsCaughtUp'
  <2>1. CASE LoadSummaryActor(d)
    BY <2>1 DEF LoadSummaryActor
  <2>2. CASE LoadPersistentSession(d)
    BY <2>2 DEF LoadPersistentSession
  <2>3. CASE LoadCheck(d)
    BY <2>3 DEF LoadCheck
  <2>4. CASE LoadFinish(d)
    BY <2>4 DEF LoadFinish, Own, SendRelease
  <2>5. CASE BeginMigration(d)
    BY <2>5 DEF BeginMigration
  <2>6. CASE EndMigration(d)
    BY <2>6 DEF EndMigration
  <2>7. CASE DeleteCheck(d)
    BY <2>7 DEF DeleteCheck
  <2>8. CASE DeleteFinish(d)
    BY <2>8 DEF DeleteFinish
  <2>9. CASE Crash(d)
    BY <2>9 DEF Crash
  <2>10. CASE LoadGuard(d)
    BY <2>10 DEF LoadGuard, GrantGuard, Own
  <2> QED
    BY <1>2, <2>1, <2>2, <2>3, <2>4, <2>5, <2>6, <2>7, <2>8, <2>9, <2>10 DEF TaskStep
<1>3. ASSUME NEW g \in Guard, DropGuard(g) PROVE CurrentIsCaughtUp'
  BY <1>3 DEF DropGuard, SendRelease
<1>4. CASE UNCHANGED vars
  BY <1>4 DEF vars
<1> QED
  BY <1>1, <1>2, <1>3, <1>4 DEF Next

(* Every step leaves an actor that somebody holds with a lease.             *)
LEMMA ActivityStep ==
    ASSUME TypeOK, TypeOK', LeaseInv, ReleaseInv, HolderInv, GuardCountsMatch, ActivityIsOwned, [Next]_vars
    PROVE  ActivityIsOwned'
<1> USE DEF TypeOK, ActivityIsOwned, HoldersAt, Ready, Set, actorVars, taskVars
<1>1. ASSUME NEW d \in Daemon, ActorStep(d) PROVE ActivityIsOwned'
  <2>1. CASE AttachFails(d)
    BY <2>1, OwnedLease DEF AttachFails, Own, ThenReleaseIfIdle
  <2>2. CASE RequestRelease(d)
    BY <2>2 DEF RequestRelease
  <2>3. CASE CloseDatabase(d)
    <3>1. \A e \in Daemon : status'[e] # "absent" => status[e] # "absent"
      BY <2>3 DEF CloseDatabase, HandleRetained, HandleClosed, ReleaseInv
    <3>2. UNCHANGED <<guard, clients, lease>>
      BY <2>3 DEF CloseDatabase
    <3> QED
      BY <3>1, <3>2
  <2>4. CASE DropLease(d)
    <3>1. status[d] # "absent" /\ Quiescent(clients[d], counts[d])
      BY <2>4 DEF DropLease, ReleaseInv
    <3>2. clients[d] = {} /\ HoldersAt(d) = {}
      BY <3>1, NoCountNoHolder DEF Quiescent
    <3>3. UNCHANGED <<guard, clients, status>> /\ \A e \in Daemon \ {d} : lease'[e] = lease[e]
      BY <2>4 DEF DropLease
    <3> QED
      BY <3>1, <3>2, <3>3
  <2>5. CASE IdleTimeout(d)
    BY <2>5 DEF IdleTimeout, HandleRetained, HandleClosed
  <2>6. CASE AdoptLease(d)
    BY <2>6 DEF AdoptLease, ThenReleaseIfIdle
  <2>7. CASE BeginAppend(d)
    BY <2>7, OwnedLease DEF BeginAppend, Own
  <2>8. CASE CommitAppend(d)
    <3>1. status[d] # "absent" /\ \A e \in Daemon \ {d} : status'[e] = status[e]
      BY <2>8 DEF CommitAppend, ReleaseInv
    <3>2. UNCHANGED <<guard, clients, lease>>
      BY <2>8 DEF CommitAppend
    <3> QED
      BY <3>1, <3>2
  <2>9. CASE AppendFails(d)
    BY <2>9 DEF AppendFails
  <2>10. CASE CommitFails(d)
    <3>1. status[d] # "absent" /\ \A e \in Daemon \ {d} : status'[e] = status[e]
      BY <2>10 DEF CommitFails, Refresh, ReleaseInv
    <3>2. UNCHANGED <<guard, clients, lease>>
      BY <2>10 DEF CommitFails
    <3> QED
      BY <3>1, <3>2
  <2>11. ASSUME NEW c \in Client, Attach(d, c) PROVE ActivityIsOwned'
    BY <2>11, OwnedLease DEF Attach, Own
  <2>12. ASSUME NEW c \in Client, AttachUndelivered(d, c) PROVE ActivityIsOwned'
    BY <2>12, OwnedLease DEF AttachUndelivered, ThenReleaseIfIdle
  <2>13. ASSUME NEW c \in Client, Detach(d, c) PROVE ActivityIsOwned'
    BY <2>13 DEF Detach, ThenReleaseIfIdle
  <2>14. ASSUME NEW g \in Guard, AcquireOwnership(d, g) PROVE ActivityIsOwned'
    BY <2>14, OwnedLease DEF AcquireOwnership, GrantGuard, Own
  <2>15. ASSUME NEW g \in Guard, ReleaseOwnership(d, g) PROVE ActivityIsOwned'
    <3>1. Free.at \notin Daemon
      BY ActorConstants DEF Free
    <3>2. guard' = [guard EXCEPT ![g] = Free] /\ UNCHANGED <<status, clients, lease>>
      BY <2>15 DEF ReleaseOwnership
    <3> QED
      BY <3>1, <3>2
  <2> QED
    BY <1>1, <2>1, <2>2, <2>3, <2>4, <2>5, <2>6, <2>7, <2>8, <2>9, <2>10, <2>11, <2>12, <2>13,
       <2>14, <2>15 DEF ActorStep
<1>2. ASSUME NEW d \in Daemon, TaskStep(d) PROVE ActivityIsOwned'
  <2>1. CASE LoadSummaryActor(d)
    <3>1. clients[d] = {} /\ HoldersAt(d) = {}
      BY <2>1 DEF LoadSummaryActor, HolderInv, ReleaseInv
    <3>2. UNCHANGED <<guard, clients, lease>> /\ \A e \in Daemon \ {d} : status'[e] = status[e]
      BY <2>1 DEF LoadSummaryActor
    <3> QED
      BY <3>1, <3>2
  <2>2. CASE LoadPersistentSession(d)
    BY <2>2, FreshLease, NoLeaseIsNone DEF LoadPersistentSession
  <2>3. CASE LoadCheck(d)
    BY <2>3 DEF LoadCheck
  <2>4. CASE LoadFinish(d)
    <3>1. \A e \in Daemon : status'[e] # "absent" => status[e] # "absent"
      BY <2>4 DEF LoadFinish
    <3>2. clients' = clients
      BY <2>4 DEF LoadFinish
    <3>3. \A e \in Daemon : lease[e] # NoLease => lease'[e] = lease[e]
      BY <2>4 DEF LoadFinish, Own, EnsureOwnership
    <3>4. \A h \in Guard : guard'[h].at \in {guard[h].at, Nobody}
      BY <2>4, SendKeeps DEF LoadFinish
    <3>5. Nobody \notin Daemon
      BY ActorConstants
    <3>6. \A e \in Daemon : HoldersAt(e)' \subseteq HoldersAt(e)
      BY <3>4, <3>5
    <3> QED
      BY <3>1, <3>2, <3>3, <3>4, <3>5, <3>6
  <2>5. CASE BeginMigration(d)
    BY <2>5 DEF BeginMigration
  <2>6. CASE EndMigration(d)
    BY <2>6 DEF EndMigration
  <2>7. CASE DeleteCheck(d)
    BY <2>7 DEF DeleteCheck
  <2>8. CASE DeleteFinish(d)
    <3>1. Free.at \notin Daemon
      BY ActorConstants DEF Free
    <3>2. status'[d] = "absent" /\ \A e \in Daemon \ {d} : status'[e] = status[e] /\ clients'[e] = clients[e] /\ lease'[e] = lease[e]
      BY <2>8 DEF DeleteFinish
    <3>3. \A h \in Guard : guard'[h] \in {guard[h], Free}
      BY <2>8 DEF DeleteFinish
    <3>4. \A e \in Daemon : HoldersAt(e)' \subseteq HoldersAt(e)
      BY <3>1, <3>3
    <3> QED
      BY <3>1, <3>2, <3>3, <3>4
  <2>9. CASE Crash(d)
    <3>1. Free.at \notin Daemon
      BY ActorConstants DEF Free
    <3>2. status'[d] = "absent" /\ \A e \in Daemon \ {d} : status'[e] = status[e] /\ clients'[e] = clients[e] /\ lease'[e] = lease[e]
      BY <2>9 DEF Crash
    <3>3. \A h \in Guard : guard'[h] \in {guard[h], Free}
      BY <2>9 DEF Crash
    <3>4. \A e \in Daemon : HoldersAt(e)' \subseteq HoldersAt(e)
      BY <3>1, <3>3
    <3> QED
      BY <3>1, <3>2, <3>3, <3>4
  <2>10. CASE LoadGuard(d)
    BY <2>10, OwnedLease DEF LoadGuard, GrantGuard, Own
  <2> QED
    BY <1>2, <2>1, <2>2, <2>3, <2>4, <2>5, <2>6, <2>7, <2>8, <2>9, <2>10 DEF TaskStep
<1>3. ASSUME NEW g \in Guard, DropGuard(g) PROVE ActivityIsOwned'
  <2>1. SendRelease(g) /\ UNCHANGED <<status, clients, lease>>
    BY <1>3 DEF DropGuard
  <2>2. \A h \in Guard : guard'[h].at \in {guard[h].at, Nobody} /\ (h # g => guard'[h] = guard[h])
    BY <2>1, SendKeeps
  <2>3. Nobody \notin Daemon
    BY ActorConstants
  <2>4. \A e \in Daemon : HoldersAt(e)' \subseteq HoldersAt(e)
    BY <2>2, <2>3
  <2> QED
    BY <2>1, <2>2, <2>3, <2>4
<1>4. CASE UNCHANGED vars
  BY <1>4 DEF vars
<1> QED
  BY <1>1, <1>2, <1>3, <1>4 DEF Next

-----------------------------------------------------------------------------
(* Counts.  GuardCountsMatch, for one actor.                               *)
KindAt(d, k) == {g \in HoldersAt(d) : KindOf[g] = k}

CountsAt(d) ==
    status[d] # "absent" => \A k \in Kind : counts[d][k] = Cardinality(KindAt(d, k))

LEMMA CountsByActor ==
    GuardCountsMatch <=> \A d \in Daemon : CountsAt(d)
BY DEF GuardCountsMatch, CountsAt, KindAt

LEMMA CountsByActorNext ==
    GuardCountsMatch' <=> \A d \in Daemon : CountsAt(d)'
BY DEF GuardCountsMatch, CountsAt, KindAt

LEMMA KindAtFinite ==
    ASSUME NEW d, NEW k
    PROVE  IsFiniteSet(KindAt(d, k))
<1>1. KindAt(d, k) \subseteq Guard
  BY DEF KindAt, HoldersAt
<1> QED
  BY <1>1, ActorConstants, FS_Subset

(* An actor whose count and guards a step leaves alone.                    *)
LEMMA CountsFrame ==
    ASSUME GuardCountsMatch, NEW e \in Daemon,
           status'[e] # "absent" => status[e] # "absent",
           status'[e] # "absent" => counts'[e] = counts[e],
           status'[e] # "absent" => HoldersAt(e)' = HoldersAt(e)
    PROVE  CountsAt(e)'
<1>1. status'[e] # "absent" => \A k : KindAt(e, k)' = KindAt(e, k)
  BY DEF KindAt
<1> QED
  BY <1>1, CountsByActor DEF CountsAt

(* A guard is granted: the count of its kind goes up by one.               *)
LEMMA CountsGranted ==
    ASSUME TypeOK, GuardCountsMatch, NEW d \in Daemon, NEW g \in Guard, NEW l,
           status[d] # "absent", UNCHANGED status, GrantGuard(d, g, l)
    PROVE  GuardCountsMatch'
<1>1. guard[g] = Free /\ guard' = [guard EXCEPT ![g] = [state |-> "held", at |-> d, lease |-> l]]
  BY DEF GrantGuard, Set
<1>2. counts' = [counts EXCEPT ![d] = [counts[d] EXCEPT ![KindOf[g]] = @ + 1]]
  BY DEF GrantGuard, Set
<1>3. Free.at \notin Daemon
  BY ActorConstants DEF Free
<1>4. guard \in [Guard -> GuardRecord] /\ counts \in [Daemon -> [Kind -> Nat]] /\ KindOf[g] \in Kind
  BY ActorConstants DEF TypeOK
<1>5. g \notin HoldersAt(d) /\ HoldersAt(d)' = HoldersAt(d) \union {g}
  BY <1>1, <1>3, <1>4 DEF HoldersAt
<1>6. \A e \in Daemon \ {d} : HoldersAt(e)' = HoldersAt(e)
  BY <1>1, <1>3, <1>4 DEF HoldersAt
<1>7. \A e \in Daemon \ {d} : CountsAt(e)'
  BY <1>2, <1>4, <1>6, CountsFrame
<1>8. ASSUME NEW k \in Kind PROVE counts'[d][k] = Cardinality(KindAt(d, k)')
  <2>1. counts[d][k] = Cardinality(KindAt(d, k))
    BY CountsByActor DEF CountsAt
  <2>2. CASE k = KindOf[g]
    <3>1. KindAt(d, k)' = KindAt(d, k) \union {g} /\ g \notin KindAt(d, k)
      BY <1>5, <2>2 DEF KindAt
    <3>2. Cardinality(KindAt(d, k)') = Cardinality(KindAt(d, k)) + 1
      BY <3>1, KindAtFinite, FS_AddElement
    <3>3. counts'[d][k] = counts[d][k] + 1
      BY <1>2, <1>4, <2>2
    <3> QED
      BY <2>1, <3>2, <3>3
  <2>3. CASE k # KindOf[g]
    <3>1. KindAt(d, k)' = KindAt(d, k)
      BY <1>5, <2>3 DEF KindAt
    <3>2. counts'[d][k] = counts[d][k]
      BY <1>2, <1>4, <2>3
    <3> QED
      BY <2>1, <3>1, <3>2
  <2> QED
    BY <2>2, <2>3
<1>9. CountsAt(d)'
  BY <1>8 DEF CountsAt
<1> QED
  BY <1>7, <1>9, CountsByActorNext

(* A release is received: the count of its kind goes down by one, which it *)
(* can, because the guard is one of those it counts.                       *)
LEMMA CountsReleased ==
    ASSUME TypeOK, GuardCountsMatch, NEW d \in Daemon, NEW g \in Guard, ReleaseOwnership(d, g)
    PROVE  GuardCountsMatch'
<1>1. guard[g].at = d /\ status[d] # "absent"
  BY DEF ReleaseOwnership, Ready
<1>2. guard' = [guard EXCEPT ![g] = Free] /\ status' = status
  BY DEF ReleaseOwnership, Set
<1>3. Free.at \notin Daemon
  BY ActorConstants DEF Free
<1>4. guard \in [Guard -> GuardRecord] /\ counts \in [Daemon -> [Kind -> Nat]] /\ KindOf[g] \in Kind
  BY ActorConstants DEF TypeOK
<1>5. g \in HoldersAt(d) /\ HoldersAt(d)' = HoldersAt(d) \ {g}
  BY <1>1, <1>2, <1>3, <1>4 DEF HoldersAt
<1>6. \A e \in Daemon \ {d} : HoldersAt(e)' = HoldersAt(e)
  BY <1>1, <1>2, <1>3, <1>4 DEF HoldersAt
<1>7. \A k \in Kind : counts[d][k] = Cardinality(KindAt(d, k))
  BY <1>1, CountsByActor DEF CountsAt
<1>8. counts[d][KindOf[g]] # 0
  <2>1. g \in KindAt(d, KindOf[g])
    BY <1>5 DEF KindAt
  <2>2. Cardinality(KindAt(d, KindOf[g])) # 0
    BY <2>1, KindAtFinite, FS_EmptySet
  <2> QED
    BY <1>4, <1>7, <2>2
<1>9. counts' = [counts EXCEPT ![d] = [counts[d] EXCEPT ![KindOf[g]] = @ - 1]]
  BY <1>8 DEF ReleaseOwnership, CountLeft, Set
<1>10. \A e \in Daemon \ {d} : CountsAt(e)'
  BY <1>2, <1>4, <1>6, <1>9, CountsFrame
<1>11. ASSUME NEW k \in Kind PROVE counts'[d][k] = Cardinality(KindAt(d, k)')
  <2>1. CASE k = KindOf[g]
    <3>1. KindAt(d, k)' = KindAt(d, k) \ {g} /\ g \in KindAt(d, k)
      BY <1>5, <2>1 DEF KindAt
    <3>2. Cardinality(KindAt(d, k)') = Cardinality(KindAt(d, k)) - 1
      BY <3>1, KindAtFinite, FS_RemoveElement
    <3>3. counts'[d][k] = counts[d][k] - 1
      BY <1>4, <1>9, <2>1
    <3> QED
      BY <1>7, <3>2, <3>3
  <2>2. CASE k # KindOf[g]
    <3>1. KindAt(d, k)' = KindAt(d, k)
      BY <1>5, <2>2 DEF KindAt
    <3>2. counts'[d][k] = counts[d][k]
      BY <1>4, <1>9, <2>2
    <3> QED
      BY <1>7, <3>1, <3>2
  <2> QED
    BY <2>1, <2>2
<1>12. CountsAt(d)'
  BY <1>11 DEF CountsAt
<1> QED
  BY <1>10, <1>12, CountsByActorNext

(* The guards of d go free: those of another actor are not touched.        *)
LEMMA FreedElsewhere ==
    ASSUME NEW d \in Daemon, NEW e \in Daemon \ {d},
           \A h \in Guard : guard'[h] = guard[h] \/ (guard[h].at = d /\ guard'[h] = Free)
    PROVE  HoldersAt(e)' = HoldersAt(e)
<1>1. Free.at # e
  BY ActorConstants DEF Free
<1>2. \A h \in Guard : guard'[h].at = e <=> guard[h].at = e
  <2> SUFFICES ASSUME NEW h \in Guard PROVE guard'[h].at = e <=> guard[h].at = e
    OBVIOUS
  <2>1. CASE guard'[h] = guard[h]
    BY <2>1
  <2>2. CASE guard[h].at = d /\ guard'[h] = Free
    BY <1>1, <2>2
  <2> QED
    BY <2>1, <2>2
<1> QED
  BY <1>2 DEF HoldersAt

(* A release is sent: to an actor that is there, it stays a guard of it.   *)
LEMMA SendKeepsHolders ==
    ASSUME TypeOK, NEW g \in Guard, SendRelease(g), NEW e \in Daemon, status[e] # "absent"
    PROVE  HoldersAt(e)' = HoldersAt(e)
<1>1. \A h \in Guard : h # g => guard'[h] = guard[h]
  BY SendKeeps
<1>2. guard[g] \in GuardRecord /\ guard \in [Guard -> GuardRecord]
  BY DEF TypeOK
<1>3. [guard[g] EXCEPT !.state = "sent"].at = guard[g].at
  BY <1>2 DEF GuardRecord, Free
<1>4. CASE status[guard[g].at] = "absent"
  <2>1. guard'[g] = Free /\ guard[g].at # e
    BY <1>2, <1>4 DEF SendRelease, Set
  <2>2. Free.at # e
    BY ActorConstants DEF Free
  <2> QED
    BY <1>1, <2>1, <2>2 DEF HoldersAt
<1>5. CASE status[guard[g].at] # "absent"
  <2>1. guard'[g] = [guard[g] EXCEPT !.state = "sent"]
    BY <1>2, <1>5 DEF SendRelease, Set
  <2>2. \A h \in Guard : guard'[h].at = guard[h].at
    BY <1>1, <1>3, <2>1
  <2> QED
    BY <2>2 DEF HoldersAt
<1> QED
  BY <1>4, <1>5

(* Every step keeps the counts those of the guards.                        *)
LEMMA CountStep ==
    ASSUME TypeOK, TypeOK', ReleaseInv, HolderInv, GuardCountsMatch, [Next]_vars
    PROVE  GuardCountsMatch'
<1> USE DEF TypeOK, Ready, Set, actorVars, taskVars
<1>1. ASSUME NEW d \in Daemon, ActorStep(d) PROVE GuardCountsMatch'
  <2>1. CASE AttachFails(d)
    <3>1. \A e \in Daemon : status'[e] # "absent" => status[e] # "absent"
      BY <2>1 DEF AttachFails, Own, ThenReleaseIfIdle
    <3>2. UNCHANGED <<counts, guard>>
      BY <2>1 DEF AttachFails
    <3>3. \A e \in Daemon : HoldersAt(e)' = HoldersAt(e)
      BY <3>2 DEF HoldersAt
    <3>4. \A e \in Daemon : CountsAt(e)'
      BY <3>1, <3>2, <3>3, CountsFrame
    <3> QED
      BY <3>1, <3>2, <3>3, <3>4, CountsByActorNext
  <2>2. CASE RequestRelease(d)
    <3>1. \A e \in Daemon : status'[e] # "absent" => status[e] # "absent"
      BY <2>2 DEF RequestRelease
    <3>2. UNCHANGED <<counts, guard>>
      BY <2>2 DEF RequestRelease
    <3>3. \A e \in Daemon : HoldersAt(e)' = HoldersAt(e)
      BY <3>2 DEF HoldersAt
    <3>4. \A e \in Daemon : CountsAt(e)'
      BY <3>1, <3>2, <3>3, CountsFrame
    <3> QED
      BY <3>1, <3>2, <3>3, <3>4, CountsByActorNext
  <2>3. CASE CloseDatabase(d)
    <3>1. \A e \in Daemon : status'[e] # "absent" => status[e] # "absent"
      BY <2>3 DEF CloseDatabase, HandleRetained, HandleClosed, ReleaseInv
    <3>2. UNCHANGED <<counts, guard>>
      BY <2>3 DEF CloseDatabase
    <3>3. \A e \in Daemon : HoldersAt(e)' = HoldersAt(e)
      BY <3>2 DEF HoldersAt
    <3>4. \A e \in Daemon : CountsAt(e)'
      BY <3>1, <3>2, <3>3, CountsFrame
    <3> QED
      BY <3>1, <3>2, <3>3, <3>4, CountsByActorNext
  <2>4. CASE DropLease(d)
    <3>1. \A e \in Daemon : status'[e] # "absent" => status[e] # "absent"
      BY <2>4 DEF DropLease
    <3>2. UNCHANGED <<counts, guard>>
      BY <2>4 DEF DropLease
    <3>3. \A e \in Daemon : HoldersAt(e)' = HoldersAt(e)
      BY <3>2 DEF HoldersAt
    <3>4. \A e \in Daemon : CountsAt(e)'
      BY <3>1, <3>2, <3>3, CountsFrame
    <3> QED
      BY <3>1, <3>2, <3>3, <3>4, CountsByActorNext
  <2>5. CASE IdleTimeout(d)
    <3>1. \A e \in Daemon : status'[e] # "absent" => status[e] # "absent"
      BY <2>5 DEF IdleTimeout, HandleRetained, HandleClosed
    <3>2. UNCHANGED <<counts, guard>>
      BY <2>5 DEF IdleTimeout
    <3>3. \A e \in Daemon : HoldersAt(e)' = HoldersAt(e)
      BY <3>2 DEF HoldersAt
    <3>4. \A e \in Daemon : CountsAt(e)'
      BY <3>1, <3>2, <3>3, CountsFrame
    <3> QED
      BY <3>1, <3>2, <3>3, <3>4, CountsByActorNext
  <2>6. CASE AdoptLease(d)
    <3>1. \A e \in Daemon : status'[e] # "absent" => status[e] # "absent"
      BY <2>6 DEF AdoptLease, ThenReleaseIfIdle
    <3>2. UNCHANGED <<counts, guard>>
      BY <2>6 DEF AdoptLease
    <3>3. \A e \in Daemon : HoldersAt(e)' = HoldersAt(e)
      BY <3>2 DEF HoldersAt
    <3>4. \A e \in Daemon : CountsAt(e)'
      BY <3>1, <3>2, <3>3, CountsFrame
    <3> QED
      BY <3>1, <3>2, <3>3, <3>4, CountsByActorNext
  <2>7. CASE BeginAppend(d)
    <3>1. \A e \in Daemon : status'[e] # "absent" => status[e] # "absent"
      BY <2>7 DEF BeginAppend, Own
    <3>2. UNCHANGED <<counts, guard>>
      BY <2>7 DEF BeginAppend
    <3>3. \A e \in Daemon : HoldersAt(e)' = HoldersAt(e)
      BY <3>2 DEF HoldersAt
    <3>4. \A e \in Daemon : CountsAt(e)'
      BY <3>1, <3>2, <3>3, CountsFrame
    <3> QED
      BY <3>1, <3>2, <3>3, <3>4, CountsByActorNext
  <2>8. CASE CommitAppend(d)
    <3>1. \A e \in Daemon : status'[e] # "absent" => status[e] # "absent"
      BY <2>8 DEF CommitAppend, ReleaseInv
    <3>2. UNCHANGED <<counts, guard>>
      BY <2>8 DEF CommitAppend
    <3>3. \A e \in Daemon : HoldersAt(e)' = HoldersAt(e)
      BY <3>2 DEF HoldersAt
    <3>4. \A e \in Daemon : CountsAt(e)'
      BY <3>1, <3>2, <3>3, CountsFrame
    <3> QED
      BY <3>1, <3>2, <3>3, <3>4, CountsByActorNext
  <2>9. CASE AppendFails(d)
    <3>1. \A e \in Daemon : status'[e] # "absent" => status[e] # "absent"
      BY <2>9 DEF AppendFails
    <3>2. UNCHANGED <<counts, guard>>
      BY <2>9 DEF AppendFails
    <3>3. \A e \in Daemon : HoldersAt(e)' = HoldersAt(e)
      BY <3>2 DEF HoldersAt
    <3>4. \A e \in Daemon : CountsAt(e)'
      BY <3>1, <3>2, <3>3, CountsFrame
    <3> QED
      BY <3>1, <3>2, <3>3, <3>4, CountsByActorNext
  <2>10. CASE CommitFails(d)
    <3>1. \A e \in Daemon : status'[e] # "absent" => status[e] # "absent"
      BY <2>10 DEF CommitFails, Refresh, ReleaseInv
    <3>2. UNCHANGED <<counts, guard>>
      BY <2>10 DEF CommitFails
    <3>3. \A e \in Daemon : HoldersAt(e)' = HoldersAt(e)
      BY <3>2 DEF HoldersAt
    <3>4. \A e \in Daemon : CountsAt(e)'
      BY <3>1, <3>2, <3>3, CountsFrame
    <3> QED
      BY <3>1, <3>2, <3>3, <3>4, CountsByActorNext
  <2>11. ASSUME NEW c \in Client, Attach(d, c) PROVE GuardCountsMatch'
    <3>1. \A e \in Daemon : status'[e] # "absent" => status[e] # "absent"
      BY <2>11 DEF Attach, Own
    <3>2. UNCHANGED <<counts, guard>>
      BY <2>11 DEF Attach
    <3>3. \A e \in Daemon : HoldersAt(e)' = HoldersAt(e)
      BY <3>2 DEF HoldersAt
    <3>4. \A e \in Daemon : CountsAt(e)'
      BY <3>1, <3>2, <3>3, CountsFrame
    <3> QED
      BY <3>1, <3>2, <3>3, <3>4, CountsByActorNext
  <2>12. ASSUME NEW c \in Client, AttachUndelivered(d, c) PROVE GuardCountsMatch'
    <3>1. \A e \in Daemon : status'[e] # "absent" => status[e] # "absent"
      BY <2>12 DEF AttachUndelivered, ThenReleaseIfIdle
    <3>2. UNCHANGED <<counts, guard>>
      BY <2>12 DEF AttachUndelivered
    <3>3. \A e \in Daemon : HoldersAt(e)' = HoldersAt(e)
      BY <3>2 DEF HoldersAt
    <3>4. \A e \in Daemon : CountsAt(e)'
      BY <3>1, <3>2, <3>3, CountsFrame
    <3> QED
      BY <3>1, <3>2, <3>3, <3>4, CountsByActorNext
  <2>13. ASSUME NEW c \in Client, Detach(d, c) PROVE GuardCountsMatch'
    <3>1. \A e \in Daemon : status'[e] # "absent" => status[e] # "absent"
      BY <2>13 DEF Detach, ThenReleaseIfIdle
    <3>2. UNCHANGED <<counts, guard>>
      BY <2>13 DEF Detach
    <3>3. \A e \in Daemon : HoldersAt(e)' = HoldersAt(e)
      BY <3>2 DEF HoldersAt
    <3>4. \A e \in Daemon : CountsAt(e)'
      BY <3>1, <3>2, <3>3, CountsFrame
    <3> QED
      BY <3>1, <3>2, <3>3, <3>4, CountsByActorNext
  <2>14. ASSUME NEW g \in Guard, AcquireOwnership(d, g) PROVE GuardCountsMatch'
    <3>1. PICK l : GrantGuard(d, g, l)
      BY <2>14 DEF AcquireOwnership
    <3>2. UNCHANGED status /\ status[d] # "absent"
      BY <2>14 DEF AcquireOwnership
    <3> QED
      BY <3>1, <3>2, CountsGranted
  <2>15. ASSUME NEW g \in Guard, ReleaseOwnership(d, g) PROVE GuardCountsMatch'
    BY <2>15, CountsReleased
  <2> QED
    BY <1>1, <2>1, <2>2, <2>3, <2>4, <2>5, <2>6, <2>7, <2>8, <2>9, <2>10, <2>11, <2>12, <2>13,
       <2>14, <2>15 DEF ActorStep
<1>2. ASSUME NEW d \in Daemon, TaskStep(d) PROVE GuardCountsMatch'
  <2>1. CASE LoadSummaryActor(d)
    <3>1. HoldersAt(d) = {} /\ counts[d] = [j \in Kind |-> 0]
      BY <2>1 DEF LoadSummaryActor, HolderInv, ReleaseInv
    <3>2. UNCHANGED <<counts, guard>> /\ \A e \in Daemon \ {d} : status'[e] = status[e]
      BY <2>1 DEF LoadSummaryActor
    <3>3. \A e \in Daemon : HoldersAt(e)' = HoldersAt(e)
      BY <3>2 DEF HoldersAt
    <3>4. \A e \in Daemon \ {d} : CountsAt(e)'
      BY <3>2, <3>3, CountsFrame
    <3>5. \A j \in Kind : KindAt(d, j)' = {}
      BY <3>1, <3>3 DEF KindAt
    <3>6. CountsAt(d)'
      BY <3>1, <3>2, <3>5, FS_EmptySet DEF CountsAt
    <3> QED
      BY <3>1, <3>2, <3>3, <3>4, <3>5, <3>6, CountsByActorNext
  <2>2. CASE LoadPersistentSession(d)
    <3>1. HoldersAt(d) = {} /\ counts[d] = [j \in Kind |-> 0]
      BY <2>2 DEF LoadPersistentSession, HolderInv, ReleaseInv
    <3>2. UNCHANGED <<counts, guard>> /\ \A e \in Daemon \ {d} : status'[e] = status[e]
      BY <2>2 DEF LoadPersistentSession
    <3>3. \A e \in Daemon : HoldersAt(e)' = HoldersAt(e)
      BY <3>2 DEF HoldersAt
    <3>4. \A e \in Daemon \ {d} : CountsAt(e)'
      BY <3>2, <3>3, CountsFrame
    <3>5. \A j \in Kind : KindAt(d, j)' = {}
      BY <3>1, <3>3 DEF KindAt
    <3>6. CountsAt(d)'
      BY <3>1, <3>2, <3>5, FS_EmptySet DEF CountsAt
    <3> QED
      BY <3>1, <3>2, <3>3, <3>4, <3>5, <3>6, CountsByActorNext
  <2>3. CASE LoadCheck(d)
    <3>1. UNCHANGED <<status, guard, counts>>
      BY <2>3 DEF LoadCheck
    <3>2. \A e \in Daemon : HoldersAt(e)' = HoldersAt(e)
      BY <3>1 DEF HoldersAt
    <3>3. \A e \in Daemon : CountsAt(e)'
      BY <3>1, <3>2, CountsFrame
    <3> QED
      BY <3>2, <3>3, CountsByActorNext
  <2>4. CASE LoadFinish(d)
    <3>1. \A e \in Daemon : status'[e] # "absent" => status[e] # "absent"
      BY <2>4 DEF LoadFinish
    <3>2. counts' = counts
      BY <2>4 DEF LoadFinish
    <3>3. \A e \in Daemon : status[e] # "absent" => HoldersAt(e)' = HoldersAt(e)
      BY <2>4, SendKeepsHolders DEF LoadFinish, HoldersAt
    <3>4. \A e \in Daemon : CountsAt(e)'
      BY <3>1, <3>2, <3>3, CountsFrame
    <3> QED
      BY <3>1, <3>2, <3>3, <3>4, CountsByActorNext
  <2>5. CASE BeginMigration(d)
    <3>1. \A e \in Daemon : status'[e] # "absent" => status[e] # "absent"
      BY <2>5 DEF BeginMigration
    <3>2. UNCHANGED <<counts, guard>>
      BY <2>5 DEF BeginMigration
    <3>3. \A e \in Daemon : HoldersAt(e)' = HoldersAt(e)
      BY <3>2 DEF HoldersAt
    <3>4. \A e \in Daemon : CountsAt(e)'
      BY <3>1, <3>2, <3>3, CountsFrame
    <3> QED
      BY <3>1, <3>2, <3>3, <3>4, CountsByActorNext
  <2>6. CASE EndMigration(d)
    <3>1. \A e \in Daemon : status'[e] # "absent" => status[e] # "absent"
      BY <2>6 DEF EndMigration
    <3>2. UNCHANGED <<counts, guard>>
      BY <2>6 DEF EndMigration
    <3>3. \A e \in Daemon : HoldersAt(e)' = HoldersAt(e)
      BY <3>2 DEF HoldersAt
    <3>4. \A e \in Daemon : CountsAt(e)'
      BY <3>1, <3>2, <3>3, CountsFrame
    <3> QED
      BY <3>1, <3>2, <3>3, <3>4, CountsByActorNext
  <2>7. CASE DeleteCheck(d)
    <3>1. \A e \in Daemon : status'[e] # "absent" => status[e] # "absent"
      BY <2>7 DEF DeleteCheck
    <3>2. UNCHANGED <<counts, guard>>
      BY <2>7 DEF DeleteCheck
    <3>3. \A e \in Daemon : HoldersAt(e)' = HoldersAt(e)
      BY <3>2 DEF HoldersAt
    <3>4. \A e \in Daemon : CountsAt(e)'
      BY <3>1, <3>2, <3>3, CountsFrame
    <3> QED
      BY <3>1, <3>2, <3>3, <3>4, CountsByActorNext
  <2>8. CASE DeleteFinish(d)
    <3>1. status'[d] = "absent" /\ \A e \in Daemon \ {d} : status'[e] = status[e] /\ counts'[e] = counts[e]
      BY <2>8 DEF DeleteFinish
    <3>2. \A h \in Guard : guard'[h] = guard[h] \/ (guard[h].at = d /\ guard'[h] = Free)
      BY <2>8 DEF DeleteFinish
    <3>3. \A e \in Daemon \ {d} : HoldersAt(e)' = HoldersAt(e)
      BY <3>2, FreedElsewhere
    <3>4. \A e \in Daemon : CountsAt(e)'
      BY <3>1, <3>3, CountsFrame
    <3> QED
      BY <3>1, <3>2, <3>3, <3>4, CountsByActorNext
  <2>9. CASE Crash(d)
    <3>1. status'[d] = "absent" /\ \A e \in Daemon \ {d} : status'[e] = status[e] /\ counts'[e] = counts[e]
      BY <2>9 DEF Crash
    <3>2. \A h \in Guard : guard'[h] = guard[h] \/ (guard[h].at = d /\ guard'[h] = Free)
      BY <2>9 DEF Crash
    <3>3. \A e \in Daemon \ {d} : HoldersAt(e)' = HoldersAt(e)
      BY <3>2, FreedElsewhere
    <3>4. \A e \in Daemon : CountsAt(e)'
      BY <3>1, <3>3, CountsFrame
    <3> QED
      BY <3>1, <3>2, <3>3, <3>4, CountsByActorNext
  <2>10. CASE LoadGuard(d)
    <3>1. UNCHANGED status /\ status[d] # "absent"
      BY <2>10 DEF LoadGuard
    <3>2. PICK g \in Guard, l \in EnsureOwnership(d) : GrantGuard(d, g, l)
      BY <2>10 DEF LoadGuard
    <3> QED
      BY <3>1, <3>2, CountsGranted
  <2> QED
    BY <1>2, <2>1, <2>2, <2>3, <2>4, <2>5, <2>6, <2>7, <2>8, <2>9, <2>10 DEF TaskStep
<1>3. ASSUME NEW g \in Guard, DropGuard(g) PROVE GuardCountsMatch'
  <2>1. SendRelease(g) /\ UNCHANGED <<counts, status>>
    BY <1>3 DEF DropGuard
  <2>2. \A e \in Daemon : status[e] # "absent" => HoldersAt(e)' = HoldersAt(e)
    BY <2>1, SendKeepsHolders
  <2>3. \A e \in Daemon : CountsAt(e)'
    BY <2>1, <2>2, CountsFrame
  <2> QED
    BY <2>1, <2>2, <2>3, CountsByActorNext
<1>4. CASE UNCHANGED vars
  BY <1>4 DEF vars, GuardCountsMatch, HoldersAt
<1> QED
  BY <1>1, <1>2, <1>3, <1>4 DEF Next

-----------------------------------------------------------------------------
(* The initial state.                                                      *)
LEMMA ActorInit == Init => ActorInv
<1> SUFFICES ASSUME Init PROVE ActorInv
  OBVIOUS
<1>1. TypeOK
  BY FreeRecord, ActorConstants DEF Init, TypeOK, Status, Step, Handle, Loader
<1>2. Free.lease = NoLease /\ Free.at \notin Daemon
  BY ActorConstants DEF Free
<1>3. Registered = {}
  BY <1>2, NoLeaseIsNone DEF Init, Registered, Referenced
<1>4. \A d \in Daemon : HoldersAt(d) = {}
  BY <1>2 DEF Init, HoldersAt
<1>5. LeaseInv
  BY <1>3 DEF Init, LeaseInv
<1>6. ReleaseInv
  BY DEF Init, ReleaseInv, Active, Quiescent
<1>7. HolderInv /\ TailInv /\ CurrentIsCaughtUp /\ ActivityIsOwned /\ GuardCountsMatch
  BY <1>4 DEF Init, HolderInv, TailInv, CurrentIsCaughtUp, ActivityIsOwned, GuardCountsMatch
<1> QED
  BY <1>1, <1>5, <1>6, <1>7 DEF ActorInv

LEMMA ActorStepKeeps == ActorInv /\ [Next]_vars => ActorInv'
<1> SUFFICES ASSUME ActorInv, [Next]_vars PROVE ActorInv'
  OBVIOUS
<1> USE DEF ActorInv
<1>1. TypeOK'
  BY TypeStep
<1>2. LeaseInv' /\ ReleaseInv' /\ HolderInv' /\ TailInv'
  BY <1>1, LeaseStep, ReleaseStep, HolderStep, TailStep
<1>3. ActivityIsOwned' /\ GuardCountsMatch' /\ CurrentIsCaughtUp'
  BY <1>1, ActivityStep, CountStep, CaughtUpStep
<1> QED
  BY <1>1, <1>2, <1>3

-----------------------------------------------------------------------------
(* The parts of the inductive invariant hold together in every state that  *)
(* the actors, their guards and the manager's tasks can reach.             *)
THEOREM ActorInvariant == Spec => []ActorInv
BY ActorInit, ActorStepKeeps, PTL DEF Spec

(* Every variable stays in its type; in particular a guard is never granted *)
(* without a lease (acquire_ownership).                                    *)
THEOREM TypeCorrect == Spec => []TypeOK
<1>1. ActorInv => TypeOK
  BY DEF ActorInv
<1> QED
  BY <1>1, ActorInvariant, PTL

(* No release path gives ownership up under an attached client or under a  *)
(* guard, however many there are and however late release messages arrive. *)
THEOREM ActivityOwned == Spec => []ActivityIsOwned
<1>1. ActorInv => ActivityIsOwned
  BY DEF ActorInv
<1> QED
  BY <1>1, ActorInvariant, PTL

(* The counters of ownership_guards never drift from the guards.           *)
THEOREM CountsMatch == Spec => []GuardCountsMatch
<1>1. ActorInv => GuardCountsMatch
  BY DEF ActorInv
<1> QED
  BY <1>1, ActorInvariant, PTL

(* An actor whose load_status is Current is at the durable tail, or one    *)
(* event behind after its own failed append.                               *)
THEOREM CaughtUp == Spec => []CurrentIsCaughtUp
<1>1. ActorInv => CurrentIsCaughtUp
  BY DEF ActorInv
<1> QED
  BY <1>1, ActorInvariant, PTL

(* The database of a session is open, or written, in one daemon, which is  *)
(* then the only one with a lease, and not while anybody migrates it.      *)
THEOREM DatabaseExclusive == Spec => []DatabaseIsExclusive
<1>1. ActorInv => DatabaseIsExclusive
  <2> SUFFICES ASSUME ActorInv, NEW d \in Daemon, Active(d)
               PROVE  /\ maintainer = Nobody
                      /\ \A l \in Registered : LeaseOf(l) = d
                      /\ \A e \in Daemon \ {d} : ~Active(e)
    BY DEF DatabaseIsExclusive
  <2>1. lease[d] # NoLease
    BY DEF ActorInv, ReleaseInv
  <2>2. lease[d] \in Registered /\ LeaseOf(lease[d]) = d
    BY <2>1 DEF ActorInv, TypeOK, LeaseInv, Registered, Referenced
  <2>3. maintainer = Nobody /\ \A l \in Registered : LeaseOf(l) = d
    BY <2>2 DEF ActorInv, LeaseInv
  <2>4. \A e \in Daemon : Active(e) => e = d
    BY <2>1, SoleOwner DEF ActorInv, ReleaseInv
  <2> QED
    BY <2>3, <2>4
<1> QED
  BY <1>1, ActorInvariant, PTL

-----------------------------------------------------------------------------
(* Ownership as other daemons see it. *)

(* A move of leases is a step of SessionOwnership or changes nothing in it: *)
(* the first lease of a daemon makes it the owner, its last one gone ends  *)
(* that, and while there is one no other daemon gets any.                  *)
LEMMA LeaseMoveOwnership ==
    ASSUME TypeOK, TypeOK', LeaseInv, LeaseInv', NEW d \in Daemon, LeaseMove(d)
    PROVE  [Ownership!OwnershipNext]_(Ownership!ownershipVars)
<1> DEFINE m == {maintainer} \ {Nobody}
<1>1. Owners \subseteq Daemon /\ Owners' \subseteq Daemon
  BY DEF Owners, Registered, Lease, LeaseOf
<1>2. /\ \A x, y \in Owners : x = y
      /\ \A x, y \in Owners' : x = y
      /\ \A x \in Owners' : x \in Owners \/ (x = d /\ Owners \subseteq {d} /\ maintainer = Nobody)
  BY LeaseMoveRegisters DEF LeaseInv, Owners, Acquirable
<1>3. maintainer # Nobody => Owners = {} /\ Owners' = {}
  BY <1>2 DEF LeaseInv, Owners
<1>4. CASE maintainer' # maintainer
  <2>1. m = {d} /\ m' = {} /\ Owners' = Owners
    BY <1>3, <1>4, ActorConstants DEF LeaseMove
  <2>2. Ownership!EndMaintenance(d)
    BY <2>1 DEF Ownership!EndMaintenance
  <2> QED
    BY <2>2 DEF Ownership!OwnershipNext
<1>5. CASE maintainer' = maintainer /\ Owners' = Owners
  BY <1>5 DEF Ownership!ownershipVars
<1>6. CASE maintainer' = maintainer /\ Owners' # Owners
  <2>1. m = {} /\ m' = {}
    BY <1>3, <1>6
  <2>2. CASE Owners = {}
    <3>1. Owners' = {d}
      BY <1>2, <1>6, <2>2
    <3>2. Ownership!Own(d)
      BY <2>1, <2>2, <3>1 DEF Ownership!Own
    <3> QED
      BY <3>2 DEF Ownership!OwnershipNext
  <2>3. ASSUME NEW e \in Owners PROVE [Ownership!OwnershipNext]_(Ownership!ownershipVars)
    <3>1. Owners = {e} /\ Owners' = {}
      BY <1>2, <1>6, <2>3
    <3>2. Ownership!Disown(e)
      BY <2>1, <3>1 DEF Ownership!Disown
    <3> QED
      BY <1>1, <3>2 DEF Ownership!OwnershipNext
  <2> QED
    BY <2>2, <2>3
<1> QED
  BY <1>4, <1>5, <1>6

(* So is every step.                                                       *)
LEMMA OwnershipStep ==
    ASSUME ActorInv, ActorInv', [Next]_vars
    PROVE  [Ownership!OwnershipNext]_(Ownership!ownershipVars)
<1> USE DEF ActorInv
<1> DEFINE m == {maintainer} \ {Nobody}
<1>1. CASE UNCHANGED vars
  BY <1>1 DEF vars, actorVars, taskVars, Ownership!ownershipVars, Owners, Registered, Referenced
<1>2. ASSUME NEW d \in Daemon, LeaseMove(d)
      PROVE  [Ownership!OwnershipNext]_(Ownership!ownershipVars)
  BY <1>2, LeaseMoveOwnership
<1>3. ASSUME NEW d \in Daemon, BeginMigration(d)
      PROVE  [Ownership!OwnershipNext]_(Ownership!ownershipVars)
  <2>1. Owners = {} /\ Owners' = {}
    BY <1>3 DEF BeginMigration, actorVars, taskVars, Owners, Registered, Referenced
  <2>2. m = {} /\ m' = {d}
    BY <1>3, ActorConstants DEF BeginMigration
  <2>3. Ownership!Maintain(d)
    BY <2>1, <2>2 DEF Ownership!Maintain
  <2> QED
    BY <2>3 DEF Ownership!OwnershipNext
<1>4. ASSUME NEW d \in Daemon, MigrationOwns(d)
      PROVE  [Ownership!OwnershipNext]_(Ownership!ownershipVars)
  <2>1. PICK l \in Lease : LeaseOf(l) = d /\ handover' = [handover EXCEPT ![d] = l]
    BY <1>4 DEF MigrationOwns, Set
  <2>2. Registered = {} /\ maintainer = d /\ maintainer' = Nobody /\ UNCHANGED <<lease, guard>>
    BY <1>4, ActorConstants DEF MigrationOwns, LeaseInv
  <2>3. Registered' = {l}
    BY <2>1, <2>2 DEF TypeOK, Registered, Referenced
  <2>4. Owners' = {d} /\ m = {d} /\ m' = {}
    BY <2>1, <2>2, <2>3, ActorConstants DEF Owners
  <2>5. Ownership!HandOver(d)
    BY <2>4 DEF Ownership!HandOver
  <2> QED
    BY <2>5 DEF Ownership!OwnershipNext
<1> QED
  BY <1>1, <1>2, <1>3, <1>4, LeasesMove

(* The actors, loads, migrations and deletions of all daemons together     *)
(* keep the promise of SessionOwnership that each of them relies on:       *)
(* ImplementsOwnership, for any number of daemons, leases and guards.      *)
THEOREM ActorsImplementOwnership == Spec => ImplementsOwnership
<1>1. Init => Ownership!OwnershipInit
  BY NoLeaseIsNone DEF Init, Ownership!OwnershipInit, Owners, Registered, Referenced, Free
<1>2. ActorInv /\ ActorInv' /\ [Next]_vars
        => [Ownership!OwnershipNext]_(Ownership!ownershipVars)
  BY OwnershipStep
<1> QED
  BY <1>1, <1>2, ActorInvariant, PTL DEF Spec, ImplementsOwnership, Ownership!OwnershipSpec

=============================================================================
