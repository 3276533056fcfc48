----------------------------- MODULE SessionActor -----------------------------
(***************************************************************************)
(* The session actors of several daemons over one persistent session:      *)
(* packages/session/src/actor.rs (run loop, attach, ownership guards,      *)
(* release, append) with the paths of packages/session/src/lib.rs that     *)
(* load, adopt and delete a session.                                       *)
(*                                                                         *)
(* The lease files appear through what SessionOwnership promises: a lease  *)
(* can be acquired when no other daemon has one and nobody does            *)
(* maintenance.  A lease is an Arc: it is registered exactly while the     *)
(* actor, an ownership guard, a release message in the channel, or a       *)
(* migration task refers to it.                                            *)
(*                                                                         *)
(* A daemon's actor takes its commands one at a time.  Release and append  *)
(* are split where the actor awaits the database, because other daemons    *)
(* and other tasks of the same daemon run then.                            *)
(***************************************************************************)
EXTENDS Naturals, FiniteSets

CONSTANTS
    Daemon,
    Client,
    Guard,          \* ownership guards that can exist at a time
    Kind,           \* SessionOwnershipKind
    KindOf,         \* the kind a guard is acquired for
    QueuedCommand,  \* the kind the load path uses
    Token,          \* tells the leases of a daemon apart
    NoLease, Nobody,
    NoGuard,
    MaxTail         \* bound: events appended to the session

ASSUME ActorConstants ==
    /\ KindOf \in [Guard -> Kind]
    /\ QueuedCommand \in Kind
    /\ NoLease \notin Daemon \X Token
    /\ Nobody \notin Daemon
    /\ NoGuard \notin Guard
    /\ MaxTail \in Nat
    /\ IsFiniteSet(Guard)

VARIABLES
    status,         \* the actor: absent, or its load_status
    step,           \* what the actor is in the middle of
    lease,          \* SessionActor::lease
    db,             \* the cached handle; retained if a close left it open
    clients,        \* attached clients
    published,      \* client_count in the snapshot other tasks read
    counts,         \* SessionActor::ownership_guards
    guard,          \* the ownership guards: where they are, the lease they keep
    next,           \* next_sequence of the actor's state
    tail,           \* sequence of the last durable event
    maintainer,     \* the daemon migrating the session
    handover,       \* the lease a finished migration holds for its daemon
    loader,         \* ensure_session_loaded: where the task is, what it saw
    loaderGuard,    \* the guard that task holds
    deleting,       \* delete_session: where the task is
    exists          \* is the session on disk

actorVars == <<status, step, lease, db, clients, published, counts, next>>
taskVars == <<handover, loader, loaderGuard, deleting>>
vars == <<actorVars, guard, taskVars, tail, maintainer, exists>>

-----------------------------------------------------------------------------
(* Types. *)

(* SessionLeaseGuard: the daemon it registers and its token.               *)
Lease == Daemon \X Token

LeaseOf(l) == l[1]

Status == {"absent", "summary", "current"}

Handle == {"none", "open", "retained"}

Step == {"ready", "appending", "closing", "dropping"}

(* "reload" after a summary-only snapshot, "validate" after an unowned but *)
(* loaded one, "none" after an owned and loaded one; an unowned one asks   *)
(* for a guard before that.                                                *)
Loader == {"idle", "own_reload", "own_validate", "reload", "validate", "none"}

Free == [state |-> "free", at |-> Nobody, lease |-> NoLease]

(* SessionOwnershipGuard, or the message its Drop sends (sent).            *)
GuardRecord ==
    [state : {"held", "sent"}, at : Daemon, lease : Lease] \union {Free}

TypeOK ==
    /\ status \in [Daemon -> Status]
    /\ step \in [Daemon -> Step]
    /\ lease \in [Daemon -> Lease \union {NoLease}]
    /\ db \in [Daemon -> Handle]
    /\ clients \in [Daemon -> SUBSET Client]
    /\ published \in [Daemon -> SUBSET Client]
    /\ counts \in [Daemon -> [Kind -> Nat]]
    /\ guard \in [Guard -> GuardRecord]
    /\ next \in [Daemon -> Nat]
    /\ tail \in Nat
    /\ maintainer \in Daemon \union {Nobody}
    /\ handover \in [Daemon -> Lease \union {NoLease}]
    /\ loader \in [Daemon -> Loader]
    /\ loaderGuard \in [Daemon -> Guard \union {NoGuard}]
    /\ deleting \in [Daemon -> BOOLEAN]
    /\ exists \in BOOLEAN

-----------------------------------------------------------------------------
(* Leases and quiescence. *)

Referenced(l) ==
    \/ \E d \in Daemon : lease[d] = l \/ handover[d] = l
    \/ \E g \in Guard : guard[g].lease = l

Registered == {l \in Lease : Referenced(l)}

(* acquire_session_lease as SessionOwnership!Own promises it.              *)
Acquirable(d) ==
    {l \in Lease : /\ LeaseOf(l) = d
                   /\ l \notin Registered
                   /\ maintainer = Nobody
                   /\ \A k \in Registered : LeaseOf(k) = d}

(* ensure_ownership: the leases the actor may have when it succeeds.       *)
EnsureOwnership(d) == IF lease[d] # NoLease THEN {lease[d]} ELSE Acquirable(d)

(* ... and what that does: a lease just acquired refreshes the snapshot.   *)
Own(d, l) ==
    /\ lease' = [lease EXCEPT ![d] = l]
    /\ published' = IF lease[d] = NoLease THEN [published EXCEPT ![d] = clients[d]]
                                          ELSE published

(* Mutant: only attached clients are looked at.                            *)
NoClientsLeft(attached, guards) == attached = {}

(* is_quiescent, on the client set and guard counts the command leaves.    *)
Quiescent(attached, guards) ==
    attached = {} /\ \A k \in Kind : guards[k] = 0

Ready(d) == status[d] # "absent" /\ step[d] = "ready"

Set(f, d, v) == [f EXCEPT ![d] = v]

(* The handle is opened if there is none.                                  *)
Opened(d) == IF db[d] = "none" THEN "open" ELSE db[d]

(* The command ends in release_idle_resources when nothing holds the       *)
(* session any more.                                                       *)
ThenReleaseIfIdle(d, attached, guards) ==
    step' = Set(step, d, IF Quiescent(attached, guards) THEN "closing" ELSE "ready")

-----------------------------------------------------------------------------
Init ==
    /\ status = [d \in Daemon |-> "absent"]
    /\ step = [d \in Daemon |-> "ready"]
    /\ lease = [d \in Daemon |-> NoLease]
    /\ db = [d \in Daemon |-> "none"]
    /\ clients = [d \in Daemon |-> {}]
    /\ published = [d \in Daemon |-> {}]
    /\ counts = [d \in Daemon |-> [k \in Kind |-> 0]]
    /\ guard = [g \in Guard |-> Free]
    /\ next = [d \in Daemon |-> 0]
    /\ tail = 1
    /\ maintainer = Nobody
    /\ handover = [d \in Daemon |-> NoLease]
    /\ loader = [d \in Daemon |-> "idle"]
    /\ loaderGuard = [d \in Daemon |-> NoGuard]
    /\ deleting = [d \in Daemon |-> FALSE]
    /\ exists = TRUE

(* load_session_summary_actor: a catalog summary, without lease or file.   *)
LoadSummaryActor(d) ==
    /\ exists
    /\ status[d] = "absent"
    /\ status' = Set(status, d, "summary")
    /\ UNCHANGED <<step, lease, db, clients, published, counts, next,
                   guard, taskVars, tail, maintainer, exists>>

(* load_persistent_session: lease, database and state become the actor.    *)
LoadPersistentSession(d) ==
    /\ exists
    /\ status[d] = "absent"
    /\ \E l \in Acquirable(d) : lease' = Set(lease, d, l)
    /\ db' = Set(db, d, Opened(d))
    /\ next' = Set(next, d, tail + 1)
    /\ status' = Set(status, d, "current")
    /\ UNCHANGED <<step, clients, published, counts,
                   guard, taskVars, tail, maintainer, exists>>

-----------------------------------------------------------------------------
(* Clients. *)

(* attach: ownership first, then the reads, then the client is inserted.   *)
(* Only acquiring the lease refreshes the published snapshot, before the   *)
(* insertion.                                                              *)
Attach(d, c) ==
    /\ exists
    /\ Ready(d)
    /\ \E l \in EnsureOwnership(d) : Own(d, l)
    /\ db' = Set(db, d, Opened(d))
    /\ clients' = Set(clients, d, clients[d] \union {c})
    /\ UNCHANGED <<status, step, counts, next,
                   guard, taskVars, tail, maintainer, exists>>

(* handle_attach_reply when attach fails, in ensure_ownership or in a read. *)
AttachFails(d) ==
    /\ exists
    /\ Ready(d)
    /\ \/ UNCHANGED <<lease, published, db>>
       \/ \E l \in EnsureOwnership(d), opened \in {db[d], Opened(d)} :
            /\ Own(d, l)
            /\ db' = Set(db, d, opened)
    /\ ThenReleaseIfIdle(d, clients[d], counts[d])
    /\ UNCHANGED <<status, clients, counts, next,
                   guard, taskVars, tail, maintainer, exists>>

(* The reply cannot be delivered: handle_attach_reply detaches again, also *)
(* a client that was attached before.                                      *)
AttachUndelivered(d, c) ==
    /\ exists
    /\ Ready(d)
    /\ \E l \in EnsureOwnership(d) : lease' = Set(lease, d, l)
    /\ db' = Set(db, d, Opened(d))
    /\ clients' = Set(clients, d, clients[d] \ {c})
    /\ published' = Set(published, d, clients[d] \ {c})
    /\ ThenReleaseIfIdle(d, clients[d] \ {c}, counts[d])
    /\ UNCHANGED <<status, counts, next,
                   guard, taskVars, tail, maintainer, exists>>

Detach(d, c) ==
    /\ Ready(d)
    /\ c \in clients[d]
    /\ clients' = Set(clients, d, clients[d] \ {c})
    /\ published' = Set(published, d, clients[d] \ {c})
    /\ ThenReleaseIfIdle(d, clients[d] \ {c}, counts[d])
    /\ UNCHANGED <<status, lease, db, counts, next,
                   guard, taskVars, tail, maintainer, exists>>

-----------------------------------------------------------------------------
(* Ownership guards. *)

(* Mutant: the guard clones the lease before ownership is ensured.         *)
GrantEarlyLease(d, g, l) ==
    /\ guard[g] = Free
    /\ Own(d, l)
    /\ counts' = Set(counts, d, [counts[d] EXCEPT ![KindOf[g]] = @ + 1])
    /\ guard' = Set(guard, g, [state |-> "held", at |-> d, lease |-> lease[d]])

(* acquire_ownership, for guard g.                                         *)
GrantGuard(d, g, l) ==
    /\ guard[g] = Free
    /\ Own(d, l)
    /\ counts' = Set(counts, d, [counts[d] EXCEPT ![KindOf[g]] = @ + 1])
    /\ guard' = Set(guard, g, [state |-> "held", at |-> d, lease |-> l])

AcquireOwnership(d, g) ==
    /\ exists
    /\ Ready(d)
    /\ \E l \in EnsureOwnership(d) : GrantGuard(d, g, l)
    /\ UNCHANGED <<status, step, db, clients, next,
                   taskVars, tail, maintainer, exists>>

(* Dropping the last clone sends the release message with the lease in it; *)
(* if the actor is gone the message, and with it the lease, is dropped.    *)
SendRelease(g) ==
    guard' = Set(guard, g, IF status[guard[g].at] = "absent"
                             THEN Free ELSE [guard[g] EXCEPT !.state = "sent"])

DropGuard(g) ==
    /\ guard[g].state = "held"
    /\ \A d \in Daemon : loaderGuard[d] # g
    /\ SendRelease(g)
    /\ UNCHANGED <<actorVars, taskVars, tail, maintainer, exists>>

CountLeft(d, g) == [counts[d] EXCEPT ![KindOf[g]] = @ - 1]

(* Mutant: the release is counted, but not reevaluated.                    *)
ReceiveReleaseOnly(d, g) ==
    /\ Ready(d)
    /\ guard[g].state = "sent" /\ guard[g].at = d
    /\ guard' = Set(guard, g, Free)
    /\ counts' = Set(counts, d, CountLeft(d, g))
    /\ UNCHANGED <<status, step, lease, db, clients, published, next,
                   taskVars, tail, maintainer, exists>>

(* Mutant: a release message takes the whole kind off the books.           *)
ReceiveReleaseOfKind(d, g) ==
    /\ Ready(d)
    /\ guard[g].state = "sent" /\ guard[g].at = d
    /\ guard' = Set(guard, g, Free)
    /\ LET left == [counts[d] EXCEPT ![KindOf[g]] = 0]
       IN  /\ counts' = Set(counts, d, left)
           /\ ThenReleaseIfIdle(d, clients[d], left)
    /\ UNCHANGED <<status, lease, db, clients, published, next,
                   taskVars, tail, maintainer, exists>>

(* The run loop receives the message: release_ownership.                   *)
ReleaseOwnership(d, g) ==
    /\ Ready(d)
    /\ guard[g].state = "sent" /\ guard[g].at = d
    /\ guard' = Set(guard, g, Free)
    /\ IF counts[d][KindOf[g]] = 0
         THEN UNCHANGED <<counts, step>>
         ELSE /\ counts' = Set(counts, d, CountLeft(d, g))
              /\ ThenReleaseIfIdle(d, clients[d], CountLeft(d, g))
    /\ UNCHANGED <<status, lease, db, clients, published, next,
                   taskVars, tail, maintainer, exists>>

-----------------------------------------------------------------------------
(* Release. *)

(* ReleaseIdleResources and ReleaseOwnershipIfQuiescent commands.          *)
RequestRelease(d) ==
    /\ Ready(d)
    /\ Quiescent(clients[d], counts[d])
    /\ step' = Set(step, d, "closing")
    /\ UNCHANGED <<status, lease, db, clients, published, counts, next,
                   guard, taskVars, tail, maintainer, exists>>

(* release_database_resources: the handle is given up only when it is      *)
(* proven closed, and the state is a summary from then on ...              *)
HandleClosed(d) ==
    /\ db' = Set(db, d, "none")
    /\ status' = Set(status, d, "summary")
    /\ published' = Set(published, d, clients[d])

(* ... otherwise it is put back.                                           *)
HandleRetained(d) ==
    /\ db' = Set(db, d, "retained")
    /\ UNCHANGED <<status, published>>

(* Mutant: the lease goes before the connection is known to be closed.     *)
CloseDropsLease(d) ==
    /\ step[d] = "closing"
    /\ lease' = Set(lease, d, NoLease)
    /\ \/ HandleRetained(d) /\ step' = Set(step, d, "ready")
       \/ HandleClosed(d) /\ step' = Set(step, d, "dropping")
    /\ UNCHANGED <<clients, counts, next, guard, taskVars, tail, maintainer, exists>>

(* Mutant: the actor still calls its state current when the handle is gone. *)
CloseKeepsStatus(d) ==
    /\ step[d] = "closing"
    /\ db' = Set(db, d, "none")
    /\ step' = Set(step, d, "dropping")
    /\ UNCHANGED <<status, published, lease, clients, counts, next, guard, taskVars, tail,
                   maintainer, exists>>

(* release_ownership_if_quiescent goes on only without a handle.           *)
CloseDatabase(d) ==
    /\ step[d] = "closing"
    /\ \/ db[d] # "none" /\ HandleRetained(d) /\ step' = Set(step, d, "ready")
       \/ db[d] # "none" /\ HandleClosed(d) /\ step' = Set(step, d, "dropping")
       \/ db[d] = "none" /\ step' = Set(step, d, "dropping") /\ UNCHANGED <<db, status, published>>
    /\ UNCHANGED <<lease, clients, counts, next, guard, taskVars, tail, maintainer, exists>>

DropLease(d) ==
    /\ step[d] = "dropping"
    /\ lease' = Set(lease, d, NoLease)
    /\ published' = IF lease[d] # NoLease THEN Set(published, d, clients[d]) ELSE published
    /\ step' = Set(step, d, "ready")
    /\ UNCHANGED <<status, db, clients, counts, next,
                   guard, taskVars, tail, maintainer, exists>>

(* After SESSION_DATABASE_IDLE_TIMEOUT, or on ReleaseDatabaseResources,    *)
(* the handle is closed and the lease kept.                                *)
IdleTimeout(d) ==
    /\ Ready(d)
    /\ db[d] # "none"
    /\ HandleRetained(d) \/ HandleClosed(d)
    /\ UNCHANGED <<step, lease, clients, counts, next, guard, taskVars, tail, maintainer, exists>>

-----------------------------------------------------------------------------
(* append_event_conditionally and the other canonical writers. *)

BeginAppend(d) ==
    /\ exists
    /\ Ready(d)
    /\ tail < MaxTail
    /\ \E l \in EnsureOwnership(d) : Own(d, l)
    /\ step' = Set(step, d, "appending")
    /\ UNCHANGED <<status, db, clients, counts, next,
                   guard, taskVars, tail, maintainer, exists>>

(* refresh_state_from_db_for_write: an actor that is not at the durable    *)
(* tail takes the persisted state, which is Current, before it goes on.    *)
Refresh(d) ==
    /\ db' = Set(db, d, Opened(d))
    /\ next' = Set(next, d, tail + 1)
    /\ IF next[d] = tail + 1
         THEN UNCHANGED <<status, published>>
         ELSE /\ status' = Set(status, d, "current")
              /\ published' = Set(published, d, clients[d])

(* The transaction checks the sequence against the tail and commits; then  *)
(* finish_canonical_append moves the actor's own state.                    *)
CommitAppend(d) ==
    /\ step[d] = "appending"
    /\ db' = Set(db, d, Opened(d))
    /\ tail' = tail + 1
    /\ next' = Set(next, d, tail + 2)
    /\ status' = Set(status, d, "current")
    /\ published' = Set(published, d, clients[d])
    /\ step' = Set(step, d, "ready")
    /\ UNCHANGED <<lease, clients, counts, guard, taskVars, maintainer, exists>>

(* The write lock, the open or the readiness check fails.                  *)
AppendFails(d) ==
    /\ step[d] = "appending"
    /\ \E opened \in {db[d], Opened(d)} : db' = Set(db, d, opened)
    /\ step' = Set(step, d, "ready")
    /\ UNCHANGED <<status, lease, clients, published, counts, next,
                   guard, taskVars, tail, maintainer, exists>>

(* The state is fresh but the append reports an error: a check refused it, *)
(* or the commit failed, and then the event may be durable all the same.   *)
CommitFails(d) ==
    /\ step[d] = "appending"
    /\ Refresh(d)
    /\ \/ UNCHANGED tail
       \/ tail' = tail + 1
    /\ step' = Set(step, d, "ready")
    /\ UNCHANGED <<lease, clients, counts, guard, taskVars, maintainer, exists>>

-----------------------------------------------------------------------------
(* ensure_cached_session_loaded: a manager task beside the actor. *)

(* It reads the snapshot once, ...                                         *)
LoadCheck(d) ==
    /\ exists
    /\ loader[d] = "idle"
    /\ status[d] # "absent"
    /\ LET summary == status[d] = "summary"
           goal == IF lease[d] # NoLease
                     THEN IF summary THEN "reload" ELSE "none"
                     ELSE IF summary THEN "own_reload" ELSE "own_validate"
       IN  loader' = Set(loader, d, goal)
    /\ UNCHANGED <<actorVars, guard, handover, loaderGuard, deleting,
                   tail, maintainer, exists>>

(* ... and takes a guard only if that showed no owner.  The actor may have *)
(* gained or lost one, or have ended, in between.                          *)
LoadGuard(d) ==
    /\ exists
    /\ loader[d] \in {"own_reload", "own_validate"}
    /\ Ready(d)
    /\ \E g \in Guard, l \in EnsureOwnership(d) :
         /\ KindOf[g] = QueuedCommand
         /\ GrantGuard(d, g, l)
         /\ loaderGuard' = Set(loaderGuard, d, g)
    /\ loader' = Set(loader, d, IF loader[d] = "own_reload" THEN "reload" ELSE "validate")
    /\ UNCHANGED <<status, step, db, clients, next, handover, deleting,
                   tail, maintainer, exists>>

(* Reload or validate through the actor, which makes sure of ownership     *)
(* again; then the guard is dropped.  A refusal ends the task the same way. *)
LoadFinish(d) ==
    /\ loader[d] # "idle"
    /\ status[d] = "absent" \/ step[d] = "ready"
    /\ loader' = Set(loader, d, "idle")
    /\ loaderGuard' = Set(loaderGuard, d, NoGuard)
    /\ IF loaderGuard[d] = NoGuard THEN UNCHANGED guard ELSE SendRelease(loaderGuard[d])
    /\ \/ UNCHANGED actorVars
       \/ /\ loader[d] \in {"reload", "validate"}
          /\ exists /\ Ready(d)
          /\ \E l \in EnsureOwnership(d) : Own(d, l)
          /\ \E opened \in {db[d], Opened(d)} : db' = Set(db, d, opened)
          /\ UNCHANGED <<status, step, clients, counts, next>>
       \/ /\ loader[d] = "reload"
          /\ exists /\ Ready(d)
          /\ \E l \in EnsureOwnership(d) : lease' = Set(lease, d, l)
          /\ db' = Set(db, d, Opened(d))
          /\ published' = Set(published, d, clients[d])
          /\ next' = Set(next, d, tail + 1)
          /\ status' = Set(status, d, "current")
          /\ UNCHANGED <<step, clients, counts>>
    /\ UNCHANGED <<handover, deleting, tail, maintainer, exists>>

-----------------------------------------------------------------------------
(* Migration and deletion. *)

(* A migration holds the maintenance guard, as SessionOwnership!Maintain.  *)
BeginMigration(d) ==
    /\ exists
    /\ Registered = {} /\ maintainer = Nobody
    /\ maintainer' = d
    /\ UNCHANGED <<actorVars, guard, taskVars, tail, exists>>

(* Mutant: the maintenance guard outlives the lease made of it.            *)
EndMigrationKeepsGuard(d) ==
    /\ maintainer = d
    /\ \/ maintainer' = Nobody /\ UNCHANGED handover
       \/ \E l \in Lease : LeaseOf(l) = d /\ handover' = Set(handover, d, l) /\ UNCHANGED maintainer
    /\ UNCHANGED <<actorVars, guard, loader, loaderGuard, deleting, tail, exists>>

(* It ends by giving up, or by turning maintenance into a lease.           *)
EndMigration(d) ==
    /\ maintainer = d
    /\ maintainer' = Nobody
    /\ \/ UNCHANGED handover
       \/ \E l \in Lease : LeaseOf(l) = d /\ handover' = Set(handover, d, l)
    /\ UNCHANGED <<actorVars, guard, loader, loaderGuard, deleting, tail, exists>>

(* Mutant: an actor that has a lease ends up with neither.                 *)
AdoptDropsBoth(d) ==
    /\ handover[d] # NoLease
    /\ Ready(d)
    /\ lease' = Set(lease, d, IF lease[d] = NoLease THEN handover[d] ELSE NoLease)
    /\ handover' = Set(handover, d, NoLease)
    /\ published' = Set(published, d, clients[d])
    /\ ThenReleaseIfIdle(d, clients[d], counts[d])
    /\ UNCHANGED <<status, db, clients, counts, next, guard, loader,
                   loaderGuard, deleting, tail, maintainer, exists>>

(* AdoptLease: the actor's lease is replaced by the migration's.           *)
AdoptLease(d) ==
    /\ handover[d] # NoLease
    /\ Ready(d)
    /\ lease' = Set(lease, d, handover[d])
    /\ handover' = Set(handover, d, NoLease)
    /\ published' = Set(published, d, clients[d])
    /\ ThenReleaseIfIdle(d, clients[d], counts[d])
    /\ UNCHANGED <<status, db, clients, counts, next, guard, loader,
                   loaderGuard, deleting, tail, maintainer, exists>>

(* delete_session looks at the published client count...                   *)
DeleteCheck(d) ==
    /\ exists
    /\ status[d] # "absent"
    /\ ~deleting[d]
    /\ published[d] = {}
    /\ deleting' = Set(deleting, d, TRUE)
    /\ UNCHANGED <<actorVars, guard, handover, loader, loaderGuard, tail, maintainer, exists>>

(* ... and later the actor takes Shutdown and the session directory goes.  *)
(* The actor's fields are dropped; release messages in its channel too.    *)
DeleteFinish(d) ==
    /\ deleting[d]
    /\ Ready(d)
    /\ status' = Set(status, d, "absent")
    /\ lease' = Set(lease, d, NoLease)
    /\ db' = Set(db, d, "none")
    /\ clients' = Set(clients, d, {})
    /\ published' = Set(published, d, {})
    /\ counts' = Set(counts, d, [k \in Kind |-> 0])
    /\ guard' = [g \in Guard |-> IF guard[g].state = "sent" /\ guard[g].at = d
                                   THEN Free ELSE guard[g]]
    /\ deleting' = Set(deleting, d, FALSE)
    /\ next' = Set(next, d, 0)
    /\ exists' = FALSE
    /\ UNCHANGED <<step, handover, loader, loaderGuard,
                   tail, maintainer>>

(* A daemon dies; what comes back under its name is another instance.      *)
Crash(d) ==
    /\ status' = Set(status, d, "absent")
    /\ step' = Set(step, d, "ready")
    /\ lease' = Set(lease, d, NoLease)
    /\ db' = Set(db, d, "none")
    /\ clients' = Set(clients, d, {})
    /\ published' = Set(published, d, {})
    /\ counts' = Set(counts, d, [k \in Kind |-> 0])
    /\ next' = Set(next, d, 0)
    /\ guard' = [g \in Guard |-> IF guard[g].at = d THEN Free ELSE guard[g]]
    /\ handover' = Set(handover, d, NoLease)
    /\ loader' = Set(loader, d, "idle")
    /\ loaderGuard' = Set(loaderGuard, d, NoGuard)
    /\ deleting' = Set(deleting, d, FALSE)
    /\ maintainer' = IF maintainer = d THEN Nobody ELSE maintainer
    /\ UNCHANGED <<tail, exists>>

-----------------------------------------------------------------------------
(* What the actor of a daemon does, alone or for a client or a guard ...   *)
ActorStep(d) ==
    \/ AttachFails(d) \/ RequestRelease(d) \/ CloseDatabase(d) \/ DropLease(d)
    \/ IdleTimeout(d) \/ AdoptLease(d)
    \/ BeginAppend(d) \/ CommitAppend(d) \/ AppendFails(d) \/ CommitFails(d)
    \/ \E c \in Client : Attach(d, c) \/ AttachUndelivered(d, c) \/ Detach(d, c)
    \/ \E g \in Guard : AcquireOwnership(d, g) \/ ReleaseOwnership(d, g)

(* ... and what other tasks of the daemon do, or happens to it.            *)
TaskStep(d) ==
    \/ LoadSummaryActor(d) \/ LoadPersistentSession(d)
    \/ LoadCheck(d) \/ LoadGuard(d) \/ LoadFinish(d)
    \/ BeginMigration(d) \/ EndMigration(d)
    \/ DeleteCheck(d) \/ DeleteFinish(d)
    \/ Crash(d)

Next ==
    \/ \E d \in Daemon : ActorStep(d) \/ TaskStep(d)
    \/ \E g \in Guard : DropGuard(g)

Spec == Init /\ [][Next]_vars

(* An actor goes on with the command it is in.  The run loop selects among *)
(* its channels at random, so a release message that is there again and    *)
(* again when the actor is free is received in the end.                    *)
Fairness ==
    \A d \in Daemon :
      /\ WF_vars(CloseDatabase(d))
      /\ WF_vars(DropLease(d))
      /\ WF_vars(CommitAppend(d) \/ AppendFails(d) \/ CommitFails(d))
      /\ \A g \in Guard : SF_vars(ReleaseOwnership(d, g))

FairSpec == Spec /\ Fairness

-----------------------------------------------------------------------------
(* Properties. *)

HoldersAt(d) == {g \in Guard : guard[g].at = d}

Active(d) == db[d] # "none" \/ step[d] = "appending"

(* While a client is attached, or a guard of the actor is held or its      *)
(* release not yet received, the actor has a lease: no release path of     *)
(* actor.rs gives ownership up under somebody (INVARIANTS.md, "Session     *)
(* runtime ownership").                                                    *)
ActivityIsOwned ==
    \A d \in Daemon :
        status[d] # "absent" /\ (clients[d] # {} \/ HoldersAt(d) # {})
            => lease[d] # NoLease

(* A cached database handle is never open in two daemons, nor in one while *)
(* another owns the session or migrates it: release_ownership_if_quiescent *)
(* proves the connection closed before the lease goes.                     *)
DatabaseIsExclusive ==
    \A d \in Daemon : Active(d) =>
        /\ maintainer = Nobody
        /\ \A l \in Registered : LeaseOf(l) = d
        /\ \A e \in Daemon \ {d} : ~Active(e)

(* The guard counts that decide quiescence are those of the guards that    *)
(* exist, whatever order acquisitions, drops and receipts come in          *)
(* (acquire_ownership, Drop for SessionOwnershipGuardInner,                *)
(* release_ownership).                                                     *)
GuardCountsMatch ==
    \A d \in Daemon, k \in Kind :
        status[d] # "absent" =>
            counts[d][k] = Cardinality({g \in HoldersAt(d) : KindOf[g] = k})

(* An actor whose load_status is Current is at the durable tail, or one    *)
(* event behind it when the append it ran last reported an error after the *)
(* commit: ensure_cached_session_loaded relies on it and does not reload.  *)
CurrentIsCaughtUp ==
    \A d \in Daemon : status[d] = "current" => next[d] \in {tail, tail + 1}

(* What the actors, loads, migrations and deletions of the daemons do to   *)
(* the ownership of the session.  A daemon owns it while any reference to  *)
(* one of its leases is left, wherever that is; a write section lies       *)
(* inside the step that commits.                                           *)
Owners == {LeaseOf(l) : l \in Registered}

Ownership == INSTANCE SessionOwnership WITH
    Agent <- Daemon, DaemonOf <- [d \in Daemon |-> d],
    owners <- Owners, maintainer <- {maintainer} \ {Nobody}, writer <- {}

(* Seen from outside a daemon is one owner, although its actor, its guards *)
(* and messages and a migration hold several leases that come and go one   *)
(* by one: the session is never handed to another daemon, nor to a         *)
(* migration, without having been free, and a migration that succeeds      *)
(* leaves its daemon the owner at once.                                    *)
ImplementsOwnership == Ownership!OwnershipSpec

(* The inductive invariant behind the properties above, in parts: leases   *)
(* and who refers to them ...                                              *)
LeaseInv ==
    /\ \A d \in Daemon : lease[d] # NoLease => LeaseOf(lease[d]) = d
    /\ \A d \in Daemon : handover[d] # NoLease => LeaseOf(handover[d]) = d
    /\ \A g \in Guard : guard[g] # Free => LeaseOf(guard[g].lease) = guard[g].at
    /\ \A k, l \in Registered : LeaseOf(k) = LeaseOf(l)
    /\ maintainer # Nobody => Registered = {}

(* ... the order in which a release gives things up ...                    *)
ReleaseInv ==
    \A d \in Daemon :
        /\ Active(d) \/ clients[d] # {} => lease[d] # NoLease
        /\ step[d] = "dropping" => db[d] = "none"
        /\ step[d] \in {"closing", "dropping"} => Quiescent(clients[d], counts[d])
        /\ status[d] = "absent" =>
             /\ lease[d] = NoLease /\ db[d] = "none" /\ step[d] = "ready"
             /\ clients[d] = {} /\ counts[d] = [k \in Kind |-> 0]

(* ... and the guards: the load path's is held, an actor that is gone for  *)
(* another reason than deletion has none.                                  *)
HolderInv ==
    /\ \A d \in Daemon : loaderGuard[d] # NoGuard =>
         guard[loaderGuard[d]].state = "held" /\ guard[loaderGuard[d]].at = d
    /\ \A d \in Daemon : status[d] = "absent" /\ exists => HoldersAt(d) = {}

(* The state an actor trusts: nothing newer is durable.                    *)
TailInv ==
    \A d \in Daemon : status[d] = "current" => db[d] # "none"

ActorInv ==
    /\ TypeOK /\ LeaseInv /\ ReleaseInv /\ HolderInv /\ TailInv
    /\ ActivityIsOwned /\ GuardCountsMatch /\ CurrentIsCaughtUp

(* When the last guard is dropped with no client attached, the lease goes  *)
(* in the end, unless somebody comes back, the connection cannot be proven *)
(* closed, or the actor ends (release_ownership).                          *)
LastHoldReleases ==
    \A d \in Daemon :
        ( /\ clients[d] = {}
          /\ HoldersAt(d) # {}
          /\ \A g \in HoldersAt(d) : guard[g].state = "sent" )
        ~> \/ lease[d] = NoLease
           \/ db[d] = "retained"
           \/ clients[d] # {}
           \/ \E g \in HoldersAt(d) : guard[g].state = "held"

(* delete_session refuses a session with connected clients.                *)
DeleteRefusesConnectedClients ==
    [][\A d \in Daemon : ~deleting[d] /\ deleting'[d] => clients[d] = {}]_vars

=============================================================================
