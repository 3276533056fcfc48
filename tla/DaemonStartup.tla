--------------------------- MODULE DaemonStartup ---------------------------
(***************************************************************************)
(* The start of the daemon of one artifact and one state location on Unix: *)
(* packages/daemon-lifecycle/src/lib.rs for the clients that want one,     *)
(* packages/ipc/src/lib.rs and packages/server/src/lib.rs for the server   *)
(* that binds the endpoint.                                                *)
(*                                                                         *)
(* Any number of client processes find no server and start one.  They      *)
(* coordinate by a lock on the startup file.  The lock belongs to an open  *)
(* file description, and the child that a client spawns inherits a         *)
(* duplicate of it as its stdin: the lock lasts until the client and the   *)
(* child have both closed theirs.  The file's content, the descriptor, is  *)
(* how the child recognises that it is the one that was handed the start.  *)
(* A client may fail, reach its deadline or die at every step.             *)
(*                                                                         *)
(* Servers that a user runs in the foreground, at any time, take no part   *)
(* in the lock.  All servers are of the same artifact.                     *)
(***************************************************************************)
EXTENDS Naturals, FiniteSets

CONSTANTS
    Launcher,     \* one call of ensure_daemon_running or prepare_daemon_image
    Preparing,    \* those that are calls of prepare_daemon_image
    Foreground,   \* servers that users run
    Earlier,      \* servers of the past, which may have left their socket
    Nobody

ASSUME StartupConstants ==
    /\ Preparing \subseteq Launcher
    /\ Launcher \intersect (Foreground \union Earlier) = {}
    /\ Foreground \intersect Earlier = {}
    /\ Nobody \notin Launcher \union Foreground \union Earlier

VARIABLES
    launcher,   \* where its call is
    lock,       \* who holds the locked open file description
    owner,      \* the descriptor, the content of the startup file
    server,     \* the server processes; the child a launcher spawns is
                \* named after it
    told,       \* children whose readiness notification is in the pipe
    endpoint    \* the server that bound the socket at the endpoint's path

vars == <<launcher, lock, owner, server, told, endpoint>>

Server == Launcher \union Foreground \union Earlier

-----------------------------------------------------------------------------
(* Types. *)

LauncherStep ==
    {"idle", "locking", "acquired", "writing", "locked", "waiting", "stale",
     "unlink", "recheck", "handoff", "spawn", "notice", "verify",
     "ready", "gone"}

ServerStep ==
    {"unborn", "test", "unlink", "bind", "bound", "listening", "publishing",
     "serving", "draining", "gone"}

Holder == {"launcher", "child"} \X Launcher

(* StartupOwnerDescriptor: absent for an empty file, torn for one that the *)
(* parser refuses.                                                         *)
Descriptor ==
    [phase : {"absent", "torn", "preparing", "handoff_pending", "daemon_ready"},
     handoff : Launcher \union {Nobody}]

Torn == [phase |-> "torn", handoff |-> Nobody]

Described(phase, l) == [phase |-> phase, handoff |-> l]

TypeOK ==
    /\ launcher \in [Launcher -> LauncherStep]
    /\ lock \subseteq Holder
    /\ owner \in Descriptor
    /\ server \in [Server -> [step : ServerStep, again : BOOLEAN]]
    /\ told \subseteq Launcher
    /\ endpoint \in Server \union {Nobody}

Unborn == [step |-> "unborn", again |-> FALSE]

Init ==
    /\ launcher = [l \in Launcher |-> "idle"]
    /\ lock = {}
    /\ owner = [phase |-> "absent", handoff |-> Nobody]
    /\ told = {}
    /\ endpoint \in Earlier \union {Nobody}
    /\ server = [s \in Server |->
                   IF s \in Earlier THEN [Unborn EXCEPT !.step = "gone"] ELSE Unborn]

-----------------------------------------------------------------------------
(* What the launchers and servers find out about each other. *)

Live(s) == server[s].step \notin {"unborn", "gone"}

Listens(s) == server[s].step \in {"listening", "publishing", "serving"}

(* A connection to the path is accepted by the kernel as soon as, and as   *)
(* long as, the server that bound it has its listener.                     *)
HasListener == endpoint # Nobody /\ Listens(endpoint)

(* A verified handshake: only the accept loop answers.                     *)
PingReady == endpoint # Nobody /\ server[endpoint].step = "serving"

(* Mutant of Closed: dropping the StartupLock unlocks the description that *)
(* the child shares.                                                       *)
ClosedByUnlock(holder) == IF holder \in lock THEN {} ELSE lock

(* Mutant of Closed: a duplicate stays open in a client that goes on.      *)
ClosedLate(holder) == IF holder[1] = "child" THEN lock \ {holder} ELSE lock

(* A process closes its duplicate of the description.  The description is  *)
(* not unlocked.                                                           *)
Closed(holder) == lock \ {holder}

(* write_startup_owner is a write and a truncation: a shorter descriptor   *)
(* over a longer one is unreadable in between.                             *)
HalfWritten(new) == IF owner.phase = "absent" THEN {new} ELSE {new, Torn}

Goes(l, step) == launcher' = [launcher EXCEPT ![l] = step]

(* A launcher that returns, whatever it returns, drops its StartupLock.    *)
Returns(l, step) ==
    /\ Goes(l, step)
    /\ lock' = Closed(<<"launcher", l>>)

-----------------------------------------------------------------------------
(* The launcher. *)

(* acquire_daemon_until pings before it takes the lock, prepare_daemon_    *)
(* image does not.                                                         *)
Begin(l) ==
    /\ launcher[l] = "idle"
    /\ Goes(l, IF l \notin Preparing /\ PingReady THEN "ready" ELSE "locking")
    /\ UNCHANGED <<lock, owner, server, told, endpoint>>

(* StartupLock::acquire_observed gets the lock; acquire_with_timeout then  *)
(* refuses a file that holds no descriptor it can read.                    *)
TryLock(l) ==
    /\ launcher[l] = "locking"
    /\ lock = {}
    /\ \/ /\ owner.phase # "torn"
          /\ lock' = {<<"launcher", l>>}
          /\ Goes(l, "acquired")
       \/ /\ owner.phase = "torn"
          /\ Returns(l, "gone")
    /\ UNCHANGED <<owner, server, told, endpoint>>

(* The lock is taken and the server behind it answers: ConcurrentReady.    *)
WouldBlock(l) ==
    /\ launcher[l] = "locking"
    /\ lock # {}
    /\ PingReady
    /\ Goes(l, "ready")
    /\ UNCHANGED <<lock, owner, server, told, endpoint>>

(* acquire_with_timeout writes that it prepares a start; the truncation is *)
(* a step of its own.                                                      *)
WritePreparing(l) ==
    \/ /\ launcher[l] = "acquired"
       /\ owner' \in HalfWritten(Described("preparing", l))
       /\ Goes(l, "writing")
       /\ UNCHANGED <<lock, server, told, endpoint>>
    \/ /\ launcher[l] = "writing"
       /\ owner' = Described("preparing", l)
       /\ Goes(l, "locked")
       /\ UNCHANGED <<lock, server, told, endpoint>>

(* prepare_daemon_image runs the image under the lock and returns.         *)
PrepareImage(l) ==
    /\ launcher[l] = "locked"
    /\ l \in Preparing
    /\ Returns(l, "ready")
    /\ UNCHANGED <<owner, server, told, endpoint>>

(* acquire_daemon_until: a listener that does not answer yet is waited     *)
(* for, never replaced.                                                    *)
TestListener(l) ==
    /\ launcher[l] = "locked"
    /\ l \notin Preparing
    /\ Goes(l, IF HasListener THEN "waiting" ELSE "stale")
    /\ UNCHANGED <<lock, owner, server, told, endpoint>>

WaitReady(l) ==
    /\ launcher[l] = "waiting"
    /\ PingReady
    /\ Returns(l, "ready")
    /\ UNCHANGED <<owner, server, told, endpoint>>

(* Mutant of TestStale: what is at the path must be stale, the lock is     *)
(* held and nobody listened a moment ago.                                  *)
TestStaleNever(l) ==
    /\ launcher[l] = "stale"
    /\ Goes(l, IF endpoint # Nobody THEN "unlink" ELSE "recheck")
    /\ UNCHANGED <<lock, owner, server, told, endpoint>>

(* remove_stale_unix_socket_path tests, sleeps, tests again and unlinks    *)
(* the path.  The first test decides nothing that the second would not.    *)
TestStale(l) ==
    /\ launcher[l] = "stale"
    /\ Goes(l, IF endpoint # Nobody /\ ~HasListener THEN "unlink" ELSE "recheck")
    /\ UNCHANGED <<lock, owner, server, told, endpoint>>

RemoveStale(l) ==
    /\ launcher[l] = "unlink"
    /\ endpoint' = Nobody
    /\ Goes(l, "recheck")
    /\ UNCHANGED <<lock, owner, server, told>>

Recheck(l) ==
    /\ launcher[l] = "recheck"
    /\ IF PingReady
         THEN Returns(l, "ready")
         ELSE Goes(l, "handoff") /\ UNCHANGED lock
    /\ UNCHANGED <<owner, server, told, endpoint>>

(* The start proper of ensure_daemon_running_with_budget.  This descriptor *)
(* is longer than the one it overwrites and is never torn.                 *)
WriteHandoff(l) ==
    /\ launcher[l] = "handoff"
    /\ owner' = Described("handoff_pending", l)
    /\ Goes(l, "spawn")
    /\ UNCHANGED <<lock, server, told, endpoint>>

(* Mutant of Inherited: the child gets /dev/null as its stdin.             *)
NotInherited(l) == lock

Inherited(l) == lock \union {<<"child", l>>}

Spawn(l) ==
    /\ launcher[l] = "spawn"
    /\ server' = [server EXCEPT ![l].step = "test"]
    /\ lock' = Inherited(l)
    /\ Goes(l, "notice")
    /\ UNCHANGED <<owner, told, endpoint>>

(* wait_for_startup_signal: the child's end is looked at first, before the *)
(* notification and again until the handshake.                             *)
ReadNotice(l) ==
    /\ launcher[l] = "notice"
    /\ Live(l)
    /\ l \in told
    /\ Goes(l, "verify")
    /\ UNCHANGED <<lock, owner, server, told, endpoint>>

Verify(l) ==
    /\ launcher[l] = "verify"
    /\ Live(l)
    /\ PingReady
    /\ Returns(l, "ready")
    /\ UNCHANGED <<owner, server, told, endpoint>>

ChildExit(l) ==
    /\ launcher[l] \in {"notice", "verify"}
    /\ ~Live(l)
    /\ Returns(l, "gone")
    /\ UNCHANGED <<owner, server, told, endpoint>>

(* The call fails, its deadline passes or its process dies.  A child it    *)
(* spawned is not killed.                                                  *)
Leave(l) ==
    /\ launcher[l] \notin {"idle", "ready", "gone"}
    /\ Returns(l, "gone")
    /\ UNCHANGED <<owner, server, told, endpoint>>

-----------------------------------------------------------------------------
(* The server. *)

Moves(s, step) == server' = [server EXCEPT ![s].step = step]

(* A user runs `bcode server run`.                                         *)
RunForeground(s) ==
    /\ s \in Foreground
    /\ server[s].step = "unborn"
    /\ Moves(s, "test")
    /\ UNCHANGED <<launcher, lock, owner, told, endpoint>>

(* The process ends: everything it holds is closed, its socket stays.      *)
Ends(s) ==
    /\ Moves(s, "gone")
    /\ lock' = Closed(<<"child", s>>)

(* prepare_unix_socket_path_for_bind: a live socket is refused, a stale    *)
(* one is removed.                                                         *)
TestEndpoint(s) ==
    /\ server[s].step = "test"
    /\ \/ HasListener /\ Ends(s)
       \/ endpoint = Nobody /\ Moves(s, "bind") /\ UNCHANGED lock
       \/ endpoint # Nobody /\ ~HasListener /\ Moves(s, "unlink") /\ UNCHANGED lock
    /\ UNCHANGED <<launcher, owner, told, endpoint>>

(* remove_file fails when somebody else was faster.                        *)
RemoveForBind(s) ==
    /\ server[s].step = "unlink"
    /\ IF endpoint = Nobody THEN Ends(s) ELSE Moves(s, "bind") /\ UNCHANGED lock
    /\ endpoint' = Nobody
    /\ UNCHANGED <<launcher, owner, told>>

(* LocalIpcListener::bind goes through the preparation once more when the  *)
(* error says that the path exists; whether a taken path is reported that  *)
(* way is up to the transport, and any other error ends the start.         *)
Bind(s) ==
    /\ server[s].step = "bind"
    /\ \/ /\ endpoint = Nobody
          /\ endpoint' = s
          /\ Moves(s, "bound")
          /\ UNCHANGED lock
       \/ /\ endpoint # Nobody /\ ~server[s].again
          /\ server' = [server EXCEPT ![s] = [step |-> "test", again |-> TRUE]]
          /\ UNCHANGED <<endpoint, lock>>
       \/ /\ endpoint # Nobody
          /\ Ends(s)
          /\ UNCHANGED endpoint
    /\ UNCHANGED <<launcher, owner, told>>

(* The transport listens on the socket it bound.  Up to here a connection  *)
(* is refused as by a socket that a dead server left.                      *)
Listen(s) ==
    /\ server[s].step = "bound"
    /\ Moves(s, "listening")
    /\ UNCHANGED <<launcher, lock, owner, told, endpoint>>

(* notify_launcher_ready, before the first accept.  A child that does not  *)
(* find the handoff it was given publishes nothing and notifies nobody,    *)
(* and serves all the same.                                                *)
Publish(s) ==
    /\ server[s].step = "listening"
    /\ IF s \in Launcher /\ owner = Described("handoff_pending", s)
         THEN /\ owner' \in HalfWritten(Described("daemon_ready", s))
              /\ Moves(s, "publishing")
         ELSE Moves(s, "serving") /\ UNCHANGED owner
    /\ UNCHANGED <<launcher, lock, told, endpoint>>

(* Mutant of Notify: a phase that the readers do not know.                 *)
NotifyUnknownPhase(s) ==
    /\ server[s].step = "publishing"
    /\ owner' = Described("ready", s)
    /\ told' = told \union {s}
    /\ Moves(s, "serving")
    /\ UNCHANGED <<launcher, lock, endpoint>>

Notify(s) ==
    /\ server[s].step = "publishing"
    /\ owner' = Described("daemon_ready", s)
    /\ told' = told \union {s}
    /\ Moves(s, "serving")
    /\ UNCHANGED <<launcher, lock, endpoint>>

(* Mutant of Shutdown: stdin goes with the listener.                       *)
ShutdownUnfenced(s) ==
    /\ server[s].step \in {"listening", "serving"}
    /\ Moves(s, "draining")
    /\ lock' = Closed(<<"child", s>>)
    /\ UNCHANGED <<launcher, owner, told, endpoint>>

(* A shutdown before or after readiness drops the listener; the rest of it *)
(* runs with the lock still held.                                          *)
Shutdown(s) ==
    /\ server[s].step \in {"listening", "serving"}
    /\ Moves(s, "draining")
    /\ UNCHANGED <<launcher, lock, owner, told, endpoint>>

Drained(s) ==
    /\ server[s].step = "draining"
    /\ Ends(s)
    /\ UNCHANGED <<launcher, owner, told, endpoint>>

(* A failed start, or the death of the process.                            *)
Crash(s) ==
    /\ Live(s)
    /\ Ends(s)
    /\ UNCHANGED <<launcher, owner, told, endpoint>>

-----------------------------------------------------------------------------

Launches(l) ==
    \/ Begin(l) \/ TryLock(l) \/ WouldBlock(l) \/ WritePreparing(l)
    \/ PrepareImage(l) \/ TestListener(l) \/ WaitReady(l)
    \/ TestStale(l) \/ RemoveStale(l) \/ Recheck(l)
    \/ WriteHandoff(l) \/ Spawn(l) \/ ReadNotice(l) \/ Verify(l) \/ ChildExit(l)

Starts(s) ==
    \/ TestEndpoint(s) \/ RemoveForBind(s) \/ Bind(s) \/ Listen(s)
    \/ Publish(s) \/ Notify(s) \/ Drained(s)

Next ==
    \/ \E l \in Launcher : Launches(l) \/ Leave(l)
    \/ \E s \in Server : Starts(s) \/ RunForeground(s) \/ Shutdown(s) \/ Crash(s)

Spec == Init /\ [][Next]_vars

(* A process that is not dead goes on.  Nobody has to shut a server down,  *)
(* and a caller that waits for the lock has no deadline to rely on; one    *)
(* that waits for a server does.                                           *)
FairSpec ==
    /\ Spec
    /\ \A l \in Launcher :
         /\ WF_vars(Launches(l))
         /\ WF_vars(launcher[l] \in {"waiting", "notice", "verify"} /\ Leave(l))
    /\ \A s \in Server : WF_vars(Starts(s))

-----------------------------------------------------------------------------
(* Properties. *)

(* However the launchers fail, time out, die and are retried, at most one  *)
(* of the daemons they spawned is alive, from the spawn, long before it    *)
(* binds anything, to the end of its shutdown, when it listens no more     *)
(* (ensure_daemon_running_with_budget: the child's inherited lock).        *)
OneLaunchedDaemon ==
    \A k, l \in Launcher : Live(k) /\ Live(l) => k = l

(* Until it publishes itself a spawned daemon finds the descriptor its     *)
(* launcher wrote, with its own handoff, although that launcher may be     *)
(* gone and others may prepare a start: publish_startup_owner_at does not  *)
(* fail, and the launcher gets its notification.                           *)
HandoffIsIntact ==
    \A l \in Launcher :
        server[l].step \in {"test", "unlink", "bind", "bound", "listening"} =>
            owner = Described("handoff_pending", l)

(* Once a server listens at the endpoint and nobody is between a test and  *)
(* a removal, no cleanup and no bind of anyone takes the endpoint from it  *)
(* for as long as it listens, foreground servers and ones that do not      *)
(* answer yet included (remove_stale_unix_socket_path,                     *)
(* prepare_unix_socket_path_for_bind: "refusing to replace live IPC        *)
(* socket").  Whoever tested before it listened may still remove it.       *)
ListenerIsKept ==
    \A s \in Server :
        [](/\ Listens(s)
           /\ endpoint = s
           /\ \A l \in Launcher : launcher[l] # "unlink"
           /\ \A k \in Server : server[k].step # "unlink"
           => [](Listens(s) => endpoint = s))

(* A caller that finds the lock taken is served or gets the lock, without  *)
(* its own deadline, whoever started the daemon it waits for and whether   *)
(* that one still lives (acquire_observed; "a later caller reconciles that *)
(* same attempt").  A server a user started may take the endpoint away     *)
(* from the daemon that holds the lock.                                    *)
WaiterIsServed ==
    \A l \in Launcher :
        launcher[l] = "locking" ~>
            launcher[l] # "locking" \/ \E s \in Foreground : server[s].step # "unborn"

=============================================================================
