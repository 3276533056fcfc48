------------------------ MODULE DaemonStartupProofs ------------------------
(***************************************************************************)
(* Proofs about DaemonStartup, for any number of launchers and servers:    *)
(* the type invariant, that at most one launched daemon lives, and that it *)
(* finds its handoff intact.                                               *)
(*                                                                         *)
(* The argument is about the lock.  Everybody who holds the locked file    *)
(* description belongs to one start, its launcher or its child; a launcher *)
(* that is past the lock holds it, and so does a child as long as it       *)
(* lives.  Whoever writes the descriptor holds the lock.                   *)
(***************************************************************************)
EXTENDS DaemonStartup, TLAPS

Working ==
    {"acquired", "writing", "locked", "waiting", "stale", "unlink", "recheck",
     "handoff", "spawn", "notice", "verify"}

Starting == {"test", "unlink", "bind", "bound", "listening"}

(* Launchers past the lock and live children hold the description.         *)
HoldersHold ==
    \A l \in Launcher :
        /\ launcher[l] \in Working => <<"launcher", l>> \in lock
        /\ Live(l) => <<"child", l>> \in lock

(* The holders are the launcher and the child of one start.                *)
OneStart == \A k, l \in Launcher, a, b \in {"launcher", "child"} :
                <<a, k>> \in lock /\ <<b, l>> \in lock => k = l

(* There is no child before the spawn.                                     *)
ChildComesLate ==
    \A l \in Launcher :
        launcher[l] \notin {"notice", "verify", "ready", "gone"} =>
            server[l].step = "unborn"

HandoffHolds ==
    \A l \in Launcher :
        launcher[l] = "spawn" \/ server[l].step \in Starting =>
            owner = Described("handoff_pending", l)

(* Only a child publishes itself in the descriptor.                        *)
PublisherIsChild ==
    \A s \in Server : server[s].step = "publishing" => s \in Launcher

StartInv ==
    TypeOK /\ PublisherIsChild /\ HoldersHold /\ OneStart /\ ChildComesLate /\ HandoffHolds

-----------------------------------------------------------------------------

(* The initial states satisfy the invariant: nothing has started.          *)
LEMMA InitStartInv == Init => StartInv
<1> SUFFICES ASSUME Init PROVE StartInv
  OBVIOUS
<1> USE StartupConstants
<1>1. TypeOK
  BY DEF Init, TypeOK, Server, Descriptor, LauncherStep, ServerStep, Holder, Unborn
<1>2. \A l \in Launcher : server[l].step = "unborn"
  BY DEF Init, Server, Unborn
<1>3. HoldersHold
  BY <1>2 DEF Init, HoldersHold, Live, Working
<1>4. OneStart
  BY DEF Init, OneStart
<1>5. ChildComesLate
  BY <1>2 DEF ChildComesLate
<1>6. HandoffHolds
  BY <1>2 DEF Init, HandoffHolds, Starting
<1>7. PublisherIsChild
  BY DEF Init, PublisherIsChild, Server, Unborn
<1> QED BY <1>1, <1>3, <1>4, <1>5, <1>6, <1>7 DEF StartInv

(* A step of a launcher or a server keeps the types.                       *)
LEMMA TypeStep == TypeOK /\ PublisherIsChild /\ [Next]_vars => TypeOK'
<1> SUFFICES ASSUME TypeOK, PublisherIsChild, [Next]_vars PROVE TypeOK'
  OBVIOUS
<1> USE StartupConstants DEF TypeOK, Server, Descriptor, Described, Torn, LauncherStep,
        ServerStep, Holder
<1>1. ASSUME NEW l \in Launcher, Launches(l) PROVE TypeOK'
  <2>1. CASE Begin(l)
    BY <2>1 DEF Begin, Goes
  <2>2. CASE TryLock(l)
    BY <2>2 DEF TryLock, Goes, Returns, Closed
  <2>3. CASE WouldBlock(l)
    BY <2>3 DEF WouldBlock, Goes
  <2>4. CASE WritePreparing(l)
    BY <2>4 DEF WritePreparing, HalfWritten, Goes
  <2>5. CASE PrepareImage(l)
    BY <2>5 DEF PrepareImage, Goes, Returns, Closed
  <2>6. CASE TestListener(l)
    BY <2>6 DEF TestListener, Goes
  <2>7. CASE WaitReady(l)
    BY <2>7 DEF WaitReady, Goes, Returns, Closed
  <2>8. CASE TestStale(l)
    BY <2>8 DEF TestStale, Goes
  <2>9. CASE RemoveStale(l)
    BY <2>9 DEF RemoveStale, Goes
  <2>10. CASE Recheck(l)
    BY <2>10 DEF Recheck, Goes, Returns, Closed
  <2>11. CASE WriteHandoff(l)
    BY <2>11 DEF WriteHandoff, Goes
  <2>12. CASE Spawn(l)
    BY <2>12 DEF Spawn, Goes, Inherited
  <2>13. CASE ReadNotice(l)
    BY <2>13 DEF ReadNotice, Goes
  <2>14. CASE Verify(l)
    BY <2>14 DEF Verify, Goes, Returns, Closed
  <2>15. CASE ChildExit(l)
    BY <2>15 DEF ChildExit, Goes, Returns, Closed
  <2> QED
    BY <1>1, <2>1, <2>2, <2>3, <2>4, <2>5, <2>6, <2>7, <2>8, <2>9, <2>10, <2>11,
       <2>12, <2>13, <2>14, <2>15 DEF Launches
<1>2. ASSUME NEW l \in Launcher, Leave(l) PROVE TypeOK'
  BY <1>2 DEF Leave, Goes, Returns, Closed
<1>3. ASSUME NEW s \in Server, Starts(s) PROVE TypeOK'
  <2>1. CASE TestEndpoint(s)
    BY <2>1 DEF TestEndpoint, Moves, Ends, Closed
  <2>2. CASE RemoveForBind(s)
    BY <2>2 DEF RemoveForBind, Moves, Ends, Closed
  <2>3. CASE Bind(s)
    <3>1. CASE endpoint' = s /\ Moves(s, "bound") /\ UNCHANGED lock
      BY <2>3, <3>1 DEF Bind, Moves
    <3>2. CASE Ends(s) /\ UNCHANGED endpoint
      BY <2>3, <3>2 DEF Bind, Moves, Ends, Closed
    <3>3. CASE /\ server' = [server EXCEPT ![s] = [step |-> "test", again |-> TRUE]]
               /\ UNCHANGED <<endpoint, lock>>
      <4>1. [step |-> "test", again |-> TRUE] \in [step : ServerStep, again : BOOLEAN]
        OBVIOUS
      <4> QED BY <2>3, <3>3, <4>1 DEF Bind
    <3> QED BY <2>3, <3>1, <3>2, <3>3 DEF Bind
  <2>4. CASE Publish(s)
    BY <2>4 DEF Publish, Moves, HalfWritten
  <2>5. CASE Notify(s)
    BY <2>5 DEF Notify, Moves, PublisherIsChild
  <2>6. CASE Drained(s)
    BY <2>6 DEF Drained, Moves, Ends, Closed
  <2>7. CASE Listen(s)
    BY <2>7 DEF Listen, Moves
  <2> QED
    BY <1>3, <2>1, <2>2, <2>3, <2>4, <2>5, <2>6, <2>7 DEF Starts
<1>4. ASSUME NEW s \in Server, RunForeground(s) \/ Shutdown(s) \/ Crash(s) PROVE TypeOK'
  BY <1>4 DEF RunForeground, Shutdown, Crash, Moves, Ends, Closed
<1>5. CASE UNCHANGED vars
  BY <1>5 DEF vars
<1> QED
  BY <1>1, <1>2, <1>3, <1>4, <1>5 DEF Next

-----------------------------------------------------------------------------
(* What the kinds of steps do to the rest of the invariant. *)

Rest == PublisherIsChild /\ HoldersHold /\ OneStart /\ ChildComesLate /\ HandoffHolds

(* A launcher goes on without touching anything else.                      *)
LEMMA LauncherMoves ==
    ASSUME StartInv, NEW l \in Launcher, NEW step, Goes(l, step),
           UNCHANGED <<lock, owner, server>>,
           step \in Working => launcher[l] \in Working,
           step \notin {"notice", "verify", "ready", "gone"} =>
               launcher[l] \notin {"notice", "verify", "ready", "gone"},
           step # "spawn"
    PROVE  Rest'
<1> USE DEF StartInv, TypeOK, Goes
<1>1. HoldersHold' /\ OneStart'
  BY DEF HoldersHold, OneStart, Live
<1>2. ChildComesLate' /\ HandoffHolds' /\ PublisherIsChild'
  BY DEF ChildComesLate, HandoffHolds, PublisherIsChild, Described
<1> QED BY <1>1, <1>2 DEF Rest

(* A launcher returns and closes its duplicate of the description.         *)
LEMMA LauncherReturns ==
    ASSUME StartInv, NEW l \in Launcher, NEW step \in {"ready", "gone"}, Returns(l, step),
           UNCHANGED <<owner, server>>
    PROVE  Rest'
<1> USE DEF StartInv, TypeOK, Goes, Returns, Closed
<1>1. HoldersHold'
  BY DEF HoldersHold, Live, Working
<1>2. OneStart'
  BY DEF OneStart
<1>3. ChildComesLate' /\ HandoffHolds' /\ PublisherIsChild'
  BY DEF ChildComesLate, HandoffHolds, PublisherIsChild, Described
<1> QED BY <1>1, <1>2, <1>3 DEF Rest

(* A server that was started goes on, or ends and closes what it holds.    *)
LEMMA ServerMoves ==
    ASSUME StartInv, NEW s \in Server, Live(s), NEW step,
           server'[s].step = step,
           \A k \in Server \ {s} : server'[k] = server[k],
           step \notin {"unborn", "publishing"},
           step \in Starting => server[s].step \in Starting,
           \/ UNCHANGED lock
           \/ step = "gone" /\ lock' = Closed(<<"child", s>>),
           UNCHANGED <<launcher, owner>>
    PROVE  Rest'
<1> USE DEF StartInv, TypeOK, Server
<1>1. HoldersHold'
  BY DEF HoldersHold, Live, Closed
<1>2. OneStart'
  BY DEF OneStart, Closed
<1>3. ChildComesLate'
  BY DEF ChildComesLate, Live
<1>4. HandoffHolds' /\ PublisherIsChild'
  BY DEF HandoffHolds, PublisherIsChild, Described
<1> QED BY <1>1, <1>2, <1>3, <1>4 DEF Rest

(* A launcher that is past the lock and has not spawned excludes every     *)
(* live child, and every other launcher that is past the lock.             *)
LEMMA LauncherAlone ==
    ASSUME StartInv, NEW l \in Launcher,
           launcher[l] \in Working \ {"notice", "verify"}
    PROVE  /\ \A k \in Launcher : ~Live(k)
           /\ \A k \in Launcher \ {l} : launcher[k] \notin Working
<1>1. \A k \in Launcher : Live(k) => k = l
  BY DEF StartInv, HoldersHold, OneStart
<1>2. ~Live(l)
  BY DEF StartInv, ChildComesLate, Live, Working
<1> QED BY <1>1, <1>2 DEF StartInv, HoldersHold, OneStart

(* The launcher that is past the lock writes the descriptor.               *)
LEMMA LauncherWrites ==
    ASSUME StartInv, NEW l \in Launcher, NEW step, Goes(l, step),
           launcher[l] \in Working \ {"notice", "verify"},
           step \in Working \ {"notice", "verify"},
           step = "spawn" => owner' = Described("handoff_pending", l),
           UNCHANGED <<lock, server>>
    PROVE  Rest'
<1>1. /\ \A k \in Launcher : ~Live(k)
      /\ \A k \in Launcher \ {l} : launcher[k] \notin Working
  BY LauncherAlone
<1> USE DEF StartInv, TypeOK, Goes
<1>2. HoldersHold' /\ OneStart'
  BY DEF HoldersHold, OneStart, Live
<1>3. ChildComesLate' /\ PublisherIsChild'
  BY DEF ChildComesLate, PublisherIsChild, Working
<1>4. HandoffHolds'
  BY <1>1 DEF HandoffHolds, Described, Live, Starting, Working
<1> QED BY <1>2, <1>3, <1>4 DEF Rest

(* The live child that was handed the start writes the descriptor.         *)
LEMMA ChildWrites ==
    ASSUME StartInv, NEW s \in Launcher, Live(s), NEW step \in {"publishing", "serving"},
           server'[s].step = step,
           \A k \in Server \ {s} : server'[k] = server[k],
           UNCHANGED <<launcher, lock>>
    PROVE  Rest'
<1>1. \A k \in Launcher \ {s} : ~Live(k) /\ launcher[k] \notin Working
  BY DEF StartInv, HoldersHold, OneStart
<1>2. launcher[s] # "spawn"
  BY DEF StartInv, ChildComesLate, Live
<1> USE DEF StartInv, TypeOK, Server
<1>3. HoldersHold' /\ OneStart'
  BY DEF HoldersHold, OneStart, Live
<1>4. ChildComesLate' /\ PublisherIsChild'
  BY DEF ChildComesLate, PublisherIsChild, Live
<1>5. HandoffHolds'
  BY <1>1, <1>2 DEF HandoffHolds, Described, Live, Starting, Working
<1> QED BY <1>3, <1>4, <1>5 DEF Rest

-----------------------------------------------------------------------------

(* Every step of a launcher keeps the rest of the invariant.               *)
LEMMA LauncherKeeps ==
    ASSUME StartInv, NEW l \in Launcher, Launches(l) \/ Leave(l)
    PROVE  Rest'
<1>1. CASE Begin(l)
  <2> DEFINE step == IF l \notin Preparing /\ PingReady THEN "ready" ELSE "locking"
  <2>1. step \notin Working /\ step # "spawn" /\ Goes(l, step)
    BY <1>1 DEF Begin, Working
  <2> HIDE DEF step
  <2> QED BY <1>1, <2>1, LauncherMoves DEF Begin
<1>2. CASE TryLock(l)
  <2>1. CASE owner.phase = "torn"
    BY <1>2, <2>1, LauncherReturns DEF TryLock
  <2>2. CASE owner.phase # "torn"
    <3>1. lock = {} /\ lock' = {<<"launcher", l>>} /\ Goes(l, "acquired")
      BY <1>2, <2>2 DEF TryLock
    <3>2. \A k \in Launcher : launcher[k] \notin Working /\ ~Live(k)
      BY <3>1 DEF StartInv, HoldersHold
    <3>3. UNCHANGED <<owner, server>> /\ launcher[l] = "locking"
      BY <1>2 DEF TryLock
    <3>4. HoldersHold' /\ OneStart'
      BY <3>1, <3>2, <3>3 DEF StartInv, TypeOK, HoldersHold, OneStart, Goes, Live
    <3>5. ChildComesLate' /\ HandoffHolds' /\ PublisherIsChild'
      BY <3>1, <3>3 DEF StartInv, TypeOK, ChildComesLate, HandoffHolds, PublisherIsChild,
         Described, Goes
    <3> QED BY <3>4, <3>5 DEF Rest
  <2> QED BY <2>1, <2>2
<1>3. CASE WouldBlock(l)
  BY <1>3, LauncherMoves DEF WouldBlock, Working
<1>4. CASE WritePreparing(l)
  <2>1. CASE launcher[l] = "acquired"
    BY <1>4, <2>1, LauncherWrites DEF WritePreparing, Working
  <2>2. CASE launcher[l] = "writing"
    BY <1>4, <2>2, LauncherWrites DEF WritePreparing, Working
  <2> QED BY <1>4, <2>1, <2>2 DEF WritePreparing
<1>5. CASE PrepareImage(l)
  BY <1>5, LauncherReturns DEF PrepareImage
<1>6. CASE TestListener(l)
  <2> DEFINE step == IF HasListener THEN "waiting" ELSE "stale"
  <2>1. step # "spawn" /\ Goes(l, step) /\ launcher[l] = "locked"
    BY <1>6 DEF TestListener
  <2> HIDE DEF step
  <2> QED BY <1>6, <2>1, LauncherMoves DEF TestListener, Working
<1>7. CASE WaitReady(l)
  BY <1>7, LauncherReturns DEF WaitReady
<1>8. CASE TestStale(l)
  <2> DEFINE step == IF endpoint # Nobody /\ ~HasListener THEN "unlink" ELSE "recheck"
  <2>1. step # "spawn" /\ Goes(l, step) /\ launcher[l] = "stale"
    BY <1>8 DEF TestStale
  <2> HIDE DEF step
  <2> QED BY <1>8, <2>1, LauncherMoves DEF TestStale, Working
<1>9. CASE RemoveStale(l)
  BY <1>9, LauncherMoves DEF RemoveStale, Working
<1>10. CASE Recheck(l)
  <2>1. CASE PingReady
    BY <1>10, <2>1, LauncherReturns DEF Recheck
  <2>2. CASE ~PingReady
    BY <1>10, <2>2, LauncherMoves DEF Recheck, Working
  <2> QED BY <2>1, <2>2
<1>11. CASE WriteHandoff(l)
  BY <1>11, LauncherWrites DEF WriteHandoff, Working
<1>12. CASE Spawn(l)
  <2>1. /\ \A k \in Launcher : ~Live(k)
        /\ \A k \in Launcher \ {l} : launcher[k] \notin Working
    BY <1>12, LauncherAlone DEF Spawn, Working
  <2>2. /\ launcher[l] = "spawn" /\ Goes(l, "notice") /\ lock' = lock \union {<<"child", l>>}
        /\ <<"launcher", l>> \in lock
        /\ UNCHANGED owner
    BY <1>12 DEF Spawn, Inherited, StartInv, HoldersHold, Working
  <2>3. /\ server'[l].step = "test"
        /\ \A k \in Server \ {l} : server'[k] = server[k]
    BY <1>12 DEF Spawn, StartInv, TypeOK, Server
  <2>4. HoldersHold'
    BY <2>1, <2>2, <2>3 DEF StartInv, TypeOK, HoldersHold, Live, Goes, Working, Server
  <2>5. OneStart'
    BY <2>2 DEF StartInv, OneStart
  <2>6. ChildComesLate' /\ PublisherIsChild'
    BY <2>2, <2>3 DEF StartInv, TypeOK, ChildComesLate, PublisherIsChild, Goes, Server
  <2>7. HandoffHolds'
    BY <2>1, <2>2, <2>3 DEF StartInv, TypeOK, HandoffHolds, Live, Starting, Working, Goes,
       Described, Server
  <2> QED BY <2>4, <2>5, <2>6, <2>7 DEF Rest
<1>13. CASE ReadNotice(l)
  BY <1>13, LauncherMoves DEF ReadNotice, Working
<1>14. CASE Verify(l)
  BY <1>14, LauncherReturns DEF Verify
<1>15. CASE ChildExit(l)
  BY <1>15, LauncherReturns DEF ChildExit
<1>16. CASE Leave(l)
  BY <1>16, LauncherReturns DEF Leave
<1> QED
  BY <1>1, <1>2, <1>3, <1>4, <1>5, <1>6, <1>7, <1>8, <1>9, <1>10, <1>11, <1>12, <1>13,
     <1>14, <1>15, <1>16 DEF Launches

(* What Moves and Ends say of the steps of the servers.                    *)
LEMMA MovesOne ==
    ASSUME StartInv, NEW s \in Server, NEW step, Moves(s, step)
    PROVE  /\ server'[s].step = step
           /\ \A k \in Server \ {s} : server'[k] = server[k]
BY DEF StartInv, TypeOK, Moves

(* Every step of a server keeps the rest of the invariant.                 *)
LEMMA ServerKeeps ==
    ASSUME StartInv, NEW s \in Server,
           Starts(s) \/ RunForeground(s) \/ Shutdown(s) \/ Crash(s)
    PROVE  Rest'
<1>1. ASSUME Live(s), Ends(s), UNCHANGED <<launcher, owner>> PROVE Rest'
  BY <1>1, MovesOne, ServerMoves DEF Ends, Starting
<1>2. CASE TestEndpoint(s)
  <2>1. Live(s) /\ server[s].step \in Starting
    BY <1>2 DEF TestEndpoint, Live, Starting
  <2>2. CASE Ends(s)
    BY <1>1, <1>2, <2>1, <2>2 DEF TestEndpoint
  <2>3. CASE Moves(s, "bind") /\ UNCHANGED lock
    BY <1>2, <2>1, <2>3, MovesOne, ServerMoves DEF TestEndpoint
  <2>4. CASE Moves(s, "unlink") /\ UNCHANGED lock
    BY <1>2, <2>1, <2>4, MovesOne, ServerMoves DEF TestEndpoint
  <2> QED BY <1>2, <2>2, <2>3, <2>4 DEF TestEndpoint
<1>3. CASE RemoveForBind(s)
  <2>1. Live(s) /\ server[s].step \in Starting
    BY <1>3 DEF RemoveForBind, Live, Starting
  <2>2. CASE Ends(s)
    BY <1>1, <1>3, <2>1, <2>2 DEF RemoveForBind
  <2>3. CASE Moves(s, "bind") /\ UNCHANGED lock
    BY <1>3, <2>1, <2>3, MovesOne, ServerMoves DEF RemoveForBind
  <2> QED BY <1>3, <2>2, <2>3 DEF RemoveForBind
<1>4. CASE Bind(s)
  <2>1. Live(s) /\ server[s].step \in Starting /\ UNCHANGED <<launcher, owner>>
    BY <1>4 DEF Bind, Live, Starting
  <2>2. CASE Ends(s)
    BY <1>1, <2>1, <2>2
  <2>3. CASE Moves(s, "bound") /\ UNCHANGED lock
    BY <2>1, <2>3, MovesOne, ServerMoves
  <2>4. CASE /\ server' = [server EXCEPT ![s] = [step |-> "test", again |-> TRUE]]
             /\ UNCHANGED lock
    <3>1. server'[s].step = "test" /\ \A k \in Server \ {s} : server'[k] = server[k]
      BY <2>4 DEF StartInv, TypeOK
    <3> QED BY <2>1, <2>4, <3>1, ServerMoves
  <2> QED BY <1>4, <2>2, <2>3, <2>4 DEF Bind
<1>5. CASE Publish(s)
  <2>1. Live(s) /\ UNCHANGED <<launcher, lock>>
    BY <1>5 DEF Publish, Live
  <2>2. CASE s \in Launcher /\ Moves(s, "publishing")
    BY <2>1, <2>2, MovesOne, ChildWrites
  <2>3. CASE Moves(s, "serving") /\ UNCHANGED owner
    BY <2>1, <2>3, MovesOne, ServerMoves DEF Starting
  <2> QED BY <1>5, <2>2, <2>3 DEF Publish
<1>6. CASE Notify(s)
  <2>1. Live(s) /\ s \in Launcher /\ Moves(s, "serving") /\ UNCHANGED <<launcher, lock>>
    BY <1>6 DEF Notify, Live, StartInv, PublisherIsChild
  <2> QED BY <2>1, MovesOne, ChildWrites
<1>7. CASE Drained(s)
  BY <1>1, <1>7 DEF Drained, Live
<1>8. CASE Crash(s)
  BY <1>1, <1>8 DEF Crash
<1>9. CASE Shutdown(s)
  <2>1. Live(s) /\ Moves(s, "draining") /\ UNCHANGED <<launcher, lock, owner>>
    BY <1>9 DEF Shutdown, Live
  <2> QED BY <2>1, MovesOne, ServerMoves DEF Starting
<1>10. CASE RunForeground(s)
  <2>1. s \notin Launcher /\ Moves(s, "test") /\ UNCHANGED <<launcher, lock, owner>>
    BY <1>10, StartupConstants DEF RunForeground
  <2>2. /\ server'[s].step = "test"
        /\ \A k \in Server \ {s} : server'[k] = server[k]
    BY <2>1, MovesOne
  <2>3. \A l \in Launcher : server'[l] = server[l]
    BY <2>1, <2>2 DEF Server
  <2>4. HoldersHold' /\ OneStart' /\ ChildComesLate' /\ HandoffHolds'
    BY <2>1, <2>3 DEF StartInv, HoldersHold, OneStart, ChildComesLate, HandoffHolds, Live,
       Described
  <2>5. PublisherIsChild'
    BY <2>2 DEF StartInv, PublisherIsChild, Server
  <2> QED BY <2>4, <2>5 DEF Rest
<1>11. CASE Listen(s)
  <2>1. /\ Live(s) /\ server[s].step \in Starting /\ Moves(s, "listening")
        /\ UNCHANGED <<launcher, lock, owner>>
    BY <1>11 DEF Listen, Live, Starting
  <2> QED BY <2>1, MovesOne, ServerMoves
<1> QED
  BY <1>2, <1>3, <1>4, <1>5, <1>6, <1>7, <1>8, <1>9, <1>10, <1>11 DEF Starts

(* The invariant is inductive.                                             *)
LEMMA NextStartInv == StartInv /\ [Next]_vars => StartInv'
<1> SUFFICES ASSUME StartInv, [Next]_vars PROVE StartInv'
  OBVIOUS
<1>1. TypeOK'
  BY TypeStep DEF StartInv
<1>2. CASE UNCHANGED vars
  BY <1>2 DEF vars, StartInv, TypeOK, PublisherIsChild, HoldersHold, OneStart,
     ChildComesLate, HandoffHolds, Live, Described
<1>3. CASE Next
  <2>1. Rest'
    BY <1>3, LauncherKeeps, ServerKeeps DEF Next
  <2> QED BY <1>1, <2>1 DEF StartInv, Rest
<1> QED BY <1>2, <1>3

(* Every behaviour of the start satisfies the invariant: the lock is held  *)
(* by one start, from its launcher's success to its child's end.           *)
THEOREM StartIsInvariant == Spec => []StartInv
BY InitStartInv, NextStartInv, PTL DEF Spec

(* The values of the launchers, the descriptor, the lock and the servers   *)
(* are of their types in every reachable state.                            *)
THEOREM StartupTypes == Spec => []TypeOK
<1>1. StartInv => TypeOK
  BY DEF StartInv
<1> QED BY <1>1, StartIsInvariant, PTL

(* Of all daemons that ensure_daemon_running ever spawned at most one is   *)
(* alive, for any number of clients that fail, time out or die.            *)
THEOREM AtMostOneDaemon == Spec => []OneLaunchedDaemon
<1>1. StartInv => OneLaunchedDaemon
  BY DEF StartInv, HoldersHold, OneStart, OneLaunchedDaemon
<1> QED BY <1>1, StartIsInvariant, PTL

(* A spawned daemon finds its own handoff in the descriptor until it has   *)
(* published itself (publish_startup_owner_at).                            *)
THEOREM HandoffReachesChild == Spec => []HandoffIsIntact
<1>1. StartInv => HandoffIsIntact
  BY DEF StartInv, HandoffHolds, HandoffIsIntact, Starting
<1> QED BY <1>1, StartIsInvariant, PTL

-----------------------------------------------------------------------------
(* The endpoint of a listener. *)

NobodyRemoves ==
    /\ \A l \in Launcher : launcher[l] # "unlink"
    /\ \A k \in Server : server[k].step # "unlink"

(* The server has the endpoint and nobody is about to remove its socket,   *)
(* or it listens no more, and never will again.                            *)
Kept(s) ==
    \/ Listens(s) /\ endpoint = s /\ NobodyRemoves
    \/ server[s].step \in {"draining", "gone"}

(* Whoever tests the endpoint of a listener finds it, so that nobody comes *)
(* to remove it.                                                           *)
LEMMA KeptStep ==
    ASSUME NEW s \in Server, StartInv, Kept(s), [Next]_vars
    PROVE  Kept(s)'
<1> TypeOK
  BY DEF StartInv
<1> USE StartupConstants DEF TypeOK, Server, Kept, Listens, NobodyRemoves
<1>1. CASE UNCHANGED vars
  BY <1>1 DEF vars
<1>2. ASSUME NEW l \in Launcher, Launches(l) \/ Leave(l) PROVE Kept(s)'
  <2>1. CASE Begin(l)
    BY <2>1 DEF Begin, Goes
  <2>2. CASE TryLock(l)
    BY <2>2 DEF TryLock, Goes, Returns
  <2>3. CASE WouldBlock(l)
    BY <2>3 DEF WouldBlock, Goes
  <2>4. CASE WritePreparing(l)
    BY <2>4 DEF WritePreparing, Goes
  <2>5. CASE PrepareImage(l)
    BY <2>5 DEF PrepareImage, Goes, Returns
  <2>6. CASE TestListener(l)
    BY <2>6 DEF TestListener, Goes
  <2>7. CASE WaitReady(l)
    BY <2>7 DEF WaitReady, Goes, Returns
  <2>8. CASE TestStale(l)
    BY <2>8 DEF TestStale, Goes, HasListener
  <2>9. CASE RemoveStale(l)
    BY <2>9 DEF RemoveStale, Goes
  <2>10. CASE Recheck(l)
    BY <2>10 DEF Recheck, Goes, Returns
  <2>11. CASE WriteHandoff(l)
    BY <2>11 DEF WriteHandoff, Goes
  <2>12. CASE Spawn(l)
    BY <2>12 DEF Spawn, Goes, StartInv, ChildComesLate
  <2>13. CASE ReadNotice(l)
    BY <2>13 DEF ReadNotice, Goes
  <2>14. CASE Verify(l)
    BY <2>14 DEF Verify, Goes, Returns
  <2>15. CASE ChildExit(l)
    BY <2>15 DEF ChildExit, Goes, Returns
  <2>16. CASE Leave(l)
    BY <2>16 DEF Leave, Goes, Returns
  <2> QED
    BY <1>2, <2>1, <2>2, <2>3, <2>4, <2>5, <2>6, <2>7, <2>8, <2>9, <2>10,
       <2>11, <2>12, <2>13, <2>14, <2>15, <2>16 DEF Launches
<1>3. ASSUME NEW k \in Server,
             Starts(k) \/ RunForeground(k) \/ Shutdown(k) \/ Crash(k)
      PROVE  Kept(s)'
  <2>1. CASE TestEndpoint(k)
    BY <2>1 DEF TestEndpoint, Moves, Ends, HasListener
  <2>2. CASE RemoveForBind(k)
    BY <2>2 DEF RemoveForBind, Moves, Ends
  <2>3. CASE Bind(k)
    BY <2>3 DEF Bind, Moves, Ends
  <2>4. CASE Publish(k)
    BY <2>4 DEF Publish, Moves
  <2>5. CASE Notify(k)
    BY <2>5 DEF Notify, Moves
  <2>6. CASE Drained(k)
    BY <2>6 DEF Drained, Moves, Ends
  <2>7. CASE RunForeground(k)
    BY <2>7 DEF RunForeground, Moves
  <2>8. CASE Shutdown(k)
    BY <2>8 DEF Shutdown, Moves
  <2>9. CASE Crash(k)
    BY <2>9 DEF Crash, Moves, Ends, Live
  <2>10. CASE Listen(k)
    BY <2>10 DEF Listen, Moves
  <2> QED
    BY <1>3, <2>1, <2>2, <2>3, <2>4, <2>5, <2>6, <2>7, <2>8, <2>9, <2>10 DEF Starts
<1> QED BY <1>1, <1>2, <1>3 DEF Next

(* A server that listens at the endpoint keeps it once nobody is between   *)
(* a test and a removal, whoever starts, cleans up or binds afterwards.    *)
THEOREM ListenerKeepsEndpoint == Spec => ListenerIsKept
<1> SUFFICES ASSUME NEW s \in Server
             PROVE  Spec => [](/\ Listens(s)
                               /\ endpoint = s
                               /\ \A l \in Launcher : launcher[l] # "unlink"
                               /\ \A k \in Server : server[k].step # "unlink"
                               => [](Listens(s) => endpoint = s))
  BY DEF ListenerIsKept
<1> DEFINE P == /\ Listens(s)
                /\ endpoint = s
                /\ \A l \in Launcher : launcher[l] # "unlink"
                /\ \A k \in Server : server[k].step # "unlink"
           Q == Listens(s) => endpoint = s
<1>1. P => Kept(s)
  BY DEF Kept, NobodyRemoves
<1>2. Kept(s) => Q
  BY DEF Kept, Listens
<1>3. StartInv /\ Kept(s) /\ [Next]_vars => Kept(s)'
  BY KeptStep
<1> HIDE DEF P, Q
<1>4. Spec => [](P => []Q)
  BY <1>1, <1>2, <1>3, StartIsInvariant, PTL DEF Spec
<1> QED BY <1>4 DEF P, Q
=============================================================================
