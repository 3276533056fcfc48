--------------------------- MODULE SessionOwnership ---------------------------
(***************************************************************************)
(* What the lease files promise the rest of the program about one session, *)
(* without files or locks: at any moment the session is either free, owned *)
(* by agents of one daemon, or under the maintenance of one agent, and at  *)
(* most one of those agents is writing.                                    *)
(***************************************************************************)
CONSTANTS Agent, Daemon, DaemonOf

VARIABLES
    owners,         \* agents with a registration
    maintainer,     \* the agent doing maintenance, if any
    writer          \* the agent inside a write critical section, if any

ownershipVars == <<owners, maintainer, writer>>

OwnershipInit == owners = {} /\ maintainer = {} /\ writer = {}

(* An agent may join the owners only from the daemon that owns already.    *)
Own(a) ==
    /\ maintainer = {}
    /\ \A b \in owners : DaemonOf[b] = DaemonOf[a]
    /\ owners' = owners \union {a}
    /\ UNCHANGED <<maintainer, writer>>

Disown(a) ==
    /\ a \in owners \ writer
    /\ owners' = owners \ {a}
    /\ UNCHANGED <<maintainer, writer>>

(* Maintenance starts only on a session nobody owns.                       *)
Maintain(a) ==
    /\ owners = {} /\ maintainer = {} /\ writer = {}
    /\ maintainer' = {a}
    /\ UNCHANGED <<owners, writer>>

EndMaintenance(a) ==
    /\ maintainer = {a}
    /\ a \notin writer
    /\ maintainer' = {}
    /\ UNCHANGED <<owners, writer>>

(* The maintainer becomes the owner in one step: nobody gets in between.   *)
HandOver(a) ==
    /\ maintainer = {a} /\ writer = {}
    /\ maintainer' = {}
    /\ owners' = {a}
    /\ UNCHANGED writer

StartWriting(a) ==
    /\ a \in owners \union maintainer
    /\ writer = {}
    /\ writer' = {a}
    /\ UNCHANGED <<owners, maintainer>>

StopWriting(a) ==
    /\ writer = {a}
    /\ writer' = {}
    /\ UNCHANGED <<owners, maintainer>>

(* A daemon dies with everything it held.                                  *)
Vanish(d) ==
    LET crew == {a \in Agent : DaemonOf[a] = d}
    IN  /\ owners' = owners \ crew
        /\ maintainer' = maintainer \ crew
        /\ writer' = writer \ crew

OwnershipNext ==
    \/ \E a \in Agent : \/ Own(a)
                        \/ Disown(a)
                        \/ Maintain(a)
                        \/ EndMaintenance(a)
                        \/ HandOver(a)
                        \/ StartWriting(a)
                        \/ StopWriting(a)
    \/ \E d \in Daemon : Vanish(d)

OwnershipSpec == OwnershipInit /\ [][OwnershipNext]_ownershipVars

=============================================================================
