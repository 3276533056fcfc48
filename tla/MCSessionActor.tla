---------------------------- MODULE MCSessionActor ----------------------------
(* Instances of SessionActor for TLC. *)
EXTENDS SessionActor, TLC

CONSTANTS g1, g2, turn, queued

MCGuards == {g1, g2}
MCKinds == {turn, queued}

(* Both guards for queued commands, or one that a model turn holds.        *)
SameKind == (g1 :> queued) @@ (g2 :> queued)
TwoKinds == (g1 :> turn) @@ (g2 :> queued)

(* One guard, for runs about something else.                               *)
OneGuard == {g1}
OneKind == (g1 :> queued)

(* Daemons, and guards of one kind, can be exchanged.                      *)
Exchange == Permutations(Daemon) \union Permutations(MCGuards)

=============================================================================
