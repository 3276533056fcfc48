--------------------------- MODULE MCSessionLease ---------------------------
(***************************************************************************)
(* Small instances of SessionLease: two callers in one daemon and one in   *)
(* another, so that reentrant registrations, a rival daemon and crashes of *)
(* either all happen.                                                      *)
(***************************************************************************)
EXTENDS SessionLease, TLC

CONSTANTS a1, a2, b1, c1, d1, d2, d3, e1

MCAgent == {a1, a2, b1}
MCDaemonOf == (a1 :> d1) @@ (a2 :> d1) @@ (b1 :> d2)
MCEpochOf == (d1 :> e1) @@ (d2 :> e1)

(* A third daemon whose lease context lacks a storage writer epoch.        *)
TrioAgent == {a1, b1, c1}
TrioDaemonOf == (a1 :> d1) @@ (b1 :> d2) @@ (c1 :> d3)
TrioEpochOf == (d1 :> e1) @@ (d2 :> e1) @@ (d3 :> NoEpoch)

(* The names of tokens carry no meaning.                                   *)
TokenSymmetry == Permutations(Token)

=============================================================================
