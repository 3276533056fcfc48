---------------------------- MODULE MCWorkflowRun ----------------------------
(***************************************************************************)
(* Instances of WorkflowRun.  Daemon d1 starts the run; d2 has the same    *)
(* artifact, d3 another one.                                               *)
(***************************************************************************)
EXTENDS WorkflowRun, TLC

CONSTANTS d1, d2, d3, x, y, m, n

Activations == Permutations({m, n})

OneDaemon == (d1 :> x)
TwoArtifacts == (d1 :> x @@ d3 :> y)
ThreeDaemons == (d1 :> x @@ d2 :> x @@ d3 :> y)

(* The worlds of one activation: a mutating one that is retried and handed *)
(* through daemons of two artifacts; a read-only one, which is dispatched  *)
(* again under its identity; and owners that are wrongly taken for ended.  *)
Worlds ==
    {[readOnly |-> {}, sound |-> TRUE, retries |-> 1, daemons |-> {d1, d2, d3}],
     [readOnly |-> {m}, sound |-> TRUE, retries |-> 0, daemons |-> {d1, d2, d3}],
     [readOnly |-> {}, sound |-> FALSE, retries |-> 1, daemons |-> {d1, d3}]}

Plain == {[readOnly |-> {}, sound |-> TRUE, retries |-> 0, daemons |-> {d1}]}

PlainReadOnly == {[readOnly |-> {m}, sound |-> TRUE, retries |-> 0, daemons |-> {d1, d3}]}
=============================================================================
