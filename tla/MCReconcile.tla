------------------------------ MODULE MCReconcile ------------------------------
(***************************************************************************)
(* One run for the parts of the Plane plugin that read Plane on their own  *)
(* account: the reconcile run over a project, the job that starts it, and  *)
(* the client with the agents' tools.  They share no state: `scene`        *)
(* chooses the one that moves, and the others stay where they start.       *)
(***************************************************************************)
EXTENDS Reconcile, ReconcileJob, PlaneClient

VARIABLE scene

planeVars == <<vars, jobVars, clientVars, scene>>

PlaneInit ==
  /\ Init /\ JobInit /\ ClientInit
  /\ scene \in {"run", "job", "client"}

PlaneNext ==
  /\ \/ scene = "run" /\ Next /\ UNCHANGED <<jobVars, clientVars>>
     \/ scene = "job" /\ JobNext /\ UNCHANGED <<vars, clientVars>>
     \/ scene = "client" /\ ClientNext /\ UNCHANGED <<vars, jobVars>>
  /\ UNCHANGED scene

PlaneSpec == PlaneInit /\ [][PlaneNext]_planeVars /\ WF_vars(scene = "run" /\ RunStep)

\* Type correctness of the component that moves.
PlaneTypeOK ==
  CASE scene = "run"    -> TypeOK
    [] scene = "job"    -> JobTypeOK
    [] scene = "client" -> ClientTypeOK
===============================================================================
