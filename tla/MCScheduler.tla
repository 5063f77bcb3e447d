---------------------------- MODULE MCScheduler ----------------------------
(* Two names that share a tenant, with rules on a tenant's control value. *)
EXTENDS SchedulerProps, TLC

CONSTANTS j1, j2, j3, ingest, report, t1, t2, prod, t1_prod, t1_env, t2_prod, t2_env

MCNameOf == j1 :> ingest @@ j2 :> ingest @@ j3 :> report
MCTenantOf == j1 :> t1 @@ j2 :> t2 @@ j3 :> t2
MCEnvOf == [j \in Job |-> prod]
MCJoined == t1 :> (prod :> t1_prod @@ "$env" :> t1_env)
         @@ t2 :> (prod :> t2_prod @@ "$env" :> t2_env)
MCRules == ingest :> [x \in {"$jobName", "$tenant"} |-> IF x = "$tenant" THEN 1 ELSE 2]
        @@ report :> [x \in {"$jobName", "$tenant", "$tenant_$env"} |-> 1]
=============================================================================
