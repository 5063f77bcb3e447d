SPECIFICATION Spec
CONSTANTS
  j1 = j1
  j2 = j2
  j3 = j3
  ingest = ingest
  report = report
  t1 = t1
  t2 = t2
  prod = prod
  t1_prod = t1_prod
  t1_env = t1_env
  t2_prod = t2_prod
  t2_env = t2_env
  JoinedKey = {t1_prod, t1_env, t2_prod, t2_env}
  Joined <- MCJoined
  Job = {j1, j2, j3}
  JobName = {ingest, report}
  Tenant = {t1, t2}
  Env = {prod}
  NameOf <- MCNameOf
  TenantOf <- MCTenantOf
  EnvOf <- MCEnvOf
  Rules <- MCRules
  Indexed = {j1, j2, j3}
  PoolSize = 2
  MaxDisturbances = 2
  None = None
INVARIANTS TypeOK NeverUndercounted
PROPERTY AdmitsWithinLimit
CHECK_DEADLOCK FALSE
