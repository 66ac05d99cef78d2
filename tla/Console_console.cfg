SPECIFICATION Spec
CONSTANTS
  Users = {"ann", "oscar"}
  RoleOf <- AdminAndOperator
  NoUser = NoUser
  Tokens = {t1}
  Limit = 2
  Window = 2
  Lifetime = 2
  MaxTime = 2
  r1 = r1
  r2 = r2
  k1 = k1
  h1 = h1
  h2 = h2
  h3 = h3
  env = env
  Handlers = {r1, r2}
  Hosts = {h1, h2, h3}
  ApiHosts = {h1, h2}
  BootHosts = {h1, h2}
  Keys = {k1}
  EnvKey = env
  NoHost = NoHost
  EnvSwitch = TRUE
  NoKey = NoKey
  MaxRequests = 3
  MaxRestarts = 1
  StoreFaults = TRUE
SYMMETRY Handling
INVARIANTS
  LimiterExact
  
  
  

  
CHECK_DEADLOCK FALSE
