SPECIFICATION CompositeSpec
CONSTANTS
  h1 = h1
  h2 = h2
  Hosts = {h1, h2}
  Login = login
  root = root
  Keys = {login, root}
  Rank <- MCRank
  Nobody = nobody
  MaxOps = 2
  Unseen = unseen
  Plans <- MCPlans
INVARIANTS PoolSafe BodiesTrue
PROPERTIES KillFinal PoolRespected KeyKept Progress
CHECK_DEADLOCK FALSE
