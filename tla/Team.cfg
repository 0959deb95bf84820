SPECIFICATION FairSpec
CONSTANTS
  h1 = h1
  h2 = h2
  t1 = t1
  m1 = m1
  Host = {h1, h2}
  Opening = {h1}
  Task = {t1}
  Member = {m1}
  MemberOf <- MCMemberOf
  PerScope = {m1}
  MaxActive <- MCMaxActive
  MaxTasks = 2
  MaxActiveTasks = 2
  MaxAgentMessages = 1
  Depth = 1
  Scenes <- MCScenes
CHECK_DEADLOCK FALSE
INVARIANTS    ReplayMarked
 
