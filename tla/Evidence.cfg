SPECIFICATION FairSpec
CONSTANTS
  t1 = t1
  t2 = t2
  Target = {t1, t2}
  Tree <- MCTree
  FirstTree <- MCFirstTree
  Package <- MCPackage
  Depends <- MCDepends
  Content <- MCContent
  Gate <- MCGate
  Rows <- MCRows
  Samples <- MCSamples
  Tool <- MCTool
  Archive <- MCArchive
  FirstTool <- MCFirstTool
  FirstArchive <- MCFirstArchive
  Manual = Manual
  Nothing = Nothing
  MaxRuns = 2
  MaxJobs = 3
  MaxMishaps = 1
INVARIANTS AggregateIsSound HonestIsAccepted
 
CHECK_DEADLOCK FALSE
