CONSTANTS
  u1 = u1  u2 = u2  r1 = r1 
  Upload <- TwoUploads
  Reprocess <- OneReprocess
  Mix <- Mixes
  Env <- AllEnv
SPECIFICATION FairSpec
INVARIANTS TypeOK DocumentsHaveTheirFile AllCompletedMeansReady EmbeddedMeansSearchable
PROPERTIES OutcomesStick JobsSettle
CHECK_DEADLOCK FALSE
