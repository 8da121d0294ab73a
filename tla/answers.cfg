SPECIFICATION FairSpec
INVARIANTS
  AnswersInv
  AtomicAnswer
  RefusalChangesNothing
  BusyMeansRetry
PROPERTIES
  AbandonedRequestsEnd
