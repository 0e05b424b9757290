SPECIFICATION Spec
CONSTANTS
  N = 2
  MaxRuns = 2
  Joins = FALSE
INVARIANTS
  DrainingMeansStopped
  OneLaunchAfterStop
  ExhaustedMeansScanned
  PrintedKeyMeansFound
  CounterCountsWorkers
  BuffersOutliveWorkers
PROPERTIES
  ImplementsSearch
  Terminates
