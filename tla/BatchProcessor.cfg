\* Slices of 0 to 7 items, batches of two, two at a time, context cancelled at
\* any point or not.
SPECIFICATION Spec
CONSTANTS
  BatchSize = 2
  MaxConcurrentBatches = 2
  MaxItems = 7
  Cancels = TRUE
INVARIANTS
  TypeOK
  EachItemAtMostOnce
  NilMeansAll
  NeverOverloaded
  ErrorsFit
  NoSendAfterClose
PROPERTIES
  WorksAsForEach
  Returns
