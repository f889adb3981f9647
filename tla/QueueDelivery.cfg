\* One alert, two instances, queues with and without limit and DLQ.
SPECIFICATION FairSpec
CONSTANTS
  i1 = i1
  i2 = i2
  Instances = {i1, i2}
  Owners = {i1}
  Configs <- Several
  MaxJobs = 2
  MaxLives = 1
  Budget = 4
INVARIANTS TypeOK NoJobVanishes RepeatedOnlyForCause StrandedOnlyForCause ResolveFindsReference
PROPERTIES QueueComesToRest
CHECK_DEADLOCK FALSE
