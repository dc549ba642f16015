CONSTANTS
  Calls = {c1, c2}
  NoData = NoData
  RetryAttempts = 3
  VolumeThreshold = 2
  ErrorThreshold = 50
  MaxFires = 3
SPECIFICATION Spec
INVARIANT ServerErrorsAreRetried
