SPECIFICATION Spec
CONSTANTS
  Fps = 8
  Rtts <- MCRtts
INVARIANTS
  EstimatorInRange
PROPERTY
  TracksTheRoundTrip
