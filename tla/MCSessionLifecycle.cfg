SPECIFICATION Spec
CONSTANTS
  Session = {s1, s2}
  NoSession = NoSession
  NoEvent = NoEvent
  MaxFailures = 1
SYMMETRY MCSymmetry
VIEW MCView
INVARIANTS
  OtherEventsAccepted
  RecordingHasOwner
  DeadCaptionerIsKnown
PROPERTY
  ImplementsCaptureSession
