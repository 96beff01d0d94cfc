SPECIFICATION FairSpec
CONSTANTS
  Payload <- MCPayload
  AudioPayload <- MCAudioPayload
  Refused <- MCRefused
  NoEvent = NoEvent
  MaxEvents = 3
  MaxFailures = 2
INVARIANTS
  DeviceKeepsItsEvents
  ReceiverFollowsDevice
PROPERTIES
  ImplementsReplicatedLog
  EventuallySynced
