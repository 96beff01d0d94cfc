SPECIFICATION Spec
CONSTANTS
  Chunk <- MCChunk
  Local <- MCLocal
  BaselineName = {"baseline"}
  AgentName = {answer, another}
  Runner = {r1, r2}
  Leftover = {"nothing", "part", "line"}
  MaxMaterials = 2
  MaxAudits = 2
  MaxFailures = 2
SYMMETRY MCSymmetry
INVARIANTS
  IndexesNameStoredData
  HealthyIsReadable
  AuditIsSound
  DoctorPassesWhatStarts
  MaterialsFollowEvents
PROPERTY
  ImplementsCloudArchive
