SPECIFICATION Spec
CONSTANTS
  None = None
  s0 = s0
  s1 = s1
  s2 = s2
  s3 = s3
  k1 = k1
  Submissions = {s0, s1, s2, s3}
  Keys = {k1}
  KeyOf <- OneKeyless
  Decisions <- AllDecisions
  Stamps = {0}
  MaxOpen = 2
  MaxFaults = 1
  Identities <- IdentityNames
  MaxInt = 2
  StaleLimit = 1
SYMMETRY SubmissionSymmetry
INVARIANTS
  TypeOK
  NoSubmissionLost
  LostOnlyByContention
PROPERTY ProgressLostOnlyByStaleMerge
CHECK_DEADLOCK FALSE
