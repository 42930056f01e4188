CONSTANTS
  r1 = r1
  r2 = r2
  Runs = {r1, r2}
  Nobody = Nobody
  Foreign = {"200", "2xx", "409", "other"}
  NoFile = NoFile
  Torn = Torn
  Unbound = Unbound
  Starts <- MCStarts
  Absent = Absent
  Ceiling = 6
  Limit = 3
  Payloads <- MCPayloads
  Entries = {"passport_a", "passport_b"}
SPECIFICATION Spec
SYMMETRY Symmetry
INVARIANTS
  VerdictsAreWitnessed
  FinishedRunIsCoherent
  BindingIsConsistent
  InclusionProofsAreSound
  NoVerdictOverclaims
  ChecksTogetherBound
CHECK_DEADLOCK FALSE
