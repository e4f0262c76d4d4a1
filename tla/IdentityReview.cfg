SPECIFICATION Spec
CONSTANTS
  a1 = a1  a2 = a2  b1 = b1  b2 = b2
  Speakers = {a1, a2, b1, b2}
  EpisodeOf <- MCEpisodeOf
  DiarizationOf <- MCDiarizationOf
  Globals = {g1, g2, g3}
  Reviewers = {v1}
  MaxDecisions = 3
  MaxEdits = 4
  NoGlobal = NoGlobal
SYMMETRY Interchangeable
INVARIANTS TypeOK NoContradiction MembershipIsProjection ActiveGlobalsAreGroups AuditIsComplete
PROPERTIES SupersededIsFinal
