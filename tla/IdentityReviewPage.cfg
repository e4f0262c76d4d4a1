SPECIFICATION Spec
CONSTANTS
  a1 = a1  a2 = a2  b1 = b1  b2 = b2
  Speakers = {a1, a2, b1, b2}
  EpisodeOf <- MCEpisodeOf
  DiarizationOf <- MCDiarizationOf
  Globals = {g1, g2, g3}
  Reviewers = {v1, v2}
  MaxDecisions = 2
  MaxEdits = 3
  NoGlobal = NoGlobal
SYMMETRY Interchangeable
PROPERTIES EditsSeeCurrentRows
