\* Two runs of five sets of checks on one file of two texts.
CONSTANTS
  t1 = t1
  t2 = t2
  Texts = {t1, t2}
  Settings <- MCSettings
  MaxRuns = 2
SPECIFICATION Spec
INVARIANTS ReportExact ExitHonest CacheComplete
SYMMETRY MCSymmetry
