SPECIFICATION Spec
CONSTANTS
  Submissions <- MCSubmissions
  bad_step = bad_step
  BadStep = bad_step
  Width = 3
  Height = 2
  Box = 2
INVARIANTS
  RegionsConfine
\* The job is done, failed or refused: nothing is left to do.
CHECK_DEADLOCK FALSE
