\* The docstring of reap_stuck_jobs against what the loop does.
SPECIFICATION Spec
CONSTANTS
  Jobs = {j1}
  Tasks = {t1, t2}
  Requests = {h1}
  Sweepers = {s1}
  NoJob = NoJob
  NoOne = NoOne
  MaxAttempts = 2
  MaxRuns = 1
  MaxCrashes = 1
PROPERTY SweeperSparesAnnouncedJobs
