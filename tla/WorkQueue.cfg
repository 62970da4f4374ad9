\* Two jobs with the five attempts of the code, two workers.
SPECIFICATION FairSpec
CONSTANTS
  Jobs = {j1, j2}
  Workers = {w1, w2}
  MaxAttempts = 5
PROPERTIES
  JobsSettle
