\* A keepalive that finds the connection lost.
CONSTANTS
  Attempts = 1
  MaxFaults = 1
SPECIFICATION FairSpec
PROPERTY LossIsRepaired
