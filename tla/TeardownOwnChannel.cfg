SPECIFICATION FairSpec
CONSTANTS
  Keys = {1}
  Users = {u1}
  Retriers = {r1}
  PageLimit = 1
  InOwnChannel = {1}
  Forbidden = {}
  MaxRequests = 1
  MaxFaults = 1
PROPERTIES
  TeardownCompletes
