SPECIFICATION FairSpec
CONSTANTS
  Links = {1, 2}
  Port <- MCPort
  Cables = {2}
  Multicast = {2}
  HostCandidates = {2}
  Indices = {1, 2}
  DataPorts = {"27778", "other"}
  MaxFaults = 3
INVARIANTS
  TypeOK
PROPERTIES
  FreshOffer
  FoundInTheEnd
