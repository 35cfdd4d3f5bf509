SPECIFICATION FairSpec
CONSTANTS
  Links = {1, 2}
  Port <- MCTwoAdapters
  Cables = {2}
  Multicast = {2}
  HostCandidates = {2}
  Indices = {1, 2}
  DataPorts = {"27778"}
  MaxFaults = 1
PROPERTIES
  EveryReadyProbed
