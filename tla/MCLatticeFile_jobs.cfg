\* Machines that lose writes and jobs (with an MPI that buffers), and machines
\* without failures, with an MPI that buffers and with one that does not.
SPECIFICATION FairSpec
CONSTANTS
  Volume = 6
  Nx = 2
  MaxBufLength = 3
  LoadBlock = 2
  Words = 2
  Moduli = {2, 3}
  Layouts <- SixSites
  Saves = {"serial", "parallel", "checkpoint"}
  Loads = {"serial", "parallel"}
  Machines <- ThreeMachines
INVARIANTS SavedAndRestored ChecksumTells TrafficRight
PROPERTY Ends
CHECK_DEADLOCK FALSE
