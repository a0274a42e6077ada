SPECIFICATION FairSpec
CONSTANTS
  n1 = n1 k1 = k1 k2 = k2 old = old new = new next = next plugin = plugin
  NoKernel = NoKernel NoPod = NoPod
  Nodes = {n1}
  Kernels = {k1, k2}
  Pods = {old, new}
  NodeOf <- OnN1
  KernelOf <- PodKernels
  InStep = InStep
  NodesLeave = FALSE
  MaxFlips = 2
  MaxFaults = 0
CHECK_DEADLOCK FALSE
PROPERTY LabelFollowsReadiness
