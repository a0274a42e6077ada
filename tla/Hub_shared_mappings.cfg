SPECIFICATION Spec
CONSTANTS
  k1 = k1 k2 = k2 i1 = i1 i2 = i2 d1 = d1 d2 = d2 keys = keys
  c1 = c1 c2 = c2 n1 = n1 b1 = b1 b2 = b2
  Absent = Absent NoSign = NoSign NoKernel = NoKernel
  DevicePluginName = DevicePluginName
  Kernels = {k1, k2}
  Nodes = {n1}
  Names = {b1, b2}
  Images = {i1, i2}
  Dockerfiles = {d1, d2}
  SignConfigs = {keys}
  Specs <- AllSpecs
  Clusters = {c1, c2}
  InitSpecs <- StartBuilt
  InitRuns <- OwnKernels
  NodeKernels <- Upgraded
  Joining = {}
  Prebuilt <- UserImages
  MappingLevel = TRUE
  Lagging = {}
  MaxChanges = 0
  MaxFaults = 0
CHECK_DEADLOCK FALSE
PROPERTY ManifestWorkAfterImages
