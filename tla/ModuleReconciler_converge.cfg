SPECIFICATION FairSpec
CONSTANTS
  k1 = k1 k2 = k2 i1 = i1 i2 = i2 i3 = i3 d1 = d1 d2 = d2 keys = keys
  name1 = name1 name2 = name2 n1 = n1 n2 = n2
  Absent = Absent NoSign = NoSign NoKernel = NoKernel
  DevicePluginName = DevicePluginName
  Kernels = {k1, k2}
  Nodes = {n1}
  Names = {name1, name2}
  Images = {i1, i2, i3}
  Dockerfiles = {d1, d2}
  SignConfigs = {keys}
  Specs <- AllSpecs
  InitSpecs <- OnlyBuildAndSign
  Prebuilt <- UserImages
  Lagging = {"module", "nodes"}
  JobsMayFail = FALSE
  PodsReport = TRUE
  NodesChange = TRUE
  MaxChanges = 1
  MaxFaults = 0
CHECK_DEADLOCK FALSE
PROPERTIES Converges StatusConverges NothingLeftBehind
