SPECIFICATION FairSpec
CONSTANTS
  k1 = k1 k2 = k2 i1 = i1 i2 = i2 i3 = i3 d1 = d1 d2 = d2 keys = keys
  m1 = m1 m2 = m2 n1 = n1 name1 = name1 rhel = rhel rhcos = rhcos
  releaseDTK = releaseDTK streamDTK = streamDTK
  Absent = Absent NoSign = NoSign NoKernel = NoKernel
  DevicePluginName = DevicePluginName
  Kernels = {k1, k2}
  Nodes = {n1}
  Names = {name1}
  Images = {i1, i2, i3}
  Dockerfiles = {d1, d2}
  SignConfigs = {keys}
  Specs <- BuiltOnly
  Mods = {m1}
  InitMods <- BuiltModule
  InitPush = {FALSE}
  ReleaseKernel = k1
  ReleaseRTKernel = Absent
  ReleaseOS = rhel NodeOS = rhcos ReleaseDTK = releaseDTK StreamDTK = streamDTK
  DTKDockerfiles = {d1}
  StaleReads = {"builds", "completion"}
  EditedMods = {m1}
  MaxChanges = 1
  MaxFaults = 0
CHECK_DEADLOCK FALSE
PROPERTY ValidatedInTheEnd
