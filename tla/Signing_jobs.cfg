SPECIFICATION FairSpec
CONSTANTS
  aRel = aRel aAbs = aAbs bRel = bRel bAbs = bAbs v1 = v1 v2 = v2
  srcImage = srcImage dstImage = dstImage quay = quay private = private
  user = user builder = builder m1 = m1 m2 = m2
  r1 = r1 r2 = r2 r3 = r3
  NoEntry = NoEntry Whiteout = Whiteout NoImage = NoImage NotFound = NotFound
  NoCred = NoCred Anonymous = Anonymous Malformed = Malformed
  NoMod = NoMod NoCM = NoCM NoJob = NoJob NoSection = NoSection
  Files = {aRel, aAbs, bRel, bAbs}
  Canon <- CanonPaths
  Versions = {v1, v2}
  Runs = {r1, r2}
  ImageNames = {srcImage, dstImage}
  KoFiles <- KoPaths
  Secrets <- MountedSecrets
  Hosts = {quay, private}
  HostOf <- HostNames
  PullBy <- Pull
  PushBy <- Push
  Creds = {user, builder}
  BrokenReads = FALSE
  MaxFaults = 1
  Mods = {m1, m2}
  MaxCMs = 6
  CacheLags = FALSE
  MaxChanges = 1
  MaxErrors = 1
  Signer = m1
  ModuleSigns <- OneFile
  MappingSigns <- OneMore
  Target = dstImage
  SourceImages <- TwoBuilds
  InitImages <- OneBuild
  MaxFailures = 1
  ModulePath = aRel
CHECK_DEADLOCK FALSE
INVARIANTS TypeOK OneConfigMapPerType SignedIsWhatRuns SignedBeforeDeployed SignedKeepsVerdict
PROPERTIES MountedConfigMapsStay SignedInTheEnd
