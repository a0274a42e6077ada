----------------------------- MODULE HubProofs -----------------------------
(***************************************************************************)
(* Proofs about Hub for any clusters, kernels and specs, whatever the       *)
(* caches' lag and however many edits, failures and crashes happen.         *)
(***************************************************************************)
EXTENDS Hub, WorkloadsProofs

-----------------------------------------------------------------------------
(* Types.                                                                   *)

\* The Builds and the Jobs of the hub always push their image.
HubBuild == {x \in Build : x.output \in ImageRef}
HubJob == {x \in SignJob : x.hash[3] \in ImageRef}

Objects ==
    [mcm : ManagedClusterModule \cup {Absent}, clusters : [Clusters -> ManagedCluster],
     works : [Clusters -> ManifestWork \cup {Absent}],
     builds : [Names -> HubBuild \cup {Absent}], jobs : [Names -> HubJob \cup {Absent}]]

\* The steps at which a cluster is being handled, and those about one kernel.
Handling == {"build", "buildSync", "sign", "signSync", "work"}
OnKernel == {"buildSync", "sign", "signSync"}

ObjectsTyped ==
    /\ api \in Objects /\ cache \in Objects
    /\ runs \in [Clusters -> SUBSET Kernels] /\ registry \subseteq ImageRef
    /\ queued \in BOOLEAN
    /\ changes \in 0..MaxChanges /\ faults \in 0..MaxFaults

\* A cluster is handled only if it was listed, and a kernel is built or signed only if
\* the mapping says so.
LoopTyped ==
    /\ pc \in PCs /\ stripped \in BOOLEAN /\ ok \in BOOLEAN
    /\ mcm \in ManagedClusterModule \cup {Absent}
    /\ pc # "idle" => mcm \in ManagedClusterModule
    /\ selected \in [Clusters -> ManagedCluster \cup {Absent}]
    /\ clusters \subseteq {c \in Clusters : selected[c] \in ManagedCluster}
    /\ cluster \in Clusters \cup {Absent} /\ doomed \subseteq Clusters
    /\ pc \in Handling => /\ cluster \in Clusters /\ selected[cluster] \in ManagedCluster
                          /\ selected[cluster].claim \in SUBSET Kernels
    /\ kernels \subseteq Kernels /\ cur \in DSKernels
    /\ pc \in OnKernel => cur \in Kernels
    /\ pc = "buildSync" => ShouldBeBuilt(SpecNow)
    /\ pc = "signSync" => ShouldBeSigned(SpecNow)

TypeInv == ObjectsTyped /\ LoopTyped

\* The objects the API server holds after one of them was written.
WithMCM(o, x) == [o EXCEPT !.mcm = x]
WithCluster(o, c, x) == [o EXCEPT !.clusters[c] = x]
WithWork(o, c, x) == [o EXCEPT !.works[c] = x]
WithBuild(o, n, x) == [o EXCEPT !.builds[n] = x]
WithJob(o, n, x) == [o EXCEPT !.jobs[n] = x]

\* Every object may be written with something of its kind.
LEMMA ObjectWritten ==
  ASSUME NEW o \in Objects
  PROVE  /\ \A x \in ManagedClusterModule \cup {Absent} : WithMCM(o, x) \in Objects
         /\ \A c : \A x \in ManagedCluster : WithCluster(o, c, x) \in Objects
         /\ \A c : \A x \in ManifestWork \cup {Absent} : WithWork(o, c, x) \in Objects
         /\ \A n : \A x \in HubBuild \cup {Absent} : WithBuild(o, n, x) \in Objects
         /\ \A n : \A x \in HubJob \cup {Absent} : WithJob(o, n, x) \in Objects
<1>1. \A x \in ManagedClusterModule \cup {Absent} : WithMCM(o, x) \in Objects
  BY DEF Objects, WithMCM
<1>2. \A c : \A x \in ManagedCluster : WithCluster(o, c, x) \in Objects
  BY DEF Objects, WithCluster
<1>3. \A c : \A x \in ManifestWork \cup {Absent} : WithWork(o, c, x) \in Objects
  BY DEF Objects, WithWork
<1>4. \A n : \A x \in HubBuild \cup {Absent} : WithBuild(o, n, x) \in Objects
  BY DEF Objects, WithBuild
<1>5. \A n : \A x \in HubJob \cup {Absent} : WithJob(o, n, x) \in Objects
  BY DEF Objects, WithJob
<1> QED
  BY <1>1, <1>2, <1>3, <1>4, <1>5

\* The bounds on faults and changes are kept.
LEMMA FaultTyped ==
  ASSUME faults \in 0..MaxFaults, Fault
  PROVE  faults' \in 0..MaxFaults
BY HubAssumption DEF Fault

\* The same of changes.
LEMMA ChangeTyped ==
  ASSUME changes \in 0..MaxChanges, Change
  PROVE  changes' \in 0..MaxChanges
BY HubAssumption DEF Change

\* The spec as BuildAndSign sees it: whatever it builds or signs is the user's.
LEMMA SpecNowTyped ==
  ASSUME mcm \in ManagedClusterModule, stripped \in BOOLEAN
  PROVE  /\ mcm.spec \in Specs /\ mcm.spec.kernels \subseteq Kernels
         /\ SpecNow.kernels = mcm.spec.kernels
         /\ ShouldBeBuilt(SpecNow) \/ ShouldBeSigned(SpecNow) => SpecNow = mcm.spec
         /\ ~ MappingLevel => SpecNow = mcm.spec
<1>1. mcm.spec \in Specs /\ mcm.spec \in ModuleSpec
  BY ModuleDataAssumption DEF ManagedClusterModule
<1>2. mcm.spec.kernels \subseteq Kernels
  BY <1>1 DEF ModuleSpec
<1> DEFINE s == [mcm.spec EXCEPT !.build = FALSE, !.sign = NoSign]
<1>3. s.kernels = mcm.spec.kernels /\ s.build = FALSE /\ s.sign = NoSign
  BY <1>1 DEF ModuleSpec
<1>4. SpecNow = IF MappingLevel /\ stripped THEN s ELSE mcm.spec
  BY DEF SpecNow
<1> HIDE DEF s
<1> QED
  BY <1>1, <1>2, <1>3, <1>4 DEF ShouldBeBuilt, ShouldBeSigned

\* A step of the reconciliation that writes at most one object.
LEMMA StepObjects ==
  ASSUME ObjectsTyped, UNCHANGED unchangedByStep, api' \in Objects,
         queued' \in BOOLEAN, faults' = faults \/ Fault
  PROVE  ObjectsTyped'
BY FaultTyped DEF ObjectsTyped, unchangedByStep

\* A reconciliation that returns leaves nothing behind.
LEMMA ReturnTyped ==
  ASSUME pc' = "idle", IdleLocals
  PROVE  LoopTyped'
BY DEF LoopTyped, IdleLocals, PCs, Handling, OnKernel, DSKernels

\* The loop goes on with the next cluster.
LEMMA NextClusterTyped ==
  ASSUME LoopTyped, NextCluster, pc # "idle", stripped' \in BOOLEAN,
         UNCHANGED <<mcm, selected, clusters, doomed>>
  PROVE  LoopTyped'
BY DEF LoopTyped, NextCluster, PCs, Handling, OnKernel, DSKernels

\* What follows from a Sync.
LEMMA AfterSyncTyped ==
  ASSUME LoopTyped, pc \in {"buildSync", "signSync"}, NEW result,
         NEW next \in {"sign", "build"}, AfterSync(result, next)
  PROVE  LoopTyped' /\ queued' = queued
<1>0. UNCHANGED <<queued, mcm, stripped, selected, clusters, doomed>>
  BY DEF AfterSync
<1>1. CASE NextCluster
  BY <1>0, <1>1, NextClusterTyped DEF LoopTyped
<1>2. CASE ~ NextCluster
  <2>1. /\ pc' \in {"sign", "build"} /\ ok' = (ok /\ result = "completed")
        /\ UNCHANGED <<cluster, kernels, cur>>
    BY <1>2 DEF AfterSync
  <2>2. ok' \in BOOLEAN
    BY <2>1
  <2> QED
    BY <1>0, <2>1, <2>2 DEF LoopTyped, PCs, Handling, OnKernel
<1> QED
  BY <1>1, <1>2

\* What CreateOrPatch writes: the Module's image into the cluster's ManifestWork.
LEMMA WorkStep ==
  ASSUME TypeInv, CreateOrPatchManifestWork
  PROVE  \/ api' = api
         \/ \E x \in ManifestWork : /\ x.image = mcm.spec.image
                                    /\ api' = WithWork(api, cluster, x)
<1>0. /\ cluster \in Clusters /\ mcm \in ManagedClusterModule /\ api \in Objects
  BY DEF TypeInv, ObjectsTyped, LoopTyped, CreateOrPatchManifestWork, At, Handling
<1>1. mcm.spec.image \in Images
  BY <1>0, ModuleDataAssumption DEF ManagedClusterModule, ModuleSpec
<1> DEFINE read == cache.works[cluster]
           now  == api.works[cluster]
           new  == [image |-> mcm.spec.image, conditions |-> {}]
           old  == [now EXCEPT !.image = mcm.spec.image]
<1>2. \/ api' = api
      \/ api' = WithWork(api, cluster, new)
      \/ now # Absent /\ api' = WithWork(api, cluster, old)
  <2>1. api' = CASE read = Absent /\ now = Absent ->
                         [api EXCEPT !.works[cluster] = [image |-> mcm.spec.image,
                                                         conditions |-> {}]]
                    [] read # Absent /\ now # Absent ->
                         IF read.image = mcm.spec.image THEN api
                         ELSE [api EXCEPT !.works[cluster].image = mcm.spec.image]
                    [] OTHER -> api
    BY DEF CreateOrPatchManifestWork
  <2>2. CASE read = Absent /\ now = Absent
    BY <2>1, <2>2 DEF WithWork
  <2>3. CASE read # Absent /\ now # Absent
    BY <2>1, <2>3 DEF WithWork
  <2>4. CASE ~ (read = Absent /\ now = Absent) /\ ~ (read # Absent /\ now # Absent)
    BY <2>1, <2>4
  <2> QED
    BY <2>2, <2>3, <2>4
<1>3. new \in ManifestWork /\ new.image = mcm.spec.image
  BY <1>1 DEF ManifestWork
<1>4. now # Absent => old \in ManifestWork /\ old.image = mcm.spec.image
  BY <1>0, <1>1 DEF Objects, ManifestWork
<1> HIDE DEF new, old
<1> QED
  BY <1>2, <1>3, <1>4

\* What the status counts are numbers, and the patch mixes old and new ones.
LEMMA StatusWritten ==
  ASSUME TypeInv, ManagedClusterModuleUpdateStatus
  PROVE  api' \in Objects
<1>0. api \in Objects /\ cache \in Objects
  BY DEF TypeInv, ObjectsTyped
<1> DEFINE works == cache.works
           new == DesiredHubStatus(works)
           st == [f \in DOMAIN new |-> IF new[f] # mcm.status[f]
                                       THEN new[f] ELSE api.mcm.status[f]]
<1>1. api' = api \/ (api.mcm # Absent /\ api' = WithMCM(api, [api.mcm EXCEPT !.status = st]))
  BY DEF ManagedClusterModuleUpdateStatus, WithMCM
<1>2. \A type : Existing(works) \in SUBSET Clusters
                /\ HavingCondition(works, type) \in SUBSET Clusters
  BY <1>0 DEF Existing, HavingCondition, Objects
<1>3. \A S \in SUBSET Clusters : Cardinality(S) \in Nat
  BY FS_Subset, FS_CardinalityType, HubAssumption
<1> HIDE DEF works
<1>4. new \in HubStatus
  BY <1>2, <1>3 DEF DesiredHubStatus, HubStatus
<1>5. DOMAIN new = {"desired", "applied", "degraded"}
  BY DEF DesiredHubStatus
<1> HIDE DEF new
<1>6. ASSUME api.mcm # Absent
      PROVE  [api.mcm EXCEPT !.status = st] \in ManagedClusterModule
  <2>1. api.mcm \in ManagedClusterModule
    BY <1>0, <1>6 DEF Objects
  <2>2. \A f \in DOMAIN new : st[f] \in Nat
    BY <1>4, <1>5, <2>1 DEF HubStatus, ManagedClusterModule
  <2>3. st = [desired |-> st.desired, applied |-> st.applied, degraded |-> st.degraded]
    BY <1>5
  <2>4. st \in HubStatus
    BY <1>5, <2>2, <2>3 DEF HubStatus
  <2> HIDE DEF st
  <2> QED
    BY <2>1, <2>4 DEF ManagedClusterModule
<1> HIDE DEF st
<1> QED
  BY <1>0, <1>1, <1>6, ObjectWritten

\* What the managers create pushes its image.
LEMMA CreatedTyped ==
  ASSUME NEW s \in Specs, NEW k \in Kernels
  PROVE  /\ MakeBuildTemplate(s, k, TRUE) \in HubBuild
         /\ ShouldBeSigned(s) => MakeJobTemplate(s, k, TRUE) \in HubJob
<1>1. /\ MakeBuildTemplate(s, k, TRUE) \in Build
      /\ ShouldBeSigned(s) => MakeJobTemplate(s, k, TRUE) \in SignJob
  BY TemplatesTyped
<1>2. /\ MakeBuildTemplate(s, k, TRUE).output = BuildTarget(s, k)
      /\ MakeJobTemplate(s, k, TRUE).hash[3] = ContainerImage(s, k)
  BY DEF MakeBuildTemplate, MakeJobTemplate
<1>3. BuildTarget(s, k) \in ImageRef /\ ContainerImage(s, k) \in ImageRef
  BY ImagesTyped
<1> QED
  BY <1>1, <1>2, <1>3 DEF HubBuild, HubJob

\* The reconciliation starts, and takes the next cluster and the next kernel.
LEMMA LoopsTyped ==
  ASSUME TypeInv,
         \/ GetRequested \/ SignKernel \/ BuildAndSignReturns \/ ListManifestWorks
         \/ \E c \in Clusters : StartCluster(c)
         \/ \E k \in Kernels : BuildKernel(k)
  PROVE  TypeInv'
<1>0. ObjectsTyped /\ LoopTyped
  BY DEF TypeInv
<1>1. CASE GetRequested
  <2>1. UNCHANGED <<api, faults>> /\ UNCHANGED unchangedByStep /\ queued' = FALSE
    BY <1>1 DEF GetRequested
  <2>2. ObjectsTyped'
    BY <1>0, <2>1, StepObjects DEF ObjectsTyped
  <2>3. CASE cache.mcm = Absent
    <3>1. UNCHANGED <<pc, locals>>
      BY <1>1, <2>3 DEF GetRequested
    <3>2. LoopTyped'
      BY <1>0, <3>1 DEF LoopTyped, locals, SpecNow
    <3> QED
      BY <2>2, <3>2 DEF TypeInv
  <2>4. CASE cache.mcm # Absent
    <3> DEFINE found == {c \in Clusters : cache.clusters[c].selected}
    <3>1. /\ mcm' = cache.mcm /\ clusters' = found /\ pc' = "clusters"
          /\ selected' = [c \in Clusters |->
                             IF c \in found THEN cache.clusters[c] ELSE Absent]
          /\ UNCHANGED <<stripped, cluster, kernels, cur, ok, doomed>>
      BY <1>1, <2>4 DEF GetRequested
    <3>2. cache.mcm \in ManagedClusterModule /\ cache.clusters \in [Clusters -> ManagedCluster]
      BY <1>0, <2>4 DEF ObjectsTyped, Objects
    <3>3. \A c \in found : cache.clusters[c] \in ManagedCluster
      BY <3>2
    <3>4. found \subseteq Clusters
      OBVIOUS
    <3> HIDE DEF found
    <3>5. /\ selected' \in [Clusters -> ManagedCluster \cup {Absent}]
          /\ clusters' \subseteq {c \in Clusters : selected'[c] \in ManagedCluster}
      BY <3>1, <3>3, <3>4
    <3>6. LoopTyped'
      BY <1>0, <3>1, <3>2, <3>5 DEF LoopTyped, PCs, Handling, OnKernel
    <3> QED
      BY <2>2, <3>6 DEF TypeInv
  <2> QED
    BY <2>3, <2>4
<1>2. CASE SignKernel
  <2>1. /\ UNCHANGED <<api, queued, locals, faults>> /\ UNCHANGED unchangedByStep
        /\ pc = "sign" /\ pc' \in {"signSync", "build"}
        /\ pc' = "signSync" => ShouldBeSigned(SpecNow)
    BY <1>2 DEF SignKernel, At, SignShouldSync
  <2>2. ObjectsTyped'
    BY <1>0, <2>1, StepObjects DEF ObjectsTyped
  <2>3. SpecNow' = SpecNow
    BY <2>1 DEF SpecNow, locals
  <2>4. LoopTyped'
    BY <1>0, <2>1, <2>3 DEF LoopTyped, locals, PCs, Handling, OnKernel, ShouldBeSigned
  <2> QED
    BY <2>2, <2>4 DEF TypeInv
<1>3. CASE BuildAndSignReturns
  <2>1. /\ UNCHANGED <<api, queued, mcm, stripped, selected, clusters, doomed, faults>>
        /\ UNCHANGED unchangedByStep /\ pc = "build"
        /\ NextCluster \/ (pc' = "work" /\ UNCHANGED <<cluster, kernels, cur, ok>>)
    BY <1>3 DEF BuildAndSignReturns, At
  <2>2. ObjectsTyped'
    BY <1>0, <2>1, StepObjects DEF ObjectsTyped
  <2>3. CASE NextCluster
    BY <1>0, <2>1, <2>2, <2>3, NextClusterTyped DEF TypeInv, LoopTyped
  <2>4. CASE pc' = "work" /\ UNCHANGED <<cluster, kernels, cur, ok>>
    <3>1. LoopTyped'
      BY <1>0, <2>1, <2>4 DEF LoopTyped, PCs, Handling, OnKernel
    <3> QED
      BY <2>2, <3>1 DEF TypeInv
  <2> QED
    BY <2>1, <2>3, <2>4
<1>4. CASE ListManifestWorks
  <2>1. /\ UNCHANGED <<api, queued, mcm, stripped, selected, clusters, cluster, kernels,
                       cur, ok, faults>>
        /\ UNCHANGED unchangedByStep /\ pc = "clusters" /\ pc' = "gc"
        /\ doomed' \subseteq Clusters
    BY <1>4 DEF ListManifestWorks, At, UnselectedWorks
  <2>2. ObjectsTyped'
    BY <1>0, <2>1, StepObjects DEF ObjectsTyped
  <2>3. LoopTyped'
    BY <1>0, <2>1 DEF LoopTyped, PCs, Handling, OnKernel
  <2> QED
    BY <2>2, <2>3 DEF TypeInv
<1>5. CASE \E c \in Clusters : StartCluster(c)
  <2> PICK c \in Clusters : StartCluster(c)
    BY <1>5
  <2> DEFINE claim == selected[c].claim
             ks == IF claim = Absent THEN {}
                   ELSE kernelMappingsByKernelVersion(SpecNow, claim)
  <2>1. /\ UNCHANGED <<api, queued, mcm, stripped, selected, cur, doomed, faults>>
        /\ UNCHANGED unchangedByStep /\ pc = "clusters" /\ c \in clusters
        /\ clusters' = clusters \ {c}
        /\ \/ UNCHANGED <<pc, cluster, kernels, ok>>
           \/ ks # {} /\ cluster' = c /\ kernels' = ks /\ ok' = TRUE /\ pc' = "build"
    BY DEF StartCluster, At
  <2>2. ObjectsTyped'
    BY <1>0, <2>1, StepObjects DEF ObjectsTyped
  <2>3. selected[c] \in ManagedCluster /\ (claim # Absent => claim \in SUBSET Kernels)
    <3>1. selected[c] \in ManagedCluster
      BY <1>0, <2>1 DEF LoopTyped
    <3> QED
      BY <3>1 DEF ManagedCluster
  <2>4. ks \subseteq Kernels /\ (ks # {} => claim # Absent)
    BY <2>3 DEF kernelMappingsByKernelVersion
  <2> HIDE DEF ks
  <2>5. LoopTyped'
    BY <1>0, <2>1, <2>3, <2>4 DEF LoopTyped, PCs, Handling, OnKernel
  <2> QED
    BY <2>2, <2>5 DEF TypeInv
<1>6. CASE \E k \in Kernels : BuildKernel(k)
  <2> PICK k \in Kernels : BuildKernel(k)
    BY <1>6
  <2>1. /\ UNCHANGED <<api, queued, mcm, stripped, selected, clusters, cluster, ok, doomed,
                       faults>>
        /\ UNCHANGED unchangedByStep /\ pc = "build" /\ pc' \in {"buildSync", "sign"}
        /\ kernels' = kernels \ {k} /\ cur' = k
        /\ pc' = "buildSync" => ShouldBeBuilt(SpecNow)
    BY DEF BuildKernel, At, BuildShouldSync
  <2>2. ObjectsTyped'
    BY <1>0, <2>1, StepObjects DEF ObjectsTyped
  <2>3. SpecNow' = SpecNow
    BY <2>1 DEF SpecNow
  <2>4. LoopTyped'
    BY <1>0, <2>1, <2>3 DEF LoopTyped, PCs, Handling, OnKernel, DSKernels, ShouldBeBuilt
  <2> QED
    BY <2>2, <2>4 DEF TypeInv
<1> QED
  BY <1>1, <1>2, <1>3, <1>4, <1>5, <1>6

\* What a Sync writes: the Build or the Job of the Module for this kernel, or the
\* deletion of one.
LEMMA SyncWrites ==
  ASSUME TypeInv
  PROVE  /\ SyncBuild => \/ api' = api
                         \/ \E n \in Names : \/ api' = WithBuild(api, n, Absent)
                                             \/ api' = WithBuild(api, n,
                                                   MakeBuildTemplate(mcm.spec, cur, TRUE))
         /\ SyncSign => \/ api' = api
                        \/ \E n \in Names : \/ api' = WithJob(api, n, Absent)
                                            \/ api' = WithJob(api, n,
                                                  MakeJobTemplate(mcm.spec, cur, TRUE))
<1>0. LoopTyped /\ api \in Objects /\ cache \in Objects
  BY DEF TypeInv, ObjectsTyped
<1>1. DOMAIN cache.builds = Names /\ DOMAIN cache.jobs = Names
  BY <1>0 DEF Objects
<1>2. ASSUME pc \in {"buildSync", "signSync"}
      PROVE  /\ mcm \in ManagedClusterModule /\ stripped \in BOOLEAN
             /\ pc = "buildSync" => ShouldBeBuilt(SpecNow)
             /\ pc = "signSync" => ShouldBeSigned(SpecNow)
  BY <1>0, <1>2 DEF LoopTyped
<1>3. pc \in {"buildSync", "signSync"} => SpecNow = mcm.spec
  BY <1>2, SpecNowTyped
<1>4. ASSUME SyncBuild
      PROVE  \/ api' = api
             \/ \E n \in Names : \/ api' = WithBuild(api, n, Absent)
                                 \/ api' = WithBuild(api, n,
                                       MakeBuildTemplate(mcm.spec, cur, TRUE))
  <2> DEFINE old == TheOnly(ForKernel(cache.builds, cur))
             result == BuildSync(SpecNow, cur, TRUE, cache.builds)
  <2>0. pc = "buildSync" /\ SpecNow = mcm.spec
    BY <1>3, <1>4 DEF SyncBuild, At
  <2>1. \/ \E n \in NewNames("builds") :
              api' = [api EXCEPT !.builds[n] = MakeBuildTemplate(SpecNow, cur, TRUE)]
        \/ result = "delete" /\ api' = [api EXCEPT !.builds[old] = Absent]
        \/ api' = api
    BY <1>4 DEF SyncBuild
  <2>2. CASE \E n \in NewNames("builds") :
              api' = [api EXCEPT !.builds[n] = MakeBuildTemplate(SpecNow, cur, TRUE)]
    BY <2>0, <2>2 DEF NewNames, WithBuild
  <2>3. CASE result = "delete" /\ api' = [api EXCEPT !.builds[old] = Absent]
    <3>1. ForKernel(cache.builds, cur) # {} /\ ~ (Cardinality(ForKernel(cache.builds, cur)) > 1)
      BY <2>3 DEF BuildSync, BuildStatus
    <3>2. old \in Names
      BY <1>1, <3>1, TheOnlyIsListed DEF ForKernel, Existing
    <3> HIDE DEF old
    <3> QED
      BY <2>3, <3>2 DEF WithBuild
  <2> QED
    BY <2>1, <2>2, <2>3
<1>5. ASSUME SyncSign
      PROVE  \/ api' = api
             \/ \E n \in Names : \/ api' = WithJob(api, n, Absent)
                                 \/ api' = WithJob(api, n,
                                       MakeJobTemplate(mcm.spec, cur, TRUE))
  <2> DEFINE old == TheOnly(ForKernel(cache.jobs, cur))
             result == SignSync(SpecNow, cur, TRUE, cache.jobs)
  <2>0. pc = "signSync" /\ SpecNow = mcm.spec
    BY <1>3, <1>5 DEF SyncSign, At
  <2>1. \/ \E n \in NewNames("jobs") :
              api' = [api EXCEPT !.jobs[n] = MakeJobTemplate(SpecNow, cur, TRUE)]
        \/ result = "delete" /\ api' = [api EXCEPT !.jobs[old] = Absent]
        \/ api' = api
    BY <1>5 DEF SyncSign
  <2>2. CASE \E n \in NewNames("jobs") :
              api' = [api EXCEPT !.jobs[n] = MakeJobTemplate(SpecNow, cur, TRUE)]
    BY <2>0, <2>2 DEF NewNames, WithJob
  <2>3. CASE result = "delete" /\ api' = [api EXCEPT !.jobs[old] = Absent]
    <3>1. ForKernel(cache.jobs, cur) # {} /\ ~ (Cardinality(ForKernel(cache.jobs, cur)) > 1)
      BY <2>3 DEF SignSync, GetJobStatus
    <3>2. old \in Names
      BY <1>1, <3>1, TheOnlyIsListed DEF ForKernel, Existing
    <3> HIDE DEF old
    <3> QED
      BY <2>3, <3>2 DEF WithJob
  <2> QED
    BY <2>1, <2>2, <2>3
<1> QED
  BY <1>4, <1>5

\* The Syncs keep the types.
LEMMA SyncTyped ==
  ASSUME TypeInv, SyncBuild \/ SyncSign
  PROVE  TypeInv'
<1>0. ObjectsTyped /\ LoopTyped /\ api \in Objects /\ queued \in BOOLEAN
  BY DEF TypeInv, ObjectsTyped
<1>1. /\ pc \in {"buildSync", "signSync"} /\ UNCHANGED faults /\ UNCHANGED unchangedByStep
      /\ SyncSign => pc = "signSync"
  BY DEF SyncBuild, SyncSign, At
<1>2. LoopTyped' /\ queued' = queued
  <2>1. CASE SyncBuild
    <3>1. AfterSync(BuildSync(SpecNow, cur, TRUE, cache.builds), "sign")
      BY <2>1 DEF SyncBuild
    <3> QED
      BY <1>0, <1>1, <3>1, AfterSyncTyped
  <2>2. CASE SyncSign
    <3>1. AfterSync(SignSync(SpecNow, cur, TRUE, cache.jobs), "build")
      BY <2>2 DEF SyncSign
    <3> QED
      BY <1>0, <1>1, <3>1, AfterSyncTyped
  <2> QED
    BY <2>1, <2>2
<1>3. mcm.spec \in Specs /\ cur \in Kernels /\ (SyncSign => ShouldBeSigned(mcm.spec))
  <2>1. mcm \in ManagedClusterModule /\ stripped \in BOOLEAN /\ cur \in Kernels
    BY <1>0, <1>1 DEF LoopTyped, OnKernel
  <2>2. SyncSign => ShouldBeSigned(SpecNow)
    BY <1>0, <1>1 DEF LoopTyped
  <2> QED
    BY <2>1, <2>2, SpecNowTyped
<1>4. /\ MakeBuildTemplate(mcm.spec, cur, TRUE) \in HubBuild
      /\ SyncSign => MakeJobTemplate(mcm.spec, cur, TRUE) \in HubJob
  BY <1>3, CreatedTyped
<1>5. api' \in Objects
  <2>1. CASE SyncBuild
    BY <1>0, <1>4, <2>1, SyncWrites, ObjectWritten
  <2>2. CASE SyncSign
    BY <1>0, <1>4, <2>2, SyncWrites, ObjectWritten
  <2> QED
    BY <2>1, <2>2
<1> QED
  BY <1>0, <1>1, <1>2, <1>5, StepObjects DEF TypeInv

\* So do the ManifestWorks, the status and the errors.
LEMMA WorksTyped ==
  ASSUME TypeInv,
         \/ CreateOrPatchManifestWork \/ ManagedClusterModuleUpdateStatus
         \/ \E c \in Clusters : GarbageCollectWork(c)
         \/ ClusterFails \/ ReconcileError
  PROVE  TypeInv'
<1>0. ObjectsTyped /\ LoopTyped /\ api \in Objects /\ queued \in BOOLEAN
  BY DEF TypeInv, ObjectsTyped
<1>1. CASE CreateOrPatchManifestWork
  <2>1. /\ UNCHANGED <<queued, mcm, selected, clusters, doomed, faults>>
        /\ UNCHANGED unchangedByStep /\ pc = "work" /\ NextCluster /\ stripped' = TRUE
    BY <1>1 DEF CreateOrPatchManifestWork, At
  <2>2. api' \in Objects
    BY <1>0, <1>1, WorkStep, ObjectWritten
  <2>3. LoopTyped'
    BY <1>0, <2>1, NextClusterTyped
  <2> QED
    BY <1>0, <2>1, <2>2, <2>3, StepObjects DEF TypeInv
<1>2. CASE ManagedClusterModuleUpdateStatus
  <2>1. UNCHANGED faults /\ UNCHANGED unchangedByStep /\ (Return(TRUE) \/ Return(FALSE))
    BY <1>2 DEF ManagedClusterModuleUpdateStatus
  <2>2. LoopTyped' /\ queued' \in BOOLEAN
    BY <2>1, ReturnTyped DEF Return
  <2> QED
    BY <1>0, <1>2, <2>1, <2>2, StatusWritten, StepObjects DEF TypeInv
<1>3. CASE \E c \in Clusters : GarbageCollectWork(c)
  <2> PICK c \in Clusters : GarbageCollectWork(c)
    BY <1>3
  <2>1. UNCHANGED faults /\ UNCHANGED unchangedByStep /\ pc = "gc"
    BY DEF GarbageCollectWork, At
  <2>2. api' = api \/ api' = WithWork(api, c, Absent)
    BY DEF GarbageCollectWork, WithWork
  <2>3. api' \in Objects
    BY <1>0, <2>2, ObjectWritten
  <2>4. LoopTyped' /\ queued' \in BOOLEAN
    <3>1. CASE Return(TRUE)
      BY <3>1, ReturnTyped DEF Return
    <3>2. CASE ~ Return(TRUE)
      <4>1. /\ doomed' = doomed \ {c}
            /\ UNCHANGED <<pc, queued, mcm, stripped, selected, clusters, cluster, kernels,
                           cur, ok>>
        BY <3>2 DEF GarbageCollectWork
      <4> QED
        BY <1>0, <2>1, <4>1 DEF LoopTyped, Handling, OnKernel
    <3> QED
      BY <3>1, <3>2
  <2> QED
    BY <1>0, <2>1, <2>3, <2>4, StepObjects DEF TypeInv
<1>4. CASE ClusterFails
  <2>1. /\ UNCHANGED <<api, queued, mcm, selected, clusters, doomed>>
        /\ UNCHANGED unchangedByStep /\ pc # "idle" /\ NextCluster /\ Fault
        /\ stripped' \in BOOLEAN
    BY <1>0, <1>4 DEF ClusterFails, LoopTyped
  <2>2. LoopTyped'
    BY <1>0, <2>1, NextClusterTyped
  <2> QED
    BY <1>0, <2>1, <2>2, StepObjects DEF TypeInv
<1>5. CASE ReconcileError
  <2>1. UNCHANGED api /\ UNCHANGED unchangedByStep /\ Fault /\ Return(TRUE)
    BY <1>5 DEF ReconcileError
  <2>2. LoopTyped' /\ queued' \in BOOLEAN
    BY <2>1, ReturnTyped DEF Return
  <2> QED
    BY <1>0, <2>1, <2>2, StepObjects DEF TypeInv
<1> QED
  BY <1>1, <1>2, <1>3, <1>4, <1>5

\* What the spokes, the builders and the users write.
PhaseOf(x, p) == [x EXCEPT !.phase = p]

BuildEvents ==
    \E n \in Names :
       \/ api' = WithBuild(api, n, Absent) /\ registry' = registry
       \/ /\ api.builds[n] # Absent
          /\ \/ /\ api' = WithBuild(api, n, PhaseOf(api.builds[n], "Complete"))
                /\ registry' = registry \cup {api.builds[n].output}
             \/ /\ api' = WithBuild(api, n, PhaseOf(api.builds[n], "Failed"))
                /\ registry' = registry

JobEvents ==
    \E n \in Names :
       \/ api' = WithJob(api, n, Absent) /\ registry' = registry
       \/ /\ api.jobs[n] # Absent
          /\ \/ /\ api' = WithJob(api, n, PhaseOf(api.jobs[n], "Succeeded"))
                /\ registry' = registry \cup {api.jobs[n].hash[3]}
             \/ /\ \E p \in {"Active", "Failed"} :
                      api' = WithJob(api, n, PhaseOf(api.jobs[n], p))
                /\ \/ registry' = registry
                   \/ registry' = registry \cup {api.jobs[n].hash[3]}

\* Neither a ManifestWork's image nor the registry changes.
OtherEvents ==
    /\ registry' = registry
    /\ \/ api' = api
       \/ \E x \in ManagedClusterModule \cup {Absent} : api' = WithMCM(api, x)
       \/ \E c \in Clusters, x \in ManagedCluster : api' = WithCluster(api, c, x)
       \/ \E c \in Clusters, x \in ManifestWork \cup {Absent} :
             /\ x # Absent => api.works[c] # Absent /\ x.image = api.works[c].image
             /\ api' = WithWork(api, c, x)

\* Every step of the spokes and the users is one of these.
LEMMA SurroundingSteps ==
  ASSUME ObjectsTyped, Environment \/ Users
  PROVE  /\ BuildEvents \/ JobEvents \/ OtherEvents
         /\ UNCHANGED operator
         /\ runs' \in [Clusters -> SUBSET Kernels]
         /\ changes' = changes \/ Change
         /\ faults' = faults \/ Fault
<1>0. api \in Objects /\ runs \in [Clusters -> SUBSET Kernels]
  BY DEF ObjectsTyped
<1> DEFINE Goal == /\ BuildEvents \/ JobEvents \/ OtherEvents
                   /\ UNCHANGED operator
                   /\ runs' \in [Clusters -> SUBSET Kernels]
                   /\ changes' = changes \/ Change
                   /\ faults' = faults \/ Fault
<1> SUFFICES Goal
  OBVIOUS
<1>1. CASE \E n \in Names : \/ BuildCompletes(n) \/ BuildFails(n)
                            \/ OwnedObjectCollected("builds", n)
  <2> PICK n \in Names : \/ BuildCompletes(n) \/ BuildFails(n)
                         \/ OwnedObjectCollected("builds", n)
    BY <1>1
  <2>1. CASE BuildCompletes(n)
    BY <1>0, <2>1 DEF BuildCompletes, BuildEvents, WithBuild, PhaseOf
  <2>2. CASE BuildFails(n)
    BY <1>0, <2>2 DEF BuildFails, BuildEvents, WithBuild, PhaseOf
  <2>3. CASE OwnedObjectCollected("builds", n)
    BY <1>0, <2>3 DEF OwnedObjectCollected, BuildEvents, WithBuild
  <2> QED
    BY <2>1, <2>2, <2>3
<1>2. CASE \E n \in Names : \/ JobStarts(n) \/ JobSucceeds(n) \/ JobFails(n)
                            \/ OwnedObjectCollected("jobs", n)
  <2> PICK n \in Names : \/ JobStarts(n) \/ JobSucceeds(n) \/ JobFails(n)
                         \/ OwnedObjectCollected("jobs", n)
    BY <1>2
  <2>1. CASE JobStarts(n)
    BY <1>0, <2>1 DEF JobStarts, JobEvents, WithJob, PhaseOf
  <2>2. CASE JobSucceeds(n)
    BY <1>0, <2>2 DEF JobSucceeds, JobEvents, WithJob, PhaseOf
  <2>3. CASE OwnedObjectCollected("jobs", n)
    BY <1>0, <2>3 DEF OwnedObjectCollected, JobEvents, WithJob
  <2>4. CASE JobFails(n)
    BY <1>0, <2>4 DEF JobFails, JobEvents, WithJob, PhaseOf
  <2> QED
    BY <2>1, <2>2, <2>3, <2>4
<1>3. CASE \E c \in Clusters : \/ ReportClusterClaim(c) \/ SelectCluster(c)
  <2> PICK c \in Clusters : \/ ReportClusterClaim(c) \/ SelectCluster(c)
    BY <1>3
  <2>0. api.clusters[c] \in ManagedCluster /\ runs[c] \in SUBSET Kernels
    BY <1>0 DEF Objects
  <2>1. CASE ReportClusterClaim(c)
    <3> DEFINE x == [api.clusters[c] EXCEPT !.claim = runs[c]]
    <3>1. x \in ManagedCluster
      BY <2>0 DEF ManagedCluster
    <3>2. api' = WithCluster(api, c, x)
      BY <2>1 DEF ReportClusterClaim, WithCluster
    <3> HIDE DEF x
    <3> QED
      BY <1>0, <2>1, <3>1, <3>2 DEF ReportClusterClaim, OtherEvents
  <2>2. CASE SelectCluster(c)
    <3> DEFINE x == [api.clusters[c] EXCEPT !.selected = ~ api.clusters[c].selected]
    <3>1. x \in ManagedCluster
      BY <2>0 DEF ManagedCluster
    <3>2. api' = WithCluster(api, c, x)
      BY <2>2 DEF SelectCluster, WithCluster
    <3> HIDE DEF x
    <3> QED
      BY <1>0, <2>2, <3>1, <3>2 DEF SelectCluster, OtherEvents
  <2> QED
    BY <2>1, <2>2
<1>4. CASE \E c \in Clusters : \/ SpokeApplies(c) \/ SpokeDegrades(c)
                               \/ OwnedObjectCollected("works", c)
  <2> PICK c \in Clusters : \/ SpokeApplies(c) \/ SpokeDegrades(c)
                            \/ OwnedObjectCollected("works", c)
    BY <1>4
  <2>1. CASE OwnedObjectCollected("works", c)
    <3>1. api' = WithWork(api, c, Absent)
      BY <2>1 DEF OwnedObjectCollected, WithWork
    <3> QED
      BY <1>0, <2>1, <3>1 DEF OwnedObjectCollected, OtherEvents
  <2>2. CASE SpokeApplies(c) \/ SpokeDegrades(c)
    <3> DEFINE x(t) == [api.works[c] EXCEPT !.conditions = api.works[c].conditions \cup {t}]
    <3>1. PICK t \in {"Applied", "Degraded"} : api' = WithWork(api, c, x(t))
      BY <2>2 DEF SpokeApplies, SpokeDegrades, WithWork
    <3>2. /\ UNCHANGED <<operator, runs, registry>> /\ api.works[c] # Absent
          /\ changes' = changes \/ Change
          /\ faults' = faults
      BY <2>2 DEF SpokeApplies, SpokeDegrades
    <3>3. api.works[c] \in ManifestWork
      BY <1>0, <3>2 DEF Objects
    <3>4. x(t) \in ManifestWork /\ x(t).image = api.works[c].image
      BY <3>3 DEF ManifestWork
    <3> HIDE DEF x
    <3>5. OtherEvents
      BY <3>1, <3>2, <3>4 DEF OtherEvents
    <3> QED
      BY <1>0, <3>2, <3>5
  <2> QED
    BY <2>1, <2>2
<1>5. CASE \E s \in Specs : EditManagedClusterModule(s)
  <2> PICK s \in Specs : EditManagedClusterModule(s)
    BY <1>5
  <2> DEFINE x == [api.mcm EXCEPT !.spec = s]
  <2>1. x \in ManagedClusterModule
    BY <1>0 DEF EditManagedClusterModule, Objects, ManagedClusterModule
  <2>2. api' = WithMCM(api, x)
    BY DEF EditManagedClusterModule, WithMCM
  <2> HIDE DEF x
  <2> QED
    BY <1>0, <2>1, <2>2 DEF EditManagedClusterModule, OtherEvents
<1>6. CASE DeleteManagedClusterModule
  <2>1. api' = WithMCM(api, Absent)
    BY <1>6 DEF DeleteManagedClusterModule, WithMCM
  <2> QED
    BY <1>0, <1>6, <2>1 DEF DeleteManagedClusterModule, OtherEvents
<1>7. CASE \E c \in Clusters, ks \in NodeKernels : SpokeNodesChange(c, ks)
  <2> PICK c \in Clusters, ks \in NodeKernels : SpokeNodesChange(c, ks)
    BY <1>7
  <2>1. ks \in SUBSET Kernels
    BY HubAssumption
  <2> QED
    BY <1>0, <2>1 DEF SpokeNodesChange, OtherEvents
<1> HIDE DEF Goal
<1> QED
  BY <1>1, <1>2, <1>3, <1>4, <1>5, <1>6, <1>7 DEF Environment, Users

\* The spokes and the users keep the types.
LEMMA SurroundingsTyped ==
  ASSUME TypeInv, Environment \/ Users
  PROVE  TypeInv'
<1>0. ObjectsTyped /\ LoopTyped /\ api \in Objects /\ cache \in Objects
      /\ registry \subseteq ImageRef
  BY DEF TypeInv, ObjectsTyped
<1>1. /\ BuildEvents \/ JobEvents \/ OtherEvents
      /\ UNCHANGED operator /\ runs' \in [Clusters -> SUBSET Kernels]
      /\ changes' = changes \/ Change
      /\ faults' = faults \/ Fault
  BY <1>0, SurroundingSteps
<1>2. LoopTyped' /\ cache' = cache /\ queued' = queued
  <2>1. UNCHANGED <<pc, mcm, stripped, selected, clusters, cluster, kernels, cur, ok,
                    doomed, cache, queued>>
    BY <1>1 DEF operator, locals
  <2>2. SpecNow' = SpecNow
    BY <2>1 DEF SpecNow
  <2>3. LoopTyped'
    BY <1>0, <2>1, <2>2 DEF LoopTyped, ShouldBeBuilt, ShouldBeSigned
  <2> QED
    BY <2>1, <2>3
<1>3. changes' \in 0..MaxChanges /\ faults' \in 0..MaxFaults
  <2>1. changes \in 0..MaxChanges /\ faults \in 0..MaxFaults
    BY <1>0 DEF ObjectsTyped
  <2> QED
    BY <1>1, <2>1, ChangeTyped, FaultTyped
<1>4. api' \in Objects /\ registry' \subseteq ImageRef
  <2>1. CASE BuildEvents
    <3>1. PICK n \in Names :
             \/ api' = WithBuild(api, n, Absent) /\ registry' = registry
             \/ /\ api.builds[n] # Absent
                /\ \E p \in BuildPhase : api' = WithBuild(api, n, PhaseOf(api.builds[n], p))
                /\ registry' \subseteq registry \cup {api.builds[n].output}
      BY <2>1 DEF BuildEvents, BuildPhase
    <3>2. CASE api' = WithBuild(api, n, Absent) /\ registry' = registry
      BY <1>0, <3>2, ObjectWritten
    <3>3. CASE /\ api.builds[n] # Absent
               /\ \E p \in BuildPhase : api' = WithBuild(api, n, PhaseOf(api.builds[n], p))
               /\ registry' \subseteq registry \cup {api.builds[n].output}
      <4>1. api.builds[n] \in HubBuild
        BY <1>0, <3>3 DEF Objects
      <4>2. \A p \in BuildPhase : PhaseOf(api.builds[n], p) \in HubBuild
        BY <4>1 DEF PhaseOf, HubBuild, Build
      <4>3. api.builds[n].output \in ImageRef
        BY <4>1 DEF HubBuild
      <4> QED
        BY <1>0, <3>3, <4>2, <4>3, ObjectWritten
    <3> QED
      BY <3>1, <3>2, <3>3
  <2>2. CASE JobEvents
    <3>1. PICK n \in Names :
             \/ api' = WithJob(api, n, Absent) /\ registry' = registry
             \/ /\ api.jobs[n] # Absent
                /\ \E p \in JobPhase : api' = WithJob(api, n, PhaseOf(api.jobs[n], p))
                /\ registry' \subseteq registry \cup {api.jobs[n].hash[3]}
      BY <2>2 DEF JobEvents, JobPhase
    <3>2. CASE api' = WithJob(api, n, Absent) /\ registry' = registry
      BY <1>0, <3>2, ObjectWritten
    <3>3. CASE /\ api.jobs[n] # Absent
               /\ \E p \in JobPhase : api' = WithJob(api, n, PhaseOf(api.jobs[n], p))
               /\ registry' \subseteq registry \cup {api.jobs[n].hash[3]}
      <4>1. api.jobs[n] \in HubJob
        BY <1>0, <3>3 DEF Objects
      <4>2. \A p \in JobPhase : PhaseOf(api.jobs[n], p) \in HubJob
        BY <4>1 DEF PhaseOf, HubJob, SignJob
      <4>3. api.jobs[n].hash[3] \in ImageRef
        BY <4>1 DEF HubJob
      <4> QED
        BY <1>0, <3>3, <4>2, <4>3, ObjectWritten
    <3> QED
      BY <3>1, <3>2, <3>3
  <2>3. CASE OtherEvents
    BY <1>0, <2>3, ObjectWritten DEF OtherEvents
  <2> QED
    BY <1>1, <2>1, <2>2, <2>3
<1> QED
  BY <1>0, <1>1, <1>2, <1>3, <1>4 DEF TypeInv, ObjectsTyped

\* A watch delivers one kind.
LEMMA DeliveredKind ==
  ASSUME ObjectsTyped, NEW kind \in Kinds, Deliver(kind)
  PROVE  /\ cache' \in Objects /\ queued' \in BOOLEAN
         /\ cache'.builds \in {cache.builds, api.builds}
         /\ cache'.jobs \in {cache.jobs, api.jobs}
<1>0. api \in Objects /\ cache \in Objects /\ queued \in BOOLEAN
  BY DEF ObjectsTyped
<1>1. /\ cache' = [cache EXCEPT ![kind] = api[kind]]
      /\ queued' = \/ queued
                   \/ kind # "clusters"
                   \/ \E c \in Clusters : ClusterEvent(cache.clusters[c], api.clusters[c])
  BY DEF Deliver
<1>2. queued' \in BOOLEAN
  BY <1>0, <1>1
<1>3. /\ cache' \in Objects
      /\ cache'.builds \in {cache.builds, api.builds}
      /\ cache'.jobs \in {cache.jobs, api.jobs}
  <2>1. kind \in {"mcm", "clusters", "works", "builds", "jobs"}
    BY DEF Kinds
  <2>2. CASE kind = "mcm"
    BY <1>0, <1>1, <2>2 DEF Objects
  <2>3. CASE kind = "clusters"
    BY <1>0, <1>1, <2>3 DEF Objects
  <2>4. CASE kind = "works"
    BY <1>0, <1>1, <2>4 DEF Objects
  <2>5. CASE kind = "builds"
    BY <1>0, <1>1, <2>5 DEF Objects
  <2>6. CASE kind = "jobs"
    BY <1>0, <1>1, <2>6 DEF Objects
  <2> QED
    BY <2>1, <2>2, <2>3, <2>4, <2>5, <2>6
<1> QED
  BY <1>2, <1>3

\* Watches, resynchronisations and restarts keep the types.
LEMMA ManagerTyped ==
  ASSUME TypeInv, Resync \/ Restart \/ \E kind \in Kinds : Deliver(kind)
  PROVE  TypeInv'
<1>0. ObjectsTyped /\ LoopTyped
  BY DEF TypeInv
<1>1. CASE Restart
  <2>1. /\ cache' = api /\ queued' \in BOOLEAN /\ Fault
        /\ UNCHANGED <<api, runs, registry, changes>>
    BY <1>1 DEF Restart
  <2>2. ObjectsTyped'
    BY <1>0, <2>1, FaultTyped DEF ObjectsTyped
  <2>3. LoopTyped'
    BY <1>1, ReturnTyped DEF Restart
  <2> QED
    BY <2>2, <2>3 DEF TypeInv
<1>2. CASE Resync \/ \E kind \in Kinds : Deliver(kind)
  <2>1. UNCHANGED <<api, runs, registry, pc, locals, changes, faults>>
    BY <1>2 DEF Resync, Deliver
  <2>2. cache' \in Objects /\ queued' \in BOOLEAN
    <3>1. CASE Resync
      BY <1>0, <3>1 DEF Resync, ObjectsTyped
    <3>2. CASE \E kind \in Kinds : Deliver(kind)
      BY <1>0, <3>2, DeliveredKind
    <3> QED
      BY <1>2, <3>1, <3>2
  <2>3. ObjectsTyped'
    BY <1>0, <2>1, <2>2 DEF ObjectsTyped
  <2>4. LoopTyped'
    BY <1>0, <2>1 DEF LoopTyped, locals, SpecNow
  <2> QED
    BY <2>3, <2>4 DEF TypeInv
<1> QED
  BY <1>1, <1>2

\* The objects the API server starts with are typed, and so is the idle operator.
LEMMA InitTyped ==
  ASSUME Init
  PROVE  TypeInv
<1>1. PICK s \in InitSpecs :
        /\ api = [mcm |-> [spec |-> s, status |-> [desired |-> 0, applied |-> 0,
                                                   degraded |-> 0]],
                  clusters |->
                     [c \in Clusters |->
                        [selected |-> TRUE,
                         claim |-> IF c \in Joining THEN Absent ELSE InitRuns[c]]],
                  works |-> [c \in Clusters |-> Absent],
                  builds |-> [n \in Names |-> Absent],
                  jobs |-> [n \in Names |-> Absent]]
        /\ cache = api /\ runs = InitRuns /\ registry = Prebuilt
  BY DEF Init
<1>2. /\ s \in Specs /\ InitRuns \in [Clusters -> SUBSET Kernels]
      /\ Prebuilt \subseteq ImageRef
  BY HubAssumption
<1> DEFINE st == [desired |-> 0, applied |-> 0, degraded |-> 0]
           cl == [c \in Clusters |->
                        [selected |-> TRUE,
                         claim |-> IF c \in Joining THEN Absent ELSE InitRuns[c]]]
<1>3. [spec |-> s, status |-> st] \in ManagedClusterModule
  BY <1>2 DEF ManagedClusterModule, HubStatus
<1>4. cl \in [Clusters -> ManagedCluster]
  BY <1>2 DEF ManagedCluster
<1>5. api \in Objects
  BY <1>1, <1>3, <1>4 DEF Objects
<1>6. 0 \in 0..MaxChanges /\ 0 \in 0..MaxFaults
  BY HubAssumption
<1>7. ObjectsTyped
  BY <1>1, <1>2, <1>5, <1>6 DEF ObjectsTyped, Init
<1>8. LoopTyped
  BY DEF LoopTyped, Init, PCs, Handling, OnKernel, DSKernels
<1> QED
  BY <1>7, <1>8 DEF TypeInv

\* Every step keeps the types.
LEMMA StepTyped ==
  ASSUME TypeInv, [Next]_vars
  PROVE  TypeInv'
<1>1. CASE UNCHANGED vars
  BY <1>1 DEF TypeInv, ObjectsTyped, LoopTyped, vars, locals, SpecNow
<1>2. CASE Next
  BY <1>2, LoopsTyped, SyncTyped, WorksTyped, SurroundingsTyped, ManagerTyped
  DEF Next, Reconcile
<1> QED
  BY <1>1, <1>2

\* The hub's reconciler, its caches and everything it stores keep their types, whatever
\* the clusters, the users and the failures do.
THEOREM TypeCorrect == Spec => []TypeOK
<1>1. Init => TypeInv
  BY InitTyped
<1>2. TypeInv /\ [Next]_vars => TypeInv'
  BY StepTyped
<1>3. TypeInv => TypeOK
  <2> SUFFICES ASSUME TypeInv PROVE TypeOK
    OBVIOUS
  <2>1. \A a \in Objects :
          /\ a.mcm \in ManagedClusterModule \cup {Absent}
          /\ a.clusters \in [Clusters -> ManagedCluster]
          /\ a.works \in [Clusters -> ManifestWork \cup {Absent}]
          /\ a.builds \in [Names -> Build \cup {Absent}]
          /\ a.jobs \in [Names -> SignJob \cup {Absent}]
    <3>1. HubBuild \subseteq Build /\ HubJob \subseteq SignJob
      BY DEF HubBuild, HubJob
    <3> QED
      BY <3>1 DEF Objects
  <2> QED
    BY <2>1 DEF TypeOK, TypeInv, ObjectsTyped, LoopTyped
<1> QED
  BY <1>1, <1>2, <1>3, PTL DEF Spec

-----------------------------------------------------------------------------
(* What the loop over a cluster's kernels knows of the registry.  r is its  *)
(* content.                                                                 *)

\* A Build in the API server or in a cache comes from a spec users wrote, and a
\* complete one has pushed its image.
BuildPushed(x, r) ==
    /\ \E s \in Specs : /\ ShouldBeBuilt(s) /\ x.hash = s.dockerfile
                        /\ x.output = BuildTarget(s, x.kernel)
    /\ x.phase = "Complete" => x.output \in r

JobPushed(x, r) == x.phase = "Succeeded" => x.hash[3] \in r

WorkPushed(o, r) ==
    \A n \in Names : /\ o.builds[n] # Absent => BuildPushed(o.builds[n], r)
                     /\ o.jobs[n] # Absent => JobPushed(o.jobs[n], r)

\* The hub makes the images of the Module at all.
Makes == ShouldBeBuilt(mcm.spec) \/ ShouldBeSigned(mcm.spec)

\* The kernels of the cluster that BuildAndSign is done with.
Handled ==
    (kernelMappingsByKernelVersion(mcm.spec, selected[cluster].claim) \ kernels)
        \ (IF pc \in OnKernel THEN {cur} ELSE {})

LoopPushed ==
    /\ pc \in {"sign", "signSync"} /\ ShouldBeBuilt(mcm.spec)
          => BuildTarget(mcm.spec, cur) \in registry
    /\ pc \in Handling /\ ok /\ Makes
          => \A k \in Handled : ContainerImage(mcm.spec, k) \in registry
    /\ pc = "work" => ok /\ kernels = {}

ImagesInv == WorkPushed(api, registry) /\ WorkPushed(cache, registry) /\ LoopPushed

\* The registry only grows.
LEMMA WorkGrows ==
  ASSUME NEW o, NEW r, NEW q, r \subseteq q, WorkPushed(o, r)
  PROVE  WorkPushed(o, q)
BY DEF WorkPushed, BuildPushed, JobPushed

\* Objects with the same Builds and Jobs.
LEMMA WorkSame ==
  ASSUME NEW o, NEW p, NEW r, WorkPushed(o, r), p.builds = o.builds, p.jobs = o.jobs
  PROVE  WorkPushed(p, r)
BY DEF WorkPushed

\* One Build or one Job is written.
LEMMA WorkWritten ==
  ASSUME NEW o \in Objects, NEW r, WorkPushed(o, r), NEW n
  PROVE  /\ \A x : (x # Absent => BuildPushed(x, r)) => WorkPushed(WithBuild(o, n, x), r)
         /\ \A x : (x # Absent => JobPushed(x, r)) => WorkPushed(WithJob(o, n, x), r)
<1>1. \A x : /\ WithBuild(o, n, x).jobs = o.jobs
             /\ WithBuild(o, n, x).builds = [o.builds EXCEPT ![n] = x]
             /\ WithJob(o, n, x).builds = o.builds
             /\ WithJob(o, n, x).jobs = [o.jobs EXCEPT ![n] = x]
  BY DEF WithBuild, WithJob, Objects
<1>2. DOMAIN o.builds = Names /\ DOMAIN o.jobs = Names
  BY DEF Objects
<1>3. ASSUME NEW x, x # Absent => BuildPushed(x, r)
      PROVE  WorkPushed(WithBuild(o, n, x), r)
  <2> DEFINE b == [o.builds EXCEPT ![n] = x]
  <2>1. \A m \in Names : b[m] = (IF m = n THEN x ELSE o.builds[m])
    BY <1>2
  <2>2. WithBuild(o, n, x).builds = b /\ WithBuild(o, n, x).jobs = o.jobs
    BY <1>1
  <2> HIDE DEF b
  <2> QED
    BY <1>3, <2>1, <2>2 DEF WorkPushed
<1>4. ASSUME NEW x, x # Absent => JobPushed(x, r)
      PROVE  WorkPushed(WithJob(o, n, x), r)
  <2> DEFINE b == [o.jobs EXCEPT ![n] = x]
  <2>1. \A m \in Names : b[m] = (IF m = n THEN x ELSE o.jobs[m])
    BY <1>2
  <2>2. WithJob(o, n, x).jobs = b /\ WithJob(o, n, x).builds = o.builds
    BY <1>1
  <2> HIDE DEF b
  <2> QED
    BY <1>4, <2>1, <2>2 DEF WorkPushed
<1> QED
  BY <1>3, <1>4

\* A step that does not touch the loop.
LEMMA LoopRests ==
  ASSUME LoopPushed, registry \subseteq registry',
         UNCHANGED <<pc, mcm, selected, cluster, kernels, cur, ok>>
  PROVE  LoopPushed'
<1>1. Handled' = Handled /\ Makes' = Makes
  BY DEF Handled, Makes
<1> QED
  BY <1>1 DEF LoopPushed

\* Nothing is known outside the loop over the kernels.
LEMMA LoopLeft ==
  ASSUME pc' \in {"idle", "clusters", "gc", "status"}
  PROVE  LoopPushed'
BY DEF LoopPushed, Handling

\* The loops over clusters and kernels: the registry was asked for what is not built or
\* signed.
LEMMA LoopsPushed ==
  ASSUME TypeInv, ImagesInv, ~ MappingLevel,
         \/ GetRequested \/ SignKernel \/ BuildAndSignReturns \/ ListManifestWorks
         \/ \E c \in Clusters : StartCluster(c)
         \/ \E k \in Kernels : BuildKernel(k)
  PROVE  ImagesInv'
<1>0. LoopTyped /\ LoopPushed
  BY DEF TypeInv, ImagesInv
<1>1. UNCHANGED <<api, cache, registry>>
  BY DEF GetRequested, SignKernel, BuildAndSignReturns, ListManifestWorks, StartCluster,
         BuildKernel, unchangedByStep
<1>2. WorkPushed(api, registry)' /\ WorkPushed(cache, registry)'
  BY <1>1 DEF ImagesInv
<1>3. SpecNow = mcm.spec
  BY DEF SpecNow
<1>4. CASE GetRequested
  <2>1. CASE pc' = "clusters"
    BY <1>2, <2>1, LoopLeft DEF ImagesInv
  <2>2. CASE UNCHANGED <<pc, locals>>
    BY <1>0, <1>1, <1>2, <2>2, LoopRests DEF ImagesInv, locals
  <2> QED
    BY <1>4, <2>1, <2>2 DEF GetRequested
<1>5. CASE SignKernel
  <2>1. /\ UNCHANGED <<mcm, selected, cluster, kernels, cur, ok>> /\ pc = "sign"
        /\ pc' = IF SignShouldSync(mcm.spec, cur, registry) THEN "signSync" ELSE "build"
    BY <1>3, <1>5 DEF SignKernel, At, locals
  <2>2. Makes' = Makes
    BY <2>1 DEF Makes
  <2>3. CASE pc' = "signSync"
    <3>1. Handled' = Handled
      BY <2>1, <2>3 DEF Handled, OnKernel
    <3>2. LoopPushed'
      BY <1>0, <1>1, <2>1, <2>2, <2>3, <3>1 DEF LoopPushed, Handling
    <3> QED
      BY <1>2, <3>2 DEF ImagesInv
  <2>4. CASE pc' = "build"
    <3>1. Handled' \subseteq Handled \cup {cur}
      BY <2>1, <2>4 DEF Handled, OnKernel
    <3>2. Makes => ContainerImage(mcm.spec, cur) \in registry
      <4>1. ~ SignShouldSync(mcm.spec, cur, registry)
        BY <2>1, <2>4
      <4>2. CASE ShouldBeSigned(mcm.spec)
        BY <4>1, <4>2 DEF SignShouldSync
      <4>3. CASE ~ ShouldBeSigned(mcm.spec)
        BY <1>0, <2>1, <4>3 DEF LoopPushed, Makes, BuildTarget
      <4> QED
        BY <4>2, <4>3
    <3>3. LoopPushed'
      BY <1>0, <1>1, <2>1, <2>2, <2>4, <3>1, <3>2 DEF LoopPushed, Handling
    <3> QED
      BY <1>2, <3>3 DEF ImagesInv
  <2> QED
    BY <2>1, <2>3, <2>4
<1>6. CASE BuildAndSignReturns
  <2>1. /\ UNCHANGED <<mcm, selected>> /\ pc = "build" /\ kernels = {}
        /\ NextCluster \/ (ok /\ pc' = "work" /\ UNCHANGED <<cluster, kernels, cur, ok>>)
    BY <1>6 DEF BuildAndSignReturns, At
  <2>2. CASE NextCluster
    BY <1>2, <2>2, LoopLeft DEF ImagesInv, NextCluster
  <2>3. CASE ok /\ pc' = "work" /\ UNCHANGED <<cluster, kernels, cur, ok>>
    <3>1. Handled' = Handled /\ Makes' = Makes
      BY <2>1, <2>3 DEF Handled, OnKernel, Makes
    <3>2. LoopPushed'
      BY <1>0, <1>1, <2>1, <2>3, <3>1 DEF LoopPushed, Handling
    <3> QED
      BY <1>2, <3>2 DEF ImagesInv
  <2> QED
    BY <2>1, <2>2, <2>3
<1>7. CASE ListManifestWorks
  BY <1>2, <1>7, LoopLeft DEF ImagesInv, ListManifestWorks
<1>8. CASE \E c \in Clusters : StartCluster(c)
  <2> PICK c \in Clusters : StartCluster(c)
    BY <1>8
  <2> DEFINE claim == selected[c].claim
             ks == IF claim = Absent THEN {}
                   ELSE kernelMappingsByKernelVersion(SpecNow, claim)
  <2>1. /\ UNCHANGED <<mcm, selected, cur>> /\ pc = "clusters"
        /\ \/ UNCHANGED pc
           \/ ks # {} /\ cluster' = c /\ kernels' = ks /\ ok' = TRUE /\ pc' = "build"
    BY DEF StartCluster, At
  <2>2. CASE UNCHANGED pc
    BY <1>2, <2>1, <2>2, LoopLeft DEF ImagesInv
  <2>3. CASE ks # {} /\ cluster' = c /\ kernels' = ks /\ pc' = "build"
    <3>1. kernels' = kernelMappingsByKernelVersion(mcm.spec, selected[c].claim)
      BY <1>3, <2>3
    <3>2. Handled' = {}
      BY <2>1, <2>3, <3>1 DEF Handled
    <3>3. LoopPushed'
      BY <2>3, <3>2 DEF LoopPushed, Handling
    <3> QED
      BY <1>2, <3>3 DEF ImagesInv
  <2> QED
    BY <2>1, <2>2, <2>3
<1>9. CASE \E k \in Kernels : BuildKernel(k)
  <2> PICK k \in Kernels : BuildKernel(k)
    BY <1>9
  <2>1. /\ UNCHANGED <<mcm, selected, cluster, ok>> /\ pc = "build"
        /\ kernels' = kernels \ {k} /\ cur' = k
        /\ pc' = IF BuildShouldSync(mcm.spec, k, registry) THEN "buildSync" ELSE "sign"
    BY <1>3 DEF BuildKernel, At
  <2>2. Makes' = Makes
    BY <2>1 DEF Makes
  <2>3. Handled' \subseteq Handled
    BY <2>1 DEF Handled, OnKernel
  <2>4. pc' = "sign" /\ ShouldBeBuilt(mcm.spec) => BuildTarget(mcm.spec, k) \in registry
    BY <2>1 DEF BuildShouldSync
  <2>5. LoopPushed'
    BY <1>0, <1>1, <2>1, <2>2, <2>3, <2>4 DEF LoopPushed, Handling
  <2> QED
    BY <1>2, <2>5 DEF ImagesInv
<1> QED
  BY <1>4, <1>5, <1>6, <1>7, <1>8, <1>9

\* A completed Build, although found by kernel and compared by Dockerfile only, has
\* pushed what the spec at hand is built into; a completed Job what it is signed into.
LEMMA CompletedThere ==
  ASSUME TypeInv, ImagesInv, OneImagePerDockerfile,
         NEW s \in Specs, NEW k \in Kernels, NEW push, push = TRUE
  PROVE  /\ ShouldBeBuilt(s) /\ BuildSync(s, k, push, cache.builds) = "completed"
            => BuildTarget(s, k) \in registry
         /\ SignSync(s, k, push, cache.jobs) = "completed"
            => ContainerImage(s, k) \in registry
<1>0. cache \in Objects /\ WorkPushed(cache, registry)
  BY DEF TypeInv, ObjectsTyped, ImagesInv
<1> DEFINE builds == cache.builds
           jobs == cache.jobs
<1>1. DOMAIN builds = Names /\ DOMAIN jobs = Names
  BY <1>0 DEF Objects
<1>2. /\ \A n \in Names : builds[n] # Absent => BuildPushed(builds[n], registry)
      /\ \A n \in Names : jobs[n] # Absent => JobPushed(jobs[n], registry)
  BY <1>0 DEF WorkPushed
<1>3. MakeJobTemplate(s, k, push).hash[3] = ContainerImage(s, k)
  BY DEF MakeJobTemplate
<1> HIDE DEF builds, jobs
<1>4. ASSUME ShouldBeBuilt(s), BuildSync(s, k, push, builds) = "completed"
      PROVE  BuildTarget(s, k) \in registry
  <2>1. PICK b \in Names : /\ builds[b] # Absent /\ builds[b].kernel = k
                           /\ builds[b].hash = s.dockerfile
                           /\ builds[b].phase = "Complete"
    BY ONLY <1>1, <1>4, CompletedBuild
  <2>2. PICK t \in Specs : /\ ShouldBeBuilt(t) /\ builds[b].hash = t.dockerfile
                           /\ builds[b].output = BuildTarget(t, k)
    BY <1>2, <2>1 DEF BuildPushed
  <2>3. BuildTarget(t, k) = BuildTarget(s, k)
    BY <1>4, <2>1, <2>2 DEF OneImagePerDockerfile
  <2> QED
    BY <1>2, <2>1, <2>2, <2>3 DEF BuildPushed
<1>5. ASSUME SignSync(s, k, push, jobs) = "completed"
      PROVE  ContainerImage(s, k) \in registry
  <2>1. PICK j \in Names : /\ jobs[j] # Absent
                           /\ jobs[j].hash = MakeJobTemplate(s, k, push).hash
                           /\ jobs[j].phase = "Succeeded"
    BY ONLY <1>1, <1>5, CompletedJob
  <2>2. jobs[j].hash[3] \in registry
    BY <1>2, <2>1 DEF JobPushed
  <2> QED
    BY <1>3, <2>1, <2>2
<1> QED
  BY <1>4, <1>5 DEF builds, jobs

\* What a Sync writes keeps the Builds and the Jobs.
LEMMA SyncKeepsWork ==
  ASSUME TypeInv, ImagesInv, SyncBuild \/ SyncSign
  PROVE  WorkPushed(api, registry)' /\ WorkPushed(cache, registry)'
<1>0. /\ api \in Objects /\ WorkPushed(api, registry) /\ WorkPushed(cache, registry)
      /\ LoopTyped
  BY DEF TypeInv, ObjectsTyped, ImagesInv
<1>1. UNCHANGED <<cache, registry>> /\ (SyncBuild => pc = "buildSync")
      /\ pc \in {"buildSync", "signSync"}
  BY DEF SyncBuild, SyncSign, At, unchangedByStep
<1>2. WorkPushed(cache, registry)'
  BY <1>0, <1>1
<1>3. WorkPushed(api', registry)
  <2>1. CASE SyncBuild
    <3>1. /\ mcm \in ManagedClusterModule /\ stripped \in BOOLEAN
          /\ ShouldBeBuilt(SpecNow)
      BY <1>0, <1>1, <2>1 DEF LoopTyped
    <3>2. mcm.spec \in Specs /\ ShouldBeBuilt(mcm.spec)
      BY <3>1, SpecNowTyped
    <3>3. BuildPushed(MakeBuildTemplate(mcm.spec, cur, TRUE), registry)
      BY <3>2 DEF BuildPushed, MakeBuildTemplate
    <3> QED
      BY <1>0, <2>1, <3>3, SyncWrites, WorkWritten
  <2>2. CASE SyncSign
    <3>1. JobPushed(MakeJobTemplate(mcm.spec, cur, TRUE), registry)
      BY DEF JobPushed, MakeJobTemplate
    <3> QED
      BY <1>0, <2>2, <3>1, SyncWrites, WorkWritten
  <2> QED
    BY <2>1, <2>2
<1> QED
  BY <1>1, <1>2, <1>3

\* A Sync that reports success leaves the image in the registry; every other one makes
\* BuildAndSign incomplete.
LEMMA SyncPushed ==
  ASSUME TypeInv, ImagesInv, ~ MappingLevel, OneImagePerDockerfile, SyncBuild \/ SyncSign
  PROVE  ImagesInv'
<1>0. LoopTyped /\ LoopPushed /\ SpecNow = mcm.spec
  BY DEF TypeInv, ImagesInv, SpecNow
<1>1. WorkPushed(api, registry)' /\ WorkPushed(cache, registry)'
  BY SyncKeepsWork
<1>2. UNCHANGED registry /\ UNCHANGED <<mcm, selected>>
      /\ pc \in {"buildSync", "signSync"}
  BY DEF SyncBuild, SyncSign, At, AfterSync, unchangedByStep
<1>3. mcm.spec \in Specs /\ cur \in Kernels
  BY <1>0, <1>2 DEF LoopTyped, OnKernel, ManagedClusterModule
<1>4. Makes' = Makes
  BY <1>2 DEF Makes
<1> DEFINE push == TRUE
<1>5. push = TRUE
  OBVIOUS
<1>6. SUFFICES LoopPushed'
  BY <1>1 DEF ImagesInv
<1>7. CASE SyncBuild
  <2> DEFINE result == BuildSync(mcm.spec, cur, push, cache.builds)
  <2>1. AfterSync(result, "sign") /\ pc = "buildSync"
    BY <1>0, <1>7 DEF SyncBuild, At
  <2>2. ShouldBeBuilt(mcm.spec)
    BY <1>0, <2>1 DEF LoopTyped
  <2> HIDE DEF push
  <2>3. result = "completed" => BuildTarget(mcm.spec, cur) \in registry
    BY <1>3, <1>5, <2>2, CompletedThere
  <2> HIDE DEF result
  <2>4. CASE NextCluster
    BY <2>4, LoopLeft DEF NextCluster
  <2>5. CASE ~ NextCluster
    <3>1. /\ pc' = IF result = "completed" THEN "sign" ELSE "build"
          /\ ok' = (ok /\ result = "completed")
          /\ UNCHANGED <<cluster, kernels, cur>>
      BY <2>1, <2>5 DEF AfterSync
    <3>2. CASE result = "completed"
      <4>1. pc' = "sign" /\ Handled' = Handled
        BY <1>2, <2>1, <3>1, <3>2 DEF Handled, OnKernel
      <4>2. ok' => ok
        BY <3>1
      <4> QED
        BY <1>0, <1>2, <1>4, <2>1, <2>3, <3>1, <3>2, <4>1, <4>2 DEF LoopPushed, Handling
    <3>3. CASE result # "completed"
      <4>1. ~ ok' /\ pc' = "build"
        BY <3>1, <3>3
      <4> QED
        BY <4>1 DEF LoopPushed
    <3> QED
      BY <3>2, <3>3
  <2> QED
    BY <2>4, <2>5
<1>8. CASE SyncSign
  <2> DEFINE result == SignSync(mcm.spec, cur, push, cache.jobs)
  <2>1. AfterSync(result, "build") /\ pc = "signSync"
    BY <1>0, <1>8 DEF SyncSign, At
  <2> HIDE DEF push
  <2>2. result = "completed" => ContainerImage(mcm.spec, cur) \in registry
    BY <1>3, <1>5, CompletedThere
  <2> HIDE DEF result
  <2>3. CASE NextCluster
    BY <2>3, LoopLeft DEF NextCluster
  <2>4. CASE ~ NextCluster
    <3>1. /\ pc' = "build" /\ ok' = (ok /\ result = "completed")
          /\ UNCHANGED <<cluster, kernels, cur>>
      BY <2>1, <2>4 DEF AfterSync
    <3>2. CASE result = "completed"
      <4>1. Handled' \subseteq Handled \cup {cur}
        BY <1>2, <2>1, <3>1 DEF Handled, OnKernel
      <4>2. ok' => ok
        BY <3>1
      <4> QED
        BY <1>0, <1>2, <1>4, <2>1, <2>2, <3>1, <3>2, <4>1, <4>2 DEF LoopPushed, Handling
    <3>3. CASE result # "completed"
      <4>1. ~ ok'
        BY <3>1, <3>3
      <4> QED
        BY <3>1, <4>1 DEF LoopPushed
    <3> QED
      BY <3>2, <3>3
  <2> QED
    BY <2>3, <2>4
<1> QED
  BY <1>7, <1>8

\* Who writes ManifestWorks or the status, and who fails, leaves the loop.
LEMMA WorksPushed ==
  ASSUME TypeInv, ImagesInv,
         \/ CreateOrPatchManifestWork \/ ManagedClusterModuleUpdateStatus
         \/ \E c \in Clusters : GarbageCollectWork(c)
         \/ ClusterFails \/ ReconcileError
  PROVE  ImagesInv'
<1>0. /\ api \in Objects /\ WorkPushed(api, registry) /\ WorkPushed(cache, registry)
  BY DEF TypeInv, ObjectsTyped, ImagesInv
<1>1. UNCHANGED <<cache, registry>>
  BY DEF CreateOrPatchManifestWork, ManagedClusterModuleUpdateStatus, GarbageCollectWork,
         ClusterFails, ReconcileError, unchangedByStep
<1>2. pc' \in {"clusters", "idle", "gc"}
  BY DEF CreateOrPatchManifestWork, ManagedClusterModuleUpdateStatus, GarbageCollectWork,
         ClusterFails, ReconcileError, NextCluster, Return, At
<1>3. api'.builds = api.builds /\ api'.jobs = api.jobs
  <2>1. CASE CreateOrPatchManifestWork
    <3>1. \A c, x : /\ WithWork(api, c, x).builds = api.builds
                    /\ WithWork(api, c, x).jobs = api.jobs
      BY <1>0 DEF WithWork, Objects
    <3> QED
      BY <2>1, <3>1, WorkStep
  <2>2. CASE ManagedClusterModuleUpdateStatus
    <3> DEFINE st == [f \in DOMAIN DesiredHubStatus(cache.works) |->
                        IF DesiredHubStatus(cache.works)[f] # mcm.status[f]
                        THEN DesiredHubStatus(cache.works)[f] ELSE api.mcm.status[f]]
    <3>1. api' = api \/ api' = WithMCM(api, [api.mcm EXCEPT !.status = st])
      BY <2>2 DEF ManagedClusterModuleUpdateStatus, WithMCM
    <3> HIDE DEF st
    <3>2. \A x : /\ WithMCM(api, x).builds = api.builds
                 /\ WithMCM(api, x).jobs = api.jobs
      BY <1>0 DEF WithMCM, Objects
    <3> QED
      BY <3>1, <3>2
  <2>3. CASE \E c \in Clusters : GarbageCollectWork(c)
    BY <1>0, <2>3 DEF GarbageCollectWork, Objects
  <2>4. CASE ClusterFails \/ ReconcileError
    BY <2>4 DEF ClusterFails, ReconcileError
  <2> QED
    BY <2>1, <2>2, <2>3, <2>4
<1>4. WorkPushed(api', registry)
  BY <1>0, <1>3, WorkSame
<1> QED
  BY <1>0, <1>1, <1>2, <1>4, LoopLeft DEF ImagesInv

\* A cache holds what the API server held.
LEMMA ManagerPushed ==
  ASSUME TypeInv, ImagesInv, Resync \/ Restart \/ \E kind \in Kinds : Deliver(kind)
  PROVE  ImagesInv'
<1>0. /\ WorkPushed(api, registry) /\ WorkPushed(cache, registry) /\ LoopPushed
      /\ ObjectsTyped
  BY DEF TypeInv, ImagesInv
<1>1. UNCHANGED <<api, registry>>
  BY DEF Resync, Restart, Deliver
<1>2. WorkPushed(cache', registry)
  <2>1. /\ cache'.builds \in {cache.builds, api.builds}
        /\ cache'.jobs \in {cache.jobs, api.jobs}
    <3>1. CASE Resync
      BY <3>1 DEF Resync
    <3>2. CASE Restart
      BY <3>2 DEF Restart
    <3>3. CASE \E kind \in Kinds : Deliver(kind)
      BY <1>0, <3>3, DeliveredKind
    <3> QED
      BY <3>1, <3>2, <3>3
  <2> QED
    BY <1>0, <2>1 DEF WorkPushed
<1>3. LoopPushed'
  <2>1. CASE Restart
    BY <2>1, LoopLeft DEF Restart
  <2>2. CASE Resync \/ \E kind \in Kinds : Deliver(kind)
    BY <1>0, <1>1, <2>2, LoopRests DEF Resync, Deliver, locals
  <2> QED
    BY <2>1, <2>2
<1> QED
  BY <1>0, <1>1, <1>2, <1>3 DEF ImagesInv

\* A Build or a Job completes when its image is pushed; nobody removes images.
LEMMA SurroundingsPushed ==
  ASSUME TypeInv, ImagesInv, Environment \/ Users
  PROVE  ImagesInv'
<1>0. /\ WorkPushed(api, registry) /\ WorkPushed(cache, registry) /\ LoopPushed
      /\ ObjectsTyped /\ api \in Objects
  BY DEF TypeInv, ImagesInv, ObjectsTyped
<1>1. (BuildEvents \/ JobEvents \/ OtherEvents) /\ UNCHANGED operator
  BY <1>0, SurroundingSteps
<1>2. registry \subseteq registry'
  BY <1>1 DEF BuildEvents, JobEvents, OtherEvents
<1>3. WorkPushed(api, registry') /\ WorkPushed(cache', registry')
  BY <1>0, <1>1, <1>2, WorkGrows DEF operator
<1>4. LoopPushed'
  BY <1>0, <1>1, <1>2, LoopRests DEF operator, locals
<1>5. WorkPushed(api', registry')
  <2>1. CASE BuildEvents
    <3>1. PICK n \in Names :
             \/ api' = WithBuild(api, n, Absent)
             \/ /\ api.builds[n] # Absent
                /\ \/ /\ api' = WithBuild(api, n, PhaseOf(api.builds[n], "Complete"))
                      /\ api.builds[n].output \in registry'
                   \/ api' = WithBuild(api, n, PhaseOf(api.builds[n], "Failed"))
      BY <2>1 DEF BuildEvents
    <3>2. ASSUME api.builds[n] # Absent
          PROVE  /\ BuildPushed(PhaseOf(api.builds[n], "Failed"), registry')
                 /\ api.builds[n].output \in registry'
                      => BuildPushed(PhaseOf(api.builds[n], "Complete"), registry')
      <4>1. BuildPushed(api.builds[n], registry') /\ api.builds[n] \in Build
        BY <1>0, <1>3, <3>2 DEF WorkPushed, Objects, HubBuild
      <4>2. \A p : /\ PhaseOf(api.builds[n], p).hash = api.builds[n].hash
                   /\ PhaseOf(api.builds[n], p).output = api.builds[n].output
                   /\ PhaseOf(api.builds[n], p).kernel = api.builds[n].kernel
                   /\ PhaseOf(api.builds[n], p).phase = p
        BY <4>1 DEF PhaseOf, Build
      <4> QED
        BY <4>1, <4>2 DEF BuildPushed
    <3> QED
      BY <1>0, <1>3, <3>1, <3>2, WorkWritten
  <2>2. CASE JobEvents
    <3>1. PICK n \in Names :
             \/ api' = WithJob(api, n, Absent)
             \/ /\ api.jobs[n] # Absent
                /\ \/ /\ api' = WithJob(api, n, PhaseOf(api.jobs[n], "Succeeded"))
                      /\ api.jobs[n].hash[3] \in registry'
                   \/ \E p \in {"Active", "Failed"} :
                         api' = WithJob(api, n, PhaseOf(api.jobs[n], p))
      BY <2>2 DEF JobEvents
    <3>2. ASSUME api.jobs[n] # Absent
          PROVE  /\ \A p \in {"Active", "Failed"} :
                       JobPushed(PhaseOf(api.jobs[n], p), registry')
                 /\ api.jobs[n].hash[3] \in registry'
                      => JobPushed(PhaseOf(api.jobs[n], "Succeeded"), registry')
      <4>1. api.jobs[n] \in SignJob
        BY <1>0, <3>2 DEF Objects, HubJob
      <4>2. \A p : /\ PhaseOf(api.jobs[n], p).hash = api.jobs[n].hash
                   /\ PhaseOf(api.jobs[n], p).phase = p
        BY <4>1 DEF PhaseOf, SignJob
      <4> QED
        BY <4>2 DEF JobPushed
    <3> QED
      BY <1>0, <1>3, <3>1, <3>2, WorkWritten
  <2>3. CASE OtherEvents
    <3>1. /\ \A x : WithMCM(api, x).builds = api.builds /\ WithMCM(api, x).jobs = api.jobs
          /\ \A c, x : /\ WithWork(api, c, x).builds = api.builds
                       /\ WithWork(api, c, x).jobs = api.jobs
          /\ \A c, x : /\ WithCluster(api, c, x).builds = api.builds
                       /\ WithCluster(api, c, x).jobs = api.jobs
      BY <1>0 DEF WithMCM, WithWork, WithCluster, Objects
    <3>2. api'.builds = api.builds /\ api'.jobs = api.jobs
      BY <2>3, <3>1 DEF OtherEvents
    <3> QED
      BY <1>3, <3>2, WorkSame
  <2> QED
    BY <1>1, <2>1, <2>2, <2>3
<1> QED
  BY <1>3, <1>4, <1>5 DEF ImagesInv

\* At the start there is neither a Build nor a Job.
LEMMA ImagesInit ==
  ASSUME Init
  PROVE  ImagesInv
<1>1. /\ api.builds = [n \in Names |-> Absent] /\ api.jobs = [n \in Names |-> Absent]
      /\ cache = api /\ pc = "idle"
  BY DEF Init
<1> QED
  BY <1>1 DEF ImagesInv, WorkPushed, LoopPushed, Handling

\* Only CreateOrPatch hands a cluster a ManifestWork or changes the image in one.
LEMMA WhoWrites ==
  ASSUME TypeInv, Next, ~ CreateOrPatchManifestWork
  PROVE  \A c \in Clusters : api'.works[c] # Absent
            => api.works[c] # Absent /\ api'.works[c].image = api.works[c].image
<1>0. api \in Objects /\ ObjectsTyped
  BY DEF TypeInv, ObjectsTyped
<1>1. ASSUME api'.works = api.works
      PROVE  \A c \in Clusters : api'.works[c] # Absent
                => api.works[c] # Absent /\ api'.works[c].image = api.works[c].image
  BY <1>1
<1>2. \A n, x : /\ WithMCM(api, x).works = api.works
                /\ WithBuild(api, n, x).works = api.works
                /\ WithJob(api, n, x).works = api.works
                /\ WithCluster(api, n, x).works = api.works
  BY <1>0 DEF WithMCM, WithBuild, WithJob, WithCluster, Objects
<1>3. \A c, x : WithWork(api, c, x).works = [api.works EXCEPT ![c] = x]
  BY <1>0 DEF WithWork, Objects
<1>4. ASSUME NEW d \in Clusters, NEW x, api' = WithWork(api, d, x),
             x # Absent => api.works[d] # Absent /\ x.image = api.works[d].image
      PROVE  \A c \in Clusters : api'.works[c] # Absent
                => api.works[c] # Absent /\ api'.works[c].image = api.works[c].image
  <2>1. DOMAIN api.works = Clusters
    BY <1>0 DEF Objects
  <2>2. \A c \in Clusters : api'.works[c] = (IF c = d THEN x ELSE api.works[c])
    <3>1. WithWork(api, d, x).works = [api.works EXCEPT ![d] = x]
      BY <1>3
    <3>2. api'.works = [api.works EXCEPT ![d] = x]
      BY <1>4, <3>1
    <3> QED
      BY <2>1, <3>2
  <2> QED
    BY <1>4, <2>2
<1>5. CASE SyncBuild \/ SyncSign
  BY <1>1, <1>2, <1>5, SyncWrites
<1>6. CASE ManagedClusterModuleUpdateStatus
  BY <1>0, <1>1, <1>6 DEF ManagedClusterModuleUpdateStatus, Objects
<1>7. CASE \E c \in Clusters : GarbageCollectWork(c)
  <2> PICK d \in Clusters : GarbageCollectWork(d)
    BY <1>7
  <2>1. api' = api \/ api' = WithWork(api, d, Absent)
    BY DEF GarbageCollectWork, WithWork
  <2> QED
    BY <1>1, <1>4, <2>1
<1>8. CASE Environment \/ Users
  <2>1. BuildEvents \/ JobEvents \/ OtherEvents
    BY <1>0, <1>8, SurroundingSteps
  <2>2. CASE BuildEvents \/ JobEvents
    BY <1>1, <1>2, <2>2 DEF BuildEvents, JobEvents
  <2>3. CASE OtherEvents
    BY <1>1, <1>2, <1>4, <2>3 DEF OtherEvents
  <2> QED
    BY <2>1, <2>2, <2>3
<1>9. CASE UNCHANGED api
  BY <1>1, <1>9
<1> QED
  BY <1>5, <1>6, <1>7, <1>8, <1>9
  DEF Next, Reconcile, GetRequested, StartCluster, BuildKernel, SignKernel,
      BuildAndSignReturns, ListManifestWorks, ClusterFails, ReconcileError, Deliver,
      Resync, Restart

\* With build and sign sections that the reconciler's copies of the Module do not share,
\* a cluster is handed a Module, or a new version of it, only after the images of all its
\* kernels were pushed, whatever Build, Job or cache the hub finds on the way: one
\* kernel that is not done keeps the ManifestWork back, and so does every error.
THEOREM WorkSafety ==
  ASSUME ~ MappingLevel, OneImagePerDockerfile
  PROVE  Spec => ManifestWorkAfterImages
<1> DEFINE Handed == \A c \in Clusters :
                        /\ api'.works[c] # Absent
                        /\ api.works[c] = Absent \/ api'.works[c].image # api.works[c].image
                        /\ ShouldBeBuilt(mcm.spec) \/ ShouldBeSigned(mcm.spec)
                        => \A k \in kernelMappingsByKernelVersion(mcm.spec, selected[c].claim) :
                              ContainerImage(mcm.spec, k) \in registry
<1>1. Init => TypeInv /\ ImagesInv
  BY InitTyped, ImagesInit
<1>2. TypeInv /\ ImagesInv /\ [Next]_vars => (TypeInv /\ ImagesInv)'
  <2> SUFFICES ASSUME TypeInv, ImagesInv, [Next]_vars PROVE TypeInv' /\ ImagesInv'
    OBVIOUS
  <2>1. TypeInv'
    BY StepTyped
  <2>2. CASE UNCHANGED vars
    <3>1. UNCHANGED <<api, cache, registry, pc, mcm, selected, cluster, kernels, cur, ok>>
      BY <2>2 DEF vars, locals
    <3>2. LoopPushed'
      BY <3>1, LoopRests DEF ImagesInv
    <3> QED
      BY <2>1, <3>1, <3>2 DEF ImagesInv
  <2>3. CASE Next
    <3>1. ImagesInv'
      BY <2>3, LoopsPushed, SyncPushed, WorksPushed, SurroundingsPushed, ManagerPushed
      DEF Next, Reconcile
    <3> QED
      BY <2>1, <3>1
  <2> QED
    BY <2>2, <2>3
<1>3. TypeInv /\ ImagesInv /\ [Next]_vars => [Handed]_vars
  <2> SUFFICES ASSUME TypeInv, ImagesInv, Next PROVE Handed
    OBVIOUS
  <2>1. CASE ~ CreateOrPatchManifestWork
    BY <2>1, WhoWrites
  <2>2. CASE CreateOrPatchManifestWork
    <3>0. /\ api \in Objects /\ LoopPushed /\ pc = "work"
      BY <2>2 DEF TypeInv, ObjectsTyped, ImagesInv, CreateOrPatchManifestWork, At
    <3>1. \A c \in Clusters : c # cluster => api'.works[c] = api.works[c]
      <4>1. \A x : /\ DOMAIN api.works = Clusters
                   /\ WithWork(api, cluster, x).works = [api.works EXCEPT ![cluster] = x]
        BY <3>0 DEF WithWork, Objects
      <4>2. api' = api \/ \E x : api' = WithWork(api, cluster, x)
        BY <2>2, WorkStep
      <4> QED
        BY <4>1, <4>2
    <3>2. ok /\ kernels = {}
      BY <3>0 DEF LoopPushed
    <3>3. Handled = kernelMappingsByKernelVersion(mcm.spec, selected[cluster].claim)
      BY <3>0, <3>2 DEF Handled, OnKernel
    <3>4. Makes => \A k \in Handled : ContainerImage(mcm.spec, k) \in registry
      BY <3>0, <3>2 DEF LoopPushed, Handling
    <3> QED
      BY <3>1, <3>3, <3>4 DEF Makes
  <2> QED
    BY <2>1, <2>2
<1> QED
  BY <1>1, <1>2, <1>3, PTL DEF Spec, ManifestWorkAfterImages

===========================================================================
