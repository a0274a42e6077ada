---------------------- MODULE ModuleReconcilerProofs ----------------------
(***************************************************************************)
(* Proofs about ModuleReconciler for any kernels, nodes and specs, whatever *)
(* the caches' lag and however many edits, failures and crashes happen.     *)
(***************************************************************************)
EXTENDS ModuleReconciler, WorkloadsProofs

USE DEF At

\* What users owe the operator besides OneImagePerDockerfile: an image that is
\* neither built nor signed has been pushed.
UserImagesPushed ==
    \A s \in Specs, k \in Kernels :
        ~ ShouldBeBuilt(s) /\ ~ ShouldBeSigned(s) => ContainerImage(s, k) \in Prebuilt

-----------------------------------------------------------------------------
(* The inductive invariant, in parts.  r is the content of the registry.    *)

\* A Build in the API server or in a cache comes from a spec users wrote.
BuildShape(x, r) ==
    /\ DOMAIN x = {"kernel", "hash", "output", "phase"}
    /\ x.kernel \in Kernels
    /\ \E s \in Specs : /\ ShouldBeBuilt(s) /\ x.hash = s.dockerfile
                        /\ x.output = BuildTarget(s, x.kernel)
    /\ x.phase = "Complete" => x.output \in r

JobShape(x, r) ==
    /\ DOMAIN x = {"kernel", "hash", "phase"}
    /\ x.phase = "Succeeded" => x.hash[3] \in r

ModuleShape(x) == DOMAIN x = {"spec", "status"} /\ x.spec \in Specs

DaemonSetShape(x) == DOMAIN x = {"kernel", "image", "available"}

Shape(o, r) ==
    /\ DOMAIN o = Kinds
    /\ DOMAIN o.builds = Names /\ DOMAIN o.jobs = Names
    /\ DOMAIN o.daemonsets = DaemonSetNames
    /\ o.module # Absent => ModuleShape(o.module)
    /\ \A b \in Names : o.builds[b] # Absent => BuildShape(o.builds[b], r)
    /\ \A j \in Names : o.jobs[j] # Absent => JobShape(o.jobs[j], r)
    /\ \A n \in DaemonSetNames :
          o.daemonsets[n] # Absent => DaemonSetShape(o.daemonsets[n])

\* The images the driver-container DaemonSets run.
ImagesIn(o, r) ==
    \A n \in Names : o.daemonsets[n] # Absent => o.daemonsets[n].image \in r

\* What the loop knows at each of its steps.
LoopTyped ==
    /\ pc # "idle" => mod.spec \in Specs
    /\ todo \subseteq Kernels
    /\ pc \in {"buildSync", "sign", "signSync", "driver"} => cur \in Kernels
    /\ pc = "buildSync" => ShouldBeBuilt(mod.spec)

LoopKnows ==
    /\ pc \in {"sign", "signSync"} /\ ShouldBeBuilt(mod.spec)
          => BuildTarget(mod.spec, cur) \in registry
    /\ pc = "driver" => ContainerImage(mod.spec, cur) \in registry

ImagesInv ==
    /\ Prebuilt \subseteq registry
    /\ Shape(api, registry) /\ Shape(cache, registry) /\ ImagesIn(api, registry)
    /\ LoopTyped /\ LoopKnows

-----------------------------------------------------------------------------
(* What a write to the API server keeps.                                    *)

\* What is known of objects stays true when images are added to the registry.
LEMMA ShapeMonotone ==
  ASSUME NEW o, NEW r, NEW q, Shape(o, r), r \subseteq q
  PROVE  Shape(o, q)
BY DEF Shape, BuildShape, JobShape

\* Writing or deleting a Build.
LEMMA BuildWritten ==
  ASSUME NEW o, NEW r, NEW b, NEW x, Shape(o, r), ImagesIn(o, r),
         x # Absent => BuildShape(x, r)
  PROVE  /\ Shape([o EXCEPT !.builds[b] = x], r)
         /\ ImagesIn([o EXCEPT !.builds[b] = x], r)
<1> DEFINE p == [o EXCEPT !.builds[b] = x]
<1>1. /\ DOMAIN p = Kinds
      /\ p.builds = [o.builds EXCEPT ![b] = x]
      /\ p.jobs = o.jobs /\ p.daemonsets = o.daemonsets /\ p.module = o.module
  BY DEF Shape, Kinds
<1> QED
  BY <1>1 DEF Shape, ImagesIn

\* Writing or deleting a signing Job.
LEMMA JobWritten ==
  ASSUME NEW o, NEW r, NEW j, NEW x, Shape(o, r), ImagesIn(o, r),
         x # Absent => JobShape(x, r)
  PROVE  /\ Shape([o EXCEPT !.jobs[j] = x], r)
         /\ ImagesIn([o EXCEPT !.jobs[j] = x], r)
<1> DEFINE p == [o EXCEPT !.jobs[j] = x]
<1>1. /\ DOMAIN p = Kinds
      /\ p.jobs = [o.jobs EXCEPT ![j] = x]
      /\ p.builds = o.builds /\ p.daemonsets = o.daemonsets /\ p.module = o.module
  BY DEF Shape, Kinds
<1> QED
  BY <1>1 DEF Shape, ImagesIn

\* Writing or deleting a DaemonSet.  The device plugin's image is not asked for.
LEMMA DaemonSetWritten ==
  ASSUME NEW o, NEW r, NEW n, NEW x, Shape(o, r), ImagesIn(o, r),
         n \in DaemonSetNames /\ x # Absent => DaemonSetShape(x),
         n \in Names /\ x # Absent => x.image \in r
  PROVE  /\ Shape([o EXCEPT !.daemonsets[n] = x], r)
         /\ ImagesIn([o EXCEPT !.daemonsets[n] = x], r)
<1> DEFINE p == [o EXCEPT !.daemonsets[n] = x]
<1>1. /\ DOMAIN p = Kinds
      /\ p.daemonsets = [o.daemonsets EXCEPT ![n] = x]
      /\ p.builds = o.builds /\ p.jobs = o.jobs /\ p.module = o.module
  BY DEF Shape, Kinds
<1>2. Names \subseteq DaemonSetNames
  BY DEF DaemonSetNames
<1> QED
  BY <1>1, <1>2 DEF Shape, ImagesIn

\* Writing the Module.
LEMMA ModuleWritten ==
  ASSUME NEW o, NEW r, NEW x, Shape(o, r), ImagesIn(o, r),
         x # Absent => ModuleShape(x)
  PROVE  /\ Shape([o EXCEPT !.module = x], r)
         /\ ImagesIn([o EXCEPT !.module = x], r)
BY DEF Shape, ImagesIn, Kinds

\* Writing a node.
LEMMA NodesWritten ==
  ASSUME NEW o, NEW r, NEW x, Shape(o, r), ImagesIn(o, r)
  PROVE  /\ Shape([o EXCEPT !.nodes = x], r)
         /\ ImagesIn([o EXCEPT !.nodes = x], r)
BY DEF Shape, ImagesIn, Kinds

-----------------------------------------------------------------------------
(* The API server's objects and the registry.                               *)

\* A step of the cluster or of users keeps what is known of the objects, and
\* takes no image out of the registry.
LEMMA SurroundingsKeepImages ==
  ASSUME ImagesInv, Cluster \/ Users
  PROVE  /\ registry \subseteq registry'
         /\ Shape(api', registry') /\ ImagesIn(api', registry')
<1> USE DEF ImagesInv
<1>1. ASSUME NEW n \in Nodes, LabelNode(n) PROVE
        /\ registry \subseteq registry'
        /\ Shape(api', registry') /\ ImagesIn(api', registry')
  <2>1. api' = [api EXCEPT !.nodes = api'.nodes] /\ registry' = registry
    BY <1>1 DEF LabelNode, Shape, Kinds
  <2> QED
    BY <2>1, NodesWritten
<1>2. ASSUME NEW b \in Names, BuildCompletes(b) PROVE
        /\ registry \subseteq registry'
        /\ Shape(api', registry') /\ ImagesIn(api', registry')
  <2> DEFINE x == [api.builds[b] EXCEPT !.phase = "Complete"]
  <2>1. api' = [api EXCEPT !.builds[b] = x] /\ registry \subseteq registry'
    BY <1>2 DEF BuildCompletes
  <2>2. BuildShape(x, registry')
    BY <1>2 DEF BuildCompletes, Shape, BuildShape
  <2>3. Shape(api, registry') /\ ImagesIn(api, registry')
    BY <2>1, ShapeMonotone DEF ImagesIn
  <2> HIDE DEF x
  <2> QED
    BY <2>1, <2>2, <2>3, BuildWritten
<1>3. ASSUME NEW b \in Names, BuildFails(b) PROVE
        /\ registry \subseteq registry'
        /\ Shape(api', registry') /\ ImagesIn(api', registry')
  <2> DEFINE x == [api.builds[b] EXCEPT !.phase = "Failed"]
  <2>1. api' = [api EXCEPT !.builds[b] = x] /\ registry' = registry
    BY <1>3 DEF BuildFails
  <2>2. BuildShape(x, registry)
    BY <1>3 DEF BuildFails, Shape, BuildShape
  <2> HIDE DEF x
  <2> QED
    BY <2>1, <2>2, BuildWritten
<1>4. ASSUME NEW j \in Names, JobStarts(j) \/ JobFails(j) PROVE
        /\ registry \subseteq registry'
        /\ Shape(api', registry') /\ ImagesIn(api', registry')
  <2>1. PICK ph \in {"Active", "Failed"} :
           /\ api' = [api EXCEPT !.jobs[j] = [api.jobs[j] EXCEPT !.phase = ph]]
           /\ registry \subseteq registry' /\ api.jobs[j] # Absent
    BY <1>4 DEF JobStarts, JobFails
  <2> DEFINE x == [api.jobs[j] EXCEPT !.phase = ph]
  <2>2. Shape(api, registry') /\ ImagesIn(api, registry')
    BY <2>1, ShapeMonotone DEF ImagesIn
  <2>3. JobShape(x, registry')
    BY <2>1, <2>2 DEF Shape, JobShape
  <2>4. api' = [api EXCEPT !.jobs[j] = x]
    BY <2>1
  <2> HIDE DEF x
  <2> QED
    BY <2>1, <2>2, <2>3, <2>4, JobWritten
<1>5. ASSUME NEW j \in Names, JobSucceeds(j) PROVE
        /\ registry \subseteq registry'
        /\ Shape(api', registry') /\ ImagesIn(api', registry')
  <2> DEFINE x == [api.jobs[j] EXCEPT !.phase = "Succeeded"]
  <2>1. api' = [api EXCEPT !.jobs[j] = x] /\ registry \subseteq registry'
    BY <1>5 DEF JobSucceeds
  <2>2. JobShape(x, registry')
    BY <1>5 DEF JobSucceeds, Shape, JobShape
  <2>3. Shape(api, registry') /\ ImagesIn(api, registry')
    BY <2>1, ShapeMonotone DEF ImagesIn
  <2> HIDE DEF x
  <2> QED
    BY <2>1, <2>2, <2>3, JobWritten
<1>6. ASSUME NEW n \in DaemonSetNames, DaemonSetStatus(n) PROVE
        /\ registry \subseteq registry'
        /\ Shape(api', registry') /\ ImagesIn(api', registry')
  <2> DEFINE x == [api.daemonsets[n] EXCEPT !.available = Cardinality(PodsOf(n))]
  <2>1. api' = [api EXCEPT !.daemonsets[n] = x] /\ registry' = registry
    BY <1>6 DEF DaemonSetStatus
  <2>2. DaemonSetShape(x) /\ (n \in Names => x.image \in registry)
    BY <1>6 DEF DaemonSetStatus, Shape, DaemonSetShape, ImagesIn
  <2> HIDE DEF x
  <2> QED
    BY <2>1, <2>2, DaemonSetWritten
<1>7. ASSUME NEW n \in DaemonSetNames, OwnedObjectCollected("daemonsets", n) PROVE
        /\ registry \subseteq registry'
        /\ Shape(api', registry') /\ ImagesIn(api', registry')
  <2>1. api' = [api EXCEPT !.daemonsets[n] = Absent] /\ registry' = registry
    BY <1>7 DEF OwnedObjectCollected
  <2> QED
    BY <2>1, DaemonSetWritten
<1>8. ASSUME NEW n \in Names, NEW kind \in {"builds", "jobs"},
             OwnedObjectCollected(kind, n) PROVE
        /\ registry \subseteq registry'
        /\ Shape(api', registry') /\ ImagesIn(api', registry')
  <2>1. /\ \/ api' = [api EXCEPT !.builds[n] = Absent]
           \/ api' = [api EXCEPT !.jobs[n] = Absent]
        /\ registry' = registry
    BY <1>8 DEF OwnedObjectCollected
  <2> QED
    BY <2>1, BuildWritten, JobWritten
<1>9. ASSUME NEW s \in Specs, EditModule(s) PROVE
        /\ registry \subseteq registry'
        /\ Shape(api', registry') /\ ImagesIn(api', registry')
  <2> DEFINE x == [api.module EXCEPT !.spec = s]
  <2>1. api' = [api EXCEPT !.module = x] /\ registry' = registry
    BY <1>9 DEF EditModule
  <2>2. ModuleShape(x)
    BY <1>9 DEF EditModule, Shape, ModuleShape
  <2> HIDE DEF x
  <2> QED
    BY <2>1, <2>2, ModuleWritten
<1>10. ASSUME DeleteModule PROVE
        /\ registry \subseteq registry'
        /\ Shape(api', registry') /\ ImagesIn(api', registry')
  <2>1. api' = [api EXCEPT !.module = Absent] /\ registry' = registry
    BY <1>10 DEF DeleteModule
  <2> QED
    BY <2>1, ModuleWritten
<1>11. ASSUME NEW b \in Names, UserDeletesBuild(b) PROVE
        /\ registry \subseteq registry'
        /\ Shape(api', registry') /\ ImagesIn(api', registry')
  <2>1. api' = [api EXCEPT !.builds[b] = Absent] /\ registry' = registry
    BY <1>11 DEF UserDeletesBuild
  <2> QED
    BY <2>1, BuildWritten
<1>12. ASSUME NEW n \in Nodes, NEW s \in NodeState, NEW k \in Kernels,
              ChangeNode(n, s, k) PROVE
        /\ registry \subseteq registry'
        /\ Shape(api', registry') /\ ImagesIn(api', registry')
  <2>1. api' = [api EXCEPT !.nodes = api'.nodes] /\ registry' = registry
    BY <1>12 DEF ChangeNode, Shape, Kinds
  <2> QED
    BY <2>1, NodesWritten
<1> QED
  BY <1>1, <1>2, <1>3, <1>4, <1>5, <1>6, <1>7, <1>8, <1>9, <1>10, <1>11, <1>12
     DEF Cluster, Users

\* A step of the reconciler too: it writes a DaemonSet only where the loop knows
\* that the image is there.
LEMMA ReconcilerKeepsImages ==
  ASSUME ImagesInv, Reconcile
  PROVE  /\ registry' = registry /\ cache' = cache
         /\ Shape(api', registry) /\ ImagesIn(api', registry)
<1> USE DEF ImagesInv
<1>1. CASE \/ GetRequestedModule \/ GetNodesAndMappings \/ GetDaemonSets
           \/ \E k \in Kernels : HandleBuild(k)
           \/ HandleSigning \/ ListSucceededJobs
  BY <1>1 DEF GetRequestedModule, GetNodesAndMappings, GetDaemonSets, HandleBuild,
     HandleSigning, ListSucceededJobs
<1>2. CASE SyncBuild
  <2>1. registry' = registry /\ cache' = cache
    BY <1>2 DEF SyncBuild
  <2>2. CASE CreateBuild
    <3>1. PICK b \in Names :
             api' = [api EXCEPT !.builds[b] = MakeBuildTemplate(mod.spec, cur, TRUE)]
      BY <2>2 DEF CreateBuild, NewNames
    <3>2. BuildShape(MakeBuildTemplate(mod.spec, cur, TRUE), registry)
      BY <1>2 DEF SyncBuild, LoopTyped, BuildShape, MakeBuildTemplate
    <3> QED
      BY <2>1, <3>1, <3>2, BuildWritten
  <2>3. CASE DeleteChangedBuild
    BY <2>1, <2>3, BuildWritten DEF DeleteChangedBuild
  <2> QED
    BY <1>2, <2>1, <2>2, <2>3 DEF SyncBuild
<1>3. CASE SyncSign
  <2>1. registry' = registry /\ cache' = cache
    BY <1>3 DEF SyncSign
  <2>2. CASE CreateSignJob
    <3>1. PICK j \in Names :
             api' = [api EXCEPT !.jobs[j] = MakeJobTemplate(mod.spec, cur, TRUE)]
      BY <2>2 DEF CreateSignJob, NewNames
    <3>2. JobShape(MakeJobTemplate(mod.spec, cur, TRUE), registry)
      BY DEF JobShape, MakeJobTemplate
    <3> QED
      BY <2>1, <3>1, <3>2, JobWritten
  <2>3. CASE DeleteChangedJob
    BY <2>1, <2>3, JobWritten DEF DeleteChangedJob
  <2> QED
    BY <1>3, <2>1, <2>2, <2>3 DEF SyncSign
<1>4. CASE HandleDriverContainer
  <2>1. registry' = registry /\ cache' = cache /\ pc = "driver"
    BY <1>4 DEF HandleDriverContainer
  <2>2. ContainerImage(mod.spec, cur) \in registry
    BY <2>1 DEF LoopKnows
  <2>3. CASE CreateDriverContainer
    <3>1. PICK n \in Names :
             api' = [api EXCEPT !.daemonsets[n] =
                                    SetDriverContainerAsDesired(mod.spec, cur)]
      BY <2>3 DEF CreateDriverContainer, NewNames
    <3>2. /\ DaemonSetShape(SetDriverContainerAsDesired(mod.spec, cur))
          /\ SetDriverContainerAsDesired(mod.spec, cur).image \in registry
      BY <2>2 DEF DaemonSetShape, SetDriverContainerAsDesired
    <3> QED
      BY <2>1, <3>1, <3>2, DaemonSetWritten
  <2>4. CASE PatchDriverContainer
    <3> DEFINE n == dsByKernel[cur].name
               x == [api.daemonsets[n] EXCEPT !.image = ContainerImage(mod.spec, cur)]
    <3>1. CASE UNCHANGED api
      BY <2>1, <3>1
    <3>2. CASE api' # api
      <4>1. api.daemonsets[n] # Absent /\ api' = [api EXCEPT !.daemonsets[n] = x]
        BY <2>4, <3>2 DEF PatchDriverContainer
      <4>2. n \in DaemonSetNames => DaemonSetShape(x) /\ x.image \in registry
        BY <2>2, <4>1 DEF Shape, DaemonSetShape
      <4>3. Names \subseteq DaemonSetNames
        BY DEF DaemonSetNames
      <4> HIDE DEF x, n
      <4> QED
        BY <2>1, <4>1, <4>2, <4>3, DaemonSetWritten
    <3> QED
      BY <3>1, <3>2
  <2> QED
    BY <1>4, <2>3, <2>4 DEF HandleDriverContainer
<1>5. CASE HandleDevicePlugin
  <2>1. registry' = registry /\ cache' = cache
    BY <1>5 DEF HandleDevicePlugin
  <2>2. \/ UNCHANGED api
        \/ api' = [api EXCEPT !.daemonsets[DevicePluginName] = SetDevicePluginAsDesired]
    BY <1>5 DEF HandleDevicePlugin
  <2>3. DaemonSetShape(SetDevicePluginAsDesired) /\ DevicePluginName \notin Names
    BY ModuleDataAssumption DEF DaemonSetShape, SetDevicePluginAsDesired
  <2> QED
    BY <2>1, <2>2, <2>3, DaemonSetWritten
<1>6. ASSUME NEW n \in Names, GarbageCollectDaemonSet(n) \/ GarbageCollectJob(n)
      PROVE  /\ registry' = registry /\ cache' = cache
             /\ Shape(api', registry) /\ ImagesIn(api', registry)
  <2>1. registry' = registry /\ cache' = cache
    BY <1>6 DEF GarbageCollectDaemonSet, GarbageCollectJob
  <2>2. \/ UNCHANGED api
        \/ api' = [api EXCEPT !.daemonsets[n] = Absent]
        \/ api' = [api EXCEPT !.jobs[n] = Absent]
    BY <1>6 DEF GarbageCollectDaemonSet, GarbageCollectJob
  <2> QED
    BY <2>1, <2>2, DaemonSetWritten, JobWritten
<1>7. CASE ModuleUpdateStatus
  <2>1. registry' = registry /\ cache' = cache
    BY <1>7 DEF ModuleUpdateStatus
  <2>2. CASE UNCHANGED api
    BY <2>1, <2>2
  <2>3. CASE api.module # Absent /\ api' # api
    <3> DEFINE new == DesiredStatus
               st == [f \in DOMAIN new |-> IF new[f] # mod.status[f]
                                           THEN new[f] ELSE api.module.status[f]]
               x == [api.module EXCEPT !.status = st]
    <3>1. api' = [api EXCEPT !.module = x]
      BY <1>7, <2>3 DEF ModuleUpdateStatus
    <3> HIDE DEF st
    <3>2. ModuleShape(x) /\ api' = [api EXCEPT !.module = x]
      BY <2>3, <3>1 DEF Shape, ModuleShape
    <3> HIDE DEF x
    <3> QED
      BY <2>1, <3>2, ModuleWritten
  <2> QED
    BY <1>7, <2>2, <2>3 DEF ModuleUpdateStatus
<1> QED
  BY <1>1, <1>2, <1>3, <1>4, <1>5, <1>6, <1>7 DEF Reconcile

-----------------------------------------------------------------------------
(* What the loop knows.                                                     *)

\* A Build that Sync reports as completed, however old the cache is, has pushed
\* the image this spec asks for.
LEMMA CompletedBuildPushed ==
  ASSUME OneImagePerDockerfile, ImagesInv, pc = "buildSync",
         BuildSync(mod.spec, cur, TRUE, cache.builds) = "completed"
  PROVE  BuildTarget(mod.spec, cur) \in registry
<1> DEFINE push == TRUE
<1>1. DOMAIN cache.builds = Names /\ BuildSync(mod.spec, cur, push, cache.builds) = "completed"
  BY DEF ImagesInv, Shape
<1> HIDE DEF push
<1>2. PICK b \in Names : /\ cache.builds[b] # Absent /\ cache.builds[b].kernel = cur
                         /\ cache.builds[b].hash = mod.spec.dockerfile
                         /\ cache.builds[b].phase = "Complete"
  BY <1>1, CompletedBuild
<1>3. BuildShape(cache.builds[b], registry)
  BY <1>2 DEF ImagesInv, Shape
<1>4. PICK s \in Specs : /\ ShouldBeBuilt(s) /\ cache.builds[b].hash = s.dockerfile
                         /\ cache.builds[b].output = BuildTarget(s, cur)
  BY <1>2, <1>3 DEF BuildShape
<1>5. ShouldBeBuilt(mod.spec) /\ mod.spec \in Specs /\ cur \in Kernels
  BY DEF ImagesInv, LoopTyped
<1>6. BuildTarget(s, cur) = BuildTarget(mod.spec, cur)
  BY <1>2, <1>4, <1>5 DEF OneImagePerDockerfile
<1> QED
  BY <1>2, <1>3, <1>4, <1>6 DEF BuildShape

\* The same of a signing Job, whose hash covers the image it pushes.
LEMMA CompletedJobPushed ==
  ASSUME ImagesInv, SignSync(mod.spec, cur, TRUE, cache.jobs) = "completed"
  PROVE  ContainerImage(mod.spec, cur) \in registry
<1> DEFINE push == TRUE
<1>1. DOMAIN cache.jobs = Names /\ SignSync(mod.spec, cur, push, cache.jobs) = "completed"
  BY DEF ImagesInv, Shape
<1> HIDE DEF push
<1>2. PICK j \in Names : /\ cache.jobs[j] # Absent
                         /\ cache.jobs[j].hash = MakeJobTemplate(mod.spec, cur, push).hash
                         /\ cache.jobs[j].phase = "Succeeded"
  BY <1>1, CompletedJob
<1>3. cache.jobs[j].hash[3] \in registry
  BY <1>2 DEF ImagesInv, Shape, JobShape
<1> QED
  BY <1>2, <1>3 DEF MakeJobTemplate, push

\* Every step of the loop leaves it with enough knowledge for the next one.
LEMMA LoopStep ==
  ASSUME OneImagePerDockerfile, UserImagesPushed, ImagesInv, Reconcile
  PROVE  LoopTyped' /\ LoopKnows'
<1> USE DEF LoopTyped, LoopKnows
<1>0. /\ Prebuilt \subseteq registry /\ Shape(cache, registry)
      /\ LoopTyped /\ LoopKnows
  BY DEF ImagesInv
<1>1. CASE GetRequestedModule
  <2>1. cache.module # Absent => cache.module.spec \in Specs
    BY <1>0 DEF Shape, ModuleShape
  <2> QED
    BY <1>0, <1>1, <2>1 DEF GetRequestedModule
<1>2. CASE GetNodesAndMappings
  <2>1. mod.spec \in Specs /\ mod.spec.kernels \subseteq Kernels
    BY <1>0, <1>2, ModuleDataAssumption DEF GetNodesAndMappings, ModuleSpec
  <2>2. RelevantKernels(mod.spec, cache.nodes) \subseteq Kernels
    BY <2>1 DEF RelevantKernels, NodesWithMapping
  <2> QED
    BY <1>0, <1>2, <2>1, <2>2 DEF GetNodesAndMappings
<1>3. CASE GetDaemonSets
  BY <1>0, <1>3 DEF GetDaemonSets, Return, IdleLocals
<1>4. ASSUME NEW k \in Kernels, HandleBuild(k) PROVE LoopTyped' /\ LoopKnows'
  BY <1>0, <1>4 DEF HandleBuild, BuildShouldSync
<1>5. CASE SyncBuild
  <2> DEFINE result == BuildSync(mod.spec, cur, TRUE, cache.builds)
  <2>1. CASE result = "error"
    BY <1>0, <1>5, <2>1 DEF SyncBuild, Return, IdleLocals
  <2>2. CASE result # "error"
    <3>1. result = "completed" => BuildTarget(mod.spec, cur) \in registry
      BY <1>5, CompletedBuildPushed DEF SyncBuild
    <3>2. /\ UNCHANGED <<mod, todo, cur, registry>> /\ pc = "buildSync"
          /\ pc' = IF result = "completed" THEN "sign" ELSE "kernels"
      BY <1>5, <2>2 DEF SyncBuild, locals
    <3> HIDE DEF result
    <3> QED
      BY <1>0, <3>1, <3>2
  <2> QED
    BY <2>1, <2>2
<1>6. CASE HandleSigning
  <2>1. ~ SignShouldSync(mod.spec, cur, registry)
          => ContainerImage(mod.spec, cur) \in registry
    BY <1>0, <1>6 DEF HandleSigning, SignShouldSync, UserImagesPushed, BuildTarget
  <2> QED
    BY <1>0, <1>6, <2>1 DEF HandleSigning, locals
<1>7. CASE SyncSign
  <2> DEFINE result == SignSync(mod.spec, cur, TRUE, cache.jobs)
  <2>1. CASE result = "error"
    BY <1>0, <1>7, <2>1 DEF SyncSign, Return, IdleLocals
  <2>2. CASE result # "error"
    <3>1. result = "completed" => ContainerImage(mod.spec, cur) \in registry
      BY CompletedJobPushed
    <3>2. /\ UNCHANGED <<mod, todo, cur, registry>> /\ pc = "signSync"
          /\ pc' = IF result = "completed" THEN "driver" ELSE "kernels"
      BY <1>7, <2>2 DEF SyncSign, locals
    <3> HIDE DEF result
    <3> QED
      BY <1>0, <3>1, <3>2
  <2> QED
    BY <2>1, <2>2
<1>8. CASE HandleDriverContainer
  BY <1>0, <1>8 DEF HandleDriverContainer, CreateDriverContainer,
     PatchDriverContainer, Return, IdleLocals, locals
<1>9. CASE HandleDevicePlugin
  BY <1>0, <1>9 DEF HandleDevicePlugin, Return, IdleLocals
<1>10. ASSUME NEW n \in Names, GarbageCollectDaemonSet(n) \/ GarbageCollectJob(n)
       PROVE  LoopTyped' /\ LoopKnows'
  BY <1>0, <1>10 DEF GarbageCollectDaemonSet, GarbageCollectJob, Return, IdleLocals
<1>11. CASE ListSucceededJobs \/ ModuleUpdateStatus
  BY <1>0, <1>11 DEF ListSucceededJobs, ModuleUpdateStatus, Return, IdleLocals
<1> QED
  BY <1>1, <1>2, <1>3, <1>4, <1>5, <1>6, <1>7, <1>8, <1>9, <1>10, <1>11 DEF Reconcile

-----------------------------------------------------------------------------
\* The invariant holds, whatever the caches' lag, the order of events, failures and
\* crashes.
LEMMA ImagesKept ==
  ASSUME OneImagePerDockerfile, UserImagesPushed
  PROVE  Spec => []ImagesInv
<1>1. Init => ImagesInv
  <2> SUFFICES ASSUME Init PROVE ImagesInv
    OBVIOUS
  <2>1. PICK s \in InitSpecs, runs \in [Nodes -> Kernels] :
          api = [module |-> [spec |-> s, status |-> NoStatus],
                  nodes |-> [n \in Nodes |-> [state |-> "ready", kernel |-> runs[n],
                                              label |-> runs[n]]],
                  daemonsets |-> NoObjects(DaemonSetNames),
                  builds |-> NoObjects(Names),
                  jobs |-> NoObjects(Names)]
    BY DEF Init
  <2>2. cache = api /\ registry = Prebuilt /\ pc = "idle" /\ todo = {}
    BY DEF Init
  <2>3. Names \subseteq DaemonSetNames /\ s \in Specs
    BY <2>1, ReconcilerAssumption DEF DaemonSetNames
  <2>4. Shape(api, registry) /\ ImagesIn(api, registry)
    BY <2>1, <2>3 DEF Shape, ImagesIn, Kinds, NoObjects, ModuleShape
  <2> QED
    BY <2>2, <2>4 DEF ImagesInv, LoopTyped, LoopKnows
<1>2. ImagesInv /\ [Next]_vars => ImagesInv'
  <2> SUFFICES ASSUME ImagesInv, [Next]_vars PROVE ImagesInv'
    OBVIOUS
  <2>1. CASE Reconcile
    BY <2>1, ReconcilerKeepsImages, LoopStep DEF ImagesInv
  <2>2. CASE Cluster \/ Users
    <3>1. /\ registry \subseteq registry'
          /\ Shape(api', registry') /\ ImagesIn(api', registry')
      BY <2>2, SurroundingsKeepImages
    <3>2. UNCHANGED <<cache, pc, mod, todo, cur>>
      BY <2>2 DEF Cluster, Users, LabelNode, BuildCompletes, BuildFails, JobStarts,
         JobSucceeds, JobFails, DaemonSetStatus, OwnedObjectCollected, EditModule,
         DeleteModule, UserDeletesBuild, ChangeNode, operator, locals
    <3>3. Shape(cache, registry')
      BY <3>1, ShapeMonotone DEF ImagesInv
    <3> QED
      BY <3>1, <3>2, <3>3 DEF ImagesInv, LoopTyped, LoopKnows
  <2>3. CASE ReconcileError
    BY <2>3 DEF ReconcileError, Return, IdleLocals, ImagesInv, LoopTyped, LoopKnows
  <2>4. CASE Resync
    BY <2>4 DEF Resync, locals, ImagesInv, LoopTyped, LoopKnows
  <2>5. CASE Restart
    BY <2>5 DEF Restart, IdleLocals, ImagesInv, LoopTyped, LoopKnows
  <2>6. ASSUME NEW kind \in Kinds, Deliver(kind) PROVE ImagesInv'
    <3>1. UNCHANGED <<api, registry, pc, mod, todo, cur>>
      BY <2>6 DEF Deliver, locals
    <3>2. Shape(cache', registry)
      <4>1. cache' = [cache EXCEPT ![kind] = api[kind]]
        BY <2>6 DEF Deliver
      <4>2. DOMAIN cache' = Kinds
            /\ \A x \in Kinds : cache'[x] \in {cache[x], api[x]}
        BY <4>1 DEF ImagesInv, Shape
      <4>3. /\ cache'.module \in {cache.module, api.module}
            /\ cache'.builds \in {cache.builds, api.builds}
            /\ cache'.jobs \in {cache.jobs, api.jobs}
            /\ cache'.daemonsets \in {cache.daemonsets, api.daemonsets}
        BY <4>2 DEF Kinds
      <4> QED
        BY <4>2, <4>3 DEF ImagesInv, Shape
    <3> QED
      BY <3>1, <3>2 DEF ImagesInv, LoopTyped, LoopKnows
  <2>7. CASE UNCHANGED vars
    BY <2>7 DEF vars, locals, ImagesInv, LoopTyped, LoopKnows
  <2> QED
    BY <2>1, <2>2, <2>3, <2>4, <2>5, <2>6, <2>7 DEF Next
<1> QED
  BY <1>1, <1>2, PTL DEF Spec

\* Whatever the caches' lag, the order of events, failures and crashes, a driver
\* container is deployed only with an image that can be pulled: handleBuild and
\* handleSigning hold handleDriverContainer back until the image is pushed.
THEOREM ImagesSafety ==
  ASSUME OneImagePerDockerfile, UserImagesPushed
  PROVE  Spec => []DeployedImagesExist
<1>1. ImagesInv => DeployedImagesExist
  BY DEF ImagesInv, ImagesIn, DeployedImagesExist
<1> QED
  BY <1>1, ImagesKept, PTL

\* What the loop concludes from a Build or a Job that it reads from a cache, however
\* old, is true of the registry when the DaemonSet is written.
THEOREM PushedSafety ==
  ASSUME OneImagePerDockerfile, UserImagesPushed
  PROVE  Spec => []PushedBeforeUse
<1>1. ImagesInv => PushedBeforeUse
  BY DEF ImagesInv, PushedBeforeUse, Shape, BuildShape, JobShape, LoopKnows
<1> QED
  BY <1>1, ImagesKept, PTL

-----------------------------------------------------------------------------
(* One DaemonSet per kernel, as long as the DaemonSets listed at the start  *)
(* of a reconciliation are those of the API server: what the refinement of  *)
(* Rollout rests on.                                                        *)

\* Driver containers have a kernel, the device plugin has none, and no two
\* DaemonSets share one.
KernelsTold(d) ==
    /\ DOMAIN d = DaemonSetNames
    /\ \A n \in DaemonSetNames : d[n] # Absent =>
          /\ DaemonSetShape(d[n])
          /\ d[n].kernel \in IF n = DevicePluginName THEN {NoKernel} ELSE Kernels
    /\ ~ DuplicateKernel(d)

Handling == pc \in {"buildSync", "sign", "signSync", "driver"}

InLoop == Handling \/ pc = "kernels"

\* The kernels the loop still has to look at.  Those without a DaemonSet in
\* dsByKernel still have none.
Ahead(k) == k \in todo \/ (Handling /\ k = cur)

Unseen ==
    InLoop => \A k \in Kernels :
                 Ahead(k) /\ dsByKernel[k].name = Absent
                     => ForKernel(api.daemonsets, k) = {}

OneEachInv ==
    /\ DOMAIN api = Kinds
    /\ DOMAIN dsByKernel = DSKernels
    /\ KernelsTold(api.daemonsets)
    /\ Handling => cur \in Kernels \ todo
    /\ Unseen

\* e has no DaemonSet that d has not, and the same kernels.
NoNewer(d, e) ==
    /\ DOMAIN e = DaemonSetNames
    /\ \A n \in DaemonSetNames : e[n] # Absent =>
          d[n] # Absent /\ DaemonSetShape(e[n]) /\ e[n].kernel = d[n].kernel

\* Deleting DaemonSets, or changing anything but their kernel, keeps both parts.
LEMMA NoNewerKeeps ==
  ASSUME NEW d, NEW e, KernelsTold(d), NoNewer(d, e)
  PROVE  /\ KernelsTold(e)
         /\ \A k : ForKernel(d, k) = {} => ForKernel(e, k) = {}
BY DEF KernelsTold, NoNewer, DuplicateKernel, ForKernel, Existing

\* Nothing but handleDriverContainer and handleDevicePlugin adds a DaemonSet.
LEMMA OnlyTheLoopCreates ==
  ASSUME OneEachInv, [Next]_vars,
         ~ HandleDriverContainer, ~ HandleDevicePlugin
  PROVE  DOMAIN api' = Kinds /\ NoNewer(api.daemonsets, api'.daemonsets)
<1> USE DEF OneEachInv
<1>1. CASE api'.daemonsets = api.daemonsets /\ DOMAIN api' = Kinds
  BY <1>1 DEF KernelsTold, NoNewer
<1>2. ASSUME NEW n, NEW x, api' = [api EXCEPT !.daemonsets[n] = x],
             n \in DaemonSetNames /\ x # Absent =>
                /\ api.daemonsets[n] # Absent
                /\ DaemonSetShape(x) /\ x.kernel = api.daemonsets[n].kernel
      PROVE  DOMAIN api' = Kinds /\ NoNewer(api.daemonsets, api'.daemonsets)
  <2>1. DOMAIN api' = Kinds /\ api'.daemonsets = [api.daemonsets EXCEPT ![n] = x]
    BY <1>2 DEF Kinds
  <2> QED
    BY <1>2, <2>1 DEF KernelsTold, NoNewer
<1>3. ASSUME NEW n \in DaemonSetNames, DaemonSetStatus(n)
      PROVE  DOMAIN api' = Kinds /\ NoNewer(api.daemonsets, api'.daemonsets)
  <2> DEFINE x == [api.daemonsets[n] EXCEPT !.available = Cardinality(PodsOf(n))]
  <2>1. api' = [api EXCEPT !.daemonsets[n] = x] /\ api.daemonsets[n] # Absent
    BY <1>3 DEF DaemonSetStatus
  <2>2. DaemonSetShape(x) /\ x.kernel = api.daemonsets[n].kernel
    BY <2>1 DEF KernelsTold, DaemonSetShape
  <2> HIDE DEF x
  <2> QED
    BY <1>2, <2>1, <2>2
<1>4. ASSUME NEW n \in DaemonSetNames,
             OwnedObjectCollected("daemonsets", n) \/ GarbageCollectDaemonSet(n)
      PROVE  DOMAIN api' = Kinds /\ NoNewer(api.daemonsets, api'.daemonsets)
  <2>1. UNCHANGED api \/ api' = [api EXCEPT !.daemonsets[n] = Absent]
    BY <1>4 DEF OwnedObjectCollected, GarbageCollectDaemonSet
  <2> QED
    BY <1>1, <1>2, <2>1
<1>5. CASE Cluster \/ Users
  <2>1. ASSUME NEW n \in Names, NEW kind \in {"builds", "jobs"},
               OwnedObjectCollected(kind, n)
        PROVE  api'.daemonsets = api.daemonsets /\ DOMAIN api' = Kinds
    BY <2>1 DEF OwnedObjectCollected, Kinds
  <2>2. ASSUME NEW n \in Names, \/ BuildCompletes(n) \/ BuildFails(n) \/ JobStarts(n)
                                \/ JobSucceeds(n) \/ JobFails(n) \/ UserDeletesBuild(n)
        PROVE  api'.daemonsets = api.daemonsets /\ DOMAIN api' = Kinds
    BY <2>2 DEF BuildCompletes, BuildFails, JobStarts, JobSucceeds, JobFails,
       UserDeletesBuild, Kinds
  <2>3. ASSUME \/ \E n \in Nodes : LabelNode(n)
               \/ \E s \in Specs : EditModule(s)
               \/ DeleteModule
               \/ \E n \in Nodes, s \in NodeState, k \in Kernels : ChangeNode(n, s, k)
        PROVE  api'.daemonsets = api.daemonsets /\ DOMAIN api' = Kinds
    BY <2>3 DEF LabelNode, EditModule, DeleteModule, ChangeNode, Kinds
  <2> QED
    BY <1>1, <1>3, <1>4, <1>5, <2>1, <2>2, <2>3 DEF Cluster, Users
<1>6. CASE Reconcile
  <2>1. CASE SyncBuild
    BY <1>1, <2>1 DEF SyncBuild, CreateBuild, DeleteChangedBuild, Kinds
  <2>2. CASE SyncSign
    BY <1>1, <2>2 DEF SyncSign, CreateSignJob, DeleteChangedJob, Kinds
  <2>3. ASSUME NEW n \in Names, GarbageCollectJob(n)
        PROVE  api'.daemonsets = api.daemonsets /\ DOMAIN api' = Kinds
    BY <2>3 DEF GarbageCollectJob, Kinds
  <2>4. CASE ModuleUpdateStatus
    BY <1>1, <2>4 DEF ModuleUpdateStatus, Kinds
  <2>5. CASE \/ GetRequestedModule \/ GetNodesAndMappings \/ GetDaemonSets
             \/ \E k \in Kernels : HandleBuild(k)
             \/ HandleSigning \/ ListSucceededJobs
    BY <1>1, <2>5 DEF GetRequestedModule, GetNodesAndMappings, GetDaemonSets,
       HandleBuild, HandleSigning, ListSucceededJobs
  <2>6. Names \subseteq DaemonSetNames
    BY DEF DaemonSetNames
  <2> QED
    BY <1>1, <1>4, <1>6, <2>1, <2>2, <2>3, <2>4, <2>5, <2>6 DEF Reconcile
<1>7. CASE ReconcileError \/ Resync \/ Restart \/ (\E kind \in Kinds : Deliver(kind))
           \/ UNCHANGED vars
  BY <1>1, <1>7 DEF ReconcileError, Resync, Restart, Deliver, vars
<1> QED
  BY <1>5, <1>6, <1>7 DEF Next

\* A step that creates no DaemonSet and after which the loop has nothing new ahead
\* of it keeps the invariant.
LEMMA NothingNewAhead ==
  ASSUME OneEachInv, DOMAIN api' = Kinds, NoNewer(api.daemonsets, api'.daemonsets),
         DOMAIN dsByKernel' = DSKernels,
         Handling' => cur' \in Kernels \ todo',
         InLoop' => /\ InLoop
                    /\ \A k \in Kernels :
                          Ahead(k)' => /\ Ahead(k)
                                       /\ dsByKernel'[k].name = dsByKernel[k].name
  PROVE  OneEachInv'
<1>1. KernelsTold(api'.daemonsets)
  BY NoNewerKeeps DEF OneEachInv
<1>2. Unseen'
  BY NoNewerKeeps DEF OneEachInv, Unseen
<1> QED
  BY <1>1, <1>2 DEF OneEachInv

\* Returning from a reconciliation leaves nothing ahead.
LEMMA ReturnKeepsOneEach ==
  ASSUME OneEachInv, DOMAIN api' = Kinds, NoNewer(api.daemonsets, api'.daemonsets),
         pc' = "idle", IdleLocals
  PROVE  OneEachInv'
<1>1. ~ InLoop' /\ ~ Handling'
  BY DEF InLoop, Handling
<1>2. DOMAIN dsByKernel' = DSKernels
  BY DEF IdleLocals
<1> QED
  BY <1>1, <1>2, NothingNewAhead

\* handleDriverContainer creates a DaemonSet only for a kernel that has none.
LEMMA DriverContainerKeepsOneEach ==
  ASSUME OneEachInv, HandleDriverContainer
  PROVE  OneEachInv'
<1>0. /\ pc = "driver" /\ Handling /\ InLoop /\ cur \in Kernels \ todo
      /\ DOMAIN api = Kinds /\ KernelsTold(api.daemonsets)
      /\ Kernels \subseteq DSKernels /\ Names \subseteq DaemonSetNames
      /\ DOMAIN dsByKernel = DSKernels
  BY DEF HandleDriverContainer, OneEachInv, Handling, InLoop, DSKernels, DaemonSetNames
<1>1. CASE CreateDriverContainer
  <2> DEFINE x == SetDriverContainerAsDesired(mod.spec, cur)
  <2>1. PICK n \in Names : /\ api' = [api EXCEPT !.daemonsets[n] = x]
                           /\ api.daemonsets[n] = Absent
    BY <1>1 DEF CreateDriverContainer, NewNames
  <2>2. /\ pc' = "kernels" /\ todo' = todo /\ cur' = cur /\ dsByKernel' = dsByKernel
        /\ dsByKernel[cur].name = Absent
    BY <1>1 DEF CreateDriverContainer, locals
  <2>3. DaemonSetShape(x) /\ x.kernel = cur
    BY DEF SetDriverContainerAsDesired, DaemonSetShape
  <2> HIDE DEF x
  <2>4. DOMAIN api' = Kinds /\ api'.daemonsets = [api.daemonsets EXCEPT ![n] = x]
    BY <1>0, <2>1 DEF Kinds
  <2>5. ForKernel(api.daemonsets, cur) = {}
    BY <1>0, <2>2 DEF OneEachInv, Unseen, Ahead
  <2>6. n # DevicePluginName
    BY ModuleDataAssumption
  <2>7. \A m \in DaemonSetNames : api.daemonsets[m] # Absent
                                      => api.daemonsets[m].kernel # cur
    BY <1>0, <2>5 DEF ForKernel, Existing, KernelsTold
  <2>8. ~ DuplicateKernel(api'.daemonsets)
    BY <1>0, <2>3, <2>4, <2>7 DEF DuplicateKernel, Existing, KernelsTold
  <2>9. KernelsTold(api'.daemonsets)
    BY <1>0, <2>3, <2>4, <2>6, <2>8 DEF KernelsTold
  <2>10. ~ Handling' /\ \A k \in Kernels : Ahead(k)' => Ahead(k) /\ k # cur
    BY <1>0, <2>2 DEF Handling, Ahead
  <2>11. \A k \in Kernels : k # cur /\ ForKernel(api.daemonsets, k) = {}
                                => ForKernel(api'.daemonsets, k) = {}
    BY <1>0, <2>3, <2>4 DEF ForKernel, Existing, KernelsTold
  <2>12. Unseen'
    BY <1>0, <2>2, <2>10, <2>11 DEF OneEachInv, Unseen
  <2> QED
    BY <1>0, <2>2, <2>4, <2>9, <2>10, <2>12 DEF OneEachInv
<1>2. CASE PatchDriverContainer
  <2> DEFINE n == dsByKernel[cur].name
             x == [api.daemonsets[n] EXCEPT !.image = ContainerImage(mod.spec, cur)]
  <2>1. UNCHANGED api \/ (/\ api' = [api EXCEPT !.daemonsets[n] = x]
                          /\ api.daemonsets[n] # Absent)
    BY <1>2 DEF PatchDriverContainer
  <2>2. n \in DaemonSetNames /\ api.daemonsets[n] # Absent
          => DaemonSetShape(x) /\ x.kernel = api.daemonsets[n].kernel
    BY <1>0 DEF KernelsTold, DaemonSetShape
  <2>3. /\ (pc' = "idle" /\ IdleLocals)
           \/ (/\ pc' = "kernels" /\ todo' = todo /\ cur' = cur
               /\ dsByKernel' = [dsByKernel EXCEPT ![cur].available =
                                     cache.daemonsets[n].available])
    BY <1>2 DEF PatchDriverContainer, Return
  <2> HIDE DEF n, x
  <2>4. DOMAIN api' = Kinds /\ NoNewer(api.daemonsets, api'.daemonsets)
    <3>1. CASE UNCHANGED api
      BY <1>0, <3>1 DEF NoNewer, KernelsTold
    <3>2. CASE api' = [api EXCEPT !.daemonsets[n] = x] /\ api.daemonsets[n] # Absent
      <4>1. DOMAIN api' = Kinds
            /\ api'.daemonsets = [api.daemonsets EXCEPT ![n] = x]
        BY <1>0, <3>2 DEF Kinds
      <4> QED
        BY <1>0, <2>2, <3>2, <4>1 DEF NoNewer, KernelsTold
    <3> QED
      BY <2>1, <3>1, <3>2
  <2>5. CASE pc' = "idle" /\ IdleLocals
    BY <2>4, <2>5, ReturnKeepsOneEach
  <2>6. CASE ~ (pc' = "idle" /\ IdleLocals)
    <3>1. /\ pc' = "kernels" /\ todo' = todo /\ DOMAIN dsByKernel' = DSKernels
          /\ \A k \in Kernels : k # cur => dsByKernel'[k] = dsByKernel[k]
      BY <1>0, <2>3, <2>6
    <3>2. ~ Handling' /\ \A k \in Kernels : Ahead(k)' => Ahead(k) /\ k # cur
      BY <1>0, <3>1 DEF Handling, Ahead
    <3> QED
      BY <1>0, <2>4, <3>1, <3>2, NothingNewAhead
  <2> QED
    BY <2>5, <2>6
<1> QED
  BY <1>1, <1>2 DEF HandleDriverContainer

\* The device plugin's DaemonSet is the only one without a kernel.
LEMMA DevicePluginKeepsOneEach ==
  ASSUME OneEachInv, HandleDevicePlugin
  PROVE  OneEachInv'
<1> DEFINE x == SetDevicePluginAsDesired
           d == DevicePluginName
<1>1. \/ UNCHANGED api
      \/ api' = [api EXCEPT !.daemonsets[d] = x] /\ api.daemonsets[d] = Absent
  BY DEF HandleDevicePlugin
<1>2. /\ pc' \in {"idle", "gcDaemonSets"}
      /\ DOMAIN dsByKernel' = DSKernels
  BY DEF HandleDevicePlugin, Return, IdleLocals, OneEachInv
<1>3. DaemonSetShape(x) /\ x.kernel = NoKernel /\ NoKernel \notin Kernels
  BY ModuleDataAssumption DEF SetDevicePluginAsDesired, DaemonSetShape
<1>4. d \in DaemonSetNames
  BY DEF DaemonSetNames
<1>5. DOMAIN api' = Kinds /\ KernelsTold(api'.daemonsets)
  <2>0. DOMAIN api = Kinds /\ KernelsTold(api.daemonsets)
    BY DEF OneEachInv
  <2>1. CASE UNCHANGED api
    BY <2>0, <2>1
  <2>2. CASE api' = [api EXCEPT !.daemonsets[d] = x] /\ api.daemonsets[d] = Absent
    <3> HIDE DEF x, d
    <3>1. DOMAIN api' = Kinds /\ api'.daemonsets = [api.daemonsets EXCEPT ![d] = x]
      BY <2>0, <2>2 DEF Kinds
    <3>2. \A m \in DaemonSetNames \ {d} : api.daemonsets[m] # Absent
             => api.daemonsets[m].kernel # NoKernel
      BY <1>3, <2>0 DEF KernelsTold, d
    <3>3. ~ DuplicateKernel(api'.daemonsets)
      BY <1>3, <1>4, <2>0, <3>1, <3>2 DEF DuplicateKernel, Existing, KernelsTold
    <3> QED
      BY <1>3, <1>4, <2>0, <3>1, <3>3 DEF KernelsTold, d
  <2> QED
    BY <1>1, <2>1, <2>2
<1>6. ~ InLoop' /\ ~ Handling'
  BY <1>2 DEF InLoop, Handling
<1> QED
  BY <1>2, <1>5, <1>6 DEF OneEachInv, Unseen

\* Every other step of the reconciler and of everything around it.
LEMMA OtherStepsKeepOneEach ==
  ASSUME "daemonsets" \notin Lagging, OneEachInv, [Next]_vars,
         ~ HandleDriverContainer, ~ HandleDevicePlugin
  PROVE  OneEachInv'
<1>0. DOMAIN api' = Kinds /\ NoNewer(api.daemonsets, api'.daemonsets)
  BY OnlyTheLoopCreates
<1>1. CASE pc' = "idle" /\ IdleLocals
  BY <1>0, <1>1, ReturnKeepsOneEach
<1>2. CASE UNCHANGED <<pc, todo, cur, dsByKernel>>
  BY <1>0, <1>2, NothingNewAhead DEF OneEachInv, InLoop, Handling, Ahead
<1>3. CASE GetRequestedModule \/ GetNodesAndMappings
  <2>1. ~ InLoop' /\ ~ Handling' /\ dsByKernel' = dsByKernel
    BY <1>3 DEF GetRequestedModule, GetNodesAndMappings, InLoop, Handling
  <2> QED
    BY <1>0, <2>1, NothingNewAhead DEF OneEachInv
<1>4. CASE GetDaemonSets
  <2>1. cache.daemonsets = api.daemonsets
    BY <1>4 DEF GetDaemonSets, Kinds
  <2>2. CASE Return(TRUE)
    BY <1>1, <2>2 DEF Return
  <2>3. CASE /\ dsByKernel' = ModuleDaemonSetsByKernelVersion(api.daemonsets)
             /\ pc' = "kernels" /\ todo' = todo /\ cur' = cur /\ UNCHANGED api
    <3> DEFINE d == api.daemonsets
    <3>1. DOMAIN dsByKernel' = DSKernels
      BY <2>3 DEF ModuleDaemonSetsByKernelVersion
    <3>2. \A k \in Kernels : ForKernel(d, k) # {} => dsByKernel'[k].name # Absent
      <4> SUFFICES ASSUME NEW k \in Kernels, ForKernel(d, k) # {}
                   PROVE  dsByKernel'[k].name # Absent
        OBVIOUS
      <4> DEFINE n == CHOOSE n \in ForKernel(d, k) : TRUE
      <4>1. n \in ForKernel(d, k)
        OBVIOUS
      <4>2. n \in DaemonSetNames
        BY <4>1 DEF ForKernel, Existing, OneEachInv, KernelsTold
      <4>3. n # Absent
        BY <4>2, ModuleDataAssumption DEF DaemonSetNames
      <4>4. dsByKernel'[k].name = n
        BY <2>3 DEF ModuleDaemonSetsByKernelVersion, DSKernels
      <4> QED
        BY <4>3, <4>4
    <3>3. Unseen'
      BY <2>3, <3>2 DEF Unseen
    <3>4. ~ Handling'
      BY <2>3 DEF Handling
    <3> QED
      BY <2>3, <3>1, <3>3, <3>4 DEF OneEachInv
  <2> QED
    BY <1>4, <2>1, <2>2, <2>3 DEF GetDaemonSets
<1>5. ASSUME NEW k \in Kernels, HandleBuild(k) PROVE OneEachInv'
  <2>1. /\ InLoop /\ cur' \in Kernels \ todo' /\ dsByKernel' = dsByKernel
        /\ \A x \in Kernels : Ahead(x)' => Ahead(x)
    BY <1>5 DEF HandleBuild, InLoop, Handling, Ahead
  <2> QED
    BY <1>0, <2>1, NothingNewAhead DEF OneEachInv
<1>6. CASE /\ Handling /\ (Handling' \/ pc' = "kernels")
           /\ UNCHANGED <<todo, cur, dsByKernel>>
  BY <1>0, <1>6, NothingNewAhead DEF OneEachInv, InLoop, Ahead
<1>7. CASE SyncBuild
  BY <1>1, <1>6, <1>7 DEF SyncBuild, Return, Handling, locals
<1>8. CASE HandleSigning
  BY <1>6, <1>8 DEF HandleSigning, Handling, locals
<1>9. CASE SyncSign
  BY <1>1, <1>6, <1>9 DEF SyncSign, Return, Handling, locals
<1>10. ASSUME NEW n \in Names, GarbageCollectDaemonSet(n) \/ GarbageCollectJob(n)
       PROVE  OneEachInv'
  BY <1>1, <1>2, <1>10 DEF GarbageCollectDaemonSet, GarbageCollectJob, Return
<1>11. CASE ListSucceededJobs
  <2>1. ~ InLoop' /\ ~ Handling' /\ dsByKernel' = dsByKernel
    BY <1>11 DEF ListSucceededJobs, InLoop, Handling
  <2> QED
    BY <1>0, <2>1, NothingNewAhead DEF OneEachInv
<1>12. CASE ModuleUpdateStatus \/ ReconcileError \/ Restart
  BY <1>1, <1>12 DEF ModuleUpdateStatus, ReconcileError, Restart, Return
<1>13. CASE \/ Resync \/ (\E kind \in Kinds : Deliver(kind))
            \/ Cluster \/ Users \/ UNCHANGED vars
  <2>1. UNCHANGED <<pc, todo, cur, dsByKernel>>
    BY <1>13 DEF Resync, Deliver, Cluster, Users, LabelNode, BuildCompletes, BuildFails,
       JobStarts, JobSucceeds, JobFails, DaemonSetStatus, OwnedObjectCollected,
       EditModule, DeleteModule, UserDeletesBuild, ChangeNode, operator, locals, vars
  <2> QED
    BY <1>2, <2>1
<1> QED
  BY <1>3, <1>4, <1>5, <1>7, <1>8, <1>9, <1>10, <1>11, <1>12, <1>13
     DEF Next, Reconcile

\* The invariant holds throughout.
LEMMA OneEachKept ==
  ASSUME "daemonsets" \notin Lagging
  PROVE  Spec => []OneEachInv
<1>1. Init => OneEachInv
  <2> SUFFICES ASSUME Init PROVE OneEachInv
    OBVIOUS
  <2>1. /\ DOMAIN api = Kinds /\ api.daemonsets = NoObjects(DaemonSetNames)
        /\ pc = "idle" /\ DOMAIN dsByKernel = DSKernels
    BY DEF Init, Kinds
  <2>2. KernelsTold(api.daemonsets)
    BY <2>1 DEF KernelsTold, NoObjects, DuplicateKernel, Existing
  <2> QED
    BY <2>1, <2>2 DEF OneEachInv, Handling, InLoop, Unseen
<1>2. OneEachInv /\ [Next]_vars => OneEachInv'
  BY DriverContainerKeepsOneEach, DevicePluginKeepsOneEach, OtherStepsKeepOneEach
<1> QED
  BY <1>1, <1>2, PTL DEF Spec

-----------------------------------------------------------------------------
(* Types.  Those of the caches and of the loop's variables are needed too:  *)
(* what the reconciler writes is made of what it read.                      *)

\* The Builds and the Jobs of a Module always push their image.
PushingBuild == {x \in Build : x.output \in ImageRef}
PushingJob == {x \in SignJob : x.hash[3] \in ImageRef}

Objects ==
    [module : Module \cup {Absent}, nodes : [Nodes -> Node],
     daemonsets : [DaemonSetNames -> DaemonSet \cup {Absent}],
     builds : [Names -> PushingBuild \cup {Absent}],
     jobs : [Names -> PushingJob \cup {Absent}]]

Pods == 0..Cardinality(Nodes)

Listed == [name : DaemonSetNames \cup {Absent}, available : Pods]

ObjectsTyped ==
    /\ api \in Objects /\ cache \in Objects
    /\ registry \subseteq ImageRef /\ queued \in BOOLEAN

LocalsTyped ==
    /\ pc \in PCs
    /\ mod \in Module \cup {Absent}
    /\ pc # "idle" => mod \in Module
    /\ counts \in [matching : Nat, desired : Nat]
    /\ valid \subseteq Kernels /\ todo \subseteq valid /\ cur \in DSKernels
    /\ pc \in {"buildSync", "sign", "signSync", "driver"} => cur \in Kernels
    /\ pc = "signSync" => ShouldBeSigned(mod.spec)
    /\ dsByKernel \in [DSKernels -> Listed]
    /\ doomed \subseteq Names \cup DaemonSetNames

CountersTyped == changes \in 0..MaxChanges /\ faults \in 0..MaxFaults

TypeInv == ObjectsTyped /\ LocalsTyped /\ CountersTyped

\* The objects the API server holds after one of them was written.
WithModule(o, x) == [o EXCEPT !.module = x]
WithNode(o, n, x) == [o EXCEPT !.nodes[n] = x]
WithDaemonSet(o, n, x) == [o EXCEPT !.daemonsets[n] = x]
WithBuild(o, n, x) == [o EXCEPT !.builds[n] = x]
WithJob(o, n, x) == [o EXCEPT !.jobs[n] = x]

\* Every object may be written with something of its kind.
LEMMA ObjectWritten ==
  ASSUME NEW o \in Objects
  PROVE  /\ \A x \in Module \cup {Absent} : WithModule(o, x) \in Objects
         /\ \A n : \A x \in Node : WithNode(o, n, x) \in Objects
         /\ \A n : \A x \in DaemonSet \cup {Absent} : WithDaemonSet(o, n, x) \in Objects
         /\ \A n : \A x \in PushingBuild \cup {Absent} : WithBuild(o, n, x) \in Objects
         /\ \A n : \A x \in PushingJob \cup {Absent} : WithJob(o, n, x) \in Objects
<1>1. \A x \in Module \cup {Absent} : WithModule(o, x) \in Objects
  BY DEF Objects, WithModule
<1>2. \A n : \A x \in Node : WithNode(o, n, x) \in Objects
  BY DEF Objects, WithNode
<1>3. \A n : \A x \in DaemonSet \cup {Absent} : WithDaemonSet(o, n, x) \in Objects
  BY DEF Objects, WithDaemonSet
<1>4. \A n : \A x \in PushingBuild \cup {Absent} : WithBuild(o, n, x) \in Objects
  BY DEF Objects, WithBuild
<1>5. \A n : \A x \in PushingJob \cup {Absent} : WithJob(o, n, x) \in Objects
  BY DEF Objects, WithJob
<1> QED
  BY <1>1, <1>2, <1>3, <1>4, <1>5

\* A number of nodes is one, and no more than there are.
LEMMA NodesCounted ==
  ASSUME NEW S, S \subseteq Nodes
  PROVE  Cardinality(S) \in Nat /\ Cardinality(S) \in Pods
<1>1. IsFiniteSet(Nodes)
  BY ModuleDataAssumption
<1>2. IsFiniteSet(S) /\ Cardinality(S) <= Cardinality(Nodes)
  BY <1>1, FS_Subset
<1>3. Cardinality(S) \in Nat /\ Cardinality(Nodes) \in Nat
  BY <1>1, <1>2, FS_CardinalityType
<1> QED
  BY <1>2, <1>3 DEF Pods

\* So is a sum of available pods.
LEMMA PodsCounted ==
  ASSUME dsByKernel \in [DSKernels -> Listed], NEW K, K \subseteq DSKernels
  PROVE  AvailablePods(K) \in Nat
<1> DEFINE P == UNION {{k} \X (1..dsByKernel[k].available) : k \in K}
           most == 1..Cardinality(Nodes)
           all == DSKernels \X most
<1>1. Cardinality(Nodes) \in Nat
  BY ModuleDataAssumption, FS_CardinalityType
<1>2. IsFiniteSet(DSKernels)
  BY ModuleDataAssumption, FS_AddElement DEF DSKernels
<1>3. IsFiniteSet(all)
  <2>1. IsFiniteSet(most)
    BY <1>1, FS_Interval
  <2> HIDE DEF most
  <2> QED
    BY <1>2, <2>1, FS_Product
<1>4. P \subseteq all
  <2>1. ASSUME NEW k \in K
        PROVE  {k} \X (1..dsByKernel[k].available) \subseteq all
    <3>1. dsByKernel[k].available \in Pods
      BY <2>1 DEF Listed
    <3>2. 1..dsByKernel[k].available \subseteq most
      BY <1>1, <3>1 DEF Pods
    <3> QED
      BY <2>1, <3>2
  <2> QED
    BY <2>1
<1>5. IsFiniteSet(P)
  BY <1>3, <1>4, FS_Subset
<1> QED
  BY <1>5, FS_CardinalityType DEF AvailablePods

\* The managers' templates and the DaemonSets are objects of their kinds.
LEMMA CreatedTyped ==
  ASSUME NEW s \in Specs, NEW k \in Kernels
  PROVE  /\ MakeBuildTemplate(s, k, TRUE) \in PushingBuild
         /\ ShouldBeSigned(s) => MakeJobTemplate(s, k, TRUE) \in PushingJob
         /\ SetDriverContainerAsDesired(s, k) \in DaemonSet
         /\ SetDevicePluginAsDesired \in DaemonSet
<1>1. /\ MakeBuildTemplate(s, k, TRUE) \in Build
      /\ ShouldBeSigned(s) => MakeJobTemplate(s, k, TRUE) \in SignJob
  BY TemplatesTyped
<1>2. /\ MakeBuildTemplate(s, k, TRUE).output = BuildTarget(s, k)
      /\ MakeJobTemplate(s, k, TRUE).hash[3] = ContainerImage(s, k)
  BY DEF MakeBuildTemplate, MakeJobTemplate
<1>3. BuildTarget(s, k) \in ImageRef /\ ContainerImage(s, k) \in ImageRef
  BY ImagesTyped
<1>4. 0 \in 0..Cardinality(Nodes)
  BY ModuleDataAssumption, FS_CardinalityType
<1>5. /\ SetDriverContainerAsDesired(s, k) \in DaemonSet
      /\ SetDevicePluginAsDesired \in DaemonSet
  BY <1>3, <1>4 DEF SetDriverContainerAsDesired, SetDevicePluginAsDesired, DaemonSet,
     DSKernels
<1> QED
  BY <1>1, <1>2, <1>3, <1>5 DEF PushingBuild, PushingJob

\* A reconciliation that returns leaves nothing behind.
LEMMA ReturnTyped ==
  ASSUME pc' = "idle", IdleLocals
  PROVE  LocalsTyped'
<1>1. 0 \in Pods
  BY ModuleDataAssumption, FS_CardinalityType DEF Pods
<1>2. [name |-> Absent, available |-> 0] \in Listed
  BY <1>1 DEF Listed
<1>3. dsByKernel' \in [DSKernels -> Listed]
  BY <1>2 DEF IdleLocals
<1> QED
  BY <1>3 DEF LocalsTyped, IdleLocals, PCs, DSKernels

\* The bounds on faults and changes are kept.
LEMMA CountersKept ==
  ASSUME CountersTyped,
         changes' = changes \/ (changes < MaxChanges /\ changes' = changes + 1),
         faults' = faults \/ (faults < MaxFaults /\ faults' = faults + 1)
  PROVE  CountersTyped'
BY ReconcilerAssumption DEF CountersTyped

\* Reading the Module, the nodes, the DaemonSets and the registry.
LEMMA ReadsTyped ==
  ASSUME TypeInv,
         \/ GetRequestedModule \/ GetNodesAndMappings \/ GetDaemonSets
         \/ \E k \in Kernels : HandleBuild(k)
         \/ HandleSigning \/ ListSucceededJobs
  PROVE  TypeInv'
<1>0. ObjectsTyped /\ LocalsTyped /\ CountersTyped /\ cache \in Objects /\ queued \in BOOLEAN
  BY DEF TypeInv, ObjectsTyped
<1>1. UNCHANGED <<api, cache, registry, changes, faults>>
  BY DEF GetRequestedModule, GetNodesAndMappings, GetDaemonSets, HandleBuild,
     HandleSigning, ListSucceededJobs
<1>2. queued' \in BOOLEAN
  BY <1>0 DEF GetRequestedModule, GetNodesAndMappings, GetDaemonSets, HandleBuild,
     HandleSigning, ListSucceededJobs, Return
<1>3. ObjectsTyped' /\ CountersTyped'
  BY <1>0, <1>1, <1>2 DEF ObjectsTyped, CountersTyped
<1> SUFFICES LocalsTyped'
  BY <1>3 DEF TypeInv
<1>4. CASE GetRequestedModule
  <2>1. cache.module \in Module \cup {Absent}
    BY <1>0 DEF Objects
  <2>2. /\ mod' = cache.module /\ UNCHANGED <<counts, valid, todo, cur, dsByKernel, doomed>>
        /\ pc' = IF cache.module = Absent THEN "idle" ELSE "nodes"
    BY <1>4 DEF GetRequestedModule
  <2> QED
    BY <1>0, <2>1, <2>2 DEF LocalsTyped, PCs
<1>5. CASE GetNodesAndMappings
  <2>1. mod \in Module /\ pc = "nodes"
    BY <1>0, <1>5 DEF LocalsTyped, GetNodesAndMappings
  <2>2. mod.spec.kernels \subseteq Kernels
    BY <2>1, ModuleDataAssumption DEF Module, ModuleSpec
  <2>3. /\ getNodesListBySelector(cache.nodes) \subseteq Nodes
        /\ NodesWithMapping(mod.spec, cache.nodes) \subseteq Nodes
        /\ RelevantKernels(mod.spec, cache.nodes) \subseteq Kernels
    BY <2>2 DEF RelevantKernels, NodesWithMapping, getNodesListBySelector
  <2>4. counts' \in [matching : Nat, desired : Nat]
    BY <1>5, <2>3, NodesCounted DEF GetNodesAndMappings
  <2>5. /\ valid' \subseteq Kernels /\ todo' \subseteq valid' /\ pc' = "daemonsets"
        /\ UNCHANGED <<mod, cur, dsByKernel, doomed>>
    BY <1>5, <2>3 DEF GetNodesAndMappings
  <2> QED
    BY <1>0, <2>1, <2>4, <2>5 DEF LocalsTyped, PCs
<1>6. CASE GetDaemonSets
  <2>1. CASE Return(TRUE)
    BY <2>1, ReturnTyped DEF Return
  <2>2. CASE ~ Return(TRUE)
    <3> DEFINE dss == cache.daemonsets
    <3>1. dss \in [DaemonSetNames -> DaemonSet \cup {Absent}]
      BY <1>0 DEF Objects
    <3>2. /\ dsByKernel' = ModuleDaemonSetsByKernelVersion(dss) /\ pc' = "kernels"
          /\ pc = "daemonsets" /\ UNCHANGED <<mod, counts, valid, todo, cur, doomed>>
      BY <1>6, <2>2 DEF GetDaemonSets
    <3> HIDE DEF dss
    <3>3. ASSUME NEW k \in DSKernels
          PROVE  ModuleDaemonSetsByKernelVersion(dss)[k] \in Listed
      <4> DEFINE n == CHOOSE n \in ForKernel(dss, k) : TRUE
      <4>1. ModuleDaemonSetsByKernelVersion(dss)[k] =
               IF ForKernel(dss, k) = {} THEN [name |-> Absent, available |-> 0]
               ELSE [name |-> n, available |-> dss[n].available]
        BY <3>3 DEF ModuleDaemonSetsByKernelVersion
      <4>2. CASE ForKernel(dss, k) = {}
        <5>1. 0 \in Pods
          BY ModuleDataAssumption, FS_CardinalityType DEF Pods
        <5> QED
          BY <4>1, <4>2, <5>1 DEF Listed
      <4>3. CASE ForKernel(dss, k) # {}
        <5>1. n \in ForKernel(dss, k)
          BY <4>3
        <5> HIDE DEF n
        <5>2. n \in DaemonSetNames /\ dss[n] \in DaemonSet
          BY <3>1, <5>1 DEF ForKernel, Existing
        <5>3. dss[n].available \in Pods
          BY <5>2 DEF DaemonSet, Pods
        <5> QED
          BY <4>1, <4>3, <5>2, <5>3 DEF Listed
      <4> QED
        BY <4>2, <4>3
    <3>4. dsByKernel' \in [DSKernels -> Listed]
      BY <3>2, <3>3 DEF ModuleDaemonSetsByKernelVersion
    <3> QED
      BY <1>0, <3>2, <3>4 DEF LocalsTyped, PCs
  <2> QED
    BY <2>1, <2>2
<1>7. CASE \E k \in Kernels : HandleBuild(k)
  <2> PICK k \in Kernels : HandleBuild(k)
    BY <1>7
  <2>1. /\ pc = "kernels" /\ pc' \in {"buildSync", "sign"} /\ cur' = k
        /\ todo' = todo \ {k} /\ UNCHANGED <<mod, counts, valid, dsByKernel, doomed>>
    BY DEF HandleBuild
  <2> QED
    BY <1>0, <2>1 DEF LocalsTyped, PCs, DSKernels
<1>8. CASE HandleSigning
  <2>1. /\ pc = "sign" /\ pc' \in {"signSync", "driver"}
        /\ pc' = "signSync" => ShouldBeSigned(mod.spec)
        /\ UNCHANGED <<mod, counts, valid, todo, cur, dsByKernel, doomed>>
    BY <1>8 DEF HandleSigning, SignShouldSync, locals
  <2> QED
    BY <1>0, <2>1 DEF LocalsTyped, PCs, ShouldBeSigned
<1>9. CASE ListSucceededJobs
  <2>1. DOMAIN cache.jobs = Names
    BY <1>0 DEF Objects
  <2>2. /\ pc = "gcDaemonSets" /\ pc' = "gcJobs" /\ doomed' \subseteq Names
        /\ UNCHANGED <<mod, counts, valid, todo, cur, dsByKernel>>
    BY <1>9, <2>1 DEF ListSucceededJobs, SucceededJobs, Existing
  <2> QED
    BY <1>0, <2>2 DEF LocalsTyped, PCs
<1> QED
  BY <1>4, <1>5, <1>6, <1>7, <1>8, <1>9

\* What the Syncs and the DaemonSet creator write.
LEMMA WritesTyped ==
  ASSUME TypeInv, SyncBuild \/ SyncSign \/ HandleDriverContainer \/ HandleDevicePlugin
  PROVE  api' \in Objects
<1>0. LocalsTyped /\ api \in Objects
  BY DEF TypeInv, ObjectsTyped
<1>1. CASE SyncBuild
  <2>1. pc = "buildSync"
    BY <1>1 DEF SyncBuild
  <2>2. mod.spec \in Specs /\ cur \in Kernels
    BY <1>0, <2>1 DEF LocalsTyped, Module
  <2>3. MakeBuildTemplate(mod.spec, cur, TRUE) \in PushingBuild
    BY <2>2, CreatedTyped
  <2>4. \/ api' = api
        \/ \E n : \/ api' = WithBuild(api, n, MakeBuildTemplate(mod.spec, cur, TRUE))
                  \/ api' = WithBuild(api, n, Absent)
    BY <1>1 DEF SyncBuild, CreateBuild, DeleteChangedBuild, WithBuild
  <2> QED
    BY <1>0, <2>3, <2>4, ObjectWritten
<1>2. CASE SyncSign
  <2>1. pc = "signSync"
    BY <1>2 DEF SyncSign
  <2>2. mod.spec \in Specs /\ cur \in Kernels /\ ShouldBeSigned(mod.spec)
    BY <1>0, <2>1 DEF LocalsTyped, Module
  <2>3. MakeJobTemplate(mod.spec, cur, TRUE) \in PushingJob
    BY <2>2, CreatedTyped
  <2>4. \/ api' = api
        \/ \E n : \/ api' = WithJob(api, n, MakeJobTemplate(mod.spec, cur, TRUE))
                  \/ api' = WithJob(api, n, Absent)
    BY <1>2 DEF SyncSign, CreateSignJob, DeleteChangedJob, WithJob
  <2> QED
    BY <1>0, <2>3, <2>4, ObjectWritten
<1>3. CASE HandleDriverContainer
  <2>1. pc = "driver"
    BY <1>3 DEF HandleDriverContainer
  <2>2. mod.spec \in Specs /\ cur \in Kernels
    BY <1>0, <2>1 DEF LocalsTyped, Module
  <2>3. SetDriverContainerAsDesired(mod.spec, cur) \in DaemonSet
        /\ ContainerImage(mod.spec, cur) \in ImageRef
    BY <2>2, CreatedTyped, ImagesTyped
  <2> DEFINE n == dsByKernel[cur].name
             x == [api.daemonsets[n] EXCEPT !.image = ContainerImage(mod.spec, cur)]
  <2>4. \/ api' = api
        \/ \E m : api' = WithDaemonSet(api, m, SetDriverContainerAsDesired(mod.spec, cur))
        \/ n # Absent /\ api.daemonsets[n] # Absent /\ api' = WithDaemonSet(api, n, x)
    BY <1>3 DEF HandleDriverContainer, CreateDriverContainer, PatchDriverContainer,
       WithDaemonSet
  <2>5. ASSUME n # Absent, api.daemonsets[n] # Absent PROVE x \in DaemonSet
    <3>1. dsByKernel[cur] \in Listed
      BY <1>0, <2>2 DEF LocalsTyped, DSKernels
    <3>2. n \in DaemonSetNames
      BY <2>5, <3>1 DEF Listed
    <3>3. api.daemonsets[n] \in DaemonSet
      BY <1>0, <2>5, <3>2 DEF Objects
    <3> HIDE DEF n
    <3> QED
      BY <2>3, <3>3 DEF DaemonSet
  <2> HIDE DEF x, n
  <2> QED
    BY <1>0, <2>3, <2>4, <2>5, ObjectWritten
<1>4. CASE HandleDevicePlugin
  <2>1. \/ api' = api
        \/ api' = WithDaemonSet(api, DevicePluginName, SetDevicePluginAsDesired)
    BY <1>4 DEF HandleDevicePlugin, WithDaemonSet
  <2>2. 0 \in 0..Cardinality(Nodes)
    BY ModuleDataAssumption, FS_CardinalityType
  <2>3. SetDevicePluginAsDesired \in DaemonSet
    BY <2>2 DEF SetDevicePluginAsDesired, DaemonSet, DSKernels
  <2> QED
    BY <1>0, <2>1, <2>3, ObjectWritten
<1> QED
  BY <1>1, <1>2, <1>3, <1>4

\* The rest of those steps.
LEMMA LoopWritesTyped ==
  ASSUME TypeInv, SyncBuild \/ SyncSign \/ HandleDriverContainer \/ HandleDevicePlugin
  PROVE  TypeInv'
<1>0. ObjectsTyped /\ LocalsTyped /\ CountersTyped /\ cache \in Objects /\ queued \in BOOLEAN
  BY DEF TypeInv, ObjectsTyped
<1>1. /\ UNCHANGED <<cache, registry, changes>>
      /\ faults' = faults \/ (faults < MaxFaults /\ faults' = faults + 1)
  BY DEF SyncBuild, SyncSign, HandleDriverContainer, HandleDevicePlugin,
     DeleteChangedBuild, DeleteChangedJob
<1>2. CountersTyped'
  BY <1>0, <1>1, CountersKept
<1>3. api' \in Objects
  BY WritesTyped
<1>4. LocalsTyped' /\ queued' \in BOOLEAN
  <2>1. CASE Return(TRUE)
    BY <1>0, <2>1, ReturnTyped DEF Return
  <2>2. CASE ~ Return(TRUE) /\ (SyncBuild \/ SyncSign)
    <3>1. /\ UNCHANGED <<queued, mod, counts, valid, todo, cur, dsByKernel, doomed>>
          /\ pc \in {"buildSync", "signSync"} /\ pc' \in {"sign", "kernels", "driver"}
      BY <2>2 DEF SyncBuild, SyncSign, locals
    <3> QED
      BY <1>0, <3>1 DEF LocalsTyped, PCs
  <2>3. CASE ~ Return(TRUE) /\ HandleDriverContainer
    <3>1. pc = "driver" /\ pc' = "kernels" /\ UNCHANGED <<queued, mod, counts, valid, todo, cur, doomed>>
      BY <2>3 DEF HandleDriverContainer, CreateDriverContainer, PatchDriverContainer, locals
    <3>2. cur \in Kernels /\ dsByKernel \in [DSKernels -> Listed]
      BY <1>0, <3>1 DEF LocalsTyped
    <3> DEFINE n == dsByKernel[cur].name
               copy == cache.daemonsets[n]
               p == [dsByKernel[cur] EXCEPT !.available = copy.available]
    <3>3. \/ dsByKernel' = dsByKernel
          \/ n # Absent /\ copy # Absent /\ dsByKernel' = [dsByKernel EXCEPT ![cur] = p]
      BY <2>3 DEF HandleDriverContainer, CreateDriverContainer, PatchDriverContainer, locals
    <3>4. ASSUME n # Absent, copy # Absent PROVE p \in Listed
      <4>1. dsByKernel[cur] \in Listed
        BY <3>2 DEF DSKernels
      <4>2. n \in DaemonSetNames
        BY <3>4, <4>1 DEF Listed
      <4>3. copy \in DaemonSet
        BY <1>0, <3>4, <4>2 DEF Objects
      <4>4. copy.available \in Pods
        BY <4>3 DEF DaemonSet, Pods
      <4> HIDE DEF copy
      <4> QED
        BY <4>1, <4>4 DEF Listed
    <3> HIDE DEF p, n, copy
    <3>5. dsByKernel' \in [DSKernels -> Listed]
      BY <3>2, <3>3, <3>4
    <3> QED
      BY <1>0, <3>1, <3>5 DEF LocalsTyped, PCs
  <2>4. CASE ~ Return(TRUE) /\ HandleDevicePlugin
    <3>1. /\ UNCHANGED <<queued, mod, counts, valid, todo, cur, dsByKernel>>
          /\ pc = "kernels" /\ pc' = "gcDaemonSets"
          /\ doomed' = UnneededDaemonSets(dsByKernel, valid)
      BY <2>4 DEF HandleDevicePlugin
    <3>2. \A k \in DSKernels : dsByKernel[k].name # Absent => dsByKernel[k].name \in DaemonSetNames
      BY <1>0 DEF LocalsTyped, Listed
    <3>3. doomed' \subseteq DaemonSetNames
      BY <3>1, <3>2 DEF UnneededDaemonSets
    <3> QED
      BY <1>0, <3>1, <3>3 DEF LocalsTyped, PCs
  <2> QED
    BY <2>1, <2>2, <2>3, <2>4
<1> QED
  BY <1>0, <1>1, <1>2, <1>3, <1>4 DEF TypeInv, ObjectsTyped

\* The status is made of numbers, old and new.
LEMMA StatusTyped ==
  ASSUME TypeInv, ModuleUpdateStatus
  PROVE  api' \in Objects
<1>0. LocalsTyped /\ api \in Objects /\ mod \in Module
  BY DEF TypeInv, ObjectsTyped, LocalsTyped, ModuleUpdateStatus
<1> DEFINE new == DesiredStatus
           st == [f \in DOMAIN new |-> IF new[f] # mod.status[f]
                                       THEN new[f] ELSE api.module.status[f]]
<1>1. api' = api \/ (api.module # Absent /\ api' = WithModule(api, [api.module EXCEPT !.status = st]))
  BY DEF ModuleUpdateStatus, WithModule
<1>2. DOMAIN new = {"matching", "desired", "available", "devicePlugin"}
  BY DEF DesiredStatus
<1>3. \A f \in DOMAIN new : new[f] \in Nat
  <2>1. /\ AvailablePods({k \in DSKernels : ~ IsDevicePluginKernelVersion(k)}) \in Nat
        /\ AvailablePods({k \in DSKernels : IsDevicePluginKernelVersion(k)}) \in Nat
    BY <1>0, PodsCounted DEF LocalsTyped
  <2>2. /\ counts.matching \in Nat /\ counts.desired \in Nat
        /\ mod.status.devicePlugin \in Nat
    BY <1>0 DEF LocalsTyped, Module, ModuleStatus
  <2> QED
    BY <2>1, <2>2 DEF DesiredStatus
<1> HIDE DEF new
<1>4. ASSUME api.module # Absent
      PROVE  [api.module EXCEPT !.status = st] \in Module
  <2>1. api.module \in Module
    BY <1>0, <1>4 DEF Objects
  <2>2. \A f \in DOMAIN new : st[f] \in Nat
    BY <1>2, <1>3, <2>1 DEF Module, ModuleStatus
  <2>3. st = [matching |-> st.matching, desired |-> st.desired,
              available |-> st.available, devicePlugin |-> st.devicePlugin]
    BY <1>2
  <2>4. st \in ModuleStatus
    BY <1>2, <2>2, <2>3 DEF ModuleStatus
  <2> HIDE DEF st
  <2> QED
    BY <2>1, <2>4 DEF Module
<1> HIDE DEF st
<1> QED
  BY <1>0, <1>1, <1>4, ObjectWritten

\* Garbage collection, the status and errors.
LEMMA EndsTyped ==
  ASSUME TypeInv,
         \/ \E n \in Names : GarbageCollectDaemonSet(n) \/ GarbageCollectJob(n)
         \/ ModuleUpdateStatus \/ ReconcileError
  PROVE  TypeInv'
<1>0. /\ ObjectsTyped /\ LocalsTyped /\ CountersTyped /\ api \in Objects
      /\ cache \in Objects /\ queued \in BOOLEAN
  BY DEF TypeInv, ObjectsTyped
<1>1. /\ UNCHANGED <<cache, registry, changes>>
      /\ faults' = faults \/ (faults < MaxFaults /\ faults' = faults + 1)
  BY DEF GarbageCollectDaemonSet, GarbageCollectJob, ModuleUpdateStatus, ReconcileError
<1>2. CountersTyped'
  BY <1>0, <1>1, CountersKept
<1>3. api' \in Objects
  <2>1. CASE \E n \in Names : GarbageCollectDaemonSet(n) \/ GarbageCollectJob(n)
    <3> PICK n \in Names : GarbageCollectDaemonSet(n) \/ GarbageCollectJob(n)
      BY <2>1
    <3>1. \/ api' = api \/ api' = WithDaemonSet(api, n, Absent)
          \/ api' = WithJob(api, n, Absent)
      BY DEF GarbageCollectDaemonSet, GarbageCollectJob, WithDaemonSet, WithJob
    <3> QED
      BY <1>0, <3>1, ObjectWritten
  <2>2. CASE ModuleUpdateStatus
    BY <2>2, StatusTyped
  <2>3. CASE ReconcileError
    BY <1>0, <2>3 DEF ReconcileError
  <2> QED
    BY <2>1, <2>2, <2>3
<1>4. LocalsTyped' /\ queued' \in BOOLEAN
  <2>1. CASE Return(TRUE) \/ Return(FALSE)
    BY <1>0, <2>1, ReturnTyped DEF Return
  <2>2. CASE ~ (Return(TRUE) \/ Return(FALSE))
    <3>1. PICK n \in Names : GarbageCollectDaemonSet(n) \/ GarbageCollectJob(n)
      BY <2>2 DEF ModuleUpdateStatus, ReconcileError
    <3>2. /\ UNCHANGED <<queued, pc, mod, counts, valid, todo, cur, dsByKernel>>
          /\ doomed' = doomed \ {n}
      BY <2>2, <3>1 DEF GarbageCollectDaemonSet, GarbageCollectJob
    <3>3. pc \in {"gcDaemonSets", "gcJobs"}
      BY <3>1 DEF GarbageCollectDaemonSet, GarbageCollectJob
    <3> QED
      BY <1>0, <3>2, <3>3 DEF LocalsTyped
  <2> QED
    BY <2>1, <2>2
<1> QED
  BY <1>0, <1>1, <1>2, <1>3, <1>4 DEF TypeInv, ObjectsTyped

\* Watches, resynchronisations and restarts.
LEMMA ManagerTyped ==
  ASSUME TypeInv, Resync \/ Restart \/ \E kind \in Kinds : Deliver(kind)
  PROVE  TypeInv'
<1>0. /\ ObjectsTyped /\ LocalsTyped /\ CountersTyped /\ api \in Objects
      /\ cache \in Objects /\ queued \in BOOLEAN
  BY DEF TypeInv, ObjectsTyped
<1>1. CASE Restart
  <2>1. /\ cache' = api /\ queued' \in BOOLEAN /\ UNCHANGED <<api, registry, changes>>
        /\ faults < MaxFaults /\ faults' = faults + 1
    BY <1>1 DEF Restart
  <2>2. CountersTyped'
    BY <1>0, <2>1, CountersKept
  <2>3. LocalsTyped'
    BY <1>1, ReturnTyped DEF Restart
  <2> QED
    BY <1>0, <2>1, <2>2, <2>3 DEF TypeInv, ObjectsTyped
<1>2. CASE Resync \/ \E kind \in Kinds : Deliver(kind)
  <2>1. /\ UNCHANGED <<api, registry, pc, locals, changes, faults>>
    BY <1>2 DEF Resync, Deliver
  <2>2. cache' \in Objects /\ queued' \in BOOLEAN
    <3>1. CASE Resync
      BY <1>0, <3>1 DEF Resync
    <3>2. ASSUME NEW kind \in Kinds, Deliver(kind)
          PROVE  cache' \in Objects /\ queued' \in BOOLEAN
      <4>1. cache' = [cache EXCEPT ![kind] = api[kind]] /\ queued' \in BOOLEAN
        BY <1>0, <3>2 DEF Deliver
      <4>2. kind \in {"module", "nodes", "daemonsets", "builds", "jobs"}
        BY <3>2 DEF Kinds
      <4>3. CASE kind = "module"
        BY <1>0, <4>1, <4>3 DEF Objects
      <4>4. CASE kind = "nodes"
        BY <1>0, <4>1, <4>4 DEF Objects
      <4>5. CASE kind = "daemonsets"
        BY <1>0, <4>1, <4>5 DEF Objects
      <4>6. CASE kind = "builds"
        BY <1>0, <4>1, <4>6 DEF Objects
      <4>7. CASE kind = "jobs"
        BY <1>0, <4>1, <4>7 DEF Objects
      <4> QED
        BY <4>2, <4>3, <4>4, <4>5, <4>6, <4>7
    <3> QED
      BY <1>2, <3>1, <3>2
  <2>3. LocalsTyped' /\ CountersTyped'
    BY <1>0, <2>1 DEF LocalsTyped, CountersTyped, locals
  <2> QED
    BY <1>0, <2>1, <2>2, <2>3 DEF TypeInv, ObjectsTyped
<1> QED
  BY <1>1, <1>2

\* What the cluster and the users write.
LEMMA SurroundingsWrite ==
  ASSUME TypeInv, Cluster \/ Users
  PROVE  api' \in Objects /\ registry' \subseteq ImageRef
<1>0. api \in Objects /\ registry \subseteq ImageRef
  BY DEF TypeInv, ObjectsTyped
<1> DEFINE Phase(x, p) == [x EXCEPT !.phase = p]
           Goal == api' \in Objects /\ registry' \subseteq ImageRef
<1> SUFFICES Goal
  OBVIOUS
<1>1. CASE \E n \in Nodes : LabelNode(n)
  <2> PICK n \in Nodes : LabelNode(n)
    BY <1>1
  <2> DEFINE x == [api.nodes[n] EXCEPT !.label = api.nodes[n].kernel]
  <2>1. api' = WithNode(api, n, x) /\ registry' = registry
    BY DEF LabelNode, WithNode
  <2>2. api.nodes[n] \in Node
    BY <1>0 DEF Objects
  <2>3. x \in Node
    BY <2>2 DEF Node
  <2> HIDE DEF x
  <2> QED
    BY <1>0, <2>1, <2>3, ObjectWritten
<1>2. CASE \E n \in Nodes, s \in NodeState, k \in Kernels : ChangeNode(n, s, k)
  <2> PICK n \in Nodes, s \in NodeState, k \in Kernels : ChangeNode(n, s, k)
    BY <1>2
  <2> DEFINE x == [state |-> s, kernel |-> k,
                   label |-> IF "gone" \in {s, api.nodes[n].state}
                             THEN Absent ELSE api.nodes[n].label]
  <2>1. api' = WithNode(api, n, x) /\ registry' = registry
    BY DEF ChangeNode, WithNode
  <2>2. api.nodes[n] \in Node
    BY <1>0 DEF Objects
  <2>3. x \in Node
    BY <2>2 DEF Node
  <2> HIDE DEF x
  <2> QED
    BY <1>0, <2>1, <2>3, ObjectWritten
<1>3. CASE \E n \in Names : \/ BuildCompletes(n) \/ BuildFails(n)
  <2> PICK n \in Names : BuildCompletes(n) \/ BuildFails(n)
    BY <1>3
  <2>1. api.builds[n] # Absent
    BY DEF BuildCompletes, BuildFails
  <2>2. /\ \E p \in BuildPhase : api' = WithBuild(api, n, Phase(api.builds[n], p))
        /\ registry' \subseteq registry \cup {api.builds[n].output}
    <3>1. CASE BuildCompletes(n)
      BY <3>1 DEF BuildCompletes, WithBuild, BuildPhase
    <3>2. CASE BuildFails(n)
      BY <3>2 DEF BuildFails, WithBuild, BuildPhase
    <3> QED
      BY <3>1, <3>2
  <2>3. api.builds[n] \in PushingBuild
    BY <1>0, <2>1 DEF Objects
  <2>4. \A p \in BuildPhase : Phase(api.builds[n], p) \in PushingBuild
    BY <2>3 DEF PushingBuild, Build
  <2>5. api.builds[n].output \in ImageRef
    BY <2>3 DEF PushingBuild
  <2> HIDE DEF Phase
  <2> QED
    BY <1>0, <2>2, <2>4, <2>5, ObjectWritten
<1>4. CASE \E n \in Names : JobStarts(n) \/ JobSucceeds(n) \/ JobFails(n)
  <2> PICK n \in Names : JobStarts(n) \/ JobSucceeds(n) \/ JobFails(n)
    BY <1>4
  <2>1. api.jobs[n] # Absent
    BY DEF JobStarts, JobSucceeds, JobFails
  <2>2. /\ \E p \in JobPhase : api' = WithJob(api, n, Phase(api.jobs[n], p))
        /\ registry' \subseteq registry \cup {api.jobs[n].hash[3]}
    <3>1. CASE JobStarts(n)
      BY <3>1 DEF JobStarts, WithJob, JobPhase
    <3>2. CASE JobSucceeds(n)
      BY <3>2 DEF JobSucceeds, WithJob, JobPhase
    <3>3. CASE JobFails(n)
      BY <3>3 DEF JobFails, WithJob, JobPhase
    <3> QED
      BY <3>1, <3>2, <3>3
  <2>3. api.jobs[n] \in PushingJob
    BY <1>0, <2>1 DEF Objects
  <2>4. \A p \in JobPhase : Phase(api.jobs[n], p) \in PushingJob
    BY <2>3 DEF PushingJob, SignJob
  <2>5. api.jobs[n].hash[3] \in ImageRef
    BY <2>3 DEF PushingJob
  <2> HIDE DEF Phase
  <2> QED
    BY <1>0, <2>2, <2>4, <2>5, ObjectWritten
<1>5. CASE \E n \in DaemonSetNames : DaemonSetStatus(n)
  <2> PICK n \in DaemonSetNames : DaemonSetStatus(n)
    BY <1>5
  <2> DEFINE x == [api.daemonsets[n] EXCEPT !.available = Cardinality(PodsOf(n))]
  <2>1. /\ api' = WithDaemonSet(api, n, x) /\ registry' = registry
        /\ api.daemonsets[n] # Absent
    BY DEF DaemonSetStatus, WithDaemonSet
  <2>2. PodsOf(n) \subseteq Nodes
    BY DEF PodsOf, DriverPods, getNodesListBySelector
  <2>3. Cardinality(PodsOf(n)) \in Pods
    BY <2>2, NodesCounted
  <2>4. api.daemonsets[n] \in DaemonSet
    BY <1>0, <2>1 DEF Objects
  <2>5. x \in DaemonSet
    BY <2>3, <2>4 DEF DaemonSet, Pods
  <2> HIDE DEF x
  <2> QED
    BY <1>0, <2>1, <2>5, ObjectWritten
<1>6. CASE \/ \E n \in DaemonSetNames : OwnedObjectCollected("daemonsets", n)
           \/ \E n \in Names, kind \in {"builds", "jobs"} : OwnedObjectCollected(kind, n)
           \/ \E n \in Names : UserDeletesBuild(n)
  <2>1. /\ \E n : \/ api' = WithDaemonSet(api, n, Absent)
                  \/ api' = WithBuild(api, n, Absent)
                  \/ api' = WithJob(api, n, Absent)
        /\ registry' = registry
    BY <1>6 DEF OwnedObjectCollected, UserDeletesBuild, WithDaemonSet, WithBuild, WithJob
  <2> QED
    BY <1>0, <2>1, ObjectWritten
<1>7. CASE DeleteModule
  <2>1. api' = WithModule(api, Absent) /\ registry' = registry
    BY <1>7 DEF DeleteModule, WithModule
  <2> QED
    BY <1>0, <2>1, ObjectWritten
<1>8. CASE \E s \in Specs : EditModule(s)
  <2> PICK s \in Specs : EditModule(s)
    BY <1>8
  <2> DEFINE x == [api.module EXCEPT !.spec = s]
  <2>1. api' = WithModule(api, x) /\ registry' = registry /\ api.module # Absent
    BY DEF EditModule, WithModule
  <2>2. x \in Module
    BY <1>0, <2>1 DEF Objects, Module
  <2> HIDE DEF x
  <2> QED
    BY <1>0, <2>1, <2>2, ObjectWritten
<1> HIDE DEF Goal
<1> QED
  BY <1>1, <1>2, <1>3, <1>4, <1>5, <1>6, <1>7, <1>8 DEF Cluster, Users

\* The cluster and the users keep the types.
LEMMA SurroundingsTyped ==
  ASSUME TypeInv, Cluster \/ Users
  PROVE  TypeInv'
<1>0. /\ ObjectsTyped /\ LocalsTyped /\ CountersTyped
  BY DEF TypeInv
<1>1. UNCHANGED operator /\ (changes' = changes \/ Change)
  BY DEF Cluster, Users, LabelNode, BuildCompletes, BuildFails, JobStarts, JobSucceeds,
     JobFails, DaemonSetStatus, OwnedObjectCollected, EditModule, DeleteModule,
     UserDeletesBuild, ChangeNode
<1>2. CountersTyped'
  BY <1>0, <1>1, CountersKept DEF operator, Change
<1>3. LocalsTyped' /\ cache' = cache /\ queued' = queued
  BY <1>0, <1>1 DEF LocalsTyped, operator, locals
<1> QED
  BY <1>0, <1>2, <1>3, SurroundingsWrite DEF TypeInv, ObjectsTyped

\* A Module without workloads, on nodes that are ready.
LEMMA InitTyped ==
  ASSUME Init
  PROVE  TypeInv
<1>1. PICK s \in InitSpecs, runs \in [Nodes -> Kernels] :
        /\ api = [module |-> [spec |-> s, status |-> NoStatus],
                  nodes |-> [n \in Nodes |-> [state |-> "ready", kernel |-> runs[n],
                                              label |-> runs[n]]],
                  daemonsets |-> NoObjects(DaemonSetNames),
                  builds |-> NoObjects(Names),
                  jobs |-> NoObjects(Names)]
        /\ cache = api /\ registry = Prebuilt
  BY DEF Init
<1>2. s \in Specs /\ Prebuilt \subseteq ImageRef
  BY ReconcilerAssumption
<1>3. [spec |-> s, status |-> NoStatus] \in Module
  BY <1>2 DEF Module, NoStatus, ModuleStatus
<1>4. [n \in Nodes |-> [state |-> "ready", kernel |-> runs[n], label |-> runs[n]]]
         \in [Nodes -> Node]
  BY DEF Node, NodeState
<1>5. api \in Objects
  BY <1>1, <1>3, <1>4 DEF Objects, NoObjects
<1>6. 0 \in 0..MaxChanges /\ 0 \in 0..MaxFaults
  BY ReconcilerAssumption
<1>7. 0 \in Pods
  BY ModuleDataAssumption, FS_CardinalityType DEF Pods
<1>8. [name |-> Absent, available |-> 0] \in Listed
  BY <1>7 DEF Listed
<1>9. dsByKernel \in [DSKernels -> Listed]
  BY <1>8 DEF Init
<1>10. LocalsTyped
  BY <1>9 DEF LocalsTyped, Init, PCs, DSKernels
<1>11. ObjectsTyped /\ CountersTyped
  BY <1>1, <1>2, <1>5, <1>6 DEF ObjectsTyped, CountersTyped, Init
<1> QED
  BY <1>10, <1>11 DEF TypeInv

\* The types hold throughout.
LEMMA TypesKept == Spec => []TypeInv
<1>1. Init => TypeInv
  BY InitTyped
<1>2. TypeInv /\ [Next]_vars => TypeInv'
  <2> SUFFICES ASSUME TypeInv, [Next]_vars PROVE TypeInv'
    OBVIOUS
  <2>1. CASE UNCHANGED vars
    BY <2>1 DEF TypeInv, ObjectsTyped, LocalsTyped, CountersTyped, vars, locals
  <2>2. CASE Next
    BY <2>2, ReadsTyped, LoopWritesTyped, EndsTyped, ManagerTyped, SurroundingsTyped
    DEF Next, Reconcile
  <2> QED
    BY <2>1, <2>2
<1> QED
  BY <1>1, <1>2, PTL DEF Spec

\* The reconciler, what it read and everything it stores keep their types: the status it
\* adds up from what it listed is made of numbers, and no DaemonSet reports more pods than
\* there are nodes.
THEOREM TypeCorrect == Spec => []TypeOK
<1>1. TypeInv => TypeOK
  <2> SUFFICES ASSUME TypeInv PROVE TypeOK
    OBVIOUS
  <2>1. PushingBuild \subseteq Build /\ PushingJob \subseteq SignJob
    BY DEF PushingBuild, PushingJob
  <2>2. \A o \in Objects :
          /\ o.module \in Module \cup {Absent} /\ o.nodes \in [Nodes -> Node]
          /\ o.daemonsets \in [DaemonSetNames -> DaemonSet \cup {Absent}]
          /\ o.builds \in [Names -> Build \cup {Absent}]
          /\ o.jobs \in [Names -> SignJob \cup {Absent}]
          /\ DOMAIN o = Kinds
    BY <2>1 DEF Objects, Kinds
  <2> QED
    BY <2>2 DEF TypeOK, TypeInv, ObjectsTyped, LocalsTyped, CountersTyped
<1> QED
  BY <1>1, TypesKept, PTL

-----------------------------------------------------------------------------
(* The reconciler implements Rollout.                                       *)

\* A kernel's image is that of any DaemonSet it has, since it has only one.
LEMMA RunningOne ==
  ASSUME NEW d, KernelsTold(d), NEW n \in DaemonSetNames, d[n] # Absent
  PROVE  RunningImage(d, d[n].kernel) = d[n].image
<1> DEFINE found == ForKernel(d, d[n].kernel)
<1>1. found = {n}
  BY DEF KernelsTold, DuplicateKernel, ForKernel, Existing
<1>2. Cardinality(found) = 1
  BY <1>1, FS_Singleton
<1>3. TheOnly(found) = n
  BY <1>1 DEF TheOnly
<1> QED
  BY <1>1, <1>2, <1>3 DEF RunningImage

\* A kernel without a DaemonSet runs nothing.
LEMMA RunningNone ==
  ASSUME NEW d, KernelsTold(d), NEW k,
         \A n \in DaemonSetNames : d[n] # Absent => d[n].kernel # k
  PROVE  RunningImage(d, k) = Absent
<1>1. ForKernel(d, k) = {}
  BY DEF KernelsTold, ForKernel, Existing
<1> QED
  BY <1>1 DEF RunningImage

\* What a kernel runs stays the same if its DaemonSet does, up to the pods that it
\* counts.
LEMMA RunningSame ==
  ASSUME NEW d, NEW e, KernelsTold(d), KernelsTold(e), NEW k,
         \A n \in DaemonSetNames :
            /\ (d[n] # Absent /\ d[n].kernel = k) <=> (e[n] # Absent /\ e[n].kernel = k)
            /\ d[n] # Absent /\ d[n].kernel = k => e[n].image = d[n].image
  PROVE  RunningImage(e, k) = RunningImage(d, k)
<1>1. CASE \E n \in DaemonSetNames : d[n] # Absent /\ d[n].kernel = k
  BY <1>1, RunningOne
<1>2. CASE ~ \E n \in DaemonSetNames : d[n] # Absent /\ d[n].kernel = k
  BY <1>2, RunningNone
<1> QED
  BY <1>1, <1>2

\* One DaemonSet is written, deleted or created.
LEMMA RunningOthers ==
  ASSUME NEW d, NEW e, KernelsTold(d), KernelsTold(e), NEW n \in DaemonSetNames,
         \A m \in DaemonSetNames \ {n} : e[m] = d[m], NEW k,
         d[n] # Absent => d[n].kernel # k,
         e[n] # Absent => e[n].kernel # k
  PROVE  RunningImage(e, k) = RunningImage(d, k)
<1>1. \A m \in DaemonSetNames : m = n \/ e[m] = d[m]
  OBVIOUS
<1> QED
  BY <1>1, RunningSame

Run == [k \in Kernels |-> RunningImage(api.daemonsets, k)]

\* Steps of Rollout in the reconciler's terms.
LEMMA RolloutSteps ==
  ASSUME \/ \E k \in Kernels : Run' = [Run EXCEPT ![k] = Absent] /\ registry' = registry
         \/ \E k \in Kernels, s \in Specs :
               /\ ContainerImage(s, k) \in registry
               /\ Run' = [Run EXCEPT ![k] = ContainerImage(s, k)] /\ registry' = registry
         \/ \E i \in ImageRef : Run' = Run /\ registry' = registry \cup {i}
  PROVE  R!Next
<1> DEFINE ImagesFor == [k \in Kernels |-> {ContainerImage(s, k) : s \in Specs}]
<1>1. ASSUME NEW k \in Kernels, Run' = [Run EXCEPT ![k] = Absent], registry' = registry
      PROVE  R!Withdraw(k)
  BY <1>1 DEF Run, R!Withdraw
<1>2. ASSUME NEW k \in Kernels, NEW s \in Specs, ContainerImage(s, k) \in registry,
             Run' = [Run EXCEPT ![k] = ContainerImage(s, k)], registry' = registry
      PROVE  \E i \in ImagesFor[k] : R!RollOut(k, i)
  <2>1. ContainerImage(s, k) \in ImagesFor[k]
    OBVIOUS
  <2>2. R!RollOut(k, ContainerImage(s, k))
    BY <1>2, <2>1 DEF Run, R!RollOut
  <2> QED
    BY <2>1, <2>2
<1>3. ASSUME NEW i \in ImageRef, Run' = Run, registry' = registry \cup {i}
      PROVE  R!Push(i)
  BY <1>3 DEF Run, R!Push
<1> QED
  BY <1>1, <1>2, <1>3 DEF R!Next

\* The DaemonSet listed for a kernel is still this kernel's, unless it is gone: a
\* generated name is not used again while the reconciler knows it.
ListedInv ==
    \A k \in Kernels : dsByKernel[k].name # Absent =>
        LET n == dsByKernel[k].name
        IN  n \in Names /\ (api.daemonsets[n] # Absent => api.daemonsets[n].kernel = k)

\* The list is forgotten, or it stays and no DaemonSet of its names gets another kernel.
LEMMA ListedStays ==
  ASSUME ListedInv,
         \/ IdleLocals
         \/ /\ \A k \in Kernels : dsByKernel'[k].name = dsByKernel[k].name
            /\ \A k \in Kernels : LET n == dsByKernel[k].name
                                  IN  n \in Names /\ api'.daemonsets[n] # Absent =>
                                        /\ api.daemonsets[n] # Absent
                                        /\ api'.daemonsets[n].kernel = api.daemonsets[n].kernel
  PROVE  ListedInv'
<1>1. CASE IdleLocals
  BY <1>1 DEF IdleLocals, ListedInv, DSKernels
<1>2. CASE ~ IdleLocals
  BY <1>2 DEF ListedInv
<1> QED
  BY <1>1, <1>2

\* handleDriverContainer patches what was listed, or creates with a name of its own.
LEMMA DriverContainerKeepsListed ==
  ASSUME OneEachInv, ListedInv, HandleDriverContainer
  PROVE  ListedInv'
<1>0. /\ DOMAIN api = Kinds /\ KernelsTold(api.daemonsets) /\ DOMAIN dsByKernel = DSKernels
      /\ Kernels \subseteq DSKernels /\ Names \subseteq DaemonSetNames
  BY DEF OneEachInv, DSKernels, DaemonSetNames
<1>1. CASE CreateDriverContainer
  <2> DEFINE x == SetDriverContainerAsDesired(mod.spec, cur)
             listed == {dsByKernel[k].name : k \in DSKernels}
  <2>1. PICK n \in Names : n \notin listed /\ api' = [api EXCEPT !.daemonsets[n] = x]
    BY <1>1 DEF CreateDriverContainer, NewNames
  <2>2. dsByKernel' = dsByKernel
    BY <1>1 DEF CreateDriverContainer, locals
  <2> HIDE DEF x
  <2>3. api'.daemonsets = [api.daemonsets EXCEPT ![n] = x]
    BY <1>0, <2>1 DEF Kinds
  <2>4. \A m \in Names \ {n} : api'.daemonsets[m] = api.daemonsets[m]
    BY <1>0, <2>3 DEF KernelsTold
  <2>5. \A k \in Kernels : dsByKernel[k].name # n
    BY <1>0, <2>1
  <2> QED
    BY <2>2, <2>4, <2>5, ListedStays
<1>2. CASE PatchDriverContainer
  <2> DEFINE n == dsByKernel[cur].name
             x == [api.daemonsets[n] EXCEPT !.image = ContainerImage(mod.spec, cur)]
  <2>1. UNCHANGED api \/ (/\ api' = [api EXCEPT !.daemonsets[n] = x]
                          /\ api.daemonsets[n] # Absent)
    BY <1>2 DEF PatchDriverContainer
  <2>2. n \in DaemonSetNames /\ api.daemonsets[n] # Absent
          => x.kernel = api.daemonsets[n].kernel
    BY <1>0 DEF KernelsTold, DaemonSetShape
  <2>3. \/ IdleLocals
        \/ dsByKernel' = [dsByKernel EXCEPT ![cur].available = cache.daemonsets[n].available]
    BY <1>2 DEF PatchDriverContainer, Return
  <2>4. IdleLocals \/ \A k \in Kernels : dsByKernel'[k].name = dsByKernel[k].name
    <3> DEFINE l == [dsByKernel[cur] EXCEPT !.available = cache.daemonsets[n].available]
    <3>1. CASE dsByKernel' = [dsByKernel EXCEPT ![cur] = l]
      <4>1. l.name = dsByKernel[cur].name
        OBVIOUS
      <4> HIDE DEF l, n
      <4> QED
        BY <1>0, <3>1, <4>1
    <3> QED
      BY <2>3, <3>1
  <2> HIDE DEF n, x
  <2>5. \A m \in Names : api'.daemonsets[m] # Absent =>
           /\ api.daemonsets[m] # Absent
           /\ api'.daemonsets[m].kernel = api.daemonsets[m].kernel
    <3>1. CASE UNCHANGED api
      BY <3>1
    <3>2. CASE api' = [api EXCEPT !.daemonsets[n] = x] /\ api.daemonsets[n] # Absent
      <4>1. api'.daemonsets = [api.daemonsets EXCEPT ![n] = x]
        BY <1>0, <3>2 DEF Kinds
      <4> QED
        BY <1>0, <2>2, <3>2, <4>1 DEF KernelsTold
    <3> QED
      BY <2>1, <3>1, <3>2
  <2> QED
    BY <2>4, <2>5, ListedStays
<1> QED
  BY <1>1, <1>2 DEF HandleDriverContainer

\* The list is read when the watch has delivered all DaemonSets.
LEMMA ListingListed ==
  ASSUME "daemonsets" \notin Lagging, OneEachInv, ListedInv, GetDaemonSets
  PROVE  ListedInv'
<1>1. cache.daemonsets = api.daemonsets /\ UNCHANGED api
  BY DEF GetDaemonSets, Kinds
<1>2. CASE IdleLocals
  BY <1>2, ListedStays
<1>3. CASE dsByKernel' = ModuleDaemonSetsByKernelVersion(api.daemonsets)
  <2> DEFINE d == api.daemonsets
  <2> SUFFICES ASSUME NEW k \in Kernels, dsByKernel'[k].name # Absent
               PROVE  /\ dsByKernel'[k].name \in Names
                      /\ d[dsByKernel'[k].name].kernel = k
    BY <1>1 DEF ListedInv
  <2>1. ForKernel(d, k) # {}
    BY <1>3 DEF ModuleDaemonSetsByKernelVersion, DSKernels
  <2> DEFINE n == CHOOSE n \in ForKernel(d, k) : TRUE
  <2>2. n \in ForKernel(d, k)
    BY <2>1
  <2>3. dsByKernel'[k].name = n
    BY <1>3, <2>1 DEF ModuleDaemonSetsByKernelVersion, DSKernels
  <2> HIDE DEF n
  <2>4. n \in DaemonSetNames /\ d[n] # Absent /\ d[n].kernel = k
    BY <2>2 DEF ForKernel, Existing, OneEachInv, KernelsTold
  <2>5. n # DevicePluginName
    BY <2>4, ModuleDataAssumption DEF OneEachInv, KernelsTold
  <2> QED
    BY <2>3, <2>4, <2>5 DEF DaemonSetNames
<1> QED
  BY <1>1, <1>2, <1>3 DEF GetDaemonSets, Return

\* Every step keeps what the list says.
LEMMA ListedKept ==
  ASSUME "daemonsets" \notin Lagging, OneEachInv, ListedInv, [Next]_vars
  PROVE  ListedInv'
<1>1. CASE HandleDriverContainer
  BY <1>1, DriverContainerKeepsListed
<1>2. CASE GetDaemonSets
  BY <1>2, ListingListed
<1>3. CASE HandleDevicePlugin
  <2> DEFINE x == SetDevicePluginAsDesired
  <2>1. UNCHANGED api \/ api' = [api EXCEPT !.daemonsets[DevicePluginName] = x]
    BY <1>3 DEF HandleDevicePlugin
  <2>2. IdleLocals \/ dsByKernel' = dsByKernel
    BY <1>3 DEF HandleDevicePlugin, Return
  <2> HIDE DEF x
  <2>3. \A n \in Names : api'.daemonsets[n] = api.daemonsets[n]
    <3>1. /\ DOMAIN api = Kinds /\ DOMAIN api.daemonsets = DaemonSetNames
          /\ DevicePluginName \notin Names /\ Names \subseteq DaemonSetNames
      BY ModuleDataAssumption DEF OneEachInv, KernelsTold, DaemonSetNames
    <3>2. CASE api' = [api EXCEPT !.daemonsets[DevicePluginName] = x]
      <4>1. api'.daemonsets = [api.daemonsets EXCEPT ![DevicePluginName] = x]
        BY <3>1, <3>2 DEF Kinds
      <4> QED
        BY <3>1, <4>1
    <3> QED
      BY <2>1, <3>2
  <2> QED
    BY <2>2, <2>3, ListedStays
<1>4. CASE ~ HandleDriverContainer /\ ~ GetDaemonSets /\ ~ HandleDevicePlugin
  <2>1. NoNewer(api.daemonsets, api'.daemonsets)
    BY <1>4, OnlyTheLoopCreates
  <2>2. IdleLocals \/ dsByKernel' = dsByKernel
    <3>1. CASE Reconcile
      <4>1. CASE SyncBuild
        BY <4>1 DEF SyncBuild, Return, locals
      <4>2. CASE SyncSign
        BY <4>2 DEF SyncSign, Return, locals
      <4>3. CASE ModuleUpdateStatus
        BY <4>3 DEF ModuleUpdateStatus, Return
      <4>4. ASSUME NEW n \in Names, GarbageCollectDaemonSet(n) \/ GarbageCollectJob(n)
            PROVE  IdleLocals \/ dsByKernel' = dsByKernel
        BY <4>4 DEF GarbageCollectDaemonSet, GarbageCollectJob, Return
      <4>5. CASE \/ GetRequestedModule \/ GetNodesAndMappings \/ HandleSigning
                 \/ (\E k \in Kernels : HandleBuild(k)) \/ ListSucceededJobs
        BY <4>5 DEF GetRequestedModule, GetNodesAndMappings, HandleBuild, HandleSigning,
           ListSucceededJobs, locals
      <4> QED
        BY <1>4, <3>1, <4>1, <4>2, <4>3, <4>4, <4>5 DEF Reconcile
    <3>2. CASE \/ ReconcileError \/ Restart \/ Resync \/ (\E kind \in Kinds : Deliver(kind))
               \/ UNCHANGED vars
      BY <3>2 DEF ReconcileError, Restart, Resync, Deliver, Return, locals, vars
    <3>3. CASE Cluster \/ Users
      BY <3>3 DEF Cluster, Users, LabelNode, BuildCompletes, BuildFails,
         JobStarts, JobSucceeds, JobFails, DaemonSetStatus, OwnedObjectCollected,
         EditModule, DeleteModule, UserDeletesBuild, ChangeNode, operator, locals
    <3> QED
      BY <3>1, <3>2, <3>3 DEF Next
  <2>3. Names \subseteq DaemonSetNames
    BY DEF DaemonSetNames
  <2> QED
    BY <2>1, <2>2, <2>3, ListedStays DEF NoNewer
<1> QED
  BY <1>1, <1>2, <1>3, <1>4

\* A kernel's DaemonSet is created, written or deleted: the other kernels run what
\* they ran.
LEMMA OneKernelRuns ==
  ASSUME NEW d, NEW e, KernelsTold(d), KernelsTold(e), NEW n \in DaemonSetNames,
         \A m \in DaemonSetNames \ {n} : e[m] = d[m], NEW k \in Kernels,
         d[n] # Absent => d[n].kernel = k,
         e[n] # Absent => e[n].kernel = k,
         d[n] # Absent \/ e[n] # Absent
  PROVE  [j \in Kernels |-> RunningImage(e, j)] =
            [[j \in Kernels |-> RunningImage(d, j)]
                EXCEPT ![k] = IF e[n] = Absent THEN Absent ELSE e[n].image]
<1>1. \A j \in Kernels \ {k} : RunningImage(e, j) = RunningImage(d, j)
  <2> SUFFICES ASSUME NEW j \in Kernels \ {k} PROVE RunningImage(e, j) = RunningImage(d, j)
    OBVIOUS
  <2>1. (d[n] # Absent => d[n].kernel # j) /\ (e[n] # Absent => e[n].kernel # j)
    OBVIOUS
  <2> QED
    BY <2>1, RunningOthers
<1>2. e[n] # Absent => RunningImage(e, k) = e[n].image
  BY RunningOne
<1>3. e[n] = Absent => RunningImage(e, k) = Absent
  <2> SUFFICES ASSUME e[n] = Absent PROVE RunningImage(e, k) = Absent
    OBVIOUS
  <2>1. \A m \in DaemonSetNames \ {n} : d[m] # Absent => d[m].kernel # k
    BY DEF KernelsTold, DuplicateKernel, Existing
  <2>2. \A m \in DaemonSetNames : e[m] # Absent => e[m].kernel # k
    BY <2>1
  <2> QED
    BY <2>2, RunningNone
<1> QED
  BY <1>1, <1>2, <1>3

\* The DaemonSet of the device plugin, or the number of pods of any, is written.
LEMMA AllKernelsRun ==
  ASSUME NEW d, NEW e, KernelsTold(d), KernelsTold(e), NEW n \in DaemonSetNames,
         \A m \in DaemonSetNames \ {n} : e[m] = d[m],
         \/ /\ d[n] # Absent => d[n].kernel \notin Kernels
            /\ e[n] # Absent => e[n].kernel \notin Kernels
         \/ /\ d[n] # Absent /\ e[n] # Absent
            /\ e[n].kernel = d[n].kernel /\ e[n].image = d[n].image
  PROVE  [j \in Kernels |-> RunningImage(e, j)] = [j \in Kernels |-> RunningImage(d, j)]
<1> SUFFICES ASSUME NEW j \in Kernels PROVE RunningImage(e, j) = RunningImage(d, j)
  OBVIOUS
<1>1. CASE /\ d[n] # Absent => d[n].kernel \notin Kernels
           /\ e[n] # Absent => e[n].kernel \notin Kernels
  <2>1. (d[n] # Absent => d[n].kernel # j) /\ (e[n] # Absent => e[n].kernel # j)
    BY <1>1
  <2> QED
    BY <2>1, RunningOthers
<1>2. CASE /\ d[n] # Absent /\ e[n] # Absent
           /\ e[n].kernel = d[n].kernel /\ e[n].image = d[n].image
  <2>1. \A m \in DaemonSetNames : m = n \/ e[m] = d[m]
    OBVIOUS
  <2>2. \A m \in DaemonSetNames :
           /\ (d[m] # Absent /\ d[m].kernel = j) <=> (e[m] # Absent /\ e[m].kernel = j)
           /\ d[m] # Absent /\ d[m].kernel = j => e[m].image = d[m].image
    BY <1>2, <2>1
  <2> QED
    BY <2>2, RunningSame
<1> QED
  BY <1>1, <1>2

\* A DaemonSet is written or deleted, nothing else.
LEMMA OneWritten ==
  ASSUME OneEachInv, NEW n \in DaemonSetNames, NEW x,
         api' = [api EXCEPT !.daemonsets[n] = x]
  PROVE  /\ api'.daemonsets[n] = x
         /\ \A m \in DaemonSetNames \ {n} : api'.daemonsets[m] = api.daemonsets[m]
<1>1. DOMAIN api = Kinds /\ DOMAIN api.daemonsets = DaemonSetNames
  BY DEF OneEachInv, KernelsTold
<1>2. api'.daemonsets = [api.daemonsets EXCEPT ![n] = x]
  BY <1>1 DEF Kinds
<1> QED
  BY <1>1, <1>2

\* handleDriverContainer rolls out the image of the kernel at hand.
LEMMA DriverContainerRollsOut ==
  ASSUME OneEachInv, OneEachInv', TypeInv, ImagesInv, ListedInv, HandleDriverContainer
  PROVE  R!Next \/ UNCHANGED <<Run, registry>>
<1> DEFINE img == ContainerImage(mod.spec, cur)
           d == api.daemonsets
           e == api'.daemonsets
<1>1. cur \in Kernels /\ mod.spec \in Specs /\ img \in registry /\ registry' = registry
  BY DEF HandleDriverContainer, ImagesInv, LoopTyped, LoopKnows
<1>2. KernelsTold(d) /\ KernelsTold(e) /\ Names \subseteq DaemonSetNames
  BY DEF OneEachInv, DaemonSetNames
<1>3. ASSUME NEW n \in Names, NEW x, api' = [api EXCEPT !.daemonsets[n] = x],
             x # Absent, x.kernel = cur, x.image = img, d[n] # Absent => d[n].kernel = cur
      PROVE  R!Next
  <2>1. e[n] = x /\ \A m \in DaemonSetNames \ {n} : e[m] = d[m]
    BY <1>2, <1>3, OneWritten
  <2>2. [j \in Kernels |-> RunningImage(e, j)] =
            [[j \in Kernels |-> RunningImage(d, j)]
                EXCEPT ![cur] = IF e[n] = Absent THEN Absent ELSE e[n].image]
    <3> HIDE DEF d, e
    <3> QED
      BY <1>1, <1>2, <1>3, <2>1, OneKernelRuns
  <2>3. Run' = [Run EXCEPT ![cur] = img]
    BY <1>3, <2>1, <2>2 DEF Run
  <2> QED
    BY <1>1, <2>3, RolloutSteps
<1>4. CASE CreateDriverContainer
  <2> DEFINE x == SetDriverContainerAsDesired(mod.spec, cur)
  <2>1. PICK n \in Names : api' = [api EXCEPT !.daemonsets[n] = x] /\ d[n] = Absent
    BY <1>4 DEF CreateDriverContainer, NewNames
  <2>2. x.kernel = cur /\ x.image = img
    BY DEF SetDriverContainerAsDesired
  <2>3. img \in ImageRef /\ 0 \in 0..Cardinality(Nodes)
    BY <1>1, ModuleDataAssumption, FS_CardinalityType DEF TypeInv, ObjectsTyped
  <2>4. x \in DaemonSet
    BY <1>1, <2>3 DEF SetDriverContainerAsDesired, DaemonSet, DSKernels
  <2> HIDE DEF x
  <2> QED
    BY <1>3, <2>1, <2>2, <2>4, ObjectAssumption
<1>5. CASE PatchDriverContainer
  <2> DEFINE n == dsByKernel[cur].name
             x == [d[n] EXCEPT !.image = img]
  <2>1. UNCHANGED api \/ (api' = [api EXCEPT !.daemonsets[n] = x] /\ d[n] # Absent)
    BY <1>5 DEF PatchDriverContainer
  <2>2. n \in Names /\ (d[n] # Absent => d[n].kernel = cur)
    BY <1>1, <1>5 DEF PatchDriverContainer, ListedInv
  <2>3. d[n] # Absent => d[n] \in DaemonSet
    BY <1>2, <2>2 DEF TypeInv, ObjectsTyped, Objects
  <2>4. img \in ImageRef
    BY <1>1 DEF TypeInv, ObjectsTyped
  <2>5. d[n] # Absent => x \in DaemonSet /\ x.kernel = cur /\ x.image = img
    <3> HIDE DEF img, d, n
    <3> QED
      BY <2>2, <2>3, <2>4 DEF DaemonSet
  <2>6. CASE UNCHANGED api
    BY <1>1, <2>6 DEF Run
  <2> HIDE DEF x, n
  <2>7. CASE api' = [api EXCEPT !.daemonsets[n] = x] /\ d[n] # Absent
    BY <1>3, <2>2, <2>5, <2>7, ObjectAssumption
  <2> QED
    BY <2>1, <2>6, <2>7
<1> QED
  BY <1>4, <1>5 DEF HandleDriverContainer

\* The garbage collections withdraw what a kernel runs, or the device plugin.
LEMMA DeletionWithdraws ==
  ASSUME OneEachInv, OneEachInv', NEW n \in DaemonSetNames, registry' = registry,
         api.daemonsets[n] # Absent, api' = [api EXCEPT !.daemonsets[n] = Absent]
  PROVE  R!Next \/ UNCHANGED <<Run, registry>>
<1> DEFINE d == api.daemonsets
           e == api'.daemonsets
           k == d[n].kernel
<1>1. KernelsTold(d) /\ KernelsTold(e)
  BY DEF OneEachInv
<1>2. e[n] = Absent /\ \A m \in DaemonSetNames \ {n} : e[m] = d[m]
  BY OneWritten
<1>3. CASE k \in Kernels
  <2>1. [j \in Kernels |-> RunningImage(e, j)] =
            [[j \in Kernels |-> RunningImage(d, j)]
                EXCEPT ![k] = IF e[n] = Absent THEN Absent ELSE e[n].image]
    <3> HIDE DEF d, e
    <3> QED
      BY <1>1, <1>2, <1>3, OneKernelRuns DEF d
  <2>2. Run' = [Run EXCEPT ![k] = Absent]
    BY <1>2, <2>1 DEF Run
  <2> QED
    BY <1>3, <2>2, RolloutSteps
<1>4. CASE k \notin Kernels
  <2>1. [j \in Kernels |-> RunningImage(e, j)] = [j \in Kernels |-> RunningImage(d, j)]
    <3> HIDE DEF d, e
    <3> QED
      BY <1>1, <1>2, <1>4, AllKernelsRun
  <2> QED
    BY <2>1 DEF Run
<1> QED
  BY <1>3, <1>4

\* The device plugin's DaemonSet is created, or a DaemonSet counts its pods: no kernel
\* runs anything else.
LEMMA PluginAndStatusRunSame ==
  ASSUME OneEachInv, OneEachInv', TypeInv,
         HandleDevicePlugin \/ \E n \in DaemonSetNames : DaemonSetStatus(n)
  PROVE  UNCHANGED <<Run, registry>>
<1> DEFINE d == api.daemonsets
           e == api'.daemonsets
<1>1. KernelsTold(d) /\ KernelsTold(e)
  BY DEF OneEachInv
<1>2. registry' = registry
  BY DEF HandleDevicePlugin, DaemonSetStatus
<1>3. CASE HandleDevicePlugin
  <2> DEFINE n == DevicePluginName
             x == SetDevicePluginAsDesired
  <2>1. UNCHANGED api \/ api' = [api EXCEPT !.daemonsets[n] = x]
    BY <1>3 DEF HandleDevicePlugin
  <2>2. CASE UNCHANGED api
    BY <1>2, <2>2 DEF Run
  <2>3. CASE api' = [api EXCEPT !.daemonsets[n] = x]
    <3>1. n \in DaemonSetNames /\ NoKernel \notin Kernels
      BY ModuleDataAssumption DEF DaemonSetNames
    <3>2. \A m \in DaemonSetNames \ {n} : e[m] = d[m]
      BY <2>3, <3>1, OneWritten
    <3>3. /\ d[n] # Absent => d[n].kernel \notin Kernels
          /\ e[n] # Absent => e[n].kernel \notin Kernels
      BY <1>1, <3>1 DEF KernelsTold
    <3> HIDE DEF d, e, n
    <3>4. [j \in Kernels |-> RunningImage(e, j)] = [j \in Kernels |-> RunningImage(d, j)]
      BY <1>1, <3>1, <3>2, <3>3, AllKernelsRun
    <3> QED
      BY <1>2, <3>4 DEF Run, d, e
  <2> QED
    BY <2>1, <2>2, <2>3
<1>4. ASSUME NEW n \in DaemonSetNames, DaemonSetStatus(n)
      PROVE  UNCHANGED <<Run, registry>>
  <2> DEFINE x == [d[n] EXCEPT !.available = Cardinality(PodsOf(n))]
  <2>1. api' = [api EXCEPT !.daemonsets[n] = x] /\ d[n] # Absent
    BY <1>4 DEF DaemonSetStatus
  <2>2. d[n] \in DaemonSet
    BY <2>1 DEF TypeInv, ObjectsTyped, Objects
  <2>3. x \in DaemonSet /\ x.kernel = d[n].kernel /\ x.image = d[n].image
    <3>1. PodsOf(n) \subseteq Nodes
      BY DEF PodsOf, DriverPods, getNodesListBySelector
    <3>2. Cardinality(PodsOf(n)) \in Pods
      BY <3>1, NodesCounted
    <3> HIDE DEF d
    <3> QED
      BY <2>2, <3>2 DEF DaemonSet, Pods
  <2> HIDE DEF x
  <2>4. e[n] = x /\ \A m \in DaemonSetNames \ {n} : e[m] = d[m]
    BY <2>1, OneWritten
  <2>5. e[n] # Absent
    BY <2>3, <2>4, ObjectAssumption
  <2> HIDE DEF d, e
  <2>6. [j \in Kernels |-> RunningImage(e, j)] = [j \in Kernels |-> RunningImage(d, j)]
    BY <1>1, <2>1, <2>3, <2>4, <2>5, AllKernelsRun
  <2> QED
    BY <1>2, <2>6 DEF Run, d, e
<1> QED
  BY <1>3, <1>4

\* Builds and signing Jobs push one image at a time.
LEMMA WorkloadsPush ==
  ASSUME TypeInv, NEW n \in Names,
         BuildCompletes(n) \/ JobSucceeds(n) \/ JobFails(n)
  PROVE  R!Next \/ UNCHANGED <<Run, registry>>
<1>1. DOMAIN api = Kinds
  BY DEF TypeInv, ObjectsTyped, Objects, Kinds
<1>2. Run' = Run
  <2>1. api'.daemonsets = api.daemonsets
    BY <1>1 DEF BuildCompletes, JobSucceeds, JobFails, Kinds
  <2> QED
    BY <2>1 DEF Run
<1>3. api.builds[n] # Absent => api.builds[n].output \in ImageRef
  BY DEF TypeInv, ObjectsTyped, Objects, PushingBuild
<1>4. api.jobs[n] # Absent => api.jobs[n].hash[3] \in ImageRef
  BY DEF TypeInv, ObjectsTyped, Objects, PushingJob
<1>5. \/ registry' = registry
      \/ \E i \in ImageRef : registry' = registry \cup {i}
  BY <1>3, <1>4 DEF BuildCompletes, JobSucceeds, JobFails
<1> QED
  BY <1>2, <1>5, RolloutSteps

\* Every other step leaves DaemonSets and registry alone.
LEMMA OthersRunSame ==
  ASSUME DOMAIN api = Kinds, [Next]_vars,
         ~ HandleDriverContainer, ~ HandleDevicePlugin,
         \A n \in DaemonSetNames : /\ ~ GarbageCollectDaemonSet(n) /\ ~ DaemonSetStatus(n)
                                   /\ ~ OwnedObjectCollected("daemonsets", n),
         \A n \in Names : ~ BuildCompletes(n) /\ ~ JobSucceeds(n) /\ ~ JobFails(n)
  PROVE  UNCHANGED <<Run, registry>>
<1>1. CASE UNCHANGED <<api, registry>>
  BY <1>1 DEF Run
<1>2. CASE api'.daemonsets = api.daemonsets /\ registry' = registry
  BY <1>2 DEF Run
<1>3. CASE Cluster \/ Users
  <2>1. ASSUME NEW n \in Names, NEW kind \in {"builds", "jobs"},
               OwnedObjectCollected(kind, n)
        PROVE  api'.daemonsets = api.daemonsets /\ registry' = registry
    BY <2>1 DEF OwnedObjectCollected, Kinds
  <2>2. ASSUME NEW n \in Names, BuildFails(n) \/ JobStarts(n) \/ UserDeletesBuild(n)
        PROVE  api'.daemonsets = api.daemonsets /\ registry' = registry
    BY <2>2 DEF BuildFails, JobStarts, UserDeletesBuild, Kinds
  <2>3. ASSUME \/ \E n \in Nodes : LabelNode(n)
               \/ \E s \in Specs : EditModule(s)
               \/ DeleteModule
               \/ \E n \in Nodes, s \in NodeState, k \in Kernels : ChangeNode(n, s, k)
        PROVE  api'.daemonsets = api.daemonsets /\ registry' = registry
    BY <2>3 DEF LabelNode, EditModule, DeleteModule, ChangeNode, Kinds
  <2> QED
    BY <1>2, <1>3, <2>1, <2>2, <2>3 DEF Cluster, Users
<1>4. CASE Reconcile
  <2>1. CASE SyncBuild
    BY <1>2, <2>1 DEF SyncBuild, CreateBuild, DeleteChangedBuild, Kinds
  <2>2. CASE SyncSign
    BY <1>2, <2>2 DEF SyncSign, CreateSignJob, DeleteChangedJob, Kinds
  <2>3. ASSUME NEW n \in Names, GarbageCollectJob(n)
        PROVE  api'.daemonsets = api.daemonsets /\ registry' = registry
    BY <2>3 DEF GarbageCollectJob, Kinds
  <2>4. CASE ModuleUpdateStatus
    BY <1>2, <2>4 DEF ModuleUpdateStatus, Kinds
  <2>5. CASE \/ GetRequestedModule \/ GetNodesAndMappings \/ GetDaemonSets
             \/ (\E k \in Kernels : HandleBuild(k))
             \/ HandleSigning \/ ListSucceededJobs
    BY <1>1, <2>5 DEF GetRequestedModule, GetNodesAndMappings, GetDaemonSets,
       HandleBuild, HandleSigning, ListSucceededJobs
  <2>6. Names \subseteq DaemonSetNames
    BY DEF DaemonSetNames
  <2> QED
    BY <1>2, <1>4, <2>1, <2>2, <2>3, <2>4, <2>5, <2>6 DEF Reconcile
<1>5. CASE ReconcileError \/ Resync \/ Restart \/ (\E kind \in Kinds : Deliver(kind))
           \/ UNCHANGED vars
  BY <1>1, <1>5 DEF ReconcileError, Resync, Restart, Deliver, vars
<1> QED
  BY <1>3, <1>4, <1>5 DEF Next

\* Whatever users, nodes, failures and crashes do, each step of the reconciler and of
\* its surroundings is one of Rollout, or changes nothing that Rollout speaks of.
THEOREM RolloutRefinement ==
  ASSUME "daemonsets" \notin Lagging, OneImagePerDockerfile, UserImagesPushed
  PROVE  Spec => ImplementsRollout
<1> DEFINE Inv == TypeInv /\ OneEachInv /\ ImagesInv
           run == [k \in Kernels |-> RunningImage(api.daemonsets, k)]
<1>1. Init => ListedInv /\ R!Init
  <2> SUFFICES ASSUME Init PROVE ListedInv /\ R!Init
    OBVIOUS
  <2>1. /\ api.daemonsets = NoObjects(DaemonSetNames) /\ registry = Prebuilt
        /\ dsByKernel = [k \in DSKernels |-> [name |-> Absent, available |-> 0]]
    BY DEF Init
  <2>2. ListedInv
    BY <2>1 DEF ListedInv, DSKernels
  <2>3. \A k \in Kernels : ForKernel(api.daemonsets, k) = {}
    BY <2>1 DEF ForKernel, Existing, NoObjects
  <2>4. \A k \in Kernels : RunningImage(api.daemonsets, k) = Absent
    BY <2>3 DEF RunningImage
  <2> QED
    BY <2>1, <2>2, <2>4, ReconcilerAssumption DEF R!Init
<1>2. Inv /\ ListedInv /\ [Next]_vars => ListedInv'
  BY ListedKept
<1>3. Inv /\ Inv' /\ ListedInv /\ [Next]_vars => [R!Next]_<<run, registry>>
  <2> SUFFICES ASSUME Inv, Inv', ListedInv, [Next]_vars
               PROVE  R!Next \/ UNCHANGED <<Run, registry>>
    BY DEF Run
  <2>1. CASE HandleDriverContainer
    BY <2>1, DriverContainerRollsOut
  <2>2. CASE HandleDevicePlugin \/ \E n \in DaemonSetNames : DaemonSetStatus(n)
    BY <2>2, PluginAndStatusRunSame
  <2>3. ASSUME NEW n \in DaemonSetNames,
               GarbageCollectDaemonSet(n) \/ OwnedObjectCollected("daemonsets", n)
        PROVE  R!Next \/ UNCHANGED <<Run, registry>>
    <3>1. /\ registry' = registry
          /\ \/ UNCHANGED api
             \/ /\ api.daemonsets[n] # Absent
                /\ api' = [api EXCEPT !.daemonsets[n] = Absent]
      BY <2>3 DEF GarbageCollectDaemonSet, OwnedObjectCollected
    <3>2. CASE UNCHANGED api
      BY <3>1, <3>2 DEF Run
    <3> QED
      BY <3>1, <3>2, DeletionWithdraws
  <2>4. ASSUME NEW n \in Names, BuildCompletes(n) \/ JobSucceeds(n) \/ JobFails(n)
        PROVE  R!Next \/ UNCHANGED <<Run, registry>>
    BY <2>4, WorkloadsPush
  <2>5. DOMAIN api = Kinds
    BY DEF OneEachInv
  <2> QED
    BY <2>1, <2>2, <2>3, <2>4, <2>5, OthersRunSame
<1> QED
  BY <1>1, <1>2, <1>3, TypesKept, OneEachKept, ImagesKept, PTL
  DEF Spec, ImplementsRollout, R!Spec

===========================================================================
