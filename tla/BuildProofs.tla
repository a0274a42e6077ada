---------------------------- MODULE BuildProofs ----------------------------
(***************************************************************************)
(* Proofs about the Builds of ModuleReconciler: none is created for an      *)
(* image that is there.                                                     *)
(***************************************************************************)
EXTENDS ModuleReconcilerProofs

USE DEF At

-----------------------------------------------------------------------------
(* Everything that may happen to Builds and Jobs in one step.               *)

BuildCreated(b) ==
    /\ SyncBuild /\ b \in NewNames("builds")
    /\ BuildSync(mod.spec, cur, TRUE, cache.builds) = "create"
    /\ api' = [api EXCEPT !.builds[b] = MakeBuildTemplate(mod.spec, cur, TRUE)]

BuildDeleted(b) ==
    /\ api' = [api EXCEPT !.builds[b] = Absent] /\ UNCHANGED registry
    /\ \/ SyncBuild
       \/ UserDeletesBuild(b)
       \/ OwnedObjectCollected("builds", b)

JobCreated(j) ==
    /\ SyncSign /\ j \in NewNames("jobs")
    /\ SignSync(mod.spec, cur, TRUE, cache.jobs) = "create"
    /\ api' = [api EXCEPT !.jobs[j] = MakeJobTemplate(mod.spec, cur, TRUE)]

JobDeleted(j) == api' = [api EXCEPT !.jobs[j] = Absent] /\ UNCHANGED registry

\* A step that writes neither a Build nor a Job.
OtherKinds ==
    /\ DOMAIN api' = Kinds /\ api'.builds = api.builds /\ api'.jobs = api.jobs
    /\ UNCHANGED registry

\* Nobody but the managers creates Builds and Jobs.
LEMMA WorkloadSteps ==
  ASSUME DOMAIN api = Kinds, [Next]_vars
  PROVE  \/ OtherKinds
         \/ \E b \in Names : BuildCreated(b) \/ BuildCompletes(b) \/ BuildFails(b)
         \/ \E b : BuildDeleted(b)
         \/ \E j \in Names : \/ JobCreated(j) \/ JobStarts(j) \/ JobSucceeds(j)
                             \/ JobFails(j)
         \/ \E j : JobDeleted(j)
<1> DEFINE Goal == \/ OtherKinds
                   \/ \E b \in Names : BuildCreated(b) \/ BuildCompletes(b) \/ BuildFails(b)
                   \/ \E b : BuildDeleted(b)
                   \/ \E j \in Names : \/ JobCreated(j) \/ JobStarts(j) \/ JobSucceeds(j)
                                       \/ JobFails(j)
                   \/ \E j : JobDeleted(j)
<1>1. CASE UNCHANGED <<api, registry>>
  BY <1>1 DEF OtherKinds
<1>2. CASE \/ GetRequestedModule \/ GetNodesAndMappings \/ GetDaemonSets
           \/ \E k \in Kernels : HandleBuild(k)
           \/ HandleSigning \/ ListSucceededJobs
           \/ ReconcileError \/ Resync \/ Restart \/ (\E kind \in Kinds : Deliver(kind))
           \/ UNCHANGED vars
  BY <1>1, <1>2 DEF GetRequestedModule, GetNodesAndMappings, GetDaemonSets,
     HandleBuild, HandleSigning, ListSucceededJobs, ReconcileError, Resync, Restart,
     Deliver, vars
<1>3. CASE SyncBuild
  <2> DEFINE only == TheOnly(ForKernel(cache.builds, cur))
  <2>1. \/ UNCHANGED api
        \/ \E b \in Names : BuildCreated(b)
        \/ api' = [api EXCEPT !.builds[only] = Absent]
    BY <1>3 DEF SyncBuild, CreateBuild, DeleteChangedBuild, NewNames, BuildCreated
  <2>2. UNCHANGED registry
    BY <1>3 DEF SyncBuild
  <2>3. api' = [api EXCEPT !.builds[only] = Absent] => BuildDeleted(only)
    BY <1>3, <2>2 DEF BuildDeleted
  <2> HIDE DEF only
  <2> QED
    BY <1>1, <2>1, <2>2, <2>3
<1>4. CASE SyncSign
  <2> DEFINE only == TheOnly(ForKernel(cache.jobs, cur))
  <2>1. \/ UNCHANGED api
        \/ \E j \in Names : JobCreated(j)
        \/ JobDeleted(only)
    BY <1>4 DEF SyncSign, CreateSignJob, DeleteChangedJob, NewNames, JobCreated,
       JobDeleted
  <2>2. UNCHANGED registry
    BY <1>4 DEF SyncSign
  <2> HIDE DEF only
  <2> QED
    BY <1>1, <2>1, <2>2
<1>5. CASE HandleDriverContainer
  <2>1. /\ DOMAIN api' = Kinds /\ api'.builds = api.builds /\ api'.jobs = api.jobs
        /\ UNCHANGED registry
    BY <1>5 DEF HandleDriverContainer, CreateDriverContainer, PatchDriverContainer, Kinds
  <2> QED
    BY <2>1 DEF OtherKinds
<1>6. CASE HandleDevicePlugin
  <2>1. /\ DOMAIN api' = Kinds /\ api'.builds = api.builds /\ api'.jobs = api.jobs
        /\ UNCHANGED registry
    BY <1>6 DEF HandleDevicePlugin, Kinds
  <2> QED
    BY <2>1 DEF OtherKinds
<1>7. ASSUME NEW n \in Names, GarbageCollectDaemonSet(n) PROVE Goal
  <2>1. /\ DOMAIN api' = Kinds /\ api'.builds = api.builds /\ api'.jobs = api.jobs
        /\ UNCHANGED registry
    BY <1>7 DEF GarbageCollectDaemonSet, Kinds
  <2> QED
    BY <2>1 DEF OtherKinds
<1>8. ASSUME NEW n \in Names, GarbageCollectJob(n) PROVE Goal
  <2>1. (UNCHANGED api \/ JobDeleted(n)) /\ UNCHANGED registry
    BY <1>8 DEF GarbageCollectJob, JobDeleted
  <2> QED
    BY <1>1, <2>1
<1>9. CASE ModuleUpdateStatus
  <2>1. /\ DOMAIN api' = Kinds /\ api'.builds = api.builds /\ api'.jobs = api.jobs
        /\ UNCHANGED registry
    BY <1>9 DEF ModuleUpdateStatus, Kinds
  <2> QED
    BY <2>1 DEF OtherKinds
<1>10. CASE Reconcile
  BY <1>2, <1>3, <1>4, <1>5, <1>6, <1>7, <1>8, <1>9, <1>10 DEF Reconcile
<1>11. ASSUME NEW n \in DaemonSetNames,
              DaemonSetStatus(n) \/ OwnedObjectCollected("daemonsets", n)
       PROVE  Goal
  <2>1. /\ DOMAIN api' = Kinds /\ api'.builds = api.builds /\ api'.jobs = api.jobs
        /\ UNCHANGED registry
    BY <1>11 DEF DaemonSetStatus, OwnedObjectCollected, Kinds
  <2> QED
    BY <2>1 DEF OtherKinds
<1>12. ASSUME NEW n \in Names, NEW kind \in {"builds", "jobs"},
              OwnedObjectCollected(kind, n)
       PROVE  Goal
  <2>1. CASE kind = "builds"
    BY <1>12, <2>1 DEF BuildDeleted, OwnedObjectCollected
  <2>2. CASE kind = "jobs"
    BY <1>12, <2>2 DEF JobDeleted, OwnedObjectCollected
  <2> QED
    BY <2>1, <2>2
<1>13. ASSUME \/ \E n \in Nodes : LabelNode(n)
              \/ \E s \in Specs : EditModule(s)
              \/ DeleteModule
              \/ \E n \in Nodes, s \in NodeState, k \in Kernels : ChangeNode(n, s, k)
       PROVE  Goal
  <2>1. /\ DOMAIN api' = Kinds /\ api'.builds = api.builds /\ api'.jobs = api.jobs
        /\ UNCHANGED registry
    BY <1>13 DEF LabelNode, EditModule, DeleteModule, ChangeNode, Kinds
  <2> QED
    BY <2>1 DEF OtherKinds
<1>14. ASSUME NEW b \in Names, UserDeletesBuild(b) PROVE Goal
  BY <1>14 DEF UserDeletesBuild, BuildDeleted
<1>15. CASE Cluster \/ Users
  BY <1>11, <1>12, <1>13, <1>14, <1>15 DEF Cluster, Users
<1> QED
  BY <1>2, <1>10, <1>15 DEF Next

-----------------------------------------------------------------------------
(* Builds are created for missing images only.                              *)

\* With an up-to-date list, the kernel has none.
LEMMA BuildCreatedForNone ==
  ASSUME "builds" \notin Lagging, NEW b, BuildCreated(b)
  PROVE  ForKernel(api.builds, cur) = {}
<1>1. cache.builds = api.builds
  BY DEF BuildCreated, SyncBuild, Kinds
<1>2. BuildSync(mod.spec, cur, TRUE, cache.builds) = "create"
  BY DEF BuildCreated
<1> QED
  BY <1>1, <1>2, SyncCreates

\* What users owe the operator: an image that is built and not signed is not the
\* signed image of another version of the Module.  Without it, the signing Job of
\* the old version may push the image between ShouldSync and Sync.
SignedImagesOwn ==
    \A s, t \in Specs :
        ShouldBeBuilt(s) /\ ~ ShouldBeSigned(s) /\ ShouldBeSigned(t)
            => s.image # t.image

\* Where the images that Builds and Jobs push come from.
BuildFrom(x) ==
    /\ x \in Build
    /\ \E s \in Specs : x.output = BuildTarget(s, x.kernel)

JobFrom(x) ==
    /\ DOMAIN x = {"kernel", "hash", "phase"}
    /\ \E s \in Specs, k \in Kernels :
          ShouldBeSigned(s) /\ x.hash[3] = ContainerImage(s, k)

WorkFrom(builds, jobs) ==
    /\ DOMAIN builds = Names /\ DOMAIN jobs = Names
    /\ \A b \in Names : builds[b] # Absent => BuildFrom(builds[b])
    /\ \A j \in Names : jobs[j] # Absent => JobFrom(jobs[j])

ModuleWell(m) == m # Absent => ModuleShape(m)

SignLoop == pc = "signSync" => ShouldBeSigned(mod.spec)

\* An image pushed since ShouldSync asked for it was pushed by a Build that is
\* still there, for nothing but the Module's deletion takes a complete one away.
CompleteIn(builds, k) ==
    \E b \in Names : /\ builds[b] # Absent
                     /\ builds[b].kernel = k /\ builds[b].phase = "Complete"

PushedByBuild ==
    /\ pc = "buildSync" /\ api.module # Absent
    /\ BuildTarget(mod.spec, cur) \in registry
    => CompleteIn(api.builds, cur)

MissingInv ==
    /\ DOMAIN api = Kinds /\ DOMAIN cache = Kinds
    /\ ModuleWell(api.module) /\ ModuleWell(cache.module)
    /\ WorkFrom(api.builds, api.jobs)
    /\ LoopTyped /\ SignLoop
    /\ PushedByBuild

\* Only users write the Module's spec, and a deleted Module stays deleted.
LEMMA ModuleKept ==
  ASSUME DOMAIN api = Kinds, ModuleWell(api.module), [Next]_vars
  PROVE  /\ DOMAIN api' = Kinds /\ ModuleWell(api'.module)
         /\ api.module = Absent => api'.module = Absent
<1> DEFINE Goal == /\ DOMAIN api' = Kinds /\ ModuleWell(api'.module)
                   /\ api.module = Absent => api'.module = Absent
<1>1. CASE DOMAIN api' = Kinds /\ api'.module = api.module
  BY <1>1
<1>2. CASE \/ GetRequestedModule \/ GetNodesAndMappings \/ GetDaemonSets
           \/ \E k \in Kernels : HandleBuild(k)
           \/ HandleSigning \/ ListSucceededJobs
           \/ ReconcileError \/ Resync \/ Restart \/ (\E kind \in Kinds : Deliver(kind))
           \/ UNCHANGED vars
  BY <1>1, <1>2 DEF GetRequestedModule, GetNodesAndMappings, GetDaemonSets,
     HandleBuild, HandleSigning, ListSucceededJobs, ReconcileError, Resync, Restart,
     Deliver, vars
<1>3. CASE SyncBuild \/ SyncSign
  <2>1. DOMAIN api' = Kinds /\ api'.module = api.module
    BY <1>3 DEF SyncBuild, CreateBuild, DeleteChangedBuild, SyncSign, CreateSignJob,
       DeleteChangedJob, Kinds
  <2> QED
    BY <1>1, <2>1
<1>4. CASE HandleDriverContainer \/ HandleDevicePlugin
  <2>1. DOMAIN api' = Kinds /\ api'.module = api.module
    BY <1>4 DEF HandleDriverContainer, CreateDriverContainer, PatchDriverContainer,
       HandleDevicePlugin, Kinds
  <2> QED
    BY <1>1, <2>1
<1>5. ASSUME NEW n \in Names, GarbageCollectDaemonSet(n) \/ GarbageCollectJob(n)
      PROVE  Goal
  <2>1. DOMAIN api' = Kinds /\ api'.module = api.module
    BY <1>5 DEF GarbageCollectDaemonSet, GarbageCollectJob, Kinds
  <2> QED
    BY <1>1, <2>1
<1>6. CASE ModuleUpdateStatus
  <2>1. CASE UNCHANGED api
    BY <1>1, <2>1
  <2>2. CASE api.module # Absent /\ api' # api
    <3> DEFINE new == DesiredStatus
               st == [f \in DOMAIN new |-> IF new[f] # mod.status[f]
                                           THEN new[f] ELSE api.module.status[f]]
               x == [api.module EXCEPT !.status = st]
    <3>1. api' = [api EXCEPT !.module = x]
      BY <1>6, <2>2 DEF ModuleUpdateStatus
    <3> HIDE DEF st
    <3>2. ModuleShape(x)
      BY <2>2 DEF ModuleWell, ModuleShape
    <3> HIDE DEF x
    <3> QED
      BY <2>2, <3>1, <3>2 DEF ModuleWell, Kinds
  <2> QED
    BY <1>6, <2>1, <2>2 DEF ModuleUpdateStatus
<1>7. CASE Reconcile
  BY <1>2, <1>3, <1>4, <1>5, <1>6, <1>7 DEF Reconcile
<1>8. ASSUME NEW s \in Specs, EditModule(s) PROVE Goal
  <2> DEFINE x == [api.module EXCEPT !.spec = s]
  <2>1. api' = [api EXCEPT !.module = x] /\ api.module # Absent
    BY <1>8 DEF EditModule
  <2>2. ModuleShape(x)
    BY <2>1 DEF ModuleWell, ModuleShape
  <2> HIDE DEF x
  <2> QED
    BY <2>1, <2>2 DEF ModuleWell, Kinds
<1>9. CASE DeleteModule
  BY <1>9 DEF DeleteModule, ModuleWell, Kinds
<1>10. ASSUME NEW n \in Names, \/ BuildCompletes(n) \/ BuildFails(n) \/ JobStarts(n)
                               \/ JobSucceeds(n) \/ JobFails(n) \/ UserDeletesBuild(n)
       PROVE  Goal
  <2>1. DOMAIN api' = Kinds /\ api'.module = api.module
    BY <1>10 DEF BuildCompletes, BuildFails, JobStarts, JobSucceeds, JobFails,
       UserDeletesBuild, Kinds
  <2> QED
    BY <1>1, <2>1
<1>11. ASSUME NEW n \in DaemonSetNames,
              DaemonSetStatus(n) \/ OwnedObjectCollected("daemonsets", n)
       PROVE  Goal
  <2>1. DOMAIN api' = Kinds /\ api'.module = api.module
    BY <1>11 DEF DaemonSetStatus, OwnedObjectCollected, Kinds
  <2> QED
    BY <1>1, <2>1
<1>12. ASSUME NEW n \in Names, NEW kind \in {"builds", "jobs"},
              OwnedObjectCollected(kind, n)
       PROVE  Goal
  <2>1. DOMAIN api' = Kinds /\ api'.module = api.module
    BY <1>12 DEF OwnedObjectCollected, Kinds
  <2> QED
    BY <1>1, <2>1
<1>13. ASSUME \/ \E n \in Nodes : LabelNode(n)
              \/ \E n \in Nodes, s \in NodeState, k \in Kernels : ChangeNode(n, s, k)
       PROVE  Goal
  <2>1. DOMAIN api' = Kinds /\ api'.module = api.module
    BY <1>13 DEF LabelNode, ChangeNode, Kinds
  <2> QED
    BY <1>1, <2>1
<1>14. CASE Cluster \/ Users
  BY <1>8, <1>9, <1>10, <1>11, <1>12, <1>13, <1>14 DEF Cluster, Users
<1> QED
  BY <1>2, <1>7, <1>14 DEF Next

\* What the loop works on: a spec users wrote, kernels, and a build or a sign
\* section where it is about to build or to sign.
LEMMA LoopStaysTyped ==
  ASSUME ModuleWell(cache.module), LoopTyped, SignLoop, [Next]_vars
  PROVE  LoopTyped' /\ SignLoop'
<1> USE DEF LoopTyped, SignLoop
<1>1. CASE pc' = "idle" /\ IdleLocals
  BY <1>1 DEF IdleLocals
<1>2. CASE UNCHANGED <<pc, mod, todo, cur>>
  BY <1>2
<1>3. CASE GetRequestedModule
  <2>1. cache.module # Absent => cache.module.spec \in Specs
    BY DEF ModuleWell, ModuleShape
  <2> QED
    BY <1>3, <2>1 DEF GetRequestedModule
<1>4. CASE GetNodesAndMappings
  <2>1. mod.spec \in Specs /\ mod.spec.kernels \subseteq Kernels
    BY <1>4, ModuleDataAssumption DEF GetNodesAndMappings, ModuleSpec
  <2>2. RelevantKernels(mod.spec, cache.nodes) \subseteq Kernels
    BY <2>1 DEF RelevantKernels, NodesWithMapping
  <2> QED
    BY <1>4, <2>1, <2>2 DEF GetNodesAndMappings
<1>5. CASE GetDaemonSets
  BY <1>1, <1>5 DEF GetDaemonSets, Return
<1>6. ASSUME NEW k \in Kernels, HandleBuild(k) PROVE LoopTyped' /\ SignLoop'
  BY <1>6 DEF HandleBuild, BuildShouldSync
<1>7. CASE SyncBuild
  <2>1. \/ pc' = "idle" /\ IdleLocals
        \/ pc = "buildSync" /\ pc' \in {"sign", "kernels"} /\ UNCHANGED <<mod, todo, cur>>
    BY <1>7 DEF SyncBuild, Return, locals
  <2> QED
    BY <1>1, <2>1
<1>8. CASE HandleSigning
  BY <1>8 DEF HandleSigning, SignShouldSync, locals
<1>9. CASE SyncSign
  <2>1. \/ pc' = "idle" /\ IdleLocals
        \/ pc = "signSync" /\ pc' \in {"driver", "kernels"} /\ UNCHANGED <<mod, todo, cur>>
    BY <1>9 DEF SyncSign, Return, locals
  <2> QED
    BY <1>1, <2>1
<1>10. CASE HandleDriverContainer
  BY <1>1, <1>10 DEF HandleDriverContainer, CreateDriverContainer,
     PatchDriverContainer, Return, locals
<1>11. CASE HandleDevicePlugin
  BY <1>1, <1>11 DEF HandleDevicePlugin, Return
<1>12. ASSUME NEW n \in Names, GarbageCollectDaemonSet(n) \/ GarbageCollectJob(n)
       PROVE  LoopTyped' /\ SignLoop'
  BY <1>1, <1>2, <1>12 DEF GarbageCollectDaemonSet, GarbageCollectJob, Return
<1>13. CASE ListSucceededJobs
  BY <1>13 DEF ListSucceededJobs
<1>14. CASE ModuleUpdateStatus \/ ReconcileError \/ Restart
  BY <1>1, <1>14 DEF ModuleUpdateStatus, ReconcileError, Restart, Return
<1>15. CASE \/ Resync \/ (\E kind \in Kinds : Deliver(kind))
            \/ Cluster \/ Users \/ UNCHANGED vars
  <2>1. UNCHANGED <<pc, mod, todo, cur>>
    BY <1>15 DEF Resync, Deliver, Cluster, Users, LabelNode, BuildCompletes, BuildFails,
       JobStarts, JobSucceeds, JobFails, DaemonSetStatus, OwnedObjectCollected,
       EditModule, DeleteModule, UserDeletesBuild, ChangeNode, operator, locals, vars
  <2> QED
    BY <1>2, <2>1
<1> QED
  BY <1>3, <1>4, <1>5, <1>6, <1>7, <1>8, <1>9, <1>10, <1>11, <1>12, <1>13, <1>14,
     <1>15 DEF Next, Reconcile

\* The loop gets to Sync through ShouldSync only, and what waits there is not
\* moved by anybody else.
LEMMA WaitsForSync ==
  ASSUME [Next]_vars, pc' = "buildSync"
  PROVE  \/ \E k \in Kernels : HandleBuild(k)
         \/ ~ SyncBuild /\ ~ SyncSign /\ UNCHANGED <<pc, mod, cur>>
<1>0. ~ SyncBuild /\ ~ SyncSign
  BY DEF SyncBuild, SyncSign, Return
<1>1. CASE \/ GetRequestedModule \/ GetNodesAndMappings \/ GetDaemonSets
           \/ HandleSigning \/ HandleDriverContainer \/ HandleDevicePlugin
           \/ (\E n \in Names : GarbageCollectDaemonSet(n) \/ GarbageCollectJob(n))
           \/ ListSucceededJobs \/ ModuleUpdateStatus \/ ReconcileError \/ Restart
  BY <1>1 DEF GetRequestedModule, GetNodesAndMappings, GetDaemonSets, HandleSigning,
     HandleDriverContainer, CreateDriverContainer, PatchDriverContainer,
     HandleDevicePlugin, GarbageCollectDaemonSet, GarbageCollectJob, ListSucceededJobs,
     ModuleUpdateStatus, ReconcileError, Restart, Return
<1>2. CASE \/ Resync \/ (\E kind \in Kinds : Deliver(kind))
           \/ Cluster \/ Users \/ UNCHANGED vars
  <2>1. UNCHANGED <<pc, mod, cur>>
    BY <1>2 DEF Resync, Deliver, Cluster, Users, LabelNode, BuildCompletes, BuildFails,
       JobStarts, JobSucceeds, JobFails, DaemonSetStatus, OwnedObjectCollected,
       EditModule, DeleteModule, UserDeletesBuild, ChangeNode, operator, locals, vars
  <2> QED
    BY <1>0, <2>1
<1> QED
  BY <1>0, <1>1, <1>2 DEF Next, Reconcile

\* What the build manager creates is a Build that pushes the spec's image.
LEMMA TemplateTyped ==
  ASSUME NEW s \in Specs, NEW k \in Kernels
  PROVE  /\ MakeBuildTemplate(s, k, TRUE) \in Build
         /\ MakeBuildTemplate(s, k, TRUE).output =
                BuildTarget(s, MakeBuildTemplate(s, k, TRUE).kernel)
BY TemplatesTyped DEF MakeBuildTemplate

\* Builds and Jobs push what some version of the Module asked for.
LEMMA WorkStaysFrom ==
  ASSUME MissingInv, [Next]_vars
  PROVE  WorkFrom(api'.builds, api'.jobs)
<1>0. /\ DOMAIN api = Kinds /\ WorkFrom(api.builds, api.jobs)
      /\ LoopTyped /\ SignLoop
  BY DEF MissingInv
<1>1. ASSUME NEW b, NEW x, api' = [api EXCEPT !.builds[b] = x],
             b \in Names /\ x # Absent => BuildFrom(x)
      PROVE  WorkFrom(api'.builds, api'.jobs)
  <2>1. api'.builds = [api.builds EXCEPT ![b] = x] /\ api'.jobs = api.jobs
    BY <1>0, <1>1 DEF Kinds
  <2> QED
    BY <1>0, <1>1, <2>1 DEF WorkFrom
<1>2. ASSUME NEW j, NEW x, api' = [api EXCEPT !.jobs[j] = x],
             j \in Names /\ x # Absent => JobFrom(x)
      PROVE  WorkFrom(api'.builds, api'.jobs)
  <2>1. api'.jobs = [api.jobs EXCEPT ![j] = x] /\ api'.builds = api.builds
    BY <1>0, <1>2 DEF Kinds
  <2> QED
    BY <1>0, <1>2, <2>1 DEF WorkFrom
<1>3. CASE OtherKinds
  BY <1>0, <1>3 DEF OtherKinds
<1>4. ASSUME NEW b \in Names, BuildCreated(b) PROVE WorkFrom(api'.builds, api'.jobs)
  <2> DEFINE x == MakeBuildTemplate(mod.spec, cur, TRUE)
  <2>1. mod.spec \in Specs /\ cur \in Kernels
    BY <1>0, <1>4 DEF BuildCreated, SyncBuild, LoopTyped
  <2>2. BuildFrom(x) /\ api' = [api EXCEPT !.builds[b] = x]
    BY <1>4, <2>1, TemplateTyped DEF BuildCreated, BuildFrom
  <2> HIDE DEF x
  <2> QED
    BY <1>1, <2>2
<1>5. ASSUME NEW b \in Names, BuildCompletes(b) \/ BuildFails(b)
      PROVE  WorkFrom(api'.builds, api'.jobs)
  <2>1. PICK ph \in {"Complete", "Failed"} :
           /\ api' = [api EXCEPT !.builds[b] = [api.builds[b] EXCEPT !.phase = ph]]
           /\ api.builds[b] # Absent
    BY <1>5 DEF BuildCompletes, BuildFails
  <2> DEFINE x == [api.builds[b] EXCEPT !.phase = ph]
  <2>2. BuildFrom(x)
    BY <1>0, <2>1 DEF WorkFrom, BuildFrom, Build, BuildPhase
  <2>3. api' = [api EXCEPT !.builds[b] = x]
    BY <2>1
  <2> HIDE DEF x
  <2> QED
    BY <1>1, <2>2, <2>3
<1>6. ASSUME NEW b, BuildDeleted(b) PROVE WorkFrom(api'.builds, api'.jobs)
  BY <1>1, <1>6 DEF BuildDeleted
<1>7. ASSUME NEW j \in Names, JobCreated(j) PROVE WorkFrom(api'.builds, api'.jobs)
  <2> DEFINE x == MakeJobTemplate(mod.spec, cur, TRUE)
  <2>1. mod.spec \in Specs /\ cur \in Kernels /\ ShouldBeSigned(mod.spec)
    BY <1>0, <1>7 DEF JobCreated, SyncSign, LoopTyped, SignLoop
  <2>2. JobFrom(x) /\ api' = [api EXCEPT !.jobs[j] = x]
    BY <1>7, <2>1 DEF JobCreated, MakeJobTemplate, JobFrom
  <2> HIDE DEF x
  <2> QED
    BY <1>2, <2>2
<1>8. ASSUME NEW j \in Names, JobStarts(j) \/ JobSucceeds(j) \/ JobFails(j)
      PROVE  WorkFrom(api'.builds, api'.jobs)
  <2>1. PICK ph \in {"Active", "Succeeded", "Failed"} :
           /\ api' = [api EXCEPT !.jobs[j] = [api.jobs[j] EXCEPT !.phase = ph]]
           /\ api.jobs[j] # Absent
    BY <1>8 DEF JobStarts, JobSucceeds, JobFails
  <2> DEFINE x == [api.jobs[j] EXCEPT !.phase = ph]
  <2>2. JobFrom(x)
    BY <1>0, <2>1 DEF WorkFrom, JobFrom
  <2>3. api' = [api EXCEPT !.jobs[j] = x]
    BY <2>1
  <2> HIDE DEF x
  <2> QED
    BY <1>2, <2>2, <2>3
<1>9. ASSUME NEW j, JobDeleted(j) PROVE WorkFrom(api'.builds, api'.jobs)
  BY <1>2, <1>9 DEF JobDeleted
<1> QED
  BY <1>0, <1>3, <1>4, <1>5, <1>6, <1>7, <1>8, <1>9, WorkloadSteps

\* Caches change by deliveries and restarts only.
LEMMA CacheSteps ==
  ASSUME [Next]_vars
  PROVE  (\E kind \in Kinds : Deliver(kind)) \/ cache' = api \/ cache' = cache
<1>1. CASE Reconcile
  BY <1>1 DEF Reconcile, GetRequestedModule, GetNodesAndMappings, GetDaemonSets,
     HandleBuild, SyncBuild, HandleSigning, SyncSign, HandleDriverContainer,
     HandleDevicePlugin, GarbageCollectDaemonSet, GarbageCollectJob, ListSucceededJobs,
     ModuleUpdateStatus
<1>2. CASE Cluster \/ Users
  BY <1>2 DEF Cluster, Users, LabelNode, BuildCompletes, BuildFails, JobStarts,
     JobSucceeds, JobFails, DaemonSetStatus, OwnedObjectCollected, EditModule,
     DeleteModule, UserDeletesBuild, ChangeNode, operator
<1>3. CASE ReconcileError \/ Resync \/ Restart \/ UNCHANGED vars
  BY <1>3 DEF ReconcileError, Resync, Restart, vars
<1> QED
  BY <1>1, <1>2, <1>3 DEF Next

\* While the loop waits for Sync, only a Build of this kernel pushes the image it
\* found missing, and that Build stays.
LEMMA PushedByBuildKept ==
  ASSUME SignedImagesOwn, MissingInv, [Next]_vars
  PROVE  PushedByBuild'
<1>0. /\ DOMAIN api = Kinds /\ WorkFrom(api.builds, api.jobs)
      /\ LoopTyped /\ PushedByBuild /\ ModuleWell(api.module)
  BY DEF MissingInv
<1> SUFFICES ASSUME pc' = "buildSync", api'.module # Absent,
                    BuildTarget(mod'.spec, cur') \in registry'
             PROVE  CompleteIn(api'.builds, cur')
  BY DEF PushedByBuild
<1>1. api.module # Absent
  BY <1>0, ModuleKept
<1>2. ASSUME NEW k \in Kernels, HandleBuild(k) PROVE FALSE
  BY <1>2 DEF HandleBuild, BuildShouldSync
<1>3. ~ SyncBuild /\ ~ SyncSign /\ pc = "buildSync" /\ mod' = mod /\ cur' = cur
  BY <1>2, WaitsForSync
<1> DEFINE img == BuildTarget(mod.spec, cur)
<1>4. mod.spec \in Specs /\ cur \in Kernels /\ ShouldBeBuilt(mod.spec)
  BY <1>0, <1>3 DEF LoopTyped
<1>5. img \in registry => CompleteIn(api.builds, cur)
  BY <1>0, <1>1, <1>3 DEF PushedByBuild
<1>6. img \in registry'
  BY <1>3
<1>7. ASSUME NEW t \in Specs, ShouldBeSigned(t), NEW k PROVE ContainerImage(t, k) # img
  BY <1>4, <1>7 DEF SignedImagesOwn, ContainerImage, BuildTarget, IntermediateImageName
<1>8. ASSUME NEW t, NEW k, BuildTarget(t, k) = img PROVE k = cur
  BY <1>8 DEF ContainerImage, BuildTarget, IntermediateImageName
<1> HIDE DEF img
<1>9. SUFFICES CompleteIn(api'.builds, cur)
  BY <1>3
<1>10. CASE OtherKinds
  BY <1>5, <1>6, <1>10 DEF OtherKinds
<1>11. ASSUME NEW b, BuildDeleted(b) PROVE CompleteIn(api'.builds, cur)
  <2>1. UserDeletesBuild(b)
    BY <1>1, <1>3, <1>11 DEF BuildDeleted, OwnedObjectCollected
  <2>2. /\ api.builds[b] # Absent => api.builds[b].phase # "Complete"
        /\ api'.builds = [api.builds EXCEPT ![b] = Absent] /\ registry' = registry
    BY <1>0, <1>11, <2>1 DEF UserDeletesBuild, BuildDeleted, Kinds
  <2> QED
    BY <1>0, <1>5, <1>6, <2>2 DEF CompleteIn, WorkFrom
<1>12. ASSUME NEW b \in Names, BuildFails(b) PROVE CompleteIn(api'.builds, cur)
  <2>1. /\ api.builds[b].phase = "New" /\ registry' = registry
        /\ api'.builds = [api.builds EXCEPT ![b].phase = "Failed"]
    BY <1>0, <1>12 DEF BuildFails, Kinds
  <2>2. \A c \in Names : c # b => api'.builds[c] = api.builds[c]
    BY <1>0, <2>1 DEF WorkFrom
  <2> QED
    BY <1>5, <1>6, <2>1, <2>2 DEF CompleteIn
<1>13. ASSUME NEW b \in Names, BuildCompletes(b) PROVE CompleteIn(api'.builds, cur)
  <2>1. /\ api.builds[b] # Absent /\ api.builds[b].phase = "New"
        /\ registry' = registry \cup {api.builds[b].output}
        /\ api'.builds = [api.builds EXCEPT ![b].phase = "Complete"]
    BY <1>0, <1>13 DEF BuildCompletes, Kinds
  <2>2. BuildFrom(api.builds[b])
    BY <1>0, <2>1 DEF WorkFrom
  <2>3. CASE img \in registry
    <3>1. \A c \in Names : c # b => api'.builds[c] = api.builds[c]
      BY <1>0, <2>1 DEF WorkFrom
    <3> QED
      BY <1>5, <2>1, <2>3, <3>1 DEF CompleteIn
  <2>4. CASE img \notin registry
    <3>1. api.builds[b].output = img
      BY <1>6, <2>1, <2>4
    <3>2. api.builds[b].kernel = cur
      BY <1>8, <2>2, <3>1 DEF BuildFrom
    <3>3. /\ api'.builds[b].kernel = cur /\ api'.builds[b].phase = "Complete"
          /\ api'.builds[b] \in Build
      BY <1>0, <2>1, <2>2, <3>2 DEF WorkFrom, BuildFrom, Build, BuildPhase
    <3>4. api'.builds[b] # Absent
      BY <3>3, ObjectAssumption
    <3> QED
      BY <3>3, <3>4 DEF CompleteIn
  <2> QED
    BY <2>3, <2>4
<1>14. ASSUME NEW j \in Names, JobStarts(j) \/ JobSucceeds(j) \/ JobFails(j)
       PROVE  CompleteIn(api'.builds, cur)
  <2>1. /\ api.jobs[j] # Absent /\ registry' \subseteq registry \cup {api.jobs[j].hash[3]}
        /\ api'.builds = api.builds
    BY <1>0, <1>14 DEF JobStarts, JobSucceeds, JobFails, Kinds
  <2>2. api.jobs[j].hash[3] # img
    BY <1>0, <1>7, <2>1 DEF WorkFrom, JobFrom
  <2> QED
    BY <1>5, <1>6, <2>1, <2>2
<1>15. ASSUME NEW j, JobDeleted(j) PROVE CompleteIn(api'.builds, cur)
  BY <1>0, <1>5, <1>6, <1>15 DEF JobDeleted, Kinds
<1> QED
  BY <1>0, <1>3, <1>10, <1>11, <1>12, <1>13, <1>14, <1>15, WorkloadSteps
     DEF BuildCreated, JobCreated

\* A Build is created only for an image that is missing: the answer of ShouldSync
\* may be old by the time Sync creates the Build, but then Sync finds the Build that
\* pushed the image.  For any edits, failures and crashes, if the list of Builds is
\* up to date when Sync reads it; the Module it works on may be stale.
THEOREM MissingSafety ==
  ASSUME "builds" \notin Lagging, SignedImagesOwn
  PROVE  Spec => BuildsOnlyMissingImages
<1> DEFINE Creates(b) == /\ api.module # Absent
                         /\ api.builds[b] = Absent /\ api'.builds[b] # Absent
           Missing == \A b \in Names : Creates(b) => api'.builds[b].output \notin registry
<1>1. Init => MissingInv
  <2> SUFFICES ASSUME Init PROVE MissingInv
    OBVIOUS
  <2>1. PICK s \in InitSpecs, runs \in [Nodes -> Kernels] :
          api = [module |-> [spec |-> s, status |-> NoStatus],
                  nodes |-> [n \in Nodes |-> [state |-> "ready", kernel |-> runs[n],
                                              label |-> runs[n]]],
                  daemonsets |-> NoObjects(DaemonSetNames),
                  builds |-> NoObjects(Names),
                  jobs |-> NoObjects(Names)]
    BY DEF Init
  <2>2. cache = api /\ pc = "idle" /\ todo = {} /\ s \in Specs
    BY ReconcilerAssumption DEF Init
  <2>3. DOMAIN api = Kinds /\ ModuleWell(api.module) /\ WorkFrom(api.builds, api.jobs)
    BY <2>1, <2>2 DEF Kinds, ModuleWell, ModuleShape, WorkFrom, NoObjects
  <2> QED
    BY <2>2, <2>3 DEF MissingInv, LoopTyped, SignLoop, PushedByBuild
<1>2. MissingInv /\ [Next]_vars => MissingInv'
  <2> SUFFICES ASSUME MissingInv, [Next]_vars PROVE MissingInv'
    OBVIOUS
  <2>1. DOMAIN api' = Kinds /\ ModuleWell(api'.module)
    BY ModuleKept DEF MissingInv
  <2>2. DOMAIN cache' = Kinds /\ ModuleWell(cache'.module)
    <3>1. CASE \E kind \in Kinds : Deliver(kind)
      BY <3>1 DEF Deliver, MissingInv, Kinds
    <3>2. CASE cache' = api
      BY <3>2 DEF MissingInv
    <3>3. CASE cache' = cache
      BY <3>3 DEF MissingInv
    <3> QED
      BY <3>1, <3>2, <3>3, CacheSteps
  <2>3. LoopTyped' /\ SignLoop'
    BY LoopStaysTyped DEF MissingInv
  <2> QED
    BY <2>1, <2>2, <2>3, WorkStaysFrom, PushedByBuildKept DEF MissingInv
<1>3. MissingInv /\ [Next]_vars => Missing
  <2> SUFFICES ASSUME MissingInv, [Next]_vars, NEW b \in Names, Creates(b),
                      api'.builds[b].output \in registry
               PROVE  FALSE
    OBVIOUS
  <2>0. DOMAIN api = Kinds /\ WorkFrom(api.builds, api.jobs) /\ PushedByBuild
    BY DEF MissingInv
  <2>1. BuildCreated(b)
    <3>1. ~ OtherKinds
      BY DEF OtherKinds
    <3>2. ASSUME NEW c \in Names, BuildCompletes(c) \/ BuildFails(c) PROVE FALSE
      BY <2>0, <3>2 DEF BuildCompletes, BuildFails, Kinds, WorkFrom
    <3>3. ASSUME NEW c, BuildDeleted(c) PROVE FALSE
      BY <2>0, <3>3 DEF BuildDeleted, Kinds, WorkFrom
    <3>4. ASSUME NEW j \in Names, \/ JobCreated(j) \/ JobStarts(j) \/ JobSucceeds(j)
                                  \/ JobFails(j)
          PROVE  FALSE
      BY <2>0, <3>4 DEF JobCreated, JobStarts, JobSucceeds, JobFails, Kinds
    <3>5. ASSUME NEW j, JobDeleted(j) PROVE FALSE
      BY <2>0, <3>5 DEF JobDeleted, Kinds
    <3>6. ASSUME NEW c \in Names, BuildCreated(c) PROVE c = b
      BY <2>0, <3>6 DEF BuildCreated, Kinds, WorkFrom
    <3> QED
      BY <2>0, <3>1, <3>2, <3>3, <3>4, <3>5, <3>6, WorkloadSteps
  <2>2. api'.builds[b] = MakeBuildTemplate(mod.spec, cur, TRUE)
    BY <2>0, <2>1 DEF BuildCreated, Kinds, WorkFrom
  <2>3. BuildTarget(mod.spec, cur) \in registry
    BY <2>2 DEF MakeBuildTemplate
  <2>4. CompleteIn(api.builds, cur)
    BY <2>0, <2>1, <2>3 DEF PushedByBuild, BuildCreated, SyncBuild
  <2>5. ForKernel(api.builds, cur) # {}
    BY <2>0, <2>4 DEF CompleteIn, ForKernel, Existing, WorkFrom
  <2> QED
    BY <2>1, <2>5, BuildCreatedForNone
<1>4. Missing => [Missing]_vars
  OBVIOUS
<1>5. [][Missing]_vars => BuildsOnlyMissingImages
  BY DEF BuildsOnlyMissingImages
<1> QED
  BY <1>1, <1>2, <1>3, <1>5, PTL DEF Spec

===========================================================================
