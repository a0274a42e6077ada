-------------------------- MODULE ModuleReconciler --------------------------
(***************************************************************************)
(* The reconciliation loop of one Module in the operator's namespace:       *)
(* controllers/module_reconciler.go with the build manager, the signing job *)
(* manager, the DaemonSet creator and the status updater it drives.         *)
(*                                                                          *)
(* The operator reads through informer caches: cache is a copy of api that  *)
(* Deliver brings up to date, one kind of object at a time, and a delivery  *)
(* is also the event that queues a reconciliation.  A kind outside Lagging  *)
(* is delivered before the reconciler's next step.  Writes go to api.       *)
(* Each step of the loop makes one remote read or write, so everything else *)
(* may change between any two steps, and the operator may crash there.      *)
(***************************************************************************)
EXTENDS Workloads

CONSTANTS
    Prebuilt,     \* images that are in the registry from the start
    InitSpecs,    \* the specs a Module may be created with
    Lagging,      \* kinds whose cache may be stale
    JobsMayFail,  \* whether builds and signing jobs may fail
    PodsReport,   \* whether DaemonSets report how many pods are available
    NodesChange,  \* whether nodes change
    MaxChanges,   \* bound on changes users and nodes make
    MaxFaults     \* bound on failed API calls and operator crashes

Kinds == {"module", "nodes", "daemonsets", "builds", "jobs"}

ASSUME ReconcilerAssumption ==
    /\ Prebuilt \subseteq ImageRef
    /\ InitSpecs \subseteq Specs
    /\ Lagging \subseteq Kinds
    /\ JobsMayFail \in BOOLEAN /\ PodsReport \in BOOLEAN /\ NodesChange \in BOOLEAN
    /\ MaxChanges \in Nat /\ MaxFaults \in Nat

VARIABLES
    api,         \* what the API server stores, by kind
    cache,       \* what the operator's informers have seen of it
    registry,    \* images that can be pulled
    queued,      \* the Module's request is in the work queue
    pc,          \* where the running reconciliation is
    mod,         \* the Module object it works on
    counts,      \* numbers of targeted nodes and of nodes with a mapping
    valid,       \* kernels of mldMappings
    todo,        \* kernels of the loop still to handle
    cur,         \* the kernel being handled
    dsByKernel,  \* dsByKernelVersion
    doomed,      \* objects the running garbage collection still has to delete
    changes,     \* changes users and nodes made so far
    faults       \* failures so far

locals == <<mod, counts, valid, todo, cur, dsByKernel, doomed>>
vars == <<api, cache, registry, queued, pc, locals, changes, faults>>

PCs == {"idle", "nodes", "daemonsets", "kernels", "buildSync", "sign",
        "signSync", "driver", "gcDaemonSets", "gcJobs"}

NoObjects(N) == [n \in N |-> Absent]

NoStatus == [matching |-> 0, desired |-> 0, available |-> 0, devicePlugin |-> 0]

TypeOK ==
    /\ api.module \in Module \cup {Absent}
    /\ api.nodes \in [Nodes -> Node]
    /\ api.daemonsets \in [DaemonSetNames -> DaemonSet \cup {Absent}]
    /\ api.builds \in [Names -> Build \cup {Absent}]
    /\ api.jobs \in [Names -> SignJob \cup {Absent}]
    /\ DOMAIN cache = Kinds /\ DOMAIN api = Kinds
    /\ registry \in SUBSET ImageRef
    /\ queued \in BOOLEAN
    /\ pc \in PCs
    /\ mod \in Module \cup {Absent}
    /\ valid \in SUBSET Kernels /\ todo \in SUBSET valid
    /\ cur \in DSKernels
    /\ doomed \in SUBSET (Names \cup DaemonSetNames)
    /\ changes \in 0..MaxChanges /\ faults \in 0..MaxFaults

-----------------------------------------------------------------------------
(* The reconciler between two reconciliations.  Its local state is reset so *)
(* that nothing is remembered from one to the next.                         *)

IdleLocals ==
    /\ mod' = Absent
    /\ counts' = [matching |-> 0, desired |-> 0]
    /\ valid' = {} /\ todo' = {} /\ cur' = NoKernel /\ doomed' = {}
    /\ dsByKernel' = [k \in DSKernels |-> [name |-> Absent, available |-> 0]]

\* Reconcile returns; err: with an error, so the request is queued again.
Return(err) ==
    /\ pc' = "idle"
    /\ queued' = (queued \/ err)
    /\ IdleLocals

\* A generated name: not one that anybody still knows.
NewNames(kind) ==
    {n \in Names : api[kind][n] = Absent /\ cache[kind][n] = Absent}

Init ==
    \E s \in InitSpecs, runs \in [Nodes -> Kernels] :
        /\ api = [module |-> [spec |-> s, status |-> NoStatus],
                  nodes |-> [n \in Nodes |-> [state |-> "ready", kernel |-> runs[n],
                                              label |-> runs[n]]],
                  daemonsets |-> NoObjects(DaemonSetNames),
                  builds |-> NoObjects(Names),
                  jobs |-> NoObjects(Names)]
        /\ cache = api
        /\ registry = Prebuilt
        /\ queued = TRUE
        /\ pc = "idle"
        /\ mod = Absent
        /\ counts = [matching |-> 0, desired |-> 0]
        /\ valid = {} /\ todo = {} /\ cur = NoKernel /\ doomed = {}
        /\ dsByKernel = [k \in DSKernels |-> [name |-> Absent, available |-> 0]]
        /\ changes = 0 /\ faults = 0

-----------------------------------------------------------------------------
(* Reconcile, step by step.                                                 *)

\* The step the reconciler takes next.  It waits until the watches of the kinds
\* that do not lag have delivered everything.
At(step) ==
    /\ pc = step
    /\ \A kind \in Kinds \ Lagging : cache[kind] = api[kind]

\* getRequestedModule; a Module that is gone ends the reconciliation.
GetRequestedModule ==
    /\ At("idle") /\ queued
    /\ queued' = FALSE
    /\ mod' = cache.module
    /\ pc' = IF cache.module = Absent THEN "idle" ELSE "nodes"
    /\ UNCHANGED <<api, cache, registry, counts, valid, todo, cur, dsByKernel,
                   doomed, changes, faults>>

\* getNodesListBySelector and getRelevantKernelMappingsAndNodes.
GetNodesAndMappings ==
    /\ At("nodes")
    /\ counts' = [matching |-> Cardinality(getNodesListBySelector(cache.nodes)),
                  desired |-> Cardinality(NodesWithMapping(mod.spec, cache.nodes))]
    /\ valid' = RelevantKernels(mod.spec, cache.nodes)
    /\ todo' = valid'
    /\ pc' = "daemonsets"
    /\ UNCHANGED <<api, cache, registry, queued, mod, cur, dsByKernel, doomed,
                   changes, faults>>

GetDaemonSets ==
    /\ At("daemonsets")
    /\ \/ /\ DuplicateKernel(cache.daemonsets)
          /\ Return(TRUE)
       \/ /\ ~ DuplicateKernel(cache.daemonsets)
          /\ dsByKernel' = ModuleDaemonSetsByKernelVersion(cache.daemonsets)
          /\ pc' = "kernels"
          /\ UNCHANGED <<queued, mod, counts, valid, todo, cur, doomed>>
    /\ UNCHANGED <<api, cache, registry, changes, faults>>

\* Mutant: the loop takes the kernels in a fixed order.
HandleBuildInOrder(k) ==
    /\ At("kernels") /\ k \in todo
    /\ k = CHOOSE x \in todo : TRUE
    /\ todo' = todo \ {k}
    /\ cur' = k
    /\ pc' = IF BuildShouldSync(mod.spec, k, registry) THEN "buildSync" ELSE "sign"
    /\ UNCHANGED <<api, cache, registry, queued, mod, counts, valid, dsByKernel,
                   doomed, changes, faults>>

\* The loop takes the kernels in any order (the range of a Go map).  handleBuild
\* starts with ShouldSync, which asks the registry for the image.
HandleBuild(k) ==
    /\ At("kernels") /\ k \in todo
    /\ todo' = todo \ {k}
    /\ cur' = k
    /\ pc' = IF BuildShouldSync(mod.spec, k, registry) THEN "buildSync" ELSE "sign"
    /\ UNCHANGED <<api, cache, registry, queued, mod, counts, valid, dsByKernel,
                   doomed, changes, faults>>

CreateBuild ==
    \E b \in NewNames("builds") :
        api' = [api EXCEPT !.builds[b] = MakeBuildTemplate(mod.spec, cur, TRUE)]

\* A failed deletion is only logged.  The Build goes at once, and its pod with it
\* (the code leaves the pod to background deletion).
DeleteChangedBuild ==
    LET b == TheOnly(ForKernel(cache.builds, cur))
    IN  \/ /\ api' = [api EXCEPT !.builds[b] = Absent]
           /\ UNCHANGED faults
        \/ /\ faults < MaxFaults /\ faults' = faults + 1
           /\ UNCHANGED api

\* buildManager.Sync and what handleBuild and Reconcile make of its result.
SyncBuild ==
    LET result == BuildSync(mod.spec, cur, TRUE, cache.builds)
    IN  /\ At("buildSync")
        /\ \/ result = "create" /\ CreateBuild /\ UNCHANGED faults
           \/ result = "delete" /\ DeleteChangedBuild
           \/ result \notin {"create", "delete"} /\ UNCHANGED <<api, faults>>
        /\ IF result = "error" THEN Return(TRUE)
           ELSE /\ pc' = IF result = "completed" THEN "sign" ELSE "kernels"
                /\ UNCHANGED <<queued, locals>>
        /\ UNCHANGED <<cache, registry, changes>>

HandleSigning ==
    /\ At("sign")
    /\ pc' = IF SignShouldSync(mod.spec, cur, registry) THEN "signSync" ELSE "driver"
    /\ UNCHANGED <<api, cache, registry, queued, locals, changes, faults>>

CreateSignJob ==
    \E j \in NewNames("jobs") :
        api' = [api EXCEPT !.jobs[j] = MakeJobTemplate(mod.spec, cur, TRUE)]

DeleteChangedJob ==
    LET j == TheOnly(ForKernel(cache.jobs, cur))
    IN  \/ /\ api' = [api EXCEPT !.jobs[j] = Absent]
           /\ UNCHANGED faults
        \/ /\ faults < MaxFaults /\ faults' = faults + 1
           /\ UNCHANGED api

\* signJobManager.Sync and what handleSigning and Reconcile make of its result.
SyncSign ==
    LET result == SignSync(mod.spec, cur, TRUE, cache.jobs)
    IN  /\ At("signSync")
        /\ \/ result = "create" /\ CreateSignJob /\ UNCHANGED faults
           \/ result = "delete" /\ DeleteChangedJob
           \/ result \notin {"create", "delete"} /\ UNCHANGED <<api, faults>>
        /\ IF result = "error" THEN Return(TRUE)
           ELSE /\ pc' = IF result = "completed" THEN "driver" ELSE "kernels"
                /\ UNCHANGED <<queued, locals>>
        /\ UNCHANGED <<cache, registry, changes>>

\* Mutant: the DaemonSets listed before the loop are not looked at.
CreateDriverContainerAlways ==
    /\ \E n \in NewNames("daemonsets") :
           api' = [api EXCEPT !.daemonsets[n] =
                                  SetDriverContainerAsDesired(mod.spec, cur)]
    /\ pc' = "kernels"
    /\ UNCHANGED <<queued, locals>>

\* CreateOrPatch of a DaemonSet without a name: always a new object, whose name is
\* not that of a listed DaemonSet either, although one may be gone by now.
CreateDriverContainer ==
    /\ dsByKernel[cur].name = Absent
    /\ \E n \in NewNames("daemonsets") \ {dsByKernel[k].name : k \in DSKernels} :
           api' = [api EXCEPT !.daemonsets[n] =
                                  SetDriverContainerAsDesired(mod.spec, cur)]
    /\ pc' = "kernels"
    /\ UNCHANGED <<queued, locals>>

\* CreateOrPatch of the DaemonSet listed before the loop: get it again from the
\* cache (gone: an object that carries a resource version cannot be created),
\* and send what differs from that copy.
PatchDriverContainer ==
    LET n    == dsByKernel[cur].name
        img  == ContainerImage(mod.spec, cur)
        copy == cache.daemonsets[n]
    IN  /\ n # Absent
        /\ \/ /\ \/ copy = Absent
                 \/ copy # Absent /\ copy.image # img /\ api.daemonsets[n] = Absent
              /\ Return(TRUE) /\ UNCHANGED api
           \/ /\ copy # Absent
              /\ \/ copy.image = img /\ UNCHANGED api
                 \/ /\ copy.image # img /\ api.daemonsets[n] # Absent
                    /\ api' = [api EXCEPT !.daemonsets[n].image = img]
              /\ dsByKernel' = [dsByKernel EXCEPT ![cur].available = copy.available]
              /\ pc' = "kernels"
              /\ UNCHANGED <<queued, mod, counts, valid, todo, cur, doomed>>

HandleDriverContainer ==
    /\ At("driver")
    /\ CreateDriverContainer \/ PatchDriverContainer
    /\ UNCHANGED <<cache, registry, changes, faults>>

\* handleDevicePlugin, after the last kernel, and the start of the garbage
\* collection, which works on dsByKernel and mldMappings as they were read.
HandleDevicePlugin ==
    LET missing == cache.daemonsets[DevicePluginName] = Absent
        taken   == api.daemonsets[DevicePluginName] # Absent
    IN  /\ At("kernels") /\ todo = {}
        /\ \/ /\ mod.spec.devicePlugin /\ missing /\ taken
              /\ Return(TRUE) /\ UNCHANGED api
           \/ /\ \/ /\ mod.spec.devicePlugin /\ missing /\ ~ taken
                    /\ api' = [api EXCEPT !.daemonsets[DevicePluginName] =
                                              SetDevicePluginAsDesired]
                 \/ ~ (mod.spec.devicePlugin /\ missing) /\ UNCHANGED api
              /\ doomed' = UnneededDaemonSets(dsByKernel, valid)
              /\ pc' = "gcDaemonSets"
              /\ UNCHANGED <<queued, mod, counts, valid, todo, cur, dsByKernel>>
        /\ UNCHANGED <<cache, registry, changes, faults>>

\* One client.Delete of the DaemonSet garbage collection.
GarbageCollectDaemonSet(n) ==
    /\ At("gcDaemonSets") /\ n \in doomed
    /\ \/ /\ api.daemonsets[n] = Absent
          /\ Return(TRUE) /\ UNCHANGED api
       \/ /\ api.daemonsets[n] # Absent
          /\ api' = [api EXCEPT !.daemonsets[n] = Absent]
          /\ doomed' = doomed \ {n}
          /\ UNCHANGED <<queued, pc, mod, counts, valid, todo, cur, dsByKernel>>
    /\ UNCHANGED <<cache, registry, changes, faults>>

\* The build manager collects nothing; the signing job manager lists its Jobs.
ListSucceededJobs ==
    /\ At("gcDaemonSets") /\ doomed = {}
    /\ doomed' = SucceededJobs(cache.jobs)
    /\ pc' = "gcJobs"
    /\ UNCHANGED <<api, cache, registry, queued, mod, counts, valid, todo, cur,
                   dsByKernel, changes, faults>>

GarbageCollectJob(j) ==
    /\ At("gcJobs") /\ j \in doomed
    /\ \/ /\ api.jobs[j] = Absent
          /\ Return(TRUE) /\ UNCHANGED api
       \/ /\ api.jobs[j] # Absent
          /\ api' = [api EXCEPT !.jobs[j] = Absent]
          /\ doomed' = doomed \ {j}
          /\ UNCHANGED <<queued, pc, mod, counts, valid, todo, cur, dsByKernel>>
    /\ UNCHANGED <<cache, registry, changes, faults>>

\* The available pods of these kernels' DaemonSets: the sum, as a number of pairs.
AvailablePods(K) ==
    Cardinality(UNION {{k} \X (1..dsByKernel[k].available) : k \in K})

\* Mutant: the device plugin's pods are counted as driver containers.
DesiredStatusAllPods ==
    [matching |-> counts.matching,
     desired |-> counts.desired,
     available |-> AvailablePods(DSKernels),
     devicePlugin |-> mod.status.devicePlugin]

\* ModuleUpdateStatus: the numbers come from the nodes and DaemonSets listed
\* before the loop; the patch carries what differs from the Module then read.
DesiredStatus ==
    [matching |-> counts.matching,
     desired |-> counts.desired,
     available |-> AvailablePods({k \in DSKernels : ~ IsDevicePluginKernelVersion(k)}),
     devicePlugin |->
        IF mod.spec.devicePlugin
        THEN AvailablePods({k \in DSKernels : IsDevicePluginKernelVersion(k)})
        ELSE mod.status.devicePlugin]

ModuleUpdateStatus ==
    LET new == DesiredStatus
    IN  /\ At("gcJobs") /\ doomed = {}
        /\ \/ /\ api.module = Absent
              /\ Return(TRUE) /\ UNCHANGED api
           \/ /\ api.module # Absent
              /\ api' = [api EXCEPT !.module.status =
                           [f \in DOMAIN new |-> IF new[f] # mod.status[f]
                                                 THEN new[f] ELSE @[f]]]
              /\ Return(FALSE)
        /\ UNCHANGED <<cache, registry, changes, faults>>

\* Any call of the loop may fail: Reconcile returns the error.
ReconcileError ==
    /\ pc # "idle" /\ faults < MaxFaults
    /\ faults' = faults + 1
    /\ Return(TRUE)
    /\ UNCHANGED <<api, cache, registry, changes>>

Reconcile ==
    \/ GetRequestedModule \/ GetNodesAndMappings \/ GetDaemonSets
    \/ \E k \in Kernels : HandleBuild(k)
    \/ SyncBuild \/ HandleSigning \/ SyncSign
    \/ HandleDriverContainer \/ HandleDevicePlugin
    \/ \E n \in Names : GarbageCollectDaemonSet(n) \/ GarbageCollectJob(n)
    \/ ListSucceededJobs \/ ModuleUpdateStatus

-----------------------------------------------------------------------------
(* The manager: watches, resynchronisation and restarts.                    *)

\* ModuleReconcilerNodePredicate and FindModulesForNode, which maps the old and
\* the new object of an update.
NodeEvent(old, new) ==
    /\ new.state # "gone" /\ new.label # Absent
    /\ MatchesSelector(old) \/ MatchesSelector(new)
    /\ \/ old.state = "gone"
       \/ old.label # new.label
       \/ MatchesSelector(old) # MatchesSelector(new)

\* SetupWithManager: every event of the Module and of the objects it owns, and
\* the node events the predicate lets through.
Deliver(kind) ==
    /\ cache[kind] # api[kind]
    /\ cache' = [cache EXCEPT ![kind] = api[kind]]
    /\ queued' = \/ queued
                 \/ kind # "nodes"
                 \/ \E n \in Nodes : NodeEvent(cache.nodes[n], api.nodes[n])
    /\ UNCHANGED <<api, registry, pc, locals, changes, faults>>

\* The informers' periodic resynchronisation (10 hours by default).
Resync ==
    /\ ~ queued /\ cache.module # Absent
    /\ queued' = TRUE
    /\ UNCHANGED <<api, cache, registry, pc, locals, changes, faults>>

\* The operator stops anywhere and starts again, here or on another replica,
\* with caches listed anew.
Restart ==
    /\ faults < MaxFaults /\ faults' = faults + 1
    /\ cache' = api
    /\ pc' = "idle" /\ IdleLocals
    /\ queued' = (api.module # Absent)
    /\ UNCHANGED <<api, registry, changes>>

-----------------------------------------------------------------------------
(* The cluster around the operator.                                         *)

Change == changes < MaxChanges /\ changes' = changes + 1

operator == <<cache, queued, pc, locals, faults>>

EditModule(s) ==
    /\ Change /\ api.module # Absent /\ s # api.module.spec
    /\ api' = [api EXCEPT !.module.spec = s]
    /\ UNCHANGED <<operator, registry>>

DeleteModule ==
    /\ Change /\ api.module # Absent
    /\ api' = [api EXCEPT !.module = Absent]
    /\ UNCHANGED <<operator, registry>>

\* A node joins, leaves, is relabelled, tainted or untainted, or boots another
\* kernel.  The kernel label follows later.
ChangeNode(n, s, k) ==
    /\ NodesChange /\ Change
    /\ <<s, k>> # <<api.nodes[n].state, api.nodes[n].kernel>>
    /\ api' = [api EXCEPT !.nodes[n] =
                 [state |-> s, kernel |-> k,
                  label |-> IF "gone" \in {s, @.state} THEN Absent ELSE @.label]]
    /\ UNCHANGED <<operator, registry>>

\* The node kernel reconciler copies the kernel version into the label.
LabelNode(n) ==
    /\ api.nodes[n].state # "gone" /\ api.nodes[n].label # api.nodes[n].kernel
    /\ api' = [api EXCEPT !.nodes[n].label = api.nodes[n].kernel]
    /\ UNCHANGED <<operator, registry, changes>>

BuildCompletes(b) ==
    /\ api.builds[b] # Absent /\ api.builds[b].phase = "New"
    /\ api' = [api EXCEPT !.builds[b].phase = "Complete"]
    /\ registry' = registry \cup {api.builds[b].output}
    /\ UNCHANGED <<operator, changes>>

BuildFails(b) ==
    /\ JobsMayFail /\ api.builds[b] # Absent /\ api.builds[b].phase = "New"
    /\ api' = [api EXCEPT !.builds[b].phase = "Failed"]
    /\ UNCHANGED <<operator, registry, changes>>

\* What handleBuild's message asks users to do when a build failed.
UserDeletesBuild(b) ==
    /\ api.builds[b] # Absent /\ api.builds[b].phase = "Failed"
    /\ api' = [api EXCEPT !.builds[b] = Absent]
    /\ UNCHANGED <<operator, registry, changes>>

JobStarts(j) ==
    /\ api.jobs[j] # Absent /\ api.jobs[j].phase = "New"
    /\ api' = [api EXCEPT !.jobs[j].phase = "Active"]
    /\ UNCHANGED <<operator, registry, changes>>

\* The signimage container pulls the source, signs and pushes the target.
JobSucceeds(j) ==
    /\ api.jobs[j] # Absent /\ api.jobs[j].phase = "Active"
    /\ api.jobs[j].hash[2] \in registry
    /\ api' = [api EXCEPT !.jobs[j].phase = "Succeeded"]
    /\ registry' = registry \cup {api.jobs[j].hash[3]}
    /\ UNCHANGED <<operator, changes>>

\* It may fail at any point, even after the push (see SignImage).
JobFails(j) ==
    /\ api.jobs[j] # Absent /\ api.jobs[j].phase = "Active"
    /\ JobsMayFail \/ api.jobs[j].hash[2] \notin registry
    /\ api' = [api EXCEPT !.jobs[j].phase = "Failed"]
    /\ \/ UNCHANGED registry
       \/ /\ api.jobs[j].hash[2] \in registry
          /\ registry' = registry \cup {api.jobs[j].hash[3]}
    /\ UNCHANGED <<operator, changes>>

\* The DaemonSet controller: driver containers run on the schedulable nodes that
\* carry the DaemonSet's kernel label, if the image can be pulled; the device
\* plugin where a driver container runs.
DriverPods(n) ==
    {m \in getNodesListBySelector(api.nodes) :
        /\ api.daemonsets[n].image \in registry
        /\ api.nodes[m].label = api.daemonsets[n].kernel}

PodsOf(n) ==
    IF n = DevicePluginName
    THEN UNION {DriverPods(d) : d \in Existing(api.daemonsets) \ {n}}
    ELSE DriverPods(n)

DaemonSetStatus(n) ==
    /\ PodsReport
    /\ api.daemonsets[n] # Absent
    /\ api.daemonsets[n].available # Cardinality(PodsOf(n))
    /\ api' = [api EXCEPT !.daemonsets[n].available = Cardinality(PodsOf(n))]
    /\ UNCHANGED <<operator, registry, changes>>

\* Mutant: signing Jobs are created without an owner reference.
OwnedObjectCollectedNoJobs(kind, n) ==
    /\ kind # "jobs"
    /\ api.module = Absent /\ api[kind][n] # Absent
    /\ api' = [api EXCEPT ![kind][n] = Absent]
    /\ UNCHANGED <<operator, registry, changes>>

\* Kubernetes collects what a deleted Module owns.
OwnedObjectCollected(kind, n) ==
    /\ api.module = Absent /\ api[kind][n] # Absent
    /\ api' = [api EXCEPT ![kind][n] = Absent]
    /\ UNCHANGED <<operator, registry, changes>>

Cluster ==
    \/ \E n \in Nodes : LabelNode(n)
    \/ \E n \in Names : \/ BuildCompletes(n) \/ BuildFails(n)
                        \/ JobStarts(n) \/ JobSucceeds(n) \/ JobFails(n)
    \/ \E n \in DaemonSetNames : \/ DaemonSetStatus(n)
                                 \/ OwnedObjectCollected("daemonsets", n)
    \/ \E n \in Names, kind \in {"builds", "jobs"} : OwnedObjectCollected(kind, n)

Users ==
    \/ \E s \in Specs : EditModule(s)
    \/ DeleteModule
    \/ \E n \in Names : UserDeletesBuild(n)
    \/ \E n \in Nodes, s \in NodeState, k \in Kernels : ChangeNode(n, s, k)

Next ==
    \/ Reconcile \/ ReconcileError
    \/ \E kind \in Kinds : Deliver(kind)
    \/ Resync \/ Restart
    \/ Cluster \/ Users

Spec == Init /\ [][Next]_vars

\* The work queue runs what is queued, the watches deliver, the resync period
\* elapses and the cluster's controllers work.  Users owe nothing.  Go ranges over
\* a map in random order, so no kernel that keeps being offered to the loop is
\* passed over for ever.
Fairness ==
    /\ WF_vars(Reconcile)
    /\ \A k \in Kernels : SF_vars(HandleBuild(k))
    /\ \A kind \in Kinds : WF_vars(Deliver(kind))
    /\ WF_vars(Resync)
    /\ WF_vars(Cluster)

FairSpec == Spec /\ Fairness

-----------------------------------------------------------------------------
(* Properties.                                                              *)

\* The build and the signing job managers never have two objects for a kernel:
\* both fail for good ("expected 0 or 1") when they find two.
OneBuildAndJobPerKernel ==
    \A k \in Kernels : /\ Cardinality(ForKernel(api.builds, k)) <= 1
                       /\ Cardinality(ForKernel(api.jobs, k)) <= 1

\* A DaemonSet is created or patched only when the image it runs was built,
\* signed and pushed, whatever else happened since the registry was asked.
DeployedImagesExist ==
    \A n \in Names : api.daemonsets[n] # Absent =>
                         api.daemonsets[n].image \in registry

\* Why: what the loop concludes from a Build or a Job that it reads from a cache,
\* however old, stays true of the registry until the DaemonSet is written.
PushedBeforeUse ==
    /\ \A objs \in {api, cache} : \A n \in Names :
          /\ /\ objs.builds[n] # Absent
             /\ objs.builds[n].phase = "Complete"
             => objs.builds[n].output \in registry
          /\ /\ objs.jobs[n] # Absent
             /\ objs.jobs[n].phase = "Succeeded"
             => objs.jobs[n].hash[3] \in registry
    /\ pc \in {"sign", "signSync"} /\ ShouldBeBuilt(mod.spec)
          => BuildTarget(mod.spec, cur) \in registry
    /\ pc = "driver" => ContainerImage(mod.spec, cur) \in registry

\* While the Module exists, no Build is created for an image that can be pulled
\* already: the registry is asked first, and whoever could push the image since
\* then is a Build that Sync finds.  A Build that is deleted pushes no more here.
BuildsOnlyMissingImages ==
    [][\A b \in Names :
          /\ api.module # Absent
          /\ api.builds[b] = Absent /\ api'.builds[b] # Absent
          => api'.builds[b].output \notin registry]_vars

\* What a kernel's nodes are told to run: the image of its DaemonSet (no image if
\* there are several).
RunningImage(dss, k) ==
    LET found == ForKernel(dss, k)
    IN  IF found = {} THEN Absent
        ELSE IF Cardinality(found) = 1 THEN dss[TheOnly(found)].image ELSE NoKernel

R == INSTANCE Rollout WITH
         Pullable <- ImageRef,
         ImagesFor <- [k \in Kernels |-> {ContainerImage(s, k) : s \in Specs}],
         Nothing <- Absent,
         running <- [k \in Kernels |-> RunningImage(api.daemonsets, k)],
         pushed <- registry

\* The reconciler, with its Builds, Jobs, caches and failures, is a rollout: each
\* of its writes leaves the driver containers alone, withdraws those of one kernel,
\* or has one kernel run an image that was made for it and is in the registry then.
\* The DaemonSet it patches was found steps earlier and may be another one by then.
ImplementsRollout == R!Spec

\* Kernels that some node of the cluster runs, selected and schedulable or not.
RunInCluster == {api.nodes[n].kernel : n \in {m \in Nodes : api.nodes[m].state # "gone"}}

\* The DaemonSets the Module calls for: exactly one, with the mapping's image, for
\* each kernel that has a mapping and that its schedulable nodes run; none for a
\* kernel that has no mapping or that no node runs.  Kernels that only tainted or
\* unselected nodes run are left open: docs and code do not agree on them.
AsSpecified ==
    LET s == api.module.spec
        Running(k) == {n \in Existing(api.daemonsets) : api.daemonsets[n].kernel = k}
    IN  /\ \A k \in RelevantKernels(s, api.nodes) :
              \E n \in Names : /\ Running(k) = {n}
                               /\ api.daemonsets[n].image = ContainerImage(s, k)
        /\ \A k \in Kernels \ (s.kernels \cap RunInCluster) : Running(k) = {}

\* Once users and nodes stop changing things, the DaemonSets become and stay those
\* the Module calls for: no order of events, Build or Job of an older spec, stale
\* read of the Module or the nodes, or node event that the predicates skip leaves
\* the loop satisfied with anything else.
Converges == <>[](api.module # Absent => AsSpecified)

\* The status ends up telling the truth about nodes and pods, although each
\* reconciliation reports the DaemonSets it listed before it changed them.
StatusConverges ==
    <>[](api.module # Absent =>
           /\ api.module.status.matching =
                  Cardinality(getNodesListBySelector(api.nodes))
           /\ api.module.status.desired =
                  Cardinality(NodesWithMapping(api.module.spec, api.nodes))
           /\ api.module.status.available =
                  Cardinality(UNION {DriverPods(d) : d \in
                                 Existing(api.daemonsets) \ {DevicePluginName}}))

\* When the Module is deleted, every object created for it goes away in the end:
\* also the Build, Job or DaemonSet that a reconciliation with a stale copy of the
\* Module goes on to create, and the Builds and Jobs that still run.
NothingLeftBehind ==
    <>[](api.module = Absent =>
           /\ Existing(api.daemonsets) = {}
           /\ Existing(api.builds) = {}
           /\ Existing(api.jobs) = {})

\* A kernel whose image is there gets its DaemonSet even if the build or the
\* signing of another kernel fails for good.
DeployedDespiteFailures ==
    \A k \in Kernels :
       <>[](/\ api.module # Absent
            /\ k \in RelevantKernels(api.module.spec, api.nodes)
            /\ {BuildTarget(api.module.spec, k), ContainerImage(api.module.spec, k)}
                   \subseteq registry
            => \E n \in Names : /\ api.daemonsets[n] # Absent
                                /\ api.daemonsets[n].kernel = k
                                /\ api.daemonsets[n].image =
                                       ContainerImage(api.module.spec, k))

=============================================================================
