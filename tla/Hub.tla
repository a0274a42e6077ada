-------------------------------- MODULE Hub --------------------------------
(***************************************************************************)
(* The hub operator with one ManagedClusterModule: it builds and signs the  *)
(* images for the kernels that the selected clusters claim to run, hands    *)
(* the Module to each cluster in a ManifestWork, withdraws it from clusters *)
(* no longer selected and counts what was applied.  The clusters' claims    *)
(* are written by the ClusterClaim controller of the spoke operator.        *)
(* Caches, deliveries and names are as in ModuleReconciler.                 *)
(***************************************************************************)
EXTENDS Workloads

CONSTANTS
    Clusters,      \* managed clusters
    InitSpecs,     \* the specs a ManagedClusterModule may be created with
    InitRuns,      \* the kernels the clusters' nodes run at the start
    NodeKernels,   \* the sets of kernels a cluster's nodes may come to run
    Joining,       \* clusters that have not reported a claim yet
    Prebuilt,      \* images users pushed themselves
    MappingLevel,  \* build and sign sections are in the kernel mappings
    Lagging,       \* kinds whose cache may be stale
    MaxChanges,    \* bound on changes users and nodes make
    MaxFaults      \* bound on failed calls, failed builds and operator crashes

Kinds == {"mcm", "clusters", "works", "builds", "jobs"}

ASSUME HubAssumption ==
    /\ InitSpecs \subseteq Specs
    /\ InitRuns \in [Clusters -> SUBSET Kernels]
    /\ NodeKernels \subseteq SUBSET Kernels
    /\ Joining \subseteq Clusters /\ Prebuilt \subseteq ImageRef
    /\ IsFiniteSet(Clusters) /\ Absent \notin Specs \cup Images
    /\ MappingLevel \in BOOLEAN /\ Lagging \subseteq Kinds
    /\ MaxChanges \in Nat /\ MaxFaults \in Nat

VARIABLES
    api,       \* what the hub's API server stores, by kind
    cache,     \* what the hub operator has seen of it
    runs,      \* kernels the nodes of each cluster run
    registry,  \* images that can be pulled
    queued,    \* the ManagedClusterModule is in the work queue
    pc,        \* where its reconciliation is
    mcm,       \* the object it works on
    stripped,  \* build and sign were removed from mcm's kernel mappings
    selected,  \* the clusters it listed, with their claims
    clusters,  \* clusters still to handle
    cluster,   \* the one being handled
    kernels,   \* its kernels still to handle
    cur,       \* the kernel being handled
    ok,        \* completedSuccessfully
    doomed,    \* ManifestWorks to delete
    changes, faults

locals == <<mcm, stripped, selected, clusters, cluster, kernels, cur, ok, doomed>>
vars == <<api, cache, runs, registry, queued, pc, locals, changes, faults>>

\* claim is the value of the kernel versions ClusterClaim, if there is one.
ManagedCluster == [selected : BOOLEAN, claim : (SUBSET Kernels) \cup {Absent}]

\* The image template of the Module it carries, and what the spoke reports.
ManifestWork == [image : Images, conditions : SUBSET {"Applied", "Degraded"}]

HubStatus == [desired : Nat, applied : Nat, degraded : Nat]

ManagedClusterModule == [spec : Specs, status : HubStatus]

PCs == {"idle", "clusters", "build", "buildSync", "sign", "signSync", "work", "gc",
        "status"}

TypeOK ==
    /\ \A a \in {api, cache} :
          /\ a.mcm \in ManagedClusterModule \cup {Absent}
          /\ a.clusters \in [Clusters -> ManagedCluster]
          /\ a.works \in [Clusters -> ManifestWork \cup {Absent}]
          /\ a.builds \in [Names -> Build \cup {Absent}]
          /\ a.jobs \in [Names -> SignJob \cup {Absent}]
    /\ runs \in [Clusters -> SUBSET Kernels] /\ registry \subseteq ImageRef
    /\ queued \in BOOLEAN /\ pc \in PCs /\ stripped \in BOOLEAN /\ ok \in BOOLEAN
    /\ mcm \in ManagedClusterModule \cup {Absent}
    /\ selected \in [Clusters -> ManagedCluster \cup {Absent}]
    /\ clusters \subseteq Clusters /\ cluster \in Clusters \cup {Absent}
    /\ kernels \subseteq Kernels /\ cur \in DSKernels /\ doomed \subseteq Clusters
    /\ changes \in 0..MaxChanges /\ faults \in 0..MaxFaults

IdleLocals ==
    /\ mcm' = Absent /\ stripped' = FALSE /\ selected' = [c \in Clusters |-> Absent]
    /\ clusters' = {} /\ cluster' = Absent /\ kernels' = {} /\ cur' = NoKernel
    /\ ok' = TRUE /\ doomed' = {}

Init ==
    \E s \in InitSpecs :
        /\ api = [mcm |-> [spec |-> s, status |-> [desired |-> 0, applied |-> 0,
                                                   degraded |-> 0]],
                  clusters |->
                     [c \in Clusters |->
                        [selected |-> TRUE,
                         claim |-> IF c \in Joining THEN Absent ELSE InitRuns[c]]],
                  works |-> [c \in Clusters |-> Absent],
                  builds |-> [n \in Names |-> Absent],
                  jobs |-> [n \in Names |-> Absent]]
        /\ cache = api
        /\ runs = InitRuns
        /\ registry = Prebuilt
        /\ queued = TRUE /\ pc = "idle"
        /\ mcm = Absent /\ stripped = FALSE /\ selected = [c \in Clusters |-> Absent]
        /\ clusters = {} /\ cluster = Absent /\ kernels = {} /\ cur = NoKernel
        /\ ok = TRUE /\ doomed = {}
        /\ changes = 0 /\ faults = 0

Fault == faults < MaxFaults /\ faults' = faults + 1

At(step) ==
    /\ pc = step
    /\ \A kind \in Kinds \ Lagging : cache[kind] = api[kind]

Return(err) ==
    /\ pc' = "idle" /\ IdleLocals
    /\ queued' = (queued \/ err)

unchangedByStep == <<cache, runs, registry, changes>>

\* The loop over the clusters goes on; nothing of the last one is kept.
NextCluster ==
    /\ pc' = "clusters"
    /\ cluster' = Absent /\ kernels' = {} /\ cur' = NoKernel /\ ok' = TRUE

-----------------------------------------------------------------------------
(* Reconcile of the hub.                                                    *)

\* RequestedManagedClusterModule and SelectedManagedClusters.
GetRequested ==
    LET found == {c \in Clusters : cache.clusters[c].selected}
    IN  /\ At("idle") /\ queued
        /\ queued' = FALSE
        /\ IF cache.mcm = Absent THEN UNCHANGED <<pc, locals>>
           ELSE /\ mcm' = cache.mcm
                /\ selected' = [c \in Clusters |->
                                   IF c \in found THEN cache.clusters[c] ELSE Absent]
                /\ clusters' = found
                /\ pc' = "clusters"
                /\ UNCHANGED <<stripped, cluster, kernels, cur, ok, doomed>>
        /\ UNCHANGED <<api, faults>> /\ UNCHANGED unchangedByStep

\* kernelMappingsByKernelVersion: the claimed kernels that have a mapping.
kernelMappingsByKernelVersion(s, claim) == claim \cap s.kernels

\* The mapping as prepareModuleLoaderData sees it.
SpecNow ==
    IF MappingLevel /\ stripped
    THEN [mcm.spec EXCEPT !.build = FALSE, !.sign = NoSign] ELSE mcm.spec

\* BuildAndSign of the next cluster; one without a claim is an error, one without
\* a kernel to care for is not complete.
StartCluster(c) ==
    LET claim == selected[c].claim
        ks == IF claim = Absent THEN {} ELSE kernelMappingsByKernelVersion(SpecNow, claim)
    IN  /\ At("clusters") /\ c \in clusters
        /\ clusters' = clusters \ {c}
        /\ \/ ks = {} /\ UNCHANGED <<pc, cluster, kernels, ok>>
           \/ /\ ks # {}
              /\ cluster' = c /\ kernels' = ks /\ ok' = TRUE
              /\ pc' = "build"
        /\ UNCHANGED <<api, queued, mcm, stripped, selected, cur, doomed, faults>>
        /\ UNCHANGED unchangedByStep

\* The loop over mldMappings, a Go map; build starts with ShouldSync.
BuildKernel(k) ==
    /\ At("build") /\ k \in kernels
    /\ kernels' = kernels \ {k} /\ cur' = k
    /\ pc' = IF BuildShouldSync(SpecNow, k, registry) THEN "buildSync" ELSE "sign"
    /\ UNCHANGED <<api, queued, mcm, stripped, selected, clusters, cluster, ok, doomed,
                   faults>>
    /\ UNCHANGED unchangedByStep

\* A generated name: one that nobody knows any more, it does not matter which.
NewNames(kind) ==
    LET free == {n \in Names : api[kind][n] = Absent /\ cache[kind][n] = Absent}
    IN  {n \in free : n = CHOOSE x \in free : TRUE}

\* Mutant: only an error keeps BuildAndSign from reporting success.
AfterSyncAlwaysOk(result, next) ==
    /\ \/ result = "error" /\ NextCluster
       \/ /\ result # "error"
          /\ pc' = IF result = "completed" THEN next ELSE "build"
          /\ UNCHANGED <<ok, cluster, kernels, cur>>
    /\ UNCHANGED <<queued, mcm, stripped, selected, clusters, doomed>>

\* What follows from a Sync: the next step, an incomplete kernel, or an error,
\* which ends BuildAndSign and is only logged.
AfterSync(result, next) ==
    /\ \/ result = "error" /\ NextCluster
       \/ /\ result # "error"
          /\ pc' = IF result = "completed" THEN next ELSE "build"
          /\ ok' = (ok /\ result = "completed")
          /\ UNCHANGED <<cluster, kernels, cur>>
    /\ UNCHANGED <<queued, mcm, stripped, selected, clusters, doomed>>

SyncBuild ==
    LET result == BuildSync(SpecNow, cur, TRUE, cache.builds)
        old    == TheOnly(ForKernel(cache.builds, cur))
    IN  /\ At("buildSync")
        /\ \/ /\ result = "create"
              /\ \E n \in NewNames("builds") :
                    api' = [api EXCEPT !.builds[n] = MakeBuildTemplate(SpecNow, cur, TRUE)]
           \/ result = "delete" /\ api' = [api EXCEPT !.builds[old] = Absent]
           \/ result \notin {"create", "delete"} /\ UNCHANGED api
        /\ AfterSync(result, "sign")
        /\ UNCHANGED faults /\ UNCHANGED unchangedByStep

SignKernel ==
    /\ At("sign")
    /\ pc' = IF SignShouldSync(SpecNow, cur, registry) THEN "signSync" ELSE "build"
    /\ UNCHANGED <<api, queued, locals, faults>> /\ UNCHANGED unchangedByStep

SyncSign ==
    LET result == SignSync(SpecNow, cur, TRUE, cache.jobs)
        old    == TheOnly(ForKernel(cache.jobs, cur))
    IN  /\ At("signSync")
        /\ \/ /\ result = "create"
              /\ \E n \in NewNames("jobs") :
                    api' = [api EXCEPT !.jobs[n] = MakeJobTemplate(SpecNow, cur, TRUE)]
           \/ result = "delete" /\ api' = [api EXCEPT !.jobs[old] = Absent]
           \/ result \notin {"create", "delete"} /\ UNCHANGED api
        /\ AfterSync(result, "build")
        /\ UNCHANGED faults /\ UNCHANGED unchangedByStep

\* BuildAndSign returns; the ManifestWork is written only if it succeeded.
BuildAndSignReturns ==
    /\ At("build") /\ kernels = {}
    /\ \/ ok /\ pc' = "work" /\ UNCHANGED <<cluster, kernels, cur, ok>>
       \/ ~ ok /\ NextCluster
    /\ UNCHANGED <<api, queued, mcm, stripped, selected, clusters, doomed, faults>>
    /\ UNCHANGED unchangedByStep

\* CreateOrPatch of the cluster's ManifestWork, which patches only if what it read
\* differs.  A ManifestWork that is there after all, or gone since, is an error,
\* which is only logged.  SetManifestWorkAsDesired removes build and sign from the
\* kernel mappings, a slice that its copy of mcm shares with the reconciler's.
CreateOrPatchManifestWork ==
    LET image == mcm.spec.image
        read  == cache.works[cluster]
        now   == api.works[cluster]
    IN  /\ At("work")
        /\ stripped' = TRUE
        /\ api' = CASE read = Absent /\ now = Absent ->
                         [api EXCEPT !.works[cluster] = [image |-> image,
                                                         conditions |-> {}]]
                    [] read # Absent /\ now # Absent ->
                         IF read.image = image THEN api
                         ELSE [api EXCEPT !.works[cluster].image = image]
                    [] OTHER -> api
        /\ NextCluster
        /\ UNCHANGED <<queued, mcm, selected, clusters, doomed, faults>>
        /\ UNCHANGED unchangedByStep

\* Mutant: ManifestWorks of clusters no longer selected are kept.
UnselectedWorksNone(works) == {}

\* GarbageCollect: the ManifestWorks of clusters that were not listed.
UnselectedWorks(works) ==
    {c \in Clusters : works[c] # Absent /\ selected[c] = Absent}

ListManifestWorks ==
    /\ At("clusters") /\ clusters = {}
    /\ doomed' = UnselectedWorks(cache.works)
    /\ pc' = "gc"
    /\ UNCHANGED <<api, queued, mcm, stripped, selected, clusters, cluster, kernels, cur,
                   ok, faults>>
    /\ UNCHANGED unchangedByStep

GarbageCollectWork(c) ==
    /\ At("gc") /\ c \in doomed
    /\ \/ api.works[c] = Absent /\ Return(TRUE) /\ UNCHANGED api
       \/ /\ api.works[c] # Absent
          /\ api' = [api EXCEPT !.works[c] = Absent]
          /\ doomed' = doomed \ {c}
          /\ UNCHANGED <<pc, queued, mcm, stripped, selected, clusters, cluster, kernels,
                         cur, ok>>
    /\ UNCHANGED faults /\ UNCHANGED unchangedByStep

HavingCondition(works, type) ==
    {c \in Existing(works) : type \in works[c].conditions}

\* Mutant: only one condition of a ManifestWork is counted.
DesiredHubStatusOneCondition(works) ==
    [desired |-> Cardinality(Existing(works)),
     applied |-> Cardinality(HavingCondition(works, "Applied")
                                 \ HavingCondition(works, "Degraded")),
     degraded |-> Cardinality(HavingCondition(works, "Degraded"))]

DesiredHubStatus(works) ==
    [desired |-> Cardinality(Existing(works)),
     applied |-> Cardinality(HavingCondition(works, "Applied")),
     degraded |-> Cardinality(HavingCondition(works, "Degraded"))]

\* ManagedClusterModuleUpdateStatus patches the fields that differ from the object
\* the reconciliation started with.  Garbage collection of Builds, in between, is
\* not implemented and does nothing.
ManagedClusterModuleUpdateStatus ==
    LET new == DesiredHubStatus(cache.works)
    IN  /\ At("gc") /\ doomed = {}
        /\ \/ api.mcm = Absent /\ Return(TRUE) /\ UNCHANGED api
           \/ /\ api.mcm # Absent
              /\ api' = [api EXCEPT !.mcm.status =
                           [f \in DOMAIN new |-> IF new[f] # mcm.status[f]
                                                 THEN new[f] ELSE @[f]]]
              /\ Return(FALSE)
        /\ UNCHANGED faults /\ UNCHANGED unchangedByStep

\* A failed call of BuildAndSign or CreateOrPatch is logged and the loop goes on
\* with the next cluster; the request is not queued again.
ClusterFails ==
    /\ pc \in {"build", "buildSync", "sign", "signSync", "work"} /\ Fault
    /\ NextCluster
    /\ stripped' \in {stripped, stripped \/ pc = "work"}
    /\ UNCHANGED <<api, queued, mcm, selected, clusters, doomed>>
    /\ UNCHANGED unchangedByStep

\* A failure outside the loop over the clusters is returned.
ReconcileError ==
    /\ pc \in {"clusters", "gc"} /\ Fault
    /\ pc = "gc" \/ clusters = {}
    /\ Return(TRUE)
    /\ UNCHANGED api /\ UNCHANGED unchangedByStep

Reconcile ==
    \/ GetRequested
    \/ \E c \in Clusters : StartCluster(c) \/ GarbageCollectWork(c)
    \/ \E k \in Kernels : BuildKernel(k)
    \/ SyncBuild \/ SignKernel \/ SyncSign \/ BuildAndSignReturns
    \/ CreateOrPatchManifestWork \/ ListManifestWorks \/ ManagedClusterModuleUpdateStatus

-----------------------------------------------------------------------------
(* The manager: watches, resynchronisation and restarts.                    *)

\* ManagedClusterModuleReconcilerManagedClusterPredicate and
\* FindManagedClusterModulesForCluster, which maps the old and the new object.
ClusterEvent(old, new) ==
    /\ old.selected \/ new.selected
    /\ old.selected # new.selected \/ (new.claim # Absent /\ new.claim # old.claim)

\* SetupWithManager.
Deliver(kind) ==
    /\ cache[kind] # api[kind]
    /\ cache' = [cache EXCEPT ![kind] = api[kind]]
    /\ queued' = \/ queued
                 \/ kind # "clusters"
                 \/ \E c \in Clusters : ClusterEvent(cache.clusters[c], api.clusters[c])
    /\ UNCHANGED <<api, runs, registry, pc, locals, changes, faults>>

\* The informers' periodic resynchronisation.  One that happens during a
\* reconciliation has its effect afterwards.
Resync ==
    /\ pc = "idle" /\ ~ queued /\ cache.mcm # Absent
    /\ queued' = TRUE
    /\ UNCHANGED <<api, cache, runs, registry, pc, locals, changes, faults>>

Restart ==
    /\ Fault
    /\ cache' = api
    /\ pc' = "idle" /\ IdleLocals
    /\ queued' = (api.mcm # Absent)
    /\ UNCHANGED <<api, runs, registry, changes>>

-----------------------------------------------------------------------------
(* The spokes and the users.                                                *)

Change == changes < MaxChanges /\ changes' = changes + 1

operator == <<cache, queued, pc, locals>>

\* NodeKernelClusterClaimReconciler on a spoke: the claim lists the kernels of all
\* nodes, and Open Cluster Management copies it into the ManagedCluster.
ReportClusterClaim(c) ==
    /\ api.clusters[c].claim # runs[c]
    /\ api' = [api EXCEPT !.clusters[c].claim = runs[c]]
    /\ UNCHANGED <<operator, runs, registry, changes, faults>>

SpokeNodesChange(c, ks) ==
    /\ Change /\ ks # runs[c]
    /\ runs' = [runs EXCEPT ![c] = ks]
    /\ UNCHANGED <<api, operator, registry, faults>>

SelectCluster(c) ==
    /\ Change
    /\ api' = [api EXCEPT !.clusters[c].selected = ~ @]
    /\ UNCHANGED <<operator, runs, registry, faults>>

EditManagedClusterModule(s) ==
    /\ Change /\ api.mcm # Absent /\ s # api.mcm.spec
    /\ api' = [api EXCEPT !.mcm.spec = s]
    /\ UNCHANGED <<operator, runs, registry, faults>>

DeleteManagedClusterModule ==
    /\ Change /\ api.mcm # Absent
    /\ api' = [api EXCEPT !.mcm = Absent]
    /\ UNCHANGED <<operator, runs, registry, faults>>

\* The agent on the spoke applies the manifests; later they may degrade.
SpokeApplies(c) ==
    /\ api.works[c] # Absent /\ "Applied" \notin api.works[c].conditions
    /\ api' = [api EXCEPT !.works[c].conditions = @ \cup {"Applied"}]
    /\ UNCHANGED <<operator, runs, registry, changes, faults>>

SpokeDegrades(c) ==
    /\ Change /\ api.works[c] # Absent /\ "Degraded" \notin api.works[c].conditions
    /\ api' = [api EXCEPT !.works[c].conditions = @ \cup {"Degraded"}]
    /\ UNCHANGED <<operator, runs, registry, faults>>

BuildCompletes(b) ==
    /\ api.builds[b] # Absent /\ api.builds[b].phase = "New"
    /\ api' = [api EXCEPT !.builds[b].phase = "Complete"]
    /\ registry' = registry \cup {api.builds[b].output}
    /\ UNCHANGED <<operator, runs, changes, faults>>

BuildFails(b) ==
    /\ Fault /\ api.builds[b] # Absent /\ api.builds[b].phase = "New"
    /\ api' = [api EXCEPT !.builds[b].phase = "Failed"]
    /\ UNCHANGED <<operator, runs, registry, changes>>

JobStarts(j) ==
    /\ api.jobs[j] # Absent /\ api.jobs[j].phase = "New"
    /\ api' = [api EXCEPT !.jobs[j].phase = "Active"]
    /\ UNCHANGED <<operator, runs, registry, changes, faults>>

JobSucceeds(j) ==
    /\ api.jobs[j] # Absent /\ api.jobs[j].phase = "Active"
    /\ api.jobs[j].hash[2] \in registry
    /\ api' = [api EXCEPT !.jobs[j].phase = "Succeeded"]
    /\ registry' = registry \cup {api.jobs[j].hash[3]}
    /\ UNCHANGED <<operator, runs, changes, faults>>

\* It may fail at any point, even after the push (see SignImage).
JobFails(j) ==
    /\ Fault /\ api.jobs[j] # Absent /\ api.jobs[j].phase = "Active"
    /\ api' = [api EXCEPT !.jobs[j].phase = "Failed"]
    /\ \/ UNCHANGED registry
       \/ /\ api.jobs[j].hash[2] \in registry
          /\ registry' = registry \cup {api.jobs[j].hash[3]}
    /\ UNCHANGED <<operator, runs, changes>>

\* Kubernetes collects what a deleted ManagedClusterModule owns.
OwnedObjectCollected(kind, n) ==
    /\ api.mcm = Absent /\ api[kind][n] # Absent
    /\ api' = [api EXCEPT ![kind][n] = Absent]
    /\ UNCHANGED <<operator, runs, registry, changes, faults>>

Environment ==
    \/ \E c \in Clusters : \/ ReportClusterClaim(c) \/ SpokeApplies(c)
                           \/ OwnedObjectCollected("works", c)
    \/ \E n \in Names : \/ BuildCompletes(n) \/ JobStarts(n) \/ JobSucceeds(n)
                        \/ OwnedObjectCollected("builds", n)
                        \/ OwnedObjectCollected("jobs", n)

Users ==
    \/ \E c \in Clusters : \/ SelectCluster(c) \/ SpokeDegrades(c)
                           \/ \E ks \in NodeKernels : SpokeNodesChange(c, ks)
    \/ \E s \in Specs : EditManagedClusterModule(s)
    \/ DeleteManagedClusterModule
    \/ \E n \in Names : BuildFails(n) \/ JobFails(n)

Next ==
    \/ Reconcile \/ ClusterFails \/ ReconcileError
    \/ \E kind \in Kinds : Deliver(kind)
    \/ Resync \/ Restart
    \/ Environment \/ Users

Spec == Init /\ [][Next]_vars

\* As in ModuleReconciler: the work queue runs what is queued, the watches deliver,
\* the resync period elapses and everybody but the users works.  Nothing else makes
\* up for ClusterFails: an error of one cluster is not retried before an event or
\* the resync.  The order of the loops over clusters and kernels varies.
Fairness ==
    /\ WF_vars(Reconcile)
    /\ \A k \in Kernels : SF_vars(BuildKernel(k))
    /\ \A kind \in Kinds : WF_vars(Deliver(kind))
    /\ WF_vars(Resync)
    /\ WF_vars(Environment)

FairSpec == Spec /\ Fairness

-----------------------------------------------------------------------------
(* Properties.                                                              *)

\* A cluster is handed a Module, or a new version of it, only when the images of
\* all its kernels that have a mapping were built, signed and pushed: the Module in
\* the ManifestWork has no build and no sign section, so nobody would do it there.
ManifestWorkAfterImages ==
    [][\A c \in Clusters :
          /\ api'.works[c] # Absent
          /\ api.works[c] = Absent \/ api'.works[c].image # api.works[c].image
          /\ ShouldBeBuilt(mcm.spec) \/ ShouldBeSigned(mcm.spec)
          => \A k \in kernelMappingsByKernelVersion(mcm.spec, selected[c].claim) :
                ContainerImage(mcm.spec, k) \in registry]_vars

\* Nothing keeps the images of a cluster's kernels from being made: no build and
\* no signing Job of theirs failed for good.
CanBeMade(c) ==
    \A k \in api.clusters[c].claim :
        /\ \A b \in ForKernel(api.builds, k) : api.builds[b].phase # "Failed"
        /\ \A j \in ForKernel(api.jobs, k) : api.jobs[j].phase # "Failed"

\* Once users stop changing things, every selected cluster that runs a kernel with
\* a mapping has the current Module, even if a build or Job for another cluster failed,
\* calls failed or the operator crashed on the way; no other cluster keeps one.
SpokesFollow ==
    \A c \in Clusters :
       /\ <>[](api.mcm = Absent \/ ~ api.clusters[c].selected
                  => api.works[c] = Absent)
       /\ <>[](/\ api.mcm # Absent /\ api.clusters[c].selected
               /\ kernelMappingsByKernelVersion(api.mcm.spec, runs[c]) # {}
               /\ api.clusters[c].claim = runs[c] /\ CanBeMade(c)
               => /\ api.works[c] # Absent
                  /\ api.works[c].image = api.mcm.spec.image)

\* The status ends up counting the ManifestWorks there are and what the spokes
\* report, although every reconciliation counts what its cache has of them.
HubStatusConverges ==
    LET Reporting(type) == {c \in Clusters : /\ api.works[c] # Absent
                                              /\ type \in api.works[c].conditions}
    IN  <>[](api.mcm # Absent =>
               /\ api.mcm.status.desired =
                      Cardinality({c \in Clusters : api.works[c] # Absent})
               /\ api.mcm.status.applied = Cardinality(Reporting("Applied"))
               /\ api.mcm.status.degraded = Cardinality(Reporting("Degraded")))

=============================================================================
