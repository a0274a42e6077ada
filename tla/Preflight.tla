----------------------------- MODULE Preflight -----------------------------
(***************************************************************************)
(* Preflight validation of an upgrade: a PreflightValidationOCP that names  *)
(* a release, the PreflightValidation its controller creates for it, and    *)
(* the controller that validates every Module against the release's kernel, *)
(* with the Builds and signing Jobs of the managers in Workloads and the    *)
(* Driver Toolkit mapping.                                                  *)
(*                                                                          *)
(* As in ModuleReconciler, cache is what the informers have seen of api.    *)
(* The status of the PreflightValidation is written with Update, which the  *)
(* API server refuses when the object was read in an older version: fresh   *)
(* says that the cache holds the stored version, current that the           *)
(* reconciliation's own copy is derived from it.                            *)
(***************************************************************************)
EXTENDS Workloads

CONSTANTS
    Mods,             \* names of Modules
    InitMods,         \* the Modules there may be at the start
    InitPush,         \* values of PushBuiltImage
    EditedMods,       \* the Modules users change
    ReleaseKernel,    \* KERNEL_VERSION of the release's Driver Toolkit
    ReleaseRTKernel,  \* RT_KERNEL_VERSION, Absent if the release has none
    ReleaseOS,        \* RHEL_VERSION
    NodeOS,           \* the OS version nodes report
    ReleaseDTK,       \* the Driver Toolkit image the release names
    StreamDTK,        \* the one the cluster's image stream names for NodeOS
    DTKDockerfiles,   \* Dockerfiles with the DTK_AUTO build argument
    StaleReads,       \* reads that may be served from a cache that is behind
    MaxChanges,       \* bound on what users, nodes and image streams do
    MaxFaults         \* bound on failed API calls and operator crashes

Reads == {"preflight", "modules", "builds", "jobs", "completion"}

INSTANCE DTKMapping
    WITH MappedKernels <- Kernels, OSVersions <- {ReleaseOS, NodeOS},
         DTKImages <- {ReleaseDTK, StreamDTK}, NotMapped <- Absent

ASSUME PreflightAssumption ==
    /\ InitMods \subseteq [Mods -> Specs \cup {Absent}]
    /\ ReleaseKernel \in Kernels /\ ReleaseRTKernel \in Kernels \cup {Absent}
    /\ Absent \notin Kernels \cup Specs
    /\ DTKDockerfiles \subseteq Dockerfiles
    /\ StaleReads \subseteq Reads /\ InitPush \subseteq BOOLEAN
    /\ EditedMods \subseteq Mods
    /\ MaxChanges \in Nat /\ MaxFaults \in Nat

VARIABLES
    api,         \* PreflightValidationOCP, PreflightValidation, Modules, Builds, Jobs
    cache,       \* what the informers have seen of them
    fresh,       \* cache.pv is the stored version of api.pv
    registry,    \* images that can be pulled and hold the kernel module
    configMaps,  \* Dockerfiles whose ConfigMap exists
    dtk,         \* the kernelOsDtkMapping
    queued,      \* the PreflightValidation is in the work queue
    pc,          \* where its reconciliation is
    pv,          \* the object the reconciliation works on
    current,     \* pv carries the stored resource version
    listed,      \* the Modules it listed
    todo,        \* modulesToCheck still to handle
    cur,         \* the Module being validated
    verified,    \* what PreflightUpgradeCheck found
    ocpQueued,   \* the PreflightValidationOCP is in the work queue
    ocpPc,       \* where its reconciliation is
    pvo,         \* the object it works on
    changes, faults

locals == <<pv, current, listed, todo, cur, verified>>
ocp == <<ocpQueued, ocpPc, pvo>>
world == <<registry, configMaps, dtk>>
vars == <<api, cache, fresh, world, queued, pc, locals, ocp, changes, faults>>

Stages == {"Image", "Build", "Sign", "Requeued", "Done"}

CRStatus == [verified : BOOLEAN, stage : Stages]

CRStatuses == [Mods -> CRStatus \cup {Absent}]

PreflightValidation == [kernel : Kernels, push : BOOLEAN, status : CRStatuses]

\* Of the copied status, the Modules it calls verified.
PreflightValidationOCP == [push : BOOLEAN, useRT : BOOLEAN, verified : SUBSET Mods]

ASSUME StatusAssumption ==
    Absent \notin PreflightValidation \cup CRStatus \cup PreflightValidationOCP

Cached == {"pv", "mods", "builds", "jobs"}

IsVerified(p, m) == p # Absent /\ p.status[m] # Absent /\ p.status[m].verified

NoneOf == [m \in Mods |-> Absent]

NoObjects == [m \in Mods |-> [n \in Names |-> Absent]]

TypeOK ==
    /\ \A p \in {api.pvo, pvo} : p \in PreflightValidationOCP \cup {Absent}
    /\ \A p \in {api.pv, cache.pv, pv} : p \in PreflightValidation \cup {Absent}
    /\ \A a \in {api, cache} :
          /\ a.mods \in [Mods -> Specs \cup {Absent}]
          /\ a.builds \in [Mods -> [Names -> Build \cup {Absent}]]
          /\ a.jobs \in [Mods -> [Names -> SignJob \cup {Absent}]]
    /\ registry \subseteq ImageRef /\ configMaps \subseteq Dockerfiles
    /\ dtk \in DTKMaps
    /\ pc \in {"idle", "modules", "loop", "image", "missing", "build", "sign", "status",
               "stage"}
    /\ ocpPc \in {"idle", "setNodeInfo", "setImageStreamInfo", "create"}
    /\ todo \subseteq Mods /\ cur \in Mods \cup {Absent}
    /\ changes \in 0..MaxChanges /\ faults \in 0..MaxFaults

IdleLocals ==
    /\ pv' = Absent /\ current' = FALSE /\ listed' = NoneOf
    /\ todo' = {} /\ cur' = Absent /\ verified' = FALSE

Init ==
    \E ms \in InitMods, push \in InitPush, useRT \in BOOLEAN, cms \in {{}, Dockerfiles} :
        /\ api = [pvo |-> [push |-> push, useRT |-> useRT, verified |-> {}],
                  pv |-> Absent, mods |-> ms, builds |-> NoObjects,
                  jobs |-> NoObjects]
        /\ cache = [kind \in Cached |-> api[kind]]
        /\ fresh = TRUE
        /\ registry = {} /\ configMaps = cms
        /\ dtk = NewKernelOsDtkMapping
        /\ queued = FALSE /\ pc = "idle"
        /\ pv = Absent /\ current = FALSE /\ listed = NoneOf
        /\ todo = {} /\ cur = Absent /\ verified = FALSE
        /\ ocpQueued = TRUE /\ ocpPc = "idle" /\ pvo = Absent
        /\ changes = 0 /\ faults = 0

Fault == faults < MaxFaults /\ faults' = faults + 1

\* A read of the cache, which may be behind only for the reads in StaleReads.
Read(what) ==
    \/ what \in StaleReads
    \/ fresh /\ \A kind \in {"mods", "builds", "jobs"} : cache[kind] = api[kind]

-----------------------------------------------------------------------------
(* The PreflightValidation controller.                                      *)

\* Reconcile returns.  again: with an error or with RequeueAfter, so that it is
\* called again; how long a request waits is left open.
Return(again) ==
    /\ pc' = "idle" /\ IdleLocals
    /\ queued' = (queued \/ again)

GetPreflight ==
    /\ pc = "idle" /\ queued /\ Read("preflight")
    /\ queued' = FALSE
    /\ pv' = cache.pv
    /\ current' = (fresh /\ cache.pv # Absent)
    /\ pc' = IF cache.pv = Absent THEN "idle" ELSE "modules"
    /\ UNCHANGED <<api, cache, fresh, world, listed, todo, cur, verified, ocp,
                   changes, faults>>

NewCRStatus == [verified |-> FALSE, stage |-> "Image"]

\* Mutant: no stage.
PresetStatusesNoStage(statuses, mods) ==
    [m \in Mods |-> CASE mods[m] = Absent -> Absent
                      [] mods[m] # Absent /\ statuses[m] = Absent ->
                             [verified |-> FALSE, stage |-> ""]
                      [] OTHER -> statuses[m]]

\* presetModulesStatuses and PreflightPresetStatuses: entries of Modules that are
\* gone are dropped, new Modules get one.
PresetStatuses(statuses, mods) ==
    [m \in Mods |-> CASE mods[m] = Absent -> Absent
                      [] mods[m] # Absent /\ statuses[m] = Absent -> NewCRStatus
                      [] OTHER -> statuses[m]]

\* Mutant: the status is patched, whatever version it was read in.
AcceptedAnyVersion == api.pv # Absent

\* The API server refuses an Update of an object read in an older version.
Accepted == current

\* getModulesToCheck: a refused or failed Update ends the reconciliation.  An
\* Update that changes nothing makes no new version.
GetModulesToCheck ==
    LET statuses == PresetStatuses(pv.status, cache.mods)
    IN  /\ pc = "modules" /\ Read("modules") /\ Accepted
        /\ pv' = [pv EXCEPT !.status = statuses]
        /\ api' = [api EXCEPT !.pv.status = statuses]
        /\ fresh' = (fresh /\ statuses = pv.status)
        /\ listed' = cache.mods
        /\ todo' = {m \in Mods : statuses[m] # Absent /\ ~ statuses[m].verified}
        /\ pc' = "loop"
        /\ UNCHANGED <<cache, world, queued, current, cur, verified, ocp,
                       changes, faults>>

GetModulesToCheckRefused ==
    /\ pc = "modules" /\ ~ Accepted
    /\ Return(TRUE)
    /\ UNCHANGED <<api, cache, fresh, world, ocp, changes, faults>>

\* Mutant: the object is left as it was when the Update fails.
UpdateOrForget(statuses) ==
    \/ /\ Accepted
       /\ pv' = [pv EXCEPT !.status = statuses]
       /\ api' = [api EXCEPT !.pv.status = statuses]
       /\ fresh' = FALSE
       /\ UNCHANGED faults
    \/ /\ ~ Accepted
       /\ UNCHANGED <<pv, api, fresh, faults>>
    \/ Fault /\ UNCHANGED <<pv, api, fresh>>

\* Status().Update of the object in memory, with a new LastTransitionTime.  A
\* refused or failed one is only logged, and what was set stays set in memory.
Update(statuses) ==
    /\ pv' = [pv EXCEPT !.status = statuses]
    /\ \/ /\ Accepted
          /\ api' = [api EXCEPT !.pv.status = statuses]
          /\ fresh' = FALSE
          /\ UNCHANGED faults
       \/ ~ Accepted /\ UNCHANGED <<api, fresh, faults>>
       \/ Fault /\ UNCHANGED <<api, fresh>>

PreflightSetVerificationStage(m, stage) ==
    Update([pv.status EXCEPT ![m].stage = stage])

PreflightSetVerificationStatus(m, v) ==
    Update([pv.status EXCEPT ![m].verified = v])

\* The validation of cur goes on to another stage, or has a result.
GoOn(stage, step) ==
    /\ PreflightSetVerificationStage(cur, stage)
    /\ pc' = step
    /\ UNCHANGED verified

Result(v) ==
    /\ verified' = v
    /\ pc' = "status"
    /\ UNCHANGED <<pv, fresh>>

\* PreflightUpgradeCheck, its start.
StartCheck(m) ==
    /\ pc = "loop" /\ m \in todo
    /\ todo' = todo \ {m} /\ cur' = m
    /\ \/ /\ pv.kernel \notin listed[m].kernels
          /\ Result(FALSE) /\ UNCHANGED <<api, faults>>
       \/ /\ pv.kernel \in listed[m].kernels
          /\ PreflightSetVerificationStage(m, "Image")
          /\ pc' = "image"
          /\ UNCHANGED verified
    /\ UNCHANGED <<cache, world, queued, current, listed, ocp, changes>>

unchangedByCheck == <<cache, world, queued, current, listed, todo, cur, ocp, changes>>

\* The image counts as missing.
MissingImage ==
    /\ pc' = "missing"
    /\ UNCHANGED <<pv, fresh, verified>>

VerifyImage ==
    LET image == ContainerImage(listed[cur], pv.kernel)
    IN  /\ pc = "image"
        /\ \/ image \in registry /\ Result(TRUE)
           \/ image \notin registry /\ MissingImage
        /\ UNCHANGED <<api, faults>> /\ UNCHANGED unchangedByCheck

\* PreflightUpgradeCheck without the image.
TryBuildOrSign ==
    LET s == listed[cur]
    IN  /\ pc = "missing"
        /\ \/ ShouldBeBuilt(s) /\ GoOn("Build", "build")
           \/ ~ ShouldBeBuilt(s) /\ ShouldBeSigned(s) /\ GoOn("Sign", "sign")
           \/ /\ ~ ShouldBeBuilt(s) /\ ~ ShouldBeSigned(s)
              /\ Result(FALSE) /\ UNCHANGED <<api, faults>>
        /\ UNCHANGED unchangedByCheck

NewNames(kind, m) ==
    {n \in Names : api[kind][m][n] = Absent /\ cache[kind][m][n] = Absent}

\* MakeBuildTemplate fails without the Dockerfile's ConfigMap, and without the
\* Driver Toolkit image if the Dockerfile asks for it.
HasBuildTemplate(s, k) ==
    /\ s.dockerfile \in configMaps
    /\ s.dockerfile \in DTKDockerfiles => GetImage(dtk, k) # Absent

\* verifyBuild: an error of Sync is a result like any other.
VerifyBuild ==
    LET s      == listed[cur]
        builds == cache.builds[cur]
        result == IF HasBuildTemplate(s, pv.kernel)
                  THEN BuildSync(s, pv.kernel, pv.push, builds) ELSE "error"
        old    == TheOnly(ForKernel(builds, pv.kernel))
    IN  /\ pc = "build" /\ Read("builds")
        /\ \/ /\ result = "create" /\ Result(FALSE) /\ UNCHANGED faults
              /\ \E n \in NewNames("builds", cur) :
                    api' = [api EXCEPT !.builds[cur][n] =
                                MakeBuildTemplate(s, pv.kernel, pv.push)]
           \/ /\ result = "delete" /\ Result(FALSE) /\ UNCHANGED faults
              /\ api' = [api EXCEPT !.builds[cur][old] = Absent]
           \/ result = "completed" /\ ShouldBeSigned(s) /\ GoOn("Sign", "sign")
           \/ /\ result = "completed" /\ ~ ShouldBeSigned(s)
              /\ Result(TRUE) /\ UNCHANGED <<api, faults>>
           \/ /\ result \notin {"create", "delete", "completed"}
              /\ Result(FALSE) /\ UNCHANGED <<api, faults>>
        /\ UNCHANGED unchangedByCheck

VerifySign ==
    LET s      == listed[cur]
        jobs   == cache.jobs[cur]
        result == SignSync(s, pv.kernel, pv.push, jobs)
        old    == TheOnly(ForKernel(jobs, pv.kernel))
    IN  /\ pc = "sign" /\ Read("jobs")
        /\ \/ /\ result = "create" /\ Result(FALSE)
              /\ \E n \in NewNames("jobs", cur) :
                    api' = [api EXCEPT !.jobs[cur][n] =
                                MakeJobTemplate(s, pv.kernel, pv.push)]
           \/ /\ result = "delete" /\ Result(FALSE)
              /\ api' = [api EXCEPT !.jobs[cur][old] = Absent]
           \/ result \notin {"create", "delete"} /\ Result(result = "completed")
              /\ UNCHANGED api
        /\ UNCHANGED faults /\ UNCHANGED unchangedByCheck

\* A call of verifyImage, verifyBuild or verifySign fails.  An image whose layers
\* cannot be fetched just now counts as missing.
VerifyFails ==
    /\ Fault
    /\ \/ pc = "image" /\ MissingImage
       \/ pc \in {"build", "sign"} /\ Result(FALSE)
    /\ UNCHANGED api /\ UNCHANGED unchangedByCheck

\* updatePreflightStatus, two writes.
UpdateStatus ==
    /\ pc = "status"
    /\ PreflightSetVerificationStatus(cur, verified)
    /\ pc' = "stage"
    /\ UNCHANGED verified /\ UNCHANGED unchangedByCheck

UpdateStage ==
    /\ pc = "stage"
    /\ PreflightSetVerificationStage(cur, IF verified THEN "Done" ELSE "Requeued")
    /\ pc' = "loop"
    /\ UNCHANGED verified /\ UNCHANGED unchangedByCheck

\* Mutant: nothing is asked for when Modules are left.
CheckPreflightCompletionNoRequeue ==
    /\ pc = "loop" /\ todo = {} /\ Read("completion")
    /\ Return(cache.pv = Absent)
    /\ UNCHANGED <<api, cache, fresh, world, ocp, changes, faults>>

\* checkPreflightCompletion reads the object once more, from the cache, and
\* Reconcile asks to be called again after 180 seconds if a Module is left.
CheckPreflightCompletion ==
    /\ pc = "loop" /\ todo = {} /\ Read("completion")
    /\ \/ cache.pv = Absent /\ Return(TRUE)
       \/ /\ cache.pv # Absent
          /\ Return(\E m \in Mods : /\ cache.pv.status[m] # Absent
                                    /\ ~ cache.pv.status[m].verified)
    /\ UNCHANGED <<api, cache, fresh, world, ocp, changes, faults>>

\* A call fails whose error Reconcile returns.
ReconcileError ==
    /\ Fault
    /\ pc = "modules" \/ (pc = "loop" /\ todo = {})
    /\ Return(TRUE)
    /\ UNCHANGED <<api, cache, fresh, world, ocp, changes>>

Reconcile ==
    \/ GetPreflight \/ GetModulesToCheck \/ GetModulesToCheckRefused
    \/ \E m \in Mods : StartCheck(m)
    \/ VerifyImage \/ TryBuildOrSign \/ VerifyBuild \/ VerifySign
    \/ UpdateStatus \/ UpdateStage \/ CheckPreflightCompletion

-----------------------------------------------------------------------------
(* The PreflightValidationOCP controller.                                   *)

\* The kernel to validate; a release may have no real-time kernel.
ReleaseKernelFor(p) == IF p.useRT THEN ReleaseRTKernel ELSE ReleaseKernel

unchangedByOCP == <<cache, registry, configMaps, queued, pc, locals, changes>>

OCPReturn(err) ==
    /\ ocpPc' = "idle" /\ pvo' = Absent
    /\ ocpQueued' = (ocpQueued \/ err)

\* An event for a PreflightValidationOCP that is gone.  (One for a release without
\* the kernel it asks for is retried for ever, and changes nothing.)
OCPNothingToDo ==
    /\ ocpPc = "idle" /\ ocpQueued
    /\ api.pvo = Absent
    /\ ocpQueued' = FALSE
    /\ UNCHANGED <<api, fresh, dtk, ocpPc, pvo, faults>> /\ UNCHANGED unchangedByOCP

\* PreflightOCPUpdateStatus: the PreflightValidation's status is copied.
PreflightOCPUpdateStatus ==
    /\ ocpPc = "idle" /\ ocpQueued
    /\ api.pvo # Absent /\ cache.pv # Absent
    /\ api' = [api EXCEPT !.pvo.verified = {m \in Mods : IsVerified(cache.pv, m)}]
    /\ ocpQueued' = FALSE
    /\ UNCHANGED <<fresh, dtk, ocpPc, pvo, faults>> /\ UNCHANGED unchangedByOCP

\* preparePreflightValidation: the Driver Toolkit mapping is left alone if it
\* has an image already ("in case regular flow already set the data").
PreparePreflightValidation ==
    LET k == ReleaseKernelFor(api.pvo)
    IN  /\ ocpPc = "idle" /\ ocpQueued
        /\ api.pvo # Absent /\ cache.pv = Absent /\ k # Absent
        /\ pvo' = api.pvo
        /\ ocpPc' = IF GetImage(dtk, k) = Absent THEN "setNodeInfo" ELSE "create"
        /\ ocpQueued' = FALSE
        /\ UNCHANGED <<api, fresh, dtk, faults>> /\ UNCHANGED unchangedByOCP

OCPSetNodeInfo ==
    /\ ocpPc = "setNodeInfo"
    /\ dtk' = SetNodeInfo(dtk, ReleaseKernelFor(pvo), ReleaseOS)
    /\ ocpPc' = "setImageStreamInfo"
    /\ UNCHANGED <<api, fresh, ocpQueued, pvo, faults>> /\ UNCHANGED unchangedByOCP

OCPSetImageStreamInfo ==
    /\ ocpPc = "setImageStreamInfo"
    /\ dtk' = SetImageStreamInfo(dtk, ReleaseOS, ReleaseDTK)
    /\ ocpPc' = "create"
    /\ UNCHANGED <<api, fresh, ocpQueued, pvo, faults>> /\ UNCHANGED unchangedByOCP

\* Creation fails if the cache was behind.
CreatePreflightValidation ==
    /\ ocpPc = "create"
    /\ \/ /\ api.pv = Absent
          /\ api' = [api EXCEPT !.pv = [kernel |-> ReleaseKernelFor(pvo),
                                        push |-> pvo.push, status |-> NoneOf]]
          /\ fresh' = FALSE
          /\ OCPReturn(FALSE)
       \/ api.pv # Absent /\ OCPReturn(TRUE) /\ UNCHANGED <<api, fresh>>
    /\ UNCHANGED <<dtk, faults>> /\ UNCHANGED unchangedByOCP

\* Any call fails; the request is queued again.
OCPReconcileError ==
    /\ Fault
    /\ ocpPc = "create" \/ (ocpPc = "idle" /\ ocpQueued)
    /\ OCPReturn(TRUE)
    /\ UNCHANGED <<api, fresh, dtk>> /\ UNCHANGED unchangedByOCP

ReconcileOCP ==
    \/ OCPNothingToDo \/ PreflightOCPUpdateStatus \/ PreparePreflightValidation
    \/ OCPSetNodeInfo \/ OCPSetImageStreamInfo \/ CreatePreflightValidation

-----------------------------------------------------------------------------
(* Events and restarts.                                                     *)

\* Mutant: status changes of the PreflightValidation are filtered out for its
\* owner as well.
DeliverPreflightFiltered ==
    /\ ~ fresh
    /\ fresh' = TRUE
    /\ cache' = [cache EXCEPT !.pv = api.pv]
    /\ queued' = (queued \/ Absent \in {cache.pv, api.pv})
    /\ ocpQueued' = (ocpQueued \/ Absent \in {cache.pv, api.pv})
    /\ UNCHANGED <<api, world, pc, locals, ocpPc, pvo, changes, faults>>

\* The PreflightValidation's own controller is called when it is created or
\* deleted, not when its status changes (nor by a resync: the generation is the
\* same); its owner is called always.
DeliverPreflight ==
    /\ ~ fresh
    /\ fresh' = TRUE
    /\ cache' = [cache EXCEPT !.pv = api.pv]
    /\ queued' = (queued \/ Absent \in {cache.pv, api.pv})
    /\ ocpQueued' = TRUE
    /\ UNCHANGED <<api, world, pc, locals, ocpPc, pvo, changes, faults>>

\* EnqueueAllPreflightValidations lists them from the cache.
DeliverModules ==
    /\ cache.mods # api.mods
    /\ cache' = [cache EXCEPT !.mods = api.mods]
    /\ queued' = (queued \/ cache.pv # Absent)
    /\ UNCHANGED <<api, fresh, world, pc, locals, ocp, changes, faults>>

DeliverOwned(kind) ==
    /\ cache[kind] # api[kind]
    /\ cache' = [cache EXCEPT ![kind] = api[kind]]
    /\ queued' = TRUE
    /\ UNCHANGED <<api, fresh, world, pc, locals, ocp, changes, faults>>

Deliver ==
    \/ DeliverPreflight \/ DeliverModules
    \/ \E kind \in {"builds", "jobs"} : DeliverOwned(kind)

\* The mapping lives in memory.  Nodes and image streams register again; what the
\* release said is read only when the PreflightValidation does not exist.
Restart ==
    /\ Fault
    /\ cache' = [kind \in Cached |-> api[kind]] /\ fresh' = TRUE
    /\ dtk' = NewKernelOsDtkMapping
    /\ pc' = "idle" /\ IdleLocals
    /\ queued' = (api.pv # Absent)
    /\ ocpPc' = "idle" /\ pvo' = Absent /\ ocpQueued' = (api.pvo # Absent)
    /\ UNCHANGED <<api, registry, configMaps, changes>>

-----------------------------------------------------------------------------
(* The cluster around the two controllers.                                  *)

operator == <<cache, queued, pc, listed, todo, cur, verified, ocp, faults>>

Change == changes < MaxChanges /\ changes' = changes + 1

\* The node kernel controller meets a node that runs the release's kernel.
NodeKernelReconcile ==
    /\ Change
    /\ dtk' = SetNodeInfo(dtk, ReleaseKernel, NodeOS)
    /\ UNCHANGED <<api, fresh, registry, configMaps, pv, current, operator>>

ImageStreamReconcile ==
    /\ Change
    /\ dtk' = SetImageStreamInfo(dtk, NodeOS, StreamDTK)
    /\ UNCHANGED <<api, fresh, registry, configMaps, pv, current, operator>>

unchangedByCluster == <<fresh, configMaps, dtk, pv, current, operator, changes>>

\* A build without an output pushes nothing.
BuildCompletes(m, n) ==
    /\ api.builds[m][n] # Absent /\ api.builds[m][n].phase = "New"
    /\ api' = [api EXCEPT !.builds[m][n].phase = "Complete"]
    /\ registry' = registry \cup ({api.builds[m][n].output} \ {Absent})
    /\ UNCHANGED unchangedByCluster

BuildFails(m, n) ==
    /\ api.builds[m][n] # Absent /\ api.builds[m][n].phase = "New"
    /\ api' = [api EXCEPT !.builds[m][n].phase = "Failed"]
    /\ UNCHANGED registry /\ UNCHANGED unchangedByCluster

JobStarts(m, n) ==
    /\ api.jobs[m][n] # Absent /\ api.jobs[m][n].phase = "New"
    /\ api' = [api EXCEPT !.jobs[m][n].phase = "Active"]
    /\ UNCHANGED registry /\ UNCHANGED unchangedByCluster

JobEnds(m, n) ==
    LET job == api.jobs[m][n]
    IN  /\ job # Absent /\ job.phase = "Active"
        /\ \/ /\ job.hash[2] \in registry
              /\ api' = [api EXCEPT !.jobs[m][n].phase = "Succeeded"]
              /\ registry' = registry \cup ({job.hash[3]} \ {Absent})
           \/ /\ job.hash[2] \notin registry
              /\ api' = [api EXCEPT !.jobs[m][n].phase = "Failed"]
              /\ UNCHANGED registry
        /\ UNCHANGED unchangedByCluster

\* Kubernetes collects what the deleted owner owned.
PreflightCollected ==
    /\ api.pvo = Absent /\ api.pv # Absent
    /\ api' = [api EXCEPT !.pv = Absent]
    /\ fresh' = FALSE /\ current' = FALSE
    /\ UNCHANGED <<world, pv, operator, changes>>

OwnedObjectCollected(kind, m, n) ==
    /\ api.pv = Absent /\ api[kind][m][n] # Absent
    /\ api' = [api EXCEPT ![kind][m][n] = Absent]
    /\ UNCHANGED registry /\ UNCHANGED unchangedByCluster

\* A Module is created, edited or deleted.
ChangeModule(m, s) ==
    /\ Change /\ s # api.mods[m]
    /\ api' = [api EXCEPT !.mods[m] = s]
    /\ UNCHANGED <<fresh, world, pv, current, operator>>

DeletePreflightValidationOCP ==
    /\ Change /\ api.pvo # Absent
    /\ api' = [api EXCEPT !.pvo = Absent]
    /\ UNCHANGED <<fresh, world, pv, current, operator>>

\* The Dockerfile's ConfigMap is created, and images are pushed, unnoticed.
CreateConfigMap(d) ==
    /\ Change /\ d \notin configMaps
    /\ configMaps' = configMaps \cup {d}
    /\ UNCHANGED <<api, fresh, registry, dtk, pv, current, operator>>

PushImage(m) ==
    /\ Change /\ api.mods[m] # Absent /\ ~ ShouldBeBuilt(api.mods[m])
    /\ registry' = registry \cup {SignSource(api.mods[m], ReleaseKernel)} \cup
                       (IF ShouldBeSigned(api.mods[m]) THEN {}
                        ELSE {ContainerImage(api.mods[m], ReleaseKernel)})
    /\ UNCHANGED <<api, fresh, configMaps, dtk, pv, current, operator>>

Cluster ==
    \/ NodeKernelReconcile \/ ImageStreamReconcile \/ PreflightCollected
    \/ \E m \in Mods, n \in Names :
          \/ BuildCompletes(m, n) \/ BuildFails(m, n) \/ JobStarts(m, n) \/ JobEnds(m, n)
          \/ \E kind \in {"builds", "jobs"} : OwnedObjectCollected(kind, m, n)

Users ==
    \/ \E m \in EditedMods, s \in Specs \cup {Absent} : ChangeModule(m, s)
    \/ DeletePreflightValidationOCP
    \/ \E d \in Dockerfiles : CreateConfigMap(d)
    \/ \E m \in Mods : PushImage(m)

Next ==
    \/ Reconcile \/ VerifyFails \/ ReconcileError
    \/ ReconcileOCP \/ OCPReconcileError
    \/ Deliver \/ Restart
    \/ Cluster \/ Users

Spec == Init /\ [][Next]_vars

\* Both controllers run what is queued, watches deliver, builds and
\* Jobs end.  Users, nodes and image streams owe nothing.
Fairness ==
    /\ WF_vars(Reconcile) /\ WF_vars(ReconcileOCP)
    /\ WF_vars(DeliverPreflight) /\ WF_vars(DeliverModules)
    /\ \A kind \in {"builds", "jobs"} : WF_vars(DeliverOwned(kind))
    /\ \A m \in Mods, n \in Names :
          /\ WF_vars(BuildCompletes(m, n) \/ BuildFails(m, n))
          /\ WF_vars(JobStarts(m, n)) /\ WF_vars(JobEnds(m, n))

FairSpec == Spec /\ Fairness

-----------------------------------------------------------------------------
(* Properties.                                                              *)

\* docs: "Preflight will stop running validation on a Module, once its validation
\* is successful".  No stale read, crash, failed write or concurrent deletion takes
\* a verified Module back to unverified, or forgets it while it exists.
VerifiedStaysVerified ==
    [][\A m \in Mods :
          /\ IsVerified(api.pv, m) /\ api'.pv # Absent
          /\ pc = "modules" => cache.mods[m] # Absent
          => IsVerified(api'.pv, m)]_vars

\* With PushBuiltImage, a Module becomes verified only when the image that its
\* nodes will pull after the upgrade is there.
VerifiedImagesArePushed ==
    [][\A m \in Mods :
          /\ api'.pv # Absent /\ api'.pv.push
          /\ ~ IsVerified(api.pv, m) /\ IsVerified(api'.pv, m)
          => ContainerImage(listed[m], api'.pv.kernel) \in registry]_vars

\* The stage says Done only of verified Modules, although status and stage are
\* written one after the other and either write may fail.
DoneIsVerified ==
    \A m \in Mods :
       api.pv # Absent /\ api.pv.status[m] # Absent /\ api.pv.status[m].stage = "Done"
          => api.pv.status[m].verified

\* Nothing stands in the way of validating Module m: there is a mapping, and the
\* image is there or can be made.  (docs: signing what was built needs
\* PushBuiltImage.)
Validatable(m) ==
    LET s == api.mods[m]
        k == api.pv.kernel
    IN  /\ s # Absent /\ k \in s.kernels
        /\ \/ ContainerImage(s, k) \in registry
           \/ /\ ShouldBeBuilt(s) \/ ShouldBeSigned(s)
              /\ ShouldBeBuilt(s) => HasBuildTemplate(s, k)
              /\ ShouldBeBuilt(s) /\ ShouldBeSigned(s) => api.pv.push
              /\ ShouldBeSigned(s) /\ ~ ShouldBeBuilt(s) => SignSource(s, k) \in registry
              /\ \A n \in Names :
                    /\ api.builds[m][n] # Absent =>
                          \/ api.builds[m][n].phase # "Failed"
                          \/ isBuildChanged(api.builds[m][n],
                                            MakeBuildTemplate(s, k, api.pv.push))
                    /\ api.jobs[m][n] # Absent =>
                          \/ api.jobs[m][n].phase # "Failed"
                          \/ IsJobChanged(api.jobs[m][n],
                                          MakeJobTemplate(s, k, api.pv.push))

\* The source: "we need a requeue in order to run reconciliation again".  A Module
\* that can be validated is, although nobody tells the controller that a ConfigMap
\* or an image appeared.
ValidatedInTheEnd ==
    \A m \in Mods :
       <>[](api.pv # Absent /\ Validatable(m) => IsVerified(api.pv, m))

\* What the PreflightValidation says of a Module is, in the end, what the
\* PreflightValidationOCP that users watch says of it.
OCPStatusFollows ==
    \A m \in Mods :
       []<>(api.pv # Absent /\ api.pvo # Absent =>
               (IsVerified(api.pv, m) <=> m \in api.pvo.verified))

=============================================================================
