# Kernel Module Management operator: TLA+ models

This directory holds TLA+ models of the Kernel Module Management (KMM) operator, the TLC
configurations that check them and TLAPS proofs. The operator is a set of Kubernetes controllers: it reads
`Module` resources, builds and signs kernel module images, deploys them with DaemonSets on the
nodes that run matching kernels, and labels the nodes where a module is loaded. It validates Modules
against the kernel of an upgrade beforehand, and a hub variant does the building for a fleet of clusters.

## 1. Inventory

| Component | Source | State | Operations | Model |
|---|---|---|---|---|
| Module reconciler | `controllers/module_reconciler.go` | nothing between reconciliations; API objects and informer caches | `Reconcile`: list nodes and DaemonSets, build / sign / deploy per kernel, device plugin, garbage collection, status | `ModuleReconciler` |
| Build manager | `internal/build/buildconfig` | Builds | `ShouldSync`, `Sync`, `GarbageCollect` (empty) | `Workloads` |
| Signing job manager | `internal/sign/job`, `internal/utils/jobhelper.go` | Jobs | `ShouldSync`, `Sync`, `GarbageCollect` | `Workloads` |
| DaemonSet creator | `internal/daemonset` | DaemonSets | lookup by kernel, desired state, garbage collection, node labels, modprobe commands | `Workloads`, `PodNodeModule` (not the command lines) |
| Status updater | `internal/statusupdater` | status of Modules, preflights, ManagedClusterModules | one patch each | `ModuleReconciler`, `Preflight`, `Hub` |
| Pod/node label controller | `controllers/pod_node_module_reconciler.go` | node labels, pod finalizers | label, unlabel, release the pod | `PodNodeModule` |
| Event filters | `internal/filter` | none | predicates and object-to-request maps | inside the controllers' models |
| Kernel mapper | `internal/module/kernelmapper.go` | none | first matching mapping, merge of sections, templates | a set of kernels per spec; the merge of sign sections in `Signing` |
| Node kernel controller | `controllers/node_kernel_reconciler.go` | kernel label, kernel-to-OS map | label, register | `LabelNode` of `ModuleReconciler`, `NodeKernelReconcile` of `Preflight` |
| Image stream controller, DTK mapping | `controllers/imagestream_reconciler.go`, `internal/syncronizedmap` | two maps under two mutexes | register tags, `GetImage` | `DTKMapping`, `Preflight` |
| Preflight validation | `controllers/preflightvalidation*.go`, `internal/preflight` | verification status per Module | verify image, build, sign; completion; create and mirror the validation of a release | `Preflight` |
| Hub | `controllers/hub`, `internal/cluster`, `internal/manifestwork` | ManifestWorks per cluster | build and sign per cluster, write, collect, status | `Hub` |
| ClusterClaim controller | `controllers/node_kernel_clusterclaim.go` | the claim of kernel versions | write on change | `ReportClusterClaim` of `Hub` |
| CA ConfigMaps | `internal/ca` | two ConfigMaps per namespace | list, create or patch the owners | `CAConfigMaps`, `Signing` |
| Signing tool | `cmd/signimage` | its copy of an image, the files to sign | find credentials, pull, walk the layers, sign, add a layer, push | `SignImage`, `Signing` |
| Registry client, pull secrets | `internal/registry`, `internal/auth` | none | pull, push, layers, search for a file | `Registry` (layers), `SignImage` (pull and push); elsewhere the set of images that exist |
| Metrics, binaries, API types | `internal/metrics`, `cmd/manager*`, `api*` | | | not modelled beyond restarts and the fields used |

How they interact: every controller reads from informer caches shared by the process, writes to the
API server, and is queued by the watches' events that pass its predicates; one worker runs one
reconciliation of a controller at a time. The Module reconciler
calls the managers synchronously; Builds, Jobs and DaemonSets it creates are worked on by OpenShift
and Kubernetes controllers, whose writes come back as events. The label controller reacts to the
pods of the DaemonSets, and the device plugin's DaemonSet selects nodes by the label it sets. Preflight
validation drives the same managers with Builds and Jobs of its own; its two controllers, the node kernel and
the image stream controller share the Driver Toolkit mapping in memory. The hub drives the managers once per
cluster and kernel, and talks to the spokes through ManifestWorks and ClusterClaims. Modules of a namespace
share two CA ConfigMaps, which the signing Jobs' pods mount; the exit status of the signing tool in
such a pod decides whether the reconciler takes an image for signed.

What is hard: objects change between any two calls of a reconciliation; caches lag behind what the
reconciliation itself wrote; names are generated, so a repeated creation is not refused; several
kinds of failure end in "return the error and start over"; node changes are filtered, so some are
only seen at a resynchronisation; statuses are written with optimistic locking from stale copies, and
failures to write them, or to handle one cluster, are only logged; two DaemonSets of a Module share one node label; ConfigMaps are
owned by several Modules and mounted by name; an image's layers hide each other's files; the operator and the
signing tool may stop anywhere. `PROJECT.json` lists the places as hazards.

What makes each modelled component correct:
* Module reconciler: the DaemonSets become those the spec and the nodes call for, one per kernel,
  never with an image that is not there; failures of one kernel do not block another; the status
  becomes true; nothing outlives a deleted Module.
* Build and signing managers: one object per kernel, none for an image that exists.
* Label controller: a label is on a node only while a pod that answers for it is held by its
  finalizer; a deleted pod is let go; the label says whether a driver container is ready.
* Preflight: what is verified was pushed, stays verified and is what users see; what can be validated is.
* Hub: a spoke gets the current Module while it is selected, not before the images of its kernels exist,
  whatever happens to other spokes; the status counts what was applied.
* CA ConfigMaps: one of each type, which stays as long as a Module of the namespace needs it.
* Signing: what is deployed exists, has the listed kernel modules signed, and is otherwise what the unsigned
  image would have run; a Job that can succeed does so in the end.

## 2. Plan

Order: (1) `ModuleData`, `Workloads`, `ModuleReconciler`; (2) `PodNodeModule`; (3) `DTKMapping` and `Preflight`;
(4) `Hub`; (5) `Registry`, `SignImage`, `CAConfigMaps` and their composition `Signing`; (6) proofs of the safety
invariants and safety action properties that hold for lagging caches or under conditions users can meet. All of these are done. So is (7), the abstract
specification `Rollout` of what users see of the Module reconciler. Left: (8) a label that is set and reset
atomically with a pod's readiness, as an abstract specification for `PodNodeModule` with one DaemonSet; (9) a composition of
`ModuleReconciler` and `Preflight` on shared Builds, which neither looks up by owner.

## 3. Modules

`ModuleData` declares the data: a spec (image template, Dockerfile, whether it builds, the sign
section, device plugin, kernels with a mapping), image references per kernel, API objects reduced to
the fields decisions depend on, nodes. `Workloads` has the managers' decisions as functions of what
they read: `BuildSync` and `SignSync` return what `Sync` does (create, delete, or a status). `pushImage` is
FALSE only for a preflight validation that does not push what it builds.

`ModuleReconciler` is the loop. `api` is the API server and `cache` the informers' copy, by kind of
object; `Deliver(kind)` copies one kind and queues a request if the watch's predicate lets the change through.
`pc` and the local variables of `Reconcile` are variables; each action ends at a remote call, so any
other action may come between two of them:

| Action | Code |
|---|---|
| `GetRequestedModule`, `GetNodesAndMappings`, `GetDaemonSets` | `Reconcile` lines 108-139 |
| `HandleBuild(k)`, `SyncBuild` | `handleBuild`: `ShouldSync` asks the registry, `Sync` lists and writes Builds |
| `HandleSigning`, `SyncSign` | `handleSigning` likewise with Jobs |
| `HandleDriverContainer` | `handleDriverContainer`: `CreateOrPatch` of the DaemonSet listed before the loop, or of a new one |
| `HandleDevicePlugin` | `handleDevicePlugin` and the start of `garbageCollect` |
| `GarbageCollectDaemonSet(n)`, `ListSucceededJobs`, `GarbageCollectJob(j)` | `garbageCollect`, one deletion at a time |
| `ModuleUpdateStatus` | the merge patch of the status |
| `ReconcileError`, `Return(TRUE)` | any call fails; the request is queued again |
| `Resync`, `Restart` | the informers' resync; the process stops and a new one lists everything |
| `EditModule` ... `OwnedObjectCollected` | users, nodes, build / Job / DaemonSet controllers, garbage collector |

`Rollout` is what all this amounts to for users: each kernel runs nothing or one image, and an image is rolled out to one
kernel at a time, only if it is that kernel's and only once it can be pulled. `ImplementsRollout` is the claim that
`ModuleReconciler` implements it.

The Module lives in the operator's namespace, where `Reconcile` skips the CA synchronisation.

`PodNodeModule` is the label controller with the pods of one Module: `GetPod`, `SetLabel`
(`addLabel` / `deleteLabel` as the difference from the node that is read), `DeleteFinalizer`; the
watch of pods delivers in order and passes what the predicates pass; DaemonSet controller, kubelet
and node lifecycle are its surroundings. Nodes are read as they are (`nodeCache = InStep`) or from a cache that
may lag, one or the other from the start.

`DTKMapping` is the Driver Toolkit mapping, each operation atomic as its mutexes make it. `Preflight`
has the PreflightValidation controller, the PreflightValidationOCP controller and their surroundings:

| Action | Code |
|---|---|
| `GetPreflight`, `GetModulesToCheck`, `GetModulesToCheckRefused` | `Reconcile`, `getModulesToCheck`, `presetModulesStatuses` |
| `StartCheck(m)`, `VerifyImage`, `TryBuildOrSign`, `VerifyBuild`, `VerifySign`, `VerifyFails` | `PreflightUpgradeCheck` and the helper, one step per remote call; an image whose layers cannot be fetched counts as missing |
| `UpdateStatus`, `UpdateStage` | `updatePreflightStatus`, two writes |
| `CheckPreflightCompletion` | `checkPreflightCompletion` and the requeue |
| `PreparePreflightValidation` ... `CreatePreflightValidation`, `PreflightOCPUpdateStatus` | `runPreflightValidationOCP` |
| `NodeKernelReconcile`, `ImageStreamReconcile` | the two other writers of the mapping |

`fresh` and `current` stand for resource versions: an `Update` is accepted only if the copy comes from the
stored version. `StaleReads` names the reads that may be served from a lagging cache.

`Hub` is the ManagedClusterModule controller: `GetRequested`, `StartCluster(c)`, then `BuildKernel(k)`, `SyncBuild`,
`SignKernel`, `SyncSign` as in `BuildAndSign`, `CreateOrPatchManifestWork`, `ListManifestWorks`,
`GarbageCollectWork(c)`, `ManagedClusterModuleUpdateStatus`; Builds and signing Jobs may fail, a Job also after
its push; `ClusterFails` is the error that is logged,
`ReconcileError` the one that is returned. `stripped` remembers that the kernel mappings the loop works on have
lost their build and sign sections; it matters when `MappingLevel`, that is if the sections are in the mappings
and not in the container.

`Registry` has images as stacks of layers: what a layer has under which spelling of a path, what a container started
from the image sees (`Mounted`), how a layer is added and how preflight searches. `SignImage` is the program
of `cmd/signimage`, one step per action of `main`, each of which may fail or be the last before the container is
killed; a run of it ends with an exit status. `FindAuth` is its search for credentials. `CAConfigMaps` is `Sync`
of `internal/ca` as the first part of the reconciliations of all Modules of a namespace, with the garbage
collector and users. `Signing` puts them together:

| Action | Code |
|---|---|
| `GetModule`, `GetOrCreateConfigMap(t)`, `SyncConfigMapOwners(t)` | `Reconcile` up to the end of `Sync`, per type of CA |
| `SignShouldSync`, `SignSync` | `handleSigning`: the registry is asked; the template, with the names of the ConfigMaps in its hash, the Job |
| `HandleDriverContainer`, `GarbageCollectJobs` | deployment, and the deletion of Jobs that succeeded |
| `JobStarts` ... `JobFinishes` | Job controller and kubelet; a pod starts when its ConfigMaps exist |
| `ToolRuns` (`CheckArgs` ... `ExitDone`), `ContainerKilled`, `PodRemoved` | the tool, its end by force, the end of a deleted Job's pod |
| `PushSource`, `DeleteModule`, `UserDeletesConfigMap` | users |

The sign section is the merge (`GetRelevantSign`) of the container's and the mapping's.

The `MC` modules give specs and pods to the instances. Operators whose comment says "Mutant" are
wrong on purpose: each replaces the definition that follows it to show that a property notices.

Proofs are in modules of their own: `WorkloadsProofs` (lemmas about the managers' decisions, used by the next three
controllers' proofs), `ModuleReconcilerProofs`, `BuildProofs` (the Builds of `ModuleReconciler`),
`PodNodeModuleProofs`, `PreflightProofs`, `HubProofs`, `SigningProofs`.

## 4. Runs

Passing runs:

* `edits`: one node; a spec that builds, one that builds and signs, one that only signs; the user edits
  or deletes the Module twice, builds and jobs fail, a call fails or the operator crashes once, the Module
  cache lags. `OneBuildAndJobPerKernel`: both managers fail for good on two objects; here their lists are up to date.
  `BuildsOnlyMissingImages`, under the idealisation that a Build that is deleted pushes no more (`Sync` deletes it with
  background propagation, so that its pod may run on for a while).
  `DeployedImagesExist` and what it rests on, `PushedBeforeUse` (section 5 proves both for lagging caches too).
  `ImplementsRollout`, with DaemonSets that are collected under a reconciliation that still knows them.
* `converge`: a Module that builds and signs is edited to any of four specs, or is deleted, or a node changes kernel,
  selection, taint or presence, at any point and with lagging caches of Modules and nodes; nothing fails.
  `Converges`: one DaemonSet with the right image for each kernel that schedulable nodes run and that has a mapping,
  none for kernels without a mapping and kernels that no node runs. Kernels that only tainted or unselected nodes run are
  left open, since documentation and code disagree on them (below).
  `StatusConverges`. `NothingLeftBehind`, for DaemonSets, Builds and Jobs: what a reconciliation goes on to create for a
  deleted Module is collected too.
* `failures`: two nodes with kernels of their own, builds and signing jobs may fail for good, a call fails or
  the operator crashes once. `DeployedDespiteFailures`, `ImplementsRollout` (no kernel gets what was meant for the other).
* `pod_labels`: pods of two driver-container DaemonSets, a node that leaves, for good or not; stale caches of
  pods and, in half of the initial states, of nodes; a failed call or crash. `LabelNeverOrphaned` (while nodes are read
  as they are) and its strengthening `ReleaseIsFinal`; `DeletedPodsGo`, also with stale nodes, except for
  nodes that left for good.
* `preflight`: a Module to build or to sign, another without a mapping for the kernel; one change (edit, new
  ConfigMap or image, deletion, node or image stream registering), one failed call or crash; the
  PreflightValidation and the Modules are read from lagging caches. `VerifiedStaysVerified`,
  `DoneIsVerified`, `VerifiedImagesArePushed`, `ValidatedInTheEnd`, `OCPStatusFollows`.
* `hub`: two spokes running one kernel, one of them yet to report it; one change (edit to an image that is signed,
  deletion, selection, nodes with a second kernel, degradation), one fault (a failed Build, Job or call, or a crash);
  lagging cache of ManifestWorks.
  `ManifestWorkAfterImages`, `SpokesFollow`, `HubStatusConverges`.
* `signing`: a namespace of two Modules, one of which signs; an unsigned image whose layers replace, remove and
  add again kernel modules and spell their paths differently; the mapping lists one more file, by a path the tool
  accepts or refuses; secrets one of which cannot be parsed and two of which name the same registry. One change
  (the other Module or a ConfigMap is deleted, another build of the unsigned image is pushed) and one failure (a call, the
  operator, the tool at any step, its container). `OneConfigMapPerType`, `MountedConfigMapsStay`, both for an up-to-date
  cache of ConfigMaps;
  `SignedIsWhatRuns`, `SignedBeforeDeployed`, `SignedKeepsVerdict`; `SignedInTheEnd`.

Runs that show a disagreement with the documentation or with the code's own comments and messages:

* `image_edit`: the build hash does not cover the output image, so after an edit of `containerImage`
  alone the old Build counts and the DaemonSet gets an image nobody pushed.
* `two_daemonsets`: after a kernel change the old DaemonSet's pod takes away the label the new
  DaemonSet's ready pod has set.
* `lost_requeue`: `checkPreflightCompletion` reads statuses from a cache that does not have them yet, so
  nobody asks for the reconciliation that would notice a new ConfigMap.
* `shared_mappings`: writing the first cluster's ManifestWork removes the build sections from the mappings that
  the loop uses for the next cluster, whose ManifestWork is then written without its image.
* `omitted_files`: without `filesToSign` the tool exits with status 0 at once, its Job succeeds and the
  DaemonSet gets an image nobody pushed; the API says that all kernel modules are signed then.

Noticed while modelling and not given a run: a device plugin removed from the spec keeps its DaemonSet
(`handleDevicePlugin` returns, `GarbageCollect` skips it); a node with a `NoSchedule` taint counts as
not running its kernel when DaemonSets are collected, while `deploy_kmod.md` line 49 speaks of kernels
"not run by any node in the cluster"; the label patch is empty when the cached node is older than the last patch
(`LabelNeverOrphaned` does not hold then, which is why it speaks of nodes read as they are);
a node deleted for good makes the finalizer of its pods stay; lists come from informer caches and names are generated, so
that a list older than the last creation makes the operator create a second object. For DaemonSets that is two for one
kernel, against `deploy_kmod.md` line 5 ("one ModuleLoader DaemonSet per compatible kernel version"), after which
`ModuleDaemonSetsByKernelVersion` fails for ever: with `daemonsets` in `Lagging` TLC refutes `ImplementsRollout` in this
way. For Builds and Jobs, with `builds` or `jobs` in `Lagging`, it refutes `OneBuildAndJobPerKernel`; for CA ConfigMaps,
with `CacheLags = TRUE`, `OneConfigMapPerType`, and `MountedConfigMapsStay` as well, because owners are patched from the
cached copy; a restart loses the release's entry of the Driver Toolkit
mapping, which is only read while the PreflightValidation does not exist, so that builds from the
Driver Toolkit fail from then on (`ValidatedInTheEnd` does not count such Modules); a preflight Build that was not
pushed has the same labels and hash as the Module's own; an error of one cluster is retried by the hub only at
the next event or resync; a selected cluster whose kernels lose their mappings keeps the last ManifestWork;
`WalkFilesInImage` takes any error of a layer's stream for its end (`BrokenReads`), so that an older version of a file may be
signed; it ignores whiteouts, so a listed file that a higher layer removed comes back signed; `VerifyModuleExists`
compares names as spelled, so that it misses `./opt/...`; the unload command repeats the firmware removal after each
raw argument.

Bounds: `MaxChanges`, `MaxFaults`, `MaxFlips` cap the environment; two kernels, two
generated names and one or two nodes suffice for duplicates, swaps and one kernel blocking another, since
objects of different kernels only meet in the loop's order, the garbage collection and `dsByKernel`. In `signing`
`MaxFailures` counts failures of operator and tool together; `MaxCMs` and two runs of the tool are more than one
change and one failure can use up; two kernel modules, of which one is in two layers and one removed and added again,
cover what a file can meet in the layers. `CHECK_DEADLOCK FALSE`:
the operator rests once nothing changes. Symmetry over generated names is used in safety runs only.

Fairness: the queue runs what is queued and every call ends (`WF` of `Reconcile`), watches deliver (`WF`
of `Deliver`), the informers resynchronise (controller-runtime's default period of ten hours),
cluster controllers finish their work (`WF` of `Cluster`). `SF` of `HandleBuild(k)`: Go ranges over
`mldMappings` in random order, so a kernel is not always behind one that fails. In `PodNodeModule` the work
queue is fair to each pod and kubelets stop deleted pods; nothing makes a pod ready or a node return.
`Preflight` has no resync: the generation predicate drops it; instead a request that asked for it, or failed, runs
again. `Hub` relies on the resync as `ModuleReconciler` does, and on the spokes' agents and claims.
`Signing`: the work queue passes over no Module (`SF` of `GetModule`), the caches are
refreshed, the resync comes, Job controller, kubelet, tool and garbage collector go on; nothing makes a failed
Job run again, so `SignedInTheEnd` leaves out Jobs that a fault made fail.
In `Hub` which of the free names a Build gets is fixed, and a resync during a reconciliation is put after it;
neither is observable.

## 5. Proofs

All for arbitrary sets of kernels, nodes, clusters, Modules, names, specs, pods, files and layers, and arbitrary bounds.
Every invariant and safety action property of the passing runs is a theorem, except for three that rest on up-to-date
lists alone (at the end of this section). Where a theorem has a condition, the
condition is a formula about the constants or the caches, and the runs or this section say what goes wrong without it.

Type correctness, `TypeCorrect`, of `PodNodeModule`, `ModuleReconciler`, `Preflight`, `Hub` and `Signing`. Each needs
the types of the controllers' local variables at each `pc` as well (`LocalsTyped` and the like). That the status of
`ModuleReconciler` is made of numbers needs that no DaemonSet reports more pods than there are nodes.

Label controller:
* `ReleaseSafety` and `LabelSafety`: `ReleaseIsFinal` and `LabelNeverOrphaned`. The latter
  is not inductive: a stale cached pod could label the node again after the pod was released. `ReleaseIsFinal`
  says that by then the cache and the copy in use show the deletion, and, where nodes are read as they are, that between
  unlabelling and releasing the label stays off. Whether nodes are read so never changes (`InStepIsRigid`).

Module reconciler and managers:
* `ImagesSafety` and `PushedSafety`: `DeployedImagesExist` and `PushedBeforeUse` for every lag of every cache. Conditions:
  `OneImagePerDockerfile`, a Dockerfile is always pushed to the same image (`image_edit` shows why), and `UserImagesPushed`,
  images that are neither built nor signed are there. The invariant carries what each `pc` has learnt about the registry,
  and for every Build and Job, cached or stored, that its phase tells the truth about the registry, which only grows.
* `RolloutRefinement`: `ImplementsRollout`, under the conditions of the two theorems before and if DaemonSets are read as
  they are (section 4 says why). A kernel's image is that of its
  DaemonSet (`RunningImage`). Besides their invariant the proof needs that a kernel has one DaemonSet at most
  (`OneEachInv`: a kernel still ahead of the loop with no entry in `dsByKernel` has none, because only the loop creates
  them and it visits a kernel once), and that the DaemonSet listed
  for a kernel at the start is still this kernel's when it is patched, unless it is gone (`ListedInv`); that
  rests on generated names not being used again while the reconciler knows them. Then `HandleDriverContainer` is a `RollOut`
  or changes nothing, the two garbage collections are a `Withdraw`, Builds and Jobs that end are a `Push`,
  and every other step leaves images and DaemonSets' images alone.
* `MissingSafety`: `BuildsOnlyMissingImages`. `ShouldSync` asks the registry steps before `Sync` creates the Build. The
  invariant says that if the image has arrived in between, it was a Build of the kernel that pushed it, and that Build is
  in the list as complete, so that `Sync` creates none. Conditions: Builds are read as they are, and
  `SignedImagesOwn`, no spec signs into an image that another spec builds. Without the latter TLC finds a behaviour of 40
  steps in which a signing Job started before an edit pushes the image meanwhile.

Signing:
* `SignedFirst`: `SignedBeforeDeployed`, with `FilesListed` (a list of files is given; `omitted_files` shows why).
  The invariant follows the tool from step to step: listed files are to be found or signed, what is about to be pushed is
  an unsigned image with the listed files signed (`SignedFrom`), an exit with status 0 comes after the
  push, and a Job succeeds only with such an exit.
* `SignedRuns`: `SignedIsWhatRuns`, with `PlainLayers`: layers are read to their end (section 4 says what happens
  otherwise), and a layer has one entry for a path, since runtimes do not agree on which of two counts. The walk from
  the top layer down meets the copy that a container would see first. Files that were removed and come back are not
  part of the property.
* `VerdictKept`: `SignedKeepsVerdict`, if the path preflight looks for is not in the spelling the tool adds files under;
  `VerifyModuleExists` builds it without the leading `/`.

Preflight:
* `VerifiedSafety`: `VerifiedStaysVerified`, and `DoneSafety`: `DoneIsVerified`. The invariant relates the copy of the
  status in use to the stored one: as long as the API server would accept a write from it, it has every verdict the stored
  one has; other writes are refused; and the Modules still to be checked have no verdict in it.
* `VerdictSafety`: `VerifiedImagesArePushed`, with `OneImagePerDockerfile`. The argument of `ImagesSafety`, for the
  Builds and Jobs of a validation, which push only if the validation says so. Whether it does never changes, so the
  invariant is one for each value of `pushBuiltImage`. A verdict whose write was refused stays in the copy and is written by a
  later one: the invariant says that it is still true then.

Hub:
* `WorkSafety`: `ManifestWorkAfterImages`, with `OneImagePerDockerfile` and sections that are not in the shared mappings
  (`~MappingLevel`; `shared_mappings` shows why). The invariant: completed Builds and Jobs, stored or cached, have
  pushed, and the images of the kernels that the loop of a cluster has left behind without an error are there.

The assumptions on constants (`ObjectAssumption`, `StatusAssumption` and so on) only say that markers such as
`Absent` differ from the values they stand beside and that sets which the code stores are finite.
The attempts to prove type correctness found two wrong type invariants, one of `Signing` and one of
`Hub`, in which operators bound otherwise than they were laid out; `TypeOK` of `Signing` had therefore said too little.
The count of pods in the status of `ModuleReconciler` is written as the size of a set of pods (`AvailablePods`),
because a fold over a set cannot be reasoned about here without induction.

Only model-checked: liveness (`Converges`, `StatusConverges`, `NothingLeftBehind`,
`DeployedDespiteFailures`, `DeletedPodsGo`, `ValidatedInTheEnd`, `OCPStatusFollows`,
`SpokesFollow`, `HubStatusConverges`, `SignedInTheEnd`), which is out of this prover's reach; and
`OneBuildAndJobPerKernel`, `OneConfigMapPerType` and `MountedConfigMapsStay`. The runs check the latter three against
replacement, deletion, failures and crashes, but a theorem would have to assume that the lists they rest on are
up to date, which informer caches do not promise (section 4). What the violation runs refute is of course not proved.

## 6. Not modelled

The registry's and the API server's protocols (manifest lists, TLS, key chains of service accounts), cryptography,
metrics, events and log messages, start-up wiring, generated code, and the must-gather and bundle
manifests: nothing the controllers decide depends on them. The kernel mapper's regular expressions and templates
and the loader's modprobe command lines are string handling without state, which unit tests reach.
Images never disappear from the registry in the model; in `Signing` the signed image
is only written by the tool. Edits of a
PreflightValidation, its manual creation, and the finalizers of ManifestWorks are left out.
