------------------------------ MODULE Signing ------------------------------
(***************************************************************************)
(* Signing in a namespace of its own: the reconciler synchronises the CA     *)
(* ConfigMaps (CAConfigMaps), asks the registry for the signed image, creates *)
(* the Job that mounts the ConfigMaps and runs the signing tool (SignImage),  *)
(* and deploys the image when the Job has succeeded.                         *)
(*                                                                          *)
(* One Module of the namespace, Signer, has a sign section; the others only  *)
(* share the ConfigMaps, and may be deleted.  Jobs are read as they are (ModuleReconciler has     *)
(* stale ones), and a Job has one pod, which runs once.                       *)
(***************************************************************************)
EXTENDS CAConfigMaps, SignImage

CONSTANTS
    Signer,
    ModuleSigns,  \* the sign sections Signer's container may have,
    MappingSigns, \* and those of its kernel mapping
    NoSection,    \* no such section
    Target,       \* the image the kernel mapping names
    SourceImages, \* what the unsigned image may be
    InitImages,   \* what it is at the start
    ModulePath,   \* where preflight looks for the kernel module
    MaxFailures,  \* bound on failures of either kind together
    NoJob

Section == [unsignedImage : ImageNames \cup {NoImage}, files : SUBSET Files]

\* The section of the kernel mapping wins, and adds to the list of files.
GetRelevantSign(moduleSign, mappingSign) ==
    CASE moduleSign = NoSection  -> mappingSign
      [] mappingSign = NoSection -> moduleSign
      [] OTHER -> [unsignedImage |-> IF mappingSign.unsignedImage # NoImage
                                     THEN mappingSign.unsignedImage
                                     ELSE moduleSign.unsignedImage,
                   files |-> moduleSign.files \cup mappingSign.files]

ASSUME SigningAssumption ==
    /\ Signer \in Mods
    /\ ModuleSigns \cup MappingSigns \subseteq Section \cup {NoSection}
    /\ NoSection \notin Section /\ Target \in ImageNames
    /\ \A s \in ModuleSigns, t \in MappingSigns :
          /\ {s, t} # {NoSection}
          /\ GetRelevantSign(s, t).unsignedImage \notin {NoImage, Target}
    /\ SourceImages \subseteq Image /\ InitImages \subseteq SourceImages
    /\ ModulePath \in Files
    /\ MaxFailures \in Nat

VARIABLES
    sections, \* the sign sections
    jobs,     \* the Jobs
    deployed  \* whether the DaemonSet runs the signed image

vars == <<caVars, signVars, sections, jobs, deployed>>

\* MakeJobTemplate: the arguments of the tool.
args ==
    LET sign == GetRelevantSign(sections.module, sections.mapping)
    IN  [source |-> sign.unsignedImage, target |-> Target, push |-> TRUE,
         files |-> sign.files]

Job == [phase : {"New", "Active", "Succeeded", "Failed"},
        ca : [CATypes -> CMNames]]

TypeOK ==
    /\ mods \in SUBSET Mods /\ queue \in SUBSET Mods
    /\ cms \in [CMNames -> ConfigMap \cup {NoCM}]
    /\ cmCache \in [CMNames -> ConfigMap \cup {NoCM}]
    /\ pc \in {"idle", "cluster", "ownCluster", "service", "ownService",
               "synced", "signSync", "driver", "collect"}
    /\ cur \in Mods \cup {NoMod} /\ (pc # "idle" => cur \in Mods)
    /\ created \in 0..MaxCMs /\ \A c \in CMNames : c > created => cms[c] = NoCM
    /\ name \in CMNames \cup {NoCM} /\ copy \in ConfigMap \cup {NoCM}
    /\ name \in CMNames <=> copy \in ConfigMap
    /\ changes \in 0..MaxChanges /\ errors \in 0..MaxErrors
    /\ images \in [ImageNames -> Image \cup {NoImage}]
    /\ proc \in [Runs -> Process] /\ faults \in 0..MaxFaults
    /\ sections \in [module : ModuleSigns, mapping : MappingSigns] /\ args \in Args
    /\ jobs \in [Runs -> Job \cup {NoJob}] /\ deployed \in BOOLEAN

Init ==
    /\ CAInit
    /\ sections \in [module : ModuleSigns, mapping : MappingSigns]
    /\ \E img \in InitImages :
          images = [i \in ImageNames |-> IF i = args.source THEN img ELSE NoImage]
    /\ proc = [r \in Runs |-> NewProcess(args)]
    /\ faults = 0
    /\ jobs = [r \in Runs |-> NoJob]
    /\ deployed = FALSE

-----------------------------------------------------------------------------
(* The rest of Reconcile.                                                   *)

\* A step of CAConfigMaps.
CAOnly(A) ==
    /\ A /\ faults + errors' <= MaxFailures
    /\ UNCHANGED <<signVars, sections, jobs, deployed>>

ModuleJobs == {r \in Runs : jobs[r] # NoJob}

\* ShouldSync of the signing job manager: the registry is asked for the signed
\* image.  A Module without a sign section is done here.
SignShouldSync ==
    /\ At("synced")
    /\ \/ cur # Signer /\ Return(FALSE)
       \/ /\ cur = Signer
          /\ pc' = IF images[args.target] = NoImage THEN "signSync" ELSE "driver"
          /\ UNCHANGED <<cur, name, copy, queue>>
    /\ UNCHANGED <<mods, cms, cmCache, created, changes, errors, signVars, sections, jobs,
                   deployed>>

\* Mutant: the ConfigMaps do not count for the hash.
TemplateChangedNever(job) == FALSE

\* MakeJobTemplate: the ConfigMaps are volumes of the pod, so the hash covers
\* their names.
TemplateChanged(job) == job.ca # [t \in CATypes |-> GetCA(t)]

\* The next Job, under a generated name, and its only execution.
FreeRuns == {r \in Runs : jobs[r] = NoJob /\ proc[r].pc = "new"}
NewRun == CHOOSE r \in FreeRuns : TRUE

CreateJob ==
    /\ FreeRuns # {}
    /\ jobs' = [jobs EXCEPT ![NewRun] = [phase |-> "New",
                                         ca |-> [t \in CATypes |-> GetCA(t)]]]
    /\ pc' = "collect"

\* Sync of the signing job manager.  A missing or ambiguous ConfigMap, two Jobs
\* or a Job without a status fail the reconciliation; anything but a completed
\* Job ends the handling of the kernel.
SignSync ==
    LET job == jobs[TheOne(ModuleJobs)]
        found == \A t \in CATypes : HasCA(t)
    IN  /\ At("signSync")
        /\ \/ found /\ ModuleJobs = {} /\ CreateJob /\ UNCHANGED <<cur, name, copy, queue>>
           \/ /\ found /\ Cardinality(ModuleJobs) = 1 /\ TemplateChanged(job)
              /\ jobs' = [jobs EXCEPT ![TheOne(ModuleJobs)] = NoJob]
              /\ queue' = queue \cup {cur}
              /\ pc' = "collect"
              /\ UNCHANGED <<cur, name, copy>>
           \/ /\ found /\ Cardinality(ModuleJobs) = 1 /\ ~ TemplateChanged(job)
              /\ job.phase # "New"
              /\ pc' = IF job.phase = "Succeeded" THEN "driver" ELSE "collect"
              /\ UNCHANGED <<jobs, cur, name, copy, queue>>
           \/ /\ \/ ~ found
                 \/ Cardinality(ModuleJobs) > 1
                 \/ /\ found /\ Cardinality(ModuleJobs) = 1
                    /\ ~ TemplateChanged(job) /\ job.phase = "New"
              /\ Return(TRUE) /\ UNCHANGED jobs
        /\ UNCHANGED <<mods, cms, cmCache, created, changes, errors, signVars, sections,
                       deployed>>

\* The DaemonSet is created with the signed image's name.
HandleDriverContainer ==
    /\ At("driver")
    /\ deployed' = TRUE
    /\ pc' = "collect"
    /\ UNCHANGED <<mods, cms, cmCache, created, queue, cur, name, copy, changes, errors,
                   signVars, sections, jobs>>

\* GarbageCollect of the signing job manager deletes the Jobs that succeeded.
GarbageCollectJobs ==
    /\ At("collect")
    /\ jobs' = [r \in Runs |-> IF jobs[r] # NoJob /\ jobs[r].phase = "Succeeded"
                               THEN NoJob ELSE jobs[r]]
    /\ Return(FALSE)
    /\ UNCHANGED <<mods, cms, cmCache, created, changes, errors, signVars, sections, deployed>>

Reconcile ==
    \/ CAOnly(Sync)
    \/ SignShouldSync \/ SignSync \/ HandleDriverContainer \/ GarbageCollectJobs

-----------------------------------------------------------------------------
(* Jobs and their pods.  Events of a Job queue its Module.                  *)

JobEvent(r, phase) ==
    /\ jobs' = [jobs EXCEPT ![r].phase = phase]
    /\ queue' = queue \cup {Signer}
    /\ UNCHANGED <<mods, cms, cmCache, created, worker, changes, errors, signVars, sections,
                   deployed>>

JobStarts(r) ==
    /\ jobs[r] # NoJob /\ jobs[r].phase = "New"
    /\ JobEvent(r, "Active")

\* The kubelet starts the container when the volumes can be mounted.
ContainerStarts(r) ==
    /\ jobs[r] # NoJob /\ jobs[r].phase = "Active" /\ proc[r].pc = "new"
    /\ \A t \in CATypes : cms[jobs[r].ca[t]] # NoCM
    /\ proc' = [proc EXCEPT ![r].pc = "args"]
    /\ UNCHANGED <<caVars, images, faults, sections, jobs, deployed>>

JobFinishes(r) ==
    /\ jobs[r] # NoJob /\ jobs[r].phase = "Active" /\ proc[r].pc = "exited"
    /\ JobEvent(r, IF proc[r].status = 0 THEN "Succeeded" ELSE "Failed")

\* The tool runs, also for a while after its Job was deleted.
ToolRuns(r) ==
    /\ main(r) /\ faults' + errors <= MaxFailures
    /\ UNCHANGED <<caVars, sections, jobs, deployed>>

ContainerKilled(r) ==
    /\ Killed(r) /\ faults' + errors <= MaxFailures
    /\ UNCHANGED <<caVars, sections, jobs, deployed>>

\* Background deletion removes the pod of a deleted Job.
PodRemoved(r) ==
    /\ jobs[r] = NoJob /\ proc[r].pc \in Running
    /\ Exit(r, 137)
    /\ UNCHANGED <<caVars, images, faults, sections, jobs, deployed>>

\* Somebody pushes another version of the unsigned image.
PushSource(img) ==
    /\ changes < MaxChanges /\ changes' = changes + 1
    /\ img # images[args.source]
    /\ images' = [images EXCEPT ![args.source] = img]
    /\ UNCHANGED <<mods, cms, cmCache, created, queue, worker, errors, proc, faults, sections,
                   jobs, deployed>>

Cluster ==
    \/ \E r \in Runs : \/ JobStarts(r) \/ ContainerStarts(r) \/ JobFinishes(r)
                       \/ ToolRuns(r) \/ PodRemoved(r)
    \/ \E c \in CMNames : CAOnly(CollectConfigMap(c))

Next ==
    \/ Reconcile
    \/ CAOnly(ReconcileError) \/ CAOnly(Restart)
    \/ CAOnly(DeliverConfigMaps) \/ CAOnly(Resync)
    \/ \E m \in Mods \ {Signer} : CAOnly(DeleteModule(m))
    \/ \E c \in CMNames : CAOnly(UserDeletesConfigMap(c))
    \/ Cluster
    \/ \E r \in Runs : ContainerKilled(r)
    \/ \E img \in SourceImages : PushSource(img)

Spec == Init /\ [][Next]_vars

\* The work queue, which is served in order, passes over no Module; the watch
\* delivers, the resync period elapses; Job controller, kubelet, containers and
\* garbage collector get on with their work.
Fairness ==
    /\ WF_vars(Reconcile)
    /\ \A m \in Mods : SF_vars(CAOnly(GetModule(m)))
    /\ WF_vars(CAOnly(DeliverConfigMaps)) /\ WF_vars(CAOnly(Resync))
    /\ WF_vars(Cluster)

FairSpec == Spec /\ Fairness

-----------------------------------------------------------------------------
(* Properties.                                                              *)

\* A ConfigMap that the pod of an existing Module's Job mounts disappears only
\* if a user deletes it: not with another Module of the namespace, whatever
\* the reconciler was doing when that one was deleted.
MountedConfigMapsStay ==
    [][\A r \in Runs, t \in CATypes :
          /\ jobs[r] # NoJob
          /\ cms[jobs[r].ca[t]] # NoCM /\ cms'[jobs[r].ca[t]] = NoCM
          => changes' # changes]_vars

\* What the two sections list.
ListedFiles ==
    UNION {s.files : s \in {sections.module, sections.mapping} \ {NoSection}}

\* The kernel modules that have to be signed: the listed ones, "if ommited all
\* kmods" (api/v1beta1/module_types.go).
ToSign(img) ==
    IF ListedFiles # {} THEN ListedFiles
    ELSE {p \in Canonical \cap KoFiles : Mounted(img, p) # NoEntry}

\* A container started from the signed image sees the unsigned image's files,
\* in the versions one and the same push of it had, signed if they were to be;
\* nothing older that a higher layer replaced, and nothing else changed.
SignedIsWhatRuns ==
    images[args.target] # NoImage =>
       \E img \in SourceImages : \A p \in Canonical :
          LET before == Mounted(img, p)
              after  == Mounted(images[args.target], p)
          IN  IF p \notin ToSign(img) THEN after = before
              ELSE before # NoEntry => after = signFile(before)

\* The driver container is deployed only when its image is in the registry and
\* holds every kernel module to sign, signed: a Job that succeeded, whichever
\* way its program ended, has pushed it.
SignedBeforeDeployed ==
    deployed =>
       /\ images[args.target] # NoImage
       /\ \A p \in ToSign(images[args.target]) :
             /\ Mounted(images[args.target], p) \in Content
             /\ Mounted(images[args.target], p).signed

\* Preflight's search for the module comes out the same for the signed image as
\* for the image it was made from, although the new layer spells paths its own way.
SignedKeepsVerdict ==
    images[args.target] # NoImage =>
       \E img \in SourceImages :
          verifyImage(images[args.target], ModulePath) = verifyImage(img, ModulePath)

\* A sign section the tool can do its work with.
Signable ==
    /\ ListedFiles # {} /\ ListedFiles \subseteq Canonical
    /\ \A img \in SourceImages, p \in ListedFiles : Mounted(img, p) # NoEntry

\* Whatever happens to ConfigMaps, Modules and Jobs, the image is signed and
\* deployed in the end, unless a failure of the tool made its Job fail.
SignedInTheEnd ==
    <>[](/\ Signable
         /\ ~ (faults > 0 /\ \E r \in Runs : jobs[r] # NoJob /\ jobs[r].phase = "Failed")
         => deployed)

=============================================================================
