-------------------------- MODULE WorkloadsProofs --------------------------
(***************************************************************************)
(* Lemmas about the managers' Sync that the proofs about the Module         *)
(* reconciler, the preflight validation and the hub share.                  *)
(***************************************************************************)
EXTENDS Workloads, FiniteSetTheorems, TLAPS

\* When a helper lists neither no object nor several, it works on one of them.
LEMMA TheOnlyIsListed ==
  ASSUME NEW objs, DOMAIN objs = Names, NEW k,
         ForKernel(objs, k) # {}, ~ (Cardinality(ForKernel(objs, k)) > 1)
  PROVE  TheOnly(ForKernel(objs, k)) \in ForKernel(objs, k)
<1> DEFINE S == ForKernel(objs, k)
<1>1. IsFiniteSet(S)
  <2>1. S \in SUBSET Names
    BY DEF ForKernel, Existing
  <2> QED
    BY <2>1, FS_Subset, ModuleDataAssumption
<1>2. Cardinality(S) = 1
  BY <1>1, FS_CardinalityType, FS_EmptySet
<1>3. \E n \in S : S = {n}
  BY <1>1, <1>2, FS_Singleton
<1> QED
  BY <1>3 DEF TheOnly

\* The Build that buildManager.Sync reports as completed is of the spec's Dockerfile.
LEMMA CompletedBuild ==
  ASSUME NEW s, NEW k, NEW push, NEW builds, DOMAIN builds = Names,
         BuildSync(s, k, push, builds) = "completed"
  PROVE  \E b \in Names : /\ builds[b] # Absent /\ builds[b].kernel = k
                          /\ builds[b].hash = s.dockerfile
                          /\ builds[b].phase = "Complete"
<1> DEFINE found == ForKernel(builds, k)
           b     == TheOnly(found)
<1>1. /\ found # {} /\ ~ (Cardinality(found) > 1)
      /\ ~ isBuildChanged(builds[b], MakeBuildTemplate(s, k, push))
      /\ builds[b].phase = "Complete"
  BY DEF BuildSync, BuildStatus
<1>2. b \in found
  BY <1>1, TheOnlyIsListed
<1>3. builds[b].hash = s.dockerfile
  BY <1>1 DEF isBuildChanged, MakeBuildTemplate
<1> HIDE DEF b
<1>4. b \in Names /\ builds[b] # Absent /\ builds[b].kernel = k
  BY <1>2 DEF ForKernel, Existing
<1> QED
  BY <1>1, <1>3, <1>4

\* The Job that signJobManager.Sync reports as completed reads and pushes the images
\* of this spec.
LEMMA CompletedJob ==
  ASSUME NEW s, NEW k, NEW push, NEW jobs, DOMAIN jobs = Names,
         SignSync(s, k, push, jobs) = "completed"
  PROVE  \E j \in Names : /\ jobs[j] # Absent
                          /\ jobs[j].hash = MakeJobTemplate(s, k, push).hash
                          /\ jobs[j].phase = "Succeeded"
<1> DEFINE found == ForKernel(jobs, k)
           j     == TheOnly(found)
<1>1. /\ found # {} /\ ~ (Cardinality(found) > 1)
      /\ ~ IsJobChanged(jobs[j], MakeJobTemplate(s, k, push))
      /\ jobs[j].phase = "Succeeded"
  BY DEF SignSync, GetJobStatus
<1>2. j \in found
  BY <1>1, TheOnlyIsListed
<1>3. jobs[j].hash = MakeJobTemplate(s, k, push).hash
  BY <1>1 DEF IsJobChanged
<1> HIDE DEF j
<1>4. j \in Names /\ jobs[j] # Absent
  BY <1>2 DEF ForKernel, Existing
<1> QED
  BY <1>1, <1>3, <1>4

\* The managers' Sync creates an object only when it lists none for the kernel.
LEMMA SyncCreates ==
  ASSUME NEW s, NEW k, NEW push, NEW objs, ForKernel(objs, k) # {}
  PROVE  /\ BuildSync(s, k, push, objs) # "create"
         /\ SignSync(s, k, push, objs) # "create"
<1> DEFINE x == objs[TheOnly(ForKernel(objs, k))]
<1>1. BuildStatus(x) # "create" /\ GetJobStatus(x) # "create"
  BY DEF BuildStatus, GetJobStatus
<1>2. BuildSync(s, k, push, objs) \in {"error", "delete", BuildStatus(x)}
  BY DEF BuildSync, isBuildChanged
<1>3. SignSync(s, k, push, objs) \in {"error", "delete", GetJobStatus(x)}
  BY DEF SignSync, IsJobChanged
<1> QED
  BY <1>1, <1>2, <1>3

\* Every image a spec names is an image.
LEMMA ImagesTyped ==
  ASSUME NEW s \in Specs, NEW k \in Kernels
  PROVE  /\ ContainerImage(s, k) \in ImageRef /\ SignSource(s, k) \in ImageRef
         /\ BuildTarget(s, k) \in ImageRef
<1>1. s.image \in Images
  BY ModuleDataAssumption DEF ModuleSpec
<1> QED
  BY <1>1 DEF BuildTarget, ContainerImage, IntermediateImageName, SignSource, ImageRef

\* The managers' templates are objects of their kinds.
LEMMA TemplatesTyped ==
  ASSUME NEW s \in Specs, NEW k \in Kernels, NEW push \in BOOLEAN
  PROVE  /\ MakeBuildTemplate(s, k, push) \in Build
         /\ ShouldBeSigned(s) => MakeJobTemplate(s, k, push) \in SignJob
<1>1. s.dockerfile \in Dockerfiles /\ s.sign \in SignConfigs \cup {NoSign}
  BY ModuleDataAssumption DEF ModuleSpec
<1>2. /\ BuildTarget(s, k) \in ImageRef /\ ContainerImage(s, k) \in ImageRef
      /\ SignSource(s, k) \in ImageRef
  BY ImagesTyped
<1> QED
  BY <1>1, <1>2 DEF MakeBuildTemplate, Build, BuildPhase, MakeJobTemplate, SignJob,
     SignHash, JobPhase, ShouldBeSigned

\* The phase of a Build or a Job is written.
LEMMA PhaseWritten ==
  /\ \A x \in Build, p \in BuildPhase :
        [x EXCEPT !.phase = p] \in Build /\ x.output \in ImageRef \cup {Absent}
  /\ \A x \in SignJob, p \in JobPhase :
        [x EXCEPT !.phase = p] \in SignJob /\ x.hash[3] \in ImageRef \cup {Absent}
BY DEF Build, SignJob, SignHash

=============================================================================
