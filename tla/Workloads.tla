----------------------------- MODULE Workloads -----------------------------
(***************************************************************************)
(* The decisions of the three helpers the Module reconciler drives: the     *)
(* OpenShift build manager, the signing job manager and the DaemonSet       *)
(* creator.  They are functions of what the helper reads: the spec, the     *)
(* registry and the objects listed from the cache.                          *)
(***************************************************************************)
EXTENDS ModuleData

\* What Sync found for a kernel: nothing (so it creates the object), one
\* object, or more than one (an error).
ForKernel(objs, k) == {n \in Existing(objs) : objs[n].kernel = k}

TheOnly(S) == CHOOSE n \in S : S = {n}

-----------------------------------------------------------------------------
(* internal/build/buildconfig *)

\* Mutant: the registry is not asked.
BuildShouldSyncAlways(s, k, registry) == ShouldBeBuilt(s)

BuildShouldSync(s, k, registry) ==
    ShouldBeBuilt(s) /\ BuildTarget(s, k) \notin registry

\* Mutant: no hash annotation.
MakeBuildTemplateNoHash(s, k, pushImage) ==
    [kernel |-> k, hash |-> Absent, phase |-> "New",
     output |-> IF pushImage THEN BuildTarget(s, k) ELSE Absent]

\* Mutant: the build output is never set.
MakeBuildTemplateNoOutput(s, k, pushImage) ==
    [kernel |-> k, hash |-> s.dockerfile, phase |-> "New", output |-> Absent]

\* MakeBuildTemplate: the hash annotation covers the Dockerfile only.  Without
\* pushImage the build has no output.
MakeBuildTemplate(s, k, pushImage) ==
    [kernel |-> k, hash |-> s.dockerfile, phase |-> "New",
     output |-> IF pushImage THEN BuildTarget(s, k) ELSE Absent]

isBuildChanged(build, template) == build.hash # template.hash

\* What users owe the build manager, whose hash does not cover the image: a
\* Dockerfile is always pushed to the same one.  (Proofs assume it.)
OneImagePerDockerfile ==
    \A s, t \in Specs :
        ShouldBeBuilt(s) /\ ShouldBeBuilt(t) /\ s.dockerfile = t.dockerfile
            => \A k \in Kernels : BuildTarget(s, k) = BuildTarget(t, k)

\* A failed build is reported as an error.
BuildStatus(build) ==
    CASE build.phase = "Complete" -> "completed"
      [] build.phase = "New"      -> "inProgress"
      [] OTHER                    -> "error"

\* Mutant: a changed Build is not deleted before it is replaced.
BuildSyncReplaces(s, k, pushImage, builds) ==
    LET same == {b \in ForKernel(builds, k) :
                    ~ isBuildChanged(builds[b], MakeBuildTemplate(s, k, pushImage))}
        build == builds[TheOnly(same)]
    IN  CASE same = {} -> "create"
          [] Cardinality(same) > 1 -> "error"
          [] OTHER -> BuildStatus(build)

\* The result of buildManager.Sync, given the listed Builds of kernel k.
BuildSync(s, k, pushImage, builds) ==
    LET found == ForKernel(builds, k)
        build == builds[TheOnly(found)]
    IN  CASE found = {} -> "create"
          [] Cardinality(found) > 1 -> "error"
          [] OTHER -> IF isBuildChanged(build, MakeBuildTemplate(s, k, pushImage))
                      THEN "delete" ELSE BuildStatus(build)

-----------------------------------------------------------------------------
(* internal/sign/job and internal/utils/jobhelper.go *)

\* Mutant: the registry is asked for the image that is signed, not the result.
SignShouldSyncUnsigned(s, k, registry) ==
    ShouldBeSigned(s) /\ SignSource(s, k) \notin registry

SignShouldSync(s, k, registry) ==
    ShouldBeSigned(s) /\ ContainerImage(s, k) \notin registry

\* MakeJobTemplate: the hash covers the pod template, so the source and the
\* target image (if it is pushed), and the keys.
MakeJobTemplate(s, k, pushImage) ==
    [kernel |-> k, phase |-> "New",
     hash |-> <<s.sign, SignSource(s, k),
                IF pushImage THEN ContainerImage(s, k) ELSE Absent>>]

IsJobChanged(job, template) == job.hash # template.hash

\* A Job whose pod was not counted yet has no status GetJobStatus knows.
GetJobStatus(job) ==
    CASE job.phase = "Succeeded" -> "completed"
      [] job.phase = "Active"    -> "inProgress"
      [] job.phase = "Failed"    -> "failed"
      [] OTHER                   -> "error"

SignSync(s, k, pushImage, jobs) ==
    LET found == ForKernel(jobs, k)
        job   == jobs[TheOnly(found)]
    IN  CASE found = {} -> "create"
          [] Cardinality(found) > 1 -> "error"
          [] OTHER -> IF IsJobChanged(job, MakeJobTemplate(s, k, pushImage))
                      THEN "delete" ELSE GetJobStatus(job)

\* GarbageCollect deletes the Jobs that succeeded.
SucceededJobs(jobs) == {j \in Existing(jobs) : jobs[j].phase = "Succeeded"}

-----------------------------------------------------------------------------
(* internal/daemonset *)

IsDevicePluginKernelVersion(k) == k = NoKernel

\* ModuleDaemonSetsByKernelVersion fails when two DaemonSets share a kernel.
DuplicateKernel(dss) ==
    \E m, n \in Existing(dss) : m # n /\ dss[m].kernel = dss[n].kernel

\* Mutant: a DaemonSet counts for every kernel.
ModuleDaemonSetsByModule(dss) ==
    [k \in DSKernels |->
        IF Existing(dss) = {} THEN [name |-> Absent, available |-> 0]
        ELSE LET n == CHOOSE n \in Existing(dss) : TRUE
             IN  [name |-> n, available |-> dss[n].available]]

\* The map it returns otherwise: the DaemonSet of each kernel and its number
\* of available pods.
ModuleDaemonSetsByKernelVersion(dss) ==
    [k \in DSKernels |->
        IF ForKernel(dss, k) = {} THEN [name |-> Absent, available |-> 0]
        ELSE LET n == CHOOSE n \in ForKernel(dss, k) : TRUE
             IN  [name |-> n, available |-> dss[n].available]]

SetDriverContainerAsDesired(s, k) ==
    [kernel |-> k, image |-> ContainerImage(s, k), available |-> 0]

SetDevicePluginAsDesired ==
    [kernel |-> NoKernel, image |-> Absent, available |-> 0]

\* Mutant: those of the kernels in use.
UnneededDaemonSetsInUse(dsByKernel, validKernels) ==
    {dsByKernel[k].name :
        k \in {x \in DSKernels : /\ dsByKernel[x].name # Absent
                                 /\ ~ IsDevicePluginKernelVersion(x)
                                 /\ x \in validKernels}}

\* GarbageCollect deletes the listed driver-container DaemonSets of the
\* kernels that have no mapping left.
UnneededDaemonSets(dsByKernel, validKernels) ==
    {dsByKernel[k].name :
        k \in {x \in DSKernels : /\ dsByKernel[x].name # Absent
                                 /\ ~ IsDevicePluginKernelVersion(x)
                                 /\ x \notin validKernels}}

=============================================================================
