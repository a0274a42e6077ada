---------------------------- MODULE ModuleData ----------------------------
(***************************************************************************)
(* The data every part of the Module pipeline shares: the Module as users  *)
(* write it, the images it names, the API objects the operator creates for *)
(* it and the nodes it targets.  Everything a property does not tell apart *)
(* (names, volumes, secrets, tolerations) is left out.                     *)
(***************************************************************************)
EXTENDS Integers, FiniteSets, FiniteSetsExt, Functions

CONSTANTS
    Kernels,           \* kernel versions
    Nodes,             \* cluster nodes
    Names,             \* names the API server generates for created objects
    DevicePluginName,  \* "<module>-device-plugin", the one fixed DaemonSet name
    Images,            \* values of a kernel mapping's containerImage template
    Dockerfiles,       \* Dockerfile contents, up to the hash of the code
    SignConfigs,       \* sign sections (keys and files to sign)
    Specs,             \* the Module specs users may write
    Absent,            \* no such object
    NoSign,            \* no sign section
    NoKernel           \* the kernel label of the device plugin DaemonSet: ""

ModuleSpec ==
    [image : Images, dockerfile : Dockerfiles, build : BOOLEAN,
     sign : SignConfigs \cup {NoSign}, devicePlugin : BOOLEAN,
     kernels : SUBSET Kernels]

ASSUME ModuleDataAssumption ==
    /\ Specs \subseteq ModuleSpec
    /\ IsFiniteSet(Kernels) /\ IsFiniteSet(Nodes) /\ IsFiniteSet(Names)
    /\ DevicePluginName \notin Names
    /\ Absent \notin Names \cup {DevicePluginName}
    /\ NoKernel \notin Kernels
    /\ NoSign \notin SignConfigs

-----------------------------------------------------------------------------
(* Image references.  A containerImage is a template over the kernel        *)
(* version, so every kernel has an image of its own.                        *)

ImageRef == Images \X Kernels \X {"final", "unsigned", "source"}

ContainerImage(s, k) == <<s.image, k, "final">>

IntermediateImageName(s, k) == <<s.image, k, "unsigned">>

ShouldBeBuilt(s) == s.build

ShouldBeSigned(s) == s.sign # NoSign

\* The image a build pushes: the signing step produces the final one.
BuildTarget(s, k) ==
    IF ShouldBeSigned(s) THEN IntermediateImageName(s, k)
                         ELSE ContainerImage(s, k)

\* The image the signing job reads: what was built, or sign.unsignedImage.
SignSource(s, k) ==
    IF ShouldBeBuilt(s) THEN IntermediateImageName(s, k)
                        ELSE <<s.image, k, "source">>

-----------------------------------------------------------------------------
(* API objects.                                                             *)

DaemonSetNames == Names \cup {DevicePluginName}

DSKernels == Kernels \cup {NoKernel}

DaemonSet ==
    [kernel : DSKernels, image : ImageRef \cup {Absent},
     available : 0..Cardinality(Nodes)]

BuildPhase == {"New", "Complete", "Failed"}

Build ==
    [kernel : Kernels, hash : Dockerfiles, output : ImageRef \cup {Absent},
     phase : BuildPhase]

JobPhase == {"New", "Active", "Succeeded", "Failed"}

SignHash == SignConfigs \X ImageRef \X (ImageRef \cup {Absent})

SignJob == [kernel : Kernels, hash : SignHash, phase : JobPhase]

ModuleStatus ==
    [matching : Nat, desired : Nat, available : Nat, devicePlugin : Nat]

Module == [spec : Specs, status : ModuleStatus]

\* An object or an image is not the absence of one.
ASSUME ObjectAssumption == Absent \notin Build \cup DaemonSet \cup ImageRef

Existing(objs) == {n \in DOMAIN objs : objs[n] # Absent}

-----------------------------------------------------------------------------
(* Nodes.  A node is gone, out of the Module's selector, selected but       *)
(* carrying a NoSchedule taint, or selected and schedulable.  kernel is     *)
(* status.nodeInfo.kernelVersion; label is the operator's kernel label.     *)

NodeState == {"gone", "unselected", "tainted", "ready"}

Node == [state : NodeState, kernel : Kernels, label : Kernels \cup {Absent}]

MatchesSelector(nd) == nd.state \in {"tainted", "ready"}

isNodeSchedulable(nd) == nd.state # "tainted"

getNodesListBySelector(nodes) ==
    {n \in Nodes : MatchesSelector(nodes[n]) /\ isNodeSchedulable(nodes[n])}

\* getRelevantKernelMappingsAndNodes: the nodes whose kernel has a mapping and
\* the kernels they run, the keys of mldMappings.
NodesWithMapping(s, nodes) ==
    {n \in getNodesListBySelector(nodes) : nodes[n].kernel \in s.kernels}

RelevantKernels(s, nodes) == {nodes[n].kernel : n \in NodesWithMapping(s, nodes)}

=============================================================================
