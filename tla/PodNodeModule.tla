--------------------------- MODULE PodNodeModule ---------------------------
(***************************************************************************)
(* controllers/pod_node_module_reconciler.go: the controller that labels a  *)
(* node while a pod of a Module's DaemonSets is ready on it, and holds the   *)
(* pod back with a finalizer until the label is removed.  The device plugin *)
(* DaemonSet selects its nodes by the label of the driver container.        *)
(*                                                                          *)
(* Pods of one Module are told apart by their DaemonSet, that is by their    *)
(* kernel label.  The controller reads pods and nodes from informer caches,  *)
(* and patches what differs from the cached copy.  The node cache may be in   *)
(* step with the API server all the time, or lag behind.                     *)
(***************************************************************************)
EXTENDS Integers, FiniteSets

CONSTANTS
    Nodes,
    Pods,
    NodeOf,         \* the node each pod is bound to
    KernelOf,       \* the kernel label of each pod; NoKernel: device plugin
    Kernels,
    NoKernel,
    NoPod,
    InStep,         \* the value of a node cache that never lags
    NodesLeave,     \* whether nodes may be deleted and created again
    MaxFlips,       \* bound on changes of pods' readiness
    MaxFaults       \* bound on failed API calls and operator crashes

Labels == {"ready", "device-plugin-ready"}

Node == [up : BOOLEAN, labels : SUBSET Labels]

ASSUME PodNodeModuleAssumption ==
    /\ NodeOf \in [Pods -> Nodes]
    /\ KernelOf \in [Pods -> Kernels \cup {NoKernel}]
    /\ NoPod \notin Pods
    /\ NodesLeave \in BOOLEAN /\ InStep \notin [Nodes -> Node]
    /\ MaxFlips \in Nat /\ MaxFaults \in Nat

VARIABLES
    pods,       \* pods as the API server has them
    podCache,   \* pods as the controller's informer has seen them
    pending,    \* pods with an event on its way that passes the predicates
    nodes,      \* nodes as the API server has them
    nodeCache,  \* nodes as the controller's informer has seen them, or InStep
    queue,      \* the work queue
    pc, cur,    \* the step of the running reconciliation, and its pod
    snap,       \* the copy of the pod it works on
    flips, faults

cluster == <<pods, nodes>>
worker == <<pc, cur, snap>>
vars == <<pods, podCache, pending, nodes, nodeCache, queue, worker, flips, faults>>

Pod == [state : {"new", "live", "gone"}, ready : BOOLEAN, deleting : BOOLEAN,
        stopped : BOOLEAN, finalizer : BOOLEAN]

NewPod == [state |-> "new", ready |-> FALSE, deleting |-> FALSE,
           stopped |-> FALSE, finalizer |-> TRUE]

TypeOK ==
    /\ pods \in [Pods -> Pod] /\ podCache \in [Pods -> Pod]
    /\ pending \in SUBSET Pods /\ queue \in SUBSET Pods
    /\ nodes \in [Nodes -> Node] /\ nodeCache \in [Nodes -> Node] \cup {InStep}
    /\ pc \in {"idle", "label", "finalizer"}
    /\ cur \in Pods \cup {NoPod}
    /\ pc # "idle" => cur \in Pods
    /\ snap \in Pod
    /\ flips \in 0..MaxFlips /\ faults \in 0..MaxFaults

Init ==
    /\ pods = [p \in Pods |-> NewPod] /\ podCache = pods
    /\ pending = {} /\ queue = {}
    /\ nodes = [n \in Nodes |-> [up |-> TRUE, labels |-> {}]]
    /\ nodeCache \in {nodes, InStep}
    /\ pc = "idle" /\ cur = NoPod /\ snap = NewPod
    /\ flips = 0 /\ faults = 0

-----------------------------------------------------------------------------
(* The reconciler.                                                          *)

\* Mutant: the label is made of the kernel version.
KernelLabelFromPod(p) == KernelOf[p]

GetNodeLabelFromPod(p) ==
    IF KernelOf[p] = NoKernel THEN "device-plugin-ready" ELSE "ready"

SeenNode(n) == IF nodeCache = InStep THEN nodes[n] ELSE nodeCache[n]

Finish ==
    pc' = "idle" /\ cur' = NoPod /\ snap' = NewPod

\* Reconcile starts with the cached pod; one that is gone needs nothing.
GetPod(p) ==
    /\ pc = "idle" /\ p \in queue
    /\ queue' = queue \ {p}
    /\ \/ /\ podCache[p].state = "live"
          /\ pc' = "label" /\ cur' = p /\ snap' = podCache[p]
       \/ podCache[p].state # "live" /\ UNCHANGED worker
    /\ UNCHANGED <<cluster, podCache, pending, nodeCache, flips, faults>>

\* addLabel and deleteLabel: change the cached node, patch the difference.
Patched(n, wanted, l) ==
    IF wanted <=> l \in SeenNode(n).labels THEN nodes[n]
    ELSE [nodes[n] EXCEPT !.labels = IF wanted THEN @ \cup {l} ELSE @ \ {l}]

\* Mutant: a ready pod that is being deleted labels its node.
SetLabelWhileDeleting ==
    LET n == NodeOf[cur]
    IN  /\ pc = "label" /\ SeenNode(n).up /\ nodes[n].up
        /\ nodes' = [nodes EXCEPT ![n] =
                         Patched(n, snap.ready, GetNodeLabelFromPod(cur))]
        /\ IF snap.deleting THEN pc' = "finalizer" /\ UNCHANGED <<cur, snap>>
                            ELSE Finish
        /\ UNCHANGED <<queue, pods, podCache, pending, nodeCache, flips, faults>>

\* Mutant: the finalizer is removed from every pod that is not ready.
SetLabelReleasesUnready ==
    LET n == NodeOf[cur]
    IN  /\ pc = "label" /\ SeenNode(n).up /\ nodes[n].up
        /\ nodes' = [nodes EXCEPT ![n] =
                         Patched(n, snap.ready, GetNodeLabelFromPod(cur))]
        /\ IF snap.ready THEN Finish
                         ELSE pc' = "finalizer" /\ UNCHANGED <<cur, snap>>
        /\ UNCHANGED <<queue, pods, podCache, pending, nodeCache, flips, faults>>

\* A pod that is ready and not being deleted labels its node, any other one
\* unlabels it, and goes on to its finalizer when it is being deleted.  A node
\* that is not found fails the reconciliation.
SetLabel ==
    LET n == NodeOf[cur]
    IN  /\ pc = "label"
        /\ \/ /\ SeenNode(n).up /\ nodes[n].up
              /\ nodes' = [nodes EXCEPT ![n] =
                     Patched(n, snap.ready /\ ~ snap.deleting,
                             GetNodeLabelFromPod(cur))]
              /\ IF snap.deleting THEN pc' = "finalizer" /\ UNCHANGED <<cur, snap>>
                                  ELSE Finish
              /\ UNCHANGED queue
           \/ /\ ~ (SeenNode(n).up /\ nodes[n].up)
              /\ queue' = queue \cup {cur} /\ Finish
              /\ UNCHANGED nodes
        /\ UNCHANGED <<pods, podCache, pending, nodeCache, flips, faults>>

\* Without the finalizer a stopped pod disappears.
WithoutFinalizer(pod) ==
    [pod EXCEPT !.finalizer = FALSE,
                !.state = IF pod.stopped THEN "gone" ELSE "live"]

\* deleteFinalizer, NotFound ignored.
DeleteFinalizer ==
    /\ pc = "finalizer"
    /\ \/ /\ pods[cur].state = "live"
          /\ pods' = [pods EXCEPT ![cur] = WithoutFinalizer(@)]
          /\ pending' = pending \cup {cur}
       \/ pods[cur].state # "live" /\ UNCHANGED <<pods, pending>>
    /\ Finish
    /\ UNCHANGED <<nodes, podCache, nodeCache, queue, flips, faults>>

Reconcile == (\E p \in Pods : GetPod(p)) \/ SetLabel \/ DeleteFinalizer

\* Any call of a reconciliation may fail; the request is queued again.
ReconcileError ==
    /\ pc # "idle" /\ faults < MaxFaults
    /\ faults' = faults + 1
    /\ queue' = queue \cup {cur} /\ Finish
    /\ UNCHANGED <<cluster, podCache, pending, nodeCache, flips>>

\* The operator stops anywhere; a new one lists pods and nodes and queues every
\* pod it finds (the predicates let creations through).
Restart ==
    /\ faults < MaxFaults /\ faults' = faults + 1
    /\ podCache' = pods /\ pending' = {}
    /\ nodeCache' = IF nodeCache = InStep THEN InStep ELSE nodes
    /\ queue' = {p \in Pods : pods[p].state = "live"}
    /\ Finish
    /\ UNCHANGED <<cluster, flips>>

-----------------------------------------------------------------------------
(* Watches.  The predicates of SetupWithManager pass a change of readiness, *)
(* and any event of a pod that is being deleted.                            *)

\* Mutant: deletions are not watched.
ReadinessPredicate(old, new) == old.ready # new.ready

PodPredicate(old, new) == old.ready # new.ready \/ new.deleting

Notify(p) ==
    pending' = IF PodPredicate(pods[p], pods'[p]) THEN pending \cup {p} ELSE pending

\* One watch for all pods, so deliveries keep the order of the changes.
DeliverPods ==
    /\ podCache # pods \/ pending # {}
    /\ podCache' = pods
    /\ queue' = queue \cup pending
    /\ pending' = {}
    /\ UNCHANGED <<cluster, nodeCache, worker, flips, faults>>

DeliverNodes ==
    /\ nodeCache \notin {nodes, InStep}
    /\ nodeCache' = nodes
    /\ UNCHANGED <<cluster, podCache, pending, queue, worker, flips, faults>>

-----------------------------------------------------------------------------
(* DaemonSet controller, kubelet and node lifecycle.                        *)

controller == <<podCache, nodeCache, queue, worker, faults>>

\* A DaemonSet has one pod on a node: the next one is created when the previous
\* one is gone.  Those of the device plugin follow the driver container's label.
PodCreated(p) ==
    /\ pods[p].state = "new" /\ nodes[NodeOf[p]].up
    /\ \A q \in Pods : /\ NodeOf[q] = NodeOf[p] /\ KernelOf[q] = KernelOf[p]
                       => pods[q].state # "live"
    /\ KernelOf[p] = NoKernel => "ready" \in nodes[NodeOf[p]].labels
    /\ pods' = [pods EXCEPT ![p].state = "live"]
    /\ Notify(p)
    /\ UNCHANGED <<controller, nodes, flips>>

PodReadiness(p) ==
    /\ pods[p].state = "live" /\ ~ pods[p].stopped
    /\ flips < MaxFlips /\ flips' = flips + 1
    /\ pods' = [pods EXCEPT ![p].ready = ~ @]
    /\ Notify(p)
    /\ UNCHANGED <<controller, nodes>>

PodDeleted(p) ==
    /\ pods[p].state = "live" /\ ~ pods[p].deleting
    /\ pods' = [pods EXCEPT ![p].deleting = TRUE]
    /\ Notify(p)
    /\ UNCHANGED <<controller, nodes, flips>>

Stopped(pod) ==
    [pod EXCEPT !.stopped = TRUE, !.ready = FALSE,
                !.state = IF pod.finalizer THEN "live" ELSE "gone"]

PodStopped(p) ==
    /\ pods[p].state = "live" /\ pods[p].deleting /\ ~ pods[p].stopped
    /\ pods' = [pods EXCEPT ![p] = Stopped(@)]
    /\ Notify(p)
    /\ UNCHANGED <<controller, nodes, flips>>

NodeLeaves(n) ==
    /\ NodesLeave /\ nodes[n].up /\ flips < MaxFlips /\ flips' = flips + 1
    /\ nodes' = [nodes EXCEPT ![n] = [up |-> FALSE, labels |-> {}]]
    /\ UNCHANGED <<controller, pods, pending>>

NodeJoins(n) ==
    /\ ~ nodes[n].up
    /\ nodes' = [nodes EXCEPT ![n].up = TRUE]
    /\ UNCHANGED <<controller, pods, pending, flips>>

Next ==
    \/ Reconcile \/ ReconcileError \/ Restart
    \/ DeliverPods \/ DeliverNodes
    \/ \E p \in Pods : \/ PodCreated(p) \/ PodReadiness(p)
                       \/ PodDeleted(p) \/ PodStopped(p)
    \/ \E n \in Nodes : NodeLeaves(n) \/ NodeJoins(n)

Spec == Init /\ [][Next]_vars

\* The work queue serves every request, watches deliver, kubelets stop the pods
\* that are being deleted.  Nothing makes a pod ready, or a node come back.
Fairness ==
    /\ \A p \in Pods : SF_vars(GetPod(p)) /\ WF_vars(PodStopped(p))
    /\ WF_vars(SetLabel) /\ WF_vars(DeleteFinalizer)
    /\ WF_vars(DeliverPods) /\ WF_vars(DeliverNodes)

FairSpec == Spec /\ Fairness

-----------------------------------------------------------------------------
(* Properties.                                                              *)

\* Every label on a node has a pod answering for it: one of that label, bound to
\* the node, which still carries the finalizer, so that the label is removed
\* before the last such pod is let go.  (When the cached nodes lag, the patch that
\* removes the label may be empty.)
LabelNeverOrphaned ==
    nodeCache = InStep =>
    \A n \in Nodes : \A l \in nodes[n].labels :
        \E p \in Pods : /\ NodeOf[p] = n /\ GetNodeLabelFromPod(p) = l
                        /\ pods[p].state = "live" /\ pods[p].finalizer

\* The controller has let go of the pod: it will not look after its label again.
Released(p) == pods[p].state = "gone" \/ ~ pods[p].finalizer

\* Why no label is orphaned: what the controller's cache and its copy of a pod
\* still say about a pod it has released, or is about to release, is enough not
\* to label the node for it again.
ReleaseIsFinal ==
    /\ \A p \in Pods : /\ pods[p].state = "new" => pods[p] = NewPod
                       /\ pods[p].state = "new" => podCache[p] = NewPod
                       /\ podCache[p].state = "new" => ~ podCache[p].deleting
                       /\ podCache[p].deleting => pods[p].deleting
                       /\ Released(p) => pods[p].deleting
                       /\ Released(p) => podCache[p].deleting
    /\ pc # "idle" =>
          /\ pods[cur].state # "new"
          /\ snap.deleting => podCache[cur].deleting
          /\ ~ snap.deleting => ~ Released(cur)
    /\ pc = "finalizer" => snap.deleting
    /\ pc = "finalizer" /\ nodeCache = InStep =>
          GetNodeLabelFromPod(cur) \notin nodes[NodeOf[cur]].labels

\* A pod that is being deleted is not held back for ever by the finalizer, unless
\* its node has left for good: then deleteLabel fails each time.
DeletedPodsGo ==
    \A p \in Pods :
        pods[p].deleting ~> (pods[p].state = "gone" \/ [](~ nodes[NodeOf[p]].up))

\* Once pods stop changing, a node carries a label exactly when one of its pods
\* with that label is ready and stays: even if the cached nodes never lag.
LabelFollowsReadiness ==
    nodeCache = InStep =>
    <>[](\A n \in Nodes, l \in Labels :
            l \in nodes[n].labels <=>
                \E p \in Pods : /\ NodeOf[p] = n /\ GetNodeLabelFromPod(p) = l
                                /\ pods[p].state = "live"
                                /\ pods[p].ready /\ ~ pods[p].deleting)

=============================================================================
