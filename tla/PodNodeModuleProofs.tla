------------------------ MODULE PodNodeModuleProofs ------------------------
(***************************************************************************)
(* Proofs about PodNodeModule for any pods, nodes and DaemonSets, any number *)
(* of readiness changes, failed calls and crashes.                          *)
(***************************************************************************)
EXTENDS PodNodeModule, TLAPS

\* Every variable keeps its type: in particular a reconciliation that is under
\* way always has a pod.
THEOREM TypeCorrect == Spec => []TypeOK
<1>1. Init => TypeOK
  <2> SUFFICES ASSUME Init PROVE TypeOK
    OBVIOUS
  <2>1. nodes \in [Nodes -> Node] /\ nodeCache \in [Nodes -> Node] \cup {InStep}
    <3>1. [up |-> TRUE, labels |-> {}] \in Node
      BY DEF Node
    <3>2. nodes \in [Nodes -> Node]
      BY <3>1 DEF Init
    <3> QED
      BY <3>2 DEF Init
  <2>2. NewPod \in Pod
    BY DEF NewPod, Pod
  <2> QED
    BY <2>1, <2>2, PodNodeModuleAssumption DEF Init, TypeOK
<1>2. TypeOK /\ [Next]_vars => TypeOK'
  <2> SUFFICES ASSUME TypeOK, [Next]_vars PROVE TypeOK'
    OBVIOUS
  <2> USE PodNodeModuleAssumption
  <2>1. ASSUME NEW p \in Pods, GetPod(p) PROVE TypeOK'
    BY <2>1 DEF TypeOK, GetPod, cluster, worker
  <2>2. CASE SetLabel
    <3>1. cur \in Pods /\ NodeOf[cur] \in Nodes
      BY <2>2 DEF SetLabel, TypeOK
    <3>2. GetNodeLabelFromPod(cur) \in Labels
      BY DEF GetNodeLabelFromPod, Labels
    <3>3. Patched(NodeOf[cur], snap.ready /\ ~ snap.deleting,
                  GetNodeLabelFromPod(cur)) \in Node
      BY <3>1, <3>2 DEF Patched, TypeOK, Node
    <3>4. nodes' \in [Nodes -> Node]
      BY <2>2, <3>1, <3>3 DEF SetLabel, TypeOK
    <3>5. NewPod \in Pod
      BY DEF NewPod, Pod
    <3> QED
      BY <2>2, <3>1, <3>4, <3>5 DEF SetLabel, TypeOK, Finish
  <2>3. CASE DeleteFinalizer
    <3>1. NewPod \in Pod
      BY DEF NewPod, Pod
    <3>2. cur \in Pods
      BY <2>3 DEF DeleteFinalizer, TypeOK
    <3>4. WithoutFinalizer(pods[cur]) \in Pod
      BY <3>2 DEF WithoutFinalizer, TypeOK, Pod
    <3>3. pods' \in [Pods -> Pod]
      BY <2>3, <3>2, <3>4 DEF DeleteFinalizer, TypeOK
    <3> QED
      BY <2>3, <3>1, <3>2, <3>3 DEF DeleteFinalizer, TypeOK, Finish
  <2>4. CASE ReconcileError
    BY <2>4 DEF ReconcileError, TypeOK, Finish, NewPod, Pod, cluster
  <2>5. CASE Restart
    BY <2>5 DEF Restart, TypeOK, Finish, NewPod, Pod, cluster
  <2>6. CASE DeliverPods
    BY <2>6 DEF DeliverPods, TypeOK, cluster, worker
  <2>7. CASE DeliverNodes
    BY <2>7 DEF DeliverNodes, TypeOK, cluster, worker
  <2>8. ASSUME NEW p \in Pods,
               PodCreated(p) \/ PodReadiness(p) \/ PodDeleted(p) \/ PodStopped(p)
        PROVE  TypeOK'
    <3>0. Stopped(pods[p]) \in Pod
      BY DEF Stopped, TypeOK, Pod
    <3>a. /\ [pods[p] EXCEPT !.state = "live"] \in Pod
          /\ [pods[p] EXCEPT !.ready = ~ @] \in Pod
          /\ [pods[p] EXCEPT !.deleting = TRUE] \in Pod
      BY DEF TypeOK, Pod
    <3>1. pods' \in [Pods -> Pod]
      BY <2>8, <3>0, <3>a DEF PodCreated, PodReadiness, PodDeleted, PodStopped, TypeOK
    <3>2. pending' \in SUBSET Pods
      BY <2>8 DEF PodCreated, PodReadiness, PodDeleted, PodStopped, Notify, TypeOK
    <3>3. flips' \in 0..MaxFlips
      BY <2>8 DEF PodCreated, PodReadiness, PodDeleted, PodStopped, TypeOK
    <3> QED
      BY <2>8, <3>1, <3>2, <3>3 DEF PodCreated, PodReadiness, PodDeleted, PodStopped,
         TypeOK, controller, worker
  <2>9. ASSUME NEW n \in Nodes, NodeLeaves(n) \/ NodeJoins(n) PROVE TypeOK'
    <3>0. [up |-> FALSE, labels |-> {}] \in Node /\ [nodes[n] EXCEPT !.up = TRUE] \in Node
      BY DEF TypeOK, Node
    <3>1. nodes' \in [Nodes -> Node]
      BY <2>9, <3>0 DEF NodeLeaves, NodeJoins, TypeOK
    <3>2. flips' \in 0..MaxFlips
      BY <2>9 DEF NodeLeaves, NodeJoins, TypeOK
    <3> QED
      BY <2>9, <3>1, <3>2 DEF NodeLeaves, NodeJoins, TypeOK, controller, worker
  <2>10. CASE UNCHANGED vars
    BY <2>10 DEF TypeOK, vars, worker
  <2> QED
    BY <2>1, <2>2, <2>3, <2>4, <2>5, <2>6, <2>7, <2>8, <2>9, <2>10
       DEF Next, Reconcile
<1> QED
  BY <1>1, <1>2, PTL DEF Spec

-----------------------------------------------------------------------------
\* What a step does to pods, whoever takes it: a pod's deletion is never taken
\* back, a pod never becomes new again, and only a pod that is being deleted is
\* released.
PodsMove ==
    \A p \in Pods :
        /\ pods[p].deleting => pods'[p].deleting
        /\ pods[p].state # "new" => pods'[p].state # "new"
        /\ pods'[p].state = "new" => pods'[p] = pods[p]

\* A step of the cluster around the controller releases no pod: the finalizer is
\* the controller's to remove.
LEMMA ClusterKeepsFinalizer ==
  ASSUME TypeOK, ReleaseIsFinal, NEW p \in Pods,
         PodCreated(p) \/ PodReadiness(p) \/ PodDeleted(p) \/ PodStopped(p)
  PROVE  /\ \A q \in Pods : Released(q)' => Released(q)
         /\ \A q \in Pods : /\ pods[q].state = "live" /\ pods[q].finalizer
                            => pods'[q].state = "live" /\ pods'[q].finalizer
         /\ PodsMove
<1>1. \A q \in Pods : q # p => pods'[q] = pods[q]
  BY DEF PodCreated, PodReadiness, PodDeleted, PodStopped, TypeOK
<1>2. /\ Released(p)' => Released(p)
      /\ /\ pods[p].state = "live" /\ pods[p].finalizer
         => pods'[p].state = "live" /\ pods'[p].finalizer
      /\ pods[p].deleting => pods'[p].deleting
      /\ pods'[p].state # "new"
  <2>1. CASE PodCreated(p)
    BY <2>1 DEF PodCreated, Released, TypeOK, Pod, ReleaseIsFinal, NewPod
  <2>2. CASE PodReadiness(p)
    BY <2>2 DEF PodReadiness, Released, TypeOK, Pod
  <2>3. CASE PodDeleted(p)
    BY <2>3 DEF PodDeleted, Released, TypeOK, Pod
  <2>4. CASE PodStopped(p)
    <3>1. pods'[p] = Stopped(pods[p])
      BY <2>4 DEF PodStopped, TypeOK
    <3>2. /\ Stopped(pods[p]).finalizer = pods[p].finalizer
          /\ Stopped(pods[p]).deleting = pods[p].deleting
          /\ Stopped(pods[p]).state = IF pods[p].finalizer THEN "live" ELSE "gone"
      BY DEF Stopped, TypeOK, Pod
    <3> QED
      BY <2>4, <3>1, <3>2 DEF PodStopped, Released
  <2> QED
    BY <2>1, <2>2, <2>3, <2>4
<1>3. \A q \in Pods : Released(q)' => Released(q)
  BY <1>1, <1>2 DEF Released
<1> QED
  BY <1>1, <1>2, <1>3 DEF PodsMove

\* A node cache that lags never becomes one that is always in step.
LEMMA InStepIsRigid ==
  ASSUME TypeOK, [Next]_vars
  PROVE  nodeCache' = InStep => nodeCache = InStep
<1> USE PodNodeModuleAssumption
<1>1. ASSUME DeliverNodes \/ Restart PROVE nodeCache' = InStep => nodeCache = InStep
  BY <1>1 DEF DeliverNodes, Restart, TypeOK
<1>2. ASSUME [Next]_vars, ~ (DeliverNodes \/ Restart) PROVE nodeCache' = nodeCache
  BY <1>2 DEF Next, Reconcile, GetPod, SetLabel, DeleteFinalizer, ReconcileError,
     DeliverPods, PodCreated, PodReadiness, PodDeleted, PodStopped, NodeLeaves,
     NodeJoins, controller, vars
<1> QED
  BY <1>1, <1>2

\* The two invariants together are inductive.
LEMMA ReleaseIsInductive ==
  ASSUME TypeOK, TypeOK', ReleaseIsFinal, LabelNeverOrphaned, [Next]_vars
  PROVE  ReleaseIsFinal' /\ LabelNeverOrphaned'
<1> USE PodNodeModuleAssumption
<1>0. nodeCache' = InStep => nodeCache = InStep
  BY InStepIsRigid
<1>1. ASSUME NEW p \in Pods, GetPod(p) PROVE ReleaseIsFinal' /\ LabelNeverOrphaned'
  <2>1. LabelNeverOrphaned'
    BY <1>0, <1>1 DEF GetPod, cluster, LabelNeverOrphaned, GetNodeLabelFromPod
  <2>2. CASE podCache[p].state # "live"
    BY <1>0, <1>1, <2>1, <2>2 DEF GetPod, cluster, worker, ReleaseIsFinal, Released,
       GetNodeLabelFromPod
  <2>3. CASE podCache[p].state = "live"
    <3>1. pc' = "label" /\ cur' = p /\ snap' = podCache[p] /\ pods' = pods
          /\ podCache' = podCache
      BY <1>1, <2>3 DEF GetPod, cluster
    <3>2. pods[p].state # "new"
      BY <2>3 DEF ReleaseIsFinal, NewPod
    <3>3. ~ podCache[p].deleting => ~ Released(p)
      BY DEF ReleaseIsFinal
    <3> QED
      BY <2>1, <3>1, <3>2, <3>3 DEF ReleaseIsFinal, Released
  <2> QED
    BY <2>2, <2>3
<1>2. CASE SetLabel
  <2> DEFINE n == NodeOf[cur]
             l == GetNodeLabelFromPod(cur)
             wanted == snap.ready /\ ~ snap.deleting
  <2>1. cur \in Pods /\ n \in Nodes /\ pc = "label"
    BY <1>2 DEF SetLabel, TypeOK
  <2>2. pods' = pods /\ podCache' = podCache
    BY <1>2 DEF SetLabel
  <2>3. CASE ~ (SeenNode(n).up /\ nodes[n].up)
    BY <1>0, <1>2, <2>2, <2>3 DEF SetLabel, Finish, ReleaseIsFinal, Released,
       LabelNeverOrphaned, GetNodeLabelFromPod
  <2>4. CASE SeenNode(n).up /\ nodes[n].up
    <3>1. nodes' = [nodes EXCEPT ![n] = Patched(n, wanted, l)]
      BY <1>2, <2>1, <2>4 DEF SetLabel
    <3>2. IF snap.deleting THEN pc' = "finalizer" /\ cur' = cur /\ snap' = snap
                           ELSE pc' = "idle"
      BY <1>2, <2>1, <2>4 DEF SetLabel, Finish
    <3>3. ASSUME nodeCache = InStep
          PROVE  Patched(n, wanted, l).labels =
             IF wanted THEN nodes[n].labels \cup {l} ELSE nodes[n].labels \ {l}
      <4>1. nodes[n] \in Node
        BY <2>1 DEF TypeOK
      <4>2. SeenNode(n) = nodes[n]
        BY <3>3 DEF SeenNode
      <4>3. CASE wanted
        BY <4>1, <4>2, <4>3 DEF Patched, Node
      <4>4. CASE ~ wanted
        BY <4>1, <4>2, <4>4 DEF Patched, Node
      <4> QED
        BY <4>3, <4>4
    <3>4. nodeCache = InStep =>
          /\ \A m \in Nodes : m # n => nodes'[m].labels = nodes[m].labels
          /\ nodes'[n].labels = IF wanted THEN nodes[n].labels \cup {l}
                                          ELSE nodes[n].labels \ {l}
      BY <2>1, <3>1, <3>3 DEF TypeOK
    <3>5. wanted => pods[cur].state = "live" /\ pods[cur].finalizer
      BY <2>1 DEF ReleaseIsFinal, Released, TypeOK, Pod
    <3>6. LabelNeverOrphaned'
      BY <1>0, <2>1, <2>2, <3>4, <3>5 DEF LabelNeverOrphaned, GetNodeLabelFromPod
    <3>7. ReleaseIsFinal'
      BY <1>0, <2>1, <2>2, <3>2, <3>4 DEF ReleaseIsFinal, Released, GetNodeLabelFromPod
    <3> QED
      BY <3>6, <3>7
  <2> QED
    BY <2>3, <2>4
<1>3. CASE DeleteFinalizer
  <2>1. /\ cur \in Pods /\ pc = "finalizer" /\ pc' = "idle"
        /\ nodes' = nodes /\ podCache' = podCache
    BY <1>3 DEF DeleteFinalizer, TypeOK, Finish
  <2>2. CASE pods' = pods
    BY <1>0, <2>1, <2>2 DEF ReleaseIsFinal, Released, LabelNeverOrphaned, GetNodeLabelFromPod
  <2>3. CASE pods' # pods
    <3>1. /\ pods[cur].state = "live"
          /\ pods' = [pods EXCEPT ![cur] = WithoutFinalizer(pods[cur])]
      BY <1>3, <2>3 DEF DeleteFinalizer
    <3>2. /\ WithoutFinalizer(pods[cur]).deleting = pods[cur].deleting
          /\ WithoutFinalizer(pods[cur]).state # "new"
      BY <2>1 DEF WithoutFinalizer, TypeOK, Pod
    <3>3. /\ \A q \in Pods : q # cur => pods'[q] = pods[q]
          /\ pods'[cur].deleting = pods[cur].deleting
          /\ pods'[cur].state # "new"
      BY <2>1, <3>1, <3>2 DEF TypeOK
    <3>4. pods[cur].deleting /\ podCache[cur].deleting
      BY <2>1 DEF ReleaseIsFinal
    <3>5. ReleaseIsFinal'
      BY <1>0, <2>1, <3>3, <3>4 DEF ReleaseIsFinal, Released
    <3>6. nodeCache = InStep => GetNodeLabelFromPod(cur) \notin nodes[NodeOf[cur]].labels
      BY <2>1 DEF ReleaseIsFinal
    <3>7. LabelNeverOrphaned'
      BY <1>0, <2>1, <3>3, <3>6 DEF LabelNeverOrphaned, GetNodeLabelFromPod
    <3> QED
      BY <3>5, <3>7
  <2> QED
    BY <2>2, <2>3
<1>4. CASE ReconcileError
  BY <1>0, <1>4 DEF ReconcileError, Finish, cluster, ReleaseIsFinal, Released,
     LabelNeverOrphaned, GetNodeLabelFromPod
<1>5. CASE Restart
  <2>1. pods' = pods /\ nodes' = nodes /\ podCache' = pods /\ pc' = "idle"
    BY <1>5 DEF Restart, cluster, Finish
  <2> QED
    BY <1>0, <2>1 DEF ReleaseIsFinal, Released, LabelNeverOrphaned, GetNodeLabelFromPod, NewPod
<1>6. CASE DeliverPods
  <2>1. /\ pods' = pods /\ nodes' = nodes /\ podCache' = pods
        /\ pc' = pc /\ cur' = cur /\ snap' = snap
    BY <1>6 DEF DeliverPods, cluster, worker
  <2>2. pc # "idle" => cur \in Pods
    BY DEF TypeOK
  <2> QED
    BY <1>0, <2>1, <2>2 DEF ReleaseIsFinal, Released, LabelNeverOrphaned, GetNodeLabelFromPod,
       NewPod
<1>7. CASE DeliverNodes
  <2>1. /\ pods' = pods /\ nodes' = nodes /\ podCache' = podCache
        /\ pc' = pc /\ cur' = cur /\ snap' = snap
    BY <1>7 DEF DeliverNodes, cluster, worker
  <2> QED
    BY <1>0, <2>1 DEF ReleaseIsFinal, Released, LabelNeverOrphaned, GetNodeLabelFromPod
<1>8. ASSUME NEW p \in Pods,
             PodCreated(p) \/ PodReadiness(p) \/ PodDeleted(p) \/ PodStopped(p)
      PROVE  ReleaseIsFinal' /\ LabelNeverOrphaned'
  <2>1. /\ nodes' = nodes /\ podCache' = podCache
        /\ pc' = pc /\ cur' = cur /\ snap' = snap
    BY <1>8 DEF PodCreated, PodReadiness, PodDeleted, PodStopped, controller, worker
  <2>2. /\ \A q \in Pods : Released(q)' => Released(q)
        /\ \A q \in Pods : /\ pods[q].state = "live" /\ pods[q].finalizer
                           => pods'[q].state = "live" /\ pods'[q].finalizer
        /\ PodsMove
    BY <1>8, ClusterKeepsFinalizer
  <2>3. pc # "idle" => cur \in Pods
    BY DEF TypeOK
  <2>4. LabelNeverOrphaned'
    BY <1>0, <2>1, <2>2 DEF LabelNeverOrphaned, GetNodeLabelFromPod
  <2>5. ReleaseIsFinal'
    BY <1>0, <2>1, <2>2, <2>3 DEF ReleaseIsFinal, PodsMove, GetNodeLabelFromPod
  <2> QED
    BY <2>4, <2>5
<1>9. ASSUME NEW n \in Nodes, NodeLeaves(n) \/ NodeJoins(n)
      PROVE  ReleaseIsFinal' /\ LabelNeverOrphaned'
  <2>1. /\ pods' = pods /\ podCache' = podCache
        /\ pc' = pc /\ cur' = cur /\ snap' = snap
    BY <1>9 DEF NodeLeaves, NodeJoins, controller, worker
  <2>2. \A m \in Nodes : nodes'[m].labels \subseteq nodes[m].labels
    <3>0. nodes \in [Nodes -> Node]
      BY DEF TypeOK
    <3>1. \A m \in Nodes : m # n => nodes'[m] = nodes[m]
      BY <1>9, <3>0 DEF NodeLeaves, NodeJoins
    <3>2. nodes'[n].labels \in {{}, nodes[n].labels}
      <4>1. CASE NodeLeaves(n)
        BY <3>0, <4>1 DEF NodeLeaves
      <4>2. CASE NodeJoins(n)
        BY <3>0, <4>2 DEF NodeJoins, Node
      <4> QED
        BY <1>9, <4>1, <4>2
    <3> QED
      BY <3>1, <3>2
  <2>3. pc # "idle" => cur \in Pods /\ NodeOf[cur] \in Nodes
    BY DEF TypeOK
  <2> QED
    BY <1>0, <2>1, <2>2, <2>3 DEF ReleaseIsFinal, Released, LabelNeverOrphaned,
       GetNodeLabelFromPod
<1>10. CASE UNCHANGED vars
  BY <1>0, <1>10 DEF vars, worker, ReleaseIsFinal, Released, LabelNeverOrphaned,
     GetNodeLabelFromPod
<1> QED
  BY <1>1, <1>2, <1>3, <1>4, <1>5, <1>6, <1>7, <1>8, <1>9, <1>10 DEF Next, Reconcile

\* What the caches still say about a pod that was let go never makes the
\* controller label its node again, however far they lag.
THEOREM ReleaseSafety == Spec => []ReleaseIsFinal
<1>1. Init => ReleaseIsFinal /\ LabelNeverOrphaned
  BY PodNodeModuleAssumption DEF Init, ReleaseIsFinal, Released, LabelNeverOrphaned, NewPod
<1>2. TypeOK /\ TypeOK' /\ ReleaseIsFinal /\ LabelNeverOrphaned /\ [Next]_vars
        => ReleaseIsFinal' /\ LabelNeverOrphaned'
  BY ReleaseIsInductive
<1> QED
  BY <1>1, <1>2, TypeCorrect, PTL DEF Spec

\* No label outlives the pods that answer for it, as long as the controller's
\* view of the node it patches is current.
THEOREM LabelSafety == Spec => []LabelNeverOrphaned
<1>1. Init => ReleaseIsFinal /\ LabelNeverOrphaned
  BY PodNodeModuleAssumption DEF Init, ReleaseIsFinal, Released, LabelNeverOrphaned, NewPod
<1>2. TypeOK /\ TypeOK' /\ ReleaseIsFinal /\ LabelNeverOrphaned /\ [Next]_vars
        => ReleaseIsFinal' /\ LabelNeverOrphaned'
  BY ReleaseIsInductive
<1> QED
  BY <1>1, <1>2, TypeCorrect, PTL DEF Spec

=============================================================================
