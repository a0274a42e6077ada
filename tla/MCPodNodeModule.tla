-------------------------- MODULE MCPodNodeModule --------------------------
(***************************************************************************)
(* Small instances of PodNodeModule: the pods of one Module on one node.    *)
(***************************************************************************)
EXTENDS PodNodeModule

CONSTANTS n1, k1, k2, old, new, next, plugin

OnN1 == [p \in Pods |-> n1]

\* old and next are pods of the same DaemonSet, one after the other; new belongs
\* to the DaemonSet of another kernel; plugin to the device plugin DaemonSet.
PodKernels ==
    [p \in Pods |-> CASE p = plugin -> NoKernel
                      [] p = new -> k2
                      [] OTHER -> k1]
=============================================================================
