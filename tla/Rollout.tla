------------------------------ MODULE Rollout ------------------------------
(***************************************************************************)
(* What the operator promises about the driver containers of a Module, with *)
(* no reconciliations, caches, Builds or DaemonSets: each kernel runs       *)
(* nothing or one image; an image is rolled out to one kernel at a time,    *)
(* only if it was made for that kernel and only once it can be pulled; and  *)
(* images appear in the registry at any time.                               *)
(***************************************************************************)
CONSTANTS
    Kernels,    \* kernel versions
    Pullable,   \* references of images
    ImagesFor,  \* ImagesFor[k]: the images that a Module may name for kernel k
    Nothing     \* what a kernel runs that has no driver container

VARIABLES
    running,    \* the image that the nodes with a kernel are told to run
    pushed      \* the images in the registry

Init ==
    /\ running = [k \in Kernels |-> Nothing]
    /\ pushed \in SUBSET Pullable

RollOut(k, i) ==
    /\ i \in ImagesFor[k] \cap pushed
    /\ running' = [running EXCEPT ![k] = i]
    /\ UNCHANGED pushed

Withdraw(k) ==
    /\ running' = [running EXCEPT ![k] = Nothing]
    /\ UNCHANGED pushed

Push(i) ==
    /\ pushed' = pushed \cup {i}
    /\ UNCHANGED running

Next ==
    \/ \E k \in Kernels : Withdraw(k) \/ \E i \in ImagesFor[k] : RollOut(k, i)
    \/ \E i \in Pullable : Push(i)

Spec == Init /\ [][Next]_<<running, pushed>>

=============================================================================
