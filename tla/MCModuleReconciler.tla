------------------------ MODULE MCModuleReconciler ------------------------
(***************************************************************************)
(* Small instances of ModuleReconciler: the specs users may choose from.    *)
(***************************************************************************)
EXTENDS ModuleReconciler, TLC

CONSTANTS k1, k2, i1, i2, i3, d1, d2, keys, name1, name2, n1, n2

\* Every Dockerfile is pushed to an image of its own, except for OtherImage.
BuildOnly ==
    [image |-> i1, dockerfile |-> d1, build |-> TRUE, sign |-> NoSign,
     devicePlugin |-> FALSE, kernels |-> Kernels]

BuildAndSign ==
    [image |-> i2, dockerfile |-> d2, build |-> TRUE, sign |-> keys,
     devicePlugin |-> FALSE, kernels |-> Kernels]

\* Pre-built images, device plugin, one kernel supported.
PrebuiltWithPlugin ==
    [image |-> i3, dockerfile |-> d1, build |-> FALSE, sign |-> NoSign,
     devicePlugin |-> TRUE, kernels |-> {k1}]

\* Signs an image users pushed.
SignOnly ==
    [image |-> i2, dockerfile |-> d2, build |-> FALSE, sign |-> keys,
     devicePlugin |-> FALSE, kernels |-> Kernels]

\* The Dockerfile of BuildOnly, pushed to another image.
OtherImage == [BuildOnly EXCEPT !.image = i2]

UserImages ==
    {<<i2, k, "source">> : k \in Kernels} \cup {<<i3, k, "final">> : k \in Kernels}

NameSymmetry == Permutations(Names)

BuildSpecs == {BuildOnly, BuildAndSign}
BuildAndSignSpecs == {BuildOnly, BuildAndSign, SignOnly}
AllSpecs == {BuildOnly, BuildAndSign, SignOnly, PrebuiltWithPlugin}
ImageEdits == {BuildOnly, OtherImage}
OnlyBuild == {BuildOnly}
OnlyBuildAndSign == {BuildAndSign}
=============================================================================
