------------------------------- MODULE MCHub -------------------------------
(***************************************************************************)
(* Small instances of Hub.                                                  *)
(***************************************************************************)
EXTENDS Hub

CONSTANTS k1, k2, i1, i2, d1, d2, keys, c1, c2, n1, b1, b2

\* Built on the hub.
Built ==
    [image |-> i1, dockerfile |-> d1, build |-> TRUE, sign |-> NoSign,
     devicePlugin |-> FALSE, kernels |-> {k1, k2}]

\* Another image, for one kernel, signed on the hub.
Signed ==
    [Built EXCEPT !.image = i2, !.build = FALSE, !.sign = keys, !.kernels = {k1}]

AllSpecs == {Built, Signed}
StartBuilt == {Built}
Upgraded == {{k1, k2}}
UserImages == {i2} \X {k1, k2} \X {"source"}

\* Both clusters run k1, and may get nodes with k2.
SameKernel == [c \in Clusters |-> {k1}]

\* One kernel each.
OwnKernels == [c \in Clusters |-> IF c = c1 THEN {k1} ELSE {k2}]
=============================================================================
