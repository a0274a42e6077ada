---------------------------- MODULE MCPreflight ----------------------------
(***************************************************************************)
(* Small instances of Preflight.                                            *)
(***************************************************************************)
EXTENDS Preflight

CONSTANTS k1, k2, i1, i2, i3, d1, d2, keys, m1, m2, n1, name1,
          rhel, rhcos, releaseDTK, streamDTK

\* Built from a Dockerfile with the Driver Toolkit.
Built ==
    [image |-> i1, dockerfile |-> d1, build |-> TRUE, sign |-> NoSign,
     devicePlugin |-> FALSE, kernels |-> {k1}]

BuiltAndSigned ==
    [image |-> i2, dockerfile |-> d2, build |-> TRUE, sign |-> keys,
     devicePlugin |-> FALSE, kernels |-> {k1}]

Prebuilt ==
    [image |-> i3, dockerfile |-> d1, build |-> FALSE, sign |-> NoSign,
     devicePlugin |-> FALSE, kernels |-> {k1}]

\* Signs an image users push.
Signed == [Prebuilt EXCEPT !.image = i2, !.sign = keys]

NoMapping == [Prebuilt EXCEPT !.kernels = {k2}]

AllSpecs == {Built, BuiltAndSigned, Prebuilt, Signed, NoMapping}
TwoModules == {[m \in Mods |-> IF m = m1 THEN s ELSE NoMapping] : s \in {Built, Signed}}
BuiltModule == {[m \in Mods |-> Built]}
BuiltOnly == {Built}
=============================================================================
