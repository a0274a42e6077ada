----------------------------- MODULE MCSigning -----------------------------
(***************************************************************************)
(* Small instances of Signing: two kernel modules in an image of two layers, *)
(* a namespace of two Modules.                                              *)
(***************************************************************************)
EXTENDS Signing

CONSTANTS aRel, aAbs, bRel, bAbs, v1, v2, srcImage, dstImage, quay, private,
          user, builder, m1, m2, r1, r2, r3

CanonPaths ==
    [f \in Files |-> CASE f \in {aRel, aAbs} -> aAbs
                       [] f \in {bRel, bAbs} -> bAbs]

KoPaths == {aAbs, bAbs, aRel, bRel}

File(v) == [version |-> v, signed |-> FALSE]

NoFiles == [f \in Files |-> NoEntry]

\* a was rebuilt in the second layer, whose tar spells paths differently.
Rebuilt ==
    <<[NoFiles EXCEPT ![aRel] = File(v1), ![bRel] = File(v1)],
      [NoFiles EXCEPT ![aAbs] = File(v2)]>>

\* Another build: b was removed, and added again.
Readded ==
    <<[NoFiles EXCEPT ![aRel] = File(v2), ![bRel] = File(v1)],
      [NoFiles EXCEPT ![bRel] = Whiteout, ![aAbs] = File(v1)],
      [NoFiles EXCEPT ![bAbs] = File(v2)]>>

TwoBuilds == {Rebuilt, Readded}
OneBuild == {Rebuilt}

SignSection(image, files) == [unsignedImage |-> image, files |-> files]

\* The mapping adds a file, once by a path that is not absolute.
OneFile == {SignSection(srcImage, {aAbs})}
OneMore == {SignSection(NoImage, {bAbs}), SignSection(NoImage, {bRel})}

\* No list at all.
NoList == {SignSection(srcImage, {})}
Nothing == {NoSection}

\* The unsigned image can be pulled by anyone; only the builder's secret lets push.
HostNames == [i \in ImageNames |-> IF i = srcImage THEN quay ELSE private]
Pull == [h \in Hosts |-> IF h = quay THEN {Anonymous, user, builder} ELSE {builder}]
Push == [h \in Hosts |-> IF h = quay THEN {} ELSE {builder}]
MountedSecrets ==
    <<[h \in Hosts |-> IF h = private THEN user ELSE NoCred], Malformed,
      [h \in Hosts |-> IF h = private THEN builder ELSE NoCred]>>
=============================================================================
