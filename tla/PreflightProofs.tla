-------------------------- MODULE PreflightProofs --------------------------
(***************************************************************************)
(* Proofs about Preflight for any Modules, specs and kernels, whatever the  *)
(* caches' lag and however many edits, failed writes and crashes happen.    *)
(***************************************************************************)
EXTENDS Preflight, WorkloadsProofs

-----------------------------------------------------------------------------
(* Types.                                                                   *)

Objects ==
    [pvo : PreflightValidationOCP \cup {Absent}, pv : PreflightValidation \cup {Absent},
     mods : [Mods -> Specs \cup {Absent}],
     builds : [Mods -> [Names -> Build \cup {Absent}]],
     jobs : [Mods -> [Names -> SignJob \cup {Absent}]]]

Seen ==
    [pv : PreflightValidation \cup {Absent}, mods : [Mods -> Specs \cup {Absent}],
     builds : [Mods -> [Names -> Build \cup {Absent}]],
     jobs : [Mods -> [Names -> SignJob \cup {Absent}]]]

PCs == {"idle", "modules", "loop", "image", "missing", "build", "sign", "status", "stage"}

\* The steps at which a Module is being validated.
Checking == {"image", "missing", "build", "sign", "status", "stage"}

ObjectsTyped ==
    /\ api \in Objects /\ cache \in Seen /\ fresh \in BOOLEAN
    /\ registry \subseteq ImageRef /\ configMaps \subseteq Dockerfiles
    /\ dtk \in DTKMaps
    /\ changes \in 0..MaxChanges /\ faults \in 0..MaxFaults

\* A Module is validated only if it was there when Modules were listed, and signed
\* only if it has a sign section.
LoopTyped ==
    /\ pc \in PCs
    /\ pv \in PreflightValidation \cup {Absent}
    /\ pc # "idle" => pv \in PreflightValidation
    /\ current \in BOOLEAN /\ verified \in BOOLEAN
    /\ listed \in [Mods -> Specs \cup {Absent}]
    /\ todo \subseteq {m \in Mods : listed[m] \in Specs /\ pv.status[m] \in CRStatus}
    /\ pc \in {"idle", "modules"} => todo = {}
    /\ cur \in Mods \cup {Absent}
    /\ pc \in Checking => /\ cur \in Mods
                          /\ listed[cur] \in Specs /\ pv.status[cur] \in CRStatus
    /\ pc = "sign" => ShouldBeSigned(listed[cur])

\* The OCP controller works on a release that has the kernel it was asked for.
OCPTyped ==
    /\ ocpPc \in {"idle", "setNodeInfo", "setImageStreamInfo", "create"}
    /\ pvo \in PreflightValidationOCP \cup {Absent}
    /\ ocpPc # "idle" => /\ pvo \in PreflightValidationOCP
                         /\ ReleaseKernelFor(pvo) \in Kernels

\* A fresh cache holds the stored version, and a current copy derives from it.
Versions ==
    /\ fresh => cache.pv = api.pv
    /\ current => api.pv \in PreflightValidation
    /\ current /\ pc = "modules" => pv = api.pv

TypeInv == ObjectsTyped /\ LoopTyped /\ OCPTyped /\ Versions

\* Every field of the objects may be written with something of its type.
LEMMA FieldWritten ==
  ASSUME NEW o \in Objects
  PROVE  /\ \A x \in PreflightValidation \cup {Absent} : [o EXCEPT !.pv = x] \in Objects
         /\ \A x \in PreflightValidationOCP \cup {Absent} : [o EXCEPT !.pvo = x] \in Objects
         /\ \A m \in Mods, x \in Specs \cup {Absent} : [o EXCEPT !.mods[m] = x] \in Objects
BY DEF Objects

\* A Build or a Job is written, or deleted.
WithBuild(o, m, n, x) == [o EXCEPT !.builds[m][n] = x]

WithJob(o, m, n, x) == [o EXCEPT !.jobs[m][n] = x]

\* Either leaves the objects what they are and the PreflightValidation alone.
LEMMA BuildWritten ==
  ASSUME NEW o \in Objects, NEW m \in Mods, NEW n, NEW x \in Build \cup {Absent}
  PROVE  /\ WithBuild(o, m, n, x) \in Objects
         /\ WithBuild(o, m, n, x).pv = o.pv
<1> DEFINE b == [o.builds EXCEPT ![m][n] = x]
<1>1. b \in [Mods -> [Names -> Build \cup {Absent}]]
  BY DEF Objects
<1> HIDE DEF b
<1>2. [o EXCEPT !.builds = b] \in Objects /\ [o EXCEPT !.builds = b].pv = o.pv
  BY <1>1 DEF Objects
<1> QED
  BY <1>2 DEF b, WithBuild

\* The same of a Job.
LEMMA JobWritten ==
  ASSUME NEW o \in Objects, NEW m \in Mods, NEW n, NEW x \in SignJob \cup {Absent}
  PROVE  /\ WithJob(o, m, n, x) \in Objects
         /\ WithJob(o, m, n, x).pv = o.pv
<1> DEFINE b == [o.jobs EXCEPT ![m][n] = x]
<1>1. b \in [Mods -> [Names -> SignJob \cup {Absent}]]
  BY DEF Objects
<1> HIDE DEF b
<1>2. [o EXCEPT !.jobs = b] \in Objects /\ [o EXCEPT !.jobs = b].pv = o.pv
  BY <1>1 DEF Objects
<1> QED
  BY <1>2 DEF b, WithJob

\* What presetModulesStatuses leaves of each Module's status.
LEMMA Preset ==
  ASSUME NEW statuses \in CRStatuses, NEW mods \in [Mods -> Specs \cup {Absent}]
  PROVE  /\ PresetStatuses(statuses, mods) \in CRStatuses
         /\ \A m \in Mods : mods[m] = Absent => PresetStatuses(statuses, mods)[m] = Absent
         /\ \A m \in Mods : mods[m] # Absent => PresetStatuses(statuses, mods)[m] =
               IF statuses[m] = Absent THEN NewCRStatus ELSE statuses[m]
<1>1. NewCRStatus \in CRStatus
  BY DEF NewCRStatus, CRStatus, Stages
<1>2. ASSUME NEW m \in Mods
      PROVE  PresetStatuses(statuses, mods)[m] =
                IF mods[m] = Absent THEN Absent
                ELSE IF statuses[m] = Absent THEN NewCRStatus ELSE statuses[m]
  BY DEF PresetStatuses
<1>3. ASSUME NEW m \in Mods
      PROVE  PresetStatuses(statuses, mods)[m] \in CRStatus \cup {Absent}
  BY <1>1, <1>2 DEF CRStatuses
<1>4. PresetStatuses(statuses, mods) =
          [m \in Mods |-> PresetStatuses(statuses, mods)[m]]
  BY DEF PresetStatuses
<1>5. PresetStatuses(statuses, mods) \in CRStatuses
  BY <1>3, <1>4 DEF CRStatuses
<1> QED
  BY <1>2, <1>5

\* The bounds on faults and changes are kept.
LEMMA FaultTyped ==
  ASSUME faults \in 0..MaxFaults, Fault
  PROVE  faults' \in 0..MaxFaults
BY PreflightAssumption DEF Fault

\* The same of changes.
LEMMA ChangeTyped ==
  ASSUME changes \in 0..MaxChanges, Change
  PROVE  changes' \in 0..MaxChanges
BY PreflightAssumption DEF Change

\* A write of the copy's status, accepted or not.
LEMMA UpdateTyped ==
  ASSUME TypeInv, NEW statuses \in CRStatuses, Update(statuses),
         pv \in PreflightValidation
  PROVE  /\ api' \in Objects
         /\ pv' \in PreflightValidation /\ pv'.status = statuses
         /\ pv'.kernel = pv.kernel /\ pv'.push = pv.push
         /\ fresh' \in BOOLEAN /\ faults' \in 0..MaxFaults
         /\ fresh' => fresh /\ api'.pv = api.pv
         /\ current => api'.pv \in PreflightValidation
         /\ \/ api' = api
            \/ current /\ api' = [api EXCEPT !.pv = [api.pv EXCEPT !.status = statuses]]
<1>0. api \in Objects /\ faults \in 0..MaxFaults /\ fresh \in BOOLEAN
      /\ (current => api.pv \in PreflightValidation)
  BY DEF TypeInv, ObjectsTyped, Versions
<1>1. /\ pv' \in PreflightValidation /\ pv'.status = statuses
      /\ pv'.kernel = pv.kernel /\ pv'.push = pv.push
  BY DEF Update, PreflightValidation
<1>2. fresh' \in BOOLEAN /\ faults' \in 0..MaxFaults
  <2>1. fresh' \in {FALSE, fresh} /\ (faults' = faults \/ Fault)
    BY DEF Update
  <2> QED
    BY <1>0, <2>1, FaultTyped
<1> DEFINE x == [api.pv EXCEPT !.status = statuses]
<1>3. UNCHANGED <<api, fresh>> \/ (current /\ api' = [api EXCEPT !.pv = x] /\ ~ fresh')
  BY DEF Update, Accepted
<1>4. current => x \in PreflightValidation
  BY <1>0 DEF PreflightValidation
<1>5. api' = [api EXCEPT !.pv = x] => api'.pv = x
  BY <1>0 DEF Objects
<1>6. CASE UNCHANGED <<api, fresh>>
  BY <1>0, <1>1, <1>2, <1>6
<1>7. CASE current /\ api' = [api EXCEPT !.pv = x] /\ ~ fresh'
  <2> HIDE DEF x
  <2>1. api' \in Objects /\ api'.pv \in PreflightValidation
    BY <1>0, <1>4, <1>5, <1>7, FieldWritten
  <2> QED
    BY <1>1, <1>2, <1>7, <2>1 DEF x
<1> QED
  BY <1>3, <1>6, <1>7

\* A step that leaves the reconciliation of the PreflightValidation alone.
LEMMA QuietTyped ==
  ASSUME TypeInv, ObjectsTyped', OCPTyped',
         UNCHANGED <<pc, pv, verified, listed, todo, cur>>,
         fresh' => cache'.pv = api'.pv,
         current' \in BOOLEAN, current' => current /\ api'.pv = api.pv
  PROVE  TypeInv'
BY DEF TypeInv, LoopTyped, Versions

\* A reconciliation that returns leaves nothing behind.
LEMMA ReturnTyped ==
  ASSUME ObjectsTyped', OCPTyped', pc' = "idle", IdleLocals,
         fresh' => cache'.pv = api'.pv
  PROVE  TypeInv'
BY DEF TypeInv, LoopTyped, Versions, IdleLocals, PCs, Checking, NoneOf

\* A step of a validation that writes a Module's status.
LEMMA WriteTyped ==
  ASSUME TypeInv, pc \in Checking \cup {"loop"},
         NEW m \in Mods, m = cur' /\ (m \in todo \/ (m = cur /\ pc \in Checking)),
         NEW st \in CRStatus, Update([pv.status EXCEPT ![m] = st]),
         pc' \in Checking \cup {"loop"}, pc' = "sign" => ShouldBeSigned(listed[m]),
         todo' \subseteq todo, verified' \in BOOLEAN,
         UNCHANGED <<cache, world, current, listed, ocp, changes>>
  PROVE  TypeInv'
<1> DEFINE ss == [pv.status EXCEPT ![m] = st]
<1>0. /\ pv \in PreflightValidation /\ pv.status \in CRStatuses
      /\ listed[m] \in Specs
  BY DEF TypeInv, LoopTyped, PreflightValidation, Checking
<1>1. ss \in CRStatuses /\ ss[m] = st
      /\ \A x \in Mods : pv.status[x] \in CRStatus => ss[x] \in CRStatus
  BY <1>0 DEF CRStatuses
<1> HIDE DEF ss
<1>2. Update(ss)
  BY DEF ss
<1>3. /\ api' \in Objects
      /\ pv' \in PreflightValidation /\ pv'.status = ss
      /\ fresh' \in BOOLEAN /\ faults' \in 0..MaxFaults
      /\ fresh' => fresh /\ api'.pv = api.pv
      /\ current => api'.pv \in PreflightValidation
  BY <1>0, <1>1, <1>2, UpdateTyped
<1>4. ObjectsTyped' /\ OCPTyped'
  BY <1>3 DEF TypeInv, ObjectsTyped, OCPTyped, world, ocp
<1>5. LoopTyped'
  BY <1>0, <1>1, <1>3 DEF TypeInv, LoopTyped, Checking, PCs
<1>6. Versions'
  BY <1>3 DEF TypeInv, Versions, Checking
<1> QED
  BY <1>4, <1>5, <1>6 DEF TypeInv

\* A step of a validation that has a result.
LEMMA ResultTyped ==
  ASSUME TypeInv, pc \in Checking, NEW v \in BOOLEAN, Result(v),
         UNCHANGED unchangedByCheck,
         api' \in Objects, api'.pv = api.pv, faults' \in 0..MaxFaults
  PROVE  TypeInv'
<1>1. ObjectsTyped' /\ OCPTyped'
  BY DEF TypeInv, ObjectsTyped, OCPTyped, unchangedByCheck, world, ocp, Result
<1>2. LoopTyped'
  BY DEF TypeInv, LoopTyped, unchangedByCheck, Result, Checking, PCs
<1>3. Versions'
  BY DEF TypeInv, Versions, unchangedByCheck, Result
<1> QED
  BY <1>1, <1>2, <1>3 DEF TypeInv

\* The image is found missing.
LEMMA MissingTyped ==
  ASSUME TypeInv, pc \in Checking, MissingImage, UNCHANGED unchangedByCheck,
         UNCHANGED api, faults' \in 0..MaxFaults
  PROVE  TypeInv'
<1>1. ObjectsTyped' /\ OCPTyped'
  BY DEF TypeInv, ObjectsTyped, OCPTyped, unchangedByCheck, world, ocp, MissingImage
<1>2. LoopTyped'
  BY DEF TypeInv, LoopTyped, unchangedByCheck, MissingImage, Checking, PCs
<1>3. Versions'
  BY DEF TypeInv, Versions, unchangedByCheck, MissingImage
<1> QED
  BY <1>1, <1>2, <1>3 DEF TypeInv

\* The start of a reconciliation: the object and the Modules are read.
LEMMA ReadsTyped ==
  ASSUME TypeInv,
         \/ GetPreflight \/ GetModulesToCheck \/ GetModulesToCheckRefused
         \/ CheckPreflightCompletion \/ ReconcileError
  PROVE  TypeInv'
<1>1. CASE GetPreflight
  <2>1. ObjectsTyped' /\ OCPTyped'
    BY <1>1 DEF GetPreflight, TypeInv, ObjectsTyped, OCPTyped, world, ocp
  <2>2. cache.pv \in PreflightValidation \cup {Absent}
    BY DEF TypeInv, ObjectsTyped, Seen
  <2>3. LoopTyped'
    BY <1>1, <2>2 DEF GetPreflight, TypeInv, ObjectsTyped, LoopTyped, Checking, PCs
  <2>4. Versions'
    BY <1>1, <2>2 DEF GetPreflight, TypeInv, Versions
  <2> QED
    BY <2>1, <2>3, <2>4 DEF TypeInv
<1>2. CASE GetModulesToCheck
  <2> DEFINE ss == PresetStatuses(pv.status, cache.mods)
  <2>0. /\ api \in Objects /\ pv \in PreflightValidation /\ pv = api.pv /\ current
        /\ pv.status \in CRStatuses /\ cache.mods \in [Mods -> Specs \cup {Absent}]
    BY <1>2 DEF GetModulesToCheck, TypeInv, ObjectsTyped, LoopTyped, Versions, Accepted,
       Seen, PreflightValidation
  <2>1. /\ ss \in CRStatuses
        /\ \A m \in Mods : cache.mods[m] = Absent => ss[m] = Absent
    BY <2>0, Preset
  <2>2. /\ pv' = [pv EXCEPT !.status = ss]
        /\ api' = [api EXCEPT !.pv.status = ss]
        /\ fresh' = (fresh /\ ss = pv.status)
        /\ todo' = {m \in Mods : ss[m] # Absent /\ ~ ss[m].verified}
        /\ pc' = "loop" /\ listed' = cache.mods
        /\ UNCHANGED <<cache, world, queued, current, cur, verified, ocp, changes, faults>>
    BY <1>2 DEF GetModulesToCheck
  <2> HIDE DEF ss
  <2>3. /\ pv' \in PreflightValidation /\ pv'.status = ss /\ pv' = api'.pv
        /\ api' = [api EXCEPT !.pv = pv']
    BY <2>0, <2>1, <2>2 DEF PreflightValidation, Objects
  <2>4. api' \in Objects
    BY <2>0, <2>3, FieldWritten
  <2>5. fresh' => cache'.pv = api'.pv
    <3>1. ss = pv.status => pv' = pv
      BY <2>0, <2>2 DEF PreflightValidation
    <3> QED
      BY <2>0, <2>2, <2>3, <3>1 DEF TypeInv, Versions
  <2>6. ObjectsTyped' /\ OCPTyped'
    BY <2>2, <2>4 DEF TypeInv, ObjectsTyped, OCPTyped, world, ocp
  <2>7. todo' \subseteq {m \in Mods : cache.mods[m] \in Specs /\ ss[m] \in CRStatus}
    BY <2>0, <2>1, <2>2 DEF CRStatuses
  <2>8. LoopTyped'
    BY <2>0, <2>2, <2>3, <2>7 DEF TypeInv, LoopTyped, Checking, PCs
  <2>9. Versions'
    BY <2>2, <2>3, <2>5 DEF TypeInv, Versions
  <2> QED
    BY <2>6, <2>8, <2>9 DEF TypeInv
<1>3. CASE GetModulesToCheckRefused \/ CheckPreflightCompletion \/ ReconcileError
  <2>1. /\ UNCHANGED <<api, cache, fresh, world, ocp, changes>> /\ pc' = "idle"
        /\ IdleLocals /\ (faults' = faults \/ Fault)
    BY <1>3 DEF GetModulesToCheckRefused, CheckPreflightCompletion, ReconcileError, Return
  <2>2. ObjectsTyped' /\ OCPTyped'
    BY <2>1, FaultTyped DEF TypeInv, ObjectsTyped, OCPTyped, world, ocp
  <2> QED
    BY <2>1, <2>2, ReturnTyped DEF TypeInv, Versions
<1> QED
  BY <1>1, <1>2, <1>3

\* A change of the stage of a Module whose status is known.
LEMMA StageWritten ==
  ASSUME NEW st \in CRStatus, NEW stage \in Stages, NEW v \in BOOLEAN
  PROVE  /\ [st EXCEPT !.stage = stage] \in CRStatus
         /\ [st EXCEPT !.verified = v] \in CRStatus
BY DEF CRStatus

\* A validation that goes on to another stage.
LEMMA GoOnTyped ==
  ASSUME TypeInv, pc \in Checking, NEW stage \in Stages, NEW step \in Checking,
         GoOn(stage, step), step = "sign" => ShouldBeSigned(listed[cur]),
         UNCHANGED unchangedByCheck
  PROVE  TypeInv'
<1> DEFINE st == [pv.status[cur] EXCEPT !.stage = stage]
<1>1. cur \in Mods /\ pv.status[cur] \in CRStatus /\ verified \in BOOLEAN
  BY DEF TypeInv, LoopTyped
<1>2. st \in CRStatus
  BY <1>1, StageWritten
<1>3. Update([pv.status EXCEPT ![cur] = st]) /\ pc' = step /\ verified' = verified
  BY DEF GoOn, PreflightSetVerificationStage
<1>4. UNCHANGED <<cache, world, current, listed, todo, cur, ocp, changes>>
  BY DEF unchangedByCheck
<1> HIDE DEF st
<1> QED
  BY <1>1, <1>2, <1>3, <1>4, WriteTyped

\* The steps of PreflightUpgradeCheck and updatePreflightStatus.
LEMMA CheckTyped ==
  ASSUME TypeInv,
         \/ \E m \in Mods : StartCheck(m)
         \/ VerifyImage \/ TryBuildOrSign \/ VerifyBuild \/ VerifySign \/ VerifyFails
         \/ UpdateStatus \/ UpdateStage
  PROVE  TypeInv'
<1>0. /\ api \in Objects /\ faults \in 0..MaxFaults
      /\ pc # "idle" => pv \in PreflightValidation
      /\ pc \in Checking => /\ cur \in Mods /\ listed[cur] \in Specs
                            /\ pv.status[cur] \in CRStatus
  BY DEF TypeInv, ObjectsTyped, LoopTyped
<1>1. ASSUME NEW m \in Mods, StartCheck(m) PROVE TypeInv'
  <2>0. /\ m \in todo /\ pc = "loop" /\ cur' = m /\ todo' \subseteq todo
        /\ UNCHANGED <<cache, world, current, listed, ocp, changes>>
    BY <1>1 DEF StartCheck
  <2>1. /\ listed[m] \in Specs /\ pv.status[m] \in CRStatus /\ verified \in BOOLEAN
    BY <2>0 DEF TypeInv, LoopTyped
  <2>2. CASE Result(FALSE) /\ UNCHANGED <<api, faults>>
    <3>1. ObjectsTyped' /\ OCPTyped'
      BY <2>0, <2>2 DEF TypeInv, ObjectsTyped, OCPTyped, world, ocp, Result
    <3>2. LoopTyped'
      BY <2>0, <2>1, <2>2 DEF TypeInv, LoopTyped, Result, Checking, PCs
    <3>3. Versions'
      BY <2>0, <2>2 DEF TypeInv, Versions, Result
    <3> QED
      BY <3>1, <3>2, <3>3 DEF TypeInv
  <2>3. CASE /\ PreflightSetVerificationStage(m, "Image") /\ pc' = "image"
             /\ UNCHANGED verified
    <3> DEFINE st == [pv.status[m] EXCEPT !.stage = "Image"]
    <3>1. st \in CRStatus
      BY <2>1, StageWritten DEF Stages
    <3>2. Update([pv.status EXCEPT ![m] = st])
      BY <2>3 DEF PreflightSetVerificationStage
    <3> HIDE DEF st
    <3> QED
      BY <2>0, <2>1, <2>3, <3>1, <3>2, WriteTyped DEF Checking
  <2> QED
    BY <1>1, <2>2, <2>3 DEF StartCheck
<1>i. CASE VerifyImage
  <2>1. /\ pc \in Checking /\ UNCHANGED unchangedByCheck /\ UNCHANGED <<api, faults>>
        /\ Result(TRUE) \/ MissingImage
    BY <1>i DEF VerifyImage, Checking
  <2> QED
    BY <1>0, <2>1, ResultTyped, MissingTyped
<1>2. CASE TryBuildOrSign
  <2>0. pc \in Checking /\ UNCHANGED unchangedByCheck
    BY <1>2 DEF TryBuildOrSign, Checking
  <2>1. \/ (\E v \in BOOLEAN : Result(v)) /\ UNCHANGED <<api, faults>>
        \/ GoOn("Build", "build")
        \/ GoOn("Sign", "sign") /\ ShouldBeSigned(listed[cur])
    BY <1>2 DEF TryBuildOrSign
  <2>2. {"Build", "Sign"} \subseteq Stages /\ {"build", "sign"} \subseteq Checking
    BY DEF Stages, Checking
  <2> QED
    BY <1>0, <2>0, <2>1, <2>2, ResultTyped, GoOnTyped
<1>3. CASE VerifyBuild
  <2>0. pc \in Checking /\ UNCHANGED unchangedByCheck
    BY <1>3 DEF VerifyBuild, Checking
  <2> DEFINE x == MakeBuildTemplate(listed[cur], pv.kernel, pv.push)
  <2>1. \/ \E v \in BOOLEAN : Result(v) /\ UNCHANGED <<api, faults>>
        \/ /\ Result(FALSE) /\ UNCHANGED faults
           /\ \E n : \/ api' = WithBuild(api, cur, n, x)
                     \/ api' = WithBuild(api, cur, n, Absent)
        \/ GoOn("Sign", "sign") /\ ShouldBeSigned(listed[cur])
    BY <1>3 DEF VerifyBuild, WithBuild
  <2>2. x \in Build
    BY <1>0, <1>3, <2>0, TemplatesTyped DEF VerifyBuild, PreflightValidation
  <2> HIDE DEF x
  <2>3. ASSUME NEW n, NEW y \in Build \cup {Absent},
               api' = WithBuild(api, cur, n, y)
        PROVE  api' \in Objects /\ api'.pv = api.pv
    <3>1. api \in Objects /\ cur \in Mods
      BY <1>0, <2>0
    <3> QED
      BY <2>3, <3>1, BuildWritten
  <2>4. "Sign" \in Stages /\ "sign" \in Checking
    BY DEF Stages, Checking
  <2> QED
    BY <1>0, <2>0, <2>1, <2>2, <2>3, <2>4, ResultTyped, GoOnTyped
<1>4. CASE VerifySign
  <2>0. pc \in Checking /\ pc = "sign" /\ UNCHANGED unchangedByCheck /\ faults' = faults
    BY <1>4 DEF VerifySign, Checking
  <2> DEFINE x == MakeJobTemplate(listed[cur], pv.kernel, pv.push)
  <2>1. \E v \in BOOLEAN : Result(v) /\ UNCHANGED faults
        /\ \/ UNCHANGED api
           \/ \E n : \/ api' = WithJob(api, cur, n, x)
                     \/ api' = WithJob(api, cur, n, Absent)
    BY <1>4 DEF VerifySign, WithJob
  <2>2. x \in SignJob
    <3>1. ShouldBeSigned(listed[cur])
      BY <2>0 DEF TypeInv, LoopTyped
    <3> QED
      BY <1>0, <2>0, <3>1, TemplatesTyped DEF PreflightValidation
  <2> HIDE DEF x
  <2>3. ASSUME NEW n, NEW y \in SignJob \cup {Absent},
               api' = WithJob(api, cur, n, y)
        PROVE  api' \in Objects /\ api'.pv = api.pv
    <3>1. api \in Objects /\ cur \in Mods
      BY <1>0, <2>0
    <3> QED
      BY <2>3, <3>1, JobWritten
  <2> QED
    BY <1>0, <2>0, <2>1, <2>2, <2>3, ResultTyped
<1>5. CASE VerifyFails
  <2>1. /\ pc \in Checking /\ UNCHANGED unchangedByCheck /\ Fault /\ api' = api
        /\ Result(FALSE) \/ MissingImage
    BY <1>5 DEF VerifyFails, Checking
  <2> QED
    BY <1>0, <2>1, ResultTyped, MissingTyped, FaultTyped
<1>6. CASE UpdateStatus
  <2> DEFINE st == [pv.status[cur] EXCEPT !.verified = verified]
  <2>0. /\ pc = "status" /\ pc \in Checking /\ pc' = "stage"
        /\ UNCHANGED <<cache, world, current, listed, todo, cur, ocp, changes, verified>>
    BY <1>6 DEF UpdateStatus, unchangedByCheck, Checking
  <2>1. verified \in BOOLEAN
    BY DEF TypeInv, LoopTyped
  <2>2. st \in CRStatus
    BY <1>0, <2>0, <2>1, StageWritten DEF Stages
  <2>3. Update([pv.status EXCEPT ![cur] = st])
    BY <1>6 DEF UpdateStatus, PreflightSetVerificationStatus
  <2> HIDE DEF st
  <2> QED
    BY <1>0, <2>0, <2>1, <2>2, <2>3, WriteTyped DEF Checking
<1>7. CASE UpdateStage
  <2> DEFINE stage == IF verified THEN "Done" ELSE "Requeued"
             st == [pv.status[cur] EXCEPT !.stage = stage]
  <2>0. /\ pc = "stage" /\ pc \in Checking /\ pc' = "loop"
        /\ UNCHANGED <<cache, world, current, listed, todo, cur, ocp, changes, verified>>
    BY <1>7 DEF UpdateStage, unchangedByCheck, Checking
  <2>1. verified \in BOOLEAN /\ stage \in Stages
    BY DEF TypeInv, LoopTyped, Stages
  <2>2. Update([pv.status EXCEPT ![cur] = st])
    BY <1>7 DEF UpdateStage, PreflightSetVerificationStage
  <2> HIDE DEF stage
  <2>3. st \in CRStatus
    BY <1>0, <2>0, <2>1, StageWritten
  <2> HIDE DEF st
  <2> QED
    BY <1>0, <2>0, <2>1, <2>2, <2>3, WriteTyped DEF Checking
<1> QED
  BY <1>i, <1>1, <1>2, <1>3, <1>4, <1>5, <1>6, <1>7

\* The Driver Toolkit mapping.
LEMMA DTKTyped ==
  /\ NewKernelOsDtkMapping \in DTKMaps
  /\ \A maps \in DTKMaps, k \in Kernels, os \in {ReleaseOS, NodeOS} :
        SetNodeInfo(maps, k, os) \in DTKMaps
  /\ \A maps \in DTKMaps, os \in {ReleaseOS, NodeOS}, img \in {ReleaseDTK, StreamDTK} :
        SetImageStreamInfo(maps, os, img) \in DTKMaps
BY DEF DTKMaps, NewKernelOsDtkMapping, SetNodeInfo, SetImageStreamInfo

\* The PreflightValidationOCP controller.
LEMMA OCPStepTyped ==
  ASSUME TypeInv, ReconcileOCP \/ OCPReconcileError
  PROVE  TypeInv'
<1>0. /\ api \in Objects /\ dtk \in DTKMaps /\ faults \in 0..MaxFaults
      /\ fresh \in BOOLEAN /\ (fresh => cache.pv = api.pv)
      /\ current \in BOOLEAN /\ (current => api.pv \in PreflightValidation)
  BY DEF TypeInv, ObjectsTyped, LoopTyped, Versions
<1>1. UNCHANGED <<cache, registry, configMaps, queued, pc, locals, changes>>
  BY DEF ReconcileOCP, OCPNothingToDo, PreflightOCPUpdateStatus,
     PreparePreflightValidation, OCPSetNodeInfo, OCPSetImageStreamInfo,
     CreatePreflightValidation, OCPReconcileError, unchangedByOCP
<1>2. SUFFICES /\ api' \in Objects /\ dtk' \in DTKMaps /\ faults' \in 0..MaxFaults
               /\ OCPTyped' /\ fresh' \in BOOLEAN
               /\ \/ fresh' = fresh /\ api'.pv = api.pv
                  \/ ~ fresh' /\ api.pv = Absent
  <2>1. current => api.pv # Absent
    BY <1>0, StatusAssumption
  <2>2. ObjectsTyped'
    BY <1>1, <1>2 DEF TypeInv, ObjectsTyped
  <2>3. fresh' => cache'.pv = api'.pv
    BY <1>0, <1>1, <1>2
  <2> QED
    BY <1>0, <1>1, <1>2, <2>1, <2>2, <2>3, QuietTyped DEF locals
<1>3. CASE OCPNothingToDo
  BY <1>0, <1>3 DEF OCPNothingToDo, TypeInv, OCPTyped
<1>4. CASE PreflightOCPUpdateStatus
  <2> DEFINE vs == {m \in Mods : IsVerified(cache.pv, m)}
             x  == [api.pvo EXCEPT !.verified = vs]
  <2>1. /\ api' = [api EXCEPT !.pvo = x] /\ api.pvo # Absent
        /\ UNCHANGED <<fresh, dtk, ocpPc, pvo, faults>>
    BY <1>4 DEF PreflightOCPUpdateStatus
  <2>2. vs \in SUBSET Mods
    OBVIOUS
  <2> HIDE DEF vs
  <2>3. x \in PreflightValidationOCP
    BY <1>0, <2>1, <2>2 DEF Objects, PreflightValidationOCP
  <2> HIDE DEF x
  <2>4. api' \in Objects
    BY <1>0, <2>1, <2>3, FieldWritten
  <2>5. api'.pv = api.pv
    BY <1>0, <2>1 DEF Objects
  <2> QED
    BY <1>0, <2>1, <2>4, <2>5 DEF TypeInv, OCPTyped
<1>5. CASE PreparePreflightValidation
  <2>1. /\ api.pvo # Absent /\ ReleaseKernelFor(api.pvo) # Absent /\ pvo' = api.pvo
        /\ ocpPc' \in {"setNodeInfo", "create"}
        /\ UNCHANGED <<api, fresh, dtk, faults>>
    BY <1>5 DEF PreparePreflightValidation
  <2>2. api.pvo \in PreflightValidationOCP
    BY <1>0, <2>1 DEF Objects
  <2>3. ReleaseKernelFor(api.pvo) \in Kernels
    BY <2>1, <2>2, PreflightAssumption DEF ReleaseKernelFor, PreflightValidationOCP
  <2> QED
    BY <1>0, <2>1, <2>2, <2>3 DEF OCPTyped
<1>6. CASE OCPSetNodeInfo
  <2>1. /\ ocpPc = "setNodeInfo" /\ ocpPc' = "setImageStreamInfo"
        /\ dtk' = SetNodeInfo(dtk, ReleaseKernelFor(pvo), ReleaseOS)
        /\ UNCHANGED <<api, fresh, pvo, faults>>
    BY <1>6 DEF OCPSetNodeInfo
  <2>2. pvo \in PreflightValidationOCP /\ ReleaseKernelFor(pvo) \in Kernels
    BY <2>1 DEF TypeInv, OCPTyped
  <2>3. dtk' \in DTKMaps
    BY <1>0, <2>1, <2>2, DTKTyped
  <2> QED
    BY <1>0, <2>1, <2>2, <2>3 DEF OCPTyped
<1>7. CASE OCPSetImageStreamInfo
  <2>1. /\ ocpPc = "setImageStreamInfo" /\ ocpPc' = "create"
        /\ dtk' = SetImageStreamInfo(dtk, ReleaseOS, ReleaseDTK)
        /\ UNCHANGED <<api, fresh, pvo, faults>>
    BY <1>7 DEF OCPSetImageStreamInfo
  <2>2. pvo \in PreflightValidationOCP /\ ReleaseKernelFor(pvo) \in Kernels
    BY <2>1 DEF TypeInv, OCPTyped
  <2>3. dtk' \in DTKMaps
    BY <1>0, <2>1, DTKTyped
  <2> QED
    BY <1>0, <2>1, <2>2, <2>3 DEF OCPTyped
<1>8. CASE CreatePreflightValidation
  <2> DEFINE x == [kernel |-> ReleaseKernelFor(pvo), push |-> pvo.push, status |-> NoneOf]
  <2>1. /\ ocpPc = "create" /\ (OCPReturn(TRUE) \/ OCPReturn(FALSE))
        /\ UNCHANGED <<dtk, faults>>
        /\ \/ api.pv = Absent /\ api' = [api EXCEPT !.pv = x] /\ fresh' = FALSE
           \/ UNCHANGED <<api, fresh>>
    BY <1>8 DEF CreatePreflightValidation
  <2>2. x \in PreflightValidation
    <3>1. ocpPc = "create"
      BY <1>8 DEF CreatePreflightValidation
    <3>2. pvo \in PreflightValidationOCP /\ ReleaseKernelFor(pvo) \in Kernels
      BY <3>1 DEF TypeInv, OCPTyped
    <3>3. NoneOf \in CRStatuses
      BY DEF NoneOf, CRStatuses
    <3> QED
      BY <3>2, <3>3 DEF PreflightValidation, PreflightValidationOCP
  <2> HIDE DEF x
  <2>3. OCPTyped'
    BY <2>1 DEF OCPTyped, OCPReturn
  <2>4. api' \in Objects
    BY <1>0, <2>1, <2>2, FieldWritten
  <2> QED
    BY <1>0, <2>1, <2>3, <2>4
<1>9. CASE OCPReconcileError
  BY <1>0, <1>9, FaultTyped DEF OCPReconcileError, OCPReturn, OCPTyped
<1> QED
  BY <1>3, <1>4, <1>5, <1>6, <1>7, <1>8, <1>9 DEF ReconcileOCP

\* Deliveries and restarts.
LEMMA DeliveredTyped ==
  ASSUME TypeInv, Deliver \/ Restart
  PROVE  TypeInv'
<1>0. /\ api \in Objects /\ cache \in Seen /\ fresh \in BOOLEAN
      /\ (fresh => cache.pv = api.pv) /\ OCPTyped /\ faults \in 0..MaxFaults
      /\ current \in BOOLEAN
  BY DEF TypeInv, ObjectsTyped, LoopTyped, Versions
<1>1. /\ api.pv \in PreflightValidation \cup {Absent}
      /\ api.mods \in [Mods -> Specs \cup {Absent}]
      /\ api.builds \in [Mods -> [Names -> Build \cup {Absent}]]
      /\ api.jobs \in [Mods -> [Names -> SignJob \cup {Absent}]]
  BY <1>0 DEF Objects
<1>2. CASE Deliver
  <2>1. cache' \in Seen /\ fresh' \in BOOLEAN /\ (fresh' => cache'.pv = api.pv)
    <3>1. CASE DeliverPreflight
      BY <1>0, <1>1, <3>1 DEF DeliverPreflight, Seen
    <3>2. CASE DeliverModules
      BY <1>0, <1>1, <3>2 DEF DeliverModules, Seen
    <3>3. ASSUME NEW kind \in {"builds", "jobs"}, DeliverOwned(kind)
          PROVE  cache' \in Seen /\ fresh' \in BOOLEAN /\ (fresh' => cache'.pv = api.pv)
      <4>1. CASE kind = "builds"
        BY <1>0, <1>1, <3>3, <4>1 DEF DeliverOwned, Seen
      <4>2. CASE kind = "jobs"
        BY <1>0, <1>1, <3>3, <4>2 DEF DeliverOwned, Seen
      <4> QED
        BY <4>1, <4>2
    <3> QED
      BY <1>2, <3>1, <3>2, <3>3 DEF Deliver
  <2>2. UNCHANGED <<api, registry, configMaps, dtk, pc, locals, ocpPc, pvo, changes, faults>>
    BY <1>2 DEF Deliver, DeliverPreflight, DeliverModules, DeliverOwned, world, ocp
  <2>3. ObjectsTyped' /\ OCPTyped'
    BY <1>0, <2>1, <2>2 DEF TypeInv, ObjectsTyped, OCPTyped
  <2> QED
    BY <1>0, <2>1, <2>2, <2>3, QuietTyped DEF locals
<1>3. CASE Restart
  <2>1. cache' \in Seen /\ cache'.pv = api.pv
    <3>1. cache' = [kind \in Cached |-> api[kind]]
      BY <1>3 DEF Restart
    <3>2. DOMAIN cache' = Cached /\ \A kind \in Cached : cache'[kind] = api[kind]
      BY <3>1
    <3>3. /\ cache'.pv = api.pv /\ cache'.mods = api.mods /\ cache'.builds = api.builds
          /\ cache'.jobs = api.jobs
      BY <3>2 DEF Cached
    <3>4. cache' = [pv |-> api.pv, mods |-> api.mods, builds |-> api.builds,
                    jobs |-> api.jobs]
      BY <3>1 DEF Cached
    <3> QED
      BY <1>1, <3>3, <3>4 DEF Seen
  <2>2. /\ UNCHANGED <<api, registry, configMaps, changes>> /\ Fault /\ fresh' = TRUE
        /\ dtk' = NewKernelOsDtkMapping /\ ocpPc' = "idle" /\ pvo' = Absent
        /\ pc' = "idle" /\ IdleLocals
    BY <1>3 DEF Restart
  <2>3. ObjectsTyped' /\ OCPTyped'
    BY <1>0, <2>1, <2>2, DTKTyped, FaultTyped DEF TypeInv, ObjectsTyped, OCPTyped
  <2> QED
    BY <2>1, <2>2, <2>3, ReturnTyped
<1> QED
  BY <1>2, <1>3

\* What happens around the two controllers.
LEMMA SurroundingsTyped ==
  ASSUME TypeInv, Cluster \/ Users
  PROVE  TypeInv'
<1>0. /\ api \in Objects /\ cache \in Seen /\ dtk \in DTKMaps
      /\ registry \subseteq ImageRef /\ configMaps \subseteq Dockerfiles
      /\ fresh \in BOOLEAN /\ (fresh => cache.pv = api.pv)
      /\ current \in BOOLEAN
      /\ changes \in 0..MaxChanges /\ faults \in 0..MaxFaults /\ OCPTyped
  BY DEF TypeInv, ObjectsTyped, LoopTyped, Versions
<1>1. ASSUME UNCHANGED operator, api' \in Objects, dtk' \in DTKMaps,
             registry' \subseteq ImageRef, configMaps' \subseteq Dockerfiles,
             changes' \in 0..MaxChanges, pv' = pv,
             \/ UNCHANGED <<fresh, current>> /\ api'.pv = api.pv
             \/ fresh' = FALSE /\ current' = FALSE
      PROVE  TypeInv'
  <2>1. UNCHANGED <<cache, pc, listed, todo, cur, verified, ocpPc, pvo, faults>>
    BY <1>1 DEF operator, ocp
  <2>2. ObjectsTyped' /\ OCPTyped'
    BY <1>0, <1>1, <2>1 DEF ObjectsTyped, OCPTyped
  <2>3. fresh' => cache'.pv = api'.pv
    BY <1>0, <1>1, <2>1
  <2>4. current' \in BOOLEAN /\ (current' => current /\ api'.pv = api.pv)
    <3>1. CASE current' = current /\ api'.pv = api.pv
      BY <1>0, <3>1
    <3>2. CASE current' = FALSE
      BY <3>2
    <3> QED
      BY <1>1, <3>1, <3>2
  <2> QED
    BY <1>1, <2>1, <2>2, <2>3, <2>4, QuietTyped
<1>2. CASE NodeKernelReconcile \/ ImageStreamReconcile
  <2>1. /\ Change /\ UNCHANGED <<api, fresh, registry, configMaps, pv, current, operator>>
        /\ \/ dtk' = SetNodeInfo(dtk, ReleaseKernel, NodeOS)
           \/ dtk' = SetImageStreamInfo(dtk, NodeOS, StreamDTK)
    BY <1>2 DEF NodeKernelReconcile, ImageStreamReconcile
  <2>2. dtk' \in DTKMaps
    BY <1>0, <2>1, DTKTyped, PreflightAssumption
  <2> QED
    BY <1>0, <1>1, <2>1, <2>2, ChangeTyped
<1>3. CASE PreflightCollected
  <2>1. /\ api' = [api EXCEPT !.pv = Absent] /\ fresh' = FALSE /\ current' = FALSE
        /\ UNCHANGED <<registry, configMaps, dtk, pv, operator, changes>>
    BY <1>3 DEF PreflightCollected, world
  <2>2. api' \in Objects
    BY <1>0, <2>1, FieldWritten
  <2> QED
    BY <1>0, <1>1, <2>1, <2>2
<1>4. ASSUME NEW m \in Mods, NEW n \in Names, BuildCompletes(m, n) \/ BuildFails(m, n)
      PROVE  TypeInv'
  <2> DEFINE x == api.builds[m][n]
  <2>1. /\ x # Absent
        /\ \E p \in BuildPhase : api' = WithBuild(api, m, n, [x EXCEPT !.phase = p])
        /\ registry' \subseteq registry \cup ({x.output} \ {Absent})
        /\ UNCHANGED <<fresh, configMaps, dtk, pv, current, operator, changes>>
    BY <1>4 DEF BuildCompletes, BuildFails, WithBuild, BuildPhase, unchangedByCluster
  <2>2. x \in Build
    BY <1>0, <2>1 DEF Objects
  <2> HIDE DEF x
  <2>3. api' \in Objects /\ api'.pv = api.pv
    BY <1>0, <2>1, <2>2, PhaseWritten, BuildWritten
  <2>4. registry' \subseteq ImageRef
    BY <1>0, <2>1, <2>2, PhaseWritten DEF BuildPhase
  <2> QED
    BY <1>0, <1>1, <2>1, <2>3, <2>4
<1>5. ASSUME NEW m \in Mods, NEW n \in Names, JobStarts(m, n) \/ JobEnds(m, n)
      PROVE  TypeInv'
  <2> DEFINE x == api.jobs[m][n]
  <2>1. /\ x # Absent
        /\ \E p \in JobPhase : api' = WithJob(api, m, n, [x EXCEPT !.phase = p])
        /\ registry' \subseteq registry \cup ({x.hash[3]} \ {Absent})
        /\ UNCHANGED <<fresh, configMaps, dtk, pv, current, operator, changes>>
    BY <1>5 DEF JobStarts, JobEnds, WithJob, JobPhase, unchangedByCluster
  <2>2. x \in SignJob
    BY <1>0, <2>1 DEF Objects
  <2> HIDE DEF x
  <2>3. api' \in Objects /\ api'.pv = api.pv
    BY <1>0, <2>1, <2>2, PhaseWritten, JobWritten
  <2>4. registry' \subseteq ImageRef
    BY <1>0, <2>1, <2>2, PhaseWritten DEF JobPhase
  <2> QED
    BY <1>0, <1>1, <2>1, <2>3, <2>4
<1>6. ASSUME NEW m \in Mods, NEW n \in Names, NEW kind \in {"builds", "jobs"},
             OwnedObjectCollected(kind, m, n)
      PROVE  TypeInv'
  <2>1. UNCHANGED <<registry, fresh, configMaps, dtk, pv, current, operator, changes>>
    BY <1>6 DEF OwnedObjectCollected, unchangedByCluster
  <2>2. api' = WithBuild(api, m, n, Absent) \/ api' = WithJob(api, m, n, Absent)
    BY <1>6 DEF OwnedObjectCollected, WithBuild, WithJob
  <2>3. api' \in Objects /\ api'.pv = api.pv
    BY <1>0, <2>2, BuildWritten, JobWritten
  <2> QED
    BY <1>0, <1>1, <2>1, <2>3
<1>7. ASSUME NEW m \in EditedMods, NEW s \in Specs \cup {Absent}, ChangeModule(m, s)
      PROVE  TypeInv'
  <2>1. /\ Change /\ api' = [api EXCEPT !.mods[m] = s]
        /\ UNCHANGED <<fresh, registry, configMaps, dtk, pv, current, operator>>
    BY <1>7 DEF ChangeModule, world
  <2>2. api' \in Objects
    BY <1>0, <2>1, FieldWritten, PreflightAssumption
  <2>3. api'.pv = api.pv
    BY <1>0, <2>1 DEF Objects
  <2> QED
    BY <1>0, <1>1, <2>1, <2>2, <2>3, ChangeTyped
<1>8. CASE DeletePreflightValidationOCP
  <2>1. /\ Change /\ api' = [api EXCEPT !.pvo = Absent]
        /\ UNCHANGED <<fresh, registry, configMaps, dtk, pv, current, operator>>
    BY <1>8 DEF DeletePreflightValidationOCP, world
  <2>2. api' \in Objects /\ api'.pv = api.pv
    BY <1>0, <2>1 DEF Objects
  <2> QED
    BY <1>0, <1>1, <2>1, <2>2, ChangeTyped
<1>9. ASSUME NEW d \in Dockerfiles, CreateConfigMap(d)
      PROVE  TypeInv'
  <2>1. /\ Change /\ configMaps' = configMaps \cup {d}
        /\ UNCHANGED <<api, fresh, registry, dtk, pv, current, operator>>
    BY <1>9 DEF CreateConfigMap
  <2> QED
    BY <1>0, <1>1, <2>1, ChangeTyped
<1>10. ASSUME NEW m \in Mods, PushImage(m)
       PROVE  TypeInv'
  <2> DEFINE s == api.mods[m]
  <2>1. /\ Change /\ s # Absent
        /\ registry' \subseteq registry \cup {SignSource(s, ReleaseKernel),
                                              ContainerImage(s, ReleaseKernel)}
        /\ UNCHANGED <<api, fresh, configMaps, dtk, pv, current, operator>>
    BY <1>10 DEF PushImage
  <2>2. s \in Specs /\ ReleaseKernel \in Kernels
    BY <1>0, <2>1, PreflightAssumption DEF Objects
  <2> HIDE DEF s
  <2>3. registry' \subseteq ImageRef
    BY <1>0, <2>1, <2>2, ImagesTyped
  <2> QED
    BY <1>0, <1>1, <2>1, <2>3, ChangeTyped
<1> QED
  BY <1>2, <1>3, <1>4, <1>5, <1>6, <1>7, <1>8, <1>9, <1>10 DEF Cluster, Users

\* The objects, the caches and the reconciliations are well typed at the start.
LEMMA InitTyped ==
  ASSUME Init
  PROVE  TypeInv
<1>1. PICK ms \in InitMods, push \in InitPush, useRT \in BOOLEAN, cms \in {{}, Dockerfiles} :
        /\ api = [pvo |-> [push |-> push, useRT |-> useRT, verified |-> {}],
                  pv |-> Absent, mods |-> ms, builds |-> NoObjects,
                  jobs |-> NoObjects]
        /\ configMaps = cms
  BY DEF Init
<1>2. /\ cache = [kind \in Cached |-> api[kind]] /\ fresh = TRUE /\ registry = {}
      /\ dtk = NewKernelOsDtkMapping /\ pc = "idle" /\ pv = Absent
      /\ current = FALSE /\ listed = NoneOf /\ todo = {} /\ cur = Absent
      /\ verified = FALSE /\ ocpPc = "idle" /\ pvo = Absent /\ changes = 0 /\ faults = 0
  BY DEF Init
<1>3. /\ ms \in [Mods -> Specs \cup {Absent}]
      /\ [push |-> push, useRT |-> useRT, verified |-> {}] \in PreflightValidationOCP
      /\ NoObjects \in [Mods -> [Names -> Build \cup {Absent}]]
      /\ NoObjects \in [Mods -> [Names -> SignJob \cup {Absent}]]
  BY PreflightAssumption DEF PreflightValidationOCP, NoObjects
<1>4. api \in Objects
  BY <1>1, <1>3 DEF Objects
<1>5. cache = [pv |-> api.pv, mods |-> api.mods, builds |-> api.builds, jobs |-> api.jobs]
  BY <1>2 DEF Cached
<1>6. cache \in Seen /\ cache.pv = api.pv
  BY <1>4, <1>5 DEF Objects, Seen
<1>7. changes \in 0..MaxChanges /\ faults \in 0..MaxFaults
  BY <1>2, PreflightAssumption
<1>8. ObjectsTyped
  BY <1>1, <1>2, <1>4, <1>6, <1>7, DTKTyped DEF ObjectsTyped
<1>9. LoopTyped /\ OCPTyped /\ Versions
  BY <1>2, <1>6 DEF LoopTyped, OCPTyped, Versions, PCs, Checking, NoneOf
<1> QED
  BY <1>8, <1>9 DEF TypeInv

\* Every step keeps the types.
LEMMA StepTyped ==
  ASSUME TypeInv, [Next]_vars
  PROVE  TypeInv'
<1>1. CASE UNCHANGED vars
  BY <1>1 DEF TypeInv, ObjectsTyped, LoopTyped, OCPTyped, Versions, vars, world, locals, ocp
<1> QED
  BY <1>1, ReadsTyped, CheckTyped, OCPStepTyped, DeliveredTyped, SurroundingsTyped
  DEF Next, Reconcile

\* TypeOK is invariant: in particular no status, template or copy is ever taken from
\* an object or a Module that is not there, whatever the caches show.
THEOREM TypeCorrect == Spec => []TypeOK
<1>1. Init => TypeInv
  BY InitTyped
<1>2. TypeInv /\ [Next]_vars => TypeInv'
  BY StepTyped
<1>3. TypeInv => TypeOK
  BY DEF TypeInv, ObjectsTyped, LoopTyped, OCPTyped, TypeOK, Objects, Seen, PCs
<1> QED
  BY <1>1, <1>2, <1>3, PTL DEF Spec

-----------------------------------------------------------------------------
(* What the reconciliation's copy of the object and the stored one say of   *)
(* each Module.                                                             *)

\* Done is said of verified Modules only.
DoneOK(p) ==
    \A m \in Mods :
        p # Absent /\ p.status[m] # Absent /\ p.status[m].stage = "Done"
            => p.status[m].verified

\* q is a later version of p: it has forgotten no verified Module.
Follows(p, q) ==
    /\ q.kernel = p.kernel /\ q.push = p.push
    /\ \A m \in Mods : IsVerified(p, m) => IsVerified(q, m)

\* The copy that the API server would accept knows of everything that was verified,
\* and the Modules still to be validated are not verified in it.
CopyInv ==
    /\ DoneOK(pv)
    /\ pc = "idle" => ~ current
    /\ current => Follows(api.pv, pv)
    /\ \A m \in todo : ~ pv.status[m].verified
    /\ pc \in Checking => cur \notin todo
    /\ pc \in Checking \ {"stage"} => ~ pv.status[cur].verified
    /\ pc = "stage" => pv.status[cur].verified = verified

StatusInv == DoneOK(api.pv) /\ DoneOK(cache.pv) /\ CopyInv

\* What VerifiedStaysVerified says of one step.
VerifiedKept ==
    \A m \in Mods :
        /\ IsVerified(api.pv, m) /\ api'.pv # Absent
        /\ pc = "modules" => cache.mods[m] # Absent
        => IsVerified(api'.pv, m)

\* A write of one Module's status that forgets no verdict and says Done of verified
\* Modules only, whether the API server accepts it or not.
LEMMA WriteKept ==
  ASSUME TypeInv, StatusInv, pc # "idle",
         NEW m \in Mods, pv.status[m] \in CRStatus,
         NEW st \in CRStatus, Update([pv.status EXCEPT ![m] = st]),
         pv.status[m].verified => st.verified,
         st.stage = "Done" => st.verified,
         UNCHANGED <<cache, current>>
  PROVE  /\ DoneOK(api'.pv) /\ DoneOK(cache'.pv) /\ DoneOK(pv')
         /\ current' => Follows(api'.pv, pv')
         /\ pv'.status[m] = st
         /\ \A x \in Mods : x # m => pv'.status[x] = pv.status[x]
         /\ VerifiedKept
<1> DEFINE ss == [pv.status EXCEPT ![m] = st]
<1>0. /\ pv \in PreflightValidation /\ pv.status \in CRStatuses /\ current \in BOOLEAN
      /\ api \in Objects /\ (current => api.pv \in PreflightValidation)
  BY DEF TypeInv, ObjectsTyped, LoopTyped, Versions, PreflightValidation
<1>1. /\ ss \in CRStatuses /\ ss[m] = st
      /\ \A x \in Mods : x # m => ss[x] = pv.status[x]
  BY <1>0 DEF CRStatuses
<1> HIDE DEF ss
<1>2. Update(ss)
  BY DEF ss
<1>3. /\ pv' \in PreflightValidation /\ pv'.status = ss
      /\ pv'.kernel = pv.kernel /\ pv'.push = pv.push
      /\ \/ api' = api
         \/ current /\ api' = [api EXCEPT !.pv = [api.pv EXCEPT !.status = ss]]
  BY <1>0, <1>1, <1>2, UpdateTyped
<1>4. st # Absent /\ pv # Absent /\ pv' # Absent
  BY <1>0, <1>3, StatusAssumption
<1>5. DoneOK(pv')
  BY <1>1, <1>3, <1>4 DEF DoneOK, StatusInv, CopyInv
<1>6. \A x \in Mods : IsVerified(pv, x) => IsVerified(pv', x)
  BY <1>1, <1>3, <1>4 DEF IsVerified
<1>7. DoneOK(cache'.pv)
  BY DEF StatusInv
<1>8. CASE api' = api
  <2>1. current' => Follows(api'.pv, pv')
    BY <1>3, <1>6, <1>8 DEF StatusInv, CopyInv, Follows
  <2>2. DoneOK(api'.pv) /\ VerifiedKept
    BY <1>8 DEF StatusInv, VerifiedKept
  <2> QED
    BY <1>1, <1>3, <1>5, <1>7, <2>1, <2>2
<1>9. CASE current /\ api' = [api EXCEPT !.pv = [api.pv EXCEPT !.status = ss]]
  <2>1. api'.pv = [api.pv EXCEPT !.status = ss]
    BY <1>0, <1>9 DEF Objects
  <2>2. /\ api'.pv \in PreflightValidation /\ api'.pv.status = ss
        /\ api'.pv.kernel = api.pv.kernel /\ api'.pv.push = api.pv.push
    BY <1>0, <1>1, <1>9, <2>1 DEF PreflightValidation
  <2>3. api'.pv # Absent
    BY <2>2, StatusAssumption
  <2>4. \A x \in Mods : IsVerified(api'.pv, x) <=> IsVerified(pv', x)
    BY <1>3, <1>4, <2>2, <2>3 DEF IsVerified
  <2>5. DoneOK(api'.pv)
    BY <1>3, <1>4, <1>5, <2>2, <2>3 DEF DoneOK
  <2>6. Follows(api.pv, pv)
    BY <1>9 DEF StatusInv, CopyInv
  <2>7. Follows(api'.pv, pv')
    BY <1>3, <2>2, <2>4, <2>6 DEF Follows
  <2>8. VerifiedKept
    BY <1>6, <2>4, <2>6 DEF VerifiedKept, Follows
  <2> QED
    BY <1>1, <1>3, <1>5, <1>7, <2>5, <2>7, <2>8
<1> QED
  BY <1>3, <1>8, <1>9

\* A step of a validation that writes the status of the Module it is about.
LEMMA WriteStatusKept ==
  ASSUME TypeInv, StatusInv, pc \in Checking \cup {"loop"},
         NEW m \in Mods, m = cur' /\ (m \in todo \/ (m = cur /\ pc \in Checking)),
         NEW st \in CRStatus, Update([pv.status EXCEPT ![m] = st]),
         pv.status[m].verified => st.verified,
         st.stage = "Done" => st.verified,
         pc' \in Checking \cup {"loop"}, todo' = todo \ {m},
         pc' \in Checking \ {"stage"} => ~ st.verified,
         pc' = "stage" => st.verified = verified',
         UNCHANGED <<cache, current>>
  PROVE  StatusInv' /\ VerifiedKept
<1>1. pv.status[m] \in CRStatus /\ pc # "idle"
  BY DEF TypeInv, LoopTyped, Checking
<1>2. /\ DoneOK(api'.pv) /\ DoneOK(cache'.pv) /\ DoneOK(pv')
      /\ current' => Follows(api'.pv, pv')
      /\ pv'.status[m] = st
      /\ \A x \in Mods : x # m => pv'.status[x] = pv.status[x]
      /\ VerifiedKept
  BY <1>1, WriteKept
<1>3. \A x \in todo' : ~ pv'.status[x].verified
  BY <1>2 DEF TypeInv, LoopTyped, StatusInv, CopyInv
<1>4. CopyInv'
  BY <1>2, <1>3 DEF CopyInv, Checking
<1> QED
  BY <1>2, <1>4 DEF StatusInv

\* A step that leaves the reconciliation's copy alone, or takes its version away.
LEMMA QuietKept ==
  ASSUME StatusInv, UNCHANGED <<pc, pv, verified, todo, cur>>,
         DoneOK(api'.pv), DoneOK(cache'.pv),
         current' => current /\ api'.pv = api.pv
  PROVE  StatusInv'
BY DEF StatusInv, CopyInv

\* A reconciliation that returns.
LEMMA ReturnKept ==
  ASSUME DoneOK(api'.pv), DoneOK(cache'.pv), pc' = "idle", IdleLocals
  PROVE  StatusInv'
BY DEF StatusInv, CopyInv, IdleLocals, DoneOK, Checking

\* What a verification step does: it has a result and leaves the stored status
\* alone, or it goes on to another stage.
LEMMA VerifySteps ==
  ASSUME TypeInv, VerifyImage \/ TryBuildOrSign \/ VerifyBuild \/ VerifySign \/ VerifyFails
  PROVE  /\ pc \in {"image", "missing", "build", "sign"} /\ UNCHANGED unchangedByCheck
         /\ \/ (\E v \in BOOLEAN : Result(v)) /\ api'.pv = api.pv
            \/ MissingImage /\ api' = api
            \/ \E stage \in {"Build", "Sign"}, step \in {"build", "sign"} : GoOn(stage, step)
<1>0. api \in Objects
  BY DEF TypeInv, ObjectsTyped
<1>1. CASE VerifyImage
  BY <1>1 DEF VerifyImage
<1>t. CASE TryBuildOrSign
  BY <1>t DEF TryBuildOrSign
<1>2. CASE VerifyBuild
  <2>1. \/ (\E v \in BOOLEAN : Result(v)) /\ UNCHANGED api
        \/ Result(FALSE) /\ \E n, x : api' = [api EXCEPT !.builds[cur][n] = x]
        \/ GoOn("Sign", "sign")
    BY <1>2 DEF VerifyBuild
  <2>2. (\E n, x : api' = [api EXCEPT !.builds[cur][n] = x]) => api'.pv = api.pv
    BY <1>0 DEF Objects
  <2>3. pc = "build" /\ UNCHANGED unchangedByCheck
    BY <1>2 DEF VerifyBuild
  <2> QED
    BY <2>1, <2>2, <2>3
<1>3. CASE VerifySign
  <2>1. /\ \E v \in BOOLEAN : Result(v)
        /\ UNCHANGED api \/ \E n, x : api' = [api EXCEPT !.jobs[cur][n] = x]
    BY <1>3 DEF VerifySign
  <2>2. (\E n, x : api' = [api EXCEPT !.jobs[cur][n] = x]) => api'.pv = api.pv
    BY <1>0 DEF Objects
  <2>3. pc = "sign" /\ UNCHANGED unchangedByCheck
    BY <1>3 DEF VerifySign
  <2> QED
    BY <2>1, <2>2, <2>3
<1>4. CASE VerifyFails
  BY <1>4 DEF VerifyFails
<1> QED
  BY <1>1, <1>t, <1>2, <1>3, <1>4

\* The steps of PreflightUpgradeCheck and updatePreflightStatus keep what was
\* verified.
LEMMA CheckKept ==
  ASSUME TypeInv, StatusInv,
         \/ \E m \in Mods : StartCheck(m)
         \/ VerifyImage \/ TryBuildOrSign \/ VerifyBuild \/ VerifySign \/ VerifyFails
         \/ UpdateStatus \/ UpdateStage
  PROVE  StatusInv' /\ VerifiedKept
<1>0. /\ pc \in Checking => /\ cur \in Mods /\ pv.status[cur] \in CRStatus
                            /\ cur \notin todo
      /\ verified \in BOOLEAN
      /\ pc \in Checking \ {"stage"} => ~ pv.status[cur].verified
      /\ pc = "stage" => pv.status[cur].verified = verified
  BY DEF TypeInv, LoopTyped, StatusInv, CopyInv
<1>a. ASSUME api'.pv = api.pv, pv' = pv, UNCHANGED <<cache, current>>,
             pc' \in {"missing", "status"}, cur' \in Mods, ~ pv.status[cur'].verified,
             cur' \notin todo', todo' \subseteq todo
      PROVE  StatusInv' /\ VerifiedKept
  BY <1>a DEF StatusInv, CopyInv, VerifiedKept, Checking
<1>b. ASSUME NEW m \in Mods, NEW stage \in Stages, pv.status[m] \in CRStatus
      PROVE  /\ [pv.status[m] EXCEPT !.stage = stage] \in CRStatus
             /\ [pv.status[m] EXCEPT !.stage = stage].stage = stage
             /\ [pv.status[m] EXCEPT !.stage = stage].verified = pv.status[m].verified
  BY <1>b DEF CRStatus
<1>1. ASSUME NEW m \in Mods, StartCheck(m)
      PROVE  StatusInv' /\ VerifiedKept
  <2>0. /\ pc = "loop" /\ m \in todo /\ todo' = todo \ {m} /\ cur' = m
        /\ UNCHANGED <<cache, current>>
    BY <1>1 DEF StartCheck
  <2>1. pv.status[m] \in CRStatus /\ ~ pv.status[m].verified
    BY <2>0 DEF TypeInv, LoopTyped, StatusInv, CopyInv
  <2>2. CASE Result(FALSE) /\ UNCHANGED <<api, faults>>
    BY <1>a, <2>0, <2>1, <2>2 DEF Result
  <2>3. CASE /\ PreflightSetVerificationStage(m, "Image") /\ pc' = "image"
    <3> DEFINE st == [pv.status[m] EXCEPT !.stage = "Image"]
    <3>1. st \in CRStatus /\ st.stage = "Image" /\ st.verified = pv.status[m].verified
      BY <1>b, <2>1 DEF Stages
    <3>2. Update([pv.status EXCEPT ![m] = st])
      BY <2>3 DEF PreflightSetVerificationStage
    <3> HIDE DEF st
    <3> QED
      BY <2>0, <2>1, <2>3, <3>1, <3>2, WriteStatusKept DEF Checking
  <2> QED
    BY <1>1, <2>2, <2>3 DEF StartCheck
<1>2. CASE VerifyImage \/ TryBuildOrSign \/ VerifyBuild \/ VerifySign \/ VerifyFails
  <2>0. /\ pc \in Checking \ {"stage"}
        /\ UNCHANGED <<cache, current, todo, cur>>
        /\ \/ (\E v \in BOOLEAN : Result(v)) /\ api'.pv = api.pv
           \/ MissingImage /\ api' = api
           \/ \E stage \in {"Build", "Sign"}, step \in {"build", "sign"} : GoOn(stage, step)
    BY <1>2, VerifySteps DEF Checking, unchangedByCheck
  <2>2. CASE (\E v \in BOOLEAN : Result(v)) /\ api'.pv = api.pv
    BY <1>0, <1>a, <2>0, <2>2 DEF Result
  <2>4. CASE MissingImage /\ api' = api
    BY <1>0, <1>a, <2>0, <2>4 DEF MissingImage
  <2>3. ASSUME NEW stage \in {"Build", "Sign"}, NEW step \in {"build", "sign"},
               GoOn(stage, step)
        PROVE  StatusInv' /\ VerifiedKept
    <3> DEFINE st == [pv.status[cur] EXCEPT !.stage = stage]
    <3>1. st \in CRStatus /\ st.stage = stage /\ st.verified = pv.status[cur].verified
      BY <1>0, <1>b, <2>0 DEF Stages
    <3>2. Update([pv.status EXCEPT ![cur] = st]) /\ pc' = step
      BY <2>3 DEF GoOn, PreflightSetVerificationStage
    <3> HIDE DEF st
    <3> QED
      BY <1>0, <2>0, <3>1, <3>2, WriteStatusKept DEF Checking
  <2> QED
    BY <2>0, <2>2, <2>3, <2>4
<1>3. CASE UpdateStatus
  <2> DEFINE st == [pv.status[cur] EXCEPT !.verified = verified]
  <2>0. /\ pc = "status" /\ pc \in Checking \ {"stage"} /\ pc' = "stage"
        /\ UNCHANGED <<cache, current, todo, cur, verified>>
    BY <1>3 DEF UpdateStatus, unchangedByCheck, Checking
  <2>1. st \in CRStatus /\ st.verified = verified /\ st.stage = pv.status[cur].stage
    BY <1>0, <2>0 DEF CRStatus
  <2>2. st.stage # "Done"
    <3>1. pv # Absent /\ pv.status[cur] # Absent
      BY <1>0, <2>0, StatusAssumption DEF TypeInv, LoopTyped
    <3> QED
      BY <1>0, <2>0, <2>1, <3>1 DEF StatusInv, CopyInv, DoneOK
  <2>3. Update([pv.status EXCEPT ![cur] = st])
    BY <1>3 DEF UpdateStatus, PreflightSetVerificationStatus
  <2> HIDE DEF st
  <2> QED
    BY <1>0, <2>0, <2>1, <2>2, <2>3, WriteStatusKept DEF Checking
<1>4. CASE UpdateStage
  <2> DEFINE stage == IF verified THEN "Done" ELSE "Requeued"
             st == [pv.status[cur] EXCEPT !.stage = stage]
  <2>0. /\ pc = "stage" /\ pc \in Checking /\ pc' = "loop"
        /\ UNCHANGED <<cache, current, todo, cur, verified>>
    BY <1>4 DEF UpdateStage, unchangedByCheck, Checking
  <2>1. stage \in Stages /\ (stage = "Done" => verified)
    BY <1>0 DEF Stages
  <2>2. Update([pv.status EXCEPT ![cur] = st])
    BY <1>4 DEF UpdateStage, PreflightSetVerificationStage
  <2> HIDE DEF stage
  <2>3. st \in CRStatus /\ st.stage = stage /\ st.verified = pv.status[cur].verified
    BY <1>0, <1>b, <2>0, <2>1
  <2> HIDE DEF st
  <2> QED
    BY <1>0, <2>0, <2>1, <2>2, <2>3, WriteStatusKept DEF Checking
<1> QED
  BY <1>1, <1>2, <1>3, <1>4

\* Reading the object and listing the Modules drops no verdict but those of Modules
\* that are gone from the list.
LEMMA ReadsKept ==
  ASSUME TypeInv, StatusInv,
         \/ GetPreflight \/ GetModulesToCheck \/ GetModulesToCheckRefused
         \/ CheckPreflightCompletion \/ ReconcileError
  PROVE  StatusInv' /\ VerifiedKept
<1>1. CASE GetPreflight
  <2>0. /\ pc = "idle" /\ UNCHANGED <<api, cache, todo>> /\ pv' = cache.pv
        /\ current' = (fresh /\ cache.pv # Absent)
        /\ pc' = IF cache.pv = Absent THEN "idle" ELSE "modules"
    BY <1>1 DEF GetPreflight
  <2>1. todo' = {} /\ (fresh => cache.pv = api.pv)
    BY <2>0 DEF TypeInv, LoopTyped, Versions
  <2>2. CopyInv'
    BY <2>0, <2>1 DEF StatusInv, CopyInv, Follows, Checking
  <2> QED
    BY <2>0, <2>2 DEF StatusInv, VerifiedKept
<1>2. CASE GetModulesToCheck
  <2> DEFINE ss == PresetStatuses(pv.status, cache.mods)
  <2>0. /\ api \in Objects /\ pv \in PreflightValidation /\ pv = api.pv
        /\ pv.status \in CRStatuses /\ cache.mods \in [Mods -> Specs \cup {Absent}]
    BY <1>2 DEF GetModulesToCheck, TypeInv, ObjectsTyped, LoopTyped, Versions, Accepted,
       Seen, PreflightValidation
  <2>1. /\ ss \in CRStatuses
        /\ \A m \in Mods : cache.mods[m] = Absent => ss[m] = Absent
        /\ \A m \in Mods : cache.mods[m] # Absent => ss[m] =
               IF pv.status[m] = Absent THEN NewCRStatus ELSE pv.status[m]
    BY <2>0, Preset
  <2>2. /\ pv' = [pv EXCEPT !.status = ss]
        /\ api' = [api EXCEPT !.pv.status = ss]
        /\ todo' = {m \in Mods : ss[m] # Absent /\ ~ ss[m].verified}
        /\ pc = "modules" /\ pc' = "loop" /\ cache' = cache
    BY <1>2 DEF GetModulesToCheck
  <2> HIDE DEF ss
  <2>3. pv' \in PreflightValidation /\ pv'.status = ss /\ pv' = api'.pv
    BY <2>0, <2>1, <2>2 DEF PreflightValidation, Objects
  <2>4. pv # Absent /\ pv' # Absent
    BY <2>0, <2>3, StatusAssumption
  <2>5. \A m \in Mods : IsVerified(pv, m) /\ cache.mods[m] # Absent => IsVerified(pv', m)
    BY <2>1, <2>3, <2>4 DEF IsVerified
  <2>6. DoneOK(pv')
    BY <2>1, <2>3, <2>4 DEF DoneOK, NewCRStatus, StatusInv, CopyInv
  <2>7. CopyInv'
    BY <2>2, <2>3, <2>6 DEF CopyInv, Follows, Checking
  <2> QED
    BY <2>0, <2>2, <2>3, <2>5, <2>6, <2>7 DEF StatusInv, VerifiedKept
<1>3. CASE GetModulesToCheckRefused \/ CheckPreflightCompletion \/ ReconcileError
  <2>1. UNCHANGED <<api, cache>> /\ pc' = "idle" /\ IdleLocals
    BY <1>3 DEF GetModulesToCheckRefused, CheckPreflightCompletion, ReconcileError, Return
  <2> QED
    BY <2>1, ReturnKept DEF StatusInv, VerifiedKept
<1> QED
  BY <1>1, <1>2, <1>3

\* The OCP controller only ever writes a PreflightValidation that is not there.
LEMMA OCPKept ==
  ASSUME TypeInv, StatusInv, ReconcileOCP \/ OCPReconcileError
  PROVE  StatusInv' /\ VerifiedKept
<1>0. /\ api \in Objects /\ current \in BOOLEAN
      /\ (current => api.pv \in PreflightValidation)
  BY DEF TypeInv, ObjectsTyped, LoopTyped, Versions
<1>1. UNCHANGED <<cache, pc, locals>>
  BY DEF ReconcileOCP, OCPNothingToDo, PreflightOCPUpdateStatus,
     PreparePreflightValidation, OCPSetNodeInfo, OCPSetImageStreamInfo,
     CreatePreflightValidation, OCPReconcileError, unchangedByOCP
<1>2. \/ api' = api
      \/ api' = [api EXCEPT !.pvo = api'.pvo]
      \/ /\ api.pv = Absent
         /\ api' = [api EXCEPT !.pv = [kernel |-> ReleaseKernelFor(pvo),
                                       push |-> pvo.push, status |-> NoneOf]]
  <2>1. CASE PreflightOCPUpdateStatus
    <3> DEFINE vs == {m \in Mods : IsVerified(cache.pv, m)}
    <3>1. api' = [api EXCEPT !.pvo.verified = vs]
      BY <2>1 DEF PreflightOCPUpdateStatus
    <3> HIDE DEF vs
    <3> QED
      BY <1>0, <3>1 DEF Objects
  <2>2. CASE CreatePreflightValidation
    BY <2>2 DEF CreatePreflightValidation
  <2>3. CASE OCPNothingToDo \/ PreparePreflightValidation \/ OCPSetNodeInfo
             \/ OCPSetImageStreamInfo \/ OCPReconcileError
    BY <2>3 DEF OCPNothingToDo, PreparePreflightValidation, OCPSetNodeInfo,
       OCPSetImageStreamInfo, OCPReconcileError
  <2> QED
    BY <2>1, <2>2, <2>3 DEF ReconcileOCP
<1>3. CASE api'.pv = api.pv
  <2>1. VerifiedKept
    BY <1>3 DEF VerifiedKept
  <2> QED
    BY <1>1, <1>3, <2>1, QuietKept DEF StatusInv, locals
<1>4. CASE api.pv = Absent /\ DoneOK(api'.pv)
  <2>1. ~ current
    BY <1>0, <1>4, StatusAssumption
  <2>2. VerifiedKept
    BY <1>4 DEF VerifiedKept, IsVerified
  <2> QED
    BY <1>1, <1>4, <2>1, <2>2, QuietKept DEF StatusInv, locals
<1>5. CASE /\ api.pv = Absent
           /\ api' = [api EXCEPT !.pv = [kernel |-> ReleaseKernelFor(pvo),
                                         push |-> pvo.push, status |-> NoneOf]]
  <2>1. api'.pv = [kernel |-> ReleaseKernelFor(pvo), push |-> pvo.push,
                   status |-> NoneOf]
    BY <1>0, <1>5 DEF Objects
  <2>2. DoneOK(api'.pv)
    BY <2>1 DEF DoneOK, NoneOf
  <2> QED
    BY <1>4, <1>5, <2>2
<1>6. api' = [api EXCEPT !.pvo = api'.pvo] => api'.pv = api.pv
  BY <1>0 DEF Objects
<1> QED
  BY <1>2, <1>3, <1>5, <1>6

\* Deliveries and restarts show what is stored.
LEMMA DeliveredKept ==
  ASSUME TypeInv, StatusInv, Deliver \/ Restart
  PROVE  StatusInv' /\ VerifiedKept
<1>0. api \in Objects /\ cache \in Seen
  BY DEF TypeInv, ObjectsTyped
<1>1. api' = api /\ VerifiedKept
  BY DEF Deliver, DeliverPreflight, DeliverModules, DeliverOwned, Restart, VerifiedKept
<1>2. CASE Deliver
  <2>1. cache'.pv \in {cache.pv, api.pv}
    BY <1>0, <1>2 DEF Deliver, DeliverPreflight, DeliverModules, DeliverOwned, Seen
  <2>2. UNCHANGED <<pc, locals>>
    BY <1>2 DEF Deliver, DeliverPreflight, DeliverModules, DeliverOwned
  <2> QED
    BY <1>1, <2>1, <2>2, QuietKept DEF StatusInv, locals
<1>3. CASE Restart
  <2>1. cache' = [kind \in Cached |-> api[kind]] /\ pc' = "idle" /\ IdleLocals
    BY <1>3 DEF Restart
  <2>2. cache'.pv = api.pv
    BY <2>1 DEF Cached
  <2> QED
    BY <1>1, <2>1, <2>2, ReturnKept DEF StatusInv
<1> QED
  BY <1>2, <1>3

\* What happens to the API objects around the controllers.
LEMMA ApiSteps ==
  ASSUME Cluster \/ Users
  PROVE  \/ PreflightCollected /\ api' = [api EXCEPT !.pv = Absent]
         \/ current' = current /\ api' = api
         \/ current' = current /\ \E m, n, x : api' = WithBuild(api, m, n, x)
         \/ current' = current /\ \E m, n, x : api' = WithJob(api, m, n, x)
         \/ current' = current /\ \E m, x : api' = [api EXCEPT !.mods[m] = x]
         \/ current' = current /\ api' = [api EXCEPT !.pvo = Absent]
<1>1. ASSUME NEW m, NEW n, BuildCompletes(m, n) \/ BuildFails(m, n)
      PROVE  current' = current /\ \E x : api' = WithBuild(api, m, n, x)
  BY <1>1 DEF BuildCompletes, BuildFails, unchangedByCluster, WithBuild
<1>2. ASSUME NEW m, NEW n, JobStarts(m, n) \/ JobEnds(m, n)
      PROVE  current' = current /\ \E x : api' = WithJob(api, m, n, x)
  BY <1>2 DEF JobStarts, JobEnds, unchangedByCluster, WithJob
<1>3. ASSUME NEW m, NEW n, NEW kind \in {"builds", "jobs"},
             OwnedObjectCollected(kind, m, n)
      PROVE  /\ current' = current
             /\ api' = WithBuild(api, m, n, Absent) \/ api' = WithJob(api, m, n, Absent)
  BY <1>3 DEF OwnedObjectCollected, unchangedByCluster, WithBuild, WithJob
<1>4. CASE \/ NodeKernelReconcile \/ ImageStreamReconcile
           \/ (\E d \in Dockerfiles : CreateConfigMap(d)) \/ (\E m \in Mods : PushImage(m))
  BY <1>4 DEF NodeKernelReconcile, ImageStreamReconcile, CreateConfigMap, PushImage
<1>5. ASSUME NEW m, NEW s, ChangeModule(m, s)
      PROVE  current' = current /\ \E x : api' = [api EXCEPT !.mods[m] = x]
  BY <1>5 DEF ChangeModule
<1>6. CASE DeletePreflightValidationOCP
  BY <1>6 DEF DeletePreflightValidationOCP
<1>7. PreflightCollected => api' = [api EXCEPT !.pv = Absent]
  BY DEF PreflightCollected
<1> QED
  BY <1>1, <1>2, <1>3, <1>4, <1>5, <1>6, <1>7 DEF Cluster, Users

\* Around the controllers, the PreflightValidation is only ever deleted.
LEMMA SurroundingsKept ==
  ASSUME TypeInv, StatusInv, Cluster \/ Users
  PROVE  StatusInv' /\ VerifiedKept
<1>0. api \in Objects /\ current \in BOOLEAN
  BY DEF TypeInv, ObjectsTyped, LoopTyped
<1>1. UNCHANGED <<cache, pc, pv, listed, todo, cur, verified>>
  BY DEF Cluster, Users, NodeKernelReconcile, ImageStreamReconcile, PreflightCollected,
     BuildCompletes, BuildFails, JobStarts, JobEnds, OwnedObjectCollected, ChangeModule,
     DeletePreflightValidationOCP, CreateConfigMap, PushImage, unchangedByCluster, operator
<1>2. \/ PreflightCollected
      \/ current' = current /\ api' = api
      \/ current' = current /\ \E m, n, x : api' = WithBuild(api, m, n, x)
      \/ current' = current /\ \E m, n, x : api' = WithJob(api, m, n, x)
      \/ current' = current /\ \E m, x : api' = [api EXCEPT !.mods[m] = x]
      \/ current' = current /\ api' = [api EXCEPT !.pvo = Absent]
  BY ApiSteps
<1>3. CASE PreflightCollected
  <2>1. api' = [api EXCEPT !.pv = Absent] /\ current' = FALSE
    BY <1>3 DEF PreflightCollected
  <2>2. api'.pv = Absent
    BY <1>0, <2>1 DEF Objects
  <2>3. DoneOK(api'.pv) /\ VerifiedKept
    BY <2>2 DEF DoneOK, VerifiedKept
  <2> QED
    BY <1>1, <2>1, <2>3, QuietKept DEF StatusInv
<1>4. CASE current' = current /\ api'.pv = api.pv
  <2>1. VerifiedKept
    BY <1>4 DEF VerifiedKept
  <2> QED
    BY <1>0, <1>1, <1>4, <2>1, QuietKept DEF StatusInv
<1>5. ASSUME \/ \E m, n, x : api' = WithBuild(api, m, n, x)
             \/ \E m, n, x : api' = WithJob(api, m, n, x)
             \/ \E m, x : api' = [api EXCEPT !.mods[m] = x]
             \/ api' = [api EXCEPT !.pvo = Absent]
      PROVE  api'.pv = api.pv
  BY <1>0, <1>5 DEF Objects, WithBuild, WithJob
<1> QED
  BY <1>2, <1>3, <1>4, <1>5

\* Every step keeps what was verified, and what the copies say of each Module.
LEMMA StatusKept ==
  ASSUME TypeInv, StatusInv, [Next]_vars
  PROVE  StatusInv' /\ VerifiedKept
<1>1. CASE UNCHANGED vars
  BY <1>1 DEF StatusInv, CopyInv, VerifiedKept, vars, locals
<1> QED
  BY <1>1, ReadsKept, CheckKept, OCPKept, DeliveredKept, SurroundingsKept
  DEF Next, Reconcile

\* At the start there is no PreflightValidation.
LEMMA StatusInit ==
  ASSUME Init
  PROVE  StatusInv
<1>1. api.pv = Absent /\ pv = Absent /\ todo = {} /\ pc = "idle" /\ current = FALSE
      /\ cache = [kind \in Cached |-> api[kind]]
  BY DEF Init
<1>2. cache.pv = Absent
  BY <1>1 DEF Cached
<1> QED
  BY <1>1, <1>2 DEF StatusInv, CopyInv, DoneOK, Checking

\* The stage says Done of verified Modules only, although updatePreflightStatus writes
\* the status and the stage one after the other, either write may be refused, and a
\* refused one stays in the reconciliation's copy and is written with the next.
THEOREM DoneSafety == Spec => []DoneIsVerified
<1>1. Init => TypeInv /\ StatusInv
  BY InitTyped, StatusInit
<1>2. TypeInv /\ StatusInv /\ [Next]_vars => (TypeInv /\ StatusInv)'
  BY StepTyped, StatusKept
<1>3. StatusInv => DoneIsVerified
  BY DEF StatusInv, DoneOK, DoneIsVerified
<1> QED
  BY <1>1, <1>2, <1>3, PTL DEF Spec

\* No stale read, refused or failed write, crash or deletion takes a verified Module
\* back to unverified while the Module list shows it: a copy that the API server
\* accepts knows of every verdict that is stored.
THEOREM VerifiedSafety == Spec => VerifiedStaysVerified
<1> DEFINE A == \A m \in Mods :
          /\ IsVerified(api.pv, m) /\ api'.pv # Absent
          /\ pc = "modules" => cache.mods[m] # Absent
          => IsVerified(api'.pv, m)
<1>1. Init => TypeInv /\ StatusInv
  BY InitTyped, StatusInit
<1>2. TypeInv /\ StatusInv /\ [Next]_vars => (TypeInv /\ StatusInv)'
  BY StepTyped, StatusKept
<1>3. TypeInv /\ StatusInv /\ [Next]_vars => [A]_vars
  BY StatusKept DEF VerifiedKept
<1>4. Spec => [][A]_vars
  BY <1>1, <1>2, <1>3, PTL DEF Spec
<1> QED
  BY <1>4 DEF VerifiedStaysVerified

-----------------------------------------------------------------------------
(* What a verdict rests on when built images are pushed (push is            *)
(* PushBuiltImage, which never changes).                                    *)

BuildPushed(x, r) ==
    /\ \E s \in Specs : /\ ShouldBeBuilt(s) /\ x.hash = s.dockerfile
                        /\ x.output = BuildTarget(s, x.kernel)
    /\ x.phase = "Complete" => x.output \in r

JobPushed(x, r) ==
    /\ x.hash[3] \in ImageRef
    /\ x.phase = "Succeeded" => x.hash[3] \in r

WorkPushed(o, r) ==
    \A m \in Mods, n \in Names :
        /\ o.builds[m][n] # Absent => BuildPushed(o.builds[m][n], r)
        /\ o.jobs[m][n] # Absent => JobPushed(o.jobs[m][n], r)

PushIs(push) ==
    /\ \A x \in {api.pvo, pvo} : x # Absent => x.push = push
    /\ \A x \in {api.pv, cache.pv, pv} : x # Absent => x.push = push

\* The image of a Module that the reconciliation found verified.
ImageThere(m) == ContainerImage(listed[m], pv.kernel) \in registry

VerdictInv ==
    /\ WorkPushed(api, registry) /\ WorkPushed(cache, registry)
    /\ pc = "build" => ShouldBeBuilt(listed[cur])
    /\ pc \in {"status", "stage"} /\ verified => ImageThere(cur)
    /\ current => \A m \in Mods : IsVerified(pv, m) => IsVerified(api.pv, m) \/ ImageThere(m)

PushInv(push) == PushIs(push) /\ (push => VerdictInv)

\* The step leaves PushBuiltImage of every object and copy what it was.
PushStays ==
    /\ api'.pvo \in {api.pvo, Absent} \/ (api.pvo # Absent /\ api'.pvo.push = api.pvo.push)
    /\ pvo' \in {pvo, Absent, api.pvo}
    /\ \/ api'.pv \in {api.pv, Absent}
       \/ api.pv # Absent /\ api'.pv.push = api.pv.push
       \/ pvo # Absent /\ api'.pv.push = pvo.push
    /\ cache'.pv \in {cache.pv, api.pv}
    /\ pv' \in {pv, Absent, cache.pv} \/ (pv # Absent /\ pv'.push = pv.push)

\* A write of the status leaves PushBuiltImage alone.
LEMMA UpdateKeepsPush ==
  ASSUME TypeInv, pc # "idle", NEW statuses, Update(statuses)
  PROVE  /\ api'.pvo = api.pvo
         /\ api'.pv = api.pv \/ (api.pv # Absent /\ api'.pv.push = api.pv.push)
         /\ pv # Absent /\ pv'.push = pv.push
<1>0. /\ api \in Objects /\ pv \in PreflightValidation
      /\ (current => api.pv \in PreflightValidation)
  BY DEF TypeInv, ObjectsTyped, LoopTyped, Versions
<1>1. pv # Absent /\ (current => api.pv # Absent)
  BY <1>0, StatusAssumption
<1>2. pv'.push = pv.push
  BY <1>0 DEF Update, PreflightValidation
<1> DEFINE x == [api.pv EXCEPT !.status = statuses]
<1>3. api' = api \/ (current /\ api' = [api EXCEPT !.pv = x])
  BY DEF Update, Accepted
<1>4. current => x.push = api.pv.push
  BY <1>0 DEF PreflightValidation
<1>5. api' = [api EXCEPT !.pv = x] => api'.pv = x /\ api'.pvo = api.pvo
  BY <1>0 DEF Objects
<1> HIDE DEF x
<1> QED
  BY <1>1, <1>2, <1>3, <1>4, <1>5

\* Writing Builds or Jobs leaves the two preflight objects alone.
LEMMA OthersWritten ==
  ASSUME NEW o \in Objects, NEW m, NEW n, NEW x
  PROVE  /\ WithBuild(o, m, n, x).pvo = o.pvo /\ WithBuild(o, m, n, x).pv = o.pv
         /\ WithJob(o, m, n, x).pvo = o.pvo /\ WithJob(o, m, n, x).pv = o.pv
BY DEF Objects, WithBuild, WithJob

\* PushBuiltImage never changes: it is copied from object to object.
LEMMA PushStep ==
  ASSUME TypeInv, [Next]_vars
  PROVE  PushStays
<1>0. api \in Objects /\ cache \in Seen
  BY DEF TypeInv, ObjectsTyped
<1>1. CASE GetPreflight
  BY <1>1 DEF GetPreflight, ocp, PushStays
<1>2. CASE GetModulesToCheck
  <2> DEFINE ss == PresetStatuses(pv.status, cache.mods)
  <2>1. /\ pc = "modules" /\ current /\ pv' = [pv EXCEPT !.status = ss]
        /\ api' = [api EXCEPT !.pv = [api.pv EXCEPT !.status = ss]]
        /\ UNCHANGED <<cache, ocpPc, pvo>>
    BY <1>2 DEF GetModulesToCheck, Accepted, ocp
  <2> HIDE DEF ss
  <2>2. pv \in PreflightValidation /\ api.pv \in PreflightValidation
    BY <2>1 DEF TypeInv, LoopTyped, Versions
  <2>3. pv # Absent /\ api.pv # Absent
    BY <2>2, StatusAssumption
  <2>4. pv'.push = pv.push /\ api'.pvo = api.pvo /\ api'.pv.push = api.pv.push
    BY <1>0, <2>1, <2>2 DEF Objects, PreflightValidation
  <2> QED
    BY <2>1, <2>3, <2>4 DEF PushStays
<1>3. CASE GetModulesToCheckRefused \/ CheckPreflightCompletion \/ ReconcileError
  BY <1>3 DEF GetModulesToCheckRefused, CheckPreflightCompletion, ReconcileError, Return,
     IdleLocals, ocp, PushStays
<1>4. ASSUME NEW statuses, pc # "idle", Update(statuses), UNCHANGED <<cache, ocp>>
      PROVE  PushStays
  BY <1>4, UpdateKeepsPush DEF PushStays, ocp
<1>5. ASSUME NEW m \in Mods, StartCheck(m) PROVE PushStays
  <2>1. CASE Result(FALSE) /\ UNCHANGED <<api, faults>>
    BY <1>5, <2>1 DEF StartCheck, Result, ocp, PushStays
  <2>2. CASE PreflightSetVerificationStage(m, "Image")
    BY <1>4, <1>5, <2>2 DEF StartCheck, PreflightSetVerificationStage
  <2> QED
    BY <1>5, <2>1, <2>2 DEF StartCheck
<1>6. CASE VerifyImage \/ TryBuildOrSign \/ VerifyBuild \/ VerifySign \/ VerifyFails
  <2>1. UNCHANGED <<cache, ocp>> /\ pc # "idle"
    BY <1>6, VerifySteps DEF unchangedByCheck
  <2>2. CASE \E stage \in {"Build", "Sign"}, step \in {"build", "sign"} : GoOn(stage, step)
    BY <1>4, <2>1, <2>2 DEF GoOn, PreflightSetVerificationStage
  <2>3. CASE /\ MissingImage \/ \E v \in BOOLEAN : Result(v)
             /\ \/ api' = api \/ \E n, x : api' = WithBuild(api, cur, n, x)
                \/ \E n, x : api' = WithJob(api, cur, n, x)
    <3>1. api'.pvo = api.pvo /\ api'.pv = api.pv
      BY <1>0, <2>3, OthersWritten
    <3>2. pv' = pv
      BY <2>3 DEF Result, MissingImage
    <3> QED
      BY <2>1, <3>1, <3>2 DEF PushStays, ocp
  <2> QED
    BY <1>6, <2>2, <2>3 DEF VerifyImage, TryBuildOrSign, VerifyBuild, VerifySign,
       VerifyFails, WithBuild, WithJob
<1>7. CASE UpdateStatus
  BY <1>4, <1>7 DEF UpdateStatus, PreflightSetVerificationStatus, unchangedByCheck
<1>8. CASE UpdateStage
  BY <1>4, <1>8 DEF UpdateStage, PreflightSetVerificationStage, unchangedByCheck
<1>9. CASE ReconcileOCP \/ OCPReconcileError
  <2>1. UNCHANGED <<cache, pv>>
    BY <1>9 DEF ReconcileOCP, OCPNothingToDo, PreflightOCPUpdateStatus,
       PreparePreflightValidation, OCPSetNodeInfo, OCPSetImageStreamInfo,
       CreatePreflightValidation, OCPReconcileError, unchangedByOCP, locals
  <2>2. CASE PreflightOCPUpdateStatus
    <3> DEFINE vs == {m \in Mods : IsVerified(cache.pv, m)}
    <3>1. /\ api' = [api EXCEPT !.pvo.verified = vs] /\ api.pvo # Absent /\ pvo' = pvo
      BY <2>2 DEF PreflightOCPUpdateStatus
    <3> HIDE DEF vs
    <3>2. api'.pv = api.pv /\ api'.pvo.push = api.pvo.push
      BY <1>0, <3>1 DEF Objects, PreflightValidationOCP
    <3> QED
      BY <2>1, <3>1, <3>2 DEF PushStays
  <2>3. CASE CreatePreflightValidation
    <3>1. ocpPc = "create" /\ pvo' = Absent
      BY <2>3 DEF CreatePreflightValidation, OCPReturn
    <3>2. pvo # Absent
      <4>1. pvo \in PreflightValidationOCP
        BY <3>1 DEF TypeInv, OCPTyped
      <4> QED
        BY <4>1, StatusAssumption
    <3>3. api'.pvo = api.pvo /\ (api'.pv = api.pv \/ api'.pv.push = pvo.push)
      <4> DEFINE x == [kernel |-> ReleaseKernelFor(pvo), push |-> pvo.push,
                       status |-> NoneOf]
      <4>1. api' = api \/ api' = [api EXCEPT !.pv = x]
        BY <2>3 DEF CreatePreflightValidation
      <4>2. x.push = pvo.push
        OBVIOUS
      <4> HIDE DEF x
      <4> QED
        BY <1>0, <4>1, <4>2 DEF Objects
    <3> QED
      BY <2>1, <3>1, <3>2, <3>3 DEF PushStays
  <2>4. CASE OCPNothingToDo \/ PreparePreflightValidation \/ OCPSetNodeInfo
             \/ OCPSetImageStreamInfo \/ OCPReconcileError
    BY <2>1, <2>4 DEF OCPNothingToDo, PreparePreflightValidation, OCPSetNodeInfo,
       OCPSetImageStreamInfo, OCPReconcileError, OCPReturn, PushStays
  <2> QED
    BY <1>9, <2>2, <2>3, <2>4 DEF ReconcileOCP
<1>10. CASE Deliver
  <2>1. cache'.pv \in {cache.pv, api.pv}
    BY <1>0, <1>10 DEF Deliver, DeliverPreflight, DeliverModules, DeliverOwned, Seen
  <2>2. UNCHANGED <<api, pv, pvo>>
    BY <1>10 DEF Deliver, DeliverPreflight, DeliverModules, DeliverOwned, locals, ocp
  <2> QED
    BY <2>1, <2>2 DEF PushStays
<1>11. CASE Restart
  <2>1. cache' = [kind \in Cached |-> api[kind]] /\ pv' = Absent /\ pvo' = Absent /\ api' = api
    BY <1>11 DEF Restart, IdleLocals
  <2>2. cache'.pv = api.pv
    BY <2>1 DEF Cached
  <2> QED
    BY <2>1, <2>2 DEF PushStays
<1>12. CASE Cluster \/ Users
  <2>1. UNCHANGED <<cache, pv, pvo>>
    BY <1>12 DEF Cluster, Users, NodeKernelReconcile, ImageStreamReconcile,
       PreflightCollected, BuildCompletes, BuildFails, JobStarts, JobEnds,
       OwnedObjectCollected, ChangeModule, DeletePreflightValidationOCP, CreateConfigMap,
       PushImage, unchangedByCluster, operator, ocp
  <2>2. \/ api' = [api EXCEPT !.pv = Absent]
        \/ api' = api
        \/ \E m, n, x : api' = WithBuild(api, m, n, x)
        \/ \E m, n, x : api' = WithJob(api, m, n, x)
        \/ \E m, x : api' = [api EXCEPT !.mods[m] = x]
        \/ api' = [api EXCEPT !.pvo = Absent]
    BY <1>12, ApiSteps
  <2>3. api'.pvo \in {api.pvo, Absent} /\ api'.pv \in {api.pv, Absent}
    <3>1. api' = [api EXCEPT !.pv = Absent] => api'.pvo = api.pvo /\ api'.pv = Absent
      BY <1>0 DEF Objects
    <3>2. api' = [api EXCEPT !.pvo = Absent] => api'.pvo = Absent /\ api'.pv = api.pv
      BY <1>0 DEF Objects
    <3>3. (\E m, x : api' = [api EXCEPT !.mods[m] = x])
              => api'.pvo = api.pvo /\ api'.pv = api.pv
      BY <1>0 DEF Objects
    <3>4. (\E m, n, x : api' = WithBuild(api, m, n, x) \/ api' = WithJob(api, m, n, x))
              => api'.pvo = api.pvo /\ api'.pv = api.pv
      BY <1>0, OthersWritten
    <3> QED
      BY <2>2, <3>1, <3>2, <3>3, <3>4
  <2> QED
    BY <2>1, <2>3 DEF PushStays
<1>13. CASE UNCHANGED vars
  BY <1>13 DEF vars, locals, ocp, PushStays
<1> QED
  BY <1>1, <1>2, <1>3, <1>5, <1>6, <1>7, <1>8, <1>9, <1>10, <1>11, <1>12, <1>13
  DEF Next, Reconcile

\* So it is the same in all of them, for ever.
LEMMA PushKept ==
  ASSUME TypeInv, [Next]_vars, NEW push, PushIs(push)
  PROVE  PushIs(push)'
BY PushStep DEF PushStays, PushIs

\* What VerifiedImagesArePushed says of one step.
VerdictRests ==
    \A m \in Mods :
        /\ api'.pv # Absent /\ api'.pv.push
        /\ ~ IsVerified(api.pv, m) /\ IsVerified(api'.pv, m)
        => ContainerImage(listed[m], api'.pv.kernel) \in registry

\* Images are only ever added to the registry.
LEMMA WorkGrows ==
  ASSUME NEW o, NEW r, NEW q, WorkPushed(o, r), r \subseteq q
  PROVE  WorkPushed(o, q)
BY DEF WorkPushed, BuildPushed, JobPushed

\* A Build is written that pushes what some spec asks for.
LEMMA BuildKept ==
  ASSUME NEW o \in Objects, NEW r, WorkPushed(o, r), NEW m \in Mods, NEW n, NEW x,
         x # Absent => BuildPushed(x, r)
  PROVE  WorkPushed(WithBuild(o, m, n, x), r)
<1> DEFINE p == WithBuild(o, m, n, x)
<1>1. p.jobs = o.jobs /\ p.builds = [o.builds EXCEPT ![m][n] = x]
  BY DEF WithBuild, Objects
<1>2. \A a \in Mods, b \in Names : p.builds[a][b] \in {o.builds[a][b], x}
  BY <1>1 DEF Objects
<1> HIDE DEF p
<1>3. WorkPushed(p, r)
  BY <1>1, <1>2 DEF WorkPushed
<1> QED
  BY <1>3 DEF p

\* The same of a Job.
LEMMA JobKept ==
  ASSUME NEW o \in Objects, NEW r, WorkPushed(o, r), NEW m \in Mods, NEW n, NEW x,
         x # Absent => JobPushed(x, r)
  PROVE  WorkPushed(WithJob(o, m, n, x), r)
<1> DEFINE p == WithJob(o, m, n, x)
<1>1. p.builds = o.builds /\ p.jobs = [o.jobs EXCEPT ![m][n] = x]
  BY DEF WithJob, Objects
<1>2. \A a \in Mods, b \in Names : p.jobs[a][b] \in {o.jobs[a][b], x}
  BY <1>1 DEF Objects
<1> HIDE DEF p
<1>3. WorkPushed(p, r)
  BY <1>1, <1>2 DEF WorkPushed
<1> QED
  BY <1>3 DEF p

\* What the controller creates has pushed nothing yet.
LEMMA CreatedPushed ==
  ASSUME NEW s \in Specs, NEW k \in Kernels, NEW r, NEW push, push = TRUE
  PROVE  /\ ShouldBeBuilt(s) => BuildPushed(MakeBuildTemplate(s, k, push), r)
         /\ JobPushed(MakeJobTemplate(s, k, push), r)
<1>1. ContainerImage(s, k) \in ImageRef
  BY ImagesTyped
<1>2. /\ MakeBuildTemplate(s, k, push).kernel = k
      /\ MakeBuildTemplate(s, k, push).hash = s.dockerfile
      /\ MakeBuildTemplate(s, k, push).phase = "New"
      /\ MakeBuildTemplate(s, k, push).output = BuildTarget(s, k)
      /\ MakeJobTemplate(s, k, push).phase = "New"
      /\ MakeJobTemplate(s, k, push).hash[3] = ContainerImage(s, k)
  BY DEF MakeBuildTemplate, MakeJobTemplate
<1> QED
  BY <1>1, <1>2 DEF BuildPushed, JobPushed

\* A step that leaves the reconciliation alone, or takes its version away.
LEMMA QuietRests ==
  ASSUME VerdictInv, UNCHANGED <<pc, pv, verified, listed, cur>>,
         registry \subseteq registry',
         WorkPushed(api', registry'), WorkPushed(cache', registry'),
         current' => current /\ api'.pv = api.pv
  PROVE  VerdictInv'
BY DEF VerdictInv, ImageThere

\* A reconciliation that returns.
LEMMA ReturnRests ==
  ASSUME pc' = "idle", IdleLocals,
         WorkPushed(api', registry'), WorkPushed(cache', registry')
  PROVE  VerdictInv'
BY DEF VerdictInv, IdleLocals

\* A write of one Module's status that calls it verified only if it was, or if its
\* image is there.
LEMMA WriteRests ==
  ASSUME TypeInv, StatusInv, VerdictInv, pc # "idle",
         NEW m \in Mods, pv.status[m] \in CRStatus,
         NEW st \in CRStatus, Update([pv.status EXCEPT ![m] = st]),
         st.verified => pv.status[m].verified \/ ImageThere(m),
         UNCHANGED <<cache, registry, current, listed>>
  PROVE  /\ VerdictRests
         /\ \A x \in Mods : ImageThere(x)' <=> ImageThere(x)
         /\ current' => \A x \in Mods : IsVerified(pv', x)
                            => IsVerified(api'.pv, x) \/ ImageThere(x)
         /\ WorkPushed(api', registry')
<1> DEFINE ss == [pv.status EXCEPT ![m] = st]
<1>0. /\ pv \in PreflightValidation /\ pv.status \in CRStatuses /\ current \in BOOLEAN
      /\ api \in Objects /\ (current => api.pv \in PreflightValidation)
  BY DEF TypeInv, ObjectsTyped, LoopTyped, Versions, PreflightValidation
<1>1. /\ ss \in CRStatuses /\ ss[m] = st
      /\ \A x \in Mods : x # m => ss[x] = pv.status[x]
  BY <1>0 DEF CRStatuses
<1> HIDE DEF ss
<1>2. Update(ss)
  BY DEF ss
<1>3. /\ pv' \in PreflightValidation /\ pv'.status = ss
      /\ pv'.kernel = pv.kernel /\ pv'.push = pv.push
      /\ \/ api' = api
         \/ current /\ api' = [api EXCEPT !.pv = [api.pv EXCEPT !.status = ss]]
  BY <1>0, <1>1, <1>2, UpdateTyped
<1>4. pv # Absent /\ pv' # Absent /\ pv.status[m] # Absent
  BY <1>0, <1>3, StatusAssumption
<1>5. \A x \in Mods : IsVerified(pv', x) => IsVerified(pv, x) \/ ImageThere(x)
  BY <1>1, <1>3, <1>4 DEF IsVerified
<1>6. current => \A x \in Mods : IsVerified(pv', x) => IsVerified(api.pv, x) \/ ImageThere(x)
  BY <1>5 DEF VerdictInv
<1>7. \A x \in Mods : ImageThere(x)' <=> ImageThere(x)
  BY <1>3 DEF ImageThere
<1>8. CASE api' = api
  BY <1>6, <1>7, <1>8 DEF VerdictInv, VerdictRests
<1>9. CASE current /\ api' = [api EXCEPT !.pv = [api.pv EXCEPT !.status = ss]]
  <2>1. /\ api'.pv = [api.pv EXCEPT !.status = ss]
        /\ api'.builds = api.builds /\ api'.jobs = api.jobs
    BY <1>0, <1>9 DEF Objects
  <2>2. /\ api'.pv \in PreflightValidation /\ api'.pv.status = ss
        /\ api'.pv.kernel = api.pv.kernel
    BY <1>0, <1>1, <1>9, <2>1 DEF PreflightValidation
  <2>3. api'.pv # Absent
    BY <2>2, StatusAssumption
  <2>4. \A x \in Mods : IsVerified(api'.pv, x) <=> IsVerified(pv', x)
    BY <1>3, <1>4, <2>2, <2>3 DEF IsVerified
  <2>5. api'.pv.kernel = pv.kernel
    BY <1>9, <2>2 DEF StatusInv, CopyInv, Follows
  <2>6. VerdictRests
    BY <1>6, <1>9, <2>4, <2>5 DEF VerdictRests, ImageThere
  <2>7. WorkPushed(api', registry')
    BY <2>1 DEF VerdictInv, WorkPushed
  <2> QED
    BY <1>7, <2>4, <2>6, <2>7
<1> QED
  BY <1>3, <1>8, <1>9

\* A Build that Sync reports as completed, however old the cache is, has pushed the
\* image that the Module asks for.
LEMMA CompletedBuildThere ==
  ASSUME TypeInv, VerdictInv, OneImagePerDockerfile, pc = "build", NEW push,
         ~ ShouldBeSigned(listed[cur]),
         BuildSync(listed[cur], pv.kernel, push, cache.builds[cur]) = "completed"
  PROVE  ImageThere(cur)
<1>0. /\ cur \in Mods /\ listed[cur] \in Specs /\ pv \in PreflightValidation
      /\ cache.builds \in [Mods -> [Names -> Build \cup {Absent}]]
      /\ ShouldBeBuilt(listed[cur])
  BY DEF TypeInv, LoopTyped, ObjectsTyped, Seen, Checking, VerdictInv
<1>1. DOMAIN cache.builds[cur] = Names /\ pv.kernel \in Kernels
  BY <1>0 DEF PreflightValidation
<1> DEFINE s == listed[cur]
           k == pv.kernel
           builds == cache.builds[cur]
<1>2. BuildSync(s, k, push, builds) = "completed" /\ DOMAIN builds = Names
  BY <1>1
<1>3. WorkPushed(cache, registry)
  BY DEF VerdictInv
<1>4. \A n \in Names : builds[n] # Absent => BuildPushed(builds[n], registry)
  BY <1>0, <1>3 DEF WorkPushed
<1>5. s \in Specs /\ ShouldBeBuilt(s) /\ ~ ShouldBeSigned(s) /\ k \in Kernels
  BY <1>0, <1>1
<1>6. BuildTarget(s, k) \in registry => ImageThere(cur)
  BY <1>5 DEF ImageThere, BuildTarget
<1> HIDE DEF s, k, builds
<1>7. PICK b \in Names : /\ builds[b] # Absent /\ builds[b].kernel = k
                         /\ builds[b].hash = s.dockerfile
                         /\ builds[b].phase = "Complete"
  BY <1>2, CompletedBuild
<1>8. PICK t \in Specs : /\ ShouldBeBuilt(t) /\ builds[b].hash = t.dockerfile
                         /\ builds[b].output = BuildTarget(t, k)
  BY <1>4, <1>7 DEF BuildPushed
<1>9. BuildTarget(t, k) = BuildTarget(s, k)
  BY <1>5, <1>7, <1>8 DEF OneImagePerDockerfile
<1> QED
  BY <1>4, <1>6, <1>7, <1>8, <1>9 DEF BuildPushed

\* The same of a signing Job.
LEMMA CompletedJobThere ==
  ASSUME TypeInv, VerdictInv, pc = "sign", pv.push = TRUE,
         SignSync(listed[cur], pv.kernel, pv.push, cache.jobs[cur]) = "completed"
  PROVE  ImageThere(cur)
<1>0. /\ cur \in Mods
      /\ cache.jobs \in [Mods -> [Names -> SignJob \cup {Absent}]]
  BY DEF TypeInv, LoopTyped, ObjectsTyped, Seen, Checking
<1>1. DOMAIN cache.jobs[cur] = Names
  BY <1>0
<1> DEFINE jobs == cache.jobs[cur]
           push == pv.push
<1>2. WorkPushed(cache, registry)
  BY DEF VerdictInv
<1>3. \A n \in Names : jobs[n] # Absent => JobPushed(jobs[n], registry)
  BY <1>0, <1>2 DEF WorkPushed
<1>4. SignSync(listed[cur], pv.kernel, push, jobs) = "completed" /\ DOMAIN jobs = Names
  BY <1>1
<1>5. MakeJobTemplate(listed[cur], pv.kernel, push).hash[3]
          = ContainerImage(listed[cur], pv.kernel)
  BY DEF MakeJobTemplate
<1> HIDE DEF jobs, push
<1>6. PICK j \in Names : /\ jobs[j] # Absent
                         /\ jobs[j].hash = MakeJobTemplate(listed[cur], pv.kernel, push).hash
                         /\ jobs[j].phase = "Succeeded"
  BY <1>4, CompletedJob
<1>7. jobs[j].hash[3] \in registry
  BY <1>3, <1>6 DEF JobPushed
<1> QED
  BY <1>5, <1>6, <1>7 DEF ImageThere

\* A validation step that has a result, and may write a Build or a Job.
LEMMA ResultRests ==
  ASSUME TypeInv, VerdictInv, pc \in Checking, NEW v \in BOOLEAN, Result(v),
         UNCHANGED unchangedByCheck, v => ImageThere(cur),
         api'.pv = api.pv, WorkPushed(api', registry)
  PROVE  VerdictInv' /\ VerdictRests
<1>1. /\ UNCHANGED <<cache, registry, current, listed, cur, pv>> /\ pc' = "status"
      /\ verified' = v
  BY DEF Result, unchangedByCheck, world
<1>2. VerdictInv'
  BY <1>1 DEF VerdictInv, ImageThere
<1>3. VerdictRests
  BY DEF VerdictRests
<1> QED
  BY <1>2, <1>3

\* A validation step that writes the Module's status and goes on.
LEMMA StepRests ==
  ASSUME TypeInv, StatusInv, VerdictInv, pc \in Checking \cup {"loop"},
         NEW m \in Mods, m = cur', pv.status[m] \in CRStatus,
         NEW st \in CRStatus, Update([pv.status EXCEPT ![m] = st]),
         st.verified => pv.status[m].verified \/ ImageThere(m),
         UNCHANGED <<cache, registry, current, listed>>,
         pc' = "build" => ShouldBeBuilt(listed[m]),
         pc' # "status", pc' = "stage" /\ verified' => ImageThere(m)
  PROVE  VerdictInv' /\ VerdictRests
<1>0. pc # "idle"
  BY DEF Checking
<1>1. /\ VerdictRests
      /\ \A x \in Mods : ImageThere(x)' <=> ImageThere(x)
      /\ current' => \A x \in Mods : IsVerified(pv', x)
                         => IsVerified(api'.pv, x) \/ ImageThere(x)
      /\ WorkPushed(api', registry')
  BY <1>0, WriteRests
<1>2. WorkPushed(cache', registry')
  BY DEF VerdictInv
<1>3. pc' \in {"status", "stage"} /\ verified' => ImageThere(cur)'
  <2>1. ImageThere(m) => ImageThere(cur)'
    <3>1. ImageThere(m) => ContainerImage(listed'[m], pv'.kernel) \in registry'
      BY <1>1 DEF ImageThere
    <3> QED
      BY <3>1 DEF ImageThere
  <2> QED
    BY <2>1
<1>4. current' => \A x \in Mods : IsVerified(pv', x)
                      => IsVerified(api'.pv, x) \/ ImageThere(x)'
  BY <1>1
<1> QED
  BY <1>1, <1>2, <1>3, <1>4 DEF VerdictInv

\* The verdicts of PreflightUpgradeCheck, and how they are written.
LEMMA CheckRests ==
  ASSUME TypeInv, StatusInv, VerdictInv, OneImagePerDockerfile,
         pv # Absent => pv.push = TRUE,
         \/ \E m \in Mods : StartCheck(m)
         \/ VerifyImage \/ TryBuildOrSign \/ VerifyBuild \/ VerifySign \/ VerifyFails
         \/ UpdateStatus \/ UpdateStage
  PROVE  VerdictInv' /\ VerdictRests
<1>0. /\ api \in Objects /\ verified \in BOOLEAN /\ WorkPushed(api, registry)
      /\ pc \in Checking =>
            /\ cur \in Mods /\ listed[cur] \in Specs /\ pv.status[cur] \in CRStatus
            /\ pv \in PreflightValidation
  BY DEF TypeInv, ObjectsTyped, LoopTyped, VerdictInv, Checking
<1>a. pc \in Checking => pv.push = TRUE /\ pv.kernel \in Kernels
  BY <1>0, StatusAssumption DEF PreflightValidation
<1>b. ASSUME NEW m \in Mods, NEW stage \in Stages, pv.status[m] \in CRStatus
      PROVE  /\ [pv.status[m] EXCEPT !.stage = stage] \in CRStatus
             /\ [pv.status[m] EXCEPT !.stage = stage].verified = pv.status[m].verified
  BY <1>b DEF CRStatus
<1>1. ASSUME NEW m \in Mods, StartCheck(m)
      PROVE  VerdictInv' /\ VerdictRests
  <2>0. /\ pc = "loop" /\ m \in todo /\ cur' = m
        /\ UNCHANGED <<cache, registry, current, listed>>
    BY <1>1 DEF StartCheck, world
  <2>1. pv.status[m] \in CRStatus
    BY <2>0 DEF TypeInv, LoopTyped
  <2>2. CASE Result(FALSE) /\ UNCHANGED <<api, faults>>
    BY <2>0, <2>2 DEF Result, VerdictInv, VerdictRests, ImageThere
  <2>3. CASE PreflightSetVerificationStage(m, "Image") /\ pc' = "image"
    <3> DEFINE st == [pv.status[m] EXCEPT !.stage = "Image"]
    <3>1. st \in CRStatus /\ st.verified = pv.status[m].verified
      BY <1>b, <2>1 DEF Stages
    <3>2. Update([pv.status EXCEPT ![m] = st])
      BY <2>3 DEF PreflightSetVerificationStage
    <3> HIDE DEF st
    <3> QED
      BY <2>0, <2>1, <2>3, <3>1, <3>2, StepRests
  <2> QED
    BY <1>1, <2>2, <2>3 DEF StartCheck
<1>2. ASSUME NEW stage \in {"Build", "Sign"}, NEW step \in {"build", "sign"},
             GoOn(stage, step), pc \in Checking, UNCHANGED unchangedByCheck,
             step = "build" => ShouldBeBuilt(listed[cur])
      PROVE  VerdictInv' /\ VerdictRests
  <2> DEFINE st == [pv.status[cur] EXCEPT !.stage = stage]
  <2>1. st \in CRStatus /\ st.verified = pv.status[cur].verified
    BY <1>0, <1>2, <1>b DEF Stages
  <2>2. Update([pv.status EXCEPT ![cur] = st]) /\ pc' = step
    BY <1>2 DEF GoOn, PreflightSetVerificationStage
  <2>3. UNCHANGED <<cache, registry, current, listed, cur>>
    BY <1>2 DEF unchangedByCheck, world
  <2> HIDE DEF st
  <2> QED
    BY <1>0, <1>2, <2>1, <2>2, <2>3, StepRests
<1>3. ASSUME NEW v \in BOOLEAN, Result(v), pc \in Checking, UNCHANGED unchangedByCheck,
             v => ImageThere(cur), UNCHANGED api
      PROVE  VerdictInv' /\ VerdictRests
  BY <1>0, <1>3, ResultRests
<1>m. ASSUME MissingImage, pc \in Checking, UNCHANGED unchangedByCheck, UNCHANGED api
      PROVE  VerdictInv' /\ VerdictRests
  <2>1. UNCHANGED <<api, cache, registry, current, listed, cur, pv>> /\ pc' = "missing"
    BY <1>m DEF MissingImage, unchangedByCheck, world
  <2>2. VerdictInv'
    BY <2>1 DEF VerdictInv, ImageThere
  <2> QED
    BY <2>1, <2>2 DEF VerdictRests
<1>4. CASE VerifyImage
  <2>1. /\ pc \in Checking /\ UNCHANGED unchangedByCheck /\ UNCHANGED api
        /\ (Result(TRUE) /\ ImageThere(cur)) \/ MissingImage
    BY <1>4 DEF VerifyImage, Checking, ImageThere
  <2> QED
    BY <1>3, <1>m, <2>1
<1>t. CASE TryBuildOrSign
  <2>0. pc \in Checking /\ UNCHANGED unchangedByCheck
    BY <1>t DEF TryBuildOrSign, Checking
  <2>1. \/ Result(FALSE) /\ UNCHANGED api
        \/ GoOn("Build", "build") /\ ShouldBeBuilt(listed[cur])
        \/ GoOn("Sign", "sign")
    BY <1>t DEF TryBuildOrSign
  <2> QED
    BY <1>2, <1>3, <2>0, <2>1
<1>5. CASE VerifyBuild
  <2>0. pc \in Checking /\ pc = "build" /\ UNCHANGED unchangedByCheck
    BY <1>5 DEF VerifyBuild, Checking
  <2> DEFINE x == MakeBuildTemplate(listed[cur], pv.kernel, pv.push)
  <2>1. \/ /\ Result(TRUE) /\ UNCHANGED api /\ ~ ShouldBeSigned(listed[cur])
           /\ BuildSync(listed[cur], pv.kernel, pv.push, cache.builds[cur]) = "completed"
        \/ Result(FALSE) /\ UNCHANGED api
        \/ /\ Result(FALSE)
           /\ \E n : api' = WithBuild(api, cur, n, x) \/ api' = WithBuild(api, cur, n, Absent)
        \/ GoOn("Sign", "sign")
    BY <1>5 DEF VerifyBuild, WithBuild
  <2>2. CASE /\ Result(TRUE) /\ UNCHANGED api /\ ~ ShouldBeSigned(listed[cur])
             /\ BuildSync(listed[cur], pv.kernel, pv.push, cache.builds[cur]) = "completed"
    BY <1>3, <2>0, <2>2, CompletedBuildThere
  <2>3. CASE /\ Result(FALSE)
             /\ \E n : api' = WithBuild(api, cur, n, x) \/ api' = WithBuild(api, cur, n, Absent)
    <3>1. ShouldBeBuilt(listed[cur])
      BY <2>0 DEF VerdictInv
    <3>2. BuildPushed(x, registry)
      BY <1>0, <1>a, <2>0, <3>1, CreatedPushed
    <3> HIDE DEF x
    <3>3. \E n : \E y \in {x, Absent} : api' = WithBuild(api, cur, n, y)
      BY <2>3
    <3>4. WorkPushed(api', registry)
      BY <1>0, <2>0, <3>2, <3>3, BuildKept
    <3>5. api'.pv = api.pv
      BY <1>0, <3>3, OthersWritten
    <3> QED
      BY <2>0, <2>3, <3>4, <3>5, ResultRests
  <2> QED
    BY <1>2, <1>3, <2>0, <2>1, <2>2, <2>3
<1>6. CASE VerifySign
  <2>0. pc \in Checking /\ pc = "sign" /\ UNCHANGED unchangedByCheck
    BY <1>6 DEF VerifySign, Checking
  <2> DEFINE x == MakeJobTemplate(listed[cur], pv.kernel, pv.push)
             result == SignSync(listed[cur], pv.kernel, pv.push, cache.jobs[cur])
  <2>1. \/ Result(result = "completed") /\ UNCHANGED api
        \/ /\ Result(FALSE)
           /\ \E n : api' = WithJob(api, cur, n, x) \/ api' = WithJob(api, cur, n, Absent)
    BY <1>6 DEF VerifySign, WithJob
  <2>2. CASE Result(result = "completed") /\ UNCHANGED api
    <3>1. result = "completed" => ImageThere(cur)
      BY <1>a, <2>0, CompletedJobThere
    <3> DEFINE v == result = "completed"
    <3>2. v \in BOOLEAN /\ Result(v) /\ (v => ImageThere(cur))
      BY <2>2, <3>1
    <3> HIDE DEF v
    <3> QED
      BY <1>3, <2>0, <2>2, <3>2
  <2>3. CASE /\ Result(FALSE)
             /\ \E n : api' = WithJob(api, cur, n, x) \/ api' = WithJob(api, cur, n, Absent)
    <3>2. JobPushed(x, registry)
      BY <1>0, <1>a, <2>0, CreatedPushed
    <3> HIDE DEF x
    <3>3. \E n : \E y \in {x, Absent} : api' = WithJob(api, cur, n, y)
      BY <2>3
    <3>4. WorkPushed(api', registry)
      BY <1>0, <2>0, <3>2, <3>3, JobKept
    <3>5. api'.pv = api.pv
      BY <1>0, <3>3, OthersWritten
    <3> QED
      BY <2>0, <2>3, <3>4, <3>5, ResultRests
  <2> QED
    BY <2>1, <2>2, <2>3
<1>7. CASE VerifyFails
  BY <1>3, <1>7, <1>m DEF VerifyFails, Checking
<1>8. CASE UpdateStatus
  <2> DEFINE st == [pv.status[cur] EXCEPT !.verified = verified]
  <2>0. /\ pc = "status" /\ pc \in Checking /\ pc' = "stage" /\ verified' = verified
        /\ UNCHANGED <<cache, registry, current, listed, cur>>
    BY <1>8 DEF UpdateStatus, unchangedByCheck, Checking, world
  <2>1. st \in CRStatus /\ st.verified = verified
    BY <1>0, <2>0 DEF CRStatus
  <2>2. verified => ImageThere(cur)
    BY <2>0 DEF VerdictInv
  <2>3. Update([pv.status EXCEPT ![cur] = st])
    BY <1>8 DEF UpdateStatus, PreflightSetVerificationStatus
  <2> HIDE DEF st
  <2> QED
    BY <1>0, <2>0, <2>1, <2>2, <2>3, StepRests
<1>9. CASE UpdateStage
  <2> DEFINE stage == IF verified THEN "Done" ELSE "Requeued"
             st == [pv.status[cur] EXCEPT !.stage = stage]
  <2>0. /\ pc = "stage" /\ pc \in Checking /\ pc' = "loop"
        /\ UNCHANGED <<cache, registry, current, listed, cur>>
    BY <1>9 DEF UpdateStage, unchangedByCheck, Checking, world
  <2>1. stage \in Stages
    BY DEF Stages
  <2>2. Update([pv.status EXCEPT ![cur] = st])
    BY <1>9 DEF UpdateStage, PreflightSetVerificationStage
  <2> HIDE DEF stage
  <2>3. st \in CRStatus /\ st.verified = pv.status[cur].verified
    BY <1>0, <1>b, <2>0, <2>1
  <2> HIDE DEF st
  <2> QED
    BY <1>0, <2>0, <2>2, <2>3, StepRests
<1> QED
  BY <1>1, <1>t, <1>4, <1>5, <1>6, <1>7, <1>8, <1>9

\* Reading the object and listing the Modules makes no verdict.
LEMMA ReadsRest ==
  ASSUME TypeInv, VerdictInv,
         \/ GetPreflight \/ GetModulesToCheck \/ GetModulesToCheckRefused
         \/ CheckPreflightCompletion \/ ReconcileError
  PROVE  VerdictInv' /\ VerdictRests
<1>0. WorkPushed(api, registry) /\ WorkPushed(cache, registry)
  BY DEF VerdictInv
<1>1. CASE GetPreflight
  <2>0. /\ UNCHANGED <<api, cache, registry>> /\ pv' = cache.pv
        /\ current' = (fresh /\ cache.pv # Absent) /\ pc' \in {"idle", "modules"}
    BY <1>1 DEF GetPreflight, world
  <2>1. fresh => cache.pv = api.pv
    BY DEF TypeInv, Versions
  <2> QED
    BY <1>0, <2>0, <2>1 DEF VerdictInv, VerdictRests
<1>2. CASE GetModulesToCheck
  <2> DEFINE ss == PresetStatuses(pv.status, cache.mods)
  <2>0. /\ api \in Objects /\ pv \in PreflightValidation /\ pv = api.pv
        /\ pv.status \in CRStatuses /\ cache.mods \in [Mods -> Specs \cup {Absent}]
    BY <1>2 DEF GetModulesToCheck, TypeInv, ObjectsTyped, LoopTyped, Versions, Accepted,
       Seen, PreflightValidation
  <2>1. \A m \in Mods : \/ ss[m] = Absent \/ ss[m] = NewCRStatus
                        \/ pv.status[m] # Absent /\ ss[m] = pv.status[m]
    BY <2>0, Preset
  <2>2. /\ pv' = [pv EXCEPT !.status = ss] /\ api' = [api EXCEPT !.pv.status = ss]
        /\ pc' = "loop" /\ UNCHANGED <<cache, registry>>
    BY <1>2 DEF GetModulesToCheck, world
  <2> HIDE DEF ss
  <2>3. /\ pv'.status = ss /\ pv' = api'.pv
        /\ api'.builds = api.builds /\ api'.jobs = api.jobs
    BY <2>0, <2>2 DEF PreflightValidation, Objects
  <2>4. pv # Absent
    BY <2>0, StatusAssumption
  <2>5. \A m \in Mods : IsVerified(api'.pv, m) => IsVerified(api.pv, m)
    BY <2>0, <2>1, <2>3, <2>4 DEF IsVerified, NewCRStatus
  <2>6. WorkPushed(api', registry)
    BY <1>0, <2>3 DEF WorkPushed
  <2> QED
    BY <1>0, <2>2, <2>3, <2>5, <2>6 DEF VerdictInv, VerdictRests
<1>3. CASE GetModulesToCheckRefused \/ CheckPreflightCompletion \/ ReconcileError
  <2>1. UNCHANGED <<api, cache, registry>> /\ pc' = "idle" /\ IdleLocals
    BY <1>3 DEF GetModulesToCheckRefused, CheckPreflightCompletion, ReconcileError, Return,
       world
  <2> QED
    BY <1>0, <2>1, ReturnRests DEF VerdictRests
<1> QED
  BY <1>1, <1>2, <1>3

\* The OCP controller creates a PreflightValidation without verdicts.
LEMMA OCPRests ==
  ASSUME TypeInv, VerdictInv, ReconcileOCP \/ OCPReconcileError
  PROVE  VerdictInv' /\ VerdictRests
<1>0. /\ api \in Objects /\ current \in BOOLEAN
      /\ (current => api.pv \in PreflightValidation)
      /\ WorkPushed(api, registry) /\ WorkPushed(cache, registry)
  BY DEF TypeInv, ObjectsTyped, LoopTyped, Versions, VerdictInv
<1>1. UNCHANGED <<cache, pc, locals, registry>>
  BY DEF ReconcileOCP, OCPNothingToDo, PreflightOCPUpdateStatus,
     PreparePreflightValidation, OCPSetNodeInfo, OCPSetImageStreamInfo,
     CreatePreflightValidation, OCPReconcileError, unchangedByOCP
<1>2. SUFFICES /\ api'.builds = api.builds /\ api'.jobs = api.jobs
               /\ \/ api'.pv = api.pv
                  \/ api.pv = Absent /\ \A m \in Mods : ~ IsVerified(api'.pv, m)
  <2>1. current => api.pv # Absent
    BY <1>0, StatusAssumption
  <2>2. WorkPushed(api', registry')
    BY <1>0, <1>1, <1>2 DEF WorkPushed
  <2>3. VerdictInv'
    BY <1>0, <1>1, <1>2, <2>1, <2>2, QuietRests DEF locals
  <2>4. VerdictRests
    BY <1>2 DEF VerdictRests
  <2> QED
    BY <2>3, <2>4
<1>3. CASE PreflightOCPUpdateStatus
  <2> DEFINE vs == {m \in Mods : IsVerified(cache.pv, m)}
  <2>1. api' = [api EXCEPT !.pvo.verified = vs]
    BY <1>3 DEF PreflightOCPUpdateStatus
  <2> HIDE DEF vs
  <2> QED
    BY <1>0, <2>1 DEF Objects
<1>4. CASE CreatePreflightValidation
  <2> DEFINE x == [kernel |-> ReleaseKernelFor(pvo), push |-> pvo.push, status |-> NoneOf]
  <2>1. api' = api \/ (api.pv = Absent /\ api' = [api EXCEPT !.pv = x])
    BY <1>4 DEF CreatePreflightValidation
  <2>2. \A m \in Mods : ~ IsVerified(x, m)
    BY DEF IsVerified, NoneOf
  <2> HIDE DEF x
  <2>3. CASE api' = [api EXCEPT !.pv = x] /\ api.pv = Absent
    <3>1. api'.pv = x /\ api'.builds = api.builds /\ api'.jobs = api.jobs
      BY <1>0, <2>3 DEF Objects
    <3> QED
      BY <2>2, <2>3, <3>1
  <2> QED
    BY <2>1, <2>3
<1>5. CASE OCPNothingToDo \/ PreparePreflightValidation \/ OCPSetNodeInfo
           \/ OCPSetImageStreamInfo \/ OCPReconcileError
  BY <1>5 DEF OCPNothingToDo, PreparePreflightValidation, OCPSetNodeInfo,
     OCPSetImageStreamInfo, OCPReconcileError
<1> QED
  BY <1>3, <1>4, <1>5 DEF ReconcileOCP

\* What a cache comes to show has pushed what it says it has.
LEMMA DeliveredRests ==
  ASSUME TypeInv, VerdictInv, Deliver \/ Restart
  PROVE  VerdictInv' /\ VerdictRests
<1>0. /\ api \in Objects /\ cache \in Seen
      /\ WorkPushed(api, registry) /\ WorkPushed(cache, registry)
  BY DEF TypeInv, ObjectsTyped, VerdictInv
<1>1. UNCHANGED <<api, registry>> /\ VerdictRests
  BY DEF Deliver, DeliverPreflight, DeliverModules, DeliverOwned, Restart, VerdictRests,
     world
<1>2. CASE Deliver
  <2>1. cache'.builds \in {cache.builds, api.builds} /\ cache'.jobs \in {cache.jobs, api.jobs}
    BY <1>0, <1>2 DEF Deliver, DeliverPreflight, DeliverModules, DeliverOwned, Seen
  <2>2. UNCHANGED <<pc, locals>>
    BY <1>2 DEF Deliver, DeliverPreflight, DeliverModules, DeliverOwned
  <2>3. WorkPushed(cache', registry)
    BY <1>0, <2>1 DEF WorkPushed
  <2> QED
    BY <1>0, <1>1, <2>2, <2>3, QuietRests DEF locals
<1>3. CASE Restart
  <2>1. cache' = [kind \in Cached |-> api[kind]] /\ pc' = "idle" /\ IdleLocals
    BY <1>3 DEF Restart
  <2>2. cache'.builds = api.builds /\ cache'.jobs = api.jobs
    BY <2>1 DEF Cached
  <2>3. WorkPushed(cache', registry)
    BY <1>0, <2>2 DEF WorkPushed
  <2> QED
    BY <1>0, <1>1, <2>1, <2>3, ReturnRests
<1> QED
  BY <1>2, <1>3

\* A Build that completes and a Job that succeeds have pushed their image.
LEMMA EndedPushed ==
  ASSUME NEW r, NEW q, r \subseteq q
  PROVE  /\ \A x \in Build, p \in {"Complete", "Failed"} :
               BuildPushed(x, r) /\ (p = "Complete" => {x.output} \ {Absent} \subseteq q)
                  => BuildPushed([x EXCEPT !.phase = p], q)
         /\ \A x \in SignJob, p \in {"Active", "Succeeded", "Failed"} :
               JobPushed(x, r) /\ (p = "Succeeded" => {x.hash[3]} \ {Absent} \subseteq q)
                  => JobPushed([x EXCEPT !.phase = p], q)
<1>1. ASSUME NEW x \in Build, NEW p \in {"Complete", "Failed"}, BuildPushed(x, r),
             p = "Complete" => {x.output} \ {Absent} \subseteq q
      PROVE  BuildPushed([x EXCEPT !.phase = p], q)
  <2> DEFINE y == [x EXCEPT !.phase = p]
  <2>1. y.kernel = x.kernel /\ y.hash = x.hash /\ y.output = x.output /\ y.phase = p
    BY DEF Build
  <2> HIDE DEF y
  <2>2. x.kernel \in Kernels
    BY DEF Build
  <2>3. x.output # Absent
    BY <1>1, <2>2, ImagesTyped, ObjectAssumption DEF BuildPushed
  <2>4. BuildPushed(y, q)
    BY <1>1, <2>1, <2>3 DEF BuildPushed
  <2> QED
    BY <2>4 DEF y
<1>2. ASSUME NEW x \in SignJob, NEW p \in {"Active", "Succeeded", "Failed"},
             JobPushed(x, r), p = "Succeeded" => {x.hash[3]} \ {Absent} \subseteq q
      PROVE  JobPushed([x EXCEPT !.phase = p], q)
  <2> DEFINE y == [x EXCEPT !.phase = p]
  <2>1. y.hash = x.hash /\ y.phase = p
    BY DEF SignJob
  <2> HIDE DEF y
  <2>3. x.hash[3] # Absent
    BY <1>2, ObjectAssumption DEF JobPushed
  <2>4. JobPushed(y, q)
    BY <1>2, <2>1, <2>3 DEF JobPushed
  <2> QED
    BY <2>4 DEF y
<1> QED
  BY <1>1, <1>2

\* Around the controllers images are pushed by those that say so.
LEMMA SurroundingsRest ==
  ASSUME TypeInv, VerdictInv, Cluster \/ Users
  PROVE  VerdictInv' /\ VerdictRests
<1>0. /\ api \in Objects /\ current \in BOOLEAN
      /\ WorkPushed(api, registry) /\ WorkPushed(cache, registry)
  BY DEF TypeInv, ObjectsTyped, LoopTyped, VerdictInv
<1>1. UNCHANGED <<cache, pc, pv, listed, todo, cur, verified>>
  BY DEF Cluster, Users, NodeKernelReconcile, ImageStreamReconcile, PreflightCollected,
     BuildCompletes, BuildFails, JobStarts, JobEnds, OwnedObjectCollected, ChangeModule,
     DeletePreflightValidationOCP, CreateConfigMap, PushImage, unchangedByCluster, operator
<1>2. registry \subseteq registry'
  BY DEF Cluster, Users, NodeKernelReconcile, ImageStreamReconcile, PreflightCollected,
     BuildCompletes, BuildFails, JobStarts, JobEnds, OwnedObjectCollected, ChangeModule,
     DeletePreflightValidationOCP, CreateConfigMap, PushImage, unchangedByCluster, world
<1>3. \/ current' = FALSE /\ api'.pv = Absent
      \/ current' = current /\ api'.pv = api.pv
  <2>1. CASE PreflightCollected /\ api' = [api EXCEPT !.pv = Absent]
    BY <1>0, <2>1 DEF PreflightCollected, Objects
  <2>2. ASSUME \/ \E m, n, x : api' = WithBuild(api, m, n, x)
               \/ \E m, n, x : api' = WithJob(api, m, n, x)
               \/ \E m, x : api' = [api EXCEPT !.mods[m] = x]
               \/ api' = [api EXCEPT !.pvo = Absent]
        PROVE  api'.pv = api.pv
    BY <1>0, <2>2 DEF Objects, WithBuild, WithJob
  <2> QED
    BY <2>1, <2>2, ApiSteps
<1>4. WorkPushed(api, registry') /\ WorkPushed(cache, registry')
  BY <1>0, <1>2, WorkGrows
<1>5. SUFFICES WorkPushed(api', registry')
  <2>1. VerdictRests
    BY <1>3 DEF VerdictRests
  <2>2. current' => current /\ api'.pv = api.pv
    BY <1>3
  <2>3. VerdictInv'
    BY <1>1, <1>2, <1>4, <1>5, <2>2, QuietRests
  <2> QED
    BY <2>1, <2>3
<1>6. ASSUME NEW m \in Mods, NEW n \in Names, BuildCompletes(m, n) \/ BuildFails(m, n)
      PROVE  WorkPushed(api', registry')
  <2> DEFINE x == api.builds[m][n]
  <2>1. /\ x # Absent
        /\ \E p \in {"Complete", "Failed"} :
              /\ api' = WithBuild(api, m, n, [x EXCEPT !.phase = p])
              /\ p = "Complete" => {x.output} \ {Absent} \subseteq registry'
    BY <1>6 DEF BuildCompletes, BuildFails, WithBuild
  <2>2. x \in Build /\ BuildPushed(x, registry)
    BY <1>0, <2>1 DEF Objects, WorkPushed
  <2> HIDE DEF x
  <2>3. \E y : BuildPushed(y, registry') /\ api' = WithBuild(api, m, n, y)
    BY <1>2, <2>1, <2>2, EndedPushed
  <2> QED
    BY <1>0, <1>4, <2>3, BuildKept
<1>7. ASSUME NEW m \in Mods, NEW n \in Names, JobStarts(m, n) \/ JobEnds(m, n)
      PROVE  WorkPushed(api', registry')
  <2> DEFINE x == api.jobs[m][n]
  <2>1. /\ x # Absent
        /\ \E p \in {"Active", "Succeeded", "Failed"} :
              /\ api' = WithJob(api, m, n, [x EXCEPT !.phase = p])
              /\ p = "Succeeded" => {x.hash[3]} \ {Absent} \subseteq registry'
    BY <1>7 DEF JobStarts, JobEnds, WithJob
  <2>2. x \in SignJob /\ JobPushed(x, registry)
    BY <1>0, <2>1 DEF Objects, WorkPushed
  <2> HIDE DEF x
  <2>3. \E y : JobPushed(y, registry') /\ api' = WithJob(api, m, n, y)
    BY <1>2, <2>1, <2>2, EndedPushed
  <2> QED
    BY <1>0, <1>4, <2>3, JobKept
<1>8. ASSUME NEW m \in Mods, NEW n \in Names, NEW kind \in {"builds", "jobs"},
             OwnedObjectCollected(kind, m, n)
      PROVE  WorkPushed(api', registry')
  <2>1. api' = WithBuild(api, m, n, Absent) \/ api' = WithJob(api, m, n, Absent)
    BY <1>8 DEF OwnedObjectCollected, WithBuild, WithJob
  <2> QED
    BY <1>0, <1>4, <2>1, BuildKept, JobKept
<1>9. ASSUME \/ NodeKernelReconcile \/ ImageStreamReconcile \/ PreflightCollected
             \/ (\E m \in EditedMods, s \in Specs \cup {Absent} : ChangeModule(m, s))
             \/ DeletePreflightValidationOCP
             \/ (\E d \in Dockerfiles : CreateConfigMap(d)) \/ (\E m \in Mods : PushImage(m))
      PROVE  WorkPushed(api', registry')
  <2>1. api'.builds = api.builds /\ api'.jobs = api.jobs
    BY <1>0, <1>9 DEF NodeKernelReconcile, ImageStreamReconcile, PreflightCollected,
       ChangeModule, DeletePreflightValidationOCP, CreateConfigMap, PushImage, Objects
  <2> QED
    BY <1>4, <2>1 DEF WorkPushed
<1> QED
  BY <1>6, <1>7, <1>8, <1>9 DEF Cluster, Users

\* Every step keeps what the verdicts rest on.
LEMMA VerdictKept ==
  ASSUME TypeInv, StatusInv, OneImagePerDockerfile, [Next]_vars,
         NEW push \in BOOLEAN, PushInv(push)
  PROVE  PushInv(push)' /\ VerdictRests
<1>1. PushIs(push)'
  BY PushKept DEF PushInv
<1>2. CASE ~ push
  <2>1. VerdictRests
    BY <1>1, <1>2 DEF PushIs, VerdictRests
  <2> QED
    BY <1>1, <1>2, <2>1 DEF PushInv
<1>3. CASE push
  <2>0. VerdictInv /\ (pv # Absent => pv.push = TRUE)
    BY <1>3 DEF PushInv, PushIs
  <2> SUFFICES VerdictInv' /\ VerdictRests
    BY <1>1 DEF PushInv
  <2>1. CASE UNCHANGED vars
    <3>1. UNCHANGED <<api, cache, registry, pc, pv, current, verified, listed, cur>>
      BY <2>1 DEF vars, locals, world
    <3>2. WorkPushed(api', registry') /\ WorkPushed(cache', registry')
      BY <2>0, <3>1 DEF VerdictInv
    <3>3. VerdictInv'
      BY <2>0, <3>1, <3>2, QuietRests
    <3> QED
      BY <3>1, <3>3 DEF VerdictRests
  <2>2. CASE \/ \E m \in Mods : StartCheck(m)
             \/ VerifyImage \/ TryBuildOrSign \/ VerifyBuild \/ VerifySign \/ VerifyFails
             \/ UpdateStatus \/ UpdateStage
    BY <2>0, <2>2, CheckRests
  <2> QED
    BY <2>0, <2>1, <2>2, ReadsRest, OCPRests, DeliveredRests, SurroundingsRest
    DEF Next, Reconcile
<1> QED
  BY <1>2, <1>3

\* At the start nothing was built, signed or verified.
LEMMA VerdictInit ==
  ASSUME Init
  PROVE  \E push \in BOOLEAN : PushInv(push)
<1>1. PICK ms \in InitMods, push \in InitPush, useRT \in BOOLEAN :
        api = [pvo |-> [push |-> push, useRT |-> useRT, verified |-> {}],
               pv |-> Absent, mods |-> ms, builds |-> NoObjects, jobs |-> NoObjects]
  BY DEF Init
<1>2. /\ cache = [kind \in Cached |-> api[kind]] /\ registry = {} /\ pc = "idle"
      /\ pv = Absent /\ current = FALSE /\ pvo = Absent
  BY DEF Init
<1>3. /\ cache.pv = Absent /\ cache.builds = NoObjects /\ cache.jobs = NoObjects
      /\ api.pv = Absent /\ api.builds = NoObjects /\ api.jobs = NoObjects
      /\ api.pvo.push = push
  BY <1>1, <1>2 DEF Cached
<1>4. WorkPushed(api, registry) /\ WorkPushed(cache, registry)
  BY <1>3 DEF WorkPushed, NoObjects
<1>5. VerdictInv
  BY <1>2, <1>4 DEF VerdictInv
<1>6. PushIs(push)
  BY <1>2, <1>3 DEF PushIs
<1> QED
  BY <1>5, <1>6, PreflightAssumption DEF PushInv

\* With PushBuiltImage, a Module becomes verified only when the image its nodes will
\* pull is in the registry, however old the lists of Builds and Jobs are and whichever
\* writes of the status were refused in between: a verdict that could not be written
\* stays in the copy, and is still true when a later write takes it along.
THEOREM VerdictSafety ==
  ASSUME OneImagePerDockerfile
  PROVE  Spec => VerifiedImagesArePushed
<1> DEFINE Inv == TypeInv /\ StatusInv /\ \E push \in BOOLEAN : PushInv(push)
           A == \A m \in Mods :
                  /\ api'.pv # Absent /\ api'.pv.push
                  /\ ~ IsVerified(api.pv, m) /\ IsVerified(api'.pv, m)
                  => ContainerImage(listed[m], api'.pv.kernel) \in registry
<1>1. Init => Inv
  BY InitTyped, StatusInit, VerdictInit
<1>2. Inv /\ [Next]_vars => Inv'
  <2> SUFFICES ASSUME Inv, [Next]_vars PROVE Inv'
    OBVIOUS
  <2>1. PICK push \in BOOLEAN : PushInv(push)
    OBVIOUS
  <2>2. PushInv(push)'
    BY <2>1, VerdictKept
  <2> QED
    BY <2>2, StepTyped, StatusKept
<1>3. Inv /\ [Next]_vars => [A]_vars
  BY VerdictKept DEF VerdictRests
<1>4. Spec => [][A]_vars
  <2> HIDE DEF Inv, A
  <2> QED
    BY <1>1, <1>2, <1>3, PTL DEF Spec
<1> QED
  BY <1>4 DEF VerifiedImagesArePushed

===========================================================================
