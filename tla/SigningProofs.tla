---------------------------- MODULE SigningProofs ----------------------------
(***************************************************************************)
(* Proofs about the signing tool and the reconciler that runs it, for any   *)
(* images, files, sign sections, Jobs and failures.                         *)
(***************************************************************************)
EXTENDS Signing, FiniteSetTheorems, WellFoundedInduction, TLAPS

-----------------------------------------------------------------------------
(* Images.                                                                  *)

\* A set of numbers up to n has a greatest one.
LEMMA MaxInSet ==
  ASSUME NEW n \in Nat, NEW S, S \subseteq 1..n, S # {}
  PROVE  Max(S) \in S /\ \A i \in S : i <= Max(S)
<1> DEFINE T == {n - i : i \in S}
           R == OpToRel(<, Nat)
<1>1. T \subseteq Nat /\ T # {}
  <2>1. \A i \in S : n - i \in Nat
    OBVIOUS
  <2>2. PICK i \in S : TRUE
    OBVIOUS
  <2>3. n - i \in T
    BY <2>2
  <2> QED
    BY <2>1, <2>3
<1>2. PICK x \in T : \A y \in T : ~ (<<y, x>> \in R)
  BY <1>1, WFMin, NatLessThanWellFounded
<1>3. \A y \in T : ~ (y < x)
  BY <1>1, <1>2 DEF OpToRel
<1>4. PICK i \in S : x = n - i
  OBVIOUS
<1>5. \A j \in S : i >= j
  <2> SUFFICES ASSUME NEW j \in S PROVE i >= j
    OBVIOUS
  <2>1. n - j \in T /\ i \in Nat /\ j \in Nat
    OBVIOUS
  <2> QED
    BY <1>3, <1>4, <2>1
<1>6. Max(S) \in S /\ \A y \in S : Max(S) >= y
  BY <1>5 DEF Max
<1> QED
  BY <1>6

LEMMA MaxIsTop ==
  ASSUME NEW n \in Nat, NEW S, S \subseteq 1..n, n \in S
  PROVE  Max(S) = n
<1>1. Max(S) \in S /\ n <= Max(S)
  BY MaxInSet
<1>2. Max(S) \in 1..n
  BY <1>1
<1>3. Max(S) \in Int /\ Max(S) <= n
  BY <1>2
<1> QED
  BY <1>1, <1>3

\* A layer that spells a path one way decides what is mounted there.
LEMMA MountedTop ==
  ASSUME NEW img \in Image, NEW layer \in Layer, NEW p, NEW f,
         Spellings(layer, p) = {f}
  PROVE  Mounted(Append(img, layer), p) =
            IF layer[f] = Whiteout THEN NoEntry ELSE layer[f]
<1> DEFINE new  == Append(img, layer)
           with == LayersWith(new, p)
           n    == Len(img) + 1
<1>1. n \in Nat /\ DOMAIN new = 1..n /\ new[n] = layer
  BY DEF Image
<1>2. with \subseteq 1..n /\ n \in with
  BY <1>1 DEF LayersWith
<1>4. Max(with) = n
  BY <1>1, <1>2, MaxIsTop
<1>5. with # {} /\ new[Max(with)] = layer
  BY <1>1, <1>2, <1>4
<1>6. Entry(layer, p) = layer[f]
  BY DEF Entry
<1> QED
  BY <1>5, <1>6 DEF Mounted

\* A layer without the path changes nothing there.
LEMMA MountedBelow ==
  ASSUME NEW img \in Image, NEW layer \in Layer, NEW p, Spellings(layer, p) = {}
  PROVE  Mounted(Append(img, layer), p) = Mounted(img, p)
<1> DEFINE new  == Append(img, layer)
           with == LayersWith(img, p)
           n    == Len(img)
<1>1. /\ n \in Nat /\ DOMAIN img = 1..n /\ DOMAIN new = 1..(n + 1)
      /\ new[n + 1] = layer /\ \A i \in 1..n : new[i] = img[i]
  BY DEF Image
<1>2. LayersWith(new, p) = with
  BY <1>1 DEF LayersWith
<1>3. CASE with = {}
  BY <1>2, <1>3 DEF Mounted
<1>4. CASE with # {}
  <2>1. with \subseteq 1..n
    BY <1>1 DEF LayersWith
  <2>2. Max(with) \in 1..n
    BY <1>1, <1>4, <2>1, MaxInSet
  <2>3. new[Max(with)] = img[Max(with)]
    BY <1>1, <2>2
  <2> QED
    BY <1>2, <2>3 DEF Mounted
<1> QED
  BY <1>3, <1>4

\* Something is mounted when the topmost layer that names the path has contents.
LEMMA MountedWhere ==
  ASSUME NEW img \in Image, NEW p, Mounted(img, p) # NoEntry
  PROVE  \E i \in 1..Len(img) : \E f \in Spellings(img[i], p) :
            /\ img[i][f] \in Content /\ Mounted(img, p) = img[i][f]
            /\ \A j \in 1..Len(img) : Spellings(img[j], p) # {} => j <= i
<1> DEFINE with == LayersWith(img, p)
           top  == Max(with)
           f    == CHOOSE f \in Spellings(img[top], p) : TRUE
<1>1. Len(img) \in Nat /\ DOMAIN img = 1..Len(img) /\ \A i \in DOMAIN img : img[i] \in Layer
  BY DEF Image
<1>2. with # {} /\ img[top][f] # Whiteout /\ Mounted(img, p) = img[top][f]
  BY DEF Mounted, Entry
<1>3. top \in with /\ \A j \in with : j <= top
  <2>1. with \subseteq 1..Len(img)
    BY <1>1 DEF LayersWith
  <2> QED
    BY <1>1, <1>2, <2>1, MaxInSet
<1>4. top \in 1..Len(img) /\ f \in Spellings(img[top], p)
  BY <1>1, <1>3 DEF LayersWith
<1>5. img[top][f] \in Content
  BY <1>1, <1>2, <1>4 DEF Spellings, Layer
<1>6. \A j \in 1..Len(img) : Spellings(img[j], p) # {} => j <= top
  BY <1>1, <1>3 DEF LayersWith
<1> QED
  BY <1>2, <1>4, <1>5, <1>6

-----------------------------------------------------------------------------
(* Types.  The worker has the name of a ConfigMap where it patches it, and  *)
(* the tool an image where it walks the layers.                             *)

CATyped ==
    /\ mods \in SUBSET Mods /\ queue \in SUBSET Mods
    /\ cms \in [CMNames -> ConfigMap \cup {NoCM}]
    /\ cmCache \in [CMNames -> ConfigMap \cup {NoCM}]
    /\ pc \in {"idle", "cluster", "ownCluster", "service", "ownService",
               "synced", "signSync", "driver", "collect"}
    /\ cur \in Mods \cup {NoMod} /\ (pc # "idle" => cur \in Mods)
    /\ created \in 0..MaxCMs /\ \A c \in CMNames : c > created => cms[c] = NoCM
    /\ name \in CMNames \cup {NoCM} /\ copy \in ConfigMap \cup {NoCM}
    /\ name \in CMNames <=> copy \in ConfigMap
    /\ pc \in {"ownCluster", "ownService"} => name \in CMNames
    /\ changes \in 0..MaxChanges /\ errors \in 0..MaxErrors

ToolTyped ==
    /\ images \in [ImageNames -> Image \cup {NoImage}]
    /\ proc \in [Runs -> Process] /\ faults \in 0..MaxFaults
    /\ \A r \in Runs :
          /\ proc[r].pc \in {"walk", "layer", "push"} => proc[r].img \in Image
          /\ proc[r].pc = "walk" => proc[r].left <= Len(proc[r].img)

JobsTyped ==
    /\ sections \in [module : ModuleSigns, mapping : MappingSigns]
    /\ jobs \in [Runs -> Job \cup {NoJob}] /\ deployed \in BOOLEAN

TypeInv == CATyped /\ ToolTyped /\ JobsTyped

\* The arguments of the tool are those of a program that can run: two images,
\* not the same one, and the files both sections list.
LEMMA ArgsTyped ==
  ASSUME sections \in [module : ModuleSigns, mapping : MappingSigns]
  PROVE  /\ args \in Args /\ args.source # Target /\ args.target = Target /\ args.push
         /\ args.files = ListedFiles
<1> DEFINE s == sections.module
           t == sections.mapping
           sign == GetRelevantSign(s, t)
<1>1. /\ s \in ModuleSigns /\ t \in MappingSigns
      /\ s \in Section \cup {NoSection} /\ t \in Section \cup {NoSection}
  BY SigningAssumption
<1>2. {s, t} # {NoSection} /\ sign.unsignedImage \notin {NoImage, Target}
  BY <1>1, SigningAssumption
<1>3. sign.unsignedImage \in ImageNames \cup {NoImage} /\ sign.files \in SUBSET Files
  <2>1. CASE s = NoSection
    BY <1>1, <1>2, <2>1 DEF GetRelevantSign, Section
  <2>2. CASE s # NoSection /\ t = NoSection
    BY <1>1, <2>2 DEF GetRelevantSign, Section
  <2>3. CASE s # NoSection /\ t # NoSection
    BY <1>1, <2>3 DEF GetRelevantSign, Section
  <2> QED
    BY <2>1, <2>2, <2>3
<1>4. sign.files = ListedFiles
  <2>1. CASE s = NoSection
    <3>1. t # NoSection /\ sign = t
      BY <1>2, <2>1 DEF GetRelevantSign
    <3>2. {s, t} \ {NoSection} = {t}
      BY <2>1, <3>1
    <3> QED
      BY <3>1, <3>2 DEF ListedFiles
  <2>2. CASE s # NoSection /\ t = NoSection
    <3>1. sign = s
      BY <2>2 DEF GetRelevantSign
    <3>2. {s, t} \ {NoSection} = {s}
      BY <2>2
    <3> QED
      BY <3>1, <3>2 DEF ListedFiles
  <2>3. CASE s # NoSection /\ t # NoSection
    <3>1. sign.files = s.files \cup t.files
      BY <2>3 DEF GetRelevantSign
    <3>2. {s, t} \ {NoSection} = {s, t}
      BY <2>3
    <3> QED
      BY <3>1, <3>2 DEF ListedFiles
  <2> QED
    BY <2>1, <2>2, <2>3
<1> HIDE DEF s, t
<1>5. args = [source |-> sign.unsignedImage, target |-> Target, push |-> TRUE,
              files |-> sign.files]
  BY DEF args, s, t
<1> HIDE DEF sign
<1> QED
  BY <1>2, <1>3, <1>4, <1>5, SigningAssumption DEF Args

LEMMA TypeInvOK == TypeInv => TypeOK
BY ArgsTyped DEF TypeInv, TypeOK, CATyped, ToolTyped, JobsTyped

LEMMA InitTyped == Init => TypeInv
<1> SUFFICES ASSUME Init PROVE TypeInv
  OBVIOUS
<1>1. CATyped
  BY CAAssumption DEF Init, CAInit, CATyped
<1>2. JobsTyped
  BY DEF Init, JobsTyped
<1>3. args \in Args
  BY ArgsTyped DEF Init
<1>4. NewProcess(args) \in Process
  BY <1>3 DEF NewProcess, Process
<1>5. proc = [r \in Runs |-> NewProcess(args)] /\ faults = 0
  BY DEF Init
<1>6. images \in [ImageNames -> Image \cup {NoImage}]
  BY SigningAssumption DEF Init
<1>7. ToolTyped
  BY <1>4, <1>5, <1>6, SignImageAssumption DEF ToolTyped, NewProcess
<1> QED
  BY <1>1, <1>2, <1>7 DEF TypeInv

-----------------------------------------------------------------------------
(* Steps keep the types: the reconciler, users and the garbage collector.   *)

\* The single element of a set of ConfigMaps.
LEMMA TheOneFound ==
  ASSUME NEW objs, NEW t, Cardinality(OfType(objs, t)) = 1
  PROVE  /\ TheOne(OfType(objs, t)) \in CMNames
         /\ objs[TheOne(OfType(objs, t))] # NoCM
         /\ objs[TheOne(OfType(objs, t))].type = t
<1> DEFINE found == OfType(objs, t)
<1>1. IsFiniteSet(found)
  BY FS_Interval, FS_Subset, CAAssumption DEF CMNames, OfType
<1>2. \E c \in found : found = {c}
  BY <1>1, FS_Singleton
<1>3. TheOne(found) \in found
  BY <1>2 DEF TheOne
<1> QED
  BY <1>3 DEF OfType

LEMMA ReturnTyped ==
  ASSUME CATyped, cur \in Mods, NEW err \in BOOLEAN, Return(err),
         UNCHANGED <<mods, cms, cmCache, created, changes>>, errors' \in 0..MaxErrors
  PROVE  CATyped'
<1>1. queue' \in SUBSET Mods
  BY DEF CATyped, Return
<1>2. pc' = "idle" /\ cur' = NoMod /\ name' = NoCM /\ copy' = NoCM
  BY DEF Return
<1>3. NoCM \notin CMNames /\ NoCM \notin ConfigMap
  BY CAAssumption
<1> QED
  BY <1>1, <1>2, <1>3 DEF CATyped

LEMMA SyncTyped ==
  ASSUME CATyped, Sync
  PROVE  CATyped'
<1> USE CAAssumption
<1>1. CASE \E m \in Mods : GetModule(m)
  BY <1>1 DEF CATyped, GetModule, At
<1>2. CASE \E t \in CATypes : GetOrCreateConfigMap(t)
  <2>1. PICK t \in CATypes : GetOrCreateConfigMap(t)
    BY <1>2
  <2> DEFINE found == OfType(cmCache, t)
  <2>2. /\ pc = t /\ pc \in {"cluster", "service"} /\ cur \in Mods
        /\ UNCHANGED <<mods, cmCache, changes, errors>>
    BY <2>1 DEF GetOrCreateConfigMap, At, CATyped, CATypes
  <2>3. CASE found = {} /\ Create(t) /\ UNCHANGED <<cur, queue>>
    <3>1. created + 1 \in CMNames /\ created + 1 \in 0..MaxCMs
      BY <2>3 DEF Create, CATyped, CMNames
    <3>2. [type |-> t, owners |-> {}] \in ConfigMap
      BY DEF ConfigMap
    <3>3. cms' \in [CMNames -> ConfigMap \cup {NoCM}]
      BY <2>3, <3>2 DEF Create, CATyped
    <3>4. \A c \in CMNames : c > created' => cms'[c] = NoCM
      BY <2>3 DEF Create, CATyped, CMNames
    <3> QED
      BY <2>2, <2>3, <3>1, <3>2, <3>3, <3>4 DEF Create, CATyped, PatchStep
  <2>4. CASE /\ Cardinality(found) = 1
             /\ pc' = PatchStep(t) /\ name' = TheOne(found)
             /\ copy' = cmCache[TheOne(found)]
             /\ UNCHANGED <<cms, created, cur, queue>>
    <3>1. TheOne(found) \in CMNames /\ cmCache[TheOne(found)] # NoCM
      BY <2>4, TheOneFound
    <3>2. cmCache[TheOne(found)] \in ConfigMap
      BY <3>1 DEF CATyped
    <3> QED
      BY <2>2, <2>4, <3>1, <3>2 DEF CATyped, PatchStep
  <2>5. CASE Return(TRUE) /\ UNCHANGED <<cms, created>>
    BY <2>2, <2>5, ReturnTyped DEF CATyped
  <2> QED
    BY <2>1, <2>3, <2>4, <2>5 DEF GetOrCreateConfigMap
<1>3. CASE \E t \in CATypes : SyncConfigMapOwners(t)
  <2>1. PICK t \in CATypes : SyncConfigMapOwners(t)
    BY <1>3
  <2>2. /\ pc \in {"ownCluster", "ownService"} /\ cur \in Mods
        /\ UNCHANGED <<mods, cmCache, created, changes, errors>>
    BY <2>1 DEF SyncConfigMapOwners, At, CATyped, PatchStep
  <2>3. CASE Return(TRUE) /\ UNCHANGED cms
    BY <2>2, <2>3, ReturnTyped DEF CATyped
  <2>4. CASE cms[name] # NoCM
    <3>1. /\ name \in CMNames /\ copy \in ConfigMap /\ cms[name] \in ConfigMap
          /\ ~ (name > created)
      BY <2>2, <2>4 DEF CATyped
    <3>2. WithOwner(copy).owners \in SUBSET Mods
      BY <2>2, <3>1 DEF WithOwner, ConfigMap
    <3>3. \/ cms' = cms
          \/ cms' = [cms EXCEPT ![name] = [cms[name] EXCEPT !.owners = WithOwner(copy).owners]]
      BY <2>1, <2>4 DEF SyncConfigMapOwners
    <3>4. [cms[name] EXCEPT !.owners = WithOwner(copy).owners] \in ConfigMap
      BY <3>1, <3>2 DEF ConfigMap
    <3>5. /\ cms' \in [CMNames -> ConfigMap \cup {NoCM}]
          /\ \A c \in CMNames : c > created => cms'[c] = NoCM
      BY <3>1, <3>3, <3>4 DEF CATyped
    <3>6. /\ pc' \in {"service", "synced"} /\ name' = NoCM /\ copy' = NoCM
          /\ UNCHANGED <<cur, queue>>
      BY <2>1, <2>4 DEF SyncConfigMapOwners
    <3> QED
      BY <2>2, <3>5, <3>6 DEF CATyped
  <2> QED
    BY <2>1, <2>3, <2>4 DEF SyncConfigMapOwners
<1> QED
  BY <1>1, <1>2, <1>3 DEF Sync

LEMMA WorkerTyped ==
  ASSUME TypeInv, SignShouldSync \/ SignSync \/ HandleDriverContainer \/ GarbageCollectJobs
  PROVE  TypeInv'
<1> USE CAAssumption DEF TypeInv
<1>1. cur \in Mods /\ pc \notin {"idle", "ownCluster", "ownService"}
  BY DEF SignShouldSync, SignSync, HandleDriverContainer, GarbageCollectJobs, At, CATyped
<1>2. UNCHANGED <<mods, cms, cmCache, created, changes, errors, images, proc, faults, sections>>
  BY DEF SignShouldSync, SignSync, HandleDriverContainer, GarbageCollectJobs, signVars
<1>3. \/ \E err \in BOOLEAN : Return(err)
      \/ /\ pc' \in {"signSync", "driver", "collect"} /\ UNCHANGED <<cur, name, copy>>
         /\ queue' \in {queue, queue \cup {cur}}
  BY DEF SignShouldSync, SignSync, HandleDriverContainer, GarbageCollectJobs, CreateJob
<1>4. CATyped'
  <2>1. CASE \E err \in BOOLEAN : Return(err)
    BY <1>1, <1>2, <2>1, ReturnTyped DEF CATyped
  <2>2. CASE /\ pc' \in {"signSync", "driver", "collect"} /\ UNCHANGED <<cur, name, copy>>
             /\ queue' \in {queue, queue \cup {cur}}
    BY <1>1, <1>2, <2>2 DEF CATyped
  <2> QED
    BY <1>3, <2>1, <2>2
<1>5. ToolTyped'
  BY <1>2 DEF ToolTyped
<1>6. jobs' \in [Runs -> Job \cup {NoJob}] /\ deployed' \in BOOLEAN
  <2>1. CASE SignShouldSync
    BY <2>1 DEF SignShouldSync, JobsTyped
  <2>2. CASE SignSync
    <3>1. deployed' = deployed
      BY <2>2 DEF SignSync
    <3>2. CASE CreateJob /\ \A t \in CATypes : HasCA(t)
      <4>1. [t \in CATypes |-> GetCA(t)] \in [CATypes -> CMNames]
        BY <3>2, TheOneFound DEF HasCA, GetCA
      <4>2. [phase |-> "New", ca |-> [t \in CATypes |-> GetCA(t)]] \in Job
        BY <4>1 DEF Job
      <4> QED
        BY <3>1, <3>2, <4>2 DEF CreateJob, JobsTyped
    <3>3. CASE jobs' = [jobs EXCEPT ![TheOne(ModuleJobs)] = NoJob]
      BY <3>1, <3>3 DEF JobsTyped
    <3>4. CASE UNCHANGED jobs
      BY <3>1, <3>4 DEF JobsTyped
    <3> QED
      BY <2>2, <3>2, <3>3, <3>4 DEF SignSync
  <2>3. CASE HandleDriverContainer
    BY <2>3 DEF HandleDriverContainer, JobsTyped
  <2>4. CASE GarbageCollectJobs
    BY <2>4 DEF GarbageCollectJobs, JobsTyped
  <2> QED
    BY <2>1, <2>2, <2>3, <2>4
<1>7. JobsTyped'
  BY <1>2, <1>6 DEF JobsTyped
<1> QED
  BY <1>4, <1>5, <1>7

\* What happens to ConfigMaps and Modules besides.
LEMMA NamespaceTyped ==
  ASSUME CATyped,
         \/ ReconcileError \/ Restart \/ DeliverConfigMaps \/ Resync
         \/ \E m \in Mods : DeleteModule(m)
         \/ \E c \in CMNames : UserDeletesConfigMap(c) \/ CollectConfigMap(c)
  PROVE  CATyped'
<1> USE CAAssumption
<1>1. CASE ReconcileError
  <2>1. errors' \in 0..MaxErrors /\ cur \in Mods
    BY <1>1 DEF ReconcileError, CATyped
  <2> QED
    BY <1>1, <2>1, ReturnTyped DEF ReconcileError
<1>2. CASE Restart
  BY <1>2 DEF Restart, CATyped
<1>3. CASE DeliverConfigMaps
  BY <1>3 DEF DeliverConfigMaps, CATyped, worker
<1>4. CASE Resync
  BY <1>4 DEF Resync, CATyped, worker
<1>5. CASE \E m \in Mods : DeleteModule(m)
  BY <1>5 DEF DeleteModule, CATyped, worker
<1>6. CASE \E c \in CMNames : UserDeletesConfigMap(c)
  BY <1>6 DEF UserDeletesConfigMap, CATyped, worker
<1>7. CASE \E c \in CMNames : CollectConfigMap(c)
  <2>1. PICK c \in CMNames : CollectConfigMap(c)
    BY <1>7
  <2>2. cms[c] \in ConfigMap /\ ~ (c > created)
    BY <2>1 DEF CollectConfigMap, CATyped
  <2>3. [cms[c] EXCEPT !.owners = cms[c].owners \cap mods] \in ConfigMap
    BY <2>2 DEF ConfigMap
  <2>4. \E cm \in ConfigMap \cup {NoCM} : cms' = [cms EXCEPT ![c] = cm]
    BY <2>1, <2>3 DEF CollectConfigMap
  <2>5. /\ cms' \in [CMNames -> ConfigMap \cup {NoCM}]
        /\ \A d \in CMNames : d > created => cms'[d] = NoCM
    BY <2>2, <2>4 DEF CATyped
  <2> QED
    BY <2>1, <2>5 DEF CollectConfigMap, CATyped, worker
<1> QED
  BY <1>1, <1>2, <1>3, <1>4, <1>5, <1>6, <1>7

-----------------------------------------------------------------------------
(* The tool's steps keep the types.                                         *)

Kmods == [Files -> Content \cup {NoEntry, NotFound}]

LEMMA SignFileContent ==
  ASSUME NEW c \in Content
  PROVE  signFile(c) \in Content /\ signFile(c).signed
BY DEF signFile, Content

\* What a step of one execution leaves is typed if that execution is.
LEMMA Updated ==
  ASSUME ToolTyped, NEW r \in Runs, NEW q \in Process, proc' = [proc EXCEPT ![r] = q],
         images' \in [ImageNames -> Image \cup {NoImage}], faults' \in 0..MaxFaults,
         q.pc \in {"walk", "layer", "push"} => q.img \in Image,
         q.pc = "walk" => q.left <= Len(q.img)
  PROVE  ToolTyped'
BY DEF ToolTyped

\* An execution that ends.
LEMMA Exited ==
  ASSUME ToolTyped, NEW r \in Runs, NEW status \in Nat, Exit(r, status)
  PROVE  \E q \in Process : /\ proc' = [proc EXCEPT ![r] = q]
                            /\ q.args = proc[r].args
                            /\ q.pc = "exited" /\ q.status = status
<1> DEFINE q == [proc[r] EXCEPT !.pc = "exited", !.status = status]
<1>1. proc[r] \in Process
  BY DEF ToolTyped
<1>2. proc' = [proc EXCEPT ![r] = q]
  BY DEF Exit, ToolTyped
<1>3. q \in Process /\ q.args = proc[r].args /\ q.pc = "exited" /\ q.status = status
  BY <1>1 DEF Process
<1> QED
  BY <1>2, <1>3

LEMMA ExitTyped ==
  ASSUME ToolTyped, NEW r \in Runs, NEW status \in Nat, Exit(r, status),
         UNCHANGED images, UNCHANGED faults \/ Fault
  PROVE  ToolTyped'
<1>1. PICK q \in Process : proc' = [proc EXCEPT ![r] = q] /\ q.pc = "exited"
  BY Exited
<1>2. faults' \in 0..MaxFaults
  BY SignImageAssumption DEF Fault, ToolTyped
<1> QED
  BY <1>1, <1>2, Updated DEF ToolTyped

\* The steps that go on, by what they make of their execution.
LEMMA ArgsChecked ==
  ASSUME ToolTyped, NEW r \in Runs, CheckArgs(r)
  PROVE  \/ proc[r].args.files = {} /\ Exit(r, 0)
         \/ Exit(r, 9)
         \/ /\ proc[r].args.files # {} /\ proc[r].args.files \subseteq Canonical
            /\ \E q \in Process :
                  /\ proc' = [proc EXCEPT ![r] = q] /\ q.args = proc[r].args /\ q.pc = "pull"
                  /\ q.kmods = [f \in Files |-> IF f \in proc[r].args.files THEN NotFound
                                                ELSE NoEntry]
<1> SUFFICES ASSUME proc[r].args.files # {}, proc[r].args.files \subseteq Canonical,
                    ~ Exit(r, 9)
             PROVE  \E q \in Process :
                       /\ proc' = [proc EXCEPT ![r] = q] /\ q.args = proc[r].args /\ q.pc = "pull"
                       /\ q.kmods = [f \in Files |-> IF f \in proc[r].args.files THEN NotFound
                                                     ELSE NoEntry]
  BY DEF CheckArgs
<1> DEFINE km == [f \in Files |-> IF f \in proc[r].args.files THEN NotFound ELSE NoEntry]
           q  == [proc[r] EXCEPT !.pc = "pull", !.kmods = km]
<1>1. proc[r] \in Process /\ km \in Kmods
  BY DEF ToolTyped, Kmods
<1>2. proc' = [proc EXCEPT ![r].pc = "pull", ![r].kmods = km]
  BY DEF CheckArgs
<1> HIDE DEF km
<1>3. proc' = [proc EXCEPT ![r] = q]
  BY <1>2 DEF ToolTyped
<1>4. q \in Process /\ q.args = proc[r].args /\ q.pc = "pull" /\ q.kmods = km
  BY <1>1 DEF Process, Running, Kmods
<1> USE DEF km
<1> QED
  BY <1>3, <1>4

LEMMA Pulled ==
  ASSUME ToolTyped, NEW r \in Runs, GetImageByName(r)
  PROVE  \/ Exit(r, 3)
         \/ LET img == images[proc[r].args.source]
            IN  /\ img \in Image /\ UNCHANGED faults
                /\ \E q \in Process :
                      /\ proc' = [proc EXCEPT ![r] = q] /\ q.args = proc[r].args
                      /\ q.pc = "walk" /\ q.img = img /\ q.left = Len(img)
                      /\ q.kmods = proc[r].kmods
<1> DEFINE img == images[proc[r].args.source]
           q   == [proc[r] EXCEPT !.pc = "walk", !.img = img, !.left = Len(img)]
<1>1. SUFFICES ASSUME ~ Exit(r, 3)
               PROVE  /\ img \in Image /\ UNCHANGED faults
                      /\ \E p \in Process :
                            /\ proc' = [proc EXCEPT ![r] = p] /\ p.args = proc[r].args
                            /\ p.pc = "walk" /\ p.img = img /\ p.left = Len(img)
                            /\ p.kmods = proc[r].kmods
  OBVIOUS
<1>2. /\ img # NoImage /\ UNCHANGED faults
      /\ proc' = [proc EXCEPT ![r].pc = "walk", ![r].img = img, ![r].left = Len(img)]
  BY <1>1 DEF GetImageByName
<1>3. proc[r] \in Process /\ img \in Image
  BY <1>2 DEF ToolTyped, Process, Args
<1>4. Len(img) \in Nat
  BY <1>3 DEF Image
<1> HIDE DEF img
<1>5. proc' = [proc EXCEPT ![r] = q]
  BY <1>2 DEF ToolTyped
<1>6. /\ q \in Process /\ q.args = proc[r].args /\ q.pc = "walk"
      /\ q.img = img /\ q.left = Len(img) /\ q.kmods = proc[r].kmods
  BY <1>3, <1>4 DEF Process, Running
<1> QED
  BY <1>2, <1>3, <1>5, <1>6

LEMMA Processed ==
  ASSUME NEW p \in Process, NEW layer \in Layer, NEW read \in Reads
  PROVE  ProcessFiles(p, layer, read) \in Kmods
<1> SUFFICES ASSUME NEW k \in Files
             PROVE  ProcessFiles(p, layer, read)[k] \in Content \cup {NoEntry, NotFound}
  BY DEF ProcessFiles, Kmods
<1> DEFINE hits == {f \in read : Canon[f] = k /\ layer[f] \in Content /\ Wanted(p, f)}
<1>1. CASE hits = {}
  BY <1>1 DEF ProcessFiles, Process
<1>2. CASE hits # {}
  <2>1. PICK f \in hits : ProcessFiles(p, layer, read)[k] = signFile(layer[f])
    BY <1>2 DEF ProcessFiles
  <2> QED
    BY <2>1, SignFileContent
<1> QED
  BY <1>1, <1>2

LEMMA LayerWalked ==
  ASSUME ToolTyped, NEW r \in Runs, WalkLayer(r)
  PROVE  \/ Exit(r, 9)
         \/ \E read \in Reads : \E q \in Process :
               /\ proc' = [proc EXCEPT ![r] = q] /\ q.args = proc[r].args /\ q.pc = "walk"
               /\ q.img = proc[r].img /\ q.left = proc[r].left - 1
               /\ q.kmods = ProcessFiles(proc[r], proc[r].img[proc[r].left], read)
<1>1. SUFFICES ASSUME ~ Exit(r, 9)
               PROVE  \E read \in Reads : \E p \in Process :
                         /\ proc' = [proc EXCEPT ![r] = p] /\ p.args = proc[r].args
                         /\ p.pc = "walk" /\ p.img = proc[r].img /\ p.left = proc[r].left - 1
                         /\ p.kmods = ProcessFiles(proc[r], proc[r].img[proc[r].left], read)
  OBVIOUS
<1>2. /\ proc[r].pc = "walk" /\ proc[r].left > 0
      /\ \E read \in Reads :
            proc' = [proc EXCEPT ![r].left = proc[r].left - 1,
                        ![r].kmods = ProcessFiles(proc[r], proc[r].img[proc[r].left], read)]
  BY <1>1 DEF WalkLayer
<1>3. PICK read \in Reads :
         proc' = [proc EXCEPT ![r].left = proc[r].left - 1,
                     ![r].kmods = ProcessFiles(proc[r], proc[r].img[proc[r].left], read)]
  BY <1>2
<1> DEFINE rest == proc[r].left - 1
           km   == ProcessFiles(proc[r], proc[r].img[proc[r].left], read)
           q    == [proc[r] EXCEPT !.left = rest, !.kmods = km]
<1>4. /\ proc[r] \in Process /\ proc[r].img \in Image /\ proc[r].left \in Nat
      /\ proc[r].left <= Len(proc[r].img)
  BY <1>2 DEF ToolTyped, Process
<1>5. proc[r].img[proc[r].left] \in Layer
  BY <1>2, <1>4 DEF Image
<1>6. km \in Kmods /\ rest \in Nat
  BY <1>2, <1>4, <1>5, Processed
<1>7. proc' = [proc EXCEPT ![r].left = rest, ![r].kmods = km]
  BY <1>3
<1>8. proc' = [proc EXCEPT ![r] = q] /\ q.left = rest /\ q.kmods = km
  <2> HIDE DEF rest, km
  <2> QED
    BY <1>4, <1>6, <1>7 DEF ToolTyped, Process
<1>9. q \in Process /\ q.args = proc[r].args /\ q.pc = "walk" /\ q.img = proc[r].img
  <2> HIDE DEF rest, km
  <2> QED
    BY <1>2, <1>4, <1>6 DEF Process, Kmods
<1> QED
  BY <1>8, <1>9

LEMMA Moved ==
  ASSUME ToolTyped, NEW r \in Runs, NEW step \in Running,
         proc' = [proc EXCEPT ![r].pc = step]
  PROVE  \E q \in Process :
            /\ proc' = [proc EXCEPT ![r] = q] /\ q.args = proc[r].args /\ q.pc = step
            /\ q.img = proc[r].img /\ q.left = proc[r].left /\ q.kmods = proc[r].kmods
<1> DEFINE q == [proc[r] EXCEPT !.pc = step]
<1>1. proc[r] \in Process
  BY DEF ToolTyped
<1>2. proc' = [proc EXCEPT ![r] = q]
  BY DEF ToolTyped
<1>3. /\ q \in Process /\ q.args = proc[r].args /\ q.pc = step
      /\ q.img = proc[r].img /\ q.left = proc[r].left /\ q.kmods = proc[r].kmods
  BY <1>1 DEF Process
<1> QED
  BY <1>2, <1>3

LEMMA LayerTyped ==
  ASSUME NEW km \in Kmods
  PROVE  SignedLayer(km) \in Layer
BY DEF SignedLayer, Layer, Kmods

LEMMA LayerAdded ==
  ASSUME ToolTyped, NEW r \in Runs, proc[r].pc = "layer",
         proc' = [proc EXCEPT ![r].img = AddLayerToImage(SignedLayer(proc[r].kmods), @),
                              ![r].pc = "push"]
  PROVE  \E q \in Process :
            /\ proc' = [proc EXCEPT ![r] = q] /\ q.args = proc[r].args /\ q.pc = "push"
            /\ q.img = Append(proc[r].img, SignedLayer(proc[r].kmods)) /\ q.img \in Image
<1> DEFINE new == Append(proc[r].img, SignedLayer(proc[r].kmods))
           q   == [proc[r] EXCEPT !.img = new, !.pc = "push"]
<1>1. proc[r] \in Process /\ proc[r].img \in Image /\ proc[r].kmods \in Kmods
  BY DEF ToolTyped, Process, Kmods
<1>2. new \in Image
  BY <1>1, LayerTyped DEF Image
<1>3. proc' = [proc EXCEPT ![r] = q]
  BY DEF ToolTyped, AddLayerToImage
<1>4. q \in Process /\ q.args = proc[r].args /\ q.pc = "push" /\ q.img = new
  <2> HIDE DEF new
  <2> QED
    BY <1>1, <1>2 DEF Process, Running
<1> QED
  BY <1>2, <1>3, <1>4

LEMMA MainTyped ==
  ASSUME ToolTyped, NEW r \in Runs, main(r)
  PROVE  ToolTyped'
<1>0. proc[r] \in Process
  BY DEF ToolTyped
<1>1. CASE CheckArgs(r)
  <2>1. UNCHANGED <<images, faults>>
    BY <1>1 DEF CheckArgs
  <2>2. CASE Exit(r, 0) \/ Exit(r, 9)
    BY <2>1, <2>2, ExitTyped
  <2>3. CASE \E q \in Process : proc' = [proc EXCEPT ![r] = q] /\ q.pc = "pull"
    BY <2>1, <2>3, Updated DEF ToolTyped
  <2> QED
    BY <1>1, <2>2, <2>3, ArgsChecked
<1>2. CASE SetupFails(r)
  BY <1>2, ExitTyped DEF SetupFails
<1>3. CASE GetImageByName(r)
  <2>1. UNCHANGED images /\ (UNCHANGED faults \/ Fault)
    BY <1>3 DEF GetImageByName
  <2>2. CASE Exit(r, 3)
    BY <2>1, <2>2, ExitTyped
  <2>3. CASE \E img \in Image, q \in Process :
                /\ proc' = [proc EXCEPT ![r] = q] /\ UNCHANGED faults
                /\ q.img = img /\ q.left = Len(img)
    <3>1. \A img \in Image : Len(img) <= Len(img)
      BY DEF Image
    <3> QED
      BY <2>1, <2>3, <3>1, Updated DEF ToolTyped
  <2> QED
    BY <1>3, <2>2, <2>3, Pulled
<1>4. CASE WalkLayer(r)
  <2>1. /\ proc[r].pc = "walk" /\ proc[r].left > 0
        /\ UNCHANGED images /\ (UNCHANGED faults \/ Fault)
    BY <1>4 DEF WalkLayer
  <2>2. CASE Exit(r, 9)
    BY <2>1, <2>2, ExitTyped
  <2>3. CASE \E q \in Process : /\ proc' = [proc EXCEPT ![r] = q] /\ q.img = proc[r].img
                                /\ q.left = proc[r].left - 1 /\ q.pc = "walk"
    <3>1. PICK q \in Process : /\ proc' = [proc EXCEPT ![r] = q] /\ q.img = proc[r].img
                               /\ q.left = proc[r].left - 1 /\ q.pc = "walk"
      BY <2>3
    <3>2. q.img \in Image /\ q.left <= Len(q.img)
      <4>1. /\ proc[r].img \in Image /\ proc[r].left \in Nat
            /\ proc[r].left <= Len(proc[r].img)
        BY <1>0, <2>1 DEF ToolTyped, Process
      <4>2. Len(proc[r].img) \in Nat
        BY <4>1 DEF Image
      <4> QED
        BY <3>1, <4>1, <4>2
    <3>3. faults' \in 0..MaxFaults
      BY <2>1, SignImageAssumption DEF Fault, ToolTyped
    <3> QED
      BY <2>1, <3>1, <3>2, <3>3, Updated DEF ToolTyped
  <2> QED
    BY <1>4, <2>2, <2>3, LayerWalked
<1>5. CASE CheckKmods(r)
  <2>1. proc[r].pc = "walk" /\ UNCHANGED <<images, faults>>
    BY <1>5 DEF CheckKmods
  <2>2. CASE Exit(r, 4)
    BY <2>1, <2>2, ExitTyped
  <2>3. CASE proc' = [proc EXCEPT ![r].pc = "layer"]
    <3>1. PICK q \in Process : /\ proc' = [proc EXCEPT ![r] = q] /\ q.img = proc[r].img
                               /\ q.pc = "layer"
      BY <2>3, Moved DEF Running
    <3> QED
      BY <2>1, <3>1, Updated DEF ToolTyped
  <2> QED
    BY <1>5, <2>2, <2>3 DEF CheckKmods
<1>6. CASE AddSignedLayer(r)
  <2>1. proc[r].pc = "layer" /\ UNCHANGED images
    BY <1>6 DEF AddSignedLayer
  <2>2. CASE Exit(r, 6) /\ Fault
    BY <2>1, <2>2, ExitTyped
  <2>3. CASE /\ proc' = [proc EXCEPT ![r].img = AddLayerToImage(SignedLayer(proc[r].kmods), @),
                                     ![r].pc = "push"]
             /\ UNCHANGED faults
    <3>1. PICK q \in Process : /\ proc' = [proc EXCEPT ![r] = q] /\ q.img \in Image
                               /\ q.pc = "push"
      BY <2>1, <2>3, LayerAdded
    <3> QED
      BY <2>1, <2>3, <3>1, Updated DEF ToolTyped
  <2> QED
    BY <1>6, <2>2, <2>3 DEF AddSignedLayer
<1>7. CASE WriteImageByName(r)
  <2> DEFINE target == proc[r].args.target
  <2>1. proc[r].pc = "push"
    BY <1>7 DEF WriteImageByName
  <2>2. CASE Exit(r, 8) /\ UNCHANGED images /\ (UNCHANGED faults \/ Fault)
    BY <2>2, ExitTyped
  <2>3. CASE /\ proc' = [proc EXCEPT ![r].pc = "pushed"] /\ UNCHANGED faults
             /\ images' = [images EXCEPT ![target] = proc[r].img] \/ UNCHANGED images
    <3>1. PICK q \in Process : proc' = [proc EXCEPT ![r] = q] /\ q.pc = "pushed"
      BY <2>3, Moved DEF Running
    <3>2. images' \in [ImageNames -> Image \cup {NoImage}]
      BY <2>1, <2>3 DEF ToolTyped
    <3> QED
      BY <2>3, <3>1, <3>2, Updated DEF ToolTyped
  <2> QED
    BY <1>7, <2>2, <2>3 DEF WriteImageByName
<1>8. CASE ExitDone(r)
  BY <1>8, ExitTyped DEF ExitDone
<1> QED
  BY <1>1, <1>2, <1>3, <1>4, <1>5, <1>6, <1>7, <1>8 DEF main

LEMMA PodTyped ==
  ASSUME TypeInv, NEW r \in Runs,
         ContainerStarts(r) \/ ToolRuns(r) \/ PodRemoved(r) \/ ContainerKilled(r)
  PROVE  TypeInv'
<1>1. CATyped' /\ JobsTyped'
  BY DEF TypeInv, CATyped, JobsTyped, ContainerStarts, ToolRuns, PodRemoved, ContainerKilled,
     caVars, worker
<1>2. ToolTyped'
  <2>1. CASE ContainerStarts(r)
    <3>1. PICK q \in Process : proc' = [proc EXCEPT ![r] = q] /\ q.pc = "args"
      BY <2>1, Moved DEF ContainerStarts, Running, TypeInv
    <3> QED
      BY <2>1, <3>1, Updated DEF ContainerStarts, ToolTyped, TypeInv
  <2>2. CASE ToolRuns(r)
    BY <2>2, MainTyped DEF ToolRuns, TypeInv
  <2>3. CASE PodRemoved(r)
    BY <2>3, ExitTyped DEF PodRemoved, TypeInv
  <2>4. CASE ContainerKilled(r)
    BY <2>4, ExitTyped DEF ContainerKilled, Killed, TypeInv
  <2> QED
    BY <2>1, <2>2, <2>3, <2>4
<1> QED
  BY <1>1, <1>2 DEF TypeInv

LEMMA JobEventTyped ==
  ASSUME TypeInv, NEW r \in Runs, jobs[r] # NoJob,
         NEW phase \in {"Active", "Succeeded", "Failed"}, JobEvent(r, phase)
  PROVE  TypeInv'
<1>1. jobs[r] \in Job
  BY DEF TypeInv, JobsTyped
<1>2. jobs' \in [Runs -> Job \cup {NoJob}]
  BY <1>1 DEF JobEvent, TypeInv, JobsTyped, Job
<1>3. JobsTyped'
  BY <1>2 DEF JobEvent, TypeInv, JobsTyped
<1>4. CATyped'
  BY SigningAssumption DEF JobEvent, TypeInv, CATyped, worker
<1>5. ToolTyped'
  BY DEF JobEvent, TypeInv, ToolTyped, signVars
<1> QED
  BY <1>3, <1>4, <1>5 DEF TypeInv

LEMMA PushSourceTyped ==
  ASSUME TypeInv, NEW img \in SourceImages, PushSource(img)
  PROVE  TypeInv'
<1>1. CATyped'
  BY CAAssumption DEF PushSource, TypeInv, CATyped, worker
<1>2. JobsTyped'
  BY DEF PushSource, TypeInv, JobsTyped
<1>3. ToolTyped'
  BY SigningAssumption DEF PushSource, TypeInv, ToolTyped
<1> QED
  BY <1>1, <1>2, <1>3 DEF TypeInv

LEMMA CAOnlyTyped ==
  ASSUME TypeInv, UNCHANGED <<signVars, sections, jobs, deployed>>, CATyped'
  PROVE  TypeInv'
BY DEF TypeInv, ToolTyped, JobsTyped, signVars

LEMMA NextTyped ==
  ASSUME TypeInv, [Next]_vars
  PROVE  TypeInv'
<1>1. CASE CAOnly(Sync)
  BY <1>1, SyncTyped, CAOnlyTyped DEF CAOnly, TypeInv
<1>2. CASE SignShouldSync \/ SignSync \/ HandleDriverContainer \/ GarbageCollectJobs
  BY <1>2, WorkerTyped
<1>3. CASE \/ CAOnly(ReconcileError) \/ CAOnly(Restart)
           \/ CAOnly(DeliverConfigMaps) \/ CAOnly(Resync)
           \/ \E m \in Mods \ {Signer} : CAOnly(DeleteModule(m))
           \/ \E c \in CMNames : CAOnly(UserDeletesConfigMap(c)) \/ CAOnly(CollectConfigMap(c))
  BY <1>3, NamespaceTyped, CAOnlyTyped DEF CAOnly, TypeInv
<1>4. CASE \E r \in Runs : JobStarts(r) \/ JobFinishes(r)
  BY <1>4, JobEventTyped DEF JobStarts, JobFinishes
<1>5. CASE \E r \in Runs : ContainerStarts(r) \/ ToolRuns(r) \/ PodRemoved(r)
                           \/ ContainerKilled(r)
  BY <1>5, PodTyped
<1>6. CASE \E img \in SourceImages : PushSource(img)
  BY <1>6, PushSourceTyped
<1>7. CASE UNCHANGED vars
  BY <1>7 DEF vars, caVars, worker, signVars, TypeInv, CATyped, ToolTyped, JobsTyped
<1> QED
  BY <1>1, <1>2, <1>3, <1>4, <1>5, <1>6, <1>7 DEF Next, Reconcile, Cluster

LEMMA TypeInvariant == Spec => []TypeInv
<1>1. TypeInv /\ [Next]_vars => TypeInv'
  BY NextTyped
<1> QED
  BY <1>1, InitTyped, PTL DEF Spec

\* The variables of the composition keep their types: a copy of a ConfigMap goes
\* with its name, no name is used before it was generated, and the tool's table of
\* files holds only what its three kinds of entries can be.
THEOREM TypeCorrect == Spec => []TypeOK
BY TypeInvariant, TypeInvOK, PTL

-----------------------------------------------------------------------------
(* What the tool knows at each of its steps, and what it has pushed.        *)

\* Layers are read to their end, and a layer has one entry for a path.  A layer
\* with both "opt/a.ko" and "./opt/a.ko" has no order in which runtimes agree.
PlainLayers ==
    /\ ~ BrokenReads
    /\ \A img \in SourceImages : \A i \in DOMAIN img : \A p \in Files :
          \A f, g \in Spellings(img[i], p) : f = g

\* Every pair of sign sections lists files.
FilesListed ==
    \A s \in ModuleSigns, t \in MappingSigns : GetRelevantSign(s, t).files # {}

\* The files of a layer that are a kernel module's.
Contents(layer, k) == {f \in Files : Canon[f] = k /\ layer[f] \in Content}

\* Of the layers above left, the topmost one with contents for k gave it.
Topmost(img, left, km, k) ==
    \E j \in 1..Len(img) :
        /\ left < j
        /\ \E f \in Contents(img[j], k) : km[k] = signFile(img[j][f])
        /\ \A i \in 1..Len(img) : j < i => Contents(img[i], k) = {}

Walked(files, img, left, km) ==
    \A k \in files :
        IF km[k] = NotFound
        THEN \A i \in 1..Len(img) : left < i => Contents(img[i], k) = {}
        ELSE Topmost(img, left, km, k)

\* The table of files: listed ones are to be found or have been signed, and
\* nothing else is touched.
Table(files, km) ==
    \A k \in Files :
        IF k \in files
        THEN km[k] = NotFound \/ (km[k] \in Content /\ km[k].signed)
        ELSE km[k] = NoEntry

\* img is src with the listed files signed.
SignedFrom(files, src, img) ==
    /\ \A p \in Canonical :
          IF p \in files
          THEN /\ Mounted(img, p) \in Content /\ Mounted(img, p).signed
               /\ PlainLayers /\ Mounted(src, p) # NoEntry
                     => Mounted(img, p) = signFile(Mounted(src, p))
          ELSE Mounted(img, p) = Mounted(src, p)
    /\ ModulePath \notin Canonical
          => verifyImage(img, ModulePath) = verifyImage(src, ModulePath)

Listing(files) == files # {} /\ files \subseteq Canonical

ProcSafe(p, a, target) ==
    /\ p.args = a
    /\ p.pc \in {"pull", "walk", "layer", "push", "pushed"} => Listing(a.files)
    /\ p.pc \in {"pull", "walk", "layer"} => Table(a.files, p.kmods)
    /\ p.pc = "pull" => \A k \in a.files : p.kmods[k] = NotFound
    /\ p.pc \in {"walk", "layer"} =>
          /\ p.img \in SourceImages /\ p.left <= Len(p.img)
          /\ PlainLayers => Walked(a.files, p.img, p.left, p.kmods)
    /\ p.pc = "layer" => p.left = 0 /\ \A k \in Files : p.kmods[k] # NotFound
    /\ p.pc = "push" => \E src \in SourceImages : SignedFrom(a.files, src, p.img)
    /\ p.pc = "pushed" => target # NoImage
    /\ p.pc = "exited" /\ p.status = 0 /\ a.files # {} => target # NoImage

ImagesSafe ==
    /\ images[args.source] # NoImage => images[args.source] \in SourceImages
    /\ images[Target] # NoImage =>
          /\ Listing(args.files)
          /\ \E src \in SourceImages : SignedFrom(args.files, src, images[Target])

\* A Job that succeeded has pushed the image.
JobsSafe ==
    args.files # {} =>
        /\ \A r \in Runs :
              jobs[r] # NoJob /\ jobs[r].phase = "Succeeded" => images[Target] # NoImage
        /\ pc = "driver" \/ deployed => images[Target] # NoImage

ProcsSafe == \A r \in Runs : ProcSafe(proc[r], args, images[Target])

SafeInv == ImagesSafe /\ JobsSafe /\ ProcsSafe

-----------------------------------------------------------------------------
(* What the steps of the tool compute.                                      *)

\* processFile takes a file of the layer for a listed path that was not seen yet,
\* and nothing for any other.
LEMMA FilesProcessed ==
  ASSUME NEW p \in Process, NEW layer \in Layer, NEW read \in Reads, NEW k \in Files,
         NEW files, p.args.files = files, Listing(files), Table(files, p.kmods)
  PROVE  LET km == ProcessFiles(p, layer, read)
         IN  \/ /\ km[k] = p.kmods[k]
                /\ ~ BrokenReads /\ p.kmods[k] = NotFound => Contents(layer, k) = {}
             \/ /\ k \in files /\ p.kmods[k] = NotFound
                /\ \E f \in Contents(layer, k) : km[k] = signFile(layer[f])
<1> DEFINE km   == ProcessFiles(p, layer, read)
           hits == {f \in read : Canon[f] = k /\ layer[f] \in Content /\ Wanted(p, f)}
<1>1. read \subseteq Files /\ (~ BrokenReads => read = Files)
  BY DEF Reads
<1>2. \A f \in read : Canon[f] = k => (Wanted(p, f) <=> p.kmods[k] = NotFound)
  BY DEF Wanted, Listing
<1>3. CASE hits = {}
  <2>1. km[k] = p.kmods[k]
    BY <1>3 DEF ProcessFiles
  <2>2. ~ BrokenReads /\ p.kmods[k] = NotFound => Contents(layer, k) = {}
    BY <1>1, <1>2, <1>3 DEF Contents
  <2> QED
    BY <2>1, <2>2
<1>4. CASE hits # {}
  <2>1. PICK f \in hits : km[k] = signFile(layer[f])
    BY <1>4 DEF ProcessFiles
  <2>2. f \in Contents(layer, k) /\ p.kmods[k] = NotFound
    BY <1>1, <1>2, <2>1 DEF Contents
  <2>3. k \in files
    BY <2>2, SignImageAssumption DEF Table
  <2> QED
    BY <2>1, <2>2, <2>3
<1> QED
  BY <1>3, <1>4

LEMMA TableKept ==
  ASSUME NEW p \in Process, NEW layer \in Layer, NEW read \in Reads,
         NEW files, p.args.files = files, Listing(files), Table(files, p.kmods)
  PROVE  Table(files, ProcessFiles(p, layer, read))
<1> DEFINE km == ProcessFiles(p, layer, read)
<1> SUFFICES ASSUME NEW k \in Files
             PROVE  IF k \in files
                    THEN km[k] = NotFound \/ (km[k] \in Content /\ km[k].signed)
                    ELSE km[k] = NoEntry
  BY DEF Table
<1>1. CASE km[k] = p.kmods[k]
  BY <1>1 DEF Table
<1>2. CASE k \in files /\ \E f \in Contents(layer, k) : km[k] = signFile(layer[f])
  BY <1>2, SignFileContent DEF Contents
<1> QED
  BY <1>1, <1>2, FilesProcessed

\* One more layer, from the top.
LEMMA WalkedOn ==
  ASSUME NEW p \in Process, NEW files, p.args.files = files, Listing(files), Table(files, p.kmods), PlainLayers,
         p.img \in Image, p.left > 0, p.left <= Len(p.img),
         Walked(files, p.img, p.left, p.kmods), NEW read \in Reads
  PROVE  Walked(files, p.img, p.left - 1, ProcessFiles(p, p.img[p.left], read))
<1> DEFINE img == p.img
           l   == p.left
           km  == ProcessFiles(p, img[l], read)
<1>1. l \in 1..Len(img) /\ Len(img) \in Nat
  BY DEF Process, Image
<1>2. img[l] \in Layer
  BY <1>1 DEF Image
<1> SUFFICES ASSUME NEW k \in files
             PROVE  IF km[k] = NotFound
                    THEN \A i \in 1..Len(img) : l - 1 < i => Contents(img[i], k) = {}
                    ELSE Topmost(img, l - 1, km, k)
  BY DEF Walked
<1>3. k \in Files /\ ~ BrokenReads
  BY DEF PlainLayers, Listing, Canonical
<1>4. CASE km[k] = p.kmods[k] /\ (p.kmods[k] = NotFound => Contents(img[l], k) = {})
  <2>1. CASE p.kmods[k] = NotFound
    <3>1. \A i \in 1..Len(img) : l < i => Contents(img[i], k) = {}
      BY <2>1 DEF Walked
    <3>2. \A i \in 1..Len(img) : l - 1 < i => i = l \/ l < i
      BY <1>1
    <3> QED
      BY <1>4, <2>1, <3>1, <3>2
  <2>2. CASE p.kmods[k] # NotFound
    <3>1. Topmost(img, l, p.kmods, k)
      BY <2>2 DEF Walked
    <3>2. PICK j \in 1..Len(img) :
             /\ l < j
             /\ \E f \in Contents(img[j], k) : p.kmods[k] = signFile(img[j][f])
             /\ \A i \in 1..Len(img) : j < i => Contents(img[i], k) = {}
      BY <3>1 DEF Topmost
    <3>3. l - 1 < j
      BY <1>1, <3>2
    <3>4. \E f \in Contents(img[j], k) : km[k] = signFile(img[j][f])
      BY <1>4, <3>2
    <3>5. Topmost(img, l - 1, km, k)
      BY <3>2, <3>3, <3>4 DEF Topmost
    <3> QED
      BY <1>4, <2>2, <3>5
  <2> QED
    BY <2>1, <2>2
<1>5. CASE p.kmods[k] = NotFound /\ \E f \in Contents(img[l], k) : km[k] = signFile(img[l][f])
  <2>1. \A i \in 1..Len(img) : l < i => Contents(img[i], k) = {}
    BY <1>5 DEF Walked
  <2>2. l - 1 < l
    BY <1>1
  <2>3. Topmost(img, l - 1, km, k)
    BY <1>1, <1>5, <2>1, <2>2 DEF Topmost
  <2>4. km[k] \in Content
    BY <1>5, SignFileContent DEF Contents
  <2> QED
    BY <2>3, <2>4, SignImageAssumption
<1> QED
  BY <1>2, <1>3, <1>4, <1>5, FilesProcessed

\* A signed layer names listed paths only, in their canonical form.
LEMMA SignedLayerSpells ==
  ASSUME NEW km \in Kmods, NEW files, Table(files, km), Listing(files), \A k \in Files : km[k] # NotFound,
         NEW p \in Canonical
  PROVE  /\ p \in files => /\ Spellings(SignedLayer(km), p) = {p}
                                /\ SignedLayer(km)[p] = km[p]
                                /\ km[p] \in Content /\ km[p].signed
         /\ p \notin files => Spellings(SignedLayer(km), p) = {}
<1>1. p \in Files /\ Canon[p] = p
  BY DEF Canonical
<1>2. \A f \in Files : SignedLayer(km)[f] # NoEntry => f \in files
  BY SignImageAssumption, RegistryAssumption DEF SignedLayer, Table
<1>3. \A f \in files : Canon[f] = f
  BY DEF Listing, Canonical
<1>4. CASE p \in files
  <2>1. km[p] \in Content /\ km[p].signed
    BY <1>1, <1>4 DEF Table
  <2>2. SignedLayer(km)[p] = km[p] /\ km[p] # NoEntry
    BY <1>1, <2>1, RegistryAssumption DEF SignedLayer
  <2>3. Spellings(SignedLayer(km), p) = {p}
    BY <1>1, <1>2, <1>3, <2>2 DEF Spellings
  <2> QED
    BY <1>4, <2>1, <2>2, <2>3
<1>5. CASE p \notin files
  BY <1>2, <1>3, <1>5 DEF Spellings
<1> QED
  BY <1>4, <1>5

\* The image that is pushed: the walk has found the versions a container sees.
LEMMA SignedImage ==
  ASSUME NEW src \in SourceImages, NEW km \in Kmods, NEW files, Table(files, km), Listing(files),
         \A k \in Files : km[k] # NotFound, PlainLayers => Walked(files, src, 0, km)
  PROVE  SignedFrom(files, src, Append(src, SignedLayer(km)))
<1> DEFINE layer == SignedLayer(km)
           img   == Append(src, layer)
<1>1. src \in Image /\ layer \in Layer
  BY LayerTyped, SigningAssumption
<1>2. ASSUME NEW p \in Canonical, p \notin files
      PROVE  Mounted(img, p) = Mounted(src, p)
  BY <1>1, <1>2, SignedLayerSpells, MountedBelow
<1>3. ASSUME NEW p \in Canonical, p \in files
      PROVE  Mounted(img, p) = km[p] /\ km[p] \in Content /\ km[p].signed
  <2>1. /\ Spellings(layer, p) = {p} /\ layer[p] = km[p]
        /\ km[p] \in Content /\ km[p].signed
    BY <1>3, SignedLayerSpells
  <2>2. layer[p] # Whiteout
    BY <2>1, RegistryAssumption
  <2> HIDE DEF layer
  <2>3. Mounted(Append(src, layer), p) = IF layer[p] = Whiteout THEN NoEntry ELSE layer[p]
    BY <1>1, <2>1, MountedTop
  <2> QED
    BY <2>1, <2>2, <2>3
<1>4. ASSUME NEW p \in Canonical, p \in files, PlainLayers, Mounted(src, p) # NoEntry
      PROVE  km[p] = signFile(Mounted(src, p))
  <2>1. PICK i \in 1..Len(src) :
           \E f \in Spellings(src[i], p) :
              /\ src[i][f] \in Content /\ Mounted(src, p) = src[i][f]
              /\ \A j \in 1..Len(src) : Spellings(src[j], p) # {} => j <= i
    BY <1>1, <1>4, MountedWhere
  <2>2. PICK f \in Spellings(src[i], p) :
           /\ src[i][f] \in Content /\ Mounted(src, p) = src[i][f]
           /\ \A j \in 1..Len(src) : Spellings(src[j], p) # {} => j <= i
    BY <2>1
  <2>3. p \in Files /\ Topmost(src, 0, km, p)
    BY <1>4 DEF Walked, Canonical
  <2>4. PICK j \in 1..Len(src) :
           /\ \E g \in Contents(src[j], p) : km[p] = signFile(src[j][g])
           /\ \A l \in 1..Len(src) : j < l => Contents(src[l], p) = {}
    BY <2>3 DEF Topmost
  <2>5. PICK g \in Contents(src[j], p) : km[p] = signFile(src[j][g])
    BY <2>4
  <2>6. g \in Spellings(src[j], p) /\ f \in Contents(src[i], p)
    BY <2>2, <2>5, RegistryAssumption DEF Spellings, Contents
  <2>7. j <= i /\ ~ (j < i)
    BY <2>2, <2>6, <2>4
  <2>8. j = i
    BY <1>1, <2>7 DEF Image
  <2>9. DOMAIN src = 1..Len(src)
    BY <1>1 DEF Image
  <2>10. f = g
    BY <1>4, <2>2, <2>3, <2>6, <2>8, <2>9 DEF PlainLayers
  <2> QED
    BY <2>2, <2>5, <2>8, <2>10
<1>5. ASSUME ModulePath \notin Canonical
      PROVE  verifyImage(img, ModulePath) = verifyImage(src, ModulePath)
  <2>1. ModulePath \in Files
    BY SigningAssumption
  <2>2. layer[ModulePath] \notin Content
    <3>1. ModulePath \notin files
      BY <1>5 DEF Listing
    <3>2. km[ModulePath] = NoEntry
      BY <2>1, <3>1 DEF Table
    <3> QED
      BY <2>1, <3>2, RegistryAssumption DEF SignedLayer
  <2> HIDE DEF layer
  <2>3. img \in Image /\ img # NoImage /\ src # NoImage
    BY <1>1, RegistryAssumption DEF Image
  <2>4. /\ DOMAIN src = 1..Len(src) /\ DOMAIN img = 1..(Len(src) + 1) /\ Len(src) \in Nat
        /\ img[Len(src) + 1] = layer /\ \A i \in 1..Len(src) : img[i] = src[i]
    BY <1>1 DEF Image
  <2> HIDE DEF img
  <2>5. (\E i \in DOMAIN img : img[i][ModulePath] \in Content)
           <=> (\E i \in DOMAIN src : src[i][ModulePath] \in Content)
    BY <2>2, <2>4
  <2> QED
    BY <2>3, <2>5 DEF verifyImage, VerifyModuleExists
<1> QED
  BY <1>2, <1>3, <1>4, <1>5 DEF SignedFrom


-----------------------------------------------------------------------------
(* Every step keeps it.                                                     *)

LEMMA ArgsSame ==
  ASSUME sections' = sections
  PROVE  args' = args
BY DEF args

\* Steps of the reconciler and the cluster that leave images and executions alone.
LEMMA OtherSafe ==
  ASSUME SafeInv, UNCHANGED <<images, proc, sections, deployed>>,
         \A r \in Runs : jobs'[r] # NoJob /\ jobs'[r].phase = "Succeeded"
                            => jobs[r] # NoJob /\ jobs[r].phase = "Succeeded",
         pc' = "driver" => pc = "driver" \/ (args.files # {} => images[Target] # NoImage)
  PROVE  SafeInv'
<1>1. args' = args
  BY ArgsSame
<1> QED
  BY <1>1 DEF SafeInv, ImagesSafe, JobsSafe, ProcsSafe

\* A step of one execution that pushes nothing.
LEMMA ProcSafeStep ==
  ASSUME TypeInv, SafeInv, NEW r \in Runs, NEW q \in Process,
         proc' = [proc EXCEPT ![r] = q], UNCHANGED <<images, sections, jobs, deployed, pc>>,
         ProcSafe(q, args, images[Target])
  PROVE  SafeInv'
<1>1. args' = args
  BY ArgsSame
<1>2. ProcsSafe'
  BY <1>1 DEF TypeInv, ToolTyped, SafeInv, ProcsSafe
<1> QED
  BY <1>1, <1>2 DEF SafeInv, ImagesSafe, JobsSafe

LEMMA ExitSafe ==
  ASSUME TypeInv, SafeInv, NEW r \in Runs, NEW status \in Nat \ {0}, Exit(r, status),
         UNCHANGED <<images, sections, jobs, deployed, pc>>
  PROVE  SafeInv'
<1>1. PICK q \in Process : /\ proc' = [proc EXCEPT ![r] = q] /\ q.args = proc[r].args
                           /\ q.pc = "exited" /\ q.status = status
  BY Exited DEF TypeInv
<1>2. q.status # 0
  BY <1>1
<1>3. ProcSafe(q, args, images[Target])
  BY <1>1, <1>2 DEF ProcSafe, SafeInv, ProcsSafe
<1> QED
  BY <1>1, <1>3, ProcSafeStep

LEMMA CheckArgsSafe ==
  ASSUME TypeInv, SafeInv, NEW r \in Runs, CheckArgs(r), UNCHANGED <<sections, jobs, deployed, pc>>
  PROVE  SafeInv'
<1>1. UNCHANGED images /\ proc[r].args = args
  BY DEF CheckArgs, SafeInv, ProcsSafe, ProcSafe
<1>2. CASE proc[r].args.files = {} /\ Exit(r, 0)
  <2>1. PICK q \in Process : /\ proc' = [proc EXCEPT ![r] = q] /\ q.args = proc[r].args
                             /\ q.pc = "exited"
    BY <1>2, Exited DEF TypeInv
  <2>2. ProcSafe(q, args, images[Target])
    BY <1>1, <1>2, <2>1 DEF ProcSafe
  <2> QED
    BY <1>1, <2>1, <2>2, ProcSafeStep
<1>3. CASE Exit(r, 9)
  BY <1>1, <1>3, ExitSafe
<1>4. CASE /\ proc[r].args.files # {} /\ proc[r].args.files \subseteq Canonical
           /\ \E q \in Process :
                 /\ proc' = [proc EXCEPT ![r] = q] /\ q.args = proc[r].args /\ q.pc = "pull"
                 /\ q.kmods = [f \in Files |-> IF f \in proc[r].args.files THEN NotFound
                                               ELSE NoEntry]
  <2>1. PICK q \in Process :
           /\ proc' = [proc EXCEPT ![r] = q] /\ q.args = proc[r].args /\ q.pc = "pull"
           /\ q.kmods = [f \in Files |-> IF f \in proc[r].args.files THEN NotFound ELSE NoEntry]
    BY <1>4
  <2>2. Listing(args.files)
    BY <1>1, <1>4 DEF Listing
  <2>3. Table(args.files, q.kmods) /\ \A k \in args.files : q.kmods[k] = NotFound
    BY <1>1, <2>1, <2>2 DEF Table, Listing, Canonical
  <2>4. ProcSafe(q, args, images[Target])
    BY <1>1, <2>1, <2>2, <2>3 DEF ProcSafe
  <2> QED
    BY <1>1, <2>1, <2>4, ProcSafeStep
<1> QED
  BY <1>2, <1>3, <1>4, ArgsChecked DEF TypeInv

LEMMA PullSafe ==
  ASSUME TypeInv, SafeInv, NEW r \in Runs, GetImageByName(r),
         UNCHANGED <<sections, jobs, deployed, pc>>
  PROVE  SafeInv'
<1> DEFINE img == images[args.source]
<1>1. /\ UNCHANGED images /\ proc[r].pc = "pull" /\ proc[r].args = args
      /\ Listing(args.files) /\ Table(args.files, proc[r].kmods)
      /\ \A k \in args.files : proc[r].kmods[k] = NotFound
  BY DEF GetImageByName, SafeInv, ProcsSafe, ProcSafe
<1>2. CASE Exit(r, 3)
  BY <1>1, <1>2, ExitSafe
<1>3. CASE ~ Exit(r, 3)
  <2>1. img \in Image
    BY <1>1, <1>3, Pulled DEF TypeInv
  <2>2. PICK q \in Process : /\ proc' = [proc EXCEPT ![r] = q] /\ q.args = proc[r].args
                             /\ q.pc = "walk" /\ q.img = img /\ q.left = Len(img)
                             /\ q.kmods = proc[r].kmods
    BY <1>1, <1>3, Pulled DEF TypeInv
  <2>3. img \in SourceImages
    BY <2>1, RegistryAssumption DEF SafeInv, ImagesSafe
  <2>4. Len(img) \in Nat /\ \A i \in 1..Len(img) : ~ (Len(img) < i)
    BY <2>1 DEF Image
  <2> HIDE DEF img
  <2>5. Walked(args.files, q.img, q.left, q.kmods) /\ q.left <= Len(q.img)
    BY <1>1, <2>2, <2>4 DEF Walked
  <2>6. ProcSafe(q, args, images[Target])
    BY <1>1, <2>2, <2>3, <2>5 DEF ProcSafe
  <2> QED
    BY <1>1, <2>2, <2>6, ProcSafeStep
<1> QED
  BY <1>2, <1>3

LEMMA WalkSafe ==
  ASSUME TypeInv, SafeInv, NEW r \in Runs, WalkLayer(r),
         UNCHANGED <<sections, jobs, deployed, pc>>
  PROVE  SafeInv'
<1> DEFINE p == proc[r]
<1>1. /\ UNCHANGED images /\ p.pc = "walk" /\ p.left > 0 /\ p.args = args
      /\ Listing(args.files) /\ Table(args.files, p.kmods)
      /\ p.img \in SourceImages /\ p.left <= Len(p.img)
      /\ PlainLayers => Walked(args.files, p.img, p.left, p.kmods)
  BY DEF WalkLayer, SafeInv, ProcsSafe, ProcSafe
<1>2. CASE Exit(r, 9)
  BY <1>1, <1>2, ExitSafe
<1>3. CASE ~ Exit(r, 9)
  <2>1. PICK read \in Reads : \E q \in Process :
           /\ proc' = [proc EXCEPT ![r] = q] /\ q.args = p.args /\ q.pc = "walk"
           /\ q.img = p.img /\ q.left = p.left - 1
           /\ q.kmods = ProcessFiles(p, p.img[p.left], read)
    BY <1>3, LayerWalked DEF TypeInv
  <2>2. PICK q \in Process :
           /\ proc' = [proc EXCEPT ![r] = q] /\ q.args = p.args /\ q.pc = "walk"
           /\ q.img = p.img /\ q.left = p.left - 1
           /\ q.kmods = ProcessFiles(p, p.img[p.left], read)
    BY <2>1
  <2>3. p \in Process /\ p.img \in Image
    BY <1>1, SigningAssumption DEF TypeInv, ToolTyped
  <2>4. p.left \in Nat /\ Len(p.img) \in Nat /\ p.img[p.left] \in Layer
    BY <1>1, <2>3 DEF Process, Image
  <2> HIDE DEF p
  <2>5. Table(args.files, q.kmods)
    BY <1>1, <2>2, <2>3, <2>4, TableKept
  <2>6. PlainLayers => Walked(args.files, q.img, q.left, q.kmods)
    BY <1>1, <2>2, <2>3, WalkedOn
  <2>7. q.left <= Len(q.img)
    BY <1>1, <2>2, <2>4
  <2>8. ProcSafe(q, args, images[Target])
    BY <1>1, <2>2, <2>5, <2>6, <2>7 DEF ProcSafe
  <2> QED
    BY <1>1, <2>2, <2>8, ProcSafeStep
<1> QED
  BY <1>2, <1>3

LEMMA CheckKmodsSafe ==
  ASSUME TypeInv, SafeInv, NEW r \in Runs, CheckKmods(r),
         UNCHANGED <<sections, jobs, deployed, pc>>
  PROVE  SafeInv'
<1> DEFINE p == proc[r]
<1>1. UNCHANGED images /\ p.pc = "walk" /\ p.left = 0 /\ ProcSafe(p, args, images[Target])
  BY DEF CheckKmods, SafeInv, ProcsSafe
<1>2. CASE \E f \in Files : p.kmods[f] = NotFound
  BY <1>1, <1>2, ExitSafe DEF CheckKmods
<1>3. CASE \A f \in Files : p.kmods[f] # NotFound
  <2>1. PICK q \in Process :
           /\ proc' = [proc EXCEPT ![r] = q] /\ q.args = p.args /\ q.pc = "layer"
           /\ q.img = p.img /\ q.left = p.left /\ q.kmods = p.kmods
    BY <1>3, Moved DEF CheckKmods, TypeInv, Running
  <2> HIDE DEF p
  <2>2. ProcSafe(q, args, images[Target])
    BY <1>1, <1>3, <2>1 DEF ProcSafe
  <2> QED
    BY <1>1, <2>1, <2>2, ProcSafeStep
<1> QED
  BY <1>2, <1>3

LEMMA AddLayerSafe ==
  ASSUME TypeInv, SafeInv, NEW r \in Runs, AddSignedLayer(r),
         UNCHANGED <<sections, jobs, deployed, pc>>
  PROVE  SafeInv'
<1> DEFINE p == proc[r]
<1>1. /\ UNCHANGED images /\ p.pc = "layer" /\ p.args = args
      /\ Listing(args.files) /\ Table(args.files, p.kmods) /\ p.left = 0
      /\ \A k \in Files : p.kmods[k] # NotFound
      /\ p.img \in SourceImages
      /\ PlainLayers => Walked(args.files, p.img, p.left, p.kmods)
  BY DEF AddSignedLayer, SafeInv, ProcsSafe, ProcSafe
<1>2. CASE Exit(r, 6)
  BY <1>1, <1>2, ExitSafe
<1>3. CASE ~ Exit(r, 6)
  <2>1. PICK q \in Process :
           /\ proc' = [proc EXCEPT ![r] = q] /\ q.args = p.args /\ q.pc = "push"
           /\ q.img = Append(p.img, SignedLayer(p.kmods))
    BY <1>1, <1>3, LayerAdded DEF AddSignedLayer, TypeInv
  <2>2. p.kmods \in Kmods
    BY DEF TypeInv, ToolTyped, Process, Kmods
  <2> HIDE DEF p
  <2>3. SignedFrom(args.files, p.img, q.img)
    BY <1>1, <2>1, <2>2, SignedImage
  <2>4. ProcSafe(q, args, images[Target])
    BY <1>1, <2>1, <2>3 DEF ProcSafe
  <2> QED
    BY <1>1, <2>1, <2>4, ProcSafeStep
<1> QED
  BY <1>2, <1>3

LEMMA WriteSafe ==
  ASSUME TypeInv, SafeInv, NEW r \in Runs, WriteImageByName(r),
         UNCHANGED <<sections, jobs, deployed, pc>>
  PROVE  SafeInv'
<1> DEFINE p == proc[r]
<1>1. /\ p.pc = "push" /\ p.args = args /\ Listing(args.files)
      /\ \E src \in SourceImages : SignedFrom(args.files, src, p.img)
  BY DEF WriteImageByName, SafeInv, ProcsSafe, ProcSafe
<1>2. /\ args.target = Target /\ args.push /\ args.source # Target
      /\ args.source \in ImageNames /\ Target \in ImageNames
  BY ArgsTyped, SigningAssumption DEF TypeInv, JobsTyped, Args
<1>3. CASE Exit(r, 8) /\ UNCHANGED images
  BY <1>3, ExitSafe
<1>4. CASE /\ images' = [images EXCEPT ![Target] = p.img]
           /\ proc' = [proc EXCEPT ![r].pc = "pushed"]
  <2>1. PICK q \in Process :
           proc' = [proc EXCEPT ![r] = q] /\ q.args = p.args /\ q.pc = "pushed"
    BY <1>4, Moved DEF TypeInv, Running
  <2>2. p.img \in Image
    BY <1>1 DEF TypeInv, ToolTyped
  <2>3. /\ images'[Target] = p.img /\ p.img # NoImage
        /\ images'[args.source] = images[args.source]
    BY <1>2, <1>4, <2>2, RegistryAssumption DEF TypeInv, ToolTyped
  <2>4. args' = args
    BY ArgsSame
  <2> HIDE DEF p
  <2>5. ImagesSafe'
    BY <1>1, <2>3, <2>4 DEF SafeInv, ImagesSafe
  <2>6. JobsSafe'
    BY <2>3 DEF JobsSafe
  <2>7. ProcsSafe'
    <3> SUFFICES ASSUME NEW s \in Runs PROVE ProcSafe(proc'[s], args, images'[Target])
      BY <2>4 DEF ProcsSafe
    <3>1. CASE s = r
      <4>1. proc'[s] = q
        BY <2>1, <3>1 DEF TypeInv, ToolTyped
      <4> QED
        BY <1>1, <2>1, <2>3, <4>1 DEF ProcSafe
    <3>2. CASE s # r
      <4>1. proc'[s] = proc[s] /\ ProcSafe(proc[s], args, images[Target])
        BY <2>1, <3>2 DEF TypeInv, ToolTyped, SafeInv, ProcsSafe
      <4> QED
        BY <2>3, <4>1 DEF ProcSafe
    <3> QED
      BY <3>1, <3>2
  <2> QED
    BY <2>5, <2>6, <2>7 DEF SafeInv
<1> QED
  BY <1>1, <1>2, <1>3, <1>4 DEF WriteImageByName

LEMMA ExitDoneSafe ==
  ASSUME TypeInv, SafeInv, NEW r \in Runs, ExitDone(r),
         UNCHANGED <<sections, jobs, deployed, pc>>
  PROVE  SafeInv'
<1>1. PICK q \in Process : /\ proc' = [proc EXCEPT ![r] = q] /\ q.args = proc[r].args
                           /\ q.pc = "exited"
  BY Exited DEF ExitDone, TypeInv
<1>2. ProcSafe(q, args, images[Target])
  BY <1>1 DEF ExitDone, ProcSafe, SafeInv, ProcsSafe
<1> QED
  BY <1>1, <1>2, ProcSafeStep DEF ExitDone

LEMMA PodSafe ==
  ASSUME TypeInv, SafeInv, NEW r \in Runs,
         ContainerStarts(r) \/ ToolRuns(r) \/ PodRemoved(r) \/ ContainerKilled(r)
  PROVE  SafeInv'
<1>1. UNCHANGED <<sections, jobs, deployed, pc>>
  BY DEF ContainerStarts, ToolRuns, PodRemoved, ContainerKilled, caVars, worker
<1>2. CASE ContainerStarts(r)
  <2>1. PICK q \in Process :
           proc' = [proc EXCEPT ![r] = q] /\ q.args = proc[r].args /\ q.pc = "args"
    BY <1>2, Moved DEF ContainerStarts, TypeInv, Running
  <2>2. ProcSafe(q, args, images[Target])
    BY <2>1 DEF ProcSafe, SafeInv, ProcsSafe
  <2> QED
    BY <1>1, <1>2, <2>1, <2>2, ProcSafeStep DEF ContainerStarts
<1>3. CASE ToolRuns(r)
  <2>1. CASE SetupFails(r)
    BY <1>1, <2>1, ExitSafe DEF SetupFails
  <2> QED
    BY <1>1, <1>3, <2>1, CheckArgsSafe, PullSafe, WalkSafe, CheckKmodsSafe, AddLayerSafe,
       WriteSafe, ExitDoneSafe DEF ToolRuns, main
<1>4. CASE PodRemoved(r)
  BY <1>1, <1>4, ExitSafe DEF PodRemoved
<1>5. CASE ContainerKilled(r)
  BY <1>1, <1>5, ExitSafe DEF ContainerKilled, Killed
<1> QED
  BY <1>2, <1>3, <1>4, <1>5

LEMMA WorkerSafe ==
  ASSUME TypeInv, SafeInv,
         SignShouldSync \/ SignSync \/ HandleDriverContainer \/ GarbageCollectJobs
  PROVE  SafeInv'
<1>1. UNCHANGED <<images, proc, sections>>
  BY DEF SignShouldSync, SignSync, HandleDriverContainer, GarbageCollectJobs, signVars
<1>2. args.target = Target
  BY ArgsTyped DEF TypeInv, JobsTyped
<1>3. CASE SignShouldSync
  <2>1. pc' = "driver" => images[Target] # NoImage
    BY <1>2, <1>3 DEF SignShouldSync, Return
  <2> QED
    BY <1>1, <1>3, <2>1, OtherSafe DEF SignShouldSync
<1>4. CASE SignSync
  <2> DEFINE job == jobs[TheOne(ModuleJobs)]
  <2>1. deployed' = deployed
    BY <1>4 DEF SignSync
  <2>2. CASE CreateJob
    <3>1. NewRun \in Runs /\ pc' = "collect"
      BY <2>2 DEF CreateJob, NewRun, FreeRuns
    <3>2. \A r \in Runs : jobs'[r] = jobs[r] \/ jobs'[r].phase = "New"
      BY <2>2, <3>1 DEF CreateJob, TypeInv, JobsTyped
    <3> QED
      BY <1>1, <2>1, <3>1, <3>2, OtherSafe
  <2>3. CASE jobs' = [jobs EXCEPT ![TheOne(ModuleJobs)] = NoJob] /\ pc' = "collect"
    <3>1. \A r \in Runs : jobs'[r] = jobs[r] \/ jobs'[r] = NoJob
      BY <2>3 DEF TypeInv, JobsTyped
    <3> QED
      BY <1>1, <2>1, <2>3, <3>1, OtherSafe
  <2>4. CASE /\ Cardinality(ModuleJobs) = 1 /\ UNCHANGED jobs
             /\ pc' = IF job.phase = "Succeeded" THEN "driver" ELSE "collect"
    <3>1. TheOne(ModuleJobs) \in ModuleJobs
      <4>1. IsFiniteSet(ModuleJobs)
        BY FS_Subset, SignImageAssumption DEF ModuleJobs
      <4>2. \E r \in ModuleJobs : ModuleJobs = {r}
        BY <2>4, <4>1, FS_Singleton
      <4> QED
        BY <4>2 DEF TheOne
    <3>2. pc' = "driver" => (args.files # {} => images[Target] # NoImage)
      BY <2>4, <3>1 DEF ModuleJobs, SafeInv, JobsSafe
    <3> QED
      BY <1>1, <2>1, <2>4, <3>2, OtherSafe
  <2>5. CASE Return(TRUE) /\ UNCHANGED jobs
    BY <1>1, <2>1, <2>5, OtherSafe DEF Return
  <2> QED
    BY <1>4, <2>2, <2>3, <2>4, <2>5 DEF SignSync
<1>5. CASE HandleDriverContainer
  <2>1. args' = args
    BY <1>1, ArgsSame
  <2>2. pc = "driver" /\ pc' = "collect" /\ jobs' = jobs
    BY <1>5 DEF HandleDriverContainer, At
  <2> QED
    BY <1>1, <2>1, <2>2 DEF SafeInv, ImagesSafe, JobsSafe, ProcsSafe
<1>6. CASE GarbageCollectJobs
  <2>1. \A r \in Runs : jobs'[r] = jobs[r] \/ jobs'[r] = NoJob
    BY <1>6 DEF GarbageCollectJobs
  <2>2. pc' = "idle" /\ deployed' = deployed
    BY <1>6 DEF GarbageCollectJobs, Return
  <2> QED
    BY <1>1, <2>1, <2>2, OtherSafe
<1> QED
  BY <1>3, <1>4, <1>5, <1>6

\* A Job succeeds when its program has ended with status 0.
LEMMA JobEventSafe ==
  ASSUME TypeInv, SafeInv, NEW r \in Runs, JobStarts(r) \/ JobFinishes(r)
  PROVE  SafeInv'
<1>1. UNCHANGED <<images, proc, sections, deployed, pc>>
  BY DEF JobStarts, JobFinishes, JobEvent, signVars, worker
<1>2. args' = args
  BY <1>1, ArgsSame
<1>3. PICK phase :
         /\ jobs' = [jobs EXCEPT ![r].phase = phase]
         /\ phase = "Succeeded" => proc[r].pc = "exited" /\ proc[r].status = 0
  BY DEF JobStarts, JobFinishes, JobEvent
<1>4. jobs[r] \in Job
  BY DEF JobStarts, JobFinishes, TypeInv, JobsTyped
<1>5. jobs'[r].phase = phase
  BY <1>3, <1>4 DEF TypeInv, JobsTyped, Job
<1>6. \A s \in Runs : s # r => jobs'[s] = jobs[s]
  BY <1>3 DEF TypeInv, JobsTyped
<1>7. phase = "Succeeded" /\ args.files # {} => images[Target] # NoImage
  BY <1>3 DEF SafeInv, ProcsSafe, ProcSafe
<1>8. JobsSafe'
  BY <1>1, <1>2, <1>5, <1>6, <1>7 DEF SafeInv, JobsSafe
<1> QED
  BY <1>1, <1>2, <1>8 DEF SafeInv, ImagesSafe, ProcsSafe

LEMMA PushSourceSafe ==
  ASSUME TypeInv, SafeInv, NEW img \in SourceImages, PushSource(img)
  PROVE  SafeInv'
<1>1. UNCHANGED <<proc, sections, jobs, deployed, pc>>
  BY DEF PushSource, worker
<1>2. args' = args
  BY <1>1, ArgsSame
<1>3. args.source # Target /\ args.source \in ImageNames /\ Target \in ImageNames
  BY ArgsTyped, SigningAssumption DEF TypeInv, JobsTyped, Args
<1>4. images'[args.source] = img /\ images'[Target] = images[Target]
  BY <1>3 DEF PushSource, TypeInv, ToolTyped
<1> QED
  BY <1>1, <1>2, <1>4 DEF SafeInv, ImagesSafe, JobsSafe, ProcsSafe

\* Whatever is done about ConfigMaps leaves the rest alone.
LEMMA CAOnlySafe ==
  ASSUME SafeInv, UNCHANGED <<signVars, sections, jobs, deployed>>, pc' = "driver" => pc = "driver"
  PROVE  SafeInv'
BY OtherSafe DEF signVars

LEMMA NextSafe ==
  ASSUME TypeInv, SafeInv, [Next]_vars
  PROVE  SafeInv'
<1>1. CASE CAOnly(Sync)
  <2>1. pc' = "driver" => pc = "driver"
    BY <1>1 DEF CAOnly, Sync, GetModule, GetOrCreateConfigMap, Create, SyncConfigMapOwners,
       PatchStep, Return
  <2> QED
    BY <1>1, <2>1, CAOnlySafe DEF CAOnly
<1>2. CASE SignShouldSync \/ SignSync \/ HandleDriverContainer \/ GarbageCollectJobs
  BY <1>2, WorkerSafe
<1>3. CASE \/ CAOnly(ReconcileError) \/ CAOnly(Restart)
           \/ CAOnly(DeliverConfigMaps) \/ CAOnly(Resync)
           \/ \E m \in Mods \ {Signer} : CAOnly(DeleteModule(m))
           \/ \E c \in CMNames : CAOnly(UserDeletesConfigMap(c)) \/ CAOnly(CollectConfigMap(c))
  <2>1. pc' = "driver" => pc = "driver"
    BY <1>3 DEF CAOnly, ReconcileError, Restart, Return, DeliverConfigMaps, Resync,
       DeleteModule, UserDeletesConfigMap, CollectConfigMap, worker
  <2> QED
    BY <1>3, <2>1, CAOnlySafe DEF CAOnly
<1>4. CASE \E r \in Runs : JobStarts(r) \/ JobFinishes(r)
  BY <1>4, JobEventSafe
<1>5. CASE \E r \in Runs : ContainerStarts(r) \/ ToolRuns(r) \/ PodRemoved(r)
                           \/ ContainerKilled(r)
  BY <1>5, PodSafe
<1>6. CASE \E img \in SourceImages : PushSource(img)
  BY <1>6, PushSourceSafe
<1>7. CASE UNCHANGED vars
  BY <1>7, OtherSafe DEF vars, caVars, worker, signVars
<1> QED
  BY <1>1, <1>2, <1>3, <1>4, <1>5, <1>6, <1>7 DEF Next, Reconcile, Cluster

LEMMA InitSafe == Init => SafeInv
<1> SUFFICES ASSUME Init PROVE SafeInv
  OBVIOUS
<1>1. args.source # Target /\ args.source \in ImageNames /\ Target \in ImageNames
  BY ArgsTyped, SigningAssumption DEF Init, Args
<1>2. /\ images[Target] = NoImage
      /\ images[args.source] \in SourceImages
  BY <1>1, SigningAssumption DEF Init
<1>3. \A r \in Runs : ProcSafe(proc[r], args, images[Target])
  <2>1. \A r \in Runs : proc[r] = NewProcess(args)
    BY DEF Init
  <2> QED
    BY <2>1 DEF NewProcess, ProcSafe
<1>4. pc = "idle" /\ deployed = FALSE /\ \A r \in Runs : jobs[r] = NoJob
  BY DEF Init, CAInit
<1> QED
  BY <1>2, <1>3, <1>4 DEF SafeInv, ImagesSafe, JobsSafe, ProcsSafe

LEMMA Safe == Spec => [](TypeInv /\ SafeInv)
<1>1. TypeInv /\ SafeInv /\ [Next]_vars => (TypeInv /\ SafeInv)'
  BY NextTyped, NextSafe
<1> QED
  BY <1>1, InitTyped, InitSafe, PTL DEF Spec

-----------------------------------------------------------------------------

\* If every sign section lists files, the driver container is never deployed
\* before the image with all of them signed was pushed: whichever way the Job
\* and its program ended, whatever was killed or pushed meanwhile.  (A section
\* without a list breaks it: checkArg lets the program end with status 0.)
THEOREM SignedFirst ==
  ASSUME FilesListed
  PROVE  Spec => []SignedBeforeDeployed
<1>1. ASSUME TypeInv, SafeInv, deployed
      PROVE  /\ images[args.target] # NoImage
             /\ \A p \in ToSign(images[args.target]) :
                   /\ Mounted(images[args.target], p) \in Content
                   /\ Mounted(images[args.target], p).signed
  <2>1. args.target = Target /\ args.files = ListedFiles
    BY <1>1, ArgsTyped DEF TypeInv, JobsTyped
  <2>2. args.files # {}
    BY <1>1 DEF TypeInv, JobsTyped, FilesListed, args
  <2>3. images[Target] # NoImage
    BY <1>1, <2>2 DEF SafeInv, JobsSafe
  <2>4. /\ args.files \subseteq Canonical
        /\ \E src \in SourceImages : SignedFrom(args.files, src, images[Target])
    BY <1>1, <2>3 DEF SafeInv, ImagesSafe, Listing
  <2>5. \A p \in args.files : Mounted(images[Target], p) \in Content
                              /\ Mounted(images[Target], p).signed
    BY <2>4 DEF SignedFrom
  <2>6. ToSign(images[Target]) = args.files
    BY <2>1, <2>2 DEF ToSign
  <2> QED
    BY <2>1, <2>3, <2>5, <2>6
<1>2. TypeInv /\ SafeInv => SignedBeforeDeployed
  BY <1>1 DEF SignedBeforeDeployed
<1> QED
  BY <1>2, Safe, PTL

\* If layers are read to the end and name a path once, the signed image gives a
\* container the files of one push of the unsigned image, with the topmost
\* version of each listed file signed and nothing else changed: walking the
\* layers from the top and taking the first match is what a runtime does.
THEOREM SignedRuns ==
  ASSUME PlainLayers
  PROVE  Spec => []SignedIsWhatRuns
<1>1. ASSUME TypeInv, SafeInv, images[args.target] # NoImage
      PROVE  \E img \in SourceImages : \A p \in Canonical :
                IF p \notin ToSign(img) THEN Mounted(images[args.target], p) = Mounted(img, p)
                ELSE Mounted(img, p) # NoEntry
                        => Mounted(images[args.target], p) = signFile(Mounted(img, p))
  <2>1. args.target = Target /\ args.files = ListedFiles
    BY <1>1, ArgsTyped DEF TypeInv, JobsTyped
  <2>2. args.files # {} /\ \E src \in SourceImages : SignedFrom(args.files, src, images[Target])
    BY <1>1, <2>1 DEF SafeInv, ImagesSafe, Listing
  <2>3. PICK src \in SourceImages : SignedFrom(args.files, src, images[Target])
    BY <2>2
  <2>4. ToSign(src) = args.files
    BY <2>1, <2>2 DEF ToSign
  <2>5. \A p \in Canonical :
           IF p \notin args.files THEN Mounted(images[Target], p) = Mounted(src, p)
           ELSE Mounted(src, p) # NoEntry
                   => Mounted(images[Target], p) = signFile(Mounted(src, p))
    BY <2>3 DEF SignedFrom
  <2> QED
    BY <2>1, <2>4, <2>5
<1>2. TypeInv /\ SafeInv => SignedIsWhatRuns
  BY <1>1 DEF SignedIsWhatRuns
<1> QED
  BY <1>2, Safe, PTL

\* Preflight looks for the kernel module by a name without the leading "/", so
\* the layer of signed files, whose names have it, changes nothing about its
\* verdict.
THEOREM VerdictKept ==
  ASSUME ModulePath \notin Canonical
  PROVE  Spec => []SignedKeepsVerdict
<1>1. ASSUME TypeInv, SafeInv, images[args.target] # NoImage
      PROVE  \E img \in SourceImages :
                verifyImage(images[args.target], ModulePath) = verifyImage(img, ModulePath)
  <2>1. args.target = Target
    BY <1>1, ArgsTyped DEF TypeInv, JobsTyped
  <2>2. \E src \in SourceImages : SignedFrom(args.files, src, images[Target])
    BY <1>1, <2>1 DEF SafeInv, ImagesSafe
  <2> QED
    BY <2>1, <2>2 DEF SignedFrom
<1>2. TypeInv /\ SafeInv => SignedKeepsVerdict
  BY <1>1 DEF SignedKeepsVerdict
<1> QED
  BY <1>2, Safe, PTL

=============================================================================
