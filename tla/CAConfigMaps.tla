---------------------------- MODULE CAConfigMaps ----------------------------
(***************************************************************************)
(* internal/ca: the two ConfigMaps of a namespace that OpenShift fills with *)
(* CA bundles and signing pods mount.  Every Module of the namespace is an   *)
(* owner of both, so that they are collected with the last one.  Sync is the *)
(* first thing a reconciliation outside the operator's namespace does; one   *)
(* worker reconciles all Modules.                                           *)
(*                                                                          *)
(* The helper lists ConfigMaps from an informer cache, creates them under    *)
(* generated names, and patches the difference to the copy it read.          *)
(***************************************************************************)
EXTENDS Integers, FiniteSets

CONSTANTS
    Mods,        \* the Modules of the namespace
    MaxCMs,      \* bound on the ConfigMaps ever created
    NoMod, NoCM,
    CacheLags,   \* whether the cached ConfigMaps may be stale
    MaxChanges,  \* bound on what users do
    MaxErrors    \* bound on failed API calls and operator crashes

CATypes == {"cluster", "service"}

\* Generated names: every one is new.
CMNames == 1..MaxCMs

ConfigMap == [type : CATypes, owners : SUBSET Mods]

ASSUME CAAssumption ==
    /\ NoMod \notin Mods /\ NoCM \notin ConfigMap \cup CMNames
    /\ CacheLags \in BOOLEAN /\ MaxCMs \in Nat
    /\ MaxChanges \in Nat /\ MaxErrors \in Nat

VARIABLES
    mods,     \* the Modules that exist
    cms,      \* ConfigMaps as the API server has them
    cmCache,  \* ConfigMaps as the informer has seen them
    created,  \* how many were ever created
    queue,    \* Modules to reconcile
    pc, cur,  \* the step of the running reconciliation, and its Module
    name,     \* the ConfigMap being synchronised
    copy,     \* the copy of it that the patch starts from
    changes, errors

worker == <<pc, cur, name, copy>>
caVars == <<mods, cms, cmCache, created, queue, worker, changes, errors>>

CAInit ==
    /\ mods = Mods
    /\ cms = [c \in CMNames |-> NoCM] /\ cmCache = cms
    /\ created = 0
    /\ queue = Mods
    /\ pc = "idle" /\ cur = NoMod /\ name = NoCM /\ copy = NoCM
    /\ changes = 0 /\ errors = 0

OfType(objs, t) == {c \in CMNames : objs[c] # NoCM /\ objs[c].type = t}

TheOne(S) == CHOOSE c \in S : S = {c}

-----------------------------------------------------------------------------
(* Reconcile, up to the end of Sync.                                        *)

\* The step the worker takes next.  It waits for a cache that does not lag.
At(step) == pc = step /\ (CacheLags \/ cmCache = cms)

\* Reconcile returns; err: the request is queued again.
Return(err) ==
    /\ pc' = "idle" /\ cur' = NoMod /\ name' = NoCM /\ copy' = NoCM
    /\ queue' = IF err THEN queue \cup {cur} ELSE queue

\* A Module that is gone needs nothing.
GetModule(m) ==
    /\ At("idle") /\ m \in queue
    /\ queue' = queue \ {m}
    /\ \/ m \in mods /\ pc' = "cluster" /\ cur' = m
       \/ m \notin mods /\ UNCHANGED <<pc, cur>>
    /\ UNCHANGED <<mods, cms, cmCache, created, name, copy, changes, errors>>

PatchStep(t) == IF t = "cluster" THEN "ownCluster" ELSE "ownService"

Create(t) ==
    /\ created < MaxCMs /\ created' = created + 1
    /\ name' = created + 1 /\ copy' = [type |-> t, owners |-> {}]
    /\ cms' = [cms EXCEPT ![name'] = copy']
    /\ pc' = PatchStep(t)

\* Mutant: the list is not looked at.
GetOrCreateConfigMapAlways(t) ==
    /\ At(t)
    /\ Create(t)
    /\ UNCHANGED <<cur, queue, mods, cmCache, changes, errors>>

\* Mutant: the patch is made without a copy of what was read.
GetOrCreateConfigMapNoCopy(t) ==
    LET found == OfType(cmCache, t)
    IN  /\ At(t)
        /\ \/ /\ found = {} /\ Create(t)
              /\ UNCHANGED <<cur, queue>>
           \/ /\ Cardinality(found) = 1
              /\ pc' = PatchStep(t) /\ name' = TheOne(found)
              /\ UNCHANGED <<cms, created, cur, queue, copy>>
        /\ UNCHANGED <<mods, cmCache, changes, errors>>

\* getOrCreateClusterCAConfigMap and getOrCreateServiceCAConfigMap: none is
\* created, one is taken, two are an error.
GetOrCreateConfigMap(t) ==
    LET found == OfType(cmCache, t)
    IN  /\ At(t)
        /\ \/ /\ found = {} /\ Create(t)
              /\ UNCHANGED <<cur, queue>>
           \/ /\ Cardinality(found) = 1
              /\ pc' = PatchStep(t) /\ name' = TheOne(found)
              /\ copy' = cmCache[TheOne(found)]
              /\ UNCHANGED <<cms, created, cur, queue>>
           \/ /\ Cardinality(found) > 1
              /\ Return(TRUE) /\ UNCHANGED <<cms, created>>
        /\ UNCHANGED <<mods, cmCache, changes, errors>>

\* Mutant: the Module becomes the only owner (SetControllerReference).
WithOwnerOnly(cm) == [cm EXCEPT !.owners = {cur}]

\* SetOwnerReference on the copy.
WithOwner(cm) == [cm EXCEPT !.owners = @ \cup {cur}]

\* syncConfigMapOwners: a merge patch replaces the list of owners by the copy's,
\* if that changed; the object may be gone by now.
SyncConfigMapOwners(t) ==
    /\ At(PatchStep(t))
    /\ \/ /\ cms[name] = NoCM
          /\ Return(TRUE) /\ UNCHANGED cms
       \/ /\ cms[name] # NoCM
          /\ cms' = IF WithOwner(copy) = copy THEN cms
                    ELSE [cms EXCEPT ![name].owners = WithOwner(copy).owners]
          /\ pc' = IF t = "cluster" THEN "service" ELSE "synced"
          /\ name' = NoCM /\ copy' = NoCM
          /\ UNCHANGED <<cur, queue>>
    /\ UNCHANGED <<mods, cmCache, created, changes, errors>>

Sync ==
    \/ \E m \in Mods : GetModule(m)
    \/ \E t \in CATypes : GetOrCreateConfigMap(t) \/ SyncConfigMapOwners(t)

\* GetClusterCA and GetServiceCA, which signers call: exactly one, by name.
HasCA(t) == Cardinality(OfType(cmCache, t)) = 1
GetCA(t) == TheOne(OfType(cmCache, t))

\* Any call of a reconciliation may fail.
ReconcileError ==
    /\ pc # "idle" /\ errors < MaxErrors
    /\ errors' = errors + 1
    /\ Return(TRUE)
    /\ UNCHANGED <<mods, cms, cmCache, created, changes>>

\* The operator stops anywhere and lists everything anew.
Restart ==
    /\ errors < MaxErrors /\ errors' = errors + 1
    /\ pc' = "idle" /\ cur' = NoMod /\ name' = NoCM /\ copy' = NoCM
    /\ queue' = mods
    /\ cmCache' = cms
    /\ UNCHANGED <<mods, cms, created, changes>>

\* ConfigMaps are not watched: no request comes of it.
DeliverConfigMaps ==
    /\ cmCache # cms
    /\ cmCache' = cms
    /\ UNCHANGED <<mods, cms, created, queue, worker, changes, errors>>

\* The informers' periodic resynchronisation, long after the last request.
Resync ==
    /\ queue = {} /\ mods # {}
    /\ queue' = queue \cup mods
    /\ UNCHANGED <<mods, cms, cmCache, created, worker, changes, errors>>

-----------------------------------------------------------------------------
(* Users and the garbage collector of Kubernetes.                           *)

DeleteModule(m) ==
    /\ m \in mods /\ changes < MaxChanges
    /\ mods' = mods \ {m} /\ changes' = changes + 1
    /\ queue' = queue \cup {m}
    /\ UNCHANGED <<cms, cmCache, created, worker, errors>>

UserDeletesConfigMap(c) ==
    /\ cms[c] # NoCM /\ changes < MaxChanges
    /\ cms' = [cms EXCEPT ![c] = NoCM] /\ changes' = changes + 1
    /\ UNCHANGED <<mods, cmCache, created, queue, worker, errors>>

\* An object goes when its last owner is gone, and loses the references to those
\* that are gone before.
CollectConfigMap(c) ==
    /\ cms[c] # NoCM /\ ~ (cms[c].owners \subseteq mods)
    /\ cms' = [cms EXCEPT ![c] = IF cms[c].owners \cap mods = {} THEN NoCM
                                 ELSE [cms[c] EXCEPT !.owners = @ \cap mods]]
    /\ UNCHANGED <<mods, cmCache, created, queue, worker, changes, errors>>

-----------------------------------------------------------------------------

\* The helper never has two ConfigMaps of a type: getConfigMap fails for good
\* ("expected 1 ConfigMap") when it finds two, and every reconciliation with it.
OneConfigMapPerType ==
    \A t \in CATypes : Cardinality(OfType(cms, t)) <= 1

=============================================================================
