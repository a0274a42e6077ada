----------------------------- MODULE SignImage -----------------------------
(***************************************************************************)
(* cmd/signimage: the program a signing Job runs.  It pulls an image, walks *)
(* its layers from the top, signs the kernel modules it is looking for, and *)
(* pushes the image with the signed files in one more layer.  Its exit      *)
(* status decides whether the Job succeeded.                                *)
(*                                                                          *)
(* Every step that reaches the registry may fail, and the container may be  *)
(* killed between any two steps.                                            *)
(***************************************************************************)
EXTENDS Registry

CONSTANTS
    Runs,         \* executions of the program: one per Job (backoffLimit 0)
    ImageNames,
    KoFiles,      \* the names that end in ".ko"
    Secrets,      \* the files below -secretdir, in the order WalkDir visits them
    Hosts,        \* registries
    HostOf,       \* the registry of each image name
    PullBy,       \* the credentials each registry lets pull
    PushBy,       \* the credentials each registry lets push
    Creds, NoCred, Anonymous, Malformed,
    NotFound,     \* kmodsToSign's "not found"
    BrokenReads,  \* whether the stream of a layer may break off
    MaxFaults     \* bound on failures

Args == [source : ImageNames, target : ImageNames, push : BOOLEAN,
         files : SUBSET Files]

ASSUME SignImageAssumption ==
    /\ HostOf \in [ImageNames -> Hosts] /\ KoFiles \subseteq Files
    /\ Secrets \in Seq([Hosts -> Creds \cup {NoCred}] \cup {Malformed})
    /\ PullBy \in [Hosts -> SUBSET (Creds \cup {Anonymous})]
    /\ PushBy \in [Hosts -> SUBSET (Creds \cup {Anonymous})]
    /\ NoCred \notin Creds /\ Anonymous \notin Creds
    /\ NotFound \notin Content \cup {NoEntry}
    /\ BrokenReads \in BOOLEAN /\ MaxFaults \in Nat /\ IsFiniteSet(Runs)

VARIABLES
    images,  \* what the registries hold, by name
    proc,    \* the executions
    faults   \* failures so far

signVars == <<images, proc, faults>>

Running == {"args", "pull", "walk", "layer", "push", "pushed"}

Process ==
    [pc : Running \cup {"new", "exited"}, args : Args, img : Image \cup {NoImage},
     left : Nat, kmods : [Files -> Content \cup {NoEntry, NotFound}],
     status : Nat]

\* A process that has not started; args are those of its Job.
NewProcess(args) ==
    [pc |-> "new", args |-> args, img |-> NoImage, left |-> 0,
     kmods |-> [f \in Files |-> NoEntry], status |-> 0]

-----------------------------------------------------------------------------
(* Credentials: the last file that names the registry decides; files that   *)
(* cannot be parsed are skipped; without any, the access is anonymous.       *)

FindAuth(host) ==
    LET naming == {i \in DOMAIN Secrets :
                      Secrets[i] # Malformed /\ Secrets[i][host] # NoCred}
    IN  IF naming = {} THEN Anonymous ELSE Secrets[Max(naming)][host]

-----------------------------------------------------------------------------
(* main, step by step.                                                      *)

Exit(r, status) == proc' = [proc EXCEPT ![r].pc = "exited", ![r].status = status]

\* die after a failure that the model does not explain.  Which of the statuses other
\* than 0 it is, is all the same to the Job.
Fault == faults < MaxFaults /\ faults' = faults + 1

\* checkArg: a list of files that is not given ends the program, with status 0.
\* A listed path that is not absolute and clean ends it with status 9.
CheckArgs(r) ==
    LET files == proc[r].args.files
    IN  /\ proc[r].pc = "args"
        /\ \/ files = {} /\ Exit(r, 0)
           \/ files # {} /\ ~ (files \subseteq Canonical) /\ Exit(r, 9)
           \/ /\ files # {} /\ files \subseteq Canonical
              /\ proc' = [proc EXCEPT ![r].pc = "pull",
                            ![r].kmods = [f \in Files |->
                                IF f \in files THEN NotFound ELSE NoEntry]]
        /\ UNCHANGED <<images, faults>>

\* The temporary directory cannot be created.
SetupFails(r) ==
    /\ proc[r].pc = "args" /\ proc[r].args.files # {}
    /\ Fault /\ Exit(r, 1)
    /\ UNCHANGED images

\* The manifest is pulled now; the layers it names are streamed during the walk
\* and cannot change any more.
GetImageByName(r) ==
    LET source == proc[r].args.source
        found  == images[source] # NoImage
                  /\ FindAuth(HostOf[source]) \in PullBy[HostOf[source]]
    IN  /\ proc[r].pc = "pull"
        /\ \/ /\ found
              /\ proc' = [proc EXCEPT ![r].pc = "walk", ![r].img = images[source],
                                      ![r].left = Len(images[source])]
              /\ UNCHANGED faults
           \/ ~ found /\ Exit(r, 3) /\ UNCHANGED faults
           \/ Fault /\ Exit(r, 3)
        /\ UNCHANGED images

\* processFile: the file is on the list and was not seen in a higher layer, or
\* there is no list and it is a kernel module not seen before.
Wanted(p, f) ==
    \/ p.kmods[Canon[f]] = NotFound
    \/ p.args.files = {} /\ p.kmods[Canon[f]] = NoEntry /\ Canon[f] \in KoFiles

\* sign-file on the extracted copy.
signFile(content) == [content EXCEPT !.signed = TRUE]

\* What processFile leaves in kmodsToSign after the entries of a layer that were
\* read.
ProcessFiles(p, layer, read) ==
    [k \in Files |->
        LET hits == {f \in read : Canon[f] = k /\ layer[f] \in Content /\ Wanted(p, f)}
        IN  IF hits = {} THEN p.kmods[k]
            ELSE signFile(layer[CHOOSE f \in hits : TRUE])]

\* The entries the walk gets to see of a layer: an error of the stream is taken
\* for its end.
Reads == IF BrokenReads THEN SUBSET Files ELSE {Files}

\* Mutant: the layers are walked from the bottom.
WalkLayerUp(r) ==
    LET p == proc[r]
        layer == p.img[1 + Len(p.img) - p.left]
    IN  /\ p.pc = "walk" /\ p.left > 0
        /\ \/ /\ \E read \in Reads :
                    proc' = [proc EXCEPT ![r].left = @ - 1,
                                         ![r].kmods = ProcessFiles(p, layer, read)]
              /\ UNCHANGED faults
           \/ Fault /\ Exit(r, 9)
        /\ UNCHANGED images

\* WalkFilesInImage, one layer.  The program dies when the layer cannot be
\* opened, or a file cannot be extracted or signed.
WalkLayer(r) ==
    LET p == proc[r]
        layer == p.img[p.left]
    IN  /\ p.pc = "walk" /\ p.left > 0
        /\ \/ /\ \E read \in Reads :
                    proc' = [proc EXCEPT ![r].left = @ - 1,
                                         ![r].kmods = ProcessFiles(p, layer, read)]
              /\ UNCHANGED faults
           \/ Fault /\ Exit(r, 9)
        /\ UNCHANGED images

\* Every listed file must have been found.
CheckKmods(r) ==
    /\ proc[r].pc = "walk" /\ proc[r].left = 0
    /\ IF \E f \in Files : proc[r].kmods[f] = NotFound
       THEN Exit(r, 4)
       ELSE proc' = [proc EXCEPT ![r].pc = "layer"]
    /\ UNCHANGED <<images, faults>>

\* addFileToTarball for every signed file, under its canonical path.
SignedLayer(kmods) ==
    [f \in Files |-> IF kmods[f] \in Content THEN kmods[f] ELSE NoEntry]

\* The layer's archive is written and put on the image; either may fail.
AddSignedLayer(r) ==
    /\ proc[r].pc = "layer"
    /\ \/ /\ proc' = [proc EXCEPT ![r].img = AddLayerToImage(SignedLayer(proc[r].kmods), @),
                                  ![r].pc = "push"]
          /\ UNCHANGED faults
       \/ Fault /\ Exit(r, 6)
    /\ UNCHANGED images

\* Mutant: a push the registry refuses goes unnoticed.
WriteImageByNameIgnored(r) ==
    LET target == proc[r].args.target
    IN  /\ proc[r].pc = "push"
        /\ proc' = [proc EXCEPT ![r].pc = "pushed"]
        /\ \/ images' = [images EXCEPT ![target] = proc[r].img] /\ UNCHANGED faults
           \/ Fault /\ UNCHANGED images

\* WriteImageByName, unless -no-push was given.
WriteImageByName(r) ==
    LET target  == proc[r].args.target
        allowed == FindAuth(HostOf[target]) \in PushBy[HostOf[target]]
    IN  /\ proc[r].pc = "push"
        /\ \/ /\ proc[r].args.push /\ allowed
              /\ images' = [images EXCEPT ![target] = proc[r].img]
              /\ proc' = [proc EXCEPT ![r].pc = "pushed"]
              /\ UNCHANGED faults
           \/ /\ ~ proc[r].args.push
              /\ proc' = [proc EXCEPT ![r].pc = "pushed"]
              /\ UNCHANGED <<images, faults>>
           \/ /\ proc[r].args.push /\ ~ allowed
              /\ Exit(r, 8) /\ UNCHANGED <<images, faults>>
           \/ /\ proc[r].args.push
              /\ Fault /\ Exit(r, 8) /\ UNCHANGED images

ExitDone(r) ==
    /\ proc[r].pc = "pushed"
    /\ Exit(r, 0)
    /\ UNCHANGED <<images, faults>>

\* The container is killed: its node is drained, its Job deleted.
Killed(r) ==
    /\ proc[r].pc \in Running
    /\ Fault /\ Exit(r, 137)
    /\ UNCHANGED images

main(r) ==
    \/ CheckArgs(r) \/ SetupFails(r) \/ GetImageByName(r) \/ WalkLayer(r) \/ CheckKmods(r)
    \/ AddSignedLayer(r) \/ WriteImageByName(r) \/ ExitDone(r)

=============================================================================
