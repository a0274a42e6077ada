------------------------------ MODULE Registry ------------------------------
(***************************************************************************)
(* internal/registry: images as stacks of layers, what the operator and the *)
(* signing tool read of them, and what a container started from them sees.  *)
(* A layer is a tar archive; its entries are files, or whiteouts that hide  *)
(* the file of a lower layer.                                               *)
(***************************************************************************)
EXTENDS Integers, FiniteSets, FiniteSetsExt, Sequences

CONSTANTS
    Files,     \* names of tar entries ("opt/a.ko", "./opt/a.ko", "/opt/a.ko")
    Canon,     \* the absolute, clean path of each name
    Versions,  \* what tells two builds of a file apart
    NoEntry,   \* no entry of that name
    Whiteout,  \* the entry that removes a file
    NoImage    \* no image of that name

Content == [version : Versions, signed : BOOLEAN]

Layer == [Files -> Content \cup {NoEntry, Whiteout}]

Image == Seq(Layer)

Canonical == {p \in Files : Canon[p] = p}

ASSUME RegistryAssumption ==
    /\ Canon \in [Files -> Files] /\ \A f \in Files : Canon[f] \in Canonical
    /\ {NoEntry, Whiteout} \cap Content = {} /\ NoEntry # Whiteout
    /\ NoImage \notin Image

-----------------------------------------------------------------------------
(* What the container runtime mounts: of the layers with an entry for a path, *)
(* whichever way they spell it, the topmost decides.                         *)

Spellings(layer, p) == {f \in Files : Canon[f] = p /\ layer[f] # NoEntry}

LayersWith(img, p) == {i \in DOMAIN img : Spellings(img[i], p) # {}}

Entry(layer, p) == layer[CHOOSE f \in Spellings(layer, p) : TRUE]

Mounted(img, p) ==
    LET with == LayersWith(img, p)
        e    == Entry(img[Max(with)], p)
    IN  IF with = {} \/ e = Whiteout THEN NoEntry ELSE e

-----------------------------------------------------------------------------
(* internal/registry/registry.go                                            *)

\* Mutant: the layer is added to an empty image.
AddLayerToImageEmpty(layer, img) == <<layer>>

\* A layer of the same media type as the last one goes on top.
AddLayerToImage(layer, img) == Append(img, layer)

\* getHeaderReaderFromLayer compares names as they are spelled.
VerifyModuleExists(layer, f) == layer[f] \in Content

\* preflight's verifyImage: any layer will do.
verifyImage(img, f) ==
    img # NoImage /\ \E i \in DOMAIN img : VerifyModuleExists(img[i], f)

=============================================================================
