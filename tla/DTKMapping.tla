----------------------------- MODULE DTKMapping -----------------------------
(***************************************************************************)
(* internal/syncronizedmap: which Driver Toolkit image builds for a kernel  *)
(* start from.  Two maps, kernel to OS and OS to image, live in the memory  *)
(* of the process.  The two mutexes make each operation atomic.             *)
(***************************************************************************)
CONSTANTS
    MappedKernels,  \* keys of kernelToOs
    OSVersions,     \* OS versions of nodes and of releases
    DTKImages,      \* Driver Toolkit images
    NotMapped       \* a key that is not in a map

DTKMaps ==
    [kernelToOs : [MappedKernels -> OSVersions \cup {NotMapped}],
     osToDtk : [OSVersions -> DTKImages \cup {NotMapped}]]

NewKernelOsDtkMapping ==
    [kernelToOs |-> [k \in MappedKernels |-> NotMapped],
     osToDtk |-> [os \in OSVersions |-> NotMapped]]

SetNodeInfo(maps, k, os) == [maps EXCEPT !.kernelToOs[k] = os]

SetImageStreamInfo(maps, os, image) == [maps EXCEPT !.osToDtk[os] = image]

\* NotMapped stands for the error.
GetImage(maps, k) ==
    IF maps.kernelToOs[k] = NotMapped THEN NotMapped
    ELSE maps.osToDtk[maps.kernelToOs[k]]

=============================================================================
