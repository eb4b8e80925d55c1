---------------------------- MODULE FrameChannel ----------------------------
(***************************************************************************)
(* What the shared-memory image channel promises its clients               *)
(* (Camera/CamDataInterface.h: "clients only read each image once, and     *)
(* don't read the image while it is being written"): one place that holds  *)
(* the newest image, and readers that each take a whole image, at most     *)
(* once.  Images are numbered in the order the camera produces them.  An   *)
(* image handed out twice would be a stuttering step here: that this does  *)
(* not happen is CamData's ReadOnce.                                       *)
(***************************************************************************)
EXTENDS Naturals

CONSTANT Readers

VARIABLES
    published,  \* number of the image the channel holds, 0 before the first
    read        \* read[r]: number of the last image handed to reader r

chanVars == <<published, read>>

Init == published = 0 /\ read = [r \in Readers |-> 0]

\* A newer image replaces the one in the channel; images may be skipped.
Publish ==
    /\ published' \in Nat
    /\ published' > published
    /\ UNCHANGED read

\* A reader takes the image of the channel, one it has not had before.
Deliver(r) ==
    /\ published > read[r]
    /\ read' = [read EXCEPT ![r] = published]
    /\ UNCHANGED published

Next == Publish \/ \E r \in Readers : Deliver(r)

Spec == Init /\ [][Next]_chanVars
=============================================================================
