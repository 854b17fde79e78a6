---------------------------- MODULE ReceiptErasure ----------------------------
(***************************************************************************)
(* What an owner is promised about the images of a receipt, with no jobs   *)
(* or workers in sight: none is deleted before somebody asked for it, a    *)
(* receipt once condemned never comes back, and it is gone only when all   *)
(* its images are.                                                         *)
(***************************************************************************)
CONSTANTS Receipts, Images

VARIABLES fate, image

erasureVars == <<fate, image>>

Fates == {"held", "detaching", "condemned", "gone"}

ErasureInit ==
    /\ fate = [r \in Receipts |-> "held"]
    /\ image = [r \in Receipts |-> Images]

Turn(r, from, to) ==
    /\ fate[r] \in from
    /\ fate' = [fate EXCEPT ![r] = to]
    /\ UNCHANGED image

\* Its owner keeps the books but gives the images up.
Release(r) == Turn(r, {"held"}, "detaching")

Condemn(r) == Turn(r, {"held", "detaching"}, "condemned")

EraseImage(r, i) ==
    /\ fate[r] \in {"detaching", "condemned"}
    /\ image' = [image EXCEPT ![r] = @ \ {i}]
    /\ UNCHANGED fate

Vanish(r) == image[r] = {} /\ Turn(r, {"detaching", "condemned"}, "gone")

ErasureNext ==
    \E r \in Receipts :
        \/ Release(r) \/ Condemn(r) \/ Vanish(r)
        \/ \E i \in Images : EraseImage(r, i)

ErasureSpec == ErasureInit /\ [][ErasureNext]_erasureVars
=============================================================================
