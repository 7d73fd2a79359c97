--------------------------- MODULE UpdateContract ---------------------------
(***************************************************************************)
(* What an A/B firmware update promises, without pages or progress marks:  *)
(* one confirmed image and at most one candidate.  The candidate is run    *)
(* once; it either confirms itself in that run or never runs again         *)
(* ("automatic revert", README.md:20).                                     *)
(***************************************************************************)
CONSTANTS Images, NoImage, Factory, Healthy

VARIABLES
  confirmed,  \* the image the device falls back to
  candidate,  \* the image of the last update
  stage,      \* of that update: "settled", "requested" or "trial"
  running     \* the image being executed, NoImage during a boot

vars == <<confirmed, candidate, stage, running>>

Init ==
  /\ confirmed = Factory /\ candidate = Factory
  /\ stage = "settled" /\ running = NoImage

\* A boot with nothing pending runs the confirmed image.
Start ==
  /\ stage = "settled" /\ running = NoImage
  /\ running' = confirmed
  /\ UNCHANGED <<confirmed, candidate, stage>>

\* Only a healthy confirmed image takes updates; it ends in a reset.
Request(img) ==
  /\ stage = "settled" /\ running = confirmed /\ confirmed \in Healthy
  /\ candidate' = img
  /\ stage' = "requested"
  /\ running' = NoImage
  /\ UNCHANGED confirmed

Install ==
  /\ stage = "requested" /\ running = NoImage
  /\ stage' = "trial" /\ running' = candidate
  /\ UNCHANGED <<confirmed, candidate>>

Confirm ==
  /\ stage = "trial" /\ running = candidate /\ candidate \in Healthy
  /\ stage' = "settled" /\ confirmed' = candidate
  /\ UNCHANGED <<candidate, running>>

RollBack ==
  /\ stage = "trial" /\ running = NoImage
  /\ stage' = "settled"
  /\ UNCHANGED <<confirmed, candidate, running>>

Reset ==
  /\ running # NoImage
  /\ running' = NoImage
  /\ UNCHANGED <<confirmed, candidate, stage>>

Next ==
  \/ Start \/ Install \/ Confirm \/ RollBack \/ Reset
  \/ \E img \in Images : Request(img)

Spec == Init /\ [][Next]_vars
=============================================================================
