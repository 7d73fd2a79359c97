------------------------------ MODULE AbUpdate ------------------------------
(***************************************************************************)
(* A firmware update from the first chunk to its confirmation: the updater *)
(* of src/fw_update.rs stages and marks an image, the bootloader swaps it  *)
(* in, and the first telemetry tick of the new firmware (main.rs:287-299)  *)
(* confirms it.  Power may fail, and the watchdog may fire, between any    *)
(* two flash operations of the three.                                      *)
(***************************************************************************)
EXTENDS Bootloader

CONSTANTS
  Factory,  \* the image installed with the bootloader
  Healthy   \* the images that reach their main loop and keep feeding the watchdog

ASSUME FactoryAssumption == Factory \in Healthy
ASSUME HealthyAssumption == Healthy \subseteq Images

VARIABLES
  boot_confirmed,  \* the first tick of this boot has passed
  session,         \* the update being received
  confirmed,       \* history: the last image that confirmed itself
  candidate        \* history: the image of the last update marked

vars == <<active, dfu, magic, pvalid, progress, pc, goal,
          boot_confirmed, session, confirmed, candidate>>

\* What the sender means to send, the bytes staged so far in pages, the page in
\* the receive buffer, and whether the running CRC is that of the image so far.
Session == [image : Images \cup {NoImage}, offset : 0 .. N, chunk : Page, crc_ok : BOOLEAN]
NoSession == [image |-> NoImage, offset |-> 0, chunk |-> Garbage, crc_ok |-> TRUE]

RunsHealthy == \E img \in Healthy : Intact(img, active)
Hangs == pc = "app" /\ ~RunsHealthy

-----------------------------------------------------------------------------

Init ==
  /\ active = [i \in Part |-> IF i < Size[Factory] THEN PartOf(Factory, i) ELSE Garbage]
  /\ dfu = [i \in 0 .. N |-> Garbage]
  /\ magic = "Erased" /\ pvalid = TRUE /\ progress = 0
  /\ pc = "reset" /\ goal = "Boot"
  /\ boot_confirmed = FALSE /\ session = NoSession
  /\ confirmed = Factory /\ candidate = Factory

\* Mutant of ConfirmBoot: the swap is not confirmed.
TickOnly ==
  /\ pc = "app" /\ RunsHealthy /\ ~boot_confirmed
  /\ boot_confirmed' = TRUE
  /\ UNCHANGED <<active, dfu, magic, pvalid, progress, pc, goal,
                 session, confirmed, candidate>>

\* The first telemetry tick: the image is confirmed only when a swap has happened.
ConfirmBoot ==
  /\ pc = "app" /\ RunsHealthy /\ ~boot_confirmed
  /\ boot_confirmed' = TRUE
  /\ IF GetState = "Swap" THEN StoreMagic("Boot") ELSE UNCHANGED <<pc, goal>>
  /\ UNCHANGED <<active, dfu, magic, pvalid, progress, session, confirmed, candidate>>

\* Mutant of BeginUpdate: accepted in the middle of a swap.
BeginAnyUpdate ==
  /\ pc = "app" /\ RunsHealthy
  /\ \E img \in Images : session' = [NoSession EXCEPT !.image = img]
  /\ pc' = "recv"
  /\ UNCHANGED <<active, dfu, magic, pvalid, progress, goal,
                 boot_confirmed, confirmed, candidate>>

\* FW_UPDATE up to RECV: refused in the middle of a swap.
BeginUpdate ==
  /\ pc = "app" /\ RunsHealthy
  /\ GetState \in {"Boot", "Revert", "DfuDetach"}
  /\ \E img \in Images : session' = [NoSession EXCEPT !.image = img]
  /\ pc' = "recv"
  /\ UNCHANGED <<active, dfu, magic, pvalid, progress, goal,
                 boot_confirmed, confirmed, candidate>>

\* Mutant of ReceiveChunk: one chunk too many.
ReceiveExtraChunk ==
  /\ pc = "recv" /\ session.offset <= Size[session.image]
  /\ session' = [session EXCEPT !.chunk = PartOf(session.image, session.offset)]
  /\ dfu' = [dfu EXCEPT ![session.offset] = Garbage]
  /\ pc' = "stage"
  /\ UNCHANGED <<active, magic, pvalid, progress, goal,
                 boot_confirmed, confirmed, candidate>>

\* A chunk arrives, as sent or corrupted, and its sector is erased.
ReceiveChunk ==
  /\ pc = "recv" /\ session.offset < Size[session.image]
  /\ \E chunk \in {PartOf(session.image, session.offset), Garbage} :
       session' = [session EXCEPT !.chunk = chunk, !.crc_ok = @ /\ chunk # Garbage]
  /\ dfu' = [dfu EXCEPT ![session.offset] = Garbage]
  /\ pc' = "stage"
  /\ UNCHANGED <<active, magic, pvalid, progress, goal,
                 boot_confirmed, confirmed, candidate>>

\* The chunk is programmed and acknowledged; the flash may fail to take it.
StageChunk ==
  /\ pc = "stage"
  /\ \E landed \in {session.chunk, Garbage} : dfu' = [dfu EXCEPT ![session.offset] = landed]
  /\ session' = [session EXCEPT !.offset = @ + 1, !.chunk = Garbage]
  /\ pc' = "recv"
  /\ UNCHANGED <<active, magic, pvalid, progress, goal,
                 boot_confirmed, confirmed, candidate>>

\* A timeout of the sender, or a CRC that is not the image's: back to the main loop.
AbortUpdate ==
  /\ pc = "recv"
  /\ session' = NoSession
  /\ pc' = "app"
  /\ UNCHANGED <<active, dfu, magic, pvalid, progress, goal,
                 boot_confirmed, confirmed, candidate>>

\* The sender's CRC arrives: the update is marked only when the received bytes
\* and the bytes read back from DFU both have it.
CheckImage ==
  /\ pc = "recv" /\ session.offset = Size[session.image]
  /\ session.crc_ok
  /\ Intact(session.image, dfu)
  /\ StoreMagic("Swap")
  /\ UNCHANGED <<active, dfu, magic, pvalid, progress,
                 boot_confirmed, session, confirmed, candidate>>

\* mark_booted makes the image the confirmed one with its first write: from then
\* on a boot finds the progress invalid and reverts nothing.
InvalidateProgress ==
  /\ Invalidate
  /\ confirmed' = IF goal = "Boot" THEN candidate ELSE confirmed
  /\ UNCHANGED <<boot_confirmed, session, candidate>>

ClearStateSector == ClearState /\ UNCHANGED <<boot_confirmed, session, confirmed, candidate>>

\* mark_updated ends in a reset; RAM is lost with it.
SetMagic ==
  /\ WriteMagic
  /\ IF goal = "Swap"
       THEN /\ candidate' = session.image
            /\ session' = NoSession /\ boot_confirmed' = FALSE
       ELSE UNCHANGED <<candidate, session, boot_confirmed>>
  /\ UNCHANGED confirmed

Boot == BootStep /\ UNCHANGED <<boot_confirmed, session, confirmed, candidate>>

ToReset ==
  /\ pc' = "reset" /\ goal' = "Boot"
  /\ boot_confirmed' = FALSE /\ session' = NoSession
  /\ UNCHANGED <<active, dfu, magic, pvalid, progress, confirmed, candidate>>

\* The watchdog the bootloader armed bites firmware that waits and has not fed it in
\* time: an image that hangs, or one that works and is kept from its first tick
\* by commands.  MainLoop has the clock and says when that is.
Watchdog == pc \in {"app", "recv"} /\ ToReset

\* A power cut, a panic or any other reset, at any moment.
PowerLoss == pc # "reset" /\ ToReset

Next ==
  \/ Boot \/ InvalidateProgress \/ ClearStateSector \/ SetMagic
  \/ ConfirmBoot \/ BeginUpdate \/ ReceiveChunk \/ StageChunk \/ AbortUpdate \/ CheckImage
  \/ Watchdog \/ PowerLoss

Spec == Init /\ [][Next]_vars

\* The processor executes what it has begun; the ticker and the receive timeout
\* fire; the watchdog must bite an image that never feeds it, and only such a one.
FairSpec ==
  /\ Spec
  /\ WF_vars(Boot) /\ WF_vars(InvalidateProgress) /\ WF_vars(ClearStateSector)
  /\ WF_vars(SetMagic) /\ WF_vars(StageChunk) /\ WF_vars(AbortUpdate)
  /\ WF_vars(ConfirmBoot) /\ WF_vars(Hangs /\ Watchdog)

-----------------------------------------------------------------------------
(* Properties                                                              *)

TypeOK ==
  /\ active \in [Part -> Page]
  /\ dfu \in [0 .. N -> Page]
  /\ magic \in {"Erased", "Boot", "Swap", "Revert"}
  /\ pvalid \in BOOLEAN
  /\ progress \in 0 .. Reverted
  /\ pc \in {"reset", "app", "recv", "stage"} \cup Copying \cup StoringMagic
  /\ goal \in {"Boot", "Swap", "Revert"}
  /\ boot_confirmed \in BOOLEAN
  /\ session \in Session
  /\ confirmed \in Images /\ candidate \in Images

\* The firmware is executing, rather than the bootloader.
AppRuns == \/ pc \in {"app", "recv", "stage"}
           \/ pc \in StoringMagic /\ goal # "Revert"

\* A swap is on record and not given up.
Stage == IF magic # "Swap" \/ ~pvalid THEN "settled"
         ELSE IF progress < Swapped THEN "requested" ELSE "trial"

\* Between whatever two flash operations the chip is interrupted, the pages it
\* executes are one whole image, the confirmed one unless an update is on trial: the
\* swap "is resumable across power loss at any point" (fw_update.rs:30-31), staging
\* never destroys the pages a revert needs, and nothing unverified is marked.
RunsWholeImage ==
  AppRuns => Intact(IF Stage = "trial" THEN candidate ELSE confirmed, active)

\* The image being executed, NoImage when it is not a whole one.
Running == IF AppRuns /\ \E img \in Images : Intact(img, active)
             THEN CHOOSE img \in Images : Intact(img, active)
             ELSE NoImage

\* Every step is a step of the update contract, or invisible to it.
Contract == INSTANCE UpdateContract WITH stage <- Stage, running <- Running
ImplementsContract == Contract!Spec

\* Once only images that hang are reset, every update that is marked is decided,
\* and a device on a broken image comes back to a healthy one ("a crashing update
\* rolls back automatically", bootloader/src/main.rs:7-8).
AlwaysRecovers ==
  <>[][PowerLoss => Hangs]_vars => []<>(Stage = "settled" /\ AppRuns /\ RunsHealthy)
=============================================================================
