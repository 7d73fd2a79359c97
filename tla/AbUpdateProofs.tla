--------------------------- MODULE AbUpdateProofs ---------------------------
(***************************************************************************)
(* For every partition size and every set of images: the pages the chip    *)
(* executes are one whole image, and AbUpdate implements UpdateContract.   *)
(*                                                                         *)
(* The inductive invariant says where the pages of the confirmed and of    *)
(* the candidate image are after `progress` recorded copies, except for    *)
(* the page the next copy overwrites, which may hold anything.             *)
(***************************************************************************)
EXTENDS AbUpdate, TLAPS

\* A page that carries part i of the image, or lies behind its end.
Carries(page, img, i) == i < Size[img] => page = PartOf(img, i)

\* Page i of ACTIVE is overwritten by copy 2(N-1-i)+1 of the swap and by copy
\* 2i+1 of the revert.
ActiveLayout(p) ==
  \A i \in Part :
    /\ p < 2 * (N - 1 - i) + 1 \/ Swapped + 2 * i + 1 < p => Carries(active[i], confirmed, i)
    /\ 2 * (N - 1 - i) + 1 < p /\ p < Swapped + 2 * i + 1 => Carries(active[i], candidate, i)

\* Page j of DFU is overwritten by copies 2(N-j) of the swap and 2j of the revert.
DfuLayout(p) ==
  \A j \in 0 .. N :
    /\ p < 2 * (N - j) => Carries(dfu[j], candidate, j)
    /\ j > 0 /\ 2 * (N - j) < p /\ p < Swapped + 2 * j => Carries(dfu[j], confirmed, j - 1)

Layout(p) == ActiveLayout(p) /\ DfuLayout(p)

Staged == session.image \in Images /\ Intact(session.image, dfu)

\* What each place in the three programs knows about the state partition.
ControlInv ==
  /\ pc = "app" /\ magic = "Swap" => pvalid /\ progress = Swapped
  /\ pc \in {"recv", "stage"} => magic # "Swap" /\ session.image \in Images
  /\ pc = "stage" => session.offset < Size[session.image]
  /\ pc \in Copying => magic = "Swap" /\ pvalid /\ progress < Reverted
  /\ pc = "invalidate" =>
       /\ goal = "Boot" => magic = "Swap" /\ pvalid /\ progress = Swapped
       /\ goal = "Swap" => magic # "Swap" /\ Staged
       /\ goal = "Revert" => magic = "Swap" /\ (pvalid => progress = Reverted)
  /\ pc = "clear" => ~pvalid /\ (goal = "Swap" => magic # "Swap" /\ Staged)
  /\ pc = "magic" => magic = "Erased" /\ pvalid /\ progress = 0 /\ (goal = "Swap" => Staged)

DataInv ==
  /\ magic # "Swap" \/ ~pvalid => Intact(confirmed, active)
  /\ magic = "Swap" /\ pvalid => Layout(progress)
  /\ pc = "record" => Layout(progress + 1)

IInv == TypeOK /\ ControlInv /\ DataInv

-----------------------------------------------------------------------------
(* Types                                                                   *)

LEMMA Sizes == ASSUME NEW img \in Images PROVE Size[img] \in 1 .. N
BY SizeAssumption

LEMMA PageTypes ==
  /\ Garbage \in Page
  /\ \A img \in Images, i \in Part : PartOf(img, i) \in Page
BY DEF Garbage, Page, PartOf

LEMMA SessionTypes ==
  /\ NoSession \in Session
  /\ \A s \in Session : /\ s.image \in Images \cup {NoImage} /\ s.offset \in 0 .. N
                       /\ s.chunk \in Page /\ s.crc_ok \in BOOLEAN
BY PageTypes, NAssumption DEF NoSession, Session

LEMMA HealthyImages == Factory \in Images /\ Healthy \subseteq Images
BY FactoryAssumption, HealthyAssumption

-----------------------------------------------------------------------------
(* The page copies                                                         *)

\* A copy only disturbs the page the layout says nothing about, and once it is
\* complete the layout of the next copy holds too.
LEMMA CopyKeepsLayout ==
  ASSUME TypeOK, progress < Reverted, Layout(progress), CopyPage,
         UNCHANGED <<confirmed, candidate>>
  PROVE  /\ active' \in [Part -> Page] /\ dfu' \in [0 .. N -> Page]
         /\ Layout(progress)'
         /\ pc' = "record" => Layout(progress + 1)'
<1> USE NAssumption
<1>0. /\ N \in Nat \ {0} /\ progress \in Nat /\ Swapped = 2 * N /\ Reverted = 4 * N
      /\ active \in [Part -> Page] /\ dfu \in [0 .. N -> Page] /\ Garbage \in Page
  BY PageTypes DEF TypeOK, Swapped, Reverted
<1>1. /\ pc \in {"erase", "write"} /\ (pc' = "record" <=> pc = "write")
      /\ progress' = progress /\ confirmed' = confirmed /\ candidate' = candidate
  BY DEF CopyPage
<1>2. PICK i \in Part :
        \/ progress = 2 * (N - 1 - i) /\ ToDfu(i, i + 1)
        \/ progress = 2 * (N - 1 - i) + 1 /\ ToActive(i, i)
        \/ progress = Swapped + 2 * i /\ ToDfu(i, i)
        \/ progress = Swapped + 2 * i + 1 /\ ToActive(i + 1, i)
  BY DEF CopyPage
<1>3. i \in Nat /\ i < N /\ Part = 0 .. N - 1
  BY DEF Part
<1>4. CASE progress = 2 * (N - 1 - i) /\ ToDfu(i, i + 1)
  <2>1. /\ active' = active
        /\ dfu' = [dfu EXCEPT ![i + 1] = IF pc = "erase" THEN Garbage ELSE active[i]]
    BY <1>4 DEF ToDfu, Put
  <2>2. dfu' \in [0 .. N -> Page] /\ \A j \in 0 .. N : j # i + 1 => dfu'[j] = dfu[j]
    BY <2>1, <1>0, <1>3
  <2>3. Carries(active[i], confirmed, i)
    BY <1>0, <1>3, <1>4 DEF Layout, ActiveLayout
  <2>4. pc = "write" => Carries(dfu'[i + 1], confirmed, i)
    BY <2>1, <2>3, <1>0, <1>3
  <2>5. Layout(progress)'
    BY <2>1, <2>2, <1>0, <1>1, <1>3, <1>4 DEF Layout, ActiveLayout, DfuLayout, Carries
  <2>6. pc = "write" => Layout(progress + 1)'
    <3> SUFFICES ASSUME pc = "write" PROVE ActiveLayout(progress + 1)' /\ DfuLayout(progress + 1)'
      BY DEF Layout
    <3>1. ActiveLayout(progress + 1)'
      BY <2>1, <1>0, <1>1, <1>3, <1>4 DEF Layout, ActiveLayout, Carries
    <3>2. DfuLayout(progress + 1)'
      BY <2>2, <2>4, <1>0, <1>1, <1>3, <1>4 DEF Layout, DfuLayout, Carries
    <3> QED BY <3>1, <3>2
  <2> QED BY <2>1, <2>2, <2>5, <2>6, <1>0, <1>1
<1>5. CASE progress = 2 * (N - 1 - i) + 1 /\ ToActive(i, i)
  <2>1. /\ dfu' = dfu
        /\ active' = [active EXCEPT ![i] = IF pc = "erase" THEN Garbage ELSE dfu[i]]
    BY <1>5 DEF ToActive, Put
  <2>2. active' \in [Part -> Page] /\ \A j \in Part : j # i => active'[j] = active[j]
    BY <2>1, <1>0, <1>3
  <2>3. Carries(dfu[i], candidate, i)
    BY <1>0, <1>3, <1>5 DEF Layout, DfuLayout
  <2>4. pc = "write" => Carries(active'[i], candidate, i)
    BY <2>1, <2>3, <1>0, <1>3
  <2>5. Layout(progress)'
    BY <2>1, <2>2, <1>0, <1>1, <1>3, <1>5 DEF Layout, ActiveLayout, DfuLayout, Carries
  <2>6. pc = "write" => Layout(progress + 1)'
    <3> SUFFICES ASSUME pc = "write" PROVE ActiveLayout(progress + 1)' /\ DfuLayout(progress + 1)'
      BY DEF Layout
    <3>1. ActiveLayout(progress + 1)'
      BY <2>2, <2>4, <1>0, <1>1, <1>3, <1>5 DEF Layout, ActiveLayout, Carries
    <3>2. DfuLayout(progress + 1)'
      BY <2>1, <1>0, <1>1, <1>3, <1>5 DEF Layout, DfuLayout, Carries
    <3> QED BY <3>1, <3>2
  <2> QED BY <2>1, <2>2, <2>5, <2>6, <1>0, <1>1
<1>6. CASE progress = Swapped + 2 * i /\ ToDfu(i, i)
  <2>1. /\ active' = active
        /\ dfu' = [dfu EXCEPT ![i] = IF pc = "erase" THEN Garbage ELSE active[i]]
    BY <1>6 DEF ToDfu, Put
  <2>2. dfu' \in [0 .. N -> Page] /\ \A j \in 0 .. N : j # i => dfu'[j] = dfu[j]
    BY <2>1, <1>0, <1>3
  <2>5. Layout(progress)'
    BY <2>1, <2>2, <1>0, <1>1, <1>3, <1>6 DEF Layout, ActiveLayout, DfuLayout, Carries
  <2>6. Layout(progress + 1)'
    <3>1. ActiveLayout(progress + 1)'
      BY <2>1, <1>0, <1>1, <1>3, <1>6 DEF Layout, ActiveLayout, Carries
    <3>2. DfuLayout(progress + 1)'
      BY <2>2, <1>0, <1>1, <1>3, <1>6 DEF Layout, DfuLayout, Carries
    <3> QED BY <3>1, <3>2 DEF Layout
  <2> QED BY <2>1, <2>2, <2>5, <2>6, <1>0, <1>1
<1>7. CASE progress = Swapped + 2 * i + 1 /\ ToActive(i + 1, i)
  <2>1. /\ dfu' = dfu
        /\ active' = [active EXCEPT ![i] = IF pc = "erase" THEN Garbage ELSE dfu[i + 1]]
    BY <1>7 DEF ToActive, Put
  <2>2. active' \in [Part -> Page] /\ \A j \in Part : j # i => active'[j] = active[j]
    BY <2>1, <1>0, <1>3
  <2>3. Carries(dfu[i + 1], confirmed, i)
    BY <1>0, <1>3, <1>7 DEF Layout, DfuLayout
  <2>4. pc = "write" => Carries(active'[i], confirmed, i)
    BY <2>1, <2>3, <1>0, <1>3
  <2>5. Layout(progress)'
    BY <2>1, <2>2, <1>0, <1>1, <1>3, <1>7 DEF Layout, ActiveLayout, DfuLayout, Carries
  <2>6. pc = "write" => Layout(progress + 1)'
    <3> SUFFICES ASSUME pc = "write" PROVE ActiveLayout(progress + 1)' /\ DfuLayout(progress + 1)'
      BY DEF Layout
    <3>1. ActiveLayout(progress + 1)'
      BY <2>2, <2>4, <1>0, <1>1, <1>3, <1>7 DEF Layout, ActiveLayout, Carries
    <3>2. DfuLayout(progress + 1)'
      BY <2>1, <1>0, <1>1, <1>3, <1>7 DEF Layout, DfuLayout, Carries
    <3> QED BY <3>1, <3>2
  <2> QED BY <2>1, <2>2, <2>5, <2>6, <1>0, <1>1
<1> QED BY <1>2, <1>4, <1>5, <1>6, <1>7

\* Before the first copy, at the end of the swap and at the end of the revert the
\* layout is: old image and new image in their slots, new image in ACTIVE, old
\* image in ACTIVE.
LEMMA LayoutEnds ==
  ASSUME TypeOK
  PROVE  /\ Intact(confirmed, active) /\ Intact(candidate, dfu) => Layout(0)
         /\ Layout(Swapped) => Intact(candidate, active)
         /\ Layout(Reverted) => Intact(confirmed, active)
<1>0. /\ N \in Nat \ {0} /\ Swapped = 2 * N /\ Reverted = 4 * N /\ Part = 0 .. N - 1
      /\ Size[confirmed] \in 1 .. N /\ Size[candidate] \in 1 .. N
  BY NAssumption, Sizes DEF TypeOK, Swapped, Reverted, Part
<1>1. Intact(confirmed, active) /\ Intact(candidate, dfu) => Layout(0)
  BY <1>0 DEF Layout, ActiveLayout, DfuLayout, Carries, Intact
<1>2. Layout(Swapped) => Intact(candidate, active)
  BY <1>0 DEF Layout, ActiveLayout, Carries, Intact
<1>3. Layout(Reverted) => Intact(confirmed, active)
  BY <1>0 DEF Layout, ActiveLayout, Carries, Intact
<1> QED BY <1>1, <1>2, <1>3

-----------------------------------------------------------------------------
(* The invariant                                                           *)

LEMMA InvInit == Init => IInv
<1> SUFFICES ASSUME Init PROVE TypeOK /\ ControlInv /\ DataInv
  BY DEF IInv
<1>1. Size[Factory] \in 1 .. N /\ Factory \in Images /\ N \in Nat \ {0} /\ Part = 0 .. N - 1
  BY Sizes, HealthyImages, NAssumption DEF Part
<1>2. active \in [Part -> Page] /\ Intact(Factory, active)
  <2>1. active = [i \in Part |-> IF i < Size[Factory] THEN PartOf(Factory, i) ELSE Garbage]
    BY DEF Init
  <2>2. \A i \in Part : (IF i < Size[Factory] THEN PartOf(Factory, i) ELSE Garbage) \in Page
    BY <1>1, PageTypes
  <2>3. \A i \in 0 .. Size[Factory] - 1 : i \in Part /\ i < Size[Factory]
    BY <1>1
  <2> QED BY <2>1, <2>2, <2>3 DEF Intact
<1>3. TypeOK
  <2>1. dfu \in [0 .. N -> Page] /\ progress \in 0 .. Reverted
    BY <1>1, PageTypes DEF Init, Reverted
  <2> QED BY <1>1, <1>2, <2>1, SessionTypes DEF Init, TypeOK
<1>4. ControlInv /\ DataInv
  BY <1>2 DEF Init, ControlInv, DataInv, Copying
<1> QED BY <1>3, <1>4

\* The firmware's own steps leave the state partition and ACTIVE alone.
LEMMA AppKeepsInv ==
  ASSUME IInv,
         ConfirmBoot \/ BeginUpdate \/ ReceiveChunk \/ StageChunk \/ AbortUpdate \/ CheckImage
  PROVE  IInv'
<1>0. TypeOK /\ ControlInv /\ DataInv
  BY DEF IInv
<1>1. CASE ConfirmBoot
  <2>1. TypeOK'
    BY <1>0, <1>1 DEF ConfirmBoot, TypeOK, StoreMagic, StoringMagic
  <2>2. ControlInv'
    BY <1>0, <1>1 DEF ConfirmBoot, ControlInv, StoreMagic, GetState, Copying, Staged
  <2>3. DataInv'
    BY <1>0, <1>1 DEF ConfirmBoot, DataInv, StoreMagic, Layout, ActiveLayout, DfuLayout
  <2> QED BY <2>1, <2>2, <2>3 DEF IInv
<1>2. CASE BeginUpdate
  <2>1. PICK img \in Images : session' = [NoSession EXCEPT !.image = img]
    BY <1>2 DEF BeginUpdate
  <2>2. session' \in Session /\ session'.image = img
    BY <2>1, SessionTypes DEF Session, NoSession
  <2>3. TypeOK'
    BY <1>0, <1>2, <2>2 DEF BeginUpdate, TypeOK
  <2>4. ControlInv'
    BY <1>0, <1>2, <2>2 DEF BeginUpdate, ControlInv, GetState, Copying
  <2>5. DataInv'
    BY <1>0, <1>2 DEF BeginUpdate, DataInv, Layout, ActiveLayout, DfuLayout
  <2> QED BY <2>3, <2>4, <2>5 DEF IInv
<1>3. CASE ReceiveChunk
  <2>1. /\ pc = "recv" /\ pc' = "stage" /\ session.offset < Size[session.image]
        /\ session.image \in Images /\ session.offset \in Part
    BY <1>0, <1>3, SessionTypes, Sizes, NAssumption DEF ReceiveChunk, ControlInv, TypeOK, Part
  <2>2. /\ session' \in Session
        /\ session'.image = session.image /\ session'.offset = session.offset
    <3>1. PICK chunk \in {PartOf(session.image, session.offset), Garbage} :
            session' = [session EXCEPT !.chunk = chunk, !.crc_ok = @ /\ chunk # Garbage]
      BY <1>3 DEF ReceiveChunk
    <3>2. chunk \in Page
      BY <2>1, <3>1, PageTypes
    <3> QED BY <1>0, <3>1, <3>2 DEF TypeOK, Session
  <2>3. TypeOK'
    BY <1>0, <1>3, <2>2, PageTypes DEF ReceiveChunk, TypeOK
  <2>4. ControlInv'
    BY <1>0, <1>3, <2>1, <2>2 DEF ReceiveChunk, ControlInv, Copying
  <2>5. DataInv'
    BY <1>0, <1>3, <2>1 DEF ReceiveChunk, DataInv, ControlInv
  <2> QED BY <2>3, <2>4, <2>5 DEF IInv
<1>4. CASE StageChunk
  <2>1. /\ pc = "stage" /\ pc' = "recv" /\ session.offset < Size[session.image]
        /\ session.image \in Images /\ magic # "Swap" /\ session.offset + 1 \in 0 .. N
    BY <1>0, <1>4, SessionTypes, Sizes, NAssumption DEF StageChunk, ControlInv, TypeOK
  <2>2. session' \in Session /\ session'.image = session.image
    BY <1>0, <1>4, <2>1, PageTypes, SessionTypes DEF StageChunk, TypeOK, Session
  <2>3. TypeOK'
    BY <1>0, <1>4, <2>2, PageTypes, SessionTypes DEF StageChunk, TypeOK
  <2>4. ControlInv'
    BY <1>0, <1>4, <2>1, <2>2 DEF StageChunk, ControlInv, Copying
  <2>5. DataInv'
    BY <1>0, <1>4, <2>1 DEF StageChunk, DataInv, ControlInv
  <2> QED BY <2>3, <2>4, <2>5 DEF IInv
<1>5. CASE AbortUpdate
  <2>1. TypeOK'
    BY <1>0, <1>5, SessionTypes DEF AbortUpdate, TypeOK
  <2>2. ControlInv' /\ DataInv'
    BY <1>0, <1>5 DEF AbortUpdate, ControlInv, DataInv, Copying
  <2> QED BY <2>1, <2>2 DEF IInv
<1>6. CASE CheckImage
  <2>1. TypeOK'
    BY <1>0, <1>6 DEF CheckImage, TypeOK, StoreMagic, StoringMagic
  <2>2. ControlInv' /\ DataInv'
    BY <1>0, <1>6 DEF CheckImage, StoreMagic, ControlInv, DataInv, Copying, Staged, Intact
  <2> QED BY <2>1, <2>2 DEF IInv
<1> QED BY <1>1, <1>2, <1>3, <1>4, <1>5, <1>6

\* Storing a magic word confirms, requests or gives up an update.
LEMMA StateKeepsInv ==
  ASSUME IInv, InvalidateProgress \/ ClearStateSector \/ SetMagic
  PROVE  IInv'
<1>0. TypeOK /\ ControlInv /\ DataInv
  BY DEF IInv
<1>1. CASE InvalidateProgress
  <2>1. /\ pc = "invalidate" /\ pc' = "clear" /\ pvalid' = FALSE
        /\ UNCHANGED <<active, dfu, magic, progress, goal, boot_confirmed, session, candidate>>
        /\ confirmed' = IF goal = "Boot" THEN candidate ELSE confirmed
    BY <1>1 DEF InvalidateProgress, Invalidate
  <2>2. TypeOK'
    BY <1>0, <2>1 DEF TypeOK, StoringMagic
  <2>3. ControlInv'
    BY <1>0, <2>1 DEF ControlInv, TypeOK, Copying, Staged, Intact
  <2>4. Intact(confirmed', active)
    <3>1. CASE goal = "Boot"
      BY <1>0, <2>1, <3>1, LayoutEnds DEF ControlInv, DataInv
    <3>2. CASE goal = "Swap"
      BY <1>0, <2>1, <3>2 DEF ControlInv, DataInv
    <3>3. CASE goal = "Revert"
      BY <1>0, <2>1, <3>3, LayoutEnds DEF ControlInv, DataInv
    <3> QED BY <1>0, <3>1, <3>2, <3>3 DEF TypeOK
  <2>5. DataInv'
    BY <2>1, <2>4 DEF DataInv, Intact
  <2> QED BY <2>2, <2>3, <2>5 DEF IInv
<1>2. CASE ClearStateSector
  <2>1. TypeOK'
    BY <1>0, <1>2, NAssumption DEF ClearStateSector, ClearState, TypeOK, Reverted, StoringMagic
  <2>2. ControlInv'
    BY <1>0, <1>2 DEF ClearStateSector, ClearState, ControlInv, Copying, Staged, Intact
  <2>3. DataInv'
    BY <1>0, <1>2 DEF ClearStateSector, ClearState, ControlInv, DataInv, Intact
  <2> QED BY <2>1, <2>2, <2>3 DEF IInv
<1>3. CASE SetMagic
  <2>1. /\ pc = "magic" /\ magic = "Erased" /\ pvalid /\ progress = 0 /\ magic' = goal
        /\ UNCHANGED <<active, dfu, pvalid, progress, confirmed>>
        /\ pc' \in {"app", "reset"} /\ goal' = "Boot" /\ Intact(confirmed, active)
    BY <1>0, <1>3 DEF SetMagic, WriteMagic, ControlInv, DataInv
  <2>2. goal = "Swap" => /\ pc' = "reset" /\ candidate' = session.image
                         /\ candidate' \in Images /\ Intact(candidate', dfu)
                         /\ session' = NoSession
    BY <1>0, <1>3 DEF SetMagic, WriteMagic, ControlInv, Staged
  <2>3. TypeOK'
    BY <1>0, <1>3, <2>1, <2>2, SessionTypes DEF SetMagic, TypeOK
  <2>4. ControlInv'
    BY <1>0, <1>3, <2>1, <2>2 DEF SetMagic, WriteMagic, ControlInv, Copying
  <2>5. goal = "Swap" => Layout(0)'
    <3> SUFFICES ASSUME goal = "Swap" PROVE Layout(0)'
      OBVIOUS
    <3>1. Intact(confirmed, active)' /\ Intact(candidate, dfu)'
      BY <2>1, <2>2 DEF Intact
    <3>2. TypeOK' => (Intact(confirmed, active) /\ Intact(candidate, dfu) => Layout(0))'
      BY LayoutEnds, PTL
    <3> QED BY <2>3, <3>1, <3>2
  <2>6. DataInv'
    BY <2>1, <2>5 DEF DataInv, Intact
  <2> QED BY <2>3, <2>4, <2>6 DEF IInv
<1> QED BY <1>1, <1>2, <1>3

\* The bootloader swaps or reverts from wherever it was interrupted.
LEMMA BootKeepsInv ==
  ASSUME IInv, Boot
  PROVE  IInv'
<1>0. TypeOK /\ ControlInv /\ DataInv /\ UNCHANGED <<boot_confirmed, session, confirmed, candidate>>
  BY DEF IInv, Boot
<1>1. CASE Prepare
  <2>1. TypeOK'
    BY <1>0, <1>1 DEF Prepare, StoreMagic, TypeOK, Copying, StoringMagic
  <2>2. ControlInv'
    <3>1. UNCHANGED <<active, dfu, magic, pvalid, progress>>
      BY <1>1 DEF Prepare
    <3>2. CASE GetState # "Swap"
      BY <1>0, <1>1, <3>1, <3>2 DEF Prepare, ControlInv, Copying, GetState
    <3>3. CASE GetState = "Swap" /\ CurrentProgress < Reverted
      <4>1. magic = "Swap" /\ pvalid /\ progress < Reverted
        BY <3>3, NAssumption DEF GetState, CurrentProgress, Reverted
      <4> QED BY <1>1, <3>1, <3>3, <4>1 DEF Prepare, ControlInv, Copying
    <3>4. CASE GetState = "Swap" /\ ~(CurrentProgress < Reverted)
      <4>1. magic = "Swap" /\ (pvalid => progress = Reverted)
        BY <1>0, <3>4, NAssumption DEF GetState, CurrentProgress, TypeOK, Reverted
      <4> QED BY <1>1, <3>1, <3>4, <4>1 DEF Prepare, StoreMagic, ControlInv, Copying
    <3> QED BY <3>2, <3>3, <3>4
  <2>3. DataInv'
    BY <1>0, <1>1 DEF Prepare, StoreMagic, DataInv, Layout, ActiveLayout, DfuLayout, Intact
  <2> QED BY <2>1, <2>2, <2>3 DEF IInv
<1>2. CASE CopyPage
  <2>1. /\ pc \in {"erase", "write"} /\ pc' = (IF pc = "erase" THEN "write" ELSE "record")
        /\ UNCHANGED <<magic, pvalid, progress, goal>>
        /\ magic = "Swap" /\ pvalid /\ progress < Reverted /\ Layout(progress)
    BY <1>0, <1>2 DEF CopyPage, ControlInv, DataInv, Copying
  <2>2. /\ active' \in [Part -> Page] /\ dfu' \in [0 .. N -> Page]
        /\ Layout(progress)' /\ (pc' = "record" => Layout(progress + 1)')
    BY <1>0, <1>2, <2>1, CopyKeepsLayout
  <2>3. TypeOK'
    BY <1>0, <2>1, <2>2 DEF TypeOK, Copying
  <2>4. ControlInv'
    BY <1>0, <2>1 DEF ControlInv, Copying
  <2>5. DataInv'
    BY <2>1, <2>2 DEF DataInv
  <2> QED BY <2>3, <2>4, <2>5 DEF IInv
<1>3. CASE RecordProgress
  <2>1. /\ pc = "record" /\ magic = "Swap" /\ pvalid /\ progress < Reverted /\ Layout(progress + 1)
        /\ progress' = progress + 1 /\ UNCHANGED <<active, dfu, magic, pvalid>>
        /\ progress \in Nat /\ Swapped = 2 * N /\ Reverted = 4 * N /\ N \in Nat \ {0}
    BY <1>0, <1>3, NAssumption
       DEF RecordProgress, ControlInv, DataInv, Copying, TypeOK, Swapped, Reverted
  <2>2. \/ progress' = Swapped /\ pc' = "app" /\ goal' = goal
        \/ progress' = Reverted /\ pc' = "invalidate" /\ goal' = "Revert"
        \/ progress' < Reverted /\ pc' = "erase" /\ goal' = goal
    BY <1>3, <2>1 DEF RecordProgress, StoreMagic
  <2>3. TypeOK'
    BY <1>0, <2>1, <2>2 DEF TypeOK, Copying, StoringMagic
  <2>4. ControlInv'
    BY <1>0, <2>1, <2>2 DEF ControlInv, Copying
  <2>5. Layout(progress)'
    BY <1>0, <2>1 DEF Layout, ActiveLayout, DfuLayout
  <2>6. DataInv'
    BY <2>1, <2>2, <2>5 DEF DataInv
  <2> QED BY <2>3, <2>4, <2>6 DEF IInv
<1> QED BY <1>1, <1>2, <1>3 DEF Boot, BootStep

\* Interruptions lose RAM and nothing else; the invariant holds at every place.
LEMMA ResetKeepsInv ==
  ASSUME IInv, Watchdog \/ PowerLoss
  PROVE  IInv'
<1>0. TypeOK /\ ControlInv /\ DataInv
  BY DEF IInv
<1>1. /\ pc' = "reset" /\ goal' = "Boot" /\ boot_confirmed' = FALSE /\ session' = NoSession
      /\ UNCHANGED <<active, dfu, magic, pvalid, progress, confirmed, candidate>>
  BY DEF Watchdog, PowerLoss, ToReset
<1>2. TypeOK'
  BY <1>0, <1>1, SessionTypes DEF TypeOK
<1>3. ControlInv'
  BY <1>1 DEF ControlInv, Copying
<1>4. DataInv'
  BY <1>0, <1>1 DEF DataInv, Layout, ActiveLayout, DfuLayout, Intact
<1> QED BY <1>2, <1>3, <1>4 DEF IInv

LEMMA StutterKeepsInv ==
  ASSUME IInv, UNCHANGED vars
  PROVE  IInv'
<1>1. TypeOK'
  BY DEF IInv, vars, TypeOK
<1>2. ControlInv'
  BY DEF IInv, vars, ControlInv, Staged, Intact
<1>3. DataInv'
  BY DEF IInv, vars, DataInv, Layout, ActiveLayout, DfuLayout, Intact
<1> QED BY <1>1, <1>2, <1>3 DEF IInv

THEOREM Invariance == Spec => []IInv
<1>1. IInv /\ [Next]_vars => IInv'
  BY AppKeepsInv, StateKeepsInv, BootKeepsInv, ResetKeepsInv, StutterKeepsInv DEF Next
<1> QED BY <1>1, InvInit, PTL DEF Spec

\* Every value stays within its type: no copy, chunk or progress mark leaves its partition.
THEOREM TypeCorrect == Spec => []TypeOK
BY Invariance, PTL DEF IInv

-----------------------------------------------------------------------------
(* What follows from it                                                    *)

\* The firmware executes the candidate only between the last copy of the swap
\* and the reset or the confirmation that ends its trial.
LEMMA TrialIsSwapped ==
  ASSUME IInv, AppRuns, Stage # "settled"
  PROVE  Stage = "trial" /\ Layout(Swapped)
<1>1. magic = "Swap" /\ pvalid /\ Layout(progress)
  BY DEF IInv, Stage, DataInv
<1>2. progress = Swapped
  BY <1>1 DEF IInv, AppRuns, ControlInv, TypeOK, StoringMagic
<1> QED BY <1>1, <1>2, NAssumption DEF Stage, Swapped

\* For every partition size, set of images and point of interruption, the chip
\* executes one whole image, and the right one.
THEOREM WholeImages == Spec => []RunsWholeImage
<1>1. IInv => RunsWholeImage
  <2> SUFFICES ASSUME IInv, AppRuns
               PROVE  Intact(IF Stage = "trial" THEN candidate ELSE confirmed, active)
    BY DEF RunsWholeImage
  <2>1. CASE Stage = "settled"
    BY <2>1 DEF IInv, DataInv, Stage
  <2>2. CASE Stage # "settled"
    BY <2>2, TrialIsSwapped, LayoutEnds DEF IInv
  <2> QED BY <2>1, <2>2
<1> QED BY <1>1, Invariance, PTL

-----------------------------------------------------------------------------
(* The update contract                                                     *)

\* A whole image is recognised by its first page.
LEMMA IntactIsUnique ==
  ASSUME NEW img \in Images, NEW other \in Images, NEW pages,
         Intact(img, pages), Intact(other, pages)
  PROVE  img = other
<1>1. 0 \in 0 .. Size[img] - 1 /\ 0 \in 0 .. Size[other] - 1
  BY Sizes, NAssumption
<1>2. pages[0] = PartOf(img, 0) /\ pages[0] = PartOf(other, 0)
  BY <1>1 DEF Intact
<1> QED BY <1>2 DEF PartOf

-----------------------------------------------------------------------------
(* Only healthy images confirm themselves and take updates                 *)

HealthyInv ==
  /\ confirmed \in Healthy
  /\ pc = "invalidate" /\ goal = "Boot" => candidate \in Healthy

LEMMA HealthyNext ==
  ASSUME IInv, HealthyInv, [Next]_vars
  PROVE  HealthyInv'
<1>0. TypeOK /\ ControlInv /\ DataInv
  BY DEF IInv
<1>1. CASE ConfirmBoot
  <2>1. /\ pc = "app" /\ UNCHANGED <<confirmed, candidate>> /\ RunsHealthy
        /\ pc' = "invalidate" => GetState = "Swap"
    BY <1>1 DEF ConfirmBoot
  <2>2. CASE GetState = "Swap"
    <3>1. Intact(candidate, active)
      BY <2>1, <2>2, <1>0, LayoutEnds DEF GetState, ControlInv, DataInv
    <3>2. candidate \in Healthy
      BY <1>0, <2>1, <3>1, HealthyImages, IntactIsUnique DEF RunsHealthy, TypeOK
    <3> QED BY <2>1, <3>2 DEF HealthyInv
  <2> QED BY <2>1, <2>2 DEF HealthyInv
<1>2. CASE InvalidateProgress
  BY <1>2 DEF InvalidateProgress, Invalidate, HealthyInv
<1>3. CASE SetMagic
  BY <1>3 DEF SetMagic, WriteMagic, HealthyInv
<1>4. CASE Boot
  <2>1. UNCHANGED <<confirmed, candidate>> /\ (pc' = "invalidate" => goal' = "Revert")
    BY <1>4 DEF Boot, BootStep, Prepare, CopyPage, RecordProgress, StoreMagic
  <2> QED BY <2>1 DEF HealthyInv
<1>5. CASE ClearStateSector \/ BeginUpdate \/ ReceiveChunk \/ StageChunk \/ AbortUpdate \/ CheckImage
           \/ Watchdog \/ PowerLoss
  <2>1. UNCHANGED confirmed /\ (pc' = "invalidate" => goal' = "Swap")
    BY <1>5 DEF ClearStateSector, ClearState, BeginUpdate, ReceiveChunk, StageChunk, AbortUpdate,
                CheckImage, StoreMagic, Watchdog, PowerLoss, ToReset
  <2> QED BY <2>1 DEF HealthyInv
<1>6. CASE UNCHANGED vars
  BY <1>6 DEF vars, HealthyInv
<1> QED BY <1>1, <1>2, <1>3, <1>4, <1>5, <1>6 DEF Next

LEMMA HealthyAlways == Spec => []HealthyInv
<1>1. Init => HealthyInv
  BY FactoryAssumption DEF Init, HealthyInv
<1>2. IInv /\ HealthyInv /\ [Next]_vars => HealthyInv'
  BY HealthyNext
<1> QED BY <1>1, <1>2, Invariance, PTL DEF Spec

LEMMA RunningIs ==
  /\ \A img \in Images : AppRuns /\ Intact(img, active) => Running = img
  /\ ~AppRuns => Running = NoImage
BY IntactIsUnique DEF Running

LEMMA RunningIsWhole ==
  ASSUME IInv
  PROVE  Running = IF ~AppRuns THEN NoImage ELSE IF Stage = "trial" THEN candidate ELSE confirmed
<1>1. confirmed \in Images /\ candidate \in Images
  BY DEF IInv, TypeOK
<1>2. AppRuns /\ Stage = "settled" => Intact(confirmed, active)
  BY DEF IInv, DataInv, Stage
<1>3. AppRuns /\ Stage # "settled" => Stage = "trial" /\ Intact(candidate, active)
  BY TrialIsSwapped, LayoutEnds DEF IInv
<1> QED BY <1>1, <1>2, <1>3, RunningIs

LEMMA ContractInit == Init => Contract!Init
<1>1. Init => ~AppRuns /\ Stage = "settled"
  BY DEF Init, AppRuns, Stage, StoringMagic
<1> QED BY <1>1, RunningIs DEF Init, Contract!Init

\* The steps of the contract, told by what becomes of the stage and of the image
\* being executed.
LEMMA ContractStep ==
  ASSUME IInv, IInv', HealthyInv, [Next]_vars
  PROVE  [Contract!Next]_Contract!vars
<1>0. /\ TypeOK /\ ControlInv /\ N \in Nat \ {0} /\ Swapped = 2 * N /\ Reverted = 4 * N
      /\ NoImage \notin Images /\ confirmed \in Images /\ candidate \in Images
      /\ confirmed' \in Images /\ candidate' \in Images
  BY NAssumption, NoImageAssumption DEF IInv, TypeOK, Swapped, Reverted
<1>1. Running = IF ~AppRuns THEN NoImage ELSE IF Stage = "trial" THEN candidate ELSE confirmed
  BY RunningIsWhole
<1>2. Running' = IF ~AppRuns' THEN NoImage ELSE IF Stage' = "trial" THEN candidate' ELSE confirmed'
  <2>1. IInv' => (Running = IF ~AppRuns THEN NoImage ELSE IF Stage = "trial" THEN candidate ELSE confirmed)'
    BY RunningIsWhole, PTL
  <2> QED BY <2>1
<1>3. CASE AppRuns' /\ AppRuns /\ UNCHANGED <<Stage, confirmed, candidate>>
  BY <1>1, <1>2, <1>3 DEF Contract!vars
<1>4. CASE ~AppRuns' /\ ~AppRuns /\ UNCHANGED <<Stage, confirmed, candidate>>
  BY <1>1, <1>2, <1>4 DEF Contract!vars
<1>5. CASE ~AppRuns' /\ AppRuns /\ UNCHANGED <<Stage, confirmed, candidate>>
  BY <1>0, <1>1, <1>2, <1>5 DEF Contract!Next, Contract!Reset
<1>6. CASE AppRuns' /\ ~AppRuns /\ UNCHANGED <<confirmed, candidate>> /\ Stage = "settled" /\ Stage' = "settled"
  BY <1>1, <1>2, <1>6 DEF Contract!Next, Contract!Start
<1>7. CASE Boot
  <2>1. UNCHANGED <<confirmed, candidate, magic, pvalid>> /\ ~AppRuns
    BY <1>0, <1>7 DEF Boot, BootStep, Prepare, CopyPage, RecordProgress, AppRuns, StoringMagic, Copying
  <2>2. CASE Prepare
    <3>1. Stage' = Stage
      BY <2>1, <2>2 DEF Prepare, Stage
    <3>2. CASE GetState # "Swap"
      <4>1. AppRuns' /\ Stage = "settled"
        BY <2>2, <3>2 DEF Prepare, AppRuns, GetState, Stage
      <4> QED BY <1>6, <2>1, <3>1, <4>1
    <3>3. CASE GetState = "Swap"
      <4>1. ~AppRuns'
        BY <2>2, <3>3 DEF Prepare, StoreMagic, AppRuns, StoringMagic
      <4> QED BY <1>4, <2>1, <3>1, <4>1
    <3> QED BY <3>2, <3>3
  <2>3. CASE CopyPage
    <3>1. Stage' = Stage /\ ~AppRuns'
      BY <2>3 DEF CopyPage, Stage, AppRuns, StoringMagic
    <3> QED BY <1>4, <2>1, <3>1
  <2>4. CASE RecordProgress
    <3>1. magic = "Swap" /\ pvalid /\ progress' = progress + 1 /\ progress \in Nat
      BY <1>0, <2>4 DEF RecordProgress, ControlInv, Copying, TypeOK
    <3>2. CASE progress' = Swapped
      <4>1. AppRuns' /\ Stage = "requested" /\ Stage' = "trial"
        BY <1>0, <2>1, <2>4, <3>1, <3>2 DEF RecordProgress, AppRuns, Stage
      <4> QED BY <1>1, <1>2, <2>1, <4>1 DEF Contract!Next, Contract!Install
    <3>3. CASE progress' # Swapped
      <4>1. ~AppRuns' /\ Stage' = Stage
        BY <1>0, <2>1, <2>4, <3>1, <3>3 DEF RecordProgress, StoreMagic, AppRuns, StoringMagic, Stage
      <4> QED BY <1>4, <2>1, <4>1
    <3> QED BY <3>2, <3>3
  <2> QED BY <1>7, <2>2, <2>3, <2>4 DEF Boot, BootStep
<1>8. CASE InvalidateProgress
  <2>1. /\ pc = "invalidate" /\ pc' = "clear" /\ goal' = goal /\ magic' = magic /\ pvalid' = FALSE
        /\ candidate' = candidate /\ goal \in {"Boot", "Swap", "Revert"}
        /\ confirmed' = IF goal = "Boot" THEN candidate ELSE confirmed
        /\ active' = active
    BY <1>0, <1>8 DEF InvalidateProgress, Invalidate, TypeOK
  <2>2. Stage' = "settled" /\ (AppRuns' <=> goal # "Revert") /\ (AppRuns <=> goal # "Revert")
    BY <2>1 DEF Stage, AppRuns, StoringMagic
  <2>3. CASE goal = "Boot"
    <3>1. Stage = "trial"
      BY <1>0, <2>1, <2>3 DEF ControlInv, Stage
    <3>2. candidate \in Healthy
      BY <2>1, <2>3 DEF HealthyInv
    <3> QED BY <1>1, <1>2, <2>1, <2>2, <2>3, <3>1, <3>2 DEF Contract!Next, Contract!Confirm
  <2>4. CASE goal = "Swap"
    <3>1. Stage = "settled"
      BY <1>0, <2>1, <2>4 DEF ControlInv, Stage
    <3> QED BY <1>3, <2>1, <2>2, <2>4, <3>1
  <2>5. CASE goal = "Revert"
    <3>1. Stage \in {"settled", "trial"}
      BY <1>0, <2>1, <2>5 DEF ControlInv, Stage
    <3> QED BY <1>1, <1>2, <1>4, <2>1, <2>2, <2>5, <3>1 DEF Contract!Next, Contract!RollBack
  <2> QED BY <2>1, <2>3, <2>4, <2>5
<1>9. CASE ClearStateSector
  <2>1. UNCHANGED <<confirmed, candidate>> /\ (AppRuns' <=> AppRuns)
    BY <1>9 DEF ClearStateSector, ClearState, AppRuns, StoringMagic
  <2>2. Stage = "settled" /\ Stage' = "settled"
    BY <1>0, <1>9 DEF ClearStateSector, ClearState, ControlInv, Stage
  <2> QED BY <1>3, <1>4, <2>1, <2>2
<1>10. CASE SetMagic
  <2>1. /\ pc = "magic" /\ magic = "Erased" /\ pvalid /\ progress = 0 /\ magic' = goal
        /\ pvalid' = pvalid /\ progress' = 0 /\ confirmed' = confirmed
        /\ pc' = IF goal = "Swap" THEN "reset" ELSE "app"
        /\ candidate' = IF goal = "Swap" THEN session.image ELSE candidate
    BY <1>0, <1>10 DEF SetMagic, WriteMagic, ControlInv
  <2>2. Stage = "settled" /\ (AppRuns <=> goal # "Revert")
    BY <2>1 DEF Stage, AppRuns, StoringMagic
  <2>3. CASE goal = "Swap"
    <3>1. Stage' = "requested" /\ ~AppRuns'
      BY <1>0, <2>1, <2>3 DEF Stage, AppRuns, StoringMagic
    <3>2. confirmed \in Healthy
      BY <2>1, <2>3 DEF HealthyInv
    <3>3. candidate' = session.image /\ session.image \in Images
      BY <1>0, <2>1, <2>3
    <3> QED BY <1>1, <1>2, <2>1, <2>2, <2>3, <3>1, <3>2, <3>3 DEF Contract!Next, Contract!Request
  <2>4. CASE goal # "Swap"
    <3>1. Stage' = "settled" /\ AppRuns'
      BY <2>1, <2>4 DEF Stage, AppRuns
    <3> QED BY <1>3, <1>6, <2>1, <2>2, <2>4, <3>1
  <2> QED BY <2>3, <2>4
<1>11. CASE ConfirmBoot \/ BeginUpdate \/ ReceiveChunk \/ StageChunk \/ AbortUpdate \/ CheckImage
  <2>1. UNCHANGED <<magic, pvalid, progress, confirmed, candidate>> /\ AppRuns /\ AppRuns'
    BY <1>11 DEF ConfirmBoot, BeginUpdate, ReceiveChunk, StageChunk, AbortUpdate, CheckImage,
                 StoreMagic, AppRuns, StoringMagic
  <2> QED BY <1>3, <2>1 DEF Stage
<1>12. CASE Watchdog \/ PowerLoss
  <2>1. UNCHANGED <<magic, pvalid, progress, confirmed, candidate>> /\ ~AppRuns'
    BY <1>12 DEF Watchdog, PowerLoss, ToReset, AppRuns, StoringMagic
  <2> QED BY <1>4, <1>5, <2>1 DEF Stage
<1>13. CASE UNCHANGED vars
  <2>1. UNCHANGED <<Stage, confirmed, candidate>> /\ (AppRuns' <=> AppRuns)
    BY <1>13 DEF vars, Stage, AppRuns
  <2> QED BY <1>3, <1>4, <2>1
<1> QED BY <1>7, <1>8, <1>9, <1>10, <1>11, <1>12, <1>13 DEF Next
\* AbUpdate implements the update contract: a candidate runs once, and is then
\* either the confirmed image or gone.
THEOREM Refinement == Spec => ImplementsContract
<1>1. IInv /\ IInv' /\ HealthyInv /\ [Next]_vars => [Contract!Next]_Contract!vars
  BY ContractStep
<1> QED BY <1>1, ContractInit, Invariance, HealthyAlways, PTL DEF Spec, ImplementsContract, Contract!Spec
=============================================================================
