--------------------------- MODULE DurableSettings ---------------------------
(***************************************************************************)
(* What src/flash_store.rs promises: one durable settings value and one    *)
(* copy of it in RAM.  A change is made in RAM and then committed in a     *)
(* single step; a boot reloads the durable value.  The one weakness of the *)
(* implementation is part of the promise: a commit may first wipe the      *)
(* durable value back to the defaults.                                     *)
(***************************************************************************)
CONSTANTS
  Settings,  \* the values the settings can take
  Default    \* the one a blank store stands for, a member of Settings

VARIABLES
  durable,  \* what a boot would load
  ram,      \* what the running firmware believes
  up        \* TRUE while the firmware runs

vars == <<durable, ram, up>>

Init == durable = Default /\ ram = Default /\ up = FALSE

Boot == ~up /\ up' = TRUE /\ ram' = durable /\ UNCHANGED durable

\* A new change starts only when the previous one is committed.
Change == /\ up /\ ram = durable
          /\ \E s \in Settings : ram' = s
          /\ UNCHANGED <<durable, up>>

Wipe == up /\ ram # durable /\ durable' = Default /\ UNCHANGED <<ram, up>>

Commit == up /\ durable' = ram /\ UNCHANGED <<ram, up>>

Crash == up /\ up' = FALSE /\ UNCHANGED <<durable, ram>>

Next == Boot \/ Change \/ Wipe \/ Commit \/ Crash

Spec == Init /\ [][Next]_vars
=============================================================================
