--------------------------- MODULE UpdateProtocol ---------------------------
(***************************************************************************)
(* What the bootloader promises about an update, with no flash operation,  *)
(* buffer or loop in sight: which image is installed, in which phase the   *)
(* meta page says it is, how often the installed program was started       *)
(* unconfirmed, and which image a rollback would restore.                  *)
(*                                                                         *)
(* The phases are the comments of boot_meta_state_t (boot_meta.h:25-28):   *)
(* IDLE "normal", UPDATING "erase/program in progress", PROGRAMMED "flash  *)
(* written; waiting APP BOOT_OK", FAIL "explicit failure latch".  LOST is  *)
(* a meta page that a power loss left unreadable.                          *)
(***************************************************************************)
EXTENDS Naturals

CONSTANTS Images, Healthy, NoImage, Broken, MaxTrials

VARIABLES
    phase,      \* of the update, as the next boot will see it
    installed,  \* the image in the application area, or Broken
    fallback,   \* the image a rollback restores, or NoImage
    trials      \* starts of the installed program since it was programmed

vars == <<phase, installed, fallback, trials>>

Phases == {"IDLE", "UPDATING", "PROGRAMMED", "FAIL", "LOST"}

Init ==
    /\ phase \in {"IDLE", "LOST"}
    /\ installed \in Healthy
    /\ fallback \in {NoImage, installed}
    /\ trials = 0

\* An update or a rollback begins.
Begin ==
    /\ phase' = "UPDATING"
    /\ UNCHANGED <<installed, fallback, trials>>

\* Only now may the application area change, in any number of steps.
Program ==
    /\ phase = "UPDATING"
    /\ installed' \in Images \union {Broken}
    /\ UNCHANGED <<phase, fallback, trials>>

\* The latch of success: the application area holds a complete image.
Latch ==
    /\ phase = "UPDATING"
    /\ installed # Broken
    /\ phase' = "PROGRAMMED"
    /\ trials' = 0
    /\ UNCHANGED <<installed, fallback>>

\* The image in SPI flash was refused.
Refuse ==
    /\ phase = "UPDATING"
    /\ phase' = "FAIL"
    /\ UNCHANGED <<installed, fallback, trials>>

\* The installed program starts: never after an interrupted update while a
\* rollback is possible, and at most MaxTrials times without BOOT_OK.
Start ==
    /\ fallback # NoImage =>
          /\ phase \notin {"UPDATING", "FAIL"}
          /\ phase = "PROGRAMMED" => trials < MaxTrials
    /\ trials' \in {trials, trials + 1}
    /\ UNCHANGED <<phase, installed, fallback>>

\* BOOT_OK, which only an intact healthy program gives.
Confirm ==
    /\ installed \in Healthy
    /\ phase' = "IDLE"
    /\ trials' = 0
    /\ UNCHANGED <<installed, fallback>>

\* The fallback is replaced only while a confirmed program runs.
Promote ==
    /\ phase = "IDLE"
    /\ installed \in Healthy
    /\ fallback' \in Images
    /\ UNCHANGED <<phase, installed, trials>>

\* A power loss during a write of the meta page.
Lose ==
    /\ phase' = "LOST"
    /\ fallback' = NoImage
    /\ UNCHANGED <<installed, trials>>

Next == Begin \/ Program \/ Latch \/ Refuse \/ Start \/ Confirm \/ Promote \/ Lose

Spec == Init /\ [][Next]_vars
=============================================================================
