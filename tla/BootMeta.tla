------------------------------ MODULE BootMeta ------------------------------
(***************************************************************************)
(* The boot_meta record (BootRAM/boot_meta.h, boot_meta.c): the one page   *)
(* of internal flash in which the boot stub, the IAP core and the          *)
(* application leave messages for one another across resets.               *)
(*                                                                         *)
(* This module has no state of its own.  It gives the values the page can  *)
(* hold and, for each boot_meta_* writer, the record that the writer       *)
(* programs, computed as in the code from what a read of the page returned.*)
(* Bootloader.tla performs the two flash operations of boot_meta_write.    *)
(*                                                                         *)
(* Abstractions.  magic, version and meta_crc decide one thing only,       *)
(* whether boot_meta_is_valid accepts the page: a page it rejects (blank,  *)
(* half programmed, of another version) is the value Torn.  The fields     *)
(* <slot>_size, _crc, _payload_start and _start_node always travel         *)
(* together and describe one firmware image: they are the image itself, or *)
(* NoImage for the all-zero descriptor that every reader refuses.          *)
(***************************************************************************)
EXTENDS Naturals

CONSTANTS
    Images,   \* the firmware images a descriptor can name
    NoImage,  \* the descriptor whose size is 0
    Torn      \* a meta page that boot_meta_is_valid rejects

ASSUME NoImageAssumption == NoImage \notin Images

Slots == {"CANDIDATE", "GOOD"}

MetaStates == {"IDLE", "UPDATING", "PROGRAMMED", "FAIL"}

\* The literal 3 that boot_stub.c compares boot_attempts to.
MaxAttempts == 3

Descriptors == Images \union {NoImage}

MetaRecord == [state    : MetaStates,
               active   : Slots,
               ok       : BOOLEAN,
               attempts : 0 .. MaxAttempts,
               cand     : Descriptors,
               good     : Descriptors]

ASSUME TornAssumption == Torn \notin MetaRecord \union Images

MetaPage == MetaRecord \union {Torn}

\* The record a writer starts from when the page is invalid: memset to zero.
ZeroRecord == [state |-> "IDLE", active |-> "CANDIDATE", ok |-> FALSE,
               attempts |-> 0, cand |-> NoImage, good |-> NoImage]

\* What boot_meta_read leaves in the writers that repair an invalid page.
ReadOrZero(page) == IF page = Torn THEN ZeroRecord ELSE page

Descriptor(m, s) == IF s = "GOOD" THEN m.good ELSE m.cand

-----------------------------------------------------------------------------
(* The record each writer programs.  The operators with an underscore in    *)
(* their name are plausible mistakes in the operator that follows: each must *)
(* break the property that PROJECT.json pairs it with.                      *)

BeginUpdate_NoLatch(page, s, image) ==
    IF s = "GOOD" THEN [ReadOrZero(page) EXCEPT !.active = s, !.good = image]
                  ELSE [ReadOrZero(page) EXCEPT !.active = s, !.cand = image]

BeginUpdate_FromZero(page, s, image) ==
    IF s = "GOOD"
    THEN [ZeroRecord EXCEPT !.state = "UPDATING", !.active = s, !.good = image]
    ELSE [ZeroRecord EXCEPT !.state = "UPDATING", !.active = s, !.cand = image]

\* boot_meta_begin_update: the other slot's descriptor and the attempt count
\* are left as they are.
BeginUpdate(page, s, image) ==
    LET m == [ReadOrZero(page) EXCEPT !.state = "UPDATING",
                                      !.active = s,
                                      !.ok = FALSE]
    IN  IF s = "GOOD" THEN [m EXCEPT !.good = image]
                      ELSE [m EXCEPT !.cand = image]

\* boot_meta_set_programmed; the caller writes nothing when the page is Torn.
SetProgrammed(m) == [m EXCEPT !.state = "PROGRAMMED", !.ok = FALSE, !.attempts = 0]

\* boot_meta_set_fail
SetFail(page) == [ReadOrZero(page) EXCEPT !.state = "FAIL", !.ok = FALSE]

\* boot_meta_confirm_boot_ok
ConfirmBootOk(page) == [ReadOrZero(page) EXCEPT !.state = "IDLE", !.ok = TRUE]

\* boot_meta_promote_candidate_descriptors: its early returns, and its record.
CanPromote(page) == page # Torn /\ page.cand # NoImage

Promote(m) == [m EXCEPT !.good = m.cand, !.cand = NoImage]

-----------------------------------------------------------------------------
(* The decisions that boot_stub_on_reset takes on the record.               *)

AwaitingBootOk(page) == page # Torn /\ page.state = "PROGRAMMED" /\ ~page.ok

CountsAttempt_OneMore(page, appValid) ==
    AwaitingBootOk(page) /\ appValid /\ page.attempts <= MaxAttempts

\* The stub counts this boot as one more trial of the new image.
CountsAttempt(page, appValid) ==
    AwaitingBootOk(page) /\ appValid /\ page.attempts < MaxAttempts

CountAttempt_Forgotten(m) == m

CountAttempt(m) == [m EXCEPT !.attempts = @ + 1]

ShouldRestoreGood_IgnoresUpdating(page, appValid) ==
    \/ ~appValid
    \/ page # Torn /\ page.state = "FAIL"
    \/ AwaitingBootOk(page) /\ page.attempts >= MaxAttempts

ShouldRestoreGood_NoLimit(page, appValid) ==
    \/ ~appValid
    \/ page # Torn /\ page.state \in {"UPDATING", "FAIL"}
    \/ AwaitingBootOk(page) /\ page.attempts > MaxAttempts

\* boot_stub_should_restore_good
ShouldRestoreGood(page, appValid) ==
    \/ ~appValid
    \/ page # Torn /\ page.state \in {"UPDATING", "FAIL"}
    \/ AwaitingBootOk(page) /\ page.attempts >= MaxAttempts

\* boot_stub_restore_good goes on only if there is a GOOD image to restore.
CanRestoreGood(page) == page # Torn /\ page.good # NoImage
=============================================================================
