---------------------------- MODULE MCBootloader ----------------------------
(***************************************************************************)
(* The instance of Bootloader that TLC checks: five images.  v1 and v4 are *)
(* healthy, v2 passes its CRC and starts but never reports BOOT_OK, v3 is  *)
(* one block longer than a window, and neither v3 nor v5 has a plausible   *)
(* vector table.                                                           *)
(***************************************************************************)
EXTENDS Bootloader, TLC

CONSTANTS v1, v2, v3, v4, v5

MCImages == {v1, v2, v3, v4, v5}
MCBootable == {v1, v2, v4}
MCHealthy == {v1, v4}
MCLen == (v1 :> 2) @@ (v2 :> 1) @@ (v3 :> 3) @@ (v4 :> 1) @@ (v5 :> 1)

(* A smaller instance for liveness. *)
LiveImages == {v1, v2, v3}
LiveBootable == {v1, v2}
LiveHealthy == {v1}
LiveLen == (v1 :> 2) @@ (v2 :> 2) @@ (v3 :> 3)
=============================================================================
