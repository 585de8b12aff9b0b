---------------------------- MODULE MCBootStream ----------------------------
(***************************************************************************)
(* The instance of BootStream that TLC checks: sectors of 4 bytes, of which *)
(* MODE1 reserves one for the header, transfers of 8, words of 2, an        *)
(* application area of three transfers, and a window of six sectors.        *)
(***************************************************************************)
EXTENDS BootStream, TLC

CONSTANT ff

\* Chains that run up and down, that end early, and that return to themselves.
MCLinks == { (1 :> 2) @@ (2 :> 3) @@ (3 :> 4) @@ (4 :> 5) @@ (5 :> 6) @@ (6 :> 7) @@ (7 :> 0),
             (7 :> 6) @@ (6 :> 5) @@ (5 :> 4) @@ (4 :> 3) @@ (3 :> 2) @@ (2 :> 1) @@ (1 :> 0),
             (1 :> 4) @@ (4 :> 2) @@ (2 :> 6) @@ (6 :> 1) @@ (3 :> 0) @@ (5 :> 0) @@ (7 :> 3) }

\* The sector that holds payload number j of the chain.
PayloadNode[j \in Nat] == IF j = 0 THEN FirstNode ELSE link[PayloadNode[j - 1]]

\* Where BootRAM/README.md:40-45 puts byte i of a MODE1 file: a sector is a
\* header followed by its payload.
DocumentedAddress(i) ==
    LET payload == SectorSize - HeaderSize
        j       == (start + i) \div payload
    IN  SectorSize * (PayloadNode[j] - 1) + HeaderSize + ((start + i) % payload)

\* BootRAM/README.md:40-45 and boot_storage.h:17, "payload after 192 B header":
\* in MODE1 the CRC unit is given the payloads of the chain, headers left out.
ZoneStreamIsPayload ==
    (pc = "done" /\ mode = "ZONE" /\ start < SectorSize - HeaderSize)
        => \A i \in 0 .. crcSize - 1 : crc[i] = DocumentedAddress(i)
=============================================================================
