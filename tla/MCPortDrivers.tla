---------------------------- MODULE MCPortDrivers ----------------------------
(***************************************************************************)
(* The instance of PortDrivers that TLC checks.  Oscillators are slowed    *)
(* down so that a status poll runs out after one or two turns.             *)
(***************************************************************************)
EXTENDS PortDrivers

MCOscillator == [HRC |-> 2000, MRC |-> 1000, LRC |-> 1500, XTAL |-> 2000, XTAL32 |-> 1000]

MCClocks ==
    { [source |-> "PLL", pllin |-> "XTAL", m |-> 1, n |-> 3, p |-> 1],
      [source |-> "LRC", pllin |-> "HRC", m |-> 0, n |-> 0, p |-> 0] }

\* No bit, the first, the last of a byte and of a word, some of every byte, all.
MCWordValues == {{}, {0}, {31, 7}, {8, 17, 3, 30}, 0 .. 31}
=============================================================================
