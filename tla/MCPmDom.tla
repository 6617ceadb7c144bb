------------------------------ MODULE MCPmDom ------------------------------
(***************************************************************************)
(* An instance of PmDom for TLC.  Each page has one word in the columns of *)
(* one half of the monitors and another word in the rest, and the flags of *)
(* one level.  The words are boundaries: the signs of a temperature and of *)
(* its fraction, whole volts, and halfway between two hundredths.          *)
(***************************************************************************)
EXTENDS PmDom

McHalf == {"temperature", "tx_bias", "rx1_power"}

McPage(w, v, l) ==
  [word |-> [f \in SfpFloats \cup QsfpFloats |->
               IF f[1] \in McHalf /\ f[2] \in {l, "value"} THEN w ELSE v],
   bit  |-> [f \in SfpFlags \cup QsfpFlags |-> f[2] = l]]

(* 0x7FFF, 0x80FF, 0xFF80, 3.0 V, 3.9950 V and 3.9999 V.  The two pages    *)
(* with a word halfway between two hundredths show it in one column only.  *)
McPages ==
  {McPage(32767, 30000, "low_alarm"), McPage(33023, 39999, "high_warning"),
   McPage(65408, 30000, "high_alarm"), McPage(1500, 20000, "low_warning"),
   [McPage(1999, 40000, "low_alarm") EXCEPT !.word[<<"vcc", "value">>] = 39950]}
=============================================================================
