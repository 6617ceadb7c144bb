------------------------------- MODULE MCPmd -------------------------------
(***************************************************************************)
(* Instances of Pmd for TLC: an SFP+ cage and a QSFP+ cage with a reset    *)
(* line, modules of the kinds the code tells apart, and one or two         *)
(* subsystems.  The cages of the subsystem "base" are called like their    *)
(* ports; the files of "ext" give the port "sfp" another SFP+ cage, which  *)
(* stays empty.                                                            *)
(***************************************************************************)
EXTENDS PmdRefinement, TLC

McDevice == [s \in SubNames |->
               [n \in Names |-> IF s = "ext" THEN "sfp_ext" ELSE n]]

McConnector == [c \in Cages |-> IF c = "qsfp" THEN QsfpPlus ELSE SfpPlus]

McFits == [c \in Cages |-> Modules \cap (CASE c = "sfp"     -> {"SR"}
                                          [] c = "qsfp"    -> {"LR4", "CR4"}
                                          [] c = "sfp_ext" -> {})]

McEeprom ==
  [m \in Modules |->
     [ZeroId EXCEPT !.lr4 = (m = "LR4"), !.cr4 = (m = "CR4"),
                    !.dom = (m \in {"SR", "LR4"}), !.serial = m]]

McDescribed == [s \in SubNames |-> Names]

McHasReset == Cages \cap {"qsfp"}

UuidSymmetry == Permutations(Uuid)
============================================================================
