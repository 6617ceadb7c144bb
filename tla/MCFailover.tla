----------------------------- MODULE MCFailover -----------------------------
(***************************************************************************)
(* Instances of PmdFailover for TLC: one SFP+ cage and two processes.      *)
(***************************************************************************)
EXTENDS PmdFailoverRefinement, TLC

McDevice    == [s \in SubNames |-> [n \in Names |-> n]]
McConnector == [c \in Cages |-> SfpPlus]
McFits      == [c \in Cages |-> Modules]
McEeprom    == [m \in Modules |-> [ZeroId EXCEPT !.serial = m]]
McDescribed == [s \in SubNames |-> Names]

UuidSymmetry == Permutations(Uuid)
=============================================================================
