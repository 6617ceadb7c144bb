--------------------------- MODULE PmdRefinement ---------------------------
(***************************************************************************)
(* The daemon seen as the service of PmService: the replica is what the    *)
(* service has looked at, and the ports are what it serves, each under the *)
(* subsystem it was made for.  The loop, the lock, the sequence number,    *)
(* the flags and the open transaction have no counterpart.                 *)
(***************************************************************************)
EXTENDS Pmd

ServedAt == [n \in Names |-> IF Live(n) THEN ovs_intfs[n].subsystem ELSE NoSub]

Service == INSTANCE PmService WITH
  Sfp        <- {c \in Cages : Connector[c] = SfpPlus},
  rows       <- dbIntf,
  info       <- dbInfo,
  curHw      <- dbCurHw,
  off        <- disabled,
  seen       <- idlIntf,
  served     <- {n \in Names : Live(n)},
  at         <- ServedAt,
  lost       <- lostInfo,
  failed     <- failedWrite,
  unreadable <- yamlFailed

(* The daemon (pmd_run with everything it calls, across lost locks, failed *)
(* transactions, unreadable YAML files, crashes and restarts) implements   *)
(* the service: each pass serves every demanded interface and switches     *)
(* lasers only towards their rows, and each commit reports only on rows    *)
(* that are still those of its ports, cur_hw last.                         *)
ImplementsService == Service!Spec
===========================================================================
