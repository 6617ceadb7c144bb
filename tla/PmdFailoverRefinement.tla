----------------------- MODULE PmdFailoverRefinement -----------------------
(***************************************************************************)
(* Two processes seen as one service of PmService.  What the service has   *)
(* looked at is the replica of the process that knows that it has the      *)
(* lock; the replica of the one that waits is not part of it.  The rest is *)
(* what either of them holds.                                              *)
(***************************************************************************)
EXTENDS PmdFailover

PairSeen ==
  IF has_lock THEN idlIntf
  ELSE IF other.has_lock THEN other.idlIntf
  ELSE [n \in Names |-> NoRow]

PairServed     == {n \in Names : Live(n) \/ other.ovs_intfs[n].uuid # NoUuid}
PairLost       == lostInfo \cup other.lostInfo
PairUnreadable == yamlFailed \cup other.yamlFailed

PairAt ==
  [n \in Names |-> CASE Live(n) -> ovs_intfs[n].subsystem
                     [] ~Live(n) /\ n \in PairServed -> other.ovs_intfs[n].subsystem
                     [] OTHER -> NoSub]

Pair == INSTANCE PmService WITH
  Sfp        <- {c \in Cages : Connector[c] = SfpPlus},
  rows       <- dbIntf,
  info       <- dbInfo,
  curHw      <- dbCurHw,
  off        <- disabled,
  seen       <- PairSeen,
  served     <- PairServed,
  at         <- PairAt,
  lost       <- PairLost,
  failed     <- failedWrite,
  unreadable <- PairUnreadable

(* A process and its stand-by (pmd_run, "another ops-pmd process is        *)
(* running") are together one service, as long as the lock passes on only  *)
(* when its owner ends: the takeover, at any point of the loop of either,  *)
(* is a restart of that service and nothing else can be told from outside. *)
PairImplementsService == Pair!Spec
============================================================================
