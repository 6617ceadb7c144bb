---------------------------- MODULE PmdFailover ----------------------------
(***************************************************************************)
(* Two ops-pmd processes on one switch (src/pmd.c, pmd_run: "another       *)
(* ops-pmd process is running").  They share the database, the hardware    *)
(* and the lock, and nothing else.                                         *)
(*                                                                         *)
(* The variables of Pmd that belong to a process are those of the process  *)
(* whose turn it is; other holds the same variables of its peer.  A step   *)
(* of Pmd is a step of the process whose turn it is, and Switch hands the  *)
(* turn over between any two steps, so that every interleaving occurs.  A  *)
(* property of Pmd that holds here in every state holds for both.          *)
(***************************************************************************)
EXTENDS Pmd

VARIABLE other   \* the variables of the peer

(* What a process has to itself. *)
Own == [idlIntf |-> idlIntf, idlSub |-> idlSub, idlDaemon |-> idlDaemon,
        seqnoMoved |-> seqnoMoved, ovs_intfs |-> ovs_intfs,
        ovs_subs |-> ovs_subs, yamlPorts |-> yamlPorts,
        cur_hw_set |-> cur_hw_set, txn |-> txn, yamlFailed |-> yamlFailed,
        lostInfo |-> lostInfo, pc |-> pc, lockOwner |-> lockOwner,
        has_lock |-> has_lock]

failoverVars == <<vars, other>>

FailoverInit ==
  /\ Init
  /\ other = Own

---------------------------------------------------------------------------
(* A step of the process whose turn it is, or of the environment.  The     *)
(* server grants the lock to one process at a time, and a uuid that the    *)
(* peer still remembers does not come back either.                         *)
Step ==
  /\ Next
  /\ lockOwner' => ~other.lockOwner
  /\ \A n \in Names :
       \/ dbIntf'[n].uuid \in {dbIntf[n].uuid, NoUuid}
       \/ dbIntf'[n].uuid \notin {other.idlIntf[n].uuid, other.ovs_intfs[n].uuid}
  /\ \A s \in SubNames :
       \/ dbSub'[s] \in {dbSub[s], NoUuid}
       \/ dbSub'[s] \notin {other.idlSub[s], other.ovs_subs[s]}
  /\ UNCHANGED other

(* The turn goes to the peer. *)
Switch ==
  /\ idlIntf' = other.idlIntf
  /\ idlSub' = other.idlSub
  /\ idlDaemon' = other.idlDaemon
  /\ seqnoMoved' = other.seqnoMoved
  /\ ovs_intfs' = other.ovs_intfs
  /\ ovs_subs' = other.ovs_subs
  /\ yamlPorts' = other.yamlPorts
  /\ cur_hw_set' = other.cur_hw_set
  /\ txn' = other.txn
  /\ yamlFailed' = other.yamlFailed
  /\ lostInfo' = other.lostInfo
  /\ pc' = other.pc
  /\ lockOwner' = other.lockOwner
  /\ has_lock' = other.has_lock
  /\ other' = Own
  /\ UNCHANGED <<hwVars, dbVars, events>>

FailoverNext == Step \/ Switch

FailoverSpec == FailoverInit /\ [][FailoverNext]_failoverVars

---------------------------------------------------------------------------
(* A process that holds no lock has served nothing and will write nothing: *)
(* as long as the lock is lost only by ending (the server takes it from    *)
(* nobody), pmd_run never leaves ports behind in a process that waits, so  *)
(* that a takeover configures every laser and publishes every module anew. *)
StandbyIsBlank ==
  ~lockOwner => txn = NoTxn /\ \A n \in Names : ~Live(n)

(* pmd_run, "another ops-pmd process is running, disabling this process    *)
(* until it goes away": once the owner of the lock has worked off its      *)
(* replica and the replica is up to date, no other process and no earlier  *)
(* tenure of its own leaves an SFP+ laser against the row.                 *)
OwnerLaserFollowsRow ==
  (Synced /\ lockOwner /\ has_lock) => \A n \in Names :
    (/\ Live(n) /\ idlIntf[n] = dbIntf[n]
     /\ Connector[CageOf(n)] = SfpPlus /\ CageOf(n) \notin failedWrite) =>
      (CageOf(n) \in disabled) = ~GetHwEnable(dbIntf[n])
===========================================================================
