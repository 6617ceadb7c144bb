--------------------------- MODULE PmdInvariants ---------------------------
(***************************************************************************)
(* The inductive invariants of Pmd, without their proofs, so that they can *)
(* be model-checked, and read over the variables of another process.       *)
(***************************************************************************)
EXTENDS Pmd

(* A missing row is listed nowhere, and only existing subsystems list. *)
TablesConsistent(intf, sub) ==
  \A n \in Names :
    /\ intf[n].uuid = NoUuid => intf[n].sub = NoSub
    /\ intf[n].sub # NoSub => sub[intf[n].sub] # NoUuid

(* The ports are those of the replica, unless the seqno says otherwise. *)
PortsMirrorReplica ==
  ~seqnoMoved => \A n \in Names : Live(n) =>
    /\ ovs_intfs[n].uuid = idlIntf[n].uuid
    /\ ovs_intfs[n].hw_enable = GetHwEnable(idlIntf[n])

PortsComplete ==
  ~seqnoMoved => \A n \in Names :
    (idlIntf[n].sub \in SubNames \ yamlFailed /\ n \in Described[idlIntf[n].sub])
      => Live(n)

(* A subsystem that is known and was read without error is fully read. *)
YamlLoaded ==
  \A s \in SubNames \ yamlFailed :
    ovs_subs[s] # NoUuid => yamlPorts[s] = Described[s]

(* The register follows the port at every moment, synced or not. *)
SfpRegister ==
  \A n \in Names :
    (Live(n) /\ Connector[CageOf(n)] = SfpPlus /\ CageOf(n) \notin failedWrite) =>
      (CageOf(n) \in disabled) = ~ovs_intfs[n].hw_enable

(* A transaction is open only between its assembly and its commit. *)
TxnOnlyAtCommit == pc # "commit" => txn = NoTxn

(* What concerns the process and the tables, and not the hardware or the   *)
(* reports, which a second process could write too.                        *)
SoloInv ==
  /\ TypeOK
  /\ TablesConsistent(dbIntf, dbSub)
  /\ TablesConsistent(idlIntf, idlSub)
  /\ PortsMirrorReplica
  /\ PortsComplete
  /\ YamlLoaded
  /\ TxnOnlyAtCommit

IInv == SoloInv /\ SfpRegister /\ QuietPortIsPublished

---------------------------------------------------------------------------
(* The order of the phases.                                                *)

InLoopSynced == pc \in {"scan", "update", "commit"} => ~seqnoMoved

ScannedBeforeUpdate ==
  pc \in {"update", "commit"} => \A n \in Names : Live(n) =>
    ovs_intfs[n].present /\ ovs_intfs[n].columns.connector # Null

FlushedBeforeCommit ==
  pc = "commit" => \A n \in Names : Live(n) => ~ovs_intfs[n].module_info_changed

(* A scanned port has a connector, be it "unknown". *)
IdentifiedPort ==
  \A n \in Names : (Live(n) /\ ovs_intfs[n].present) =>
    ovs_intfs[n].columns.connector # Null

LoopInv == InLoopSynced /\ ScannedBeforeUpdate /\ FlushedBeforeCommit /\ IdentifiedPort

(* A transaction reports on ports only. *)
TxnRowsLive == \A n \in txn.rows : Live(n)

---------------------------------------------------------------------------
(* The lock, where the server takes it from nobody ("lock" is not among    *)
(* the faults).                                                            *)

(* Nothing served, nothing to publish, nothing lost. *)
Blank ==
  /\ txn = NoTxn
  /\ lostInfo = {}
  /\ yamlFailed = {}
  /\ \A n \in Names : ~Live(n)

(* The phases after the check of the lock are entered with it, and before  *)
(* a process has seen the lock it has done nothing.                        *)
LockInv ==
  /\ has_lock => lockOwner
  /\ pc \notin {"stopped", "idle"} => has_lock
  /\ ~has_lock => Blank

(* Only a refused transaction loses a report, or the announcement. *)
NothingLost ==
  /\ lostInfo = {}
  /\ cur_hw_set => dbCurHw = "1" \/ txn.cur_hw
============================================================================
