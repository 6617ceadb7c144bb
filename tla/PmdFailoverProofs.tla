------------------------- MODULE PmdFailoverProofs -------------------------
(***************************************************************************)
(* Two processes: which properties of Pmd survive a second process under   *)
(* every fault, and which need a lock that its owner keeps until it ends.  *)
(* The invariants of Pmd are stated for the process whose turn it is and,  *)
(* read over its variables, for the peer.                                  *)
(***************************************************************************)
EXTENDS PmdLockProofs, PmdRefinementProofs, PmdFailover

(* The invariants of the peer. *)
Peer == INSTANCE PmdInvariants WITH
  idlIntf    <- other.idlIntf,
  idlSub     <- other.idlSub,
  idlDaemon  <- other.idlDaemon,
  seqnoMoved <- other.seqnoMoved,
  ovs_intfs  <- other.ovs_intfs,
  ovs_subs   <- other.ovs_subs,
  yamlPorts  <- other.yamlPorts,
  cur_hw_set <- other.cur_hw_set,
  txn        <- other.txn,
  yamlFailed <- other.yamlFailed,
  lostInfo   <- other.lostInfo,
  pc         <- other.pc,
  lockOwner  <- other.lockOwner,
  has_lock   <- other.has_lock

(* Under every fault. *)
PairInv == SoloInv /\ Peer!SoloInv

(* With a lock that is kept. *)
ServingInv == SfpRegister /\ QuietPortIsPublished /\ LoopInv /\ TxnRowsLive /\ LockInv

PeerServingInv ==
  /\ Peer!SfpRegister /\ Peer!QuietPortIsPublished
  /\ Peer!LoopInv /\ Peer!TxnRowsLive /\ Peer!LockInv

OneOwner == ~(lockOwner /\ other.lockOwner)

KeptInv == PairInv /\ ServingInv /\ PeerServingInv /\ OneOwner

---------------------------------------------------------------------------
(* The turn.                                                               *)

(* The sets and records of the instance are those of the module. *)
LEMMA SameSets ==
  /\ Peer!Port = Port
  /\ Peer!Row = Row
  /\ Peer!PmInfo = PmInfo
  /\ Peer!NoTxn = NoTxn
<1>1. Peer!Columns = Columns
  BY DEF Columns, Peer!Columns, ConnectorValues, Peer!ConnectorValues, StatusValues,
         Peer!StatusValues, SpeedValues, Peer!SpeedValues, VendorValues,
         Peer!VendorValues, Null, Peer!Null
<1>2. Peer!PmInfo = PmInfo
  BY DEF PmInfo, Peer!PmInfo, ConnectorValues, Peer!ConnectorValues, StatusValues,
         Peer!StatusValues, SpeedValues, Peer!SpeedValues, Null, Peer!Null
<1> QED
  BY <1>1, <1>2 DEF Port, Peer!Port, Row, Peer!Row, NoTxn, Peer!NoTxn

(* What the turn exchanges. *)
LEMMA SwitchVariables ==
  ASSUME Switch
  PROVE  /\ other'.idlIntf = idlIntf /\ other'.idlSub = idlSub
         /\ other'.idlDaemon = idlDaemon /\ other'.seqnoMoved = seqnoMoved
         /\ other'.ovs_intfs = ovs_intfs /\ other'.ovs_subs = ovs_subs
         /\ other'.yamlPorts = yamlPorts /\ other'.cur_hw_set = cur_hw_set
         /\ other'.txn = txn /\ other'.yamlFailed = yamlFailed
         /\ other'.lostInfo = lostInfo /\ other'.pc = pc
         /\ other'.lockOwner = lockOwner /\ other'.has_lock = has_lock
         /\ UNCHANGED <<slot, disabled, inReset, failedWrite,
                        dbIntf, dbInfo, dbSub, dbCurHw, events>>
  BY DEF Switch, Own, hwVars, dbVars

LEMMA SwitchSolo ==
  ASSUME Switch
  PROVE  /\ Peer!SoloInv => SoloInv'
         /\ SoloInv => Peer!SoloInv'
<1>1. Peer!TypeOK => TypeOK'
  BY SameSets, SwitchVariables
     DEF Switch, TypeOK, HwTypeOK, DbTypeOK, PmdTypeOK, Peer!TypeOK, Peer!HwTypeOK,
         Peer!DbTypeOK, Peer!PmdTypeOK
<1>2. TypeOK => Peer!TypeOK'
  BY SameSets, SwitchVariables
     DEF TypeOK, HwTypeOK, DbTypeOK, PmdTypeOK, Peer!TypeOK, Peer!HwTypeOK,
         Peer!DbTypeOK, Peer!PmdTypeOK
<1>3. /\ Peer!TablesConsistent(dbIntf, dbSub) => TablesConsistent(dbIntf, dbSub)'
      /\ Peer!TablesConsistent(other.idlIntf, other.idlSub) => TablesConsistent(idlIntf, idlSub)'
      /\ Peer!PortsMirrorReplica => PortsMirrorReplica'
      /\ Peer!PortsComplete => PortsComplete'
      /\ Peer!YamlLoaded => YamlLoaded'
      /\ Peer!TxnOnlyAtCommit => TxnOnlyAtCommit'
  BY SameSets, SwitchVariables
     DEF Switch, TablesConsistent, PortsMirrorReplica, PortsComplete, YamlLoaded,
         TxnOnlyAtCommit, Live, GetHwEnable, Peer!TablesConsistent,
         Peer!PortsMirrorReplica, Peer!PortsComplete, Peer!YamlLoaded,
         Peer!TxnOnlyAtCommit, Peer!Live, Peer!GetHwEnable
<1>4. /\ TablesConsistent(dbIntf, dbSub) => Peer!TablesConsistent(dbIntf, dbSub)'
      /\ TablesConsistent(idlIntf, idlSub) => Peer!TablesConsistent(other.idlIntf, other.idlSub)'
      /\ PortsMirrorReplica => Peer!PortsMirrorReplica'
      /\ PortsComplete => Peer!PortsComplete'
      /\ YamlLoaded => Peer!YamlLoaded'
      /\ TxnOnlyAtCommit => Peer!TxnOnlyAtCommit'
  BY SameSets, SwitchVariables
     DEF TablesConsistent, PortsMirrorReplica, PortsComplete, YamlLoaded,
         TxnOnlyAtCommit, Live, GetHwEnable, Peer!TablesConsistent,
         Peer!PortsMirrorReplica, Peer!PortsComplete, Peer!YamlLoaded,
         Peer!TxnOnlyAtCommit, Peer!Live, Peer!GetHwEnable
<1> QED BY <1>1, <1>2, <1>3, <1>4 DEF SoloInv, Peer!SoloInv

LEMMA SwitchServing ==
  ASSUME Switch
  PROVE  /\ PeerServingInv => ServingInv'
         /\ ServingInv => PeerServingInv'
<1> USE SameSets, SwitchVariables
<1>1. /\ Peer!SfpRegister => SfpRegister'
      /\ SfpRegister => Peer!SfpRegister'
  BY DEF Switch, SfpRegister, Live, SfpPlus, CageOf, ModuleDevice, Peer!SfpRegister,
         Peer!Live, Peer!SfpPlus, Peer!CageOf, Peer!ModuleDevice
<1>2. /\ Peer!QuietPortIsPublished => QuietPortIsPublished'
      /\ QuietPortIsPublished => Peer!QuietPortIsPublished'
  BY DEF Switch, QuietPortIsPublished, Live, Published, Peer!QuietPortIsPublished,
         Peer!Live, Peer!Published
<1>3. /\ Peer!LoopInv => LoopInv'
      /\ LoopInv => Peer!LoopInv'
  BY DEF Switch, LoopInv, InLoopSynced, ScannedBeforeUpdate, FlushedBeforeCommit,
         IdentifiedPort, Live, Null, Peer!LoopInv, Peer!InLoopSynced,
         Peer!ScannedBeforeUpdate, Peer!FlushedBeforeCommit, Peer!IdentifiedPort,
         Peer!Live, Peer!Null
<1>4. /\ Peer!TxnRowsLive => TxnRowsLive'
      /\ TxnRowsLive => Peer!TxnRowsLive'
  BY DEF Switch, TxnRowsLive, Live, Peer!TxnRowsLive, Peer!Live
<1>5. /\ Peer!LockInv => LockInv'
      /\ LockInv => Peer!LockInv'
  BY DEF Switch, LockInv, Blank, Live, Peer!LockInv, Peer!Blank, Peer!Live
<1> QED BY <1>1, <1>2, <1>3, <1>4, <1>5 DEF ServingInv, PeerServingInv

(* A step in which the turn stays where it is. *)
SameTurn ==
  /\ [Next]_vars
  /\ UNCHANGED other
  /\ OneOwner => OneOwner'
  /\ \A n \in Names :
       \/ dbIntf'[n].uuid \in {dbIntf[n].uuid, NoUuid}
       \/ dbIntf'[n].uuid # other.ovs_intfs[n].uuid

LEMMA TurnCases ==
  ASSUME [FailoverNext]_failoverVars
  PROVE  SameTurn \/ Switch
<1>1. CASE Step
  BY <1>1 DEF Step, SameTurn, OneOwner
<1>2. CASE UNCHANGED failoverVars
  BY <1>2 DEF failoverVars, vars, ctlVars, dbVars, SameTurn, OneOwner
<1> QED BY <1>1, <1>2 DEF FailoverNext

---------------------------------------------------------------------------
(* Under every fault.                                                      *)

LEMMA PairPreserved ==
  ASSUME PairInv, [FailoverNext]_failoverVars
  PROVE  PairInv'
<1>1. CASE SameTurn
  <2>1. SoloInv'
    BY <1>1, NextSolo DEF SameTurn, PairInv
  <2>2. Peer!TypeOK'
    BY <1>1, <2>1, SameSets
       DEF PairInv, SameTurn, SoloInv, TypeOK, HwTypeOK, DbTypeOK, Peer!SoloInv,
           Peer!TypeOK, Peer!HwTypeOK, Peer!DbTypeOK, Peer!PmdTypeOK
  <2>3. Peer!TablesConsistent(dbIntf, dbSub)'
    BY <2>1 DEF SoloInv, TablesConsistent, Peer!TablesConsistent
  <2>4. /\ Peer!TablesConsistent(other.idlIntf, other.idlSub)'
        /\ Peer!PortsMirrorReplica'
        /\ Peer!PortsComplete'
        /\ Peer!YamlLoaded'
        /\ Peer!TxnOnlyAtCommit'
    BY <1>1 DEF PairInv, SameTurn, Peer!SoloInv, Peer!TablesConsistent,
                Peer!PortsMirrorReplica, Peer!PortsComplete, Peer!YamlLoaded,
                Peer!TxnOnlyAtCommit, Peer!Live, Peer!NoTxn
  <2> QED BY <2>1, <2>2, <2>3, <2>4 DEF PairInv, Peer!SoloInv
<1>2. CASE Switch
  BY <1>2, SwitchSolo DEF PairInv
<1> QED BY <1>1, <1>2, TurnCases

(* Before they start, both processes are as Init says. *)
LEMMA InitPair == FailoverInit => PairInv
<1> SUFFICES ASSUME FailoverInit PROVE PairInv
  OBVIOUS
<1>1. SoloInv
  BY InitIInv DEF FailoverInit, IInv
<1>2. Peer!TypeOK
  BY <1>1, SameSets
     DEF FailoverInit, Own, SoloInv, TypeOK, HwTypeOK, DbTypeOK, PmdTypeOK,
         Peer!TypeOK, Peer!HwTypeOK, Peer!DbTypeOK, Peer!PmdTypeOK
<1>3. /\ Peer!TablesConsistent(dbIntf, dbSub)
      /\ Peer!TablesConsistent(other.idlIntf, other.idlSub)
      /\ Peer!PortsMirrorReplica
      /\ Peer!PortsComplete
      /\ Peer!YamlLoaded
      /\ Peer!TxnOnlyAtCommit
  BY <1>1, SameSets
     DEF FailoverInit, Own, SoloInv, TablesConsistent, PortsMirrorReplica, PortsComplete,
         YamlLoaded, TxnOnlyAtCommit, Live, GetHwEnable, Peer!TablesConsistent,
         Peer!PortsMirrorReplica, Peer!PortsComplete, Peer!YamlLoaded,
         Peer!TxnOnlyAtCommit, Peer!Live, Peer!GetHwEnable
<1> QED BY <1>1, <1>2, <1>3 DEF PairInv, Peer!SoloInv

(* Two processes, any faults: types, tables and replicas are consistent,   *)
(* and the ports of each process are those of its own replica.             *)
THEOREM PairInductive == FailoverSpec => []PairInv
<1>1. PairInv /\ [FailoverNext]_failoverVars => PairInv'
  BY PairPreserved
<1> QED BY <1>1, InitPair, PTL DEF FailoverSpec

(* pmd_reconfigure: a second process and a stolen lock do not make a       *)
(* process keep a port whose row is gone or re-created.                    *)
THEOREM PairPortsMirrorRows == FailoverSpec => []PortMirrorsRow
<1>1. PairInv => PortMirrorsRow
  BY DEF PairInv, SoloInv, PortsMirrorReplica, PortMirrorsRow, Synced
<1> QED BY <1>1, PairInductive, PTL

(* ovsdb_if_subsys_process: nor do they make it miss an interface.         *)
THEOREM PairPortsForAllRows == FailoverSpec => []PortForEveryRow
<1>1. PairInv => PortForEveryRow
  BY DEF PairInv, SoloInv, PortsComplete, PortForEveryRow, Synced
<1> QED BY <1>1, PairInductive, PTL

(* pm_configure_port: neither process switches a laser away from what its  *)
(* own replica asks, even where it has lost the lock; what the run split   *)
(* shows is one replica that is older than the other.                      *)
THEOREM PairLasersMoveTowardsRows == FailoverSpec => LaserMovesTowardsRow
<1>1. ASSUME TypeOK, [FailoverNext]_failoverVars, slot' = slot, NEW c \in Cages,
             (c \in disabled') # (c \in disabled)
      PROVE  \E n \in Names : /\ Live(n)' /\ CageOf(n)' = c
                              /\ (c \in disabled') = ~GetHwEnable(idlIntf[n])
  <2>1. ~Switch
    BY <1>1 DEF Switch, hwVars
  <2> QED BY <1>1, <2>1, TurnCases, LaserStep DEF SameTurn
<1>2. TypeOK /\ [FailoverNext]_failoverVars =>
        [slot' = slot => \A c \in Cages :
           (c \in disabled') # (c \in disabled) =>
              \E n \in Names : /\ Live(n)' /\ CageOf(n)' = c
                               /\ (c \in disabled') = ~GetHwEnable(idlIntf[n])]_vars
  BY <1>1
<1>3. PairInv => TypeOK
  BY DEF PairInv, SoloInv
<1> QED BY <1>2, <1>3, PairInductive, PTL DEF FailoverSpec, LaserMovesTowardsRow

---------------------------------------------------------------------------
(* With a lock that is kept.                                               *)

(* A process that has work of its own has the lock, and the other is then  *)
(* before the check of the lock, with nothing in its hands.                *)
LEMMA PeerWaits ==
  ASSUME LockInv, Peer!LockInv, OneOwner, ~Peer!Blank
  PROVE  ~has_lock /\ pc \in {"stopped", "idle"} /\ Blank
  BY DEF LockInv, Peer!LockInv, OneOwner

(* A process that waits writes neither to the hardware nor to the tables;  *)
(* what happens then comes from outside of both.                           *)
LEMMA WaitingStep ==
  ASSUME [Next]_vars, pc \in {"stopped", "idle"}
  PROVE  \/ UNCHANGED <<hwVars, dbVars>>
         \/ (Env \/ UNCHANGED vars) /\ Outside /\ ~PmdExit /\ ~Crash
<1>1. Rebirth \/ IdlRun => UNCHANGED <<hwVars, dbVars>>
  BY DEF Rebirth, IdlRun
<1>2. ~Reconfigure /\ ~Scan /\ ~Update /\ ~Commit
  BY DEF Reconfigure, Scan, Update, Commit
<1>3. PmdExit \/ Crash => UNCHANGED <<hwVars, dbVars>>
  BY DEF PmdExit, Crash, Halt
<1> QED BY <1>1, <1>2, <1>3, StepCases

(* The environment changes the pm_info of a row only with its uuid. *)
LEMMA InfoGoesWithRow ==
  ASSUME TypeOK, Env \/ UNCHANGED vars, Outside, ~PmdExit, ~Crash,
         NEW n \in Names, dbInfo'[n] # dbInfo[n]
  PROVE  dbIntf'[n].uuid # dbIntf[n].uuid
  BY EnvironmentMapped DEF Service!Configure, Service!Exchange, Service!vars

(* The step of a process leaves to its peer what the peer has done.        *)
LEMMA PeerUndisturbed ==
  ASSUME KeptInv, SameTurn
  PROVE  Peer!SfpRegister' /\ Peer!QuietPortIsPublished'
<1>0. /\ TypeOK /\ LockInv /\ Peer!LockInv /\ OneOwner
      /\ Peer!SfpRegister /\ Peer!QuietPortIsPublished
  BY DEF KeptInv, PairInv, SoloInv, ServingInv, PeerServingInv
<1>1. CASE Peer!Blank
  BY <1>1 DEF SameTurn, Peer!Blank, Peer!Live, Peer!SfpRegister, Peer!QuietPortIsPublished
<1>2. CASE UNCHANGED <<hwVars, dbVars>>
  <2>1. Peer!SfpRegister'
    BY <1>0, <1>2 DEF SameTurn, hwVars, Peer!Live, Peer!CageOf, Peer!ModuleDevice,
                      Peer!SfpRegister
  <2>2. Peer!QuietPortIsPublished'
    BY <1>0, <1>2 DEF SameTurn, dbVars, Peer!Live, Peer!QuietPortIsPublished, Peer!Published
  <2> QED BY <2>1, <2>2
<1>3. CASE (Env \/ UNCHANGED vars) /\ Outside /\ ~PmdExit /\ ~Crash
  <2>1. Peer!SfpRegister'
    <3>1. \A n \in Names : Peer!CageOf(n)' = Peer!CageOf(n)
      BY DEF SameTurn, Peer!CageOf, Peer!ModuleDevice
    <3>2. \A n \in Names : Connector[Peer!CageOf(n)] = SfpPlus =>
            /\ (Peer!CageOf(n) \in disabled') = (Peer!CageOf(n) \in disabled)
            /\ failedWrite' = failedWrite
      BY <1>3, EnvSpareSfp
    <3> QED BY <1>0, <3>1, <3>2 DEF SameTurn, SfpPlus, Peer!SfpPlus, Peer!Live, Peer!SfpRegister
  <2>2. ASSUME NEW n \in Names, other.ovs_intfs[n].uuid # NoUuid,
               other.ovs_intfs[n].uuid = dbIntf'[n].uuid
        PROVE  dbIntf[n].uuid = dbIntf'[n].uuid /\ dbInfo'[n] = dbInfo[n]
    <3>1. dbIntf[n].uuid = dbIntf'[n].uuid
      BY <2>2 DEF SameTurn
    <3> QED BY <1>0, <1>3, <3>1, InfoGoesWithRow
  <2>3. Peer!QuietPortIsPublished'
    BY <1>0, <2>2 DEF SameTurn, Peer!Live, Peer!QuietPortIsPublished, Peer!Published
  <2> QED BY <2>1, <2>3
<1>4. CASE ~Peer!Blank
  <2>1. pc \in {"stopped", "idle"}
    BY <1>0, <1>4, PeerWaits
  <2> QED BY <1>2, <1>3, <2>1, WaitingStep DEF SameTurn
<1> QED BY <1>1, <1>4

LEMMA KeptPreserved ==
  ASSUME "lock" \notin Faults, KeptInv, PairInv', [FailoverNext]_failoverVars
  PROVE  KeptInv'
<1>1. CASE SameTurn
  <2>0. [Next]_vars /\ IInv /\ LoopInv /\ TxnRowsLive /\ LockInv
    BY <1>1 DEF KeptInv, SameTurn, PairInv, ServingInv, IInv
  <2>1. ServingInv'
    BY <2>0, NextIInv, LoopPreserved, TxnRowsPreserved, LockPreserved DEF ServingInv, IInv
  <2>2. Peer!LoopInv' /\ Peer!TxnRowsLive' /\ Peer!LockInv'
    BY <1>1 DEF KeptInv, SameTurn, PeerServingInv, Peer!LoopInv, Peer!InLoopSynced,
                Peer!ScannedBeforeUpdate, Peer!FlushedBeforeCommit, Peer!IdentifiedPort,
                Peer!Live, Peer!Null, Peer!TxnRowsLive, Peer!LockInv, Peer!Blank, Peer!NoTxn
  <2>3. PeerServingInv'
    BY <1>1, <2>2, PeerUndisturbed DEF PeerServingInv
  <2>4. OneOwner'
    BY <1>1 DEF SameTurn, KeptInv
  <2> QED BY <2>1, <2>3, <2>4 DEF KeptInv
<1>2. CASE Switch
  <2>1. OneOwner'
    BY <1>2, SwitchVariables DEF KeptInv, OneOwner, Switch
  <2> QED BY <1>2, <2>1, SwitchServing DEF KeptInv
<1> QED BY <1>1, <1>2, TurnCases

LEMMA InitKept == FailoverInit => KeptInv
<1> SUFFICES ASSUME FailoverInit PROVE KeptInv
  OBVIOUS
<1>1. PairInv
  BY InitPair
<1>2. IInv /\ LockInv /\ \A n \in Names : ~Live(n)
  BY InitIInv, InitLock DEF FailoverInit, Init, Live, NoPort, NewPort
<1>3. pc = "stopped" /\ ~lockOwner /\ txn = NoTxn
  BY DEF FailoverInit, Init
<1>4. ServingInv
  BY <1>2, <1>3 DEF ServingInv, IInv, LoopInv, InLoopSynced, ScannedBeforeUpdate,
                    FlushedBeforeCommit, IdentifiedPort, TxnRowsLive, NoTxn
<1>5. PeerServingInv
  <2>1. /\ other.pc = pc /\ other.lockOwner = lockOwner /\ other.has_lock = has_lock
        /\ other.txn = txn /\ other.ovs_intfs = ovs_intfs
        /\ other.lostInfo = lostInfo /\ other.yamlFailed = yamlFailed
    BY DEF FailoverInit, Own
  <2>2. \A n \in Names : ~Peer!Live(n)
    BY <1>2, <2>1 DEF Live, Peer!Live
  <2>3. Peer!LockInv
    BY <1>2, <2>1, <2>2, SameSets DEF LockInv, Blank, Peer!LockInv, Peer!Blank
  <2> QED
    BY <1>3, <2>1, <2>2, <2>3
       DEF PeerServingInv, Peer!SfpRegister, Peer!QuietPortIsPublished, Peer!LoopInv,
           Peer!InLoopSynced, Peer!ScannedBeforeUpdate, Peer!FlushedBeforeCommit,
           Peer!IdentifiedPort, Peer!TxnRowsLive, NoTxn
<1>6. OneOwner
  BY <1>3 DEF OneOwner
<1> QED BY <1>1, <1>4, <1>5, <1>6 DEF KeptInv

(* Two processes and a lock that passes on only when its owner ends: the   *)
(* invariants of the single daemon hold for both, at most one of them has  *)
(* the lock, and only that one serves anything.                            *)
THEOREM KeptInductive == ASSUME "lock" \notin Faults PROVE FailoverSpec => []KeptInv
<1>1. KeptInv /\ PairInv' /\ [FailoverNext]_failoverVars => KeptInv'
  BY KeptPreserved
<1> QED BY <1>1, InitKept, PairInductive, PTL DEF FailoverSpec

(* pmd_run: a process that waits for the lock holds no port and no open    *)
(* transaction, so that it takes over without a memory of its own.         *)
THEOREM StandbysAreBlank ==
  ASSUME "lock" \notin Faults PROVE FailoverSpec => []StandbyIsBlank
<1>1. KeptInv => StandbyIsBlank
  BY DEF KeptInv, ServingInv, LockInv, Blank, StandbyIsBlank
<1> QED BY <1>1, KeptInductive, PTL

(* pm_configure_port: through any number of takeovers the register of an   *)
(* SFP+ cage agrees with the row, although neither process ever reads it.  *)
THEOREM PairSfpLasersFollow ==
  ASSUME "lock" \notin Faults PROVE FailoverSpec => []SfpLaserFollowsRow
<1>1. KeptInv => SfpLaserFollowsRow
  BY DEF KeptInv, PairInv, SoloInv, ServingInv, PortsMirrorReplica, SfpRegister,
         SfpLaserFollowsRow, Synced
<1> QED BY <1>1, KeptInductive, PTL

(* pmd_run, "disabling this process until it goes away": the promise that  *)
(* the run split refutes holds as soon as the lock is taken from nobody.   *)
THEOREM OwnerLasersFollow ==
  ASSUME "lock" \notin Faults PROVE FailoverSpec => []OwnerLaserFollowsRow
<1>1. KeptInv => OwnerLaserFollowsRow
  BY DEF KeptInv, PairInv, SoloInv, ServingInv, PortsMirrorReplica, SfpRegister,
         OwnerLaserFollowsRow, Synced
<1> QED BY <1>1, KeptInductive, PTL

(* pm_ovsdb_update: what one process has published the other does not      *)
(* take back while the first one still believes in it.                     *)
THEOREM PairQuietPortsPublished ==
  ASSUME "lock" \notin Faults PROVE FailoverSpec => []QuietPortIsPublished
<1>1. KeptInv => QuietPortIsPublished
  BY DEF KeptInv, ServingInv
<1> QED BY <1>1, KeptInductive, PTL

(* pm_ovsdb_update: whichever of the two announces itself in cur_hw, it    *)
(* has published every module it has found.                                *)
THEOREM PairCurHwComesLast ==
  ASSUME "lock" \notin Faults PROVE FailoverSpec => CurHwAfterModules
<1>1. ASSUME KeptInv, [FailoverNext]_failoverVars, dbCurHw # "1", dbCurHw' = "1",
             NEW n \in Names \ lostInfo, Live(n), ovs_intfs[n].uuid = dbIntf[n].uuid
      PROVE  dbInfo'[n] = Published(ovs_intfs[n].columns) /\ dbInfo'[n] # NoInfo
  <2>1. ~Switch
    BY <1>1, SwitchVariables
  <2>2. IInv /\ LoopInv /\ [Next]_vars
    BY <1>1, <2>1, TurnCases DEF SameTurn, KeptInv, PairInv, ServingInv, IInv
  <2> QED BY <1>1, <2>2, CurHwCommit
<1>2. KeptInv /\ [FailoverNext]_failoverVars =>
        [(dbCurHw # "1" /\ dbCurHw' = "1") =>
           \A n \in Names \ lostInfo :
             (Live(n) /\ ovs_intfs[n].uuid = dbIntf[n].uuid) =>
                dbInfo'[n] = Published(ovs_intfs[n].columns) /\ dbInfo'[n] # NoInfo]_vars
  BY <1>1
<1> QED BY <1>2, KeptInductive, PTL DEF FailoverSpec, CurHwAfterModules
============================================================================
