------------------------ MODULE PmdRefinementProofs ------------------------
(***************************************************************************)
(* Every behaviour of Pmd is a behaviour of PmService, proved for every    *)
(* value of the constants: the initial states correspond, and every step   *)
(* is a step of the service or leaves its state alone.                     *)
(***************************************************************************)
EXTENDS PmdProofs, PmdRefinement

---------------------------------------------------------------------------
(* The daemon's steps.                                                     *)

(* A process that starts or ends. *)
LEMMA RebirthStops == Rebirth => Service!Stop
  BY DEF Rebirth, OvsdbIfInit, hwVars, dbVars, Live, NoPort, NewPort, NoRow, ServedAt, Service!Stop

(* ovsdb_idl_run. *)
LEMMA IdlRunLooks == IdlRun => Service!Look
  BY DEF IdlRun, IdlCatchUp, hwVars, dbVars, Live, ServedAt, Service!Look

(* pmd_reconfigure with something to do. *)
LEMMA ReconfigureServes ==
  ASSUME IInv, IInv', Reconfigure, seqnoMoved
  PROVE  Service!Serve
<1> DEFINE served == {n \in Names : Live(n)}
           sfp    == {c \in Cages : Connector[c] = SfpPlus}
<1>0. TypeOK
  BY DEF IInv, SoloInv
<1>1. /\ UNCHANGED <<dbIntf, dbInfo, dbCurHw, idlIntf>>
      /\ lostInfo' \subseteq lostInfo
      /\ ~seqnoMoved'
  BY <1>0, ReconfigureEffect DEF dbVars, idlVars
<1>2. \A n \in Names : Live(n)' =>
        ovs_intfs'[n].uuid = idlIntf[n].uuid /\ ovs_intfs'[n].hw_enable = GetHwEnable(idlIntf[n])
  BY <1>0, ReconfigurePorts
<1>3. Service!Demanded(idlIntf, yamlFailed') \subseteq served'
  BY <1>1 DEF IInv, SoloInv, PortsComplete, Service!Demanded
<1>4. \A n \in served' : Service!Exists(idlIntf[n]) /\ ServedAt'[n] \in {ServedAt[n], idlIntf[n].sub}
  BY <1>0, <1>2, ReconfigurePorts DEF Live, ServedAt, Service!Exists, NoRow
<1>5. \A n \in served' : Service!Laser(n)' = CageOf(n)'
  BY DEF ServedAt, Service!Laser, CageOf, ModuleDevice
<1>6. ASSUME NEW c \in (disabled \ disabled') \cup (disabled' \ disabled)
      PROVE  \E n \in served' : Service!Laser(n)' = c
                              /\ (c \in disabled') = ~Service!Enabled(idlIntf[n])
  BY <1>0, <1>5, ReconfigureLasers DEF Service!Enabled, GetHwEnable
<1>7. ASSUME NEW n \in served', Service!Laser(n)' \in sfp \ failedWrite'
      PROVE  (Service!Laser(n)' \in disabled') = ~Service!Enabled(idlIntf[n])
  <2>1. CageOf(n)' = Service!Laser(n)'
    BY <1>5
  <2>2. (CageOf(n)' \in disabled') = ~ovs_intfs'[n].hw_enable
    BY <1>7, <2>1 DEF IInv, SoloInv, SfpRegister
  <2> QED BY <1>2, <2>1, <2>2 DEF Service!Enabled, GetHwEnable
<1> QED BY <1>1, <1>3, <1>4, <1>6, <1>7 DEF Service!Serve

(* pm_read_state and the assembly of the transaction are not seen from     *)
(* outside.                                                                *)
LEMMA QuietPhases ==
  ASSUME TypeOK, Scan \/ Update \/ (Reconfigure /\ ~seqnoMoved)
  PROVE  UNCHANGED Service!vars
<1>1. \A n \in Names : /\ Live(n)' <=> Live(n)
                       /\ ovs_intfs'[n].subsystem = ovs_intfs[n].subsystem
  <2>1. CASE Scan
    BY <2>1, ScanEffect DEF Live
  <2>2. CASE Update
    BY <2>2, UpdateEffect DEF Live
  <2>3. CASE Reconfigure /\ ~seqnoMoved
    BY <2>3, ReconfigureIdle DEF pmdVars, Live
  <2> QED BY <2>1, <2>2, <2>3
<1>2. UNCHANGED <<dbIntf, dbInfo, dbCurHw, disabled, idlIntf, lostInfo, failedWrite, yamlFailed>>
  <2>1. CASE Scan
    BY <2>1 DEF Scan, PmReadState, dbVars, hwVars, idlVars
  <2>2. CASE Update
    BY <2>2 DEF Update, BuildTxn, dbVars, hwVars, idlVars
  <2>3. CASE Reconfigure /\ ~seqnoMoved
    BY <2>3, ReconfigureIdle DEF dbVars, hwVars, idlVars, pmdVars
  <2> QED BY <2>1, <2>2, <2>3
<1>3. /\ {n \in Names : Live(n)}' = {n \in Names : Live(n)}
      /\ UNCHANGED ServedAt
  BY <1>1 DEF ServedAt
<1> QED BY <1>2, <1>3 DEF Service!vars

(* The commit, accepted or refused. *)
LEMMA CommitReports ==
  ASSUME IInv, LoopInv, TxnRowsLive, Commit
  PROVE  Service!Report \/ Service!Lose
<1>1. PICK success \in BOOLEAN : CommitTxn(success)
  BY DEF Commit
<1>2. UNCHANGED <<dbIntf, disabled, idlIntf, ovs_intfs, failedWrite, yamlFailed>>
  BY <1>1 DEF CommitTxn, idlVars, hwVars
<1>3. /\ {n \in Names : Live(n)}' = {n \in Names : Live(n)}
      /\ UNCHANGED ServedAt
  BY <1>2 DEF Live, ServedAt
<1>4. txn.rows \subseteq Names
  BY DEF IInv, SoloInv, TypeOK, PmdTypeOK
<1>5. CASE ~success
  <2>1. lostInfo' = lostInfo \cup txn.rows /\ UNCHANGED <<dbInfo, dbCurHw>>
    BY <1>1, <1>5 DEF CommitTxn
  <2> QED BY <1>2, <1>3, <1>4, <2>1 DEF TxnRowsLive, Service!Lose
<1>6. CASE success
  <2>1. /\ dbInfo' = [n \in Names |->
                 IF n \in txn.rows /\ dbIntf[n].uuid = ovs_intfs[n].uuid
                 THEN Published(ovs_intfs[n].columns) ELSE dbInfo[n]]
        /\ dbCurHw' = IF txn.cur_hw THEN "1" ELSE dbCurHw
        /\ lostInfo' = lostInfo \ txn.rows
    BY <1>1, <1>6 DEF CommitTxn
  <2>2. \A n \in Names : Live(n) =>
          /\ ovs_intfs[n].uuid = idlIntf[n].uuid
          /\ ovs_intfs[n].columns.connector # Null
    BY DEF Commit, LoopInv, InLoopSynced, ScannedBeforeUpdate, IInv, SoloInv, PortsMirrorReplica
  <2>3. ASSUME NEW n \in Names, dbInfo'[n] # dbInfo[n]
        PROVE  n \in {m \in Names : Live(m)} /\ Service!Current(n) /\ dbInfo'[n] # NoInfo
    <3>1. /\ n \in txn.rows /\ dbIntf[n].uuid = ovs_intfs[n].uuid
          /\ dbInfo'[n] = Published(ovs_intfs[n].columns)
      BY <2>1, <2>3
    <3> QED BY <2>2, <3>1 DEF TxnRowsLive, Service!Current, Published, NoInfo
  <2>4. ASSUME dbCurHw' # dbCurHw,
               NEW n \in {m \in Names : Live(m)} \ lostInfo, Service!Current(n)
        PROVE  dbInfo'[n] # NoInfo
    <3>1. dbCurHw' = "1" /\ dbCurHw # "1"
      BY <2>1, <2>4
    <3>2. ovs_intfs[n].uuid = dbIntf[n].uuid
      BY <2>2, <2>4 DEF Service!Current
    <3>3. [Next]_vars
      BY DEF Next, Loop
    <3> QED BY <2>4, <3>1, <3>2, <3>3, CurHwCommit
  <2>5. dbCurHw' # dbCurHw => dbCurHw' = "1"
    BY <2>1
  <2> QED BY <1>2, <1>3, <2>1, <2>3, <2>4, <2>5 DEF Service!Report
<1> QED BY <1>5, <1>6

---------------------------------------------------------------------------
(* The environment's steps.                                                *)

(* Rows are written by other clients. *)
LEMMA RowsConfigure ==
  ASSUME TypeOK, Outside, NEW m \in Names,
         AddInterface(m) \/ DelInterface(m) \/ MoveInterface(m) \/ SetHwEnable(m)
  PROVE  Service!Configure
<1>1. UNCHANGED <<disabled, failedWrite, dbCurHw>>
  BY DEF AddInterface, DelInterface, MoveInterface, SetHwEnable, SetRow, hwVars
<1>2. UNCHANGED <<idlIntf, ovs_intfs, lostInfo, yamlFailed>>
  BY DEF Outside, idlVars, pmdVars
<1>3. /\ {n \in Names : Live(n)}' = {n \in Names : Live(n)}
      /\ UNCHANGED ServedAt
  BY <1>2 DEF Live, ServedAt
<1>4. ASSUME NEW n \in Names, dbInfo'[n] # dbInfo[n]
      PROVE  dbInfo'[n] = NoInfo /\ dbIntf'[n].uuid # dbIntf[n].uuid
  <2>1. CASE AddInterface(m)
    <3>1. dbInfo' = [dbInfo EXCEPT ![m] = NoInfo] /\ dbIntf[m].uuid = NoUuid
      BY <2>1 DEF AddInterface
    <3>2. n = m /\ dbInfo'[n] = NoInfo
      BY <1>4, <3>1 DEF TypeOK, DbTypeOK
    <3>3. PICK u \in FreshIntfUuid(m), e \in EnableValues :
             \E t \in {v \in SubNames : dbSub[v] # NoUuid} \cup {NoSub} :
               SetRow(m, [uuid |-> u, sub |-> t, enable |-> e])
      BY <2>1 DEF AddInterface
    <3>4. dbIntf'[m].uuid = u /\ u # NoUuid
      BY <3>3, UuidAssumption DEF SetRow, FreshIntfUuid, TypeOK, DbTypeOK
    <3> QED BY <3>1, <3>2, <3>4
  <2>2. CASE DelInterface(m)
    <3>1. /\ dbInfo' = [dbInfo EXCEPT ![m] = NoInfo] /\ dbIntf[m].uuid # NoUuid
          /\ dbIntf' = [dbIntf EXCEPT ![m] = NoRow]
      BY <2>2 DEF DelInterface, SetRow
    <3> QED BY <1>4, <3>1 DEF TypeOK, DbTypeOK, NoRow
  <2>3. CASE MoveInterface(m) \/ SetHwEnable(m)
    BY <1>4, <2>3 DEF MoveInterface, SetHwEnable
  <2> QED BY <2>1, <2>2, <2>3
<1> QED BY <1>1, <1>2, <1>3, <1>4 DEF Service!Configure

(* Everything else that happens around the daemon. *)
LEMMA OtherEnvironment ==
  ASSUME TypeOK, Outside,
         \/ \E c \in Cages : InsertModule(c) \/ RemoveModule(c)
         \/ \E s \in SubNames : AddSubsystem(s) \/ DelSubsystem(s)
         \/ AddDaemonRow \/ GrantLock \/ RevokeLock \/ UNCHANGED vars
  PROVE  Service!Configure \/ Service!Exchange \/ UNCHANGED Service!vars
<1>1. UNCHANGED <<idlIntf, ovs_intfs, lostInfo, yamlFailed>>
  BY DEF Outside, idlVars, pmdVars
<1>2. /\ {n \in Names : Live(n)}' = {n \in Names : Live(n)}
      /\ UNCHANGED ServedAt
  BY <1>1 DEF Live, ServedAt
<1>3. ASSUME NEW c \in Cages, RemoveModule(c)
      PROVE  Service!Exchange
  BY <1>1, <1>2, <1>3 DEF RemoveModule, Remove, dbVars, Service!Exchange
<1>4. CASE (\E s \in SubNames : AddSubsystem(s) \/ DelSubsystem(s)) \/ AddDaemonRow
  <2>1. UNCHANGED <<dbInfo, disabled, failedWrite>>
    BY <1>4 DEF AddSubsystem, DelSubsystem, AddDaemonRow, hwVars
  <2>2. dbCurHw' # dbCurHw => dbCurHw = "none" /\ dbCurHw' = "0"
    BY <1>4 DEF AddSubsystem, DelSubsystem, AddDaemonRow
  <2> QED BY <1>1, <1>2, <2>1, <2>2 DEF Service!Configure
<1>5. CASE (\E c \in Cages : InsertModule(c)) \/ GrantLock \/ RevokeLock \/ UNCHANGED vars
  <2>1. UNCHANGED <<dbIntf, dbInfo, dbCurHw, disabled, failedWrite>>
    BY <1>5 DEF InsertModule, Insert, GrantLock, RevokeLock, vars, dbVars, hwVars
  <2> QED BY <1>1, <1>2, <2>1 DEF Service!vars
<1> QED BY <1>3, <1>4, <1>5

LEMMA EnvironmentMapped ==
  ASSUME TypeOK, Env \/ UNCHANGED vars, Outside
  PROVE  \/ Service!Configure \/ Service!Exchange \/ UNCHANGED Service!vars
         \/ PmdExit \/ Crash
  BY RowsConfigure, OtherEnvironment DEF Env

---------------------------------------------------------------------------
LEMMA InitMapped == Init => Service!Init
  BY DEF Init, HwInit, Live, NoPort, NewPort, NoRow, ServedAt, Service!Init

LEMMA StepMapped ==
  ASSUME IInv, IInv', LoopInv, TxnRowsLive, [Next]_vars
  PROVE  [Service!Next]_(Service!vars)
<1>0. TypeOK
  BY DEF IInv, SoloInv
<1>1. CASE Rebirth
  BY <1>1, RebirthStops DEF Service!Next
<1>2. CASE IdlRun
  BY <1>2, IdlRunLooks DEF Service!Next
<1>3. CASE Reconfigure /\ seqnoMoved
  BY <1>3, ReconfigureServes DEF Service!Next
<1>4. CASE Scan \/ Update \/ (Reconfigure /\ ~seqnoMoved)
  BY <1>0, <1>4, QuietPhases
<1>5. CASE Commit
  BY <1>5, CommitReports DEF Service!Next
<1>6. CASE (Env \/ UNCHANGED vars) /\ Outside
  <2>1. PmdExit \/ Crash => Rebirth
    BY DEF PmdExit, Crash, Halt, Rebirth
  <2> QED BY <1>0, <1>1, <1>6, <2>1, EnvironmentMapped DEF Service!Next
<1> QED BY <1>1, <1>2, <1>3, <1>4, <1>5, <1>6, StepCases

(* pmd_run with everything it calls, together with the environment,        *)
(* implements the abstract service, for any number of interfaces and       *)
(* subsystems and any set of faults.                                       *)
THEOREM DaemonImplementsService == Spec => ImplementsService
<1>1. Init => TxnRowsLive
  BY DEF Init, NoTxn, TxnRowsLive
<1>2. IInv /\ TxnRowsLive /\ [Next]_vars => TxnRowsLive'
  BY TxnRowsPreserved
<1>3. IInv /\ IInv' /\ LoopInv /\ TxnRowsLive /\ [Next]_vars => [Service!Next]_(Service!vars)
  BY StepMapped
<1> QED
  BY <1>1, <1>2, <1>3, InitMapped, Inductive, LoopInvariant, PTL
     DEF Spec, ImplementsService, Service!Spec
============================================================================
