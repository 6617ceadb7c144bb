--------------------------- MODULE PmdLockProofs ---------------------------
(***************************************************************************)
(* What holds of Pmd when the lock is lost only with the process, when no  *)
(* transaction is refused, and when nothing is left to do.                 *)
(***************************************************************************)
EXTENDS PmdProofs

---------------------------------------------------------------------------
(* The lock.                                                               *)

(* What the steps around the process do to its lock. *)
LEMMA OutsideLock ==
  ASSUME "lock" \notin Faults, Env \/ UNCHANGED vars, ~PmdExit, ~Crash
  PROVE  /\ UNCHANGED has_lock
         /\ lockOwner => lockOwner'
<1>1. ASSUME NEW m \in Names,
             AddInterface(m) \/ DelInterface(m) \/ MoveInterface(m) \/ SetHwEnable(m)
      PROVE  UNCHANGED <<has_lock, lockOwner>>
  BY <1>1 DEF AddInterface, DelInterface, MoveInterface, SetHwEnable, SetRow
<1>2. ASSUME NEW c \in Cages, InsertModule(c) \/ RemoveModule(c)
      PROVE  UNCHANGED <<has_lock, lockOwner>>
  BY <1>2 DEF InsertModule, RemoveModule
<1>3. ASSUME NEW s \in SubNames, AddSubsystem(s) \/ DelSubsystem(s)
      PROVE  UNCHANGED <<has_lock, lockOwner>>
  BY <1>3 DEF AddSubsystem, DelSubsystem
<1>4. ASSUME AddDaemonRow \/ UNCHANGED vars
      PROVE  UNCHANGED <<has_lock, lockOwner>>
  BY <1>4 DEF AddDaemonRow, vars, ctlVars
<1>5. GrantLock => UNCHANGED has_lock /\ lockOwner'
  BY DEF GrantLock
<1>6. ~RevokeLock
  BY DEF RevokeLock
<1> QED BY <1>1, <1>2, <1>3, <1>4, <1>5, <1>6 DEF Env

(* A process that has just started or ended is blank and has no lock. *)
LEMMA RebirthBlank ==
  ASSUME PmdInit \/ PmdExit \/ Crash
  PROVE  Blank' /\ ~has_lock' /\ pc' \in {"stopped", "idle"}
<1>1. OvsdbIfInit /\ ~has_lock' /\ pc' \in {"stopped", "idle"}
  BY DEF PmdInit, PmdExit, Crash, Halt
<1> QED BY <1>1 DEF OvsdbIfInit, Blank, Live, NoPort, NewPort

LEMMA LockPreserved ==
  ASSUME "lock" \notin Faults, LockInv, [Next]_vars
  PROVE  LockInv'
<1>1. CASE PmdInit \/ PmdExit \/ Crash
  BY <1>1, RebirthBlank DEF LockInv
<1>2. CASE IdlRun
  <2>1. Blank => Blank'
    BY <1>2 DEF IdlRun, Blank, Live
  <2> QED BY <1>2, <2>1 DEF IdlRun, LockInv
<1>3. CASE Reconfigure \/ Scan \/ Update \/ Commit
  <2>1. has_lock /\ UNCHANGED <<has_lock, lockOwner>>
    BY <1>3 DEF LockInv, Reconfigure, Scan, Update, Commit
  <2> QED BY <2>1 DEF LockInv
<1>4. CASE (Env \/ UNCHANGED vars) /\ ~PmdExit /\ ~Crash
  <2>1. Outside
    BY <1>4 DEF Env, vars, ctlVars, Outside, AddInterface, DelInterface, MoveInterface,
                SetHwEnable, SetRow, InsertModule, RemoveModule, AddSubsystem,
                DelSubsystem, AddDaemonRow, GrantLock, RevokeLock
  <2>2. Blank => Blank'
    BY <2>1 DEF Outside, pmdVars, Blank, Live
  <2> QED BY <1>4, <2>1, <2>2, OutsideLock DEF LockInv, Outside
<1> QED BY <1>1, <1>2, <1>3, <1>4 DEF Next, Loop

LEMMA InitLock == Init => LockInv
  BY DEF Init, LockInv, Blank, Live, NoPort, NewPort

(* pmd_run: as long as the server takes the lock from nobody, the phases   *)
(* behind the check of the lock run with the lock held, up to the commit,  *)
(* and a process that has not seen the lock has touched nothing.           *)
THEOREM LockHeld == ASSUME "lock" \notin Faults PROVE Spec => []LockInv
<1>1. LockInv /\ [Next]_vars => LockInv'
  BY LockPreserved
<1> QED BY <1>1, InitLock, PTL DEF Spec

---------------------------------------------------------------------------
(* Transactions that are not refused.                                      *)

(* Nobody else takes cur_hw back. *)
LEMMA EnvKeepsCurHw ==
  ASSUME Env \/ UNCHANGED vars, dbCurHw = "1"
  PROVE  dbCurHw' = "1"
<1>1. ASSUME NEW m \in Names,
             AddInterface(m) \/ DelInterface(m) \/ MoveInterface(m) \/ SetHwEnable(m)
      PROVE  UNCHANGED dbCurHw
  BY <1>1 DEF AddInterface, DelInterface, MoveInterface, SetHwEnable, SetRow
<1>2. ASSUME NEW c \in Cages, InsertModule(c) \/ RemoveModule(c)
      PROVE  UNCHANGED dbCurHw
  BY <1>2 DEF InsertModule, RemoveModule, dbVars
<1>3. ASSUME NEW s \in SubNames, AddSubsystem(s) \/ DelSubsystem(s)
      PROVE  UNCHANGED dbCurHw
  BY <1>3 DEF AddSubsystem, DelSubsystem
<1>4. ~AddDaemonRow
  BY DEF AddDaemonRow
<1>5. GrantLock \/ RevokeLock \/ PmdExit \/ Crash \/ UNCHANGED vars => UNCHANGED dbCurHw
  BY DEF GrantLock, RevokeLock, PmdExit, Crash, Halt, vars, dbVars
<1> QED BY <1>1, <1>2, <1>3, <1>4, <1>5 DEF Env

LEMMA NothingLostPreserved ==
  ASSUME "commit" \notin Faults, IInv, LockInv, NothingLost, [Next]_vars
  PROVE  NothingLost'
<1>0. TypeOK /\ TxnOnlyAtCommit
  BY DEF IInv, SoloInv
<1>1. CASE Rebirth
  BY <1>1 DEF Rebirth, OvsdbIfInit, NothingLost
<1>2. CASE IdlRun \/ Scan
  BY <1>2 DEF IdlRun, Scan, PmReadState, dbVars, NothingLost
<1>3. CASE Reconfigure /\ seqnoMoved
  <2>1. lostInfo' \subseteq lostInfo /\ UNCHANGED <<dbVars, cur_hw_set, txn>>
    BY <1>0, <1>3, ReconfigureEffect
  <2> QED BY <2>1 DEF dbVars, NothingLost
<1>4. CASE Reconfigure /\ ~seqnoMoved
  BY <1>4, ReconfigureIdle DEF dbVars, pmdVars, NothingLost
<1>5. CASE Update
  <2>1. txn = NoTxn
    BY <1>0, <1>5 DEF Update, TxnOnlyAtCommit
  <2>2. /\ txn'.cur_hw = (~cur_hw_set /\ idlDaemon)
        /\ cur_hw_set' = (cur_hw_set \/ idlDaemon)
        /\ UNCHANGED <<lostInfo, dbCurHw>>
    BY <1>5 DEF Update, BuildTxn, CurHwDone, dbVars
  <2> QED BY <2>1, <2>2 DEF NothingLost, NoTxn
<1>6. CASE Commit
  <2>1. lockOwner
    BY <1>6 DEF Commit, LockInv
  <2>2. CommitTxn(TRUE)
    BY <1>6, <2>1 DEF Commit
  <2> QED BY <2>2 DEF CommitTxn, NothingLost
<1>7. CASE (Env \/ UNCHANGED vars) /\ Outside
  <2>1. dbCurHw = "1" => dbCurHw' = "1"
    BY <1>7, EnvKeepsCurHw
  <2> QED BY <1>7, <2>1 DEF Outside, pmdVars, NothingLost
<1> QED BY <1>1, <1>2, <1>3, <1>4, <1>5, <1>6, <1>7, StepCases

(* The invariant that the next two theorems share. *)
LEMMA NothingLostAlways ==
  ASSUME "lock" \notin Faults, "commit" \notin Faults
  PROVE  Spec => []NothingLost
<1>1. Init => NothingLost
  BY DEF Init, NothingLost
<1>2. IInv /\ LockInv /\ NothingLost /\ [Next]_vars => NothingLost'
  BY NothingLostPreserved
<1> QED BY <1>1, <1>2, Inductive, LockHeld, PTL DEF Spec

(* pm_ovsdb_update: the loss of transactions is the only reason why        *)
(* module_info_changed may be false while the database needs an update;    *)
(* crashes, failed transfers and unreadable YAML files are none.           *)
THEOREM FlagsTellWithoutLoss ==
  ASSUME "lock" \notin Faults, "commit" \notin Faults
  PROVE  Spec => []FlagTellsUpdateNeeded
<1>1. IInv /\ NothingLost => FlagTellsUpdateNeeded
  BY DEF IInv, SoloInv, TxnOnlyAtCommit, NoTxn, QuietPortIsPublished, NothingLost,
         FlagTellsUpdateNeeded
<1> QED BY <1>1, Inductive, NothingLostAlways, PTL

(* pm_ovsdb_update: the loss of transactions is also the only reason why   *)
(* cur_hw_set may be true while cur_hw is not 1.                           *)
THEOREM CurHwFlagWithoutLoss ==
  ASSUME "lock" \notin Faults, "commit" \notin Faults
  PROVE  Spec => []CurHwFlagIsTrue
<1>1. IInv /\ NothingLost => CurHwFlagIsTrue
  BY DEF IInv, SoloInv, TxnOnlyAtCommit, NoTxn, NothingLost, CurHwFlagIsTrue
<1> QED BY <1>1, Inductive, NothingLostAlways, PTL

---------------------------------------------------------------------------
(* The loop at rest.                                                       *)

(* The parts of Settled that every phase but IdlRun inherits. *)
LEMMA SettledFrame ==
  ASSUME Settled, pc # "stopped", pc' # "stopped",
         UNCHANGED <<seqnoMoved, lockOwner, has_lock, idlVars, dbVars>>,
         txn' = NoTxn, cur_hw_set => cur_hw_set',
         \A n \in Names : Live(n)' =>
           /\ Live(n)
           /\ ovs_intfs'[n].present = ovs_intfs[n].present
           /\ ovs_intfs'[n].retry = ovs_intfs[n].retry
           /\ ovs_intfs'[n].module_info_changed => ovs_intfs[n].module_info_changed
  PROVE  Settled'
<1>1. Synced' /\ (lockOwner => has_lock)'
  BY DEF Settled, Synced
<1>2. (idlIntf = dbIntf /\ idlSub = dbSub /\ idlDaemon = (dbCurHw # "none"))'
  BY DEF Settled, idlVars, dbVars
<1>3. (txn = NoTxn)' /\ (idlDaemon => cur_hw_set)'
  BY DEF Settled, idlVars, NoTxn
<1>4. (\A n \in Names : Live(n) => /\ ovs_intfs[n].present
                                  /\ ~ovs_intfs[n].retry
                                  /\ ~ovs_intfs[n].module_info_changed)'
  BY DEF Settled
<1> QED BY <1>1, <1>2, <1>3, <1>4 DEF Settled

LEMMA SettledStep ==
  ASSUME TypeOK, Settled, Loop
  PROVE  Settled' /\ UNCHANGED <<hwVars, dbVars>>
<1>0. \A n \in Names : ovs_intfs[n] \in Port
  BY DEF TypeOK, PmdTypeOK
<1>1. CASE IdlRun
  <2>1. UNCHANGED <<idlVars, hwVars, dbVars, txn, cur_hw_set, ovs_intfs, lockOwner>>
    BY <1>1 DEF IdlRun, IdlCatchUp, Settled, idlVars, hwVars, dbVars
  <2>2. seqnoMoved' = FALSE /\ has_lock' = lockOwner /\ pc' # "stopped"
    BY <1>1, <2>1 DEF IdlRun, IdlCatchUp, Settled, Synced
  <2> QED BY <2>1, <2>2 DEF Settled, Synced, idlVars, dbVars, Live, NoTxn
<1>2. CASE Reconfigure
  <2>1. UNCHANGED <<dbVars, idlVars, pmdVars, hwVars, lockOwner, has_lock>> /\ pc' = "scan"
    BY <1>2, ReconfigureIdle DEF Settled, Synced, Reconfigure
  <2>2. UNCHANGED <<seqnoMoved, txn, cur_hw_set, ovs_intfs>>
    BY <2>1 DEF pmdVars
  <2> QED BY <2>1, <2>2, SettledFrame DEF Settled, Synced, Live
<1>3. CASE Scan
  <2>1. UNCHANGED <<dbVars, idlVars, hwVars, seqnoMoved, txn, cur_hw_set, lockOwner, has_lock>>
    BY <1>3 DEF Scan, PmReadState
  <2>2. \A n \in Names : ovs_intfs'[n] = ovs_intfs[n]
    BY <1>3 DEF Scan, PmReadState, PmReadModuleState, Settled
  <2>3. pc' = "update" /\ pc = "scan"
    BY <1>3 DEF Scan
  <2> QED BY <2>1, <2>2, <2>3, SettledFrame DEF Settled, Live
<1>4. CASE Update
  <2>1. UNCHANGED <<dbVars, idlVars, hwVars, seqnoMoved, lockOwner, has_lock>>
    BY <1>4 DEF Update, BuildTxn
  <2>2. ChangedRows = {}
    BY DEF ChangedRows, Settled
  <2>3. (~cur_hw_set /\ idlDaemon) = FALSE
    BY DEF Settled
  <2>4. txn' = NoTxn /\ (cur_hw_set => cur_hw_set')
    BY <1>4, <2>2, <2>3 DEF Update, BuildTxn, NoTxn, CurHwDone
  <2>5. ASSUME NEW n \in Names
        PROVE  /\ ovs_intfs'[n].uuid = ovs_intfs[n].uuid
               /\ ovs_intfs'[n].present = ovs_intfs[n].present
               /\ ovs_intfs'[n].retry = ovs_intfs[n].retry
               /\ ovs_intfs'[n].module_info_changed => ovs_intfs[n].module_info_changed
    BY <1>0, <1>4 DEF Update, BuildTxn, UpdatedPort, Port
  <2>6. pc' = "commit" /\ pc = "update"
    BY <1>4 DEF Update
  <2> QED BY <2>1, <2>4, <2>5, <2>6, SettledFrame DEF Live
<1>5. CASE Commit
  <2>1. PICK success \in BOOLEAN : CommitTxn(success)
    BY <1>5 DEF Commit
  <2>2. dbInfo' = dbInfo /\ dbCurHw' = dbCurHw
    BY <2>1 DEF CommitTxn, Settled, NoTxn, TypeOK, DbTypeOK
  <2>3. UNCHANGED <<dbVars, idlVars, hwVars, seqnoMoved, cur_hw_set, ovs_intfs>> /\ txn' = NoTxn
    BY <2>1, <2>2 DEF CommitTxn, dbVars
  <2>4. pc' = "idle" /\ pc = "commit" /\ UNCHANGED <<lockOwner, has_lock>>
    BY <1>5 DEF Commit
  <2> QED BY <2>3, <2>4, SettledFrame DEF Live
<1> QED BY <1>1, <1>2, <1>3, <1>4, <1>5 DEF Loop

(* pmd_run: once everything is processed, read and published, the loop     *)
(* goes round without a trace until the environment moves, whatever        *)
(* fails in the meantime.                                                  *)
THEOREM LoopRests == Spec => SettledStaysSettled
<1>1. TypeOK /\ [Next]_vars =>
        [(Settled /\ Loop) => (Settled' /\ UNCHANGED <<hwVars, dbVars>>)]_vars
  BY SettledStep
<1> QED BY <1>1, TypeCorrect, PTL DEF Spec, SettledStaysSettled
============================================================================
