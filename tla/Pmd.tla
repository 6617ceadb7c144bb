-------------------------------- MODULE Pmd --------------------------------
(***************************************************************************)
(* The ops-pmd daemon (src/pmd.c): its main loop composed with the         *)
(* database access layer, the cages, and an environment that reconfigures  *)
(* the switch, moves modules around, takes the OVSDB lock away and kills   *)
(* the process.                                                            *)
(*                                                                         *)
(* The daemon is one thread.  pmd_run is split where another party can     *)
(* tell the difference: after ovsdb_idl_run, after pmd_reconfigure, after  *)
(* pm_read_state, and between the assembly of the transaction and its      *)
(* commit.                                                                 *)
(***************************************************************************)
EXTENDS OvsdbAccess, Naturals

CONSTANT MaxEvents   \* bound on the steps of the environment

ASSUME MaxEventsAssumption == MaxEvents \in Nat

VARIABLES
  pc,        \* where the daemon is in its loop
  lockOwner, \* ovsdb-server has granted this process the lock "ops_pmd"
  has_lock,  \* ovsdb_idl_has_lock(idl): what the process knows of that
  events     \* steps the environment has taken

ctlVars == <<pc, lockOwner, has_lock, events>>
vars == <<hwVars, dbVars, idlVars, pmdVars, ctlVars>>

TypeOK ==
  /\ HwTypeOK /\ DbTypeOK /\ PmdTypeOK
  /\ pc \in {"stopped", "idle", "reconfigure", "scan", "update", "commit"}
  /\ lockOwner \in BOOLEAN
  /\ has_lock \in BOOLEAN
  /\ events \in Nat

(* The switch has booted, other daemons may or may not have filled in the  *)
(* tables, and ops-pmd has not been started.                               *)
Init ==
  /\ HwInit
  /\ \E u \in Uuid :
       /\ dbSub \in [SubNames -> {u, NoUuid}]
       /\ dbIntf \in [Names -> [uuid : {u}, sub : SubNames \cup {NoSub},
                                enable : EnableValues] \cup {NoRow}]
  /\ \A n \in Names : dbIntf[n].sub # NoSub => dbSub[dbIntf[n].sub] # NoUuid
  /\ dbInfo = [n \in Names |-> NoInfo]
  /\ dbCurHw \in {"none", "0"}
  /\ idlIntf = [n \in Names |-> NoRow]
  /\ idlSub = [s \in SubNames |-> NoUuid]
  /\ idlDaemon = FALSE
  /\ seqnoMoved = FALSE
  /\ ovs_intfs = [n \in Names |-> NoPort]
  /\ ovs_subs = [s \in SubNames |-> NoUuid]
  /\ yamlPorts = [s \in SubNames |-> {}]
  /\ cur_hw_set = FALSE
  /\ txn = NoTxn
  /\ yamlFailed = {}
  /\ lostInfo = {}
  /\ pc = "stopped"
  /\ lockOwner = FALSE
  /\ has_lock = FALSE
  /\ events = 0

---------------------------------------------------------------------------
(* The daemon.                                                             *)

(* main up to the loop: pmd_init. *)
PmdInit ==
  /\ pc = "stopped"
  /\ pc' = "idle"
  /\ has_lock' = FALSE
  /\ OvsdbIfInit
  /\ UNCHANGED <<hwVars, dbVars, lockOwner, events>>

(* Faulty: the run goes on without the lock. *)
IdlRun_NoLockCheck ==
  /\ pc = "idle"
  /\ IdlCatchUp(lockOwner /\ ~has_lock)
  /\ has_lock' = lockOwner
  /\ pc' = "reconfigure"
  /\ UNCHANGED <<hwVars, dbVars, ovs_intfs, ovs_subs, yamlPorts, cur_hw_set,
                 txn, yamlFailed, lostInfo, lockOwner, events>>

(* The loop wakes up (a database change, or the poll timer) and enters     *)
(* pmd_run.  Without the lock the run ends here.                           *)
IdlRun ==
  /\ pc = "idle"
  /\ IdlCatchUp(lockOwner /\ ~has_lock)
  /\ has_lock' = lockOwner
  /\ pc' = IF lockOwner THEN "reconfigure" ELSE "idle"
  /\ UNCHANGED <<hwVars, dbVars, ovs_intfs, ovs_subs, yamlPorts, cur_hw_set,
                 txn, yamlFailed, lostInfo, lockOwner, events>>

(* Faulty: the run goes on to the update without a scan. *)
Reconfigure_ThenUpdate ==
  /\ pc = "reconfigure"
  /\ pc' = "update"
  /\ PmdReconfigure
  /\ UNCHANGED <<lockOwner, has_lock, events>>

Reconfigure ==
  /\ pc = "reconfigure"
  /\ pc' = "scan"
  /\ PmdReconfigure
  /\ UNCHANGED <<lockOwner, has_lock, events>>

Scan ==
  /\ pc = "scan"
  /\ pc' = "update"
  /\ PmReadState
  /\ UNCHANGED <<lockOwner, has_lock, events>>

Update ==
  /\ pc = "update"
  /\ pc' = "commit"
  /\ BuildTxn
  /\ UNCHANGED <<lockOwner, has_lock, events>>

(* The transaction carries an assertion of the lock, so the server refuses *)
(* it when the lock is gone, whatever the process believes.                *)
Commit ==
  /\ pc = "commit"
  /\ pc' = "idle"
  /\ \E success \in BOOLEAN :
       /\ success => lockOwner
       /\ ("commit" \notin Faults /\ lockOwner) => success
       /\ CommitTxn(success)
  /\ UNCHANGED <<lockOwner, has_lock, events>>

---------------------------------------------------------------------------
(* The environment.                                                        *)

EnvStep == events < MaxEvents /\ events' = events + 1

(* A uuid that is not on the row of this name in any copy of the table. *)
FreshIntfUuid(n) == Uuid \ {idlIntf[n].uuid, ovs_intfs[n].uuid}
FreshSubUuid(s)  == Uuid \ {idlSub[s], ovs_subs[s]}

(* The configuration of row n becomes row. *)
SetRow(n, row) ==
  /\ EnvStep
  /\ dbIntf' = [dbIntf EXCEPT ![n] = row]
  /\ UNCHANGED <<dbSub, dbCurHw, hwVars, idlVars, pmdVars, pc, lockOwner, has_lock>>

AddInterface(n) ==
  /\ dbIntf[n].uuid = NoUuid
  /\ \E u \in FreshIntfUuid(n), e \in EnableValues :
       \E s \in {t \in SubNames : dbSub[t] # NoUuid} \cup {NoSub} :
         SetRow(n, [uuid |-> u, sub |-> s, enable |-> e])
  /\ dbInfo' = [dbInfo EXCEPT ![n] = NoInfo]

DelInterface(n) ==
  /\ dbIntf[n].uuid # NoUuid
  /\ SetRow(n, NoRow)
  /\ dbInfo' = [dbInfo EXCEPT ![n] = NoInfo]

(* Another subsystem lists the interface, or none does. *)
MoveInterface(n) ==
  /\ dbIntf[n].uuid # NoUuid
  /\ \E s \in ({t \in SubNames : dbSub[t] # NoUuid} \cup {NoSub}) \ {dbIntf[n].sub} :
       SetRow(n, [dbIntf[n] EXCEPT !.sub = s])
  /\ UNCHANGED dbInfo

SetHwEnable(n) ==
  /\ dbIntf[n].uuid # NoUuid
  /\ \E e \in EnableValues \ {dbIntf[n].enable} :
       SetRow(n, [dbIntf[n] EXCEPT !.enable = e])
  /\ UNCHANGED dbInfo

AddSubsystem(s) ==
  /\ EnvStep
  /\ dbSub[s] = NoUuid
  /\ \E u \in FreshSubUuid(s) : dbSub' = [dbSub EXCEPT ![s] = u]
  /\ UNCHANGED <<dbIntf, dbInfo, dbCurHw, hwVars, idlVars, pmdVars, pc, lockOwner, has_lock>>

DelSubsystem(s) ==
  /\ EnvStep
  /\ dbSub[s] # NoUuid
  /\ dbSub' = [dbSub EXCEPT ![s] = NoUuid]
  /\ dbIntf' = [n \in Names |-> IF dbIntf[n].sub = s
                                THEN [dbIntf[n] EXCEPT !.sub = NoSub] ELSE dbIntf[n]]
  /\ UNCHANGED <<dbInfo, dbCurHw, hwVars, idlVars, pmdVars, pc, lockOwner, has_lock>>

AddDaemonRow ==
  /\ EnvStep
  /\ dbCurHw = "none"
  /\ dbCurHw' = "0"
  /\ UNCHANGED <<dbIntf, dbInfo, dbSub, hwVars, idlVars, pmdVars, pc, lockOwner, has_lock>>

InsertModule(c) ==
  /\ EnvStep
  /\ \E m \in Modules : Insert(c, m)
  /\ UNCHANGED <<dbVars, idlVars, pmdVars, pc, lockOwner, has_lock>>

RemoveModule(c) ==
  /\ EnvStep
  /\ Remove(c)
  /\ UNCHANGED <<dbVars, idlVars, pmdVars, pc, lockOwner, has_lock>>

(* ovsdb-server answers the lock request that a running process has made. *)
GrantLock ==
  /\ pc # "stopped"
  /\ ~lockOwner
  /\ lockOwner' = TRUE
  /\ UNCHANGED <<hwVars, dbVars, idlVars, pmdVars, pc, has_lock, events>>

(* The lock is stolen, or the connection drops and the server frees it. *)
RevokeLock ==
  /\ EnvStep
  /\ "lock" \in Faults
  /\ lockOwner
  /\ lockOwner' = FALSE
  /\ UNCHANGED <<hwVars, dbVars, idlVars, pmdVars, pc, has_lock>>

(* The process ends: by the unixctl command "exit", which the loop obeys   *)
(* between two runs, or killed at any point.  The server frees the lock    *)
(* and the hardware stays as it is.                                        *)
Halt ==
  /\ EnvStep
  /\ pc' = "stopped"
  /\ lockOwner' = FALSE
  /\ OvsdbIfInit
  /\ has_lock' = FALSE
  /\ UNCHANGED <<hwVars, dbVars>>

PmdExit == pc = "idle" /\ Halt
Crash   == pc # "stopped" /\ "crash" \in Faults /\ Halt

---------------------------------------------------------------------------
Loop == IdlRun \/ Reconfigure \/ Scan \/ Update \/ Commit

Env ==
  \/ \E n \in Names : AddInterface(n) \/ DelInterface(n) \/ MoveInterface(n)
                        \/ SetHwEnable(n)
  \/ \E c \in Cages : InsertModule(c) \/ RemoveModule(c)
  \/ \E s \in SubNames : AddSubsystem(s) \/ DelSubsystem(s)
  \/ AddDaemonRow \/ GrantLock \/ RevokeLock \/ PmdExit \/ Crash

Next == PmdInit \/ Loop \/ Env

Spec == Init /\ [][Next]_vars

(* Nothing in the loop blocks: pmd_wait always arms a timer, so poll_block *)
(* returns.  The server answers a lock request that nobody contends, and   *)
(* the process is restarted when it ends.  The environment owes nothing    *)
(* else.                                                                   *)
FairSpec == Spec /\ WF_vars(PmdInit) /\ WF_vars(Loop) /\ WF_vars(GrantLock)

---------------------------------------------------------------------------
(* Safety.                                                                 *)

(* The daemon has worked off everything its replica has told it. *)
Synced == pc # "stopped" /\ ~seqnoMoved

(* pmd_reconfigure leaves no port behind whose interface row is gone, was  *)
(* deleted and created again, or asks for another hw_enable: a port that   *)
(* exists is the port of the row in the replica.                           *)
PortMirrorsRow ==
  Synced => \A n \in Names : Live(n) =>
              /\ ovs_intfs[n].uuid = idlIntf[n].uuid
              /\ ovs_intfs[n].hw_enable = GetHwEnable(idlIntf[n])

(* pmd_reconfigure and ovsdb_if_subsys_process miss no interface: every    *)
(* row that a subsystem lists and ports.yaml describes as pluggable has    *)
(* its port, however rows came, went and moved between subsystems, unless  *)
(* the YAML files of that subsystem could not be read when it was added.   *)
PortForEveryRow ==
  Synced => \A n \in Names :
    LET s == idlIntf[n].sub
    IN  (s \in SubNames \ yamlFailed /\ n \in Described[s]) => Live(n)

(* The tx_disable register of an SFP+ cage (pm_configure_port) agrees with *)
(* the hw_intf_config of the interface whose port is bound to the cage,    *)
(* whenever the daemon is synced: across module swaps, re-created rows,    *)
(* restarts, and hand-overs to another subsystem, which leave the port     *)
(* with the cage that it had; unless the last write to it failed.          *)
SfpLaserFollowsRow ==
  Synced => \A n \in Names :
    (Live(n) /\ Connector[CageOf(n)] = SfpPlus /\ CageOf(n) \notin failedWrite) =>
      (CageOf(n) \in disabled) = ~GetHwEnable(idlIntf[n])

(* pm_ovsdb_update: a port that it no longer means to publish has its      *)
(* columns in the pm_info of its row, unless the transaction failed.       *)
QuietPortIsPublished ==
  \A n \in Names \ (txn.rows \cup lostInfo) :
    (/\ Live(n)
     /\ ovs_intfs[n].uuid = dbIntf[n].uuid
     /\ ovs_intfs[n].present
     /\ ~ovs_intfs[n].module_info_changed)
       => dbInfo[n] = Published(ovs_intfs[n].columns)

(* Whenever the daemon switches a laser, SFP+ or QSFP, it switches it to   *)
(* what the row of the port that is bound to the cage asks for in the      *)
(* replica: no stale hw_enable of a deleted row, of an earlier value or of *)
(* another port reaches the hardware, and no cage without a port is        *)
(* touched, in particular not the one that another subsystem's files give  *)
(* for the name.                                                           *)
LaserMovesTowardsRow ==
  [][slot' = slot => \A c \in Cages :
       (c \in disabled') # (c \in disabled) =>
          \E n \in Names : /\ Live(n)' /\ CageOf(n)' = c
                           /\ (c \in disabled') = ~GetHwEnable(idlIntf[n])]_vars

(* cur_hw becomes 1 (pm_ovsdb_update) no earlier than the modules that     *)
(* the daemon has found are in the database.                               *)
CurHwAfterModules ==
  [][(dbCurHw # "1" /\ dbCurHw' = "1") =>
       \A n \in Names \ lostInfo :
         (Live(n) /\ ovs_intfs[n].uuid = dbIntf[n].uuid) =>
            dbInfo'[n] = Published(ovs_intfs[n].columns) /\ dbInfo'[n] # NoInfo]_vars

(* pm_ovsdb_update sets cur_hw_set so as not to search the Daemon table    *)
(* again.  Outside of a commit the flag is true only when cur_hw is 1,     *)
(* whenever the Daemon row came and the process died, provided that no     *)
(* transaction is refused.                                                 *)
CurHwFlagIsTrue == (cur_hw_set /\ pc # "commit") => dbCurHw = "1"

(* Everything that the database and the modules have told the daemon is    *)
(* done: nothing is left to process, to read or to publish.                *)
Settled ==
  /\ Synced
  /\ lockOwner => has_lock
  /\ idlIntf = dbIntf /\ idlSub = dbSub /\ idlDaemon = (dbCurHw # "none")
  /\ txn = NoTxn
  /\ idlDaemon => cur_hw_set
  /\ \A n \in Names : Live(n) => /\ ovs_intfs[n].present
                               /\ ~ovs_intfs[n].retry
                               /\ ~ovs_intfs[n].module_info_changed

(* pmd_run polls for ever, and a poll that has nothing new to find leaves  *)
(* no trace: from a settled state no phase of the loop, failed transfers   *)
(* and refused transactions included, switches a laser, writes to the      *)
(* database or makes work for a later phase.                               *)
SettledStaysSettled ==
  [][(Settled /\ Loop) => (Settled' /\ UNCHANGED <<hwVars, dbVars>>)]_vars

---------------------------------------------------------------------------
(* What the repository says of the daemon and the code does not do.        *)

(* ovsdb_if_intf_create, "apply initial hw_enable state.": an identified   *)
(* optical QSFP module that has not been exchanged has its laser as the    *)
(* row asks once the daemon is synced.                                     *)
QsfpLaserFollowsRow ==
  (Synced /\ pc = "idle") => \A n \in Names : Live(n) =>
    LET c == CageOf(n)
    IN  (/\ Connector[c] # SfpPlus /\ c \notin failedWrite
         /\ ovs_intfs[n].present /\ ovs_intfs[n].optical
         /\ Responds(c) /\ Eeprom[slot[c]].serial = ovs_intfs[n].columns.a0)
           => (c \in disabled) = ~GetHwEnable(idlIntf[n])

(* pm_port_t, "module_info_changed: indicates db update is needed": where  *)
(* it is not set after pm_ovsdb_update, the database needs no update.      *)
FlagTellsUpdateNeeded ==
  (pc = "idle") => \A n \in Names :
    (/\ Live(n)
     /\ ovs_intfs[n].uuid = dbIntf[n].uuid
     /\ ovs_intfs[n].present
     /\ ~ovs_intfs[n].module_info_changed)
       => dbInfo[n] = Published(ovs_intfs[n].columns)

---------------------------------------------------------------------------
(* Liveness.                                                               *)

(* A row that asks for service. *)
Wanted(n) ==
  LET s == dbIntf[n].sub IN s \in SubNames /\ n \in Described[s]

(* A wanted interface gets its pm_info, through crashes and restarts of    *)
(* the daemon at any point of the loop.                                    *)
EventuallyPublished ==
  \A n \in Names : Wanted(n) ~> (dbInfo[n] # NoInfo \/ ~Wanted(n))

(* Once the Daemon row exists, cur_hw is eventually set. *)
EventuallyCurHw == (dbCurHw = "0") ~> (dbCurHw = "1")

(* The cage that the files of the interface's subsystem give for it. *)
WantedCage(n) == Device[dbIntf[n].sub][n]

(* DESIGN.md, "monitoring requests (via the database) to enable/disable    *)
(* the laser": when the environment is done, the laser of an SFP+ cage     *)
(* stays as the row asks that the database assigns to the cage by the      *)
(* subsystem it lists the interface under.  True as long as no interface   *)
(* is handed to another subsystem.                                         *)
EventuallyLaser ==
  \A n \in Names :
    <>[]((Wanted(n) /\ Connector[WantedCage(n)] = SfpPlus) =>
           (WantedCage(n) \in disabled) = ~GetHwEnable(dbIntf[n]))

(* DESIGN.md, "detecting pluggable module insertion and removal events":   *)
(* a cage that stays empty is eventually reported as absent.               *)
EventuallyAbsent ==
  \A n \in Names :
    <>[](Wanted(n) /\ slot[WantedCage(n)] = Empty) => <>(dbInfo[n].connector = "absent")

(* When the environment is done, the daemon stops writing to the database, *)
(* although it goes on polling the modules.                                *)
EventuallyQuiet == <>[](txn = NoTxn)
===========================================================================
