---------------------------- MODULE OvsdbAccess ----------------------------
(***************************************************************************)
(* The database side of ops-pmd (src/ovsdb_access.c) and the YAML port     *)
(* descriptions it looks ports up in (src/config.c).                       *)
(*                                                                         *)
(* Three copies of the configuration exist, and this module keeps them     *)
(* apart: the tables in ovsdb-server (db...), the daemon's replica of them *)
(* (idl...), which changes only inside ovsdb_idl_run, and what the daemon  *)
(* made of the replica (ovs_intfs, ovs_subs).                              *)
(*                                                                         *)
(* ovsdb-server and the IDL library are external: a replica is refreshed   *)
(* as a whole, a transaction is applied as a whole or not at all, and a    *)
(* row's uuid never returns once the row is gone.  A row never changes its *)
(* name, so a lookup by uuid finds the row of the same name or nothing.    *)
(***************************************************************************)
EXTENDS Plug

CONSTANTS
  Described,     \* [SubNames -> SUBSET Names], the pluggable ports in ports.yaml
  EnableValues   \* values of hw_intf_config:enable that occur

ASSUME DescribedAssumption == Described \in [SubNames -> SUBSET Names]
ASSUME EnableAssumption    == EnableValues \subseteq {"true", "false", "absent"}

VARIABLES
  dbIntf,      \* Interface table: [Names -> Row]
  dbInfo,      \* its pm_info column: [Names -> PmInfo]
  dbSub,       \* Subsystem table: [SubNames -> Uuid \cup {NoUuid}]
  dbCurHw,     \* cur_hw of the row "ops-pmd" of the Daemon table
  idlIntf, idlSub, idlDaemon,  \* replica; idlDaemon: the Daemon row exists
  seqnoMoved,  \* ovsdb_idl_get_seqno(idl) # idl_seqno
  ovs_intfs,   \* [Names -> Port]
  ovs_subs,    \* [SubNames -> Uuid \cup {NoUuid}]
  yamlPorts,   \* [SubNames -> SUBSET Names], ports in the YAML handle
  cur_hw_set,
  txn,         \* the open transaction
  yamlFailed,  \* subsystems whose YAML files were last read with an error
  lostInfo     \* history: ports whose pm_info was in a transaction that failed

dbVars   == <<dbIntf, dbInfo, dbSub, dbCurHw>>
idlVars  == <<idlIntf, idlSub, idlDaemon>>
pmdVars  == <<seqnoMoved, ovs_intfs, ovs_subs, yamlPorts, cur_hw_set, txn,
              yamlFailed, lostInfo>>

(* An Interface row without its pm_info.  Subsystem.interfaces is kept     *)
(* with the interface that it lists; NoSub: no subsystem lists it.         *)
Row == [uuid   : Uuid \cup {NoUuid},
        sub    : SubNames \cup {NoSub},
        enable : {"true", "false", "absent"}]

NoRow == [uuid |-> NoUuid, sub |-> NoSub, enable |-> "absent"]

PmInfo == [connector : ConnectorValues, connector_status : StatusValues,
           supported_speeds : SpeedValues, max_speed : SpeedValues]

NoInfo == [connector |-> Null, connector_status |-> Null,
           supported_speeds |-> Null, max_speed |-> Null]

NoTxn == [rows |-> {}, cur_hw |-> FALSE]

DbTypeOK ==
  /\ dbIntf \in [Names -> Row]
  /\ dbInfo \in [Names -> PmInfo]
  /\ dbSub \in [SubNames -> Uuid \cup {NoUuid}]
  /\ dbCurHw \in {"none", "0", "1"}
  /\ idlIntf \in [Names -> Row]
  /\ idlSub \in [SubNames -> Uuid \cup {NoUuid}]
  /\ idlDaemon \in BOOLEAN

PmdTypeOK ==
  /\ seqnoMoved \in BOOLEAN
  /\ ovs_intfs \in [Names -> Port]
  /\ \A n \in Names : ovs_intfs[n].uuid # NoUuid => ovs_intfs[n].subsystem \in SubNames
  /\ ovs_subs \in [SubNames -> Uuid \cup {NoUuid}]
  /\ yamlPorts \in [SubNames -> SUBSET Names]
  /\ cur_hw_set \in BOOLEAN
  /\ txn \in [rows : SUBSET Names, cur_hw : BOOLEAN]
  /\ yamlFailed \subseteq SubNames
  /\ lostInfo \subseteq Names

Live(n) == ovs_intfs[n].uuid # NoUuid

(* The cage of a live port. *)
CageOf(n) == ModuleDevice(n, ovs_intfs[n])

---------------------------------------------------------------------------
(* pm_ovsdb_if_init on a fresh address space: an empty replica, so that    *)
(* pmd_configure finds no row to process.                                  *)
OvsdbIfInit ==
  /\ idlIntf' = [n \in Names |-> NoRow]
  /\ idlSub' = [s \in SubNames |-> NoUuid]
  /\ idlDaemon' = FALSE
  /\ seqnoMoved' = FALSE
  /\ ovs_intfs' = [n \in Names |-> NoPort]
  /\ ovs_subs' = [s \in SubNames |-> NoUuid]
  /\ yamlPorts' = [s \in SubNames |-> {}]
  /\ cur_hw_set' = FALSE
  /\ txn' = NoTxn
  /\ yamlFailed' = {}
  /\ lostInfo' = {}

(* Faulty: idl_seqno is brought up to date in a run that lacks the lock. *)
IdlCatchUp_Forgets(lockWon) ==
  /\ idlIntf' = dbIntf
  /\ idlSub' = dbSub
  /\ idlDaemon' = (dbCurHw # "none")
  /\ seqnoMoved' = (idlVars' # idlVars)

(* ovsdb_idl_run: the replica catches up.  pm_info and cur_hw are          *)
(* registered with ovsdb_idl_omit_alert and do not move the seqno; every   *)
(* other difference does, and so does winning the lock.                    *)
IdlCatchUp(lockWon) ==
  /\ idlIntf' = dbIntf
  /\ idlSub' = dbSub
  /\ idlDaemon' = (dbCurHw # "none")
  /\ seqnoMoved' = (seqnoMoved \/ lockWon \/ idlVars' # idlVars)

---------------------------------------------------------------------------
(* pmd_reconfigure.                                                        *)

(* ovsdb_if_intf_get_hw_enable *)
GetHwEnable(row) == row.enable = "true"

(* Faulty: looks the row up by name instead of by uuid. *)
KeptPort_ByName(n) ==
  IF idlIntf[n].uuid # NoUuid THEN ovs_intfs[n] ELSE NoPort

(* Deleted interfaces: a port whose row is gone is freed.  A row that was  *)
(* deleted and created again under the same name has another uuid.         *)
KeptPort(n) ==
  IF ovs_intfs[n].uuid = idlIntf[n].uuid THEN ovs_intfs[n] ELSE NoPort

(* Deleted subsystems.  Their YAML data stays ("OPS_TODO: remove config    *)
(* subsystem").                                                            *)
KeptSub(s) == IF ovs_subs[s] = idlSub[s] THEN ovs_subs[s] ELSE NoUuid

(* ovsdb_if_subsys_process adds a subsystem it does not know and reads its *)
(* YAML files, once.                                                       *)
NewSubs == {s \in SubNames : KeptSub(s) # idlSub[s]}

(* pm_read_yaml_files for the new subsystems; it fails for those in bad,   *)
(* and may by then have parsed some of their ports.  External: the yaml    *)
(* library.                                                                *)
PmReadYamlFiles(bad, parsed) ==
  /\ "yaml" \notin Faults => bad = {}
  /\ \A s \in SubNames : IF s \in bad THEN parsed[s] \subseteq Described[s]
                                       ELSE parsed[s] = Described[s]
  /\ yamlPorts' = [s \in SubNames |->
                     IF s \in NewSubs THEN parsed[s] ELSE yamlPorts[s]]
  /\ yamlFailed' = (yamlFailed \ NewSubs) \cup bad

(* Faulty: looks for interfaces only when the subsystem is new. *)
CreatedPorts_NewSubsOnly(bad, yaml) ==
  {n \in Names : /\ KeptPort(n).uuid = NoUuid
                 /\ idlIntf[n].uuid # NoUuid
                 /\ idlIntf[n].sub \in NewSubs \ bad
                 /\ n \in yaml[idlIntf[n].sub]}

(* The interfaces for which ovsdb_if_intf_create makes a port: listed by a *)
(* subsystem, not in ovs_intfs, and in the YAML handle as pluggable.  A    *)
(* subsystem whose files have just failed to load is skipped.              *)
CreatedPorts(bad, yaml) ==
  {n \in Names : /\ KeptPort(n).uuid = NoUuid
                 /\ idlIntf[n].uuid # NoUuid
                 /\ idlIntf[n].sub \in SubNames \ bad
                 /\ n \in yaml[idlIntf[n].sub]}

(* Faulty: only interfaces that a subsystem lists are compared. *)
ModifiedPorts_ListedOnly ==
  {n \in Names : /\ KeptPort(n).uuid # NoUuid
                 /\ idlIntf[n].sub # NoSub
                 /\ KeptPort(n).hw_enable # GetHwEnable(idlIntf[n])}

(* Faulty: "true" is noticed, its removal is not. *)
ModifiedPorts_EnableOnly ==
  {n \in Names : /\ KeptPort(n).uuid # NoUuid
                 /\ GetHwEnable(idlIntf[n])
                 /\ ~KeptPort(n).hw_enable}

(* The ports whose hw_enable ovsdb_if_intf_modify finds changed. *)
ModifiedPorts ==
  {n \in Names : /\ KeptPort(n).uuid # NoUuid
                 /\ KeptPort(n).hw_enable # GetHwEnable(idlIntf[n])}

(* Faulty: pm_configure_port is called before hw_enable is assigned. *)
ReconfiguredPort_Stale(n, created) ==
  IF n \in created
  THEN NewPort(idlIntf[n].uuid, idlIntf[n].sub, GetHwEnable(idlIntf[n]))
  ELSE KeptPort(n)

(* Faulty: a port follows its interface to another subsystem, and nothing  *)
(* configures the cage that it then has.                                   *)
ReconfiguredPort_Rebound(n, created) ==
  IF n \in created
  THEN NewPort(idlIntf[n].uuid, idlIntf[n].sub, GetHwEnable(idlIntf[n]))
  ELSE [KeptPort(n) EXCEPT !.hw_enable = GetHwEnable(idlIntf[n]),
                           !.subsystem = IF idlIntf[n].sub = NoSub THEN @
                                         ELSE idlIntf[n].sub]

(* A port after the pass.  A port that is kept keeps its subsystem, also   *)
(* when another one lists the interface by now.                            *)
ReconfiguredPort(n, created) ==
  IF n \in created
  THEN NewPort(idlIntf[n].uuid, idlIntf[n].sub, GetHwEnable(idlIntf[n]))
  ELSE IF n \in ModifiedPorts
       THEN [KeptPort(n) EXCEPT !.hw_enable = GetHwEnable(idlIntf[n])]
       ELSE KeptPort(n)

(* One pass over the replica.  Creation and modification both end in       *)
(* pm_configure_port, creation also in pm_clear_reset.                     *)
ProcessReplica ==
  \E bad \in SUBSET NewSubs, parsed \in [SubNames -> SUBSET Names] :
    /\ PmReadYamlFiles(bad, parsed)
    /\ LET created == CreatedPorts(bad, yamlPorts')
           ports   == [n \in Names |-> ReconfiguredPort(n, created)]
       IN  /\ ovs_intfs' = ports
           /\ PmConfigurePorts(created \cup ModifiedPorts, ports, yamlFailed')
           /\ PmClearResets(created, ports, yamlFailed')
           /\ lostInfo' = {n \in lostInfo : ports[n].uuid = ovs_intfs[n].uuid}
    /\ ovs_subs' = idlSub
    /\ seqnoMoved' = FALSE
    /\ UNCHANGED <<dbVars, idlVars, cur_hw_set, txn, slot>>

PmdReconfigure ==
  IF seqnoMoved THEN ProcessReplica
                ELSE UNCHANGED <<dbVars, idlVars, pmdVars, hwVars>>

---------------------------------------------------------------------------
(* The pages that pm_read_a0 may find for a port. *)
Pages(n) ==
  IF Live(n) THEN PmReadA0(CageOf(n), MayFail(ovs_intfs[n], yamlFailed)) ELSE {ZeroId}

(* pm_read_state (src/plug.c) over ovs_intfs. *)
PmReadState ==
  /\ \E page \in [Names -> UNION {Pages(n) : n \in Names}] :
       /\ \A n \in Names : page[n] \in Pages(n)
       /\ ovs_intfs' = [n \in Names |->
            IF Live(n)
            THEN PmReadModuleState(Connector[CageOf(n)], ovs_intfs[n], page[n])
            ELSE ovs_intfs[n]]
  /\ UNCHANGED <<dbVars, idlVars, hwVars, seqnoMoved, ovs_subs, yamlPorts,
                 cur_hw_set, txn, yamlFailed, lostInfo>>

---------------------------------------------------------------------------
(* pm_ovsdb_update. *)

(* Of the columns only these four are put in pm_info; the other smap_adds  *)
(* are commented out. *)
Published(columns) ==
  [connector        |-> columns.connector,
   connector_status |-> columns.connector_status,
   supported_speeds |-> columns.supported_speeds,
   max_speed        |-> columns.max_speed]

(* The rows that the loop over ovs_intfs puts in the transaction. *)
ChangedRows ==
  {n \in Names : /\ Live(n)
                 /\ idlIntf[n].uuid = ovs_intfs[n].uuid
                 /\ ovs_intfs[n].module_info_changed}

(* Faulty: the flag is left standing. *)
UpdatedPort_KeepsFlag(n) == ovs_intfs[n]

(* module_info_changed is cleared as the row is put in the transaction. *)
UpdatedPort(n) ==
  [ovs_intfs[n] EXCEPT !.module_info_changed = @ /\ n \notin ChangedRows]

(* Faulty: the Daemon table is searched once, whether the row is there. *)
CurHwDone_Once == TRUE

(* cur_hw_set after the search for the row "ops-pmd". *)
CurHwDone == cur_hw_set \/ idlDaemon

(* The part of pm_ovsdb_update before the commit. *)
BuildTxn ==
  /\ txn' = [rows |-> ChangedRows, cur_hw |-> ~cur_hw_set /\ idlDaemon]
  /\ ovs_intfs' = [n \in Names |-> UpdatedPort(n)]
  /\ cur_hw_set' = CurHwDone
  /\ UNCHANGED <<dbVars, idlVars, hwVars, seqnoMoved, ovs_subs, yamlPorts,
                 yamlFailed, lostInfo>>

(* ovsdb_idl_txn_commit_block, whose result is ignored.  An update of a    *)
(* row that has been deleted meanwhile changes nothing.                    *)
CommitTxn(success) ==
  /\ IF success
     THEN /\ dbInfo' = [n \in Names |->
                IF n \in txn.rows /\ dbIntf[n].uuid = ovs_intfs[n].uuid
                THEN Published(ovs_intfs[n].columns) ELSE dbInfo[n]]
          /\ dbCurHw' = IF txn.cur_hw THEN "1" ELSE dbCurHw
          /\ lostInfo' = lostInfo \ txn.rows
     ELSE /\ lostInfo' = lostInfo \cup txn.rows
          /\ UNCHANGED <<dbInfo, dbCurHw>>
  /\ txn' = NoTxn
  /\ UNCHANGED <<dbIntf, dbSub, idlVars, hwVars, seqnoMoved, ovs_intfs,
                 ovs_subs, yamlPorts, cur_hw_set, yamlFailed>>
===========================================================================
