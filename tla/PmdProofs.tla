----------------------------- MODULE PmdProofs -----------------------------
(***************************************************************************)
(* The safety properties of Pmd proved for every value of the constants.   *)
(* The inductive invariant is IInv of PmdInvariants.                        *)
(***************************************************************************)
EXTENDS PmdTypeProofs, PmdInvariants

---------------------------------------------------------------------------
(* What the parts of a step do.                                            *)

(* Steps that the daemon's memory does not notice. *)
Outside == UNCHANGED <<idlVars, pmdVars, pc>>

(* The process starts or ends. *)
Rebirth == OvsdbIfInit /\ pc' \in {"idle", "stopped"} /\ UNCHANGED <<hwVars, dbVars>>

(* Every step is one of the loop, a birth or death of the process, or      *)
(* outside of the process.                                                 *)
LEMMA StepCases ==
  ASSUME [Next]_vars
  PROVE  \/ Rebirth
         \/ IdlRun \/ Reconfigure \/ Scan \/ Update \/ Commit
         \/ (Env \/ UNCHANGED vars) /\ Outside
<1>1. CASE PmdInit
  BY <1>1 DEF PmdInit, Rebirth
<1>2. CASE PmdExit \/ Crash
  BY <1>2 DEF PmdExit, Crash, Halt, Rebirth
<1>3. ASSUME NEW n \in Names,
             AddInterface(n) \/ DelInterface(n) \/ MoveInterface(n) \/ SetHwEnable(n)
      PROVE  Outside
  BY <1>3 DEF AddInterface, DelInterface, MoveInterface, SetHwEnable, SetRow, Outside
<1>4. ASSUME NEW c \in Cages, InsertModule(c) \/ RemoveModule(c)
      PROVE  Outside
  BY <1>4 DEF InsertModule, RemoveModule, Outside
<1>5. ASSUME NEW s \in SubNames, AddSubsystem(s) \/ DelSubsystem(s)
      PROVE  Outside
  BY <1>5 DEF AddSubsystem, DelSubsystem, Outside
<1>6. CASE AddDaemonRow \/ GrantLock \/ RevokeLock
  BY <1>6 DEF AddDaemonRow, GrantLock, RevokeLock, Outside, Env
<1>7. CASE UNCHANGED vars
  BY <1>7 DEF vars, ctlVars, Outside
<1> QED
  BY <1>1, <1>2, <1>3, <1>4, <1>5, <1>6, <1>7 DEF Next, Loop, Env

(* Ports of different names are bound to different cages. *)
LEMMA CagesApart ==
  ASSUME NEW m \in Names, NEW n \in Names, NEW p, NEW q,
         p.subsystem \in SubNames, q.subsystem \in SubNames,
         ModuleDevice(m, p) = ModuleDevice(n, q)
  PROVE  m = n
  BY OneNamePerCage DEF ModuleDevice

(* pm_configure_port switches only the lasers of the ports it is called    *)
(* for, to their hw_enable.                                                *)
LEMMA ConfigureMoves ==
  ASSUME NEW ns \in SUBSET Names, NEW ports, NEW unread,
         PmConfigurePorts(ns, ports, unread),
         \A m \in ns : ports[m].subsystem \in SubNames,
         NEW c, (c \in disabled') # (c \in disabled)
  PROVE  \E n \in ns : /\ ModuleDevice(n, ports[n]) = c
                       /\ (c \in disabled') = ~ports[n].hw_enable
<1> DEFINE cage(n) == ModuleDevice(n, ports[n])
<1>1. PICK written \in SUBSET ns :
        disabled' = {d \in disabled : \A n \in written : cage(n) # d}
                      \cup {cage(n) : n \in {m \in written : ~ports[m].hw_enable}}
  BY DEF PmConfigurePorts
<1>2. PICK n \in written : cage(n) = c
  BY <1>1
<1>3. \A m \in written : cage(m) = c => m = n
  BY <1>2, CagesApart
<1>4. (c \in disabled') = ~ports[n].hw_enable
  BY <1>1, <1>2, <1>3
<1> QED BY <1>2, <1>4

(* Where it is called for an SFP+ port the laser is then as the port says, *)
(* unless the write failed; where it is not called nothing happens.        *)
LEMMA ConfigureEffect ==
  ASSUME NEW ns \in SUBSET Names, NEW ports, NEW unread,
         PmConfigurePorts(ns, ports, unread),
         \A m \in ns : ports[m].subsystem \in SubNames,
         NEW n \in Names, ports[n].subsystem \in SubNames,
         NEW c, c = ModuleDevice(n, ports[n])
  PROVE  /\ (n \in ns /\ Connector[c] = SfpPlus /\ c \notin failedWrite') =>
              (c \in disabled') = ~ports[n].hw_enable
         /\ n \notin ns => /\ (c \in failedWrite') = (c \in failedWrite)
                           /\ (c \in disabled') = (c \in disabled)
<1> DEFINE cage(m) == ModuleDevice(m, ports[m])
           attempts == {m \in ns : Configurable(Connector[cage(m)], ports[m])}
<1>1. PICK failed \in SUBSET attempts :
        /\ disabled' =
             {d \in disabled : \A m \in attempts \ failed : cage(m) # d}
               \cup {cage(m) : m \in {k \in attempts \ failed : ~ports[k].hw_enable}}
        /\ failedWrite' =
             {d \in failedWrite : \A m \in attempts : cage(m) # d}
               \cup {cage(m) : m \in failed}
  BY DEF PmConfigurePorts
<1>2. \A m \in ns : cage(m) = c => m = n
  BY CagesApart
<1>3. attempts \subseteq ns
  OBVIOUS
<1>4. (n \in ns /\ Connector[c] = SfpPlus) => n \in attempts
  BY DEF Configurable
<1>5. n \in failed => c \in failedWrite'
  BY <1>1
<1> HIDE DEF attempts
<1>6. n \in attempts \ failed => (c \in disabled') = ~ports[n].hw_enable
  BY <1>1, <1>2, <1>3
<1>7. n \notin ns => /\ (c \in failedWrite') = (c \in failedWrite)
                     /\ (c \in disabled') = (c \in disabled)
  BY <1>1, <1>2, <1>3
<1> QED BY <1>4, <1>5, <1>6, <1>7

(* What pmd_reconfigure makes of one port. *)
LEMMA ReconfiguredPortFacts ==
  ASSUME TypeOK, NEW n \in Names, NEW created,
         n \in created => KeptPort(n).uuid = NoUuid /\ idlIntf[n].uuid # NoUuid,
         NEW p, p = ReconfiguredPort(n, created)
  PROVE  /\ p.uuid # NoUuid => /\ p.uuid = idlIntf[n].uuid
                               /\ p.hw_enable = GetHwEnable(idlIntf[n])
         /\ n \in created \cup ModifiedPorts => p.hw_enable = GetHwEnable(idlIntf[n])
         /\ n \in created => p.uuid # NoUuid /\ ~p.present /\ p.subsystem = idlIntf[n].sub
         /\ n \notin created => /\ p.uuid = KeptPort(n).uuid
                                /\ p.subsystem = KeptPort(n).subsystem
                                /\ p.present = KeptPort(n).present
                                /\ p.columns = KeptPort(n).columns
                                /\ p.module_info_changed = KeptPort(n).module_info_changed
         /\ n \notin created \cup ModifiedPorts => p = KeptPort(n)
<1>1. ovs_intfs[n] \in Port /\ idlIntf[n] \in Row
  BY DEF TypeOK, PmdTypeOK, DbTypeOK
<1>2. KeptPort(n) \in Port
  BY <1>1, NoPortTyped DEF KeptPort
<1>3. KeptPort(n).uuid # NoUuid => KeptPort(n).uuid = idlIntf[n].uuid
  BY DEF KeptPort, NoPort, NewPort
<1>4. CASE n \in created
  BY <1>4 DEF ReconfiguredPort, NewPort, ModifiedPorts
<1>5. CASE n \notin created /\ n \in ModifiedPorts
  BY <1>2, <1>3, <1>5 DEF ReconfiguredPort, Port
<1>6. CASE n \notin created /\ n \notin ModifiedPorts
  BY <1>2, <1>3, <1>6 DEF ReconfiguredPort, ModifiedPorts
<1> QED BY <1>4, <1>5, <1>6

(* pmd_reconfigure as a whole, when there is something to do. *)
LEMMA ReconfigureEffect ==
  ASSUME TypeOK, Reconfigure, seqnoMoved
  PROVE  \E bad \in SUBSET NewSubs, created \in SUBSET Names :
           /\ created = CreatedPorts(bad, yamlPorts')
           /\ ovs_intfs' = [n \in Names |-> ReconfiguredPort(n, created)]
           /\ PmConfigurePorts(created \cup ModifiedPorts, ovs_intfs', yamlFailed')
           /\ lostInfo' = {n \in lostInfo : ovs_intfs'[n].uuid = ovs_intfs[n].uuid}
           /\ \A s \in SubNames \ bad :
                yamlPorts'[s] = IF s \in NewSubs THEN Described[s] ELSE yamlPorts[s]
           /\ yamlFailed' = (yamlFailed \ NewSubs) \cup bad
           /\ ovs_subs' = idlSub
           /\ seqnoMoved' = FALSE
           /\ UNCHANGED <<dbVars, idlVars, cur_hw_set, txn, slot>>
<1>1. PICK bad \in SUBSET NewSubs, parsed \in [SubNames -> SUBSET Names] :
         /\ PmReadYamlFiles(bad, parsed)
         /\ LET created == CreatedPorts(bad, yamlPorts')
                ports   == [n \in Names |-> ReconfiguredPort(n, created)]
            IN  /\ ovs_intfs' = ports
                /\ PmConfigurePorts(created \cup ModifiedPorts, ports, yamlFailed')
                /\ PmClearResets(created, ports, yamlFailed')
                /\ lostInfo' = {n \in lostInfo : ports[n].uuid = ovs_intfs[n].uuid}
         /\ ovs_subs' = idlSub
         /\ seqnoMoved' = FALSE
         /\ UNCHANGED <<dbVars, idlVars, cur_hw_set, txn, slot>>
  BY DEF Reconfigure, PmdReconfigure, ProcessReplica
<1>2. CreatedPorts(bad, yamlPorts') \in SUBSET Names
  BY DEF CreatedPorts
<1>3. /\ \A s \in SubNames \ bad :
            yamlPorts'[s] = IF s \in NewSubs THEN Described[s] ELSE yamlPorts[s]
      /\ yamlFailed' = (yamlFailed \ NewSubs) \cup bad
  BY <1>1 DEF PmReadYamlFiles
<1> WITNESS bad \in SUBSET NewSubs, CreatedPorts(bad, yamlPorts') \in SUBSET Names
<1> QED BY <1>1, <1>3

(* The ports that pm_configure_port is called for exist. *)
LEMMA ReconfigureBound ==
  ASSUME TypeOK, NEW bad, NEW yaml, NEW created, created = CreatedPorts(bad, yaml),
         NEW n \in created \cup ModifiedPorts
  PROVE  ReconfiguredPort(n, created).uuid # NoUuid
<1>1. n \in Names
  BY DEF CreatedPorts, ModifiedPorts
<1>2. n \in created => KeptPort(n).uuid = NoUuid /\ idlIntf[n].uuid # NoUuid
  BY DEF CreatedPorts
<1>3. n \notin created => KeptPort(n).uuid # NoUuid
  BY DEF ModifiedPorts
<1> QED BY <1>1, <1>2, <1>3, ReconfiguredPortFacts

(* The same, port by port. *)
LEMMA ReconfigurePorts ==
  ASSUME TypeOK, Reconfigure, seqnoMoved, NEW n \in Names
  PROVE  /\ Live(n)' => /\ ovs_intfs'[n].uuid = idlIntf[n].uuid
                        /\ ovs_intfs'[n].hw_enable = GetHwEnable(idlIntf[n])
         /\ Live(n)' /\ ovs_intfs'[n].present =>
              /\ ovs_intfs'[n].uuid = ovs_intfs[n].uuid
              /\ ovs_intfs'[n].present = ovs_intfs[n].present
              /\ ovs_intfs'[n].columns = ovs_intfs[n].columns
              /\ ovs_intfs'[n].module_info_changed = ovs_intfs[n].module_info_changed
              /\ (n \in lostInfo') = (n \in lostInfo)
         /\ Live(n)' => \/ ovs_intfs'[n].subsystem = idlIntf[n].sub
                        \/ Live(n) /\ ovs_intfs'[n].subsystem = ovs_intfs[n].subsystem
         /\ (/\ SfpRegister /\ Live(n)'
             /\ Connector[CageOf(n)'] = SfpPlus /\ CageOf(n)' \notin failedWrite') =>
              (CageOf(n)' \in disabled') = ~ovs_intfs'[n].hw_enable
<1>1. PICK bad \in SUBSET NewSubs, created \in SUBSET Names :
           /\ created = CreatedPorts(bad, yamlPorts')
           /\ ovs_intfs' = [m \in Names |-> ReconfiguredPort(m, created)]
           /\ PmConfigurePorts(created \cup ModifiedPorts, ovs_intfs', yamlFailed')
           /\ lostInfo' = {m \in lostInfo : ovs_intfs'[m].uuid = ovs_intfs[m].uuid}
  BY ReconfigureEffect
<1>2. n \in created => KeptPort(n).uuid = NoUuid /\ idlIntf[n].uuid # NoUuid
  BY <1>1 DEF CreatedPorts
<1> DEFINE p == ovs_intfs'[n]
<1>3. p = ReconfiguredPort(n, created)
  BY <1>1
<1>4. /\ p.uuid # NoUuid => /\ p.uuid = idlIntf[n].uuid
                            /\ p.hw_enable = GetHwEnable(idlIntf[n])
      /\ n \in created \cup ModifiedPorts => p.hw_enable = GetHwEnable(idlIntf[n])
      /\ n \in created => p.uuid # NoUuid /\ ~p.present /\ p.subsystem = idlIntf[n].sub
      /\ n \notin created => /\ p.uuid = KeptPort(n).uuid
                             /\ p.subsystem = KeptPort(n).subsystem
                             /\ p.present = KeptPort(n).present
                             /\ p.columns = KeptPort(n).columns
                             /\ p.module_info_changed = KeptPort(n).module_info_changed
      /\ n \notin created \cup ModifiedPorts => p = KeptPort(n)
  BY <1>2, <1>3, ReconfiguredPortFacts
<1>5. KeptPort(n).uuid # NoUuid => KeptPort(n) = ovs_intfs[n]
  BY DEF KeptPort, NoPort, NewPort
<1>6. created \cup ModifiedPorts \in SUBSET Names
  BY DEF ModifiedPorts
<1> DEFINE c == ModuleDevice(n, p)
<1>7. /\ \A m \in created \cup ModifiedPorts : ovs_intfs'[m].subsystem \in SubNames
      /\ p.uuid # NoUuid => p.subsystem \in SubNames
  BY <1>1, <1>6, ReconfigureBound, ReconfigureTyped DEF TypeOK, PmdTypeOK, Live
<1>8. p.uuid # NoUuid =>
        /\ (n \in created \cup ModifiedPorts /\ Connector[c] = SfpPlus /\ c \notin failedWrite') =>
             (c \in disabled') = ~p.hw_enable
        /\ n \notin created \cup ModifiedPorts => /\ (c \in failedWrite') = (c \in failedWrite)
                                                /\ (c \in disabled') = (c \in disabled)
  BY <1>1, <1>6, <1>7, ConfigureEffect
<1>13. CageOf(n)' = c
  BY DEF CageOf
<1> HIDE DEF p, c
<1>9. Live(n)' <=> p.uuid # NoUuid
  BY DEF Live, p
<1>10. Live(n)' /\ p.present =>
              /\ p.uuid = ovs_intfs[n].uuid
              /\ p.present = ovs_intfs[n].present
              /\ p.columns = ovs_intfs[n].columns
              /\ p.module_info_changed = ovs_intfs[n].module_info_changed
              /\ (n \in lostInfo') = (n \in lostInfo)
  BY <1>1, <1>4, <1>5, <1>9 DEF p
<1>11. ASSUME SfpRegister, Live(n)', Connector[c] = SfpPlus, c \notin failedWrite'
       PROVE  (c \in disabled') = ~p.hw_enable
  <2>1. CASE n \in created \cup ModifiedPorts
    BY <1>8, <1>9, <1>11, <2>1
  <2>2. CASE n \notin created \cup ModifiedPorts
    <3>1. p = ovs_intfs[n] /\ Live(n) /\ c = CageOf(n)
      BY <1>4, <1>5, <1>9, <1>11, <2>2 DEF Live, CageOf, c
    <3> QED BY <1>8, <1>9, <1>11, <2>2, <3>1 DEF SfpRegister
  <2> QED BY <2>1, <2>2
<1>12. Live(n)' => \/ p.subsystem = idlIntf[n].sub
                   \/ Live(n) /\ p.subsystem = ovs_intfs[n].subsystem
  BY <1>4, <1>5, <1>9 DEF Live
<1> QED BY <1>4, <1>9, <1>10, <1>11, <1>12, <1>13 DEF p

(* A laser that pmd_reconfigure switches is that of a port, and is         *)
(* switched to what the row of the port asks.                              *)
LEMMA ReconfigureLasers ==
  ASSUME TypeOK, Reconfigure, seqnoMoved, NEW c, (c \in disabled') # (c \in disabled)
  PROVE  \E n \in Names : /\ Live(n)' /\ CageOf(n)' = c
                          /\ (c \in disabled') = ~GetHwEnable(idlIntf[n])
<1>1. PICK bad \in SUBSET NewSubs, created \in SUBSET Names :
           /\ created = CreatedPorts(bad, yamlPorts')
           /\ ovs_intfs' = [m \in Names |-> ReconfiguredPort(m, created)]
           /\ PmConfigurePorts(created \cup ModifiedPorts, ovs_intfs', yamlFailed')
  BY ReconfigureEffect
<1>2. created \cup ModifiedPorts \in SUBSET Names
  BY DEF ModifiedPorts
<1>3. \A m \in created \cup ModifiedPorts : Live(m)' /\ ovs_intfs'[m].subsystem \in SubNames
  BY <1>1, <1>2, ReconfigureBound, ReconfigureTyped DEF TypeOK, PmdTypeOK, Live
<1>4. PICK n \in created \cup ModifiedPorts :
        ModuleDevice(n, ovs_intfs'[n]) = c /\ (c \in disabled') = ~ovs_intfs'[n].hw_enable
  BY <1>1, <1>2, <1>3, ConfigureMoves
<1>5. ovs_intfs'[n].hw_enable = GetHwEnable(idlIntf[n])
  BY <1>2, <1>3, ReconfigurePorts
<1> QED BY <1>2, <1>3, <1>4, <1>5 DEF CageOf

(* pmd_reconfigure returns at once when the seqno has not moved.           *)
LEMMA ReconfigureIdle ==
  ASSUME Reconfigure, ~seqnoMoved
  PROVE  UNCHANGED <<dbVars, idlVars, pmdVars, hwVars>>
  BY DEF Reconfigure, PmdReconfigure

(* The scan changes neither which ports there are nor their hw_enable, and *)
(* raises module_info_changed where it changes anything.                   *)
LEMMA ScanEffect ==
  ASSUME TypeOK, Scan, NEW n \in Names
  PROVE  /\ ovs_intfs'[n].uuid = ovs_intfs[n].uuid
         /\ ovs_intfs'[n].subsystem = ovs_intfs[n].subsystem
         /\ ovs_intfs'[n].hw_enable = ovs_intfs[n].hw_enable
         /\ \/ ovs_intfs'[n] = ovs_intfs[n]
            \/ ovs_intfs'[n].module_info_changed
<1>1. PICK page :
        ovs_intfs' = [m \in Names |->
             IF Live(m)
             THEN PmReadModuleState(Connector[CageOf(m)], ovs_intfs[m], page[m])
             ELSE ovs_intfs[m]]
  BY DEF Scan, PmReadState
<1>2. ovs_intfs[n] \in Port
  BY DEF TypeOK, PmdTypeOK
<1> QED BY <1>1, <1>2 DEF PmReadModuleState, Port

(* The assembly of a transaction changes module_info_changed only. *)
LEMMA UpdateEffect ==
  ASSUME TypeOK, Update, NEW n \in Names
  PROVE  /\ ovs_intfs'[n].uuid = ovs_intfs[n].uuid
         /\ ovs_intfs'[n].subsystem = ovs_intfs[n].subsystem
         /\ ovs_intfs'[n].hw_enable = ovs_intfs[n].hw_enable
         /\ ovs_intfs'[n].present = ovs_intfs[n].present
         /\ ovs_intfs'[n].columns = ovs_intfs[n].columns
         /\ n \notin txn'.rows =>
              ovs_intfs'[n].module_info_changed = ovs_intfs[n].module_info_changed
<1>1. ovs_intfs[n] \in Port
  BY DEF TypeOK, PmdTypeOK
<1>2. ovs_intfs'[n] = UpdatedPort(n) /\ txn'.rows = ChangedRows
  BY DEF Update, BuildTxn
<1> QED BY <1>1, <1>2 DEF UpdatedPort, Port

---------------------------------------------------------------------------
(* Each part of IInv is preserved.                                         *)

(* The tables stay consistent, and the replica with them: it is only ever a *)
(* copy of a consistent table.                                             *)
LEMMA TablesPreserved ==
  ASSUME TypeOK, TablesConsistent(dbIntf, dbSub), TablesConsistent(idlIntf, idlSub),
         [Next]_vars
  PROVE  TablesConsistent(dbIntf, dbSub)' /\ TablesConsistent(idlIntf, idlSub)'
<1> USE DEF TablesConsistent
<1>1. CASE Rebirth
  BY <1>1 DEF Rebirth, OvsdbIfInit, dbVars, NoRow
<1>2. CASE IdlRun
  BY <1>2 DEF IdlRun, IdlCatchUp, dbVars
<1>3. CASE Reconfigure
  <2>1. UNCHANGED <<dbVars, idlVars>>
    BY <1>3, ReconfigureIdle DEF Reconfigure, PmdReconfigure, ProcessReplica
  <2> QED BY <2>1 DEF dbVars, idlVars
<1>4. CASE Scan
  BY <1>4 DEF Scan, PmReadState, dbVars, idlVars
<1>5. CASE Update
  BY <1>5 DEF Update, BuildTxn, dbVars, idlVars
<1>6. CASE Commit
  BY <1>6 DEF Commit, CommitTxn, idlVars
<1>7. CASE Outside /\ (Env \/ UNCHANGED vars)
  <2>1. TablesConsistent(idlIntf, idlSub)'
    BY <1>7 DEF Outside, idlVars
  <2>2. ASSUME NEW n \in Names, NEW u, NEW e, NEW t,
               t # NoSub => u # NoUuid /\ dbSub[t] # NoUuid,
               SetRow(n, [uuid |-> u, sub |-> t, enable |-> e])
        PROVE  TablesConsistent(dbIntf, dbSub)'
    BY <2>2 DEF SetRow, TypeOK, DbTypeOK
  <2>3. ASSUME NEW n \in Names, AddInterface(n)
        PROVE  TablesConsistent(dbIntf, dbSub)'
    BY <2>2, <2>3, UuidAssumption, NoSubAssumption DEF AddInterface, FreshIntfUuid
  <2>4. ASSUME NEW n \in Names, DelInterface(n)
        PROVE  TablesConsistent(dbIntf, dbSub)'
    BY <2>2, <2>4 DEF DelInterface, NoRow
  <2>5. ASSUME NEW n \in Names, MoveInterface(n)
        PROVE  TablesConsistent(dbIntf, dbSub)'
    <3>1. PICK t \in {v \in SubNames : dbSub[v] # NoUuid} \cup {NoSub} :
             SetRow(n, [dbIntf[n] EXCEPT !.sub = t])
      BY <2>5 DEF MoveInterface
    <3> QED BY <2>5, <3>1 DEF MoveInterface, SetRow, TypeOK, DbTypeOK, Row
  <2>6. ASSUME NEW n \in Names, SetHwEnable(n)
        PROVE  TablesConsistent(dbIntf, dbSub)'
    BY <2>6 DEF SetHwEnable, SetRow, TypeOK, DbTypeOK, Row
  <2>7. ASSUME NEW s \in SubNames, AddSubsystem(s)
        PROVE  TablesConsistent(dbIntf, dbSub)'
    BY <2>7, UuidAssumption DEF AddSubsystem, FreshSubUuid, TypeOK, DbTypeOK
  <2>8. ASSUME NEW s \in SubNames, DelSubsystem(s)
        PROVE  TablesConsistent(dbIntf, dbSub)'
    BY <2>8 DEF DelSubsystem, TypeOK, DbTypeOK, Row
  <2>9. ASSUME UNCHANGED <<dbIntf, dbSub>>
        PROVE  TablesConsistent(dbIntf, dbSub)'
    BY <2>9
  <2>10. ASSUME NEW c \in Cages, InsertModule(c) \/ RemoveModule(c)
         PROVE  UNCHANGED <<dbIntf, dbSub>>
    BY <2>10 DEF InsertModule, RemoveModule, dbVars
  <2>11. ASSUME AddDaemonRow \/ GrantLock \/ RevokeLock \/ PmdExit \/ Crash \/ UNCHANGED vars
         PROVE  UNCHANGED <<dbIntf, dbSub>>
    BY <2>11 DEF AddDaemonRow, GrantLock, RevokeLock, PmdExit, Crash, Halt, vars, dbVars
  <2> HIDE DEF TablesConsistent
  <2> QED BY <1>7, <2>1, <2>3, <2>4, <2>5, <2>6, <2>7, <2>8, <2>9, <2>10, <2>11 DEF Env
<1> HIDE DEF TablesConsistent
<1> QED BY <1>1, <1>2, <1>3, <1>4, <1>5, <1>6, <1>7, StepCases

(* pmd_reconfigure restores the mirror, and nothing else that leaves the   *)
(* seqno alone breaks it.                                                  *)
LEMMA MirrorPreserved ==
  ASSUME TypeOK, PortsMirrorReplica, [Next]_vars
  PROVE  PortsMirrorReplica'
<1> USE DEF PortsMirrorReplica, Live
<1>1. CASE Rebirth
  BY <1>1 DEF Rebirth, OvsdbIfInit, NoPort, NewPort
<1>2. CASE IdlRun
  <2>1. ~seqnoMoved' => ~seqnoMoved /\ idlIntf' = idlIntf
    BY <1>2 DEF IdlRun, IdlCatchUp, idlVars
  <2> QED BY <1>2, <2>1 DEF IdlRun
<1>3. CASE Reconfigure /\ seqnoMoved
  <2>1. idlIntf' = idlIntf
    BY <1>3, ReconfigureEffect DEF idlVars
  <2> QED BY <1>3, <2>1, ReconfigurePorts
<1>4. CASE Reconfigure /\ ~seqnoMoved
  BY <1>4, ReconfigureIdle DEF idlVars, pmdVars
<1>5. CASE Scan
  BY <1>5, ScanEffect DEF Scan, PmReadState, idlVars
<1>6. CASE Update
  BY <1>6, UpdateEffect DEF Update, BuildTxn, idlVars
<1>7. CASE Commit
  BY <1>7 DEF Commit, CommitTxn, idlVars
<1>8. CASE Outside
  BY <1>8 DEF Outside, idlVars, pmdVars
<1> HIDE DEF PortsMirrorReplica
<1> QED BY <1>1, <1>2, <1>3, <1>4, <1>5, <1>6, <1>7, <1>8, StepCases

(* A subsystem enters ovs_subs together with the reading of its files.     *)
LEMMA YamlPreserved ==
  ASSUME TypeOK, YamlLoaded, [Next]_vars
  PROVE  YamlLoaded'
<1> USE DEF YamlLoaded
<1>1. CASE Rebirth
  BY <1>1 DEF Rebirth, OvsdbIfInit
<1>2. CASE IdlRun
  BY <1>2 DEF IdlRun
<1>3. CASE Reconfigure /\ seqnoMoved
  <2>1. PICK bad \in SUBSET NewSubs :
          /\ \A s \in SubNames \ bad :
               yamlPorts'[s] = IF s \in NewSubs THEN Described[s] ELSE yamlPorts[s]
          /\ yamlFailed' = (yamlFailed \ NewSubs) \cup bad
          /\ ovs_subs' = idlSub
    BY <1>3, ReconfigureEffect
  <2>2. \A s \in SubNames \ NewSubs : idlSub[s] # NoUuid => ovs_subs[s] = idlSub[s]
    BY DEF NewSubs, KeptSub
  <2> QED BY <2>1, <2>2
<1>4. CASE Reconfigure /\ ~seqnoMoved
  BY <1>4, ReconfigureIdle DEF pmdVars
<1>5. CASE Scan \/ Update \/ Commit
  BY <1>5 DEF Scan, PmReadState, Update, BuildTxn, Commit, CommitTxn
<1>6. CASE Outside
  BY <1>6 DEF Outside, pmdVars
<1> HIDE DEF YamlLoaded
<1> QED BY <1>1, <1>2, <1>3, <1>4, <1>5, <1>6, StepCases

(* ovsdb_if_subsys_process creates the ports that are missing.             *)
LEMMA CompletePreserved ==
  ASSUME TypeOK, PortsComplete, YamlLoaded, TablesConsistent(idlIntf, idlSub),
         [Next]_vars
  PROVE  PortsComplete'
<1> USE DEF PortsComplete, Live
<1>1. CASE Rebirth
  BY <1>1, NoSubAssumption DEF Rebirth, OvsdbIfInit, NoRow
<1>2. CASE IdlRun
  <2>1. ~seqnoMoved' => ~seqnoMoved /\ idlIntf' = idlIntf
    BY <1>2 DEF IdlRun, IdlCatchUp, idlVars
  <2> QED BY <1>2, <2>1 DEF IdlRun
<1>3. CASE Reconfigure /\ seqnoMoved
  <2> PICK bad \in SUBSET NewSubs, created \in SUBSET Names :
           /\ created = CreatedPorts(bad, yamlPorts')
           /\ ovs_intfs' = [n \in Names |-> ReconfiguredPort(n, created)]
           /\ \A s \in SubNames \ bad :
                yamlPorts'[s] = IF s \in NewSubs THEN Described[s] ELSE yamlPorts[s]
           /\ yamlFailed' = (yamlFailed \ NewSubs) \cup bad
           /\ UNCHANGED idlVars
    BY <1>3, ReconfigureEffect
  <2> SUFFICES ASSUME NEW n \in Names, idlIntf[n].sub \in SubNames \ yamlFailed',
                      n \in Described[idlIntf[n].sub]
               PROVE  Live(n)'
    BY DEF idlVars
  <2> DEFINE t == idlIntf[n].sub
  <2>1. t \in SubNames /\ t \notin bad /\ (t \in NewSubs \/ t \notin yamlFailed)
    OBVIOUS
  <2>2. idlIntf[n].uuid # NoUuid /\ idlSub[t] # NoUuid
    BY NoSubAssumption DEF TablesConsistent
  <2>3. t \notin NewSubs => yamlPorts[t] = Described[t]
    BY <2>1, <2>2 DEF YamlLoaded, NewSubs, KeptSub
  <2>4. n \in yamlPorts'[t]
    BY <2>1, <2>3
  <2>5. n \in created <=> KeptPort(n).uuid = NoUuid
    BY <2>1, <2>2, <2>4 DEF CreatedPorts
  <2>6. ovs_intfs'[n] = ReconfiguredPort(n, created)
    OBVIOUS
  <2>7. n \in created => KeptPort(n).uuid = NoUuid /\ idlIntf[n].uuid # NoUuid
    BY <2>2, <2>5
  <2>8. ovs_intfs'[n].uuid # NoUuid
    BY <2>5, <2>6, <2>7, ReconfiguredPortFacts
  <2> QED BY <2>8
<1>4. CASE Reconfigure /\ ~seqnoMoved
  BY <1>4, ReconfigureIdle DEF idlVars, pmdVars
<1>5. CASE Scan
  BY <1>5, ScanEffect DEF Scan, PmReadState, idlVars
<1>6. CASE Update
  BY <1>6, UpdateEffect DEF Update, BuildTxn, idlVars
<1>7. CASE Commit
  BY <1>7 DEF Commit, CommitTxn, idlVars
<1>8. CASE Outside
  BY <1>8 DEF Outside, idlVars, pmdVars
<1> HIDE DEF PortsComplete
<1> QED BY <1>1, <1>2, <1>3, <1>4, <1>5, <1>6, <1>7, <1>8, StepCases

(* Only someone at the front panel changes the hardware, beside the daemon. *)
LEMMA EnvHardware ==
  ASSUME Env \/ UNCHANGED vars
  PROVE  UNCHANGED hwVars \/ \E c \in Cages : InsertModule(c) \/ RemoveModule(c)
<1>1. ASSUME NEW m \in Names,
             AddInterface(m) \/ DelInterface(m) \/ MoveInterface(m) \/ SetHwEnable(m)
      PROVE  UNCHANGED hwVars
  BY <1>1 DEF AddInterface, DelInterface, MoveInterface, SetHwEnable, SetRow
<1>2. ASSUME NEW s \in SubNames, AddSubsystem(s) \/ DelSubsystem(s)
      PROVE  UNCHANGED hwVars
  BY <1>2 DEF AddSubsystem, DelSubsystem
<1>3. ASSUME AddDaemonRow \/ GrantLock \/ RevokeLock \/ PmdExit \/ Crash \/ UNCHANGED vars
      PROVE  UNCHANGED hwVars
  BY <1>3 DEF AddDaemonRow, GrantLock, RevokeLock, PmdExit, Crash, Halt, vars
<1> QED BY <1>1, <1>2, <1>3 DEF Env

(* It never touches the register of an SFP+ cage. *)
LEMMA EnvSpareSfp ==
  ASSUME Env \/ UNCHANGED vars, NEW c, Connector[c] = SfpPlus
  PROVE  /\ (c \in disabled') = (c \in disabled)
         /\ failedWrite' = failedWrite
  BY EnvHardware DEF InsertModule, RemoveModule, Insert, Remove, hwVars

(* Wherever hw_enable of an SFP+ port is assigned, the register is written. *)
LEMMA RegisterPreserved ==
  ASSUME TypeOK, SfpRegister, [Next]_vars
  PROVE  SfpRegister'
<1>1. CASE Rebirth
  BY <1>1 DEF Rebirth, OvsdbIfInit, NoPort, NewPort, SfpRegister, Live
<1> USE DEF CageOf, ModuleDevice
<1>2. CASE IdlRun
  BY <1>2 DEF IdlRun, hwVars, SfpRegister, Live
<1>3. CASE Reconfigure /\ seqnoMoved
  <2> HIDE DEF CageOf
  <2> QED BY <1>3, ReconfigurePorts DEF SfpRegister
<1>4. CASE Reconfigure /\ ~seqnoMoved
  BY <1>4, ReconfigureIdle DEF hwVars, pmdVars, SfpRegister, Live
<1>5. CASE Scan
  BY <1>5, ScanEffect DEF Scan, PmReadState, hwVars, SfpRegister, Live
<1>6. CASE Update
  BY <1>6, UpdateEffect DEF Update, BuildTxn, hwVars, SfpRegister, Live
<1>7. CASE Commit
  BY <1>7 DEF Commit, CommitTxn, hwVars, SfpRegister, Live
<1>8. CASE (Env \/ UNCHANGED vars) /\ Outside
  BY <1>8, EnvSpareSfp DEF Outside, pmdVars, SfpRegister, Live
<1> HIDE DEF CageOf, ModuleDevice
<1> QED BY <1>1, <1>2, <1>3, <1>4, <1>5, <1>6, <1>7, <1>8, StepCases

(* pm_ovsdb_update closes the transaction that it opens.                   *)
LEMMA TxnPreserved ==
  ASSUME TypeOK, TxnOnlyAtCommit, [Next]_vars
  PROVE  TxnOnlyAtCommit'
<1> USE DEF TxnOnlyAtCommit
<1>1. CASE Rebirth
  BY <1>1 DEF Rebirth, OvsdbIfInit
<1>2. CASE IdlRun \/ Scan \/ Update \/ Commit
  BY <1>2 DEF IdlRun, Scan, PmReadState, Update, Commit, CommitTxn
<1>3. CASE Reconfigure
  <2>1. txn' = txn
    BY <1>3, ReconfigureIdle, ReconfigureEffect DEF pmdVars, TypeOK, PmdTypeOK
  <2> QED BY <1>3, <2>1 DEF Reconfigure
<1>4. CASE Outside
  BY <1>4 DEF Outside, pmdVars
<1> QED BY <1>1, <1>2, <1>3, <1>4, StepCases

(* The environment does not put pm_info on the row of a port, and does not *)
(* give another row the uuid that a port remembers.                        *)
LEMMA EnvSpareInfo ==
  ASSUME TypeOK, Env \/ UNCHANGED vars, Outside, NEW n \in Names, Live(n),
         ovs_intfs[n].uuid = dbIntf'[n].uuid
  PROVE  dbIntf[n].uuid = dbIntf'[n].uuid /\ dbInfo'[n] = dbInfo[n]
<1> USE DEF Live
<1>1. ASSUME NEW m \in Names, AddInterface(m)
      PROVE  dbIntf[n].uuid = dbIntf'[n].uuid /\ dbInfo'[n] = dbInfo[n]
  <2>1. PICK u \in FreshIntfUuid(m), e \in EnableValues :
          \E t \in {v \in SubNames : dbSub[v] # NoUuid} \cup {NoSub} :
            SetRow(m, [uuid |-> u, sub |-> t, enable |-> e])
    BY <1>1 DEF AddInterface
  <2>2. PICK t \in {v \in SubNames : dbSub[v] # NoUuid} \cup {NoSub} :
          SetRow(m, [uuid |-> u, sub |-> t, enable |-> e])
    BY <2>1
  <2>3. n # m
    BY <2>2 DEF SetRow, FreshIntfUuid, TypeOK, DbTypeOK
  <2> QED BY <1>1, <2>2, <2>3 DEF AddInterface, SetRow, TypeOK, DbTypeOK
<1>2. ASSUME NEW m \in Names, DelInterface(m)
      PROVE  dbIntf[n].uuid = dbIntf'[n].uuid /\ dbInfo'[n] = dbInfo[n]
  <2>1. n # m
    BY <1>2 DEF DelInterface, SetRow, NoRow, TypeOK, DbTypeOK
  <2> QED BY <1>2, <2>1 DEF DelInterface, SetRow, TypeOK, DbTypeOK
<1>3. ASSUME NEW m \in Names, MoveInterface(m) \/ SetHwEnable(m)
      PROVE  dbIntf[n].uuid = dbIntf'[n].uuid /\ dbInfo'[n] = dbInfo[n]
  <2>1. CASE MoveInterface(m)
    BY <2>1 DEF MoveInterface, SetRow, TypeOK, DbTypeOK, Row
  <2>2. CASE SetHwEnable(m)
    BY <2>2 DEF SetHwEnable, SetRow, TypeOK, DbTypeOK, Row
  <2> QED BY <1>3, <2>1, <2>2
<1>4. ASSUME NEW s \in SubNames, AddSubsystem(s)
      PROVE  UNCHANGED <<dbIntf, dbInfo>>
  BY <1>4 DEF AddSubsystem
<1>5. ASSUME NEW s \in SubNames, DelSubsystem(s)
      PROVE  dbIntf[n].uuid = dbIntf'[n].uuid /\ dbInfo'[n] = dbInfo[n]
  BY <1>5 DEF DelSubsystem, TypeOK, DbTypeOK, Row
<1>6. ASSUME NEW c \in Cages, InsertModule(c) \/ RemoveModule(c)
      PROVE  UNCHANGED <<dbIntf, dbInfo>>
  BY <1>6 DEF InsertModule, RemoveModule, dbVars
<1>7. ASSUME AddDaemonRow \/ GrantLock \/ RevokeLock \/ PmdExit \/ Crash \/ UNCHANGED vars
      PROVE  UNCHANGED <<dbIntf, dbInfo>>
  BY <1>7 DEF AddDaemonRow, GrantLock, RevokeLock, PmdExit, Crash, Halt, vars, dbVars
<1> QED BY <1>1, <1>2, <1>3, <1>4, <1>5, <1>6, <1>7 DEF Env

(* module_info_changed goes down only as the row enters the transaction, and *)
(* the row leaves the transaction published or lost.                       *)
LEMMA QuietPreserved ==
  ASSUME TypeOK, QuietPortIsPublished, TxnOnlyAtCommit, [Next]_vars
  PROVE  QuietPortIsPublished'
<1> USE DEF QuietPortIsPublished
<1>1. CASE Rebirth
  BY <1>1 DEF Rebirth, OvsdbIfInit, NoPort, NewPort, Live
<1>2. CASE IdlRun
  BY <1>2 DEF IdlRun, dbVars, Live
<1>3. CASE Reconfigure /\ seqnoMoved
  <2>1. UNCHANGED <<dbIntf, dbInfo, txn>>
    BY <1>3, ReconfigureEffect DEF dbVars
  <2> QED BY <1>3, <2>1, ReconfigurePorts DEF Live
<1>4. CASE Reconfigure /\ ~seqnoMoved
  BY <1>4, ReconfigureIdle DEF dbVars, pmdVars, Live
<1>5. CASE Scan
  BY <1>5, ScanEffect DEF Scan, PmReadState, dbVars, Live
<1>6. CASE Update
  <2>1. txn.rows = {}
    BY <1>6 DEF TxnOnlyAtCommit, Update, NoTxn
  <2> QED BY <1>6, <2>1, UpdateEffect DEF Update, BuildTxn, dbVars, Live
<1>7. CASE Commit
  <2>1. PICK success \in BOOLEAN : CommitTxn(success)
    BY <1>7 DEF Commit
  <2>2. CASE success
    BY <2>1, <2>2 DEF CommitTxn, NoTxn, Live
  <2>3. CASE ~success
    BY <2>1, <2>3 DEF CommitTxn, NoTxn, Live
  <2> QED BY <2>2, <2>3
<1>8. CASE (Env \/ UNCHANGED vars) /\ Outside
  BY <1>8, EnvSpareInfo DEF Outside, pmdVars, Live
<1> HIDE DEF QuietPortIsPublished
<1> QED BY <1>1, <1>2, <1>3, <1>4, <1>5, <1>6, <1>7, <1>8, StepCases

---------------------------------------------------------------------------
(* The theorems.                                                           *)

(* The inductive invariant holds before the daemon has started ...         *)
LEMMA InitIInv == Init => IInv
<1> SUFFICES ASSUME Init PROVE IInv
  OBVIOUS
<1>1. TypeOK
  BY InitTyped
<1>2. \A n \in Names : ~Live(n)
  BY DEF Init, Live, NoPort, NewPort
<1>3. TablesConsistent(dbIntf, dbSub)
  <2> SUFFICES ASSUME NEW n \in Names
               PROVE  dbIntf[n].uuid = NoUuid => dbIntf[n].sub = NoSub
    BY DEF Init, TablesConsistent
  <2>1. PICK u \in Uuid : dbIntf[n] \in [uuid : {u}, sub : SubNames \cup {NoSub},
                                        enable : EnableValues] \cup {NoRow}
    BY DEF Init
  <2> QED BY <2>1, UuidAssumption DEF NoRow
<1>4. TablesConsistent(idlIntf, idlSub)
  BY DEF Init, TablesConsistent, NoRow
<1>5. PortsMirrorReplica /\ SfpRegister /\ QuietPortIsPublished
  BY <1>2 DEF PortsMirrorReplica, SfpRegister, QuietPortIsPublished
<1>6. PortsComplete
  BY NoSubAssumption DEF Init, PortsComplete, NoRow
<1>7. YamlLoaded /\ TxnOnlyAtCommit
  BY DEF Init, YamlLoaded, TxnOnlyAtCommit
<1> QED BY <1>1, <1>3, <1>4, <1>5, <1>6, <1>7 DEF IInv, SoloInv

(* ... and every step preserves it: first what concerns the process and    *)
(* the tables, then the hardware and the reports.                          *)
LEMMA NextSolo == SoloInv /\ [Next]_vars => SoloInv'
  BY NextTyped, TablesPreserved, MirrorPreserved, CompletePreserved, YamlPreserved,
     TxnPreserved DEF SoloInv

LEMMA NextIInv == IInv /\ [Next]_vars => IInv'
  BY NextSolo, RegisterPreserved, QuietPreserved DEF IInv, SoloInv

(* The invariant from which the theorems below follow: tables and replica  *)
(* are consistent, ports mirror the replica, registers follow the ports and *)
(* quiet ports are published.                                              *)
THEOREM Inductive == Spec => []IInv
  BY InitIInv, NextIInv, PTL DEF Spec

(* pmd_reconfigure: whatever rows are deleted, re-created or modified      *)
(* between two runs, a port of a synced daemon is the port of the row that *)
(* its replica holds, with the hw_enable of that row.                      *)
THEOREM PortsMirrorRows == Spec => []PortMirrorsRow
<1>1. IInv => PortMirrorsRow
  BY DEF IInv, SoloInv, PortsMirrorReplica, PortMirrorsRow, Synced
<1> QED BY <1>1, Inductive, PTL

(* pmd_reconfigure and ovsdb_if_subsys_process: no row that ports.yaml     *)
(* describes is without a port when the daemon is synced, unless reading   *)
(* the YAML files of its subsystem failed.                                 *)
THEOREM PortsForAllRows == Spec => []PortForEveryRow
<1>1. IInv => PortForEveryRow
  BY DEF IInv, SoloInv, PortsComplete, PortForEveryRow, Synced
<1> QED BY <1>1, Inductive, PTL

(* pm_configure_port: the tx_disable register of an SFP+ cage is as the    *)
(* row of the port asks that is bound to it, whenever the daemon is        *)
(* synced, through crashes, module swaps, re-created rows and hand-overs   *)
(* between subsystems, unless the last write to it failed.                 *)
THEOREM SfpLasersFollow == Spec => []SfpLaserFollowsRow
<1>1. IInv => SfpLaserFollowsRow
  BY DEF IInv, SoloInv, PortsMirrorReplica, SfpRegister, SfpLaserFollowsRow, Synced
<1> QED BY <1>1, Inductive, PTL

(* pm_ovsdb_update: a port that is not flagged for publication, nor in a   *)
(* transaction that is open or failed, has its columns in the database.    *)
THEOREM QuietPortsPublished == Spec => []QuietPortIsPublished
<1>1. IInv => QuietPortIsPublished
  BY DEF IInv, SoloInv
<1> QED BY <1>1, Inductive, PTL

(* The step that switches a laser is pmd_reconfigure. *)
LEMMA LaserStep ==
  ASSUME TypeOK, [Next]_vars, slot' = slot, NEW c \in Cages,
         (c \in disabled') # (c \in disabled)
  PROVE  \E n \in Names : /\ Live(n)' /\ CageOf(n)' = c
                          /\ (c \in disabled') = ~GetHwEnable(idlIntf[n])
<1>1. CASE Reconfigure /\ seqnoMoved
  BY <1>1, ReconfigureLasers
<1>2. CASE Reconfigure /\ ~seqnoMoved
  BY <1>2, ReconfigureIdle DEF hwVars
<1>3. CASE Rebirth \/ IdlRun \/ Scan \/ Update \/ Commit
  BY <1>3 DEF Rebirth, IdlRun, Scan, PmReadState, Update, BuildTxn,
                      Commit, CommitTxn, hwVars
<1>4. CASE Env \/ UNCHANGED vars
  BY <1>4, EnvHardware
       DEF InsertModule, RemoveModule, Insert, Remove, hwVars, TypeOK, HwTypeOK
<1> QED BY <1>1, <1>2, <1>3, <1>4, StepCases

(* pm_configure_port: the daemon never switches a laser, SFP+ or QSFP,     *)
(* away from what the row of the port that is bound to it asks for in the  *)
(* replica, and never one that no port is bound to.                        *)
THEOREM LasersMoveTowardsRows == Spec => LaserMovesTowardsRow
<1>1. TypeOK /\ [Next]_vars =>
        [slot' = slot => \A c \in Cages :
           (c \in disabled') # (c \in disabled) =>
              \E n \in Names : /\ Live(n)' /\ CageOf(n)' = c
                               /\ (c \in disabled') = ~GetHwEnable(idlIntf[n])]_vars
  BY LaserStep
<1> QED BY <1>1, TypeCorrect, PTL DEF Spec, LaserMovesTowardsRow

---------------------------------------------------------------------------
(* cur_hw.  The announcement is right because of where in the loop the     *)
(* daemon is when it makes it.                                             *)

(* pm_parse always names a connector.                                      *)
LEMMA ParsedConnector ==
  ASSUME NEW c \in Connectors, NEW id \in SerialId
  PROVE  ModuleClass(c, id).connector # Null
<1>1. Unrecognized.connector # Null
  BY DEF Unrecognized, Null
<1>2. SfpClass(id).connector # Null
  BY DEF SfpClass, Class, Null
<1>3. Qsfp40GClass(id).connector # Null
  <2>1. CASE id.lr4
    BY <2>1 DEF Qsfp40GClass, Class, Null
  <2>2. CASE ~id.lr4 /\ id.sr4
    BY <2>2 DEF Qsfp40GClass, Class, Null
  <2>3. CASE ~id.lr4 /\ ~id.sr4 /\ id.cr4
    BY <2>3 DEF Qsfp40GClass, Class, Null
  <2>4. CASE ~id.lr4 /\ ~id.sr4 /\ ~id.cr4
    BY <2>4, <1>1 DEF Qsfp40GClass
  <2> QED BY <2>1, <2>2, <2>3, <2>4
<1>4. Qsfp100GClass(id.code).connector # Null
  BY <1>1 DEF Qsfp100GClass, Class, Null
<1> QED
  BY <1>2, <1>3, <1>4 DEF ModuleClass, Connectors, Qsfp28Class, SfpPlus, QsfpPlus, Qsfp28

(* The scan identifies every port it meets. *)
LEMMA ScanIdentifies ==
  ASSUME TypeOK, IdentifiedPort, Scan, NEW n \in Names
  PROVE  /\ Live(n)' => ovs_intfs'[n].present
         /\ Live(n)' => ovs_intfs'[n].columns.connector # Null
<1>1. PICK page :
        /\ \A m \in Names : page[m] \in Pages(m)
        /\ ovs_intfs' = [m \in Names |->
             IF Live(m)
             THEN PmReadModuleState(Connector[CageOf(m)], ovs_intfs[m], page[m])
             ELSE ovs_intfs[m]]
  BY DEF Scan, PmReadState
<1>2. page[n] \in SerialId /\ (Live(n) => Connector[CageOf(n)] \in Connectors)
  BY <1>1, PagesTyped, LiveCage
<1>3. Live(n) => ModuleClass(Connector[CageOf(n)], page[n]).connector # Null
  BY <1>2, ParsedConnector
<1>4. ovs_intfs[n] \in Port
  BY DEF TypeOK, PmdTypeOK
<1>5. CASE Live(n) /\ ~(ovs_intfs[n].present /\ ~ovs_intfs[n].retry)
  BY <1>1, <1>3, <1>4, <1>5
     DEF PmReadModuleState, PmParse, SfpColumns, QsfpColumns, Port
<1>6. CASE ~Live(n) \/ (ovs_intfs[n].present /\ ~ovs_intfs[n].retry)
  BY <1>1, <1>6 DEF PmReadModuleState, IdentifiedPort, Live
<1> QED BY <1>5, <1>6

(* The phases of pmd_run come in the order that the announcement relies on. *)
LEMMA LoopPreserved ==
  ASSUME IInv, LoopInv, [Next]_vars
  PROVE  LoopInv'
<1>0. TypeOK
  BY DEF IInv, SoloInv
<1> USE DEF LoopInv, InLoopSynced, ScannedBeforeUpdate, FlushedBeforeCommit, IdentifiedPort
<1>1. CASE Rebirth
  BY <1>1 DEF Rebirth, OvsdbIfInit, NoPort, NewPort, Live
<1>2. CASE IdlRun
  BY <1>2 DEF IdlRun, Live
<1>3. CASE Reconfigure /\ seqnoMoved
  <2>1. pc' = "scan" /\ ~seqnoMoved'
    BY <1>0, <1>3, ReconfigureEffect DEF Reconfigure
  <2>2. IdentifiedPort'
    BY <1>0, <1>3, ReconfigurePorts DEF Live
  <2> QED BY <2>1, <2>2
<1>4. CASE Reconfigure /\ ~seqnoMoved
  BY <1>4, ReconfigureIdle DEF Reconfigure, pmdVars, Live
<1>5. CASE Scan
  <2>1. pc' = "update" /\ pc = "scan" /\ seqnoMoved' = seqnoMoved
    BY <1>5 DEF Scan, PmReadState
  <2>2. ScannedBeforeUpdate' /\ IdentifiedPort'
    BY <1>0, <1>5, ScanIdentifies
  <2> QED BY <2>1, <2>2
<1>6. CASE Update
  <2>1. pc = "update" /\ pc' = "commit" /\ seqnoMoved' = seqnoMoved /\ ~seqnoMoved
    BY <1>6 DEF Update, BuildTxn
  <2>2. ScannedBeforeUpdate' /\ IdentifiedPort'
    BY <1>0, <1>6, <2>1, UpdateEffect DEF Live
  <2>3. ASSUME NEW n \in Names, Live(n)' PROVE ~ovs_intfs'[n].module_info_changed
    <3>1. Live(n) /\ ovs_intfs[n].uuid = idlIntf[n].uuid
      BY <1>0, <1>6, <2>1, <2>3, UpdateEffect DEF Live, IInv, SoloInv, PortsMirrorReplica
    <3>2. ovs_intfs'[n] = UpdatedPort(n) /\ ovs_intfs[n] \in Port
      BY <1>0, <1>6 DEF Update, BuildTxn, TypeOK, PmdTypeOK
    <3> QED BY <3>1, <3>2 DEF UpdatedPort, ChangedRows, Port
  <2> QED BY <2>1, <2>2, <2>3
<1>7. CASE Commit
  BY <1>7 DEF Commit, CommitTxn, Live
<1>8. CASE Outside
  BY <1>8 DEF Outside, pmdVars, Live
<1> HIDE DEF LoopInv
<1> QED BY <1>1, <1>2, <1>3, <1>4, <1>5, <1>6, <1>7, <1>8, StepCases

(* pmd_run: in the scan and after it the daemon is synced, after the scan  *)
(* every port is identified, and at the commit no port is left flagged.    *)
THEOREM LoopInvariant == Spec => []LoopInv
<1>1. Init => LoopInv
  BY DEF Init, LoopInv, InLoopSynced, ScannedBeforeUpdate, FlushedBeforeCommit,
         IdentifiedPort, Live, NoPort, NewPort
<1>2. IInv /\ LoopInv /\ [Next]_vars => LoopInv'
  BY LoopPreserved
<1> QED BY <1>1, <1>2, Inductive, PTL DEF Spec

(* The rows of a transaction are those of ports, until it is committed.    *)
LEMMA TxnRowsPreserved ==
  ASSUME IInv, TxnRowsLive, [Next]_vars
  PROVE  TxnRowsLive'
<1>0. TypeOK /\ TxnOnlyAtCommit /\ txn.rows \subseteq Names
  BY DEF IInv, SoloInv, TypeOK, PmdTypeOK
<1>1. CASE Rebirth \/ Commit
  BY <1>1 DEF Rebirth, OvsdbIfInit, Commit, CommitTxn, NoTxn, TxnRowsLive
<1>2. CASE IdlRun
  BY <1>2 DEF IdlRun, TxnRowsLive, Live
<1>3. CASE Reconfigure \/ Scan
  <2>1. txn = NoTxn
    BY <1>0, <1>3 DEF TxnOnlyAtCommit, Reconfigure, Scan
  <2>2. txn' = txn
    BY <1>0, <1>3, ReconfigureIdle, ReconfigureEffect
       DEF Scan, PmReadState, pmdVars, TypeOK, PmdTypeOK
  <2> QED BY <2>1, <2>2 DEF NoTxn, TxnRowsLive
<1>4. CASE Update
  <2>1. txn'.rows = ChangedRows
    BY <1>4 DEF Update, BuildTxn
  <2> QED BY <1>0, <1>4, <2>1, UpdateEffect DEF ChangedRows, TxnRowsLive, Live
<1>5. CASE Outside
  BY <1>5 DEF Outside, pmdVars, TxnRowsLive, Live
<1> QED BY <1>1, <1>2, <1>3, <1>4, <1>5, StepCases

(* Only the commit sets cur_hw to 1. *)
LEMMA CurHwOnlyByCommit ==
  ASSUME [Next]_vars, dbCurHw # "1", dbCurHw' = "1"
  PROVE  Commit
<1>1. ASSUME NEW m \in Names,
             AddInterface(m) \/ DelInterface(m) \/ MoveInterface(m) \/ SetHwEnable(m)
      PROVE  UNCHANGED dbCurHw
  BY <1>1 DEF AddInterface, DelInterface, MoveInterface, SetHwEnable, SetRow
<1>6. ASSUME NEW c \in Cages, InsertModule(c) \/ RemoveModule(c)
      PROVE  UNCHANGED dbCurHw
  BY <1>6 DEF InsertModule, RemoveModule, dbVars
<1>2. ASSUME NEW s \in SubNames, AddSubsystem(s) \/ DelSubsystem(s)
      PROVE  UNCHANGED dbCurHw
  BY <1>2 DEF AddSubsystem, DelSubsystem
<1>3. ~AddDaemonRow
  BY DEF AddDaemonRow
<1>4. ASSUME GrantLock \/ RevokeLock \/ PmdExit \/ Crash \/ PmdInit \/ UNCHANGED vars
      PROVE  UNCHANGED dbCurHw
  BY <1>4 DEF GrantLock, RevokeLock, PmdExit, Crash, Halt, PmdInit, vars, dbVars
<1>5. ASSUME IdlRun \/ Reconfigure \/ Scan \/ Update
      PROVE  UNCHANGED dbCurHw
  BY <1>5, ReconfigureIdle DEF IdlRun, Reconfigure, PmdReconfigure, ProcessReplica,
              Scan, PmReadState, Update, BuildTxn, dbVars
<1> QED BY <1>1, <1>2, <1>3, <1>4, <1>5, <1>6 DEF Next, Loop, Env

(* The commit that sets cur_hw leaves no port of a current row unpublished. *)
LEMMA CurHwCommit ==
  ASSUME IInv, LoopInv, [Next]_vars, dbCurHw # "1", dbCurHw' = "1",
         NEW n \in Names \ lostInfo, Live(n), ovs_intfs[n].uuid = dbIntf[n].uuid
  PROVE  dbInfo'[n] = Published(ovs_intfs[n].columns) /\ dbInfo'[n] # NoInfo
<1>1. Commit
  BY CurHwOnlyByCommit
<1>2. PICK success \in BOOLEAN : CommitTxn(success)
  BY <1>1 DEF Commit
<1>3. success
  BY <1>2 DEF CommitTxn
<1>4. ovs_intfs[n].present /\ ~ovs_intfs[n].module_info_changed
         /\ ovs_intfs[n].columns.connector # Null
  BY <1>1 DEF Commit, LoopInv, ScannedBeforeUpdate, FlushedBeforeCommit
<1>5. dbInfo'[n] = Published(ovs_intfs[n].columns)
  BY <1>2, <1>3, <1>4 DEF CommitTxn, IInv, SoloInv, QuietPortIsPublished
<1> QED BY <1>4, <1>5 DEF Published, NoInfo

(* pm_ovsdb_update: when cur_hw becomes 1, the module of every interface   *)
(* the daemon serves is in the database, unless a transaction failed.      *)
THEOREM CurHwComesLast == Spec => CurHwAfterModules
<1>1. IInv /\ LoopInv /\ [Next]_vars =>
       [(dbCurHw # "1" /\ dbCurHw' = "1") =>
         \A n \in Names \ lostInfo :
           (Live(n) /\ ovs_intfs[n].uuid = dbIntf[n].uuid) =>
             dbInfo'[n] = Published(ovs_intfs[n].columns) /\ dbInfo'[n] # NoInfo]_vars
  BY CurHwCommit
<1> QED BY <1>1, Inductive, LoopInvariant, PTL DEF Spec, CurHwAfterModules
============================================================================
