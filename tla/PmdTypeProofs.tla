--------------------------- MODULE PmdTypeProofs ---------------------------
(***************************************************************************)
(* Type correctness of Pmd, for every set of interfaces, subsystems and    *)
(* modules, every combination of faults and any number of environment      *)
(* steps.                                                                  *)
(***************************************************************************)
EXTENDS Pmd, TLAPS

USE DEF SfpPlus, QsfpPlus, Qsfp28, Null,
        ConnectorValues, StatusValues, SpeedValues, VendorValues

---------------------------------------------------------------------------
(* Types of what the operators return.                                     *)

ModuleClassType ==
  [connector : ConnectorValues, connector_status : StatusValues,
   max_speed : SpeedValues, optical : BOOLEAN]

(* Every branch of pm_parse that a serial ID page can take assigns all of  *)
(* connector, connector_status, max_speed and optical.                     *)
LEMMA ModuleClassTyped ==
  ASSUME NEW c \in Connectors, NEW id \in SerialId
  PROVE  ModuleClass(c, id) \in ModuleClassType
<1>1. Unrecognized \in ModuleClassType
  BY DEF Unrecognized, ModuleClassType
<1>2. SfpClass(id) \in ModuleClassType
  BY DEF SfpClass, Class, ModuleClassType
<1>3. Qsfp40GClass(id) \in ModuleClassType
  <2>1. CASE id.lr4
    BY <2>1 DEF Qsfp40GClass, Class, ModuleClassType
  <2>2. CASE ~id.lr4 /\ id.sr4
    BY <2>2 DEF Qsfp40GClass, Class, ModuleClassType
  <2>3. CASE ~id.lr4 /\ ~id.sr4 /\ id.cr4
    BY <2>3 DEF Qsfp40GClass, Class, ModuleClassType
  <2>4. CASE ~id.lr4 /\ ~id.sr4 /\ ~id.cr4
    BY <2>4, <1>1 DEF Qsfp40GClass
  <2> QED BY <2>1, <2>2, <2>3, <2>4
<1>4. Qsfp100GClass(id.code) \in ModuleClassType
  BY <1>1 DEF Qsfp100GClass, Class, ModuleClassType
<1>5. Qsfp28Class(id) \in ModuleClassType
  BY <1>3, <1>4 DEF Qsfp28Class
<1> QED
  BY <1>2, <1>3, <1>5 DEF ModuleClass, Connectors

(* pm_parse leaves a string or NULL in every column. *)
LEMMA PmParseTyped ==
  ASSUME NEW c \in Connectors, NEW id \in SerialId, NEW cols \in Columns
  PROVE  /\ PmParse(c, id, cols) \in Columns
         /\ ParsedOptical(c, id) \in BOOLEAN
<1>1. ModuleClass(c, id) \in ModuleClassType
  BY ModuleClassTyped
<1>2. id.serial \in VendorValues /\ cols.vendor_oui \in VendorValues
  BY DEF SerialId, Columns
<1> QED
  BY <1>1, <1>2 DEF PmParse, SfpColumns, QsfpColumns, ParsedOptical,
                    ModuleClassType, Columns, VendorValues

(* A failed read yields a page too. *)
LEMMA ZeroIdTyped == ZeroId \in SerialId
  BY DEF ZeroId, SerialId

(* ovsdb_if_intf_create makes a well-typed port.                           *)
LEMMA NewPortTyped ==
  ASSUME NEW u \in Uuid \cup {NoUuid}, NEW s \in SubNames \cup {NoSub},
         NEW e \in BOOLEAN
  PROVE  NewPort(u, s, e) \in Port
<1>1. NoColumns \in Columns
  BY DEF NoColumns, Columns
<1> QED
  BY <1>1 DEF NewPort, Port

(* The record that stands for a missing node is one.                       *)
LEMMA NoPortTyped == NoPort \in Port /\ NoPort.uuid = NoUuid
  BY NewPortTyped DEF NoPort, NewPort

(* pm_read_module_state keeps a port a port, of the same row and cage. *)
LEMMA ReadPortTyped ==
  ASSUME NEW c \in Connectors, NEW p \in Port, NEW id \in SerialId
  PROVE  /\ PmReadModuleState(c, p, id) \in Port
         /\ PmReadModuleState(c, p, id).uuid = p.uuid
         /\ PmReadModuleState(c, p, id).subsystem = p.subsystem
<1>1. p.columns \in Columns /\ p.a2_read_requested \in BOOLEAN /\ id.dom \in BOOLEAN
  BY DEF Port, SerialId
<1>2. PmParse(c, id, p.columns) \in Columns /\ ParsedOptical(c, id) \in BOOLEAN
  BY <1>1, PmParseTyped
<1> QED
  BY <1>1, <1>2 DEF PmReadModuleState, SetA2ReadRequest, Port

---------------------------------------------------------------------------
(* Type correctness.                                                       *)

(* The record that stands for a missing row is one.                        *)
LEMMA NoRowTyped == NoRow \in Row
  BY DEF NoRow, Row

(* The initial states are well-typed.                                      *)
LEMMA InitTyped == Init => TypeOK
<1> SUFFICES ASSUME Init PROVE TypeOK
  OBVIOUS
<1> USE DEF Init
<1>1. HwTypeOK
  BY DEF HwInit, HwTypeOK
<1>2. DbTypeOK
  <2>1. dbIntf \in [Names -> Row]
    <3>1. PICK u \in Uuid : dbIntf \in [Names -> [uuid : {u}, sub : SubNames \cup {NoSub},
                                              enable : EnableValues] \cup {NoRow}]
      OBVIOUS
    <3>2. [uuid : {u}, sub : SubNames \cup {NoSub}, enable : EnableValues] \subseteq Row
      BY EnableAssumption DEF Row
    <3> QED BY <3>1, <3>2, NoRowTyped
  <2>2. dbInfo \in [Names -> PmInfo]
    BY DEF NoInfo, PmInfo
  <2>3. dbSub \in [SubNames -> Uuid \cup {NoUuid}]
    OBVIOUS
  <2> QED BY <2>1, <2>2, <2>3, NoRowTyped DEF DbTypeOK
<1>3. PmdTypeOK
  BY NoPortTyped DEF PmdTypeOK, NoTxn
<1> QED BY <1>1, <1>2, <1>3 DEF TypeOK

(* pm_ovsdb_if_init leaves well-typed structures. *)
LEMMA IfInitTyped ==
  ASSUME OvsdbIfInit
  PROVE  /\ PmdTypeOK'
         /\ idlIntf' \in [Names -> Row]
         /\ idlSub' \in [SubNames -> Uuid \cup {NoUuid}]
         /\ idlDaemon' \in BOOLEAN
<1>1. /\ ovs_intfs' \in [Names -> Port] /\ idlIntf' \in [Names -> Row]
      /\ \A n \in Names : ovs_intfs'[n].uuid = NoUuid
  BY NoPortTyped, NoRowTyped DEF OvsdbIfInit
<1>2. txn' \in [rows : SUBSET Names, cur_hw : BOOLEAN]
  BY DEF OvsdbIfInit, NoTxn
<1> QED BY <1>1, <1>2 DEF OvsdbIfInit, PmdTypeOK

(* pmd_reconfigure builds ports out of the ports and rows it finds, and    *)
(* makes none outside of a subsystem.                                      *)
LEMMA ReconfiguredPortTyped ==
  ASSUME TypeOK, NEW n \in Names, NEW created,
         n \in created => idlIntf[n].sub \in SubNames
  PROVE  /\ ReconfiguredPort(n, created) \in Port
         /\ ReconfiguredPort(n, created).uuid # NoUuid =>
              ReconfiguredPort(n, created).subsystem \in SubNames
<1>1. ovs_intfs[n] \in Port /\ idlIntf[n] \in Row
  BY DEF TypeOK, PmdTypeOK, DbTypeOK
<1>2. /\ KeptPort(n) \in Port
      /\ KeptPort(n).uuid # NoUuid => KeptPort(n).subsystem \in SubNames
  BY <1>1, NoPortTyped DEF KeptPort, TypeOK, PmdTypeOK
<1>3. /\ idlIntf[n].uuid \in Uuid \cup {NoUuid}
      /\ idlIntf[n].sub \in SubNames \cup {NoSub}
      /\ GetHwEnable(idlIntf[n]) \in BOOLEAN
  BY <1>1 DEF Row, GetHwEnable
<1>4. /\ NewPort(idlIntf[n].uuid, idlIntf[n].sub, GetHwEnable(idlIntf[n])) \in Port
      /\ NewPort(idlIntf[n].uuid, idlIntf[n].sub, GetHwEnable(idlIntf[n])).subsystem
            = idlIntf[n].sub
  BY <1>3, NewPortTyped DEF NewPort
<1>5. LET p == [KeptPort(n) EXCEPT !.hw_enable = GetHwEnable(idlIntf[n])]
      IN  p \in Port /\ p.uuid = KeptPort(n).uuid /\ p.subsystem = KeptPort(n).subsystem
  BY <1>2, <1>3 DEF Port
<1> QED BY <1>2, <1>4, <1>5 DEF ReconfiguredPort

(* pmd_reconfigure preserves the types.                                    *)
LEMMA ReconfigureTyped == TypeOK /\ Reconfigure => TypeOK'
<1> SUFFICES ASSUME TypeOK, Reconfigure PROVE TypeOK'
  OBVIOUS
<1>1. CASE ~seqnoMoved
  BY <1>1 DEF Reconfigure, PmdReconfigure, TypeOK, HwTypeOK, DbTypeOK, PmdTypeOK,
              hwVars, dbVars, idlVars, pmdVars
<1>2. CASE seqnoMoved
  <2> PICK bad \in SUBSET NewSubs, parsed \in [SubNames -> SUBSET Names] :
         /\ PmReadYamlFiles(bad, parsed)
         /\ LET created == CreatedPorts(bad, yamlPorts')
                ports   == [n \in Names |-> ReconfiguredPort(n, created)]
            IN  /\ ovs_intfs' = ports
                /\ PmConfigurePorts(created \cup ModifiedPorts, ports, yamlFailed')
                /\ PmClearResets(created, ports, yamlFailed')
                /\ lostInfo' = {n \in lostInfo : ports[n].uuid = ovs_intfs[n].uuid}
         /\ ovs_subs' = idlSub
         /\ seqnoMoved' = FALSE
         /\ UNCHANGED <<dbVars, idlVars, cur_hw_set, txn, slot>>
    BY <1>2 DEF Reconfigure, PmdReconfigure, ProcessReplica
  <2> DEFINE created == CreatedPorts(bad, yamlPorts')
             ports   == [n \in Names |-> ReconfiguredPort(n, created)]
             conf    == created \cup ModifiedPorts
  <2>0. \A n \in Names : n \in created => idlIntf[n].sub \in SubNames
    BY DEF CreatedPorts
  <2>1. /\ ports \in [Names -> Port]
        /\ \A n \in Names : ports[n].uuid # NoUuid => ports[n].subsystem \in SubNames
    BY <2>0, ReconfiguredPortTyped
  <2>2. conf \subseteq Names /\ \A n \in conf : ports[n].uuid # NoUuid
    <3>1. conf \subseteq Names
      BY DEF CreatedPorts, ModifiedPorts
    <3>2. ASSUME NEW n \in conf PROVE ports[n].uuid # NoUuid
      <4>1. ports[n] = ReconfiguredPort(n, created)
        BY <3>1
      <4>2. CASE n \in created
        BY <4>1, <4>2 DEF ReconfiguredPort, NewPort, CreatedPorts
      <4>3. CASE n \notin created
        <5>1. n \in ModifiedPorts /\ KeptPort(n).uuid # NoUuid
          BY <4>3 DEF ModifiedPorts
        <5>2. KeptPort(n) \in Port
          BY <3>1, NoPortTyped DEF KeptPort, TypeOK, PmdTypeOK
        <5> QED BY <4>1, <4>3, <5>1, <5>2 DEF ReconfiguredPort, Port
      <4> QED BY <4>2, <4>3
    <3> QED BY <3>1, <3>2
  <2> DEFINE cage(n) == ModuleDevice(n, ports[n])
  <2>6. \A n \in conf : cage(n) \in Cages
    BY <2>1, <2>2, DeviceAssumption DEF ModuleDevice
  <2>3. HwTypeOK'
    <3>1. slot' = slot
      OBVIOUS
    <3>2. disabled' \subseteq Cages /\ failedWrite' \subseteq Cages
      <4>1. PmConfigurePorts(conf, ports, yamlFailed')
        OBVIOUS
      <4> HIDE DEF conf, ports
      <4> QED BY <4>1, <2>6 DEF PmConfigurePorts, TypeOK, HwTypeOK
    <3>4. inReset' \subseteq HasReset
      BY DEF PmClearResets, TypeOK, HwTypeOK
    <3> QED BY <3>1, <3>2, <3>4 DEF TypeOK, HwTypeOK
  <2>4. DbTypeOK'
    BY DEF TypeOK, DbTypeOK, dbVars, idlVars
  <2>5. PmdTypeOK'
    <3>1. /\ ovs_intfs' \in [Names -> Port]
          /\ \A n \in Names : ovs_intfs'[n].uuid # NoUuid => ovs_intfs'[n].subsystem \in SubNames
      BY <2>1
    <3>2. ovs_subs' \in [SubNames -> Uuid \cup {NoUuid}]
      BY DEF TypeOK, DbTypeOK
    <3>3. yamlPorts' \in [SubNames -> SUBSET Names]
      BY DEF PmReadYamlFiles, TypeOK, PmdTypeOK
    <3>4. yamlFailed' \subseteq SubNames
      BY DEF PmReadYamlFiles, TypeOK, PmdTypeOK, NewSubs
    <3>5. lostInfo' \subseteq Names
      BY DEF TypeOK, PmdTypeOK
    <3> QED BY <3>1, <3>2, <3>3, <3>4, <3>5 DEF TypeOK, PmdTypeOK
  <2> QED BY <2>3, <2>4, <2>5 DEF TypeOK, Reconfigure
<1> QED BY <1>1, <1>2 DEF TypeOK, PmdTypeOK

(* What the environment writes to the tables is well-typed. *)
LEMMA SetRowTyped ==
  ASSUME TypeOK, NEW n \in Names, NEW row \in Row, SetRow(n, row),
         dbInfo' \in [Names -> PmInfo]
  PROVE  TypeOK'
<1>1. DbTypeOK'
  BY DEF SetRow, TypeOK, DbTypeOK, idlVars
<1>2. HwTypeOK' /\ PmdTypeOK'
  BY DEF SetRow, TypeOK, HwTypeOK, PmdTypeOK, hwVars, pmdVars
<1> QED BY <1>1, <1>2 DEF SetRow, EnvStep, TypeOK

(* A live port is bound to a cage of one of the three kinds. *)
LEMMA LiveCage ==
  ASSUME TypeOK, NEW n \in Names, Live(n)
  PROVE  CageOf(n) \in Cages /\ Connector[CageOf(n)] \in Connectors
  BY DeviceAssumption, ConnectorAssumption DEF CageOf, ModuleDevice, Live, TypeOK, PmdTypeOK

(* What pm_read_a0 leaves in the buffer is a page. *)
LEMMA PagesTyped ==
  ASSUME TypeOK, NEW n \in Names
  PROVE  Pages(n) \subseteq SerialId
<1>1. CASE Live(n)
  <2>1. CageOf(n) \in Cages
    BY <1>1, LiveCage
  <2>2. Responds(CageOf(n)) => Eeprom[slot[CageOf(n)]] \in SerialId
    BY <2>1, EepromAssumption DEF Responds, TypeOK, HwTypeOK
  <2> QED BY <1>1, <2>2, ZeroIdTyped DEF Pages, PmReadA0
<1>2. CASE ~Live(n)
  BY <1>2, ZeroIdTyped DEF Pages
<1> QED BY <1>1, <1>2

(* pm_read_state preserves the types.                                      *)
LEMMA ScanTyped == TypeOK /\ Scan => TypeOK'
<1> SUFFICES ASSUME TypeOK, Scan PROVE TypeOK'
  OBVIOUS
<1>1. PICK page \in [Names -> UNION {Pages(n) : n \in Names}] :
        /\ \A n \in Names : page[n] \in Pages(n)
        /\ ovs_intfs' = [n \in Names |->
             IF Live(n)
             THEN PmReadModuleState(Connector[CageOf(n)], ovs_intfs[n], page[n])
             ELSE ovs_intfs[n]]
  BY DEF Scan, PmReadState
<1>2. \A n \in Names : Pages(n) \subseteq SerialId
  BY PagesTyped
<1>3. /\ ovs_intfs' \in [Names -> Port]
      /\ \A n \in Names : ovs_intfs'[n].uuid # NoUuid => ovs_intfs'[n].subsystem \in SubNames
  <2> SUFFICES ASSUME NEW n \in Names
               PROVE  /\ ovs_intfs'[n] \in Port
                      /\ ovs_intfs'[n].uuid # NoUuid => ovs_intfs'[n].subsystem \in SubNames
    BY <1>1
  <2>1. ovs_intfs[n] \in Port /\ (Live(n) => ovs_intfs[n].subsystem \in SubNames)
    BY DEF TypeOK, PmdTypeOK, Live
  <2>2. CASE Live(n)
    <3>1. Connector[CageOf(n)] \in Connectors
      BY <2>2, LiveCage
    <3> QED BY <1>1, <1>2, <2>1, <2>2, <3>1, ReadPortTyped
  <2>3. CASE ~Live(n)
    BY <1>1, <2>1, <2>3 DEF Live
  <2> QED BY <2>2, <2>3
<1>4. PmdTypeOK'
  BY <1>3 DEF Scan, PmReadState, TypeOK, PmdTypeOK
<1>5. HwTypeOK' /\ DbTypeOK'
  BY DEF Scan, PmReadState, TypeOK, HwTypeOK, DbTypeOK, hwVars, dbVars, idlVars
<1> QED BY <1>4, <1>5 DEF Scan, TypeOK

(* The assembly of the transaction preserves the types.                    *)
LEMMA UpdateTyped == TypeOK /\ Update => TypeOK'
<1> SUFFICES ASSUME TypeOK, Update PROVE TypeOK'
  OBVIOUS
<1>1. \A n \in Names : /\ UpdatedPort(n) \in Port
                        /\ UpdatedPort(n).uuid = ovs_intfs[n].uuid
                        /\ UpdatedPort(n).subsystem = ovs_intfs[n].subsystem
  BY DEF UpdatedPort, TypeOK, PmdTypeOK, Port
<1>2. txn' \in [rows : SUBSET Names, cur_hw : BOOLEAN]
  BY DEF Update, BuildTxn, ChangedRows, TypeOK, PmdTypeOK, DbTypeOK
<1>3. cur_hw_set' \in BOOLEAN
  BY DEF Update, BuildTxn, CurHwDone, TypeOK, PmdTypeOK, DbTypeOK
<1>4. PmdTypeOK'
  BY <1>1, <1>2, <1>3 DEF Update, BuildTxn, TypeOK, PmdTypeOK
<1>5. HwTypeOK' /\ DbTypeOK'
  BY DEF Update, BuildTxn, TypeOK, HwTypeOK, DbTypeOK, hwVars, dbVars, idlVars
<1> QED BY <1>4, <1>5 DEF Update, TypeOK

(* So does the commit: what is published is a well-typed pm_info.          *)
LEMMA CommitTyped == TypeOK /\ Commit => TypeOK'
<1> SUFFICES ASSUME TypeOK, Commit PROVE TypeOK'
  OBVIOUS
<1>1. PICK success \in BOOLEAN : CommitTxn(success)
  BY DEF Commit
<1>2. \A n \in Names : Published(ovs_intfs[n].columns) \in PmInfo
  BY DEF Published, PmInfo, TypeOK, PmdTypeOK, Port, Columns
<1>3. dbInfo' \in [Names -> PmInfo] /\ dbCurHw' \in {"none", "0", "1"}
  BY <1>1, <1>2 DEF CommitTxn, TypeOK, DbTypeOK
<1>4. lostInfo' \subseteq Names
  BY <1>1 DEF CommitTxn, TypeOK, PmdTypeOK
<1>5. PmdTypeOK'
  BY <1>1, <1>4 DEF CommitTxn, NoTxn, TypeOK, PmdTypeOK
<1>6. HwTypeOK' /\ DbTypeOK'
  BY <1>1, <1>3 DEF CommitTxn, TypeOK, HwTypeOK, DbTypeOK, hwVars, idlVars
<1> QED BY <1>5, <1>6 DEF Commit, TypeOK

(* The parts of the state that most environment steps leave alone. *)
LEMMA UntouchedTyped ==
  ASSUME TypeOK
  PROVE  /\ UNCHANGED hwVars => HwTypeOK'
         /\ UNCHANGED <<dbVars, idlVars>> => DbTypeOK'
         /\ UNCHANGED pmdVars => PmdTypeOK'
  BY DEF TypeOK, HwTypeOK, DbTypeOK, PmdTypeOK, hwVars, dbVars, idlVars, pmdVars

(* So does every step of the environment.                                  *)
LEMMA EnvTyped == TypeOK /\ Env => TypeOK'
<1> SUFFICES ASSUME TypeOK, Env PROVE TypeOK'
  OBVIOUS
<1>1. ASSUME NEW n \in Names, AddInterface(n) PROVE TypeOK'
  <2>1. PICK u \in FreshIntfUuid(n), e \in EnableValues :
          \E s \in {t \in SubNames : dbSub[t] # NoUuid} \cup {NoSub} :
            SetRow(n, [uuid |-> u, sub |-> s, enable |-> e])
    BY <1>1 DEF AddInterface
  <2>2. PICK s \in SubNames \cup {NoSub} : SetRow(n, [uuid |-> u, sub |-> s, enable |-> e])
    BY <2>1
  <2>3. [uuid |-> u, sub |-> s, enable |-> e] \in Row
    BY EnableAssumption DEF FreshIntfUuid, Row
  <2>4. dbInfo' \in [Names -> PmInfo]
    BY <1>1 DEF AddInterface, TypeOK, DbTypeOK, NoInfo, PmInfo
  <2> QED BY <2>2, <2>3, <2>4, SetRowTyped
<1>2. ASSUME NEW n \in Names, DelInterface(n) PROVE TypeOK'
  <2>1. dbInfo' \in [Names -> PmInfo]
    BY <1>2 DEF DelInterface, TypeOK, DbTypeOK, NoInfo, PmInfo
  <2> QED BY <1>2, <2>1, NoRowTyped, SetRowTyped DEF DelInterface
<1>3. ASSUME NEW n \in Names, MoveInterface(n) PROVE TypeOK'
  <2>1. PICK s \in SubNames \cup {NoSub} : SetRow(n, [dbIntf[n] EXCEPT !.sub = s])
    BY <1>3 DEF MoveInterface
  <2>2. [dbIntf[n] EXCEPT !.sub = s] \in Row
    BY DEF TypeOK, DbTypeOK, Row
  <2>3. dbInfo' \in [Names -> PmInfo]
    BY <1>3 DEF MoveInterface, TypeOK, DbTypeOK
  <2> QED BY <2>1, <2>2, <2>3, SetRowTyped
<1>4. ASSUME NEW n \in Names, SetHwEnable(n) PROVE TypeOK'
  <2>1. PICK e \in EnableValues : SetRow(n, [dbIntf[n] EXCEPT !.enable = e])
    BY <1>4 DEF SetHwEnable
  <2>2. [dbIntf[n] EXCEPT !.enable = e] \in Row
    BY EnableAssumption DEF TypeOK, DbTypeOK, Row
  <2>3. dbInfo' \in [Names -> PmInfo]
    BY <1>4 DEF SetHwEnable, TypeOK, DbTypeOK
  <2> QED BY <2>1, <2>2, <2>3, SetRowTyped
<1>5. ASSUME NEW c \in Cages, InsertModule(c) \/ RemoveModule(c) PROVE TypeOK'
  <2>1. HwTypeOK'
    BY <1>5 DEF InsertModule, RemoveModule, Insert, Remove, TypeOK, HwTypeOK
  <2>2. DbTypeOK' /\ PmdTypeOK'
    BY <1>5, UntouchedTyped DEF InsertModule, RemoveModule
  <2> QED BY <1>5, <2>1, <2>2 DEF InsertModule, RemoveModule, EnvStep, TypeOK
<1>6. ASSUME NEW s \in SubNames, AddSubsystem(s) PROVE TypeOK'
  <2>1. DbTypeOK'
    BY <1>6 DEF AddSubsystem, FreshSubUuid, TypeOK, DbTypeOK, idlVars
  <2>2. HwTypeOK' /\ PmdTypeOK'
    BY <1>6, UntouchedTyped DEF AddSubsystem
  <2> QED BY <1>6, <2>1, <2>2 DEF AddSubsystem, EnvStep, TypeOK
<1>7. ASSUME NEW s \in SubNames, DelSubsystem(s) PROVE TypeOK'
  <2>1. \A n \in Names : [dbIntf[n] EXCEPT !.sub = NoSub] \in Row
    BY DEF TypeOK, DbTypeOK, Row
  <2>2. DbTypeOK'
    BY <1>7, <2>1 DEF DelSubsystem, TypeOK, DbTypeOK, idlVars
  <2>3. HwTypeOK' /\ PmdTypeOK'
    BY <1>7, UntouchedTyped DEF DelSubsystem
  <2> QED BY <1>7, <2>2, <2>3 DEF DelSubsystem, EnvStep, TypeOK
<1>8. CASE AddDaemonRow
  <2>1. DbTypeOK'
    BY <1>8 DEF AddDaemonRow, TypeOK, DbTypeOK, idlVars
  <2>2. HwTypeOK' /\ PmdTypeOK'
    BY <1>8, UntouchedTyped DEF AddDaemonRow
  <2> QED BY <1>8, <2>1, <2>2 DEF AddDaemonRow, EnvStep, TypeOK
<1>9. CASE GrantLock \/ RevokeLock
  <2>1. HwTypeOK' /\ DbTypeOK' /\ PmdTypeOK'
    BY <1>9, UntouchedTyped DEF GrantLock, RevokeLock
  <2>2. lockOwner' \in BOOLEAN
    BY <1>9 DEF GrantLock, RevokeLock
  <2>3. events' \in Nat
    BY <1>9 DEF GrantLock, RevokeLock, EnvStep, TypeOK
  <2> QED BY <1>9, <2>1, <2>2, <2>3 DEF GrantLock, RevokeLock, TypeOK
<1>10. CASE PmdExit \/ Crash
  <2>1. Halt
    BY <1>10 DEF PmdExit, Crash
  <2>2. PmdTypeOK' /\ DbTypeOK'
    BY <2>1, IfInitTyped DEF Halt, TypeOK, DbTypeOK, dbVars
  <2>3. HwTypeOK'
    BY <2>1, UntouchedTyped DEF Halt
  <2>4. lockOwner' \in BOOLEAN /\ has_lock' \in BOOLEAN
    BY <2>1 DEF Halt
  <2>5. events' \in Nat
    BY <2>1 DEF Halt, EnvStep, TypeOK
  <2> QED BY <2>1, <2>2, <2>3, <2>4, <2>5 DEF Halt, TypeOK
<1> QED
  BY <1>1, <1>2, <1>3, <1>4, <1>5, <1>6, <1>7, <1>8, <1>9, <1>10 DEF Env

(* Every step preserves the types.                                         *)
LEMMA NextTyped == TypeOK /\ [Next]_vars => TypeOK'
<1> SUFFICES ASSUME TypeOK, [Next]_vars PROVE TypeOK'
  OBVIOUS
<1>1. CASE PmdInit
  <2>1. PmdTypeOK' /\ DbTypeOK'
    BY <1>1, IfInitTyped DEF PmdInit, TypeOK, DbTypeOK, dbVars
  <2>2. HwTypeOK'
    BY <1>1, UntouchedTyped DEF PmdInit
  <2> QED BY <1>1, <2>1, <2>2 DEF PmdInit, TypeOK
<1>2. CASE IdlRun
  <2>1. HwTypeOK'
    BY <1>2, UntouchedTyped DEF IdlRun
  <2>2. DbTypeOK'
    BY <1>2 DEF IdlRun, IdlCatchUp, TypeOK, DbTypeOK, dbVars
  <2>3. seqnoMoved' \in BOOLEAN
    BY <1>2 DEF IdlRun, IdlCatchUp
  <2>4. PmdTypeOK'
    BY <1>2, <2>3 DEF IdlRun, TypeOK, PmdTypeOK
  <2> QED BY <1>2, <2>1, <2>2, <2>4 DEF IdlRun, TypeOK
<1>3. CASE Reconfigure
  BY <1>3, ReconfigureTyped
<1>4. CASE Scan
  BY <1>4, ScanTyped
<1>5. CASE Update
  BY <1>5, UpdateTyped
<1>6. CASE Commit
  BY <1>6, CommitTyped
<1>7. CASE Env
  BY <1>7, EnvTyped
<1>8. CASE UNCHANGED vars
  BY <1>8, UntouchedTyped DEF vars, ctlVars, TypeOK
<1> QED
  BY <1>1, <1>2, <1>3, <1>4, <1>5, <1>6, <1>7, <1>8 DEF Next, Loop

(* Every variable keeps its type: in particular every column of every port *)
(* and every pm_info is one of the values that pm_parse knows, and only    *)
(* cages with a reset line are ever held in reset.                         *)
THEOREM TypeCorrect == Spec => []TypeOK
  BY InitTyped, NextTyped, PTL DEF Spec
============================================================================
