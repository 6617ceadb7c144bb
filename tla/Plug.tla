------------------------------- MODULE Plug -------------------------------
(***************************************************************************)
(* Pluggable module cages and the operations of src/plug.c on them, for    *)
(* the hardware build (PLATFORM_SIMULATION off, the repository's default). *)
(*                                                                         *)
(* The hardware is external and modelled from how plug.c uses it: an       *)
(* EEPROM page per module, a tx_disable register in an SFP+ cage or a      *)
(* disable byte inside a QSFP module, and a reset line on some QSFP cages. *)
(* A port reaches the cage that the files of one subsystem give for its    *)
(* name; the files of another subsystem may give another cage.             *)
(*                                                                         *)
(* In the code a port is a heap object reached through ovs_intfs; here it  *)
(* is a record, and an operation maps a port to its new value.  What an    *)
(* i2c transfer does to the hardware is stated on the variables.           *)
(***************************************************************************)
EXTENDS PmDetect

CONSTANTS
  Names,      \* interface instances: Interface.name, and port names in ports.yaml
  SubNames,   \* subsystem names
  NoSub,      \* no subsystem
  Cages,      \* the cages on the switch
  Device,     \* [SubNames -> [Names -> Cages]], the cage a subsystem's files name
  Modules,    \* pluggable modules that exist
  Empty,      \* an empty cage
  Uuid,       \* row identities; only compared between rows of the same name
  NoUuid,     \* no such row, no such hash node
  Connector,  \* [Cages -> Connectors], the connector attribute in ports.yaml
  Fits,       \* [Cages -> SUBSET Modules], what can be plugged in where
  HasReset,   \* the QSFP cages whose ports.yaml entry has a reset signal
  Eeprom,     \* [Modules -> SerialId]
  Faults      \* the kinds of failure that may happen

FaultKinds == {"i2c", "yaml", "commit", "lock", "crash"}

ASSUME UuidAssumption     == NoUuid \notin Uuid
ASSUME NoSubAssumption    == NoSub \notin SubNames
ASSUME DeviceAssumption   == Device \in [SubNames -> [Names -> Cages]]
ASSUME ConnectorAssumption == Connector \in [Cages -> Connectors]
ASSUME FitsAssumption     == Fits \in [Cages -> SUBSET Modules]
ASSUME HasResetAssumption == HasReset \subseteq {c \in Cages : Connector[c] # SfpPlus}
ASSUME EepromAssumption   == Eeprom \in [Modules -> SerialId]
ASSUME EmptyAssumption    == Empty \notin Modules
ASSUME FaultsAssumption   == Faults \subseteq FaultKinds

(* No description gives one cage two names. *)
ASSUME OneNamePerCage ==
  \A s, t \in SubNames, m, n \in Names : Device[s][m] = Device[t][n] => m = n

VARIABLES
  slot,        \* [Cages -> Modules \cup {Empty}], what is plugged in
  disabled,    \* cages whose laser is switched off
  inReset,     \* cages whose reset line is asserted
  failedWrite  \* history: cages whose last enable/disable write failed

hwVars == <<slot, disabled, inReset, failedWrite>>

HwTypeOK ==
  /\ slot \in [Cages -> Modules \cup {Empty}]
  /\ disabled \subseteq Cages
  /\ inReset \subseteq HasReset
  /\ failedWrite \subseteq Cages

(* A cage powers up with the laser on; a module may be plugged in already, *)
(* and a reset line is asserted until someone clears it.                   *)
HwInit ==
  /\ slot \in [Cages -> Modules \cup {Empty}]
  /\ \A c \in Cages : slot[c] \in Fits[c] \cup {Empty}
  /\ disabled = {}
  /\ inReset = HasReset
  /\ failedWrite = {}

---------------------------------------------------------------------------
(* pm_port_t.  The instance name is the index under which the record is    *)
(* kept; split is never set.  subsystem also stands for module_device, the *)
(* entry of that subsystem's ports.yaml for the name: both are set when    *)
(* the port is made and never again.  A record without a uuid is a missing *)
(* node.                                                                   *)
Port == [uuid                : Uuid \cup {NoUuid},
         subsystem           : SubNames \cup {NoSub},
         hw_enable           : BOOLEAN,
         present             : BOOLEAN,
         retry               : BOOLEAN,
         optical             : BOOLEAN,
         a2_read_requested   : BOOLEAN,
         module_info_changed : BOOLEAN,
         columns             : Columns]

(* What calloc and ovsdb_if_intf_create leave in a new port. *)
NewPort(uuid, subsystem, hw_enable) ==
  [uuid |-> uuid, subsystem |-> subsystem, hw_enable |-> hw_enable,
   present |-> FALSE, retry |-> FALSE, optical |-> FALSE,
   a2_read_requested |-> FALSE, module_info_changed |-> FALSE,
   columns |-> NoColumns]

NoPort == NewPort(NoUuid, NoSub, FALSE)

(* The cage that an i2c transfer for this port reaches. *)
ModuleDevice(n, port) == Device[port.subsystem][n]

(* An i2c transfer fails on the bus, or because yaml_find_device does not  *)
(* find the device: the files of a subsystem in unread were read last with *)
(* an error.                                                               *)
MayFail(port, unread) == "i2c" \in Faults \/ port.subsystem \in unread

---------------------------------------------------------------------------
(* Reading.                                                                *)

Responds(c) == slot[c] # Empty /\ c \notin inReset

(* pm_read_a0 and the check of its result, which "&& false" disables: a    *)
(* failed read leaves the zeroed buffer, which is parsed like any page.    *)
PmReadA0(c, mayFail) ==
  (IF Responds(c) THEN {Eeprom[slot[c]]} ELSE {ZeroId})
    \cup (IF mayFail THEN {ZeroId} ELSE {})

(* set_a2_read_request (src/pm_dom.c). *)
SetA2ReadRequest(port, id) == port.a2_read_requested \/ id.dom

(* Faulty: a module that pm_parse does not recognise raises no flag. *)
PmReadModuleState_QuietUnknown(connector, port, id) ==
  IF port.present /\ ~port.retry
  THEN port
  ELSE [port EXCEPT !.columns             = PmParse(connector, id, @),
                    !.module_info_changed =
                       ModuleClass(connector, id).connector # "unknown",
                    !.present             = TRUE]

(* Faulty: a module that has been read is read again. *)
PmReadModuleState_Rereads(connector, port, id) ==
  [port EXCEPT !.columns             = PmParse(connector, id, @),
               !.module_info_changed = TRUE,
               !.present             = TRUE]

(* pm_read_module_state.  The result of pm_get_presence is ignored, again  *)
(* because of "&& false".  For the three connector kinds pm_parse returns  *)
(* 0 and sets module_info_changed; a port of any other kind, which the     *)
(* constant Connector rules out, would be left as it is.  The A2 page is   *)
(* never read: "|| true" returns before it.                                *)
PmReadModuleState(connector, port, id) ==
  IF port.present /\ ~port.retry
  THEN port
  ELSE [port EXCEPT !.columns             = PmParse(connector, id, @),
                    !.optical             = ParsedOptical(connector, id),
                    !.module_info_changed = TRUE,
                    !.present             = TRUE,
                    !.retry               = FALSE,
                    !.a2_read_requested   = SetA2ReadRequest(port, id)]

---------------------------------------------------------------------------
(* Writing.                                                                *)

(* Faulty: an SFP+ port waits for its module, as a QSFP port does. *)
Configurable_PresentOnly(connector, port) == port.present /\ port.optical

(* Whether pm_configure_port gets as far as the i2c transfer: always for   *)
(* an SFP+ cage; pm_configure_qsfp skips a module that is not yet known to *)
(* be present, and one that is not optical.                                *)
Configurable(connector, port) ==
  connector = SfpPlus \/ (port.present /\ port.optical)

(* An SFP+ cage has its register on the board, a QSFP module carries it.   *)
Reachable(c) == Connector[c] = SfpPlus \/ Responds(c)

(* Faulty: the device is looked up by its name alone, in the files of some *)
(* subsystem.                                                              *)
PmConfigurePorts_AnySubsystem(ns, ports, unread) ==
  LET cage(n)  == Device[CHOOSE s \in SubNames : TRUE][n]
      attempts == {n \in ns : Configurable(Connector[cage(n)], ports[n])}
  IN  /\ disabled' = (disabled \ {cage(n) : n \in attempts})
                       \cup {cage(n) : n \in {m \in attempts : ~ports[m].hw_enable}}
      /\ UNCHANGED failedWrite

(* pm_configure_port for each port in ns, whose values are ports[n].  A    *)
(* failed transfer is logged and forgotten.                                *)
PmConfigurePorts(ns, ports, unread) ==
  LET cage(n)     == ModuleDevice(n, ports[n])
      attempts    == {n \in ns : Configurable(Connector[cage(n)], ports[n])}
      unreachable == {n \in attempts : ~Reachable(cage(n))}
  IN  \E failed \in SUBSET attempts :
        /\ unreachable \subseteq failed
        /\ \A n \in failed \ unreachable : MayFail(ports[n], unread)
        /\ disabled' =
             {c \in disabled : \A n \in attempts \ failed : cage(n) # c}
               \cup {cage(n) : n \in {m \in attempts \ failed : ~ports[m].hw_enable}}
        /\ failedWrite' =
             {c \in failedWrite : \A n \in attempts : cage(n) # c}
               \cup {cage(n) : n \in failed}

(* Faulty: the line is set where it should be cleared, reg_op unchecked. *)
PmClearResets_Swapped(ns, ports, unread) ==
  inReset' = inReset \cup {ModuleDevice(n, ports[n]) : n \in ns}

(* pm_clear_reset for each port in ns. *)
PmClearResets(ns, ports, unread) ==
  \E stuck \in SUBSET ns :
    /\ \A n \in stuck : MayFail(ports[n], unread)
    /\ inReset' = {c \in inReset : \A n \in ns \ stuck : ModuleDevice(n, ports[n]) # c}

---------------------------------------------------------------------------
(* The operator at the front panel.  A QSFP module takes its disable byte  *)
(* with it and powers up with the laser on.                                *)

Insert(c, m) ==
  /\ slot[c] = Empty
  /\ m \in Fits[c]
  /\ slot' = [slot EXCEPT ![c] = m]
  /\ UNCHANGED <<disabled, inReset, failedWrite>>

Remove(c) ==
  /\ slot[c] # Empty
  /\ slot' = [slot EXCEPT ![c] = Empty]
  /\ disabled' = IF Connector[c] = SfpPlus THEN disabled ELSE disabled \ {c}
  /\ UNCHANGED <<inReset, failedWrite>>
===========================================================================
