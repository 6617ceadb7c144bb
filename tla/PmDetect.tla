----------------------------- MODULE PmDetect -----------------------------
(***************************************************************************)
(* Identification of a pluggable module from its serial ID page            *)
(* (src/pm_detect.c), and the SET_ and DELETE macros of include/pmd.h.in   *)
(* that it uses.                                                           *)
(*                                                                         *)
(* A column is a char* in the code and a string here; Null is NULL.  The   *)
(* columns that no reachable statement sets (cable_technology,             *)
(* cable_length, power_mode, a2, a0_uppers and all DOM columns) are NULL   *)
(* throughout and left out.                                                *)
(*                                                                         *)
(* A serial ID page is abstracted to the bits the code tests and one       *)
(* opaque tag (serial) that stands for the vendor strings and the raw      *)
(* bytes of the page.                                                      *)
(***************************************************************************)
EXTENDS Naturals

CONSTANT Serials   \* tags of the serial ID pages that modules carry

Null == "NULL"

(* Connector kinds of a cage, as ports.yaml declares them. *)
SfpPlus  == "SFP_PLUS"
QsfpPlus == "QSFP_PLUS"
Qsfp28   == "QSFP28"
Connectors == {SfpPlus, QsfpPlus, Qsfp28}

SerialId == [lr4      : BOOLEAN,    \* QSFP: spec_compliance.enet_40gbase_*
             sr4      : BOOLEAN,
             cr4      : BOOLEAN,
             extended : BOOLEAN,    \* QSFP28: spec_compliance.enet_extended
             code     : 0..255,     \* QSFP28: options.ext_compliance_code
             dom      : BOOLEAN,    \* the diag_monitor_type bits ask for DOM
             serial   : Serials \cup {"zeros"}]

(* The buffer as memset leaves it: what pm_parse sees after a failed read. *)
ZeroId == [lr4 |-> FALSE, sr4 |-> FALSE, cr4 |-> FALSE,
           extended |-> FALSE, code |-> 0, dom |-> FALSE, serial |-> "zeros"]

(* The values that pm_parse gives the columns. *)
ConnectorValues ==
  {Null, "unknown", "SFP_SR", "QSFP_LR4", "QSFP_SR4", "QSFP_CR4", "QSFP28_SR4",
   "QSFP28_LR4", "QSFP28_CWDM4", "QSFP28_PSM4", "QSFP28_CR4", "QSFP28_CLR4"}
StatusValues == {Null, "supported", "unrecognized"}
SpeedValues  == {Null, "0", "10000", "40000", "100000"}
VendorValues == Serials \cup {Null, "zeros", "vendor_name"}

Columns == [connector        : ConnectorValues,
            connector_status : StatusValues,
            max_speed        : SpeedValues,
            supported_speeds : SpeedValues,
            vendor           : VendorValues,  \* name, part, revision, serial
            vendor_oui       : VendorValues,
            a0               : VendorValues]

NoColumns == [connector |-> Null, connector_status |-> Null,
              max_speed |-> Null, supported_speeds |-> Null,
              vendor |-> Null, vendor_oui |-> Null, a0 |-> Null]

---------------------------------------------------------------------------
(* Classification: the branch pm_parse takes.                              *)

Class(connector, speed, optical) ==
  [connector |-> connector, connector_status |-> "supported",
   max_speed |-> speed, optical |-> optical]

Unrecognized ==
  [connector |-> "unknown", connector_status |-> "unrecognized",
   max_speed |-> "0", optical |-> FALSE]

(* The DAC, SX, LX, CX and T branches are disabled with "&& false" and the *)
(* SR branch is forced with "|| true", so the page is not consulted.       *)
SfpClass(id) == Class("SFP_SR", "10000", TRUE)

Qsfp40GClass(id) ==
  CASE id.lr4                          -> Class("QSFP_LR4", "40000", TRUE)
    [] ~id.lr4 /\ id.sr4               -> Class("QSFP_SR4", "40000", TRUE)
    [] ~id.lr4 /\ ~id.sr4 /\ id.cr4    -> Class("QSFP_CR4", "40000", FALSE)
    [] ~id.lr4 /\ ~id.sr4 /\ ~id.cr4   -> Unrecognized

Qsfp100GClass(code) ==
  CASE code = 2  -> Class("QSFP28_SR4", "100000", TRUE)
    [] code = 3  -> Class("QSFP28_LR4", "100000", TRUE)
    [] code = 6  -> Class("QSFP28_CWDM4", "100000", TRUE)
    [] code = 7  -> Class("QSFP28_PSM4", "100000", TRUE)
    [] code = 11 -> Class("QSFP28_CR4", "100000", FALSE)
    [] code = 23 -> Class("QSFP28_CLR4", "100000", TRUE)
    [] OTHER     -> Unrecognized

Qsfp28Class(id) ==
  IF id.extended THEN Qsfp100GClass(id.code) ELSE Qsfp40GClass(id)

ModuleClass(connector, id) ==
  CASE connector = SfpPlus  -> SfpClass(id)
    [] connector = QsfpPlus -> Qsfp40GClass(id)
    [] connector = Qsfp28   -> Qsfp28Class(id)

---------------------------------------------------------------------------
(* pm_parse: every column that is published is overwritten.                *)
(* set_supported_speeds is always called with the one speed that max_speed *)
(* gets.  enet_10gbase_sr, which the code forces to 1 on entry, lies in    *)
(* the same bit of both layouts and is not tested elsewhere.               *)

(* An SFP gets literal vendor strings, and its vendor_oui is not touched. *)
SfpColumns(c, id, cols) ==
  [connector        |-> c.connector,
   connector_status |-> c.connector_status,
   max_speed        |-> c.max_speed,
   supported_speeds |-> c.max_speed,
   vendor           |-> "vendor_name",
   vendor_oui       |-> cols.vendor_oui,
   a0               |-> id.serial]

(* A QSFP gets the strings of its page. *)
QsfpColumns(c, id) ==
  [connector        |-> c.connector,
   connector_status |-> c.connector_status,
   max_speed        |-> c.max_speed,
   supported_speeds |-> c.max_speed,
   vendor           |-> id.serial,
   vendor_oui       |-> id.serial,
   a0               |-> id.serial]

PmParse(connector, id, cols) ==
  LET c == ModuleClass(connector, id)
  IN  IF connector = SfpPlus THEN SfpColumns(c, id, cols) ELSE QsfpColumns(c, id)

ParsedOptical(connector, id) == ModuleClass(connector, id).optical
===========================================================================
