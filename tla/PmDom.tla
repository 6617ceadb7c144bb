------------------------------- MODULE PmDom -------------------------------
(***************************************************************************)
(* Digital optical monitoring: the read of the A2 page at the end of       *)
(* pm_read_module_state (src/plug.c, from the label retry_read_a2) and     *)
(* pm_set_a2 (src/pm_dom.c), which turns the page into columns.            *)
(*                                                                         *)
(* At this commit `|| true' (src/plug.c:363) makes pm_read_module_state    *)
(* return before the label, so the daemon of Pmd leaves every column NULL. *)
(* This module is the code behind that return, for the day it goes.        *)
(*                                                                         *)
(* A page holds a 16-bit word for each monitor and threshold and a bit for *)
(* each alarm and warning.  A text is known by its value in hundredths, as *)
(* "%4.2f" prints it.  module_info_changed, which SET_BINARY raises on     *)
(* every visit, and the publishing of the columns are those of Pmd.        *)
(***************************************************************************)
EXTENDS PmFormat

CONSTANTS
  Pages,   \* the contents of the A2 page that modules return
  Sizes    \* sizeof the page

VARIABLES
  connector,           \* the connector of the cage, which never changes
  a2_read_requested,
  retry_count,
  page,                \* the local variable a2
  text,                \* float columns: the value printed, {} for NULL
  flag,                \* alarm columns: "On", "Off", or "NULL"
  a2,                  \* the binary column: "NULL" or "set", its text is ascii
  step                 \* "idle", "read", "set" or "binary"

domVars ==
  <<connector, a2_read_requested, retry_count, page, text, flag, a2, step>>

---------------------------------------------------------------------------
(* The columns, as pairs of a monitor and of what is shown of it.          *)

Levels == {"high_alarm", "low_alarm", "high_warning", "low_warning"}

LaneBiases == {"tx1_bias", "tx2_bias", "tx3_bias", "tx4_bias"}
LanePowers == {"rx1_power", "rx2_power", "rx3_power", "rx4_power"}
Lanes      == LaneBiases \cup LanePowers

SfpMonitors == {"temperature", "vcc", "tx_bias", "rx_power", "tx_power"}

(* A reading and four thresholds of each monitor, and its four flags. *)
SfpFloats == SfpMonitors \X ({"value"} \cup Levels)
SfpFlags  == SfpMonitors \X Levels

(* The readings alone, and the latched flags of the lanes alone. *)
QsfpFloats == ({"temperature", "vcc"} \cup Lanes) \X {"value"}
QsfpFlags  == Lanes \X Levels

SfpPlus == "SFP_PLUS"

Floats(c) == IF c = SfpPlus THEN SfpFloats ELSE QsfpFloats
Flags(c)  == IF c = SfpPlus THEN SfpFlags ELSE QsfpFlags

Word == {n \in Nat : n < 65536}

Page == [word : [SfpFloats \cup QsfpFloats -> Word],
         bit  : [SfpFlags \cup QsfpFlags -> BOOLEAN]]

(* memset(&a2, 0, ...) and memset(&a2, 0xff, ...). *)
ZeroPage == [word |-> [f \in SfpFloats \cup QsfpFloats |-> 0],
             bit  |-> [f \in SfpFlags \cup QsfpFlags |-> FALSE]]
FfPage   == [word |-> [f \in SfpFloats \cup QsfpFloats |-> 65535],
             bit  |-> [f \in SfpFlags \cup QsfpFlags |-> TRUE]]

ASSUME DomAssumption == /\ Pages \subseteq Page
                        /\ Sizes \subseteq Nat \ {0}

---------------------------------------------------------------------------
(* The conversions.  A value is num(f) / scale(f).                         *)

IsTemperature(f) == f[1] = "temperature"

Scale(f) ==
  CASE IsTemperature(f)                    -> 1
    [] f[1] \in LaneBiases \cup {"tx_bias"} -> 500
    [] OTHER                               -> 10000

Signed(n, width) == IF 2 * n >= width THEN n - width ELSE n

(* Faulty: takes the most significant byte of a temperature for unsigned. *)
Num_Unsigned(f, p) ==
  IF IsTemperature(f) THEN p.word[f] \div 256 ELSE p.word[f]

(* The most significant byte of a temperature is a signed char; the least  *)
(* significant one is divided by 256 as an integer, which leaves nothing.  *)
Num(f, p) ==
  IF IsTemperature(f) THEN Signed(p.word[f] \div 256, 256) ELSE p.word[f]

Magnitude(n) == IF n < 0 THEN -n ELSE n

(* "%4.2f".  Halfway between two hundredths, the error of the float        *)
(* decides: up is the set of columns where it rounds up.                   *)
Hundredths(f, p) == (100 * Num(f, p)) \div Scale(f)
Rest(f, p)       == 100 * Num(f, p) - Hundredths(f, p) * Scale(f)
Ties(c, p)       == {f \in Floats(c) : 2 * Rest(f, p) = Scale(f)}

Printed(f, p, up) ==
  IF 2 * Rest(f, p) > Scale(f) \/ f \in up
    THEN Hundredths(f, p) + 1 ELSE Hundredths(f, p)

(* strtol of a text: the part before the point. *)
Strtol(h) == IF h < 0 THEN -((-h) \div 100) ELSE h \div 100

(* SET_FLOAT_STRING: the whole part of the old text against the new value. *)
SetFloatString(old, f, p, up) ==
  IF old = {} \/ (\E h \in old : Strtol(h) * Scale(f) # Num(f, p))
    THEN {Printed(f, p, up)} ELSE old

(* SET_BOOL_STRING. *)
SetBoolString(value) == IF value THEN "On" ELSE "Off"

---------------------------------------------------------------------------
DomInit ==
  /\ buf_size \in Sizes
  /\ HexInit
  /\ connector \in {SfpPlus, "QSFP_PLUS", "QSFP28"}
  /\ a2_read_requested = FALSE
  /\ retry_count = 2
  /\ page = ZeroPage
  /\ text = [f \in Floats(connector) |-> {}]
  /\ flag = [f \in Flags(connector) |-> "NULL"]
  /\ a2 = "NULL"
  /\ step = "idle"

(* A visit of pm_read_module_state that finds the A2 page requested. *)
Visit ==
  /\ step = "idle"
  /\ a2_read_requested' = TRUE
  /\ retry_count' = 2
  /\ page' = ZeroPage
  /\ step' = "read"
  /\ UNCHANGED <<connector, text, flag, a2, hexVars>>

(* pm_read_a2 succeeds. *)
PmReadA2 ==
  /\ step = "read"
  /\ page' \in Pages
  /\ step' = "set"
  /\ UNCHANGED <<connector, a2_read_requested, retry_count, text, flag, a2, hexVars>>

(* Faulty: does not ask whether retries are left. *)
RetryA2_Always ==
  /\ step = "read"
  /\ retry_count > -3
  /\ retry_count' = retry_count - 1
  /\ UNCHANGED <<connector, a2_read_requested, page, text, flag, a2, step, hexVars>>

(* pm_read_a2 fails and retries are left. *)
RetryA2 ==
  /\ step = "read"
  /\ retry_count # 0
  /\ retry_count' = retry_count - 1
  /\ UNCHANGED <<connector, a2_read_requested, page, text, flag, a2, step, hexVars>>

(* pm_read_a2 fails for the last time. *)
GiveUpA2 ==
  /\ step = "read"
  /\ retry_count = 0
  /\ page' = FfPage
  /\ step' = "set"
  /\ UNCHANGED <<connector, a2_read_requested, retry_count, text, flag, a2, hexVars>>

(* The columns that an arm of the switch of pm_set_a2 sets. *)
SetColumns(floats, flags) ==
  /\ \E up \in SUBSET Ties(connector, page) :
       text' = [f \in floats |-> SetFloatString(text[f], f, page, up)]
  /\ flag' = [f \in flags |-> SetBoolString(page.bit[f])]

SetSfpColumns  == connector = SfpPlus /\ SetColumns(SfpFloats, SfpFlags)
SetQsfpColumns == connector # SfpPlus /\ SetColumns(QsfpFloats, QsfpFlags)

(* pm_set_a2 up to SET_BINARY, which frees the old text first. *)
PmSetA2 ==
  /\ step = "set"
  /\ SetSfpColumns \/ SetQsfpColumns
  /\ a2' = "NULL"
  /\ step' = "binary"
  /\ UNCHANGED <<connector, a2_read_requested, retry_count, page, hexVars>>

(* The malloc of hex_to_ascii fails: the column stays NULL. *)
NoBinary ==
  /\ step = "binary"
  /\ ~in_hex
  /\ a2_read_requested' = FALSE
  /\ step' = "idle"
  /\ UNCHANGED <<connector, retry_count, page, text, flag, a2, hexVars>>

(* hex_to_ascii and the rest of pm_read_module_state. *)
SetBinary ==
  /\ step = "binary"
  /\ \/ /\ HexStart \/ HexByte
        /\ UNCHANGED <<a2_read_requested, a2, step>>
     \/ /\ HexEnd
        /\ a2' = "set"
        /\ a2_read_requested' = FALSE
        /\ step' = "idle"
  /\ UNCHANGED <<connector, retry_count, page, text, flag>>

DomNext ==
  Visit \/ PmReadA2 \/ RetryA2 \/ GiveUpA2 \/ PmSetA2 \/ NoBinary \/ SetBinary

DomSpec == DomInit /\ [][DomNext]_<<domVars, hexVars>>

---------------------------------------------------------------------------
(* The types, and the two retries of pm_read_module_state: the count never *)
(* passes below zero, whatever fails.                                      *)
DomTypeOK ==
  /\ buf_size \in Sizes
  /\ connector \in {SfpPlus, "QSFP_PLUS", "QSFP28"}
  /\ a2_read_requested \in BOOLEAN
  /\ in_hex \in BOOLEAN
  /\ retry_count \in 0 .. 2
  /\ page \in Page
  /\ DOMAIN text = Floats(connector)
  /\ \A f \in Floats(connector) : /\ text[f] \subseteq Int
                                 /\ \A g, h \in text[f] : g = h
  /\ flag \in [Flags(connector) -> {"On", "Off", "NULL"}]
  /\ a2 \in {"set", "NULL"}
  /\ step \in {"idle", "read", "set", "binary"}
  /\ in_hex => step = "binary"

(* What the module measured, as num / scale: a temperature is a signed     *)
(* 16-bit count of 1/256 degrees.                                          *)
TrueScale(f)  == IF IsTemperature(f) THEN 256 ELSE Scale(f)
TrueNum(f, p) == IF IsTemperature(f) THEN Signed(p.word[f], 65536) ELSE p.word[f]

(* Once pm_set_a2 has run, every flag is the one of the page just read and *)
(* every text is less than one unit away from what the page says, although *)
(* SET_FLOAT_STRING keeps an old text whose whole part equals the new      *)
(* value and the fraction of a temperature is dropped.                     *)
ColumnsDescribePage ==
  step = "binary" =>
    /\ \A f \in Flags(connector) : flag[f] = SetBoolString(page.bit[f])
    /\ \A f \in Floats(connector) :
         \E h \in text[f] :
           Magnitude(h * TrueScale(f) - 100 * TrueNum(f, page)) < 100 * TrueScale(f)
=============================================================================
