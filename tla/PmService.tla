----------------------------- MODULE PmService -----------------------------
(***************************************************************************)
(* What ops-pmd promises to the rest of the switch, stated without its     *)
(* loop, its hash tables, its flags and its transactions.                  *)
(*                                                                         *)
(* Other daemons write rows.  The service looks at them, serves some of    *)
(* them by switching their lasers, reports what it found in info, and      *)
(* announces itself in curHw.  A report may be lost and a switch may fail; *)
(* the service knows of neither, and the promises except them.             *)
(***************************************************************************)
CONSTANTS
  Names, SubNames,
  Described,  \* [SubNames -> SUBSET Names], what the hardware description lists
  Device,     \* [SubNames -> [Names -> lasers]], and the laser it gives for each
  Sfp,        \* the lasers whose control sits on the board
  NoRow,      \* a missing row
  NoInfo      \* nothing reported

VARIABLES
  rows,       \* configuration of each interface
  info,       \* report on each interface
  curHw,      \* announcement of the service
  off,        \* the lasers that are off
  seen,       \* the rows at the service's last look
  served,     \* the interfaces it serves
  at,         \* the subsystem under which it serves each of them
  lost,       \* interfaces whose report was lost
  failed,     \* lasers whose last switch failed
  unreadable  \* subsystems whose description could not be read

vars == <<rows, info, curHw, off, seen, served, at, lost, failed, unreadable>>

Exists(row)  == row.uuid # NoRow.uuid
Enabled(row) == row.enable = "true"

(* The interfaces that must be served once r has been looked at. *)
Demanded(r, excused) ==
  {n \in Names : r[n].sub \in SubNames \ excused /\ n \in Described[r[n].sub]}

(* The laser of a served interface. *)
Laser(n) == Device[at[n]][n]

(* The row that the service knows is still the row in the database. *)
Current(n) == rows[n].uuid = seen[n].uuid

Init ==
  /\ info = [n \in Names |-> NoInfo]
  /\ curHw \in {"none", "0"}
  /\ off = {}
  /\ seen = [n \in Names |-> NoRow]
  /\ served = {}
  /\ at = [n \in Names |-> NoRow.sub]
  /\ lost = {}
  /\ failed = {}
  /\ unreadable = {}

---------------------------------------------------------------------------
(* The rest of the switch.                                                 *)

(* Rows change at will; a report goes only with its row. *)
Configure ==
  /\ \A n \in Names : info'[n] # info[n] =>
       info'[n] = NoInfo /\ rows'[n].uuid # rows[n].uuid
  /\ curHw' # curHw => curHw = "none" /\ curHw' = "0"
  /\ UNCHANGED <<off, seen, served, at, lost, failed, unreadable>>

(* A module that carries its own laser control is pulled out. *)
Exchange ==
  /\ off' \subseteq off
  /\ off \cap Sfp \subseteq off'
  /\ UNCHANGED <<rows, info, curHw, seen, served, at, lost, failed, unreadable>>

---------------------------------------------------------------------------
(* The service.                                                            *)

Look ==
  /\ seen' = rows
  /\ UNCHANGED <<rows, info, curHw, off, served, at, lost, failed, unreadable>>

(* Nothing that is demanded is left out, and nothing is served that has no *)
(* row, under the subsystem that lists it or under the one it was served   *)
(* under before.  A laser is switched only towards the row of its          *)
(* interface, and where the control is on the board it then agrees with    *)
(* that row.                                                               *)
Serve ==
  /\ Demanded(seen, unreadable') \subseteq served'
  /\ \A n \in served' : Exists(seen[n]) /\ at'[n] \in {at[n], seen[n].sub}
  /\ \A c \in (off \ off') \cup (off' \ off) :
       \E n \in served' : Laser(n)' = c /\ (c \in off') = ~Enabled(seen[n])
  /\ \A n \in served' : Laser(n)' \in Sfp \ failed' =>
       (Laser(n)' \in off') = ~Enabled(seen[n])
  /\ lost' \subseteq lost
  /\ UNCHANGED <<rows, info, curHw, seen>>

(* Only served and current rows get a report; the announcement does not    *)
(* come before the reports.                                                *)
Report ==
  /\ \A n \in Names : info'[n] # info[n] =>
       n \in served /\ Current(n) /\ info'[n] # NoInfo
  /\ curHw' # curHw =>
       /\ curHw' = "1"
       /\ \A n \in served \ lost : Current(n) => info'[n] # NoInfo
  /\ lost' \subseteq lost
  /\ UNCHANGED <<rows, off, seen, served, at, failed, unreadable>>

Lose ==
  /\ lost \subseteq lost'
  /\ lost' \subseteq lost \cup served
  /\ UNCHANGED <<rows, info, curHw, off, seen, served, at, failed, unreadable>>

(* The process ends and with it everything it knows. *)
Stop ==
  /\ seen' = [n \in Names |-> NoRow]
  /\ served' = {}
  /\ at' = [n \in Names |-> NoRow.sub]
  /\ lost' = {}
  /\ unreadable' = {}
  /\ UNCHANGED <<rows, info, curHw, off, failed>>

---------------------------------------------------------------------------
Next == Configure \/ Exchange \/ Look \/ Serve \/ Report \/ Lose \/ Stop

Spec == Init /\ [][Next]_vars
===========================================================================
