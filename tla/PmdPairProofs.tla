--------------------------- MODULE PmdPairProofs ---------------------------
(***************************************************************************)
(* Two processes with a lock that is kept are one service of PmService,    *)
(* for every value of the constants.  While one of them knows that it has  *)
(* the lock, the service is that process and its steps are those of        *)
(* PmdRefinementProofs; what remains is where the lock comes and goes.     *)
(***************************************************************************)
EXTENDS PmdFailoverProofs, PmdFailoverRefinement

---------------------------------------------------------------------------
(* The state of the service.                                               *)

(* A process with the lock is the whole service. *)
LEMMA ViewWithLock ==
  ASSUME has_lock, Peer!Blank
  PROVE  /\ PairSeen = idlIntf
         /\ PairServed = {n \in Names : Live(n)}
         /\ PairAt = ServedAt
         /\ PairLost = lostInfo
         /\ PairUnreadable = yamlFailed
<1>1. PairServed = {n \in Names : Live(n)}
  BY DEF PairServed, Peer!Blank, Peer!Live
<1>2. PairAt = ServedAt
  BY <1>1 DEF PairAt, ServedAt
<1> QED BY <1>1, <1>2 DEF PairSeen, PairLost, PairUnreadable, Peer!Blank

(* A step that both views describe with the same values is a step of both. *)
LEMMA SameSteps ==
  ASSUME PairSeen = idlIntf, PairServed = {n \in Names : Live(n)}, PairAt = ServedAt,
         PairLost = lostInfo, PairUnreadable = yamlFailed,
         PairSeen' = idlIntf', PairServed' = {n \in Names : Live(n)}', PairAt' = ServedAt',
         PairLost' = lostInfo', PairUnreadable' = yamlFailed',
         [Service!Next]_(Service!vars)
  PROVE  [Pair!Next]_(Pair!vars)
<1>1. Service!Configure => Pair!Configure
  BY DEF Service!Configure, Pair!Configure
<1>2. Service!Exchange => Pair!Exchange
  BY DEF Service!Exchange, Pair!Exchange
<1>3. Service!Look => Pair!Look
  BY DEF Service!Look, Pair!Look
<1>4. Service!Serve => Pair!Serve
  BY DEF Service!Serve, Pair!Serve, Service!Demanded, Pair!Demanded, Service!Exists,
         Pair!Exists, Service!Enabled, Pair!Enabled, Service!Laser, Pair!Laser
<1>5. Service!Report => Pair!Report
  BY DEF Service!Report, Pair!Report, Service!Current, Pair!Current
<1>6. Service!Lose => Pair!Lose
  BY DEF Service!Lose, Pair!Lose
<1>7. Service!Stop => Pair!Stop
  BY DEF Service!Stop, Pair!Stop
<1>8. UNCHANGED Service!vars => UNCHANGED Pair!vars
  BY DEF Service!vars, Pair!vars
<1> QED
  BY <1>1, <1>2, <1>3, <1>4, <1>5, <1>6, <1>7, <1>8 DEF Service!Next, Pair!Next

---------------------------------------------------------------------------
(* The steps.                                                              *)

(* The turn is not part of the service. *)
LEMMA SwitchUnseen ==
  ASSUME KeptInv, Switch
  PROVE  UNCHANGED Pair!vars
<1>1. ~(has_lock /\ other.has_lock)
  BY DEF KeptInv, ServingInv, PeerServingInv, LockInv, Peer!LockInv, OneOwner
<1>2. PairSeen' = PairSeen
  BY <1>1, SwitchVariables DEF Switch, PairSeen
<1>3. PairServed' = PairServed
  BY SwitchVariables DEF Switch, PairServed, Live
<1>4. PairLost' = PairLost /\ PairUnreadable' = PairUnreadable
  BY SwitchVariables DEF Switch, PairLost, PairUnreadable
<1>5. \A n \in Names : ~(Live(n) /\ other.ovs_intfs[n].uuid # NoUuid)
  BY <1>1 DEF KeptInv, ServingInv, PeerServingInv, LockInv, Peer!LockInv, Blank,
              Peer!Blank, Peer!Live
<1>6. PairAt' = PairAt
  BY <1>5, SwitchVariables DEF Switch, PairAt, PairServed, Live
<1> QED BY <1>2, <1>3, <1>4, <1>6, SwitchVariables DEF Pair!vars

(* The owner of the lock goes through its loop. *)
LEMMA OwnerStep ==
  ASSUME KeptInv, KeptInv', SameTurn, has_lock, has_lock'
  PROVE  [Pair!Next]_(Pair!vars)
<1>1. Peer!Blank /\ Peer!Blank'
  BY DEF KeptInv, ServingInv, PeerServingInv, LockInv, Peer!LockInv, OneOwner
<1>2. /\ PairSeen' = idlIntf'
      /\ PairServed' = {n \in Names : Live(n)}'
      /\ PairAt' = ServedAt'
      /\ PairLost' = lostInfo'
      /\ PairUnreadable' = yamlFailed'
  <2>1. PairServed' = {n \in Names : Live(n)}'
    BY <1>1 DEF PairServed, Peer!Blank, Peer!Live
  <2>2. PairAt' = ServedAt'
    BY <2>1 DEF PairAt, ServedAt
  <2> QED BY <1>1, <2>1, <2>2 DEF PairSeen, PairLost, PairUnreadable, Peer!Blank
<1>3. [Service!Next]_(Service!vars)
  BY StepMapped DEF KeptInv, PairInv, ServingInv, IInv, SameTurn
<1> QED BY <1>1, <1>2, <1>3, ViewWithLock, SameSteps

(* Only the end of a process takes its lock away, and only ovsdb_idl_run   *)
(* lets it know of a new one.                                              *)
LEMMA LockChanges ==
  ASSUME TypeOK, LockInv, [Next]_vars, has_lock' # has_lock
  PROVE  /\ has_lock => Rebirth
         /\ ~has_lock => IdlRun
<1>0. has_lock \in BOOLEAN /\ lockOwner \in BOOLEAN
  BY DEF TypeOK
<1>1. Reconfigure \/ Scan \/ Update \/ Commit => has_lock' = has_lock
  BY DEF Reconfigure, Scan, Update, Commit
<1>2. Env \/ UNCHANGED vars => has_lock' = has_lock \/ PmdExit \/ Crash
  BY DEF Env, vars, ctlVars, AddInterface, DelInterface, MoveInterface, SetHwEnable,
         SetRow, AddSubsystem, DelSubsystem, AddDaemonRow, InsertModule, RemoveModule,
         GrantLock, RevokeLock
<1>3. PmdInit \/ PmdExit \/ Crash => Rebirth /\ has_lock' = FALSE
  BY DEF Rebirth, PmdInit, PmdExit, Crash, Halt
<1>4. IdlRun => has_lock' = lockOwner
  BY DEF IdlRun
<1>5. (Rebirth /\ has_lock' = FALSE) \/ IdlRun
  BY <1>1, <1>2, <1>3 DEF Next, Loop
<1>6. has_lock => lockOwner
  BY DEF LockInv
<1> QED BY <1>0, <1>4, <1>5, <1>6

(* The owner ends. *)
LEMMA OwnerEnds ==
  ASSUME KeptInv, KeptInv', SameTurn, has_lock, ~has_lock'
  PROVE  Pair!Stop
<1>1. Peer!Blank /\ ~other.has_lock /\ Blank' /\ UNCHANGED other
  BY DEF KeptInv, ServingInv, PeerServingInv, LockInv, Peer!LockInv, OneOwner, SameTurn
<1>2. Rebirth
  BY LockChanges DEF KeptInv, PairInv, SoloInv, ServingInv, SameTurn
<1>3. PairSeen' = [n \in Names |-> NoRow]
  BY <1>1 DEF PairSeen, NoRow
<1>4. PairServed' = {} /\ PairLost' = {} /\ PairUnreadable' = {}
  BY <1>1 DEF PairServed, PairLost, PairUnreadable, Blank, Peer!Blank, Peer!Live
<1>5. PairAt' = [n \in Names |-> NoRow.sub]
  BY <1>1, <1>4 DEF PairAt, Blank, NoRow
<1> QED BY <1>2, <1>3, <1>4, <1>5, RebirthStops DEF Service!Stop, Pair!Stop

(* A process learns that it has the lock. *)
LEMMA OwnerBegins ==
  ASSUME KeptInv, KeptInv', SameTurn, ~has_lock, has_lock'
  PROVE  Pair!Look
<1>1. IdlRun /\ UNCHANGED other
  BY LockChanges DEF KeptInv, PairInv, SoloInv, ServingInv, SameTurn
<1>2. Service!Look
  BY <1>1, IdlRunLooks
<1>3. PairSeen' = idlIntf'
  BY DEF PairSeen
<1>4. UNCHANGED <<ovs_intfs, lostInfo, yamlFailed>>
  BY <1>1 DEF IdlRun
<1>5. PairServed' = PairServed /\ PairLost' = PairLost /\ PairUnreadable' = PairUnreadable
  BY <1>1, <1>4 DEF PairServed, PairLost, PairUnreadable, Live
<1>6. PairAt' = PairAt
  BY <1>1, <1>4, <1>5 DEF PairAt, Live
<1> QED BY <1>2, <1>3, <1>5, <1>6 DEF Service!Look, Pair!Look

(* A process that does not have the lock does nothing that can be seen. *)
LEMMA StandbyStep ==
  ASSUME KeptInv, KeptInv', SameTurn, ~has_lock, ~has_lock'
  PROVE  [Pair!Next]_(Pair!vars)
<1>1. Blank /\ Blank' /\ pc \in {"stopped", "idle"} /\ TypeOK /\ UNCHANGED other
  BY DEF KeptInv, PairInv, SoloInv, ServingInv, LockInv, TypeOK, SameTurn
<1>2. PairSeen' = PairSeen
  BY <1>1 DEF PairSeen, NoRow
<1>3. PairServed' = PairServed /\ PairAt' = PairAt
  BY <1>1 DEF PairServed, PairAt, Blank
<1>4. PairLost' = PairLost /\ PairUnreadable' = PairUnreadable
  BY <1>1 DEF PairLost, PairUnreadable, Blank
<1>5. CASE UNCHANGED <<hwVars, dbVars>>
  BY <1>2, <1>3, <1>4, <1>5 DEF hwVars, dbVars, Pair!vars
<1>6. CASE (Env \/ UNCHANGED vars) /\ Outside /\ ~PmdExit /\ ~Crash
  <2>1. Service!Configure \/ Service!Exchange \/ UNCHANGED Service!vars
    BY <1>1, <1>6, EnvironmentMapped
  <2>2. Service!Configure => Pair!Configure
    BY <1>2, <1>3, <1>4 DEF Service!Configure, Pair!Configure
  <2>3. Service!Exchange => Pair!Exchange
    BY <1>2, <1>3, <1>4 DEF Service!Exchange, Pair!Exchange
  <2>4. UNCHANGED Service!vars => UNCHANGED Pair!vars
    BY <1>2, <1>3, <1>4 DEF Service!vars, Pair!vars
  <2> QED BY <2>1, <2>2, <2>3, <2>4 DEF Pair!Next
<1> QED BY <1>1, <1>5, <1>6, WaitingStep DEF SameTurn

---------------------------------------------------------------------------
LEMMA InitPairMapped == FailoverInit => Pair!Init
<1> SUFFICES ASSUME FailoverInit PROVE Pair!Init
  OBVIOUS
<1>1. Service!Init
  BY InitMapped DEF FailoverInit
<1>2. /\ ~has_lock /\ Blank /\ other.has_lock = has_lock
      /\ other.ovs_intfs = ovs_intfs /\ other.lostInfo = {} /\ other.yamlFailed = {}
  BY InitLock DEF FailoverInit, Init, Own, LockInv, Blank
<1>3. PairServed = {}
  BY <1>2 DEF PairServed, Blank, Live
<1>4. PairSeen = [n \in Names |-> NoRow] /\ PairLost = {} /\ PairUnreadable = {}
  BY <1>2 DEF PairSeen, PairLost, PairUnreadable, Blank, NoRow
<1>5. PairAt = [n \in Names |-> NoRow.sub]
  BY <1>2, <1>3 DEF PairAt, Blank, NoRow
<1> QED BY <1>1, <1>3, <1>4, <1>5 DEF Service!Init, Pair!Init

LEMMA PairStepMapped ==
  ASSUME KeptInv, KeptInv', [FailoverNext]_failoverVars
  PROVE  [Pair!Next]_(Pair!vars)
<1>1. has_lock \in BOOLEAN /\ has_lock' \in BOOLEAN
  BY DEF KeptInv, PairInv, SoloInv, TypeOK
<1>2. CASE SameTurn
  BY <1>1, <1>2, OwnerStep, OwnerEnds, OwnerBegins, StandbyStep DEF Pair!Next
<1> QED BY <1>2, SwitchUnseen, TurnCases

(* pmd_run, "another ops-pmd process is running, disabling this process    *)
(* until it goes away": two processes of which only the one with the lock  *)
(* acts are, through any number of crashes and takeovers, one service, for *)
(* any number of interfaces and subsystems and every set of faults in      *)
(* which the lock is not taken from a running process.                     *)
THEOREM PairIsOneService ==
  ASSUME "lock" \notin Faults PROVE FailoverSpec => PairImplementsService
<1>1. KeptInv /\ KeptInv' /\ [FailoverNext]_failoverVars => [Pair!Next]_(Pair!vars)
  BY PairStepMapped
<1> QED
  BY <1>1, InitPairMapped, KeptInductive, PTL
     DEF FailoverSpec, PairImplementsService, Pair!Spec
============================================================================
