# Verification of ops-pmd

ops-pmd is the OpenSwitch daemon for pluggable modules (SFP+, QSFP+, QSFP28).
It follows the configuration in OVSDB, reads the identity of the modules over
i2c, writes it back to OVSDB, and switches lasers on and off. This directory
holds TLA+ modules that model the daemon, alone and with a second process that
waits for its lock, an abstract specification of what it promises, TLC
configurations that check them on small instances, and TLAPS proofs of the safety
properties and of both refinements for instances of any size.

Paths below are relative to the repository root (`src/pmd.c`,
`include/pmd.h.in`).

## 1. Inventory

| component | state | operations | depends on |
|---|---|---|---|
| main loop, `src/pmd.c` | the IDL handle, the lock as the IDL knows it, `exiting` | `pmd_init`, `pmd_run`, `pmd_wait`, `pmd_exit`; commands `exit`, `ops-pmd/dump`, `ops-pmd/sim` | calls everything below, one thread |
| database access, `src/ovsdb_access.c` | `ovs_intfs`, `ovs_subs`, `idl_seqno`, `cur_hw_set`, the IDL replica | `pm_ovsdb_if_init`, `pmd_reconfigure`, `pm_ovsdb_update`, dump | ovsdb-server through the IDL; YAML configuration; cages |
| cages, `src/plug.c` | the fields of `pm_port_t`; the registers of the board and of the modules | `pm_read_state`, `pm_configure_port`, `pm_clear_reset`; `pmd_sim_*` in the simulation build | i2c library; identification; DOM |
| identification, `src/pm_detect.c` | the columns of a port | `pm_parse`; `sfpp_sum_verify` (no caller) | serial ID page |
| YAML configuration, `src/config.c` | the YAML handle | `pm_read_yaml_files`, `pm_get_yaml_port`; `pm_create_a2_devices` (no caller) | config-yaml library |
| DOM, `src/pm_dom.c` | the DOM columns of a port | `set_a2_read_request`; `pm_set_a2`, which the daemon of this commit returns before (`src/plug.c:363`) | A2 page |
| external | OVSDB tables, lock `ops_pmd`; EEPROMs, registers, reset lines | | |

Interactions. The daemon learns of configuration only in `ovsdb_idl_run`; what
it then does with it depends on the lock, on the sequence number of the replica,
and on three hash tables and flags that persist between runs. Other daemons
write the Interface, Subsystem and Daemon tables at any time. People plug and
pull modules at any time. The server may take the lock, refuse a transaction,
or close the connection; a supervisor restarts the process. A second process may
wait for the lock and take over, on the same database and the same hardware.

What is hard: the three copies of the configuration (server, replica, ports)
diverge and must meet again; rows are re-created under the same name;
subsystems come and go; flags are cleared before the work they stand for is
known to be done; the process may die between any two phases, or lose the lock
there to a second process; i2c transfers and YAML files fail; texts and buffers
are computed by integer arithmetic. The list "hazards" of `PROJECT.json` names each place.

What makes each component correct:

* database access: the ports are those of the rows (`PortMirrorsRow`,
  `PortForEveryRow`); what is not waiting to be published is published
  (`QuietPortIsPublished`); `cur_hw` comes last (`CurHwAfterModules`), and the
  daemon does not believe that it is set when it is not (`CurHwFlagIsTrue`);
* cages: a laser follows the row (`SfpLaserFollowsRow`,
  `LaserMovesTowardsRow`);
* main loop: everything is published in the end, also through crashes and
  restarts, and the loop then settles (`EventuallyPublished`,
  `EventuallyCurHw`, `EventuallyLaser`, `EventuallyQuiet`), and stays settled
  (`SettledStaysSettled`); a process that waits for the lock holds nothing
  (`StandbyIsBlank`);
* all of these together: the daemon is the service of `PmService`
  (`ImplementsService`), and so are two of them (`PairImplementsService`);
* DOM: the columns describe the page (`ColumnsDescribePage`), and its hexadecimal
  text fits and is complete (`HexFits`, `HexLayout`).

## 2. Modules

    PmDetect <- Plug <- OvsdbAccess <- Pmd
    Pmd           <- PmdInvariants
                  <- PmdRefinement ~> PmService              <- MCPmd (TLC)
                  <- PmdFailover <- PmdFailoverRefinement ~> PmService
                                                             <- MCFailover (TLC)

    proofs:       PmdTypeProofs <- PmdProofs <-+- PmdRefinementProofs <-+
                                               +- PmdLockProofs       <-+- PmdFailoverProofs
                                                                              <- PmdPairProofs

    PmFormat <- PmDom <-+- MCPmDom (TLC)
                        +- PmDomProofs

`A <- B` says that B EXTENDS A, a wavy arrow is an INSTANCE with a refinement
mapping. `PmdProofs` also extends `PmdInvariants`, and each module of proofs the
one it is about.

**PmDetect** (`src/pm_detect.c`) is a pure function: the class of a serial ID
page for each kind of cage, and the columns `pm_parse` leaves. A page is reduced
to the bits the code tests, with one opaque tag for the vendor strings and raw
bytes. The branches are those of the source as compiled: five SFP branches
carry `&& false` and the SR branch `|| true`, so every SFP+ module is `SFP_SR`.
The column `vendor` stands for name, part number, revision and serial number.

**Plug** (`src/plug.c`) has the hardware variables (`slot`, `disabled`,
`inReset`) and the record `Port` for `pm_port_t`. `PmReadModuleState` is
`pm_read_module_state`; `PmConfigurePorts` and `PmClearResets` are
`pm_configure_port` and `pm_clear_reset` for the set of ports one pass touches.
A port is bound to a cage by its field `subsystem`, which also stands for
`module_device`: `Device` has the cage that the files of each subsystem give for a
name, and every transfer goes to `ModuleDevice(n, port)`. Both fields are set when
the port is made (`src/ovsdb_access.c:97`, `:101`) and nowhere else. A transfer may
fail when "i2c" is among the faults, or when the files of the port's subsystem were
last read with an error, since the device may then not be found (`MayFail`); a
write to a QSFP module fails when the module is missing or in reset. A read that fails
leaves the zeroed buffer, which the code parses like a page (the check of the
result carries `&& false`).

**OvsdbAccess** (`src/ovsdb_access.c`, `src/config.c`) has the server's tables
(`db...`), the replica (`idl...`) and the daemon's memory (`ovs_intfs`,
`ovs_subs`, `cur_hw_set`, ...). `ProcessReplica` is a pass of `pmd_reconfigure`:
`KeptPort` and `KeptSub` are its two deletion loops, `NewSubs` and
`CreatedPorts` the call of `ovsdb_if_subsys_process`, `ModifiedPorts` the last
loop. `ReconfiguredPort` leaves a kept port with the subsystem it has, whichever
lists the interface by now. `BuildTxn` and `CommitTxn` are `pm_ovsdb_update` before and in the commit.

**Pmd** (`src/pmd.c`) composes them. `pmd_run` is `IdlRun`, `Reconfigure`,
`Scan`, `Update`, `Commit`; the environment acts between any two of them.

**PmService** is the abstract specification: rows, reports, lasers, the
announcement, and what the service has seen and serves, each interface `at` a
subsystem. It has no loop, lock, sequence number, flag or transaction. `Serve`
demands that nothing demanded is left out, that an interface is served at the
subsystem that lists it or the one it was served at before, that no laser moves but
that of a served interface and towards its row, and that a laser on the board then
agrees with the row; `Report`, that only
served rows that still exist get a report and that the announcement comes last.
Lost reports, failed switches and unreadable descriptions are parameters of
these promises and not hidden: an implementation may use an exception only
where the abstract state records it.

**PmdRefinement** maps the daemon to the service: the replica is what was seen,
live ports are what is served, each at its `subsystem`, and `lostInfo`,
`failedWrite` and `yamlFailed` are the exceptions.

**PmdFailover** is two processes of `Pmd` over one database, one set of cages and
one lock (`src/pmd.c:97`). The process variables are those of the process whose
turn it is, `other` has those of its peer, and `Switch` exchanges them between
any two steps. No action of `Pmd` is written twice.

**PmdFailoverRefinement** maps the two processes to one service. What the service
has seen is the replica of the process that knows that it has the lock; what is
served, lost and unreadable is what either of them holds. That the replica of the
stand-by is left out is the point: the service restarts when the lock passes on.

**PmdInvariants** has the inductive invariants of section 5 as definitions, apart
from their proofs, so that TLC can check them and so that `PmdFailoverProofs` can
read them over the variables of the peer (`Peer == INSTANCE PmdInvariants WITH
...`).

**PmFormat** is `hex_to_ascii` (`src/pm_detect.c`), one action for a turn of its
loop. A cell of the buffer is known by the byte and the half of it that it
shows.

**PmDom** is the code behind the return at `src/plug.c:363`: the read of the A2
page with its two retries and its 0xff page, visited any number of times (without
the return, a visit clears `a2_read_requested`; more visits make more old texts
possible), and `pm_set_a2` (`src/pm_dom.c`) with
the arms for SFP+ and QSFP. A value is a numerator over a scale; a text is known
by its value in hundredths, which is what `%4.2f` prints. Where a value lies
halfway between two hundredths the error of the float decides, so both
roundings are possible. The columns named in `include/pm_dom.h` and
`pm_set_a2` are pairs of a monitor and of what is shown of it. Chars are signed, as
on the x86 switches the daemon is built for.

History variables, which no action's guard reads: `failedWrite` (the last laser
write to the cage failed), `lostInfo` (the pm_info of the port was in a failed
transaction), `events` (counts environment steps; only `EnvStep` reads it, as
the bound). `yamlFailed` (the files of the subsystem were last read with an error)
is state of the YAML handle: transfers for a port of such a subsystem may fail.

Definitions marked "Faulty:" are single-defect variants of the definition that
follows them. No action uses them. Each is listed under "mutants" in
`PROJECT.json` with the property that fails when it takes the place of the
correct one.

### Abstractions, and why they are sound

* *A pass over the ports is one step.* `pmd_reconfigure` and `pm_read_state`
  visit ports in hash order. A port's visit reads and writes only that port and
  its cage, and the database is not consulted, so an environment step between two
  visits commutes to before or after the pass, per cage. The presence register
  is read, and its value is not used.
* *The replica is refreshed as a whole.* The IDL applies messages in the order
  of the connection. A replica that lags is an `IdlRun` that happens earlier.
  A run that has the lock before the first contents arrive finds no row and
  does nothing. `ovsdb_idl_txn_commit_block` may refresh the replica too; the
  daemon does not look at it again before the next `ovsdb_idl_run`.
* *uuids are compared by name.* The name of a row does not change, so a lookup
  by uuid finds the row of that name or none. A new row takes a uuid that no
  copy of the row of that name still holds; with three values one is always
  free (a replica and a port hold at most two).
* *An interface belongs to at most one subsystem.* `Subsystem.interfaces` is
  kept with the interface. The daemon creates a port for the first subsystem
  that lists it.
* *A cage has one name* (`OneNamePerCage`): the files of two subsystems may give
  the same cage or different cages for one name, and never the same cage for two
  names.
* *A lost connection is a lost lock*: the server frees the lock, and the replica
  is fetched again. A lock that is lost and won back between two runs would move
  the sequence number; the model leaves out the extra pass, which finds nothing to
  do because the replica has not changed.
* *A failed YAML read* may leave any subset of the ports in the handle;
  `yaml_init_devices` has no result. Reading the files of a subsystem that
  returns replaces what was there. A port that outlives such a re-read still has
  the old `module_device`; that it describes the same cage, or may be used at all, is
  up to the config-yaml library, which is not part of the repository. The model takes
  the cage as given by the subsystem's name and lets every transfer for a subsystem
  with an error fail.
* *The process ends* with its memory gone; the hardware keeps its state.
* *A page is as the module has it or zero*: partial reads are not distinguished.

## 3. Runs

Those without another module use `MCPmd`: an SFP+ cage (module `SR`), a QSFP+
cage with a reset line (modules `LR4`, optical, and `CR4`, copper), one or two
subsystems (`base`, and `ext`, whose files give another SFP+ cage, `sfp_ext`, for
the interface `sfp`), three uuids (symmetric in the safety runs). `takeover` and `split` use
`MCFailover`, the SFP+ cage under two processes, with four and three uuids.
`MaxEvents` bounds the steps of the environment; the daemon's own steps are
unbounded.

| run | cages | subsystems | faults | MaxEvents | checks |
|---|---|---|---|---|---|
| `cages` | sfp, qsfp | 1 | i2c | 2 | `TypeOK`, `SfpLaserFollowsRow`, `FlagTellsUpdateNeeded`, `LaserMovesTowardsRow` |
| `faults` | qsfp | 1 | all | 4 | `PortMirrorsRow`, `QuietPortIsPublished`, `CurHwAfterModules`, `ImplementsService`, `SettledStaysSettled` |
| `subsystems` | sfp, sfp_ext | 2 | yaml, crash | 3 | `PortForEveryRow`, `SfpLaserFollowsRow`, `CurHwFlagIsTrue`, `LaserMovesTowardsRow`, `ImplementsService` |
| `liveness` | sfp | 1 | crash | 3 | `EventuallyPublished`, `EventuallyCurHw`, `EventuallyLaser`, `EventuallyQuiet` |
| `qsfp_enable` | qsfp | 1 | none | 1 | `QsfpLaserFollowsRow` is violated |
| `lost_info` | sfp | 1 | lock | 2 | `FlagTellsUpdateNeeded` is violated |
| `lost_cur_hw` | sfp | 1 | lock | 1 | `EventuallyCurHw` is violated |
| `removal` | sfp | 1 | none | 1 | `EventuallyAbsent` is violated |
| `handover` | sfp, sfp_ext | 2 | none | 1 | `EventuallyLaser` is violated |
| `takeover` | sfp, two processes | 1 | crash | 3 | `SfpLaserFollowsRow`, `StandbyIsBlank`, `PairImplementsService` |
| `split` | sfp, two processes | 1 | lock | 2 | `OwnerLaserFollowsRow` is violated |

The run `dom` uses `MCPmDom`: all three connectors, five pages, pages of 1, 4, 13
and 128 bytes, reads that fail and a malloc that fails, without a bound on the
number of visits. It checks `DomTypeOK`, `ColumnsDescribePage`, `HexFits` and
`HexLayout`.

Why the bounds are enough. Every initial table content is an initial state, so
events are spent on change alone. The longest scenarios the properties are
about take three or four: delete a row, create it again, change its hw_enable,
lose the lock or crash in between (`faults`); delete a subsystem, create it
again, hand it the interface (`subsystems`). Ports do not interact, so two
cages are there to show that they do not. `FlagTellsUpdateNeeded` is confirmed by
`cages`, where no transaction is refused, and refuted by `lost_info`, where one is;
`EventuallyLaser` by `liveness`, where there is one subsystem, and by `handover`,
where there are two. `LaserMovesTowardsRow` is checked of two ports in `cages` and of
two cages for one port in `subsystems`. In `takeover` the three events are the
crash, a change of the row, and one more of either; each process and the database
may hold a uuid of a row, hence the fourth. The pages of `dom` have words at both
signs of a temperature and of its fraction, at whole volts, just below them, and
halfway between two hundredths, and follow each other in any order, which is what
the update test of `SET_FLOAT_STRING` depends on; the sizes lie on both sides of
a word boundary. The safety properties and the refinements do not rest on the
bounds: every one that a run confirms is also proved (section 5).

`"true"` and `"absent"` stand for the values of `hw_intf_config:enable`;
`"false"` is handled as `"absent"` is (`ovsdb_if_intf_get_hw_enable`).

### Fairness

`FairSpec` assumes weak fairness of

* the loop: nothing in `pmd_run` blocks for ever, and `pmd_wait` arms a timer
  before `poll_block`;
* `GrantLock`: the server answers a request that nobody contends;
* `PmdInit`: the process is restarted when it ends.

The environment owes nothing. Liveness is checked with crashes, without lost
transactions: with them `EventuallyCurHw` and publication fail (section 4).

## 4. Findings

1. **The initial hw_enable of a QSFP module is not applied** (`qsfp_enable`).
   `ovsdb_if_intf_create` says "apply initial hw_enable state." and calls
   `pm_configure_port`, which returns for a QSFP port because `present` is still
   false; after the scan nothing calls it again. The laser stays on until
   `hw_intf_config` changes.
2. **A lost transaction loses pm_info** (`lost_info`). `module_info_changed`,
   "indicates db update is needed", is cleared before a commit whose result
   nobody looks at.
3. **A lost transaction loses cur_hw** (`lost_cur_hw`), the same way with
   `cur_hw_set`; the promise of `DESIGN.md` is broken for the life of the
   process.
4. **Removal is not detected** (`removal`). The branch is disabled by
   `&& false`; `DESIGN.md` and the tests say otherwise. An exchanged module is
   not noticed for the same reason.
5. **A port does not follow its interface to another subsystem** (`handover`).
   `DESIGN.md` says that the daemon reads the "name of the subsystem this Interface is
   a member of", and that it enables and disables the laser as the database requests.
   `ovsdb_if_subsys_process` finds the port by name and leaves it as it is, so it goes
   on reading and switching the cage of the subsystem that it was made for; the laser
   in the cage that the new subsystem gives for the interface is never switched. The
   port of a restarted process is bound to the new cage. What does hold
   (`SfpLaserFollowsRow`, `LaserMovesTowardsRow`) is said of the cage that the port is
   bound to.
6. **The lock does not cover the lasers** (`split`). `pmd_run` checks the lock
   before `pmd_reconfigure` and says that a second process is "disabling this
   process"; one that loses the lock after the check still writes over i2c, after
   the new owner has. There is a second route, seen when the lock is revoked only
   from an idle process: a process that gets the lock back compares the row with
   its own `port->hw_enable`, finds no change, and leaves the register as the
   other process set it. When the lock passes on only by the end of its owner
   neither happens (`takeover`).

Observed while reading, not checked by a run:

* a failed read of the serial ID is final: the branch that retries
  (`src/plug.c:307`) is disabled by `&& false`, the zeroed buffer is parsed as a
  module and published, and the port is not read again;
* a DAC is identified as `SFP_SR` (`src/pm_detect.c:179`, `:249`), where
  `tests/test_pmd.py` expects a DAC;
* DOM data is never read (`src/plug.c:363`). Behind that return,
  `SET_FLOAT_STRING` keeps a text whose whole part equals the new value (3.99
  stays when the value becomes 3); the fraction of a temperature is lost in an
  integer division; its sign depends on whether plain `char` is signed; and the
  temperature and voltage flags of a QSFP page reach no column.
  `ColumnsDescribePage` bounds what the first two can do: less than one unit;
* the comment at `src/config.c:193` says that the application is going to abort on
  a YAML error, and it does not;
* `poll_timer_wait_at` takes a point in time and gets the interval `PM_INTERVAL`,
  which is in the past, so the loop does not pause between two scans;
* in the simulation build the first scan copies from `module_data` while it is
  still NULL (`src/plug.c:174`).

## 5. Proofs

All theorems hold for every value of the constants that satisfies the named
assumptions (`DeviceAssumption`, `ConnectorAssumption`, `EepromAssumption`, ...:
each constant has its type, `Empty`, `NoUuid` and `NoSub` are not elements of the
sets they complement, and a cage has one name, `OneNamePerCage`), for any number of
interfaces, subsystems, cages, modules and environment steps. Those that restrict
the faults say so.

### One process, every fault

`PmdTypeProofs`, `PmdProofs`, `PmdRefinementProofs`, and `LoopRests` in
`PmdLockProofs`:

| theorem | statement |
|---|---|
| `TypeCorrect` | `Spec => []TypeOK` |
| `Inductive` | `Spec => []IInv` |
| `PortsMirrorRows` | `Spec => []PortMirrorsRow` |
| `PortsForAllRows` | `Spec => []PortForEveryRow` |
| `SfpLasersFollow` | `Spec => []SfpLaserFollowsRow` |
| `QuietPortsPublished` | `Spec => []QuietPortIsPublished` |
| `LasersMoveTowardsRows` | `Spec => LaserMovesTowardsRow` |
| `LoopInvariant` | `Spec => []LoopInv` |
| `CurHwComesLast` | `Spec => CurHwAfterModules` |
| `DaemonImplementsService` | `Spec => ImplementsService` |
| `LoopRests` | `Spec => SettledStaysSettled` |

None of the safety properties is inductive alone. `IInv` adds what they rest on:

* `TablesConsistent`, for server and replica: a listed interface has a uuid and
  its subsystem exists. Without it a port could be demanded for a row that is
  not there.
* `PortsMirrorReplica`, `PortsComplete`: the properties stated without `Synced`,
  as "unless `seqnoMoved`". This is where the argument about the sequence number
  lives: a replica that changes sets it, and only a pass clears it.
* `YamlLoaded`: the handle has all described ports of a known subsystem whose
  files were read; needed because a known subsystem is not read again.
* `SfpRegister`: the register of the SFP+ cage that a port is bound to agrees with
  `port.hw_enable`. The row is compared with the port and the port with the
  register; a direct comparison does not survive `IdlRun`. A pass writes to the
  cages of the ports that it makes or modifies (`ConfigureEffect`), no two of which
  are the same (`CagesApart`, from `OneNamePerCage`), and a port that it does neither
  to keeps its cage, which no other port writes to. Moving a port to the cage of its
  new subsystem without a write would break exactly this conjunct.
* `TxnOnlyAtCommit` and `QuietPortIsPublished`: between assembly and commit the
  rows of the transaction are excepted; outside, there is none.

`LoopInv` orders the phases: when the update starts every port has been scanned,
and when the commit starts every changed row is in the transaction. From it
follows `CurHwComesLast`.

The proof of each part has one step for each action of the daemon and a common
lemma for the environment, which does not touch the daemon's memory.

*The refinement* (`PmdRefinementProofs`). Each action of the daemon is one step of
the service or a stutter: `IdlRun` is `Look`; `Reconfigure` is `Serve`; `Scan` and
`Update` change nothing that the service has; `Commit` is `Report` or `Lose`; the
end of the process is `Stop`. `Serve` needs `PortsComplete` and `SfpRegister` after
the step, and that a switched laser is that of the cage of a live port
(`ReconfigureLasers`). `Report` needs
`LoopInv` for the order of announcement and reports, and one more invariant,
`TxnRowsLive`: the rows of an open transaction are those of live ports.

`LoopRests` goes phase by phase through the loop: in a settled state the replica
is the database, so `IdlRun` leaves the sequence number alone and a pass has
nothing to do; a scan skips a port that is present and not marked for a retry; no
row is put in the transaction. It holds although i2c transfers may fail and
transactions may be refused, because none with any effect is attempted.

### One process, which faults matter

`PmdLockProofs` answers what findings 2 and 3 leave open: is the ignored result of
the commit the only defect, or one of several ways to the same symptom?

| theorem | excluded faults | statement |
|---|---|---|
| `LockHeld` | lock | `Spec => []LockInv` |
| `FlagsTellWithoutLoss` | lock, commit | `Spec => []FlagTellsUpdateNeeded` |
| `CurHwFlagWithoutLoss` | lock, commit | `Spec => []CurHwFlagIsTrue` |

`LockInv` says that every phase behind the check of the lock runs with the lock
held, and that a process that has not seen the lock is blank. So the commit finds
the lock and, without commit failures, succeeds; nothing is ever lost
(`NothingLost`), and the exceptions of `QuietPortIsPublished` are empty between
runs. Crashes, YAML errors and i2c errors stay allowed: a refused transaction is
the only way to either finding.

### Two processes

`PmdFailoverProofs` and `PmdPairProofs`. Under every fault, a stolen lock included:

| theorem | statement |
|---|---|
| `PairInductive` | `FailoverSpec => []PairInv` |
| `PairPortsMirrorRows` | `FailoverSpec => []PortMirrorsRow` |
| `PairPortsForAllRows` | `FailoverSpec => []PortForEveryRow` |
| `PairLasersMoveTowardsRows` | `FailoverSpec => LaserMovesTowardsRow` |

When the lock passes on only with the end of its owner (`"lock" \notin Faults`):

| theorem | statement |
|---|---|
| `KeptInductive` | `FailoverSpec => []KeptInv` |
| `StandbysAreBlank` | `FailoverSpec => []StandbyIsBlank` |
| `PairSfpLasersFollow` | `FailoverSpec => []SfpLaserFollowsRow` |
| `OwnerLasersFollow` | `FailoverSpec => []OwnerLaserFollowsRow` |
| `PairQuietPortsPublished` | `FailoverSpec => []QuietPortIsPublished` |
| `PairCurHwComesLast` | `FailoverSpec => CurHwAfterModules` |
| `PairIsOneService` | `FailoverSpec => PairImplementsService` |

The line between the tables is the line around finding 6: `split` refutes
`OwnerLaserFollowsRow` with a stolen lock, and the second table shows that it needs
one. `PairLasersMoveTowardsRows` says what is left with a stolen lock: a process
never acts against its own replica, so a wrong laser is the work of an old replica
or of a write that was skipped.

The argument. The conjuncts of `IInv` fall into two groups. Those of `SoloInv`
are about one process and the tables; no step of the peer can disturb them, and
`PairInv` is `SoloInv` for both. `SfpRegister` and `QuietPortIsPublished` relate a
process to the hardware and to the reports, which both processes write. They
survive a step of the peer because of `LockInv`: if a process has anything that
could be disturbed, it has the lock, hence the other one is at the start of its
loop (`PeerWaits`), where it writes neither (`WaitingStep`); what happens then comes
from the environment, which takes a report away only together with the uuid of its
row. `KeptInv` is `IInv`, `LoopInv`, `TxnRowsLive` and `LockInv` for both processes
and that at most one owns the lock. `Switch` exchanges the two halves, and the
lemmas `SwitchSolo` and `SwitchServing` show that the formula over `other` is the
same formula. TLC checked `PairInv` and `KeptInv` on the instance of `takeover`,
the former with the faults lock, crash, yaml and commit, before they were proved.

For the refinement, a step falls into one of five cases by the lock. With the lock
before and after, the peer is blank, both mappings have the same values
(`ViewWithLock`), and the step is that of `DaemonImplementsService`. Losing
`has_lock` is the end of the process and is `Stop`; gaining it is `IdlRun` and is
`Look`; without it before and after, the process is blank at both ends and only
the environment can be seen. `Switch` is a stutter.

### DOM

`PmDomProofs`, for every set of pages and every size of a page:

| theorem | statement |
|---|---|
| `DomInductive` | `DomSpec => [](DomInv /\ ColumnsDescribePage)` |
| `DomTypes` | `DomSpec => []DomTypeOK` |
| `ColumnsFaithful` | `DomSpec => []ColumnsDescribePage` |
| `HexNeverOverflows` | `DomSpec => []HexFits` |
| `HexComplete` | `DomSpec => []HexLayout` |

`HexInv` says that the next cell is a function of the next byte (`j` is
`2 i + (i - 1) \div 4` from the first byte on) and that all cells before it are
written as `HexLayout` wants them. From the first half follows that the buffer is
large enough, from the second the layout. `ShapeInv` says what an old text can
be: a temperature is a whole number of degrees, and nothing else is negative.
Without it a kept text could be further off than one unit, since `strtol` truncates
towards zero.

### Only model-checked

The liveness properties of the run `liveness`, whose proofs need ENABLED and
fairness, and the counterexamples of section 4.

## 6. Not modelled, and the plan

Not modelled:

* the simulation build (`PLATFORM_SIMULATION`), off by default: it replaces the
  hardware by structures of its own, and its presence check is disabled by the
  same conditions;
* the dump command, option parsing, memory management, logging: no state that
  anything else reads;
* the vendor strings (`pm_oui_format`, the stripping loops): one opaque tag;
* a port whose connector is none of SFP_PLUS, QSFP_PLUS and QSFP28
  (`ConnectorAssumption`), although `ovsdb_if_intf_create` asks only whether it is
  pluggable. `pm_read_module_state` returns -1 for it before it has read or changed
  anything (`src/plug.c:275`), on every scan, so that it is never present and never
  published, and `pm_configure_port` treats it as an SFP+ cage. This is the only
  port for which `pm_parse` would fail, and it is not called for it; hence `retry` is
  never true in the compiled code, nor in the model;
* the split of a QSFP port (`split` is never set);
* code without callers: `sfpp_sum_verify`, `pm_create_a2_devices`, and
  `pm_reset_port`, which only disabled branches call.

Plan: every safety property that a run confirms is proved, for one process and, where
it holds, for two. What remains is to say more:

* which part of the other findings is left without their cause: `EventuallyLaser`
  where no interface changes its subsystem, as a safety property for any number of
  subsystems, and for a QSFP module the part of `QsfpLaserFollowsRow` that holds
  once `hw_intf_config` has changed while the module was present;
* what is left of `QuietPortIsPublished` for two processes with a stolen lock, where
  one may overwrite the report of the other;
* what `pm_parse` never publishes (a connector and a status that contradict each
  other), as lemmas over every serial ID page.
