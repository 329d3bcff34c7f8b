---------------------------- MODULE DriverService ----------------------------
(***************************************************************************)
(* What the user-mode program acts on: the kernel driver service as the    *)
(* service control manager keeps it, and the snapshots the loaded driver   *)
(* holds.  The snapshots behave as the store of module SnapshotStore; here *)
(* each is known by its generation, a number that says which create        *)
(* request made it, and what was seen is left out.                         *)
(*                                                                         *)
(* The service manager is external: its operations are modelled from how   *)
(* scm_windows.go uses them and which of its errors it expects.            *)
(***************************************************************************)
EXTENDS Naturals

CONSTANT MaxGen \* bound: the create requests of one behaviour

ASSUME MaxGenNat == MaxGen \in Nat

VARIABLES
  svc,   \* the service; marked: deleted but its driver still runs
  drv,   \* the driver's snapshots, by generation, 0 for none
  nextGen \* the generation of the last create request

driverVars == <<svc, drv, nextGen>>

\* What entries belong to: a current snapshot, and the baseline it is
\* compared with.
Gen == [base : 0 .. MaxGen, cur : 0 .. MaxGen]

NoGen == [base |-> 0, cur |-> 0]

\* diffed: whether the diff of the two could be rebuilt.
NoSnapshots == [base |-> 0, cur |-> 0, diffed |-> FALSE]

DriverInit ==
  /\ svc = "absent"
  /\ drv = NoSnapshots
  /\ nextGen = 0

\* The device can be opened: a driver that is stopping refuses it.
Loaded == svc \in {"running", "marked"}

-----------------------------------------------------------------------------
(***************************************************************************)
(* The service                                                             *)
(***************************************************************************)

\* Install: CreateService, or UpdateConfig of the service that is there.
InstallService ==
  /\ svc # "marked"
  /\ svc' = IF svc = "absent" THEN "stopped" ELSE svc
  /\ UNCHANGED <<drv, nextGen>>

\* Start: a running driver is as good as a started one.
StartService ==
  /\ svc \in {"stopped", "running"}
  /\ svc' = "running"
  /\ drv' = IF svc = "running" THEN drv ELSE NoSnapshots
  /\ UNCHANGED nextGen

(***************************************************************************)
(* Stop of a service that can be opened.  A stop that succeeds has         *)
(* unloaded the driver; one that times out leaves a driver that refuses to *)
(* be opened and unloads some time later.  A service marked for deletion   *)
(* goes with its driver.                                                   *)
(***************************************************************************)
StopService ==
  /\ svc # "absent"
  /\ svc' = IF svc = "marked" THEN "absent" ELSE "stopped"
  /\ drv' = NoSnapshots
  /\ UNCHANGED nextGen

StopTimesOut ==
  /\ svc = "running"
  /\ svc' = "stopping"
  /\ UNCHANGED <<drv, nextGen>>

StopsLate ==
  /\ svc = "stopping"
  /\ svc' = "stopped"
  /\ drv' = NoSnapshots
  /\ UNCHANGED nextGen

\* service.Delete: of a driver that runs (again) it only marks the service.
DeleteService ==
  /\ svc' = IF svc \in {"running", "marked"} THEN "marked" ELSE "absent"
  /\ UNCHANGED <<drv, nextGen>>

\* Opening a service that is marked for deletion may fail or not, and the
\* code takes the failure for a service that is not installed.
Unopened == svc \in {"absent", "marked"}

\* Query: the states it may report.
Reports == (IF Unopened THEN {"absent"} ELSE {svc})
             \cup (IF svc = "marked" THEN {"running"} ELSE {})

-----------------------------------------------------------------------------
(***************************************************************************)
(* The device requests that change the driver, each atomic but for the     *)
(* scan that comes between drawing the snapshot id and the commit.         *)
(***************************************************************************)

DrawGen ==
  /\ nextGen < MaxGen
  /\ nextGen' = nextGen + 1
  /\ UNCHANGED <<svc, drv>>

CommitBaseline(gen) ==
  /\ drv' = [base |-> gen, cur |-> 0, diffed |-> FALSE]
  /\ UNCHANGED <<svc, nextGen>>

CommitCurrent(gen, rebuilt) ==
  /\ drv' = [drv EXCEPT !.cur = gen, !.diffed = rebuilt]
  /\ UNCHANGED <<svc, nextGen>>

\* What the driver's diff and its current snapshot are of.
CurrentGen == IF drv.cur = 0 THEN NoGen ELSE [base |-> drv.base, cur |-> drv.cur]

DiffGen == IF drv.diffed THEN CurrentGen ELSE NoGen

=============================================================================
