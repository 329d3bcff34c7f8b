----------------------------- MODULE PoolSession -----------------------------
(***************************************************************************)
(* One run of the terminal program (internal/tui, internal/device,         *)
(* internal/scm and main.go) as an elevated user: keys start commands,     *)
(* commands run as goroutines side by side, each device request and each   *)
(* stop under deviceHandleMu, and a command's message is handled some time *)
(* after the command is done.  On exit main cleans up once more.           *)
(*                                                                         *)
(* A command in flight occupies a slot; what it has fetched so far is in   *)
(* the slot, and "sent" means that its message waits to be handled.        *)
(***************************************************************************)
EXTENDS DriverService, FiniteSets

CONSTANTS
  Slots,   \* commands in flight at the same time: a bound of the model
  Main,    \* main.go's own cleanup, after the program
  NoActor, \* the holder of a free mutex
  Patient, \* whether every command is answered before the next key, or the end
  Used     \* the commands the user makes use of: a bound of the model

ASSUME ActorsAreDistinct == Main \notin Slots /\ NoActor \notin Slots \cup {Main}
ASSUME PatientIsBoolean == Patient \in BOOLEAN
ASSUME UsedAreCommands ==
  Used \subseteq {"start", "stop", "baseline", "current", "diff", "entries",
                  "dump", "pte", "search"}

VARIABLES
  app,   \* running, cleanup (the program is gone, main cleans up), exited
  mutex, \* deviceHandleMu
  cmd,   \* per actor: its command
  ui     \* the Model's fields that decide what the keys do

sessionVars == <<app, mutex, cmd, ui>>
vars == <<driverVars, sessionVars>>

Actors == Slots \cup {Main}

(***************************************************************************)
(* A command: its kind, the step it is at, the generation a create drew,   *)
(* the diff and the current entries it has read, and whether all went well *)
(***************************************************************************)
NoCmd == [kind |-> "none", at |-> "none", gen |-> 0,
          diff |-> NoGen, cur |-> NoGen, report |-> "none", ok |-> TRUE]

Command(kind, at) == [NoCmd EXCEPT !.kind = kind, !.at = at]

Free == {s \in Slots : cmd[s] = NoCmd}

InFlight == Slots \ Free

(***************************************************************************)
(* The Model.  ready stands for diffReady and base # 0 for baselineReady;  *)
(* diff, cur and panel remember which snapshots the diff table, the        *)
(* current table and the detail panels show the entries of; connected is   *)
(* m.ping # nil, with deviceText following it.                             *)
(***************************************************************************)
Panels == {"dump", "pte", "search"}

NoPanels == [p \in Panels |-> NoGen]

InitUi == [status |-> "unknown", connected |-> FALSE, busy |-> "no",
           input |-> FALSE, base |-> 0, ready |-> FALSE,
           diff |-> NoGen, cur |-> NoGen, panel |-> NoPanels]

HasDriverStarted == ui.connected \/ ui.status = "running"

\* The commands of a program that has just started.
FirstCommands ==
  {[a \in Actors |-> IF a = s THEN Command("status", "query") ELSE NoCmd] :
     s \in Slots}

Init ==
  /\ DriverInit
  /\ app = "running"
  /\ mutex = NoActor
  /\ ui = InitUi
  /\ cmd \in FirstCommands

-----------------------------------------------------------------------------
(***************************************************************************)
(* Keys                                                                    *)
(***************************************************************************)

CanStart == app = "running" /\ Free # {} /\ (Patient => InFlight = {})

Launch(command, model) ==
  /\ \E s \in Free : cmd' = [cmd EXCEPT ![s] = command]
  /\ ui' = [model EXCEPT !.busy = "working"]
  /\ UNCHANGED <<driverVars, app, mutex>>

\* A key that starts a command, outside the search box and a shutdown.
Key(command) ==
  /\ CanStart
  /\ command.kind \in Used
  /\ ~ui.input
  /\ ui.busy # "unloading driver"
  /\ Launch(command, ui)

\* The answer to a start needs a second slot: there is one that is not
\* taken by another start.
KeyStart ==
  /\ ~HasDriverStarted
  /\ Cardinality(Free) >= 2
  /\ Key(Command("start", "install"))

KeyStop == Key(Command("stop", "lock"))

KeyBaseline == HasDriverStarted /\ Key(Command("baseline", "create"))

KeyCurrent ==
  HasDriverStarted /\ ui.base # 0 /\ Key(Command("current", "create"))

KeyReloadDiff == ui.ready /\ Key(Command("diff", "diffCount"))

\* tab, to a current table that has nothing yet.
KeyTable ==
  ui.ready /\ ui.cur = NoGen /\ Key(Command("entries", "curCount"))

\* enter and x, or d, on a row of one of the tables; g on a search result.
KeyDump ==
  /\ ui.ready
  /\ \/ \E row \in {ui.diff, ui.cur} \ {NoGen}, kind \in {"dump", "pte"} :
          Key([Command(kind, "read") EXCEPT !.diff = row])
     \/ /\ ui.panel["search"] # NoGen
        /\ Key([Command("dump", "read") EXCEPT !.diff = ui.panel["search"]])

\* [ and ] in a dump.
KeyDumpPage ==
  /\ ui.panel["dump"] # NoGen
  /\ Key([Command("dump", "read") EXCEPT !.diff = ui.panel["dump"]])

\* /, h and u open the search box; esc leaves it.
KeyInput ==
  /\ app = "running"
  /\ "search" \in Used
  /\ Patient => InFlight = {}
  /\ \/ ~ui.input /\ ui.ready /\ ui.busy # "unloading driver"
     \/ ui.input
  /\ ui' = [ui EXCEPT !.input = ~ui.input]
  /\ UNCHANGED <<driverVars, app, mutex, cmd>>

\* enter in the search box asks for nothing but the box to be open.
KeySearch ==
  /\ CanStart
  /\ ui.input
  /\ Launch(Command("search", "search"), [ui EXCEPT !.input = FALSE])

\* q, or ctrl+c from anywhere: beginShutdown.
KeyQuit ==
  /\ CanStart
  /\ ui.busy # "unloading driver"
  /\ \E s \in Free : cmd' = [cmd EXCEPT ![s] = Command("shutdown", "lock")]
  /\ ui' = [ui EXCEPT !.busy = "unloading driver", !.input = FALSE]
  /\ UNCHANGED <<driverVars, app, mutex>>

\* esc closes one detail panel, in this order.
KeyEscape ==
  /\ app = "running"
  /\ ~ui.input
  /\ ui.busy # "unloading driver"
  /\ \E p \in Panels :
       /\ ui.panel[p] # NoGen
       /\ p \in {"pte", "search"} => ui.panel["dump"] = NoGen
       /\ p = "search" => ui.panel["pte"] = NoGen
       /\ ui' = [ui EXCEPT !.panel[p] = NoGen]
  /\ UNCHANGED <<driverVars, app, mutex, cmd>>

Keys ==
  \/ KeyStart \/ KeyStop \/ KeyBaseline \/ KeyCurrent \/ KeyReloadDiff
  \/ KeyTable \/ KeyDump \/ KeyDumpPage \/ KeyInput \/ KeySearch \/ KeyQuit \/ KeyEscape

-----------------------------------------------------------------------------
(***************************************************************************)
(* Device requests.  ioctlRaw opens the device under deviceHandleMu and    *)
(* lets go of both before it returns.                                      *)
(***************************************************************************)

\* a's command goes on to step to, having learnt what is in got.
Advance(a, to, got) == cmd' = [cmd EXCEPT ![a] = [got EXCEPT !.at = to]]

Sends(a, got) == Advance(a, "sent", got)

Failed(c) == [c EXCEPT !.ok = FALSE]

\* A request that is one step of the driver.
Ioctl(a, at, to, got) ==
  /\ cmd[a].at = at
  /\ mutex = NoActor
  /\ Loaded
  /\ Advance(a, to, got)
  /\ UNCHANGED <<driverVars, app, mutex, ui>>

IoctlSteps ==
  {"create", "diffCount", "diffEntries", "curCount", "curEntries", "read",
   "search", "ping"}

\* The device cannot be opened, or the driver fails the request.
IoctlFails(a) ==
  /\ cmd[a].at \in IoctlSteps
  /\ mutex = NoActor
  /\ Sends(a, Failed(cmd[a]))
  /\ UNCHANGED <<driverVars, app, mutex, ui>>

\* Mutant of Create: the request does not wait for the others.
CreateUnserialised(a) ==
  /\ cmd[a].at = "create"
  /\ Loaded
  /\ mutex' = a
  /\ DrawGen
  /\ Advance(a, "commit", [cmd[a] EXCEPT !.gen = nextGen'])
  /\ UNCHANGED <<app, ui>>

\* CreateBaseline and CreateCurrent keep the device while the driver scans.
Create(a) ==
  /\ cmd[a].at = "create"
  /\ mutex = NoActor
  /\ Loaded
  /\ mutex' = a
  /\ DrawGen
  /\ Advance(a, "commit", [cmd[a] EXCEPT !.gen = nextGen'])
  /\ UNCHANGED <<app, ui>>

CreateFails(a) ==
  /\ cmd[a].at = "commit"
  /\ mutex' = NoActor
  /\ Sends(a, Failed(cmd[a]))
  /\ UNCHANGED <<driverVars, app, ui>>

BaselineCommit(a) ==
  /\ cmd[a].at = "commit"
  /\ cmd[a].kind = "baseline"
  /\ CommitBaseline(cmd[a].gen)
  /\ mutex' = NoActor
  /\ Sends(a, cmd[a])
  /\ UNCHANGED <<app, ui>>

CurrentCommit(a) ==
  /\ cmd[a].at = "commit"
  /\ cmd[a].kind = "current"
  /\ CommitCurrent(cmd[a].gen, TRUE)
  /\ mutex' = NoActor
  /\ Advance(a, "diffCount", cmd[a])
  /\ UNCHANGED <<app, ui>>

\* The driver has the new current snapshot and fails the request.
CurrentCommitWithoutDiff(a) ==
  /\ cmd[a].at = "commit"
  /\ cmd[a].kind = "current"
  /\ CommitCurrent(cmd[a].gen, FALSE)
  /\ mutex' = NoActor
  /\ Sends(a, Failed(cmd[a]))
  /\ UNCHANGED <<app, ui>>

(***************************************************************************)
(* entriesRequest: the count in one request and, unless it is zero, the    *)
(* entries in another.  currentCmd goes on from the diff to the current    *)
(* snapshot's entries.                                                     *)
(***************************************************************************)
AfterDiff(a) == IF cmd[a].kind = "current" THEN "curCount" ELSE "sent"

DiffCount(a) ==
  Ioctl(a, "diffCount", IF DiffGen = NoGen THEN AfterDiff(a) ELSE "diffEntries",
        cmd[a])

DiffEntries(a) ==
  Ioctl(a, "diffEntries", AfterDiff(a), [cmd[a] EXCEPT !.diff = DiffGen])

CurrentCount(a) ==
  Ioctl(a, "curCount", IF CurrentGen = NoGen THEN "sent" ELSE "curEntries", cmd[a])

CurrentEntries(a) ==
  Ioctl(a, "curEntries", "sent", [cmd[a] EXCEPT !.cur = CurrentGen])

\* READ_CONTENT and PTE_DETAILS need the address in the diff or the current.
Read(a) == drv.cur # 0 /\ Ioctl(a, "read", "sent", cmd[a])

\* SEARCH_CONTENT goes through the driver's diff or its current snapshot.
Search(a) ==
  \E target \in {DiffGen, CurrentGen} :
    Ioctl(a, "search", "sent", [cmd[a] EXCEPT !.diff = target])

Ping(a) == Ioctl(a, "ping", "sent", cmd[a])

Device(a) ==
  \/ IoctlFails(a)
  \/ Create(a) \/ CreateFails(a)
  \/ BaselineCommit(a) \/ CurrentCommit(a) \/ CurrentCommitWithoutDiff(a)
  \/ DiffCount(a) \/ DiffEntries(a) \/ CurrentCount(a) \/ CurrentEntries(a)
  \/ Read(a) \/ Search(a) \/ Ping(a)

-----------------------------------------------------------------------------
(***************************************************************************)
(* Service commands.  A stop, a shutdown and main's cleanup hold           *)
(* deviceHandleMu throughout (RunWithoutOpenHandles); a start does not.    *)
(***************************************************************************)

QueryStatus(a) ==
  /\ cmd[a].at = "query"
  /\ \E state \in Reports : Sends(a, [cmd[a] EXCEPT !.report = state])
  /\ UNCHANGED <<driverVars, app, mutex, ui>>

\* A step that does not need deviceHandleMu fails.
UnlockedStepFails(a) ==
  /\ cmd[a].at \in {"query", "install", "start"}
  /\ Sends(a, Failed(cmd[a]))
  /\ UNCHANGED <<driverVars, app, mutex, ui>>

Install(a) ==
  /\ cmd[a].at = "install"
  /\ InstallService
  /\ Advance(a, "start", cmd[a])
  /\ UNCHANGED <<app, mutex, ui>>

\* The wait for the running state may fail all the same.
Start(a) ==
  /\ cmd[a].at = "start"
  /\ StartService
  /\ \E ok \in BOOLEAN : Sends(a, [cmd[a] EXCEPT !.ok = ok])
  /\ UNCHANGED <<app, mutex, ui>>

\* Mutant of Lock: a stop runs without deviceHandleMu.
LockSkipped(a) ==
  /\ cmd[a].at = "lock"
  /\ mutex' = a
  /\ Advance(a, IF cmd[a].kind = "stop" THEN "stop" ELSE "queryFirst", cmd[a])
  /\ UNCHANGED <<driverVars, app, ui>>

\* RunWithoutOpenHandles waits for the mutex.
Lock(a) ==
  /\ cmd[a].at = "lock"
  /\ mutex = NoActor
  /\ mutex' = a
  /\ Advance(a, IF cmd[a].kind = "stop" THEN "stop" ELSE "queryFirst", cmd[a])
  /\ UNCHANGED <<driverVars, app, ui>>

\* What a step under the mutex ends with.
Unlock(a, got) == Sends(a, got) /\ mutex' = NoActor

\* StopAndDelete asks first, and has nothing to do without a service.
QueryFirst(a) ==
  /\ cmd[a].at = "queryFirst"
  /\ \/ "absent" \in Reports /\ Unlock(a, cmd[a])
     \/ Reports # {"absent"} /\ Advance(a, "stop", cmd[a]) /\ UNCHANGED mutex
  /\ UNCHANGED <<driverVars, app, ui>>

\* Delete: Stop, and nothing more when it finds no service.
StopFindsNone(a) ==
  /\ cmd[a].at = "stop"
  /\ Unopened
  /\ Unlock(a, cmd[a])
  /\ UNCHANGED <<driverVars, app, ui>>

\* Mutant of Stop: the driver is stopped, as UnloadIfRunning does, and the
\* service left.
StopOnly(a) ==
  /\ cmd[a].at = "stop"
  /\ StopService
  /\ Unlock(a, cmd[a])
  /\ UNCHANGED <<app, ui>>

Stop(a) ==
  /\ cmd[a].at = "stop"
  /\ StopService
  /\ Advance(a, "delete", cmd[a])
  /\ UNCHANGED <<app, mutex, ui>>

Delete(a) ==
  /\ cmd[a].at = "delete"
  /\ DeleteService
  /\ Unlock(a, cmd[a])
  /\ UNCHANGED <<app, ui>>

\* Mutant of LockedStepFails: an error return keeps the mutex.
LockedStepFailsLocked(a) ==
  /\ cmd[a].at \in {"queryFirst", "stop", "delete"}
  /\ \/ UNCHANGED driverVars
     \/ cmd[a].at = "stop" /\ StopTimesOut
  /\ Sends(a, Failed(cmd[a]))
  /\ UNCHANGED <<app, mutex, ui>>

LockedStepFails(a) ==
  /\ cmd[a].at \in {"queryFirst", "stop", "delete"}
  /\ \/ UNCHANGED driverVars
     \/ cmd[a].at = "stop" /\ StopTimesOut
  /\ Unlock(a, Failed(cmd[a]))
  /\ UNCHANGED <<app, ui>>

Service(a) ==
  \/ QueryStatus(a) \/ UnlockedStepFails(a)
  \/ Install(a) \/ Start(a)
  \/ Lock(a) \/ QueryFirst(a) \/ StopFindsNone(a) \/ Stop(a) \/ Delete(a)
  \/ LockedStepFails(a)

\* One step of the goroutine that runs a's command.  A request the driver
\* works on it finishes even for a process that has ended.
Step(a) ==
  /\ app = "exited" => cmd[a].at = "commit"
  /\ Device(a) \/ Service(a)

-----------------------------------------------------------------------------
(***************************************************************************)
(* Messages: Update's cases.  Every one of them makes the program not busy *)
(***************************************************************************)

\* The message of slot s, which is a kind one, makes the Model model and
\* the commands commands.
Message(s, kind, ok, model, commands) ==
  /\ app = "running"
  /\ cmd[s].kind = kind
  /\ cmd[s].at = "sent"
  /\ cmd[s].ok = ok
  /\ ui' = [model EXCEPT !.busy = "no"]
  /\ cmd' = commands
  /\ UNCHANGED <<driverVars, app, mutex>>

Done(s) == [cmd EXCEPT ![s] = NoCmd]

\* The error of most commands is only logged.
ErrorMessage(s) ==
  \E kind \in {"baseline", "current", "diff", "entries", "shutdown"} \cup Panels :
    Message(s, kind, FALSE, ui, Done(s))

\* Mutant of StatusMessage: the error is not looked at.
StatusMessageUnchecked(s) ==
  \E ok \in BOOLEAN :
    Message(s, "status", ok, [ui EXCEPT !.status = cmd[s].report], Done(s))

StatusMessage(s) ==
  \E ok \in BOOLEAN :
    Message(s, "status", ok,
            [ui EXCEPT !.status = IF ok THEN cmd[s].report ELSE "unknown"], Done(s))

PingMessage(s) ==
  \E ok \in BOOLEAN : Message(s, "ping", ok, [ui EXCEPT !.connected = ok], Done(s))

\* The status is asked for once more, and after a start the driver as well.
Requery(s) == [cmd EXCEPT ![s] = Command("status", "query")]

StartMessage(s) ==
  \E spare \in Free :
    Message(s, "start", TRUE, ui,
            [Requery(s) EXCEPT ![spare] = Command("ping", "ping")])

\* clearSnapshotState
Cleared(model) ==
  [model EXCEPT !.base = 0, !.ready = FALSE, !.diff = NoGen, !.cur = NoGen,
                !.panel = NoPanels]

StopMessage(s) ==
  Message(s, "stop", TRUE, Cleared([ui EXCEPT !.connected = FALSE]), Requery(s))

ActionError(s) ==
  \E kind \in {"start", "stop"} : Message(s, kind, FALSE, ui, Requery(s))

\* Mutant of BaselineMessage: the detail panels are not cleared.
BaselineMessageKeepsPanel(s) ==
  Message(s, "baseline", TRUE,
          [Cleared(ui) EXCEPT !.base = cmd[s].gen, !.panel = ui.panel], Done(s))

\* The count of a baseline makes all that belonged to another one go.
BaselineMessage(s) ==
  Message(s, "baseline", TRUE, [Cleared(ui) EXCEPT !.base = cmd[s].gen], Done(s))

CurrentMessage(s) ==
  Message(s, "current", TRUE,
          [ui EXCEPT !.ready = TRUE, !.diff = cmd[s].diff, !.cur = cmd[s].cur,
                     !.panel = NoPanels], Done(s))

DiffMessage(s) ==
  Message(s, "diff", TRUE,
          [ui EXCEPT !.ready = TRUE, !.diff = cmd[s].diff, !.panel = NoPanels], Done(s))

EntriesMessage(s) ==
  Message(s, "entries", TRUE, [ui EXCEPT !.cur = cmd[s].cur], Done(s))

PanelMessage(s) ==
  \E kind \in Panels :
    Message(s, kind, TRUE, [ui EXCEPT !.panel[kind] = cmd[s].diff], Done(s))

\* Mutant of ShutdownMessage: the shutdown has removed the service, so main
\* has nothing to clean up.
ShutdownMessageIsAll(s) ==
  /\ app = "running"
  /\ cmd[s].kind = "shutdown"
  /\ cmd[s].at = "sent"
  /\ cmd[s].ok
  /\ app' = "cleanup"
  /\ ui' = InitUi
  /\ cmd' = [Done(s) EXCEPT ![Main] = Command("cleanup", "sent")]
  /\ UNCHANGED <<driverVars, mutex>>

\* tea.Quit: no message is handled any more, and main goes on to clean up
\* while what is left of the commands still runs.
ShutdownMessage(s) ==
  /\ app = "running"
  /\ cmd[s].kind = "shutdown"
  /\ cmd[s].at = "sent"
  /\ cmd[s].ok
  /\ app' = "cleanup"
  /\ ui' = InitUi
  /\ cmd' = [Done(s) EXCEPT ![Main] = Command("cleanup", "lock")]
  /\ UNCHANGED <<driverVars, mutex>>

Messages(s) ==
  \/ ErrorMessage(s) \/ StatusMessage(s) \/ PingMessage(s) \/ StartMessage(s)
  \/ StopMessage(s) \/ ActionError(s) \/ BaselineMessage(s) \/ CurrentMessage(s)
  \/ DiffMessage(s) \/ EntriesMessage(s) \/ PanelMessage(s) \/ ShutdownMessage(s)

-----------------------------------------------------------------------------
(***************************************************************************)
(* The end of the process                                                  *)
(***************************************************************************)

\* The program ends without a shutdown: a signal tells it to quit, or its Run
\* fails.  main cleans up all the same, and complains of a failure.
ProgramEnds ==
  /\ app = "running"
  /\ Patient => InFlight = {}
  /\ app' = "cleanup"
  /\ ui' = InitUi
  /\ \E main \in {Command("cleanup", "lock"), Failed(Command("cleanup", "lock"))} :
       cmd' = [cmd EXCEPT ![Main] = main]
  /\ UNCHANGED <<driverVars, mutex>>

Exit ==
  /\ app = "cleanup"
  /\ cmd[Main].at = "sent"
  /\ app' = "exited"
  /\ UNCHANGED <<driverVars, mutex, cmd, ui>>

\* The program is started once more, after its exit or after it was killed.
\* Nothing of it is kept, and a driver that was left running is found there.
\* A process does not go before a request it has in the driver.
Restart ==
  /\ \A a \in Actors : cmd[a].at # "commit"
  /\ app' = "running"
  /\ mutex' = NoActor
  /\ ui' = InitUi
  /\ cmd' \in FirstCommands
  /\ UNCHANGED driverVars

Next ==
  \/ Keys
  \/ \E a \in Actors : Step(a)
  \/ \E s \in Slots : Messages(s)
  \/ StopsLate /\ UNCHANGED sessionVars
  \/ ProgramEnds
  \/ Exit
  \/ Restart

Spec == Init /\ [][Next]_vars

(***************************************************************************)
(* A goroutine that can go on does, and one that waits for the mutex gets  *)
(* it: Go's sync.Mutex hands itself to a waiter that has starved for 1 ms. *)
(* The program handles the messages it is sent and main runs to its end.   *)
(***************************************************************************)
FairSpec ==
  /\ Spec
  /\ \A a \in Actors : SF_vars(Step(a))
  /\ \A s \in Slots : SF_vars(Messages(s))
  /\ WF_vars(Exit)

-----------------------------------------------------------------------------
(***************************************************************************)
(* Properties                                                              *)
(***************************************************************************)

Kinds == {"none", "status", "ping", "start", "stop", "baseline", "current",
          "diff", "entries", "shutdown", "cleanup"} \cup Panels

Steps == IoctlSteps \cup
  {"none", "commit", "query", "install", "start", "lock", "queryFirst", "stop",
   "delete", "sent"}

States == {"absent", "stopped", "running", "stopping"}

\* Every variable has the values the program can give it.
TypeOK ==
  /\ svc \in States \cup {"marked"}
  /\ drv \in [base : 0 .. MaxGen, cur : 0 .. MaxGen, diffed : BOOLEAN]
  /\ nextGen \in 0 .. MaxGen
  /\ app \in {"running", "cleanup", "exited"}
  /\ mutex \in Actors \cup {NoActor}
  /\ cmd \in [Actors ->
              [kind : Kinds, at : Steps, gen : 0 .. MaxGen, diff : Gen, cur : Gen,
               report : States \cup {"none"}, ok : BOOLEAN]]
  /\ ui \in [status : States \cup {"unknown"}, connected : BOOLEAN,
             busy : {"no", "working", "unloading driver"}, input : BOOLEAN,
             base : 0 .. MaxGen, ready : BOOLEAN, diff : Gen, cur : Gen,
             panel : [Panels -> Gen]]

\* However fast the keys are, a snapshot the driver compares was taken after
\* the baseline it is compared with: deviceHandleMu keeps one create from
\* committing between another's draw of its number and its commit.
CurrentLaterThanBaseline == drv.cur # 0 => drv.base < drv.cur

\* The driver is not unloaded under a request that it is working on: a stop
\* holds deviceHandleMu until the service is stopped.
DriverStaysWhileCommitting ==
  \A a \in Actors : cmd[a].at = "commit" => Loaded

\* A program that ends without complaint has removed the driver service, if
\* its user waited for every answer: main's cleanup does what a shutdown
\* whose service came back, or stopped late, has left.
ExitCleansUp == app = "exited" /\ cmd[Main].ok => svc = "absent"

\* However fast the keys are, a program that ends without complaint, with no
\* start under way, leaves no service that would stay: main's cleanup waits
\* for what holds deviceHandleMu and removes the service whatever was asked
\* for during the shutdown.  (A start between a stop and its delete can leave
\* a driver whose service is marked for deletion.)
ExitLeavesNoService ==
  /\ app = "exited"
  /\ cmd[Main].ok
  /\ \A s \in Slots : cmd[s].kind # "start"
  => svc \in {"absent", "marked"}

\* What the program shows of the driver's snapshots.
Shown == ({ui.diff, ui.cur} \cup {ui.panel[p] : p \in Panels}) \ {NoGen}

\* After baseline was captured again nothing is shown that was compared with
\* a baseline before it.
NothingShownOfAnOlderBaseline == \A g \in Shown : g.base = 0 \/ g.base >= ui.base

\* c captures a current snapshot only in a driver that has a baseline to
\* compare it with.
CurrentHasBaseline == drv.cur # 0 => drv.base # 0

\* A shutdown is answered, and the cleanup that follows it ends: nothing
\* keeps deviceHandleMu, and nobody waits for it for ever.
ShutdownIsAnswered ==
  /\ \A s \in Slots :
       cmd[s].kind = "shutdown" ~> (cmd[s].kind # "shutdown" \/ app = "exited")
  /\ app = "cleanup" ~> app # "cleanup"

=============================================================================
