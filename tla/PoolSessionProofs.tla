-------------------------- MODULE PoolSessionProofs --------------------------
(***************************************************************************)
(* Theorems of PoolSession for any number of commands in flight and any    *)
(* number of create requests.                                              *)
(***************************************************************************)
EXTENDS PoolSession, TLAPS

(***************************************************************************)
(* The types of a command and of the Model, and the updates that keep them *)
(***************************************************************************)

Cmd ==
  [kind : Kinds, at : Steps, gen : 0 .. MaxGen, diff : Gen, cur : Gen,
   report : States \cup {"none"}, ok : BOOLEAN]

Ui ==
  [status : States \cup {"unknown"}, connected : BOOLEAN,
   busy : {"no", "working", "unloading driver"}, input : BOOLEAN,
   base : 0 .. MaxGen, ready : BOOLEAN, diff : Gen, cur : Gen,
   panel : [Panels -> Gen]]

LEMMA NoGenType == NoGen \in Gen /\ NoPanels \in [Panels -> Gen]
  BY MaxGenNat DEF NoGen, Gen, NoPanels

\* A command that has just been started.
LEMMA CommandType ==
  /\ NoCmd \in Cmd
  /\ \A kind \in Kinds, at \in Steps : Command(kind, at) \in Cmd
  <1>1. NoCmd \in Cmd
    BY MaxGenNat, NoGenType DEF NoCmd, Cmd, Kinds, Steps
  <1>2. ASSUME NEW kind \in Kinds, NEW at \in Steps
        PROVE  Command(kind, at) \in Cmd
    <2>1. PICK c : c = [NoCmd EXCEPT !.kind = kind]
      OBVIOUS
    <2>2. c \in Cmd
      BY <1>1, <2>1 DEF Cmd
    <2>3. Command(kind, at) = [c EXCEPT !.at = at]
      BY <2>1 DEF Command
    <2> QED
      BY <2>2, <2>3 DEF Cmd
  <1> QED
    BY <1>1, <1>2

LEMMA CommandFields ==
  /\ NoCmd.kind = "none" /\ NoCmd.at = "none"
  /\ NoCmd.gen = 0 /\ NoCmd.diff = NoGen /\ NoCmd.cur = NoGen
  /\ \A kind, at : LET c == Command(kind, at)
                  IN  /\ c.kind = kind /\ c.at = at
                      /\ c.gen = 0 /\ c.diff = NoGen /\ c.cur = NoGen
  BY DEF NoCmd, Command

\* What a step learns.
LEMMA CmdUpdates ==
  ASSUME NEW c \in Cmd
  PROVE  /\ \A at \in Steps : [c EXCEPT !.at = at] \in Cmd
         /\ \A gen \in 0 .. MaxGen : [c EXCEPT !.gen = gen] \in Cmd
         /\ \A gen \in Gen : [c EXCEPT !.diff = gen] \in Cmd /\ [c EXCEPT !.cur = gen] \in Cmd
         /\ \A state \in States : [c EXCEPT !.report = state] \in Cmd
         /\ \A ok \in BOOLEAN : [c EXCEPT !.ok = ok] \in Cmd
  BY DEF Cmd

\* What a key or a message changes.
LEMMA UiUpdates ==
  ASSUME NEW m \in Ui
  PROVE  /\ \A state \in States \cup {"unknown"} : [m EXCEPT !.status = state] \in Ui
         /\ \A busy \in {"no", "working", "unloading driver"} :
              [m EXCEPT !.busy = busy] \in Ui
         /\ \A b \in BOOLEAN :
              /\ [m EXCEPT !.connected = b] \in Ui
              /\ [m EXCEPT !.input = b] \in Ui
              /\ [m EXCEPT !.ready = b] \in Ui
         /\ \A n \in 0 .. MaxGen : [m EXCEPT !.base = n] \in Ui
         /\ \A gen \in Gen :
              /\ [m EXCEPT !.diff = gen] \in Ui
              /\ [m EXCEPT !.cur = gen] \in Ui
              /\ \A p \in Panels : [m EXCEPT !.panel[p] = gen] \in Ui
         /\ [m EXCEPT !.panel = NoPanels] \in Ui
  BY NoGenType DEF Ui

LEMMA InitUiType == InitUi \in Ui
  BY NoGenType, MaxGenNat DEF InitUi, Ui

LEMMA ClearedType ==
  ASSUME NEW m \in Ui
  PROVE  Cleared(m) \in Ui
  <1>1. 0 \in 0 .. MaxGen
    BY MaxGenNat
  <1>2. PICK m1 : m1 = [m EXCEPT !.base = 0]
    OBVIOUS
  <1>3. PICK m2 : m2 = [m1 EXCEPT !.ready = FALSE]
    OBVIOUS
  <1>4. PICK m3 : m3 = [m2 EXCEPT !.diff = NoGen]
    OBVIOUS
  <1>5. PICK m4 : m4 = [m3 EXCEPT !.cur = NoGen]
    OBVIOUS
  <1>6. m4 \in Ui
    BY <1>1, <1>2, <1>3, <1>4, <1>5, UiUpdates, NoGenType
  <1>7. Cleared(m) = [m4 EXCEPT !.panel = NoPanels]
    BY <1>2, <1>3, <1>4, <1>5 DEF Cleared
  <1> QED
    BY <1>6, <1>7, UiUpdates

-----------------------------------------------------------------------------
(***************************************************************************)
(* Types                                                                   *)
(***************************************************************************)

DriverType ==
  /\ svc \in States \cup {"marked"}
  /\ drv \in [base : 0 .. MaxGen, cur : 0 .. MaxGen, diffed : BOOLEAN]
  /\ nextGen \in 0 .. MaxGen

SessionType ==
  /\ app \in {"running", "cleanup", "exited"}
  /\ mutex \in Actors \cup {NoActor}
  /\ cmd \in [Actors -> Cmd]
  /\ ui \in Ui

LEMMA TypeParts == TypeOK <=> DriverType /\ SessionType
  BY DEF TypeOK, DriverType, SessionType, Cmd, Ui

\* The steps of the service and of the driver's snapshots.
DriverMoves ==
  \/ UNCHANGED driverVars
  \/ InstallService \/ StartService \/ StopService \/ StopTimesOut \/ StopsLate
  \/ DeleteService \/ DrawGen
  \/ \E gen \in 0 .. MaxGen :
       CommitBaseline(gen) \/ CommitCurrent(gen, TRUE) \/ CommitCurrent(gen, FALSE)

LEMMA DriverTypes ==
  ASSUME DriverType, DriverMoves
  PROVE  DriverType'
  <1> USE MaxGenNat DEF DriverType, States, NoSnapshots, driverVars
  <1>1. CASE UNCHANGED driverVars
    BY <1>1
  <1>2. CASE InstallService
    BY <1>2 DEF InstallService
  <1>3. CASE StartService
    BY <1>3 DEF StartService
  <1>4. CASE StopService
    BY <1>4 DEF StopService
  <1>5. CASE StopTimesOut
    BY <1>5 DEF StopTimesOut
  <1>6. CASE StopsLate
    BY <1>6 DEF StopsLate
  <1>7. CASE DeleteService
    BY <1>7 DEF DeleteService
  <1>8. CASE DrawGen
    BY <1>8 DEF DrawGen
  <1>9. ASSUME NEW gen \in 0 .. MaxGen, CommitBaseline(gen)
        PROVE  DriverType'
    BY <1>9 DEF CommitBaseline
  <1>10. ASSUME NEW gen \in 0 .. MaxGen, NEW rebuilt \in BOOLEAN,
                CommitCurrent(gen, rebuilt)
         PROVE  DriverType'
    <2>1. PICK d : d = [drv EXCEPT !.cur = gen]
      OBVIOUS
    <2>2. d \in [base : 0 .. MaxGen, cur : 0 .. MaxGen, diffed : BOOLEAN]
      BY <2>1
    <2>3. drv' = [d EXCEPT !.diffed = rebuilt]
      BY <1>10, <2>1 DEF CommitCurrent
    <2> QED
      BY <1>10, <2>2, <2>3 DEF CommitCurrent
  <1> QED
    BY <1>1, <1>2, <1>3, <1>4, <1>5, <1>6, <1>7, <1>8, <1>9, <1>10
       DEF DriverMoves

LEMMA GenTypes ==
  ASSUME DriverType
  PROVE  CurrentGen \in Gen /\ DiffGen \in Gen
  BY NoGenType DEF DriverType, CurrentGen, DiffGen, Gen

LEMMA LaunchTypes ==
  ASSUME SessionType, NEW command \in Cmd, NEW model \in Ui, Launch(command, model)
  PROVE  SessionType'
  BY UiUpdates DEF SessionType, Launch, Free, Actors

\* Every key keeps the types, and leaves the driver alone.
LEMMA KeyTypes ==
  ASSUME SessionType, Keys
  PROVE  SessionType' /\ UNCHANGED driverVars
  <1>1. ASSUME NEW command \in Cmd, Key(command)
        PROVE  SessionType' /\ UNCHANGED driverVars
    BY <1>1, LaunchTypes DEF Key, Launch, SessionType
  <1>2. ui \in Ui
    BY DEF SessionType
  <1>3. CASE KeyStart \/ KeyStop \/ KeyBaseline \/ KeyCurrent \/ KeyReloadDiff \/ KeyTable
    BY <1>1, <1>3, CommandType
       DEF KeyStart, KeyStop, KeyBaseline, KeyCurrent, KeyReloadDiff, KeyTable,
           Kinds, Steps, IoctlSteps
  <1>4. ASSUME NEW kind \in {"dump", "pte"}, NEW row \in Gen
        PROVE  [Command(kind, "read") EXCEPT !.diff = row] \in Cmd
    <2>1. Command(kind, "read") \in Cmd
      BY CommandType DEF Kinds, Steps, IoctlSteps, Panels
    <2> QED
      BY <2>1, CmdUpdates
  <1>5. ui.diff \in Gen /\ ui.cur \in Gen /\ ui.panel \in [Panels -> Gen]
    BY <1>2 DEF Ui
  <1>6. CASE KeyDump \/ KeyDumpPage
    BY <1>1, <1>4, <1>5, <1>6 DEF KeyDump, KeyDumpPage, Panels
  <1>7. CASE KeyInput
    <2>1. ui.input \in BOOLEAN /\ ui' = [ui EXCEPT !.input = ~ui.input]
      BY <1>2, <1>7 DEF Ui, KeyInput
    <2>2. \/ ui' = [ui EXCEPT !.input = TRUE]
          \/ ui' = [ui EXCEPT !.input = FALSE]
      BY <2>1, Zenon
    <2>3. ui' \in Ui
      BY <1>2, <2>2, UiUpdates
    <2> QED
      BY <1>7, <2>3 DEF KeyInput, SessionType
  <1>8. CASE KeySearch
    <2>1. [ui EXCEPT !.input = FALSE] \in Ui
      BY <1>2, UiUpdates
    <2>2. Command("search", "search") \in Cmd
      BY CommandType DEF Kinds, Steps, IoctlSteps, Panels
    <2> QED
      BY <1>8, <2>1, <2>2, LaunchTypes DEF KeySearch, Launch
  <1>9. CASE KeyQuit
    <2>1. Command("shutdown", "lock") \in Cmd
      BY CommandType DEF Kinds, Steps
    <2>2. PICK m : m = [ui EXCEPT !.busy = "unloading driver"]
      OBVIOUS
    <2>3. m \in Ui /\ [m EXCEPT !.input = FALSE] \in Ui
      BY <1>2, <2>2, UiUpdates
    <2>4. ui' = [m EXCEPT !.input = FALSE]
      BY <1>9, <2>2 DEF KeyQuit
    <2>5. PICK s \in Free : cmd' = [cmd EXCEPT ![s] = Command("shutdown", "lock")]
      BY <1>9 DEF KeyQuit
    <2>6. s \in Actors
      BY DEF Free, Actors
    <2>7. cmd' \in [Actors -> Cmd]
      BY <2>1, <2>5, <2>6 DEF SessionType
    <2>8. UNCHANGED <<driverVars, app, mutex>>
      BY <1>9 DEF KeyQuit
    <2> QED
      BY <2>3, <2>4, <2>7, <2>8 DEF SessionType
  <1>10. CASE KeyEscape
    <2>1. PICK p \in Panels : ui' = [ui EXCEPT !.panel[p] = NoGen]
      BY <1>10 DEF KeyEscape
    <2>2. ui' \in Ui
      BY <1>2, <2>1, UiUpdates, NoGenType
    <2> QED
      BY <1>10, <2>2 DEF KeyEscape, SessionType
  <1> QED
    BY <1>3, <1>6, <1>7, <1>8, <1>9, <1>10 DEF Keys

LEMMA AdvanceTypes ==
  ASSUME SessionType, NEW a \in Actors, NEW to \in Steps, NEW got \in Cmd,
         Advance(a, to, got)
  PROVE  cmd' \in [Actors -> Cmd]
  BY CmdUpdates DEF SessionType, Advance

LEMMA IoctlTypes ==
  ASSUME SessionType, NEW a \in Actors, NEW to \in Steps, NEW got \in Cmd,
         NEW at, Ioctl(a, at, to, got)
  PROVE  SessionType' /\ UNCHANGED driverVars
  BY AdvanceTypes DEF SessionType, Ioctl

\* Every step of a device request keeps the types.
LEMMA DeviceTypes ==
  ASSUME DriverType, SessionType, NEW a \in Actors, Device(a)
  PROVE  SessionType' /\ DriverMoves
  <1>1. cmd[a] \in Cmd /\ a \in Actors \cup {NoActor}
    BY DEF SessionType
  <1>2. Failed(cmd[a]) \in Cmd
    BY <1>1, CmdUpdates DEF Failed
  <1>3. {"sent", "commit", "curCount", "diffCount", "diffEntries", "curEntries"}
          \subseteq Steps
    BY DEF Steps, IoctlSteps
  <1>4. AfterDiff(a) \in Steps
    BY <1>3 DEF AfterDiff
  <1>5. CASE IoctlFails(a)
    BY <1>2, <1>3, <1>5, AdvanceTypes DEF IoctlFails, Sends, SessionType, DriverMoves
  <1>6. CASE Create(a)
    <2>1. nextGen' \in 0 .. MaxGen
      BY <1>6, MaxGenNat DEF Create, DrawGen, DriverType
    <2>2. [cmd[a] EXCEPT !.gen = nextGen'] \in Cmd
      BY <1>1, <2>1, CmdUpdates
    <2> QED
      BY <1>1, <1>3, <1>6, <2>2, AdvanceTypes DEF Create, SessionType, DriverMoves
  <1>7. CASE CreateFails(a)
    BY <1>2, <1>3, <1>7, AdvanceTypes DEF CreateFails, Sends, SessionType, DriverMoves
  <1>8. CASE BaselineCommit(a)
    <2>1. cmd[a].gen \in 0 .. MaxGen
      BY <1>1 DEF Cmd
    <2> QED
      BY <1>1, <1>3, <1>8, <2>1, AdvanceTypes
         DEF BaselineCommit, Sends, SessionType, DriverMoves
  <1>9. CASE CurrentCommit(a) \/ CurrentCommitWithoutDiff(a)
    <2>1. cmd[a].gen \in 0 .. MaxGen
      BY <1>1 DEF Cmd
    <2> QED
      BY <1>1, <1>2, <1>3, <1>9, <2>1, AdvanceTypes
         DEF CurrentCommit, CurrentCommitWithoutDiff, Sends, SessionType, DriverMoves
  <1>10. /\ [cmd[a] EXCEPT !.diff = DiffGen] \in Cmd
         /\ [cmd[a] EXCEPT !.diff = CurrentGen] \in Cmd
         /\ [cmd[a] EXCEPT !.cur = CurrentGen] \in Cmd
    BY <1>1, CmdUpdates, GenTypes
  <1>11. CASE DiffCount(a) \/ CurrentCount(a)
    BY <1>1, <1>3, <1>4, <1>11, IoctlTypes DEF DiffCount, CurrentCount, DriverMoves
  <1>12. CASE DiffEntries(a) \/ CurrentEntries(a)
    BY <1>3, <1>4, <1>10, <1>12, IoctlTypes DEF DiffEntries, CurrentEntries, DriverMoves
  <1>13. CASE Read(a) \/ Search(a) \/ Ping(a)
    BY <1>1, <1>3, <1>10, <1>13, IoctlTypes DEF Read, Search, Ping, DriverMoves
  <1> QED
    BY <1>5, <1>6, <1>7, <1>8, <1>9, <1>11, <1>12, <1>13 DEF Device

\* And so does every step of a service command.
LEMMA ServiceTypes ==
  ASSUME DriverType, SessionType, NEW a \in Actors, Service(a)
  PROVE  SessionType' /\ DriverMoves
  <1>1. cmd[a] \in Cmd /\ a \in Actors \cup {NoActor}
    BY DEF SessionType
  <1>2. Failed(cmd[a]) \in Cmd
    BY <1>1, CmdUpdates DEF Failed
  <1>3. {"sent", "start", "stop", "queryFirst", "delete"} \subseteq Steps
    BY DEF Steps
  <1>4. CASE QueryStatus(a)
    <2>1. PICK state \in Reports : Sends(a, [cmd[a] EXCEPT !.report = state])
      BY <1>4 DEF QueryStatus
    <2>2. state \in States
      BY DEF Reports, Unopened, DriverType, States
    <2>3. [cmd[a] EXCEPT !.report = state] \in Cmd
      BY <1>1, <2>2, CmdUpdates
    <2> QED
      BY <1>3, <1>4, <2>1, <2>3, AdvanceTypes
         DEF QueryStatus, Sends, SessionType, DriverMoves
  <1>5. CASE UnlockedStepFails(a)
    BY <1>2, <1>3, <1>5, AdvanceTypes
       DEF UnlockedStepFails, Sends, SessionType, DriverMoves
  <1>6. CASE Install(a)
    BY <1>1, <1>3, <1>6, AdvanceTypes DEF Install, SessionType, DriverMoves
  <1>7. CASE Start(a)
    <2>1. PICK ok \in BOOLEAN : Sends(a, [cmd[a] EXCEPT !.ok = ok])
      BY <1>7 DEF Start
    <2>2. [cmd[a] EXCEPT !.ok = ok] \in Cmd
      BY <1>1, CmdUpdates
    <2> QED
      BY <1>3, <1>7, <2>1, <2>2, AdvanceTypes DEF Start, Sends, SessionType, DriverMoves
  <1>8. CASE Lock(a)
    BY <1>1, <1>3, <1>8, AdvanceTypes DEF Lock, SessionType, DriverMoves
  <1>9. CASE QueryFirst(a)
    BY <1>1, <1>3, <1>9, AdvanceTypes
       DEF QueryFirst, Unlock, Sends, SessionType, DriverMoves
  <1>10. CASE StopFindsNone(a)
    BY <1>1, <1>3, <1>10, AdvanceTypes
       DEF StopFindsNone, Unlock, Sends, SessionType, DriverMoves
  <1>11. CASE Stop(a) \/ Delete(a)
    BY <1>1, <1>3, <1>11, AdvanceTypes
       DEF Stop, Delete, Unlock, Sends, SessionType, DriverMoves
  <1>12. CASE LockedStepFails(a)
    BY <1>2, <1>3, <1>12, AdvanceTypes
       DEF LockedStepFails, Unlock, Sends, SessionType, DriverMoves
  <1> QED
    BY <1>4, <1>5, <1>6, <1>7, <1>8, <1>9, <1>10, <1>11, <1>12 DEF Service

LEMMA MessageTypes ==
  ASSUME SessionType, NEW s \in Slots,
         NEW kind, NEW ok, NEW model \in Ui, NEW commands \in [Actors -> Cmd],
         Message(s, kind, ok, model, commands)
  PROVE  SessionType' /\ UNCHANGED driverVars
  BY UiUpdates DEF SessionType, Message

\* What is left of the commands when a message has been handled.
LEMMA CommandsLeft ==
  ASSUME SessionType, NEW s \in Slots
  PROVE  /\ Done(s) \in [Actors -> Cmd]
         /\ Requery(s) \in [Actors -> Cmd]
         /\ \A spare \in Slots :
              [Requery(s) EXCEPT ![spare] = Command("ping", "ping")] \in [Actors -> Cmd]
         /\ [Done(s) EXCEPT ![Main] = Command("cleanup", "lock")] \in [Actors -> Cmd]
  <1>1. /\ Command("status", "query") \in Cmd
        /\ Command("ping", "ping") \in Cmd
        /\ Command("cleanup", "lock") \in Cmd
    BY CommandType DEF Kinds, Steps, IoctlSteps
  <1> QED
    BY <1>1, CommandType DEF SessionType, Done, Requery, Actors

(***************************************************************************)
(* The steps each kind of command goes through.  A status that was read    *)
(* without an error is one the service manager reports: the type of the    *)
(* Model's status rests on it.                                             *)
(***************************************************************************)
Path(c) ==
  /\ c.kind = "none" <=> c.at = "none"
  /\ c.kind = "none" => c = NoCmd
  /\ c.at = "query" => c.kind = "status"
  /\ c.at = "ping" => c.kind = "ping"
  /\ c.at \in {"install", "start"} => c.kind = "start"
  /\ c.at \in {"create", "commit"} => c.kind \in {"baseline", "current"}
  /\ c.at \in {"diffCount", "diffEntries"} => c.kind \in {"current", "diff"}
  /\ c.at \in {"curCount", "curEntries"} => c.kind \in {"current", "entries"}
  /\ c.at = "read" => c.kind \in {"dump", "pte"}
  /\ c.at = "search" => c.kind = "search"
  /\ c.at \in {"lock", "stop", "delete"} => c.kind \in {"stop", "shutdown", "cleanup"}
  /\ c.at = "queryFirst" => c.kind \in {"shutdown", "cleanup"}
  /\ c.kind = "status" /\ c.at = "sent" /\ c.ok => c.report \in States

Paths == \A a \in Actors : Path(cmd[a])

\* Every message keeps the types, and leaves the driver alone.
LEMMA MessagesTypes ==
  ASSUME SessionType, Paths, NEW s \in Slots, Messages(s)
  PROVE  SessionType' /\ UNCHANGED driverVars
  <1>1. ui \in Ui /\ cmd[s] \in Cmd
    BY DEF SessionType, Actors
  <1>2. /\ cmd[s].gen \in 0 .. MaxGen
        /\ cmd[s].diff \in Gen
        /\ cmd[s].cur \in Gen
        /\ cmd[s].report \in States \cup {"none"}
    BY <1>1 DEF Cmd
  <1>3. CASE ErrorMessage(s)
    BY <1>1, <1>3, MessageTypes, CommandsLeft DEF ErrorMessage
  <1>4. CASE StatusMessage(s)
    <2>1. PICK ok \in BOOLEAN :
            Message(s, "status", ok,
                    [ui EXCEPT !.status = IF ok THEN cmd[s].report ELSE "unknown"],
                    Done(s))
      BY <1>4 DEF StatusMessage
    <2>2. ok => cmd[s].report \in States
      BY <2>1 DEF Message, Paths, Path, Actors
    <2>3. [ui EXCEPT !.status = IF ok THEN cmd[s].report ELSE "unknown"] \in Ui
      BY <1>1, <2>2, UiUpdates
    <2> QED
      BY <2>1, <2>3, MessageTypes, CommandsLeft
  <1>5. CASE PingMessage(s)
    <2>1. PICK ok \in BOOLEAN : Message(s, "ping", ok, [ui EXCEPT !.connected = ok], Done(s))
      BY <1>5 DEF PingMessage
    <2>2. [ui EXCEPT !.connected = ok] \in Ui
      BY <1>1, UiUpdates
    <2> QED
      BY <2>1, <2>2, MessageTypes, CommandsLeft
  <1>6. CASE StartMessage(s)
    BY <1>1, <1>6, MessageTypes, CommandsLeft DEF StartMessage, Free
  <1>7. CASE StopMessage(s)
    BY <1>1, <1>7, UiUpdates, ClearedType, MessageTypes, CommandsLeft DEF StopMessage
  <1>8. CASE ActionError(s)
    BY <1>1, <1>8, MessageTypes, CommandsLeft DEF ActionError
  <1>9. CASE BaselineMessage(s)
    BY <1>1, <1>2, <1>9, UiUpdates, ClearedType, MessageTypes, CommandsLeft
       DEF BaselineMessage
  <1>10. CASE CurrentMessage(s)
    <2>1. PICK m1 : m1 = [ui EXCEPT !.ready = TRUE]
      OBVIOUS
    <2>2. PICK m2 : m2 = [m1 EXCEPT !.diff = cmd[s].diff]
      OBVIOUS
    <2>3. PICK m3 : m3 = [m2 EXCEPT !.cur = cmd[s].cur]
      OBVIOUS
    <2>4. m3 \in Ui /\ [m3 EXCEPT !.panel = NoPanels] \in Ui
      BY <1>1, <1>2, <2>1, <2>2, <2>3, UiUpdates
    <2>5. Message(s, "current", TRUE, [m3 EXCEPT !.panel = NoPanels], Done(s))
      BY <1>10, <2>1, <2>2, <2>3 DEF CurrentMessage
    <2> QED
      BY <2>4, <2>5, MessageTypes, CommandsLeft
  <1>11. CASE DiffMessage(s)
    <2>1. PICK m1 : m1 = [ui EXCEPT !.ready = TRUE]
      OBVIOUS
    <2>2. PICK m2 : m2 = [m1 EXCEPT !.diff = cmd[s].diff]
      OBVIOUS
    <2>3. m2 \in Ui /\ [m2 EXCEPT !.panel = NoPanels] \in Ui
      BY <1>1, <1>2, <2>1, <2>2, UiUpdates
    <2>4. Message(s, "diff", TRUE, [m2 EXCEPT !.panel = NoPanels], Done(s))
      BY <1>11, <2>1, <2>2 DEF DiffMessage
    <2> QED
      BY <2>3, <2>4, MessageTypes, CommandsLeft
  <1>12. CASE EntriesMessage(s)
    BY <1>1, <1>2, <1>12, UiUpdates, MessageTypes, CommandsLeft DEF EntriesMessage
  <1>13. CASE PanelMessage(s)
    BY <1>1, <1>2, <1>13, UiUpdates, MessageTypes, CommandsLeft DEF PanelMessage
  <1>14. CASE ShutdownMessage(s)
    BY <1>14, InitUiType, CommandsLeft DEF ShutdownMessage, SessionType
  <1> QED
    BY <1>3, <1>4, <1>5, <1>6, <1>7, <1>8, <1>9, <1>10, <1>11, <1>12, <1>13, <1>14
       DEF Messages

LEMMA KeyPaths ==
  ASSUME SessionType, Paths, Keys
  PROVE  Paths'
  <1>1. ASSUME NEW command, Path(command),
               \E s \in Free : cmd' = [cmd EXCEPT ![s] = command]
        PROVE  Paths'
    BY <1>1 DEF Paths, SessionType
  <1>2. ASSUME NEW command, Path(command), Key(command)
        PROVE  Paths'
    BY <1>1, <1>2 DEF Key, Launch
  <1>3. CASE KeyStart \/ KeyStop \/ KeyBaseline \/ KeyCurrent \/ KeyReloadDiff \/ KeyTable
    BY <1>2, <1>3, CommandFields
       DEF KeyStart, KeyStop, KeyBaseline, KeyCurrent, KeyReloadDiff, KeyTable, Path
  <1>4. ASSUME NEW kind \in {"dump", "pte"}, NEW row
        PROVE  Path([Command(kind, "read") EXCEPT !.diff = row])
    BY DEF Path, Command, NoCmd
  <1>5. CASE KeyDump \/ KeyDumpPage
    BY <1>2, <1>4, <1>5 DEF KeyDump, KeyDumpPage
  <1>6. CASE KeyInput \/ KeyEscape
    BY <1>6 DEF KeyInput, KeyEscape, Paths
  <1>7. Path(Command("search", "search")) /\ Path(Command("shutdown", "lock"))
    BY CommandFields DEF Path
  <1>8. CASE KeySearch \/ KeyQuit
    BY <1>1, <1>7, <1>8 DEF KeySearch, KeyQuit, Launch
  <1> QED
    BY <1>3, <1>5, <1>6, <1>8 DEF Keys

\* a's command is at another step, and learnt what belongs to got.
LEMMA AdvancePath ==
  ASSUME SessionType, Paths, NEW a \in Actors, NEW to, NEW got,
         Path([got EXCEPT !.at = to]), Advance(a, to, got)
  PROVE  Paths'
  BY DEF SessionType, Paths, Advance

LEMMA DevicePaths ==
  ASSUME SessionType, Paths, NEW a \in Actors, Device(a)
  PROVE  Paths'
  <1>1. Path(cmd[a]) /\ cmd[a] \in Cmd
    BY DEF Paths, SessionType
  <1> USE <1>1, AdvancePath DEF Path, Cmd, Sends, Failed
  <1>2. CASE IoctlFails(a)
    BY <1>2 DEF IoctlFails, IoctlSteps
  <1>3. CASE Create(a) \/ CreateFails(a)
    BY <1>3 DEF Create, CreateFails
  <1>4. CASE BaselineCommit(a) \/ CurrentCommit(a) \/ CurrentCommitWithoutDiff(a)
    BY <1>4 DEF BaselineCommit, CurrentCommit, CurrentCommitWithoutDiff
  <1>5. CASE DiffCount(a) \/ DiffEntries(a)
    BY <1>5 DEF DiffCount, DiffEntries, Ioctl, AfterDiff
  <1>6. CASE CurrentCount(a) \/ CurrentEntries(a)
    BY <1>6 DEF CurrentCount, CurrentEntries, Ioctl
  <1>7. CASE Read(a) \/ Search(a) \/ Ping(a)
    BY <1>7 DEF Read, Search, Ping, Ioctl
  <1> QED
    BY <1>2, <1>3, <1>4, <1>5, <1>6, <1>7 DEF Device

LEMMA ServicePaths ==
  ASSUME DriverType, SessionType, Paths, NEW a \in Actors, Service(a)
  PROVE  Paths'
  <1>1. Path(cmd[a]) /\ cmd[a] \in Cmd
    BY DEF Paths, SessionType
  <1>2. Reports \subseteq States
    BY DEF Reports, Unopened, DriverType, States
  <1> USE <1>1, AdvancePath DEF Path, Cmd, Sends, Failed, Unlock
  <1>3. CASE QueryStatus(a) \/ UnlockedStepFails(a)
    BY <1>2, <1>3 DEF QueryStatus, UnlockedStepFails
  <1>4. CASE Install(a) \/ Start(a)
    BY <1>4 DEF Install, Start
  <1>5. CASE Lock(a) \/ QueryFirst(a)
    BY <1>5 DEF Lock, QueryFirst
  <1>6. CASE StopFindsNone(a) \/ Stop(a) \/ Delete(a) \/ LockedStepFails(a)
    BY <1>6 DEF StopFindsNone, Stop, Delete, LockedStepFails
  <1> QED
    BY <1>3, <1>4, <1>5, <1>6 DEF Service

\* What a message leaves: every command as it was, none, or a new one.
Left(c) ==
  c \in {NoCmd, Command("status", "query"), Command("ping", "ping"),
         Command("cleanup", "lock")}

LEMMA MessagesLeave ==
  ASSUME SessionType, NEW s \in Slots, Messages(s)
  PROVE  \A a \in Actors : cmd'[a] = cmd[a] \/ Left(cmd'[a])
  <1>1. \A a \in Actors : Done(s)[a] = cmd[a] \/ Left(Done(s)[a])
    BY DEF SessionType, Done, Left, Actors
  <1>2. \A a \in Actors : Requery(s)[a] = cmd[a] \/ Left(Requery(s)[a])
    BY DEF SessionType, Requery, Left, Actors
  <1>3. CASE StartMessage(s)
    BY <1>2, <1>3 DEF StartMessage, Message, SessionType, Requery, Left
  <1>4. CASE ShutdownMessage(s)
    BY <1>1, <1>4 DEF ShutdownMessage, SessionType, Done, Left
  <1>5. CASE StopMessage(s) \/ ActionError(s)
    BY <1>2, <1>5 DEF StopMessage, ActionError, Message
  <1> QED
    BY <1>1, <1>3, <1>4, <1>5
       DEF Messages, ErrorMessage, StatusMessage, PingMessage, BaselineMessage,
           CurrentMessage, DiffMessage, EntriesMessage, PanelMessage, Message

LEMMA MessagesPaths ==
  ASSUME SessionType, Paths, NEW s \in Slots, Messages(s)
  PROVE  Paths'
  <1>1. \A c : Left(c) => Path(c)
    BY CommandFields DEF Left, Path
  <1> QED
    BY <1>1, MessagesLeave DEF Paths

\* A restarted program has one status query in flight.
LEMMA FirstCommandsAre ==
  \A c \in FirstCommands :
    /\ c \in [Actors -> Cmd]
    /\ \A a \in Actors : c[a] \in {NoCmd, Command("status", "query")}
  BY CommandType DEF FirstCommands, Kinds, Steps

Types == DriverType /\ SessionType /\ Paths

\* What the end of the program changes.
LEMMA EndFrame ==
  ASSUME SessionType, ProgramEnds
  PROVE  /\ app = "running" /\ app' = "cleanup" /\ ui' = InitUi
         /\ UNCHANGED driverVars /\ UNCHANGED mutex
         /\ cmd' \in [Actors -> Cmd]
         /\ Main \in Actors /\ \A a \in Actors : a # Main => cmd'[a] = cmd[a]
         /\ LET c == cmd'[Main]
            IN  /\ c.kind = "cleanup" /\ c.at = "lock"
                /\ c.gen = 0 /\ c.diff = NoGen /\ c.cur = NoGen
  <1>1. PICK c \in {Command("cleanup", "lock"), Failed(Command("cleanup", "lock"))} :
          cmd' = [cmd EXCEPT ![Main] = c]
    BY DEF ProgramEnds
  <1>2. Command("cleanup", "lock") \in Cmd
    BY CommandType DEF Kinds, Steps
  <1>3. c \in Cmd /\ c.kind = "cleanup" /\ c.at = "lock"
        /\ c.gen = 0 /\ c.diff = NoGen /\ c.cur = NoGen
    <2>1. PICK first : first = Command("cleanup", "lock")
      OBVIOUS
    <2>2. /\ first \in Cmd /\ first.kind = "cleanup" /\ first.at = "lock"
          /\ first.gen = 0 /\ first.diff = NoGen /\ first.cur = NoGen
      BY <1>2, <2>1, CommandFields
    <2>3. c = first \/ c = [first EXCEPT !.ok = FALSE]
      BY <1>1, <2>1 DEF Failed
    <2> QED
      BY <2>2, <2>3 DEF Cmd
  <1>4. Main \in Actors /\ cmd \in [Actors -> Cmd]
    BY DEF Actors, SessionType
  <1> QED
    BY <1>1, <1>3, <1>4 DEF ProgramEnds

LEMMA InitTypes == Init => Types
  <1>1. Init => DriverType
    BY MaxGenNat DEF Init, DriverInit, DriverType, NoSnapshots, States
  <1> QED
    BY <1>1, InitUiType, FirstCommandsAre, CommandFields
       DEF Init, Types, SessionType, Paths, Path

LEMMA NextTypes ==
  ASSUME Types, [Next]_vars
  PROVE  Types'
  <1> USE DEF Types
  <1>1. CASE UNCHANGED vars
    BY <1>1 DEF vars, driverVars, sessionVars, DriverType, SessionType, Paths
  <1>2. CASE Keys
    BY <1>2, KeyTypes, KeyPaths, DriverTypes DEF DriverMoves
  <1>3. ASSUME NEW a \in Actors, Device(a) \/ Service(a)
        PROVE  Types'
    BY <1>3, DeviceTypes, ServiceTypes, DevicePaths, ServicePaths, DriverTypes
  <1>4. ASSUME NEW s \in Slots, Messages(s)
        PROVE  Types'
    BY <1>4, MessagesTypes, MessagesPaths, DriverTypes DEF DriverMoves
  <1>5. CASE StopsLate /\ UNCHANGED sessionVars
    BY <1>5, DriverTypes DEF DriverMoves, sessionVars, SessionType, Paths
  <1>6. CASE Exit
    BY <1>6, DriverTypes DEF Exit, DriverMoves, SessionType, Paths
  <1>7. CASE Restart
    BY <1>7, InitUiType, FirstCommandsAre, CommandFields, DriverTypes
       DEF Restart, DriverMoves, SessionType, Paths, Path
  <1>8. CASE ProgramEnds
    <2>1. DriverType'
      BY <1>8, EndFrame, DriverTypes DEF DriverMoves
    <2>2. SessionType'
      BY <1>8, EndFrame, InitUiType DEF SessionType
    <2>3. Path(cmd'[Main]) /\ \A a \in Actors : a # Main => Path(cmd'[a])
      BY <1>8, EndFrame DEF Paths, Path
    <2> QED
      BY <2>1, <2>2, <2>3, EndFrame DEF Paths
  <1> QED
    BY <1>1, <1>2, <1>3, <1>4, <1>5, <1>6, <1>7, <1>8 DEF Next, Step

\* Every variable has the values the program can give it.
THEOREM SessionTypes == Spec => []TypeOK
  <1>1. Types => TypeOK
    BY TypeParts DEF Types
  <1> QED
    BY <1>1, InitTypes, NextTypes, PTL DEF Spec

-----------------------------------------------------------------------------
(***************************************************************************)
(* What deviceHandleMu guarantees                                          *)
(***************************************************************************)

UnderMutex == {"commit", "queryFirst", "stop", "delete"}

\* One command at a time is at a step that needs the mutex.
MutexHeld == \A a \in Actors : cmd[a].at \in UnderMutex => mutex = a

\* The driver works on the latest of the create requests, and both snapshots
\* it has are of earlier ones.
Committing ==
  \A a \in Actors : cmd[a].at = "commit" =>
    /\ Loaded
    /\ cmd[a].gen = nextGen
    /\ drv.base < nextGen
    /\ drv.cur < nextGen

DrawnBefore == drv.base <= nextGen /\ drv.cur <= nextGen

MutexInv == MutexHeld /\ Committing /\ DrawnBefore /\ CurrentLaterThanBaseline

\* A step that leaves the snapshots and the mutex alone and brings no command
\* to a step that needs the mutex.
LEMMA QuietSteps ==
  ASSUME MutexInv, Loaded => Loaded',
         UNCHANGED <<drv, nextGen, mutex>>,
         \A a \in Actors : cmd'[a] = cmd[a] \/ cmd'[a].at \notin UnderMutex
  PROVE  MutexInv'
  BY DEF MutexInv, MutexHeld, Committing, DrawnBefore, CurrentLaterThanBaseline, UnderMutex

LEMMA AdvanceEffect ==
  ASSUME SessionType, NEW a \in Actors, NEW to \in Steps, NEW got \in Cmd,
         Advance(a, to, got)
  PROVE  /\ cmd'[a].at = to /\ cmd'[a].kind = got.kind /\ cmd'[a].gen = got.gen
         /\ cmd'[a].diff = got.diff /\ cmd'[a].cur = got.cur /\ cmd'[a].ok = got.ok
         /\ \A b \in Actors : b # a => cmd'[b] = cmd[b]
  BY DEF SessionType, Advance, Cmd

\* What a step learns leaves the rest of the command as it was.
Learns(c, got) == got \in Cmd /\ got.kind = c.kind

SameGens(c, got) == got.gen = c.gen /\ got.diff = c.diff /\ got.cur = c.cur

LEMMA LearntFields ==
  ASSUME NEW c \in Cmd
  PROVE  /\ Learns(c, Failed(c)) /\ SameGens(c, Failed(c)) /\ ~Failed(c).ok
         /\ \A gen \in 0 .. MaxGen : \A got : got = [c EXCEPT !.gen = gen] =>
              /\ Learns(c, got) /\ got.gen = gen /\ got.ok = c.ok
              /\ got.diff = c.diff /\ got.cur = c.cur
         /\ \A gen \in Gen : \A got : got = [c EXCEPT !.diff = gen] =>
              /\ Learns(c, got) /\ got.diff = gen /\ got.ok = c.ok
              /\ got.gen = c.gen /\ got.cur = c.cur
         /\ \A gen \in Gen : \A got : got = [c EXCEPT !.cur = gen] =>
              /\ Learns(c, got) /\ got.cur = gen /\ got.ok = c.ok
              /\ got.gen = c.gen /\ got.diff = c.diff
         /\ \A ok \in BOOLEAN : \A got : got = [c EXCEPT !.ok = ok] =>
              Learns(c, got) /\ SameGens(c, got) /\ got.ok = ok
         /\ \A state \in States : \A got : got = [c EXCEPT !.report = state] =>
              Learns(c, got) /\ SameGens(c, got) /\ got.ok = c.ok
  <1>1. Learns(c, Failed(c)) /\ SameGens(c, Failed(c)) /\ ~Failed(c).ok
    BY DEF Cmd, Failed, Learns, SameGens
  <1>2. ASSUME NEW gen \in 0 .. MaxGen, NEW got, got = [c EXCEPT !.gen = gen]
        PROVE  /\ Learns(c, got) /\ got.gen = gen /\ got.ok = c.ok
               /\ got.diff = c.diff /\ got.cur = c.cur
    BY <1>2 DEF Cmd, Learns
  <1>3. ASSUME NEW gen \in Gen, NEW got, got = [c EXCEPT !.diff = gen]
        PROVE  /\ Learns(c, got) /\ got.diff = gen /\ got.ok = c.ok
               /\ got.gen = c.gen /\ got.cur = c.cur
    BY <1>3 DEF Cmd, Learns
  <1>4. ASSUME NEW gen \in Gen, NEW got, got = [c EXCEPT !.cur = gen]
        PROVE  /\ Learns(c, got) /\ got.cur = gen /\ got.ok = c.ok
               /\ got.gen = c.gen /\ got.diff = c.diff
    BY <1>4 DEF Cmd, Learns
  <1>5. ASSUME NEW ok \in BOOLEAN, NEW got, got = [c EXCEPT !.ok = ok]
        PROVE  Learns(c, got) /\ SameGens(c, got) /\ got.ok = ok
    BY <1>5 DEF Cmd, Learns, SameGens
  <1>6. ASSUME NEW state \in States, NEW got, got = [c EXCEPT !.report = state]
        PROVE  Learns(c, got) /\ SameGens(c, got) /\ got.ok = c.ok
    BY <1>6 DEF Cmd, Learns, SameGens
  <1> QED
    BY <1>1, <1>2, <1>3, <1>4, <1>5, <1>6, Zenon

\* What a step of a command does to the mutex and to the driver.
Unlocked(a) ==
  /\ cmd[a].at \notin UnderMutex /\ cmd'[a].at \notin UnderMutex
  /\ UNCHANGED mutex
  /\ UNCHANGED driverVars \/ InstallService \/ StartService

Draws(a) ==
  /\ cmd'[a].at = "commit" /\ cmd'[a].gen = nextGen'
  /\ mutex = NoActor /\ mutex' = a
  /\ Loaded /\ DrawGen

Commits(a) ==
  /\ cmd[a].at = "commit" /\ cmd'[a].at \notin UnderMutex
  /\ mutex' = NoActor
  /\ \/ UNCHANGED driverVars
     \/ CommitBaseline(cmd[a].gen)
     \/ CommitCurrent(cmd[a].gen, TRUE)
     \/ CommitCurrent(cmd[a].gen, FALSE)

Locks(a) ==
  /\ cmd'[a].at \in {"queryFirst", "stop"}
  /\ mutex = NoActor /\ mutex' = a
  /\ UNCHANGED driverVars

Removing == {"queryFirst", "stop", "delete"}

Removes(a) ==
  /\ cmd[a].at \in Removing
  /\ \/ /\ cmd'[a].at \in Removing /\ UNCHANGED mutex
        /\ UNCHANGED driverVars \/ StopService
     \/ /\ cmd'[a].at = "sent" /\ mutex' = NoActor
        /\ UNCHANGED driverVars \/ StopTimesOut \/ DeleteService

\* What a step of a command may change of it, and that it changes no other.
LEMMA StepFrame ==
  ASSUME DriverType, SessionType, NEW a \in Actors, Device(a) \/ Service(a)
  PROVE  /\ UNCHANGED <<app, ui>>
         /\ cmd[a].at \notin {"none", "sent"} /\ cmd'[a].kind = cmd[a].kind
         /\ cmd'[a].gen = cmd[a].gen \/ cmd'[a].gen = nextGen'
         /\ cmd'[a].diff \in {cmd[a].diff, DiffGen, CurrentGen}
         /\ cmd'[a].cur \in {cmd[a].cur, CurrentGen}
         /\ Unlocked(a) \/ Draws(a) \/ Commits(a) \/ Locks(a) \/ Removes(a)
         /\ \A b \in Actors : b # a => cmd'[b] = cmd[b]
  <1>1. cmd[a] \in Cmd
    BY DEF SessionType
  <1>2. /\ IoctlSteps \subseteq Steps
        /\ {"none", "commit", "query", "install", "start", "lock", "queryFirst",
            "stop", "delete", "sent"} \subseteq Steps
    BY DEF Steps
  <1>3. DiffGen \in Gen /\ CurrentGen \in Gen
    BY GenTypes
  <1> USE <1>1, <1>2, AdvanceEffect, LearntFields
          DEF Sends, IoctlSteps, Learns, SameGens, UnderMutex, Removing
  <1>4. CASE IoctlFails(a)
    BY <1>4 DEF IoctlFails, Unlocked
  <1>5. CASE Create(a)
    <2>1. nextGen' \in 0 .. MaxGen
      BY <1>5, MaxGenNat DEF Create, DrawGen, DriverType, Draws
    <2>2. PICK got : got = [cmd[a] EXCEPT !.gen = nextGen']
      OBVIOUS
    <2> QED
      BY <1>5, <2>1, <2>2 DEF Create, Draws
  <1>6. CASE CreateFails(a)
    BY <1>6 DEF CreateFails, Commits
  <1>7. CASE BaselineCommit(a)
    BY <1>7 DEF BaselineCommit, Commits
  <1>8. CASE CurrentCommit(a)
    <2>1. cmd[a].at = "commit" /\ cmd'[a].at = "diffCount" /\ UNCHANGED <<app, ui>> /\ mutex' = NoActor
      BY <1>8 DEF CurrentCommit
    <2>2. CommitCurrent(cmd[a].gen, TRUE)
      BY <1>8, Zenon DEF CurrentCommit
    <2>3. cmd'[a].at \notin UnderMutex
      BY <2>1
    <2>4. Commits(a)
      BY <2>1, <2>2, <2>3, Zenon DEF Commits
    <2> QED
      BY <1>8, <2>1, <2>4 DEF CurrentCommit
  <1>9. CASE CurrentCommitWithoutDiff(a)
    <2>1. cmd[a].at = "commit" /\ cmd'[a].at = "sent" /\ UNCHANGED <<app, ui>> /\ mutex' = NoActor
      BY <1>9 DEF CurrentCommitWithoutDiff
    <2>2. CommitCurrent(cmd[a].gen, FALSE)
      BY <1>9, Zenon DEF CurrentCommitWithoutDiff
    <2>3. cmd'[a].at \notin UnderMutex
      BY <2>1
    <2>4. Commits(a)
      BY <2>1, <2>2, <2>3, Zenon DEF Commits
    <2> QED
      BY <1>9, <2>1, <2>4 DEF CurrentCommitWithoutDiff
  <1>10. AfterDiff(a) \in {"sent", "curCount"}
    BY DEF AfterDiff
  <1>11. CASE DiffCount(a)
    BY <1>10, <1>11 DEF DiffCount, Ioctl, Unlocked
  <1>12. CASE DiffEntries(a)
    <2>1. PICK got : got = [cmd[a] EXCEPT !.diff = DiffGen]
      OBVIOUS
    <2> QED
      BY <1>3, <1>10, <1>12, <2>1 DEF DiffEntries, Ioctl, Unlocked
  <1>13. CASE CurrentCount(a)
    BY <1>13 DEF CurrentCount, Ioctl, Unlocked
  <1>14. CASE CurrentEntries(a)
    <2>1. PICK got : got = [cmd[a] EXCEPT !.cur = CurrentGen]
      OBVIOUS
    <2> QED
      BY <1>3, <1>14, <2>1 DEF CurrentEntries, Ioctl, Unlocked
  <1>15. CASE Read(a) \/ Ping(a)
    BY <1>15 DEF Read, Ping, Ioctl, Unlocked
  <1>16. CASE Search(a)
    <2>1. PICK target \in {DiffGen, CurrentGen} :
            Ioctl(a, "search", "sent", [cmd[a] EXCEPT !.diff = target])
      BY <1>16 DEF Search
    <2>2. PICK got : got = [cmd[a] EXCEPT !.diff = target]
      OBVIOUS
    <2> QED
      BY <1>3, <2>1, <2>2 DEF Ioctl, Unlocked
  <1>17. CASE QueryStatus(a)
    <2>1. Reports \subseteq States
      BY DEF Reports, Unopened, DriverType, States
    <2>2. PICK state \in Reports : Sends(a, [cmd[a] EXCEPT !.report = state])
      BY <1>17 DEF QueryStatus, Unlocked
    <2>3. PICK got : got = [cmd[a] EXCEPT !.report = state]
      OBVIOUS
    <2> QED
      BY <1>17, <2>1, <2>2, <2>3 DEF QueryStatus, Unlocked
  <1>18. CASE UnlockedStepFails(a)
    BY <1>18 DEF UnlockedStepFails, Unlocked
  <1>19. CASE Install(a)
    BY <1>19 DEF Install, Unlocked
  <1>20. CASE Start(a)
    <2>1. PICK ok \in BOOLEAN : Sends(a, [cmd[a] EXCEPT !.ok = ok])
      BY <1>20 DEF Start, Unlocked
    <2>2. PICK got : got = [cmd[a] EXCEPT !.ok = ok]
      OBVIOUS
    <2> QED
      BY <1>20, <2>1, <2>2 DEF Start, Unlocked
  <1>21. CASE Lock(a)
    BY <1>21 DEF Lock, Locks
  <1>22. CASE QueryFirst(a)
    BY <1>22 DEF QueryFirst, Unlock, Removes
  <1>23. CASE StopFindsNone(a)
    BY <1>23 DEF StopFindsNone, Unlock, Removes
  <1>24. CASE Stop(a)
    BY <1>24 DEF Stop, Removes
  <1>25. CASE Delete(a)
    BY <1>25 DEF Delete, Unlock, Removes
  <1>26. CASE LockedStepFails(a)
    BY <1>26 DEF LockedStepFails, Unlock, Removes
  <1> QED
    BY <1>4, <1>5, <1>6, <1>7, <1>8, <1>9, <1>11, <1>12, <1>13, <1>14, <1>15, <1>16,
       <1>17, <1>18, <1>19, <1>20, <1>21, <1>22, <1>23, <1>24, <1>25, <1>26
       DEF Device, Service

\* A key starts one command in a free slot, or none.  The command knows of no
\* snapshots but those of a row that is shown.
KeyStarts(c) ==
  /\ c.kind \notin {"none", "cleanup"}
  /\ c.at \notin UnderMutex \cup {"sent"}
  /\ c.gen = 0 /\ c.diff \in {NoGen} \cup Shown /\ c.cur = NoGen

LEMMA KeyFrame ==
  ASSUME SessionType, Keys
  PROVE  /\ UNCHANGED <<app, mutex>>
         /\ \/ cmd' = cmd
            \/ \E s \in Free : \E c :
                 CanStart /\ cmd' = [cmd EXCEPT ![s] = c] /\ KeyStarts(c)
  <1>1. ASSUME NEW command, KeyStarts(command), Key(command)
        PROVE  /\ UNCHANGED <<app, mutex>>
               /\ \E s \in Free : \E c :
                    CanStart /\ cmd' = [cmd EXCEPT ![s] = c] /\ KeyStarts(c)
    BY <1>1 DEF Key, Launch
  <1>2. /\ KeyStarts(Command("start", "install"))
        /\ KeyStarts(Command("stop", "lock"))
        /\ KeyStarts(Command("baseline", "create"))
        /\ KeyStarts(Command("current", "create"))
        /\ KeyStarts(Command("diff", "diffCount"))
        /\ KeyStarts(Command("entries", "curCount"))
        /\ KeyStarts(Command("search", "search"))
        /\ KeyStarts(Command("shutdown", "lock"))
    BY DEF KeyStarts, Command, NoCmd, UnderMutex
  <1>3. ASSUME NEW kind \in {"dump", "pte"}, NEW row \in Shown
        PROVE  KeyStarts([Command(kind, "read") EXCEPT !.diff = row])
    BY DEF KeyStarts, Command, NoCmd, UnderMutex
  <1>4. CASE KeyStart \/ KeyStop \/ KeyBaseline \/ KeyCurrent \/ KeyReloadDiff \/ KeyTable
    BY <1>1, <1>2, <1>4
       DEF KeyStart, KeyStop, KeyBaseline, KeyCurrent, KeyReloadDiff, KeyTable
  <1>5. CASE KeyDump \/ KeyDumpPage
    <2>1. {ui.diff, ui.cur} \ {NoGen} \subseteq Shown
      BY DEF Shown
    <2>2. \A p \in Panels : ui.panel[p] # NoGen => ui.panel[p] \in Shown
      BY DEF Shown
    <2>3. "search" \in Panels /\ "dump" \in Panels
      BY DEF Panels
    <2> QED
      BY <1>1, <1>3, <1>5, <2>1, <2>2, <2>3 DEF KeyDump, KeyDumpPage
  <1>6. CASE KeyInput \/ KeyEscape
    BY <1>6 DEF KeyInput, KeyEscape
  <1>7. CASE KeySearch \/ KeyQuit
    BY <1>2, <1>7 DEF KeySearch, KeyQuit, Launch
  <1> QED
    BY <1>4, <1>5, <1>6, <1>7 DEF Keys

LEMMA KeyMutex ==
  ASSUME Types, MutexInv, Keys
  PROVE  MutexInv'
  <1>1. UNCHANGED <<driverVars, mutex>>
    BY KeyTypes, KeyFrame DEF Types
  <1>2. \A a \in Actors : cmd'[a] = cmd[a] \/ cmd'[a].at \notin UnderMutex
    BY KeyFrame DEF Types, SessionType, KeyStarts
  <1> QED
    BY <1>1, <1>2, QuietSteps DEF driverVars, Loaded

LEMMA StepMutex ==
  ASSUME Types, MutexInv, NEW a \in Actors, Device(a) \/ Service(a)
  PROVE  MutexInv'
  <1>1. \A b \in Actors : b # a => cmd'[b] = cmd[b]
    BY StepFrame DEF Types
  <1>2. /\ drv.base \in Nat /\ drv.cur \in Nat /\ nextGen \in Nat
        /\ drv \in [base : 0 .. MaxGen, cur : 0 .. MaxGen, diffed : BOOLEAN]
    BY MaxGenNat DEF Types, DriverType
  <1>3. mutex = NoActor => \A b \in Actors : cmd[b].at \notin UnderMutex
    BY ActorsAreDistinct DEF MutexInv, MutexHeld, Actors
  <1>4. cmd[a].at \in UnderMutex =>
          \A b \in Actors : b # a => cmd[b].at \notin UnderMutex
    BY DEF MutexInv, MutexHeld
  <1>5. CASE Unlocked(a)
    <2>1. CASE UNCHANGED driverVars \/ InstallService
      BY <1>1, <1>5, <2>1, QuietSteps DEF Unlocked, driverVars, InstallService, Loaded
    <2>2. CASE StartService /\ svc = "running"
      BY <1>1, <1>5, <2>2, QuietSteps DEF Unlocked, StartService, Loaded
    <2>3. CASE StartService /\ svc # "running"
      <3>1. \A b \in Actors : cmd[b].at # "commit"
        BY <2>3 DEF StartService, MutexInv, Committing, Loaded
      <3>2. \A b \in Actors : cmd'[b].at # "commit"
        BY <1>1, <1>5, <3>1 DEF Unlocked, UnderMutex
      <3>3. MutexHeld'
        BY <1>1, <1>5 DEF Unlocked, MutexInv, MutexHeld
      <3> QED
        BY <1>2, <2>3, <3>2, <3>3
           DEF StartService, NoSnapshots, MutexInv, Committing, DrawnBefore,
               CurrentLaterThanBaseline
    <2> QED
      BY <1>5, <2>1, <2>2, <2>3 DEF Unlocked
  <1>6. CASE Draws(a)
    <2>1. /\ cmd'[a].at = "commit" /\ cmd'[a].gen = nextGen'
          /\ nextGen' = nextGen + 1 /\ UNCHANGED <<svc, drv>>
          /\ mutex' = a /\ Loaded
      BY <1>6 DEF Draws, DrawGen
    <2>2. \A b \in Actors : b # a => cmd'[b].at \notin UnderMutex
      BY <1>1, <1>3, <1>6 DEF Draws
    <2> QED
      BY <1>2, <2>1, <2>2
         DEF MutexInv, MutexHeld, Committing, DrawnBefore, CurrentLaterThanBaseline,
             Loaded, UnderMutex
  <1>7. CASE Commits(a)
    <2>1. \A b \in Actors : cmd'[b].at \notin UnderMutex
      BY <1>1, <1>4, <1>7 DEF Commits, UnderMutex
    <2>2. cmd[a].gen = nextGen /\ drv.base < nextGen
      BY <1>7 DEF Commits, MutexInv, Committing
    <2>3. /\ nextGen' = nextGen
          /\ \/ drv' = drv
             \/ drv'.base = nextGen /\ drv'.cur = 0
             \/ drv'.base = drv.base /\ drv'.cur = nextGen
      <3>1. CASE UNCHANGED driverVars \/ CommitBaseline(cmd[a].gen)
        BY <2>2, <3>1 DEF CommitBaseline, driverVars
      <3>2. ASSUME NEW rebuilt, CommitCurrent(cmd[a].gen, rebuilt)
            PROVE  /\ nextGen' = nextGen
                   /\ drv'.base = drv.base /\ drv'.cur = nextGen
        <4>1. PICK d : d = [drv EXCEPT !.cur = nextGen]
          OBVIOUS
        <4>2. drv' = [d EXCEPT !.diffed = rebuilt] /\ nextGen' = nextGen
          BY <2>2, <3>2, <4>1 DEF CommitCurrent
        <4> QED
          BY <1>2, <4>1, <4>2
      <3> QED
        BY <1>7, <3>1, <3>2, Zenon DEF Commits
    <2>4. DrawnBefore' /\ CurrentLaterThanBaseline'
      BY <1>2, <2>2, <2>3 DEF MutexInv, DrawnBefore, CurrentLaterThanBaseline
    <2> QED
      BY <2>1, <2>4 DEF MutexInv, MutexHeld, Committing, UnderMutex
  <1>8. CASE Locks(a)
    <2>1. \A b \in Actors : b # a => cmd'[b].at \notin UnderMutex
      BY <1>1, <1>3, <1>8 DEF Locks
    <2> QED
      BY <1>8, <2>1
         DEF Locks, MutexInv, MutexHeld, Committing, DrawnBefore,
             CurrentLaterThanBaseline, UnderMutex, driverVars
  <1>9. CASE Removes(a)
    <2>1. \A b \in Actors : b # a => cmd'[b].at \notin UnderMutex
      BY <1>1, <1>4, <1>9 DEF Removes, Removing, UnderMutex
    <2>2. cmd'[a].at # "commit" /\ (cmd'[a].at \in UnderMutex => mutex' = a)
      BY <1>9 DEF Removes, Removing, UnderMutex, MutexInv, MutexHeld
    <2>3. MutexHeld' /\ Committing'
      BY <2>1, <2>2 DEF MutexHeld, Committing, UnderMutex
    <2>4. UNCHANGED <<drv, nextGen>> \/ (drv' = NoSnapshots /\ nextGen' = nextGen)
      BY <1>9 DEF Removes, driverVars, StopService, StopTimesOut, DeleteService
    <2>5. DrawnBefore' /\ CurrentLaterThanBaseline'
      BY <1>2, <2>4 DEF NoSnapshots, MutexInv, DrawnBefore, CurrentLaterThanBaseline
    <2> QED
      BY <2>3, <2>5 DEF MutexInv
  <1> QED
    BY <1>5, <1>6, <1>7, <1>8, <1>9, StepFrame DEF Types

LEMMA MessagesMutex ==
  ASSUME Types, MutexInv, NEW s \in Slots, Messages(s)
  PROVE  MutexInv'
  <1>1. \A c : Left(c) => c.at \notin UnderMutex
    BY CommandFields DEF Left, UnderMutex
  <1>2. UNCHANGED <<driverVars, mutex>>
    BY MessagesTypes
       DEF Types, Messages, ErrorMessage, StatusMessage, PingMessage, StartMessage,
           StopMessage, ActionError, BaselineMessage, CurrentMessage, DiffMessage,
           EntriesMessage, PanelMessage, ShutdownMessage, Message
  <1> QED
    BY <1>1, <1>2, MessagesLeave, QuietSteps DEF Types, driverVars, Loaded

LEMMA InitMutex == Init => MutexInv
  BY FirstCommandsAre, CommandFields
     DEF Init, DriverInit, NoSnapshots, MutexInv, MutexHeld, Committing, DrawnBefore,
         CurrentLaterThanBaseline, UnderMutex

LEMMA NextMutex ==
  ASSUME Types, MutexInv, [Next]_vars
  PROVE  MutexInv'
  <1>1. CASE UNCHANGED vars
    BY <1>1, QuietSteps DEF vars, driverVars, sessionVars, Loaded
  <1>2. CASE StopsLate /\ UNCHANGED sessionVars
    <2>1. \A a \in Actors : cmd[a].at # "commit"
      BY <1>2 DEF StopsLate, MutexInv, Committing, Loaded
    <2>2. nextGen \in Nat
      BY MaxGenNat DEF Types, DriverType
    <2> QED
      BY <1>2, <2>1, <2>2
         DEF StopsLate, NoSnapshots, sessionVars, MutexInv, MutexHeld, Committing,
             DrawnBefore, CurrentLaterThanBaseline
  <1>3. CASE Exit
    BY <1>3, QuietSteps DEF Exit, driverVars, Loaded
  <1>4. CASE Restart
    <2>1. \A a \in Actors : cmd'[a].at \notin UnderMutex
      BY <1>4, FirstCommandsAre, CommandFields DEF Restart, UnderMutex
    <2> QED
      BY <1>4, <2>1
         DEF Restart, driverVars, MutexInv, MutexHeld, Committing, DrawnBefore,
             CurrentLaterThanBaseline, UnderMutex
  <1>5. CASE ProgramEnds
    <2>1. \A a \in Actors : cmd'[a] = cmd[a] \/ cmd'[a].at \notin UnderMutex
      BY <1>5, EndFrame DEF Types, UnderMutex
    <2> QED
      BY <1>5, <2>1, EndFrame, QuietSteps DEF Types, driverVars, Loaded
  <1> QED
    BY <1>1, <1>2, <1>3, <1>4, <1>5, KeyMutex, StepMutex, MessagesMutex DEF Next, Step

LEMMA MutexInvHolds == Spec => [](Types /\ MutexInv)
  BY InitTypes, NextTypes, InitMutex, NextMutex, PTL DEF Spec

\* However fast the keys are, a snapshot the driver compares was taken after
\* the baseline it is compared with: deviceHandleMu keeps one create from
\* committing between another's draw of its number and its commit.
THEOREM CreatesAreSerialised == Spec => []CurrentLaterThanBaseline
  <1>1. MutexInv => CurrentLaterThanBaseline
    BY DEF MutexInv
  <1> QED
    BY <1>1, MutexInvHolds, PTL

\* The driver is not unloaded under a request that it is working on: a stop
\* holds deviceHandleMu until the service is stopped.
THEOREM StopsWaitForRequests == Spec => []DriverStaysWhileCommitting
  <1>1. MutexInv => DriverStaysWhileCommitting
    BY DEF MutexInv, Committing, DriverStaysWhileCommitting
  <1> QED
    BY <1>1, MutexInvHolds, PTL

-----------------------------------------------------------------------------
(***************************************************************************)
(* What an exit leaves                                                     *)
(***************************************************************************)

(***************************************************************************)
(* main cleans up once the program is gone, and ends after the answer.  It *)
(* is answered without complaint only by the deletion of the service or by *)
(* finding none, and from then on nothing but a start makes another one.   *)
(***************************************************************************)
RemovedInv ==
  /\ app = "running" => cmd[Main].at = "none"
  /\ app # "running" => cmd[Main].kind = "cleanup"
  /\ app = "exited" => cmd[Main].at = "sent"
  /\ /\ cmd[Main].at = "sent"
     /\ cmd[Main].ok
     /\ \A s \in Slots : cmd[s].kind # "start"
     => svc \in {"absent", "marked"}

\* What a message makes of the commands: it takes the place of its own with a
\* status query or with nothing; only a start is answered with two commands,
\* and a shutdown with main's.
LEMMA MessageFrame ==
  ASSUME SessionType, NEW s \in Slots, Messages(s)
  PROVE  /\ cmd[s].kind # "none" /\ cmd[s].at = "sent" /\ app = "running"
         /\ \/ /\ app' = app
               /\ \E c \in {NoCmd, Command("status", "query")} :
                    cmd' = [cmd EXCEPT ![s] = c]
            \/ /\ app' = app /\ cmd[s].kind = "start"
               /\ \E spare \in Free : cmd' = [Requery(s) EXCEPT ![spare] = Command("ping", "ping")]
            \/ /\ app' = "cleanup" /\ cmd[s].kind = "shutdown" /\ ui' = InitUi
               /\ cmd' = [Done(s) EXCEPT ![Main] = Command("cleanup", "lock")]
  <1>1. ASSUME NEW kind, kind # "none", NEW ok, NEW model, NEW commands,
               commands \in {Done(s), Requery(s)},
               Message(s, kind, ok, model, commands)
        PROVE  /\ cmd[s].kind # "none" /\ cmd[s].at = "sent" /\ app = "running"
               /\ app' = app
               /\ \E c \in {NoCmd, Command("status", "query")} :
                    cmd' = [cmd EXCEPT ![s] = c]
    BY <1>1 DEF Message, Done, Requery
  <1>2. \A kind \in {"baseline", "current", "diff", "entries", "shutdown"} \cup Panels :
          kind # "none"
    BY DEF Panels
  <1>3. CASE ErrorMessage(s)
    BY <1>1, <1>2, <1>3 DEF ErrorMessage
  <1>4. CASE StatusMessage(s) \/ PingMessage(s)
    BY <1>1, <1>4 DEF StatusMessage, PingMessage
  <1>5. CASE StopMessage(s) \/ ActionError(s)
    BY <1>1, <1>5 DEF StopMessage, ActionError
  <1>6. CASE BaselineMessage(s) \/ CurrentMessage(s) \/ DiffMessage(s) \/ EntriesMessage(s)
    BY <1>1, <1>6 DEF BaselineMessage, CurrentMessage, DiffMessage, EntriesMessage
  <1>7. CASE PanelMessage(s)
    BY <1>1, <1>2, <1>7 DEF PanelMessage
  <1>8. CASE StartMessage(s)
    BY <1>8 DEF StartMessage, Message
  <1>9. CASE ShutdownMessage(s)
    BY <1>9 DEF ShutdownMessage
  <1> QED
    BY <1>3, <1>4, <1>5, <1>6, <1>7, <1>8, <1>9 DEF Messages

\* What a step of a command does to the service.
LeavesService(a) ==
  /\ UNCHANGED svc
  /\ cmd'[a].at # "delete"
  /\ cmd[a].kind = "cleanup" /\ cmd'[a].at = "sent" /\ cmd'[a].ok => Unopened

StartsService(a) ==
  /\ cmd[a].at \in {"install", "start"} /\ cmd'[a].at # "delete"
  /\ InstallService \/ StartService

StopsService(a) ==
  cmd[a].at = "stop" /\ cmd'[a].at = "delete" /\ StopService

FailsToStop(a) ==
  cmd[a].at = "stop" /\ cmd'[a].at = "sent" /\ ~cmd'[a].ok /\ StopTimesOut

DeletesService(a) ==
  cmd[a].at = "delete" /\ cmd'[a].at = "sent" /\ DeleteService

LEMMA ServiceEffects ==
  ASSUME Types, NEW a \in Actors, Device(a) \/ Service(a)
  PROVE  \/ LeavesService(a) \/ StartsService(a) \/ StopsService(a)
         \/ FailsToStop(a) \/ DeletesService(a)
  <1>1. cmd[a] \in Cmd /\ Path(cmd[a]) /\ SessionType /\ DriverType
    BY DEF Types, SessionType, Paths
  <1>2. /\ IoctlSteps \subseteq Steps
        /\ {"none", "commit", "query", "install", "start", "lock", "queryFirst",
            "stop", "delete", "sent"} \subseteq Steps
    BY DEF Steps
  <1> USE <1>1, <1>2, AdvanceEffect, LearntFields DEF Sends, Learns
  <1>3. ASSUME cmd[a].at \in IoctlSteps \cup {"commit", "query", "install", "start"},
               UNCHANGED svc
        PROVE  LeavesService(a)
    <2>1. cmd[a].kind # "cleanup"
      BY <1>3 DEF Path, IoctlSteps, Panels
    <2>2. cmd'[a].at # "delete"
      BY <1>3, StepFrame
         DEF Unlocked, Draws, Commits, Locks, Removes, Removing, UnderMutex, IoctlSteps
    <2> QED
      BY <1>3, <2>1, <2>2 DEF LeavesService
  <1>4. CASE Device(a) \/ QueryStatus(a) \/ UnlockedStepFails(a)
    <2>1. cmd[a].at \in IoctlSteps \cup {"commit", "query", "install", "start"}
      BY <1>4
         DEF Device, IoctlFails, Create, CreateFails, BaselineCommit, CurrentCommit,
             CurrentCommitWithoutDiff, DiffCount, DiffEntries, CurrentCount,
             CurrentEntries, Read, Search, Ping, Ioctl, QueryStatus,
             UnlockedStepFails, IoctlSteps
    <2>2. UNCHANGED svc
      BY <1>4
         DEF Device, IoctlFails, Create, DrawGen, CreateFails, BaselineCommit,
             CommitBaseline, CurrentCommit, CurrentCommitWithoutDiff, CommitCurrent,
             DiffCount, DiffEntries, CurrentCount, CurrentEntries, Read, Search,
             Ping, Ioctl, QueryStatus, UnlockedStepFails, driverVars
    <2> QED
      BY <1>3, <2>1, <2>2
  <1>5. CASE Install(a)
    BY <1>5 DEF Install, StartsService
  <1>6. CASE Start(a)
    <2>1. PICK ok \in BOOLEAN : Sends(a, [cmd[a] EXCEPT !.ok = ok])
      BY <1>6 DEF Start
    <2>2. PICK got : got = [cmd[a] EXCEPT !.ok = ok]
      OBVIOUS
    <2> QED
      BY <1>6, <2>1, <2>2 DEF Start, StartsService
  <1>7. CASE Lock(a)
    BY <1>7 DEF Lock, LeavesService, driverVars
  <1>8. CASE QueryFirst(a)
    <2>1. "absent" \in Reports => Unopened
      BY DEF Reports, Unopened
    <2> QED
      BY <1>8, <2>1 DEF QueryFirst, Unlock, LeavesService, driverVars
  <1>9. CASE StopFindsNone(a)
    BY <1>9 DEF StopFindsNone, Unlock, LeavesService, driverVars
  <1>10. CASE Stop(a)
    BY <1>10 DEF Stop, StopsService
  <1>11. CASE Delete(a)
    BY <1>11 DEF Delete, Unlock, DeletesService
  <1>12. CASE LockedStepFails(a)
    BY <1>12 DEF LockedStepFails, Unlock, LeavesService, FailsToStop, driverVars
  <1> QED
    BY <1>4, <1>5, <1>6, <1>7, <1>8, <1>9, <1>10, <1>11, <1>12 DEF Service

LEMMA KeyRemoved ==
  ASSUME Types, RemovedInv, Keys
  PROVE  RemovedInv'
  <1>1. UNCHANGED svc /\ UNCHANGED app
    BY KeyTypes, KeyFrame DEF Types, driverVars
  <1>2. cmd'[Main] = cmd[Main]
    BY KeyFrame, ActorsAreDistinct DEF Types, SessionType, Free, Actors
  <1>3. app = "running"
    BY DEF Keys, KeyStart, KeyStop, KeyBaseline, KeyCurrent, KeyReloadDiff, KeyTable,
           KeyDump, KeyDumpPage, KeyInput, KeySearch, KeyQuit, KeyEscape, Key, CanStart
  <1> QED
    BY <1>1, <1>2, <1>3 DEF RemovedInv

LEMMA StepRemoved ==
  ASSUME Types, RemovedInv, NEW a \in Actors, Device(a) \/ Service(a)
  PROVE  RemovedInv'
  <1>1. /\ UNCHANGED app /\ cmd'[a].kind = cmd[a].kind
        /\ cmd[a].at \notin {"none", "sent"}
        /\ \A b \in Actors : b # a => cmd'[b] = cmd[b]
    BY StepFrame DEF Types
  <1>2. Main \in Actors /\ Slots \subseteq Actors /\ Main \notin Slots
    BY ActorsAreDistinct DEF Actors
  <1>3. app = "running" => a # Main
    BY <1>1 DEF RemovedInv
  <1>4. app = "exited" => a # Main
    BY <1>1 DEF RemovedInv
  <1>5. \A b \in Actors : cmd'[b].kind = cmd[b].kind
    BY <1>1
  <1> SUFFICES ASSUME cmd'[Main].at = "sent", cmd'[Main].ok,
                      \A s \in Slots : cmd[s].kind # "start"
               PROVE  svc' \in {"absent", "marked"}
    BY <1>1, <1>2, <1>3, <1>4, <1>5 DEF RemovedInv
  <1>6. app # "running"
    BY <1>1, <1>2, <1>3 DEF RemovedInv
  <1>7. a # Main => svc \in {"absent", "marked"}
    BY <1>1, <1>2 DEF RemovedInv
  <1>8. cmd[Main].kind = "cleanup" /\ Path(cmd[a])
    BY <1>6 DEF RemovedInv, Types, Paths
  <1>9. CASE LeavesService(a)
    BY <1>7, <1>8, <1>9 DEF LeavesService, Unopened
  <1>10. CASE StartsService(a)
    <2>1. cmd[a].kind = "start"
      BY <1>8, <1>10 DEF StartsService, Path
    <2> QED
      BY <1>8, <2>1 DEF Actors
  <1>11. CASE StopsService(a)
    BY <1>7, <1>11 DEF StopsService, StopService
  <1>12. CASE FailsToStop(a)
    BY <1>7, <1>12 DEF FailsToStop, StopTimesOut
  <1>13. CASE DeletesService(a)
    BY <1>13 DEF DeletesService, DeleteService
  <1> QED
    BY <1>9, <1>10, <1>11, <1>12, <1>13, ServiceEffects

LEMMA MessagesRemoved ==
  ASSUME Types, RemovedInv, NEW s \in Slots, Messages(s)
  PROVE  RemovedInv'
  <1>1. s # Main /\ Main \in Actors /\ SessionType
    BY ActorsAreDistinct DEF Actors, Types
  <1>2. app = "running"
    BY <1>1, MessageFrame
  <1>3. \/ cmd'[Main] = cmd[Main] /\ app' = app
        \/ cmd'[Main] = Command("cleanup", "lock") /\ app' = "cleanup"
    <2>1. PICK old, done, requery :
            old = cmd /\ done = Done(s) /\ requery = Requery(s)
      OBVIOUS
    <2>2. /\ done \in [Actors -> Cmd] /\ requery \in [Actors -> Cmd]
          /\ done[Main] = old[Main] /\ requery[Main] = old[Main]
      BY <1>1, <2>1, CommandsLeft DEF SessionType, Done, Requery
    <2> QED
      BY <1>1, <2>1, <2>2, MessageFrame, ActorsAreDistinct DEF SessionType, Free
  <1> QED
    BY <1>2, <1>3, CommandFields DEF RemovedInv

LEMMA NextRemoved ==
  ASSUME Types, RemovedInv, [Next]_vars
  PROVE  RemovedInv'
  <1>1. CASE UNCHANGED vars
    BY <1>1 DEF vars, driverVars, sessionVars, RemovedInv
  <1>2. CASE StopsLate /\ UNCHANGED sessionVars
    BY <1>2 DEF StopsLate, sessionVars, RemovedInv
  <1>3. CASE ProgramEnds
    BY <1>3, EndFrame DEF Types, RemovedInv
  <1>4. CASE Exit
    BY <1>4 DEF Exit, driverVars, RemovedInv
  <1>5. CASE Restart
    <2>1. cmd'[Main] = NoCmd
      BY <1>5, ActorsAreDistinct DEF Restart, FirstCommands, Actors
    <2> QED
      BY <1>5, <2>1, CommandFields DEF Restart, RemovedInv
  <1> QED
    BY <1>1, <1>2, <1>3, <1>4, <1>5, KeyRemoved, StepRemoved, MessagesRemoved
       DEF Next, Step

\* A program that ends without complaint, with no start under way, leaves no
\* service that would stay, however fast the keys were and however it ended.
THEOREM ExitsLeaveNoService == Spec => []ExitLeavesNoService
  <1> DEFINE I == Types /\ RemovedInv
  <1>1. Init => I
    <2>1. Init => cmd[Main] = NoCmd
      BY ActorsAreDistinct DEF Init, FirstCommands, Actors
    <2> QED
      BY <2>1, InitTypes, CommandFields DEF Init, RemovedInv
  <1>2. I /\ [Next]_vars => I'
    BY NextTypes, NextRemoved
  <1>3. I => ExitLeavesNoService
    BY DEF RemovedInv, ExitLeavesNoService
  <1> HIDE DEF I
  <1> QED
    BY <1>1, <1>2, <1>3, PTL DEF Spec

-----------------------------------------------------------------------------
(***************************************************************************)
(* A patient user: who waits for every answer before the next key, or the  *)
(* end of the program (Patient)                                            *)
(***************************************************************************)

(***************************************************************************)
(* One command at a time: beside another command there are only the two    *)
(* queries that follow a start.  main cleans up once the program is gone.  *)
(***************************************************************************)

OneAtATime ==
  \A a, b \in Actors :
    a # b /\ cmd[a].kind # "none" /\ cmd[b].kind # "none"
      => cmd[a].kind \in {"status", "ping"}

MainCleansUp ==
  IF app = "running" THEN cmd[Main].kind = "none" ELSE cmd[Main].kind = "cleanup"

PatientInv == OneAtATime /\ MainCleansUp

LEMMA InitPatient == Init => PatientInv
  <1>1. ASSUME NEW s \in Slots,
               cmd = [a \in Actors |-> IF a = s THEN Command("status", "query") ELSE NoCmd]
        PROVE  OneAtATime /\ cmd[Main].kind = "none"
    BY <1>1, ActorsAreDistinct, CommandFields DEF OneAtATime, Actors
  <1> QED
    BY <1>1 DEF Init, FirstCommands, PatientInv, MainCleansUp

LEMMA KeyPatient ==
  ASSUME Patient, Types, PatientInv, Keys
  PROVE  PatientInv'
  <1>1. CASE cmd' = cmd
    BY <1>1, KeyFrame DEF Types, PatientInv, OneAtATime, MainCleansUp
  <1>2. ASSUME NEW s \in Free, NEW c, CanStart, cmd' = [cmd EXCEPT ![s] = c]
        PROVE  PatientInv'
    <2>1. \A a \in Actors : a # s => cmd'[a] = cmd[a]
      BY <1>2 DEF Types, SessionType
    <2>2. \A a \in Slots : cmd[a] = NoCmd
      BY <1>2 DEF CanStart, InFlight, Free
    <2>3. app' = "running" /\ cmd[Main].kind = "none" /\ app = "running"
      BY <1>2, KeyFrame DEF CanStart, PatientInv, MainCleansUp, Types
    <2>4. \A a \in Actors : a # s => cmd'[a].kind = "none"
      BY <2>1, <2>2, <2>3, CommandFields DEF Actors
    <2> QED
      BY <2>1, <2>3, <2>4, ActorsAreDistinct
         DEF PatientInv, OneAtATime, MainCleansUp, Free, Actors
  <1> QED
    BY <1>1, <1>2, KeyFrame DEF Types

LEMMA StepPatient ==
  ASSUME Types, PatientInv, NEW a \in Actors, Device(a) \/ Service(a)
  PROVE  PatientInv'
  <1>1. \A b \in Actors : cmd'[b].kind = cmd[b].kind
    BY StepFrame DEF Types
  <1>2. UNCHANGED app
    BY StepFrame DEF Types
  <1> QED
    BY <1>1, <1>2 DEF PatientInv, OneAtATime, MainCleansUp, Actors

LEMMA MessagesPatient ==
  ASSUME Types, PatientInv, NEW s \in Slots, Messages(s)
  PROVE  PatientInv'
  <1>1. s \in Actors /\ s # Main /\ Main \in Actors /\ SessionType
    BY ActorsAreDistinct DEF Actors, Types
  <1>2. cmd[s].kind # "none" /\ app = "running" /\ cmd[Main].kind = "none"
    BY <1>1, MessageFrame DEF PatientInv, MainCleansUp
  <1>3. ASSUME NEW c \in {NoCmd, Command("status", "query")},
               cmd' = [cmd EXCEPT ![s] = c], UNCHANGED app
        PROVE  PatientInv'
    <2>1. \A a \in Actors : a # s => cmd'[a] = cmd[a]
      BY <1>3 DEF Types, SessionType
    <2>2. cmd'[s].kind \in {"none", "status"}
      BY <1>1, <1>3, CommandFields DEF SessionType
    <2>3. ASSUME NEW a \in Actors, NEW b \in Actors,
                 a # b, cmd'[a].kind # "none", cmd'[b].kind # "none"
          PROVE  cmd'[a].kind \in {"status", "ping"}
      BY <1>2, <2>1, <2>2, <2>3 DEF PatientInv, OneAtATime
    <2> QED
      BY <1>1, <1>2, <1>3, <2>1, <2>3 DEF PatientInv, OneAtATime, MainCleansUp
  <1>4. ASSUME NEW spare \in Free, cmd[s].kind = "start", UNCHANGED app,
               cmd' = [Requery(s) EXCEPT ![spare] = Command("ping", "ping")]
        PROVE  PatientInv'
    <2>1. spare \in Slots /\ spare # s /\ spare # Main
      BY <1>1, <1>2, <1>4, CommandFields, ActorsAreDistinct DEF Free
    <2>2. \A a \in Actors : a # s => cmd[a].kind = "none"
      BY <1>1, <1>4 DEF PatientInv, OneAtATime
    <2>3. \A a \in Actors :
            cmd'[a].kind = IF a = s THEN "status" ELSE IF a = spare THEN "ping" ELSE "none"
      BY <1>1, <1>4, <2>1, <2>2, CommandFields DEF SessionType, Requery, Actors
    <2> QED
      BY <1>1, <1>2, <1>4, <2>1, <2>3 DEF PatientInv, OneAtATime, MainCleansUp
  <1>5. ASSUME cmd[s].kind = "shutdown", app' = "cleanup",
               cmd' = [Done(s) EXCEPT ![Main] = Command("cleanup", "lock")]
        PROVE  PatientInv'
    <2>1. \A a \in Actors : a # s => cmd[a].kind = "none"
      BY <1>1, <1>5 DEF PatientInv, OneAtATime
    <2>2. \A a \in Actors : cmd'[a].kind = IF a = Main THEN "cleanup" ELSE "none"
      BY <1>1, <1>5, <2>1, CommandFields DEF SessionType, Done, Actors
    <2> QED
      BY <1>1, <1>5, <2>2 DEF PatientInv, OneAtATime, MainCleansUp
  <1> QED
    BY <1>1, <1>3, <1>4, <1>5, MessageFrame

LEMMA NextPatient ==
  ASSUME Patient, Types, PatientInv, [Next]_vars
  PROVE  PatientInv'
  <1>0. CASE UNCHANGED vars
    BY <1>0 DEF vars, sessionVars, PatientInv, OneAtATime, MainCleansUp
  <1>1. CASE StopsLate /\ UNCHANGED sessionVars
    BY <1>1 DEF sessionVars, PatientInv, OneAtATime, MainCleansUp
  <1>2. CASE Exit
    BY <1>2 DEF Exit, PatientInv, OneAtATime, MainCleansUp
  <1>7. CASE ProgramEnds
    <2>1. \A a \in Slots : cmd[a] = NoCmd
      BY <1>7 DEF ProgramEnds, InFlight, Free
    <2>2. \A a \in Actors : cmd'[a].kind = IF a = Main THEN "cleanup" ELSE "none"
      BY <1>7, <2>1, EndFrame, CommandFields DEF Types, Actors
    <2> QED
      BY <1>7, <2>2, EndFrame DEF Types, PatientInv, OneAtATime, MainCleansUp
  <1>3. CASE Restart
    <2>1. ASSUME NEW s \in Slots,
                 cmd' = [a \in Actors |-> IF a = s THEN Command("status", "query") ELSE NoCmd]
          PROVE  OneAtATime' /\ cmd'[Main].kind = "none"
      BY <2>1, ActorsAreDistinct, CommandFields DEF Actors, OneAtATime
    <2> QED
      BY <1>3, <2>1 DEF Restart, FirstCommands, PatientInv, MainCleansUp
  <1>4. CASE Keys
    BY <1>4, KeyPatient
  <1>5. ASSUME NEW a \in Actors, Step(a)
        PROVE  PatientInv'
    BY <1>5, StepPatient DEF Step
  <1>6. ASSUME NEW s \in Slots, Messages(s)
        PROVE  PatientInv'
    BY <1>6, MessagesPatient
  <1> QED
    BY <1>0, <1>1, <1>2, <1>3, <1>4, <1>5, <1>6, <1>7 DEF Next

-----------------------------------------------------------------------------
(***************************************************************************)
(* Nothing of an older baseline                                            *)
(***************************************************************************)

NotOlder(g) == g.base = 0 \/ g.base >= ui.base

Fetched(c) == NotOlder(c.diff) /\ NotOlder(c.cur)

\* Neither the driver nor a command in flight has anything of a baseline older
\* than the one the program counts, nor than one it is about to be told of.
NothingOlder ==
  /\ ui.base <= nextGen
  /\ NotOlder(drv)
  /\ \A g \in Shown : NotOlder(g)
  /\ \A a \in Actors :
       /\ cmd[a].gen <= nextGen
       /\ Fetched(cmd[a])
       /\ cmd[a].kind = "baseline" /\ cmd[a].at = "sent" /\ cmd[a].ok
            => drv.base = 0 \/ drv.base >= cmd[a].gen

NothingOlderInv == Types /\ MutexInv /\ PatientInv /\ NothingOlder

\* No key shows more, and none counts a baseline.
LEMMA KeyShows ==
  ASSUME SessionType, Keys
  PROVE  ui'.base = ui.base /\ Shown' \subseteq Shown
  <1>1. ui \in Ui
    BY DEF SessionType
  <1>2. ASSUME NEW m, m \in {ui, [ui EXCEPT !.input = FALSE]},
               ui' = [m EXCEPT !.busy = "working"]
        PROVE  ui'.base = ui.base /\ Shown' \subseteq Shown
    <2>1. m \in Ui /\ m.base = ui.base /\ m.diff = ui.diff /\ m.cur = ui.cur
                  /\ m.panel = ui.panel
      BY <1>1, <1>2 DEF Ui
    <2>2. /\ ui'.base = ui.base /\ ui'.diff = ui.diff /\ ui'.cur = ui.cur
          /\ ui'.panel = ui.panel
      BY <1>2, <2>1 DEF Ui
    <2> QED
      BY <2>2 DEF Shown
  <1>3. CASE KeyInput
    BY <1>1, <1>3 DEF KeyInput, Ui, Shown
  <1>4. CASE KeyEscape
    <2>1. PICK p \in Panels : ui' = [ui EXCEPT !.panel[p] = NoGen]
      BY <1>4 DEF KeyEscape
    <2> QED
      BY <1>1, <2>1 DEF Ui, Shown
  <1>5. CASE KeyQuit
    <2>1. PICK m : m = [ui EXCEPT !.busy = "unloading driver"]
      OBVIOUS
    <2>2. ui' = [m EXCEPT !.input = FALSE]
      BY <1>5, <2>1 DEF KeyQuit
    <2> QED
      BY <1>1, <2>1, <2>2 DEF Ui, Shown
  <1>6. CASE KeySearch
    BY <1>2, <1>6 DEF KeySearch, Launch
  <1>7. ASSUME NEW command, Key(command)
        PROVE  ui'.base = ui.base /\ Shown' \subseteq Shown
    BY <1>2, <1>7 DEF Key, Launch
  <1> QED
    BY <1>3, <1>4, <1>5, <1>6, <1>7
       DEF Keys, KeyStart, KeyStop, KeyBaseline, KeyCurrent, KeyReloadDiff,
           KeyTable, KeyDump, KeyDumpPage

LEMMA KeyOlder ==
  ASSUME NothingOlderInv, Keys
  PROVE  NothingOlder'
  <1>1. ui'.base = ui.base /\ Shown' \subseteq Shown
    BY KeyShows DEF NothingOlderInv, Types
  <1>2. UNCHANGED <<drv, nextGen>>
    BY KeyTypes DEF NothingOlderInv, Types, driverVars
  <1>3. nextGen \in Nat
    BY MaxGenNat DEF NothingOlderInv, Types, DriverType
  <1>4. ASSUME NEW a \in Actors
        PROVE  cmd'[a] = cmd[a] \/ KeyStarts(cmd'[a])
    BY KeyFrame DEF NothingOlderInv, Types, SessionType
  <1>5. NotOlder(NoGen)
    BY DEF NotOlder, NoGen
  <1>6. ASSUME NEW a \in Actors
        PROVE  /\ cmd'[a].gen <= nextGen
               /\ Fetched(cmd'[a])
               /\ cmd'[a].kind = "baseline" /\ cmd'[a].at = "sent" /\ cmd'[a].ok
                    => drv.base = 0 \/ drv.base >= cmd'[a].gen
    BY <1>3, <1>4, <1>5 DEF KeyStarts, NothingOlderInv, NothingOlder, Fetched
  <1> QED
    BY <1>1, <1>2, <1>6 DEF NothingOlderInv, NothingOlder, NotOlder, Fetched

\* A baseline that is answered without an error is the driver's.
LEMMA BaselineAnswered ==
  ASSUME Types, NEW a \in Actors, Device(a) \/ Service(a),
         cmd[a].kind = "baseline", cmd'[a].at = "sent", cmd'[a].ok
  PROVE  BaselineCommit(a)
  <1>1. cmd[a] \in Cmd /\ SessionType
    BY DEF Types, SessionType
  <1>2. cmd[a].at \in {"create", "commit"}
    BY <1>1, StepFrame DEF Types, Paths, Path, Cmd, Steps, IoctlSteps
  <1>3. "sent" \in Steps
    BY DEF Steps
  <1>4. ~IoctlFails(a) /\ ~CreateFails(a)
    BY <1>1, <1>3, AdvanceEffect, LearntFields
       DEF IoctlFails, CreateFails, Sends, Learns
  <1>5. ~Create(a)
    <2>1. Create(a) => cmd'[a].at = "commit"
      BY <1>1 DEF Create, Advance, SessionType, Cmd
    <2> QED
      BY <2>1
  <1>6. ~CurrentCommit(a) /\ ~CurrentCommitWithoutDiff(a)
    BY DEF CurrentCommit, CurrentCommitWithoutDiff
  <1>7. /\ ~DiffCount(a) /\ ~DiffEntries(a) /\ ~CurrentCount(a) /\ ~CurrentEntries(a)
        /\ ~Read(a) /\ ~Search(a) /\ ~Ping(a)
    BY <1>2 DEF DiffCount, DiffEntries, CurrentCount, CurrentEntries, Read, Search,
                Ping, Ioctl
  <1>8. ~Service(a)
    BY <1>2 DEF Service, QueryStatus, UnlockedStepFails, Install, Start, Lock,
                QueryFirst, StopFindsNone, Stop, Delete, LockedStepFails
  <1> QED
    BY <1>4, <1>5, <1>6, <1>7, <1>8 DEF Device

\* What the driver's snapshots become: of the baseline they were, of none, or
\* of the latest.
LEMMA StepBaseline ==
  ASSUME Types, MutexInv, NEW a \in Actors, Device(a) \/ Service(a)
  PROVE  /\ drv'.base \in {drv.base, 0, nextGen'} /\ drv.base \in Nat
         /\ nextGen' >= nextGen /\ nextGen \in Nat /\ nextGen' \in Nat
  <1>1. drv \in [base : 0 .. MaxGen, cur : 0 .. MaxGen, diffed : BOOLEAN] /\ nextGen \in Nat
    BY MaxGenNat DEF Types, DriverType
  <1>2. CASE Unlocked(a)
    BY <1>1, <1>2
       DEF Unlocked, driverVars, InstallService, StartService, NoSnapshots
  <1>3. CASE Draws(a)
    BY <1>1, <1>3 DEF Draws, DrawGen
  <1>4. CASE Commits(a)
    <2>1. cmd[a].gen = nextGen
      BY <1>4 DEF Commits, MutexInv, Committing
    <2>2. CASE UNCHANGED driverVars \/ CommitBaseline(cmd[a].gen)
      BY <1>1, <2>1, <2>2 DEF driverVars, CommitBaseline
    <2>3. ASSUME NEW rebuilt, CommitCurrent(cmd[a].gen, rebuilt)
          PROVE  drv'.base = drv.base /\ nextGen' = nextGen
      <3>1. PICK d : d = [drv EXCEPT !.cur = nextGen]
        OBVIOUS
      <3>2. drv' = [d EXCEPT !.diffed = rebuilt] /\ nextGen' = nextGen
        BY <2>1, <2>3, <3>1 DEF CommitCurrent
      <3> QED
        BY <1>1, <3>1, <3>2
    <2>4. \/ UNCHANGED driverVars \/ CommitBaseline(cmd[a].gen)
          \/ drv'.base = drv.base /\ nextGen' = nextGen
      BY <1>4, <2>3, Zenon DEF Commits
    <2> QED
      BY <1>1, <2>2, <2>4
  <1>5. CASE Locks(a)
    BY <1>1, <1>5 DEF Locks, driverVars
  <1>6. CASE Removes(a)
    BY <1>1, <1>6
       DEF Removes, driverVars, StopService, StopTimesOut, DeleteService, NoSnapshots
  <1> QED
    BY <1>2, <1>3, <1>4, <1>5, <1>6, StepFrame DEF Types

LEMMA StepOlder ==
  ASSUME NothingOlderInv, NEW a \in Actors, Device(a) \/ Service(a)
  PROVE  NothingOlder'
  <1> USE DEF NothingOlderInv
  <1>1. /\ drv'.base \in {drv.base, 0, nextGen'} /\ nextGen' >= nextGen
        /\ nextGen \in Nat /\ nextGen' \in Nat /\ drv.base \in Nat
    BY StepBaseline
  <1>2. UNCHANGED ui /\ \A b \in Actors : b # a => cmd'[b] = cmd[b]
    BY StepFrame DEF Types
  <1>3. ui.base \in Nat /\ \A b \in Actors : cmd[b].gen \in Nat
    <2>1. ui \in Ui /\ cmd \in [Actors -> Cmd]
      BY DEF Types, SessionType
    <2>2. ui.base \in 0 .. MaxGen /\ \A b \in Actors : cmd[b].gen \in 0 .. MaxGen
      BY <2>1 DEF Ui, Cmd
    <2> QED
      BY <2>2, MaxGenNat
  <1>4. NotOlder(drv)' /\ ui'.base <= nextGen'
    BY <1>1, <1>2, <1>3 DEF NothingOlder, NotOlder
  <1>5. \A g \in Shown' : NotOlder(g)'
    BY <1>2 DEF NothingOlder, NotOlder, Shown
  <1>6. ASSUME NEW b \in Actors, b # a
        PROVE  /\ cmd'[b].gen <= nextGen'
               /\ Fetched(cmd[b])'
               /\ cmd'[b].kind = "baseline" /\ cmd'[b].at = "sent" /\ cmd'[b].ok
                    => drv'.base = 0 \/ drv'.base >= cmd'[b].gen
    BY <1>1, <1>2, <1>3, <1>6 DEF NothingOlder, NotOlder, Fetched
  <1>7. cmd'[a].gen <= nextGen'
    BY <1>1, <1>3, StepFrame DEF NothingOlder, Types
  <1>8. NotOlder(DiffGen) /\ NotOlder(CurrentGen)
    BY DEF NothingOlder, NotOlder, DiffGen, CurrentGen, NoGen
  <1>9. Fetched(cmd[a])'
    BY <1>2, <1>8, StepFrame DEF NothingOlder, Fetched, NotOlder, Types
  <1>10. ASSUME cmd'[a].kind = "baseline", cmd'[a].at = "sent", cmd'[a].ok
         PROVE  drv'.base = 0 \/ drv'.base >= cmd'[a].gen
    <2>1. BaselineCommit(a)
      BY <1>10, BaselineAnswered, StepFrame DEF Types
    <2>2. drv'.base = nextGen'
      BY <2>1 DEF BaselineCommit, CommitBaseline, MutexInv, Committing
    <2> QED
      BY <1>1, <1>3, <1>7, <2>2
  <1> QED
    BY <1>4, <1>5, <1>6, <1>7, <1>9, <1>10 DEF NothingOlder

\* What a message makes the program show: what it showed, what the command
\* has fetched, and nothing at all when a baseline is counted.
LEMMA MessageShows ==
  ASSUME SessionType, Paths, NEW s \in Slots, Messages(s)
  PROVE  \/ /\ ui'.base \in {ui.base, 0}
            /\ Shown' \subseteq Shown \cup {cmd[s].diff, cmd[s].cur}
         \/ /\ cmd[s].kind = "baseline" /\ cmd[s].ok
            /\ ui'.base = cmd[s].gen /\ Shown' = {}
            /\ cmd' = Done(s)
  <1> DEFINE Bases == {ui.base, 0}
             Gens == Shown \cup {NoGen, cmd[s].diff, cmd[s].cur}
             Shows(m) == /\ m.base \in Bases /\ m.diff \in Gens /\ m.cur \in Gens
                         /\ \A p \in Panels : m.panel[p] \in Gens
  <1>1. /\ ui \in Ui /\ cmd[s] \in Cmd /\ Cleared(ui) \in Ui /\ InitUi \in Ui
        /\ [ui EXCEPT !.connected = FALSE] \in Ui
        /\ Cleared([ui EXCEPT !.connected = FALSE]) \in Ui
    BY ClearedType, InitUiType, UiUpdates DEF SessionType, Actors
  <1>2. Shows(ui)
    BY DEF Shown
  <1>3. ASSUME NEW m \in Ui, Shows(m), ui' = m \/ ui' = [m EXCEPT !.busy = "no"]
        PROVE  /\ ui'.base \in {ui.base, 0}
               /\ Shown' \subseteq Shown \cup {cmd[s].diff, cmd[s].cur}
    <2>1. /\ ui'.base = m.base /\ ui'.diff = m.diff /\ ui'.cur = m.cur
          /\ ui'.panel = m.panel
      BY <1>3 DEF Ui
    <2> QED
      BY <1>3, <2>1 DEF Shown
  <1>4. ASSUME NEW kind, NEW ok, NEW m \in Ui, Shows(m), NEW commands,
               Message(s, kind, ok, m, commands)
        PROVE  /\ ui'.base \in {ui.base, 0}
               /\ Shown' \subseteq Shown \cup {cmd[s].diff, cmd[s].cur}
    BY <1>3, <1>4 DEF Message
  <1>5. /\ InitUi.base = 0 /\ InitUi.diff = NoGen /\ InitUi.cur = NoGen
        /\ \A p \in Panels : InitUi.panel[p] = NoGen
    BY DEF InitUi, NoPanels
  <1>6. ASSUME NEW m \in Ui
        PROVE  /\ Cleared(m).base = 0 /\ Cleared(m).diff = NoGen /\ Cleared(m).cur = NoGen
               /\ \A p \in Panels : Cleared(m).panel[p] = NoGen
    <2>1. PICK m1 : m1 = [m EXCEPT !.base = 0]
      OBVIOUS
    <2>2. PICK m2 : m2 = [m1 EXCEPT !.ready = FALSE]
      OBVIOUS
    <2>3. PICK m3 : m3 = [m2 EXCEPT !.diff = NoGen]
      OBVIOUS
    <2>4. PICK m4 : m4 = [m3 EXCEPT !.cur = NoGen]
      OBVIOUS
    <2>5. Cleared(m) = [m4 EXCEPT !.panel = NoPanels]
      BY <2>1, <2>2, <2>3, <2>4 DEF Cleared
    <2>6. m1 \in Ui /\ m1.base = 0
      <3>1. 0 \in 0 .. MaxGen
        BY MaxGenNat
      <3>2. m1 \in Ui
        BY <2>1, <3>1, UiUpdates
      <3> QED
        BY <2>1, <3>2 DEF Ui
    <2>7. m2 \in Ui /\ m2.base = 0
      BY <2>2, <2>6 DEF Ui
    <2>8. m3 \in Ui /\ m3.base = 0 /\ m3.diff = NoGen
      BY <2>3, <2>7, NoGenType DEF Ui
    <2>9. m4 \in Ui /\ m4.base = 0 /\ m4.diff = NoGen /\ m4.cur = NoGen
      BY <2>4, <2>8, NoGenType DEF Ui
    <2>10. NoPanels \in [Panels -> Gen] /\ \A p \in Panels : NoPanels[p] = NoGen
      BY NoGenType DEF NoPanels
    <2>11. [m4 EXCEPT !.panel = NoPanels].panel = NoPanels
      BY <2>9 DEF Ui
    <2>12. /\ [m4 EXCEPT !.panel = NoPanels].base = m4.base
           /\ [m4 EXCEPT !.panel = NoPanels].diff = m4.diff
           /\ [m4 EXCEPT !.panel = NoPanels].cur = m4.cur
      BY <2>9 DEF Ui
    <2> QED
      BY <2>5, <2>9, <2>10, <2>11, <2>12, Zenon
  <1> HIDE DEF Bases, Gens, Shows
  <1>7. CASE ErrorMessage(s) \/ StartMessage(s) \/ ActionError(s)
    BY <1>1, <1>2, <1>4, <1>7 DEF ErrorMessage, StartMessage, ActionError
  <1>8. CASE StatusMessage(s) \/ PingMessage(s)
    <2>1. ASSUME NEW v, NEW m \in Ui,
                 m = [ui EXCEPT !.status = v] \/ m = [ui EXCEPT !.connected = v]
          PROVE  Shows(m)
      BY <1>1, <1>2, <2>1 DEF Shows, Ui
    <2>2. \A ok \in BOOLEAN : [ui EXCEPT !.connected = ok] \in Ui
      BY <1>1, UiUpdates
    <2>3. \A state \in States \cup {"unknown"} : [ui EXCEPT !.status = state] \in Ui
      BY <1>1, UiUpdates
    <2>4. CASE PingMessage(s)
      BY <1>4, <2>1, <2>2, <2>4 DEF PingMessage
    <2>5. CASE StatusMessage(s)
      <3>1. PICK ok \in BOOLEAN :
              Message(s, "status", ok,
                      [ui EXCEPT !.status = IF ok THEN cmd[s].report ELSE "unknown"],
                      Done(s))
        BY <2>5 DEF StatusMessage
      <3>2. ok => cmd[s].report \in States
        BY <3>1 DEF Message, Paths, Path, Actors
      <3>3. PICK m : m = [ui EXCEPT !.status = IF ok THEN cmd[s].report ELSE "unknown"]
        OBVIOUS
      <3>4. m \in Ui
        BY <2>3, <3>2, <3>3
      <3> QED
        BY <1>4, <2>1, <3>1, <3>3, <3>4
    <2> QED
      BY <1>8, <2>4, <2>5
  <1>9. CASE StopMessage(s)
    <2>1. Shows(Cleared([ui EXCEPT !.connected = FALSE]))
      BY <1>1, <1>6 DEF Shows, Bases, Gens
    <2> QED
      BY <1>1, <1>4, <1>9, <2>1 DEF StopMessage
  <1>10. CASE BaselineMessage(s)
    <2>1. PICK m : m = [Cleared(ui) EXCEPT !.base = cmd[s].gen]
      OBVIOUS
    <2>2. /\ m \in Ui /\ m.base = cmd[s].gen /\ m.diff = NoGen /\ m.cur = NoGen
          /\ \A p \in Panels : m.panel[p] = NoGen
      BY <1>1, <1>6, <2>1 DEF Ui, Cmd
    <2>3. /\ cmd[s].kind = "baseline" /\ cmd[s].ok /\ cmd' = Done(s)
          /\ ui' = [m EXCEPT !.busy = "no"]
      BY <1>10, <2>1 DEF BaselineMessage, Message
    <2>4. /\ ui'.base = m.base /\ ui'.diff = m.diff /\ ui'.cur = m.cur
          /\ ui'.panel = m.panel
      BY <2>2, <2>3 DEF Ui
    <2> QED
      BY <2>2, <2>3, <2>4 DEF Shown
  <1>11. CASE CurrentMessage(s)
    <2>1. PICK m1 : m1 = [ui EXCEPT !.ready = TRUE]
      OBVIOUS
    <2>2. PICK m2 : m2 = [m1 EXCEPT !.diff = cmd[s].diff]
      OBVIOUS
    <2>3. PICK m3 : m3 = [m2 EXCEPT !.cur = cmd[s].cur]
      OBVIOUS
    <2>4. PICK m4 : m4 = [m3 EXCEPT !.panel = NoPanels]
      OBVIOUS
    <2>5. m1 \in Ui /\ m1.base = ui.base
      BY <1>1, <2>1 DEF Ui
    <2>6. m2 \in Ui /\ m2.base = ui.base /\ m2.diff = cmd[s].diff
      BY <1>1, <2>2, <2>5 DEF Ui, Cmd
    <2>7. /\ m3 \in Ui /\ m3.base = ui.base
          /\ m3.diff = cmd[s].diff /\ m3.cur = cmd[s].cur
      BY <1>1, <2>3, <2>6 DEF Ui, Cmd
    <2>8. m4 \in Ui /\ Shows(m4)
      BY <2>4, <2>7, NoGenType DEF Ui, Shows, Bases, Gens, NoPanels
    <2>9. Message(s, "current", TRUE, m4, Done(s))
      BY <1>11, <2>1, <2>2, <2>3, <2>4 DEF CurrentMessage
    <2> QED
      BY <1>4, <2>8, <2>9
  <1>12. CASE DiffMessage(s)
    <2>1. PICK m1 : m1 = [ui EXCEPT !.ready = TRUE]
      OBVIOUS
    <2>2. PICK m2 : m2 = [m1 EXCEPT !.diff = cmd[s].diff]
      OBVIOUS
    <2>3. PICK m3 : m3 = [m2 EXCEPT !.panel = NoPanels]
      OBVIOUS
    <2>4. m1 \in Ui /\ m1.base = ui.base /\ m1.cur = ui.cur
      BY <1>1, <2>1 DEF Ui
    <2>5. m2 \in Ui /\ m2.base = ui.base /\ m2.cur = ui.cur /\ m2.diff = cmd[s].diff
      BY <1>1, <2>2, <2>4 DEF Ui, Cmd
    <2>6. m3 \in Ui /\ Shows(m3)
      BY <1>2, <2>3, <2>5, NoGenType DEF Ui, Shows, Bases, Gens, NoPanels
    <2>7. Message(s, "diff", TRUE, m3, Done(s))
      BY <1>12, <2>1, <2>2, <2>3 DEF DiffMessage
    <2> QED
      BY <1>4, <2>6, <2>7
  <1>13. CASE EntriesMessage(s) \/ PanelMessage(s)
    <2>1. cmd[s].diff \in Gen /\ cmd[s].cur \in Gen
      BY <1>1 DEF Cmd
    <2>2. ASSUME NEW m, m = [ui EXCEPT !.cur = cmd[s].cur]
          PROVE  m \in Ui /\ Shows(m)
      BY <1>1, <1>2, <2>1, <2>2 DEF Ui, Shows, Gens
    <2>3. ASSUME NEW kind \in Panels, NEW m, m = [ui EXCEPT !.panel[kind] = cmd[s].diff]
          PROVE  m \in Ui /\ Shows(m)
      BY <1>1, <1>2, <2>1, <2>3 DEF Ui, Shows, Gens
    <2>4. CASE EntriesMessage(s)
      BY <1>4, <2>2, <2>4 DEF EntriesMessage
    <2>5. CASE PanelMessage(s)
      BY <1>4, <2>3, <2>5 DEF PanelMessage
    <2> QED
      BY <1>13, <2>4, <2>5
  <1>14. CASE ShutdownMessage(s)
    <2>1. Shows(InitUi)
      BY <1>5 DEF Shows, Bases, Gens
    <2> QED
      BY <1>1, <1>3, <1>14, <2>1 DEF ShutdownMessage
  <1> QED
    BY <1>7, <1>8, <1>9, <1>10, <1>11, <1>12, <1>13, <1>14 DEF Messages

\* A baseline that is counted was alone in flight: nothing that was fetched
\* before it arrives after it.
LEMMA MessagesOlder ==
  ASSUME NothingOlderInv, NEW s \in Slots, Messages(s)
  PROVE  NothingOlder'
  <1>1. Types /\ SessionType /\ Paths /\ s \in Actors
    BY DEF NothingOlderInv, Types, Actors
  <1>2. UNCHANGED <<drv, nextGen>>
    BY <1>1, MessagesTypes DEF driverVars
  <1>3. ui.base \in Nat /\ nextGen \in Nat /\ \A b \in Actors : cmd[b].gen \in Nat
    <2>1. ui \in Ui /\ cmd \in [Actors -> Cmd] /\ nextGen \in 0 .. MaxGen
      BY <1>1 DEF Types, DriverType, SessionType
    <2>2. ui.base \in 0 .. MaxGen /\ \A b \in Actors : cmd[b].gen \in 0 .. MaxGen
      BY <2>1 DEF Ui, Cmd
    <2> QED
      BY <2>1, <2>2, MaxGenNat
  <1>4. NothingOlder
    BY DEF NothingOlderInv
  <1>5. \A c : Left(c) => c.gen = 0 /\ c.diff = NoGen /\ c.cur = NoGen /\ c.kind # "baseline"
    BY CommandFields DEF Left
  <1>6. CASE /\ ui'.base \in {ui.base, 0}
             /\ Shown' \subseteq Shown \cup {cmd[s].diff, cmd[s].cur}
    <2>1. \A b \in Actors : cmd'[b] = cmd[b] \/ Left(cmd'[b])
      BY <1>1, MessagesLeave
    <2>2. ui'.base <= ui.base
      BY <1>3, <1>6
    <2>3. ASSUME NEW g, g.base \in Nat, NotOlder(g)
          PROVE  g.base = 0 \/ g.base >= ui'.base
      BY <1>3, <1>6, <2>3 DEF NotOlder
    <2>4. cmd \in [Actors -> Cmd] /\ ui \in Ui /\ NoGen \in Gen
      BY <1>1, NoGenType DEF SessionType
    <2>5. \A b \in Actors : cmd[b].diff \in Gen /\ cmd[b].cur \in Gen
      BY <2>4 DEF Cmd
    <2>6. Shown \subseteq Gen
      <3>1. /\ ui.diff \in Gen /\ ui.cur \in Gen
            /\ \A p \in Panels : ui.panel[p] \in Gen
        BY <2>4 DEF Ui
      <3> QED
        BY <3>1 DEF Shown
    <2>7. \A g \in Gen : g.base \in Nat
      <3>1. \A g \in Gen : g.base \in 0 .. MaxGen
        BY DEF Gen
      <3>2. 0 .. MaxGen \subseteq Nat
        BY MaxGenNat
      <3> QED
        BY <3>1, <3>2
    <2>8. \A g \in Shown' : g.base = 0 \/ g.base >= ui'.base
      <3> SUFFICES ASSUME NEW g \in Shown' PROVE g.base = 0 \/ g.base >= ui'.base
        OBVIOUS
      <3>1. g \in Shown \/ g = cmd[s].diff \/ g = cmd[s].cur
        BY <1>6
      <3>2. g.base \in Nat
        BY <1>1, <2>5, <2>6, <2>7, <3>1
      <3>3. NotOlder(g)
        BY <1>1, <1>4, <3>1 DEF NothingOlder, Fetched
      <3> QED
        BY <2>3, <3>2, <3>3
    <2>9. drv.base = 0 \/ drv.base >= ui'.base
      <3>1. drv.base \in Nat
        BY <1>1, MaxGenNat DEF Types, DriverType
      <3> QED
        BY <1>4, <2>3, <3>1 DEF NothingOlder
    <2>10. NotOlder(NoGen)
      BY DEF NotOlder, NoGen
    <2>11. ASSUME NEW b \in Actors
           PROVE  /\ cmd'[b].gen <= nextGen
                  /\ cmd'[b].diff.base = 0 \/ cmd'[b].diff.base >= ui'.base
                  /\ cmd'[b].cur.base = 0 \/ cmd'[b].cur.base >= ui'.base
                  /\ cmd'[b].kind = "baseline" /\ cmd'[b].at = "sent" /\ cmd'[b].ok
                       => drv.base = 0 \/ drv.base >= cmd'[b].gen
      <3>1. CASE cmd'[b] = cmd[b]
        BY <1>4, <2>3, <2>5, <2>7, <3>1 DEF NothingOlder, Fetched
      <3>2. CASE Left(cmd'[b])
        BY <1>3, <1>5, <2>3, <2>4, <2>7, <2>10, <3>2
      <3> QED
        BY <2>1, <3>1, <3>2
    <2>12. ui'.base <= nextGen
      BY <1>3, <1>4, <1>6, <2>2 DEF NothingOlder
    <2> QED
      BY <1>2, <2>8, <2>9, <2>11, <2>12 DEF NothingOlder, NotOlder, Fetched
  <1>7. CASE /\ cmd[s].kind = "baseline" /\ cmd[s].ok
             /\ ui'.base = cmd[s].gen /\ Shown' = {}
             /\ cmd' = Done(s)
    <2>1. ASSUME NEW b \in Actors
          PROVE  cmd'[b] = NoCmd
      <3>1. CASE b = s
        BY <1>1, <1>7, <3>1 DEF Done, SessionType
      <3>2. CASE b # s
        <4>1. cmd[b].kind = "none"
          BY <1>1, <1>7, <3>2 DEF NothingOlderInv, PatientInv, OneAtATime
        <4>2. cmd'[b] = cmd[b]
          BY <1>1, <1>7, <3>2 DEF Done, SessionType
        <4> QED
          BY <1>1, <4>1, <4>2 DEF Paths, Path
      <3> QED
        BY <3>1, <3>2
    <2>2. cmd[s].gen <= nextGen /\ (drv.base = 0 \/ drv.base >= cmd[s].gen)
      BY <1>1, <1>4, <1>7, MessageFrame DEF NothingOlder
    <2>3. ui'.base <= nextGen' /\ NotOlder(drv)'
      BY <1>2, <1>7, <2>2 DEF NotOlder
    <2>4. \A g \in Shown' : NotOlder(g)'
      BY <1>7
    <2>5. ASSUME NEW b \in Actors
          PROVE  /\ cmd'[b].gen <= nextGen'
                 /\ Fetched(cmd[b])'
                 /\ cmd'[b].kind # "baseline"
      BY <1>2, <1>3, <2>1, CommandFields DEF Fetched, NotOlder, NoGen
    <2> QED
      BY <2>3, <2>4, <2>5 DEF NothingOlder
  <1> QED
    BY <1>1, <1>6, <1>7, MessageShows

\* A step that changes at most that the driver has no baseline any more.
LEMMA SameOlder ==
  ASSUME NothingOlder, UNCHANGED <<nextGen, cmd, ui>>, drv'.base \in {drv.base, 0}
  PROVE  NothingOlder'
  <1>1. Shown' = Shown
    BY DEF Shown
  <1> QED
    BY <1>1 DEF NothingOlder, NotOlder, Fetched

\* A program that has just started shows nothing and counts no baseline.
LEMMA FirstOlder ==
  ASSUME Types, ui' = InitUi, cmd' \in FirstCommands, UNCHANGED <<drv, nextGen>>
  PROVE  NothingOlder'
  <1>1. InitUi.base = 0 /\ InitUi.diff = NoGen /\ InitUi.cur = NoGen
    BY DEF InitUi
  <1>2. \A p \in Panels : InitUi.panel[p] = NoGen
    BY DEF InitUi, NoPanels
  <1>3. Shown' = {}
    BY <1>1, <1>2 DEF Shown
  <1>4. nextGen \in Nat /\ drv.base \in Nat
    BY MaxGenNat DEF Types, DriverType
  <1>5. ui'.base <= nextGen' /\ NotOlder(drv)'
    BY <1>1, <1>4 DEF NotOlder
  <1>6. \A a \in Actors :
          cmd'[a].gen = 0 /\ Fetched(cmd[a])' /\ cmd'[a].kind # "baseline"
    BY FirstCommandsAre, CommandFields DEF Fetched, NotOlder, NoGen
  <1> QED
    BY <1>3, <1>4, <1>5, <1>6 DEF NothingOlder

\* Nor does a program that has ended.
LEMMA EndOlder ==
  ASSUME Types, NothingOlder, ProgramEnds
  PROVE  NothingOlder'
  <1>1. InitUi.base = 0 /\ InitUi.diff = NoGen /\ InitUi.cur = NoGen
    BY DEF InitUi
  <1>2. \A p \in Panels : InitUi.panel[p] = NoGen
    BY DEF InitUi, NoPanels
  <1>3. /\ ui' = InitUi /\ UNCHANGED <<drv, nextGen>>
        /\ \A a \in Actors :
             \/ cmd'[a] = cmd[a]
             \/ /\ cmd'[a].kind = "cleanup" /\ cmd'[a].gen = 0
                /\ cmd'[a].diff = NoGen /\ cmd'[a].cur = NoGen
    BY EndFrame DEF Types, driverVars
  <1>4. Shown' = {}
    BY <1>1, <1>2, <1>3 DEF Shown
  <1>5. /\ nextGen \in Nat /\ drv.base \in Nat
        /\ \A a \in Actors : cmd[a].diff.base \in Nat /\ cmd[a].cur.base \in Nat
    <2>1. \A a \in Actors : cmd[a].diff \in Gen /\ cmd[a].cur \in Gen
      BY DEF Types, SessionType, Cmd
    <2> QED
      BY <2>1, MaxGenNat DEF Types, DriverType, Gen
  <1>6. ui'.base <= nextGen' /\ NotOlder(drv)'
    BY <1>1, <1>3, <1>5 DEF NotOlder
  <1>7. ASSUME NEW a \in Actors
        PROVE  /\ cmd'[a].gen <= nextGen'
               /\ Fetched(cmd[a])'
               /\ cmd'[a].kind = "baseline" /\ cmd'[a].at = "sent" /\ cmd'[a].ok
                    => drv'.base = 0 \/ drv'.base >= cmd'[a].gen
    <2>1. CASE cmd'[a] = cmd[a]
      BY <1>1, <1>3, <1>5, <2>1 DEF NothingOlder, Fetched, NotOlder
    <2>2. CASE cmd'[a] # cmd[a]
      BY <1>3, <1>5, <2>2 DEF Fetched, NotOlder, NoGen
    <2> QED
      BY <2>1, <2>2
  <1> QED
    BY <1>4, <1>6, <1>7 DEF NothingOlder

LEMMA InitOlder == Init => NothingOlder
  <1>1. \A c \in FirstCommands, a \in Actors :
          c[a].gen = 0 /\ c[a].diff = NoGen /\ c[a].cur = NoGen /\ c[a].kind # "baseline"
    BY FirstCommandsAre, CommandFields
  <1>2. InitUi.base = 0 /\ InitUi.diff = NoGen /\ InitUi.cur = NoGen
    BY DEF InitUi
  <1>3. \A p \in Panels : InitUi.panel[p] = NoGen
    BY DEF InitUi, NoPanels
  <1>4. Init => Shown = {}
    BY <1>2, <1>3 DEF Init, Shown
  <1> QED
    BY <1>1, <1>2, <1>4
       DEF Init, DriverInit, NoSnapshots, NoGen, NothingOlder, NotOlder, Fetched

LEMMA NextOlder ==
  ASSUME Patient, NothingOlderInv, [Next]_vars
  PROVE  NothingOlderInv'
  <1>1. Types /\ MutexInv /\ PatientInv /\ NothingOlder
    BY DEF NothingOlderInv
  <1> SUFFICES NothingOlder'
    BY <1>1, NextTypes, NextMutex, NextPatient DEF NothingOlderInv
  <1>2. CASE UNCHANGED vars
    BY <1>1, <1>2, SameOlder DEF vars, driverVars, sessionVars
  <1>3. CASE StopsLate /\ UNCHANGED sessionVars
    BY <1>1, <1>3, SameOlder DEF StopsLate, NoSnapshots, sessionVars
  <1>4. CASE Exit
    BY <1>1, <1>4, SameOlder DEF Exit, driverVars
  <1>5. CASE Restart
    BY <1>1, <1>5, FirstOlder DEF Restart, driverVars
  <1>6. ASSUME NEW a \in Actors, Step(a)
        PROVE  NothingOlder'
    BY <1>6, StepOlder DEF Step
  <1> QED
    BY <1>1, <1>2, <1>3, <1>4, <1>5, <1>6, KeyOlder, MessagesOlder, EndOlder DEF Next

\* If the user waits for every answer, nothing is shown, after baseline was
\* captured again, that was compared with a baseline before it.
THEOREM PatientUserSeesNothingStale ==
  ASSUME Patient
  PROVE  Spec => []NothingShownOfAnOlderBaseline
  <1>1. Init => NothingOlderInv
    BY InitTypes, InitMutex, InitPatient, InitOlder DEF NothingOlderInv
  <1>2. NothingOlderInv /\ [Next]_vars => NothingOlderInv'
    BY NextOlder
  <1>3. NothingOlderInv => NothingShownOfAnOlderBaseline
    BY DEF NothingOlderInv, NothingOlder, NotOlder, NothingShownOfAnOlderBaseline
  <1> QED
    BY <1>1, <1>2, <1>3, PTL DEF Spec

-----------------------------------------------------------------------------
(***************************************************************************)
(* The service is gone with the program                                    *)
(***************************************************************************)

(***************************************************************************)
(* Between the stop and the deletion nobody starts the driver again, so    *)
(* that the deletion never finds it running and the service is never left  *)
(* marked for deletion.  main's cleanup answers without complaint only     *)
(* when there is no service, and the program ends after that answer.       *)
(***************************************************************************)
CleanInv ==
  /\ svc # "marked"
  /\ \A a \in Actors : cmd[a].at = "delete" => svc = "stopped"
  /\ cmd[Main].kind = "cleanup" /\ cmd[Main].at = "sent" /\ cmd[Main].ok => svc = "absent"
  /\ app = "exited" => cmd[Main].at = "sent"

LEMMA StepClean ==
  ASSUME Types, PatientInv, CleanInv, NEW a \in Actors, Step(a)
  PROVE  CleanInv'
  <1>1. Device(a) \/ Service(a)
    BY DEF Step
  <1>2. /\ UNCHANGED app /\ cmd'[a].kind = cmd[a].kind
        /\ cmd[a].at \notin {"none", "sent"}
        /\ \A b \in Actors : b # a => cmd'[b] = cmd[b]
    BY <1>1, StepFrame DEF Types
  <1>3. app = "exited" => cmd'[Main].at = "sent"
    BY <1>2 DEF Step, CleanInv, Actors
  <1>4. /\ \A b \in Actors : Path(cmd[b])
        /\ Main \in Actors
        /\ cmd[Main].kind \in {"none", "cleanup"}
    BY DEF Types, Paths, Actors, PatientInv, MainCleansUp
  <1>5. cmd[a].kind \notin {"none", "status", "ping"} =>
          \A b \in Actors : b # a => cmd'[b].kind = "none" /\ cmd'[b].at = "none"
    BY <1>2, <1>4 DEF PatientInv, OneAtATime, Path
  <1>6. cmd[a].at \in {"install", "start"} => cmd[a].kind = "start"
    BY <1>4 DEF Path
  <1>7. cmd[a].at \in {"stop", "delete"} => cmd[a].kind \in {"stop", "shutdown", "cleanup"}
    BY <1>4 DEF Path
  <1>8. CASE LeavesService(a)
    BY <1>2, <1>3, <1>4, <1>8 DEF LeavesService, CleanInv, Unopened
  <1>9. CASE StartsService(a)
    BY <1>2, <1>3, <1>4, <1>5, <1>6, <1>9
       DEF StartsService, InstallService, StartService, CleanInv
  <1>10. CASE StopsService(a)
    BY <1>2, <1>3, <1>4, <1>5, <1>7, <1>10 DEF StopsService, StopService, CleanInv
  <1>11. CASE FailsToStop(a)
    BY <1>2, <1>3, <1>4, <1>5, <1>7, <1>11 DEF FailsToStop, StopTimesOut, CleanInv
  <1>12. CASE DeletesService(a)
    BY <1>2, <1>3, <1>4, <1>5, <1>7, <1>12 DEF DeletesService, DeleteService, CleanInv
  <1> QED
    BY <1>1, <1>8, <1>9, <1>10, <1>11, <1>12, ServiceEffects

LEMMA KeyClean ==
  ASSUME Types, CleanInv, Keys
  PROVE  CleanInv'
  <1>1. UNCHANGED svc /\ UNCHANGED app
    BY KeyTypes, KeyFrame DEF Types, driverVars
  <1>2. \A a \in Actors : cmd'[a] = cmd[a] \/ cmd'[a].at # "delete"
    BY KeyFrame DEF Types, SessionType, KeyStarts, UnderMutex
  <1>3. cmd'[Main] = cmd[Main]
    BY KeyFrame, ActorsAreDistinct DEF Types, SessionType, Free, Actors
  <1> QED
    BY <1>1, <1>2, <1>3 DEF CleanInv

LEMMA MessagesClean ==
  ASSUME Types, CleanInv, NEW s \in Slots, Messages(s)
  PROVE  CleanInv'
  <1>1. UNCHANGED svc
    BY MessagesTypes DEF Types, driverVars
  <1>2. app' # "exited"
    BY MessageFrame DEF Types
  <1>3. \A a \in Actors : cmd'[a] = cmd[a] \/ Left(cmd'[a])
    BY MessagesLeave DEF Types
  <1>4. \A c : Left(c) => c.at \notin {"delete", "sent"}
    BY CommandFields DEF Left
  <1> QED
    BY <1>1, <1>2, <1>3, <1>4 DEF CleanInv, Actors

LEMMA InitClean == Init => CleanInv
  BY FirstCommandsAre, CommandFields DEF Init, DriverInit, CleanInv, Actors

LEMMA NextClean ==
  ASSUME Types, PatientInv, CleanInv, [Next]_vars
  PROVE  CleanInv'
  <1>1. CASE UNCHANGED vars
    BY <1>1 DEF vars, driverVars, sessionVars, CleanInv
  <1>2. CASE StopsLate /\ UNCHANGED sessionVars
    BY <1>2 DEF StopsLate, sessionVars, CleanInv
  <1>3. CASE Exit
    BY <1>3 DEF Exit, driverVars, CleanInv
  <1>5. CASE ProgramEnds
    BY <1>5, EndFrame DEF Types, driverVars, CleanInv
  <1>4. CASE Restart
    BY <1>4, FirstCommandsAre, CommandFields DEF Restart, driverVars, CleanInv, Actors
  <1> QED
    BY <1>1, <1>2, <1>3, <1>4, <1>5, KeyClean, StepClean, MessagesClean DEF Next

\* A program that ends without complaint has removed the driver service, if
\* its user waited for every answer.
THEOREM PatientUserLeavesNoService ==
  ASSUME Patient
  PROVE  Spec => []ExitCleansUp
  <1> DEFINE I == Types /\ PatientInv /\ CleanInv
  <1>1. Init => I
    BY InitTypes, InitPatient, InitClean
  <1>2. I /\ [Next]_vars => I'
    BY NextTypes, NextPatient, NextClean
  <1>3. I => ExitCleansUp
    BY DEF PatientInv, MainCleansUp, CleanInv, ExitCleansUp
  <1> HIDE DEF I
  <1> QED
    BY <1>1, <1>2, <1>3, PTL DEF Spec

=============================================================================
