---------------------------- MODULE GarageControl ----------------------------
(* GarageControlCapability: the main loop samples two endpoint sensors and   *)
(* derives the state of the door, while the task that received a command     *)
(* presses buttons of the gate and edits the same state. Reads and writes of *)
(* the state string are whole here; in the code they are a data race.        *)
EXTENDS Naturals, FiniteSets

CONSTANTS
  SensorDebounce,   \* sensorDebounceTimeMs
  MaxGarageCommands \* bound on the commands of a behaviour

ASSUME GarageAssumption == SensorDebounce \in Nat /\ MaxGarageCommands \in Nat

Endpoints == {"open", "close"}
Travels == {"opened", "closed", "opening", "closing", "unknown"}
\* The state string: a state and how many times "_lock" follows it; two stand
\* for two or more.
States == [base : Travels, locks : 0..2]
Plain(base) == [base |-> base, locks |-> 0]

VARIABLES
  sensors,      \* which sensors are configured
  door,         \* where the door is: an endpoint or "moving"
  raw, stable,  \* last sample and debounced sample of each sensor, TRUE: active;
                \* a sensor whose StableInitialized is not set is inactive
  current,      \* currentState
  last,         \* lastState
  published,    \* the value the event sink got last
  direction,    \* requestedDirection
  loop,         \* where the main loop is in handle()
  command,      \* the command being executed and where it is
  commandsLeft  \* commands that may still come

sensing == <<raw, stable>>
garageVars == <<sensors, door, sensing, current, last, published, direction,
                loop, command, commandsLeft>>

NoCommand == [op |-> "none", at |-> "idle", read |-> Plain("unknown"), again |-> FALSE]

\* setup(): the sensors are read once; nothing is stable yet.
GarageInit ==
  /\ sensors \in SUBSET Endpoints
  /\ door = "close"
  /\ raw = [s \in Endpoints |-> s = "close" /\ s \in sensors]
  /\ stable = [s \in Endpoints |-> FALSE]
  /\ current = Plain("unknown") /\ last = Plain("unknown")
  /\ published = Plain("unknown")
  /\ direction = "none"
  /\ loop = "sample"
  /\ command = NoCommand
  /\ commandsLeft = MaxGarageCommands

-----------------------------------------------------------------------------
(* The main loop *)

\* What a sensor may show: at an endpoint its truth, in between also bounces.
Shows(s) == IF door = "moving" THEN BOOLEAN ELSE {s = door}

AtMost(a, b) == IF a < b THEN a ELSE b

ActiveAtEdge(s) == s \in sensors /\ stable'[s] /\ ~stable[s]
Active(s) == s \in sensors /\ stable'[s]

\* evaluateStateFromSensors: what the loop makes of the stable sensors.
Evaluate ==
  LET towards == IF direction = "open" THEN "opening" ELSE "closing" IN
  CASE Active("open") /\ Active("close") -> Plain("unknown")
    [] Active("close") /\ ~Active("open") -> Plain("closed")
    [] Active("open") /\ ~Active("close") -> Plain("opened")
    [] OTHER ->
         IF direction # "none" THEN Plain(towards)
         ELSE IF sensors = {}
              THEN IF current \in {Plain("opening"), Plain("closing")}
                   THEN current ELSE Plain("unknown")
              ELSE IF current = Plain("closed") THEN Plain("opening")
              ELSE IF current = Plain("opened") THEN Plain("closing")
              ELSE current

\* settled: the sensors whose sample has lasted for the debounce interval. A
\* sample that changed starts it anew, so that it takes another turn at least.
HandleSensorState(settled) ==
  /\ loop = "sample"
  /\ \E reading \in [Endpoints -> BOOLEAN] :
       /\ \A s \in sensors : reading[s] \in Shows(s)
       /\ \A s \in Endpoints \ sensors : ~reading[s]
       /\ SensorDebounce > 0 => \A s \in settled : reading[s] = raw[s]
       /\ raw' = reading
       /\ stable' = [s \in Endpoints |-> IF s \in settled THEN reading[s] ELSE stable[s]]
  /\ current' = Evaluate
  /\ direction' = IF \E s \in Endpoints : Active(s) THEN "none" ELSE direction
  /\ loop' = "compare"
  /\ UNCHANGED <<sensors, door, last, published, command, commandsLeft>>

\* handle() compares, publishes and remembers; the three read the state anew.
PublishChange ==
  /\ loop = "compare"
  /\ IF current # last THEN published' = current /\ loop' = "remember"
     ELSE loop' = "sample" /\ UNCHANGED published
  /\ UNCHANGED <<sensors, door, sensing, current, last, direction, command, commandsLeft>>

RememberState ==
  /\ loop = "remember"
  /\ last' = current
  /\ loop' = "sample"
  /\ UNCHANGED <<sensors, door, sensing, current, published, direction, command, commandsLeft>>

-----------------------------------------------------------------------------
(* Commands. A press of a button of the gate goes before each and changes    *)
(* nothing here, so it is part of the step after it.                         *)

\* lock and stop read the state they will edit; unlock is two stops.
Editing(op) ==
  [op |-> op, at |-> "write", read |-> current, again |-> op = "unlock"]

\* open and close only ask for a direction.
Command ==
  /\ command = NoCommand
  /\ commandsLeft > 0
  /\ commandsLeft' = commandsLeft - 1
  /\ \/ direction' \in {"open", "close"} /\ UNCHANGED command
     \/ /\ \E op \in {"lock", "stop", "unlock"} : command' = Editing(op)
        /\ UNCHANGED direction
  /\ UNCHANGED <<sensors, door, sensing, current, last, published, loop>>

WriteState ==
  /\ command.at = "write"
  /\ current' = IF command.op = "lock"
                THEN [command.read EXCEPT !.locks = AtMost(@ + 1, 2)]
                ELSE Plain(command.read.base)
  /\ command' = [command EXCEPT !.at = "publish", !.read = NoCommand.read]
  /\ UNCHANGED <<sensors, door, sensing, last, published, direction, loop, commandsLeft>>

PublishState ==
  /\ command.at = "publish"
  /\ published' = current
  /\ command' = IF command.again THEN [command EXCEPT !.at = "pause"]
                ELSE NoCommand
  /\ UNCHANGED <<sensors, door, sensing, current, last, direction, loop, commandsLeft>>

SecondStop ==
  /\ command.at = "pause"
  /\ command' = Editing("stop")
  /\ UNCHANGED <<sensors, door, sensing, current, last, published, direction, loop, commandsLeft>>

-----------------------------------------------------------------------------
\* Where the door is counts only when it is sampled.
DoorMoves ==
  /\ loop = "sample"
  /\ door' \in {"moving"} \cup Endpoints
  /\ IF door = "moving" THEN door' # "moving" ELSE door' = "moving"
  /\ UNCHANGED <<sensors, sensing, current, last, published, direction, loop,
                 command, commandsLeft>>

Handle ==
  \/ \E settled \in SUBSET sensors : HandleSensorState(settled)
  \/ PublishChange \/ RememberState
Execute == WriteState \/ PublishState \/ SecondStop

GarageNext == Handle \/ Command \/ Execute \/ DoorMoves

\* The main loop and the task that executes a command keep running, and time
\* does not stand still between the turns of the loop.
GarageFairness ==
  /\ SF_garageVars(HandleSensorState(sensors)) /\ WF_garageVars(Handle) /\ WF_garageVars(Execute)

GarageSpec == GarageInit /\ [][GarageNext]_garageVars /\ GarageFairness

-----------------------------------------------------------------------------
GarageTypeOK ==
  /\ sensors \subseteq Endpoints /\ door \in {"moving"} \cup Endpoints
  /\ raw \in [Endpoints -> BOOLEAN] /\ stable \in [Endpoints -> BOOLEAN]
  /\ current \in States /\ last \in States /\ published \in States
  /\ direction \in {"none", "open", "close"}
  /\ loop \in {"sample", "compare", "remember"}
  /\ command \in [op : {"none", "lock", "stop", "unlock"},
                  at : {"idle", "write", "publish", "pause"},
                  read : States, again : BOOLEAN]
  /\ commandsLeft \in 0..MaxGarageCommands

\* The state the loop works with finds back to a door that stays at an endpoint
\* with both sensors, whatever commands edited it meanwhile: the loop derives it
\* anew from the stable sensors on every turn. It says nothing of what was
\* published last.
GarageSettles ==
  \A s \in Endpoints :
    <>[](sensors = Endpoints /\ door = s)
      => []<>(current = Plain(IF s = "open" THEN "opened" ELSE "closed"))

\* GAR-004 and GAR-005 of GARAGE-CONTROL-STATE.md: with one endpoint active and
\* stable, the state published is that endpoint's, locked or not. It is not so
\* for ever: a stop or a lock publishes the state it read before the door got
\* there, and the loop, which compares with what it published itself, has
\* nothing to correct.
PublishedSettles ==
  \A s \in Endpoints :
    <>[](sensors = Endpoints /\ door = s)
      => []<>(published.base = IF s = "open" THEN "opened" ELSE "closed")
=============================================================================
