----------------------------- MODULE ResetButton -----------------------------
(* FactoryResetButtonController over InputHardwareAdapter: the main loop     *)
(* reads the pin up to three times a turn, and the settings are cleared when *)
(* the pin has not changed for 15 s. The pin may change between two reads.   *)
EXTENDS Naturals

CONSTANTS
  Hold,    \* the 15 s
  MaxWait, \* longest time between two turns, the loop being busy
  MaxTicks \* bound on the clock

ASSUME ResetButtonAssumption == Hold \in Nat /\ MaxWait \in Nat /\ MaxTicks \in Nat

VARIABLES
  configured,   \* button_ # nullptr
  lastRead,     \* lastState_ of the adapter, and lastStateReadMillis_
  wasActive,    \* buttonWasActive_
  triggered,    \* resetTriggered_
  ticks,
  releasedAt,   \* the last turn in which the adapter saw the button released
  clearing      \* the settings were cleared, and how long the adapter had seen
                \* the button held then

buttonVars == <<configured, lastRead, wasActive, triggered, ticks, releasedAt, clearing>>

Unread == [state |-> "unknown", at |-> 0]
NotClearing == [done |-> FALSE, held |-> 0]

ButtonInit ==
  /\ configured = FALSE
  /\ lastRead = Unread
  /\ wasActive = FALSE /\ triggered = FALSE
  /\ ticks = 0 /\ releasedAt = 0
  /\ clearing = NotClearing

\* releaseButton: the next read is the first again.
ReleaseButton == lastRead' = Unread /\ wasActive' = FALSE /\ triggered' = FALSE

\* A second configure() releases the adapter and starts over, too.
ConfigureButton ==
  /\ ~clearing.done
  /\ configured' = TRUE
  /\ ReleaseButton
  /\ releasedAt' = ticks
  /\ UNCHANGED <<ticks, clearing>>

\* InputHardwareAdapter::handle, whose two reads may differ.
ReadPin(first, second, t) ==
  IF first = lastRead.state THEN lastRead ELSE [state |-> second, at |-> t]

\* handle(): the adapter's, then digitalActive() reads the pin once more.
ButtonHandle ==
  /\ configured /\ ~clearing.done
  /\ \E wait \in 0..MaxWait : ticks + wait <= MaxTicks /\ ticks' = ticks + wait
  /\ \E first, second, third \in {"pressed", "released"} :
       /\ first = lastRead.state => second = first
       /\ lastRead' = ReadPin(first, second, ticks')
       /\ releasedAt' = IF "released" \in {first, second} THEN ticks' ELSE releasedAt
       /\ wasActive' = (third = "pressed")
       /\ LET due == third = "pressed" /\ ~triggered /\ ticks' - lastRead'.at > Hold IN
            /\ triggered' = (third = "pressed" /\ (triggered \/ due))
            /\ clearing' = IF due THEN [done |-> TRUE, held |-> ticks' - releasedAt'] ELSE clearing
  /\ UNCHANGED configured

\* restartSafely, two seconds after clear().
RestartSafely ==
  /\ clearing.done
  /\ configured' = FALSE
  /\ lastRead' = Unread
  /\ wasActive' = FALSE /\ triggered' = FALSE
  /\ clearing' = NotClearing
  /\ releasedAt' = ticks
  /\ UNCHANGED ticks

ButtonNext == ConfigureButton \/ ButtonHandle \/ RestartSafely

ButtonSpec == ButtonInit /\ [][ButtonNext]_buttonVars

-----------------------------------------------------------------------------
(* Properties *)

ButtonTypeOK ==
  /\ configured \in BOOLEAN /\ wasActive \in BOOLEAN /\ triggered \in BOOLEAN
  /\ lastRead \in [state : {"unknown", "pressed", "released"}, at : 0..MaxTicks]
  /\ ticks \in 0..MaxTicks /\ releasedAt \in 0..MaxTicks
  /\ clearing \in [done : BOOLEAN, held : 0..MaxTicks]

\* "Keep pressed for 15s to clear settings": the settings are cleared only when
\* the adapter found the button held in every turn of the last 15 s. It is not
\* so: a press between the adapter's read and that of digitalActive() counts
\* with the age of the state before, and a button left alone for 15 s clears the
\* settings at the first touch that falls there.
ClearNeedsHold == clearing.done => clearing.held > Hold
=============================================================================
