--------------------------- MODULE SensorSimulation ---------------------------
(***************************************************************************)
(* The sensor Simulation of main.py (its section 2) under any schedule of  *)
(* the main loop: the real-time clock, the wire the test hook breaks and   *)
(* repairs, sensor_simulation_tick(), and the two arrow keys of the main   *)
(* loop, which write the same reading.                                     *)
(*                                                                         *)
(* Temperatures are integers in tenths of a degree.  Time advances by      *)
(* quanta, Quanta of them to the second, and is counted from               *)
(* _simulation_started as whole seconds (sec) and the rest (frac).         *)
(***************************************************************************)
EXTENDS Integers

CONSTANTS
  Quanta,     \* clock quanta in a second
  MaxPass,    \* the longest time, in quanta, between two calls of the tick
  FaultHook,  \* TRUE iff CAS_EXAMPLE_TEST_SENSOR_FAULT_FILE names a file
  Horizon,    \* BOUND: the last second of the clock
  MaxNudges   \* BOUND: how often each arrow key is pressed

ASSUME QuantaAssumption    == Quanta \in Nat \ {0}
ASSUME MaxPassAssumption   == MaxPass \in Nat \ {0}
ASSUME FaultHookAssumption == FaultHook \in BOOLEAN
ASSUME HorizonAssumption   == Horizon \in Nat
ASSUME MaxNudgesAssumption == MaxNudges \in Nat

ANALOG_INPUT_LOWEST == 180
ANALOG_INPUT_HIGHEST == 260
ANALOG_INPUT_STEP == 5
ANALOG_INPUT_START == 215
NUDGE == 11
BINARY_INPUT_TOGGLE_SECONDS == 3
MULTI_STATE_INPUT_STEP_SECONDS == 4
MULTI_STATE_INPUT_NUMBER_OF_STATES == 3
NO_FAULT_DETECTED == "NO_FAULT_DETECTED"
OPEN_LOOP == "OPEN_LOOP"

VARIABLES
  started,      \* _simulation_started is not None
  sec,          \* whole seconds since _simulation_started
  frac,         \* quanta since the beginning of second sec
  age,          \* quanta since the last call of the tick
  faultFile,    \* the fault file can be opened
  wireAge,      \* quanta the fault file has been as it is, up to NoticeBound
  lastSecond,   \* _simulation_last_second
  direction,    \* _analog_input_direction
  value,        \* g_analog_input_1_value
  binary,       \* g_binary_input_1_value
  multi,        \* g_multi_state_input_1_value
  reliability,  \* g_analog_input_1_reliability
  ups,          \* ARROW_UPs the main loop has taken
  downs         \* ARROW_DOWNs the main loop has taken

clockVars   == <<started, sec, frac, age>>
wireVars    == <<faultFile, wireAge>>
readingVars == <<direction, value>>
keyVars     == <<ups, downs>>
simVars     == <<lastSecond, binary, multi, reliability>>
vars        == <<clockVars, wireVars, readingVars, keyVars, simVars>>

-----------------------------------------------------------------------------

\* A wire that changes is reported at the latest by the first tick of the
\* next second.
NoticeBound == Quanta + MaxPass

SensorWireBroken == FaultHook /\ faultFile

Reported(broken) == IF broken THEN OPEN_LOOP ELSE NO_FAULT_DETECTED

\* Mutant: a fault once reported is never taken back.
ObservedLatched == Reported(SensorWireBroken \/ reliability = OPEN_LOOP)
Observed == Reported(SensorWireBroken)

\* 1.1 has no exact binary form, so once a key has added it the float that
\* stands for an end of the range may lie on either side of it: tie says
\* whether it compares equal.  0.5 is exact, so before that it always does.
Ties == IF ups + downs > 0 THEN BOOLEAN ELSE {TRUE}

\* Mutant: > for >=.
AboveHighest(tie) == value > ANALOG_INPUT_HIGHEST
AtHighest(tie) == \/ value > ANALOG_INPUT_HIGHEST
                  \/ value = ANALOG_INPUT_HIGHEST /\ tie
AtLowest(tie)  == \/ value < ANALOG_INPUT_LOWEST
                  \/ value = ANALOG_INPUT_LOWEST /\ tie

Heading(tie) == IF AtHighest(tie) THEN -1
                ELSE IF AtLowest(tie) THEN 1
                ELSE direction

-----------------------------------------------------------------------------
\* sensor_simulation_tick()

\* The first call: the clock starts, and second 0 is _simulation_last_second.
FirstCall ==
  /\ ~started
  /\ started' = TRUE
  /\ UNCHANGED <<sec, frac, age, wireVars, readingVars, keyVars, simVars>>

\* Mutant: without the early return of a call in the same second.
EveryCall == started
\* A second that no earlier call has dealt with.
NewSecondDue == started /\ sec # lastSecond

\* A call within a second that has been dealt with returns at once.
SameSecond ==
  /\ started
  /\ sec = lastSecond
  /\ age' = 0
  /\ UNCHANGED <<started, sec, frac, wireVars, readingVars, keyVars, simVars>>

\* Mutants: the reading moves whatever the wire is like, or before it is
\* looked at.
MoveAnyway(tie) == direction' = Heading(tie) /\ value' = value + Heading(tie) * ANALOG_INPUT_STEP
MoveThenCheck(tie) ==
  IF reliability = NO_FAULT_DETECTED
  THEN direction' = Heading(tie) /\ value' = value + Heading(tie) * ANALOG_INPUT_STEP
  ELSE UNCHANGED readingVars
MoveReading(tie) ==
  IF Observed = NO_FAULT_DETECTED
  THEN /\ direction' = Heading(tie)
       /\ value' = value + Heading(tie) * ANALOG_INPUT_STEP
  ELSE UNCHANGED readingVars

\* Mutant: Binary Input 1 toggles every second.
ToggleAlways == 1 - binary
NextBinary == IF sec % BINARY_INPUT_TOGGLE_SECONDS = 0 THEN 1 - binary ELSE binary

\* Mutants: Multi-State Input 1 does not wrap; its states are counted from 0.
StepOn == multi + 1
StepTwice == ((multi + 1) % MULTI_STATE_INPUT_NUMBER_OF_STATES) + 1
NextMulti == (multi % MULTI_STATE_INPUT_NUMBER_OF_STATES) + 1

NewSecond ==
  /\ NewSecondDue
  /\ lastSecond' = sec
  /\ reliability' = Observed
  /\ \E tie \in Ties : MoveReading(tie)
  /\ binary' = NextBinary
  /\ multi' = IF sec % MULTI_STATE_INPUT_STEP_SECONDS = 0
              THEN NextMulti ELSE multi
  /\ age' = 0
  /\ UNCHANGED <<started, sec, frac, wireVars, keyVars>>

SensorSimulationTick == FirstCall \/ SameSecond \/ NewSecond

-----------------------------------------------------------------------------
\* The main loop's arrow keys.  The first key is polled after the first tick.

ArrowUp ==
  /\ started
  /\ ups < MaxNudges
  /\ ups' = ups + 1
  /\ value' = value + NUDGE
  /\ UNCHANGED <<clockVars, wireVars, direction, downs, simVars>>

ArrowDown ==
  /\ started
  /\ downs < MaxNudges
  /\ downs' = downs + 1
  /\ value' = value - NUDGE
  /\ UNCHANGED <<clockVars, wireVars, direction, ups, simVars>>

-----------------------------------------------------------------------------
\* The physical world: time, and the wire.

Older(a) == IF a < NoticeBound THEN a + 1 ELSE a

Advance ==
  /\ started
  /\ age < MaxPass
  /\ \/ frac + 1 < Quanta /\ frac' = frac + 1 /\ UNCHANGED sec
     \/ frac + 1 = Quanta /\ sec < Horizon /\ frac' = 0 /\ sec' = sec + 1
  /\ age' = age + 1
  /\ wireAge' = Older(wireAge)
  /\ UNCHANGED <<started, faultFile, readingVars, keyVars, simVars>>

ChangeWire ==
  /\ FaultHook
  /\ faultFile' = ~faultFile
  /\ wireAge' = 0
  /\ UNCHANGED <<clockVars, readingVars, keyVars, simVars>>

-----------------------------------------------------------------------------

Init ==
  /\ started = FALSE
  /\ sec = 0 /\ frac = 0 /\ age = 0
  /\ faultFile \in {FALSE, FaultHook}
  /\ wireAge = 0
  /\ lastSecond = 0
  /\ direction = 1
  /\ value = ANALOG_INPUT_START
  /\ binary = 0
  /\ multi = 1
  /\ reliability = NO_FAULT_DETECTED
  /\ ups = 0 /\ downs = 0

Next ==
  \/ SensorSimulationTick
  \/ ArrowUp
  \/ ArrowDown
  \/ Advance
  \/ ChangeWire

Spec == Init /\ [][Next]_vars

-----------------------------------------------------------------------------

\* Every variable stays in its type: the reading is an integer, the inputs
\* stay in the values their objects may take, the counters in their bounds.
TypeOK ==
  /\ started \in BOOLEAN
  /\ sec \in 0..Horizon
  /\ frac \in 0..(Quanta - 1)
  /\ age \in 0..MaxPass
  /\ faultFile \in BOOLEAN
  /\ wireAge \in 0..NoticeBound
  /\ lastSecond \in 0..sec
  /\ direction \in {-1, 1}
  /\ value \in Int
  /\ binary \in {0, 1}
  /\ multi \in 1..MULTI_STATE_INPUT_NUMBER_OF_STATES
  /\ reliability \in {NO_FAULT_DETECTED, OPEN_LOOP}
  /\ ups \in 0..MaxNudges
  /\ downs \in 0..MaxNudges

\* However the keys, the wire and the clock interleave, the ramp of
\* sensor_simulation_tick overshoots an end by less than a step beyond what
\* the arrow keys added; with no key pressed the reading is one of the half
\* degrees from 18.0 to 26.0.
ReadingInReach ==
  /\ value >= ANALOG_INPUT_LOWEST - ANALOG_INPUT_STEP - NUDGE * downs
  /\ value <= ANALOG_INPUT_HIGHEST + ANALOG_INPUT_STEP + NUDGE * ups
  /\ (ups = 0 /\ downs = 0) =>
        /\ value >= ANALOG_INPUT_LOWEST
        /\ value <= ANALOG_INPUT_HIGHEST
        /\ value % ANALOG_INPUT_STEP = 0

\* When no pass of the main loop is longer than a second, no second is
\* skipped: Binary Input 1 has toggled exactly once for every 3 s and
\* Multi-State Input 1 has stepped once for every 4 s of the last second
\* that sensor_simulation_tick dealt with.
InputsFollowSeconds ==
  /\ binary = (lastSecond \div BINARY_INPUT_TOGGLE_SECONDS) % 2
  /\ multi = ((lastSecond \div MULTI_STATE_INPUT_STEP_SECONDS)
                 % MULTI_STATE_INPUT_NUMBER_OF_STATES) + 1

InputsKeepTime == MaxPass <= Quanta => InputsFollowSeconds

\* A wire that has been broken (or repaired) for a second and the longest
\* pass of the main loop is what Reliability reports.  The wire is looked at
\* once a second only, and not at all in second 0.
FaultNoticedInTime == wireAge = NoticeBound => reliability = Reported(SensorWireBroken)

\* While the wire is broken no step of the Simulation moves the reading, not
\* even the step that finds it broken: only an arrow key does.
BrokenWireMovesNothing ==
  [][value' # value /\ UNCHANGED keyVars
        => ~SensorWireBroken /\ reliability' = NO_FAULT_DETECTED]_vars
=============================================================================
