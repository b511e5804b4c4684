------------------------ MODULE SensorSimulationProofs ------------------------
(***************************************************************************)
(* What holds of the sensor Simulation for every clock resolution, every   *)
(* longest pass of the main loop, every horizon and any number of keys;    *)
(* what the sensing test may conclude of it, for every sample rate and     *)
(* delay of its reads; and what the device that runs it serves a client.   *)
(***************************************************************************)
EXTENDS SensingTest, FailureModesTest, SensorDevice, Counting, FiniteSetTheorems, TLAPS

(***************************************************************************)
(* Where the clock may be against the last second dealt with.  The first   *)
(* part says no second is skipped while no pass is longer than a second;   *)
(* the second that a second begun and not yet dealt with began after the   *)
(* last call of the tick.                                                  *)
(***************************************************************************)
ClockInv ==
  /\ MaxPass <= Quanta =>
        \/ sec = lastSecond /\ age <= frac
        \/ sec = lastSecond + 1 /\ frac < age
  /\ sec # lastSecond => (sec - lastSecond - 1) * Quanta + frac < age

\* A wire that Reliability does not report yet has changed since the second
\* last dealt with began.
WireInv ==
  reliability # Reported(SensorWireBroken)
    => wireAge <= (sec - lastSecond) * Quanta + frac

IInv == TypeOK /\ ClockInv /\ WireInv

-----------------------------------------------------------------------------

\* Every reachable state is well typed.
THEOREM TypeCorrect == Spec => []TypeOK
<1> USE QuantaAssumption, MaxPassAssumption, FaultHookAssumption,
        HorizonAssumption, MaxNudgesAssumption
    DEF QuantaAssumption, MaxPassAssumption, FaultHookAssumption,
        HorizonAssumption, MaxNudgesAssumption
<1>1. Init => TypeOK
  <2> SUFFICES ASSUME Init PROVE TypeOK
    OBVIOUS
  <2>1. started \in BOOLEAN /\ faultFile \in BOOLEAN
    BY DEF Init
  <2>2. QED
    BY <2>1 DEF Init, TypeOK, NoticeBound, ANALOG_INPUT_START,
                MULTI_STATE_INPUT_NUMBER_OF_STATES
<1>2. TypeOK /\ [Next]_vars => TypeOK'
  <2> SUFFICES ASSUME TypeOK, [Next]_vars PROVE TypeOK'
    OBVIOUS
  <2> USE DEF TypeOK, clockVars, wireVars, readingVars, keyVars, simVars
  <2>1. CASE FirstCall
    BY <2>1 DEF FirstCall
  <2>2. CASE SameSecond
    BY <2>2 DEF SameSecond
  <2>3. CASE NewSecond
    <3>1. PICK tie \in Ties : MoveReading(tie)
      BY <2>3 DEF NewSecond
    <3>2. Heading(tie) \in {-1, 1}
      BY DEF Heading
    <3>3. direction' \in {-1, 1} /\ value' \in Int
      BY <3>1, <3>2 DEF MoveReading, ANALOG_INPUT_STEP
    <3>4. NextMulti \in 1..MULTI_STATE_INPUT_NUMBER_OF_STATES
      BY DEF NextMulti, MULTI_STATE_INPUT_NUMBER_OF_STATES
    <3>5. reliability' \in {NO_FAULT_DETECTED, OPEN_LOOP}
      BY <2>3 DEF NewSecond, Observed, Reported
    <3>6. QED
      BY <2>3, <3>3, <3>4, <3>5 DEF NewSecond, NewSecondDue, NextBinary
  <2>4. CASE ArrowUp
    BY <2>4 DEF ArrowUp, NUDGE
  <2>5. CASE ArrowDown
    BY <2>5 DEF ArrowDown, NUDGE
  <2>6. CASE Advance
    BY <2>6 DEF Advance, Older, NoticeBound
  <2>7. CASE ChangeWire
    BY <2>7 DEF ChangeWire, NoticeBound
  <2>8. CASE UNCHANGED vars
    BY <2>8 DEF vars
  <2>9. QED
    BY <2>1, <2>2, <2>3, <2>4, <2>5, <2>6, <2>7, <2>8
       DEF Next, SensorSimulationTick
<1>3. QED
  BY <1>1, <1>2, PTL DEF Spec

-----------------------------------------------------------------------------

\* While no pass is longer than a second, no second is skipped.
LEMMA ClockStep == TypeOK /\ ClockInv /\ [Next]_vars => ClockInv'
<1> USE QuantaAssumption, MaxPassAssumption
    DEF QuantaAssumption, MaxPassAssumption
<1> SUFFICES ASSUME TypeOK, ClockInv, [Next]_vars PROVE ClockInv'
  OBVIOUS
<1>1. /\ Quanta \in Nat \ {0} /\ MaxPass \in Nat \ {0}
      /\ sec \in Nat /\ frac \in 0..(Quanta - 1)
      /\ age \in 0..MaxPass /\ lastSecond \in 0..sec
  BY DEF TypeOK
<1>2. CASE FirstCall
  BY <1>2 DEF FirstCall, ClockInv, simVars
<1>3. CASE SameSecond
  BY <1>1, <1>3 DEF SameSecond, ClockInv, simVars
<1>4. CASE NewSecond
  BY <1>1, <1>4 DEF NewSecond, NewSecondDue, ClockInv
<1>5. CASE Advance
  <2>1. UNCHANGED lastSecond /\ age' = age + 1 /\ age < MaxPass
    BY <1>5 DEF Advance, simVars
  <2>2. CASE frac + 1 < Quanta /\ frac' = frac + 1 /\ UNCHANGED sec
    BY <1>1, <2>1, <2>2 DEF ClockInv
  <2>3. CASE frac + 1 = Quanta /\ frac' = 0 /\ sec' = sec + 1
    <3>1. (sec' - lastSecond' - 1) * Quanta = (sec - lastSecond - 1) * Quanta + Quanta
      BY <1>1, <2>1, <2>3
    <3>2. sec = lastSecond => (sec' - lastSecond' - 1) * Quanta = 0
      BY <1>1, <2>1, <2>3
    <3>3. sec' # lastSecond' => (sec' - lastSecond' - 1) * Quanta + frac' < age'
      BY <1>1, <2>1, <2>3, <3>1, <3>2 DEF ClockInv
    <3>4. MaxPass <= Quanta => sec' = lastSecond' + 1 /\ frac' < age'
      BY <1>1, <2>1, <2>3 DEF ClockInv
    <3>5. QED
      BY <3>3, <3>4 DEF ClockInv
  <2>4. QED
    BY <1>5, <2>2, <2>3 DEF Advance
<1>6. CASE ArrowUp \/ ArrowDown \/ ChangeWire \/ UNCHANGED vars
  BY <1>6 DEF ArrowUp, ArrowDown, ChangeWire, vars, clockVars, simVars, ClockInv
<1>7. QED
  BY <1>2, <1>3, <1>4, <1>5, <1>6 DEF Next, SensorSimulationTick

\* A wire not reported yet changed within the second last dealt with.
LEMMA WireStep == TypeOK /\ WireInv /\ [Next]_vars => WireInv'
<1> USE QuantaAssumption DEF QuantaAssumption
<1> SUFFICES ASSUME TypeOK, WireInv, [Next]_vars PROVE WireInv'
  OBVIOUS
<1>1. /\ Quanta \in Nat \ {0}
      /\ sec \in Nat /\ frac \in 0..(Quanta - 1)
      /\ lastSecond \in 0..sec /\ wireAge \in Nat
  BY DEF TypeOK, NoticeBound
<1>2. CASE NewSecond
  BY <1>2 DEF NewSecond, Observed, WireInv, SensorWireBroken, Reported, wireVars
<1>3. CASE Advance
  <2>1. /\ UNCHANGED <<lastSecond, reliability, faultFile>>
        /\ wireAge' <= wireAge + 1
    BY <1>1, <1>3 DEF Advance, simVars, Older
  <2>2. UNCHANGED <<reliability, Reported(SensorWireBroken)>>
    BY <2>1 DEF SensorWireBroken
  <2>3. CASE frac + 1 < Quanta /\ frac' = frac + 1 /\ UNCHANGED sec
    BY <1>1, <1>3, <2>1, <2>2, <2>3 DEF WireInv, Advance, Older
  <2>4. CASE frac + 1 = Quanta /\ frac' = 0 /\ sec' = sec + 1
    <3>1. (sec' - lastSecond') * Quanta = (sec - lastSecond) * Quanta + Quanta
      BY <1>1, <2>1, <2>4
    <3>2. wireAge' \in Int
      BY <1>1, <1>3 DEF Advance, Older
    <3>3. QED
      BY <1>1, <2>1, <2>2, <2>4, <3>1, <3>2 DEF WireInv
  <2>5. QED
    BY <1>3, <2>3, <2>4 DEF Advance
<1>4. CASE ChangeWire
  <2>1. 0 <= (sec - lastSecond) * Quanta + frac
    BY <1>1
  <2>2. QED
    BY <1>4, <2>1 DEF ChangeWire, clockVars, simVars, WireInv
<1>5. CASE FirstCall \/ SameSecond \/ ArrowUp \/ ArrowDown \/ UNCHANGED vars
  BY <1>5 DEF FirstCall, SameSecond, ArrowUp, ArrowDown, vars, clockVars,
              wireVars, simVars, WireInv, SensorWireBroken, Reported
<1>6. QED
  BY <1>2, <1>3, <1>4, <1>5 DEF Next, SensorSimulationTick

\* The inductive invariant holds of every reachable state.
THEOREM Inductive == Spec => []IInv
<1>1. Init => ClockInv /\ WireInv
  <2> SUFFICES ASSUME Init PROVE ClockInv /\ WireInv
    OBVIOUS
  <2>1. ClockInv
    BY DEF Init, ClockInv
  <2>2. (sec - lastSecond) * Quanta + frac = 0
    BY QuantaAssumption DEF QuantaAssumption, Init
  <2>3. QED
    BY <2>1, <2>2 DEF Init, WireInv
<1>2. QED
  BY <1>1, TypeCorrect, ClockStep, WireStep, PTL DEF Spec, IInv

-----------------------------------------------------------------------------

\* A wire that stays broken, or repaired, for a second and the longest pass
\* is what Reliability reports.
THEOREM FaultNoticed == Spec => []FaultNoticedInTime
<1>1. IInv => FaultNoticedInTime
  <2> SUFFICES ASSUME IInv, wireAge = NoticeBound,
                      reliability # Reported(SensorWireBroken)
               PROVE FALSE
    BY DEF FaultNoticedInTime
  <2>1. /\ Quanta \in Nat \ {0} /\ MaxPass \in Nat \ {0}
        /\ sec \in Nat /\ frac \in 0..(Quanta - 1)
        /\ age \in 0..MaxPass /\ lastSecond \in 0..sec
    BY QuantaAssumption, MaxPassAssumption
       DEF IInv, TypeOK, QuantaAssumption, MaxPassAssumption
  <2>2. Quanta + MaxPass <= (sec - lastSecond) * Quanta + frac
    BY DEF IInv, WireInv, NoticeBound
  <2>3. CASE sec = lastSecond
    <3>1. (sec - lastSecond) * Quanta = 0
      BY <2>1, <2>3
    <3>2. QED
      BY <2>1, <2>2, <3>1
  <2>4. CASE sec # lastSecond
    <3>1. (sec - lastSecond - 1) * Quanta + frac < age
      BY <2>4 DEF IInv, ClockInv
    <3>2. (sec - lastSecond) * Quanta = (sec - lastSecond - 1) * Quanta + Quanta
      BY <2>1
    <3>3. QED
      BY <2>1, <2>2, <3>1, <3>2
  <2>5. QED
    BY <2>3, <2>4
<1>2. QED
  BY <1>1, Inductive, PTL

-----------------------------------------------------------------------------

\* One second more: what the toggle and the step of a new second do to
\* counts taken modulo 2 and 3.
LEMMA NextSecondCounts ==
  ASSUME NEW s \in Nat
  PROVE  /\ ((s + 1) \div 3) % 2 = IF (s + 1) % 3 = 0 THEN 1 - ((s \div 3) % 2)
                                                     ELSE (s \div 3) % 2
         /\ ((s + 1) \div 4) % 3 = IF (s + 1) % 4 = 0 THEN (((s \div 4) % 3) + 1) % 3
                                                     ELSE (s \div 4) % 3
OBVIOUS

\* With no pass longer than a second, Binary Input 1 and Multi-State Input 1
\* are functions of the last second dealt with.
THEOREM KeepTime == Spec => []InputsKeepTime
<1> USE DEF InputsKeepTime, InputsFollowSeconds, BINARY_INPUT_TOGGLE_SECONDS,
            MULTI_STATE_INPUT_STEP_SECONDS, MULTI_STATE_INPUT_NUMBER_OF_STATES
<1>1. Init => InputsKeepTime
  BY DEF Init
<1>2. IInv /\ InputsKeepTime /\ [Next]_vars => InputsKeepTime'
  <2> SUFFICES ASSUME IInv, InputsKeepTime, [Next]_vars, MaxPass <= Quanta
               PROVE InputsFollowSeconds'
    OBVIOUS
  <2>1. CASE NewSecond
    <3>1. lastSecond' = lastSecond + 1 /\ sec = lastSecond + 1 /\ lastSecond \in Nat
      BY <2>1 DEF NewSecond, NewSecondDue, IInv, ClockInv, TypeOK
    <3>2. binary' = IF (lastSecond + 1) % 3 = 0 THEN 1 - binary ELSE binary
      BY <2>1, <3>1 DEF NewSecond, NextBinary
    <3>3. multi' = IF (lastSecond + 1) % 4 = 0 THEN (multi % 3) + 1 ELSE multi
      BY <2>1, <3>1 DEF NewSecond, NextMulti
    <3>4. /\ binary' = (lastSecond' \div 3) % 2
          /\ multi' = ((lastSecond' \div 4) % 3) + 1
      BY <3>1, <3>2, <3>3, NextSecondCounts
    <3>5. QED
      BY <3>4
  <2>2. CASE UNCHANGED simVars
    BY <2>2 DEF simVars
  <2>3. QED
    BY <2>1, <2>2 DEF Next, SensorSimulationTick, FirstCall, SameSecond,
                      ArrowUp, ArrowDown, Advance, ChangeWire, vars
<1>3. QED
  BY <1>1, <1>2, Inductive, PTL DEF Spec

-----------------------------------------------------------------------------

\* The reading overshoots an end by less than a step and what the keys added.
THEOREM InReach == Spec => []ReadingInReach
<1> USE DEF ReadingInReach, ANALOG_INPUT_LOWEST, ANALOG_INPUT_HIGHEST,
            ANALOG_INPUT_STEP, NUDGE
<1>1. Init => ReadingInReach
  BY DEF Init, ANALOG_INPUT_START
<1>2. TypeOK /\ ReadingInReach /\ [Next]_vars => ReadingInReach'
  <2> SUFFICES ASSUME TypeOK, ReadingInReach, [Next]_vars
               PROVE ReadingInReach'
    OBVIOUS
  <2>1. value \in Int /\ ups \in Nat /\ downs \in Nat /\ direction \in {-1, 1}
    BY MaxNudgesAssumption DEF MaxNudgesAssumption, TypeOK
  <2>2. CASE NewSecond
    <3>1. UNCHANGED <<ups, downs>>
      BY <2>2 DEF NewSecond, keyVars
    <3>2. PICK tie \in Ties : MoveReading(tie)
      BY <2>2 DEF NewSecond
    <3>3. CASE UNCHANGED value
      BY <3>1, <3>3
    <3>4. CASE value' = value + Heading(tie) * 5
      <4>1. tie = TRUE \/ ups + downs > 0
        BY <3>2 DEF Ties
      <4>2. \/ Heading(tie) = 1 /\ value <= 260
            \/ Heading(tie) = -1 /\ value >= 180
        BY <2>1 DEF Heading, AtHighest, AtLowest
      <4>3. (ups = 0 /\ downs = 0) => \/ Heading(tie) = 1 /\ value < 260
                                      \/ Heading(tie) = -1 /\ value > 180
        BY <2>1, <4>1 DEF Heading, AtHighest, AtLowest
      <4>4. QED
        BY <2>1, <3>1, <3>4, <4>2, <4>3
    <3>5. QED
      BY <3>2, <3>3, <3>4 DEF MoveReading, readingVars
  <2>3. CASE ArrowUp
    BY <2>1, <2>3 DEF ArrowUp
  <2>4. CASE ArrowDown
    BY <2>1, <2>4 DEF ArrowDown
  <2>5. CASE UNCHANGED <<readingVars, keyVars>>
    BY <2>5 DEF readingVars, keyVars
  <2>6. QED
    BY <2>2, <2>3, <2>4, <2>5 DEF Next, SensorSimulationTick, FirstCall,
       SameSecond, Advance, ChangeWire, vars
<1>3. QED
  BY <1>1, <1>2, TypeCorrect, PTL DEF Spec

\* No step of the Simulation moves the reading of a broken wire.
THEOREM BrokenMovesNothing == Spec => BrokenWireMovesNothing
<1>1. TypeOK /\ [Next]_vars => [value' # value /\ UNCHANGED keyVars
                        => ~SensorWireBroken /\ reliability' = NO_FAULT_DETECTED]_vars
  <2> SUFFICES ASSUME TypeOK, [Next]_vars, value' # value, UNCHANGED keyVars
               PROVE ~SensorWireBroken /\ reliability' = NO_FAULT_DETECTED
    OBVIOUS
  <2>1. CASE NewSecond
    <3>1. PICK tie \in Ties : MoveReading(tie)
      BY <2>1 DEF NewSecond
    <3>2. Observed = NO_FAULT_DETECTED
      BY <3>1 DEF MoveReading, readingVars
    <3>3. QED
      BY <2>1, <3>2 DEF NewSecond, Observed, Reported, NO_FAULT_DETECTED, OPEN_LOOP
  <2>2. CASE ArrowUp \/ ArrowDown
    <3>1. ups' = ups /\ downs' = downs
      BY DEF keyVars
    <3>2. QED
      BY <2>2, <3>1, MaxNudgesAssumption
         DEF ArrowUp, ArrowDown, TypeOK, MaxNudgesAssumption
  <2>3. QED
    BY <2>1, <2>2 DEF Next, SensorSimulationTick, FirstCall, SameSecond,
                      Advance, ChangeWire, vars, readingVars
<1>2. QED
  BY <1>1, TypeCorrect, PTL DEF Spec, BrokenWireMovesNothing

(***************************************************************************)
(* The sensing test                                                        *)
(***************************************************************************)

Doings == {"sleeping", "analogAsked", "analogServed", "binaryAsked", "binaryServed",
           "multiAsked", "multiServed"}

\* What the Peer does once Analog Input 1, or Binary Input 1, has been served.
AnalogAnswered == {"binaryAsked", "binaryServed", "multiAsked", "multiServed"}
BinaryRead     == {"binaryServed", "multiAsked", "multiServed"}

\* The last complete sample.
LastTaken == IF doing = "sleeping" THEN current ELSE previous

SensingTyped ==
  /\ doing \in Doings
  /\ {due, patience, answered} \subseteq Nat
  /\ lost \in 0..MaxLost
  /\ patience <= PeerDelay + lost
  /\ doing = "sleeping" => patience <= PeerDelay
  /\ doing # "sleeping" => current \in Samples
  /\ {current, previous} \subseteq Samples \union {NoSample}
  /\ previous # NoSample => current # NoSample
  /\ toggledAt \in Nat \union {NoSample}
  /\ toggledAt # NoSample => LastTaken # NoSample
  /\ held \in Int \union {NoSample}

-----------------------------------------------------------------------------
\* The steps of Analog Input 1

\* Since the sample was asked for the reading has moved from the sample's to
\* `reading`, if at all, by at most a step in each second from `first`, in which
\* it was asked for or which began later, to `second`.
Far(sample, reading, second) ==
  \/ reading = sample.analog
  \/ \E first \in 0..second :
       /\ sample.asked < (first + 1) * Quanta
       /\ Distance(sample.analog, reading) <= ANALOG_INPUT_STEP * (second + 1 - first)

\* The same, of a reading served at the latest at `time`.
Reached(sample, reading, time) ==
  /\ sample.asked <= time
  /\ \E second \in Nat : second * Quanta <= time /\ Far(sample, reading, second)

StepsInv ==
  /\ doing # "sleeping" => current.asked <= Now
  /\ doing \in AnalogAnswered \union {"analogServed"} => Far(current, value, lastSecond)
  /\ doing \in AnalogAnswered => current.asked <= answered /\ answered <= Now
  /\ LastTaken # NoSample => LastTaken.asked <= Now /\ Far(LastTaken, value, lastSecond)
  /\ previous # NoSample =>
        /\ doing = "analogServed" => Reached(previous, current.analog, Now)
        /\ doing \in AnalogAnswered \union {"sleeping"} =>
              Reached(previous, current.analog, answered)

-----------------------------------------------------------------------------
\* When the other two inputs were read

BinaryAt(second) == (second \div BINARY_INPUT_TOGGLE_SECONDS) % 2
MultiAt(second)  == ((second \div MULTI_STATE_INPUT_STEP_SECONDS)
                       % MULTI_STATE_INPUT_NUMBER_OF_STATES) + 1

\* At `time` the last second dealt with may have been `second`.
Dealt(second, time) ==
  second * Quanta <= time /\ time < (second + 1) * Quanta + MaxPass

\* What the reads of the sample being taken may take, up to the one under way,
\* beside the time lost to retries.
Delays == CASE doing = "sleeping" -> 0
            [] doing \in {"analogAsked", "analogServed"} -> PeerDelay
            [] doing \in {"binaryAsked", "binaryServed"} -> 2 * PeerDelay
            [] doing \in {"multiAsked", "multiServed"}   -> 3 * PeerDelay

\* The next sample is asked for in time after what was read at `time`, `slack`
\* before the end of its sample.
Paced(time, slack) ==
  /\ doing = "sleeping" => due <= time + SampleQuanta
  /\ Now + patience <= time + SampleQuanta + slack + lost + PeerDelay + Delays

\* Where the Peer is within the sample it is taking.
AskedInv ==
  doing # "sleeping" =>
    /\ due <= current.asked + SampleQuanta
    /\ current.asked <= Now
    /\ Now + patience <= current.asked + lost + Delays

\* What the last sample's multi-state reading was served as,
MultiShown(time, second) ==
  /\ second <= lastSecond
  /\ Dealt(second, time) /\ LastTaken.multi = MultiAt(second)
  /\ Paced(time, 0)

\* and the one of the sample that is being taken.
MultiServed(time, second) ==
  /\ second <= lastSecond
  /\ Dealt(second, time) /\ current.multi = MultiAt(second)
  /\ current.asked <= time /\ Now + patience <= time + PeerDelay + lost

\* The current sample's state is the previous one's or the next.
SteppedAtMostOnce ==
  previous # NoSample =>
    current.multi \in {previous.multi,
                       (previous.multi % MULTI_STATE_INPUT_NUMBER_OF_STATES) + 1}

OrderInv ==
  /\ LastTaken # NoSample => \E time, second \in Nat : MultiShown(time, second)
  /\ doing = "multiServed" => \E time, second \in Nat : MultiServed(time, second)
  /\ doing \in {"sleeping", "multiServed"} => SteppedAtMostOnce

\* A sample that shows that Binary Input 1 toggled at second 3 * count.
Shows(asked, count) ==
  /\ (3 * count) * Quanta <= asked + 2 * PeerDelay
  /\ asked < (3 * count) * Quanta + MaxPass + SampleQuanta + 2 * PeerDelay

\* What the last sample's binary reading was served as,
Showing(time, second) ==
  /\ second <= lastSecond
  /\ Dealt(second, time) /\ LastTaken.binary = BinaryAt(second)
  /\ Paced(time, PeerDelay)
  /\ doing # "sleeping" => current.asked <= time + SampleQuanta + 2 * PeerDelay
  /\ toggledAt # NoSample => Shows(toggledAt, second \div BINARY_INPUT_TOGGLE_SECONDS)

\* and the one of the sample that is being taken.
Served(time, second) ==
  /\ second <= lastSecond
  /\ Dealt(second, time) /\ current.binary = BinaryAt(second)
  /\ current.asked <= time /\ time <= current.asked + 2 * PeerDelay
  /\ Now + patience <= time + PeerDelay + (IF doing = "binaryServed" THEN 0 ELSE PeerDelay)

\* Both hold while no read has been retried.
HoldInv ==
  /\ lost = 0 /\ LastTaken # NoSample =>
       \E time, second \in Nat :
         /\ Showing(time, second)
         /\ doing \in BinaryRead => \E after, then \in Nat :
               Served(after, then) /\ second <= then /\ then <= second + 2
  /\ lost = 0 /\ doing \in BinaryRead => \E time, second \in Nat : Served(time, second)
  /\ HeldAboutThreeSeconds

-----------------------------------------------------------------------------
\* The clock and the reading

\* The sensor runs as it does alone: what is proved of it holds here.
THEOREM SensingRunsSimulation == TestSpec => Spec
<1>1. TestInit => Init
  BY DEF TestInit
<1>2. [TestNext]_testVars => [Next]_vars
  BY DEF TestNext, Next, testVars
<1>3. QED
  BY <1>1, <1>2, PTL DEF TestSpec, Spec

\* While no pass is longer than a second, the last second dealt with is the one
\* the clock shows or, until the pass is over, the one before.
LEMMA NowDealt ==
  ASSUME TypeOK, ClockInv, MaxPass <= Quanta
  PROVE  Now \in Nat /\ lastSecond \in Nat /\ Dealt(lastSecond, Now)
<1>1. /\ Quanta \in Nat /\ MaxPass \in Nat /\ sec \in Nat /\ lastSecond \in Nat
      /\ frac \in Nat /\ frac < Quanta /\ age \in Nat /\ age <= MaxPass
  BY QuantaAssumption, MaxPassAssumption
     DEF TypeOK, QuantaAssumption, MaxPassAssumption
<1>2. PICK begun \in Nat : begun = lastSecond * Quanta
  BY <1>1
<1>3. (lastSecond + 1) * Quanta = begun + Quanta
  BY <1>1, <1>2
<1>4. CASE sec = lastSecond /\ age <= frac
  BY <1>1, <1>2, <1>3, <1>4 DEF Now, Dealt
<1>5. CASE sec = lastSecond + 1 /\ frac < age
  BY <1>1, <1>2, <1>3, <1>5 DEF Now, Dealt
<1>6. QED
  BY <1>4, <1>5 DEF ClockInv

\* The clock shows a second that began and is not over, and no second is dealt
\* with before it begins.
LEMMA NowInSecond ==
  ASSUME TypeOK
  PROVE  /\ Now \in Nat /\ sec \in Nat /\ lastSecond \in Nat /\ lastSecond <= sec
         /\ lastSecond * Quanta <= Now /\ Now < (sec + 1) * Quanta
<1>1. /\ Quanta \in Nat /\ sec \in Nat /\ lastSecond \in Nat /\ lastSecond <= sec
      /\ frac \in Nat /\ frac < Quanta
  BY QuantaAssumption DEF TypeOK, QuantaAssumption
<1>2. PICK began \in Nat : began = sec * Quanta
  BY <1>1
<1>3. (sec + 1) * Quanta = began + Quanta
  BY <1>1, <1>2
<1>4. lastSecond * Quanta <= began
  BY <1>1, <1>2
<1>5. QED
  BY <1>1, <1>2, <1>3, <1>4 DEF Now

\* A call of the tick moves the reading by a step at most, and only when it
\* deals with another second, which is not over.
LEMMA ReadingMoves ==
  ASSUME TypeOK, SensorSimulationTick
  PROVE  /\ Now' = Now /\ value' \in Int /\ lastSecond' \in Nat
         /\ \/ UNCHANGED <<value, lastSecond>>
            \/ /\ lastSecond < lastSecond' /\ Distance(value, value') <= ANALOG_INPUT_STEP
               /\ Now < (lastSecond' + 1) * Quanta
<1>1. value \in Int /\ sec \in Nat /\ lastSecond \in 0..sec /\ direction \in {-1, 1}
  BY DEF TypeOK
<1>2. CASE FirstCall \/ SameSecond
  BY <1>1, <1>2 DEF FirstCall, SameSecond, readingVars, simVars, Now
<1>3. CASE NewSecond
  <2>1. PICK tie \in Ties : MoveReading(tie)
    BY <1>3 DEF NewSecond
  <2>2. Heading(tie) \in {-1, 1}
    BY <1>1 DEF Heading
  <2>3. value' \in {value, value + ANALOG_INPUT_STEP, value - ANALOG_INPUT_STEP}
    BY <1>1, <2>1, <2>2 DEF MoveReading, readingVars, ANALOG_INPUT_STEP
  <2>4. lastSecond' = sec /\ sec # lastSecond /\ Now' = Now
    BY <1>3 DEF NewSecond, NewSecondDue, Now
  <2>5. value' \in Int /\ Distance(value, value') <= ANALOG_INPUT_STEP
    <3>1. value' = value \/ value' = value + 5 \/ value' = value - 5
      BY <2>3 DEF ANALOG_INPUT_STEP
    <3>2. QED
      BY <1>1, <3>1 DEF Distance, ANALOG_INPUT_STEP
  <2>6. QED
    BY <1>1, <2>4, <2>5, NowInSecond
<1>4. QED
  BY <1>2, <1>3 DEF SensorSimulationTick

\* What the Peer does takes no time, and what passes for the sensor passes for
\* the Peer.
LEMMA TestSteps ==
  ASSUME TypeOK, [TestNext]_testVars
  PROVE  \/ Observe /\ UNCHANGED <<Now, value, lastSecond, binary, multi>>
         \/ PeerWaits /\ Now' = Now + 1 /\ UNCHANGED <<value, lastSecond>>
         \/ SensorSimulationTick /\ UNCHANGED peerVars /\ Now' = Now
         \/ UNCHANGED peerVars /\ UNCHANGED <<Now, value, lastSecond>>
<1>1. CASE Observe /\ UNCHANGED vars
  BY <1>1 DEF vars, clockVars, readingVars, simVars, Now
<1>2. CASE Advance /\ PeerWaits
  <2>1. sec \in Nat /\ Quanta \in Nat /\ frac \in Nat
    BY QuantaAssumption DEF TypeOK, QuantaAssumption
  <2>2. CASE frac' = frac + 1 /\ UNCHANGED sec
    BY <1>2, <2>1, <2>2 DEF Advance, readingVars, simVars, Now
  <2>3. CASE frac + 1 = Quanta /\ frac' = 0 /\ sec' = sec + 1
    <3>1. (sec + 1) * Quanta = sec * Quanta + Quanta
      BY <2>1
    <3>2. QED
      BY <1>2, <2>1, <2>3, <3>1 DEF Advance, readingVars, simVars, Now
  <2>4. QED
    BY <1>2, <2>2, <2>3 DEF Advance
<1>3. CASE SensorSimulationTick /\ UNCHANGED peerVars
  BY <1>3, ReadingMoves
<1>4. CASE ChangeWire /\ UNCHANGED peerVars
  BY <1>4 DEF ChangeWire, clockVars, readingVars, simVars, Now
<1>5. CASE UNCHANGED testVars
  BY <1>5 DEF testVars, vars, clockVars, readingVars, simVars, Now
<1>6. QED
  BY <1>1, <1>2, <1>3, <1>4, <1>5 DEF TestNext

-----------------------------------------------------------------------------
\* Types

LEMMA TypedInit ==
  ASSUME TestInit
  PROVE  SensingTyped
BY StartAssumption, PeerDelayAssumption, MaxLostAssumption
   DEF TestInit, SensingTyped, Doings, LastTaken,
       StartAssumption, PeerDelayAssumption, MaxLostAssumption

\* What the Peer does to the sample it is taking.
LEMMA SampleTaken ==
  ASSUME TypeOK, SensingTyped, Observe
  PROVE  /\ current' \in Samples
         /\ AskAnalog => current'.asked = Now
         /\ ~AskAnalog => current \in Samples /\ current'.asked = current.asked
         /\ ServeAnalog => current'.analog = value
         /\ ~AskAnalog /\ ~ServeAnalog => current'.analog = current.analog
         /\ ServeBinary => current'.binary = binary
         /\ ~AskAnalog /\ ~ServeBinary => current'.binary = current.binary
         /\ ServeMulti => current'.multi = multi
         /\ ~AskAnalog /\ ~ServeMulti => current'.multi = current.multi
<1>1. Now \in Nat /\ value \in Int /\ binary \in {0, 1} /\ multi \in 1..3
  BY NowInSecond DEF TypeOK, MULTI_STATE_INPUT_NUMBER_OF_STATES
<1>2. CASE AskAnalog
  <2>1. current' \in Samples /\ current'.asked = Now
    BY <1>1, <1>2 DEF AskAnalog, NothingRead, Samples, MULTI_STATE_INPUT_NUMBER_OF_STATES
  <2>2. ~ServeAnalog /\ ~ServeBinary /\ ~ServeMulti
    BY <1>2 DEF AskAnalog, ServeAnalog, ServeBinary, ServeMulti
  <2>3. QED
    BY <1>2, <2>1, <2>2
<1>3. CASE ~AskAnalog
  <2>1. doing # "sleeping" /\ current \in Samples
    BY <1>3 DEF Observe, ServeAnalog, AnswerAnalog, ServeBinary, AnswerBinary, ServeMulti,
                AnswerMulti, Retry, SensingTyped
  <2>2. CASE ServeAnalog
    <3>1. ~ServeBinary /\ ~ServeMulti /\ current' = [current EXCEPT !.analog = value]
      BY <2>2 DEF ServeAnalog, ServeBinary, ServeMulti
    <3>2. QED
      BY <1>1, <1>3, <2>1, <2>2, <3>1 DEF Samples, MULTI_STATE_INPUT_NUMBER_OF_STATES
  <2>3. CASE ServeBinary
    <3>1. ~ServeAnalog /\ ~ServeMulti /\ current' = [current EXCEPT !.binary = binary]
      BY <2>3 DEF ServeAnalog, ServeBinary, ServeMulti
    <3>2. QED
      BY <1>1, <1>3, <2>1, <2>3, <3>1 DEF Samples, MULTI_STATE_INPUT_NUMBER_OF_STATES
  <2>4. CASE ServeMulti
    <3>1. ~ServeAnalog /\ ~ServeBinary /\ current' = [current EXCEPT !.multi = multi]
      BY <2>4 DEF ServeAnalog, ServeBinary, ServeMulti
    <3>2. QED
      BY <1>1, <1>3, <2>1, <2>4, <3>1 DEF Samples, MULTI_STATE_INPUT_NUMBER_OF_STATES
  <2>5. CASE ~ServeAnalog /\ ~ServeBinary /\ ~ServeMulti
    <3>1. current' = current
      BY <1>3, <2>5 DEF Observe, AnswerAnalog, AnswerBinary, AnswerMulti, Retry
    <3>2. QED
      BY <1>3, <2>1, <2>5, <3>1
  <2>6. QED
    BY <2>2, <2>3, <2>4, <2>5
<1>4. QED
  BY <1>2, <1>3

\* Only the answer to a sample's last read makes it the last one.
LEMMA LastTakenKept ==
  ASSUME TypeOK, [TestNext]_testVars, ~AnswerMulti
  PROVE  LastTaken' = LastTaken
<1>1. CASE Observe
  BY <1>1 DEF Observe, AskAnalog, ServeAnalog, AnswerAnalog, ServeBinary, AnswerBinary,
              ServeMulti, Retry, GoOn, LastTaken
<1>2. CASE UNCHANGED <<doing, current, previous>>
  BY <1>2 DEF LastTaken
<1>3. QED
  BY <1>1, <1>2, TestSteps DEF PeerWaits, peerVars

LEMMA TypedStep ==
  ASSUME TypeOK, SensingTyped, [TestNext]_testVars
  PROVE  SensingTyped'
<1> USE PeerDelayAssumption, SampleQuantaAssumption, RequestTimeoutAssumption, MaxLostAssumption
    DEF PeerDelayAssumption, SampleQuantaAssumption, RequestTimeoutAssumption,
        MaxLostAssumption, GoOn
<1>1. CASE Observe
  <2>1. current' \in Samples /\ Now \in Nat
    BY <1>1, SampleTaken, NowInSecond
  <2>2. CASE Retry
    <3>1. patience' \in Nat /\ lost' \in 0..MaxLost /\ patience' <= PeerDelay + lost'
      BY <2>2 DEF Retry, SensingTyped
    <3>2. LastTaken' = LastTaken
      BY <2>2 DEF Retry, LastTaken
    <3>3. UNCHANGED <<doing, due, current, answered, previous, toggledAt, held>> /\ doing # "sleeping"
      BY <2>2 DEF Retry
    <3>4. QED
      BY <3>1, <3>2, <3>3 DEF SensingTyped
  <2>3. CASE AnswerMulti
    <3>1. /\ doing' = "sleeping" /\ patience' = PeerDelay
          /\ UNCHANGED <<due, lost, current, answered, previous>>
      BY <2>3 DEF AnswerMulti
    <3>2. current.asked \in Nat
      BY <2>1, <3>1 DEF Samples
    <3>3. toggledAt' \in Nat \union {NoSample}
      BY <2>3, <3>2 DEF AnswerMulti, SensingTyped
    <3>4. held' \in Int \union {NoSample}
      BY <2>3, <3>2 DEF AnswerMulti, SensingTyped
    <3>5. current' # NoSample /\ LastTaken' = current'
      BY <2>1, <3>1, NoSampleAssumption DEF NoSampleAssumption, LastTaken
    <3>6. QED
      BY <2>1, <3>1, <3>3, <3>4, <3>5 DEF SensingTyped, Doings
  <2>4. CASE ~Retry /\ ~AnswerMulti
    <3>1. LastTaken' = LastTaken
      BY <2>4, LastTakenKept
    <3>2. UNCHANGED <<lost, toggledAt, held>> /\ doing' \in Doings \ {"sleeping"}
      BY <1>1, <2>4 DEF Observe, AskAnalog, ServeAnalog, AnswerAnalog, ServeBinary,
                        AnswerBinary, ServeMulti, Doings
    <3>3. due' \in Nat /\ answered' \in Nat /\ previous' \in Samples \union {NoSample}
      BY <1>1, <2>1, <2>4 DEF Observe, AskAnalog, ServeAnalog, AnswerAnalog, ServeBinary,
                        AnswerBinary, ServeMulti, SensingTyped
    <3>4. patience' \in {patience, PeerDelay}
      BY <1>1, <2>4 DEF Observe, AskAnalog, ServeAnalog, AnswerAnalog, ServeBinary,
                        AnswerBinary, ServeMulti
    <3>5. current' # NoSample
      BY <2>1, NoSampleAssumption DEF NoSampleAssumption
    <3>6. patience' \in Nat /\ patience' <= PeerDelay + lost'
      BY <3>2, <3>4 DEF SensingTyped
    <3>7. QED
      BY <2>1, <3>1, <3>2, <3>3, <3>5, <3>6 DEF SensingTyped
  <2>5. QED
    BY <2>2, <2>3, <2>4
<1>2. CASE PeerWaits
  <2>1. UNCHANGED <<doing, due, lost, current, answered, previous, toggledAt, held>> /\ LastTaken' = LastTaken
    BY <1>2 DEF PeerWaits, LastTaken
  <2>2. patience' \in Nat /\ patience' <= patience
    BY <1>2 DEF PeerWaits, SensingTyped
  <2>3. QED
    BY <2>1, <2>2 DEF SensingTyped
<1>3. CASE UNCHANGED peerVars
  BY <1>3 DEF peerVars, SensingTyped, LastTaken
<1>4. QED
  BY <1>1, <1>2, <1>3, TestSteps

-----------------------------------------------------------------------------
\* The steps of Analog Input 1

\* Whole seconds that have passed are seconds that the division counts.
LEMMA WholeSeconds ==
  ASSUME NEW q \in Nat \ {0}, NEW m \in Int, NEW k \in Nat, m * q <= k
  PROVE  m <= k \div q
<1>1. PICK d \in Int : d = k \div q /\ k < (d + 1) * q
  OBVIOUS
<1>2. SUFFICES ASSUME d + 1 <= m PROVE FALSE
  BY <1>1
<1>3. (d + 1) * q <= m * q
  BY <1>2
<1>4. QED
  BY <1>1, <1>3

\* A reading that moves on by a step in a later second, not over when the
\* sample was asked for, stays as far.
LEMMA FarOn ==
  ASSUME NEW sample \in Samples, NEW v \in Int, NEW w \in Int, NEW l \in Nat, NEW m \in Nat,
         Far(sample, v, l), l < m, Distance(v, w) <= ANALOG_INPUT_STEP,
         NEW time \in Nat, sample.asked <= time, time < (m + 1) * Quanta
  PROVE  Far(sample, w, m)
<1>1. sample.analog \in Int /\ sample.asked < (m + 1) * Quanta
  BY QuantaAssumption DEF Samples, QuantaAssumption
<1>2. CASE v = sample.analog
  <2>1. m \in 0..m /\ Distance(sample.analog, w) <= ANALOG_INPUT_STEP * (m + 1 - m)
    BY <1>2 DEF ANALOG_INPUT_STEP
  <2>2. QED
    BY <1>1, <2>1 DEF Far
<1>3. CASE v # sample.analog
  <2>1. PICK first \in 0..l :
          /\ sample.asked < (first + 1) * Quanta
          /\ Distance(sample.analog, v) <= ANALOG_INPUT_STEP * (l + 1 - first)
    BY <1>3 DEF Far
  <2>2. Distance(sample.analog, w) <= ANALOG_INPUT_STEP * (m + 1 - first)
    BY <1>1, <2>1 DEF Distance, ANALOG_INPUT_STEP
  <2>3. first \in 0..m
    OBVIOUS
  <2>4. QED
    BY <2>1, <2>2, <2>3 DEF Far
<1>4. QED
  BY <1>2, <1>3

LEMMA ReachedNow ==
  ASSUME TypeOK, NEW sample \in Samples, sample.asked <= Now, Far(sample, value, lastSecond)
  PROVE  Reached(sample, value, Now)
BY NowInSecond DEF Reached

LEMMA ReachedLater ==
  ASSUME NEW sample \in Samples, NEW v \in Int, NEW t \in Nat, NEW u \in Nat, t <= u,
         Reached(sample, v, t)
  PROVE  Reached(sample, v, u)
<1>1. PICK second \in Nat : second * Quanta <= t /\ Far(sample, v, second)
  BY DEF Reached
<1>2. PICK began \in Nat : began = second * Quanta
  BY QuantaAssumption DEF QuantaAssumption
<1>3. sample.asked \in Nat
  BY DEF Samples
<1>4. sample.asked <= u /\ began <= u
  BY <1>1, <1>2, <1>3 DEF Reached
<1>5. QED
  BY <1>1, <1>2, <1>4 DEF Reached

\* What is said of a sample is said of when it was asked for, and its reading.
LEMMA SameFar ==
  ASSUME NEW s \in Samples, NEW t \in Samples, s.asked = t.asked, s.analog = t.analog,
         NEW v, NEW l, Far(s, v, l)
  PROVE  Far(t, v, l)
BY DEF Far

LEMMA StepsStep ==
  ASSUME TypeOK, SensingTyped, SensingTyped', StepsInv, [TestNext]_testVars
  PROVE  StepsInv'
<1> USE DEF StepsInv, AnalogAnswered
<1>1. PICK now \in Nat : now = Now
  BY NowInSecond
<1>2. value \in Int /\ lastSecond \in Nat
  BY NowInSecond DEF TypeOK
<1>3. CASE AskAnalog /\ UNCHANGED <<Now, value, lastSecond>>
  <2>1. doing = "sleeping" /\ doing' = "analogAsked" /\ LastTaken' = LastTaken
    BY <1>3 DEF AskAnalog, GoOn, LastTaken
  <2>2. current'.asked <= Now'
    BY <1>1, <1>3, SampleTaken DEF Observe
  <2>3. QED
    BY <1>3, <2>1, <2>2
<1>4. CASE ServeAnalog /\ UNCHANGED <<Now, value, lastSecond>>
  <2>1. /\ doing = "analogAsked" /\ doing' = "analogServed" /\ UNCHANGED previous
        /\ LastTaken' = LastTaken /\ LastTaken = previous
    BY <1>4 DEF ServeAnalog, LastTaken
  <2>2. current'.asked = current.asked /\ current'.analog = value
    BY <1>4, <2>1, SampleTaken DEF Observe, AskAnalog
  <2>3. Far(current', value, lastSecond)
    BY <2>2 DEF Far
  <2>4. previous # NoSample => Reached(previous, current'.analog, Now)
    BY <2>1, <2>2, ReachedNow DEF SensingTyped
  <2>5. QED
    BY <1>4, <2>1, <2>2, <2>3, <2>4
<1>5. CASE AnswerAnalog /\ UNCHANGED <<Now, value, lastSecond>>
  <2>1. /\ doing = "analogServed" /\ doing' = "binaryAsked" /\ UNCHANGED <<current, previous>>
        /\ LastTaken' = LastTaken /\ answered' = Now
    BY <1>5 DEF AnswerAnalog, GoOn, LastTaken
  <2>2. QED
    BY <1>1, <1>5, <2>1
<1>6. CASE (ServeBinary \/ ServeMulti) /\ UNCHANGED <<Now, value, lastSecond>>
  <2>1. /\ doing \in AnalogAnswered /\ doing' \in AnalogAnswered
        /\ UNCHANGED <<previous, answered>> /\ LastTaken' = LastTaken
    BY <1>6 DEF ServeBinary, ServeMulti, LastTaken
  <2>2. /\ current \in Samples /\ current' \in Samples
        /\ current'.asked = current.asked /\ current'.analog = current.analog
    BY <1>6, <2>1, SampleTaken DEF Observe, AskAnalog, ServeAnalog
  <2>3. Far(current', value, lastSecond)
    BY <2>1, <2>2, SameFar
  <2>4. QED
    BY <1>6, <2>1, <2>2, <2>3
<1>7. CASE AnswerMulti /\ UNCHANGED <<Now, value, lastSecond>>
  <2>1. /\ doing = "multiServed" /\ doing' = "sleeping"
        /\ UNCHANGED <<current, previous, answered>> /\ LastTaken' = current
    BY <1>7 DEF AnswerMulti, GoOn, LastTaken
  <2>2. QED
    BY <1>7, <2>1
<1>8. CASE /\ \/ UNCHANGED doing
              \/ doing \in AnalogAnswered /\ doing' \in AnalogAnswered
           /\ UNCHANGED <<current, previous, answered, value, lastSecond>>
           /\ Now' \in Nat /\ Now <= Now'
  <2>1. PICK then \in Nat : then = Now' /\ now <= then
    BY <1>1, <1>8
  <2>2. ASSUME NEW sample \in Samples, NEW v \in Int, Reached(sample, v, Now)
        PROVE  Reached(sample, v, then)
    BY <1>1, <2>1, <2>2, ReachedLater
  <2>3. /\ doing # "sleeping" =>
            current \in Samples /\ current.asked \in Nat /\ current.analog \in Int
        /\ answered \in Nat
    BY DEF SensingTyped, Samples
  <2>4. LastTaken # NoSample => LastTaken \in Samples /\ LastTaken.asked \in Nat
    BY DEF SensingTyped, Samples, LastTaken
  <2>5. LastTaken' = LastTaken /\ (previous # NoSample => previous \in Samples)
    BY <1>8 DEF LastTaken, SensingTyped
  <2>6. QED
    BY <1>1, <1>8, <2>1, <2>2, <2>3, <2>4, <2>5
<1>9. CASE (AnswerBinary \/ Retry) /\ UNCHANGED <<Now, value, lastSecond>>
  BY <1>1, <1>8, <1>9 DEF AnswerBinary, Retry, GoOn
<1>10. CASE PeerWaits /\ Now' = Now + 1 /\ UNCHANGED <<value, lastSecond>>
  BY <1>1, <1>8, <1>10 DEF PeerWaits
<1>11. CASE SensorSimulationTick /\ UNCHANGED peerVars /\ Now' = Now
  <2>1. CASE UNCHANGED <<value, lastSecond>>
    BY <1>1, <1>8, <1>11, <2>1 DEF peerVars
  <2>2. CASE ~UNCHANGED <<value, lastSecond>>
    <3>1. PICK w \in Int, l \in Nat : w = value' /\ l = lastSecond'
      BY <1>11, ReadingMoves
    <3>2. lastSecond < l /\ Distance(value, w) <= ANALOG_INPUT_STEP /\ now < (l + 1) * Quanta
      BY <1>1, <1>11, <2>2, <3>1, ReadingMoves
    <3>3. ASSUME NEW sample \in Samples, sample.asked <= Now, Far(sample, value, lastSecond)
          PROVE  Far(sample, w, l)
      BY <1>1, <1>2, <3>1, <3>2, <3>3, FarOn
    <3>4. doing # "sleeping" => current \in Samples
      BY DEF SensingTyped
    <3>5. LastTaken # NoSample => LastTaken \in Samples
      BY DEF SensingTyped, LastTaken
    <3>6. UNCHANGED <<doing, current, previous, answered>> /\ LastTaken' = LastTaken
      BY <1>11 DEF peerVars, LastTaken
    <3>7. QED
      BY <1>11, <3>1, <3>3, <3>4, <3>5, <3>6
  <2>3. QED
    BY <2>1, <2>2
<1>12. CASE UNCHANGED peerVars /\ UNCHANGED <<Now, value, lastSecond>>
  BY <1>1, <1>8, <1>12 DEF peerVars
<1>13. QED
  BY <1>3, <1>4, <1>5, <1>6, <1>7, <1>9, <1>10, <1>11, <1>12, TestSteps DEF Observe

\* Two readings that the test has taken are at most two steps further apart
\* than the seconds it counts between them.
LEMMA ReachedWithinTwo ==
  ASSUME NEW sample \in Samples, NEW next \in Samples, NEW received \in Nat,
         Reached(sample, next.analog, received)
  PROVE  Distance(sample.analog, next.analog) \div ANALOG_INPUT_STEP
           <= ((received - sample.asked) \div Quanta) + 2
<1> DEFINE asked == sample.asked
           moved == Distance(sample.analog, next.analog)
<1>1. asked \in Nat /\ asked <= received /\ moved \in Nat
  BY DEF Samples, Reached, Distance
<1>2. PICK second \in Nat : second * Quanta <= received /\ Far(sample, next.analog, second)
  BY DEF Reached
<1> HIDE DEF asked, moved
<1>3. Quanta \in Nat \ {0} /\ received - asked \in Nat
  BY <1>1, QuantaAssumption DEF QuantaAssumption
<1>4. PICK apart \in Nat : apart = (received - asked) \div Quanta
  BY <1>3
<1>5. PICK steps \in Nat : steps = moved \div 5
  BY <1>1
<1>6. steps <= apart + 2
  <2>1. CASE next.analog = sample.analog
    <3>1. moved = 0
      BY <2>1 DEF moved, Distance, Samples
    <3>2. QED
      BY <1>4, <1>5, <3>1
  <2>2. CASE next.analog # sample.analog
    <3>1. PICK first \in 0..second :
            asked < (first + 1) * Quanta /\ moved <= ANALOG_INPUT_STEP * (second + 1 - first)
      BY <1>2, <2>2 DEF Far, asked, moved
    <3>2. steps <= second + 1 - first
      BY <1>1, <1>5, <3>1 DEF ANALOG_INPUT_STEP
    <3>3. PICK a \in Int, b \in Int : a = second * Quanta /\ b = (first + 1) * Quanta
      BY <1>3
    <3>4. (second - first - 1) * Quanta = a - b
      BY <1>3, <3>3
    <3>5. (second - first - 1) * Quanta <= received - asked
      BY <1>1, <1>2, <3>1, <3>3, <3>4
    <3>6. second - first - 1 <= apart
      BY <1>3, <1>4, <3>5, WholeSeconds
    <3>7. QED
      BY <1>2, <1>4, <1>5, <3>1, <3>2, <3>6
  <2>3. QED
    BY <2>1, <2>2
<1>7. QED
  BY <1>4, <1>5, <1>6 DEF asked, moved, ANALOG_INPUT_STEP

\* The inductive invariant of the sensor, and the types of the test.
LEMMA SensingBasics == TestSpec => [](TypeOK /\ ClockInv /\ SensingTyped)
<1>1. TestInit => SensingTyped
  BY TypedInit
<1>2. TypeOK /\ SensingTyped /\ [TestNext]_testVars => SensingTyped'
  BY TypedStep
<1>3. IInv => TypeOK /\ ClockInv
  BY DEF IInv
<1>4. QED
  BY <1>1, <1>2, <1>3, SensingRunsSimulation, Inductive, PTL DEF TestSpec

\* Whatever the resolution of the clock, the passes of the main loop and the
\* delays and retries of the reads, two readings are at most one step further
\* apart than step_count_fits allows.
THEOREM ReadingsWithinTwo == TestSpec => []StepsWithinTwo
<1>1. TestInit => StepsInv
  BY DEF TestInit, StepsInv, AnalogAnswered, LastTaken
<1>2. TypeOK /\ SensingTyped /\ SensingTyped' /\ StepsInv /\ [TestNext]_testVars => StepsInv'
  BY StepsStep
<1>3. SensingTyped /\ StepsInv => StepsWithinTwo
  BY ReachedWithinTwo DEF SensingTyped, StepsInv, StepsWithinTwo, Taken, Steps, SecondsApart
<1>4. QED
  BY <1>1, <1>2, <1>3, SensingBasics, PTL DEF TestSpec

-----------------------------------------------------------------------------
\* Where the Peer is within a sample, and how long after the last one

\* Where the Peer is, and how long what it waits for may still take.
LEMMA AskedStep ==
  ASSUME TypeOK, SensingTyped, SensingTyped', AskedInv, [TestNext]_testVars
  PROVE  AskedInv'
<1> USE PeerDelayAssumption, SampleQuantaAssumption, RequestTimeoutAssumption
    DEF AskedInv, Delays, PeerDelayAssumption, SampleQuantaAssumption, RequestTimeoutAssumption
<1>1. PICK now \in Nat : now = Now
  BY NowInSecond
<1>2. /\ {due, patience, lost, due', patience', lost'} \subseteq Nat
      /\ doing # "sleeping" => current.asked \in Nat
  BY MaxLostAssumption DEF SensingTyped, Samples, MaxLostAssumption
<1>3. CASE Observe /\ Now' = Now
  <2>1. CASE AskAnalog
    <3>1. /\ doing = "sleeping" /\ doing' = "analogAsked"
          /\ due' = due + SampleQuanta /\ due <= Now /\ patience' = PeerDelay
      BY <1>1, <1>2, <2>1 DEF AskAnalog, GoOn
    <3>2. current'.asked = Now
      BY <1>3, <2>1, SampleTaken
    <3>3. QED
      BY <1>1, <1>2, <1>3, <3>1, <3>2
  <2>2. CASE AnswerMulti
    BY <2>2 DEF AnswerMulti, GoOn
  <2>3. CASE Retry
    <3>1. /\ patience = 0 /\ patience' = RequestTimeout /\ lost' = lost + RequestTimeout
          /\ UNCHANGED <<doing, due, current>>
      BY <2>3 DEF Retry
    <3>2. Delays \in Nat /\ Delays' = Delays
      BY <3>1 DEF SensingTyped, Doings
    <3> HIDE DEF Delays
    <3>3. QED
      BY <1>1, <1>2, <1>3, <3>1, <3>2
  <2>4. CASE ~AskAnalog /\ ~AnswerMulti /\ ~Retry
    <3>1. doing # "sleeping" /\ UNCHANGED <<due, lost>>
      BY <1>3, <2>4 DEF Observe, ServeAnalog, AnswerAnalog, ServeBinary, AnswerBinary, ServeMulti
    <3>2. current'.asked = current.asked
      BY <1>3, <2>4, SampleTaken
    <3>3. patience' + Delays <= patience + Delays' /\ Delays \in Nat /\ Delays' \in Nat
      <4>1. CASE ServeAnalog \/ ServeBinary \/ ServeMulti
        BY <1>2, <4>1 DEF ServeAnalog, ServeBinary, ServeMulti
      <4>2. CASE AnswerAnalog \/ AnswerBinary
        BY <1>2, <4>2 DEF AnswerAnalog, AnswerBinary, GoOn
      <4>3. QED
        BY <1>3, <2>4, <4>1, <4>2 DEF Observe
    <3> HIDE DEF Delays
    <3>4. QED
      BY <1>1, <1>2, <1>3, <3>1, <3>2, <3>3
  <2>5. QED
    BY <2>1, <2>2, <2>3, <2>4
<1>4. CASE PeerWaits /\ Now' = Now + 1
  <2>1. doing # "sleeping" => patience' = patience - 1
    BY <1>4 DEF PeerWaits, Asleep
  <2>2. UNCHANGED <<doing, due, lost, current>>
    BY <1>4 DEF PeerWaits
  <2>3. Delays \in Nat /\ Delays' = Delays
    BY <2>2 DEF SensingTyped, Doings
  <2> HIDE DEF Delays
  <2>4. QED
    BY <1>1, <1>2, <1>4, <2>1, <2>2, <2>3
<1>5. CASE UNCHANGED peerVars /\ Now' = Now
  BY <1>5 DEF peerVars
<1>6. QED
  BY <1>3, <1>4, <1>5, TestSteps

\* Until the sample is complete nothing takes longer than its delays.
LEMMA PacedStep ==
  ASSUME TypeOK, SensingTyped, SensingTyped', [TestNext]_testVars, ~AnswerMulti,
         NEW time \in Nat, NEW slack \in Nat, Paced(time, slack)
  PROVE  Paced(time, slack)'
<1> USE PeerDelayAssumption, SampleQuantaAssumption, RequestTimeoutAssumption
    DEF Paced, Delays, PeerDelayAssumption, SampleQuantaAssumption, RequestTimeoutAssumption
<1>1. PICK now \in Nat : now = Now
  BY NowInSecond
<1>2. /\ {due, patience, lost, due', patience', lost'} \subseteq Nat
      /\ doing = "sleeping" => patience <= PeerDelay
  BY MaxLostAssumption DEF SensingTyped, MaxLostAssumption
<1>3. CASE Observe /\ Now' = Now
  <2>1. CASE Retry
    <3>1. /\ patience = 0 /\ patience' = RequestTimeout /\ lost' = lost + RequestTimeout
          /\ UNCHANGED <<doing, due>>
      BY <2>1 DEF Retry
    <3>2. Delays \in Nat /\ Delays' = Delays
      BY <3>1 DEF SensingTyped, Doings
    <3> HIDE DEF Delays
    <3>3. QED
      BY <1>1, <1>2, <1>3, <3>1, <3>2
  <2>2. CASE ~Retry
    <3>1. doing' # "sleeping" /\ lost' = lost
      BY <1>3, <2>2 DEF Observe, AskAnalog, ServeAnalog, AnswerAnalog, ServeBinary,
                        AnswerBinary, ServeMulti, GoOn
    <3>2. patience' + Delays <= patience + Delays' /\ Delays \in Nat /\ Delays' \in Nat
      <4>1. CASE ServeAnalog \/ ServeBinary \/ ServeMulti
        BY <1>2, <4>1 DEF ServeAnalog, ServeBinary, ServeMulti
      <4>2. CASE AskAnalog \/ AnswerAnalog \/ AnswerBinary
        BY <1>2, <4>2 DEF AskAnalog, AnswerAnalog, AnswerBinary, GoOn
      <4>3. QED
        BY <1>3, <2>2, <4>1, <4>2 DEF Observe
    <3> HIDE DEF Delays
    <3>3. QED
      BY <1>1, <1>2, <1>3, <3>1, <3>2
  <2>3. QED
    BY <2>1, <2>2
<1>4. CASE PeerWaits /\ Now' = Now + 1
  <2>1. UNCHANGED <<doing, due, lost>> /\ Delays' = Delays /\ Delays \in Nat
    BY <1>4 DEF PeerWaits, SensingTyped, Doings
  <2>2. CASE Asleep
    <3>1. doing = "sleeping" /\ Now < due /\ patience' = patience /\ Delays = 0
      BY <1>4, <2>2 DEF PeerWaits, Asleep
    <3> HIDE DEF Delays
    <3>2. QED
      BY <1>1, <1>2, <1>4, <2>1, <3>1
  <2>3. CASE ~Asleep
    <3>1. patience' = patience - 1
      BY <1>4, <2>3 DEF PeerWaits
    <3> HIDE DEF Delays
    <3>2. QED
      BY <1>1, <1>2, <1>4, <2>1, <3>1
  <2>4. QED
    BY <2>2, <2>3
<1>5. CASE UNCHANGED peerVars /\ Now' = Now
  BY <1>5 DEF peerVars
<1>6. QED
  BY <1>3, <1>4, <1>5, TestSteps

\* No step takes the second last dealt with back.
LEMMA SecondsKept ==
  ASSUME TypeOK, [TestNext]_testVars
  PROVE  lastSecond' \in Nat /\ lastSecond <= lastSecond'
<1>1. PICK l \in Nat : l = lastSecond
  BY NowInSecond
<1>2. QED
  BY <1>1, TestSteps, ReadingMoves

\* Seconds that pass between two readings, of which the last is read soon
\* enough.
LEMMA SecondsPassed ==
  ASSUME NEW time \in Nat, NEW second \in Nat, Dealt(second, time),
         NEW after \in Nat, NEW then \in Nat, Dealt(then, after),
         NEW n \in Nat, after + MaxPass <= time + n * Quanta
  PROVE  then <= second + n
<1>1. Quanta \in Nat \ {0} /\ MaxPass \in Nat
  BY QuantaAssumption, MaxPassAssumption DEF QuantaAssumption, MaxPassAssumption
<1>2. SUFFICES ASSUME second + n + 1 <= then PROVE FALSE
  OBVIOUS
<1>3. PICK a \in Int, b \in Int : a = (second + 1) * Quanta /\ b = n * Quanta
  BY <1>1
<1>4. (second + n + 1) * Quanta = a + b
  BY <1>1, <1>3
<1>5. (second + n + 1) * Quanta <= then * Quanta
  BY <1>1, <1>2
<1>6. PICK c \in Int : c = then * Quanta
  BY <1>1
<1>7. QED
  BY <1>1, <1>3, <1>4, <1>5, <1>6 DEF Dealt

-----------------------------------------------------------------------------
\* Multi-State Input 1 steps at most once between two samples

\* Within four seconds it steps at most once.
LEMMA MultiWithinFour ==
  ASSUME NEW second \in Nat, NEW then \in Nat, second <= then, then <= second + 4
  PROVE  MultiAt(then) \in {MultiAt(second),
                            (MultiAt(second) % MULTI_STATE_INPUT_NUMBER_OF_STATES) + 1}
<1>1. PICK a \in Nat, b \in Nat : a = second \div 4 /\ b = then \div 4
  OBVIOUS
<1>2. b = a \/ b = a + 1
  BY <1>1
<1>3. (b % 3) + 1 \in {(a % 3) + 1, (((a % 3) + 1) % 3) + 1}
  BY <1>2
<1>4. QED
  BY <1>1, <1>3
     DEF MultiAt, MULTI_STATE_INPUT_STEP_SECONDS, MULTI_STATE_INPUT_NUMBER_OF_STATES

LEMMA MultiShownStep ==
  ASSUME TypeOK, SensingTyped, SensingTyped', [TestNext]_testVars, ~AnswerMulti,
         NEW time \in Nat, NEW second \in Nat, MultiShown(time, second)
  PROVE  MultiShown(time, second)'
<1>1. Paced(time, 0)'
  BY PacedStep DEF MultiShown
<1>2. second <= lastSecond'
  <2>1. PICK l \in Nat : l = lastSecond
    BY NowInSecond
  <2>2. QED
    BY <2>1, SecondsKept DEF MultiShown
<1>3. LastTaken' = LastTaken
  BY LastTakenKept
<1>4. QED
  BY <1>1, <1>2, <1>3 DEF MultiShown

LEMMA MultiServedStep ==
  ASSUME TypeOK, SensingTyped, SensingTyped', [TestNext]_testVars, ~AnswerMulti,
         doing = "multiServed",
         NEW time \in Nat, NEW second \in Nat, MultiServed(time, second)
  PROVE  MultiServed(time, second)' /\ UNCHANGED <<doing, current, previous>>
<1> USE PeerDelayAssumption, RequestTimeoutAssumption
    DEF PeerDelayAssumption, RequestTimeoutAssumption
<1>1. PICK now \in Nat, l \in Nat : now = Now /\ l = lastSecond
  BY NowInSecond
<1>2. {patience, lost, patience', lost'} \subseteq Nat
  BY MaxLostAssumption DEF SensingTyped, MaxLostAssumption
<1>3. UNCHANGED <<doing, current, previous>> /\ Now' + patience' <= time + PeerDelay + lost'
  <2>1. CASE Observe /\ Now' = Now
    <3>1. Retry
      BY <2>1 DEF Observe, AskAnalog, ServeAnalog, AnswerAnalog, ServeBinary, AnswerBinary,
                  ServeMulti
    <3>2. QED
      BY <1>1, <1>2, <2>1, <3>1 DEF Retry, MultiServed
  <2>2. CASE PeerWaits /\ Now' = Now + 1
    <3>1. patience' = patience - 1 /\ UNCHANGED <<doing, current, previous, lost>>
      BY <2>2 DEF PeerWaits, Asleep
    <3>2. QED
      BY <1>1, <1>2, <2>2, <3>1 DEF MultiServed
  <2>3. CASE UNCHANGED peerVars /\ Now' = Now
    BY <2>3 DEF peerVars, MultiServed
  <2>4. QED
    BY <2>1, <2>2, <2>3, TestSteps
<1>4. second <= lastSecond'
  BY <1>1, SecondsKept DEF MultiServed
<1>5. QED
  BY <1>3, <1>4 DEF MultiServed

LEMMA OrderStep ==
  ASSUME TypeOK, ClockInv, InputsKeepTime, SensingTyped, SensingTyped',
         AskedInv, OrderInv, [TestNext]_testVars,
         MaxPass <= Quanta, PeerDelay <= SampleQuanta,
         MaxPass + SampleQuanta + 4 * PeerDelay + MaxLost <= 4 * Quanta
  PROVE  OrderInv'
<1> USE PeerDelayAssumption, SampleQuantaAssumption, MaxPassAssumption, QuantaAssumption,
        MaxLostAssumption
    DEF PeerDelayAssumption, SampleQuantaAssumption, MaxPassAssumption, QuantaAssumption,
        MaxLostAssumption
<1>1. PICK now \in Nat, l \in Nat : now = Now /\ l = lastSecond /\ Dealt(l, now)
  BY NowDealt
<1>2. /\ {due, patience} \subseteq Nat /\ lost \in 0..MaxLost /\ patience <= PeerDelay + lost
      /\ doing # "sleeping" => current.asked \in Nat
  BY DEF SensingTyped, Samples
<1>3. ~AnswerMulti /\ LastTaken # NoSample =>
        \E time, second \in Nat : MultiShown(time, second)'
  BY MultiShownStep DEF OrderInv
<1>4. LastTaken' = LastTaken \/ AnswerMulti
  BY LastTakenKept
<1>5. CASE ServeMulti /\ UNCHANGED <<Now, lastSecond>>
  <2>1. /\ doing = "multiAsked" /\ doing' = "multiServed" /\ UNCHANGED <<patience, lost, previous>>
        /\ LastTaken = previous /\ ~AnswerMulti
    BY <1>5 DEF ServeMulti, AnswerMulti, LastTaken
  <2>2. current'.multi = multi /\ current'.asked = current.asked
    BY <1>5, <2>1, SampleTaken DEF Observe, AskAnalog
  <2>3. MultiAt(l) = multi
    BY <1>1 DEF InputsKeepTime, InputsFollowSeconds, MultiAt
  <2>4. MultiServed(now, l)'
    BY <1>1, <1>2, <1>5, <2>1, <2>2, <2>3 DEF MultiServed, AskedInv
  <2>5. ASSUME previous # NoSample
        PROVE  multi \in {previous.multi,
                          (previous.multi % MULTI_STATE_INPUT_NUMBER_OF_STATES) + 1}
    <3>1. PICK time \in Nat, second \in Nat : MultiShown(time, second)
      BY <2>1, <2>5 DEF OrderInv
    <3>2. Delays = 3 * PeerDelay
      BY <2>1 DEF Delays
    <3>3. now + MaxPass <= time + 4 * Quanta
      BY <1>1, <1>2, <3>1, <3>2 DEF MultiShown, Paced
    <3>4. l <= second + 4
      BY <1>1, <3>1, <3>3, SecondsPassed DEF MultiShown
    <3>5. QED
      BY <1>1, <2>1, <2>3, <3>1, <3>4, MultiWithinFour DEF MultiShown
  <2>6. SteppedAtMostOnce'
    BY <2>1, <2>2, <2>5 DEF SteppedAtMostOnce
  <2>7. QED
    BY <1>3, <1>4, <2>1, <2>4, <2>6 DEF OrderInv
<1>6. CASE AnswerMulti
  <2>1. /\ doing = "multiServed" /\ doing' = "sleeping" /\ patience' = PeerDelay
        /\ UNCHANGED <<due, lost, current, previous>> /\ LastTaken' = current
    BY <1>6 DEF AnswerMulti, GoOn, LastTaken
  <2>2. UNCHANGED <<Now, lastSecond>>
    BY <2>1, TestSteps DEF PeerWaits, peerVars
  <2>3. PICK time \in Nat, second \in Nat : MultiServed(time, second)
    BY <2>1 DEF OrderInv
  <2>4. due <= time + SampleQuanta /\ now <= time + SampleQuanta + lost
    BY <1>1, <1>2, <2>1, <2>3 DEF MultiServed, AskedInv
  <2>5. Paced(time, 0)'
    BY <1>1, <1>2, <2>1, <2>2, <2>4 DEF Paced, Delays
  <2>6. MultiShown(time, second)'
    BY <2>1, <2>2, <2>3, <2>5 DEF MultiShown, MultiServed
  <2>7. SteppedAtMostOnce'
    BY <2>1 DEF SteppedAtMostOnce, OrderInv
  <2>8. QED
    BY <2>1, <2>6, <2>7 DEF OrderInv
<1>7. CASE ~ServeMulti /\ ~AnswerMulti
  <2>1. CASE doing = "multiServed"
    <3>1. UNCHANGED <<doing, current, previous>>
             /\ \E time, second \in Nat : MultiServed(time, second)'
      BY <1>7, <2>1, MultiServedStep DEF OrderInv
    <3>2. SteppedAtMostOnce'
      BY <2>1, <3>1 DEF SteppedAtMostOnce, OrderInv
    <3>3. QED
      BY <1>3, <1>4, <1>7, <2>1, <3>1, <3>2 DEF OrderInv
  <2>2. CASE doing # "multiServed"
    <3>1. \/ UNCHANGED <<doing, current, previous>>
          \/ doing' \notin {"sleeping", "multiServed"}
      BY <1>7, TestSteps DEF Observe, AskAnalog, ServeAnalog, AnswerAnalog, ServeBinary,
                             AnswerBinary, Retry, GoOn, PeerWaits, peerVars
    <3>2. doing' # "multiServed" /\ (doing' = "sleeping" => SteppedAtMostOnce')
      BY <2>2, <3>1 DEF SteppedAtMostOnce, OrderInv
    <3>3. QED
      BY <1>3, <1>4, <1>7, <3>2 DEF OrderInv
  <2>3. QED
    BY <2>1, <2>2
<1>8. ServeMulti => UNCHANGED <<Now, lastSecond>>
  BY TestSteps DEF ServeMulti, PeerWaits, peerVars
<1>9. QED
  BY <1>5, <1>6, <1>7, <1>8

-----------------------------------------------------------------------------
\* The time Binary Input 1 holds a state

\* Within two seconds it toggles at most once, at the beginning of a third one.
LEMMA BinaryWithinTwo ==
  ASSUME NEW second \in Nat, NEW then \in Nat, second <= then, then <= second + 2
  PROVE  LET before == second \div BINARY_INPUT_TOGGLE_SECONDS
             count  == then \div BINARY_INPUT_TOGGLE_SECONDS
         IN  /\ before \in Nat /\ count \in Nat
             /\ BinaryAt(then) = BinaryAt(second) => count = before
             /\ BinaryAt(then) # BinaryAt(second) =>
                  count = before + 1 /\ second + 1 <= 3 * count /\ 3 * count <= then
<1>1. PICK a \in Nat, b \in Nat : a = second \div 3 /\ b = then \div 3
  OBVIOUS
<1>2. b = a \/ (b = a + 1 /\ second + 1 <= 3 * b /\ 3 * b <= then)
  BY <1>1
<1>3. (a + 1) % 2 # a % 2
  BY <1>1
<1>4. QED
  BY <1>1, <1>2, <1>3 DEF BinaryAt, BINARY_INPUT_TOGGLE_SECONDS

\* Two samples that show two toggles, one after the other, were asked for about
\* three seconds apart.
LEMMA ShowsApart ==
  ASSUME NEW count \in Nat, NEW one \in Nat, NEW other \in Nat,
         Shows(one, count), Shows(other, count + 1),
         MaxPass + SampleQuanta + 4 * PeerDelay <= Quanta + 1
  PROVE  Distance(other - one, BINARY_INPUT_TOGGLE_SECONDS * Quanta) <= Quanta
<1> USE PeerDelayAssumption, SampleQuantaAssumption, MaxPassAssumption, QuantaAssumption
    DEF PeerDelayAssumption, SampleQuantaAssumption, MaxPassAssumption, QuantaAssumption
<1>1. PICK a \in Int : a = (3 * count) * Quanta
  OBVIOUS
<1>2. (3 * (count + 1)) * Quanta = a + 3 * Quanta
  BY <1>1
<1>3. other - one <= 4 * Quanta /\ 2 * Quanta <= other - one
  BY <1>1, <1>2 DEF Shows
<1>4. QED
  BY <1>3 DEF Distance, BINARY_INPUT_TOGGLE_SECONDS

\* The sample that shows a toggle was asked for at about its time.
LEMMA ToggleShown ==
  ASSUME NEW time \in Nat, NEW second \in Nat, Dealt(second, time),
         NEW after \in Nat, NEW then \in Nat, Dealt(then, after),
         NEW count \in Nat, second + 1 <= 3 * count, 3 * count <= then,
         NEW asked \in Nat, asked <= time + SampleQuanta + 2 * PeerDelay,
         after <= asked + 2 * PeerDelay
  PROVE  Shows(asked, count)
<1> USE PeerDelayAssumption, SampleQuantaAssumption, MaxPassAssumption, QuantaAssumption
    DEF PeerDelayAssumption, SampleQuantaAssumption, MaxPassAssumption, QuantaAssumption
<1>1. PICK a \in Int : a = (3 * count) * Quanta
  OBVIOUS
<1>2. (second + 1) * Quanta <= a /\ a <= then * Quanta
  BY <1>1
<1>3. PICK b \in Int, c \in Int : b = (second + 1) * Quanta /\ c = then * Quanta
  OBVIOUS
<1>4. QED
  BY <1>1, <1>2, <1>3 DEF Shows, Dealt

LEMMA ShowingStep ==
  ASSUME TypeOK, SensingTyped, SensingTyped', [TestNext]_testVars, ~AnswerMulti, lost = 0,
         NEW time \in Nat, NEW second \in Nat, Showing(time, second)
  PROVE  Showing(time, second)'
<1> USE PeerDelayAssumption, SampleQuantaAssumption
    DEF PeerDelayAssumption, SampleQuantaAssumption
<1>1. Paced(time, PeerDelay)'
  BY PacedStep DEF Showing
<1>2. second <= lastSecond'
  <2>1. PICK l \in Nat : l = lastSecond
    BY NowInSecond
  <2>2. QED
    BY <2>1, SecondsKept DEF Showing
<1>3. LastTaken' = LastTaken /\ toggledAt' = toggledAt
  <2>1. toggledAt' = toggledAt
    BY TestSteps DEF Observe, AskAnalog, ServeAnalog, AnswerAnalog, ServeBinary, AnswerBinary,
                     ServeMulti, Retry, PeerWaits, peerVars
  <2>2. QED
    BY <2>1, LastTakenKept
<1>4. doing' # "sleeping" => current'.asked <= time + SampleQuanta + 2 * PeerDelay
  <2>1. CASE AskAnalog /\ Observe
    <3>1. doing = "sleeping" /\ current'.asked = Now
      BY <2>1, SampleTaken DEF AskAnalog
    <3>2. patience \in Nat /\ Delays = 0 /\ Now \in Nat
      BY <3>1, NowInSecond DEF SensingTyped, Delays
    <3>3. QED
      BY <3>1, <3>2 DEF Showing, Paced
  <2>2. CASE ~AskAnalog /\ doing' # "sleeping"
    <3>1. doing # "sleeping" /\ current'.asked = current.asked
      <4>1. CASE Observe
        <5>1. doing # "sleeping"
          BY <2>2, <4>1 DEF Observe, ServeAnalog, AnswerAnalog, ServeBinary, AnswerBinary,
                            ServeMulti, AnswerMulti, Retry
        <5>2. QED
          BY <2>2, <4>1, <5>1, SampleTaken
      <4>2. CASE UNCHANGED <<doing, current>>
        BY <2>2, <4>2
      <4>3. QED
        BY <4>1, <4>2, TestSteps DEF PeerWaits, peerVars
    <3>2. QED
      BY <3>1 DEF Showing
  <2>3. QED
    BY <2>1, <2>2 DEF Observe
<1>5. QED
  BY <1>1, <1>2, <1>3, <1>4 DEF Showing

LEMMA ServedStep ==
  ASSUME TypeOK, SensingTyped, SensingTyped', [TestNext]_testVars, ~AnswerMulti,
         doing \in BinaryRead, lost = 0, lost' = 0,
         NEW time \in Nat, NEW second \in Nat, Served(time, second)
  PROVE  Served(time, second)'
<1> USE PeerDelayAssumption DEF PeerDelayAssumption
<1>1. PICK now \in Nat, l \in Nat : now = Now /\ l = lastSecond
  BY NowInSecond
<1>2. {patience, patience'} \subseteq Nat
  BY DEF SensingTyped
<1>3. second <= lastSecond'
  BY <1>1, SecondsKept DEF Served
<1>4. CASE Observe /\ Now' = Now
  <2>1. CASE AnswerBinary
    <3>1. /\ doing = "binaryServed" /\ doing' = "multiAsked" /\ patience' = PeerDelay
          /\ current' = current
      BY <2>1 DEF AnswerBinary, GoOn
    <3>2. QED
      BY <1>1, <1>2, <1>3, <1>4, <3>1 DEF Served
  <2>2. CASE ServeMulti
    <3>1. doing = "multiAsked" /\ doing' = "multiServed" /\ patience' = patience
      BY <2>2 DEF ServeMulti
    <3>2. current'.asked = current.asked /\ current'.binary = current.binary
      BY <1>4, <2>2, <3>1, SampleTaken DEF AskAnalog, ServeBinary
    <3>3. QED
      BY <1>1, <1>3, <1>4, <3>1, <3>2 DEF Served
  <2>3. ~Retry
    BY RequestTimeoutAssumption DEF Retry, RequestTimeoutAssumption
  <2>4. QED
    BY <1>4, <2>1, <2>2, <2>3 DEF Observe, AskAnalog, ServeAnalog, AnswerAnalog, ServeBinary, BinaryRead
<1>5. CASE PeerWaits /\ Now' = Now + 1
  <2>1. patience' = patience - 1 /\ UNCHANGED <<doing, current>>
    BY <1>5 DEF PeerWaits, Asleep, BinaryRead
  <2>2. QED
    BY <1>1, <1>2, <1>3, <1>5, <2>1 DEF Served
<1>6. CASE UNCHANGED peerVars /\ Now' = Now
  BY <1>3, <1>6 DEF peerVars, Served
<1>7. QED
  BY <1>4, <1>5, <1>6, TestSteps

\* The binary input is served: not long after what the last sample shows.
LEMMA HoldServe ==
  ASSUME TypeOK, ClockInv, InputsKeepTime, SensingTyped, SensingTyped',
         AskedInv, HoldInv, [TestNext]_testVars, ServeBinary, lost' = 0,
         MaxPass + SampleQuanta + 4 * PeerDelay <= Quanta + 1
  PROVE  HoldInv'
<1> USE PeerDelayAssumption, SampleQuantaAssumption, MaxPassAssumption, QuantaAssumption
    DEF PeerDelayAssumption, SampleQuantaAssumption, MaxPassAssumption, QuantaAssumption
<1>1. PICK now \in Nat, l \in Nat : now = Now /\ l = lastSecond /\ Dealt(l, now)
  BY NowDealt
<1>2. /\ {due, patience} \subseteq Nat /\ patience <= PeerDelay + lost /\ lost = 0
      /\ doing # "sleeping" => current.asked \in Nat
  BY DEF SensingTyped, Samples, ServeBinary
<1>3. UNCHANGED <<Now, lastSecond>> /\ ~AnswerMulti
  BY TestSteps DEF ServeBinary, AnswerMulti, PeerWaits, peerVars
<1>4. /\ doing = "binaryAsked" /\ doing' = "binaryServed" /\ UNCHANGED <<patience, toggledAt, held>>
      /\ LastTaken' = LastTaken /\ LastTaken = previous
  BY DEF ServeBinary, LastTaken
<1>5. current'.binary = binary /\ current'.asked = current.asked
  BY <1>4, SampleTaken DEF Observe, AskAnalog
<1>6. BinaryAt(l) = binary
  BY <1>1 DEF InputsKeepTime, InputsFollowSeconds, BinaryAt
<1>7. Delays = 2 * PeerDelay
  BY <1>4 DEF Delays
<1>8. Served(now, l)'
  BY <1>1, <1>2, <1>3, <1>4, <1>5, <1>6, <1>7 DEF Served, AskedInv
<1>9. ASSUME LastTaken # NoSample
      PROVE  \E time, second \in Nat :
               Showing(time, second)' /\ second <= l /\ l <= second + 2
  <2>1. PICK time \in Nat, second \in Nat : Showing(time, second)
    BY <1>2, <1>9 DEF HoldInv
  <2>2. Showing(time, second)'
    BY <1>2, <1>3, <2>1, ShowingStep
  <2>3. now + MaxPass <= time + 2 * Quanta
    BY <1>1, <1>2, <1>7, <2>1 DEF Showing, Paced
  <2>4. l <= second + 2
    BY <1>1, <2>1, <2>3, SecondsPassed DEF Showing
  <2>5. QED
    BY <1>1, <2>1, <2>2, <2>4 DEF Showing
<1>10. HeldAboutThreeSeconds'
  BY <1>4 DEF HoldInv, HeldAboutThreeSeconds
<1>11. QED
  BY <1>4, <1>8, <1>9, <1>10 DEF HoldInv

\* The sample is complete, and may show a toggle.
LEMMA HoldAnswer ==
  ASSUME TypeOK, SensingTyped, SensingTyped', AskedInv, HoldInv, [TestNext]_testVars,
         AnswerMulti, lost' = 0, PeerDelay <= SampleQuanta,
         MaxPass + SampleQuanta + 4 * PeerDelay <= Quanta + 1
  PROVE  HoldInv'
<1> USE PeerDelayAssumption, SampleQuantaAssumption, MaxPassAssumption, QuantaAssumption
    DEF PeerDelayAssumption, SampleQuantaAssumption, MaxPassAssumption, QuantaAssumption
<1>1. PICK now \in Nat, l \in Nat : now = Now /\ l = lastSecond
  BY NowInSecond
<1>2. /\ doing = "multiServed" /\ doing' = "sleeping" /\ patience' = PeerDelay
      /\ UNCHANGED <<due, current, previous>> /\ LastTaken' = current /\ LastTaken = previous
      /\ lost = 0
  BY DEF AnswerMulti, GoOn, LastTaken
<1>3. {due, patience} \subseteq Nat /\ current \in Samples /\ current.asked \in Nat
  BY <1>2 DEF SensingTyped, Samples
<1>4. UNCHANGED <<Now, lastSecond>>
  BY <1>2, TestSteps DEF PeerWaits, peerVars
<1>5. /\ toggledAt' = IF Toggled THEN current.asked ELSE toggledAt
      /\ held' = IF Toggled /\ toggledAt # NoSample THEN current.asked - toggledAt ELSE NoSample
  BY <1>2 DEF AnswerMulti
<1>6. ASSUME NEW after \in Nat, NEW then \in Nat, Served(after, then),
             toggledAt' # NoSample => Shows(toggledAt', then \div BINARY_INPUT_TOGGLE_SECONDS)
      PROVE  Showing(after, then)'
  <2>1. Delays' = 0 /\ lost' = 0
    BY <1>2 DEF Delays
  <2>2. due <= after + SampleQuanta /\ now <= after + 2 * PeerDelay
    BY <1>1, <1>2, <1>3, <1>6 DEF Served, AskedInv
  <2>3. Paced(after, PeerDelay)'
    BY <1>1, <1>2, <1>3, <1>4, <2>1, <2>2 DEF Paced
  <2>4. then <= lastSecond' /\ Dealt(then, after) /\ LastTaken'.binary = BinaryAt(then)
    BY <1>2, <1>4, <1>6 DEF Served
  <2>5. QED
    BY <1>2, <1>6, <2>3, <2>4 DEF Showing
<1>7. ASSUME NEW after \in Nat, NEW then \in Nat, Showing(after, then)', HeldAboutThreeSeconds'
      PROVE  HoldInv'
  BY <1>2, <1>7 DEF HoldInv, BinaryRead
<1>8. CASE previous = NoSample
  <2>1. PICK after \in Nat, then \in Nat : Served(after, then)
    BY <1>2 DEF HoldInv, BinaryRead
  <2>2. toggledAt = NoSample /\ toggledAt' = NoSample /\ held' = NoSample
    BY <1>2, <1>5, <1>8 DEF Toggled, SensingTyped
  <2>3. Showing(after, then)'
    BY <1>6, <2>1, <2>2
  <2>4. HeldAboutThreeSeconds'
    BY <2>2 DEF HeldAboutThreeSeconds
  <2>5. QED
    BY <1>7, <2>1, <2>3, <2>4
<1>9. CASE previous # NoSample
  <2>1. PICK time \in Nat, second \in Nat, after \in Nat, then \in Nat :
          /\ Showing(time, second) /\ Served(after, then)
          /\ second <= then /\ then <= second + 2
    BY <1>2, <1>9 DEF HoldInv, BinaryRead
  <2>2. PICK before \in Nat, count \in Nat :
          /\ before = second \div BINARY_INPUT_TOGGLE_SECONDS
          /\ count = then \div BINARY_INPUT_TOGGLE_SECONDS
          /\ BinaryAt(then) = BinaryAt(second) => count = before
          /\ BinaryAt(then) # BinaryAt(second) =>
               count = before + 1 /\ second + 1 <= 3 * count /\ 3 * count <= then
    BY <2>1, BinaryWithinTwo
  <2>3. Toggled <=> BinaryAt(then) # BinaryAt(second)
    BY <1>2, <1>9, <2>1 DEF Toggled, Showing, Served
  <2>4. toggledAt # NoSample => Shows(toggledAt, before) /\ toggledAt \in Nat
    BY <2>1, <2>2 DEF Showing, SensingTyped
  <2>5. CASE ~Toggled
    <3>1. count = before /\ toggledAt' = toggledAt /\ held' = NoSample
      BY <1>5, <2>2, <2>3, <2>5
    <3>2. Showing(after, then)'
      BY <1>6, <2>1, <2>2, <2>4, <3>1
    <3>3. HeldAboutThreeSeconds'
      BY <3>1 DEF HeldAboutThreeSeconds
    <3>4. QED
      BY <1>7, <2>1, <3>2, <3>3
  <2>6. CASE Toggled
    <3>1. /\ count = before + 1 /\ toggledAt' = current.asked
          /\ held' = IF toggledAt # NoSample THEN current.asked - toggledAt ELSE NoSample
      BY <1>5, <2>2, <2>3, <2>6
    <3>2. Shows(current.asked, count)
      BY <1>2, <1>3, <2>1, <2>2, <2>3, <2>6, ToggleShown DEF Showing, Served
    <3>3. Showing(after, then)'
      BY <1>6, <2>1, <2>2, <3>1, <3>2
    <3>4. HeldAboutThreeSeconds'
      BY <1>3, <2>2, <2>4, <3>1, <3>2, ShowsApart DEF HeldAboutThreeSeconds
    <3>5. QED
      BY <1>7, <2>1, <3>3, <3>4
  <2>7. QED
    BY <2>5, <2>6
<1>10. QED
  BY <1>8, <1>9

LEMMA HoldStep ==
  ASSUME TypeOK, ClockInv, InputsKeepTime, SensingTyped, SensingTyped',
         AskedInv, HoldInv, [TestNext]_testVars, PeerDelay <= SampleQuanta,
         MaxPass + SampleQuanta + 4 * PeerDelay <= Quanta + 1
  PROVE  HoldInv'
<1>1. CASE lost' # 0
  <2>1. CASE AnswerMulti
    <3>1. held' = NoSample
      BY <1>1, <2>1 DEF AnswerMulti
    <3>2. QED
      BY <1>1, <3>1 DEF HoldInv, HeldAboutThreeSeconds
  <2>2. CASE ~AnswerMulti
    <3>1. held' = held
      BY <2>2, TestSteps DEF Observe, AskAnalog, ServeAnalog, AnswerAnalog, ServeBinary,
                             AnswerBinary, ServeMulti, Retry, PeerWaits, peerVars
    <3>2. QED
      BY <1>1, <3>1 DEF HoldInv, HeldAboutThreeSeconds
  <2>3. QED
    BY <2>1, <2>2
<1>2. CASE lost' = 0 /\ (ServeBinary \/ AnswerMulti)
  BY <1>2, HoldServe, HoldAnswer
<1>3. CASE lost' = 0 /\ ~ServeBinary /\ ~AnswerMulti
  <2>1. lost = 0
    <3>1. lost' = lost \/ lost' = lost + RequestTimeout
      BY TestSteps DEF Observe, AskAnalog, ServeAnalog, AnswerAnalog, ServeBinary,
                       AnswerBinary, ServeMulti, AnswerMulti, Retry, PeerWaits, peerVars
    <3>2. QED
      BY <1>3, <3>1, RequestTimeoutAssumption, MaxLostAssumption
         DEF RequestTimeoutAssumption, MaxLostAssumption, SensingTyped
  <2>2. held' = held /\ (doing' \in BinaryRead => doing \in BinaryRead)
    BY <1>3, TestSteps DEF Observe, AskAnalog, ServeAnalog, AnswerAnalog,
                     AnswerBinary, ServeMulti, Retry, GoOn, PeerWaits, peerVars, BinaryRead
  <2>3. LastTaken' = LastTaken
    BY <1>3, LastTakenKept
  <2>4. ASSUME NEW time \in Nat, NEW second \in Nat, Showing(time, second)
        PROVE  Showing(time, second)'
    BY <1>3, <2>1, <2>4, ShowingStep
  <2>5. ASSUME NEW time \in Nat, NEW second \in Nat, doing \in BinaryRead, Served(time, second)
        PROVE  Served(time, second)'
    BY <1>3, <2>1, <2>5, ServedStep
  <2>6. HeldAboutThreeSeconds'
    BY <2>2 DEF HoldInv, HeldAboutThreeSeconds
  <2>7. doing' \in BinaryRead => \E time, second \in Nat : Served(time, second)'
    BY <2>1, <2>2, <2>5 DEF HoldInv
  <2>8. LastTaken # NoSample =>
          \E time, second \in Nat :
            /\ Showing(time, second)'
            /\ doing' \in BinaryRead => \E after, then \in Nat :
                 Served(after, then)' /\ second <= then /\ then <= second + 2
    BY <2>1, <2>2, <2>4, <2>5 DEF HoldInv
  <2>9. QED
    BY <2>3, <2>6, <2>7, <2>8 DEF HoldInv
<1>4. QED
  BY <1>1, <1>2, <1>3

-----------------------------------------------------------------------------

\* Of a sensor whose passes are no longer than a second, the test misses no state
\* of Multi-State Input 1 as long as a pass, a sample, the delays of its reads
\* and all that its retries take add up to four seconds at most.
THEOREM NoStateMissed ==
  ASSUME MaxPass <= Quanta, PeerDelay <= SampleQuanta,
         MaxPass + SampleQuanta + 4 * PeerDelay + MaxLost <= 4 * Quanta
  PROVE  TestSpec => []NoStateSleptThrough
<1>1. TestInit => AskedInv /\ OrderInv
  BY DEF TestInit, AskedInv, OrderInv, LastTaken, SteppedAtMostOnce
<1>2. TypeOK /\ SensingTyped /\ SensingTyped' /\ AskedInv /\ [TestNext]_testVars => AskedInv'
  BY AskedStep
<1>3. TypeOK /\ ClockInv /\ InputsKeepTime /\ SensingTyped /\ SensingTyped' /\ AskedInv
        /\ OrderInv /\ [TestNext]_testVars => OrderInv'
  BY OrderStep
<1>4. OrderInv => NoStateSleptThrough
  BY DEF OrderInv, SteppedAtMostOnce, NoStateSleptThrough, Taken
<1>5. QED
  BY <1>1, <1>2, <1>3, <1>4, SensingBasics, SensingRunsSimulation, KeepTime, PTL DEF TestSpec

\* And until a read is retried the time between two samples that show a toggle is
\* within a second of the three between two toggles, when passes, samples and
\* reads together take a second at most.
THEOREM HeldAboutThree ==
  ASSUME PeerDelay <= SampleQuanta, MaxPass + SampleQuanta + 4 * PeerDelay <= Quanta + 1
  PROVE  TestSpec => []HeldAboutThreeSeconds
<1>1. TestInit => AskedInv /\ HoldInv
  BY DEF TestInit, AskedInv, HoldInv, LastTaken, BinaryRead, HeldAboutThreeSeconds
<1>2. TypeOK /\ SensingTyped /\ SensingTyped' /\ AskedInv /\ [TestNext]_testVars => AskedInv'
  BY AskedStep
<1>3. TypeOK /\ ClockInv /\ InputsKeepTime /\ SensingTyped /\ SensingTyped' /\ AskedInv
        /\ HoldInv /\ [TestNext]_testVars => HoldInv'
  BY HoldStep
<1>4. HoldInv => HeldAboutThreeSeconds
  BY DEF HoldInv
<1>5. QED
  BY <1>1, <1>2, <1>3, <1>4, SensingBasics, SensingRunsSimulation, KeepTime, PTL DEF TestSpec

(***************************************************************************)
(* The test of the broken wire                                             *)
(***************************************************************************)

Stages == Watches \union Waits \union Checks

ModesTyped ==
  /\ stage \in Stages \union {"notStarted", "ended"}
  /\ spent \in Nat /\ nap \in 0..(PollQuanta + IntervalQuanta) /\ lag \in 0..ReadQuanta
  /\ stage \in Watches => nap <= PollQuanta /\ answer \in Int \union {NoAnswer}
  /\ answer # NoAnswer => Reading
  /\ IsFiniteSet(seen)

\* Whether the wire is broken is up to the test; what Reliability reports is
\* what the wire is like except while the test waits for it.  Then the wire has
\* been so for as long as the test has waited, and an answer it does not wait for
\* was served before that was long enough.
WireInHand ==
  /\ faultFile <=> stage \in {"breaking", "faultSeen", "broken", "refusing"}
  /\ faultFile => FaultHook
  /\ stage \in Waits =>
       /\ spent <= wireAge \/ wireAge = NoticeBound
       /\ answer \in {NoAnswer, Awaited} \/ spent < NoticeBound + lag
       /\ answer = Awaited => reliability = Awaited
  /\ stage \notin Waits => reliability = Reported(SensorWireBroken)
  /\ FaultSeenInTime

Frozen ==
  /\ stage = "broken" => seen \subseteq {value} /\ answer \in {value, NoAnswer}
  /\ FrozenWhileWatched

\* The readings the sensor has served in this watch.
Known == IF answer = NoAnswer THEN seen ELSE seen \union {answer}

\* Time in which no read was served: that of the one under way and, until it is
\* served, of the last one and of the sleep between them.
Unserved == lag + (IF answer = NoAnswer THEN ReadQuanta + PollQuanta - nap ELSE 0)

\* A healthy reading that has been served: either no tick has moved it since, or
\* it was moved so lately that the next read is served before the next tick.
SeenOnce(reading) ==
  /\ Known = {reading}
  /\ \/ value = reading /\ lastSecond * Quanta + spent <= Now + ReadQuanta
     \/ /\ value # reading
        /\ lastSecond * Quanta + spent <= Now + ReadQuanta + Quanta
        /\ Now < lastSecond * Quanta + MaxPass + Unserved

Moving ==
  /\ stage \in {"healthy", "repaired"} =>
       \/ Known = {} /\ nap = 0 /\ spent = lag
       \/ \E reading \in Int : SeenOnce(reading)
       \/ \E one, other \in Known : one # other
  /\ HealthyReadingMoves

-----------------------------------------------------------------------------

\* The sensor runs as it does alone here too.
THEOREM ModesTestRunsSimulation == ModesTestSpec => Spec
<1>1. ModesTestInit => Init
  BY DEF ModesTestInit
<1>2. [ModesTestNext]_modesVars => [Next]_vars
  BY DEF ModesTestNext, Peer, Start, ServeRead, WatchOn, BreakWire, BrokenWatched, RepairWire,
         EndTest, PollOn, WaitOver, WatchAgain, Sleep, Next, modesVars
<1>3. QED
  BY <1>1, <1>2, PTL DEF ModesTestSpec, Spec

\* A stage that has been entered is at its beginning.
LEMMA Entered ==
  ASSUME NEW next, Enter(next)
  PROVE  /\ stage' = next
         /\ spent' = 0 /\ nap' = 0 /\ lag' = 0 /\ answer' = NoAnswer /\ seen' = {}
BY DEF Enter

\* The actions that enter one.
Entering == \/ Start \/ BreakWire \/ BrokenWatched \/ RepairWire \/ EndTest
            \/ WaitOver \/ WatchAgain

LEMMA EnteringResets ==
  ASSUME Entering
  PROVE  /\ stage' \in Stages \union {"ended"}
         /\ spent' = 0 /\ nap' = 0 /\ lag' = 0 /\ answer' = NoAnswer /\ seen' = {}
<1>1. PICK next \in Stages \union {"ended"} : Enter(next)
  BY DEF Entering, Start, BreakWire, BrokenWatched, RepairWire, EndTest, WaitOver, WatchAgain,
         Stages, Watches, Waits, Checks
<1>2. QED
  BY <1>1, Entered

LEMMA ModesTypedStep ==
  ASSUME TypeOK, ModesTyped, [ModesTestNext]_modesVars
  PROVE  ModesTyped'
<1> USE PeerAssumption DEF PeerAssumption
<1>1. CASE Entering
  <2>1. IsFiniteSet(seen')
    BY <1>1, EnteringResets, FS_EmptySet
  <2>2. QED
    BY <1>1, <2>1, EnteringResets DEF ModesTyped
<1>2. CASE ServeRead
  <2>1. value \in Int
    BY DEF TypeOK
  <2>2. QED
    BY <1>2, <2>1 DEF ServeRead, Reading, ModesTyped
<1>3. CASE WatchOn
  <2>1. IsFiniteSet(seen')
    BY <1>3, FS_AddElement DEF WatchOn, Watched, ModesTyped
  <2>2. QED
    BY <1>3, <2>1 DEF WatchOn, Sleep, ModesTyped
<1>4. CASE PollOn
  <2>1. stage \notin Watches
    BY <1>4 DEF PollOn, Waits, Watches
  <2>2. QED
    BY <1>4, <2>1 DEF PollOn, Sleep, ModesTyped
<1>5. CASE TimePasses
  BY <1>5 DEF TimePasses, stageVars, ModesTyped, Reading
<1>6. CASE UNCHANGED stageVars
  BY <1>6 DEF stageVars, ModesTyped, Reading
<1>7. QED
  BY <1>1, <1>2, <1>3, <1>4, <1>5, <1>6 DEF ModesTestNext, Peer, Entering, modesVars

LEMMA ModesBasics == ModesTestSpec => [](TypeOK /\ ClockInv /\ FaultNoticedInTime /\ ModesTyped)
<1>1. ModesTestInit => ModesTyped
  BY PeerAssumption, FS_EmptySet DEF ModesTestInit, ModesTyped, PeerAssumption, Watches
<1>2. TypeOK /\ ModesTyped /\ [ModesTestNext]_modesVars => ModesTyped'
  BY ModesTypedStep
<1>3. IInv => TypeOK /\ ClockInv
  BY DEF IInv
<1>4. QED
  BY <1>1, <1>2, <1>3, ModesTestRunsSimulation, Inductive, FaultNoticed, PTL DEF ModesTestSpec

-----------------------------------------------------------------------------
\* The fault is noticed

LEMMA WireInHandStep ==
  ASSUME TypeOK, FaultNoticedInTime, ModesTyped, WireInHand, [ModesTestNext]_modesVars,
         NoticeBound + ReadQuanta <= NoticedQuanta
  PROVE  WireInHand'
<1> USE PeerAssumption, QuantaAssumption, MaxPassAssumption
    DEF PeerAssumption, QuantaAssumption, MaxPassAssumption
<1>1. /\ NoticeBound \in Nat /\ wireAge \in 0..NoticeBound /\ faultFile \in BOOLEAN
      /\ FaultHook \in BOOLEAN /\ spent \in Nat /\ lag \in 0..ReadQuanta
  BY FaultHookAssumption DEF TypeOK, ModesTyped, NoticeBound, FaultHookAssumption
<1>2. stage \in Waits => Awaited = Reported(SensorWireBroken)
  BY DEF WireInHand, Waits, Awaited, Reported, SensorWireBroken
<1>3. CASE Start \/ EndTest \/ WatchAgain \/ BrokenWatched
  <2>1. /\ stage' \notin Waits /\ stage \notin Waits
        /\ UNCHANGED <<faultFile, reliability>>
        /\ faultFile <=> stage' \in {"breaking", "faultSeen", "broken", "refusing"}
    BY <1>3, Entered DEF Start, EndTest, WatchAgain, BrokenWatched, WatchOver, Waits,
       WireInHand, vars, wireVars, simVars
  <2>2. "noticed" \notin failed'
    BY <1>3 DEF Start, EndTest, WatchAgain, BrokenWatched, Judge, WireInHand, FaultSeenInTime
  <2>3. QED
    BY <2>1, <2>2 DEF WireInHand, FaultSeenInTime, SensorWireBroken, Reported
<1>4. CASE ServeRead
  <2>1. UNCHANGED <<stage, spent, lag, faultFile, wireAge, reliability, failed>>
    BY <1>4 DEF ServeRead, vars, wireVars, simVars
  <2>2. stage \in Waits => answer' = reliability
    BY <1>4 DEF ServeRead, Waits, Watches
  <2>3. UNCHANGED Awaited
    BY <2>1 DEF Awaited
  <2>4. stage \in Waits => reliability = Awaited \/ spent < NoticeBound
    BY <1>1, <1>2 DEF WireInHand, FaultNoticedInTime
  <2>5. stage \in Waits =>
          /\ answer' \in {NoAnswer, Awaited} \/ spent < NoticeBound + lag
          /\ answer' = Awaited => reliability = Awaited
    BY <1>1, <2>2, <2>4
  <2>6. QED
    BY <2>1, <2>3, <2>5 DEF WireInHand, FaultSeenInTime, SensorWireBroken
<1>5. CASE WatchOn \/ PollOn
  <2>1. /\ UNCHANGED <<stage, spent, faultFile, wireAge, reliability, failed>>
        /\ answer' = NoAnswer
    BY <1>5 DEF WatchOn, PollOn, Sleep, vars, wireVars, simVars
  <2>2. UNCHANGED Awaited /\ Awaited # NoAnswer
    BY <2>1 DEF Awaited
  <2>3. QED
    BY <2>1, <2>2 DEF WireInHand, FaultSeenInTime, SensorWireBroken
<1>6. CASE BreakWire \/ RepairWire
  <2>1. /\ \/ stage = "healthy" /\ stage' = "breaking"
           \/ stage = "refusing" /\ stage' = "repairing"
        /\ spent' = 0 /\ answer' = NoAnswer
        /\ FaultHook /\ faultFile' = ~faultFile /\ wireAge' = 0
    BY <1>6, Entered DEF BreakWire, RepairWire, WatchOver, ChangeWire
  <2>2. "noticed" \notin failed'
    BY <1>6 DEF BreakWire, RepairWire, Judge, WireInHand, FaultSeenInTime
  <2>3. faultFile' <=> stage' \in {"breaking", "faultSeen", "broken", "refusing"}
    BY <1>1, <2>1 DEF WireInHand
  <2>4. spent' <= wireAge' /\ Awaited' # NoAnswer
    BY <2>1 DEF Awaited
  <2>5. QED
    BY <2>1, <2>2, <2>3, <2>4 DEF WireInHand, FaultSeenInTime, Waits
<1>7. CASE WaitOver
  <2>1. /\ \/ stage = "breaking" /\ stage' = "faultSeen"
           \/ stage = "repairing" /\ stage' = "repairSeen"
        /\ UNCHANGED <<faultFile, reliability>>
        /\ answer # NoAnswer
        /\ answer = Awaited \/ spent >= NoticedQuanta
        /\ Judge("noticed", answer = Awaited)
    BY <1>7, Entered DEF WaitOver, Waits, Returned, vars, wireVars, simVars
  <2>2. answer = Awaited
    BY <1>1, <2>1 DEF WireInHand, Waits
  <2>3. failed' = failed /\ reliability = Reported(SensorWireBroken)
    BY <1>2, <2>1, <2>2 DEF Judge, WireInHand, Waits
  <2>4. QED
    BY <2>1, <2>3 DEF WireInHand, FaultSeenInTime, Waits, SensorWireBroken
<1>8. CASE Advance /\ TimePasses
  <2>1. /\ UNCHANGED <<stage, answer, failed, faultFile, reliability>>
        /\ wireAge' = Older(wireAge)
    BY <1>8 DEF Advance, TimePasses, stageVars, simVars
  <2>2. stage \in Waits => /\ spent' = spent + 1
                           /\ lag' = lag + 1 \/ nap > 0
    BY <1>8 DEF TimePasses, Waits, Checks
  <2>3. stage \in Waits => spent' <= wireAge' \/ wireAge' = NoticeBound
    BY <1>1, <2>1, <2>2 DEF WireInHand, Older
  <2>4. stage \in Waits /\ nap > 0 => answer = NoAnswer
    BY DEF ModesTyped, Reading
  <2>5. stage \in Waits => answer \in {NoAnswer, Awaited} \/ spent' < NoticeBound + lag'
    BY <1>1, <2>2, <2>4 DEF WireInHand
  <2>6. UNCHANGED Awaited
    BY <2>1 DEF Awaited
  <2>7. QED
    BY <2>1, <2>3, <2>5, <2>6 DEF WireInHand, FaultSeenInTime, SensorWireBroken
<1>9. CASE SensorSimulationTick /\ UNCHANGED stageVars
  <2>1. UNCHANGED <<stage, spent, lag, answer, failed, faultFile, wireAge>>
    BY <1>9 DEF SensorSimulationTick, FirstCall, SameSecond, NewSecond, wireVars, stageVars
  <2>2. UNCHANGED reliability \/ reliability' = Reported(SensorWireBroken)
    BY <1>9 DEF SensorSimulationTick, FirstCall, SameSecond, NewSecond, simVars, Observed
  <2>3. UNCHANGED Awaited
    BY <2>1 DEF Awaited
  <2>4. stage \in Waits /\ answer = Awaited => reliability' = Awaited
    BY <1>2, <2>2 DEF WireInHand
  <2>5. QED
    BY <2>1, <2>2, <2>3, <2>4 DEF WireInHand, FaultSeenInTime, SensorWireBroken
<1>10. CASE UNCHANGED modesVars
  <2>1. UNCHANGED <<stage, spent, lag, answer, failed, faultFile, wireAge, reliability>>
    BY <1>10 DEF modesVars, vars, wireVars, simVars, stageVars
  <2>2. UNCHANGED Awaited
    BY <2>1 DEF Awaited
  <2>3. QED
    BY <2>1, <2>2 DEF WireInHand, FaultSeenInTime, SensorWireBroken
<1>11. QED
  BY <1>3, <1>4, <1>5, <1>6, <1>7, <1>8, <1>9, <1>10 DEF ModesTestNext, Peer

LEMMA WireAlwaysInHand ==
  ASSUME Quanta + MaxPass + ReadQuanta <= NoticedQuanta
  PROVE  ModesTestSpec => []WireInHand
<1>1. ModesTestInit => WireInHand
  BY DEF ModesTestInit, Init, WireInHand, Waits, FaultSeenInTime, Reported, SensorWireBroken
<1>2. NoticeBound + ReadQuanta <= NoticedQuanta
  BY DEF NoticeBound
<1>3. TypeOK /\ FaultNoticedInTime /\ ModesTyped /\ WireInHand /\ [ModesTestNext]_modesVars
        => WireInHand'
  BY <1>2, WireInHandStep
<1>4. QED
  BY <1>1, <1>3, ModesBasics, PTL DEF ModesTestSpec

\* A test that waits for a second, the longest pass and a read sees every break
\* and every repair, wherever in a second it is made and whenever in a read the
\* sensor serves it.
THEOREM FaultSeen ==
  ASSUME Quanta + MaxPass + ReadQuanta <= NoticedQuanta
  PROVE  ModesTestSpec => []FaultSeenInTime
<1>1. WireInHand => FaultSeenInTime
  BY DEF WireInHand
<1>2. QED
  BY <1>1, WireAlwaysInHand, PTL

-----------------------------------------------------------------------------
\* A broken reading stands still

LEMMA FrozenStep ==
  ASSUME TypeOK, ModesTyped, WireInHand, Frozen, [ModesTestNext]_modesVars
  PROVE  Frozen'
<1>1. CASE BrokenWatched
  <2>1. /\ stage = "broken" /\ answer # NoAnswer /\ stage' = "refusing"
        /\ Judge("frozen", StandsStill)
    BY <1>1, Entered DEF BrokenWatched, WatchOver, Returned
  <2>2. Watched = {value}
    BY <2>1 DEF Frozen, Watched
  <2>3. StandsStill
    BY <2>2, FS_Singleton DEF StandsStill
  <2>4. QED
    BY <2>1, <2>3 DEF Judge, Frozen, FrozenWhileWatched
<1>2. CASE Start \/ BreakWire \/ RepairWire \/ EndTest \/ WaitOver \/ WatchAgain
  <2>1. seen' = {} /\ answer' = NoAnswer
    BY <1>2, EnteringResets DEF Entering
  <2>2. "frozen" \notin failed'
    BY <1>2 DEF Start, BreakWire, RepairWire, EndTest, WaitOver, WatchAgain, Judge, Frozen,
                FrozenWhileWatched
  <2>3. QED
    BY <2>1, <2>2 DEF Frozen, FrozenWhileWatched
<1>3. CASE ServeRead
  BY <1>3 DEF ServeRead, Watches, Frozen, FrozenWhileWatched, vars, readingVars
<1>4. CASE WatchOn
  <2>1. /\ UNCHANGED <<stage, failed, value>> /\ seen' = seen \union {answer}
        /\ answer # NoAnswer /\ answer' = NoAnswer
    BY <1>4 DEF WatchOn, Returned, Sleep, Watched, vars, readingVars
  <2>2. QED
    BY <2>1 DEF Frozen, FrozenWhileWatched
<1>5. CASE PollOn
  <2>1. UNCHANGED <<stage, failed>> /\ stage # "broken"
    BY <1>5 DEF PollOn, Sleep, Waits
  <2>2. QED
    BY <2>1 DEF Frozen, FrozenWhileWatched
<1>6. CASE (Advance /\ TimePasses) \/ UNCHANGED modesVars
  <2>1. UNCHANGED <<stage, failed, value, seen, answer>>
    BY <1>6 DEF Advance, TimePasses, modesVars, stageVars, vars, readingVars
  <2>2. QED
    BY <2>1 DEF Frozen, FrozenWhileWatched
<1>7. CASE SensorSimulationTick /\ UNCHANGED stageVars
  <2>1. UNCHANGED <<stage, failed, seen, answer>>
    BY <1>7 DEF stageVars
  <2>2. stage = "broken" => UNCHANGED value
    <3>1. SUFFICES ASSUME stage = "broken", NewSecond PROVE UNCHANGED value
      BY <1>7 DEF SensorSimulationTick, FirstCall, SameSecond, readingVars
    <3>2. Observed = OPEN_LOOP
      BY <3>1 DEF WireInHand, Observed, Reported, SensorWireBroken
    <3>3. QED
      BY <3>1, <3>2 DEF NewSecond, MoveReading, readingVars, OPEN_LOOP, NO_FAULT_DETECTED
  <2>3. QED
    BY <2>1, <2>2 DEF Frozen, FrozenWhileWatched
<1>8. QED
  BY <1>1, <1>2, <1>3, <1>4, <1>5, <1>6, <1>7 DEF ModesTestNext, Peer

\* The reading of a sensor whose fault has been noticed stands still.
THEOREM BrokenReadingFrozen ==
  ASSUME Quanta + MaxPass + ReadQuanta <= NoticedQuanta
  PROVE  ModesTestSpec => []FrozenWhileWatched
<1>1. ModesTestInit => Frozen
  BY DEF ModesTestInit, Frozen, FrozenWhileWatched
<1>2. TypeOK /\ ModesTyped /\ WireInHand /\ Frozen /\ [ModesTestNext]_modesVars => Frozen'
  BY FrozenStep
<1>3. Frozen => FrozenWhileWatched
  BY DEF Frozen
<1>4. QED
  BY <1>1, <1>2, <1>3, ModesBasics, WireAlwaysInHand, PTL DEF ModesTestSpec

-----------------------------------------------------------------------------
\* A healthy reading is seen to move

\* Of a healthy sensor every second dealt with moves the reading.
LEMMA HealthyMoves ==
  ASSUME TypeOK, ~SensorWireBroken, NewSecond
  PROVE  value' # value
<1>1. value \in Int /\ direction \in {-1, 1}
  BY DEF TypeOK
<1>2. PICK tie \in Ties : MoveReading(tie)
  BY DEF NewSecond
<1>3. Heading(tie) \in {-1, 1}
  BY <1>1 DEF Heading
<1>4. value' = value + Heading(tie) * ANALOG_INPUT_STEP
  BY <1>2 DEF MoveReading, Observed, Reported
<1>5. QED
  BY <1>1, <1>3, <1>4 DEF ANALOG_INPUT_STEP

\* Two readings seen make the verdict.
LEMMA TwoReadings ==
  ASSUME ModesTyped, NEW one \in Watched, NEW other \in Watched, one # other
  PROVE  ~StandsStill
<1>1. IsFiniteSet(Watched)
  BY FS_AddElement DEF ModesTyped, Watched
<1>2. ~\E x : Watched = {x}
  OBVIOUS
<1>3. QED
  BY <1>1, <1>2, FS_Singleton DEF StandsStill

\* How long no read was served is bounded by a sleep and two reads.
LEMMA UnservedBound ==
  ASSUME ModesTyped, stage \in Watches
  PROVE  /\ spent \in Nat /\ nap \in 0..PollQuanta /\ lag \in 0..ReadQuanta
         /\ Unserved \in 0..(PollQuanta + 2 * ReadQuanta)
         /\ answer # NoAnswer => nap = 0 /\ Unserved = lag
         /\ answer = NoAnswer => Unserved = lag + ReadQuanta + PollQuanta - nap
<1> USE PeerAssumption DEF PeerAssumption
<1>1. spent \in Nat /\ nap \in 0..PollQuanta /\ lag \in 0..ReadQuanta
  BY DEF ModesTyped
<1>2. answer # NoAnswer => nap = 0
  BY DEF ModesTyped, Reading
<1>3. QED
  BY <1>1, <1>2 DEF Unserved

\* Before the watch is over, a tick has moved the reading and a read has seen it.
LEMMA WatchShowsTwo ==
  ASSUME TypeOK, ClockInv, ModesTyped, Moving, stage \in {"healthy", "repaired"},
         Returned, spent >= WatchQuanta, MaxPass <= Quanta,
         Quanta + MaxPass + 2 * ReadQuanta <= WatchQuanta
  PROVE  ~StandsStill
<1> USE PeerAssumption, QuantaAssumption, MaxPassAssumption
    DEF PeerAssumption, QuantaAssumption, MaxPassAssumption
<1>1. PICK now \in Nat, l \in Nat : now = Now /\ l = lastSecond /\ Dealt(l, now)
  BY NowDealt
<1>2. /\ spent \in Nat /\ lag \in 0..ReadQuanta /\ Unserved = lag
      /\ answer # NoAnswer /\ Known = Watched
  BY UnservedBound DEF Returned, Watches, Known, Watched
<1>3. CASE \E one, other \in Known : one # other
  BY <1>2, <1>3, TwoReadings
<1>4. CASE \E reading \in Int : SeenOnce(reading)
  <2>1. PICK reading \in Int : SeenOnce(reading)
    BY <1>4
  <2>2. PICK began \in Int : began = l * Quanta
    BY <1>1
  <2>3. (l + 1) * Quanta = began + Quanta
    BY <1>1, <2>2
  <2>4. now < began + Quanta + MaxPass
    BY <1>1, <2>3 DEF Dealt
  <2>5. CASE began + spent <= now + ReadQuanta
    BY <1>1, <1>2, <2>2, <2>4, <2>5
  <2>6. CASE began + spent <= now + ReadQuanta + Quanta /\ now < began + MaxPass + lag
    BY <1>1, <1>2, <2>2, <2>6
  <2>7. QED
    BY <1>1, <1>2, <2>1, <2>2, <2>5, <2>6 DEF SeenOnce
<1>5. Known # {}
  BY <1>2 DEF Watched
<1>6. QED
  BY <1>3, <1>4, <1>5 DEF Moving

LEMMA SeenOnceStep ==
  ASSUME TypeOK, TypeOK', ClockInv, ModesTyped, ModesTyped', WireInHand,
         stage \in {"healthy", "repaired"}, NEW reading \in Int, SeenOnce(reading),
         \/ Advance /\ TimePasses
         \/ SensorSimulationTick /\ UNCHANGED stageVars,
         MaxPass + PollQuanta + 2 * ReadQuanta <= Quanta
  PROVE  SeenOnce(reading)'
<1> USE PeerAssumption, QuantaAssumption, MaxPassAssumption
    DEF PeerAssumption, QuantaAssumption, MaxPassAssumption
<1>1. MaxPass <= Quanta
  OBVIOUS
<1>2. PICK now \in Nat, l \in Nat : now = Now /\ l = lastSecond /\ Dealt(l, now)
  BY <1>1, NowDealt
<1>3. PICK began \in Int : began = l * Quanta
  BY <1>2
<1>4. /\ spent \in Nat /\ nap \in 0..PollQuanta /\ lag \in 0..ReadQuanta
      /\ Unserved \in 0..(PollQuanta + 2 * ReadQuanta)
  BY UnservedBound DEF Watches
<1>5. CASE Advance /\ TimePasses
  <2>1. UNCHANGED <<value, lastSecond>> /\ Now' = Now + 1
    <3>1. UNCHANGED <<value, lastSecond>>
      BY <1>5 DEF Advance, readingVars, simVars
    <3>2. sec \in Nat /\ frac \in Nat
      BY DEF TypeOK
    <3>3. CASE frac' = frac + 1 /\ UNCHANGED sec
      BY <3>1, <3>2, <3>3 DEF Now
    <3>4. CASE frac + 1 = Quanta /\ frac' = 0 /\ sec' = sec + 1
      <4>1. (sec + 1) * Quanta = sec * Quanta + Quanta
        BY <3>2
      <4>2. QED
        BY <3>1, <3>2, <3>4, <4>1 DEF Now
    <3>5. QED
      BY <1>5, <3>3, <3>4 DEF Advance
  <2>2. /\ UNCHANGED <<seen, answer>> /\ spent' = spent + 1
        /\ \/ nap > 0 /\ nap' = nap - 1 /\ lag' = lag
           \/ nap' = nap /\ lag' = lag + 1
    BY <1>5 DEF TimePasses, Watches, Waits, Checks, Reading
  <2>3. Known' = Known
    BY <2>2 DEF Known
  <2>4. Unserved' = Unserved + 1
    <3>1. answer # NoAnswer => nap = 0
      BY UnservedBound DEF Watches
    <3>2. QED
      BY <1>4, <2>2, <3>1 DEF Unserved
  <2>5. CASE value = reading /\ began + spent <= now + ReadQuanta
    BY <1>2, <1>3, <1>4, <2>1, <2>2, <2>3, <2>5 DEF SeenOnce
  <2>6. CASE /\ value # reading /\ began + spent <= now + ReadQuanta + Quanta
             /\ now < began + MaxPass + Unserved
    <3>1. began + spent' <= now + 1 + ReadQuanta + Quanta /\ now + 1 < began + MaxPass + Unserved'
      BY <1>2, <1>3, <1>4, <2>2, <2>4, <2>6
    <3>2. QED
      BY <1>2, <1>3, <2>1, <2>3, <2>6, <3>1 DEF SeenOnce
  <2>7. QED
    BY <1>2, <1>3, <2>5, <2>6 DEF SeenOnce
<1>6. CASE (FirstCall \/ SameSecond) /\ UNCHANGED stageVars
  <2>1. UNCHANGED <<value, lastSecond, Now, spent, Known, Unserved>>
    BY <1>6 DEF FirstCall, SameSecond, stageVars, readingVars, simVars, Now, Known, Unserved
  <2>2. QED
    BY <2>1 DEF SeenOnce
<1>7. CASE NewSecond /\ UNCHANGED stageVars
  <2>1. value' # value /\ Now' = Now /\ UNCHANGED <<spent, Known, Unserved>>
    <3>1. ~SensorWireBroken
      BY DEF WireInHand, SensorWireBroken
    <3>2. QED
      BY <1>7, <3>1, HealthyMoves DEF NewSecond, stageVars, Now, Known, Unserved
  <2>2. lastSecond' = l + 1 /\ frac < age /\ sec = l + 1 /\ age \in 0..MaxPass /\ frac \in Nat
    BY <1>1, <1>2, <1>7 DEF NewSecond, NewSecondDue, ClockInv, TypeOK
  <2>3. (l + 1) * Quanta = began + Quanta
    BY <1>2, <1>3
  <2>4. now = began + Quanta + frac
    BY <1>2, <2>2, <2>3 DEF Now
  <2>5. value = reading /\ began + spent <= now + ReadQuanta
    <3>1. SUFFICES ASSUME now < began + MaxPass + Unserved PROVE FALSE
      BY <1>2, <1>3 DEF SeenOnce
    <3>2. QED
      BY <1>2, <1>3, <1>4, <2>2, <2>4, <3>1
  <2>6. /\ began + Quanta + spent <= now + ReadQuanta + Quanta
        /\ now < began + Quanta + MaxPass + Unserved
    BY <1>2, <1>3, <1>4, <2>2, <2>4, <2>5
  <2>7. QED
    BY <1>2, <2>1, <2>2, <2>3, <2>5, <2>6 DEF SeenOnce
<1>8. QED
  BY <1>5, <1>6, <1>7 DEF SensorSimulationTick

\* What the sensor serves is the reading known, or another one.
LEMMA ServeMoving ==
  ASSUME TypeOK, ModesTyped, Moving, ServeRead, stage \in {"healthy", "repaired"}
  PROVE  (\E reading \in Int : SeenOnce(reading)') \/ \E one, other \in Known' : one # other
<1> USE PeerAssumption, QuantaAssumption DEF PeerAssumption, QuantaAssumption
<1>1. /\ UNCHANGED <<spent, nap, lag, value, lastSecond, Now>>
      /\ answer = NoAnswer /\ answer' = value /\ value \in Int
      /\ Known = seen /\ Known' = seen \union {value}
  BY DEF ServeRead, Watches, Known, TypeOK, vars, readingVars, simVars, clockVars, Now
<1>2. CASE Known = {} /\ nap = 0 /\ spent = lag
  <2>1. PICK reading \in Int : reading = value
    BY <1>1
  <2>2. lastSecond * Quanta + spent <= Now + ReadQuanta
    <3>1. PICK now \in Nat, began \in Int :
            now = Now /\ began = lastSecond * Quanta /\ began <= now
      BY NowInSecond
    <3>2. spent \in 0..ReadQuanta
      BY <1>2 DEF ModesTyped
    <3>3. QED
      BY <3>1, <3>2
  <2>3. SeenOnce(reading)'
    BY <1>1, <1>2, <2>1, <2>2 DEF SeenOnce
  <2>4. QED
    BY <2>3
<1>3. CASE \E reading \in Int : SeenOnce(reading)
  <2>1. PICK reading \in Int : SeenOnce(reading)
    BY <1>3
  <2>2. CASE value = reading
    <3>1. SeenOnce(reading)'
      BY <1>1, <2>1, <2>2 DEF SeenOnce
    <3>2. QED
      BY <3>1
  <2>3. CASE value # reading
    BY <1>1, <2>1, <2>3 DEF SeenOnce
  <2>4. QED
    BY <2>2, <2>3
<1>4. CASE \E one, other \in Known : one # other
  BY <1>1, <1>4
<1>5. QED
  BY <1>2, <1>3, <1>4 DEF Moving

\* A read that returns leaves what is known, and no more time unserved than that
\* of a read.
LEMMA ReturnMoving ==
  ASSUME TypeOK, ModesTyped, Moving, WatchOn, stage \in {"healthy", "repaired"}
  PROVE  (\E reading \in Int : SeenOnce(reading)') \/ \E one, other \in Known' : one # other
<1> USE PeerAssumption, QuantaAssumption, MaxPassAssumption
    DEF PeerAssumption, QuantaAssumption, MaxPassAssumption
<1>1. /\ UNCHANGED <<spent, value, lastSecond, Now>>
      /\ answer # NoAnswer /\ answer' = NoAnswer /\ nap' = PollQuanta /\ lag' = 0
      /\ Known' = Known /\ Known # {}
  BY DEF WatchOn, Returned, Sleep, Watched, Known, vars, readingVars, simVars, clockVars, Now
<1>2. Unserved = lag /\ lag \in 0..ReadQuanta /\ Unserved' = ReadQuanta
  BY <1>1, UnservedBound DEF Unserved, Watches
<1>3. CASE \E reading \in Int : SeenOnce(reading)
  <2>1. PICK reading \in Int : SeenOnce(reading)
    BY <1>3
  <2>2. PICK now \in Nat, began \in Int : now = Now /\ began = lastSecond * Quanta
    BY NowInSecond
  <2>3. now < began + MaxPass + lag => now < began + MaxPass + ReadQuanta
    BY <1>2, <2>2
  <2>4. SeenOnce(reading)'
    BY <1>1, <1>2, <2>1, <2>2, <2>3 DEF SeenOnce
  <2>5. QED
    BY <2>4
<1>4. QED
  BY <1>1, <1>3 DEF Moving

LEMMA MovingStep ==
  ASSUME TypeOK, TypeOK', ClockInv, ModesTyped, ModesTyped', WireInHand, Moving,
         [ModesTestNext]_modesVars,
         MaxPass + PollQuanta + 2 * ReadQuanta <= Quanta,
         Quanta + MaxPass + 2 * ReadQuanta <= WatchQuanta
  PROVE  Moving'
<1> USE PeerAssumption, QuantaAssumption, MaxPassAssumption
    DEF PeerAssumption, QuantaAssumption, MaxPassAssumption
<1>1. MaxPass <= Quanta
  OBVIOUS
<1>2. CASE ServeRead
  <2>1. UNCHANGED <<stage, failed>>
    BY <1>2 DEF ServeRead
  <2>2. QED
    BY <1>2, <2>1, ServeMoving DEF Moving, HealthyReadingMoves
<1>3. CASE WatchOn
  <2>1. UNCHANGED <<stage, failed>>
    BY <1>3 DEF WatchOn, Sleep
  <2>2. QED
    BY <1>3, <2>1, ReturnMoving DEF Moving, HealthyReadingMoves
<1>4. CASE Entering
  <2>1. Known' = {} /\ nap' = 0 /\ spent' = lag'
    BY <1>4, EnteringResets DEF Known
  <2>2. HealthyReadingMoves'
    <3>1. CASE BreakWire \/ EndTest
      <4>1. /\ stage \in {"healthy", "repaired"} /\ Returned /\ spent >= WatchQuanta
            /\ Judge("moves", ~StandsStill) \/ Judge("movesAgain", ~StandsStill)
        BY <3>1 DEF BreakWire, EndTest, WatchOver
      <4>2. ~StandsStill
        BY <1>1, <4>1, WatchShowsTwo
      <4>3. QED
        BY <4>1, <4>2 DEF Judge, Moving, HealthyReadingMoves
    <3>2. CASE Start \/ BrokenWatched \/ RepairWire \/ WaitOver \/ WatchAgain
      <4>1. failed' \subseteq failed \union {"frozen", "noticed"}
        BY <3>2 DEF Start, BrokenWatched, RepairWire, WaitOver, WatchAgain, Judge
      <4>2. QED
        BY <4>1 DEF Moving, HealthyReadingMoves
    <3>3. QED
      BY <1>4, <3>1, <3>2 DEF Entering
  <2>3. QED
    BY <2>1, <2>2 DEF Moving
<1>5. CASE PollOn
  BY <1>5 DEF PollOn, Sleep, Waits, Moving, HealthyReadingMoves
<1>6. CASE (Advance /\ TimePasses) \/ (SensorSimulationTick /\ UNCHANGED stageVars)
  <2>1. UNCHANGED <<stage, failed, Known>>
    BY <1>6 DEF TimePasses, stageVars, Known
  <2>2. ASSUME stage \in {"healthy", "repaired"}, nap = 0, spent = lag
        PROVE  nap' = 0 /\ spent' = lag'
    BY <1>6, <2>2 DEF TimePasses, stageVars, Checks
  <2>3. ASSUME stage \in {"healthy", "repaired"}, NEW reading \in Int, SeenOnce(reading)
        PROVE  SeenOnce(reading)'
    BY <1>6, <2>3, SeenOnceStep
  <2>4. QED
    BY <2>1, <2>2, <2>3 DEF Moving, HealthyReadingMoves
<1>7. CASE UNCHANGED modesVars
  <2>1. UNCHANGED <<stage, spent, nap, lag, failed, value, lastSecond, Now, Known, Unserved>>
    BY <1>7 DEF modesVars, stageVars, vars, readingVars, simVars, clockVars, Now, Known, Unserved
  <2>2. ASSUME NEW reading \in Int, SeenOnce(reading)
        PROVE  SeenOnce(reading)'
    BY <2>1, <2>2 DEF SeenOnce
  <2>3. QED
    BY <2>1, <2>2 DEF Moving, HealthyReadingMoves
<1>8. QED
  BY <1>2, <1>3, <1>4, <1>5, <1>6, <1>7 DEF ModesTestNext, Peer, Entering

\* A healthy reading is seen to move in a watch of a second, the longest pass and
\* two reads, if the sensor serves a read in each second that it shows a reading:
\* from one service to the next a sleep and two reads may pass.
THEOREM HealthySeenToMove ==
  ASSUME Quanta + MaxPass + ReadQuanta <= NoticedQuanta,
         Quanta + MaxPass + 2 * ReadQuanta <= WatchQuanta,
         MaxPass + PollQuanta + 2 * ReadQuanta <= Quanta
  PROVE  ModesTestSpec => []HealthyReadingMoves
<1>1. ModesTestInit => Moving
  BY DEF ModesTestInit, Moving, HealthyReadingMoves
<1>2. TypeOK /\ TypeOK' /\ ClockInv /\ ModesTyped /\ ModesTyped' /\ WireInHand /\ Moving
        /\ [ModesTestNext]_modesVars => Moving'
  BY MovingStep
<1>3. Moving => HealthyReadingMoves
  BY DEF Moving
<1>4. QED
  BY <1>1, <1>2, <1>3, ModesBasics, WireAlwaysInHand, PTL DEF ModesTestSpec

-----------------------------------------------------------------------------
\* The device a client reads, for every command line and every schedule: the
\* set-up gives the stack the objects and the properties of SetupCalls in their
\* order, and the callbacks know each property listed then.

TheObjects    == {Device, AnalogInput, BinaryInput, MultiStateInput, NetworkPort}
TheProperties == {<<Device, "Description">>, <<MultiStateInput, "State_Text">>,
                  <<AnalogInput, "Reliability">>}

\* The calls made so far have had their effect, and no call yet to come.
SetUpInv ==
  /\ phase \in {"settingUp", "serving", "ended"}
  /\ setUp \in 0..8
  /\ phase = "settingUp" => setUp < 8
  /\ phase = "serving" => setUp = 8
  /\ objects \subseteq TheObjects
  /\ enabled \subseteq TheProperties
  /\ \A i \in 1..setUp :
       IF SetupCalls[i].property = "none" THEN SetupCalls[i].object \in objects
       ELSE <<SetupCalls[i].object, SetupCalls[i].property>> \in enabled
  /\ enabled # {} => setUp > 5

\* What the command line leaves: an instance and a name a device may have.
NamesInv ==
  /\ deviceInstance \in 0..MAX_DEVICE_ID
  /\ deviceName.bytes \in 1..MAX_DEVICE_NAME_LENGTH /\ deviceName.printable

DeviceInv == SetUpInv /\ NamesInv

\* The device as main() has set it up when it serves.
Complete == objects = TheObjects /\ enabled = TheProperties

-----------------------------------------------------------------------------
\* The set-up

LEMMA Calls ==
  /\ Len(SetupCalls) = 8
  /\ SetupCalls[1] = Add(Device)
  /\ SetupCalls[2] = Add(AnalogInput)
  /\ SetupCalls[3] = Add(BinaryInput)
  /\ SetupCalls[4] = Add(MultiStateInput)
  /\ SetupCalls[5] = Add(NetworkPort)
  /\ SetupCalls[6] = Enable(Device, "Description")
  /\ SetupCalls[7] = Enable(MultiStateInput, "State_Text")
  /\ SetupCalls[8] = Enable(AnalogInput, "Reliability")
BY DEF SetupCalls

\* The first five calls add the objects, the others enable a property of one.
LEMMA CallAdds ==
  ASSUME NEW i \in 1..8, SetupCalls[i].property = "none"
  PROVE  i <= 5 /\ SetupCalls[i].object \in TheObjects
<1>1. CASE i <= 5
  BY <1>1, Calls DEF Add, TheObjects
<1>2. CASE i > 5
  BY <1>2, Calls DEF Enable
<1>3. QED
  BY <1>1, <1>2

LEMMA CallEnables ==
  ASSUME NEW i \in 1..8, SetupCalls[i].property # "none"
  PROVE  i > 5 /\ <<SetupCalls[i].object, SetupCalls[i].property>> \in TheProperties
<1>1. CASE i <= 5
  BY <1>1, Calls DEF Add
<1>2. CASE i > 5
  BY <1>2, Calls DEF Enable, TheProperties
<1>3. QED
  BY <1>1, <1>2

\* Whichever use of an option decides, it is a valid one or the default.
LEMMA OptionsValid ==
  /\ \A given \in BoundedSeq(DeviceIDs, MaxOptions) : ParseDeviceIDArg(given) \in 0..MAX_DEVICE_ID
  /\ \A given \in BoundedSeq(DeviceNames, MaxOptions) :
       LET name == ParseDeviceNameArg(given) IN name.bytes \in 1..MAX_DEVICE_NAME_LENGTH /\ name.printable
<1>1. ASSUME NEW S, S # {}, S \subseteq Nat
      PROVE  Min(S) \in S
  <2>1. PICK n \in S : \A m \in S : n <= m
    BY <1>1, LeastMember
  <2>2. QED
    BY <2>1 DEF Min
<1>2. ASSUME NEW given \in BoundedSeq(DeviceIDs, MaxOptions)
      PROVE  ParseDeviceIDArg(given) \in 0..MAX_DEVICE_ID
  <2> DEFINE valid == {i \in 1..Len(given) : ValidDeviceID(given[i])}
  <2>1. valid \subseteq Nat
    OBVIOUS
  <2>2. valid # {} => Min(valid) \in valid
    BY <1>1, <2>1
  <2>3. CASE valid = {}
    <3>1. SelectInSeq(given, ValidDeviceID) = 0
      BY <2>3 DEF SelectInSeq
    <3>2. DEVICE_ID \in Nat /\ MAX_DEVICE_ID \in Nat /\ DEVICE_ID <= MAX_DEVICE_ID
      BY SMT DEF DEVICE_ID, MAX_DEVICE_ID
    <3>3. QED
      BY <3>1, <3>2 DEF ParseDeviceIDArg, FirstOf
  <2>4. CASE valid # {}
    <3>1. SelectInSeq(given, ValidDeviceID) = Min(valid)
      BY <2>4 DEF SelectInSeq
    <3>2. Min(valid) # 0 /\ ValidDeviceID(given[Min(valid)])
      BY <2>2, <2>4
    <3>3. QED
      BY <3>1, <3>2 DEF ParseDeviceIDArg, FirstOf, ValidDeviceID
  <2>5. QED
    BY <2>3, <2>4
<1>3. ASSUME NEW given \in BoundedSeq(DeviceNames, MaxOptions)
      PROVE  LET name == ParseDeviceNameArg(given) IN name.bytes \in 1..MAX_DEVICE_NAME_LENGTH /\ name.printable
  <2> DEFINE valid == {i \in 1..Len(given) : ValidDeviceName(given[i])}
  <2>1. valid \subseteq Nat
    OBVIOUS
  <2>2. valid # {} => Min(valid) \in valid
    BY <1>1, <2>1
  <2>3. CASE valid = {}
    <3>1. SelectInSeq(given, ValidDeviceName) = 0
      BY <2>3 DEF SelectInSeq
    <3>2. QED
      BY <3>1, SMT DEF ParseDeviceNameArg, FirstOf, DEVICE_NAME, MAX_DEVICE_NAME_LENGTH
  <2>4. CASE valid # {}
    <3>1. SelectInSeq(given, ValidDeviceName) = Min(valid)
      BY <2>4 DEF SelectInSeq
    <3>2. Min(valid) # 0 /\ ValidDeviceName(given[Min(valid)])
      BY <2>2, <2>4
    <3>3. QED
      BY <3>1, <3>2 DEF ParseDeviceNameArg, FirstOf, ValidDeviceName
  <2>5. QED
    BY <2>3, <2>4
<1>4. QED
  BY <1>2, <1>3

LEMMA SetUpStep ==
  ASSUME SetUpInv, SetUp
  PROVE  SetUpInv'
<1> DEFINE call == SetupCalls[setUp + 1]
<1>1. setUp + 1 \in 1..8 /\ setUp' = setUp + 1 /\ setUp < 8
  BY Calls DEF SetUpInv, SetUp
<1>2. SetupCalls' = SetupCalls /\ TheObjects' = TheObjects /\ TheProperties' = TheProperties
  BY DEF SetUp, SetupCalls, TheObjects, TheProperties, Device, Add, Enable, AnalogInput,
         BinaryInput, MultiStateInput, NetworkPort
<1>3. phase' = IF setUp + 1 = 8 THEN "serving" ELSE "settingUp"
  BY <1>1, Calls DEF SetUp
<1>4. CASE call.property = "none"
  <2>1. objects' = objects \union {call.object} /\ enabled' = enabled
    BY <1>4 DEF SetUp
  <2>2. call.object \in TheObjects
    BY <1>1, <1>4, CallAdds
  <2>3. \A i \in 1..(setUp + 1) :
          IF SetupCalls[i].property = "none" THEN SetupCalls[i].object \in objects'
          ELSE <<SetupCalls[i].object, SetupCalls[i].property>> \in enabled'
    <3>1. ASSUME NEW i \in 1..setUp
          PROVE  IF SetupCalls[i].property = "none" THEN SetupCalls[i].object \in objects'
                 ELSE <<SetupCalls[i].object, SetupCalls[i].property>> \in enabled'
      BY <2>1 DEF SetUpInv
    <3>2. setUp \in Nat
      BY DEF SetUpInv
    <3>3. \A i \in 1..(setUp + 1) : i \in 1..setUp \/ i = setUp + 1
      BY <3>2
    <3>4. QED
      BY <1>4, <2>1, <3>1, <3>3
  <2>4. QED
    BY <1>1, <1>2, <1>3, <2>1, <2>2, <2>3 DEF SetUpInv
<1>5. CASE call.property # "none"
  <2>1. enabled' = enabled \union {<<call.object, call.property>>} /\ objects' = objects
    BY <1>5 DEF SetUp
  <2>2. setUp + 1 > 5 /\ <<call.object, call.property>> \in TheProperties
    BY <1>1, <1>5, CallEnables
  <2>3. \A i \in 1..(setUp + 1) :
          IF SetupCalls[i].property = "none" THEN SetupCalls[i].object \in objects'
          ELSE <<SetupCalls[i].object, SetupCalls[i].property>> \in enabled'
    <3>1. ASSUME NEW i \in 1..setUp
          PROVE  IF SetupCalls[i].property = "none" THEN SetupCalls[i].object \in objects'
                 ELSE <<SetupCalls[i].object, SetupCalls[i].property>> \in enabled'
      BY <2>1 DEF SetUpInv
    <3>2. setUp \in Nat
      BY DEF SetUpInv
    <3>3. \A i \in 1..(setUp + 1) : i \in 1..setUp \/ i = setUp + 1
      BY <3>2
    <3>4. QED
      BY <1>5, <2>1, <3>1, <3>3
  <2>4. QED
    BY <1>1, <1>2, <1>3, <2>1, <2>2, <2>3 DEF SetUpInv
<1>6. QED
  BY <1>4, <1>5

\* What is set up and what the command line said stays as it is while the
\* Simulation runs and when a call fails.
THEOREM SetUpInductive == DeviceSpec => []DeviceInv
<1>1. DeviceInit => DeviceInv
  BY OptionsValid DEF DeviceInit, DeviceInv, SetUpInv, NamesInv
<1>2. DeviceInv /\ [DeviceNext]_<<vars, deviceVars>> => DeviceInv'
  <2> SUFFICES ASSUME DeviceInv, [DeviceNext]_<<vars, deviceVars>> PROVE DeviceInv'
    OBVIOUS
  <2>1. NamesInv'
    BY DEF DeviceInv, NamesInv, DeviceNext, SetUp, SetUpFails, Serve, deviceVars, stackVars
  <2>2. CASE SetUp
    BY <2>1, <2>2, SetUpStep DEF DeviceInv
  <2>3. ASSUME UNCHANGED <<setUp, objects, enabled, deviceInstance>>,
               phase' \in {phase, "ended"}
        PROVE  SetUpInv'
    <3>1. SetupCalls' = SetupCalls /\ TheObjects' = TheObjects /\ TheProperties' = TheProperties
      BY <2>3 DEF SetupCalls, TheObjects, TheProperties, Device, Add, Enable, AnalogInput,
                  BinaryInput, MultiStateInput, NetworkPort
    <3>2. QED
      BY <2>3, <3>1 DEF DeviceInv, SetUpInv
  <2>4. CASE SetUpFails
    BY <2>1, <2>3, <2>4 DEF SetUpFails, DeviceInv
  <2>5. CASE Serve
    BY <2>1, <2>3, <2>5 DEF Serve, deviceVars, stackVars, DeviceInv
  <2>6. CASE UNCHANGED <<vars, deviceVars>>
    BY <2>1, <2>3, <2>6 DEF deviceVars, stackVars, DeviceInv
  <2>7. QED
    BY <2>2, <2>4, <2>5, <2>6 DEF DeviceNext
<1>3. QED
  BY <1>1, <1>2, PTL DEF DeviceSpec

\* The stack's objects and properties, the instance and the name stay in their
\* types: whatever is given on the command line, the device goes by an
\* instance and a name it may have, and no property is enabled of an object
\* that has not been added.
THEOREM DeviceTypeCorrect == DeviceSpec => []DeviceTypeOK
<1>1. DeviceInv => DeviceTypeOK
  <2> SUFFICES ASSUME DeviceInv PROVE DeviceTypeOK
    OBVIOUS
  <2>1. ASSUME NEW pair \in enabled
        PROVE  pair \in objects \X {"Description", "State_Text", "Reliability"}
    <3>1. setUp > 5
      BY <2>1 DEF DeviceInv, SetUpInv
    <3>2. Device \in objects /\ AnalogInput \in objects /\ MultiStateInput \in objects
      <4>1. 1 \in 1..setUp /\ 2 \in 1..setUp /\ 4 \in 1..setUp
        BY <3>1 DEF DeviceInv, SetUpInv
      <4>2. \A i \in 1..setUp :
              SetupCalls[i].property = "none" => SetupCalls[i].object \in objects
        BY DEF DeviceInv, SetUpInv
      <4>3. QED
        BY <4>1, <4>2, Calls DEF Add
    <3>3. pair \in TheProperties
      BY <2>1 DEF DeviceInv, SetUpInv
    <3>4. QED
      BY <3>2, <3>3 DEF TheProperties
  <2>2. QED
    BY <2>1, Calls DEF DeviceInv, SetUpInv, NamesInv, DeviceTypeOK, TheObjects
<1>2. QED
  BY <1>1, SetUpInductive, PTL

\* The Simulation runs as it does alone: what is proved of it holds here.
THEOREM RunsSimulation == DeviceSpec => Spec
<1>1. DeviceInit => Init
  BY DEF DeviceInit
<1>2. [DeviceNext]_<<vars, deviceVars>> => [Next]_vars
  BY DEF DeviceNext, SetUp, SetUpFails, Serve
<1>3. QED
  BY <1>1, <1>2, PTL DEF DeviceSpec, Spec

-----------------------------------------------------------------------------
\* What is listed

LEMMA Distinct ==
  /\ Device # AnalogInput /\ Device # BinaryInput /\ Device # MultiStateInput
  /\ Device # NetworkPort /\ AnalogInput # BinaryInput /\ AnalogInput # MultiStateInput
  /\ AnalogInput # NetworkPort /\ BinaryInput # MultiStateInput
  /\ BinaryInput # NetworkPort /\ MultiStateInput # NetworkPort
BY DEF Device, AnalogInput, BinaryInput, MultiStateInput, NetworkPort

LEMMA TypeOf ==
  /\ Type(Device) = "Device" /\ Type(AnalogInput) = "AnalogInput"
  /\ Type(BinaryInput) = "BinaryInput" /\ Type(MultiStateInput) = "MultiStateInput"
  /\ Type(NetworkPort) = "NetworkPort"
BY DEF Type, Device, AnalogInput, BinaryInput, MultiStateInput, NetworkPort

LEMMA WhenServing ==
  ASSUME DeviceInv, Serving
  PROVE  Complete
<1>1. setUp = 8
  BY DEF DeviceInv, SetUpInv, Serving
<1>2. \A i \in 1..8 :
        IF SetupCalls[i].property = "none" THEN SetupCalls[i].object \in objects
        ELSE <<SetupCalls[i].object, SetupCalls[i].property>> \in enabled
  BY <1>1 DEF DeviceInv, SetUpInv
<1>3. TheObjects \subseteq objects
  BY <1>2, Calls DEF Add, TheObjects
<1>4. TheProperties \subseteq enabled
  BY <1>2, Calls DEF Enable, TheProperties
<1>5. QED
  BY <1>3, <1>4 DEF DeviceInv, SetUpInv, Complete

\* Of the enabled properties an object lists its own.
LEMMA EnabledOf ==
  ASSUME Complete, NEW property
  PROVE  /\ <<Device, property>> \in enabled <=> property = "Description"
         /\ <<MultiStateInput, property>> \in enabled <=> property = "State_Text"
         /\ <<AnalogInput, property>> \in enabled <=> property = "Reliability"
         /\ <<BinaryInput, property>> \notin enabled
         /\ <<NetworkPort, property>> \notin enabled
BY Distinct DEF Complete, TheProperties

LEMMA ListedOf ==
  ASSUME Complete
  PROVE  /\ Listed(Device) = {"Object_Name", "Description", "Vendor_Name", "Model_Name",
              "Firmware_Revision", "Application_Software_Version", "Vendor_Identifier",
              "System_Status", "Max_APDU_Length_Accepted", "Segmentation_Supported",
              "APDU_Timeout", "Number_Of_APDU_Retries"}
         /\ Listed(AnalogInput) = {"Object_Name", "Present_Value", "Out_Of_Service",
              "Event_State", "Units", "Reliability"}
         /\ Listed(BinaryInput) = {"Object_Name", "Present_Value", "Out_Of_Service",
              "Event_State", "Polarity"}
         /\ Listed(MultiStateInput) = {"Object_Name", "Present_Value", "Out_Of_Service",
              "Event_State", "Number_Of_States", "State_Text"}
         /\ Listed(NetworkPort) = {"Object_Name", "Out_Of_Service", "Reliability",
              "APDU_Length", "Reference_Port", "BACnet_IP_UDP_Port", "BACnet_IP_Mode"}
              \union Addresses
<1>1. Listed(Device) = {"Object_Name", "Description", "Vendor_Name", "Model_Name",
              "Firmware_Revision", "Application_Software_Version", "Vendor_Identifier",
              "System_Status", "Max_APDU_Length_Accepted", "Segmentation_Supported",
              "APDU_Timeout", "Number_Of_APDU_Retries"}
  BY EnabledOf, TypeOf DEF Listed, Asked, Strings, DeviceStrings
<1>2. Listed(AnalogInput) = {"Object_Name", "Present_Value", "Out_Of_Service",
              "Event_State", "Units", "Reliability"}
  BY EnabledOf, TypeOf DEF Listed, Asked, Strings, DeviceStrings
<1>3. Listed(BinaryInput) = {"Object_Name", "Present_Value", "Out_Of_Service",
              "Event_State", "Polarity"}
  BY EnabledOf, TypeOf DEF Listed, Asked, Strings, DeviceStrings
<1>4. Listed(MultiStateInput) = {"Object_Name", "Present_Value", "Out_Of_Service",
              "Event_State", "Number_Of_States", "State_Text"}
  BY EnabledOf, TypeOf DEF Listed, Asked, Strings, DeviceStrings
<1>5. Listed(NetworkPort) = {"Object_Name", "Out_Of_Service", "Reliability",
              "APDU_Length", "Reference_Port", "BACnet_IP_UDP_Port", "BACnet_IP_Mode"}
              \union Addresses
  BY EnabledOf, TypeOf DEF Listed, Asked, Strings, DeviceStrings
<1>6. QED
  BY <1>1, <1>2, <1>3, <1>4, <1>5

-----------------------------------------------------------------------------
\* What is answered

LEMMA TextsAreValues ==
  ASSUME NEW text
  PROVE  ReturnCharacterString(text).kind = "value"
BY DEF ReturnCharacterString, Return

LEMMA NameServed ==
  ASSUME NEW object \in TheObjects
  PROVE  Callback(object, "Object_Name", WHOLE).kind = "value"
<1>1. Callback(object, "Object_Name", WHOLE)
        = GetPropertyCharacterString(object, "Object_Name", WHOLE)
  BY DEF Callback, Strings, DeviceStrings, Addresses
<1>2. GetPropertyCharacterString(object, "Object_Name", WHOLE) = ObjectName(object)
  BY DEF GetPropertyCharacterString, DeviceStrings
<1>3. ObjectName(object).kind = "value"
  BY Distinct, TextsAreValues DEF ObjectName, TheObjects
<1>4. QED
  BY <1>1, <1>2, <1>3

LEMMA StringServed ==
  ASSUME NEW property \in DeviceStrings
  PROVE  Callback(Device, property, WHOLE).kind = "value"
<1>1. Callback(Device, property, WHOLE) = GetPropertyCharacterString(Device, property, WHOLE)
  BY DEF Callback, Strings, DeviceStrings, Addresses
<1>2. GetPropertyCharacterString(Device, property, WHOLE)
        = ReturnCharacterString(Text(property, 1))
  BY Distinct DEF GetPropertyCharacterString, DeviceStrings
<1>3. QED
  BY <1>1, <1>2, TextsAreValues

LEMMA OutOfServiceServed ==
  ASSUME NEW object \in TheObjects \ {Device}
  PROVE  Callback(object, "Out_Of_Service", WHOLE).kind = "value"
BY TypeOf DEF Callback, Strings, DeviceStrings, Addresses, GetPropertyBool, TheObjects, Return

LEMMA EnumeratedServed ==
  /\ Callback(BinaryInput, "Present_Value", WHOLE).kind = "value"
  /\ Callback(BinaryInput, "Polarity", WHOLE).kind = "value"
  /\ Callback(AnalogInput, "Units", WHOLE).kind = "value"
  /\ Callback(AnalogInput, "Reliability", WHOLE) = Return(reliability)
  /\ Callback(NetworkPort, "BACnet_IP_Mode", WHOLE).kind = "value"
BY Distinct, TypeOf
   DEF Callback, Strings, DeviceStrings, Addresses, GetPropertyEnumerated, Return

LEMMA RealServed == Callback(AnalogInput, "Present_Value", WHOLE).kind = "value"
BY TypeOf DEF Callback, Strings, DeviceStrings, Addresses, GetPropertyReal, Return

LEMMA UnsignedServed ==
  /\ Callback(MultiStateInput, "Present_Value", WHOLE) = Return(multi)
  /\ Callback(MultiStateInput, "Number_Of_States", WHOLE)
       = Return(MULTI_STATE_INPUT_NUMBER_OF_STATES)
  /\ Callback(Device, "Vendor_Identifier", WHOLE).kind = "value"
  /\ Callback(NetworkPort, "APDU_Length", WHOLE).kind = "value"
  /\ Callback(NetworkPort, "Reference_Port", WHOLE).kind = "value"
  /\ Callback(NetworkPort, "BACnet_IP_UDP_Port", WHOLE).kind = "value"
BY Distinct, TypeOf
   DEF Callback, Strings, DeviceStrings, Addresses, GetPropertyUnsignedInteger, Return

LEMMA AddressServed ==
  ASSUME NEW property \in Addresses
  PROVE  Callback(NetworkPort, property, WHOLE).kind = "value"
BY DEF Callback, Strings, DeviceStrings, Addresses, GetPropertyOctetString, Return

-----------------------------------------------------------------------------
\* What a client reads

\* A callback that has no opinion leaves the answer to the stack.
LEMMA PlainRead ==
  ASSUME Complete, NEW object \in TheObjects, NEW property \in Listed(object),
         property # "State_Text"
  PROVE  Read(object, property, WHOLE)
           = IF Callback(object, property, WHOLE).kind = "noOpinion" THEN Fallback(property)
             ELSE Callback(object, property, WHOLE)
BY DEF Complete, Read, Answer

LEMMA ValueRead ==
  ASSUME Complete, NEW object \in TheObjects, NEW property \in Listed(object),
         property # "State_Text", Callback(object, property, WHOLE).kind = "value"
  PROVE  Read(object, property, WHOLE) = Callback(object, property, WHOLE)
BY PlainRead

\* The properties no callback knows are those that may be invented.
LEMMA Invented ==
  ASSUME Complete, NEW object \in TheObjects,
         NEW property \in Accepted(Type(object)) \intersect Listed(object)
  PROVE  Read(object, property, WHOLE).kind = "invented"
<1>1. CASE object = Device
  <2>1. property \in {"System_Status", "Max_APDU_Length_Accepted", "Segmentation_Supported",
                      "APDU_Timeout", "Number_Of_APDU_Retries"}
    BY <1>1, TypeOf DEF Accepted
  <2>2. Callback(Device, property, WHOLE) = NoOpinion
    BY <2>1, Distinct, TypeOf
       DEF Callback, Strings, DeviceStrings, Addresses, GetPropertyUnsignedInteger,
           GetPropertyEnumerated
  <2>3. QED
    BY <1>1, <2>1, <2>2, PlainRead DEF NoOpinion, Fallback
<1>2. CASE object = NetworkPort
  <2>1. property = "Reliability"
    BY <1>2, TypeOf DEF Accepted
  <2>2. Callback(NetworkPort, property, WHOLE) = NoOpinion
    BY <2>1, Distinct, TypeOf
       DEF Callback, Strings, DeviceStrings, Addresses, GetPropertyEnumerated
  <2>3. QED
    BY <1>2, <2>1, <2>2, PlainRead DEF NoOpinion, Fallback
<1>3. CASE object \in {AnalogInput, BinaryInput, MultiStateInput}
  <2>1. property = "Event_State"
    BY <1>3, TypeOf DEF Accepted
  <2>2. Callback(object, property, WHOLE) = NoOpinion
    BY <1>3, <2>1, Distinct, TypeOf
       DEF Callback, Strings, DeviceStrings, Addresses, GetPropertyEnumerated
  <2>3. QED
    BY <1>3, <2>1, <2>2, PlainRead DEF NoOpinion, Fallback
<1>4. QED
  BY <1>1, <1>2, <1>3 DEF TheObjects

LEMMA TextsRead ==
  ASSUME Complete
  PROVE  /\ StateTextLength = Return(MULTI_STATE_INPUT_NUMBER_OF_STATES)
         /\ Read(MultiStateInput, "State_Text", WHOLE)
              = Return([i \in 1..3 |-> Answer(MultiStateInput, "State_Text", i)])
         /\ \A i \in 1..3 : Read(MultiStateInput, "State_Text", i)
                               = Answer(MultiStateInput, "State_Text", i)
         /\ \A i \in Nat : i > 3 => Read(MultiStateInput, "State_Text", i).kind = "error"
<1>1. StateTextLength = Return(3)
  BY Distinct, TypeOf
     DEF StateTextLength, GetPropertyUnsignedInteger, MULTI_STATE_INPUT_NUMBER_OF_STATES
<1>2. MultiStateInput \in objects /\ "State_Text" \in Listed(MultiStateInput)
  BY ListedOf DEF Complete, TheObjects
<1>3. Read(MultiStateInput, "State_Text", WHOLE)
        = Return([i \in 1..3 |-> Answer(MultiStateInput, "State_Text", i)])
  BY <1>1, <1>2 DEF Read, WHOLE, Return
<1>4. \A i \in 1..3 : Read(MultiStateInput, "State_Text", i)
                          = Answer(MultiStateInput, "State_Text", i)
  BY <1>1, <1>2 DEF Read, WHOLE, Return
<1>5. \A i \in Nat : i > 3 => Read(MultiStateInput, "State_Text", i).kind = "error"
  BY <1>1, <1>2 DEF Read, WHOLE, Return, Error
<1>6. QED
  BY <1>1, <1>3, <1>4, <1>5 DEF MULTI_STATE_INPUT_NUMBER_OF_STATES

\* Every other property of an object has a branch in the callback of its type.
LEMMA KnownOrAccepted ==
  ASSUME Complete, NEW object \in TheObjects, NEW property \in Listed(object)
  PROVE  \/ property \in Accepted(Type(object))
         \/ property = "State_Text" /\ object = MultiStateInput
         \/ Callback(object, property, WHOLE).kind = "value"
<1>1. CASE property = "Object_Name"
  BY <1>1, NameServed
<1>2. CASE property = "Out_Of_Service" /\ object # Device
  BY <1>2, OutOfServiceServed
<1>3. CASE object = Device /\ property # "Object_Name"
  BY <1>3, ListedOf, TypeOf, StringServed, UnsignedServed DEF Accepted, DeviceStrings
<1>4. CASE object = AnalogInput /\ property \notin {"Object_Name", "Out_Of_Service"}
  BY <1>4, ListedOf, TypeOf, RealServed, EnumeratedServed DEF Accepted, Return
<1>5. CASE object = BinaryInput /\ property \notin {"Object_Name", "Out_Of_Service"}
  BY <1>5, ListedOf, TypeOf, EnumeratedServed DEF Accepted
<1>6. CASE object = MultiStateInput /\ property \notin {"Object_Name", "Out_Of_Service"}
  BY <1>6, ListedOf, TypeOf, UnsignedServed DEF Accepted, Return
<1>7. CASE object = NetworkPort /\ property \notin {"Object_Name", "Out_Of_Service"}
  BY <1>7, ListedOf, TypeOf, UnsignedServed, EnumeratedServed, AddressServed DEF Accepted
<1>8. QED
  BY <1>1, <1>2, <1>3, <1>4, <1>5, <1>6, <1>7 DEF TheObjects

\* Each property an object lists is served by the example, or is one of those
\* docs/objects.json leaves to the stack; none reads as an error.  A string of
\* the stack holds at least the 255 bytes --deviceName accepts, as it does in
\* the stack the example loads: then the name is served whole.
THEOREM NoneInvented ==
  ASSUME MAX_CHARACTER_STRING_SIZE >= MAX_DEVICE_NAME_LENGTH
  PROVE  DeviceSpec => []NothingInvented
<1>1. DeviceInv => NothingInvented
  <2> SUFFICES ASSUME DeviceInv, Serving PROVE NothingInvented
    BY DEF NothingInvented
  <2>1. Complete
    BY WhenServing
  <2>2. ASSUME NEW object \in objects, NEW property \in Listed(object)
        PROVE  /\ Read(object, property, WHOLE).kind # "error"
               /\ Read(object, property, WHOLE).kind = "invented"
                    => property \in Accepted(Type(object))
    <3>1. object \in TheObjects
      BY <2>1, <2>2 DEF Complete
    <3>2. CASE property \in Accepted(Type(object))
      BY <2>1, <2>2, <3>1, <3>2, Invented
    <3>3. CASE property = "State_Text" /\ object = MultiStateInput
      BY <2>1, <3>3, TextsRead DEF Return
    <3>4. CASE property # "State_Text" /\ Callback(object, property, WHOLE).kind = "value"
      BY <2>1, <2>2, <3>1, <3>4, ValueRead
    <3>5. property = "State_Text" => object = MultiStateInput
      BY <2>1, <2>2, <3>1, ListedOf, Distinct DEF TheObjects, Addresses
    <3>6. QED
      BY <2>1, <2>2, <3>1, <3>2, <3>3, <3>4, <3>5, KnownOrAccepted
  <2>3. Read(Device, "Object_Name", WHOLE).value.bytes = deviceName.bytes
    <3>1. Device \in TheObjects /\ "Object_Name" \in Listed(Device)
      BY <2>1, ListedOf DEF TheObjects
    <3>2. Callback(Device, "Object_Name", WHOLE)
            = ReturnCharacterString(Text("deviceName", deviceName.bytes))
      BY Distinct DEF Callback, Strings, DeviceStrings, Addresses, GetPropertyCharacterString,
                      ObjectName
    <3>3. Read(Device, "Object_Name", WHOLE)
            = ReturnCharacterString(Text("deviceName", deviceName.bytes))
      BY <2>1, <3>1, <3>2, ValueRead, TextsAreValues
    <3>4. deviceName.bytes <= MAX_CHARACTER_STRING_SIZE
      BY StringSizeAssumption
         DEF DeviceInv, NamesInv, StringSizeAssumption, MAX_DEVICE_NAME_LENGTH
    <3>5. ~(deviceName.bytes > MAX_CHARACTER_STRING_SIZE)
      BY <3>4, StringSizeAssumption
         DEF DeviceInv, NamesInv, StringSizeAssumption, MAX_DEVICE_NAME_LENGTH
    <3>6. QED
      BY <3>3, <3>5 DEF ReturnCharacterString, Text, Return
  <2>4. QED
    BY <2>2, <2>3 DEF NothingInvented
<1>2. QED
  BY <1>1, SetUpInductive, PTL

\* Whatever the schedule, the callbacks and the stack show a wire that has been
\* as it is for a second and the longest pass, in Reliability and in the FAULT
\* bit of this object alone.
THEOREM FaultReachesClient == DeviceSpec => []FaultServed
<1>1. DeviceInv /\ FaultNoticedInTime => FaultServed
  <2> SUFFICES ASSUME DeviceInv, FaultNoticedInTime, Serving PROVE FaultServed
    BY DEF FaultServed
  <2>1. Complete
    BY WhenServing
  <2>2. ~Fault(Device) /\ ~Fault(BinaryInput) /\ ~Fault(MultiStateInput)
    BY <2>1, ListedOf DEF Fault
  <2>3. ~Fault(NetworkPort)
    <3>1. Callback(NetworkPort, "Reliability", WHOLE) = NoOpinion
      BY Distinct, TypeOf
         DEF Callback, Strings, DeviceStrings, Addresses, GetPropertyEnumerated
    <3>2. Answer(NetworkPort, "Reliability", WHOLE).value = NO_FAULT_DETECTED
      BY <3>1 DEF Answer, NoOpinion, Fallback
    <3>3. QED
      BY <3>2 DEF Fault
  <2>4. Answer(AnalogInput, "Reliability", WHOLE) = Return(reliability)
    BY EnumeratedServed DEF Answer, Return
  <2>5. "Reliability" \in Listed(AnalogInput) /\ AnalogInput \in TheObjects
    BY <2>1, ListedOf DEF TheObjects
  <2>6. Read(AnalogInput, "Reliability", WHOLE) = Return(reliability)
    BY <2>1, <2>4, <2>5 DEF Read, Complete
  <2>7. ASSUME wireAge = NoticeBound
        PROVE  /\ Fault(AnalogInput) = SensorWireBroken
               /\ Read(AnalogInput, "Reliability", WHOLE).value = Reported(SensorWireBroken)
    <3>1. reliability = Reported(SensorWireBroken)
      BY <2>7 DEF FaultNoticedInTime
    <3>2. SensorWireBroken \in BOOLEAN
      BY DEF SensorWireBroken
    <3>3. Fault(AnalogInput) <=> reliability # NO_FAULT_DETECTED
      BY <2>4, <2>5 DEF Fault, Return
    <3>4. reliability # NO_FAULT_DETECTED <=> SensorWireBroken
      BY <3>1 DEF Reported, NO_FAULT_DETECTED, OPEN_LOOP
    <3>5. Fault(AnalogInput) \in BOOLEAN
      BY DEF Fault
    <3>6. QED
      BY <2>6, <3>1, <3>2, <3>3, <3>4, <3>5 DEF Return
  <2>8. QED
    BY <2>1, <2>2, <2>3, <2>7 DEF FaultServed, Complete, TheObjects
<1>2. QED
  BY <1>1, SetUpInductive, RunsSimulation, FaultNoticed, PTL

\* Every state Multi-State Input 1 can be read in has its text, and the array
\* is as long as Number_Of_States.
THEOREM TextsServed == DeviceSpec => []StatesHaveTexts
<1>1. DeviceInv /\ TypeOK => StatesHaveTexts
  <2> SUFFICES ASSUME DeviceInv, TypeOK, Serving PROVE StatesHaveTexts
    BY DEF StatesHaveTexts
  <2> DEFINE texts == [i \in 1..3 |-> Answer(MultiStateInput, "State_Text", i)]
  <2>1. Complete
    BY WhenServing
  <2>2. Read(MultiStateInput, "State_Text", WHOLE).value = texts
    BY <2>1, TextsRead DEF Return
  <2>3. Len(texts) = 3 /\ DOMAIN texts = 1..3
    OBVIOUS
  <2>4. MultiStateInput \in TheObjects /\ "Present_Value" \in Listed(MultiStateInput)
          /\ "Number_Of_States" \in Listed(MultiStateInput)
    BY <2>1, ListedOf DEF TheObjects
  <2>5. Read(MultiStateInput, "Present_Value", WHOLE) = Return(multi)
    BY <2>1, <2>4, ValueRead, UnsignedServed DEF Return
  <2>6. Read(MultiStateInput, "Number_Of_States", WHOLE) = Return(3)
    BY <2>1, <2>4, ValueRead, UnsignedServed DEF Return, MULTI_STATE_INPUT_NUMBER_OF_STATES
  <2>7. multi \in 1..3
    BY DEF TypeOK, MULTI_STATE_INPUT_NUMBER_OF_STATES
  <2>8. ASSUME NEW i \in 1..3
        PROVE  Answer(MultiStateInput, "State_Text", i).kind = "value"
    <3>1. Callback(MultiStateInput, "State_Text", i)
            = GetPropertyCharacterString(MultiStateInput, "State_Text", i)
      BY DEF Callback, Strings, DeviceStrings, Addresses
    <3>2. GetPropertyCharacterString(MultiStateInput, "State_Text", i) = StateText(i)
      BY Distinct DEF GetPropertyCharacterString, DeviceStrings, WHOLE
    <3>3. StateText(i).kind = "value"
      BY TextsAreValues DEF StateText, HasText, MULTI_STATE_INPUT_NUMBER_OF_STATES
    <3>4. QED
      BY <3>1, <3>2, <3>3 DEF Answer
  <2> HIDE DEF texts
  <2>9. texts[multi] = Answer(MultiStateInput, "State_Text", multi)
    BY <2>7 DEF texts
  <2>10. \A past \in 1..2 : Read(MultiStateInput, "State_Text", 3 + past).kind = "error"
    BY <2>1, TextsRead
  <2>11. QED
    <3>1. Read(MultiStateInput, "State_Text", multi) = texts[multi] /\ texts[multi].kind = "value"
      BY <2>1, <2>7, <2>8, <2>9, TextsRead
    <3>2. multi \in DOMAIN texts
      BY <2>3, <2>7
    <3>3. Read(MultiStateInput, "Present_Value", WHOLE).value = multi
      BY <2>5 DEF Return
    <3>4. Len(texts) = Read(MultiStateInput, "Number_Of_States", WHOLE).value
      BY <2>3, <2>6 DEF Return
    <3>5. \A past \in 1..2 : Read(MultiStateInput, "State_Text", Len(texts) + past).kind = "error"
      BY <2>3, <2>10
    <3>6. QED
      BY <2>2, <3>1, <3>2, <3>3, <3>4, <3>5 DEF StatesHaveTexts
<1>2. QED
  BY <1>1, SetUpInductive, RunsSimulation, TypeCorrect, PTL
=============================================================================
