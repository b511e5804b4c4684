------------------------------ MODULE SensingTest ------------------------------
(***************************************************************************)
(* tests/sensing_test.py against the sensor it watches: a Peer that reads  *)
(* the three inputs again and again (observe) and what the test concludes  *)
(* from two consecutive samples.  The sensor runs under any schedule of    *)
(* its main loop (SensorSimulation); a read is served at some moment       *)
(* between asking and answering, and takes a timeout longer whenever it is *)
(* asked again.                                                            *)
(*                                                                         *)
(* Times are in quanta since the sensor's Simulation started.              *)
(***************************************************************************)
EXTENDS SensorSimulation

CONSTANTS
  SampleQuanta,    \* SAMPLE_SECONDS, in quanta
  PeerDelay,       \* the longest a read takes in one attempt, or an oversleep
  RequestTimeout,  \* REQUEST_TIMEOUT, in quanta
  MaxLost,         \* BOUND: the time all retries take
  FirstStart,      \* BOUND: when observe() begins, in quanta, at the earliest
  LastStart,       \* BOUND: and at the latest
  NoSample

ASSUME SampleQuantaAssumption   == SampleQuanta \in Nat \ {0}
ASSUME PeerDelayAssumption      == PeerDelay \in Nat
ASSUME RequestTimeoutAssumption == RequestTimeout \in Nat \ {0}
ASSUME MaxLostAssumption        == MaxLost \in Nat
ASSUME StartAssumption          == {FirstStart, LastStart} \subseteq Nat

\* What a sample holds: when the first read was asked for and the three readings.
Samples == [asked : Nat, analog : Int, binary : {0, 1},
            multi : 1..MULTI_STATE_INPUT_NUMBER_OF_STATES]

ASSUME NoSampleAssumption == NoSample \notin Samples

VARIABLES
  doing,     \* what the Peer is doing
  due,       \* when the next sample is due
  patience,  \* how many quanta it may still take, once it is due
  lost,      \* quanta lost to retries so far
  current,   \* the sample being taken, or the last one taken
  answered,  \* when its read of Analog Input 1 was answered, or 0
  previous,  \* the sample before the current one
  toggledAt, \* while no read was retried: when the sample that last showed a
             \* toggle was asked, or NoSample
  held       \* the time from the one before it, if the last sample is such, or
             \* NoSample

peerVars == <<doing, due, patience, lost, current, answered, previous, toggledAt, held>>
testVars == <<vars, peerVars>>

Now == sec * Quanta + frac

-----------------------------------------------------------------------------
\* observe()

\* What stands in a sample for what has not been read yet.
NothingRead == [asked |-> 0, analog |-> 0, binary |-> 0, multi |-> 1]

\* The Peer goes on to its next wait.
GoOn(next) == doing' = next /\ patience' = PeerDelay

AskAnalog ==
  /\ started
  /\ doing = "sleeping" /\ Now >= due
  /\ previous' = current
  /\ current' = [NothingRead EXCEPT !.asked = Now] /\ answered' = 0
  /\ due' = due + SampleQuanta
  /\ GoOn("analogAsked")
  /\ UNCHANGED <<lost, toggledAt, held>>

ServeAnalog ==
  /\ doing = "analogAsked"
  /\ current' = [current EXCEPT !.analog = value]
  /\ doing' = "analogServed"
  /\ UNCHANGED <<due, patience, lost, answered, previous, toggledAt, held>>

AnswerAnalog ==
  /\ doing = "analogServed"
  /\ answered' = Now
  /\ GoOn("binaryAsked")
  /\ UNCHANGED <<due, lost, current, previous, toggledAt, held>>

ServeBinary ==
  /\ doing = "binaryAsked"
  /\ current' = [current EXCEPT !.binary = binary]
  /\ doing' = "binaryServed"
  /\ UNCHANGED <<due, patience, lost, answered, previous, toggledAt, held>>

AnswerBinary ==
  /\ doing = "binaryServed"
  /\ GoOn("multiAsked")
  /\ UNCHANGED <<due, lost, current, answered, previous, toggledAt, held>>

ServeMulti ==
  /\ doing = "multiAsked"
  /\ current' = [current EXCEPT !.multi = multi]
  /\ doing' = "multiServed"
  /\ UNCHANGED <<due, patience, lost, answered, previous, toggledAt, held>>

Toggled == previous # NoSample /\ previous.binary # current.binary

\* The sample is complete.  How long Binary Input 1 holds a state is followed
\* until a read is retried.
AnswerMulti ==
  /\ doing = "multiServed"
  /\ toggledAt' = IF lost > 0 THEN NoSample
                  ELSE IF Toggled THEN current.asked
                  ELSE toggledAt
  /\ held' = IF lost = 0 /\ Toggled /\ toggledAt # NoSample
             THEN current.asked - toggledAt ELSE NoSample
  /\ GoOn("sleeping")
  /\ UNCHANGED <<due, lost, current, answered, previous>>

\* A read that has not been answered in time is asked again, whether the sensor
\* has served it (the answer is late) or not, and takes a timeout longer.
Retry ==
  /\ doing # "sleeping" /\ patience = 0
  /\ lost + RequestTimeout <= MaxLost
  /\ lost' = lost + RequestTimeout
  /\ patience' = RequestTimeout
  /\ UNCHANGED <<doing, due, current, answered, previous, toggledAt, held>>

Observe == \/ AskAnalog \/ ServeAnalog \/ AnswerAnalog \/ ServeBinary \/ AnswerBinary
           \/ ServeMulti \/ AnswerMulti \/ Retry

\* Time passes for the Peer too: a sleep lasts until the sample is due.
Asleep == doing = "sleeping" /\ Now < due

PeerWaits ==
  /\ Asleep \/ patience > 0
  /\ patience' = IF Asleep THEN patience ELSE patience - 1
  /\ UNCHANGED <<doing, due, lost, current, answered, previous, toggledAt, held>>

-----------------------------------------------------------------------------

TestInit ==
  /\ Init
  /\ doing = "sleeping" /\ due \in FirstStart..LastStart /\ patience = PeerDelay /\ lost = 0
  /\ current = NoSample /\ answered = 0 /\ previous = NoSample
  /\ toggledAt = NoSample /\ held = NoSample

TestNext ==
  \/ Observe /\ UNCHANGED vars
  \/ Advance /\ PeerWaits
  \/ (SensorSimulationTick \/ ChangeWire) /\ UNCHANGED peerVars

TestSpec == TestInit /\ [][TestNext]_testVars

-----------------------------------------------------------------------------
\* The test's verdicts on two consecutive samples.

Taken == doing = "sleeping" /\ previous # NoSample

Distance(a, b) == IF a <= b THEN b - a ELSE a - b

Steps == Distance(previous.analog, current.analog) \div ANALOG_INPUT_STEP

SecondsApart == (answered - previous.asked) \div Quanta

-----------------------------------------------------------------------------

\* However the reads fall between the ticks and however often they are asked
\* again, two readings are never more than one step further apart than
\* step_count_fits allows: the tick makes at most two steps more than whole
\* seconds pass between asking for the one and receiving the other.
StepsWithinTwo == Taken => Steps <= SecondsApart + 2

\* tests/sensing_test.py:117-118: "a read delayed by retries could otherwise
\* have slept through a whole state".  With the three retries of one read it
\* cannot: Multi-State Input 1 has at most stepped on between two samples, so
\* that a sensor that steps in order is not called out of order.
NoStateSleptThrough ==
  Taken => current.multi \in {previous.multi,
                              (previous.multi % MULTI_STATE_INPUT_NUMBER_OF_STATES) + 1}

\* When no read had to be asked again, the time the test takes Binary Input 1 to
\* hold a state is within a second of the 3 s between two toggles.
HeldAboutThreeSeconds ==
  held # NoSample =>
    Distance(held, BINARY_INPUT_TOGGLE_SECONDS * Quanta) <= Quanta
=============================================================================
