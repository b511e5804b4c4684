---------------------------- MODULE FailureModesTest ----------------------------
(***************************************************************************)
(* tests/failure_modes_test.py, part 1, against the sensor it watches: the *)
(* Peer sees the reading move, breaks the wire, waits for the fault, sees  *)
(* the reading stand still, repairs the wire, waits again and sees the     *)
(* reading move again (readings_over and wiretest/wait.py: wait_until).    *)
(* The sensor runs under any schedule of its main loop (SensorSimulation); *)
(* it serves a read at some moment between its being asked and its         *)
(* returning, and only what has returned is judged.                        *)
(***************************************************************************)
EXTENDS SensorSimulation, FiniteSets

CONSTANTS
  NoticedQuanta,   \* FAULT_NOTICED_SECONDS, in quanta
  WatchQuanta,     \* FROZEN_WATCH_SECONDS, in quanta
  PollQuanta,      \* the sleep between two reads of readings_over, in quanta
  IntervalQuanta,  \* the interval between two checks of wait_until, in quanta
  ReadQuanta,      \* the longest time, in quanta, that one read takes
  ChecksQuanta,    \* BOUND: how long the reads between two stages take
  LatestStart,     \* BOUND: the last second in which the test starts
  NoAnswer

ASSUME PeerAssumption ==
  /\ {NoticedQuanta, WatchQuanta, PollQuanta, IntervalQuanta, ReadQuanta} \subseteq Nat
  /\ {ChecksQuanta, LatestStart} \subseteq Nat
  /\ PollQuanta > 0 /\ IntervalQuanta > 0
  /\ NoAnswer \notin Int /\ NoAnswer \notin {NO_FAULT_DETECTED, OPEN_LOOP}

VARIABLES
  stage,   \* what the test is doing
  spent,   \* quanta since it began to
  nap,     \* quanta left of the sleep between two reads
  lag,     \* quanta the read under way has taken
  answer,  \* what it has been answered, or NoAnswer
  seen,    \* the readings seen in this stage
  failed   \* the verdicts the test has recorded as failed

stageVars == <<stage, spent, nap, lag, answer, seen, failed>>
modesVars == <<vars, stageVars>>

Watches == {"healthy", "broken", "repaired"}
Waits   == {"breaking", "repairing"}

\* Between the waits and the watches the test reads something else.
Checks  == {"faultSeen", "refusing", "repairSeen"}

-----------------------------------------------------------------------------

Enter(next) ==
  /\ stage' = next
  /\ spent' = 0 /\ nap' = 0 /\ lag' = 0 /\ answer' = NoAnswer /\ seen' = {}

Judge(verdict, holds) == failed' = IF holds THEN failed ELSE failed \union {verdict}

Start ==
  /\ stage = "notStarted" /\ started
  /\ Enter("healthy")
  /\ UNCHANGED <<vars, failed>>

\* The sensor serves the read under way: the Present_Value in a watch, the
\* Reliability in a wait.
Reading == stage \in Watches \union Waits /\ nap = 0

ServeRead ==
  /\ Reading /\ answer = NoAnswer
  /\ answer' = IF stage \in Watches THEN value ELSE reliability
  /\ UNCHANGED <<vars, stage, spent, nap, lag, seen, failed>>

\* A read that has returned; the deadline is looked at, and the sleep begins,
\* after that.
Returned == Reading /\ answer # NoAnswer

Sleep(interval) ==
  /\ nap' = interval /\ lag' = 0 /\ answer' = NoAnswer
  /\ UNCHANGED <<vars, stage, spent, failed>>

-----------------------------------------------------------------------------
\* readings_over: one more read, and after the last one the verdict on all.

Watched == seen \union {answer}
StandsStill == Cardinality(Watched) = 1

WatchOn ==
  /\ stage \in Watches /\ Returned
  /\ spent < WatchQuanta
  /\ seen' = Watched
  /\ Sleep(PollQuanta)

WatchOver(watch) == stage = watch /\ Returned /\ spent >= WatchQuanta

\* The healthy reading moves; then the wire is broken.
BreakWire ==
  /\ WatchOver("healthy")
  /\ Judge("moves", ~StandsStill)
  /\ Enter("breaking")
  /\ ChangeWire

\* The broken one stands still; the other objects still answer and the sensor
\* refuses what it must.
BrokenWatched ==
  /\ WatchOver("broken")
  /\ Judge("frozen", StandsStill)
  /\ Enter("refusing")
  /\ UNCHANGED vars

RepairWire ==
  /\ stage = "refusing"
  /\ Enter("repairing")
  /\ ChangeWire
  /\ UNCHANGED failed

EndTest ==
  /\ WatchOver("repaired")
  /\ Judge("movesAgain", ~StandsStill)
  /\ Enter("ended")
  /\ UNCHANGED vars

-----------------------------------------------------------------------------
\* wait_until(Reliability reads what it should), and the health() after it

Awaited == IF stage = "breaking" THEN OPEN_LOOP ELSE NO_FAULT_DETECTED

PollOn ==
  /\ stage \in Waits /\ Returned
  /\ answer # Awaited /\ spent < NoticedQuanta
  /\ Sleep(IntervalQuanta)
  /\ UNCHANGED seen

WaitOver ==
  /\ stage \in Waits /\ Returned
  /\ answer = Awaited \/ spent >= NoticedQuanta
  /\ Judge("noticed", answer = Awaited)
  /\ Enter(IF stage = "breaking" THEN "faultSeen" ELSE "repairSeen")
  /\ UNCHANGED vars

WatchAgain ==
  /\ stage \in {"faultSeen", "repairSeen"}
  /\ Enter(IF stage = "faultSeen" THEN "broken" ELSE "repaired")
  /\ UNCHANGED <<vars, failed>>

Peer == \/ Start \/ ServeRead \/ WatchOn \/ BreakWire \/ BrokenWatched \/ RepairWire
        \/ EndTest \/ PollOn \/ WaitOver \/ WatchAgain

-----------------------------------------------------------------------------

\* Time passes for the Peer too, which ends a nap when it is over and has each
\* read return in time.
TimePasses ==
  \/ /\ stage = "notStarted" /\ sec < LatestStart
     /\ UNCHANGED stageVars
  \/ /\ stage \in Checks /\ spent < ChecksQuanta
     /\ spent' = spent + 1
     /\ UNCHANGED <<stage, nap, lag, answer, seen, failed>>
  \/ /\ stage \in Watches \union Waits /\ nap > 0
     /\ spent' = spent + 1 /\ nap' = nap - 1
     /\ UNCHANGED <<stage, lag, answer, seen, failed>>
  \/ /\ Reading /\ lag < ReadQuanta
     /\ spent' = spent + 1 /\ lag' = lag + 1
     /\ UNCHANGED <<stage, nap, answer, seen, failed>>

ModesTestInit ==
  /\ Init /\ ~faultFile
  /\ stage = "notStarted"
  /\ spent = 0 /\ nap = 0 /\ lag = 0 /\ answer = NoAnswer
  /\ seen = {} /\ failed = {}

ModesTestNext ==
  \/ Peer
  \/ SensorSimulationTick /\ UNCHANGED stageVars
  \/ Advance /\ TimePasses

ModesTestSpec == ModesTestInit /\ [][ModesTestNext]_modesVars

-----------------------------------------------------------------------------

\* tests/failure_modes_test.py:34, "The Simulation checks the wire once a
\* second; allow that, plus the round trip": 3 s are enough, wherever in a
\* second the wire breaks or is repaired and however the reads fall.
FaultSeenInTime == "noticed" \notin failed

\* A Peer that reads Reliability OPEN_LOOP never sees the reading move after
\* that, although the two are read one after the other.
FrozenWhileWatched == "frozen" \notin failed

\* tests/failure_modes_test.py:36, 2.5 s are "longer than two Simulation
\* steps", and 40-41, "read every 0.25 s, so a reading that rises and falls
\* back past a turning point still shows moving": a healthy reading is always
\* seen to move.
HealthyReadingMoves == failed \intersect {"moves", "movesAgain"} = {}
=============================================================================
