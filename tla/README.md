# A TLA+ model of the B-SS smart sensor example and its wire tests

This directory models [BACnetProfileExample-B-SS-Python](../src/README.md): a
BACnet smart sensor in one Python process (`main.py` and `common/`), and the
harness that tests it over the wire (`wiretest/` and `tests/`). The modules are
translated from the Python source; line numbers below are of that source. What
the repository does not contain (the CAS BACnet Stack, the UDP network, the
terminal) is modelled from how the source uses it and is marked external in
`PROJECT.json`, whose `map` gives the lines every definition stands for.

## 1. The system

| Part | Source | State it keeps | Operations | Talks to |
|---|---|---|---|---|
| Sensor Simulation | `main.py` 205-295 | clock, last second dealt with, direction, the three inputs, Reliability | `sensor_wire_broken`, `sensor_simulation_tick` | the fault file; the callbacks read its values; the main loop's arrow keys write one |
| Property callbacks | `main.py` 299-583 | none of their own | six Get callbacks | called by the stack for a read |
| Set-up, main loop, signals | `main.py` 624-845 | `running`, the socket | start-up, one pass, shutdown | everything in the process |
| Interactive keys | `cas_example_helper.py` 435-556 | `_piped_keys`, `_restore_actions`, terminal modes | `_configure_input`, `poll_key`, the reader thread, `restore_input` | stdin |
| Transport | `simple_udp.py`, `cas_example_helper.py` 142-277 | the socket; the interface's addresses, read once | `on_receive`, `on_send`, `send_i_am` | the stack, the network |
| Command line | `cas_example_helper.py` 340-432 | none | `parse_*_arg`, help | `main` |
| Program harness | `wiretest/process.py` | the child process and its console | `start`, `wait_ready`, `press`, `stop` | the process's stdin and stdout |
| Confirmed client | `wiretest/client.py`, `endpoint.py` | invoke id, `frames` | `request` with `send_with_retries`, `wait_for` | the sensor, over UDP |
| Workstation | `wiretest/workstation.py` | `_responses`, `notifications`, one condition variable | background `_serve`, `request`, `wait_for_notification` | the device, over UDP |
| I-Am counter | `wiretest/process.py` 96-141 | a listener on the subnet's broadcast address, a console offset | `mark`, `counts` | the program's TX lines and what it broadcasts |
| Simulated devices | `wiretest/peer.py` | objects, priority arrays, settings, lists and counters of requests | background `_serve`, `_answer`, `_write`; `stop` | the program under test; the test's thread sets the settings |
| Control channels | `wiretest/control.py` | a socket, a file | `ask`, `send` | a program's test hook |
| Codec, services, alarms | `codec.py`, `services.py`, `alarm.py` | none | encoders and decoders | all of wiretest |
| Wire tests | `tests/*.py` | samples, verdicts | `main` of each | client, harness |

Where it is hard:

* **Two writers, no agreement.** The Simulation and the arrow keys both write the
  reading; Reliability says whether it can be trusted, and the keys do not look.
* **A clock read once per pass.** Everything the Simulation does happens in the
  first pass of a new whole second. How late that pass is decides how late a
  fault is noticed, whether a second is skipped, and what two samples can differ by.
* **Answers told apart by one octet.** Invoke ids wrap at 256; late, repeated and
  reordered answers carry only that.
* **Threads.** The reader thread of a piped Windows stdin against `poll_key`;
  `_serve` against any number of requesters and a watcher behind one condition.
* **Signals at any statement**, during start-up, in a pass and in the finally clause.
* **Settings read more than once.** A simulated server looks at `mode` up to four times
  for one write, and at `failures` and `whole_arrays_refused` once each, while the test
  assigns to them from its own thread without a lock.
* **Nesting.** In BACnet's constructed values the tag numbers start again: a decoder
  finds its fields by counting opening and closing tags.
* **Addresses kept.** The send callback remembers the interface's address; the stack
  asks for a broadcast by naming the address it was last heard from.
* **Failure half-way through set-up**, with the socket already bound.
* **A stack that invents values** for reads the callbacks decline.
* **Tests with time in them.** A verdict is wrong when the model of time behind
  it is; several of the disagreements below are of this kind.

What makes each part correct:

* *Simulation*: the reading stays in reach of its range, inputs keep time with the
  clock, a fault is noticed in bounded time, and a broken sensor never moves by itself.
* *Callbacks*: each listed property reads as a value the example means, and a
  broken wire reaches the client.
* *Process*: it ends when told to, in any state, leaves the terminal as it was,
  and is announced only when complete.
* *Keys*: commands are those typed, in order, none lost.
* *Client and workstation*: an answer is for the request it is returned to, is not
  older than the request, and nobody sleeps through it.
* *Transport*: a reply goes to the address the request came from, and what is meant for
  the subnet goes to its broadcast address.
* *I-Am counter*: it counts what was broadcast between its two calls, nothing else.
* *Simulated devices*: the answer is the one the settings call for, every request is
  answered or counted, and a commanded object is a priority array at every moment.
* *Codec*: what is decoded is what was encoded.
* *Tests*: a correct sensor is never failed.

## 2. Modules

```
SensorSimulation --+-- SensingTest -----+
                   +-- FailureModesTest +-- SensorSimulationProofs
                   +-- SensorDevice -+--+
                                     +-- MCSensorDevice
RequestReply  <==implemented by== ConfirmedRequest -- ConfirmedRequestProofs
              <==implemented by== Workstation (once per calling thread) -- WorkstationProofs
Keyboard -- SensorProcess -- SensorProcessProofs
Codec -+- Services -+- SimulatedServer -- SimulatedServerPromises -+- MCSimulatedServer
       |            |                                              +- SimulatedServerProofs
       |            |                      ==implements (per object)==> CommandableProperty
       |            +- CodecProofs (which SimulatedServerProofs extends)
       +- Transport -+- MCTransport
                     +- TransportProofs
SimulationControl
Counting (lemmas on numbers, for the proofs)
```

**SensorSimulation.** Time is counted in quanta, `Quanta` to the second, from
`_simulation_started`. `Advance` is the passing of a quantum; `age` is how long
the last call of the tick is ago and never exceeds `MaxPass`, the longest pass.
`SensorSimulationTick` is one call: `FirstCall`, `SameSecond` (the early return) or
`NewSecond` (wire, reading, inputs, in that order). `ChangeWire` creates or removes
the fault file at any time. `ArrowUp` and `ArrowDown` are the main loop's key
branches. The reading is in tenths of a degree. Floats enter in one place: 0.5 is
exact but 1.1 is not, so once a key has been pressed a comparison with an end of
the range may go either way when the decimal value equals it (`Ties`).

**SensingTest** and **FailureModesTest** extend it with the test's own control:
`observe` (three reads, one after the other, then a sleep until the next sample is
due), and the broken-wire test (`readings_over`, `wait_until`, break, repair). Each read
is asked for, served and answered in three steps with time between them, and the deadline
is looked at and the sleep begins when it has been answered. In SensingTest an attempt takes up
to `PeerDelay`, and each retry a `RequestTimeout` more, whether it is the request that was lost
or the answer; in FailureModesTest `ReadQuanta` bounds the whole read. The verdicts the tests
print are properties.

**SensorDevice** is what a client can read: the set-up calls (any of which may
fail), the callbacks over the Simulation's values, and around them the stack as
`main.py` 299-366 and its documents describe it: unknown objects and unlisted
properties are errors, the callback of the property's datatype is asked, and a
callback with no opinion gets a value invented, or read-access-denied for the few
properties the stack refuses to invent. `--deviceID` and `--deviceName` are parsed
from options given more than once. A string is what it says and how many bytes long.

**RequestReply** is the abstract service a wire test relies on: one request at a
time, which returns unanswered or with the state the server was in at some moment
between call and return. **ConfirmedRequest** is `Client.request`: invoke ids,
attempts, and a network that loses, delays, repeats and reorders datagrams. A
datagram carries a history variable `n`, the request it belongs to, which the code does not
see and the refinement mapping does.

**Workstation** has the background thread and any number of callers. An action is
what a thread does while it holds the lock, or one datagram sent or received
without it: `ReceiveResponse`, `ReceiveNotification`, `AnswerNotification`;
`Request`, `Send`, `TakeResponse`, `Sleep`, `Expire`, `AttemptFails`; `Watch`,
`StopWatching`. The thread's reading of the socket and its append under the lock
are one action: between the two nobody else can see what it read. The network of this
module loses and delays datagrams but does not repeat them: LeftoversBounded counts one
answer to each attempt.

**Keyboard** has the four kinds of stdin `_configure_input` tells apart. A key is
its bytes; `PollKey` is one call of `poll_key` (its first call configures the
terminal and may raise), `ReadPiped` and `QueuePiped` the two steps of the reader
thread. **SensorProcess** adds `main()` from loading the stack to exit, the two
signals, and the harness that starts, types into and stops it.

**Codec** and **Services** have no state. A datagram is its BVLC function and its NPDU,
an NPDU its fields in their order under the control bits that announce them, and
service parameters a sequence of tags, each with its number, its class and its kind
(value, opening, closing); what is inside one tag is abstract. Encoders concatenate
and parsers find their way as the code does, by tag number and depth; lists the code
builds by slicing are sequences here. The lengths in front of strings are modelled
apart, as the octets that tell them. Codec is `codec.py` as far as the
simulated devices and the Who-Is use it; Services is `alarm.py`'s EventNotification
and its encoder, and the landing calls of `services.py`.

**SimulatedServer** is both classes of `peer.py`. The serving thread takes one step
from one read of a setting to the next: `Receive` (`_serve`, with the lists that grow
under the lock), `CheckFailures` (`_answer` up to the failures), `Admit` (the write kept,
the look at `mode`), `Serve` (a read, an RPM, the Device object, a Who-Is), `CheckNull`,
`Accept` and `CommandSlot` (`_write`). `SetMode`, `SetFailure` and `RefuseWhole` are the
test's thread, at any moment; `Ending` is `stop()`. A request is encoded by Codec as a
client encodes it, the thread decodes it, and the reply is encoded again.
**SimulatedServerPromises** states the answer a second time, from the request as it was
asked and the objects as they are, without frames, tags or threads (`Expected`), and the
answer as `client.py` reads it (`Said`). **CommandableProperty** is the abstract object:
`Command` and `Relinquish` change a slot and the Present_Value in one step, and the
winner is the highest slot filled or the value the object was made with.

**Transport** is the one socket. `Send` is `on_send` with `SimpleUDP.send`: the
destination (`Destination`), the TX line, which is written whether or not the datagram
could be sent, and the datagram, which comes back to this socket and to the counter's
listener when it went to their address. `Receive` is `on_receive` with what the stack
makes of a Who-Is; `Bind` is the stack's own broadcast, which it asks for by this
device's own address. `Move` gives the interface another address. `Open`, `Mark` (three
steps) and `Count` (two steps) are `IAmBroadcasts`.

**SimulationControl** is `ask()`: drain, send, receive, and send again, over a network
that delays and loses. The program that answers is not part of the repository.

## 3. Runs

All runs finish with two workers in under two minutes. No run checks for deadlock: in every
one the system may really stop. The clock has a last second (`Horizon`), a test ends, a
process exits, a server is stopped, and the requests, arrivals and commands are bounded.
What must not stop is stated as a liveness property instead (RequestReturns,
StopEndsTheProcess, StopCloses).

| Run | Module | Checks | States |
|---|---|---|---|
| `device` | MCSensorDevice | TypeOK, ReadingInReach, InputsKeepTime, FaultNoticedInTime, BrokenWireMovesNothing, DeviceTypeOK, NothingInvented, FaultServed, StatesHaveTexts | 646,284 |
| `sensing` | SensingTest | StepsWithinTwo, HeldAboutThreeSeconds, NoStateSleptThrough | 16,435,308 |
| `failure_modes` | FailureModesTest | FaultSeenInTime, FrozenWhileWatched, HealthyReadingMoves | 13,882,679 |
| `request` | ConfirmedRequest | TypeOK, ServesRequestReply, ReadsNeverGoBack, RequestReturns | 26,562 |
| `workstation` | Workstation | TypeOK, NoLostWakeup, LeftoversBounded, ServesRequestReply | 1,202,526 |
| `process` | SensorProcess | TypeOK, CommandsInOrder, EveryKeyHeard, TerminalLeftAsFound, TestedSensorIsComplete, StopIsGraceful, NoSignalEndsAPass, StopEndsTheProcess | 28,528 |
| `server` | MCSimulatedServer | ServerTypeOK, SettingsDecide, RequestsAccountedFor, ServicesReadBack, ServesCommandable, StopCloses | 228,524 |
| `transport` | MCTransport | RepliesReachTheClient, SubnetHears, WireCountsAnnouncements | 1,331,320 |

Bounds, and why they are enough:

* `device`: 27 s take the ramp from 21.5 through 26.0 and down to 18.0 and up
  again; one press of each key puts the reading off the half-degree grid; passes of
  two half-seconds reach every lateness the code tells apart (none, some, a whole second).
  Options are given up to twice, from both sides of the boundaries of their ranges.
* `sensing`: 8 s hold two toggles of Binary Input 1 and two steps of Multi-State Input 1.
  Quanta of an eighth of a second; samples are half a second apart as in the test, passes and
  the attempts of a read take up to a quantum each, a timeout (0.6 s) is rounded up to five, and
  `observe` begins at any moment of the period of a sample. Up to three reads are retried, in
  one sample or in several, or one read three times, which is all it may be. Without retries that is the most the verdict on
  the time a state is held allows: a pass, a sample and four reads may take a second between
  them (HeldAboutThree). Slower ones, and retries of more than one read, fail a correct
  sensor, see below.
* `failure_modes`: quanta of a twentieth of a second, so that the sleep between reads (five),
  the interval of `wait_until` (four), the watch (50) and the wait (60) are what they are in the
  test; it starts at any moment of the first 9 s, which moves its windows over a turning point,
  and 27 s see it to its end. Passes and reads last up to a quarter of a second, which is
  the most HealthySeenToMove allows: a sleep, two reads and a pass make a second. With
  passes of 12 quanta and reads of 2 TLC finds a peak that no read sees. A read that
  is retried (up to 1.8 s more) is outside these bounds, see below.
* `request`: 4 requests over 3 invoke ids: the id wraps while a datagram of an
  older request may still be under way. One change of the server tells old from new.
* `workstation`: 3 requests by two threads over 2 invoke ids, one resend each, one
  event; the watcher's mark may be taken at any earlier moment.
* `process`: two typed keys besides the harness's `q`, both signals, every stdin.
  Keys are typed in a hurry only where that is harmless (console, Windows pipe);
  on POSIX it is not, see `lost_key`.
* `server`: every two of 30 requests, so that a value written, commanded or relinquished
  is read back or written over by another slot; two changes of the settings, so that one
  may be undone while a request is in hand. The 30 are the ones the code tells apart: each
  service, each kind of object, array indices 0, the last and one past the end, slots
  8 and 16 and the default, NULL and a value, routed and not, broadcast and not. The
  notifications carry each optional field and lack it; the landing calls likewise.
* `transport`: two datagrams, each a Who-Is, short or too long, to the device or the subnet,
  or another device's I-Am, from clients whose ports differ in either octet, one of them
  on this host; a send or a receive that fails; one new address; two
  TX lines between `mark` and `counts` in all orders with the steps of the stack.

What a pass shows. `device`: whatever the schedule, the ramp turns round, the inputs show
the clock if no pass exceeds a second, a wire that has been as it is for a second plus
one pass is reported, no listed property is an error or is invented unless
`docs/objects.json` accepts it, and a fault reaches Reliability and FAULT.
`sensing` and
`failure_modes`: under the stated delays a correct sensor passes, except for the one step
that `step_count_fits` lacks. `request` and
`workstation`: nobody ever gets another request's answer or an answer from before the
request. `process`: every stop ends the process, without a kill, with the terminal as
found. `server`: as long as the test leaves the settings alone while a request is in hand
the answer is the one they call for and comes back the way the request came; however they
change, no request is lost from the books, and a commanded object is never seen
without its winner. `transport`: replies reach the client and broadcasts the subnet,
and the counter's count on the wire lies between what was broadcast between its calls
for certain and at most.

### Disagreements between the code and what it says

| Run | Property | Shows |
|---|---|---|
| `ready_line` | TestingMeansReady | `process.py:59` finds "ready" in "Address al**ready** in use": `start()` returns a program that has exited. The port must be held by a socket without SO_REUSEADDR, as `SimpleUDP` sets that |
| `lost_key` | EveryKeyHeard | `cas_example_helper.py:537` reads three bytes on POSIX and drops all letters but the first |
| `null_stored` | NullChangesNothing | `peer.py:195-197` promises that a NULL written to a property that is not commanded changes nothing; when `mode` becomes "offline" between the looks at it in 294 and 372, line 391 stores the NULL, and it stays |
| `late_answer` | AnswersThisCommand | `control.py:42` drops late answers "so it is not taken for this one's"; the answer to a repeated command may still be under way then, and is taken for the next command's |

Seen while modelling, without a run of their own:

* Simulation: `main.py:238` says the reading freezes while the wire is broken; an arrow
  key moves it (834). `main.py:231-232` promises toggles every 3 s, which passes longer
  than a second break, as the second is skipped.
* Wire tests: `sensing_test.py:117-121` judges the order of the third reads by the times of
  the first. A sample whose third read has been retried is not known by them, so the guard of
  line 121 (`MULTI_STATE_INPUT_STEP_SECONDS` between the first reads) does not keep such
  a pair from being judged. As long as all retries take four seconds at most less a
  pass, a sample and four reads, no state is slept through and the verdict is right with or
  without the guard (NoStateSleptThrough); the three retries of one read stay within that. With
  `MaxLost = 25` or more (five retries, those of two reads of one sample) TLC finds two samples
  asked for half a second apart that show states 1 and 3: a correct sensor is called out of order.
  `step_count_fits` (`sensing_test.py:50-54`) allows one step more than whole
  seconds, and a late tick followed by a punctual one makes two (StepsWithinTwo states
  what does hold). `failure_modes_test.py:40`: the 0.25 s are slept after each read, so two
  reads may be served a sleep and two reads apart; a retried read can hide the rise and fall
  at a turning point (50), and passes near a second hide it too.
* Command line: an invalid `--port` is announced as replaced by the default even when a
  later `--port` is used (`cas_example_helper.py:379-388`).
* Transport: `endpoint.py:83` says `common/` sets SO_EXCLUSIVEADDRUSE, while
  `simple_udp.py:54` sets SO_REUSEADDR. A send that fails is printed as "TX 0 bytes", and
  the TX line never contains "I-Am", so the console count of `IAmBroadcasts`
  (`process.py:97-100`) is always 0 with this program.
* Codec: `application_character_string` has one octet for the length: a text of 254 or 255
  octets (with its character set) is read back as the announcement of a longer length,
  and one of 256 raises (CharacterStringLength is proved up to 253).
* Simulated devices: a priority above 16 raises IndexError in the serving thread, which
  ends it, and 0 is taken for 16. A ReadPropertyMultiple that names an object twice is
  answered for the second naming only, and array indices in it are dropped; the array
  index of a WriteProperty is ignored. `requests_while_offline` counts the three services
  the class knows and no others; `write_requests` misses the writes a failure answered;
  "refusing" still answers UNKNOWN_OBJECT for an object that is not there.

## 4. Fairness and the environment

`ConfirmedRequest` assumes WF of `TimeOut` only: `wait_for` computes a deadline, so an
attempt ends whatever arrives or does not. Nothing is assumed of the network, and
RequestReturns needs nothing. `SensorProcess` assumes that the process is scheduled
(WF of `Main` and of the reader thread) and that the harness takes its next step
(WF of `StopWithQ`, `Stopped`, `Kill`: `Program.stop` is straight-line code).
Signals and typing are not fair. `Kill` happens to a process that has not come up in
the 20 s of `start` and the 5 s of `Program.stop`, and would happen to one whose loop
goes on after everything typed has been read: the assumption is that 5 s are enough
for a loop with a millisecond's sleep to hear one key. `SimulatedServer`
assumes that its thread goes on while it has a request in hand (`_answer` and `_write` are
straight-line code) and that it looks at `_running` again and again (`select` waits 0.1 s);
datagrams that select saw before `stop()` may still be answered first, and that they come
to an end is the bound on requests. Nothing is assumed of the test's thread but that `stop()`, once called,
goes on to close what the thread has left. The two seconds it waits for the thread are
taken as enough. The other specifications state safety only.

Assumed of the environment, by name where it is a constant:

* `MaxAge <= Modulus` (MaxAgeAssumption): no datagram outlives a whole round of 256
  invoke ids. Without it request/reply fails, as it must with any protocol of this kind.
* A workstation that is silent, an unconfirmed notification and a lost
  acknowledgement have one outcome and are one action. The workstation's server
  does not change state: answers are told apart by their request.
* A key's bytes arrive together. stdin is not closed.
* The stack serves what an object lists and falls back as described in `main.py`; it takes
  one datagram a tick, answers a Who-Is where it came from or, when it was broadcast, on
  the subnet, and binds addresses by a broadcast Who-Is.
* A datagram sent to the subnet, or to this host, is heard by the sockets bound there.
  Clients have an address of their own and not one that stands for a subnet
  (AddressesAssumption).
* Requests to a simulated server are those the clients of this package encode: well formed,
  unsegmented, with a priority between 1 and 16 or none, and what is written closes what
  it opens (RequestsAssumption).
* `None`, the argument that is not given, is not one of the values it stands beside: an
  APDU type (NoneAssumption), an instance (InstancesAssumption), a request, an object or a
  failure (RequestsAssumption, SettingsAssumption), and a sample not taken is none of the
  samples (NoSampleAssumption).

Hypotheses of theorems, not of the modules, because the properties are of interest without
them too: StopHeard, SensorProcessProofs!Inductive and the theorems on keys take OneKeyAtATime (keys are typed in a
hurry only where a read takes one key: a Windows console or pipe), which `lost_key` shows to be
needed; so do TerminalRestored and PassesFinish, as a process whose `q` is lost is killed; the
theorems about the two tests take inequalities between their delays, see below. SettingsDecideAnswers
and ServicesAreReadBack take AsClientsSend: an index is a number, a NULL is written alone, a range
has both its limits or none, a ReadPropertyMultiple names an object once (a second naming takes the
place of the first, see above), what is served and written closes what it opens, and a property whose
elements are asked for, of a server that answers them, holds one tag per element; and None is not an
APDU or a datagram (NoneIsNothing). ServicesAreReadBack takes AsWritten too: a time stamp is a date
and a time, and a landing call that has a direction has no destination, which `landing_call_status`
insists on. The objects, requests and landing calls of `server` are such.

`Transport` has one variable the code does not have: `steady` is whether the interface has
kept the address that was read at the start. What the code promises of the subnet it
promises only then; an interface that comes back to its first address after two moves
does not restore it, because the stack may have kept an address of the time between.

## 5. Proofs

Seven modules hold the theorems, one of them (`CodecProofs`) those about the encoders and parsers
that SimulatedServerProofs builds on, and an eighth (`Counting`) the lemmas on numbers that several
of them cite. Each theorem holds for every value of the constants that the named assumptions
allow. Those that state a property of a run:

| Theorem | Property | For every |
|---|---|---|
| SensorSimulationProofs!TypeCorrect | TypeOK | |
| SensorSimulationProofs!FaultNoticed | FaultNoticedInTime | clock resolution and longest pass |
| SensorSimulationProofs!KeepTime | InputsKeepTime | |
| SensorSimulationProofs!InReach | ReadingInReach | number of key presses |
| SensorSimulationProofs!BrokenMovesNothing | BrokenWireMovesNothing | |
| SensorSimulationProofs!ReadingsWithinTwo | StepsWithinTwo | delay of passes and reads, retries, start of the test |
| SensorSimulationProofs!NoStateMissed | NoStateSleptThrough | delays and retries within four seconds |
| SensorSimulationProofs!HeldAboutThree | HeldAboutThreeSeconds | delays within a second |
| SensorSimulationProofs!FaultSeen, BrokenReadingFrozen | FaultSeenInTime, FrozenWhileWatched | wait of a second, the longest pass and read |
| SensorSimulationProofs!HealthySeenToMove | HealthyReadingMoves | watch longer than that by a read, with a sleep, two reads and a pass within a second |
| SensorSimulationProofs!DeviceTypeCorrect | DeviceTypeOK | command line and failing call |
| SensorSimulationProofs!NoneInvented | NothingInvented | command line and schedule |
| SensorSimulationProofs!FaultReachesClient | FaultServed | clock resolution and longest pass |
| SensorSimulationProofs!TextsServed | StatesHaveTexts | |
| SensorProcessProofs!TypeCorrect | TypeOK | sequence of keys and signals, kind of stdin |
| SensorProcessProofs!TestedIsComplete | TestedSensorIsComplete | |
| SensorProcessProofs!TerminalRestored | TerminalLeftAsFound | kind of stdin, moment of a signal |
| SensorProcessProofs!StopHeard | StopIsGraceful | keys, one at a time |
| SensorProcessProofs!PassesFinish | NoSignalEndsAPass | |
| SensorProcessProofs!KeysInOrder, NoKeyLost | CommandsInOrder, EveryKeyHeard | number of keys; POSIX, one at a time |
| ConfirmedRequestProofs!TypeCorrect | TypeOK | |
| ConfirmedRequestProofs!Refinement | ServesRequestReply | number of ids, retries, changes |
| ConfirmedRequestProofs!NeverBack | ReadsNeverGoBack | |
| WorkstationProofs!TypeCorrect | TypeOK | number of threads |
| WorkstationProofs!NothingSleptThrough | NoLostWakeup | number of threads |
| WorkstationProofs!KeptBounded | LeftoversBounded | number of threads, ids, retries |
| WorkstationProofs!Refinement | ServesRequestReply | calling thread, of any number |
| SimulatedServerProofs!ServerTypeCorrect | ServerTypeOK | objects and requests |
| SimulatedServerProofs!NoneLostFromBooks | RequestsAccountedFor | changes of the settings |
| SimulatedServerProofs!CommandablePromiseKept | ServesCommandable | object, slot and value |
| SimulatedServerProofs!SettingsDecideAnswers | SettingsDecide | objects, requests, settings and changes of them |
| SimulatedServerProofs!ServicesAreReadBack | ServicesReadBack | notification, list of landing calls, change of the settings |
| TransportProofs!AnswersReachTheClient | RepliesReachTheClient | address, port, failure and move |
| TransportProofs!BroadcastsReachTheSubnet | SubnetHears | address |
| TransportProofs!CountAgrees | WireCountsAnnouncements | number of announcements |

Theorems about operators and about a module as a whole: OctetStringLength (lengths up to
65535), CharacterStringLength (up to 253), UnicastDestination (every address and port),
WriteReadBack, ReadReadBack and AckReadBack (every value, index and priority), NotificationReadBack
(every notification), MultipleReadBack and MultipleAckReadBack (every list of objects, of properties
of each, and of values), LandingCallsReadBack (every list of landing calls), RunsSimulation (the device implements the Simulation), KeysAccountedFor, and
the inductive invariants.

*Simulation.* FaultNoticedInTime is not inductive: it says nothing until the wire is
old enough. The invariant relates three ages: as long as the current second has not
been dealt with, the last call of the tick is at least as old as the second
(otherwise that call would have dealt with it), and if Reliability does not report
the wire then the wire changed after the second last dealt with began, so it is
younger than the rest of that second plus the time since. `age <= MaxPass` then
bounds it. InputsKeepTime needs that no second is skipped: with passes of at most a
second the last second dealt with is the current one or the one before.
ReadingInReach needs the direction: the reading is beyond an end by less than a
step plus what the keys added, whichever way the ties fall.

*Sensing test.* ReadingsWithinTwo needs no hypothesis on the delays. Its invariant (StepsInv)
follows a reading on its way into a sample: since a sample was asked for, the reading has
moved by at most one step per second, counted from the second in which it was asked for (or
a later one) to the last second dealt with (Far). The first of those seconds may have begun
before the sample was asked for and been dealt with after it, which is why two steps more
than whole seconds are possible and `step_count_fits` allows one too few. For the other two
verdicts the invariants (OrderInv, HoldInv) say when what a sample shows was served: `Dealt`,
the second last dealt with is at most a second and a pass behind; `Paced`, the next sample comes
within its period, the delays still to come and what was lost to retries. From MaxPass +
SampleQuanta + 4 PeerDelay + MaxLost <= 4 Quanta no step of Multi-State Input 1 goes unseen
between two samples (and passes of a second at most skip none), hence NoStateMissed; from
MaxPass + SampleQuanta + 4 PeerDelay <= Quanta + 1 the samples that show two toggles in a row
lie, while nothing was lost, within a second of three seconds apart, hence HeldAboutThree.

*Failure modes test.* While the test waits, the wire is at least as old as the wait
(WireInHand), so FaultNoticed's argument ends the wait; once OPEN_LOOP has been read the only
reading seen is the one that stays (Frozen). HealthySeenToMove follows one reading: either no
tick has moved it since it was seen, or it was moved so lately that the next read is served
before the next tick (SeenOnce); a watch as long as a second, a pass and two reads then
contains a move between two reads. `Unserved` is the time since a read was last served, at most
a sleep and two reads: the one that was served at once and returned late, and the one that is
served late. The last read of a wait, too, may be served a read before the deadline is looked at,
so the wait must be longer by that.

*Device.* Every step of the device is one of the Simulation or changes nothing of it
(RunsSimulation), so FaultReachesClient is FaultNoticed and the code of the callbacks. What has
been added and enabled is what the set-up calls made so far add and enable, and nothing is
enabled before the objects are there (SetUpInv); serving means that all eight have been made,
so that each listed property is in reach of its callback (Complete).

*Process.* SetUpInv says for each place of `main()` which calls have been made, what has been
printed and which handlers are installed. UndoInv is the reason for the terminal:
whatever is not as it was found has its undoing on `_restore_actions`, in the order in which it
was changed. For StopHeard the `q` of `stop()` is followed through stdin, the reader thread's
hand and the queue until the loop has heard it (QuitInv); on POSIX this needs that what waits in
stdin is the bytes of one key, on a console whole keys (BytesInv). For the keys the invariant is
one of accounts (HeardInv): what was heard and what is queued are what the first k keys mean,
and what waits in stdin is the bytes of the others, for any keys on any stdin, those typed
in a hurry on POSIX excepted.

*Request.* The invariant says of every datagram that its id is its request's number
modulo `Modulus`, that it is younger than `MaxAge` requests, and that an answer to
the request under way says a version the server had since the call. Two requests
less than `Modulus` apart have different ids, so a match by id is a match by
request, which is the refinement's only hard step (`Receive`).

*Workstation.* NumberInv says the same of all threads' requests, with one difference: an
answer that is kept does not age, it may only not be overtaken by a request with its id
(Latest), which holds because `request()` discards what is kept under its id first. Own says
that the request a thread waits for is the last it has made. NoLostWakeup needs SentInv and the
lock only. LeftoversBounded is deeper: a frame under way is in one place, on its way there, on
its way back or kept, and was sent no later than the last of its request (SingleInv), so that
at most 1 + Retries answers to one request are ever kept.

*Simulated server.* The frame in hand is that of the request asked (FrameIsAsked), and
parse_write_property_request finds in it what was put there: counting opening and closing tags
from behind [3] the depth falls below zero for the first time at the closing [3], because the
value in between closes what it opens (InsideIsWhole, WriteReadBack). From there the books are
a matter of cases (RequestsAccountedFor with BooksWithin). In the refinement the mapping hides
the value stored between `Accept` and `CommandSlot`; at every other moment the Present_Value
is the winner of its slots (WinnerHeld). SettingsDecideAnswers says for each place of the thread what
its looks at the settings have told it, as long as they were left alone (FoundOut): the failure
that is set, that the server is not offline, that the write does not merely relinquish, that
it was accepted. The last is stated without the store (Accepted), because the answer to a
write is judged by the objects as they are once it is done. What is served stays complete,
also while the value stored is not yet the winner (StorePlain), so that the ACK reads back
(AckReadBack); RouteBack and Frame are inverse to each other (BackFrame). A notification is put
together from six parts. The depths behind the tags of one part are not changed by what stands
behind it, nor by what stands before it as long as that closes all it opens (DepthsOfBoth), so
the fields of the whole are those of its parts (FieldsOfBoth), a constructed value has none of
its own (NestedFields), and the only tag 3 opened at the first level is that of the time stamp
(StampPut, StampKept): the [0] to [3] inside the event values are not taken for the process,
device, object and time stamp of the notification (NotificationReadBack).

*Lists of any length.* A ReadPropertyMultiple, its ACK and a property full of landing calls are
parts laid one behind another, as many as there are (Laid, Flattened: where each part begins
in the whole, and that each position is in exactly one of them). As each part closes what it opens,
a depth in the whole is the depth in its part (LaidOn). What a parser looks for, the [0] that
starts a part, is then found once in every part and nowhere else, and a set of positions, put in
order, is the list it was made from when that list ascends (InOrderIs). The [1] of a specification
encloses a list of references that is laid in the same way, so the argument is made twice, inside and
outside (EachRead, AskedFor); an object that is named once is the first and the last of its name, which
is where the dict of `read_access_specifications` needs EachOnce. In an ACK each outcome is told by the
last [0] and the last [2] before it, at their depths: its own object and its own property, because
a value in between closes what it opens (AllTold). A landing call ends where the next floor number
stands, so that a field is the last of its number up to there (CallsRead). With these, ServesMultiple
says of the whole way from request to results what SettingsDecide asks of it.
ServicesReadBack says nothing of the settings being left alone, so it cannot follow from
SettingsDecide: its invariant (WholeRead) says that once a read without an index is answered the
answer is a refusal, the malformed value or all that is served, whichever of the thread's looks at
the settings told it what.

*Transport.* While the interface keeps its address, the only address the stack takes for its own
is that one, and everything meant for the subnet goes where the counter listens (OneAddress);
HeardSinceMark then counts, step by step of `mark` and `counts`, the I-Ams in the listener's
queue against those announced. That no datagram leaves for the subnet by way of a client's
address needs that clients' addresses do not stand for a subnet.

*Encoding.* These are theorems about operators and need no invariant: the number is put
together from two octets as it was taken apart (`TwoOctets`), and the case distinctions of
the writer and of the reader meet at the same lengths, 5 and 254. A connection string is
long enough for an address, its first four octets are the address and its last two the
port, high octet first, so that `Destination` finds the address it was built from.

*Induction.* The library's induction theorems take an operator as a parameter, which no backend
can instantiate. Where a fact is carried from one length of a list to the next, the proofs take
the least number of a set that lacks it (LeastMember, UpTo), and what the code computes in a
loop is written as a recursive function or as a count.

Only model-checked: all liveness (RequestReturns, StopEndsTheProcess, StopCloses), as its
proofs need ENABLED. Every invariant and action property of the passing runs, and each refinement,
is stated by a theorem. What the four runs that expect a violation say is false, so there is nothing
to prove of it. No module declares a RECURSIVE operator.

## 6. Not modelled, and the plan

Not modelled, and why:

* result printing, constants, packaging, documents: data or wording only;
* the stack's own properties and services: they are not in the repository;
* `decode_application`, `parse_event_summaries`, the BVLL tables, and the encoders of
  services no device of this repository answers (subscriptions, lists, alarms
  acknowledged, objects created): each is one concatenation or one loop over tags like
  the ones in Codec, and nothing in the repository calls most of them;
* overridden hooks (`check_write`, `on_write`), values that are callables, `send` and
  `announce` of the simulated devices: no test of this repository uses them;
* `CommandFile`: it appends lines to a file read by a program outside the repository;
* `who_is`, `collect`, `clear`, `close` and the unconfirmed sends of the clients: they do
  not wait for an answer of their own, or wait for a quiet moment only;
* discovery and configuration tests beyond the requests and starts they are made of.

What is left: the three liveness properties, which need ENABLED; the same promises for requests that
no client of this package sends (an object named twice, a half-open range, a priority out of
1..16), where the code does something else, as told in section 3; and the codec of the services
left out above.
