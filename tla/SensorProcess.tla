----------------------------- MODULE SensorProcess -----------------------------
(***************************************************************************)
(* The life of one run of main.py, from loading the stack to exiting, with *)
(* the signals it may get at any moment and the harness that starts and    *)
(* stops it (wiretest/process.py: Program and start).  The keys are those  *)
(* of Keyboard; what the stack and the Simulation do in a pass is modelled *)
(* elsewhere, here they are steps that take time.                          *)
(***************************************************************************)
EXTENDS Keyboard

CONSTANTS
  BindErrors,  \* what binding the UDP port may fail with; {} if it is free
  Signals      \* the signals that may be sent, each once

\* What the operating system says of a bind() that fails.
AddressInUse == "Address already in use"
PermissionDenied == "Permission denied"

ASSUME BindErrorsAssumption == BindErrors \subseteq {AddressInUse, PermissionDenied}
ASSUME SignalsAssumption == Signals \subseteq {"SIGINT", "SIGTERM"}

VARIABLES
  pc,        \* where main() is
  setUp,     \* how many of SetupCalls have succeeded
  bound,     \* the UDP socket is bound to the port
  handled,   \* the signals stop_running is installed for
  running,   \* running[0]
  log,       \* the lines on the console that anything depends on
  exit,      \* how the process ended, "none" while it runs
  pending,   \* the signals still to come
  harness    \* where the test that started the process is

mainVars == <<pc, setUp, bound, handled, running, log, exit>>
processVars == <<keyboardVars, mainVars, pending, harness>>

SetupCalls ==
  <<"AddDevice", "ReadProperty", "WhoIs", "IAm", "WhoHas", "IHave", "AnalogInput",
    "BinaryInput", "MultiStateInput", "NetworkPort", "Description", "StateText",
    "Reliability">>

READY == "ready. Vendor ID"

ContainsReady(line) == line \in {READY, AddressInUse}

LoopSteps == {"loop", "tick", "simulate", "poll", "sleep"}

Exit(code) == pc' = "exited" /\ exit' = code

-----------------------------------------------------------------------------
\* main(): start-up.  Whatever fails ends the process with exit code 1.

Load ==
  /\ pc = "load"
  /\ \/ Exit("0")                          \* --help or --version
     \/ Exit("1")                          \* no stack library
     \/ pc' = "bind" /\ UNCHANGED exit
  /\ UNCHANGED <<keyboardVars, setUp, bound, handled, running, log>>

SetupUdp ==
  /\ pc = "bind"
  /\ \/ \E error \in BindErrors :
           Exit("1") /\ log' = log \union {error} /\ UNCHANGED bound
     \/ /\ AddressInUse \notin BindErrors
        /\ bound' = TRUE /\ pc' = "settingUp"
        /\ UNCHANGED <<log, exit>>
  /\ UNCHANGED <<keyboardVars, setUp, handled, running>>

\* Mutants: one call too few, one too many.
LastButOne == setUp + 2 = Len(SetupCalls)
OneMore == setUp = Len(SetupCalls)
LastCall == setUp + 1 = Len(SetupCalls)

\* One of the calls that give the stack its device, services, objects and
\* optional properties.
SetUpStack ==
  /\ pc = "settingUp"
  /\ \/ Exit("1") /\ UNCHANGED setUp
     \/ /\ setUp' = setUp + 1
        /\ pc' = IF LastCall THEN "announce" ELSE pc
        /\ UNCHANGED exit
  /\ UNCHANGED <<keyboardVars, bound, handled, running, log>>

\* send_i_am, which may fail, then the ready line.
Announce ==
  /\ pc = "announce"
  /\ log' = log \union {READY}
  /\ pc' = "handlers"
  /\ UNCHANGED <<keyboardVars, setUp, bound, handled, running, exit>>

\* Mutant: no handler for SIGTERM.
OnlySigint == handled = {}
HandlersMissing == handled # {"SIGINT", "SIGTERM"}

InstallHandlers ==
  /\ pc = "handlers"
  /\ IF HandlersMissing
     THEN handled' = (IF handled = {} THEN {"SIGINT"} ELSE handled \union {"SIGTERM"})
          /\ UNCHANGED pc
     ELSE pc' = "loop" /\ UNCHANGED handled
  /\ UNCHANGED <<keyboardVars, setUp, bound, running, log, exit>>

StartUp == Load \/ SetupUdp \/ SetUpStack \/ Announce \/ InstallHandlers

-----------------------------------------------------------------------------
\* main(): the loop and its finally clause

\* Mutant: the loop runs whatever running[0] says.
Always == TRUE
KeepRunning == running

LoopHead ==
  /\ pc = "loop"
  /\ pc' = IF KeepRunning THEN "tick" ELSE "restore"
  /\ UNCHANGED <<keyboardVars, setUp, bound, handled, running, log, exit>>

StackTick ==
  /\ pc = "tick" /\ pc' = "simulate"
  /\ UNCHANGED <<keyboardVars, setUp, bound, handled, running, log, exit>>

\* sensor_simulation_tick prints, and printing may raise.
Simulate ==
  /\ pc = "simulate"
  /\ \/ pc' = "poll" /\ UNCHANGED exit
     \/ pc' = "restore" /\ exit' = "raising"
  /\ UNCHANGED <<keyboardVars, setUp, bound, handled, running, log>>

\* Mutant: the loop does not act upon the key.
QuitIgnored == FALSE
QuitPressed == Len(commands') > Len(commands) /\ Last(commands') = "quit"

Poll ==
  /\ pc = "poll"
  /\ \/ PollKey /\ pc' = "sleep" /\ running' = (running /\ ~QuitPressed) /\ UNCHANGED exit
     \/ PollKeyRaises /\ pc' = "restore" /\ exit' = "raising" /\ UNCHANGED running
  /\ UNCHANGED <<setUp, bound, handled, log>>

Sleep ==
  /\ pc = "sleep" /\ pc' = "loop"
  /\ UNCHANGED <<keyboardVars, setUp, bound, handled, running, log, exit>>

Restore ==
  /\ pc = "restore" /\ pc' = "shutDown"
  /\ RestoreInput
  /\ UNCHANGED <<setUp, bound, handled, running, log, exit>>

ShutDown ==
  /\ pc = "shutDown"
  /\ bound' = FALSE
  /\ Exit(IF exit = "raising" THEN "1" ELSE "0")
  /\ UNCHANGED <<keyboardVars, setUp, handled, running, log>>

Main ==
  /\ \/ StartUp
     \/ LoopHead \/ StackTick \/ Simulate \/ Poll \/ Sleep
     \/ Restore \/ ShutDown
  /\ UNCHANGED <<pending, harness>>

-----------------------------------------------------------------------------
\* Signals.  One without a handler ends the process there and then: SIGTERM
\* by default, SIGINT by the KeyboardInterrupt nothing catches before the
\* handlers are installed.

Signal ==
  /\ pc # "exited"
  /\ \E signal \in pending :
        /\ pending' = pending \ {signal}
        /\ IF signal \in handled
           THEN running' = FALSE /\ UNCHANGED <<pc, exit>>
           ELSE Exit("signal") /\ UNCHANGED running
  /\ UNCHANGED <<keyboardVars, setUp, bound, handled, log, harness>>

-----------------------------------------------------------------------------
\* The harness: start(), press() and Program.stop()

HarnessStep(from, to) == harness = from /\ harness' = to

WaitReady ==
  /\ HarnessStep("starting", "testing")
  /\ \E line \in log : ContainsReady(line)
  /\ UNCHANGED <<keyboardVars, mainVars, pending>>

\* The process has ended, or 20 s have passed, without such a line: start()
\* stops the program and exits the test.
NeverReady ==
  /\ HarnessStep("starting", "givingUp")
  /\ \A line \in log : ~ContainsReady(line)
  /\ UNCHANGED <<keyboardVars, mainVars, pending>>

Press ==
  /\ harness = "testing"
  /\ TypeKey
  /\ UNCHANGED <<mainVars, pending, harness>>

\* stop() types a 'q' if the process still runs.
StopWithQ ==
  /\ unread # <<>> => stdin \in Hurried
  /\ \/ HarnessStep("testing", "stopping") \/ HarnessStep("givingUp", "stopping")
  /\ IF pc # "exited"
     THEN typed' = Append(typed, "q") /\ unread' = Append(unread, "q")
     ELSE UNCHANGED <<typed, unread>>
  /\ UNCHANGED <<stdin, inHand, pipedKeys, commands, terminalVars, mainVars, pending>>

Stopped ==
  /\ HarnessStep("stopping", "done")
  /\ pc = "exited"
  /\ UNCHANGED <<keyboardVars, mainVars, pending>>

\* The process still runs after 5 s.  It may: it has not come up in the 20 s of
\* start() either.  Once it is up, 5 s are enough for whatever has been typed to
\* be read and acted upon, so that one which loops then does so for good.
Kill ==
  /\ HarnessStep("stopping", "done")
  /\ \/ pc \in {"load", "bind", "settingUp"}
     \/ /\ pc \in LoopSteps /\ running
        /\ unread = <<>> /\ inHand = <<>> /\ pipedKeys = <<>>
  /\ Exit("killed")
  /\ UNCHANGED <<keyboardVars, setUp, bound, handled, running, log, pending>>

Harness == WaitReady \/ NeverReady \/ Press \/ StopWithQ \/ Stopped \/ Kill

-----------------------------------------------------------------------------

ProcessInit ==
  /\ KeyboardInit
  /\ pc = "load" /\ setUp = 0 /\ bound = FALSE
  /\ handled = {} /\ running = TRUE
  /\ log = {} /\ exit = "none"
  /\ pending = Signals
  /\ harness = "starting"

ProcessNext ==
  \/ Main
  \/ Signal
  \/ Harness
  \/ PipedThread /\ pc # "exited" /\ UNCHANGED <<mainVars, pending, harness>>

\* The process is scheduled, and the harness does what it waits for.
ProcessSpec ==
  /\ ProcessInit /\ [][ProcessNext]_processVars
  /\ WF_processVars(Main)
  /\ WF_processVars(StopWithQ) /\ WF_processVars(Stopped) /\ WF_processVars(Kill)
  /\ WF_processVars(PipedThread /\ pc # "exited" /\ UNCHANGED <<mainVars, pending, harness>>)

-----------------------------------------------------------------------------

\* Every variable stays in its type.
TypeOK ==
  /\ pc \in LoopSteps \union {"load", "bind", "settingUp", "announce", "handlers",
                              "restore", "shutDown", "exited"}
  /\ setUp \in 0..Len(SetupCalls)
  /\ bound \in BOOLEAN
  /\ handled \subseteq {"SIGINT", "SIGTERM"}
  /\ running \in BOOLEAN
  /\ log \subseteq {READY, AddressInUse, PermissionDenied}
  /\ exit \in {"none", "raising", "0", "1", "signal", "killed"}
  /\ pending \subseteq Signals
  /\ harness \in {"starting", "testing", "givingUp", "stopping", "done"}
  /\ configured \in BOOLEAN /\ blocking \in BOOLEAN /\ cooked \in BOOLEAN

\* However the process ends, stdin is left blocking and the terminal out of
\* cbreak mode, as they were found.
TerminalLeftAsFound == pc = "exited" => blocking /\ cooked

\* main.py:813, "finish this tick and exit, instead of dying mid-tick": no
\* signal ends the process once the loop runs, and the loop is left only
\* between two passes or by an exception.
NoSignalEndsAPass ==
  [][(pc \in LoopSteps /\ pc' \notin LoopSteps)
        => (pc = "loop" \/ exit' = "raising")]_processVars

\* The sensor a test is let loose on is set up completely, or has ended.
TestedSensorIsComplete ==
  harness = "testing" => pc = "exited" \/ (bound /\ setUp = Len(SetupCalls))

\* A process that has come up is never killed: stop() types one key, whatever
\* else has been typed, and the loop hears it.
StopIsGraceful == exit = "killed" => READY \notin log

\* Whatever state stop() finds the process in, the process ends.
StopEndsTheProcess == harness = "stopping" ~> harness = "done" /\ pc = "exited"

\* wiretest/process.py:87, start: "wait for its 'ready' line; exits the test
\* if it never comes".
TestingMeansReady == harness = "testing" => READY \in log
=============================================================================
