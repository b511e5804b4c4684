-------------------------- MODULE SensorProcessProofs --------------------------
(***************************************************************************)
(* What holds of every run of main.py, whatever is typed, whatever fails   *)
(* and whatever signals come: the types, that the sensor a test talks to   *)
(* is complete, and, where the harness waits for one key to be read before *)
(* it types the next, that stop() is heard, that no signal ends a pass of  *)
(* the loop and that the terminal is left as it was found.                 *)
(***************************************************************************)
EXTENDS SensorProcess, Counting, SequenceTheorems, TLAPS

\* On a POSIX terminal or pipe poll_key takes what has been typed since the
\* last call for one key, so that only a Windows harness may type ahead.
OneKeyAtATime == Hurried \subseteq {"windowsConsole", "windowsPipe"}

AllKeys  == {"h", "q", "up", "down", "F2", "other"}
AllBytes == {"h", "q", "other", "ESC", "[", "A", "B", "O", "Q", "E0", "00", "H", "P", "<"}
AllCommands == {"help", "quit", "up", "down"}

\* The types of what has been typed.
KeysTyped ==
  /\ stdin \in Stdins
  /\ typed \in Seq(AllKeys)
  /\ unread \in Seq(AllBytes)
  /\ inHand \in {<<>>} \union {<<byte>> : byte \in AllBytes}
  /\ pipedKeys \in Seq(AllCommands)
  /\ commands \in Seq(AllCommands)
  /\ restoreActions \in {<<>>, <<"flags">>, <<"flags", "attributes">>}

Types == TypeOK /\ KeysTyped

-----------------------------------------------------------------------------
\* The phases of main().  Input is configured by the loop, whose handlers are
\* all installed; the ready line is printed after set-up and before them.

Starting == {"load", "bind", "settingUp", "announce", "handlers"}
Closing  == {"restore", "shutDown"}

SetUpInv ==
  /\ pc \in {"load", "bind"} => setUp = 0
  /\ pc = "settingUp" => bound /\ setUp < Len(SetupCalls)
  /\ pc \in {"announce", "handlers"} \union LoopSteps \union Closing
       => bound /\ setUp = Len(SetupCalls)
  /\ READY \in log => pc \notin {"load", "bind", "settingUp", "announce"}
  /\ AddressInUse \in log => pc = "exited"
  /\ pc \in LoopSteps \union Closing => handled = {"SIGINT", "SIGTERM"}
  /\ harness = "testing" => READY \in log \/ AddressInUse \in log

UndoInv ==
  /\ pc \in Starting => ~configured
  /\ ~configured => blocking /\ cooked
  /\ pc \in LoopSteps \union {"restore"}
       => (blocking \/ Restores("flags")) /\ (cooked \/ Restores("attributes"))
  /\ pc = "shutDown" => blocking /\ cooked
  /\ TerminalLeftAsFound

-----------------------------------------------------------------------------
\* The 'q' of stop() is on its way, or has been heard.

QuitWaiting ==
  \/ unread # <<>> /\ Last(unread) = "q"
  \/ inHand = <<"q">>
  \/ \E i \in 1..Len(pipedKeys) : pipedKeys[i] = "quit"

QuitHeard == ~running \/ pc \in Closing \union {"exited"}

\* What waits to be read is whole keys; on POSIX, one.
WholeKeys(bytes) ==
  \A i \in 1..Len(bytes) :
     Prefix(bytes[i]) => i < Len(bytes) /\ bytes[i + 1] \in {"H", "P", "<"}

BytesInv ==
  /\ Posix => unread = <<>> \/ \E key \in AllKeys : unread = Bytes(stdin, key)
  /\ stdin = "windowsConsole" => WholeKeys(unread)

\* stop() is heard; what it kills is a process that has not come up.
QuitInv ==
  /\ BytesInv
  /\ harness = "stopping" => QuitHeard \/ QuitWaiting
  /\ exit = "killed" => pc = "exited" /\ READY \notin log

IInv == Types /\ SetUpInv /\ UndoInv /\ QuitInv

-----------------------------------------------------------------------------
\* Lemmas about keys and commands

\* What a key sends.
LEMMA KeyBytes ==
  ASSUME NEW kind, NEW key \in AllKeys
  PROVE  /\ Bytes(kind, key) \in Seq(AllBytes)
         /\ Bytes(kind, key) # <<>> /\ Len(Bytes(kind, key)) \in 1..3
         /\ Last(Bytes(kind, key)) = "q" => Bytes(kind, key) = <<"q">>
         /\ kind = "windowsConsole" => WholeKeys(Bytes(kind, key))
         /\ Bytes(kind, key)[1] = "q" => key = "q"
<1>1. CASE key = "up"
  <2>1. CASE kind = "windowsConsole"
    <3>1. Bytes(kind, key) = <<"E0", "H">>
      BY <1>1, <2>1, Zenon DEF Bytes
    <3>2. QED
      BY <3>1, <1>1, <2>1 DEF AllBytes, Last, WholeKeys, Prefix
  <2>2. CASE kind # "windowsConsole"
    <3>1. Bytes(kind, key) = <<"ESC", "[", "A">>
      BY <1>1, <2>2, Zenon DEF Bytes
    <3>2. QED
      BY <3>1, <1>1, <2>2 DEF AllBytes, Last, WholeKeys, Prefix
  <2>3. QED
    BY <2>1, <2>2
<1>2. CASE key = "down"
  <2>1. CASE kind = "windowsConsole"
    <3>1. Bytes(kind, key) = <<"E0", "P">>
      BY <1>2, <2>1, Zenon DEF Bytes
    <3>2. QED
      BY <3>1, <1>2, <2>1 DEF AllBytes, Last, WholeKeys, Prefix
  <2>2. CASE kind # "windowsConsole"
    <3>1. Bytes(kind, key) = <<"ESC", "[", "B">>
      BY <1>2, <2>2, Zenon DEF Bytes
    <3>2. QED
      BY <3>1, <1>2, <2>2 DEF AllBytes, Last, WholeKeys, Prefix
  <2>3. QED
    BY <2>1, <2>2
<1>3. CASE key = "F2"
  <2>1. CASE kind = "windowsConsole"
    <3>1. Bytes(kind, key) = <<"00", "<">>
      BY <1>3, <2>1, Zenon DEF Bytes
    <3>2. QED
      BY <3>1, <1>3, <2>1 DEF AllBytes, Last, WholeKeys, Prefix
  <2>2. CASE kind # "windowsConsole"
    <3>1. Bytes(kind, key) = <<"ESC", "O", "Q">>
      BY <1>3, <2>2, Zenon DEF Bytes
    <3>2. QED
      BY <3>1, <1>3, <2>2 DEF AllBytes, Last, WholeKeys, Prefix
  <2>3. QED
    BY <2>1, <2>2
<1>4. CASE key \in {"h", "q", "other"}
  <2>1. Bytes(kind, key) = <<key>>
    BY <1>4, Zenon DEF Bytes
  <2>2. QED
    BY <2>1, <1>4 DEF AllBytes, Last, WholeKeys, Prefix
<1>5. QED
  BY <1>1, <1>2, <1>3, <1>4 DEF AllKeys

\* What is made of bytes is a command or nothing; 'q' is quit.
LEMMA CommandsTyped ==
  /\ \A byte : LetterKey(byte) \in {"help", "quit", "none"}
  /\ LetterKey("q") = "quit"
  /\ \A byte, up, down : ArrowKey(byte, up, down) \in {"up", "down", "none"}
  /\ \A bytes : Decoded(bytes) \in AllCommands \union {"none"}
<1>1. \A byte : LetterKey(byte) \in {"help", "quit", "none"}
  BY Zenon DEF LetterKey
<1>2. LetterKey("q") = "quit"
  BY SMT DEF LetterKey
<1>3. \A byte, up, down : ArrowKey(byte, up, down) \in {"up", "down", "none"}
  BY Zenon DEF ArrowKey
<1>4. \A bytes : Decoded(bytes) \in AllCommands \union {"none"}
  BY <1>1, <1>3, Zenon DEF Decoded, AllCommands
<1>5. QED
  BY <1>1, <1>2, <1>3, <1>4

-----------------------------------------------------------------------------
\* Types

\* Reporting a command: it joins the commands, unless it is none.
LEMMA Reported ==
  ASSUME KeysTyped, NEW command \in AllCommands \union {"none"}, Report(command)
  PROVE  /\ commands' \in Seq(AllCommands)
         /\ command = "quit" => QuitPressed
<1>1. CASE command = "none"
  BY <1>1 DEF Report, KeysTyped
<1>2. CASE command # "none"
  <2>1. command \in AllCommands /\ commands' = Append(commands, command)
    BY <1>2 DEF Report
  <2>2. commands' \in Seq(AllCommands) /\ Len(commands') = Len(commands) + 1
        /\ commands'[Len(commands) + 1] = command
    BY <2>1, AppendProperties DEF KeysTyped
  <2>3. Len(commands) \in Nat
    BY DEF KeysTyped
  <2>4. QED
    BY <2>2, <2>3 DEF QuitPressed, Last
<1>3. QED
  BY <1>1, <1>2

\* Dropping the first bytes of what waits.
LEMMA BytesDropped ==
  ASSUME KeysTyped, NEW n \in 1..(Len(unread) + 1), unread' = SubSeq(unread, n, Len(unread))
  PROVE  /\ unread' \in Seq(AllBytes)
         /\ Len(unread') = Len(unread) - n + 1
         /\ \A i \in 1..(Len(unread) - n + 1) : unread'[i] = unread[n + i - 1]
<1>1. Len(unread) \in Nat /\ \A i \in n..Len(unread) : unread[i] \in AllBytes
  BY DEF KeysTyped
<1>2. QED
  BY <1>1, SubSeqProperties

\* Reading keys.
LEMMA InputTyped ==
  ASSUME KeysTyped, PollInput
  PROVE  /\ unread' \in Seq(AllBytes)
         /\ inHand' = inHand
         /\ pipedKeys' \in Seq(AllCommands)
         /\ commands' \in Seq(AllCommands)
<1> USE DEF KeysTyped
<1>0. Len(unread) \in Nat
  OBVIOUS
<1>1. CASE Posix /\ PollPosix
  <2>1. commands' \in Seq(AllCommands)
    BY <1>1, CommandsTyped, Reported DEF PollPosix
  <2>2. Len(Typed) + 1 \in 1..(Len(unread) + 1)
    <3> DEFINE n == IF Len(unread) < 3 THEN Len(unread) ELSE 3
    <3>1. n \in 0..Len(unread) /\ \A i \in 1..n : unread[i] \in AllBytes
      BY <1>0
    <3>2. Len(Typed) = n
      BY <3>1, <1>0, SubSeqProperties DEF Typed
    <3>3. QED
      BY <3>1, <3>2, <1>0
  <2>3. unread' \in Seq(AllBytes)
    BY <1>1, <2>2, BytesDropped DEF PollPosix
  <2>4. QED
    BY <1>1, <2>1, <2>3 DEF PollPosix
<1>2. CASE unread # <<>> /\ PollConsole
  <2> DEFINE prefixed == Prefix(Head(unread))
             command == IF prefixed THEN ArrowKey(unread[2], "H", "P") ELSE LetterKey(Head(unread))
  <2>1. command \in AllCommands \union {"none"}
    BY CommandsTyped DEF AllCommands
  <2>2. commands' \in Seq(AllCommands)
    <3>1. Report(command)
      BY <1>2 DEF PollConsole
    <3> HIDE DEF command
    <3>2. QED
      BY <2>1, <3>1, Reported
  <2>3. unread' \in Seq(AllBytes)
    <3> DEFINE n == IF prefixed THEN 3 ELSE 2
    <3>1. unread' = SubSeq(unread, n, Len(unread)) /\ n \in {2, 3}
      BY <1>2 DEF PollConsole
    <3> HIDE DEF n
    <3>2. \A i \in n..Len(unread) : unread[i] \in AllBytes
      BY <1>0, <3>1
    <3>3. QED
      BY <1>0, <3>1, <3>2, SubSeqProperties
  <2>4. QED
    BY <1>2, <2>2, <2>3 DEF PollConsole
<1>3. CASE PollPipedKeys
  <2>1. Head(pipedKeys) \in AllCommands /\ Tail(pipedKeys) \in Seq(AllCommands)
    BY <1>3, HeadTailProperties DEF PollPipedKeys
  <2>2. commands' \in Seq(AllCommands)
    BY <1>3, <2>1, Reported DEF PollPipedKeys
  <2>3. QED
    BY <1>3, <2>1, <2>2 DEF PollPipedKeys
<1>4. CASE UNCHANGED <<unread, inHand, pipedKeys, commands>>
  BY <1>4
<1>5. QED
  BY <1>1, <1>2, <1>3, <1>4 DEF PollInput

\* Configuring input, which may fail on a terminal.
LEMMA ConfigureTyped ==
  ASSUME Types, NEW failed \in BOOLEAN, ConfigureInput(failed)
  PROVE  /\ restoreActions' \in {<<>>, <<"flags">>, <<"flags", "attributes">>}
         /\ configured' \in BOOLEAN /\ blocking' \in BOOLEAN /\ cooked' \in BOOLEAN
  BY DEF Types, TypeOK, KeysTyped, ConfigureInput, ConfigurePosix

\* The thread of a Windows pipe.
LEMMA PipedTyped ==
  ASSUME KeysTyped, PipedThread
  PROVE  KeysTyped'
<1> USE DEF KeysTyped
<1>1. CASE ReadPiped
  <2>1. Head(unread) \in AllBytes /\ Tail(unread) \in Seq(AllBytes)
    BY <1>1, HeadTailProperties DEF ReadPiped
  <2>2. QED
    BY <1>1, <2>1 DEF ReadPiped, terminalVars
<1>2. CASE QueuePiped
  <2> DEFINE command == LetterKey(Head(inHand))
  <2>1. command \in {"help", "quit", "none"}
    BY CommandsTyped
  <2>2. pipedKeys' \in Seq(AllCommands)
    <3>1. pipedKeys' = IF command = "none" THEN pipedKeys ELSE Append(pipedKeys, command)
      BY <1>2 DEF QueuePiped, Queued
    <3> HIDE DEF command
    <3>2. command # "none" => command \in AllCommands
      BY <2>1 DEF AllCommands
    <3>3. QED
      BY <3>1, <3>2, AppendProperties
  <2>3. QED
    BY <1>2, <2>2 DEF QueuePiped, terminalVars
<1>3. QED
  BY <1>1, <1>2 DEF PipedThread

\* Typing a key.
LEMMA TypeKeyTyped ==
  ASSUME KeysTyped, TypeKey
  PROVE  KeysTyped'
<1> USE DEF KeysTyped
<1>1. PICK key \in KeysThere : typed' = Append(typed, key) /\ unread' = unread \o Bytes(stdin, key)
  BY DEF TypeKey
<1>2. key \in AllKeys
  BY KeysAssumption DEF KeysThere, AllKeys
<1>3. typed' \in Seq(AllKeys)
  BY <1>1, <1>2, AppendProperties
<1>4. unread' \in Seq(AllBytes)
  BY <1>1, <1>2, KeyBytes, ConcatProperties
<1>5. QED
  BY <1>3, <1>4 DEF TypeKey, terminalVars

\* The 'q' of stop().
LEMMA StopTyped ==
  ASSUME KeysTyped, StopWithQ
  PROVE  KeysTyped'
<1> USE DEF KeysTyped
<1>1. Append(typed, "q") \in Seq(AllKeys)
  BY AppendProperties DEF AllKeys
<1>2. Append(unread, "q") \in Seq(AllBytes)
  BY AppendProperties DEF AllBytes
<1>3. typed' \in Seq(AllKeys) /\ unread' \in Seq(AllBytes)
  BY <1>1, <1>2 DEF StopWithQ
<1>4. QED
  BY <1>3 DEF StopWithQ, terminalVars

\* What leaves the keyboard alone.
LEMMA KeysStill ==
  ASSUME Types, UNCHANGED keyboardVars
  PROVE  KeysTyped' /\ configured' \in BOOLEAN /\ blocking' \in BOOLEAN /\ cooked' \in BOOLEAN
  BY DEF Types, TypeOK, KeysTyped, keyboardVars, terminalVars

\* Every step keeps the types.
LEMMA StepTyped ==
  ASSUME Types, SetUpInv, [ProcessNext]_processVars
  PROVE  Types'
<1> USE DEF Types
<1>0. Len(SetupCalls) = 13
  BY DEF SetupCalls
<1>1. CASE StartUp /\ UNCHANGED <<pending, harness>>
  <2>1. UNCHANGED keyboardVars
    BY <1>1, Zenon DEF StartUp, Load, SetupUdp, SetUpStack, Announce, InstallHandlers
  <2>2. log' \subseteq {READY, AddressInUse, PermissionDenied}
    <3>1. \A error \in BindErrors : error \in {AddressInUse, PermissionDenied}
      BY BindErrorsAssumption
    <3>2. QED
      BY <1>1, <3>1 DEF TypeOK, StartUp, Load, SetupUdp, SetUpStack, Announce, InstallHandlers
  <2>3. setUp' \in 0..Len(SetupCalls)
    <3>1. CASE SetUpStack
      <4>1. setUp < Len(SetupCalls)
        BY <3>1 DEF SetUpStack, SetUpInv
      <4>2. QED
        BY <3>1, <4>1, <1>0 DEF SetUpStack, TypeOK
    <3>2. QED
      BY <1>1, <3>1 DEF TypeOK, StartUp, Load, SetupUdp, Announce, InstallHandlers
  <2>4. handled' \subseteq {"SIGINT", "SIGTERM"}
    BY <1>1 DEF TypeOK, StartUp, Load, SetupUdp, SetUpStack, Announce, InstallHandlers
  <2>5. bound' \in BOOLEAN /\ running' \in BOOLEAN
    BY <1>1 DEF TypeOK, StartUp, Load, SetupUdp, SetUpStack, Announce, InstallHandlers
  <2>6. /\ pc' \in LoopSteps \union {"load", "bind", "settingUp", "announce", "handlers", "restore",
                                     "shutDown", "exited"}
        /\ exit' \in {"none", "raising", "0", "1", "signal", "killed"}
    BY <1>1 DEF TypeOK, StartUp, Load, SetupUdp, SetUpStack, Announce, InstallHandlers, Exit, LoopSteps
  <2>7. QED
    BY <1>1, <2>1, <2>2, <2>3, <2>4, <2>5, <2>6, KeysStill DEF TypeOK
<1>2. CASE (LoopHead \/ StackTick \/ Simulate \/ Sleep \/ ShutDown) /\ UNCHANGED <<pending, harness>>
  <2>1. UNCHANGED keyboardVars
    BY <1>2 DEF LoopHead, StackTick, Simulate, Sleep, ShutDown
  <2>2. QED
    BY <1>2, <2>1, KeysStill DEF TypeOK, LoopHead, StackTick, Simulate, Sleep, ShutDown, Exit, LoopSteps
<1>3. CASE Poll /\ UNCHANGED <<pending, harness>>
  <2>1. CASE PollKey /\ pc' = "sleep" /\ running' = (running /\ ~QuitPressed) /\ UNCHANGED exit
    <3>1. KeysTyped'
      <4>1. PollInput /\ UNCHANGED <<stdin, typed>>
        BY <2>1 DEF PollKey
      <4>2. restoreActions' \in {<<>>, <<"flags">>, <<"flags", "attributes">>}
        BY <2>1, ConfigureTyped DEF PollKey, terminalVars, KeysTyped
      <4>3. QED
        BY <4>1, <4>2, InputTyped DEF KeysTyped
    <3>2. configured' \in BOOLEAN /\ blocking' \in BOOLEAN /\ cooked' \in BOOLEAN
      BY <2>1, ConfigureTyped DEF PollKey, terminalVars, TypeOK
    <3>3. running' \in BOOLEAN
      BY <2>1
    <3>4. QED
      BY <1>3, <2>1, <3>1, <3>2, <3>3 DEF TypeOK, Poll, LoopSteps
  <2>2. CASE PollKeyRaises /\ pc' = "restore" /\ exit' = "raising" /\ UNCHANGED running
    <3>1. KeysTyped' /\ configured' \in BOOLEAN /\ blocking' \in BOOLEAN /\ cooked' \in BOOLEAN
      BY <2>2, ConfigureTyped DEF PollKeyRaises, KeysTyped
    <3>2. QED
      BY <1>3, <2>2, <3>1 DEF TypeOK, Poll
  <2>3. QED
    BY <1>3, <2>1, <2>2 DEF Poll
<1>4. CASE Restore /\ UNCHANGED <<pending, harness>>
  BY <1>4 DEF TypeOK, KeysTyped, Restore, RestoreInput
<1>5. CASE Signal
  <2>1. UNCHANGED keyboardVars
    BY <1>5 DEF Signal
  <2>2. QED
    BY <1>5, <2>1, KeysStill DEF TypeOK, Signal, Exit
<1>6. CASE WaitReady \/ NeverReady \/ Stopped \/ Kill
  <2>1. UNCHANGED keyboardVars
    BY <1>6 DEF WaitReady, NeverReady, Stopped, Kill
  <2>2. QED
    BY <1>6, <2>1, KeysStill
       DEF TypeOK, WaitReady, NeverReady, Stopped, Kill, HarnessStep, Exit, mainVars
<1>7. CASE Press
  BY <1>7, TypeKeyTyped DEF TypeOK, Press, TypeKey, terminalVars, mainVars
<1>8. CASE StopWithQ
  BY <1>8, StopTyped DEF TypeOK, StopWithQ, HarnessStep, terminalVars, mainVars
<1>9. CASE PipedThread /\ pc # "exited" /\ UNCHANGED <<mainVars, pending, harness>>
  <2>1. UNCHANGED terminalVars
    BY <1>9 DEF PipedThread, ReadPiped, QueuePiped
  <2>2. QED
    BY <1>9, <2>1, PipedTyped DEF TypeOK, terminalVars, mainVars
<1>10. CASE UNCHANGED processVars
  BY <1>10 DEF TypeOK, KeysTyped, processVars, keyboardVars, terminalVars, mainVars
<1>11. QED
  BY <1>1, <1>2, <1>3, <1>4, <1>5, <1>6, <1>7, <1>8, <1>9, <1>10 DEF ProcessNext, Main, Harness

-----------------------------------------------------------------------------
\* The phases of main()

\* The lines that start() waits for are the ready line and the failure to bind.
LEMMA Lines == READY # AddressInUse /\ READY # PermissionDenied /\ AddressInUse # PermissionDenied
  BY Zenon DEF READY, AddressInUse, PermissionDenied

LEMMA StepSetsUp ==
  ASSUME Types, SetUpInv, [ProcessNext]_processVars
  PROVE  SetUpInv'
<1> USE DEF Types, TypeOK, SetUpInv, LoopSteps, Closing
<1>0. Len(SetupCalls) = 13
  BY DEF SetupCalls
<1>1. CASE Load /\ UNCHANGED <<pending, harness>>
  BY <1>1 DEF Load, Exit
<1>2. CASE SetupUdp /\ UNCHANGED <<pending, harness>>
  BY <1>0, <1>2, Lines, BindErrorsAssumption DEF SetupUdp, Exit
<1>3. CASE SetUpStack /\ UNCHANGED <<pending, harness>>
  BY <1>0, <1>3 DEF SetUpStack, Exit, LastCall
<1>4. CASE Announce /\ UNCHANGED <<pending, harness>>
  BY <1>4, Lines DEF Announce
<1>5. CASE InstallHandlers /\ UNCHANGED <<pending, harness>>
  BY <1>5 DEF InstallHandlers, HandlersMissing
<1>6. CASE (LoopHead \/ StackTick \/ Simulate \/ Poll \/ Sleep) /\ UNCHANGED <<pending, harness>>
  BY <1>6 DEF LoopHead, StackTick, Simulate, Poll, Sleep
<1>7. CASE (Restore \/ ShutDown) /\ UNCHANGED <<pending, harness>>
  BY <1>7 DEF Restore, ShutDown, Exit
<1>8. CASE Signal
  BY <1>8 DEF Signal, Exit
<1>9. CASE WaitReady
  BY <1>9 DEF WaitReady, HarnessStep, ContainsReady, mainVars
<1>10. CASE NeverReady \/ Stopped \/ Kill
  BY <1>10 DEF NeverReady, Stopped, Kill, HarnessStep, Exit, mainVars
<1>11. CASE Press \/ StopWithQ
  BY <1>11 DEF Press, StopWithQ, HarnessStep, mainVars
<1>12. CASE PipedThread /\ pc # "exited" /\ UNCHANGED <<mainVars, pending, harness>>
  BY <1>12 DEF mainVars
<1>13. CASE UNCHANGED processVars
  BY <1>13 DEF processVars, mainVars
<1>14. QED
  BY <1>1, <1>2, <1>3, <1>4, <1>5, <1>6, <1>7, <1>8, <1>9, <1>10, <1>11, <1>12, <1>13
     DEF ProcessNext, Main, StartUp, Harness

-----------------------------------------------------------------------------
\* The end of the process

\* A loop that stop() waits for has been told to end, or will be.
LEMMA LoopNotKilled ==
  ASSUME Types, QuitInv, Kill
  PROVE  pc \in {"load", "bind", "settingUp"}
<1>1. SUFFICES ASSUME pc \in LoopSteps, running,
                      unread = <<>>, inHand = <<>>, pipedKeys = <<>>
               PROVE  FALSE
  BY DEF Kill
<1>2. ~QuitHeard
  BY <1>1 DEF QuitHeard, LoopSteps, Closing
<1>3. ~QuitWaiting
  BY <1>1 DEF QuitWaiting
<1>4. QED
  BY <1>2, <1>3 DEF QuitInv, Kill, HarnessStep

\* What restore_input() undoes is what configuring has done.
LEMMA ConfigureUndone ==
  ASSUME Types, NEW failed \in BOOLEAN, ConfigureInput(failed), blocking, cooked
  PROVE  configured' /\ (blocking' \/ Restores("flags")') /\ (cooked' \/ Restores("attributes")')
<1>1. CASE Posix
  <2>1. CASE stdin = "posixTerminal" /\ ~failed
    <3>1. restoreActions' = <<"flags", "attributes">>
      BY <1>1, <2>1 DEF ConfigureInput, ConfigurePosix
    <3>2. QED
      BY <1>1, <3>1 DEF ConfigureInput, Restores, Contains
  <2>2. CASE ~(stdin = "posixTerminal" /\ ~failed)
    <3>1. restoreActions' = <<"flags">> /\ cooked' = cooked
      BY <1>1, <2>2 DEF ConfigureInput, ConfigurePosix
    <3>2. QED
      BY <1>1, <3>1 DEF ConfigureInput, Restores, Contains
  <2>3. QED
    BY <2>1, <2>2
<1>2. CASE ~Posix
  BY <1>2 DEF ConfigureInput
<1>3. QED
  BY <1>1, <1>2

LEMMA StepUndoes ==
  ASSUME Types, SetUpInv, UndoInv, QuitInv, [ProcessNext]_processVars
  PROVE  UndoInv'
<1> USE DEF UndoInv, TerminalLeftAsFound, LoopSteps, Starting
<1>1. CASE UNCHANGED terminalVars /\ ~Restore
  <2>0. configured' = configured /\ blocking' = blocking /\ cooked' = cooked
        /\ (Restores("flags")' <=> Restores("flags"))
        /\ (Restores("attributes")' <=> Restores("attributes"))
    BY <1>1 DEF terminalVars, Restores, Contains
  <2> HIDE DEF LoopSteps
  <2>1. CASE pc' = pc
    BY <2>0, <2>1
  <2>2. CASE Main
    <3>1. CASE StartUp
      <4>1. pc \in Starting /\ pc' \in Starting \union {"loop", "exited"}
        BY <3>1 DEF StartUp, Load, SetupUdp, SetUpStack, Announce, InstallHandlers, Exit
      <4>2. ~configured /\ blocking /\ cooked
        BY <4>1
      <4>3. QED
        BY <2>0, <4>1, <4>2
    <3>2. CASE LoopHead \/ StackTick \/ Simulate \/ Poll \/ Sleep
      <4>1. pc \in LoopSteps /\ pc' \in LoopSteps \union {"restore"}
        BY <3>2 DEF LoopHead, StackTick, Simulate, Poll, Sleep, LoopSteps
      <4>2. QED
        BY <2>0, <4>1 DEF LoopSteps
    <3>3. CASE ShutDown
      BY <2>0, <3>3 DEF ShutDown, Exit, LoopSteps
    <3>4. QED
      BY <1>1, <2>2, <3>1, <3>2, <3>3 DEF Main
  <2>3. CASE Signal /\ pc' # pc
    <3>1. handled # {"SIGINT", "SIGTERM"} /\ pc # "exited" /\ pc' = "exited"
      <4>1. PICK signal \in pending : signal \notin handled /\ pc' = "exited"
        BY <2>3 DEF Signal, Exit
      <4>2. signal \in {"SIGINT", "SIGTERM"}
        BY <4>1, SignalsAssumption DEF Types, TypeOK
      <4>3. QED
        BY <2>3, <4>1, <4>2 DEF Signal
    <3>2. pc \in Starting
      BY <3>1 DEF SetUpInv, Types, TypeOK, Closing
    <3>3. ~configured /\ blocking /\ cooked
      BY <3>2
    <3>4. QED
      BY <2>0, <3>1, <3>3 DEF LoopSteps
  <2>4. CASE Kill
    BY <2>0, <2>4, LoopNotKilled DEF Kill, Exit
  <2>5. QED
    BY <2>1, <2>2, <2>3, <2>4
       DEF ProcessNext, Harness, WaitReady, NeverReady, Press, StopWithQ, Stopped,
           mainVars, processVars
<1>2. CASE Poll /\ ~(UNCHANGED terminalVars)
  <2>1. PICK failed \in BOOLEAN : ConfigureInput(failed)
    BY <1>2 DEF Poll, PollKey, PollKeyRaises
  <2>2. blocking /\ cooked
    BY <2>1 DEF ConfigureInput
  <2>3. pc' \in {"sleep", "restore"}
    BY <1>2 DEF Poll
  <2>4. QED
    BY <2>1, <2>2, <2>3, ConfigureUndone
<1>3. CASE Restore
  <2>1. blocking' /\ cooked' /\ pc' = "shutDown"
    BY <1>3 DEF Restore, RestoreInput
  <2>2. QED
    BY <2>1
<1>4. QED
  <2>1. Main => UNCHANGED terminalVars \/ Poll \/ Restore
    BY DEF Main, StartUp, Load, SetupUdp, SetUpStack, Announce, InstallHandlers, LoopHead, StackTick,
           Simulate, Sleep, ShutDown, keyboardVars
  <2>2. Signal \/ Harness => UNCHANGED terminalVars
    BY DEF Signal, Harness, WaitReady, NeverReady, Press, TypeKey, StopWithQ, Stopped, Kill, keyboardVars
  <2>3. PipedThread \/ UNCHANGED processVars => UNCHANGED terminalVars
    BY DEF PipedThread, ReadPiped, QueuePiped, processVars, keyboardVars
  <2>4. QED
    BY <1>1, <1>2, <1>3, <2>1, <2>2, <2>3 DEF ProcessNext

-----------------------------------------------------------------------------
\* The 'q' of stop() on its way through the keyboard

\* POSIX: poll_key takes all that waits, which is one key.
LEMMA PosixReadsAll ==
  ASSUME Types, BytesInv, Posix, PollPosix
  PROVE  Typed = unread
<1>0. KeysTyped /\ Len(unread) \in Nat
  BY DEF Types, KeysTyped
<1>1. PICK key \in AllKeys : unread = Bytes(stdin, key)
  BY DEF BytesInv, PollPosix
<1>2. Len(unread) \in 1..3
  BY <1>1, KeyBytes
<1>3. Typed = SubSeq(unread, 1, Len(unread))
  <2>1. CASE Len(unread) < 3
    BY <2>1 DEF Typed
  <2>2. CASE Len(unread) = 3
    BY <2>2 DEF Typed
  <2>3. QED
    BY <1>2, <2>1, <2>2
<1>4. QED
  BY <1>0, <1>3, SubSeqFull DEF KeysTyped

LEMMA PosixHearsQuit ==
  ASSUME Types, BytesInv, Posix, PollPosix
  PROVE  /\ unread' = <<>>
         /\ Last(unread) = "q" => QuitPressed
<1>0. KeysTyped /\ Len(unread) \in Nat
  BY DEF Types, KeysTyped
<1>1. PICK key \in AllKeys : unread = Bytes(stdin, key)
  BY DEF BytesInv, PollPosix
<1>3. Typed = unread
  BY PosixReadsAll
<1>4. unread' = <<>>
  <2>1. unread' = SubSeq(unread, Len(unread) + 1, Len(unread))
    BY <1>3 DEF PollPosix
  <2>2. QED
    BY <2>1, <1>0, SubSeqEmpty
<1>5. ASSUME Last(unread) = "q" PROVE QuitPressed
  <2>1. unread = <<"q">>
    BY <1>1, <1>5, KeyBytes
  <2>2. Decoded(Typed) = LetterKey("q")
    BY <1>3, <2>1 DEF Decoded
  <2>3. Report("quit")
    BY <2>2, CommandsTyped DEF PollPosix
  <2>4. QED
    BY <1>0, <2>3, Reported DEF AllCommands
<1>6. QED
  BY <1>4, <1>5

\* A console: poll_key takes one whole key.
LEMMA ConsoleHearsQuit ==
  ASSUME Types, WholeKeys(unread), unread # <<>>, PollConsole
  PROVE  /\ WholeKeys(unread')
         /\ Last(unread) = "q" => QuitPressed \/ (unread' # <<>> /\ Last(unread') = "q")
<1>0. KeysTyped /\ Len(unread) \in Nat \ {0}
  BY DEF Types, KeysTyped
<1>1. Head(unread) = unread[1]
  BY <1>0 DEF KeysTyped
<1> DEFINE n == IF Prefix(unread[1]) THEN 3 ELSE 2
<1>2. unread' = SubSeq(unread, n, Len(unread))
  BY <1>1 DEF PollConsole
<1>3. n \in 2..(Len(unread) + 1)
  BY <1>0 DEF WholeKeys
<1>4. /\ unread' \in Seq(AllBytes)
      /\ Len(unread') = Len(unread) - n + 1
      /\ \A i \in 1..(Len(unread) - n + 1) : unread'[i] = unread[n + i - 1]
  <2> HIDE DEF n
  <2>1. n \in 1..(Len(unread) + 1)
    BY <1>3
  <2>2. QED
    BY <1>0, <1>2, <2>1, BytesDropped
<1>5. WholeKeys(unread')
  <2> HIDE DEF n
  <2>1. ASSUME NEW i \in 1..Len(unread'), Prefix(unread'[i])
        PROVE  i < Len(unread') /\ unread'[i + 1] \in {"H", "P", "<"}
    <3>1. n + i - 1 \in 1..Len(unread) /\ unread'[i] = unread[n + i - 1]
      BY <1>0, <1>3, <1>4, <2>1
    <3>2. n + i - 1 < Len(unread) /\ unread[n + i - 1 + 1] \in {"H", "P", "<"}
      BY <2>1, <3>1 DEF WholeKeys
    <3>3. i + 1 \in 1..Len(unread') /\ n + (i + 1) - 1 = n + i - 1 + 1
      BY <1>0, <1>3, <1>4, <2>1, <3>2
    <3>4. unread'[i + 1] = unread[n + (i + 1) - 1]
      BY <1>4, <3>3
    <3>5. QED
      BY <1>0, <1>3, <1>4, <3>2, <3>3, <3>4
  <2>2. QED
    BY <2>1 DEF WholeKeys
<1>6. ASSUME Last(unread) = "q" PROVE QuitPressed \/ (unread' # <<>> /\ Last(unread') = "q")
  <2>1. unread[Len(unread)] = "q"
    BY <1>6 DEF Last
  <2>2. CASE Len(unread) = n - 1
    <3>1. ~Prefix(unread[1])
      BY <1>0, <2>1, <2>2 DEF WholeKeys
    <3>2. unread[1] = "q"
      BY <2>1, <2>2, <3>1
    <3>3. Report("quit")
      BY <1>1, <3>1, <3>2, CommandsTyped DEF PollConsole
    <3>4. QED
      BY <1>0, <3>3, Reported DEF AllCommands
  <2>3. CASE Len(unread) # n - 1
    <3> HIDE DEF n
    <3>1. Len(unread') \in 1..(Len(unread) - n + 1) /\ n + Len(unread') - 1 = Len(unread)
      BY <1>0, <1>3, <1>4, <2>3
    <3>2. unread'[Len(unread')] = "q"
      BY <1>4, <2>1, <3>1
    <3>3. unread' # <<>>
      BY <3>1
    <3>4. QED
      BY <3>2, <3>3 DEF Last
  <2>4. QED
    BY <2>2, <2>3
<1>7. QED
  BY <1>5, <1>6

\* A Windows pipe: poll_key takes one command off the thread's queue.
LEMMA PipeHearsQuit ==
  ASSUME Types, PollPipedKeys, NEW i \in 1..Len(pipedKeys), pipedKeys[i] = "quit"
  PROVE  QuitPressed \/ \E j \in 1..Len(pipedKeys') : pipedKeys'[j] = "quit"
<1>0. KeysTyped /\ Len(pipedKeys) \in Nat
  BY DEF Types, KeysTyped
<1>1. pipedKeys' = Tail(pipedKeys) /\ Report(Head(pipedKeys)) /\ Head(pipedKeys) = pipedKeys[1]
  BY <1>0 DEF PollPipedKeys, KeysTyped
<1>2. Len(pipedKeys') = Len(pipedKeys) - 1 /\ \A j \in 1..Len(pipedKeys') : pipedKeys'[j] = pipedKeys[j + 1]
  BY <1>0, <1>1, HeadTailProperties DEF PollPipedKeys, KeysTyped
<1>3. CASE i = 1
  BY <1>0, <1>1, <1>3, Reported DEF AllCommands
<1>4. CASE i # 1
  <2>1. i - 1 \in 1..Len(pipedKeys') /\ (i - 1) + 1 = i
    BY <1>0, <1>2, <1>4
  <2>2. pipedKeys'[i - 1] = "quit"
    BY <1>2, <2>1
  <2>3. QED
    BY <2>1, <2>2
<1>5. QED
  BY <1>3, <1>4

\* One call of poll_key hears the 'q' or leaves it waiting.
LEMMA PollHearsQuit ==
  ASSUME Types, BytesInv, PollInput, UNCHANGED stdin
  PROVE  /\ BytesInv'
         /\ QuitWaiting => QuitPressed \/ QuitWaiting'
<1>0. stdin \in {"posixTerminal", "posixPipe", "windowsConsole", "windowsPipe"}
  BY StdinsAssumption DEF Types, KeysTyped
<1>1. CASE Posix /\ PollPosix
  BY <1>0, <1>1, PosixHearsQuit DEF BytesInv, QuitWaiting, PollPosix, Posix
<1>2. CASE stdin = "windowsConsole" /\ unread # <<>> /\ PollConsole
  <2>1. inHand' = inHand /\ pipedKeys' = pipedKeys
    BY <1>2 DEF PollConsole
  <2>2. BytesInv'
    BY <1>2, ConsoleHearsQuit DEF BytesInv, Posix
  <2>3. ASSUME unread # <<>>, Last(unread) = "q" PROVE QuitPressed \/ QuitWaiting'
    BY <1>2, <2>3, ConsoleHearsQuit DEF BytesInv, QuitWaiting
  <2>4. QED
    BY <2>1, <2>2, <2>3 DEF QuitWaiting
<1>3. CASE stdin = "windowsPipe" /\ PollPipedKeys
  <2>1. inHand' = inHand /\ unread' = unread
    BY <1>3 DEF PollPipedKeys
  <2>2. BytesInv'
    BY <1>3 DEF BytesInv, Posix
  <2>3. ASSUME NEW i \in 1..Len(pipedKeys), pipedKeys[i] = "quit" PROVE QuitPressed \/ QuitWaiting'
    BY <1>3, <2>3, PipeHearsQuit DEF QuitWaiting
  <2>4. QED
    BY <2>1, <2>2, <2>3 DEF QuitWaiting
<1>4. CASE UNCHANGED <<unread, inHand, pipedKeys, commands>>
  BY <1>4 DEF BytesInv, QuitWaiting, Posix, Bytes
<1>5. QED
  BY <1>1, <1>2, <1>3, <1>4 DEF PollInput

\* The thread hands the 'q' on.
LEMMA ThreadHandsOn ==
  ASSUME Types, BytesInv, PipedThread
  PROVE  /\ BytesInv'
         /\ QuitWaiting => QuitWaiting'
<1>0. KeysTyped /\ Len(unread) \in Nat /\ Len(pipedKeys) \in Nat
  BY DEF Types, KeysTyped
<1>1. CASE ReadPiped
  <2>1. BytesInv'
    BY <1>1 DEF ReadPiped, BytesInv, Posix
  <2>2. inHand' = <<Head(unread)>> /\ Head(unread) = unread[1] /\ pipedKeys' = pipedKeys /\ inHand = <<>>
    BY <1>0, <1>1 DEF ReadPiped, KeysTyped
  <2>3. Len(unread') = Len(unread) - 1 /\ \A i \in 1..Len(unread') : unread'[i] = unread[i + 1]
    BY <1>0, <1>1, HeadTailProperties DEF ReadPiped, KeysTyped
  <2>4. ASSUME unread # <<>>, unread[Len(unread)] = "q" PROVE QuitWaiting'
    <3>1. CASE Len(unread) = 1
      BY <2>2, <2>4, <3>1 DEF QuitWaiting
    <3>2. CASE Len(unread) # 1
      <4>1. Len(unread) # 0
        BY <1>0, <2>4 DEF KeysTyped
      <4>2. Len(unread') \in 1..Len(unread') /\ Len(unread') + 1 = Len(unread)
        BY <1>0, <2>3, <3>2, <4>1
      <4>3. unread'[Len(unread')] = "q" /\ unread' # <<>>
        BY <2>3, <2>4, <4>2
      <4>4. QED
        BY <4>3 DEF QuitWaiting, Last
    <3>3. QED
      BY <3>1, <3>2
  <2>5. inHand # <<"q">>
    BY <2>2
  <2>6. (\E i \in 1..Len(pipedKeys) : pipedKeys[i] = "quit") => QuitWaiting'
    BY <2>2 DEF QuitWaiting
  <2>7. QuitWaiting => QuitWaiting'
    BY <2>4, <2>5, <2>6 DEF QuitWaiting, Last
  <2>8. QED
    BY <2>1, <2>7
<1>2. CASE QueuePiped
  <2> DEFINE command == LetterKey(Head(inHand))
  <2>1. BytesInv'
    BY <1>2 DEF QueuePiped, BytesInv, Posix, Bytes
  <2>2. unread' = unread
        /\ pipedKeys' = IF command = "none" THEN pipedKeys ELSE Append(pipedKeys, command)
    BY <1>2 DEF QueuePiped, Queued
  <2>3. command \in {"help", "quit", "none"} /\ (inHand = <<"q">> => command = "quit")
    <3>1. inHand = <<"q">> => Head(inHand) = "q"
      OBVIOUS
    <3>2. QED
      BY <3>1, CommandsTyped
  <2> HIDE DEF command
  <2>4. command # "none" => /\ Len(pipedKeys') = Len(pipedKeys) + 1
                            /\ \A i \in 1..Len(pipedKeys) : pipedKeys'[i] = pipedKeys[i]
                            /\ pipedKeys'[Len(pipedKeys) + 1] = command
    <3>1. command # "none" => command \in AllCommands
      BY <2>3 DEF AllCommands
    <3>2. QED
      BY <1>0, <2>2, <3>1, AppendProperties DEF KeysTyped
  <2>5. \A i \in 1..Len(pipedKeys) : i \in 1..Len(pipedKeys') /\ pipedKeys'[i] = pipedKeys[i]
    BY <1>0, <2>2, <2>4
  <2>6. inHand = <<"q">> => QuitWaiting'
    <3>1. SUFFICES ASSUME inHand = <<"q">> PROVE QuitWaiting'
      OBVIOUS
    <3>2. Len(pipedKeys) + 1 \in 1..Len(pipedKeys') /\ pipedKeys'[Len(pipedKeys) + 1] = "quit"
      BY <1>0, <2>3, <2>4, <3>1
    <3>3. QED
      BY <3>2 DEF QuitWaiting
  <2>7. (\E i \in 1..Len(pipedKeys) : pipedKeys[i] = "quit") => QuitWaiting'
    BY <2>5 DEF QuitWaiting
  <2>8. QuitWaiting => QuitWaiting'
    BY <2>2, <2>6, <2>7 DEF QuitWaiting
  <2>9. QED
    BY <2>1, <2>8
<1>3. QED
  BY <1>1, <1>2 DEF PipedThread

\* Whole keys after whole keys are whole keys.
LEMMA KeyAfterKeys ==
  ASSUME NEW old \in Seq(AllBytes), NEW new \in Seq(AllBytes), WholeKeys(old), WholeKeys(new)
  PROVE  WholeKeys(old \o new)
<1> DEFINE both == old \o new
<1>1. Len(old) \in Nat /\ Len(new) \in Nat
  OBVIOUS
<1>2. /\ Len(both) = Len(old) + Len(new)
      /\ \A i \in 1..(Len(old) + Len(new)) : both[i] = IF i <= Len(old) THEN old[i] ELSE new[i - Len(old)]
  BY ConcatProperties
<1> HIDE DEF both
<1>3. ASSUME NEW i \in 1..Len(both), Prefix(both[i])
      PROVE  i < Len(both) /\ both[i + 1] \in {"H", "P", "<"}
  <2>1. CASE i <= Len(old)
    <3>1. i \in 1..Len(old) /\ both[i] = old[i]
      BY <1>1, <1>2, <2>1
    <3>2. i < Len(old) /\ old[i + 1] \in {"H", "P", "<"}
      BY <1>3, <3>1 DEF WholeKeys
    <3>3. i + 1 \in 1..(Len(old) + Len(new)) /\ i + 1 <= Len(old)
      BY <1>1, <3>2
    <3>4. QED
      BY <1>1, <1>2, <3>2, <3>3
  <2>2. CASE i > Len(old)
    <3> DEFINE j == i - Len(old)
    <3>1. j \in 1..Len(new) /\ both[i] = new[j]
      BY <1>1, <1>2, <2>2
    <3>2. j < Len(new) /\ new[j + 1] \in {"H", "P", "<"}
      BY <1>3, <3>1 DEF WholeKeys
    <3>3. i + 1 \in 1..(Len(old) + Len(new)) /\ ~(i + 1 <= Len(old)) /\ (i + 1) - Len(old) = j + 1
      BY <1>1, <2>2, <3>2
    <3>4. both[i + 1] = new[j + 1]
      BY <1>2, <3>3
    <3>5. QED
      BY <1>1, <1>2, <3>2, <3>3, <3>4
  <2>3. QED
    BY <1>1, <1>2, <2>1, <2>2
<1>4. QED
  BY <1>3 DEF WholeKeys, both

\* A key is typed, where on POSIX the last one has been read.
LEMMA TypingKeepsBytes ==
  ASSUME Types, BytesInv, OneKeyAtATime, TypeKey
  PROVE  BytesInv'
<1>0. KeysTyped
  BY DEF Types
<1>1. PICK key \in KeysThere : unread' = unread \o Bytes(stdin, key)
  BY DEF TypeKey
<1>2. key \in AllKeys /\ stdin' = stdin
  BY KeysAssumption DEF KeysThere, AllKeys, TypeKey
<1>3. Bytes(stdin, key) \in Seq(AllBytes)
  BY <1>2, KeyBytes
<1>4. CASE Posix
  <2>1. unread = <<>>
    BY <1>4 DEF TypeKey, OneKeyAtATime, Posix
  <2>2. unread' = Bytes(stdin, key)
    BY <1>1, <1>3, <2>1, ConcatEmptySeq
  <2>3. Bytes(stdin, key)' = Bytes(stdin, key)
    BY <1>2 DEF Bytes
  <2>4. QED
    BY <1>2, <1>4, <2>2, <2>3 DEF BytesInv, Posix
<1>5. CASE stdin = "windowsConsole"
  <2>1. WholeKeys(unread) /\ WholeKeys(Bytes(stdin, key))
    BY <1>2, <1>5, KeyBytes DEF BytesInv
  <2>2. WholeKeys(unread')
    BY <1>0, <1>1, <1>3, <2>1, KeyAfterKeys DEF KeysTyped
  <2>3. QED
    BY <1>2, <1>5, <2>2 DEF BytesInv, Posix
<1>6. CASE ~Posix /\ stdin # "windowsConsole"
  BY <1>2, <1>6 DEF BytesInv, Posix
<1>7. QED
  BY <1>4, <1>5, <1>6

\* stop() types its 'q'.
LEMMA StopTypesQuit ==
  ASSUME Types, BytesInv, OneKeyAtATime, StopWithQ
  PROVE  BytesInv' /\ (QuitHeard' \/ QuitWaiting')
<1>0. KeysTyped /\ Len(unread) \in Nat
  BY DEF Types, KeysTyped
<1>1. CASE pc = "exited"
  <2>1. unread' = unread /\ stdin' = stdin /\ pc' = "exited"
    BY <1>1 DEF StopWithQ, mainVars
  <2>2. QED
    BY <2>1 DEF BytesInv, Posix, Bytes, QuitHeard
<1>2. CASE pc # "exited"
  <2>0. unread' = Append(unread, "q") /\ stdin' = stdin
    BY <1>2 DEF StopWithQ
  <2>1. "q" \in AllKeys /\ "q" \in AllBytes
    BY DEF AllKeys, AllBytes
  <2>2. Bytes(stdin, "q") = <<"q">> /\ Bytes(stdin, "q")' = <<"q">>
    BY Zenon DEF Bytes
  <2>3. unread' = unread \o <<"q">> /\ <<"q">> \in Seq(AllBytes)
    BY <1>0, <2>0, <2>1, AppendIsConcat DEF KeysTyped
  <2>4. QuitWaiting'
    <3>1. Len(unread') = Len(unread) + 1 /\ unread'[Len(unread) + 1] = "q" /\ unread' # <<>>
      BY <1>0, <2>0, <2>1, AppendProperties DEF KeysTyped
    <3>2. QED
      BY <3>1 DEF QuitWaiting, Last
  <2>5. CASE Posix
    <3>1. unread = <<>>
      BY <2>5 DEF StopWithQ, OneKeyAtATime, Posix
    <3>2. unread' = <<"q">>
      BY <2>3, <3>1, ConcatEmptySeq
    <3>3. BytesInv'
      BY <2>0, <2>1, <2>2, <2>5, <3>2 DEF BytesInv, Posix
    <3>4. QED
      BY <2>4, <3>3
  <2>6. CASE stdin = "windowsConsole"
    <3>1. WholeKeys(<<"q">>)
      BY DEF WholeKeys, Prefix
    <3>2. WholeKeys(unread')
      BY <1>0, <2>3, <2>6, <3>1, KeyAfterKeys DEF KeysTyped, BytesInv
    <3>3. QED
      BY <2>0, <2>4, <2>6, <3>2 DEF BytesInv, Posix
  <2>7. CASE ~Posix /\ stdin # "windowsConsole"
    BY <2>0, <2>4, <2>7 DEF BytesInv, Posix
  <2>8. QED
    BY <2>5, <2>6, <2>7
<1>3. QED
  BY <1>1, <1>2

\* Steps that leave what is on its way alone.
LEMMA QuitStill ==
  ASSUME UNCHANGED <<stdin, unread, inHand, pipedKeys>>
  PROVE  (BytesInv => BytesInv') /\ (QuitWaiting => QuitWaiting')
  BY DEF BytesInv, Posix, Bytes, QuitWaiting

LEMMA StepQuits ==
  ASSUME Types, SetUpInv, QuitInv, OneKeyAtATime, [ProcessNext]_processVars
  PROVE  QuitInv'
<1>0. BytesInv
  BY DEF QuitInv
<1>1. exit' = "killed" => pc' = "exited" /\ READY \notin log'
  <2>1. CASE Kill
    <3>1. READY \notin log
      BY <2>1, LoopNotKilled DEF SetUpInv
    <3>2. QED
      BY <2>1, <3>1 DEF Kill, Exit
  <2>2. CASE Main
    <3>1. pc # "exited"
      BY <2>2 DEF Main, StartUp, Load, SetupUdp, SetUpStack, Announce, InstallHandlers,
                  LoopHead, StackTick, Simulate, Poll, Sleep, Restore, ShutDown
    <3>2. exit # "killed"
      BY <3>1 DEF QuitInv
    <3>3. exit' = exit \/ exit' \in {"0", "1", "raising"}
      BY <2>2 DEF Main, StartUp, Load, SetupUdp, SetUpStack, Announce, InstallHandlers, Exit,
                  LoopHead, StackTick, Simulate, Poll, Sleep, Restore, ShutDown
    <3>3a. QED
      BY <3>2, <3>3
  <2>3. CASE Signal
    <3>1. exit # "killed"
      BY <2>3 DEF QuitInv, Signal
    <3>2. exit' = exit \/ exit' = "signal"
      BY <2>3 DEF Signal, Exit
    <3>3. QED
      BY <3>1, <3>2
  <2>4. CASE UNCHANGED <<pc, exit, log>>
    BY <2>4 DEF QuitInv
  <2>5. QED
    BY <2>1, <2>2, <2>3, <2>4
       DEF ProcessNext, Harness, WaitReady, NeverReady, Press, StopWithQ, Stopped,
           mainVars, processVars
<1>2. CASE Main
  <2>1. harness' = harness
    BY <1>2 DEF Main
  <2>2. QuitHeard => QuitHeard'
    BY <1>2 DEF QuitHeard, Closing, Main, StartUp, Load, SetupUdp, SetUpStack, Announce,
                InstallHandlers, Exit, LoopHead, StackTick, Simulate, Poll, Sleep, Restore, ShutDown
  <2>3. CASE Poll
    <3>1. CASE PollKey /\ running' = (running /\ ~QuitPressed)
      <4>1. PollInput /\ UNCHANGED stdin
        BY <3>1 DEF PollKey
      <4>2. QuitPressed => QuitHeard'
        BY <3>1 DEF QuitHeard
      <4>3. QED
        BY <1>0, <1>1, <2>1, <2>2, <4>1, <4>2, PollHearsQuit DEF QuitInv
    <3>2. CASE PollKeyRaises
      <4>1. UNCHANGED <<stdin, unread, inHand, pipedKeys>>
        BY <3>2 DEF PollKeyRaises
      <4>2. QED
        BY <1>0, <1>1, <2>1, <2>2, <4>1, QuitStill DEF QuitInv
    <3>3. QED
      BY <2>3, <3>1, <3>2 DEF Poll
  <2>4. CASE ~Poll
    <3>1. UNCHANGED <<stdin, unread, inHand, pipedKeys>>
      BY <1>2, <2>4
         DEF Main, StartUp, Load, SetupUdp, SetUpStack, Announce, InstallHandlers, LoopHead, StackTick,
             Simulate, Sleep, Restore, RestoreInput, ShutDown, keyboardVars
    <3>2. QED
      BY <1>0, <1>1, <2>1, <2>2, <3>1, QuitStill DEF QuitInv
  <2>5. QED
    BY <2>3, <2>4
<1>3. CASE Signal
  <2>1. UNCHANGED <<stdin, unread, inHand, pipedKeys, harness>>
    BY <1>3 DEF Signal, keyboardVars
  <2>2. QuitHeard => QuitHeard'
    BY <1>3 DEF QuitHeard, Signal, Exit, Closing
  <2>3. QED
    BY <1>0, <1>1, <2>1, <2>2, QuitStill DEF QuitInv
<1>4. CASE WaitReady \/ NeverReady \/ Stopped \/ Kill
  <2>1. UNCHANGED <<stdin, unread, inHand, pipedKeys>> /\ harness' # "stopping"
    BY <1>4 DEF WaitReady, NeverReady, Stopped, Kill, HarnessStep, keyboardVars
  <2>2. QED
    BY <1>0, <1>1, <2>1, QuitStill DEF QuitInv
<1>5. CASE Press
  <2>1. harness' # "stopping" /\ TypeKey
    BY <1>5 DEF Press
  <2>2. QED
    BY <1>0, <1>1, <2>1, TypingKeepsBytes DEF QuitInv
<1>6. CASE StopWithQ
  BY <1>0, <1>1, <1>6, StopTypesQuit DEF QuitInv
<1>7. CASE PipedThread /\ pc # "exited" /\ UNCHANGED <<mainVars, pending, harness>>
  <2>1. harness' = harness /\ (QuitHeard => QuitHeard')
    BY <1>7 DEF QuitHeard, mainVars
  <2>2. QED
    BY <1>0, <1>1, <1>7, <2>1, ThreadHandsOn DEF QuitInv
<1>8. CASE UNCHANGED processVars
  <2>1. UNCHANGED <<stdin, unread, inHand, pipedKeys, harness>> /\ (QuitHeard => QuitHeard')
    BY <1>8 DEF QuitHeard, processVars, mainVars, keyboardVars
  <2>2. QED
    BY <1>0, <1>1, <2>1, QuitStill DEF QuitInv
<1>9. QED
  BY <1>2, <1>3, <1>4, <1>5, <1>6, <1>7, <1>8 DEF ProcessNext, Harness

-----------------------------------------------------------------------------
\* The theorems

LEMMA InitTyped == ProcessInit => Types /\ SetUpInv
<1>1. Len(SetupCalls) = 13
  BY DEF SetupCalls
<1>2. ProcessInit => KeysTyped
  BY DEF ProcessInit, KeyboardInit, KeysTyped
<1>3. ASSUME ProcessInit PROVE TypeOK
  <2>1. setUp \in 0..Len(SetupCalls)
    BY <1>1, <1>3 DEF ProcessInit
  <2>2. QED
    BY <1>3, <2>1 DEF ProcessInit, KeyboardInit, TypeOK
<1>4. ProcessInit => SetUpInv
  BY DEF ProcessInit, SetUpInv, LoopSteps, Closing
<1>5. QED
  BY <1>2, <1>3, <1>4 DEF Types

\* Whatever fails and whatever is typed, every variable keeps its type
\* (main(), _configure_input, poll_key, restore_input, start and stop).
THEOREM TypeCorrect == ProcessSpec => []TypeOK
<1>1. Types /\ SetUpInv /\ [ProcessNext]_processVars => (Types /\ SetUpInv)'
  BY StepTyped, StepSetsUp
<1>2. Types => TypeOK
  BY DEF Types
<1>3. QED
  BY InitTyped, <1>1, <1>2, PTL DEF ProcessSpec

\* start() lets a test loose on a sensor whose thirteen set-up calls have all
\* succeeded and whose port is bound, or on one that has ended since.
THEOREM TestedIsComplete == ProcessSpec => []TestedSensorIsComplete
<1>1. Types /\ SetUpInv /\ [ProcessNext]_processVars => (Types /\ SetUpInv)'
  BY StepTyped, StepSetsUp
<1>2. Types /\ SetUpInv => TestedSensorIsComplete
  BY DEF Types, TypeOK, SetUpInv, TestedSensorIsComplete, Closing
<1>3. QED
  BY InitTyped, <1>1, <1>2, PTL DEF ProcessSpec

\* The inductive invariant: the types, how far set-up has come, what there is
\* to undo, and where the 'q' of stop() is.
THEOREM Inductive ==
  ASSUME OneKeyAtATime
  PROVE  ProcessSpec => []IInv
<1>1. ProcessInit => IInv
  <2>1. ProcessInit => UndoInv /\ QuitInv
    BY DEF ProcessInit, KeyboardInit, UndoInv, QuitInv, BytesInv, WholeKeys, TerminalLeftAsFound,
           LoopSteps, Starting
  <2>2. QED
    BY <2>1, InitTyped DEF IInv
<1>2. IInv /\ [ProcessNext]_processVars => IInv'
  BY OneKeyAtATime, StepTyped, StepSetsUp, StepUndoes, StepQuits DEF IInv
<1>3. QED
  BY <1>1, <1>2, PTL DEF ProcessSpec

\* However main() ends, restore_input() has undone what _configure_input()
\* did: no signal and no harness ends it in between.
THEOREM TerminalRestored ==
  ASSUME OneKeyAtATime
  PROVE  ProcessSpec => []TerminalLeftAsFound
<1>1. IInv => TerminalLeftAsFound
  BY DEF IInv, UndoInv
<1>2. QED
  BY OneKeyAtATime, <1>1, Inductive, PTL

\* stop() kills no process that has printed its ready line: the 'q' it types
\* is heard, whatever was typed before it.
THEOREM StopHeard ==
  ASSUME OneKeyAtATime
  PROVE  ProcessSpec => []StopIsGraceful
<1>1. IInv => StopIsGraceful
  BY DEF IInv, QuitInv, StopIsGraceful
<1>2. QED
  BY OneKeyAtATime, <1>1, Inductive, PTL

\* main.py:813: a signal that comes once the loop runs lets the pass finish,
\* and only an exception ends a pass.
THEOREM PassesFinish ==
  ASSUME OneKeyAtATime
  PROVE  ProcessSpec => NoSignalEndsAPass
<1> DEFINE Fine == (pc \in LoopSteps /\ pc' \notin LoopSteps) => (pc = "loop" \/ exit' = "raising")
<1>1. IInv /\ [ProcessNext]_processVars => [Fine]_processVars
  <2> SUFFICES ASSUME IInv, ProcessNext, pc \in LoopSteps, pc' \notin LoopSteps
               PROVE  pc = "loop" \/ exit' = "raising"
    OBVIOUS
  <2>1. CASE Main
    BY <2>1 DEF Main, StartUp, Load, SetupUdp, SetUpStack, Announce, InstallHandlers, LoopHead,
                StackTick, Simulate, Poll, Sleep, Restore, ShutDown, LoopSteps
  <2>2. CASE Signal
    <3>1. handled = {"SIGINT", "SIGTERM"} /\ pending \subseteq handled
      BY SignalsAssumption DEF IInv, SetUpInv, Types, TypeOK
    <3>2. pc' = pc
      BY <2>2, <3>1 DEF Signal
    <3>3. QED
      BY <3>2
  <2>3. CASE Kill
    BY <2>3, LoopNotKilled DEF IInv, LoopSteps
  <2>4. CASE pc' = pc
    BY <2>4
  <2>5. QED
    BY <2>1, <2>2, <2>3, <2>4
       DEF ProcessNext, Harness, WaitReady, NeverReady, Press, StopWithQ, Stopped, mainVars
<1>2. QED
  BY OneKeyAtATime, <1>1, Inductive, PTL DEF ProcessSpec, NoSignalEndsAPass

-----------------------------------------------------------------------------
\* The commands are those of the keys, in their order

\* What one more key adds to the commands of those before it.
MeantNext(upTo, keys, i) ==
  IF i = 0 THEN <<>>
  ELSE IF Meaning(keys[i]) = "none" THEN upTo[i - 1]
       ELSE Append(upTo[i - 1], Meaning(keys[i]))

\* Every sequence of keys means something.
LEMMA MeantExists ==
  ASSUME NEW S, NEW keys \in Seq(S)
  PROVE  MeantBy(keys) = [i \in 0..Len(keys) |-> MeantNext(MeantBy(keys), keys, i)]
<1> DEFINE N == Len(keys)
           Recursion(f, k) == f = [i \in 0..k |-> MeantNext(f, keys, i)]
           Defined == {k \in 0..N : \E f : Recursion(f, k)}
<1>1. N \in Nat
  OBVIOUS
<1>2. 0 \in Defined
  <2>1. Recursion([i \in 0..0 |-> <<>>], 0)
    BY DEF MeantNext
  <2>2. QED
    BY <2>1, <1>1
<1>3. ASSUME NEW k \in 1..N, k - 1 \in Defined
      PROVE  k \in Defined
  <2>1. PICK f : Recursion(f, k - 1)
    BY <1>3
  <2> DEFINE g == [i \in 0..k |-> IF i = k THEN MeantNext(f, keys, k) ELSE f[i]]
  <2>2. ASSUME NEW i \in 0..k
        PROVE  g[i] = MeantNext(g, keys, i)
    <3>1. CASE i = k
      BY <3>1 DEF MeantNext
    <3>2. CASE i # k
      <4>1. i \in 0..(k - 1)
        BY <3>2
      <4>2. f[i] = MeantNext(f, keys, i)
        BY <4>1, <2>1
      <4>3. i # 0 => g[i - 1] = f[i - 1]
        BY <4>1
      <4>4. QED
        BY <3>2, <4>2, <4>3 DEF MeantNext
    <3>3. QED
      BY <3>1, <3>2
  <2>3. Recursion(g, k)
    BY <2>2
  <2>4. k \in 0..N
    BY <1>1
  <2>5. QED
    BY <2>3, <2>4
<1>4. N \in Defined
  <2> HIDE DEF Defined
  <2>1. 0..N \subseteq Defined
    BY <1>1, <1>2, <1>3, UpTo
  <2>2. QED
    BY <1>1, <2>1
<1>5. MeantBy(keys) = CHOOSE f : Recursion(f, N)
  BY DEF MeantBy, MeantNext
<1>6. QED
  BY <1>4, <1>5

\* A key means a command or nothing.
LEMMA MeaningTyped ==
  /\ \A key : Meaning(key) \in AllCommands \union {"none"}
  /\ Meaning("h") = "help" /\ Meaning("q") = "quit" /\ Meaning("up") = "up"
  /\ Meaning("down") = "down" /\ Meaning("F2") = "none" /\ Meaning("other") = "none"
<1>1. \A key : Meaning(key) \in {"help", "quit", "up", "down", "none"}
  <2> TAKE key
  <2>1. CASE key \in {"up", "down"}
    BY <2>1, Zenon DEF Meaning
  <2>2. CASE key \notin {"up", "down"}
    BY <2>2, Zenon DEF Meaning
  <2>3. QED
    BY <2>1, <2>2
<1>2. /\ Meaning("h") = "help" /\ Meaning("q") = "quit" /\ Meaning("up") = "up"
      /\ Meaning("down") = "down" /\ Meaning("F2") = "none" /\ Meaning("other") = "none"
  BY Zenon DEF Meaning
<1>3. QED
  BY <1>1, <1>2 DEF AllCommands

LEMMA MeantTyped ==
  ASSUME NEW keys \in Seq(AllKeys)
  PROVE  \A i \in 0..Len(keys) : MeantBy(keys)[i] \in Seq(AllCommands)
<1> DEFINE M == MeantBy(keys)
           Fine == {i \in 0..Len(keys) : M[i] \in Seq(AllCommands)}
<1>1. M = [i \in 0..Len(keys) |-> MeantNext(M, keys, i)] /\ Len(keys) \in Nat
  BY MeantExists
<1> HIDE DEF M
<1>2. 0 \in Fine
  <2>1. M[0] = <<>>
    BY <1>1 DEF MeantNext
  <2>2. QED
    BY <1>1, <2>1
<1>3. ASSUME NEW k \in 1..Len(keys), k - 1 \in Fine
      PROVE  k \in Fine
  <2>1. k \in 0..Len(keys) /\ k # 0
    BY <1>1
  <2>2. M[k] = IF Meaning(keys[k]) = "none" THEN M[k - 1] ELSE Append(M[k - 1], Meaning(keys[k]))
    BY <1>1, <2>1 DEF MeantNext
  <2>3. M[k - 1] \in Seq(AllCommands)
    BY <1>3
  <2>4. Meaning(keys[k]) # "none" => Meaning(keys[k]) \in AllCommands
    BY MeaningTyped
  <2>5. Meaning(keys[k]) # "none" => Append(M[k - 1], Meaning(keys[k])) \in Seq(AllCommands)
    BY <2>3, <2>4, AppendProperties
  <2>6. QED
    BY <2>1, <2>2, <2>3, <2>5
<1>4. 0..Len(keys) \subseteq Fine
  <2> HIDE DEF Fine
  <2>1. QED
    BY <1>1, <1>2, <1>3, UpTo
<1>5. QED
  BY <1>4 DEF M

\* Typing on changes nothing of what was meant before, and adds the key's.
LEMMA MeantGrows ==
  ASSUME NEW keys \in Seq(AllKeys), NEW key \in AllKeys
  PROVE  \A i \in 0..Len(keys) : MeantBy(Append(keys, key))[i] = MeantBy(keys)[i]
<1> DEFINE more == Append(keys, key)
           M == MeantBy(keys)
           P == MeantBy(more)
           Same == {i \in 0..Len(keys) : P[i] = M[i]}
<1>1. /\ Len(keys) \in Nat /\ more \in Seq(AllKeys) /\ Len(more) = Len(keys) + 1
      /\ \A i \in 1..Len(keys) : more[i] = keys[i]
  BY AppendProperties
<1> HIDE DEF more
<1>2. M = [i \in 0..Len(keys) |-> MeantNext(M, keys, i)]
  BY MeantExists
<1>3. P = [i \in 0..Len(more) |-> MeantNext(P, more, i)]
  BY <1>1, MeantExists
<1> HIDE DEF M, P
<1>4. 0 \in Same
  <2>1. M[0] = <<>> /\ P[0] = <<>>
    BY <1>1, <1>2, <1>3 DEF MeantNext
  <2>2. QED
    BY <1>1, <2>1
<1>5. ASSUME NEW k \in 1..Len(keys), k - 1 \in Same
      PROVE  k \in Same
  <2>1. k \in 0..Len(keys) /\ k \in 0..Len(more) /\ k # 0 /\ more[k] = keys[k] /\ P[k - 1] = M[k - 1]
    BY <1>1, <1>5
  <2>2. M[k] = MeantNext(M, keys, k) /\ P[k] = MeantNext(P, more, k)
    BY <1>2, <1>3, <2>1
  <2>3. QED
    BY <2>1, <2>2 DEF MeantNext
<1>6. 0..Len(keys) \subseteq Same
  <2> HIDE DEF Same
  <2>1. QED
    BY <1>1, <1>4, <1>5, UpTo
<1>7. QED
  BY <1>6 DEF M, P, more

\* r begins as s does: s has all of r, and perhaps more.
Begins(r, s) == Len(r) <= Len(s) /\ \A a \in 1..Len(r) : s[a] = r[a]

\* What the first keys mean begins what more of them mean.
LEMMA MeantBegins ==
  ASSUME NEW keys \in Seq(AllKeys), NEW n \in 0..Len(keys)
  PROVE  Begins(MeantBy(keys)[n], MeantBy(keys)[Len(keys)])
<1> DEFINE M == MeantBy(keys)
           d == Len(keys) - n
           Fine == {i \in 0..d : Begins(M[n], M[n + i])}
<1>1. M = [i \in 0..Len(keys) |-> MeantNext(M, keys, i)] /\ Len(keys) \in Nat /\ d \in Nat
  BY MeantExists
<1>2. \A i \in 0..Len(keys) : M[i] \in Seq(AllCommands) /\ Len(M[i]) \in Nat
  BY MeantTyped
<1> HIDE DEF M
<1>3. 0 \in Fine
  BY <1>1, <1>2 DEF Begins
<1>4. ASSUME NEW k \in 1..d, k - 1 \in Fine
      PROVE  k \in Fine
  <2> DEFINE i == n + k
             r == M[i - 1]
             c == Meaning(keys[i])
  <2>1. i \in 1..Len(keys) /\ i - 1 \in 0..Len(keys) /\ i \in 0..Len(keys) /\ i # 0 /\ n + (k - 1) = i - 1 /\ k \in 0..d
    BY <1>1
  <2>2. Begins(M[n], r)
    BY <1>4, <2>1
  <2>3. M[i] = IF c = "none" THEN r ELSE Append(r, c)
    BY <1>1, <2>1 DEF MeantNext
  <2>4. r \in Seq(AllCommands) /\ Len(r) \in Nat /\ Len(M[n]) \in Nat
    BY <1>2, <2>1
  <2>5. c # "none" => c \in AllCommands
    BY MeaningTyped
  <2> HIDE DEF r, c
  <2>6. Begins(M[n], M[i])
    <3>1. CASE c = "none"
      BY <2>2, <2>3, <3>1
    <3>2. CASE c # "none"
      <4>1. Len(Append(r, c)) = Len(r) + 1 /\ \A a \in 1..Len(r) : Append(r, c)[a] = r[a]
        BY <2>4, <2>5, <3>2, AppendProperties
      <4>2. QED
        BY <2>2, <2>3, <2>4, <3>2, <4>1 DEF Begins
    <3>3. QED
      BY <3>1, <3>2
  <2>7. QED
    BY <2>1, <2>6
<1>5. 0..d \subseteq Fine
  <2> HIDE DEF Fine, d
  <2>1. QED
    BY <1>1, <1>3, <1>4, UpTo
<1>6. n + d = Len(keys) /\ d \in 0..d
  BY <1>1
<1>7. QED
  BY <1>5, <1>6 DEF M

-----------------------------------------------------------------------------
\* What waits to be read is the bytes of the keys after the first n: at[j] is
\* where those of the j-th end.
AreKeys(kind, bytes, keys, n) ==
  \E at \in [n..Len(keys) -> 0..Len(bytes)] :
     /\ at[n] = 0 /\ at[Len(keys)] = Len(bytes)
     /\ \A j \in (n + 1)..Len(keys) :
           /\ at[j] = at[j - 1] + Len(Bytes(kind, keys[j]))
           /\ \A b \in 1..Len(Bytes(kind, keys[j])) : bytes[at[j - 1] + b] = Bytes(kind, keys[j])[b]

\* Nothing waits: every key has been read.
LEMMA NoneWaits ==
  ASSUME NEW kind, NEW keys \in Seq(AllKeys), NEW n \in 0..Len(keys), AreKeys(kind, <<>>, keys, n)
  PROVE  n = Len(keys)
<1>1. SUFFICES ASSUME n < Len(keys) PROVE FALSE
  OBVIOUS
<1>2. PICK at \in [n..Len(keys) -> 0..Len(<<>>)] :
         /\ at[n] = 0
         /\ \A j \in (n + 1)..Len(keys) : at[j] = at[j - 1] + Len(Bytes(kind, keys[j]))
  BY DEF AreKeys
<1>3. n + 1 \in (n + 1)..Len(keys) /\ n + 1 \in n..Len(keys) /\ (n + 1) - 1 = n /\ n + 1 \in 1..Len(keys)
  BY <1>1
<1> DEFINE m == Len(Bytes(kind, keys[n + 1]))
           end == at[n + 1]
<1>4. m \in 1..3
  BY <1>3, KeyBytes
<1>5. end = 0 + m
  BY <1>2, <1>3
<1>6. end \in 0..0
  <2>1. Len(<<>>) = 0
    OBVIOUS
  <2>2. QED
    BY <1>2, <1>3, <2>1
<1> HIDE DEF m, end
<1>7. QED
  BY <1>4, <1>5, <1>6

\* The first key that waits, and what waits after it.
LEMMA FirstWaits ==
  ASSUME NEW kind, NEW keys \in Seq(AllKeys), NEW n \in 0..Len(keys),
         NEW bytes \in Seq(AllBytes), bytes # <<>>, AreKeys(kind, bytes, keys, n)
  PROVE  /\ n < Len(keys) /\ keys[n + 1] \in AllKeys
         /\ Len(Bytes(kind, keys[n + 1])) <= Len(bytes)
         /\ \A b \in 1..Len(Bytes(kind, keys[n + 1])) : bytes[b] = Bytes(kind, keys[n + 1])[b]
         /\ \A rest \in Seq(AllBytes) :
               (/\ Len(rest) = Len(bytes) - Len(Bytes(kind, keys[n + 1]))
                /\ \A b \in 1..Len(rest) : rest[b] = bytes[Len(Bytes(kind, keys[n + 1])) + b])
               => AreKeys(kind, rest, keys, n + 1)
<1> DEFINE N == Len(keys)
           L == Len(bytes)
           m == Len(Bytes(kind, keys[n + 1]))
<1>1. PICK at \in [n..N -> 0..L] :
         /\ at[n] = 0 /\ at[N] = L
         /\ \A j \in (n + 1)..N :
               /\ at[j] = at[j - 1] + Len(Bytes(kind, keys[j]))
               /\ \A b \in 1..Len(Bytes(kind, keys[j])) : bytes[at[j - 1] + b] = Bytes(kind, keys[j])[b]
  BY DEF AreKeys
<1>2. N \in Nat /\ L \in Nat /\ L # 0
  OBVIOUS
<1>3. n < N
  BY <1>1, <1>2
<1>4. n + 1 \in (n + 1)..N /\ n + 1 \in n..N /\ (n + 1) - 1 = n /\ n + 1 \in 1..N
  BY <1>2, <1>3
<1>5. keys[n + 1] \in AllKeys
  BY <1>4
<1>6. m \in 1..3
  BY <1>5, KeyBytes
<1>7. at[n + 1] = m /\ m <= L
  <2>1. at[n + 1] = 0 + m /\ at[n + 1] \in 0..L
    BY <1>1, <1>4
  <2>2. QED
    BY <2>1, <1>2, <1>6
<1>8. \A b \in 1..m : bytes[b] = Bytes(kind, keys[n + 1])[b]
  <2>1. \A b \in 1..m : bytes[0 + b] = Bytes(kind, keys[n + 1])[b]
    BY <1>1, <1>4
  <2>2. \A b \in 1..m : 0 + b = b
    BY <1>6
  <2>3. QED
    BY <2>1, <2>2
<1> HIDE DEF m
<1>9. ASSUME NEW rest \in Seq(AllBytes), Len(rest) = L - m,
             \A b \in 1..Len(rest) : rest[b] = bytes[m + b]
      PROVE  AreKeys(kind, rest, keys, n + 1)
  <2> DEFINE now == [j \in (n + 1)..N |-> at[j] - m]
  <2>0. \A j \in (n + 1)..N : j \in n..N /\ j \in 1..N /\ at[j] \in 0..L /\ Len(Bytes(kind, keys[j])) \in 1..3
    BY <1>1, <1>2, KeyBytes
  <2>1. \A j \in (n + 1)..N : at[j] >= m
    <3> DEFINE D == N - (n + 1)
               Above == {i \in 0..D : at[n + 1 + i] >= m}
    <3>1. D \in Nat
      BY <1>2, <1>3
    <3>2. 0 \in Above
      <4>1. n + 1 + 0 = n + 1
        BY <1>2
      <4>2. QED
        BY <3>1, <4>1, <1>6, <1>7
    <3>3. ASSUME NEW k \in 1..D, k - 1 \in Above PROVE k \in Above
      <4> DEFINE j == n + 1 + k
      <4>1. j \in (n + 1)..N /\ j - 1 \in (n + 1)..N /\ j - 1 = n + 1 + (k - 1) /\ k \in 0..D
        BY <1>2, <1>3
      <4>2. at[j - 1] >= m
        BY <3>3, <4>1
      <4>3. at[j] = at[j - 1] + Len(Bytes(kind, keys[j]))
        BY <1>1, <4>1
      <4>4. at[j] >= m
        BY <1>6, <2>0, <4>1, <4>2, <4>3
      <4>5. QED
        BY <4>1, <4>4
    <3>4. 0..D \subseteq Above
      <4> HIDE DEF Above, D
      <4>1. QED
        BY <3>1, <3>2, <3>3, UpTo
    <3>5. ASSUME NEW j \in (n + 1)..N PROVE at[j] >= m
      <4>1. j - (n + 1) \in 0..D /\ n + 1 + (j - (n + 1)) = j
        BY <1>2, <1>3
      <4>2. QED
        BY <3>4, <4>1
    <3>6. QED
      BY <3>5
  <2>2. \A j \in (n + 1)..N : now[j] \in 0..Len(rest)
    BY <1>2, <1>6, <1>7, <1>9, <2>0, <2>1
  <2>3. now \in [(n + 1)..N -> 0..Len(rest)]
    BY <2>2
  <2>4. now[n + 1] = 0 /\ now[N] = Len(rest)
    <3>1. N \in (n + 1)..N
      BY <1>2, <1>3
    <3>2. QED
      BY <1>1, <1>2, <1>4, <1>6, <1>7, <1>9, <3>1
  <2>5. ASSUME NEW j \in (n + 1 + 1)..N
        PROVE  /\ now[j] = now[j - 1] + Len(Bytes(kind, keys[j]))
               /\ \A b \in 1..Len(Bytes(kind, keys[j])) : rest[now[j - 1] + b] = Bytes(kind, keys[j])[b]
    <3>1. j \in (n + 1)..N /\ j - 1 \in (n + 1)..N
      BY <1>2, <1>3
    <3>2. at[j] = at[j - 1] + Len(Bytes(kind, keys[j]))
      BY <1>1, <3>1
    <3>3. now[j] = at[j] - m /\ now[j - 1] = at[j - 1] - m
      BY <3>1
    <3>4. now[j] = now[j - 1] + Len(Bytes(kind, keys[j]))
      BY <1>6, <2>0, <3>1, <3>2, <3>3
    <3>5. ASSUME NEW b \in 1..Len(Bytes(kind, keys[j]))
          PROVE  rest[now[j - 1] + b] = Bytes(kind, keys[j])[b]
      <4>1. now[j - 1] + b \in 1..Len(rest) /\ m + (now[j - 1] + b) = at[j - 1] + b
        <5>1. now[j] \in 0..Len(rest) /\ now[j - 1] \in 0..Len(rest)
          BY <2>2, <3>1
        <5>2. Len(Bytes(kind, keys[j])) \in 1..3 /\ at[j - 1] \in 0..L
          BY <2>0, <3>1
        <5> HIDE DEF now
        <5>3. QED
          BY <1>6, <3>3, <3>4, <5>1, <5>2
      <4>2. rest[now[j - 1] + b] = bytes[at[j - 1] + b]
        <5> HIDE DEF now
        <5>1. QED
          BY <1>9, <4>1
      <4>3. bytes[at[j - 1] + b] = Bytes(kind, keys[j])[b]
        BY <1>1, <3>1
      <4>4. QED
        BY <4>2, <4>3
    <3>6. QED
      BY <3>4, <3>5
  <2> HIDE DEF now
  <2>6. QED
    BY <2>3, <2>4, <2>5 DEF AreKeys
<1>10. QED
  BY <1>3, <1>5, <1>7, <1>8, <1>9 DEF m

\* One more key is typed.
LEMMA OneMoreWaits ==
  ASSUME NEW kind, NEW keys \in Seq(AllKeys), NEW n \in 0..Len(keys), NEW key \in AllKeys,
         NEW bytes \in Seq(AllBytes), AreKeys(kind, bytes, keys, n)
  PROVE  AreKeys(kind, bytes \o Bytes(kind, key), Append(keys, key), n)
<1> DEFINE N == Len(keys)
           L == Len(bytes)
           more == Append(keys, key)
           both == bytes \o Bytes(kind, key)
           m == Len(Bytes(kind, key))
<1>1. PICK at \in [n..N -> 0..L] :
         /\ at[n] = 0 /\ at[N] = L
         /\ \A j \in (n + 1)..N :
               /\ at[j] = at[j - 1] + Len(Bytes(kind, keys[j]))
               /\ \A b \in 1..Len(Bytes(kind, keys[j])) : bytes[at[j - 1] + b] = Bytes(kind, keys[j])[b]
  BY DEF AreKeys
<1>2. N \in Nat /\ L \in Nat /\ n \in Nat /\ n <= N
  OBVIOUS
<1>3. /\ Len(more) = N + 1 /\ more[N + 1] = key
      /\ \A j \in 1..N : more[j] = keys[j]
  BY AppendProperties
<1>4. m \in 1..3 /\ Bytes(kind, key) \in Seq(AllBytes)
  BY KeyBytes
<1>5. /\ Len(both) = L + m
      /\ \A i \in 1..L : both[i] = bytes[i]
      /\ \A b \in 1..m : both[L + b] = Bytes(kind, key)[b]
  <2>1. /\ Len(both) = L + m
        /\ \A i \in 1..(L + m) : both[i] = IF i <= L THEN bytes[i] ELSE Bytes(kind, key)[i - L]
    BY <1>4, ConcatProperties
  <2> HIDE DEF both, m
  <2>2. \A i \in 1..L : i \in 1..(L + m) /\ i <= L
    BY <1>2, <1>4
  <2>3. \A b \in 1..m : L + b \in 1..(L + m) /\ ~(L + b <= L) /\ (L + b) - L = b
    BY <1>2, <1>4
  <2>4. QED
    BY <2>1, <2>2, <2>3
<1> DEFINE now == [j \in n..(N + 1) |-> IF j = N + 1 THEN L + m ELSE at[j]]
<1> HIDE DEF more, both
<1>6. now \in [n..Len(more) -> 0..Len(both)]
  <2> HIDE DEF m
  <2>1. ASSUME NEW j \in n..(N + 1) PROVE now[j] \in 0..(L + m)
    <3>1. CASE j = N + 1
      BY <1>2, <1>4, <3>1
    <3>2. CASE j # N + 1
      <4>1. j \in n..N
        BY <1>2, <3>2
      <4>2. at[j] \in 0..L
        BY <1>1, <4>1
      <4>3. QED
        BY <1>2, <1>4, <3>2, <4>2
    <3>3. QED
      BY <3>1, <3>2
  <2>2. QED
    BY <1>3, <1>5, <2>1
<1>7. now[n] = 0 /\ now[N + 1] = L + m
  <2>1. n # N + 1 /\ n \in n..(N + 1) /\ N + 1 \in n..(N + 1)
    BY <1>2
  <2>2. QED
    BY <1>1, <2>1
<1>8. ASSUME NEW j \in (n + 1)..(N + 1)
      PROVE  /\ now[j] = now[j - 1] + Len(Bytes(kind, more[j]))
             /\ \A b \in 1..Len(Bytes(kind, more[j])) : both[now[j - 1] + b] = Bytes(kind, more[j])[b]
  <2>0. j - 1 \in n..N /\ j - 1 # N + 1 /\ j - 1 \in n..(N + 1) /\ now[j - 1] = at[j - 1]
    BY <1>2
  <2>1. CASE j = N + 1
    <3>1. now[j] = L + m /\ now[j - 1] = L /\ more[j] = key
      BY <1>1, <1>2, <1>3, <2>0, <2>1
    <3> HIDE DEF now
    <3>2. QED
      BY <1>5, <3>1
  <2>2. CASE j # N + 1
    <3>1. j \in (n + 1)..N /\ j \in 1..N /\ j \in n..(N + 1) /\ j \in n..N
      BY <1>2, <2>2
    <3>2. now[j] = at[j] /\ more[j] = keys[j]
      BY <1>3, <2>2, <3>1
    <3>3. /\ at[j] = at[j - 1] + Len(Bytes(kind, keys[j]))
          /\ \A b \in 1..Len(Bytes(kind, keys[j])) : bytes[at[j - 1] + b] = Bytes(kind, keys[j])[b]
      BY <1>1, <3>1
    <3> HIDE DEF now
    <3>4. \A b \in 1..Len(Bytes(kind, keys[j])) : at[j - 1] + b \in 1..L
      <4>1. Len(Bytes(kind, keys[j])) \in 1..3
        BY <3>1, KeyBytes
      <4>2. at[j] \in 0..L /\ at[j - 1] \in 0..L
        BY <1>1, <2>0, <3>1
      <4>3. QED
        BY <1>2, <3>3, <4>1, <4>2
    <3>5. QED
      BY <1>5, <2>0, <3>2, <3>3, <3>4
  <2>3. QED
    BY <2>1, <2>2
<1> HIDE DEF now
<1>9. AreKeys(kind, both, more, n)
  <2>1. /\ now[n] = 0 /\ now[Len(more)] = Len(both)
        /\ \A j \in (n + 1)..Len(more) :
              /\ now[j] = now[j - 1] + Len(Bytes(kind, more[j]))
              /\ \A b \in 1..Len(Bytes(kind, more[j])) : both[now[j - 1] + b] = Bytes(kind, more[j])[b]
    BY <1>3, <1>5, <1>7, <1>8
  <2>2. QED
    BY <1>6, <2>1 DEF AreKeys
<1>10. QED
  BY <1>9 DEF both, more

\* Once the last key has been read nothing waits, and the other way round.
LEMMA LastRead ==
  ASSUME NEW kind, NEW keys \in Seq(AllKeys)
  PROVE  /\ AreKeys(kind, <<>>, keys, Len(keys))
         /\ \A bytes \in Seq(AllBytes) : AreKeys(kind, bytes, keys, Len(keys)) => bytes = <<>>
<1> DEFINE N == Len(keys)
           at == [j \in N..N |-> 0]
<1>1. N \in Nat /\ Len(<<>>) = 0 /\ (N + 1)..N = {}
  OBVIOUS
<1>2. at \in [N..N -> 0..Len(<<>>)] /\ at[N] = 0
  BY <1>1
<1> HIDE DEF at
<1>3. AreKeys(kind, <<>>, keys, Len(keys))
  BY <1>1, <1>2 DEF AreKeys
<1>4. ASSUME NEW bytes \in Seq(AllBytes), AreKeys(kind, bytes, keys, N) PROVE bytes = <<>>
  <2>1. Len(bytes) = 0
    BY <1>4 DEF AreKeys
  <2>2. QED
    BY <2>1
<1>5. QED
  BY <1>3, <1>4

\* What one more key adds to what was meant.
LEMMA MeantByOneMore ==
  ASSUME NEW keys \in Seq(AllKeys), NEW k \in 0..Len(keys), k < Len(keys)
  PROVE  /\ MeantBy(keys)[k] \in Seq(AllCommands)
         /\ MeantBy(keys)[k + 1] = IF Meaning(keys[k + 1]) = "none" THEN MeantBy(keys)[k]
                                   ELSE Append(MeantBy(keys)[k], Meaning(keys[k + 1]))
<1> DEFINE M == MeantBy(keys)
<1>1. M = [i \in 0..Len(keys) |-> MeantNext(M, keys, i)]
  BY MeantExists
<1>2. k + 1 \in 0..Len(keys) /\ k + 1 # 0 /\ (k + 1) - 1 = k
  OBVIOUS
<1>3. M[k] \in Seq(AllCommands)
  BY MeantTyped
<1> HIDE DEF M
<1>4. QED
  BY <1>1, <1>2, <1>3 DEF MeantNext, M

\* What is made of the bytes of a key is what it means, on each kind of stdin.
LEMMA DecodedAsMeant ==
  ASSUME NEW kind, NEW key \in AllKeys
  PROVE  /\ kind # "windowsConsole" => Decoded(Bytes(kind, key)) = Meaning(key)
         /\ kind = "windowsConsole"
              => LET bytes == Bytes(kind, key)
                 IN  IF Prefix(bytes[1])
                     THEN Len(bytes) = 2 /\ ArrowKey(bytes[2], "H", "P") = Meaning(key)
                     ELSE Len(bytes) = 1 /\ LetterKey(bytes[1]) = Meaning(key)
         /\ key \in {"h", "q", "other"} => Bytes(kind, key) = <<key>> /\ LetterKey(key) = Meaning(key)
<1>1. /\ LetterKey("h") = "help" /\ LetterKey("q") = "quit" /\ LetterKey("other") = "none"
      /\ LetterKey("ESC") = "none"
  BY Zenon DEF LetterKey
<1>2. /\ ArrowKey("H", "H", "P") = "up" /\ ArrowKey("P", "H", "P") = "down" /\ ArrowKey("<", "H", "P") = "none"
      /\ ArrowKey("A", "A", "B") = "up" /\ ArrowKey("B", "A", "B") = "down"
  BY Zenon DEF ArrowKey
<1>3. CASE key \in {"h", "q", "other"}
  <2>1. Bytes(kind, key) = <<key>>
    BY <1>3, Zenon DEF Bytes
  <2>2. QED
    BY <1>1, <1>3, <2>1, MeaningTyped DEF Decoded, Prefix
<1>4. CASE kind = "windowsConsole" /\ key \notin {"h", "q", "other"}
  <2>1. CASE key = "up"
    <3>1. Bytes(kind, key) = <<"E0", "H">>
      BY <1>4, <2>1, Zenon DEF Bytes
    <3>2. QED
      BY <1>2, <1>4, <2>1, <3>1, MeaningTyped DEF Prefix
  <2>2. CASE key = "down"
    <3>1. Bytes(kind, key) = <<"E0", "P">>
      BY <1>4, <2>2, Zenon DEF Bytes
    <3>2. QED
      BY <1>2, <1>4, <2>2, <3>1, MeaningTyped DEF Prefix
  <2>3. CASE key = "F2"
    <3>1. Bytes(kind, key) = <<"00", "<">>
      BY <1>4, <2>3, Zenon DEF Bytes
    <3>2. QED
      BY <1>2, <1>4, <2>3, <3>1, MeaningTyped DEF Prefix
  <2>4. QED
    BY <1>4, <2>1, <2>2, <2>3 DEF AllKeys
<1>5. CASE kind # "windowsConsole" /\ key \notin {"h", "q", "other"}
  <2>1. CASE key = "up"
    <3>1. Bytes(kind, key) = <<"ESC", "[", "A">>
      BY <1>5, <2>1, Zenon DEF Bytes
    <3>2. QED
      BY <1>2, <1>5, <2>1, <3>1, MeaningTyped DEF Decoded
  <2>2. CASE key = "down"
    <3>1. Bytes(kind, key) = <<"ESC", "[", "B">>
      BY <1>5, <2>2, Zenon DEF Bytes
    <3>2. QED
      BY <1>2, <1>5, <2>2, <3>1, MeaningTyped DEF Decoded
  <2>3. CASE key = "F2"
    <3>1. Bytes(kind, key) = <<"ESC", "O", "Q">>
      BY <1>5, <2>3, Zenon DEF Bytes
    <3>2. QED
      BY <1>1, <1>5, <2>3, <3>1, MeaningTyped DEF Decoded
  <2>4. QED
    BY <1>5, <2>1, <2>2, <2>3 DEF AllKeys
<1>6. QED
  BY <1>3, <1>4, <1>5

-----------------------------------------------------------------------------
\* The first k keys have been heard, the bytes of the others wait.
HeardUpTo(k) ==
  /\ commands \o pipedKeys = MeantBy(typed)[k]
  /\ Posix => k + 1 >= Len(typed)
  /\ IF inHand = <<>> THEN AreKeys(stdin, unread, typed, k)
     ELSE k < Len(typed) /\ inHand = <<typed[k + 1]>> /\ AreKeys(stdin, unread, typed, k + 1)

HeardInv ==
  /\ stdin # "windowsPipe" => pipedKeys = <<>> /\ inHand = <<>>
  /\ stdin = "windowsPipe" => \A j \in 1..Len(typed) : typed[j] \in {"h", "q", "other"}
  /\ \E k \in 0..Len(typed) : HeardUpTo(k)

\* POSIX: poll_key hears the one key that waits.
LEMMA PosixHears ==
  ASSUME Types, BytesInv, HeardInv, Posix, PollPosix, UNCHANGED <<stdin, typed>>
  PROVE  HeardInv'
<1>0. KeysTyped /\ stdin # "windowsPipe" /\ stdin # "windowsConsole"
  BY DEF Types, Posix
<1>1. PICK k \in 0..Len(typed) : HeardUpTo(k)
  BY DEF HeardInv
<1>2. pipedKeys = <<>> /\ inHand = <<>> /\ pipedKeys' = <<>> /\ inHand' = <<>>
  BY <1>0 DEF HeardInv, PollPosix
<1>3. unread # <<>> /\ unread \in Seq(AllBytes) /\ AreKeys(stdin, unread, typed, k)
      /\ typed \in Seq(AllKeys) /\ commands = MeantBy(typed)[k]
  <2>1. commands \o pipedKeys = commands
    BY <1>0, <1>2, ConcatEmptySeq DEF KeysTyped
  <2>2. QED
    BY <1>0, <1>1, <1>2, <2>1 DEF HeardUpTo, PollPosix, KeysTyped
<1> DEFINE key == typed[k + 1]
           bytes == Bytes(stdin, key)
           m == Len(bytes)
           L == Len(unread)
<1>4. /\ k < Len(typed) /\ key \in AllKeys /\ k + 1 = Len(typed)
      /\ m <= L /\ \A b \in 1..m : unread[b] = bytes[b]
  <2>1. k < Len(typed) /\ key \in AllKeys /\ m <= L /\ \A b \in 1..m : unread[b] = bytes[b]
    <3>1. unread # <<>>
      BY <1>3
    <3>2. AreKeys(stdin, unread, typed, k) /\ unread \in Seq(AllBytes) /\ typed \in Seq(AllKeys)
      BY <1>3
    <3>3. QED
      BY <3>1, <3>2, FirstWaits, ZenonT(30)
  <2>2. k + 1 >= Len(typed)
    BY <1>1 DEF HeardUpTo
  <2>3. QED
    BY <1>3, <2>1, <2>2
<1>5. unread = Bytes(stdin, key)
  <2> DEFINE rest == SubSeq(unread, m + 1, L)
  <2>1. m \in 1..3 /\ Bytes(stdin, key) \in Seq(AllBytes) /\ L \in Nat
    BY <1>3, <1>4, KeyBytes
  <2>2. m <= L /\ \A b \in 1..m : unread[b] = Bytes(stdin, key)[b]
    BY <1>4
  <2>3. rest \in Seq(AllBytes) /\ Len(rest) = L - m /\ \A b \in 1..Len(rest) : rest[b] = unread[m + b]
    <3> HIDE DEF m
    <3>1. \A b \in (m + 1)..L : unread[b] \in AllBytes
      BY <1>3, <2>1
    <3>2. /\ rest \in Seq(AllBytes) /\ Len(rest) = (IF m + 1 <= L THEN L - (m + 1) + 1 ELSE 0)
          /\ \A b \in 1..(L - (m + 1) + 1) : rest[b] = unread[(m + 1) + b - 1]
      BY <2>1, <3>1, SubSeqProperties
    <3> HIDE DEF rest
    <3>3. Len(rest) = L - m /\ L - (m + 1) + 1 = L - m
      BY <2>1, <2>2, <3>2
    <3>4. \A b \in 1..(L - m) : (m + 1) + b - 1 = m + b
      BY <2>1
    <3>5. QED
      BY <3>2, <3>3, <3>4
  <2>4. AreKeys(stdin, rest, typed, k + 1)
    <3> HIDE DEF rest
    <3>1. QED
      BY <1>3, <2>3, FirstWaits
  <2>5. rest = <<>>
    <3> HIDE DEF rest
    <3>1. QED
      BY <1>3, <1>4, <2>3, <2>4, LastRead
  <2>6. L = m
    <3>1. Len(rest) = 0
      BY <2>5, Zenon, EmptySeq
    <3> HIDE DEF rest, m
    <3>2. QED
      BY <2>1, <2>3, <3>1
  <2>7. QED
    BY <1>3, <2>1, <2>2, <2>6, SeqEqual
<1>6. Typed = unread /\ unread' = <<>>
  BY PosixHearsQuit, PosixReadsAll
<1>7. Decoded(Typed) = Meaning(key)
  BY <1>0, <1>4, <1>5, <1>6, DecodedAsMeant
<1>8. commands' = MeantBy(typed)[k + 1]
  <2>1. commands' = IF Meaning(key) = "none" THEN commands ELSE Append(commands, Meaning(key))
    BY <1>7 DEF PollPosix, Report
  <2>2. QED
    BY <1>3, <1>4, <2>1, MeantByOneMore
<1>9. HeardUpTo(k + 1)'
  <2>1. commands' \o pipedKeys' = commands'
    <3>1. commands' \in Seq(AllCommands)
      BY <1>0, <1>7, CommandsTyped, Reported DEF PollPosix
    <3>2. QED
      BY <1>2, <3>1, ConcatEmptySeq
  <2>2. AreKeys(stdin, <<>>, typed, k + 1)
    BY <1>3, <1>4, LastRead
  <2>3. QED
    BY <1>2, <1>3, <1>4, <1>6, <1>8, <2>1, <2>2 DEF HeardUpTo
<1>10. k + 1 \in 0..Len(typed)
  BY <1>4
<1>11. QED
  BY <1>0, <1>2, <1>9, <1>10 DEF HeardInv

\* A console: poll_key hears the first key that waits.
LEMMA ConsoleHears ==
  ASSUME Types, HeardInv, stdin = "windowsConsole", unread # <<>>, PollConsole, UNCHANGED <<stdin, typed>>
  PROVE  HeardInv'
<1>0. KeysTyped /\ stdin # "windowsPipe"
  BY DEF Types
<1>1. PICK k \in 0..Len(typed) : HeardUpTo(k)
  BY DEF HeardInv
<1>2. pipedKeys = <<>> /\ inHand = <<>> /\ pipedKeys' = <<>> /\ inHand' = <<>>
  BY <1>0 DEF HeardInv, PollConsole
<1>3. unread \in Seq(AllBytes) /\ AreKeys(stdin, unread, typed, k)
      /\ typed \in Seq(AllKeys) /\ commands = MeantBy(typed)[k]
  <2>1. commands \o pipedKeys = commands
    BY <1>0, <1>2, ConcatEmptySeq DEF KeysTyped
  <2>2. QED
    BY <1>0, <1>1, <1>2, <2>1 DEF HeardUpTo, KeysTyped
<1> DEFINE key == typed[k + 1]
           bytes == Bytes(stdin, key)
           m == Len(bytes)
           L == Len(unread)
<1>4. k < Len(typed) /\ key \in AllKeys /\ m <= L /\ \A b \in 1..m : unread[b] = bytes[b]
  BY <1>3, FirstWaits
<1>5. m \in 1..3 /\ L \in Nat
  BY <1>3, <1>4, KeyBytes
<1>6. IF Prefix(bytes[1])
      THEN m = 2 /\ ArrowKey(bytes[2], "H", "P") = Meaning(key)
      ELSE m = 1 /\ LetterKey(bytes[1]) = Meaning(key)
  BY <1>4, DecodedAsMeant
<1>7. Head(unread) = bytes[1] /\ (m = 2 => unread[2] = bytes[2])
  <2>1. Head(unread) = unread[1]
    BY <1>3
  <2> HIDE DEF bytes
  <2>2. QED
    BY <1>4, <1>5, <2>1
<1>8. Report(Meaning(key)) /\ unread' = SubSeq(unread, m + 1, L)
  <2> HIDE DEF bytes, key
  <2>1. CASE Prefix(bytes[1])
    <3>1. Report(ArrowKey(unread[2], "H", "P")) /\ unread' = SubSeq(unread, 3, L)
      BY <1>7, <2>1, Zenon DEF PollConsole
    <3>2. m = 2 /\ ArrowKey(bytes[2], "H", "P") = Meaning(key)
      BY <1>6, <2>1, Zenon
    <3>3. m + 1 = 3
      BY <3>2
    <3>4. QED
      BY <1>7, <3>1, <3>2, <3>3, Zenon
  <2>2. CASE ~Prefix(bytes[1])
    <3>1. Report(LetterKey(bytes[1])) /\ unread' = SubSeq(unread, 2, L)
      BY <1>7, <2>2, Zenon DEF PollConsole
    <3>2. m = 1 /\ LetterKey(bytes[1]) = Meaning(key)
      BY <1>6, <2>2, Zenon
    <3>3. m + 1 = 2
      BY <3>2
    <3>4. QED
      BY <3>1, <3>2, <3>3, Zenon
  <2>3. QED
    BY <2>1, <2>2
<1>9. AreKeys(stdin, unread', typed, k + 1)
  <2> DEFINE rest == SubSeq(unread, m + 1, L)
  <2>1. m + 1 \in 1..(L + 1) /\ L - (m + 1) + 1 = L - m /\ \A b \in 1..(L - m) : (m + 1) + b - 1 = m + b
    <3> HIDE DEF m
    <3>1. QED
      BY <1>4, <1>5
  <2>2. /\ unread' \in Seq(AllBytes) /\ Len(unread') = L - (m + 1) + 1
        /\ \A b \in 1..(L - (m + 1) + 1) : unread'[b] = unread[(m + 1) + b - 1]
    <3> HIDE DEF m
    <3>1. QED
      BY <1>0, <1>8, <2>1, BytesDropped
  <2>3. Len(unread') = L - m /\ \A b \in 1..Len(unread') : unread'[b] = unread[m + b]
    <3> HIDE DEF m
    <3>1. QED
      BY <2>1, <2>2
  <2>4. QED
    BY <1>3, <2>2, <2>3, FirstWaits
<1>10. commands' \in Seq(AllCommands) /\ commands' = MeantBy(typed)[k + 1]
  <2>1. commands' = IF Meaning(key) = "none" THEN commands ELSE Append(commands, Meaning(key))
    BY <1>8 DEF Report
  <2>2. QED
    BY <1>0, <1>3, <1>4, <1>8, <2>1, MeantByOneMore, MeaningTyped, Reported
<1>11. HeardUpTo(k + 1)'
  <2>1. commands' \o pipedKeys' = commands'
    BY <1>2, <1>10, ConcatEmptySeq
  <2>2. QED
    BY <1>2, <1>9, <1>10, <2>1 DEF HeardUpTo, Posix
<1>12. k + 1 \in 0..Len(typed)
  BY <1>4
<1>13. QED
  BY <1>0, <1>2, <1>11, <1>12 DEF HeardInv

\* Taking the first of a queue and putting it at the end of what was taken.
LEMMA FirstMoves ==
  ASSUME NEW S, NEW taken \in Seq(S), NEW queue \in Seq(S), queue # <<>>
  PROVE  Append(taken, Head(queue)) \o Tail(queue) = taken \o queue
<1> DEFINE T == Len(taken)
           Q == Len(queue)
           p == Append(taken, Head(queue))
           t == Tail(queue)
<1>1. T \in Nat /\ Q \in Nat /\ Q # 0 /\ Head(queue) = queue[1] /\ Head(queue) \in S
  OBVIOUS
<1>2. p \in Seq(S) /\ Len(p) = T + 1 /\ p[T + 1] = queue[1] /\ \A a \in 1..T : p[a] = taken[a]
  BY <1>1, AppendProperties
<1>3. t \in Seq(S) /\ Len(t) = Q - 1 /\ \A a \in 1..(Q - 1) : t[a] = queue[a + 1]
  BY HeadTailProperties
<1> HIDE DEF p, t
<1>4. /\ p \o t \in Seq(S) /\ Len(p \o t) = Len(p) + Len(t)
      /\ \A a \in 1..(Len(p) + Len(t)) : (p \o t)[a] = IF a <= Len(p) THEN p[a] ELSE t[a - Len(p)]
  BY <1>2, <1>3, ConcatProperties
<1>5. /\ taken \o queue \in Seq(S) /\ Len(taken \o queue) = T + Q
      /\ \A a \in 1..(T + Q) : (taken \o queue)[a] = IF a <= T THEN taken[a] ELSE queue[a - T]
  BY ConcatProperties
<1>6. ASSUME NEW a \in 1..(T + Q) PROVE (p \o t)[a] = (taken \o queue)[a]
  <2>0. a \in 1..(Len(p) + Len(t))
    BY <1>1, <1>2, <1>3
  <2>1. CASE a <= T
    BY <1>1, <1>2, <1>4, <1>5, <2>0, <2>1
  <2>2. CASE a = T + 1
    <3>1. a <= Len(p) /\ ~(a <= T) /\ a - T = 1
      BY <1>1, <1>2, <2>2
    <3>2. QED
      BY <1>2, <1>4, <1>5, <2>0, <2>2, <3>1
  <2>3. CASE a > T + 1
    <3>1. ~(a <= Len(p)) /\ ~(a <= T) /\ a - Len(p) \in 1..(Q - 1) /\ (a - Len(p)) + 1 = a - T
      BY <1>1, <1>2, <2>3
    <3>2. QED
      BY <1>3, <1>4, <1>5, <2>0, <3>1
  <2>4. a <= T \/ a = T + 1 \/ a > T + 1
    BY <1>1
  <2>5. QED
    BY <2>1, <2>2, <2>3, <2>4
<1>7. Len(p \o t) = T + Q
  BY <1>1, <1>2, <1>3, <1>4
<1> DEFINE u == p \o t
           v == taken \o queue
<1>8. u \in Seq(S) /\ v \in Seq(S) /\ Len(u) = T + Q /\ Len(v) = T + Q /\ \A a \in 1..(T + Q) : u[a] = v[a]
  BY <1>4, <1>5, <1>6, <1>7
<1> HIDE DEF u, v
<1>9. u = v
  BY <1>8, SeqEqual
<1>10. QED
  BY <1>9 DEF u, v, p, t

\* A Windows pipe: poll_key takes the next command of the thread's queue.
LEMMA PipeHears ==
  ASSUME Types, HeardInv, stdin = "windowsPipe", PollPipedKeys, UNCHANGED <<stdin, typed>>
  PROVE  HeardInv'
<1>0. KeysTyped
  BY DEF Types
<1>1. PICK k \in 0..Len(typed) : HeardUpTo(k)
  BY DEF HeardInv
<1>2. Head(pipedKeys) \in AllCommands /\ Head(pipedKeys) # "none"
  <2>1. Head(pipedKeys) \in AllCommands
    BY <1>0, HeadTailProperties DEF KeysTyped, PollPipedKeys
  <2>2. QED
    BY <2>1 DEF AllCommands
<1>3. commands' = Append(commands, Head(pipedKeys)) /\ pipedKeys' = Tail(pipedKeys) /\ pipedKeys # <<>>
      /\ UNCHANGED <<unread, inHand>>
  BY <1>2 DEF PollPipedKeys, Report
<1>4. commands' \o pipedKeys' = commands \o pipedKeys
  BY <1>0, <1>3, FirstMoves DEF KeysTyped
<1>5. HeardUpTo(k)'
  BY <1>1, <1>3, <1>4 DEF HeardUpTo, Posix
<1>6. QED
  BY <1>3, <1>5 DEF HeardInv

\* One call of poll_key.
LEMMA PollHears ==
  ASSUME Types, BytesInv, HeardInv, PollInput, UNCHANGED <<stdin, typed>>
  PROVE  HeardInv'
<1>1. CASE Posix /\ PollPosix
  BY <1>1, PosixHears
<1>2. CASE stdin = "windowsConsole" /\ unread # <<>> /\ PollConsole
  BY <1>2, ConsoleHears
<1>3. CASE stdin = "windowsPipe" /\ PollPipedKeys
  BY <1>3, PipeHears
<1>4. CASE UNCHANGED <<unread, inHand, pipedKeys, commands>>
  BY <1>4 DEF HeardInv, HeardUpTo, Posix
<1>5. QED
  BY <1>1, <1>2, <1>3, <1>4 DEF PollInput

\* The thread of a Windows pipe takes the next letter in hand.
LEMMA LetterRead ==
  ASSUME Types, HeardInv, ReadPiped
  PROVE  HeardInv'
<1>0. KeysTyped /\ stdin = "windowsPipe" /\ stdin' = stdin /\ typed' = typed /\ inHand = <<>>
      /\ unread # <<>> /\ unread' = Tail(unread) /\ inHand' = <<Head(unread)>>
      /\ pipedKeys' = pipedKeys /\ commands' = commands
  BY DEF Types, ReadPiped
<1>1. PICK k \in 0..Len(typed) : HeardUpTo(k)
  BY DEF HeardInv
<1> DEFINE key == typed[k + 1]
<1>2. unread \in Seq(AllBytes) /\ AreKeys(stdin, unread, typed, k) /\ typed \in Seq(AllKeys)
  BY <1>0, <1>1 DEF HeardUpTo, KeysTyped
<1>3. k < Len(typed) /\ key \in AllKeys
  BY <1>0, <1>2, FirstWaits
<1>4. key \in {"h", "q", "other"}
  <2>1. k + 1 \in 1..Len(typed)
    BY <1>3
  <2>2. QED
    BY <1>0, <2>1 DEF HeardInv
<1>5. Bytes(stdin, key) = <<key>>
  BY <1>3, <1>4, DecodedAsMeant
<1>6. Len(Bytes(stdin, key)) = 1 /\ Bytes(stdin, key)[1] = key
  BY <1>5
<1>7. Head(unread) = key
  <2>1. Head(unread) = unread[1]
    BY <1>0, <1>2
  <2>2. unread[1] = Bytes(stdin, key)[1]
    <3>1. \A b \in 1..Len(Bytes(stdin, key)) : unread[b] = Bytes(stdin, key)[b]
      BY <1>0, <1>2, FirstWaits, ZenonT(30)
    <3>2. QED
      BY <1>6, <3>1
  <2>3. QED
    BY <1>6, <2>1, <2>2
<1>8. AreKeys(stdin, unread', typed, k + 1)
  <2>1. unread' \in Seq(AllBytes) /\ Len(unread') = Len(unread) - 1
        /\ \A b \in 1..Len(unread') : unread'[b] = unread[b + 1]
    BY <1>0, <1>2, HeadTailProperties
  <2>2. Len(unread') = Len(unread) - Len(Bytes(stdin, key))
        /\ \A b \in 1..Len(unread') : unread'[b] = unread[Len(Bytes(stdin, key)) + b]
    <3>1. \A b \in 1..Len(unread') : b + 1 = 1 + b
      OBVIOUS
    <3>2. QED
      BY <1>6, <2>1, <3>1
  <2>3. QED
    BY <1>0, <1>2, <2>1, <2>2, FirstWaits, ZenonT(30)
<1>9. HeardUpTo(k)'
  <2>1. inHand' = <<typed[k + 1]>> /\ inHand' # <<>>
    BY <1>0, <1>7
  <2>2. QED
    BY <1>0, <1>1, <1>3, <1>8, <2>1 DEF HeardUpTo, Posix
<1>10. QED
  BY <1>0, <1>9 DEF HeardInv

\* It queues the command of the letter in hand.
LEMMA LetterQueued ==
  ASSUME Types, HeardInv, QueuePiped
  PROVE  HeardInv'
<1>0. KeysTyped /\ inHand # <<>> /\ inHand' = <<>> /\ UNCHANGED <<stdin, typed, unread, commands>>
  BY DEF Types, QueuePiped
<1>1. PICK k \in 0..Len(typed) : HeardUpTo(k)
  BY DEF HeardInv
<1> DEFINE key == typed[k + 1]
           command == Meaning(key)
<1>2. stdin = "windowsPipe" /\ k < Len(typed) /\ inHand = <<key>> /\ AreKeys(stdin, unread, typed, k + 1)
      /\ commands \o pipedKeys = MeantBy(typed)[k]
  BY <1>0, <1>1 DEF HeardUpTo, HeardInv
<1>3. key \in {"h", "q", "other"} /\ key \in AllKeys
  <2>1. k + 1 \in 1..Len(typed)
    BY <1>2
  <2>2. QED
    BY <1>2, <2>1 DEF HeardInv, AllKeys
<1>4. LetterKey(Head(inHand)) = command
  <2>1. Head(inHand) = key
    BY <1>2
  <2>2. QED
    BY <1>3, <2>1, DecodedAsMeant
<1>5. pipedKeys' = IF command = "none" THEN pipedKeys ELSE Append(pipedKeys, command)
  BY <1>4 DEF QueuePiped, Queued
<1>6. command # "none" => command \in AllCommands
  BY MeaningTyped
<1> HIDE DEF command
<1>7. commands \o pipedKeys' = IF command = "none" THEN commands \o pipedKeys
                               ELSE Append(commands \o pipedKeys, command)
  <2>1. CASE command = "none"
    BY <1>5, <2>1
  <2>2. CASE command # "none"
    <3> DEFINE last == <<command>>
    <3>1. pipedKeys' = pipedKeys \o last /\ last \in Seq(AllCommands)
      BY <1>0, <1>5, <1>6, <2>2, AppendIsConcat DEF KeysTyped
    <3>2. (commands \o pipedKeys) \o last = Append(commands \o pipedKeys, command)
      <4>1. commands \o pipedKeys \in Seq(AllCommands)
        BY <1>0, ConcatProperties DEF KeysTyped
      <4>2. QED
        BY <1>6, <2>2, <4>1, AppendIsConcat
    <3> HIDE DEF last
    <3>3. commands \o (pipedKeys \o last) = (commands \o pipedKeys) \o last
      BY <1>0, <3>1, ConcatAssociative DEF KeysTyped
    <3>4. QED
      BY <2>2, <3>1, <3>2, <3>3
  <2>3. QED
    BY <2>1, <2>2
<1>8. MeantBy(typed)[k + 1] = IF command = "none" THEN MeantBy(typed)[k] ELSE Append(MeantBy(typed)[k], command)
  BY <1>0, <1>2, MeantByOneMore DEF command, KeysTyped
<1>9. HeardUpTo(k + 1)'
  <2>1. commands \o pipedKeys' = MeantBy(typed)[k + 1]
    BY <1>2, <1>7, <1>8
  <2>2. QED
    BY <1>0, <1>2, <2>1 DEF HeardUpTo, Posix
<1>10. k + 1 \in 0..Len(typed)
  BY <1>2
<1>11. QED
  BY <1>0, <1>2, <1>9, <1>10 DEF HeardInv

\* A key is typed, by a test or by stop().
LEMMA TypingWaits ==
  ASSUME Types, HeardInv, OneKeyAtATime, NEW key \in AllKeys,
         unread # <<>> => stdin \in Hurried,
         stdin = "windowsPipe" => key \in {"h", "q", "other"},
         typed' = Append(typed, key), unread' = unread \o Bytes(stdin, key),
         UNCHANGED <<stdin, inHand, pipedKeys, commands>>
  PROVE  HeardInv'
<1>0. KeysTyped /\ typed \in Seq(AllKeys) /\ unread \in Seq(AllBytes) /\ Len(typed) \in Nat
  BY DEF Types, KeysTyped
<1>1. PICK k \in 0..Len(typed) : HeardUpTo(k)
  BY DEF HeardInv
<1>2. /\ Len(typed') = Len(typed) + 1 /\ typed'[Len(typed) + 1] = key
      /\ \A j \in 1..Len(typed) : typed'[j] = typed[j]
  BY <1>0, AppendProperties
<1>3. MeantBy(typed')[k] = MeantBy(typed)[k]
  BY <1>0, MeantGrows
<1>4. k \in 0..Len(typed')
  BY <1>0, <1>2
<1>5. Posix => k + 1 >= Len(typed')
  <2>1. SUFFICES ASSUME Posix PROVE k = Len(typed)
    BY <1>0, <1>2
  <2>2. unread = <<>> /\ inHand = <<>>
    BY <2>1 DEF OneKeyAtATime, Posix, HeardInv
  <2>3. AreKeys(stdin, <<>>, typed, k)
    BY <1>1, <2>2 DEF HeardUpTo
  <2>4. QED
    BY <1>0, <2>3, NoneWaits
<1>5a. (Posix' => k + 1 >= Len(typed')) /\ commands' \o pipedKeys' = MeantBy(typed')[k]
  BY <1>1, <1>3, <1>5 DEF HeardUpTo, Posix
<1>6. ASSUME inHand = <<>> PROVE HeardUpTo(k)'
  <2>1. AreKeys(stdin, unread, typed, k)
    BY <1>1, <1>6 DEF HeardUpTo
  <2>2. AreKeys(stdin, unread', typed', k)
    BY <1>0, <2>1, OneMoreWaits
  <2>3. QED
    BY <1>5a, <1>6, <2>2 DEF HeardUpTo
<1>7. ASSUME inHand # <<>> PROVE HeardUpTo(k)'
  <2>1. k < Len(typed) /\ inHand = <<typed[k + 1]>> /\ AreKeys(stdin, unread, typed, k + 1)
    BY <1>1, <1>7 DEF HeardUpTo
  <2>2. k + 1 \in 0..Len(typed) /\ k + 1 \in 1..Len(typed)
    BY <1>0, <2>1
  <2>3. AreKeys(stdin, unread', typed', k + 1)
    BY <1>0, <2>1, <2>2, OneMoreWaits
  <2>4. k < Len(typed') /\ inHand' = <<typed'[k + 1]>>
    BY <1>0, <1>2, <2>1, <2>2
  <2>5. QED
    BY <1>5a, <1>7, <2>3, <2>4 DEF HeardUpTo
<1>8. HeardUpTo(k)'
  BY <1>6, <1>7
<1>9. stdin' = "windowsPipe" => \A j \in 1..Len(typed') : typed'[j] \in {"h", "q", "other"}
  <2>1. SUFFICES ASSUME stdin = "windowsPipe", NEW j \in 1..Len(typed')
                 PROVE  typed'[j] \in {"h", "q", "other"}
    OBVIOUS
  <2>2. CASE j = Len(typed) + 1
    BY <1>2, <2>1, <2>2
  <2>3. CASE j # Len(typed) + 1
    <3>1. j \in 1..Len(typed)
      BY <1>0, <1>2, <2>3
    <3>2. QED
      BY <1>2, <2>1, <3>1 DEF HeardInv
  <2>4. QED
    BY <2>2, <2>3
<1>10. QED
  BY <1>4, <1>8, <1>9 DEF HeardInv

\* Every step: keys are typed, read and heard, or left alone.
LEMMA StepHears ==
  ASSUME Types, BytesInv, HeardInv, OneKeyAtATime, [ProcessNext]_processVars
  PROVE  HeardInv'
<1>0. KeysTyped
  BY DEF Types
<1>1. CASE UNCHANGED <<stdin, typed, unread, inHand, pipedKeys, commands>>
  BY <1>1 DEF HeardInv, HeardUpTo, Posix
<1>2. CASE PollKey
  BY <1>2, PollHears DEF PollKey
<1>3. CASE PipedThread
  BY <1>3, LetterRead, LetterQueued DEF PipedThread
<1>4. CASE TypeKey
  <2>1. PICK key \in KeysThere : typed' = Append(typed, key) /\ unread' = unread \o Bytes(stdin, key)
    BY <1>4 DEF TypeKey
  <2>2. key \in AllKeys /\ (stdin = "windowsPipe" => key \in {"h", "q", "other"})
    BY <2>1, KeysAssumption DEF KeysThere, Pipe, AllKeys
  <2>3. (unread # <<>> => stdin \in Hurried) /\ UNCHANGED <<stdin, inHand, pipedKeys, commands>>
    BY <1>4 DEF TypeKey
  <2>4. QED
    BY <2>1, <2>2, <2>3, TypingWaits
<1>5. CASE StopWithQ /\ pc # "exited"
  <2>1. typed' = Append(typed, "q") /\ unread' = Append(unread, "q")
    BY <1>5 DEF StopWithQ
  <2>2. "q" \in AllKeys /\ "q" \in AllBytes
    BY DEF AllKeys, AllBytes
  <2>3. unread' = unread \o Bytes(stdin, "q")
    <3>1. Bytes(stdin, "q") = <<"q">>
      BY <2>2, DecodedAsMeant
    <3>2. QED
      BY <1>0, <2>1, <2>2, <3>1, AppendIsConcat DEF KeysTyped
  <2>4. (unread # <<>> => stdin \in Hurried) /\ UNCHANGED <<stdin, inHand, pipedKeys, commands>>
    BY <1>5 DEF StopWithQ
  <2>5. QED
    BY <2>1, <2>2, <2>3, <2>4, TypingWaits
<1>6. QED
  <2>1. Main => PollKey \/ UNCHANGED <<stdin, typed, unread, inHand, pipedKeys, commands>>
    BY DEF Main, StartUp, Load, SetupUdp, SetUpStack, Announce, InstallHandlers, LoopHead, StackTick,
           Simulate, Poll, PollKeyRaises, Sleep, Restore, RestoreInput, ShutDown, keyboardVars
  <2>2. Signal \/ WaitReady \/ NeverReady \/ Stopped \/ Kill \/ UNCHANGED processVars
          => UNCHANGED <<stdin, typed, unread, inHand, pipedKeys, commands>>
    BY DEF Signal, WaitReady, NeverReady, Stopped, Kill, processVars, keyboardVars
  <2>3. StopWithQ /\ pc = "exited" => UNCHANGED <<stdin, typed, unread, inHand, pipedKeys, commands>>
    BY DEF StopWithQ
  <2>4. Press => TypeKey
    BY DEF Press
  <2>5. QED
    BY <1>1, <1>2, <1>3, <1>4, <1>5, <2>1, <2>2, <2>3, <2>4 DEF ProcessNext, Harness

\* At first nothing is typed.
LEMMA InitHeard == ProcessInit => HeardInv
<1>1. SUFFICES ASSUME ProcessInit PROVE HeardInv
  OBVIOUS
<1>2. typed = <<>> /\ unread = <<>> /\ inHand = <<>> /\ pipedKeys = <<>> /\ commands = <<>>
  BY <1>1 DEF ProcessInit, KeyboardInit
<1>3. typed \in Seq(AllKeys) /\ Len(typed) = 0 /\ 0 \in 0..Len(typed)
  BY <1>2
<1>4. MeantBy(typed)[0] = <<>>
  BY <1>3, MeantExists DEF MeantNext
<1>5. AreKeys(stdin, <<>>, typed, 0)
  BY <1>3, LastRead
<1>6. commands \o pipedKeys = <<>>
  BY <1>2
<1>7. HeardUpTo(0)
  BY <1>2, <1>3, <1>4, <1>5, <1>6 DEF HeardUpTo
<1>8. QED
  BY <1>2, <1>3, <1>7 DEF HeardInv

\* The keys typed are accounted for: what has been heard of them, and what
\* waits in stdin, in the thread's hand and in its queue, is all of them.
THEOREM KeysAccountedFor ==
  ASSUME OneKeyAtATime
  PROVE  ProcessSpec => [](IInv /\ HeardInv)
<1>1. IInv /\ HeardInv /\ [ProcessNext]_processVars => HeardInv'
  BY OneKeyAtATime, StepHears DEF IInv, QuitInv
<1>2. QED
  BY OneKeyAtATime, <1>1, Inductive, InitHeard, PTL DEF ProcessSpec

\* cas_example_helper.py, poll_key: whatever is typed and however it comes in,
\* the commands returned are those of the keys, in the order typed.
THEOREM KeysInOrder ==
  ASSUME OneKeyAtATime
  PROVE  ProcessSpec => []CommandsInOrder
<1>1. IInv /\ HeardInv => CommandsInOrder
  <2>1. SUFFICES ASSUME IInv, HeardInv PROVE CommandsInOrder
    OBVIOUS
  <2>2. KeysTyped /\ typed \in Seq(AllKeys)
    BY <2>1 DEF IInv, Types, KeysTyped
  <2>3. PICK k \in 0..Len(typed) : HeardUpTo(k)
    BY <2>1 DEF HeardInv
  <2> DEFINE heard == MeantBy(typed)[k]
             all == MeantBy(typed)[Len(typed)]
             C == Len(commands)
  <2>4. heard \in Seq(AllCommands) /\ all \in Seq(AllCommands) /\ Len(all) \in Nat
        /\ Len(heard) \in Nat /\ C \in Nat
    BY <2>2, MeantTyped DEF KeysTyped
  <2>5. Begins(heard, all)
    BY <2>2, MeantBegins
  <2>6. Begins(commands, heard)
    <3>1. heard = commands \o pipedKeys
      BY <2>3 DEF HeardUpTo
    <3> HIDE DEF heard
    <3>2. /\ Len(heard) = C + Len(pipedKeys) /\ Len(pipedKeys) \in Nat
          /\ \A a \in 1..(C + Len(pipedKeys)) :
                heard[a] = IF a <= C THEN commands[a] ELSE pipedKeys[a - C]
      BY <2>2, <3>1, ConcatProperties DEF KeysTyped
    <3>3. \A a \in 1..C : a \in 1..(C + Len(pipedKeys)) /\ a <= C
      BY <2>4, <3>2
    <3>4. QED
      BY <2>4, <3>2, <3>3 DEF Begins
  <2> HIDE DEF heard, all
  <2>7. C <= Len(all) /\ \A a \in 1..C : all[a] = commands[a]
    BY <2>4, <2>5, <2>6 DEF Begins
  <2>8. SubSeq(commands, 1, C) = SubSeq(all, 1, C)
    <3> DEFINE u == SubSeq(commands, 1, C)
               v == SubSeq(all, 1, C)
    <3>1. \A a \in 1..C : commands[a] \in AllCommands /\ all[a] \in AllCommands
      BY <2>2, <2>4, <2>7 DEF KeysTyped
    <3>2. /\ u \in Seq(AllCommands) /\ Len(u) = (IF 1 <= C THEN C - 1 + 1 ELSE 0)
          /\ \A a \in 1..(C - 1 + 1) : u[a] = commands[1 + a - 1]
      BY <2>4, <3>1, SubSeqProperties
    <3>3. /\ v \in Seq(AllCommands) /\ Len(v) = (IF 1 <= C THEN C - 1 + 1 ELSE 0)
          /\ \A a \in 1..(C - 1 + 1) : v[a] = all[1 + a - 1]
      BY <2>4, <3>1, SubSeqProperties
    <3> HIDE DEF u, v
    <3>4. \A a \in 1..C : 1 + a - 1 = a
      BY <2>4
    <3>5. Len(u) = C /\ Len(v) = C /\ C - 1 + 1 = C
      BY <2>4, <3>2, <3>3
    <3>6. \A a \in 1..C : u[a] = v[a]
      BY <2>7, <3>2, <3>3, <3>4, <3>5
    <3>7. u = v
      BY <3>2, <3>3, <3>5, <3>6, SeqEqual
    <3>8. QED
      BY <3>7 DEF u, v
  <2>9. QED
    BY <2>7, <2>8 DEF CommandsInOrder, IsPrefix, Meant, all
<1>2. QED
  BY OneKeyAtATime, <1>1, KeysAccountedFor, PTL

\* Once nothing waits to be read, poll_key has returned the command of every
\* key that was typed: none is lost on the way.
THEOREM NoKeyLost ==
  ASSUME OneKeyAtATime
  PROVE  ProcessSpec => []EveryKeyHeard
<1>1. IInv /\ HeardInv => EveryKeyHeard
  <2>1. SUFFICES ASSUME IInv, HeardInv, unread = <<>>, inHand = <<>>, pipedKeys = <<>>
                 PROVE  commands = Meant
    BY DEF EveryKeyHeard
  <2>2. KeysTyped /\ typed \in Seq(AllKeys)
    BY <2>1 DEF IInv, Types, KeysTyped
  <2>3. PICK k \in 0..Len(typed) : HeardUpTo(k)
    BY <2>1 DEF HeardInv
  <2>4. AreKeys(stdin, <<>>, typed, k) /\ commands \o <<>> = MeantBy(typed)[k]
    BY <2>1, <2>3 DEF HeardUpTo
  <2>5. k = Len(typed)
    BY <2>2, <2>4, NoneWaits
  <2>6. QED
    BY <2>2, <2>4, <2>5, ConcatEmptySeq DEF Meant, KeysTyped
<1>2. QED
  BY OneKeyAtATime, <1>1, KeysAccountedFor, PTL
=============================================================================
