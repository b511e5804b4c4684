-------------------------------- MODULE Keyboard --------------------------------
(***************************************************************************)
(* The interactive keys of common/cas_example_helper.py: _configure_input, *)
(* poll_key and restore_input, for every kind of stdin the helper tells    *)
(* apart, while somebody (a user, or a harness writing to the pipe) types. *)
(*                                                                         *)
(* The actions are those of a component: SensorProcess, whose main loop    *)
(* polls once a pass, says when they are taken.  A key is one or more      *)
(* bytes, which arrive together.                                           *)
(***************************************************************************)
EXTENDS Naturals, SequencesExt

CONSTANTS
  Stdins,    \* the kinds of stdin the process may be started with
  Keys,      \* the keys that are typed
  Hurried,   \* the kinds on which a key may be typed before the last was read
  MaxTyped   \* BOUND: how many keys are typed

ASSUME StdinsAssumption ==
  Stdins \subseteq {"posixTerminal", "posixPipe", "windowsConsole", "windowsPipe"}
ASSUME KeysAssumption     == Keys \subseteq {"h", "q", "up", "down", "F2", "other"}
ASSUME HurriedAssumption  == Hurried \subseteq Stdins
ASSUME MaxTypedAssumption == MaxTyped \in Nat

VARIABLES
  stdin,           \* the kind of stdin
  typed,           \* every key typed so far
  unread,          \* the bytes of stdin not read yet
  inHand,          \* the bytes read_piped_keys has read and not dealt with
  pipedKeys,       \* _piped_keys: the thread's queue of commands
  commands,        \* every command poll_key has returned but NONE
  configured,      \* _input_configured
  restoreActions,  \* _restore_actions
  blocking,        \* stdin's flags lack O_NONBLOCK
  cooked           \* the terminal is not in cbreak mode

terminalVars == <<configured, restoreActions, blocking, cooked>>
keyboardVars == <<stdin, typed, unread, inHand, pipedKeys, commands, terminalVars>>

-----------------------------------------------------------------------------
\* Keys, bytes and commands

Posix == stdin \in {"posixTerminal", "posixPipe"}
Pipe  == stdin \in {"posixPipe", "windowsPipe"}

\* A pipe carries letters only.
KeysThere == IF Pipe THEN Keys \ {"up", "down", "F2"} ELSE Keys

Bytes(kind, key) ==
  LET console == kind = "windowsConsole"
  IN  CASE key = "up"   -> IF console THEN <<"E0", "H">> ELSE <<"ESC", "[", "A">>
        [] key = "down" -> IF console THEN <<"E0", "P">> ELSE <<"ESC", "[", "B">>
        [] key = "F2"   -> IF console THEN <<"00", "<">> ELSE <<"ESC", "O", "Q">>
        [] OTHER        -> <<key>>

\* _LETTER_KEYS of the lower-case letter.  Each function gives "none", which
\* is KeyCommand.NONE, for everything it does not name.
LetterKey(byte) == CASE byte \in {"h", "H"} -> "help"
                     [] byte \in {"q", "Q"} -> "quit"
                     [] OTHER -> "none"

ArrowKey(byte, up, down) == CASE byte = up   -> "up"
                              [] byte = down -> "down"
                              [] OTHER       -> "none"

Report(command) == commands' = IF command = "none" THEN commands ELSE Append(commands, command)

-----------------------------------------------------------------------------
\* _configure_input().  Each restoring action is pushed once what it undoes
\* is done; setting cbreak mode may fail, which ends the main loop.

ConfigurePosix(failed) ==
  /\ blocking' = FALSE
  /\ IF stdin = "posixTerminal" /\ ~failed
     THEN cooked' = FALSE /\ restoreActions' = <<"flags", "attributes">>
     ELSE cooked' = cooked /\ restoreActions' = <<"flags">>

ConfigureInput(failed) ==
  /\ ~configured
  /\ failed => stdin = "posixTerminal"
  /\ configured' = TRUE
  /\ IF Posix THEN ConfigurePosix(failed) ELSE UNCHANGED <<restoreActions, blocking, cooked>>

-----------------------------------------------------------------------------
\* poll_key()

\* POSIX reads up to three bytes; what they say is decided by the first,
\* unless they are an arrow key.
Typed == SubSeq(unread, 1, IF Len(unread) < 3 THEN Len(unread) ELSE 3)

Decoded(bytes) ==
  IF Len(bytes) >= 3 /\ bytes[1] = "ESC" /\ bytes[2] = "["
  THEN ArrowKey(bytes[3], "A", "B")
  ELSE LetterKey(bytes[1])

PollPosix ==
  /\ unread # <<>>
  /\ Report(Decoded(Typed))
  /\ unread' = SubSeq(unread, Len(Typed) + 1, Len(unread))
  /\ UNCHANGED <<inHand, pipedKeys>>

\* A Windows console hands out one key at a time, the second byte of an
\* arrow or function key on a second call.
\* Mutant: every byte is a key of its own.
NoPrefix(byte) == FALSE
Prefix(byte) == byte \in {"00", "E0"}

PollConsole ==
  LET prefixed == Prefix(Head(unread))
  IN  /\ Report(IF prefixed THEN ArrowKey(unread[2], "H", "P") ELSE LetterKey(Head(unread)))
      /\ unread' = SubSeq(unread, IF prefixed THEN 3 ELSE 2, Len(unread))
      /\ UNCHANGED <<inHand, pipedKeys>>

PollPipedKeys ==
  /\ pipedKeys # <<>>
  /\ Report(Head(pipedKeys))
  /\ pipedKeys' = Tail(pipedKeys)
  /\ UNCHANGED <<unread, inHand>>

\* There is something for poll_key to return, or to read and drop.
KeyWaiting == IF stdin = "windowsPipe" THEN pipedKeys # <<>> ELSE unread # <<>>

PollInput ==
  \/ Posix /\ PollPosix
  \/ stdin = "windowsConsole" /\ unread # <<>> /\ PollConsole
  \/ stdin = "windowsPipe" /\ PollPipedKeys
  \/ ~KeyWaiting /\ UNCHANGED <<unread, inHand, pipedKeys, commands>>

PollKey ==
  /\ \/ ConfigureInput(FALSE)
     \/ configured /\ UNCHANGED terminalVars
  /\ PollInput
  /\ UNCHANGED <<stdin, typed>>

PollKeyRaises == ConfigureInput(TRUE) /\ UNCHANGED <<stdin, typed, unread, inHand, pipedKeys, commands>>

\* The daemon thread on a Windows pipe: read_piped_keys().
ReadPiped ==
  /\ stdin = "windowsPipe" /\ configured
  /\ inHand = <<>> /\ unread # <<>>
  /\ inHand' = <<Head(unread)>>
  /\ unread' = Tail(unread)
  /\ UNCHANGED <<stdin, typed, pipedKeys, commands, terminalVars>>

\* Mutant: a command takes the place of one still queued.
Overwritten(command) == <<command>>
Queued(command) == Append(pipedKeys, command)

QueuePiped ==
  /\ inHand # <<>>
  /\ inHand' = <<>>
  /\ LET command == LetterKey(Head(inHand))
     IN  pipedKeys' = IF command = "none" THEN pipedKeys ELSE Queued(command)
  /\ UNCHANGED <<stdin, typed, unread, commands, terminalVars>>

PipedThread == ReadPiped \/ QueuePiped

-----------------------------------------------------------------------------
\* restore_input(): the actions undo what was done, the last one first.

\* Mutant: only the last action is run.
RestoreLast(action) == restoreActions # <<>> /\ Last(restoreActions) = action
Restores(action) == Contains(restoreActions, action)

RestoreInput ==
  /\ blocking' = (blocking \/ Restores("flags"))
  /\ cooked' = (cooked \/ Restores("attributes"))
  /\ restoreActions' = <<>>
  /\ UNCHANGED <<stdin, typed, unread, inHand, pipedKeys, commands, configured>>

-----------------------------------------------------------------------------

TypeKey ==
  /\ Len(typed) < MaxTyped
  /\ unread # <<>> => stdin \in Hurried
  /\ \E key \in KeysThere : typed' = Append(typed, key) /\ unread' = unread \o Bytes(stdin, key)
  /\ UNCHANGED <<stdin, inHand, pipedKeys, commands, terminalVars>>

KeyboardInit ==
  /\ stdin \in Stdins
  /\ typed = <<>> /\ unread = <<>> /\ inHand = <<>> /\ pipedKeys = <<>>
  /\ commands = <<>>
  /\ configured = FALSE /\ restoreActions = <<>>
  /\ blocking = TRUE /\ cooked = TRUE

-----------------------------------------------------------------------------

Meaning(key) ==
  CASE key = "h" -> "help"
    [] key = "q" -> "quit"
    [] key \in {"up", "down"} -> key
    [] OTHER -> "none"

\* The commands that the first i of these keys mean, in their order.
MeantBy(keys) ==
  LET upTo[i \in 0..Len(keys)] ==
        IF i = 0 THEN <<>>
        ELSE IF Meaning(keys[i]) = "none" THEN upTo[i - 1]
             ELSE Append(upTo[i - 1], Meaning(keys[i]))
  IN  upTo

Meant == MeantBy(typed)[Len(typed)]

\* poll_key returns the commands of the keys that were typed, in the order
\* they were typed: none is invented out of the bytes of other keys.
CommandsInOrder == IsPrefix(commands, Meant)

\* common/cas_example_helper.py:515, poll_key: "The key pressed since the
\* last call", and 443: "each call read()s what is waiting".  Once nothing
\* waits to be read, every command typed has been returned.
EveryKeyHeard ==
  unread = <<>> /\ inHand = <<>> /\ pipedKeys = <<>> => commands = Meant
=============================================================================
