---------------------------- MODULE SimulatedServer ----------------------------
(***************************************************************************)
(* wiretest/peer.py: the simulated BACnet devices a wire test puts on the  *)
(* far side.  One thread receives, answers and replies (SimulatedDevice);  *)
(* a SimulatedServer serves objects, commands some of them through a       *)
(* priority array, and answers, refuses, fails or is gone as its settings  *)
(* say, which the test changes from its own thread at any time.            *)
(*                                                                         *)
(* The thread takes one step from one read of the settings to the next.  A *)
(* request arrives as the client encodes it and the reply is what Codec    *)
(* makes of it; the hooks check_write and on_write are the default ones.   *)
(***************************************************************************)
EXTENDS Services

CONSTANTS
  Instance,       \* the instance of its Device object
  MAX_INSTANCE,   \* the wildcard instance of a Device object
  Objects,        \* the objects at first: [object -> [property -> value]]
  Writable,       \* the {<<object, property>>} that may be written, or None
  Commandable,    \* the objects commanded through a priority array, or None
  ArrayElements,  \* whether a read with an array index answers the element
  Requests,       \* what may arrive (see Datagram)
  Modes,          \* "online", "offline", "refusing"
  Failures,       \* what failures[object] may be set to
  FailingObjects, \* the objects for which it may be set
  Whole,          \* the <<object, property>> whose whole read may be refused
  MaxRequests,    \* BOUND: requests that arrive
  MaxChanges      \* BOUND: changes of the settings

Null == <<application(TAG_NULL, None)>>

Commanded == IF Commandable = None THEN {} ELSE Commandable

ASSUME CommandableAssumption ==
  /\ Commanded \subseteq DOMAIN Objects
  /\ \A o \in Commanded : "PRESENT_VALUE" \in DOMAIN Objects[o]

\* Requests are what client.py sends: a value is whole and a priority is one of
\* the array's.  None is not mistaken for a request, nor for what is read of one.
ASSUME RequestsAssumption ==
  \A r \in Requests :
    /\ r # None
    /\ r.service = "ReadProperty" =>
         None # [object |-> r.object, property |-> r.property, array_index |-> r.index]
    /\ r.service = "WriteProperty" =>
         /\ Complete(r.value) /\ r.priority \in 1..16 \union {None}
         /\ None # [object |-> r.object, property |-> r.property, array_index |-> r.index,
                    value |-> r.value, priority |-> r.priority]

ASSUME SettingsAssumption ==
  /\ "online" \in Modes
  /\ None \notin FailingObjects
  /\ None \notin {"reject", "abort", "silent", "malformed"}

ASSUME ServerBoundsAssumption == MaxRequests \in Nat /\ MaxChanges \in Nat

VARIABLES
  objects, priority_arrays,
  mode, failures, whole_arrays_refused,  \* the settings
  thread,   \* what the serving thread does next
  asked,    \* the request it has in hand or answered last
  frame,    \* that request decoded
  failure,  \* what _answer took from failures for it
  reply,    \* the datagram sent for it, or None
  count,    \* how many requests each list and counter holds
  running, closed,
  changes,
  settled   \* no setting has changed since the request in hand arrived

store    == <<objects, priority_arrays>>
settings == <<mode, failures, whole_arrays_refused, changes>>
life     == <<running, closed>>
vars     == <<store, settings, thread, asked, frame, failure, reply, count, life, settled>>

Threads == {"waiting", "answering", "admitting", "reading", "writing", "accepting",
            "commanding", "ended"}

-----------------------------------------------------------------------------
\* What arrives: a request as a client encodes it.

Encode(r) ==
  CASE r.service = "ReadProperty" -> read_property_request(1, r.object, r.property, r.index)
    [] r.service = "WriteProperty" ->
         write_property_request(1, r.object, r.property, r.value, r.priority, r.index)
    [] r.service = "ReadPropertyMultiple" -> read_property_multiple_request(1, r.specifications)
    [] r.service = "Who-Is" -> who_is(r.low, r.high)
    [] r.service = "ConfirmedEventNotification" -> event_notification(r.notification, TRUE, 1)
    [] OTHER -> confirmed_request(1, r.service, <<>>)

\* A router that relays the request says where it came from.
Datagram(r) ==
  [bvlc(npdu(Encode(r), r.message, None, None, r.snet, r.sadr), r.broadcast)
     EXCEPT !.function = IF r.npdu THEN @ ELSE "BVLC-Result"]

confirmed == pdu_type(frame) = "ConfirmedRequest"
apdu      == frame.payload

Asks(name) == confirmed /\ service(frame) = name

\* A request for one of the three services a SimulatedServer knows.
Kept == \E name \in {"ReadProperty", "ReadPropertyMultiple", "WriteProperty"} : Asks(name)

reading == parse_read_property_request(apdu)
writing == parse_write_property_request(apdu)

requested_object ==
  CASE Asks("ReadProperty") /\ reading # None  -> reading.object
    [] Asks("WriteProperty") /\ writing # None -> writing.object
    [] OTHER -> None

-----------------------------------------------------------------------------
\* SimulatedDevice: its Device object, Who-Is, the way back

RouteBack(answer) ==
  IF frame.snet # None
  THEN bvlc(npdu(answer, None, frame.snet, frame.sadr, None, None), FALSE)
  ELSE bvlc(npdu(answer, None, None, None, None, None), FALSE)

\* What is counted: "arrived" and "answered" are requests Kept, the others
\* the server's own lists and counters.
Counts == {"received", "received_on_broadcast", "arrived", "answered", "read_requests",
           "array_reads", "write_requests", "requests_while_offline", "silent_requests"}

Only(condition, name) == IF condition THEN {name} ELSE {}

Tally(names) == count' = [c \in Counts |-> count[c] + (IF c \in names THEN 1 ELSE 0)]

Done == thread' = "waiting" /\ failure' = None

Reply(answer, also) ==
  /\ reply' = RouteBack(answer)
  /\ Tally(also \union Only(Kept, "answered"))
  /\ Done

NoReply(names) == reply' = None /\ Tally(names) /\ Done

Proceed(next) == thread' = next /\ UNCHANGED <<reply, failure>>

ReadDevice ==
  LET about == reading.object IN
  IF about[1] # "DEVICE" \/ about[2] \notin {Instance, MAX_INSTANCE}
  THEN error_pdu(apdu.invoke_id, "ReadProperty", "OBJECT", "UNKNOWN_OBJECT")
  ELSE IF reading.property = "OBJECT_NAME"
  THEN read_property_ack(apdu.invoke_id, <<"DEVICE", Instance>>, reading.property, None,
         <<application(TAG_CHARACTER_STRING, "object_name")>>)
  ELSE IF reading.property = "OBJECT_IDENTIFIER"
  THEN read_property_ack(apdu.invoke_id, <<"DEVICE", Instance>>, reading.property, None,
         <<application(TAG_OBJECT_IDENTIFIER, <<"DEVICE", Instance>>)>>)
  ELSE error_pdu(apdu.invoke_id, "ReadProperty", "PROPERTY", "UNKNOWN_PROPERTY")

\* An I-Am unless the Who-Is has limits and the instance is not within them.
Limits  == {i \in DOMAIN apdu.parameters : apdu.parameters[i].kind = "value"}
InRange == Cardinality(Limits) = 2 =>
  Instance \in apdu.parameters[Min(Limits)].body..apdu.parameters[Max(Limits)].body

AnswersWhoIs ==
  /\ pdu_type(frame) = "UnconfirmedRequest" /\ service(frame) = "Who-Is"
  /\ InRange

-----------------------------------------------------------------------------
\* The serving thread

Receive(r) ==
  /\ thread = "waiting"
  /\ count["received"] < MaxRequests
  /\ asked' = r /\ frame' = Frame(Datagram(r)) /\ reply' = None /\ settled' = TRUE
  /\ Tally({"received"} \union Only(r.broadcast, "received_on_broadcast")
             \union Only(Kept', "arrived"))
  /\ thread' = IF frame'.network_message = None THEN "answering" ELSE "waiting"
  /\ UNCHANGED <<store, settings, failure, life>>

\* _answer: the first look at mode, and at failures.
Failing ==
  IF confirmed /\ mode = "online" /\ requested_object \in DOMAIN failures
  THEN failures[requested_object] ELSE None

\* Mutant: a failure is only kept for later.
KeepFailure ==
  /\ thread = "answering"
  /\ failure' = Failing /\ thread' = "admitting"
  /\ UNCHANGED <<reply, count, store, settings, asked, frame, life, settled>>

CheckFailures ==
  /\ thread = "answering"
  /\ \/ /\ Failing = "reject"
        /\ Reply(reject_pdu(apdu.invoke_id, "UNRECOGNIZED_SERVICE"), {})
     \/ /\ Failing = "abort"
        /\ Reply(abort_pdu(apdu.invoke_id, "SEGMENTATION_NOT_SUPPORTED"), {})
     \/ /\ Failing = "silent"
        /\ NoReply({"silent_requests"})
     \/ /\ Failing \in {None, "malformed"}
        /\ failure' = Failing /\ thread' = "admitting"
        /\ UNCHANGED <<reply, count>>
  /\ UNCHANGED <<store, settings, asked, frame, life, settled>>

\* Mutant: only what comes while the server is online is counted.
AdmitUncounted ==
  LET write == Only(Asks("WriteProperty") /\ writing # None, "write_requests") IN
  /\ thread = "admitting"
  /\ \/ mode = "offline" /\ NoReply(write)
     \/ /\ mode # "offline"
        /\ Tally(write)
        /\ Proceed(IF Asks("WriteProperty") THEN "writing" ELSE "reading")
  /\ UNCHANGED <<store, settings, asked, frame, life, settled>>

\* The write is kept; the second look at mode.
Admit ==
  LET write == Only(Asks("WriteProperty") /\ writing # None, "write_requests") IN
  /\ thread = "admitting"
  /\ \/ /\ mode = "offline"
        /\ NoReply(write \union Only(Kept, "requests_while_offline"))
     \/ /\ mode # "offline"
        /\ Tally(write)
        /\ Proceed(IF Asks("WriteProperty") THEN "writing" ELSE "reading")
  /\ UNCHANGED <<store, settings, asked, frame, life, settled>>

-----------------------------------------------------------------------------
\* Reads

Served(object, property) ==
  IF object \in DOMAIN objects /\ property \in DOMAIN objects[object]
  THEN objects[object][property] ELSE None

value == Served(reading.object, reading.property)

Listed    == Asks("ReadProperty") /\ reading # None /\ reading.object \in DOMAIN objects
Malformed == Listed /\ failure = "malformed"
Refused   == Listed /\ ~Malformed /\ reading.array_index = None
               /\ <<reading.object, reading.property>> \in whole_arrays_refused
Element   == Listed /\ ~Malformed /\ reading.array_index # None /\ ArrayElements /\ value # None

Ack(index, octets) ==
  read_property_ack(apdu.invoke_id, reading.object, reading.property, index, octets)

ReadError(code) == error_pdu(apdu.invoke_id, "ReadProperty", "PROPERTY", code)

\* Mutant: the last element is past the end.
ElementBeforeLast ==
  LET elements == application_elements(value)
      index    == reading.array_index
  IN  IF index = 0 THEN Ack(index, <<application(TAG_UNSIGNED, Len(elements))>>)
      ELSE IF index < Len(elements) THEN Ack(index, elements[index])
      ELSE ReadError("INVALID_ARRAY_INDEX")

ElementAnswer ==
  LET elements == application_elements(value)
      index    == reading.array_index
  IN  IF index = 0 THEN Ack(index, <<application(TAG_UNSIGNED, Len(elements))>>)
      ELSE IF index <= Len(elements) THEN Ack(index, elements[index])
      ELSE ReadError("INVALID_ARRAY_INDEX")

MultipleAnswer ==
  LET members == read_access_specifications(apdu.parameters) IN
  read_property_multiple_ack(apdu.invoke_id, [i \in DOMAIN members |->
    [object |-> members[i].object,
     values |-> [j \in DOMAIN members[i].properties |->
       [property |-> members[i].properties[j],
        value |-> Served(members[i].object, members[i].properties[j])]]]])

Serve ==
  /\ thread = "reading"
  /\ \/ Asks("ReadPropertyMultiple") /\ Reply(MultipleAnswer, {"read_requests"})
     \/ Malformed /\ Reply(Ack(None, Null), {})
     \/ /\ Refused
        /\ Reply(abort_pdu(apdu.invoke_id, "SEGMENTATION_NOT_SUPPORTED"), {"read_requests"})
     \/ Element /\ Reply(ElementAnswer, {"read_requests", "array_reads"})
     \/ /\ Listed /\ ~Malformed /\ ~Refused /\ ~Element
        /\ Reply(IF value = None THEN ReadError("UNKNOWN_PROPERTY") ELSE Ack(None, value),
                 {"read_requests"})
     \/ Asks("ReadProperty") /\ ~Listed /\ reading # None /\ Reply(ReadDevice, {})
     \/ AnswersWhoIs /\ Reply(i_am(Instance), {})
     \/ /\ ~Asks("ReadPropertyMultiple") /\ ~AnswersWhoIs
        /\ Asks("ReadProperty") => reading = None
        /\ NoReply({})
  /\ UNCHANGED <<store, settings, asked, frame, life, settled>>

-----------------------------------------------------------------------------
\* Writes

WriteError(class, code) == error_pdu(apdu.invoke_id, "WriteProperty", class, code)

is_null == application_tag(writing.value) = TAG_NULL

commanded == writing.object \in Commanded /\ writing.property = "PRESENT_VALUE"

Known == writing.object \in DOMAIN objects

\* cl. 19.2.1: a NULL that relinquishes nothing is acknowledged and changes
\* nothing.  The third look at mode.
Relinquishes ==
  /\ Commandable # None /\ is_null /\ ~commanded /\ mode = "online"
  /\ Known /\ writing.property \in DOMAIN objects[writing.object]

CheckNull ==
  /\ thread = "writing"
  /\ \/ writing = None /\ NoReply({})
     \/ /\ writing # None /\ Relinquishes
        /\ Reply(simple_ack(apdu.invoke_id, "WriteProperty"), {})
     \/ writing # None /\ ~Relinquishes /\ Proceed("accepting") /\ UNCHANGED count
  /\ UNCHANGED <<store, settings, asked, frame, life, settled>>

Allowed ==
  IF Writable = None THEN writing.property \in DOMAIN objects[writing.object]
  ELSE <<writing.object, writing.property>> \in Writable

Store(octets) ==
  objects' = [objects EXCEPT ![writing.object] =
    [property \in DOMAIN @ \union {writing.property} |->
       IF property = writing.property THEN octets ELSE @[property]]]

\* The fourth look at mode; the value is stored as it came.
Accept ==
  /\ thread = "accepting"
  /\ \/ /\ ~Known
        /\ Reply(WriteError("OBJECT", "UNKNOWN_OBJECT"), {})
        /\ UNCHANGED objects
     \/ /\ Known /\ (mode = "refusing" \/ ~Allowed)
        /\ Reply(WriteError("PROPERTY", "WRITE_ACCESS_DENIED"), {})
        /\ UNCHANGED objects
     \/ /\ Known /\ mode # "refusing" /\ Allowed
        /\ Store(writing.value)
        /\ IF commanded THEN Proceed("commanding") /\ UNCHANGED count
           ELSE Reply(simple_ack(apdu.invoke_id, "WriteProperty"), {})
  /\ UNCHANGED <<priority_arrays, settings, asked, frame, life, settled>>

PRIORITY_DEFAULT == 16

Slot == IF writing.priority \in {None, 0} THEN PRIORITY_DEFAULT ELSE writing.priority

\* Mutant: the last filled slot wins.
LastFilled(object, slots) ==
  LET filled == {p \in DOMAIN slots : slots[p] # None} IN
  IF filled = {} THEN Objects[object]["PRESENT_VALUE"] ELSE slots[Max(filled)]

Winner(object, slots) ==
  LET filled == {p \in DOMAIN slots : slots[p] # None} IN
  IF filled = {} THEN Objects[object]["PRESENT_VALUE"] ELSE slots[Min(filled)]

\* The slot is filled or emptied and the winning value takes the place of the
\* value stored.
CommandSlot ==
  LET slots == [priority_arrays[writing.object] EXCEPT
                  ![Slot] = IF is_null THEN None ELSE writing.value]
  IN  /\ thread = "commanding"
      /\ priority_arrays' = [priority_arrays EXCEPT ![writing.object] = slots]
      /\ Store(Winner(writing.object, slots))
      /\ Reply(simple_ack(apdu.invoke_id, "WriteProperty"), {})
      /\ UNCHANGED <<settings, asked, frame, life, settled>>

-----------------------------------------------------------------------------
\* The test

Change ==
  /\ changes < MaxChanges /\ changes' = changes + 1
  /\ settled' = FALSE
  /\ UNCHANGED <<store, thread, asked, frame, failure, reply, count, life>>

SetMode == \E m \in Modes \ {mode} :
  mode' = m /\ Change /\ UNCHANGED <<failures, whole_arrays_refused>>

SetFailure == \E o \in FailingObjects, f \in Failures :
  /\ failures' = [k \in DOMAIN failures \union {o} |-> IF k = o THEN f ELSE failures[k]]
  /\ failures' # failures
  /\ Change /\ UNCHANGED <<mode, whole_arrays_refused>>

RefuseWhole == \E key \in Whole \ whole_arrays_refused :
  /\ whole_arrays_refused' = whole_arrays_refused \union {key}
  /\ Change /\ UNCHANGED <<mode, failures>>

\* Mutant: select waits for a datagram without end.
LeaveOnDatagram ==
  thread = "waiting" /\ ~running /\ asked # None /\ thread' = "ended" /\ UNCHANGED life

\* stop(): the thread ends when it looks at _running again, after what select
\* saw before, and only then the sockets are closed.
Stop  == running /\ running' = FALSE /\ UNCHANGED <<thread, closed>>
Leave == thread = "waiting" /\ ~running /\ thread' = "ended" /\ UNCHANGED life
Close == thread = "ended" /\ ~closed /\ closed' = TRUE /\ UNCHANGED <<thread, running>>

Ending ==
  /\ Stop \/ Leave \/ Close
  /\ UNCHANGED <<store, settings, asked, frame, failure, reply, count, settled>>

-----------------------------------------------------------------------------

Init ==
  /\ objects = Objects
  /\ priority_arrays = [o \in Commanded |-> [p \in 1..16 |-> None]]
  /\ mode = "online" /\ failures = <<>> /\ whole_arrays_refused = {}
  /\ thread = "waiting" /\ asked = None /\ frame = None /\ failure = None /\ reply = None
  /\ count = [c \in Counts |-> 0]
  /\ running = TRUE /\ closed = FALSE
  /\ changes = 0 /\ settled = TRUE

Answer == CheckFailures \/ Admit \/ Serve \/ CheckNull \/ Accept \/ CommandSlot

Next ==
  \/ \E r \in Requests : Receive(r)
  \/ Answer
  \/ SetMode \/ SetFailure \/ RefuseWhole
  \/ Ending

\* The thread goes on as long as it has something in hand (weak fairness of
\* Answer, which is enabled exactly then) and looks at _running every 0.1 s;
\* stop() closes what the thread has left.
Fairness ==
  /\ []<>(thread \in {"waiting", "ended"}) \/ []<><<Answer>>_vars
  /\ WF_vars(Ending /\ ~running)

ServerSpec == Init /\ [][Next]_vars /\ Fairness
=============================================================================
