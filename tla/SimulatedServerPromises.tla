------------------------ MODULE SimulatedServerPromises ------------------------
(***************************************************************************)
(* What the descriptions in wiretest/peer.py promise of a SimulatedServer. *)
(* The answer to a request is stated a second time, from the request as it *)
(* was asked and the objects as they are, without frames, tags or threads; *)
(* and the objects that are commanded implement CommandableProperty.       *)
(***************************************************************************)
EXTENDS SimulatedServer

CONSTANT LandingCalls  \* lists of landing calls a property may have been written from

\* The answer as wiretest/client.py tells it.
Said ==
  LET heard == Frame(reply)
      tags  == heard.payload.parameters
      type  == pdu_type(heard)
  IN
  CASE reply = None -> <<"none">>
    [] reply # None /\ type = "ComplexACK" /\ service(heard) = "ReadProperty" ->
         <<"value", read_property_value(heard.payload)>>
    [] reply # None /\ type = "ComplexACK" /\ service(heard) = "ReadPropertyMultiple" ->
         <<"results", parse_read_property_multiple_ack(heard.payload)>>
    [] reply # None /\ type = "SimpleACK" -> <<"ack">>
    [] reply # None /\ type = "Error" -> <<"error">> \o error_class_and_code(tags)
    [] reply # None /\ type \in {"Reject", "Abort"} -> <<type, tags[1]>>
    [] reply # None /\ type = "UnconfirmedRequest" ->
         <<"I-Am", i_am_device_instance(heard.payload)>>

WayBack == reply # None =>
  /\ Frame(reply).dnet = asked.snet
  /\ Frame(reply).dadr = asked.sadr
  /\ Frame(reply).payload.invoke_id = (IF asked.service = "Who-Is" THEN None ELSE 1)

HeldOf(object) == IF object \in DOMAIN objects THEN DOMAIN objects[object] ELSE {}

FailureSet ==
  IF mode = "online" /\ asked.service \in {"ReadProperty", "WriteProperty"}
     /\ asked.object \in DOMAIN failures
  THEN failures[asked.object] ELSE None

ExpectedElement(elements, index) ==
  IF index = 0 THEN <<"value", <<application(TAG_UNSIGNED, Len(elements))>>>>
  ELSE IF index \in DOMAIN elements THEN <<"value", <<elements[index]>>>>
  ELSE <<"error", "PROPERTY", "INVALID_ARRAY_INDEX">>

ExpectedOfDevice ==
  IF asked.object[1] # "DEVICE" \/ asked.object[2] \notin {Instance, MAX_INSTANCE}
  THEN <<"error", "OBJECT", "UNKNOWN_OBJECT">>
  ELSE CASE asked.property = "OBJECT_NAME" ->
              <<"value", <<application(TAG_CHARACTER_STRING, "object_name")>>>>
         [] asked.property = "OBJECT_IDENTIFIER" ->
              <<"value", <<application(TAG_OBJECT_IDENTIFIER, <<"DEVICE", Instance>>)>>>>
         [] OTHER -> <<"error", "PROPERTY", "UNKNOWN_PROPERTY">>

ExpectedRead ==
  LET held == asked.property \in HeldOf(asked.object)
      octets == objects[asked.object][asked.property]
  IN
  IF asked.object \notin DOMAIN objects THEN ExpectedOfDevice
  ELSE IF FailureSet = "malformed" THEN <<"value", Null>>
  ELSE IF asked.index = None /\ <<asked.object, asked.property>> \in whole_arrays_refused
  THEN <<"Abort", "SEGMENTATION_NOT_SUPPORTED">>
  ELSE IF ~held THEN <<"error", "PROPERTY", "UNKNOWN_PROPERTY">>
  ELSE IF asked.index # None /\ ArrayElements THEN ExpectedElement(octets, asked.index)
  ELSE <<"value", octets>>

ExpectedWrite ==
  LET held == asked.property \in HeldOf(asked.object)
      relinquished == /\ Commandable # None /\ asked.value = Null /\ held /\ mode = "online"
                      /\ ~(asked.object \in Commanded /\ asked.property = "PRESENT_VALUE")
      writable == IF Writable = None THEN held ELSE <<asked.object, asked.property>> \in Writable
  IN
  IF asked.object \notin DOMAIN objects THEN <<"error", "OBJECT", "UNKNOWN_OBJECT">>
  ELSE IF relinquished \/ (writable /\ mode # "refusing") THEN <<"ack">>
  ELSE <<"error", "PROPERTY", "WRITE_ACCESS_DENIED">>

ExpectedResult(object, property) ==
  [object |-> object, property |-> property, array_index |-> None,
   result |-> IF property \in HeldOf(object) THEN <<"value", objects[object][property]>>
              ELSE <<"error", <<"PROPERTY", "UNKNOWN_PROPERTY">>>>]

ExpectedResults ==
  UNION {{ExpectedResult(s.object, s.references[i].property) : i \in DOMAIN s.references}
           : s \in ToSet(asked.specifications)}

Expected ==
  IF ~asked.npdu \/ asked.message # None \/ mode = "offline" THEN <<"none">>
  ELSE IF FailureSet = "reject" THEN <<"Reject", "UNRECOGNIZED_SERVICE">>
  ELSE IF FailureSet = "abort" THEN <<"Abort", "SEGMENTATION_NOT_SUPPORTED">>
  ELSE IF FailureSet = "silent" THEN <<"none">>
  ELSE CASE asked.service = "ReadProperty" -> ExpectedRead
         [] asked.service = "WriteProperty" -> ExpectedWrite
         [] asked.service = "ReadPropertyMultiple" -> <<"results", ExpectedResults>>
         [] asked.service = "Who-Is" ->
              IF asked.low = None \/ Instance \in asked.low..asked.high
              THEN <<"I-Am", Instance>> ELSE <<"none">>
         [] OTHER -> <<"none">>

-----------------------------------------------------------------------------

ServerTypeOK ==
  /\ DOMAIN objects = DOMAIN Objects
  /\ \A o \in DOMAIN Objects : DOMAIN Objects[o] \subseteq DOMAIN objects[o]
  /\ DOMAIN priority_arrays = Commanded
  /\ \A o \in Commanded : DOMAIN priority_arrays[o] = 1..16
  /\ mode \in Modes
  /\ DOMAIN failures \subseteq FailingObjects
  /\ whole_arrays_refused \subseteq Whole
  /\ thread \in Threads
  /\ asked \in Requests \union {None}
  /\ failure \in {None, "malformed"}
  /\ count \in [Counts -> 0..MaxRequests]
  /\ {running, closed, settled} \subseteq BOOLEAN
  /\ changes \in 0..MaxChanges
  /\ thread \notin {"waiting", "ended"} => asked # None

\* When no setting changed while a request was handled, the client reads the
\* answer the settings call for, whatever the thread did between its four
\* looks at them, and it comes back the way the request came.
SettingsDecide ==
  thread = "waiting" /\ asked # None /\ settled => Said = Expected /\ WayBack

\* What a workstation should read of a notification: an acknowledgement has no
\* ack_required and no from_state.
Notified(n) ==
  LET absent(field_value) == IF n.notify_type = "ACK_NOTIFICATION" THEN None ELSE field_value
  IN [process_identifier |-> n.process_identifier,
      initiating_device |-> <<"DEVICE", n.initiating_device>>, event_object |-> n.event_object,
      time_stamp |-> n.time_stamp, notification_class |-> n.notification_class,
      priority |-> n.priority, event_type |-> "OUT_OF_RANGE", notify_type |-> n.notify_type,
      ack_required |-> absent(n.ack_required), from_state |-> absent(n.from_state),
      to_state |-> n.to_state]

\* What alarm.py and services.py read of the constructed values is what was
\* put there, although the tags inside them repeat the numbers of the tags
\* around them: every field of a notification that is in it, whatever follows,
\* and every landing call of a property that is read whole, with its own fields
\* and no other's, whatever the settings do meanwhile.
ServicesReadBack ==
  asked # None /\ asked.npdu /\ asked.message = None =>
    /\ asked.service = "ConfirmedEventNotification" =>
         EventNotification(apdu) = Notified(asked.notification)
    /\ asked.service = "ReadProperty" =>
         \A calls \in LandingCalls :
           /\ thread = "waiting" /\ asked.index = None /\ Said[1] = "value" /\ Said[2] # Null
           /\ asked.property \in HeldOf(asked.object)
           /\ objects[asked.object][asked.property] = landing_calls(calls)
           => decode_landing_calls(Said[2]) = calls

\* Every ReadProperty, ReadPropertyMultiple or WriteProperty that arrived was
\* answered, or counted as unanswered by exactly one of the two counters, or
\* is in hand - however the settings change meanwhile.
RequestsAccountedFor ==
  count["arrived"] = count["answered"] + count["requests_while_offline"]
                       + count["silent_requests"]
                       + (IF thread \notin {"waiting", "ended"} /\ Kept THEN 1 ELSE 0)

\* The description of "commandable": the objects commanded behave as a priority
\* array whose winning slot is the Present_Value in the same step.  What the
\* thread stores before it has picked the winner is never served.
WrittenValues == {r.value : r \in {q \in Requests : q.service = "WriteProperty"}} \ {Null}

Command(o) == INSTANCE CommandableProperty WITH
  Values <- WrittenValues,
  Relinquish_Default <- Objects[o]["PRESENT_VALUE"],
  Null <- None,
  priority_array <- priority_arrays[o],
  present_value <- IF thread = "commanding" /\ writing.object = o
                   THEN Winner(o, priority_arrays[o]) ELSE objects[o]["PRESENT_VALUE"]

ServesCommandable ==
  /\ \A o \in Commanded : Command(o)!Init
  /\ [][\A o \in Commanded :
           UNCHANGED Command(o)!commandVars \/ Command(o)!Next]_vars

\* peer.py, cl. 19.2.1: on a server made with "commandable" a NULL written to a
\* property that is not commanded "is acknowledged and changes nothing".
NullChangesNothing ==
  Commandable # None =>
    \A o \in DOMAIN objects : \A p \in DOMAIN objects[o] :
      (o \in Commanded /\ p = "PRESENT_VALUE") \/ objects[o][p] # Null

\* stop() comes to its end: the thread leaves and the sockets are closed.
StopCloses == ~running ~> closed
=============================================================================
