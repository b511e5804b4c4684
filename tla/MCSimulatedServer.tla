--------------------------- MODULE MCSimulatedServer ---------------------------
\* A commandable output, a value that is not commandable, a list, and the
\* requests that tell the rules of SimulatedServer apart.
EXTENDS SimulatedServerPromises

Output == <<"ANALOG_OUTPUT", 1>>
Point  == <<"ANALOG_VALUE", 1>>
Device == <<"DEVICE", Instance>>

Call(floor, direction, destination, text) ==
  [floor |-> floor, direction |-> direction, destination |-> destination, floor_text |-> text]

Lift   == <<"LIFT", 1>>

\* Calls by direction and by destination, the second and the last with a text.
Calls == <<Call(3, "UP", None, None), Call(7, None, 2, "Lobby"), Call(0, "DOWN", None, None),
           Call(2, None, 0, "Bank")>>

Real(x) == <<application(TAG_REAL, x)>>

Notification(type, from, to, text) ==
  [process_identifier |-> 1, initiating_device |-> 9, event_object |-> Point,
   time_stamp |-> [date |-> "date", time |-> "time"], notification_class |-> 7,
   priority |-> 100, message_text |-> text, notify_type |-> type, ack_required |-> TRUE,
   from_state |-> from, to_state |-> to, exceeding_value |-> 95, exceeded_limit |-> 90]

Notifications ==
  {Notification("ALARM", "NORMAL", "HIGH_LIMIT", "text"),
   Notification("EVENT", "HIGH_LIMIT", "NORMAL", None),
   Notification("ACK_NOTIFICATION", "NORMAL", "HIGH_LIMIT", None)}

MCObjects ==
  Output :> ("PRESENT_VALUE" :> Real(0)) @@
  Point  :> ("PRESENT_VALUE" :> Real(0) @@
             "LIST" :> <<application(TAG_UNSIGNED, 5), application(TAG_UNSIGNED, 6)>>) @@
  Lift   :> ("LANDING_CALLS" :> landing_calls(Calls))

MCCommandable == {Output}
MCWhole       == {<<Point, "LIST">>}
MCFailing     == {Output}
MCFailures    == {"reject", "abort", "silent", "malformed"}

Ask(name) ==
  [service |-> name, message |-> None, snet |-> None, sadr |-> None, broadcast |-> FALSE,
   npdu |-> TRUE]

Read(object, property, index) ==
  Ask("ReadProperty") @@ [object |-> object, property |-> property, index |-> index]

Write(object, property, octets, priority) ==
  Ask("WriteProperty") @@ [object |-> object, property |-> property, index |-> None,
                           value |-> octets, priority |-> priority]

WhoIs(low, high) == Ask("Who-Is") @@ [low |-> low, high |-> high]

Multiple(specifications) ==
  Ask("ReadPropertyMultiple") @@ [specifications |-> specifications]

Reference(property) == [property |-> property, array_index |-> None]

Notify(notification) ==
  Ask("ConfirmedEventNotification") @@ [notification |-> notification]

Routed(request) == [request EXCEPT !.snet = 7, !.sadr = "mac"]

MCRequests ==
  {Read(Output, "PRESENT_VALUE", None),
   Routed(Read(Point, "PRESENT_VALUE", None)),
   Read(Point, "UNITS", None)}
  \union {Read(Point, "LIST", index) : index \in {None, 0, 2, 3}}
  \union {Read(Device, "OBJECT_NAME", None),
          Read(<<"DEVICE", MAX_INSTANCE>>, "OBJECT_IDENTIFIER", None),
          Read(<<"DEVICE", 9>>, "OBJECT_NAME", None),
          Multiple(<<[object |-> Output, references |-> <<Reference("PRESENT_VALUE")>>],
                     [object |-> Point, references |-> <<Reference("UNITS"), Reference("LIST")>>]>>)}
  \union {Write(Output, "PRESENT_VALUE", octets, priority) :
            octets \in {Real(1), Null}, priority \in {None, 8}}
  \union {Write(Output, "PRESENT_VALUE", Real(2), 16),
          Routed(Write(Point, "PRESENT_VALUE", Real(1), None)),
          Write(Point, "PRESENT_VALUE", Null, None),
          Write(Point, "UNITS", Real(1), None),
          Write(<<"ANALOG_VALUE", 9>>, "PRESENT_VALUE", Real(1), None)}
  \union {WhoIs(None, None), [WhoIs(1, 4) EXCEPT !.broadcast = TRUE], WhoIs(4, 9)}
  \union {Read(Lift, "LANDING_CALLS", None)} \union {Notify(n) : n \in Notifications}
  \union {Ask("DeleteObject"),
          [Ask("network") EXCEPT !.message = "Who-Is-Router-To-Network"],
          [Ask("BVLL") EXCEPT !.npdu = FALSE]}

MCLandingCalls == {Calls, SubSeq(Calls, 1, 2)}
=============================================================================
