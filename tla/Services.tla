-------------------------------- MODULE Services --------------------------------
(***************************************************************************)
(* wiretest/alarm.py and wiretest/services.py: the constructed values of   *)
(* the other services, which nest context tags whose numbers repeat those  *)
(* of the fields around them.                                              *)
(***************************************************************************)
EXTENDS Codec

\* Mutant: nested tags count as well.
AnyLevel(tags) == {i \in DOMAIN tags : tags[i].kind = "value" /\ tags[i].context}

\* Where the fields of a message stand that are not inside another of them.
TopLevel(tags) ==
  {i \in DOMAIN tags : tags[i].kind = "value" /\ tags[i].context /\ Depth(SubSeq(tags, 1, i)) = 0}

\* What is read last under each number, of the tags at these positions.
fields_at(tags, positions) ==
  [n \in {tags[i].number : i \in positions} |->
     tags[Max({i \in positions : tags[i].number = n})].body]

\* services._notification_fields
notification_fields(tags) == fields_at(tags, TopLevel(tags))

field(fields, number) == IF number \in DOMAIN fields THEN fields[number] ELSE None

-----------------------------------------------------------------------------
\* alarm.event_notification and EventNotification

TAG_DATE == 10
TAG_TIME == 11

context_date_time(number, stamp) ==
  constructed(number, constructed(2,
    <<application(TAG_DATE, stamp.date), application(TAG_TIME, stamp.time)>>))

\* [12] eventValues, the out-of-range choice [5].
event_values(n) ==
  constructed(12, constructed(5,
    <<context(0, n.exceeding_value), context(1, n.to_state # "NORMAL"), context(2, 1),
      context(3, n.exceeded_limit)>>))

event_notification(n, confirmed, invoke_id) ==
  LET ack == n.notify_type = "ACK_NOTIFICATION"
      parameters ==
        <<context(0, n.process_identifier), context(1, <<"DEVICE", n.initiating_device>>),
          context(2, n.event_object)>>
          \o context_date_time(3, n.time_stamp)
          \o <<context(4, n.notification_class), context(5, n.priority), context(6, "OUT_OF_RANGE")>>
          \o optional(7, n.message_text)
          \o <<context(8, n.notify_type)>>
          \o (IF ack THEN <<context(11, n.to_state)>>
              ELSE <<context(9, n.ack_required), context(10, n.from_state),
                     context(11, n.to_state)>> \o event_values(n))
  IN  IF confirmed THEN confirmed_request(invoke_id, "ConfirmedEventNotification", parameters)
      ELSE APDU("UnconfirmedRequest", None, "UnconfirmedEventNotification", parameters)

\* read_time_stamp_choice: the dateTime form's date and time, else None.
read_time_stamp(tags, position) ==
  IF IsOpening(tags[position], 2)
  THEN [date |-> tags[position + 1].body, time |-> tags[position + 2].body] ELSE None

EventNotification(apdu) ==
  LET tags   == apdu.parameters
      fields == notification_fields(tags)
      stamps == {i \in DOMAIN tags : tags[i].kind = "open" /\ tags[i].number = 3
                                     /\ Depth(SubSeq(tags, 1, i)) = 1}
  IN [process_identifier |-> field(fields, 0), initiating_device |-> field(fields, 1),
      event_object |-> field(fields, 2),
      time_stamp |-> IF stamps = {} THEN None ELSE read_time_stamp(tags, Max(stamps) + 1),
      notification_class |-> field(fields, 4), priority |-> field(fields, 5),
      event_type |-> field(fields, 6), notify_type |-> field(fields, 8),
      ack_required |-> field(fields, 9), from_state |-> field(fields, 10),
      to_state |-> field(fields, 11)]

-----------------------------------------------------------------------------
\* services.landing_call_status and decode_landing_calls

landing_call_status(call) ==
  <<context(0, call.floor)>>
    \o (IF call.direction # None THEN <<context(1, call.direction)>>
        ELSE <<context(2, call.destination)>>)
    \o optional(3, call.floor_text)

\* A list of calls as a property holds it.
landing_calls(calls) == FlattenSeq([k \in DOMAIN calls |-> landing_call_status(calls[k])])

decode_landing_calls(tags) ==
  LET values == {i \in DOMAIN tags : tags[i].context /\ tags[i].kind = "value"}
      floors == InOrder({i \in values : tags[i].number = 0})
      until(k) == IF k = Len(floors) THEN Len(tags) ELSE floors[k + 1] - 1
      call(k) == fields_at(tags, {i \in values : i \in floors[k]..until(k)})
  IN [k \in DOMAIN floors |->
       [floor |-> call(k)[0], direction |-> field(call(k), 1),
        destination |-> field(call(k), 2), floor_text |-> field(call(k), 3)]]
=============================================================================
