---------------------------- MODULE MCKafkaConsumer ----------------------------
(***************************************************************************)
(* Instances of KafkaConsumer for TLC.                                     *)
(***************************************************************************)
EXTENDS KafkaConsumer, TLC

\* The event types the code publishes, with the number of handlers that
\* register_all_handlers (kafka/handlers.py:78-83) gives each.
Registered == [type \in {"voice.session", "service.request", "notification",
                         "booking.created", "dlq.failed"} |->
                  IF type = "notification" THEN 1 ELSE 0]

\* The registry takes any number of handlers per type: here two for bookings
\* and one for dead letters, which share the audit-log topic.
AuditHandlers == [Registered EXCEPT !["booking.created"] = 2, !["dlq.failed"] = 1]

\* A partition of the audit-log topic, two of notifications and one of service
\* requests.
DeliveryLog == <<"booking.created", "dlq.failed">>
ProgressLog == <<"notification", "malformed", "notification", "not_an_object">>
LetterLog == <<"notification">>
RequestLog == <<"service.request", "service.request">>

\* Processes are interchangeable in a run without liveness.
ConsumerSymmetry == Permutations(Consumers)
=============================================================================
