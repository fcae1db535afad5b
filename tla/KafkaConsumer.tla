------------------------------ MODULE KafkaConsumer ------------------------------
(***************************************************************************)
(* KafkaConsumerService (hotel_agent/kafka/producer_consumer.py), the      *)
(* command that runs it and the handlers it is given (kafka/handlers.py),  *)
(* as a consumer group of several processes reading one partition.         *)
(*                                                                         *)
(* A process polls one message, runs its handlers one after the other with *)
(* up to MaxRetries attempts each, hands what keeps failing to its own     *)
(* producer as a dead letter, and asks for an asynchronous commit.  The    *)
(* group may move the partition to another process at any time: librdkafka *)
(* does that in its own thread, so a process learns nothing of it while it *)
(* is inside _process_message, and its commit is accepted all the same.    *)
(***************************************************************************)
EXTENDS Integers, Sequences, FiniteSets

CONSTANTS
    Consumers,       \* processes of the group
    Log,             \* the partition: a sequence of event types
    HandlerCount,    \* [event type -> number of registered handlers]
    MaxRetries,      \* MAX_RETRIES
    ProducerFaults,  \* subset of {"refused", "full"}: how publish may fail
    MaxDisruptions,  \* bound: crashes, rebalances and SIGTERMs together
    None             \* no owner

Types == DOMAIN HandlerCount
\* What json.loads rejects, and what it accepts without being an object.
Unreadable == {"malformed", "not_an_object"}

ASSUME RetriesAssumption == MaxRetries \in Nat \ {0}
ASSUME LogAssumption == /\ Log \in Seq(Types \cup Unreadable)
                        /\ HandlerCount \in [Types -> Nat]
                        /\ Types \cap Unreadable = {}
ASSUME FaultsAssumption == ProducerFaults \subseteq {"refused", "full"}
ASSUME BoundAssumption == MaxDisruptions \in Nat
ASSUME NoneAssumption == None \notin Consumers

VARIABLES
    con,         \* each process: see Process
    owner,       \* the process the partition is assigned to
    committed,   \* the group's committed offset
    pending,     \* [Consumers -> offset of a commit in flight, or -1]
    buffer,      \* [Consumers -> dead letters in the producer's queue]
    deadletters, \* dead letters on the broker
    settled,     \* history: handlers that returned or were given up on
    lost,        \* history: dead letters that never reached the broker
    crashes,     \* processes killed, or ended by a full producer queue
    rebalances,  \* times the partition was taken from its owner
    stops        \* SIGTERMs delivered

group == <<owner, committed, pending>>
letters == <<buffer, deadletters>>
history == <<settled, lost>>
bounds == <<crashes, rebalances, stops>>
vars == <<con, group, letters, history, bounds>>

-----------------------------------------------------------------------------
Offsets == 0..(Len(Log) - 1)
Event(o) == Log[o + 1]

\* An event type nobody registered has no handlers, and neither has a message
\* that cannot be read.
Handlers(o) == IF Event(o) \in Types THEN 1..HandlerCount[Event(o)] ELSE {}
Last(o) == IF Event(o) \in Types THEN HandlerCount[Event(o)] ELSE 0

Step == [offset : Offsets, handler : Nat \ {0}]

Members == {"polling", "handling", "committing"}   \* subscribed processes
Over == {"stopped", "down"}

\* pc, the _running flag, the fetch position, and the message in hand: its
\* offset, the handler it is at and that handler's failed attempts.
Process == [pc : {"starting"} \cup Members \cup Over, running : BOOLEAN,
            position : 0..Len(Log), offset : 0..Len(Log),
            handler : Nat \ {0}, attempt : 0..(MaxRetries - 1)]

Fresh == [pc |-> "starting", running |-> FALSE, position |-> 0, offset |-> 0,
          handler |-> 1, attempt |-> 0]

Disruptable == crashes + rebalances + stops < MaxDisruptions

At(c, pc) == con[c].pc = pc
Set(c, process) == con' = [con EXCEPT ![c] = process]
InHand(c) == [offset |-> con[c].offset, handler |-> con[c].handler]

\* The process is gone: its commit in flight, the dead letters it had not yet
\* delivered (nothing flushes them) and its place in the group with it.
Leave(c, pc) ==
    /\ Set(c, [Fresh EXCEPT !.pc = pc])
    /\ owner' = IF owner = c THEN None ELSE owner
    /\ pending' = [pending EXCEPT ![c] = -1]
    /\ buffer' = [buffer EXCEPT ![c] = {}]
    /\ lost' = lost \cup buffer[c]
    /\ UNCHANGED <<committed, deadletters>>

-----------------------------------------------------------------------------
(* The command and start() *)

\* subscribe, then self._running = True, whatever stop() did before.
Subscribe(c) ==
    /\ At(c, "starting")
    /\ Set(c, [con[c] EXCEPT !.pc = "polling", !.running = TRUE])
    /\ UNCHANGED <<group, letters, history, bounds>>

\* SIGTERM or SIGINT: handle_shutdown calls stop().
Stop(c) ==
    /\ con[c].pc \notin Over
    /\ Disruptable
    /\ stops' = stops + 1
    /\ Set(c, [con[c] EXCEPT !.running = FALSE])
    /\ UNCHANGED <<group, letters, history, crashes, rebalances>>

\* Faulty variant: poll without a timeout, so an idle process never looks at
\* the flag.
LoopExitAfterMessage(c) ==
    /\ At(c, "polling")
    /\ ~con[c].running
    /\ owner = c
    /\ con[c].position \in Offsets
    /\ Leave(c, "stopped")
    /\ UNCHANGED <<settled, bounds>>

\* while self._running ... finally close(); the command then returns.
LoopExit(c) ==
    /\ At(c, "polling")
    /\ ~con[c].running
    /\ Leave(c, "stopped")
    /\ UNCHANGED <<settled, bounds>>

\* subscribe makes the process a member: poll returns messages to the owner only.
\* Faulty variant: partitions assigned by hand, outside the group.
FetchesUngrouped(c) == con[c].position \in Offsets
Fetches(c) == owner = c /\ con[c].position \in Offsets

\* poll returns a message and _process_message looks its handlers up.
Poll(c) ==
    LET o == con[c].position
        taken == [con[c] EXCEPT !.position = o + 1, !.offset = o,
                                !.handler = 1, !.attempt = 0]
    IN
    /\ At(c, "polling")
    /\ con[c].running
    /\ Fetches(c)
    /\ \/ /\ Event(o) # "not_an_object"
          /\ Set(c, [taken EXCEPT !.pc = IF Handlers(o) = {} THEN "committing"
                                                            ELSE "handling"])
          /\ UNCHANGED <<group, letters, lost>>
       \/ /\ Event(o) = "not_an_object"      \* AttributeError leaves start()
          /\ Leave(c, "down")
    /\ UNCHANGED <<settled, bounds>>

(* _process_message *)

\* Faulty variant: the last handler of the list is left out.
AfterHandlerButLast(c) ==
    IF con[c].handler + 1 < Last(con[c].offset)
    THEN Set(c, [con[c] EXCEPT !.handler = @ + 1, !.attempt = 0])
    ELSE Set(c, [con[c] EXCEPT !.pc = "committing", !.handler = 1, !.attempt = 0])

\* The next handler, or the commit when that was the last one.
AfterHandler(c) ==
    IF con[c].handler < Last(con[c].offset)
    THEN Set(c, [con[c] EXCEPT !.handler = @ + 1, !.attempt = 0])
    ELSE Set(c, [con[c] EXCEPT !.pc = "committing", !.handler = 1, !.attempt = 0])

HandlerReturns(c) ==
    /\ At(c, "handling")
    /\ settled' = settled \cup {InHand(c)}
    /\ AfterHandler(c)
    /\ UNCHANGED <<group, letters, lost, bounds>>

\* Faulty variant: one attempt too many (attempt <= MAX_RETRIES).
HandlerRetriesOnceMore(c) ==
    /\ At(c, "handling")
    /\ con[c].attempt < MaxRetries
    /\ Set(c, [con[c] EXCEPT !.attempt = @ + 1])
    /\ UNCHANGED <<group, letters, history, bounds>>

HandlerRetries(c) ==
    /\ At(c, "handling")
    /\ con[c].attempt + 1 < MaxRetries
    /\ Set(c, [con[c] EXCEPT !.attempt = @ + 1])
    /\ UNCHANGED <<group, letters, history, bounds>>

\* Faulty variant: the last failure is raised again instead of dead-lettered.
HandlerRaises(c) ==
    /\ At(c, "handling")
    /\ con[c].attempt + 1 >= MaxRetries
    /\ Leave(c, "down")
    /\ UNCHANGED <<settled, bounds>>

\* The last attempt fails and publish queues the dead letter; it may refuse it
\* (the False is ignored) or raise BufferError, which ends the process.
HandlerGivesUp(c) ==
    /\ At(c, "handling")
    /\ con[c].attempt + 1 >= MaxRetries
    /\ \/ /\ buffer' = [buffer EXCEPT ![c] = @ \cup {InHand(c)}]
          /\ settled' = settled \cup {InHand(c)}
          /\ AfterHandler(c)
          /\ UNCHANGED <<group, deadletters, lost, crashes>>
       \/ /\ "refused" \in ProducerFaults
          /\ lost' = lost \cup {InHand(c)}
          /\ settled' = settled \cup {InHand(c)}
          /\ AfterHandler(c)
          /\ UNCHANGED <<group, letters, crashes>>
       \/ /\ "full" \in ProducerFaults
          /\ Disruptable
          /\ crashes' = crashes + 1
          /\ Leave(c, "down")
          /\ UNCHANGED settled
    /\ UNCHANGED <<rebalances, stops>>

\* consumer.commit(message=msg): asynchronous by default.
CommitCall(c) ==
    /\ At(c, "committing")
    /\ pending' = [pending EXCEPT ![c] = con[c].offset + 1]
    /\ Set(c, [con[c] EXCEPT !.pc = "polling", !.offset = 0])
    /\ UNCHANGED <<owner, committed, letters, history, bounds>>

-----------------------------------------------------------------------------
(* The broker, the group and the machine: external, as the code uses them. *)

BrokerCommits(c) ==
    /\ pending[c] # -1
    /\ committed' = pending[c]
    /\ pending' = [pending EXCEPT ![c] = -1]
    /\ UNCHANGED <<con, owner, letters, history, bounds>>

BrokerStores(c) ==
    /\ buffer[c] # {}
    /\ deadletters' = deadletters \cup buffer[c]
    /\ buffer' = [buffer EXCEPT ![c] = {}]
    /\ UNCHANGED <<con, group, history, bounds>>

\* The producer is out of retries or of time: _delivery_callback only logs it.
DeliveryFails(c) ==
    \E letter \in buffer[c] :
        /\ buffer' = [buffer EXCEPT ![c] = @ \ {letter}]
        /\ lost' = lost \cup {letter}
        /\ UNCHANGED <<con, group, deadletters, settled, bounds>>

\* Faulty variant: an on_assign callback that rewinds to the beginning.
AssignFromBeginning(c) ==
    /\ con[c].pc \in Members
    /\ owner # c
    /\ owner # None => Disruptable
    /\ rebalances' = IF owner = None THEN rebalances ELSE rebalances + 1
    /\ owner' = c
    /\ Set(c, [con[c] EXCEPT !.position = 0])
    /\ pending' \in {pending, [d \in Consumers |-> -1]}
    /\ UNCHANGED <<committed, letters, history, crashes, stops>>

\* The partition is assigned to c, which fetches from the committed offset.  A
\* commit in flight may belong to the old generation and be refused.
Assign(c) ==
    /\ con[c].pc \in Members
    /\ owner # c
    /\ owner # None => Disruptable
    /\ rebalances' = IF owner = None THEN rebalances ELSE rebalances + 1
    /\ owner' = c
    /\ Set(c, [con[c] EXCEPT !.position = committed])
    /\ pending' \in {pending, [d \in Consumers |-> -1]}
    /\ UNCHANGED <<committed, letters, history, crashes, stops>>

Crash(c) ==
    /\ con[c].pc \in {"starting"} \cup Members
    /\ Disruptable
    /\ crashes' = crashes + 1
    /\ Leave(c, "down")
    /\ UNCHANGED <<settled, rebalances, stops>>

\* The container restarts a process that died.
Restart(c) ==
    /\ At(c, "down")
    /\ Set(c, Fresh)
    /\ UNCHANGED <<group, letters, history, bounds>>

-----------------------------------------------------------------------------
Init ==
    /\ con = [c \in Consumers |-> Fresh]
    /\ owner = None
    /\ committed = 0
    /\ pending = [c \in Consumers |-> -1]
    /\ buffer = [c \in Consumers |-> {}]
    /\ deadletters = {}
    /\ settled = {} /\ lost = {}
    /\ crashes = 0 /\ rebalances = 0 /\ stops = 0

Handle(c) == HandlerReturns(c) \/ HandlerRetries(c) \/ HandlerGivesUp(c)

Proceed(c) == \/ Subscribe(c) \/ LoopExit(c) \/ Poll(c)
              \/ Handle(c) \/ CommitCall(c)

Next == \E c \in Consumers : \/ Proceed(c) \/ Stop(c) \/ Crash(c) \/ Restart(c)
                             \/ BrokerCommits(c) \/ BrokerStores(c)
                             \/ DeliveryFails(c) \/ Assign(c)

Spec == Init /\ [][Next]_vars

\* A process that was started runs on, handlers return or raise in the end, an
\* orphaned partition is assigned and a dead container restarted.  The broker need
\* not take a commit or a dead letter.
Fairness == \A c \in Consumers :
               /\ WF_vars(Proceed(c)) /\ WF_vars(Restart(c))
               /\ WF_vars(owner = None /\ Assign(c))

FairSpec == Spec /\ Fairness

-----------------------------------------------------------------------------
(* Properties *)

TypeOK ==
    /\ con \in [Consumers -> Process]
    /\ owner \in Consumers \cup {None}
    /\ committed \in 0..Len(Log)
    /\ pending \in [Consumers -> (-1)..Len(Log)]
    /\ buffer \in [Consumers -> SUBSET Step]
    /\ deadletters \subseteq Step
    /\ settled \subseteq Step /\ lost \subseteq Step
    /\ crashes \in Nat /\ rebalances \in Nat /\ stops \in Nat
    /\ crashes + rebalances + stops <= MaxDisruptions

\* A message is settled once each of its handlers has returned or been given
\* up on.
Settled(o) == \A h \in Handlers(o) : [offset |-> o, handler |-> h] \in settled

Delivery == INSTANCE AtLeastOnce WITH
    Length <- Len(Log),
    Steps <- [o \in Offsets |-> Handlers(o)]

\* "At-least-once delivery semantics" (producer_consumer.py:169): messages are
\* settled in order and the committed offset never passes one that is not,
\* through crashes, shutdowns, rebalances and lost commits.
ImplementsAtLeastOnce == Delivery!Spec

Holding(c) == con[c].pc \in {"handling", "committing"}

\* As long as the group never moves the partition away from a live process,
\* one process at a time has a message in hand.
ExclusiveUnlessRebalanced ==
    rebalances = 0 => \A c, d \in Consumers : Holding(c) /\ Holding(d) => c = d

\* The committed offset moves back only after such a move: then the former
\* owner commits a message its successor is already past.
NoRewindUnlessRebalanced == [][rebalances' = 0 => committed' >= committed]_vars

\* Every message with a handler is settled in the end, unless a message that is not
\* an object comes before it or every process was told to stop: retries are bounded,
\* what keeps failing or cannot be parsed does not hold up what follows it, and a
\* new owner resumes no later than where the last one got to
\* (producer_consumer.py:238-262).
AllSettled == <>(\/ \A o \in Offsets : Settled(o)
                 \/ \A c \in Consumers : At(c, "stopped"))

\* A SIGTERM that finds the process in its loop ends it, after the message in
\* hand and even if no other message comes (producer_consumer.py:209-224).
StopHonoured ==
    \A c \in Consumers :
        con[c].pc \in Members /\ ~con[c].running ~> con[c].pc \in Over

\* "Dead letter queue (DLQ) on repeated failures" (producer_consumer.py:170):
\* once the offset of a message given up on is committed, its dead letter is on
\* the broker or on its way there.
DeadLettersKept ==
    \A letter \in lost : letter.offset < committed => letter \in deadletters

\* "Process new service request event - notify staff" (kafka/handlers.py:12):
\* a service request event that is committed went through a handler.
ServiceRequestsHandled ==
    \A o \in Offsets : o < committed /\ Event(o) = "service.request" =>
        \E step \in settled : step.offset = o
=============================================================================
