--------------------------- MODULE KafkaConsumerProofs ---------------------------
(***************************************************************************)
(* Proofs about KafkaConsumer, for every number of processes, every log,   *)
(* every handler registry and every bound.  One inductive invariant:       *)
(*                                                                         *)
(*   Ordered   whatever is behind a fetch position, a commit in flight or  *)
(*             the committed offset has been settled, but for the message  *)
(*             in hand, whose handlers are settled one after the other;    *)
(*   Grouped   as long as nothing was rebalanced, only the owner of the    *)
(*             partition has a message in hand or a commit in flight, and  *)
(*             what it commits lies between the committed offset and its   *)
(*             position.                                                   *)
(*                                                                         *)
(* Ordered gives the refinement of AtLeastOnce; Grouped gives exclusive    *)
(* processing and the monotonic offset.                                    *)
(***************************************************************************)
EXTENDS KafkaConsumer, TLAPS

BehindSettled(o) == \A p \in 0..(o - 1) : Settled(p)

OrderedAt(c) ==
    /\ BehindSettled(pending[c])
    /\ \A p \in 0..(con[c].position - 1) :
          Settled(p) \/ (Holding(c) /\ p = con[c].offset)
    /\ Holding(c) => con[c].offset \in Offsets /\ BehindSettled(con[c].offset)
    /\ At(c, "handling") =>
          /\ con[c].handler \in Handlers(con[c].offset)
          /\ \A h \in 1..(con[c].handler - 1) :
                [offset |-> con[c].offset, handler |-> h] \in settled
    /\ At(c, "committing") => Settled(con[c].offset)

Ordered == /\ BehindSettled(committed)
           /\ \A c \in Consumers : OrderedAt(c)

GroupedAt(c) ==
    /\ owner = c => committed <= con[c].position /\ ~At(c, "down")
    /\ Holding(c) => owner = c /\ con[c].position = con[c].offset + 1
    /\ pending[c] # -1 =>
          owner = c /\ committed <= pending[c] /\ pending[c] <= con[c].position

Grouped == rebalances = 0 => \A c \in Consumers : GroupedAt(c)

Inv == TypeOK /\ Ordered /\ Grouped

-----------------------------------------------------------------------------
(* The log *)

\* The handlers of an offset are numbered from 1 to Last.
LEMMA HandlersAre == ASSUME NEW o \in Offsets
                     PROVE  /\ Last(o) \in Nat
                            /\ Handlers(o) = 1..Last(o)
                            /\ Len(Log) \in Nat
<1>1. Len(Log) \in Nat /\ Event(o) \in Types \cup Unreadable
  BY LogAssumption DEF Offsets, Event
<1>2. CASE Event(o) \in Types
  BY <1>1, <1>2, LogAssumption DEF Handlers, Last, Types
<1>3. CASE Event(o) \notin Types
  <2>1. Handlers(o) = {} /\ Last(o) = 0
    BY <1>3 DEF Handlers, Last
  <2>2. 1..0 = {}
    OBVIOUS
  <2> QED BY <1>1, <2>1, <2>2
<1> QED BY <1>2, <1>3

\* What has been settled stays so.
LEMMA SettledStays == ASSUME NEW o, settled \subseteq settled', Settled(o)
                      PROVE  Settled(o)'
BY DEF Settled

-----------------------------------------------------------------------------
(* Type correctness, action by action *)

\* A process that starts is well typed.
LEMMA FreshTypes == Fresh \in Process
<1>1. /\ 0 \in 0..Len(Log)
      /\ 0 \in 0..(MaxRetries - 1)
      /\ 1 \in Nat \ {0}
      /\ "starting" \in {"starting"} \cup Members \cup Over
  BY LogAssumption, RetriesAssumption
<1> QED BY <1>1 DEF Fresh, Process

\* Leave resets the process and keeps the types of the rest.
LEMMA LeaveTypes == ASSUME TypeOK, NEW c \in Consumers, NEW pc \in Over, Leave(c, pc)
                    PROVE  /\ con' \in [Consumers -> Process]
                           /\ owner' \in Consumers \cup {None}
                           /\ committed' \in 0..Len(Log)
                           /\ pending' \in [Consumers -> (-1)..Len(Log)]
                           /\ buffer' \in [Consumers -> SUBSET Step]
                           /\ deadletters' \subseteq Step
                           /\ lost' \subseteq Step
<1>0. Len(Log) \in Nat
  BY LogAssumption
<1>1. [Fresh EXCEPT !.pc = pc] \in Process
  BY FreshTypes DEF Process
<1>2. con' \in [Consumers -> Process]
  BY <1>1 DEF Leave, Set, TypeOK
<1>3. pending' \in [Consumers -> (-1)..Len(Log)]
  BY <1>0 DEF Leave, TypeOK
<1>4. buffer' \in [Consumers -> SUBSET Step]
  BY DEF Leave, TypeOK
<1>5. lost' \subseteq Step
  BY DEF Leave, TypeOK
<1>6. owner' \in Consumers \cup {None}
  BY DEF Leave, TypeOK
<1>7. committed' \in 0..Len(Log) /\ deadletters' \subseteq Step
  BY DEF Leave, TypeOK
<1> QED BY <1>2, <1>3, <1>4, <1>5, <1>6, <1>7

\* AfterHandler moves to a handler the message has, or to the commit.
LEMMA AfterHandlerTypes == ASSUME TypeOK, NEW c \in Consumers, AfterHandler(c)
                           PROVE  con' \in [Consumers -> Process]
<1>1. con[c] \in Process
  BY DEF TypeOK
<1>2. /\ con[c].handler + 1 \in Nat \ {0}
      /\ 1 \in Nat \ {0}
      /\ 0 \in 0..(MaxRetries - 1)
      /\ "committing" \in {"starting"} \cup Members \cup Over
  BY <1>1, RetriesAssumption DEF Process, Members
<1>3. [con[c] EXCEPT !.handler = @ + 1, !.attempt = 0] \in Process
  BY <1>1, <1>2 DEF Process
<1>4. [con[c] EXCEPT !.pc = "committing", !.handler = 1, !.attempt = 0] \in Process
  BY <1>1, <1>2 DEF Process
<1> QED BY <1>3, <1>4 DEF AfterHandler, Set, TypeOK

-----------------------------------------------------------------------------
(* Steps shared by several actions *)

\* Set changes one process.
LEMMA SetChanges == ASSUME TypeOK, NEW c \in Consumers, NEW process, Set(c, process)
                    PROVE  /\ con'[c] = process
                           /\ \A d \in Consumers \ {c} : con'[d] = con[d]
BY DEF Set, TypeOK

\* A process that leaves has nothing in hand, in flight or assigned.
LEMMA LeaveFields ==
    ASSUME TypeOK, NEW c \in Consumers, NEW pc \in Over, Leave(c, pc)
    PROVE  /\ con'[c].pc = pc
           /\ con'[c].position = 0
           /\ \A d \in Consumers \ {c} : con'[d] = con[d] /\ pending'[d] = pending[d]
           /\ pending'[c] = -1
           /\ committed' = committed
           /\ owner' # c
           /\ \A d \in Consumers \ {c} : owner' = d <=> owner = d
<1>1. con'[c] = [Fresh EXCEPT !.pc = pc] /\ \A d \in Consumers \ {c} : con'[d] = con[d]
  BY SetChanges DEF Leave
<1>2. con'[c].pc = pc /\ con'[c].position = 0
  BY <1>1 DEF Fresh
<1>3. pending'[c] = -1 /\ \A d \in Consumers \ {c} : pending'[d] = pending[d]
  BY DEF Leave, TypeOK
<1>4. owner' # c /\ \A d \in Consumers \ {c} : owner' = d <=> owner = d
  BY NoneAssumption DEF Leave
<1> QED BY <1>1, <1>2, <1>3, <1>4 DEF Leave

\* A process that goes takes its commit in flight and its message along.
LEMMA LeaveKeeps ==
    ASSUME Inv, NEW c \in Consumers, NEW pc \in Over, Leave(c, pc),
           settled' = settled, rebalances' = rebalances
    PROVE  Ordered' /\ Grouped'
<1> USE LeaveFields DEF Inv
<1>1. ~Holding(c)' /\ ~At(c, "handling")' /\ ~At(c, "committing")'
  BY DEF Holding, At, Over
<1>2. \A p : Settled(p)' <=> Settled(p)
  BY DEF Settled
<1>3. BehindSettled(committed)'
  BY <1>2 DEF BehindSettled, Ordered
<1>4. OrderedAt(c)'
  BY <1>1 DEF OrderedAt, BehindSettled
<1>5. ASSUME NEW d \in Consumers \ {c}
      PROVE  OrderedAt(d)'
  BY <1>2 DEF Ordered, OrderedAt, BehindSettled, Holding, At
<1>6. rebalances' = 0 => GroupedAt(c)'
  BY <1>1 DEF GroupedAt, At
<1>7. ASSUME NEW d \in Consumers \ {c}, rebalances' = 0
      PROVE  GroupedAt(d)'
  BY <1>7 DEF Grouped, GroupedAt, Holding, At
<1> QED BY <1>3, <1>4, <1>5, <1>6, <1>7 DEF Ordered, Grouped

\* A step that touches neither the offsets nor what is settled and leaves the
\* other processes alone has only its own process to answer for.
LEMMA OthersKeep ==
    ASSUME Inv, NEW c \in Consumers, NEW process, Set(c, process),
           settled \subseteq settled', UNCHANGED <<committed, owner, rebalances>>,
           \A d \in Consumers \ {c} : pending'[d] = pending[d],
           OrderedAt(c)', rebalances = 0 => GroupedAt(c)'
    PROVE  Ordered' /\ Grouped'
<1>1. \A d \in Consumers \ {c} : con'[d] = con[d]
  BY SetChanges DEF Inv
<1>2. \A p : Settled(p) => Settled(p)'
  BY SettledStays
<1>3. BehindSettled(committed)'
  BY <1>2 DEF BehindSettled, Ordered, Inv
<1>4. ASSUME NEW d \in Consumers \ {c}
      PROVE  OrderedAt(d)'
  BY <1>1, <1>2 DEF Ordered, OrderedAt, BehindSettled, Holding, At, Inv
<1>5. ASSUME NEW d \in Consumers \ {c}, rebalances' = 0
      PROVE  GroupedAt(d)'
  BY <1>1, <1>5 DEF Grouped, GroupedAt, Holding, Inv, At
<1> QED BY <1>3, <1>4, <1>5 DEF Ordered, Grouped

\* The handler in hand has returned or been given up on, and the next one or
\* the commit comes.
LEMMA AdvanceKeeps ==
    ASSUME Inv, NEW c \in Consumers, At(c, "handling"), AfterHandler(c),
           settled' = settled \cup {InHand(c)}, UNCHANGED <<group, rebalances>>
    PROVE  Ordered' /\ Grouped'
<1> DEFINE o == con[c].offset
           h == con[c].handler
<1>1. con[c] \in Process /\ OrderedAt(c) /\ (rebalances = 0 => GroupedAt(c))
  BY DEF Inv, TypeOK, Ordered, Grouped
<1>2. o \in Offsets /\ Handlers(o) = 1..Last(o) /\ Last(o) \in Nat /\ h \in 1..Last(o)
  BY <1>1, HandlersAre DEF OrderedAt, Holding, At
<1>3. \A p : Settled(p) => Settled(p)'
  BY SettledStays
<1>4. \A k \in 1..h : [offset |-> o, handler |-> k] \in settled'
  BY <1>1, <1>2 DEF OrderedAt, InHand, Process
<1>5. PICK process : /\ Set(c, process)
                     /\ process.offset = o
                     /\ process.position = con[c].position
                     /\ \/ process.pc = "handling" /\ h < Last(o) /\ process.handler = h + 1
                        \/ process.pc = "committing" /\ h = Last(o)
  <2>1. CASE h < Last(o)
    <3> DEFINE next == [con[c] EXCEPT !.handler = @ + 1, !.attempt = 0]
    <3>1. /\ next.pc = "handling" /\ next.offset = o /\ next.position = con[c].position
          /\ next.handler = h + 1
      BY <1>1 DEF Process, At
    <3>2. Set(c, next)
      BY <2>1 DEF AfterHandler
    <3> QED BY <3>1, <3>2, <2>1
  <2>2. CASE h = Last(o)
    <3> DEFINE next == [con[c] EXCEPT !.pc = "committing", !.handler = 1, !.attempt = 0]
    <3>1. next.pc = "committing" /\ next.offset = o /\ next.position = con[c].position
      BY <1>1 DEF Process
    <3>2. Set(c, next)
      BY <1>2, <2>2 DEF AfterHandler
    <3> QED BY <3>1, <3>2, <2>2
  <2> QED BY <1>2, <2>1, <2>2
<1>6. con'[c] = process
  BY <1>5, SetChanges DEF Inv
<1>7. Holding(c) /\ Holding(c)'
  BY <1>5, <1>6 DEF Holding, At
<1>8. OrderedAt(c)'
  <2>1. BehindSettled(pending[c])' /\ BehindSettled(o)'
    BY <1>1, <1>3, <1>5, <1>6, <1>7 DEF OrderedAt, BehindSettled, group
  <2>2. \A p \in 0..(con'[c].position - 1) : Settled(p)' \/ p = con'[c].offset
    BY <1>1, <1>3, <1>5, <1>6 DEF OrderedAt
  <2>3. CASE process.pc = "handling"
    <3>1. con'[c].handler \in Handlers(con'[c].offset)
      BY <1>2, <1>5, <1>6, <2>3
    <3>2. \A k \in 1..(con'[c].handler - 1) :
             [offset |-> con'[c].offset, handler |-> k] \in settled'
      BY <1>2, <1>4, <1>5, <1>6, <2>3
    <3> QED BY <1>2, <1>5, <1>6, <1>7, <2>1, <2>2, <2>3, <3>1, <3>2
            DEF OrderedAt, At
  <2>4. CASE process.pc = "committing"
    <3>1. Settled(o)'
      BY <1>2, <1>4, <1>5, <1>6, <2>4 DEF Settled
    <3> QED BY <1>2, <1>5, <1>6, <1>7, <2>1, <2>2, <2>4, <3>1
            DEF OrderedAt, At
  <2> QED BY <1>5, <2>3, <2>4
<1>9. rebalances = 0 => GroupedAt(c)'
  BY <1>1, <1>5, <1>6, <1>7 DEF GroupedAt, group, At
<1> QED BY <1>5, <1>8, <1>9, OthersKeep DEF group

-----------------------------------------------------------------------------
(* The invariant *)

\* The invariant holds before anything was consumed.
LEMMA InvInit == Init => Inv
<1> SUFFICES ASSUME Init PROVE Inv
  OBVIOUS
<1>1. Len(Log) \in Nat
  BY LogAssumption
<1>2. TypeOK
  BY <1>1, FreshTypes, BoundAssumption DEF Init, TypeOK
<1>3. \A c \in Consumers : con[c] = Fresh /\ pending[c] = -1
  BY DEF Init
<1>4. Ordered
  BY <1>3 DEF Init, Ordered, OrderedAt, BehindSettled, Holding, At, Fresh
<1>5. Grouped
  BY <1>3 DEF Init, Grouped, GroupedAt, Holding, Fresh, At
<1> QED BY <1>2, <1>4, <1>5 DEF Inv

\* A process that reads a message knows everything before it to be settled.
LEMMA PollKeeps == ASSUME Inv, NEW c \in Consumers, Poll(c) PROVE Inv'
<1> DEFINE o == con[c].position
           next == [con[c] EXCEPT !.position = o + 1, !.offset = o,
                                  !.handler = 1, !.attempt = 0,
                                  !.pc = IF Handlers(o) = {} THEN "committing"
                                                             ELSE "handling"]
<1>1. con[c] \in Process /\ OrderedAt(c) /\ (rebalances = 0 => GroupedAt(c))
  BY DEF Inv, TypeOK, Ordered, Grouped
<1>2. o \in Offsets /\ owner = c /\ ~Holding(c) /\ settled' = settled
  BY DEF Poll, Fetches, Holding, At
<1>3. Handlers(o) = 1..Last(o) /\ Last(o) \in Nat /\ Len(Log) \in Nat
  BY <1>2, HandlersAre
<1>4. CASE Leave(c, "down")
  <2>1. "down" \in Over
    BY DEF Over
  <2>2. UNCHANGED <<settled, crashes, rebalances, stops>>
    BY DEF Poll, bounds
  <2>3. TypeOK'
    BY <1>4, <2>1, <2>2, LeaveTypes DEF Inv, TypeOK
  <2>4. Ordered' /\ Grouped'
    BY <1>4, <2>1, <2>2, LeaveKeeps
  <2> QED BY <2>3, <2>4 DEF Inv
<1>5. CASE Set(c, next) /\ UNCHANGED <<group, letters, lost>>
  <2>1. UNCHANGED <<group, letters, history, bounds>>
    BY <1>5 DEF Poll, history
  <2>2. /\ next \in Process /\ next.position = o + 1 /\ next.offset = o
        /\ next.handler = 1
        /\ next.pc = IF Handlers(o) = {} THEN "committing" ELSE "handling"
    <3>1. /\ o + 1 \in 0..Len(Log) /\ o \in 0..Len(Log) /\ 1 \in Nat \ {0}
          /\ 0 \in 0..(MaxRetries - 1)
          /\ \A pc \in {"committing", "handling"} :
                pc \in {"starting"} \cup Members \cup Over
      BY <1>2, <1>3, RetriesAssumption DEF Offsets, Members
    <3> QED BY <1>1, <3>1 DEF Process
  <2>3. con'[c] = next
    BY <1>5, SetChanges DEF Inv
  <2>4. TypeOK'
    BY <1>5, <2>1, <2>2
       DEF Inv, TypeOK, Set, group, letters, history, bounds
  <2>5. \A p \in 0..(o - 1) : Settled(p)'
    BY <1>1, <1>2, SettledStays DEF OrderedAt
  <2> HIDE DEF next
  <2>6. OrderedAt(c)'
    <3>1. BehindSettled(pending[c])'
      BY <1>1, <1>2, <2>1, SettledStays DEF OrderedAt, BehindSettled, group
    <3>2. Holding(c)' /\ BehindSettled(con[c].offset)'
      BY <2>2, <2>3, <2>5 DEF Holding, BehindSettled
    <3>3. \A p \in 0..(con'[c].position - 1) : Settled(p)' \/ p = con'[c].offset
      BY <1>1, <1>2, <2>2, <2>3, <2>5 DEF Offsets
    <3>4. CASE Handlers(o) = {}
      <4>1. Settled(con[c].offset)'
        BY <2>2, <2>3, <3>4 DEF Settled
      <4> QED BY <1>2, <2>2, <2>3, <3>1, <3>2, <3>3, <3>4, <4>1 DEF OrderedAt, At
    <3>5. CASE Handlers(o) # {}
      <4>1. con'[c].handler \in Handlers(con'[c].offset)
        BY <1>3, <2>2, <2>3, <3>5
      <4>2. \A k \in 1..(con'[c].handler - 1) :
               [offset |-> con'[c].offset, handler |-> k] \in settled'
        BY <2>2, <2>3
      <4> QED BY <1>2, <2>2, <2>3, <3>1, <3>2, <3>3, <3>5, <4>1, <4>2
              DEF OrderedAt, At
    <3> QED BY <3>4, <3>5
  <2>7. rebalances = 0 => GroupedAt(c)'
    BY <1>1, <1>2, <2>1, <2>2, <2>3 DEF GroupedAt, group, Offsets, Inv, TypeOK, At
  <2>8. Ordered' /\ Grouped'
    BY <1>5, <2>1, <2>6, <2>7, OthersKeep DEF group, history, bounds
  <2> QED BY <2>4, <2>8 DEF Inv
<1> QED BY <1>4, <1>5 DEF Poll

\* A step that changes only pc, the flag or the attempts of a process without
\* giving it another message keeps the invariant.
LEMMA SameMessageKeeps ==
    ASSUME Inv, NEW c \in Consumers, NEW process \in Process, Set(c, process),
           UNCHANGED <<group, settled, rebalances>>,
           process.position = con[c].position,
           process.pc \in {"handling", "committing"} =>
              /\ process.pc = con[c].pc
              /\ process.offset = con[c].offset
              /\ process.handler = con[c].handler,
           Holding(c) => process.pc = con[c].pc,
           process.pc = "down" => con[c].pc = "down"
    PROVE  Ordered' /\ Grouped'
<1>1. con'[c] = process
  BY SetChanges DEF Inv
<1>2. OrderedAt(c) /\ (rebalances = 0 => GroupedAt(c))
  BY DEF Inv, Ordered, Grouped
<1>3. OrderedAt(c)'
  BY <1>1, <1>2, SettledStays DEF OrderedAt, BehindSettled, Holding, At, group
<1>4. rebalances = 0 => GroupedAt(c)'
  BY <1>1, <1>2 DEF GroupedAt, Holding, group, At
<1> QED BY <1>3, <1>4, OthersKeep DEF group

\* The command and start().
LEMMA LoopKeeps == ASSUME Inv, NEW c \in Consumers,
                          Subscribe(c) \/ Stop(c) \/ LoopExit(c)
                   PROVE  Inv'
<1>0. con[c] \in Process
  BY DEF Inv, TypeOK
<1>1. CASE Subscribe(c)
  <2> DEFINE next == [con[c] EXCEPT !.pc = "polling", !.running = TRUE]
  <2>1. next \in Process
    BY <1>0 DEF Process, Members
  <2>2. /\ next.pc = "polling" /\ next.position = con[c].position
        /\ ~Holding(c) /\ Set(c, next)
    BY <1>0, <1>1 DEF Process, Subscribe, At, Holding
  <2>3. UNCHANGED <<group, letters, history, bounds>>
    BY <1>1 DEF Subscribe
  <2> HIDE DEF next
  <2>4. TypeOK'
    BY <2>1, <2>2, <2>3 DEF Inv, TypeOK, Set, group, letters, history, bounds
  <2>5. Ordered' /\ Grouped'
    BY <2>1, <2>2, <2>3, SameMessageKeeps DEF history, bounds
  <2> QED BY <2>4, <2>5 DEF Inv
<1>2. CASE Stop(c)
  <2> DEFINE next == [con[c] EXCEPT !.running = FALSE]
  <2>1. next \in Process
    BY <1>0 DEF Process
  <2>2. /\ next.pc = con[c].pc /\ next.position = con[c].position
        /\ next.offset = con[c].offset /\ next.handler = con[c].handler
        /\ Set(c, next)
    BY <1>0, <1>2 DEF Process, Stop
  <2>3. /\ UNCHANGED <<group, letters, history, crashes, rebalances>>
        /\ stops' = stops + 1
        /\ crashes + rebalances + stops < MaxDisruptions
    BY <1>2 DEF Stop, Disruptable
  <2> HIDE DEF next
  <2>4. TypeOK'
    BY <2>1, <2>2, <2>3, BoundAssumption DEF Inv, TypeOK, Set, group, letters, history
  <2>5. Ordered' /\ Grouped'
    BY <2>1, <2>2, <2>3, SameMessageKeeps DEF history
  <2> QED BY <2>4, <2>5 DEF Inv
<1>3. CASE LoopExit(c)
  <2>1. "stopped" \in Over /\ Leave(c, "stopped") /\ UNCHANGED <<settled, bounds>>
    BY <1>3 DEF LoopExit, Over
  <2>2. TypeOK'
    BY <2>1, LeaveTypes DEF Inv, TypeOK, bounds
  <2>3. Ordered' /\ Grouped'
    BY <2>1, LeaveKeeps DEF bounds
  <2> QED BY <2>2, <2>3 DEF Inv
<1> QED BY <1>1, <1>2, <1>3

\* _process_message.
LEMMA HandleKeeps == ASSUME Inv, NEW c \in Consumers, Handle(c) PROVE Inv'
<1>0. con[c] \in Process /\ OrderedAt(c)
  BY DEF Inv, TypeOK, Ordered
<1>1. At(c, "handling")
  BY DEF Handle, HandlerReturns, HandlerRetries, HandlerGivesUp
<1>2. InHand(c) \in Step
  BY <1>0, <1>1 DEF OrderedAt, Holding, At, InHand, Step, Process
<1>3. CASE HandlerReturns(c)
  <2>1. /\ AfterHandler(c) /\ settled' = settled \cup {InHand(c)}
        /\ UNCHANGED <<group, letters, lost, bounds>>
    BY <1>3 DEF HandlerReturns
  <2>2. TypeOK'
    BY <1>2, <2>1, AfterHandlerTypes DEF Inv, TypeOK, group, letters, bounds
  <2>3. Ordered' /\ Grouped'
    BY <1>1, <2>1, AdvanceKeeps DEF bounds
  <2> QED BY <2>2, <2>3 DEF Inv
<1>4. CASE HandlerRetries(c)
  <2> DEFINE next == [con[c] EXCEPT !.attempt = @ + 1]
  <2>1. next \in Process
    <3>1. con[c].attempt + 1 \in 0..(MaxRetries - 1)
      BY <1>0, <1>4, RetriesAssumption DEF HandlerRetries, Process
    <3> QED BY <1>0, <3>1 DEF Process
  <2>2. /\ next.pc = con[c].pc /\ next.position = con[c].position
        /\ next.offset = con[c].offset /\ next.handler = con[c].handler
        /\ Set(c, next)
    BY <1>0, <1>4 DEF Process, HandlerRetries
  <2>3. UNCHANGED <<group, letters, history, bounds>>
    BY <1>4 DEF HandlerRetries
  <2> HIDE DEF next
  <2>4. TypeOK'
    BY <2>1, <2>2, <2>3 DEF Inv, TypeOK, Set, group, letters, history, bounds
  <2>5. Ordered' /\ Grouped'
    BY <2>1, <2>2, <2>3, SameMessageKeeps DEF history, bounds
  <2> QED BY <2>4, <2>5 DEF Inv
<1>5. CASE HandlerGivesUp(c)
  <2>1. CASE /\ AfterHandler(c) /\ settled' = settled \cup {InHand(c)}
             /\ UNCHANGED <<group, deadletters, crashes, rebalances, stops>>
             /\ \/ /\ buffer' = [buffer EXCEPT ![c] = @ \cup {InHand(c)}]
                   /\ UNCHANGED lost
                \/ /\ lost' = lost \cup {InHand(c)}
                   /\ UNCHANGED buffer
    <3>1. con' \in [Consumers -> Process] /\ settled' \subseteq Step
      BY <1>2, <2>1, AfterHandlerTypes DEF Inv, TypeOK
    <3>2. buffer' \in [Consumers -> SUBSET Step]
      BY <1>2, <2>1 DEF Inv, TypeOK
    <3>3. lost' \subseteq Step
      BY <1>2, <2>1 DEF Inv, TypeOK
    <3>4. TypeOK'
      BY <2>1, <3>1, <3>2, <3>3 DEF Inv, TypeOK, group
    <3>5. Ordered' /\ Grouped'
      BY <1>1, <2>1, AdvanceKeeps
    <3> QED BY <3>4, <3>5 DEF Inv
  <2>2. CASE /\ Disruptable /\ crashes' = crashes + 1 /\ Leave(c, "down")
             /\ UNCHANGED <<settled, rebalances, stops>>
    <3>1. "down" \in Over
      BY DEF Over
    <3>2. TypeOK'
      BY <2>2, <3>1, LeaveTypes, BoundAssumption DEF Inv, TypeOK, Disruptable
    <3>3. Ordered' /\ Grouped'
      BY <2>2, <3>1, LeaveKeeps
    <3> QED BY <3>2, <3>3 DEF Inv
  <2> QED BY <1>5, <2>1, <2>2 DEF HandlerGivesUp, letters
<1> QED BY <1>3, <1>4, <1>5 DEF Handle

\* consumer.commit and what the broker does with it.
LEMMA CommitKeeps == ASSUME Inv, NEW c \in Consumers, CommitCall(c) \/ BrokerCommits(c)
                     PROVE  Inv'
<1>0. /\ con[c] \in Process /\ OrderedAt(c) /\ (rebalances = 0 => GroupedAt(c))
      /\ Len(Log) \in Nat
  BY LogAssumption DEF Inv, TypeOK, Ordered, Grouped
<1>1. CASE CommitCall(c)
  <2> DEFINE next == [con[c] EXCEPT !.pc = "polling", !.offset = 0]
  <2>1. next \in Process
    <3>1. 0 \in 0..Len(Log) /\ "polling" \in {"starting"} \cup Members \cup Over
      BY <1>0 DEF Members
    <3> QED BY <1>0, <3>1 DEF Process
  <2>2. next.pc = "polling" /\ next.position = con[c].position /\ Set(c, next)
    BY <1>0, <1>1 DEF Process, CommitCall
  <2>3. /\ Holding(c) /\ At(c, "committing")
        /\ pending' = [pending EXCEPT ![c] = con[c].offset + 1]
        /\ UNCHANGED <<owner, committed, letters, history, bounds>>
    BY <1>1 DEF CommitCall, Holding, At
  <2>4. con'[c] = next
    BY <2>2, SetChanges DEF Inv
  <2>5. con[c].offset \in Offsets /\ con[c].offset + 1 \in 0..Len(Log)
    BY <1>0, <2>3 DEF OrderedAt, Offsets
  <2>6. /\ pending'[c] = con[c].offset + 1
        /\ \A d \in Consumers \ {c} : pending'[d] = pending[d]
        /\ pending' \in [Consumers -> (-1)..Len(Log)]
    BY <2>3, <2>5 DEF Inv, TypeOK
  <2> HIDE DEF next
  <2>7. TypeOK'
    BY <2>1, <2>2, <2>3, <2>6 DEF Inv, TypeOK, Set, letters, history, bounds
  <2>8. \A p : Settled(p) => Settled(p)'
    BY <2>3, SettledStays DEF history
  <2>9. BehindSettled(pending[c])'
    BY <1>0, <2>3, <2>5, <2>6, <2>8 DEF OrderedAt, BehindSettled, Offsets
  <2>10. \A p \in 0..(con[c].position - 1) : Settled(p)'
    BY <1>0, <2>3, <2>8 DEF OrderedAt
  <2>11. OrderedAt(c)'
    BY <2>2, <2>4, <2>9, <2>10 DEF OrderedAt, Holding, At
  <2>12. rebalances = 0 => GroupedAt(c)'
    BY <1>0, <2>2, <2>3, <2>4, <2>5, <2>6
       DEF GroupedAt, Holding, Offsets, Inv, TypeOK, At
  <2>13. Ordered' /\ Grouped'
    BY <2>2, <2>3, <2>6, <2>11, <2>12, OthersKeep DEF history, bounds
  <2> QED BY <2>7, <2>13 DEF Inv
<1>2. CASE BrokerCommits(c)
  <2>1. /\ pending[c] # -1
        /\ committed' = pending[c]
        /\ pending' = [pending EXCEPT ![c] = -1]
        /\ UNCHANGED <<con, owner, letters, history, bounds>>
    BY <1>2 DEF BrokerCommits
  <2>2. /\ pending'[c] = -1
        /\ \A d \in Consumers \ {c} : pending'[d] = pending[d]
        /\ pending' \in [Consumers -> (-1)..Len(Log)]
        /\ committed' \in 0..Len(Log)
    BY <1>0, <2>1 DEF Inv, TypeOK
  <2>3. TypeOK'
    BY <2>1, <2>2 DEF Inv, TypeOK, letters, history, bounds
  <2>4. \A p : Settled(p) => Settled(p)'
    BY <2>1, SettledStays DEF history
  <2>5. BehindSettled(committed)'
    BY <1>0, <2>1, <2>4 DEF OrderedAt, BehindSettled
  <2>6. ASSUME NEW d \in Consumers PROVE OrderedAt(d)'
    <3>1. OrderedAt(d)
      BY DEF Inv, Ordered
    <3>2. BehindSettled(pending[d])'
      <4>1. CASE d = c
        BY <2>2, <4>1 DEF BehindSettled
      <4>2. CASE d # c
        BY <2>2, <2>4, <3>1, <4>2 DEF OrderedAt, BehindSettled
      <4> QED BY <4>1, <4>2
    <3> QED BY <2>1, <2>4, <3>1, <3>2
            DEF OrderedAt, BehindSettled, Holding, At, history
  <2>7. ASSUME NEW d \in Consumers, rebalances' = 0 PROVE GroupedAt(d)'
    <3>1. GroupedAt(d) /\ GroupedAt(c)
      BY <2>1, <2>7 DEF Inv, Grouped, bounds
    <3>2. CASE d = c
      BY <2>1, <2>2, <3>1, <3>2 DEF GroupedAt, Holding, At
    <3>3. CASE d # c
      BY <2>1, <2>2, <3>1, <3>3, NoneAssumption DEF GroupedAt, Holding, At
    <3> QED BY <3>2, <3>3
  <2> QED BY <2>3, <2>5, <2>6, <2>7 DEF Inv, Ordered, Grouped
<1> QED BY <1>1, <1>2

\* A dead letter reaches the broker, or does not.
LEMMA StoreKeeps == ASSUME Inv, NEW c \in Consumers, BrokerStores(c) \/ DeliveryFails(c)
                    PROVE  Inv'
<1>1. UNCHANGED <<con, group, settled, bounds>>
  BY DEF BrokerStores, DeliveryFails, history
<1>2. buffer' \in [Consumers -> SUBSET Step] /\ deadletters' \subseteq Step /\ lost' \subseteq Step
  BY DEF BrokerStores, DeliveryFails, history, Inv, TypeOK
<1>3. TypeOK'
  BY <1>1, <1>2 DEF Inv, TypeOK, group, bounds
<1>4. \A p : Settled(p) => Settled(p)'
  BY <1>1, SettledStays
<1>5. Ordered'
  BY <1>1, <1>4 DEF Inv, Ordered, OrderedAt, BehindSettled, Holding, At, group
<1>6. Grouped'
  BY <1>1 DEF Inv, Grouped, GroupedAt, Holding, group, bounds, At
<1> QED BY <1>3, <1>5, <1>6 DEF Inv

\* The new owner starts at the committed offset.
LEMMA AssignKeeps == ASSUME Inv, NEW c \in Consumers, Assign(c) PROVE Inv'
<1> DEFINE next == [con[c] EXCEPT !.position = committed]
<1>0. con[c] \in Process /\ OrderedAt(c) /\ (rebalances = 0 => GroupedAt(c))
  BY DEF Inv, TypeOK, Ordered, Grouped
<1>1. /\ owner # c /\ owner' = c /\ con[c].pc # "down"
      /\ owner # None => Disruptable
      /\ rebalances' = IF owner = None THEN rebalances ELSE rebalances + 1
      /\ Set(c, next)
      /\ pending' \in {pending, [d \in Consumers |-> -1]}
      /\ UNCHANGED <<committed, letters, history, crashes, stops>>
  BY DEF Assign, Members
<1>2. /\ next \in Process /\ next.position = committed /\ next.pc = con[c].pc
      /\ next.offset = con[c].offset /\ next.handler = con[c].handler
  BY <1>0 DEF Process, Inv, TypeOK
<1>3. con'[c] = next /\ \A d \in Consumers \ {c} : con'[d] = con[d]
  BY <1>1, SetChanges DEF Inv
<1> HIDE DEF next
<1>4. TypeOK'
  <2>1. Len(Log) \in Nat
    BY LogAssumption
  <2>2. pending' \in [Consumers -> (-1)..Len(Log)]
    BY <1>1, <2>1 DEF Inv, TypeOK
  <2>3. con' \in [Consumers -> Process]
    BY <1>1, <1>2 DEF Inv, TypeOK, Set
  <2>4. rebalances' \in Nat /\ crashes + rebalances' + stops <= MaxDisruptions
    BY <1>1, BoundAssumption DEF Inv, TypeOK, Disruptable
  <2> QED BY <1>1, <2>2, <2>3, <2>4 DEF Inv, TypeOK, letters, history
<1>5. \A p : Settled(p) => Settled(p)'
  BY <1>1, SettledStays DEF history
<1>6. BehindSettled(committed) /\ BehindSettled(committed)'
  BY <1>1, <1>5 DEF Inv, Ordered, BehindSettled
<1>7. ASSUME NEW d \in Consumers PROVE BehindSettled(pending[d])'
  <2>1. pending'[d] \in {pending[d], -1}
    BY <1>1
  <2>2. BehindSettled(pending[d])
    BY DEF Inv, Ordered, OrderedAt
  <2> QED BY <1>5, <2>1, <2>2 DEF BehindSettled
<1>8. OrderedAt(c)'
  BY <1>0, <1>1, <1>2, <1>3, <1>5, <1>6, <1>7
     DEF OrderedAt, BehindSettled, Holding, At, history
<1>9. ASSUME NEW d \in Consumers \ {c} PROVE OrderedAt(d)'
  <2>1. OrderedAt(d)
    BY DEF Inv, Ordered
  <2> QED BY <1>1, <1>3, <1>5, <1>7, <2>1
          DEF OrderedAt, BehindSettled, Holding, At, history
<1>10. ASSUME rebalances' = 0, NEW d \in Consumers PROVE GroupedAt(d)'
  <2>1. rebalances = 0 /\ owner = None
    BY <1>1, <1>10 DEF Inv, TypeOK
  <2>2. \A e \in Consumers : ~Holding(e) /\ pending[e] = -1
    BY <2>1, NoneAssumption DEF Inv, Grouped, GroupedAt, At
  <2>3. ~Holding(d)' /\ pending'[d] = -1
    BY <1>1, <1>2, <1>3, <2>2 DEF Holding
  <2> QED BY <1>1, <1>2, <1>3, <2>3 DEF GroupedAt, Inv, TypeOK, At
<1> QED BY <1>4, <1>6, <1>8, <1>9, <1>10 DEF Inv, Ordered, Grouped

\* Crashes and restarts.
LEMMA CrashKeeps == ASSUME Inv, NEW c \in Consumers, Crash(c) \/ Restart(c) PROVE Inv'
<1>1. CASE Crash(c)
  <2>1. /\ "down" \in Over /\ Leave(c, "down") /\ Disruptable
        /\ crashes' = crashes + 1 /\ UNCHANGED <<settled, rebalances, stops>>
    BY <1>1 DEF Crash, Over
  <2>2. TypeOK'
    BY <2>1, LeaveTypes, BoundAssumption DEF Inv, TypeOK, Disruptable
  <2>3. Ordered' /\ Grouped'
    BY <2>1, LeaveKeeps
  <2> QED BY <2>2, <2>3 DEF Inv
<1>2. CASE Restart(c)
  <2>1. /\ At(c, "down") /\ Set(c, Fresh)
        /\ UNCHANGED <<group, letters, history, bounds>>
    BY <1>2 DEF Restart
  <2>2. Fresh.pc = "starting" /\ Fresh.position = 0 /\ con'[c] = Fresh
    BY <2>1, SetChanges DEF Fresh, Inv
  <2>3. TypeOK'
    BY <2>1, FreshTypes DEF Inv, TypeOK, Set, group, letters, history, bounds
  <2>4. OrderedAt(c) /\ (rebalances = 0 => GroupedAt(c))
    BY DEF Inv, Ordered, Grouped
  <2>5. OrderedAt(c)'
    BY <2>1, <2>2, <2>4, SettledStays
       DEF OrderedAt, BehindSettled, Holding, At, group, history
  <2>6. rebalances = 0 => GroupedAt(c)'
    BY <2>1, <2>2, <2>4 DEF GroupedAt, Holding, group, At
  <2>7. Ordered' /\ Grouped'
    BY <2>1, <2>5, <2>6, OthersKeep DEF group, history, bounds
  <2> QED BY <2>3, <2>7 DEF Inv
<1> QED BY <1>1, <1>2

\* Every step keeps the invariant.
LEMMA InvNext == Inv /\ [Next]_vars => Inv'
<1> SUFFICES ASSUME Inv, [Next]_vars PROVE Inv'
  OBVIOUS
<1>1. CASE Next
  <2> PICK c \in Consumers : \/ Proceed(c) \/ Stop(c) \/ Crash(c) \/ Restart(c)
                             \/ BrokerCommits(c) \/ BrokerStores(c)
                             \/ DeliveryFails(c) \/ Assign(c)
    BY <1>1 DEF Next
  <2> QED BY LoopKeeps, PollKeeps, HandleKeeps, CommitKeeps, StoreKeeps,
             AssignKeeps, CrashKeeps DEF Proceed
<1>2. CASE UNCHANGED vars
  <2>1. UNCHANGED <<con, group, letters, history, bounds>>
    BY <1>2 DEF vars
  <2>2. TypeOK'
    BY <2>1 DEF Inv, TypeOK, group, letters, history, bounds
  <2>3. \A p : Settled(p) => Settled(p)'
    BY <2>1, SettledStays DEF history
  <2>4. Ordered'
    BY <2>1, <2>3 DEF Inv, Ordered, OrderedAt, BehindSettled, Holding, At, group, history
  <2>5. Grouped'
    BY <2>1 DEF Inv, Grouped, GroupedAt, Holding, group, bounds, At
  <2> QED BY <2>2, <2>4, <2>5 DEF Inv
<1> QED BY <1>1, <1>2

-----------------------------------------------------------------------------
(* Theorems *)

\* The invariant holds throughout.
THEOREM Invariance == Spec => []Inv
<1>1. Init => Inv
  BY InvInit
<1>2. Inv /\ [Next]_vars => Inv'
  BY InvNext
<1> QED BY <1>1, <1>2, PTL DEF Spec

\* Types are kept: in particular no handler is attempted more than MaxRetries
\* times and no offset is committed past the end of the log.
THEOREM TypeCorrect == Spec => []TypeOK
<1>1. Inv => TypeOK
  BY DEF Inv
<1> QED BY <1>1, Invariance, PTL

\* Until a partition is taken from a live process, one process at a time has a
\* message in hand.
THEOREM Exclusive == Spec => []ExclusiveUnlessRebalanced
<1>1. Inv => ExclusiveUnlessRebalanced
  BY DEF Inv, Grouped, GroupedAt, ExclusiveUnlessRebalanced
<1> QED BY <1>1, Invariance, PTL

\* A step of Next that moves the committed offset back follows a rebalance.
LEMMA NoRewindStep ==
    ASSUME Inv, [Next]_vars PROVE rebalances' = 0 => committed' >= committed
<1>1. committed \in Nat
  BY LogAssumption DEF Inv, TypeOK
<1>2. ASSUME NEW c \in Consumers, BrokerCommits(c)
      PROVE  rebalances' = 0 => committed' >= committed
  <2>1. /\ pending[c] # -1 /\ committed' = pending[c] /\ rebalances' = rebalances
        /\ pending[c] \in Int
    BY <1>2, LogAssumption DEF BrokerCommits, bounds, Inv, TypeOK
  <2>2. rebalances = 0 => committed <= pending[c]
    BY <2>1 DEF Inv, Grouped, GroupedAt
  <2> QED BY <1>1, <2>1, <2>2
<1>3. ASSUME NEW c \in Consumers,
             \/ Proceed(c) \/ Stop(c) \/ Crash(c) \/ Restart(c)
             \/ BrokerStores(c) \/ DeliveryFails(c) \/ Assign(c)
      PROVE  committed' = committed
  <2>1. ASSUME \/ Subscribe(c) \/ Stop(c) \/ LoopExit(c) \/ Restart(c)
               \/ BrokerStores(c) \/ DeliveryFails(c)
        PROVE  committed' = committed
    BY <2>1 DEF Subscribe, Stop, LoopExit, Leave, Restart, BrokerStores,
                DeliveryFails, group
  <2>2. ASSUME Poll(c) \/ Handle(c)
        PROVE  committed' = committed
    BY <2>2 DEF Poll, Handle, HandlerReturns, HandlerRetries, HandlerGivesUp,
                Leave, group
  <2>3. ASSUME CommitCall(c) \/ Crash(c) \/ Assign(c)
        PROVE  committed' = committed
    BY <2>3 DEF CommitCall, Crash, Assign, Leave
  <2> QED BY <1>3, <2>1, <2>2, <2>3 DEF Proceed
<1>4. CASE Next
  BY <1>1, <1>2, <1>3, <1>4 DEF Next
<1>5. CASE UNCHANGED vars
  BY <1>1, <1>5 DEF vars, group
<1> QED BY <1>4, <1>5

\* Until then the committed offset never moves back.
THEOREM NoRewind == Spec => NoRewindUnlessRebalanced
<1>1. Inv /\ [Next]_vars => [rebalances' = 0 => committed' >= committed]_vars
  BY NoRewindStep
<1> QED BY <1>1, Invariance, PTL DEF Spec, NoRewindUnlessRebalanced

-----------------------------------------------------------------------------
(* Refinement of AtLeastOnce *)

\* The abstract and the concrete notion of a settled message agree.
LEMMA SameSettled == \A o \in Offsets : Delivery!Settled(o) <=> Settled(o)
BY DEF Delivery!Settled, Settled

\* A handler that is done is an abstract Settle step.
LEMMA AdvanceSettles ==
    ASSUME Inv, NEW c \in Consumers, At(c, "handling"),
           settled' = settled \cup {InHand(c)}, committed' = committed
    PROVE  Delivery!Settle
<1> DEFINE o == con[c].offset
           h == con[c].handler
<1>1. /\ o \in Offsets /\ BehindSettled(o) /\ h \in Handlers(o)
      /\ Len(Log) \in Nat
  BY LogAssumption DEF Inv, Ordered, OrderedAt, Holding, At
<1>2. \A p \in 0..(o - 1) : Delivery!Settled(p)
  BY <1>1, SameSettled DEF BehindSettled, Offsets
<1>3. o \in 0..(Len(Log) - 1) /\ h \in [x \in Offsets |-> Handlers(x)][o]
  BY <1>1 DEF Offsets
<1>4. settled' = settled \cup {[offset |-> o, handler |-> h]}
  BY DEF InHand
<1> QED BY <1>2, <1>3, <1>4 DEF Delivery!Settle

\* Every step is an abstract step or invisible.
LEMMA StepRefines == Inv /\ [Next]_vars => [Delivery!Next]_Delivery!vars
<1> SUFFICES ASSUME Inv, [Next]_vars PROVE Delivery!Next \/ UNCHANGED <<settled, committed>>
  BY DEF Delivery!vars
<1>1. ASSUME NEW c \in Consumers, HandlerReturns(c) \/ HandlerGivesUp(c)
      PROVE  Delivery!Next \/ UNCHANGED <<settled, committed>>
  <2>1. At(c, "handling") /\ committed' = committed
    BY <1>1 DEF HandlerReturns, HandlerGivesUp, Leave, group
  <2>2. settled' = settled \cup {InHand(c)} \/ settled' = settled
    BY <1>1 DEF HandlerReturns, HandlerGivesUp
  <2> QED BY <2>1, <2>2, AdvanceSettles DEF Delivery!Next
<1>2. ASSUME NEW c \in Consumers, BrokerCommits(c)
      PROVE  Delivery!Next
  <2>1. /\ pending[c] # -1 /\ committed' = pending[c] /\ settled' = settled
        /\ pending[c] \in (-1)..Len(Log) /\ Len(Log) \in Nat
    BY <1>2, LogAssumption DEF BrokerCommits, history, Inv, TypeOK
  <2>2. \A p \in 0..(pending[c] - 1) : Delivery!Settled(p)
    BY <2>1, SameSettled DEF Inv, Ordered, OrderedAt, BehindSettled, Offsets
  <2> QED BY <2>1, <2>2 DEF Delivery!Next, Delivery!Commit
<1>3. ASSUME NEW c \in Consumers,
             \/ Subscribe(c) \/ Stop(c) \/ LoopExit(c) \/ Restart(c)
             \/ BrokerStores(c) \/ DeliveryFails(c)
      PROVE  UNCHANGED <<settled, committed>>
  BY <1>3 DEF Subscribe, Stop, LoopExit, Leave, Restart, BrokerStores, DeliveryFails,
              group, history
<1>4. ASSUME NEW c \in Consumers,
             \/ Poll(c) \/ HandlerRetries(c) \/ CommitCall(c) \/ Crash(c) \/ Assign(c)
      PROVE  UNCHANGED <<settled, committed>>
  BY <1>4 DEF Poll, HandlerRetries, CommitCall, Crash, Assign, Leave, group, history
<1>5. CASE Next
  BY <1>1, <1>2, <1>3, <1>4, <1>5 DEF Next, Proceed, Handle
<1>6. CASE UNCHANGED vars
  BY <1>6 DEF vars, group, history
<1> QED BY <1>5, <1>6

\* The consumer group delivers at least once and in order, for any number of
\* processes, crashes, rebalances and stops (producer_consumer.py:169).
THEOREM Refinement == Spec => ImplementsAtLeastOnce
<1>1. Init => Delivery!Init
  BY DEF Init, Delivery!Init
<1>2. Inv /\ [Next]_vars => [Delivery!Next]_Delivery!vars
  BY StepRefines
<1> QED BY <1>1, <1>2, Invariance, PTL DEF Spec, ImplementsAtLeastOnce, Delivery!Spec

\* What at-least-once delivery means for what is committed and for what is settled.
NoneSkipped == \A o \in Offsets : o < committed => Settled(o)
InLogOrder == \A step \in settled : \A o \in Offsets : o < step.offset => Settled(o)

\* Whoever implements AtLeastOnce skips no message and settles them in the order of the
\* log, however often it settles one and wherever its committed offset goes.
THEOREM DeliverySkipsNothing == Delivery!Spec => [](NoneSkipped /\ InLogOrder)
<1>1. Delivery!Init => NoneSkipped /\ InLogOrder
  BY LogAssumption DEF Delivery!Init, NoneSkipped, InLogOrder, Offsets
<1>2. NoneSkipped /\ InLogOrder /\ [Delivery!Next]_Delivery!vars => (NoneSkipped /\ InLogOrder)'
  <2> SUFFICES ASSUME NoneSkipped, InLogOrder, [Delivery!Next]_Delivery!vars
               PROVE  NoneSkipped' /\ InLogOrder'
    OBVIOUS
  <2>1. CASE Delivery!Settle
    <3>1. PICK o \in Offsets :
             /\ \A p \in 0..(o - 1) : Delivery!Settled(p)
             /\ \E h : settled' = settled \cup {[offset |-> o, handler |-> h]}
      BY <2>1 DEF Delivery!Settle, Offsets
    <3>2. committed' = committed
      BY <2>1 DEF Delivery!Settle
    <3>3. \A p \in Offsets : Settled(p) => Settled(p)'
      BY <3>1 DEF Settled
    <3>4. \A p \in Offsets : p < o => Settled(p)
      BY <3>1, SameSettled, LogAssumption DEF Offsets
    <3> QED BY <3>1, <3>2, <3>3, <3>4 DEF NoneSkipped, InLogOrder
  <2>2. CASE Delivery!Commit
    <3>1. PICK n \in 0..Len(Log) : /\ \A p \in 0..(n - 1) : Delivery!Settled(p)
                                   /\ committed' = n
      BY <2>2 DEF Delivery!Commit
    <3>2. settled' = settled
      BY <2>2 DEF Delivery!Commit
    <3>3. \A p \in Offsets : p < n => Settled(p)
      BY <3>1, SameSettled, LogAssumption DEF Offsets
    <3> QED BY <3>1, <3>2, <3>3 DEF NoneSkipped, InLogOrder, Settled
  <2>3. CASE UNCHANGED Delivery!vars
    BY <2>3 DEF Delivery!vars, NoneSkipped, InLogOrder, Settled
  <2> QED BY <2>1, <2>2, <2>3 DEF Delivery!Next
<1> QED BY <1>1, <1>2, PTL DEF Delivery!Spec

\* So a group that is killed, rebalanced or stopped anywhere between a handler and the
\* broker's commit resumes at a message all of whose predecessors were handled or given
\* up on (producer_consumer.py:208-258).
THEOREM NothingSkipped == Spec => [](NoneSkipped /\ InLogOrder)
BY Refinement, DeliverySkipsNothing, PTL DEF ImplementsAtLeastOnce
=============================================================================
