--------------------------- MODULE VoiceSocketProofs ---------------------------
(***************************************************************************)
(* Proofs about VoiceSocket, for any number of connections, messages and   *)
(* notifications and any even window of the conversation.                  *)
(***************************************************************************)
EXTENDS VoiceSocket, FiniteSetTheorems, SequenceTheorems, TLAPS

(***************************************************************************)
(* Part 1.  Every variable keeps its type.                                 *)
(***************************************************************************)
Turn == [role : {"user", "assistant"}, turn : Nat]
Consumers == [Sockets -> Consumer]

\* A consumer stays one wherever it goes, when its turn ends and when it dies.
LEMMA ConsumerTyped ==
    ASSUME TypeOK, NEW s \in Sockets
    PROVE  /\ \A pc \in Phases : Goto(s, pc) => con' \in Consumers
           /\ Rest(s) => con' \in Consumers
           /\ Die(s) => con' \in Consumers
  <1>1. Fresh \in Consumer
    BY DEF Fresh, Consumer, Phases
  <1>2. [Fresh EXCEPT !.pc = "ready", !.accepted = TRUE] \in Consumer
    BY <1>1 DEF Consumer, Phases
  <1>3. [Fresh EXCEPT !.pc = "killed", !.accepted = con[s].accepted] \in Consumer
    BY <1>1 DEF TypeOK, Consumer, Phases, Over
  <1>4. \A pc \in Phases : [con[s] EXCEPT !.pc = pc] \in Consumer
    <2>1. con[s] \in Consumer
      BY DEF TypeOK
    <2> QED BY <2>1 DEF Consumer
  <1>5. ASSUME NEW pc \in Phases, Goto(s, pc) PROVE con' \in Consumers
    BY <1>4, <1>5 DEF Goto, TypeOK, Consumers
  <1>6. Rest(s) => con' \in Consumers
    BY <1>2 DEF Rest, TypeOK, Consumers
  <1>7. Die(s) => con' \in Consumers
    BY <1>3 DEF Die, Gone, TypeOK, Consumers
  <1> QED BY <1>5, <1>6, <1>7

\* What is sent is a frame.
LEMMA FramesTyped ==
    ASSUME TypeOK, NEW s \in Sockets, NEW n \in Nat,
           NEW kind \in {"connected", "text", "audio", "request", "error", "reply",
                         "notification"},
           Send(s, kind, n)
    PROVE  out' \in [Sockets -> Seq(Frame)]
  <1> DEFINE f == [kind |-> kind, turn |-> n]
  <1>1. f \in Frame
    BY DEF Frame
  <1>2. Append(out[s], f) \in Seq(Frame)
    BY <1>1 DEF TypeOK
  <1> QED BY <1>2 DEF Send, TypeOK

\* The window of a conversation and the prompt made of it.
LEMMA PromptTyped ==
    ASSUME NEW h \in Seq(Turn), NEW n \in Nat
    PROVE  /\ Recent(h) \in Seq(Turn)
           /\ Prompt(h, n) \in Seq(Turn)
  <1>1. Message("user", n) \in Turn
    BY DEF Message, Turn
  <1>2. Recent(h) \in Seq(Turn)
    <2>1. CASE Len(h) <= Window
      BY <2>1 DEF Recent
    <2>2. CASE Len(h) > Window
      <3>1. Len(h) - Window + 1 \in 1..Len(h) + 1 /\ Len(h) \in 0..Len(h)
        BY <2>2, WindowAssumption
      <3>2. SubSeq(h, Len(h) - Window + 1, Len(h)) \in Seq(Turn)
        BY <3>1, SubSeqProperties
      <3>3. ~(Len(h) <= Window)
        BY <2>2, WindowAssumption
      <3> QED BY <3>2, <3>3 DEF Recent
    <2> QED BY <2>1, <2>2, WindowAssumption
  <1> QED BY <1>1, <1>2 DEF Prompt

LEMMA InitTyped == Init => TypeOK
  <1>1. Fresh \in Consumer
    BY DEF Fresh, Consumer, Phases
  <1> QED BY <1>1 DEF Init, TypeOK

LEMMA ConnectTyped ==
    ASSUME TypeOK, NEW s \in Sockets, Connect(s)
    PROVE  TypeOK'
  <1> USE DEF Phases, Connecting
  <1>1. CASE Open(s) \/ Refuse(s) \/ Authenticate(s) \/ Join(s)
    <2>1. con' \in Consumers
      BY <1>1, ConsumerTyped DEF Open, Refuse, Authenticate, Join
    <2> QED BY <1>1, <2>1
            DEF Open, Refuse, Authenticate, Join, TypeOK, client, layer, Consumers
  <1>2. CASE Accept(s)
    <2>0. con[s] \in Consumer /\ "announce" \in Phases
      BY DEF TypeOK, Phases, Connecting
    <2>1. [con[s] EXCEPT !.pc = "announce", !.accepted = TRUE] \in Consumer
      BY <2>0 DEF Consumer
    <2>2. con' = [con EXCEPT ![s] = [con[s] EXCEPT !.pc = "announce", !.accepted = TRUE]]
      BY <1>2 DEF Accept, TypeOK
    <2>3. con' \in Consumers
      BY <2>1, <2>2 DEF TypeOK, Consumers
    <2>4. gauge' \in Int
      BY <1>2 DEF Accept, TypeOK
    <2> QED BY <1>2, <2>3, <2>4 DEF Accept, TypeOK, client, layer, Consumers
  <1>3. CASE Announce(s)
    <2>1. con' \in Consumers /\ out' \in [Sockets -> Seq(Frame)]
      BY <1>3, ConsumerTyped, FramesTyped DEF Announce
    <2> QED BY <1>3, <2>1 DEF Announce, TypeOK, client, layer, Consumers
  <1> QED BY <1>1, <1>2, <1>3 DEF Connect

LEMMA DieTyped ==
    ASSUME TypeOK, NEW s \in Sockets, Die(s)
    PROVE  TypeOK'
  <1>1. con' \in Consumers
    BY ConsumerTyped
  <1>2. <<>> \in Seq([kind : Inputs, turn : Nat])
    OBVIOUS
  <1> QED BY <1>1, <1>2 DEF Die, Gone, TypeOK, layer, Consumers

LEMMA DisconnectTyped ==
    ASSUME TypeOK, NEW s \in Sockets, Disconnect(s)
    PROVE  TypeOK'
  <1>1. CASE Discard(s) \/ CountOut(s)
    <2>1. con' \in Consumers
      BY <1>1, ConsumerTyped DEF Discard, CountOut, Phases, Over
    <2>2. gauge' \in Int /\ group' \subseteq Sockets
      BY <1>1 DEF Discard, CountOut, TypeOK, layer
    <2> QED BY <1>1, <2>1, <2>2 DEF Discard, CountOut, TypeOK, client, layer, Consumers
  <1>2. CASE Cancelled(s)
    BY <1>2, DieTyped DEF Cancelled
  <1> QED BY <1>1, <1>2 DEF Disconnect

\* What the consumer takes from its inbox is a message of the client.
LEMMA TakeTyped ==
    ASSUME TypeOK, NEW s \in Sockets, inbox[s] # <<>>
    PROVE  /\ Head(inbox[s]) \in [kind : Inputs, turn : Nat]
           /\ Head(inbox[s]).turn \in Nat
           /\ [inbox EXCEPT ![s] = Tail(@)] \in [Sockets -> Seq([kind : Inputs, turn : Nat])]
  <1>1. inbox[s] \in Seq([kind : Inputs, turn : Nat])
    BY DEF TypeOK
  <1>2. /\ Head(inbox[s]) \in [kind : Inputs, turn : Nat]
        /\ Tail(inbox[s]) \in Seq([kind : Inputs, turn : Nat])
    BY <1>1, HeadTailProperties
  <1> QED BY <1>2 DEF TypeOK

LEMMA ExchangeTyped ==
    ASSUME TypeOK, NEW s \in Sockets
    PROVE  history[s] \o Exchange(s) \in Seq(Turn)
  <1>1. con[s].turn \in Nat
    BY DEF TypeOK, Consumer
  <1>2. Exchange(s) \in Seq(Turn)
    BY <1>1 DEF Exchange, Message, Turn
  <1> QED BY <1>2 DEF TypeOK, Turn

LEMMA SucceedTyped ==
    ASSUME TypeOK, NEW s \in Sockets, NEW audio \in BOOLEAN, NEW request \in BOOLEAN,
           Succeed(s, audio, request)
    PROVE  con' \in Consumers /\ history' \in [Sockets -> Seq(Turn)]
  <1> DEFINE c == [con[s] EXCEPT !.pc = "text", !.audio = audio, !.request = request]
  <1>0. con[s] \in Consumer
    BY DEF TypeOK
  <1>1. c \in Consumer
    BY <1>0 DEF Consumer, Phases, Busy
  <1>2. con' = [con EXCEPT ![s] = c]
    BY DEF Succeed, TypeOK
  <1>3. history' \in [Sockets -> Seq(Turn)]
    BY ExchangeTyped DEF Succeed, TypeOK, Turn
  <1> QED BY <1>1, <1>2, <1>3 DEF TypeOK, Consumers

LEMMA ReceiveTyped ==
    ASSUME TypeOK, NEW s \in Sockets, Receive(s)
    PROVE  TypeOK'
  <1>0. con[s] \in Consumer /\ con[s].turn \in Nat
    BY DEF TypeOK, Consumer
  <1>1. CASE Reply(s)
    <2>1. Head(inbox[s]).turn \in Nat
      BY <1>1, TakeTyped DEF Reply, Take
    <2>2. out' \in [Sockets -> Seq(Frame)]
      <3>1. PICK kind \in {"reply", "error"} : Send(s, kind, Head(inbox[s]).turn)
        BY <1>1 DEF Reply
      <3> QED BY <2>1, <3>1, FramesTyped
    <2>3. inbox' \in [Sockets -> Seq([kind : Inputs, turn : Nat])]
      BY <1>1, TakeTyped DEF Reply, Take
    <2> QED BY <1>1, <2>2, <2>3 DEF Reply, TypeOK, layer
  <1>2. CASE AudioInput(s) \/ ContextFails(s)
    BY <1>2, DieTyped DEF AudioInput, ContextFails
  <1>3. CASE TextInput(s)
    <2> DEFINE n == Head(inbox[s]).turn
               speak == Head(inbox[s]).kind = "speak"
               c == [con[s] EXCEPT !.pc = "context", !.turn = n, !.audio = speak]
    <2>1. n \in Nat
      BY <1>3, TakeTyped DEF TextInput, Take
    <2>2. speak \in BOOLEAN
      OBVIOUS
    <2>3. c \in Consumer
      <3> HIDE DEF n, speak
      <3> QED BY <1>0, <2>1, <2>2 DEF Consumer, Phases, Busy
    <2>4. con' = [con EXCEPT ![s] = c]
      BY <1>3 DEF TextInput, TypeOK
    <2>5. con' \in Consumers
      <3> HIDE DEF c
      <3> QED BY <2>3, <2>4 DEF TypeOK, Consumers
    <2>6. inbox' \in [Sockets -> Seq([kind : Inputs, turn : Nat])]
      BY <1>3, TakeTyped DEF TextInput, Take
    <2> QED BY <1>3, <2>5, <2>6 DEF TextInput, TypeOK, layer, Consumers
  <1>4. CASE GuestContext(s)
    <2> DEFINE p == Prompt(history[s], con[s].turn)
               c == [con[s] EXCEPT !.pc = "llm", !.prompt = p]
    <2>1. p \in Seq(Turn)
      BY <1>0, PromptTyped DEF TypeOK, Turn
    <2>2. c \in Consumer
      <3> HIDE DEF p
      <3> QED BY <1>0, <2>1 DEF Consumer, Phases, Busy, Turn
    <2>3. con' = [con EXCEPT ![s] = c]
      BY <1>4 DEF GuestContext, TypeOK
    <2>4. con' \in Consumers
      <3> HIDE DEF c
      <3> QED BY <2>2, <2>3 DEF TypeOK, Consumers
    <2> QED BY <1>4, <2>4 DEF GuestContext, TypeOK, client, layer, Consumers
  <1>5. CASE AgentFails(s)
    <2>1. con' \in Consumers
      BY <1>5, ConsumerTyped DEF AgentFails
    <2>2. out' \in [Sockets -> Seq(Frame)]
      BY <1>0, <1>5, FramesTyped DEF AgentFails
    <2> QED BY <1>5, <2>1, <2>2 DEF AgentFails, TypeOK, client, layer, Consumers
  <1>6. ASSUME NEW a \in Answer, Answered(s, a) \/ ToSpeech(s, a)
        PROVE  TypeOK'
    <2>1. ServiceRequest(a) \in BOOLEAN
      BY DEF ServiceRequest
    <2>2. CASE Answered(s, a)
      <3>1. con' \in Consumers /\ history' \in [Sockets -> Seq(Turn)]
        BY <2>1, <2>2, SucceedTyped DEF Answered
      <3> QED BY <2>2, <3>1 DEF Answered, TypeOK, client, layer, Consumers, Turn
    <2>3. CASE ToSpeech(s, a)
      <3>1. [con[s] EXCEPT !.pc = "tts", !.request = ServiceRequest(a)] \in Consumer
        BY <1>0, <2>1 DEF Consumer, Phases, Busy
      <3>2. con' \in Consumers
        BY <2>3, <3>1 DEF ToSpeech, TypeOK, Consumers
      <3> QED BY <2>3, <3>2 DEF ToSpeech, TypeOK, client, layer, Consumers
    <2> QED BY <1>6, <2>2, <2>3
  <1>7. CASE Spoken(s)
    <2>1. con' \in Consumers /\ history' \in [Sockets -> Seq(Turn)]
      BY <1>0, <1>7, SucceedTyped DEF Spoken, Consumer
    <2> QED BY <1>7, <2>1 DEF Spoken, TypeOK, client, layer, Consumers, Turn
  <1>8. CASE SendFrame(s)
    <2>1. out' \in [Sockets -> Seq(Frame)]
      BY <1>0, <1>8, FramesTyped DEF SendFrame
    <2>2. con' \in Consumers
      <3>1. Rest(s) \/ Goto(s, "audio") \/ Goto(s, "request")
        BY <1>8 DEF SendFrame, Continue
      <3> QED BY <3>1, ConsumerTyped DEF Phases, Busy
    <2> QED BY <1>8, <2>1, <2>2 DEF SendFrame, TypeOK, client, layer, Consumers
  <1> QED BY <1>1, <1>2, <1>3, <1>4, <1>5, <1>6, <1>7, <1>8 DEF Receive

\* The channel layer and the client.
Outside == \/ \E s \in Sockets : Client(s) \/ Notify(s) \/ Expire(s)
           \/ Push

LEMMA OutsideTyped ==
    ASSUME TypeOK, Outside
    PROVE  TypeOK'
  <1>1. ASSUME NEW s \in Sockets, NEW kind \in Inputs, ClientSends(s, kind)
        PROVE  TypeOK'
    <2> DEFINE Messages == [kind : Inputs, turn : Nat]
               m == [kind |-> kind, turn |-> sent[s] + 1]
    <2>1. m \in Messages
      BY DEF TypeOK
    <2>2. inbox \in [Sockets -> Seq(Messages)] /\ inbox' = [inbox EXCEPT ![s] = Append(@, m)]
      BY <1>1 DEF ClientSends, TypeOK
    <2>3. inbox' \in [Sockets -> Seq(Messages)]
      <3> HIDE DEF m, Messages
      <3> QED BY <2>1, <2>2
    <2>4. sent' \in [Sockets -> Nat]
      BY <1>1 DEF ClientSends, TypeOK
    <2> QED BY <1>1, <2>3, <2>4 DEF ClientSends, TypeOK, layer
  <1>2. ASSUME NEW s \in Sockets, ClientLeaves(s)
        PROVE  TypeOK'
    BY <1>2 DEF ClientLeaves, Gone, TypeOK, layer
  <1>3. ASSUME NEW s \in Sockets, Notify(s) \/ Expire(s)
        PROVE  TypeOK'
    <2>1. mailbox[s] \in Seq(Nat) /\ mailbox[s] # <<>>
      BY <1>3 DEF Notify, Expire, TypeOK
    <2>2. Head(mailbox[s]) \in Nat /\ Tail(mailbox[s]) \in Seq(Nat)
      BY <2>1, HeadTailProperties
    <2>3. mailbox' \in [Sockets -> Seq(Nat)]
      BY <1>3, <2>2 DEF Notify, Expire, TypeOK
    <2>4. out' \in [Sockets -> Seq(Frame)]
      BY <1>3, <2>2, FramesTyped DEF Notify, Expire, TypeOK
    <2> QED BY <1>3, <2>3, <2>4 DEF Notify, Expire, TypeOK, client
  <1>4. CASE Push
    <2>1. \A s \in Sockets : Append(mailbox[s], pushed + 1) \in Seq(Nat)
      BY DEF TypeOK
    <2>2. mailbox' \in [Sockets -> Seq(Nat)]
      BY <1>4, <2>1 DEF Push, TypeOK
    <2>3. pushed' \in Nat /\ owed' \subseteq Sockets \X Nat
      BY <1>4 DEF Push, Listeners, TypeOK
    <2> QED BY <1>4, <2>2, <2>3 DEF Push, TypeOK, client
  <1> QED BY <1>1, <1>2, <1>3, <1>4 DEF Outside, Client

\* The cases of Next, for every proof that follows.
LEMMA Steps ==
    ASSUME Next
    PROVE  \/ \E s \in Sockets : Connect(s) \/ Disconnect(s) \/ Receive(s)
           \/ Outside
  BY DEF Next, Outside

LEMMA TypeStep ==
    ASSUME TypeOK, [Next]_vars
    PROVE  TypeOK'
  <1>1. CASE Next
    BY <1>1, Steps, ConnectTyped, DisconnectTyped, ReceiveTyped, OutsideTyped
  <1>2. CASE UNCHANGED vars
    BY <1>2 DEF vars, client, layer, TypeOK
  <1> QED BY <1>1, <1>2

\* Every variable keeps its type, whatever the client sends, the agent answers and
\* whoever goes away in between (consumers.py:24-166).
THEOREM TypeCorrect == Spec => []TypeOK
  <1>1. TypeOK /\ [Next]_vars => TypeOK'
    BY TypeStep
  <1> QED BY <1>1, InitTyped, PTL DEF Spec

(***************************************************************************)
(* Part 2.  What is pushed to a client that was told "connected" reaches   *)
(* it: the client is in the group by then, and stays in it.                *)
(***************************************************************************)

\* How far accept() and the group have got, by where the consumer is.
Staged(s) ==
    /\ con[s].pc \in {"accept", "announce", "ready"} \cup Busy => s \in group
    /\ con[s].pc \in {"announce", "ready", "leave"} \cup Busy => con[s].accepted
    /\ con[s].pc \in {"new", "authenticate", "join", "accept", "refused"} =>
          ~con[s].accepted
    /\ con[s].pc \in {"new", "authenticate", "join", "accept", "announce", "refused"} =>
          out[s] = <<>>

\* A step of one connection leaves the others where they are.
LEMMA StagedElsewhere ==
    ASSUME TypeOK, NEW s \in Sockets, NEW r \in Sockets, r # s, Staged(r),
           Connect(s) \/ Disconnect(s) \/ Receive(s)
    PROVE  Staged(r)'
  <1>1. con'[r] = con[r]
    BY DEF Connect, Open, Refuse, Authenticate, Join, Accept, Announce, Disconnect, Discard,
           CountOut, Cancelled, Die, Gone, Receive, Reply, AudioInput, TextInput, GuestContext,
           ContextFails, AgentFails, Answered, ToSpeech, Spoken, Succeed, SendFrame,
           Continue, Rest, Goto, TypeOK
  <1>2. out'[r] = out[r]
    BY DEF Connect, Open, Refuse, Authenticate, Join, Accept, Announce, Disconnect, Discard,
           CountOut, Cancelled, Die, Gone, Receive, Reply, AudioInput, TextInput, GuestContext,
           ContextFails, AgentFails, Answered, ToSpeech, Spoken, Succeed, SendFrame,
           Send, TypeOK
  <1>3. r \in group => r \in group'
    BY DEF Connect, Open, Refuse, Authenticate, Join, Accept, Announce, Disconnect, Discard,
           CountOut, Cancelled, Die, Gone, Receive, Reply, AudioInput, TextInput, GuestContext,
           ContextFails, AgentFails, Answered, ToSpeech, Spoken, Succeed, SendFrame, layer
  <1> QED BY <1>1, <1>2, <1>3 DEF Staged

LEMMA OthersStay ==
    ASSUME TypeOK, NEW s \in Sockets, NEW r \in Sockets, r # s,
           Connect(s) \/ Disconnect(s) \/ Receive(s)
    PROVE  con'[r] = con[r] /\ history'[r] = history[r] /\ inbox'[r] = inbox[r]
           /\ sent'[r] = sent[r]
  BY DEF Connect, Open, Refuse, Authenticate, Join, Accept, Announce, Disconnect, Discard,
         CountOut, Cancelled, Die, Gone, Receive, Reply, Take, AudioInput, TextInput, GuestContext,
         ContextFails, AgentFails, Answered, ToSpeech, Spoken, Succeed, SendFrame,
         Continue, Rest, Goto, TypeOK, client

\* The end of a turn, and of a consumer.
LEMMA Ends ==
    ASSUME TypeOK, NEW s \in Sockets
    PROVE  /\ Rest(s) => con'[s].pc = "ready" /\ con'[s].accepted
           /\ Die(s) => con'[s].pc = "killed" /\ con'[s].accepted = con[s].accepted
           /\ \A pc : Goto(s, pc) => con'[s].pc = pc /\ con'[s].accepted = con[s].accepted
  <1>0. con[s] \in Consumer
    BY DEF TypeOK
  <1>1. Rest(s) => con'[s].pc = "ready" /\ con'[s].accepted
    BY DEF Rest, Fresh, TypeOK
  <1>2. Die(s) => con'[s].pc = "killed" /\ con'[s].accepted = con[s].accepted
    BY DEF Die, Gone, Fresh, TypeOK
  <1>3. ASSUME NEW pc, Goto(s, pc)
        PROVE  con'[s].pc = pc /\ con'[s].accepted = con[s].accepted
    <2>1. con'[s] = [con[s] EXCEPT !.pc = pc]
      BY <1>3 DEF Goto, TypeOK
    <2> QED BY <1>0, <2>1 DEF Consumer
  <1> QED BY <1>1, <1>2, <1>3

LEMMA StagedConnect ==
    ASSUME TypeOK, NEW s \in Sockets, Staged(s), Connect(s)
    PROVE  Staged(s)'
  <1>0. con[s] \in Consumer
    BY DEF TypeOK
  <1>1. CASE Open(s) \/ Refuse(s) \/ Authenticate(s) \/ Join(s)
    BY <1>1, Ends DEF Open, Refuse, Authenticate, Join, Staged, At, layer, Busy
  <1>2. CASE Accept(s)
    <2>1. con'[s] = [con[s] EXCEPT !.pc = "announce", !.accepted = TRUE]
      BY <1>2 DEF Accept, TypeOK
    <2>2. con'[s].pc = "announce" /\ con'[s].accepted
      BY <1>0, <2>1 DEF Consumer
    <2> QED BY <1>2, <2>2 DEF Accept, Staged, At, layer, Busy
  <1>3. CASE Announce(s)
    BY <1>3, Ends DEF Announce, Staged, At, layer
  <1> QED BY <1>1, <1>2, <1>3 DEF Connect

LEMMA StagedDisconnect ==
    ASSUME TypeOK, NEW s \in Sockets, Staged(s), Disconnect(s)
    PROVE  Staged(s)'
  <1>1. CASE Discard(s) \/ CountOut(s)
    BY <1>1, Ends DEF Discard, CountOut, Staged, At, layer, Busy
  <1>2. CASE Cancelled(s)
    BY <1>2, Ends DEF Cancelled, Staged, Busy
  <1> QED BY <1>1, <1>2 DEF Disconnect

\* While it handles a message a consumer is in the group, and stays accepted.
LEMMA ReceiveStays ==
    ASSUME TypeOK, NEW s \in Sockets, Staged(s), Receive(s)
    PROVE  /\ con[s].pc \in {"ready"} \cup Busy
           /\ con'[s].pc \in {"ready", "killed"} \cup Busy
           /\ con'[s].accepted /\ con[s].accepted
           /\ group' = group
           /\ con'[s].pc = "killed" => Die(s)
  <1>0. con[s] \in Consumer
    BY DEF TypeOK
  <1>1. con[s].pc \in {"ready"} \cup Busy
    BY DEF Receive, Reply, Take, AudioInput, TextInput, GuestContext, ContextFails, AgentFails,
           Answered, ToSpeech, Spoken, SendFrame, At, Busy
  <1>2. con[s].accepted
    BY <1>1 DEF Staged
  <1>3. group' = group
    BY DEF Receive, Reply, AudioInput, TextInput, GuestContext, ContextFails, Die, Gone, AgentFails,
           Answered, ToSpeech, Spoken, SendFrame, layer
  <1>4. CASE Reply(s)
    BY <1>1, <1>2, <1>3, <1>4 DEF Reply, Busy
  <1>5. CASE AudioInput(s) \/ ContextFails(s)
    BY <1>1, <1>2, <1>3, <1>5, Ends DEF AudioInput, ContextFails
  <1>6. CASE AgentFails(s)
    BY <1>1, <1>2, <1>3, <1>6, Ends DEF AgentFails, Busy
  <1>7. CASE SendFrame(s)
    <2>1. Rest(s) \/ Goto(s, "audio") \/ Goto(s, "request")
      BY <1>7 DEF SendFrame, Continue
    <2> QED BY <1>1, <1>2, <1>3, <2>1, Ends DEF Busy
  <1>8. ASSUME NEW pc \in Busy, con'[s].pc = pc, con'[s].accepted = con[s].accepted
        PROVE  /\ con'[s].pc \in {"ready", "killed"} \cup Busy
               /\ con'[s].accepted /\ con[s].accepted
               /\ con'[s].pc = "killed" => Die(s)
    BY <1>2, <1>8 DEF Busy
  <1>9. CASE TextInput(s)
    <2>1. con'[s].pc = "context" /\ con'[s].accepted = con[s].accepted
      BY <1>0, <1>9 DEF TextInput, TypeOK, Consumer
    <2> QED BY <1>1, <1>3, <1>8, <2>1 DEF Busy
  <1>10. CASE GuestContext(s)
    <2>1. con'[s].pc = "llm" /\ con'[s].accepted = con[s].accepted
      BY <1>0, <1>10 DEF GuestContext, TypeOK, Consumer
    <2> QED BY <1>1, <1>3, <1>8, <2>1 DEF Busy
  <1>11. ASSUME NEW a \in Answer, ToSpeech(s, a)
         PROVE  con'[s].pc = "tts" /\ con'[s].accepted = con[s].accepted
    BY <1>0, <1>11 DEF ToSpeech, TypeOK, Consumer
  <1>12. ASSUME NEW audio, NEW request, Succeed(s, audio, request)
         PROVE  con'[s].pc = "text" /\ con'[s].accepted = con[s].accepted
    BY <1>0, <1>12 DEF Succeed, TypeOK, Consumer
  <1>13. ASSUME NEW a \in Answer, Answered(s, a)
         PROVE  con'[s].pc = "text" /\ con'[s].accepted = con[s].accepted
    BY <1>12, <1>13 DEF Answered
  <1>14. CASE Spoken(s)
    <2>1. con'[s].pc = "text" /\ con'[s].accepted = con[s].accepted
      BY <1>12, <1>14 DEF Spoken
    <2> QED BY <1>1, <1>3, <1>8, <2>1 DEF Busy
  <1>15. CASE \E a \in Answer : Answered(s, a) \/ ToSpeech(s, a)
    BY <1>1, <1>3, <1>8, <1>11, <1>13, <1>15 DEF Busy
  <1> QED BY <1>4, <1>5, <1>6, <1>7, <1>9, <1>10, <1>14, <1>15 DEF Receive

LEMMA StagedReceive ==
    ASSUME TypeOK, NEW s \in Sockets, Staged(s), Receive(s)
    PROVE  Staged(s)'
  BY ReceiveStays DEF Staged, Busy

LEMMA StagedOutside ==
    ASSUME TypeOK, NEW s \in Sockets, Staged(s), Outside
    PROVE  Staged(s)'
  <1>1. con' = con /\ group' = group
    BY DEF Outside, Client, ClientSends, ClientLeaves, Gone, Notify, Expire, Push, layer
  <1>2. out'[s] = out[s] \/ con[s].pc = "ready"
    BY DEF Outside, Client, ClientSends, ClientLeaves, Gone, Notify, Expire, Push, Send, At, TypeOK
  <1> QED BY <1>1, <1>2 DEF Staged, Busy

LEMMA StagedInvariant == Spec => [](\A s \in Sockets : Staged(s))
  <1> DEFINE Good == \A s \in Sockets : Staged(s)
  <1>1. Init => Good
    BY DEF Init, Staged, Fresh, Busy
  <1>2. Good /\ TypeOK /\ [Next]_vars => Good'
    <2> SUFFICES ASSUME Good, TypeOK, [Next]_vars, NEW r \in Sockets PROVE Staged(r)'
      OBVIOUS
    <2>1. ASSUME NEW s \in Sockets, Connect(s) \/ Disconnect(s) \/ Receive(s)
          PROVE  Staged(r)'
      BY <2>1, StagedElsewhere, StagedConnect, StagedDisconnect, StagedReceive
    <2>2. CASE Outside
      BY <2>2, StagedOutside
    <2>3. CASE UNCHANGED vars
      BY <2>3 DEF vars, layer, Staged
    <2> QED BY <2>1, <2>2, <2>3, Steps
  <1> HIDE DEF Good
  <1>3. Good => \A s \in Sockets : Staged(s)
    BY DEF Good
  <1> QED BY <1>1, <1>2, <1>3, TypeCorrect, PTL DEF Spec

\* A client that is there and was told "connected" is in the group of its guest.
Settled(s) ==
    /\ here[s] => con[s].pc \notin {"leave", "refused"} \cup Over
    /\ here[s] /\ out[s] # <<>> => s \in group

\* What was pushed to such a client, as long as it is there, is in its frames or in
\* its channel.
Reached(s) ==
    /\ Settled(s)
    /\ \A n \in Nat : <<s, n>> \in owed =>
          here[s] /\ out[s] # <<>> /\ (Delivered(s, n) \/ Waits(s, n))

LEMMA SettledStep ==
    ASSUME TypeOK, NEW s \in Sockets, Staged(s), Staged(s)', Settled(s), [Next]_vars
    PROVE  Settled(s)'
  <1>0. con'[s] \in Consumer /\ con[s] \in Consumer
    BY TypeStep DEF TypeOK
  <1>1. here'[s] => con'[s].pc \notin {"leave", "refused"} \cup Over
    <2>1. ASSUME NEW r \in Sockets, r # s, Connect(r) \/ Disconnect(r) \/ Receive(r)
          PROVE  here'[s] = here[s] /\ con'[s] = con[s]
      <3>1. here'[s] = here[s]
        BY <2>1 DEF Connect, Open, Refuse, Authenticate, Join, Accept, Announce, Disconnect,
           Discard, CountOut, Cancelled, Die, Gone, Receive, Reply, AudioInput, TextInput,
           GuestContext, ContextFails, AgentFails, Answered, ToSpeech, Spoken, SendFrame,
           client, TypeOK
      <3> QED BY <2>1, <3>1, OthersStay
    <2>2. CASE Connect(s)
      <3>1. CASE Refuse(s)
        BY <3>1 DEF Refuse, TypeOK
      <3>2. CASE Accept(s)
        <4>1. con'[s] = [con[s] EXCEPT !.pc = "announce", !.accepted = TRUE]
          BY <3>2 DEF Accept, TypeOK
        <4> QED BY <1>0, <4>1 DEF Consumer, Over
      <3> QED BY <2>2, <3>1, <3>2, Ends
              DEF Connect, Open, Authenticate, Join, Announce, Over
    <2>3. CASE Disconnect(s)
      <3>1. CASE Cancelled(s)
        BY <3>1 DEF Cancelled, Die, Gone, TypeOK
      <3> QED BY <2>3, <3>1 DEF Disconnect, Discard, CountOut, Settled, client
    <2>4. CASE Receive(s)
      <3>1. con'[s].pc \in {"ready", "killed"} \cup Busy
        BY <2>4, ReceiveStays
      <3>2. con'[s].pc = "killed" => ~here'[s]
        BY <2>4, ReceiveStays DEF Die, Gone, TypeOK
      <3> QED BY <3>1, <3>2 DEF Busy, Over
    <2>5. CASE Outside
      <3>1. con' = con /\ (here'[s] => here[s])
        BY <2>5 DEF Outside, Client, ClientSends, ClientLeaves, Gone, Notify, Expire, Push, client,
                    TypeOK
      <3> QED BY <3>1 DEF Settled
    <2>6. CASE UNCHANGED vars
      BY <2>6 DEF vars, client, Settled
    <2> QED BY <2>1, <2>2, <2>3, <2>4, <2>5, <2>6, Steps DEF Settled
  <1> QED BY <1>0, <1>1 DEF Staged, Settled, Consumer, Phases, Connecting, Over

\* Frames are only added.
LEMMA FramesStay ==
    ASSUME TypeOK, NEW s \in Sockets, NEW f, [Next]_vars,
           \E i \in DOMAIN out[s] : out[s][i] = f
    PROVE  \E i \in DOMAIN out'[s] : out'[s][i] = f
  <1>1. PICK i \in DOMAIN out[s] : out[s][i] = f
    OBVIOUS
  <1>2. out[s] \in Seq(Frame)
    BY DEF TypeOK
  <1>3. \/ out'[s] = out[s]
        \/ \E kind, n : out'[s] = Append(out[s], [kind |-> kind, turn |-> n])
    <2>1. ASSUME NEW r \in Sockets, NEW kind, NEW n, Send(r, kind, n)
          PROVE  \/ out'[s] = out[s]
                 \/ \E k, m : out'[s] = Append(out[s], [kind |-> k, turn |-> m])
      BY <2>1 DEF Send, TypeOK
    <2>2. ASSUME NEW r \in Sockets, Connect(r) \/ Disconnect(r)
          PROVE  \/ out' = out
                 \/ Send(r, "connected", 0)
      BY <2>2 DEF Connect, Open, Refuse, Authenticate, Join, Accept, Announce, Disconnect,
           Discard, CountOut, Cancelled, Die, Gone
    <2>3. ASSUME NEW r \in Sockets, Receive(r)
          PROVE  \/ out' = out
                 \/ \E kind, n : Send(r, kind, n)
      BY <2>3 DEF Receive, Reply, AudioInput, TextInput, GuestContext, ContextFails, Die, Gone,
                  AgentFails, Answered, ToSpeech, Spoken, SendFrame
    <2>4. ASSUME Outside
          PROVE  \/ out' = out
                 \/ \E r \in Sockets : \E kind, n : Send(r, kind, n)
      BY <2>4 DEF Outside, Client, ClientSends, ClientLeaves, Gone, Notify, Expire, Push
    <2>5. CASE UNCHANGED vars
      BY <2>5 DEF vars
    <2> QED BY <2>1, <2>2, <2>3, <2>4, <2>5, Steps
  <1>4. CASE out'[s] = out[s]
    BY <1>1, <1>4
  <1>5. ASSUME NEW g, out'[s] = Append(out[s], g)
        PROVE  \E j \in DOMAIN out'[s] : out'[s][j] = f
    <2>1. i \in 1..Len(out[s])
      BY <1>1, <1>2
    <2>2. i \in DOMAIN out'[s] /\ out'[s][i] = out[s][i]
      BY <1>2, <1>5, <2>1
    <2> QED BY <1>1, <2>2
  <1> QED BY <1>3, <1>4, <1>5

\* What waits in a channel goes on waiting, is shown, or expires.
LEMMA WaitingStep ==
    ASSUME TypeOK, NEW s \in Sockets, NEW n \in Nat, Waits(s, n), here[s], [Next]_vars
    PROVE  Waits(s, n)' \/ Delivered(s, n)' \/ <<s, n>> \notin owed'
  <1>1. PICK i \in DOMAIN mailbox[s] : mailbox[s][i] = n
    BY DEF Waits
  <1>2. mailbox[s] \in Seq(Nat) /\ i \in 1..Len(mailbox[s]) /\ out[s] \in Seq(Frame)
    BY <1>1 DEF TypeOK
  <1>3. CASE mailbox'[s] = mailbox[s]
    BY <1>1, <1>3 DEF Waits
  <1>4. ASSUME NEW m \in Nat, mailbox'[s] = Append(mailbox[s], m)
        PROVE  Waits(s, n)'
    <2>1. i \in DOMAIN mailbox'[s] /\ mailbox'[s][i] = mailbox[s][i]
      BY <1>2, <1>4
    <2> QED BY <1>1, <2>1 DEF Waits
  <1>5. ASSUME mailbox'[s] = Tail(mailbox[s]), i # 1
        PROVE  Waits(s, n)'
    <2>1. /\ Len(mailbox'[s]) = Len(mailbox[s]) - 1
          /\ mailbox'[s] \in Seq(Nat)
          /\ mailbox'[s][i - 1] = mailbox[s][i]
      BY <1>2, <1>5, HeadTailProperties
    <2>2. i - 1 \in DOMAIN mailbox'[s]
      BY <1>2, <1>5, <2>1
    <2> QED BY <1>1, <2>1, <2>2 DEF Waits
  <1>6. i = 1 => Head(mailbox[s]) = n
    BY <1>1, <1>2
  <1>7. CASE Notify(s)
    <2>1. mailbox'[s] = Tail(mailbox[s])
      BY <1>7 DEF Notify, TypeOK
    <2>2. ASSUME i = 1 PROVE Delivered(s, n)'
      <3> DEFINE f == [kind |-> "notification", turn |-> n]
      <3>1. out'[s] = Append(out[s], f)
        BY <1>6, <1>7, <2>2 DEF Notify, Send, TypeOK
      <3>2. Len(out[s]) + 1 \in DOMAIN out'[s] /\ out'[s][Len(out[s]) + 1] = f
        <4> HIDE DEF f
        <4> QED BY <1>2, <3>1
      <3> QED BY <3>2 DEF Delivered
    <2> QED BY <1>5, <2>1, <2>2
  <1>8. CASE Expire(s)
    <2>1. mailbox'[s] = Tail(mailbox[s]) /\ owed' = owed \ {<<s, Head(mailbox[s])>>}
      BY <1>8 DEF Expire, TypeOK
    <2> QED BY <1>5, <1>6, <2>1
  <1>9. CASE Push
    <2>1. mailbox'[s] = mailbox[s] \/ mailbox'[s] = Append(mailbox[s], pushed + 1)
      BY <1>9 DEF Push, TypeOK
    <2>2. pushed + 1 \in Nat
      BY DEF TypeOK
    <2> QED BY <1>3, <1>4, <2>1, <2>2
  <1>10. ASSUME NEW r \in Sockets, Notify(r) \/ Expire(r), r # s
         PROVE  mailbox'[s] = mailbox[s]
    BY <1>10 DEF Notify, Expire, TypeOK
  <1>11. ASSUME NEW r \in Sockets, Connect(r) \/ Disconnect(r) \/ Receive(r) \/ Client(r)
         PROVE  mailbox' = mailbox
    BY <1>11 DEF Connect, Open, Refuse, Authenticate, Join, Accept, Announce, Disconnect,
         Discard, CountOut, Cancelled, Die, Gone, Receive, Reply, AudioInput, TextInput,
         GuestContext, ContextFails, AgentFails, Answered, ToSpeech, Spoken, SendFrame,
         Client, ClientSends, ClientLeaves, layer
  <1>12. CASE UNCHANGED vars
    BY <1>3, <1>12 DEF vars, layer
  <1> QED BY <1>3, <1>7, <1>8, <1>9, <1>10, <1>11, <1>12, Steps DEF Outside

\* What is pushed goes to the channel of every client that listens and has room.
LEMMA OwedStep ==
    ASSUME TypeOK, NEW s \in Sockets, Settled(s), NEW n \in Nat, [Next]_vars,
           <<s, n>> \in owed', <<s, n>> \notin owed
    PROVE  here'[s] /\ out'[s] # <<>> /\ Waits(s, n)'
  <1>1. Push
    <2>1. ASSUME NEW r \in Sockets, Connect(r) \/ Disconnect(r) \/ Receive(r) \/ Client(r)
          PROVE  owed' \subseteq owed
      BY <2>1 DEF Connect, Open, Refuse, Authenticate, Join, Accept, Announce, Disconnect,
         Discard, CountOut, Cancelled, Die, Gone, Receive, Reply, AudioInput, TextInput,
         GuestContext, ContextFails, AgentFails, Answered, ToSpeech, Spoken, SendFrame,
         Client, ClientSends, ClientLeaves, layer
    <2>2. ASSUME NEW r \in Sockets, Notify(r) \/ Expire(r)
          PROVE  owed' \subseteq owed
      BY <2>2 DEF Notify, Expire
    <2>3. CASE UNCHANGED vars
      BY <2>3 DEF vars, layer
    <2> QED BY <2>1, <2>2, <2>3, Steps DEF Outside
  <1>2. PICK full \in SUBSET group :
           /\ mailbox' = [r \in Sockets |-> IF r \in group \ full
                                           THEN Append(mailbox[r], pushed + 1) ELSE mailbox[r]]
           /\ owed' = owed \cup ((Listeners \ full) \X {pushed + 1})
    BY <1>1 DEF Push
  <1>3. s \in Listeners \ full /\ n = pushed + 1
    BY <1>2
  <1>4. /\ out[s] # <<>> /\ s \in group
        /\ out' = out /\ here'[s]
    BY <1>1, <1>3 DEF Listeners, Settled, Push, client
  <1>5. mailbox'[s] = Append(mailbox[s], n) /\ mailbox[s] \in Seq(Nat)
    BY <1>2, <1>3, <1>4 DEF TypeOK
  <1>6. Len(mailbox[s]) + 1 \in DOMAIN mailbox'[s] /\ mailbox'[s][Len(mailbox[s]) + 1] = n
    BY <1>5
  <1> QED BY <1>4, <1>6 DEF Waits

LEMMA ReachedStep ==
    ASSUME TypeOK, NEW s \in Sockets, Staged(s), Staged(s)', Reached(s), [Next]_vars
    PROVE  Reached(s)'
  <1>1. Settled(s)'
    BY SettledStep DEF Reached
  <1>2. \A n : Delivered(s, n) => Delivered(s, n)'
    BY FramesStay DEF Delivered
  <1>3. \/ here'[s] \/ ~here[s] \/ con[s].pc = "authenticate"
        \/ \A n : <<s, n>> \notin owed'
    <2>1. ASSUME NEW r \in Sockets, Connect(r) \/ Disconnect(r) \/ Receive(r)
          PROVE  here' = here \/ Open(r) \/ Refuse(r) \/ Gone(r)
      BY <2>1 DEF Connect, Authenticate, Join, Accept, Announce, Disconnect, Discard, CountOut,
           Cancelled, Die, Receive, Reply, AudioInput, TextInput, GuestContext, ContextFails,
           AgentFails, Answered, ToSpeech, Spoken, SendFrame, client
    <2>2. ASSUME Outside
          PROVE  here' = here \/ \E r \in Sockets : Gone(r)
      BY <2>2 DEF Outside, Client, ClientSends, ClientLeaves, Notify, Expire, Push, client
    <2>3. ASSUME NEW r \in Sockets, Gone(r)
          PROVE  here'[s] = here[s] \/ \A n : <<s, n>> \notin owed'
      BY <2>3 DEF Gone, TypeOK
    <2>4. ASSUME NEW r \in Sockets, Open(r) \/ Refuse(r)
          PROVE  here'[s] \/ here'[s] = here[s] \/ con[s].pc = "authenticate"
      BY <2>4 DEF Open, Refuse, At, TypeOK
    <2>5. CASE UNCHANGED vars
      BY <2>5 DEF vars, client
    <2> QED BY <2>1, <2>2, <2>3, <2>4, <2>5, Steps
  <1>4. out[s] # <<>> => out'[s] # <<>>
    <2> SUFFICES ASSUME out[s] # <<>> PROVE out'[s] # <<>>
      OBVIOUS
    <2>1. out[s] \in Seq(Frame) /\ out'[s] \in Seq(Frame)
      BY TypeStep DEF TypeOK
    <2>2. 1 \in DOMAIN out[s]
      BY <2>1, EmptySeq
    <2>3. PICK j \in DOMAIN out'[s] : out'[s][j] = out[s][1]
      BY <2>2, FramesStay
    <2> QED BY <2>1, <2>3
  <1>5. ASSUME NEW n \in Nat, Waits(s, n), here[s]
        PROVE  Waits(s, n)' \/ Delivered(s, n)' \/ <<s, n>> \notin owed'
    BY <1>5, WaitingStep
  <1>6. ASSUME NEW n \in Nat, <<s, n>> \in owed', <<s, n>> \notin owed
        PROVE  here'[s] /\ out'[s] # <<>> /\ Waits(s, n)'
    BY <1>6, OwedStep DEF Reached
  <1>7. ASSUME NEW n \in Nat, <<s, n>> \in owed', <<s, n>> \in owed
        PROVE  here'[s] /\ out'[s] # <<>> /\ (Delivered(s, n)' \/ Waits(s, n)')
    <2>1. here[s] /\ out[s] # <<>> /\ con[s].pc # "authenticate"
      BY <1>7 DEF Reached, Staged
    <2> QED BY <1>2, <1>3, <1>4, <1>5, <1>7, <2>1 DEF Reached
  <1> QED BY <1>1, <1>6, <1>7 DEF Reached

LEMMA ReachedInvariant == Spec => [](\A s \in Sockets : Reached(s))
  <1> DEFINE Good == \A s \in Sockets : Reached(s)
             Known == \A s \in Sockets : Staged(s)
  <1>1. Init => Good
    BY DEF Init, Reached, Settled
  <1>2. Good /\ Known /\ Known' /\ TypeOK /\ [Next]_vars => Good'
    BY ReachedStep
  <1> HIDE DEF Good
  <1>3. Good => \A s \in Sockets : Reached(s)
    BY DEF Good
  <1> QED BY <1>1, <1>2, <1>3, TypeCorrect, StagedInvariant, PTL DEF Spec

\* A notification pushed to a client that was told "connected" is shown to it or waits
\* in its channel as long as it stays, unless the channel was full or let it expire:
\* the group is joined before the client is let in (consumers.py:52-58, 149-155).
THEOREM NotificationsAlwaysReach == Spec => []NotificationsReach
  <1>1. (\A s \in Sockets : Reached(s)) /\ TypeOK => NotificationsReach
    BY DEF Reached, NotificationsReach, TypeOK
  <1> QED BY <1>1, ReachedInvariant, TypeCorrect, PTL

(***************************************************************************)
(* Part 3.  How far the gauge of active sessions is off.                   *)
(***************************************************************************)

LEMMA SameCount ==
    ASSUME GaugeAccounted, gauge' = gauge,
           \A s \in Sockets : /\ CountedIn(s)' = CountedIn(s)
                              /\ Refused(s)' = Refused(s)
    PROVE  GaugeAccounted'
  <1>1. {s \in Sockets : CountedIn(s)}' = {s \in Sockets : CountedIn(s)}
    OBVIOUS
  <1>2. {s \in Sockets : Refused(s)}' = {s \in Sockets : Refused(s)}
    OBVIOUS
  <1> QED BY <1>1, <1>2 DEF GaugeAccounted

\* A step of s after which it is counted, and refused, as before.
LEMMA SameCountAt ==
    ASSUME TypeOK, GaugeAccounted, gauge' = gauge,
           NEW s \in Sockets, Connect(s) \/ Disconnect(s) \/ Receive(s),
           con[s].pc # "closed", con'[s].pc # "closed",
           con'[s].accepted <=> con[s].accepted
    PROVE  GaugeAccounted'
  <1>1. \A r \in Sockets : r # s => con'[r] = con[r]
    BY OthersStay
  <1>2. ASSUME NEW r \in Sockets
        PROVE  CountedIn(r)' = CountedIn(r) /\ Refused(r)' = Refused(r)
    BY <1>1 DEF CountedIn, Refused
  <1> QED BY <1>2, SameCount

LEMMA GaugeAccept ==
    ASSUME TypeOK, GaugeAccounted, NEW s \in Sockets, Staged(s), Accept(s)
    PROVE  GaugeAccounted'
  <1> DEFINE In == {r \in Sockets : CountedIn(r)}
             Off == {r \in Sockets : Refused(r)}
  <1>1. \A r \in Sockets : r # s => con'[r] = con[r]
    BY OthersStay DEF Connect
  <1>2. ~con[s].accepted /\ con[s].pc = "accept"
    BY DEF Staged, Accept, At
  <1>3. con'[s].accepted /\ con'[s].pc = "announce"
    <2>1. con'[s] = [con[s] EXCEPT !.pc = "announce", !.accepted = TRUE]
      BY DEF Accept, TypeOK
    <2> QED BY <2>1 DEF TypeOK, Consumer
  <1>4. In' = In \cup {s} /\ s \notin In /\ Off' = Off
    BY <1>1, <1>2, <1>3 DEF CountedIn, Refused
  <1>5. IsFiniteSet(In) /\ IsFiniteSet(Off)
    BY SocketsAssumption, FS_Subset
  <1>6. Cardinality(In \cup {s}) = Cardinality(In) + 1 /\ Cardinality(In) \in Nat
        /\ Cardinality(Off) \in Nat
    BY <1>4, <1>5, FS_AddElement, FS_CardinalityType
  <1>7. gauge' = gauge + 1 /\ gauge = Cardinality(In) - Cardinality(Off)
    BY DEF Accept, GaugeAccounted
  <1>8. Cardinality(In') = Cardinality(In) + 1 /\ Cardinality(Off') = Cardinality(Off)
    <2> HIDE DEF In, Off
    <2> QED BY <1>4, <1>6
  <1>9. gauge' = Cardinality(In') - Cardinality(Off')
    <2> HIDE DEF In, Off
    <2> QED BY <1>6, <1>7, <1>8
  <1> QED BY <1>9 DEF GaugeAccounted

\* A connection that was accepted is counted out, a refused one is too, though it was
\* never counted in.
LEMMA GaugeCountOut ==
    ASSUME TypeOK, GaugeAccounted, NEW s \in Sockets, Staged(s), CountOut(s)
    PROVE  GaugeAccounted'
  <1> DEFINE In == {r \in Sockets : CountedIn(r)}
             Off == {r \in Sockets : Refused(r)}
  <1>1. \A r \in Sockets : r # s => con'[r] = con[r]
    BY OthersStay DEF Disconnect
  <1>2. con'[s].pc = "closed" /\ con'[s].accepted = con[s].accepted
    BY Ends DEF CountOut
  <1>3. IsFiniteSet(In) /\ IsFiniteSet(Off)
    BY SocketsAssumption, FS_Subset
  <1>4. Cardinality(In) \in Nat /\ Cardinality(Off) \in Nat
    BY <1>3, FS_CardinalityType
  <1>5. gauge' = gauge - 1 /\ gauge = Cardinality(In) - Cardinality(Off)
    BY DEF CountOut, GaugeAccounted
  <1>6. CASE con[s].pc = "leave"
    <2>1. In' = In \ {s} /\ s \in In /\ Off' = Off
      BY <1>1, <1>2, <1>6 DEF CountedIn, Refused, Staged
    <2>2. Cardinality(In \ {s}) = Cardinality(In) - 1
      BY <1>3, <2>1, FS_RemoveElement
    <2>3. gauge' = Cardinality(In') - Cardinality(Off')
      BY <1>4, <1>5, <2>1, <2>2
    <2> QED BY <2>3 DEF GaugeAccounted
  <1>7. CASE con[s].pc = "refused"
    <2>1. In' = In /\ Off' = Off \cup {s} /\ s \notin Off
      BY <1>1, <1>2, <1>7 DEF CountedIn, Refused, Staged
    <2>2. Cardinality(Off \cup {s}) = Cardinality(Off) + 1
      BY <1>3, <2>1, FS_AddElement
    <2>3. gauge' = Cardinality(In') - Cardinality(Off')
      <3> HIDE DEF In, Off
      <3> QED BY <1>4, <1>5, <2>1, <2>2
    <2> QED BY <2>3 DEF GaugeAccounted
  <1> QED BY <1>6, <1>7 DEF CountOut

LEMMA GaugeStep ==
    ASSUME TypeOK, GaugeAccounted, \A s \in Sockets : Staged(s), [Next]_vars
    PROVE  GaugeAccounted'
  <1>1. ASSUME NEW s \in Sockets, Connect(s)
        PROVE  GaugeAccounted'
    <2>1. CASE Accept(s)
      BY <2>1, GaugeAccept
    <2>2. CASE ~Accept(s)
      <3>1. gauge' = gauge
        BY <1>1, <2>2 DEF Connect, Open, Refuse, Authenticate, Join, Announce
      <3>2. con[s].pc # "closed" /\ con'[s].pc # "closed"
        BY <1>1, <2>2, Ends DEF Connect, Open, Refuse, Authenticate, Join, Announce, At
      <3>3. con'[s].accepted <=> con[s].accepted
        BY <1>1, <2>2, Ends DEF Connect, Open, Refuse, Authenticate, Join, Announce, At, Staged
      <3> QED BY <1>1, <3>1, <3>2, <3>3, SameCountAt
    <2> QED BY <2>1, <2>2
  <1>2. ASSUME NEW s \in Sockets, Disconnect(s)
        PROVE  GaugeAccounted'
    <2>1. CASE CountOut(s)
      BY <2>1, GaugeCountOut
    <2>2. CASE Discard(s) \/ Cancelled(s)
      <3>1. gauge' = gauge
        BY <2>2 DEF Discard, Cancelled, Die, Gone
      <3>2. con[s].pc # "closed" /\ con'[s].pc # "closed"
        BY <2>2, Ends DEF Discard, Cancelled, At, Busy, Connecting
      <3>3. con'[s].accepted <=> con[s].accepted
        BY <2>2, Ends DEF Discard, Cancelled
      <3> QED BY <1>2, <3>1, <3>2, <3>3, SameCountAt
    <2> QED BY <1>2, <2>1, <2>2 DEF Disconnect
  <1>3. ASSUME NEW s \in Sockets, Receive(s)
        PROVE  GaugeAccounted'
    <2>1. gauge' = gauge
      BY <1>3 DEF Receive, Reply, AudioInput, TextInput, GuestContext, ContextFails, Die, Gone,
                  AgentFails, Answered, ToSpeech, Spoken, SendFrame
    <2>2. con[s].pc # "closed" /\ con'[s].pc # "closed" /\ con'[s].accepted /\ con[s].accepted
      BY <1>3, ReceiveStays DEF Busy
    <2> QED BY <1>3, <2>1, <2>2, SameCountAt
  <1>4. CASE Outside
    <2>1. con' = con /\ gauge' = gauge
      BY <1>4 DEF Outside, Client, ClientSends, ClientLeaves, Gone, Notify, Expire, Push
    <2> QED BY <2>1, SameCount DEF CountedIn, Refused
  <1>5. CASE UNCHANGED vars
    <2>1. con' = con /\ gauge' = gauge
      BY <1>5 DEF vars
    <2> QED BY <2>1, SameCount DEF CountedIn, Refused
  <1> QED BY <1>1, <1>2, <1>3, <1>4, <1>5, Steps

\* ACTIVE_VOICE_SESSIONS is off by exactly the refused clients, which are taken off it,
\* and the consumers that died, which stay on it (consumers.py:55, 67).
THEOREM GaugeIsAccounted == Spec => []GaugeAccounted
  <1>1. Init => GaugeAccounted
    <2> SUFFICES ASSUME Init PROVE GaugeAccounted
      OBVIOUS
    <2>1. {s \in Sockets : CountedIn(s)} = {} /\ {s \in Sockets : Refused(s)} = {}
      BY DEF Init, CountedIn, Refused, Fresh
    <2>2. gauge = 0
      BY DEF Init
    <2>3. Cardinality({s \in Sockets : CountedIn(s)}) = 0
          /\ Cardinality({s \in Sockets : Refused(s)}) = 0
      BY <2>1, FS_EmptySet
    <2> QED BY <2>2, <2>3 DEF GaugeAccounted
  <1> DEFINE Good == \A s \in Sockets : Staged(s)
  <1>2. GaugeAccounted /\ TypeOK /\ Good /\ [Next]_vars => GaugeAccounted'
    BY GaugeStep
  <1> HIDE DEF Good
  <1>3. (\A s \in Sockets : Staged(s)) => Good
    BY DEF Good
  <1> QED BY <1>1, <1>2, <1>3, StagedInvariant, TypeCorrect, PTL DEF Spec

(***************************************************************************)
(* Part 4.  The model is shown a conversation.                             *)
(***************************************************************************)

\* A conversation of whole exchanges, in the order they were had.
Speaker(i) == IF i % 2 = 1 THEN "user" ELSE "assistant"
Follows(h, i, j) == \/ h[i].turn < h[j].turn
                    \/ h[i].turn = h[j].turn /\ j = i + 1 /\ i % 2 = 1
Ordered(h) == \A i, j \in 1..Len(h) : i < j => Follows(h, i, j)
Dialogue(h) == /\ Len(h) % 2 = 0
               /\ \A i \in 1..Len(h) : h[i].role = Speaker(i)
               /\ Ordered(h)
Before(h, n) == \A i \in 1..Len(h) : h[i].turn < n

LEMMA Parity ==
    ASSUME NEW n \in Nat, n % 2 = 0
    PROVE  (n + 1) % 2 = 1 /\ (n + 2) % 2 = 0
  OBVIOUS

\* The window cuts off whole exchanges.
LEMMA RecentDialogue ==
    ASSUME NEW h \in Seq(Turn), Dialogue(h)
    PROVE  Dialogue(Recent(h)) /\ \A n \in Nat : Before(h, n) => Before(Recent(h), n)
  <1>1. Window \in Nat /\ Window % 2 = 0 /\ Len(h) \in Nat
    BY WindowAssumption
  <1>2. CASE Len(h) <= Window
    BY <1>2 DEF Recent
  <1>3. CASE Len(h) > Window
    <2> DEFINE d == Len(h) - Window
               t == Recent(h)
    <2>1. d \in Nat /\ d % 2 = 0
      BY <1>1, <1>3 DEF Dialogue
    <2>2. t = SubSeq(h, d + 1, Len(h))
      BY <1>1, <1>3 DEF Recent
    <2>3. Len(t) = Window /\ \A i \in 1..Window : t[i] = h[i + d]
      <3>1. d + 1 \in Int /\ Len(h) \in Int /\ \A i \in d + 1 .. Len(h) : h[i] \in Turn
        BY <1>1, <2>1
      <3>2. /\ Len(t) = IF d + 1 <= Len(h) THEN Len(h) - (d + 1) + 1 ELSE 0
            /\ \A i \in 1..Len(h) - (d + 1) + 1 : t[i] = h[(d + 1) + i - 1]
        <4> HIDE DEF d
        <4> QED BY <2>2, <3>1, SubSeqProperties
      <3>3. Len(h) - (d + 1) + 1 = Window /\ (~(d + 1 <= Len(h)) => Window = 0)
        BY <1>1, <1>3
      <3>4. \A i \in 1..Window : (d + 1) + i - 1 = i + d
        BY <1>1, <2>1
      <3> QED BY <3>2, <3>3, <3>4
    <2> HIDE DEF d, t
    <2>4. \A i \in 1..Window : i + d \in 1..Len(h)
      BY <1>1, <1>3, <2>1 DEF d
    <2>5. \A i \in Nat : (i + d) % 2 = i % 2
      BY <2>1
    <2>6. \A i \in 1..Len(t) : t[i].role = Speaker(i)
      <3> SUFFICES ASSUME NEW i \in 1..Window PROVE t[i].role = Speaker(i)
        BY <2>3
      <3>1. t[i] = h[i + d] /\ i + d \in 1..Len(h)
        BY <2>3, <2>4
      <3>2. h[i + d].role = Speaker(i + d)
        BY <1>1, <3>1 DEF Dialogue
      <3> QED BY <2>5, <3>1, <3>2 DEF Speaker
    <2>7. Ordered(t)
      <3> SUFFICES ASSUME NEW i \in 1..Window, NEW j \in 1..Window, i < j
                   PROVE  Follows(t, i, j)
        BY <2>3 DEF Ordered
      <3>1. i + d < j + d /\ i + d \in 1..Len(h) /\ j + d \in 1..Len(h)
        <4>1. i \in Nat /\ j \in Nat
          BY <1>1
        <4> QED BY <2>1, <2>4, <4>1
      <3>2. Follows(h, i + d, j + d)
        BY <3>1 DEF Dialogue, Ordered
      <3>3. j + d = (i + d) + 1 => j = i + 1
        BY <1>1, <2>1
      <3>4. (i + d) % 2 = i % 2
        BY <1>1, <2>5
      <3> QED BY <2>3, <3>2, <3>3, <3>4 DEF Follows
    <2>8. Dialogue(t)
      BY <1>1, <2>3, <2>6, <2>7 DEF Dialogue
    <2>9. \A n \in Nat : Before(h, n) => Before(t, n)
      BY <2>3, <2>4 DEF Before
    <2> QED BY <2>8, <2>9 DEF t
  <1> QED BY <1>1, <1>2, <1>3

\* A conversation, and a new message of the user after it, is what the model should see.
LEMMA PromptDialogue ==
    ASSUME NEW h \in Seq(Turn), NEW n \in Nat, Dialogue(h), Before(h, n)
    PROVE  LET p == Prompt(h, n) IN
           /\ \A i \in 1..Len(p) : p[i].role = Speaker(i)
           /\ Ordered(p)
           /\ p[Len(p)] = Message("user", n)
  <1> DEFINE r == Recent(h)  p == Prompt(h, n)  m == Message("user", n)
  <1>1. r \in Seq(Turn) /\ Dialogue(r) /\ Before(r, n)
    BY PromptTyped, RecentDialogue
  <1>2. p = Append(r, m)
    BY DEF Prompt
  <1>3. m.role = "user" /\ m.turn = n
    BY DEF Message
  <1> HIDE DEF r, p, m
  <1>4. /\ Len(p) = Len(r) + 1 /\ Len(r) \in Nat
        /\ \A i \in 1..Len(r) : p[i] = r[i]
        /\ p[Len(r) + 1] = m
    BY <1>1, <1>2
  <1>5. (Len(r) + 1) % 2 = 1
    <2>1. Len(r) % 2 = 0
      BY <1>1 DEF Dialogue
    <2> QED BY <1>4, <2>1, Parity
  <1>6. \A i \in 1..Len(p) : p[i].role = Speaker(i)
    <2>1. \A i \in 1..Len(r) : p[i].role = Speaker(i)
      BY <1>1, <1>4 DEF Dialogue
    <2>2. p[Len(r) + 1].role = Speaker(Len(r) + 1)
      BY <1>3, <1>4, <1>5 DEF Speaker
    <2>3. \A i \in 1..Len(p) : i \in 1..Len(r) \/ i = Len(r) + 1
      BY <1>4
    <2> QED BY <2>1, <2>2, <2>3
  <1>7. ASSUME NEW i \in 1..Len(p), NEW j \in 1..Len(p), i < j
        PROVE  Follows(p, i, j)
    <2>1. CASE j \in 1..Len(r)
      <3>1. i \in 1..Len(r)
        BY <1>4, <1>7, <2>1
      <3>2. Follows(r, i, j)
        BY <1>1, <1>7, <2>1, <3>1 DEF Dialogue, Ordered
      <3> QED BY <1>4, <2>1, <3>1, <3>2 DEF Follows
    <2>2. CASE j = Len(r) + 1
      <3>1. i \in 1..Len(r)
        BY <1>4, <1>7, <2>2
      <3>2. r[i].turn < n
        BY <1>1, <3>1 DEF Before
      <3> QED BY <1>3, <1>4, <2>2, <3>1, <3>2 DEF Follows
    <2> QED BY <1>4, <2>1, <2>2
  <1>8. Ordered(p)
    BY <1>7 DEF Ordered
  <1>9. p[Len(p)] = m
    BY <1>4
  <1> QED BY <1>6, <1>8, <1>9 DEF p, m

\* A turn that succeeds adds a whole exchange.
LEMMA ExchangeDialogue ==
    ASSUME NEW h \in Seq(Turn), NEW n \in Nat, Dialogue(h), Before(h, n),
           NEW x \in Turn, NEW y \in Turn,
           x = Message("user", n), y = Message("assistant", n)
    PROVE  /\ Dialogue(h \o <<x, y>>)
           /\ \A k \in Nat : n < k => Before(h \o <<x, y>>, k)
  <1> DEFINE t == h \o <<x, y>>
  <1>1. /\ Len(t) = Len(h) + 2 /\ Len(h) \in Nat
        /\ \A i \in 1..Len(h) : t[i] = h[i]
        /\ t[Len(h) + 1] = x /\ t[Len(h) + 2] = y
    OBVIOUS
  <1>2. x.role = "user" /\ x.turn = n /\ y.role = "assistant" /\ y.turn = n
    BY DEF Message
  <1>3. \A i \in 1..Len(h) : h[i].turn \in Nat
    <2>1. \A i \in 1..Len(h) : h[i] \in Turn
      OBVIOUS
    <2> QED BY <2>1 DEF Turn
  <1> HIDE DEF t
  <1>4. Len(h) % 2 = 0 /\ (Len(h) + 1) % 2 = 1 /\ (Len(h) + 2) % 2 = 0
    <2>1. Len(h) % 2 = 0
      BY DEF Dialogue
    <2> QED BY <1>1, <2>1, Parity
  <1>5. \A i \in 1..Len(t) : i \in 1..Len(h) \/ i = Len(h) + 1 \/ i = Len(h) + 2
    BY <1>1
  <1>6. \A i \in 1..Len(t) : t[i].role = Speaker(i)
    <2>1. \A i \in 1..Len(h) : t[i].role = Speaker(i)
      BY <1>1 DEF Dialogue
    <2>2. t[Len(h) + 1].role = Speaker(Len(h) + 1)
      BY <1>1, <1>2, <1>4 DEF Speaker
    <2>3. t[Len(h) + 2].role = Speaker(Len(h) + 2)
      BY <1>1, <1>2, <1>4 DEF Speaker
    <2> QED BY <1>5, <2>1, <2>2, <2>3
  <1>7. ASSUME NEW i \in 1..Len(t), NEW j \in 1..Len(t), i < j
        PROVE  Follows(t, i, j)
    <2>1. CASE j \in 1..Len(h)
      <3>1. i \in 1..Len(h)
        BY <1>1, <1>7, <2>1
      <3>2. Follows(h, i, j)
        BY <1>7, <2>1, <3>1 DEF Dialogue, Ordered
      <3> QED BY <1>1, <2>1, <3>1, <3>2 DEF Follows
    <2>2. CASE i \in 1..Len(h) /\ j \notin 1..Len(h)
      <3>1. t[j].turn = n
        BY <1>1, <1>2, <1>5, <2>2
      <3>2. h[i].turn < n
        BY <2>2 DEF Before
      <3> QED BY <1>1, <2>2, <3>1, <3>2 DEF Follows
    <2>3. CASE i \notin 1..Len(h)
      <3>1. i = Len(h) + 1 /\ j = Len(h) + 2
        BY <1>1, <1>5, <1>7, <2>3
      <3> QED BY <1>1, <1>2, <1>4, <3>1 DEF Follows
    <2> QED BY <1>1, <1>5, <1>7, <2>1, <2>2, <2>3
  <1>8. Dialogue(t)
    BY <1>1, <1>4, <1>6, <1>7 DEF Dialogue, Ordered
  <1>9. ASSUME NEW k \in Nat, n < k PROVE Before(t, k)
    BY <1>1, <1>2, <1>3, <1>5, <1>9 DEF Before
  <1> QED BY <1>8, <1>9 DEF t

\* The numbers of the messages keep the turns apart: what is in the history is older
\* than the turn in hand, and that is older than what waits in the inbox.
Asking == {"context", "llm", "tts"}
Waiting(h, q, turn, n) ==
    /\ \A i \in 1..Len(q) : /\ Before(h, q[i].turn)
                            /\ turn < q[i].turn
                            /\ q[i].turn <= n
    /\ \A i, j \in 1..Len(q) : i < j => q[i].turn < q[j].turn
Talking(h, q, c, n) ==
    /\ Dialogue(h)
    /\ Before(h, n + 1)
    /\ c.turn <= n
    /\ Waiting(h, q, c.turn, n)
    /\ c.pc \in Asking => Before(h, c.turn)
    /\ c.pc = "llm" => c.prompt = Prompt(h, c.turn)
Talk(s) == Talking(history[s], inbox[s], con[s], sent[s])

\* What the types of a connection say.
LEMMA TalkTyped ==
    ASSUME TypeOK, NEW s \in Sockets
    PROVE  /\ history[s] \in Seq(Turn)
           /\ con[s] \in Consumer /\ con[s].turn \in Nat /\ sent[s] \in Nat
           /\ inbox[s] \in Seq([kind : Inputs, turn : Nat])
           /\ Len(inbox[s]) \in Nat
           /\ \A i \in 1..Len(inbox[s]) : inbox[s][i].turn \in Nat
  <1>1. inbox[s] \in Seq([kind : Inputs, turn : Nat])
    BY DEF TypeOK
  <1>2. \A i \in 1..Len(inbox[s]) : inbox[s][i] \in [kind : Inputs, turn : Nat]
    BY <1>1, ElementOfSeq
  <1>3. con[s] \in Consumer
    BY DEF TypeOK
  <1>4. history[s] \in Seq(Turn) /\ sent[s] \in Nat
    BY DEF TypeOK, Turn
  <1> QED BY <1>1, <1>2, <1>3, <1>4 DEF Consumer

\* A step that asks the model nothing, and takes nothing in.
LEMMA TalkQuiet ==
    ASSUME TypeOK, NEW s \in Sockets, Talk(s),
           history'[s] = history[s], sent'[s] = sent[s],
           inbox'[s] = inbox[s] \/ inbox'[s] = <<>>,
           con'[s].pc \notin Asking,
           con'[s].turn = con[s].turn \/ con'[s].turn = 0
    PROVE  Talk(s)'
  <1>1. con'[s].turn <= sent[s] /\ \A n \in Nat : con[s].turn < n => con'[s].turn < n
    BY TalkTyped DEF Talk, Talking
  <1>2. Waiting(history'[s], inbox'[s], con'[s].turn, sent'[s])
    <2>1. CASE inbox'[s] = <<>>
      BY <2>1 DEF Waiting
    <2>2. CASE inbox'[s] = inbox[s]
      BY <1>1, <2>2, TalkTyped DEF Waiting, Talk, Talking
    <2> QED BY <2>1, <2>2
  <1> QED BY <1>1, <1>2 DEF Talk, Talking, Asking

\* The consumer takes the next message: the others are newer.
LEMMA TalkTake ==
    ASSUME TypeOK, NEW s \in Sockets, Talk(s),
           inbox[s] # <<>>, inbox'[s] = Tail(inbox[s])
    PROVE  /\ Before(history[s], Head(inbox[s]).turn)
           /\ Head(inbox[s]).turn <= sent[s] /\ Head(inbox[s]).turn \in Nat
           /\ \A i \in 1..Len(inbox'[s]) : /\ Before(history[s], inbox'[s][i].turn)
                                           /\ con[s].turn < inbox'[s][i].turn
                                           /\ Head(inbox[s]).turn < inbox'[s][i].turn
                                           /\ inbox'[s][i].turn <= sent[s]
           /\ \A i, j \in 1..Len(inbox'[s]) :
                 i < j => inbox'[s][i].turn < inbox'[s][j].turn
  <1> DEFINE q == inbox[s]  t == Tail(q)
  <1>1. q \in Seq([kind : Inputs, turn : Nat]) /\ q # <<>> /\ Len(q) \in Nat /\ Len(q) >= 1
    <2>1. q \in Seq([kind : Inputs, turn : Nat]) /\ q # <<>> /\ Len(q) \in Nat
      BY TalkTyped
    <2>2. Len(q) # 0
      BY <2>1, EmptySeq
    <2> QED BY <2>1, <2>2
  <1>2. Len(t) = Len(q) - 1 /\ \A i \in 1..Len(t) : t[i] = q[i + 1]
    BY <1>1, HeadTailProperties
  <1>3. Head(q) = q[1] /\ 1 \in 1..Len(q)
    BY <1>1
  <1>4. /\ \A i \in 1..Len(q) : /\ Before(history[s], q[i].turn)
                                /\ con[s].turn < q[i].turn
                                /\ q[i].turn <= sent[s]
                                /\ q[i].turn \in Nat
        /\ \A i, j \in 1..Len(q) : i < j => q[i].turn < q[j].turn
    BY TalkTyped DEF Talk, Talking, Waiting
  <1> HIDE DEF q, t
  <1>5. \A i \in 1..Len(t) : i + 1 \in 1..Len(q) /\ 1 < i + 1
    BY <1>1, <1>2
  <1>6. \A i, j \in 1..Len(t) : i < j => i + 1 < j + 1
    BY <1>1, <1>2
  <1>7. \A i \in 1..Len(t) : /\ Before(history[s], t[i].turn)
                             /\ con[s].turn < t[i].turn
                             /\ q[1].turn < t[i].turn
                             /\ t[i].turn <= sent[s]
    BY <1>2, <1>3, <1>4, <1>5
  <1>8. \A i, j \in 1..Len(t) : i < j => t[i].turn < t[j].turn
    BY <1>2, <1>4, <1>5, <1>6
  <1>9. inbox'[s] = t /\ inbox[s] = q
    BY DEF q, t
  <1> QED BY <1>3, <1>4, <1>7, <1>8, <1>9

LEMMA TalkReply ==
    ASSUME TypeOK, NEW s \in Sockets, Talk(s), Reply(s)
    PROVE  Talk(s)'
  <1>1. inbox[s] # <<>> /\ inbox'[s] = Tail(inbox[s]) /\ con'[s] = con[s]
        /\ history'[s] = history[s] /\ sent'[s] = sent[s] /\ con[s].pc = "ready"
    BY DEF Reply, Take, At, TypeOK
  <1>2. Waiting(history'[s], inbox'[s], con'[s].turn, sent'[s])
    BY <1>1, TalkTake DEF Waiting
  <1> QED BY <1>1, <1>2 DEF Talk, Talking, Asking

LEMMA TalkText ==
    ASSUME TypeOK, NEW s \in Sockets, Talk(s), TextInput(s)
    PROVE  Talk(s)'
  <1>1. inbox[s] # <<>> /\ inbox'[s] = Tail(inbox[s])
        /\ history'[s] = history[s] /\ sent'[s] = sent[s]
    BY DEF TextInput, Take, TypeOK
  <1>2. con'[s].pc = "context" /\ con'[s].turn = Head(inbox[s]).turn
    <2>1. con[s] \in Consumer
      BY TalkTyped
    <2> QED BY <2>1 DEF TextInput, TypeOK, Consumer
  <1>3. Waiting(history'[s], inbox'[s], con'[s].turn, sent'[s])
    BY <1>1, <1>2, TalkTake DEF Waiting
  <1>4. Before(history[s], con'[s].turn) /\ con'[s].turn <= sent[s]
    BY <1>1, <1>2, TalkTake
  <1> QED BY <1>1, <1>2, <1>3, <1>4 DEF Talk, Talking, Asking

\* The turn goes on: nothing but the consumer changes.
LEMMA TalkGoesOn ==
    ASSUME TypeOK, NEW s \in Sockets, Talk(s),
           history'[s] = history[s], sent'[s] = sent[s], inbox'[s] = inbox[s],
           con[s].pc \in Asking, con'[s].turn = con[s].turn,
           con'[s].pc = "llm" => con'[s].prompt = Prompt(history[s], con[s].turn)
    PROVE  Talk(s)'
  <1>1. Waiting(history'[s], inbox'[s], con'[s].turn, sent'[s])
    BY DEF Waiting, Talk, Talking
  <1> QED BY <1>1 DEF Talk, Talking, Asking

LEMMA TalkSucceeds ==
    ASSUME TypeOK, NEW s \in Sockets, Talk(s), con[s].pc \in Asking,
           sent'[s] = sent[s], inbox'[s] = inbox[s],
           NEW audio, NEW request, Succeed(s, audio, request)
    PROVE  Talk(s)'
  <1> DEFINE n == con[s].turn  h == history[s]
             x == Message("user", n)  y == Message("assistant", n)
  <1>1. n \in Nat /\ h \in Seq(Turn) /\ sent[s] \in Nat /\ con[s] \in Consumer
    BY TalkTyped
  <1>2. x \in Turn /\ y \in Turn
    BY <1>1 DEF Message, Turn
  <1>3. history'[s] = h \o <<x, y>>
    BY DEF Succeed, Exchange, TypeOK
  <1>4. Dialogue(h) /\ Before(h, n)
    BY DEF Talk, Talking
  <1>5. /\ Dialogue(h \o <<x, y>>)
        /\ \A k \in Nat : n < k => Before(h \o <<x, y>>, k)
    <2> HIDE DEF n, h
    <2>1. \A u, v \in Turn : u = x /\ v = y =>
             /\ Dialogue(h \o <<u, v>>)
             /\ \A k \in Nat : n < k => Before(h \o <<u, v>>, k)
      BY <1>1, <1>4, ExchangeDialogue
    <2> QED BY <1>2, <2>1
  <1>6. con'[s].pc = "text" /\ con'[s].turn = n
    BY <1>1 DEF Succeed, TypeOK, Consumer
  <1>7. n < sent[s] + 1 /\ sent[s] + 1 \in Nat
    BY <1>1 DEF Talk, Talking
  <1> HIDE DEF n, h, x, y
  <1>8. Dialogue(history'[s]) /\ Before(history'[s], sent[s] + 1)
    BY <1>3, <1>5, <1>7
  <1>9. \A i \in 1..Len(inbox[s]) : Before(history'[s], inbox[s][i].turn)
    BY <1>3, <1>5, TalkTyped DEF Talk, Talking, Waiting, n
  <1>10. Waiting(history'[s], inbox'[s], con'[s].turn, sent'[s])
    BY <1>6, <1>9 DEF Waiting, Talk, Talking, n
  <1> QED BY <1>6, <1>7, <1>8, <1>10
          DEF Talk, Talking, Asking, n

\* The other ways on: to a place that asks nothing, to the end of the turn, to death.
LEMMA TalkMoves ==
    ASSUME TypeOK, NEW s \in Sockets, Talk(s),
           history'[s] = history[s], sent'[s] = sent[s], inbox'[s] = inbox[s],
           NEW pc, pc \notin Asking, Goto(s, pc)
    PROVE  Talk(s)'
  <1>1. con'[s] = [con[s] EXCEPT !.pc = pc]
    BY DEF Goto, TypeOK
  <1>2. con'[s].pc = pc /\ con'[s].turn = con[s].turn
    BY <1>1, TalkTyped DEF Consumer
  <1> QED BY <1>2, TalkQuiet

LEMMA TalkRests ==
    ASSUME TypeOK, NEW s \in Sockets, Talk(s),
           history'[s] = history[s], sent'[s] = sent[s], inbox'[s] = inbox[s], Rest(s)
    PROVE  Talk(s)'
  <1>1. con'[s].pc = "ready" /\ con'[s].turn = 0
    BY DEF Rest, Fresh, TypeOK
  <1> QED BY <1>1, TalkQuiet DEF Asking

LEMMA TalkDies ==
    ASSUME TypeOK, NEW s \in Sockets, Talk(s), Die(s)
    PROVE  Talk(s)'
  <1>1. con'[s].pc = "killed" /\ con'[s].turn = 0
    BY DEF Die, Gone, Fresh, TypeOK
  <1>2. history'[s] = history[s] /\ sent'[s] = sent[s] /\ inbox'[s] = <<>>
    BY DEF Die, Gone, TypeOK
  <1> QED BY <1>1, <1>2, TalkQuiet DEF Asking

LEMMA TalkReceive ==
    ASSUME TypeOK, NEW s \in Sockets, Talk(s), Receive(s)
    PROVE  Talk(s)'
  <1>0. con[s] \in Consumer
    BY TalkTyped
  <1>1. CASE Reply(s)
    BY <1>1, TalkReply
  <1>2. CASE TextInput(s)
    BY <1>2, TalkText
  <1>3. CASE AudioInput(s) \/ ContextFails(s)
    BY <1>3, TalkDies DEF AudioInput, ContextFails
  <1>4. CASE GuestContext(s)
    <2>1. con[s].pc = "context" /\ history'[s] = history[s] /\ sent'[s] = sent[s]
          /\ inbox'[s] = inbox[s]
      BY <1>4 DEF GuestContext, At, client
    <2>2. con'[s].turn = con[s].turn /\ con'[s].pc = "llm"
          /\ con'[s].prompt = Prompt(history[s], con[s].turn)
      BY <1>0, <1>4 DEF GuestContext, TypeOK, Consumer
    <2> QED BY <2>1, <2>2, TalkGoesOn DEF Asking
  <1>5. CASE AgentFails(s)
    <2>1. history'[s] = history[s] /\ sent'[s] = sent[s] /\ inbox'[s] = inbox[s] /\ Rest(s)
      BY <1>5 DEF AgentFails, client
    <2> QED BY <2>1, TalkRests
  <1>6. ASSUME NEW a \in Answer, Answered(s, a)
        PROVE  Talk(s)'
    BY <1>6, TalkSucceeds DEF Answered, At, Asking, client
  <1>7. ASSUME NEW a \in Answer, ToSpeech(s, a)
        PROVE  Talk(s)'
    <2>1. con[s].pc = "llm" /\ history'[s] = history[s] /\ sent'[s] = sent[s]
          /\ inbox'[s] = inbox[s]
      BY <1>7 DEF ToSpeech, At, client
    <2>2. con'[s].turn = con[s].turn /\ con'[s].pc = "tts"
      BY <1>0, <1>7 DEF ToSpeech, TypeOK, Consumer
    <2> QED BY <2>1, <2>2, TalkGoesOn DEF Asking
  <1>8. CASE Spoken(s)
    BY <1>8, TalkSucceeds DEF Spoken, At, Asking, client
  <1>9. CASE SendFrame(s)
    <2>1. history'[s] = history[s] /\ sent'[s] = sent[s] /\ inbox'[s] = inbox[s]
      BY <1>9 DEF SendFrame, client
    <2>2. CASE Rest(s)
      BY <2>1, <2>2, TalkRests
    <2>3. CASE Goto(s, "audio") \/ Goto(s, "request")
      BY <2>1, <2>3, TalkMoves DEF Asking
    <2> QED BY <1>9, <2>2, <2>3 DEF SendFrame, Continue
  <1> QED BY <1>1, <1>2, <1>3, <1>4, <1>5, <1>6, <1>7, <1>8, <1>9 DEF Receive

LEMMA TalkConnection ==
    ASSUME TypeOK, NEW s \in Sockets, Talk(s), Connect(s) \/ Disconnect(s)
    PROVE  Talk(s)'
  <1>1. CASE Cancelled(s)
    BY <1>1, TalkDies DEF Cancelled
  <1>2. CASE Connect(s) \/ Discard(s) \/ CountOut(s)
    <2>1. history'[s] = history[s] /\ sent'[s] = sent[s] /\ inbox'[s] = inbox[s]
      BY <1>2 DEF Connect, Open, Refuse, Authenticate, Join, Accept, Announce, Discard,
                  CountOut, client
    <2>2. CASE Announce(s)
      BY <2>1, <2>2, TalkRests DEF Announce
    <2>3. CASE Accept(s)
      <3>1. con'[s].turn = con[s].turn /\ con'[s].pc = "announce"
        BY <2>3, TalkTyped DEF Accept, TypeOK, Consumer
      <3> QED BY <2>1, <3>1, TalkQuiet DEF Asking
    <2>4. CASE ~Announce(s) /\ ~Accept(s)
      <3>1. PICK pc \in Phases \ Asking : Goto(s, pc)
        BY <1>2, <2>4 DEF Connect, Open, Refuse, Authenticate, Join, Discard, CountOut,
                          Phases, Connecting, Over, Asking
      <3> QED BY <2>1, <3>1, TalkMoves
    <2> QED BY <2>2, <2>3, <2>4
  <1> QED BY <1>1, <1>2 DEF Disconnect

LEMMA TalkOutside ==
    ASSUME TypeOK, NEW s \in Sockets, Talk(s), Outside
    PROVE  Talk(s)'
  <1>1. con' = con /\ history' = history
    BY DEF Outside, Client, ClientSends, ClientLeaves, Gone, Notify, Expire, Push
  <1>2. CASE inbox'[s] = inbox[s] /\ sent'[s] = sent[s]
    BY <1>1, <1>2 DEF Talk
  <1>3. ASSUME NEW kind \in Inputs, ClientSends(s, kind)
        PROVE  Talk(s)'
    <2> DEFINE m == [kind |-> kind, turn |-> sent[s] + 1]  q == inbox[s]  h == history[s]
    <2>1. inbox'[s] = Append(q, m) /\ sent'[s] = sent[s] + 1
      BY <1>3 DEF ClientSends, TypeOK
    <2>2. m.turn = sent[s] + 1 /\ sent[s] \in Nat /\ q \in Seq([kind : Inputs, turn : Nat])
      BY TalkTyped
    <2>3. /\ Len(Append(q, m)) = Len(q) + 1 /\ Len(q) \in Nat
          /\ \A i \in 1..Len(q) : Append(q, m)[i] = q[i]
          /\ Append(q, m)[Len(q) + 1] = m
      BY <2>2
    <2>4. /\ \A i \in 1..Len(q) : /\ Before(h, q[i].turn)
                                  /\ con[s].turn < q[i].turn
                                  /\ q[i].turn <= sent[s]
                                  /\ q[i].turn \in Nat
          /\ \A i, j \in 1..Len(q) : i < j => q[i].turn < q[j].turn
      BY TalkTyped DEF Talk, Talking, Waiting
    <2>5. /\ Dialogue(h) /\ Before(h, sent[s] + 1)
          /\ con[s].turn <= sent[s] /\ con[s].turn \in Nat
      BY TalkTyped DEF Talk, Talking
    <2>6. h \in Seq(Turn) /\ \A i \in 1..Len(h) : h[i].turn \in Nat
      <3>1. \A i \in 1..Len(h) : h[i] \in Turn
        BY TalkTyped
      <3> QED BY <3>1, TalkTyped DEF Turn
    <2> HIDE DEF m, q, h
    <2>7. \A i \in 1..Len(inbox'[s]) : i \in 1..Len(q) \/ i = Len(q) + 1
      BY <2>1, <2>3
    <2>8. \A i \in 1..Len(inbox'[s]) : /\ Before(h, inbox'[s][i].turn)
                                       /\ con[s].turn < inbox'[s][i].turn
                                       /\ inbox'[s][i].turn <= sent[s] + 1
      BY <2>1, <2>2, <2>3, <2>4, <2>5, <2>7
    <2>9. \A i, j \in 1..Len(inbox'[s]) : i < j => inbox'[s][i].turn < inbox'[s][j].turn
      BY <2>1, <2>2, <2>3, <2>4, <2>7
    <2>10. Before(h, sent[s] + 2) /\ con[s].turn <= sent[s] + 1
      BY <2>2, <2>5, <2>6 DEF Before
    <2>11. con'[s] = con[s] /\ history'[s] = h /\ history[s] = h
      BY <1>1 DEF h
    <2>12. Waiting(history'[s], inbox'[s], con'[s].turn, sent'[s])
      BY <2>8, <2>9, <2>1, <2>11 DEF Waiting
    <2>13. (sent[s] + 1) + 1 = sent[s] + 2
      BY <2>2
    <2> QED BY <2>1, <2>10, <2>11, <2>12, <2>13
            DEF Talk, Talking, Asking
  <1>4. ASSUME ~\E kind \in Inputs : ClientSends(s, kind)
        PROVE  inbox'[s] = inbox[s] /\ sent'[s] = sent[s]
    <2>1. ASSUME NEW r \in Sockets, NEW kind \in Inputs, r # s, ClientSends(r, kind)
          PROVE  inbox'[s] = inbox[s] /\ sent'[s] = sent[s]
      BY <2>1 DEF ClientSends, TypeOK
    <2>2. ASSUME NEW r \in Sockets, ClientLeaves(r) \/ Notify(r) \/ Expire(r)
          PROVE  inbox'[s] = inbox[s] /\ sent'[s] = sent[s]
      BY <2>2 DEF ClientLeaves, Gone, Notify, Expire, client
    <2>3. CASE Push
      BY <2>3 DEF Push, client
    <2> QED BY <1>4, <2>1, <2>2, <2>3 DEF Outside, Client
  <1> QED BY <1>2, <1>3, <1>4

LEMMA TalkInvariant == Spec => [](\A s \in Sockets : Talk(s))
  <1> DEFINE Good == \A s \in Sockets : Talk(s)
  <1>1. Init => Good
    <2> SUFFICES ASSUME Init, NEW s \in Sockets PROVE Talk(s)
      OBVIOUS
    <2>1. history[s] = <<>> /\ inbox[s] = <<>> /\ sent[s] = 0 /\ con[s] = Fresh
      BY DEF Init
    <2>2. Fresh.turn = 0 /\ Fresh.pc = "new"
      BY DEF Fresh
    <2> QED BY <2>1, <2>2 DEF Talk, Talking, Waiting, Dialogue, Ordered, Before, Asking
  <1>2. Good /\ TypeOK /\ [Next]_vars => Good'
    <2> SUFFICES ASSUME Good, TypeOK, [Next]_vars, NEW r \in Sockets PROVE Talk(r)'
      OBVIOUS
    <2>1. ASSUME NEW s \in Sockets, Connect(s) \/ Disconnect(s) \/ Receive(s), r # s
          PROVE  Talk(r)'
      BY <2>1, OthersStay DEF Talk
    <2>2. ASSUME NEW s \in Sockets, Connect(s) \/ Disconnect(s) \/ Receive(s), r = s
          PROVE  Talk(r)'
      BY <2>2, TalkConnection, TalkReceive
    <2>3. CASE Outside
      BY <2>3, TalkOutside
    <2>4. CASE UNCHANGED vars
      BY <2>4 DEF vars, client, Talk
    <2> QED BY <2>1, <2>2, <2>3, <2>4, Steps
  <1> HIDE DEF Good
  <1>3. Good => \A s \in Sockets : Talk(s)
    BY DEF Good
  <1> QED BY <1>1, <1>2, <1>3, TypeCorrect, PTL DEF Spec

\* The model is shown whole exchanges, in order, and then the new message, whatever
\* failed before and wherever the window cuts: for any even window, as the ten messages
\* of the code (voice_agent.py:117-123, consumers.py:110-113).
THEOREM ModelSeesDialogue == Spec => []PromptAlternates
  <1>1. (\A s \in Sockets : Talk(s)) /\ TypeOK => PromptAlternates
    <2> SUFFICES ASSUME \A s \in Sockets : Talk(s), TypeOK,
                        NEW s \in Sockets, At(s, "llm")
                 PROVE  LET p == con[s].prompt IN
                        /\ \A i \in 1..Len(p) : p[i].role = Speaker(i)
                        /\ Ordered(p)
                        /\ p[Len(p)] = Message("user", con[s].turn)
      BY DEF PromptAlternates, Speaker, Ordered, Follows
    <2>1. con[s].prompt = Prompt(history[s], con[s].turn)
      BY DEF Talk, Talking, At
    <2>2. Dialogue(history[s]) /\ Before(history[s], con[s].turn)
      BY DEF Talk, Talking, At, Asking
    <2>3. history[s] \in Seq(Turn) /\ con[s].turn \in Nat
      BY TalkTyped
    <2> QED BY <2>1, <2>2, <2>3, PromptDialogue
  <1> QED BY <1>1, TalkInvariant, TypeCorrect, PTL

(***************************************************************************)
(* Part 5.  The client sees an exchange it can follow.                     *)
(***************************************************************************)

\* The frames of one client, read on their own.
InOrder(o) ==
    /\ \A i \in DOMAIN o : (o[i].kind = "connected") <=> (i = 1)
    /\ \A i, j \in DOMAIN o : /\ o[i].kind \in Answers /\ o[j].kind \in Answers
                             /\ o[i].turn = o[j].turn
                             => i = j
    /\ \A i \in DOMAIN o : o[i].kind \in {"audio", "request"} =>
          /\ o[i - 1].kind \in {"text", "audio"}
          /\ o[i - 1].turn = o[i].turn

\* Only turns before the n-th are answered.
Below(o, n) == \A i \in DOMAIN o : o[i].kind \in Answers => o[i].turn < n
LastIs(o, kinds, n) == o[Len(o)].kind \in kinds /\ o[Len(o)].turn = n

\* The turns not answered yet are newer than those that were: in the consumer until
\* their text is sent, in the inbox, and still to come.  As long as the client is
\* there, what follows the text finds it, or the audio, right before.
Pending == {"context", "llm", "tts", "text"}
Showing(o, q, c, n, present) ==
    /\ InOrder(o)
    /\ Below(o, n + 1)
    /\ \A j \in 1..Len(q) : Below(o, q[j].turn)
    /\ c.pc \in Pending => Below(o, c.turn)
    /\ present /\ c.pc \in {"ready"} \cup Busy => o # <<>>
    /\ present /\ c.pc = "audio" => LastIs(o, {"text"}, c.turn)
    /\ present /\ c.pc = "request" => LastIs(o, {"text", "audio"}, c.turn)
Shown(s) == Showing(out[s], inbox[s], con[s], sent[s], here[s])

\* One more frame.
LEMMA InOrderAppend ==
    ASSUME NEW o \in Seq(Frame), NEW f \in Frame, o # <<>>, InOrder(o),
           f.kind # "connected",
           f.kind \in Answers => Below(o, f.turn),
           f.kind \in {"audio", "request"} => LastIs(o, {"text", "audio"}, f.turn)
    PROVE  /\ InOrder(Append(o, f))
           /\ \A k \in Nat : Below(o, k) /\ (f.kind \in Answers => f.turn < k)
                              => Below(Append(o, f), k)
           /\ Append(o, f) # <<>> /\ LastIs(Append(o, f), {f.kind}, f.turn)
  <1> DEFINE p == Append(o, f)  n == Len(o)
  <1>1. n \in Nat /\ n # 0 /\ DOMAIN o = 1..n
    BY EmptySeq
  <1>2. /\ Len(p) = n + 1 /\ DOMAIN p = 1..n + 1
        /\ \A i \in 1..n : p[i] = o[i]
        /\ p[n + 1] = f
        /\ p # <<>>
    BY <1>1
  <1>3. \A i \in 1..n : o[i].turn \in Nat
    <2>1. \A i \in 1..n : o[i] \in Frame
      BY <1>1, ElementOfSeq
    <2> QED BY <2>1 DEF Frame
  <1> HIDE DEF p, n
  <1>4. \A i \in 1..n + 1 : (p[i].kind = "connected") <=> (i = 1)
    BY <1>1, <1>2 DEF InOrder
  <1>5. ASSUME NEW i \in 1..n + 1, NEW j \in 1..n + 1, p[i].kind \in Answers,
               p[j].kind \in Answers, p[i].turn = p[j].turn
        PROVE  i = j
    <2>1. \A k \in 1..n : o[k].kind \in Answers /\ f.kind \in Answers => o[k].turn < f.turn
      BY <1>1 DEF Below
    <2>2. f.turn \in Nat
      BY DEF Frame
    <2>3. CASE i \in 1..n /\ j \in 1..n
      BY <1>1, <1>2, <1>5, <2>3 DEF InOrder
    <2>4. CASE i \in 1..n /\ j = n + 1
      BY <1>2, <1>3, <1>5, <2>1, <2>2, <2>4
    <2>5. CASE i = n + 1 /\ j \in 1..n
      BY <1>2, <1>3, <1>5, <2>1, <2>2, <2>5
    <2> QED BY <1>1, <2>3, <2>4, <2>5
  <1>6. ASSUME NEW i \in 1..n + 1, p[i].kind \in {"audio", "request"}
        PROVE  p[i - 1].kind \in {"text", "audio"} /\ p[i - 1].turn = p[i].turn
    <2>1. CASE i = n + 1
      <3>1. (n + 1) - 1 = n /\ n \in 1..n
        BY <1>1
      <3> QED BY <1>2, <1>6, <2>1, <3>1 DEF LastIs, n
    <2>2. CASE i \in 1..n
      <3>1. o[i].kind \in {"audio", "request"} /\ i # 1
        BY <1>1, <1>2, <1>6, <2>2 DEF InOrder
      <3>2. i - 1 \in 1..n
        BY <1>1, <2>2, <3>1
      <3> QED BY <1>1, <1>2, <2>2, <3>1, <3>2 DEF InOrder
    <2> QED BY <1>1, <2>1, <2>2
  <1>7. InOrder(p)
    BY <1>2, <1>4, <1>5, <1>6 DEF InOrder
  <1>8. ASSUME NEW k \in Nat, Below(o, k), f.kind \in Answers => f.turn < k
        PROVE  Below(p, k)
    BY <1>1, <1>2, <1>8 DEF Below
  <1>9. LastIs(p, {f.kind}, f.turn)
    BY <1>2 DEF LastIs
  <1> QED BY <1>2, <1>7, <1>8, <1>9 DEF p

\* A frame sent to a client that may have gone.
LEMMA ShownSend ==
    ASSUME TypeOK, NEW s \in Sockets, Shown(s), con[s].pc \in {"ready"} \cup Busy,
           NEW kind \in {"text", "audio", "request", "error", "reply", "notification"},
           NEW n \in Nat, Send(s, kind, n),
           kind \in Answers => Below(out[s], n),
           kind \in {"audio", "request"} /\ here[s] => LastIs(out[s], {"text", "audio"}, n)
    PROVE  /\ InOrder(out'[s])
           /\ \A k \in Nat : Below(out[s], k) /\ (kind \in Answers => n < k)
                              => Below(out'[s], k)
           /\ here[s] => out'[s] # <<>> /\ LastIs(out'[s], {kind}, n)
  <1> DEFINE f == [kind |-> kind, turn |-> n]
  <1>1. f \in Frame /\ f.kind = kind /\ f.turn = n
    BY DEF Frame
  <1>2. out[s] \in Seq(Frame) /\ out'[s] = IF here[s] THEN Append(out[s], f) ELSE out[s]
    BY DEF TypeOK, Send
  <1>3. InOrder(out[s]) /\ (here[s] => out[s] # <<>>)
    BY DEF Shown, Showing
  <1> HIDE DEF f
  <1>4. CASE here[s]
    BY <1>1, <1>2, <1>3, <1>4, InOrderAppend
  <1>5. CASE ~here[s]
    BY <1>2, <1>3, <1>5
  <1> QED BY <1>4, <1>5

\* The answers to turns before one are before every later one.
LEMMA BelowLater ==
    ASSUME NEW o \in Seq(Frame), NEW n \in Nat, NEW m \in Nat, n <= m, Below(o, n)
    PROVE  Below(o, m)
  <1>1. \A i \in DOMAIN o : o[i].turn \in Nat
    <2>1. \A i \in DOMAIN o : o[i] \in Frame
      BY ElementOfSeq
    <2> QED BY <2>1 DEF Frame
  <1> QED BY <1>1 DEF Below

\* A step that shows the client nothing, and leaves the turn in hand where it was or
\* drops it.
LEMMA ShownQuiet ==
    ASSUME NEW s \in Sockets, Shown(s),
           out'[s] = out[s], sent'[s] = sent[s],
           inbox'[s] = inbox[s] \/ inbox'[s] = <<>>,
           con'[s].pc \in Pending => con[s].pc \in Pending /\ con'[s].turn = con[s].turn,
           here'[s] /\ con'[s].pc \in {"ready"} \cup Busy =>
              here[s] /\ con[s].pc \in {"ready"} \cup Busy,
           con'[s].pc \notin {"audio", "request"}
    PROVE  Shown(s)'
  <1>1. \A j \in 1..Len(inbox'[s]) : Below(out[s], inbox'[s][j].turn)
    <2>1. CASE inbox'[s] = <<>>
      BY <2>1
    <2>2. CASE inbox'[s] = inbox[s]
      BY <2>2 DEF Shown, Showing
    <2> QED BY <2>1, <2>2
  <1> QED BY <1>1 DEF Shown, Showing

\* Getting in: the first frame of all is "connected".
LEMMA ShownConnect ==
    ASSUME TypeOK, NEW s \in Sockets, Staged(s), Shown(s), Connect(s)
    PROVE  Shown(s)'
  <1>0. con[s] \in Consumer
    BY DEF TypeOK
  <1>1. sent'[s] = sent[s] /\ inbox'[s] = inbox[s]
    BY DEF Connect, Open, Refuse, Authenticate, Join, Accept, Announce, client
  <1>2. CASE Announce(s)
    <2> DEFINE f == [kind |-> "connected", turn |-> 0]
    <2>1. out[s] = <<>> /\ here' = here
      BY <1>2 DEF Announce, Staged, At, client
    <2>2. out'[s] = IF here[s] THEN <<f>> ELSE <<>>
      BY <1>2, <2>1 DEF Announce, Send, TypeOK
    <2>3. con'[s].pc = "ready"
      BY <1>2, Ends DEF Announce
    <2>4. InOrder(out'[s]) /\ \A k : Below(out'[s], k)
      <3>1. f.kind = "connected"
        OBVIOUS
      <3> HIDE DEF f
      <3> QED BY <2>2, <3>1 DEF InOrder, Below, Answers
    <2>5. here'[s] => out'[s] # <<>>
      BY <2>1, <2>2
    <2> HIDE DEF f
    <2> QED BY <2>3, <2>4, <2>5 DEF Shown, Showing, Pending
  <1>3. CASE ~Announce(s)
    <2>1. out'[s] = out[s]
      BY <1>3 DEF Connect, Open, Refuse, Authenticate, Join, Accept
    <2>2. con'[s].pc \in {"authenticate", "refused", "join", "accept", "announce"}
      <3>1. CASE Accept(s)
        <4>1. con'[s] = [con[s] EXCEPT !.pc = "announce", !.accepted = TRUE]
          BY <3>1 DEF Accept, TypeOK
        <4> QED BY <1>0, <4>1 DEF Consumer
      <3> QED BY <1>3, <3>1, Ends DEF Connect, Open, Refuse, Authenticate, Join
    <2> QED BY <1>1, <2>1, <2>2, ShownQuiet DEF Pending, Busy
  <1> QED BY <1>2, <1>3

LEMMA ShownDies ==
    ASSUME TypeOK, NEW s \in Sockets, Shown(s), Die(s)
    PROVE  Shown(s)'
  <1>1. con'[s].pc = "killed"
    BY Ends
  <1>2. sent'[s] = sent[s] /\ inbox'[s] = <<>> /\ out'[s] = out[s] /\ ~here'[s]
    BY DEF Die, Gone, TypeOK
  <1> QED BY <1>1, <1>2, ShownQuiet DEF Pending

LEMMA ShownDisconnect ==
    ASSUME TypeOK, NEW s \in Sockets, Shown(s), Disconnect(s)
    PROVE  Shown(s)'
  <1>1. CASE Cancelled(s)
    BY <1>1, ShownDies DEF Cancelled
  <1>2. CASE Discard(s) \/ CountOut(s)
    <2>1. con'[s].pc \in {"leave", "closed"}
      BY <1>2, Ends DEF Discard, CountOut
    <2>2. sent'[s] = sent[s] /\ inbox'[s] = inbox[s] /\ out'[s] = out[s]
      BY <1>2 DEF Discard, CountOut, client
    <2> QED BY <2>1, <2>2, ShownQuiet DEF Pending, Busy
  <1> QED BY <1>1, <1>2 DEF Disconnect

\* A ping or a bad message is answered at once, a text turn is taken in hand.
LEMMA ShownTake ==
    ASSUME TypeOK, NEW s \in Sockets, Talk(s), Shown(s), Reply(s) \/ TextInput(s)
    PROVE  Shown(s)'
  <1> DEFINE n == Head(inbox[s]).turn
  <1>1. /\ inbox[s] # <<>> /\ inbox'[s] = Tail(inbox[s])
        /\ sent'[s] = sent[s] /\ here'[s] = here[s] /\ con[s].pc = "ready"
    BY DEF Reply, TextInput, Take, At, TypeOK
  <1>2. con[s] \in Consumer /\ inbox[s] \in Seq([kind : Inputs, turn : Nat])
        /\ sent[s] \in Nat
    BY TalkTyped
  <1>3. /\ n \in Nat /\ n <= sent[s]
        /\ \A i \in 1..Len(inbox'[s]) : n < inbox'[s][i].turn
    BY <1>1, TalkTake
  <1>4. /\ n = inbox[s][1].turn /\ 1 \in 1..Len(inbox[s])
        /\ \A i \in 1..Len(inbox'[s]) : /\ inbox'[s][i] = inbox[s][i + 1]
                                        /\ i + 1 \in 1..Len(inbox[s])
                                        /\ inbox'[s][i].turn \in Nat
    <2>1. Len(inbox[s]) \in Nat /\ Len(inbox[s]) # 0
      BY <1>1, <1>2, EmptySeq
    <2>2. /\ Len(inbox'[s]) = Len(inbox[s]) - 1
          /\ \A i \in 1..Len(inbox'[s]) : inbox'[s][i] = inbox[s][i + 1]
      BY <1>1, <1>2, HeadTailProperties
    <2>3. \A i \in 1..Len(inbox[s]) : inbox[s][i].turn \in Nat
      BY TalkTyped
    <2>4. Head(inbox[s]) = inbox[s][1] /\ 1 \in 1..Len(inbox[s])
      BY <1>2, <2>1, HeadTailProperties
    <2>5. \A i \in 1..Len(inbox'[s]) : i + 1 \in 1..Len(inbox[s])
      BY <2>1, <2>2
    <2> QED BY <2>2, <2>3, <2>4, <2>5
  <1>5. Below(out[s], n) /\ \A j \in 1..Len(inbox'[s]) : Below(out[s], inbox'[s][j].turn)
    BY <1>4 DEF Shown, Showing
  <1> HIDE DEF n
  <1>6. CASE Reply(s)
    <2>1. PICK kind \in {"reply", "error"} : Send(s, kind, n)
      BY <1>6 DEF Reply, n
    <2>2. /\ InOrder(out'[s])
          /\ \A k \in Nat : Below(out[s], k) /\ n < k => Below(out'[s], k)
          /\ here[s] => out'[s] # <<>>
      BY <1>1, <1>3, <1>5, <2>1, ShownSend DEF Answers
    <2>3. con'[s] = con[s]
      BY <1>6 DEF Reply
    <2>4. Below(out'[s], sent[s] + 1)
      <3>1. Below(out[s], sent[s] + 1) /\ sent[s] + 1 \in Nat /\ n < sent[s] + 1
        BY <1>2, <1>3 DEF Shown, Showing
      <3> QED BY <2>2, <3>1
    <2>5. \A j \in 1..Len(inbox'[s]) : Below(out'[s], inbox'[s][j].turn)
      BY <1>3, <1>4, <1>5, <2>2
    <2> QED BY <1>1, <2>2, <2>3, <2>4, <2>5 DEF Shown, Showing, Pending
  <1>7. CASE TextInput(s)
    <2>1. out'[s] = out[s]
      BY <1>7 DEF TextInput
    <2>2. con'[s].pc = "context" /\ con'[s].turn = n
      BY <1>2, <1>7 DEF TextInput, TypeOK, Consumer, n
    <2> QED BY <1>1, <1>5, <2>1, <2>2 DEF Shown, Showing, Busy
  <1> QED BY <1>6, <1>7

\* An answer to the turn in hand is the only one.
LEMMA ShownAnswer ==
    ASSUME TypeOK, NEW s \in Sockets, Talk(s), Shown(s), con[s].pc \in Pending,
           NEW kind \in {"text", "error"}, Send(s, kind, con[s].turn),
           sent'[s] = sent[s], inbox'[s] = inbox[s], here'[s] = here[s],
           \/ con'[s].pc = "ready"
           \/ /\ con'[s].pc \in {"audio", "request"}
              /\ con'[s].turn = con[s].turn /\ kind = "text"
    PROVE  Shown(s)'
  <1> DEFINE n == con[s].turn
  <1>1. /\ n \in Nat /\ sent[s] + 1 \in Nat /\ n < sent[s] + 1
        /\ \A j \in 1..Len(inbox[s]) : inbox[s][j].turn \in Nat /\ n < inbox[s][j].turn
    BY TalkTyped DEF Talk, Talking, Waiting
  <1>2. Below(out[s], n)
    BY DEF Shown, Showing
  <1>3. con[s].pc \in {"ready"} \cup Busy
    BY DEF Pending, Busy
  <1>4. /\ InOrder(out'[s])
        /\ \A k \in Nat : Below(out[s], k) /\ n < k => Below(out'[s], k)
        /\ here[s] => out'[s] # <<>> /\ LastIs(out'[s], {kind}, n)
    <2> HIDE DEF n
    <2>1. Send(s, kind, n)
      BY DEF n
    <2> QED BY <1>1, <1>2, <1>3, <2>1, ShownSend
  <1>5. /\ Below(out'[s], sent'[s] + 1)
        /\ \A j \in 1..Len(inbox'[s]) : Below(out'[s], inbox'[s][j].turn)
    <2>1. Below(out[s], sent[s] + 1) /\ \A j \in 1..Len(inbox[s]) : Below(out[s], inbox[s][j].turn)
      BY DEF Shown, Showing
    <2> QED BY <1>1, <1>4, <2>1
  <1>6. here[s] /\ kind = "text" => /\ LastIs(out'[s], {"text"}, n)
                                   /\ LastIs(out'[s], {"text", "audio"}, n)
    BY <1>4 DEF LastIs
  <1> QED BY <1>4, <1>5, <1>6 DEF Shown, Showing, Pending

\* What goes with an answer follows it at once.
LEMMA ShownSendFrame ==
    ASSUME TypeOK, NEW s \in Sockets, Talk(s), Shown(s), SendFrame(s)
    PROVE  Shown(s)'
  <1> DEFINE n == con[s].turn
  <1>1. /\ con[s] \in Consumer /\ n \in Nat
        /\ sent'[s] = sent[s] /\ inbox'[s] = inbox[s] /\ here'[s] = here[s]
    BY TalkTyped DEF SendFrame, client
  <1>2. \/ con'[s].pc = "ready"
        \/ con'[s].pc \in {"audio", "request"} /\ con'[s].turn = n
    <2>1. Rest(s) \/ Goto(s, "audio") \/ Goto(s, "request")
      BY DEF SendFrame, Continue
    <2>2. ASSUME NEW pc, Goto(s, pc) PROVE con'[s].turn = n
      <3>1. con'[s] = [con[s] EXCEPT !.pc = pc]
        BY <2>2 DEF Goto, TypeOK
      <3> QED BY <1>1, <3>1 DEF Consumer
    <2> QED BY <2>1, <2>2, Ends
  <1>3. CASE con[s].pc = "text"
    <2>1. Send(s, "text", n)
      BY <1>3 DEF SendFrame
    <2> QED BY <1>1, <1>2, <1>3, <2>1, ShownAnswer DEF Pending
  <1>4. CASE con[s].pc \in {"audio", "request"}
    <2> DEFINE kind == con[s].pc
    <2>1. Send(s, kind, n) /\ kind \notin Answers
      BY <1>4 DEF SendFrame, Answers
    <2>2. here[s] => LastIs(out[s], {"text", "audio"}, n)
      BY <1>4 DEF Shown, Showing, LastIs
    <2>3. /\ InOrder(out'[s])
          /\ \A k \in Nat : Below(out[s], k) => Below(out'[s], k)
          /\ here[s] => out'[s] # <<>> /\ LastIs(out'[s], {kind}, n)
      <3>1. kind \in {"audio", "request"} /\ con[s].pc \in {"ready"} \cup Busy
        BY <1>4 DEF Busy
      <3> HIDE DEF kind
      <3>2. kind \in {"text", "audio", "request", "error", "reply", "notification"}
        BY <3>1
      <3> QED BY <1>1, <2>1, <2>2, <3>1, <3>2, ShownSend
    <2>4. con'[s].pc \in {"ready", "request"} /\ (con'[s].pc = "request" => kind = "audio")
      <3>1. CASE con[s].pc = "audio"
        <4>1. Continue(s, Wanted(s) \ {"audio"})
          BY <3>1 DEF SendFrame, At
        <4>2. Rest(s) \/ Goto(s, "request")
          BY <4>1 DEF Continue
        <4> QED BY <3>1, <4>2, Ends
      <3>2. CASE con[s].pc = "request"
        <4>1. Continue(s, {})
          BY <3>2 DEF SendFrame, At
        <4> QED BY <4>1, Ends DEF Continue
      <3> QED BY <1>4, <3>1, <3>2
    <2>5. /\ Below(out'[s], sent'[s] + 1)
          /\ \A j \in 1..Len(inbox'[s]) : Below(out'[s], inbox'[s][j].turn)
      BY <1>1, <2>3, TalkTyped DEF Shown, Showing
    <2>6. here[s] /\ con'[s].pc = "request" => LastIs(out'[s], {"text", "audio"}, con'[s].turn)
      BY <1>2, <2>3, <2>4 DEF LastIs
    <2> QED BY <1>1, <2>3, <2>4, <2>5, <2>6 DEF Shown, Showing, Pending
  <1> QED BY <1>3, <1>4 DEF SendFrame

LEMMA ShownReceive ==
    ASSUME TypeOK, NEW s \in Sockets, Talk(s), Shown(s), Receive(s)
    PROVE  Shown(s)'
  <1>0. con[s] \in Consumer
    BY TalkTyped
  <1>1. CASE Reply(s) \/ TextInput(s)
    BY <1>1, ShownTake
  <1>2. CASE AudioInput(s) \/ ContextFails(s)
    BY <1>2, ShownDies DEF AudioInput, ContextFails
  <1>3. CASE AgentFails(s)
    <2>1. con[s].pc \in Pending /\ con'[s].pc = "ready"
      BY <1>3, Ends DEF AgentFails, Pending
    <2>2. Send(s, "error", con[s].turn) /\ UNCHANGED client
      BY <1>3 DEF AgentFails
    <2> QED BY <2>1, <2>2, ShownAnswer DEF client
  <1>4. CASE SendFrame(s)
    BY <1>4, ShownSendFrame
  <1>5. ASSUME NEW a \in Answer,
               GuestContext(s) \/ Answered(s, a) \/ ToSpeech(s, a) \/ Spoken(s)
        PROVE  Shown(s)'
    <2>1. con[s].pc \in {"context", "llm", "tts"} /\ out'[s] = out[s] /\ UNCHANGED client
      BY <1>5 DEF GuestContext, Answered, ToSpeech, Spoken, At
    <2>2. con'[s].pc \in {"llm", "tts", "text"} /\ con'[s].turn = con[s].turn
      BY <1>0, <1>5 DEF GuestContext, Answered, ToSpeech, Spoken, Succeed, TypeOK, Consumer
    <2> QED BY <2>1, <2>2, ShownQuiet DEF Pending, Busy, client
  <1>6. [says |-> TRUE, tag |-> "none"] \in Answer
    BY DEF Answer, Tags
  <1> QED BY <1>1, <1>2, <1>3, <1>4, <1>5, <1>6 DEF Receive

\* Notifications wait until a turn is over, and what the client sends is new.
LEMMA ShownOutside ==
    ASSUME TypeOK, NEW s \in Sockets, Shown(s), Outside
    PROVE  Shown(s)'
  <1>1. con' = con /\ (here'[s] => here[s])
    BY DEF Outside, Client, ClientSends, ClientLeaves, Gone, Notify, Expire, Push, client, TypeOK
  <1>2. CASE inbox'[s] = inbox[s] /\ sent'[s] = sent[s] /\ out'[s] = out[s]
    BY <1>1, <1>2 DEF Shown, Showing
  <1>3. ASSUME NEW kind \in Inputs, ClientSends(s, kind)
        PROVE  Shown(s)'
    <2> DEFINE m == [kind |-> kind, turn |-> sent[s] + 1]
    <2>1. /\ inbox'[s] = Append(inbox[s], m) /\ sent'[s] = sent[s] + 1
          /\ out'[s] = out[s] /\ here'[s] = here[s]
      BY <1>3 DEF ClientSends, TypeOK
    <2>2. m.turn = sent[s] + 1 /\ sent[s] \in Nat /\ out[s] \in Seq(Frame)
          /\ inbox[s] \in Seq([kind : Inputs, turn : Nat])
      BY TalkTyped DEF TypeOK
    <2> HIDE DEF m
    <2>3. \A j \in 1..Len(inbox'[s]) :
             \/ j \in 1..Len(inbox[s]) /\ inbox'[s][j] = inbox[s][j]
             \/ inbox'[s][j] = m
      BY <2>1, <2>2
    <2>4. Below(out[s], sent[s] + 1)
      BY DEF Shown, Showing
    <2>5. Below(out[s], (sent[s] + 1) + 1)
      <3>1. sent[s] + 1 \in Nat /\ (sent[s] + 1) + 1 \in Nat
            /\ sent[s] + 1 <= (sent[s] + 1) + 1
        BY <2>2
      <3> QED BY <2>2, <2>4, <3>1, BelowLater
    <2>6. \A j \in 1..Len(inbox'[s]) : Below(out[s], inbox'[s][j].turn)
      BY <2>2, <2>3, <2>4 DEF Shown, Showing
    <2> QED BY <1>1, <2>1, <2>5, <2>6 DEF Shown, Showing
  <1>4. CASE Notify(s)
    <2> DEFINE n == Head(mailbox[s])
    <2>1. n \in Nat
      <3>1. mailbox[s] \in Seq(Nat) /\ mailbox[s] # <<>>
        BY <1>4 DEF Notify, TypeOK
      <3> QED BY <3>1, HeadTailProperties
    <2>2. con[s].pc = "ready" /\ Send(s, "notification", n) /\ UNCHANGED client
      BY <1>4 DEF Notify, At
    <2> HIDE DEF n
    <2>3. /\ InOrder(out'[s])
          /\ \A k \in Nat : Below(out[s], k) => Below(out'[s], k)
          /\ here[s] => out'[s] # <<>>
      BY <2>1, <2>2, ShownSend DEF Answers
    <2>4. /\ Below(out'[s], sent[s] + 1)
          /\ \A j \in 1..Len(inbox[s]) : Below(out'[s], inbox[s][j].turn)
      BY <2>3, TalkTyped DEF Shown, Showing
    <2> QED BY <1>1, <2>2, <2>3, <2>4 DEF Shown, Showing, client, Pending
  <1>5. ASSUME ~Notify(s), ~\E kind \in Inputs : ClientSends(s, kind)
        PROVE  inbox'[s] = inbox[s] /\ sent'[s] = sent[s] /\ out'[s] = out[s]
    <2>1. ASSUME NEW r \in Sockets, r # s, (\E kind \in Inputs : ClientSends(r, kind)) \/ Notify(r)
          PROVE  inbox'[s] = inbox[s] /\ sent'[s] = sent[s] /\ out'[s] = out[s]
      BY <2>1 DEF ClientSends, Notify, Send, client, TypeOK
    <2>2. ASSUME NEW r \in Sockets, ClientLeaves(r) \/ Expire(r)
          PROVE  inbox'[s] = inbox[s] /\ sent'[s] = sent[s] /\ out'[s] = out[s]
      BY <2>2 DEF ClientLeaves, Gone, Expire, client
    <2>3. CASE Push
      BY <2>3 DEF Push, client
    <2> QED BY <1>5, <2>1, <2>2, <2>3 DEF Outside, Client
  <1> QED BY <1>2, <1>3, <1>4, <1>5

\* Nothing of another connection is shown.
LEMMA ShownElsewhere ==
    ASSUME TypeOK, NEW s \in Sockets, NEW r \in Sockets, r # s, Shown(r),
           Connect(s) \/ Disconnect(s) \/ Receive(s)
    PROVE  Shown(r)'
  <1>1. out'[r] = out[r] /\ here'[r] = here[r]
    BY DEF Connect, Open, Refuse, Authenticate, Join, Accept, Announce, Disconnect, Discard,
           CountOut, Cancelled, Die, Gone, Receive, Reply, AudioInput, TextInput, GuestContext,
           ContextFails, AgentFails, Answered, ToSpeech, Spoken, Succeed, SendFrame,
           Send, client, TypeOK
  <1> QED BY <1>1, OthersStay DEF Shown

LEMMA ShownInvariant == Spec => [](\A s \in Sockets : Shown(s))
  <1> DEFINE Good == \A s \in Sockets : Shown(s)
             Known == \A s \in Sockets : Staged(s) /\ Talk(s)
  <1>1. Init => Good
    <2> SUFFICES ASSUME Init, NEW s \in Sockets PROVE Shown(s)
      OBVIOUS
    <2>1. out[s] = <<>> /\ inbox[s] = <<>> /\ sent[s] = 0 /\ ~here[s] /\ con[s].pc = "new"
      BY DEF Init, Fresh
    <2> QED BY <2>1 DEF Shown, Showing, InOrder, Below, Pending
  <1>2. Good /\ Known /\ TypeOK /\ [Next]_vars => Good'
    <2> SUFFICES ASSUME Good, Known, TypeOK, [Next]_vars, NEW r \in Sockets PROVE Shown(r)'
      OBVIOUS
    <2>1. ASSUME NEW s \in Sockets, Connect(s) \/ Disconnect(s) \/ Receive(s), r # s
          PROVE  Shown(r)'
      BY <2>1, ShownElsewhere
    <2>2. ASSUME NEW s \in Sockets, Connect(s) \/ Disconnect(s) \/ Receive(s), r = s
          PROVE  Shown(r)'
      BY <2>2, ShownConnect, ShownDisconnect, ShownReceive
    <2>3. CASE Outside
      BY <2>3, ShownOutside
    <2>4. CASE UNCHANGED vars
      BY <2>4 DEF vars, client, Shown
    <2> QED BY <2>1, <2>2, <2>3, <2>4, Steps
  <1> HIDE DEF Good, Known
  <1>3. (\A s \in Sockets : Staged(s)) /\ (\A s \in Sockets : Talk(s)) => Known
    BY DEF Known
  <1>4. Good => \A s \in Sockets : Shown(s)
    BY DEF Good
  <1> QED BY <1>1, <1>2, <1>3, <1>4, TypeCorrect, StagedInvariant, TalkInvariant, PTL DEF Spec

\* The client is told "connected" first, then gets one answer to each turn it gets any
\* answer to, and the audio and the service request of a turn right behind its text:
\* whatever is pushed, fails or leaves in between (consumers.py:58-62, 89-128, 149-155).
THEOREM FramesAlwaysInOrder == Spec => []FramesInOrder
  <1>1. (\A s \in Sockets : Shown(s)) => FramesInOrder
    BY DEF Shown, Showing, InOrder, FramesInOrder
  <1> QED BY <1>1, ShownInvariant, PTL
================================================================================
