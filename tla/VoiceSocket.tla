------------------------------ MODULE VoiceSocket ------------------------------
(***************************************************************************)
(* The WebSocket connections of one guest: VoiceSessionConsumer            *)
(* (hotel_agent/api/consumers.py) with the voice agent it calls            *)
(* (services/voice_agent.py), and the notifications pushed to the guest's  *)
(* group while it talks.                                                   *)
(*                                                                         *)
(* A consumer is a coroutine: it gives way at every await, and Channels    *)
(* hands it the next message, from the client or from the channel layer,   *)
(* only when the handler of the last one has returned.                     *)
(***************************************************************************)
EXTENDS Integers, Sequences, FiniteSets

CONSTANTS
    Sockets,      \* connections of the guest, one consumer each
    Window,       \* conversation_history[-10:]
    MaxInputs,    \* bound: messages the client of each socket sends
    MaxNotices    \* bound: notifications pushed to the group

ASSUME SocketsAssumption == IsFiniteSet(Sockets)
ASSUME WindowAssumption == Window \in Nat /\ Window % 2 = 0
ASSUME BoundsAssumption == MaxInputs \in [Sockets -> Nat] /\ MaxNotices \in Nat

VARIABLES
    con,       \* each consumer: where it is, and the turn in hand
    here,      \* is the client of a socket still there?
    inbox,     \* what the client sent and the consumer has not taken
    mailbox,   \* notifications in the channel of a socket
    group,     \* the sockets in the group of the guest
    history,   \* conversation_history of each consumer
    out,       \* frames the client of a socket got
    gauge,     \* ACTIVE_VOICE_SESSIONS of the daphne process
    sent,      \* messages the client of a socket sent; numbers the turns
    pushed,    \* notifications pushed so far
    owed       \* history: <<socket, notification>> when it was pushed the client had been
               \* told "connected", and it is still there; the channel was not full, and
               \* it has not expired there

layer == <<mailbox, group, pushed, owed>>
client == <<here, inbox, sent>>
vars == <<con, client, layer, history, out, gauge>>

-----------------------------------------------------------------------------
(* The voice agent: what its answers are made of. *)

\* A tag is absent, well-formed with a service type of the ten or another one, not
\* JSON, or JSON that is not an object.
Tags == {"none", "known", "unknown", "unreadable", "not_an_object"}
Answer == [says : BOOLEAN, tag : Tags]

\* _extract_service_request: another service type becomes "other"; what is not
\* JSON is dropped; on a list or a string .get raises AttributeError.
Raises(answer) == answer.tag = "not_an_object"
ServiceRequest(answer) == answer.tag \in {"known", "unknown"}

\* Faulty variant: a window that cuts an exchange in two.
RecentOdd(h) == IF Len(h) < Window THEN h ELSE SubSeq(h, Len(h) - Window + 2, Len(h))

\* conversation_history[-10:]
Recent(h) == IF Len(h) <= Window THEN h ELSE SubSeq(h, Len(h) - Window + 1, Len(h))

Message(role, n) == [role |-> role, turn |-> n]
Prompt(h, n) == Append(Recent(h), Message("user", n))

-----------------------------------------------------------------------------
Busy == {"context", "llm", "tts", "text", "audio", "request"}
Connecting == {"authenticate", "join", "accept", "announce"}
Over == {"closed", "killed"}
Phases == {"new", "ready", "leave", "refused"} \cup Connecting \cup Busy \cup Over

\* pc, whether accept() was sent, and of the turn in hand: its number, whether the
\* client wants audio, and the frames that still follow the text.
Consumer == [pc : Phases, accepted : BOOLEAN, turn : Nat, audio : BOOLEAN,
             request : BOOLEAN, prompt : Seq([role : {"user", "assistant"}, turn : Nat])]
Fresh == [pc |-> "new", accepted |-> FALSE, turn |-> 0, audio |-> FALSE,
          request |-> FALSE, prompt |-> <<>>]

\* "reply": the pong or the error that answers a message no turn begins with.
Frame == [kind : {"connected", "text", "audio", "request", "error", "reply", "notification"},
          turn : Nat]

At(s, pc) == con[s].pc = pc
Goto(s, pc) == con' = [con EXCEPT ![s].pc = pc]
\* A turn is over: nothing of it is kept.
Rest(s) == con' = [con EXCEPT ![s] = [Fresh EXCEPT !.pc = "ready", !.accepted = TRUE]]

\* Daphne drops what is sent to a client that has gone.
Send(s, kind, n) ==
    out' = IF here[s] THEN [out EXCEPT ![s] = Append(@, [kind |-> kind, turn |-> n])] ELSE out

\* The client of a socket is there no more, and nothing is owed to it.
Gone(s) == /\ here' = [here EXCEPT ![s] = FALSE]
           /\ owed' = {o \in owed : o[1] # s}

(* connect *)
Open(s) ==
    /\ At(s, "new")
    /\ Goto(s, "authenticate")
    /\ here' = [here EXCEPT ![s] = TRUE]
    /\ UNCHANGED <<inbox, sent, layer, history, out, gauge>>

\* close(code=4001): disconnect is called all the same.
Refuse(s) ==
    /\ At(s, "authenticate")
    /\ Goto(s, "refused")
    /\ here' = [here EXCEPT ![s] = FALSE]
    /\ UNCHANGED <<inbox, sent, layer, history, out, gauge>>

\* Faulty variant: the connection is counted before it is let in.
AuthenticateCounted(s) ==
    /\ At(s, "authenticate")
    /\ Goto(s, "join")
    /\ gauge' = gauge + 1
    /\ UNCHANGED <<client, layer, history, out>>

Authenticate(s) ==
    /\ At(s, "authenticate")
    /\ Goto(s, "join")
    /\ UNCHANGED <<client, layer, history, out, gauge>>

\* Faulty variant: the client is let in first, and joins with its first message.
JoinLater(s) ==
    /\ At(s, "join")
    /\ Goto(s, "accept")
    /\ group' = IF inbox[s] # <<>> THEN group \cup {s} ELSE group
    /\ UNCHANGED <<client, mailbox, pushed, owed, history, out, gauge>>

Join(s) ==
    /\ At(s, "join")
    /\ Goto(s, "accept")
    /\ group' = group \cup {s}
    /\ UNCHANGED <<client, mailbox, pushed, owed, history, out, gauge>>

Accept(s) ==
    /\ At(s, "accept")
    /\ con' = [con EXCEPT ![s].pc = "announce", ![s].accepted = TRUE]
    /\ gauge' = gauge + 1
    /\ UNCHANGED <<client, layer, history, out>>

Announce(s) ==
    /\ At(s, "announce")
    /\ Send(s, "connected", 0)
    /\ Rest(s)
    /\ UNCHANGED <<client, layer, history, gauge>>

(* disconnect, when everything the client sent before has been handled *)
Discard(s) ==
    /\ At(s, "ready")
    /\ ~here[s] /\ inbox[s] = <<>>
    /\ group' = group \ {s}
    /\ Goto(s, "leave")
    /\ UNCHANGED <<client, mailbox, pushed, owed, history, out, gauge>>

\* A refused client has no group to leave and is counted out as well.
CountOut(s) ==
    /\ con[s].pc \in {"leave", "refused"}
    /\ gauge' = gauge - 1
    /\ Goto(s, "closed")
    /\ UNCHANGED <<client, layer, history, out>>

\* An exception leaves the consumer, or Daphne cancels one that is still busy after
\* its client has gone: disconnect is never called.
Die(s) ==
    /\ con' = [con EXCEPT ![s] = [Fresh EXCEPT !.pc = "killed", !.accepted = con[s].accepted]]
    /\ Gone(s)
    /\ inbox' = [inbox EXCEPT ![s] = <<>>]
    /\ UNCHANGED <<sent, mailbox, group, pushed, history, out, gauge>>

Cancelled(s) ==
    /\ con[s].pc \in Busy \cup Connecting
    /\ ~here[s]
    /\ Die(s)

-----------------------------------------------------------------------------
(* receive *)

\* What a client may send: a text turn, with or without audio, an audio turn, or
\* something else: a ping, which is answered with a pong, or what is answered with an
\* error (not JSON, unknown type, no text, bad base64).
Inputs == {"speak", "chat", "audio", "other"}

Take(s, kinds) == /\ At(s, "ready")
                  /\ inbox[s] # <<>>
                  /\ Head(inbox[s]).kind \in kinds
                  /\ inbox' = [inbox EXCEPT ![s] = Tail(@)]

Reply(s) ==
    /\ Take(s, {"other"})
    /\ Send(s, "reply", Head(inbox[s]).turn)
    /\ UNCHANGED <<con, here, sent, layer, history, gauge>>

\* _handle_audio_input passes "text": None on, and None has no strip().  JSON that is
\* no object, or a text that is no string, ends the consumer the same way.
AudioInput(s) ==
    /\ At(s, "ready")
    /\ inbox[s] # <<>> /\ Head(inbox[s]).kind = "audio"
    /\ Die(s)

TextInput(s) ==
    /\ Take(s, {"speak", "chat"})
    /\ con' = [con EXCEPT ![s].pc = "context", ![s].turn = Head(inbox[s]).turn,
                          ![s].audio = Head(inbox[s]).kind = "speak"]
    /\ UNCHANGED <<here, sent, layer, history, out, gauge>>

\* The guest's name, preferences and room; a session_id that is no UUID raises.
GuestContext(s) ==
    /\ At(s, "context")
    /\ con' = [con EXCEPT ![s].pc = "llm", ![s].prompt = Prompt(history[s], con[s].turn)]
    /\ UNCHANGED <<client, layer, history, out, gauge>>

ContextFails(s) == At(s, "context") /\ Die(s)

\* OpenAIError of the model or of the speech synthesis, or a tag that is no object.
AgentFails(s) ==
    /\ con[s].pc \in {"llm", "tts"}
    /\ Send(s, "error", con[s].turn)
    /\ Rest(s)
    /\ UNCHANGED <<client, layer, history, gauge>>

\* Faulty variant: the agent's turns are filed under its own name.
ExchangeNamed(s) == <<Message("user", con[s].turn), Message("aria", con[s].turn)>>

Exchange(s) == <<Message("user", con[s].turn), Message("assistant", con[s].turn)>>

\* The turn succeeded: the history grows by a pair, and the frames are sent.
Succeed(s, audio, request) ==
    /\ history' = [history EXCEPT ![s] = @ \o Exchange(s)]
    /\ con' = [con EXCEPT ![s].pc = "text", ![s].audio = audio, ![s].request = request]

\* No audio is wanted, or there is nothing to say.
Answered(s, a) ==
    /\ At(s, "llm")
    /\ ~Raises(a) /\ ~(con[s].audio /\ a.says)
    /\ Succeed(s, FALSE, ServiceRequest(a))
    /\ UNCHANGED <<client, layer, out, gauge>>

ToSpeech(s, a) ==
    /\ At(s, "llm")
    /\ ~Raises(a) /\ con[s].audio /\ a.says
    /\ con' = [con EXCEPT ![s].pc = "tts", ![s].request = ServiceRequest(a)]
    /\ UNCHANGED <<client, layer, history, out, gauge>>

Spoken(s) ==
    /\ At(s, "tts")
    /\ Succeed(s, TRUE, con[s].request)
    /\ UNCHANGED <<client, layer, out, gauge>>

\* What is left to send after the frame that was just sent.
Continue(s, rest) == IF rest = {} THEN Rest(s)
                  ELSE Goto(s, IF "audio" \in rest THEN "audio" ELSE "request")
Wanted(s) == {k \in {"audio", "request"} : con[s][k]}

SendFrame(s) ==
    /\ con[s].pc \in {"text", "audio", "request"}
    /\ Send(s, con[s].pc, con[s].turn)
    /\ Continue(s, CASE At(s, "text") -> Wanted(s)
                  [] At(s, "audio") -> Wanted(s) \ {"audio"}
                  [] OTHER -> {})
    /\ UNCHANGED <<client, layer, history, gauge>>

-----------------------------------------------------------------------------
(* notification_message *)

\* Faulty variant: notifications are sent as they come, in a task of their own.
NotifyAnyTime(s) ==
    /\ con[s].pc \in {"ready"} \cup Busy
    /\ mailbox[s] # <<>>
    /\ mailbox' = [mailbox EXCEPT ![s] = Tail(@)]
    /\ Send(s, "notification", Head(mailbox[s]))
    /\ UNCHANGED <<con, client, group, pushed, owed, history, gauge>>

Notify(s) ==
    /\ At(s, "ready")
    /\ mailbox[s] # <<>>
    /\ mailbox' = [mailbox EXCEPT ![s] = Tail(@)]
    /\ Send(s, "notification", Head(mailbox[s]))
    /\ UNCHANGED <<con, client, group, pushed, owed, history, gauge>>

\* The clients that are there and were told "connected".
Listeners == {s \in Sockets : here[s] /\ out[s] # <<>>}

\* push_notification_to_guest: group_send puts the message in the channel of every
\* member but those whose channel is full (capacity 1500), and tells nobody.
Push ==
    /\ pushed < MaxNotices
    /\ pushed' = pushed + 1
    /\ \E full \in SUBSET group :
          /\ mailbox' = [s \in Sockets |-> IF s \in group \ full
                                           THEN Append(mailbox[s], pushed + 1) ELSE mailbox[s]]
          /\ owed' = owed \cup ((Listeners \ full) \X {pushed + 1})
    /\ UNCHANGED <<con, client, group, history, out, gauge>>

\* CHANNEL_LAYERS expiry: a message that waited ten seconds is gone, as when the
\* agent takes that long.
Expire(s) ==
    /\ mailbox[s] # <<>>
    /\ con[s].pc # "ready"
    /\ mailbox' = [mailbox EXCEPT ![s] = Tail(@)]
    /\ owed' = owed \ {<<s, Head(mailbox[s])>>}
    /\ UNCHANGED <<con, client, group, pushed, history, out, gauge>>

(* The client *)
ClientSends(s, kind) ==
    /\ here[s] /\ con[s].accepted
    /\ sent[s] < MaxInputs[s]
    /\ sent' = [sent EXCEPT ![s] = @ + 1]
    /\ inbox' = [inbox EXCEPT ![s] = Append(@, [kind |-> kind, turn |-> sent[s] + 1])]
    /\ UNCHANGED <<con, here, layer, history, out, gauge>>

ClientLeaves(s) ==
    /\ here[s]
    /\ Gone(s)
    /\ UNCHANGED <<con, inbox, sent, mailbox, group, pushed, history, out, gauge>>

-----------------------------------------------------------------------------
Init ==
    /\ con = [s \in Sockets |-> Fresh]
    /\ here = [s \in Sockets |-> FALSE]
    /\ inbox = [s \in Sockets |-> <<>>]
    /\ mailbox = [s \in Sockets |-> <<>>]
    /\ group = {}
    /\ history = [s \in Sockets |-> <<>>]
    /\ out = [s \in Sockets |-> <<>>]
    /\ sent = [s \in Sockets |-> 0]
    /\ gauge = 0 /\ pushed = 0
    /\ owed = {}

Connect(s) == Open(s) \/ Refuse(s) \/ Authenticate(s) \/ Join(s) \/ Accept(s) \/ Announce(s)

Disconnect(s) == Discard(s) \/ CountOut(s) \/ Cancelled(s)

Receive(s) == \/ Reply(s) \/ AudioInput(s) \/ TextInput(s)
              \/ GuestContext(s) \/ ContextFails(s) \/ AgentFails(s)
              \/ \E a \in Answer : Answered(s, a) \/ ToSpeech(s, a)
              \/ Spoken(s) \/ SendFrame(s)

Client(s) == \/ \E kind \in Inputs : ClientSends(s, kind)
             \/ ClientLeaves(s)

Next == \/ \E s \in Sockets : \/ Connect(s) \/ Disconnect(s) \/ Receive(s) \/ Client(s)
                              \/ Notify(s) \/ Expire(s)
        \/ Push

Spec == Init /\ [][Next]_vars

-----------------------------------------------------------------------------
(* Properties *)

TypeOK ==
    /\ con \in [Sockets -> Consumer]
    /\ here \in [Sockets -> BOOLEAN]
    /\ inbox \in [Sockets -> Seq([kind : Inputs, turn : Nat])]
    /\ mailbox \in [Sockets -> Seq(Nat)]
    /\ group \subseteq Sockets
    /\ history \in [Sockets -> Seq([role : {"user", "assistant"}, turn : Nat])]
    /\ out \in [Sockets -> Seq(Frame)]
    /\ gauge \in Int
    /\ sent \in [Sockets -> Nat] /\ pushed \in Nat
    /\ owed \subseteq Sockets \X Nat

\* What the client sees makes sense: "connected" comes first and once, even if a
\* notification was pushed before; a turn is answered once, with one error, or with
\* its text and then, with nothing in between, its audio and its service request
\* (consumers.py:58-62, 89-128, 149-155).
Answers == {"text", "error", "reply"}
FramesInOrder ==
    \A s \in Sockets :
        /\ \A i \in DOMAIN out[s] : (out[s][i].kind = "connected") <=> (i = 1)
        /\ \A i, j \in DOMAIN out[s] :
              /\ out[s][i].kind \in Answers /\ out[s][j].kind \in Answers
              /\ out[s][i].turn = out[s][j].turn
              => i = j
        /\ \A i \in DOMAIN out[s] : out[s][i].kind \in {"audio", "request"} =>
              /\ out[s][i - 1].kind \in {"text", "audio"}
              /\ out[s][i - 1].turn = out[s][i].turn

\* The model is shown a conversation: whole exchanges of user and assistant, in order,
\* and then the new message, whatever failed before, and however much of the history
\* the window cuts off (voice_agent.py:117-123, consumers.py:110-113).
PromptAlternates ==
    \A s \in Sockets : At(s, "llm") =>
        LET p == con[s].prompt IN
        /\ \A i \in 1..Len(p) : p[i].role = IF i % 2 = 1 THEN "user" ELSE "assistant"
        /\ \A i, j \in 1..Len(p) : i < j =>
              p[i].turn < p[j].turn \/ (p[i].turn = p[j].turn /\ j = i + 1 /\ i % 2 = 1)
        /\ p[Len(p)] = Message("user", con[s].turn)

\* A notification pushed while the client was there and had been told "connected" is
\* shown to it, or waits in the channel of its socket, as long as the client stays; the
\* only ones lost to it are those that found the channel full or waited there until
\* they expired (consumers.py:52-58, 149-155; the order of group_add and accept).
Delivered(s, n) == \E i \in DOMAIN out[s] : out[s][i] = [kind |-> "notification", turn |-> n]
Waits(s, n) == \E i \in DOMAIN mailbox[s] : mailbox[s][i] = n
NotificationsReach ==
    \A s \in Sockets : \A n \in 1..pushed :
        <<s, n>> \in owed => Delivered(s, n) \/ Waits(s, n)

\* How far ACTIVE_VOICE_SESSIONS is from the connections that are open: refused
\* clients are taken off it, dead consumers stay on it (consumers.py:55, 67).
CountedIn(s) == con[s].accepted /\ con[s].pc # "closed"
Refused(s) == con[s].pc = "closed" /\ ~con[s].accepted
GaugeAccounted ==
    gauge = Cardinality({s \in Sockets : CountedIn(s)})
            - Cardinality({s \in Sockets : Refused(s)})
=============================================================================
