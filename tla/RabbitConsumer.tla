--------------------------- MODULE RabbitConsumer ---------------------------
(***************************************************************************)
(* A consumer of a RabbitMQ queue: StartListen of                          *)
(* data/rabbit_mq_consumer.go over the consumer and the exchange of        *)
(* data/uamqp, which keep a channel and a connection and replace them      *)
(* after an error.                                                         *)
(*                                                                         *)
(* The module is compiled as go 1.16: `delivery` of the loop over the      *)
(* receiver is one variable, and handle gets its address. With             *)
(* deliveryAsync, the default, every delivery has a goroutine of its own,  *)
(* which reads that variable for the message and again for the Ack.        *)
(*                                                                         *)
(* The client library and the broker are external: a delivery stays        *)
(* unacknowledged until an Ack on its own channel, goes back to the queue  *)
(* when that channel closes, and a second Ack for it closes the channel.   *)
(***************************************************************************)
EXTENDS Integers, Sequences, FiniteSets

CONSTANTS
  Message,    \* messages
  NoMessage,
  Handler,    \* goroutines of handle; bounds how many are under way at once
  Prefetch,   \* qosPrefetchCount
  Async,      \* the values of deliveryAsync
  MaxFaults   \* bounds what befalls broker, connection and channel

ASSUME MessageAssumption == NoMessage \notin Message
ASSUME PrefetchAssumption == Prefetch \in Nat \ {0}
ASSUME AsyncAssumption == Async \subseteq BOOLEAN
ASSUME MaxFaultsAssumption == MaxFaults \in Nat

VARIABLES
  async,      \* deliveryAsync
  up,         \* some node of Nodes takes connections
  faults,     \* faults so far
  place,      \* where the broker has each message: "none", "ready", "unacked", "acked"
  conn,       \* Exchange.conn: "nil", "open", "closed"
  channel,    \* Consumer.Channel: "nil", "open", "closed"
  receiver,   \* the receiver ranged over: "open", "closed"
  inbox,      \* the deliveries waiting in it
  listener,   \* the goroutine of StartListen
  slot,       \* its variable delivery
  handler,    \* each goroutine of handle
  handled     \* history: messages whose callback has returned, or panicked

broker == <<up, faults, place>>
amqp == <<conn, channel, receiver, inbox>>
rabbitVars == <<async, broker, amqp, listener, slot, handler, handled>>

NoHandler == [pc |-> "idle", message |-> NoMessage, own |-> NoMessage, dead |-> FALSE]

\* NewRabbitConsumer has tried to connect once. own is what a handler's delivery
\* holds once the loop it comes from is over and the variable changes no more; dead
\* says that the channel of the delivery is closed.
RabbitInit ==
  /\ async \in Async
  /\ up \in BOOLEAN
  /\ faults = 0
  /\ place = [m \in Message |-> "none"]
  /\ conn = IF up THEN "open" ELSE "nil"
  /\ channel = "nil"
  /\ receiver = "closed"
  /\ inbox = <<>>
  /\ listener = "get"
  /\ slot = NoMessage
  /\ handler = [h \in Handler |-> NoHandler]
  /\ handled = {}

Unacked == {m \in Message : place[m] = "unacked"}

\* The channel closes: what was delivered on it and not acknowledged goes back to
\* the queue, deliveries not yet taken are dropped.
ChannelDies(next, handlers) ==
  /\ channel' = next
  /\ receiver' = "closed"
  /\ inbox' = <<>>
  /\ place' = [m \in Message |-> IF place[m] = "unacked" THEN "ready" ELSE place[m]]
  /\ handler' = [h \in Handler |-> [handlers[h] EXCEPT !.dead = handlers[h].pc # "idle"]]

-----------------------------------------------------------------------------
(* The broker and the network.                                             *)

Arrives(m) ==
  /\ place[m] = "none"
  /\ place' = [place EXCEPT ![m] = "ready"]
  /\ UNCHANGED <<async, up, faults, amqp, listener, slot, handler, handled>>

Deliver(m) ==
  /\ receiver = "open"
  /\ place[m] = "ready"
  /\ Cardinality(Unacked) < Prefetch
  /\ place' = [place EXCEPT ![m] = "unacked"]
  /\ inbox' = Append(inbox, m)
  /\ UNCHANGED <<async, up, faults, conn, channel, receiver, listener, slot, handler, handled>>

Fault == faults < MaxFaults /\ faults' = faults + 1

\* Some channel error, or the connection breaks, or all nodes go down.
ChannelBreaks ==
  /\ Fault
  /\ channel = "open"
  /\ ChannelDies("closed", handler)
  /\ \/ UNCHANGED <<up, conn>>
     \/ conn' = "closed" /\ UNCHANGED up
     \/ conn' = "closed" /\ up' = FALSE
  /\ UNCHANGED <<async, listener, slot, handled>>

\* The same while no channel is open.
ConnectionBreaks ==
  /\ Fault
  /\ channel # "open"
  /\ conn = "open"
  /\ conn' = "closed"
  /\ UNCHANGED up \/ up' = FALSE
  /\ UNCHANGED <<async, place, channel, receiver, inbox, listener, slot, handler, handled>>

NodeUp ==
  /\ ~up
  /\ up' = TRUE
  /\ UNCHANGED <<async, faults, place, amqp, listener, slot, handler, handled>>

\* The broker cancels the consumer: the receiver ends, the channel stays open.
Cancel ==
  /\ Fault
  /\ receiver = "open"
  /\ receiver' = "closed"
  /\ UNCHANGED <<async, up, place, conn, channel, inbox, listener, slot, handler, handled>>

-----------------------------------------------------------------------------
(* CreateReceiver, with getChannel, NewChannel and refreshConn.            *)

ListenerGoes(pc) == listener' = pc

\* A channel there is is used again, whether it is open or not.
GetChannel ==
  /\ listener = "get"
  /\ ListenerGoes(IF channel # "nil" THEN "consume" ELSE IF conn = "nil" THEN "dial" ELSE "open")
  /\ UNCHANGED <<async, broker, amqp, slot, handler, handled>>

\* refreshConn of a connection that is nil, by NewChannel, or has been closed by it
\* already, by CloseForErr. Any error of a dial is not amqp.ErrClosed.
Dial ==
  /\ listener \in {"dial", "redial"}
  /\ conn' = IF up THEN "open" ELSE conn
  /\ ListenerGoes(IF listener = "redial" THEN "get" ELSE IF up THEN "open" ELSE "error")
  /\ UNCHANGED <<async, broker, channel, receiver, inbox, slot, handler, handled>>

\* A declaration may be refused, or fail with the connection: NewChannel then gives
\* no channel and wraps the error, getChannel keeps the channel and returns it as is.
OpenChannel ==
  /\ listener = "open"
  /\ IF conn = "open"
     THEN \/ ListenerGoes("declare") /\ channel' = "open" /\ UNCHANGED faults
          \/ ListenerGoes("error") /\ Fault /\ UNCHANGED channel
     ELSE ListenerGoes("errclosed") /\ UNCHANGED <<faults, channel>>
  /\ UNCHANGED <<async, up, place, conn, receiver, inbox, slot, handler, handled>>

Declare ==
  /\ listener = "declare"
  /\ IF channel = "open"
     THEN \/ ListenerGoes("consume") /\ UNCHANGED <<faults, channel>>
          \/ ListenerGoes("error") /\ Fault /\ channel' = "closed"
     ELSE ListenerGoes("errclosed") /\ UNCHANGED <<faults, channel>>
  /\ UNCHANGED <<async, up, place, conn, receiver, inbox, slot, handler, handled>>

\* Qos and Consume; either may be refused, which closes the channel.
Consume ==
  /\ listener = "consume"
  /\ \/ /\ channel = "open"
        /\ ListenerGoes("range")
        /\ receiver' = "open"
        /\ UNCHANGED <<faults, place, channel, inbox, handler>>
     \/ /\ channel = "open"
        /\ ListenerGoes("error")
        /\ Fault
        /\ ChannelDies("closed", handler)
     \/ /\ channel # "open"
        /\ ListenerGoes("errclosed")
        /\ UNCHANGED <<faults, place, channel, receiver, inbox, handler>>
  /\ UNCHANGED <<async, up, conn, slot, handled>>

\* Mutated form: the connection is not replaced.
CloseForErrNoRefresh ==
  /\ listener \in {"error", "errclosed"}
  /\ ChannelDies("nil", handler)
  /\ ListenerGoes("get")
  /\ UNCHANGED <<async, up, faults, conn, slot, handled>>

\* The connection is closed and replaced after amqp.ErrClosed, whichever of channel
\* and connection it was that had closed.
CloseForErr ==
  /\ listener \in {"error", "errclosed"}
  /\ ChannelDies("nil", handler)
  /\ IF listener = "errclosed"
     THEN ListenerGoes("redial") /\ conn' = "closed"
     ELSE ListenerGoes("get") /\ UNCHANGED conn
  /\ UNCHANGED <<async, up, faults, slot, handled>>

-----------------------------------------------------------------------------
(* The loop over the receiver, and handle.                                 *)

Active == {h \in Handler : handler[h].pc # "idle"}

\* What `delivery` points to in handler h.
Delivery(h) == IF handler[h].own = NoMessage THEN slot ELSE handler[h].own

\* Mutated form: a goroutine for each delivery, whatever deliveryAsync says.
ReceiveAlwaysAsync(h) ==
  /\ listener = "range"
  /\ inbox # <<>>
  /\ h \notin Active
  /\ slot' = Head(inbox)
  /\ inbox' = Tail(inbox)
  /\ handler' = [handler EXCEPT ![h].pc = "start"]
  /\ UNCHANGED <<async, broker, conn, channel, receiver, listener, handled>>

Receive(h) ==
  /\ listener = "range"
  /\ inbox # <<>>
  /\ h \notin Active
  /\ slot' = Head(inbox)
  /\ inbox' = Tail(inbox)
  /\ handler' = [handler EXCEPT ![h].pc = "start"]
  /\ ListenerGoes(IF async THEN "range" ELSE "wait")
  /\ UNCHANGED <<async, broker, conn, channel, receiver, handled>>

\* The receiver is closed and drained. After sleepTime there is a new loop, with a
\* variable of its own.
ReceiverEnds ==
  /\ listener = "range"
  /\ receiver = "closed"
  /\ inbox = <<>>
  /\ handler' = [h \in Handler |->
       IF h \in Active THEN [handler[h] EXCEPT !.own = Delivery(h)] ELSE handler[h]]
  /\ slot' = NoMessage
  /\ ListenerGoes("get")
  /\ UNCHANGED <<async, broker, amqp, handled>>

\* message := string(delivery.Body)
ReadBody(h) ==
  /\ handler[h].pc = "start"
  /\ handler' = [handler EXCEPT ![h].pc = "call", ![h].message = Delivery(h)]
  /\ UNCHANGED <<async, broker, amqp, listener, slot, handled>>

\* Mutated form: a callback that panics gets no Ack.
CallbackEndsNoAck(h) ==
  /\ handler[h].pc = "call"
  /\ \/ handler' = [handler EXCEPT ![h].pc = "ack"] /\ UNCHANGED listener
     \/ /\ handler' = [handler EXCEPT ![h] = NoHandler]
        /\ ListenerGoes(IF listener = "wait" THEN "range" ELSE listener)
  /\ handled' = handled \cup {handler[h].message}
  /\ UNCHANGED <<async, broker, amqp, slot>>

CallbackEnds(h) ==
  /\ handler[h].pc = "call"
  /\ handler' = [handler EXCEPT ![h].pc = "ack"]
  /\ handled' = handled \cup {handler[h].message}
  /\ UNCHANGED <<async, broker, amqp, listener, slot>>

HandlerEnds(h) == [handler EXCEPT ![h] = NoHandler]

\* delivery.Ack, which has no effect on a channel that is closed.
Ack(h) ==
  /\ handler[h].pc = "ack"
  /\ IF place[Delivery(h)] = "unacked" \/ handler[h].dead
     THEN /\ handler' = HandlerEnds(h)
          /\ place' = IF handler[h].dead THEN place ELSE [place EXCEPT ![Delivery(h)] = "acked"]
          /\ UNCHANGED <<channel, receiver, inbox>>
     ELSE ChannelDies("closed", HandlerEnds(h))
  /\ ListenerGoes(IF listener = "wait" THEN "range" ELSE listener)
  /\ UNCHANGED <<async, up, faults, conn, slot, handled>>

-----------------------------------------------------------------------------

ListenerStep ==
  \/ GetChannel \/ Dial \/ OpenChannel \/ Declare \/ Consume \/ CloseForErr
  \/ (\E h \in Handler : Receive(h)) \/ ReceiverEnds

HandlerStep(h) == ReadBody(h) \/ CallbackEnds(h) \/ Ack(h)

RabbitNext ==
  \/ \E m \in Message : Arrives(m) \/ Deliver(m)
  \/ ChannelBreaks \/ ConnectionBreaks \/ NodeUp \/ Cancel
  \/ ListenerStep
  \/ \E h \in Handler : HandlerStep(h)

RabbitSpec == RabbitInit /\ [][RabbitNext]_rabbitVars

\* Goroutines go on, callbacks return, a node comes back, the broker delivers.
RabbitFairness ==
  /\ WF_rabbitVars(ListenerStep) /\ WF_rabbitVars(NodeUp)
  /\ \A h \in Handler : WF_rabbitVars(HandlerStep(h))
  /\ \A m \in Message : WF_rabbitVars(Deliver(m))

-----------------------------------------------------------------------------

RabbitTypeOK ==
  /\ async \in BOOLEAN
  /\ up \in BOOLEAN
  /\ faults \in 0..MaxFaults
  /\ place \in [Message -> {"none", "ready", "unacked", "acked"}]
  /\ conn \in {"nil", "open", "closed"}
  /\ channel \in {"nil", "open", "closed"}
  /\ receiver \in {"open", "closed"}
  /\ receiver = "open" => channel = "open"
  /\ inbox \in Seq(Message)
  /\ listener \in {"get", "dial", "open", "declare", "consume", "error", "errclosed", "redial",
                   "range", "wait"}
  /\ slot \in Message \cup {NoMessage}
  /\ handler \in [Handler -> [pc : {"idle", "start", "call", "ack"}, message : Message \cup {NoMessage},
                             own : Message \cup {NoMessage}, dead : BOOLEAN]]
  /\ handled \subseteq Message

\* With deliveryAsync off, a message is acknowledged only once its callback has
\* returned, whatever happens to channels and connections meanwhile.
AckedIsHandled ==
  ~async => \A m \in Message : place[m] = "acked" => m \in handled

\* With deliveryAsync off, each message the broker waits for an Ack of is still to
\* be taken or is being handled: none stays in the prefetch window for nothing.
NothingStuck ==
  ~async => \A m \in Unacked :
    \/ \E i \in DOMAIN inbox : inbox[i] = m
    \/ \E h \in Active : ~handler[h].dead /\ Delivery(h) = m

\* Each message that is acknowledged has been handed to the callback, or a goroutine
\* is about to hand it over.
AckedReachesCallback ==
  \A m \in Message : place[m] = "acked" =>
    \/ m \in handled
    \/ \E h \in Handler : handler[h].pc = "start" /\ Delivery(h) = m
    \/ \E h \in Handler : handler[h].pc = "call" /\ handler[h].message = m

\* With deliveryAsync off, each message is handled in the end.
HandledInTheEnd ==
  \A m \in Message : (~async /\ place[m] = "ready") ~> (m \in handled)
=============================================================================
