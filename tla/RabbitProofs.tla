---------------------------- MODULE RabbitProofs ----------------------------
(***************************************************************************)
(* What RabbitConsumer promises whose deliveryAsync is off: an Ack comes   *)
(* after the callback, and no message stays in the prefetch window for     *)
(* nothing. And of RabbitProducer: no channel and no connection is open    *)
(* that nobody keeps.                                                      *)
(***************************************************************************)
EXTENDS RabbitConsumer, RabbitProducer, TLAPS

HandlerStates ==
  [pc : {"idle", "start", "call", "ack"}, message : Message \cup {NoMessage},
   own : Message \cup {NoMessage}, dead : BOOLEAN]

\* A handler under way has a message in its hands.
HoldsMessage ==
  \A h \in Handler :
    /\ handler[h].pc # "idle" => Delivery(h) \in Message
    /\ handler[h].pc \in {"call", "ack"} => handler[h].message \in Message

ReceiverUsed == receiver = "open" => listener \in {"range", "wait"}

TypeInv == RabbitTypeOK /\ HoldsMessage /\ ReceiverUsed

LEMMA NoHandlerType == NoHandler \in HandlerStates
BY DEF NoHandler, HandlerStates

LEMMA DeadMarked ==
  ASSUME NEW f \in [Handler -> HandlerStates]
  PROVE  [h \in Handler |-> [f[h] EXCEPT !.dead = f[h].pc # "idle"]] \in [Handler -> HandlerStates]
<1> SUFFICES ASSUME NEW h \in Handler
             PROVE  [f[h] EXCEPT !.dead = f[h].pc # "idle"] \in HandlerStates
  OBVIOUS
<1>1. f[h] \in HandlerStates
  OBVIOUS
<1>2. (f[h].pc # "idle") \in BOOLEAN
  OBVIOUS
<1> QED BY <1>1, <1>2 DEF HandlerStates

\* What ChannelDies leaves is of the right type again.
LEMMA ChannelDiesType ==
  ASSUME RabbitTypeOK, NEW next \in {"nil", "closed"}, NEW f \in [Handler -> HandlerStates],
         ChannelDies(next, f)
  PROVE  /\ channel' = next
         /\ receiver' = "closed"
         /\ inbox' \in Seq(Message)
         /\ place' \in [Message -> {"none", "ready", "unacked", "acked"}]
         /\ handler' \in [Handler -> HandlerStates]
<1>1. channel' = next /\ receiver' = "closed" /\ inbox' \in Seq(Message)
  BY DEF ChannelDies
<1>2. place' \in [Message -> {"none", "ready", "unacked", "acked"}]
  BY DEF ChannelDies, RabbitTypeOK
<1>3. handler' = [h \in Handler |-> [f[h] EXCEPT !.dead = f[h].pc # "idle"]]
  BY DEF ChannelDies
<1> QED BY <1>1, <1>2, <1>3, DeadMarked

LEMMA InitType == RabbitInit => TypeInv
<1> SUFFICES ASSUME RabbitInit PROVE TypeInv
  OBVIOUS
<1>1. handler \in [Handler -> [pc : {"idle", "start", "call", "ack"}, message : Message \cup {NoMessage},
                               own : Message \cup {NoMessage}, dead : BOOLEAN]]
  BY NoHandlerType DEF RabbitInit, HandlerStates
<1>2. async \in BOOLEAN /\ faults \in 0..MaxFaults
  BY AsyncAssumption, MaxFaultsAssumption DEF RabbitInit
<1>3. inbox \in Seq(Message)
  BY DEF RabbitInit
<1>4. up \in BOOLEAN /\ conn \in {"nil", "open", "closed"}
  BY DEF RabbitInit
<1>5. RabbitTypeOK
  BY <1>1, <1>2, <1>3, <1>4 DEF RabbitInit, RabbitTypeOK
<1>6. HoldsMessage /\ ReceiverUsed
  BY DEF RabbitInit, HoldsMessage, ReceiverUsed, NoHandler
<1> QED BY <1>5, <1>6 DEF TypeInv

LEMMA StepType == TypeInv /\ [RabbitNext]_rabbitVars => RabbitTypeOK'
<1> SUFFICES ASSUME RabbitTypeOK, HoldsMessage, ReceiverUsed, [RabbitNext]_rabbitVars PROVE RabbitTypeOK'
  BY DEF TypeInv
<1>0. handler \in [Handler -> HandlerStates]
  BY DEF RabbitTypeOK, HandlerStates
<1>a. ASSUME handler' \in [Handler -> HandlerStates] PROVE
        handler' \in [Handler -> [pc : {"idle", "start", "call", "ack"}, message : Message \cup {NoMessage},
                                  own : Message \cup {NoMessage}, dead : BOOLEAN]]
  BY <1>a DEF HandlerStates
<1>b. \A h \in Handler : Delivery(h) \in Message \cup {NoMessage}
  BY DEF Delivery, RabbitTypeOK
<1>1. ASSUME NEW m \in Message, Arrives(m) PROVE RabbitTypeOK'
  BY <1>1 DEF RabbitTypeOK, Arrives, amqp
<1>2. ASSUME NEW m \in Message, Deliver(m) PROVE RabbitTypeOK'
  BY <1>2 DEF RabbitTypeOK, Deliver
<1>3. CASE ChannelBreaks
  <2>1. ChannelDies("closed", handler)
    BY <1>3 DEF ChannelBreaks
  <2>2. faults' \in 0..MaxFaults
    BY <1>3, MaxFaultsAssumption DEF ChannelBreaks, Fault, RabbitTypeOK
  <2>4. up' \in BOOLEAN /\ conn' \in {"nil", "open", "closed"}
    BY <1>3 DEF ChannelBreaks, RabbitTypeOK
  <2>3. /\ channel' = "closed"
        /\ receiver' = "closed"
        /\ inbox' \in Seq(Message)
        /\ place' \in [Message -> {"none", "ready", "unacked", "acked"}]
        /\ handler' \in [Handler -> HandlerStates]
    BY <2>1, <1>0, ChannelDiesType
  <2> QED BY <2>2, <2>3, <2>4, <1>a, <1>3 DEF RabbitTypeOK, ChannelBreaks
<1>4. CASE ConnectionBreaks
  <2>1. faults' \in 0..MaxFaults
    BY <1>4, MaxFaultsAssumption DEF RabbitTypeOK, ConnectionBreaks, Fault
  <2>2. up' \in BOOLEAN
    BY <1>4 DEF RabbitTypeOK, ConnectionBreaks
  <2> QED BY <2>1, <2>2, <1>4 DEF RabbitTypeOK, ConnectionBreaks
<1>5. CASE NodeUp
  BY <1>5 DEF RabbitTypeOK, NodeUp, amqp
<1>6. CASE Cancel
  BY <1>6, MaxFaultsAssumption DEF RabbitTypeOK, Cancel, Fault
<1>7. CASE GetChannel
  BY <1>7 DEF RabbitTypeOK, GetChannel, ListenerGoes, broker, amqp
<1>8. CASE Dial
  BY <1>8 DEF RabbitTypeOK, Dial, ListenerGoes, broker
<1>9. CASE OpenChannel
  BY <1>9, MaxFaultsAssumption DEF RabbitTypeOK, OpenChannel, ListenerGoes, Fault
<1>10. CASE Declare
  BY <1>10, MaxFaultsAssumption DEF RabbitTypeOK, ReceiverUsed, Declare, ListenerGoes, Fault
<1>11. CASE Consume
  <2>1. CASE ~ChannelDies("closed", handler)
    BY <1>11, <2>1 DEF RabbitTypeOK, Consume, ListenerGoes
  <2>2. CASE ChannelDies("closed", handler)
    <3>1. /\ channel' = "closed"
          /\ receiver' = "closed"
          /\ inbox' \in Seq(Message)
          /\ place' \in [Message -> {"none", "ready", "unacked", "acked"}]
          /\ handler' \in [Handler -> HandlerStates]
      BY <2>2, <1>0, ChannelDiesType
    <3>2. faults' \in 0..MaxFaults
      BY <1>11, MaxFaultsAssumption DEF Consume, Fault, RabbitTypeOK
    <3>3. listener' \in {"range", "error", "errclosed"}
      BY <1>11 DEF Consume, ListenerGoes
    <3> QED BY <3>1, <3>2, <3>3, <1>a, <1>11 DEF RabbitTypeOK, Consume
  <2> QED BY <2>1, <2>2
<1>12. CASE CloseForErr
  <2>1. ChannelDies("nil", handler)
    BY <1>12 DEF CloseForErr
  <2>2. /\ channel' = "nil"
        /\ receiver' = "closed"
        /\ inbox' \in Seq(Message)
        /\ place' \in [Message -> {"none", "ready", "unacked", "acked"}]
        /\ handler' \in [Handler -> HandlerStates]
    BY <2>1, <1>0, ChannelDiesType
  <2> QED BY <2>2, <1>a, <1>12 DEF RabbitTypeOK, CloseForErr, ListenerGoes
<1>13. ASSUME NEW h \in Handler, Receive(h) PROVE RabbitTypeOK'
  <2>1. slot' \in Message /\ inbox' \in Seq(Message)
    BY <1>13 DEF RabbitTypeOK, Receive
  <2>2. handler' \in [Handler -> HandlerStates]
    BY <1>0, <1>13 DEF Receive, HandlerStates
  <2> QED BY <2>1, <2>2, <1>a, <1>13 DEF RabbitTypeOK, Receive, ListenerGoes, broker
<1>14. CASE ReceiverEnds
  <2>1. handler' \in [Handler -> HandlerStates]
    BY <1>0, <1>b, <1>14 DEF ReceiverEnds, HandlerStates
  <2> QED BY <2>1, <1>a, <1>14 DEF RabbitTypeOK, ReceiverEnds, ListenerGoes, broker, amqp
<1>15. ASSUME NEW h \in Handler, ReadBody(h) PROVE RabbitTypeOK'
  <2>1. handler' \in [Handler -> HandlerStates]
    BY <1>0, <1>b, <1>15 DEF ReadBody, HandlerStates
  <2> QED BY <2>1, <1>a, <1>15 DEF RabbitTypeOK, ReadBody, broker, amqp
<1>16. ASSUME NEW h \in Handler, CallbackEnds(h) PROVE RabbitTypeOK'
  <2>1. handler' \in [Handler -> HandlerStates]
    BY <1>0, <1>16 DEF CallbackEnds, HandlerStates
  <2>2. handled' \subseteq Message
    BY <1>16 DEF CallbackEnds, RabbitTypeOK, HoldsMessage
  <2> QED BY <2>1, <2>2, <1>a, <1>16 DEF RabbitTypeOK, CallbackEnds, broker, amqp
<1>17. ASSUME NEW h \in Handler, Ack(h) PROVE RabbitTypeOK'
  <2>1. HandlerEnds(h) \in [Handler -> HandlerStates]
    BY <1>0, NoHandlerType DEF HandlerEnds
  <2>2. /\ channel' \in {"nil", "open", "closed"}
        /\ receiver' \in {"open", "closed"}
        /\ receiver' = "open" => channel' = "open"
        /\ inbox' \in Seq(Message)
        /\ place' \in [Message -> {"none", "ready", "unacked", "acked"}]
        /\ handler' \in [Handler -> HandlerStates]
    <3>1. CASE ChannelDies("closed", HandlerEnds(h))
      BY <3>1, <2>1, ChannelDiesType
    <3>2. CASE ~ChannelDies("closed", HandlerEnds(h))
      BY <3>2, <2>1, <1>17 DEF Ack, RabbitTypeOK
    <3> QED BY <3>1, <3>2
  <2> QED BY <2>2, <1>a, <1>17 DEF RabbitTypeOK, Ack, ListenerGoes
<1>18. CASE UNCHANGED rabbitVars
  BY <1>18 DEF RabbitTypeOK, rabbitVars, broker, amqp
<1> QED
  BY <1>1, <1>2, <1>3, <1>4, <1>5, <1>6, <1>7, <1>8, <1>9, <1>10, <1>11, <1>12, <1>13, <1>14,
     <1>15, <1>16, <1>17, <1>18 DEF RabbitNext, ListenerStep, HandlerStep

LEMMA StepReceiverUsed == TypeInv /\ [RabbitNext]_rabbitVars => ReceiverUsed'
<1> SUFFICES ASSUME ReceiverUsed, [RabbitNext]_rabbitVars PROVE ReceiverUsed'
  BY DEF TypeInv
<1>1. ASSUME NEW next, NEW f, ChannelDies(next, f) PROVE ReceiverUsed'
  BY <1>1 DEF ChannelDies, ReceiverUsed
<1>2. CASE ChannelBreaks \/ CloseForErr
  BY <1>1, <1>2 DEF ChannelBreaks, CloseForErr
<1>3. ASSUME NEW h \in Handler, Ack(h) PROVE ReceiverUsed'
  BY <1>1, <1>3 DEF Ack, ReceiverUsed, ListenerGoes
<1>4. ASSUME NEW m \in Message, Arrives(m) \/ Deliver(m) PROVE ReceiverUsed'
  BY <1>4 DEF Arrives, Deliver, amqp, ReceiverUsed
<1>5. CASE ConnectionBreaks \/ NodeUp \/ Cancel
  BY <1>5 DEF ConnectionBreaks, NodeUp, Cancel, amqp, ReceiverUsed
<1>6. CASE GetChannel \/ Dial \/ OpenChannel \/ Declare
  BY <1>6 DEF GetChannel, Dial, OpenChannel, Declare, ListenerGoes, amqp, ReceiverUsed
<1>7. CASE Consume \/ ReceiverEnds
  BY <1>1, <1>7 DEF Consume, ReceiverEnds, ListenerGoes, amqp, ReceiverUsed
<1>8. ASSUME NEW h \in Handler, Receive(h) \/ ReadBody(h) \/ CallbackEnds(h) PROVE ReceiverUsed'
  BY <1>8 DEF Receive, ReadBody, CallbackEnds, ListenerGoes, amqp, ReceiverUsed
<1>9. CASE UNCHANGED rabbitVars
  BY <1>9 DEF rabbitVars, amqp, ReceiverUsed
<1> QED
  BY <1>2, <1>3, <1>4, <1>5, <1>6, <1>7, <1>8, <1>9 DEF RabbitNext, ListenerStep, HandlerStep

LEMMA StepHoldsMessage == TypeInv /\ [RabbitNext]_rabbitVars => HoldsMessage'
<1> SUFFICES ASSUME RabbitTypeOK, HoldsMessage, [RabbitNext]_rabbitVars PROVE HoldsMessage'
  BY DEF TypeInv
<1>0. handler \in [Handler -> HandlerStates]
  BY DEF RabbitTypeOK, HandlerStates
<1>1. CASE UNCHANGED <<slot, handler>>
  BY <1>1 DEF HoldsMessage, Delivery
<1>2. ASSUME NEW next, ChannelDies(next, handler), UNCHANGED slot PROVE HoldsMessage'
  <2>1. handler' = [h \in Handler |-> [handler[h] EXCEPT !.dead = handler[h].pc # "idle"]]
    BY <1>2 DEF ChannelDies
  <2>2. UNCHANGED slot
    BY <1>2
  <2>3. \A h \in Handler : /\ handler'[h].pc = handler[h].pc
                           /\ handler'[h].own = handler[h].own
                           /\ handler'[h].message = handler[h].message
    BY <2>1, <1>0 DEF HandlerStates
  <2> QED BY <2>2, <2>3 DEF HoldsMessage, Delivery
<1>3. ASSUME NEW h \in Handler, Receive(h) PROVE HoldsMessage'
  <2>1. slot' \in Message
    BY <1>3 DEF Receive, RabbitTypeOK
  <2>2. handler' = [handler EXCEPT ![h].pc = "start"]
    BY <1>3 DEF Receive
  <2>3. \A g \in Handler : /\ handler'[g].own = handler[g].own
                           /\ handler'[g].message = handler[g].message
                           /\ handler'[g].pc = IF g = h THEN "start" ELSE handler[g].pc
    BY <2>2, <1>0 DEF HandlerStates
  <2> QED BY <2>1, <2>3, <1>0 DEF HoldsMessage, Delivery, HandlerStates
<1>4. CASE ReceiverEnds
  <2>1. \A h \in Handler : handler'[h] =
          IF handler[h].pc # "idle" THEN [handler[h] EXCEPT !.own = Delivery(h)] ELSE handler[h]
    BY <1>4 DEF ReceiverEnds, Active
  <2>2. \A h \in Handler : /\ handler'[h].pc = handler[h].pc
                           /\ handler'[h].message = handler[h].message
                           /\ handler[h].pc # "idle" => handler'[h].own = Delivery(h)
    BY <2>1, <1>0 DEF HandlerStates
  <2> QED BY <2>2, MessageAssumption DEF HoldsMessage, Delivery
<1>5. ASSUME NEW h \in Handler, ReadBody(h) PROVE HoldsMessage'
  <2>1. \A g \in Handler : /\ handler'[g].own = handler[g].own
                           /\ handler'[g].message = IF g = h THEN Delivery(h) ELSE handler[g].message
                           /\ handler'[g].pc = IF g = h THEN "call" ELSE handler[g].pc
    BY <1>5, <1>0 DEF ReadBody, HandlerStates
  <2>2. UNCHANGED slot /\ handler[h].pc = "start"
    BY <1>5 DEF ReadBody
  <2> QED BY <2>1, <2>2 DEF HoldsMessage, Delivery
<1>6. ASSUME NEW h \in Handler, CallbackEnds(h) PROVE HoldsMessage'
  <2>1. \A g \in Handler : /\ handler'[g].own = handler[g].own
                           /\ handler'[g].message = handler[g].message
                           /\ handler'[g].pc = IF g = h THEN "ack" ELSE handler[g].pc
    BY <1>6, <1>0 DEF CallbackEnds, HandlerStates
  <2>2. UNCHANGED slot /\ handler[h].pc = "call"
    BY <1>6 DEF CallbackEnds
  <2> QED BY <2>1, <2>2 DEF HoldsMessage, Delivery
<1>7. ASSUME NEW h \in Handler, Ack(h) PROVE HoldsMessage'
  <2>1. UNCHANGED slot
    BY <1>7 DEF Ack
  <2>2. HandlerEnds(h) \in [Handler -> HandlerStates]
    BY <1>0, NoHandlerType DEF HandlerEnds
  <2>3. \A g \in Handler : /\ handler'[g].own = HandlerEnds(h)[g].own
                           /\ handler'[g].message = HandlerEnds(h)[g].message
                           /\ handler'[g].pc = HandlerEnds(h)[g].pc
    BY <1>7, <2>2 DEF Ack, ChannelDies, HandlerStates
  <2>4. \A g \in Handler : HandlerEnds(h)[g] = IF g = h THEN NoHandler ELSE handler[g]
    BY <1>0 DEF HandlerEnds
  <2>5. NoHandler.pc = "idle"
    BY DEF NoHandler
  <2> QED BY <2>1, <2>3, <2>4, <2>5 DEF HoldsMessage, Delivery
<1>8. ASSUME NEW m \in Message, Arrives(m) \/ Deliver(m) PROVE HoldsMessage'
  BY <1>1, <1>8 DEF Arrives, Deliver
<1>9. CASE ConnectionBreaks \/ NodeUp \/ Cancel \/ GetChannel \/ Dial \/ OpenChannel
           \/ Declare \/ Consume \/ ChannelBreaks \/ CloseForErr
  BY <1>1, <1>2, <1>9 DEF ChannelBreaks, CloseForErr, ConnectionBreaks, NodeUp, Cancel, GetChannel, Dial, OpenChannel, Declare, Consume
<1>10. CASE UNCHANGED rabbitVars
  BY <1>1, <1>10 DEF rabbitVars
<1> QED
  BY <1>3, <1>4, <1>5, <1>6, <1>7, <1>8, <1>9, <1>10 DEF RabbitNext, ListenerStep, HandlerStep

LEMMA TypeInvStep == TypeInv /\ [RabbitNext]_rabbitVars => TypeInv'
BY StepType, StepHoldsMessage, StepReceiverUsed DEF TypeInv

LEMMA TypeInvHolds == RabbitSpec => []TypeInv
BY InitType, TypeInvStep, PTL DEF RabbitSpec

\* Every variable keeps its type; a receiver is open only on an open channel.
THEOREM TypeCorrect == RabbitSpec => []RabbitTypeOK
BY TypeInvHolds, PTL DEF TypeInv

-----------------------------------------------------------------------------

\* With deliveryAsync off there is one handler under way, while the listener waits, and
\* its delivery is the variable of the loop.
OneAtATime ==
  /\ \A g, h \in Active : g = h
  /\ Active # {} => listener = "wait"
  /\ \A h \in Handler : handler[h].own = NoMessage
  /\ \A h \in Handler : handler[h].pc = "idle" => ~handler[h].dead
  /\ \A h \in Handler : handler[h].pc \in {"call", "ack"} => handler[h].message = slot
  /\ \A h \in Handler : handler[h].pc = "ack" => slot \in handled

\* What waits in the receiver, or is handled on an open channel, is there once and has
\* no Ack yet.
EachOnce ==
  /\ \A i \in DOMAIN inbox : place[inbox[i]] = "unacked"
  /\ \A i, j \in DOMAIN inbox : inbox[i] = inbox[j] => i = j
  /\ \A h \in Active : ~handler[h].dead =>
       place[slot] = "unacked" /\ \A i \in DOMAIN inbox : inbox[i] # slot

NoneStuck ==
  \A m \in Unacked :
    \/ \E i \in DOMAIN inbox : inbox[i] = m
    \/ \E h \in Active : ~handler[h].dead /\ slot = m

AckedHandled == \A m \in Message : place[m] = "acked" => m \in handled

SyncInv == ~async => OneAtATime /\ EachOnce /\ NoneStuck /\ AckedHandled

LEMMA SyncInvImplies == SyncInv => AckedIsHandled /\ NothingStuck
<1> SUFFICES ASSUME SyncInv PROVE AckedIsHandled /\ NothingStuck
  OBVIOUS
<1>1. AckedIsHandled
  BY DEF SyncInv, AckedHandled, AckedIsHandled
<1>2. CASE async
  BY <1>1, <1>2 DEF NothingStuck
<1>3. CASE ~async
  <2>1. \A h \in Active : Delivery(h) = slot
    BY <1>3 DEF SyncInv, OneAtATime, Delivery, Active
  <2>2. NoneStuck
    BY <1>3 DEF SyncInv
  <2> QED BY <1>1, <2>1, <2>2 DEF NothingStuck, NoneStuck
<1> QED BY <1>1, <1>2, <1>3

LEMMA InitSync == RabbitInit => SyncInv
<1> SUFFICES ASSUME RabbitInit PROVE OneAtATime /\ EachOnce /\ NoneStuck /\ AckedHandled
  BY DEF SyncInv
<1>1. Active = {} /\ Unacked = {} /\ DOMAIN inbox = {}
  BY DEF RabbitInit, Active, Unacked, NoHandler
<1>2. OneAtATime
  BY <1>1 DEF RabbitInit, OneAtATime, NoHandler
<1>3. EachOnce /\ NoneStuck
  BY <1>1 DEF EachOnce, NoneStuck
<1>4. AckedHandled
  BY DEF RabbitInit, AckedHandled
<1> QED BY <1>2, <1>3, <1>4

\* A step that leaves the messages and the handlers alone, and a waiting listener.
LEMMA SyncUntouched ==
  ASSUME SyncInv, ~async, UNCHANGED <<place, inbox, slot, handler, handled>>,
         listener = "wait" => listener' = "wait"
  PROVE  (OneAtATime /\ EachOnce /\ NoneStuck /\ AckedHandled)'
BY DEF SyncInv, OneAtATime, EachOnce, NoneStuck, AckedHandled, Active, Unacked

\* The channel dies under the handlers of now.
LEMMA SyncChannelDies ==
  ASSUME TypeInv, SyncInv, ~async, NEW next, ChannelDies(next, handler),
         UNCHANGED <<slot, handled>>, listener = "wait" => listener' = "wait"
  PROVE  (OneAtATime /\ EachOnce /\ NoneStuck /\ AckedHandled)'
<1>0. handler \in [Handler -> HandlerStates]
  BY DEF TypeInv, RabbitTypeOK, HandlerStates
<1>1. handler' = [h \in Handler |-> [handler[h] EXCEPT !.dead = handler[h].pc # "idle"]]
  BY DEF ChannelDies
<1>2. \A h \in Handler : /\ handler'[h].pc = handler[h].pc
                         /\ handler'[h].own = handler[h].own
                         /\ handler'[h].message = handler[h].message
                         /\ handler'[h].dead <=> handler[h].pc # "idle"
  BY <1>0, <1>1 DEF HandlerStates
<1>3. Active' = Active
  BY <1>2 DEF Active
<1>4. OneAtATime'
  BY <1>2, <1>3 DEF OneAtATime, SyncInv
<1>5. DOMAIN inbox' = {}
  BY DEF ChannelDies
<1>6. EachOnce'
  BY <1>2, <1>3, <1>5 DEF EachOnce, Active
<1>7. \A m \in Message : place'[m] # "unacked" /\ (place'[m] = "acked" => place[m] = "acked")
  BY DEF ChannelDies
<1>8. NoneStuck' /\ AckedHandled'
  BY <1>7 DEF NoneStuck, Unacked, AckedHandled, SyncInv
<1> QED BY <1>4, <1>6, <1>8

LEMMA SyncStep == TypeInv /\ SyncInv /\ [RabbitNext]_rabbitVars => SyncInv'
<1> SUFFICES ASSUME TypeInv, SyncInv, [RabbitNext]_rabbitVars, ~async'
             PROVE  (OneAtATime /\ EachOnce /\ NoneStuck /\ AckedHandled)'
  BY DEF SyncInv
<1> DEFINE Goal == OneAtATime /\ EachOnce /\ NoneStuck /\ AckedHandled
<1>a. ~async
  BY DEF RabbitNext, ListenerStep, HandlerStep, Arrives, Deliver, ChannelBreaks, ConnectionBreaks, NodeUp, Cancel,
         GetChannel, Dial, OpenChannel, Declare, Consume, CloseForErr, Receive, ReceiverEnds,
         ReadBody, CallbackEnds, Ack, rabbitVars
<1>b. Goal
  BY <1>a DEF SyncInv
<1>c. handler \in [Handler -> HandlerStates]
  BY DEF TypeInv, RabbitTypeOK, HandlerStates
<1>d. inbox \in Seq(Message) /\ place \in [Message -> {"none", "ready", "unacked", "acked"}]
  BY DEF TypeInv, RabbitTypeOK
<1>1. ASSUME NEW m \in Message, Arrives(m) PROVE Goal'
  <2>1. /\ place' = [place EXCEPT ![m] = "ready"]
        /\ place[m] = "none"
        /\ UNCHANGED <<inbox, slot, handler, handled, listener>>
    BY <1>1 DEF Arrives, amqp
  <2>2. Active' = Active /\ OneAtATime'
    BY <2>1, <1>b DEF OneAtATime, Active
  <2>3. \A i \in DOMAIN inbox : inbox[i] # m
    BY <2>1, <1>b DEF EachOnce
  <2>4. EachOnce'
    BY <2>1, <2>2, <2>3, <1>b, <1>d DEF EachOnce
  <2>5. NoneStuck' /\ AckedHandled'
    BY <2>1, <2>2, <1>b, <1>d DEF NoneStuck, AckedHandled, Unacked
  <2> QED BY <2>2, <2>4, <2>5
<1>2. ASSUME NEW m \in Message, Deliver(m) PROVE Goal'
  <2>1. /\ place' = [place EXCEPT ![m] = "unacked"]
        /\ place[m] = "ready"
        /\ inbox' = Append(inbox, m)
        /\ UNCHANGED <<slot, handler, handled, listener>>
    BY <1>2 DEF Deliver
  <2>2. Active' = Active /\ OneAtATime'
    BY <2>1, <1>b DEF OneAtATime, Active
  <2>3. /\ DOMAIN inbox' = 1..(Len(inbox) + 1)
        /\ DOMAIN inbox = 1..Len(inbox)
        /\ Len(inbox) \in Nat
        /\ inbox'[Len(inbox) + 1] = m
        /\ \A i \in 1..Len(inbox) : inbox'[i] = inbox[i] /\ inbox[i] \in Message
    BY <2>1, <1>d
  <2>4. \A i \in 1..Len(inbox) : inbox[i] # m
    BY <2>1, <2>3, <1>b DEF EachOnce
  <2>5. \A n \in Message : place'[n] = IF n = m THEN "unacked" ELSE place[n]
    BY <2>1, <1>d
  <2>6. \A i \in DOMAIN inbox' : i \in 1..Len(inbox) \/ i = Len(inbox) + 1
    BY <2>3
  <2>7. \A i \in DOMAIN inbox' : place'[inbox'[i]] = "unacked"
    BY <2>3, <2>5, <2>6, <1>b DEF EachOnce
  <2>8. \A i, j \in DOMAIN inbox' : inbox'[i] = inbox'[j] => i = j
    BY <2>3, <2>4, <2>6, <1>b DEF EachOnce
  <2>9. \A h \in Active : ~handler[h].dead =>
          slot # m /\ place'[slot] = "unacked" /\ \A i \in DOMAIN inbox' : inbox'[i] # slot
    <3> SUFFICES ASSUME NEW h \in Active, ~handler[h].dead
                 PROVE  slot # m /\ place'[slot] = "unacked" /\ \A i \in DOMAIN inbox' : inbox'[i] # slot
      OBVIOUS
    <3>1. place[slot] = "unacked" /\ \A i \in DOMAIN inbox : inbox[i] # slot
      BY <1>b DEF EachOnce
    <3>2. slot # m
      BY <2>1, <3>1
    <3>3. place'[slot] = "unacked"
      BY <2>1, <3>1, <3>2, <1>d
    <3> QED BY <2>3, <2>6, <3>1, <3>2, <3>3
  <2>10. EachOnce'
    BY <2>1, <2>2, <2>7, <2>8, <2>9 DEF EachOnce
  <2>11. NoneStuck'
    BY <2>1, <2>2, <2>3, <2>5, <1>b DEF NoneStuck, Unacked
  <2>12. AckedHandled'
    BY <2>1, <2>5, <1>b DEF AckedHandled
  <2> QED BY <2>2, <2>10, <2>11, <2>12
<1>3. CASE ChannelBreaks \/ CloseForErr
  BY <1>3, <1>a, <1>b, SyncChannelDies DEF ChannelBreaks, CloseForErr
<1>4. CASE ConnectionBreaks \/ NodeUp \/ Cancel \/ UNCHANGED rabbitVars
  BY <1>4, <1>a, SyncUntouched DEF ConnectionBreaks, NodeUp, Cancel, rabbitVars, amqp, broker
<1>5. CASE GetChannel \/ Dial \/ OpenChannel \/ Declare \/ Consume
  BY <1>5, <1>a, SyncUntouched, SyncChannelDies DEF GetChannel, Dial, OpenChannel, Declare, Consume, amqp, broker
<1>6. ASSUME NEW h \in Handler, Receive(h) PROVE Goal'
  <2>1. /\ listener = "range" /\ listener' = "wait"
        /\ inbox # <<>>
        /\ slot' = Head(inbox)
        /\ inbox' = Tail(inbox)
        /\ handler' = [handler EXCEPT ![h].pc = "start"]
        /\ UNCHANGED <<place, handled>>
    BY <1>6, <1>a DEF Receive, ListenerGoes, broker
  <2>2. Active = {}
    BY <2>1, <1>b DEF OneAtATime
  <2>3. \A g \in Handler : /\ handler'[g].own = handler[g].own
                           /\ handler'[g].dead = handler[g].dead
                           /\ handler'[g].pc = IF g = h THEN "start" ELSE "idle"
    BY <2>1, <2>2, <1>c DEF HandlerStates, Active
  <2>4. Active' = {h} /\ handler[h].pc = "idle"
    BY <2>2, <2>3 DEF Active
  <2>5. OneAtATime'
    BY <2>1, <2>3, <2>4, <1>b DEF OneAtATime
  <2>6. /\ Len(inbox) \in Nat /\ Len(inbox) > 0
        /\ DOMAIN inbox = 1..Len(inbox)
        /\ DOMAIN inbox' = 1..(Len(inbox) - 1)
        /\ slot' = inbox[1]
        /\ \A i \in DOMAIN inbox' : inbox'[i] = inbox[i + 1] /\ i + 1 \in DOMAIN inbox
    BY <2>1, <1>d
  <2>7. /\ \A i \in DOMAIN inbox : place[inbox[i]] = "unacked"
        /\ \A i, j \in DOMAIN inbox : inbox[i] = inbox[j] => i = j
    BY <1>b DEF EachOnce
  <2>8. \A i, j \in DOMAIN inbox' : inbox'[i] = inbox'[j] => i = j
    BY <2>6, <2>7
  <2>9. \A i \in DOMAIN inbox' : place[inbox'[i]] = "unacked" /\ inbox'[i] # slot'
    BY <2>6, <2>7
  <2>10. place[slot'] = "unacked"
    BY <2>6, <2>7
  <2>11. EachOnce'
    BY <2>1, <2>8, <2>9, <2>10 DEF EachOnce
  <2>12. ~handler'[h].dead
    BY <2>3, <2>4, <1>b DEF OneAtATime
  <2>13. NoneStuck'
    <3> SUFFICES ASSUME NEW m \in Unacked'
                 PROVE  (\E i \in DOMAIN inbox' : inbox'[i] = m) \/ slot' = m
      BY <2>4, <2>12 DEF NoneStuck
    <3>1. m \in Unacked
      BY <2>1 DEF Unacked
    <3>2. PICK i \in DOMAIN inbox : inbox[i] = m
      BY <3>1, <2>2, <1>b DEF NoneStuck
    <3>3. CASE i = 1
      BY <3>2, <3>3, <2>6
    <3>4. CASE i # 1
      <4>1. i - 1 \in DOMAIN inbox'
        BY <3>4, <2>6
      <4>2. inbox'[i - 1] = m
        BY <4>1, <3>2, <2>6
      <4> QED BY <4>1, <4>2
    <3> QED BY <3>3, <3>4
  <2>14. AckedHandled'
    BY <2>1, <1>b DEF AckedHandled
  <2> QED BY <2>5, <2>11, <2>13, <2>14
<1>7. CASE ReceiverEnds
  <2>1. /\ listener = "range"
        /\ inbox = <<>>
        /\ UNCHANGED <<place, inbox, handled>>
        /\ handler' = [h \in Handler |->
             IF h \in Active THEN [handler[h] EXCEPT !.own = Delivery(h)] ELSE handler[h]]
    BY <1>7 DEF ReceiverEnds, broker, amqp
  <2>2. Active = {}
    BY <2>1, <1>b DEF OneAtATime
  <2>3. \A h \in Handler : handler'[h] = handler[h] /\ handler[h].pc = "idle"
    BY <2>1, <2>2 DEF Active
  <2>4. Active' = {} /\ DOMAIN inbox = {}
    BY <2>1, <2>3 DEF Active
  <2>5. OneAtATime'
    BY <2>3, <2>4, <1>b DEF OneAtATime
  <2>6. EachOnce' /\ NoneStuck' /\ AckedHandled'
    BY <2>1, <2>2, <2>4, <1>b DEF EachOnce, NoneStuck, Unacked, AckedHandled
  <2> QED BY <2>5, <2>6
<1>8. ASSUME NEW h \in Handler, ReadBody(h) \/ CallbackEnds(h) PROVE Goal'
  <2>1. UNCHANGED <<place, inbox, slot, listener>>
    BY <1>8 DEF ReadBody, CallbackEnds, broker, amqp
  <2>2. \A g \in Handler : /\ handler'[g].own = handler[g].own
                           /\ handler'[g].dead = handler[g].dead
                           /\ handler'[g].pc = "idle" <=> handler[g].pc = "idle"
    BY <1>8, <1>c DEF ReadBody, CallbackEnds, HandlerStates
  <2>3. Active' = Active
    BY <2>2 DEF Active
  <2>4. EachOnce' /\ NoneStuck'
    BY <2>1, <2>2, <2>3, <1>b DEF EachOnce, NoneStuck, Unacked, Active
  <2>5. handled \subseteq handled'
    BY <1>8 DEF ReadBody, CallbackEnds
  <2>6. AckedHandled'
    BY <2>1, <2>5, <1>b DEF AckedHandled
  <2>7. Delivery(h) = slot
    BY <1>b DEF OneAtATime, Delivery
  <2>8. CASE ReadBody(h)
    <3>1. \A g \in Handler : /\ handler'[g].message = IF g = h THEN slot ELSE handler[g].message
                             /\ handler'[g].pc = IF g = h THEN "call" ELSE handler[g].pc
      BY <2>7, <2>8, <1>c DEF ReadBody, HandlerStates
    <3> QED BY <3>1, <2>1, <2>2, <2>3, <2>4, <2>5, <2>6, <1>b DEF OneAtATime
  <2>9. CASE CallbackEnds(h)
    <3>1. \A g \in Handler : /\ handler'[g].message = handler[g].message
                             /\ handler'[g].pc = IF g = h THEN "ack" ELSE handler[g].pc
      BY <2>9, <1>c DEF CallbackEnds, HandlerStates
    <3>2. handler[h].message = slot /\ slot \in handled'
      BY <2>9, <1>b DEF CallbackEnds, OneAtATime
    <3> QED BY <3>1, <3>2, <2>1, <2>2, <2>3, <2>4, <2>5, <2>6, <1>b DEF OneAtATime
  <2> QED BY <1>8, <2>8, <2>9
<1>9. ASSUME NEW h \in Handler, Ack(h) PROVE Goal'
  <2>1. handler[h].pc = "ack" /\ h \in Active /\ Delivery(h) = slot /\ slot \in handled
    BY <1>9, <1>b DEF Ack, OneAtATime, Active, Delivery
  <2>2. place[slot] = "unacked" \/ handler[h].dead
    BY <2>1, <1>b DEF EachOnce
  <2>3. /\ handler' = HandlerEnds(h)
        /\ place' = IF handler[h].dead THEN place ELSE [place EXCEPT ![slot] = "acked"]
        /\ UNCHANGED <<inbox, slot, handled>>
    BY <2>1, <2>2, <1>9 DEF Ack
  <2>4. \A g \in Handler : handler'[g] = IF g = h THEN NoHandler ELSE handler[g]
    BY <2>3, <1>c DEF HandlerEnds
  <2>5. \A g \in Handler : handler'[g].pc = "idle"
    BY <2>1, <2>4, <1>b DEF OneAtATime, Active, NoHandler
  <2>6. Active' = {}
    BY <2>5 DEF Active
  <2>7. OneAtATime'
    BY <2>4, <2>5, <2>6, <1>b DEF OneAtATime, NoHandler
  <2>8. \A m \in Message : place'[m] = IF ~handler[h].dead /\ m = slot THEN "acked" ELSE place[m]
    BY <2>3, <1>d
  <2>9. \A i \in DOMAIN inbox : inbox[i] \in Message /\ (~handler[h].dead => inbox[i] # slot)
    BY <2>1, <1>b, <1>d DEF EachOnce
  <2>10. EachOnce'
    BY <2>3, <2>6, <2>8, <2>9, <1>b DEF EachOnce
  <2>11. NoneStuck'
    <3> SUFFICES ASSUME NEW m \in Message, place'[m] = "unacked"
                 PROVE  \E i \in DOMAIN inbox : inbox[i] = m
      BY <2>3 DEF NoneStuck, Unacked
    <3>1. place[m] = "unacked" /\ (~handler[h].dead => m # slot)
      BY <2>8
    <3>2. \A g \in Active : g = h
      BY <2>1, <1>b DEF OneAtATime
    <3> QED BY <3>1, <3>2, <1>b DEF NoneStuck, Unacked
  <2>12. AckedHandled'
    BY <2>1, <2>3, <2>8, <1>b DEF AckedHandled
  <2> QED BY <2>7, <2>10, <2>11, <2>12
<1> QED
  BY <1>1, <1>2, <1>3, <1>4, <1>5, <1>6, <1>7, <1>8, <1>9 DEF RabbitNext, ListenerStep, HandlerStep

LEMMA SyncInvHolds == RabbitSpec => []SyncInv
BY InitSync, SyncStep, TypeInvHolds, PTL DEF RabbitSpec

\* With deliveryAsync off a message is acknowledged only after its callback, for any
\* messages and prefetch window, whatever happens to channels and connections.
THEOREM AckedIsHandledHolds == RabbitSpec => []AckedIsHandled
BY SyncInvHolds, SyncInvImplies, PTL

\* With deliveryAsync off no message stays unacknowledged that is neither waiting in
\* the receiver nor being handled.
THEOREM NothingStuckHolds == RabbitSpec => []NothingStuck
BY SyncInvHolds, SyncInvImplies, PTL

-----------------------------------------------------------------------------
(* The producer.                                                           *)

PubInv == PubTypeOK /\ NothingLeaks

LEMMA InitPub == PubInit => PubInv
BY DEF PubInit, PubInv, PubTypeOK, NothingLeaks

\* Closing some channels, with or without a connection, opens none.
LEMMA WithoutCloses ==
  ASSUME PubTypeOK, NEW k, NEW chans, opened' = Without(k, chans)
  PROVE  /\ opened' \in [Chan -> Conn \union {NoConn}]
         /\ \A c \in Chan : opened'[c] # NoConn => opened'[c] = opened[c] /\ opened[c] # k /\ c \notin chans
BY DEF Without, PubTypeOK

\* After refreshConn the connection it has dialed is the only one, and no channel is open.
LEMMA RefreshCleans ==
  ASSUME PubInv, NEW chans, refreshConn(chans)
  PROVE  /\ opened' \in [Chan -> Conn \union {NoConn}]
         /\ \A c \in Chan : opened'[c] = NoConn
         /\ exConn' \in Conn \union {NoConn} /\ connections' \subseteq Conn
         /\ connections' \subseteq {exConn'}
<1>1. opened' = Without(exConn, chans)
  BY DEF refreshConn
<1>2. \A c \in Chan : opened'[c] = NoConn
  BY <1>1, WithoutCloses DEF PubInv, NothingLeaks
<1>3. /\ exConn' \in Conn \union {NoConn} /\ connections' \subseteq Conn
      /\ connections' \subseteq {exConn'}
  BY DEF refreshConn, PubInv, PubTypeOK, NothingLeaks, UnusedConn
<1> QED
  BY <1>1, <1>2, <1>3, WithoutCloses DEF PubInv

LEMMA StepPub == PubInv /\ [PubNext]_pubVars => PubInv'
<1> SUFFICES ASSUME PubInv, [PubNext]_pubVars PROVE PubInv'
  OBVIOUS
<1>0. PubTypeOK /\ NothingLeaks
  BY DEF PubInv
<1>1. CASE UNCHANGED pubVars
  BY <1>0, <1>1 DEF pubVars, PubInv, PubTypeOK, NothingLeaks
<1>2. ASSUME NEW c \in Chan, ChannelCloses(c) PROVE PubInv'
  BY <1>0, <1>2 DEF ChannelCloses, PubInv, PubTypeOK, NothingLeaks
<1>3. ASSUME NEW k \in Conn, ConnectionCloses(k) PROVE PubInv'
  <2>1. /\ opened' \in [Chan -> Conn \union {NoConn}]
        /\ \A c \in Chan : opened'[c] # NoConn => opened'[c] = opened[c]
    BY <1>0, <1>3, WithoutCloses DEF ConnectionCloses
  <2> QED
    BY <1>0, <1>3, <2>1 DEF ConnectionCloses, PubInv, PubTypeOK, NothingLeaks
<1>4. CASE NodesChange
  BY <1>0, <1>4 DEF NodesChange, PubInv, PubTypeOK, NothingLeaks
<1>5. ASSUME NEW w \in Publisher, getChannel(w) \/ NewChannelFails(w) \/ Publish(w) PROVE PubInv'
  BY <1>0, <1>5 DEF getChannel, NewChannelFails, Publish, Go, PubInv, PubTypeOK, NothingLeaks
<1>6. ASSUME NEW w \in Publisher, NewChannelDials(w) PROVE PubInv'
  BY <1>0, <1>6, RefreshCleans DEF NewChannelDials, Go, PubInv, PubTypeOK, NothingLeaks
<1>7. ASSUME NEW w \in Publisher, NewChannel(w) PROVE PubInv'
  <2>1. \A c \in Chan : opened[c] = NoConn
    BY <1>0, <1>7, ChanAssumption DEF NewChannel, NothingLeaks
  <2> QED
    BY <1>0, <1>7, <2>1 DEF NewChannel, UnusedChan, Go, PubInv, PubTypeOK, NothingLeaks
<1>8. ASSUME NEW w \in Publisher, ProducerCloseForErr(w) PROVE PubInv'
  <2>1. CASE refreshConn({pChannel})
    BY <1>0, <1>8, <2>1, RefreshCleans DEF ProducerCloseForErr, Go, PubInv, PubTypeOK, NothingLeaks
  <2>2. CASE opened' = Without(NoConn, {pChannel}) /\ UNCHANGED <<connections, exConn>>
    <3>1. /\ opened' \in [Chan -> Conn \union {NoConn}]
          /\ \A c \in Chan : opened'[c] = NoConn
      BY <1>0, <2>2, WithoutCloses DEF NothingLeaks
    <3> QED
      BY <1>0, <1>8, <2>2, <3>1 DEF ProducerCloseForErr, Go, PubInv, PubTypeOK, NothingLeaks
  <2> QED
    BY <1>8, <2>1, <2>2 DEF ProducerCloseForErr
<1> QED
  BY <1>1, <1>2, <1>3, <1>4, <1>5, <1>6, <1>7, <1>8 DEF PubNext

LEMMA PubInvHolds == PubSpec => []PubInv
BY InitPub, StepPub, PTL DEF PubSpec

\* Whatever errors several publishers meet in whatever order, no connection stays open
\* but the exchange's and no channel but the producer's, for any number of publishers.
THEOREM NothingLeaksHolds == PubSpec => []NothingLeaks
BY PubInvHolds, PTL DEF PubInv
=============================================================================
