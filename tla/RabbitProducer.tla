--------------------------- MODULE RabbitProducer ---------------------------
(***************************************************************************)
(* RabbitMQProducer of data/rabbit_mq_producer.go over the producer and    *)
(* the exchange of data/uamqp. All publishers share one channel, opened by *)
(* the first that finds none and thrown away by any that meets an error,   *)
(* whichever channel that error came from.                                 *)
(*                                                                         *)
(* The client library and the broker are external: channels die with their *)
(* connection, and a dead one answers amqp.ErrClosed.                      *)
(***************************************************************************)
EXTENDS Naturals, FiniteSets

CONSTANTS
  Publisher,   \* goroutines in Publish
  Chan,        \* channels: more than publishers, so that one is always free
  Conn,        \* connections
  NoChan, NoConn

ASSUME ChanAssumption == NoChan \notin Chan
ASSUME ConnAssumption == NoConn \notin Conn

VARIABLES
  nodeUp,       \* some node of Nodes takes connections
  opened,       \* opened[c]: the connection on which channel c is open
  connections,  \* the connections that are open
  exConn,       \* Exchange.conn
  pChannel,     \* Producer.Channel
  doing,        \* each publisher: "idle", "publish", "error", "errclosed"
  holds         \* holds[w]: the channel ch of publisher w

pubVars == <<nodeUp, opened, connections, exConn, pChannel, doing, holds>>

\* NewExchange has tried to connect once.
PubInit ==
  /\ nodeUp \in BOOLEAN
  /\ opened = [c \in Chan |-> NoConn]
  /\ \/ nodeUp /\ exConn \in Conn /\ connections = {exConn}
     \/ ~nodeUp /\ exConn = NoConn /\ connections = {}
  /\ pChannel = NoChan
  /\ doing = [w \in Publisher |-> "idle"]
  /\ holds = [w \in Publisher |-> NoChan]

\* Channels and connections nobody refers to, one of which the library hands out next.
UnusedChan == {c \in Chan : opened[c] = NoConn /\ c # pChannel /\ \A w \in Publisher : c # holds[w]}
UnusedConn == Conn \ (connections \union {exConn})

Without(k, chans) == [c \in Chan |-> IF opened[c] = k \/ c \in chans THEN NoConn ELSE opened[c]]

Go(w, to) == doing' = [doing EXCEPT ![w] = to]

-----------------------------------------------------------------------------
(* The broker and the network.                                             *)

ChannelCloses(c) ==
  /\ opened[c] # NoConn
  /\ opened' = [opened EXCEPT ![c] = NoConn]
  /\ UNCHANGED <<nodeUp, connections, exConn, pChannel, doing, holds>>

ConnectionCloses(k) ==
  /\ k \in connections
  /\ connections' = connections \ {k}
  /\ opened' = Without(k, {})
  /\ UNCHANGED <<nodeUp, exConn, pChannel, doing, holds>>

NodesChange ==
  /\ nodeUp' = ~nodeUp
  /\ UNCHANGED <<opened, connections, exConn, pChannel, doing, holds>>

-----------------------------------------------------------------------------
\* refreshConn, after these channels have been closed: the connection is closed before
\* another is dialed, and stays when no node takes one.
refreshConn(chans) ==
  /\ opened' = Without(exConn, chans)
  /\ \/ nodeUp /\ \E k \in UnusedConn : exConn' = k /\ connections' = (connections \ {exConn}) \union {k}
     \/ ~nodeUp /\ connections' = connections \ {exConn} /\ UNCHANGED exConn

\* getChannel finds a channel, open or not.
getChannel(w) ==
  /\ doing[w] = "idle"
  /\ pChannel # NoChan
  /\ holds' = [holds EXCEPT ![w] = pChannel]
  /\ Go(w, "publish")
  /\ UNCHANGED <<nodeUp, opened, connections, exConn, pChannel>>

\* NewChannel without a connection: it dials one, and the channel is then opened on it.
NewChannelDials(w) ==
  /\ doing[w] = "idle"
  /\ pChannel = NoChan /\ exConn = NoConn
  /\ IF nodeUp THEN UNCHANGED doing ELSE Go(w, "error")
  /\ refreshConn({})
  /\ UNCHANGED <<nodeUp, pChannel, holds>>

\* NewChannel fails: on a closed connection, or when the exchange is refused and it closes
\* the channel it has opened.
NewChannelFails(w) ==
  /\ doing[w] = "idle"
  /\ pChannel = NoChan /\ exConn # NoConn
  /\ Go(w, IF exConn \in connections THEN "error" ELSE "errclosed")
  /\ UNCHANGED <<nodeUp, opened, connections, exConn, pChannel, holds>>

\* NewChannel gives a channel, on which getChannel declares the exchange once more: if that
\* fails the broker has closed the channel, which the producer keeps all the same.
NewChannel(w) ==
  /\ doing[w] = "idle"
  /\ pChannel = NoChan /\ exConn \in connections
  /\ \E c \in UnusedChan :
       /\ pChannel' = c
       /\ \/ /\ opened' = [opened EXCEPT ![c] = exConn]
             /\ holds' = [holds EXCEPT ![w] = c]
             /\ Go(w, "publish")
          \/ Go(w, "error") /\ UNCHANGED <<opened, holds>>
  /\ UNCHANGED <<nodeUp, connections, exConn>>

\* ch.Publish: a write may also fail, on a connection that is about to close.
Publish(w) ==
  /\ doing[w] = "publish"
  /\ IF opened[holds[w]] = NoConn THEN Go(w, "errclosed")
     ELSE Go(w, "idle") \/ Go(w, "error")
  /\ holds' = [holds EXCEPT ![w] = NoChan]
  /\ UNCHANGED <<nodeUp, opened, connections, exConn, pChannel>>

\* Mutated form: the channel is dropped without being closed.
ProducerCloseForErrForgets(w) ==
  /\ doing[w] \in {"error", "errclosed"}
  /\ Go(w, "idle")
  /\ pChannel' = NoChan
  /\ IF doing[w] = "errclosed" THEN refreshConn({})
     ELSE UNCHANGED <<opened, connections, exConn>>
  /\ UNCHANGED <<nodeUp, holds>>

\* CloseForErr takes the channel the producer has now, which another publisher may have
\* opened since.
ProducerCloseForErr(w) ==
  /\ doing[w] \in {"error", "errclosed"}
  /\ Go(w, "idle")
  /\ pChannel' = NoChan
  /\ IF doing[w] = "errclosed" THEN refreshConn({pChannel})
     ELSE /\ opened' = Without(NoConn, {pChannel})
          /\ UNCHANGED <<connections, exConn>>
  /\ UNCHANGED <<nodeUp, holds>>

PubNext ==
  \/ \E c \in Chan : ChannelCloses(c)
  \/ \E k \in Conn : ConnectionCloses(k)
  \/ NodesChange
  \/ \E w \in Publisher :
       \/ getChannel(w) \/ NewChannelDials(w) \/ NewChannelFails(w) \/ NewChannel(w)
       \/ Publish(w)
       \/ ProducerCloseForErr(w)

PubSpec == PubInit /\ [][PubNext]_pubVars

-----------------------------------------------------------------------------
PubTypeOK ==
  /\ nodeUp \in BOOLEAN
  /\ opened \in [Chan -> Conn \union {NoConn}]
  /\ connections \subseteq Conn
  /\ exConn \in Conn \union {NoConn}
  /\ pChannel \in Chan \union {NoChan}
  /\ doing \in [Publisher -> {"idle", "publish", "error", "errclosed"}]
  /\ holds \in [Publisher -> Chan \union {NoChan}]

\* However the errors of several publishers interleave, nothing stays open that the
\* producer has let go: the only open connection is the one the exchange keeps, and the
\* only open channel is the one the producer keeps, on that connection.
NothingLeaks ==
  /\ connections \subseteq {exConn}
  /\ \A c \in Chan : opened[c] # NoConn => c = pChannel /\ opened[c] = exConn
=============================================================================
