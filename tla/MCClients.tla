----------------------------- MODULE MCClients ------------------------------
(* The clients of outside services for TLC: the address cache over          *)
(* ZooKeeper, the RabbitMQ consumer and producer, and the HTTP helpers.     *)
(* They share no state, so each behaviour is one of one part, chosen by     *)
(* Init, the others standing still in their initial states.                 *)
EXTENDS AddrCache, RabbitConsumer, RabbitProducer, HttpClient

VARIABLE part

CONSTANTS n1, n2, c1, c2, nobody, v1, v2, v3, none,   \* AddrCache
          m1, m2, nothing, h1, h2,                    \* RabbitConsumer
          p1, p2, ch1, ch2, ch3, k1, k2,              \* RabbitProducer
          poster, getter, mailer, shared              \* HttpClient

allVars == <<part, vars, rabbitVars, pubVars, clientVars>>

\* Two helpers of services, which sign and share their parameters, and one of a URL on the
\* secondary network that has a body and a pair of keys but no parameters.
MCOptions ==
  [h \in {poster, getter, mailer} |->
     [method |-> IF h = getter THEN "GET" ELSE "POST",
      body   |-> IF h = mailer THEN "own" ELSE "params",
      params |-> IF h = mailer THEN NoMap ELSE shared,
      signs  |-> TRUE,
      byName |-> h # mailer,
      url    |-> IF h = mailer THEN "secondary" ELSE "none",
      tied   |-> h # mailer]]

Alone(name, step, others) == part = name /\ step /\ UNCHANGED <<part, others>>

\* What stands still does so in one of its initial states.
MCInit ==
  /\ part \in {"addresses", "consumer", "producer", "http"}
  /\ Init /\ (part # "addresses" => nodes = {})
  /\ RabbitInit /\ (part # "consumer" => up /\ ~async)
  /\ PubInit /\ (part # "producer" => ~nodeUp)
  /\ ClientInit /\ (part # "http" => mesh = "none")

\* Only the consumer comes to rest, once its messages are handled and its faults are over.
MCNext ==
  \/ Alone("addresses", Next, <<rabbitVars, pubVars, clientVars>>)
  \/ Alone("consumer", RabbitNext, <<vars, pubVars, clientVars>>)
  \/ Alone("producer", PubNext, <<vars, rabbitVars, clientVars>>)
  \/ Alone("http", ClientNext, <<vars, rabbitVars, pubVars>>)
  \/ part = "consumer" /\ UNCHANGED allVars

\* RabbitFairness, for a consumer that does not stand still. Nothing that AddrFairness is
\* about is enabled in the initial states.
ConsumerFairness ==
  /\ WF_rabbitVars(part = "consumer" /\ ListenerStep)
  /\ WF_rabbitVars(part = "consumer" /\ NodeUp)
  /\ \A h \in Handler : WF_rabbitVars(part = "consumer" /\ HandlerStep(h))
  /\ \A m \in Message : WF_rabbitVars(part = "consumer" /\ Deliver(m))

MCSpec ==
  /\ MCInit
  /\ [][MCNext]_allVars
  /\ AddrFairness
  /\ ConsumerFairness
=============================================================================
