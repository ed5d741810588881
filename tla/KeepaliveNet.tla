---------------------------- MODULE KeepaliveNet ----------------------------
(***************************************************************************)
(* Peers that announce themselves to one receiver: _healthChecking seen    *)
(* from the sender (data/service_keepalive.go) through the life of its     *)
(* process (entry/engine.go), over HTTP calls that may be lost, may time   *)
(* out although they are served later, and may overtake each other. What   *)
(* else the peers send it, requests and answers, leaves only its trace.    *)
(***************************************************************************)
EXTENDS ReceiverMesh

CONSTANTS
  Checking, \* the peers that check the receiver
  Calling   \* the peers that send it other requests, or answers

ASSUME SenderAssumption == Checking \subseteq Peer /\ Calling \subseteq Peer

VARIABLES
  phase,    \* a peer's process: running, stopping (gracefulStop) or exited
  round,    \* the periodic round's call to this receiver, if one is under way
  notice,   \* the shutdown round's call to this receiver, if one is under way
  net,      \* requests sent and neither served nor lost
  traffic,  \* peers with another request or an answer on its way to the receiver
  noticed   \* history: peers whose shutdown notice the receiver has applied

peerVars == <<phase, round, notice>>
vars == <<receiverVars, phase, round, notice, net, traffic, noticed>>

Call == {"none", "primary", "secondary"}
Message(p, path, notify) == [peer |-> p, path |-> path, notify |-> notify]

NetInit ==
  /\ Init
  /\ phase = [p \in Peer |-> "running"]
  /\ round = [p \in Peer |-> "none"]
  /\ notice = [p \in Peer |-> "none"]
  /\ net = {}
  /\ traffic = {}
  /\ noticed = {}

-----------------------------------------------------------------------------
(* The peers.                                                              *)

\* StartHealthChecking: rounds follow each other until the process ends; nothing
\* stops them when it starts to shut down.
StartRound(p) ==
  /\ phase[p] # "exited" /\ p \in Checking /\ round[p] = "none"
  /\ round' = [round EXCEPT ![p] = "primary"]
  /\ net' = net \cup {Message(p, "primary", FALSE)}
  /\ UNCHANGED <<receiverVars, phase, notice, traffic, noticed>>

\* gracefulStop sends the notice in a round of its own, beside the periodic one.
StartShutdown(p) ==
  /\ phase[p] = "running"
  /\ phase' = [phase EXCEPT ![p] = "stopping"]
  /\ IF p \in Checking
     THEN /\ notice' = [notice EXCEPT ![p] = "primary"]
          /\ net' = net \cup {Message(p, "primary", TRUE)}
     ELSE UNCHANGED <<notice, net>>
  /\ UNCHANGED <<receiverVars, round, traffic, noticed>>

\* A call that fails or times out is repeated on the receiver's secondary address.
RetrySecondary(p) ==
  \/ /\ round[p] = "primary"
     /\ round' = [round EXCEPT ![p] = "secondary"]
     /\ net' = net \cup {Message(p, "secondary", FALSE)}
     /\ UNCHANGED <<receiverVars, phase, notice, traffic, noticed>>
  \/ /\ notice[p] = "primary"
     /\ notice' = [notice EXCEPT ![p] = "secondary"]
     /\ net' = net \cup {Message(p, "secondary", TRUE)}
     /\ UNCHANGED <<receiverVars, phase, round, traffic, noticed>>

\* A call ends: answered, or given up. Which one makes no difference here.
EndCall(p) ==
  \/ /\ round[p] # "none"
     /\ round' = [round EXCEPT ![p] = "none"]
     /\ UNCHANGED <<receiverVars, phase, notice, net, traffic, noticed>>
  \/ /\ notice[p] # "none"
     /\ notice' = [notice EXCEPT ![p] = "none"]
     /\ UNCHANGED <<receiverVars, phase, round, net, traffic, noticed>>

\* The process ends: killed, or after gracefulStop, which may also end it at once
\* (sysLog.Fatalf). What it sent may still arrive.
Exit(p) ==
  /\ phase[p] # "exited"
  /\ phase' = [phase EXCEPT ![p] = "exited"]
  /\ round' = [round EXCEPT ![p] = "none"]
  /\ notice' = [notice EXCEPT ![p] = "none"]
  /\ UNCHANGED <<receiverVars, net, traffic, noticed>>

Restart(p) ==
  /\ phase[p] = "exited"
  /\ phase' = [phase EXCEPT ![p] = "running"]
  /\ noticed' = noticed \ {p}
  /\ UNCHANGED <<receiverVars, round, notice, net, traffic>>

\* A peer sends the receiver a request that is no health check, or answers one of its.
SendTraffic(p) ==
  /\ phase[p] # "exited" /\ p \in Calling
  /\ traffic' = traffic \cup {p}
  /\ UNCHANGED <<receiverVars, peerVars, net, noticed>>

-----------------------------------------------------------------------------
(* The network and the receiver.                                           *)

Deliver(h, m) ==
  /\ m \in net
  /\ net' = net \ {m}
  /\ Accept(h, m)
  /\ UNCHANGED <<peerVars, traffic, noticed>>

Lose(m) ==
  /\ m \in net
  /\ net' = net \ {m}
  /\ UNCHANGED <<receiverVars, peerVars, traffic, noticed>>

\* It arrives, and is traced, or is lost.
EndTraffic(p) ==
  /\ p \in traffic
  /\ traffic' = traffic \ {p}
  /\ TraceCall(p) \/ UNCHANGED receiverVars
  /\ UNCHANGED <<peerVars, net, noticed>>

ReceiverStep ==
  /\ LocalStep
  /\ noticed' = noticed \cup {handler[h].m.peer : h \in {h \in Handler :
                  handler[h].pc = "apply" /\ handler[h].m.notify
                  /\ handler'[h] = Idle}}
  /\ UNCHANGED <<peerVars, net, traffic>>

NetNext ==
  \/ \E p \in Peer : StartRound(p)
  \/ \E p \in Peer : StartShutdown(p)
  \/ \E p \in Peer : RetrySecondary(p)
  \/ \E p \in Peer : EndCall(p)
  \/ \E p \in Peer : Exit(p)
  \/ \E p \in Peer : Restart(p)
  \/ \E p \in Peer : SendTraffic(p)
  \/ \E h \in Handler, m \in Request : Deliver(h, m)
  \/ \E m \in Request : Lose(m)
  \/ \E p \in Peer : EndTraffic(p)
  \/ ReceiverStep

NetSpec == NetInit /\ [][NetNext]_vars

\* Time passes, every request is served or lost in the end, and the handlers, which
\* wait for nothing but two short critical sections, go on. Nothing is assumed of
\* the peers, which may check, stop, crash and restart or not.
FairNetSpec ==
  /\ NetSpec
  /\ WF_vars(Tick /\ UNCHANGED <<peerVars, net, traffic, noticed>>)
  /\ \A m \in {m \in Request : m.peer \in Checking} :
       WF_vars(Lose(m) \/ \E h \in Handler : Deliver(h, m))
  /\ \A p \in Calling : WF_vars(EndTraffic(p))
  /\ \A h \in Handler : WF_vars(ReceiverStep /\ HandlerStep(h))

-----------------------------------------------------------------------------
(* Properties.                                                             *)

\* Types of the peers' and the network's state.
NetTypeOK ==
  /\ TypeOK
  /\ phase \in [Peer -> {"running", "stopping", "exited"}]
  /\ round \in [Peer -> Call]
  /\ notice \in [Peer -> Call]
  /\ net \in SUBSET Request
  /\ traffic \in SUBSET Peer
  /\ noticed \in SUBSET Peer

\* A look-up counts p as available.
Counted(p) == \E path \in Path : <<p, path>> \in Available(NameOf[p])

\* The peers a call to the name n may be sent to.
Routable(n) ==
  IF Available(n) # {} THEN {a[1] : a \in Available(n)} ELSE {traced[n]} \ {NoPeer}

\* A peer that is gone for good is not counted as available for ever, however it went
\* and whatever of its calls was still under way: ReceiverKeepTimer ends its lease and
\* nothing brings it back. It is either forgotten, or it stays for ever the peer of its
\* name that was heard of last; calls are then sent to it while nobody is available
\* (LastTraceServiceAddress never expires), and not otherwise.
GoneIsForgotten ==
  \A p \in Peer : <>[](phase[p] = "exited") =>
    /\ <>[](~Counted(p))
    /\ \/ <>[](p \notin Routable(NameOf[p]))
       \/ <>[](traced[NameOf[p]] = p)

\* Something a peer has sent is on its way to the receiver's lists.
UnderWay(p) ==
  \/ p \in traffic
  \/ \E m \in net : m.peer = p
  \/ \E h \in Handler : handler[h] # Idle /\ handler[h].m.peer = p

\* The step behind it: while a peer is gone and nothing it has sent is under way, its
\* addresses only grow older, it is not counted again, and calls can be sent to it
\* again in one case only, that it was the last heard of and nobody is available.
GoneGrowsOld ==
  [][\A p \in Peer :
       phase[p] = "exited" /\ phase'[p] = "exited" /\ ~UnderWay(p) =>
         /\ ~UnderWay(p)'
         /\ \A path \in Path : age'[<<p, path>>] >= age[<<p, path>>]
         /\ ~Counted(p) => ~Counted(p)'
         /\ ~Counted(p) /\ p \notin Routable(NameOf[p]) /\ p \in Routable(NameOf[p])' =>
              traced[NameOf[p]] = p /\ Available(NameOf[p])' = {}]_vars

\* NotifyShutdown, "notify shutdown message, receiver should mark the address
\* unreachable." (service_keepalive.go:37): once the receiver has applied a peer's
\* notice, it does not count the peer as available until that has been started again.
ShutdownSticks == \A p \in noticed : ~Counted(p)
=============================================================================
