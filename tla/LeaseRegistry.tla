--------------------------- MODULE LeaseRegistry ---------------------------
(***************************************************************************)
(* What the receiver's side of the keep-alive mesh promises, without its   *)
(* addresses, handlers and locks: every peer has a lease that its health   *)
(* checks renew, its shutdown notice revokes and time runs down. A name is *)
(* resolved to a peer whose lease is running; only when none is, to the    *)
(* peer of that name that was heard of last.                               *)
(***************************************************************************)
EXTENDS Integers

CONSTANTS
  Peer,     \* service instances that announce themselves
  Name,     \* service names
  NameOf,   \* the name of each
  Caller,   \* goroutines that resolve a service name
  Keep,     \* ReceiverKeepTimer: how long a peer counts as alive unheard
  NoPeer    \* what a caller that has resolved nothing holds

VARIABLES
  lease,    \* time left, in ticks, before a peer counts as gone
  left,     \* the peers that have said goodbye and have not been back since
  last,     \* the peer of each name that was heard of last
  asked,    \* the name a caller has found no peer with a lease for
  using     \* the peer a caller has been given

leaseVars == <<lease, left, last, asked, using>>

LeaseInit ==
  /\ lease = [p \in Peer |-> 0]
  /\ left = {}
  /\ last = [n \in Name |-> NoPeer]
  /\ asked = [c \in Caller |-> {}]
  /\ using = [c \in Caller |-> NoPeer]

Renew(p) ==
  /\ lease' = [lease EXCEPT ![p] = Keep + 1]
  /\ left' = left \ {p}
  /\ UNCHANGED <<last, asked, using>>

Revoke(p) ==
  /\ lease' = [lease EXCEPT ![p] = 0]
  /\ left' = left \cup {p}
  /\ UNCHANGED <<last, asked, using>>

Hear(p) == last' = [last EXCEPT ![NameOf[p]] = p] /\ UNCHANGED <<lease, left, asked, using>>

RunDown ==
  /\ lease' = [p \in Peer |-> IF lease[p] = 0 THEN 0 ELSE lease[p] - 1]
  /\ UNCHANGED <<left, last, asked, using>>

Resolve(c, p) ==
  /\ using[c] = NoPeer /\ asked[c] = {}
  /\ lease[p] > 0
  /\ using' = [using EXCEPT ![c] = p]
  /\ UNCHANGED <<lease, left, last, asked>>

FindNobody(c, n) ==
  /\ using[c] = NoPeer /\ asked[c] = {}
  /\ \A p \in Peer : NameOf[p] = n => lease[p] = 0
  /\ asked' = [asked EXCEPT ![c] = {n}]
  /\ UNCHANGED <<lease, left, last, using>>

LastResort(c, n) ==
  /\ asked[c] = {n}
  /\ asked' = [asked EXCEPT ![c] = {}]
  /\ using' = [using EXCEPT ![c] = last[n]]
  /\ UNCHANGED <<lease, left, last>>

Release(c) == using' = [using EXCEPT ![c] = NoPeer] /\ UNCHANGED <<lease, left, last, asked>>

LeaseNext ==
  \/ RunDown
  \/ \E p \in Peer : Renew(p) \/ Revoke(p) \/ Hear(p)
  \/ \E c \in Caller, p \in Peer : Resolve(c, p)
  \/ \E c \in Caller, n \in Name : FindNobody(c, n) \/ LastResort(c, n)
  \/ \E c \in Caller : Release(c)

LeaseSpec == LeaseInit /\ [][LeaseNext]_leaseVars
=============================================================================
