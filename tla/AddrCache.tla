----------------------------- MODULE AddrCache -----------------------------
(***************************************************************************)
(* The cache of service addresses: GetAddr of                              *)
(* protocol/service_addr_helper.go for one ZKey, over the connection pool  *)
(* of zookeeper/zookeeper.go and an external ZooKeeper with watches.       *)
(*                                                                         *)
(* A caller finds the list in serviceAddressPool under the read lock or,   *)
(* under the write lock, looks again and fills it: it lists the children   *)
(* with a watch, starts a goroutine that waits for the watch, reads every  *)
(* child and stores the list. The goroutine drops the cached list under no *)
(* lock, and callers under the read lock write nextUsingIndex.             *)
(*                                                                         *)
(* Child nodes stand for the addresses they hold: how the data of a node   *)
(* becomes an address is still to be written in the code (lines 165, 169). *)
(***************************************************************************)
EXTENDS Integers, Sequences, FiniteSets, Functions

CONSTANTS
  Node,       \* names the children of zooKeeperPath can have
  Caller,     \* goroutines that call GetAddr; bounds the calls under way at once
  NoCaller,   \* nobody holds the write lock
  Watch,      \* watches; bounds how many goroutines wait or are about to act
  NoWatch,    \* the goroutine of a list has acted
  Mode,       \* the balance modes of the helpers that share the ZKey
  MaxIndex    \* bounds nextUsingIndex, which a race of callers can move ever further

ASSUME NodeAssumption == IsFiniteSet(Node)
ASSUME CallerAssumption == NoCaller \notin Caller
ASSUME WatchAssumption == NoWatch \notin Watch
ASSUME ModeAssumption == Mode \subseteq {"RandomServer", "LastServer", "PollingServer"}
ASSUME MaxIndexAssumption == MaxIndex \in Nat /\ MaxIndex >= Cardinality(Node)

VARIABLES
  nodes,      \* ZooKeeper: the children of zooKeeperPath
  watch,      \* each watch: "free", "set" or "fired" (its goroutine has the event)
  cached,     \* serviceAddressPool has an entry
  list,       \* the serviceAddress stored last; callers may still use it
  fill,       \* the list being read
  writer,     \* holder of the write lock
  readers,    \* holders of the read lock
  caller      \* each caller: where it is, its mode, usingIndex, the loaded index

zk == <<nodes, watch>>
pool == <<cached, list, fill>>
locks == <<writer, readers>>
vars == <<zk, pool, locks, caller>>

NoList == [address |-> <<>>, nextUsingIndex |-> 0, skipped |-> {}, watch |-> NoWatch]
NoFill == [left |-> {}, address |-> <<>>, skipped |-> {}, watch |-> NoWatch]
Idle == [pc |-> "idle", mode |-> "LastServer", using |-> 0, loaded |-> 0]

\* skipped are the children that GetNode failed on; neither it nor the watch of a
\* list is kept by the code.
Init ==
  /\ nodes \in SUBSET Node
  /\ watch = [w \in Watch |-> "free"]
  /\ cached = FALSE
  /\ list = NoList
  /\ fill = NoFill
  /\ writer = NoCaller
  /\ readers = {}
  /\ caller = [c \in Caller |-> Idle]

At(c, pc) == caller[c].pc = pc
Goto(c, pc) == caller' = [caller EXCEPT ![c].pc = pc]

-----------------------------------------------------------------------------
(* ZooKeeper. A watch fires once: when the children change, or when the    *)
(* session it was set in is lost for good (EventNotWatching). What a       *)
(* connection without a session delays is no more than a later step.       *)

FireAll == watch' = [w \in Watch |-> IF watch[w] = "set" THEN "fired" ELSE watch[w]]

ChangeChildren ==
  /\ \E n \in Node : nodes' = IF n \in nodes THEN nodes \ {n} ELSE nodes \cup {n}
  /\ FireAll
  /\ UNCHANGED <<pool, locks, caller>>

LoseSession ==
  /\ FireAll
  /\ UNCHANGED <<nodes, pool, locks, caller>>

\* Mutated forms of the next definition: an event is missing from lines 146 to 150 and
\* the goroutine waits on; it ends without line 148.
DropListWaits(w) ==
  /\ watch[w] = "fired"
  /\ watch' = [watch EXCEPT ![w] = "set"]
  /\ UNCHANGED <<nodes, pool, locks, caller>>

DropListEnds(w) ==
  /\ watch[w] = "fired"
  /\ watch' = [watch EXCEPT ![w] = "free"]
  /\ list' = IF list.watch = w THEN [list EXCEPT !.watch = NoWatch] ELSE list
  /\ fill' = IF fill.watch = w THEN [fill EXCEPT !.watch = NoWatch] ELSE fill
  /\ UNCHANGED <<nodes, cached, locks, caller>>

\* The goroutine of watch w drops whatever list is cached and ends.
DropList(w) ==
  /\ watch[w] = "fired"
  /\ watch' = [watch EXCEPT ![w] = "free"]
  /\ cached' = FALSE
  /\ list' = IF list.watch = w THEN [list EXCEPT !.watch = NoWatch] ELSE list
  /\ fill' = IF fill.watch = w THEN [fill EXCEPT !.watch = NoWatch] ELSE fill
  /\ UNCHANGED <<nodes, locks, caller>>

-----------------------------------------------------------------------------
(* GetAddr under the read lock.                                            *)

Busy == {c \in Caller : ~At(c, "idle")}
FreeWatch == {w \in Watch : watch[w] = "free"}

\* A call begins, with the read lock: a Lock that waits holds off later RLocks. It
\* begins only while a watch is left for it, so that none is short of one.
Call(c) ==
  /\ At(c, "idle")
  /\ Cardinality(FreeWatch) > Cardinality(Busy)
  /\ writer = NoCaller
  /\ \A d \in Caller : ~At(d, "lock")
  /\ readers' = readers \cup {c}
  /\ \E m \in Mode : caller' = [caller EXCEPT ![c] = [Idle EXCEPT !.pc = "look", !.mode = m]]
  /\ UNCHANGED <<zk, pool, writer>>

Look(c) ==
  /\ At(c, "look")
  /\ IF cached
     THEN Goto(c, "index") /\ UNCHANGED readers
     ELSE Goto(c, "miss") /\ readers' = readers \ {c}
  /\ UNCHANGED <<zk, pool, writer>>

-----------------------------------------------------------------------------
(* getAddr, by a reader or by the writer. Each read and each write of      *)
(* nextUsingIndex is a step, as readers share it.                          *)

AfterIndex(mode) ==
  CASE mode = "RandomServer" -> "random"
    [] mode = "PollingServer" -> "load"
    [] OTHER -> "took"

\* A mutated form: without lines 84 to 87.
ReadIndexUnchecked(c) ==
  /\ At(c, "index")
  /\ caller' = [caller EXCEPT
       ![c].using = list.nextUsingIndex,
       ![c].pc = AfterIndex(caller[c].mode)]
  /\ UNCHANGED <<zk, pool, locks>>

ReadIndex(c) ==
  /\ At(c, "index")
  /\ caller' = [caller EXCEPT
       ![c].using = IF list.nextUsingIndex >= Len(list.address) THEN 0 ELSE list.nextUsingIndex,
       ![c].pc = AfterIndex(caller[c].mode)]
  /\ UNCHANGED <<zk, pool, locks>>

SetIndex(n) == list' = [list EXCEPT !.nextUsingIndex = n]

RandomIndex(c) ==
  /\ At(c, "random")
  /\ \E n \in 0..(Len(list.address) - 1) : SetIndex(n)
  /\ Goto(c, "took")
  /\ UNCHANGED <<zk, cached, fill, locks>>

LoadIndex(c) ==
  /\ At(c, "load")
  /\ caller' = [caller EXCEPT ![c].loaded = list.nextUsingIndex, ![c].pc = "store"]
  /\ UNCHANGED <<zk, pool, locks>>

\* Past the end of every list one index is as good as another: MaxIndex is for them all.
StoreIndex(c) ==
  /\ At(c, "store")
  /\ SetIndex(IF caller[c].loaded < MaxIndex THEN caller[c].loaded + 1 ELSE MaxIndex)
  /\ caller' = [caller EXCEPT ![c].loaded = 0, ![c].pc = "wrap"]
  /\ UNCHANGED <<zk, cached, fill, locks>>

CheckIndex(c) ==
  /\ At(c, "wrap")
  /\ Goto(c, IF list.nextUsingIndex >= Len(list.address) THEN "zero" ELSE "took")
  /\ UNCHANGED <<zk, pool, locks>>

WrapIndex(c) ==
  /\ At(c, "zero")
  /\ SetIndex(0)
  /\ Goto(c, "took")
  /\ UNCHANGED <<zk, cached, fill, locks>>

\* s.address[usingIndex] is returned; the lock that c holds is released.
Release(c) ==
  /\ readers' = readers \ {c}
  /\ writer' = IF writer = c THEN NoCaller ELSE writer
  /\ caller' = [caller EXCEPT ![c] = Idle]

TakeAddress(c) ==
  /\ At(c, "took")
  /\ Release(c)
  /\ UNCHANGED <<zk, pool>>

-----------------------------------------------------------------------------
(* GetAddr under the write lock.                                           *)

Announce(c) ==
  /\ At(c, "miss")
  /\ Goto(c, "lock")
  /\ UNCHANGED <<zk, pool, locks>>

Lock(c) ==
  /\ At(c, "lock")
  /\ writer = NoCaller
  /\ readers = {}
  /\ writer' = c
  /\ Goto(c, "again")
  /\ UNCHANGED <<zk, pool, readers>>

\* A mutated form: without the second look of lines 126 to 129.
LookAgainNot(c) ==
  /\ At(c, "again")
  /\ Goto(c, "conn")
  /\ UNCHANGED <<zk, pool, locks>>

\* A dropped list is nobody's any more once the write lock is held.
LookAgain(c) ==
  /\ At(c, "again")
  /\ Goto(c, IF cached THEN "index" ELSE "conn")
  /\ list' = IF cached THEN list ELSE NoList
  /\ UNCHANGED <<zk, cached, fill, locks>>

\* GetConn returns the pooled connection, or makes one and waits until it has a
\* session, for as long as that takes. GetNode does so too.
GetConn(c) ==
  /\ At(c, "conn")
  /\ Goto(c, "watch")
  /\ UNCHANGED <<zk, pool, locks>>

\* GetConn or ChildrenW returns an error.
FailFill(c) ==
  /\ caller[c].pc \in {"conn", "watch"}
  /\ Release(c)
  /\ UNCHANGED <<zk, pool>>

ChildrenW(c) ==
  /\ At(c, "watch")
  /\ FreeWatch # {}
  /\ LET w == CHOOSE v \in FreeWatch : TRUE IN
       /\ watch' = [watch EXCEPT ![w] = "set"]
       /\ fill' = [left |-> nodes, address |-> <<>>, skipped |-> {}, watch |-> w]
  /\ Goto(c, "read")
  /\ UNCHANGED <<nodes, cached, list, locks>>

\* GetNode of one child; it fails when the child is gone, and when the connection is.
GetNode(c) ==
  /\ At(c, "read")
  /\ fill.left # {}
  /\ LET n == CHOOSE m \in fill.left : TRUE IN
       \/ /\ n \in nodes
          /\ fill' = [fill EXCEPT !.left = @ \ {n}, !.address = Append(@, n)]
       \/ fill' = [fill EXCEPT !.left = @ \ {n}, !.skipped = @ \cup {n}]
  /\ UNCHANGED <<zk, cached, list, locks, caller>>

FirstIndex(mode, n) ==
  CASE mode = "LastServer" -> {n - 1}
    [] mode = "RandomServer" -> 0..(n - 1)
    [] OTHER -> {0}

StoreList(c) ==
  /\ At(c, "read")
  /\ fill.left = {}
  /\ fill.address # <<>>
  /\ \E i \in FirstIndex(caller[c].mode, Len(fill.address)) :
       list' = [address |-> fill.address, nextUsingIndex |-> i,
                skipped |-> fill.skipped, watch |-> fill.watch]
  /\ cached' = TRUE
  /\ fill' = NoFill
  /\ Goto(c, "index")
  /\ UNCHANGED <<zk, locks>>

\* Nothing could be read: an error, and the goroutine stays behind.
NoAddress(c) ==
  /\ At(c, "read")
  /\ fill.left = {}
  /\ fill.address = <<>>
  /\ fill' = NoFill
  /\ Release(c)
  /\ UNCHANGED <<zk, cached, list>>

-----------------------------------------------------------------------------

UseIndex(c) ==
  \/ ReadIndex(c) \/ RandomIndex(c) \/ LoadIndex(c) \/ StoreIndex(c)
  \/ CheckIndex(c) \/ WrapIndex(c) \/ TakeAddress(c)

FillList(c) ==
  \/ LookAgain(c) \/ GetConn(c) \/ ChildrenW(c)
  \/ GetNode(c) \/ StoreList(c) \/ NoAddress(c)

Next ==
  \/ ChangeChildren \/ LoseSession
  \/ \E w \in Watch : DropList(w)
  \/ \E c \in Caller :
       \/ Call(c) \/ Look(c) \/ Announce(c) \/ Lock(c)
       \/ UseIndex(c) \/ FillList(c) \/ FailFill(c)

Spec == Init /\ [][Next]_vars

\* One of the goroutines that have an event acts in the end.
AddrFairness == WF_vars(\E w \in Watch : DropList(w))

FairSpec == Spec /\ AddrFairness

-----------------------------------------------------------------------------

UsingList == {"index", "random", "load", "store", "wrap", "zero", "took"}
Filling == {"again", "conn", "watch", "read"}

TypeOK ==
  /\ nodes \subseteq Node
  /\ watch \in [Watch -> {"free", "set", "fired"}]
  /\ cached \in BOOLEAN
  /\ list \in [address : Seq(Node), nextUsingIndex : Nat, skipped : SUBSET Node,
              watch : Watch \cup {NoWatch}]
  /\ fill \in [left : SUBSET Node, address : Seq(Node), skipped : SUBSET Node,
              watch : Watch \cup {NoWatch}]
  /\ writer \in Caller \cup {NoCaller}
  /\ readers \subseteq Caller
  /\ caller \in [Caller -> [pc : UsingList \cup Filling \cup {"idle", "look", "miss", "lock"},
                           mode : Mode \cup {"LastServer"}, using : Nat, loaded : Nat]]

\* Line 97 never indexes past the end, though readers move nextUsingIndex past it
\* while another one is between lines 92 and 95, and though the list they use may be
\* dropped at any time and followed by a shorter one.
IndexInBounds ==
  \A c \in Caller :
    caller[c].pc \in UsingList \ {"index"} => caller[c].using < Len(list.address)

\* nextUsingIndex is past the end only while the caller that moved it there, or one
\* after it, is about to bring it back: no race of callers leaves it there.
IndexSettles ==
  list.address # <<>> /\ list.nextUsingIndex >= Len(list.address)
    => \E c \in Caller : caller[c].pc \in {"wrap", "zero"}

\* While its watch has not fired, the cached list holds exactly the children there
\* are, but for those that could not be read: a change between the listing and the
\* store is never missed by the watch.
WatchedListIsCurrent ==
  cached /\ list.watch # NoWatch /\ watch[list.watch] = "set"
    => Range(list.address) \cup list.skipped = nodes

\* ZooKeeper is asked only while nothing is cached: of several callers that missed
\* the list, one fills it and the others take what it stored.
FillsOnlyMissing ==
  \A c \in Caller : caller[c].pc \in Filling \ {"again"} => ~cached

\* A list that is no longer right is dropped, if its goroutine has not acted already:
\* an event between lines 139 and 185 is acted on before there is a list to drop.
StaleIsDropped ==
  (cached /\ list.watch # NoWatch /\ Range(list.address) \cup list.skipped # nodes)
    ~> ~cached
=============================================================================
