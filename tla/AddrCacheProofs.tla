-------------------------- MODULE AddrCacheProofs --------------------------
(***************************************************************************)
(* Proofs about AddrCache, for every set of nodes, callers, watches and    *)
(* modes.                                                                  *)
(***************************************************************************)
EXTENDS AddrCache, TLAPS

\* Who holds which lock, by where a caller is.
LocksHeld ==
  /\ writer # NoCaller => readers = {}
  /\ \A c \in Caller :
       /\ c \in readers => caller[c].pc \in UsingList \cup {"look"}
       /\ writer = c => caller[c].pc \in UsingList \cup Filling
       /\ At(c, "look") => c \in readers
       /\ caller[c].pc \in Filling => writer = c
       /\ caller[c].pc \in UsingList => c \in readers \/ writer = c

\* A list that is cached or used has an address.
ListNotEmpty ==
  /\ cached => list.address # <<>>
  /\ \A c \in Caller : caller[c].pc \in UsingList => list.address # <<>>

\* What has been read of the listing, as long as the listing is current.
FillIsCurrent ==
  \A c \in Caller :
    At(c, "read") /\ fill.watch # NoWatch /\ watch[fill.watch] = "set"
      => Range(fill.address) \cup fill.skipped \cup fill.left = nodes

IInv ==
  /\ TypeOK
  /\ LocksHeld
  /\ ListNotEmpty
  /\ IndexInBounds
  /\ IndexSettles
  /\ FillsOnlyMissing
  /\ FillIsCurrent
  /\ WatchedListIsCurrent

PCs == UsingList \cup Filling \cup {"idle", "look", "miss", "lock"}
CallerState == [pc : PCs, mode : Mode \cup {"LastServer"}, using : Nat, loaded : Nat]
ListState == [address : Seq(Node), nextUsingIndex : Nat, skipped : SUBSET Node,
              watch : Watch \cup {NoWatch}]
FillState == [left : SUBSET Node, address : Seq(Node), skipped : SUBSET Node,
              watch : Watch \cup {NoWatch}]

-----------------------------------------------------------------------------
(* The operators.                                                          *)

LEMMA RangeAppend ==
  ASSUME NEW S, NEW s \in Seq(S), NEW e \in S
  PROVE  Range(Append(s, e)) = Range(s) \cup {e}
<1> DEFINE t == Append(s, e)
<1>1. /\ DOMAIN s = 1..Len(s) /\ Len(s) \in Nat
      /\ DOMAIN t = 1..(Len(s) + 1)
      /\ \A i \in 1..Len(s) : t[i] = s[i]
      /\ t[Len(s) + 1] = e
  OBVIOUS
<1> HIDE DEF t
<1>2. \A i \in DOMAIN t : i \in DOMAIN s \/ i = Len(s) + 1
  BY <1>1
<1>3. \A i \in DOMAIN s : i \in DOMAIN t
  BY <1>1
<1>4. Len(s) + 1 \in DOMAIN t
  BY <1>1
<1>5. Range(t) = Range(s) \cup {e}
  BY <1>1, <1>2, <1>3, <1>4, Zenon DEF Range
<1> QED
  BY <1>5 DEF t

LEMMA FirstIndexBound ==
  ASSUME NEW mode, NEW n \in Nat \ {0}, NEW i \in FirstIndex(mode, n)
  PROVE  i \in Nat /\ i < n
  BY DEF FirstIndex

LEMMA GotoTypes ==
  ASSUME TypeOK, NEW c \in Caller, NEW pc \in PCs, Goto(c, pc)
  PROVE  /\ caller' \in [Caller -> CallerState]
         /\ caller'[c].pc = pc /\ caller'[c].using = caller[c].using
         /\ \A d \in Caller \ {c} : caller'[d] = caller[d]
  BY DEF TypeOK, Goto, CallerState, PCs

LEMMA ReleaseTypes ==
  ASSUME TypeOK, NEW c \in Caller, Release(c)
  PROVE  /\ caller' \in [Caller -> CallerState]
         /\ caller'[c].pc = "idle"
         /\ \A d \in Caller \ {c} : caller'[d] = caller[d]
         /\ writer' \in Caller \cup {NoCaller} /\ readers' \subseteq Caller
  BY DEF TypeOK, Release, Idle, CallerState, PCs

LEMMA SetIndexTypes ==
  ASSUME TypeOK, NEW n \in Nat, SetIndex(n)
  PROVE  /\ list' \in ListState
         /\ list'.nextUsingIndex = n /\ list'.address = list.address
         /\ list'.skipped = list.skipped /\ list'.watch = list.watch
  BY DEF TypeOK, SetIndex, ListState

-----------------------------------------------------------------------------
(* Types.                                                                  *)

LEMMA TypeInit == Init => TypeOK
<1> SUFFICES ASSUME Init PROVE TypeOK
  OBVIOUS
<1>1. list \in ListState /\ fill \in FillState
  BY DEF Init, NoList, NoFill, ListState, FillState
<1>2. caller \in [Caller -> CallerState]
  BY DEF Init, Idle, CallerState, PCs
<1> QED
  BY <1>1, <1>2 DEF Init, TypeOK, ListState, FillState, CallerState, PCs

LEMMA TypeStep == TypeOK /\ [Next]_vars => TypeOK'
<1> SUFFICES ASSUME TypeOK, [Next]_vars PROVE TypeOK'
  OBVIOUS
<1>0. TypeOK' <=> /\ nodes' \subseteq Node
                  /\ watch' \in [Watch -> {"free", "set", "fired"}]
                  /\ cached' \in BOOLEAN
                  /\ list' \in ListState
                  /\ fill' \in FillState
                  /\ writer' \in Caller \cup {NoCaller}
                  /\ readers' \subseteq Caller
                  /\ caller' \in [Caller -> CallerState]
  BY Zenon DEF TypeOK, ListState, FillState, CallerState, PCs
<1>t. /\ nodes \subseteq Node
      /\ watch \in [Watch -> {"free", "set", "fired"}]
      /\ cached \in BOOLEAN
      /\ list \in ListState
      /\ fill \in FillState
      /\ writer \in Caller \cup {NoCaller}
      /\ readers \subseteq Caller
      /\ caller \in [Caller -> CallerState]
  BY Zenon DEF TypeOK, ListState, FillState, CallerState, PCs
<1> USE DEF zk, pool, locks
<1>1. CASE ChangeChildren
  BY <1>0, <1>t, <1>1 DEF ChangeChildren, FireAll
<1>2. CASE LoseSession
  BY <1>0, <1>t, <1>2 DEF LoseSession, FireAll
<1>3. ASSUME NEW w \in Watch, DropList(w) PROVE TypeOK'
  BY <1>0, <1>t, <1>3 DEF DropList, ListState, FillState
<1>4. ASSUME NEW c \in Caller, Call(c) PROVE TypeOK'
  <2>1. \A m \in Mode : [Idle EXCEPT !.pc = "look", !.mode = m] \in CallerState
    BY DEF Idle, CallerState, PCs
  <2>2. caller' \in [Caller -> CallerState]
    BY <1>t, <1>4, <2>1 DEF Call
  <2> QED
    BY <1>0, <1>t, <1>4, <2>2 DEF Call
<1>5. ASSUME NEW c \in Caller, Look(c) PROVE TypeOK'
  <2>1. {"index", "miss"} \subseteq PCs
    BY DEF PCs, UsingList
  <2> QED
    BY <1>0, <1>t, <1>5, <2>1, GotoTypes DEF Look
<1>6. ASSUME NEW c \in Caller, Announce(c) PROVE TypeOK'
  BY <1>0, <1>t, <1>6, GotoTypes DEF Announce, PCs
<1>7. ASSUME NEW c \in Caller, Lock(c) PROVE TypeOK'
  BY <1>0, <1>t, <1>7, GotoTypes DEF Lock, PCs, Filling
<1>8. ASSUME NEW c \in Caller, ReadIndex(c) PROVE TypeOK'
  <2>1. caller[c] \in CallerState /\ list.nextUsingIndex \in Nat
    BY <1>t DEF ListState
  <2>2. AfterIndex(caller[c].mode) \in PCs
    BY DEF AfterIndex, PCs, UsingList
  <2> QED
    BY <1>0, <1>t, <1>8, <2>1, <2>2 DEF ReadIndex, CallerState
<1>9. ASSUME NEW c \in Caller, RandomIndex(c) PROVE TypeOK'
  <2>1. list' \in ListState
    BY <1>t, <1>9, SetIndexTypes DEF RandomIndex, ListState
  <2>2. "took" \in PCs
    BY DEF PCs, UsingList
  <2> QED
    BY <1>0, <1>t, <1>9, <2>1, <2>2, GotoTypes DEF RandomIndex
<1>10. ASSUME NEW c \in Caller, LoadIndex(c) PROVE TypeOK'
  <2>1. caller[c] \in CallerState /\ list.nextUsingIndex \in Nat
    BY <1>t DEF ListState
  <2>2. "store" \in PCs
    BY DEF PCs, UsingList
  <2>3. caller' \in [Caller -> CallerState]
    BY <1>t, <1>10, <2>1, <2>2 DEF LoadIndex, CallerState
  <2> QED
    BY <1>0, <1>t, <1>10, <2>3 DEF LoadIndex
<1>11. ASSUME NEW c \in Caller, StoreIndex(c) PROVE TypeOK'
  <2>1. (IF caller[c].loaded < MaxIndex THEN caller[c].loaded + 1 ELSE MaxIndex) \in Nat
    BY <1>t, MaxIndexAssumption DEF CallerState
  <2>2. list' \in ListState
    BY <1>11, <2>1, SetIndexTypes DEF StoreIndex
  <2> QED
    BY <1>0, <1>t, <1>11, <2>2 DEF StoreIndex, CallerState, PCs, UsingList
<1>12. ASSUME NEW c \in Caller, CheckIndex(c) PROVE TypeOK'
  <2>1. {"zero", "took"} \subseteq PCs
    BY DEF PCs, UsingList
  <2> QED
    BY <1>0, <1>t, <1>12, <2>1, GotoTypes DEF CheckIndex
<1>13. ASSUME NEW c \in Caller, WrapIndex(c) PROVE TypeOK'
  <2>1. list' \in ListState
    BY <1>t, <1>13, SetIndexTypes DEF WrapIndex
  <2>2. "took" \in PCs
    BY DEF PCs, UsingList
  <2> QED
    BY <1>0, <1>t, <1>13, <2>1, <2>2, GotoTypes DEF WrapIndex
<1>14. ASSUME NEW c \in Caller, TakeAddress(c) PROVE TypeOK'
  BY <1>0, <1>t, <1>14, ReleaseTypes DEF TakeAddress
<1>15. ASSUME NEW c \in Caller, LookAgain(c) PROVE TypeOK'
  <2>1. {"index", "conn"} \subseteq PCs
    BY DEF PCs, UsingList, Filling
  <2> QED
    BY <1>0, <1>t, <1>15, <2>1, GotoTypes DEF LookAgain, NoList, ListState
<1>16. ASSUME NEW c \in Caller, GetConn(c) PROVE TypeOK'
  BY <1>0, <1>t, <1>16, GotoTypes DEF GetConn, PCs, Filling
<1>17. ASSUME NEW c \in Caller, FailFill(c) PROVE TypeOK'
  BY <1>0, <1>t, <1>17, ReleaseTypes DEF FailFill
<1>18. ASSUME NEW c \in Caller, ChildrenW(c) PROVE TypeOK'
  <2>1. (CHOOSE v \in FreeWatch : TRUE) \in Watch
    BY <1>18 DEF ChildrenW, FreeWatch
  <2>2. "read" \in PCs
    BY DEF PCs, Filling
  <2>3. fill' \in FillState /\ watch' \in [Watch -> {"free", "set", "fired"}]
    BY <1>t, <1>18, <2>1 DEF ChildrenW, FillState
  <2> QED
    BY <1>0, <1>t, <1>18, <2>2, <2>3, GotoTypes DEF ChildrenW
<1>19. ASSUME NEW c \in Caller, GetNode(c) PROVE TypeOK'
  <2> DEFINE n == CHOOSE m \in fill.left : TRUE
  <2>1. n \in Node
    BY <1>t, <1>19 DEF GetNode, FillState
  <2>2. fill.address \in Seq(Node) /\ Append(fill.address, n) \in Seq(Node)
    BY <1>t, <2>1 DEF FillState
  <2>3. CASE fill' = [fill EXCEPT !.left = @ \ {n}, !.address = Append(@, n)]
    <3> HIDE DEF n
    <3>1. fill' \in FillState
      BY <1>t, <2>3, <2>2 DEF FillState
    <3> QED
      BY <1>0, <1>t, <1>19, <3>1 DEF GetNode
  <2>4. CASE fill' = [fill EXCEPT !.left = @ \ {n}, !.skipped = @ \cup {n}]
    BY <1>0, <1>t, <1>19, <2>1, <2>4 DEF GetNode, FillState
  <2> QED
    BY <1>19, <2>3, <2>4 DEF GetNode
<1>20. ASSUME NEW c \in Caller, StoreList(c) PROVE TypeOK'
  <2>1. Len(fill.address) \in Nat \ {0}
    BY <1>t, <1>20 DEF StoreList, FillState
  <2>2. list' \in ListState
    BY <1>t, <1>20, <2>1, FirstIndexBound DEF StoreList, ListState, FillState
  <2>3. "index" \in PCs
    BY DEF PCs, UsingList
  <2> QED
    BY <1>0, <1>t, <1>20, <2>2, <2>3, GotoTypes DEF StoreList, NoFill, FillState
<1>21. ASSUME NEW c \in Caller, NoAddress(c) PROVE TypeOK'
  BY <1>0, <1>t, <1>21, ReleaseTypes DEF NoAddress, NoFill, FillState
<1>22. CASE UNCHANGED vars
  BY <1>0, <1>t, <1>22 DEF vars
<1> QED
  BY <1>1, <1>2, <1>3, <1>4, <1>5, <1>6, <1>7, <1>8, <1>9, <1>10, <1>11, <1>12, <1>13, <1>14, <1>15, <1>16, <1>17, <1>18, <1>19, <1>20, <1>21, <1>22 DEF Next, UseIndex, FillList

-----------------------------------------------------------------------------
(* The parts of the invariant.                                             *)

LEMMA LocksStep == TypeOK /\ LocksHeld /\ [Next]_vars => LocksHeld'
<1> SUFFICES ASSUME TypeOK, LocksHeld, [Next]_vars PROVE LocksHeld'
  OBVIOUS
<1> USE DEF zk, pool, locks, At
<1>t. /\ caller \in [Caller -> CallerState]
      /\ writer \in Caller \cup {NoCaller} /\ readers \subseteq Caller
      /\ NoCaller \notin Caller
  BY CallerAssumption, Zenon DEF TypeOK, CallerState, PCs
<1>p. UsingList \cup Filling \subseteq PCs /\ {"idle", "look", "miss", "lock"} \subseteq PCs
  BY DEF PCs
<1>1. CASE UNCHANGED <<writer, readers, caller>>
  BY <1>1 DEF LocksHeld
<1>2. ASSUME NEW c \in Caller, Call(c) PROVE LocksHeld'
  <2>1. caller'[c].pc = "look" /\ \A d \in Caller \ {c} : caller'[d] = caller[d]
    BY <1>t, <1>2 DEF Call, Idle
  <2> QED
    BY <1>t, <1>2, <2>1 DEF Call, LocksHeld, UsingList, Filling
<1>3. ASSUME NEW c \in Caller, ReadIndex(c) PROVE LocksHeld'
  <2>1. caller[c].pc \in UsingList /\ caller'[c].pc \in UsingList
    BY <1>t, <1>3 DEF ReadIndex, UsingList, CallerState, AfterIndex
  <2>2. \A d \in Caller \ {c} : caller'[d] = caller[d]
    BY <1>t, <1>3 DEF ReadIndex
  <2>3. UNCHANGED <<writer, readers>>
    BY <1>3 DEF ReadIndex
  <2> QED
    BY <1>t, <2>1, <2>2, <2>3 DEF LocksHeld, UsingList, Filling
<1>4. ASSUME NEW c \in Caller, LoadIndex(c) PROVE LocksHeld'
  <2>1. caller[c].pc \in UsingList /\ caller'[c].pc \in UsingList
    BY <1>t, <1>4 DEF LoadIndex, UsingList, CallerState
  <2>2. \A d \in Caller \ {c} : caller'[d] = caller[d]
    BY <1>t, <1>4 DEF LoadIndex
  <2>3. UNCHANGED <<writer, readers>>
    BY <1>4 DEF LoadIndex
  <2> QED
    BY <1>t, <2>1, <2>2, <2>3 DEF LocksHeld, UsingList, Filling
<1>5. ASSUME NEW c \in Caller, StoreIndex(c) PROVE LocksHeld'
  <2>0. /\ caller[c].pc = "store" /\ UNCHANGED <<writer, readers>>
        /\ caller' = [caller EXCEPT ![c].loaded = 0, ![c].pc = "wrap"]
    BY <1>5 DEF StoreIndex
  <2>1. caller[c].pc \in UsingList /\ caller'[c].pc \in UsingList
    BY <1>t, <2>0 DEF UsingList, CallerState
  <2>2. \A d \in Caller \ {c} : caller'[d] = caller[d]
    BY <1>t, <2>0
  <2>3. UNCHANGED <<writer, readers>>
    BY <2>0
  <2> QED
    BY <1>t, <2>1, <2>2, <2>3 DEF LocksHeld, UsingList, Filling
<1>6. ASSUME NEW c \in Caller, Look(c) PROVE LocksHeld'
  <2>1. c \in readers /\ writer' = writer
    BY <1>6 DEF Look, LocksHeld
  <2>2. CASE cached
    <3>1. Goto(c, "index") /\ readers' = readers
      BY <1>6, <2>2 DEF Look
    <3>2. caller'[c].pc = "index" /\ \A d \in Caller \ {c} : caller'[d] = caller[d]
      BY <1>p, <3>1, GotoTypes DEF UsingList
    <3> QED
      BY <1>t, <2>1, <3>1, <3>2 DEF LocksHeld, UsingList, Filling
  <2>3. CASE ~cached
    <3>1. Goto(c, "miss") /\ readers' = readers \ {c}
      BY <1>6, <2>3 DEF Look
    <3>2. caller'[c].pc = "miss" /\ \A d \in Caller \ {c} : caller'[d] = caller[d]
      BY <1>p, <3>1, GotoTypes
    <3> QED
      BY <1>t, <2>1, <3>1, <3>2 DEF LocksHeld, UsingList, Filling
  <2> QED
    BY <2>2, <2>3
<1>7. ASSUME NEW c \in Caller, Announce(c) PROVE LocksHeld'
  <2>1. caller'[c].pc \in {"lock"} /\ \A d \in Caller \ {c} : caller'[d] = caller[d]
    BY <1>t, <1>7 DEF Announce, Goto
  <2> QED
    BY <1>t, <1>7, <2>1 DEF Announce, LocksHeld, UsingList, Filling
<1>8. ASSUME NEW c \in Caller, Lock(c) PROVE LocksHeld'
  <2>1. caller'[c].pc \in {"again"} /\ \A d \in Caller \ {c} : caller'[d] = caller[d]
    BY <1>t, <1>8 DEF Lock, Goto
  <2> QED
    BY <1>t, <1>8, <2>1 DEF Lock, LocksHeld, UsingList, Filling
<1>9. ASSUME NEW c \in Caller, RandomIndex(c) PROVE LocksHeld'
  <2>1. caller'[c].pc \in {"took"} /\ \A d \in Caller \ {c} : caller'[d] = caller[d]
    BY <1>t, <1>9 DEF RandomIndex, Goto
  <2> QED
    BY <1>t, <1>9, <2>1 DEF RandomIndex, LocksHeld, UsingList, Filling
<1>10. ASSUME NEW c \in Caller, CheckIndex(c) PROVE LocksHeld'
  <2>1. caller'[c].pc \in {"zero", "took"} /\ \A d \in Caller \ {c} : caller'[d] = caller[d]
    BY <1>t, <1>10 DEF CheckIndex, Goto
  <2> QED
    BY <1>t, <1>10, <2>1 DEF CheckIndex, LocksHeld, UsingList, Filling
<1>11. ASSUME NEW c \in Caller, WrapIndex(c) PROVE LocksHeld'
  <2>1. caller'[c].pc \in {"took"} /\ \A d \in Caller \ {c} : caller'[d] = caller[d]
    BY <1>t, <1>11 DEF WrapIndex, Goto
  <2> QED
    BY <1>t, <1>11, <2>1 DEF WrapIndex, LocksHeld, UsingList, Filling
<1>12. ASSUME NEW c \in Caller, LookAgain(c) PROVE LocksHeld'
  <2>1. caller'[c].pc \in {"index", "conn"} /\ \A d \in Caller \ {c} : caller'[d] = caller[d]
    BY <1>t, <1>12 DEF LookAgain, Goto
  <2> QED
    BY <1>t, <1>12, <2>1 DEF LookAgain, LocksHeld, UsingList, Filling
<1>13. ASSUME NEW c \in Caller, GetConn(c) PROVE LocksHeld'
  <2>1. caller'[c].pc \in {"watch"} /\ \A d \in Caller \ {c} : caller'[d] = caller[d]
    BY <1>t, <1>13 DEF GetConn, Goto
  <2> QED
    BY <1>t, <1>13, <2>1 DEF GetConn, LocksHeld, UsingList, Filling
<1>14. ASSUME NEW c \in Caller, ChildrenW(c) PROVE LocksHeld'
  <2>1. caller'[c].pc \in {"read"} /\ \A d \in Caller \ {c} : caller'[d] = caller[d]
    BY <1>t, <1>14 DEF ChildrenW, Goto
  <2> QED
    BY <1>t, <1>14, <2>1 DEF ChildrenW, LocksHeld, UsingList, Filling
<1>15. ASSUME NEW c \in Caller, StoreList(c) PROVE LocksHeld'
  <2>1. caller'[c].pc \in {"index"} /\ \A d \in Caller \ {c} : caller'[d] = caller[d]
    BY <1>t, <1>15 DEF StoreList, Goto
  <2> QED
    BY <1>t, <1>15, <2>1 DEF StoreList, LocksHeld, UsingList, Filling
<1>16. ASSUME NEW c \in Caller, TakeAddress(c) PROVE LocksHeld'
  <2>1. caller'[c].pc = "idle" /\ \A d \in Caller \ {c} : caller'[d] = caller[d]
    BY <1>16, ReleaseTypes DEF TakeAddress
  <2> QED
    BY <1>t, <1>16, <2>1 DEF TakeAddress, Release, LocksHeld, UsingList, Filling
<1>17. ASSUME NEW c \in Caller, FailFill(c) PROVE LocksHeld'
  <2>1. caller'[c].pc = "idle" /\ \A d \in Caller \ {c} : caller'[d] = caller[d]
    BY <1>17, ReleaseTypes DEF FailFill
  <2> QED
    BY <1>t, <1>17, <2>1 DEF FailFill, Release, LocksHeld, UsingList, Filling
<1>18. ASSUME NEW c \in Caller, NoAddress(c) PROVE LocksHeld'
  <2>1. caller'[c].pc = "idle" /\ \A d \in Caller \ {c} : caller'[d] = caller[d]
    BY <1>18, ReleaseTypes DEF NoAddress
  <2> QED
    BY <1>t, <1>18, <2>1 DEF NoAddress, Release, LocksHeld, UsingList, Filling
<1>19. (ChangeChildren \/ LoseSession \/ (\E w \in Watch : DropList(w))
       \/ (\E c \in Caller : GetNode(c)) \/ UNCHANGED vars) => UNCHANGED <<writer, readers, caller>>
  BY DEF ChangeChildren, LoseSession, DropList, GetNode, vars
<1> QED
  BY <1>1, <1>2, <1>3, <1>4, <1>5, <1>6, <1>7, <1>8, <1>9, <1>10, <1>11, <1>12, <1>13, <1>14, <1>15, <1>16, <1>17, <1>18, <1>19 DEF Next, UseIndex, FillList

\* What is known of the list and the index.
IndexOK == ListNotEmpty /\ IndexInBounds /\ IndexSettles

LEMMA IndexStep == TypeOK /\ LocksHeld /\ IndexOK /\ [Next]_vars => IndexOK'
<1> SUFFICES ASSUME TypeOK, LocksHeld, IndexOK, [Next]_vars PROVE IndexOK'
  OBVIOUS
<1> USE DEF zk, pool, locks, At
<1>t. /\ caller \in [Caller -> CallerState]
      /\ list \in ListState /\ list.address \in Seq(Node) /\ list.nextUsingIndex \in Nat
      /\ Len(list.address) \in Nat
      /\ writer \in Caller \cup {NoCaller} /\ NoCaller \notin Caller
  BY CallerAssumption DEF TypeOK, CallerState, PCs, ListState
<1>p. UsingList \cup Filling \subseteq PCs /\ {"idle", "look", "miss", "lock"} \subseteq PCs
  BY DEF PCs
\* A step that leaves the list alone and takes its caller, if any, out of getAddr.
<1>f. ASSUME cached' => cached,
             list'.address = list.address /\ list'.nextUsingIndex = list.nextUsingIndex,
             \A c \in Caller :
               \/ caller'[c] = caller[c]
               \/ caller[c].pc \notin {"wrap", "zero"} /\ caller'[c].pc \notin UsingList
      PROVE  IndexOK'
  BY <1>f DEF IndexOK, ListNotEmpty, IndexInBounds, IndexSettles, UsingList
<1>1. CASE UNCHANGED <<cached, list, caller>>
  BY <1>1, <1>f
<1>2. ASSUME NEW w \in Watch, DropList(w) PROVE IndexOK'
  <2>1. UNCHANGED caller /\ ~cached'
        /\ list' = IF list.watch = w THEN [list EXCEPT !.watch = NoWatch] ELSE list
    BY <1>2 DEF DropList
  <2>2. list'.address = list.address /\ list'.nextUsingIndex = list.nextUsingIndex
    BY <1>t, <2>1 DEF ListState
  <2> QED
    BY <1>f, <2>1, <2>2
<1>3. ASSUME NEW c \in Caller, Call(c) PROVE IndexOK'
  <2>1. /\ caller[c].pc = "idle" /\ caller'[c].pc = "look"
        /\ \A d \in Caller \ {c} : caller'[d] = caller[d]
        /\ UNCHANGED <<cached, list>>
    BY <1>t, <1>3 DEF Call, Idle
  <2> QED
    BY <1>f, <2>1 DEF UsingList
<1>4. ASSUME NEW c \in Caller, Announce(c) PROVE IndexOK'
  <2>1. /\ caller[c].pc = "miss" /\ caller'[c].pc = "lock"
        /\ \A d \in Caller \ {c} : caller'[d] = caller[d]
        /\ UNCHANGED <<cached, list>>
    BY <1>t, <1>4 DEF Announce, Goto
  <2> QED
    BY <1>f, <2>1 DEF UsingList
<1>5. ASSUME NEW c \in Caller, Lock(c) PROVE IndexOK'
  <2>1. /\ caller[c].pc = "lock" /\ caller'[c].pc = "again"
        /\ \A d \in Caller \ {c} : caller'[d] = caller[d]
        /\ UNCHANGED <<cached, list>>
    BY <1>t, <1>5 DEF Lock, Goto
  <2> QED
    BY <1>f, <2>1 DEF UsingList
<1>6. ASSUME NEW c \in Caller, GetConn(c) PROVE IndexOK'
  <2>1. /\ caller[c].pc = "conn" /\ caller'[c].pc = "watch"
        /\ \A d \in Caller \ {c} : caller'[d] = caller[d]
        /\ UNCHANGED <<cached, list>>
    BY <1>t, <1>6 DEF GetConn, Goto
  <2> QED
    BY <1>f, <2>1 DEF UsingList
<1>7. ASSUME NEW c \in Caller, ChildrenW(c) PROVE IndexOK'
  <2>1. /\ caller[c].pc = "watch" /\ caller'[c].pc = "read"
        /\ \A d \in Caller \ {c} : caller'[d] = caller[d]
        /\ UNCHANGED <<cached, list>>
    BY <1>t, <1>7 DEF ChildrenW, Goto
  <2> QED
    BY <1>f, <2>1 DEF UsingList
<1>8. ASSUME NEW c \in Caller, FailFill(c) PROVE IndexOK'
  <2>1. /\ caller[c].pc \in {"conn", "watch"} /\ caller'[c].pc = "idle"
        /\ \A d \in Caller \ {c} : caller'[d] = caller[d]
        /\ UNCHANGED <<cached, list>>
    BY <1>8, ReleaseTypes DEF FailFill
  <2> QED
    BY <1>f, <2>1 DEF UsingList
<1>9. ASSUME NEW c \in Caller, TakeAddress(c) PROVE IndexOK'
  <2>1. /\ caller[c].pc \in {"took"} /\ caller'[c].pc = "idle"
        /\ \A d \in Caller \ {c} : caller'[d] = caller[d]
        /\ UNCHANGED <<cached, list>>
    BY <1>9, ReleaseTypes DEF TakeAddress
  <2> QED
    BY <1>f, <2>1 DEF UsingList
<1>10. ASSUME NEW c \in Caller, NoAddress(c) PROVE IndexOK'
  <2>1. /\ caller[c].pc \in {"read"} /\ caller'[c].pc = "idle"
        /\ \A d \in Caller \ {c} : caller'[d] = caller[d]
        /\ UNCHANGED <<cached, list>>
    BY <1>10, ReleaseTypes DEF NoAddress
  <2> QED
    BY <1>f, <2>1 DEF UsingList
<1>11. ASSUME NEW c \in Caller, Look(c) PROVE IndexOK'
  <2>1. UNCHANGED <<cached, list>> /\ caller[c].pc = "look"
    BY <1>11 DEF Look
  <2>2. CASE cached
    <3>1. caller'[c].pc = "index" /\ \A d \in Caller \ {c} : caller'[d] = caller[d]
      BY <1>11, <1>p, <2>2, GotoTypes DEF Look, UsingList
    <3> QED
      BY <2>1, <2>2, <3>1 DEF IndexOK, ListNotEmpty, IndexInBounds, IndexSettles, UsingList
  <2>3. CASE ~cached
    <3>1. caller'[c].pc = "miss" /\ \A d \in Caller \ {c} : caller'[d] = caller[d]
      BY <1>11, <1>p, <2>3, GotoTypes DEF Look
    <3> QED
      BY <1>f, <2>1, <3>1 DEF UsingList
  <2> QED
    BY <2>2, <2>3
<1>12. ASSUME NEW c \in Caller, ReadIndex(c) PROVE IndexOK'
  <2> DEFINE using == IF list.nextUsingIndex >= Len(list.address) THEN 0 ELSE list.nextUsingIndex
  <2>1. /\ caller[c].pc = "index" /\ caller'[c].using = using
        /\ caller'[c].pc \in UsingList \ {"wrap", "zero"}
        /\ \A d \in Caller \ {c} : caller'[d] = caller[d]
        /\ UNCHANGED <<cached, list>>
    BY <1>t, <1>12 DEF ReadIndex, AfterIndex, UsingList, CallerState
  <2>2. list.address # <<>>
    BY <2>1 DEF IndexOK, ListNotEmpty, UsingList
  <2>3. using < Len(list.address)
    BY <1>t, <2>2
  <2> HIDE DEF using
  <2> QED
    BY <2>1, <2>2, <2>3 DEF IndexOK, ListNotEmpty, IndexInBounds, IndexSettles, UsingList
<1>13. ASSUME NEW c \in Caller, RandomIndex(c) PROVE IndexOK'
  <2>1. /\ caller[c].pc = "random" /\ caller'[c].pc = "took" /\ caller'[c].using = caller[c].using
        /\ \A d \in Caller \ {c} : caller'[d] = caller[d]
        /\ UNCHANGED cached
    BY <1>13, <1>p, GotoTypes DEF RandomIndex, UsingList
  <2>2. /\ list'.address = list.address /\ list'.nextUsingIndex \in Nat
        /\ list'.nextUsingIndex < Len(list.address)
    BY <1>t, <1>13, SetIndexTypes DEF RandomIndex
  <2> QED
    BY <1>t, <2>1, <2>2 DEF IndexOK, ListNotEmpty, IndexInBounds, IndexSettles, UsingList
<1>14. ASSUME NEW c \in Caller, LoadIndex(c) PROVE IndexOK'
  <2>1. /\ caller[c].pc = "load" /\ caller'[c].pc = "store" /\ caller'[c].using = caller[c].using
        /\ \A d \in Caller \ {c} : caller'[d] = caller[d]
        /\ UNCHANGED <<cached, list>>
    BY <1>t, <1>14 DEF LoadIndex, CallerState
  <2> QED
    BY <2>1 DEF IndexOK, ListNotEmpty, IndexInBounds, IndexSettles, UsingList
<1>15. ASSUME NEW c \in Caller, StoreIndex(c) PROVE IndexOK'
  <2>1. /\ caller[c].pc = "store" /\ caller'[c].pc = "wrap" /\ caller'[c].using = caller[c].using
        /\ \A d \in Caller \ {c} : caller'[d] = caller[d]
        /\ UNCHANGED cached
    BY <1>t, <1>15 DEF StoreIndex, CallerState
  <2>2. list'.address = list.address
    BY <1>t, <1>15 DEF StoreIndex, SetIndex, ListState
  <2> QED
    BY <2>1, <2>2 DEF IndexOK, ListNotEmpty, IndexInBounds, IndexSettles, UsingList
<1>16. ASSUME NEW c \in Caller, CheckIndex(c) PROVE IndexOK'
  <2>1. /\ caller[c].pc = "wrap" /\ caller'[c].using = caller[c].using
        /\ caller'[c].pc = IF list.nextUsingIndex >= Len(list.address) THEN "zero" ELSE "took"
        /\ \A d \in Caller \ {c} : caller'[d] = caller[d]
        /\ UNCHANGED <<cached, list>>
    BY <1>t, <1>16 DEF CheckIndex, Goto, CallerState
  <2> QED
    BY <2>1 DEF IndexOK, ListNotEmpty, IndexInBounds, IndexSettles, UsingList
<1>17. ASSUME NEW c \in Caller, WrapIndex(c) PROVE IndexOK'
  <2>1. /\ caller[c].pc = "zero" /\ caller'[c].pc = "took" /\ caller'[c].using = caller[c].using
        /\ \A d \in Caller \ {c} : caller'[d] = caller[d]
        /\ UNCHANGED cached
    BY <1>17, <1>p, GotoTypes DEF WrapIndex, UsingList
  <2>2. list'.address = list.address /\ list'.nextUsingIndex = 0
    BY <1>17, SetIndexTypes DEF WrapIndex
  <2>3. 0 < Len(list.address)
    BY <1>t, <2>1 DEF IndexOK, ListNotEmpty, UsingList
  <2> QED
    BY <2>1, <2>2, <2>3 DEF IndexOK, ListNotEmpty, IndexInBounds, IndexSettles, UsingList
<1>18. ASSUME NEW c \in Caller, LookAgain(c) PROVE IndexOK'
  <2>1. UNCHANGED cached /\ caller[c].pc = "again"
    BY <1>18 DEF LookAgain
  <2>2. CASE cached
    <3>1. caller'[c].pc = "index" /\ \A d \in Caller \ {c} : caller'[d] = caller[d]
      BY <1>18, <1>p, <2>2, GotoTypes DEF LookAgain, UsingList
    <3>2. UNCHANGED list
      BY <1>18, <2>2 DEF LookAgain
    <3> QED
      BY <2>1, <2>2, <3>1, <3>2 DEF IndexOK, ListNotEmpty, IndexInBounds, IndexSettles, UsingList
  <2>3. CASE ~cached
    <3>1. caller'[c].pc = "conn" /\ \A d \in Caller \ {c} : caller'[d] = caller[d]
      BY <1>18, <1>p, <2>3, GotoTypes DEF LookAgain, Filling
    <3>2. \A d \in Caller : caller'[d].pc \notin UsingList
      BY <1>t, <2>1, <3>1 DEF LocksHeld, UsingList, Filling
    <3>3. list'.address = <<>>
      BY <1>18, <2>3 DEF LookAgain, NoList
    <3> QED
      BY <2>1, <2>3, <3>2, <3>3 DEF IndexOK, ListNotEmpty, IndexInBounds, IndexSettles, UsingList
  <2> QED
    BY <2>2, <2>3
<1>19. ASSUME NEW c \in Caller, StoreList(c) PROVE IndexOK'
  <2>1. /\ caller[c].pc = "read" /\ caller'[c].pc = "index"
        /\ \A d \in Caller \ {c} : caller'[d] = caller[d]
    BY <1>19, <1>p, GotoTypes DEF StoreList, UsingList
  <2>2. \A d \in Caller \ {c} : caller'[d].pc \notin UsingList
    BY <1>t, <2>1 DEF LocksHeld, UsingList, Filling
  <2>3. Len(fill.address) \in Nat \ {0} /\ fill.address # <<>>
    BY <1>19 DEF TypeOK, StoreList
  <2>4. list'.address = fill.address /\ list'.nextUsingIndex \in Nat
        /\ list'.nextUsingIndex < Len(fill.address)
    BY <1>19, <2>3, FirstIndexBound DEF StoreList
  <2> QED
    BY <2>1, <2>2, <2>3, <2>4 DEF IndexOK, ListNotEmpty, IndexInBounds, IndexSettles, UsingList
<1>20. (ChangeChildren \/ LoseSession \/ (\E c \in Caller : GetNode(c)) \/ UNCHANGED vars)
        => UNCHANGED <<cached, list, caller>>
  BY DEF ChangeChildren, LoseSession, GetNode, vars
<1> QED
  BY <1>1, <1>2, <1>3, <1>4, <1>5, <1>6, <1>7, <1>8, <1>9, <1>10, <1>11, <1>12, <1>13, <1>14, <1>15, <1>16, <1>17, <1>18, <1>19, <1>20 DEF Next, UseIndex, FillList

LEMMA FillsStep == TypeOK /\ LocksHeld /\ FillsOnlyMissing /\ [Next]_vars => FillsOnlyMissing'
<1> SUFFICES ASSUME TypeOK, LocksHeld, FillsOnlyMissing, [Next]_vars PROVE FillsOnlyMissing'
  OBVIOUS
<1> USE DEF zk, pool, locks, At
<1>t. /\ caller \in [Caller -> CallerState]
      /\ writer \in Caller \cup {NoCaller} /\ NoCaller \notin Caller
  BY CallerAssumption, Zenon DEF TypeOK, CallerState, PCs
<1>p. UsingList \cup Filling \subseteq PCs /\ {"idle", "look", "miss", "lock"} \subseteq PCs
  BY DEF PCs
\* A step that caches nothing and takes no caller further into the fill than the
\* second look.
<1>f. ASSUME cached' => cached,
             \A c \in Caller :
               \/ caller'[c].pc = caller[c].pc
               \/ caller'[c].pc \notin Filling \ {"again"}
      PROVE  FillsOnlyMissing'
  BY <1>f DEF FillsOnlyMissing
<1>1. CASE UNCHANGED caller /\ (cached' => cached)
  BY <1>1, <1>f
<1>2. ASSUME NEW c \in Caller, Call(c) PROVE FillsOnlyMissing'
  <2>1. /\ caller'[c].pc = "look" /\ UNCHANGED cached
        /\ \A d \in Caller \ {c} : caller'[d] = caller[d]
    BY <1>t, <1>2 DEF Call, Idle
  <2> QED
    BY <1>f, <2>1 DEF Filling
<1>3. ASSUME NEW c \in Caller, Look(c) \/ Announce(c) \/ Lock(c) \/ UseIndex(c) \/ FailFill(c) \/ NoAddress(c)
      PROVE  FillsOnlyMissing'
  <2>1. UNCHANGED cached /\ \A d \in Caller \ {c} : caller'[d] = caller[d]
    <3>1. UNCHANGED cached
      BY <1>3 DEF Look, Announce, Lock, UseIndex, FailFill, NoAddress, ReadIndex, RandomIndex,
                  LoadIndex, StoreIndex, CheckIndex, WrapIndex, TakeAddress
    <3>2. \A d \in Caller \ {c} : caller'[d] = caller[d]
      BY <1>t, <1>3 DEF Look, Announce, Lock, UseIndex, FailFill, NoAddress, ReadIndex, RandomIndex,
                  LoadIndex, StoreIndex, CheckIndex, WrapIndex, TakeAddress, Goto, Release
    <3> QED
      BY <3>1, <3>2
  <2>2. caller'[c].pc \in {"index", "miss", "lock", "again", "idle"} \cup UsingList
    <3>1. ASSUME NEW pc, Goto(c, pc) PROVE caller'[c].pc = pc
      BY <1>t, <3>1 DEF Goto, CallerState
    <3>2. CASE Look(c) \/ Announce(c) \/ Lock(c)
      BY <3>1, <3>2 DEF Look, Announce, Lock
    <3>3. CASE FailFill(c) \/ NoAddress(c) \/ TakeAddress(c)
      BY <3>3, ReleaseTypes DEF FailFill, NoAddress, TakeAddress
    <3>4. CASE ReadIndex(c)
      BY <1>t, <3>4 DEF ReadIndex, AfterIndex, UsingList, CallerState
    <3>5. CASE LoadIndex(c) \/ StoreIndex(c)
      BY <1>t, <3>5 DEF LoadIndex, StoreIndex, UsingList, CallerState
    <3>6. CASE RandomIndex(c) \/ CheckIndex(c) \/ WrapIndex(c)
      BY <3>1, <3>6 DEF RandomIndex, CheckIndex, WrapIndex, UsingList
    <3> QED
      BY <1>3, <3>2, <3>3, <3>4, <3>5, <3>6 DEF UseIndex
  <2> QED
    BY <1>f, <2>1, <2>2 DEF UsingList, Filling
<1>4. ASSUME NEW c \in Caller, LookAgain(c) PROVE FillsOnlyMissing'
  <2>1. /\ UNCHANGED cached /\ Goto(c, IF cached THEN "index" ELSE "conn")
    BY <1>4 DEF LookAgain
  <2>2. caller'[c].pc = (IF cached THEN "index" ELSE "conn")
        /\ \A d \in Caller \ {c} : caller'[d] = caller[d]
    BY <1>p, <2>1, GotoTypes DEF UsingList, Filling
  <2> QED
    BY <2>1, <2>2 DEF FillsOnlyMissing, Filling
<1>5. ASSUME NEW c \in Caller, GetConn(c) \/ ChildrenW(c) PROVE FillsOnlyMissing'
  <2>1. UNCHANGED cached /\ caller[c].pc \in {"conn", "watch"}
    BY <1>5 DEF GetConn, ChildrenW
  <2>2. \A d \in Caller \ {c} : caller'[d] = caller[d]
    BY <1>t, <1>5 DEF GetConn, ChildrenW, Goto
  <2> QED
    BY <2>1, <2>2 DEF FillsOnlyMissing, Filling
<1>6. ASSUME NEW c \in Caller, StoreList(c) PROVE FillsOnlyMissing'
  <2>1. /\ caller[c].pc = "read" /\ caller'[c].pc = "index"
        /\ \A d \in Caller \ {c} : caller'[d] = caller[d]
    BY <1>6, <1>p, GotoTypes DEF StoreList, UsingList
  <2>2. \A d \in Caller \ {c} : caller'[d].pc \notin Filling
    BY <1>t, <2>1 DEF LocksHeld, Filling
  <2> QED
    BY <2>1, <2>2 DEF FillsOnlyMissing, Filling
<1>7. CASE ChangeChildren \/ LoseSession \/ UNCHANGED vars
  BY <1>1, <1>7 DEF ChangeChildren, LoseSession, vars
<1>8. ASSUME NEW w \in Watch, DropList(w) PROVE FillsOnlyMissing'
  BY <1>1, <1>8 DEF DropList
<1>9. ASSUME NEW c \in Caller, GetNode(c) PROVE FillsOnlyMissing'
  BY <1>1, <1>9 DEF GetNode
<1> QED
  BY <1>2, <1>3, <1>4, <1>5, <1>6, <1>7, <1>8, <1>9 DEF Next, FillList

LEMMA WatchStep ==
  TypeOK /\ LocksHeld /\ FillsOnlyMissing /\ FillIsCurrent /\ WatchedListIsCurrent /\ [Next]_vars
    => FillIsCurrent' /\ WatchedListIsCurrent'
<1> SUFFICES ASSUME TypeOK, LocksHeld, FillsOnlyMissing, FillIsCurrent, WatchedListIsCurrent,
                    [Next]_vars
             PROVE  FillIsCurrent' /\ WatchedListIsCurrent'
  OBVIOUS
<1> USE DEF zk, pool, locks, At
<1>t. /\ caller \in [Caller -> CallerState]
      /\ writer \in Caller \cup {NoCaller} /\ NoCaller \notin Caller
      /\ list \in ListState /\ fill \in FillState
      /\ watch \in [Watch -> {"free", "set", "fired"}]
  BY CallerAssumption, Zenon DEF TypeOK, CallerState, PCs, ListState, FillState
<1>p. UsingList \cup Filling \subseteq PCs /\ {"idle", "look", "miss", "lock"} \subseteq PCs
  BY DEF PCs
\* A step that sets no watch and changes neither what is read nor what is cached.
<1>f. ASSUME nodes' = nodes, fill' = fill, cached' => cached,
             list'.address = list.address, list'.skipped = list.skipped, list'.watch = list.watch,
             \A w \in Watch : watch'[w] = "set" => watch[w] = "set",
             \A c \in Caller : caller'[c].pc = "read" => caller[c].pc = "read"
      PROVE  FillIsCurrent' /\ WatchedListIsCurrent'
  BY <1>t, <1>f, Zenon DEF FillIsCurrent, WatchedListIsCurrent, ListState, FillState
<1>1. CASE UNCHANGED vars
  BY <1>1, <1>f DEF vars
<1>2. CASE LoseSession
  <2>1. \A w \in Watch : watch'[w] # "set"
    BY <1>t, <1>2 DEF LoseSession, FireAll
  <2> QED
    BY <1>2, <1>f, <2>1 DEF LoseSession
<1>3. CASE ChangeChildren
  <2>1. /\ \A w \in Watch : watch'[w] # "set"
        /\ UNCHANGED <<cached, list, fill, caller>>
    BY <1>t, <1>3 DEF ChangeChildren, FireAll
  <2>2. list.watch \in Watch \cup {NoWatch} /\ fill.watch \in Watch \cup {NoWatch}
    BY <1>t DEF ListState, FillState
  <2> QED
    BY <2>1, <2>2 DEF FillIsCurrent, WatchedListIsCurrent
<1>4. ASSUME NEW w \in Watch, DropList(w) PROVE FillIsCurrent' /\ WatchedListIsCurrent'
  <2>1. ~cached' /\ UNCHANGED <<nodes, caller>>
    BY <1>4 DEF DropList
  <2>2. /\ fill'.address = fill.address /\ fill'.skipped = fill.skipped /\ fill'.left = fill.left
        /\ fill'.watch = IF fill.watch = w THEN NoWatch ELSE fill.watch
    BY <1>t, <1>4 DEF DropList, FillState
  <2>3. fill.watch \in Watch \cup {NoWatch} /\ \A v \in Watch \ {w} : watch'[v] = watch[v]
    BY <1>t, <1>4 DEF DropList, FillState
  <2> QED
    BY <2>1, <2>2, <2>3 DEF FillIsCurrent, WatchedListIsCurrent
<1>5. ASSUME NEW c \in Caller, Call(c) PROVE FillIsCurrent' /\ WatchedListIsCurrent'
  <2>1. /\ caller'[c].pc = "look" /\ \A d \in Caller \ {c} : caller'[d] = caller[d]
    BY <1>t, <1>5 DEF Call, Idle
  <2> QED
    BY <1>5, <1>f, <2>1 DEF Call
<1>6. ASSUME NEW c \in Caller,
             \/ Look(c) \/ Announce(c) \/ Lock(c) \/ ReadIndex(c) \/ LoadIndex(c) \/ CheckIndex(c)
             \/ TakeAddress(c) \/ GetConn(c) \/ FailFill(c)
      PROVE  FillIsCurrent' /\ WatchedListIsCurrent'
  <2>1. UNCHANGED <<zk, pool>>
    BY <1>6 DEF Look, Announce, Lock, ReadIndex, LoadIndex, CheckIndex, TakeAddress, GetConn, FailFill
  <2>2. \A d \in Caller \ {c} : caller'[d] = caller[d]
    BY <1>t, <1>6 DEF Look, Announce, Lock, ReadIndex, LoadIndex, CheckIndex, TakeAddress, GetConn,
                      FailFill, Goto, Release
  <2>3. caller'[c].pc # "read"
    <3>1. ASSUME NEW pc, Goto(c, pc) PROVE caller'[c].pc = pc
      BY <1>t, <3>1 DEF Goto, CallerState
    <3>2. CASE Look(c) \/ Announce(c) \/ Lock(c) \/ CheckIndex(c) \/ GetConn(c)
      BY <3>1, <3>2 DEF Look, Announce, Lock, CheckIndex, GetConn
    <3>3. CASE FailFill(c) \/ TakeAddress(c)
      BY <3>3, ReleaseTypes DEF FailFill, TakeAddress
    <3>4. CASE ReadIndex(c)
      BY <1>t, <3>4 DEF ReadIndex, AfterIndex, CallerState
    <3>5. CASE LoadIndex(c)
      BY <1>t, <3>5 DEF LoadIndex, CallerState
    <3> QED
      BY <1>6, <3>2, <3>3, <3>4, <3>5
  <2> QED
    BY <1>f, <2>1, <2>2, <2>3
<1>7. ASSUME NEW c \in Caller, RandomIndex(c) \/ StoreIndex(c) \/ WrapIndex(c)
      PROVE  FillIsCurrent' /\ WatchedListIsCurrent'
  <2>1. UNCHANGED <<zk, cached, fill>>
    BY <1>7 DEF RandomIndex, StoreIndex, WrapIndex
  <2>2. \E n : SetIndex(n)
    BY <1>7 DEF RandomIndex, StoreIndex, WrapIndex
  <2>3. list'.address = list.address /\ list'.skipped = list.skipped /\ list'.watch = list.watch
    BY <1>t, <2>2 DEF SetIndex, ListState
  <2>4. caller'[c].pc # "read" /\ \A d \in Caller \ {c} : caller'[d] = caller[d]
    BY <1>t, <1>7 DEF RandomIndex, StoreIndex, WrapIndex, Goto, CallerState
  <2> QED
    BY <1>f, <2>1, <2>3, <2>4
<1>8. ASSUME NEW c \in Caller, LookAgain(c) PROVE FillIsCurrent' /\ WatchedListIsCurrent'
  <2>1. UNCHANGED <<zk, cached, fill>> /\ (cached => list' = list)
    BY <1>8 DEF LookAgain
  <2>2. caller'[c].pc # "read" /\ \A d \in Caller \ {c} : caller'[d] = caller[d]
    BY <1>t, <1>8 DEF LookAgain, Goto, CallerState
  <2> QED
    BY <2>1, <2>2 DEF FillIsCurrent, WatchedListIsCurrent
<1>9. ASSUME NEW c \in Caller, NoAddress(c) PROVE FillIsCurrent' /\ WatchedListIsCurrent'
  <2>1. /\ caller[c].pc = "read" /\ caller'[c].pc = "idle"
        /\ \A d \in Caller \ {c} : caller'[d] = caller[d]
        /\ UNCHANGED <<zk, cached, list>>
    BY <1>9, ReleaseTypes DEF NoAddress
  <2>2. \A d \in Caller : caller'[d].pc # "read"
    BY <1>t, <2>1 DEF LocksHeld, Filling
  <2> QED
    BY <2>1, <2>2 DEF FillIsCurrent, WatchedListIsCurrent
<1>10. ASSUME NEW c \in Caller, ChildrenW(c) PROVE FillIsCurrent' /\ WatchedListIsCurrent'
  <2>1. caller[c].pc = "watch" /\ UNCHANGED <<nodes, cached>>
    BY <1>10 DEF ChildrenW
  <2>2. ~cached
    BY <2>1 DEF FillsOnlyMissing, Filling
  <2>3. fill'.left = nodes /\ fill'.address = <<>> /\ fill'.skipped = {}
    BY <1>10 DEF ChildrenW
  <2>4. Range(<<>>) = {}
    BY DEF Range
  <2> QED
    BY <2>1, <2>2, <2>3, <2>4 DEF FillIsCurrent, WatchedListIsCurrent
<1>11. ASSUME NEW c \in Caller, GetNode(c) PROVE FillIsCurrent' /\ WatchedListIsCurrent'
  <2> DEFINE n == CHOOSE m \in fill.left : TRUE
  <2>1. n \in fill.left /\ n \in Node
    BY <1>t, <1>11 DEF GetNode, FillState
  <2>2. UNCHANGED <<nodes, watch, cached, list, caller>>
    BY <1>11 DEF GetNode
  <2>3. \/ fill' = [fill EXCEPT !.left = @ \ {n}, !.address = Append(@, n)]
        \/ fill' = [fill EXCEPT !.left = @ \ {n}, !.skipped = @ \cup {n}]
    BY <1>11 DEF GetNode
  <2> HIDE DEF n
  <2>4. fill'.watch = fill.watch /\ fill'.left = fill.left \ {n}
    BY <1>t, <2>3 DEF FillState
  <2>5. Range(fill'.address) \cup fill'.skipped = (Range(fill.address) \cup fill.skipped) \cup {n}
    <3>1. CASE fill' = [fill EXCEPT !.left = @ \ {n}, !.address = Append(@, n)]
      <4>1. fill'.address = Append(fill.address, n) /\ fill'.skipped = fill.skipped
        BY <1>t, <3>1 DEF FillState
      <4>2. Range(Append(fill.address, n)) = Range(fill.address) \cup {n}
        BY <1>t, <2>1, RangeAppend DEF FillState
      <4> QED
        BY <4>1, <4>2
    <3>2. CASE fill' = [fill EXCEPT !.left = @ \ {n}, !.skipped = @ \cup {n}]
      <4>1. fill'.address = fill.address /\ fill'.skipped = fill.skipped \cup {n}
        BY <1>t, <3>2 DEF FillState
      <4> QED
        BY <4>1
    <3> QED
      BY <2>3, <3>1, <3>2
  <2>6. Range(fill'.address) \cup fill'.skipped \cup fill'.left
          = Range(fill.address) \cup fill.skipped \cup fill.left
    BY <2>1, <2>4, <2>5
  <2> QED
    BY <2>2, <2>4, <2>6 DEF FillIsCurrent, WatchedListIsCurrent
<1>12. ASSUME NEW c \in Caller, StoreList(c) PROVE FillIsCurrent' /\ WatchedListIsCurrent'
  <2>1. /\ caller[c].pc = "read" /\ caller'[c].pc = "index"
        /\ \A d \in Caller \ {c} : caller'[d] = caller[d]
        /\ UNCHANGED <<nodes, watch>> /\ fill.left = {}
    BY <1>12, <1>p, GotoTypes DEF StoreList, UsingList
  <2>2. \A d \in Caller : caller'[d].pc # "read"
    BY <1>t, <2>1 DEF LocksHeld, Filling
  <2>3. list'.address = fill.address /\ list'.skipped = fill.skipped /\ list'.watch = fill.watch
    BY <1>12 DEF StoreList
  <2> QED
    BY <2>1, <2>2, <2>3 DEF FillIsCurrent, WatchedListIsCurrent
<1> QED
  BY <1>1, <1>2, <1>3, <1>4, <1>5, <1>6, <1>7, <1>8, <1>9, <1>10, <1>11, <1>12
     DEF Next, UseIndex, FillList

-----------------------------------------------------------------------------
(* The theorems.                                                           *)

LEMMA IInvInit == Init => IInv
<1> SUFFICES ASSUME Init PROVE IInv
  OBVIOUS
<1>1. /\ \A c \in Caller : caller[c].pc = "idle"
      /\ writer = NoCaller /\ readers = {} /\ ~cached /\ list.address = <<>>
  BY DEF Init, Idle, NoList
<1>2. LocksHeld
  BY <1>1, CallerAssumption DEF LocksHeld, At, UsingList, Filling
<1>3. ListNotEmpty /\ IndexInBounds /\ IndexSettles
  BY <1>1 DEF ListNotEmpty, IndexInBounds, IndexSettles, UsingList
<1>4. FillsOnlyMissing /\ FillIsCurrent /\ WatchedListIsCurrent
  BY <1>1 DEF FillsOnlyMissing, FillIsCurrent, WatchedListIsCurrent, At
<1> QED
  BY <1>2, <1>3, <1>4, TypeInit DEF IInv

LEMMA IInvStep == IInv /\ [Next]_vars => IInv'
<1> SUFFICES ASSUME IInv, [Next]_vars PROVE IInv'
  OBVIOUS
<1>1. TypeOK' /\ LocksHeld'
  BY TypeStep, LocksStep DEF IInv
<1>2. IndexOK'
  BY IndexStep DEF IInv, IndexOK
<1>3. FillsOnlyMissing' /\ FillIsCurrent' /\ WatchedListIsCurrent'
  BY FillsStep, WatchStep DEF IInv
<1> QED
  BY <1>1, <1>2, <1>3 DEF IInv, IndexOK

\* The inductive invariant of the address cache.
THEOREM Invariant == Spec => []IInv
  BY IInvInit, IInvStep, PTL DEF Spec

\* Every variable of the address cache keeps its type.
THEOREM TypeCorrect == Spec => []TypeOK
<1>1. IInv => TypeOK
  BY DEF IInv
<1> QED
  BY <1>1, Invariant, PTL

\* However many callers race for nextUsingIndex and whatever their modes, line 97
\* indexes inside the list.
THEOREM IndexInBoundsHolds == Spec => []IndexInBounds
<1>1. IInv => IndexInBounds
  BY DEF IInv
<1> QED
  BY <1>1, Invariant, PTL

\* However many callers race, the last of them leaves nextUsingIndex inside the list.
THEOREM IndexSettlesHolds == Spec => []IndexSettles
<1>1. IInv => IndexSettles
  BY DEF IInv
<1> QED
  BY <1>1, Invariant, PTL

\* ZooKeeper is asked for a list only while none is cached.
THEOREM FillsOnlyMissingHolds == Spec => []FillsOnlyMissing
<1>1. IInv => FillsOnlyMissing
  BY DEF IInv
<1> QED
  BY <1>1, Invariant, PTL

\* A cached list whose watch has not fired holds the children there are, but for those
\* that could not be read.
THEOREM WatchedListIsCurrentHolds == Spec => []WatchedListIsCurrent
<1>1. IInv => WatchedListIsCurrent
  BY DEF IInv
<1> QED
  BY <1>1, Invariant, PTL
=============================================================================
