------------------------ MODULE ConnectionPoolProofs ------------------------
(***************************************************************************)
(* Theorems about ConnectionPool, for every number of threads and of       *)
(* connections.                                                            *)
(***************************************************************************)
EXTENDS ConnectionPool, FiniteSetTheorems, TLAPS

LEMMA TypeOKInit == Init => TypeOK
BY CapacityAssumption DEF Init, TypeOK, Connections

\* Returning needs a connection that is out: the count says there is one.
LEMMA HolderCounts ==
    ASSUME TypeOK, CountIsRight, NEW t \in Threads, status[t] = "holding"
    PROVE  used > 0
<1>1. In("holding") \subseteq Threads /\ t \in In("holding")
  BY DEF In
<1>2. IsFiniteSet(In("holding"))
  BY <1>1, ThreadsAssumption, FS_Subset
<1>3. Cardinality(In("holding")) # 0
  BY <1>1, <1>2, FS_EmptySet
<1>. QED  BY <1>3 DEF CountIsRight, TypeOK

LEMMA TypeOKNext == TypeOK /\ CountIsRight /\ [Next]_vars => TypeOK'
<1>. SUFFICES ASSUME TypeOK, CountIsRight, [Next]_vars PROVE TypeOK'
  OBVIOUS
<1>. USE CapacityAssumption DEF TypeOK
<1>1. ASSUME NEW t \in Threads, Take(t) PROVE TypeOK'
  <2>1. used < Capacity => used \in Slots /\ used + 1 \in 0 .. Capacity
    BY DEF Slots
  <2>2. CASE used < Capacity /\ conn' = [conn EXCEPT ![t] = pool[used]]
             /\ pool' = [pool EXCEPT ![used] = Null] /\ used' = used + 1
             /\ status' = [status EXCEPT ![t] = "holding"]
    BY <2>1, <2>2
  <2>3. CASE status' = [status EXCEPT ![t] = "asleep"] /\ UNCHANGED <<pool, used, conn>>
    BY <2>3
  <2>. QED  BY <1>1, <2>2, <2>3 DEF Take
<1>2. ASSUME NEW t \in Threads, SpuriousWakeup(t) PROVE TypeOK'
  BY <1>2 DEF SpuriousWakeup
<1>3. ASSUME NEW t \in Threads, ReturnConnection(t) PROVE TypeOK'
  <2>1. used > 0
    BY <1>3, HolderCounts DEF ReturnConnection
  <2>2. used - 1 \in 0 .. Capacity /\ used - 1 \in Slots
    BY <2>1 DEF Slots
  <2>. QED  BY <1>3, <2>2 DEF ReturnConnection
<1>4. ASSUME NEW t \in Threads, Notify(t) PROVE TypeOK'
  BY <1>4 DEF Notify, In
<1>. QED  BY <1>1, <1>2, <1>3, <1>4 DEF Next, GetConnection, Resume, vars

-----------------------------------------------------------------------------
(* The count of connections that are out.                                    *)

LEMMA CountInit == Init => CountIsRight
<1>. SUFFICES ASSUME Init PROVE CountIsRight
  OBVIOUS
<1>1. In("holding") = {}
  BY DEF Init, In
<1>. QED  BY <1>1, FS_EmptySet DEF Init, CountIsRight

LEMMA InIsFinite == \A s : IsFiniteSet(In(s)) /\ Cardinality(In(s)) \in Nat
<1>1. \A s : In(s) \subseteq Threads
  BY DEF In
<1>. QED  BY <1>1, ThreadsAssumption, FS_Subset, FS_CardinalityType

LEMMA CountNext == TypeOK /\ CountIsRight /\ [Next]_vars => CountIsRight'
<1>. SUFFICES ASSUME TypeOK, CountIsRight, [Next]_vars PROVE CountIsRight'
  OBVIOUS
<1>. USE DEF TypeOK
<1>1. ASSUME NEW t \in Threads, status[t] # "holding", Take(t) PROVE CountIsRight'
  <2>1. CASE used' = used + 1 /\ status' = [status EXCEPT ![t] = "holding"]
    <3>1. In("holding")' = In("holding") \cup {t} /\ t \notin In("holding")
      BY <1>1, <2>1 DEF In
    <3>2. Cardinality(In("holding")') = Cardinality(In("holding")) + 1
      BY <3>1, InIsFinite, FS_AddElement
    <3>. QED  BY <2>1, <3>2 DEF CountIsRight
  <2>2. CASE status' = [status EXCEPT ![t] = "asleep"] /\ used' = used
    <3>1. In("holding")' = In("holding")
      BY <1>1, <2>2 DEF In
    <3>. QED  BY <2>2, <3>1 DEF CountIsRight
  <2>. QED  BY <1>1, <2>1, <2>2 DEF Take
<1>2. ASSUME NEW t \in Threads, ReturnConnection(t) PROVE CountIsRight'
  <2>1. In("holding")' = In("holding") \ {t} /\ t \in In("holding")
    BY <1>2 DEF ReturnConnection, In
  <2>2. Cardinality(In("holding")') = Cardinality(In("holding")) - 1
    BY <2>1, InIsFinite, FS_RemoveElement
  <2>. QED  BY <1>2, <2>2 DEF ReturnConnection, CountIsRight
<1>3. ASSUME NEW t \in Threads, SpuriousWakeup(t) \/ Notify(t) PROVE CountIsRight'
  <2>1. In("holding")' = In("holding") /\ used' = used
    BY <1>3 DEF SpuriousWakeup, Notify, In
  <2>. QED  BY <2>1 DEF CountIsRight
<1>4. CASE UNCHANGED vars
  BY <1>4 DEF vars, CountIsRight, In
<1>. QED  BY <1>1, <1>2, <1>3, <1>4 DEF Next, GetConnection, Resume

\* The state of the pool is well formed; ReturnConnection never takes the
\* count below zero, which is what its assertion says (line 85).
THEOREM TypeCorrect == Spec => []TypeOK
<1>. QED  BY TypeOKInit, TypeOKNext, CountInit, CountNext, PTL DEF Spec

-----------------------------------------------------------------------------
(* Exclusive use.  SlotsMatchUse says where the next connection is taken and  *)
(* returned; NoSharedConnection is inductive with it.                        *)

PoolInv == TypeOK /\ PoolIsSound

LEMMA PoolInvInit == Init => PoolInv
<1>. SUFFICES ASSUME Init PROVE PoolInv
  OBVIOUS
<1>1. SlotsMatchUse
  BY NullAssumption, CapacityAssumption DEF Init, SlotsMatchUse, Connections, Slots
<1>2. NoSharedConnection
  BY DEF Init, NoSharedConnection
<1>. QED  BY <1>1, <1>2, TypeOKInit, CountInit DEF PoolInv, PoolIsSound

LEMMA SoundAfterTake ==
    ASSUME PoolInv, NEW t \in Threads, status[t] # "holding", Take(t)
    PROVE  SlotsMatchUse' /\ NoSharedConnection'
<1>. USE CapacityAssumption DEF PoolInv, PoolIsSound, TypeOK
<1>0. conn[t] = Null
  BY DEF SlotsMatchUse
<1>1. CASE /\ used < Capacity
           /\ conn' = [conn EXCEPT ![t] = pool[used]]
           /\ pool' = [pool EXCEPT ![used] = Null]
           /\ used' = used + 1
           /\ status' = [status EXCEPT ![t] = "holding"]
  <2>1. used \in Slots
    BY <1>1 DEF Slots
  <2>2. pool[used] # Null
    BY <1>1, <2>1 DEF SlotsMatchUse
  <2>3. \A i \in Slots : pool'[i] = IF i = used THEN Null ELSE pool[i]
    BY <1>1
  <2>4. \A u \in Threads : conn'[u] = IF u = t THEN pool[used] ELSE conn[u]
    BY <1>1
  <2>5. \A i \in Slots : pool'[i] = Null <=> i < used'
    <3>1. \A i \in Slots : i < used + 1 <=> i < used \/ i = used
      BY DEF Slots
    <3>. QED  BY <1>1, <2>3, <3>1 DEF SlotsMatchUse
  <2>6. \A u \in Threads : conn'[u] = Null <=> status'[u] # "holding"
    BY <1>1, <2>2, <2>4 DEF SlotsMatchUse
  <2>7. \A u \in Threads, v \in Threads : conn'[u] = conn'[v] /\ conn'[u] # Null => u = v
    BY <2>1, <2>4 DEF NoSharedConnection
  <2>8. \A i \in Slots, j \in Slots : pool'[i] = pool'[j] /\ pool'[i] # Null => i = j
    BY <2>3 DEF NoSharedConnection
  <2>9. \A u \in Threads, i \in Slots : conn'[u] = pool'[i] => conn'[u] = Null
    BY <2>1, <2>2, <2>3, <2>4 DEF NoSharedConnection
  <2>. QED  BY <2>5, <2>6, <2>7, <2>8, <2>9 DEF SlotsMatchUse, NoSharedConnection
<1>2. CASE status' = [status EXCEPT ![t] = "asleep"] /\ UNCHANGED <<pool, used, conn>>
  BY <1>0, <1>2 DEF SlotsMatchUse, NoSharedConnection
<1>. QED  BY <1>1, <1>2 DEF Take

LEMMA SoundAfterReturn ==
    ASSUME PoolInv, NEW t \in Threads, ReturnConnection(t)
    PROVE  SlotsMatchUse' /\ NoSharedConnection'
<1>. USE CapacityAssumption DEF PoolInv, PoolIsSound, TypeOK
<1>1. used > 0 /\ used - 1 \in Slots
  BY HolderCounts DEF ReturnConnection, Slots
<1>2. conn[t] # Null /\ status[t] = "holding"
  BY DEF ReturnConnection, SlotsMatchUse
<1>3. \A i \in Slots : pool'[i] = IF i = used - 1 THEN conn[t] ELSE pool[i]
  BY <1>1 DEF ReturnConnection
<1>4. \A u \in Threads : conn'[u] = IF u = t THEN Null ELSE conn[u]
  BY DEF ReturnConnection
<1>5. \A i \in Slots : pool'[i] = Null <=> i < used'
  <2>1. \A i \in Slots : i < used - 1 <=> i < used /\ i # used - 1
    BY <1>1 DEF Slots
  <2>. QED  BY <1>2, <1>3, <2>1 DEF SlotsMatchUse, ReturnConnection
<1>6. \A u \in Threads : conn'[u] = Null <=> status'[u] # "holding"
  BY <1>2, <1>4 DEF SlotsMatchUse, ReturnConnection
<1>7. \A u \in Threads, v \in Threads : conn'[u] = conn'[v] /\ conn'[u] # Null => u = v
  BY <1>4 DEF NoSharedConnection
<1>8. \A i \in Slots, j \in Slots : pool'[i] = pool'[j] /\ pool'[i] # Null => i = j
  BY <1>2, <1>3 DEF NoSharedConnection
<1>9. \A u \in Threads, i \in Slots : conn'[u] = pool'[i] => conn'[u] = Null
  BY <1>2, <1>3, <1>4 DEF NoSharedConnection
<1>. QED  BY <1>5, <1>6, <1>7, <1>8, <1>9 DEF SlotsMatchUse, NoSharedConnection

LEMMA PoolInvNext == PoolInv /\ [Next]_vars => PoolInv'
<1>. SUFFICES ASSUME PoolInv, [Next]_vars PROVE SlotsMatchUse' /\ NoSharedConnection'
  BY TypeOKNext, CountNext DEF PoolInv, PoolIsSound
<1>1. ASSUME NEW t \in Threads, GetConnection(t) \/ Resume(t)
      PROVE  SlotsMatchUse' /\ NoSharedConnection'
  BY <1>1, SoundAfterTake DEF GetConnection, Resume
<1>2. ASSUME NEW t \in Threads, ReturnConnection(t)
      PROVE  SlotsMatchUse' /\ NoSharedConnection'
  BY <1>2, SoundAfterReturn
<1>3. ASSUME NEW t \in Threads, SpuriousWakeup(t) \/ Notify(t)
      PROVE  SlotsMatchUse' /\ NoSharedConnection'
  <2>1. \A u \in Threads : status'[u] = "holding" <=> status[u] = "holding"
    BY <1>3 DEF SpuriousWakeup, Notify, In, PoolInv, TypeOK
  <2>2. UNCHANGED <<pool, used, conn>>
    BY <1>3 DEF SpuriousWakeup, Notify
  <2>. QED  BY <2>1, <2>2 DEF PoolInv, PoolIsSound, SlotsMatchUse, NoSharedConnection
<1>4. CASE UNCHANGED vars
  BY <1>4 DEF vars, PoolInv, PoolIsSound, SlotsMatchUse, NoSharedConnection
<1>. QED  BY <1>1, <1>2, <1>3, <1>4 DEF Next

\* No connection is in two hands and none is lost, for every number of
\* threads and connections.
THEOREM PoolStaysSound == Spec => []PoolIsSound
<1>. QED  BY PoolInvInit, PoolInvNext, PTL DEF Spec, PoolInv

-----------------------------------------------------------------------------
(* Wakeups.  Every returned connection adds a thread that stirs; a thread     *)
(* stops stirring by waking another, by taking a connection, or by finding    *)
(* that none is free.                                                         *)

LEMMA StirringIsFinite == IsFiniteSet(Stirring) /\ Cardinality(Stirring) \in Nat
<1>1. Stirring \subseteq Threads
  BY DEF Stirring, In
<1>. QED  BY <1>1, ThreadsAssumption, FS_Subset, FS_CardinalityType

LEMMA NoLostWakeupInit == Init => NoLostWakeup
BY DEF Init, NoLostWakeup, In

LEMMA NoLostWakeupNext == TypeOK /\ NoLostWakeup /\ [Next]_vars => NoLostWakeup'
<1>. SUFFICES ASSUME TypeOK, NoLostWakeup, [Next]_vars, In("asleep")' # {}
              PROVE  Capacity - used' =< Cardinality(Stirring')
  BY DEF NoLostWakeup
<1>. USE CapacityAssumption DEF TypeOK
<1>0. Cardinality(Stirring') \in Nat
  <2>1. Stirring' \subseteq Threads
    BY DEF Stirring, In
  <2>. QED  BY <2>1, ThreadsAssumption, FS_Subset, FS_CardinalityType
<1>1. ASSUME NEW t \in Threads, status[t] \in {"ready", "woken"}, Take(t)
      PROVE  Capacity - used' =< Cardinality(Stirring')
  <2>1. CASE used >= Capacity /\ used' = used
    BY <1>0, <2>1
  <2>2. CASE used' = used + 1 /\ status' = [status EXCEPT ![t] = "holding"]
    <3>1. In("asleep") # {} /\ Stirring' = Stirring \ {t}
      BY <1>1, <2>2 DEF In, Stirring
    <3>2. Cardinality(Stirring') >= Cardinality(Stirring) - 1
      <4>1. CASE t \in Stirring
        <5>1. Cardinality(Stirring \ {t}) = Cardinality(Stirring) - 1
          BY <4>1, StirringIsFinite, FS_RemoveElement
        <5>. QED  BY <3>1, <5>1, StirringIsFinite
      <4>2. CASE t \notin Stirring
        <5>1. Stirring' = Stirring
          BY <3>1, <4>2
        <5>. QED  BY <5>1, StirringIsFinite
      <4>. QED  BY <4>1, <4>2
    <3>. QED  BY <1>0, <2>2, <3>1, <3>2, StirringIsFinite DEF NoLostWakeup
  <2>. QED  BY <1>1, <2>1, <2>2 DEF Take
<1>2. ASSUME NEW t \in Threads, SpuriousWakeup(t)
      PROVE  Capacity - used' =< Cardinality(Stirring')
  <2>1. In("asleep") # {} /\ Stirring' = Stirring \cup {t} /\ used' = used
    BY <1>2 DEF SpuriousWakeup, In, Stirring
  <2>2. Cardinality(Stirring') >= Cardinality(Stirring)
    BY <2>1, StirringIsFinite, FS_AddElement
  <2>. QED  BY <1>0, <2>1, <2>2, StirringIsFinite DEF NoLostWakeup
<1>3. ASSUME NEW t \in Threads, ReturnConnection(t)
      PROVE  Capacity - used' =< Cardinality(Stirring')
  <2>1. /\ In("asleep") # {} /\ used' = used - 1
        /\ Stirring' = Stirring \cup {t} /\ t \notin Stirring
    BY <1>3 DEF ReturnConnection, In, Stirring
  <2>2. Cardinality(Stirring') = Cardinality(Stirring) + 1
    BY <2>1, StirringIsFinite, FS_AddElement
  <2>. QED  BY <2>1, <2>2, StirringIsFinite DEF NoLostWakeup
<1>4. ASSUME NEW t \in Threads, Notify(t)
      PROVE  Capacity - used' =< Cardinality(Stirring')
  <2>1. status[t] = "notifying" /\ used' = used
    BY <1>4 DEF Notify
  <2>2. In("asleep") # {}
    BY <1>4 DEF Notify, In
  <2>3. PICK s \in In("asleep") : status' = [status EXCEPT ![t] = "ready", ![s] = "woken"]
    BY <1>4, <2>2 DEF Notify
  <2>4. /\ Stirring' = (Stirring \ {t}) \cup {s} /\ t \in Stirring
        /\ s \notin Stirring \ {t}
    BY <2>1, <2>3 DEF In, Stirring
  <2>5. IsFiniteSet(Stirring \ {t}) /\ Cardinality(Stirring \ {t}) = Cardinality(Stirring) - 1
    BY <2>4, StirringIsFinite, FS_RemoveElement
  <2>6. Cardinality(Stirring') = Cardinality(Stirring \ {t}) + 1
    BY <2>4, <2>5, FS_AddElement
  <2>. QED  BY <2>1, <2>2, <2>5, <2>6, StirringIsFinite DEF NoLostWakeup
<1>5. CASE UNCHANGED vars
  BY <1>5 DEF vars, NoLostWakeup, In, Stirring
<1>. QED  BY <1>1, <1>2, <1>3, <1>4, <1>5 DEF Next, GetConnection, Resume

\* No wakeup is lost, for every number of threads and connections.
THEOREM WakeupsAreNotLost == Spec => []NoLostWakeup
<1>. QED
  BY TypeOKInit, TypeOKNext, CountInit, CountNext, NoLostWakeupInit, NoLostWakeupNext, PTL DEF Spec

-----------------------------------------------------------------------------
(* Refinement: taking is lending a free connection, returning is giving it    *)
(* back, and everything else is invisible.                                    *)

LEMMA HolderIsUnique ==
    ASSUME NoSharedConnection, NEW c \in Connections
    PROVE  /\ \A t \in Threads : conn[t] = c => HolderOf(c) = t
           /\ (\A t \in Threads : conn[t] # c) => HolderOf(c) = Null
<1>1. c # Null
  BY NullAssumption
<1>2. ASSUME NEW t \in Threads, conn[t] = c PROVE HolderOf(c) = t
  <2>1. \A u \in Threads : conn[u] = c <=> u = t
    BY <1>1, <1>2 DEF NoSharedConnection
  <2>2. (CHOOSE u \in Threads : conn[u] = c) = t
    BY <2>1
  <2>. QED  BY <1>2, <2>2 DEF HolderOf
<1>3. (\A t \in Threads : conn[t] # c) => HolderOf(c) = Null
  BY DEF HolderOf
<1>. QED  BY <1>2, <1>3

LEMMA HolderIsUniqueNext ==
    ASSUME NoSharedConnection', NEW c \in Connections
    PROVE  /\ \A t \in Threads : conn'[t] = c => HolderOf(c)' = t
           /\ (\A t \in Threads : conn'[t] # c) => HolderOf(c)' = Null
<1>1. c # Null
  BY NullAssumption
<1>2. ASSUME NEW t \in Threads, conn'[t] = c PROVE HolderOf(c)' = t
  <2>1. \A u \in Threads : conn'[u] = c <=> u = t
    BY <1>1, <1>2 DEF NoSharedConnection
  <2>2. (CHOOSE u \in Threads : conn'[u] = c) = t
    BY <2>1
  <2>. QED  BY <1>2, <2>2 DEF HolderOf
<1>3. (\A t \in Threads : conn'[t] # c) => HolderOf(c)' = Null
  BY DEF HolderOf
<1>. QED  BY <1>2, <1>3

\* The pool as ExclusiveUse sees it.
Holders == [c \in Connections |-> HolderOf(c)]

LEMMA LendIsExclusive ==
    ASSUME PoolInv, PoolInv', NEW t \in Threads, used < Capacity, status[t] # "holding",
           conn' = [conn EXCEPT ![t] = pool[used]]
    PROVE  \E c \in Connections : Exclusive!Lend(c, t)
<1>. USE DEF PoolInv, PoolIsSound, TypeOK
<1>0. used \in Slots /\ pool[used] # Null
  BY CapacityAssumption DEF SlotsMatchUse, Slots
<1>1. PICK lent \in Connections : lent = pool[used]
  BY <1>0
<1>2. Holders[lent] = Null
  BY <1>0, <1>1, HolderIsUnique DEF NoSharedConnection, Holders
<1>3. conn[t] = Null /\ t # Null
  BY NullAssumption DEF SlotsMatchUse
<1>4. \A c \in Connections : Holders[c] # t
  <2>1. ASSUME NEW c \in Connections PROVE HolderOf(c) # t
    <3>1. c # Null
      BY NullAssumption
    <3>2. CASE \E u \in Threads : conn[u] = c
      BY <1>3, <3>1, <3>2, HolderIsUnique
    <3>3. CASE \A u \in Threads : conn[u] # c
      BY <1>3, <3>3, HolderIsUnique
    <3>. QED  BY <3>2, <3>3
  <2>. QED  BY <2>1 DEF Holders
<1>5. \A c \in Connections : HolderOf(c)' = IF c = lent THEN t ELSE HolderOf(c)
  <2>1. \A u \in Threads : conn'[u] = IF u = t THEN lent ELSE conn[u]
    BY <1>1
  <2>2. HolderOf(lent)' = t
    BY <2>1, HolderIsUniqueNext
  <2>3. ASSUME NEW c \in Connections, c # lent PROVE HolderOf(c)' = HolderOf(c)
    <3>1. \A u \in Threads : conn'[u] = c <=> conn[u] = c
      BY <1>3, <2>1, <2>3, NullAssumption
    <3>2. CASE \E u \in Threads : conn[u] = c
      BY <3>1, <3>2, HolderIsUnique, HolderIsUniqueNext
    <3>3. CASE \A u \in Threads : conn[u] # c
      BY <3>1, <3>3, HolderIsUnique, HolderIsUniqueNext
    <3>. QED  BY <3>2, <3>3
  <2>. QED  BY <2>2, <2>3
<1>6. Holders' = [Holders EXCEPT ![lent] = t]
  BY <1>1, <1>5 DEF Holders
<1>7. Exclusive!Lend(lent, t)
  BY <1>2, <1>4, <1>6 DEF Exclusive!Lend, Holders
<1>. QED  BY <1>1, <1>7

LEMMA ReturnIsGiveBack ==
    ASSUME PoolInv, PoolInv', NEW t \in Threads, ReturnConnection(t)
    PROVE  \E c \in Connections : Exclusive!GiveBack(c)
<1>. USE DEF PoolInv, PoolIsSound, TypeOK
<1>0. conn[t] # Null /\ t # Null
  BY NullAssumption DEF ReturnConnection, SlotsMatchUse
<1>1. PICK given \in Connections : given = conn[t]
  BY <1>0
<1>2. Holders[given] = t
  BY <1>1, HolderIsUnique DEF Holders
<1>3. \A u \in Threads : conn'[u] = IF u = t THEN Null ELSE conn[u]
  BY DEF ReturnConnection
<1>4. HolderOf(given)' = Null
  <2>1. \A u \in Threads : conn'[u] # given
    BY <1>1, <1>3, NullAssumption DEF NoSharedConnection
  <2>. QED  BY <1>1, <2>1, HolderIsUniqueNext
<1>5. ASSUME NEW c \in Connections, c # given PROVE HolderOf(c)' = HolderOf(c)
  <2>1. \A u \in Threads : conn'[u] = c <=> conn[u] = c
    BY <1>1, <1>3, <1>5, NullAssumption
  <2>2. CASE \E u \in Threads : conn[u] = c
    BY <2>1, <2>2, HolderIsUnique, HolderIsUniqueNext
  <2>3. CASE \A u \in Threads : conn[u] # c
    BY <2>1, <2>3, HolderIsUnique, HolderIsUniqueNext
  <2>. QED  BY <2>2, <2>3
<1>6. Holders' = [Holders EXCEPT ![given] = Null]
  BY <1>1, <1>4, <1>5 DEF Holders
<1>7. Exclusive!GiveBack(given)
  BY <1>0, <1>2, <1>6 DEF Exclusive!GiveBack, Holders
<1>. QED  BY <1>1, <1>7

LEMMA StepIsExclusive ==
    PoolInv /\ [Next]_vars => [Exclusive!ExclusiveNext]_Holders
<1>. SUFFICES ASSUME PoolInv, [Next]_vars PROVE [Exclusive!ExclusiveNext]_Holders
  OBVIOUS
<1>0. PoolInv'
  BY PoolInvNext
<1>1. UNCHANGED conn => UNCHANGED Holders
  BY DEF Holders, HolderOf
<1>2. ASSUME NEW t \in Threads, GetConnection(t) \/ Resume(t)
      PROVE  Exclusive!ExclusiveNext \/ UNCHANGED conn
  <2>1. status[t] # "holding"
    BY <1>2 DEF GetConnection, Resume
  <2>2. CASE used < Capacity /\ conn' = [conn EXCEPT ![t] = pool[used]]
    BY <1>0, <2>1, <2>2, LendIsExclusive DEF Exclusive!ExclusiveNext
  <2>. QED  BY <1>2, <2>2 DEF GetConnection, Resume, Take
<1>3. ASSUME NEW t \in Threads, ReturnConnection(t) PROVE Exclusive!ExclusiveNext
  BY <1>0, <1>3, ReturnIsGiveBack DEF Exclusive!ExclusiveNext
<1>4. (\E t \in Threads : SpuriousWakeup(t) \/ Notify(t)) \/ UNCHANGED vars => UNCHANGED conn
  BY DEF SpuriousWakeup, Notify, vars
<1>. QED  BY <1>1, <1>2, <1>3, <1>4 DEF Next

LEMMA InitIsExclusive == Init => Exclusive!ExclusiveInit
<1>. SUFFICES ASSUME Init PROVE \A c \in Connections : HolderOf(c) = Null
  BY DEF Exclusive!ExclusiveInit
<1>1. \A t \in Threads, c \in Connections : conn[t] # c
  BY NullAssumption DEF Init
<1>. QED  BY <1>1 DEF HolderOf

\* The pool implements exclusive use, for every number of threads and
\* connections.
THEOREM PoolIsExclusive == Spec => ExclusiveSpec
<1>1. PoolInv /\ [Next]_vars => [Exclusive!ExclusiveNext]_Holders
  BY StepIsExclusive
<1>2. Spec => Exclusive!ExclusiveInit /\ [][Exclusive!ExclusiveNext]_Holders
  BY <1>1, InitIsExclusive, PoolInvInit, PoolInvNext, PTL DEF Spec
<1>. QED  BY <1>2, PTL DEF ExclusiveSpec, Exclusive!ExclusiveSpec, Holders
=============================================================================
