-------------------------- MODULE RegularModeProofs --------------------------
(***************************************************************************)
(* For any number of executions, calls, stop requests, kinds of queue and  *)
(* limits.  First the types and the three invariants of the concurrency    *)
(* slots; then what becomes of the executions that wait for a slot or hold *)
(* one: a slot is given back, a queue is left in order, no enqueued        *)
(* execution is forgotten by a crash and the boot after it, and nothing    *)
(* starts while the process drains.                                        *)
(***************************************************************************)
EXTENDS RegularMode, FiniteSetTheorems, TLAPS

(* A call that has not passed the throttle. *)
Early == {"idle", "fetch", "admit", "queued"}

(* The blocked calls of a kind are distinct, and each waits in its own lane. *)
ItemsInv ==
  \A t \in QueueTypes :
    /\ \A i \in 1 .. Len(queues[t].items) :
         pc[queues[t].items[i]] = "queued" /\ lane[queues[t].items[i]] = t
    /\ \A i, j \in 1 .. Len(queues[t].items) :
         queues[t].items[i] = queues[t].items[j] => i = j

(* A call takes its unit at the throttle, and until it is registered, or has *)
(* an entry, nobody gives it back.  After the shutdown has disabled the      *)
(* control a call passes without a unit.                                     *)
CallsInv ==
  \A c \in Calls :
    /\ pc[c] \in Early => slot[c] = Unlimited
    /\ (enabled /\ pc[c] \in {"admitted", "marked"}) => slot[c] = lane[c]
    /\ pc[c] # "idle" => exec[c] \in Execs

EntriesInv ==
  \A e \in Execs : active[e] # None =>
    /\ exec[active[e]] = e
    /\ pc[active[e]] \notin Early \cup {"admitted", "marked"}
    /\ enabled => slot[active[e]] = lane[active[e]]

StopsInv == \A s \in Stops : stop[s].pc # "idle" => stop[s].exec \in Execs

(* The queue of a kind never waits next to a free unit, and owes at most one *)
(* unit for each removal.                                                    *)
CapacityInv ==
  \A t \in QueueTypes :
    /\ queues[t].items # <<>> => queues[t].capacity + Len(queues[t].items) <= 0
    /\ queues[t].capacity + Len(queues[t].items) + removals[t] >= 0

GateInv ==
  ItemsInv /\ CallsInv /\ EntriesInv /\ SlotConservation /\ CapacityInv

IInv == TypeOK /\ GateInv /\ StopsInv

-----------------------------------------------------------------------------
(* The operators of ConcurrencyQueue *)

(* Splicing an item out keeps the others, in their order. *)
LEMMA WithoutFacts ==
  ASSUME NEW S, NEW items \in Seq(S), NEW i \in 1 .. Len(items)
  PROVE  /\ Without(items, i) \in Seq(S)
         /\ Len(Without(items, i)) = Len(items) - 1
         /\ \A j \in 1 .. Len(items) - 1 :
              Without(items, i)[j] = items[IF j < i THEN j ELSE j + 1]
<1>1. Len(items) \in Nat /\ \A j \in 1 .. Len(items) : items[j] \in S
  OBVIOUS
<1>2. \A j \in 1 .. Len(items) - 1 : (IF j < i THEN j ELSE j + 1) \in 1 .. Len(items)
  BY <1>1
<1>3. Without(items, i) \in [1 .. Len(items) - 1 -> S]
  BY <1>1, <1>2 DEF Without
<1>4. Len(items) - 1 \in Nat
  BY <1>1
<1> QED
  BY <1>3, <1>4 DEF Without

(* Letting the oldest item go shifts the others by one place. *)
LEMMA RestFacts ==
  ASSUME NEW S, NEW items \in Seq(S)
  PROVE  /\ Rest(items) \in Seq(S)
         /\ Len(Rest(items)) = IF items = <<>> THEN 0 ELSE Len(items) - 1
         /\ \A j \in 1 .. Len(Rest(items)) : Rest(items)[j] = items[j + 1]
         /\ Released(items) = IF items = <<>> THEN {} ELSE {items[1]}
         /\ Rest(items) # <<>> => items # <<>>
<1>1. CASE items = <<>>
  BY <1>1 DEF Rest, Released, Nonempty
<1>2. CASE items # <<>>
  BY <1>2 DEF Rest, Released, Nonempty
<1> QED
  BY <1>1, <1>2

(* A sequence is empty exactly when it has no element. *)
LEMMA EmptyFacts ==
  ASSUME NEW S, NEW items \in Seq(S)
  PROVE  /\ Len(items) \in Nat
         /\ (items = <<>>) <=> (Len(items) = 0)
         /\ \A j \in 1 .. Len(items) : items[j] \in S
  OBVIOUS

(* `remove` on a queue of distinct calls: the i-th and the released one are  *)
(* gone, the rest are the others, still distinct.                            *)
LEMMA RemoveFacts ==
  ASSUME NEW S, NEW items \in Seq(S), NEW i \in 1 .. Len(items),
         \A j, k \in 1 .. Len(items) : items[j] = items[k] => j = k
  PROVE  /\ Rest(Without(items, i)) \in Seq(S)
         /\ Len(Rest(Without(items, i))) = IF Len(items) = 1 THEN 0 ELSE Len(items) - 2
         /\ Len(items) = 1 => Rest(Without(items, i)) = <<>> /\ Released(Without(items, i)) = {}
         /\ Len(items) # 1 => \E h \in 1 .. Len(items) : h # i /\ Released(Without(items, i)) = {items[h]}
         /\ \A j \in 1 .. Len(Rest(Without(items, i))) : \E k \in 1 .. Len(items) :
              k # i /\ Rest(Without(items, i))[j] = items[k] /\ items[k] \notin Released(Without(items, i))
         /\ \A j, l \in 1 .. Len(Rest(Without(items, i))) : Rest(Without(items, i))[j] = Rest(Without(items, i))[l] => j = l
<1> DEFINE n == Len(items)
           r == Without(items, i)
           at(j) == IF j < i THEN j ELSE j + 1
<1>1. /\ r \in Seq(S) /\ Len(r) = n - 1 /\ n \in Nat /\ n >= 1 /\ i \in Nat
      /\ \A j \in 1 .. n - 1 : r[j] = items[at(j)]
  <2>1. Len(items) \in Nat /\ i \in Nat /\ Len(items) >= 1
    OBVIOUS
  <2>2. /\ Without(items, i) \in Seq(S)
        /\ Len(Without(items, i)) = Len(items) - 1
        /\ \A j \in 1 .. Len(items) - 1 :
             Without(items, i)[j] = items[IF j < i THEN j ELSE j + 1]
    BY WithoutFacts
  <2> QED
    BY <2>1, <2>2
<1>2. /\ \A j \in 1 .. n - 1 : at(j) \in 1 .. n /\ at(j) # i
      /\ \A j, k \in 1 .. n - 1 : at(j) = at(k) => j = k
  BY <1>1
<1> HIDE DEF at, r
<1>3. /\ Rest(r) \in Seq(S)
      /\ Len(Rest(r)) = IF r = <<>> THEN 0 ELSE n - 2
      /\ \A j \in 1 .. Len(Rest(r)) : Rest(r)[j] = r[j + 1]
      /\ Released(r) = IF r = <<>> THEN {} ELSE {r[1]}
      /\ Rest(r) # <<>> => r # <<>>
  BY <1>1, RestFacts
<1>4. r = <<>> <=> n = 1
  BY <1>1, EmptyFacts
<1>5. CASE n = 1
  BY <1>1, <1>3, <1>4, <1>5 DEF r
<1>6. CASE n # 1
  <2>1. /\ 1 \in 1 .. n - 1 /\ at(1) \in 1 .. n /\ at(1) # i
        /\ Released(r) = {items[at(1)]} /\ Len(Rest(r)) = n - 2
    BY <1>1, <1>2, <1>3, <1>4, <1>6
  <2>2. \A j \in 1 .. Len(Rest(r)) :
          /\ j + 1 \in 1 .. n - 1 /\ j + 1 # 1 /\ Rest(r)[j] = items[at(j + 1)]
          /\ at(j + 1) \in 1 .. n /\ at(j + 1) # i /\ at(j + 1) # at(1)
    <3> SUFFICES ASSUME NEW j \in 1 .. Len(Rest(r))
                 PROVE  /\ j + 1 \in 1 .. n - 1 /\ j + 1 # 1 /\ Rest(r)[j] = items[at(j + 1)]
                        /\ at(j + 1) \in 1 .. n /\ at(j + 1) # i /\ at(j + 1) # at(1)
      OBVIOUS
    <3>1. j + 1 \in 1 .. n - 1 /\ j + 1 # 1
      BY <2>1, <1>1
    <3> QED
      BY <3>1, <2>1, <1>1, <1>2, <1>3
  <2>3. \A j \in 1 .. Len(Rest(r)) : items[at(j + 1)] \notin Released(r)
    BY <2>1, <2>2
  <2>4. \A j, l \in 1 .. Len(Rest(r)) : Rest(r)[j] = Rest(r)[l] => j = l
    <3> SUFFICES ASSUME NEW j \in 1 .. Len(Rest(r)), NEW l \in 1 .. Len(Rest(r)),
                        Rest(r)[j] = Rest(r)[l]
                 PROVE  j = l
      OBVIOUS
    <3>1. at(j + 1) = at(l + 1)
      BY <2>2
    <3>2. j + 1 = l + 1
      BY <3>1, <2>2, <1>2
    <3> QED
      BY <3>2
  <2> QED
    BY <1>3, <1>6, <2>1, <2>2, <2>3, <2>4 DEF r
<1> QED
  BY <1>5, <1>6

-----------------------------------------------------------------------------
(* Counting holders *)

LEMMA HoldersFinite ==
  ASSUME NEW t
  PROVE  IsFiniteSet(Holders(t)) /\ Cardinality(Holders(t)) \in Nat
<1>1. Holders(t) \subseteq Calls
  BY DEF Holders
<1>2. IsFiniteSet(Holders(t))
  BY <1>1, ConstantsAssumption, FS_Subset
<1> QED
  BY <1>2, FS_CardinalityType

LEMMA OneMore ==
  ASSUME NEW S, NEW T, NEW c, IsFiniteSet(S), c \notin S, T = S \cup {c}
  PROVE  Cardinality(T) = Cardinality(S) + 1 /\ IsFiniteSet(T)
  BY FS_AddElement

LEMMA OneLess ==
  ASSUME NEW S, NEW T, NEW c, IsFiniteSet(S), c \in S, T = S \ {c}
  PROVE  Cardinality(T) = Cardinality(S) - 1 /\ IsFiniteSet(T)
  BY FS_RemoveElement

-----------------------------------------------------------------------------
(* The release of a slot, wherever it comes from: the promise of the entry  *)
(* of e settles because its run ended, timed out or was stopped.            *)
LEMMA SettleGate ==
  ASSUME IInv, NEW e \in Execs, active[e] # None,
         NEW moved \in SUBSET Calls,
         \A m \in moved : pc[m] \notin Early \cup {"admitted", "marked"},
         SettlePromise(e, moved, "done"),
         UNCHANGED <<enabled, lane, exec, removals>>
  PROVE  GateInv'
<1> DEFINE d == active[e]
           W == Woken(Freed(d))
<1>1. /\ d \in Calls /\ exec[d] = e
      /\ pc[d] \notin Early \cup {"admitted", "marked"}
      /\ enabled => slot[d] = lane[d]
  BY DEF IInv, GateInv, TypeOK, EntriesInv
<1>2. /\ Freed(d) \subseteq QueueTypes
      /\ enabled => Freed(d) = {lane[d]} \cap QueueTypes
      /\ ~enabled => Freed(d) = {}
  BY DEF Freed
<1>3. \A t \in QueueTypes :
        /\ queues[t].items \in Seq(Calls) /\ queues[t].capacity \in Int
        /\ Len(queues[t].items) \in Nat
  BY DEF IInv, GateInv, TypeOK
<1>4. \A t \in Freed(d) : W = Released(queues[t].items)
  BY <1>2 DEF Woken
<1>5. \A x \in W : /\ x \in Calls /\ pc[x] = "queued" /\ slot[x] = Unlimited
                  /\ lane[x] \in Freed(d) /\ queues[lane[x]].items # <<>>
                  /\ x = queues[lane[x]].items[1]
  <2> SUFFICES ASSUME NEW x \in W PROVE /\ x \in Calls /\ pc[x] = "queued" /\ slot[x] = Unlimited
                  /\ lane[x] \in Freed(d) /\ queues[lane[x]].items # <<>>
                  /\ x = queues[lane[x]].items[1]
    OBVIOUS
  <2>1. PICK t \in Freed(d) : x \in Released(queues[t].items)
    BY DEF Woken
  <2>0. t \in QueueTypes /\ queues[t].items \in Seq(Calls)
    BY <1>2, <1>3
  <2>a. Released(queues[t].items)
          = IF queues[t].items = <<>> THEN {} ELSE {queues[t].items[1]}
    BY <2>0, RestFacts
  <2>2. queues[t].items # <<>> /\ x = queues[t].items[1]
    BY <2>a, <2>1
  <2>3. 1 \in 1 .. Len(queues[t].items)
    BY <2>2, <1>2, <1>3, EmptyFacts
  <2>4. x \in Calls /\ pc[x] = "queued" /\ lane[x] = t
    BY <2>2, <2>3, <1>2, <1>3, EmptyFacts DEF IInv, GateInv, ItemsInv
  <2> QED
    BY <2>1, <2>2, <2>4 DEF IInv, GateInv, CallsInv, Early
<1>6. /\ active' = [active EXCEPT ![e] = None]
      /\ queues' = QueuesAfter(Freed(d))
      /\ slot' = [c \in Calls |-> IF c \in W THEN lane[c]
                                  ELSE IF c = d /\ enabled THEN Unlimited ELSE slot[c]]
      /\ pc' = [c \in Calls |-> IF c \in W THEN "admitted"
                                ELSE IF c \in moved THEN "done" ELSE pc[c]]
      /\ enabled' = enabled /\ lane' = lane /\ exec' = exec /\ removals' = removals
  BY DEF SettlePromise, Admit, Advance
<1>7. \A t \in QueueTypes :
        queues'[t] = IF t \in Freed(d) THEN Dequeue(queues[t]) ELSE queues[t]
  BY <1>6 DEF QueuesAfter
<1>8. ItemsInv'
  <2> SUFFICES ASSUME NEW t \in QueueTypes
               PROVE  /\ \A i \in 1 .. Len(queues'[t].items) :
                           pc'[queues'[t].items[i]] = "queued" /\ lane'[queues'[t].items[i]] = t
                      /\ \A i, j \in 1 .. Len(queues'[t].items) :
                           queues'[t].items[i] = queues'[t].items[j] => i = j
    BY DEF ItemsInv
  <2>0. /\ \A i \in 1 .. Len(queues[t].items) :
             /\ queues[t].items[i] \in Calls
             /\ pc[queues[t].items[i]] = "queued" /\ lane[queues[t].items[i]] = t
        /\ \A i, j \in 1 .. Len(queues[t].items) :
             queues[t].items[i] = queues[t].items[j] => i = j
    BY <1>3, EmptyFacts DEF IInv, GateInv, ItemsInv
  <2>1. CASE t \in Freed(d)
    <3>0. queues'[t] = Dequeue(queues[t])
      BY <2>1, <1>7
    <3>1. queues'[t].items = Rest(queues[t].items)
      BY <3>0 DEF Dequeue
    <3>2. \A i \in 1 .. Len(queues'[t].items) :
            /\ i + 1 \in 1 .. Len(queues[t].items) /\ i \in Nat
            /\ queues'[t].items[i] = queues[t].items[i + 1]
      BY <3>1, <1>3, RestFacts, EmptyFacts
    <3>3. \A i \in 1 .. Len(queues'[t].items) : queues[t].items[i + 1] \notin W
      <4> SUFFICES ASSUME NEW i \in 1 .. Len(queues'[t].items), queues[t].items[i + 1] \in W
                   PROVE  FALSE
        OBVIOUS
      <4>1. queues[t].items[i + 1] = queues[t].items[1]
        BY <3>2, <2>0, <1>5
      <4>2. 1 \in 1 .. Len(queues[t].items) /\ i + 1 # 1 /\ i + 1 \in 1 .. Len(queues[t].items)
        BY <3>2, <1>3
      <4> QED
        BY <4>1, <4>2, <2>0
    <3>4. \A i \in 1 .. Len(queues'[t].items) :
            pc'[queues'[t].items[i]] = "queued" /\ lane'[queues'[t].items[i]] = t
      BY <3>2, <3>3, <2>0, <1>6 DEF Early
    <3> QED
      BY <3>2, <3>4, <2>0
  <2>2. CASE t \notin Freed(d)
    <3>1. queues'[t] = queues[t]
      BY <2>2, <1>7
    <3>2. \A i \in 1 .. Len(queues[t].items) : queues[t].items[i] \notin W
      BY <2>0, <2>2, <1>5
    <3>3. \A i \in 1 .. Len(queues[t].items) : pc'[queues[t].items[i]] = "queued"
      BY <3>2, <2>0, <1>6 DEF Early
    <3> QED
      BY <3>1, <3>3, <2>0, <1>6
  <2> QED
    BY <2>1, <2>2
<1>9. CallsInv'
  <2> SUFFICES ASSUME NEW c \in Calls
               PROVE  /\ pc'[c] \in Early => slot'[c] = Unlimited
                      /\ (enabled /\ pc'[c] \in {"admitted", "marked"}) => slot'[c] = lane[c]
                      /\ pc'[c] # "idle" => exec[c] \in Execs
    BY <1>6 DEF CallsInv
  <2>1. CASE c \in W
    BY <2>1, <1>5, <1>6 DEF Early, IInv, GateInv, CallsInv
  <2>2. CASE c \notin W /\ c \in moved
    BY <2>2, <1>6 DEF Early, IInv, GateInv, CallsInv
  <2>3. CASE c \notin W /\ c \notin moved
    BY <2>3, <1>1, <1>6 DEF Early, IInv, GateInv, CallsInv
  <2> QED
    BY <2>1, <2>2, <2>3
<1>10. EntriesInv'
  <2> SUFFICES ASSUME NEW f \in Execs, active'[f] # None
               PROVE  /\ exec[active'[f]] = f
                      /\ pc'[active'[f]] \notin Early \cup {"admitted", "marked"}
                      /\ enabled => slot'[active'[f]] = lane[active'[f]]
    BY <1>6 DEF EntriesInv
  <2>1. f # e /\ active'[f] = active[f]
    BY <1>6 DEF IInv, GateInv, TypeOK
  <2>2. /\ active[f] \in Calls /\ exec[active[f]] = f
        /\ pc[active[f]] \notin Early \cup {"admitted", "marked"}
        /\ enabled => slot[active[f]] = lane[active[f]]
    BY <2>1 DEF IInv, GateInv, TypeOK, EntriesInv
  <2>3. active[f] # d /\ active[f] \notin W
    BY <2>1, <2>2, <1>1, <1>5 DEF Early
  <2> QED
    BY <2>1, <2>2, <2>3, <1>6 DEF Early
<1>11. \A t \in QueueTypes :
         /\ queues'[t].capacity + Len(queues'[t].items) + Cardinality(Holders(t)')
              = queues[t].capacity + Len(queues[t].items) + Cardinality(Holders(t))
         /\ queues'[t].items # <<>> => queues[t].items # <<>>
         /\ queues'[t].capacity + Len(queues'[t].items)
              \in {queues[t].capacity + Len(queues[t].items),
                  queues[t].capacity + Len(queues[t].items) + 1}
         /\ queues'[t].items # <<>> =>
              queues'[t].capacity + Len(queues'[t].items) = queues[t].capacity + Len(queues[t].items)
  <2> SUFFICES ASSUME NEW t \in QueueTypes
               PROVE  /\ queues'[t].capacity + Len(queues'[t].items) + Cardinality(Holders(t)')
                           = queues[t].capacity + Len(queues[t].items) + Cardinality(Holders(t))
                      /\ queues'[t].items # <<>> => queues[t].items # <<>>
                      /\ queues'[t].capacity + Len(queues'[t].items)
                           \in {queues[t].capacity + Len(queues[t].items),
                               queues[t].capacity + Len(queues[t].items) + 1}
                      /\ queues'[t].items # <<>> =>
                           queues'[t].capacity + Len(queues'[t].items)
                             = queues[t].capacity + Len(queues[t].items)
    OBVIOUS
  <2> DEFINE H == Holders(t)
             K == Holders(t)'
  <2>h. IsFiniteSet(H) /\ Cardinality(H) \in Nat /\ t # Unlimited
    BY HoldersFinite, ConstantsAssumption
  <2>k. K = {c \in Calls : slot'[c] = t} /\ H = {c \in Calls : slot[c] = t}
    BY DEF Holders
  <2>1. CASE t \notin Freed(d)
    <3>1. queues'[t] = queues[t]
      BY <2>1, <1>7
    <3>2. \A c \in Calls : slot'[c] = t <=> slot[c] = t
      <4> SUFFICES ASSUME NEW c \in Calls PROVE slot'[c] = t <=> slot[c] = t
        OBVIOUS
      <4>1. CASE c \in W
        BY <4>1, <1>5, <1>6, <2>h, <2>1
      <4>2. CASE c \notin W /\ c = d /\ enabled
        BY <4>2, <1>1, <1>2, <1>6, <2>h, <2>1
      <4>3. CASE c \notin W /\ ~(c = d /\ enabled)
        BY <4>3, <1>6
      <4> QED
        BY <4>1, <4>2, <4>3
    <3>3. K = H
      BY <3>2, <2>k
    <3> QED
      BY <3>1, <3>3, <1>3
  <2>2. CASE t \in Freed(d)
    <3>1. enabled /\ lane[d] = t /\ slot[d] = t /\ d \in H
      BY <2>2, <1>1, <2>k DEF Freed
    <3>0. queues'[t] = Dequeue(queues[t])
      BY <2>2, <1>7
    <3>2. queues'[t].capacity = queues[t].capacity + 1 /\ queues'[t].items = Rest(queues[t].items)
      BY <3>0 DEF Dequeue
    <3>3. d \notin W
      BY <1>1, <1>5 DEF Early
    <3>4. W = Released(queues[t].items)
      BY <2>2, <1>4
    <3>5. Cardinality(H \ {d}) = Cardinality(H) - 1 /\ IsFiniteSet(H \ {d})
      BY <3>1, <2>h, OneLess
    <3>6. CASE queues[t].items = <<>>
      <4>1. W = {} /\ Len(queues'[t].items) = 0 /\ Len(queues[t].items) = 0 /\ queues'[t].items = <<>>
        BY <3>6, <3>2, <3>4, <1>3, RestFacts
      <4>2. K = H \ {d}
        BY <4>1, <3>1, <1>6, <2>k, <2>h
      <4> QED
        BY <4>1, <4>2, <3>2, <3>5, <3>6, <2>h, <1>3
    <3>7. CASE queues[t].items # <<>>
      <4> DEFINE h == queues[t].items[1]
      <4>1. W = {h} /\ Len(queues'[t].items) = Len(queues[t].items) - 1
        BY <3>7, <3>2, <3>4, <1>3, RestFacts
      <4>2. h \in Calls /\ slot[h] = Unlimited /\ lane[h] = t
        BY <4>1, <1>5, <1>2, <3>1, <2>2
      <4>3. K = (H \ {d}) \cup {h} /\ h \notin H \ {d}
        BY <4>1, <4>2, <3>1, <3>3, <1>6, <2>k, <2>h
      <4>4. Cardinality(K) = Cardinality(H \ {d}) + 1
        BY <4>3, <3>5, OneMore
      <4>5. Cardinality(Holders(t)') = Cardinality(Holders(t))
        BY <4>4, <3>5, <2>h
      <4>6. queues'[t].capacity + Len(queues'[t].items) = queues[t].capacity + Len(queues[t].items)
        BY <4>1, <3>2, <1>3
      <4> QED
        BY <4>5, <4>6, <3>7, <2>h, <1>3
    <3> QED
      BY <3>6, <3>7
  <2> QED
    BY <2>1, <2>2
<1>12. SlotConservation'
  BY <1>11 DEF IInv, GateInv, SlotConservation
<1>13. CapacityInv'
  <2>1. \A t \in QueueTypes : removals[t] \in Nat /\ removals'[t] = removals[t]
    BY <1>6 DEF IInv, GateInv, TypeOK
  <2> QED
    BY <2>1, <1>11, <1>3 DEF IInv, GateInv, CapacityInv
<1> QED
  BY <1>8, <1>9, <1>10, <1>12, <1>13 DEF GateInv

-----------------------------------------------------------------------------
(* Types *)

LEMMA QueueTypeFacts ==
  ASSUME TypeOK, NEW t \in QueueTypes
  PROVE  /\ \A c \in Calls : Enqueue(queues[t], c) \in [capacity : Int, items : Seq(Calls)]
         /\ Dequeue(queues[t]) \in [capacity : Int, items : Seq(Calls)]
         /\ \A i \in 1 .. Len(queues[t].items) :
              /\ Remove(queues[t], i) \in [capacity : Int, items : Seq(Calls)]
              /\ Without(queues[t].items, i) \in Seq(Calls)
<1>1. queues[t].items \in Seq(Calls) /\ queues[t].capacity \in Int
  BY DEF TypeOK
<1>2. \A c \in Calls : Append(queues[t].items, c) \in Seq(Calls)
  BY <1>1
<1>3. Rest(queues[t].items) \in Seq(Calls)
  BY <1>1, RestFacts
<1>4. ASSUME NEW i \in 1 .. Len(queues[t].items)
      PROVE  /\ Without(queues[t].items, i) \in Seq(Calls)
             /\ Rest(Without(queues[t].items, i)) \in Seq(Calls)
  <2>1. Without(queues[t].items, i) \in Seq(Calls)
    BY <1>1, <1>4, WithoutFacts
  <2> QED
    BY <2>1, RestFacts
<1> QED
  BY <1>1, <1>2, <1>3, <1>4 DEF Enqueue, Dequeue, Remove

(* Settling a promise changes the types of nothing. *)
LEMMA SettleTypes ==
  ASSUME TypeOK, NEW e, NEW moved, NEW to \in CallPCs,
         SettlePromise(e, moved, to)
  PROVE  /\ queues' \in [QueueTypes -> [capacity : Int, items : Seq(Calls)]]
         /\ active' \in [Execs -> Calls \cup {None}]
         /\ workflow' \in [Execs -> Calls \cup {None}]
         /\ slot' \in [Calls -> Lanes]
         /\ pc' \in [Calls -> CallPCs]
<1>1. queues' \in [QueueTypes -> [capacity : Int, items : Seq(Calls)]]
  BY QueueTypeFacts DEF SettlePromise, QueuesAfter, TypeOK
<1>2. slot' \in [Calls -> Lanes]
  BY DEF SettlePromise, Admit, TypeOK, Lanes
<1>3. pc' \in [Calls -> CallPCs]
  BY DEF SettlePromise, Advance, TypeOK, CallPCs
<1> QED
  BY <1>1, <1>2, <1>3 DEF SettlePromise, TypeOK

LEMMA SavedRowType ==
  ASSUME TypeOK, NEW e, NEW o \in Outcomes \cup {"success", "canceled"}
  PROVE  SavedRow(e, o) \in [Execs -> [status : Statuses, waitTill : WaitTills]]
<1>1. o \in Statuses
  BY ConstantsAssumption DEF Statuses
<1> QED
  BY <1>1 DEF SavedRow, TypeOK, WaitTills

(* The other ways in which a row or a stop request is written. *)
LEMMA RowTypes ==
  ASSUME TypeOK, NEW e, NEW x \in Statuses
  PROVE  /\ SetStatus(e, x) \in [Execs -> [status : Statuses, waitTill : WaitTills]]
         /\ [db EXCEPT ![e] = [status |-> x, waitTill |-> "none"]]
              \in [Execs -> [status : Statuses, waitTill : WaitTills]]
         /\ [db EXCEPT ![e].waitTill = "due"]
              \in [Execs -> [status : Statuses, waitTill : WaitTills]]
  BY DEF SetStatus, TypeOK, WaitTills

LEMMA StopTypes ==
  ASSUME TypeOK, NEW s, NEW x \in {"read", "before", "during", "done"}
  PROVE  [stop EXCEPT ![s].pc = x]
           \in [Stops -> [pc : {"idle", "read", "before", "during", "done"},
                        exec : Execs \cup {None}]]
  BY DEF TypeOK

LEMMA TypeStep == TypeOK /\ [Next]_vars => TypeOK'
<1> SUFFICES ASSUME TypeOK, [Next]_vars PROVE TypeOK'
  OBVIOUS
<1>0. CASE UNCHANGED vars
  BY <1>0 DEF TypeOK, vars, processVars, gateVars, activeVars, waitVars, callVars
<1>1. ASSUME NEW c \in Calls, CallStep(c) \/ WriteFails(c) \/ TimeOut(c)
      PROVE  TypeOK'
  <2>1. CASE Throttle(c)
    <3>1. queues' \in [QueueTypes -> [capacity : Int, items : Seq(Calls)]]
      <4>1. CASE enabled /\ lane[c] \in QueueTypes
        <5>1. queues' = [queues EXCEPT ![lane[c]] = Enqueue(queues[lane[c]], c)]
          BY <2>1, <4>1 DEF Throttle
        <5>2. Enqueue(queues[lane[c]], c) \in [capacity : Int, items : Seq(Calls)]
          BY <4>1, QueueTypeFacts
        <5> QED
          BY <5>1, <5>2 DEF TypeOK
      <4>2. CASE ~(enabled /\ lane[c] \in QueueTypes)
        BY <2>1, <4>2 DEF Throttle, TypeOK
      <4> QED
        BY <4>1, <4>2
    <3> QED
      BY <2>1, <3>1 DEF Throttle, TypeOK, CallPCs, Lanes, processVars, activeVars, waitVars, callVars
  <2>2. CASE MarkRunning(c)
    BY <2>2 DEF MarkRunning, CallPCs, Statuses, WaitTills, TypeOK, processVars, gateVars, activeVars, waitVars, callVars
  <2>3. CASE Register(c)
    BY <2>3 DEF Register, CallPCs, TypeOK, processVars, gateVars, activeVars, waitVars, callVars
  <2>4. CASE Deny(c)
    BY <2>4 DEF Deny, SetStatus, CallPCs, Statuses, TypeOK, processVars, gateVars, activeVars, waitVars, callVars
  <2>5. CASE BeginRun(c)
    BY <2>5 DEF BeginRun, SetStatus, CallPCs, Statuses, TypeOK, processVars, gateVars, activeVars, waitVars, callVars
  <2>6. CASE Launch(c)
    <3>1. workflow' \in [Execs -> Calls \cup {None}] /\ pc' \in [Calls -> CallPCs]
      <4>1. \/ pc' = [pc EXCEPT ![c] = "orphan"] /\ workflow' = workflow
            \/ /\ pc' = [pc EXCEPT ![c] = "running"]
               /\ workflow' = [workflow EXCEPT ![exec[c]] = c]
        BY <2>6 DEF Launch
      <4>2. workflow' \in [Execs -> Calls \cup {None}]
        BY <4>1 DEF TypeOK
      <4>3. pc' \in [Calls -> CallPCs]
        BY <4>1 DEF CallPCs, TypeOK
      <4> QED
        BY <4>2, <4>3
    <3> QED
      BY <2>6, <3>1 DEF Launch, TypeOK, processVars, gateVars, activeVars, waitVars, callVars
  <2>7. CASE Finish(c)
    <3>1. /\ outcome' \in [Calls -> Outcomes \cup {"success"}]
          /\ pc' \in [Calls -> CallPCs]
      <4>1. PICK o \in Outcomes :
              IF aborted[c] THEN pc' = [pc EXCEPT ![c] = "settle"] /\ outcome' = outcome
              ELSE /\ pc' = [pc EXCEPT ![c] = "saving"]
                   /\ outcome' = [outcome EXCEPT ![c] = o]
        BY <2>7 DEF Finish
      <4>2. outcome' \in [Calls -> Outcomes \cup {"success"}]
        BY <4>1 DEF TypeOK
      <4>3. pc' \in [Calls -> CallPCs]
        BY <4>1 DEF CallPCs, TypeOK
      <4> QED
        BY <4>2, <4>3
    <3> QED
      BY <2>7, <3>1 DEF Finish, TypeOK, processVars, gateVars, activeVars, waitVars, callVars
  <2>8. CASE Fetch(c)
    BY <2>8 DEF Fetch, CallPCs, TypeOK, processVars, gateVars, activeVars, waitVars, callVars
  <2>9. CASE WriteFails(c)
    BY <2>9, ConstantsAssumption DEF WriteFails, CallPCs, TypeOK, processVars, gateVars, activeVars, waitVars, callVars
  <2>10. CASE Save(c)
    BY <2>10, SavedRowType DEF Save, TypeOK, CallPCs, processVars, gateVars, activeVars, waitVars, callVars
  <2>11. CASE SaveCancel(c)
    BY <2>11, SavedRowType DEF SaveCancel, TypeOK, processVars, gateVars, activeVars, waitVars, callVars
  <2>12. CASE OrphanEnds(c)
    BY <2>12, SavedRowType DEF OrphanEnds, TypeOK, CallPCs, processVars, gateVars, activeVars, waitVars, callVars
  <2>13. CASE Settle(c)
    BY <2>13, SettleTypes DEF Settle, TypeOK, CallPCs, processVars, gateVars, activeVars, waitVars, callVars
  <2>14. CASE TimeOut(c)
    <3>1. "done" \in CallPCs
      BY DEF CallPCs
    <3> QED
      BY <2>14, <3>1, SettleTypes DEF TimeOut, StopEntry, TypeOK, processVars, gateVars, activeVars, waitVars, callVars
  <2> QED
    BY <1>1, <2>1, <2>2, <2>3, <2>4, <2>5, <2>6, <2>7, <2>8, <2>9, <2>10, <2>11, <2>12, <2>13, <2>14 DEF CallStep
<1>2. ASSUME NEW c \in Calls, NEW e \in Execs,
             NewExecution(c, e) \/ TimerFires(c, e) \/ WebhookResume(c, e) \/ RequeueExecution(c, e)
      PROVE  TypeOK'
  <2>1. CASE NewExecution(c, e)
    <3>1. db' \in [Execs -> [status : Statuses, waitTill : WaitTills]]
      BY <2>1, RowTypes DEF NewExecution, Statuses
    <3>2. /\ pc' \in [Calls -> CallPCs] /\ exec' \in [Calls -> Execs \cup {None}]
          /\ lane' \in [Calls -> Lanes]
      BY <2>1, ConstantsAssumption DEF NewExecution, TypeOK, CallPCs
    <3> QED
      BY <2>1, <3>1, <3>2 DEF NewExecution, TypeOK, processVars, gateVars, activeVars, waitVars, callVars
  <2>2. CASE TimerFires(c, e)
    BY <2>2, ConstantsAssumption DEF TimerFires, RunExisting, TypeOK, CallPCs, processVars, gateVars, activeVars, waitVars, callVars
  <2>3. CASE WebhookResume(c, e)
    BY <2>3, ConstantsAssumption DEF WebhookResume, RunExisting, TypeOK, CallPCs, processVars, gateVars, activeVars, waitVars, callVars
  <2>4. CASE RequeueExecution(c, e)
    BY <2>4, ConstantsAssumption DEF RequeueExecution, RunExisting, TypeOK, CallPCs, processVars, gateVars, activeVars, waitVars, callVars
  <2> QED
    BY <1>2, <2>1, <2>2, <2>3, <2>4
<1>3. ASSUME NEW s \in Stops, StopStep(s) \/ \E e \in Execs : StopRequest(s, e)
      PROVE  TypeOK'
  <2>1. CASE StopQueued(s)
    <3> DEFINE t == ModeLane[stop[s].exec]
    <3>1. stop' \in [Stops -> [pc : {"idle", "read", "before", "during", "done"},
                             exec : Execs \cup {None}]]
      BY <2>1, StopTypes DEF StopQueued
    <3>2. CASE t \in QueueTypes /\ PositionsOf(stop[s].exec, t) # {}
      <4>1. PICK i \in PositionsOf(stop[s].exec, t) :
              /\ queues' = [queues EXCEPT ![t] = Remove(@, i)]
              /\ removals' = [removals EXCEPT ![t] = @ + 1]
              /\ Admit(Released(Without(queues[t].items, i)), None)
              /\ Advance(Released(Without(queues[t].items, i)), {queues[t].items[i]}, "removed")
        BY <2>1, <3>2 DEF StopQueued
      <4>2. i \in 1 .. Len(queues[t].items)
        BY DEF PositionsOf
      <4>3. queues' \in [QueueTypes -> [capacity : Int, items : Seq(Calls)]]
        BY <3>2, <4>1, <4>2, QueueTypeFacts DEF TypeOK
      <4>4. removals' \in [QueueTypes -> Nat]
        <5>1. removals[t] + 1 \in Nat
          BY <3>2 DEF TypeOK
        <5> QED
          BY <4>1, <5>1 DEF TypeOK
      <4>5. slot' \in [Calls -> Lanes]
        BY <4>1 DEF Admit, TypeOK, Lanes
      <4>6. pc' \in [Calls -> CallPCs]
        BY <4>1 DEF Advance, TypeOK, CallPCs
      <4> QED
        BY <2>1, <3>1, <4>3, <4>4, <4>5, <4>6
        DEF StopQueued, TypeOK, processVars, activeVars, waitVars, callVars
    <3>3. CASE ~(t \in QueueTypes /\ PositionsOf(stop[s].exec, t) # {})
      BY <2>1, <3>1, <3>3 DEF StopQueued, TypeOK, processVars, activeVars, waitVars, callVars
    <3> QED
      BY <3>2, <3>3
  <2>2. CASE StopActive(s)
    <3>1. "done" \in CallPCs
      BY DEF CallPCs
    <3>2. stop' \in [Stops -> [pc : {"idle", "read", "before", "during", "done"},
                             exec : Execs \cup {None}]]
      BY <2>2 DEF StopActive, TypeOK
    <3> QED
      BY <2>2, <3>1, <3>2, SettleTypes DEF StopActive, StopEntry, TypeOK, processVars, activeVars
  <2>3. CASE StopWrite(s)
    <3>1. db' \in [Execs -> [status : Statuses, waitTill : WaitTills]]
      BY <2>3, RowTypes DEF StopWrite, Statuses
    <3>2. stop' \in [Stops -> [pc : {"idle", "read", "before", "during", "done"},
                             exec : Execs \cup {None}]]
      BY <2>3, StopTypes DEF StopWrite
    <3> QED
      BY <2>3, <3>1, <3>2 DEF StopWrite, TypeOK, processVars, gateVars, activeVars, waitVars, callVars
  <2>4. CASE \E e \in Execs : StopRequest(s, e)
    BY <2>4 DEF StopRequest, TypeOK, processVars, gateVars, activeVars, waitVars, callVars
  <2> QED
    BY <1>3, <2>1, <2>2, <2>3, <2>4 DEF StopStep
<1>4. CASE \E e \in Execs : TimePasses(e)
  <2>1. db' \in [Execs -> [status : Statuses, waitTill : WaitTills]]
    BY <1>4, RowTypes DEF TimePasses, Statuses
  <2> QED
    BY <1>4, <2>1 DEF TimePasses, TypeOK, processVars, gateVars, activeVars, waitVars, callVars
<1>5. CASE PollQuery
  BY <1>5 DEF PollQuery, Due, TypeOK, processVars, gateVars, activeVars, waitVars, callVars
<1>6. CASE PollApply
  BY <1>6 DEF PollApply, TypeOK, processVars, gateVars, activeVars, waitVars, callVars
<1>7. CASE BootStep
  <2>1. CASE RecoverRead \/ RequeueRead \/ BootDone
    BY <2>1 DEF RecoverRead, RequeueRead, BootDone, Phases, TypeOK, processVars, gateVars, activeVars, waitVars, callVars
  <2>2. ASSUME NEW e \in Execs, RecoverExecution(e) PROVE TypeOK'
    <3>1. db' \in [Execs -> [status : Statuses, waitTill : WaitTills]]
      <4>1. "crashed" \in Statuses
        BY DEF Statuses
      <4> QED
        <5>1. CASE db' = SetStatus(e, "crashed")
          BY <4>1, <5>1, RowTypes
        <5>2. CASE db' = db
          BY <5>2 DEF TypeOK
        <5> QED
          BY <2>2, <5>1, <5>2 DEF RecoverExecution
    <3> QED
      BY <2>2, <3>1 DEF RecoverExecution, TypeOK, processVars, gateVars, activeVars, waitVars, callVars
  <2> QED
    BY <1>7, <2>1, <2>2 DEF BootStep
<1>8. CASE Crash \/ Exit
  <2>1. Die
    BY <1>8 DEF Crash, Exit
  <2>2. queues' \in [QueueTypes -> [capacity : Int, items : Seq(Calls)]]
    BY <2>1, ConstantsAssumption DEF Die, NewQueue
  <2>3. pc' \in [Calls -> CallPCs] /\ slot' \in [Calls -> Lanes]
    BY <2>1 DEF Die, CallPCs, Lanes, TypeOK
  <2>4. stop' \in [Stops -> [pc : {"idle", "read", "before", "during", "done"},
                           exec : Execs \cup {None}]]
    BY <2>1 DEF Die, TypeOK
  <2> QED
    BY <2>1, <2>2, <2>3, <2>4 DEF Die, Phases, TypeOK
<1>9. CASE Restart
  BY <1>9, ConstantsAssumption DEF Restart, Phases, TypeOK, processVars, gateVars, activeVars, waitVars, callVars
<1>10. CASE BeginShutdown
  BY <1>10 DEF BeginShutdown, Phases, TypeOK, processVars, gateVars, activeVars, waitVars, callVars
<1>11. CASE Drain
  BY <1>11 DEF Drain, Phases, TypeOK, processVars, gateVars, activeVars, waitVars, callVars
<1> QED
  BY <1>0, <1>1, <1>2, <1>3, <1>4, <1>5, <1>6, <1>7, <1>8, <1>9, <1>10, <1>11 DEF Next, Start

-----------------------------------------------------------------------------
(* The slots *)

(* Steps of timers, rows, stop requests and the boot touch no slot. *)
LEMMA GateFrame ==
  ASSUME GateInv, UNCHANGED <<enabled, queues, removals, slot, active, pc, exec, lane>>
  PROVE  GateInv'
<1>1. ItemsInv' /\ CallsInv' /\ EntriesInv'
  BY DEF GateInv, ItemsInv, CallsInv, EntriesInv
<1>2. \A t : Holders(t)' = Holders(t)
  BY DEF Holders
<1>3. SlotConservation' /\ CapacityInv'
  BY <1>2 DEF GateInv, SlotConservation, CapacityInv
<1> QED
  BY <1>1, <1>3 DEF GateInv

(* A call moves on without touching a queue, a slot or an entry: it neither *)
(* enters the queue nor passes the throttle, and does not come back.        *)
LEMMA GateMove ==
  ASSUME TypeOK, GateInv, NEW c \in Calls, NEW to,
         pc' = [pc EXCEPT ![c] = to],
         pc[c] # "queued", to # "queued",
         to \in Early => pc[c] \in Early,
         to \in {"admitted", "marked"} => pc[c] \in {"admitted", "marked"},
         exec[c] \in Execs,
         UNCHANGED <<enabled, queues, removals, slot, active, exec, lane>>
  PROVE  GateInv'
<1>0. \A x \in Calls : pc'[x] = IF x = c THEN to ELSE pc[x]
  BY DEF TypeOK
<1>1. ItemsInv'
  <2>1. \A t \in QueueTypes : \A i \in 1 .. Len(queues[t].items) :
          queues[t].items[i] \in Calls /\ queues[t].items[i] # c
    BY EmptyFacts DEF TypeOK, GateInv, ItemsInv
  <2> QED
    BY <1>0, <2>1 DEF GateInv, ItemsInv
<1>2. CallsInv'
  BY <1>0 DEF GateInv, CallsInv, Early
<1>3. EntriesInv'
  <2> SUFFICES ASSUME NEW e \in Execs, active[e] # None
               PROVE  pc'[active[e]] \notin Early \cup {"admitted", "marked"}
    BY DEF GateInv, EntriesInv
  <2>1. active[e] \in Calls /\ pc[active[e]] \notin Early \cup {"admitted", "marked"}
    BY DEF TypeOK, GateInv, EntriesInv
  <2> QED
    BY <1>0, <2>1
<1>4. \A t : Holders(t)' = Holders(t)
  BY DEF Holders
<1>5. SlotConservation' /\ CapacityInv'
  BY <1>4 DEF GateInv, SlotConservation, CapacityInv
<1> QED
  BY <1>1, <1>2, <1>3, <1>5 DEF GateInv

(* A new invocation of run() holds nothing and waits in no queue yet. *)
LEMMA GateStart ==
  ASSUME TypeOK, GateInv, NEW c \in Calls, NEW e \in Execs, NEW to \in {"fetch", "admit"},
         NEW ln, pc[c] = "idle",
         pc' = [pc EXCEPT ![c] = to],
         exec' = [exec EXCEPT ![c] = e],
         lane' = [lane EXCEPT ![c] = ln],
         UNCHANGED <<enabled, queues, removals, slot, active>>
  PROVE  GateInv'
<1>0. \A x \in Calls : /\ pc'[x] = IF x = c THEN to ELSE pc[x]
                       /\ exec'[x] = IF x = c THEN e ELSE exec[x]
                       /\ lane'[x] = IF x = c THEN ln ELSE lane[x]
  BY DEF TypeOK
<1>1. ItemsInv'
  <2>1. \A t \in QueueTypes : \A i \in 1 .. Len(queues[t].items) :
          queues[t].items[i] \in Calls /\ queues[t].items[i] # c
    BY EmptyFacts DEF TypeOK, GateInv, ItemsInv
  <2> QED
    BY <1>0, <2>1 DEF GateInv, ItemsInv
<1>2. CallsInv'
  BY <1>0 DEF GateInv, CallsInv, Early
<1>3. EntriesInv'
  <2> SUFFICES ASSUME NEW f \in Execs, active[f] # None
               PROVE  /\ exec'[active[f]] = f
                      /\ pc'[active[f]] \notin Early \cup {"admitted", "marked"}
                      /\ enabled => slot[active[f]] = lane'[active[f]]
    BY DEF EntriesInv
  <2>1. /\ active[f] \in Calls /\ pc[active[f]] \notin Early \cup {"admitted", "marked"}
        /\ exec[active[f]] = f
        /\ enabled => slot[active[f]] = lane[active[f]]
    BY DEF TypeOK, GateInv, EntriesInv
  <2>2. active[f] # c
    BY <2>1 DEF Early
  <2> QED
    BY <1>0, <2>1, <2>2
<1>4. \A t : Holders(t)' = Holders(t)
  BY DEF Holders
<1>5. SlotConservation' /\ CapacityInv'
  BY <1>4 DEF GateInv, SlotConservation, CapacityInv
<1> QED
  BY <1>1, <1>2, <1>3, <1>5 DEF GateInv

(* The entry of a call that has passed the throttle replaces the one before. *)
LEMMA GateRegister ==
  ASSUME TypeOK, GateInv, NEW c \in Calls, Register(c)
  PROVE  GateInv'
<1>0. /\ pc[c] = "marked" /\ exec[c] \in Execs
      /\ enabled => slot[c] = lane[c]
      /\ \A x \in Calls : pc'[x] = IF x = c THEN "registered" ELSE pc[x]
      /\ \A f \in Execs : active'[f] = IF f = exec[c] THEN c ELSE active[f]
      /\ UNCHANGED <<enabled, queues, removals, slot, exec, lane>>
  BY DEF TypeOK, Register, GateInv, CallsInv, gateVars, callVars
<1>1. ItemsInv'
  <2>1. \A t \in QueueTypes : \A i \in 1 .. Len(queues[t].items) :
          queues[t].items[i] \in Calls /\ queues[t].items[i] # c
    BY <1>0, EmptyFacts DEF TypeOK, GateInv, ItemsInv
  <2> QED
    BY <1>0, <2>1 DEF GateInv, ItemsInv
<1>2. CallsInv'
  BY <1>0 DEF GateInv, CallsInv, Early
<1>3. EntriesInv'
  <2> SUFFICES ASSUME NEW f \in Execs, active'[f] # None
               PROVE  /\ exec[active'[f]] = f
                      /\ pc'[active'[f]] \notin Early \cup {"admitted", "marked"}
                      /\ enabled => slot[active'[f]] = lane[active'[f]]
    BY <1>0 DEF EntriesInv
  <2>1. CASE f = exec[c]
    BY <1>0, <2>1 DEF Early
  <2>2. CASE f # exec[c]
    <3>1. /\ active[f] \in Calls /\ pc[active[f]] \notin Early \cup {"admitted", "marked"}
          /\ exec[active[f]] = f /\ active'[f] = active[f]
          /\ enabled => slot[active[f]] = lane[active[f]]
      BY <1>0, <2>2 DEF TypeOK, GateInv, EntriesInv
    <3> QED
      BY <1>0, <3>1, <2>2
  <2> QED
    BY <2>1, <2>2
<1>4. \A t : Holders(t)' = Holders(t)
  BY <1>0 DEF Holders
<1>5. SlotConservation' /\ CapacityInv'
  BY <1>0, <1>4 DEF GateInv, SlotConservation, CapacityInv
<1> QED
  BY <1>1, <1>2, <1>3, <1>5 DEF GateInv

(* The throttle hands out a unit or queues the call, and the capacity drops *)
(* by one either way.                                                       *)
LEMMA GateThrottle ==
  ASSUME TypeOK, GateInv, NEW c \in Calls, Throttle(c)
  PROVE  GateInv'
<1> DEFINE l == lane[c]
           q == queues[l]
<1>0. /\ pc[c] = "admit" /\ slot[c] = Unlimited /\ exec[c] \in Execs /\ c # None
      /\ UNCHANGED <<enabled, removals, active, exec, lane>>
      /\ \A e \in Execs : active[e] # c
      /\ \A t \in QueueTypes : t # Unlimited
      /\ \A t \in QueueTypes : \A i \in 1 .. Len(queues[t].items) :
           queues[t].items[i] \in Calls /\ queues[t].items[i] # c
  BY EmptyFacts, ConstantsAssumption
  DEF Throttle, TypeOK, GateInv, ItemsInv, CallsInv, EntriesInv, Early, processVars, activeVars, callVars
<1>1. CASE ~(enabled /\ l \in QueueTypes)
  <2>1. /\ \A x \in Calls : pc'[x] = IF x = c THEN "admitted" ELSE pc[x]
        /\ UNCHANGED <<queues, slot>>
    BY <1>1 DEF Throttle, TypeOK
  <2>2. enabled => slot[c] = lane[c]
    BY <1>0, <1>1 DEF TypeOK, Lanes
  <2>3. ItemsInv'
    BY <1>0, <2>1 DEF GateInv, ItemsInv
  <2>4. CallsInv'
    BY <1>0, <2>1, <2>2 DEF GateInv, CallsInv, Early
  <2>5. EntriesInv'
    BY <1>0, <2>1 DEF TypeOK, GateInv, EntriesInv
  <2>6. \A t : Holders(t)' = Holders(t)
    BY <2>1 DEF Holders
  <2>7. SlotConservation' /\ CapacityInv'
    BY <1>0, <2>1, <2>6 DEF GateInv, SlotConservation, CapacityInv
  <2> QED
    BY <2>3, <2>4, <2>5, <2>7 DEF GateInv
<1>2. CASE enabled /\ l \in QueueTypes
  <2>1. /\ queues' = [queues EXCEPT ![l] = Enqueue(q, c)]
        /\ pc' = [pc EXCEPT ![c] = IF Blocks(q) THEN "queued" ELSE "admitted"]
        /\ slot' = [slot EXCEPT ![c] = IF Blocks(q) THEN @ ELSE l]
    BY <1>2 DEF Throttle
  <2>2. /\ q.items \in Seq(Calls) /\ q.capacity \in Int /\ Len(q.items) \in Nat
        /\ removals[l] \in Nat
    BY <1>2 DEF TypeOK
  <2>3. \A t \in QueueTypes : queues'[t] = IF t = l THEN Enqueue(q, c) ELSE queues[t]
    BY <2>1 DEF TypeOK
  <2>h. \A t : IsFiniteSet(Holders(t)) /\ Cardinality(Holders(t)) \in Nat
    BY HoldersFinite
  <2>4. CASE Blocks(q)
    <3>1. /\ \A x \in Calls : pc'[x] = IF x = c THEN "queued" ELSE pc[x]
          /\ slot' = slot
      BY <2>1, <2>4 DEF TypeOK
    <3>2. queues'[l].capacity = q.capacity - 1 /\ queues'[l].items = Append(q.items, c)
      BY <1>2, <2>3, <2>4 DEF Enqueue
    <3>3. /\ Len(queues'[l].items) = Len(q.items) + 1
          /\ \A i \in 1 .. Len(q.items) : queues'[l].items[i] = q.items[i]
          /\ queues'[l].items[Len(q.items) + 1] = c
      BY <2>2, <3>2
    <3>4. ItemsInv'
      <4> SUFFICES ASSUME NEW t \in QueueTypes
                   PROVE  /\ \A i \in 1 .. Len(queues'[t].items) :
                               pc'[queues'[t].items[i]] = "queued" /\ lane'[queues'[t].items[i]] = t
                          /\ \A i, j \in 1 .. Len(queues'[t].items) :
                               queues'[t].items[i] = queues'[t].items[j] => i = j
        BY DEF ItemsInv
      <4>1. CASE t # l
        <5>1. queues'[t] = queues[t]
          BY <4>1, <2>3
        <5> QED
          BY <5>1, <3>1, <1>0 DEF GateInv, ItemsInv
      <4>2. CASE t = l
        <5>1. \A i \in 1 .. Len(queues'[l].items) :
                i \in 1 .. Len(q.items) \/ i = Len(q.items) + 1
          BY <3>3, <2>2
        <5>2. \A i \in 1 .. Len(q.items) :
                 /\ q.items[i] \in Calls /\ q.items[i] # c
                 /\ pc[q.items[i]] = "queued" /\ lane[q.items[i]] = l
          BY <1>0, <1>2 DEF GateInv, ItemsInv
        <5>3. \A i \in 1 .. Len(queues'[l].items) :
                pc'[queues'[l].items[i]] = "queued" /\ lane[queues'[l].items[i]] = l
          BY <5>1, <5>2, <3>1, <3>3
        <5>4. \A i, j \in 1 .. Len(queues'[l].items) :
                queues'[l].items[i] = queues'[l].items[j] => i = j
          <6> SUFFICES ASSUME NEW i \in 1 .. Len(queues'[l].items), NEW j \in 1 .. Len(queues'[l].items),
                              queues'[l].items[i] = queues'[l].items[j]
                       PROVE  i = j
            OBVIOUS
          <6>1. CASE i \in 1 .. Len(q.items) /\ j \in 1 .. Len(q.items)
            <7>1. q.items[i] = q.items[j]
              BY <6>1, <3>3
            <7> QED
              BY <6>1, <7>1, <1>2 DEF GateInv, ItemsInv
          <6>2. CASE i \in 1 .. Len(q.items) /\ j = Len(q.items) + 1
            BY <6>2, <5>2, <3>3
          <6>3. CASE i = Len(q.items) + 1 /\ j \in 1 .. Len(q.items)
            BY <6>3, <5>2, <3>3
          <6> QED
            BY <6>1, <6>2, <6>3, <5>1
        <5> QED
          BY <4>2, <5>3, <5>4, <1>0
      <4> QED
        BY <4>1, <4>2
    <3>5. CallsInv'
      BY <1>0, <3>1 DEF GateInv, CallsInv, Early
    <3>6. EntriesInv'
      BY <1>0, <3>1 DEF TypeOK, GateInv, EntriesInv
    <3>7. \A t : Holders(t)' = Holders(t)
      BY <3>1 DEF Holders
    <3>8. /\ queues'[l].capacity + Len(queues'[l].items) = q.capacity + Len(q.items)
          /\ q.capacity <= 0
      <4>1. q.capacity <= 0
        BY <2>2, <2>4 DEF Blocks
      <4>2. queues'[l].capacity + Len(queues'[l].items) = (q.capacity - 1) + (Len(q.items) + 1)
        BY <3>2, <3>3
      <4> QED
        BY <4>1, <4>2, <2>2
    <3>9. SlotConservation'
      BY <3>7, <3>8, <2>3, <2>2, <2>h, <1>2, <3>2, <3>3 DEF GateInv, SlotConservation
    <3>10. queues'[l].capacity + Len(queues'[l].items) <= 0
      <4>1. CASE q.items = <<>>
        BY <4>1, <3>8, <2>2, EmptyFacts
      <4>2. CASE q.items # <<>>
        BY <4>2, <3>8, <1>2 DEF GateInv, CapacityInv
      <4> QED
        BY <4>1, <4>2
    <3>11. CapacityInv'
      BY <3>8, <3>10, <2>3, <1>0, <1>2 DEF GateInv, CapacityInv
    <3> QED
      BY <3>4, <3>5, <3>6, <3>9, <3>11 DEF GateInv
  <2>5. CASE ~Blocks(q)
    <3>1. /\ \A x \in Calls : pc'[x] = IF x = c THEN "admitted" ELSE pc[x]
          /\ \A x \in Calls : slot'[x] = IF x = c THEN l ELSE slot[x]
      BY <2>1, <2>5 DEF TypeOK
    <3>2. queues'[l].capacity = q.capacity - 1 /\ queues'[l].items = q.items
      BY <1>2, <2>3, <2>5 DEF Enqueue
    <3>3. \A t \in QueueTypes : queues'[t].items = queues[t].items
      BY <3>2, <2>3
    <3>4. ItemsInv'
      BY <3>1, <3>3, <1>0 DEF GateInv, ItemsInv
    <3>5. CallsInv'
      BY <1>0, <3>1 DEF GateInv, CallsInv, Early
    <3>6. EntriesInv'
      BY <1>0, <3>1 DEF TypeOK, GateInv, EntriesInv
    <3>7. Cardinality(Holders(l)') = Cardinality(Holders(l)) + 1
      <4>1. Holders(l)' = Holders(l) \cup {c} /\ c \notin Holders(l)
        BY <3>1, <1>0, <1>2 DEF Holders
      <4> QED
        BY <4>1, <2>h, OneMore
    <3>8. \A t \in QueueTypes : t # l => Holders(t)' = Holders(t)
      BY <3>1, <1>0 DEF Holders
    <3>9. SlotConservation'
      <4>1. queues'[l].capacity + Len(queues'[l].items) + Cardinality(Holders(l)')
              = queues[l].capacity + Len(queues[l].items) + Cardinality(Holders(l))
        <5>1. queues'[l].capacity + Len(queues'[l].items) + Cardinality(Holders(l)')
                = (q.capacity - 1) + Len(q.items) + (Cardinality(Holders(l)) + 1)
          BY <3>2, <3>7
        <5>2. Cardinality(Holders(l)) \in Int /\ q.capacity \in Int /\ Len(q.items) \in Int
          BY <2>2, <2>h
        <5>3. \A x, y, z \in Int : (x - 1) + y + (z + 1) = x + y + z
          OBVIOUS
        <5> QED
          BY <5>1, <5>2, <5>3
      <4>2. ASSUME NEW t \in QueueTypes
            PROVE  queues'[t].capacity + Len(queues'[t].items) + Cardinality(Holders(t)') = Limit[t]
        <5>1. CASE t = l
          BY <5>1, <4>1, <1>0, <1>2 DEF GateInv, SlotConservation
        <5>2. CASE t # l
          BY <5>2, <3>8, <2>3 DEF GateInv, SlotConservation
        <5> QED
          BY <5>1, <5>2
      <4> QED
        BY <4>2 DEF SlotConservation
    <3>10. q.capacity >= 1 /\ q.items = <<>>
      <4>1. q.capacity >= 1
        BY <2>2, <2>5 DEF Blocks
      <4> QED
        BY <4>1, <1>2, <2>2 DEF GateInv, CapacityInv
    <3>11. CapacityInv'
      <4>1. queues'[l].capacity + Len(queues'[l].items) + removals[l] >= 0
        BY <3>2, <3>10, <2>2
      <4>2. queues'[l].items = <<>>
        BY <3>2, <3>10
      <4> QED
        BY <4>1, <4>2, <2>3, <1>0 DEF GateInv, CapacityInv
    <3> QED
      BY <3>4, <3>5, <3>6, <3>9, <3>11 DEF GateInv
  <2> QED
    BY <2>4, <2>5
<1> QED
  BY <1>1, <1>2

(* A stop of a queued execution splices its call out of the queue of the    *)
(* row's mode and releases the next one.                                    *)
LEMMA GateRemove ==
  ASSUME IInv, NEW s \in Stops, StopQueued(s)
  PROVE  GateInv'
<1> DEFINE t == ModeLane[stop[s].exec]
           P == PositionsOf(stop[s].exec, t)
<1>0. UNCHANGED <<enabled, active, exec, lane>>
  BY DEF StopQueued, activeVars, callVars
<1>1. CASE ~(t \in QueueTypes /\ P # {})
  <2>1. UNCHANGED <<queues, removals, slot, pc>>
    BY <1>1 DEF StopQueued
  <2> QED
    BY <1>0, <2>1, GateFrame DEF IInv
<1>2. CASE t \in QueueTypes /\ P # {}
  <2> DEFINE q == queues[t]
             items == q.items
  <2>1. PICK i \in P : /\ queues' = [queues EXCEPT ![t] = Remove(@, i)]
                       /\ removals' = [removals EXCEPT ![t] = @ + 1]
                       /\ Admit(Released(Without(items, i)), None)
                       /\ Advance(Released(Without(items, i)), {items[i]}, "removed")
    BY <1>2 DEF StopQueued
  <2> DEFINE r == Without(items, i)
             W == Released(r)
  <2>2. items \in Seq(Calls) /\ q.capacity \in Int /\ removals[t] \in Nat /\ Len(items) \in Nat
    BY <1>2 DEF IInv, TypeOK
  <2>3. i \in 1 .. Len(items)
    BY <2>1 DEF PositionsOf
  <2>4. /\ \A k \in QueueTypes : queues'[k] = IF k = t THEN Remove(q, i) ELSE queues[k]
        /\ \A k \in QueueTypes : removals'[k] = IF k = t THEN removals[t] + 1 ELSE removals[k]
    BY <2>1, <1>2 DEF IInv, TypeOK
  <2>5. queues'[t].capacity = q.capacity + 1 /\ queues'[t].items = Rest(r)
    <3>1. queues'[t] = Remove(q, i)
      BY <2>4, <1>2
    <3> QED
      BY <3>1 DEF Remove
  <2>6. \A j, k \in 1 .. Len(items) : items[j] = items[k] => j = k
    BY <1>2 DEF IInv, GateInv, ItemsInv
  <2>7. \A j \in 1 .. Len(items) :
          /\ items[j] \in Calls /\ pc[items[j]] = "queued" /\ lane[items[j]] = t
          /\ slot[items[j]] = Unlimited
    <3>1. \A j \in 1 .. Len(items) : items[j] \in Calls
      BY <2>2, EmptyFacts
    <3>2. \A j \in 1 .. Len(items) : pc[items[j]] = "queued" /\ lane[items[j]] = t
      BY <1>2 DEF IInv, GateInv, ItemsInv
    <3> QED
      BY <3>1, <3>2 DEF IInv, GateInv, CallsInv, Early
  <2>8. /\ Rest(r) \in Seq(Calls)
        /\ Len(Rest(r)) = IF Len(items) = 1 THEN 0 ELSE Len(items) - 2
        /\ Len(items) = 1 => Rest(r) = <<>> /\ W = {}
        /\ Len(items) # 1 => \E h \in 1 .. Len(items) : h # i /\ W = {items[h]}
        /\ \A j \in 1 .. Len(Rest(r)) : \E k \in 1 .. Len(items) :
             k # i /\ Rest(r)[j] = items[k] /\ items[k] \notin W
        /\ \A j, l \in 1 .. Len(Rest(r)) : Rest(r)[j] = Rest(r)[l] => j = l
    <3> HIDE DEF items
    <3> QED
      BY <2>2, <2>3, <2>6, RemoveFacts
  <2>9. /\ \A c \in Calls : pc'[c] = IF c \in W THEN "admitted"
                                     ELSE IF c = items[i] THEN "removed" ELSE pc[c]
        /\ \A c \in Calls : slot'[c] = IF c \in W THEN lane[c] ELSE slot[c]
    BY <2>1, ConstantsAssumption DEF Admit, Advance
  <2> HIDE DEF r, W
  <2>10. \A c \in W : /\ c \in Calls /\ pc[c] = "queued" /\ lane[c] = t /\ slot[c] = Unlimited
    BY <2>7, <2>8
  <2>11. items[i] \in Calls /\ pc[items[i]] = "queued" /\ lane[items[i]] = t
    BY <2>3, <2>7
  <2>12. \A j \in 1 .. Len(Rest(r)) :
           /\ Rest(r)[j] \in Calls /\ pc[Rest(r)[j]] = "queued" /\ lane[Rest(r)[j]] = t
           /\ Rest(r)[j] \notin W /\ Rest(r)[j] # items[i]
    <3> SUFFICES ASSUME NEW j \in 1 .. Len(Rest(r))
                 PROVE  /\ Rest(r)[j] \in Calls /\ pc[Rest(r)[j]] = "queued" /\ lane[Rest(r)[j]] = t
                        /\ Rest(r)[j] \notin W /\ Rest(r)[j] # items[i]
      OBVIOUS
    <3>1. PICK k \in 1 .. Len(items) : k # i /\ Rest(r)[j] = items[k] /\ items[k] \notin W
      BY <2>8
    <3>2. items[k] # items[i]
      BY <3>1, <2>3, <2>6
    <3> QED
      BY <3>1, <3>2, <2>7
  <2>13. ItemsInv'
    <3> SUFFICES ASSUME NEW k \in QueueTypes
                 PROVE  /\ \A j \in 1 .. Len(queues'[k].items) :
                             pc'[queues'[k].items[j]] = "queued" /\ lane'[queues'[k].items[j]] = k
                        /\ \A j, l \in 1 .. Len(queues'[k].items) :
                             queues'[k].items[j] = queues'[k].items[l] => j = l
      BY DEF ItemsInv
    <3>1. CASE k # t
      <4>1. queues'[k] = queues[k]
        BY <3>1, <2>4
      <4>2. \A j \in 1 .. Len(queues[k].items) :
              queues[k].items[j] \in Calls /\ pc[queues[k].items[j]] = "queued"
              /\ lane[queues[k].items[j]] = k
        BY EmptyFacts DEF IInv, TypeOK, GateInv, ItemsInv
      <4>3. \A j \in 1 .. Len(queues[k].items) :
              queues[k].items[j] \notin W /\ queues[k].items[j] # items[i]
        BY <4>2, <3>1, <2>10, <2>11
      <4>4. \A j, l \in 1 .. Len(queues[k].items) :
              queues[k].items[j] = queues[k].items[l] => j = l
        BY DEF IInv, GateInv, ItemsInv
      <4> QED
        BY <4>1, <4>2, <4>3, <4>4, <2>9, <1>0
    <3>2. CASE k = t
      <4>1. \A j \in 1 .. Len(Rest(r)) : pc'[Rest(r)[j]] = "queued" /\ lane'[Rest(r)[j]] = t
        BY <2>12, <2>9, <1>0
      <4> QED
        BY <4>1, <3>2, <2>5, <2>8
    <3> QED
      BY <3>1, <3>2
  <2>14. CallsInv'
    <3> SUFFICES ASSUME NEW c \in Calls
                 PROVE  /\ pc'[c] \in Early => slot'[c] = Unlimited
                        /\ (enabled /\ pc'[c] \in {"admitted", "marked"}) => slot'[c] = lane[c]
                        /\ pc'[c] # "idle" => exec[c] \in Execs
      BY <1>0 DEF CallsInv
    <3>1. CASE c \in W
      BY <3>1, <2>9, <2>10 DEF Early, IInv, GateInv, CallsInv
    <3>2. CASE c \notin W /\ c = items[i]
      BY <3>2, <2>9, <2>11 DEF Early, IInv, GateInv, CallsInv
    <3>3. CASE c \notin W /\ c # items[i]
      BY <3>3, <2>9 DEF IInv, GateInv, CallsInv
    <3> QED
      BY <3>1, <3>2, <3>3
  <2>15. EntriesInv'
    <3> SUFFICES ASSUME NEW e \in Execs, active[e] # None
                 PROVE  /\ exec[active[e]] = e
                        /\ pc'[active[e]] \notin Early \cup {"admitted", "marked"}
                        /\ enabled => slot'[active[e]] = lane[active[e]]
      BY <1>0 DEF EntriesInv
    <3>1. /\ active[e] \in Calls /\ exec[active[e]] = e
          /\ pc[active[e]] \notin Early \cup {"admitted", "marked"}
          /\ enabled => slot[active[e]] = lane[active[e]]
      BY DEF IInv, TypeOK, GateInv, EntriesInv
    <3>2. active[e] \notin W /\ active[e] # items[i]
      BY <3>1, <2>10, <2>11 DEF Early
    <3> QED
      BY <3>1, <3>2, <2>9
  <2>16. \A k \in QueueTypes : k # t => Holders(k)' = Holders(k)
    <3> SUFFICES ASSUME NEW k \in QueueTypes, k # t, NEW c \in Calls
                 PROVE  slot'[c] = k <=> slot[c] = k
      BY DEF Holders
    <3>1. k # Unlimited
      BY ConstantsAssumption
    <3> QED
      BY <3>1, <2>9, <2>10
  <2>17. /\ IsFiniteSet(Holders(t)) /\ Cardinality(Holders(t)) \in Int /\ t # Unlimited
         /\ Len(items) \in Int /\ Len(items) >= 1 /\ items # <<>>
    <3>1. IsFiniteSet(Holders(t)) /\ Cardinality(Holders(t)) \in Nat
      BY HoldersFinite
    <3> QED
      BY <3>1, <2>2, <2>3, <1>2, ConstantsAssumption
  <2>18. /\ Len(queues'[t].items) + Cardinality({c \in Calls : slot'[c] = t})
              = Len(items) + Cardinality(Holders(t)) - 1
         /\ Len(queues'[t].items) \in {Len(items) - 1, Len(items) - 2}
         /\ queues'[t].items # <<>> => Len(queues'[t].items) = Len(items) - 2
    <3> DEFINE K == {c \in Calls : slot'[c] = t}
    <3>1. CASE Len(items) = 1
      <4>1. K = Holders(t)
        BY <3>1, <2>8, <2>9 DEF Holders
      <4>2. Len(queues'[t].items) = 0 /\ queues'[t].items = <<>>
        BY <3>1, <2>5, <2>8
      <4>3. PICK u \in Int, v \in Int : u = Len(items) /\ v = Cardinality(Holders(t)) /\ u = 1
        BY <3>1, <2>17
      <4>4. 0 + v = u + v - 1 /\ 0 \in {u - 1, u - 2}
        BY <4>3
      <4> QED
        BY <4>1, <4>2, <4>3, <4>4
    <3>2. CASE Len(items) # 1
      <4>1. PICK h \in Calls : W = {h} /\ slot[h] = Unlimited /\ lane[h] = t
        BY <3>2, <2>8, <2>10
      <4>2. K = Holders(t) \cup {h} /\ h \notin Holders(t)
        BY <4>1, <2>9, <2>17 DEF Holders
      <4>3. Cardinality(K) = Cardinality(Holders(t)) + 1
        BY <4>2, <2>17, OneMore
      <4>4. Len(queues'[t].items) = Len(items) - 2
        BY <3>2, <2>5, <2>8
      <4>5. PICK u \in Int, v \in Int : u = Len(items) /\ v = Cardinality(Holders(t))
        BY <2>17
      <4>6. (u - 2) + (v + 1) = u + v - 1
        OBVIOUS
      <4> QED
        BY <4>3, <4>4, <4>5, <4>6
    <3> QED
      BY <3>1, <3>2
  <2>19. SlotConservation'
    <3> SUFFICES ASSUME NEW k \in QueueTypes
                 PROVE  queues'[k].capacity + Len(queues'[k].items) + Cardinality(Holders(k)') = Limit[k]
      BY DEF SlotConservation
    <3>1. CASE k # t
      BY <3>1, <2>4, <2>16 DEF IInv, GateInv, SlotConservation
    <3>2. CASE k = t
      <4> DEFINE m == Len(queues'[t].items)
                 w == Cardinality({c \in Calls : slot'[c] = t})
      <4>1. Holders(k)' = {c \in Calls : slot'[c] = t}
        BY <3>2 DEF Holders
      <4>2. q.capacity + Len(items) + Cardinality(Holders(t)) = Limit[t]
        BY <1>2 DEF IInv, GateInv, SlotConservation
      <4>3. m \in Int /\ w \in Int
        <5>1. m \in Int
          BY <2>17, <2>18
        <5>2. IsFiniteSet({c \in Calls : slot'[c] = t})
          BY FS_Subset, ConstantsAssumption
        <5>3. w \in Int
          BY <5>2, FS_CardinalityType
        <5> QED
          BY <5>1, <5>3
      <4>5. (q.capacity + 1) + m + w = q.capacity + Len(items) + Cardinality(Holders(t))
        <5>1. PICK x \in Int, y \in Int, z \in Int, u \in Int, v \in Int :
                /\ x = q.capacity /\ y = m /\ z = w
                /\ u = Len(items) /\ v = Cardinality(Holders(t))
          BY <4>3, <2>2, <2>17
        <5>2. y + z = u + v - 1
          BY <5>1, <2>18
        <5>3. (x + 1) + y + z = x + u + v
          BY <5>2
        <5> QED
          BY <5>1, <5>3
      <4>6. queues'[k].capacity + Len(queues'[k].items) + Cardinality(Holders(k)')
              = (q.capacity + 1) + m + w
        BY <3>2, <4>1, <2>5
      <4> QED
        BY <3>2, <4>2, <4>5, <4>6
    <3> QED
      BY <3>1, <3>2
  <2>20. CapacityInv'
    <3> SUFFICES ASSUME NEW k \in QueueTypes
                 PROVE  /\ queues'[k].items # <<>> => queues'[k].capacity + Len(queues'[k].items) <= 0
                        /\ queues'[k].capacity + Len(queues'[k].items) + removals'[k] >= 0
      BY DEF CapacityInv
    <3>1. CASE k # t
      BY <3>1, <2>4 DEF IInv, GateInv, CapacityInv
    <3>2. CASE k = t
      <4> DEFINE m == Len(queues'[t].items)
      <4>1. /\ q.capacity + Len(items) <= 0
            /\ q.capacity + Len(items) + removals[t] >= 0
        BY <2>17, <1>2 DEF IInv, GateInv, CapacityInv
      <4>2. removals'[t] = removals[t] + 1 /\ queues'[t].capacity = q.capacity + 1
        BY <2>4, <2>5, <1>2
      <4>3. m \in {Len(items) - 1, Len(items) - 2}
        BY <2>18
      <4>5. (q.capacity + 1) + m <= 0 /\ (q.capacity + 1) + m + (removals[t] + 1) >= 0
        <5>1. PICK x \in Int, u \in Int, v \in Int, y \in Int :
                x = q.capacity /\ u = Len(items) /\ v = removals[t] /\ y = m
          <6>1. m \in Int
            BY <4>3, <2>17
          <6>2. q.capacity \in Int /\ Len(items) \in Int /\ removals[t] \in Int
            BY <2>2
          <6> HIDE DEF m, q, items, t
          <6> QED
            BY <6>1, <6>2
        <5>2. x + u <= 0 /\ x + u + v >= 0 /\ y \in {u - 1, u - 2}
          BY <5>1, <4>1, <4>3
        <5>3. (x + 1) + y <= 0 /\ (x + 1) + y + (v + 1) >= 0
          BY <5>2
        <5> QED
          BY <5>1, <5>3
      <4> QED
        BY <3>2, <4>2, <4>5
    <3> QED
      BY <3>1, <3>2
  <2> QED
    BY <2>13, <2>14, <2>15, <2>19, <2>20 DEF GateInv
<1> QED
  BY <1>1, <1>2

(* A process that ends takes its queues, entries and slots with it. *)
LEMMA GateDie ==
  ASSUME IInv, Die
  PROVE  GateInv'
<1>1. /\ \A t \in QueueTypes : queues'[t].capacity = Limit[t] /\ queues'[t].items = <<>>
      /\ \A t \in QueueTypes : removals'[t] = 0
      /\ \A c \in Calls : slot'[c] = Unlimited
      /\ \A e \in Execs : active'[e] = None
      /\ \A c \in Calls : pc'[c] = IF c \in Live \/ pc[c] = "removed" THEN "lost" ELSE pc[c]
      /\ exec' = exec /\ lane' = lane
  BY DEF Die, NewQueue
<1>2. ItemsInv' /\ EntriesInv'
  BY <1>1 DEF ItemsInv, EntriesInv
<1>3. CallsInv'
  BY <1>1 DEF IInv, GateInv, CallsInv, Live
<1>4. \A t \in QueueTypes : t # Unlimited /\ Limit[t] \in Nat
  BY ConstantsAssumption
<1>5. \A t \in QueueTypes : Cardinality(Holders(t)') = 0
  <2>1. \A t \in QueueTypes : Holders(t)' = {}
    BY <1>1, <1>4 DEF Holders
  <2> QED
    BY <2>1, FS_EmptySet
<1>6. SlotConservation'
  BY <1>1, <1>4, <1>5 DEF SlotConservation
<1>7. CapacityInv'
  BY <1>1, <1>4 DEF CapacityInv
<1> QED
  BY <1>2, <1>3, <1>6, <1>7 DEF GateInv

(* Once the control is disabled nothing is given back any more. *)
LEMMA GateDrain ==
  ASSUME IInv, Drain
  PROVE  GateInv'
<1>1. enabled' = FALSE /\ UNCHANGED <<queues, removals, slot, active, pc, exec, lane>>
  BY DEF Drain, activeVars, callVars
<1>2. ItemsInv' /\ CallsInv' /\ EntriesInv'
  BY <1>1 DEF IInv, GateInv, ItemsInv, CallsInv, EntriesInv
<1>3. \A t : Holders(t)' = Holders(t)
  BY <1>1 DEF Holders
<1>4. SlotConservation' /\ CapacityInv'
  BY <1>1, <1>3 DEF IInv, GateInv, SlotConservation, CapacityInv
<1> QED
  BY <1>2, <1>4 DEF GateInv

(* The end of a run, a timeout and a stop settle the promise of an entry.   *)
LEMMA GateSettles ==
  ASSUME IInv,
         \/ \E c \in Calls : Settle(c) \/ TimeOut(c)
         \/ \E s \in Stops : StopActive(s)
  PROVE  GateInv'
<1>1. ASSUME NEW c \in Calls, Settle(c) PROVE GateInv'
  <2>0. /\ pc[c] \in {"settle", "denied"} /\ exec[c] \in Execs
        /\ UNCHANGED <<enabled, removals, exec, lane>>
    BY <1>1 DEF Settle, IInv, GateInv, CallsInv, callVars
  <2>1. CASE active[exec[c]] = None
    <3>1. pc' = [pc EXCEPT ![c] = "done"] /\ UNCHANGED <<queues, slot, active>>
      BY <1>1, <2>1 DEF Settle, activeVars
    <3> QED
      BY <2>0, <3>1, GateMove DEF IInv, Early
  <2>2. CASE active[exec[c]] # None
    <3>1. SettlePromise(exec[c], {c}, "done")
      BY <1>1, <2>2 DEF Settle
    <3>2. \A m \in {c} : pc[m] \notin Early \cup {"admitted", "marked"}
      BY <2>0 DEF Early
    <3>3. {c} \in SUBSET Calls
      OBVIOUS
    <3> QED
      BY <2>0, <2>2, <3>1, <3>2, <3>3, SettleGate
  <2> QED
    BY <2>1, <2>2
<1>2. ASSUME NEW c \in Calls, TimeOut(c) PROVE GateInv'
  <2>1. /\ exec[c] \in Execs /\ active[exec[c]] # None
        /\ SettlePromise(exec[c], {}, "done")
        /\ UNCHANGED <<enabled, removals, exec, lane>>
    BY <1>2 DEF TimeOut, StopEntry, IInv, GateInv, CallsInv
  <2>2. {} \in SUBSET Calls /\ \A m \in {} : pc[m] \notin Early \cup {"admitted", "marked"}
    OBVIOUS
  <2> QED
    BY <2>1, <2>2, SettleGate
<1>3. ASSUME NEW s \in Stops, StopActive(s) PROVE GateInv'
  <2> DEFINE e == stop[s].exec
  <2>0. e \in Execs /\ UNCHANGED <<enabled, removals, exec, lane>>
    BY <1>3 DEF StopActive, IInv, StopsInv
  <2>1. CASE active[e] = None
    <3>1. UNCHANGED <<queues, slot, active, pc>>
      BY <1>3, <2>1 DEF StopActive, activeVars
    <3> QED
      BY <2>0, <3>1, GateFrame DEF IInv
  <2>2. CASE active[e] # None
    <3>1. SettlePromise(e, {}, "done")
      BY <1>3, <2>2 DEF StopActive, StopEntry
    <3>2. {} \in SUBSET Calls /\ \A m \in {} : pc[m] \notin Early \cup {"admitted", "marked"}
      OBVIOUS
    <3> HIDE DEF e
    <3> QED
      BY <2>0, <2>2, <3>1, <3>2, SettleGate
  <2> QED
    BY <2>1, <2>2
<1> QED
  BY <1>1, <1>2, <1>3

-----------------------------------------------------------------------------
(* The invariant *)

LEMMA StopsStep == TypeOK /\ StopsInv /\ [Next]_vars => StopsInv'
<1> SUFFICES ASSUME TypeOK, StopsInv, [Next]_vars PROVE StopsInv'
  OBVIOUS
<1>1. CASE UNCHANGED stop
  BY <1>1 DEF StopsInv
<1>2. ASSUME NEW s \in Stops, StopStep(s) \/ \E e \in Execs : StopRequest(s, e)
      PROVE  StopsInv'
  <2>1. CASE StopStep(s)
    <3>1. stop[s].pc # "idle" /\ \E x : stop' = [stop EXCEPT ![s].pc = x]
      BY <2>1 DEF StopStep, StopQueued, StopActive, StopWrite
    <3> QED
      BY <3>1 DEF StopsInv, TypeOK
  <2>2. CASE \E e \in Execs : StopRequest(s, e)
    BY <2>2 DEF StopRequest, StopsInv, TypeOK
  <2> QED
    BY <1>2, <2>1, <2>2
<1>3. CASE Crash \/ Exit
  <2>1. \A s \in Stops : stop'[s] = IF stop[s].pc = "idle" THEN stop[s]
                                   ELSE [pc |-> "done", exec |-> stop[s].exec]
    BY <1>3 DEF Crash, Exit, Die
  <2>2. ASSUME NEW s \in Stops, stop'[s].pc # "idle" PROVE stop'[s].exec \in Execs
    <3>1. CASE stop[s].pc = "idle"
      <4>1. stop'[s] = stop[s]
        BY <2>1, <3>1
      <4> QED
        BY <2>2, <3>1, <4>1
    <3>2. CASE stop[s].pc # "idle"
      <4>1. stop'[s] = [pc |-> "done", exec |-> stop[s].exec]
        BY <2>1, <3>2
      <4> QED
        BY <3>2, <4>1 DEF StopsInv
    <3> QED
      BY <3>1, <3>2
  <2> QED
    BY <2>2 DEF StopsInv
<1>4. ASSUME NEW c \in Calls, CallStep(c) \/ Start(c) \/ WriteFails(c) \/ TimeOut(c)
      PROVE  UNCHANGED stop
  BY <1>4 DEF CallStep, Start, WriteFails, TimeOut, Throttle, MarkRunning, Register, Deny,
     BeginRun, Launch, Finish, Save, SaveCancel, OrphanEnds, Settle, Fetch, NewExecution,
     TimerFires, WebhookResume, RequeueExecution
<1>5. CASE \/ \E e \in Execs : TimePasses(e)
           \/ PollQuery \/ PollApply \/ BootStep \/ Restart \/ BeginShutdown \/ Drain
  BY <1>1, <1>5 DEF TimePasses, PollQuery, PollApply, BootStep, RecoverRead, RequeueRead,
     BootDone, RecoverExecution, Restart, BeginShutdown, Drain
<1>6. CASE UNCHANGED vars
  BY <1>1, <1>6 DEF vars
<1> QED
  BY <1>1, <1>2, <1>3, <1>4, <1>5, <1>6 DEF Next

LEMMA GateStep == IInv /\ [Next]_vars => GateInv'
<1> SUFFICES ASSUME IInv, [Next]_vars PROVE GateInv'
  OBVIOUS
<1>0. TypeOK /\ GateInv /\ \A c \in Calls : pc[c] # "idle" => exec[c] \in Execs
  BY DEF IInv, GateInv, CallsInv
<1>1. ASSUME NEW c \in Calls, Throttle(c) \/ Register(c) PROVE GateInv'
  BY <1>0, <1>1, GateThrottle, GateRegister
<1>2. ASSUME NEW c \in Calls,
             \/ MarkRunning(c) \/ Deny(c) \/ BeginRun(c) \/ Launch(c) \/ Finish(c)
             \/ Save(c) \/ OrphanEnds(c) \/ Fetch(c) \/ WriteFails(c)
      PROVE  GateInv'
  <2>1. /\ UNCHANGED <<enabled, queues, removals, slot, active, exec, lane>>
        /\ pc[c] # "idle" /\ pc[c] # "queued"
    BY <1>2 DEF MarkRunning, Deny, BeginRun, Launch, Finish, Save, OrphanEnds, Fetch, WriteFails,
       gateVars, activeVars, callVars
  <2>2. \E to : /\ pc' = [pc EXCEPT ![c] = to] /\ to # "queued"
                /\ to \in Early => pc[c] \in Early
                /\ to \in {"admitted", "marked"} => pc[c] \in {"admitted", "marked"}
    <3>1. CASE MarkRunning(c)
      BY <3>1 DEF MarkRunning, Early
    <3>2. CASE Launch(c)
      BY <3>2 DEF Launch, Early
    <3>3. CASE Finish(c)
      <4>1. pc' = [pc EXCEPT ![c] = "settle"] \/ pc' = [pc EXCEPT ![c] = "saving"]
        BY <3>3 DEF Finish
      <4> QED
        BY <4>1 DEF Early
    <3>4. CASE Fetch(c)
      <4>1. /\ pc[c] = "fetch"
            /\ pc' = [pc EXCEPT ![c] = "done"] \/ pc' = [pc EXCEPT ![c] = "admit"]
        BY <3>4 DEF Fetch
      <4> QED
        BY <4>1 DEF Early
    <3>5. CASE Deny(c) \/ BeginRun(c) \/ Save(c) \/ OrphanEnds(c) \/ WriteFails(c)
      BY <3>5 DEF Deny, BeginRun, Save, OrphanEnds, WriteFails, Early
    <3> QED
      BY <1>2, <3>1, <3>2, <3>3, <3>4, <3>5
  <2> QED
    BY <1>0, <2>1, <2>2, GateMove
<1>3. ASSUME NEW c \in Calls, SaveCancel(c) PROVE GateInv'
  BY <1>0, <1>3, GateFrame DEF SaveCancel, gateVars, activeVars
<1>4. ASSUME NEW c \in Calls, Settle(c) \/ TimeOut(c) PROVE GateInv'
  BY <1>4, GateSettles
<1>5. ASSUME NEW c \in Calls, Start(c) PROVE GateInv'
  <2>1. PICK e \in Execs : \/ NewExecution(c, e) \/ TimerFires(c, e)
                           \/ WebhookResume(c, e) \/ RequeueExecution(c, e)
    BY <1>5 DEF Start
  <2>2. PICK to, ln :
          /\ to \in {"fetch", "admit"}
          /\ pc[c] = "idle" /\ pc' = [pc EXCEPT ![c] = to]
          /\ exec' = [exec EXCEPT ![c] = e] /\ lane' = [lane EXCEPT ![c] = ln]
    BY <2>1 DEF NewExecution, TimerFires, WebhookResume, RequeueExecution, RunExisting
  <2>3. UNCHANGED <<enabled, queues, removals, slot, active>>
    BY <2>1 DEF NewExecution, TimerFires, WebhookResume, RequeueExecution, gateVars, activeVars
  <2> QED
    BY <1>0, <2>2, <2>3, GateStart
<1>6. ASSUME NEW s \in Stops, StopStep(s) \/ \E e \in Execs : StopRequest(s, e)
      PROVE  GateInv'
  <2>1. CASE StopQueued(s)
    BY <2>1, GateRemove
  <2>2. CASE StopActive(s)
    BY <2>2, GateSettles
  <2>3. CASE StopWrite(s) \/ \E e \in Execs : StopRequest(s, e)
    BY <1>0, <2>3, GateFrame DEF StopWrite, StopRequest, gateVars, activeVars, callVars
  <2> QED
    BY <1>6, <2>1, <2>2, <2>3 DEF StopStep
<1>7. CASE \/ \E e \in Execs : TimePasses(e)
           \/ PollQuery \/ PollApply \/ BootStep \/ Restart \/ BeginShutdown
  BY <1>0, <1>7, GateFrame DEF TimePasses, PollQuery, PollApply, BootStep, RecoverRead,
     RequeueRead, BootDone, RecoverExecution, Restart, BeginShutdown, gateVars, activeVars, callVars
<1>8. CASE Crash \/ Exit
  BY <1>8, GateDie DEF Crash, Exit
<1>9. CASE Drain
  BY <1>9, GateDrain
<1>10. CASE UNCHANGED vars
  BY <1>0, <1>10, GateFrame DEF vars, gateVars, activeVars, callVars
<1> QED
  BY <1>1, <1>2, <1>3, <1>4, <1>5, <1>6, <1>7, <1>8, <1>9, <1>10 DEF Next, CallStep

LEMMA InvInit == Init => IInv
<1> SUFFICES ASSUME Init PROVE IInv
  OBVIOUS
<1>1. /\ \A t \in QueueTypes : /\ queues[t].capacity = Limit[t] /\ queues[t].items = <<>>
                                /\ Len(queues[t].items) = 0 /\ removals[t] = 0
                                /\ t # Unlimited /\ Limit[t] \in Nat
      /\ \A c \in Calls : slot[c] = Unlimited /\ pc[c] = "idle"
  BY ConstantsAssumption DEF Init, NewQueue
<1>2. TypeOK
  <2>1. queues \in [QueueTypes -> [capacity : Int, items : Seq(Calls)]]
    <3>1. \A t \in QueueTypes : [capacity |-> Limit[t], items |-> <<>>]
                                  \in [capacity : Int, items : Seq(Calls)]
      BY ConstantsAssumption
    <3> QED
      BY <3>1 DEF Init, NewQueue
  <2> QED
    BY <2>1, ConstantsAssumption
    DEF Init, TypeOK, Phases, Statuses, WaitTills, CallPCs, Lanes
<1>3. ItemsInv /\ CallsInv /\ EntriesInv /\ StopsInv
  BY <1>1 DEF Init, ItemsInv, CallsInv, EntriesInv, StopsInv
<1>4. SlotConservation
  <2>1. \A t \in QueueTypes : Holders(t) = {}
    BY <1>1 DEF Holders
  <2>2. \A t \in QueueTypes : Cardinality(Holders(t)) = 0
    BY <2>1, FS_EmptySet
  <2> QED
    BY <1>1, <2>2 DEF SlotConservation
<1>5. CapacityInv
  BY <1>1 DEF CapacityInv
<1> QED
  BY <1>2, <1>3, <1>4, <1>5 DEF IInv, GateInv

(* The inductive invariant. *)
THEOREM Invariant == Spec => []IInv
<1>1. IInv /\ [Next]_vars => IInv'
  BY TypeStep, GateStep, StopsStep DEF IInv
<1> QED
  BY InvInit, <1>1, PTL DEF Spec

(* Every variable of the main process keeps its type, through any number of *)
(* stops, timeouts, failed writes, crashes and restarts.                    *)
THEOREM TypeCorrect == Spec => []TypeOK
<1>1. IInv => TypeOK
  BY DEF IInv
<1> QED
  BY Invariant, <1>1, PTL

(* No path through throttle, release and remove loses or doubles a unit of  *)
(* the concurrency limit.                                                   *)
THEOREM SlotsConserved == Spec => []SlotConservation
<1>1. IInv => SlotConservation
  BY DEF IInv, GateInv
<1> QED
  BY Invariant, <1>1, PTL

(* A blocked call never waits next to a free unit, although `release` gives *)
(* the unit back without a look at the limit.                               *)
THEOREM CapacityIsUsed == Spec => []NoIdleCapacity
<1>1. IInv => NoIdleCapacity
  <2> SUFFICES ASSUME IInv, NEW t \in QueueTypes, queues[t].items # <<>>
               PROVE  Cardinality(Holders(t)) >= Limit[t]
    BY DEF NoIdleCapacity
  <2>1. /\ queues[t].capacity + Len(queues[t].items) <= 0
        /\ queues[t].capacity + Len(queues[t].items) + Cardinality(Holders(t)) = Limit[t]
    BY DEF IInv, GateInv, CapacityInv, SlotConservation
  <2>2. /\ queues[t].capacity \in Int /\ Len(queues[t].items) \in Int
        /\ Cardinality(Holders(t)) \in Int
    BY HoldersFinite DEF IInv, TypeOK
  <2> QED
    BY <2>1, <2>2
<1> QED
  BY Invariant, <1>1, PTL

(* The limit is exceeded by at most one for each removal from the queue: the *)
(* excess that the removals cause cannot grow on its own.                    *)
THEOREM ExcessBounded == Spec => []HoldersBounded
<1>1. IInv => HoldersBounded
  <2> SUFFICES ASSUME IInv, NEW t \in QueueTypes
               PROVE  Cardinality(Holders(t)) <= Limit[t] + removals[t]
    BY DEF HoldersBounded
  <2>1. /\ queues[t].capacity + Len(queues[t].items) + removals[t] >= 0
        /\ queues[t].capacity + Len(queues[t].items) + Cardinality(Holders(t)) = Limit[t]
    BY DEF IInv, GateInv, CapacityInv, SlotConservation
  <2>2. /\ queues[t].capacity \in Int /\ Len(queues[t].items) \in Int
        /\ Cardinality(Holders(t)) \in Int /\ removals[t] \in Int
    BY HoldersFinite DEF IInv, TypeOK
  <2> QED
    BY <2>1, <2>2
<1> QED
  BY Invariant, <1>1, PTL

-----------------------------------------------------------------------------
(* What becomes of the executions *)

(* A call that has written the row of its execution. *)
Written == {"marked", "registered", "launch", "running", "saving", "settle",
            "orphan", "denied", "done"}

(* The row of such a call is no longer `new`, and never is again. *)
RowInv == \A c \in Calls : pc[c] \in Written => db[exec[c]].status \notin {"none", "new"}

(* Somebody runs the execution, has lost its write, or is about to stop it. *)
Owned(e) ==
  \/ \E c \in Calls : exec[c] = e /\ (c \in Live \/ pc[c] = "failed")
  \/ \E s \in Stops : stop[s].exec = e /\ stop[s].pc = "before"

(* From the moment the boot has read the rows that are still new, such a row *)
(* is one it will rerun or has an owner.                                     *)
OwnerInv ==
  /\ phase \in {"requeue", "up"} =>
       \A e \in Execs : db[e].status = "new" => e \in boot \/ Owned(e)
  /\ phase = "up" => boot = {}

(* A call alone on its execution that holds a unit is on its way to its      *)
(* entry or is behind it, so that settling the entry gives the unit back.    *)
HoldInv ==
  enabled => \A c \in Calls : slot[c] # Unlimited =>
    \/ pc[c] \in {"admitted", "marked", "failed"}
    \/ ~AloneOn(c)
    \/ active[exec[c]] = c /\ c \in Live /\ pc[c] # "orphan"

IdleInv == \A c \in Calls : pc[c] = "idle" => exec[c] = None

DrainInv == phase = "draining" => ~enabled

LifeInv == IInv /\ IdleInv /\ RowInv /\ OwnerInv /\ HoldInv /\ DrainInv

-----------------------------------------------------------------------------
(* Whoever a release lets go was the first to wait in its lane. *)
LEMMA WokenFacts ==
  ASSUME IInv, NEW d, NEW x \in Woken(Freed(d))
  PROVE  /\ x \in Calls /\ pc[x] = "queued" /\ slot[x] = Unlimited /\ enabled
         /\ lane[x] \in QueueTypes /\ queues[lane[x]].items # <<>>
         /\ x = queues[lane[x]].items[1]
<1>1. PICK t \in Freed(d) : x \in Released(queues[t].items)
  BY DEF Woken
<1>2. t \in QueueTypes /\ enabled
  BY <1>1 DEF Freed
<1>3. queues[t].items \in Seq(Calls)
  BY <1>2 DEF IInv, TypeOK
<1>4. Released(queues[t].items) = IF queues[t].items = <<>> THEN {} ELSE {queues[t].items[1]}
  BY <1>3, RestFacts
<1>5. queues[t].items # <<>> /\ x = queues[t].items[1] /\ 1 \in 1 .. Len(queues[t].items)
  BY <1>1, <1>3, <1>4, EmptyFacts
<1>6. x \in Calls /\ pc[x] = "queued" /\ lane[x] = t
  BY <1>2, <1>3, <1>5, EmptyFacts DEF IInv, GateInv, ItemsInv
<1> QED
  BY <1>2, <1>5, <1>6 DEF IInv, GateInv, CallsInv, Early

(* What settling an entry does to a call: it is let go, it ends, or stays.  *)
LEMMA SettleMoves ==
  ASSUME IInv, NEW e \in Execs, NEW moved \in SUBSET Calls, NEW x \in Calls,
         SettlePromise(e, moved, "done")
  PROVE  \/ /\ pc[x] = "queued" /\ pc'[x] = "admitted" /\ enabled
            /\ lane[x] \in QueueTypes /\ x = queues[lane[x]].items[1]
         \/ /\ pc'[x] = (IF x \in moved THEN "done" ELSE pc[x])
            /\ slot'[x] = IF x = active[e] /\ enabled THEN Unlimited ELSE slot[x]
<1>1. /\ pc' = [c \in Calls |-> IF c \in Woken(Freed(active[e])) THEN "admitted"
                                ELSE IF c \in moved THEN "done" ELSE pc[c]]
      /\ slot' = [c \in Calls |-> IF c \in Woken(Freed(active[e])) THEN lane[c]
                                  ELSE IF c = active[e] /\ enabled THEN Unlimited ELSE slot[c]]
  BY DEF SettlePromise, Admit, Advance
<1>2. CASE x \in Woken(Freed(active[e]))
  BY <1>1, <1>2, WokenFacts
<1>3. CASE x \notin Woken(Freed(active[e]))
  BY <1>1, <1>3
<1> QED
  BY <1>2, <1>3

(* The three actions that settle an entry. *)
Settles(e, moved) ==
  /\ active[e] # None
  /\ SettlePromise(e, moved, "done")
  /\ \/ \E c \in Calls : Settle(c) /\ exec[c] = e /\ moved = {c}
     \/ \E c \in Calls : TimeOut(c) /\ exec[c] = e /\ moved = {}
     \/ \E s \in Stops : StopActive(s) /\ stop[s].exec = e /\ moved = {}

LEMMA SettlesCases ==
  ASSUME IInv,
         \/ \E c \in Calls : Settle(c) \/ TimeOut(c)
         \/ \E s \in Stops : StopActive(s)
  PROVE  \/ \E e \in Execs : \E moved \in SUBSET Calls : Settles(e, moved)
         \/ \E c \in Calls : /\ pc[c] \in {"settle", "denied"} /\ active[exec[c]] = None
                             /\ pc' = [pc EXCEPT ![c] = "done"]
                             /\ UNCHANGED <<queues, slot, active>>
         \/ UNCHANGED <<pc, queues, slot, active>>
<1>1. ASSUME NEW c \in Calls, Settle(c), active[exec[c]] # None
      PROVE  \E e \in Execs : \E moved \in SUBSET Calls : Settles(e, moved)
  <2>1. exec[c] \in Execs
    BY <1>1 DEF Settle, IInv, GateInv, CallsInv
  <2>2. SettlePromise(exec[c], {c}, "done")
    BY <1>1 DEF Settle
  <2>3. {c} \in SUBSET Calls /\ Settles(exec[c], {c})
    BY <1>1, <2>2 DEF Settles
  <2> QED
    BY <2>1, <2>3
<1>2. ASSUME NEW c \in Calls, Settle(c), active[exec[c]] = None
      PROVE  /\ pc[c] \in {"settle", "denied"}
             /\ pc' = [pc EXCEPT ![c] = "done"] /\ UNCHANGED <<queues, slot, active>>
  BY <1>2 DEF Settle, activeVars
<1>3. ASSUME NEW c \in Calls, TimeOut(c)
      PROVE  \E e \in Execs : \E moved \in SUBSET Calls : Settles(e, moved)
  <2>1. exec[c] \in Execs /\ active[exec[c]] # None
    BY <1>3 DEF TimeOut, IInv, GateInv, CallsInv
  <2>2. SettlePromise(exec[c], {}, "done")
    BY <1>3 DEF TimeOut, StopEntry
  <2>3. {} \in SUBSET Calls /\ Settles(exec[c], {})
    BY <1>3, <2>1, <2>2 DEF Settles
  <2> QED
    BY <2>1, <2>3
<1>4. ASSUME NEW s \in Stops, StopActive(s), active[stop[s].exec] # None
      PROVE  \E e \in Execs : \E moved \in SUBSET Calls : Settles(e, moved)
  <2>1. stop[s].exec \in Execs
    BY <1>4 DEF StopActive, IInv, StopsInv
  <2>2. SettlePromise(stop[s].exec, {}, "done")
    BY <1>4 DEF StopActive, StopEntry
  <2>3. {} \in SUBSET Calls /\ Settles(stop[s].exec, {})
    BY <1>4, <2>2 DEF Settles
  <2> QED
    BY <2>1, <2>3
<1>5. ASSUME NEW s \in Stops, StopActive(s), active[stop[s].exec] = None
      PROVE  UNCHANGED <<pc, queues, slot, active>>
  BY <1>5 DEF StopActive, activeVars
<1> QED
  BY <1>1, <1>2, <1>3, <1>4, <1>5

(* What a removal does to a call: it leaves, or is let go in the place of   *)
(* the one that left.                                                       *)
LEMMA RemoveMoves ==
  ASSUME IInv, NEW s \in Stops, StopQueued(s), NEW x \in Calls
  PROVE  \/ pc'[x] = pc[x] /\ slot'[x] = slot[x]
         \/ /\ pc[x] = "queued" /\ enabled
            /\ \/ pc'[x] = "removed" /\ exec[x] = stop[s].exec /\ slot'[x] = slot[x]
               \/ /\ pc'[x] = "admitted" /\ lane[x] \in QueueTypes
                  /\ LET items == queues[lane[x]].items IN
                     \/ x = items[1]
                     \/ /\ 2 \in 1 .. Len(items) /\ x = items[2]
                        /\ pc'[items[1]] = "removed"
<1> DEFINE e == stop[s].exec
           t == ModeLane[e]
           items == queues[t].items
<1>1. CASE UNCHANGED <<slot, pc>>
  BY <1>1
<1>2. ASSUME t \in QueueTypes, PositionsOf(e, t) # {}, NEW i \in PositionsOf(e, t),
             Admit(Released(Without(items, i)), None),
             Advance(Released(Without(items, i)), {items[i]}, "removed"),
             \/ pc'[x] # pc[x] \/ slot'[x] # slot[x]
      PROVE  /\ pc[x] = "queued" /\ enabled
             /\ \/ pc'[x] = "removed" /\ exec[x] = e /\ slot'[x] = slot[x]
                \/ /\ pc'[x] = "admitted" /\ lane[x] = t
                   /\ \/ x = items[1]
                      \/ /\ 2 \in 1 .. Len(items) /\ x = items[2]
                         /\ pc'[items[1]] = "removed"
  <2> DEFINE W == Released(Without(items, i))
  <2>0. enabled
    BY DEF StopQueued, Enqueued
  <2>1. /\ items \in Seq(Calls) /\ Len(items) \in Nat
        /\ i \in 1 .. Len(items) /\ exec[items[i]] = e
        /\ \A j \in 1 .. Len(items) : items[j] \in Calls
    <3>1. items \in Seq(Calls)
      BY <1>2 DEF IInv, TypeOK
    <3>2. i \in 1 .. Len(items) /\ exec[items[i]] = e
      BY <1>2 DEF PositionsOf
    <3> HIDE DEF items
    <3> QED
      BY <3>1, <3>2, EmptyFacts
  <2>2. /\ \A j \in 1 .. Len(items) : pc[items[j]] = "queued" /\ lane[items[j]] = t
        /\ \A j, k \in 1 .. Len(items) : items[j] = items[k] => j = k
    BY <1>2 DEF IInv, GateInv, ItemsInv
  <2>3. /\ Without(items, i) \in Seq(Calls)
        /\ Len(Without(items, i)) = Len(items) - 1
        /\ \A j \in 1 .. Len(items) - 1 :
             Without(items, i)[j] = items[IF j < i THEN j ELSE j + 1]
    <3> HIDE DEF items
    <3> QED
      BY <2>1, WithoutFacts
  <2>4. W = IF Without(items, i) = <<>> THEN {} ELSE {Without(items, i)[1]}
    <3> HIDE DEF items
    <3> QED
      BY <2>3, RestFacts
  <2>5. ASSUME NEW y \in W
        PROVE  \/ i # 1 /\ y = items[1] /\ 1 \in 1 .. Len(items)
               \/ i = 1 /\ y = items[2] /\ 2 \in 1 .. Len(items)
    <3>1. Without(items, i) # <<>> /\ y = Without(items, i)[1]
      BY <2>4, <2>5
    <3>2. 1 \in 1 .. Len(items) - 1
      <4> HIDE DEF items
      <4>1. Len(Without(items, i)) # 0
        BY <3>1, <2>3, EmptyFacts
      <4> QED
        BY <4>1, <2>1, <2>3
    <3>3. y = items[IF 1 < i THEN 1 ELSE 2]
      BY <3>1, <3>2, <2>3
    <3> HIDE DEF items
    <3> QED
      BY <3>2, <3>3, <2>1
  <2>6. items[i] \notin W
    <3>1. ASSUME items[i] \in W PROVE FALSE
      <4>1. \/ i # 1 /\ items[i] = items[1] /\ 1 \in 1 .. Len(items)
            \/ i = 1 /\ items[i] = items[2] /\ 2 \in 1 .. Len(items)
        BY <2>5, <3>1
      <4> HIDE DEF items, W
      <4>2. CASE i # 1
        BY <4>1, <4>2, <2>1, <2>2
      <4>3. CASE i = 1
        <5>1. items[1] = items[2] /\ 2 \in 1 .. Len(items) /\ 1 \in 1 .. Len(items)
          BY <4>1, <4>3, <2>1
        <5>2. 1 = 2
          BY <5>1, <2>2
        <5> QED
          BY <5>2
      <4> QED
        BY <4>2, <4>3
    <3> QED
      BY <3>1
  <2>7. /\ pc' = [c \in Calls |-> IF c \in W THEN "admitted"
                                  ELSE IF c \in {items[i]} THEN "removed" ELSE pc[c]]
        /\ slot' = [c \in Calls |-> IF c \in W THEN lane[c]
                                    ELSE IF c = None /\ enabled THEN Unlimited ELSE slot[c]]
        /\ x # None
    BY <1>2, ConstantsAssumption DEF Admit, Advance
  <2> HIDE DEF W, items, t, e
  <2>8. CASE x \in W
    <3>1. pc'[x] = "admitted"
      BY <2>7, <2>8
    <3>2. pc[x] = "queued" /\ lane[x] = t
      BY <2>2, <2>5, <2>8
    <3>3. CASE i # 1
      BY <2>0, <2>5, <2>8, <3>1, <3>2, <3>3
    <3>4. CASE i = 1
      <4>1. items[1] \in Calls /\ pc'[items[1]] = "removed"
        BY <3>4, <2>1, <2>6, <2>7
      <4>2. x = items[2] /\ 2 \in 1 .. Len(items)
        BY <2>5, <2>8, <3>4
      <4> QED
        BY <2>0, <4>1, <4>2, <3>1, <3>2
    <3> QED
      BY <3>3, <3>4
  <2>9. CASE x \notin W
    <3>1. slot'[x] = slot[x]
      BY <2>7, <2>9
    <3>2. x = items[i]
      BY <1>2, <2>7, <2>9, <3>1
    <3> QED
      BY <2>0, <2>1, <2>2, <2>7, <2>9, <3>1, <3>2
  <2> QED
    BY <2>8, <2>9
<1>3. \/ UNCHANGED <<slot, pc>>
      \/ /\ t \in QueueTypes /\ PositionsOf(e, t) # {}
         /\ \E i \in PositionsOf(e, t) :
              /\ Admit(Released(Without(items, i)), None)
              /\ Advance(Released(Without(items, i)), {items[i]}, "removed")
  BY DEF StopQueued
<1> HIDE DEF e, t, items
<1>4. CASE /\ t \in QueueTypes /\ PositionsOf(e, t) # {}
           /\ \E i \in PositionsOf(e, t) :
                /\ Admit(Released(Without(items, i)), None)
                /\ Advance(Released(Without(items, i)), {items[i]}, "removed")
  <2>1. PICK i \in PositionsOf(e, t) :
          /\ Admit(Released(Without(items, i)), None)
          /\ Advance(Released(Without(items, i)), {items[i]}, "removed")
    BY <1>4
  <2> QED
    BY <1>2, <1>4, <2>1 DEF items, e
<1> QED
  BY <1>1, <1>3, <1>4

-----------------------------------------------------------------------------
(* Where a call may go in one step. *)
Goes(x) ==
  \/ pc'[x] = pc[x]
  \/ pc[x] = "idle" /\ pc'[x] \in {"fetch", "admit"}
  \/ pc[x] = "fetch" /\ pc'[x] = "admit"
  \/ pc[x] = "fetch" /\ pc'[x] = "done" /\ db[exec[x]].status = "success"
  \/ pc[x] = "admit" /\ pc'[x] \in {"queued", "admitted"}
  \/ pc[x] = "queued" /\ pc'[x] = "admitted"
  \/ /\ pc[x] = "queued" /\ pc'[x] = "removed"
     /\ \E s \in Stops : StopQueued(s) /\ stop[s].exec = exec[x]
  \/ pc[x] = "admitted" /\ pc'[x] = "marked" /\ MarkRunning(x)
  \/ pc[x] \in {"admitted", "registered"} /\ pc'[x] = "failed"
  \/ pc[x] \in Written /\ pc'[x] \in Written
  \/ phase' = "down" /\ pc'[x] = "lost"

(* The steps of one call, but the throttle and the end of its entry. *)
PlainStep(c) ==
  \/ MarkRunning(c) \/ Register(c) \/ Deny(c) \/ BeginRun(c) \/ Launch(c) \/ Finish(c)
  \/ Save(c) \/ SaveCancel(c) \/ OrphanEnds(c) \/ Fetch(c) \/ WriteFails(c)

LEMMA PlainGoes ==
  ASSUME IInv, NEW c \in Calls, PlainStep(c), NEW x \in Calls
  PROVE  Goes(x)
<1>1. pc \in [Calls -> CallPCs]
  BY DEF IInv, TypeOK
<1>2. CASE MarkRunning(c)
  BY <1>1, <1>2 DEF MarkRunning, Goes
<1>3. CASE Register(c) \/ Deny(c) \/ BeginRun(c)
  BY <1>1, <1>3 DEF Register, Deny, BeginRun, Goes, Written
<1>4. CASE Launch(c)
  BY <1>1, <1>4 DEF Launch, Goes, Written
<1>5. CASE Finish(c)
  <2>1. /\ pc[c] = "running"
        /\ pc' = [pc EXCEPT ![c] = "settle"] \/ pc' = [pc EXCEPT ![c] = "saving"]
    BY <1>5 DEF Finish
  <2> QED
    BY <1>1, <2>1 DEF Goes, Written
<1>6. CASE Save(c) \/ SaveCancel(c) \/ OrphanEnds(c)
  BY <1>1, <1>6 DEF Save, SaveCancel, OrphanEnds, Goes, Written
<1>7. CASE Fetch(c)
  BY <1>1, <1>7 DEF Fetch, Goes
<1>8. CASE WriteFails(c)
  BY <1>1, <1>8 DEF WriteFails, Goes
<1> QED
  BY <1>2, <1>3, <1>4, <1>5, <1>6, <1>7, <1>8 DEF PlainStep

(* A step is one of these. *)
LEMMA StepCases ==
  ASSUME IInv, Next
  PROVE  \/ \E c \in Calls : PlainStep(c) \/ Throttle(c) \/ Start(c)
         \/ \E c \in Calls : Settle(c) \/ TimeOut(c)
         \/ \E s \in Stops : StopActive(s)
         \/ \E s \in Stops : StopQueued(s)
         \/ \E s \in Stops : StopWrite(s) \/ \E e \in Execs : StopRequest(s, e)
         \/ \E e \in Execs : TimePasses(e)
         \/ PollQuery \/ PollApply \/ BootStep \/ Restart \/ BeginShutdown \/ Drain
         \/ Die
  BY DEF Next, CallStep, PlainStep, StopStep, Crash, Exit

LEMMA Moves ==
  ASSUME IInv, [Next]_vars, NEW x \in Calls
  PROVE  Goes(x)
<1>0. pc \in [Calls -> CallPCs]
  BY DEF IInv, TypeOK
<1>1. ASSUME NEW c \in Calls, PlainStep(c) PROVE Goes(x)
  BY <1>1, PlainGoes
<1>2. ASSUME NEW c \in Calls, Throttle(c) PROVE Goes(x)
  <2>1. /\ pc[c] = "admit"
        /\ pc' = [pc EXCEPT ![c] = "queued"] \/ pc' = [pc EXCEPT ![c] = "admitted"]
    BY <1>2 DEF Throttle
  <2> QED
    BY <1>0, <2>1 DEF Goes
<1>3. ASSUME NEW c \in Calls, Start(c) PROVE Goes(x)
  BY <1>0, <1>3 DEF Start, NewExecution, TimerFires, WebhookResume, RequeueExecution, RunExisting, Goes
<1>4. CASE \/ \E c \in Calls : Settle(c) \/ TimeOut(c)
           \/ \E s \in Stops : StopActive(s)
  <2>1. ASSUME NEW e \in Execs, NEW moved \in SUBSET Calls, Settles(e, moved) PROVE Goes(x)
    <3>1. SettlePromise(e, moved, "done") /\ \A m \in moved : pc[m] \in Written
      BY <2>1 DEF Settles, Settle, Written
    <3>2. \/ pc[x] = "queued" /\ pc'[x] = "admitted"
          \/ pc'[x] = (IF x \in moved THEN "done" ELSE pc[x])
      BY <3>1, SettleMoves
    <3> QED
      BY <3>1, <3>2 DEF Goes, Written
  <2>2. ASSUME NEW c \in Calls, pc[c] \in {"settle", "denied"}, pc' = [pc EXCEPT ![c] = "done"]
        PROVE  Goes(x)
    BY <1>0, <2>2 DEF Goes, Written
  <2>3. CASE UNCHANGED pc
    BY <2>3 DEF Goes
  <2> QED
    BY <1>4, <2>1, <2>2, <2>3, SettlesCases
<1>5. ASSUME NEW s \in Stops, StopQueued(s) PROVE Goes(x)
  <2>1. \/ pc'[x] = pc[x]
        \/ pc[x] = "queued" /\ pc'[x] = "removed" /\ exec[x] = stop[s].exec
        \/ pc[x] = "queued" /\ pc'[x] = "admitted"
    BY <1>5, RemoveMoves
  <2> QED
    BY <1>5, <2>1 DEF Goes
<1>6. CASE \/ \E s \in Stops : StopWrite(s) \/ \E e \in Execs : StopRequest(s, e)
           \/ \E e \in Execs : TimePasses(e)
           \/ PollQuery \/ PollApply \/ BootStep \/ Restart \/ BeginShutdown \/ Drain
           \/ UNCHANGED vars
  <2>1. UNCHANGED pc
    BY <1>6 DEF StopWrite, StopRequest, TimePasses, PollQuery, PollApply, BootStep, RecoverRead,
       RequeueRead, BootDone, RecoverExecution, Restart, BeginShutdown, Drain, vars
  <2> QED
    BY <2>1 DEF Goes
<1>7. CASE Die
  BY <1>7 DEF Die, Goes
<1> QED
  BY <1>1, <1>2, <1>3, <1>4, <1>5, <1>6, <1>7, StepCases

(* The execution of a call is chosen once. *)
LEMMA ExecStays ==
  ASSUME IInv, [Next]_vars, NEW x \in Calls
  PROVE  \/ exec'[x] = exec[x]
         \/ pc[x] = "idle" /\ pc'[x] \in {"fetch", "admit"} /\ exec'[x] \in Execs
<1>0. pc \in [Calls -> CallPCs] /\ exec \in [Calls -> Execs \cup {None}]
  BY DEF IInv, TypeOK
<1>1. ASSUME NEW c \in Calls, Start(c)
      PROVE  \/ exec'[x] = exec[x]
             \/ pc[x] = "idle" /\ pc'[x] \in {"fetch", "admit"} /\ exec'[x] \in Execs
  BY <1>0, <1>1 DEF Start, NewExecution, TimerFires, WebhookResume, RequeueExecution, RunExisting
<1>2. CASE ~\E c \in Calls : Start(c)
  BY <1>2 DEF Next, CallStep, StopStep, WriteFails, TimeOut, Throttle, MarkRunning, Register, Deny,
     BeginRun, Launch, Finish, Save, SaveCancel, OrphanEnds, Settle, Fetch, StopQueued, StopActive,
     StopWrite, StopRequest, TimePasses, PollQuery, PollApply, BootStep, RecoverRead, RequeueRead,
     BootDone, RecoverExecution, Crash, Restart, BeginShutdown, Drain, Exit, Die, vars, callVars
<1> QED
  BY <1>1, <1>2

LEMMA IdleStep == IInv /\ IdleInv /\ [Next]_vars => IdleInv'
<1> SUFFICES ASSUME IInv, IdleInv, [Next]_vars, NEW x \in Calls, pc'[x] = "idle"
             PROVE  exec'[x] = None
  BY DEF IdleInv
<1>1. pc[x] = "idle"
  BY Moves DEF Goes, Written
<1> QED
  BY <1>1, ExecStays DEF IdleInv

-----------------------------------------------------------------------------
(* Rows *)

(* A row is `new` only from its creation to the first other write. *)
LEMMA NewOnce ==
  ASSUME IInv, [Next]_vars, NEW e \in Execs
  PROVE  \/ db'[e].status \notin {"none", "new"}
         \/ db'[e] = db[e]
         \/ db'[e].status = db[e].status
         \/ db[e].status = "none" /\ \E c \in Calls : NewExecution(c, e)
<1>0. /\ db \in [Execs -> [status : Statuses, waitTill : WaitTills]]
      /\ \A c \in Calls : outcome[c] \notin {"none", "new"}
      /\ \A o \in Outcomes : o \notin {"none", "new"}
  BY ConstantsAssumption DEF IInv, TypeOK
<1>1. ASSUME NEW c \in Calls, MarkRunning(c) \/ Deny(c) \/ BeginRun(c)
      PROVE  db'[e].status \notin {"none", "new"} \/ db'[e] = db[e]
  BY <1>0, <1>1 DEF MarkRunning, Deny, BeginRun, SetStatus
<1>2. ASSUME NEW c \in Calls, Save(c) \/ SaveCancel(c) \/ OrphanEnds(c)
      PROVE  db'[e].status \notin {"none", "new"} \/ db'[e] = db[e]
  <2>1. \E f, o : /\ o \notin {"none", "new"}
                  /\ db' = SavedRow(f, o)
    BY <1>0, <1>2 DEF Save, SaveCancel, OrphanEnds
  <2> QED
    BY <1>0, <2>1 DEF SavedRow
<1>3. ASSUME NEW c \in Calls, Start(c)
      PROVE  \/ db'[e] = db[e]
             \/ db[e].status = "none" /\ NewExecution(c, e)
  <2>1. PICK f \in Execs : \/ NewExecution(c, f) \/ TimerFires(c, f)
                           \/ WebhookResume(c, f) \/ RequeueExecution(c, f)
    BY <1>3 DEF Start
  <2>2. CASE NewExecution(c, f)
    BY <1>0, <2>2 DEF NewExecution, SetStatus
  <2>3. CASE TimerFires(c, f) \/ WebhookResume(c, f) \/ RequeueExecution(c, f)
    BY <2>3 DEF TimerFires, WebhookResume, RequeueExecution
  <2> QED
    BY <2>1, <2>2, <2>3
<1>4. ASSUME NEW s \in Stops, StopWrite(s)
      PROVE  db'[e].status \notin {"none", "new"} \/ db'[e] = db[e]
  BY <1>0, <1>4 DEF StopWrite, SetStatus
<1>5. ASSUME NEW f \in Execs, TimePasses(f)
      PROVE  db'[e].status = db[e].status
  BY <1>0, <1>5 DEF TimePasses
<1>6. ASSUME NEW f \in Execs, RecoverExecution(f)
      PROVE  db'[e].status \notin {"none", "new"} \/ db'[e] = db[e]
  BY <1>0, <1>6 DEF RecoverExecution, SetStatus
<1>7. CASE \/ \E c \in Calls : \/ Register(c) \/ Launch(c) \/ Finish(c) \/ Fetch(c) \/ WriteFails(c)
                               \/ Throttle(c) \/ Settle(c) \/ TimeOut(c)
           \/ \E s \in Stops : StopQueued(s) \/ StopActive(s) \/ \E f \in Execs : StopRequest(s, f)
           \/ PollQuery \/ PollApply \/ RecoverRead \/ RequeueRead \/ BootDone
           \/ Restart \/ BeginShutdown \/ Drain \/ Die \/ UNCHANGED vars
  BY <1>7 DEF Register, Launch, Finish, Fetch, WriteFails, Throttle, Settle, TimeOut, StopQueued,
     StopActive, StopRequest, PollQuery, PollApply, RecoverRead, RequeueRead, BootDone, Restart,
     BeginShutdown, Drain, Die, vars
<1> QED
  BY <1>1, <1>2, <1>3, <1>4, <1>5, <1>6, <1>7, StepCases DEF PlainStep, BootStep

LEMMA RowStep == IInv /\ RowInv /\ [Next]_vars => RowInv'
<1> SUFFICES ASSUME IInv, RowInv, [Next]_vars, NEW x \in Calls, pc'[x] \in Written
             PROVE  db'[exec'[x]].status \notin {"none", "new"}
  BY DEF RowInv
<1>1. pc[x] \in Written \/ (pc[x] = "admitted" /\ MarkRunning(x))
                        \/ (pc[x] = "fetch" /\ db[exec[x]].status = "success")
  BY Moves DEF Goes, Written
<1>2. exec'[x] = exec[x] /\ exec[x] \in Execs
  BY <1>1, ExecStays DEF Written, IInv, GateInv, CallsInv
<1>3. CASE MarkRunning(x)
  BY <1>2, <1>3 DEF MarkRunning, IInv, TypeOK
<1>4. CASE db[exec[x]].status \notin {"none", "new"}
  BY <1>2, <1>4, NewOnce
<1> QED
  BY <1>1, <1>2, <1>3, <1>4 DEF RowInv

-----------------------------------------------------------------------------
(* Owners *)

(* A stop that is about to write stays so until it writes. *)
LEMMA StopStays ==
  ASSUME IInv, [Next]_vars, NEW s \in Stops, stop[s].pc = "before"
  PROVE  \/ stop'[s] = stop[s]
         \/ phase' = "down"
         \/ stop[s].exec \in Execs /\ db'[stop[s].exec].status = "canceled"
<1>0. /\ stop \in [Stops -> [pc : {"idle", "read", "before", "during", "done"},
                             exec : Execs \cup {None}]]
      /\ db \in [Execs -> [status : Statuses, waitTill : WaitTills]]
      /\ stop[s].exec \in Execs
  BY DEF IInv, TypeOK, StopsInv
<1>1. ASSUME NEW r \in Stops, \/ StopQueued(r) \/ StopActive(r)
                              \/ \E e \in Execs : StopRequest(r, e)
      PROVE  stop'[s] = stop[s]
  BY <1>0, <1>1 DEF StopQueued, StopActive, StopRequest
<1>2. ASSUME NEW r \in Stops, StopWrite(r)
      PROVE  stop'[s] = stop[s] \/ db'[stop[s].exec].status = "canceled"
  BY <1>0, <1>2 DEF StopWrite, SetStatus
<1>3. CASE Die
  BY <1>3 DEF Die
<1>4. CASE \/ \E c \in Calls : PlainStep(c) \/ Throttle(c) \/ Start(c) \/ Settle(c) \/ TimeOut(c)
           \/ \E e \in Execs : TimePasses(e)
           \/ PollQuery \/ PollApply \/ BootStep \/ Restart \/ BeginShutdown \/ Drain
           \/ UNCHANGED vars
  BY <1>4 DEF PlainStep, Throttle, Start, Settle, TimeOut, MarkRunning, Register, Deny, BeginRun,
     Launch, Finish, Save, SaveCancel, OrphanEnds, Fetch, WriteFails, NewExecution, TimerFires,
     WebhookResume, RequeueExecution, TimePasses, PollQuery, PollApply, BootStep, RecoverRead,
     RequeueRead, BootDone, RecoverExecution, Restart, BeginShutdown, Drain, vars
<1> QED
  BY <1>0, <1>1, <1>2, <1>3, <1>4, StepCases

(* While its row is new, an execution keeps an owner as long as the process *)
(* lives: a call of it ends only after it has written the row, or leaves it *)
(* to the stop that removed it.                                             *)
LEMMA OwnedStays ==
  ASSUME IInv, IdleInv, RowInv, [Next]_vars, phase' # "down",
         NEW e \in Execs, Owned(e), db[e].status = "new", db'[e].status = "new"
  PROVE  Owned(e)'
<1>1. ASSUME NEW x \in Calls, exec[x] = e, x \in Live \/ pc[x] = "failed"
      PROVE  Owned(e)'
  <2>0. pc[x] # "idle" /\ pc[x] \notin Written /\ pc \in [Calls -> CallPCs]
    BY <1>1 DEF Live, RowInv, IInv, TypeOK
  <2>1. exec'[x] = e
    BY <1>1, <2>0, ExecStays
  <2>2. CASE pc'[x] \in {"fetch", "admit", "queued", "admitted", "marked", "failed"}
    BY <2>1, <2>2 DEF Owned, Live
  <2>3. CASE pc'[x] = "removed" /\ \E s \in Stops : StopQueued(s) /\ stop[s].exec = exec[x]
    <3>1. PICK s \in Stops : StopQueued(s) /\ stop[s].exec = e
      BY <1>1, <2>3
    <3>2. stop'[s].pc = "before" /\ stop'[s].exec = e
      BY <3>1 DEF StopQueued, IInv, TypeOK
    <3> QED
      BY <3>2 DEF Owned
  <2>4. CASE pc'[x] = pc[x]
    BY <1>1, <2>1, <2>4 DEF Owned, Live
  <2> QED
    BY <1>1, <2>0, <2>2, <2>3, <2>4, Moves DEF Goes
<1>2. ASSUME NEW s \in Stops, stop[s].exec = e, stop[s].pc = "before"
      PROVE  Owned(e)'
  BY <1>2, StopStays DEF Owned
<1> QED
  BY <1>1, <1>2 DEF Owned

(* How the phase and the rows read at boot go on. *)
LEMMA BootMoves ==
  ASSUME IInv, [Next]_vars, phase' \in {"requeue", "up"}
  PROVE  \/ phase' = "requeue" /\ boot' = {e \in Execs : db[e].status = "new"} /\ UNCHANGED db
         \/ phase = "requeue" /\ phase' = "up" /\ boot = {} /\ boot' = {}
         \/ phase' = phase /\ boot' = boot
         \/ /\ phase' = phase /\ phase = "requeue"
            /\ \E c \in Calls, e \in Execs : /\ pc[c] = "idle" /\ exec'[c] = e /\ pc'[c] = "admit"
                                            /\ boot' = boot \ {e}
<1>1. ASSUME NEW c \in Calls, Start(c)
      PROVE  \/ phase' = phase /\ boot' = boot
             \/ /\ phase' = phase /\ phase = "requeue"
                /\ \E e \in Execs : /\ pc[c] = "idle" /\ exec'[c] = e /\ pc'[c] = "admit"
                                    /\ boot' = boot \ {e}
  <2>1. PICK e \in Execs : \/ NewExecution(c, e) \/ TimerFires(c, e)
                           \/ WebhookResume(c, e) \/ RequeueExecution(c, e)
    BY <1>1 DEF Start
  <2>2. CASE RequeueExecution(c, e)
    BY <2>2 DEF RequeueExecution, RunExisting, IInv, TypeOK
  <2>3. CASE NewExecution(c, e) \/ TimerFires(c, e) \/ WebhookResume(c, e)
    BY <2>3 DEF NewExecution, TimerFires, WebhookResume, processVars
  <2> QED
    BY <2>1, <2>2, <2>3
<1>2. CASE \/ \E c \in Calls : PlainStep(c) \/ Throttle(c) \/ Settle(c) \/ TimeOut(c)
           \/ \E s \in Stops : \/ StopQueued(s) \/ StopActive(s) \/ StopWrite(s)
                               \/ \E e \in Execs : StopRequest(s, e)
           \/ \E e \in Execs : TimePasses(e)
           \/ PollQuery \/ PollApply \/ UNCHANGED vars
  BY <1>2 DEF PlainStep, Throttle, Settle, TimeOut, MarkRunning, Register, Deny, BeginRun,
     Launch, Finish, Save, SaveCancel, OrphanEnds, Fetch, WriteFails, StopQueued, StopActive,
     StopWrite, StopRequest, TimePasses, PollQuery, PollApply, processVars, vars
<1>3. CASE \/ BootStep \/ Restart \/ BeginShutdown \/ Drain \/ Die
  BY <1>3 DEF BootStep, RecoverRead, RequeueRead, BootDone, RecoverExecution, Restart,
     BeginShutdown, Drain, Die
<1> QED
  BY <1>1, <1>2, <1>3, StepCases

LEMMA OwnerStep == IInv /\ IdleInv /\ RowInv /\ OwnerInv /\ [Next]_vars => OwnerInv'
<1> SUFFICES ASSUME IInv, IdleInv, RowInv, OwnerInv, [Next]_vars, phase' \in {"requeue", "up"}
             PROVE  /\ \A e \in Execs : db'[e].status = "new" => e \in boot' \/ Owned(e)'
                    /\ phase' = "up" => boot' = {}
  BY DEF OwnerInv
<1>1. phase' = "up" => boot' = {}
  BY BootMoves DEF OwnerInv
<1>2. ASSUME NEW e \in Execs, db'[e].status = "new" PROVE e \in boot' \/ Owned(e)'
  <2>1. ASSUME NEW c \in Calls, NewExecution(c, e) PROVE Owned(e)'
    <3>1. exec'[c] = e /\ pc'[c] = "admit"
      BY <2>1 DEF NewExecution, IInv, TypeOK
    <3> QED
      BY <3>1 DEF Owned, Live
  <2>2. CASE db[e].status = "new"
    <3>1. CASE phase' = "requeue" /\ boot' = {f \in Execs : db[f].status = "new"} /\ UNCHANGED db
      BY <2>2, <3>1
    <3>2. CASE phase \in {"requeue", "up"} /\ Owned(e)
      BY <1>2, <2>2, <3>2, OwnedStays
    <3>3. CASE phase \in {"requeue", "up"} /\ e \in boot
      <4>1. CASE boot' = boot \/ boot = {}
        BY <3>3, <4>1
      <4>2. ASSUME NEW c \in Calls, NEW f \in Execs, exec'[c] = f, pc'[c] = "admit",
                   boot' = boot \ {f}
            PROVE  e \in boot' \/ Owned(e)'
        <5>1. CASE f = e
          BY <4>2, <5>1 DEF Owned, Live
        <5>2. CASE f # e
          BY <3>3, <4>2, <5>2
        <5> QED
          BY <5>1, <5>2
      <4> QED
        BY <3>1, <3>3, <4>1, <4>2, BootMoves
    <3> QED
      BY <2>2, <3>1, <3>2, <3>3, BootMoves DEF OwnerInv
  <2> QED
    BY <1>2, <2>1, <2>2, NewOnce
<1> QED
  BY <1>1, <1>2

-----------------------------------------------------------------------------
(* Units held *)

(* What HoldInv says of one call. *)
WillRelease(c) ==
  \/ pc[c] \in {"admitted", "marked", "failed"}
  \/ ~AloneOn(c)
  \/ active[exec[c]] = c /\ c \in Live /\ pc[c] # "orphan"

(* Two calls that share an execution go on sharing it. *)
LEMMA SharedStays ==
  ASSUME IInv, IdleInv, [Next]_vars, NEW c \in Calls, pc[c] # "idle", ~AloneOn(c)
  PROVE  ~AloneOn(c)'
<1>1. PICK d \in Calls \ {c} : exec[d] = exec[c]
  BY DEF AloneOn
<1>2. exec[c] \in Execs /\ exec[c] # None
  BY ConstantsAssumption DEF IInv, GateInv, CallsInv
<1>3. pc[d] # "idle"
  BY <1>1, <1>2 DEF IdleInv
<1>4. exec'[c] = exec[c] /\ exec'[d] = exec[d]
  BY <1>1, <1>3, ExecStays
<1> QED
  BY <1>1, <1>4 DEF AloneOn

(* A step that leaves the call, its unit and its entry alone. *)
LEMMA HoldFrame ==
  ASSUME IInv, IdleInv, [Next]_vars, NEW c \in Calls, pc[c] # "idle", WillRelease(c),
         pc'[c] = pc[c], active'[exec[c]] = active[exec[c]] \/ ~AloneOn(c)
  PROVE  WillRelease(c)'
<1>1. exec'[c] = exec[c]
  BY ExecStays
<1> QED
  BY <1>1, SharedStays DEF WillRelease, Live

(* A holder takes a step of its own. *)
LEMMA HoldPlain ==
  ASSUME IInv, IdleInv, NEW x \in Calls, PlainStep(x), [Next]_vars,
         NEW c \in Calls, slot[c] # Unlimited, WillRelease(c)
  PROVE  WillRelease(c)'
<1>0. /\ pc \in [Calls -> CallPCs] /\ active \in [Execs -> Calls \cup {None}]
      /\ pc[c] \notin Early /\ exec[c] \in Execs /\ None \notin Calls
      /\ pc[c] # "idle"
  BY ConstantsAssumption DEF IInv, TypeOK, GateInv, CallsInv, Early
<1>1. exec'[c] = exec[c]
  BY <1>0, ExecStays
<1>2. CASE Register(x)
  <2>0. /\ pc[x] = "marked" /\ pc' = [pc EXCEPT ![x] = "registered"]
        /\ active' = [active EXCEPT ![exec[x]] = x]
    BY <1>2 DEF Register
  <2>1. CASE x = c
    BY <1>0, <1>1, <2>0, <2>1 DEF WillRelease, Live
  <2>2. CASE x # c
    <3>1. pc'[c] = pc[c] /\ (active'[exec[c]] = active[exec[c]] \/ ~AloneOn(c))
      BY <1>0, <2>0, <2>2 DEF AloneOn
    <3> QED
      BY <1>0, <3>1, HoldFrame
  <2> QED
    BY <2>1, <2>2
<1>3. CASE ~Register(x) /\ (x # c \/ SaveCancel(x))
  <2>1. active' = active /\ pc'[c] = pc[c]
    BY <1>0, <1>3 DEF PlainStep, MarkRunning, Deny, BeginRun, Launch, Finish, Save, SaveCancel,
       OrphanEnds, Fetch, WriteFails, activeVars
  <2> QED
    BY <1>0, <2>1, HoldFrame
<1>4. CASE x = c /\ (MarkRunning(c) \/ WriteFails(c))
  BY <1>0, <1>4 DEF MarkRunning, WriteFails, WillRelease
<1>5. CASE x = c /\ (Deny(c) \/ BeginRun(c) \/ Launch(c) \/ Finish(c) \/ Save(c) \/ OrphanEnds(c))
  <2>1. /\ pc[c] \in {"registered", "launch", "running", "saving", "orphan"}
        /\ active' = active
        /\ \/ pc[c] = "orphan"
           \/ pc'[c] \in {"denied", "launch", "running", "saving", "settle"}
           \/ active[exec[c]] = None
    BY <1>0, <1>5 DEF Deny, BeginRun, Launch, Finish, Save, OrphanEnds, activeVars
  <2>2. CASE ~AloneOn(c)
    BY <1>0, <2>2, SharedStays DEF WillRelease
  <2>3. CASE AloneOn(c)
    BY <1>0, <1>1, <2>1, <2>3 DEF WillRelease, Live
  <2> QED
    BY <2>2, <2>3
<1>6. CASE x = c /\ Fetch(c)
  BY <1>0, <1>6 DEF Fetch, Early
<1> QED
  BY <1>2, <1>3, <1>4, <1>5, <1>6 DEF PlainStep

LEMMA HoldStep == IInv /\ IdleInv /\ HoldInv /\ [Next]_vars => HoldInv'
<1> SUFFICES ASSUME IInv, IdleInv, HoldInv, [Next]_vars, enabled',
                    NEW c \in Calls, slot'[c] # Unlimited
             PROVE  WillRelease(c)'
  BY DEF HoldInv, WillRelease
<1>0. /\ pc \in [Calls -> CallPCs] /\ active \in [Execs -> Calls \cup {None}]
      /\ slot \in [Calls -> Lanes] /\ None \notin Calls
  BY ConstantsAssumption DEF IInv, TypeOK
<1>1. CASE Die
  BY <1>1 DEF Die
<1>2. CASE ~Die
  <2>0. enabled
    BY <1>2 DEF Next, CallStep, Start, StopStep, WriteFails, TimeOut, Throttle, MarkRunning, Register,
       Deny, BeginRun, Launch, Finish, Save, SaveCancel, OrphanEnds, Settle, Fetch, NewExecution,
       TimerFires, WebhookResume, RequeueExecution, StopQueued, StopActive, StopWrite, StopRequest,
       TimePasses, PollQuery, PollApply, BootStep, RecoverRead, RequeueRead, BootDone,
       RecoverExecution, Crash, Restart, BeginShutdown, Drain, Exit, vars, gateVars
  <2>1. slot[c] # Unlimited =>
          pc[c] \notin Early /\ pc[c] # "idle" /\ exec[c] \in Execs /\ WillRelease(c)
    BY <2>0 DEF IInv, GateInv, CallsInv, Early, HoldInv, WillRelease
  <2>2. ASSUME NEW x \in Calls, PlainStep(x) PROVE WillRelease(c)'
    <3>1. slot' = slot
      BY <2>2 DEF PlainStep, MarkRunning, Register, Deny, BeginRun, Launch, Finish, Save, SaveCancel,
         OrphanEnds, Fetch, WriteFails, gateVars
    <3> QED
      BY <2>1, <2>2, <3>1, HoldPlain
  <2>3. ASSUME NEW x \in Calls, Throttle(x) PROVE WillRelease(c)'
    <3>1. pc'[c] = "admitted" \/ (slot'[c] = slot[c] /\ (pc'[c] = pc[c] \/ pc[c] = "admit"))
      BY <1>0, <2>3 DEF Throttle
    <3>2. active' = active
      BY <2>3 DEF Throttle, activeVars
    <3>3. CASE pc'[c] = "admitted"
      BY <3>3 DEF WillRelease
    <3>4. CASE slot'[c] = slot[c] /\ pc'[c] = pc[c]
      BY <2>1, <3>2, <3>4, HoldFrame
    <3> QED
      BY <2>1, <3>1, <3>3, <3>4 DEF Early
  <2>4. ASSUME NEW x \in Calls, Start(x) PROVE WillRelease(c)'
    <3>1. slot' = slot /\ active' = active
      BY <2>4 DEF Start, NewExecution, TimerFires, WebhookResume, RequeueExecution, gateVars, activeVars
    <3>2. pc[c] # "idle" => pc'[c] = pc[c]
      BY <1>0, <2>4 DEF Start, NewExecution, TimerFires, WebhookResume, RequeueExecution, RunExisting
    <3> QED
      BY <2>1, <3>1, <3>2, HoldFrame
  <2>5. ASSUME NEW e \in Execs, NEW moved \in SUBSET Calls, Settles(e, moved) PROVE WillRelease(c)'
    <3>1. /\ SettlePromise(e, moved, "done") /\ active' = [active EXCEPT ![e] = None]
          /\ \A m \in moved : pc[m] \in {"settle", "denied"} /\ exec[m] = e
      BY <2>5 DEF Settles, SettlePromise, Settle
    <3>2. CASE pc'[c] = "admitted"
      BY <3>2 DEF WillRelease
    <3>3. CASE /\ pc'[c] = (IF c \in moved THEN "done" ELSE pc[c])
               /\ slot'[c] = IF c = active[e] /\ enabled THEN Unlimited ELSE slot[c]
      <4>1. c # active[e] /\ slot[c] # Unlimited
        BY <2>0, <3>3
      <4>2. CASE ~AloneOn(c)
        BY <2>1, <4>1, <4>2, SharedStays DEF WillRelease
      <4>3. CASE AloneOn(c)
        <5>1. pc[c] \in {"admitted", "marked", "failed"} \/ exec[c] # e
          BY <2>1, <4>1, <4>3 DEF WillRelease
        <5>2. pc'[c] = pc[c]
          BY <3>1, <3>3, <5>1
        <5>3. CASE pc[c] \in {"admitted", "marked", "failed"}
          BY <5>2, <5>3 DEF WillRelease
        <5>4. CASE exec[c] # e
          BY <1>0, <2>1, <3>1, <4>1, <5>2, <5>4, HoldFrame
        <5> QED
          BY <5>1, <5>3, <5>4
      <4> QED
        BY <4>2, <4>3
    <3> QED
      BY <3>1, <3>2, <3>3, SettleMoves
  <2>6. ASSUME NEW x \in Calls, pc[x] \in {"settle", "denied"}, active[exec[x]] = None,
               pc' = [pc EXCEPT ![x] = "done"], UNCHANGED <<queues, slot, active>>
        PROVE  WillRelease(c)'
    <3>1. CASE x = c
      <4>1. ~AloneOn(c)
        BY <1>0, <2>1, <2>6, <3>1 DEF WillRelease
      <4> QED
        BY <2>1, <2>6, <4>1, SharedStays DEF WillRelease
    <3>2. CASE x # c
      BY <1>0, <2>1, <2>6, <3>2, HoldFrame
    <3> QED
      BY <3>1, <3>2
  <2>7. CASE UNCHANGED <<pc, slot, active>>
    BY <2>1, <2>7, HoldFrame
  <2>8. CASE \/ \E x \in Calls : Settle(x) \/ TimeOut(x)
             \/ \E s \in Stops : StopActive(s)
    BY <2>5, <2>6, <2>7, <2>8, SettlesCases
  <2>9. ASSUME NEW s \in Stops, StopQueued(s) PROVE WillRelease(c)'
    <3>1. active' = active
      BY <2>9 DEF StopQueued, activeVars
    <3>2. CASE pc'[c] = "admitted"
      BY <3>2 DEF WillRelease
    <3>3. CASE pc'[c] = pc[c] /\ slot'[c] = slot[c]
      BY <2>1, <3>1, <3>3, HoldFrame
    <3>4. CASE pc[c] = "queued" /\ slot'[c] = slot[c]
      BY <2>1, <3>4 DEF Early
    <3> QED
      BY <2>9, <3>2, <3>3, <3>4, RemoveMoves
  <2>10. CASE \/ \E s \in Stops : StopWrite(s) \/ \E e \in Execs : StopRequest(s, e)
              \/ \E e \in Execs : TimePasses(e)
              \/ PollQuery \/ PollApply \/ BootStep \/ Restart \/ BeginShutdown \/ Drain
              \/ UNCHANGED vars
    <3>1. UNCHANGED <<pc, slot, active>>
      BY <2>10 DEF StopWrite, StopRequest, TimePasses, PollQuery, PollApply, BootStep, RecoverRead,
         RequeueRead, BootDone, RecoverExecution, Restart, BeginShutdown, Drain, vars, gateVars, activeVars
    <3> QED
      BY <2>7, <3>1
  <2> QED
    BY <1>2, <2>2, <2>3, <2>4, <2>8, <2>9, <2>10, StepCases
<1> QED
  BY <1>1, <1>2

-----------------------------------------------------------------------------
(* The drain *)

LEMMA DrainStep == IInv /\ DrainInv /\ [Next]_vars => DrainInv'
<1> SUFFICES ASSUME IInv, DrainInv, [Next]_vars, phase' = "draining" PROVE ~enabled'
  BY DEF DrainInv
<1>1. CASE Drain
  BY <1>1 DEF Drain
<1>2. CASE ~Drain
  <2>1. phase' = phase /\ enabled' = enabled
    BY <1>2 DEF Next, CallStep, Start, StopStep, WriteFails, TimeOut, Throttle, MarkRunning, Register,
       Deny, BeginRun, Launch, Finish, Save, SaveCancel, OrphanEnds, Settle, Fetch, NewExecution,
       TimerFires, WebhookResume, RequeueExecution, StopQueued, StopActive, StopWrite, StopRequest,
       TimePasses, PollQuery, PollApply, BootStep, RecoverRead, RequeueRead, BootDone,
       RecoverExecution, Crash, Restart, BeginShutdown, Exit, Die, vars, gateVars, processVars
  <2> QED
    BY <2>1 DEF DrainInv
<1> QED
  BY <1>1, <1>2

-----------------------------------------------------------------------------
(* The theorems *)

LEMMA LifeInit == Init => LifeInv
<1> SUFFICES ASSUME Init PROVE LifeInv
  OBVIOUS
<1>1. IInv
  BY InvInit
<1>2. IdleInv /\ RowInv /\ OwnerInv /\ HoldInv /\ DrainInv
  BY DEF Init, IdleInv, RowInv, OwnerInv, HoldInv, DrainInv, Written
<1> QED
  BY <1>1, <1>2 DEF LifeInv

(* The inductive invariant: besides IInv, what has become of the row, of the *)
(* unit and of the entry of every call.                                      *)
THEOREM LifeInvariant == Spec => []LifeInv
<1>1. LifeInv /\ [Next]_vars => LifeInv'
  <2>1. IInv /\ [Next]_vars => IInv'
    BY TypeStep, GateStep, StopsStep DEF IInv
  <2> QED
    BY <2>1, IdleStep, RowStep, OwnerStep, HoldStep, DrainStep DEF LifeInv
<1> QED
  BY LifeInit, <1>1, PTL DEF Spec

(* A call that ends gives its unit back, whoever ends it and in whatever     *)
(* order stops, timeouts and settlements come: the exceptions are a failed   *)
(* write and an execution that two calls run.                                *)
THEOREM NothingLeaks == Spec => []NoLeak
<1>1. LifeInv => NoLeak
  <2> SUFFICES ASSUME LifeInv, enabled, NEW t \in QueueTypes, NEW c \in Leaked(t)
               PROVE  pc[c] = "failed" \/ ~AloneOn(c)
    BY DEF NoLeak
  <2>1. c \in Calls /\ slot[c] # Unlimited /\ c \notin Live
    BY ConstantsAssumption DEF Leaked, Holders
  <2>2. c \in Live \/ pc[c] = "failed" \/ ~AloneOn(c)
    BY <2>1 DEF LifeInv, HoldInv, Live
  <2> QED
    BY <2>1, <2>2
<1> QED
  BY LifeInvariant, <1>1, PTL

(* An execution that was enqueued and not started when the process ended is  *)
(* run again: after the boot no row is `new` without an owner.               *)
THEOREM NothingForgotten == Spec => []NewIsOwned
<1>1. LifeInv => NewIsOwned
  BY DEF LifeInv, OwnerInv, NewIsOwned, Owned
<1> QED
  BY LifeInvariant, <1>1, PTL

(* A blocked call is let go only while the control is enabled, and then it   *)
(* is the first of its lane, or the second when the first is being removed.  *)
LEMMA LetGo ==
  ASSUME IInv, [Next]_vars, NEW x \in Calls, pc[x] = "queued", pc'[x] = "admitted"
  PROVE  /\ enabled /\ lane[x] \in QueueTypes
         /\ LET items == queues[lane[x]].items IN
            \/ x = items[1]
            \/ 2 \in 1 .. Len(items) /\ x = items[2] /\ pc'[items[1]] = "removed"
<1>0. pc \in [Calls -> CallPCs]
  BY DEF IInv, TypeOK
<1>1. ASSUME NEW e \in Execs, NEW moved \in SUBSET Calls, Settles(e, moved)
      PROVE  enabled /\ lane[x] \in QueueTypes /\ x = queues[lane[x]].items[1]
  <2>1. SettlePromise(e, moved, "done")
    BY <1>1 DEF Settles
  <2> QED
    BY <2>1, SettleMoves
<1>2. CASE \/ \E c \in Calls : Settle(c) \/ TimeOut(c)
           \/ \E s \in Stops : StopActive(s)
  BY <1>0, <1>1, <1>2, SettlesCases
<1>3. CASE \E s \in Stops : StopQueued(s)
  BY <1>3, RemoveMoves
<1>4. CASE \E c \in Calls : PlainStep(c) \/ Throttle(c) \/ Start(c)
  <2>1. pc'[x] = pc[x]
    BY <1>0, <1>4 DEF PlainStep, Throttle, Start, MarkRunning, Register, Deny, BeginRun,
       Launch, Finish, Save, SaveCancel, OrphanEnds, Fetch, WriteFails, NewExecution, TimerFires,
       WebhookResume, RequeueExecution, RunExisting
  <2> QED
    BY <2>1
<1>5. CASE \/ \E s \in Stops : StopWrite(s) \/ \E e \in Execs : StopRequest(s, e)
           \/ \E e \in Execs : TimePasses(e)
           \/ PollQuery \/ PollApply \/ BootStep \/ Restart \/ BeginShutdown \/ Drain
           \/ UNCHANGED vars
  BY <1>5 DEF StopWrite, StopRequest, TimePasses, PollQuery, PollApply, BootStep, RecoverRead,
     RequeueRead, BootDone, RecoverExecution, Restart, BeginShutdown, Drain, vars
<1>6. CASE Die
  BY <1>6 DEF Die, Live
<1> QED
  BY <1>2, <1>3, <1>4, <1>5, <1>6, StepCases

(* While the process drains, the end of a run lets nobody in: the control    *)
(* was disabled before the drain began.                                      *)
THEOREM DrainAdmitsNobody == Spec => NoAdmissionInDrain
<1>1. LifeInv /\ [Next]_vars
        => [phase = "draining" => \A c \in Calls : pc[c] = "queued" => pc'[c] # "admitted"]_vars
  BY LetGo DEF LifeInv, DrainInv
<1> QED
  BY LifeInvariant, <1>1, PTL DEF Spec, NoAdmissionInDrain

(* Slots are handed out in the order in which the calls were blocked, also   *)
(* when a stop takes a call out of the queue.                                *)
THEOREM QueueInOrder == Spec => FirstInFirstOut
<1>1. LifeInv /\ [Next]_vars
        => [Alive' => \A t \in QueueTypes : \A i, j \in 1 .. Len(queues[t].items) :
              (i < j /\ pc'[queues[t].items[j]] = "admitted")
                => pc'[queues[t].items[i]] \in {"admitted", "removed"}]_vars
  <2> SUFFICES ASSUME LifeInv, [Next]_vars, NEW t \in QueueTypes,
                      NEW i \in 1 .. Len(queues[t].items), NEW j \in 1 .. Len(queues[t].items),
                      i < j, pc'[queues[t].items[j]] = "admitted"
               PROVE  pc'[queues[t].items[i]] = "removed"
    OBVIOUS
  <2> DEFINE items == queues[t].items
  <2>1. /\ items \in Seq(Calls) /\ Len(items) \in Nat
        /\ \A k \in 1 .. Len(items) : items[k] \in Calls /\ pc[items[k]] = "queued" /\ lane[items[k]] = t
        /\ \A k, l \in 1 .. Len(items) : items[k] = items[l] => k = l
    <3>1. items \in Seq(Calls)
      BY DEF LifeInv, IInv, TypeOK
    <3>2. /\ \A k \in 1 .. Len(items) : pc[items[k]] = "queued" /\ lane[items[k]] = t
          /\ \A k, l \in 1 .. Len(items) : items[k] = items[l] => k = l
      BY DEF LifeInv, IInv, GateInv, ItemsInv
    <3> HIDE DEF items
    <3> QED
      BY <3>1, <3>2, EmptyFacts
  <2>2. \/ items[j] = items[1]
        \/ 2 \in 1 .. Len(items) /\ items[j] = items[2] /\ pc'[items[1]] = "removed"
    BY <2>1, LetGo DEF LifeInv
  <2> HIDE DEF items
  <2>3. i \in 1 .. Len(items) /\ j \in 1 .. Len(items) /\ 1 \in 1 .. Len(items) /\ j # 1
    BY <2>1 DEF items
  <2>4. j = 2 /\ pc'[items[1]] = "removed"
    BY <2>1, <2>2, <2>3
  <2>5. i = 1
    BY <2>3, <2>4
  <2> QED
    BY <2>4, <2>5 DEF items
<1> QED
  BY LifeInvariant, <1>1, PTL DEF Spec, FirstInFirstOut
=============================================================================
