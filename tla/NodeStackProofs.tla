---------------------------- MODULE NodeStackProofs ----------------------------
(***************************************************************************)
(* For every workflow, whatever its nodes, links and places: the stack and *)
(* the waiting nodes keep their form, what one run put on the stack lies   *)
(* there top left first; and with one source per input no node runs twice  *)
(* and which nodes run depends on the data alone.                          *)
(***************************************************************************)
EXTENDS NodeStack, FiniteSetTheorems, SequenceTheorems, WellFoundedInduction, TLAPS

(* The part of the state that addNodeToBeExecuted works on. *)
State == [stack |-> stack, waiting |-> waiting, order |-> order]

Items == [node : Nodes, data : UNION {Fill(n) : n \in Nodes}, by : Data \cup {None}]

(* The types of such a state. *)
StackOK(s) == s.stack \in Seq(Items) /\ \A k \in DOMAIN s.stack : s.stack[k].data \in Fill(s.stack[k].node)

WaitingOK(s) ==
  /\ s.waiting = [n \in Nodes |-> s.waiting[n]]
  /\ \A n \in Nodes :
       /\ IsFiniteSet(DOMAIN s.waiting[n])
       /\ \A i \in DOMAIN s.waiting[n] : i \in Nat /\ Partly(n, s.waiting[n][i])

OrderOK(s) ==
  /\ s.order \in Seq(Nodes)
  /\ \A i, j \in DOMAIN s.order : s.order[i] = s.order[j] => i = j
  /\ \A n \in Nodes : (\E k \in DOMAIN s.order : s.order[k] = n) <=> DOMAIN s.waiting[n] # {}

Good(s) ==
  /\ s = [stack |-> s.stack, waiting |-> s.waiting, order |-> s.order]
  /\ StackOK(s) /\ WaitingOK(s) /\ OrderOK(s)

WorkflowOK == links \in Workflows /\ rank \in Ranks /\ enough \in Demands /\ filter \in SUBSET Nodes
HistoryOK ==
  /\ ran \in [Nodes -> Nat] /\ status \in {"running", "ended", "error"}
  /\ sent \subseteq Data /\ used \in [Nodes -> SUBSET (Nat \X Data)]
TypeInv == WorkflowOK /\ Good(State) /\ HistoryOK /\ checked \in BOOLEAN

-----------------------------------------------------------------------------
(* Siblings *)

(* What the same run put on the stack is in the order of the canvas. *)
TopLeft(s) ==
  \A i, j \in DOMAIN s.stack :
    i < j /\ s.stack[i].by # None /\ s.stack[j].by # None
      /\ s.stack[i].by.node = s.stack[j].by.node /\ s.stack[i].by.run = s.stack[j].by.run
      => rank[s.stack[i].node] <= rank[s.stack[j].node]

(* What a run puts on the stack, none of it above and right of place x. *)
NoneBefore(s, n, run, x) ==
  \A i \in DOMAIN s.stack :
    s.stack[i].by # None /\ s.stack[i].by.node = n /\ s.stack[i].by.run = run => x <= rank[s.stack[i].node]

(* Only runs that are over have put nodes on the stack: counts[n] of n. *)
Past(s, counts) == \A i \in DOMAIN s.stack : s.stack[i].by # None => s.stack[i].by.run < counts[s.stack[i].by.node]

SiblingInv == TopLeft(State) /\ Past(State, ran)

-----------------------------------------------------------------------------
(* Runs *)

OnStack(s, n) == \E k \in DOMAIN s.stack : s.stack[k].node = n
Waits(s, n) == DOMAIN s.waiting[n] # {}
Active(s, n) == OnStack(s, n) \/ Waits(s, n)

(* X are the links over which data were sent. *)
Begun(X, n) == n = Start \/ \E l \in X : l.to = n

(* A node waits with the data of links in X in its only entry.  One that     *)
(* has begun and does not wait has all its data, or will never get the       *)
(* others: no node before it is active.  `busy` are the nodes whose run is   *)
(* under way, c[n] the runs of n that are over.                              *)
EntriesFlow(s, X) ==
  \A n \in Nodes : Waits(s, n) =>
    /\ DOMAIN s.waiting[n] = {0}
    /\ \A j \in DOMAIN s.waiting[n][0] : s.waiting[n][0][j] # None => \E l \in X : l.to = n /\ l.in = j

StackFlow(s) ==
  /\ \A i, j \in DOMAIN s.stack : s.stack[i].node = s.stack[j].node => i = j
  /\ \A n \in Nodes : OnStack(s, n) => ~Waits(s, n)

ActiveFlow(s, X, busy, c) ==
  \A n \in Nodes : Active(s, n) => Begun(X, n) /\ c[n] = 0 /\ n \notin busy

SettledFlow(s, X, busy) ==
  \A n \in Nodes : Begun(X, n) /\ ~Waits(s, n) =>
    Into(n) \subseteq X \/ \A p \in Ancestors(n) : ~Active(s, p) /\ p \notin busy

Flow(s, X, busy, c) ==
  EntriesFlow(s, X) /\ StackFlow(s) /\ ActiveFlow(s, X, busy, c) /\ SettledFlow(s, X, busy)

Crossed == {l \in links : [node |-> l.from, run |-> 0, out |-> l.out] \in sent}

(* Only runs that are over have sent data. *)
SentInv == \A d \in sent : d.run < ran[d.node]

(* After an error nothing runs any more, and the node is still on the stack. *)
OnceInv ==
  /\ EntriesFlow(State, Crossed) /\ StackFlow(State) /\ SettledFlow(State, Crossed, {})
  /\ status # "error" => ActiveFlow(State, Crossed, {}, ran)
  /\ \A n \in Nodes : ran[n] <= 1 /\ (ran[n] > 0 => Begun(Crossed, n))

-----------------------------------------------------------------------------
(* Data *)

(* The inputs of n for which the links in X have brought data, and the nodes *)
(* that have received theirs.                                                *)
Filled(X, n) == {l.in : l \in {k \in X : k.to = n}}
Served == {n \in Nodes \ {Start} : used[n] # {}}

(* A node that got data is active or was served, never both.  One that does  *)
(* not wait has data for all inputs, or enough of them while no node before  *)
(* it is active.  R are the nodes that were served.                          *)
EntriesFull(s, X) == \A n \in Nodes : Waits(s, n) => Filled(X, n) \subseteq HasData(s.waiting[n][0])

ItemsFull(s) == \A k \in DOMAIN s.stack : s.stack[k].node # Start => HasData(s.stack[k].data) # {}

KeptFlow(s, X, R) == \A n \in Nodes \ {Start} : Begun(X, n) => Active(s, n) \/ n \in R

ServedFlow(s, X, R) == \A n \in R : n \in Nodes \ {Start} /\ Begun(X, n) /\ ~Active(s, n)

Sufficed(s, X, busy, n) ==
  \/ Filled(X, n) = 0 .. Width(n) - 1
  \/ Filled(X, n) \in enough[n] /\ \A p \in Ancestors(n) : ~Active(s, p) /\ p \notin busy

EnoughFlow(s, X, busy, R) == \A n \in Nodes \ {Start} : OnStack(s, n) \/ n \in R => Sufficed(s, X, busy, n)

DataFlow(s, X, busy, R) ==
  EntriesFull(s, X) /\ ItemsFull(s) /\ KeptFlow(s, X, R) /\ ServedFlow(s, X, R) /\ EnoughFlow(s, X, busy, R)

(* After the look at the waiting nodes none is left that could be released.  *)
Looked(s) == s.stack = <<>> => \A i \in DOMAIN s.order : ~Releasable(s, s.order[i])

DataInv ==
  /\ filter = Nodes => DataFlow(State, Crossed, {}, Served)
  /\ checked => Looked(State)
  /\ status = "ended" => stack = <<>>

NodeStackInv == TypeInv /\ SiblingInv /\ SentInv /\ (OneSource => OnceInv /\ DataInv)

-----------------------------------------------------------------------------
(* Numbers *)

(* A set of natural numbers that is not empty has a least one. *)
LEMMA Least ==
  ASSUME NEW T \in SUBSET Nat, T # {}
  PROVE  \E n \in T : \A m \in T : n <= m
<1> DEFINE R == OpToRel(<, Nat)
<1>1. IsWellFoundedOn(R, Nat)
  BY NatLessThanWellFounded
<1>2. ASSUME NEW m \in Nat, NEW n \in Nat, m < n
      PROVE  <<m, n>> \in R
  BY <1>2 DEF OpToRel
<1> HIDE DEF R
<1>3. PICK n \in T : \A m \in T : <<m, n>> \notin R
  BY <1>1, WFMin
<1>4. ASSUME NEW m \in T
      PROVE  n <= m
  <2>1. m \in Nat /\ n \in Nat /\ ~(m < n)
    BY <1>2, <1>3
  <2> QED  BY <2>1
<1> QED  BY <1>4

(* What holds of 0, and of i + 1 when it holds of i, holds up to N. *)
LEMMA UpTo ==
  ASSUME NEW N \in Nat, NEW T, 0 \in T, \A i \in 0 .. N : i \in T /\ i < N => i + 1 \in T
  PROVE  \A i \in 0 .. N : i \in T
<1> DEFINE Bad == {i \in 0 .. N : i \notin T}
<1> SUFFICES ASSUME Bad # {}
             PROVE  FALSE
  OBVIOUS
<1>1. PICK i \in Bad : \A j \in Bad : i <= j
  <2>1. Bad \in SUBSET Nat
    OBVIOUS
  <2> HIDE DEF Bad
  <2> QED  BY <2>1, Least
<1>2. i \in 0 .. N /\ i \notin T /\ i # 0
  BY <1>1
<1>3. i - 1 \in 0 .. N /\ i - 1 < N /\ (i - 1) + 1 = i
  BY <1>2
<1>4. i - 1 \notin Bad
  BY <1>1, <1>3
<1> QED  BY <1>2, <1>3, <1>4

LEMMA MinFacts ==
  ASSUME NEW T \in SUBSET Nat, T # {}
  PROVE  Min(T) \in T /\ \A m \in T : Min(T) <= m
BY Least DEF Min

LEMMA MaxFacts ==
  ASSUME NEW T \in SUBSET Nat, T # {}, IsFiniteSet(T)
  PROVE  Max(T) \in T /\ \A m \in T : m <= Max(T)
<1> DEFINE Sizes == {n \in Nat : \E R \in SUBSET T : R # {} /\ Cardinality(R) = n
                                      /\ ~ \E x \in R : \A y \in R : y <= x}
<1>1. Sizes = {}
  <2> SUFFICES ASSUME Sizes # {}
               PROVE  FALSE
    OBVIOUS
  <2>1. PICK n \in Sizes : \A k \in Sizes : n <= k
    <3>1. Sizes \in SUBSET Nat
      OBVIOUS
    <3> HIDE DEF Sizes
    <3> QED  BY <3>1, Least
  <2>2. PICK R \in SUBSET T : R # {} /\ Cardinality(R) = n /\ ~ \E x \in R : \A y \in R : y <= x
    BY <2>1
  <2>3. PICK x \in R : TRUE
    BY <2>2
  <2>4. IsFiniteSet(R) /\ IsFiniteSet(R \ {x}) /\ Cardinality(R \ {x}) = n - 1
    BY <2>2, <2>3, FS_Subset, FS_RemoveElement
  <2>5. n \in Nat /\ Cardinality(R \ {x}) \in Nat
    BY <2>1, <2>4, FS_CardinalityType
  <2>6. \E z \in R : \A y \in R \ {x} : y <= z
    <3>1. CASE R \ {x} = {}
      BY <3>1, <2>3
    <3>2. CASE R \ {x} # {}
      <4>1. n - 1 \notin Sizes
        BY <2>1, <2>5
      <4>2. R \ {x} \in SUBSET T /\ n - 1 \in Nat
        BY <2>4, <2>5
      <4> QED  BY <4>1, <4>2, <3>2, <2>4
    <3> QED  BY <3>1, <3>2
  <2>7. PICK z \in R : \A y \in R \ {x} : y <= z
    BY <2>6
  <2>8. x \in Nat /\ z \in Nat /\ \A y \in R : y \in Nat
    BY <2>3
  <2> QED  BY <2>2, <2>3, <2>7, <2>8
<1>2. Cardinality(T) \in Nat
  BY FS_CardinalityType
<1>3. \E x \in T : \A y \in T : y <= x
  BY <1>1, <1>2
<1>4. \E x \in T : \A y \in T : x >= y
  BY <1>3
<1>5. Max(T) \in T /\ \A y \in T : Max(T) >= y
  BY <1>4 DEF Max
<1> QED  BY <1>5

-----------------------------------------------------------------------------
(* The workflow *)

LEMMA LinkFacts ==
  ASSUME WorkflowOK
  PROVE  /\ IsFiniteSet(links) /\ links \subseteq [from : Nodes, out : Nat, to : Nodes \ {Start}, in : Nat]
         /\ rank \in [Nodes -> Nat] /\ \A m, n \in Nodes : rank[m] = rank[n] => m = n
BY StackAssumption DEF WorkflowOK

(* The source of a link into a node is before it, and so are those before that. *)
LEMMA BeforeFacts ==
  ASSUME WorkflowOK, NEW n \in Nodes, NEW l \in links, l.to = n \/ l.to \in Ancestors(n)
  PROVE  l.from \in Ancestors(n)
<1>1. l.from \in Nodes
  BY LinkFacts
<1>2. ASSUME NEW S \in SUBSET Nodes, \A k \in links : k.to \in S \cup {n} => k.from \in S
      PROVE  l.from \in S
  <2>1. l.to \in S \cup {n}
    BY <1>2 DEF Ancestors
  <2> QED  BY <2>1, <1>2
<1> QED  BY <1>1, <1>2 DEF Ancestors

LEMMA WidthFacts ==
  ASSUME WorkflowOK, NEW n
  PROVE  /\ Width(n) \in Nat \ {0}
         /\ \A l \in links : l.to = n => l.in \in 0 .. Width(n) - 1
         /\ \A l \in links : l.to = n /\ Width(n) = 1 => l.in = 0
<1> DEFINE T == {0} \cup Inputs(n)
<1>1. IsFiniteSet(Into(n))
  BY LinkFacts, FS_Subset DEF Into
<1>2. IsFiniteSet(Inputs(n))
  <2> DEFINE f == [l \in Into(n) |-> l.in]
  <2>1. f \in Surjection(Into(n), Inputs(n))
    BY DEF Surjection, Inputs
  <2> QED  BY <1>1, <2>1, FS_Surjection
<1>3. IsFiniteSet(T)
  BY <1>2, FS_Union, FS_Singleton
<1>4. T \in SUBSET Nat /\ T # {} /\ 0 \in T
  BY LinkFacts DEF Inputs, Into
<1>5. \A l \in links : l.to = n => l.in \in T
  BY DEF Inputs, Into
<1>6. Width(n) = Max(T) + 1
  BY DEF Width
<1> HIDE DEF T
<1>7. Max(T) \in T /\ \A m \in T : m <= Max(T)
  BY <1>3, <1>4, MaxFacts
<1>8. Max(T) \in Nat
  BY <1>4, <1>7
<1>9. \A l \in links : l.to = n => l.in \in Nat /\ l.in <= Max(T)
  BY <1>4, <1>5, <1>7
<1> QED  BY <1>6, <1>8, <1>9

-----------------------------------------------------------------------------
(* Operations *)

LEMMA FillFacts ==
  ASSUME WorkflowOK, NEW n
  PROVE  /\ NoData(n) \in Fill(n) /\ \A i \in DOMAIN NoData(n) : NoData(n)[i] = None
         /\ \A f \in Fill(n) : DOMAIN f = 0 .. Width(n) - 1 /\ \A i \in DOMAIN f : f[i] # None => f[i] \in Data
         /\ \A f \in Fill(n), i \in 0 .. Width(n) - 1, d \in Data : [f EXCEPT ![i] = d] \in Fill(n)
         /\ Width(n) = 1 => \A d \in Data : [i \in {0} |-> d] \in Fill(n)
<1>1. Width(n) \in Nat \ {0}
  BY WidthFacts
<1> QED  BY <1>1 DEF NoData, Fill

LEMMA RemoveFacts ==
  ASSUME NEW S, NEW q \in Seq(S), NEW k \in DOMAIN q, \A i, j \in DOMAIN q : q[i] = q[j] => i = j
  PROVE  /\ RemoveAt(q, k) \in Seq(S)
         /\ \A i, j \in DOMAIN RemoveAt(q, k) : RemoveAt(q, k)[i] = RemoveAt(q, k)[j] => i = j
         /\ \A x : (\E i \in DOMAIN RemoveAt(q, k) : RemoveAt(q, k)[i] = x)
                     <=> x # q[k] /\ \E i \in DOMAIN q : q[i] = x
<1> DEFINE r == RemoveAt(q, k)
<1> DEFINE a == SubSeq(q, 1, k - 1)
<1> DEFINE b == SubSeq(q, k + 1, Len(q))
<1>1. Len(q) \in Nat /\ DOMAIN q = 1 .. Len(q) /\ k \in 1 .. Len(q) /\ \A i \in 1 .. Len(q) : q[i] \in S
  BY LenProperties, ElementOfSeq
<1>2. a \in Seq(S) /\ Len(a) = k - 1 /\ \A i \in 1 .. k - 1 : a[i] = q[i]
  <2>1. \A i \in 1 .. k - 1 : q[i] \in S
    BY <1>1
  <2>2. /\ a \in Seq(S) /\ Len(a) = IF 1 <= k - 1 THEN (k - 1) - 1 + 1 ELSE 0
        /\ \A i \in 1 .. (k - 1) - 1 + 1 : a[i] = q[1 + i - 1]
    BY <1>1, <2>1, SubSeqProperties
  <2>3. \A i \in 1 .. k - 1 : i \in 1 .. (k - 1) - 1 + 1 /\ 1 + i - 1 = i
    BY <1>1
  <2>4. Len(a) = k - 1
    BY <1>1, <2>2
  <2> QED  BY <2>2, <2>3, <2>4
<1>3. b \in Seq(S) /\ Len(b) = Len(q) - k /\ \A i \in 1 .. Len(q) - k : b[i] = q[k + i]
  <2>1. \A i \in k + 1 .. Len(q) : q[i] \in S
    BY <1>1
  <2>2. k + 1 \in Int /\ Len(q) \in Int
    BY <1>1
  <2>3. /\ b \in Seq(S) /\ Len(b) = IF k + 1 <= Len(q) THEN Len(q) - (k + 1) + 1 ELSE 0
        /\ \A i \in 1 .. Len(q) - (k + 1) + 1 : b[i] = q[k + 1 + i - 1]
    BY <2>1, <2>2, SubSeqProperties
  <2>4. \A i \in 1 .. Len(q) - k : i \in 1 .. Len(q) - (k + 1) + 1 /\ k + 1 + i - 1 = k + i
    BY <1>1
  <2>5. Len(b) = Len(q) - k
    BY <1>1, <2>3
  <2> QED  BY <2>3, <2>4, <2>5
<1>4. r = a \o b
  BY DEF RemoveAt
<1> HIDE DEF a, b, r
<1>5. r \in Seq(S) /\ Len(r) = Len(q) - 1 /\ \A i \in 1 .. Len(q) - 1 : r[i] = IF i < k THEN q[i] ELSE q[i + 1]
  <2>1. /\ r \in Seq(S) /\ Len(r) = Len(a) + Len(b)
        /\ \A i \in 1 .. Len(a) + Len(b) : r[i] = IF i <= Len(a) THEN a[i] ELSE b[i - Len(a)]
    <3>1. a \in Seq(S) /\ b \in Seq(S)
      BY <1>2, <1>3
    <3> QED  BY <1>4, <3>1, ConcatProperties
  <2>2. Len(a) + Len(b) = Len(q) - 1
    BY <1>1, <1>2, <1>3
  <2>3. ASSUME NEW i \in 1 .. Len(q) - 1
        PROVE  r[i] = IF i < k THEN q[i] ELSE q[i + 1]
    <3>1. i <= Len(a) <=> i < k
      BY <1>1, <1>2
    <3>2. i < k => i \in 1 .. k - 1
      BY <1>1
    <3>3. ~(i < k) => i - Len(a) \in 1 .. Len(q) - k /\ k + (i - Len(a)) = i + 1
      BY <1>1, <1>2
    <3> QED  BY <1>2, <1>3, <2>1, <2>2, <3>1, <3>2, <3>3
  <2> QED  BY <2>1, <2>2, <2>3
<1>6. DOMAIN r = 1 .. Len(q) - 1
  BY <1>5, LenProperties
<1> DEFINE old(i) == IF i < k THEN i ELSE i + 1
<1>7. \A i \in DOMAIN r : old(i) \in DOMAIN q /\ old(i) # k /\ r[i] = q[old(i)]
  <2>1. ASSUME NEW i \in DOMAIN r
        PROVE  old(i) \in DOMAIN q /\ old(i) # k
    BY <1>1, <1>6
  <2>2. ASSUME NEW i \in DOMAIN r
        PROVE  r[i] = q[old(i)]
    BY <1>5, <1>6
  <2> QED  BY <2>1, <2>2
<1>8. \A i, j \in DOMAIN r : old(i) = old(j) => i = j
  BY <1>1, <1>6
<1> HIDE DEF old
<1>9. ASSUME NEW i \in DOMAIN r, NEW j \in DOMAIN r, r[i] = r[j]
      PROVE  i = j
  <2>1. old(i) = old(j)
    BY <1>7, <1>9
  <2> QED  BY <1>8, <2>1
<1>10. ASSUME NEW i \in DOMAIN r
       PROVE  r[i] # q[k] /\ \E j \in DOMAIN q : q[j] = r[i]
  BY <1>7
<1>11. ASSUME NEW i \in DOMAIN q, q[i] # q[k]
       PROVE  \E j \in DOMAIN r : r[j] = q[i]
  <2>1. CASE i < k
    <3>1. i \in DOMAIN r /\ r[i] = q[i]
      BY <1>1, <1>5, <1>6, <2>1
    <3> QED  BY <3>1
  <2>2. CASE i > k
    <3>1. i - 1 \in DOMAIN r /\ r[i - 1] = q[(i - 1) + 1] /\ (i - 1) + 1 = i
      BY <1>1, <1>5, <1>6, <2>2
    <3> QED  BY <3>1
  <2> QED  BY <1>1, <1>11, <2>1, <2>2
<1> QED  BY <1>5, <1>9, <1>10, <1>11 DEF r

LEMMA WithoutFacts ==
  ASSUME NEW s, Good(s), NEW n \in Nodes, NEW i, DOMAIN s.waiting[n] # {}
  PROVE  /\ Good(Without(s, n, i)) /\ Without(s, n, i).stack = s.stack
         /\ \A m \in Nodes \ {n} : Without(s, n, i).waiting[m] = s.waiting[m]
         /\ Without(s, n, i).waiting[n] = [j \in DOMAIN s.waiting[n] \ {i} |-> s.waiting[n][j]]
<1> DEFINE rest == [j \in DOMAIN s.waiting[n] \ {i} |-> s.waiting[n][j]]
<1> DEFINE at == CHOOSE k \in DOMAIN s.order : s.order[k] = n
<1> DEFINE r == Without(s, n, i)
<1>1. s = [stack |-> s.stack, waiting |-> s.waiting, order |-> s.order]
  BY DEF Good
<1>2. at \in DOMAIN s.order /\ s.order[at] = n
  BY DEF Good, OrderOK
<1>3. r = [stack |-> s.stack, waiting |-> [s.waiting EXCEPT ![n] = rest],
           order |-> IF DOMAIN rest = {} THEN RemoveAt(s.order, at) ELSE s.order]
  BY DEF Without
<1>4. r.waiting = [s.waiting EXCEPT ![n] = rest] /\ r.stack = s.stack
      /\ r.order = (IF DOMAIN rest = {} THEN RemoveAt(s.order, at) ELSE s.order)
      /\ r = [stack |-> r.stack, waiting |-> r.waiting, order |-> r.order]
  BY <1>3
<1>5. DOMAIN rest = DOMAIN s.waiting[n] \ {i} /\ \A j \in DOMAIN rest : rest[j] = s.waiting[n][j]
  OBVIOUS
<1> HIDE DEF rest, at, r
<1>6. DOMAIN s.waiting = Nodes
  BY DEF Good, WaitingOK
<1>7. r.waiting[n] = rest /\ (\A m \in Nodes \ {n} : r.waiting[m] = s.waiting[m]) /\ r.waiting = [m \in Nodes |-> r.waiting[m]]
  BY <1>4, <1>6
<1>8. WaitingOK(r)
  <2>1. IsFiniteSet(DOMAIN rest)
    BY <1>5, FS_Subset DEF Good, WaitingOK
  <2> QED  BY <1>5, <1>7, <2>1 DEF Good, WaitingOK
<1>9. OrderOK(r)
  <2>1. CASE DOMAIN rest = {}
    <3>1. r.order = RemoveAt(s.order, at)
      BY <1>4, <2>1
    <3>2. s.order \in Seq(Nodes) /\ \A j, k \in DOMAIN s.order : s.order[j] = s.order[k] => j = k
      BY DEF Good, OrderOK
    <3>3. /\ r.order \in Seq(Nodes) /\ \A j, k \in DOMAIN r.order : r.order[j] = r.order[k] => j = k
          /\ \A x : (\E k \in DOMAIN r.order : r.order[k] = x) <=> x # s.order[at] /\ \E k \in DOMAIN s.order : s.order[k] = x
      <4>1. at \in DOMAIN s.order
        BY <1>2
      <4>2. PICK q : q = s.order
        OBVIOUS
      <4>3. q \in Seq(Nodes) /\ at \in DOMAIN q /\ \A j, k \in DOMAIN q : q[j] = q[k] => j = k
        BY <3>2, <4>1, <4>2
      <4>4. /\ RemoveAt(q, at) \in Seq(Nodes)
            /\ \A j, k \in DOMAIN RemoveAt(q, at) : RemoveAt(q, at)[j] = RemoveAt(q, at)[k] => j = k
            /\ \A x : (\E k \in DOMAIN RemoveAt(q, at) : RemoveAt(q, at)[k] = x) <=> x # q[at] /\ \E k \in DOMAIN q : q[k] = x
        BY <4>3, RemoveFacts
      <4> QED  BY <3>1, <4>2, <4>4
    <3>4. ASSUME NEW m \in Nodes
          PROVE  (\E k \in DOMAIN r.order : r.order[k] = m) <=> DOMAIN r.waiting[m] # {}
      BY <1>2, <1>7, <2>1, <3>3 DEF Good, OrderOK
    <3> QED  BY <3>3, <3>4 DEF OrderOK
  <2>2. CASE DOMAIN rest # {}
    <3>1. r.order = s.order
      BY <1>4, <2>2
    <3> QED  BY <1>7, <2>2, <3>1 DEF Good, OrderOK
  <2> QED  BY <2>1, <2>2
<1>10. StackOK(r)
  BY <1>4 DEF Good, StackOK
<1>11. Good(r)
  BY <1>4, <1>8, <1>9, <1>10 DEF Good
<1> QED  BY <1>4, <1>7, <1>11 DEF rest, r

LEMMA PushFacts ==
  ASSUME NEW s, Good(s), NEW n \in Nodes, NEW data \in Fill(n), NEW by \in Data \cup {None}
  PROVE  /\ Good(Push(s, n, data, by))
         /\ Push(s, n, data, by).waiting = s.waiting /\ Push(s, n, data, by).order = s.order
         /\ Len(s.stack) \in Nat /\ DOMAIN s.stack = 1 .. Len(s.stack)
         /\ DOMAIN Push(s, n, data, by).stack = 1 .. Len(s.stack) + 1
         /\ Push(s, n, data, by).stack[1] = Item(n, data, by)
         /\ \A i \in 1 .. Len(s.stack) : Push(s, n, data, by).stack[i + 1] = s.stack[i]
<1>1. PICK x : x = Item(n, data, by)
  OBVIOUS
<1>2. PICK z : z = <<x>> \o s.stack
  OBVIOUS
<1>3. PICK r : r = Push(s, n, data, by)
  OBVIOUS
<1>4. s = [stack |-> s.stack, waiting |-> s.waiting, order |-> s.order] /\ s.stack \in Seq(Items)
  BY DEF Good, StackOK
<1>5. r = [s EXCEPT !.stack = z]
  BY <1>1, <1>2, <1>3 DEF Push
<1>6. r = [stack |-> z, waiting |-> s.waiting, order |-> s.order]
  BY <1>4, <1>5
<1>7. r.stack = z /\ r.waiting = s.waiting /\ r.order = s.order /\ r = [stack |-> r.stack, waiting |-> r.waiting, order |-> r.order]
  BY <1>6
<1>8. x.node = n /\ x.data = data /\ x.by = by /\ x \in Items
  BY <1>1 DEF Item, Items
<1>9. Len(s.stack) \in Nat /\ DOMAIN s.stack = 1 .. Len(s.stack)
  BY <1>4, LenProperties
<1>10. z \in Seq(Items) /\ Len(z) = Len(s.stack) + 1 /\ z[1] = x /\ \A i \in 1 .. Len(s.stack) : z[i + 1] = s.stack[i]
  <2>1. <<x>> \in Seq(Items) /\ Len(<<x>>) = 1 /\ <<x>>[1] = x
    BY <1>8
  <2>2. PICK y : y = <<x>>
    OBVIOUS
  <2>3. y \in Seq(Items) /\ Len(y) = 1 /\ y[1] = x /\ z = y \o s.stack
    BY <1>2, <2>1, <2>2
  <2>4. /\ z \in Seq(Items) /\ Len(z) = Len(y) + Len(s.stack)
        /\ \A i \in 1 .. Len(y) + Len(s.stack) : z[i] = IF i <= Len(y) THEN y[i] ELSE s.stack[i - Len(y)]
    BY <1>4, <2>3, ConcatProperties
  <2>5. 1 \in 1 .. Len(y) + Len(s.stack)
    BY <1>9, <2>3
  <2>6. z[1] = x
    BY <2>3, <2>4, <2>5
  <2>7. ASSUME NEW i \in 1 .. Len(s.stack)
        PROVE  z[i + 1] = s.stack[i]
    <3>1. i + 1 \in 1 .. Len(y) + Len(s.stack) /\ ~(i + 1 <= Len(y)) /\ (i + 1) - Len(y) = i
      BY <1>9, <2>3
    <3> QED  BY <2>4, <3>1
  <2> QED  BY <1>9, <2>3, <2>4, <2>6, <2>7
<1>11. DOMAIN z = 1 .. Len(s.stack) + 1
  BY <1>10, LenProperties
<1>12. StackOK(r)
  <2>1. ASSUME NEW k \in DOMAIN z
        PROVE  z[k].data \in Fill(z[k].node)
    <3>1. CASE k = 1
      BY <3>1, <1>8, <1>10
    <3>2. CASE k # 1
      <4>1. k - 1 \in DOMAIN s.stack /\ (k - 1) + 1 = k
        BY <1>9, <1>11, <3>2
      <4>2. z[k] = s.stack[k - 1]
        BY <4>1, <1>9, <1>10
      <4> QED  BY <4>1, <4>2 DEF Good, StackOK
    <3> QED  BY <3>1, <3>2
  <2> QED  BY <2>1, <1>7, <1>10 DEF StackOK
<1>13. WaitingOK(r) /\ OrderOK(r)
  BY <1>7 DEF Good, WaitingOK, OrderOK
<1>14. Good(r)
  BY <1>7, <1>12, <1>13 DEF Good
<1> QED  BY <1>1, <1>3, <1>7, <1>9, <1>10, <1>11, <1>14

(* The entry that the data of a link join: the first that lacks the input, or *)
(* a new one, numbered by the entries there are.                             *)
Joins(s, l, at, old) ==
  \/ at \in DOMAIN s.waiting[l.to] /\ s.waiting[l.to][at][l.in] = None /\ old = s.waiting[l.to][at]
  \/ /\ \A i \in DOMAIN s.waiting[l.to] : s.waiting[l.to][i][l.in] # None
     /\ at = Cardinality(DOMAIN s.waiting[l.to]) /\ old = NoData(l.to)

LEMMA EntryFacts ==
  ASSUME WorkflowOK, NEW s, Good(s), NEW l \in links
  PROVE  Joins(s, l, Entry(s, l).at, Entry(s, l).data) /\ Entry(s, l).at \in Nat /\ Entry(s, l).data \in Fill(l.to)
<1> DEFINE open == {i \in DOMAIN s.waiting[l.to] : s.waiting[l.to][i][l.in] = None}
<1>1. l.to \in Nodes /\ IsFiniteSet(DOMAIN s.waiting[l.to])
  BY LinkFacts DEF Good, WaitingOK
<1>2. DOMAIN s.waiting[l.to] \subseteq Nat /\ \A i \in DOMAIN s.waiting[l.to] : s.waiting[l.to][i] \in Fill(l.to)
  BY <1>1 DEF Good, WaitingOK, Partly
<1>3. CASE open # {}
  <2>1. Min(open) \in open
    BY <1>2, <1>3, MinFacts
  <2>2. Entry(s, l).at = Min(open) /\ Entry(s, l).data = s.waiting[l.to][Min(open)]
    BY <1>3 DEF Entry
  <2> QED  BY <1>2, <2>1, <2>2 DEF Joins
<1>4. CASE open = {}
  <2>1. Entry(s, l).at = Cardinality(DOMAIN s.waiting[l.to]) /\ Entry(s, l).data = NoData(l.to)
    BY <1>4 DEF Entry
  <2>2. Cardinality(DOMAIN s.waiting[l.to]) \in Nat /\ NoData(l.to) \in Fill(l.to)
    BY <1>1, FS_CardinalityType, FillFacts
  <2> QED  BY <1>4, <2>1, <2>2 DEF Joins
<1> QED  BY <1>3, <1>4

(* r is s with an item on top of its stack. *)
Pushed(s, r, n, data, by) ==
  /\ Len(s.stack) \in Nat /\ DOMAIN s.stack = 1 .. Len(s.stack) /\ DOMAIN r.stack = 1 .. Len(s.stack) + 1
  /\ r.stack[1] = Item(n, data, by) /\ \A i \in 1 .. Len(s.stack) : r.stack[i + 1] = s.stack[i]

(* r is s without the entry `at` of the node n. *)
Dropped(s, r, n, at) ==
  /\ \A m \in Nodes \ {n} : r.waiting[m] = s.waiting[m]
  /\ DOMAIN r.waiting[n] = DOMAIN s.waiting[n] \ {at}
  /\ \A j \in DOMAIN r.waiting[n] : r.waiting[n][j] = s.waiting[n][j]

(* r is s with the entry `at` of the node n holding these data. *)
Stored(s, r, n, at, data) ==
  /\ \A m \in Nodes \ {n} : r.waiting[m] = s.waiting[m]
  /\ DOMAIN r.waiting[n] = DOMAIN s.waiting[n] \cup {at}
  /\ r.waiting[n][at] = data
  /\ \A j \in DOMAIN s.waiting[n] \ {at} : r.waiting[n][j] = s.waiting[n][j]

(* What addNodeToBeExecuted does: the node is pushed once its data are       *)
(* complete, and its entry is kept otherwise.                                *)
Added(s, r, l, d, at, data) ==
  /\ \E old \in Fill(l.to) : Joins(s, l, at, old) /\ data = [old EXCEPT ![l.in] = d]
  /\ \/ (\A i \in DOMAIN data : data[i] # None) /\ Dropped(s, r, l.to, at) /\ Pushed(s, r, l.to, data, d)
     \/ (\E i \in DOMAIN data : data[i] = None) /\ Stored(s, r, l.to, at, data) /\ r.stack = s.stack

LEMMA StoreFacts ==
  ASSUME WorkflowOK, NEW s, Good(s), NEW n \in Nodes, NEW at \in Nat, NEW data, Partly(n, data), NEW r,
         r = LET entries == s.waiting[n]
                 joined == [j \in DOMAIN entries \cup {at} |-> IF j = at THEN data ELSE entries[j]]
             IN  [stack |-> s.stack, waiting |-> [s.waiting EXCEPT ![n] = joined],
                  order |-> IF Contains(s.order, n) THEN s.order ELSE Append(s.order, n)]
  PROVE  Good(r) /\ Stored(s, r, n, at, data) /\ r.stack = s.stack
<1> DEFINE entries == s.waiting[n]
<1> DEFINE joined == [j \in DOMAIN entries \cup {at} |-> IF j = at THEN data ELSE entries[j]]
<1>1. /\ r = [stack |-> r.stack, waiting |-> r.waiting, order |-> r.order]
      /\ r.stack = s.stack /\ r.waiting = [s.waiting EXCEPT ![n] = joined]
      /\ r.order = IF Contains(s.order, n) THEN s.order ELSE Append(s.order, n)
  OBVIOUS
<1>2. DOMAIN joined = DOMAIN entries \cup {at} /\ joined[at] = data /\ \A j \in DOMAIN entries \ {at} : joined[j] = entries[j]
  OBVIOUS
<1>3. DOMAIN s.waiting = Nodes
  BY DEF Good, WaitingOK
<1> HIDE DEF joined
<1>4. r.waiting[n] = joined /\ (\A m \in Nodes \ {n} : r.waiting[m] = s.waiting[m]) /\ r.waiting = [m \in Nodes |-> r.waiting[m]]
  BY <1>1, <1>3
<1>5. Stored(s, r, n, at, data)
  BY <1>2, <1>4 DEF Stored
<1>6. WaitingOK(r)
  <2>1. IsFiniteSet(DOMAIN joined)
    BY <1>2, FS_AddElement DEF Good, WaitingOK
  <2>2. \A i \in DOMAIN joined : i \in Nat /\ Partly(n, joined[i])
    BY <1>2 DEF Good, WaitingOK
  <2> QED  BY <1>4, <2>1, <2>2 DEF Good, WaitingOK
<1>7. OrderOK(r)
  <2>1. s.order \in Seq(Nodes) /\ DOMAIN s.order = 1 .. Len(s.order) /\ Len(s.order) \in Nat
    BY LenProperties DEF Good, OrderOK
  <2>2. Contains(s.order, n) <=> \E k \in DOMAIN s.order : s.order[k] = n
    BY <2>1 DEF Contains
  <2>3. CASE Contains(s.order, n)
    BY <1>1, <1>2, <1>4, <2>2, <2>3 DEF Good, OrderOK
  <2>4. CASE ~Contains(s.order, n)
    <3>1. PICK q : q = Append(s.order, n)
      OBVIOUS
    <3>2. q \in Seq(Nodes) /\ Len(q) = Len(s.order) + 1 /\ (\A i \in 1 .. Len(s.order) : q[i] = s.order[i]) /\ q[Len(s.order) + 1] = n
      BY <2>1, <3>1, AppendProperties
    <3>3. DOMAIN q = 1 .. Len(s.order) + 1
      BY <3>2, LenProperties
    <3>4. r.order = q
      BY <1>1, <2>4, <3>1
    <3>5. ASSUME NEW i \in DOMAIN q, NEW j \in DOMAIN q, q[i] = q[j]
          PROVE  i = j
      BY <2>1, <2>2, <2>4, <3>2, <3>3, <3>5 DEF Good, OrderOK
    <3>6. ASSUME NEW m \in Nodes
          PROVE  (\E k \in DOMAIN q : q[k] = m) <=> m = n \/ \E k \in DOMAIN s.order : s.order[k] = m
      BY <2>1, <3>2, <3>3
    <3>7. ASSUME NEW m \in Nodes
          PROVE  (\E k \in DOMAIN q : q[k] = m) <=> DOMAIN r.waiting[m] # {}
      BY <1>2, <1>4, <3>6 DEF Good, OrderOK
    <3>8. q \in Seq(Nodes)
      BY <3>2
    <3>9. /\ q \in Seq(Nodes) /\ \A i, j \in DOMAIN q : q[i] = q[j] => i = j
          /\ \A m \in Nodes : (\E k \in DOMAIN q : q[k] = m) <=> DOMAIN r.waiting[m] # {}
      BY <3>5, <3>7, <3>8
    <3>10. r.order \in Seq(Nodes)
      BY <3>4, <3>9
    <3>11. \A i, j \in DOMAIN r.order : r.order[i] = r.order[j] => i = j
      BY <3>4, <3>9
    <3>12. \A m \in Nodes : (\E k \in DOMAIN r.order : r.order[k] = m) <=> DOMAIN r.waiting[m] # {}
      BY <3>4, <3>9
    <3> QED  BY <3>10, <3>11, <3>12 DEF OrderOK
  <2> QED  BY <2>3, <2>4
<1>8. StackOK(r)
  BY <1>1 DEF Good, StackOK
<1> QED  BY <1>1, <1>5, <1>6, <1>7, <1>8 DEF Good

LEMMA AddFacts ==
  ASSUME WorkflowOK, NEW s, Good(s), NEW l \in links, NEW d \in Data
  PROVE  /\ Good(AddNodeToBeExecuted(s, l, d))
         /\ \E at \in Nat, data \in Fill(l.to) : Added(s, AddNodeToBeExecuted(s, l, d), l, d, at, data)
<1>1. l.to \in Nodes /\ Width(l.to) \in Nat \ {0} /\ l.in \in 0 .. Width(l.to) - 1 /\ (Width(l.to) = 1 => l.in = 0)
  BY LinkFacts, WidthFacts
<1>2. d # None
  BY NoneAssumption
<1>3. PICK r : r = AddNodeToBeExecuted(s, l, d)
  OBVIOUS
<1>4. CASE Width(l.to) = 1
  <2>1. PICK data : data = [i \in {0} |-> d]
    OBVIOUS
  <2>2. data \in Fill(l.to) /\ \A i \in DOMAIN data : data[i] # None
    BY <1>2, <1>4, <2>1, FillFacts
  <2>3. r = Push(s, l.to, data, d)
    BY <1>3, <1>4, <2>1 DEF AddNodeToBeExecuted
  <2>4. Good(r) /\ r.waiting = s.waiting /\ Pushed(s, r, l.to, data, d)
    BY <1>1, <2>2, <2>3, PushFacts DEF Pushed
  <2>5. DOMAIN s.waiting[l.to] = {}
    <3>1. SUFFICES ASSUME NEW i \in DOMAIN s.waiting[l.to]
                   PROVE  FALSE
      OBVIOUS
    <3>2. Partly(l.to, s.waiting[l.to][i])
      BY <1>1 DEF Good, WaitingOK
    <3>3. PICK f : f = s.waiting[l.to][i]
      OBVIOUS
    <3>4. f \in Fill(l.to) /\ HasData(f) # {} /\ \E j \in DOMAIN f : f[j] = None
      BY <3>2, <3>3 DEF Partly
    <3>5. DOMAIN f = {0}
      <4>1. DOMAIN f = 0 .. Width(l.to) - 1
        BY <3>4, FillFacts
      <4> QED  BY <4>1, <1>4
    <3> QED  BY <3>4, <3>5 DEF HasData
  <2>6. Dropped(s, r, l.to, 0)
    BY <2>4, <2>5 DEF Dropped
  <2>7. Joins(s, l, 0, NoData(l.to)) /\ NoData(l.to) \in Fill(l.to)
    BY <2>5, FS_EmptySet, FillFacts DEF Joins
  <2>8. data = [NoData(l.to) EXCEPT ![l.in] = d]
    BY <1>1, <1>4, <2>1 DEF NoData
  <2>9. Added(s, r, l, d, 0, data)
    BY <2>2, <2>4, <2>6, <2>7, <2>8 DEF Added
  <2> QED  BY <1>3, <2>2, <2>4, <2>9
<1>5. CASE Width(l.to) # 1
  <2>1. PICK at, old : at = Entry(s, l).at /\ old = Entry(s, l).data
    OBVIOUS
  <2>2. Joins(s, l, at, old) /\ at \in Nat /\ old \in Fill(l.to)
    BY <2>1, EntryFacts
  <2>3. PICK data : data = [old EXCEPT ![l.in] = d]
    OBVIOUS
  <2>4. data \in Fill(l.to) /\ DOMAIN data = 0 .. Width(l.to) - 1 /\ data[l.in] = d /\ \A j \in DOMAIN data \ {l.in} : data[j] = old[j]
    BY <1>1, <2>2, <2>3, FillFacts
  <2>5. CASE \A i \in DOMAIN data : data[i] # None
    <3>1. DOMAIN s.waiting[l.to] # {}
      <4>1. \E j \in DOMAIN data : j # l.in
        <5>1. 0 \in DOMAIN data /\ 1 \in DOMAIN data
          BY <1>1, <1>5, <2>4
        <5> QED  BY <5>1
      <4>2. old # NoData(l.to)
        <5>1. \A i \in DOMAIN NoData(l.to) : NoData(l.to)[i] = None
          BY FillFacts
        <5>2. DOMAIN NoData(l.to) = DOMAIN data
          BY <2>4 DEF NoData
        <5> QED  BY <4>1, <5>1, <5>2, <2>4, <2>5
      <4> QED  BY <4>2, <2>2 DEF Joins
    <3>2. PICK w : w = Without(s, l.to, at)
      OBVIOUS
    <3>3. r = Push(w, l.to, data, d)
      BY <1>3, <1>5, <2>1, <2>3, <2>5, <3>2 DEF AddNodeToBeExecuted
    <3>4. /\ Good(w) /\ w.stack = s.stack /\ \A m \in Nodes \ {l.to} : w.waiting[m] = s.waiting[m]
          /\ w.waiting[l.to] = [j \in DOMAIN s.waiting[l.to] \ {at} |-> s.waiting[l.to][j]]
      BY <1>1, <3>1, <3>2, WithoutFacts
    <3>5. Dropped(s, w, l.to, at)
      BY <3>4 DEF Dropped
    <3>6. Good(r) /\ r.waiting = w.waiting /\ Pushed(w, r, l.to, data, d)
      <4>1. Good(w) /\ data \in Fill(l.to) /\ d \in Data \cup {None}
        BY <2>4, <3>4
      <4> QED  BY <1>1, <3>3, <4>1, PushFacts DEF Pushed
    <3>7. Dropped(s, r, l.to, at) /\ Pushed(s, r, l.to, data, d)
      BY <3>4, <3>5, <3>6 DEF Dropped, Pushed
    <3>8. Added(s, r, l, d, at, data)
      BY <2>2, <2>3, <2>5, <3>7 DEF Added
    <3> QED  BY <1>3, <2>2, <2>4, <3>6, <3>8
  <2>6. CASE \E i \in DOMAIN data : data[i] = None
    <3>1. r = LET entries == s.waiting[l.to]
                  joined == [j \in DOMAIN entries \cup {at} |-> IF j = at THEN data ELSE entries[j]]
              IN  [stack |-> s.stack, waiting |-> [s.waiting EXCEPT ![l.to] = joined],
                   order |-> IF Contains(s.order, l.to) THEN s.order ELSE Append(s.order, l.to)]
      BY <1>3, <1>5, <2>1, <2>3, <2>6 DEF AddNodeToBeExecuted
    <3>2. Partly(l.to, data)
      BY <1>1, <1>2, <2>4, <2>6 DEF Partly, HasData
    <3>3. Good(r) /\ Stored(s, r, l.to, at, data) /\ r.stack = s.stack
      BY <1>1, <2>2, <3>1, <3>2, StoreFacts
    <3>4. Added(s, r, l, d, at, data)
      BY <2>2, <2>3, <2>6, <3>3 DEF Added
    <3> QED  BY <1>3, <2>2, <2>4, <3>3, <3>4
  <2> QED  BY <2>5, <2>6
<1> QED  BY <1>4, <1>5

(* What the release does, if anything: no node before it waits. *)
Released(s, r, n, at) ==
  /\ s.stack = <<>> /\ at \in DOMAIN s.waiting[n] /\ HasData(s.waiting[n][at]) \in enough[n]
  /\ \A p \in Ancestors(n) : ~Waits(s, p)
  /\ Dropped(s, r, n, at) /\ Pushed(s, r, n, s.waiting[n][at], None)

LEMMA ReleaseFacts ==
  ASSUME WorkflowOK, NEW s, Good(s)
  PROVE  /\ Good(Release(s))
         /\ \/ Release(s) = s /\ Looked(s)
            \/ \E n \in Nodes, at \in Nat : Released(s, Release(s), n, at)
<1> DEFINE ready == {i \in DOMAIN s.order : Releasable(s, s.order[i])}
<1>1. CASE s.stack # <<>> \/ ready = {}
  <2>1. Release(s) = s
    BY <1>1 DEF Release
  <2>2. Looked(s)
    BY <1>1 DEF Looked
  <2> QED  BY <2>1, <2>2
<1>2. CASE s.stack = <<>> /\ ready # {}
  <2>1. PICK n, at : n = s.order[Min(ready)] /\ at = Min(DOMAIN s.waiting[n])
    OBVIOUS
  <2>2. s.order \in Seq(Nodes) /\ DOMAIN s.order = 1 .. Len(s.order) /\ Len(s.order) \in Nat
    BY LenProperties DEF Good, OrderOK
  <2>3. Min(ready) \in ready
    <3>1. ready \in SUBSET Nat /\ ready # {}
      BY <1>2, <2>2
    <3> HIDE DEF ready
    <3> QED  BY <3>1, MinFacts
  <2>4. n \in Nodes /\ Releasable(s, n) /\ DOMAIN s.waiting[n] # {}
    <3>1. Min(ready) \in DOMAIN s.order /\ Releasable(s, s.order[Min(ready)])
      BY <2>3
    <3>2. n = s.order[Min(ready)]
      BY <2>1
    <3> HIDE DEF ready
    <3>3. n \in Nodes
      BY <2>2, <3>1, <3>2, ElementOfSeq
    <3> QED  BY <3>1, <3>2, <3>3 DEF Good, OrderOK
  <2>5. at \in DOMAIN s.waiting[n] /\ at \in Nat
    <3>1. DOMAIN s.waiting[n] \in SUBSET Nat
      BY <2>4 DEF Good, WaitingOK
    <3> QED  BY <2>1, <2>4, <3>1, MinFacts
  <2>6. \A p \in Ancestors(n) : ~Waits(s, p)
    <3>1. \A p \in Ancestors(n) : p \in Nodes /\ ~Contains(s.order, p)
      BY <2>4 DEF Releasable, Ancestors
    <3> QED  BY <2>2, <3>1 DEF Contains, Waits, Good, OrderOK
  <2>7. PICK data : data = s.waiting[n][at]
    OBVIOUS
  <2>8. PICK w : w = Without(s, n, at)
    OBVIOUS
  <2>9. PICK r : r = Release(s)
    OBVIOUS
  <2>10. r = Push(w, n, data, None)
    BY <1>2, <2>1, <2>7, <2>8, <2>9 DEF Release
  <2>11. data \in Fill(n)
    BY <2>4, <2>5, <2>7 DEF Good, WaitingOK, Partly
  <2>12. /\ Good(w) /\ w.stack = s.stack /\ \A m \in Nodes \ {n} : w.waiting[m] = s.waiting[m]
         /\ w.waiting[n] = [j \in DOMAIN s.waiting[n] \ {at} |-> s.waiting[n][j]]
    BY <2>4, <2>8, WithoutFacts
  <2>13. Dropped(s, w, n, at)
    BY <2>12 DEF Dropped
  <2>14. Good(r) /\ r.waiting = w.waiting /\ Pushed(w, r, n, data, None)
    <3>1. Good(w) /\ None \in Data \cup {None}
      BY <2>12
    <3> QED  BY <2>4, <2>10, <2>11, <3>1, PushFacts DEF Pushed
  <2>15. Dropped(s, r, n, at) /\ Pushed(s, r, n, data, None)
    BY <2>12, <2>13, <2>14 DEF Dropped, Pushed
  <2>16. Released(s, r, n, at)
    <3>1. HasData(s.waiting[n][at]) \in enough[n]
      BY <2>1, <2>4 DEF Releasable
    <3> QED  BY <1>2, <2>5, <2>6, <2>7, <2>15, <3>1 DEF Released
  <2> QED  BY <2>4, <2>5, <2>9, <2>14, <2>16
<1> QED  BY <1>1, <1>2

(* The links of one node in the order in which it sends. *)
LEMMA SortedFacts ==
  ASSUME WorkflowOK, NEW S \in SUBSET links, \A k, l \in S : k.from = l.from
  PROVE  /\ Sorted(S) \in Seq(links) /\ Len(Sorted(S)) \in Nat /\ DOMAIN Sorted(S) = 1 .. Len(Sorted(S))
         /\ \A i \in DOMAIN Sorted(S) : Sorted(S)[i] \in S
         /\ \A l \in S : \E i \in DOMAIN Sorted(S) : Sorted(S)[i] = l
         /\ \A i, j \in DOMAIN Sorted(S) : i < j => Before(Sorted(S)[i], Sorted(S)[j]) /\ Sorted(S)[i] # Sorted(S)[j]
<1> DEFINE c == Cardinality(S)
<1> DEFINE First(l) == {k \in S : Before(k, l)}
<1> DEFINE pos == [l \in S |-> Cardinality(First(l))]
<1>1. IsFiniteSet(S) /\ c \in Nat
  BY LinkFacts, FS_Subset, FS_CardinalityType
<1>2. \A l \in S : l \in [from : Nodes, out : Nat, to : Nodes \ {Start}, in : Nat] /\ rank[l.to] \in Nat
  BY LinkFacts
<1>3. /\ \A l \in S : ~Before(l, l)
      /\ \A j, k, l \in S : Before(j, k) /\ Before(k, l) => Before(j, l)
  BY <1>2 DEF Before
<1>4. \A k, l \in S : Before(k, l) \/ Before(l, k) \/ k = l
  <2>1. ASSUME NEW k \in S, NEW l \in S, ~Before(k, l), ~Before(l, k)
        PROVE  k = l
    <3>1. rank[k.to] = rank[l.to] /\ k.out = l.out /\ k.in = l.in
      BY <1>2, <2>1 DEF Before
    <3>2. k.to = l.to /\ k.from = l.from
      BY <1>2, <3>1, LinkFacts
    <3> QED  BY <1>2, <3>1, <3>2
  <2> QED  BY <2>1
<1>5. \A l \in S : IsFiniteSet(First(l)) /\ Cardinality(First(l)) \in Nat
  BY <1>1, FS_Subset, FS_CardinalityType
<1>6. ASSUME NEW l \in S
      PROVE  Cardinality(First(l)) \in 0 .. c - 1
  <2>1. First(l) \in SUBSET S /\ First(l) # S
    BY <1>3
  <2>2. Cardinality(First(l)) <= c /\ Cardinality(First(l)) # c
    BY <1>1, <2>1, FS_Subset
  <2> QED  BY <1>1, <1>5, <2>2
<1>7. ASSUME NEW k \in S, NEW l \in S, Before(k, l)
      PROVE  Cardinality(First(k)) < Cardinality(First(l))
  <2>1. First(k) \in SUBSET First(l) /\ First(k) # First(l)
    BY <1>3, <1>7
  <2>2. IsFiniteSet(First(l))
    BY <1>5
  <2>3. Cardinality(First(k)) <= Cardinality(First(l)) /\ Cardinality(First(k)) # Cardinality(First(l))
    BY <2>1, <2>2, FS_Subset
  <2> QED  BY <1>5, <2>3
<1>8. \A k, l \in S : Cardinality(First(k)) = Cardinality(First(l)) => k = l
  <2>1. ASSUME NEW k \in S, NEW l \in S, Cardinality(First(k)) = Cardinality(First(l)), k # l
        PROVE  FALSE
    <3>1. Before(k, l) \/ Before(l, k)
      BY <1>4, <2>1
    <3>2. Cardinality(First(k)) < Cardinality(First(l)) \/ Cardinality(First(l)) < Cardinality(First(k))
      BY <3>1, <1>7
    <3>3. Cardinality(First(k)) \in Nat /\ Cardinality(First(l)) \in Nat
      BY <1>5
    <3> QED  BY <2>1, <3>2, <3>3
  <2> QED  BY <2>1
<1>9. \A i \in 0 .. c - 1 : \E l \in S : Cardinality(First(l)) = i
  <2>1. pos \in [S -> 0 .. c - 1] /\ \A l \in S : pos[l] = Cardinality(First(l))
    BY <1>6
  <2> HIDE DEF pos
  <2>2. pos \in Injection(S, 0 .. c - 1)
    <3>1. \A k, l \in S : pos[k] = pos[l] => k = l
      BY <1>8, <2>1
    <3> QED  BY <2>1, <3>1 DEF Injection, IsInjective
  <2>3. IsFiniteSet(0 .. c - 1) /\ Cardinality(0 .. c - 1) = c
    BY <1>1, FS_Interval
  <2>4. pos \in Surjection(S, 0 .. c - 1)
    BY <2>2, <2>3, FS_Injection
  <2> QED  BY <2>1, <2>4 DEF Surjection
<1>10. PICK todo : todo = Sorted(S)
  OBVIOUS
<1>11. DOMAIN todo = 1 .. c /\ \A i \in 1 .. c : todo[i] = CHOOSE l \in S : Cardinality(First(l)) = i - 1
  BY <1>10 DEF Sorted
<1>12. \A i \in 1 .. c : todo[i] \in S /\ Cardinality(First(todo[i])) = i - 1
  <2>1. ASSUME NEW i \in 1 .. c
        PROVE  todo[i] \in S /\ Cardinality(First(todo[i])) = i - 1
    <3>1. i - 1 \in 0 .. c - 1
      BY <1>1
    <3>2. \E l \in S : Cardinality(First(l)) = i - 1
      BY <1>9, <3>1
    <3> QED  BY <1>11, <3>2
  <2> QED  BY <2>1
<1>13. \A l \in S : \E i \in 1 .. c : todo[i] = l
  <2>1. ASSUME NEW l \in S
        PROVE  \E i \in 1 .. c : todo[i] = l
    <3>1. PICK i \in 1 .. c : i - 1 = Cardinality(First(l))
      <4>1. Cardinality(First(l)) + 1 \in 1 .. c /\ (Cardinality(First(l)) + 1) - 1 = Cardinality(First(l))
        BY <1>1, <1>6
      <4> QED  BY <4>1
    <3> QED  BY <1>8, <1>12, <3>1
  <2> QED  BY <2>1
<1>14. ASSUME NEW i \in 1 .. c, NEW j \in 1 .. c, i < j
       PROVE  Before(todo[i], todo[j]) /\ todo[i] # todo[j]
  <2>1. todo[i] \in S /\ todo[j] \in S /\ Cardinality(First(todo[i])) < Cardinality(First(todo[j]))
    BY <1>1, <1>12, <1>14
  <2>2. todo[i] # todo[j] /\ ~Before(todo[j], todo[i])
    <3>1. Cardinality(First(todo[i])) \in Nat /\ Cardinality(First(todo[j])) \in Nat
      BY <1>5, <2>1
    <3>2. ~(Cardinality(First(todo[j])) < Cardinality(First(todo[i])))
      BY <2>1, <3>1
    <3> QED  BY <1>7, <2>1, <3>1, <3>2
  <2> QED  BY <1>4, <2>1, <2>2
<1>15. todo \in Seq(links) /\ Len(todo) = c
  <2>1. todo = [i \in 1 .. c |-> todo[i]]
    <3>1. todo = [i \in 1 .. c |-> CHOOSE l \in S : Cardinality(First(l)) = i - 1]
      BY <1>10 DEF Sorted
    <3> HIDE DEF First, c
    <3> QED  BY <3>1
  <2>2. \A i \in 1 .. c : todo[i] \in links
    BY <1>12
  <2>3. [i \in 1 .. c |-> todo[i]] \in Seq(links) /\ Len([i \in 1 .. c |-> todo[i]]) = c
    BY <1>1, <2>2
  <2> QED  BY <2>1, <2>3
<1> QED  BY <1>1, <1>10, <1>11, <1>12, <1>13, <1>14, <1>15

(* The links over which a run sends, and the data it sends. *)
Sends(n, outs) == {l \in links : l.from = n /\ l.out \in outs}
Datum(n, run, l) == [node |-> n, run |-> run, out |-> l.out]

(* The steps of the loop over the links: f[i] is the state after the first i. *)
Steps(s, n, run, todo, f) ==
  /\ f[0] = s
  /\ \A i \in 1 .. Len(todo) : f[i] = AddNodeToBeExecuted(f[i - 1], todo[i], Datum(n, run, todo[i]))

LEMMA SuccessorsFacts ==
  ASSUME WorkflowOK, NEW s, NEW n, NEW run, NEW outs
  PROVE  \E f, todo : /\ todo = Sorted(Sends(n, outs)) /\ Steps(s, n, run, todo, f)
                      /\ Successors(s, n, run, outs) = f[Len(todo)]
<1>1. PICK todo : todo = Sorted(Sends(n, outs))
  OBVIOUS
<1>2. Len(todo) \in Nat
  BY <1>1, SortedFacts DEF Sends
<1> DEFINE Go(f, i) == IF i = 0 THEN s ELSE AddNodeToBeExecuted(f[i - 1], todo[i], Datum(n, run, todo[i]))
<1> DEFINE T == {k \in 0 .. Len(todo) : \E f : f = [i \in 0 .. k |-> Go(f, i)]}
<1>3. 0 \in T
  <2>1. PICK f : f = [i \in 0 .. 0 |-> s]
    OBVIOUS
  <2>2. \A i \in 0 .. 0 : Go(f, i) = s
    OBVIOUS
  <2> HIDE DEF Go
  <2>3. f = [i \in 0 .. 0 |-> Go(f, i)]
    BY <2>1, <2>2
  <2> QED  BY <1>2, <2>3
<1>4. ASSUME NEW k \in 0 .. Len(todo), k \in T, k < Len(todo)
      PROVE  k + 1 \in T
  <2>1. PICK f : f = [i \in 0 .. k |-> Go(f, i)]
    BY <1>4
  <2>2. PICK g : g = [i \in 0 .. k + 1 |-> IF i = k + 1 THEN Go(f, i) ELSE f[i]]
    OBVIOUS
  <2>3. ASSUME NEW i \in 0 .. k + 1
        PROVE  g[i] = Go(g, i)
    <3>1. CASE i = 0
      BY <1>4, <2>1, <2>2, <3>1
    <3>2. CASE i # 0
      <4>1. i - 1 \in 0 .. k /\ i - 1 # k + 1 /\ i - 1 \in 0 .. k + 1
        BY <1>2, <3>2
      <4>2. g[i - 1] = f[i - 1]
        BY <2>2, <4>1
      <4>3. Go(g, i) = Go(f, i)
        BY <3>2, <4>2
      <4>4. g[i] = Go(f, i)
        <5>1. i # k + 1 => i \in 0 .. k
          BY <1>2
        <5> HIDE DEF Go
        <5> QED  BY <2>1, <2>2, <5>1
      <4> QED  BY <4>3, <4>4
    <3> QED  BY <3>1, <3>2
  <2> HIDE DEF Go
  <2>4. g = [i \in 0 .. k + 1 |-> Go(g, i)]
    BY <2>2, <2>3
  <2>5. k + 1 \in 0 .. Len(todo)
    BY <1>2, <1>4
  <2> QED  BY <2>4, <2>5
<1>5. Len(todo) \in T
  <2>1. \A i \in 0 .. Len(todo) : i \in T /\ i < Len(todo) => i + 1 \in T
    BY <1>4
  <2> HIDE DEF T
  <2>2. \A i \in 0 .. Len(todo) : i \in T
    BY <1>2, <1>3, <2>1, UpTo
  <2> QED  BY <1>2, <2>2
<1>6. \E f : f = [i \in 0 .. Len(todo) |-> Go(f, i)]
  BY <1>5
<1>7. PICK f : f = CHOOSE h : h = [i \in 0 .. Len(todo) |-> Go(h, i)]
  OBVIOUS
<1>8. f = [i \in 0 .. Len(todo) |-> Go(f, i)]
  <2> HIDE DEF Go
  <2> QED  BY <1>6, <1>7
<1>9. \A i \in 0 .. Len(todo) : f[i] = Go(f, i)
  <2> HIDE DEF Go
  <2> QED  BY <1>8
<1>10. Steps(s, n, run, todo, f)
  BY <1>2, <1>9 DEF Steps
<1>11. Successors(s, n, run, outs) = f[Len(todo)]
  BY <1>1, <1>7 DEF Successors, Sends, Datum
<1> QED  BY <1>1, <1>10, <1>11

-----------------------------------------------------------------------------
(* Siblings *)

LEMMA StackItems ==
  ASSUME NEW s, Good(s), NEW i \in DOMAIN s.stack
  PROVE  s.stack[i].node \in Nodes /\ s.stack[i].data \in Fill(s.stack[i].node) /\ s.stack[i].by \in Data \cup {None}
<1>1. s.stack \in Seq(Items)
  BY DEF Good, StackOK
<1>2. s.stack[i] \in Items
  BY <1>1, ElementOfSeq, LenProperties
<1> QED  BY <1>2 DEF Items, Good, StackOK

LEMMA PushedItems ==
  ASSUME NEW s, NEW r, NEW n, NEW data, NEW by, Pushed(s, r, n, data, by), NEW i \in DOMAIN r.stack
  PROVE  \/ i = 1 /\ r.stack[i].node = n /\ r.stack[i].data = data /\ r.stack[i].by = by
         \/ i - 1 \in DOMAIN s.stack /\ r.stack[i] = s.stack[i - 1]
<1>1. CASE i = 1
  BY <1>1 DEF Pushed, Item
<1>2. CASE i # 1
  <2>1. i - 1 \in 1 .. Len(s.stack) /\ (i - 1) + 1 = i
    BY <1>2 DEF Pushed
  <2> QED  BY <2>1 DEF Pushed
<1> QED  BY <1>1, <1>2

(* A node put on a stack where nothing of the same run is before it. *)
LEMMA AddedSiblings ==
  ASSUME WorkflowOK, NEW s, Good(s), NEW r, Good(r), NEW l \in links, NEW d \in Data, NEW at, NEW data,
         Added(s, r, l, d, at, data), NEW c, TopLeft(s), Past(s, c), d.run < c[d.node],
         NoneBefore(s, d.node, d.run, rank[l.to]), NEW x \in Nat, x <= rank[l.to]
  PROVE  TopLeft(r) /\ Past(r, c) /\ NoneBefore(r, d.node, d.run, x)
<1>1. l.to \in Nodes /\ rank \in [Nodes -> Nat]
  BY LinkFacts
<1>2. CASE r.stack = s.stack
  <2>1. NoneBefore(s, d.node, d.run, x)
    <3>1. ASSUME NEW i \in DOMAIN s.stack, s.stack[i].by # None, s.stack[i].by.node = d.node, s.stack[i].by.run = d.run
          PROVE  x <= rank[s.stack[i].node]
      <4>1. rank[l.to] <= rank[s.stack[i].node] /\ rank[s.stack[i].node] \in Nat /\ rank[l.to] \in Nat
        BY <1>1, <3>1, StackItems DEF NoneBefore
      <4> QED  BY <4>1
    <3> QED  BY <3>1 DEF NoneBefore
  <2> QED  BY <1>2, <2>1 DEF TopLeft, Past, NoneBefore
<1>3. CASE Pushed(s, r, l.to, data, d)
  <2>1. ASSUME NEW i \in DOMAIN r.stack
        PROVE  \/ i = 1 /\ r.stack[i].node = l.to /\ r.stack[i].by = d
               \/ i - 1 \in DOMAIN s.stack /\ r.stack[i] = s.stack[i - 1]
    BY <1>3, PushedItems
  <2>2. \A i \in DOMAIN r.stack : i \in Nat
    BY <1>3 DEF Pushed
  <2>3. Past(r, c)
    BY <2>1 DEF Past
  <2>4. ASSUME NEW i \in DOMAIN r.stack, r.stack[i].by # None, r.stack[i].by.node = d.node, r.stack[i].by.run = d.run
        PROVE  rank[l.to] <= rank[r.stack[i].node]
    BY <1>1, <2>1, <2>4 DEF NoneBefore
  <2>5. NoneBefore(r, d.node, d.run, x)
    <3>1. ASSUME NEW i \in DOMAIN r.stack, r.stack[i].by # None, r.stack[i].by.node = d.node, r.stack[i].by.run = d.run
          PROVE  x <= rank[r.stack[i].node]
      <4>1. rank[l.to] <= rank[r.stack[i].node] /\ rank[r.stack[i].node] \in Nat /\ rank[l.to] \in Nat
        BY <1>1, <2>4, <3>1, StackItems
      <4> QED  BY <4>1
    <3> QED  BY <3>1 DEF NoneBefore
  <2>6. ASSUME NEW i \in DOMAIN r.stack, NEW j \in DOMAIN r.stack, i < j, r.stack[i].by # None, r.stack[j].by # None,
               r.stack[i].by.node = r.stack[j].by.node, r.stack[i].by.run = r.stack[j].by.run
        PROVE  rank[r.stack[i].node] <= rank[r.stack[j].node]
    <3>1. j # 1 /\ i \in Nat /\ j \in Nat
      BY <1>3, <2>6 DEF Pushed
    <3>2. j - 1 \in DOMAIN s.stack /\ r.stack[j] = s.stack[j - 1]
      BY <2>1, <3>1
    <3>3. CASE i = 1
      <4>1. r.stack[i].node = l.to /\ r.stack[i].by = d
        BY <1>3, <3>3 DEF Pushed, Item
      <4> QED  BY <2>4, <2>6, <4>1
    <3>4. CASE i # 1
      <4>1. i - 1 \in DOMAIN s.stack /\ r.stack[i] = s.stack[i - 1] /\ i - 1 < j - 1
        BY <2>1, <2>6, <3>1, <3>4
      <4> QED  BY <2>6, <3>2, <4>1 DEF TopLeft
    <3> QED  BY <3>3, <3>4
  <2>7. TopLeft(r)
    BY <2>6 DEF TopLeft
  <2> QED  BY <2>3, <2>5, <2>7
<1> QED  BY <1>2, <1>3 DEF Added

LEMMA SuccessorsSiblings ==
  ASSUME WorkflowOK, NEW s, Good(s), NEW n \in Nodes, NEW run \in Nat, NEW outs \in SUBSET Nat,
         NEW c, TopLeft(s), Past(s, c), run < c[n],
         \A i \in DOMAIN s.stack : s.stack[i].by # None => s.stack[i].by.node # n \/ s.stack[i].by.run # run
  PROVE  /\ Good(Successors(s, n, run, outs)) /\ TopLeft(Successors(s, n, run, outs))
         /\ Past(Successors(s, n, run, outs), c)
<1>1. PICK f, todo : /\ todo = Sorted(Sends(n, outs)) /\ Steps(s, n, run, todo, f)
                     /\ Successors(s, n, run, outs) = f[Len(todo)]
  BY SuccessorsFacts
<1>2. /\ Len(todo) \in Nat /\ DOMAIN todo = 1 .. Len(todo)
      /\ \A i \in DOMAIN todo : todo[i] \in Sends(n, outs)
      /\ \A i, j \in DOMAIN todo : i < j => Before(todo[i], todo[j]) /\ todo[i] # todo[j]
  <2>1. Sends(n, outs) \in SUBSET links /\ \A k, l \in Sends(n, outs) : k.from = l.from
    BY DEF Sends
  <2> QED  BY <1>1, <2>1, SortedFacts
<1>3. \A i \in 1 .. Len(todo) : todo[i] \in links /\ rank[todo[i].to] \in Nat
  BY <1>2, LinkFacts DEF Sends
<1>4. \A i \in 1 .. Len(todo) : Datum(n, run, todo[i]) \in Data
  BY <1>2, LinkFacts DEF Sends, Datum, Data
<1> DEFINE P(i) == /\ Good(f[i]) /\ TopLeft(f[i]) /\ Past(f[i], c)
                   /\ i < Len(todo) => NoneBefore(f[i], n, run, rank[todo[i + 1].to])
<1> DEFINE T == {i \in 0 .. Len(todo) : P(i)}
<1>5. 0 \in T
  <2>1. f[0] = s
    BY <1>1 DEF Steps
  <2>2. \A x : NoneBefore(s, n, run, x)
    BY DEF NoneBefore
  <2> QED  BY <1>2, <2>1, <2>2
<1>6. ASSUME NEW i \in 0 .. Len(todo), i \in T, i < Len(todo)
      PROVE  i + 1 \in T
  <2>1. i + 1 \in 1 .. Len(todo) /\ i + 1 \in 0 .. Len(todo) /\ (i + 1) - 1 = i
    BY <1>2, <1>6
  <2>2. PICK l, d : l = todo[i + 1] /\ d = Datum(n, run, l)
    OBVIOUS
  <2>3. l \in links /\ d \in Data /\ d.node = n /\ d.run = run /\ rank[l.to] \in Nat
    BY <1>3, <1>4, <2>1, <2>2 DEF Datum
  <2>4. PICK t, r : t = f[i] /\ r = f[i + 1]
    OBVIOUS
  <2>5. r = AddNodeToBeExecuted(t, l, d)
    BY <1>1, <2>1, <2>2, <2>4 DEF Steps
  <2>6. Good(t) /\ TopLeft(t) /\ Past(t, c) /\ NoneBefore(t, n, run, rank[l.to])
    BY <1>6, <2>2, <2>4
  <2>7. Good(r) /\ \E at \in Nat, data \in Fill(l.to) : Added(t, r, l, d, at, data)
    BY <2>3, <2>5, <2>6, AddFacts
  <2>8. PICK at, data : Added(t, r, l, d, at, data)
    BY <2>7
  <2>9. ASSUME NEW x \in Nat, x <= rank[l.to]
        PROVE  TopLeft(r) /\ Past(r, c) /\ NoneBefore(r, n, run, x)
    BY <2>3, <2>6, <2>7, <2>8, <2>9, AddedSiblings
  <2>10. i + 1 < Len(todo) => NoneBefore(r, n, run, rank[todo[(i + 1) + 1].to])
    <3>1. SUFFICES ASSUME i + 1 < Len(todo)
                   PROVE  NoneBefore(r, n, run, rank[todo[(i + 1) + 1].to])
      OBVIOUS
    <3>2. (i + 1) + 1 \in 1 .. Len(todo)
      BY <1>2, <3>1
    <3>3. Before(l, todo[(i + 1) + 1]) /\ rank[todo[(i + 1) + 1].to] \in Nat
      BY <1>2, <1>3, <2>1, <2>2, <3>2
    <3>4. rank[todo[(i + 1) + 1].to] <= rank[l.to]
      BY <2>3, <3>3 DEF Before
    <3> QED  BY <2>9, <3>3, <3>4
  <2>11. TopLeft(r) /\ Past(r, c)
    BY <2>3, <2>9
  <2> QED  BY <2>1, <2>4, <2>7, <2>10, <2>11
<1>7. \A i \in 0 .. Len(todo) : i \in T
  <2> HIDE DEF T
  <2> QED  BY <1>2, <1>5, <1>6, UpTo
<1>8. P(Len(todo))
  BY <1>2, <1>7
<1> QED  BY <1>1, <1>8

-----------------------------------------------------------------------------
(* Steps *)

LEMMA WorkflowStays ==
  ASSUME UNCHANGED workflow
  PROVE  /\ links' = links /\ rank' = rank /\ enough' = enough /\ filter' = filter
         /\ \A n : Into(n)' = Into(n) /\ Width(n)' = Width(n) /\ Fill(n)' = Fill(n) /\ Ancestors(n)' = Ancestors(n)
<1>1. links' = links /\ rank' = rank /\ enough' = enough /\ filter' = filter
  BY DEF workflow
<1>2. ASSUME NEW n
      PROVE  Into(n)' = Into(n) /\ Width(n)' = Width(n) /\ Fill(n)' = Fill(n) /\ Ancestors(n)' = Ancestors(n)
  <2>1. Into(n)' = Into(n)
    BY <1>1 DEF Into
  <2>2. Inputs(n)' = Inputs(n)
    BY <2>1 DEF Inputs
  <2>3. Width(n)' = Width(n)
    BY <2>2 DEF Width
  <2>4. Fill(n)' = Fill(n)
    BY <2>3 DEF Fill
  <2>5. Ancestors(n)' = Ancestors(n)
    BY <1>1 DEF Ancestors
  <2> QED  BY <2>1, <2>3, <2>4, <2>5
<1> QED  BY <1>1, <1>2

(* The state r that an operation returns becomes the state. *)
LEMMA StateBecomes ==
  ASSUME UNCHANGED workflow, NEW r, Good(r), Becomes(r)
  PROVE  Good(State)' /\ State' = r
<1>1. stack' = r.stack /\ waiting' = r.waiting /\ order' = r.order /\ r = [stack |-> r.stack, waiting |-> r.waiting, order |-> r.order]
  BY DEF Becomes, Good
<1>2. State' = r
  BY <1>1 DEF State
<1>3. \A n : Fill(n)' = Fill(n)
  BY WorkflowStays
<1>4. Items' = Items
  BY <1>3 DEF Items
<1>5. StackOK(State)'
  <2>1. r.stack \in Seq(Items) /\ \A k \in DOMAIN r.stack : r.stack[k].data \in Fill(r.stack[k].node)
    BY DEF Good, StackOK
  <2>2. stack' \in Seq(Items')
    BY <1>1, <1>4, <2>1
  <2>3. ASSUME NEW k \in DOMAIN stack'
        PROVE  stack'[k].data \in Fill(stack[k].node)'
    <3>1. PICK n : n = stack'[k].node
      OBVIOUS
    <3>2. stack'[k].data \in Fill(n)'
      BY <1>1, <1>3, <2>1, <2>3, <3>1
    <3> QED  BY <3>1, <3>2 DEF Fill
  <2> QED  BY <2>2, <2>3 DEF StackOK, State
<1>6. WaitingOK(State)'
  <2>1. ASSUME NEW n, NEW f
        PROVE  Partly(n, f)' <=> Partly(n, f)
    BY <1>3 DEF Partly, HasData
  <2>2. WaitingOK(r)
    BY DEF Good
  <2>3. /\ waiting' = [n \in Nodes |-> waiting'[n]]
        /\ \A n \in Nodes : /\ IsFiniteSet(DOMAIN waiting'[n])
                            /\ \A i \in DOMAIN waiting'[n] : i \in Nat /\ Partly(n, waiting'[n][i])
    BY <1>1, <2>2 DEF WaitingOK
  <2>4. \A n \in Nodes : \A i \in DOMAIN waiting'[n] : i \in Nat /\ Partly(n, waiting[n][i])'
    <3>1. ASSUME NEW n \in Nodes, NEW i \in DOMAIN waiting'[n]
          PROVE  Partly(n, waiting[n][i])'
      <4>1. PICK f : f = waiting'[n][i]
        OBVIOUS
      <4>2. Partly(n, f)'
        BY <2>1, <2>3, <3>1, <4>1
      <4> QED  BY <4>1, <4>2 DEF Partly
    <3> QED  BY <2>3, <3>1
  <2> QED  BY <2>3, <2>4 DEF WaitingOK, State
<1>7. OrderOK(State)'
  BY <1>1 DEF Good, OrderOK, State
<1> QED  BY <1>2, <1>5, <1>6, <1>7 DEF Good, State

(* Without the node at the top. *)
LEMMA RestFacts ==
  ASSUME TypeInv, stack # <<>>, NEW r, r = Rest
  PROVE  /\ Good(r) /\ Top \in Nodes /\ stack[1].data \in Fill(Top) /\ stack[1].by \in Data \cup {None}
         /\ r.waiting = waiting /\ Len(stack) \in Nat \ {0} /\ DOMAIN stack = 1 .. Len(stack)
         /\ DOMAIN r.stack = 1 .. Len(stack) - 1 /\ \A i \in 1 .. Len(stack) - 1 : r.stack[i] = stack[i + 1]
<1>1. PICK s : s = State
  OBVIOUS
<1>2. s.stack = stack /\ s.waiting = waiting /\ s.order = order
  BY <1>1 DEF State
<1>3. Good(s)
  BY <1>1 DEF TypeInv
<1>4. r = [stack |-> Tail(stack), waiting |-> waiting, order |-> order]
  BY DEF Rest
<1>5. r.stack = Tail(stack) /\ r.waiting = waiting /\ r.order = order /\ r = [stack |-> r.stack, waiting |-> r.waiting, order |-> r.order]
  BY <1>4
<1>6. stack \in Seq(Items)
  BY <1>2, <1>3 DEF Good, StackOK
<1>7. Len(stack) \in Nat \ {0} /\ DOMAIN stack = 1 .. Len(stack)
  BY <1>6, EmptySeq, LenProperties
<1>8. /\ Tail(stack) \in Seq(Items) /\ Len(Tail(stack)) = Len(stack) - 1
      /\ \A i \in 1 .. Len(Tail(stack)) : Tail(stack)[i] = stack[i + 1]
  BY <1>6, HeadTailProperties
<1>9. r.stack \in Seq(Items) /\ DOMAIN r.stack = 1 .. Len(stack) - 1 /\ \A i \in 1 .. Len(stack) - 1 : r.stack[i] = stack[i + 1]
  BY <1>5, <1>8, LenProperties
<1>10. StackOK(r)
  <2>1. ASSUME NEW k \in DOMAIN r.stack
        PROVE  r.stack[k].data \in Fill(r.stack[k].node)
    <3>1. k + 1 \in DOMAIN s.stack /\ r.stack[k] = s.stack[k + 1]
      BY <1>2, <1>7, <1>9
    <3> QED  BY <1>3, <3>1 DEF Good, StackOK
  <2> QED  BY <1>9, <2>1 DEF StackOK
<1>11. Good(r)
  BY <1>2, <1>3, <1>5, <1>10 DEF Good, WaitingOK, OrderOK
<1>12. 1 \in DOMAIN s.stack /\ s.stack[1] = stack[1]
  BY <1>2, <1>7
<1>13. Top \in Nodes /\ stack[1].data \in Fill(Top) /\ stack[1].by \in Data \cup {None}
  BY <1>3, <1>12, StackItems DEF Top
<1> QED  BY <1>5, <1>7, <1>9, <1>11, <1>13

LEMMA SiblingsBecome ==
  ASSUME UNCHANGED workflow, NEW r, Good(r), Becomes(r), TopLeft(r), Past(r, ran')
  PROVE  SiblingInv'
<1>1. State' = r /\ stack' = r.stack /\ rank' = rank
  BY StateBecomes, WorkflowStays DEF Becomes
<1>2. TopLeft(State)'
  BY <1>1 DEF TopLeft, State
<1>3. Past(State, ran)'
  BY <1>1 DEF Past, State
<1> QED  BY <1>2, <1>3 DEF SiblingInv

LEMMA RestSiblings ==
  ASSUME TypeInv, SiblingInv, stack # <<>>, NEW r, r = Rest, NEW c \in [Nodes -> Nat], \A n \in Nodes : ran[n] <= c[n]
  PROVE  /\ TopLeft(r) /\ Past(r, c)
         /\ \A i \in DOMAIN r.stack : r.stack[i].by # None =>
              r.stack[i].by.node # Top \/ r.stack[i].by.run # ran[Top]
<1>1. /\ Good(r) /\ Len(stack) \in Nat \ {0} /\ DOMAIN stack = 1 .. Len(stack)
      /\ DOMAIN r.stack = 1 .. Len(stack) - 1 /\ \A i \in 1 .. Len(stack) - 1 : r.stack[i] = stack[i + 1]
  BY RestFacts
<1>2. ran \in [Nodes -> Nat]
  BY DEF TypeInv, HistoryOK
<1>3. State.stack = stack
  BY DEF State
<1>4. ASSUME NEW i \in DOMAIN r.stack
      PROVE  i + 1 \in DOMAIN stack /\ r.stack[i] = stack[i + 1] /\ i \in Nat
  BY <1>1
<1>5. ASSUME NEW i \in DOMAIN r.stack, r.stack[i].by # None
      PROVE  r.stack[i].by.run < ran[r.stack[i].by.node] /\ r.stack[i].by \in Data
  BY <1>1, <1>3, <1>4, <1>5, StackItems DEF SiblingInv, Past
<1>6. TopLeft(r)
  <2>1. ASSUME NEW i \in DOMAIN r.stack, NEW j \in DOMAIN r.stack, i < j, r.stack[i].by # None, r.stack[j].by # None,
               r.stack[i].by.node = r.stack[j].by.node, r.stack[i].by.run = r.stack[j].by.run
        PROVE  rank[r.stack[i].node] <= rank[r.stack[j].node]
    <3>1. /\ i + 1 \in DOMAIN stack /\ r.stack[i] = stack[i + 1] /\ i \in Nat
          /\ j + 1 \in DOMAIN stack /\ r.stack[j] = stack[j + 1] /\ j \in Nat
      BY <1>4
    <3>2. i + 1 < j + 1
      BY <2>1, <3>1
    <3> QED  BY <1>3, <2>1, <3>1, <3>2 DEF SiblingInv, TopLeft
  <2> QED  BY <2>1 DEF TopLeft
<1>7. Past(r, c)
  <2>1. ASSUME NEW i \in DOMAIN r.stack, r.stack[i].by # None
        PROVE  r.stack[i].by.run < c[r.stack[i].by.node]
    <3>1. PICK d \in Data : d = r.stack[i].by /\ d.run < ran[d.node]
      BY <1>5, <2>1
    <3>2. d.node \in Nodes /\ d.run \in Nat /\ ran[d.node] \in Nat /\ c[d.node] \in Nat /\ ran[d.node] <= c[d.node]
      BY <1>2 DEF Data
    <3> QED  BY <3>1, <3>2
  <2> QED  BY <2>1 DEF Past
<1>8. ASSUME NEW i \in DOMAIN r.stack, r.stack[i].by # None, r.stack[i].by.node = Top
      PROVE  r.stack[i].by.run # ran[Top]
  <2>1. PICK d \in Data : d = r.stack[i].by /\ d.run < ran[d.node]
    BY <1>5, <1>8
  <2>2. d.node = Top /\ d.run \in Nat /\ ran[d.node] \in Nat
    BY <1>2, <1>8, <2>1 DEF Data
  <2> QED  BY <2>1, <2>2
<1> QED  BY <1>6, <1>7, <1>8

LEMMA ReleaseSiblings ==
  ASSUME WorkflowOK, NEW s, Good(s), NEW c, TopLeft(s), Past(s, c)
  PROVE  TopLeft(Release(s)) /\ Past(Release(s), c)
<1>1. PICK r : r = Release(s)
  OBVIOUS
<1>2. CASE r = s
  BY <1>1, <1>2
<1>3. ASSUME NEW n \in Nodes, NEW at \in Nat, Released(s, r, n, at)
      PROVE  TopLeft(r) /\ Past(r, c)
  <2>1. PICK data : Pushed(s, r, n, data, None) /\ s.stack = <<>>
    BY <1>3 DEF Released
  <2>2. ASSUME NEW i \in DOMAIN r.stack
        PROVE  i = 1 /\ r.stack[i].by = None
    <3>1. DOMAIN s.stack = {}
      BY <2>1
    <3> QED  BY <2>1, <3>1, PushedItems
  <2>3. ~(1 < 1)
    OBVIOUS
  <2> QED  BY <2>2, <2>3 DEF TopLeft, Past
<1> QED  BY <1>1, <1>2, <1>3, ReleaseFacts

(* What a run of the node at the top leaves. *)
LEMMA RunSiblings ==
  ASSUME TypeInv, SiblingInv, stack # <<>>, NEW c \in [Nodes -> Nat], c = [ran EXCEPT ![Top] = @ + 1],
         NEW outs \in SUBSET {l.out : l \in {k \in links : k.from = Top}},
         NEW r, r = Release(Successors(Rest, Top, ran[Top], outs))
  PROVE  Good(r) /\ TopLeft(r) /\ Past(r, c)
<1>1. PICK s, n, run : s = Rest /\ n = Top /\ run = ran[Top]
  OBVIOUS
<1>2. WorkflowOK /\ ran \in [Nodes -> Nat]
  BY DEF TypeInv, HistoryOK
<1>3. Good(s) /\ n \in Nodes
  BY <1>1, RestFacts
<1>4. run \in Nat /\ run < c[n] /\ \A m \in Nodes : ran[m] <= c[m]
  BY <1>1, <1>2, <1>3
<1>5. outs \in SUBSET Nat
  BY <1>2, LinkFacts
<1>6. /\ TopLeft(s) /\ Past(s, c)
      /\ \A i \in DOMAIN s.stack : s.stack[i].by # None => s.stack[i].by.node # n \/ s.stack[i].by.run # run
  BY <1>1, <1>4, RestSiblings
<1>7. PICK t : t = Successors(s, n, run, outs)
  OBVIOUS
<1>8. Good(t) /\ TopLeft(t) /\ Past(t, c)
  BY <1>2, <1>3, <1>4, <1>5, <1>6, <1>7, SuccessorsSiblings
<1>9. r = Release(t)
  BY <1>1, <1>7
<1> QED  BY <1>2, <1>8, <1>9, ReleaseFacts, ReleaseSiblings

LEMMA HistoryTypes ==
  ASSUME TypeInv, [Next]_vars
  PROVE  HistoryOK' /\ checked' \in BOOLEAN /\ WorkflowOK' /\ UNCHANGED workflow
<1>1. HistoryOK /\ checked \in BOOLEAN /\ WorkflowOK
  BY DEF TypeInv
<1>2. UNCHANGED workflow
  BY DEF Next, Skip, NoResult, Fail, RunNode, End, vars
<1>3. WorkflowOK'
  BY <1>1, <1>2, WorkflowStays DEF WorkflowOK
<1>4. ASSUME stack # <<>>, Received
      PROVE  used' \in [Nodes -> SUBSET (Nat \X Data)]
  <2>1. PICK r : r = Rest
    OBVIOUS
  <2>2. Top \in Nodes /\ stack[1].data \in Fill(Top)
    BY <1>4, <2>1, RestFacts
  <2>3. PICK f : f = stack[1].data
    OBVIOUS
  <2>4. \A i \in HasData(f) : i \in Nat /\ f[i] \in Data
    <3>1. Width(Top) \in Nat \ {0} /\ DOMAIN f = 0 .. Width(Top) - 1 /\ \A i \in DOMAIN f : f[i] # None => f[i] \in Data
      BY <1>1, <2>2, <2>3, FillFacts, WidthFacts
    <3> QED  BY <3>1 DEF HasData
  <2>5. {<<i, f[i]>> : i \in HasData(f)} \in SUBSET (Nat \X Data)
    BY <2>4
  <2>6. used' = [used EXCEPT ![Top] = @ \cup {<<i, f[i]>> : i \in HasData(f)}]
    BY <1>4, <2>3 DEF Received
  <2> QED  BY <1>1, <2>2, <2>5, <2>6 DEF HistoryOK
<1>5. ASSUME stack # <<>>
      PROVE  Top \in Nodes
  <2>1. PICK r : r = Rest
    OBVIOUS
  <2> QED  BY <1>5, <2>1, RestFacts
<1>6. ASSUME Skip
      PROVE  HistoryOK'
  BY <1>1, <1>6 DEF Skip, HistoryOK
<1>7. ASSUME NoResult
      PROVE  HistoryOK'
  BY <1>1, <1>4, <1>7 DEF NoResult, HistoryOK
<1>8. ASSUME Fail
      PROVE  HistoryOK'
  BY <1>1, <1>5, <1>8 DEF Fail, HistoryOK
<1>9. ASSUME RunNode
      PROVE  HistoryOK'
  <2>1. PICK outs \in SUBSET {l.out : l \in {k \in links : k.from = Top}} :
               sent' = sent \cup [node : {Top}, run : {ran[Top]}, out : outs]
    BY <1>9 DEF RunNode
  <2>2. Top \in Nodes /\ ran[Top] \in Nat /\ outs \in SUBSET Nat
    BY <1>1, <1>5, <1>9, LinkFacts DEF RunNode, HistoryOK
  <2>3. sent' \subseteq Data
    BY <1>1, <2>1, <2>2 DEF HistoryOK, Data
  <2> QED  BY <1>1, <1>4, <1>9, <2>2, <2>3 DEF RunNode, HistoryOK
<1>10. ASSUME End
       PROVE  HistoryOK'
  BY <1>1, <1>10 DEF End, HistoryOK
<1>11. ASSUME UNCHANGED vars
       PROVE  HistoryOK'
  BY <1>1, <1>11 DEF vars, HistoryOK
<1>12. checked' \in BOOLEAN
  <2>1. checked' = FALSE \/ checked' = TRUE \/ checked' = checked
    BY DEF Next, Skip, NoResult, Fail, RunNode, End, vars
  <2> QED  BY <1>1, <2>1, Zenon
<1>13. HistoryOK'
  BY <1>6, <1>7, <1>8, <1>9, <1>10, <1>11 DEF Next
<1> QED  BY <1>2, <1>3, <1>12, <1>13

LEMMA SiblingInit ==
  ASSUME Init
  PROVE  TypeInv /\ SiblingInv
<1>1. WorkflowOK
  <2>1. filter \in SUBSET Nodes
    BY DEF Init, Ancestors
  <2> QED  BY <2>1 DEF Init, WorkflowOK
<1>2. HistoryOK
  BY DEF Init, HistoryOK
<1>3. checked \in BOOLEAN
  BY Zenon DEF Init
<1>4. PICK x, s : x = Item(Start, NoData(Start), None) /\ s = State
  OBVIOUS
<1>5. /\ s = [stack |-> s.stack, waiting |-> s.waiting, order |-> s.order]
      /\ s.stack = stack /\ s.waiting = waiting /\ s.order = order
  BY <1>4 DEF State
<1>6. Start \in Nodes /\ NoData(Start) \in Fill(Start)
  BY <1>1, StackAssumption, FillFacts
<1>7. x \in Items /\ x.data \in Fill(x.node) /\ x.by = None
  BY <1>4, <1>6 DEF Item, Items
<1>8. stack = <<x>>
  BY <1>4 DEF Init
<1>9. stack \in Seq(Items) /\ DOMAIN stack = {1} /\ stack[1] = x
  BY <1>7, <1>8
<1>10. StackOK(s)
  BY <1>5, <1>7, <1>9 DEF StackOK
<1>11. waiting = [n \in Nodes |-> <<>>] /\ order = <<>>
  BY DEF Init
<1>12. DOMAIN <<>> = {}
  OBVIOUS
<1>13. waiting = [n \in Nodes |-> waiting[n]] /\ \A n \in Nodes : DOMAIN waiting[n] = {}
  BY <1>11, <1>12
<1>14. WaitingOK(s)
  BY <1>5, <1>13, FS_EmptySet DEF WaitingOK
<1>15. order \in Seq(Nodes) /\ DOMAIN order = {}
  BY <1>11, <1>12, EmptySeq
<1>16. OrderOK(s)
  BY <1>5, <1>13, <1>15 DEF OrderOK
<1>17. Good(s)
  BY <1>5, <1>10, <1>14, <1>16 DEF Good
<1>18. TopLeft(s) /\ Past(s, ran)
  BY <1>5, <1>7, <1>9 DEF TopLeft, Past
<1> QED  BY <1>1, <1>2, <1>3, <1>4, <1>17, <1>18 DEF TypeInv, SiblingInv

LEMMA SiblingStep ==
  ASSUME TypeInv, SiblingInv, [Next]_vars
  PROVE  TypeInv' /\ SiblingInv'
<1>1. HistoryOK' /\ checked' \in BOOLEAN /\ WorkflowOK' /\ UNCHANGED workflow
  BY HistoryTypes
<1>2. ran \in [Nodes -> Nat] /\ ran' \in [Nodes -> Nat]
  BY <1>1 DEF TypeInv, HistoryOK
<1>3. ASSUME NEW r, Good(r), Becomes(r), TopLeft(r), Past(r, ran')
      PROVE  TypeInv' /\ SiblingInv'
  BY <1>1, <1>3, StateBecomes, SiblingsBecome DEF TypeInv
<1>5. ASSUME stack # <<>>, Becomes(Rest), ran' = ran
      PROVE  TypeInv' /\ SiblingInv'
  <2>1. PICK r, c : r = Rest /\ c = ran
    OBVIOUS
  <2>2. Good(r)
    BY <1>5, <2>1, RestFacts
  <2>3. c \in [Nodes -> Nat] /\ \A n \in Nodes : ran[n] <= c[n]
    BY <1>2, <2>1
  <2>4. TopLeft(r) /\ Past(r, c)
    BY <1>5, <2>1, <2>3, RestSiblings
  <2>5. Past(r, ran') /\ Becomes(r)
    BY <1>5, <2>1, <2>4
  <2> QED  BY <1>3, <2>2, <2>4, <2>5
<1>6. ASSUME stack' = stack, waiting' = waiting, order' = order, \A n \in Nodes : ran[n] <= ran'[n]
      PROVE  TypeInv' /\ SiblingInv'
  <2>1. PICK s : s = State
    OBVIOUS
  <2>2. s.stack = stack /\ s.waiting = waiting /\ s.order = order /\ Good(s) /\ TopLeft(s) /\ Past(s, ran)
    BY <2>1 DEF State, TypeInv, SiblingInv
  <2>3. Past(s, ran')
    <3>1. ASSUME NEW i \in DOMAIN s.stack, s.stack[i].by # None
          PROVE  s.stack[i].by.run < ran'[s.stack[i].by.node]
      <4>1. PICK d \in Data : d = s.stack[i].by /\ d.run < ran[d.node]
        BY <2>2, <3>1, StackItems DEF Past
      <4>2. d.node \in Nodes /\ d.run \in Nat /\ ran[d.node] \in Nat /\ ran'[d.node] \in Nat /\ ran[d.node] <= ran'[d.node]
        BY <1>2, <1>6 DEF Data
      <4> QED  BY <4>1, <4>2
    <3> QED  BY <3>1 DEF Past
  <2>4. Becomes(s)
    BY <1>6, <2>2 DEF Becomes
  <2> QED  BY <1>3, <2>2, <2>3, <2>4
<1>7. ASSUME Skip
      PROVE  TypeInv' /\ SiblingInv'
  BY <1>5, <1>7 DEF Skip
<1>8. ASSUME NoResult
      PROVE  TypeInv' /\ SiblingInv'
  BY <1>5, <1>8 DEF NoResult
<1>9. ASSUME Fail
      PROVE  TypeInv' /\ SiblingInv'
  <2>1. \A n \in Nodes : ran[n] <= ran'[n]
    BY <1>2, <1>9 DEF Fail
  <2> QED  BY <1>6, <1>9, <2>1 DEF Fail
<1>10. ASSUME RunNode
       PROVE  TypeInv' /\ SiblingInv'
  <2>1. PICK outs \in SUBSET {l.out : l \in {k \in links : k.from = Top}} :
               Becomes(Release(Successors(Rest, Top, ran[Top], outs)))
    BY <1>10 DEF RunNode
  <2>2. PICK r, c : r = Release(Successors(Rest, Top, ran[Top], outs)) /\ c = ran'
    OBVIOUS
  <2>3. stack # <<>> /\ c = [ran EXCEPT ![Top] = @ + 1] /\ c \in [Nodes -> Nat]
    BY <1>2, <1>10, <2>2 DEF RunNode
  <2>4. Good(r) /\ TopLeft(r) /\ Past(r, c)
    BY <2>2, <2>3, RunSiblings
  <2>5. Past(r, ran') /\ Becomes(r)
    BY <2>1, <2>2, <2>4
  <2> QED  BY <1>3, <2>4, <2>5
<1>11. ASSUME End
       PROVE  TypeInv' /\ SiblingInv'
  <2>1. \A n \in Nodes : ran[n] <= ran'[n]
    BY <1>2, <1>11 DEF End
  <2> QED  BY <1>6, <1>11, <2>1 DEF End
<1>12. ASSUME UNCHANGED vars
       PROVE  TypeInv' /\ SiblingInv'
  <2>1. \A n \in Nodes : ran[n] <= ran'[n]
    BY <1>2, <1>12 DEF vars
  <2> QED  BY <1>6, <1>12, <2>1 DEF vars
<1> QED  BY <1>7, <1>8, <1>9, <1>10, <1>11, <1>12 DEF Next

LEMMA SiblingInvariant == Spec => [](TypeInv /\ SiblingInv)
<1>1. Init => TypeInv /\ SiblingInv
  BY SiblingInit
<1>2. TypeInv /\ SiblingInv /\ [Next]_vars => (TypeInv /\ SiblingInv)'
  BY SiblingStep
<1> QED  BY <1>1, <1>2, PTL DEF Spec

(* Every variable keeps its type (TypeOK of NodeStack).  What waits lacks    *)
(* some data, and `order` names just the nodes with such entries.            *)
THEOREM NodeStackTypeCorrect == Spec => []TypeOK
<1>1. TypeInv => TypeOK
  <2> SUFFICES ASSUME TypeInv
               PROVE  TypeOK
    OBVIOUS
  <2>1. PICK s : s = State
    OBVIOUS
  <2>2. s.stack = stack /\ s.waiting = waiting /\ s.order = order /\ Good(s)
    BY <2>1 DEF State, TypeInv
  <2>3. \A k \in DOMAIN stack : stack[k] \in [node : Nodes, data : Fill(stack[k].node), by : Data \cup {None}]
    <3>1. ASSUME NEW k \in DOMAIN stack
          PROVE  stack[k] \in [node : Nodes, data : Fill(stack[k].node), by : Data \cup {None}]
      <4>1. stack \in Seq(Items)
        BY <2>2 DEF Good, StackOK
      <4>2. stack[k] \in Items
        BY <4>1, ElementOfSeq, LenProperties
      <4>3. stack[k].data \in Fill(stack[k].node)
        BY <2>2 DEF Good, StackOK
      <4> QED  BY <4>2, <4>3 DEF Items
    <3> QED  BY <3>1
  <2>4. DOMAIN waiting = Nodes /\ \A n \in Nodes : \A i \in DOMAIN waiting[n] : i \in Nat /\ Partly(n, waiting[n][i])
    BY <2>2 DEF Good, WaitingOK
  <2>5. order \in Seq(Nodes) /\ IsInjective(order)
    BY <2>2 DEF Good, OrderOK, IsInjective
  <2>6. \A n \in Nodes : Contains(order, n) <=> DOMAIN waiting[n] # {}
    <3>1. DOMAIN order = 1 .. Len(order)
      BY <2>5, LenProperties
    <3> QED  BY <2>2, <3>1 DEF Good, OrderOK, Contains
  <2>7. checked \in BOOLEAN /\ WorkflowOK /\ HistoryOK
    BY DEF TypeInv
  <2> QED  BY <2>3, <2>4, <2>5, <2>6, <2>7, Zenon DEF TypeOK, WorkflowOK, HistoryOK
<1> QED  BY <1>1, SiblingInvariant, PTL

(* Siblings run top left first: what one run put on the stack lies there in  *)
(* the order of the canvas (TopLeftFirst of NodeStack), for every workflow.  *)
THEOREM NodeStackTopLeftFirst == Spec => []TopLeftFirst
<1>1. TypeInv /\ SiblingInv => TopLeftFirst
  BY DEF SiblingInv, TopLeft, State, TopLeftFirst
<1> QED  BY <1>1, SiblingInvariant, PTL

-----------------------------------------------------------------------------
(* Runs *)

LEMMA PushedOnStack ==
  ASSUME NEW s, NEW r, NEW n, NEW data, NEW by, Pushed(s, r, n, data, by), NEW m
  PROVE  OnStack(r, m) <=> m = n \/ OnStack(s, m)
<1>1. ASSUME OnStack(r, m)
      PROVE  m = n \/ OnStack(s, m)
  <2>1. PICK i \in DOMAIN r.stack : r.stack[i].node = m
    BY <1>1 DEF OnStack
  <2> QED  BY <2>1, PushedItems DEF OnStack
<1>2. OnStack(r, n)
  BY DEF OnStack, Pushed, Item
<1>3. ASSUME OnStack(s, m)
      PROVE  OnStack(r, m)
  <2>1. PICK i \in DOMAIN s.stack : s.stack[i].node = m
    BY <1>3 DEF OnStack
  <2>2. i \in 1 .. Len(s.stack) /\ i + 1 \in DOMAIN r.stack /\ r.stack[i + 1] = s.stack[i]
    BY <2>1 DEF Pushed
  <2> QED  BY <2>1, <2>2 DEF OnStack
<1> QED  BY <1>1, <1>2, <1>3

(* A node that is not on the stack is pushed. *)
LEMMA PushedOnce ==
  ASSUME NEW s, NEW r, NEW n, NEW data, NEW by, Pushed(s, r, n, data, by), ~OnStack(s, n),
         \A i, j \in DOMAIN s.stack : s.stack[i].node = s.stack[j].node => i = j
  PROVE  \A i, j \in DOMAIN r.stack : r.stack[i].node = r.stack[j].node => i = j
<1>1. SUFFICES ASSUME NEW i \in DOMAIN r.stack, NEW j \in DOMAIN r.stack, r.stack[i].node = r.stack[j].node
               PROVE  i = j
  OBVIOUS
<1>2. /\ \/ i = 1 /\ r.stack[i].node = n
         \/ i - 1 \in DOMAIN s.stack /\ r.stack[i] = s.stack[i - 1]
      /\ \/ j = 1 /\ r.stack[j].node = n
         \/ j - 1 \in DOMAIN s.stack /\ r.stack[j] = s.stack[j - 1]
  <2>1. \/ i = 1 /\ r.stack[i].node = n
        \/ i - 1 \in DOMAIN s.stack /\ r.stack[i] = s.stack[i - 1]
    BY <1>1, PushedItems
  <2>2. \/ j = 1 /\ r.stack[j].node = n
        \/ j - 1 \in DOMAIN s.stack /\ r.stack[j] = s.stack[j - 1]
    BY <1>1, PushedItems
  <2> QED  BY <2>1, <2>2
<1>3. i \in Nat /\ j \in Nat
  BY <1>1 DEF Pushed
<1>4. CASE i = 1 /\ r.stack[i].node = n
  BY <1>1, <1>2, <1>4 DEF OnStack
<1>5. CASE j = 1 /\ r.stack[j].node = n
  BY <1>1, <1>2, <1>5 DEF OnStack
<1>6. CASE /\ i - 1 \in DOMAIN s.stack /\ r.stack[i] = s.stack[i - 1]
           /\ j - 1 \in DOMAIN s.stack /\ r.stack[j] = s.stack[j - 1]
  <2>1. i - 1 = j - 1
    BY <1>1, <1>6
  <2> QED  BY <1>3, <2>1
<1> QED  BY <1>2, <1>4, <1>5, <1>6

(* The state before data cross the link l from the node n, whose run is     *)
(* under way, and the state after it.                                       *)
Crossing(s, X, n, c, l) ==
  /\ Good(s) /\ Flow(s, X, {n}, c) /\ X \subseteq links /\ l \in links \ X /\ l.from = n
  /\ n \in Nodes /\ Begun(X, n) /\ c \in [Nodes -> Nat] /\ \A m \in Nodes : c[m] > 0 => Begun(X, m)

(* The node after the link has begun only if it waits, in its only entry,   *)
(* without the data of this link.                                           *)
LEMMA CrossingFacts ==
  ASSUME WorkflowOK, OneSource, NEW s, NEW X, NEW n, NEW c, NEW l, Crossing(s, X, n, c, l)
  PROVE  /\ l.to \in Nodes /\ n \in Ancestors(l.to) /\ l.to # n
         /\ c[l.to] = 0 /\ ~OnStack(s, l.to)
         /\ \/ Waits(s, l.to) /\ DOMAIN s.waiting[l.to] = {0} /\ s.waiting[l.to][0][l.in] = None
            \/ ~Waits(s, l.to) /\ DOMAIN s.waiting[l.to] = {} /\ ~Begun(X, l.to)
<1>1. l \in links /\ l \notin X /\ l.from = n /\ l.to \in Nodes
  BY LinkFacts DEF Crossing
<1>2. n \in Ancestors(l.to)
  BY <1>1, BeforeFacts
<1>3. ~Begun(X, l.to) \/ Waits(s, l.to)
  <2>1. SettledFlow(s, X, {n}) /\ l \in Into(l.to)
    BY <1>1 DEF Crossing, Flow, Into
  <2> QED  BY <1>1, <1>2, <2>1 DEF SettledFlow
<1>4. Active(s, n) => n \notin {n}
  BY DEF Crossing, Flow, ActiveFlow
<1>5. l.to # n
  BY <1>3, <1>4 DEF Crossing, Active
<1>6. ~OnStack(s, l.to)
  <2>1. SUFFICES ASSUME OnStack(s, l.to)
                 PROVE  FALSE
    OBVIOUS
  <2>2. Begun(X, l.to) /\ ~Waits(s, l.to)
    BY <1>1, <2>1 DEF Crossing, Flow, ActiveFlow, StackFlow, Active
  <2> QED  BY <1>3, <2>2
<1>7. c[l.to] = 0
  <2>1. CASE Waits(s, l.to)
    BY <1>1, <2>1 DEF Crossing, Flow, ActiveFlow, Active
  <2>2. CASE ~Begun(X, l.to)
    <3>1. c[l.to] \in Nat /\ ~(c[l.to] > 0)
      BY <1>1, <2>2 DEF Crossing
    <3> QED  BY <3>1
  <2> QED  BY <1>3, <2>1, <2>2
<1>8. CASE Waits(s, l.to)
  <2>1. /\ DOMAIN s.waiting[l.to] = {0}
        /\ \A j \in DOMAIN s.waiting[l.to][0] : s.waiting[l.to][0][j] # None => \E k \in X : k.to = l.to /\ k.in = j
    BY <1>1, <1>8 DEF Crossing, Flow, EntriesFlow
  <2>2. l.in \in DOMAIN s.waiting[l.to][0]
    <3>1. s.waiting[l.to][0] \in Fill(l.to)
      BY <1>1, <2>1 DEF Crossing, Good, WaitingOK, Partly
    <3>2. DOMAIN s.waiting[l.to][0] = 0 .. Width(l.to) - 1
      BY <3>1, FillFacts
    <3>3. l.in \in 0 .. Width(l.to) - 1
      BY <1>1, WidthFacts
    <3> QED  BY <3>2, <3>3
  <2>3. ~ \E k \in X : k.to = l.to /\ k.in = l.in
    BY <1>1 DEF Crossing, OneSource
  <2> QED  BY <1>1, <1>2, <1>5, <1>6, <1>7, <1>8, <2>1, <2>2, <2>3
<1>9. CASE ~Waits(s, l.to)
  BY <1>1, <1>2, <1>3, <1>5, <1>6, <1>7, <1>9 DEF Waits
<1> QED  BY <1>8, <1>9

(* The data of the link l in its entry, beside those that wait. *)
Entered(s, X, l, at, data) ==
  /\ at = 0 /\ DOMAIN data = 0 .. Width(l.to) - 1 /\ l.in \in DOMAIN data /\ data[l.in] # None
  /\ \A j \in DOMAIN data : data[j] # None => j \in Filled(X \cup {l}, l.to)
  /\ Waits(s, l.to) => \A j \in DOMAIN data \ {l.in} : data[j] = s.waiting[l.to][0][j]

LEMMA CrossingEntry ==
  ASSUME WorkflowOK, OneSource, NEW s, NEW X, NEW n, NEW c, NEW l, Crossing(s, X, n, c, l),
         NEW d \in Data, NEW r, NEW at, NEW data, Added(s, r, l, d, at, data), data \in Fill(l.to)
  PROVE  Entered(s, X, l, at, data)
<1> DEFINE m == l.to
<1>1. /\ m \in Nodes /\ l \in links
      /\ \/ Waits(s, m) /\ DOMAIN s.waiting[m] = {0} /\ s.waiting[m][0][l.in] = None
         \/ ~Waits(s, m) /\ DOMAIN s.waiting[m] = {}
  BY CrossingFacts DEF Crossing
<1>2. PICK old \in Fill(m) : Joins(s, l, at, old) /\ data = [old EXCEPT ![l.in] = d]
  BY DEF Added
<1>3. /\ DOMAIN old = 0 .. Width(m) - 1 /\ DOMAIN data = 0 .. Width(m) - 1
      /\ l.in \in 0 .. Width(m) - 1 /\ data[l.in] = d /\ \A j \in DOMAIN data \ {l.in} : data[j] = old[j]
  <2>1. DOMAIN old = 0 .. Width(m) - 1 /\ DOMAIN data = DOMAIN old
    BY <1>2, FillFacts
  <2>2. l.in \in 0 .. Width(m) - 1
    BY <1>1, WidthFacts
  <2> QED  BY <1>2, <2>1, <2>2
<1>4. CASE Waits(s, m)
  <2>1. at = 0 /\ old = s.waiting[m][0]
    BY <1>1, <1>2, <1>4 DEF Joins
  <2>2. \A j \in DOMAIN old : old[j] # None => j \in Filled(X, m)
    BY <1>1, <1>4, <2>1 DEF Crossing, Flow, EntriesFlow, Filled
  <2>3. \A j \in Filled(X, m) \cup {l.in} : j \in Filled(X \cup {l}, m)
    BY DEF Filled
  <2> QED  BY <1>3, <2>1, <2>2, <2>3, NoneAssumption DEF Entered
<1>5. CASE ~Waits(s, m)
  <2>1. at = Cardinality({}) /\ old = NoData(m)
    BY <1>1, <1>2, <1>5 DEF Joins
  <2>2. at = 0
    BY <2>1, FS_EmptySet
  <2>3. \A j \in DOMAIN old : old[j] = None
    BY <2>1, FillFacts
  <2>4. l.in \in Filled(X \cup {l}, m)
    BY DEF Filled
  <2> QED  BY <1>3, <1>5, <2>2, <2>3, <2>4, NoneAssumption DEF Entered
<1> QED  BY <1>4, <1>5

LEMMA CrossingFlow ==
  ASSUME WorkflowOK, OneSource, NEW s, NEW X, NEW n, NEW c, NEW l, Crossing(s, X, n, c, l),
         NEW d \in Data, NEW r, NEW at, NEW data, Added(s, r, l, d, at, data), data \in Fill(l.to)
  PROVE  Flow(r, X \cup {l}, {n}, c)
<1> DEFINE m == l.to
<1> DEFINE Y == X \cup {l}
<1>1. /\ m \in Nodes /\ n \in Ancestors(m) /\ m # n /\ c[m] = 0 /\ ~OnStack(s, m)
      /\ \/ Waits(s, m) /\ DOMAIN s.waiting[m] = {0} /\ s.waiting[m][0][l.in] = None
         \/ ~Waits(s, m) /\ DOMAIN s.waiting[m] = {} /\ ~Begun(X, m)
  BY CrossingFacts
<1>2. /\ Flow(s, X, {n}, c) /\ X \subseteq links /\ l \in links /\ l \notin X /\ l.from = n /\ Begun(Y, m)
      /\ \A p : Begun(X, p) => Begun(Y, p)
      /\ \A p : p # m /\ Begun(Y, p) => Begun(X, p)
  BY DEF Crossing, Begun
<1>3. Entered(s, X, l, at, data)
  BY CrossingEntry
<1>4. at = 0 /\ \A j \in DOMAIN data : data[j] # None => j \in Filled(Y, m)
  BY <1>3 DEF Entered
<1>5. \A j \in DOMAIN data : data[j] # None => \E k \in Y : k.to = m /\ k.in = j
  BY <1>4 DEF Filled
<1>6. \A p \in Nodes \ {m} : (Waits(r, p) <=> Waits(s, p)) /\ r.waiting[p] = s.waiting[p]
  BY DEF Added, Dropped, Stored, Waits
<1>7. \A p \in Nodes \ {m} : OnStack(r, p) <=> OnStack(s, p)
  <2>1. CASE Pushed(s, r, m, data, d)
    BY <2>1, PushedOnStack
  <2>2. CASE r.stack = s.stack
    BY <2>2 DEF OnStack
  <2> QED  BY <2>1, <2>2 DEF Added
<1>8. \A p \in Nodes \ {m} : Active(r, p) <=> Active(s, p)
  BY <1>6, <1>7 DEF Active
<1>9. \A p \in Nodes : Active(r, p) => Begun(Y, p) /\ c[p] = 0 /\ p \notin {n}
  BY <1>1, <1>2, <1>8 DEF Flow, ActiveFlow
<1>10. \A p \in Nodes \ {m} : Begun(Y, p) /\ ~Waits(r, p) =>
         Into(p) \subseteq Y \/ \A q \in Ancestors(p) : ~Active(r, q) /\ q \notin {n}
  <2>1. ASSUME NEW p \in Nodes \ {m}, Begun(Y, p), ~Waits(r, p)
        PROVE  Into(p) \subseteq Y \/ \A q \in Ancestors(p) : ~Active(r, q) /\ q \notin {n}
    <3>1. Into(p) \subseteq X \/ \A q \in Ancestors(p) : ~Active(s, q) /\ q \notin {n}
      BY <1>2, <1>6, <2>1 DEF Flow, SettledFlow
    <3>2. m \in Ancestors(p) => n \in Ancestors(p)
      BY <1>2, BeforeFacts
    <3>3. \A q \in Ancestors(p) : q \in Nodes
      BY DEF Ancestors
    <3> QED  BY <1>8, <3>1, <3>2, <3>3
  <2> QED  BY <2>1
<1>11. ASSUME \A i \in DOMAIN data : data[i] # None, Dropped(s, r, m, at), Pushed(s, r, m, data, d)
       PROVE  Flow(r, Y, {n}, c)
  <2>1. DOMAIN r.waiting[m] = {}
    BY <1>1, <1>4, <1>11 DEF Dropped
  <2>2. Into(m) \subseteq Y
    <3>1. ASSUME NEW k \in Into(m)
          PROVE  k \in Y
      <4>1. k \in links /\ k.to = m
        BY DEF Into
      <4>2. k.in \in DOMAIN data
        <5>1. k.in \in 0 .. Width(m) - 1
          BY <4>1, WidthFacts
        <5>2. DOMAIN data = 0 .. Width(m) - 1
          BY FillFacts
        <5> QED  BY <5>1, <5>2
      <4>3. PICK j \in Y : j.to = m /\ j.in = k.in
        BY <1>5, <1>11, <4>2
      <4> QED  BY <1>2, <4>1, <4>3 DEF OneSource
    <3> QED  BY <3>1
  <2>3. EntriesFlow(r, Y)
    BY <1>2, <1>6, <2>1 DEF Flow, EntriesFlow, Waits
  <2>4. StackFlow(r)
    <3>1. \A i, j \in DOMAIN r.stack : r.stack[i].node = r.stack[j].node => i = j
      BY <1>1, <1>2, <1>11, PushedOnce DEF Flow, StackFlow
    <3>2. \A p \in Nodes : OnStack(r, p) => ~Waits(r, p)
      BY <1>2, <1>6, <1>7, <2>1 DEF Flow, StackFlow, Waits
    <3> QED  BY <3>1, <3>2 DEF StackFlow
  <2>5. SettledFlow(r, Y, {n})
    BY <1>10, <2>2 DEF SettledFlow
  <2> QED  BY <1>9, <2>3, <2>4, <2>5 DEF Flow, ActiveFlow
<1>12. ASSUME Stored(s, r, m, at, data), r.stack = s.stack
       PROVE  Flow(r, Y, {n}, c)
  <2>1. DOMAIN r.waiting[m] = {0} /\ r.waiting[m][0] = data
    BY <1>1, <1>4, <1>12 DEF Stored
  <2>2. Waits(r, m)
    BY <2>1 DEF Waits
  <2>3. EntriesFlow(r, Y)
    <3>1. ASSUME NEW p \in Nodes \ {m}, Waits(r, p)
          PROVE  /\ DOMAIN r.waiting[p] = {0}
                 /\ \A j \in DOMAIN r.waiting[p][0] : r.waiting[p][0][j] # None => \E k \in Y : k.to = p /\ k.in = j
      BY <1>2, <1>6, <3>1 DEF Flow, EntriesFlow
    <3> QED  BY <1>5, <2>1, <3>1 DEF EntriesFlow
  <2>4. StackFlow(r)
    BY <1>1, <1>2, <1>6, <1>7, <1>12 DEF Flow, StackFlow, OnStack
  <2>5. SettledFlow(r, Y, {n})
    BY <1>10, <2>2 DEF SettledFlow
  <2> QED  BY <1>9, <2>3, <2>4, <2>5 DEF Flow, ActiveFlow
<1> QED  BY <1>11, <1>12 DEF Added

LEMMA CrossingData ==
  ASSUME WorkflowOK, OneSource, NEW s, NEW X, NEW n, NEW c, NEW l, Crossing(s, X, n, c, l),
         NEW d \in Data, NEW r, NEW at, NEW data, Added(s, r, l, d, at, data), data \in Fill(l.to),
         NEW R, DataFlow(s, X, {n}, R)
  PROVE  DataFlow(r, X \cup {l}, {n}, R)
<1> DEFINE m == l.to
<1> DEFINE Y == X \cup {l}
<1>1. /\ m \in Nodes \ {Start} /\ n \in Ancestors(m) /\ ~OnStack(s, m)
      /\ \/ Waits(s, m) /\ DOMAIN s.waiting[m] = {0}
         \/ ~Waits(s, m) /\ DOMAIN s.waiting[m] = {} /\ ~Begun(X, m)
  <2>1. m \in Nodes \ {Start}
    BY LinkFacts DEF Crossing
  <2> QED  BY <2>1, CrossingFacts
<1>2. Entered(s, X, l, at, data)
  BY CrossingEntry
<1>3. /\ at = 0 /\ DOMAIN data = 0 .. Width(m) - 1 /\ l.in \in DOMAIN data /\ data[l.in] # None
      /\ \A j \in DOMAIN data : data[j] # None => j \in Filled(Y, m)
      /\ Waits(s, m) => \A j \in DOMAIN data \ {l.in} : data[j] = s.waiting[m][0][j]
  BY <1>2 DEF Entered
<1>4. m \notin R
  BY <1>1 DEF DataFlow, ServedFlow, Active
<1>5. /\ \A p : Begun(X, p) => Begun(Y, p)
      /\ \A p : p # m /\ Begun(Y, p) => Begun(X, p)
      /\ \A p : p # m => Filled(Y, p) = Filled(X, p)
      /\ Filled(Y, m) = Filled(X, m) \cup {l.in}
  BY DEF Begun, Filled
<1>6. \A p \in Nodes \ {m} : (Waits(r, p) <=> Waits(s, p)) /\ r.waiting[p] = s.waiting[p]
  BY DEF Added, Dropped, Stored, Waits
<1>7. \A p \in Nodes \ {m} : OnStack(r, p) <=> OnStack(s, p)
  <2>1. CASE Pushed(s, r, m, data, d)
    BY <2>1, PushedOnStack
  <2>2. CASE r.stack = s.stack
    BY <2>2 DEF OnStack
  <2> QED  BY <2>1, <2>2 DEF Added
<1>8. \A p \in Nodes \ {m} : Active(r, p) <=> Active(s, p)
  BY <1>6, <1>7 DEF Active
<1>9. ASSUME NEW p \in Nodes \ {Start, m}, OnStack(r, p) \/ p \in R
      PROVE  Sufficed(r, Y, {n}, p)
  <2>1. Sufficed(s, X, {n}, p) /\ Filled(Y, p) = Filled(X, p)
    BY <1>5, <1>7, <1>9 DEF DataFlow, EnoughFlow
  <2>2. m \in Ancestors(p) => n \in Ancestors(p)
    <3>1. l \in links /\ l.from = n
      BY DEF Crossing
    <3> QED  BY <3>1, BeforeFacts
  <2>3. \A q \in Ancestors(p) : q \in Nodes
    BY DEF Ancestors
  <2> QED  BY <1>8, <2>1, <2>2, <2>3 DEF Sufficed
<1>10. ServedFlow(r, Y, R)
  BY <1>4, <1>5, <1>8 DEF DataFlow, ServedFlow
<1>11. Active(r, m) => KeptFlow(r, Y, R)
  BY <1>5, <1>8 DEF DataFlow, KeptFlow
<1>12. \A p \in Nodes \ {m} : Waits(r, p) => Filled(Y, p) \subseteq HasData(r.waiting[p][0])
  BY <1>5, <1>6 DEF DataFlow, EntriesFull
<1>13. ASSUME \A i \in DOMAIN data : data[i] # None, Dropped(s, r, m, at), Pushed(s, r, m, data, d)
       PROVE  DataFlow(r, Y, {n}, R)
  <2>1. DOMAIN r.waiting[m] = {}
    BY <1>1, <1>3, <1>13 DEF Dropped
  <2>2. EntriesFull(r, Y)
    BY <1>12, <2>1 DEF EntriesFull, Waits
  <2>3. ItemsFull(r)
    <3>1. ASSUME NEW i \in DOMAIN r.stack, r.stack[i].node # Start
          PROVE  HasData(r.stack[i].data) # {}
      <4>1. CASE i = 1
        <5>1. r.stack[i].data = data
          BY <1>13, <4>1 DEF Pushed, Item
        <5> QED  BY <1>3, <5>1 DEF HasData
      <4>2. CASE i # 1
        <5>1. i - 1 \in DOMAIN s.stack /\ r.stack[i] = s.stack[i - 1]
          BY <1>13, <4>2, PushedItems
        <5> QED  BY <3>1, <5>1 DEF DataFlow, ItemsFull
      <4> QED  BY <4>1, <4>2
    <3> QED  BY <3>1 DEF ItemsFull
  <2>4. KeptFlow(r, Y, R)
    BY <1>1, <1>11, <1>13, PushedOnStack DEF Active
  <2>5. Sufficed(r, Y, {n}, m)
    <3>1. 0 .. Width(m) - 1 \subseteq Filled(Y, m)
      BY <1>3, <1>13
    <3>2. Filled(Y, m) \subseteq 0 .. Width(m) - 1
      <4>1. Y \subseteq links
        BY DEF Crossing
      <4> QED  BY <4>1, WidthFacts DEF Filled
    <3> QED  BY <3>1, <3>2 DEF Sufficed
  <2>6. EnoughFlow(r, Y, {n}, R)
    BY <1>9, <2>5 DEF EnoughFlow
  <2> QED  BY <1>10, <2>2, <2>3, <2>4, <2>6 DEF DataFlow
<1>14. ASSUME Stored(s, r, m, at, data), r.stack = s.stack
       PROVE  DataFlow(r, Y, {n}, R)
  <2>1. DOMAIN r.waiting[m] = {0} /\ r.waiting[m][0] = data
    BY <1>1, <1>3, <1>14 DEF Stored
  <2>2. Waits(r, m)
    BY <2>1 DEF Waits
  <2>3. Filled(Y, m) \subseteq HasData(data)
    <3>1. ASSUME NEW j \in Filled(X, m), j # l.in
          PROVE  j \in HasData(data)
      <4>1. Begun(X, m)
        BY <3>1 DEF Filled, Begun
      <4>2. Waits(s, m)
        BY <1>1, <4>1
      <4>3. j \in HasData(s.waiting[m][0])
        BY <1>1, <4>2, <3>1 DEF DataFlow, EntriesFull
      <4>4. j \in DOMAIN data
        <5>1. X \subseteq links
          BY DEF Crossing
        <5>2. j \in 0 .. Width(m) - 1
          BY <3>1, <5>1, WidthFacts DEF Filled
        <5> QED  BY <1>3, <5>2
      <4> QED  BY <1>3, <3>1, <4>2, <4>3, <4>4 DEF HasData
    <3>2. l.in \in HasData(data)
      BY <1>3 DEF HasData
    <3> QED  BY <1>5, <3>1, <3>2
  <2>4. EntriesFull(r, Y)
    BY <1>12, <2>1, <2>3 DEF EntriesFull
  <2>5. ItemsFull(r)
    BY <1>14 DEF DataFlow, ItemsFull
  <2>6. KeptFlow(r, Y, R)
    BY <1>11, <2>2 DEF Active
  <2>7. EnoughFlow(r, Y, {n}, R)
    <3>1. ~OnStack(r, m)
      BY <1>1, <1>14 DEF OnStack
    <3> QED  BY <1>4, <1>9, <3>1 DEF EnoughFlow
  <2> QED  BY <1>10, <2>4, <2>5, <2>6, <2>7 DEF DataFlow
<1> QED  BY <1>13, <1>14 DEF Added

LEMMA SuccessorsFlow ==
  ASSUME WorkflowOK, OneSource, NEW s, Good(s), NEW X \in SUBSET links, NEW n \in Nodes, NEW c \in [Nodes -> Nat],
         Flow(s, X, {n}, c), Begun(X, n), \A m \in Nodes : c[m] > 0 => Begun(X, m), \A l \in X : l.from # n,
         NEW run \in Nat, NEW outs \in SUBSET Nat, NEW R
  PROVE  /\ Good(Successors(s, n, run, outs))
         /\ Flow(Successors(s, n, run, outs), X \cup Sends(n, outs), {n}, c)
         /\ DataFlow(s, X, {n}, R) => DataFlow(Successors(s, n, run, outs), X \cup Sends(n, outs), {n}, R)
<1>1. PICK f, todo : /\ todo = Sorted(Sends(n, outs)) /\ Steps(s, n, run, todo, f)
                     /\ Successors(s, n, run, outs) = f[Len(todo)]
  BY SuccessorsFacts
<1>2. /\ Len(todo) \in Nat /\ DOMAIN todo = 1 .. Len(todo)
      /\ \A i \in DOMAIN todo : todo[i] \in Sends(n, outs)
      /\ \A l \in Sends(n, outs) : \E i \in DOMAIN todo : todo[i] = l
      /\ \A i, j \in DOMAIN todo : i < j => Before(todo[i], todo[j]) /\ todo[i] # todo[j]
  <2>1. Sends(n, outs) \in SUBSET links /\ \A k, l \in Sends(n, outs) : k.from = l.from
    BY DEF Sends
  <2> QED  BY <1>1, <2>1, SortedFacts
<1>3. \A i \in 1 .. Len(todo) : todo[i] \in links /\ todo[i].from = n
  BY <1>2 DEF Sends
<1>4. \A i \in 1 .. Len(todo) : Datum(n, run, todo[i]) \in Data
  BY <1>2, LinkFacts DEF Sends, Datum, Data
<1> DEFINE Sent(i) == X \cup {todo[j] : j \in 1 .. i}
<1> DEFINE Flows(t, Y) == Good(t) /\ Flow(t, Y, {n}, c) /\ (DataFlow(s, X, {n}, R) => DataFlow(t, Y, {n}, R))
<1> DEFINE T == {i \in 0 .. Len(todo) : Flows(f[i], Sent(i))}
<1> HIDE DEF Flows
<1>5. 0 \in T
  <2>1. f[0] = s
    BY <1>1 DEF Steps
  <2>2. Sent(0) = X
    OBVIOUS
  <2>3. Flows(s, X)
    BY DEF Flows
  <2> HIDE DEF Sent
  <2>4. Flows(f[0], Sent(0)) /\ 0 \in 0 .. Len(todo)
    BY <1>2, <2>1, <2>2, <2>3
  <2> QED  BY <2>4
<1>6. ASSUME NEW i \in 0 .. Len(todo), i \in T, i < Len(todo)
      PROVE  i + 1 \in T
  <2>1. i + 1 \in 1 .. Len(todo) /\ i + 1 \in 0 .. Len(todo) /\ (i + 1) - 1 = i
    BY <1>2, <1>6
  <2>2. PICK l, d, t, r, Y : l = todo[i + 1] /\ d = Datum(n, run, l) /\ t = f[i] /\ r = f[i + 1] /\ Y = Sent(i)
    OBVIOUS
  <2>3. l \in links /\ d \in Data /\ l.from = n
    BY <1>3, <1>4, <2>1, <2>2
  <2>4. r = AddNodeToBeExecuted(t, l, d)
    BY <1>1, <2>1, <2>2 DEF Steps
  <2>5. Good(t) /\ Flow(t, Y, {n}, c) /\ (DataFlow(s, X, {n}, R) => DataFlow(t, Y, {n}, R))
    <3>1. Flows(f[i], Sent(i))
      BY <1>6
    <3> HIDE DEF Sent
    <3>2. Flows(t, Y)
      BY <2>2, <3>1
    <3> QED  BY <3>2 DEF Flows
  <2>6. Y \subseteq links /\ l \notin Y
    <3>1. \A j \in 1 .. i : j \in 1 .. Len(todo) /\ j < i + 1
      BY <1>2
    <3>2. \A j \in 1 .. i : todo[j] \in links /\ todo[j] # l
      BY <1>2, <1>3, <2>1, <2>2, <3>1
    <3> QED  BY <2>2, <2>3, <3>2
  <2>7. Begun(Y, n) /\ \A m \in Nodes : c[m] > 0 => Begun(Y, m)
    BY <2>2 DEF Begun
  <2>8. Crossing(t, Y, n, c, l)
    BY <2>3, <2>5, <2>6, <2>7 DEF Crossing
  <2>9. Good(r) /\ \E at \in Nat, data \in Fill(l.to) : Added(t, r, l, d, at, data)
    BY <2>3, <2>4, <2>5, AddFacts
  <2>10. /\ Flow(r, Y \cup {l}, {n}, c)
         /\ DataFlow(s, X, {n}, R) => DataFlow(r, Y \cup {l}, {n}, R)
    <3>1. PICK at \in Nat, data \in Fill(l.to) : Added(t, r, l, d, at, data)
      BY <2>9
    <3>2. Flow(r, Y \cup {l}, {n}, c)
      BY <2>3, <2>8, <3>1, CrossingFlow
    <3>3. ASSUME DataFlow(t, Y, {n}, R)
          PROVE  DataFlow(r, Y \cup {l}, {n}, R)
      BY <2>3, <2>8, <3>1, <3>3, CrossingData
    <3> QED  BY <2>5, <3>2, <3>3
  <2>11. Sent(i + 1) = Y \cup {l}
    <3>1. 1 .. i + 1 = 1 .. i \cup {i + 1}
      BY <1>2
    <3> QED  BY <2>2, <3>1
  <2>12. Flows(r, Y \cup {l})
    BY <2>9, <2>10 DEF Flows
  <2>13. Flows(f[i + 1], Sent(i + 1))
    <3> HIDE DEF Sent
    <3> QED  BY <2>2, <2>11, <2>12
  <2> QED  BY <2>1, <2>13
<1>7. \A i \in 0 .. Len(todo) : i \in T
  <2> HIDE DEF T
  <2> QED  BY <1>2, <1>5, <1>6, UpTo
<1>8. Flows(f[Len(todo)], Sent(Len(todo)))
  <2>1. Len(todo) \in T
    <3> HIDE DEF T
    <3> QED  BY <1>2, <1>7
  <2> QED  BY <2>1
<1>9. Sent(Len(todo)) = X \cup Sends(n, outs)
  BY <1>2
<1> HIDE DEF Sent
<1>10. Flows(Successors(s, n, run, outs), X \cup Sends(n, outs))
  BY <1>1, <1>8, <1>9
<1> QED  BY <1>10 DEF Flows

(* The node whose run is over is no longer busy. *)
LEMMA IdleFlow ==
  ASSUME NEW s, NEW X, NEW n \in Nodes, NEW c \in [Nodes -> Nat], Flow(s, X, {n}, c), NEW e, e = [c EXCEPT ![n] = @ + 1]
  PROVE  Flow(s, X, {}, e)
<1>1. ASSUME NEW m \in Nodes, Active(s, m)
      PROVE  Begun(X, m) /\ e[m] = 0 /\ m \notin {}
  <2>1. Begun(X, m) /\ c[m] = 0 /\ m # n
    BY <1>1 DEF Flow, ActiveFlow
  <2> QED  BY <2>1
<1>2. ActiveFlow(s, X, {}, e)
  BY <1>1 DEF ActiveFlow
<1>3. SettledFlow(s, X, {})
  BY DEF Flow, SettledFlow
<1> QED  BY <1>2, <1>3 DEF Flow

LEMMA ReleaseFlow ==
  ASSUME WorkflowOK, NEW s, Good(s), NEW X, NEW c, Flow(s, X, {}, c)
  PROVE  Flow(Release(s), X, {}, c)
<1>1. PICK r : r = Release(s)
  OBVIOUS
<1>2. CASE r = s
  BY <1>1, <1>2
<1>3. ASSUME NEW n \in Nodes, NEW at \in Nat, Released(s, r, n, at)
      PROVE  Flow(r, X, {}, c)
  <2>1. PICK data : Pushed(s, r, n, data, None)
    BY <1>3 DEF Released
  <2>2. s.stack = <<>> /\ at \in DOMAIN s.waiting[n] /\ Dropped(s, r, n, at) /\ \A p \in Ancestors(n) : ~Waits(s, p)
    BY <1>3 DEF Released
  <2>3. \A m : ~OnStack(s, m)
    <3>1. DOMAIN s.stack = {}
      BY <2>2
    <3> QED  BY <3>1 DEF OnStack
  <2>4. Waits(s, n) /\ DOMAIN s.waiting[n] = {0}
    BY <2>2 DEF Waits, Flow, EntriesFlow
  <2>5. DOMAIN r.waiting[n] = {} /\ ~Waits(r, n)
    BY <2>2, <2>4 DEF Dropped, Waits
  <2>6. \A p \in Nodes \ {n} : (Waits(r, p) <=> Waits(s, p)) /\ r.waiting[p] = s.waiting[p]
    BY <2>2 DEF Dropped, Waits
  <2>7. \A p \in Nodes : OnStack(r, p) <=> p = n
    BY <2>1, <2>3, PushedOnStack
  <2>8. \A p \in Nodes : Active(r, p) <=> Active(s, p)
    BY <2>3, <2>4, <2>5, <2>6, <2>7 DEF Active
  <2>9. EntriesFlow(r, X)
    BY <2>5, <2>6 DEF Flow, EntriesFlow
  <2>10. StackFlow(r)
    <3>1. \A i, j \in DOMAIN r.stack : r.stack[i].node = r.stack[j].node => i = j
      <4>1. \A i, j \in DOMAIN s.stack : s.stack[i].node = s.stack[j].node => i = j
        BY DEF Flow, StackFlow
      <4> QED  BY <2>1, <2>3, <4>1, PushedOnce
    <3> QED  BY <2>5, <2>7, <3>1 DEF StackFlow
  <2>11. ActiveFlow(r, X, {}, c)
    BY <2>8 DEF Flow, ActiveFlow
  <2>12. SettledFlow(r, X, {})
    <3>1. \A m : Ancestors(m) \subseteq Nodes
      BY DEF Ancestors
    <3>2. ASSUME NEW m \in Nodes, Begun(X, m), ~Waits(r, m)
          PROVE  Into(m) \subseteq X \/ \A p \in Ancestors(m) : ~Active(r, p) /\ p \notin {}
      <4>1. CASE m = n
        BY <2>2, <2>3, <2>8, <3>1, <4>1 DEF Active
      <4>2. CASE m # n
        BY <2>6, <2>8, <3>1, <3>2, <4>2 DEF Flow, SettledFlow
      <4> QED  BY <4>1, <4>2
    <3> QED  BY <3>2 DEF SettledFlow
  <2> QED  BY <2>9, <2>10, <2>11, <2>12 DEF Flow
<1> QED  BY <1>1, <1>2, <1>3, ReleaseFacts

(* The node at the top is taken off the stack. *)
LEMMA RestFlow ==
  ASSUME TypeInv, stack # <<>>, NEW r, r = Rest, NEW s, s = State, NEW X, NEW c, Flow(s, X, {}, c)
  PROVE  /\ Flow(r, X, {Top}, c) /\ SettledFlow(r, X, {}) /\ ActiveFlow(r, X, {}, c) /\ Active(s, Top)
         /\ \A m \in Nodes : Active(r, m) <=> Active(s, m) /\ m # Top
         /\ \A m \in Nodes : OnStack(r, m) => OnStack(s, m)
<1>1. s.stack = stack /\ s.waiting = waiting
  BY DEF State
<1>2. /\ Top \in Nodes /\ r.waiting = waiting /\ Len(stack) \in Nat \ {0} /\ DOMAIN stack = 1 .. Len(stack)
      /\ DOMAIN r.stack = 1 .. Len(stack) - 1 /\ \A i \in 1 .. Len(stack) - 1 : r.stack[i] = stack[i + 1]
  BY RestFacts
<1>3. \A i, j \in DOMAIN stack : stack[i].node = stack[j].node => i = j
  BY <1>1 DEF Flow, StackFlow
<1>4. \A i \in DOMAIN r.stack : i \in Nat /\ i + 1 \in DOMAIN stack /\ r.stack[i] = stack[i + 1] /\ i + 1 # 1
  BY <1>2
<1>5. \A i, j \in DOMAIN r.stack : r.stack[i].node = r.stack[j].node => i = j
  <2>1. ASSUME NEW i \in DOMAIN r.stack, NEW j \in DOMAIN r.stack, r.stack[i].node = r.stack[j].node
        PROVE  i = j
    <3>1. i + 1 = j + 1 /\ i \in Nat /\ j \in Nat
      BY <1>3, <1>4, <2>1
    <3> QED  BY <3>1
  <2> QED  BY <2>1
<1>6. 1 \in DOMAIN stack /\ stack[1].node = Top
  BY <1>2 DEF Top
<1>7. ~OnStack(r, Top)
  BY <1>3, <1>4, <1>6 DEF OnStack
<1>8. \A m : OnStack(r, m) => OnStack(s, m)
  BY <1>1, <1>4 DEF OnStack
<1>9. OnStack(s, Top) /\ ~Waits(s, Top)
  BY <1>1, <1>2, <1>6 DEF OnStack, Flow, StackFlow
<1>10. \A m : Waits(r, m) <=> Waits(s, m)
  BY <1>1, <1>2 DEF Waits
<1>11. \A m \in Nodes : Active(r, m) <=> Active(s, m) /\ m # Top
  <2>1. ASSUME NEW m, OnStack(s, m), m # Top
        PROVE  OnStack(r, m)
    <3>1. PICK i \in DOMAIN stack : stack[i].node = m
      BY <1>1, <2>1 DEF OnStack
    <3>2. i # 1
      BY <1>6, <2>1, <3>1
    <3>3. i - 1 \in DOMAIN r.stack /\ r.stack[i - 1] = stack[(i - 1) + 1] /\ (i - 1) + 1 = i
      BY <1>2, <3>2
    <3> QED  BY <3>1, <3>3 DEF OnStack
  <2> QED  BY <1>7, <1>8, <1>9, <1>10, <2>1 DEF Active
<1>12. EntriesFlow(r, X)
  BY <1>1, <1>2, <1>10 DEF Flow, EntriesFlow
<1>13. StackFlow(r)
  BY <1>5, <1>8, <1>10 DEF Flow, StackFlow
<1>14. ActiveFlow(r, X, {Top}, c) /\ ActiveFlow(r, X, {}, c)
  BY <1>11 DEF Flow, ActiveFlow
<1>15. Active(s, Top)
  BY <1>9 DEF Active
<1>16. SettledFlow(r, X, {Top}) /\ SettledFlow(r, X, {})
  <2>1. \A m : Ancestors(m) \subseteq Nodes
    BY DEF Ancestors
  <2>2. ASSUME NEW m \in Nodes, Begun(X, m), ~Waits(r, m), ~(Into(m) \subseteq X), NEW p \in Ancestors(m)
        PROVE  ~Active(r, p) /\ p # Top
    <3>1. ~Active(s, p)
      BY <1>10, <2>2 DEF Flow, SettledFlow
    <3> QED  BY <1>11, <1>15, <2>1, <3>1
  <2> QED  BY <2>2 DEF SettledFlow
<1> QED  BY <1>8, <1>11, <1>12, <1>13, <1>14, <1>15, <1>16 DEF Flow

LEMMA OnceBecomes ==
  ASSUME UNCHANGED workflow, NEW r, Good(r), Becomes(r), NEW X, X = Crossed',
         EntriesFlow(r, X), StackFlow(r), SettledFlow(r, X, {}),
         status' # "error" => ActiveFlow(r, X, {}, ran'),
         \A n \in Nodes : ran'[n] <= 1 /\ (ran'[n] > 0 => Begun(X, n))
  PROVE  OnceInv'
<1>1. State' = r
  BY StateBecomes
<1>2. EntriesFlow(State, Crossed)'
  BY <1>1 DEF EntriesFlow, Waits
<1>3. StackFlow(State)'
  BY <1>1 DEF StackFlow, OnStack, Waits
<1>4. SettledFlow(State, Crossed, {})'
  <2>1. \A n : Into(n)' = Into(n) /\ Ancestors(n)' = Ancestors(n)
    BY WorkflowStays
  <2> QED  BY <1>1, <2>1 DEF SettledFlow, Begun, Waits, Active, OnStack
<1>5. status' # "error" => ActiveFlow(State, Crossed, {}, ran)'
  BY <1>1 DEF ActiveFlow, Begun, Waits, Active, OnStack
<1>6. \A n \in Nodes : ran'[n] <= 1 /\ (ran'[n] > 0 => Begun(Crossed, n)')
  BY DEF Begun
<1> QED  BY <1>2, <1>3, <1>4, <1>5, <1>6 DEF OnceInv

(* The links that a run crosses, when it is the first of its node. *)
LEMMA CrossedFacts ==
  ASSUME UNCHANGED workflow
  PROVE  /\ sent' = sent => Crossed' = Crossed
         /\ \A outs : ran[Top] = 0 /\ sent' = sent \cup [node : {Top}, run : {ran[Top]}, out : outs]
                        => Crossed' = Crossed \cup Sends(Top, outs)
         /\ Crossed \in SUBSET links
         /\ SentInv /\ ran[Top] = 0 => \A l \in Crossed : l.from # Top
<1>1. links' = links
  BY DEF workflow
<1>2. sent' = sent => Crossed' = Crossed
  BY <1>1 DEF Crossed
<1>3. ASSUME NEW outs, ran[Top] = 0, sent' = sent \cup [node : {Top}, run : {ran[Top]}, out : outs]
      PROVE  Crossed' = Crossed \cup Sends(Top, outs)
  <2>1. ASSUME NEW l \in links
        PROVE  [node |-> l.from, run |-> 0, out |-> l.out] \in sent'
                 <=> [node |-> l.from, run |-> 0, out |-> l.out] \in sent \/ l \in Sends(Top, outs)
    <3>1. [node |-> l.from, run |-> 0, out |-> l.out] \in [node : {Top}, run : {ran[Top]}, out : outs]
            <=> l.from = Top /\ l.out \in outs
      BY <1>3
    <3> QED  BY <1>3, <3>1 DEF Sends
  <2> QED  BY <1>1, <2>1 DEF Crossed, Sends
<1>4. ASSUME SentInv, ran[Top] = 0, NEW l \in Crossed, l.from = Top
      PROVE  FALSE
  <2>1. PICK d \in sent : d = [node |-> l.from, run |-> 0, out |-> l.out]
    BY DEF Crossed
  <2>2. d.run < ran[d.node] /\ d.run = 0 /\ d.node = Top
    BY <1>4, <2>1 DEF SentInv
  <2> QED  BY <1>4, <2>2
<1>5. Crossed \in SUBSET links
  BY DEF Crossed
<1> QED  BY <1>2, <1>3, <1>4, <1>5

LEMMA SentStep ==
  ASSUME TypeInv, SentInv, [Next]_vars
  PROVE  SentInv'
<1>1. ran \in [Nodes -> Nat] /\ sent \subseteq Data
  BY DEF TypeInv, HistoryOK
<1>2. ASSUME sent' = sent, \A n \in Nodes : ran[n] <= ran'[n], ran' \in [Nodes -> Nat]
      PROVE  SentInv'
  <2>1. ASSUME NEW d \in sent
        PROVE  d.run < ran'[d.node]
    <3>1. d.node \in Nodes /\ d.run \in Nat /\ d.run < ran[d.node]
      BY <1>1 DEF SentInv, Data
    <3>2. ran[d.node] \in Nat /\ ran'[d.node] \in Nat /\ ran[d.node] <= ran'[d.node]
      BY <1>1, <1>2, <3>1
    <3> QED  BY <3>1, <3>2
  <2> QED  BY <1>2, <2>1 DEF SentInv
<1>3. ASSUME ran' = ran, sent' = sent
      PROVE  SentInv'
  BY <1>3 DEF SentInv
<1>4. ASSUME stack # <<>>, ran' = [ran EXCEPT ![Top] = @ + 1]
      PROVE  Top \in Nodes /\ ran' \in [Nodes -> Nat] /\ \A n \in Nodes : ran[n] <= ran'[n]
  <2>1. PICK r : r = Rest
    OBVIOUS
  <2>2. Top \in Nodes
    BY <1>4, <2>1, RestFacts
  <2> QED  BY <1>1, <1>4, <2>2
<1>5. ASSUME Fail
      PROVE  SentInv'
  BY <1>2, <1>4, <1>5 DEF Fail
<1>6. ASSUME RunNode
      PROVE  SentInv'
  <2>1. PICK outs : sent' = sent \cup [node : {Top}, run : {ran[Top]}, out : outs]
    BY <1>6 DEF RunNode
  <2>2. stack # <<>> /\ ran' = [ran EXCEPT ![Top] = @ + 1]
    BY <1>6 DEF RunNode
  <2>3. Top \in Nodes /\ ran' \in [Nodes -> Nat] /\ \A n \in Nodes : ran[n] <= ran'[n]
    BY <1>4, <2>2
  <2>4. ASSUME NEW d \in sent'
        PROVE  d.run < ran'[d.node]
    <3>1. CASE d \in sent
      <4>1. d.node \in Nodes /\ d.run \in Nat /\ d.run < ran[d.node]
        BY <1>1, <3>1 DEF SentInv, Data
      <4>2. ran[d.node] \in Nat /\ ran'[d.node] \in Nat /\ ran[d.node] <= ran'[d.node]
        BY <1>1, <2>3, <4>1
      <4> QED  BY <4>1, <4>2
    <3>2. CASE d \in [node : {Top}, run : {ran[Top]}, out : outs]
      <4>1. d.node = Top /\ d.run = ran[Top] /\ ran[Top] \in Nat /\ ran'[Top] = ran[Top] + 1
        BY <1>1, <2>2, <2>3, <3>2
      <4> QED  BY <4>1
    <3> QED  BY <2>1, <2>4, <3>1, <3>2
  <2> QED  BY <2>4 DEF SentInv
<1>7. ASSUME Skip
      PROVE  SentInv'
  BY <1>3, <1>7 DEF Skip
<1>8. ASSUME NoResult
      PROVE  SentInv'
  BY <1>3, <1>8 DEF NoResult
<1>9. ASSUME End
      PROVE  SentInv'
  BY <1>3, <1>9 DEF End
<1>10. ASSUME UNCHANGED vars
       PROVE  SentInv'
  BY <1>3, <1>10 DEF vars
<1> QED  BY <1>5, <1>6, <1>7, <1>8, <1>9, <1>10 DEF Next

LEMMA OnceInit ==
  ASSUME Init
  PROVE  SentInv /\ OnceInv
<1>1. sent = {} /\ ran = [n \in Nodes |-> 0]
  BY DEF Init
<1>2. SentInv
  BY <1>1 DEF SentInv
<1>3. Crossed = {}
  BY <1>1 DEF Crossed
<1>4. PICK s : s = State
  OBVIOUS
<1>5. s.stack = stack /\ s.waiting = waiting
  BY <1>4 DEF State
<1>6. stack = <<Item(Start, NoData(Start), None)>> /\ waiting = [n \in Nodes |-> <<>>]
  BY DEF Init
<1>7. DOMAIN s.stack = {1} /\ s.stack[1].node = Start
  BY <1>5, <1>6 DEF Item
<1>8. \A n \in Nodes : ~Waits(s, n)
  <2>1. DOMAIN <<>> = {}
    OBVIOUS
  <2> QED  BY <1>5, <1>6, <2>1 DEF Waits
<1>9. \A n : OnStack(s, n) <=> n = Start
  BY <1>7 DEF OnStack
<1>10. \A n : Begun({}, n) <=> n = Start
  BY DEF Begun
<1>11. Into(Start) = {}
  <2>1. WorkflowOK
    BY SiblingInit DEF TypeInv
  <2> QED  BY <2>1, LinkFacts DEF Into
<1>12. EntriesFlow(s, {})
  BY <1>8 DEF EntriesFlow
<1>13. StackFlow(s)
  BY <1>7, <1>8 DEF StackFlow
<1>14. SettledFlow(s, {}, {})
  BY <1>10, <1>11 DEF SettledFlow
<1>15. ActiveFlow(s, {}, {}, ran)
  BY <1>1, <1>8, <1>9, <1>10 DEF ActiveFlow, Active
<1>16. \A n \in Nodes : ran[n] <= 1 /\ (ran[n] > 0 => Begun({}, n))
  BY <1>1
<1> QED  BY <1>2, <1>3, <1>4, <1>12, <1>13, <1>14, <1>15, <1>16 DEF OnceInv

LEMMA OnceStep ==
  ASSUME TypeInv, SentInv, OneSource, OnceInv, [Next]_vars
  PROVE  OnceInv'
<1>1. UNCHANGED workflow /\ WorkflowOK /\ ran \in [Nodes -> Nat]
  BY HistoryTypes DEF TypeInv, HistoryOK
<1>2. PICK s, X, c : s = State /\ X = Crossed /\ c = ran
  OBVIOUS
<1>3. /\ s.stack = stack /\ s.waiting = waiting /\ s.order = order /\ Good(s) /\ X \in SUBSET links
      /\ EntriesFlow(s, X) /\ StackFlow(s) /\ SettledFlow(s, X, {}) /\ (status # "error" => Flow(s, X, {}, c))
      /\ \A n \in Nodes : ran[n] <= 1 /\ (ran[n] > 0 => Begun(X, n))
  BY <1>1, <1>2, CrossedFacts DEF State, TypeInv, OnceInv, Flow
<1>4. ASSUME stack' = stack, waiting' = waiting, order' = order, ran' = ran, sent' = sent,
             status' # "error" => status # "error"
      PROVE  OnceInv'
  <2>1. Becomes(s) /\ X = Crossed'
    BY <1>1, <1>2, <1>3, <1>4, CrossedFacts DEF Becomes
  <2>2. status' # "error" => ActiveFlow(s, X, {}, ran')
    BY <1>2, <1>3, <1>4 DEF Flow
  <2>3. \A n \in Nodes : ran'[n] <= 1 /\ (ran'[n] > 0 => Begun(X, n))
    BY <1>3, <1>4
  <2> QED  BY <1>1, <1>3, <2>1, <2>2, <2>3, OnceBecomes
<1>5. ASSUME status # "error", stack # <<>>, Becomes(Rest), ran' = ran, sent' = sent
      PROVE  OnceInv'
  <2>1. PICK r : r = Rest
    OBVIOUS
  <2>2. Good(r) /\ Becomes(r)
    BY <1>5, <2>1, RestFacts
  <2>3. Flow(r, X, {Top}, c) /\ SettledFlow(r, X, {}) /\ ActiveFlow(r, X, {}, c)
    BY <1>2, <1>3, <1>5, <2>1, RestFlow
  <2>4. X = Crossed'
    BY <1>1, <1>2, <1>5, CrossedFacts
  <2>5. \A n \in Nodes : ran'[n] <= 1 /\ (ran'[n] > 0 => Begun(X, n))
    BY <1>3, <1>5
  <2>6. ActiveFlow(r, X, {}, ran') /\ EntriesFlow(r, X) /\ StackFlow(r)
    BY <1>2, <1>5, <2>3 DEF Flow
  <2> QED  BY <1>1, <2>2, <2>3, <2>4, <2>5, <2>6, OnceBecomes
<1>6. ASSUME Skip
      PROVE  OnceInv'
  BY <1>5, <1>6 DEF Skip
<1>7. ASSUME NoResult
      PROVE  OnceInv'
  BY <1>5, <1>7 DEF NoResult
<1>8. ASSUME status # "error", stack # <<>>
      PROVE  Top \in Nodes /\ c[Top] = 0 /\ Begun(X, Top)
  <2>1. PICK r : r = Rest
    OBVIOUS
  <2>2. Top \in Nodes /\ Active(s, Top)
    BY <1>2, <1>3, <1>8, <2>1, RestFacts, RestFlow
  <2> QED  BY <1>3, <1>8, <2>2 DEF Flow, ActiveFlow
<1>9. ASSUME Fail
      PROVE  OnceInv'
  <2>1. status # "error" /\ stack # <<>> /\ status' = "error" /\ ran' = [ran EXCEPT ![Top] = @ + 1] /\ sent' = sent
    BY <1>9 DEF Fail
  <2>2. Becomes(s) /\ X = Crossed'
    BY <1>1, <1>2, <1>3, <1>9, CrossedFacts DEF Becomes, Fail
  <2>3. Top \in Nodes /\ c[Top] = 0 /\ Begun(X, Top)
    BY <1>8, <2>1
  <2>4. \A n \in Nodes : ran'[n] <= 1 /\ (ran'[n] > 0 => Begun(X, n))
    BY <1>1, <1>2, <1>3, <2>1, <2>3
  <2> QED  BY <1>1, <1>3, <2>1, <2>2, <2>4, OnceBecomes
<1>10. ASSUME RunNode
       PROVE  OnceInv'
  <2>1. PICK outs \in SUBSET {l.out : l \in {k \in links : k.from = Top}} :
               /\ Becomes(Release(Successors(Rest, Top, ran[Top], outs)))
               /\ sent' = sent \cup [node : {Top}, run : {ran[Top]}, out : outs]
    BY <1>10 DEF RunNode
  <2>2. status # "error" /\ status' = status /\ stack # <<>> /\ ran' = [ran EXCEPT ![Top] = @ + 1]
    BY <1>10 DEF RunNode
  <2>3. Top \in Nodes /\ c[Top] = 0 /\ Begun(X, Top)
    BY <1>8, <2>2
  <2>4. PICK q, n, e, Y : q = Rest /\ n = Top /\ e = ran' /\ Y = X \cup Sends(n, outs)
    OBVIOUS
  <2>5. Good(q) /\ Flow(q, X, {n}, c)
    BY <1>2, <1>3, <2>2, <2>4, RestFacts, RestFlow
  <2>6. outs \in SUBSET Nat
    BY <1>1, LinkFacts
  <2>7. (\A l \in X : l.from # n) /\ c \in [Nodes -> Nat] /\ e = [c EXCEPT ![n] = @ + 1]
    BY <1>1, <1>2, <2>2, <2>3, <2>4, CrossedFacts
  <2>8. PICK t : t = Successors(q, n, 0, outs)
    OBVIOUS
  <2>9. Good(t) /\ Flow(t, Y, {n}, c)
    <3>1. Begun(X, n) /\ n \in Nodes /\ \A m \in Nodes : c[m] > 0 => Begun(X, m)
      BY <1>2, <1>3, <2>3, <2>4
    <3> QED  BY <1>1, <1>3, <2>4, <2>5, <2>6, <2>7, <2>8, <3>1, SuccessorsFlow
  <2>10. Flow(t, Y, {}, e)
    BY <2>3, <2>4, <2>7, <2>9, IdleFlow
  <2>11. PICK r : r = Release(t)
    OBVIOUS
  <2>12. Good(r) /\ Flow(r, Y, {}, e)
    BY <1>1, <2>9, <2>10, <2>11, ReleaseFacts, ReleaseFlow
  <2>13. Becomes(r)
    BY <1>2, <2>1, <2>3, <2>4, <2>8, <2>11
  <2>14. Y = Crossed'
    BY <1>1, <1>2, <2>1, <2>3, <2>4, CrossedFacts
  <2>15. \A m \in Nodes : ran'[m] <= 1 /\ (ran'[m] > 0 => Begun(Y, m))
    <3>1. \A m : Begun(X, m) => Begun(Y, m)
      BY <2>4 DEF Begun
    <3> QED  BY <1>1, <1>2, <1>3, <2>2, <2>3, <3>1
  <2>16. EntriesFlow(r, Y) /\ StackFlow(r) /\ SettledFlow(r, Y, {}) /\ ActiveFlow(r, Y, {}, ran')
    BY <2>4, <2>12 DEF Flow
  <2> QED  BY <1>1, <2>12, <2>13, <2>14, <2>15, <2>16, OnceBecomes
<1>11. ASSUME End
       PROVE  OnceInv'
  BY <1>4, <1>11 DEF End
<1>12. ASSUME UNCHANGED vars
       PROVE  OnceInv'
  BY <1>4, <1>12 DEF vars
<1> QED  BY <1>6, <1>7, <1>9, <1>10, <1>11, <1>12 DEF Next

-----------------------------------------------------------------------------
(* Data *)

LEMMA RestData ==
  ASSUME TypeInv, stack # <<>>, NEW r, r = Rest, NEW s, s = State, NEW X, NEW c, Flow(s, X, {}, c),
         NEW R, DataFlow(s, X, {}, R), NEW Q, Q = R \cup ({Top} \ {Start})
  PROVE  /\ DataFlow(r, X, {Top}, Q) /\ DataFlow(r, X, {}, Q)
         /\ Top # Start => HasData(stack[1].data) # {}
<1>1. s.stack = stack /\ s.waiting = waiting
  BY DEF State
<1>2. /\ Top \in Nodes /\ r.waiting = waiting /\ DOMAIN stack = 1 .. Len(stack) /\ Len(stack) \in Nat \ {0}
      /\ DOMAIN r.stack = 1 .. Len(stack) - 1 /\ \A i \in 1 .. Len(stack) - 1 : r.stack[i] = stack[i + 1]
  BY RestFacts
<1>3. 1 \in DOMAIN stack /\ \A i \in DOMAIN r.stack : i + 1 \in DOMAIN stack /\ r.stack[i] = stack[i + 1]
  BY <1>2
<1>4. /\ \A m \in Nodes : Active(r, m) <=> Active(s, m) /\ m # Top
      /\ \A m \in Nodes : OnStack(r, m) => OnStack(s, m)
      /\ Active(s, Top)
  BY RestFlow
<1>5. OnStack(s, Top) /\ Begun(X, Top)
  BY <1>1, <1>2, <1>3, <1>4 DEF OnStack, Top, Flow, ActiveFlow
<1>6. EntriesFull(r, X)
  BY <1>1, <1>2 DEF DataFlow, EntriesFull, Waits
<1>7. ItemsFull(r)
  BY <1>1, <1>3 DEF DataFlow, ItemsFull
<1>8. KeptFlow(r, X, Q)
  BY <1>4 DEF DataFlow, KeptFlow
<1>9. ServedFlow(r, X, Q)
  BY <1>2, <1>4, <1>5 DEF DataFlow, ServedFlow
<1>10. ASSUME NEW n \in Nodes \ {Start}, OnStack(r, n) \/ n \in Q
       PROVE  Sufficed(r, X, {Top}, n) /\ Sufficed(r, X, {}, n)
  <2>1. Sufficed(s, X, {}, n)
    BY <1>4, <1>5, <1>10 DEF DataFlow, EnoughFlow
  <2>2. \A p \in Ancestors(n) : p \in Nodes
    BY DEF Ancestors
  <2> QED  BY <1>4, <2>1, <2>2 DEF Sufficed
<1>11. EnoughFlow(r, X, {Top}, Q) /\ EnoughFlow(r, X, {}, Q)
  BY <1>10 DEF EnoughFlow
<1>12. Top # Start => HasData(stack[1].data) # {}
  BY <1>1, <1>3 DEF DataFlow, ItemsFull, Top
<1> QED  BY <1>6, <1>7, <1>8, <1>9, <1>11, <1>12 DEF DataFlow

LEMMA IdleData ==
  ASSUME NEW s, NEW X, NEW n, NEW R, DataFlow(s, X, {n}, R)
  PROVE  DataFlow(s, X, {}, R)
<1>1. EnoughFlow(s, X, {}, R)
  BY DEF DataFlow, EnoughFlow, Sufficed
<1> QED  BY <1>1 DEF DataFlow

LEMMA ReleaseData ==
  ASSUME WorkflowOK, NEW s, Good(s), NEW X, NEW c, Flow(s, X, {}, c), NEW R, DataFlow(s, X, {}, R)
  PROVE  DataFlow(Release(s), X, {}, R)
<1>1. PICK r : r = Release(s)
  OBVIOUS
<1>2. CASE r = s
  BY <1>1, <1>2
<1>3. ASSUME NEW n \in Nodes, NEW at \in Nat, Released(s, r, n, at)
      PROVE  DataFlow(r, X, {}, R)
  <2>1. PICK data : data = s.waiting[n][at] /\ Pushed(s, r, n, data, None) /\ HasData(data) \in enough[n]
    BY <1>3 DEF Released
  <2>2. s.stack = <<>> /\ at \in DOMAIN s.waiting[n] /\ Dropped(s, r, n, at) /\ \A p \in Ancestors(n) : ~Waits(s, p)
    BY <1>3 DEF Released
  <2>3. DOMAIN s.stack = {} /\ \A m : ~OnStack(s, m)
    <3>1. DOMAIN s.stack = {}
      BY <2>2
    <3> QED  BY <3>1 DEF OnStack
  <2>4. Waits(s, n) /\ DOMAIN s.waiting[n] = {0} /\ at = 0
    BY <2>2 DEF Waits, Flow, EntriesFlow
  <2>5. DOMAIN r.waiting[n] = {} /\ ~Waits(r, n)
    BY <2>2, <2>4 DEF Dropped, Waits
  <2>6. \A p \in Nodes \ {n} : (Waits(r, p) <=> Waits(s, p)) /\ r.waiting[p] = s.waiting[p]
    BY <2>2 DEF Dropped, Waits
  <2>7. \A p \in Nodes : OnStack(r, p) <=> p = n
    BY <2>1, <2>3, PushedOnStack
  <2>8. \A p \in Nodes : Active(r, p) <=> Active(s, p)
    BY <2>3, <2>4, <2>5, <2>6, <2>7 DEF Active
  <2>9. HasData(data) = Filled(X, n)
    <3>1. HasData(data) \subseteq Filled(X, n)
      BY <2>1, <2>4 DEF Flow, EntriesFlow, HasData, Filled
    <3>2. Filled(X, n) \subseteq HasData(data)
      BY <2>1, <2>4 DEF DataFlow, EntriesFull
    <3> QED  BY <3>1, <3>2
  <2>10. Partly(n, data)
    BY <2>1, <2>2 DEF Good, WaitingOK
  <2>11. EntriesFull(r, X)
    BY <2>5, <2>6 DEF DataFlow, EntriesFull
  <2>12. DOMAIN r.stack = {1} /\ r.stack[1].data = data
    <3>1. DOMAIN r.stack = {1}
      <4>1. Len(s.stack) = 0
        BY <2>2
      <4> QED  BY <2>1, <4>1 DEF Pushed
    <3> QED  BY <2>1, <3>1 DEF Pushed, Item
  <2>13. ItemsFull(r)
    BY <2>10, <2>12 DEF ItemsFull, Partly
  <2>14. KeptFlow(r, X, R) /\ ServedFlow(r, X, R)
    BY <2>8 DEF DataFlow, KeptFlow, ServedFlow
  <2>15. EnoughFlow(r, X, {}, R)
    <3>1. \A m : Ancestors(m) \subseteq Nodes
      BY DEF Ancestors
    <3>2. Sufficed(r, X, {}, n)
      BY <2>1, <2>2, <2>3, <2>8, <2>9, <3>1 DEF Sufficed, Active
    <3>3. ASSUME NEW m \in Nodes \ {Start}, m \in R
          PROVE  Sufficed(r, X, {}, m)
      <4>1. Sufficed(s, X, {}, m)
        BY <3>3 DEF DataFlow, EnoughFlow
      <4> QED  BY <2>8, <3>1, <4>1 DEF Sufficed
    <3> QED  BY <2>7, <3>2, <3>3 DEF EnoughFlow
  <2> QED  BY <2>11, <2>13, <2>14, <2>15 DEF DataFlow
<1> QED  BY <1>1, <1>2, <1>3, ReleaseFacts

(* The look at the waiting nodes leaves none that could be released. *)
LEMMA ReleaseLooks ==
  ASSUME WorkflowOK, NEW s, Good(s)
  PROVE  Looked(Release(s))
<1>1. PICK r : r = Release(s)
  OBVIOUS
<1>2. ASSUME NEW n \in Nodes, NEW at \in Nat, Released(s, r, n, at)
      PROVE  Looked(r)
  <2>1. 1 \in DOMAIN r.stack
    BY <1>2 DEF Released, Pushed
  <2>2. DOMAIN <<>> = {}
    OBVIOUS
  <2> QED  BY <2>1, <2>2 DEF Looked
<1> QED  BY <1>1, <1>2, ReleaseFacts

(* The node at the top has received its data. *)
LEMMA ServedGrows ==
  ASSUME TypeInv, stack # <<>>, Received, Top # Start => HasData(stack[1].data) # {}
  PROVE  Served' = Served \cup ({Top} \ {Start})
<1>1. PICK r : r = Rest
  OBVIOUS
<1>2. Top \in Nodes
  BY <1>1, RestFacts
<1>3. PICK got : got = {<<i, stack[1].data[i]>> : i \in HasData(stack[1].data)}
  OBVIOUS
<1>4. used' = [used EXCEPT ![Top] = @ \cup got] /\ used \in [Nodes -> SUBSET (Nat \X Data)]
  BY <1>3 DEF Received, TypeInv, HistoryOK
<1>5. Top # Start => got # {}
  BY <1>3
<1>6. used'[Top] = used[Top] \cup got /\ \A n \in Nodes \ {Top} : used'[n] = used[n]
  BY <1>2, <1>4
<1> QED  BY <1>2, <1>5, <1>6 DEF Served

LEMMA DataBecomes ==
  ASSUME UNCHANGED workflow, NEW r, Good(r), Becomes(r), NEW X, X = Crossed', NEW R, R = Served',
         filter = Nodes => DataFlow(r, X, {}, R), checked' => Looked(r), status' = "ended" => r.stack = <<>>
  PROVE  DataInv'
<1>1. State' = r /\ stack' = r.stack /\ filter' = filter /\ enough' = enough
  BY StateBecomes, WorkflowStays DEF Becomes
<1>2. \A n : Width(n)' = Width(n) /\ Ancestors(n)' = Ancestors(n)
  BY WorkflowStays
<1>3. filter' = Nodes => DataFlow(State, Crossed, {}, Served)'
  <2>1. SUFFICES ASSUME filter = Nodes
                 PROVE  DataFlow(State, Crossed, {}, Served)'
    BY <1>1
  <2>2. EntriesFull(State, Crossed)' /\ ItemsFull(State)'
    BY <1>1, <2>1 DEF DataFlow, EntriesFull, ItemsFull, Waits, Filled, HasData
  <2>3. KeptFlow(State, Crossed, Served)' /\ ServedFlow(State, Crossed, Served)'
    BY <1>1, <2>1 DEF DataFlow, KeptFlow, ServedFlow, Begun, Active, OnStack, Waits
  <2>4. \A n : Sufficed(State, Crossed, {}, n)' <=> Sufficed(r, X, {}, n)
    BY <1>1, <1>2 DEF Sufficed, Filled, Active, OnStack, Waits
  <2>5. EnoughFlow(State, Crossed, {}, Served)'
    BY <1>1, <2>1, <2>4 DEF DataFlow, EnoughFlow, OnStack
  <2> QED  BY <2>2, <2>3, <2>5 DEF DataFlow
<1>4. checked' => Looked(State)'
  <2>1. SUFFICES ASSUME Looked(r)
                 PROVE  Looked(State)'
    OBVIOUS
  <2>2. \A n : Releasable(State, n)' <=> Releasable(r, n)
    BY <1>1, <1>2 DEF Releasable, Contains, HasData, Min
  <2> QED  BY <1>1, <2>1, <2>2 DEF Looked
<1>5. status' = "ended" => stack' = <<>>
  BY <1>1
<1> QED  BY <1>3, <1>4, <1>5 DEF DataInv

LEMMA DataInit ==
  ASSUME Init
  PROVE  DataInv
<1>1. used = [n \in Nodes |-> {}] /\ checked = FALSE /\ status = "running" /\ sent = {}
  BY DEF Init
<1>2. Served = {} /\ Crossed = {}
  BY <1>1 DEF Served, Crossed
<1>3. PICK s : s = State
  OBVIOUS
<1>4. s.stack = stack /\ s.waiting = waiting
  BY <1>3 DEF State
<1>5. stack = <<Item(Start, NoData(Start), None)>> /\ waiting = [n \in Nodes |-> <<>>]
  BY DEF Init
<1>6. DOMAIN s.stack = {1} /\ s.stack[1].node = Start
  BY <1>4, <1>5 DEF Item
<1>7. \A n \in Nodes : ~Waits(s, n)
  <2>1. DOMAIN <<>> = {}
    OBVIOUS
  <2> QED  BY <1>4, <1>5, <2>1 DEF Waits
<1>8. EntriesFull(s, {}) /\ ItemsFull(s)
  BY <1>6, <1>7 DEF EntriesFull, ItemsFull
<1>9. KeptFlow(s, {}, {}) /\ ServedFlow(s, {}, {})
  BY DEF KeptFlow, ServedFlow, Begun
<1>10. EnoughFlow(s, {}, {}, {})
  BY <1>6 DEF EnoughFlow, OnStack
<1>11. DataFlow(State, Crossed, {}, Served)
  BY <1>2, <1>3, <1>8, <1>9, <1>10 DEF DataFlow
<1> QED  BY <1>1, <1>11 DEF DataInv

LEMMA DataStep ==
  ASSUME TypeInv, SentInv, OneSource, OnceInv, DataInv, [Next]_vars
  PROVE  DataInv'
<1>1. UNCHANGED workflow /\ WorkflowOK /\ ran \in [Nodes -> Nat]
  BY HistoryTypes DEF TypeInv, HistoryOK
<1>2. PICK s, X, c, R : s = State /\ X = Crossed /\ c = ran /\ R = Served
  OBVIOUS
<1>3. /\ s.stack = stack /\ s.waiting = waiting /\ s.order = order /\ Good(s) /\ X \in SUBSET links
      /\ status # "error" => Flow(s, X, {}, c)
      /\ filter = Nodes => DataFlow(s, X, {}, R)
      /\ \A n \in Nodes : ran[n] > 0 => Begun(X, n)
  BY <1>1, <1>2, CrossedFacts DEF State, TypeInv, OnceInv, DataInv, Flow
<1>4. used' = used => Served' = R
  BY <1>2 DEF Served
<1>5. ASSUME stack' = stack, waiting' = waiting, order' = order, sent' = sent, used' = used,
             checked' => checked, status' = "ended" => stack = <<>>
      PROVE  DataInv'
  <2>1. Becomes(s) /\ X = Crossed' /\ R = Served'
    BY <1>1, <1>2, <1>3, <1>4, <1>5, CrossedFacts DEF Becomes
  <2>2. checked' => Looked(s)
    BY <1>2, <1>5 DEF DataInv
  <2>3. status' = "ended" => s.stack = <<>>
    BY <1>3, <1>5
  <2> QED  BY <1>1, <1>3, <2>1, <2>2, <2>3, DataBecomes
<1>6. ASSUME Skip
      PROVE  DataInv'
  <2>1. PICK r : r = Rest
    OBVIOUS
  <2>2. stack # <<>> /\ Top \notin filter /\ Becomes(r) /\ sent' = sent /\ ~checked' /\ status' # "ended"
    BY <1>6, <2>1 DEF Skip
  <2>3. Good(r) /\ Top \in Nodes
    BY <2>1, <2>2, RestFacts
  <2>4. filter # Nodes
    BY <2>2, <2>3
  <2>5. PICK Y, Q : Y = Crossed' /\ Q = Served'
    OBVIOUS
  <2> QED  BY <1>1, <2>2, <2>3, <2>4, <2>5, DataBecomes
<1>7. ASSUME NoResult
      PROVE  DataInv'
  <2>1. PICK r, Q : r = Rest /\ Q = R \cup ({Top} \ {Start})
    OBVIOUS
  <2>2. /\ stack # <<>> /\ Becomes(r) /\ sent' = sent /\ Received
        /\ ~checked' /\ status' # "ended" /\ status # "error"
    BY <1>7, <2>1 DEF NoResult
  <2>3. Good(r)
    BY <2>1, <2>2, RestFacts
  <2>4. X = Crossed'
    BY <1>1, <1>2, <2>2, CrossedFacts
  <2>5. CASE filter # Nodes
    <3>1. PICK P : P = Served'
      OBVIOUS
    <3> QED  BY <1>1, <2>2, <2>3, <2>4, <2>5, <3>1, DataBecomes
  <2>6. CASE filter = Nodes
    <3>1. DataFlow(r, X, {}, Q) /\ (Top # Start => HasData(stack[1].data) # {})
      BY <1>2, <1>3, <2>1, <2>2, <2>6, RestData
    <3>2. Q = Served'
      BY <1>2, <2>1, <2>2, <3>1, ServedGrows
    <3> QED  BY <1>1, <2>2, <2>3, <2>4, <3>1, <3>2, DataBecomes
  <2> QED  BY <2>5, <2>6
<1>8. ASSUME Fail
      PROVE  DataInv'
  BY <1>5, <1>8 DEF Fail
<1>9. ASSUME RunNode
      PROVE  DataInv'
  <2>1. PICK outs \in SUBSET {l.out : l \in {k \in links : k.from = Top}} :
               /\ Becomes(Release(Successors(Rest, Top, ran[Top], outs)))
               /\ sent' = sent \cup [node : {Top}, run : {ran[Top]}, out : outs]
    BY <1>9 DEF RunNode
  <2>2. status # "error" /\ status' # "ended" /\ stack # <<>> /\ Received /\ ran' = [ran EXCEPT ![Top] = @ + 1]
    BY <1>9 DEF RunNode
  <2>3. PICK q, n, Y, Q : q = Rest /\ n = Top /\ Y = X \cup Sends(n, outs) /\ Q = R \cup ({Top} \ {Start})
    OBVIOUS
  <2>4. Good(q) /\ n \in Nodes
    BY <2>2, <2>3, RestFacts
  <2>5. Flow(q, X, {n}, c) /\ Active(s, n)
    BY <1>2, <1>3, <2>2, <2>3, RestFlow
  <2>6. c[n] = 0 /\ Begun(X, n)
    BY <1>3, <2>2, <2>4, <2>5 DEF Flow, ActiveFlow
  <2>7. outs \in SUBSET Nat
    BY <1>1, LinkFacts
  <2>8. \A l \in X : l.from # n
    BY <1>1, <1>2, <2>3, <2>6, CrossedFacts
  <2>9. PICK t : t = Successors(q, n, 0, outs)
    OBVIOUS
  <2>10. Good(t) /\ Flow(t, Y, {n}, c) /\ (DataFlow(q, X, {n}, Q) => DataFlow(t, Y, {n}, Q))
    <3>1. c \in [Nodes -> Nat] /\ \A m \in Nodes : c[m] > 0 => Begun(X, m)
      BY <1>1, <1>2, <1>3
    <3> QED  BY <1>1, <1>3, <2>3, <2>4, <2>5, <2>6, <2>7, <2>8, <2>9, <3>1, SuccessorsFlow
  <2>11. PICK r : r = Release(t)
    OBVIOUS
  <2>12. Good(r) /\ Looked(r) /\ Becomes(r) /\ Y = Crossed'
    <3>1. Good(r)
      BY <1>1, <2>10, <2>11, ReleaseFacts
    <3>2. Looked(r)
      BY <1>1, <2>10, <2>11, ReleaseLooks
    <3>3. ran[Top] = 0
      BY <1>2, <2>3, <2>6
    <3>4. Becomes(r)
      BY <2>1, <2>3, <2>9, <2>11, <3>3
    <3>5. Y = Crossed'
      BY <1>1, <1>2, <2>1, <2>3, <3>3, CrossedFacts
    <3> QED  BY <3>1, <3>2, <3>4, <3>5
  <2>13. CASE filter # Nodes
    <3>1. PICK P : P = Served'
      OBVIOUS
    <3> QED  BY <1>1, <2>2, <2>12, <2>13, <3>1, DataBecomes
  <2>14. CASE filter = Nodes
    <3>1. DataFlow(q, X, {n}, Q) /\ (Top # Start => HasData(stack[1].data) # {})
      BY <1>2, <1>3, <2>2, <2>3, <2>14, RestData
    <3>2. Q = Served'
      BY <1>2, <2>2, <2>3, <3>1, ServedGrows
    <3>3. PICK e : e = [c EXCEPT ![n] = @ + 1]
      OBVIOUS
    <3>4. Flow(t, Y, {}, e)
      BY <1>1, <1>2, <2>4, <2>10, <3>3, IdleFlow
    <3>5. DataFlow(t, Y, {}, Q)
      BY <2>10, <3>1, IdleData
    <3>6. DataFlow(r, Y, {}, Q)
      BY <1>1, <2>10, <2>11, <3>4, <3>5, ReleaseData
    <3> QED  BY <1>1, <2>2, <2>12, <3>2, <3>6, DataBecomes
  <2> QED  BY <2>13, <2>14
<1>10. ASSUME End
       PROVE  DataInv'
  BY <1>5, <1>10 DEF End
<1>11. ASSUME UNCHANGED vars
       PROVE  DataInv'
  <2>1. status' = "ended" => stack = <<>>
    BY <1>11 DEF vars, DataInv
  <2> QED  BY <1>5, <1>11, <2>1 DEF vars
<1> QED  BY <1>6, <1>7, <1>8, <1>9, <1>10, <1>11 DEF Next

(* The inductive invariant. *)
THEOREM NodeStackInvariant == Spec => []NodeStackInv
<1>1. Init => NodeStackInv
  BY SiblingInit, OnceInit, DataInit DEF NodeStackInv
<1>2. NodeStackInv /\ [Next]_vars => NodeStackInv'
  <2> SUFFICES ASSUME NodeStackInv, [Next]_vars
               PROVE  NodeStackInv'
    OBVIOUS
  <2>1. TypeInv' /\ SiblingInv' /\ SentInv'
    BY SiblingStep, SentStep DEF NodeStackInv
  <2>2. OneSource' <=> OneSource
    BY HistoryTypes, WorkflowStays DEF NodeStackInv, OneSource
  <2>3. OneSource' => OnceInv' /\ DataInv'
    BY <2>2, OnceStep, DataStep DEF NodeStackInv
  <2> QED  BY <2>1, <2>3 DEF NodeStackInv
<1> QED  BY <1>1, <1>2, PTL DEF Spec

(* In a workflow in which an input has one source, no node runs twice: a     *)
(* node with several inputs is not released while data are still on their    *)
(* way to it (NodesRunOnce of NodeStack), for every workflow and all places. *)
THEOREM NodeStackNodesRunOnce == Spec => []NodesRunOnce
<1>1. NodeStackInv => NodesRunOnce
  BY DEF NodeStackInv, OnceInv, NodesRunOnce
<1> QED  BY <1>1, NodeStackInvariant, PTL

(* Which nodes ran depends on the data alone, not on the order in which they *)
(* were on the stack (RanAsDrawn of NodeStack): those that got data on each  *)
(* input, and those that got enough and come after no node that did not.     *)
THEOREM NodeStackRanAsDrawn == Spec => []RanAsDrawn
<1>1. NodeStackInv => RanAsDrawn
  <2> SUFFICES ASSUME NodeStackInv, OneSource, status = "ended", checked, filter = Nodes,
                      NEW n \in Nodes \ {Start}
               PROVE  Reached(n) <=> \/ Got(n) # {} /\ Got(n) = 0 .. Width(n) - 1
                                     \/ Got(n) # {} /\ Got(n) \in enough[n] /\ \A p \in Ancestors(n) : ~Stuck(p)
    BY DEF RanAsDrawn
  <2>1. PICK s, X, R : s = State /\ X = Crossed /\ R = Served
    OBVIOUS
  <2>2. /\ s.stack = stack /\ s.waiting = waiting /\ s.order = order /\ stack = <<>>
        /\ WorkflowOK /\ Good(s) /\ EntriesFlow(s, X) /\ DataFlow(s, X, {}, R) /\ Looked(s)
    BY <2>1 DEF NodeStackInv, TypeInv, OnceInv, DataInv, State
  <2>3. \A m \in Nodes : Got(m) = Filled(X, m) /\ (Got(m) # {} <=> m # Start /\ Begun(X, m))
    <3>1. ASSUME NEW m \in Nodes
          PROVE  Got(m) = Filled(X, m)
      BY <2>1 DEF Got, Filled, Into, Crossed
    <3>2. \A l \in X : l.to # Start
      BY <2>1, <2>2, LinkFacts DEF Crossed
    <3>3. ASSUME NEW m \in Nodes
          PROVE  Filled(X, m) # {} <=> m # Start /\ Begun(X, m)
      BY <3>2 DEF Filled, Begun
    <3> QED  BY <3>1, <3>3
  <2>4. \A m \in Nodes \ {Start} : Reached(m) <=> m \in R
    BY <2>1 DEF Reached, Served
  <2>5. \A m \in Nodes : Active(s, m) <=> Waits(s, m)
    <3>1. DOMAIN s.stack = {}
      BY <2>2
    <3> QED  BY <3>1 DEF Active, OnStack
  <2>6. \A m \in Nodes : Waits(s, m) => HasData(waiting[m][0]) = Got(m) /\ DOMAIN waiting[m] = {0} /\ Got(m) # {}
    <3>1. SUFFICES ASSUME NEW m \in Nodes, Waits(s, m)
                   PROVE  HasData(waiting[m][0]) = Got(m) /\ DOMAIN waiting[m] = {0} /\ Got(m) # {}
      OBVIOUS
    <3>2. DOMAIN waiting[m] = {0} /\ HasData(waiting[m][0]) \subseteq Filled(X, m)
      BY <2>2, <3>1 DEF EntriesFlow, HasData, Filled
    <3>3. Filled(X, m) \subseteq HasData(waiting[m][0])
      BY <2>2, <3>1 DEF DataFlow, EntriesFull
    <3>4. Partly(m, waiting[m][0])
      BY <2>2, <3>2 DEF Good, WaitingOK
    <3> QED  BY <2>3, <3>2, <3>3, <3>4 DEF Partly
  <2>7. \A m \in Nodes : Stuck(m) <=> Waits(s, m)
    <3>1. ASSUME NEW m \in Nodes, Stuck(m)
          PROVE  Waits(s, m)
      <4>1. m # Start /\ Begun(X, m) /\ m \notin R
        BY <2>3, <2>4, <3>1 DEF Stuck
      <4> QED  BY <2>2, <2>5, <4>1 DEF DataFlow, KeptFlow
    <3>2. ASSUME NEW m \in Nodes, Waits(s, m)
          PROVE  Stuck(m)
      <4>1. Got(m) # {} /\ m # Start
        BY <2>3, <2>6, <3>2
      <4>2. m \notin R
        BY <2>2, <2>5, <3>2 DEF DataFlow, ServedFlow
      <4> QED  BY <2>4, <4>1, <4>2 DEF Stuck
    <3> QED  BY <3>1, <3>2
  <2>8. \A p \in Ancestors(n) : p \in Nodes
    BY DEF Ancestors
  <2>9. ASSUME Reached(n)
        PROVE  /\ Got(n) # {}
               /\ \/ Got(n) = 0 .. Width(n) - 1
                  \/ Got(n) \in enough[n] /\ \A p \in Ancestors(n) : ~Stuck(p)
    <3>1. n \in R /\ Begun(X, n)
      BY <2>2, <2>4, <2>9 DEF DataFlow, ServedFlow
    <3>2. Sufficed(s, X, {}, n)
      BY <2>2, <3>1 DEF DataFlow, EnoughFlow
    <3>3. \/ Got(n) = 0 .. Width(n) - 1
          \/ Got(n) \in enough[n] /\ \A p \in Ancestors(n) : ~Active(s, p)
      BY <2>3, <3>2 DEF Sufficed
    <3> QED  BY <2>3, <2>5, <2>7, <2>8, <3>1, <3>3
  <2>10. ASSUME Got(n) # {}, ~Reached(n)
         PROVE  Got(n) # 0 .. Width(n) - 1 /\ ~(Got(n) \in enough[n] /\ \A p \in Ancestors(n) : ~Stuck(p))
    <3>1. Waits(s, n)
      BY <2>7, <2>10 DEF Stuck
    <3>2. DOMAIN waiting[n] = {0} /\ HasData(waiting[n][0]) = Got(n)
      BY <2>6, <3>1
    <3>3. Got(n) # 0 .. Width(n) - 1
      <4>1. PICK f : f = waiting[n][0]
        OBVIOUS
      <4>2. Partly(n, f)
        BY <2>2, <3>2, <4>1 DEF Good, WaitingOK
      <4>3. DOMAIN f = 0 .. Width(n) - 1 /\ \E i \in DOMAIN f : f[i] = None
        BY <2>2, <4>2, FillFacts DEF Partly
      <4> QED  BY <3>2, <4>1, <4>3 DEF HasData
    <3>4. ASSUME Got(n) \in enough[n], \A p \in Ancestors(n) : ~Stuck(p)
          PROVE  FALSE
      <4>1. order \in Seq(Nodes) /\ \A m \in Nodes : (\E k \in DOMAIN order : order[k] = m) <=> Waits(s, m)
        BY <2>2 DEF Good, OrderOK, Waits
      <4>2. PICK k \in DOMAIN order : order[k] = n
        BY <3>1, <4>1
      <4>3. \A p \in Ancestors(n) : ~Contains(order, p)
        <5>1. DOMAIN order = 1 .. Len(order)
          BY <4>1, LenProperties
        <5> QED  BY <2>7, <2>8, <3>4, <4>1, <5>1 DEF Contains
      <4>4. Min(DOMAIN waiting[n]) = 0
        <5>1. {0} \in SUBSET Nat /\ {0} # {}
          OBVIOUS
        <5>2. Min({0}) \in {0}
          BY <5>1, MinFacts
        <5> QED  BY <3>2, <5>2
      <4>5. Releasable(s, n)
        BY <2>2, <3>2, <3>4, <4>3, <4>4 DEF Releasable
      <4> QED  BY <2>2, <4>2, <4>5 DEF Looked
    <3> QED  BY <3>3, <3>4
  <2> QED  BY <2>9, <2>10
<1> QED  BY <1>1, NodeStackInvariant, PTL
=============================================================================
