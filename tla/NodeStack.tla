------------------------------ MODULE NodeStack ------------------------------
(***************************************************************************)
(* The loop of WorkflowExecute.processRunExecutionData: which node of a    *)
(* workflow runs next, and with which data.  Execution order `v1`, without *)
(* the forced execution of inputs of the order before it.                  *)
(*                                                                         *)
(*   stack    executionData.nodeExecutionStack                             *)
(*   waiting  executionData.waitingExecution: per node its entries, which  *)
(*            hold the data of some inputs and lack that of others         *)
(*   order    the keys of waitingExecution in the order they were added    *)
(*   ran      the number of runs in resultData.runData                     *)
(*                                                                         *)
(* Data are named by the run and the output they come from; an output is   *)
(* empty or not.  A node that passes its input on after an error is one    *)
(* that has data.  Left out: retries, pinned data, the wait for a time or  *)
(* a webhook (it saves this state and starts from it again), and cycles.   *)
(*                                                                         *)
(* A definition named Slip... is a plausible mistake in the definition     *)
(* after it; no specification uses it.                                     *)
(***************************************************************************)
EXTENDS Naturals, FiniteSets, Sequences, SequencesExt

CONSTANTS
  Nodes, Start,
  Workflows, \* sets of links [from, out, to, in]
  Ranks,     \* [Nodes -> Nat]: the places on the canvas, top left first, no two the same
  Demands,   \* [Nodes -> sets of inputs with which the node may run early]
  None

ASSUME StackAssumption ==
  /\ Start \in Nodes
  /\ \A w \in Workflows :
       IsFiniteSet(w) /\ w \subseteq [from : Nodes, out : Nat, to : Nodes \ {Start}, in : Nat]
  /\ \A r \in Ranks : r \in [Nodes -> Nat] /\ \A m, n \in Nodes : r[m] = r[n] => m = n

(* The data that leave a node by an output: one run of it has sent them. *)
Data == [node : Nodes, run : Nat, out : Nat]

ASSUME NoneAssumption == None \notin Data

VARIABLES
  links, rank, enough, filter, \* the workflow and the nodes that may run
  stack, waiting, order, ran,
  status,  \* "running", "ended", "error"
  checked, \* the last step ended with the look at the waiting nodes
  sent,    \* data that left a node: [node, run, out] (history)
  used     \* [Nodes -> data that a run of the node received] (history)

workflow == <<links, rank, enough, filter>>
vars == <<workflow, stack, waiting, order, ran, status, checked, sent, used>>

Into(n) == {l \in links : l.to = n}
Inputs(n) == {l.in : l \in Into(n)}
Width(n) == Max({0} \cup Inputs(n)) + 1
NoData(n) == [i \in 0 .. Width(n) - 1 |-> None]

(* All nodes from which n can be reached: those in every set that holds the *)
(* sources of n and of its members.                                        *)
Ancestors(n) ==
  {p \in Nodes : \A S \in SUBSET Nodes : (\A l \in links : l.to \in S \cup {n} => l.from \in S) => p \in S}

Item(n, data, by) == [node |-> n, data |-> data, by |-> by]

(* The filter of a run up to a destination: the nodes before it and it. *)
Init ==
  /\ links \in Workflows /\ rank \in Ranks /\ enough \in Demands
  /\ filter \in {Nodes} \cup {Ancestors(n) \cup {n} : n \in Nodes}
  /\ stack = <<Item(Start, NoData(Start), None)>>
  /\ waiting = [n \in Nodes |-> <<>>] /\ order = <<>>
  /\ ran = [n \in Nodes |-> 0]
  /\ status = "running" /\ checked = FALSE
  /\ sent = {} /\ used = [n \in Nodes |-> {}]

-----------------------------------------------------------------------------
(* addNodeToBeExecuted on the state s = [stack, waiting, order].  A node   *)
(* with several inputs joins the first of its entries that lacks the input *)
(* or a new one, whose index is the number of entries.                     *)
SlipPush(s, n, data, by) == [s EXCEPT !.stack = s.stack \o <<Item(n, data, by)>>]

Push(s, n, data, by) == [s EXCEPT !.stack = <<Item(n, data, by)>> \o s.stack]

Entry(s, l) ==
  LET entries == s.waiting[l.to]
      open == {i \in DOMAIN entries : entries[i][l.in] = None}
  IN  IF open # {} THEN [at |-> Min(open), data |-> entries[Min(open)]]
                   ELSE [at |-> Cardinality(DOMAIN entries), data |-> NoData(l.to)]

SlipWithout(s, n, i) ==
  LET rest == [j \in DOMAIN s.waiting[n] \ {i} |-> s.waiting[n][j]]
  IN  [stack |-> s.stack, waiting |-> [s.waiting EXCEPT ![n] = rest], order |-> s.order]

Without(s, n, i) ==
  LET rest == [j \in DOMAIN s.waiting[n] \ {i} |-> s.waiting[n][j]]
      at == CHOOSE k \in DOMAIN s.order : s.order[k] = n
  IN  [stack |-> s.stack, waiting |-> [s.waiting EXCEPT ![n] = rest],
       order |-> IF DOMAIN rest = {} THEN RemoveAt(s.order, at) ELSE s.order]

(* The loop over the inputs lets the last one decide. *)
SlipAddNodeToBeExecuted(s, l, datum) ==
  IF Width(l.to) = 1 THEN Push(s, l.to, [i \in {0} |-> datum], datum)
  ELSE LET entry == Entry(s, l)
           data == [entry.data EXCEPT ![l.in] = datum]
           entries == s.waiting[l.to]
       IN  IF data[Width(l.to) - 1] # None
             THEN Push(IF entry.at \in DOMAIN entries THEN Without(s, l.to, entry.at) ELSE s, l.to, data, datum)
             ELSE LET joined == [j \in DOMAIN entries \cup {entry.at} |-> IF j = entry.at THEN data ELSE entries[j]]
                  IN  [stack |-> s.stack, waiting |-> [s.waiting EXCEPT ![l.to] = joined],
                       order |-> IF Contains(s.order, l.to) THEN s.order ELSE Append(s.order, l.to)]

AddNodeToBeExecuted(s, l, datum) ==
  IF Width(l.to) = 1 THEN Push(s, l.to, [i \in {0} |-> datum], datum)
  ELSE LET entry == Entry(s, l)
           data == [entry.data EXCEPT ![l.in] = datum]
           entries == s.waiting[l.to]
       IN  IF \A i \in DOMAIN data : data[i] # None
             THEN Push(Without(s, l.to, entry.at), l.to, data, datum)
             ELSE LET joined == [j \in DOMAIN entries \cup {entry.at} |-> IF j = entry.at THEN data ELSE entries[j]]
                  IN  [stack |-> s.stack, waiting |-> [s.waiting EXCEPT ![l.to] = joined],
                       order |-> IF Contains(s.order, l.to) THEN s.order ELSE Append(s.order, l.to)]

(* The links with data, bottom right first, so that the top left node ends *)
(* up at the top of the stack.                                             *)
Before(k, l) ==
  \/ rank[k.to] > rank[l.to]
  \/ rank[k.to] = rank[l.to] /\ k.out < l.out
  \/ rank[k.to] = rank[l.to] /\ k.out = l.out /\ k.in < l.in

Sorted(S) == [i \in 1 .. Cardinality(S) |-> CHOOSE l \in S : Cardinality({k \in S : Before(k, l)}) = i - 1]

Successors(s, n, run, outs) ==
  LET todo == Sorted({l \in links : l.from = n /\ l.out \in outs})
      after[i \in 0 .. Len(todo)] ==
        IF i = 0 THEN s
        ELSE AddNodeToBeExecuted(after[i - 1], todo[i], [node |-> n, run |-> run, out |-> todo[i].out])
  IN  after[Len(todo)]

HasData(data) == {i \in DOMAIN data : data[i] # None}

SlipReleasable(s, n) ==
  HasData(s.waiting[n][Min(DOMAIN s.waiting[n])]) \in enough[n]

(* No node before it waits, and its first entry has the inputs it requires. *)
Releasable(s, n) ==
  /\ \A p \in Ancestors(n) : ~Contains(s.order, p)
  /\ HasData(s.waiting[n][Min(DOMAIN s.waiting[n])]) \in enough[n]

(* With nothing left on the stack the first such node runs with what it has. *)
Release(s) ==
  LET ready == {i \in DOMAIN s.order : Releasable(s, s.order[i])}
  IN  IF s.stack # <<>> \/ ready = {} THEN s
      ELSE LET n == s.order[Min(ready)]
               first == Min(DOMAIN s.waiting[n])
           IN  Push(Without(s, n, first), n, s.waiting[n][first], None)

-----------------------------------------------------------------------------
Top == stack[1].node
Rest == [stack |-> Tail(stack), waiting |-> waiting, order |-> order]
Becomes(s) == stack' = s.stack /\ waiting' = s.waiting /\ order' = s.order
Received == used' = [used EXCEPT ![Top] = @ \cup {<<i, stack[1].data[i]>> : i \in HasData(stack[1].data)}]

(* A node outside the filter is dropped, and the waiting nodes with it if it *)
(* was the last on the stack.                                              *)
Skip ==
  /\ status = "running" /\ stack # <<>> /\ Top \notin filter
  /\ Becomes(Rest) /\ checked' = FALSE
  /\ UNCHANGED <<workflow, ran, status, sent, used>>

(* A node without result ends its branch, before the look at those waiting. *)
NoResult ==
  /\ status = "running" /\ stack # <<>> /\ Top \in filter
  /\ Becomes(Rest) /\ checked' = FALSE /\ Received
  /\ UNCHANGED <<workflow, ran, status, sent>>

Fail ==
  /\ status = "running" /\ stack # <<>> /\ Top \in filter
  /\ ran' = [ran EXCEPT ![Top] = @ + 1]
  /\ status' = "error" /\ checked' = FALSE
  /\ UNCHANGED <<workflow, stack, waiting, order, sent, used>>

(* The node has data on some of its outputs. *)
RunNode ==
  /\ status = "running" /\ stack # <<>> /\ Top \in filter
  /\ \E outs \in SUBSET {l.out : l \in {k \in links : k.from = Top}} :
       /\ Becomes(Release(Successors(Rest, Top, ran[Top], outs)))
       /\ sent' = sent \cup [node : {Top}, run : {ran[Top]}, out : outs]
  /\ ran' = [ran EXCEPT ![Top] = @ + 1]
  /\ checked' = TRUE /\ Received
  /\ UNCHANGED <<workflow, status>>

End ==
  /\ status = "running" /\ stack = <<>> /\ status' = "ended"
  /\ UNCHANGED <<workflow, stack, waiting, order, ran, checked, sent, used>>

Next == Skip \/ NoResult \/ Fail \/ RunNode \/ End

Spec == Init /\ [][Next]_vars

-----------------------------------------------------------------------------
Fill(n) == [0 .. Width(n) - 1 -> Data \cup {None}]
Partly(n, data) == data \in Fill(n) /\ HasData(data) # {} /\ \E i \in DOMAIN data : data[i] = None

(* Every variable has its type; an entry that waits has data of some inputs *)
(* and lacks those of others; `order` names the nodes with such entries.    *)
TypeOK ==
  /\ links \in Workflows /\ rank \in Ranks /\ enough \in Demands /\ filter \in SUBSET Nodes
  /\ \A k \in DOMAIN stack :
       stack[k] \in [node : Nodes, data : Fill(stack[k].node), by : Data \cup {None}]
  /\ DOMAIN waiting = Nodes
  /\ \A n \in Nodes : \A i \in DOMAIN waiting[n] : i \in Nat /\ Partly(n, waiting[n][i])
  /\ order \in Seq(Nodes) /\ IsInjective(order)
  /\ \A n \in Nodes : Contains(order, n) <=> DOMAIN waiting[n] # {}
  /\ ran \in [Nodes -> Nat] /\ status \in {"running", "ended", "error"} /\ checked \in BOOLEAN
  /\ sent \subseteq Data /\ used \in [Nodes -> SUBSET (Nat \X Data)]

OneSource == \A k, l \in links : k.to = l.to /\ k.in = l.in => k = l

(* In a workflow without cycles in which an input has one source, no node  *)
(* runs twice: a node with several inputs is not released while data are   *)
(* still on their way to it (workflow-execute.ts:1868-1987).               *)
NodesRunOnce == OneSource => \A n \in Nodes : ran[n] <= 1

(* Siblings run top left first: what one run put on the stack lies there   *)
(* in the order of the canvas ("Always execute the node that is more to    *)
(* the top-left first", workflow-execute.ts:1793).                         *)
TopLeftFirst ==
  \A i, j \in DOMAIN stack :
    i < j /\ stack[i].by # None /\ stack[j].by # None
      => \/ stack[i].by.node # stack[j].by.node \/ stack[i].by.run # stack[j].by.run
         \/ rank[stack[i].node] <= rank[stack[j].node]

Got(n) == {l.in : l \in {k \in Into(n) : [node |-> k.from, run |-> 0, out |-> k.out] \in sent}}
Reached(n) == used[n] # {}
Stuck(n) == Got(n) # {} /\ ~Reached(n)

(* Which nodes ran depends on the data alone and not on the order in which *)
(* they were on the stack: those that got data on each input, and those    *)
(* that got enough and come after no node that did not.                    *)
RanAsDrawn ==
  OneSource /\ status = "ended" /\ checked /\ filter = Nodes =>
    \A n \in Nodes \ {Start} : Reached(n) <=>
      \/ Got(n) # {} /\ Got(n) = 0 .. Width(n) - 1
      \/ Got(n) # {} /\ Got(n) \in enough[n] /\ \A p \in Ancestors(n) : ~Stuck(p)

(* Data that were sent to a node wait, are on the stack or were received:  *)
(* "There is currently no node waiting that does not already have data for *)
(* the given input, so create a new entry" (workflow-execute.ts:569).      *)
DataIsKept ==
  \A d \in sent : \A l \in links : l.from = d.node /\ l.out = d.out /\ l.to \in filter =>
    \/ <<l.in, d>> \in used[l.to]
    \/ \E i \in DOMAIN waiting[l.to] : waiting[l.to][i][l.in] = d
    \/ \E k \in DOMAIN stack : stack[k].node = l.to /\ l.in \in DOMAIN stack[k].data /\ stack[k].data[l.in] = d
=============================================================================
