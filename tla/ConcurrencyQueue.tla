-------------------------- MODULE ConcurrencyQueue --------------------------
(***************************************************************************)
(* The queue behind the concurrency limit of one kind of execution         *)
(* (cli/src/concurrency/concurrency-queue.ts): a signed capacity and the   *)
(* callers it has blocked.  A capacity below zero means that many callers  *)
(* were sent to wait.  Items are the blocked callers of `enqueue`: the     *)
(* promise of an item resolves when the item is released.                  *)
(***************************************************************************)
EXTENDS Integers, Sequences

NewQueue(limit) == [capacity |-> limit, items |-> <<>>]

(* A definition named Slip... is a plausible mistake in the definition after *)
(* it; no specification uses it.                                             *)
SlipBlocks(q) == q.capacity < 0

(* `enqueue`: take one unit; below zero the caller waits at the back. *)
Blocks(q) == q.capacity - 1 < 0

SlipEnqueue(q, item) ==
  [ capacity |-> IF Blocks(q) THEN q.capacity ELSE q.capacity - 1,
    items    |-> IF Blocks(q) THEN Append(q.items, item) ELSE q.items ]

Enqueue(q, item) ==
  [ capacity |-> q.capacity - 1,
    items    |-> IF Blocks(q) THEN Append(q.items, item) ELSE q.items ]

(* `resolveNext`: the oldest item, if there is one, leaves and is released. *)
SlipNonempty(items) == Len(items) > 1

Nonempty(items) == items # <<>>

SlipReleased(items) == IF Nonempty(items) THEN {items[Len(items)]} ELSE {}

Released(items) == IF Nonempty(items) THEN {Head(items)} ELSE {}

Rest(items) == IF Nonempty(items) THEN Tail(items) ELSE items

(* `dequeue`: give one unit back and release the oldest item. *)
Dequeue(q) == [ capacity |-> q.capacity + 1, items |-> Rest(q.items) ]

(* The items left when the i-th is spliced out. *)
Without(items, i) ==
  [ j \in 1 .. Len(items) - 1 |-> items[IF j < i THEN j ELSE j + 1] ]

(* `remove` of the i-th item: splice it, give its unit back, release. *)
Remove(q, i) ==
  [ capacity |-> q.capacity + 1, items |-> Rest(Without(q.items, i)) ]
=============================================================================
