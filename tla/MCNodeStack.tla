----------------------------- MODULE MCNodeStack -----------------------------
(* Small workflows for NodeStack. *)
EXTENDS NodeStack, TLC

CONSTANTS t, a, m, k

Link(f, o, n, i) == [from |-> f, out |-> o, to |-> n, in |-> i]
From(S, n, i) == {Link(s[1], s[2], n, i) : s \in S}
Pairs(S, n) == {{x} : x \in From(S, n, 0)} \cup {{x, y} : x \in From(S, n, 0), y \in From(S, n, 1)}

(* t with two outputs, a after it, m and k after any of those before them, *)
(* with one or two inputs of one source each.                              *)
Drawings ==
  LET T == {<<t, 0>>, <<t, 1>>}
  IN  {x \cup y \cup z : x \in {{Link(t, 0, a, 0)}}, y \in Pairs(T \cup {<<a, 0>>}, m),
                         z \in Pairs(T \cup {<<a, 0>>, <<m, 0>>}, k)}

Places == {t :> 0 @@ r : r \in {a :> 1 @@ m :> 2 @@ k :> 3, k :> 1 @@ m :> 2 @@ a :> 3, m :> 1 @@ k :> 2 @@ a :> 3}}

(* All inputs required, the first one required, any one. *)
All == {}
First == {{0}, {0, 1}}
AnyOne == {{0}, {1}, {0, 1}}
Requirements == {t :> All @@ a :> All @@ m :> x @@ k :> y : x \in {All, AnyOne}, y \in {All, First, AnyOne}}

(* Three sources of the first input of k, the last of them after the only *)
(* source of the second.                                                  *)
Overtaken ==
  {{Link(t, 0, k, 0), Link(t, 0, a, 0), Link(a, 0, k, 0), Link(a, 0, m, 0), Link(m, 0, k, 1), Link(m, 1, k, 0)}}
=============================================================================
