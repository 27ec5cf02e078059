---------------------------- MODULE MCTestWebhooks ----------------------------
(* A small instance of TestWebhooks for TLC. *)
EXTENDS TestWebhooks

CONSTANTS w, x

(* A workflow with one webhook and one with two. *)
OneAndTwo == [i \in Workflows |-> IF i = w THEN 1 ELSE 2]
=============================================================================
