------------------------------ MODULE MCTyping ------------------------------
(* Typing on a small instance: alice and bob with one tab each; carol is     *)
(* somebody else to talk to.                                                 *)
EXTENDS Typing
CONSTANTS alice, bob, carol, a1, b1

MCTabUser == (a1 :> alice) @@ (b1 :> bob)
=============================================================================
