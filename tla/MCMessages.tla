----------------------------- MODULE MCMessages -----------------------------
(* Messages on a small instance: alice with a tab on each of two nodes, bob *)
(* with one on the second, carol with one on the first; alice's message to  *)
(* bob, and one bob addresses to himself.                                   *)
EXTENDS Messages
CONSTANTS alice, bob, carol, n1, n2, a1, a2, b1, c1, m1, mSelf, d1, r1, rH, rA

MCTabUser == [t \in Tab |-> IF t = b1 THEN bob ELSE IF t = c1 THEN carol ELSE alice]
MCTabNode == [t \in Tab |-> IF t \in {a2, b1} THEN n2 ELSE n1]
MCFrom == [m \in Msg |-> IF m = m1 THEN a1 ELSE b1]
MCTo == [m \in Msg |-> bob]
\* d1 and r1: onNew in bob's tab.  rH: the same tab from a history it loaded.
\* rA: alice, not the recipient.
MCBy == [c \in Call |-> IF c = rA THEN a1 ELSE b1]
MCKind == [c \in Call |-> IF c = d1 THEN "delivered" ELSE "read"]
MCOn == [c \in Call |-> m1]
MCLive == Call \cap {d1, r1}
=============================================================================
