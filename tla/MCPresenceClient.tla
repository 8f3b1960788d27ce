-------------------------- MODULE MCPresenceClient --------------------------
(* PresenceClient on a small instance: values for its constants. *)
EXTENDS PresenceClient, TLC
CONSTANTS n1, n2, ann, bob, s1, s2

\* bob never connects: he makes the list of users one without ann.
OneUser == [s \in Socket |-> ann]
SocketSymmetry == Permutations(Socket)
=============================================================================
