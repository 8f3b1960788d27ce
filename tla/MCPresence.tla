----------------------------- MODULE MCPresence -----------------------------
(* Presence on small instances: values for its constants. *)
EXTENDS Presence, TLC
CONSTANTS n1, n2, ann, s1, s2, s3

OneUser == [s \in Socket |-> ann]

\* Sockets of one user are interchangeable: no definition tells them apart.
SocketSymmetry == Permutations(Socket)
=============================================================================
