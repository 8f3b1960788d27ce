---------------------------- MODULE PresenceCalm ----------------------------
(***************************************************************************)
(* Presence when a user's comings and goings are far enough apart: a tab   *)
(* opens only when no departure of the same user is still in flight, and   *)
(* closes only when no arrival is.  Tabs of one user may still open        *)
(* together, and close together, on different nodes.  This is the use the  *)
(* comments of presence.service.ts have in mind; under it the counter is   *)
(* exact, and the module shows that nothing but this is missing.  The      *)
(* steps are those of Presence; PresenceClient adds a tab that watches.    *)
(***************************************************************************)
EXTENDS Presence

\* Some step of a user's arrival, or departure, is still to be taken.
InFlight(u, ops, said) ==
    \E n \in Node :
        \/ \E i \in DOMAIN cmdq[n] : /\ cmdq[n][i].op \in ops
                                     /\ UserOf[cmdq[n][i].sock] = u
        \/ \E i \in DOMAIN replyq[n] : /\ replyq[n][i].op \in ops
                                       /\ UserOf[replyq[n][i].sock] = u
        \/ \E i \in DOMAIN inbox[n] : inbox[n][i] = [user |-> u, online |-> said]

Arriving(u) == InFlight(u, {"incr", "del", "sayOnline"}, TRUE)
Leaving(u) == InFlight(u, {"decr", "offline", "sayOffline"}, FALSE)

CalmSocket(s) ==
    \/ ~Leaving(UserOf[s]) /\ Connect(s)
    \/ ~Arriving(UserOf[s]) /\ Disconnect(s)

-----------------------------------------------------------------------------
\* The count is exact at every moment, between a DECR to 0 and its HDEL too: with
\* nobody of the user arriving meanwhile, the HDEL finds a 0 to remove.
ExactCount ==
    \A u \in User : counts[u] = Cardinality(counted \cap SocketsOf(u))

\* When nothing is in flight, Redis, lastSeen and every listener agree with
\* the sockets: what GET /presence and presence:update are documented to say.
SettledTruth ==
    Quiet => \A u \in User :
        LET here == \E s \in SocketsOf(u) : phase[s] = "open"
            been == \E s \in SocketsOf(u) : phase[s] = "closed"
        IN  /\ counts[u] > 0 <=> here
            /\ u \in lastSeen <=> been /\ ~here
            /\ \A n \in Node : view[n][u] = IF here THEN "online"
                                            ELSE IF been THEN "offline"
                                            ELSE "nothing"

\* Several tabs make two announcements in total, one online and one offline
\* (docs/api-and-socket-contract.md:443): no node announces what its own
\* listeners were last told.
AnnouncedOnce ==
    [][\A n \in Node :
         /\ OnDelReply(n) =>
              view[n][UserOf[Head(replyq[n]).sock]] # "online"
         /\ OnOfflineReply(n) =>
              view[n][UserOf[Head(replyq[n]).sock]] # "offline"]_vars
=============================================================================
