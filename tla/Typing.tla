------------------------------- MODULE Typing -------------------------------
(***************************************************************************)
(* The typing indicator.  A tab tells the peer of its open conversation    *)
(* when a burst of typing starts and when it stops: after a pause (a       *)
(* timer), on an emptied input, on sending, on changing conversation.  The *)
(* server passes it on to the tabs of that peer and remembers nothing, so  *)
(* an indicator that is on goes off only if the stop arrives.              *)
(***************************************************************************)
EXTENDS Integers, SequencesExt

CONSTANTS
    User,
    Tab,
    TabUser,   \* the user signed in in each tab
    MayLeave,  \* the tabs that may log out, or lose the network
    MaxQueue,  \* bound: events waiting on one hop
    None

ASSUME TabUserAssumption == TabUser \in [Tab -> User]
ASSUME MayLeaveAssumption == MayLeave \subseteq Tab
ASSUME MaxQueueAssumption == MaxQueue \in Nat
ASSUME NoneAssumption == None \notin User

VARIABLES
    online,  \* the tabs whose socket is connected
    open,    \* per tab: the peer of the open conversation, or None
    draft,   \* the tabs with text in the composer
    sent,    \* the tabs whose sentTypingStartRef is true
    timer,   \* per tab: the peer the pending timer would tell, or None
    up,      \* per tab: typing:start and typing:stop not yet at the server
    wire,    \* per pair of tabs: typing:update on the way
    peer,    \* the tabs that show "is typing" (recipientTyping)
    left     \* history: tabs that logged out or lost the network

vars == <<online, open, draft, sent, timer, up, wire, peer, left>>

Notice == [typing : BOOLEAN, to : User]

TypeOK ==
    /\ online \subseteq Tab
    /\ open \in [Tab -> User \cup {None}]
    /\ draft \subseteq Tab
    /\ sent \subseteq Tab
    /\ timer \in [Tab -> User \cup {None}]
    /\ up \in [Tab -> Seq(Notice)]
    /\ wire \in [Tab -> [Tab -> Seq(BOOLEAN)]]
    /\ peer \subseteq Tab
    /\ left \subseteq Tab

Init ==
    /\ online = Tab
    /\ open = [t \in Tab |-> None]
    /\ draft = {}
    /\ sent = {}
    /\ timer = [t \in Tab |-> None]
    /\ up = [t \in Tab |-> <<>>]
    /\ wire = [s \in Tab |-> [t \in Tab |-> <<>>]]
    /\ peer = {}
    /\ left = {}

-----------------------------------------------------------------------------
(* The composer.                                                           *)

Room(t) == Len(up[t]) < MaxQueue
Emit(t, typing, to) ==
    up' = [up EXCEPT ![t] = Append(@, [typing |-> typing, to |-> to])]

\* Mutants: the timer is left running; the peer is not told.
StopBurstKeepsTimer(t) ==
    /\ Room(t)
    /\ sent' = sent \ {t}
    /\ IF t \in sent THEN Emit(t, FALSE, open[t]) ELSE UNCHANGED up
    /\ UNCHANGED timer
StopBurstSilent(t) ==
    /\ Room(t)
    /\ timer' = [timer EXCEPT ![t] = None]
    /\ sent' = sent \ {t}
    /\ UNCHANGED up

\* Clear the timer; if the burst was announced, tell the open peer it is over.
StopBurst(t) ==
    /\ Room(t)
    /\ timer' = [timer EXCEPT ![t] = None]
    /\ sent' = sent \ {t}
    /\ IF t \in sent THEN Emit(t, FALSE, open[t]) ELSE UNCHANGED up

\* handleDraftChange with text: the first keystroke of a burst is announced,
\* every one starts the timer again.
Keystroke(t) ==
    /\ open[t] # None /\ Room(t)
    /\ draft' = draft \cup {t}
    /\ sent' = sent \cup {t}
    /\ timer' = [timer EXCEPT ![t] = open[t]]
    /\ IF t \in sent THEN UNCHANGED up ELSE Emit(t, TRUE, open[t])
    /\ UNCHANGED <<online, open, wire, peer, left>>

\* handleDraftChange with an empty input, and handleSend.
EmptyDraft(t) ==
    /\ open[t] # None /\ t \in draft
    /\ draft' = draft \ {t}
    /\ StopBurst(t)
    /\ UNCHANGED <<online, open, wire, peer, left>>

\* Mutants: the timer clears the flag only; it forgets whom to tell.
FireSilent(t) ==
    /\ timer[t] # None
    /\ timer' = [timer EXCEPT ![t] = None]
    /\ sent' = sent \ {t}
    /\ UNCHANGED <<online, open, draft, up, wire, peer, left>>
FireForgets(t) ==
    /\ timer[t] # None /\ Room(t)
    /\ timer' = [timer EXCEPT ![t] = None]
    /\ sent' = sent \ {t}
    /\ Emit(t, FALSE, None)
    /\ UNCHANGED <<online, open, draft, wire, peer, left>>

\* TYPING_DEBOUNCE_MS without a keystroke: the peer that was open when the
\* timer was set is told.
Fire(t) ==
    /\ timer[t] # None /\ Room(t)
    /\ timer' = [timer EXCEPT ![t] = None]
    /\ sent' = sent \ {t}
    /\ IF t \in sent THEN Emit(t, FALSE, timer[t]) ELSE UNCHANGED up
    /\ UNCHANGED <<online, open, draft, wire, peer, left>>

\* Another conversation is selected: the cleanup of the effect ends the burst
\* with the old peer, and the indicator of the new one starts off.  The text
\* stays in the composer.
Select(t, u) ==
    /\ u \notin {open[t], TabUser[t]}
    /\ t \in online \/ open[t] # None
    /\ StopBurst(t)
    /\ open' = [open EXCEPT ![t] = u]
    /\ peer' = peer \ {t}
    /\ UNCHANGED <<online, draft, wire, left>>

-----------------------------------------------------------------------------
(* Sessions end and connections break.                                     *)

\* What was sent to a tab whose connection ends is lost.
Unplug(t) ==
    /\ t \in MayLeave
    /\ online' = online \ {t}
    /\ left' = left \cup {t}
    /\ wire' = [s \in Tab |-> [wire[s] EXCEPT ![t] = <<>>]]

\* logout disconnects the socket before ChatView unmounts, so the stop that its
\* cleanup emits goes nowhere; what was emitted before is still delivered.
Logout(t) ==
    /\ open[t] # None
    /\ Unplug(t)
    /\ open' = [open EXCEPT ![t] = None]
    /\ draft' = draft \ {t}
    /\ sent' = sent \ {t}
    /\ timer' = [timer EXCEPT ![t] = None]
    /\ peer' = peer \ {t}
    /\ up' = IF t \in online THEN up ELSE [up EXCEPT ![t] = <<>>]

\* The network fails: the tab keeps its state, what was under way is lost, and
\* what it emits from now on waits for the next connection.
Drop(t) ==
    /\ t \in online
    /\ Unplug(t)
    /\ up' = [up EXCEPT ![t] = <<>>]
    /\ UNCHANGED <<open, draft, sent, timer, peer>>

\* socket.io-client reconnects by itself; after a logout, a login does.
Connect(t) ==
    /\ t \notin online
    /\ online' = online \cup {t}
    /\ UNCHANGED <<open, draft, sent, timer, up, wire, peer, left>>

-----------------------------------------------------------------------------
(* typing:start and typing:stop at the server, and typing:update.          *)

\* The oldest notice of a tab reaches its node, which refuses one to oneself
\* and emits any other to the connected tabs of its addressee.
Relay(s) ==
    /\ up[s] # <<>>
    /\ s \in online \/ open[s] = None
    /\ \A t \in Tab : Len(wire[s][t]) < MaxQueue
    /\ up' = [up EXCEPT ![s] = Tail(@)]
    /\ LET n == Head(up[s])
       IN  wire' = [wire EXCEPT ![s] =
                      [t \in Tab |->
                         IF /\ t \in online
                            /\ TabUser[t] = n.to /\ n.to # TabUser[s]
                         THEN Append(@[t], n.typing) ELSE @[t]]]
    /\ UNCHANGED <<online, open, draft, sent, timer, peer, left>>

\* onTyping: only the peer of the open conversation is listened to.
Hear(s, t) ==
    /\ wire[s][t] # <<>>
    /\ wire' = [wire EXCEPT ![s][t] = Tail(@)]
    /\ peer' = IF open[t] # TabUser[s] THEN peer
               ELSE IF Head(wire[s][t]) THEN peer \cup {t} ELSE peer \ {t}
    /\ UNCHANGED <<online, open, draft, sent, timer, up, left>>

-----------------------------------------------------------------------------
Next ==
    \/ \E t \in Tab :
         \/ Keystroke(t) \/ EmptyDraft(t) \/ Fire(t)
         \/ \E u \in User : Select(t, u)
         \/ Logout(t) \/ Drop(t) \/ Connect(t) \/ Relay(t)
    \/ \E s, t \in Tab : Hear(s, t)

\* Timers fire, the server relays, browsers listen.  A timer that is set again
\* and again need not fire: the property that uses its fairness says so.
Fairness ==
    /\ \A t \in Tab : WF_vars(Fire(t)) /\ WF_vars(Relay(t))
    /\ \A s, t \in Tab : WF_vars(Hear(s, t))

Spec == Init /\ [][Next]_vars
FairSpec == Spec /\ Fairness

-----------------------------------------------------------------------------
\* An announced burst always has a timer that will end it with the peer it was
\* announced to, and no timer outlives its burst: the flag, the timer and the
\* open conversation are three refs changed in five places.
BurstHasTimer ==
    \A t \in Tab : /\ t \in sent => timer[t] = open[t] /\ open[t] # None
                   /\ t \notin sent => timer[t] = None

\* When nothing is on its way, "is typing" is shown only of a peer who has a tab
\* in a burst addressed to this user, whatever tabs and conversations were
\* switched between; or of one, or by one, whose session or connection ended.
IndicatorBacked ==
    (\A s, t \in Tab : up[s] = <<>> /\ wire[s][t] = <<>>) =>
        \A t \in peer \ left : \E s \in Tab :
            /\ TabUser[s] = open[t]
            /\ s \in left \/ (s \in sent /\ open[s] = TabUser[t])

\* If all stay connected and nobody types any more, every indicator goes off.
IndicatorClears ==
    /\ [](left = {})
    /\ <>[][\A t \in Tab : ~Keystroke(t)]_vars
    => \A t \in Tab : <>[](t \notin peer)
=============================================================================
