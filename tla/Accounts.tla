------------------------------ MODULE Accounts ------------------------------
(***************************************************************************)
(* Accounts, the private keys that belong to them, and what is sealed with *)
(* the public ones.  PostgreSQL holds a row per account with its public    *)
(* key; the private key is only in the IndexedDB of the browser that       *)
(* registered; a tab has a session once it has both.  The four are written *)
(* one after another, by a handler any step of which may be the last:      *)
(*                                                                         *)
(*    register: sent --row--> answered --key saved--> ready --> session    *)
(*    login:    sent --row--> answered --key loaded-> ready --> session    *)
(*                                                                         *)
(* A handler is not cancelled.  Several of one tab may be under way (the   *)
(* form can be submitted twice), and an answer may come after the tab has  *)
(* another session, or has logged out.                                     *)
(***************************************************************************)
CONSTANTS
    Device,    \* browsers: each has its own IndexedDB
    Tab,
    DeviceOf,  \* the browser of each tab
    Name,      \* stands for the username and the email, both unique
    Form,      \* submissions of the register and of the login form
    TabOf,     \* the tab of each
    IsLogin,   \* which of the two it is
    NameOf,    \* the name entered
    None       \* no account, no key, no session

ASSUME NoneAssumption == None \notin Form
ASSUME TabAssumption == DeviceOf \in [Tab -> Device]
ASSUME FormAssumption == /\ TabOf \in [Form -> Tab]
                         /\ IsLogin \in [Form -> BOOLEAN]
                         /\ NameOf \in [Form -> Name]

(***************************************************************************)
(* An account is named by the registration that created its row; so is a   *)
(* key pair by the one that generated it.                                  *)
(***************************************************************************)
Account == Form
Key == Form
KeyOrNone == Key \cup {None}

VARIABLES
    publicKey, \* per account: the column of its row; None: no row
    saved,     \* per device: the key pair stored under each account
    formpc,    \* per submission: where its handler is
    user,      \* per submission: the account it was answered
    key,       \* per submission: the key pair it generated or loaded
    session,   \* per tab: the account and private key, or None
    listpc,    \* per submission that began a session: its GET /users
    got,       \* per submission: the accounts that request was answered
    listed,    \* per tab: the accounts it shows
    selected,  \* per tab: the account whose conversation is open, or None
    messages   \* the sealed messages stored

vars == <<publicKey, saved, formpc, user, key, session, listpc, got, listed,
          selected, messages>>
forms == <<formpc, user, key>>
screen == <<listpc, got, listed, selected>>

Pending == {"sent", "answered", "ready"}
Session == [user : Account, priv : Key]
Message == [from : Account, to : Account, forTo : Key, forFrom : Key]

(***************************************************************************)
(* The type of the state.                                                  *)
(***************************************************************************)
TypeOK ==
    /\ publicKey \in [Account -> KeyOrNone]
    /\ saved \in [Device -> [Account -> KeyOrNone]]
    /\ formpc \in [Form -> {"idle", "done", "failed"} \cup Pending]
    /\ user \in [Form -> Account \cup {None}]
    /\ key \in [Form -> KeyOrNone]
    /\ session \in [Tab -> Session \cup {None}]
    /\ listpc \in [Form -> {"idle", "sent", "answered", "done", "failed"}]
    /\ got \in [Form -> SUBSET Account]
    /\ listed \in [Tab -> SUBSET Account]
    /\ selected \in [Tab -> Account \cup {None}]
    /\ messages \subseteq Message

Init ==
    /\ publicKey = [a \in Account |-> None]
    /\ saved = [d \in Device |-> [a \in Account |-> None]]
    /\ formpc = [f \in Form |-> "idle"]
    /\ user = [f \in Form |-> None]
    /\ key = [f \in Form |-> None]
    /\ session = [t \in Tab |-> None]
    /\ listpc = [f \in Form |-> "idle"]
    /\ got = [f \in Form |-> {}]
    /\ listed = [t \in Tab |-> {}]
    /\ selected = [t \in Tab |-> None]
    /\ messages = {}

-----------------------------------------------------------------------------
(* handleRegister and handleLogin, and the routes they call.               *)

Registered == {a \in Account : publicKey[a] # None}
Goto(f, pc) == formpc' = [formpc EXCEPT ![f] = pc]
Dev(f) == DeviceOf[TabOf[f]]

\* The unique constraints on username and email (P2002).
Taken(name) == \E a \in Registered : NameOf[a] = name

\* The user id in the token of a session, of its requests and of its socket.
Caller(f) == user[f]
SocketUser(t) == session[t].user

\* The form is there while the tab has no session.  A registration generates
\* its key pair before it posts.
Submit(f) ==
    /\ formpc[f] = "idle"
    /\ session[TabOf[f]] = None
    /\ Goto(f, "sent")
    /\ key' = [key EXCEPT ![f] = IF IsLogin[f] THEN None ELSE f]
    /\ UNCHANGED <<publicKey, saved, user, session, screen, messages>>

\* POST /auth/register: the row commits, unless one has the username or the
\* email (answered 409).
Create(f) ==
    /\ formpc[f] = "sent" /\ ~IsLogin[f]
    /\ IF Taken(NameOf[f])
       THEN Goto(f, "failed") /\ UNCHANGED <<publicKey, user>>
       ELSE /\ Goto(f, "answered")
            /\ publicKey' = [publicKey EXCEPT ![f] = key[f]]
            /\ user' = [user EXCEPT ![f] = f]
    /\ UNCHANGED <<saved, key, session, screen, messages>>

\* POST /auth/login: the row is found by its name and the password verified.
Find(f) ==
    /\ formpc[f] = "sent" /\ IsLogin[f]
    /\ \E a \in Registered : /\ NameOf[a] = NameOf[f]
                           /\ user' = [user EXCEPT ![f] = a]
    /\ Goto(f, "answered")
    /\ UNCHANGED <<publicKey, saved, key, session, screen, messages>>

\* Mutant: a browser has one slot for a key pair.
SaveOver(f) ==
    /\ formpc[f] = "answered" /\ ~IsLogin[f]
    /\ Goto(f, "ready")
    /\ saved' = [saved EXCEPT ![Dev(f)] =
                   [a \in Account |-> IF a = user[f] THEN key[f] ELSE None]]
    /\ UNCHANGED <<publicKey, user, key, session, screen, messages>>

\* saveKeyPair: the transaction completes.
Save(f) ==
    /\ formpc[f] = "answered" /\ ~IsLogin[f]
    /\ Goto(f, "ready")
    /\ saved' = [saved EXCEPT ![Dev(f)][user[f]] = key[f]]
    /\ UNCHANGED <<publicKey, user, key, session, screen, messages>>

\* Mutant: any key pair of this browser will do.
LoadAny(f) ==
    /\ formpc[f] = "answered" /\ IsLogin[f]
    /\ \E a \in Account : /\ saved[Dev(f)][a] # None
                          /\ key' = [key EXCEPT ![f] = saved[Dev(f)][a]]
    /\ Goto(f, "ready")
    /\ UNCHANGED <<publicKey, saved, user, session, screen, messages>>

\* Mutant: the login goes on without a key pair.
LoadUnchecked(f) ==
    /\ formpc[f] = "answered" /\ IsLogin[f]
    /\ Goto(f, "ready")
    /\ key' = [key EXCEPT ![f] = saved[Dev(f)][user[f]]]
    /\ UNCHANGED <<publicKey, saved, user, session, screen, messages>>

\* loadKeyPair; with no key pair here, the login is refused.
Load(f) ==
    /\ formpc[f] = "answered" /\ IsLogin[f]
    /\ LET kp == saved[Dev(f)][user[f]]
       IN  IF kp = None
           THEN Goto(f, "failed") /\ UNCHANGED key
           ELSE Goto(f, "ready") /\ key' = [key EXCEPT ![f] = kp]
    /\ UNCHANGED <<publicKey, saved, user, session, screen, messages>>

\* Mutant: saveKeyPair is not awaited.
EnterUnsaved(f) ==
    /\ formpc[f] \in {"answered", "ready"} /\ key[f] # None
    /\ Goto(f, "done")
    /\ session' = [session EXCEPT ![TabOf[f]] = [user |-> user[f], priv |-> key[f]]]
    /\ listpc' = [listpc EXCEPT ![f] = "sent"]
    /\ UNCHANGED <<publicKey, saved, user, key, got, listed, selected, messages>>

\* setSession, whatever the tab's session has become since; the effect on
\* [session] asks for the users.
Enter(f) ==
    /\ formpc[f] = "ready"
    /\ Goto(f, "done")
    /\ session' = [session EXCEPT ![TabOf[f]] = [user |-> user[f], priv |-> key[f]]]
    /\ listpc' = [listpc EXCEPT ![f] = "sent"]
    /\ UNCHANGED <<publicKey, saved, user, key, got, listed, selected, messages>>

\* Anything else that ends the handler: invalid input, wrong credentials, an
\* answer lost before or after the commit, an IndexedDB error.
Fail(f) ==
    /\ formpc[f] \in {"sent", "answered"}
    /\ Goto(f, "failed")
    /\ UNCHANGED <<publicKey, saved, user, key, session, screen, messages>>

-----------------------------------------------------------------------------
(* The list of users, and the conversation opened from it.                 *)

ListGoto(f, pc) == listpc' = [listpc EXCEPT ![f] = pc]

\* GET /users: every account but the one the token names.
ReadUsers(f) ==
    /\ listpc[f] = "sent"
    /\ ListGoto(f, "answered")
    /\ got' = [got EXCEPT ![f] = Registered \ {Caller(f)}]
    /\ UNCHANGED <<publicKey, saved, forms, session, listed, selected, messages>>

\* setUsers, whatever session the tab now has.
ShowUsers(f) ==
    /\ listpc[f] = "answered"
    /\ ListGoto(f, "done")
    /\ listed' = [listed EXCEPT ![TabOf[f]] = got[f]]
    /\ UNCHANGED <<publicKey, saved, forms, session, got, selected, messages>>

\* The request fails, or the token has expired: only the error is shown.
FailUsers(f) ==
    /\ listpc[f] \in {"sent", "answered"}
    /\ ListGoto(f, "failed")
    /\ UNCHANGED <<publicKey, saved, forms, session, got, listed, selected, messages>>

\* The user clicks on a peer.
Select(t, a) ==
    /\ session[t] # None /\ a \in listed[t]
    /\ selected' = [selected EXCEPT ![t] = a]
    /\ UNCHANGED <<publicKey, saved, forms, session, listpc, got, listed, messages>>

\* Mutant: the two copies are swapped.
SealSwapped(t) ==
    /\ session[t] # None /\ selected[t] \notin {None, SocketUser(t)}
    /\ LET me == SocketUser(t)
           to == selected[t]
       IN  messages' = messages \cup
             {[from |-> me, to |-> to,
               forTo |-> publicKey[me], forFrom |-> publicKey[to]]}
    /\ UNCHANGED <<publicKey, saved, forms, session, screen>>

\* handleSend: one copy is sealed to the recipient's public key and one to the
\* sender's own; the server refuses a message to oneself and stores another
\* as it is.
Seal(t) ==
    /\ session[t] # None /\ selected[t] \notin {None, SocketUser(t)}
    /\ LET me == SocketUser(t)
           to == selected[t]
       IN  messages' = messages \cup
             {[from |-> me, to |-> to,
               forTo |-> publicKey[to], forFrom |-> publicKey[me]]}
    /\ UNCHANGED <<publicKey, saved, forms, session, screen>>

\* logout: the session, the list and the selection go; handlers do not.
Logout(t) ==
    /\ session[t] # None
    /\ session' = [session EXCEPT ![t] = None]
    /\ listed' = [listed EXCEPT ![t] = {}]
    /\ selected' = [selected EXCEPT ![t] = None]
    /\ UNCHANGED <<publicKey, saved, forms, listpc, got, messages>>

\* The page is reloaded or closed: all of the tab's memory goes.
Reload(t) ==
    /\ formpc' = [f \in Form |-> IF TabOf[f] = t /\ formpc[f] \in Pending
                                 THEN "failed" ELSE formpc[f]]
    /\ listpc' = [f \in Form |-> IF TabOf[f] = t /\ listpc[f] \in {"sent", "answered"}
                                 THEN "failed" ELSE listpc[f]]
    /\ session' = [session EXCEPT ![t] = None]
    /\ listed' = [listed EXCEPT ![t] = {}]
    /\ selected' = [selected EXCEPT ![t] = None]
    /\ UNCHANGED <<publicKey, saved, user, key, got, messages>>

-----------------------------------------------------------------------------
Next ==
    \/ \E f \in Form : \/ Submit(f) \/ Create(f) \/ Find(f) \/ Save(f) \/ Load(f)
                       \/ Enter(f) \/ Fail(f)
                       \/ ReadUsers(f) \/ ShowUsers(f) \/ FailUsers(f)
    \/ \E t \in Tab : \/ \E a \in Account : Select(t, a)
                      \/ Seal(t) \/ Logout(t) \/ Reload(t)

Spec == Init /\ [][Next]_vars

-----------------------------------------------------------------------------
(* What accounts and keys promise.                                         *)

\* A session always has the private key of its account's public key, whichever
\* handler of the tab set it, in whatever order they ended.
KeyMatches ==
    \A t \in Tab : session[t] # None =>
        session[t].priv = publicKey[session[t].user]

\* What a session can open, a later login on this browser can open again: its
\* key is saved under its account.  So an account whose registration ended
\* between the row and the key is never in use.
SessionKeyKept ==
    \A t \in Tab : session[t] # None =>
        saved[DeviceOf[t]][session[t].user] = session[t].priv

\* decryptForCurrentUser with the session's key pair.
Opens(s, m) ==
    (IF m.from = s.user THEN m.forFrom ELSE m.forTo) = s.priv

\* Every stored message opens in every session of its two users, the sender's
\* later ones included, though it may have been sealed from a list, or to a
\* selection, of an earlier session of the tab.
SealedOpens ==
    \A t \in Tab, m \in messages :
        session[t] # None /\ session[t].user \in {m.from, m.to}
          => Opens(session[t], m)

\* A key pair once saved stays: registering another account in the same
\* browser does not touch it.
SavedStays ==
    [][\A d \in Device, a \in Account :
         saved[d][a] # None => saved'[d][a] = saved[d][a]]_vars
=============================================================================
