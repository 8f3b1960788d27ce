--------------------------- MODULE AccountsProofs ---------------------------
(* Theorems about Accounts, for any browsers, tabs, names and submissions. *)
EXTENDS Accounts, TLAPS

-----------------------------------------------------------------------------
(* The inductive invariant: an account, its row and its key pair carry one *)
(* name, and every place that holds one of them holds it rightly.          *)

\* A row has the public key of its registration; a key pair is saved under its
\* own account, which then has its row.
RowsAndKeys ==
    \A a \in Account :
        /\ publicKey[a] \in {a, None}
        /\ \A d \in Device : saved[d][a] # None => /\ saved[d][a] = a
                                                   /\ publicKey[a] = a

\* A handler that was answered knows an account with a row; one that is ready
\* has the key pair, saved in its browser.
Handlers ==
    \A f \in Form :
        /\ formpc[f] = "sent" /\ ~IsLogin[f] => key[f] = f
        /\ formpc[f] \in {"answered", "ready"} => user[f] \in Registered
        /\ formpc[f] = "answered" /\ ~IsLogin[f] => user[f] = f /\ key[f] = f
        /\ formpc[f] = "ready" => /\ key[f] = user[f]
                                  /\ saved[Dev(f)][user[f]] = user[f]

\* A session has the key pair of its account, saved in its browser.
Sessions ==
    \A t \in Tab : session[t] # None =>
        /\ session[t].priv = session[t].user
        /\ saved[DeviceOf[t]][session[t].user] = session[t].user

\* What a tab shows, whatever session it is of, are accounts with a row.
Peers ==
    /\ \A f \in Form : got[f] \subseteq Registered
    /\ \A t \in Tab : /\ listed[t] \subseteq Registered
                      /\ selected[t] \in Registered \cup {None}

\* Each copy is sealed to the key of its own reader.
Sealed == \A m \in messages : m.forTo = m.to /\ m.forFrom = m.from

IInv == TypeOK /\ RowsAndKeys /\ Handlers /\ Sessions /\ Peers /\ Sealed

-----------------------------------------------------------------------------
LEMMA InitInv == Init => IInv
  BY NoneAssumption DEF Init, IInv, TypeOK, RowsAndKeys, Handlers, Sessions, Peers,
     Sealed, Registered, KeyOrNone, Account, Key, Pending

LEMMA ExceptType ==
    ASSUME NEW S, NEW V, NEW fn \in [S -> V], NEW x \in S, NEW y \in V
    PROVE  [fn EXCEPT ![x] = y] \in [S -> V]
  OBVIOUS

LEMMA StepType == IInv /\ [Next]_vars => TypeOK'
  <1> SUFFICES ASSUME IInv, [Next]_vars PROVE TypeOK'
    OBVIOUS
  <1> USE FormAssumption, TabAssumption, NoneAssumption
      DEF IInv, TypeOK, Handlers, Account, Key, KeyOrNone, Pending, Session,
          Registered, Taken, Caller, SocketUser, Dev, forms, screen, Goto, ListGoto
  <1>1. ASSUME NEW f \in Form, Submit(f) PROVE TypeOK'
    BY <1>1 DEF Submit
  <1>2. ASSUME NEW f \in Form, Create(f) PROVE TypeOK'
    <2>1. CASE Taken(NameOf[f])
      BY <1>2, <2>1 DEF Create
    <2>2. CASE ~Taken(NameOf[f])
      <3>1. /\ publicKey' = [publicKey EXCEPT ![f] = key[f]]
            /\ user' = [user EXCEPT ![f] = f]
        BY <1>2, <2>2 DEF Create
      <3>2. formpc' \in [Form -> {"idle", "done", "failed"} \cup Pending]
        BY <1>2, <2>2 DEF Create
      <3>3. publicKey' \in [Account -> KeyOrNone]
        BY <3>1, ExceptType
      <3>4. user' \in [Form -> Account \cup {None}]
        BY <3>1, ExceptType
      <3> QED
        BY <1>2, <3>2, <3>3, <3>4 DEF Create
    <2> QED
      BY <2>1, <2>2
  <1>3. ASSUME NEW f \in Form, Find(f) PROVE TypeOK'
    BY <1>3 DEF Find
  <1>4. ASSUME NEW f \in Form, Save(f) PROVE TypeOK'
    BY <1>4 DEF Save
  <1>5. ASSUME NEW f \in Form, Load(f) PROVE TypeOK'
    <2>1. formpc' \in [Form -> {"idle", "done", "failed"} \cup Pending]
      BY <1>5 DEF Load
    <2>2. user[f] \in Account /\ Dev(f) \in Device
      BY <1>5 DEF Load
    <2>3. saved[Dev(f)][user[f]] \in KeyOrNone
      BY <2>2
    <2>4. \/ key' = key
          \/ key' = [key EXCEPT ![f] = saved[Dev(f)][user[f]]]
      BY <1>5 DEF Load
    <2>5. key' \in [Form -> KeyOrNone]
      BY <2>3, <2>4, ExceptType
    <2> QED
      BY <1>5, <2>1, <2>5 DEF Load
  <1>6. ASSUME NEW f \in Form, Enter(f) PROVE TypeOK'
    BY <1>6 DEF Enter
  <1>7. ASSUME NEW f \in Form, Fail(f) PROVE TypeOK'
    BY <1>7 DEF Fail
  <1>8. ASSUME NEW f \in Form, ReadUsers(f) PROVE TypeOK'
    BY <1>8 DEF ReadUsers
  <1>9. ASSUME NEW f \in Form, ShowUsers(f) PROVE TypeOK'
    BY <1>9 DEF ShowUsers
  <1>10. ASSUME NEW f \in Form, FailUsers(f) PROVE TypeOK'
    BY <1>10 DEF FailUsers
  <1>11. ASSUME NEW t \in Tab, NEW a \in Account, Select(t, a) PROVE TypeOK'
    BY <1>11 DEF Select
  <1>12. ASSUME NEW t \in Tab, Seal(t) PROVE TypeOK'
    <2>1. session[t] \in Session /\ selected[t] \in Registered
      BY <1>12 DEF Seal, Peers
    <2>2. publicKey[selected[t]] \in Key
      BY <2>1
    <2>3. DeviceOf[t] \in Device /\ session[t].user \in Account
      BY <2>1
    <2>4. saved[DeviceOf[t]][session[t].user] = session[t].user
      BY <1>12 DEF Seal, Sessions
    <2>5. publicKey[session[t].user] \in Key
      BY <2>3, <2>4 DEF RowsAndKeys
    <2>6. messages' \subseteq Message
      BY <1>12, <2>1, <2>2, <2>5 DEF Seal, Message
    <2> QED
      BY <1>12, <2>6 DEF Seal
  <1>13. ASSUME NEW t \in Tab, Logout(t) PROVE TypeOK'
    BY <1>13 DEF Logout
  <1>14. ASSUME NEW t \in Tab, Reload(t) PROVE TypeOK'
    BY <1>14 DEF Reload
  <1>15. CASE UNCHANGED vars
    BY <1>15 DEF vars
  <1> QED
    BY <1>1, <1>2, <1>3, <1>4, <1>5, <1>6, <1>7, <1>8, <1>9, <1>10, <1>11, <1>12, <1>13, <1>14, <1>15 DEF Next

LEMMA StepRows == IInv /\ [Next]_vars => RowsAndKeys'
  <1> SUFFICES ASSUME IInv, [Next]_vars PROVE RowsAndKeys'
    OBVIOUS
  <1> USE FormAssumption, TabAssumption, NoneAssumption
      DEF IInv, TypeOK, RowsAndKeys, Handlers, Account, Key, KeyOrNone, Registered, Taken,
          Caller, SocketUser, Dev, forms, screen
  <1>1. ASSUME NEW f \in Form, Submit(f) PROVE RowsAndKeys'
    BY <1>1 DEF Submit
  <1>2. ASSUME NEW f \in Form, Create(f) PROVE RowsAndKeys'
    BY <1>2 DEF Create
  <1>3. ASSUME NEW f \in Form, Find(f) PROVE RowsAndKeys'
    BY <1>3 DEF Find
  <1>4. ASSUME NEW f \in Form, Save(f) PROVE RowsAndKeys'
    BY <1>4 DEF Save
  <1>5. ASSUME NEW f \in Form, Load(f) PROVE RowsAndKeys'
    BY <1>5 DEF Load
  <1>6. ASSUME NEW f \in Form, Enter(f) PROVE RowsAndKeys'
    BY <1>6 DEF Enter
  <1>7. ASSUME NEW f \in Form, Fail(f) PROVE RowsAndKeys'
    BY <1>7 DEF Fail
  <1>8. ASSUME NEW f \in Form, ReadUsers(f) PROVE RowsAndKeys'
    BY <1>8 DEF ReadUsers
  <1>9. ASSUME NEW f \in Form, ShowUsers(f) PROVE RowsAndKeys'
    BY <1>9 DEF ShowUsers
  <1>10. ASSUME NEW f \in Form, FailUsers(f) PROVE RowsAndKeys'
    BY <1>10 DEF FailUsers
  <1>11. ASSUME NEW t \in Tab, NEW a \in Account, Select(t, a) PROVE RowsAndKeys'
    BY <1>11 DEF Select
  <1>12. ASSUME NEW t \in Tab, Seal(t) PROVE RowsAndKeys'
    BY <1>12 DEF Seal
  <1>13. ASSUME NEW t \in Tab, Logout(t) PROVE RowsAndKeys'
    BY <1>13 DEF Logout
  <1>14. ASSUME NEW t \in Tab, Reload(t) PROVE RowsAndKeys'
    BY <1>14 DEF Reload
  <1>15. CASE UNCHANGED vars
    BY <1>15 DEF vars
  <1> QED
    BY <1>1, <1>2, <1>3, <1>4, <1>5, <1>6, <1>7, <1>8, <1>9, <1>10, <1>11, <1>12, <1>13, <1>14, <1>15 DEF Next

LEMMA StepHandlers == IInv /\ [Next]_vars => Handlers'
  <1> SUFFICES ASSUME IInv, [Next]_vars PROVE Handlers'
    OBVIOUS
  <1> USE FormAssumption, TabAssumption, NoneAssumption
      DEF IInv, TypeOK, RowsAndKeys, Handlers, Account, Key, KeyOrNone, Pending,
          Registered, Taken, Caller, SocketUser, Dev, forms, screen, Goto
  <1>1. ASSUME NEW f \in Form, Submit(f) PROVE Handlers'
    BY <1>1 DEF Submit
  <1>2. ASSUME NEW f \in Form, Create(f) PROVE Handlers'
    BY <1>2 DEF Create
  <1>3. ASSUME NEW f \in Form, Find(f) PROVE Handlers'
    BY <1>3 DEF Find
  <1>4. ASSUME NEW f \in Form, Save(f) PROVE Handlers'
    BY <1>4 DEF Save
  <1>5. ASSUME NEW f \in Form, Load(f) PROVE Handlers'
    BY <1>5 DEF Load
  <1>6. ASSUME NEW f \in Form, Enter(f) PROVE Handlers'
    BY <1>6 DEF Enter
  <1>7. ASSUME NEW f \in Form, Fail(f) PROVE Handlers'
    BY <1>7 DEF Fail
  <1>8. ASSUME NEW f \in Form, ReadUsers(f) PROVE Handlers'
    BY <1>8 DEF ReadUsers
  <1>9. ASSUME NEW f \in Form, ShowUsers(f) PROVE Handlers'
    BY <1>9 DEF ShowUsers
  <1>10. ASSUME NEW f \in Form, FailUsers(f) PROVE Handlers'
    BY <1>10 DEF FailUsers
  <1>11. ASSUME NEW t \in Tab, NEW a \in Account, Select(t, a) PROVE Handlers'
    BY <1>11 DEF Select
  <1>12. ASSUME NEW t \in Tab, Seal(t) PROVE Handlers'
    BY <1>12 DEF Seal
  <1>13. ASSUME NEW t \in Tab, Logout(t) PROVE Handlers'
    BY <1>13 DEF Logout
  <1>14. ASSUME NEW t \in Tab, Reload(t) PROVE Handlers'
    BY <1>14 DEF Reload
  <1>15. CASE UNCHANGED vars
    BY <1>15 DEF vars
  <1> QED
    BY <1>1, <1>2, <1>3, <1>4, <1>5, <1>6, <1>7, <1>8, <1>9, <1>10, <1>11, <1>12, <1>13, <1>14, <1>15 DEF Next

LEMMA StepSessions == IInv /\ [Next]_vars => Sessions'
  <1> SUFFICES ASSUME IInv, [Next]_vars PROVE Sessions'
    OBVIOUS
  <1> USE FormAssumption, TabAssumption, NoneAssumption
      DEF IInv, TypeOK, RowsAndKeys, Handlers, Sessions, Session, Account, Key,
          KeyOrNone, Registered, Taken, Caller, SocketUser, Dev, forms, screen
  <1>1. ASSUME NEW f \in Form, Submit(f) PROVE Sessions'
    BY <1>1 DEF Submit
  <1>2. ASSUME NEW f \in Form, Create(f) PROVE Sessions'
    BY <1>2 DEF Create
  <1>3. ASSUME NEW f \in Form, Find(f) PROVE Sessions'
    BY <1>3 DEF Find
  <1>4. ASSUME NEW f \in Form, Save(f) PROVE Sessions'
    BY <1>4 DEF Save
  <1>5. ASSUME NEW f \in Form, Load(f) PROVE Sessions'
    BY <1>5 DEF Load
  <1>6. ASSUME NEW f \in Form, Enter(f) PROVE Sessions'
    BY <1>6 DEF Enter
  <1>7. ASSUME NEW f \in Form, Fail(f) PROVE Sessions'
    BY <1>7 DEF Fail
  <1>8. ASSUME NEW f \in Form, ReadUsers(f) PROVE Sessions'
    BY <1>8 DEF ReadUsers
  <1>9. ASSUME NEW f \in Form, ShowUsers(f) PROVE Sessions'
    BY <1>9 DEF ShowUsers
  <1>10. ASSUME NEW f \in Form, FailUsers(f) PROVE Sessions'
    BY <1>10 DEF FailUsers
  <1>11. ASSUME NEW t \in Tab, NEW a \in Account, Select(t, a) PROVE Sessions'
    BY <1>11 DEF Select
  <1>12. ASSUME NEW t \in Tab, Seal(t) PROVE Sessions'
    BY <1>12 DEF Seal
  <1>13. ASSUME NEW t \in Tab, Logout(t) PROVE Sessions'
    BY <1>13 DEF Logout
  <1>14. ASSUME NEW t \in Tab, Reload(t) PROVE Sessions'
    BY <1>14 DEF Reload
  <1>15. CASE UNCHANGED vars
    BY <1>15 DEF vars
  <1> QED
    BY <1>1, <1>2, <1>3, <1>4, <1>5, <1>6, <1>7, <1>8, <1>9, <1>10, <1>11, <1>12, <1>13, <1>14, <1>15 DEF Next

LEMMA StepPeers == IInv /\ [Next]_vars => Peers'
  <1> SUFFICES ASSUME IInv, [Next]_vars PROVE Peers'
    OBVIOUS
  <1> USE FormAssumption, TabAssumption, NoneAssumption
      DEF IInv, TypeOK, Handlers, Peers, Account, Key, KeyOrNone, Registered, Taken,
          Caller, forms, screen
  <1>1. ASSUME NEW f \in Form, Submit(f) PROVE Peers'
    BY <1>1 DEF Submit
  <1>2. ASSUME NEW f \in Form, Create(f) PROVE Peers'
    BY <1>2 DEF Create
  <1>3. ASSUME NEW f \in Form, Find(f) PROVE Peers'
    BY <1>3 DEF Find
  <1>4. ASSUME NEW f \in Form, Save(f) PROVE Peers'
    BY <1>4 DEF Save
  <1>5. ASSUME NEW f \in Form, Load(f) PROVE Peers'
    BY <1>5 DEF Load
  <1>6. ASSUME NEW f \in Form, Enter(f) PROVE Peers'
    BY <1>6 DEF Enter
  <1>7. ASSUME NEW f \in Form, Fail(f) PROVE Peers'
    BY <1>7 DEF Fail
  <1>8. ASSUME NEW f \in Form, ReadUsers(f) PROVE Peers'
    BY <1>8 DEF ReadUsers
  <1>9. ASSUME NEW f \in Form, ShowUsers(f) PROVE Peers'
    BY <1>9 DEF ShowUsers
  <1>10. ASSUME NEW f \in Form, FailUsers(f) PROVE Peers'
    BY <1>10 DEF FailUsers
  <1>11. ASSUME NEW t \in Tab, NEW a \in Account, Select(t, a) PROVE Peers'
    BY <1>11 DEF Select
  <1>12. ASSUME NEW t \in Tab, Seal(t) PROVE Peers'
    BY <1>12 DEF Seal
  <1>13. ASSUME NEW t \in Tab, Logout(t) PROVE Peers'
    BY <1>13 DEF Logout
  <1>14. ASSUME NEW t \in Tab, Reload(t) PROVE Peers'
    BY <1>14 DEF Reload
  <1>15. CASE UNCHANGED vars
    BY <1>15 DEF vars
  <1> QED
    BY <1>1, <1>2, <1>3, <1>4, <1>5, <1>6, <1>7, <1>8, <1>9, <1>10, <1>11, <1>12, <1>13, <1>14, <1>15 DEF Next

LEMMA StepSealed == IInv /\ [Next]_vars => Sealed'
  <1> SUFFICES ASSUME IInv, [Next]_vars PROVE Sealed'
    OBVIOUS
  <1> USE FormAssumption, TabAssumption, NoneAssumption
      DEF IInv, TypeOK, RowsAndKeys, Sessions, Session, Peers, Sealed, Account, Key,
          KeyOrNone, Registered, Taken, SocketUser, forms, screen
  <1>1. ASSUME NEW f \in Form, Submit(f) PROVE Sealed'
    BY <1>1 DEF Submit
  <1>2. ASSUME NEW f \in Form, Create(f) PROVE Sealed'
    BY <1>2 DEF Create
  <1>3. ASSUME NEW f \in Form, Find(f) PROVE Sealed'
    BY <1>3 DEF Find
  <1>4. ASSUME NEW f \in Form, Save(f) PROVE Sealed'
    BY <1>4 DEF Save
  <1>5. ASSUME NEW f \in Form, Load(f) PROVE Sealed'
    BY <1>5 DEF Load
  <1>6. ASSUME NEW f \in Form, Enter(f) PROVE Sealed'
    BY <1>6 DEF Enter
  <1>7. ASSUME NEW f \in Form, Fail(f) PROVE Sealed'
    BY <1>7 DEF Fail
  <1>8. ASSUME NEW f \in Form, ReadUsers(f) PROVE Sealed'
    BY <1>8 DEF ReadUsers
  <1>9. ASSUME NEW f \in Form, ShowUsers(f) PROVE Sealed'
    BY <1>9 DEF ShowUsers
  <1>10. ASSUME NEW f \in Form, FailUsers(f) PROVE Sealed'
    BY <1>10 DEF FailUsers
  <1>11. ASSUME NEW t \in Tab, NEW a \in Account, Select(t, a) PROVE Sealed'
    BY <1>11 DEF Select
  <1>12. ASSUME NEW t \in Tab, Seal(t) PROVE Sealed'
    BY <1>12 DEF Seal
  <1>13. ASSUME NEW t \in Tab, Logout(t) PROVE Sealed'
    BY <1>13 DEF Logout
  <1>14. ASSUME NEW t \in Tab, Reload(t) PROVE Sealed'
    BY <1>14 DEF Reload
  <1>15. CASE UNCHANGED vars
    BY <1>15 DEF vars
  <1> QED
    BY <1>1, <1>2, <1>3, <1>4, <1>5, <1>6, <1>7, <1>8, <1>9, <1>10, <1>11, <1>12, <1>13, <1>14, <1>15 DEF Next

LEMMA StepInv == IInv /\ [Next]_vars => IInv'
  BY StepType, StepRows, StepHandlers, StepSessions, StepPeers, StepSealed DEF IInv

LEMMA Invariance == Spec => []IInv
  BY InitInv, StepInv, PTL DEF Spec

-----------------------------------------------------------------------------
(* The theorems.                                                           *)

\* The state keeps its type.
THEOREM TypeCorrect == Spec => []TypeOK
  <1>1. IInv => TypeOK
    BY DEF IInv
  <1> QED
    BY <1>1, Invariance, PTL

\* A session's private key opens its account's public key, whichever of a tab's
\* handlers set it.
THEOREM KeyMatchesAlways == Spec => []KeyMatches
  <1>1. IInv => KeyMatches
    <2> SUFFICES ASSUME IInv, NEW t \in Tab, session[t] # None
                 PROVE  session[t].priv = publicKey[session[t].user]
      BY DEF KeyMatches
    <2>1. session[t] \in Session
      BY DEF IInv, TypeOK
    <2>2. DeviceOf[t] \in Device /\ session[t].user \in Account
      BY <2>1, TabAssumption DEF Session
    <2>3. saved[DeviceOf[t]][session[t].user] # None
      BY <2>2, NoneAssumption DEF IInv, Sessions, Account
    <2> QED
      BY <2>2, <2>3 DEF IInv, RowsAndKeys, Sessions
  <1> QED
    BY <1>1, Invariance, PTL

\* A session's key pair is saved in its browser, under its account.
THEOREM SessionKeyKeptAlways == Spec => []SessionKeyKept
  <1>1. IInv => SessionKeyKept
    BY DEF IInv, Sessions, SessionKeyKept
  <1> QED
    BY <1>1, Invariance, PTL

\* Every stored message opens in every session of its two users.
THEOREM SealedOpensAlways == Spec => []SealedOpens
  <1>1. IInv => SealedOpens
    BY DEF IInv, Sessions, Sealed, SealedOpens, Opens
  <1> QED
    BY <1>1, Invariance, PTL

KeptStep == \A d \in Device, a \in Account :
              saved[d][a] # None => saved'[d][a] = saved[d][a]

LEMMA StepSaved == IInv /\ [Next]_vars => KeptStep
  <1> SUFFICES ASSUME IInv, [Next]_vars PROVE KeptStep
    OBVIOUS
  <1> USE FormAssumption, TabAssumption, NoneAssumption
      DEF IInv, TypeOK, RowsAndKeys, Handlers, KeptStep, Account, Key, KeyOrNone,
          Taken, Dev, forms, screen
  <1>1. ASSUME NEW f \in Form, Submit(f) PROVE KeptStep
    BY <1>1 DEF Submit
  <1>2. ASSUME NEW f \in Form, Create(f) PROVE KeptStep
    BY <1>2 DEF Create
  <1>3. ASSUME NEW f \in Form, Find(f) PROVE KeptStep
    BY <1>3 DEF Find
  <1>4. ASSUME NEW f \in Form, Save(f) PROVE KeptStep
    BY <1>4 DEF Save
  <1>5. ASSUME NEW f \in Form, Load(f) PROVE KeptStep
    BY <1>5 DEF Load
  <1>6. ASSUME NEW f \in Form, Enter(f) PROVE KeptStep
    BY <1>6 DEF Enter
  <1>7. ASSUME NEW f \in Form, Fail(f) PROVE KeptStep
    BY <1>7 DEF Fail
  <1>8. ASSUME NEW f \in Form, ReadUsers(f) PROVE KeptStep
    BY <1>8 DEF ReadUsers
  <1>9. ASSUME NEW f \in Form, ShowUsers(f) PROVE KeptStep
    BY <1>9 DEF ShowUsers
  <1>10. ASSUME NEW f \in Form, FailUsers(f) PROVE KeptStep
    BY <1>10 DEF FailUsers
  <1>11. ASSUME NEW t \in Tab, NEW a \in Account, Select(t, a) PROVE KeptStep
    BY <1>11 DEF Select
  <1>12. ASSUME NEW t \in Tab, Seal(t) PROVE KeptStep
    BY <1>12 DEF Seal
  <1>13. ASSUME NEW t \in Tab, Logout(t) PROVE KeptStep
    BY <1>13 DEF Logout
  <1>14. ASSUME NEW t \in Tab, Reload(t) PROVE KeptStep
    BY <1>14 DEF Reload
  <1>15. CASE UNCHANGED vars
    BY <1>15 DEF vars
  <1> QED
    BY <1>1, <1>2, <1>3, <1>4, <1>5, <1>6, <1>7, <1>8, <1>9, <1>10, <1>11, <1>12, <1>13, <1>14, <1>15 DEF Next

\* A saved key pair is never replaced or removed, by any registration.
THEOREM SavedStaysAlways == Spec => SavedStays
  <1>1. IInv /\ [Next]_vars => [KeptStep]_vars
    BY StepSaved
  <1> QED
    BY <1>1, Invariance, PTL DEF Spec, SavedStays, KeptStep
=============================================================================
