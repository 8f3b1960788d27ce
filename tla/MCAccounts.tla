----------------------------- MODULE MCAccounts -----------------------------
(* Accounts on a small instance: ann registers, twice at once, in a tab of   *)
(* the first browser; bob in another tab of it.  Ann logs in again from      *)
(* bob's tab, and bob from a second browser.                                 *)
EXTENDS Accounts
CONSTANTS d1, d2, t1, t2, t3, ann, bob, annReg, annReg2, bobReg, annLog, bobLog

MCDeviceOf == [t \in Tab |-> IF t = t3 THEN d2 ELSE d1]
MCTabOf == [f \in Form |-> IF f \in {annReg, annReg2} THEN t1
                           ELSE IF f = bobLog THEN t3 ELSE t2]
MCIsLogin == [f \in Form |-> f \in {annLog, bobLog}]
MCNameOf == [f \in Form |-> IF f \in {bobReg, bobLog} THEN bob ELSE ann]
=============================================================================
