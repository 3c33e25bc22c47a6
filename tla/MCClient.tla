------------------------------ MODULE MCClient ------------------------------
(* The screens of the web client side by side: one of them moves.  Of the  *)
(* two private views one is opened: they do not read each other.           *)
EXTENDS PrivateScreen, ProductScreens, ScannerSession,
        AccountSecurity, TLC

Symmetric == Permutations(Accounts) \cup Permutations(Products) \cup Permutations(Passwords)

VARIABLE part
ClientInit ==
  /\ ScreenInit /\ SearchInit /\ CompareInit /\ InciInit /\ ScannerInit /\ SecurityInit
  /\ part \in Views \cup {"search", "compare", "inci", "scanner", "security"}
  /\ part \notin Views => cookie = Anonymous    \* nothing to tell apart
  /\ part # "security" => session = Nobody
ClientNext ==
  /\ \/ part \in Views /\ ScreenNext /\ \A v \in Views \ {part} : UNCHANGED view[v]
        /\ UNCHANGED <<searchVars, compareVars, inciVars, scannerVars, securityVars>>
     \/ part = "search" /\ SearchNext
        /\ UNCHANGED <<screenVars, compareVars, inciVars, scannerVars, securityVars>>
     \/ part = "compare" /\ CompareNext
        /\ UNCHANGED <<screenVars, searchVars, inciVars, scannerVars, securityVars>>
     \/ part = "inci" /\ InciNext
        /\ UNCHANGED <<screenVars, searchVars, compareVars, scannerVars, securityVars>>
     \/ part = "scanner" /\ ScannerNext
        /\ UNCHANGED <<screenVars, searchVars, compareVars, inciVars, securityVars>>
     \/ part = "security" /\ SecurityNext
        /\ UNCHANGED <<screenVars, searchVars, compareVars, inciVars, scannerVars>>
  /\ UNCHANGED part
ClientSpec ==
  /\ ClientInit
  /\ [][ClientNext]_<<screenVars, searchVars, compareVars, inciVars, scannerVars,
                     securityVars, part>>
=============================================================================
