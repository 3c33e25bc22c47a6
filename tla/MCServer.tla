------------------------------ MODULE MCServer ------------------------------
(***************************************************************************)
(* Parts of the server side by side: one of them moves.                    *)
(*   media      two uploads for one role on one process; here for what     *)
(*              must happen, what must not is in MCMediaLifecycle          *)
(*   discovery  two products, one of them asked for in two forms, with     *)
(*              one place in the cache and one or two operations at a time *)
(*   call       every request to a provider, and every kind of answer      *)
(*   lifecycle  a server, the next version with one more migration, and    *)
(*              one whose first migration is not the one that was applied  *)
(***************************************************************************)
EXTENDS MediaLifecycle, Discovery, ProviderCall, ServerLifecycle

CONSTANTS u1, u2, p1, g1, g2, q1, q2, q3, old, new, odd, f1, f2

MCHost == [u \in Uploads |-> p1]
MCRoleOf == [u \in Uploads |-> "FRONT"]
MCGtin == [l \in Lookups |-> CASE l = q1 -> [product |-> g1, form |-> "EAN"]
                               [] l = q2 -> [product |-> g1, form |-> "UPC"]
                               [] l = q3 -> [product |-> g2, form |-> "EAN"]]
Migration(n, c) == [name |-> n, checksum |-> c]
MCFiles == [s \in Servers |-> CASE s = old -> <<Migration(f1, "A")>>
                                [] s = new -> <<Migration(f1, "A"), Migration(f2, "A")>>
                                [] s = odd -> <<Migration(f1, "B")>>]

VARIABLE part
elsewhere == <<discoveryVars, callVars, lifecycleVars>>

ServerInit ==
  /\ Init /\ DiscoveryInit /\ CallInit /\ LifecycleInit
  /\ part \in {"media", "discovery", "call", "lifecycle"}
  /\ part # "discovery" => sources = "DISABLED" /\ concurrent = 1
  /\ part # "call" => signals = {} /\ request = CHOOSE r \in ImageRequests : TRUE

ServerNext ==
  /\ \/ part = "media" /\ Next /\ UNCHANGED elsewhere
     \/ part = "discovery" /\ DiscoveryNext /\ UNCHANGED <<vars, callVars, lifecycleVars>>
     \/ part = "call" /\ CallNext /\ UNCHANGED <<vars, discoveryVars, lifecycleVars>>
     \/ part = "lifecycle" /\ LifecycleNext /\ UNCHANGED <<vars, discoveryVars, callVars>>
  /\ UNCHANGED part

\* None of what Fairness is about is enabled where there is no upload.
ServerSpec == ServerInit /\ [][ServerNext]_<<vars, elsewhere, part>> /\ Fairness
=============================================================================
