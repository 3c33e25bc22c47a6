------------------------------ MODULE Discovery ------------------------------
(***************************************************************************)
(* What the server finds out about a barcode it has no product for.  Open  *)
(* Beauty Facts is asked, then UPCitemdb if it is enabled; lookups of one  *)
(* product share an operation, and answers that settle the question are    *)
(* kept for a while (cached-product-discovery-provider.ts around           *)
(* fallback-product-discovery-provider.ts).                                *)
(*                                                                         *)
(* A product is a GTIN-14.  People write it in more than one form, and are *)
(* answered in theirs.  An operation is named after the lookup that began  *)
(* it.  A reply is what a source sends: a status, or a body that names a   *)
(* product, its own or another.                                            *)
(***************************************************************************)
EXTENDS Naturals, FiniteSets

CONSTANTS
  Lookups,          \* calls of byGtin()
  Gtin,             \* Gtin[l]: [product, form] as it was typed in
  MaxEntries,       \* maxCacheEntries
  Concurrencies,    \* values of maxConcurrentRequests
  Absent

ASSUME DiscoveryAssumption ==
  /\ \A l \in Lookups : {"product", "form"} \subseteq DOMAIN Gtin[l]
  /\ MaxEntries \in Nat /\ Concurrencies \subseteq Nat \ {0} /\ Absent \notin Lookups

VARIABLES
  sources,    \* DISABLED, OPEN_BEAUTY_FACTS, or BOTH
  concurrent, \* maxConcurrentRequests
  found,      \* found[l]: what the caller was answered
  waitsFor,   \* waitsFor[l]: the operation the lookup waits for
  flights,    \* inFlight: flights[product], an operation
  step,       \* step[o]: where the operation stands
  primary,    \* primary[o]: what Open Beauty Facts made of it
  outcome,    \* outcome[o]: its result
  kept,       \* the cache: entries by rank, 1 is the least recently used
  upcBusy,    \* inFlight of the UPCitemdb provider
  upcRests,   \* now < nextRequestAt
  stated        \* <<source, product, kind>>: what sources have stated so far
discoveryVars == <<sources, concurrent, found, waitsFor, flights, step, primary, outcome, kept,
                   upcBusy, upcRests, stated>>

configured == <<sources, concurrent>>
Products == {Gtin[l].product : l \in Lookups}
Silence == [kind |-> "NONE", provider |-> "NONE", reason |-> "NONE"]
Unavailable(provider, reason) == [kind |-> "UNAVAILABLE", provider |-> provider, reason |-> reason]
Says(kind, provider) == [Silence EXCEPT !.kind = kind, !.provider = provider]

DiscoveryInit ==
  /\ sources \in {"DISABLED", "OPEN_BEAUTY_FACTS", "BOTH"} /\ concurrent \in Concurrencies
  /\ found = [l \in Lookups |-> [gtin |-> Gtin[l], is |-> Silence]]
  /\ waitsFor = [l \in Lookups |-> Absent]
  /\ flights = [p \in Products |-> Absent]
  /\ step = [o \in Lookups |-> "NONE"]
  /\ primary = [o \in Lookups |-> Silence] /\ outcome = [o \in Lookups |-> Silence]
  /\ kept = {} /\ upcBusy = FALSE /\ upcRests = FALSE
  /\ stated = {}

-----------------------------------------------------------------------------
(* What a source makes of a reply                                          *)

\* Of the reasons of a failure only INVALID_RESPONSE makes a difference.  FAILED is a 5xx, a
\* timeout and a broken connection; UNREADABLE a redirect, and a body that is too long, no
\* JSON, without a title or with several items; 404 also a body without any.
Replies == [status : {"404", "429", "FAILED", "UNREADABLE"}, names : {Absent}]
             \cup [status : {"ITEM"}, names : Products]

ReasonOf(reply) == IF reply.status \in {"429", "FAILED"} THEN "FAILED" ELSE "INVALID_RESPONSE"

\* request() and parseProduct(), request() and parse(): a body has to name the product that
\* was asked for.
Parsed(provider, product, reply) ==
  IF reply.status = "404" THEN Says("NOT_FOUND", provider)
  ELSE IF reply.names = product THEN Says("FOUND", provider)
  ELSE Unavailable(provider, ReasonOf(reply))

\* What was stated, for those who compare it with the answers.
Heard(provider, product, reply) ==
  stated \cup (IF reply.status = "404" THEN {<<provider, product, "NOT_FOUND">>}
             ELSE IF reply.names = product THEN {<<provider, product, "FOUND">>} ELSE {})

-----------------------------------------------------------------------------
(* The cache                                                               *)

Product(o) == Gtin[o].product
EntryOf(p) == {e \in kept : e.product = p}
IsKept(p) == \E e \in EntryOf(p) : e.fresh

\* A Map keeps its entries in the order in which they were set.
Ranked(entries) ==
  {[e EXCEPT !.rank = Cardinality({d \in entries : d.rank <= e.rank})] : e \in entries}
WithLast(entries, e) == entries \cup {[e EXCEPT !.rank = Cardinality(entries) + 1]}
Forgetting(p) == Ranked({e \in kept : e.product # p})

\* remember(): what is expired goes, then the least recently used.
Remember(p, is) ==
  IF MaxEntries = 0 \/ is.kind = "UNAVAILABLE" THEN kept
  ELSE LET fresh == WithLast(Ranked({e \in kept : e.product # p /\ e.fresh}),
                             [product |-> p, is |-> is, fresh |-> TRUE, rank |-> 0])
       IN IF Cardinality(fresh) > MaxEntries THEN Ranked({e \in fresh : e.rank > 1}) ELSE fresh

KeptExpires == \E e \in kept :
  /\ e.fresh /\ kept' = (kept \ {e}) \cup {[e EXCEPT !.fresh = FALSE]}
  /\ UNCHANGED <<configured, found, waitsFor, flights, step, primary, outcome, upcBusy, upcRests, stated>>

-----------------------------------------------------------------------------
(* byGtin() and discover() of the cached provider                          *)

\* The service's answer; what no single source can have found is refused.
Answer(l, is) ==
  found' = [found EXCEPT ![l].is =
    IF is.kind = "FOUND" /\ is.provider = "EXTERNAL_CATALOGS"
    THEN Unavailable(is.provider, "INVALID_RESPONSE") ELSE is]
Asked(l) == found[l].is.kind = "NONE" /\ waitsFor[l] = Absent
Flying == {p \in Products : flights[p] # Absent}

AnswerAtOnce(l) ==
  /\ Asked(l)
  /\ \/ /\ sources = "DISABLED"
        /\ Answer(l, Unavailable("OPEN_BEAUTY_FACTS", "FAILED")) /\ UNCHANGED kept
     \/ /\ sources # "DISABLED" /\ IsKept(Product(l))
        /\ \E e \in EntryOf(Product(l)) : Answer(l, e.is) /\ kept' = WithLast(Forgetting(Product(l)), e)
     \/ /\ sources # "DISABLED" /\ ~IsKept(Product(l))
        /\ flights[Product(l)] = Absent /\ Cardinality(Flying) >= concurrent
        /\ Answer(l, Unavailable("OPEN_BEAUTY_FACTS", "FAILED")) /\ kept' = Forgetting(Product(l))
  /\ UNCHANGED <<configured, waitsFor, flights, step, primary, outcome, upcBusy, upcRests, stated>>

\* The operation of the product, one's own if there is none.
Join(l) ==
  LET p == Product(l) IN
  /\ Asked(l) /\ sources # "DISABLED" /\ ~IsKept(p)
  /\ IF flights[p] # Absent
     THEN waitsFor' = [waitsFor EXCEPT ![l] = flights[p]] /\ UNCHANGED <<flights, step>>
     ELSE /\ Cardinality(Flying) < concurrent
          /\ waitsFor' = [waitsFor EXCEPT ![l] = l]
          /\ flights' = [flights EXCEPT ![p] = l]
          /\ step' = [step EXCEPT ![l] = "PRIMARY"]
  /\ kept' = Forgetting(p)
  /\ UNCHANGED <<configured, found, primary, outcome, upcBusy, upcRests, stated>>

Deliver(l) ==
  /\ waitsFor[l] # Absent /\ found[l].is.kind = "NONE" /\ step[waitsFor[l]] = "DONE"
  /\ Answer(l, outcome[waitsFor[l]])
  /\ UNCHANGED <<configured, waitsFor, flights, step, primary, outcome, kept, upcBusy, upcRests, stated>>

-----------------------------------------------------------------------------
(* discover() of the fallback provider                                     *)

\* Mutant: the second source's word is enough.
Combined_Secondary(first, second) ==
  IF second.kind # "UNAVAILABLE" THEN [second EXCEPT !.provider = IF second.kind = "FOUND" THEN "UPCITEMDB" ELSE "EXTERNAL_CATALOGS"]
  ELSE Unavailable("EXTERNAL_CATALOGS", second.reason)

\* After the first source found nothing, or was not available.
Combined(first, second) ==
  IF second.kind = "FOUND" THEN Says("FOUND", "UPCITEMDB")
  ELSE IF first.kind = "NOT_FOUND" /\ second.kind = "NOT_FOUND" THEN Says("NOT_FOUND", "EXTERNAL_CATALOGS")
  ELSE Unavailable("EXTERNAL_CATALOGS",
                   IF second.kind = "UNAVAILABLE" THEN second.reason ELSE first.reason)

Ends(o, is) ==
  /\ outcome' = [outcome EXCEPT ![o] = is] /\ step' = [step EXCEPT ![o] = "SETTLING"]
  /\ primary' = [primary EXCEPT ![o] = Silence]
EndsWith(o, second) == Ends(o, Combined(primary[o], second))

\* An answer found, or one that does not make sense, is the answer.
PrimaryReplies(o) == \E reply \in Replies :
  LET is == Parsed("OPEN_BEAUTY_FACTS", Product(o), reply)
      settles == is.kind = "FOUND" \/ is.reason = "INVALID_RESPONSE" \/ sources # "BOTH" IN
  /\ step[o] = "PRIMARY"
  /\ stated' = Heard("OPEN_BEAUTY_FACTS", Product(o), reply)
  /\ IF settles THEN Ends(o, is)
     ELSE /\ step' = [step EXCEPT ![o] = "SECONDARY"] /\ primary' = [primary EXCEPT ![o] = is]
          /\ UNCHANGED outcome
  /\ UNCHANGED <<configured, found, waitsFor, flights, kept, upcBusy, upcRests>>

\* The UPCitemdb provider makes one request at a time, and not too often.
SecondaryRefuses(o) ==
  /\ step[o] = "SECONDARY" /\ (upcBusy \/ upcRests)
  /\ EndsWith(o, Unavailable("UPCITEMDB", "FAILED"))
  /\ UNCHANGED <<configured, found, waitsFor, flights, kept, upcBusy, upcRests, stated>>

SecondaryReserves(o) ==
  /\ step[o] = "SECONDARY" /\ ~upcBusy /\ ~upcRests
  /\ upcBusy' = TRUE /\ step' = [step EXCEPT ![o] = "ADMISSION"]
  /\ UNCHANGED <<configured, found, waitsFor, flights, primary, outcome, kept, upcRests, stated>>

\* The budget denies, or cannot be asked.
SecondaryDenied(o) ==
  /\ step[o] = "ADMISSION"
  /\ upcBusy' = FALSE /\ EndsWith(o, Unavailable("UPCITEMDB", "FAILED"))
  /\ UNCHANGED <<configured, found, waitsFor, flights, kept, upcRests, stated>>

SecondaryAdmitted(o) ==
  /\ step[o] = "ADMISSION"
  /\ upcRests' = TRUE /\ step' = [step EXCEPT ![o] = "REQUEST"]
  /\ UNCHANGED <<configured, found, waitsFor, flights, primary, outcome, kept, upcBusy, stated>>

\* x-ratelimit-remaining may say, with any status, that this was the last one for now.
SecondaryReplies(o) == \E reply \in Replies, last \in BOOLEAN :
  LET is == Parsed("UPCITEMDB", Product(o), reply) IN
  /\ step[o] = "REQUEST"
  /\ EndsWith(o, is) /\ upcBusy' = FALSE
  /\ upcRests' = (upcRests \/ reply.status = "429" \/ (last /\ reply.status # "FAILED"))
  /\ stated' = Heard("UPCITEMDB", Product(o), reply)
  /\ UNCHANGED <<configured, found, waitsFor, flights, kept>>

IntervalEnds ==
  /\ upcRests /\ upcRests' = FALSE
  /\ UNCHANGED <<configured, found, waitsFor, flights, step, primary, outcome, kept, upcBusy, stated>>

\* then() and finally() of the operation.
Settle(o) ==
  /\ step[o] = "SETTLING" /\ step' = [step EXCEPT ![o] = "DONE"]
  /\ kept' = Remember(Product(o), outcome[o])
  /\ flights' = [flights EXCEPT ![Product(o)] = Absent]
  /\ UNCHANGED <<configured, found, waitsFor, primary, outcome, upcBusy, upcRests, stated>>

Work(o) ==
  \/ PrimaryReplies(o) \/ SecondaryRefuses(o) \/ SecondaryReserves(o)
  \/ SecondaryDenied(o) \/ SecondaryAdmitted(o) \/ SecondaryReplies(o) \/ Settle(o)

DiscoveryNext ==
  \/ \E l \in Lookups : AnswerAtOnce(l) \/ Join(l) \/ Deliver(l) \/ Work(l)
  \/ KeptExpires \/ IntervalEnds

DiscoverySpec == DiscoveryInit /\ [][DiscoveryNext]_discoveryVars

-----------------------------------------------------------------------------
\* fallback-product-discovery-provider.ts:7: an unavailable source never becomes a clean
\* miss, whoever shares the operation and whatever is in the cache.  Who is told that nothing
\* was found is told so because every source said it of this product; what was found is
\* attributed to the one that said it; an answer that settles nothing is not kept.
MissesAreClean ==
  LET backed(p, is) ==
        /\ is.kind = "NOT_FOUND" =>
             /\ <<"OPEN_BEAUTY_FACTS", p, "NOT_FOUND">> \in stated
             /\ sources = "BOTH" => <<"UPCITEMDB", p, "NOT_FOUND">> \in stated
        /\ is.kind = "FOUND" => <<is.provider, p, "FOUND">> \in stated
  IN /\ \A l \in Lookups : backed(Product(l), found[l].is) /\ found[l].gtin = Gtin[l]
     /\ \A e \in kept : backed(e.product, e.is) /\ e.is.kind # "UNAVAILABLE"

\* The free quota of UPCitemdb is asked by one request at a time however many lookups run,
\* the provider is not left busy by one that has ended, and a product has one operation.
OneRequestAtATime ==
  LET using == {o \in Lookups : step[o] \in {"ADMISSION", "REQUEST"}} IN
  /\ Cardinality(using) <= 1 /\ (upcBusy <=> using # {})
  /\ \A p \in Products : flights[p] # Absent <=>
       \E o \in Lookups : Product(o) = p /\ step[o] \notin {"NONE", "DONE"}

\* Lookups that share operations, a cache and a quota are answered by what was said of their
\* own product.
LookupsAreHonest == MissesAreClean /\ OneRequestAtATime
=============================================================================
