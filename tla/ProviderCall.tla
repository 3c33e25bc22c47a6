---------------------------- MODULE ProviderCall ----------------------------
(***************************************************************************)
(* What becomes of one request to a paid provider: recognize() of          *)
(* google-vision-ocr-provider.ts or transform() of deepseek-llm-provider.ts. *)
(* The two take the same steps and differ in what they accept, from their  *)
(* caller and from the network.                                            *)
(*                                                                         *)
(* How an admission is reserved is the subject of ProviderBudget; here it  *)
(* is decided, possibly while the request is being given up, and what the  *)
(* call did with it is booked within 250 ms or in its own time.            *)
(***************************************************************************)
EXTENDS Naturals, Sequences, SequencesExt

CONSTANTS
  ItemIds, AllowedLabels,   \* what a text request may name
  Foreign,                  \* an id and a label it does not name
  ImageLimit, BodyLimit,    \* maxImageBytes, maxResponseBytes
  ItemLimit                 \* LLM_TEXT_MAX_ITEMS, also of the labels

ASSUME CallAssumption ==
  /\ Foreign \notin ItemIds \cup AllowedLabels
  /\ ImageLimit \in Nat \ {0} /\ BodyLimit \in Nat \ {0} /\ ItemLimit \in Nat \ {0}

VARIABLES
  request,      \* the request; its provider is VISION or DEEPSEEK
  stands,       \* the await at which it stands
  signals,      \* who has aborted: the CALLER, the TIMER
  decision,     \* what the admission was decided to be
  admission,    \* admission # null
  bodyRead,     \* bytes of the body read so far
  result,       \* what the caller will be told
  booking,      \* complete() of the admission: NONE, SENT, or OVER
  booked        \* the outcomes the database has seen
callVars == <<request, stands, signals, decision, admission, bodyRead, result, booking, booked>>

Nothing == [kind |-> "NONE", code |-> "NONE", draft |-> <<>>]
Fallback(code) == [kind |-> "FAILED", code |-> code, draft |-> <<>>]
Success(draft) == [kind |-> "SUCCEEDED", code |-> "NONE", draft |-> draft]

-----------------------------------------------------------------------------
(* Requests                                                                *)

UpTo(n, S) == UNION {[1..k -> S] : k \in 0..n}

ImageRequests ==
  [provider : {"VISION"}, bytes : 0..(ImageLimit + 1), imageType : BOOLEAN, hints : UpTo(2, {"ru"})]

\* A text is sanitised before its length is taken: nothing may be left of it.
TextRequests ==
  [provider : {"DEEPSEEK"}, enabled : BOOLEAN,
   items : UpTo(ItemLimit + 1, [id : ItemIds \cup {Foreign}, text : {"TEXT", "EMPTIED", "TOO_LONG"}]),
   labels : UpTo(ItemLimit + 1, AllowedLabels)]

ValidImage(r) ==
  r.bytes # 0 /\ r.bytes <= ImageLimit /\ r.imageType /\ IsInjective(r.hints)

\* Foreign stands for an id that the pattern refuses.
SanitizedText(r) ==
  /\ Len(r.items) \in 1..ItemLimit /\ Len(r.labels) \in 1..ItemLimit
  /\ IsInjective(r.labels)
  /\ IsInjective([i \in DOMAIN r.items |-> r.items[i].id])
  /\ \A i \in DOMAIN r.items : r.items[i].id # Foreign /\ r.items[i].text = "TEXT"

-----------------------------------------------------------------------------
(* Answers                                                                 *)

HttpFailure(status) == Fallback(
  CASE status \in {400, 413} -> "INVALID_REQUEST"
    [] status = 401 -> "AUTHENTICATION_FAILED"
    [] status = 403 -> "PERMISSION_DENIED"
    [] status = 408 -> "TIMEOUT"
    [] status = 429 -> "RATE_LIMITED"
    [] status >= 500 -> "PROVIDER_UNAVAILABLE"
    [] OTHER -> "PROVIDER_REJECTED")

\* The status google.rpc puts into a body that came with 200.
ProviderFailure(code) == Fallback(
  CASE code = 0 -> "INVALID_RESPONSE"
    [] code = 3 -> "INVALID_REQUEST"
    [] code = 4 -> "TIMEOUT"
    [] code = 7 -> "PERMISSION_DENIED"
    [] code = 8 -> "RATE_LIMITED"
    [] code \in {13, 14} -> "PROVIDER_UNAVAILABLE"
    [] code = 16 -> "AUTHENTICATION_FAILED"
    [] OTHER -> "PROVIDER_REJECTED")

AbortFailure == Fallback(
  IF "CALLER" \in signals THEN "ABORTED"
  ELSE IF "TIMER" \in signals THEN "TIMEOUT" ELSE "PROVIDER_UNAVAILABLE")

\* providerBudgetOutcome(): the codes that are outcomes are booked as such.
BudgetOutcome(is) ==
  IF is.kind = "SUCCEEDED" THEN "SUCCEEDED"
  ELSE IF is.code \in {"ABORTED", "TIMEOUT", "AUTHENTICATION_FAILED", "PERMISSION_DENIED",
                       "RATE_LIMITED", "INVALID_REQUEST", "INVALID_RESPONSE",
                       "PROVIDER_REJECTED", "PROVIDER_UNAVAILABLE"}
  THEN is.code ELSE "PROVIDER_UNAVAILABLE"

\* outputJsonSchema() asks for as many classifications as there are items, of
\* them, with their labels; what comes need not agree.
Classifications ==
  UpTo(3, [id : ItemIds \cup {Foreign}, labels : SUBSET (AllowedLabels \cup {Foreign})])

\* A body that is no JSON, not of the schema, of another model or not completed, or does
\* not hold one text, is UNREADABLE.
ImageBodies == [is : {"UNREADABLE", "TEXT"}] \cup [is : {"ERROR"}, code : {0, 3, 4, 5, 7, 8, 14, 16}]
TextBodies == [is : {"UNREADABLE"}] \cup [is : {"DRAFT"}, summary : {"NULL", "TEXT", "EMPTIED"}, list : Classifications]

ImageResult(body) ==
  CASE body.is = "UNREADABLE" -> Fallback("INVALID_RESPONSE")
    [] body.is = "ERROR" -> ProviderFailure(body.code)
    [] OTHER -> Success(<<>>)

\* responseDraft(): the last classification of an id counts, in the order of the request.
ResponseDraft(body) ==
  LET asked == {request.items[k].id : k \in DOMAIN request.items}
      named == {body.list[i].id : i \in DOMAIN body.list}
      last(id) == CHOOSE i \in DOMAIN body.list :
                    body.list[i].id = id /\ \A k \in DOMAIN body.list : body.list[k].id = id => k <= i
  IN IF /\ body.is = "DRAFT" /\ Len(body.list) \in 1..ItemLimit
        /\ named = asked /\ body.summary # "EMPTIED"
        /\ \A i \in DOMAIN body.list : body.list[i].labels \subseteq ToSet(request.labels)
     THEN Success([k \in DOMAIN request.items |-> body.list[last(request.items[k].id)]])
     ELSE Fallback("INVALID_RESPONSE")

-----------------------------------------------------------------------------
(* The call                                                                *)

CallInit ==
  /\ request \in ImageRequests \cup TextRequests
  /\ stands = "NEW" /\ signals \in {{}, {"CALLER"}} /\ decision = "NONE" /\ admission = FALSE
  /\ bodyRead = 0 /\ result = Nothing /\ booking = "NONE" /\ booked = <<>>

\* complete(): told to the caller once it is booked, if there is something to book.
Completes(is, charged) ==
  /\ result' = is
  /\ admission' = FALSE
  /\ IF charged THEN stands' = "COMPLETING" /\ booking' = "SENT"
     ELSE stands' = "RETURNED" /\ UNCHANGED booking

BeginCall ==
  /\ stands = "NEW"
  /\ IF "CALLER" \in signals THEN Completes(Fallback("ABORTED"), FALSE)
     ELSE IF request.provider = "VISION" /\ ~ValidImage(request) THEN Completes(Fallback("INVALID_REQUEST"), FALSE)
     ELSE IF request.provider = "DEEPSEEK" /\ ~SanitizedText(request) THEN Completes(Fallback("INVALID_REQUEST"), FALSE)
     ELSE IF request.provider = "DEEPSEEK" /\ ~request.enabled THEN Completes(Fallback("DISABLED"), FALSE)
     ELSE stands' = "ADMISSION" /\ UNCHANGED <<admission, result, booking>>
  /\ UNCHANGED <<request, signals, decision, bodyRead, booked>>

\* awaitProviderAdmission() is answered, or gives up.
Decided(d) ==
  /\ stands = "ADMISSION" /\ stands' = "DECIDED" /\ decision' = d
  /\ UNCHANGED <<request, signals, admission, bodyRead, result, booking, booked>>

\* The wait for the admission ends with the signal.
SignalAborts(who) ==
  /\ stands \notin {"NEW", "RETURNED"} /\ who \notin signals
  /\ who = "TIMER" => stands # "COMPLETING"
  /\ signals' = signals \cup {who}
  /\ IF stands = "ADMISSION" THEN stands' = "DECIDED" /\ decision' = "BUDGET_UNAVAILABLE"
     ELSE UNCHANGED <<stands, decision>>
  /\ UNCHANGED <<request, admission, bodyRead, result, booking, booked>>

\* Mutant: what was admitted too late is not remembered.
AfterAdmission_Forgets ==
  /\ stands = "DECIDED"
  /\ IF signals # {} THEN Completes(AbortFailure, FALSE)
     ELSE IF decision # "ADMITTED" THEN Completes(Fallback(decision), FALSE)
     ELSE stands' = "FETCH" /\ admission' = TRUE /\ UNCHANGED <<result, booking>>
  /\ UNCHANGED <<request, signals, decision, bodyRead, booked>>

AfterAdmission ==
  /\ stands = "DECIDED"
  /\ IF signals # {} THEN Completes(AbortFailure, decision = "ADMITTED")
     ELSE IF decision # "ADMITTED" THEN Completes(Fallback(decision), FALSE)
     ELSE stands' = "FETCH" /\ admission' = TRUE /\ UNCHANGED <<result, booking>>
  /\ UNCHANGED <<request, signals, decision, bodyRead, booked>>

\* fetch() or a read of the body rejects, for a signal or by itself.
Rejects ==
  /\ stands \in {"FETCH", "BODY"}
  /\ Completes(AbortFailure, admission)
  /\ UNCHANGED <<request, signals, decision, bodyRead, booked>>

Responds(status) ==
  /\ stands = "FETCH"
  /\ IF signals # {} THEN Completes(AbortFailure, admission)
     ELSE IF status # 200 THEN Completes(HttpFailure(status), admission)
     ELSE stands' = "BODY" /\ UNCHANGED <<admission, result, booking>>
  /\ UNCHANGED <<request, signals, decision, bodyRead, booked>>

\* readBoundedResponse(), a byte at a time; content-length may announce what is too much.
ReadsMore ==
  /\ stands = "BODY"
  /\ \/ bodyRead < BodyLimit /\ bodyRead' = bodyRead + 1 /\ UNCHANGED <<stands, admission, result, booking>>
     \/ Completes(Fallback("INVALID_RESPONSE"), admission) /\ UNCHANGED bodyRead
  /\ UNCHANGED <<request, signals, decision, booked>>

BodyEnds ==
  /\ stands = "BODY"
  /\ IF signals # {} THEN Completes(AbortFailure, admission)
     ELSE IF request.provider = "VISION"
     THEN \E body \in ImageBodies : Completes(ImageResult(body), admission)
     ELSE \E body \in TextBodies : Completes(ResponseDraft(body), admission)
  /\ UNCHANGED <<request, signals, decision, bodyRead, booked>>

\* completeProviderAdmission(): the statement is waited for, and not for long.
BookingEnds ==
  /\ booking = "SENT" /\ booking' = "OVER"
  /\ booked' \in {booked, Append(booked, BudgetOutcome(result))}
  /\ stands' = "RETURNED"
  /\ UNCHANGED <<request, signals, decision, admission, bodyRead, result>>

BookingTimesOut ==
  /\ stands = "COMPLETING" /\ stands' = "RETURNED"
  /\ UNCHANGED <<request, signals, decision, admission, bodyRead, result, booking, booked>>

CallNext ==
  \/ BeginCall
  \/ \E d \in {"ADMITTED", "BUDGET_EXHAUSTED", "BUDGET_UNAVAILABLE"} : Decided(d)
  \/ \E who \in {"CALLER", "TIMER"} : SignalAborts(who)
  \/ AfterAdmission \/ Rejects
  \/ \E status \in {200, 400, 401, 403, 404, 408, 429, 503} : Responds(status)
  \/ ReadsMore \/ BodyEnds \/ BookingEnds \/ BookingTimesOut

CallSpec == CallInit /\ [][CallNext]_callVars

-----------------------------------------------------------------------------
\* One classification for each text, in the order they were sent, of allowed labels.
Faithful(draft) ==
  request.provider = "DEEPSEEK" =>
    /\ DOMAIN draft = DOMAIN request.items
    /\ \A i \in DOMAIN draft : draft[i].id = request.items[i].id /\ draft[i].labels \subseteq ToSet(request.labels)

\* What the caller is told, what is charged and what is booked agree, whenever it gives up:
\* an admission is concluded once, with the outcome of the answer, also one that came too late
\* to be used; what was not admitted books nothing; and a draft that is believed classifies the
\* texts it was asked about, however the model answered.
AnswerIsBooked ==
  /\ Len(booked) <= 1
  /\ \A i \in DOMAIN booked : decision = "ADMITTED" /\ booked[i] = BudgetOutcome(result)
  /\ stands \in {"COMPLETING", "RETURNED"} => (booking = "NONE" <=> decision # "ADMITTED")
  /\ result.kind = "SUCCEEDED" => booking # "NONE" /\ Faithful(result.draft)
=============================================================================
