# WhatTheMake: specifications, checks and proofs

WhatTheMake compares mascaras by what is in them. People scan barcodes,
photograph packages, correct ingredient lists (INCI) and write reviews; a
Fastify server keeps this in PostgreSQL and on a local disk, and calls paid
providers for text recognition (Google Vision), text transformation (DeepSeek)
and product data (Open Beauty Facts, UPCitemdb). This directory models the parts
in which concurrency, crashes, late answers and case analysis decide whether the
program is right. All paths are relative to the repository.

`infra/` abbreviates `packages/infrastructure/src/`, `server/` abbreviates
`apps/server/src/`, `domain/` abbreviates `packages/domain/src/`, `web/`
abbreviates `apps/web/src/`.

`PROJECT.json` lists the components, the runs, for every property a mutation of
the model that breaks it, the source lines every definition stands for, the
findings, the hazards and the theorems.

## 1. Inventory

| Component | State | Operations | What is hard | Modelled in |
|---|---|---|---|---|
| OCR queue, `infra/queued-ocr-provider.ts` | `pending`, `activeCount`, OPEN/DRAINING/CLOSED, timers, listeners | recognize, wait timeout, abort, completion, pump, shutdown | four ways to answer one promise; a slot count decremented in a detached closure; shutdown while all of it runs | `OcrQueue` |
| OCR cache, `infra/cached-ocr-provider.ts`, `infra/ocr-cache-repository.ts` | first-level Map, `inflight` Map, waiter counts, a table | recognize, abort, the awaits of execute | shared executions whose callers leave at any time | `OcrCache` |
| Provider budgets, `infra/provider-budget-*.ts` | day, state and reservation rows; two nested waits per call | reserve, complete, admission | timeouts racing late answers, lost answers of committed transactions, several processes | `ProviderBudget` |
| Provider calls, `infra/google-vision-ocr-provider.ts`, `infra/deepseek-llm-provider.ts` | none beyond the call | recognize, transform | an abort or a timer at each await; what is charged must be booked as it was answered | `ProviderCall` |
| Private media, `server/media/service.ts`, `infra/media-repository.ts`, `infra/local-media-storage.ts`, `infra/media-recovery-worker.ts` | collections, assets, recovery journal, files | upload, delete, erase, claim, retry, complete | no transaction spans database and disk; crashes anywhere; workers of several processes with leases | `MediaLifecycle` |
| Media transactions, `infra/media-repository.ts` | the same rows, statement by statement, and row locks | prepare, commit, release, erase | counts in two statements under READ COMMITTED, lock order | `MediaAdmission`, `MediaRows` |
| Product discovery, `infra/*-product-*provider.ts` | LRU map, in-flight map, cooldown | discover | shared operations, a bound on them, failures that must not be kept | `Discovery` |
| Server lifecycle, `server/server.ts`, `infra/postgres.ts` | lock, schema table, worker, pool | start, migrate, tick, stop | processes of different versions start together and die anywhere; the order at shutdown | `ServerLifecycle` |
| Identity, recovery, erasure, preferences, `infra/identity-repository.ts`, `infra/account-*-repository.ts`, `server/identity/` and others | guests, accounts, sessions, recovery codes, collections, preferences | guest session, registration, login, claim, logout, rotate, recover, erase, save | a credential read in one transaction and used in another; claims and deletions of one guest | `Accounts` |
| Customer reviews, `infra/customer-review-repository.ts`, `server/cli/moderate-customer-review.ts` | reviews with revisions | upsert, delete, moderate, summary | what a moderator read may be edited, or deleted and written anew, before the decision | `CustomerReviews` |
| Catalog, imports, promotions, `infra/catalog-repository.ts`, `infra/catalog-import-repository.ts`, `infra/product-observation-repository.ts` | families, variants, barcodes, import batches, observations, confirmations, promotion cases | curators' edits, publish, rollback, confirm, moderate | three publishers of one barcode; rollback after drift | `Catalog` |
| Formulas, claims, public lookup, `infra/catalog-repository.ts` | revisions, claims | supersede, withdraw, look up | a lookup of four statements among writers | `ProductFacts` |
| Import manifests, dictionary artifacts, `server/catalog-import/service.ts`, `infra/inci-dictionary-repository.ts` | none beyond the file | prepare, dry run, publish | one number in several notations, duplicates, order of rows | `Artifacts` |
| INCI corrections, private snapshots, `infra/inci-correction-repository.ts`, `infra/private-product-repository.ts` | numbered revisions, snapshots | recognise, transcribe, correct, keep | results out of order, numbering, a limit, replays | `InciWorkspace` |
| INCI dictionary and knowledge, `infra/inci-dictionary-repository.ts`, `infra/ingredient-knowledge-repository.ts` | published snapshots | publish, analyse | two artifacts that refer to each other, published and read separately | `IngredientKnowledge` |
| Comparison, `domain/comparison.ts`, `domain/ingredient-exclusions.ts` | none | compare | limits, draws, what is not known | `Comparison` |
| Reading of labels, `domain/inci.ts`, `domain/inci-canonicalization.ts` | none | parse, canonicalize | separators, nested brackets and markers in any order | `LabelReading` |
| INCI benchmark, `domain/inci-benchmark.ts`, `tools/build-inci-benchmark-draft.ts` | a corpus and its signature | draft, correct, sign, evaluate | a gate opened by what nobody judged | `Benchmark` |
| Web client, private screens, `web/account-panel.tsx`, `web/customer-reviews.tsx`, `web/mascara-brief-editor.tsx`, `web/main.tsx` | what each screen shows and awaits | load, edit, save, sign in | other tabs change the cookie under every request | `PrivateScreen` |
| Web client, product screens, `web/main.tsx`, `web/comparison.tsx`, `web/private-comparison.tsx`, `web/inci-correction.tsx`, `web/private-product.tsx` | question asked last, operation under way | look up, compare, correct, analyse, keep | answers to earlier questions | `ProductScreens` |
| Web client, scanner, `web/scanner-session.ts`, `web/barcode-scanner.tsx` | generation, stream, controls | start, stop | the browser grants the camera late | `ScannerSession` |
| Web client, account security, `web/account-security.tsx` | the code shown once, the action under way | rotate, reset, erase | lost and late writes, a screen that is remounted, a session that changes between check and write | `AccountSecurity` |
| Routes, contracts, configuration, command line tools, deployment | none | | | not modelled, section 7 |

How they interact. A request for recognition runs *cache, then queue, then
provider, then budget* (`server/provider-runtime.ts`); its result becomes a
revision of an observation. Observations own media collections, so erasing a
guest or an account cascades over collections into the recovery journal, from
which the worker removes the files. Catalog, imports and promotions meet on the
advisory lock of a GTIN, everything an account does on the row of the account.
A scanned code is looked up in the catalog, then by discovery. Several server
processes may share one database; tabs of a browser share one cookie.

Where the composition matters it is one module: budget rows with the waits around
them, requests with worker, disk and journal, three publishers with a curator,
identity with everything an erasure reaches. Elsewhere one module stands for a
part by what the other module shows of it: `ProviderCall` takes an admission as
decided (`ProviderBudget`), `ServerLifecycle` takes the queue as drained
(`OcrQueue`), `MediaLifecycle` takes transactions as single steps
(`MediaAdmission`).

## 2. Modules

| Module | Models |
|---|---|
| `BoundedService` | what a bounded service with waiting room promises (abstract); `OcrQueue` implements it |
| `OcrQueue` | the OCR queue, one action per handler |
| `OcrCache` | the two-level cache with shared executions |
| `MediaRows` | the media transactions as single steps (abstract); `MediaAdmission` implements it |
| `MediaAdmission` | the same transactions statement by statement with row locks |
| `MediaLifecycle` | upload requests, files, journal, recovery workers, crashes |
| `ProviderBudget` | budget rows, the two waits, the provider |
| `ProviderCall` | one call to a provider, from validation to booking |
| `Discovery` | lookups, shared operations, cache, two sources |
| `ServerLifecycle` | processes that start, migrate, serve, stop and die |
| `Accounts` | guests, accounts, sessions, codes and what they own |
| `CustomerReviews` | authors, moderators and the public summary |
| `Catalog` | curators, imports with rollback, promotions |
| `ProductFacts` | formulas, claims, the lookup statement by statement |
| `Artifacts` | manifests and dictionaries from the file to the tables |
| `InciWorkspace` | revisions and snapshots of one observation |
| `IngredientKnowledge` | publication of dictionary and knowledge, analyses |
| `Comparison` | the comparison and its two callers |
| `LabelReading`, `Benchmark` | parser, canonicalisation; the gate they have to pass |
| `PrivateScreen`, `ProductScreens`, `ScannerSession`, `AccountSecurity` | the web client |
| `OcrQueueProofs`, `MediaLifecycleProofs` | theorems about the module they are named after |
| `DatabaseProofs` | theorems about `MediaAdmission`, `ProviderBudget` |
| `ServerProofs` | theorems about `ServerLifecycle`, `Discovery`, `ProviderCall` |
| `PeopleProofs` | theorems about `Accounts`, `CustomerReviews` |
| `CatalogProofs` | theorems about `Catalog`, `ProductFacts`, `Artifacts` |
| `LabelProofs` | theorems about `OcrCache`, `InciWorkspace`, `IngredientKnowledge`, `Comparison`, `LabelReading`, `Benchmark` |
| `ClientProofs` | theorems about `ScannerSession`, `AccountSecurity`, `PrivateScreen`, `ProductScreens` |
| `MC*` | values for TLC, and several modules side by side |

How state and actions correspond to the code:

* **What is one action.** In a process, what runs between two awaits, callbacks or
  returns to the event loop. In the database, a transaction that takes the lock
  which decides it first; where it does not, its statements are actions of their
  own: the counts of an upload, `createVariant` and the rollback's look at other
  variants, the lookup. In the client, what runs on one event, with requests answered
  at any later time or not at all; an aborted request may still be carried out.
* **`OcrQueue`.** The variables are those of the closure of `createQueuedOcrProvider`.
  `recognize()` is five actions by outcome; the loop of `pump()` is one action per
  iteration, as starting a job awaits nothing.
* **`OcrCache`.** An entry of `inflight` is named after the call that created it.
  `exec[e]` is the await at which `execute()` stands; `SETTLED` is the gap between its
  return and its `finally`. The first level, a `Map` that is read in the order of insertion, is a sequence
  with at most one entry of a key; deleting an entry is `RemoveAt` of `SequencesExt`.
* **`MediaLifecycle`.** An upload is a request with a program counter, `stage`: reserve (a
  journal row), put, commit or refusal, cleanup. `job[k][u]` are the rows of
  `wtm_media_recovery_jobs`, their times abstracted to `due` and `stale`, which may
  become true at any moment. Each process has a worker that holds at most one job.
  A transaction may commit although its caller sees an error, an unlink or a
  journal write may fail, a process may crash and start again.
* **`MediaAdmission`.** An action for each statement, with the locks `FOR UPDATE`, those of
  foreign keys and of updates, PostgreSQL's re-evaluation of rows after a wait, and the
  deadlock between a commit (journal row, then collection) and an erasure (the other way).
* **`ProviderBudget`, `ProviderCall`.** `inner` and `stage` are the two nested waits: the one in
  `createProviderBudgetAdmission`, which has no signal, and the one a provider wraps around
  it, which has. `ProviderCall` has every class of request and of answer, and the caller's
  abort and the timer at each await.
* **`Discovery`.** An operation is named after the lookup that began it; one product can be asked
  for in two notations; every reply of a source is a status or a body about some product. The cache, a `Map` whose first entry is
  dropped, is a set of entries with ranks.
* **`ServerLifecycle`.** `phase` is how far `start()` has come, `closing` how far `app.close()` has.
  Killing a process ends its database session, which releases the advisory lock.
* **`Accounts`.** A request resolves its token, may read a credential and verify the password
  against it, and then runs one transaction; other requests run in between. A hash stands for a derived key,
  `PasswordOf` says of which password it was made; the model has two hashes of one password.
* **`CustomerReviews`.** `seen[m]` is what a moderator has on the screen; `judged` is a ghost.
* **`Catalog`.** Families and variants are sequences in the order of insertion; a published batch keeps its
  items. `rolling` is a rollback between its statements. `disputed` and `withdrawn` are ghosts.
* **`ProductFacts`.** A lookup holds the snapshot its first statement took; the ghost `moments` collects
  what a lookup of a single instant could have answered while it ran.
* **`Artifacts`.** Barcodes are sequences of digits, since `normalizeGtin` and the check digit are what
  the properties are about; texts are reduced to whether they pass.
* **`InciWorkspace`, `IngredientKnowledge`.** A request holds what it read before it writes.
* **`Comparison`, `LabelReading`, `Benchmark`.** Pure functions as operators, checked against definitions
  that say what the answer means and not how it is found. A label is a sequence of lexemes.
* **Client.** Each request carries the principal the cookie stood for when it was sent; a screen's guards
  (generations, `AbortController`s, keys that remount) are its variables.
* **`PrivateScreen`.** A write is a look at the session (`Write`, `WriteChecked`), a request with a cookie and, apart from it,
  an `expectedAccountId` (`Stated`), what the server makes of the two (`Taken`, `Refused`) and the answer. The ghost `made` is the last write the
  server made: the account it took from the cookie, and whose name and data were on the screen that sent it.
* **`AccountSecurity`.** The same two requests, but the second carries the cookie and a password only. `passwordOf` says which password an account has;
  two may have the same. The server acts on the account of the cookie if the password is that account's (`Verified`), whichever is on the screen.

One assumption about time is explicit: `PutWithinDelay` says that a put ends before the journal
row that covers it becomes due (`recoveryDelayMs`, 60 s). The code has nothing that enforces
it; section 5 shows what depends on it. Another is in a property: the attempt number fences the journal
but not the unlink, so a worker whose lease (30 s) ran out may still unlink. `LiveAssetHasFile`
is therefore said only of uploads whose reservation was claimed at most once before the commit.

## 3. Runs

Where a run has several parts, `part` is chosen in the initial state and only that part moves: their states add
up, they do not multiply.

| Run | Instances | What it shows |
|---|---|---|
| `OcrQueue` | 5 requests, 2 with a signal, 2 slots, 2 waiting places | `QueueIsSound`: no promise lost or answered twice, exact counts, bounds, no slot idle beside a waiting request, no leaked timer or listener, drained when closed. `FirstComeFirstServed`; `ImplementsBoundedService`; `NobodyIsForgotten`, also behind provider calls that hang |
| `OcrCache` | 3 calls for one image, 1 for another; 1 entry in the first level | `ExecutionsAreShared`: waiters counted, one joinable execution per image, no answer of another's abort, no call paid for nobody. `EveryCallAnswered` |
| `MediaSafety` | 2 uploads for one role, 2 processes, 2 claims of a job, 2 faults | `LiveAssetHasFile`, `BlobIsJournalled`, `CompletedIsFinal` |
| `MediaLatePut` | 1 process, 1 fault, `PutWithinDelay = FALSE` | violation of `FailedUnlinkIsCovered`, section 5 |
| `Database` | 3 uploads, two for one role, capacity 2; 2 calls with limits 2 and 1 over 2 days | `ImplementsMediaRows`, `TransactionsEnd`; `CallsStayWithinBudget`: no call uncharged or beyond the strictest limit, none made on a late reservation; `AdmissionsConcluded` |
| `Server` | 3 lookups of 2 products, one in two notations, cache of 1, 1 or 2 operations; one provider call of each kind; servers of 3 versions, one with a conflicting file, each started up to once; 2 uploads with 1 fault | `LookupsAreHonest`: answers are about the product asked for, and a source that failed is never a clean miss. `AnswerIsBooked`: what the caller is told, charged and booked agrees. `MigrationsAreSerial`, `PoolOutlivesItsUsers`. `ErasureReachesTheDisk`, `JournalDrains` |
| `People` | 2 accounts, 1 guest, 1 address, 3 tokens, 2 requests at a time; 2 authors, 2 moderators, 2 texts, 3 revisions | `SessionsMatchPassword`, `ErasureIsComplete`, `GuestHasOneFate`; `PublicationIsSound`: what is public was read as it stands by the moderator who approved it, and no text is public twice |
| `Catalog` | 2 barcodes, 3 accounts that say one of 2 things, an import of 2 rows, 2 families and variants; 2 formula revisions and a claim during a lookup; every manifest of 2 rows over 5 ways to write a barcode; every dictionary of 2 entries with 2 aliases | `PublishersKeepTheirCode`, `DisputesNeedModerator`, `RollbackIsWhole`; `LookupIsOneMoment`; `ArtifactsArePublishable` |
| `CatalogRollbackRace` | 1 barcode, 1 import | violation of `ArchivedFamilyIsEmpty`, section 5 |
| `Inci` | 3 requests, 2 photos, 2 texts, 3 revisions, 2 snapshots; 2 dictionaries, 2 knowledge artifacts, 2 publications, 2 analyses; 2 or 3 of 9 products under 36 briefs and 3 dictionaries; labels of up to 5 lexemes; 4 corpora with 2 corrections | `HistoryIsSound`, `AnswersStayTrue`; `AnalysesAreGrounded`; `ComparisonIsHonest`: a winner is one in any order of the products, with no more certainty than the sources give; `LabelIsRead`: each word in one token, in order, groups kept together, conditional exactly after a marker; `GateIsEarned` |
| `Client` | 2 accounts and a guest, 2 changes of session, 1 edit; 3 barcodes, 3 forms, 2 observations, 3 turns, 2 calls, 3 revisions; 4 starts of the camera; 2 actions on the account with 2 codes and 2 passwords, 1 change of session | `OneSwitchIsNoticed`, `EditsSurvive`; `WritesStayHome`: the account the server writes for is the one on the screen that sent the write; `ScreensFollowTheirQuestions`; `CameraFollowsDialog`; `CodeOnScreenWorks`: the code works with the password typed for it, and is the shown account's but for the case of section 5 |
| `ComparisonTiers` | as `Inci` | violation of `TiersAreLexicographic`, section 5 |

Type invariants are part of the first property of each module. The bounds are chosen so that the contended cases
occur: more requests than slots and places, two uploads for one role and more uploads than capacity, an
execution that is given up while another takes its place, two calls for the last place of a day, a quorum and a
dissenter, one code in two notations, a session that changes away and back, two accounts with one password. Of the two private views one is opened at a time, since neither reads the other. Two claims are what a worker needs to lose a
job to another, and two faults let a cleanup fail that a first fault made necessary. Every constant called `Max...` is a bound of the model
and not of the code, but for `MaxPending`, `MaxEntries` of `Discovery` and `MaxRevisions` of
`InciWorkspace`, which the code has with larger values; so is `LastDay`. `Scanned` restricts which barcodes
accounts scan. The theorems of section 6 do not depend on any of them.

Runs say `CHECK_DEADLOCK FALSE` where all requests may be over and nothing is left to do.
Symmetry is used only in runs without liveness.

## 4. Fairness

* Queue: a handler that has begun runs to its end (`RunToCompletion`), timers fire. Of the provider nothing is assumed in
  the run; the part of `NobodyIsForgotten` that needs answers has `ProviderResponds` as its hypothesis, which the
  providers' own timeouts justify.
* Cache: the store and the provider answer or fail, and promises are delivered.
* Media: requests and workers go on, delays and leases run out; a job that is due again and again is claimed
  (strong fairness), since the poll repeats and takes the oldest first. New requests and crashes are not fair.
* Media transactions: PostgreSQL executes statements and grants locks. Strong fairness, because
  others may take a lock in between; its lock queues are first come, first served. Deadlocks are detected (`deadlock_timeout`).
* Budget: the database answers, timers fire, providers return within their timeout.

The other runs check safety only and assume no fairness.

## 5. Findings

* **A failed unlink that no job covers.** `infra/local-media-storage.ts:84` says of a partial file that could not be removed:
  "Failed unlink remains covered by the durable abandoned-upload job." `MediaLatePut` shows when it is not: the
  put waits behind other puts (`previousWrite`) until its job is due, the worker claims the job, deletes nothing and completes it; then the file is
  created, its write fails, and so does the unlink. It takes a put that starts later than `recoveryDelayMs` after its
  reservation. With `PutWithinDelay` the comment holds, as part of `BlobIsJournalled`.
* **A family archived over an active variant.** `infra/catalog-import-repository.ts:583` looks for other variants of a family in the statement
  that locks the family's row. When `createVariant` holds that row, the statement waits, but under READ COMMITTED its
  subquery keeps the snapshot from before the wait, since the locked row itself was not changed. The rollback then archives
  the family over the variant just inserted (`CatalogRollbackRace`), which `catalog.integration.test.ts:280`
  and `catalog-repository.ts:762` exclude.
* **Reviews before effects.** `docs/specs/2026-08-31-mascara-comparison-mvp.md:211` asks for "lexicographic tiers", wished-for effects before
  reviews. When no product leads alone in effects, `compareMascaras` weighs the reviews of every product that meets the
  requirements (`domain/comparison.ts:614`), not of those that draw in effects: of three products that show one, one
  and none of them, the last is recommended if its reviews are clearly the best (`ComparisonTiers`). With two products the tiers hold.
  The proof of `ComparisonIsHonest` brought it up: `RecommendationIsEarned` says what the code does grant, that a winner leads alone in effects, or nobody does
  and it leads everybody clearly in reviews.

A view that is loaded while another tab signs in as somebody else *and back* shows what it was answered in between, since the two checks of the session agree.
No document excludes that; `OneSwitchIsNoticed` says what the guard does grant, that a single change is noticed.

A new recovery code and the deletion of an account are requested in two steps, a look at the session and then a write that carries only a password
(`web/account-security.tsx:149`, `server/account-security/service.ts:48`, `server/account-erasure/service.ts:44`). If another tab signs in between the two, and both accounts have the
same password, the write is made for the other account, and its code appears under the name of the first. Reviews and preferences
send `expectedAccountId` against this; these two writes have no such field. `CodeOnScreenWorks` says what holds all the same: the code works for the account the server made it
for, and that account is the shown one unless the session changed after the check went out and before the write did. Without that exception TLC finds a trace of this kind within the bounds of `Client`.

Two hazards that the code accepts are listed without a property: the unfenced unlink of section 2, and a signal that arrives
during `listen()`, after which `start()` still starts the worker on a pool that has been ended
(`PoolOutlivesItsUsers` excepts such servers by name, `early`).

## 6. Proofs

TLAPS checks these for every value of the constants that satisfies the modules' assumptions, which TLC evaluates in the runs.

| Module | Theorem | Says |
|---|---|---|
| `OcrQueueProofs` | `TypeCorrect`, `EveryPromiseHasOneOwner`, `BoundsHold`, `QueueIsAlwaysSound` | `Spec => []QueueIsSound` |
| | `AlwaysFirstComeFirstServed` | `Spec => FirstComeFirstServed`, with `FcfsInv`: the queue is in the order of arrival |
| | `Refinement` | the queue implements `BoundedService` |
| `LabelProofs` | `ExecutionsAreAlwaysShared` | `Spec => []ExecutionsAreShared`, any calls, images, entries |
| | `HistoryIsAlwaysSound`, `AnswersAlwaysStayTrue` | any photos, texts, requests and numbers of revisions |
| | `AnalysesAreAlwaysGrounded` | any editions, notes and publishers |
| | `ComparisonIsAlwaysHonest` | any offers, briefs and dictionaries |
| | `LabelIsAlwaysRead` | labels of any lexemes and any length |
| | `OpenGateIsAlwaysEarned` | labels of any length, any corrections of a corpus |
| `MediaLifecycleProofs` | `TypeCorrect`, `FinishedJobsStayFinished` | types; `Spec => CompletedIsFinal` |
| | `NothingIsOrphaned`, `VisibleImagesHaveFiles` | `PutWithinDelay /\ Spec => []BlobIsJournalled`, and `[]LiveAssetHasFile` |
| `DatabaseProofs` | `TransactionsImplementRows` | `MediaAdmission`, statement by statement under locks, implements the atomic `MediaRows` |
| | `CallsAlwaysStayWithinBudget` | any calls, limits, days |
| `ServerProofs` | `MigrationsAreAlwaysSerial`, `PoolAlwaysOutlivesItsUsers` | any number of processes, versions, starts and deaths |
| | `LookupsAreAlwaysHonest` | any lookups, products, notations, bounds of the cache and of operations |
| | `AnswersAreAlwaysBooked` | any limits, with an abort or a timer at every await |
| `PeopleProofs` | `SessionsAlwaysMatchPassword`, `ErasureIsAlwaysComplete`, `GuestAlwaysHasOneFate` | any accounts, guests, tokens and requests in flight |
| | `ReviewsAreAlwaysSound` | any authors, moderators, texts, revisions |
| `CatalogProofs` | `PublishersAlwaysKeepTheirCode`, `DisputesAlwaysNeedModerator`, `RollbackIsAlwaysWhole` | any barcodes, accounts, imports of any size |
| | `LookupIsAlwaysOneMoment` | any variants, formulas, claims and lookups |
| | `ArtifactsAreAlwaysPublishable` | manifests of any codes and rows, dictionaries of any ingredients |
| `ClientProofs` | `CameraAlwaysFollows`, `CodeOnScreenAlwaysWorks` | any number of starts; any accounts, codes, actions and tabs |
| | `OneSwitchIsAlwaysNoticed`, `WritesAlwaysStayHome`, `EditsAlwaysSurvive` | any accounts, guests, tabs and late answers |
| | `ScreensAlwaysFollow` | any barcodes, forms, observations, turns and calls |

Along which argument:

* **Queue.** That no request waits beside a free slot holds outside `pump()` only because the count is the number of running calls,
  which needs that a call runs at most once, which needs that the queue has no duplicates and that nobody in it is answered. The inductive invariant is the
  conjunction; the proof has a step for each action. That nobody overtakes needs only that who begins was the head of the queue or never in it.
* **Media.** `BlobIsJournalled` is not inductive at the moment when a worker closes a job: the file must be gone by then and stay gone. `Journals` adds why:
  until a put has ended its row is pending and not due (`RequestSound`, the one place where `PutWithinDelay` is used), so a worker has
  claimed only uploads whose put has ended (`WorkerSound`); a deletion job exists only for an image that is over (`RowsSound`).
  `Claims` adds that a reservation claimed at most once is processed exactly while its worker holds it.
* **Transactions.** That images and reservations stay within the capacity is not inductive: what a request has counted must still hold when it inserts.
  `AdmissionInv` says which locks a request holds at each statement (`LocksHeld`) and whom they keep out (`Alone`), so that a count is
  never too low (`CountSound`, `RoleSound`). For the refinement each statement is a step of `MediaRows` or changes no row.
* **Budget.** A reservation that is admitted is with the database, with the provider or on its way to be completed, never in two of these places
  (`CallSound`, `OneCompletion`); the limit of a day never exceeds that of a call charged to it (`ChargeSound`).
* **Cache.** A call never gets the answer of another's abort because an execution that is aborted has nobody who waits, and one that is live has somebody
  (`WaitersSound`, `EntrySound`).
* **Provider call.** Where a call stands determines what was decided (`CallIsAt`); what is booked is what was sent, once (`BookedIsSent`); a draft
  that is believed has the last classification of every text (`Believed`).
* **Discovery.** A product has the operation that `flights` names, and who waits for it asked for that product (`OperationsAreSound`); what is answered
  or kept is something the sources stated of that product (`Backed`).
* **Migrations.** `MigrationInv`: who migrates holds the lock, what it has come past is recorded as it has it, what it is about to apply is not. That
  what is recorded is in order for *every* version needs `FilesAgree`: versions that share a migration share those before it. It is what
  numbered, sorted files give; it is an assumption on the constant and the code does not check it.
* **Accounts.** The invariants are nearly inductive, because every transaction checks again, under the lock, what it
  depends on. What a request read earlier matters only in that it named an account (`RequestsAreSound`).
* **Reviews.** A revision is written once, so a reading that has the number of a review is of that review, while its author is there.
* **Observations.** Revisions are only appended, so what a request was told stays there (`AnswersAreThere`). The first dictionary to be published stays, and whatever was read of it is it (`KnowledgeInv`).
* **Comparison.** A state says no more than that the answer is that to the question. What takes proving is what `compareMascaras` computes: it sorts and picks the first in several places, and is told
  again in words that know no order, who leads and by what (`ClearLeader`, `GoalLeader`, `WaysToWin`). `NotWorse` is a total and transitive order of fractions
  (`NotWorseTransitive`, `ClearlyBetterThanWorse`), which makes the first of a sort the leader. That the order of the products does not matter is proved without duplicates by carrying each of those words
  over a permutation, and with duplicates because there is one in either order.
* **Labels.** A pair of brackets is an opening one and a later one that closes no other (`PairsAreBrackets`), which keeps what is ignored after a marker away from every group.
  Ranges follow each other, leave out only separators and end outside of groups (`RangesAre`): the starts are numbered in their order (`Numbered`). Reading one range adds no token,
  and then it had nothing to read, or one token within the range with every word and group of it (`RangeIsRead`). So tokens stand for ranges of their own (`TokensComeFromRanges`), and the
  presence changes once, in a range whose marker is left out (`PresenceGrows`, `MarkersCount`). No assumption on what is printed is needed.
* **Benchmark.** Only a signed corpus opens the gate, and then anchors and components correspond one to one (`JudgedOnce`), so what was judged to be right is as large a share of either
  (`PassedIsRight`, `SharesGrow`). Counting needs that a label has finitely many components, that is that the parser ends with a sequence of tokens (`TokensAreListed`): the function
  it is exists and has values in the right set because a least number at which it did not would have a predecessor at which it did. That stands in for induction here and elsewhere.
* **Artifacts.** A padded code and its significant digits tell each other (`PaddedTells`); a wrong digit changes the sum by at most nine times a weight of one or three, never by a
  multiple of ten (`SumsDiffer`, `RestsDiffer`). While a publication is on its way, `PublishesAsReported` holds: what it inserted the dry run called ready, what it refused it did not, and the barcode of
  the rest is taken exactly if it was then, as no two candidates have one. A dictionary is read back as it was because its order is total on what has different ids, and a set has one ascending listing (`OneOrder`).
* **Catalog.** `Moves` says what a step may do to the rows of others; each curator's action satisfies it, and so do insertions. A rollback does
  not. It spares what was promoted because the two never share a family (`Apart`), both having inserted new ones, and frees only
  its own barcodes because two published imports never hold one (`Exclusive`), both having found it free.
* **Lookup.** What a lookup has read so far is of the snapshot it holds, and that snapshot was a moment at which its variant was published (`SnapshotIsWitnessed`).
* **Scanner.** A late stream is not taken for the wanted one because no two starts have one generation and none has that of a closed dialog (`StartsAreTold`).
* **Recovery code.** A code that was answered and is not shown yet has to be good as well, and nothing may be on screen while the code to come replaces it (`PendingAction`, `ShownCode`).
  A session that is not the one that was checked is that of a sign-in since (`Dated`); nothing is assumed of passwords.
* **Private screens.** What a view holds was asked for under cookies of which each may have followed the one before; if the session changed at most once, the two looks at it differ (`RowIsDated`).
  That writes stay home needs that a write on its way names the account on screen (`RowIsOrderly`), whatever its cookie is; and with it that what an account's view shows was loaded for it.
* **Product screens.** The call a screen waits for carries the question as it stands (`SearchInv`, `CompareInv`, `WorkspaceInv`); what is out of date nobody waits for.

The assumptions on constants are what the code's types and configuration give: limits and sizes are positive numbers, the values that stand for
"none" are not among the things they stand in for, the facts of a product have the fields and the literals of their types, a corpus has finitely many labels. `FilesAgree` is the only one the code neither
checks nor gives. `PutWithinDelay` is a hypothesis of the two theorems that need it.

Only model-checked is liveness: `NobodyIsForgotten`, `EveryCallAnswered`, `TransactionsEnd`, `AdmissionsConcluded`, `ErasureReachesTheDisk`, `JournalDrains`. Fairness and
`ENABLED` are out of the prover's reach.

## 7. Not modelled

* Routes and contracts validate and map; the command line tools are I/O around the repositories; configuration is parsed; deployment starts one process.
* Of the budgets, `purgeExpired()`, which deletes rows older than 29 days, weeks after their calls are over, and the reports of `summary()`.
* Of the server's start, health checks and the wiring of services.
* Of the private screens, the panel's deletion of a guest and the upload of photos: what the server makes of them is in `Accounts` and
  `MediaLifecycle`. The panel checks the session in one request and deletes in another, which names no guest: the cookie that is sent then decides.
* Data: password hashing and the entropy of tokens and codes, image signatures, texts of answers, prompts, telemetry, layout.
* Wire formats of the sources are reduced to classes of answers; what a found product says of itself is left out.
* Order of text in the database: dictionary entries are read back in the order of a bytewise collation, as the artifact is signed.

PostgreSQL and the file system are taken at their word: committed rows are durable, isolation levels and locks do what is documented, an unlink or a write happens or fails.

## 8. What could follow

The tiers of the comparison, once code or specification has changed; a property of rotation and deletion without the exception of section 5, once their requests name the account; guest deletion in `PrivateScreen`, and `purgeExpired()` with a retention short enough to matter, in the model.
