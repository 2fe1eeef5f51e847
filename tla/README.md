# A TLA+ verification of Axiom-Grid

Axiom-Grid has two products in one repository, and this directory models both.

The focused preview lets a user supply text, sends it to a local model and shows
the suggestion for review:

    overlay page (app.js) --Tauri commands--> native bridge (phantom_bridge.rs) --+
                                                                                 |  HTTP, bearer token
    VS Code extension (state.js, extension.js, client.js) ------------------------+--> axiom-runtime --> Ollama
                                                                                 |
    pairing file (ipc_pairing_unix.rs) <---- read or created by runtime and bridge

The document service reads documents, proposes values with provenance, and
produces governed redlines:

    HTTP --> overlay/server.py --+-- /api/extract-document --> pool --> child process (isolated_ingest.py)
                                 |                                        |
                                 +-- /demo, /apply, /correct ---> pipeline (orchestrator.py) --> provenance graph,
                                 |                                          quality gate         memory store (SQLite)
                                 +-- /readyz --> cached probe
    kernel/sidecar/melious_router.py: model router --> providers;  spend ledger (SQLite, shared by replicas)
    kairo/legal_v3: propose --> approve --> execute --> verify_bundle

The TLA+ modules model these parts, the TLC configurations check them on small
instances, and the TLAPS proofs hold for every instance. `PROJECT.json` relates
each definition to the source lines it models, each property to the hazard it is
for, and each property to a mutation of the model that breaks it.

## Inventory

| Component | State it keeps | Operations | What is hard | What makes it correct |
| --- | --- | --- | --- | --- |
| Preview runtime (`axiom-runtime`) | one semaphore permit, one slot for a oneshot cancel sender | `/materialize`, `/cancel`, shutdown | handlers on many threads, futures dropped at any await, `select!` races, graceful drain | permit conserved; a cancel hits only a running generation; nobody sees a cancellation nobody asked for; everything ends |
| IPC authorization (`api_security.rs`) | none | `authorize` | - | guards both routes |
| Native bridge (`phantom_bridge.rs`) | the lease: its owner and cancel sender | `materialize`, `cancel_active` | commands race, the cancel acknowledgement outlives the sender | one call holds the lease from reservation to return; cancel answers are truthful |
| Overlay page (`app.js`) | generation and readiness counters, `pending`, `requestDiscarded`, `cancelling`, two fields | generate, cancel, clear, edit, check readiness | answers in any order, unaddressed cancel commands | no stale preview, no stale readiness, never locked |
| IPC pairing (`ipc_pairing_unix.rs`) | directory, its flock, token file, temporary files | `load` | several processes, kills and failures between system calls | all agree on one whole token, never replaced; startup never hangs |
| VS Code client (`extensions/vscode-lite`) | epoch, candidate, pending run, pairing flag, secret | complete, discard, set and clear token, editor events | edits, token changes and discards at every await | suggestions fresh, discarded requests disconnected |
| Model router (`melious_router.py`) | per model: circuit, failure count, probe flag, generation, cooldown | `_complete` | threads share the breakers, the lock is not held over a request, late answers, interruptions | the half-open lease has one live owner, old answers change nothing, every call ends |
| Spend ledger (`melious_router.py`) | rows in a shared SQLite file, permits of a replica | reserve, settle, reconcile, `complete` | replicas crash, settlements fail, stale reservations of calls still running | admission under the ceiling, each attempt charged once and never at nothing, permits come back |
| Document API (`overlay/server.py`) | extraction slots and pool, readiness cache, rate-limit buckets | extract, readyz, demo, apply, correct, lifespan | deadline against a worker that goes on, unlocked reads, shutdown order | exact capacity, everyone answered, a ready verdict that is backed |
| Isolated ingestion (`isolated_ingest.py`) | child process, its result file, deadline | ingest, child, kill, read | a child that hangs, crashes or publishes too late | no parser outlives its request |
| Document pipeline (`kernel/sidecar`) | provenance graph in memory, memory store on disk | register, extract, gate, suggest, apply, correct | restart loses one of the two records, the store closes under running threads | what is offered is on record, corrections keep their effect |
| Legal transactions (`kairo/legal_v3`) | output file and evidence bundle | propose, approve, execute, verify | crash between any two writes, inputs edited, two executions | output whole and approved, verifying evidence is true evidence |
| Sync, trust, audit, reference monitor (`kairo`, `kernel/core`) | manifests, hash chains, tokens | merge, append, verify | order of merges | not modelled |
| Legacy daemon and sidecar, agents, packs, benchmarks | - | - | - | not modelled |

`PROJECT.json` lists every component with its files and the reason when it is not
modelled, and under `hazards` what could go wrong at which line.

## Modules

* `JobOwnership` - abstract specification: a component that runs one cancellable
  job at a time. Jobs are refused or admitted while no other runs; a running job
  is signalled at most once; it ends as cancelled only if it was signalled.
* `AxiomRuntime` - the runtime. A preview handler is a process with positions
  between its operations on shared state: `Accept`, `Preview` (body checks and
  `try_acquire`), `ArmCancel`, `Preflight` and `Generate` (the awaits inside the
  `select!`), `Cancelled` (its other branch, which a dropped sender triggers as
  well as a signal), `Finish` (disarm, then release), and `DropHandler` (the
  future dropped at an await: permit back, slot not disarmed). `/cancel` is
  `CancelTake` and `CancelSend`, since the lock is released before the send.
  `ShutdownSignal`, `DrainDeadline` and `Stop` are `main`.
* `PhantomBridge` - the bridge. `Reserve`, `Setup`, `Answered`, `CancelBranch`,
  `Acknowledged`, `DropFuture` and `DropLease` are the life of a `materialize`
  call, in the order Rust drops its locals (receiver before lease);
  `CancelActive` takes and sends under one lock. The runtime behind it is external.
* `Overlay` - extends `PhantomBridge` with the page. An event handler is one step
  up to its await and one after it. A materialize command and the cancel command
  of a discard are both named by the value of `generation` at which they were
  issued, so "the cancel meant for request c" is `c + 1`. The variable `began` is
  a ghost: the number of failures known when a readiness check began.
* `Pairing` - `load` as processes that share a directory, one step per system
  call that another process can observe; `IOError` and `Kill` can strike anywhere.
  Random tokens and temporary names are fresh, so a loader's name stands for both.
  Ownership, mode, link count and length checks are the one distinction "usable
  or not".
* `EditorSession` - the VS Code session. `run` is split at its three awaits;
  editor events act together with the handler they trigger, as the extension host
  runs them; `SecretStorage` is external and shared with other windows, whose
  changes are announced some time later (`foreign` is a ghost flag for the time in
  between). A candidate records the token and epoch it was made with (ghost fields).
* `MeliousRouter` - calls of `_complete`. Each critical section of the router's
  lock is one step: `Admit` (cooldown, `allow`, the probe flag and the generation
  it was admitted in), `Accept`, `Exhausted` and `Failed` (an outcome recorded in
  that generation, or not at all when the lock is not had in time), `Check` before
  a backoff, `Retry` after it, `Unwind` (the `finally` clause that returns a lease
  nobody settled). `success` and `failure` are the breaker's methods. Time is
  `Recover` and `CooldownEnds`; a deadline that passed is the local `late`.
* `SpendGovernor` - abstract specification of a token ledger: the class of that
  name, an aggregate of reserved and committed tokens under a ceiling.
* `SpendLedger` - `DurableSpendLedger` and the callers of `complete`: a
  transaction is a step or a failure that changes nothing, a replica may `Crash`
  between any two, `reconcile` settles what was left. `GrowStale` may happen to the
  row of any call, one still running included: `reconcile` asks only for the state
  and the age of a row, and nothing in the code ties `stale_after_seconds` to
  `total_timeout`. The settlement of such a call comes late and finds its row
  settled. `reconciled` is a history variable that says who settled a row, which the
  columns do not; `Charged` needs it. The module refines `SpendGovernor`
  with `reserved` and `committed` computed from the rows; the governor's bound on
  one settlement is `Ceiling + MaxSpend`, since a settlement charges what one call
  was billed and a reconciliation all the stale reservations at once.
* `Extraction` - `/api/extract-document`. Three actors per request: the handler on
  the event loop (`extract_document` up to its await, then `Deliver`, `WaitTimeout` or
  `CancelWaiter`),
  the work item in a pool thread, and the parser child. The pool's queue keeps
  cancelled items until a thread meets them. `Shutdown`, `Close` and `Reopen` are the
  lifespan. Process and thread mode are both modelled (`Modes`).
* `Readyz` - the cached verdict. A call on the event loop reads verdict, time and
  flag one after the other without the lock; the probe thread writes them in its
  own order under it. `last`, `lastAt` and `vouched` are ghosts that say what a
  truthful cache could have answered.
* `DocumentPipeline` - `/demo`, `/apply` and `/correct`. Each call into the graph,
  the store or the gate is a step; `Close`, `Reopen` and `Restart` are the lifespan,
  which does not wait for threads of `/demo`. `offered` and `applied` are ghosts.
* `LegalTransaction` - `propose`, `approve`, `execute` (one action per visible system
  call: temporary file, redline, read-back, replace, the bundle's four files) and
  `verify_bundle`. A digest is the content it is computed from. `disturbed` and
  `overrun` are ghosts for executions others interfered with. `MCLegalTransaction`
  gives TLC its symmetry set.
* `AxiomRuntimeProofs` (runtime and pairing), `OverlayProofs` (bridge and page),
  `EditorSessionProofs`, `MeliousRouterProofs`, `SpendLedgerProofs`, `ServerProofs`
  (readiness and extraction), `DocumentPipelineProofs`, `LegalTransactionProofs` -
  the theorems.

Abstractions shared by all modules: texts, tokens, prompts and documents are model
values; formats are "accepted" or "refused"; status lines, metrics and log output
are left out. Operators that differ from a modelled one by a plausible mistake (for
instance `ReleaseBeforeDisarm`) stand just before it; no specification uses them.

## Runs

| Run | Instance | Shows | States |
| --- | --- | --- | --- |
| `runtime` | 2 previews, 2 cancels | permit, cancellability, no spurious 499, refinement of `JobOwnership`, every generation ends, shutdown completes | 40k |
| `runtime_cancelled` | 2 previews, 1 cancel | **violated**: an acknowledged cancel does not always abort | - |
| `bridge` | 3 calls, 2 cancels | lease, truthfulness, refinement of `JobOwnership` | 31k |
| `overlay` | 3 requests, cancels up to generation 4, 2 texts, 3 readiness checks | fresh preview, cancels hit their own request, never refused as busy, fresh readiness, the page never stays locked | 169k |
| `pairing` | 3 creators, 1 reader | agreement, whole tokens, no replacement, termination | 14k |
| `editor` | 2 editors, 1 token, 2 overlapping setters, 2 run slots, 3 epochs | fresh candidate, current token, discarded requests disconnected, runs and pairing commands end | 347k |
| `router` | 2 calls, 2 models, threshold 2, 1 retry, 2 epochs | one owner of the half-open lease, only the probe decides, calls end | 285k |
| `ledger` | 3 calls on 2 replicas, 1 permit, ceiling of 2 reservations | admission, charges, permits, refinement of `SpendGovernor` | 1.03M |
| `extraction` | 3 requests, 1 worker, 1 queue place, both modes | exact slots, no orphan, everyone answered, permits return | 66k |
| `readyz` | 3 calls, TTL 2, negative TTL 1, clock up to 4 | a cached ready is vouched for, no stampede | 1.07M |
| `legal` | 2 executions of 2 proposals into 1 directory, 2 edits | output governed, evidence sound, a rerun is valid | 1.52M |
| `pipeline` | 2 documents, 2 values, 3 corrections, 2 restarts | offers are on durable record, the flywheel turns | 2.07M |

Bounds. Two handlers suffice for each race on the runtime's slot (the one that
leaves and the one that arms), and two cancels compete for one sender. In the
bridge a third call comes after the race of the first two. In the overlay,
`generation` is counted by requests and discards together, so `Calls` up to 3 and
`Cancels` up to 4 allow generate, discard, generate and a late cancel of the first;
`MaxChecks` bounds readiness checks and leaves room for two that overlap a failure.
In `EditorSession` a run slot is used again once its run has ended, so `MaxEpoch`
alone bounds the length of a session; three epochs hold a run, a pairing change and
an event that comes late to a second run; `MaxVersion` bounds edits. In the router
two calls are the probe and one admitted before the outage; a threshold and a retry
count above the smallest let a circuit fail without opening and a backoff straddle
an opening; `MaxEpoch` stops new calls, so calls under way always finish. In the
ledger the third call is the one that must be refused while a crashed reservation is
still held, and a call may be billed less, as much or more than its reservation
before or after `reconcile` overtakes it. One worker and one queue place with three
requests fill the pool, the queue and the refusal. The clock of `Readyz` lets a
success expire while a second probe runs, with three callers: probing, reading, and
waiting for the lock. Two executions and one directory are the pair that overwrites
each other. Three corrections cross every threshold of the gate's history, and two
restarts let one come between a correction and the next document. Deadlock checking
is off where a model stops because its requests, epochs or time are used up; the
runtime's model idles only in its `stopped` phase and is checked for deadlock.

Fairness. Runtime: the executor polls ready handlers; `reqwest`'s 90 s timeout
ends each await on Ollama; the drain timer fires and the teardown drops what is
left. Nothing is assumed of clients: a body may never arrive, a cancel may never
come. Overlay: Tauri runs invoked commands, the bridge's 95 s and 2 s timeouts end
its requests, the event loop runs continuations; the user owes nothing. Pairing:
the kernel schedules each process; the lock is polled and the open does not block,
so no step waits for another process. Editor: `SecretStorage` settles its
promises and the client's timers (2 s to connect, 95 s in all) end each request.
Router: threads run and the transport's timeout ends each request; nothing is
assumed of the provider. Extraction: the event loop runs what is ready, timers
fire, pool threads run; the parser owes nothing (its deadline kills it), and a
parse in thread mode, which nothing can stop, owes nothing either, so
`SlotsReturned` makes an exception of the time while one runs.

## The finding

`runtime_cancelled` checks what the comment on `cancel_generation`
(`axiom-runtime/src/lib.rs:299`, "Abort the in-flight generation, if any") and the
test `cancel_aborts_in_flight_generation_and_frees_the_slot` say of an
acknowledged cancel. TLC's trace: a generation is in the `select!`; `/cancel`
takes its sender, the send succeeds and answers `cancelled: true`; the model's
answer is ready when the task is polled, `select!` takes that branch and the
request answers 200. The clients do not rely on it: the bridge drops the request
before it asks for the cancellation, and the page never shows what was discarded
(`FreshPreview`). What does hold is the converse, `NoSpuriousCancel`.

## Proofs

Every safety property that a passing run checks is also a theorem, for any sets of requests,
calls, texts, documents and processes. The assumptions are the named `ASSUME`s of the
modules: `None` (in `Pairing`, `Nil`) is not one of the other values; for the overlay,
requests are positive numbers and finitely many; for the router, there is a model and
the failure threshold is positive; for the ledger, the calls are finitely many (its
aggregates are sums over all of them), permits are positive, and the ceiling and the
estimates are natural numbers; for extraction, readiness and the pipeline, pool size,
lifetimes and confidence are numbers of their kind; for legal transactions, the
allowed playbooks are playbooks. None bounds the length of a behaviour.

* `AxiomRuntimeProofs`: `IInv` adds to the properties that a sender is in the slot
  exactly when the slot names it (`SlotInv`), that a taken sender belongs to
  exactly one cancel that is about to send (`TakenInv`), and that a generation in
  the `select!` has a sender that is in the slot, taken or sent, never dropped, and
  that a signal, an acknowledgement and a 499 go together (`SignalInv`). The
  properties alone are not inductive: that arming never drops a live sender needs
  the permit and the slot together. From `IInv`: `RuntimeTyped`, `RuntimePermit`,
  `RuntimeCancellable`, `RuntimeNoSpurious`, `RuntimeAckOnce`, and
  `RuntimeOwnsOneJob`, the refinement, step by step.
* `OverlayProofs`, the bridge: `BridgeIInv` adds where each sender is (`SenderInv`) and
  that signals and acknowledgements correspond (`DeliveryInv`); `BridgeTyped`,
  `BridgeLease`, `BridgeNeverClosed`, `BridgeCancelTruthful`, `BridgeRefines`.
* `OverlayProofs`, the page: every step of the composition is a bridge step or leaves the
  bridge alone (`OverlayBridge`), so `BridgeIInv` carries over; on top of it,
  at most one request is live and it is `generation`, or a discarded one before it
  (`OwnInv`), an unanswered cancel belongs to the discard in progress (`CancelInv`),
  and nothing is displayed meanwhile (`ViewInv`). Theorems `OverlayFreshPreview`,
  `OverlayCancelHits`, `OverlayNeverBusy`, `OverlayReadinessFresh`.
* `AxiomRuntimeProofs`, pairing: whoever is past the lock holds it, what is about to be renamed
  is whole, and a creator past its first read still finds the name free;
  `PairingTyped`, `PairingAgrees`, `PairingPublishesWhole`, `PairingNeverReplaces`.
* `EditorSessionProofs`: `EditorIInv` adds that the run that has not ended is the
  controller's (`OneRun`), that a run of the current epoch has a current snapshot
  whose editor is the tracked one (`Tracked`), that a run that goes on holds the
  stored token (`Tokened`), and that a pairing change is alone, with nothing of the
  old token left (`PairingAlone`). Without `Tracked` a suggestion could be offered
  after an edit that no handler saw. Theorems `EditorTyped`, `EditorCandidateFresh`,
  `EditorTokenCurrent`, `EditorDisconnects`.
* `MeliousRouterProofs`: `LeaseInv` adds to `LeaseOwned` that a circuit that is not
  closed has used up its failures, so the next one reopens it and starts an epoch
  (`CircuitCoherent`), that no call was admitted in the future (`Admitted`), and that
  whoever was admitted in the current epoch without the lease was admitted by a
  circuit that has stayed closed (`OldEpochs`). Without the first the `finally`
  clause could count a failure and leave the circuit half-open with nobody's
  lease; without the last a late answer could close it. One lemma (`TryingStep`)
  covers every step of a call under way. Theorems `RouterTyped`, `RouterLease`,
  `RouterOnlyProbe`.

* `SpendLedgerProofs`: the first part proves what a sum over a finite set is
  (`MapThenSumSet` is recursive): that it exists, and how it changes when one term
  does, when the set is split, when terms grow. An induction principle with an
  operator parameter is not available, so each lemma takes the set of the subsets
  for which it fails, and a minimal member of it (`Minimal`). `LedgerInv` is `TypeOK`,
  `Charged`, `PermitsConserved`, which row and which billing a position of a call
  implies (`RowsFollow`: the row of a call under way is still reserved unless
  `reconcile` settled it, so no bill grows that was already charged), and that what is
  left of all reservations fits under the ceiling (`LeftUnderCeiling`). The total that
  `reserve` compares with the ceiling is at least what is left, row by row, and that
  is the step that matters. Theorems `LedgerTyped`, `LedgerAdmission`, `LedgerCharges`,
  `LedgerPermits`, and the refinement `LedgerRefines`: one transaction moves one row,
  a reconciliation moves every stale row of the shared file at once, and both are one
  settlement of the governor; the settlement that comes after a reconciliation is no
  step of it.
* `ServerProofs`, readiness: `ReadyzInv` has that the lock is held exactly by the call
  that probes (`SingleFlight`), that no time is in the future (`Clocks`), that the flag
  follows the newest outcome at once while verdict and time follow when the probe lets
  go (`CacheFollows`), and that a call which has seen the flag set and a fresh time is
  vouched for already (`FlagVouches`). The last two are why the order in which the
  probe publishes and retracts makes the unlocked read sound. Theorems `ReadyzVouched`,
  `ReadyzNoStampede`.
* `ServerProofs`, extraction: the properties with the types, the finiteness of the
  items that hold a permit, and that nothing runs before its request was handled and
  nothing is queued in a pool that is shut down (`NothingEarly`). One lemma (`MoveCounts`) says how the two counts change when one
  item moves, one (`ThreadKeeps`) covers every step of a pool thread. Theorems
  `ExtractionSlots`, `ExtractionNoOrphan`.
* `DocumentPipelineProofs`: a pipeline gets no further than what the store took
  (`RowsFirst`), and only what was offered has an action or is applied
  (`OfferedFirst`); from them `PipelineOnRecord`. `PipelineFlywheel` rests on it: the
  corrections of offered values survive the JOIN, of three or more the window shows
  three (`WindowShows`), so the penalty is at least 45 hundredths. It assumes a window
  of at least three (the gate asks for five) and a claim below 0.95: with 0.95 or more
  the flywheel needs a fourth correction.
* `LegalTransactionProofs`: `LegalInv` has that only what stays in the operation set is
  granted (`GrantInv`), that an execution under way has a job for an approved proposal
  on the documents it names (`JobInv`), and, for executions nobody disturbed, that they
  still find the inputs they took digests of (`InputsInv`), that temporary file, output
  and read-back digest are their own (`TmpInv`, `OutputInv`), and that what they have
  behind them of the bundle is what they wrote (`BundleInv`); every whole manifest is
  truthful, disturbed or not (`ManifestInv`). `EvidenceSound` alone is not inductive: a
  bundle may be completed by a second execution over the first one's manifest, and
  only `ManifestInv` says that such a manifest still names an approved proposal.
  Theorems `LegalOutput`, `LegalEvidence`, `LegalRerun`.

Only model-checked: liveness (`GenerationEnds`, `ShutdownCompletes`, `NeverStuck`,
`LoadEnds`, `SessionSettles`, `CallsEnd`, `EveryoneAnswered`, `SlotsReturned`), which
needs fairness and ENABLED and is out of the prover's reach.

## Observations without a run

Noted while modelling; the code behaves as described, and no property above
depends on it.

* A value the quality gate blocked is still turned into a suggestion and can be
  applied: the verdict travels with it, and nothing but the page acts on it
  (`kernel/sidecar/orchestrator.py:7`).
* `/demo` on a PDF or DOCX, whose text is not in the request, answers with the
  chunks of every document in the graph (`overlay/server.py:776`).
* Two executions on one output path, or an edit undone before the read-back, end
  in a bundle that verifies although another execution's document is at the output
  path; `EvidenceSound` therefore speaks of executions nobody interfered with. The
  approval's nonce is not recorded, so one approval starts several executions until
  it expires.
* A call still running when `reconcile` expires its row is charged its reservation;
  what it is billed beyond that is dropped, because its own `settle` finds no
  reserved row (`kernel/sidecar/melious_router.py:172`). The in-process
  `SpendGovernor` says of such an overshoot that it "is never clamped"
  (`melious_router.py:94-96`); `Charged` states what the shared ledger does.
* After a restart `/source` finds the extraction's row, which carries no anchors, and
  an empty graph, and answers 404 "Provenance chain is incomplete"
  (`overlay/server.py:1309-1328`). `OfferedOnRecord` is about the rows, which a
  correction is joined with, not about that chain.
* `/demo` takes the pipeline gate that extraction workers take; `Extraction` has only
  the workers. One worker never contends for the gate in the run, any number does in
  the theorem `ExtractionSlots`.
* A parse in thread mode counts its remaining time anew after it has waited for
  the pipeline gate.
* A sync merge keeps the local value on a tie, so two devices that merge each other
  may keep different values.

## Not modelled

`GET /readiness` and `/health` read without changing state; the identity policy
(`inventory_matches`) is a verdict here. HTTP keep-alive and partial responses are
"answered or failed". The Rust mutexes are never poisoned (no code panics while it
holds one). A power loss that undoes a directory entry is not modelled. Windows,
where pairing by file is unsupported, is left out. Bridge and runtime are not
composed: each is modelled against a nondeterministic other, so a cancel that the
bridge gave up on and that reaches the runtime during a later generation is in
`AxiomRuntime` a cancel like any other.

Of the document service: the middleware (rate limiter, keys, origin, body limit),
uploads, `/api/ask-document` and the read-only routes; the parsers and extractors,
which compute a result from one document and keep no state; of the memory store
the entities, users, model versions and stored actions, which have no caller in
the service. Of `kairo` and `kernel`: the audit log and flight recorder (appended
by one session at a time), the reference monitor, and synchronisation, whose
transport is not in the repository.

Most of the repository's Python is not state but transformation: generators,
exporters, parsers, masters and benchmark packs of the earlier product
(`kairo-sidecar`, `kairo/pdf`, `kairo/oracles`, `training_data`), each request a
function of its own document. A model of it would repeat the code; the share of
lines the map covers is small for that reason.

## Plan

Done: the preview's five parts, the router, the ledger, extraction, readiness, the
pipeline, legal transactions, and the theorems above. Next, in this order:

1. Proofs: the type invariant of `Overlay` as a theorem of its own; what the liveness
   properties rest on and is safety: that each position has a next step (no call of
   the router, no loader and no request is ever stuck for want of an enabled step).
2. Composition of both clients with the runtime: the runtime's `/cancel` is not
   scoped to a request.
3. The rate limiter's eviction and the reference monitor's single-use tokens.
