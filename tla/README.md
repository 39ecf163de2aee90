# Verification of adjudicate

adjudicate puts a deterministic kernel between an LLM agent and the side
effects it proposes: every proposed intent is an envelope with a content hash,
the kernel answers EXECUTE, REWRITE, REFUSE, DEFER, ESCALATE or
REQUEST_CONFIRMATION, and an impure shell makes the answer durable, at most
once, before an executor runs. The kernel is a pure function and well tested.
What is hard is the shell: promises, several replicas over one Redis, retries,
duplicate deliveries, failing sinks and processes that die between two awaits.
This directory models that shell in TLA+, checks it with TLC and proves most of
what it checks, for all values of the constants, with TLAPS.

Every definition that models code has an entry in the `map` of `PROJECT.json`
with the lines it stands for.

## 1. Inventory

| Part | State | Operations | Why it is hard | Modelled in |
|---|---|---|---|---|
| Audited shell, `core/src/kernel/adjudicate-and-audit.ts` | one decision per call, a claim, a rate-limit increment | kill switch, replay check, kernel, second pass of a rewrite, claim, metrics, audit emission, release, rollback | concurrent attempts on one hash; failures between claim and effect | `AdjudicateAndAudit` |
| Execution ledger, `audit/src/ledger-*.ts` | one key per intent hash | check, SET NX, DEL | the only arbiter between replicas | `AdjudicateAndAudit`, `OnceOnly` |
| Deferred intents, `runtime/src/defer-*.ts` | pending blob and counter per session, cycle counter, resume token | park, resume | duplicate and late signals, a counter without a transaction | `DeferParkResume` |
| Distributed kill switch, `audit/src/distributed-kill-switch.ts`, `kill-switch-pubsub.ts` | one Redis key, a snapshot per replica | trip, clear, poll, subscribe, stop | two connections that overtake each other, lost messages | `KillSwitch` |
| Buffered sink, `audit/src/persistent-buffered-sink.ts` | queue in memory, spill storage | emit, drain, evict, ack | overlapping calls, partial failures, restarts | `PersistentBufferedSink` |
| Rate limit, `core/src/kernel/rate-limit.ts` | counter with an expiry | increment, decide, roll back | rollbacks race the window | `RateLimit` |
| Approvals, `approval-engine/src/`, `confirm()` in `adapter-core/src/loop.ts` | registry row, confirmation token | request, resolve, take, mark | votes from several replicas, a non-atomic take | `ApprovalEngine` |
| Kernel, `core/src/kernel/adjudicate.ts`, `taint.ts` | none | guard order, taint lattice and gate, rewrite gate; waiver and second pass in the shell | decisions about one envelope used for another | `Kernel`, `Taint` |
| Agent loop, `adapter-core/src/loop.ts`, `decisions.ts`, `bridge.ts` | a turn's history and flag; the session's flag, tokens, parked intent, budget | send, confirm, resume, reads, burn-down | turns of one session overlap and continue each other's histories | `AgentLoop` |
| Remediation, `adjutant/src/orchestrator.ts`, `pack-incident-response/src/policies.ts` | proposal store, approval registry, ledger | handle a signal, resolve a proposal | two stores written in turn, repeated signals and approvals | `Remediation` |
| Session stores, `adapter-core/src/persistence*.ts`, `token-usage-store*.ts` | tokens, grants, budgets, flags, memory | put, take, burn, increment | compare-and-set against plain GET/SET | as state of `AgentLoop` and `ApprovalEngine` |
| Other sinks, event bus, emergency store, `audit/src/` | buffers, subscribers | emit, publish | fan-out of failures | no |
| Supersession chains and replay, `audit/src/` | none | rebuild chains from records | cycles, forks, missing links | no |
| Guard statistics, `audit-postgres/src/guard-stats-store.ts` | counters per guard | reserve | one SQL statement | no |
| Claims kernel, `core/src/claims/` | none | compile and evaluate claims | size | no |

How they interact. The agent loop builds an envelope from a tool call and gives
it to `adjudicateAndAudit`, which reads the kill switch, asks the ledger, calls
the kernel, claims the hash and emits the record through the sinks. The loop
then acts on the decision: EXECUTE and REWRITE reach the executor; DEFER parks
the envelope, and a signal resumes it through `resumeDeferredIntent` and a new
adjudication; REQUEST_CONFIRMATION stores a token, which the approval engine or
a user redeems through `confirm()`, again with a new adjudication. The
remediation orchestrator is a second shell around `adjudicateAndAudit`, without
a model in the loop. Replicas
share Redis and nothing else.

Properties that make the parts correct: an effect happens at most once per
hash, after its durable record and under its own claim; a failed attempt leaves
no silent claim; a signal resumes an intent once; a quota or cap is never
exceeded by racing callers; a tripped switch reaches every replica; no audit
record disappears unreported or out of order; an approval needs its quorum; what
runs was authorised as it stands and trusted no more than what was submitted;
retrieved data taints every intent proposed from a conversation that holds it.

What is not modelled, and why, is listed part by part in `PROJECT.json`
(`components`, status `not_modelled`): policies of single domains, provider
adapters, HTTP and user interfaces, the command line, formatting and SQL are
sequential or pure I/O.

## 2. The modules

`OnceOnly` is the abstract specification: a hash is free or held, and its
effect is performed at most once, while held. Four modules implement it
through a refinement mapping, each stated as `ImplementsOnceOnly`: the ledger
claims of `AdjudicateAndAudit` (hash = intent hash), the resume tokens of
`DeferParkResume` (hash = intent and signal), the confirmation of one intent
in `ApprovalEngine`, and the runs of a nonce in `Remediation` where a ledger is
wired. The first three are also checked by runs; the fourth is a theorem.
`ApprovalEngine` uses the contract of the ledger where
`confirm()` calls `adjudicateAndAudit`.

`AdjudicateAndAudit`. One attempt per member of `Calls`; `pc` names the await
it stands at, and one action is the code between two awaits: `Begin` (rate
limit counter, tenant kill switch), `CheckLedger`, `Adjudicate` (the kernel's
decision, the confirmation override, the second pass of a rewrite, which may
move to another hash; `Kernel` says what it may be), `Claim`, `Emit`, `Release` (the catch block), `Finally`,
`Translate` (the executor). The kernel's decision is any decision. Faults:
ledger commands that throw with or without effect, telemetry that throws
between claim and try, an emission that throws with or without its record
landed, death at any await.

`DeferParkResume`. Park calls and deliveries of signals over one session's
keys, one action per Redis command. `Count` is INCR and the quota, or the
script when `atomic`; `RollBack`, `Store`; `Read`, `Cycle`, `TakeToken`,
`Delete`, `Decrement`. Faults: death, expiry of the blob, commands whose failure
the code swallows.

`KillSwitch`. A transition is numbered by its SET. A replica's GET is answered
in one step (`Get`) and acted on in another (`Answer`), with messages of the
channel (`Hear`) in between. `PubSub` says which replicas and operators run the
second version, so that one model holds a fleet in the middle of an upgrade.

`PersistentBufferedSink`. Records are numbered by emission; the serializer is
`Turn`; `DrainStorage`, `Ack`, `DrainMemory`, `EmitInner`, `Buffer` are the
awaits of one emission. A throwing inner sink may have taken the record.

`RateLimit`. The key's entries are numbered, a window is the life of an entry.
`Check`, `Decide`, `Rollback`, `Expire`.

`ApprovalEngine`. One token. `Resolve` queues a call at its replica, `Turn` is
the promise chain, `Enter` reads the row and applies the gates, `Vote` writes
the row back, `Take` and `Delete` are the two commands of the confirmation
store's take, `Adjudicate` and `Execute` the claim and the effect, `MarkGet` and
`MarkSet` the registry's mark.

`Taint` is the lattice: ranks, meet, the gate on a proposal with and without the
origin, contamination. `Kernel` extends it with `Adjudicate`, the guard order as
one operator of an envelope, the answers of its guards, a possible rewrite, the
taint policy and the kill switch, and with what the shell does with the answer
(`Waive`, `SecondPass`, `Granted`). The guards answer anything, also a throw. Its
state is one intent that is submitted, asked about and confirmed while the
answers and the switch change.

`Remediation`. Calls of `handle()` and `resolve()` over one ledger, one proposal
store and one registry; one action per await: `Fetch` (the incident, which may
have changed at every read), `Check`, `Record` and `Execute` of either call,
`Register` and `Propose` of handle(), `Look`, `Mark` and `MarkRow` of resolve().
`Verdict` is the pack's guards in their order, `Ruling` what the shell makes of
it. An envelope is its own hash, so that a clamp is another hash.

`AgentLoop`. Turns of one session. A conversation is the set of reads whose data
it holds and the set of tool uses it leaves without a result; `held` is what the
host has been given and may give back. `Send`, `Confirm` and `Resume` begin a
turn; `Clear`, `Load`, `Call`, `Block`, `Read`, `Put`, `Propose`, `Burn`, `Again`,
`Act` and `FeedBack` are its awaits. A use answered by "Not processed" is
answered in the `Act` that pauses. The kernel's decision is any decision, REWRITE
among the executions. `kept`, `redeemed` and `effects` are history variables.
Faults: a turn that dies anywhere, a swallowed store failure, the flag's time to
live, a configuration that drifted from its seal.

The `MC*` modules add model values and symmetry sets; the `.cfg` files give the
constants.

## 3. The runs

| Run | Instance | What it shows |
|---|---|---|
| `aa` | 2 attempts, 2 hashes, all faults, fair | at most one effect per hash (`AtMostOnce`), after its record and under its claim (`EffectIsCovered`); increments of executing attempts stand (`CountedWhileItMayRun`); a failed emission leaves no unreported key (`NoSilentOrphan`); only owners release; a claim is used, freed or reported; refinement |
| `aa_telemetry` (violation) | 2 attempts, throwing telemetry | a comment says the emission is the only path that propagates errors; metrics that throw before the try block reject the call with its key claimed |
| `defer` | 3 parks (one unverifiable), 2 deliveries, 2 signals, quota 1, script or not, cycle cap 0 or 1, all faults, fair | one resumption per intent and signal; accepted parks minus resumptions stay within the quota, without the script too; a refusal is justified by the quota where the script counts; refinement; no delivery yields to one that gives up |
| `defer_pending` (violation) | 2 parks, 2 deliveries | the quota counts concurrently parked envelopes, but a session has one pending key: the second park overwrites the first |
| `ks` | a v1 and a v2 replica, 3 transitions, all faults, fair | replicas show only what the key has held; pollers never go back and stay quiet after stop(); running replicas converge |
| `sink` | 5 records, queue of 1, storage of 2, all faults, fair | no silent loss; a success vouches for the past; first arrivals in order; no wedge |
| `rate` | 5 requests, cap 2, 3 windows | the cap holds up to rollbacks that outlive their window; the counter covers live requests |
| `approval` | 3 calls, 3 approvers (one the proposer), 2 replicas, quorum 2, all faults, fair | a quorum behind every effect; one effect; in one replica votes are kept and declines and resolutions final; every call answered |
| `remediation` | one signal delivered twice and 2 approvals, all dispositions, radii at every threshold, with and without a ledger, throws, fair | with a ledger one run per nonce; nothing runs beyond the radius its path allows; a waiting proposal has its pending row; a claimed hash is run or its call rejects |
| `remediation_clamp` (violation) | 1 call | with a ledger a clamped remediation is refused as a replay of its own first pass |
| `kernel` | 2 contents, 2 levels, 2 origins, 5 answers per phase and pass, 2 calls | what runs was authorised as it stands (`RunsAreAuthorised`); a rewrite never raises trust; no run from a submission that fails the gate unless a state guard ruled first |
| `loop` | 3 turns of one reply, or 2 of two; a reply has a read, an intent and a blocked tool; budget 1; all faults | retrieved data is never laundered while its flag stands (`NoLaunder`); a use runs once (`RunsOnce`); the budget pays within its limit (`AskedIsPaid`); the model is called with every use answered, except after a confirmation |

Each property has a mutant in `PROJECT.json`: a plausible slip in one mapped
definition (a dropped guard, a swallowed error, a lock left out) under which TLC
finds the property violated. The operators that only mutants use stand beside
the definition they would replace.

Bounds, and why they are enough. Attempts interact through one key of the
ledger, so two attempts meet every race of claim, release and suppression, and
two hashes give a rewrite another attempt's key; the theorems below lift the
safety part to any number. Three parks and three deliveries let a duplicate
meet both a roll-back and a second parking. Three transitions let a message and
a poll each be overtaken. Five records fill the queue and the storage and then
evict from both. Three windows let a rollback miss its window by one and by
two. Three turns are the smallest chain of asking, confirming into a deferral,
and resuming; two replies let a read in the first taint an intent in the second,
and one signal delivered and approved twice is the smallest race over a nonce.
Three calls are the smallest number with a quorum of two and a racing
third. `MaxRecords`, `MaxWindows`, `MaxCalls` and `Sizes` are the only counters that are
capped in a guard; `CHECK_DEADLOCK FALSE` stands in every configuration because
calls end and nobody is obliged to make another.

Fairness. Every liveness property assumes weak fairness of the steps of calls
that have begun: the event loop runs each continuation, and clients answer or
throw (in `KillSwitch`: polls are answered again and again). Nothing is assumed
of callers, operators, signals, messages or faults. A client that neither
answers nor throws is outside the models.

Symmetry is used only in runs without liveness.

Every module states its `TypeOK`; run `aa` checks that of the shell, and a
theorem shows that of every component.

## 4. The proofs

`AdjudicateAndAuditProofs` proves, for every set of attempts and hashes, with
or without a `release` method and under every set of faults:

- `TypeCorrect`, `AtMostOnceHolds`, `EffectIsCoveredHolds`,
  `NoSilentOrphanHolds`, `CountedHolds`: the invariants of run `aa`;
- `OnlyOwnerReleasesHolds`: its action property;
- `SuppressedByAnother`: an attempt that is told its hash was processed yields to
  another attempt that claimed that very hash, or was cut off at its claim; never
  to itself, nor for a hash its rewrite has left;
- `Refinement`: the protocol implements `OnceOnly`.

The assumption is the module's own `ConstantsAssumption`. `AtMostOnce` is not
inductive: it says nothing of an attempt that has claimed and not yet run. The
inductive invariant adds what each phase knows: an attempt that has decided to
execute and passed its claim holds the key of its hash (so two of them cannot
share a hash); a key's owner is at a phase after its claim; the durable row of
an executing attempt is there once its emission returned; only an attempt whose
emission threw is in the catch block; an increment is given back only by a
decision that does not execute. The proof has a step per action and below it
one per conjunct the action can disturb; the theorem about a property then
follows from the invariant with PTL.

`KernelProofs` proves, for every set of contents, levels and origins, every set
of answers of the guards and any bound on the calls:

- `MeetIsGreatestLowerBound`, `MeetCommutes`, `ContaminationAddsFriction`: the
  laws of the lattice, and that a contaminated session is let through no gate
  that a clean one is not;
- `RunsAreAuthorisedHolds`, `NeverElevatesHolds`, `GateOnSubmissionHolds`: the
  invariants of run `kernel`.

`ExecuteSays` and `GuardSays` go through the order of the guards once and say
what an EXECUTE, a question and a rewrite each imply about the envelope and the
guards; `DecisionSays` puts two passes and a waiver together; and `SettleIsRight`
says that a call writes a correct record of its run. As every call writes that
record anew and nothing else touches it, the three invariants are then inductive
beside the type invariant, whose own strengthening is that an intent not yet
submitted has had no call (`TypeInv`, behind `TypeCorrect`).

`DeferParkResumeProofs` proves, for every finite set of parks and of deliveries,
every intent, signal, quota and cap: `ResumedOnceHolds`, `NoOverCommitHolds`,
`RefusedOnlyAtQuotaHolds`, and `Refinement` to `OnceOnly`. Of a token the
invariant says that whoever is past its SET NX holds it alone and read the blob
of a park that ran to its end. Of the counter it keeps books: the parks it
admitted and those it still refuses, less the resumptions, never exceed it, and
the admitted ones less the resumptions never exceed the quota. Without the script
a refused park has raised the counter and lowers it later, which is why the
second line cannot be read off the first. With the script and no lost DECR the
books are exact (`Exact`), which is what a refusal needs. `YieldsToAHolder` is the
safety half of `DeliverySettles`: a delivery is suppressed as a duplicate only in
favour of one that took the token and can but resume or die with its process.

`GateProofs` is about the two gates in front of a decision; the names of `RateLimit`
carry a prefix so that one module can extend both.

- Kill switch, for every set of replicas and operators and any mix of the
  versions: `ShowsDurableHolds`, `PollersNeverRegressHolds` and
  `PollersStayQuietHolds`. The invariant: no operator, answer or message is ahead
  of the key; a poller has at most one answer in flight, no older than its
  snapshot, and none once its `stop()` has resolved.
- Rate limit, for every finite set of requests, every cap and number of windows:
  `CapUpToStragglersHolds` and `CountCoversLiveHolds`. In each window the
  requests whose increment nobody returned are covered by the counter and the
  stragglers of that window. The cap follows for a window that is over too, since
  its members can only leave or become stragglers.

`PersistentBufferedSinkProofs` proves, for any number of records, every capacity of
the queue and of the storage, zero included, and every set of faults:
`NoSilentLossHolds`, `SuccessVouchesForThePastHolds` and
`FirstArrivalsInOrderHolds`. None of the three is inductive: they say nothing of
the order in which a process holds what it owes. `SerialInv` says what the
serializer gives (a call begins when all before it are done, its snapshot is the
storage as long as it drains, a record that waits for its ack has arrived);
`BacklogInv` that the storage and then the queue hold rejected records in the
order of their emission, those in the storage reported; `ArrivalInv` that an owed
record which has not arrived is younger than all that have. A record leaves the
backlog landed, reported, or with the process that dies: that is the first
theorem. The rest of the module is lemmas about ordered sequences that lose
their head and grow at their end. The model removes an acked record with
`RemoveFirst`, since no prover expands the operator parameter of `SelectSeq`.
Three more theorems take `EmissionSettles` apart. `OneAtATime`: calls never
overlap below the serializer. `ChainNeverWedges`: a record that waits has, at or
before its own call, one that is at work or whose turn has come (the least call
that is not done). `CallsEnd`: every step but an emission brings the call at work
nearer to its end, by what is held back and then by the await it stands at.
What is left to TLC is that a call whose step is enabled is fairly scheduled.

`ApprovalEngineProofs` proves, for any number of calls, replicas, every finite
set of approvers and every quorum: `QuorumBehindEffectHolds`, `VotesKeptHolds`,
`DeclineIsFinalHolds`, `ResolvedStaysHolds`, and `Refinement` to `OnceOnly`. The
base of all: the calls in flight at a replica are the first of their queue, and
the row exists for whoever passed the gates. `QuorumInv` adds that the votes on a
row, in the registry or in a call's hands, were cast by calls that took part, and
that a call past the quorum has a quorum behind it. In one replica all calls
stand in one queue: `FreshInv` says that the head of it writes back what the
registry still holds, `WaitingInv` that whoever was told to wait is on the row,
`SpentInv` that a token which is there has been used by nobody. Of
`ResolveSettles` the proofs show all but the scheduling: `OneAtATime`, the calls of
a replica never overlap; `ChainNeverWedges`, a call that waits has in its replica,
no later than itself, one at work or whose turn has come; `CallsEnd`, a call only
goes forward, to its answer.

`RemediationProofs` proves, for every nonempty set of signals, every radius and
every number of calls: `BlastRadiusBoundedHolds`, `OnePerNonceHolds` and
`PendingCanBeAnsweredHolds`. What a call works on is minted from a signal it was
given or is the clamp of that, and its decision is the policy's ruling on it
(`RulingInv`). Behind a ledger what has run or is about to is the envelope as it
was minted, claimed by that call alone (`OnceInv`): a clamped one was claimed by
the pass that produced it before anybody adjudicates it again (`ClampedInv`). A
proposal that waits was left by a call that had registered its row, and an
approval marks a row only when the proposal is settled (`PendingInv`). Two more
theorems are about whole executions. `Refinement`: with a ledger, `handle()` and
`resolve()` together implement `OnceOnly` per signal; the first claim of an
envelope of the nonce, clamped or not, is the abstract acquisition, its execution
the performance, everything else (a later claim, the registry, the proposals) a
stutter. `CallsEnd`: every
step brings one call nearer to its end and leaves the others where they are, by
the passes of the clamp loop and then by the awaits of a pass.

`AgentLoopProofs` proves, for all replies, any number of turns and iterations and
any limit: `NoLaunderHolds`, `RunsOnceHolds`, `AskedIsPaidHolds` and
`AnsweredBeforeNextCallHolds`. The four rest on a typing without the bounds of a
run and on an invariant each. `TaintInv`: what a turn has read is in nobody else's
conversation until the turn is over, and a turn whose flag is down has read
nothing and began from nothing the store still warns of. `OnceInv`: a use is in
one place only (a turn's hands, the parked key, a token, the runs), and every use
in one of them has been reached by its turn, so that the next use a turn mints is
new. `PaidInv`: the runs on a grant and the turns that hold a unit of it are no
more than the units burnt. `OpenInv`: in a reply the uses with a result come
first and the others are yet to be handled; whatever else is open belongs to a
reply whose question was answered. `OpenInv` also counts the results of the reply
at hand, so that every use a turn mints lies within the bounds of `TypeOK`
(`Bounded`, `TypeCorrect`). `TurnsEnd`: every step but an expiring flag brings one
turn nearer to its end and leaves the others where they are: an iteration more, or
further within it, or fewer uses to handle, or further with the one at hand. With
`TypeCorrect`, which bounds the iterations, no turn goes on for ever whatever the
model replies.

Every other module proves the `TypeOK` of its component as `TypeCorrect` too
(`LimitTypeCorrect` for the rate limit).

The assumptions are the `ConstantsAssumption` of each module and, where a value
stands for nothing (`NoRow`), that it is nothing else; sets whose members a
property counts are finite.

Only model-checked: `ClaimIsResolved`, `DeliverySettles`, `Converges`,
`EmissionSettles`, `ResolveSettles`, `ClaimLeadsToRun`: liveness under fairness is
out of this prover's reach. The variants (`CallsEnd`, `TurnsEnd`) and the theorems
about chains (`ChainNeverWedges`) prove the part of termination that needs neither
fairness nor ENABLED, for the components whose calls loop or queue.

## 5. Observations that no run states

Each was met while modelling, most by a run that is no longer kept.

- v2 of the kill switch does not wait for a poll in `stop()`: the poll may set
  the switch after `stop()` resolved, the hazard v1 names and closes
  (`audit/src/distributed-kill-switch.ts:75-77`, `kill-switch-pubsub.ts:307`).
- A rate limit rollback that comes after its window rolled over takes its
  decrement from the next window, which then admits one too many
  (`core/src/kernel/rate-limit.ts:207`; `Stragglers` in `CapUpToStragglers`).
- `approval-engine/src/engine.ts:436` takes every throw of `confirm()` for a
  refused token; a model call that throws after the executor ran has the
  request marked expired although the action was performed.
- The confirmation's hash check omits `resourceRefs` (`loop.ts:1043`), which is
  part of the hash: the confirmation of a resource-bound envelope is refused as
  tampered, and its token is used up. A channel may tell an approver of a request
  that the registry does not hold yet (`engine.ts:179`).
- A confirmed turn continues from the snapshot in its token, taken before the
  results of its reply were appended: the model is called with the sibling uses
  of that reply unanswered, among them reads that were served and intents that
  ran (the exception in `AnsweredBeforeNextCall`). A decline returns the same
  snapshot. Resumption appends a result for an id no reply has.
- The comment at `loop.ts:484-490` says a repeated read is a no-op write;
  `contaminateSession` returns a new object every time, so that each read writes
  the flag. `NoLaunder` needs it: a turn that reads again after another turn's
  resumption cleared the flag sets it again.
- A unit of a budget is not returned when the second adjudication refuses.
- A receipt answers a question only when the first pass asks. If a guard
  rewrites and the second pass asks, confirming asks again without end; and if by
  then the first pass asks itself, the receipt runs the envelope as submitted,
  though the prompt was about the rewritten one. A state guard that answers does
  so before the taint and auth gates, so a receipt for its question passes
  neither. A rewriting guard of `primitives` drops the origin, so that the second
  pass does not see a contaminated one.
- Without a ledger two approvals that both pass the status guard of `resolve()`
  before either marks the proposal run it twice: `await getState()` lies between
  (`orchestrator.ts:341-343` calls it idempotent). With one, the loser overwrites
  the status "executed" by "refused". A repeated signal replaces the proposal and
  leaves the old registry row pending, and an executor that throws leaves no
  proposal at all.
- The documentation of `parkDeferredIntent` speaks of an over-commit race
  without the script. INCR gives every racing park its own count, so the quota
  is never exceeded (`NoOverCommit`); what happens instead is a refusal below
  the quota while another park rolls back.
- The cycle counter counts deliveries, not resumptions: copies of one signal
  use up the cap.
- A resume token outlives its parking by 14 days: parking the same hash on the
  same signal again is suppressed as a duplicate.
- In the second kill switch a late poll answer may undo a newer message until
  the next poll; and reading before subscribing leaves a window in which a
  transition is missed until the next poll.
- Without the `context` option neither kill switch applies any transition.
- Records in the in-memory queue of the buffered sink (up to `capacity`) do not
  survive a crash (`forgotten` in the model).
- A duplicate that arrives while the first attempt is still running, or after
  it crashed, is told "already processed" although no effect happened.
- Of two replicas that both took a confirmation token, one may decline and the
  other execute.

## 6. Plan

1. Done: the shell and its ledger with proofs; deferral; kill switch; buffered
   sink; rate limit; approvals; kernel and taint; agent loop; remediation.
2. Done: proofs of every component; every safety property of the runs is a
   theorem, and so are the four refinements and the variants of the loops.

## 7. Not modelled

The repository has some 127000 lines in 888 files; most are user
interfaces, the command line, provider adapters, conformance and analysis tools,
policies of single domains, SQL, locales and types. They keep no state another
actor touches, or are pure functions with tables of tests; a model of them would
be a transliteration. The map therefore covers a small share of all lines, and
most of those in which calls interleave, fail halfway or come again. Left out
among the latter, for lack of a property deeper than their tests: the memory
writeback of the loop (compare-and-set with a bounded retry), token usage
stores, the guard statistics (one atomic statement), fan-out sinks and the event
bus (a loop with a catch), the kernel deadline (a race of a decision and a
timer), supersession chains and the claims kernel (offline or pure). Every part
has its row in `PROJECT.json`.
