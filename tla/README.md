# Verification of the regional rate limiter

TLA+ models of the regional rate limiter, the TLC runs that check them on small
instances, and TLAPS proofs of the main results for every instance.

## The system

| Part | Where | State it owns | Operations |
|---|---|---|---|
| data plane, **quotaenforcer** | `quotaenforcer/src` | none between calls but the config cache | `CheckQuota`, `CheckQuotaBatch`, `Charge`, `Refund`, `GetUsage` |
| counter store | `quotaenforcer/src/store.rs`, `schema/redis_scripts.lua` | one integer per limit and window in Redis, with a TTL | scripts CHECK, CHARGE, REFUND |
| config cache | `quotaenforcer/src/config.rs` | per instance: resolved cap and expiry per key | `resolve` |
| control plane, **quotamgmt** | `quotamgmt/src/main/java` | none; Postgres holds it | create, update, delete, get, list limits; register, get, list services; list audit entries |
| config schema | `schema/postgres.sql` | `service`, `limit_config`, `limit_config_audit` | the audit trigger |
| admin UI back end, **quotaui/bff** | `quotaui/bff/src` | in memory, per replica: sessions, grants, pending reviews, action log | limit edits, refund, reset window, approve, reject, login, logout |
| admin UI front end | `quotaui/frontend/src` | what the page shows | calls the back end |
| client SDK | not in the repository | | checks before and charges after a request; retries; fails open |

The control plane writes caps to Postgres. Each enforcer instance reads them
through its cache. A producer asks `CheckQuota` before its work and calls
`Charge` after it; both go to the one Redis shard of the limit. The UI writes
caps through the control plane and refunds or resets windows through the data
plane, some of it only after a second person has approved.

What is hard to get right, and what the properties are about:

- a counter exists only as long as its Redis key, whose TTL is computed by a
  replica with its own clock, truncated to seconds, before the key is written;
- checking does not reserve, charging is not idempotent, refunds are floored;
- caps are cached without invalidation, looked up concurrently and out of order,
  and served stale when Postgres is away;
- every config change must appear once in the audit trail, with its author;
- a review is decided in memory before the change it approves is made;
- lists are read page by page while rows come and go;
- the tabs of a browser share a session cookie and not the person they show, and a
  page acts on fields that may be older or newer than what it shows.

## Modules

### `WindowLedger`
The promise of the data plane, without keys, TTLs, replicas or calls: one balance
per window, charges added, refunds floored at zero, nothing forgotten before its
window has been closed for a pad, except when the shard loses its data.

### `Enforcer`
One limit, any number of replicas and producers, one shard. `Invoke` is an RPC up
to its await on Redis (`service.rs`: validation, cap, clock, window, TTL);
`Check`, `Charge`, `Refund` and `Usage` are the Lua scripts and the return;
`Unlimited` the early returns; `Unavailable` a shard that was not reached. `Tick`
advances the clock and reclaims expired keys, `ShardLoss` empties the shard.

- `consumed[w]` and `expiry[w]` are the integer and the TTL under w's key.
- A window is its unit and its closing time. `Boundaries` may be any calendar, so
  months of unequal length are covered. `Sec` ticks make a second, so that
  `num_seconds()` truncates.
- Redis only counts durations, so the reference clock can be taken as that of the
  slowest replica; the others are ahead of it by at most `MaxSkew`.
- `permit` and `unguarded` are history: which window's check admitted a producer,
  and how much was charged to a window without such a check (a fail-open SDK, a
  retry of an applied charge, a request that crossed the boundary).
- Counters are exact integers. Lua computes with doubles, which are exact up to 2^53;
  sums beyond that are not modelled.
- Limits with different keys never meet: the counter key contains the whole tuple.

### `ConfigCache`
One key of one instance's cache. `resolve` is `Hit`, or `Miss`, `Snapshot` and
`Store` or `Fail`, so that lookups overlap the way they do around its await.
`Cancel` drops a request, `Write`, `Outage` and `Restart` are the environment.
Time appears as durations only, so the state space is finite without a bound on
time, and liveness can be checked.

### `AuditedTable`
The promise of the control plane, without handlers, transactions, locks or connections: a
row changes in one step together with its one audit entry, from what it is, by an editor
of its service, under an id that lives once.

### `LimitStore`
The write handlers of quotamgmt over Postgres at READ COMMITTED. `Begin` is the
handler up to its statement (principal, validation, editor check, `SET LOCAL
app.actor`), `Statement` the one SQL statement and the trigger it fires, `Commit`
and `Disconnect` the end of `inAuditedTx`. A statement waits while another
transaction has an uncommitted change of the tuple; Postgres' locks are the part
that is taken from outside the repository. `limits` and `audit` are the committed
tables; `nextId` and `nextAudit` are the identity sequences, which do not roll
back. A commit whose acknowledgement is lost, or a statement or connection that fails, is
answered with `UNAVAILABLE` or `INTERNAL`, which tell nothing about the outcome
(`DatabaseErrors`). A request's number stands for its `now()`, which orders transactions by
when they began.

### `ReviewedChanges`
The promise of the console, without handlers, awaits or answers: a change needs a permit
and uses it up; the policy gives the permit for a harmless change, and one decision of
another operator gives it for a risky one. A restart may forget reviews and permits.

### `Console`
One replica of quotaui/bff. `Submit` is a write route: the role check, the review
policy, and either a pending review or a running operation. `Approve` and `Reject`
are the review routes. An operation is `GetUsage` (only a reset), `Execute` (the
backend carries the call out) and `Answered` (the answer arrives and the log is
appended), with `Failed` wherever an await may throw. `Restart` empties the
reviews and the log; calls that were sent stay out and may still be executed.
`Charge` and `Roll` are the producers and the end of a window. `effects` is history:
what the backends executed, for whom, under which review.

- Reviews that a restart forgot keep their content with status `lost`, so that
  properties can refer to them; no handler reads them again.
- The enforcer resolves a tuple through its own cache, so whether it finds the tuple
  configured is left open: an unconfigured one shows as empty and ignores refunds.
- `ReviewedChanges` is met with the pending reviews as what waits, the calls that are
  still to be executed as permits, and `effects` as what is done.
- The final `GetUsage` of a reset only feeds the page and is left out.

### `Listing`
Extends `LimitStore`: a client reads the limits of a service, its audit trail or the
services page by page, from the console's route down to the `SELECT`, while the write
handlers go on. `ListLimits`, `ListAudit` and `ListServices` ask for a listing; `TurnPage`
is one page of it: the viewer check, which is made on every page (`MayView`), one keyset
query and the token it returns, and for the audit trail the console's filter by author,
which is applied to the page afterwards. `Leave` is what the front end does, which drops
the token, and a page that is refused or lost. `base` is history: the rows that were there
when the listing was asked for.

- The console lets anyone with a grant read every service (`rbac.ts:97-104`). quotamgmt
  sees the console's own token, so `Viewable` is what that one principal may view.

### `Portal`
Who acts. One browser with any number of tabs, the console's session store, and the
service registry written through it. `Open`, `Login`, `Logout`, `Edit`, `Cancel` and
`Submit` are what a person does in a tab; `GetSession`, `DevLogin`, `EndSession`, `Admit`
and `RegisterService` are the handlers, the last two split at the await on quotamgmt;
`Arrive` and `Apply` bring an answer's cookie and body in. Requests overtake each other,
`Lose` fails one, `Restart` empties the session store and the log.

- A session is a number, and so are its cookie and token: the code draws both at random
  and independently, and the model takes from this only that they are never used twice.
- `as` in a request is history: whom the tab showed.
- `Apply` sets the person and the token of a tab in one step. In the code `setCsrf` takes
  effect at once and `setSession` with the next render (`session.tsx:22-25`); a click
  within that frame would carry the new token while the screen still shows the person
  before. `ActsAsShown` says nothing about that frame.

### `LimitsPage`
The Limits page and its editor over the limits routes. A request keeps the filter of the
render in which its button was clicked, as a React closure does; answers arrive in any
order. `Found`, `Hinted` and `Lost` go on with a search, `Saved` and `Noted` with a write.
The routes are those of `Console`, reduced to their outcome: done, waiting for review, or
an error. A change of the default waits in `reviews`, with the preview it was sent under;
`Decide` is its end, carried out by somebody else (`executePendingOp`, an update with
`create_if_absent`), or rejected, failed or forgotten. `landed` is history: what the
preview showed, what was written, and whether it was reviewed.

## Runs

| Run | Shows |
|---|---|
| `enforcer` | keys outlive their windows (`NoEarlyExpiry`), only empty keys lack a TTL (`PersistentKeyIsEmpty`), a cap is overshot by less than one maximal charge per producer plus what was charged unchecked (`BoundedOvershoot`), and the whole implements `WindowLedger` (`ImplementsLedger`) |
| `config` | `BoundedStaleness`; a value the table gave up that long ago is nowhere left (`OldValuesAreGone`); `OutageKeepsCaps`; and `ConfigPropagates` under fairness |
| `limits` | a tuple's audit entries replay to its row (`AuditExplainsTable`), answers agree with the trail (`RepliesMatchAudit`), a config id has one life (`ConfigIdHasOneLife`), the transactions implement `AuditedTable` (`ImplementsTable`), no handler waits for a row for ever (`EveryCallAnswered`) |
| `listing` | `ListedOnce`: no row is repeated, and none is skipped that was there throughout |
| `console` | `FourEyes` and `ReviewedOnce`, `LogIsTrue` (a logged call was carried out, which need not mean that it changed anything), `ResetKeepsLaterCharges`, and the whole implements `ReviewedChanges` (`ImplementsReview`) |
| `portal` | `ActsAsShown`: what is done is done by the person whom the tab showed; `RegistryLogIsTrue`: the log claims only what quotamgmt registered, for someone who may, and once for a service, as no edit is ever carried out |

Runs that are expected to find a violation, because a document or comment says
something the code does not do:

| Run | Statement | What happens |
|---|---|---|
| `config_flight` | design/quotaenforcer.md:648, one fetch per key at a time (`SingleFlight`) | two misses at once both query |
| `limit_order` | AuditRepository.java:46, "newest first" (`NewestFirst`) | `changed_at` is the start of the transaction, `audit_id` the time of the statement |
| `console_flags` | operations.ts:3-4, "identical either way" (`AppliedAsSubmitted`) | an approved update always has `create_if_absent` |
| `console_unlogged` | actionlog.ts:5, "nothing a human does is unattributable" (`NothingUnattributed`) | a refund whose answer is lost is not logged |
| `portal_edit` | services.ts:95, "edit display_name/owner (RegisterService upsert)", and quotaui/README.md:56-57 (`EditTakesEffect`) | `ServiceRepository.register` is a plain `INSERT`, so an edit of a registered service that the console admits is refused by quotamgmt |
| `editor_preview` | design/quotaui.md:685-688, the preview "shows exactly what will change" (`PreviewIsTheChange`) | Edit on another row while the editor is open keeps the first row's form, so the preview has one row's before and another's after |

Further disagreements between documents and code:

- frontend/src/util/rbac.ts:1-2 says that it is used "to hide/disable actions the user
  can't perform". The edit panel of the Services page asks for the role when it is opened
  (`Services.tsx:64`) and not when it is shown (`:87`, `:114`). If two sign-ins are sent
  from one tab and the second answer comes late, the panel stays open under the other
  person's name, and its Save is refused by the console. No run states this.
- The development mock upserts in `RegisterService`, so an edit works there.
- quotamgmt takes `changed_by` from the bearer token, which is the console's own
  (`AuthInterceptor.java`, `grpc.ts:90`), and nothing reads the `x-actor` metadata, while
  design/quotaui.md:433 says that `changed_by` "is always a real human".
- design/quotaui.md:385-386 promises an idle timeout and an absolute cap for sessions;
  `createdAt` is never read.
- design/quotaui.md:267-268 says that cached audit pages "never go stale backwards". An
  entry whose transaction commits late appears below ids that have been listed, which is
  why `ListedOnce` only speaks of rows that were there when the listing began.
- design/quotamgmt.md:704 says that propagation lag "can never cause a wrong deny", while
  a raised cap is enforced at its old value until the entry expires, as lines 694-695 of
  the same document concede.

### Bounds

- `Enforcer`: two producers race; two windows of one unit and a longer one of another
  reach creation, closing and expiry of a key, with one shard loss; four calls let both
  producers check before both charge, on either side of a boundary.
- `ConfigCache`: two tasks, so that a slow query can overwrite a later one; one cap, set
  or removed by one write between them; TTLs of one and two ticks with a jitter above the
  negative TTL. Time is unbounded.
- `LimitStore`: one tuple, as only writes of one tuple interact; two open transactions
  and three requests, enough for insert, delete and insert again, and for a request
  that waits while another commits or rolls back. That ids are not shared between tuples,
  the other half of `ConfigIdHasOneLife`, is left to the proof.
- `Listing`: three tuples of two services and pages of one row, so that a listing takes
  several, with writes between any two. `VIEW WithoutReplies` leaves out the answers to writers, which no action reads.
- `Console`: one default, two handlers and three requests of any of the six kinds: a
  submission and two rival approvals, or a reviewed reset with a direct refund; two
  charges, one window end, one restart. Resets that race each other need four requests and
  are left to the proof.
- `Portal`: two tabs, two requests on their way, two sign-ins and one restart, with every
  combination of viewer, editor and operator: enough for a tab whose person, token and
  cookie come from different sign-ins.
- `LimitsPage`: three customers and two requests, a search and a save, with nobody else
  writing, so that the preview cannot be outdated for another reason. `Elsewhere` is
  therefore never taken in this run.

The passing runs take up to two and a half minutes with two workers. Their safety
properties are also proved for all bounds.

`CHECK_DEADLOCK FALSE` is set where only the bound on requests stops the model.

### Fairness

- `ConfigCache`: time passes, Postgres answers while it can be reached, and tokio polls
  a task whose answer is there. No caller has to call and no outage has to end: the
  property assumes that Postgres stays reachable.
- `LimitStore`: Postgres runs a statement that need not wait, and a handler goes on to
  commit. A handler makes no further call between the two, so nothing keeps it from it.
- The other modules only have safety properties, which need none.

## Proofs

Every theorem holds for all values of the constants under the `ASSUME`s of its module,
among them the bounds, which may be arbitrarily large. The assumptions are sanity
conditions on the constants but for one: `TimeAssumption` says that replica clocks are
ahead by no more than the grace less one second (`MaxSkew <= (Grace - 1) * Sec`).

| Module | Theorems | Argument |
|---|---|---|
| `EnforcerProofs` | `TypeCorrect`, `KeysOutliveWindows`, `OnlyEmptyKeysPersist`, `OvershootBounded`, `EnforcerImplementsLedger` | a charge in flight already carries a TTL that is long enough when it lands late; the overshoot counts the permits held for a window, by cardinality; each step maps to a step of the ledger or a stutter |
| `ConfigCacheProofs` | `CacheTypeCorrect`, `StalenessBounded`, `OutagesKeepCaps`, `ChangesTakeEffect`, `SettledIsCurrent` | age plus ticks left of an entry, and age of an answer under way, are bounded together, whatever order stores come in; so nothing in hand is older than its bound, and a table that has been quiet for that long is what the cache answers |
| `LimitStoreProofs` | `StoreTypeCorrect`, `AuditTrailReplays`, `ConfigIdsLiveOnce` | `ChangesFit`: a pending change starts from the committed row, has an id above the tuple's history and is the tuple's only one, which is what row locks give; `IdsFit` says where ids may occur |
| `LimitStoreReplyProofs` | `RepliesAreHonest`, `StoreImplementsTable` | `RequestsFit`: the number of an open request is in no entry, no reply and no other call, and its pending change is what it asks for, so the entry a commit adds is the only one of the reply given with it. For the refinement also `WritersFit`: a pending change is of a registered service and an editor, with an audit id of its own. A commit with a change maps to `Change`, every other step of a handler to a stutter |
| `ListingProofs` | `PagingIsExact` | `ListingFits`: the pages so far reach up to the cursor and what is still wanted lies beyond it; a row that was there at the start and is there now never was away, as config ids have one life (`ChangesFit`, `IdsFit`) |
| `PortalProofs` | `PortalTypeCorrect`, `ActionsAreShown`, `RegistrationsAreFinal`, `RegistryLogTellsTheTruth` | `ShownIsTied`: the person that a tab, an answer or a request shows is the owner of the session whose token it has, so a request whose token matches its cookie acts for this person; `CallsAreAllowed`: a call under way is within its person's grants, and a service without a title can have no entry yet |
| `ConsoleProofs` | `ConsoleTypeCorrect`, `TwoPersonReview`, `ApprovedChangeRunsOnce`, `ActionLogIsTrue`, `ResetIsSafeForProducers`, `ConsoleImplementsReview` | `CallsSanctioned`: every call and effect is covered by the policy or a decided review, and a decided review is never decided again; `OneCall`: a review has one call, and no effect before it; `ExecutedSeen`; `ResetRead`: unless credited since, the counter holds what the reset read plus later charges. For the refinement also `NumbersFit`: no two permits are of one request |
| `LimitsPageProofs` | `PageTypeCorrect`, `PreviewErrsNoFurther` | `SentAsShown`: a save on its way carries the contents it showed, and showed no row before just when it creates; `ReviewedAsShown`: one that waits for review carries them too, and was shown as a change. Both take `PageConstants` as hypothesis: `'*'` is a customer, there is some value, and no value stands for nothing |

`SettledIsCurrent` is the safety half of `ConfigPropagates`, with the time it takes;
`RegistrationsAreFinal` is the extent of the `portal_edit` finding, that no step ever
changes a registered service, and `PreviewErrsNoFurther` that of `editor_preview`: a save
writes the contents shown and creates when it was shown to create; the preview can be
wrong about the old row, and a reviewed update of the default, which `console_flags` is
about, can create where a change was shown.

Only model-checked, since they are out of the prover's reach: `ConfigPropagates` and
`EveryCallAnswered` (liveness under fairness). Only proved: the theorems about
`LimitsPage`, whose one run is the counterexample. TLC agrees with `PreviewErrsInTheOldRow`,
`SentAsShown` and `ReviewedAsShown` on two customers, one value, two requests and no other
writer (17.8 million states, twelve minutes, which is too long for a run). With one write
by others, which it takes for a reviewed update to create, it found no violation in 48
million states and did not finish; there it does violate `PreviewErrsInTheOldRow` without
`e.reviewed`.
The violations are TLC counterexamples.

## Not modelled

- The Live Usage and Reviews pages: the operations behind their buttons are in `Console`,
  what the pages show meanwhile is not. On Live Usage, refund and reset go to the customer
  that is typed (`LiveUsage.tsx:18`), which need not be the one whose usage is shown.
- Several replicas of the console: reviews, sessions and the log live on one of them, and
  the deployment has to send a browser to the same one.
- The path of a change from Postgres to a check as one model: `LimitStore`, `ConfigCache`
  and `Enforcer` meet in the rows that the one commits and the other reads, and are checked
  on either side of it.
- The calendar of `compute_window`: windows are arbitrary boundaries in `Enforcer`.
- Values and formats: validation beyond a complete tuple, page token encoding, views,
  `struct.ts`, `diff.ts`, message definitions. Invalid requests change no state.
- Process start, settings, deployment files and the development mocks.
- `CheckQuotaBatch`: a sequence of independent checks.
- The operation filter of the audit page and the history of one config id.
- Redis and Postgres, except for what the code relies on: atomic scripts and TTLs; row
  locks, READ COMMITTED, sequences and triggers.
- The client SDK is not in the repository; producers are unconstrained.
