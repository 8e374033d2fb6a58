# gea in TLA+

`gea` is a command-line client for Gitea. Its repository is a Rust workspace:
`gitea-core` (HTTP, retry, pagination, capabilities, credentials, the web
session), `gea` (the commands), `gea-raw` and the generated client on top of it,
a code generator and an integration-test harness.

This directory holds TLA+ modules translated from that source, the TLC
configurations that check them, and proofs checked by TLAPS. Every definition
that models code is tied to the lines it models in `PROJECT.json` under `map`.
Section 1 is the inventory of the whole program, sections 2 to 5 what is
modelled, checked and proved, section 6 the disagreements the runs show,
section 7 what is not modelled, and section 8 what would come next.

To run it, in this directory:

    tlc -workers 2 -config Dispatch.cfg MCDispatch
    tlapm DispatchProofs.tla

## 1. Inventory

### 1.1 The parts, their state and their operations

| Part | Source | State it keeps | Operations | Modelled |
|---|---|---|---|---|
| Send path | `gitea-core/src/http/mod.rs`, `retry.rs`, `transport.rs` | the attempt of each request; nothing between calls | `send`, `dispatch`, `RetryPolicy::on_status`, `on_transport`, `probe_repo` | `Dispatch`, `RemoteCall` |
| Pagination | `gitea-core/src/http/paginate.rs`, `gea/src/api/paginate.rs` | `Paginator` counts, the buffer of an `ItemStream` | `advance`, `keep`, `PageWalk::fetch`, `walk` | `Paginate` |
| Capabilities | `gitea-core/src/capabilities.rs`, `http/mod.rs` | cache with a lifetime, the gate, per `Client` | `capabilities`, `probe_capabilities`, `cached_caps` | `Capabilities` |
| Credential stores | `gitea-core/src/config/secrets.rs`, `hosts.rs`, `gea/src/runtime.rs`, `cmd/auth/login.rs`, `logout.rs` | OS keyring, `hosts.toml`, environment; the store that worked last, per host | `secret`, `store_in`, `forget`, `add_login`, `remove_login`, `set_active`, `save_if_dirty` | `Credentials` |
| Web session | `gitea-core/src/web/*`, `gea/src/web.rs`, `cmd/auth/web_password.rs`, `web_transfer.rs` | a document in the credential store; remember tokens and sessions at the server | sign-in, `request`, `remint`, `renew`, export, import | `WebSession` |
| OAuth session | `gea/src/oauth_refresh.rs`, `gitea-core/src/oauth/stored.rs`, `flow.rs`, `gea/src/cmd/auth/git_credential.rs` | access and refresh token in the store, rotated by the server | refresh before expiry, persist | `OauthSession` |
| OAuth sign-in | `gitea-core/src/oauth/*`, `gea/src/cmd/auth/callback.rs` | a loopback listener with a deadline | `wait`, `handle` | no |
| `hosts.toml` as a file | `gitea-core/src/config/mod.rs`, `hosts.rs` | one file, rewritten by rename | `load`, `save` | in part, in `Credentials` and `OauthSession` |
| CI status and watch | `gea/src/cmd/ci/*` | runs of a commit as last listed | `scan_runs_for_sha`, `latest_per_workflow`, `follow`, `verdict`, `rerun_failed` | `CiWatch` |
| Releases | `gea/src/cmd/release.rs` | the list of assets as read once; downloaded files | create, upload, clobber, delete, download | `ReleaseAssets` |
| Creating pull requests | `gea/src/cmd/pr/create.rs` | a recovery file around the creation | `assemble`, `save`, `classic`, `agit`, `locate`, `request_reviews` | `PrCreate` |
| Other pull request commands | `gea/src/cmd/pr/*` | none between invocations | merge, review, checkout, checks | no |
| Repository context | `gitea-core/src/context/*`, git | none: a choice among flag, environment, git configuration and remotes | resolve | no |
| Errors, redaction, encoding, output, raw API flags, single-request commands, generated client, generator, test harness | see `PROJECT.json` | none that outlives a call | | no, see section 7 |

### 1.2 How they interact

* A command builds a `Client` from the `Runtime`. `Runtime::new` reads
  `hosts.toml`, asks the credential stores for a token (which may rewrite
  `hosts.toml` with the store that answered), and refreshes an OAuth document
  close to its expiry before the first request.
* Every request goes through `Client::send`: attempts, waits, one probe after a
  404 under a repository. The transport is a trait; nothing above it sees how an
  attempt failed except by its kind.
* Walks over collections issue requests through `send` one page after another.
  Several of them may start at once and all ask `capabilities` for the page
  size; that is the only state that tasks of one process share.
* `gea web` keeps a session of its own beside the API token. It lives in a second
  slot of the credential store and is rotated by the server, so the store, the
  process and the server each hold a copy that can be stale.
* `gea ci`, `gea release` and `gea pr create` are sequences of requests, each through
  `send`, that act on what an earlier one answered. What they share with other
  invocations is on the server, in the directory of downloads, and in the recovery
  file of a repository.
* Processes share the keyring and `hosts.toml` with each other and nothing else:
  there is no daemon and no lock file.

### 1.3 What is hard, and what makes each part correct

* **Send path.** The client cannot tell an attempt that never arrived from one
  that was carried out and whose answer was lost, or one that is still running
  behind a gateway that gave up. Correct means: a POST or PATCH takes effect
  once at most; a refusal is final; a body that can be read once is sent once;
  the loop ends if each `execute` does, and no server can make it wait between
  attempts beyond the caps.
* **Pagination.** Every header is optional, may vanish from one response and not
  the next, and the page size is clamped silently. Correct means: a walk that
  exits 0 is complete, repeats nothing, respects `--limit`, and every walk whose
  requests end does so too.
* **Capabilities.** Concurrent first calls, cancellation at any await, expiry
  while somebody waits. Correct means: one probe per lifetime, no stale answer,
  no caller left waiting.
* **Credential stores.** Several stores hold several slots of several logins; the
  choice among them is remembered per host; the keyring may be out of reach or
  answer after the caller gave up; the process may die between two saves. Correct
  means: what was stored is found, what was logged out does not come back, a
  renewal never leaves a login with nothing.
* **Web session.** A single-use token, copied to several holders, rotated by an
  answer that may be lost. Correct means: the one live token is always recorded
  or about to be, a request is acted on once, a command ends, and a password is asked
  for only when the sign-in is really gone, or somebody else was given a copy of it.

* **OAuth session.** A refresh token that may be good for one refresh, in a store
  that may be one file for all logins. Correct means: the store always holds one
  the server takes, no access token is used whose refresh token was not written,
  and none lapses under a command before the time that `SKEW` sets aside is used up.

* **CI watch.** The verdict on a commit comes from a listing that moves while it is
  read, of runs that may not be queued yet, and a script merges on exit status 0.
  Correct means: a verdict is true of the newest run of every workflow as of the last
  listing, green needs runs that are there and finished, and the watch ends.
* **Releases.** Several requests, each of which may fail before or after it took
  effect, decided on a list that is old. Correct means: no command that succeeds leaves
  a hole, assets share a name only by a race or by request, a successful download is
  whole.
* **Creating pull requests.** What a person typed must outlive any failure; a push may
  be taken and its answer lost. Correct means: the text is kept until the pull
  request is known to exist, nobody is advised to open one twice, reviews are asked of
  the right one.

The complete list of hazards, each at its line with the properties that watch it
(or the reason none does yet), is in `PROJECT.json` under `hazards`.

## 2. The modules

| Module | Extends or instantiates | What it is |
|---|---|---|
| `Dispatch` | `RC == INSTANCE RemoteCall` | one call of `Client::send`, its network and its server |
| `RemoteCall` | | what such a call promises, with attempts and waits left out |
| `DispatchProofs` | `Dispatch`, `TLAPS` | proofs about `Dispatch` |
| `Paginate` | | a walk over a collection |
| `Capabilities` | | the shared probe of the instance |
| `ClientProofs` | `Paginate`, `Capabilities`, `TLAPS` | proofs about both |
| `Credentials` | | the stores of the secrets of one host |
| `CredentialsProofs` | `Credentials`, `TLAPS` | proofs about `Credentials` |
| `WebSession` | | the web session on several machines and processes |
| `WebSessionProofs` | `WebSession`, `TLAPS` | proofs about `WebSession` |
| `OauthSession` | | the refresh of OAuth sessions by several processes |
| `OauthSessionProofs` | `OauthSession`, `TLAPS` | proofs about `OauthSession` |
| `CiWatch` | | the listing of a commit's runs, and what the commands conclude from it |
| `CiWatchProofs` | `CiWatch`, `TLAPS` | proofs about `CiWatch` |
| `ReleaseAssets` | | overlapping commands on one release |
| `ReleaseAssetsProofs` | `ReleaseAssets`, `TLAPS` | proofs about `ReleaseAssets` |
| `PrCreate` | | the creation of pull requests with its recovery file |
| `PrCreateProofs` | `PrCreate`, `TLAPS` | proofs about `PrCreate` |
| `MCDispatch` ... `MCPrCreate` | the module of that name | values of constants and symmetry sets for TLC |

In every module an operation that ends in a mistake (`on_statusAnyMethod`,
`PersistAfterUse`, `ForgetOnlyInUse`, ...) stands directly before the definition
it is a mistaken form of. No specification uses these; they exist so that each
property can be seen to fail when the code is wrong (`mutants` in
`PROJECT.json`).

### 2.1 Dispatch and RemoteCall

State of the client: per request (`main`, and the `probe` that a 404 may cost)
where `dispatch` stands (`pc`), its `attempt`, what it has `slept`, the `answer`
waiting to be read; and what the caller was told (`outcome`, `repoProbe`). State
of the world: the `fate` of each attempt.

| Action | Code |
|---|---|
| `Send` | `prepare`, `Transport::execute` begins |
| `OnStatus` | `execute` returned a response: `RetryPolicy::on_status`, then wait or return |
| `OnTransport` | `execute` returned an error of any kind: `on_transport`, then wait or return |
| `Wake` | the wait is over, the loop counts up |
| `Return` (in the two above) | `send`: a 404 under a repository starts `probe_repo` unless it is switched off; the probe is a request of its own with the same policy |
| `Apply`, `Refuse`, `Limit`, `Lose` | the server carries an attempt out (and may still answer 5xx), declines it, rate-limits it, or never sees it; at any time after it was sent, also long after the client gave up on it |
| `GatewayGivesUp` | a 502/503/504 for an attempt that is still on its way |

Statuses are the classes the policy tells apart: `limited` is 429, `unavailable`
5xx. A method is idempotent as `is_idempotent` has it. The jitter
is modelled by its two extremes. What the model assumes of the outside: a 4xx
and a 429 come from a server that did not act on that attempt. That is what the
comments in `retry.rs` rest on too.

### 2.2 Paginate

One walk of either driver: `stream` (`PageWalk::fetch`, which follows
`Link: rel="next"` if it is there and otherwise asks for the page after the
pages it has seen) or `walk` (`gea api --paginate`, which always counts). The
rules (a) to (f) of `Paginator::advance` are `advance`, in the code's order.
`Init` picks the size the server clamps pages to, the headers that survive in
some responses, whether `?page` is honoured, the rows, which of them the server
answers `null` for, `--limit` and the first page. `Response` picks which
headers this one response still carries. `Grow` adds a row at the end. `Nth`
enumerates the rows `decode_items` keeps of a page; what it computes is a lemma of
`ClientProofs` (`NthEnumerates`).

A server that ignores `?page` is given no headers: rule (d) would trust its
`X-Total-Count` and the walk would end with duplicates. Section 7 says why that is left out.

### 2.3 Capabilities

`Call` is the fast path through `cached_caps`; `Enter` takes `caps_gate` and
looks again; `Answer` ends one of the two requests of `tokio::join!`; `Finish`
stores the result and releases the gate; `Cancel` is the drop of a caller's
future at any await. `Tick` is time. The module's own names begin with `caps` or
`Caps` where `Paginate` has the same, since `ClientProofs` extends both.

### 2.4 Credentials

One invocation after another of four kinds. `BeginLookup`, `Read`, `SaveLookup`
are `Credentials::secret` and the save that follows it; `BeginStore`,
`StoreKeyring`, `StoreFile`, `StoreEnv`, `SaveStore`, `Select` are `store_in`
with its fallback and the second save of `auth login`; `BeginLogout`, `Forget`,
`SaveForgotten`, `Remove` are `forget` and `remove_login`. `Crash` may follow
any step: the file is replaced by rename, so only the copy in memory is lost. A
keyring call that fails or times out may still have done what it was asked to do.
`disk` is the entry of one host in `hosts.toml`; `mem` the copy of the invocation.

### 2.5 WebSession

The server: `live` remember tokens, `signedIn` sessions. Per machine a `store`;
one document may be `exported`. Per process its command, its copy of the document
and the steps of `request` in `web.rs`: `Send`; on the login page or a 404 once
`Mint`; `Persist` before the session is used; `Send` again. Sign-in and import
share `Mint` and `Persist`, as they share `remint` and the store in the code.

| Action | Code |
|---|---|
| `BeginRequest`, `BeginLogin`, `BeginImport`, `Export` | `gea web`, `auth login --with-password`, `auth import --web`, `auth export --web` |
| `Send` | one request; `worth_renewing` decides whether to renew |
| `Mint` | `remint`: refused (login page), rotated (and the answer may be lost), or not reached |
| `Persist` | the document is stored; stored while the save that follows fails; or not stored, and the command fails |
| `Crash`, `Lapse`, `Revoke` | the process dies; a session ends; a token ends or is revoked |

The model assumes that a login page or a 404 means the server did not act on the
request. It is the assumption the retry in the code makes, and Gitea's routes
bear it out for what the program sends. `lost` records the sign-ins whose live
token nobody recorded, `copied` those whose document was exported or in the hands of
two processes at a time, and `effects` what the server did; no guard reads them.

### 2.6 OauthSession

The server: per login the number `newest` of the last refresh token it issued, and
whether it kills the one before (`INVALIDATE_REFRESH_TOKENS`). The store: a
document per login. Per process its login, the document it found, the one it got,
and, with the file store, the copy of `hosts.toml` it loaded.

| Action | Code |
|---|---|
| `Begin` | `Runtime::new` or the git credential helper reads the store; `is_expiring` decides whether to refresh |
| `Grant`, `Refused` | the request of `refresh` reaches the server (its answer may be lost), or is refused or does not |
| `Receive` | `StoredOauth::from_response` dates the document by the client's clock |
| `Persist` | `creds.store` and `save_if_dirty`: written and used; written to the keyring while the save that follows fails; or not written |
| `Fallback` (in the three above) | any failure: the old session is used on, with a warning (`Runtime::new`) or without (the helper) |
| `End` | the command ends, or the process dies at any step |
| `Tick` | time, however long a refresh or a command takes: the code bounds neither |

`WholeFile` says which store it is: the keyring replaces one entry, the file store
writes `hosts.toml` from the copy of the process. `lost`, `recorded` and `since` (when a
process read the store) are histories, which no guard reads.

### 2.7 CiWatch

The server: `runs` by id, each of the commit or of another one, finished or not,
there or deleted; `filtering` says whether it knows the `head_sha` parameter, which
older ones ignore. The command: where it is in a listing (`page`, `listed`, `found`),
how long it has `waited`, what is left to rerun.

| Action | Code |
|---|---|
| `Appear`, `Finish`, `Rerun`, `Delete` | the server and other people, at any time while the command runs |
| `ReadPage` | one turn of `scan_runs_for_sha`: the page is filtered again by commit; the listing ends by its stop rules or at `RUNS_SCAN_PAGES` |
| `Judge` | `follow` (nothing yet, something pending, all finished), `status`, `rerun` |
| `Sleep` (in `Judge`) | the interval; `--appear-timeout` runs only while there is nothing |
| `Report` | the jobs of the failed (and pending) runs are read, then `verdict` |
| `RequestRerun` | one request of `rerun_failed`, in any order |
| `Fail` | a request fails past its retries |

`blind` marks the executions in which a listing page by page cannot see everything: a
deletion moved rows to a page already read, another commit's runs separate those of
this one by a page or more on a server that does not filter, or the listing was given
up at its cap, of which the user is told. No guard reads it.

### 2.8 ReleaseAssets

The server: the `release` by id, its `tag`, its `assets`. The machine: the files
downloaded (`disk`), each whole, `Broken` or absent. Per invocation its command, its
step and what it read at the start (`mem`).

| Action | Code |
|---|---|
| `Begin` | the command line; `check_readable` refuses before anything is sent |
| `Read` | `release_by_tag`, the only look at the assets |
| `Create` | `create`, whose files are then attached like an upload's |
| `Refuse`, `Clobber`, `Attach` | `upload_one`: without `--clobber` a name that was read is refused; with it the old asset is deleted, then the new one attached |
| `DeleteAsset`, `Delete`, `DeleteTag` | `delete_asset`; `delete` with `--cleanup-tag` as two requests |
| `Skip`, `Open`, `Write` | `download`: the file is created once the answer is there, then filled |
| `Fail` | a request fails, or the process dies, at any step; whether the request took effect is part of the other actions |

### 2.9 PrCreate

The server's pull requests (`prs`); per path the recovery `file`: a text, `Torn`, or
none. Per run its command, its step and `mem`: the draft, whether it was saved, the
number the push reported, the pull request it takes for its own.

| Action | Code |
|---|---|
| `Assemble` | `Draft::assemble`: a new text, or with `--recover` the one in the file |
| `Save` | `Draft::save`: truncate and fill; a failure leaves the old text or a torn one and is not fatal |
| `DryRun`, `NotSent`, `classic`, `agit` | `run` up to the answer to the creation, which may be lost |
| `Locate` | `locate`: the reported number, or the newest pull request made by AGit; its failure is tolerated |
| `Forget` | the file is removed |
| `request_reviews` | it fails before or after it took effect |
| `Elsewhere`, `Crash` | somebody else's push; the process dies at any step, in a write too |

`made`, `writer`, `before` and `met` are histories, which no guard reads.

## 3. The runs

| Run | Configuration | Distinct states | What it shows |
|---|---|---|---|
| `dispatch` | `Dispatch.cfg` | 842 748 | one call, all the properties below, and that `Dispatch` implements `RemoteCall` |
| `paginate` | `Paginate.cfg` | 521 652 | walks are complete but for null rows, repeat nothing, respect the limit, end |
| `paginate_nulls` | `PaginateNulls.cfg` | violation | a null row ends a walk before rows the server did produce |
| `capabilities` | `Capabilities.cfg` | 10 772 | one probe per lifetime, no stale answer, no caller left waiting |
| `credentials` | `Credentials.cfg` | 364 331 | what is stored is found, what is logged out stays away |
| `credentials_hidden` | `CredentialsHidden.cfg` | violation | "no token anywhere" is reported of a token that is in the keyring |
| `web_session` | `WebSession.cfg` | 3 844 522 | the live token is never lost by sharing it, requests are acted on once, a password is asked for only of a sign-in that is gone or was copied, commands end |
| `oauth` | `OauthSession.cfg` | 5 604 964 | sessions in a keyring stay refreshable; what a command uses is recorded, and alive as long as SKEW says |
| `ci_watch` | `CiWatch.cfg` | 610 370 | verdicts are current, the gate opens on finished runs, every command ends |
| `release_assets` | `ReleaseAssets.cfg` | 2 146 480 | no hole after a success, duplicates only by a race, whole downloads |
| `pr_create` | `PrCreate.cfg` | 246 436 | the text survives, the advice is right, reviews go to the right pull request |
| `pr_create_dry_run` | `PrCreateDryRun.cfg` | violation | a dry run that ends well replaces and removes what a failed run had saved |

### 3.1 The properties

`Dispatch`: `AtMostOnce` (a POST or PATCH takes effect once at most, whenever its
attempts are handled), `RefusalIsDefinite` (reported refused or rate limited, it
did not and will not take effect), `SuccessIsReal`, `BodySentOnce`,
`VerdictEarned` (the 404 message repeats what the probe heard), `SleepBounded`,
`Terminates` (a call whose executes end does so: retries and probe come to an end
whatever the answers are), `ImplementsRemoteCall`.

`Paginate`: `Complete` (of a server that converts every row), `NoRowTwice`, `LimitRespected`, `RunawayJustified` ("did
not terminate" is never said of a collection that ends before the last page the ceiling
allows, nor of one that does not grow and fits below it), `Terminates`. The
difference is real: a first page that was short because there were no more rows yet
makes rule (c) blind to a short last page, and a collection that has grown to end on the
last page allowed is reported although it fits. Refuted by the code:
`ShortByNullsOnly`, what `decode_items` says of a server that does not convert every row.

`Capabilities`: `OneProbe`, `ProbesApart`,
`AnswersFresh`, `EveryCallReturns`.

`Credentials`: `ActiveListed`, `StoredIsFound`, `NeverLeftWithout`,
`NoResurrection`, `FailurePaidOnce`, `OverrideNotRemembered`; refuted by the
code: `NoneMeansNowhere`.

`WebSession`: `Kept` (the live token of a sign-in is in a store or in the hands
of the process about to write it, unless an answer was lost, a write failed, a
process died in between, or another sign-in took its place), `StoredIsSignedIn`,
`ActsOnce`, `ExpiredIsGone` (a command asks for a password only when the server honours
no token of the sign-in that anybody recorded, or when its document was copied),
`StepsRunOut` (every step of a command uses up one of the four it has at most).

`OauthSession`: `Refreshable` (the store holds a refresh token the server takes, or
a process is about to write one, unless an answer was lost, a write failed or a
process died in between), `AliveWithinSkew` (unless its refresh failed, a command does
not outlive its access token before `SKEW` has gone by since it read the store, less the
time by which the token is dated late), `UsedIsRecorded`. The first is a promise of the
keyring only, and the second is less than the comments say of `SKEW` (section 6).

`CiWatch`: `VerdictIsCurrent`, `GateOpensOnRuns` (the watch never reports success of
nothing, of another commit's runs, or with the newest run of a workflow failed or
pending), `Terminates`.

`ReleaseAssets`: `LostOnlyByFailure`, `DuplicatesOnlyByOverlap`, `Downloaded`.

`PrCreate`: `WorkSurvives`, `AdviceIsRight`, `ReviewsOnOwn`; refuted by the code:
`DryRunChangesNothing`.

Each module has a `TypeOK` besides, and each module with proofs an inductive invariant
`IInv` of which it is a conjunct. They were checked on the instances of the runs as
well, but are not among the properties the runs list: what they say is not about the
hazards of the code.

### 3.2 Bounds, and why they are enough

* `dispatch`: three attempts, so that there is a first, a middle and a last one;
  one method of each kind the policy tells apart, with POST and PATCH both. The
  base delay 4 and the cap 7 let the second backoff exceed its cap, and the
  Retry-After 30 exceeds its own (12), so that `SleepBounded` fails without
  either cap. Jitter is 0 in the run: at its extremes it only multiplies states,
  and every cap is applied after it.
* `paginate`: up to seven rows in pages of one to three give an empty collection, a
  single page, full and short last pages. At most one row is
  answered `null`, anywhere. `--limit` is 0, below, on and past a page boundary. `MAX_PAGES` is 4 instead of 10 000 so that the ceiling is
  reached; seven rows pass it in pages of one, and in pages of two after a first page
  that was short, which is the case `RunawayJustified` leaves to the growing collection.
  `paginate_nulls` needs five rows in pages of two, one of them `null`.
* `capabilities`: three tasks, one probing, one waiting and one late; five ticks of
  a lifetime of two, so that the cache expires twice.
* `credentials`: two logins, because the remembered store is per host; three
  secrets and four invocations, enough for a store, a fallback, a logout and a
  look at what is left.
* `web_session`: two machines and two processes, three invocations (a sign-in, and
  two that race on it), with unbounded lapses and revocations. Machines and
  processes are interchangeable, hence the symmetry; the run checks invariants and an
  action property, for which symmetry is sound.

* `oauth`: two logins and two processes, three documents per login, so that a stale
  process meets a session refreshed once and twice. A lifetime of three ticks and a
  skew of two are the least numbers at which a command is due a whole tick of its token
  after a refresh that took one; in five ticks a session is refreshed, dated late,
  read again and outlived. Refreshes and commands take any time within them.

* `ci_watch`: two workflows and three runs, so that one has a newer and an older run,
  or a run of another commit stands between; one deletion or rerun by others. Pages of
  one row and a cap of two make every run a page boundary and the cap reachable.
  `AppearTimeout` of one interval gives a poll before and one after it.
* `release_assets`: three invocations, so that two may race while a third deletes or
  downloads; two files of one name, another name, and a file that cannot be read.
  Nine commands cover each kind with and without the flag that matters to it.
* `pr_create`: two runs that may overlap, of seven kinds, in two repositories whose
  recovery paths collide, and one pull request of somebody else's. In
  `pr_create_dry_run` the runs come one after the other: overlap is not needed.

`MaxRuns` ends a behaviour although a user could always call the program again,
and a finished call or walk does nothing more; the configurations of `Dispatch`,
`Paginate`, `Credentials`, `WebSession`, `CiWatch`, `ReleaseAssets` and `PrCreate`
therefore say `CHECK_DEADLOCK FALSE`.
`Capabilities` and `OauthSession` have no such end and are checked for deadlock.

### 3.3 Fairness

* `Dispatch`: weak fairness of what does not wait for the server (`Unhindered`): an
  attempt is sent, a response that is there is handled, a wait ends. There is none of
  `OnTransport`, nor of anything the server, the gateway or the network does. The default
  client only limits the time to connect (`transport.rs:266`), so nothing but the
  connection ends an `execute` that a silent server has begun. That each of them ends
  (`ExecuteEnds`) is therefore the condition `Terminates` states; without it the call
  hangs, in the code as in the model.
* `Paginate`: the walk goes on (`Fetch`, `Hand`, `Walk`): requests end, which is the
  condition above, and the consumer keeps asking. Nothing makes rows appear or stop appearing
  except the bound.
* `Capabilities`: strong fairness of `Enter`, because `tokio::sync::Mutex` is
  FIFO: a waiter is not passed over for ever. Weak fairness of the answers and of
  the end of a probe. No fairness of `Call`, `Cancel` or `Tick`.
* `CiWatch`: weak fairness of the client's steps, and of `Finish` of each run: what the
  watch waits for is the server's, and a run that never ends keeps it waiting by design
  (there is no overall timeout). Nothing makes runs appear.

`Credentials`, `WebSession`, `OauthSession`, `ReleaseAssets` and `PrCreate` have no
liveness property: an invocation is straight-line code, and the one loop there is, the
retry of `WebSession`, is bounded by the action property `StepsRunOut`.

## 4. What is proved

The theorems hold for every value of the constants that the named `ASSUME` of each
module allows: every policy, any number of tasks, machines, processes, logins, files
and invocations. All assumptions are on constants (`PolicyAssumption`,
`PaginateAssumption`, `CapabilitiesAssumption`, `CredentialsAssumption`, `WebSessionAssumption`,
`OauthAssumption`, `CiAssumption`, `ReleaseAssumption`, `PrAssumption`) and TLC
evaluates them in the runs. Most say that a bound is a number and that `None` is not a
value; the ones that matter are named below. Each proof has the same form: `Init =>
IInv`, `IInv /\ [Next]_vars => IInv'` with a lemma or a step per action, and `IInv`
implies the property. Each module has `TypeCorrect` and `Inductive` (in `ClientProofs`,
`Walk...` and `Caps...` of each) besides the theorems named here. Every invariant that
a passing run checks is a theorem, five of them under a hypothesis on the constants that
is named with it, and so are the action properties and the refinement; what is left is
liveness (section 5).

* **`DispatchProofs`.** `AtMostOnce` is not inductive: it says nothing of earlier
  attempts that are still on the wire. `PastTurnedAway` does: of a request that
  must not be repeated, every attempt before the current one was rejected by the
  rate limiter. That is exactly what `on_status` and `on_transport` ensure by
  retrying those methods on 429 only. `FutureUnsent` keeps later attempts out of
  the picture, `AnswerTruthful` ties an answer to the fate of the attempt it is on,
  `OutcomeIsAnswer` what is reported to the last answer, `OneBody` keeps a body
  that cannot be replayed at its first attempt, `AttemptsLeft` bounds the count.
  Theorems: `MutatesAtMostOnce`, `RefusalsAreDefinite`, `SuccessesAreReal`,
  `BodiesSentOnce`, `VerdictsEarned`, and `Implementation`: every step of the loop, its
  network and its server is a step of `RemoteCall` or a stutter, under the mapping
  `effects <- Effects("main")`, `repeatable <- is_idempotent(method)`, and the client's
  `outcome`.
  `SleepsBounded` follows from `WaitsCapped`: a loop has waited once for every attempt
  behind it, each time for one cap at most. The caps are lemmas about `Lesser`, `backoff`
  and `StatusDelays` (`BackoffCapped`, `DelaysCapped`), for every base delay, jitter and
  Retry-After; the exponent of the backoff is capped at 16, which is why its powers of
  two need no induction.
  `CallsAreFinite` is the part of termination that needs no fairness: `StepsLeft` is at
  most six for each attempt the policy allows, every step of the client lowers it, and
  nothing the server or the network does moves it or the client (`StepsRunOut`).
* **`ClientProofs`, the walk.** A walk that starts at page 1 (`StartPages = {1}`; section
  6 says what happens otherwise) reads the pages in step with their count (`InStep`), so
  that the rows seen are the first `pagesSeen * pageSize`, and what was counted was kept
  (`Counted`). `Ordered` is the heart: the rows kept are in increasing order, none of
  them lies beyond what was seen, and none that was there from the start is missing below
  any of them. So nothing is handed out twice (`RowsOnce`), and it is complete once the
  walk has read to the end. That it has when it stops is `Exhausted`, and rests on
  `Remembered`: what Paginator keeps of earlier pages errs on the safe side, because a
  first page is never longer than a later full one, and a total never smaller than the
  collection was at the start. Null rows break this (section 6); `Complete`, the last
  part of `LimitRespected`, and the parts of the invariant they rest on say so, and
  whatever else is proved holds with null rows too. The lemma `ReadsPage` says once what a page
  does to the walk, and one lemma per conjunct uses it. There is no induction over the
  data: a page is a function of its number, and what
  `decode_items` leaves of it follows from `NthEnumerates`.
* **`ClientProofs`, the probe.** `ProbeNeeded` (a probing task holds the gate and the
  cache is not fresh) is why looking a second time is enough: nobody else can
  warm the cache meanwhile. `GateHeld` says that the gate is never left with a task
  that does not probe, `AnswersExact` that results are those of the endpoints.
  Theorems: `ProbesOnce`, `Independent`, and the two action properties
  `OncePerLifetime` and `NoStaleAnswer`.
* **`CredentialsProofs`.** Every property is about the file between invocations, while
  what is saved is the copy of the one that runs. `Copied` ties the two: they differ in
  the one secret that is stored, or in the login that is logged out. `Renewing` says
  that the new secret is in the store that is remembered before anything is saved,
  `LookingUp` that a lookup with nothing to save changed nothing and that after a failed
  keyring another store is remembered, `LoggingOut` what is already gone at each turn of
  `forget`. `Held` is `NeverLeftWithout` for the logins a logout is not about,
  `Numbered` orders secrets by age, `Remembered` is why `Finds` returns what was stored.
  Theorems: `HostsConsistent`, `StoredFound`, `NeverWithout`, `LogoutFinal`,
  `FailureRemembered`, and the action property `OverrideForgotten`: all that the run
  `credentials` checks.
* **`WebSessionProofs`.** `Kept` alone is not inductive. A rotation by one process must
  not kill the token another is about to write: `Current` (a process about to
  write holds the live token of its sign-in, if there is one) and `Private`
  (nobody else has seen that token) exclude it, with `OneLive` (a sign-in has one
  live token at most) and `Numbered` (tokens are fresh when issued). `Counted` (a
  command that has not ended has had no effect yet) carries `ActsOnce`. Theorems:
  `TokenKept`, `ActedOnce`, `SignedIn`.
  `AsksWhenGone` states `ExpiredIsGone`, by way of `SharingInv`. As long as a sign-in was
  not copied, its document is in one store and in the hands of one process at most
  (`InOnePlace`), and what a request presents is what its store holds (`FromItsStore`).
  So when it is refused, whatever store or process knows of the sign-in is dead, and it
  stays so (`GoneForGood`), because only somebody with a live token is given a new one;
  a live one that is in no store and no process is among the lost ones by `Kept`.
  `CommandsAreFinite`: of the steps of a command four are left at most, each of its
  steps lowers that (`StepsRunOut`) and no other command touches it. It needs
  `SentBefore`: a request that is being renewed for was sent once, and is not renewed
  for again.
* **`OauthSessionProofs`.** `Refreshable` is not inductive: a process could write an
  old document over a newer one. `Private` excludes it where the server kills what
  it replaces: a document not yet written is the newest of its login, and whatever
  anybody else has read is older and can no longer be refreshed. That needs
  `Separate`, the assumption of `StaysRefreshable`: no write touches another login's
  document, because the store is the keyring or there is one login. `Numbered` and
  `Timely` need no such assumption, so `TokenAlive` and `TokenRecorded` hold with the
  file store too. `TokenAlive` assumes nothing of how long a refresh or a command takes;
  `Timely` says that a token in use either had `SKEW` left when the store was read or was
  issued since. The one assumption on numbers is that a lifetime is longer than the skew.
* **`CiWatchProofs`.** `GateHolds` rests on `Truthful` (whatever is in `found` is a run
  of the commit, and of the workflow it was filed under, because a page is filtered
  again by the client and a run never changes either) and `Concluding` (a watch reports
  only with something selected). It needs no assumption on the server: the gate is right
  about what was read. That what was read is everything there is to see is `VerdictHolds`.
  Its invariant is `VerdictInv`. A listing is newest first, so a page is an interval of
  positions (`Positions`, `PageRows`), and the position of a run is the number of newer
  ones that are listed, a cardinality. Between two pages rows only move towards the end
  (`ServerShifts`), unless something is deleted or another commit's run appears, and those are
  the executions `blind` marks. `Reading` says what that gives: a run that was there when
  the listing began and stands before the next page has been found. `NoMore` shows that
  each stop rule means that nothing is left behind (`AllRead`), and `Judged` and
  `NewestSelected` take it from what was found to what is said, for every page size and
  every cap on pages.
* **`ReleaseAssetsProofs`.** `HolesExcused` extends `LostOnlyByFailure` by the moment
  between the deletion and the upload; `Phases` keeps what a process has cleared among
  the files it is still to attach. `TwinsAccounted` says that whatever an uploading
  process did not read it attached itself, or one it overlaps with did (`Overlapping`:
  overlap is symmetric and never forgotten), and that what it deleted is gone for good
  (`IdsIssued`). `FilesExcused` follows a broken file to its download. Theorems:
  `NoSilentLoss`, `DuplicatesExplained`, `DownloadComplete`.
* **`PrCreateProofs`.** `Written` is the heart: the last run to have saved a file has
  its text in it until a run that knows of its pull request removes it, and `Writers`
  with `Overlapping` say that any other run that could still remove it overlaps with it.
  `Targets` describes the pull request a run takes for its own at each step. Theorems:
  `WorkKept`, `AdviceCorrect`, `ReviewsRight`.

## 5. What is only model-checked

* Liveness (`Terminates` of `Dispatch`, `Paginate`, `CiWatch`, and `EveryCallReturns`):
  it needs fairness and `ENABLED`, which the prover does not handle. Of the first, the
  part without fairness is proved (`CallsAreFinite`); of `Paginate` it is in the type of
  `pagesSeen`.
* `StepsRunOut` of `Dispatch` is the other way round: proved, and checked by TLC on the
  instance of the run, but not among the run's properties, which have `Terminates` in
  its place.

## 6. Where code and documentation disagree

Three are runs that must end in a counterexample, each with a `findings` entry that
quotes the lines.

1. `credentials_hidden`: the store that answered one slot is remembered for the whole
   host. After one `gea web` with `GEA_WEB_SESSION` in the environment, the API
   token in the keyring is not found any more.
2. `paginate_nulls`: "the list is short by the rows the server could not produce", says
   `decode_items` of a listing with null rows (`http/mod.rs:1046`). They are left out
   before the items of a page are counted, so that without a `Link` header a full page
   looks short and the walk ends there: rows the server did produce are missing, and only
   the null row is reported.
3. `pr_create_dry_run`: `gea pr create --dry-run` saves its draft over the one a failed
   run had left and told the person of, and then removes the file, because a dry run counts as a success; so
   does `--recover --dry-run`, with which a person would look at what was saved.

More were met while modelling. They have no run of their own; the constants or the
lines that show them are named.

* `SKEW` "buys immunity to clock drift [...] plus the whole duration of whatever command
  is about to run", a release upload for one (`oauth_refresh.rs:33-35`, `stored.rs:133-138`).
  Nothing bounds a command, `ci watch` least of all, and a session is not refreshed in
  the middle of one: a command that takes longer than `SKEW` can outlive its token.
  `AliveWithinSkew` without its bound on the time gone by (`clock - since[p]`) is violated
  on the instance of the run `oauth`, by one command that reads a fresh session and is
  still at work when it lapses.
* `gea api --paginate 'x?page=3'` asks for page 3, then 2, then 3 again (`Paginate` with
  `StartPages = {3}` violates `NoRowTwice`).
* A process that loaded the web session before another one renewed it reports it
  expired, though the store holds the token that works; two machines that share an
  exported document run into the same. `ExpiredIsGone` excepts a sign-in that was copied,
  and is violated by the run's instance without that exception.
* With the file store, the process that saves later writes `hosts.toml` back as it was
  when it began, with the refresh token of another login that the server has killed
  meanwhile (`OauthSession` with `WholeFile = TRUE` violates `Refreshable`).
* A secret that once had to go into `hosts.toml` stays there after a later login
  succeeded in the keyring, although the doc of `Login` says that with the keyring the
  secret never touches the disk (`hosts.rs:193`).
* "Nothing has been sent" (`release.rs:671`) is true of the first file of an upload
  only; the refusal of a second one leaves the first attached.
* "A release with two files of one name is worse than a failed upload"
  (`release.rs:678`): two files of one base name in one command, or `--clobber` of a
  name that is there twice, leave just that. `DuplicatesOnlyByOverlap` names the first.
* The path of the recovery file flattens owner and repository, so that `a-b/c` and
  `a/b-c`, and one repository on two hosts, share it; two creations that overlap delete
  each other's text; and the file is truncated before it is filled. `WorkSurvives`
  excludes exactly those.
* A watch ends in success over the runs that have appeared. One that the server has yet
  to queue for the commit is not among them, and nothing the command reads tells of it.
* When a push does not report its pull request, `locate` takes the newest one made by
  AGit for it (`create.rs:700`), which may be another. `ReviewsOnOwn` excepts that guess.
* A download that breaks off leaves the first part of an asset under its final name,
  and `--skip-existing` takes it for the asset. `Downloaded` excludes it by name.

## 7. What is not modelled, and why

* In the modelled parts: assembling URLs, headers and bodies; decoding; the wording
  of errors; parsing of `Link` (abstracted to present, has a next, or absent). In
  `Credentials`, other hosts, processes that overlap, and a keyring call that lands
  after the step that gave up on it. In `WebSession`, a document without a session,
  the TOTP leg of the sign-in, a server that does not rotate its token or sets no
  `Max-Age`. In `OauthSession`, an answer without a refresh token, the fallback from
  the keyring to the file, and writers of `hosts.toml` that refresh nothing. In
  `CiWatch`, how a target becomes a commit, logs and `gea run`. In `ReleaseAssets`,
  edit and view, generated notes, source archives, and the retry of a single request
  (that is `Dispatch`). In `PrCreate`, where the text comes from (flags, commits, the
  editor), `--web`, and the names of labels and assignees; an answer to the creation
  that cannot be decoded counts as one that is lost, since the code treats it the same.
* The OAuth sign-in in the browser: a listener that takes one reply before its
  deadline, a single sequence in one process with its own tests.
* `hosts.toml` as a file several invocations rewrite: `OauthSession` has it for
  refreshed sessions; what other writers lose to each other follows from the same
  read, change and rename, without a lock.
* The other pull request commands, issues, repositories, wiki, mirrors and the like: one
  request after reading what it needs, or git commands; their state is the server's, and
  what happens to a request is `Dispatch`.
* Repository context, error classification, redaction, encoding, output, filters and
  templates: pure functions of their input, with unit tests that cover them well.
* The generated client, its generator and the test harness: no state of their own. They
  and the parts above are most of the lines of the workspace.
* A Retry-After too large for a `Duration` (`retry.rs:238`) is a conversion of a float.
  The missing overall time limit of a request (`transport.rs:282`) is why `Terminates`
  of `Dispatch` is conditional (section 3.3).
* A server that ignores `?page` but sends `X-Total-Count` (`paginate.rs:353`): the client
  believes the total and repeats page 1, and nothing in its answers tells it so.
* Rows that are deleted, or put in front, during a walk: page boundaries shift and no
  client of an offset pagination can notice. A failed capability probe that is cached
  for a lifetime: a failed probe is an answer, and costs nothing but the page size.

## 8. What would come next

1. `HostsFile`: read, change, rename by overlapping invocations; which changes may be
   lost and which never; then `Credentials` on top of it with two processes.
2. `OauthCallback`: the listener takes one reply before its deadline among connections
   that are slow or not meant for it.
3. Repository context as a function, compared with a declarative statement of its
   precedence over bounded inputs.
4. An abstract specification of what a listing promises while the collection grows, that
   `Paginate` and the scan of `CiWatch` both implement.
