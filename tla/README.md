# GopherSocial in TLA+

GopherSocial is a small social network: a Go API (`cmd/api`) over PostgreSQL
(`internal/store`), Redis (`internal/store/cache`) and a mail service
(`internal/mailer`), and a React client (`web`).  This directory models the
parts of it in which the order of steps matters, checks the models with TLC on
small instances, and proves what matters most with TLAPS for all instances.

## 1. Inventory

What follows lists the parts of the program, the state each keeps, what is
hard about it, and what makes it correct.

| Part | Code | State | Operations |
|---|---|---|---|
| Registration and activation | `cmd/api/auth.go`, `cmd/api/users.go`, `internal/store/users.go`, `internal/mailer/sendgrid.go` | tables `users`, `user_invitations` | register (create and invite, mail, compensate), activate |
| Posts | `cmd/api/posts.go`, `cmd/api/middleware.go`, `internal/store/posts.go` | table `posts` with a version column | create, get, patch, delete, behind an ownership check |
| Authentication | `cmd/api/middleware.go`, `internal/auth/jwt.go`, `internal/store/cache` | the cache of users in Redis, tokens | issue a token, authenticate a request, show a profile |
| Fixed-window limiter | `internal/ratelimiter/fixed-window.go` | a map of counters, a goroutine for each entry | allow, reset; the Redis variant |
| Other limiters | the rest of `internal/ratelimiter` | a bucket or counters and a time | allow; the `Tester` variants compute a retry time |
| Followers | `internal/store/follower.go` | table `followers` | follow, unfollow |
| Feed | `internal/store/posts.go`, `pagination.go`, `cmd/api/feed.go` | none (queries) | the feed of a user, the feed of all, paging |
| Comments | `internal/store/comments.go` | table `comments` | read with a post; written by the seed only |
| Seed | `internal/db/seed.go` | the tables | users in one transaction, then posts and comments |
| Life cycle | `cmd/api/api.go`, `main.go` | two goroutines, two channels, the connections | run, graceful shutdown |
| Web client | `web/src/pages.tsx`, `web/src/App.tsx` | caches and session in `localStorage`, which windows share, and the state of components | log in and out, load, search and page the feed, follow, like, post, edit, delete, comment |

How they interact.  A request passes the limiter, `middleware.Timeout` (a
context of 60 s), `AuthTokenMiddleware` (which asks Redis, then PostgreSQL), the
middleware of its route, and its handler, which calls the store.  Handlers of
different requests run concurrently and share the tables, the Redis cache and
the map of the limiter, and nothing else.  PostgreSQL runs every statement
outside `withTx` in a transaction of its own and everything else under READ
COMMITTED.

What is hard, and what correctness means, part by part:

* **Registration** is a saga: the account is committed first, the mail is sent
  in up to three attempts with a back-off, and a failure is compensated by a
  delete.  The mail may arrive although the call failed, so the user may
  activate and use the account while the handler still retries; the request may
  be cancelled, a statement may fail, a commit may lose its acknowledgement, the
  process may die.  Correct means: the two tables stay in step, an answer 201
  keeps its account, an answer 500 leaves none behind unless the code could not
  help it, every request ends, an activation means what it says.
* **Posts** are read by one middleware, judged by another, and written by the
  handler from the copy the first one made.  Correct means: the three are worth
  one atomic step; no PATCH is lost; versions identify PATCHes; a post is
  deleted once.
* **Authentication** trusts a cache that no write invalidates.  Correct means:
  a deleted user is let in for a bounded time only, and a failing cache refuses
  nobody.
* **The limiter** has goroutines that reset entries at some time after their
  sleep.  Correct means: one reset for each entry, no more than the quota in a
  window and twice the quota in any stretch of a window's length, and a refused
  client is not refused for ever.
* **The other limiters** are replacements for it with two locks instead of one
  (a map and a bucket), fractions of requests, and windows that move only when a
  request comes.  Correct means: a bound on what any stretch of time admits,
  waiting times that are neither too short nor too long, true counters after
  idle windows, a Redis key that always gets its expiry.
* **Followers and feeds** are single statements, but the two columns of
  `followers`, an `OR` inside a join and pages cut by an offset make it hard to
  say what a reader gets.  Correct means: the feed is the one intended, and a
  reader who pages on while posts come and go misses and repeats no more than
  changed meanwhile.
* **The web client** keeps copies of what the server has and changes them when
  requests are answered, in any order, on pages that may be gone by then, in
  windows that share one storage.  Correct means: lists that agree with the
  server when nothing is under way; deleted posts that stay away; a header that
  shows the session that is stored, with the name of its user, and a session
  that ends for a reason; a feed page that shows what its boxes say; edits that
  are shown and not undone by a form opened after the feed had shown them; post,
  address and comments of one post.
* **The life cycle** is two goroutines that must end together, while handlers
  and clients may never end.  Correct means: a caught signal always ends the
  process, and cuts off a request only after the whole grace period, as long as
  accepting connections does not fail.
* **The seed** may stop anywhere and be run again.  Correct means: its posts and
  comments exist once.
* **Comments and configuration**: little state; see section 8.

## 2. The modules

| Module | Models | Role |
|---|---|---|
| `Registration` | `registerUserHandler`, `SendGridMailer.Send`, `activateUserHandler`, the transactions of `UserStore` | detailed |
| `Accounts` | the life of an account | abstract, implemented by `Registration` |
| `Posts` | the handlers of `cmd/api/posts.go` with their middleware and statements | detailed |
| `PostStore` | atomic create, patch, remove | abstract, implemented by `Posts` |
| `FixedWindow` | `FixedWindowAllow`, `resetCount` | detailed |
| `Quota` | what a window promises | abstract, implemented by `FixedWindow` |
| `Authentication` | `createTokenHandler`, `AuthTokenMiddleware`, `getUser`, `getUserHandler` | detailed |
| `TokenBucket`, `LeakyBucket`, `SlidingWindow` | the `Tester` limiters | detailed |
| `SlidingCounter` | `SlidingWindowCounter.Allow` | detailed |
| `WindowCounter` | `FixedWindowCounter.Allow` | detailed |
| `CachedWindow` | `FixedWindowCachedAllow` over Redis | detailed |
| `Followers` | `FollowerStore`, the join of `GetUserFeed` | detailed |
| `FeedPages` | `getAllFeedHandler`, `PaginatedFeedQuery`, `GetAllFeed`, page by page | detailed |
| `Seed` | `Seed` of `internal/db/seed.go` | detailed |
| `Server` | `run` of `cmd/api/api.go` and the connections of `net/http` | detailed |
| `FeedClient` | loads, deletions and creations of posts in the client | detailed |
| `FollowClient` | `toggleFollow` | detailed |
| `Likes` | `LikeButton` | detailed |
| `Session` | `App`, `setSession`, `loadCurrentUsername`, the 401 of `loadFeed` | detailed |
| `FeedSearch` | search, sort order and pages of the feed page | detailed |
| `PostPages` | `PostDetailPage` and `EditPostPage` for one post | detailed |
| `DetailPage` | `PostDetailPage` as its address changes, `handleComment` | detailed |
| `Client` | the seven parts of the client and their properties | composition |
| `Goroutines` | `FixedWindow` and `Server`: what runs beside the requests | composition |
| `Limiters` | the six other limiters and their properties | composition |
| `Feeds` | `Followers`, `FeedPages` and `Seed` | composition |
| `History` | what was admitted from each tick on, which the bounds on bursts compare | operators |
| `*_proofs` | theorems and proofs of a module (`Buckets_proofs` those of `Limiters` about `TokenBucket` and `LeakyBucket`) | |
| `MC_*` | instances for TLC | |

Each detailed module is complete for its part and assumes nothing about the
others.  Where a part meets another one, the other's effect is an action of its
own: `Authentication!Remove` is the deletion that `Registration!CommitDelete`
makes, `Registration!Post` the row that `Posts!Create` adds.

A definition whose comment begins with "Faulty variant" is not used by the
model: it is what the definition after it would be with a plausible bug.  Each
property of each passing run is violated by one of them (`mutants` in
`PROJECT.json`), which shows that the property depends on the code it is about.

### Registration

One request is one process; `pc` is its next statement.  A registration `r` is
also the account it inserts (ids are never reused) and the token it draws.
`users`, `active`, `invites` and `posted` are the committed rows, `tx[p]` the
rows written by the open transaction of `p`: they are locked until it ends and
reach the tables in the commit step.  `InsertUser`, `InsertInvite`,
`CommitCreate` are `CreateAndInvite`; `SendAccepted`, `SendFails`, `WakeUp` the
loop of `Send`; `Compensate`, `DeleteUser`, `DeleteInvites`, `CommitDelete` the
rollback of the saga; `ReadInvite`, `UpdateUser`, `CleanInvites`,
`CommitActivate` the activation.  Failures are `Cancel` (the context ends),
`TxFails`, `CommitUnacknowledged` and `Crash`, each switched on by the constant
`Faults`.  A mail may be delivered although the call failed, or not although it
succeeded (sandbox mode, a 4xx answer).

### Posts

A request reads the row (`ReadPost`, `postsContextMiddleware`), is judged
(`Authorize`, `checkPostOwnership`) and acts (`Get`, `Update`, `Delete`;
`Create` alone does not read).  `post[q]` is the copy in the context.  `Update`
writes every field of the copy where id and version match, so the model shows
what the version check is for.  The values of titles and contents are the
requests that wrote them.

### Limiters

`FixedWindow` keeps the map as `clients[c]` with 0 for no entry, and the sleeping
goroutines as `sleeping[c][t]`; a goroutine whose time has come may run at any
later moment.  In the limiters of the `Tester` files the lookup under the lock
of the map and the rest under the lock of the bucket are two steps.  Time is in
ticks.  The rates and capacities that the code takes as `float64` are rationals,
`Rate / Grain` requests for integers `Rate` and `Grain`, so that one may be 1.5 or
0.5; tokens, water and weighted counts are in units of a fraction of a request in
which every fraction the code computes is whole.  Comparisons are exact, which
leaves out the rounding of `float64`, and the truncation that `time.Duration`
makes is a `\div`.  In
`CachedWindow` INCR, EXPIRE and TTL are three steps, each of which may fail or
lose its answer.  `WindowCounter` is one step under one mutex; its windows start
whenever a request finds the last one over.

### Followers and feeds

`Followers` has one step per statement, and computes the feed of a user from the
rows as the `JOIN`, `WHERE` and `GROUP BY` of `GetUserFeed` do.  `FeedPages` has
one reader who asks for page after page of one query; `Slices` is the set of
results that `ORDER BY`, `LIMIT` and `OFFSET` allow, ties of `created_at` (whole
seconds) falling either way in each statement.

`Seed` has several runs of the command, one after the other or overlapping.  A
run inserts the fixed names in a transaction (a name taken by another run or by
a visitor ends it), goes on whether the commit took effect or not, as the code
ignores its error, and then inserts posts and comments one at a time.

### Server

`main` is the goroutine of `run`, `waiter` the one it starts, `quit` the channel
of signals with its one place, and the unbuffered channel `shutdown` is the step
`Return`, which both goroutines take together.  `Fail` is an error of Accept,
before or while the server serves: `ListenAndServe` returns it, and `ReturnError`
ends `run`, and the process with it, without a shutdown.  `Poll`, `GiveUp` and the
states of a connection are `http.Server.Shutdown` as `run` uses it: it stops
accepting, closes idle connections, waits for active ones, and gives up when its
context of five seconds ends.  A handler may take for ever and a client may stay
silent.

### Web client

`FeedClient` has the server's posts, the two lists in local storage, the state of
the feed page and the requests under way, each of which remembers the page it
belongs to: React drops updates of a page that is gone, writes to local storage
stay; a post is deleted by one request at a time.  `FollowClient` remembers with
each click the list of the render it was made in.  The key of the stored list is
made from the token, so `Login` begins with an empty list whatever the server
keeps (`before`), and requests that outlive their page or session (`Abandon`)
write no state of the new one.  `Likes` has a copy of the storage in each button.

`Session` has the two items in the storage, `token` and `username`, and for each
window what its header shows, a storage event it has not handled, its form and
its request for the feed.  A window that writes the storage updates its own
header at once (`auth-changed`) and those of other windows when they get to the
event.

`FeedSearch` has what the boxes and the page number ask for, the request whose
answer is shown, and requests answered in any order; `Followed` is the reload at
the end of `toggleFollow`, which asks for what its render had asked.  Its `posts` is
the answer of the server; the local and cached posts that the page merges into it
(`web/src/pages.tsx:804`) are those of `FeedClient`.

`PostPages` follows one post in one window.  A version stands for its title and
content, `texts[v]` saying which version wrote each field; the copy in the cache
changes with loads of the feed only, the page of the post asks the server, the
form starts from the cache and sends both fields.  `loaded` is the newest version
a load of the feed has brought, `seen` the newest one the user was shown, by such
a load, by `loadPost` or by an answered save of his own.  One PATCH is under way
at a time.

`DetailPage` has the address, the post and the comments shown of each window, and
the map of comments in the storage.  `Move` is a jump in the history between two
posts, which keeps the component with its state.

`Client` declares the constants and variables of all seven, instantiates them,
and names their properties.  The parts share no state that matters to these
properties (each list in the storage is written by one of them), so it lets one
part move in each behaviour, see section 4.  `Goroutines`, `Limiters` and `Feeds` do
the same for what they compose.

## 3. The plan

Done, in this order: registration, posts, the limiter in use, authentication,
the other limiters, followers and feeds, the lists of the client; proofs for the
first four and for the token bucket; the life cycle of the server; the session,
searching, the pages of a post and the comments of the client; the seed; proofs
for the server, the feed of followers and the client; proofs of every safety
property of the runs, stated of the very specifications that the runs check.
Next:

1. an abstract rate limiter, with the bound as its state, that the token and the
   leaky bucket both implement (`Balance` and `WaterKept` of `Buckets_proofs` are
   its refinement mapping in all but name);
2. `Server` composed with `Registration`: which steps of a saga fall into the
   five seconds, in place of a crash at any time;
3. the parts of the client that meet: a 401 in the middle of a load of
   `FeedClient`, edits that the lists of `FeedClient` hold in old versions;
4. of the liveness properties, the parts that are not about fairness, as
   `TransactionsNeverDeadlock` is for `EveryRequestAnswered`: that a refused client
   always has a goroutine coming, and that a caught signal leaves a step to take.

## 4. The runs

| Run | Checks | Instance |
|---|---|---|
| `registration` | `TypeOK`, `InvitationsMatch`, `CreatedIsKept`, `AccountsSpec` | two registrations for one e-mail, two activations, all failures, two attempts of a mail |
| `registration_live` | `FailureLeavesNoAccount`, `EveryRequestAnswered`, `ActivationSettles` | the same with cancellations only, and fairness |
| `registration_stale` | `ActivatedIsActive`, violated | one registration, no failure but the mail's |
| `registration_rollback` | `FailedMailRollsBack`, violated | one registration that may be cancelled |
| `posts` | `TypeOK`, `VersionsUnique`, `ConflictHasWinner`, `DeletedOnce` | four requests, one post, an owner and a moderator |
| `posts_faults` | `PostStoreSpec` | three requests, two posts, three levels of roles, failing statements and lost answers |
| `fixed_window` | `TypeOK`, `OneResetPerEntry`, `BurstBound`, `QuotaSpec`, `RefusedGetsWindow`; `CutOnlyAfterGrace`, `SignalEnds` | one client, limit 2, requests over three windows; a server with three connections and a grace of two ticks |
| `authentication` | `TypeOK`, `StaleBound`, `CacheNeverRefuses` | one user, three requests, Redis failing |
| `limiters` | `TypesOK`, `RateBound`, `RetryIsExact`, `RetriesAreExact`, `BurstBound`, `NeverLockedOut` | the six other limiters: one client, two overlapping requests, two to three windows; the windowed ones with 2 in 4 ticks over 13, `CachedWindow` with 2 in 1 |
| `feeds` | `TypesOK`, `FeedIsOfFollowers`, `PagingBound`, `SeededOnce` | three users and two posts; a reader and four posts; three runs of the seed |
| `followers_feed` | `FeedIsOfFollowed`, violated | three users, two posts |
| `client` | `TypesOK`, `DeletedStaysAway`, `CopiesAgree`, `SessionAgrees`, `SessionEndsForAReason`, `PageIsAsked`, `EditsSurvive`, `DetailsMatch` | two of everything that can overlap or differ: posts, requests, windows, users, tokens, fields, comments; three versions; queries of 0, 4 and 5 posts in pages of 2 |

`fixed_window`, `limiters`, `feeds` and `client` check several modules in one run.
The modules share no variable, so `Goroutines`, `Limiters`, `Feeds` or `Client`
picks one of them in the initial state and lets that one move: what TLC
explores is the union of the state graphs, not their product, and a property of
one module is checked on all of that module's behaviours.

What a name of these runs stands for, where it is a conjunction:

* `BurstBound` of `limiters`: the bounds on a stretch of time of `LeakyBucket`,
  `SlidingWindow`, `SlidingCounter`, `WindowCounter` and `CachedWindow`, and that
  the two counts of `SlidingWindow` are those of the requests it admitted;
* `RetriesAreExact`: waiting times of `LeakyBucket` and `SlidingWindow` are exact
  to a tick, but for the end of a full window when the rate is not whole
  (`SlidingWindow!Overhang`); `RetryIsExact` is the same of `TokenBucket`, without
  an exception;
* `NeverLockedOut`: nobody is refused for requests long past by
  `SlidingCounter` or `WindowCounter`, and a key of `CachedWindow` has an expiry or
  gets one, but for a failed call;
* `ConflictHasWinner` of `posts`: it speaks of runs without failures (`Faults =
  {}`), as those of `posts` are: a statement or a commit that fails is answered as
  a conflict is, and then nobody need have won;
* `CutOnlyAfterGrace` of `fixed_window`: but for an error of Accept, and for a
  signal that comes before anybody waits for one;
* `PagingBound`: a reader who pages on misses, and sees twice, no more than moved;
* `CopiesAgree`: the followed users the client lists are those of the server when
  no two requests overlapped and none was lost, but for those whom earlier sessions
  followed, who are in no list; liked posts and counts are in step;
* `SessionAgrees`: a window without an event to handle shows the stored session,
  and the stored name is not that of another user unless the login could not
  learn its own;
* `PageIsAsked`: what is shown when nothing is under way was asked for, and the
  page exists, with the exceptions the code has (overlaps, failures);
* `EditsSurvive`: the page of a post, once loaded, shows what had been saved
  before; a form does not undo what the user was shown before it was opened, unless
  that was shown by `loadPost` or an own save and no load of the feed had brought
  it, or loads of the feed were answered out of order;
* `DetailsMatch`: post, address and comments on a page are of one post, unless
  requests crossed or the address moved under the comments.

Why the bounds are enough.  *Registration*: conflicts need two registrations,
overlapping activations two activations; the second attempt is the first that can
follow a delivered mail.  *Posts*: a lost update needs two PATCHes and a reader of
the second version a third; four requests add a DELETE.  *Limiters*: the sliding
counters need a window, an idle one, and one after it; a burst spans two windows;
the token and leaky buckets have a rate of 2.5 per second of 3 ticks and a
capacity of 2.5, which are not whole and do not divide, and the sliding window a
rate of 1.5 per window of 4 ticks, which is rounded up to a quota of 2: that is
where waiting times go wrong.  *Authentication*: an entry stored by one request,
found by another after the deletion, and a third that stores again; time is enough
for an entry to be stored late and to expire, and for a token to expire.  *Feeds*:
two followers are the least for which counts multiply; pages of two and four posts
give a reader two full pages, ties included; one deletion or edit, and any
creations, fall between them.  *Seed*: a run that stops, one that succeeds and one
that finds the names taken.  *Server*: a connection in each of the three states at
once, and a deadline that comes after some ticks with and without a connection
left.  *Client*: a request that was overtaken by another is the smallest
interleaving, so two are under way; two windows and two tokens are a session that
ends while another one begins; three versions are an edit, one of somebody else,
and one on top; five posts in pages of two have a page that is not full, four have
none.  Requests to the API, loads and clicks of one kind are interchangeable, and
symmetry is used where they are; no run with a liveness property uses it.

`CHECK_DEADLOCK FALSE` stands in every configuration because every one of these
instances ends: time, ids and requests are bounded.

## 5. Fairness

Safety is checked without any.  `Registration!Fairness` is weak fairness of each
request that has started: the Go runtime schedules its goroutine, back-offs end,
PostgreSQL executes a statement when no lock is in its way, and `database/sql`
rolls back a transaction whose context is done.  That the steps of the mail end
(`MailStep`) assumes that the call of the mail service returns:
`internal/mailer/sendgrid.go:61` gives it neither a context nor a timeout, so a
service that takes the connection and never answers would hang the request, and
`EveryRequestAnswered` with it.  Nothing is assumed of new requests, of
activations being started, or of cancellations.  `FixedWindow!Fairness` says that
time passes and that a goroutine whose sleep is over runs.  `Server!Fairness` says
that both goroutines go on (`Notify`, `Catch`, `Listen`, `ReturnError`, `Closed`,
`Return`), that time passes, and that a context whose time is over ends `Shutdown`
(`GiveUp`); `Poll` needs no fairness because of that, and handlers and clients owe
nothing.  No other module states a liveness property.

## 6. What is proved

All theorems hold for every value of the constants within the `ASSUME`s of
their module: any numbers of requests, users, posts and clients, any limit, any
rational rate and capacity, any combination of failures.  (`SlidingWindow` has
its rate positive, as the constructor of the limiter makes it.)

* `Registration_proofs`.  `TypeCorrect`, `InvitationsAlwaysMatch`,
  `CreatedIsAlwaysKept`, `FailureAlwaysAccounted`, and `ImplementsAccounts`: every
  step is a step of `Accounts` or a stutter, with an account mapped by `Status`.
  `InvitationsMatch` alone is not inductive: that `CommitActivate` removes the
  invitation of the account it activates needs to know what its transaction
  wrote and that nobody committed in between.  `IInv` adds what each open
  transaction has written at each step (`Writes`), that the lock of a row of
  `users` has one holder (`Exclusive`), that accounts exist while their registration
  mails or compensates (`Existing`), and that keys are unique among committed
  and inserting accounts (`KeysUnique`), which the step `Create` of `Accounts`
  needs.  `TransactionsNeverDeadlock` is the part of `EveryRequestAnswered` that is
  not about fairness: a transaction waits only for one that has got further
  along `users`, `user_invitations`, COMMIT (`LockOrder`), so that of any number
  of open transactions one can go on (`NoDeadlock`).
* `Posts_proofs`.  `TypeCorrect`, `VersionsAlwaysUnique`, `AlwaysDeletedOnce`,
  `ImplementsPostStore`.  The core of `IInv` is `Copies`: a copy has the owner of
  its row, a version no larger than the row's, and, with the same version, the
  same fields.  So a write whose version matches writes back exactly the fields
  the payload leaves alone, and the right that the copy gave is a right the row
  gives.
  `ConflictsHaveWinners`: where nothing fails, a PATCH that is refused while its
  post is there lost to one that was answered as written.
* `Goroutines_proofs`, the limiter.  `TypeCorrect`, `AlwaysOneReset`,
  `ImplementsQuota`, `AlwaysBurstBound`.  `OneResetPerEntry` with the types is
  inductive, and is what makes a reset a `Close` of the quota.  `BurstBound` needs
  `Recent`: of the requests counted from a tick on, those since the present
  window opened are what its entry has counted, and those of one window's length
  before it are no more than one quota, because no entry is made before the
  window of the last one is over.  `LimiterBesideServer` carries the four to the
  specification of the run.
* `Goroutines_proofs`, the server.  `ServerTypeCorrect`, `CutsOnlyAfterGrace`.
  `ServerInv` adds that there are no connections before the server listens, that
  a `Shutdown` that returned nil left none, and that one that returned an error
  did so when the time was up.  Requests that an error of Accept cuts off are the
  exception the property names.
* `Authentication_proofs`.  `TypeCorrect`, `AlwaysStaleBound`,
  `CacheAlwaysNeverRefuses`.  `IInv` adds that a request between the read of a
  row and its storage read the row after it started and before the deletion
  (`Pending`), so that its context dates what it stores, and that an entry
  outlives its row by no more than `Timeout` and `UserExpTime` (`Entries`).
  `EntriesExpire` states the part of it that an entry never has more than
  `UserExpTime` left.
* `Buckets_proofs`.  `TypeCorrect`, `AlwaysRateBound`, `AlwaysRetryIsExact`.
  `Balance` says that what was admitted since any moment and what is left in the
  bucket are together paid for by a full bucket and the refill up to the last
  use; `RefusalKnown` ties what a refused client was told to the bucket as the
  refusal left it, so that the quotient of `RetryAfter` bounds the next refill
  from both sides (`Quotient`).  `LeakyInv` is the same of the leaky bucket, with
  what was poured in and drained (`WaterKept`, `OverflowKnown`).
* `Limiters_proofs`, for all six limiters of the run: `AlwaysTypesOK`,
  `AlwaysTokenRate`, `AlwaysBurstBound`, `TokenRetryIsExact`,
  `AlwaysRetriesAreExact`, `NobodyLockedOut`.  A history `h[s]` counts what was
  admitted from tick `s` on, so a stretch is the difference of two entries and no
  sum is needed.  The invariants say what the counters are in terms of it:
  `FixedInv` that the present window has seen what was counted, and the time of
  one or two windows before it no more than one or two quotas; `SingleInv` that
  `previousCount`, which forgets nothing, covers what one window before has seen;
  `SlidingInv` that both counters are exact, and that a refusal was told when the
  weighted count falls below the rate (`Owed`), by which a window that is full is
  over what was rounded up for at most `Overhang` ticks more (`OverhangIs`);
  `RedisInv` that lives of a key are a window apart (`RedisLives`), since EXPIRE
  comes after the INCR that made it, and that a key without expiry has a request
  about to give it one (`RedisKey`).  From these the bounds follow by products of
  counts and times (`SpanBounded`, `Bounded`), which the lemmas split by the
  position of the stretch to the window.
* `Feeds_proofs`.  `AlwaysTypesOK`, `UserFeedIsOfFollowers` (and
  `FeedIsAlwaysOfFollowers` of `Followers` alone), `PagesAreBounded`,
  `SeededAtMostOnce`.  With finitely many rows of `followers`, the join of
  `GetUserFeed` gives exactly the posts and counts that the property describes.
  `SeedInv` says that a run past its commit holds all names, which two cannot.
  `PagesAreBounded` is about sets ordered by a rank, the second of a post or what
  is left of the time from there, whichever the query sorts by.  `FewMissed`:
  before every post that is owed and not seen there are enough others for the
  next offset, but for as many as left, or the posts up to it that are owed and
  not seen are themselves no more than those that left.  `FewRepeated`: what
  stands ahead of a seen post, with the seen posts from it on, is no more than
  the next offset and what came and was not yet repeated.  `Cut` states what one
  page takes from such an order.  Both speak of posts that have their second to
  themselves, as the property does.
* `Client_proofs`, of `ClientSpec`.  Each part has an invariant of its own, and
  `ClientInv` is all of them: whichever part moves, the others stay
  (`PartsStep`).  `FeedTypes` adds to the types of the lists that the answer to a
  load belongs to a page that is there and that a post that was made is the
  user's.  `SessionInv` adds that a form that has a token has one of its user,
  and that a request of an earlier session has made the present one doubted.
  `PagesInv` adds that what was saved was written, that answers and forms are no
  older than what was known when they were asked for or opened, and that the
  cache has the newest version a load has brought, unless they were reordered;
  `PagesTypes` that a form that was sent is of a version there was, or filled in.
  `SearchInv` adds that what is under way, or shown if nothing is, is what is
  asked, unless requests were mixed.  `FollowInv` and `LikeInv` say what a single
  request under way may find, the former beside what the server had when the
  session began, `FollowTypes` that nobody asks to follow himself.
  `DetailInv` adds that requests belong to pages that are there and, unless they
  crossed, to the address.  They give `AlwaysTypesOK`, `SessionAlwaysAgrees`,
  `SessionAlwaysEndsForAReason`, `EditsAlwaysSurvive`, `PageIsAlwaysAsked`,
  `DeletedAlwaysStaysAway`, `CopiesAlwaysAgree`, `DetailsAlwaysMatch` and
  `CommentsAlwaysKept`: no step of `handleComment`, in any window, loses a comment.

Every safety property of a passing run, its refinements and its action
properties included, is a theorem about the specification that run checks, or
about the safety part of it.  Only model-checked are the liveness properties
(`EveryRequestAnswered`, `ActivationSettles`, `RefusedGetsWindow`, `SignalEnds`),
which TLAPS cannot prove under fairness.  The three properties that runs show
violated are no theorems, of course.

## 7. Findings

Three runs show the code doing something else than the repository says.

* `registration_stale`: an activation that has read its invitation before the
  compensating delete commits answers 204 for an account that is gone
  (`UserStore.update` does not look at the number of rows).
* `registration_rollback`: the compensating delete runs with the context of the
  request, and does nothing when the client has gone during the retries of the
  mail: the account stays and keeps its e-mail.
* `followers_feed`: `GetUserFeed` selects the posts of the users who follow the
  caller, where the page that shows them says "Posts from users you follow".

Met while modelling, translated as the code has them, without a run of their
own:

* a PATCH whose post was deleted after it was read answers 500, where the route
  documents 404 (`cmd/api/posts.go:158`);
* `Follow` answers 204 for a user who does not exist, and for any failed INSERT
  but a conflict (`internal/store/follower.go:30`), one of an existing row included;
  `followUserHandler` and `unFollowUserHandler` go on after they have answered 400
  to an id that is no number, with the id 0, which matches no user
  (`cmd/api/users.go:68`);
* an error of Accept ends the process at once, with the requests under way
  (`cmd/api/api.go:195`);
* CORS allows no PATCH (`cmd/api/api.go:100`), so a browser keeps the edits of a
  client that is served from another origin from being sent; `PostPages` is about
  a client whose PATCH arrives;
* the `OR` in the join of `GetUserFeed` counts each comment on an own post once
  for every follower; `FeedIsOfFollowers` states it;
* `since` and `until` are read by `PaginatedFeedQuery.Parse` and used by no query;
* a leaky bucket admits a request whenever there is any room, so it holds up to
  almost one request more than `capacity`; the bound of `LeakyBucket!RateBound`
  says so;
* a sliding window whose rate is not whole, 1.5 say, tells a client it refuses in a
  full window to come at its end, and refuses it there again: the window that
  ended counts as the previous one then, with more than the rate
  (`internal/ratelimiter/sliding-window-tester.go:90`); `SlidingWindow!RetryIsExact`
  bounds how much later it is admitted.  A token bucket with a capacity below one
  token admits nobody;
* `SlidingWindowCounter.Allow` adds to `previousCount` where its comment says
  "Move", and weighs with the elapsed time of the window it left; the two
  together still bound bursts and lock nobody out;
* a Redis call that fails between INCR and EXPIRE leaves a key of
  `FixedWindowCachedAllow` without expiry, which refuses its client for good;
* a like button writes back the lists it read when it was mounted and so undoes
  likes of other buttons in the storage; of two follow requests under way at
  once the one answered last drops the other from the client's list;
* the list of followed users is stored under a key made from the token
  (`web/src/pages.tsx:56`): after a new login it is empty while the server keeps the
  follows, so that those users can neither be unfollowed nor, as the server
  answers a conflict, followed anew;
* of two requests for the feed the page shows the one answered last, whatever its
  boxes say, and the reload after a follow asks for what was asked at the click
  (`web/src/pages.tsx:680`, `:776`); `FeedSearch!ShownIsAsked` has both as
  exceptions;
* the form of an edit submits title and content as they were in the cache of the
  feed, so it undoes edits that no load of the feed had brought, those included
  that the page of the post (`web/src/pages.tsx:1417`) or a save of the user's own
  had shown; the server's version check does not see it, as the PATCH carries no
  version (`web/src/pages.tsx:1605`);
* a saved edit updates neither list in the storage, and `localPosts` keeps the
  first version of a post for good;
* a 401 answered to a request of an earlier session ends the present one, and
  leaves the username (`web/src/pages.tsx:667`); a login that cannot learn its name
  keeps the one of the user before;
* a history jump between two posts keeps the comments of the first on the page of
  the second (`web/src/pages.tsx:1442`);
* the error of the seed's commit is dropped (`internal/db/seed.go:97`); the foreign
  key of `posts` is what stops it then.  A seed that stopped half-way cannot be
  completed by running it again, since the names are taken;
* every end of `run`, a clean shutdown too, is passed to `Fatal` in `main.go`, so
  the process exits with status 1 and the deferred calls of `main` do not run.

## 8. Not modelled, and why

* No handler writes comments: `Followers!Comment` and `Seed!CreateComment` are the
  only inserts, and a GET reads them in one step.
* In the client: the landing and confirmation pages, which keep nothing; the page
  of a profile, whose one request has the shape of `DetailPage`; rendering; and the
  bounds of the lists (20 and 200 posts), which are taken not to be reached.
  `FeedClient`, `FollowClient`, `Likes` and `PostPages` are about one window.  A
  button or form that was opened again while its request is under way can send a
  second deletion or PATCH; these are left out.
* The errors of the mail's template: it is embedded in the program and parses.
* What `main` does before `run` is configuration, and what `net/http` does beyond
  `Shutdown` is the library's.
* Posts of one second have no order of their own; `FeedPages` lets each query order
  them as it likes, and `PagingBound` is about the posts that have a second of
  their own: of the others a page may miss or repeat any.
* JSON, validation messages, errors, health, environment, passwords and the
  signature of tokens are data; they are taken to work.
* Migrations are run by hand with a tool of their own; the constraints they
  declare (unique keys, foreign keys, cascades) are in the models that rely on
  them.  The documentation under `docs` is generated.
