# Formal models of the proxy's credential transport and renewal

These TLA+ modules model the following parts of the repository:

- the chunked-cookie layer and the cookie filter (`src/cookies.go`);
- the forwarding-mode credential renewal loop and request signer
  (`src/forwarding.go`);
- the identity extractor (`src/forwarding.go`).

The TLC configurations check the modules on small instances.
`ForwardingRenewalProofs` and `ForwardingLockProofs` prove, with TLAPS and
for every value of the constants, the renewal model's safety invariants and
its refinement of an abstract locked credential cell.
`ChunkedCookiesProofs` and `ChunkedCookiesClearProofs` do the same for the cookie layer's invariants. `IdentityExtractionProofs` does it for the
extractor's failure taxonomy and profile.

## The system and its parts

| Part | Source | Module | Status |
|---|---|---|---|
| Cookie attribute policy (`makeCookieDropper`, `dropCookie`) | cookies.go 28-104 | ChunkedCookies | modelled |
| Chunk budget calculator (`makeCookieChunker`) | cookies.go 106-143 | ChunkedCookies | modelled |
| Chunked cookie codec (`dropCookieWithChunks`, the droppers, `writeStateParameterCookie`, the clears, `clearDividedCookies`) | cookies.go 145-217 | ChunkedCookies | modelled |
| Cookie filter (`filterCookies`) | cookies.go 219-243 | ChunkedCookies | modelled |
| Credential renewal goroutine | forwarding.go 141-308 | ForwardingRenewal, refining ForwardingLock | modelled |
| Request signer closure | forwarding.go 310-323 | ForwardingRenewal | modelled |
| Identity extractor (`extractIdentity`, `userContext.isAudience`) | forwarding.go 393-501 | IdentityExtraction | modelled |
| Proxy wiring (`isForwardingValid`, `createForwardingProxy`, `createProxy`) | forwarding.go 40-139, 326-388 | none | not modelled: configuration and I/O wiring |
| Error values and responses | errors.go | none | not modelled: formatting and logging |

How the parts interact:

- **Renewal.** In forwarding mode one background goroutine keeps a
  `forwardingState` current. It logs in, then refreshes or logs in again
  shortly before expiry. Every outbound request runs the signing closure,
  which copies `state.token` under the read lock.
- **Cookies.** In the cookie layer, each HTTP handler computes the `Set-Cookie`
  headers of its response from the configuration and from the cookies its
  request carries. The browser applies the responses later, in whatever
  order they arrive.
- **How they meet.** The budget calculator and the attribute policy are built
  once from the configuration. The codec uses both. The cookie filter runs
  on the cookies a browser sends, which are what the codec left in its jar.
- **Identity.** The renewal goroutine gets each login token's identity, and
  so its expiry, from `parseToken` (`forwarding.go` 203). That function is
  not in this repository. `extractIdentity` (393-501) is the repository's
  own claims-to-`userContext` conversion. No caller of it is under `src/`,
  and it is modelled on its own.

## ForwardingRenewal: the renewal goroutine and the signers

**State.** The variables correspond to the code as follows:

| Variables | Code |
|---|---|
| `login`, `wait`, `refresh` (a refresh token is held), `identity` (non-nil) | fields of `forwardingState` |
| `tokHead`, `tokTail` | `state.token` |
| `expLeft`, `life` | `state.expiration` |
| `rpc` | where the renewal goroutine is |
| `spc[s]` | where each signer is |
| `wlocked` | the writer holds `state.Lock()` |
| `timer` | what is left of the pending `time.After` |
| `cancelled` | `forwardCtx` is done |

**Token.** A token is a generation: 0 is the zero `jose.JWT`, and 1 and 2
alternate. The struct assignment `state.token = token` is several machine
words, so it is modelled as two writes (`tokHead` at lock time, `tokTail` in
the commit step). A reader that sees the two halves differ has read a torn
token.

**Time.** Time is relative. `expLeft` is `expiration - now`, clipped at -1, and
`life` is the lifetime the expiration had when it was stored. The `Tick`
action advances time. It cannot pass a due timer, so a timer fires on time.

**Actions.** One action per step of the loop:

- **Loop top:** `LoopExit` and `LoopContinue`.
- **Reset:** `ResetWait` is the lock, `wait = false`, `cloneState := state`,
  unlock, and the branch.
- **Login:** `LoginFailed` (either `UserCredsToken` or `parseToken` failing),
  `LoginSucceeded`, `LoginLock`, `LoginCommit` and `LoginBackoff`.
- **Refresh:** `RefreshFailed`, `RefreshFailLock`, `RefreshSucceeded`,
  `RefreshLock`, `RefreshCommit` and `NoRefreshToken`.
- **Waiting:** `CheckWait` is the `getWithin` wait, and `ExpiryWait` is its
  select.
- **Signers and environment:** the signer's `SignerRequest`, `SignerRLock` and
  `SignerSign`; the environment's `Shutdown` (`forwardCancel`) and `Tick`.

**Locking.** `RLock` is blocked while the writer holds the lock and also while
it waits for it (`LockWaitPCs`), which is how Go's `RWMutex` prevents writer
starvation.

**`cloneState`.** `cloneState` is a pointer copy, so `CloneWait` is `wait`
itself.

**`getWithin`.** `getWithin` is not under `src/`. It is taken from the spec:
85% of the time left, 0 once that is past.

**Fairness.** `Spec` assumes the following:

- **`WF(Renewer)`.** The goroutine is scheduled, and its calls return.
- **`SF(LoginSucceeded)`.** The identity provider is not down forever: a
  login tried infinitely often eventually succeeds.
- **`WF(Tick)`.** Time passes.
- **`SF(SignerRLock(s))` and `WF(SignerSign(s))`.** `RWMutex.Unlock` wakes the
  blocked readers. A reader blocked while the lock is taken and released
  again and again is eventually admitted, and a reader always releases.

Requests and shutdown are the environment's and get no fairness.

**The abstract cell.** `ForwardingLock` states what `forwardingState`
promises, with no pcs, timers or network:

- a writer flag, the set of read holders, and the published credential;
- `Acquire` happens only when nobody holds the lock;
- `Release` publishes a newly issued credential, or none;
- `ReadAcquire` happens only while no writer holds the lock.

`ForwardingRenewal` instantiates it with `writer <- wlocked`,
`holders <- Readers` (the signers inside `RLock`) and `cred <- tokTail`,
and checks `ImplementsLock`, which is `Lock!LockSpec`.

## ChunkedCookies: the cookie layer and a browser

**State.**

| Variable | Meaning |
|---|---|
| `cfg` | The configuration. It is chosen in `Init` from `Configs`: cookie domain length, session mode, HttpOnly, Secure, SameSite. |
| `jar[h][name][k]` | Host `h`'s browser jar: for the base cookie (`k = 0`) and each `name-k`, a chunk, an empty value or absent. |
| `inflight` | The responses computed and not yet applied. |
| `applied` | A ghost: the last write or clear of each token name the browser applied. |
| `panicked` | A handler panicked. |

**Abstractions.**

- A value is a record of an identity and a length.
- A chunk is `value[lo:hi]`.
- A cookie is kept only by what the properties tell apart: its name and
  index, its chunk and the sign of its duration.
- `SetCookieLineLen` is the byte length of the line `net/http` writes for it.
  It is the `Cookie.String` layout, taken from the Go library since it is not
  in this repository.

**Actions.**

| Action | Code |
|---|---|
| `DropTokenCookie` | `dropAccessTokenCookie` / `dropRefreshTokenCookie` through `dropCookieWithChunks` |
| `DropTokenCookiePanic` | the same call when the budget is not positive |
| `WriteStateParameterCookie` | `writeStateParameterCookie` |
| `ClearCookie` | `clearAccessTokenCookie`, `clearRefreshTokenCookie`, `clearStateCookie` |
| `ClearAllCookies` | `clearAllCookies` |
| `Deliver` | the browser applying one response |

**The cookie filter.** `filterCookies` rewrites only the request in hand, so
it is the operator `FilterCookies` and not an action. A cookie's wire name
is the sequence `<<name>>` or `<<name, k>>` (for `name-k`), which makes
`strings.HasPrefix` the index-wise prefix test `HasPrefix`. `NoTokenUpstream` applies the filter to
the request each reachable jar would send. That covers the stale and orphan
continuations the violation runs below exhibit.

## IdentityExtraction: claims to a userContext

**State.** `claims` holds the decoded claim map, chosen in `Init` (or
`Undecodable` when `token.Claims()` fails). `result` holds what
`extractIdentity` returned. The single action `Extract` is the whole call.

**Abstractions.**

- A JSON value is a tagged record: a string, a list, an object, or any
  other value (number, boolean or null). Every branch of the code treats
  those other values alike.
- A string is a sequence of atoms, so `fmt.Sprintf("%s:%s", name, r)` is
  concatenation.
- `StringClaim`, `StringsClaim` and `IdentityFromClaims` are go-oidc's
  accessors, reduced to what they return for each shape. `exp` is left
  out: it fails or passes like `sub`.

**Control.**

- The early returns come in the code's order: claims, identity,
  audience, groups. They are a chain of IF ... ELSE, as are the branches of
  the two accessors. A CASE would not do: its guards are unordered, and
  for a missing key `c[k].t = "str"` is an unspecified value that may
  also hold.
- The loop over `resource_access` visits its keys in any order
  (`AccessOrders`), because Go randomises map iteration.
- Once it has returned, nothing is enabled, so the run does not check
  deadlock.
- There is no type invariant: Go's static types fix the shape of the
  `userContext`.

A handler's response is computed atomically from the jar as it is at that
moment (the request's cookies). `MaxInflight` bounds how many responses are
outstanding: 1 models one request at a time, and 2 models two concurrent
requests.

## Runs

| Run | Config | Checks | Result |
|---|---|---|---|
| renewal_safety | 2 signers (symmetric), lifetimes {3,7}, back-off 2 | TypeOK, RenewOnlyNearExpiry, NoLockAcrossIO, NoNilIdentityDeref, [][SignedTokenIntact], ImplementsLock | pass |
| renewal_liveness | same, with fairness | Termination, EventuallyLoggedIn, SignerProgress, ExpiredEventuallyReplaced | pass |
| renewal_prelogin | same | SignedTokenIssued | violation in 4 steps |
| cookies_safety | 3 configs, hosts {11, 4030}, tokens of 3000 and 8100 bytes, one request at a time | TypeOK, ResponseRoundTrip, SetCookieFits, ClearRemovesAll, NoTokenUpstream | pass (73,152 states) |
| cookies_stale | host 11 | ReadBack | violation |
| cookies_safari | host 11 | SafariMargin | violation |
| cookies_longhost | hosts {11, 4030} | NoWritePanic | violation |
| cookies_concurrent | host 11, two responses in flight | ClearRemovesAll | violation |
| cookies_longuri | host 11, a 4096-byte base64 request URI | EveryCookieFits | violation |
| identity_extract | 54,432 claim sets | FailureTaxonomy, RolesFromClaims, ProfileFromClaims | pass (109,298 states) |
| identity_numericrole | realm roles holding a number | RolesFromClaims | violation |
| identity_colonrole | a realm role "app:admin" | ClientRoleGranted | violation |

**Why the renewal bounds are enough.**

- Two lifetimes make successive tokens differ in length, so a wait computed
  from the wrong token shows.
- With a back-off of 2, a timer races time and shutdown.
- Two signers let one be reading while another is blocked in `RLock`.

**Why the cookie bounds are enough.**

- A 3000-byte token fits in one cookie, and an 8100-byte token needs two
  continuations under every configuration. This matches the spec's example
  of 8100 bytes with a budget of 4011.
- The configurations cover the three Expires and Domain cases that change the
  budget. One of them has every attribute on, which gives the largest
  overhead.
- A 4030-byte host makes every host-derived budget negative.

**Why the claim sets are enough.** Every claim the extractor reads takes
each shape the code branches on:

- absent;
- a string;
- another type;
- for lists: empty, a string member, or a non-string member;
- for objects: no `roles` key, `roles` not a list, or a list;
- `preferred_username` may also be the empty string. The code keeps an
  empty preferred name (`forwarding.go` 403-407), and spec 56 falls back
  to the email only "on absence or error". `ProfileFromClaims` states
  exactly that, and `StringGiven` separates an empty string from an
  absent claim.

`resource_access` has one client or two, so that both visiting orders
occur.

**Findings.** The violation runs each show a disagreement with the spec or
with a code comment:

- **renewal_prelogin.** Requests are signed with the zero token before the
  first login.
- **cookies_stale.** A shorter write over a longer one leaves stale
  continuation chunks, which a reader appends to the new value.
- **cookies_safari.** The host-derived budget does not reserve
  `; Domain=` or `=`, and it under-reserves `; Secure`. A full chunk's line
  is then 4095 bytes, and the Safari margin the comment on `cookieMargin`
  promises is gone. It still fits in 4096 (cookies_safety).
- **cookies_longhost.** A long, client-chosen Host header makes the budget
  non-positive, and the handler panics.
- **cookies_concurrent.** A clear racing a write leaves orphan
  continuation cookies.
- **cookies_longuri.** The request-URI cookie is never chunked. A long
  request URI exceeds the header line, and the browser drops it.
- **identity_numericrole.** A non-string realm role becomes the role
  `%!s(float64=…)`, although the spec says malformed roles add none.
- **identity_colonrole.** A realm role `app:admin` is indistinguishable from
  the client role `admin` of client `app`.

Every property of a passing run has a mutant: a plausible bug in the mapped
definition that TLC finds (see `mutants` in PROJECT.json).

## What is proved

`ForwardingRenewalProofs` proves two theorems for every set of signers, every
set of positive lifetimes and every back-off delay in `Nat`:

- `TypeCorrect`: `Spec => []TypeOK`, from `TypeInit` and `TypeStep`.
- `RenewTiming`: `Spec => []RenewOnlyNearExpiry`.

`RenewOnlyNearExpiry` is not inductive on its own, because the renewer reaches
a call through several pcs after its wait. The strengthening `IInv` says the
following:

- `expLeft <= life`;
- at every pc from the wake-up to the call, the credential is near expiry
  (`expLeft <= RenewMargin(life)`);
- after a commit that set no wait, the same holds;
- while sleeping, `expLeft - timer <= RenewMargin(life)`, so the wake-up
  happens near expiry.

TLC checked `IInv` as an invariant before the proof. The lemmas
`GetWithinBounds`, `MarginMonotone` and `MarginNonNegative` give the
arithmetic of `getWithin`.

`ForwardingLockProofs` proves four more theorems from the same assumptions:

- `LockDiscipline`: `Spec => []NoLockAcrossIO`.
- `TokenIntact`: `Spec => SignedTokenIntact`, which is an action property.
- `LockRefinement`: `Spec => ImplementsLock`.
- `IdentitySet`: `Spec => []NoNilIdentityDeref`.

The first three rest on `LInv`, which says the following:

- the lock is held exactly at the two commit pcs;
- while it is held, no signer is reading, and the half of the token
  written at lock time is new (it differs from the committed half and is
  not the zero token);
- while it is free, the two halves agree.

`LInv` is needed because `NoLockAcrossIO` and `SignedTokenIntact` are
silent about the token halves and the readers, which a step of another
actor changes. The lemma `NextTokenFresh` gives the freshness of the next
generation, and `ReadersKept` says which steps leave the readers alone.

The refinement is proved in two phases:

- the initial states map to `LockInit`;
- under `LInv`, each step maps to `Acquire`, `Release`, `ReadAcquire`,
  `ReadRelease` or a stutter (`LockStep`).

PTL then combines the two phases.

`IdentitySet` rests on `IdInv`: the identity is set whenever `login` is
false, and at every pc of the refresh path.

`ChunkedCookiesProofs` proves four theorems about the cookie layer. They hold
for every configuration, every host length, every set of name lengths and
every set of values the assumptions allow (`NamesAssumption`,
`ValuesAssumption`, `ConfigsAssumption`, `BoundsAssumption`).

- `TypeCorrect`: `Spec => []TypeOK`.
- `ChunksFit`: `Spec => []SetCookieFits`, under `MaxChunkIndex <= 99`.
  The bound is tight. The name `name-100` adds a digit, and TLC shows a
  4097-byte line at index 100, reached with a value of about 400 KB.
  The inductive invariant `FitsInv` says that every in-flight chunk is at
  most its host's budget long and has a duration of 0 or 1. `LineFits`
  does the byte arithmetic of the line.
- `TokenNeverUpstream`: `Spec => []NoTokenUpstream`. It needs two
  hypotheses:
  - token values are not state or URI values;
  - both token names are among the filter's names (the code passes the
    access and refresh names).

  `TokenInv` says that a token chunk sits, in a jar or in flight, only
  under a token name. `WirePrefix` and `FilterKeepsNames` give the prefix
  match of `filterCookies`.
- `RoundTrip`: `Spec => []ResponseRoundTrip`. `RoundTripInv` says that a
  response writing a token name carries, under that name, exactly the
  cookies `dropCookieWithChunks` emits with a positive budget. The lemmas
  `ChunksCover`, `ChunkCount` (a bijection with `0..NChunks-1`) and
  `ChunksDecode` show that those cookies decode to the value.

The SMT backend cannot encode the empty string. The unset SameSite mode is
therefore named `SameSiteUnset`, and the lemma `SameSiteDistinct` proves it
differs from the other three modes with Zenon.

`ChunkedCookiesClearProofs` proves `ClearComplete`:
`Spec => []ClearRemovesAll` when `MaxInflight = 1`, that is, when the browser
applies each response before the next request is answered. Without that
hypothesis the property is false (cookies_concurrent). The inductive
invariant `ClearInv` holds:

- `Single`: at most one response is in flight.
- `Prefix`: a jar holds a token name at indices `0..K-1` and nowhere else.
  Every write emits a run of indices from 0, and every clear removes them
  all.
- `Effect`: an in-flight response leaves a name alone, clears it as
  computed on the current jar, or writes a run from 0 that has not
  expired. The jar cannot change before the response is applied, because
  only the browser changes it and one response is in flight.

The crux is `CountBound`. The loop `for i := 1; i < len(req.Cookies())`
stops at the number of cookies in the request, not at the number of
continuations. The lemma shows that the request carries at least `K`
cookies when a name is held at `0..K-1`, by a bijection with
`{<<n, j>> : j \in 0..k}` inside the finite set of tracked cookies.
`ClearCovers` concludes that the loop reaches every continuation.

`IdentityExtractionProofs` proves two theorems for every claim map and every
visiting order of `resource_access`:

- `Taxonomy`: `Spec => []FailureTaxonomy`.
- `Profile`: `Spec => []ProfileFromClaims`.

Both rest on `IdInv`: the result is pending, or it is `ExtractIdentity` of
the claims for some order. The accessors' outcomes are lemmas
(`StringClaimCases`, `StringsClaimCases`). `ExtractOutcome` and
`ExtractSuccess` give the early returns and the `userContext` built.
`NameChoice`, `AudienceMembers` and `GroupMembers` give the three parts of
the profile. An attempt at these proofs showed that the CASE expressions
the model first used did not fix the order of the branches. The model now
writes them as IF chains (see IdentityExtraction above).

## What is only model-checked

The following stay with TLC:

- **The liveness properties** (Termination, EventuallyLoggedIn,
  SignerProgress, ExpiredEventuallyReplaced). TLAPS does not handle
  fairness or `ENABLED`.
- **`RolesFromClaims` and `ClientRoleGranted`.** Their content is the set
  of members of `FlattenSeq` of one list per client. `FlattenSeq` is a
  recursive function over the list of lists. Proving what it returns for
  every input needs the induction theorems of the library. Those take the
  predicate as an operator parameter, which the installed provers cannot
  instantiate.
- **The cookie properties of the violation runs** (ReadBack, SafariMargin,
  NoWritePanic, EveryCookieFits). They are false, and TLC shows how.
- **`ClearRemovesAll` with concurrent responses.** It is false, as
  cookies_concurrent shows.

## Not modelled, and why

- **The other `userContext` methods** (`getRoles`, `isExpired`, `isBearer`,
  `isCookie`, `String`). These are getters and formatting.
- **The proxy wiring and the error responses.** These are configuration, I/O
  and logging, with no state for TLC to explore.
- **Requests to hosts outside `ForwardingDomains`.** They touch no shared state.
- **Hosts sharing one cookie domain.** The model keeps one browser jar per
  host. When a configuration sets a fixed cookie domain, two hosts under that
  domain share their cookies in a real browser. That sharing is left out: it
  only adds more writers racing on one jar, which cookies_concurrent already
  shows with two responses in flight.
