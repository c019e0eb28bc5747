----------------------------- MODULE ChunkedCookies -----------------------------
(***************************************************************************)
(* The cookie layer of the proxy (src/cookies.go) and a browser's cookie   *)
(* jar for one host.  A handler computes the Set-Cookie headers of its     *)
(* response from the configuration and from the cookies of its request     *)
(* (a snapshot of the jar); the browser later applies the response to the  *)
(* jar.  Responses in flight may be applied in any order.                  *)
(*                                                                         *)
(* Abstractions.  A value is a record of an identity and a byte length; a  *)
(* chunk is the byte range [lo, hi) of a value, which is what              *)
(* value[lo:hi] is.  A cookie name is a model value with its byte length.  *)
(* Strings built by the code are kept by their lengths, which is all the   *)
(* size properties tell apart.  The configuration (CookieDomain,           *)
(* EnableSessionCookies, HTTPOnlyCookie, SecureCookie, SameSiteCookie) is  *)
(* chosen once, in the initial state, from a set of configurations.        *)
(***************************************************************************)
EXTENDS Integers, FiniteSets, Sequences

CONSTANTS
    AccessName,    \* r.config.CookieAccessName
    RefreshName,   \* r.config.CookieRefreshName
    StateName,     \* requestStateCookie
    URIName,       \* requestURICookie
    NameLen,       \* byte length of each of the four names
    TokenValues,   \* access and refresh token values: [id, len]
    StateValues,   \* uuid.NewString() values
    URIValues,     \* base64 of a request URI
    Configs,       \* configurations the proxy may be started with
    Hosts,         \* lengths of the req.Host values (without port) it serves
    MaxChunkIndex, \* largest continuation index the jar keeps track of
    MaxInflight,   \* responses a browser may have outstanding
    FilterNames    \* the prefixes the caller passes to filterCookies

Names == {AccessName, RefreshName, StateName, URIName}
ChunkedNames == {AccessName, RefreshName}
ClearedNames == {AccessName, RefreshName, StateName}
Values == TokenValues \cup StateValues \cup URIValues
SameSiteUnset == ""   \* SameSiteCookie left empty: no SameSite attribute
SameSiteModes == {SameSiteUnset, "Strict", "Lax", "None"}

ASSUME NamesAssumption ==
    /\ Cardinality(Names) = 4
    /\ NameLen \in [Names -> Nat \ {0}]
ASSUME ValuesAssumption ==
    Values \subseteq [id : STRING, len : Nat \ {0}]
ASSUME ConfigsAssumption ==
    Configs \subseteq [dom : Nat, session : BOOLEAN, httpOnly : BOOLEAN,
                       secure : BOOLEAN, sameSite : SameSiteModes]
ASSUME BoundsAssumption ==
    /\ Hosts \subseteq Nat \ {0}
    /\ MaxChunkIndex \in Nat \ {0}
    /\ MaxInflight \in Nat \ {0}
    /\ FilterNames \subseteq Names

VARIABLES
    cfg,       \* r.config as far as cookies go (fixed after Init)
    jar,       \* each host's cookies: name -> continuation index -> entry
    inflight,  \* responses computed by a handler, not yet applied
    applied,   \* ghost: last write or clear of each chunked name applied
    panicked   \* a handler panicked while writing chunked cookies

vars == <<cfg, jar, inflight, applied, panicked>>

Idx == 0..MaxChunkIndex
Absent == [absent |-> TRUE]  \* no cookie of that name in the jar
Empty == [empty |-> TRUE]    \* a cookie whose value is ""
Cleared == [cleared |-> TRUE]
Keep == [keep |-> TRUE]
\* A non-empty value[lo:hi] the slice expression can produce.
Chunk == {c \in [val : Values, lo : Nat, hi : Nat] :
            c.lo < c.hi /\ c.hi <= c.val.len}
\* A Set-Cookie: index 0 for the base cookie and k for name-k; the
\* duration -1, 0, 1 stands for negative, zero and positive.
SetCookie == [name : Names, idx : Idx, chunk : Chunk \cup {Empty},
              dur : {-1, 0, 1}]
\* A response: its Set-Cookies, and (ghost) what it does to the chunked
\* names: write a value, clear them, or keep them.
Response == [host : Hosts, cookies : SUBSET SetCookie,
             g : [ChunkedNames -> TokenValues \cup {Cleared, Keep}]]

Min2(a, b) == IF a < b THEN a ELSE b

\* Number of decimal digits strconv.Itoa(k) writes.
Digits(k) == IF k < 10 THEN 1 ELSE IF k < 100 THEN 2 ELSE 3

\* Length of the cookie name a Set-Cookie carries: name or name-k.
CookieNameLen(sc) ==
    IF sc.idx = 0 THEN NameLen[sc.name]
    ELSE NameLen[sc.name] + 1 + Digits(sc.idx)

-----------------------------------------------------------------------------
(* --- makeCookieChunker: the per-cookie payload budget ------------------- *)

\* Byte length of the configured SameSite string.
SameSiteLen(m) == CASE m = "Strict" -> 6 [] m = "Lax" -> 3
                    [] m = "None" -> 4 [] m = SameSiteUnset -> 0

cookieMargin == 12 + 12 + 3
baseCookieChunkLength == 4096 - cookieMargin

\* maxCookieChunkLength after "; Path=/", "HttpOnly; ", the Expires
\* reservation, "SameSite=..; " and "Secure".
AttrBudget(c) ==
    baseCookieChunkLength - 8
    - (IF c.httpOnly THEN 10 ELSE 0)
    - (IF ~c.session THEN 39 ELSE 0)
    - (IF c.sameSite # SameSiteUnset THEN 11 + SameSiteLen(c.sameSite) ELSE 0)
    - (IF c.secure THEN 6 ELSE 0)

\* Mutant: the host-derived calculator forgets the host.
BudgetNoHost(c, n, h) ==
    IF c.dom > 0 THEN AttrBudget(c) - 9 - c.dom - NameLen[n]
    ELSE AttrBudget(c) - NameLen[n]

\* getMaxCookieChunkLength(req, name): name-only when a domain is
\* configured, also less the host (without port) otherwise.
Budget(c, n, h) ==
    IF c.dom > 0 THEN AttrBudget(c) - 9 - c.dom - NameLen[n]
    ELSE AttrBudget(c) - NameLen[n] - h

(* --- makeCookieDropper: the cookie each write puts in the response ------ *)

\* Whether the dropper sets Expires: in session mode only for a negative
\* duration, otherwise for any non-zero one.
ExpiresSet(c, d) == IF c.session THEN d < 0 ELSE d # 0

\* Length of the line http.SetCookie adds for a dropper cookie on host h:
\* "Set-Cookie: " name=value; Path=/; Domain=..; Expires=<29 bytes>;
\* HttpOnly; Secure; SameSite=.. (the dropper never sets SameSite None).
SetCookieLineLen(c, h, sc) ==
    12 + CookieNameLen(sc) + 1
    + (IF sc.chunk = Empty THEN 0 ELSE sc.chunk.hi - sc.chunk.lo)
    + 8
    + 9 + (IF c.dom > 0 THEN c.dom ELSE h)
    + (IF ExpiresSet(c, sc.dur) THEN 39 ELSE 0)
    + (IF c.httpOnly THEN 10 ELSE 0)
    + (IF c.secure THEN 8 ELSE 0)
    + (IF c.sameSite \in {"Strict", "Lax"}
         THEN 11 + SameSiteLen(c.sameSite) ELSE 0)

\* dropCookie for a value written whole (no chunking).
WholeCookie(n, v, d) ==
    [name |-> n, idx |-> 0, dur |-> d, chunk |-> [val |-> v, lo |-> 0, hi |-> v.len]]

(* --- dropCookieWithChunks ----------------------------------------------- *)

\* Number of cookies the chunked write emits for a value of length l.
NChunks(l, m) == IF l <= m THEN 1 ELSE (l + m - 1) \div m

\* Mutant: end := i + max not clamped to len(value).
ChunkCookiesUnclamped(n, v, d, m) ==
    {[name |-> n, idx |-> k, dur |-> d,
      chunk |-> [val |-> v, lo |-> k * m, hi |-> (k + 1) * m]]
     : k \in 0..(NChunks(v.len, m) - 1)}

\* Mutant: continuations named from i/max + 1.
ChunkCookiesShifted(n, v, d, m) ==
    {[name |-> n, idx |-> IF k = 0 THEN 0 ELSE k + 1, dur |-> d,
      chunk |-> [val |-> v, lo |-> k * m, hi |-> Min2((k + 1) * m, v.len)]]
     : k \in 0..(NChunks(v.len, m) - 1)}

\* The Set-Cookies of dropCookieWithChunks for budget m > 0: the value
\* whole when it fits, else value[0:max] under the name and value[i:end]
\* under name-(i/max) for i = max, 2max, ... below len(value).
ChunkCookies(n, v, d, m) ==
    {[name |-> n, idx |-> k, dur |-> d,
      chunk |-> [val |-> v, lo |-> k * m, hi |-> Min2((k + 1) * m, v.len)]]
     : k \in 0..(NChunks(v.len, m) - 1)}

(* --- clearDividedCookies ------------------------------------------------ *)

Present(h, n, k) == jar[h][n][k] # Absent

\* len(req.Cookies()): every cookie a request to host h carries.
RequestCookieCount(h) ==
    Cardinality({nk \in Names \X Idx : Present(h, nk[1], nk[2])})

\* Mutant: the scan stops one index early.
DividedIndicesShort(h, n) ==
    {i \in 1..MaxChunkIndex :
        /\ i < RequestCookieCount(h) - 1
        /\ \A j \in 1..i : Present(h, n, j)}

\* for i := 1; i < len(req.Cookies()); i++, breaking at the first name-i
\* the request lacks: the continuation indices the loop clears.
DividedIndices(h, n) ==
    {i \in 1..MaxChunkIndex :
        /\ i < RequestCookieCount(h)
        /\ \A j \in 1..i : Present(h, n, j)}

\* clear*Cookie(req, w): the base cookie, then the divided ones, expired.
ClearCookies(h, n) ==
    {[name |-> n, idx |-> i, chunk |-> Empty, dur |-> -1]
     : i \in {0} \cup DividedIndices(h, n)}

(* --- filterCookies -------------------------------------------------------- *)

\* A cookie name on the wire: name for the base cookie, name-k for the
\* continuation k, kept as the sequence of its parts so that
\* strings.HasPrefix is a prefix of sequences.
WireName(n, k) == IF k = 0 THEN <<n>> ELSE <<n, k>>

\* req.Cookies(): every cookie of host h's jar, by wire name and value.
RequestCookies(h) ==
    {[name |-> WireName(nk[1], nk[2]), value |-> jar[h][nk[1]][nk[2]]]
     : nk \in {nk \in Names \X Idx : Present(h, nk[1], nk[2])}}

Redacted == [redacted |-> TRUE]  \* the value "redacted"

\* strings.HasPrefix(s, p) on names kept as sequences of parts.
HasPrefix(s, p) == Len(p) <= Len(s) /\ \A i \in 1..Len(p) : s[i] = p[i]

\* Mutant: the filter compares names for equality, not by prefix.
FilterCookiesExact(cs, filter) ==
    {IF \E f \in filter : <<f>> = c.name
     THEN [name |-> c.name, value |-> Redacted] ELSE c : c \in cs}

\* filterCookies: each cookie whose name has a filter entry as prefix is
\* re-added with the value "redacted" (once: the inner loop breaks), any
\* other cookie is re-added as it was.
FilterCookies(cs, filter) ==
    {IF \E f \in filter : HasPrefix(c.name, <<f>>)
     THEN [name |-> c.name, value |-> Redacted] ELSE c : c \in cs}

-----------------------------------------------------------------------------
(* --- Handlers and the browser ------------------------------------------- *)

EmptyJar == [h \in Hosts |-> [n \in Names |-> [k \in Idx |-> Absent]]]
KeepAll == [n \in ChunkedNames |-> Keep]

Init ==
    /\ cfg \in Configs
    /\ jar = EmptyJar
    /\ inflight = {}
    /\ applied = [h \in Hosts |-> [n \in ChunkedNames |-> Cleared]]
    /\ panicked = FALSE

\* A handler may only answer while the browser has room for the response.
CanRespond == Cardinality(inflight) < MaxInflight

Respond(h, cookies, g) ==
    /\ inflight' = inflight \cup {[host |-> h, cookies |-> cookies, g |-> g]}
    /\ UNCHANGED <<cfg, jar, applied, panicked>>

\* dropAccessTokenCookie / dropRefreshTokenCookie with a budget m > 0.
\* Values are chosen so that no write needs more than MaxChunkIndex
\* continuations (a bound of the model, stated as a guard).
DropTokenCookie(h, n, v, d) ==
    LET m == Budget(cfg, n, h)
        cookies == ChunkCookies(n, v, d, m)
    IN  /\ CanRespond
        /\ m > 0
        /\ \A sc \in cookies : sc.idx <= MaxChunkIndex
        /\ Respond(h, cookies, [KeepAll EXCEPT ![n] = v])

\* dropCookieWithChunks with max <= 0: value[0:max] is out of range for
\* max < 0, and i/max divides by zero for max = 0; the handler panics and
\* net/http drops the response.
DropTokenCookiePanic(h, n, v, d) ==
    /\ CanRespond
    /\ Budget(cfg, n, h) <= 0
    /\ panicked' = TRUE
    /\ UNCHANGED <<cfg, jar, inflight, applied>>

\* writeStateParameterCookie: the request URI and the state uuid, each a
\* single cookie without expiry.
WriteStateParameterCookie(h, sv, uv) ==
    /\ CanRespond
    /\ Respond(h, {WholeCookie(URIName, uv, 0), WholeCookie(StateName, sv, 0)},
               KeepAll)

\* clearAccessTokenCookie, clearRefreshTokenCookie, clearStateCookie.
ClearCookie(h, n) ==
    /\ CanRespond
    /\ Respond(h, ClearCookies(h, n),
               [x \in ChunkedNames |-> IF x = n THEN Cleared ELSE Keep])

\* clearAllCookies: the three clears from the same request.
ClearAllCookies(h) ==
    /\ CanRespond
    /\ Respond(h, UNION {ClearCookies(h, n) : n \in ClearedNames},
               [x \in ChunkedNames |-> Cleared])

\* What the browser keeps for a Set-Cookie: nothing when it expires in the
\* past, the value otherwise.
Stored(sc) ==
    IF sc.dur < 0 /\ ExpiresSet(cfg, sc.dur) THEN Absent ELSE sc.chunk

\* The browser applies a response, responses in flight in any order.
Deliver(r) ==
    /\ jar' = [jar EXCEPT ![r.host] =
                 [n \in Names |-> [k \in Idx |->
                    IF \E sc \in r.cookies : sc.name = n /\ sc.idx = k
                    THEN Stored(CHOOSE sc \in r.cookies :
                                   sc.name = n /\ sc.idx = k)
                    ELSE @[n][k]]]]
    /\ applied' = [applied EXCEPT ![r.host] =
                     [n \in ChunkedNames |->
                        IF r.g[n] = Keep THEN @[n] ELSE r.g[n]]]
    /\ inflight' = inflight \ {r}
    /\ UNCHANGED <<cfg, panicked>>

Next ==
    \/ \E h \in Hosts, n \in ChunkedNames, v \in TokenValues, d \in {0, 1} :
          \/ DropTokenCookie(h, n, v, d)
          \/ DropTokenCookiePanic(h, n, v, d)
    \/ \E h \in Hosts, sv \in StateValues, uv \in URIValues :
          WriteStateParameterCookie(h, sv, uv)
    \/ \E h \in Hosts, n \in ClearedNames : ClearCookie(h, n)
    \/ \E h \in Hosts : ClearAllCookies(h)
    \/ \E r \in inflight : Deliver(r)

Spec == Init /\ [][Next]_vars

-----------------------------------------------------------------------------
(* --- Properties ---------------------------------------------------------- *)

TypeOK ==
    /\ cfg \in Configs
    /\ jar \in [Hosts -> [Names -> [Idx -> Chunk \cup {Empty, Absent}]]]
    /\ inflight \subseteq Response
    /\ applied \in [Hosts -> [ChunkedNames -> TokenValues \cup {Cleared}]]
    /\ panicked \in BOOLEAN

\* The chunks ch[0], ..., ch[K-1] are consecutive slices of v covering it:
\* concatenated in index order they give v back.
DecodesTo(ch, K, v) ==
    /\ K >= 1
    /\ \A k \in 0..(K - 1) :
          /\ ch[k] \in Chunk
          /\ ch[k].val = v
          /\ ch[k].lo = IF k = 0 THEN 0 ELSE ch[k - 1].hi
    /\ ch[K - 1].hi = v.len

\* The first index, from 0, with no cookie of name n in host h's jar.
FirstAbsent(h, n) ==
    CHOOSE k \in 0..(MaxChunkIndex + 1) :
        /\ k > MaxChunkIndex \/ ~Present(h, n, k)
        /\ \A j \in 0..(k - 1) : Present(h, n, j)

\* The value a request's reader reassembles: name, name-1, ... up to the
\* first missing index.
ReadsBack(h, n, v) == DecodesTo(jar[h][n], FirstAbsent(h, n), v)

\* Every write response of dropCookieWithChunks, applied on its own,
\* carries a base cookie and contiguous continuations that reassemble to
\* exactly the value written.
ResponseRoundTrip ==
    \A r \in inflight, n \in ChunkedNames :
        r.g[n] \in TokenValues =>
            LET mine == {sc \in r.cookies : sc.name = n}
                ch == [k \in Idx |->
                         IF \E sc \in mine : sc.idx = k
                         THEN (CHOOSE sc \in mine : sc.idx = k).chunk
                         ELSE Absent]
            IN  DecodesTo(ch, Cardinality(mine), r.g[n])

\* Every Set-Cookie line dropCookieWithChunks emits for a token chunk, with
\* the attributes net/http writes for the dropper's cookie, fits the
\* 4096-byte header line the budget in makeCookieChunker is computed for.
SetCookieFits ==
    \A r \in inflight : \A sc \in r.cookies :
        sc.name \in ChunkedNames /\ sc.chunk # Empty =>
            SetCookieLineLen(cfg, r.host, sc) <= 4096

\* Every Set-Cookie line the cookie layer emits with a value fits the
\* 4096-byte header line, the single request-URI and state cookies of
\* writeStateParameterCookie included.
EveryCookieFits ==
    \A r \in inflight : \A sc \in r.cookies :
        sc.chunk # Empty => SetCookieLineLen(cfg, r.host, sc) <= 4096

\* The comment on cookieMargin: the chunk budget keeps a margin of
\* 12 + 3 bytes below 4096 - len("set-cookie: ") for browsers such as
\* Safari.
SafariMargin ==
    \A r \in inflight : \A sc \in r.cookies :
        sc.name \in ChunkedNames /\ sc.chunk # Empty =>
            SetCookieLineLen(cfg, r.host, sc) <= 4096 - 15

\* After a clear*Cookie response is applied, no cookie of that name,
\* base or continuation, is left in the jar: clearDividedCookies finds
\* every continuation that an earlier write left.
ClearRemovesAll ==
    \A h \in Hosts, n \in ChunkedNames :
        applied[h][n] = Cleared => \A k \in Idx : ~Present(h, n, k)

\* No part of a token reaches the upstream: whatever host h's jar holds
\* (stale and orphan continuations included), the request its browser
\* sends, once filterCookies has run with the token cookie names, carries
\* no chunk of a token, and every cookie of the jar is still in it.
NoTokenUpstream ==
    \A h \in Hosts :
        LET sent == FilterCookies(RequestCookies(h), FilterNames)
        IN  /\ \A c \in sent : c.value \in Chunk => c.value.val \notin TokenValues
            /\ {c.name : c \in sent} = {c.name : c \in RequestCookies(h)}

\* Spec 4.3: after a token cookie is written, a later request reads
\* exactly that token back from the base cookie and its continuations.
ReadBack ==
    \A h \in Hosts, n \in ChunkedNames :
        applied[h][n] \in TokenValues => ReadsBack(h, n, applied[h][n])

\* Spec 4.3 and 5: cookie-layer operations never fail.
NoWritePanic == ~panicked

=============================================================================
