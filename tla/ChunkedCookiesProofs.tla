-------------------------- MODULE ChunkedCookiesProofs --------------------------
(***************************************************************************)
(* Proofs about the cookie layer (ChunkedCookies) for every configuration, *)
(* host, name length and value the constants allow.                        *)
(***************************************************************************)
EXTENDS ChunkedCookies, FiniteSetTheorems, TLAPS

(* --- The constants ------------------------------------------------------- *)

\* A set written with three elements has at most three.
LEMMA CardThree ==
    ASSUME NEW x, NEW y, NEW z
    PROVE  IsFiniteSet({x, y, z}) /\ Cardinality({x, y, z}) <= 3
<1>1. IsFiniteSet({x}) /\ Cardinality({x}) = 1
  BY FS_Singleton
<1>2. IsFiniteSet({x} \cup {y}) /\ Cardinality({x} \cup {y}) <= 2
  BY <1>1, FS_AddElement
<1>3. IsFiniteSet(({x} \cup {y}) \cup {z}) /\ Cardinality(({x} \cup {y}) \cup {z}) <= 3
  <2>. DEFINE X == {x} \cup {y}
  <2>1. IsFiniteSet(X \cup {z})
        /\ Cardinality(X \cup {z}) = IF z \in X THEN Cardinality(X) ELSE Cardinality(X) + 1
    BY <1>2, FS_AddElement
  <2>2. Cardinality(X) \in Nat
    BY <1>2, FS_CardinalityType
  <2>. QED  BY <1>2, <2>1, <2>2
<1>4. {x, y, z} = ({x} \cup {y}) \cup {z}
  OBVIOUS
<1>. QED  BY <1>3, <1>4

\* The four cookie names the code uses are distinct (NamesAssumption).
LEMMA NamesDistinct ==
    /\ AccessName # RefreshName /\ AccessName # StateName
    /\ AccessName # URIName /\ RefreshName # StateName
    /\ RefreshName # URIName /\ StateName # URIName
<1>. DEFINE A == AccessName  R == RefreshName  S == StateName  U == URIName
<1>1. Cardinality({A, R, S, U}) = 4
  BY NamesAssumption DEF Names
<1>2. A = R \/ A = S \/ A = U \/ R = S \/ R = U \/ S = U => Cardinality({A, R, S, U}) <= 3
  <2>1. CASE A = R \/ A = S \/ A = U
    <3>. {A, R, S, U} = {R, S, U}  BY <2>1
    <3>. QED  BY CardThree
  <2>2. CASE R = S \/ R = U
    <3>. {A, R, S, U} = {A, S, U}  BY <2>2
    <3>. QED  BY CardThree
  <2>3. CASE S = U
    <3>. {A, R, S, U} = {A, R, U}  BY <2>3
    <3>. QED  BY CardThree
  <2>. QED  BY <2>1, <2>2, <2>3
<1>. QED  BY <1>1, <1>2

(* --- dropCookieWithChunks' arithmetic ------------------------------------ *)

\* Every chunk index the write emits starts inside the value, and its chunk
\* is non-empty, ends inside the value and is at most the budget long.
LEMMA ChunkBounds ==
    ASSUME NEW l \in Nat \ {0}, NEW m \in Nat \ {0},
           NEW k \in 0..(NChunks(l, m) - 1)
    PROVE  /\ k * m < Min2((k + 1) * m, l)
           /\ Min2((k + 1) * m, l) <= l
           /\ Min2((k + 1) * m, l) - k * m <= m
           /\ k * m \in Nat
<1>1. k * m < l
  <2>1. CASE l <= m
    BY <2>1 DEF NChunks
  <2>2. CASE l > m
    <3>. DEFINE q == (l + m - 1) \div m
    <3>1. q * m <= l + m - 1
      BY SMT
    <3>2. k + 1 <= q
      BY <2>2 DEF NChunks
    <3>3. (k + 1) * m <= q * m
      BY <3>2, SMT
    <3>. QED  BY <3>1, <3>3, SMT
  <2>. QED  BY <2>1, <2>2
<1>. QED  BY <1>1, SMT DEF Min2

\* The configured SameSite string is one of four distinct strings.  (The
\* arithmetic steps leave SameSiteUnset unexpanded: the SMT backend cannot
\* encode the empty string itself.)
LEMMA SameSiteDistinct ==
    /\ SameSiteUnset # "Strict" /\ SameSiteUnset # "Lax" /\ SameSiteUnset # "None"
BY Zenon DEF SameSiteUnset

\* The per-cookie budget of makeCookieChunker before the name and host is
\* an integer, and the configuration's fields have their types.
LEMMA AttrBudgetType ==
    ASSUME NEW c \in Configs
    PROVE  /\ AttrBudget(c) \in Int
           /\ c.sameSite \in SameSiteModes /\ c.dom \in Nat
           /\ c.session \in BOOLEAN /\ c.httpOnly \in BOOLEAN /\ c.secure \in BOOLEAN
<1>1. /\ c.sameSite \in SameSiteModes /\ c.dom \in Nat
      /\ c.session \in BOOLEAN /\ c.httpOnly \in BOOLEAN /\ c.secure \in BOOLEAN
  BY ConfigsAssumption
<1>2. SameSiteLen(c.sameSite) \in Nat
  BY <1>1, SameSiteDistinct DEF SameSiteLen, SameSiteModes
<1>. QED  BY <1>1, <1>2 DEF AttrBudget, baseCookieChunkLength, cookieMargin

\* The budget is an integer for every configuration, name and host.
LEMMA BudgetInt ==
    ASSUME NEW c \in Configs, NEW n \in Names, NEW h \in Hosts
    PROVE  Budget(c, n, h) \in Int
<1>1. NameLen[n] \in Nat /\ h \in Nat
  BY NamesAssumption, BoundsAssumption
<1>. QED  BY <1>1, AttrBudgetType DEF Budget

(* --- The Set-Cookies each handler emits are well formed ------------------ *)

LEMMA ChunkCookiesType ==
    ASSUME NEW n \in Names, NEW v \in Values, NEW d \in {0, 1},
           NEW m \in Nat \ {0},
           \A sc \in ChunkCookies(n, v, d, m) : sc.idx <= MaxChunkIndex
    PROVE  ChunkCookies(n, v, d, m) \subseteq SetCookie
<1>. SUFFICES ASSUME NEW k \in 0..(NChunks(v.len, m) - 1)
              PROVE  [name |-> n, idx |-> k, dur |-> d,
                      chunk |-> [val |-> v, lo |-> k * m,
                                 hi |-> Min2((k + 1) * m, v.len)]] \in SetCookie
  BY DEF ChunkCookies
<1>1. v.len \in Nat \ {0}
  BY ValuesAssumption
<1>2. /\ k * m < Min2((k + 1) * m, v.len)
      /\ Min2((k + 1) * m, v.len) <= v.len
      /\ k * m \in Nat
  BY <1>1, ChunkBounds
<1>3. k <= MaxChunkIndex
  <2>. DEFINE sc == [name |-> n, idx |-> k, dur |-> d,
                     chunk |-> [val |-> v, lo |-> k * m,
                                hi |-> Min2((k + 1) * m, v.len)]]
  <2>1. sc \in ChunkCookies(n, v, d, m)
    BY DEF ChunkCookies
  <2>. QED  BY <2>1
<1>4. k \in Nat
  <2>. NChunks(v.len, m) \in Int  BY <1>1 DEF NChunks
  <2>. QED  OBVIOUS
<1>5. [val |-> v, lo |-> k * m, hi |-> Min2((k + 1) * m, v.len)] \in Chunk
  <2>. Min2((k + 1) * m, v.len) \in Nat
    BY <1>1, <1>2 DEF Min2
  <2>. QED  BY <1>2 DEF Chunk, Values
<1>. QED  BY <1>3, <1>4, <1>5 DEF SetCookie, Idx

LEMMA ClearCookiesType ==
    ASSUME NEW h \in Hosts, NEW n \in Names
    PROVE  ClearCookies(h, n) \subseteq SetCookie
BY BoundsAssumption DEF ClearCookies, DividedIndices, SetCookie, Idx

LEMMA WholeCookieType ==
    ASSUME NEW n \in Names, NEW v \in Values
    PROVE  WholeCookie(n, v, 0) \in SetCookie
BY ValuesAssumption, BoundsAssumption DEF WholeCookie, SetCookie, Chunk, Idx

(* --- Type correctness ---------------------------------------------------- *)

LEMMA TypeInit == Init => TypeOK
<1>. SUFFICES ASSUME Init PROVE TypeOK
  OBVIOUS
<1>1. jar \in [Hosts -> [Names -> [Idx -> Chunk \cup {Empty, Absent}]]]
  BY DEF Init, EmptyJar
<1>2. applied \in [Hosts -> [ChunkedNames -> TokenValues \cup {Cleared}]]
  BY DEF Init
<1>. QED  BY <1>1, <1>2 DEF Init, TypeOK

LEMMA TypeStep == TypeOK /\ [Next]_vars => TypeOK'
<1>. SUFFICES ASSUME TypeOK, [Next]_vars PROVE TypeOK'
  OBVIOUS
<1>. USE DEF TypeOK
<1>1. ASSUME NEW h \in Hosts, NEW n \in ChunkedNames, NEW v \in TokenValues,
             NEW d \in {0, 1}, DropTokenCookie(h, n, v, d)
      PROVE  TypeOK'
  <2>. DEFINE m == Budget(cfg, n, h)
  <2>1. m \in Nat \ {0}
    BY <1>1, BudgetInt DEF DropTokenCookie, ChunkedNames, Names
  <2>2. ChunkCookies(n, v, d, m) \subseteq SetCookie
    BY <1>1, <2>1, ChunkCookiesType DEF DropTokenCookie, ChunkedNames, Names, Values
  <2>3. [KeepAll EXCEPT ![n] = v] \in [ChunkedNames -> TokenValues \cup {Cleared, Keep}]
    BY DEF KeepAll
  <2>4. [host |-> h, cookies |-> ChunkCookies(n, v, d, m),
         g |-> [KeepAll EXCEPT ![n] = v]] \in Response
    BY <2>2, <2>3 DEF Response
  <2>5. Respond(h, ChunkCookies(n, v, d, m), [KeepAll EXCEPT ![n] = v])
    BY <1>1 DEF DropTokenCookie
  <2>6. inflight' \subseteq Response /\ UNCHANGED <<cfg, jar, applied, panicked>>
    BY <2>4, <2>5 DEF Respond
  <2>. QED  BY <2>6
<1>2. ASSUME NEW h \in Hosts, NEW n \in ChunkedNames, NEW v \in TokenValues,
             NEW d \in {0, 1}, DropTokenCookiePanic(h, n, v, d)
      PROVE  TypeOK'
  BY <1>2 DEF DropTokenCookiePanic
<1>3. ASSUME NEW h \in Hosts, NEW sv \in StateValues, NEW uv \in URIValues,
             WriteStateParameterCookie(h, sv, uv)
      PROVE  TypeOK'
  <2>1. WholeCookie(URIName, uv, 0) \in SetCookie /\ WholeCookie(StateName, sv, 0) \in SetCookie
    BY WholeCookieType DEF Names, Values
  <2>. QED  BY <1>3, <2>1 DEF WriteStateParameterCookie, Respond, Response, KeepAll
<1>4. ASSUME NEW h \in Hosts, NEW n \in ClearedNames, ClearCookie(h, n)
      PROVE  TypeOK'
  <2>1. ClearCookies(h, n) \subseteq SetCookie
    BY ClearCookiesType DEF ClearedNames, Names
  <2>. QED  BY <1>4, <2>1 DEF ClearCookie, Respond, Response
<1>5. ASSUME NEW h \in Hosts, ClearAllCookies(h)
      PROVE  TypeOK'
  <2>1. UNION {ClearCookies(h, n) : n \in ClearedNames} \subseteq SetCookie
    BY ClearCookiesType DEF ClearedNames, Names
  <2>. QED  BY <1>5, <2>1 DEF ClearAllCookies, Respond, Response
<1>6. ASSUME NEW r \in inflight, Deliver(r)
      PROVE  TypeOK'
  <2>1. r \in Response
    OBVIOUS
  <2>2. \A sc \in r.cookies : Stored(sc) \in Chunk \cup {Empty, Absent}
    BY <2>1 DEF Response, SetCookie, Stored
  <2>3. jar' \in [Hosts -> [Names -> [Idx -> Chunk \cup {Empty, Absent}]]]
    <3>. DEFINE pick(n, k) == CHOOSE sc \in r.cookies : sc.name = n /\ sc.idx = k
    <3>1. \A n \in Names, k \in Idx :
             (\E sc \in r.cookies : sc.name = n /\ sc.idx = k) => pick(n, k) \in r.cookies
      OBVIOUS
    <3>. QED  BY <1>6, <2>1, <2>2, <3>1 DEF Deliver, Response
  <2>4. applied' \in [Hosts -> [ChunkedNames -> TokenValues \cup {Cleared}]]
    BY <1>6, <2>1 DEF Deliver, Response
  <2>. QED  BY <1>6, <2>3, <2>4 DEF Deliver
<1>7. CASE UNCHANGED vars
  BY <1>7 DEF vars
<1>. QED  BY <1>1, <1>2, <1>3, <1>4, <1>5, <1>6, <1>7 DEF Next

\* Every reachable state of the cookie layer and the jars is well typed:
\* each Set-Cookie a handler emits names one of the four cookies, an index
\* the jar tracks and a slice value[lo:hi] inside its value.
THEOREM TypeCorrect == Spec => []TypeOK
BY TypeInit, TypeStep, PTL DEF Spec

(* --- The Set-Cookie lines of the chunked writes fit 4096 bytes ----------- *)

\* Every chunk a write emits is non-empty, at most the budget long, and
\* carries the write's name and duration.
LEMMA ChunkCookiesFit ==
    ASSUME NEW n \in Names, NEW v \in Values, NEW d \in {0, 1},
           NEW m \in Nat \ {0}, NEW sc \in ChunkCookies(n, v, d, m)
    PROVE  /\ sc.name = n /\ sc.dur = d /\ sc.chunk # Empty
           /\ sc.chunk.hi - sc.chunk.lo <= m
<1>1. PICK k \in 0..(NChunks(v.len, m) - 1) :
        sc = [name |-> n, idx |-> k, dur |-> d,
              chunk |-> [val |-> v, lo |-> k * m, hi |-> Min2((k + 1) * m, v.len)]]
  BY DEF ChunkCookies
<1>2. Min2((k + 1) * m, v.len) - k * m <= m
  BY ValuesAssumption, ChunkBounds
<1>. QED  BY <1>1, <1>2 DEF Empty

\* The line http.SetCookie writes for a token chunk no longer than the
\* budget makeCookieChunker computed, under any configuration, on any host,
\* fits 4096 bytes as long as the continuation index has at most two
\* digits.  The two bytes "Secure" gets beyond its reservation and the
\* unreserved "; Domain=" of a host-derived cookie are paid for by the
\* margin of 12 + 12 + 3 only up to a two-digit "-k" suffix.
LEMMA LineFits ==
    ASSUME NEW c \in Configs, NEW h \in Hosts, NEW sc \in SetCookie,
           sc.name \in ChunkedNames, sc.chunk # Empty,
           sc.chunk.hi - sc.chunk.lo <= Budget(c, sc.name, h),
           sc.dur \in {0, 1}, sc.idx <= 99
    PROVE  SetCookieLineLen(c, h, sc) <= 4096
<1>1. /\ AttrBudget(c) \in Int
      /\ c.sameSite \in SameSiteModes /\ c.dom \in Nat
      /\ c.session \in BOOLEAN /\ c.httpOnly \in BOOLEAN /\ c.secure \in BOOLEAN
  BY AttrBudgetType
<1>2. /\ NameLen[sc.name] \in Nat /\ h \in Nat /\ sc.idx \in Nat
      /\ sc.chunk.hi \in Nat /\ sc.chunk.lo \in Nat
  BY NamesAssumption, BoundsAssumption DEF SetCookie, Idx, Chunk
<1>3. CookieNameLen(sc) <= NameLen[sc.name] + 3
  BY <1>2 DEF CookieNameLen, Digits
<1>4. (IF ExpiresSet(c, sc.dur) THEN 39 ELSE 0) <= (IF ~c.session THEN 39 ELSE 0)
  BY <1>1 DEF ExpiresSet
<1>5. SameSiteLen(c.sameSite) \in Nat
  BY <1>1, SameSiteDistinct DEF SameSiteLen, SameSiteModes
<1>6. (IF c.sameSite \in {"Strict", "Lax"} THEN 11 + SameSiteLen(c.sameSite) ELSE 0)
        <= (IF c.sameSite # SameSiteUnset THEN 11 + SameSiteLen(c.sameSite) ELSE 0)
  BY <1>5, SameSiteDistinct
<1>7. CookieNameLen(sc) \in Nat
  BY <1>2 DEF CookieNameLen, Digits
<1>. QED
  BY <1>1, <1>2, <1>3, <1>4, <1>5, <1>6, <1>7
  DEF SetCookieLineLen, Budget, AttrBudget, baseCookieChunkLength, cookieMargin

\* The inductive invariant behind SetCookieFits: every non-empty token
\* chunk in flight is at most the budget of its name on its host under the
\* (fixed) configuration, and was written with duration 0 or 1.
FitsInv ==
    /\ TypeOK
    /\ \A r \in inflight : \A sc \in r.cookies :
          sc.name \in ChunkedNames /\ sc.chunk # Empty =>
             /\ sc.chunk.hi - sc.chunk.lo <= Budget(cfg, sc.name, r.host)
             /\ sc.dur \in {0, 1}

LEMMA FitsInit == Init => FitsInv
BY TypeInit DEF Init, FitsInv

LEMMA FitsStep == FitsInv /\ [Next]_vars => FitsInv'
<1>. SUFFICES ASSUME FitsInv, [Next]_vars PROVE FitsInv'
  OBVIOUS
<1>1. TypeOK'
  BY TypeStep DEF FitsInv
<1>. DEFINE Fit(r) == \A sc \in r.cookies :
                        sc.name \in ChunkedNames /\ sc.chunk # Empty =>
                           /\ sc.chunk.hi - sc.chunk.lo <= Budget(cfg, sc.name, r.host)
                           /\ sc.dur \in {0, 1}
<1>. SUFFICES \A r \in inflight' : Fit(r)'
  BY <1>1 DEF FitsInv
<1>2. \A r \in inflight : Fit(r)
  BY DEF FitsInv
<1>3. ASSUME NEW h \in Hosts, NEW n \in ChunkedNames, NEW v \in TokenValues,
             NEW d \in {0, 1}, DropTokenCookie(h, n, v, d)
      PROVE  \A r \in inflight' : Fit(r)'
  <2>. DEFINE m == Budget(cfg, n, h)
  <2>1. m \in Nat \ {0}
    BY <1>3, BudgetInt DEF DropTokenCookie, ChunkedNames, Names, FitsInv, TypeOK
  <2>2. Fit([host |-> h, cookies |-> ChunkCookies(n, v, d, m), g |-> [KeepAll EXCEPT ![n] = v]])'
    BY <1>3, <2>1, ChunkCookiesFit DEF DropTokenCookie, Respond, ChunkedNames, Names, Values
  <2>. QED  BY <1>2, <1>3, <2>2 DEF DropTokenCookie, Respond
<1>4. ASSUME NEW h \in Hosts, NEW sv \in StateValues, NEW uv \in URIValues,
             WriteStateParameterCookie(h, sv, uv)
      PROVE  \A r \in inflight' : Fit(r)'
  <2>1. URIName \notin ChunkedNames /\ StateName \notin ChunkedNames
    BY NamesDistinct DEF ChunkedNames
  <2>. QED  BY <1>2, <1>4, <2>1 DEF WriteStateParameterCookie, Respond, WholeCookie
<1>5. ASSUME NEW h \in Hosts, NEW n \in ClearedNames, ClearCookie(h, n)
      PROVE  \A r \in inflight' : Fit(r)'
  BY <1>2, <1>5 DEF ClearCookie, Respond, ClearCookies
<1>6. ASSUME NEW h \in Hosts, ClearAllCookies(h)
      PROVE  \A r \in inflight' : Fit(r)'
  BY <1>2, <1>6 DEF ClearAllCookies, Respond, ClearCookies
<1>7. ASSUME NEW r \in inflight, Deliver(r)
      PROVE  \A r2 \in inflight' : Fit(r2)'
  BY <1>2, <1>7 DEF Deliver
<1>8. ASSUME NEW h \in Hosts, NEW n \in ChunkedNames, NEW v \in TokenValues,
             NEW d \in {0, 1}, DropTokenCookiePanic(h, n, v, d)
      PROVE  \A r \in inflight' : Fit(r)'
  BY <1>2, <1>8 DEF DropTokenCookiePanic
<1>9. CASE UNCHANGED vars
  BY <1>2, <1>9 DEF vars
<1>. QED  BY <1>3, <1>4, <1>5, <1>6, <1>7, <1>8, <1>9 DEF Next

\* Every Set-Cookie line dropCookieWithChunks emits for an access or
\* refresh token chunk fits the 4096-byte line makeCookieChunker budgets
\* for, under every configuration and host, provided no write needs a
\* continuation index of three digits (a token value of about 400 KB:
\* at index 100 the line is 4097 bytes, which TLC confirms).
THEOREM ChunksFit ==
    ASSUME MaxChunkIndex <= 99
    PROVE  Spec => []SetCookieFits
<1>1. FitsInv => SetCookieFits
  <2>. SUFFICES ASSUME FitsInv, NEW r \in inflight, NEW sc \in r.cookies,
                       sc.name \in ChunkedNames, sc.chunk # Empty
                PROVE  SetCookieLineLen(cfg, r.host, sc) <= 4096
    BY DEF SetCookieFits
  <2>1. r \in Response /\ cfg \in Configs
    BY DEF FitsInv, TypeOK
  <2>2. sc \in SetCookie /\ r.host \in Hosts
    BY <2>1 DEF Response
  <2>3. sc.idx <= 99
    BY <2>2, BoundsAssumption DEF SetCookie, Idx
  <2>. QED  BY <2>1, <2>2, <2>3, LineFits DEF FitsInv
<1>. QED  BY <1>1, FitsInit, FitsStep, PTL DEF Spec

(* --- No token chunk reaches the upstream --------------------------------- *)

\* The inductive invariant behind NoTokenUpstream: a chunk of a token value
\* is only ever written, and only ever stored, under a token cookie name.
TokenInv ==
    /\ TypeOK
    /\ \A h \in Hosts, n \in Names, k \in Idx :
          jar[h][n][k] \in Chunk /\ jar[h][n][k].val \in TokenValues => n \in ChunkedNames
    /\ \A r \in inflight : \A sc \in r.cookies :
          sc.chunk \in Chunk /\ sc.chunk.val \in TokenValues => sc.name \in ChunkedNames

\* The markers of absence, emptiness and redaction are no chunks.
LEMMA MarkersNotChunks ==
    Absent \notin Chunk /\ Empty \notin Chunk /\ Redacted \notin Chunk
<1>1. \A c \in Chunk : DOMAIN c = {"val", "lo", "hi"}
  BY DEF Chunk
<1>2. DOMAIN Absent = {"absent"} /\ DOMAIN Empty = {"empty"}
      /\ DOMAIN Redacted = {"redacted"}
  BY DEF Absent, Empty, Redacted
<1>. QED  BY <1>1, <1>2

LEMMA TokenInit == Init => TokenInv
BY TypeInit, MarkersNotChunks DEF Init, TokenInv, EmptyJar

LEMMA TokenStep ==
    ASSUME TokenValues \cap (StateValues \cup URIValues) = {}
    PROVE  TokenInv /\ [Next]_vars => TokenInv'
<1>. SUFFICES ASSUME TokenInv, [Next]_vars PROVE TokenInv'
  OBVIOUS
<1>1. TypeOK /\ TypeOK'
  BY TypeStep DEF TokenInv
<1>. DEFINE JarOK(h, n, k) ==
              jar[h][n][k] \in Chunk /\ jar[h][n][k].val \in TokenValues => n \in ChunkedNames
            CookieOK(sc) ==
              sc.chunk \in Chunk /\ sc.chunk.val \in TokenValues => sc.name \in ChunkedNames
<1>2. /\ \A h \in Hosts, n \in Names, k \in Idx : JarOK(h, n, k)
      /\ \A r \in inflight : \A sc \in r.cookies : CookieOK(sc)
  BY DEF TokenInv
<1>. SUFFICES /\ \A h \in Hosts, n \in Names, k \in Idx : JarOK(h, n, k)'
              /\ \A r \in inflight' : \A sc \in r.cookies : CookieOK(sc)
  BY <1>1 DEF TokenInv
<1>3. ASSUME NEW h \in Hosts, NEW n \in ChunkedNames, NEW v \in TokenValues,
             NEW d \in {0, 1}, DropTokenCookie(h, n, v, d)
      PROVE  \A r \in inflight' : \A sc \in r.cookies : CookieOK(sc)
  <2>1. \A sc \in ChunkCookies(n, v, d, Budget(cfg, n, h)) : sc.name = n
    BY DEF ChunkCookies
  <2>. QED  BY <1>2, <1>3, <2>1 DEF DropTokenCookie, Respond
<1>4. ASSUME NEW h \in Hosts, NEW sv \in StateValues, NEW uv \in URIValues,
             WriteStateParameterCookie(h, sv, uv)
      PROVE  \A r \in inflight' : \A sc \in r.cookies : CookieOK(sc)
  <2>1. sv \notin TokenValues /\ uv \notin TokenValues
    OBVIOUS
  <2>. QED  BY <1>2, <1>4, <2>1 DEF WriteStateParameterCookie, Respond, WholeCookie
<1>5. ASSUME NEW h \in Hosts, NEW n \in ClearedNames, ClearCookie(h, n)
      PROVE  \A r \in inflight' : \A sc \in r.cookies : CookieOK(sc)
  BY <1>2, <1>5, MarkersNotChunks DEF ClearCookie, Respond, ClearCookies
<1>6. ASSUME NEW h \in Hosts, ClearAllCookies(h)
      PROVE  \A r \in inflight' : \A sc \in r.cookies : CookieOK(sc)
  BY <1>2, <1>6, MarkersNotChunks DEF ClearAllCookies, Respond, ClearCookies
<1>7. ASSUME NEW r \in inflight, Deliver(r)
      PROVE  \A h \in Hosts, n \in Names, k \in Idx : JarOK(h, n, k)'
  <2>. SUFFICES ASSUME NEW h \in Hosts, NEW n \in Names, NEW k \in Idx
                PROVE  JarOK(h, n, k)'
    OBVIOUS
  <2>1. r \in Response
    BY <1>1 DEF TypeOK
  <2>2. CASE h = r.host /\ \E sc \in r.cookies : sc.name = n /\ sc.idx = k
    <3>. DEFINE pick == CHOOSE sc \in r.cookies : sc.name = n /\ sc.idx = k
    <3>1. pick \in r.cookies /\ pick.name = n
      BY <2>2
    <3>2. jar'[h][n][k] = Stored(pick)
      BY <1>7, <2>1, <2>2, <1>1 DEF Deliver, TypeOK, Response
    <3>3. Stored(pick) \in {Absent, pick.chunk}
      BY DEF Stored
    <3>. QED  BY <1>2, <3>1, <3>2, <3>3, MarkersNotChunks
  <2>3. CASE ~(h = r.host /\ \E sc \in r.cookies : sc.name = n /\ sc.idx = k)
    <3>1. jar'[h][n][k] = jar[h][n][k]
      BY <1>7, <2>1, <2>3, <1>1 DEF Deliver, TypeOK, Response
    <3>. QED  BY <1>2, <3>1
  <2>. QED  BY <2>2, <2>3
<1>8. ASSUME NEW r \in inflight, Deliver(r)
      PROVE  \A r2 \in inflight' : \A sc \in r2.cookies : CookieOK(sc)
  BY <1>2, <1>8 DEF Deliver
<1>9. (~\E r \in inflight : Deliver(r)) => jar' = jar
  BY DEF Next, vars, DropTokenCookie, DropTokenCookiePanic, WriteStateParameterCookie,
         ClearCookie, ClearAllCookies, Respond
<1>10. \A h \in Hosts, n \in Names, k \in Idx : JarOK(h, n, k)'
  BY <1>2, <1>7, <1>9
<1>11. ASSUME NEW h \in Hosts, NEW n \in ChunkedNames, NEW v \in TokenValues,
              NEW d \in {0, 1}, DropTokenCookiePanic(h, n, v, d)
       PROVE  \A r \in inflight' : \A sc \in r.cookies : CookieOK(sc)
  BY <1>2, <1>11 DEF DropTokenCookiePanic
<1>12. CASE UNCHANGED vars
  BY <1>2, <1>12 DEF vars
<1>. QED  BY <1>3, <1>4, <1>5, <1>6, <1>8, <1>10, <1>11, <1>12 DEF Next

\* A cookie's wire name, base or continuation, starts with its name: the
\* prefix test of filterCookies matches every chunk of a filtered name.
LEMMA WirePrefix ==
    ASSUME NEW n, NEW k \in Nat
    PROVE  HasPrefix(WireName(n, k), <<n>>)
<1>1. CASE k = 0
  <2>1. WireName(n, k) = <<n>>
    BY <1>1 DEF WireName
  <2>2. Len(<<n>>) = 1 /\ <<n>>[1] = n
    OBVIOUS
  <2>. QED  BY <2>1, <2>2 DEF HasPrefix
<1>2. CASE k # 0
  <2>1. WireName(n, k) = <<n, k>>
    BY <1>2 DEF WireName
  <2>2. Len(<<n>>) = 1 /\ Len(<<n, k>>) = 2 /\ <<n, k>>[1] = n /\ <<n>>[1] = n
    OBVIOUS
  <2>. QED  BY <2>1, <2>2 DEF HasPrefix
<1>. QED  BY <1>1, <1>2

\* filterCookies re-adds every cookie under its own name: the set of
\* cookie names the upstream sees is that of the request.
LEMMA FilterKeepsNames ==
    ASSUME NEW cs, NEW filter
    PROVE  {c.name : c \in FilterCookies(cs, filter)} = {c.name : c \in cs}
<1>. DEFINE out(c) == IF \E f \in filter : HasPrefix(c.name, <<f>>)
                      THEN [name |-> c.name, value |-> Redacted] ELSE c
<1>1. FilterCookies(cs, filter) = {out(c) : c \in cs}
  BY DEF FilterCookies
<1>2. \A c \in cs : out(c).name = c.name
  OBVIOUS
<1>3. {x.name : x \in {out(c) : c \in cs}} = {out(c).name : c \in cs}
  OBVIOUS
<1>. QED  BY <1>1, <1>2, <1>3

\* When the proxy filters (at least) the access and refresh cookie names,
\* and no state or request-URI value is also a token, the cookies a
\* browser's request carries upstream after filterCookies hold no chunk
\* of a token, whatever the jar holds (stale and orphan continuations
\* included), and filterCookies drops no cookie.
THEOREM TokenNeverUpstream ==
    ASSUME TokenValues \cap (StateValues \cup URIValues) = {},
           ChunkedNames \subseteq FilterNames
    PROVE  Spec => []NoTokenUpstream
<1>1. TokenInv => NoTokenUpstream
  <2>. SUFFICES ASSUME TokenInv, NEW h \in Hosts
                PROVE  LET sent == FilterCookies(RequestCookies(h), FilterNames)
                       IN  /\ \A c \in sent : c.value \in Chunk =>
                                                 c.value.val \notin TokenValues
                           /\ {c.name : c \in sent} = {c.name : c \in RequestCookies(h)}
    BY DEF NoTokenUpstream
  <2>1. {c.name : c \in FilterCookies(RequestCookies(h), FilterNames)}
          = {c.name : c \in RequestCookies(h)}
    BY FilterKeepsNames
  <2>2. ASSUME NEW c \in FilterCookies(RequestCookies(h), FilterNames),
               c.value \in Chunk
        PROVE  c.value.val \notin TokenValues
    <3>1. PICK c0 \in RequestCookies(h) :
            c = IF \E f \in FilterNames : HasPrefix(c0.name, <<f>>)
                THEN [name |-> c0.name, value |-> Redacted] ELSE c0
      BY DEF FilterCookies
    <3>2. PICK nk \in Names \X Idx :
            c0 = [name |-> WireName(nk[1], nk[2]), value |-> jar[h][nk[1]][nk[2]]]
      BY DEF RequestCookies
    <3>3. CASE \E f \in FilterNames : HasPrefix(c0.name, <<f>>)
      BY <2>2, <3>1, <3>3, MarkersNotChunks
    <3>4. CASE ~\E f \in FilterNames : HasPrefix(c0.name, <<f>>)
      <4>1. nk[2] \in Nat
        BY BoundsAssumption DEF Idx
      <4>2. HasPrefix(c0.name, <<nk[1]>>)
        BY <3>2, <4>1, WirePrefix
      <4>3. nk[1] \notin ChunkedNames
        BY <3>4, <4>2
      <4>4. c = c0 /\ c.value = jar[h][nk[1]][nk[2]]
        BY <3>1, <3>2, <3>4
      <4>. QED  BY <2>2, <4>3, <4>4 DEF TokenInv
    <3>. QED  BY <3>3, <3>4
  <2>. QED  BY <2>1, <2>2
<1>. QED  BY <1>1, TokenInit, TokenStep, PTL DEF Spec

(* --- dropCookieWithChunks round-trips its value -------------------------- *)

\* The chunks cover the value: NChunks budgets of m reach its end.
LEMMA ChunksCover ==
    ASSUME NEW l \in Nat \ {0}, NEW m \in Nat \ {0}
    PROVE  /\ NChunks(l, m) \in Nat \ {0}
           /\ NChunks(l, m) * m >= l
<1>1. CASE l <= m
  BY <1>1 DEF NChunks
<1>2. CASE l > m
  <2>. DEFINE q == (l + m - 1) \div m
  <2>1. q * m > l - 1 /\ q >= 1
    BY <1>2, SMT
  <2>. QED  BY <1>2, <2>1 DEF NChunks
<1>. QED  BY <1>1, <1>2

\* A write emits one cookie per chunk index 0 .. NChunks - 1.
LEMMA ChunkCount ==
    ASSUME NEW n, NEW v \in Values, NEW d, NEW m \in Nat \ {0}
    PROVE  /\ IsFiniteSet(ChunkCookies(n, v, d, m))
           /\ Cardinality(ChunkCookies(n, v, d, m)) = NChunks(v.len, m)
<1>. DEFINE N == NChunks(v.len, m)
            rec(k) == [name |-> n, idx |-> k, dur |-> d,
                       chunk |-> [val |-> v, lo |-> k * m,
                                  hi |-> Min2((k + 1) * m, v.len)]]
            f == [k \in 0..(N - 1) |-> rec(k)]
<1>1. N \in Nat \ {0}
  BY ValuesAssumption, ChunksCover
<1>2. ChunkCookies(n, v, d, m) = {rec(k) : k \in 0..(N - 1)}
  BY DEF ChunkCookies
<1>3. f \in Bijection(0..(N - 1), ChunkCookies(n, v, d, m))
  BY <1>2 DEF Bijection, Injection, Surjection, IsInjective
<1>4. IsFiniteSet(0..(N - 1)) /\ Cardinality(0..(N - 1)) = N
  <2>1. N - 1 \in Int
    BY <1>1
  <2>2. IsFiniteSet(0..(N - 1))
        /\ Cardinality(0..(N - 1)) = IF 0 > N - 1 THEN 0 ELSE (N - 1) - 0 + 1
    BY <2>1, FS_Interval
  <2>. QED  BY <1>1, <2>2
<1>. QED  BY <1>3, <1>4, FS_Bijection DEF ExistsBijection

\* The cookies of one write, looked up by continuation index as a reader
\* does, are consecutive slices of the value that end at its end: joined
\* in index order they give the value back.
LEMMA ChunksDecode ==
    ASSUME NEW n, NEW v \in Values, NEW d, NEW m \in Nat \ {0},
           \A sc \in ChunkCookies(n, v, d, m) : sc.idx <= MaxChunkIndex
    PROVE  LET mine == ChunkCookies(n, v, d, m)
               ch == [k \in Idx |->
                        IF \E sc \in mine : sc.idx = k
                        THEN (CHOOSE sc \in mine : sc.idx = k).chunk
                        ELSE Absent]
           IN  DecodesTo(ch, Cardinality(mine), v)
<1>. DEFINE N == NChunks(v.len, m)
            l == v.len
            rec(k) == [name |-> n, idx |-> k, dur |-> d,
                       chunk |-> [val |-> v, lo |-> k * m,
                                  hi |-> Min2((k + 1) * m, l)]]
            mine == ChunkCookies(n, v, d, m)
            ch == [k \in Idx |->
                     IF \E sc \in mine : sc.idx = k
                     THEN (CHOOSE sc \in mine : sc.idx = k).chunk
                     ELSE Absent]
<1>1. l \in Nat \ {0} /\ N \in Nat \ {0} /\ N * m >= l
  BY ValuesAssumption, ChunksCover
<1>2. Cardinality(mine) = N
  BY ChunkCount
<1>3. mine = {rec(k) : k \in 0..(N - 1)}
  BY DEF ChunkCookies
<1>4. N - 1 <= MaxChunkIndex
  <2>0. N - 1 \in 0..(N - 1)
    BY <1>1
  <2>1. rec(N - 1) \in mine
    BY <2>0, <1>3, Zenon
  <2>. QED  BY <2>1
<1>5. \A k \in 0..(N - 1) : ch[k] = rec(k).chunk
  <2>. SUFFICES ASSUME NEW k \in 0..(N - 1) PROVE ch[k] = rec(k).chunk
    OBVIOUS
  <2>1. k \in Idx
    BY <1>1, <1>4, BoundsAssumption DEF Idx
  <2>2. \A sc \in mine : sc.idx = k <=> sc = rec(k)
    BY <1>3
  <2>. QED  BY <2>1, <2>2, <1>3
<1>. HIDE DEF ch
<1>6. \A k \in 0..(N - 1) : rec(k).chunk \in Chunk
  <2>. SUFFICES ASSUME NEW k \in 0..(N - 1) PROVE rec(k).chunk \in Chunk
    OBVIOUS
  <2>1. /\ k * m < Min2((k + 1) * m, l) /\ Min2((k + 1) * m, l) <= l
        /\ k * m \in Nat
    BY <1>1, ChunkBounds
  <2>2. Min2((k + 1) * m, l) \in Nat
    BY <1>1, <2>1 DEF Min2
  <2>. QED  BY <2>1, <2>2 DEF Chunk
<1>7. \A k \in 1..(N - 1) : Min2(k * m, l) = k * m
  <2>. SUFFICES ASSUME NEW k \in 1..(N - 1) PROVE Min2(k * m, l) = k * m
    OBVIOUS
  <2>1. k * m < l
    BY <1>1, ChunkBounds, SMT DEF Min2
  <2>. QED  BY <2>1 DEF Min2
<1>8. Min2(N * m, l) = l
  BY <1>1 DEF Min2
<1>9. \A k \in 0..(N - 1) : ch[k] \in Chunk
  BY <1>5, <1>6, Zenon
<1>10. \A k \in 0..(N - 1) :
          ch[k].val = v /\ ch[k].lo = k * m /\ ch[k].hi = Min2((k + 1) * m, l)
  <2>. SUFFICES ASSUME NEW k \in 0..(N - 1)
                PROVE  ch[k].val = v /\ ch[k].lo = k * m /\ ch[k].hi = Min2((k + 1) * m, l)
    OBVIOUS
  <2>1. ch[k] = rec(k).chunk
    BY <1>5
  <2>2. rec(k).chunk = [val |-> v, lo |-> k * m, hi |-> Min2((k + 1) * m, l)]
    OBVIOUS
  <2>3. ch[k] = [val |-> v, lo |-> k * m, hi |-> Min2((k + 1) * m, l)]
    BY <2>1, <2>2, Zenon
  <2>. QED  BY <2>3
<1>11. DecodesTo(ch, N, v)
  <2>1. \A k \in 0..(N - 1) :
           /\ ch[k] \in Chunk
           /\ ch[k].val = v
           /\ ch[k].lo = IF k = 0 THEN 0 ELSE ch[k - 1].hi
    <3>. SUFFICES ASSUME NEW k \in 0..(N - 1)
                  PROVE  /\ ch[k] \in Chunk
                         /\ ch[k].val = v
                         /\ ch[k].lo = IF k = 0 THEN 0 ELSE ch[k - 1].hi
      OBVIOUS
    <3>1. CASE k = 0
      BY <1>9, <1>10, <3>1
    <3>2. CASE k # 0
      <4>1. k - 1 \in 0..(N - 1) /\ (k - 1) + 1 = k /\ k \in 1..(N - 1)
        BY <3>2, <1>1
      <4>2. ch[k - 1].hi = Min2(k * m, l)
        BY <1>10, <4>1
      <4>3. Min2(k * m, l) = k * m
        BY <1>7, <4>1
      <4>. QED  BY <1>9, <1>10, <3>2, <4>2, <4>3
    <3>. QED  BY <3>1, <3>2
  <2>2. ch[N - 1].hi = l
    <3>1. N - 1 \in 0..(N - 1) /\ (N - 1) + 1 = N
      BY <1>1
    <3>. QED  BY <1>8, <1>10, <3>1
  <2>. QED  BY <1>1, <2>1, <2>2 DEF DecodesTo
<1>. QED  BY <1>2, <1>11 DEF ch

\* The markers a response's ghost carries for a name it does not write
\* are no token values.
LEMMA MarkersNotValues ==
    Keep \notin TokenValues /\ Cleared \notin TokenValues
<1>1. \A v \in TokenValues : DOMAIN v = {"id", "len"}
  BY ValuesAssumption DEF Values
<1>2. DOMAIN Keep = {"keep"} /\ DOMAIN Cleared = {"cleared"}
  BY DEF Keep, Cleared
<1>. QED  BY <1>1, <1>2

\* The inductive invariant behind ResponseRoundTrip: a response that
\* writes a token name carries, under that name, exactly the cookies
\* dropCookieWithChunks emits for the value with the budget of its host
\* (a positive one) under the fixed configuration.
RoundTripInv ==
    /\ TypeOK
    /\ \A r \in inflight, n \in ChunkedNames :
          r.g[n] \in TokenValues =>
             \E d \in {0, 1} :
                /\ Budget(cfg, n, r.host) \in Nat \ {0}
                /\ {sc \in r.cookies : sc.name = n}
                      = ChunkCookies(n, r.g[n], d, Budget(cfg, n, r.host))

LEMMA RoundTripInit == Init => RoundTripInv
BY TypeInit DEF Init, RoundTripInv

LEMMA RoundTripStep == RoundTripInv /\ [Next]_vars => RoundTripInv'
<1>. SUFFICES ASSUME RoundTripInv, [Next]_vars PROVE RoundTripInv'
  OBVIOUS
<1>1. TypeOK'
  BY TypeStep DEF RoundTripInv
<1>. DEFINE Written(r) ==
              \A n \in ChunkedNames :
                 r.g[n] \in TokenValues =>
                    \E d \in {0, 1} :
                       /\ Budget(cfg, n, r.host) \in Nat \ {0}
                       /\ {sc \in r.cookies : sc.name = n}
                             = ChunkCookies(n, r.g[n], d, Budget(cfg, n, r.host))
<1>2. \A r \in inflight : Written(r)
  BY DEF RoundTripInv
<1>. SUFFICES \A r \in inflight' : Written(r)'
  BY <1>1 DEF RoundTripInv
<1>3. ASSUME NEW h \in Hosts, NEW n \in ChunkedNames, NEW v \in TokenValues,
             NEW d \in {0, 1}, DropTokenCookie(h, n, v, d)
      PROVE  \A r \in inflight' : Written(r)'
  <2>. DEFINE m == Budget(cfg, n, h)
              r0 == [host |-> h, cookies |-> ChunkCookies(n, v, d, m),
                     g |-> [KeepAll EXCEPT ![n] = v]]
  <2>1. m \in Nat \ {0}
    BY <1>3, BudgetInt DEF DropTokenCookie, ChunkedNames, Names, RoundTripInv, TypeOK
  <2>2. {sc \in ChunkCookies(n, v, d, m) : sc.name = n} = ChunkCookies(n, v, d, m)
    BY DEF ChunkCookies
  <2>3. \A x \in ChunkedNames \ {n} : r0.g[x] = Keep
    BY DEF KeepAll
  <2>4. Written(r0)
    <3>. SUFFICES ASSUME NEW x \in ChunkedNames, r0.g[x] \in TokenValues
                  PROVE  \E d2 \in {0, 1} :
                           /\ Budget(cfg, x, h) \in Nat \ {0}
                           /\ {sc \in r0.cookies : sc.name = x}
                                 = ChunkCookies(x, r0.g[x], d2, Budget(cfg, x, h))
      OBVIOUS
    <3>1. x = n
      BY <2>3, MarkersNotValues
    <3>2. r0.g[x] = v
      BY <3>1 DEF KeepAll
    <3>. QED  BY <2>1, <2>2, <3>1, <3>2
  <2>5. cfg' = cfg /\ inflight' = inflight \cup {r0}
    BY <1>3 DEF DropTokenCookie, Respond
  <2>. QED  BY <1>2, <2>4, <2>5
<1>4. ASSUME NEW h \in Hosts, NEW sv \in StateValues, NEW uv \in URIValues,
             WriteStateParameterCookie(h, sv, uv)
      PROVE  \A r \in inflight' : Written(r)'
  BY <1>2, <1>4, MarkersNotValues DEF WriteStateParameterCookie, Respond, KeepAll
<1>5. ASSUME NEW h \in Hosts, NEW n \in ClearedNames, ClearCookie(h, n)
      PROVE  \A r \in inflight' : Written(r)'
  BY <1>2, <1>5, MarkersNotValues DEF ClearCookie, Respond
<1>6. ASSUME NEW h \in Hosts, ClearAllCookies(h)
      PROVE  \A r \in inflight' : Written(r)'
  BY <1>2, <1>6, MarkersNotValues DEF ClearAllCookies, Respond
<1>7. ASSUME NEW r \in inflight, Deliver(r)
      PROVE  \A r2 \in inflight' : Written(r2)'
  BY <1>2, <1>7 DEF Deliver
<1>8. ASSUME NEW h \in Hosts, NEW n \in ChunkedNames, NEW v \in TokenValues,
             NEW d \in {0, 1}, DropTokenCookiePanic(h, n, v, d)
      PROVE  \A r \in inflight' : Written(r)'
  BY <1>2, <1>8 DEF DropTokenCookiePanic
<1>9. CASE UNCHANGED vars
  BY <1>2, <1>9 DEF vars
<1>. QED  BY <1>3, <1>4, <1>5, <1>6, <1>7, <1>8, <1>9 DEF Next

\* Every write response of dropCookieWithChunks in flight, applied on its
\* own, carries a base cookie and contiguous continuations that reassemble
\* to exactly the token written, for every configuration, host, budget
\* and token length.
THEOREM RoundTrip == Spec => []ResponseRoundTrip
<1>1. RoundTripInv => ResponseRoundTrip
  <2>. SUFFICES ASSUME RoundTripInv, NEW r \in inflight, NEW n \in ChunkedNames,
                       r.g[n] \in TokenValues
                PROVE  LET mine == {sc \in r.cookies : sc.name = n}
                           ch == [k \in Idx |->
                                    IF \E sc \in mine : sc.idx = k
                                    THEN (CHOOSE sc \in mine : sc.idx = k).chunk
                                    ELSE Absent]
                       IN  DecodesTo(ch, Cardinality(mine), r.g[n])
    BY DEF ResponseRoundTrip
  <2>1. PICK d \in {0, 1} :
          /\ Budget(cfg, n, r.host) \in Nat \ {0}
          /\ {sc \in r.cookies : sc.name = n}
                = ChunkCookies(n, r.g[n], d, Budget(cfg, n, r.host))
    BY DEF RoundTripInv
  <2>2. r \in Response
    BY DEF RoundTripInv, TypeOK
  <2>3. \A sc \in ChunkCookies(n, r.g[n], d, Budget(cfg, n, r.host)) :
           sc.idx <= MaxChunkIndex
    BY <2>1, <2>2 DEF Response, SetCookie, Idx
  <2>4. r.g[n] \in Values
    BY DEF Values
  <2>. DEFINE M == ChunkCookies(n, r.g[n], d, Budget(cfg, n, r.host))
              chOf(S) == [k \in Idx |->
                            IF \E sc \in S : sc.idx = k
                            THEN (CHOOSE sc \in S : sc.idx = k).chunk
                            ELSE Absent]
  <2>5. DecodesTo(chOf(M), Cardinality(M), r.g[n])
    BY <2>1, <2>3, <2>4, ChunksDecode
  <2>6. {sc \in r.cookies : sc.name = n} = M
    BY <2>1
  <2>. HIDE DEF M, chOf
  <2>. QED  BY <2>5, <2>6, Zenon DEF chOf
<1>. QED  BY <1>1, RoundTripInit, RoundTripStep, PTL DEF Spec

=============================================================================
