----------------------- MODULE ChunkedCookiesClearProofs -----------------------
(***************************************************************************)
(* clearDividedCookies removes every continuation of a name, for every     *)
(* configuration, host and jar size, when the browser applies each         *)
(* response before the next request is answered (MaxInflight = 1).  With  *)
(* two responses in flight the property fails (run cookies_concurrent):    *)
(* the loop of a clear reads a request that predates a concurrent write.   *)
(***************************************************************************)
EXTENDS ChunkedCookiesProofs

(* --- The invariant ------------------------------------------------------- *)

\* At most one response is in flight.
Single == \A r1, r2 \in inflight : r1 = r2

\* The cookies of a chunked name in a jar sit at indices 0, 1, ..., K-1:
\* every write emits a run of indices from 0 and every clear removes one.
Prefix ==
    \A h \in Hosts, n \in ChunkedNames, k \in Idx :
        Present(h, n, k) => \A j \in 0..k : Present(h, n, j)

\* The Set-Cookies of name n in response r.
Named(r, n) == {sc \in r.cookies : sc.name = n}

\* What a response in flight does to a chunked name n: nothing when its
\* ghost says Keep; when it clears n, the clear computed on the jar as it is
\* now; when it writes n, a run of indices from 0, none of them expired.
Effect(r, n) ==
    /\ r.g[n] = Keep => Named(r, n) = {}
    /\ r.g[n] = Cleared => Named(r, n) = ClearCookies(r.host, n)
    /\ r.g[n] \in TokenValues =>
          \A sc \in Named(r, n) :
             /\ sc.dur \in {0, 1}
             /\ \A j \in 0..sc.idx : \E sc2 \in Named(r, n) : sc2.idx = j

\* Inductive invariant for ClearRemovesAll.
ClearInv ==
    /\ TypeOK
    /\ Single
    /\ Prefix
    /\ ClearRemovesAll
    /\ \A r \in inflight, n \in ChunkedNames : Effect(r, n)

(* --- clearDividedCookies' loop ------------------------------------------- *)

\* The set of (name, index) pairs a jar is tracked over is finite.
LEMMA TrackedFinite == IsFiniteSet(Names \X Idx)
<1>1. IsFiniteSet(Names)
  <2>1. IsFiniteSet({AccessName, RefreshName, StateName})
    BY CardThree
  <2>2. Names = {AccessName, RefreshName, StateName} \cup {URIName}
    BY DEF Names
  <2>. QED  BY <2>1, <2>2, FS_AddElement
<1>2. IsFiniteSet(Idx)
  BY BoundsAssumption, FS_Interval DEF Idx
<1>. QED  BY <1>1, <1>2, FS_Product

\* A request to a host whose jar holds name n at indices 0..k carries more
\* than k cookies.
LEMMA CountBound ==
    ASSUME NEW h, NEW n \in Names, NEW k \in Idx,
           \A j \in 0..k : Present(h, n, j)
    PROVE  k < RequestCookieCount(h)
<1>. DEFINE P == {nk \in Names \X Idx : Present(h, nk[1], nk[2])}
            S == {<<n, j>> : j \in 0..k}
            f == [j \in 0..k |-> <<n, j>>]
<1>1. k \in Nat
  BY BoundsAssumption DEF Idx
<1>2. IsFiniteSet(0..k) /\ Cardinality(0..k) = k + 1
  BY <1>1, FS_Interval
<1>3. f \in Bijection(0..k, S)
  BY DEF Bijection, Injection, Surjection, IsInjective
<1>4. IsFiniteSet(S) /\ Cardinality(S) = k + 1
  BY <1>2, <1>3, FS_Bijection DEF ExistsBijection
<1>5. S \subseteq P
  BY <1>1, BoundsAssumption DEF Idx
<1>6. IsFiniteSet(P)
  BY TrackedFinite, FS_Subset
<1>7. Cardinality(S) <= Cardinality(P)
  BY <1>5, <1>6, FS_Subset
<1>8. RequestCookieCount(h) = Cardinality(P)
  BY DEF RequestCookieCount
<1>. HIDE DEF P, S
<1>9. Cardinality(P) \in Nat
  BY <1>6, FS_CardinalityType
<1>. QED  BY <1>1, <1>4, <1>7, <1>8, <1>9

\* The loop of clearDividedCookies reaches every continuation of a jar
\* whose cookies of name n sit at indices 0..K-1: the clear expires each
\* cookie of n the jar holds.
LEMMA ClearCovers ==
    ASSUME NEW h \in Hosts, NEW n \in ChunkedNames, NEW k \in Idx,
           Prefix, Present(h, n, k)
    PROVE  \E sc \in ClearCookies(h, n) : sc.idx = k
<1>1. \A j \in 0..k : Present(h, n, j)
  BY DEF Prefix
<1>2. k \in {0} \cup DividedIndices(h, n)
  <2>1. k < RequestCookieCount(h)
    BY <1>1, CountBound DEF ChunkedNames, Names
  <2>. QED  BY <1>1, <2>1 DEF DividedIndices, Idx
<1>3. [name |-> n, idx |-> k, chunk |-> Empty, dur |-> -1] \in ClearCookies(h, n)
  BY <1>2 DEF ClearCookies
<1>. QED  BY <1>3

(* --- The browser's store ------------------------------------------------- *)

\* The markers of the model are distinct from each other and from chunks.
LEMMA MarkersDistinct ==
    Keep # Cleared /\ Empty # Absent /\ Absent \notin Chunk
<1>1. DOMAIN Keep = {"keep"} /\ DOMAIN Cleared = {"cleared"}
      /\ DOMAIN Empty = {"empty"} /\ DOMAIN Absent = {"absent"}
  BY DEF Keep, Cleared, Empty, Absent
<1>. QED  BY <1>1, MarkersNotChunks

\* The browser keeps a Set-Cookie without an expiry in the past, and
\* deletes one that clear*Cookie expires (MaxAge -1 in either mode).
LEMMA StoredCases ==
    ASSUME cfg \in Configs, NEW sc \in SetCookie
    PROVE  /\ sc.dur \in {0, 1} => Stored(sc) # Absent
           /\ sc.dur = -1 => Stored(sc) = Absent
<1>1. cfg.session \in BOOLEAN
  BY ConfigsAssumption
<1>2. sc.dur \in {0, 1} => Stored(sc) = sc.chunk
  BY DEF Stored
<1>3. sc.chunk # Absent
  BY MarkersDistinct DEF SetCookie
<1>4. sc.dur = -1 => ExpiresSet(cfg, sc.dur)
  BY <1>1 DEF ExpiresSet
<1>. QED  BY <1>2, <1>3, <1>4 DEF Stored

(* --- Handlers answering ---------------------------------------------------- *)

LEMMA ClearInit == Init => ClearInv
<1>. SUFFICES ASSUME Init PROVE ClearInv
  OBVIOUS
<1>1. TypeOK
  BY TypeInit
<1>2. \A h \in Hosts, n \in Names, k \in Idx : ~Present(h, n, k)
  BY DEF Init, EmptyJar, Present
<1>. QED  BY <1>1, <1>2 DEF Init, ClearInv, Single, Prefix, ClearRemovesAll, ChunkedNames, Names

\* With room for one response only, a handler answers only when none is
\* in flight.
LEMMA SingleEmpty ==
    ASSUME MaxInflight = 1, Single, CanRespond
    PROVE  inflight = {}
<1>. SUFFICES ASSUME NEW r \in inflight PROVE FALSE
  OBVIOUS
<1>1. inflight = {r}
  BY DEF Single
<1>2. Cardinality({r}) = 1
  BY FS_Singleton
<1>. QED  BY <1>1, <1>2 DEF CanRespond

\* What a response does to a name reads the jar only through the clear
\* computed on it.
LEMMA EffectUnchanged ==
    ASSUME NEW r, NEW n, jar' = jar
    PROVE  Effect(r, n)' <=> Effect(r, n)
BY DEF Effect, Named, ClearCookies, DividedIndices, RequestCookieCount, Present

\* A handler that answers while nothing is in flight, with a response whose
\* effect on each chunked name is as Effect says, keeps the invariant.
LEMMA RespondStep ==
    ASSUME MaxInflight = 1, ClearInv, CanRespond, TypeOK',
           NEW h, NEW cookies, NEW g, Respond(h, cookies, g),
           \A n \in ChunkedNames :
              Effect([host |-> h, cookies |-> cookies, g |-> g], n)
    PROVE  ClearInv'
<1>. DEFINE R == [host |-> h, cookies |-> cookies, g |-> g]
<1>1. inflight' = {R}
  BY SingleEmpty DEF ClearInv, Respond
<1>2. jar' = jar /\ applied' = applied
  BY DEF Respond
<1>3. (Prefix /\ ClearRemovesAll)'
  BY <1>2 DEF ClearInv, Prefix, ClearRemovesAll, Present
<1>4. \A n \in ChunkedNames : Effect(R, n)'
  BY <1>2, EffectUnchanged
<1>. QED  BY <1>1, <1>3, <1>4 DEF ClearInv, Single

\* dropCookieWithChunks writes name n at indices 0 .. NChunks - 1, none of
\* them expired, and leaves the other token name alone.
LEMMA DropEffect ==
    ASSUME NEW h, NEW n \in ChunkedNames, NEW v \in TokenValues,
           NEW d \in {0, 1}, NEW m \in Nat \ {0}, NEW x \in ChunkedNames
    PROVE  Effect([host |-> h, cookies |-> ChunkCookies(n, v, d, m),
                   g |-> [KeepAll EXCEPT ![n] = v]], x)
<1>. DEFINE R == [host |-> h, cookies |-> ChunkCookies(n, v, d, m),
                  g |-> [KeepAll EXCEPT ![n] = v]]
<1>1. \A sc \in R.cookies : sc.name = n /\ sc.dur = d
  BY DEF ChunkCookies
<1>2. CASE x = n
  <2>1. R.g[x] = v /\ v # Keep /\ v # Cleared
    BY <1>2, MarkersNotValues DEF KeepAll
  <2>2. ASSUME NEW sc \in Named(R, x), NEW j \in 0..sc.idx
        PROVE  \E sc2 \in Named(R, x) : sc2.idx = j
    <3>1. PICK k \in 0..(NChunks(v.len, m) - 1) :
              sc = [name |-> n, idx |-> k, dur |-> d,
                    chunk |-> [val |-> v, lo |-> k * m, hi |-> Min2((k + 1) * m, v.len)]]
      BY DEF Named, ChunkCookies
    <3>2. j \in 0..(NChunks(v.len, m) - 1)
      <4>1. NChunks(v.len, m) \in Nat
        BY ValuesAssumption, ChunksCover DEF Values
      <4>2. sc.idx = k
        BY <3>1
      <4>. QED  BY <3>1, <4>1, <4>2
    <3>. DEFINE sc2 == [name |-> n, idx |-> j, dur |-> d,
                        chunk |-> [val |-> v, lo |-> j * m, hi |-> Min2((j + 1) * m, v.len)]]
    <3>3. sc2 \in Named(R, x)
      BY <1>2, <3>2 DEF Named, ChunkCookies
    <3>. QED  BY <3>3
  <2>. QED  BY <1>1, <2>1, <2>2 DEF Effect, Named
<1>3. CASE x # n
  <2>1. R.g[x] = Keep
    BY <1>3 DEF KeepAll
  <2>2. Named(R, x) = {}
    BY <1>1, <1>3 DEF Named
  <2>. QED  BY <2>1, <2>2, MarkersDistinct, MarkersNotValues DEF Effect
<1>. HIDE DEF R
<1>. QED  BY <1>2, <1>3

\* writeStateParameterCookie touches neither token name.
LEMMA StateEffect ==
    ASSUME NEW h, NEW sv, NEW uv, NEW x \in ChunkedNames
    PROVE  Effect([host |-> h,
                   cookies |-> {WholeCookie(URIName, uv, 0), WholeCookie(StateName, sv, 0)},
                   g |-> KeepAll], x)
<1>. DEFINE R == [host |-> h,
                  cookies |-> {WholeCookie(URIName, uv, 0), WholeCookie(StateName, sv, 0)},
                  g |-> KeepAll]
<1>. SUFFICES Effect(R, x)
  OBVIOUS
<1>1. R.g[x] = Keep
  BY DEF KeepAll
<1>2. Named(R, x) = {}
  BY NamesDistinct DEF Named, WholeCookie, ChunkedNames
<1>. HIDE DEF R
<1>. QED  BY <1>1, <1>2, MarkersDistinct, MarkersNotValues DEF Effect

\* clear*Cookie for name n clears n as computed on the jar and nothing else.
LEMMA ClearEffect ==
    ASSUME NEW h, NEW n \in ClearedNames, NEW x \in ChunkedNames
    PROVE  Effect([host |-> h, cookies |-> ClearCookies(h, n),
                   g |-> [y \in ChunkedNames |-> IF y = n THEN Cleared ELSE Keep]], x)
<1>1. \A sc \in ClearCookies(h, n) : sc.name = n
  BY DEF ClearCookies
<1>2. Keep # Cleared /\ Keep \notin TokenValues /\ Cleared \notin TokenValues
  BY MarkersDistinct, MarkersNotValues
<1>. QED  BY <1>1, <1>2 DEF Effect, Named

\* clearAllCookies clears each token name as computed on the jar.
LEMMA ClearAllEffect ==
    ASSUME NEW h, NEW x \in ChunkedNames
    PROVE  Effect([host |-> h, cookies |-> UNION {ClearCookies(h, n) : n \in ClearedNames},
                   g |-> [y \in ChunkedNames |-> Cleared]], x)
<1>1. \A n \in ClearedNames : \A sc \in ClearCookies(h, n) : sc.name = n
  BY DEF ClearCookies
<1>2. {sc \in UNION {ClearCookies(h, n) : n \in ClearedNames} : sc.name = x}
        = ClearCookies(h, x)
  BY <1>1 DEF ClearedNames, ChunkedNames
<1>3. Keep # Cleared /\ Cleared \notin TokenValues
  BY MarkersDistinct, MarkersNotValues
<1>. QED  BY <1>2, <1>3 DEF Effect, Named

(* --- The browser applying a response -------------------------------------- *)

\* Applying the one response in flight keeps the jar's runs of indices and
\* empties the jar of every name the response clears.
LEMMA DeliverStep ==
    ASSUME ClearInv, NEW r \in inflight, Deliver(r), TypeOK'
    PROVE  ClearInv'
<1>1. inflight' = {}
  BY DEF ClearInv, Single, Deliver
<1>2. r \in Response /\ r.host \in Hosts /\ cfg \in Configs
  BY DEF ClearInv, TypeOK, Response
<1>3. ASSUME NEW h \in Hosts, NEW n \in ChunkedNames
      PROVE  /\ \A k \in Idx : Present(h, n, k)' => \A j \in 0..k : Present(h, n, j)'
             /\ applied'[h][n] = Cleared => \A k \in Idx : ~Present(h, n, k)'
  <2>1. CASE h # r.host
    <3>1. jar'[h] = jar[h] /\ applied'[h] = applied[h]
      BY <2>1 DEF Deliver
    <3>. QED  BY <3>1 DEF ClearInv, Prefix, ClearRemovesAll, Present
  <2>2. CASE h = r.host
    <3>. DEFINE pick(k) == CHOOSE sc \in r.cookies : sc.name = n /\ sc.idx = k
                written(k) == \E sc \in Named(r, n) : sc.idx = k
    <3>1. \A k \in Idx :
            jar'[h][n][k] = IF written(k) THEN Stored(pick(k)) ELSE jar[h][n][k]
      BY <1>2, <2>2 DEF Deliver, Named, ChunkedNames, Names, ClearInv, TypeOK
    <3>2. applied'[h][n] = IF r.g[n] = Keep THEN applied[h][n] ELSE r.g[n]
      BY <1>2, <2>2 DEF Deliver, ClearInv, TypeOK
    <3>3. \A k \in Idx : written(k) => pick(k) \in Named(r, n) /\ pick(k) \in SetCookie
      BY <1>2 DEF Named, Response
    <3>4. Effect(r, n)
      BY DEF ClearInv
    <3>5. r.g[n] \in TokenValues \cup {Cleared, Keep}
      BY <1>2 DEF Response
    <3>0. \A k \in Idx : \A j \in 0..k : j \in Idx
      BY BoundsAssumption DEF Idx
    <3>. HIDE DEF pick, written
    <3>6. CASE r.g[n] = Keep
      <4>1. \A k \in Idx : ~written(k)
        BY <3>4, <3>6 DEF Effect, written
      <4>2. \A k \in Idx : Present(h, n, k)' <=> Present(h, n, k)
        BY <3>1, <4>1 DEF Present
      <4>. QED  BY <3>0, <3>2, <3>6, <4>2 DEF ClearInv, Prefix, ClearRemovesAll
    <3>7. CASE r.g[n] = Cleared
      <4>1. \A k \in Idx : written(k) => Stored(pick(k)) = Absent
        BY <1>2, <3>3, <3>4, <3>7, StoredCases DEF Effect, ClearCookies
      <4>2. \A k \in Idx : Present(h, n, k) => written(k)
        BY <2>2, <3>4, <3>7, ClearCovers DEF ClearInv, Effect, written
      <4>3. \A k \in Idx : ~Present(h, n, k)'
        BY <3>1, <4>1, <4>2 DEF Present
      <4>. QED  BY <4>3
    <3>8. CASE r.g[n] \in TokenValues
      <4>1. \A k \in Idx : written(k) => Present(h, n, k)'
        <5>. SUFFICES ASSUME NEW k \in Idx, written(k) PROVE Present(h, n, k)'
          OBVIOUS
        <5>1. pick(k).dur \in {0, 1}
          BY <3>3, <3>4, <3>8 DEF Effect
        <5>. QED  BY <1>2, <3>1, <3>3, <5>1, StoredCases DEF Present
      <4>2. \A k \in Idx : written(k) => \A j \in 0..k : written(j)
        <5>. SUFFICES ASSUME NEW k \in Idx, written(k), NEW j \in 0..k PROVE written(j)
          OBVIOUS
        <5>1. PICK sc \in Named(r, n) : sc.idx = k
          BY DEF written
        <5>. QED  BY <3>4, <3>8, <5>1 DEF Effect, written
      <4>3. \A k \in Idx : ~written(k) => (Present(h, n, k)' <=> Present(h, n, k))
        BY <3>1 DEF Present
      <4>5. \A k \in Idx : Present(h, n, k)' => \A j \in 0..k : Present(h, n, j)'
        BY <3>0, <4>1, <4>2, <4>3 DEF ClearInv, Prefix
      <4>6. applied'[h][n] # Cleared
        BY <3>2, <3>8, MarkersDistinct, MarkersNotValues
      <4>. QED  BY <4>5, <4>6
    <3>. QED  BY <3>5, <3>6, <3>7, <3>8
  <2>. QED  BY <2>1, <2>2
<1>. QED  BY <1>1, <1>3 DEF ClearInv, Single, Prefix, ClearRemovesAll

(* --- ClearRemovesAll ------------------------------------------------------ *)

LEMMA ClearStep ==
    ASSUME MaxInflight = 1
    PROVE  ClearInv /\ [Next]_vars => ClearInv'
<1>. SUFFICES ASSUME ClearInv, [Next]_vars PROVE ClearInv'
  OBVIOUS
<1>0. TypeOK'
  BY TypeStep DEF ClearInv
<1>1. ASSUME NEW h \in Hosts, NEW n \in ChunkedNames, NEW v \in TokenValues,
             NEW d \in {0, 1}, DropTokenCookie(h, n, v, d)
      PROVE  ClearInv'
  <2>. DEFINE m == Budget(cfg, n, h)
  <2>1. m \in Nat \ {0}
    BY <1>1, BudgetInt DEF DropTokenCookie, ClearInv, TypeOK, ChunkedNames, Names
  <2>2. \A x \in ChunkedNames :
          Effect([host |-> h, cookies |-> ChunkCookies(n, v, d, m),
                  g |-> [KeepAll EXCEPT ![n] = v]], x)
    BY <2>1, DropEffect
  <2>. QED  BY <1>0, <1>1, <2>2, RespondStep DEF DropTokenCookie
<1>2. ASSUME NEW h \in Hosts, NEW n \in ChunkedNames, NEW v \in TokenValues,
             NEW d \in {0, 1}, DropTokenCookiePanic(h, n, v, d)
      PROVE  ClearInv'
  <2>1. \A r \in inflight, x \in ChunkedNames : Effect(r, x)' <=> Effect(r, x)
    BY <1>2, EffectUnchanged DEF DropTokenCookiePanic
  <2>. QED  BY <1>0, <1>2, <2>1 DEF DropTokenCookiePanic, ClearInv, Single, Prefix,
                                    ClearRemovesAll, Present
<1>3. ASSUME NEW h \in Hosts, NEW sv \in StateValues, NEW uv \in URIValues,
             WriteStateParameterCookie(h, sv, uv)
      PROVE  ClearInv'
  BY <1>0, <1>3, StateEffect, RespondStep DEF WriteStateParameterCookie
<1>4. ASSUME NEW h \in Hosts, NEW n \in ClearedNames, ClearCookie(h, n)
      PROVE  ClearInv'
  BY <1>0, <1>4, ClearEffect, RespondStep DEF ClearCookie
<1>5. ASSUME NEW h \in Hosts, ClearAllCookies(h)
      PROVE  ClearInv'
  BY <1>0, <1>5, ClearAllEffect, RespondStep DEF ClearAllCookies
<1>6. ASSUME NEW r \in inflight, Deliver(r)
      PROVE  ClearInv'
  BY <1>0, <1>6, DeliverStep
<1>7. CASE UNCHANGED vars
  <2>1. \A r \in inflight, x \in ChunkedNames : Effect(r, x)' <=> Effect(r, x)
    BY <1>7, EffectUnchanged DEF vars
  <2>. QED  BY <1>7, <2>1 DEF vars, ClearInv, TypeOK, Single, Prefix,
                              ClearRemovesAll, Present
<1>. QED  BY <1>1, <1>2, <1>3, <1>4, <1>5, <1>6, <1>7 DEF Next

\* ClearRemovesAll for every configuration, host, name length and jar
\* size, when each response is applied before the next one is computed:
\* once clearAccessTokenCookie, clearRefreshTokenCookie or clearAllCookies
\* has been applied, clearDividedCookies has expired every continuation of
\* that name, because the jar holds a name at indices 0..K-1 only and the
\* loop's bound len(req.Cookies()) exceeds K-1.
THEOREM ClearComplete ==
    ASSUME MaxInflight = 1
    PROVE  Spec => []ClearRemovesAll
<1>1. ClearInv => ClearRemovesAll
  BY DEF ClearInv
<1>. QED  BY <1>1, ClearInit, ClearStep, PTL DEF Spec

=============================================================================
