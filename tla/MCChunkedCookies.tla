--------------------------- MODULE MCChunkedCookies ---------------------------
(***************************************************************************)
(* Model-checking instance of ChunkedCookies.  The default cookie names    *)
(* (kc-access, kc-state, OAuth_Token_Request_State, request_uri) are      *)
(* model values with their byte lengths.  Token lengths 3000 and 8100 make *)
(* one write fit in a single cookie and the other need two continuations. *)
(* Host "example.com" has 11 bytes; a 4030-byte Host header exhausts the   *)
(* budget of every host-derived configuration.                            *)
(***************************************************************************)
EXTENDS ChunkedCookies, TLC

CONSTANTS a, rf, st, ur

MCNameLen == (a :> 9) @@ (rf :> 8) @@ (st :> 25) @@ (ur :> 11)

MCTokenValues == {[id |-> "tok1", len |-> 3000], [id |-> "tok2", len |-> 8100]}
MCStateValues == {[id |-> "uuid", len |-> 36]}
MCURIValues == {[id |-> "uri", len |-> 40]}
\* base64 of a 3072-byte request URI (a long query string).
MCURIValuesLong == {[id |-> "longuri", len |-> 4096]}

\* Host-derived domain, persistent cookies, every attribute on: the
\* largest overhead; a fixed 11-byte domain with session cookies; the
\* configuration of the spec's budget example (4011 for kc-access).
MCConfigs ==
    {[dom |-> 0, session |-> FALSE, httpOnly |-> TRUE, secure |-> TRUE,
      sameSite |-> "Strict"],
     [dom |-> 11, session |-> TRUE, httpOnly |-> FALSE, secure |-> FALSE,
      sameSite |-> ""],
     [dom |-> 0, session |-> TRUE, httpOnly |-> TRUE, secure |-> TRUE,
      sameSite |-> "Lax"]}

MCHosts == {11, 4030}
MCHostsShort == {11}
MCMaxChunkIndex == 3
MCMaxInflight == 1
MCMaxInflightConcurrent == 2
\* The token cookies, as the upstream proxy filters them.
MCFilterNames == {a, rf}

=============================================================================
