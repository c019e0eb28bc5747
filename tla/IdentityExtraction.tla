--------------------------- MODULE IdentityExtraction ---------------------------
(***************************************************************************)
(* extractIdentity (src/forwarding.go): the claims of a validated token    *)
(* turned into a userContext.  The token's claim set is a jose.Claims, a   *)
(* map from claim names to decoded JSON values; it is chosen in the        *)
(* initial state, and one step runs the extraction on it.                  *)
(*                                                                         *)
(* A JSON value is a tagged record: a string (its text as a sequence of    *)
(* atoms, so that "%s:%s" is concatenation), a list, an object (a function *)
(* from its keys), or a value of another type (number, boolean, null),     *)
(* which every branch of the code treats alike.  The claims of             *)
(* oidc.IdentityFromClaims are kept to "sub" and "email"; "exp" fails or   *)
(* passes the same way and is left out with the expiry it carries.         *)
(***************************************************************************)
EXTENDS Sequences, FiniteSets, SequencesExt

CONSTANT ClaimSets   \* the decoded claim maps a token may carry

Str(s) == [t |-> "str", v |-> s]
List(s) == [t |-> "list", v |-> s]
Obj(f) == [t |-> "obj", v |-> f]
Scalar == [t |-> "num"]            \* a number, a boolean or null

Undecodable == [payload |-> "not json"]   \* token.Claims() fails
Pending == [err |-> "pending"]            \* extractIdentity not yet run

VARIABLES
    claims,   \* the token's claims
    result    \* what extractIdentity returned

vars == <<claims, result>>

(* --- jose.Claims accessors (go-oidc) ------------------------------------- *)

\* StringClaim(k): ("", false, nil) when absent, the text of a string,
\* an error for any other type.
StringClaim(c, k) ==
    IF k \notin DOMAIN c THEN [val |-> <<>>, found |-> FALSE, err |-> FALSE]
    ELSE IF c[k].t = "str" THEN [val |-> c[k].v, found |-> TRUE, err |-> FALSE]
    ELSE [val |-> <<>>, found |-> FALSE, err |-> TRUE]

\* StringsClaim(k): (nil, false, nil) when absent, the texts of a list of
\* strings, an error for a list holding another type or for a non-list.
StringsClaim(c, k) ==
    IF k \notin DOMAIN c THEN [val |-> <<>>, found |-> FALSE, err |-> FALSE]
    ELSE IF c[k].t = "list" /\ \A i \in DOMAIN c[k].v : c[k].v[i].t = "str"
    THEN [val |-> [i \in DOMAIN c[k].v |-> c[k].v[i].v], found |-> TRUE, err |-> FALSE]
    ELSE [val |-> <<>>, found |-> FALSE, err |-> TRUE]

\* oidc.IdentityFromClaims: "sub" must be a string, "email" a string if
\* present.
IdentityOK(c) ==
    /\ StringClaim(c, "sub").found
    /\ ~StringClaim(c, "sub").err
    /\ ~StringClaim(c, "email").err

(* --- extractIdentity ------------------------------------------------------ *)

\* fmt.Sprintf("%s", r): the text of a string; Go's "%!s(...)" for others.
Sprint(r) == IF r.t = "str" THEN r.v ELSE <<"%!s(", r.t, ")">>

\* The members of an object's "roles" list, or nothing when the value is
\* not an object, has no "roles" key, or its roles are not a list.
RolesOf(o) ==
    IF o.t = "obj" /\ "roles" \in DOMAIN o.v /\ o.v["roles"].t = "list"
    THEN o.v["roles"].v ELSE <<>>

\* claims["realm_access"]["roles"], each member formatted with %s.
RealmRoles(c) ==
    IF "realm_access" \in DOMAIN c
    THEN LET rs == RolesOf(c["realm_access"])
         IN  [i \in DOMAIN rs |-> Sprint(rs[i])]
    ELSE <<>>

\* Mutant: client roles appended without the client name.
ClientRolesUnqualified(c, order) ==
    LET acc == c["resource_access"].v
        one(n) == LET rs == RolesOf(acc[n]) IN [i \in DOMAIN rs |-> Sprint(rs[i])]
    IN  FlattenSeq([j \in DOMAIN order |-> one(order[j])])

\* The loop over claims["resource_access"], its clients visited in the map
\* iteration order `order`: "name:role" for each member of the roles list
\* of each client whose value is an object.
ClientRoles(c, order) ==
    LET acc == c["resource_access"].v
        one(n) == LET rs == RolesOf(acc[n])
                  IN  [i \in DOMAIN rs |-> n \o <<":">> \o Sprint(rs[i])]
    IN  FlattenSeq([j \in DOMAIN order |-> one(order[j])])

\* The orders in which ranging over resource_access may visit its keys.
AccessOrders(c) ==
    IF "resource_access" \in DOMAIN c /\ c["resource_access"].t = "obj"
    THEN SetToSeqs(DOMAIN c["resource_access"].v)
    ELSE {<<>>}

\* Mutant: no fallback to the email.
PreferredNameNoFallback(c) == StringClaim(c, "preferred_username").val

\* preferred_username, or identity.Email when it is absent or no string.
PreferredName(c) ==
    LET p == StringClaim(c, "preferred_username")
    IN  IF p.err \/ ~p.found THEN StringClaim(c, "email").val ELSE p.val

\* Mutant: only the list form of "aud" is accepted.
AudiencesListOnly(c) ==
    LET l == StringsClaim(c, "aud")
    IN  [ok |-> ~l.err /\ l.found, val |-> l.val]

\* A string "aud" as a one-element list, else the list form; ok is FALSE
\* when neither is there (ErrNoTokenAudience).
Audiences(c) ==
    LET s == StringClaim(c, "aud")
        l == StringsClaim(c, "aud")
    IN  IF ~s.err /\ s.found THEN [ok |-> TRUE, val |-> <<s.val>>]
        ELSE [ok |-> ~l.err /\ l.found, val |-> l.val]

\* extractIdentity(token), the clients of resource_access visited in the
\* order `order`: the early returns in the order of the code, then the
\* userContext; the code returns at the first check that fails.
ExtractIdentity(c, order) ==
    IF c = Undecodable THEN [err |-> "claims"]
    ELSE IF ~IdentityOK(c) THEN [err |-> "identity"]
    ELSE IF ~Audiences(c).ok THEN [err |-> "ErrNoTokenAudience"]
    ELSE IF StringsClaim(c, "groups").err THEN [err |-> "groups"]
    ELSE   [err |-> "none",
            id |-> StringClaim(c, "sub").val,
            email |-> StringClaim(c, "email").val,
            name |-> PreferredName(c),
            audiences |-> Audiences(c).val,
            roles |-> RealmRoles(c) \o ClientRoles(c, order),
            groups |-> StringsClaim(c, "groups").val]

\* userContext.isAudience(aud): containsString(aud, r.audiences).
IsAudience(u, aud) == \E i \in DOMAIN u.audiences : u.audiences[i] = aud

Init ==
    /\ claims \in ClaimSets \cup {Undecodable}
    /\ result = Pending

\* The handler's call of extractIdentity on its token.
Extract ==
    /\ result = Pending
    /\ \E order \in AccessOrders(claims) :
          result' = ExtractIdentity(claims, order)
    /\ UNCHANGED claims

Next == Extract

Spec == Init /\ [][Next]_vars

-----------------------------------------------------------------------------
(* --- Properties, stated from the spec's description of the extractor ----- *)

\* A JSON value is a list of strings.
StringList(x) == x.t = "list" /\ \A i \in DOMAIN x.v : x.v[i].t = "str"
\* The texts of the string members of a list.
Texts(x) == {x.v[i].v : i \in {i \in DOMAIN x.v : x.v[i].t = "str"}}

\* The token names an audience as a single string or a string list.
AudienceGiven(c) ==
    "aud" \in DOMAIN c /\ (c["aud"].t = "str" \/ StringList(c["aud"]))
\* The groups claim is there and is no string list.
GroupsMalformed(c) == "groups" \in DOMAIN c /\ ~StringList(c["groups"])

\* Spec 4.4 and 7(b), for a token whose subject is readable: extraction
\* fails with NoTokenAudience exactly when no audience is given in either
\* form; with an audience it fails exactly when the groups claim is
\* malformed; the role claims, however shaped, never make it fail.
FailureTaxonomy ==
    result # Pending /\ claims # Undecodable /\ IdentityOK(claims) =>
        /\ result.err = "ErrNoTokenAudience" <=> ~AudienceGiven(claims)
        /\ result.err = "none" <=> AudienceGiven(claims) /\ ~GroupsMalformed(claims)

\* The texts of the string members of the "roles" list of a claim object.
ListedRoles(o) ==
    IF o.t = "obj" /\ "roles" \in DOMAIN o.v /\ o.v["roles"].t = "list"
    THEN Texts(o.v["roles"]) ELSE {}

\* The resource_access object's clients, or none.
AccessClients(c) ==
    IF "resource_access" \in DOMAIN c /\ c["resource_access"].t = "obj"
    THEN c["resource_access"].v ELSE <<>>

\* The roles spec 3 and 4.4 give a token: its realm roles unqualified, and
\* "client:role" for each role a client of resource_access lists.
ExpectedRoles(c) ==
    LET acc == AccessClients(c)
    IN  (IF "realm_access" \in DOMAIN c THEN ListedRoles(c["realm_access"]) ELSE {})
        \cup UNION {{n \o <<":">> \o r : r \in ListedRoles(acc[n])} : n \in DOMAIN acc}

\* Spec 3 and 4.4: an extracted identity holds exactly the realm roles and
\* the client-qualified roles of its token, in whichever order the loop
\* over resource_access ran; malformed role claims add no role.
RolesFromClaims ==
    result # Pending /\ result.err = "none" =>
        ToSet(result.roles) = ExpectedRoles(claims)

\* The claim k is there and is a string (possibly the empty one).
StringGiven(c, k) == k \in DOMAIN c /\ c[k].t = "str"
\* The text of a string claim, or the empty text.
ClaimText(c, k) == IF StringGiven(c, k) THEN c[k].v ELSE <<>>
\* The audiences a token names, as one string or a list of strings.
AudienceTexts(c) == IF c["aud"].t = "str" THEN {c["aud"].v} ELSE Texts(c["aud"])
Stranger == <<"another-client">>  \* an audience no token of the model names

\* Spec 3 and 4.4: the display name is the preferred name when the claim
\* is a string, even an empty one, and the email on its absence or error
\* (a claim of another type); isAudience holds for exactly the audiences the
\* token names; the groups are those of the groups claim.
ProfileFromClaims ==
    result # Pending /\ result.err = "none" =>
        /\ result.name = IF StringGiven(claims, "preferred_username")
                         THEN ClaimText(claims, "preferred_username")
                         ELSE ClaimText(claims, "email")
        /\ \A a \in AudienceTexts(claims) \cup {Stranger} :
              IsAudience(result, a) <=> a \in AudienceTexts(claims)
        /\ ToSet(result.groups) =
              IF "groups" \in DOMAIN claims THEN Texts(claims["groups"]) ELSE {}

\* A role "client:role" of the identity (split at its first colon) is one
\* the client grants in resource_access: an authorization rule on a client
\* role cannot be met by a realm role of the same text.
ClientRoleGranted ==
    result # Pending /\ result.err = "none" =>
        \A s \in ToSet(result.roles) : \A i \in 1..Len(s) :
            s[i] = ":" /\ (\A j \in 1..(i - 1) : s[j] # ":") =>
                LET n == SubSeq(s, 1, i - 1)
                    acc == AccessClients(claims)
                IN  n \in DOMAIN acc /\ SubSeq(s, i + 1, Len(s)) \in ListedRoles(acc[n])

=============================================================================
