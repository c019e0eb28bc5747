----------------------- MODULE IdentityExtractionProofs -----------------------
(***************************************************************************)
(* Proofs about extractIdentity (IdentityExtraction) for every claim map a *)
(* token may carry and every order of the loop over resource_access.       *)
(***************************************************************************)
EXTENDS IdentityExtraction, TLAPS

(* --- The claim accessors ------------------------------------------------ *)

\* StringClaim's three outcomes: absent, a string, another type.
LEMMA StringClaimCases ==
    ASSUME NEW c, NEW k
    PROVE  /\ k \notin DOMAIN c =>
                 StringClaim(c, k) = [val |-> <<>>, found |-> FALSE, err |-> FALSE]
           /\ k \in DOMAIN c /\ c[k].t = "str" =>
                 StringClaim(c, k) = [val |-> c[k].v, found |-> TRUE, err |-> FALSE]
           /\ k \in DOMAIN c /\ c[k].t # "str" =>
                 StringClaim(c, k) = [val |-> <<>>, found |-> FALSE, err |-> TRUE]
<1>1. k \notin DOMAIN c =>
        StringClaim(c, k) = [val |-> <<>>, found |-> FALSE, err |-> FALSE]
  BY Zenon DEF StringClaim
<1>2. k \in DOMAIN c /\ c[k].t = "str" =>
        StringClaim(c, k) = [val |-> c[k].v, found |-> TRUE, err |-> FALSE]
  BY Zenon DEF StringClaim
<1>3. k \in DOMAIN c /\ c[k].t # "str" =>
        StringClaim(c, k) = [val |-> <<>>, found |-> FALSE, err |-> TRUE]
  BY Zenon DEF StringClaim
<1>. QED  BY <1>1, <1>2, <1>3

\* StringsClaim's three outcomes: absent, a list of strings, anything else.
LEMMA StringsClaimCases ==
    ASSUME NEW c, NEW k
    PROVE  /\ k \notin DOMAIN c =>
                 StringsClaim(c, k) = [val |-> <<>>, found |-> FALSE, err |-> FALSE]
           /\ k \in DOMAIN c /\ StringList(c[k]) =>
                 StringsClaim(c, k) = [val |-> [i \in DOMAIN c[k].v |-> c[k].v[i].v],
                                       found |-> TRUE, err |-> FALSE]
           /\ k \in DOMAIN c /\ ~StringList(c[k]) =>
                 StringsClaim(c, k) = [val |-> <<>>, found |-> FALSE, err |-> TRUE]
<1>1. k \notin DOMAIN c =>
        StringsClaim(c, k) = [val |-> <<>>, found |-> FALSE, err |-> FALSE]
  BY Zenon DEF StringsClaim
<1>2. k \in DOMAIN c /\ StringList(c[k]) =>
        StringsClaim(c, k) = [val |-> [i \in DOMAIN c[k].v |-> c[k].v[i].v],
                              found |-> TRUE, err |-> FALSE]
  BY Zenon DEF StringsClaim, StringList
<1>3. k \in DOMAIN c /\ ~StringList(c[k]) =>
        StringsClaim(c, k) = [val |-> <<>>, found |-> FALSE, err |-> TRUE]
  BY Zenon DEF StringsClaim, StringList
<1>. QED  BY <1>1, <1>2, <1>3

\* jose.Claims' two accessors, read on the audience: the audience is
\* accepted exactly when it is a string or a list of strings.
LEMMA AudiencesOK ==
    ASSUME NEW c
    PROVE  Audiences(c).ok <=> AudienceGiven(c)
<1>. DEFINE s == StringClaim(c, "aud")
            l == StringsClaim(c, "aud")
<1>1. Audiences(c).ok = IF ~s.err /\ s.found THEN TRUE ELSE ~l.err /\ l.found
  BY DEF Audiences
<1>. HIDE DEF s, l
<1>2. CASE "aud" \notin DOMAIN c
  <2>1. s = [val |-> <<>>, found |-> FALSE, err |-> FALSE]
    BY <1>2, StringClaimCases DEF s
  <2>2. l = [val |-> <<>>, found |-> FALSE, err |-> FALSE]
    BY <1>2, StringsClaimCases DEF l
  <2>. QED  BY <1>1, <1>2, <2>1, <2>2 DEF AudienceGiven
<1>3. CASE "aud" \in DOMAIN c /\ c["aud"].t = "str"
  <2>1. s = [val |-> c["aud"].v, found |-> TRUE, err |-> FALSE]
    BY <1>3, StringClaimCases DEF s
  <2>. QED  BY <1>1, <1>3, <2>1 DEF AudienceGiven
<1>4. CASE "aud" \in DOMAIN c /\ c["aud"].t # "str"
  <2>1. s.err
    BY <1>4, StringClaimCases DEF s
  <2>2. ~l.err /\ l.found <=> StringList(c["aud"])
    BY <1>4, StringsClaimCases DEF l
  <2>. QED  BY <1>1, <1>4, <2>1, <2>2 DEF AudienceGiven
<1>. QED  BY <1>2, <1>3, <1>4

\* StringsClaim fails on the groups claim exactly when it is malformed.
LEMMA GroupsError ==
    ASSUME NEW c
    PROVE  StringsClaim(c, "groups").err <=> GroupsMalformed(c)
BY StringsClaimCases DEF GroupsMalformed

(* --- extractIdentity's early returns ------------------------------------- *)

\* For decodable claims with a readable identity, the early returns of
\* extractIdentity come in the order of the code: no audience, then a
\* malformed groups claim; otherwise the userContext is built.
LEMMA ExtractOutcome ==
    ASSUME NEW c, NEW order, c # Undecodable, IdentityOK(c)
    PROVE  LET r == ExtractIdentity(c, order)
           IN  /\ ~AudienceGiven(c) => r.err = "ErrNoTokenAudience"
               /\ AudienceGiven(c) /\ GroupsMalformed(c) => r.err = "groups"
               /\ AudienceGiven(c) /\ ~GroupsMalformed(c) => r.err = "none"
<1>1. Audiences(c).ok <=> AudienceGiven(c)
  BY AudiencesOK
<1>2. StringsClaim(c, "groups").err <=> GroupsMalformed(c)
  BY GroupsError
<1>. HIDE DEF Audiences, StringsClaim, IdentityOK
<1>. QED  BY <1>1, <1>2 DEF ExtractIdentity

\* The userContext extractIdentity builds when every check passes.
LEMMA ExtractSuccess ==
    ASSUME NEW c, NEW order, ExtractIdentity(c, order).err = "none"
    PROVE  LET r == ExtractIdentity(c, order)
           IN  /\ Audiences(c).ok
               /\ ~StringsClaim(c, "groups").err
               /\ r.name = PreferredName(c)
               /\ r.audiences = Audiences(c).val
               /\ r.groups = StringsClaim(c, "groups").val
<1>. HIDE DEF Audiences, StringsClaim, IdentityOK, PreferredName, StringClaim,
              RealmRoles, ClientRoles
<1>. QED  BY DEF ExtractIdentity

(* --- The userContext's profile ------------------------------------------- *)

\* The display name: preferred_username when it is a string, else the
\* email's text (empty when the email is absent).
LEMMA NameChoice ==
    ASSUME NEW c
    PROVE  PreferredName(c) =
             IF StringGiven(c, "preferred_username")
             THEN ClaimText(c, "preferred_username") ELSE ClaimText(c, "email")
<1>. DEFINE p == StringClaim(c, "preferred_username")
            e == StringClaim(c, "email")
<1>1. PreferredName(c) = IF p.err \/ ~p.found THEN e.val ELSE p.val
  BY DEF PreferredName
<1>2. e.val = ClaimText(c, "email")
  BY StringClaimCases DEF e, ClaimText, StringGiven
<1>3. StringGiven(c, "preferred_username") =>
        p.val = ClaimText(c, "preferred_username") /\ ~p.err /\ p.found
  BY StringClaimCases DEF p, ClaimText, StringGiven
<1>4. ~StringGiven(c, "preferred_username") => p.err \/ ~p.found
  BY StringClaimCases DEF p, StringGiven
<1>. HIDE DEF p, e
<1>. QED  BY <1>1, <1>2, <1>3, <1>4

\* isAudience over the audiences extractIdentity keeps: a string "aud" as
\* a one-element list, a list of strings member by member.
LEMMA AudienceMembers ==
    ASSUME NEW c, Audiences(c).ok, NEW a
    PROVE  (\E i \in DOMAIN Audiences(c).val : Audiences(c).val[i] = a)
             <=> a \in AudienceTexts(c)
<1>. DEFINE s == StringClaim(c, "aud")
            l == StringsClaim(c, "aud")
<1>1. Audiences(c) = IF ~s.err /\ s.found THEN [ok |-> TRUE, val |-> <<s.val>>]
                     ELSE [ok |-> ~l.err /\ l.found, val |-> l.val]
  BY DEF Audiences
<1>. HIDE DEF s, l
<1>2. "aud" \in DOMAIN c /\ (c["aud"].t = "str" \/ StringList(c["aud"]))
  BY AudiencesOK DEF AudienceGiven
<1>3. CASE c["aud"].t = "str"
  <2>1. s = [val |-> c["aud"].v, found |-> TRUE, err |-> FALSE]
    BY <1>2, <1>3, StringClaimCases DEF s
  <2>2. Audiences(c).val = <<c["aud"].v>>
    BY <1>1, <2>1
  <2>. QED  BY <1>3, <2>2 DEF AudienceTexts
<1>4. CASE c["aud"].t # "str"
  <2>1. s.err
    BY <1>2, <1>4, StringClaimCases DEF s
  <2>2. l = [val |-> [i \in DOMAIN c["aud"].v |-> c["aud"].v[i].v],
             found |-> TRUE, err |-> FALSE]
    BY <1>2, <1>4, StringsClaimCases DEF l
  <2>3. Audiences(c).val = [i \in DOMAIN c["aud"].v |-> c["aud"].v[i].v]
    BY <1>1, <2>1, <2>2
  <2>4. AudienceTexts(c) = {c["aud"].v[i].v : i \in DOMAIN c["aud"].v}
    BY <1>2, <1>4 DEF AudienceTexts, Texts, StringList
  <2>. QED  BY <2>3, <2>4
<1>. QED  BY <1>3, <1>4

\* The groups extractIdentity keeps when the claim is well formed: none
\* when it is absent, the texts of its list otherwise.
LEMMA GroupMembers ==
    ASSUME NEW c, ~StringsClaim(c, "groups").err
    PROVE  ToSet(StringsClaim(c, "groups").val) =
             IF "groups" \in DOMAIN c THEN Texts(c["groups"]) ELSE {}
<1>1. CASE "groups" \notin DOMAIN c
  <2>1. StringsClaim(c, "groups").val = <<>>
    BY <1>1, StringsClaimCases
  <2>. QED  BY <1>1, <2>1 DEF ToSet
<1>2. CASE "groups" \in DOMAIN c
  <2>1. StringList(c["groups"])
    BY <1>2, StringsClaimCases
  <2>2. StringsClaim(c, "groups").val =
          [i \in DOMAIN c["groups"].v |-> c["groups"].v[i].v]
    BY <1>2, <2>1, StringsClaimCases
  <2>. QED  BY <1>2, <2>1, <2>2 DEF ToSet, Texts, StringList
<1>. QED  BY <1>1, <1>2

(* --- The extractor's result ---------------------------------------------- *)

\* Inductive invariant: the result is pending, or it is what
\* extractIdentity returns on the token's claims for some order of the
\* loop over resource_access.
IdInv ==
    result = Pending \/ \E order \in AccessOrders(claims) : result = ExtractIdentity(claims, order)

\* extractIdentity has not run in the initial state.
LEMMA IdInit == Init => IdInv
BY DEF Init, IdInv

\* The one call of extractIdentity, and stuttering, keep the invariant.
LEMMA IdStep == IdInv /\ [Next]_vars => IdInv'
<1>. SUFFICES ASSUME IdInv, [Next]_vars PROVE IdInv'
  OBVIOUS
<1>1. CASE Extract
  BY <1>1 DEF Extract, IdInv
<1>2. CASE UNCHANGED vars
  BY <1>2 DEF vars, IdInv
<1>. QED  BY <1>1, <1>2 DEF Next

\* FailureTaxonomy (spec 4.4 and 7(b)) for every claim map: extractIdentity
\* fails with ErrNoTokenAudience exactly when no audience is given, and
\* succeeds exactly when one is and the groups claim is well formed.
THEOREM Taxonomy == Spec => []FailureTaxonomy
<1>1. IdInv => FailureTaxonomy
  <2>. SUFFICES ASSUME IdInv, result # Pending, claims # Undecodable, IdentityOK(claims)
                PROVE  /\ result.err = "ErrNoTokenAudience" <=> ~AudienceGiven(claims)
                       /\ result.err = "none" <=>
                             AudienceGiven(claims) /\ ~GroupsMalformed(claims)
    BY DEF FailureTaxonomy
  <2>1. PICK order \in AccessOrders(claims) : result = ExtractIdentity(claims, order)
    BY DEF IdInv
  <2>. QED  BY <2>1, ExtractOutcome
<1>. QED  BY <1>1, IdInit, IdStep, PTL DEF Spec

\* ProfileFromClaims (spec 3, 4.4 and 56) for every claim map and every
\* order of the resource_access loop: the display name falls back to the
\* email only when preferred_username is absent or no string, isAudience
\* holds for exactly the audiences the token names, and the groups are
\* those of the groups claim.
THEOREM Profile == Spec => []ProfileFromClaims
<1>1. IdInv => ProfileFromClaims
  <2>. SUFFICES ASSUME IdInv, result # Pending, result.err = "none"
                PROVE  ProfileFromClaims
    BY DEF ProfileFromClaims
  <2>1. PICK order \in AccessOrders(claims) : result = ExtractIdentity(claims, order)
    BY DEF IdInv
  <2>2. /\ Audiences(claims).ok
        /\ ~StringsClaim(claims, "groups").err
        /\ result.name = PreferredName(claims)
        /\ result.audiences = Audiences(claims).val
        /\ result.groups = StringsClaim(claims, "groups").val
    BY <2>1, ExtractSuccess
  <2>3. result.name = IF StringGiven(claims, "preferred_username")
                      THEN ClaimText(claims, "preferred_username")
                      ELSE ClaimText(claims, "email")
    BY <2>2, NameChoice
  <2>4. \A a \in AudienceTexts(claims) \cup {Stranger} :
          IsAudience(result, a) <=> a \in AudienceTexts(claims)
    BY <2>2, AudienceMembers DEF IsAudience
  <2>5. ToSet(result.groups) =
          IF "groups" \in DOMAIN claims THEN Texts(claims["groups"]) ELSE {}
    BY <2>2, GroupMembers
  <2>. QED  BY <2>3, <2>4, <2>5 DEF ProfileFromClaims
<1>. QED  BY <1>1, IdInit, IdStep, PTL DEF Spec

=============================================================================
