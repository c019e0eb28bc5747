------------------------ MODULE MCIdentityExtraction ------------------------
(***************************************************************************)
(* Model-checking instance of IdentityExtraction.  Every claim the         *)
(* extractor reads is absent, a string, a value of another type, or (for   *)
(* the list-valued ones) a list, empty or not, of strings or of other     *)
(* values.  resource_access has one client or two, so that map iteration  *)
(* order varies.  The realm roles are given per run.                       *)
(***************************************************************************)
EXTENDS IdentityExtraction, TLC

Missing == [t |-> "missing"]
NoKeys == [k \in {} |-> Scalar]

\* The claim map a choice of value per key gives, Missing omitting the key.
ClaimMap(f) == [k \in {k \in DOMAIN f : f[k] # Missing} |-> f[k]]

Strings(x) == {Missing, Str(<<x>>), Scalar}
\* A preferred name may also be the empty string.
Names(x) == Strings(x) \cup {Str(<<>>)}
StringLists(x) ==
    {Missing, Str(<<x>>), Scalar, List(<<>>), List(<<Str(<<x>>)>>), List(<<Scalar>>)}

Admin == Str(<<"admin">>)

\* realm_access: not an object, an object without roles, roles not a
\* list, or a list of none or one of the realm roles R.
Realms(R) ==
    {Missing, Scalar, Obj(NoKeys), Obj("roles" :> Scalar), Obj("roles" :> List(<<>>))}
    \cup {Obj("roles" :> List(<<r>>)) : r \in R}

\* A client's entry in resource_access.
Entries == {Scalar, Obj("roles" :> Scalar), Obj("roles" :> List(<<Admin>>))}
Resources ==
    {Missing, Scalar, Obj(NoKeys)}
    \cup {Obj(<<"app">> :> e) : e \in Entries}
    \cup {Obj((<<"app">> :> Obj("roles" :> List(<<Admin>>)))
              @@ (<<"web">> :> Obj("roles" :> List(<<Str(<<"viewer">>)>>))))}

ClaimSetsFor(R) ==
    {ClaimMap(f) : f \in [sub : Strings("u"), email : Strings("e"),
                          preferred_username : Names("p"),
                          aud : StringLists("a"), groups : StringLists("g"),
                          realm_access : Realms(R), resource_access : Resources]}

\* Realm roles that are strings.
MCClaimSets == ClaimSetsFor({Admin})
\* A realm role list holding a number.
MCClaimSetsNumericRole == ClaimSetsFor({Scalar})
\* A realm role whose name reads like a client role of client "app".
MCClaimSetsColonRole == ClaimSetsFor({Str(<<"app", ":", "admin">>)})

=============================================================================
