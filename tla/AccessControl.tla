--------------------------- MODULE AccessControl ---------------------------
(***************************************************************************)
(* Who may see which view of a passport: the optional authentication of    *)
(* packages/shared/src/middleware/auth.ts and the roles of                 *)
(* middleware/rbac.ts.  A caller is the token it presents: the set of      *)
(* roles the identity provider put in it, and whether it still verifies.   *)
(***************************************************************************)
CONSTANTS Roles

Levels == {"PUBLIC", "LEGIT_INTEREST", "AUTHORITY"}

\* No token, or one that does not verify (expired, wrong issuer, audience or key),
\* leaves the request without a user; extractRoles merges realm and client roles.
NoUser == [known |-> FALSE, roles |-> {}]
OptionalAuth(token) ==
  IF token.valid THEN [known |-> TRUE, roles |-> token.realm \cup token.client] ELSE NoUser

DppViewRoles(level) ==
  CASE level = "PUBLIC" -> {}
    [] level = "LEGIT_INTEREST" -> {"auditor", "authority", "brand"}
    [] level = "AUTHORITY" -> {"authority"}

RoleHierarchy(role) == IF role = "authority" THEN {"auditor", "brand"} ELSE {}

GetEffectiveRoles(roles) == roles \cup UNION {RoleHierarchy(r) : r \in roles}

HasAnyRole(user, required) ==
  required = {} \/ (user.known /\ GetEffectiveRoles(user.roles) \cap required # {})

\* The preHandler of the two guarded routes; the third has none.
RequireDppViewAccess(user, level) ==
  level = "PUBLIC" \/ (user.known /\ HasAnyRole(user, DppViewRoles(level)))

=============================================================================
