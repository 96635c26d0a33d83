------------------------------- MODULE Access --------------------------------
(***************************************************************************)
(* Who may see which page: the rules of src/frontend/src/core/permissions.ts *)
(* and src/frontend/src/core/domain/store.ts, and the sidebar's filter.    *)
(* A path is the sequence of its segments; a user is a record with the     *)
(* fields role, tool (is there a tool_install_id) and eff, the set of      *)
(* effective_allowed_pages or None; a configuration of the domain is None  *)
(* until the first answer.                                                 *)
(***************************************************************************)
EXTENDS Naturals, Sequences, SequencesExt

CONSTANT None

Roles == {"super_admin", "admin", "user"}

ADMIN_BUILTIN_PATHS == {<<"admin", "users">>, <<"admin", "roles">>}
ALWAYS_ALLOWED_PATHS == {<<"account">>}

\* path === p or path.startsWith(p + "/").
matchesAny(allowed, path) == \E p \in allowed : IsPrefix(p, path)

isAnyAdmin(u) == u # None /\ u.role \in {"super_admin", "admin"}
isSuperAdmin(u) == u # None /\ u.role = "super_admin"

\* The domain's list, open until it is known.
isPageAllowed(c, path) ==
  c # None => /\ c.status # "disabled"
              /\ c.allow_all_pages \/ matchesAny(ToSet(c.allowed_pages), path)

userCanSeePath(u, path, c) ==
  \/ matchesAny(ALWAYS_ALLOWED_PATHS, path)
  \/ u = None /\ isPageAllowed(c, path)
  \/ /\ u # None
     /\ \/ u.role = "super_admin"
        \/ u.role = "admin" /\ matchesAny(ADMIN_BUILTIN_PATHS, path)
        \/ IF u.eff = None THEN isPageAllowed(c, path) ELSE matchesAny(u.eff, path)

\* Admins pass every check of a feature.
userHasFeature(u, f) == u # None /\ (isAnyAdmin(u) \/ f \in u.features)

LANDING_PREFERENCE ==
  << <<"dashboard">>, <<"gateway", "dashboard">>, <<"gateway">>, <<"jobs">>,
     <<"profiles">>, <<"api-keys">>, <<"flow">>, <<"billing">> >>

\* The first preferred page in an allowed subtree, else the first allowed one.
firstAllowedPath(c) ==
  IF c = None \/ c.allow_all_pages \/ c.allowed_pages = <<>> THEN <<"dashboard">>
  ELSE LET liked == {i \in DOMAIN LANDING_PREFERENCE :
                       matchesAny(ToSet(c.allowed_pages), LANDING_PREFERENCE[i])}
       IN IF liked # {} THEN LANDING_PREFERENCE[Min(liked)] ELSE Head(c.allowed_pages)

\* What the domain's configuration may be; pages are paths.
DomainConfig ==
  [status : STRING, allow_landing : BOOLEAN, allow_register : BOOLEAN, allow_login : BOOLEAN,
   allow_all_pages : BOOLEAN, allowed_pages : Seq(Seq(STRING)), maintenance : BOOLEAN]

\* The configuration that a failed load leaves.
DEFAULT == [status |-> "active", allow_landing |-> TRUE, allow_register |-> TRUE,
            allow_login |-> TRUE, allow_all_pages |-> TRUE, allowed_pages |-> <<>>,
            maintenance |-> FALSE]

effectiveMaintenance(c) == c # None /\ c.maintenance

isToolUser(u) == u # None /\ u.tool /\ u.role = "user"

-----------------------------------------------------------------------------
\* The sidebar.  A leaf has the flags of its groups and its own.
canSeeLeaf(u, n, c) ==
  /\ "super" \in n.only => isSuperAdmin(u)
  /\ "admin" \in n.only => isAnyAdmin(u)
  /\ n.feature # None => userHasFeature(u, n.feature)
  /\ userCanSeePath(u, n.to, c)

Leaf(path, only) == [to |-> path, only |-> only, feature |-> None]

\* The entries of the admin module that differ in what they ask for.
NAV == { Leaf(<<"dashboard">>, {}),
         Leaf(<<"gallery", "images">>, {"admin"}),
         Leaf(<<"admin", "users">>, {"admin"}),
         Leaf(<<"admin", "domains">>, {"admin", "super"}),
         Leaf(<<"admin", "plans">>, {"super"}),
         [to |-> <<"audit-logs">>, only |-> {"admin"}, feature |-> "ui_audit_log"] }

visibleNav(u, c) == {n.to : n \in {m \in NAV : canSeeLeaf(u, m, c)}}
=============================================================================
