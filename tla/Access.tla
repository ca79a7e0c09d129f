------------------------------- MODULE Access -------------------------------
(* Authorization: roles, privileges and content selectors as administrators edit
   them (handlers/roles.go, privileges.go, content_selectors.go and their tables),
   the decision for a request (RBACMiddleware, CanAccessRepo) and the filters of
   the listings (rbac_service.go).

   Data: a path is the sequence of its segments, a selector the repository and
   the path prefix of its expression, each possibly absent. *)
EXTENDS Naturals, Sequences, SequencesExt, FiniteSets

CONSTANTS Roles, Privileges, Selectors,
          Repos,        \* repository -> [oci |-> , anonymous |-> ]
          Expressions,  \* the expressions selectors may have
          ActionSets,   \* the action sets privileges may have ({}: all)
          Images,       \* image names, sequences of segments
          AnonymousEnabled,
          None

VARIABLES role,      \* role -> its privileges, or None
          held,      \* the roles of the user
          priv,      \* privilege -> [actions, selector], or None
          selector   \* selector -> its expression, or None

vars == <<role, held, priv, selector>>

Actions == {"read", "browse", "write", "delete"}
Keywords == {"manifests", "blobs", "tags"}

TypeOK ==
  /\ \A r \in Roles : role[r] = None \/ role[r] \subseteq {p \in Privileges : priv[p] # None}
  /\ held \subseteq {r \in Roles : role[r] # None}
  /\ \A p \in Privileges : priv[p] = None \/
       (priv[p].actions \in ActionSets /\ (priv[p].selector = None \/ selector[priv[p].selector] # None))
  /\ selector \in [Selectors -> Expressions \cup {None}]

Init ==
  /\ role = [r \in Roles |-> None] /\ held = {}
  /\ priv = [p \in Privileges |-> None] /\ selector = [s \in Selectors |-> None]

(* The administrator.  A reference to a row that is not there is refused by its
   foreign key, and a name in use by its unique index. *)
Known(ps) == \A p \in ps : priv[p] # None
\* The row, then the privileges in a transaction of their own.
CreateRole(r, ps) ==
  /\ role[r] = None /\ role' = [role EXCEPT ![r] = IF Known(ps) THEN ps ELSE {}]
  /\ UNCHANGED <<held, priv, selector>>
SetPrivileges(r, ps) ==
  /\ role[r] # None /\ Known(ps) /\ role' = [role EXCEPT ![r] = ps]
  /\ UNCHANGED <<held, priv, selector>>
DeleteRole(r) ==
  /\ role[r] # None /\ role' = [role EXCEPT ![r] = None] /\ held' = held \ {r}
  /\ UNCHANGED <<priv, selector>>
SetUserRoles(rs) ==
  /\ \A r \in rs : role[r] # None
  /\ held' = rs /\ UNCHANGED <<role, priv, selector>>
WritePrivilege(p, as, s) ==              \* Create and Update; the actions may be absent
  /\ s # None => selector[s] # None
  /\ priv' = [priv EXCEPT ![p] = [actions |-> as, selector |-> s]]
  /\ UNCHANGED <<role, held, selector>>
DeletePrivilege(p) ==
  /\ priv[p] # None /\ priv' = [priv EXCEPT ![p] = None]
  /\ role' = [r \in Roles |-> IF role[r] = None THEN None ELSE role[r] \ {p}]
  /\ UNCHANGED <<held, selector>>
AttachToPrivilege(p, s) ==
  /\ priv[p] # None /\ selector[s] # None /\ priv' = [priv EXCEPT ![p].selector = s]
  /\ UNCHANGED <<role, held, selector>>
DetachFromPrivilege(p) ==
  /\ priv[p] # None /\ priv' = [priv EXCEPT ![p].selector = None]
  /\ UNCHANGED <<role, held, selector>>
WriteSelector(s, x) ==                   \* Create and Update, the expression compiled first
  /\ selector' = [selector EXCEPT ![s] = x] /\ UNCHANGED <<role, held, priv>>
DeleteSelector(s) ==                     \* ON DELETE SET NULL
  /\ selector[s] # None /\ selector' = [selector EXCEPT ![s] = None]
  /\ priv' = [p \in Privileges |-> IF priv[p] # None /\ priv[p].selector = s
                                   THEN [priv[p] EXCEPT !.selector = None] ELSE priv[p]]
  /\ UNCHANGED <<role, held>>

Withdraw == \/ \E r \in Roles : DeleteRole(r)
            \/ \E p \in Privileges : DeletePrivilege(p) \/ DetachFromPrivilege(p)
            \/ \E s \in Selectors : DeleteSelector(s)
Next ==
  \/ \E r \in Roles, ps \in SUBSET Privileges : CreateRole(r, ps) \/ SetPrivileges(r, ps)
  \/ \E rs \in SUBSET Roles : SetUserRoles(rs)
  \/ \E p \in Privileges, as \in ActionSets, s \in Selectors \cup {None} : WritePrivilege(p, as, s)
  \/ \E p \in Privileges, s \in Selectors : AttachToPrivilege(p, s)
  \/ \E s \in Selectors, x \in Expressions : WriteSelector(s, x)
  \/ Withdraw
Spec == Init /\ [][Next]_vars
----------------------------------------------------------------------------
(* The decision. *)
\* Fault: the selectors are joined from the left, so a privilege without one
\* arrives with no restriction.
Fault_LeftJoin ==
  {[actions |-> priv[p].actions,
    expr |-> IF priv[p].selector = None THEN [repo |-> None, prefix |-> <<>>] ELSE selector[priv[p].selector]] :
     p \in UNION {role[r] : r \in held}}

GetUserPrivilegesWithSelectors ==
  {[actions |-> priv[p].actions, expr |-> selector[priv[p].selector]] :
     p \in {q \in UNION {role[r] : r \in held} : priv[q].selector # None}}
actionAllowed(as, action) == as = {} \/ action \in as
evalRepoClause(x, repo) == x.repo = None \/ x.repo = repo
evalCEL(x, repo, path) == evalRepoClause(x, repo) /\ (x.prefix = None \/ IsPrefix(x.prefix, path))
matchPrivileges(repo, path, action) ==
  \E p \in GetUserPrivilegesWithSelectors : actionAllowed(p.actions, action) /\ evalCEL(p.expr, repo, path)
anonymousAllowed(repo) == AnonymousEnabled /\ Repos[repo].anonymous

\* Fault: the first keyword of the path separates the image from the reference.
Fault_FirstKeyword(path) ==
  LET at == {i \in 1..Len(path) - 1 : path[i] \in Keywords}
      first == CHOOSE i \in at : \A j \in at : i <= j
  IN  IF at = {} THEN path
      ELSE IF first > 1 THEN SubSeq(path, 1, first - 1)
      ELSE IF path[1] # "tags" /\ Len(path) > 2 THEN SubSeq(path, 2, Len(path) - 1) ELSE path

\* assetSamplePath: <image>/<keyword>/<ref> of a request and <keyword>/<image>/<ref>
\* of the table, told apart by the place of the last keyword; to the image.
assetSamplePath(path) ==
  LET at == {i \in 1..Len(path) - 1 : path[i] \in Keywords}
      lastKw == CHOOSE i \in at : \A j \in at : i >= j
  IN  IF at = {} THEN path
      ELSE IF lastKw > 1 THEN SubSeq(path, 1, lastKw - 1)
      ELSE IF path[1] # "tags" /\ Len(path) > 2 THEN SubSeq(path, 2, Len(path) - 1) ELSE path

CanAccessRepo(repo, path, action) ==
  \/ anonymousAllowed(repo) /\ action \in {"read", "browse"}
  \/ matchPrivileges(repo, IF Repos[repo].oci THEN assetSamplePath(path) ELSE path, action)
methodToAction == [PUT |-> "write", POST |-> "write", PATCH |-> "write", DELETE |-> "delete", GET |-> "read"]
RBACMiddleware(repo, path, method) == repo \in DOMAIN Repos /\ CanAccessRepo(repo, path, methodToAction[method])

(* The listings. *)
matchPrivilegesRepoOnly(repo) ==
  \E p \in GetUserPrivilegesWithSelectors : actionAllowed(p.actions, "read") /\ evalRepoClause(p.expr, repo)
FilterRepos == {repo \in DOMAIN Repos : anonymousAllowed(repo) \/ matchPrivilegesRepoOnly(repo)}
FilterPaths(repo, paths) == {p \in paths : anonymousAllowed(repo) \/ matchPrivileges(repo, p, "browse")}
FilterOCIImageNames(repo) == {n \in Images : anonymousAllowed(repo) \/ matchPrivileges(repo, n, "browse")}
FilterComponents(repo, names) == {n \in names : anonymousAllowed(repo) \/ matchPrivileges(repo, n, "browse")}
FilterAssets(repo, paths) == {p \in paths : anonymousAllowed(repo) \/ matchPrivileges(repo, assetSamplePath(p), "browse")}
\* Every row of an image is shown when one of them may be.
FilterDockerRows(repo, rows) == {r \in rows : \E q \in rows : q.image = r.image /\ FilterAssets(repo, {q.path}) # {}}
DockerCatalog == {<<repo, n>> \in {r \in FilterRepos : Repos[r].oci} \X Images : n \in FilterOCIImageNames(repo)}

Live(n) == {n \o <<kw, "ref">> : kw \in {"manifests", "blobs"}}
Stored(n) == {<<kw>> \o n \o <<"ref">> : kw \in {"manifests", "blobs"}}
Plain(n) == \A i \in 1..Len(n) : n[i] \notin Keywords
----------------------------------------------------------------------------
(* One image, one answer: whether it is named in a catalog, asked for by its
   request path or listed by its stored path, the same selector decides, also for
   an image whose name begins with a word of the protocol (the stored path of such
   an image is excepted). *)
ListingsAgree ==
  \A repo \in DOMAIN Repos : Repos[repo].oci =>
    \A n \in Images :
      LET shown == n \in FilterOCIImageNames(repo)
      IN  /\ \A p \in Live(n) : CanAccessRepo(repo, p, "browse") = shown
          /\ Plain(n) => /\ FilterAssets(repo, Stored(n)) = (IF shown THEN Stored(n) ELSE {})
                         /\ FilterDockerRows(repo, {[image |-> n, path |-> p] : p \in Stored(n)}) # {} <=> shown

(* Nothing that can be read is in a repository the listing hides, and no entry of
   the catalog is in one of those. *)
NothingHidden ==
  \A repo \in DOMAIN Repos, n \in Images :
    /\ RBACMiddleware(repo, n, "GET") => repo \in FilterRepos
    /\ <<repo, n>> \in DockerCatalog => repo \in FilterRepos

(* Taking away never gives: deleting a selector, a privilege or a role, or
   detaching a selector, lets the user do nothing the user could not do before.  A
   privilege that loses its selector grants nothing, not everything. *)
WidensNot ==
  Withdraw => \A repo \in DOMAIN Repos, n \in Images, a \in Actions :
    (CanAccessRepo(repo, n, a))' => CanAccessRepo(repo, n, a)
NeverWidens == [][WidensNot]_vars
=============================================================================
