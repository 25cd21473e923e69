----------------------------- MODULE AccessScope -----------------------------
(***************************************************************************)
(* The effective scope of a user (AccessScopeService) and the filters that *)
(* the repositories derive from it, over the rows that are read.  A path   *)
(* is the sequence of the company ids it names.                            *)
(***************************************************************************)
EXTENDS Sequences, SequencesExt

CONSTANTS NoTenant, NoCompany

GlobalScope == [isGlobal |-> TRUE, tenantIds |-> {}, companyIds |-> {}, companyPaths |-> {}]

\* rows: the memberships of the user; paths: the path column, by company
Resolve(rows, paths) ==
  LET active == {m \in rows : m.status = "ACTIVE"}
      ids == {m.company : m \in active} \ {NoCompany}
  IN IF \E m \in active : m.scope = "GLOBAL"
       THEN GlobalScope
       ELSE [isGlobal |-> FALSE,
             tenantIds |-> {m.tenant : m \in active} \ {NoTenant},
             companyIds |-> ids,
             companyPaths |-> {paths[c] : c \in ids}]

CanAccessTenant(scope, tenant) == scope.isGlobal \/ tenant \in scope.tenantIds

\* paths are only looked at when the scope names no tenant
CompanyVisible(scope, tenant, path) ==
  \/ scope.isGlobal
  \/ scope.tenantIds # {} /\ tenant \in scope.tenantIds
  \/ scope.tenantIds = {} /\ \E p \in scope.companyPaths : IsPrefix(p, path)
=============================================================================
