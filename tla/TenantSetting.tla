--------------------------- MODULE TenantSetting ---------------------------
(***************************************************************************)
(* The setting app.current_tenant_id of a Postgres connection, which the   *)
(* row level security policies of the tenant tables compare with tenant_id.*)
(* Postgres undoes a set_config with its transaction, be it local or not;  *)
(* only one that is not local outlives the commit.                         *)
(***************************************************************************)
CONSTANT None  \* no tenant: the setting is absent or the empty string

\* seen: what statements of the open transaction see. pending: what a commit
\* will leave. kept: what a rollback goes back to.
Settings(T) == [seen : T \cup {None}, pending : T \cup {None}, kept : T \cup {None}]

Unset == [seen |-> None, pending |-> None, kept |-> None]

\* set_tenant_scope(local=True) and set_tenant_scope_sync(local=False).
SetLocal(s, t) == [s EXCEPT !.seen = t]
SetSession(s, t) == [s EXCEPT !.seen = t, !.pending = t]

AfterCommit(s) == [seen |-> s.pending, pending |-> s.pending, kept |-> s.pending]
AfterRollback(s) == [seen |-> s.kept, pending |-> s.kept, kept |-> s.kept]

\* Policy tenant_isolation, as USING of a SELECT and as WITH CHECK of an
\* INSERT: no setting matches no row.
Admits(s, t) == t # None /\ s.seen = t
=============================================================================
