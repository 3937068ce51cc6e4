----------------------------- MODULE Membership -----------------------------
(***************************************************************************)
(* Users, members and API keys of one tenant and one workspace in it:      *)
(* get_or_provision_user, the role checks of apps/api/deps/rbac.py, and    *)
(* the handlers of apps/api/routers/{tenants,workspaces,auth}.py. Each     *)
(* request is one transaction at READ COMMITTED. get_db_session commits it *)
(* in the exit of a dependency, which FastAPI (0.141 in uv.lock) runs when *)
(* the response has been sent: what the commit flushes, and whether it     *)
(* succeeds, is decided after the client was told of success.              *)
(*                                                                         *)
(* A definition followed by one of the same parameters under its plain     *)
(* name is a fault of that code; no action uses one.                       *)
(***************************************************************************)
EXTENDS Naturals, FiniteSets

CONSTANTS
    Users,     \* subjects of the identity provider; a users row is its subject
    Twins,     \* users whose tokens carry one and the same email address
    Requests,  \* requests that may be under way at the same time
    Grants,    \* ranks that request bodies name
    MaxRows,   \* bound on the audit_log rows that say something new
    None       \* no row; the user of a request that came with an API key

ASSUME UserAssumption == Twins \subseteq Users /\ None \notin Users

Scopes == {"tenant", "workspace"}

\* packages/auth/rbac.py: member 0, admin 1, owner 2 of a tenant; viewer 0,
\* editor 1, owner 2 of a workspace.
Ranks == 0..2
Owner == 2
ASSUME RankAssumption == Grants \subseteq Ranks /\ None \notin Ranks
ASSUME RowsAssumption == MaxRows \in Nat

\* require_tenant_role("admin"), require_workspace_role("owner")
MinRank == [tenant |-> 1, workspace |-> Owner]

VARIABLES
    account,  \* users that have a committed row
    role,     \* scope -> user -> rank of the member row; None: no row
    audit,    \* scope -> user -> what the audit_log rows about that member say
    held,     \* scope -> user -> ranks the member row has ever had (a history)
    key,      \* the API key of the tenant
    request   \* request -> what its session and its handler hold

vars == <<account, role, audit, held, key, request>>

PCs == {"idle", "provisioning", "identified", "authorized", "answered"}
MemberActions == {"add", "role_change", "remove"}
Actions == MemberActions \cup
    {"create_tenant", "create_workspace", "create_key", "revoke_key", "read"}

\* An "add" or "role_change" row names a rank, a "remove" row none. The rows
\* have no order but created_at, the start of their transaction: of requests
\* that overlap it does not tell who committed last. So they are a set.
AuditRows == Ranks \cup {None}
ASSUME NoneAssumption == None \notin Scopes \cup Actions

\* inserted: the session has flushed a users row. loaded: the rank of the row
\* that session.get returned.
RequestStates ==
    [pc : PCs, user : Users \cup {None}, inserted : BOOLEAN,
     scope : Scopes \cup {None}, action : Actions \cup {None},
     target : Users \cup {None}, rank : Ranks \cup {None},
     loaded : Ranks \cup {None}]

Idle == [pc |-> "idle", user |-> None, inserted |-> FALSE, scope |-> None,
         action |-> None, target |-> None, rank |-> None, loaded |-> None]

TypeOK ==
    /\ account \subseteq Users
    /\ role \in [Scopes -> [Users -> Ranks \cup {None}]]
    /\ audit \in [Scopes -> [Users -> SUBSET AuditRows]]
    /\ held \in [Scopes -> [Users -> SUBSET Ranks]]
    /\ key \in {"absent", "active", "revoked"}
    /\ request \in [Requests -> RequestStates]

Init ==
    /\ account = {}
    /\ role = [s \in Scopes |-> [u \in Users |-> None]]
    /\ audit = [s \in Scopes |-> [u \in Users |-> {}]]
    /\ held = [s \in Scopes |-> [u \in Users |-> {}]]
    /\ key = "absent"
    /\ request = [r \in Requests |-> Idle]

\* The tenant or the workspace has been created: it has had a member.
Exists(s) == \E u \in Users : held[s][u] # {}

Set(r, q) == request' = [request EXCEPT ![r] = q]

-----------------------------------------------------------------------------
(* Who asks: get_or_provision_user, then the role                          *)

Conflict(u, w) == u = w \/ {u, w} \subseteq Twins

LookUpUser(r, u) ==
    /\ request[r] = Idle
    /\ Set(r, [Idle EXCEPT !.pc = IF u \in account THEN "identified" ELSE "provisioning",
                           !.user = u])
    /\ UNCHANGED <<account, role, audit, held, key>>

\* A row of the same subject or email that another session has inserted and
\* not yet committed makes the flush wait.
RowIsHeld(r) ==
    \E q \in Requests \ {r} :
        request[q].inserted /\ Conflict(request[q].user, request[r].user)
RowIsTakenBySubject(r) == request[r].user \in account
RowIsTaken(r) == \E w \in account : Conflict(w, request[r].user)

InsertUser(r) ==
    /\ request[r].pc = "provisioning"
    /\ ~RowIsHeld(r)
    /\ ~RowIsTaken(r)
    /\ Set(r, [request[r] EXCEPT !.pc = "identified", !.inserted = TRUE])
    /\ UNCHANGED <<account, role, audit, held, key>>

\* IntegrityError, rollback, and the subject is looked up again. If the
\* conflict was on the email there is no such row: user is None, its first
\* use raises.
FoundAgainByEmail(r) == RowIsTaken(r)
FoundAgain(r) == request[r].user \in account

RequeryUser(r) ==
    /\ request[r].pc = "provisioning"
    /\ RowIsTaken(r)
    /\ Set(r, IF FoundAgain(r) THEN [request[r] EXCEPT !.pc = "identified"] ELSE Idle)
    /\ UNCHANGED <<account, role, audit, held, key>>

\* Any member row will do.
AuthorizeMember(r, s) ==
    /\ request[r].pc = "identified"
    /\ role[s][request[r].user] # None
    /\ Set(r, [request[r] EXCEPT !.pc = "authorized", !.scope = s])
    /\ UNCHANGED <<account, role, audit, held, key>>

\* The caller's rank is read from the committed member row.
Authorize(r, s) ==
    /\ request[r].pc = "identified"
    /\ role[s][request[r].user] # None
    /\ role[s][request[r].user] >= MinRank[s]
    /\ Set(r, [request[r] EXCEPT !.pc = "authorized", !.scope = s])
    /\ UNCHANGED <<account, role, audit, held, key>>

\* An API key stands for an owner of its tenant.
AuthorizeKey(r) ==
    /\ request[r] = Idle
    /\ key = "active"
    /\ Set(r, [Idle EXCEPT !.pc = "authorized", !.scope = "tenant"])
    /\ UNCHANGED <<account, role, audit, held, key>>

-----------------------------------------------------------------------------
(* The handlers, up to the response                                        *)

Answer(r, action) ==
    [request[r] EXCEPT !.pc = "answered", !.action = action]

\* The slug is unique and flushed, the id of a workspace is drawn: no two
\* sessions create the same one.
Creating(action) == \E q \in Requests : request[q].action = action

CreateTenant(r) ==
    /\ request[r].pc = "identified"
    /\ ~Exists("tenant") /\ ~Creating("create_tenant")
    /\ Set(r, Answer(r, "create_tenant"))
    /\ UNCHANGED <<account, role, audit, held, key>>

CreateWorkspace(r) ==
    /\ request[r].pc = "authorized" /\ request[r].scope = "tenant"
    /\ request[r].user # None
    /\ ~Exists("workspace") /\ ~Creating("create_workspace")
    /\ Set(r, Answer(r, "create_workspace"))
    /\ UNCHANGED <<account, role, audit, held, key>>

\* GET /tenants, GET of workspaces or keys: only a new users row is committed.
Read(r) ==
    /\ request[r].pc = "identified"
    /\ Set(r, Answer(r, "read"))
    /\ UNCHANGED <<account, role, audit, held, key>>

\* Bound of the model: what the audit log says, or will say by a request.
Logged ==
    {n \in Scopes \X Users \X AuditRows :
        \/ n[3] \in audit[n[1]][n[2]]
        \/ \E q \in Requests : n = <<request[q].scope, request[q].target, request[q].rank>>}
MayLog(r, t, k) == Cardinality(Logged \cup {<<request[r].scope, t, k>>}) <= MaxRows

\* session.add: nothing is sent to the database before the commit.
AddMember(r, t, k) ==
    /\ request[r].pc = "authorized"
    /\ MayLog(r, t, k)
    /\ Set(r, [Answer(r, "add") EXCEPT !.target = t, !.rank = k])
    /\ UNCHANGED <<account, role, audit, held, key>>

\* Without a row the handler raises.
UpdateMemberRole(r, t, k) ==
    /\ request[r].pc = "authorized"
    /\ MayLog(r, t, k)
    /\ role[request[r].scope][t] # None
    /\ Set(r, [Answer(r, "role_change") EXCEPT
                  !.target = t, !.rank = k, !.loaded = role[request[r].scope][t]])
    /\ UNCHANGED <<account, role, audit, held, key>>

RemoveMember(r, t) ==
    /\ request[r].pc = "authorized"
    /\ MayLog(r, t, None)
    /\ role[request[r].scope][t] # None
    /\ Set(r, [Answer(r, "remove") EXCEPT
                  !.target = t, !.loaded = role[request[r].scope][t]])
    /\ UNCHANGED <<account, role, audit, held, key>>

CreateApiKey(r) ==
    /\ request[r].pc = "authorized" /\ request[r].scope = "tenant"
    /\ request[r].user # None
    /\ key = "absent" /\ ~Creating("create_key")
    /\ Set(r, Answer(r, "create_key"))
    /\ UNCHANGED <<account, role, audit, held, key>>

RevokeApiKey(r) ==
    /\ request[r].pc = "authorized" /\ request[r].scope = "tenant"
    /\ key # "absent"
    /\ Set(r, Answer(r, "revoke_key"))
    /\ UNCHANGED <<account, role, audit, held, key>>

-----------------------------------------------------------------------------
(* The commit, after the response                                          *)

\* The users rows of the transaction: its own too, if it inserted one.
Visible(r) == account \cup {u \in Users : request[r].inserted /\ u = request[r].user}

CommittedForAnyone(r) ==
    /\ account' = account \cup {request[r].user}
    /\ Set(r, Idle)
Committed(r) ==
    /\ account' = Visible(r)
    /\ Set(r, Idle)

\* The member row and its audit row become visible together.
Holds(s, u, k) == held' = [held EXCEPT ![s][u] = @ \cup ({k} \ {None})]
PutRowUnlogged(q, k) ==
    /\ role' = [role EXCEPT ![q.scope][q.target] = k]
    /\ Holds(q.scope, q.target, k)
    /\ UNCHANGED <<audit, key>>
PutRow(q, k) ==
    /\ role' = [role EXCEPT ![q.scope][q.target] = k]
    /\ audit' = [audit EXCEPT ![q.scope][q.target] = @ \cup {q.rank}]
    /\ Holds(q.scope, q.target, k)
    /\ UNCHANGED key

CommitCreation(r, s) ==
    /\ request[r].pc = "answered"
    /\ request[r].action = IF s = "tenant" THEN "create_tenant" ELSE "create_workspace"
    /\ role' = [role EXCEPT ![s][request[r].user] = Owner]
    /\ Holds(s, request[r].user, Owner)
    /\ Committed(r)
    /\ UNCHANGED <<audit, key>>

CommitRead(r) ==
    /\ request[r].pc = "answered" /\ request[r].action = "read"
    /\ Committed(r)
    /\ UNCHANGED <<role, audit, held, key>>

\* Primary key and foreign key: otherwise the INSERT fails (Fail).
CanInsertAnyone(r) == role[request[r].scope][request[r].target] = None
CanInsert(r) ==
    /\ role[request[r].scope][request[r].target] = None
    /\ request[r].target \in Visible(r)

CommitAdd(r) ==
    /\ request[r].pc = "answered" /\ request[r].action = "add"
    /\ CanInsert(r)
    /\ PutRow(request[r], request[r].rank)
    /\ Committed(r)

\* The UPDATE that finds no row passes unnoticed.
CommitRoleChangeBlind(r) ==
    LET q == request[r]
        now == role[q.scope][q.target]
    IN  /\ q.pc = "answered" /\ q.action = "role_change"
        /\ PutRow(q, IF q.rank # q.loaded /\ now # None THEN q.rank ELSE now)
        /\ Committed(r)

\* No UPDATE is sent when the rank is the one that was loaded, whatever has
\* become of the row. One that finds no row is a StaleDataError (Fail).
CommitRoleChange(r) ==
    LET q == request[r]
        now == role[q.scope][q.target]
    IN  /\ q.pc = "answered" /\ q.action = "role_change"
        /\ q.rank # q.loaded => now # None
        /\ PutRow(q, IF q.rank # q.loaded THEN q.rank ELSE now)
        /\ Committed(r)

\* A DELETE that finds no row only warns.
CommitRemove(r) ==
    /\ request[r].pc = "answered" /\ request[r].action = "remove"
    /\ PutRow(request[r], None)
    /\ Committed(r)

CommitApiKey(r) ==
    /\ request[r].pc = "answered" /\ request[r].action \in {"create_key", "revoke_key"}
    /\ key' = IF request[r].action = "create_key" THEN "active" ELSE "revoked"
    /\ Committed(r)
    /\ UNCHANGED <<role, audit, held>>

\* The caller is rejected, the handler raises, the client goes away, or a
\* statement of the commit fails: rollback, the row inserted for the user too.
Fail(r) ==
    /\ request[r] # Idle
    /\ Set(r, Idle)
    /\ UNCHANGED <<account, role, audit, held, key>>

Commit(r) ==
    \/ \E s \in Scopes : CommitCreation(r, s)
    \/ CommitRead(r)
    \/ CommitAdd(r)
    \/ CommitRoleChange(r)
    \/ CommitRemove(r)
    \/ CommitApiKey(r)

Handle(r) ==
    \/ CreateTenant(r)
    \/ CreateWorkspace(r)
    \/ Read(r)
    \/ \E t \in Users, k \in Grants : AddMember(r, t, k)
    \/ \E t \in Users, k \in Grants : UpdateMemberRole(r, t, k)
    \/ \E t \in Users : RemoveMember(r, t)
    \/ CreateApiKey(r)
    \/ RevokeApiKey(r)

Continue(r) ==
    \/ InsertUser(r)
    \/ RequeryUser(r)
    \/ \E s \in Scopes : Authorize(r, s)
    \/ Handle(r)
    \/ Commit(r)
    \/ Fail(r)

Next ==
    \/ \E r \in Requests, u \in Users : LookUpUser(r, u)
    \/ \E r \in Requests : AuthorizeKey(r)
    \/ \E r \in Requests : Continue(r)

Spec == Init /\ [][Next]_vars

-----------------------------------------------------------------------------

\* The audit log, read without an order, tells who has been what, whichever
\* requests overlap or fail late: it names no rank that the member never held
\* and no removal of one who never was a member; every rank held is named but
\* the creator's; and nobody is gone without a removal.
LogTellsRanksHeld ==
    \A s \in Scopes :
        /\ \A u \in Users :
              /\ audit[s][u] \ {None} \subseteq held[s][u]
              /\ held[s][u] \ audit[s][u] \subseteq {Owner}
              /\ audit[s][u] # {} => held[s][u] # {}
              /\ held[s][u] # {} /\ role[s][u] = None => None \in audit[s][u]
        /\ \A u, w \in Users :
              /\ ~(held[s][u] \subseteq audit[s][u])
              /\ ~(held[s][w] \subseteq audit[s][w])
              => u = w

\* A request past get_or_provision_user acts for a user whose row exists, in
\* the database or in its own transaction, also when it lost a race.
IdentityIsReal ==
    \A r \in Requests :
        request[r].pc \in {"identified", "authorized", "answered"} =>
            request[r].user \in Visible(r) \cup {None}

\* Members are users: no membership outlives or precedes its account.
MembersHaveAccounts ==
    \A s \in Scopes, u \in Users : role[s][u] # None => u \in account

\* One account per subject and per email address, although the lookup and the
\* insert are apart.
AccountsDiffer == \A u, w \in account : Conflict(u, w) => u = w

\* Who may change the members of s: one of sufficient rank, the holder of an
\* API key, or a request that was let in while its caller still could.
Managed(s) ==
    \/ \E u \in Users : role[s][u] # None /\ role[s][u] >= MinRank[s]
    \/ s = "tenant" /\ key = "active"
    \/ \E r \in Requests : request[r].scope = s

\* No right arises from nothing: when the last of them is gone, be it by
\* overlapping removals, no request changes the members ever again.
UnmanagedIsFrozen ==
    [][\A s \in Scopes :
           Exists(s) /\ ~Managed(s) => ~Managed(s)' /\ role'[s] = role[s]]_vars
=============================================================================
